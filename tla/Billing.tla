------------------------------ MODULE Billing ------------------------------
(***************************************************************************)
(* One invoice from its draft to its end, the payments of the client, the  *)
(* earnings of the guardians who worked, and their payouts.                *)
(*                                                                         *)
(* None of these handlers takes a lock or compares a version: each reads   *)
(* rows, decides, and writes them later by their id.  A request is a       *)
(* sequence of steps of a clerk, one per read that decides something and   *)
(* one per statement or transaction that writes; op[c] is its place in it. *)
(* With one clerk in office requests run one after another, each to its    *)
(* end or to a crash; with more their steps interleave.                    *)
(*                                                                         *)
(* The job is done and its invoice drafted, which JobLifecycle models up   *)
(* to.  Amounts are left out: whether an earning can be computed depends   *)
(* on the guardian's rate alone.  A payout names one earning of this       *)
(* invoice; what else of the guardian it names belongs to other invoices.  *)
(***************************************************************************)
EXTENDS Naturals, FiniteSets

CONSTANTS
    Clerks,         \* request handlers and outbox workers of the server processes
    Offices,        \* which clerks may be at work together, and whether they crash
    Payments,       \* idempotency keys of the client's payments
    Payouts,        \* idempotency keys of payouts
    MaxAssignments, \* completed assignments of the job, in the order of arrival
    Unrated         \* assignments whose guardian has no hourly pay rate

ASSUME SomeOffice == Offices \subseteq (SUBSET Clerks) \X BOOLEAN
ASSUME KeysAreKeys == "none" \notin Payments \cup Payouts
ASSUME SomeWork == MaxAssignments \in Nat \ {0} /\ Unrated \subseteq 1 .. MaxAssignments

Assignments == 1 .. MaxAssignments

InvoiceStatus == {"DRAFT", "PENDING_CONFIRMATION", "ISSUED", "DISPUTED", "VOID", "PAID"}
ISSUABLE == {"DRAFT", "PENDING_CONFIRMATION"}

(* OVERDUE and PARTIALLY_PAID are disputable and payable too, but nothing  *)
(* in the code sets them.                                                  *)
DISPUTABLE == {"DRAFT", "PENDING_CONFIRMATION", "ISSUED"}
PAYABLE == {"ISSUED"}

EarningStatus == {"none", "PENDING_PAYOUT", "BLOCKED", "CANCELLED", "PAID"}

VARIABLES
    office,     \* the clerks at work, chosen once
    mayCrash,   \* whether they crash between steps, chosen once
    invoice,    \* invoices.status
    before,     \* invoices.statusBeforeDispute
    awaiting,   \* the job is AWAITING_CONFIRMATION, not yet COMPLETED
    autoConfirm,\* outbox event JOB_BILLING_AUTO_CONFIRM
    payment,    \* payments.status per idempotency key
    earning,    \* guardian_earnings.status per assignment
    payoutOf,   \* guardian_earnings.payoutId
    payout,     \* guardian_payouts.status per idempotency key
    names,      \* what the amount of a payout was computed from
    op

chosen == <<office, mayCrash>>
bill == <<invoice, before>>
job == <<awaiting, autoConfirm>>
payroll == <<earning, payoutOf, payout, names>>
vars == <<chosen, bill, job, payment, payroll, op>>

(* A clerk is at a stage of a request, with the invoice status it read,    *)
(* the payment or payout it is about, and the assignment it has reached;   *)
(* auto is for the outbox worker, which has an event to mark.              *)
At(stage) == [at |-> stage, was |-> "none", key |-> "none", row |-> 0, auto |-> FALSE]
Idle == At("idle")
Stands(c, stage) == op[c].at = stage
Goes(c, place) == op' = [op EXCEPT ![c] = place]
Moves(c, stage) == op' = [op EXCEPT ![c].at = stage]
Ends(c) == Goes(c, Idle)

(* A confirmation ends: the worker marks its event. *)
EndsMarking(c, mark) ==
    /\ Ends(c)
    /\ autoConfirm' = IF op[c].auto THEN mark ELSE autoConfirm

-----------------------------------------------------------------------------
(* BillingService.createDraftInvoiceForJob has just run. *)
Init ==
    /\ \E o \in Offices : office = o[1] /\ mayCrash = o[2]
    /\ invoice = "DRAFT" /\ before = "none"
    /\ awaiting = TRUE /\ autoConfirm = "PENDING"
    /\ payment = [p \in Payments |-> "none"]
    /\ earning = [a \in Assignments |-> "none"]
    /\ payoutOf = [a \in Assignments |-> "none"]
    /\ payout = [k \in Payouts |-> "none"]
    /\ names = [k \in Payouts |-> 0]
    /\ op = [c \in Clerks |-> Idle]

-----------------------------------------------------------------------------
(* The client's first look at the invoice, GET /invoices/:id. *)
ViewRead(c) ==
    /\ invoice = "DRAFT"
    /\ Goes(c, At("view"))
    /\ UNCHANGED <<chosen, bill, job, payment, payroll>>

ViewWrite(c) ==
    /\ Stands(c, "view")
    /\ invoice' = "PENDING_CONFIRMATION"
    /\ Ends(c)
    /\ UNCHANGED <<chosen, before, job, payment, payroll>>

(* POST /jobs/:id/complete by the client, and the outbox worker on its     *)
(* event, which looks at the invoice as well.                              *)
ClientConfirms(c) ==
    /\ Goes(c, At(IF awaiting THEN "confirm" ELSE "issueRead"))
    /\ UNCHANGED <<chosen, bill, job, payment, payroll>>

WorkerConfirms(c) ==
    /\ autoConfirm = "PENDING" /\ awaiting /\ invoice \in ISSUABLE
    /\ autoConfirm' = "PROCESSING"
    /\ Goes(c, [At("confirm") EXCEPT !.auto = TRUE])
    /\ UNCHANGED <<chosen, bill, awaiting, payment, payroll>>

(* Mutant: the event is dropped once the client has looked at the invoice. *)
WorkerSkipsViewed ==
    /\ autoConfirm = "PENDING" /\ ~(awaiting /\ invoice = "DRAFT")
    /\ autoConfirm' = "COMPLETED"
    /\ UNCHANGED <<chosen, bill, awaiting, payment, payroll, op>>

WorkerSkips ==
    /\ autoConfirm = "PENDING" /\ ~(awaiting /\ invoice \in ISSUABLE)
    /\ autoConfirm' = "COMPLETED"
    /\ UNCHANGED <<chosen, bill, awaiting, payment, payroll, op>>

(* confirmBilling.  Who finds the job COMPLETED by another's confirmation  *)
(* goes on as if the confirmation were its own.                            *)
Confirm(c) ==
    /\ Stands(c, "confirm")
    /\ awaiting' = FALSE
    /\ Moves(c, "issueRead")
    /\ UNCHANGED <<chosen, bill, autoConfirm, payment, payroll>>

(* issueIfDraft: a disputed invoice is an error; one that is issued, paid  *)
(* or void is left as it is.                                               *)
IssueRead(c) ==
    /\ Stands(c, "issueRead") /\ invoice \in ISSUABLE
    /\ Moves(c, "issue")
    /\ UNCHANGED <<chosen, bill, job, payment, payroll>>

IssueRefused(c) ==
    /\ Stands(c, "issueRead") /\ invoice \notin ISSUABLE
    /\ EndsMarking(c, IF invoice = "DISPUTED" THEN "FAILED" ELSE "COMPLETED")
    /\ UNCHANGED <<chosen, bill, awaiting, payment, payroll>>

IssueWrite(c) ==
    /\ Stands(c, "issue")
    /\ invoice' = "ISSUED"
    /\ EndsMarking(c, "COMPLETED")
    /\ UNCHANGED <<chosen, before, awaiting, payment, payroll>>

(* POST /invoices/:id/issue by staff, without the job. *)
StaffIssues(c) ==
    /\ Goes(c, At("issueRead"))
    /\ UNCHANGED <<chosen, bill, job, payment, payroll>>

-----------------------------------------------------------------------------
(* Mutant: no check for a paid invoice. *)
VoidReadPaid(c) ==
    /\ invoice # "VOID"
    /\ Goes(c, At("void"))
    /\ UNCHANGED <<chosen, bill, job, payment, payroll>>

(* voidInvoice, also for resolveDispute with action VOID, and its          *)
(* cancelEarningsForInvoice, which looks for pending earnings first.       *)
VoidRead(c) ==
    /\ invoice \notin {"VOID", "PAID"}
    /\ Goes(c, At("void"))
    /\ UNCHANGED <<chosen, bill, job, payment, payroll>>

VoidWrite(c) ==
    /\ Stands(c, "void")
    /\ invoice' = "VOID"
    /\ Moves(c, "cancelRead")
    /\ UNCHANGED <<chosen, before, job, payment, payroll>>

CancelRead(c) ==
    /\ Stands(c, "cancelRead")
    /\ IF \E a \in Assignments : earning[a] = "PENDING_PAYOUT"
       THEN Moves(c, "cancel") ELSE Ends(c)
    /\ UNCHANGED <<chosen, bill, job, payment, payroll>>

CancelEarnings(c) ==
    /\ Stands(c, "cancel")
    /\ earning' = [a \in Assignments |->
                      IF earning[a] = "PENDING_PAYOUT" THEN "CANCELLED" ELSE earning[a]]
    /\ Ends(c)
    /\ UNCHANGED <<chosen, bill, job, payment, payoutOf, payout, names>>

(* Mutant: no check of the status that is disputed. *)
DisputeReadAny(c) ==
    /\ invoice # "DISPUTED"
    /\ Goes(c, [At("dispute") EXCEPT !.was = invoice])
    /\ UNCHANGED <<chosen, bill, job, payment, payroll>>

DisputeRead(c) ==
    /\ invoice \in DISPUTABLE
    /\ Goes(c, [At("dispute") EXCEPT !.was = invoice])
    /\ UNCHANGED <<chosen, bill, job, payment, payroll>>

DisputeWrite(c) ==
    /\ Stands(c, "dispute")
    /\ invoice' = "DISPUTED" /\ before' = op[c].was
    /\ Ends(c)
    /\ UNCHANGED <<chosen, job, payment, payroll>>

(* resolveDispute with action CLEAR. *)
ClearRead(c) ==
    /\ invoice = "DISPUTED"
    /\ Goes(c, [At("clear") EXCEPT
                  !.was = IF before = "none" THEN "PENDING_CONFIRMATION" ELSE before])
    /\ UNCHANGED <<chosen, bill, job, payment, payroll>>

ClearWrite(c) ==
    /\ Stands(c, "clear")
    /\ invoice' = op[c].was
    /\ Ends(c)
    /\ UNCHANGED <<chosen, before, job, payment, payroll>>

-----------------------------------------------------------------------------
(* createPayment.  The unique idempotency key turns a second insert into   *)
(* the payment that is there.                                              *)
CreatePaymentRead(c, p) ==
    /\ payment[p] = "none" /\ invoice \in PAYABLE
    /\ Goes(c, [At("pay") EXCEPT !.key = p])
    /\ UNCHANGED <<chosen, bill, job, payment, payroll>>

(* Mutant: the invoice is paid when the client starts to pay. *)
CreatePaymentPaying(c) ==
    /\ Stands(c, "pay")
    /\ payment' = [payment EXCEPT ![op[c].key] = "PENDING"] /\ invoice' = "PAID"
    /\ Moves(c, "accrue")
    /\ UNCHANGED <<chosen, before, job, payroll>>

CreatePaymentWrite(c) ==
    /\ Stands(c, "pay")
    /\ payment' = IF payment[op[c].key] = "none"
                  THEN [payment EXCEPT ![op[c].key] = "PENDING"] ELSE payment
    /\ Ends(c)
    /\ UNCHANGED <<chosen, bill, job, payroll>>

(* confirmPayment looks at neither status, and may be repeated. *)
ConfirmPayment(c, p) ==
    /\ payment[p] # "none"
    /\ payment' = [payment EXCEPT ![p] = "COMPLETED"]
    /\ invoice' = "PAID"
    /\ Goes(c, At("accrue"))
    /\ UNCHANGED <<chosen, before, job, payroll>>

(* accrueForPaidInvoice: assignment by assignment, those passed over that  *)
(* have an earning, which is never deleted.                                *)
AccrueRead(c) ==
    /\ Stands(c, "accrue")
    /\ IF invoice = "PAID" THEN Moves(c, "earn") ELSE Ends(c)
    /\ UNCHANGED <<chosen, bill, job, payment, payroll>>

EarningMissing(c, a) ==
    /\ Stands(c, "earn") /\ op[c].row < a /\ earning[a] = "none"
    /\ \A b \in Assignments : op[c].row < b /\ b < a => earning[b] # "none"
    /\ Goes(c, [At("earnWrite") EXCEPT !.row = a])
    /\ UNCHANGED <<chosen, bill, job, payment, payroll>>

AllAccrued(c) ==
    /\ Stands(c, "earn")
    /\ \A b \in Assignments : op[c].row < b => earning[b] # "none"
    /\ Ends(c)
    /\ UNCHANGED <<chosen, bill, job, payment, payroll>>

(* Mutant: an upsert instead of a create. *)
EarningUpsert(c) ==
    LET a == op[c].row IN
    /\ Stands(c, "earnWrite")
    /\ earning' = [earning EXCEPT ![a] =
                      IF a \in Unrated THEN "BLOCKED" ELSE "PENDING_PAYOUT"]
    /\ Moves(c, "earn")
    /\ UNCHANGED <<chosen, bill, job, payment, payoutOf, payout, names>>

(* Mutant: the loop returns after the first earning. *)
EarningCreateOnce(c) ==
    LET a == op[c].row IN
    /\ Stands(c, "earnWrite") /\ earning[a] = "none"
    /\ earning' = [earning EXCEPT ![a] =
                      IF a \in Unrated THEN "BLOCKED" ELSE "PENDING_PAYOUT"]
    /\ Ends(c)
    /\ UNCHANGED <<chosen, bill, job, payment, payoutOf, payout, names>>

EarningCreate(c) ==
    LET a == op[c].row IN
    /\ Stands(c, "earnWrite") /\ earning[a] = "none"
    /\ earning' = [earning EXCEPT ![a] =
                      IF a \in Unrated THEN "BLOCKED" ELSE "PENDING_PAYOUT"]
    /\ Moves(c, "earn")
    /\ UNCHANGED <<chosen, bill, job, payment, payoutOf, payout, names>>

(* assignmentId is unique: whoever comes second throws, and gives up. *)
EarningDuplicate(c) ==
    /\ Stands(c, "earnWrite") /\ earning[op[c].row] # "none"
    /\ Ends(c)
    /\ UNCHANGED <<chosen, bill, job, payment, payroll>>

-----------------------------------------------------------------------------
(* createPayout: pending earnings, whether or not a payout names them.     *)
CreatePayoutRead(c, k, a) ==
    /\ payout[k] = "none" /\ earning[a] = "PENDING_PAYOUT"
    /\ Goes(c, [At("payout") EXCEPT !.key = k, !.row = a])
    /\ UNCHANGED <<chosen, bill, job, payment, payroll>>

CreatePayoutWrite(c) ==
    LET k == op[c].key  a == op[c].row IN
    /\ Stands(c, "payout") /\ payout[k] = "none"
    /\ payout' = [payout EXCEPT ![k] = "PENDING"]
    /\ names' = [names EXCEPT ![k] = a]
    /\ payoutOf' = [payoutOf EXCEPT ![a] = k]
    /\ Ends(c)
    /\ UNCHANGED <<chosen, bill, job, payment, earning>>

CreatePayoutDuplicate(c) ==
    /\ Stands(c, "payout") /\ payout[op[c].key] # "none"
    /\ Ends(c)
    /\ UNCHANGED <<chosen, bill, job, payment, payroll>>

(* confirmPayout pays whatever carries its id by now. *)
ConfirmPayoutRead(c, k) ==
    /\ payout[k] = "PENDING"
    /\ Goes(c, [At("disburse") EXCEPT !.key = k])
    /\ UNCHANGED <<chosen, bill, job, payment, payroll>>

(* Mutant: the payout itself is left as it is. *)
ConfirmPayoutWriteEarnings(c) ==
    LET k == op[c].key IN
    /\ Stands(c, "disburse")
    /\ earning' = [a \in Assignments |-> IF payoutOf[a] = k THEN "PAID" ELSE earning[a]]
    /\ Ends(c)
    /\ UNCHANGED <<chosen, bill, job, payment, payoutOf, payout, names>>

ConfirmPayoutWrite(c) ==
    LET k == op[c].key IN
    /\ Stands(c, "disburse")
    /\ payout' = [payout EXCEPT ![k] = "COMPLETED"]
    /\ earning' = [a \in Assignments |-> IF payoutOf[a] = k THEN "PAID" ELSE earning[a]]
    /\ Ends(c)
    /\ UNCHANGED <<chosen, bill, job, payment, payoutOf, names>>

-----------------------------------------------------------------------------
Crash(c) ==
    /\ mayCrash /\ op[c] # Idle
    /\ Ends(c)
    /\ UNCHANGED <<chosen, bill, job, payment, payroll>>

Continue(c) ==
    \/ ViewWrite(c) \/ Confirm(c)
    \/ IssueRead(c) \/ IssueRefused(c) \/ IssueWrite(c)
    \/ VoidWrite(c) \/ CancelRead(c) \/ CancelEarnings(c)
    \/ DisputeWrite(c) \/ ClearWrite(c)
    \/ CreatePaymentWrite(c) \/ AccrueRead(c)
    \/ (\E a \in Assignments : EarningMissing(c, a)) \/ AllAccrued(c)
    \/ EarningCreate(c) \/ EarningDuplicate(c)
    \/ CreatePayoutWrite(c) \/ CreatePayoutDuplicate(c) \/ ConfirmPayoutWrite(c)

Ask(c) ==
    /\ op[c] = Idle
    /\ \/ ViewRead(c) \/ ClientConfirms(c) \/ StaffIssues(c)
       \/ VoidRead(c) \/ DisputeRead(c) \/ ClearRead(c)
       \/ \E p \in Payments : CreatePaymentRead(c, p) \/ ConfirmPayment(c, p)
       \/ \E k \in Payouts : \/ ConfirmPayoutRead(c, k)
                              \/ \E a \in Assignments : CreatePayoutRead(c, k, a)

Poll(c) == op[c] = Idle /\ WorkerConfirms(c)

Next ==
    \/ WorkerSkips
    \/ \E c \in office : Continue(c) \/ Ask(c) \/ Poll(c) \/ Crash(c)

Spec == Init /\ [][Next]_vars

(* A request that has begun goes on, unless its process dies; the outbox   *)
(* worker comes round to its event, however busy the process is.           *)
FairSpec ==
    /\ Spec
    /\ WF_vars(WorkerSkips)
    /\ \A c \in Clerks : WF_vars(c \in office /\ Continue(c)) /\ SF_vars(c \in office /\ Poll(c))

-----------------------------------------------------------------------------
Stages == {"idle", "view", "confirm", "issueRead", "issue", "void", "cancelRead", "cancel",
           "dispute", "clear", "pay", "accrue", "earn", "earnWrite", "payout", "disburse"}
RowStages == {"earnWrite", "payout"}

(* Rows and requests have the types the code gives them. *)
TypeOK ==
    /\ office \subseteq Clerks /\ mayCrash \in BOOLEAN
    /\ invoice \in InvoiceStatus /\ before \in DISPUTABLE \cup {"none"}
    /\ awaiting \in BOOLEAN
    /\ autoConfirm \in {"PENDING", "PROCESSING", "COMPLETED", "FAILED"}
    /\ payment \in [Payments -> {"none", "PENDING", "COMPLETED"}]
    /\ earning \in [Assignments -> EarningStatus]
    /\ payoutOf \in [Assignments -> Payouts \cup {"none"}]
    /\ payout \in [Payouts -> {"none", "PENDING", "COMPLETED"}]
    /\ names \in [Payouts -> Assignments \cup {0}]
    /\ op \in [Clerks -> [at : Stages, was : DISPUTABLE \cup {"none"},
                          key : Payments \cup Payouts \cup {"none"},
                          row : Assignments \cup {0}, auto : BOOLEAN]]
    /\ \A c \in Clerks : /\ Stands(c, "dispute") \/ Stands(c, "clear") => op[c].was # "none"
                         /\ Stands(c, "pay") => op[c].key \in Payments
                         /\ Stands(c, "payout") \/ Stands(c, "disburse") => op[c].key \in Payouts
                         /\ op[c].at \in RowStages => op[c].row # 0

Alone == \E c \in Clerks : office = {c}
Paid == \E p \in Payments : payment[p] = "COMPLETED"

(* One request after another, wherever they crash: a paid invoice is never *)
(* voided, disputed, issued again or put back to what it was before.       *)
PaidIsFinal == [][Alone /\ invoice = "PAID" => invoice' = "PAID"]_vars

(* However requests overlap, no money goes out to a guardian for this      *)
(* invoice before money of the client came in for it.                      *)
NoPayoutWithoutPayment ==
    \A k \in Payouts : payout[k] = "COMPLETED" /\ names[k] # 0 => Paid

(* However requests overlap and payouts are moved between each other, a    *)
(* paid earning is part of the amount of a payout that was made.           *)
PaidEarningsAccounted ==
    \A a \in Assignments :
        earning[a] = "PAID" => \E k \in Payouts : payout[k] = "COMPLETED" /\ names[k] = a

(* However requests overlap: a guardian without a rate is never paid, and  *)
(* neither a cancellation nor a second accrual touches what is paid.       *)
EarningsMove ==
    [][\A a \in Assignments : earning'[a] # earning[a] =>
           \/ earning[a] = "none" /\ earning'[a] \in {"PENDING_PAYOUT", "BLOCKED"}
           \/ earning[a] = "PENDING_PAYOUT" /\ earning'[a] \in {"CANCELLED", "PAID"}
           \/ earning[a] = "CANCELLED" /\ earning'[a] = "PAID" /\ ~Alone]_vars

(* While no process dies, every guardian of an invoice that stays paid     *)
(* gets an earning, also when payments are confirmed at the same time and  *)
(* one accrual fails on the rows of the other.                             *)
AccrualFollowsPayment ==
    ~mayCrash /\ invoice = "PAID" ~>
        invoice # "PAID" \/ \A a \in Assignments : earning[a] # "none"

(* One request after another and none dying: an invoice nobody disputes or *)
(* voids is issued, by the client or by the event of the outbox.           *)
UndisputedGetsIssued ==
    Alone /\ ~mayCrash /\ invoice \in ISSUABLE /\ before = "none" ~>
        invoice \notin ISSUABLE \/ before # "none"

=============================================================================
