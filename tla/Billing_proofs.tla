--------------------------- MODULE Billing_proofs ---------------------------
(***************************************************************************)
(* Theorems about Billing, for any number of clerks, payments, payouts and *)
(* assignments: its types; no money out before money in; every earning     *)
(* paid is accounted for; and what is final stays so.                      *)
(***************************************************************************)
EXTENDS Billing, TLAPS

(* What a clerk may have in hand at each stage. *)
OpRecords == [at : Stages, was : DISPUTABLE \cup {"none"},
              key : Payments \cup Payouts \cup {"none"},
              row : Assignments \cup {0}, auto : BOOLEAN]
InHand == {r \in OpRecords : /\ r.at \in {"dispute", "clear"} => r.was # "none"
                             /\ r.at = "pay" => r.key \in Payments
                             /\ r.at \in {"payout", "disburse"} => r.key \in Payouts
                             /\ r.at \in RowStages => r.row # 0}

OpTyped == op \in [Clerks -> InHand]
RowsTyped ==
    /\ office \subseteq Clerks /\ mayCrash \in BOOLEAN
    /\ invoice \in InvoiceStatus /\ before \in DISPUTABLE \cup {"none"}
    /\ awaiting \in BOOLEAN
    /\ autoConfirm \in {"PENDING", "PROCESSING", "COMPLETED", "FAILED"}
    /\ payment \in [Payments -> {"none", "PENDING", "COMPLETED"}]
    /\ earning \in [Assignments -> EarningStatus]
    /\ payoutOf \in [Assignments -> Payouts \cup {"none"}]
    /\ payout \in [Payouts -> {"none", "PENDING", "COMPLETED"}]
    /\ names \in [Payouts -> Assignments \cup {0}]

(* The two parts are the type invariant. *)
LEMMA TypeParts == TypeOK <=> RowsTyped /\ OpTyped
  <1>1. OpTyped <=> /\ op \in [Clerks -> OpRecords]
                    /\ \A c \in Clerks : op[c] \in InHand
    BY DEF OpTyped, InHand
  <1> QED
    BY <1>1 DEF TypeOK, RowsTyped, OpRecords, InHand, Stands

(* Stages that need nothing in hand. *)
Plain == Stages \ {"dispute", "clear", "pay", "payout", "disburse", "earnWrite"}

(* A request that moves to a stage with nothing in hand is well-formed.    *)
LEMMA MovesTyped ==
    ASSUME OpTyped, NEW c \in Clerks, NEW s \in Plain, Moves(c, s)
    PROVE  OpTyped'
  <1>1. op[c] \in InHand
    BY DEF OpTyped
  <1>2. [op[c] EXCEPT !.at = s] \in InHand
    BY <1>1 DEF InHand, OpRecords, Plain, RowStages
  <1> QED
    BY <1>2 DEF Moves, OpTyped

(* A request that goes on with a well-formed record is well-formed.        *)
LEMMA GoesTyped ==
    ASSUME OpTyped, NEW c \in Clerks, NEW r \in InHand, Goes(c, r)
    PROVE  OpTyped'
  BY DEF Goes, OpTyped

(* A request that ends leaves a well-formed record. *)
LEMMA EndsTyped ==
    ASSUME OpTyped, NEW c \in Clerks, Ends(c)
    PROVE  OpTyped'
  <1>1. Idle \in InHand
    BY DEF Idle, At, InHand, OpRecords, Stages, RowStages
  <1> QED
    BY <1>1, GoesTyped DEF Ends

(* Every step keeps the types of the rows. *)
LEMMA RowsStep ==
  ASSUME RowsTyped, OpTyped, [Next]_vars
  PROVE  RowsTyped'
  <1>1. CASE UNCHANGED vars
    BY <1>1 DEF vars, chosen, bill, job, payroll, RowsTyped
  <1>2. CASE WorkerSkips
    BY <1>2 DEF WorkerSkips, chosen, bill, payroll, RowsTyped
  <1>3. ASSUME NEW c \in office, Continue(c) PROVE RowsTyped'
    <2> USE <1>3, SomeWork DEF RowsTyped, OpTyped, InHand, OpRecords, Stages, RowStages, InvoiceStatus,
                ISSUABLE, DISPUTABLE, EarningStatus, Stands, EndsMarking, chosen, bill, job, payroll
    <2>1. CASE ViewWrite(c)
      BY <2>1 DEF ViewWrite
    <2>2. CASE Confirm(c)
      BY <2>2 DEF Confirm
    <2>3. CASE IssueRead(c)
      BY <2>3 DEF IssueRead
    <2>4. CASE IssueRefused(c)
      BY <2>4 DEF IssueRefused
    <2>5. CASE IssueWrite(c)
      BY <2>5 DEF IssueWrite
    <2>6. CASE VoidWrite(c)
      BY <2>6 DEF VoidWrite
    <2>7. CASE CancelRead(c)
      BY <2>7 DEF CancelRead
    <2>8. CASE CancelEarnings(c)
      BY <2>8 DEF CancelEarnings
    <2>9. CASE DisputeWrite(c)
      BY <2>9 DEF DisputeWrite
    <2>10. CASE ClearWrite(c)
      BY <2>10 DEF ClearWrite
    <2>11. CASE CreatePaymentWrite(c)
      BY <2>11 DEF CreatePaymentWrite
    <2>12. CASE AccrueRead(c)
      BY <2>12 DEF AccrueRead
    <2>13. ASSUME NEW a \in Assignments, EarningMissing(c, a) PROVE RowsTyped'
      BY <2>13 DEF EarningMissing
    <2>14. CASE AllAccrued(c)
      BY <2>14 DEF AllAccrued
    <2>15. CASE EarningCreate(c)
      BY <2>15 DEF EarningCreate
    <2>16. CASE EarningDuplicate(c)
      BY <2>16 DEF EarningDuplicate
    <2>17. CASE CreatePayoutWrite(c)
      BY <2>17 DEF CreatePayoutWrite
    <2>18. CASE CreatePayoutDuplicate(c)
      BY <2>18 DEF CreatePayoutDuplicate
    <2>19. CASE ConfirmPayoutWrite(c)
      BY <2>19 DEF ConfirmPayoutWrite
    <2> QED
      BY <1>3, <2>1, <2>2, <2>3, <2>4, <2>5, <2>6, <2>7, <2>8, <2>9, <2>10, <2>11, <2>12,
               <2>13, <2>14, <2>15, <2>16, <2>17, <2>18, <2>19
            DEF Continue
  <1>4. ASSUME NEW c \in office, op[c] = Idle, Ask(c) PROVE RowsTyped'
    <2> USE <1>4, SomeWork DEF RowsTyped, OpTyped, InHand, OpRecords, Stages, RowStages, InvoiceStatus,
                ISSUABLE, DISPUTABLE, EarningStatus, Stands, EndsMarking, chosen, bill, job, payroll
    <2>1. CASE ViewRead(c)
      BY <2>1 DEF ViewRead
    <2>2. CASE ClientConfirms(c)
      BY <2>2 DEF ClientConfirms
    <2>3. CASE StaffIssues(c)
      BY <2>3 DEF StaffIssues
    <2>4. CASE VoidRead(c)
      BY <2>4 DEF VoidRead
    <2>5. CASE DisputeRead(c)
      BY <2>5 DEF DisputeRead
    <2>6. CASE ClearRead(c)
      BY <2>6 DEF ClearRead
    <2>7. ASSUME NEW p \in Payments, CreatePaymentRead(c, p) PROVE RowsTyped'
      BY <2>7 DEF CreatePaymentRead
    <2>8. ASSUME NEW p \in Payments, ConfirmPayment(c, p) PROVE RowsTyped'
      BY <2>8 DEF ConfirmPayment
    <2>9. ASSUME NEW k \in Payouts, ConfirmPayoutRead(c, k) PROVE RowsTyped'
      BY <2>9 DEF ConfirmPayoutRead
    <2>10. ASSUME NEW k \in Payouts, NEW a \in Assignments, CreatePayoutRead(c, k, a) PROVE RowsTyped'
      BY <2>10 DEF CreatePayoutRead
    <2> QED
      BY <1>4, <2>1, <2>2, <2>3, <2>4, <2>5, <2>6, <2>7, <2>8, <2>9, <2>10
            DEF Ask
  <1>5. ASSUME NEW c \in office, Poll(c) PROVE RowsTyped'
    BY <1>5 DEF Poll, WorkerConfirms, RowsTyped, chosen, bill, job, payroll
  <1>6. ASSUME NEW c \in office, Crash(c) PROVE RowsTyped'
    BY <1>6 DEF Crash, RowsTyped, chosen, bill, job, payroll
  <1> QED
    BY <1>1, <1>2, <1>3, <1>4, <1>5, <1>6 DEF Next, Ask

(* Every step keeps the types of requests. *)
LEMMA OpStep ==
  ASSUME RowsTyped, OpTyped, [Next]_vars
  PROVE  OpTyped'
  <1> USE DEF Stages, Plain
  <1>0. office \subseteq Clerks /\ (\A a \in Assignments : a # 0) /\ before \in DISPUTABLE \cup {"none"}
    BY DEF RowsTyped, Assignments
  <1>1. CASE UNCHANGED vars
    BY <1>1 DEF vars, OpTyped
  <1>2. CASE WorkerSkips
    BY <1>2 DEF WorkerSkips, OpTyped
  <1>3. ASSUME NEW c \in office, Continue(c) PROVE OpTyped'
    <2>1. CASE ViewWrite(c)
      BY <1>0, <1>3, <2>1, EndsTyped DEF ViewWrite, EndsMarking
    <2>2. CASE Confirm(c)
      BY <1>0, <1>3, <2>2, MovesTyped DEF Confirm
    <2>3. CASE IssueRead(c)
      BY <1>0, <1>3, <2>3, MovesTyped DEF IssueRead
    <2>4. CASE IssueRefused(c)
      BY <1>0, <1>3, <2>4, EndsTyped DEF IssueRefused, EndsMarking
    <2>5. CASE IssueWrite(c)
      BY <1>0, <1>3, <2>5, EndsTyped DEF IssueWrite, EndsMarking
    <2>6. CASE VoidWrite(c)
      BY <1>0, <1>3, <2>6, MovesTyped DEF VoidWrite
    <2>7. CASE CancelRead(c)
      BY <1>0, <1>3, <2>7, MovesTyped, EndsTyped DEF CancelRead
    <2>8. CASE CancelEarnings(c)
      BY <1>0, <1>3, <2>8, EndsTyped DEF CancelEarnings, EndsMarking
    <2>9. CASE DisputeWrite(c)
      BY <1>0, <1>3, <2>9, EndsTyped DEF DisputeWrite, EndsMarking
    <2>10. CASE ClearWrite(c)
      BY <1>0, <1>3, <2>10, EndsTyped DEF ClearWrite, EndsMarking
    <2>11. CASE CreatePaymentWrite(c)
      BY <1>0, <1>3, <2>11, EndsTyped DEF CreatePaymentWrite, EndsMarking
    <2>12. CASE AccrueRead(c)
      BY <1>0, <1>3, <2>12, MovesTyped, EndsTyped DEF AccrueRead
    <2>13. ASSUME NEW a \in Assignments, EarningMissing(c, a) PROVE OpTyped'
      BY <1>0, <1>3, <2>13, GoesTyped DEF EarningMissing, At, InHand, OpRecords, RowStages, Assignments
    <2>14. CASE AllAccrued(c)
      BY <1>0, <1>3, <2>14, EndsTyped DEF AllAccrued, EndsMarking
    <2>15. CASE EarningCreate(c)
      BY <1>0, <1>3, <2>15, MovesTyped DEF EarningCreate
    <2>16. CASE EarningDuplicate(c)
      BY <1>0, <1>3, <2>16, EndsTyped DEF EarningDuplicate, EndsMarking
    <2>17. CASE CreatePayoutWrite(c)
      BY <1>0, <1>3, <2>17, EndsTyped DEF CreatePayoutWrite, EndsMarking
    <2>18. CASE CreatePayoutDuplicate(c)
      BY <1>0, <1>3, <2>18, EndsTyped DEF CreatePayoutDuplicate, EndsMarking
    <2>19. CASE ConfirmPayoutWrite(c)
      BY <1>0, <1>3, <2>19, EndsTyped DEF ConfirmPayoutWrite, EndsMarking
    <2> QED
      BY <1>3, <2>1, <2>2, <2>3, <2>4, <2>5, <2>6, <2>7, <2>8, <2>9, <2>10, <2>11, <2>12,
               <2>13, <2>14, <2>15, <2>16, <2>17, <2>18, <2>19
            DEF Continue
  <1>4. ASSUME NEW c \in office, op[c] = Idle, Ask(c) PROVE OpTyped'
    <2>1. CASE ViewRead(c)
      BY <1>0, <1>4, <2>1, GoesTyped DEF ViewRead, At, InHand, OpRecords, RowStages, Assignments
    <2>2. CASE ClientConfirms(c)
      BY <1>0, <1>4, <2>2, GoesTyped DEF ClientConfirms, At, InHand, OpRecords, RowStages
    <2>3. CASE StaffIssues(c)
      BY <1>0, <1>4, <2>3, GoesTyped DEF StaffIssues, At, InHand, OpRecords, RowStages, Assignments
    <2>4. CASE VoidRead(c)
      BY <1>0, <1>4, <2>4, GoesTyped DEF VoidRead, At, InHand, OpRecords, RowStages, Assignments
    <2>5. CASE DisputeRead(c)
      BY <1>0, <1>4, <2>5, GoesTyped
       DEF DisputeRead, At, InHand, OpRecords, RowStages, DISPUTABLE, Assignments
    <2>6. CASE ClearRead(c)
      BY <1>0, <1>4, <2>6, GoesTyped
       DEF ClearRead, At, InHand, OpRecords, RowStages, DISPUTABLE, Assignments
    <2>7. ASSUME NEW p \in Payments, CreatePaymentRead(c, p) PROVE OpTyped'
      BY <1>0, <1>4, <2>7, GoesTyped DEF CreatePaymentRead, At, InHand, OpRecords, RowStages
    <2>8. ASSUME NEW p \in Payments, ConfirmPayment(c, p) PROVE OpTyped'
      BY <1>0, <1>4, <2>8, GoesTyped DEF ConfirmPayment, At, InHand, OpRecords, RowStages
    <2>9. ASSUME NEW k \in Payouts, ConfirmPayoutRead(c, k) PROVE OpTyped'
      BY <1>0, <1>4, <2>9, GoesTyped DEF ConfirmPayoutRead, At, InHand, OpRecords, RowStages
    <2>10. ASSUME NEW k \in Payouts, NEW a \in Assignments, CreatePayoutRead(c, k, a) PROVE OpTyped'
      BY <1>0, <1>4, <2>10, GoesTyped DEF CreatePayoutRead, At, InHand, OpRecords, RowStages, Assignments
    <2> QED
      BY <1>4, <2>1, <2>2, <2>3, <2>4, <2>5, <2>6, <2>7, <2>8, <2>9, <2>10
            DEF Ask
  <1>5. ASSUME NEW c \in office, Poll(c) PROVE OpTyped'
    BY <1>0, <1>5, GoesTyped DEF Poll, WorkerConfirms, At, InHand, OpRecords, RowStages
  <1>6. ASSUME NEW c \in office, Crash(c) PROVE OpTyped'
    BY <1>0, <1>6, EndsTyped DEF Crash
  <1> QED
    BY <1>1, <1>2, <1>3, <1>4, <1>5, <1>6 DEF Next, Ask

(* However requests overlap, there are no earnings, no payouts and nobody  *)
(* who works at either, unless a payment was confirmed.                    *)
PaidFirst ==
    \/ Paid
    \/ /\ invoice # "PAID"
       /\ \A a \in Assignments : earning[a] = "none"
       /\ \A k \in Payouts : payout[k] = "none"
       /\ \A c \in Clerks : op[c].at \notin {"accrue", "earn", "earnWrite", "payout", "disburse"}

(* A payout that an earning carries names it, was created, and will not be *)
(* created again; only earnings that may be paid carry one.                *)
Accounted ==
    /\ \A a \in Assignments :
           /\ payoutOf[a] # "none" => /\ names[payoutOf[a]] = a /\ payout[payoutOf[a]] # "none"
                                      /\ earning[a] \notin {"none", "BLOCKED"}
           /\ earning[a] = "PAID" => \E k \in Payouts : payout[k] = "COMPLETED" /\ names[k] = a
    /\ \A c \in Clerks :
           /\ op[c].at = "payout" => earning[op[c].row] \notin {"none", "BLOCKED"}
           /\ op[c].at = "disburse" => payout[op[c].key] # "none"

(* A clerk alone is at work on the status it read, so earnings exist of a  *)
(* paid invoice only, and none is cancelled.                               *)
InTurn ==
    Alone => \A c \in office :
        /\ \A a \in Assignments : earning[a] # "none" => invoice = "PAID" /\ earning[a] # "CANCELLED"
        /\ op[c].at \in {"accrue", "earn", "earnWrite"} => invoice = "PAID"
        /\ op[c].at \in {"view", "issue", "void", "cancelRead", "cancel", "dispute", "clear"} =>
               invoice # "PAID"

(* No step earns or pays out before a payment. *)
LEMMA PaidFirstStep ==
  ASSUME RowsTyped, OpTyped, PaidFirst, [Next]_vars
  PROVE  PaidFirst'
  <1>0. /\ office \subseteq Clerks /\ OpTyped
        /\ payment \in [Payments -> {"none", "PENDING", "COMPLETED"}]
        /\ \A c \in Clerks : op[c].at = "pay" => op[c].key \in Payments
        /\ \A c \in Clerks : op[c].at = "clear" => op[c].was # "PAID"
    BY DEF RowsTyped, OpTyped, InHand, OpRecords, DISPUTABLE
  <1>1. CASE UNCHANGED vars
    BY <1>0, <1>1 DEF vars, chosen, bill, job, payroll, PaidFirst, Paid
  <1>2. CASE WorkerSkips
    BY <1>0, <1>2 DEF WorkerSkips, chosen, bill, payroll, PaidFirst, Paid
  <1>3. ASSUME NEW c \in office, Continue(c) PROVE PaidFirst'
    <2> USE <1>0 DEF PaidFirst, Paid, At, Idle, Goes, Ends, Moves, Stands,
                EndsMarking, chosen, bill, job, payroll
    <2>1. CASE ViewWrite(c)
      BY <1>3, <2>1 DEF ViewWrite
    <2>2. CASE Confirm(c)
      BY <1>3, <2>2 DEF Confirm
    <2>3. CASE IssueRead(c)
      BY <1>3, <2>3 DEF IssueRead
    <2>4. CASE IssueRefused(c)
      BY <1>3, <2>4 DEF IssueRefused
    <2>5. CASE IssueWrite(c)
      BY <1>3, <2>5 DEF IssueWrite
    <2>6. CASE VoidWrite(c)
      BY <1>3, <2>6 DEF VoidWrite
    <2>7. CASE CancelRead(c)
      <3>1. c \in Clerks /\ op'[c].at \in {"cancel", "idle"}
        BY <1>3, <2>7 DEF CancelRead, OpTyped, InHand, OpRecords
      <3>2. \A d \in Clerks : d # c => op'[d] = op[d]
        BY <1>3, <2>7 DEF CancelRead, OpTyped, InHand, OpRecords
      <3> QED
        BY <1>3, <2>7, <3>1, <3>2 DEF CancelRead
    <2>8. CASE CancelEarnings(c)
      BY <1>3, <2>8 DEF CancelEarnings
    <2>9. CASE DisputeWrite(c)
      BY <1>3, <2>9 DEF DisputeWrite
    <2>10. CASE ClearWrite(c)
      BY <1>3, <2>10 DEF ClearWrite
    <2>11. CASE CreatePaymentWrite(c)
      BY <1>3, <2>11 DEF CreatePaymentWrite
    <2>12. CASE AccrueRead(c)
      BY <1>3, <2>12 DEF AccrueRead
    <2>13. ASSUME NEW a \in Assignments, EarningMissing(c, a) PROVE PaidFirst'
      BY <1>3, <2>13 DEF EarningMissing
    <2>14. CASE AllAccrued(c)
      BY <1>3, <2>14 DEF AllAccrued
    <2>15. CASE EarningCreate(c)
      BY <1>3, <2>15 DEF EarningCreate
    <2>16. CASE EarningDuplicate(c)
      BY <1>3, <2>16 DEF EarningDuplicate
    <2>17. CASE CreatePayoutWrite(c)
      BY <1>3, <2>17 DEF CreatePayoutWrite
    <2>18. CASE CreatePayoutDuplicate(c)
      BY <1>3, <2>18 DEF CreatePayoutDuplicate
    <2>19. CASE ConfirmPayoutWrite(c)
      BY <1>3, <2>19 DEF ConfirmPayoutWrite
    <2> QED
      BY <1>3, <2>1, <2>2, <2>3, <2>4, <2>5, <2>6, <2>7, <2>8, <2>9, <2>10, <2>11, <2>12,
               <2>13, <2>14, <2>15, <2>16, <2>17, <2>18, <2>19
            DEF Continue
  <1>4. ASSUME NEW c \in office, op[c] = Idle, Ask(c) PROVE PaidFirst'
    <2> USE <1>0 DEF PaidFirst, Paid, At, Idle, Goes, Ends, Moves, Stands,
                EndsMarking, chosen, bill, job, payroll
    <2>1. CASE ViewRead(c)
      BY <1>4, <2>1 DEF ViewRead
    <2>2. CASE ClientConfirms(c)
      BY <1>4, <2>2 DEF ClientConfirms
    <2>3. CASE StaffIssues(c)
      BY <1>4, <2>3 DEF StaffIssues
    <2>4. CASE VoidRead(c)
      BY <1>4, <2>4 DEF VoidRead
    <2>5. CASE DisputeRead(c)
      BY <1>4, <2>5 DEF DisputeRead
    <2>6. CASE ClearRead(c)
      BY <1>4, <2>6 DEF ClearRead
    <2>7. ASSUME NEW p \in Payments, CreatePaymentRead(c, p) PROVE PaidFirst'
      BY <1>4, <2>7 DEF CreatePaymentRead
    <2>8. ASSUME NEW p \in Payments, ConfirmPayment(c, p) PROVE PaidFirst'
      BY <1>4, <2>8 DEF ConfirmPayment
    <2>9. ASSUME NEW k \in Payouts, ConfirmPayoutRead(c, k) PROVE PaidFirst'
      BY <1>4, <2>9 DEF ConfirmPayoutRead
    <2>10. ASSUME NEW k \in Payouts, NEW a \in Assignments, CreatePayoutRead(c, k, a) PROVE PaidFirst'
      BY <1>4, <2>10 DEF CreatePayoutRead
    <2> QED
      BY <1>4, <2>1, <2>2, <2>3, <2>4, <2>5, <2>6, <2>7, <2>8, <2>9, <2>10
            DEF Ask
  <1>5. ASSUME NEW c \in office, Poll(c) PROVE PaidFirst'
    BY <1>0, <1>5 DEF Poll, WorkerConfirms, PaidFirst, Paid, At, Idle, Goes, Ends, Moves, Stands,
                EndsMarking, chosen, bill, job, payroll
  <1>6. ASSUME NEW c \in office, Crash(c) PROVE PaidFirst'
    BY <1>0, <1>6 DEF Crash, PaidFirst, Paid, At, Idle, Goes, Ends, Moves, Stands,
                EndsMarking, chosen, bill, job, payroll
  <1> QED
    BY <1>1, <1>2, <1>3, <1>4, <1>5, <1>6 DEF Next, Ask

(* No step lets a payout be without its earnings, or they without it. *)
LEMMA AccountedStep ==
  ASSUME RowsTyped, OpTyped, Accounted, [Next]_vars
  PROVE  Accounted'
  <1>0. RowsTyped /\ OpTyped /\ Accounted /\ KeysAreKeys
    BY KeysAreKeys
  <1>1. CASE UNCHANGED vars
    BY <1>0, <1>1 DEF vars, chosen, bill, job, payroll, Accounted
  <1>2. CASE WorkerSkips
    BY <1>0, <1>2 DEF WorkerSkips, chosen, bill, payroll, Accounted
  <1>3. ASSUME NEW c \in office, Continue(c) PROVE Accounted'
    <2> USE <1>0 DEF Accounted, At, Idle, Goes, Ends, Moves, Stands,
                EndsMarking, chosen, bill, job, payroll, RowsTyped, OpTyped, InHand,
                OpRecords, RowStages, EarningStatus
    <2>1. CASE ViewWrite(c)
      BY <1>3, <2>1 DEF ViewWrite
    <2>2. CASE Confirm(c)
      BY <1>3, <2>2 DEF Confirm
    <2>3. CASE IssueRead(c)
      BY <1>3, <2>3 DEF IssueRead
    <2>4. CASE IssueRefused(c)
      BY <1>3, <2>4 DEF IssueRefused
    <2>5. CASE IssueWrite(c)
      BY <1>3, <2>5 DEF IssueWrite
    <2>6. CASE VoidWrite(c)
      BY <1>3, <2>6 DEF VoidWrite
    <2>7. CASE CancelRead(c)
      BY <1>3, <2>7 DEF CancelRead
    <2>8. CASE CancelEarnings(c)
      BY <1>3, <2>8 DEF CancelEarnings
    <2>9. CASE DisputeWrite(c)
      BY <1>3, <2>9 DEF DisputeWrite
    <2>10. CASE ClearWrite(c)
      BY <1>3, <2>10 DEF ClearWrite
    <2>11. CASE CreatePaymentWrite(c)
      BY <1>3, <2>11 DEF CreatePaymentWrite
    <2>12. CASE AccrueRead(c)
      BY <1>3, <2>12 DEF AccrueRead
    <2>13. ASSUME NEW a \in Assignments, EarningMissing(c, a) PROVE Accounted'
      BY <1>3, <2>13 DEF EarningMissing
    <2>14. CASE AllAccrued(c)
      BY <1>3, <2>14 DEF AllAccrued
    <2>15. CASE EarningCreate(c)
      BY <1>3, <2>15 DEF EarningCreate
    <2>16. CASE EarningDuplicate(c)
      BY <1>3, <2>16 DEF EarningDuplicate
    <2>17. CASE CreatePayoutWrite(c)
      BY <1>3, <2>17 DEF CreatePayoutWrite, KeysAreKeys
    <2>18. CASE CreatePayoutDuplicate(c)
      BY <1>3, <2>18 DEF CreatePayoutDuplicate
    <2>19. CASE ConfirmPayoutWrite(c)
      BY <1>3, <2>19 DEF ConfirmPayoutWrite, KeysAreKeys
    <2> QED
      BY <1>3, <2>1, <2>2, <2>3, <2>4, <2>5, <2>6, <2>7, <2>8, <2>9, <2>10, <2>11, <2>12,
               <2>13, <2>14, <2>15, <2>16, <2>17, <2>18, <2>19
            DEF Continue
  <1>4. ASSUME NEW c \in office, op[c] = Idle, Ask(c) PROVE Accounted'
    <2> USE <1>0 DEF Accounted, At, Idle, Goes, Ends, Moves, Stands,
                EndsMarking, chosen, bill, job, payroll, RowsTyped, OpTyped, InHand,
                OpRecords, RowStages, EarningStatus
    <2>1. CASE ViewRead(c)
      BY <1>4, <2>1 DEF ViewRead
    <2>2. CASE ClientConfirms(c)
      BY <1>4, <2>2 DEF ClientConfirms
    <2>3. CASE StaffIssues(c)
      BY <1>4, <2>3 DEF StaffIssues
    <2>4. CASE VoidRead(c)
      BY <1>4, <2>4 DEF VoidRead
    <2>5. CASE DisputeRead(c)
      BY <1>4, <2>5 DEF DisputeRead
    <2>6. CASE ClearRead(c)
      BY <1>4, <2>6 DEF ClearRead
    <2>7. ASSUME NEW p \in Payments, CreatePaymentRead(c, p) PROVE Accounted'
      BY <1>4, <2>7 DEF CreatePaymentRead
    <2>8. ASSUME NEW p \in Payments, ConfirmPayment(c, p) PROVE Accounted'
      BY <1>4, <2>8 DEF ConfirmPayment
    <2>9. ASSUME NEW k \in Payouts, ConfirmPayoutRead(c, k) PROVE Accounted'
      BY <1>4, <2>9 DEF ConfirmPayoutRead, KeysAreKeys
    <2>10. ASSUME NEW k \in Payouts, NEW a \in Assignments, CreatePayoutRead(c, k, a) PROVE Accounted'
      BY <1>4, <2>10 DEF CreatePayoutRead
    <2> QED
      BY <1>4, <2>1, <2>2, <2>3, <2>4, <2>5, <2>6, <2>7, <2>8, <2>9, <2>10
            DEF Ask
  <1>5. ASSUME NEW c \in office, Poll(c) PROVE Accounted'
    BY <1>0, <1>5 DEF Poll, WorkerConfirms, Accounted, At, Idle, Goes, Ends, Moves, Stands,
                EndsMarking, chosen, bill, job, payroll, RowsTyped, OpTyped, InHand,
                OpRecords, RowStages, EarningStatus
  <1>6. ASSUME NEW c \in office, Crash(c) PROVE Accounted'
    BY <1>0, <1>6 DEF Crash, Accounted, At, Idle, Goes, Ends, Moves, Stands,
                EndsMarking, chosen, bill, job, payroll, RowsTyped, OpTyped, InHand,
                OpRecords, RowStages, EarningStatus
  <1> QED
    BY <1>1, <1>2, <1>3, <1>4, <1>5, <1>6 DEF Next, Ask

(* No step of a clerk alone acts on a status that is not that of now. *)
LEMMA InTurnStep ==
  ASSUME RowsTyped, OpTyped, Accounted, InTurn, [Next]_vars
  PROVE  InTurn'
  <1>0. RowsTyped /\ OpTyped /\ InTurn /\ Accounted
    OBVIOUS
  <1>1. CASE UNCHANGED vars
    BY <1>0, <1>1 DEF vars, chosen, bill, job, payroll, InTurn, Alone
  <1>2. CASE WorkerSkips
    BY <1>0, <1>2 DEF WorkerSkips, chosen, bill, payroll, InTurn, Alone
  <1>3. ASSUME NEW c \in office, Continue(c) PROVE InTurn'
    <2> USE <1>0 DEF InTurn, Alone, At, Idle, Goes, Ends, Moves, Stands,
                EndsMarking, chosen, bill, job, payroll, RowsTyped, OpTyped, InHand,
                OpRecords, EarningStatus, ISSUABLE, DISPUTABLE, PAYABLE
    <2>1. CASE ViewWrite(c)
      BY <1>3, <2>1 DEF ViewWrite
    <2>2. CASE Confirm(c)
      BY <1>3, <2>2 DEF Confirm
    <2>3. CASE IssueRead(c)
      BY <1>3, <2>3 DEF IssueRead
    <2>4. CASE IssueRefused(c)
      BY <1>3, <2>4 DEF IssueRefused
    <2>5. CASE IssueWrite(c)
      BY <1>3, <2>5 DEF IssueWrite
    <2>6. CASE VoidWrite(c)
      BY <1>3, <2>6 DEF VoidWrite
    <2>7. CASE CancelRead(c)
      BY <1>3, <2>7 DEF CancelRead
    <2>8. CASE CancelEarnings(c)
      BY <1>3, <2>8 DEF CancelEarnings
    <2>9. CASE DisputeWrite(c)
      BY <1>3, <2>9 DEF DisputeWrite
    <2>10. CASE ClearWrite(c)
      BY <1>3, <2>10 DEF ClearWrite
    <2>11. CASE CreatePaymentWrite(c)
      BY <1>3, <2>11 DEF CreatePaymentWrite
    <2>12. CASE AccrueRead(c)
      BY <1>3, <2>12 DEF AccrueRead
    <2>13. ASSUME NEW a \in Assignments, EarningMissing(c, a) PROVE InTurn'
      BY <1>3, <2>13 DEF EarningMissing
    <2>14. CASE AllAccrued(c)
      BY <1>3, <2>14 DEF AllAccrued
    <2>15. CASE EarningCreate(c)
      BY <1>3, <2>15 DEF EarningCreate
    <2>16. CASE EarningDuplicate(c)
      BY <1>3, <2>16 DEF EarningDuplicate
    <2>17. CASE CreatePayoutWrite(c)
      BY <1>3, <2>17 DEF CreatePayoutWrite
    <2>18. CASE CreatePayoutDuplicate(c)
      BY <1>3, <2>18 DEF CreatePayoutDuplicate
    <2>19. CASE ConfirmPayoutWrite(c)
      BY <1>3, <2>19, KeysAreKeys DEF ConfirmPayoutWrite, Accounted
    <2> QED
      BY <1>3, <2>1, <2>2, <2>3, <2>4, <2>5, <2>6, <2>7, <2>8, <2>9, <2>10, <2>11, <2>12,
               <2>13, <2>14, <2>15, <2>16, <2>17, <2>18, <2>19
            DEF Continue
  <1>4. ASSUME NEW c \in office, op[c] = Idle, Ask(c) PROVE InTurn'
    <2> USE <1>0 DEF InTurn, Alone, At, Idle, Goes, Ends, Moves, Stands,
                EndsMarking, chosen, bill, job, payroll, RowsTyped, OpTyped, InHand,
                OpRecords, EarningStatus, ISSUABLE, DISPUTABLE, PAYABLE
    <2>1. CASE ViewRead(c)
      BY <1>4, <2>1 DEF ViewRead
    <2>2. CASE ClientConfirms(c)
      BY <1>4, <2>2 DEF ClientConfirms
    <2>3. CASE StaffIssues(c)
      BY <1>4, <2>3 DEF StaffIssues
    <2>4. CASE VoidRead(c)
      BY <1>4, <2>4 DEF VoidRead
    <2>5. CASE DisputeRead(c)
      BY <1>4, <2>5 DEF DisputeRead
    <2>6. CASE ClearRead(c)
      BY <1>4, <2>6 DEF ClearRead
    <2>7. ASSUME NEW p \in Payments, CreatePaymentRead(c, p) PROVE InTurn'
      BY <1>4, <2>7 DEF CreatePaymentRead
    <2>8. ASSUME NEW p \in Payments, ConfirmPayment(c, p) PROVE InTurn'
      BY <1>4, <2>8 DEF ConfirmPayment
    <2>9. ASSUME NEW k \in Payouts, ConfirmPayoutRead(c, k) PROVE InTurn'
      BY <1>4, <2>9 DEF ConfirmPayoutRead
    <2>10. ASSUME NEW k \in Payouts, NEW a \in Assignments, CreatePayoutRead(c, k, a) PROVE InTurn'
      BY <1>4, <2>10 DEF CreatePayoutRead
    <2> QED
      BY <1>4, <2>1, <2>2, <2>3, <2>4, <2>5, <2>6, <2>7, <2>8, <2>9, <2>10
            DEF Ask
  <1>5. ASSUME NEW c \in office, Poll(c) PROVE InTurn'
    BY <1>0, <1>5 DEF Poll, WorkerConfirms, InTurn, Alone, At, Idle, Goes, Ends, Moves, Stands,
                EndsMarking, chosen, bill, job, payroll, RowsTyped, OpTyped, InHand,
                OpRecords, EarningStatus, ISSUABLE, DISPUTABLE, PAYABLE
  <1>6. ASSUME NEW c \in office, Crash(c) PROVE InTurn'
    BY <1>0, <1>6 DEF Crash, InTurn, Alone, At, Idle, Goes, Ends, Moves, Stands,
                EndsMarking, chosen, bill, job, payroll, RowsTyped, OpTyped, InHand,
                OpRecords, EarningStatus, ISSUABLE, DISPUTABLE, PAYABLE
  <1> QED
    BY <1>1, <1>2, <1>3, <1>4, <1>5, <1>6 DEF Next, Ask

-----------------------------------------------------------------------------
(* The inductive invariant. *)
IInv == RowsTyped /\ OpTyped /\ PaidFirst /\ Accounted /\ InTurn

(* The inductive invariant holds initially. *)
LEMMA InvInit == Init => IInv
  <1> SUFFICES ASSUME Init PROVE IInv
    OBVIOUS
  <1>1. RowsTyped
    BY SomeOffice, SomeWork DEF Init, RowsTyped, InvoiceStatus, EarningStatus
  <1>2. OpTyped
    BY DEF Init, OpTyped, InHand, OpRecords, Idle, At, Stages, RowStages
  <1>3. PaidFirst /\ Accounted
    BY DEF Init, PaidFirst, Accounted, Idle, At
  <1>4. InTurn
    BY DEF Init, InTurn, Idle, At, Alone
  <1> QED
    BY <1>1, <1>2, <1>3, <1>4 DEF IInv

(* The strengthening of the type invariant and of the two invariants of    *)
(* the money: what requests in progress have read is bounded by what the   *)
(* rows say now.                                                           *)
THEOREM BillingInvariant == Spec => []IInv
  <1>1. IInv /\ [Next]_vars => IInv'
    BY RowsStep, OpStep, PaidFirstStep, AccountedStep, InTurnStep DEF IInv
  <1> QED
    BY InvInit, <1>1, PTL DEF Spec

(* Rows and requests have their types, for any number of requests at once, *)
(* wherever they crash.                                                    *)
THEOREM TypeCorrect == Spec => []TypeOK
  <1>1. IInv => TypeOK
    BY TypeParts DEF IInv
  <1> QED
    BY BillingInvariant, <1>1, PTL

(* No payout is made before a payment of the client, whatever overlaps     *)
(* (confirmPayment, accrueForPaidInvoice, createPayout, confirmPayout).    *)
THEOREM PaysOutAfterPayment == Spec => []NoPayoutWithoutPayment
  <1>1. IInv => NoPayoutWithoutPayment
    BY DEF IInv, PaidFirst, NoPayoutWithoutPayment
  <1> QED
    BY BillingInvariant, <1>1, PTL

(* What is marked as paid to a guardian is part of a payout that was made. *)
THEOREM EarningsAccounted == Spec => []PaidEarningsAccounted
  <1>1. IInv => PaidEarningsAccounted
    BY DEF IInv, Accounted, PaidEarningsAccounted
  <1> QED
    BY BillingInvariant, <1>1, PTL

(* Requests handled one after another, each to its end or to a crash, never *)
(* take a paid invoice back.                                               *)
THEOREM PaidStays == Spec => PaidIsFinal
  <1>1. IInv /\ [Next]_vars /\ Alone /\ invoice = "PAID" => invoice' = "PAID"
    <2> SUFFICES ASSUME IInv, [Next]_vars, Alone, invoice = "PAID" PROVE invoice' = "PAID"
      OBVIOUS
    <2>1. \A c \in office :
             op[c].at \notin {"view", "issue", "void", "cancelRead", "cancel", "dispute", "clear"}
      BY DEF IInv, InTurn
    <2>2. CASE UNCHANGED vars
      BY <2>2 DEF vars, bill
    <2>3. CASE WorkerSkips
      BY <2>3 DEF WorkerSkips, bill
    <2>4. ASSUME NEW c \in office, Continue(c) PROVE invoice' = "PAID"
      BY <2>1, <2>4 DEF Continue, Stands, bill, ViewWrite, Confirm, IssueRead, IssueRefused, IssueWrite,
         VoidWrite, CancelRead, CancelEarnings, DisputeWrite, ClearWrite, CreatePaymentWrite, AccrueRead,
         EarningMissing, AllAccrued, EarningCreate, EarningDuplicate, CreatePayoutWrite,
         CreatePayoutDuplicate, ConfirmPayoutWrite
    <2>5. ASSUME NEW c \in office, Ask(c) \/ Poll(c) \/ Crash(c) PROVE invoice' = "PAID"
      BY <2>5 DEF Ask, Poll, Crash, bill, ViewRead, ClientConfirms, StaffIssues, VoidRead, DisputeRead,
         ClearRead, CreatePaymentRead, ConfirmPayment, ConfirmPayoutRead, CreatePayoutRead, WorkerConfirms
    <2> QED
      BY <2>2, <2>3, <2>4, <2>5 DEF Next
  <1>2. IInv /\ [Next]_vars => [Alone /\ invoice = "PAID" => invoice' = "PAID"]_vars
    BY <1>1
  <1> QED
    BY BillingInvariant, <1>2, PTL DEF Spec, PaidIsFinal

(* An earning is created once and paid or cancelled once, however often    *)
(* payments are confirmed; a cancelled one is paid only if requests        *)
(* overlap.                                                                *)
THEOREM EarningsMoveAsStated == Spec => EarningsMove
  <1> DEFINE Moved(a) ==
               \/ earning[a] = "none" /\ earning'[a] \in {"PENDING_PAYOUT", "BLOCKED"}
               \/ earning[a] = "PENDING_PAYOUT" /\ earning'[a] \in {"CANCELLED", "PAID"}
               \/ earning[a] = "CANCELLED" /\ earning'[a] = "PAID" /\ ~Alone
  <1>1. ASSUME IInv, [Next]_vars, NEW a \in Assignments, earning'[a] # earning[a] PROVE Moved(a)
    <2>1. PICK c \in office : CancelEarnings(c) \/ EarningCreate(c) \/ ConfirmPayoutWrite(c)
      BY <1>1 DEF Next, vars, payroll, WorkerSkips, Continue, Ask, Poll, Crash, bill, ViewWrite, Confirm,
         IssueRead, IssueRefused, IssueWrite, VoidWrite, CancelRead, DisputeWrite, ClearWrite,
         CreatePaymentWrite, AccrueRead, EarningMissing, AllAccrued, EarningDuplicate, CreatePayoutWrite,
         CreatePayoutDuplicate, ViewRead, ClientConfirms, StaffIssues, VoidRead, DisputeRead,
         ClearRead, CreatePaymentRead, ConfirmPayment, ConfirmPayoutRead, CreatePayoutRead, WorkerConfirms
    <2>2. earning \in [Assignments -> EarningStatus] /\ c \in Clerks /\ op[c] \in InHand
      BY <1>1, <2>1 DEF IInv, RowsTyped, OpTyped
    <2>3. CASE CancelEarnings(c)
      BY <1>1, <2>2, <2>3 DEF CancelEarnings
    <2>4. CASE EarningCreate(c)
      BY <1>1, <2>2, <2>4 DEF EarningCreate
    <2>5. CASE ConfirmPayoutWrite(c)
      <3>1. earning'[a] = "PAID" /\ payoutOf[a] = op[c].key /\ op[c].key \in Payouts
        BY <1>1, <2>2, <2>5 DEF ConfirmPayoutWrite, Stands, InHand
      <3>2. earning[a] \in {"PENDING_PAYOUT", "CANCELLED"}
        BY <1>1, <2>2, <3>1, KeysAreKeys DEF IInv, Accounted, EarningStatus
      <3>3. Alone => earning[a] # "CANCELLED"
        BY <1>1, <2>1 DEF IInv, InTurn
      <3> QED
        BY <3>1, <3>2, <3>3
    <2> QED
      BY <2>1, <2>3, <2>4, <2>5
  <1>2. IInv /\ [Next]_vars => [\A a \in Assignments : earning'[a] # earning[a] => Moved(a)]_vars
    BY <1>1
  <1> QED
    BY BillingInvariant, <1>2, PTL DEF Spec, EarningsMove

=============================================================================
