------------------------- MODULE JobLifecycle_proofs -------------------------
(***************************************************************************)
(* Theorems about JobLifecycle, for every number of rows, slots, parallel  *)
(* offers, requests and policies: it is typed, and no search is forgotten  *)
(* but by a crash or a late answer or no-show; without cancellation every  *)
(* assignment moves as the transition table allows, but for offers marked  *)
(* absent, and one dispatcher never sends more offers than there are       *)
(* slots, so that the job implements the pool of slots; a job that seeks a *)
(* replacement knows for whom, unless a cancellation dies half-way; and if *)
(* nobody asks for more than guardians and timers do, a job awaits         *)
(* confirmation only when its work is done, late accepts set apart.        *)
(***************************************************************************)
EXTENDS JobLifecycle, FiniteSetTheorems, TLAPS

OpRecords == [at : Stages, row : 0 .. MaxRows, was : AsgStatus, seen : JobStatus,
              rows : SUBSET Rows, open : 0 .. Requested]

-----------------------------------------------------------------------------
(* The three ways of moving a process keep op a function of such records.  *)
LEMMA OpTyped ==
    ASSUME op \in [Procs -> OpRecords], NEW p \in Procs
    PROVE  /\ \A s \in Stages : Goes(p, s) => op' \in [Procs -> OpRecords]
           /\ \A s \in Stages, r \in 0 .. MaxRows :
                 GoesWith(p, s, r) => op' \in [Procs -> OpRecords]
           /\ Ends(p) => op' \in [Procs -> OpRecords]
  <1>1. \A s \in Stages, r \in 0 .. MaxRows : At(s, r, 0) \in OpRecords
    BY BoundsPositive DEF At, OpRecords, AsgStatus, JobStatus
  <1>2. "idle" \in Stages /\ 0 \in 0 .. MaxRows
    BY BoundsPositive DEF Stages
  <1>3. \A r \in OpRecords : [op EXCEPT ![p] = r] \in [Procs -> OpRecords]
    OBVIOUS
  <1>4. \A s \in Stages : Goes(p, s) => op' \in [Procs -> OpRecords]
    BY <1>1, <1>2, <1>3 DEF Goes
  <1>5. \A s \in Stages, r \in 0 .. MaxRows : GoesWith(p, s, r) => op' \in [Procs -> OpRecords]
    <2> SUFFICES ASSUME NEW s \in Stages, NEW r \in 0 .. MaxRows, GoesWith(p, s, r)
                 PROVE  op' \in [Procs -> OpRecords]
      OBVIOUS
    <2>1. At(s, r, 0) \in OpRecords
      BY <1>1
    <2> QED
      BY <1>3, <2>1 DEF GoesWith
  <1>6. Ends(p) => op' \in [Procs -> OpRecords]
    BY <1>1, <1>2, <1>3 DEF Ends, Idle
  <1> QED
    BY <1>4, <1>5, <1>6

(* A process that read the job with a row is at that row, at its stage.    *)
LEMMA ReadStage ==
    ASSUME op \in [Procs -> OpRecords], NEW p \in Procs, NEW s, NEW r, ReadsJob(p, s, r)
    PROVE  /\ op'[p].at = s /\ op'[p].row = r /\ op'[p].seen = status /\ op'[p].rows = {}
           /\ \A q \in Procs \ {p} : op'[q] = op[q]
           /\ s \in Stages /\ r \in 0 .. MaxRows /\ status \in JobStatus
                => op' \in [Procs -> OpRecords]
  <1> DEFINE a == At(s, r, 0)
             rec == [a EXCEPT !.seen = status]
  <1>1. rec.at = s /\ rec.row = r /\ rec.seen = status /\ rec.rows = {}
    BY DEF At
  <1>2. op' = [op EXCEPT ![p] = rec]
    BY DEF ReadsJob
  <1>3. ASSUME s \in Stages, r \in 0 .. MaxRows, status \in JobStatus PROVE rec \in OpRecords
    <2>1. a \in OpRecords
      BY <1>3, BoundsPositive DEF At, OpRecords, AsgStatus, JobStatus
    <2> HIDE DEF a
    <2> QED
      BY <1>3, <2>1 DEF OpRecords
  <1> HIDE DEF rec, a
  <1> QED
    BY <1>1, <1>2, <1>3

(* A process with a no-show to write remembers the row and its status.     *)
LEMMA AbsentStage ==
    ASSUME op \in [Procs -> OpRecords], NEW p \in Procs, NEW r \in Rows, NoShowRead(p, r)
    PROVE  /\ op'[p].at = "absent" /\ op'[p].row = r /\ op'[p].was = asg[r] /\ op'[p].rows = {}
           /\ asg[r] \in AsgStatus /\ status \in JobStatus => op' \in [Procs -> OpRecords]
  <1> DEFINE a == At("absent", r, 0)
             rec == [a EXCEPT !.was = asg[r], !.seen = status]
  <1>1. a.at = "absent" /\ a.row = r /\ rec.was = asg[r]
    BY DEF At
  <1>2. rec.at = "absent" /\ rec.row = r /\ rec.rows = {}
    BY DEF At
  <1>3. op' = [op EXCEPT ![p] = rec]
    BY DEF NoShowRead
  <1>4. ASSUME asg[r] \in AsgStatus, status \in JobStatus PROVE rec \in OpRecords
    <2>1. a \in OpRecords
      BY BoundsPositive DEF At, OpRecords, AsgStatus, JobStatus, Stages, Rows
    <2> HIDE DEF a
    <2> QED
      BY <1>4, <2>1 DEF OpRecords
  <1> HIDE DEF rec, a
  <1>5. op'[p] = rec
    BY <1>3
  <1>6. ASSUME rec \in OpRecords PROVE op' \in [Procs -> OpRecords]
    BY <1>3, <1>6
  <1> QED
    BY <1>1, <1>2, <1>4, <1>5, <1>6

(* What a cancellation finds is a set of rows.                             *)
LEMMA FoundRows ==
    ASSUME NEW p \in Procs, CancelRead(p)
    PROVE  \E stage \in Stages, found \in SUBSET Rows :
              op' = [op EXCEPT ![p] = [at |-> stage, row |-> 0, was |-> "UNSENT",
                                       seen |-> "PENDING", rows |-> found, open |-> 0]]
  <1>1. PICK step \in {<<"readSubstitutes", "cancelSubstitutes",
                         {r \in Substitutes : asg[r] \in {"ACCEPTED", "EN_ROUTE"}}>>,
                       <<"readDeparting", "cancelDeparting",
                         {r \in Rows : r = departing /\ asg[r] = "AWAITING_RELIEF"}>>,
                       <<"readActive", "cancelActive",
                         {r \in Active : asg[r] # "AWAITING_RELIEF"}>>} :
              op' = [op EXCEPT ![p] = [At(step[2], 0, 0) EXCEPT !.rows = step[3]]]
    BY DEF CancelRead
  <1>2. step[2] \in Stages /\ step[3] \in SUBSET Rows
    BY DEF Stages, Substitutes, Active, Ordinary
  <1>3. [At(step[2], 0, 0) EXCEPT !.rows = step[3]]
        = [at |-> step[2], row |-> 0, was |-> "UNSENT", seen |-> "PENDING",
           rows |-> step[3], open |-> 0]
    BY DEF At
  <1> QED
    BY <1>1, <1>2, <1>3

(* Writing one status to a set of rows keeps the assignments typed, and so *)
(* does releasing a set of rows.                                           *)
LEMMA SetsTyped ==
    ASSUME asg \in [Rows -> AsgStatus], freed \in [Rows -> AsgStatus], NEW S
    PROVE  /\ \A s \in AsgStatus : Sets(S, s) =>
                 asg' \in [Rows -> AsgStatus] /\ freed' \in [Rows -> AsgStatus]
           /\ Releases(S) => asg' \in [Rows -> AsgStatus] /\ freed' \in [Rows -> AsgStatus]
           /\ \A s \in AsgStatus : Sets(S, s) => uncounted' = uncounted
           /\ Releases(S) => uncounted' = uncounted
  <1>1. "UNSENT" \in AsgStatus /\ "CANCELLED" \in AsgStatus
    BY DEF AsgStatus, ClosedStatus
  <1> QED
    BY <1>1 DEF Sets, Releases

(* The counts are numbers, and the open slots are at most the requested.   *)
LEMMA CountsAreNat ==
    /\ IsFiniteSet(Rows)
    /\ \A S \in SUBSET Rows : IsFiniteSet(S) /\ Cardinality(S) \in Nat
    /\ Open \in 0 .. Requested
  <1>1. IsFiniteSet(Rows)
    BY FS_Interval, BoundsPositive DEF Rows
  <1>2. \A S \in SUBSET Rows : IsFiniteSet(S) /\ Cardinality(S) \in Nat
    BY <1>1, FS_Subset, FS_CardinalityType
  <1>3. Staffed \in SUBSET Rows /\ Pending \in SUBSET Rows
    BY DEF Staffed, Pending, Ordinary
  <1>4. Cardinality(Staffed) \in Nat /\ Cardinality(Pending) \in Nat
    BY <1>2, <1>3
  <1>5. Open \in 0 .. Requested
    BY <1>4, BoundsPositive DEF Open
  <1> QED
    BY <1>1, <1>2, <1>5

(* Merging events keeps their number within its bound. *)
LEMMA MoreTyped == events \in 0 .. MaxEvents => More(events) \in 0 .. MaxEvents
  BY BoundsPositive DEF More

(* Every step keeps the types. *)
LEMMA TypeStep == TypeOK /\ [Next]_vars => TypeOK'
  <1> SUFFICES ASSUME TypeOK, [Next]_vars PROVE TypeOK'
    OBVIOUS
  <1>0. /\ op \in [Procs -> OpRecords] /\ asg \in [Rows -> AsgStatus]
        /\ freed \in [Rows -> AsgStatus]
        /\ More(events) \in 0 .. MaxEvents
    BY MoreTyped DEF TypeOK, OpRecords
  <1>a. TypeOK' <=> /\ status' \in JobStatus
                    /\ asg' \in [Rows -> AsgStatus] /\ freed' \in [Rows -> AsgStatus]
                    /\ replaces' \in [Rows -> 0 .. MaxRows]
                    /\ departing' \in 0 .. MaxRows
                    /\ paused' \in BOOLEAN /\ dark' \in BOOLEAN
                    /\ deadline' \in {"none", "ahead", "past"}
                    /\ invoice' \in {"none", "DRAFT", "ISSUED"}
                    /\ events' \in 0 .. MaxEvents
                    /\ op' \in [Procs -> OpRecords]
                    /\ uncounted' \subseteq 0 .. MaxRows
    BY DEF TypeOK, OpRecords
  <1>b. Clerks \subseteq Procs /\ Dispatchers \subseteq Procs /\ Rows \subseteq 0 .. MaxRows
        /\ 0 \in 0 .. MaxRows
    BY BoundsPositive DEF Procs, Rows
  <1> USE DEF SearchData, Relief, Assignments
  <1>1. CASE DeadlinePasses
    BY <1>0, <1>a, <1>1 DEF DeadlinePasses, TypeOK
  <1>2. ASSUME NEW p \in Procs, Continue(p) PROVE TypeOK'
    <2> USE <1>0, <1>a, <1>b, <1>2, OpTyped, SetsTyped DEF TypeOK, JobStatus, Stages
    <2>1. CASE Enqueue(p)
      BY <2>1 DEF Enqueue
    <2>2. CASE DispatchWrite(p)
      BY <2>2 DEF DispatchWrite
    <2>3. CASE FailRelease(p)
      <3>1. Releases(Offered) /\ Goes(p, "failWrite")
        BY <2>3 DEF FailRelease
      <3>2. /\ asg' \in [Rows -> AsgStatus] /\ freed' \in [Rows -> AsgStatus]
            /\ op' \in [Procs -> OpRecords] /\ uncounted' = uncounted
        BY <3>1
      <3> QED
        BY <2>3, <3>2 DEF FailRelease
    <2>4. CASE FailWrite(p)
      BY <2>4 DEF FailWrite
    <2>5. CASE CountOpenSlots(p)
      <3>1. At("insert", 0, Open) \in OpRecords
        BY CountsAreNat, BoundsPositive DEF OpRecords, At, AsgStatus
      <3>2. Ends(p) \/ op' = [op EXCEPT ![p] = At("insert", 0, Open)]
        BY <2>5 DEF CountOpenSlots
      <3>3. op' \in [Procs -> OpRecords]
        BY <3>1, <3>2
      <3> QED
        BY <2>5, <3>3 DEF CountOpenSlots
    <2>6. CASE SendOffers(p)
      <3>0. op[p].open \in Nat
        BY BoundsPositive DEF OpRecords
      <3>1. PICK n \in Nat : Insert(n, 0)
        BY <2>6, <3>0 DEF SendOffers
      <3>2. /\ asg' \in [Rows -> AsgStatus] /\ freed' \in [Rows -> AsgStatus]
            /\ uncounted' = uncounted
        BY <3>1 DEF Insert, AsgStatus
      <3>3. replaces' \in [Rows -> 0 .. MaxRows]
        BY <3>1 DEF Insert
      <3>4. op' \in [Procs -> OpRecords]
        BY <2>6 DEF SendOffers
      <3>5. UNCHANGED <<status, departing, paused, deadline, invoice, events>> /\ dark' = FALSE
        BY <2>6 DEF SendOffers
      <3> QED
        BY <3>2, <3>3, <3>4, <3>5
    <2>7. CASE NobodyToAsk(p)
      <3>1. Goes(p, "failRelease") \/ Goes(p, "enqueue")
        BY <2>7 DEF NobodyToAsk
      <3>2. op' \in [Procs -> OpRecords]
        BY <3>1
      <3>3. dark' \in BOOLEAN
        BY <2>7 DEF NobodyToAsk
      <3> QED
        BY <2>7, <3>2, <3>3 DEF NobodyToAsk
    <2>8. CASE OfferSubstitution(p)
      <3>1. op[p].row \in 0 .. MaxRows
        BY DEF OpRecords
      <3>2. Insert(1, op[p].row)
        BY <2>8 DEF OfferSubstitution
      <3>3. /\ asg' \in [Rows -> AsgStatus] /\ freed' \in [Rows -> AsgStatus]
            /\ replaces' \in [Rows -> 0 .. MaxRows] /\ uncounted' = uncounted
        BY <3>1, <3>2 DEF Insert, AsgStatus
      <3> QED
        BY <2>8, <3>3 DEF OfferSubstitution
    <2>9. CASE NobodyToSubstitute(p)
      <3>1. Ends(p) \/ Goes(p, "enqueue")
        BY <2>9 DEF NobodyToSubstitute
      <3>2. op' \in [Procs -> OpRecords]
        BY <3>1
      <3>3. paused' \in BOOLEAN /\ dark' \in BOOLEAN
        BY <2>9 DEF NobodyToSubstitute, Seeking
      <3> QED
        BY <2>9, <3>2, <3>3 DEF NobodyToSubstitute
    <2>10. CASE AfterExpiry(p)
      BY <2>10 DEF AfterExpiry
    <2>11. CASE ApproveCommit(p)
      <3>1. op[p].row \in 0 .. MaxRows
        BY DEF OpRecords
      <3> QED
        BY <2>11, <3>1 DEF ApproveCommit, AsgStatus, StaffedStatus, ActiveStatus
    <2>12. CASE ApproveRefused(p)
      BY <2>12 DEF ApproveRefused
    <2>13. CASE AskSubstitute(p)
      BY <2>13 DEF AskSubstitute
    <2>14. CASE CountActive(p)
      BY <2>14 DEF CountActive
    <2>15. CASE CompleteFromAssignment(p)
      BY <2>15 DEF CompleteFromAssignment
    <2>16. CASE ReadAfter(p)
      BY <2>16 DEF ReadAfter
    <2>17. CASE DraftInvoice(p)
      BY <2>17 DEF DraftInvoice
    <2>18. CASE IssueInvoice(p)
      BY <2>18 DEF IssueInvoice
    <2>19. CASE CancelRelease(p)
      <3>1. /\ \E S : Releases(S)
            /\ \E s \in Stages : Goes(p, s)
        BY <2>19 DEF CancelRelease
      <3>2. /\ asg' \in [Rows -> AsgStatus] /\ freed' \in [Rows -> AsgStatus]
            /\ op' \in [Procs -> OpRecords] /\ uncounted' = uncounted
        BY <3>1
      <3> QED
        BY <2>19, <3>2 DEF CancelRelease
    <2>20. CASE CancelWrite(p)
      BY <2>20 DEF CancelWrite
    <2>21. CASE CancelRead(p)
      <3>1. PICK stage \in Stages, found \in SUBSET Rows :
              op' = [op EXCEPT ![p] = [at |-> stage, row |-> 0, was |-> "UNSENT",
                                       seen |-> "PENDING", rows |-> found, open |-> 0]]
        BY <2>21, FoundRows
      <3>2. "UNSENT" \in AsgStatus
        BY DEF AsgStatus
      <3>3. [at |-> stage, row |-> 0, was |-> "UNSENT", seen |-> "PENDING",
             rows |-> found, open |-> 0] \in OpRecords
        BY <3>2, BoundsPositive DEF OpRecords
      <3>5. \A rec \in OpRecords : [op EXCEPT ![p] = rec] \in [Procs -> OpRecords]
        OBVIOUS
      <3>4. op' \in [Procs -> OpRecords]
        BY <3>1, <3>3, <3>5
      <3> QED
        BY <2>21, <3>4 DEF CancelRead
    <2>22. CASE NoShowCommit(p)
      <3>1. Sets({op[p].row}, "NO_SHOW") /\ "NO_SHOW" \in AsgStatus
        BY <2>22 DEF NoShowCommit, AsgStatus, ClosedStatus
      <3>2. status' \in JobStatus
        BY <2>22 DEF NoShowCommit, MovesTo
      <3> QED
        BY <2>22, <3>1, <3>2 DEF NoShowCommit
    <2>23. CASE NoShowRefused(p)
      BY <2>23 DEF NoShowRefused
    <2>24. CASE AcceptCommit(p)
      <3>1. op[p].row \in 0 .. MaxRows /\ "ACCEPTED" \in AsgStatus
        BY DEF OpRecords, AsgStatus, StaffedStatus, ActiveStatus
      <3>2. asg' \in [Rows -> AsgStatus] /\ uncounted' \subseteq 0 .. MaxRows
        BY <2>24, <3>1 DEF AcceptCommit
      <3>3. op' \in [Procs -> OpRecords]
        BY <2>24 DEF AcceptCommit
      <3> QED
        BY <2>24, <3>2, <3>3 DEF AcceptCommit
    <2>25. CASE DeclineCommit(p)
      <3>1. Sets({op[p].row}, "DECLINED") /\ "DECLINED" \in AsgStatus
        BY <2>25 DEF DeclineCommit, AsgStatus, ClosedStatus
      <3>2. asg' \in [Rows -> AsgStatus] /\ freed' \in [Rows -> AsgStatus] /\ uncounted' = uncounted
        BY <3>1
      <3>3. op' \in [Procs -> OpRecords]
        BY <2>25 DEF DeclineCommit
      <3> QED
        BY <2>25, <3>2, <3>3 DEF DeclineCommit
    <2>26. CASE ExpireCommit(p)
      <3>1. Sets({op[p].row}, "EXPIRED") /\ "EXPIRED" \in AsgStatus
        BY <2>26 DEF ExpireCommit, AsgStatus, ClosedStatus
      <3>2. asg' \in [Rows -> AsgStatus] /\ freed' \in [Rows -> AsgStatus] /\ uncounted' = uncounted
        BY <3>1
      <3>3. op' \in [Procs -> OpRecords]
        BY <2>26 DEF ExpireCommit
      <3> QED
        BY <2>26, <3>2, <3>3 DEF ExpireCommit
    <2>27. CASE OfferRefused(p)
      BY <2>27 DEF OfferRefused
    <2>28. CASE HandoffCommit(p)
      <3>1. "COMPLETED" \in AsgStatus /\ "ON_SITE" \in AsgStatus /\ "UNSENT" \in AsgStatus
        BY DEF AsgStatus, StaffedStatus, ActiveStatus
      <3>2. asg' \in [Rows -> AsgStatus] /\ freed' \in [Rows -> AsgStatus]
        BY <2>28, <3>1 DEF HandoffCommit
      <3>3. op' \in [Procs -> OpRecords]
        BY <2>28 DEF HandoffCommit
      <3> QED
        BY <2>28, <3>2, <3>3 DEF HandoffCommit
    <2>29. CASE HandoffRefused(p)
      BY <2>29 DEF HandoffRefused
    <2> QED
      BY <1>2, <2>1, <2>2, <2>3, <2>4, <2>5, <2>6, <2>7, <2>8, <2>9, <2>10, <2>11, <2>12,
         <2>13, <2>14, <2>15, <2>16, <2>17, <2>18, <2>19, <2>20, <2>21, <2>22, <2>23,
         <2>24, <2>25, <2>26, <2>27, <2>28, <2>29
         DEF Continue
  <1>3. ASSUME NEW p \in Procs, Crash(p) PROVE TypeOK'
    BY <1>0, <1>a, <1>3, OpTyped DEF Crash, TypeOK
  <1>4. ASSUME NEW p \in Procs, TakeEvent(p) PROVE TypeOK'
    <2> USE <1>0, <1>a, <1>b, <1>4, OpTyped, BoundsPositive DEF TypeOK, JobStatus, Stages, Take
    <2>1. CASE TakeForNothing(p)
      BY <2>1 DEF TakeForNothing
    <2>2. CASE TakeSettles(p)
      BY <2>2 DEF TakeSettles
    <2>3. CASE TakeSearches(p)
      BY <2>3 DEF TakeSearches
    <2>4. CASE TakeFails(p)
      BY <2>4 DEF TakeFails
    <2>5. CASE TakePauses(p)
      BY <2>5 DEF TakePauses
    <2>6. CASE TakeSeeks(p)
      BY <2>6 DEF TakeSeeks
    <2> QED
      BY <1>4, <2>1, <2>2, <2>3, <2>4, <2>5, <2>6 DEF TakeEvent
  <1>5. ASSUME NEW p \in Procs, Ask(p) PROVE TypeOK'
    <2>a. ASSUME op' \in [Procs -> OpRecords],
                 UNCHANGED <<status, Assignments, Relief, SearchData, invoice, events>>
          PROVE  TypeOK'
      BY <2>a DEF TypeOK, OpRecords, Assignments, Relief, SearchData
    <2>7. ASSUME NEW r \in Rows, AcceptRead(p, r) \/ DeclineRead(p, r) PROVE TypeOK'
      <3>1. PICK s \in {"accept", "decline", "declineLast"} : ReadsJob(p, s, r)
        BY <2>7 DEF AcceptRead, DeclineRead
      <3>2. s \in Stages /\ r \in 0 .. MaxRows /\ status \in JobStatus
        BY DEF Stages, Rows, TypeOK
      <3>3. op' \in [Procs -> OpRecords]
        BY <1>0, <3>1, <3>2, ReadStage
      <3> QED
        BY <2>a, <2>7, <3>3 DEF AcceptRead, DeclineRead
    <2>8. ASSUME NEW r \in Rows, ExpireRead(p, r) \/ HandoffRead(p, r) PROVE TypeOK'
      <3>1. \E s \in {"expire", "handoff"} : GoesWith(p, s, r)
        BY <2>8 DEF ExpireRead, HandoffRead
      <3>2. {"expire", "handoff"} \subseteq Stages /\ r \in 0 .. MaxRows
        BY DEF Stages, Rows
      <3>3. op' \in [Procs -> OpRecords]
        BY <1>0, <3>1, <3>2, OpTyped
      <3> QED
        BY <2>a, <2>8, <3>3 DEF ExpireRead, HandoffRead
    <2> USE <1>0, <1>a, <1>b, <1>5, OpTyped, SetsTyped DEF TypeOK, JobStatus, Stages
    <2>1. CASE RequestDispatch(p)
      BY <2>1 DEF RequestDispatch
    <2>2. CASE ScanFails(p)
      BY <2>2 DEF ScanFails
    <2>3. CASE ResumeReplacement(p)
      BY <2>3 DEF ResumeReplacement
    <2>4. CASE ConfirmBilling(p)
      BY <2>4 DEF ConfirmBilling
    <2>5. CASE Cancel(p)
      BY <2>5 DEF Cancel
    <2>6. ASSUME NEW r \in Rows, AcceptSlot(p, r) PROVE TypeOK'
      <3>1. asg' \in [Rows -> AsgStatus] /\ status' \in JobStatus
        BY <2>6 DEF AcceptSlot, AsgStatus, ClosedStatus, StaffedStatus, ActiveStatus
      <3>2. op' \in [Procs -> OpRecords]
        BY <2>6 DEF AcceptSlot
      <3> QED
        BY <2>6, <3>1, <3>2 DEF AcceptSlot
    <2>9. ASSUME NEW r \in Rows, ApproveRead(p, r) PROVE TypeOK'
      BY <2>9 DEF ApproveRead
    <2>10. ASSUME NEW r \in Rows, Complete(p, r) PROVE TypeOK'
      <3>1. Sets({r}, "COMPLETED") /\ "COMPLETED" \in AsgStatus
        BY <2>10 DEF Complete, AsgStatus, StaffedStatus
      <3>2. asg' \in [Rows -> AsgStatus] /\ freed' \in [Rows -> AsgStatus] /\ uncounted' = uncounted
        BY <3>1
      <3>3. op' \in [Procs -> OpRecords]
        BY <2>10 DEF Complete
      <3> QED
        BY <2>10, <3>2, <3>3 DEF Complete
    <2>11. ASSUME NEW r \in Rows, NoShowRead(p, r) PROVE TypeOK'
      <3>1. asg[r] \in AsgStatus /\ status \in JobStatus
        OBVIOUS
      <3>2. op' \in [Procs -> OpRecords]
        BY <2>11, <3>1, AbsentStage
      <3> QED
        BY <2>11, <3>2 DEF NoShowRead
    <2> QED
      BY <1>5, <2>1, <2>2, <2>3, <2>4, <2>5, <2>6, <2>7, <2>8, <2>9, <2>10, <2>11 DEF Ask
  <1>6. ASSUME NEW r \in Rows, AskAtOnce(r) PROVE TypeOK'
    <2>1. ASSUME NEW s \in AsgStatus, Sets({r}, s), status' \in JobStatus,
                 UNCHANGED <<Relief, SearchData, invoice, events, op>>
          PROVE  TypeOK'
      <3>1. asg' \in [Rows -> AsgStatus] /\ freed' \in [Rows -> AsgStatus] /\ uncounted' = uncounted
        BY <1>0, <2>1, SetsTyped
      <3> QED
        BY <2>1, <3>1 DEF TypeOK, Relief, SearchData
    <2>9. /\ {"EN_ROUTE", "ON_SITE", "EARLY_RELEASE_REQUESTED", "EARLY_RELEASE_GRANTED",
             "REPLACEMENT_REQUESTED"} \subseteq AsgStatus
          /\ status \in JobStatus /\ "IN_PROGRESS" \in JobStatus
      BY DEF TypeOK, JobStatus, AsgStatus, StaffedStatus, ActiveStatus
    <2>2. CASE EnRoute(r)
      BY <2>1, <2>2, <2>9 DEF EnRoute
    <2>3. CASE Arrives(r)
      BY <2>1, <2>3, <2>9 DEF Arrives
    <2>5. CASE RequestEarlyRelease(r)
      BY <2>1, <2>5, <2>9 DEF RequestEarlyRelease
    <2>6. CASE ResolveEarlyRelease(r)
      <3>1. \E s \in {"EARLY_RELEASE_GRANTED", "ON_SITE"} : Sets({r}, s)
        BY <2>6 DEF ResolveEarlyRelease
      <3> QED
        BY <2>1, <2>6, <2>9, <3>1 DEF ResolveEarlyRelease
    <2>7. CASE RequestReplacement(r)
      BY <2>1, <2>7, <2>9 DEF RequestReplacement
    <2>8. CASE DenyReplacement(r)
      BY <2>1, <2>8, <2>9 DEF DenyReplacement
    <2> QED
      BY <1>6, <2>2, <2>3, <2>5, <2>6, <2>7, <2>8 DEF AskAtOnce
  <1>7. CASE UNCHANGED vars
    BY <1>7 DEF vars, TypeOK
  <1> QED
    BY <1>b, <1>1, <1>2, <1>3, <1>4, <1>5, <1>6, <1>7 DEF Next

(* And they hold when the job is created. *)
LEMMA TypeInit == Init => TypeOK
  <1>1. Idle \in OpRecords
    BY BoundsPositive DEF At, Idle, Stages, OpRecords, AsgStatus, JobStatus
  <1>2. "PENDING" \in JobStatus /\ "UNSENT" \in AsgStatus
    BY DEF JobStatus, AsgStatus
  <1>3. 0 \in 0 .. MaxRows /\ 0 \in 0 .. MaxEvents /\ 1 \in 0 .. MaxEvents
    BY BoundsPositive
  <1> QED
    BY <1>1, <1>2, <1>3 DEF Init, TypeOK, OpRecords

(* The program keeps the types of its variables. *)
THEOREM TypeCorrect == Spec => []TypeOK
  BY TypeInit, TypeStep, PTL DEF Spec

-----------------------------------------------------------------------------
(* The inductive invariant of jobs nobody cancels, a conjunction of parts.  *)

(* The rows that were sent are the first ones: an insert hits fresh rows.  *)
Numbered == \E k \in 0 .. MaxRows : Sent = 1 .. k

(* A replacement that is about to be approved has been requested, and what *)
(* was requested is never cancelled: the version check is sound here.      *)
Approvable ==
    \A p \in Procs : op[p].at = "approve" =>
        op[p].row \in Rows /\ asg[op[p].row] \notin {"UNSENT", "OFFERED", "CANCELLED"}

(* A search for a substitute knows whom it replaces, so the offer it sends *)
(* does not count as an ordinary one.                                      *)
SubstituteKnown ==
    /\ Seeking => departing # 0
    /\ \A p \in Procs : op[p].at = "substitute" => op[p].row # 0

(* Only dispatchers count open slots and send offers.                      *)
DispatchersSend ==
    \A p \in Procs : op[p].at \in {"search", "insert", "substitute"} => p \in Dispatchers

NobodyCancels == \A p \in Procs : op[p].at \notin CancelStages

(* A no-show under way was read in a status that admits it.                *)
Absence ==
    \A p \in Procs : op[p].at = "absent" => op[p].row \in Rows /\ op[p].was \in AbsentStatus

(* Only offers are released in bulk, when the job fails: whoever read      *)
(* anything but an offer finds by the version whether it has moved.        *)
OffersFreed == \A r \in Rows : freed[r] \in {"UNSENT", "OFFERED"}

(* A handler that answers an offer or relieves a guardian is at a row.     *)
Answering == {"accept", "decline", "declineLast", "expire", "handoff"}
RowHeld == \A p \in Procs : op[p].at \in Answering => op[p].row \in Rows

SearchInv ==
    /\ Numbered /\ Approvable /\ SubstituteKnown /\ DispatchersSend /\ NobodyCancels
    /\ Absence /\ OffersFreed /\ RowHeld

(* What a row does in a step that inserts none.                            *)
RowMoves(r) ==
    \/ asg'[r] = asg[r]
    \/ /\ asg[r] # "UNSENT"
       /\ asg'[r] \in AllowedNext(asg[r])
       /\ asg'[r] = "CANCELLED" => asg[r] = "OFFERED"
    \/ /\ asg[r] = "CANCELLED" /\ freed[r] = "OFFERED"
       /\ asg'[r] \in {"DECLINED", "EXPIRED"}
    \/ /\ asg[r] = "OFFERED" \/ (asg[r] = "CANCELLED" /\ freed[r] = "OFFERED")
       /\ asg'[r] = "NO_SHOW" /\ OfferMarkedAbsent(r)

RowsMove ==
    /\ \A r \in Rows : RowMoves(r) /\ freed'[r] \in {freed[r], "UNSENT", "OFFERED"}
    /\ replaces' = replaces

(* So a handler that did not read an offer finds the row as it read it.    *)
LEMMA StillAsRead ==
    ASSUME OffersFreed, NEW r \in Rows, NEW S, "OFFERED" \notin S, "UNSENT" \notin S,
           ReadAs(r, S)
    PROVE  asg[r] \in S
  BY DEF OffersFreed, ReadAs

(* What a process does in a step.                                          *)
ProcMoves(q) ==
    \/ op'[q] = op[q]
    \/ op'[q].at \notin {"approve", "substitute", "insert", "search", "absent"}
                          \cup CancelStages \cup Answering
    \/ op'[q].at \in Answering /\ op'[q].row \in Rows
    \/ \E r \in Rows : ApproveRead(q, r) \/ NoShowRead(q, r)
    \/ q \in Dispatchers /\ (TakeSeeks(q) \/ TakeSearches(q))
    \/ CountOpenSlots(q)

(* Every step of a job nobody cancels moves rows as the table allows, or   *)
(* is one of the two that insert offers.                                   *)
LEMMA RowStep ==
    ASSUME TypeOK, SearchInv, [Next]_vars
    PROVE  RowsMove \/ \E p \in Procs : SendOffers(p) \/ OfferSubstitution(p)
  <1> USE DEF Relief, SearchData, Assignments
  <1>0. OffersFreed
    BY DEF SearchInv
  <1>1. asg' = asg /\ freed' = freed /\ replaces' = replaces => RowsMove
    BY DEF RowsMove, RowMoves
  <1>2. ASSUME NEW r \in Rows, NEW s,
               Sets({r}, s), asg[r] # "UNSENT", s \in AllowedNext(asg[r]), s # "CANCELLED",
               replaces' = replaces
        PROVE  RowsMove
    BY <1>2 DEF Sets, RowsMove, RowMoves
  <1>9. ASSUME NEW r \in Rows, NEW s \in {"DECLINED", "EXPIRED"},
               Sets({r}, s), ReadAs(r, {"OFFERED"}), replaces' = replaces
        PROVE  RowsMove
    <2>1. CASE asg[r] = "OFFERED"
      BY <1>2, <1>9, <2>1 DEF AllowedNext
    <2>2. CASE asg[r] = "CANCELLED" /\ freed[r] = "OFFERED"
      BY <1>9, <2>2 DEF Sets, RowsMove, RowMoves
    <2> QED
      BY <1>9, <2>1, <2>2 DEF ReadAs
  <1>3. CASE DeadlinePasses
    BY <1>1, <1>3 DEF DeadlinePasses
  <1>4. ASSUME NEW p \in Procs, Continue(p), ~SendOffers(p), ~OfferSubstitution(p)
        PROVE  RowsMove
    <2>1. CASE FailRelease(p)
      BY <2>1 DEF FailRelease, Releases, Offered, RowsMove, RowMoves, AllowedNext
    <2>2. CASE ApproveCommit(p)
      <3>1. /\ op[p].row \in Rows /\ asg[op[p].row] = "REPLACEMENT_REQUESTED"
            /\ Sets({op[p].row}, "AWAITING_RELIEF") /\ replaces' = replaces
        BY <2>2, <1>0, StillAsRead DEF ApproveCommit, SearchInv, Approvable, Stands
      <3>2. "AWAITING_RELIEF" \in AllowedNext("REPLACEMENT_REQUESTED")
        BY DEF AllowedNext
      <3> QED
        BY <1>2, <3>1, <3>2
    <2>3. ~CancelRelease(p)
      BY DEF CancelRelease, SearchInv, NobodyCancels, CancelStages, Stands
    <2>4. CASE NoShowCommit(p)
      <3>1. /\ op[p].row \in Rows /\ op[p].was \in {"OFFERED", "ACCEPTED", "EN_ROUTE"}
            /\ ReadAs(op[p].row, {op[p].was})
            /\ Sets({op[p].row}, "NO_SHOW") /\ replaces' = replaces
        BY <2>4 DEF NoShowCommit, NoShowFits, SearchInv, Absence, AbsentStatus, Stands
      <3>2. CASE op[p].was = "OFFERED"
        <4>1. OfferMarkedAbsent(op[p].row)
          BY <2>4, <3>2 DEF OfferMarkedAbsent
        <4> QED
          BY <3>1, <3>2, <4>1 DEF Sets, RowsMove, RowMoves, ReadAs
      <3>3. CASE op[p].was \in {"ACCEPTED", "EN_ROUTE"}
        <4>1. asg[op[p].row] \in {"ACCEPTED", "EN_ROUTE"}
          BY <1>0, <3>1, <3>3, StillAsRead
        <4> QED
          BY <1>2, <3>1, <4>1 DEF AllowedNext
      <3> QED
        BY <3>1, <3>2, <3>3
    <2>5. CASE AcceptCommit(p)
      <3>1. op[p].row \in Rows /\ asg[op[p].row] = "OFFERED"
        BY <2>5 DEF AcceptCommit, SearchInv, RowHeld, Answering, Stands
      <3>2. \A q \in Rows : \/ asg'[q] = asg[q]
                            \/ asg[q] = "OFFERED" /\ asg'[q] = "ACCEPTED"
        BY <2>5, <3>1 DEF AcceptCommit, TypeOK
      <3>3. replaces' = replaces /\ freed' = freed
        BY <2>5 DEF AcceptCommit
      <3> QED
        BY <3>2, <3>3 DEF RowsMove, RowMoves, AllowedNext
    <2>6. CASE DeclineCommit(p)
      <3>1. op[p].row \in Rows
        BY <2>6 DEF DeclineCommit, SearchInv, RowHeld, Answering, Stands
      <3> QED
        BY <1>9, <2>6, <3>1 DEF DeclineCommit
    <2>7. CASE ExpireCommit(p)
      <3>1. op[p].row \in Rows
        BY <2>7 DEF ExpireCommit, SearchInv, RowHeld, Answering, Stands
      <3> QED
        BY <1>9, <2>7, <3>1 DEF ExpireCommit
    <2>8. CASE HandoffCommit(p)
      <3> DEFINE r == op[p].row
      <3>1. r \in Rows
        BY <2>8 DEF HandoffCommit, SearchInv, RowHeld, Answering, Stands
      <3>2. asg[r] = "EN_ROUTE"
        BY <1>0, <2>8, <3>1, StillAsRead DEF HandoffCommit, HandoffFits
      <3>3. replaces[r] \in Rows => asg[replaces[r]] = "AWAITING_RELIEF"
        BY <1>0, <2>8, StillAsRead DEF HandoffCommit, HandoffFits
      <3>4. \A q \in Rows : \/ asg'[q] = asg[q]
                            \/ asg[q] = "AWAITING_RELIEF" /\ asg'[q] = "COMPLETED"
                            \/ asg[q] = "EN_ROUTE" /\ asg'[q] = "ON_SITE"
        BY <2>8, <3>2, <3>3 DEF HandoffCommit, TypeOK
      <3>5. replaces' = replaces /\ \A q \in Rows : freed'[q] \in {freed[q], "UNSENT"}
        BY <2>8 DEF HandoffCommit, TypeOK
      <3> QED
        BY <3>4, <3>5 DEF RowsMove, RowMoves, AllowedNext
    <2> QED
      BY <1>1, <1>4, <2>1, <2>2, <2>3, <2>4, <2>5, <2>6, <2>7, <2>8
         DEF Continue, OfferRefused, HandoffRefused, NoShowRefused,
             CancelRead, Enqueue, DispatchWrite, FailWrite, CountOpenSlots,
             NobodyToAsk,
             NobodyToSubstitute, AfterExpiry, ApproveRefused, AskSubstitute, CountActive,
             CompleteFromAssignment, ReadAfter, DraftInvoice, IssueInvoice, CancelWrite
  <1>5. ASSUME NEW p \in Procs, Crash(p) \/ TakeEvent(p) PROVE RowsMove
    BY <1>1, <1>5 DEF Crash, TakeEvent, TakeForNothing, TakeSettles, TakeSearches, TakeFails,
       TakePauses, TakeSeeks
  <1>6. ASSUME NEW p \in Procs, Ask(p) PROVE RowsMove
    <2>1. ASSUME NEW r \in Rows, AcceptSlot(p, r) PROVE RowsMove
      <3>1. \A q \in Rows : \/ asg'[q] = asg[q]
                            \/ asg[q] = "OFFERED" /\ asg'[q] \in {"ACCEPTED", "CANCELLED"}
        BY <2>1 DEF AcceptSlot, CanAccept, Pending
      <3> QED
        BY <2>1, <3>1 DEF AcceptSlot, RowsMove, RowMoves, AllowedNext
    <2>2. ASSUME NEW r \in Rows,
                 AcceptRead(p, r) \/ DeclineRead(p, r) \/ ExpireRead(p, r) \/ HandoffRead(p, r)
          PROVE  RowsMove
      BY <1>1, <2>2 DEF AcceptRead, DeclineRead, ExpireRead, HandoffRead
    <2>4. ASSUME NEW r \in Rows, Complete(p, r) PROVE RowsMove
      <3>1. asg[r] \in CompletableStatus
        BY <1>0, <2>4, StillAsRead DEF Complete, CompletableStatus
      <3> QED
        BY <1>2, <2>4, <3>1 DEF Complete, CompletableStatus, AllowedNext
    <2> QED
      BY <1>1, <1>6, <2>1, <2>2, <2>4
         DEF Ask, RequestDispatch, ScanFails, ResumeReplacement, ConfirmBilling, Cancel,
             ApproveRead, NoShowRead
  <1>7. ASSUME NEW r \in Rows, AskAtOnce(r) PROVE RowsMove
    <2>2. CASE EnRoute(r)
      <3>1. asg[r] = "ACCEPTED"
        BY <1>0, <2>2, StillAsRead DEF EnRoute
      <3> QED
        BY <1>2, <2>2, <3>1 DEF EnRoute, AllowedNext
    <2>3. CASE Arrives(r)
      <3>1. asg[r] = "EN_ROUTE"
        BY <1>0, <2>3, StillAsRead DEF Arrives
      <3> QED
        BY <1>2, <2>3, <3>1 DEF Arrives, AllowedNext
    <2>5. CASE RequestEarlyRelease(r)
      <3>1. asg[r] = "ON_SITE"
        BY <1>0, <2>5, StillAsRead DEF RequestEarlyRelease
      <3> QED
        BY <1>2, <2>5, <3>1 DEF RequestEarlyRelease, AllowedNext
    <2>6. CASE ResolveEarlyRelease(r)
      <3>1. \/ asg[r] = "EARLY_RELEASE_REQUESTED" /\ Sets({r}, "EARLY_RELEASE_GRANTED")
            \/ /\ asg[r] \in {"EARLY_RELEASE_REQUESTED", "EARLY_RELEASE_GRANTED"}
               /\ Sets({r}, "ON_SITE")
        BY <1>0, <2>6, StillAsRead DEF ResolveEarlyRelease
      <3> QED
        BY <1>2, <2>6, <3>1 DEF ResolveEarlyRelease, AllowedNext
    <2>7. CASE RequestReplacement(r)
      <3>1. asg[r] = "ON_SITE"
        BY <1>0, <2>7, StillAsRead DEF RequestReplacement
      <3> QED
        BY <1>2, <2>7, <3>1 DEF RequestReplacement, AllowedNext
    <2>8. CASE DenyReplacement(r)
      <3>1. asg[r] = "REPLACEMENT_REQUESTED"
        BY <1>0, <2>8, StillAsRead DEF DenyReplacement
      <3> QED
        BY <1>2, <2>8, <3>1 DEF DenyReplacement, AllowedNext
    <2> QED
      BY <1>7, <2>2, <2>3, <2>5, <2>6, <2>7, <2>8 DEF AskAtOnce
  <1>8. CASE UNCHANGED vars
    BY <1>1, <1>8 DEF vars
  <1> QED
    BY <1>3, <1>4, <1>5, <1>6, <1>7, <1>8 DEF Next, Procs

(* Every step leaves a process alone, moves it to a stage that matters     *)
(* little, or is one of those that the invariant has to follow.            *)
LEMMA ProcStep ==
    ASSUME TypeOK, SearchInv, "cancel" \notin Requests, [Next]_vars, NEW q \in Procs
    PROVE  ProcMoves(q)
  <1> DEFINE Quiet == {s \in Stages : s \notin {"approve", "substitute", "insert", "search",
                                                  "absent"} \cup CancelStages \cup Answering}
  <1>1. op \in [Procs -> OpRecords]
    BY DEF TypeOK, OpRecords
  <1>2. ASSUME NEW p \in Procs, NEW s \in Quiet, Goes(p, s) PROVE ProcMoves(q)
    <2>1. op'[q] = op[q] \/ op'[q].at = s
      BY <1>1, <1>2 DEF Goes, At
    <2> QED
      BY <2>1 DEF ProcMoves
  <1>3. ASSUME NEW p \in Procs, Ends(p) PROVE ProcMoves(q)
    <2>1. op'[q] = op[q] \/ op'[q].at = "idle"
      BY <1>1, <1>3 DEF Ends, Idle, At
    <2> QED
      BY <2>1 DEF ProcMoves, CancelStages, Answering
  <1>4. op' = op => ProcMoves(q)
    BY DEF ProcMoves
  <1>5. /\ {"idle", "failRelease", "failWrite", "enqueue", "expired", "dispatchWrite"} \subseteq Quiet
        /\ {"askSubstitute", "finish", "await", "draft", "invoice", "issue"} \subseteq Quiet
    BY DEF Stages, CancelStages, Answering
  <1>6. ASSUME NEW p \in Procs, p # q, NEW x, op' = [op EXCEPT ![p] = x] PROVE ProcMoves(q)
    BY <1>1, <1>6 DEF ProcMoves
  <1> HIDE DEF Quiet
  <1>7. ASSUME NEW p \in Procs, Continue(p) PROVE ProcMoves(q)
    <2>1. CASE CountOpenSlots(p)
      BY <1>3, <1>6, <2>1 DEF CountOpenSlots, ProcMoves
    <2>2. ~CancelRead(p) /\ ~CancelRelease(p) /\ ~CancelWrite(p)
      BY DEF CancelRead, CancelRelease, CancelWrite, SearchInv, NobodyCancels, CancelStages, Stands
    <2>3. CASE Enqueue(p) \/ SendOffers(p) \/ OfferSubstitution(p) \/ FailWrite(p)
      BY <1>3, <2>3 DEF Enqueue, SendOffers, OfferSubstitution, FailWrite
    <2>4. CASE DispatchWrite(p) \/ FailRelease(p) \/ NobodyToAsk(p) \/ ApproveCommit(p)
      BY <1>2, <1>5, <2>4 DEF DispatchWrite, FailRelease, NobodyToAsk, ApproveCommit
    <2>5. CASE NobodyToSubstitute(p) \/ AfterExpiry(p)
      BY <1>2, <1>3, <1>5, <2>5 DEF NobodyToSubstitute, AfterExpiry
    <2>6. CASE ApproveRefused(p) \/ AskSubstitute(p) \/ DraftInvoice(p) \/ IssueInvoice(p)
      BY <1>3, <2>6 DEF ApproveRefused, AskSubstitute, DraftInvoice, IssueInvoice
    <2>7. CASE CountActive(p) \/ CompleteFromAssignment(p) \/ ReadAfter(p)
      BY <1>2, <1>3, <1>5, <2>7 DEF CountActive, CompleteFromAssignment, ReadAfter
    <2>8. CASE NoShowCommit(p) \/ NoShowRefused(p)
      BY <1>3, <2>8 DEF NoShowCommit, NoShowRefused
    <2>9. CASE AcceptCommit(p) \/ OfferRefused(p) \/ HandoffCommit(p) \/ HandoffRefused(p)
      BY <1>3, <2>9 DEF AcceptCommit, OfferRefused, HandoffCommit, HandoffRefused
    <2>10. CASE DeclineCommit(p) \/ ExpireCommit(p)
      BY <1>2, <1>3, <1>5, <2>10 DEF DeclineCommit, ExpireCommit
    <2> QED
      BY <1>7, <2>1, <2>2, <2>3, <2>4, <2>5, <2>6, <2>7, <2>8, <2>9, <2>10 DEF Continue
  <1>8. ASSUME NEW p \in Procs, Crash(p) PROVE ProcMoves(q)
    BY <1>3, <1>8 DEF Crash
  <1>9. ASSUME NEW p \in Dispatchers, TakeEvent(p) PROVE ProcMoves(q)
    <2>1. p \in Procs
      BY DEF Procs
    <2>2. CASE TakeSeeks(p)
      BY <1>6, <2>1, <2>2 DEF TakeSeeks, GoesWith, ProcMoves
    <2>3. CASE TakeSearches(p)
      BY <1>6, <2>1, <2>3 DEF TakeSearches, Goes, ProcMoves
    <2>4. CASE TakeFails(p)
      BY <1>2, <1>5, <2>1, <2>4 DEF TakeFails
    <2> QED
      BY <1>4, <1>9, <2>2, <2>3, <2>4 DEF TakeEvent, TakeForNothing, TakeSettles, TakePauses
  <1>10. ASSUME NEW p \in Clerks, Ask(p) PROVE ProcMoves(q)
    <2>1. p \in Procs
      BY DEF Procs
    <2>2. ASSUME NEW r \in Rows, ApproveRead(p, r) PROVE ProcMoves(q)
      BY <1>6, <2>1, <2>2 DEF ApproveRead, GoesWith, ProcMoves
    <2>3. ASSUME NEW r \in Rows,
                 AcceptSlot(p, r) \/ Complete(p, r)
          PROVE  ProcMoves(q)
      BY <1>2, <1>4, <1>5, <2>1, <2>3 DEF AcceptSlot, Complete
    <2>4. ~Cancel(p)
      BY DEF Cancel
    <2>5. ASSUME NEW r \in Rows, NoShowRead(p, r) PROVE ProcMoves(q)
      BY <1>6, <2>1, <2>5 DEF NoShowRead, ProcMoves
    <2>6. ASSUME NEW r \in Rows,
                 AcceptRead(p, r) \/ DeclineRead(p, r) \/ ExpireRead(p, r) \/ HandoffRead(p, r)
          PROVE  ProcMoves(q)
      <3>1. \E s \in Answering : ReadsJob(p, s, r) \/ GoesWith(p, s, r)
        BY <2>6 DEF AcceptRead, DeclineRead, ExpireRead, HandoffRead, Answering
      <3>2. op'[q] = op[q] \/ (op'[q].at \in Answering /\ op'[q].row = r)
        BY <1>1, <2>1, <3>1, ReadStage DEF GoesWith, At
      <3> QED
        BY <3>2 DEF ProcMoves
    <2> QED
      BY <1>2, <1>5, <1>10, <2>1, <2>2, <2>3, <2>4, <2>5, <2>6
         DEF Ask, RequestDispatch, ScanFails, ResumeReplacement, ConfirmBilling
  <1>11. ASSUME NEW r \in Rows, AskAtOnce(r) PROVE op' = op
    BY <1>11 DEF AskAtOnce, EnRoute, Arrives,
       RequestEarlyRelease, ResolveEarlyRelease, RequestReplacement, DenyReplacement
  <1> QED
    BY <1>4, <1>7, <1>8, <1>9, <1>10, <1>11 DEF Next, vars, DeadlinePasses

-----------------------------------------------------------------------------
(* An insert gives the next numbers to rows that were not sent before.     *)
LEMMA InsertStep ==
    ASSUME TypeOK, Numbered, NEW n \in Nat, NEW d, Insert(n, d)
    PROVE  \E k \in 0 .. MaxRows :
              /\ k + n <= MaxRows
              /\ Sent = 1 .. k
              /\ \A r \in Rows : asg'[r] = IF r \in k + 1 .. k + n THEN "OFFERED" ELSE asg[r]
              /\ \A r \in Rows : replaces'[r] = IF r \in k + 1 .. k + n THEN d ELSE replaces[r]
              /\ \A r \in Rows : freed'[r] \in {freed[r], "UNSENT"}
              /\ \A r \in k + 1 .. k + n : r \in Rows /\ asg[r] = "UNSENT"
  <1>1. PICK k \in 0 .. MaxRows : Sent = 1 .. k
    BY DEF Numbered
  <1>2. k \in Nat /\ MaxRows \in Nat
    BY BoundsPositive
  <1>3. Cardinality(Sent) = k
    BY <1>1, <1>2, FS_Interval
  <1>4. k + n <= MaxRows
    BY <1>3 DEF Insert
  <1>5. \A r \in k + 1 .. k + n : r \in Rows /\ r \notin Sent
    BY <1>1, <1>2, <1>4 DEF Rows
  <1>6. \A r \in k + 1 .. k + n : asg[r] = "UNSENT"
    BY <1>5 DEF Sent
  <1>7. \A r \in Rows : asg'[r] = IF r \in k + 1 .. k + n THEN "OFFERED" ELSE asg[r]
    BY <1>3 DEF Insert, Sets
  <1>8. \A r \in Rows : replaces'[r] = IF r \in k + 1 .. k + n THEN d ELSE replaces[r]
    BY <1>3 DEF Insert
  <1>9. \A r \in Rows : freed'[r] \in {freed[r], "UNSENT"}
    BY DEF Insert, Sets
  <1> QED
    BY <1>1, <1>4, <1>5, <1>6, <1>7, <1>8, <1>9

(* Both inserting steps are inserts: of ordinary offers within the slots   *)
(* that were counted, or of one offer that replaces a known row.           *)
LEMMA SendersInsert ==
    ASSUME TypeOK, SearchInv, NEW p \in Procs, SendOffers(p) \/ OfferSubstitution(p)
    PROVE  /\ p \in Dispatchers
           /\ op'[p] = Idle
           /\ status' = status /\ departing' = departing
           /\ \/ op[p].at = "insert" /\ \E n \in 1 .. op[p].open : Insert(n, 0)
              \/ op[p].row # 0 /\ Insert(1, op[p].row)
  <1>1. op \in [Procs -> OpRecords]
    BY DEF TypeOK, OpRecords
  <1>2. CASE SendOffers(p)
    BY <1>1, <1>2 DEF SendOffers, SearchInv, DispatchersSend, Stands, Ends, Relief
  <1>3. CASE OfferSubstitution(p)
    BY <1>1, <1>3 DEF OfferSubstitution, SearchInv, DispatchersSend, SubstituteKnown, Stands,
       Ends, Relief
  <1> QED
    BY <1>2, <1>3

(* So a step moves rows as the table allows or is an insert.               *)
LEMMA SenderInserts ==
    ASSUME TypeOK, SearchInv, [Next]_vars
    PROVE  RowsMove \/ \E n \in Nat, d \in 0 .. MaxRows : Insert(n, d)
  <1>1. op \in [Procs -> OpRecords]
    BY DEF TypeOK, OpRecords
  <1>2. \A p \in Procs : op[p].row \in 0 .. MaxRows /\ op[p].open \in Nat
    BY <1>1, BoundsPositive DEF OpRecords
  <1>3. \A p \in Procs : SendOffers(p) => \E n \in Nat : Insert(n, 0)
    BY <1>2 DEF SendOffers
  <1>4. \A p \in Procs : OfferSubstitution(p) => Insert(1, op[p].row)
    BY DEF OfferSubstitution
  <1>5. 0 \in 0 .. MaxRows
    BY BoundsPositive
  <1> QED
    BY <1>2, <1>3, <1>4, <1>5, RowStep

(* A row that is neither unsent nor offered nor cancelled stays so.        *)
LEMMA UnderWayStays ==
    ASSUME NEW r \in Rows, RowMoves(r), asg[r] \notin {"UNSENT", "OFFERED", "CANCELLED"}
    PROVE  asg'[r] \notin {"UNSENT", "OFFERED", "CANCELLED"}
  BY DEF RowMoves, AllowedNext

(* The job comes to seek a replacement, or another one, by an approval and *)
(* by nothing else.                                                        *)
LEMMA SearchMoves ==
    ASSUME [Next]_vars
    PROVE  \/ status' = status /\ departing' = departing
           \/ status' # "SEEKING_REPLACEMENT"
           \/ \E p \in Procs : ApproveCommit(p)
  <1>1. ASSUME NEW p \in Procs, NoShowCommit(p)
        PROVE  \/ status' = status /\ departing' = departing
               \/ status' # "SEEKING_REPLACEMENT"
    BY <1>1 DEF NoShowCommit, MovesTo
  <1> USE DEF Relief, SearchData, Assignments
  <1>2. ASSUME NEW p \in Procs, Continue(p)
        PROVE  \/ status' = status /\ departing' = departing
               \/ status' # "SEEKING_REPLACEMENT"
               \/ ApproveCommit(p)
    BY <1>2, <1>1
       DEF Continue, NoShowRefused, CancelRead, Enqueue, DispatchWrite, FailRelease, FailWrite,
       AcceptCommit, DeclineCommit, ExpireCommit, OfferRefused, HandoffCommit, HandoffRefused,
       CountOpenSlots, SendOffers, NobodyToAsk, OfferSubstitution, NobodyToSubstitute, AfterExpiry,
       ApproveRefused, AskSubstitute, CountActive, CompleteFromAssignment, ReadAfter,
       DraftInvoice, IssueInvoice, CancelRelease, CancelWrite
  <1>3. ASSUME NEW p \in Procs, Crash(p) \/ TakeEvent(p) \/ Ask(p)
        PROVE  \/ status' = status /\ departing' = departing
               \/ status' # "SEEKING_REPLACEMENT"
    BY <1>3 DEF Crash, TakeEvent, TakeForNothing, TakeSettles, TakeSearches, TakeFails,
       TakePauses, TakeSeeks, Ask, RequestDispatch, ScanFails, ResumeReplacement,
       ConfirmBilling, Cancel, AcceptSlot, AcceptRead, DeclineRead, ExpireRead, HandoffRead,
       NoShowRead, ApproveRead, Complete
  <1>4. ASSUME NEW r \in Rows, AskAtOnce(r)
        PROVE  \/ status' = status /\ departing' = departing
               \/ status' # "SEEKING_REPLACEMENT"
    BY <1>4 DEF AskAtOnce, EnRoute, Arrives,
       RequestEarlyRelease, ResolveEarlyRelease, RequestReplacement, DenyReplacement
  <1> QED
    BY <1>2, <1>3, <1>4 DEF Next, vars, DeadlinePasses, Procs

(* The parts of the invariant are kept by every step. *)
LEMMA SearchStep ==
    ASSUME TypeOK, SearchInv, "cancel" \notin Requests, [Next]_vars
    PROVE  SearchInv'
  <1>1. \A q \in Procs : ProcMoves(q)
    BY ProcStep
  <1>2. op \in [Procs -> OpRecords]
    BY DEF TypeOK, OpRecords
  <1>3. RowsMove \/ \E n \in Nat, d \in 0 .. MaxRows : Insert(n, d)
    BY SenderInserts
  <1>4. Numbered'
    <2>1. CASE RowsMove
      <3>1. \A r \in Rows : asg'[r] = "UNSENT" <=> asg[r] = "UNSENT"
        BY <2>1 DEF RowsMove, RowMoves, AllowedNext
      <3>2. Sent' = Sent
        BY <3>1 DEF Sent
      <3> QED
        BY <3>2 DEF SearchInv, Numbered
    <2>2. ASSUME NEW n \in Nat, NEW d, Insert(n, d) PROVE Numbered'
      <3>1. PICK k \in 0 .. MaxRows :
              /\ k + n <= MaxRows
              /\ Sent = 1 .. k
              /\ \A r \in Rows : asg'[r] = IF r \in k + 1 .. k + n THEN "OFFERED" ELSE asg[r]
              /\ \A r \in k + 1 .. k + n : r \in Rows /\ asg[r] = "UNSENT"
        BY <2>2, InsertStep DEF SearchInv
      <3>2. Sent' = 1 .. k + n
        <4>1. \A r \in Rows : r \in Sent' <=> r \in Sent \/ r \in k + 1 .. k + n
          BY <3>1 DEF Sent
        <4>2. Sent' \subseteq Rows /\ Sent \subseteq Rows
          BY DEF Sent
        <4>3. \A r : r \in 1 .. k + n <=> r \in 1 .. k \/ r \in k + 1 .. k + n
          BY <3>1
        <4> QED
          BY <3>1, <4>1, <4>2, <4>3
      <3>3. k + n \in 0 .. MaxRows
        BY <3>1, BoundsPositive
      <3> QED
        BY <3>2, <3>3 DEF Numbered
    <2> QED
      BY <1>3, <2>1, <2>2
  <1>5. \A r \in Rows : asg[r] \notin {"UNSENT", "OFFERED", "CANCELLED"}
           => asg'[r] \notin {"UNSENT", "OFFERED", "CANCELLED"}
    <2>1. CASE RowsMove
      BY <2>1, UnderWayStays DEF RowsMove
    <2>2. ASSUME NEW n \in Nat, NEW d, Insert(n, d), NEW r \in Rows, asg[r] # "UNSENT"
          PROVE  asg'[r] = asg[r]
      BY <2>2, InsertStep DEF SearchInv
    <2> QED
      BY <1>3, <2>1, <2>2
  <1>6. Approvable'
    <2> SUFFICES ASSUME NEW p \in Procs, op'[p].at = "approve"
                 PROVE  /\ op'[p].row \in Rows
                        /\ asg'[op'[p].row] \notin {"UNSENT", "OFFERED", "CANCELLED"}
      BY DEF Approvable
    <2>1. CASE op'[p] = op[p]
      BY <1>5, <2>1 DEF SearchInv, Approvable
    <2>2. ASSUME NEW r \in Rows, ApproveRead(p, r)
          PROVE  op'[p].row = r /\ asg'[r] = "REPLACEMENT_REQUESTED"
      BY <1>2, <2>2 DEF ApproveRead, GoesWith, At, Assignments
    <2>3. ~TakeSeeks(p) /\ ~TakeSearches(p) /\ ~CountOpenSlots(p)
          /\ \A r \in Rows : ~NoShowRead(p, r)
      BY <1>2, AbsentStage DEF TakeSeeks, TakeSearches, CountOpenSlots, GoesWith, Goes, Ends,
         Idle, At
    <2> QED
      BY <1>1, <2>1, <2>2, <2>3 DEF ProcMoves, Answering
  <1>7. SubstituteKnown'
    <2>1. Seeking' => departing' # 0
      <3>1. CASE status' = status /\ departing' = departing
        BY <3>1 DEF SearchInv, SubstituteKnown, Seeking
      <3>2. CASE status' # "SEEKING_REPLACEMENT"
        BY <3>2 DEF Seeking
      <3>3. ASSUME NEW p \in Procs, ApproveCommit(p) PROVE departing' # 0
        BY <3>3, BoundsPositive DEF ApproveCommit, SearchInv, Approvable, Stands, Rows
      <3> QED
        BY <3>1, <3>2, <3>3, SearchMoves
    <2>2. ASSUME NEW p \in Procs, op'[p].at = "substitute" PROVE op'[p].row # 0
      <3>1. CASE op'[p] = op[p]
        BY <2>2, <3>1 DEF SearchInv, SubstituteKnown
      <3>2. CASE TakeSeeks(p)
        BY <1>2, <3>2 DEF TakeSeeks, GoesWith, At, SearchInv, SubstituteKnown
      <3>3. /\ ~TakeSearches(p) /\ ~CountOpenSlots(p)
            /\ \A r \in Rows : ~ApproveRead(p, r) /\ ~NoShowRead(p, r)
        BY <1>2, <2>2, AbsentStage DEF TakeSearches, CountOpenSlots, ApproveRead, GoesWith,
           Goes, Ends, Idle, At
      <3> QED
        BY <1>1, <2>2, <3>1, <3>2, <3>3 DEF ProcMoves, Answering
    <2> QED
      BY <2>1, <2>2 DEF SubstituteKnown
  <1>8. DispatchersSend'
    <2> SUFFICES ASSUME NEW p \in Procs, op'[p].at \in {"search", "insert", "substitute"}
                 PROVE  p \in Dispatchers
      BY DEF DispatchersSend
    <2>1. CASE op'[p] = op[p]
      BY <2>1 DEF SearchInv, DispatchersSend
    <2>2. CASE CountOpenSlots(p)
      BY <2>2 DEF CountOpenSlots, Stands, SearchInv, DispatchersSend
    <2>3. \A r \in Rows : ~ApproveRead(p, r) /\ ~NoShowRead(p, r)
      BY <1>2, AbsentStage DEF ApproveRead, GoesWith, At
    <2> QED
      BY <1>1, <2>1, <2>2, <2>3 DEF ProcMoves, Answering
  <1>9. NobodyCancels'
    <2> SUFFICES ASSUME NEW p \in Procs, op'[p].at \in CancelStages
                 PROVE  FALSE
      BY DEF NobodyCancels
    <2>1. CASE op'[p] = op[p]
      BY <2>1 DEF SearchInv, NobodyCancels
    <2>2. op'[p].at \notin {"search", "insert", "idle", "substitute", "approve", "absent"}
      BY DEF CancelStages
    <2>3. ~TakeSeeks(p) /\ ~TakeSearches(p) /\ ~CountOpenSlots(p)
          /\ \A r \in Rows : ~ApproveRead(p, r) /\ ~NoShowRead(p, r)
      BY <1>2, <2>2, AbsentStage DEF TakeSeeks, TakeSearches, CountOpenSlots, ApproveRead,
         GoesWith, Goes, Ends, Idle, At
    <2>4. op'[p].at \notin Answering
      BY DEF CancelStages, Answering
    <2> QED
      BY <1>1, <2>1, <2>3, <2>4 DEF ProcMoves
  <1>10. Absence'
    <2> SUFFICES ASSUME NEW p \in Procs, op'[p].at = "absent"
                 PROVE  op'[p].row \in Rows /\ op'[p].was \in AbsentStatus
      BY DEF Absence
    <2>1. CASE op'[p] = op[p]
      BY <2>1 DEF SearchInv, Absence
    <2>2. ASSUME NEW r \in Rows, NoShowRead(p, r)
          PROVE  op'[p].row = r /\ op'[p].was \in AbsentStatus
      BY <1>2, <2>2, AbsentStage DEF NoShowRead
    <2>3. ~TakeSeeks(p) /\ ~TakeSearches(p) /\ ~CountOpenSlots(p)
          /\ \A r \in Rows : ~ApproveRead(p, r)
      BY <1>2 DEF TakeSeeks, TakeSearches, CountOpenSlots, ApproveRead, GoesWith, Goes, Ends,
         Idle, At
    <2> QED
      BY <1>1, <2>1, <2>2, <2>3 DEF ProcMoves, Answering
  <1>11. OffersFreed'
    <2>1. CASE RowsMove
      BY <2>1 DEF RowsMove, SearchInv, OffersFreed
    <2>2. ASSUME NEW n \in Nat, NEW d, Insert(n, d) PROVE OffersFreed'
      BY <2>2, InsertStep DEF SearchInv, OffersFreed
    <2> QED
      BY <1>3, <2>1, <2>2
  <1>12. RowHeld'
    <2> SUFFICES ASSUME NEW p \in Procs, op'[p].at \in Answering PROVE op'[p].row \in Rows
      BY DEF RowHeld
    <2>1. CASE op'[p] = op[p]
      BY <2>1 DEF SearchInv, RowHeld
    <2>2. op'[p].at \notin {"search", "insert", "idle", "substitute", "approve", "absent"}
      BY DEF Answering
    <2>3. ~TakeSeeks(p) /\ ~TakeSearches(p) /\ ~CountOpenSlots(p)
          /\ \A r \in Rows : ~ApproveRead(p, r) /\ ~NoShowRead(p, r)
      BY <1>2, <2>2, AbsentStage DEF TakeSeeks, TakeSearches, CountOpenSlots, ApproveRead,
         GoesWith, Goes, Ends, Idle, At
    <2> QED
      BY <1>1, <2>1, <2>3 DEF ProcMoves
  <1> QED
    BY <1>4, <1>6, <1>7, <1>8, <1>9, <1>10, <1>11, <1>12 DEF SearchInv

(* Nobody is in the middle of anything when the job is created. *)
LEMMA SearchInit == Init => SearchInv
  <1> SUFFICES ASSUME Init PROVE SearchInv
    OBVIOUS
  <1>1. \A p \in Procs : op[p].at = "idle"
    BY DEF Init, Idle, At
  <1>2. Sent = 1 .. 0 /\ 0 \in 0 .. MaxRows
    BY BoundsPositive DEF Init, Sent
  <1>3. ~Seeking
    BY DEF Init, Seeking
  <1>4. \A r \in Rows : freed[r] = "UNSENT"
    BY DEF Init
  <1> QED
    BY <1>1, <1>2, <1>3, <1>4 DEF SearchInv, Numbered, Approvable, SubstituteKnown, DispatchersSend,
       NobodyCancels, CancelStages, Absence, OffersFreed, RowHeld, Answering

(* A job that nobody cancels keeps the invariant. *)
THEOREM SearchInvariant ==
    ASSUME "cancel" \notin Requests
    PROVE  Spec => [](TypeOK /\ SearchInv)
  <1>1. Init => TypeOK /\ SearchInv
    BY TypeInit, SearchInit
  <1>2. TypeOK /\ SearchInv /\ [Next]_vars => TypeOK' /\ SearchInv'
    BY TypeStep, SearchStep
  <1> QED
    BY <1>1, <1>2, PTL DEF Spec

(* As long as nobody cancels the job, every write to an assignment, the    *)
(* bulk releases, the handoff and the approvals of requests read earlier   *)
(* included, is a transition of assignment-transitions.ts, from the status *)
(* it has or, if it was released in bulk, from the one it had before; only *)
(* the no-show of an offer is not.                                         *)
THEOREM MovesAsAllowed ==
    ASSUME "cancel" \notin Requests
    PROVE  Spec => AssignmentsMoveAsAllowed
  <1>1. TypeOK /\ SearchInv /\ [Next]_vars => [\A r \in Rows : AllowedStep(r)]_vars
    <2> SUFFICES ASSUME TypeOK, SearchInv, [Next]_vars, NEW r \in Rows
                 PROVE  AllowedStep(r)
      OBVIOUS
    <2>1. CASE RowsMove
      BY <2>1 DEF RowsMove, RowMoves, AllowedStep, AllowedNext
    <2>2. ASSUME NEW n \in Nat, NEW d, Insert(n, d) PROVE AllowedStep(r)
      <3>1. asg'[r] = asg[r] \/ (asg[r] = "UNSENT" /\ asg'[r] = "OFFERED")
        BY <2>2, InsertStep DEF SearchInv
      <3> QED
        BY <3>1 DEF AllowedStep, AllowedNext
    <2>3. RowsMove \/ \E n \in Nat, d \in 0 .. MaxRows : Insert(n, d)
      BY SenderInserts
    <2> QED
      BY <2>1, <2>2, <2>3
  <1> QED
    BY <1>1, SearchInvariant, PTL DEF AssignmentsMoveAsAllowed, Spec

-----------------------------------------------------------------------------
(* Why nobody is left at work when a job awaits confirmation, if nobody    *)
(* asks for dispatch, cancels, or reports a no-show.  Who has arrived, or  *)
(* has left again, has begun the job.                                      *)
Begun == (ActiveStatus \ {"ACCEPTED", "EN_ROUTE"}) \cup {"COMPLETED"}
Late == {"IN_PROGRESS", "SEEKING_REPLACEMENT", "AWAITING_CONFIRMATION", "COMPLETED", "FAILED"}

(* A job that has begun is not searched for again.                         *)
BegunIsLate == (\E r \in Rows : asg[r] \in Begun) => status \in Late

(* Whoever finishes a job has completed an assignment of it.               *)
Finishing ==
    \A p \in Procs :
        /\ op[p].at \notin {"absent", "dispatchWrite"}
        /\ op[p].at \in {"finish", "await"} => \E r \in Rows : asg[r] = "COMPLETED"

(* From the count that found nobody at work on, nobody is, except whoever  *)
(* accepted after it.                                                      *)
AllCounted == AlreadyCounted => Active \subseteq uncounted

DoneInv == BegunIsLate /\ Finishing /\ AllCounted

(* A step that leaves the status alone and lets nobody arrive; who joins   *)
(* in it, if everybody was counted already, is known to join late.         *)
NobodyArrives == \A r \in Rows : asg'[r] \in Begun => asg[r] \in Begun
NobodyJoins == \A r \in Rows : asg'[r] \in ActiveStatus => asg[r] \in ActiveStatus
Quiet ==
    /\ status' = status /\ NobodyArrives
    /\ \A r \in Rows : asg'[r] \in ActiveStatus
          => asg[r] \in ActiveStatus \/ (AlreadyCounted => r \in uncounted')

(* The other steps.                                                        *)
Early == /\ status \notin Late /\ status' \notin {"AWAITING_CONFIRMATION", "COMPLETED"}
         /\ NobodyArrives
Fails == status' = "FAILED" /\ NobodyArrives /\ NobodyJoins
Approves == /\ status \in {"IN_PROGRESS", "SEEKING_REPLACEMENT"}
            /\ status' = "SEEKING_REPLACEMENT" /\ NobodyArrives /\ NobodyJoins
Confirms == /\ status \in {"AWAITING_CONFIRMATION", "COMPLETED"} /\ status' = "COMPLETED"
            /\ UNCHANGED asg
Awaits(p) == /\ op[p].at = "await" /\ CanAwait /\ status' = "AWAITING_CONFIRMATION"
             /\ UNCHANGED asg
Comes(r) == /\ status \in {"ASSIGNED", "PARTIALLY_ASSIGNED", "IN_PROGRESS"}
            /\ status' = "IN_PROGRESS" /\ asg[r] = "EN_ROUTE"
            /\ \A s \in Rows : asg'[s] = asg[s] \/ (s = r /\ asg'[s] = "ON_SITE")
Relieves == status' = "IN_PROGRESS" /\ NobodyJoins

(* Who is known to have joined late stays known.                           *)
LEMMA LateStayKnown == ASSUME [Next]_vars PROVE uncounted \subseteq uncounted'
  <1> USE DEF Assignments, Sets, Releases
  <1>1. ASSUME NEW p \in Procs, Continue(p) PROVE uncounted \subseteq uncounted'
    BY <1>1 DEF Continue, Enqueue, DispatchWrite, FailRelease, FailWrite, CountOpenSlots,
       SendOffers, Insert, NobodyToAsk, OfferSubstitution, NobodyToSubstitute, AcceptCommit,
       DeclineCommit, ExpireCommit, OfferRefused, AfterExpiry, HandoffCommit, HandoffRefused,
       ApproveCommit, ApproveRefused, AskSubstitute, CountActive, CompleteFromAssignment,
       ReadAfter, DraftInvoice, IssueInvoice, NoShowCommit, NoShowRefused, CancelRead,
       CancelRelease, CancelWrite
  <1>2. ASSUME NEW p \in Procs, Crash(p) \/ TakeEvent(p) PROVE uncounted' = uncounted
    BY <1>2 DEF Crash, TakeEvent, TakeForNothing, TakeSettles, TakeSearches, TakeFails,
       TakePauses, TakeSeeks
  <1>3. ASSUME NEW p \in Procs, Ask(p) PROVE uncounted' = uncounted
    BY <1>3 DEF Ask, RequestDispatch, ScanFails, ResumeReplacement, ConfirmBilling, Cancel,
       AcceptSlot, AcceptRead, DeclineRead, ExpireRead, NoShowRead, HandoffRead, ApproveRead,
       Complete
  <1>4. ASSUME NEW r \in Rows, AskAtOnce(r) PROVE uncounted' = uncounted
    BY <1>4 DEF AskAtOnce, EnRoute, Arrives, RequestEarlyRelease, ResolveEarlyRelease,
       RequestReplacement, DenyReplacement
  <1> QED
    BY <1>1, <1>2, <1>3, <1>4 DEF Next, vars, DeadlinePasses, Procs

(* Every step is of one of these kinds.                                    *)
LEMMA KindOfStep ==
    ASSUME TypeOK, SearchInv, Finishing, Requests = {}, [Next]_vars
    PROVE  \/ Quiet \/ Early \/ Fails \/ Approves \/ Confirms \/ Relieves
           \/ \E p \in Procs : Awaits(p)
           \/ \E r \in Rows : Comes(r)
  <1> USE DEF Relief, SearchData, Assignments
  <1>0. OffersFreed
    BY DEF SearchInv
  <1>1. status' = status /\ asg' = asg => Quiet
    BY DEF Quiet, NobodyArrives
  <1>2. ASSUME NEW r \in Rows, NEW s, Sets({r}, s),
               asg[r] \in ActiveStatus \/ s \notin ActiveStatus,
               asg[r] \in Begun \/ s \notin Begun, status' = status
        PROVE  Quiet
    BY <1>2 DEF Sets, Quiet, NobodyArrives
  <1>3. ASSUME NEW n \in Nat, NEW d, Insert(n, d), status' = status PROVE Quiet
    BY <1>3 DEF Insert, Sets, Quiet, NobodyArrives, Begun, ActiveStatus
  <1>4. ASSUME NEW p \in Procs, Continue(p)
        PROVE  Quiet \/ Fails \/ Approves \/ Awaits(p) \/ Relieves
    <2>1. CASE FailRelease(p)
      BY <2>1 DEF FailRelease, Releases, Quiet, NobodyArrives, Begun, ActiveStatus
    <2>2. CASE FailWrite(p)
      BY <2>2 DEF FailWrite, Fails, NobodyArrives, NobodyJoins
    <2>3. CASE ApproveCommit(p)
      <3>1. op[p].row \in Rows /\ asg[op[p].row] = "REPLACEMENT_REQUESTED"
        BY <2>3, <1>0, StillAsRead DEF ApproveCommit, SearchInv, Approvable, Stands
      <3> QED
        BY <2>3, <3>1 DEF ApproveCommit, Sets, Approves, NobodyArrives, NobodyJoins, Begun,
           ActiveStatus
    <2>4. CASE CompleteFromAssignment(p)
      BY <1>1, <2>4 DEF CompleteFromAssignment, Awaits, Stands
    <2>5. ~CancelRelease(p) /\ ~CancelWrite(p)
      BY DEF CancelRelease, CancelWrite, SearchInv, NobodyCancels, CancelStages, Stands
    <2>6. ~NoShowCommit(p) /\ ~DispatchWrite(p)
      BY DEF NoShowCommit, DispatchWrite, Finishing, Stands
    <2>7. CASE SendOffers(p) \/ OfferSubstitution(p)
      <3>1. \E n \in Nat, d \in 0 .. MaxRows : Insert(n, d) /\ status' = status
        <4>1. op[p].row \in 0 .. MaxRows /\ op[p].open \in Nat
          BY BoundsPositive DEF TypeOK
        <4>2. /\ 0 \in 0 .. MaxRows
              /\ \A n \in 1 .. op[p].open : n \in Nat
          BY <4>1, BoundsPositive
        <4>3. CASE SendOffers(p)
          BY <4>2, <4>3 DEF SendOffers
        <4>4. CASE OfferSubstitution(p)
          BY <4>1, <4>4 DEF OfferSubstitution
        <4> QED
          BY <2>7, <4>3, <4>4
      <3> QED
        BY <1>3, <3>1
    <2>8. CASE AcceptCommit(p)
      <3>1. op[p].row \in Rows
        BY <2>8 DEF AcceptCommit, SearchInv, RowHeld, Answering, Stands
      <3>2. \A s \in Rows : asg'[s] = IF s = op[p].row THEN "ACCEPTED" ELSE asg[s]
        BY <2>8, <3>1 DEF AcceptCommit, TypeOK
      <3>3. status' = status /\ (AlreadyCounted => op[p].row \in uncounted')
        BY <2>8 DEF AcceptCommit
      <3> QED
        BY <3>2, <3>3 DEF Quiet, NobodyArrives, Begun
    <2>9. CASE DeclineCommit(p) \/ ExpireCommit(p)
      <3>1. op[p].row \in Rows
        BY <2>9 DEF DeclineCommit, ExpireCommit, SearchInv, RowHeld, Answering, Stands
      <3>2. \E s \in {"DECLINED", "EXPIRED"} : Sets({op[p].row}, s) /\ status' = status
        BY <2>9 DEF DeclineCommit, ExpireCommit
      <3> QED
        BY <1>2, <3>1, <3>2 DEF Begun, ActiveStatus
    <2>10. CASE HandoffCommit(p)
      <3> DEFINE r == op[p].row
      <3>1. r \in Rows
        BY <2>10 DEF HandoffCommit, SearchInv, RowHeld, Answering, Stands
      <3>2. asg[r] = "EN_ROUTE"
        BY <1>0, <2>10, <3>1, StillAsRead DEF HandoffCommit, HandoffFits
      <3>3. \A s \in Rows : \/ asg'[s] = asg[s] \/ asg'[s] = "COMPLETED"
                            \/ s = r
        BY <2>10 DEF HandoffCommit, TypeOK
      <3>4. status' = "IN_PROGRESS"
        BY <2>10 DEF HandoffCommit
      <3> QED
        BY <3>2, <3>3, <3>4 DEF Relieves, NobodyJoins, ActiveStatus
    <2> QED
      BY <1>1, <1>4, <2>1, <2>2, <2>3, <2>4, <2>5, <2>6, <2>7, <2>8, <2>9, <2>10
         DEF Continue, OfferRefused, HandoffRefused, NoShowRefused,
             CancelRead, Enqueue, CountOpenSlots, NobodyToAsk,
             NobodyToSubstitute, AfterExpiry, ApproveRefused, AskSubstitute, CountActive, ReadAfter,
             DraftInvoice, IssueInvoice
  <1>5. ASSUME NEW p \in Procs, Crash(p) \/ TakeEvent(p) PROVE Quiet \/ Early
    <2>1. CASE TakeSettles(p)
      BY <2>1 DEF TakeSettles, Early, NobodyArrives, Searching, Late
    <2> QED
      BY <1>1, <1>5, <2>1 DEF Crash, TakeEvent, TakeForNothing, TakeSearches, TakeFails,
         TakePauses, TakeSeeks
  <1>6. ASSUME NEW p \in Procs, Ask(p) PROVE Quiet \/ Early \/ Confirms
    <2>1. ASSUME NEW r \in Rows, AcceptSlot(p, r) PROVE Early
      BY <2>1 DEF AcceptSlot, CanAccept, Pending, Early, NobodyArrives, Searching, Late, Begun,
         ActiveStatus
    <2>2. ASSUME NEW r \in Rows,
                 AcceptRead(p, r) \/ DeclineRead(p, r) \/ ExpireRead(p, r) \/ HandoffRead(p, r)
          PROVE  Quiet
      BY <1>1, <2>2 DEF AcceptRead, DeclineRead, ExpireRead, HandoffRead
    <2>3. ASSUME NEW r \in Rows, Complete(p, r) PROVE Quiet
      <3>1. asg[r] \in CompletableStatus
        BY <2>3, <1>0, StillAsRead DEF Complete, CompletableStatus
      <3> QED
        BY <1>2, <2>3, <3>1 DEF Complete, Begun, ActiveStatus, CompletableStatus
    <2>4. CASE ConfirmBilling(p)
      BY <2>4 DEF ConfirmBilling, Confirms
    <2>5. ~Cancel(p) /\ ~RequestDispatch(p) /\ \A r \in Rows : ~NoShowRead(p, r)
      BY DEF Cancel, RequestDispatch, NoShowRead
    <2>6. ASSUME NEW r \in Rows, ApproveRead(p, r) PROVE Quiet
      BY <1>1, <2>6 DEF ApproveRead
    <2> QED
      BY <1>1, <1>6, <2>1, <2>2, <2>3, <2>4, <2>5, <2>6 DEF Ask, ScanFails, ResumeReplacement
  <1>7. ASSUME NEW r \in Rows, AskAtOnce(r) PROVE Quiet \/ Comes(r)
    <2>2. CASE EnRoute(r)
      <3>1. asg[r] = "ACCEPTED"
        BY <2>2, <1>0, StillAsRead DEF EnRoute
      <3> QED
        BY <1>2, <2>2, <3>1 DEF EnRoute, Begun, ActiveStatus
    <2>3. CASE Arrives(r)
      <3>1. asg[r] = "EN_ROUTE"
        BY <2>3, <1>0, StillAsRead DEF Arrives
      <3> QED
        BY <2>3, <3>1 DEF Arrives, Sets, Comes
    <2>5. ASSUME NEW S, "OFFERED" \notin S, "UNSENT" \notin S,
                 S \subseteq Begun, S \subseteq ActiveStatus,
                 ReadAs(r, S), NEW s, Sets({r}, s), status' = status
          PROVE  Quiet
      BY <1>2, <2>5, <1>0, StillAsRead
    <2>6. CASE \/ RequestEarlyRelease(r) \/ ResolveEarlyRelease(r)
               \/ RequestReplacement(r) \/ DenyReplacement(r)
      <3>1. /\ {"ON_SITE"} \subseteq Begun /\ {"ON_SITE"} \subseteq ActiveStatus
            /\ {"REPLACEMENT_REQUESTED"} \subseteq Begun
            /\ {"REPLACEMENT_REQUESTED"} \subseteq ActiveStatus
            /\ {"EARLY_RELEASE_REQUESTED", "EARLY_RELEASE_GRANTED"} \subseteq Begun
            /\ {"EARLY_RELEASE_REQUESTED", "EARLY_RELEASE_GRANTED"} \subseteq ActiveStatus
        BY DEF Begun, ActiveStatus
      <3>2. CASE RequestEarlyRelease(r) \/ RequestReplacement(r)
        BY <2>5, <3>1, <3>2 DEF RequestEarlyRelease, RequestReplacement
      <3>3. CASE ResolveEarlyRelease(r)
        <4>1. ReadAs(r, {"EARLY_RELEASE_REQUESTED", "EARLY_RELEASE_GRANTED"})
          BY <3>3 DEF ResolveEarlyRelease, ReadAs
        <4>2. Sets({r}, "EARLY_RELEASE_GRANTED") \/ Sets({r}, "ON_SITE")
          BY <3>3 DEF ResolveEarlyRelease
        <4> QED
          BY <2>5, <3>1, <3>3, <4>1, <4>2 DEF ResolveEarlyRelease
      <3>4. CASE DenyReplacement(r)
        BY <2>5, <3>1, <3>4 DEF DenyReplacement
      <3> QED
        BY <2>6, <3>2, <3>3, <3>4
    <2> QED
      BY <1>7, <2>2, <2>3, <2>6 DEF AskAtOnce
  <1> QED
    BY <1>1, <1>4, <1>5, <1>6, <1>7 DEF Next, vars, DeadlinePasses, Procs

(* How a process comes to finish the job.                                  *)
LEMMA FinisherStep ==
    ASSUME TypeOK, SearchInv, Requests = {}, [Next]_vars, NEW q \in Procs
    PROVE  \/ op'[q] = op[q]
           \/ op'[q].at \notin {"finish", "await", "absent", "dispatchWrite"}
           \/ op'[q].at = "finish" /\ \E r \in Rows : asg'[r] = "COMPLETED"
           \/ op'[q].at = "await" /\ op[q].at = "finish" /\ Active = {} /\ asg' = asg
  <1> DEFINE Moves ==
           \/ op'[q] = op[q]
           \/ op'[q].at \notin {"finish", "await", "absent", "dispatchWrite"}
           \/ op'[q].at = "finish" /\ \E r \in Rows : asg'[r] = "COMPLETED"
           \/ op'[q].at = "await" /\ op[q].at = "finish" /\ Active = {} /\ asg' = asg
  <1> DEFINE Elsewhere ==
           {s \in Stages : s \notin {"finish", "await", "absent", "dispatchWrite"}}
  <1>1. op \in [Procs -> OpRecords]
    BY DEF TypeOK, OpRecords
  <1>2. ASSUME NEW p \in Procs, NEW s \in Elsewhere, NEW r, NEW n,
               op' = [op EXCEPT ![p] = At(s, r, n)]
        PROVE  Moves
    <2>1. op'[q] = op[q] \/ op'[q].at = s
      BY <1>1, <1>2 DEF At
    <2> QED
      BY <2>1
  <1>3. op' = op => Moves
    OBVIOUS
  <1>4. /\ {"idle", "failRelease", "failWrite", "enqueue", "expired", "insert", "search"}
           \subseteq Elsewhere
        /\ {"askSubstitute", "draft", "invoice", "issue", "approve", "substitute"} \subseteq Elsewhere
        /\ {"expire", "handoff"} \subseteq Elsewhere
    BY DEF Stages
  <1>5. ASSUME NEW p \in Procs, p # q, NEW x, op' = [op EXCEPT ![p] = x] PROVE Moves
    BY <1>1, <1>5
  <1> HIDE DEF Elsewhere, Moves
  <1> USE DEF Goes, GoesWith, Ends, Idle
  <1>7. ASSUME NEW p \in Procs, Continue(p) PROVE Moves
    <2>1. CASE \/ CountOpenSlots(p) \/ Enqueue(p) \/ SendOffers(p)
               \/ OfferSubstitution(p) \/ FailWrite(p)
      BY <1>2, <1>4, <2>1 DEF CountOpenSlots, Enqueue, SendOffers, OfferSubstitution, FailWrite
    <2>2. ~CancelRead(p) /\ ~CancelRelease(p) /\ ~CancelWrite(p)
      BY DEF CancelRead, CancelRelease, CancelWrite, SearchInv, NobodyCancels, CancelStages, Stands
    <2>3. CASE DispatchWrite(p) \/ FailRelease(p) \/ NobodyToAsk(p) \/ ApproveCommit(p)
      BY <1>2, <1>4, <2>3 DEF DispatchWrite, FailRelease, NobodyToAsk, ApproveCommit
    <2>4. CASE NobodyToSubstitute(p) \/ AfterExpiry(p)
      BY <1>2, <1>4, <2>4 DEF NobodyToSubstitute, AfterExpiry
    <2>5. CASE ApproveRefused(p) \/ AskSubstitute(p) \/ DraftInvoice(p) \/ IssueInvoice(p)
      BY <1>2, <1>4, <2>5 DEF ApproveRefused, AskSubstitute, DraftInvoice, IssueInvoice
    <2>6. CASE CountActive(p)
      <3>1. CASE Active = {} /\ p = q
        <4>1. op[q].at = "finish" /\ op'[q].at = "await" /\ asg' = asg
          BY <1>1, <2>6, <3>1 DEF CountActive, Stands, At, Assignments
        <4> QED
          BY <3>1, <4>1 DEF Moves
      <3> QED
        BY <1>2, <1>4, <1>5, <2>6, <3>1 DEF CountActive
    <2>7. CASE CompleteFromAssignment(p) \/ ReadAfter(p)
      BY <1>2, <1>4, <2>7 DEF CompleteFromAssignment, ReadAfter
    <2>8. CASE NoShowCommit(p) \/ NoShowRefused(p)
      BY <1>2, <1>4, <2>8 DEF NoShowCommit, NoShowRefused
    <2>9. CASE \/ AcceptCommit(p) \/ DeclineCommit(p) \/ ExpireCommit(p) \/ OfferRefused(p)
               \/ HandoffCommit(p) \/ HandoffRefused(p)
      BY <1>2, <1>4, <2>9 DEF AcceptCommit, DeclineCommit, ExpireCommit, OfferRefused,
         HandoffCommit, HandoffRefused
    <2> QED
      BY <1>7, <2>1, <2>2, <2>3, <2>4, <2>5, <2>6, <2>7, <2>8, <2>9 DEF Continue
  <1>8. ASSUME NEW p \in Procs, Crash(p) \/ TakeEvent(p) PROVE Moves
    BY <1>2, <1>3, <1>4, <1>8 DEF Crash, TakeEvent, TakeForNothing, TakeSettles, TakePauses,
       TakeSeeks, TakeSearches, TakeFails
  <1>9. ASSUME NEW p \in Procs, Ask(p) PROVE Moves
    <2>1. ASSUME NEW r \in Rows,
                 AcceptSlot(p, r) \/ ApproveRead(p, r) \/ ExpireRead(p, r) \/ HandoffRead(p, r)
          PROVE  Moves
      BY <1>2, <1>3, <1>4, <2>1 DEF AcceptSlot, ApproveRead, ExpireRead, HandoffRead
    <2>2. ASSUME NEW r \in Rows, Complete(p, r) PROVE Moves
      <3>1. asg'[r] = "COMPLETED"
        BY <2>2 DEF Complete, Sets
      <3>2. op'[q] = op[q] \/ op'[q].at = "finish"
        BY <1>1, <2>2 DEF Complete, At
      <3> QED
        BY <3>1, <3>2 DEF Moves
    <2>3. ~Cancel(p) /\ ~RequestDispatch(p) /\ \A r \in Rows : ~NoShowRead(p, r)
      BY DEF Cancel, RequestDispatch, NoShowRead
    <2>4. ASSUME NEW r \in Rows, AcceptRead(p, r) \/ DeclineRead(p, r) PROVE Moves
      <3>1. \E s \in {"accept", "decline", "declineLast"} : ReadsJob(p, s, r)
        BY <2>4 DEF AcceptRead, DeclineRead
      <3>2. op'[q] = op[q] \/ op'[q].at \in {"accept", "decline", "declineLast"}
        BY <1>1, <3>1, ReadStage
      <3> QED
        BY <3>2 DEF Moves
    <2> QED
      BY <1>2, <1>4, <1>9, <2>1, <2>2, <2>3, <2>4 DEF Ask, ScanFails, ResumeReplacement, ConfirmBilling
  <1>10. ASSUME NEW r \in Rows, AskAtOnce(r) PROVE op' = op
    BY <1>10 DEF AskAtOnce, EnRoute, Arrives,
       RequestEarlyRelease, ResolveEarlyRelease, RequestReplacement, DenyReplacement
  <1> QED
    BY <1>3, <1>7, <1>8, <1>9, <1>10 DEF Next, vars, DeadlinePasses, Procs, Moves

(* The parts of the invariant are kept by every step.                      *)
LEMMA DoneStep ==
    ASSUME TypeOK, SearchInv, DoneInv, Requests = {}, [Next]_vars
    PROVE  DoneInv'
  <1>1. \/ Quiet \/ Early \/ Fails \/ Approves \/ Confirms \/ Relieves
        \/ \E p \in Procs : Awaits(p)
        \/ \E r \in Rows : Comes(r)
    BY KindOfStep DEF DoneInv
  <1>2. RowsMove \/ \E n \in Nat, d \in 0 .. MaxRows : Insert(n, d)
    BY SenderInserts
  <1>3. \A r \in Rows : asg[r] # "UNSENT" => replaces'[r] = replaces[r]
    BY <1>2, InsertStep DEF RowsMove, SearchInv
  <1>4. \A r \in Rows : asg'[r] # asg[r] => asg[r] # "COMPLETED"
    BY <1>2, InsertStep DEF RowsMove, RowMoves, AllowedNext, SearchInv
  <1>5. BegunIsLate'
    <2>1. CASE Quiet \/ Fails \/ Approves \/ Confirms
      BY <2>1 DEF Quiet, Fails, Approves, Confirms, NobodyArrives, DoneInv, BegunIsLate, Late
    <2>2. CASE Early
      BY <2>2 DEF Early, NobodyArrives, DoneInv, BegunIsLate
    <2>3. CASE Relieves \/ (\E p \in Procs : Awaits(p)) \/ (\E r \in Rows : Comes(r))
      BY <2>3 DEF Awaits, Comes, Relieves, BegunIsLate, Late
    <2> QED
      BY <1>1, <2>1, <2>2, <2>3
  <1>6. Finishing'
    <2> SUFFICES ASSUME NEW q \in Procs
                 PROVE  /\ op'[q].at \notin {"absent", "dispatchWrite"}
                        /\ op'[q].at \in {"finish", "await"}
                              => \E r \in Rows : asg'[r] = "COMPLETED"
      BY DEF Finishing
    <2> QED
      BY <1>4, FinisherStep DEF DoneInv, Finishing
  <1>7. ASSUME Early PROVE ~(\E p \in Procs : op[p].at \in {"finish", "await"})
    BY <1>7 DEF Early, DoneInv, Finishing, BegunIsLate, Begun
  <1>8. /\ Active' = {s \in Rows : replaces'[s] = 0 /\ asg'[s] \in ActiveStatus}
        /\ Active = {s \in Rows : replaces[s] = 0 /\ asg[s] \in ActiveStatus}
    BY DEF Active, Ordinary
  <1>9. ASSUME NobodyJoins PROVE Active' \subseteq Active
    BY <1>3, <1>8, <1>9 DEF NobodyJoins, ActiveStatus
  <1>10. ASSUME AlreadyCounted, ~Early PROVE Active' \subseteq Active \cup uncounted'
    <2>1. CASE Quiet
      <3>1. ASSUME NEW s \in Active' PROVE s \in Active \/ s \in uncounted'
        BY <1>3, <1>8, <1>10, <2>1, <3>1 DEF Quiet, ActiveStatus
      <3> QED
        BY <3>1
    <2>2. CASE Fails \/ Approves \/ Relieves
      BY <1>9, <2>2 DEF Fails, Approves, Relieves
    <2>3. CASE Confirms \/ (\E p \in Procs : Awaits(p)) \/ (\E r \in Rows : Comes(r))
      <3>1. NobodyJoins
        BY <2>3 DEF Confirms, Awaits, Comes, NobodyJoins, ActiveStatus
      <3> QED
        BY <1>9, <3>1
    <2> QED
      BY <1>1, <1>10, <2>1, <2>2, <2>3
  <1>11. AllCounted'
    <2> SUFFICES ASSUME AlreadyCounted' PROVE Active' \subseteq uncounted'
      BY DEF AllCounted
    <2>1. \/ \E p \in Procs : op'[p].at = "await"
          \/ status' \in {"AWAITING_CONFIRMATION", "COMPLETED"}
      BY DEF AlreadyCounted
    <2>2. CASE Early
      <3>1. PICK p \in Procs : op'[p].at = "await"
        BY <2>1, <2>2 DEF Early
      <3> QED
        BY <1>7, <2>2, <3>1, FinisherStep
    <2>3. CASE ~Early /\ AlreadyCounted
      <3>1. Active \subseteq uncounted
        BY <2>3 DEF DoneInv, AllCounted
      <3> QED
        BY <1>10, <2>3, <3>1, LateStayKnown
    <2>4. ASSUME NEW p \in Procs, op'[p].at = "await", op[p].at # "await"
          PROVE  Active' \subseteq uncounted'
      <3>1. Active = {} /\ asg' = asg
        BY <2>4, FinisherStep
      <3>2. NobodyJoins
        BY <3>1 DEF NobodyJoins
      <3> QED
        BY <1>9, <3>1, <3>2
    <2>5. CASE ~AlreadyCounted /\ status' \in {"AWAITING_CONFIRMATION", "COMPLETED"}
      BY <1>1, <2>2, <2>5 DEF AlreadyCounted, Quiet, Fails, Approves, Confirms, Awaits, Comes,
         Relieves
    <2> QED
      BY <2>1, <2>2, <2>3, <2>4, <2>5 DEF AlreadyCounted
  <1> QED
    BY <1>5, <1>6, <1>11 DEF DoneInv

(* If nobody asks for another dispatch, cancels the job or reports a       *)
(* no-show, completeFromAssignment moves the job on only when none of its  *)
(* ordinary guardians is at work, for every number of guardians and of     *)
(* completions at the same time, though it counts them without a lock; at  *)
(* work is from then on only who accepted after the count, by a handler    *)
(* that read the job while it sought a replacement.                        *)
THEOREM DoneAtConfirmation ==
    ASSUME Requests = {}
    PROVE  Spec => []OrdinaryDoneAtConfirmation
  <1>1. Init => DoneInv
    <2> SUFFICES ASSUME Init PROVE DoneInv
      OBVIOUS
    <2>1. \A p \in Procs : op[p].at = "idle"
      BY DEF Init, Idle, At
    <2> QED
      BY <2>1 DEF Init, DoneInv, BegunIsLate, Begun, ActiveStatus, Finishing, AllCounted,
         AlreadyCounted
  <1>2. TypeOK /\ SearchInv /\ DoneInv /\ [Next]_vars => DoneInv'
    BY DoneStep
  <1>3. DoneInv => OrdinaryDoneAtConfirmation
    BY DEF DoneInv, AllCounted, AlreadyCounted, OrdinaryDoneAtConfirmation
  <1>4. "cancel" \notin Requests
    OBVIOUS
  <1> QED
    BY <1>1, <1>2, <1>3, <1>4, SearchInvariant, PTL DEF Spec

-----------------------------------------------------------------------------
(* The rows that hold a slot or may still take one. *)
Claimed == {r \in Rows : replaces[r] = 0 /\ asg[r] \in StaffedStatus \cup {"OFFERED"}}

(* A dispatcher that has counted the open slots may still send as many.    *)
Budget ==
    /\ Cardinality(Claimed) <= Requested
    /\ \A p \in Procs : op[p].at = "insert" => Cardinality(Claimed) + op[p].open <= Requested

(* The claimed slots are the staffed and the pending ones. *)
LEMMA ClaimedCount ==
    /\ Claimed \subseteq Rows
    /\ Cardinality(Claimed) \in Nat
    /\ Cardinality(Claimed) = Cardinality(Staffed) + Cardinality(Pending)
  <1>1. /\ Staffed \in SUBSET Rows /\ Pending \in SUBSET Rows /\ Claimed \in SUBSET Rows
        /\ Claimed = Staffed \cup Pending
        /\ Staffed \cap Pending = {}
    BY DEF Staffed, Pending, Ordinary, Claimed, StaffedStatus, ActiveStatus
  <1>2. /\ IsFiniteSet(Staffed) /\ Cardinality(Staffed) \in Nat
        /\ IsFiniteSet(Pending) /\ Cardinality(Pending) \in Nat
        /\ Cardinality(Claimed) \in Nat
    BY <1>1, CountsAreNat
  <1>3. Cardinality(Claimed) = Cardinality(Staffed) + Cardinality(Pending) - Cardinality({})
    BY <1>1, <1>2, FS_Union
  <1> QED
    BY <1>1, <1>2, <1>3, FS_EmptySet

(* No step but an insert claims a slot. *)
LEMMA NothingClaimed ==
    ASSUME RowsMove
    PROVE  Cardinality(Claimed') <= Cardinality(Claimed)
  <1>1. \A r \in Rows : asg'[r] \in StaffedStatus \cup {"OFFERED"}
                        => asg[r] \in StaffedStatus \cup {"OFFERED"}
    BY DEF RowsMove, RowMoves, AllowedNext, StaffedStatus, ActiveStatus
  <1>2. Claimed' \in SUBSET Claimed
    BY <1>1 DEF Claimed, RowsMove
  <1> QED
    BY <1>2, ClaimedCount, CountsAreNat, FS_Subset

(* An insert of ordinary offers claims at most their number of slots, one  *)
(* of a substitute claims none.                                            *)
LEMMA InsertClaims ==
    ASSUME TypeOK, Numbered, NEW n \in Nat, NEW d \in 0 .. MaxRows, Insert(n, d)
    PROVE  /\ Cardinality(Claimed') <= Cardinality(Claimed) + n
           /\ d # 0 => Cardinality(Claimed') <= Cardinality(Claimed)
  <1>1. PICK k \in 0 .. MaxRows :
          /\ k + n <= MaxRows
          /\ \A r \in Rows : asg'[r] = IF r \in k + 1 .. k + n THEN "OFFERED" ELSE asg[r]
          /\ \A r \in Rows : replaces'[r] = IF r \in k + 1 .. k + n THEN d ELSE replaces[r]
    BY InsertStep
  <1> DEFINE new == k + 1 .. k + n
  <1>2. IsFiniteSet(new) /\ Cardinality(new) = n
    <2>1. k + 1 \in Int /\ k + n \in Int /\ k \in Nat
      BY BoundsPositive
    <2>2. IsFiniteSet(new) /\ Cardinality(new) = IF k + 1 > k + n THEN 0 ELSE (k + n) - (k + 1) + 1
      BY <2>1, FS_Interval
    <2> QED
      BY <2>1, <2>2
  <1>3. Claimed' \in SUBSET (Claimed \cup new)
    BY <1>1 DEF Claimed
  <1>4. d # 0 => Claimed' \in SUBSET Claimed
    BY <1>1 DEF Claimed
  <1>5. IsFiniteSet(Claimed) /\ Cardinality(Claimed) \in Nat
    BY ClaimedCount, CountsAreNat
  <1> HIDE DEF new
  <1>6. /\ IsFiniteSet(Claimed \cup new)
        /\ Cardinality(Claimed \cup new)
           = Cardinality(Claimed) + Cardinality(new) - Cardinality(Claimed \cap new)
    BY <1>2, <1>5, FS_Union
  <1>7. Cardinality(Claimed \cap new) \in Nat
    BY <1>5, FS_Subset, FS_CardinalityType
  <1>8. /\ Cardinality(Claimed') \in Nat
        /\ Cardinality(Claimed') <= Cardinality(Claimed \cup new)
    BY <1>3, <1>6, FS_Subset, FS_CardinalityType
  <1>9. d # 0 => Cardinality(Claimed') <= Cardinality(Claimed)
    BY <1>4, <1>5, FS_Subset
  <1> QED
    BY <1>2, <1>5, <1>6, <1>7, <1>8, <1>9

(* With one dispatcher, every step keeps the budget. *)
LEMMA BudgetStep ==
    ASSUME TypeOK, SearchInv, Budget, [Next]_vars, "cancel" \notin Requests,
           \A d, e \in Dispatchers : d = e
    PROVE  Budget'
  <1>1. op \in [Procs -> OpRecords]
    BY DEF TypeOK, OpRecords
  <1>2. Cardinality(Claimed) \in Nat /\ Cardinality(Claimed') \in Nat
    <2>1. Claimed' \in SUBSET Rows
      BY DEF Claimed
    <2> QED
      BY <2>1, ClaimedCount, CountsAreNat
  <1>3. \A p \in Procs : op[p].open \in Nat
    BY <1>1, BoundsPositive DEF OpRecords
  <1>4. Requested \in Nat
    BY BoundsPositive
  <1>5. CASE RowsMove
    <2>1. Cardinality(Claimed') <= Cardinality(Claimed)
      BY <1>5, NothingClaimed
    <2> SUFFICES ASSUME NEW p \in Procs, op'[p].at = "insert"
                 PROVE  Cardinality(Claimed') + op'[p].open <= Requested
      BY <1>2, <1>4, <2>1 DEF Budget
    <2>2. CASE op'[p] = op[p]
      BY <1>2, <1>3, <1>4, <2>1, <2>2 DEF Budget
    <2>3. CASE CountOpenSlots(p)
      <3>1. op'[p].open = Open /\ Open # 0
        BY <1>1, <2>3 DEF CountOpenSlots, Ends, Idle, At
      <3>2. Cardinality(Claimed) + Open <= Requested
        <4>1. Cardinality(Staffed) \in Nat /\ Cardinality(Pending) \in Nat
          BY CountsAreNat DEF Staffed, Pending, Ordinary
        <4> QED
          BY <1>4, <3>1, <4>1, ClaimedCount DEF Open
      <3> QED
        BY <1>2, <1>4, <2>1, <3>1, <3>2, CountsAreNat
    <2>4. /\ ~TakeSeeks(p) /\ ~TakeSearches(p)
          /\ \A r \in Rows : ~ApproveRead(p, r) /\ ~NoShowRead(p, r)
      BY <1>1, AbsentStage DEF TakeSeeks, TakeSearches, ApproveRead, GoesWith, Goes, At
    <2> QED
      BY <2>2, <2>3, <2>4, ProcStep DEF ProcMoves, Answering
  <1>6. ASSUME NEW p \in Procs, SendOffers(p) \/ OfferSubstitution(p) PROVE Budget'
    <2>1. Cardinality(Claimed') <= Requested
      <3>1. CASE op[p].at = "insert" /\ \E n \in 1 .. op[p].open : Insert(n, 0)
        <4>1. PICK n \in 1 .. op[p].open : Insert(n, 0)
          BY <3>1
        <4>2. n \in Nat /\ n <= op[p].open /\ 0 \in 0 .. MaxRows
          BY <1>3, BoundsPositive
        <4>3. Cardinality(Claimed') <= Cardinality(Claimed) + n
          BY <4>1, <4>2, InsertClaims DEF SearchInv
        <4>4. Cardinality(Claimed) + op[p].open <= Requested
          BY <3>1 DEF Budget
        <4> QED
          BY <1>2, <1>3, <1>4, <4>2, <4>3, <4>4
      <3>2. CASE op[p].row # 0 /\ Insert(1, op[p].row)
        <4>1. op[p].row \in 0 .. MaxRows
          BY <1>1 DEF OpRecords
        <4>2. Cardinality(Claimed') <= Cardinality(Claimed)
          BY <3>2, <4>1, InsertClaims DEF SearchInv
        <4> QED
          BY <1>2, <1>4, <4>2 DEF Budget
      <3> QED
        BY <1>6, <3>1, <3>2, SendersInsert
    <2>2. ASSUME NEW q \in Procs PROVE op'[q].at # "insert"
      <3>1. p \in Dispatchers /\ op'[p].at = "idle"
        BY <1>6, SendersInsert DEF Idle, At
      <3>2. CASE q = p
        BY <3>1, <3>2
      <3>3. CASE q # p
        <4>1. op'[q] = op[q]
          BY <1>1, <1>6, <3>3 DEF SendOffers, OfferSubstitution, Ends
        <4>2. op[q].at # "insert"
          BY <3>1, <3>3 DEF SearchInv, DispatchersSend
        <4> QED
          BY <4>1, <4>2
      <3> QED
        BY <3>2, <3>3
    <2> QED
      BY <2>1, <2>2 DEF Budget
  <1> QED
    BY <1>5, <1>6, RowStep

(* One dispatcher and no cancellation: whatever guardians, operators and   *)
(* timers do between its count of the open slots and its insert, however   *)
(* many of them there are, and wherever they crash, the ordinary offers    *)
(* that are accepted or pending never exceed the guardians requested.      *)
THEOREM OneDispatcherKeepsBudget ==
    ASSUME "cancel" \notin Requests, \A d, e \in Dispatchers : d = e
    PROVE  Spec => []SlotBudget
  <1>1. Init => Budget
    <2> SUFFICES ASSUME Init PROVE Budget
      OBVIOUS
    <2>1. Claimed = {}
      BY DEF Init, Claimed, StaffedStatus, ActiveStatus
    <2>2. \A p \in Procs : op[p].at = "idle"
      BY DEF Init, Idle, At
    <2> QED
      BY <2>1, <2>2, FS_EmptySet, BoundsPositive DEF Budget
  <1>2. TypeOK /\ SearchInv /\ Budget /\ [Next]_vars => Budget'
    BY BudgetStep
  <1>3. Budget => SlotBudget
    BY ClaimedCount DEF Budget, SlotBudget
  <1> QED
    BY <1>1, <1>2, <1>3, SearchInvariant, PTL DEF Spec

-----------------------------------------------------------------------------
(* What the search needs of the rows, cancelled or not: the numbers of the *)
(* rows; no-shows, approvals and cancellations under way have to do with   *)
(* rows that were sent, so no insert takes a row from an offer or a        *)
(* guardian.                                                               *)
FoundSent == \A p \in Procs : op[p].rows \subseteq Sent

ApprovesRow == \A p \in Procs : op[p].at = "approve" => op[p].row \in Rows

(* Who answers an offer without asking for another round has read the job  *)
(* while it sought a replacement.                                          *)
AnswersSeeking == {"accept", "declineLast"}
ReadSeeking == \A p \in Procs : op[p].at \in AnswersSeeking => op[p].seen = "SEEKING_REPLACEMENT"

Marked == {"absent", "approve", "dispatchWrite"} \cup AnswersSeeking

Orderly == Numbered /\ Absence /\ ApprovesRow /\ FoundSent /\ ReadSeeking

(* No step but an insert sends a row, and none takes one back. *)
LEMMA SentStep ==
    ASSUME TypeOK, Absence, FoundSent, [Next]_vars
    PROVE  Sent' = Sent \/ \E n \in Nat, d \in 0 .. MaxRows : Insert(n, d)
  <1> DEFINE Same == \A r \in Rows : asg'[r] = "UNSENT" <=> asg[r] = "UNSENT"
  <1> USE DEF Relief, SearchData, Assignments
  <1>1. asg' = asg => Same
    OBVIOUS
  <1>2. ASSUME NEW r, NEW S, NEW s, ReadAs(r, S), "UNSENT" \notin S, Sets({r}, s), s # "UNSENT"
        PROVE  Same
    BY <1>2 DEF ReadAs, Sets
  <1>3. ASSUME NEW S, \A r \in S : asg[r] # "UNSENT", Releases(S) PROVE Same
    BY <1>3 DEF Releases
  <1>4. op \in [Procs -> OpRecords]
    BY DEF TypeOK, OpRecords
  <1> HIDE DEF Same
  <1>5. ASSUME NEW p \in Procs, Continue(p), ~SendOffers(p), ~OfferSubstitution(p) PROVE Same
    <2>1. CASE FailRelease(p)
      BY <1>3, <2>1 DEF FailRelease, Offered
    <2>2. CASE ApproveCommit(p)
      BY <1>2, <2>2 DEF ApproveCommit
    <2>3. CASE CancelRelease(p)
      <3>1. Releases(Offered) \/ Releases(op[p].rows)
        BY <2>3 DEF CancelRelease
      <3>2. \A r \in op[p].rows : asg[r] # "UNSENT"
        BY DEF FoundSent, Sent
      <3>3. \A r \in Offered : asg[r] # "UNSENT"
        BY DEF Offered
      <3> QED
        BY <1>3, <3>1, <3>2, <3>3
    <2>4. CASE NoShowCommit(p)
      <3>1. op[p].was # "UNSENT" /\ ReadAs(op[p].row, {op[p].was}) /\ Sets({op[p].row}, "NO_SHOW")
        BY <2>4 DEF NoShowCommit, NoShowFits, Absence, AbsentStatus, Stands
      <3> QED
        BY <1>2, <3>1
    <2>5. CASE AcceptCommit(p)
      BY <2>5 DEF AcceptCommit, TypeOK, Same
    <2>6. CASE DeclineCommit(p) \/ ExpireCommit(p)
      BY <1>2, <2>6 DEF DeclineCommit, ExpireCommit
    <2>7. CASE HandoffCommit(p)
      <3>1. \A q \in Rows : asg'[q] = asg[q] \/ (asg[q] # "UNSENT" /\ asg'[q] # "UNSENT")
        BY <2>7 DEF HandoffCommit, HandoffFits, ReadAs, TypeOK
      <3> QED
        BY <3>1 DEF Same
    <2> QED
      BY <1>1, <1>5, <2>1, <2>2, <2>3, <2>4, <2>5, <2>6, <2>7
         DEF Continue, OfferRefused, HandoffRefused,
             NoShowRefused, CancelRead, Enqueue, DispatchWrite, FailWrite, CountOpenSlots,
             NobodyToAsk, NobodyToSubstitute, AfterExpiry, ApproveRefused, AskSubstitute, CountActive,
             CompleteFromAssignment, ReadAfter, DraftInvoice, IssueInvoice, CancelWrite
  <1>6. ASSUME NEW p \in Procs, Crash(p) \/ TakeEvent(p) PROVE Same
    BY <1>1, <1>6 DEF Crash, TakeEvent, TakeForNothing, TakeSettles, TakeSearches, TakeFails,
       TakePauses, TakeSeeks
  <1>7. ASSUME NEW p \in Procs, Ask(p) PROVE Same
    <2>1. ASSUME NEW r \in Rows, AcceptSlot(p, r) PROVE Same
      <3>1. \A q \in Rows : \/ asg'[q] = asg[q]
                            \/ asg[q] = "OFFERED" /\ asg'[q] \in {"ACCEPTED", "CANCELLED"}
        BY <2>1 DEF AcceptSlot, CanAccept, Pending
      <3> QED
        BY <3>1 DEF Same
    <2>2. ASSUME NEW r \in Rows,
                 AcceptRead(p, r) \/ DeclineRead(p, r) \/ ExpireRead(p, r) \/ HandoffRead(p, r)
          PROVE  Same
      BY <1>1, <2>2 DEF AcceptRead, DeclineRead, ExpireRead, HandoffRead
    <2>4. ASSUME NEW r \in Rows, Complete(p, r) PROVE Same
      BY <1>2, <2>4 DEF Complete, CompletableStatus
    <2> QED
      BY <1>1, <1>7, <2>1, <2>2, <2>4
         DEF Ask, RequestDispatch, ScanFails, ResumeReplacement, ConfirmBilling, Cancel,
             ApproveRead, NoShowRead
  <1>8. ASSUME NEW r \in Rows, AskAtOnce(r) PROVE Same
    <2>3. CASE EnRoute(r) \/ Arrives(r) \/ RequestReplacement(r) \/ DenyReplacement(r)
      BY <1>2, <2>3 DEF EnRoute, Arrives, RequestReplacement, DenyReplacement
    <2>4. CASE RequestEarlyRelease(r)
      BY <1>2, <2>4 DEF RequestEarlyRelease
    <2>5. CASE ResolveEarlyRelease(r)
      <3>1. \E s \in {"EARLY_RELEASE_GRANTED", "ON_SITE"} : Sets({r}, s)
            /\ ReadAs(r, {"EARLY_RELEASE_REQUESTED", "EARLY_RELEASE_GRANTED"})
        BY <2>5 DEF ResolveEarlyRelease, ReadAs
      <3> QED
        BY <1>2, <3>1
    <2> QED
      BY <1>8, <2>3, <2>4, <2>5 DEF AskAtOnce
  <1>9. ASSUME UNCHANGED vars \/ DeadlinePasses PROVE Same
    BY <1>1, <1>9 DEF vars, DeadlinePasses
  <1>10. ASSUME NEW p \in Procs, SendOffers(p) \/ OfferSubstitution(p)
         PROVE  \E n \in Nat, d \in 0 .. MaxRows : Insert(n, d)
    <2>1. op[p].row \in 0 .. MaxRows /\ op[p].open \in Nat /\ 0 \in 0 .. MaxRows
      BY <1>4, BoundsPositive DEF OpRecords
    <2> QED
      BY <1>10, <2>1 DEF SendOffers, OfferSubstitution
  <1>11. Same \/ \E n \in Nat, d \in 0 .. MaxRows : Insert(n, d)
    BY <1>5, <1>6, <1>7, <1>8, <1>9, <1>10 DEF Next, Procs
  <1> QED
    BY <1>11 DEF Same, Sent

(* A cancellation finds rows that were sent. *)
LEMMA FoundWereSent ==
    ASSUME TypeOK, NEW p \in Procs, CancelRead(p)
    PROVE  op'[p].at \notin Marked /\ op'[p].rows \subseteq Sent
  <1>1. op \in [Procs -> OpRecords]
    BY DEF TypeOK, OpRecords
  <1>2. PICK step \in {<<"readSubstitutes", "cancelSubstitutes",
                         {r \in Substitutes : asg[r] \in {"ACCEPTED", "EN_ROUTE"}}>>,
                       <<"readDeparting", "cancelDeparting",
                         {r \in Rows : r = departing /\ asg[r] = "AWAITING_RELIEF"}>>,
                       <<"readActive", "cancelActive",
                         {r \in Active : asg[r] # "AWAITING_RELIEF"}>>} :
              op' = [op EXCEPT ![p] = [At(step[2], 0, 0) EXCEPT !.rows = step[3]]]
    BY DEF CancelRead
  <1>3. step[2] \notin Marked /\ step[3] \subseteq Sent
    BY <1>2 DEF Substitutes, Active, ActiveStatus, Ordinary, Sent, Marked, AnswersSeeking
  <1>4. op'[p].at = step[2] /\ op'[p].rows = step[3]
    BY <1>1, <1>2 DEF At
  <1> QED
    BY <1>3, <1>4

(* The rows a process has found, and all it does from a marked stage, come *)
(* from a read or a request.                                               *)
Reads(q) ==
    \/ op'[q] = op[q]
    \/ op'[q].at \notin Marked /\ op'[q].rows = {}
    \/ /\ op'[q].at \in AnswersSeeking /\ op'[q].seen = "SEEKING_REPLACEMENT" /\ Seeking
       /\ op'[q].rows = {} /\ status' = status
    \/ op'[q].at = "dispatchWrite" /\ op'[q].rows = {} /\ "dispatch" \in Requests
    \/ CancelRead(q) \/ \E r \in Rows : NoShowRead(q, r) \/ ApproveRead(q, r)

(* No step lets a process stand at a marked stage, or with rows to         *)
(* release, unless it has read them.                                       *)
LEMMA ReadStep == ASSUME TypeOK, [Next]_vars, NEW q \in Procs PROVE Reads(q)
  <1>1. op \in [Procs -> OpRecords]
    BY DEF TypeOK, OpRecords
  <1>2. ASSUME NEW p \in Procs, NEW s, NEW r, NEW n, s \notin Marked,
               op' = [op EXCEPT ![p] = At(s, r, n)]
        PROVE  Reads(q)
    <2>1. op'[q] = op[q] \/ op'[q] = At(s, r, n)
      BY <1>1, <1>2
    <2>2. At(s, r, n).at = s /\ At(s, r, n).rows = {}
      BY DEF At
    <2> QED
      BY <1>2, <2>1, <2>2 DEF Reads
  <1>3. ASSUME NEW p \in Procs, NEW s, s \notin Marked, Goes(p, s) PROVE Reads(q)
    BY <1>2, <1>3 DEF Goes
  <1>c. /\ \A s \in {"insert", "failRelease", "failWrite", "enqueue", "expired", "search"} : s \notin Marked
        /\ \A s \in {"askSubstitute", "finish", "await", "draft", "invoice", "issue"} : s \notin Marked
        /\ \A s \in CancelStages : s \notin Marked
    BY DEF Marked, AnswersSeeking, CancelStages
  <1>4. ASSUME NEW p \in Procs, Ends(p) PROVE Reads(q)
    <2>1. "idle" \notin Marked
      BY DEF Marked, AnswersSeeking
    <2>2. op' = [op EXCEPT ![p] = At("idle", 0, 0)]
      BY <1>4 DEF Ends, Idle
    <2> QED
      BY <1>2, <2>1, <2>2
  <1>5. ASSUME NEW p \in Procs, CancelRead(p) \/ \E r \in Rows : NoShowRead(p, r) \/ ApproveRead(p, r)
        PROVE  Reads(q)
    <2>1. CASE p = q
      BY <1>5, <2>1 DEF Reads
    <2>2. CASE p # q
      BY <1>1, <1>5, <2>2 DEF Reads, CancelRead, NoShowRead, ApproveRead, GoesWith
    <2> QED
      BY <2>1, <2>2
  <1>6. op' = op => Reads(q)
    BY DEF Reads
  <1>7. ASSUME NEW p \in Procs, Continue(p) PROVE Reads(q)
    <2>1. CASE CountOpenSlots(p)
      BY <1>2, <1>4, <2>1, <1>c DEF CountOpenSlots
    <2>2. CASE CancelRead(p)
      BY <1>5, <2>2
    <2>3. CASE CancelRelease(p) \/ CancelWrite(p)
      BY <1>3, <1>4, <2>3, <1>c DEF CancelRelease, CancelWrite, CancelStages
    <2>4. CASE Enqueue(p) \/ SendOffers(p) \/ OfferSubstitution(p) \/ FailWrite(p)
      BY <1>4, <2>4 DEF Enqueue, SendOffers, OfferSubstitution, FailWrite
    <2>5. CASE DispatchWrite(p) \/ FailRelease(p) \/ NobodyToAsk(p) \/ ApproveCommit(p)
      BY <1>3, <2>5, <1>c DEF DispatchWrite, FailRelease, NobodyToAsk, ApproveCommit
    <2>6. CASE NobodyToSubstitute(p) \/ AfterExpiry(p)
      BY <1>3, <1>4, <2>6, <1>c DEF NobodyToSubstitute, AfterExpiry
    <2>7. CASE ApproveRefused(p) \/ AskSubstitute(p) \/ DraftInvoice(p) \/ IssueInvoice(p)
      BY <1>4, <2>7 DEF ApproveRefused, AskSubstitute, DraftInvoice, IssueInvoice
    <2>8. CASE CountActive(p) \/ CompleteFromAssignment(p) \/ ReadAfter(p)
      BY <1>3, <1>4, <2>8, <1>c DEF CountActive, CompleteFromAssignment, ReadAfter
    <2>9. CASE NoShowCommit(p) \/ NoShowRefused(p)
      BY <1>4, <2>9 DEF NoShowCommit, NoShowRefused
    <2>10. CASE AcceptCommit(p) \/ OfferRefused(p) \/ HandoffCommit(p) \/ HandoffRefused(p)
      BY <1>4, <2>10 DEF AcceptCommit, OfferRefused, HandoffCommit, HandoffRefused
    <2>11. CASE DeclineCommit(p) \/ ExpireCommit(p)
      BY <1>3, <1>4, <2>11, <1>c DEF DeclineCommit, ExpireCommit
    <2> QED
      BY <1>7, <2>1, <2>2, <2>3, <2>4, <2>5, <2>6, <2>7, <2>8, <2>9, <2>10, <2>11 DEF Continue
  <1>8. ASSUME NEW p \in Procs, Crash(p) PROVE Reads(q)
    BY <1>4, <1>8 DEF Crash
  <1>9. ASSUME NEW p \in Procs, TakeEvent(p) PROVE Reads(q)
    <2>1. CASE TakeSeeks(p)
      <3>1. "substitute" \notin Marked
        BY DEF Marked, AnswersSeeking
      <3>2. op' = [op EXCEPT ![p] = At("substitute", departing, 0)]
        BY <2>1 DEF TakeSeeks, GoesWith
      <3> QED
        BY <1>2, <3>1, <3>2
    <2>2. CASE TakeSearches(p) \/ TakeFails(p)
      BY <1>3, <2>2, <1>c DEF TakeSearches, TakeFails
    <2> QED
      BY <1>6, <1>9, <2>1, <2>2 DEF TakeEvent, TakeForNothing, TakeSettles, TakePauses
  <1>10. ASSUME NEW p \in Procs, Ask(p) PROVE Reads(q)
    <2>2. ASSUME NEW r \in Rows,
                 AcceptSlot(p, r) \/ Complete(p, r)
          PROVE  Reads(q)
      BY <1>3, <1>6, <2>2, <1>c DEF AcceptSlot, Complete
    <2>1. CASE RequestDispatch(p)
      <3>1. op'[q] = op[q] \/ op'[q] = At("dispatchWrite", 0, 0)
        BY <1>1, <2>1 DEF RequestDispatch, Goes
      <3>2. At("dispatchWrite", 0, 0).at = "dispatchWrite" /\ At("dispatchWrite", 0, 0).rows = {}
        BY DEF At
      <3> QED
        BY <2>1, <3>1, <3>2 DEF Reads, RequestDispatch
    <2>3. CASE ScanFails(p) \/ ResumeReplacement(p)
      BY <1>3, <2>3, <1>c DEF ScanFails, ResumeReplacement
    <2>4. CASE ConfirmBilling(p) \/ Cancel(p)
      BY <1>3, <2>4, <1>c DEF ConfirmBilling, Cancel, CancelStages
    <2>5. ASSUME NEW r \in Rows, AcceptRead(p, r) \/ DeclineRead(p, r) PROVE Reads(q)
      <3>1. PICK s \in {"accept", "decline", "declineLast"} :
              ReadsJob(p, s, r) /\ (s \in AnswersSeeking => Seeking) /\ status' = status
        BY <2>5 DEF AcceptRead, DeclineRead, AsksAgain, AnswersSeeking
      <3>2. \/ op'[q] = op[q]
            \/ op'[q].at = s /\ op'[q].seen = status /\ op'[q].rows = {}
        BY <1>1, <3>1, ReadStage
      <3> QED
        BY <3>1, <3>2 DEF Reads, Marked, AnswersSeeking, Seeking
    <2>6. ASSUME NEW r \in Rows, ExpireRead(p, r) \/ HandoffRead(p, r) PROVE Reads(q)
      <3>1. \E s \in {"expire", "handoff"} : GoesWith(p, s, r)
        BY <2>6 DEF ExpireRead, HandoffRead
      <3>2. PICK s \in {"expire", "handoff"} : op' = [op EXCEPT ![p] = At(s, r, 0)]
        BY <3>1 DEF GoesWith
      <3>3. s \notin Marked
        BY DEF Marked, AnswersSeeking
      <3> QED
        BY <1>2, <3>2, <3>3
    <2> QED
      BY <1>5, <1>10, <2>1, <2>2, <2>3, <2>4, <2>5, <2>6 DEF Ask
  <1>11. ASSUME NEW r \in Rows, AskAtOnce(r) PROVE op' = op
    BY <1>11 DEF AskAtOnce, EnRoute, Arrives,
       RequestEarlyRelease, ResolveEarlyRelease, RequestReplacement, DenyReplacement
  <1>12. UNCHANGED vars \/ DeadlinePasses => op' = op
    BY DEF vars, DeadlinePasses
  <1> QED
    BY <1>6, <1>7, <1>8, <1>9, <1>10, <1>11, <1>12 DEF Next, Procs

(* An insert keeps what was sent, and the numbers go on.                   *)
LEMMA InsertSends ==
    ASSUME TypeOK, Numbered, NEW n \in Nat, NEW d, Insert(n, d)
    PROVE  Numbered' /\ Sent \subseteq Sent' /\ Staffed \subseteq Staffed' /\ Pending \subseteq Pending'
  <1>1. PICK k \in 0 .. MaxRows :
          /\ k + n <= MaxRows
          /\ Sent = 1 .. k
          /\ \A r \in Rows : asg'[r] = IF r \in k + 1 .. k + n THEN "OFFERED" ELSE asg[r]
          /\ \A r \in Rows : replaces'[r] = IF r \in k + 1 .. k + n THEN d ELSE replaces[r]
          /\ \A r \in k + 1 .. k + n : r \in Rows /\ asg[r] = "UNSENT"
    BY InsertStep
  <1>2. \A r \in Rows : r \in Sent' <=> r \in Sent \/ r \in k + 1 .. k + n
    BY <1>1 DEF Sent
  <1>3. Numbered'
    <2>1. Sent' \subseteq Rows /\ Sent \subseteq Rows /\ k \in Nat
      BY BoundsPositive DEF Sent
    <2>2. \A r : r \in 1 .. k + n <=> r \in 1 .. k \/ r \in k + 1 .. k + n
      BY <2>1
    <2>3. Sent' = 1 .. k + n
      BY <1>1, <1>2, <2>1, <2>2
    <2>4. k + n \in 0 .. MaxRows
      BY <1>1, BoundsPositive
    <2> QED
      BY <2>3, <2>4 DEF Numbered
  <1>4. \A r \in Rows : asg[r] # "UNSENT" => asg'[r] = asg[r] /\ replaces'[r] = replaces[r]
    BY <1>1
  <1>5. Staffed \subseteq Staffed' /\ Pending \subseteq Pending'
    BY <1>4 DEF Staffed, Pending, Ordinary, StaffedStatus, ActiveStatus
  <1> QED
    BY <1>2, <1>3, <1>5 DEF Sent

(* No step disturbs that order.                                            *)
LEMMA OrderlyStep == TypeOK /\ Orderly /\ [Next]_vars => Orderly'
  <1> SUFFICES ASSUME TypeOK, Orderly, [Next]_vars PROVE Orderly'
    OBVIOUS
  <1>1. Numbered /\ Absence /\ ApprovesRow /\ FoundSent /\ ReadSeeking
    BY DEF Orderly
  <1>2. Numbered' /\ Sent \subseteq Sent'
    <2>1. CASE Sent' = Sent
      BY <1>1, <2>1 DEF Numbered
    <2>2. CASE \E n \in Nat, d \in 0 .. MaxRows : Insert(n, d)
      BY <1>1, <2>2, InsertSends
    <2> QED
      BY <1>1, <2>1, <2>2, SentStep
  <1>3. op \in [Procs -> OpRecords]
    BY DEF TypeOK, OpRecords
  <1>4. ASSUME NEW p \in Procs
        PROVE  /\ op'[p].rows \subseteq Sent'
               /\ op'[p].at = "absent" => op'[p].row \in Rows /\ op'[p].was \in AbsentStatus
               /\ op'[p].at = "approve" => op'[p].row \in Rows
               /\ op'[p].at \in AnswersSeeking => op'[p].seen = "SEEKING_REPLACEMENT"
    <2>1. CASE op'[p] = op[p]
      BY <1>1, <1>2, <2>1 DEF Absence, ApprovesRow, FoundSent, ReadSeeking
    <2>2. CASE op'[p].at \notin Marked /\ op'[p].rows = {}
      BY <2>2 DEF Marked
    <2>6. CASE \/ /\ op'[p].at \in AnswersSeeking /\ op'[p].seen = "SEEKING_REPLACEMENT"
                  /\ op'[p].rows = {}
               \/ op'[p].at = "dispatchWrite" /\ op'[p].rows = {}
      BY <2>6 DEF AnswersSeeking
    <2>3. CASE CancelRead(p)
      BY <1>2, <2>3, FoundWereSent DEF Marked
    <2>4. ASSUME NEW r \in Rows, NoShowRead(p, r)
          PROVE  /\ op'[p].rows = {} /\ op'[p].row = r /\ op'[p].was \in AbsentStatus
                 /\ op'[p].at = "absent"
      BY <1>3, <2>4, AbsentStage DEF NoShowRead
    <2>5. ASSUME NEW r \in Rows, ApproveRead(p, r)
          PROVE  op'[p].rows = {} /\ op'[p].row = r /\ op'[p].at = "approve"
      BY <1>3, <2>5 DEF ApproveRead, GoesWith, At
    <2> QED
      BY <2>1, <2>2, <2>3, <2>4, <2>5, <2>6, ReadStep DEF Reads, AnswersSeeking
  <1> QED
    BY <1>2, <1>4 DEF Orderly, Absence, ApprovesRow, FoundSent, ReadSeeking

(* It holds when nothing is sent and every process is idle.                *)
LEMMA OrderlyInit == Init => Orderly
  <1> SUFFICES ASSUME Init PROVE Orderly
    OBVIOUS
  <1>1. \A p \in Procs : op[p].at = "idle" /\ op[p].rows = {}
    BY DEF Init, Idle, At
  <1>2. Sent = 1 .. 0 /\ 0 \in 0 .. MaxRows
    BY BoundsPositive DEF Init, Sent
  <1> QED
    BY <1>1, <1>2 DEF Orderly, Numbered, Absence, ApprovesRow, FoundSent, ReadSeeking,
       AnswersSeeking

(* Whatever is requested, and however often processes crash.               *)
THEOREM RowsOrderly == Spec => [](TypeOK /\ Orderly)
  <1>1. Init => TypeOK /\ Orderly
    BY TypeInit, OrderlyInit
  <1>2. TypeOK /\ Orderly /\ [Next]_vars => TypeOK' /\ Orderly'
    BY TypeStep, OrderlyStep
  <1> QED
    BY <1>1, <1>2, PTL DEF Spec

-----------------------------------------------------------------------------
(* A job that seeks a replacement knows for whom.                          *)

(* Whoever cancels goes on until the job is cancelled, unless the process  *)
(* dies.                                                                   *)
LEMMA CancelGoesOn ==
    ASSUME TypeOK, [Next]_vars, NEW q \in Procs, op[q].at \in CancelStages
    PROVE  op'[q].at \in CancelStages \/ CancelWrite(q) \/ Crash(q)
  <1>1. op \in [Procs -> OpRecords]
    BY DEF TypeOK, OpRecords
  <1>2. ASSUME NEW p, p # q, NEW x, op' = [op EXCEPT ![p] = x] PROVE op'[q] = op[q]
    BY <1>1, <1>2
  <1>3. ASSUME NEW p \in Procs, p # q, Continue(p) \/ Crash(p) PROVE op'[q] = op[q]
    BY <1>2, <1>3 DEF Crash, Continue, Enqueue, DispatchWrite, FailRelease, FailWrite,
       CountOpenSlots, SendOffers, NobodyToAsk, OfferSubstitution, NobodyToSubstitute, AfterExpiry,
       ApproveCommit, ApproveRefused, AskSubstitute, CountActive, CompleteFromAssignment, ReadAfter,
       DraftInvoice, IssueInvoice, NoShowCommit, NoShowRefused, CancelRead, CancelRelease,
       AcceptCommit, DeclineCommit, ExpireCommit, OfferRefused, HandoffCommit, HandoffRefused,
       CancelWrite, Goes, Ends
  <1>4. ASSUME NEW p \in Procs, TakeEvent(p) \/ Ask(p) PROVE op'[q] = op[q]
    <2>1. op[p].at = "idle"
      BY <1>4 DEF Stands, TakeEvent, Take, TakeForNothing, TakeSettles, TakeSearches,
         TakeFails, TakePauses, TakeSeeks, Ask, RequestDispatch, ScanFails, ResumeReplacement,
         ConfirmBilling, Cancel, AcceptSlot, AcceptRead, DeclineRead, ExpireRead, HandoffRead,
         NoShowRead, ApproveRead, Complete
    <2>2. p # q
      BY <2>1 DEF CancelStages
    <2> QED
      BY <1>2, <1>4, <2>2 DEF TakeEvent, TakeForNothing, TakeSettles, TakeSearches,
         TakeFails, TakePauses, TakeSeeks, Ask, RequestDispatch, ScanFails, ResumeReplacement,
         ConfirmBilling, Cancel, AcceptSlot, AcceptRead, DeclineRead, ExpireRead, HandoffRead,
         NoShowRead, ApproveRead, Complete, Goes, GoesWith, ReadsJob
  <1>5. Continue(q) => CancelRead(q) \/ CancelRelease(q) \/ CancelWrite(q)
    BY DEF CancelStages, Stands, Continue, Enqueue, DispatchWrite, FailRelease, FailWrite,
       CountOpenSlots, SendOffers, NobodyToAsk, OfferSubstitution, NobodyToSubstitute, AfterExpiry,
       ApproveCommit, ApproveRefused, AskSubstitute, CountActive, CompleteFromAssignment, ReadAfter,
       AcceptCommit, DeclineCommit, ExpireCommit, OfferRefused, HandoffCommit, HandoffRefused,
       DraftInvoice, IssueInvoice, NoShowCommit, NoShowRefused
  <1>6. CancelRelease(q) => op'[q].at \in CancelStages
    BY <1>1 DEF CancelRelease, Goes, At, CancelStages
  <1>7. ASSUME CancelRead(q) PROVE op'[q].at \in CancelStages
    <2>1. PICK step \in {<<"readSubstitutes", "cancelSubstitutes",
                           {r \in Substitutes : asg[r] \in {"ACCEPTED", "EN_ROUTE"}}>>,
                         <<"readDeparting", "cancelDeparting",
                           {r \in Rows : r = departing /\ asg[r] = "AWAITING_RELIEF"}>>,
                         <<"readActive", "cancelActive",
                           {r \in Active : asg[r] # "AWAITING_RELIEF"}>>} :
               op' = [op EXCEPT ![q] = [At(step[2], 0, 0) EXCEPT !.rows = step[3]]]
      BY <1>7 DEF CancelRead
    <2>2. op'[q].at = step[2]
      BY <1>1, <2>1 DEF At
    <2>3. step[2] \in CancelStages
      BY <2>1 DEF CancelStages
    <2> QED
      BY <2>2, <2>3
  <1>8. (\E r \in Rows : AskAtOnce(r)) \/ DeadlinePasses \/ UNCHANGED vars => op' = op
    BY DEF AskAtOnce, EnRoute, Arrives, RequestEarlyRelease,
       ResolveEarlyRelease, RequestReplacement, DenyReplacement, vars, DeadlinePasses
  <1> QED
    BY <1>3, <1>4, <1>5, <1>6, <1>7, <1>8 DEF Next, Procs

(* Whoever waits for relief waits until the substitute comes, or a         *)
(* cancellation releases everybody.                                        *)
LEMMA ReliefStays ==
    ASSUME TypeOK, Orderly, [Next]_vars, NEW r \in Rows, asg[r] = "AWAITING_RELIEF"
    PROVE  \/ asg'[r] = "AWAITING_RELIEF"
           \/ status' = "IN_PROGRESS"
           \/ \E p \in Procs : CancelRelease(p)
  <1> USE DEF Assignments
  <1>1. asg' = asg => asg'[r] = "AWAITING_RELIEF"
    OBVIOUS
  <1>2. ASSUME NEW s, NEW S, NEW x, ReadAs(s, S), "AWAITING_RELIEF" \notin S, Sets({s}, x)
        PROVE  asg'[r] = "AWAITING_RELIEF"
    BY <1>2 DEF ReadAs, Sets
  <1>3. ASSUME NEW p \in Procs, Continue(p), ~CancelRelease(p), status' # "IN_PROGRESS"
        PROVE  asg'[r] = "AWAITING_RELIEF"
    <2>1. CASE FailRelease(p)
      BY <2>1 DEF FailRelease, Offered, Releases
    <2>2. CASE ApproveCommit(p)
      BY <1>2, <2>2 DEF ApproveCommit
    <2>3. CASE SendOffers(p) \/ OfferSubstitution(p)
      <3>1. op[p].open \in Nat /\ op[p].row \in 0 .. MaxRows /\ 0 \in 0 .. MaxRows
        BY BoundsPositive DEF TypeOK
      <3>2. PICK n \in Nat, d \in 0 .. MaxRows : Insert(n, d)
        BY <2>3, <3>1 DEF SendOffers, OfferSubstitution
      <3> QED
        BY <3>2, InsertStep DEF Orderly
    <2>4. CASE NoShowCommit(p)
      <3>1. op[p].was \in AbsentStatus
        BY <2>4 DEF NoShowCommit, Orderly, Absence, Stands
      <3>2. ReadAs(op[p].row, {op[p].was}) /\ Sets({op[p].row}, "NO_SHOW")
        BY <2>4 DEF NoShowCommit, NoShowFits
      <3> QED
        BY <1>2, <3>1, <3>2 DEF AbsentStatus
    <2>5. CASE AcceptCommit(p)
      BY <2>5 DEF AcceptCommit, TypeOK
    <2>6. CASE DeclineCommit(p) \/ ExpireCommit(p)
      BY <1>2, <2>6 DEF DeclineCommit, ExpireCommit
    <2>7. ~HandoffCommit(p)
      BY <1>3 DEF HandoffCommit
    <2> QED
      BY <1>1, <1>3, <2>1, <2>2, <2>3, <2>4, <2>5, <2>6, <2>7
         DEF Continue, OfferRefused, HandoffRefused, NoShowRefused,
             CancelRead, Enqueue, DispatchWrite, FailWrite, CountOpenSlots,
             NobodyToAsk, NobodyToSubstitute, AfterExpiry, ApproveRefused, AskSubstitute, CountActive,
             CompleteFromAssignment, ReadAfter, DraftInvoice, IssueInvoice, CancelWrite
  <1>4. ASSUME NEW p \in Procs, Crash(p) \/ TakeEvent(p) PROVE asg'[r] = "AWAITING_RELIEF"
    BY <1>1, <1>4 DEF Crash, TakeEvent, TakeForNothing, TakeSettles, TakeSearches, TakeFails,
       TakePauses, TakeSeeks
  <1>5. ASSUME NEW p \in Procs, Ask(p) PROVE asg'[r] = "AWAITING_RELIEF"
    <2>1. ASSUME NEW s \in Rows, AcceptSlot(p, s) PROVE asg'[r] = "AWAITING_RELIEF"
      BY <2>1 DEF AcceptSlot, CanAccept, Pending
    <2>2. ASSUME NEW s \in Rows, Complete(p, s)
          PROVE  asg'[r] = "AWAITING_RELIEF"
      BY <1>2, <2>2 DEF Complete, CompletableStatus
    <2>3. ASSUME NEW s \in Rows,
                 AcceptRead(p, s) \/ DeclineRead(p, s) \/ ExpireRead(p, s) \/ HandoffRead(p, s)
          PROVE  asg'[r] = "AWAITING_RELIEF"
      BY <1>1, <2>3 DEF AcceptRead, DeclineRead, ExpireRead, HandoffRead
    <2> QED
      BY <1>1, <1>5, <2>1, <2>2, <2>3
         DEF Ask, RequestDispatch, ScanFails, ResumeReplacement, ConfirmBilling, Cancel,
             ApproveRead, NoShowRead
  <1>6. ASSUME NEW s \in Rows, AskAtOnce(s)
        PROVE  asg'[r] = "AWAITING_RELIEF"
    <2>1. CASE EnRoute(s) \/ Arrives(s)
      <3>1. \E S \in {{"ACCEPTED"}, {"EN_ROUTE"}} : ReadAs(s, S) /\ \E x : Sets({s}, x)
        BY <2>1 DEF EnRoute, Arrives
      <3> QED
        BY <1>2, <3>1
    <2>2. CASE RequestReplacement(s) \/ DenyReplacement(s)
      BY <1>2, <2>2 DEF RequestReplacement, DenyReplacement
    <2>3. CASE RequestEarlyRelease(s) \/ ResolveEarlyRelease(s)
      BY <2>3 DEF RequestEarlyRelease, ResolveEarlyRelease, ReadAs, Sets
    <2> QED
      BY <1>6, <2>1, <2>2, <2>3 DEF AskAtOnce
  <1>7. UNCHANGED vars \/ DeadlinePasses => asg' = asg
    BY DEF vars, DeadlinePasses
  <1> QED
    BY <1>1, <1>3, <1>4, <1>5, <1>6, <1>7 DEF Next, Procs

(* What a search knows, or a cancellation is under way that may have let   *)
(* the guardian go.                                                        *)
Known ==
    Seeking => \/ Doing(CancelStages)
               \/ departing \in Rows /\ asg[departing] = "AWAITING_RELIEF"

(* It is kept as long as no cancellation dies half-way.                    *)
LEMMA KnownStep ==
    ASSUME TypeOK, Orderly, Known, [Next]_vars, NobodyCancels \/ ~MayCrash
    PROVE  Known'
  <1> SUFFICES ASSUME Seeking'
               PROVE  \/ \E p \in Procs : op'[p].at \in CancelStages
                      \/ departing' \in Rows /\ asg'[departing'] = "AWAITING_RELIEF"
    BY DEF Known, Doing
  <1>1. status' # "CANCELLED" /\ status' # "IN_PROGRESS"
    BY DEF Seeking
  <1>2. ASSUME NEW p \in Procs, op[p].at \in CancelStages PROVE op'[p].at \in CancelStages
    <2>1. ~Crash(p)
      BY <1>2 DEF Crash, NobodyCancels
    <2>2. ~CancelWrite(p)
      BY <1>1 DEF CancelWrite
    <2> QED
      BY <1>2, <2>1, <2>2, CancelGoesOn
  <1>3. ASSUME NEW p \in Procs, CancelRelease(p) PROVE op[p].at \in CancelStages
    BY <1>3 DEF CancelRelease, Stands, CancelStages
  <1>4. CASE status' = status /\ departing' = departing
    <2>1. \/ \E p \in Procs : op[p].at \in CancelStages
          \/ departing \in Rows /\ asg[departing] = "AWAITING_RELIEF"
      BY <1>4 DEF Known, Doing, Seeking
    <2> QED
      BY <1>1, <1>2, <1>3, <1>4, <2>1, ReliefStays
  <1>5. ASSUME NEW p \in Procs, ApproveCommit(p)
        PROVE  departing' \in Rows /\ asg'[departing'] = "AWAITING_RELIEF"
    BY <1>5 DEF ApproveCommit, Orderly, ApprovesRow, Stands, Sets
  <1> QED
    BY <1>4, <1>5, SearchMoves DEF Seeking

(* A job that seeks a replacement knows whom it replaces, and that         *)
(* guardian waits on site, whichever requests for replacement are approved *)
(* at the same time and whatever the guardians do meanwhile.  Only a       *)
(* cancellation that dies half-way can leave a job seeking for nobody.     *)
THEOREM SearchKnowsWhom ==
    ASSUME "cancel" \notin Requests \/ ~MayCrash
    PROVE  Spec => []SeekingHasDeparting
  <1>1. Init => Known
    BY DEF Init, Known, Seeking
  <1>2. Known => SeekingHasDeparting
    BY BoundsPositive DEF Known, SeekingHasDeparting, Rows
  <1>3. CASE "cancel" \notin Requests
    <2>1. TypeOK /\ Orderly /\ SearchInv /\ Known /\ [Next]_vars => Known'
      BY KnownStep DEF SearchInv
    <2>2. Spec => [](TypeOK /\ SearchInv)
      BY <1>3, SearchInvariant
    <2> QED
      BY <1>1, <1>2, <2>1, <2>2, RowsOrderly, PTL DEF Spec
  <1>4. CASE ~MayCrash
    <2>1. TypeOK /\ Orderly /\ Known /\ [Next]_vars => Known'
      BY <1>4, KnownStep
    <2> QED
      BY <1>1, <1>2, <2>1, RowsOrderly, PTL DEF Spec
  <1> QED
    BY <1>3, <1>4

-----------------------------------------------------------------------------
(* The search never stalls.                                                *)

Pursuing == SearchStages \cup CancelStages

(* A step may leave everything that keeps the search going as it is ...    *)
SearchKept ==
    /\ status' = status \/ status' \notin {"DISPATCHING", "PARTIALLY_ASSIGNED"}
    /\ Staffed \subseteq Staffed' /\ Pending \subseteq Pending'
    /\ events > 0 => events' > 0
    /\ Doing(Pursuing) => Doing(Pursuing)'

(* ... and then the search goes on.                                        *)
LEMMA KeptIsNoStall == ASSUME TypeOK, TypeOK', SearchKept, ~Stalled PROVE ~Stalled'
  <1>1. \A S, T : S \subseteq T /\ T \subseteq Rows
                     => Cardinality(S) \in Nat /\ Cardinality(T) \in Nat /\ Cardinality(S) <= Cardinality(T)
    <2> SUFFICES ASSUME NEW S, NEW T, S \subseteq T, T \subseteq Rows
                 PROVE  /\ Cardinality(S) \in Nat /\ Cardinality(T) \in Nat
                        /\ Cardinality(S) <= Cardinality(T)
      OBVIOUS
    <2>1. IsFiniteSet(S) /\ IsFiniteSet(T)
      BY CountsAreNat
    <2> QED
      BY <2>1, FS_Subset, FS_CardinalityType
  <1>2. FullyStaffed => FullyStaffed'
    <2>1. Staffed' \subseteq Rows
      BY DEF Staffed, Ordinary
    <2>2. /\ Cardinality(Staffed) \in Nat /\ Cardinality(Staffed') \in Nat
          /\ Cardinality(Staffed) <= Cardinality(Staffed')
      BY <1>1, <2>1 DEF SearchKept
    <2> QED
      BY <2>2, BoundsPositive DEF FullyStaffed
  <1>3. events \in Nat /\ events' \in Nat
    BY BoundsPositive DEF TypeOK
  <1> QED
    BY <1>2, <1>3 DEF SearchKept, Stalled, Pursuing

(* ... or leave an offer, an event or a handler that will go on with it.   *)
LEMMA SlotFilledOrOffered ==
    ASSUME TypeOK, NEW p \in Procs, NEW r \in Rows, AcceptSlot(p, r)
    PROVE  status' = "ASSIGNED" \/ Pending' # {} \/ Goes(p, "enqueue")
  <1> DEFINE rest == Pending \ {r}
  <1>1. CASE TakenBy(r) >= Requested
    BY <1>1 DEF AcceptSlot
  <1>2. CASE TakenBy(r) + Cardinality(rest) < Requested /\ ~(TakenBy(r) >= Requested)
    BY <1>2 DEF AcceptSlot
  <1>3. CASE ~(TakenBy(r) + Cardinality(rest) < Requested) /\ ~(TakenBy(r) >= Requested)
    <2>1. TakenBy(r) \in Nat /\ Cardinality(rest) \in Nat
      <3>1. Staffed \cup ({r} \cap Ordinary) \in SUBSET Rows /\ rest \in SUBSET Rows
        BY DEF Staffed, Pending, Ordinary
      <3> QED
        BY <3>1, CountsAreNat DEF TakenBy
    <2>2. Cardinality(rest) # 0
      BY <1>3, <2>1, BoundsPositive
    <2>3. rest # {}
      BY <2>2, FS_EmptySet
    <2>4. PICK q \in rest : TRUE
      BY <2>3
    <2>5. asg'[q] = "OFFERED" /\ replaces'[q] = 0 /\ q \in Rows
      BY <1>3, <2>4 DEF AcceptSlot, Pending, Ordinary, Relief
    <2> QED
      BY <2>5 DEF Pending, Ordinary
  <1> QED
    BY <1>1, <1>2, <1>3

(* A no-show that asks for another round when it leaves a slot open.       *)
LEMMA NoShowAsksAgain ==
    ASSUME TypeOK, TypeOK', NEW p \in Procs, NoShowCommit(p), op[p].seen # "SEEKING_REPLACEMENT"
    PROVE  ~Stalled'
  <1> DEFINE row == op[p].row
  <1>1. CASE FilledWithout(row)
    <2>1. Staffed \ {row} \subseteq Staffed'
      BY DEF NoShowCommit, Sets, Staffed, Ordinary
    <2>2. Staffed' \subseteq Rows
      BY DEF Staffed, Ordinary
    <2>3. IsFiniteSet(Staffed')
      BY <2>2, CountsAreNat
    <2>4. Cardinality(Staffed \ {row}) <= Cardinality(Staffed')
      BY <2>1, <2>3, FS_Subset
    <2>5. Cardinality(Staffed \ {row}) \in Nat /\ Cardinality(Staffed') \in Nat
      BY <2>1, <2>3, FS_Subset, FS_CardinalityType
    <2>6. FullyStaffed'
      BY <1>1, <2>4, <2>5, BoundsPositive DEF FilledWithout, FullyStaffed
    <2> QED
      BY <2>6 DEF Stalled
  <1>2. CASE ~FilledWithout(row)
    <2>1. events' = More(events) /\ events \in Nat /\ MaxEvents \in Nat \ {0}
      BY <1>2, BoundsPositive DEF NoShowCommit, TypeOK
    <2>2. events' # 0
      BY <2>1 DEF More
    <2> QED
      BY <2>2 DEF Stalled
  <1> QED
    BY <1>1, <1>2

(* No step stalls the search but a crash and a late answer or no-show. *)
LEMMA StallStep ==
    ASSUME TypeOK, TypeOK', Orderly, [Next]_vars, ~Stalled,
           \A p \in Procs : ~Crash(p),
           \A p \in Procs : AcceptCommit(p) \/ DeclineCommit(p) \/ NoShowCommit(p)
                               => op[p].seen # "SEEKING_REPLACEMENT"
    PROVE  ~Stalled'
  <1>1. op \in [Procs -> OpRecords] /\ events \in Nat /\ MaxEvents \in Nat \ {0}
    BY BoundsPositive DEF TypeOK, OpRecords
  <1>2. /\ {"search", "insert", "failRelease", "failWrite", "enqueue", "expired"} \subseteq Pursuing
        /\ "dispatchWrite" \in Pursuing /\ CancelStages \subseteq Pursuing
        /\ \A s \in {"idle", "substitute", "approve", "askSubstitute"} : s \notin Pursuing
        /\ \A s \in {"finish", "await", "draft", "invoice", "issue", "absent"} : s \notin Pursuing
        /\ \A s \in {"accept", "decline", "declineLast", "expire", "handoff"} : s \notin Pursuing
    BY DEF Pursuing, SearchStages, CancelStages
  <1> DEFINE Off == status' \notin {"DISPATCHING", "PARTIALLY_ASSIGNED"}
             RowsKeep == Staffed \subseteq Staffed' /\ Pending \subseteq Pending'
             ProcsKeep == Doing(Pursuing) => Doing(Pursuing)'
  <1>3. Off => ~Stalled'
    BY DEF Stalled
  <1>4. ASSUME NEW p \in Procs, op'[p].at \in Pursuing PROVE ~Stalled'
    BY <1>4 DEF Stalled, Doing, Pursuing
  <1>5. ASSUME NEW p \in Procs, NEW s \in Pursuing, Goes(p, s) PROVE ~Stalled'
    <2>1. op'[p].at = s
      BY <1>1, <1>5 DEF Goes, At
    <2> QED
      BY <1>4, <2>1
  <1>6. op' = op => ProcsKeep
    BY DEF Doing
  <1>7. ASSUME NEW p \in Procs, op[p].at \notin Pursuing, NEW x, op' = [op EXCEPT ![p] = x]
        PROVE  ProcsKeep
    <2> SUFFICES ASSUME NEW q \in Procs, op[q].at \in Pursuing PROVE op'[q].at \in Pursuing
      BY DEF Doing
    <2> QED
      BY <1>1, <1>7
  <1>8. asg' = asg /\ replaces' = replaces => RowsKeep
    BY DEF Staffed, Pending, Ordinary
  <1>9. ASSUME NEW r, NEW S, NEW s \in StaffedStatus, ReadAs(r, S), "OFFERED" \notin S, Sets({r}, s),
               replaces' = replaces
        PROVE  RowsKeep
    BY <1>9 DEF ReadAs, Sets, Staffed, Pending, Ordinary
  <1>10. ASSUME status' = status \/ Off, RowsKeep, events' >= events \/ events' > 0, ProcsKeep
         PROVE  ~Stalled'
    <2>1. events' \in Nat
      BY BoundsPositive DEF TypeOK
    <2>2. events > 0 => events' > 0
      BY <1>1, <1>10, <2>1
    <2> QED
      BY <1>10, <2>2, KeptIsNoStall DEF SearchKept
  <1>11. More(events) > 0 /\ More(events) >= events
    BY <1>1, BoundsPositive DEF More, TypeOK
  <1>12. events >= events
    BY <1>1
  <1> HIDE DEF Off, RowsKeep, ProcsKeep
  <1> USE DEF Relief, SearchData, Assignments
  <1>13. ASSUME NEW p \in Procs, Continue(p) PROVE ~Stalled'
    <2>1. CASE Enqueue(p) \/ AskSubstitute(p)
      <3>1. CASE Enqueue(p)
        BY <1>11, <3>1 DEF Enqueue, Stalled
      <3>2. CASE AskSubstitute(p)
        <4>1. op[p].at \notin Pursuing /\ ProcsKeep
          BY <1>2, <1>7, <3>2 DEF AskSubstitute, Stands, Ends
        <4>2. events' >= events
          BY <1>11, <1>12, <3>2 DEF AskSubstitute
        <4> QED
          BY <1>8, <1>10, <3>2, <4>1, <4>2 DEF AskSubstitute
      <3> QED
        BY <2>1, <3>1, <3>2
    <2>2. CASE DispatchWrite(p) \/ FailRelease(p) \/ NobodyToAsk(p) \/ ExpireCommit(p)
      BY <1>2, <1>5, <2>2 DEF DispatchWrite, FailRelease, NobodyToAsk, ExpireCommit
    <2>3. CASE FailWrite(p) \/ ApproveCommit(p) \/ HandoffCommit(p) \/ CancelWrite(p)
      BY <1>3, <2>3 DEF FailWrite, ApproveCommit, HandoffCommit, CancelWrite, Off
    <2>4. CASE CountOpenSlots(p)
      <3>1. CASE Open = 0
        <4>1. Cardinality(Staffed) \in Nat /\ Cardinality(Pending) \in Nat
          BY CountsAreNat DEF Staffed, Pending, Ordinary
        <4>2. FullyStaffed \/ Cardinality(Pending) # 0
          BY <3>1, <4>1, BoundsPositive DEF Open, FullyStaffed
        <4>3. FullyStaffed \/ Pending # {}
          BY <4>2, FS_EmptySet
        <4>4. FullyStaffed' = FullyStaffed /\ Pending' = Pending
          BY <2>4 DEF CountOpenSlots, FullyStaffed, Staffed, Pending, Ordinary
        <4> QED
          BY <4>3, <4>4 DEF Stalled
      <3>2. CASE Open # 0
        <4>1. op'[p].at = "insert"
          BY <1>1, <2>4, <3>2 DEF CountOpenSlots, At
        <4> QED
          BY <1>2, <1>4, <4>1
      <3> QED
        BY <3>1, <3>2
    <2>5. CASE SendOffers(p)
      <3>1. op[p].open \in Nat
        BY <1>1, BoundsPositive DEF OpRecords
      <3>2. PICK n \in 1 .. op[p].open : Insert(n, 0)
        BY <2>5 DEF SendOffers
      <3>3. Cardinality(Sent) \in Nat
        BY CountsAreNat DEF Sent
      <3>4. Cardinality(Sent) + 1 \in Pending'
        BY <3>1, <3>2, <3>3, BoundsPositive DEF Insert, Sets, Pending, Ordinary, Rows
      <3> QED
        BY <3>4 DEF Stalled
    <2>6. CASE OfferSubstitution(p)
      <3>1. op[p].row \in 0 .. MaxRows /\ Insert(1, op[p].row) /\ 1 \in Nat
        BY <1>1, <2>6 DEF OfferSubstitution, OpRecords
      <3>2. RowsKeep
        BY <3>1, InsertSends DEF Orderly, RowsKeep
      <3>3. ProcsKeep
        BY <1>2, <1>7, <2>6 DEF OfferSubstitution, Stands, Ends
      <3> QED
        BY <1>10, <1>12, <2>6, <3>2, <3>3 DEF OfferSubstitution
    <2>7. CASE NobodyToSubstitute(p) \/ ApproveRefused(p) \/ CountActive(p)
      <3>1. ProcsKeep
        BY <1>2, <1>7, <2>7 DEF NobodyToSubstitute, ApproveRefused, CountActive, Stands, Ends, Goes
      <3>2. status' = status /\ asg' = asg /\ replaces' = replaces /\ events' = events
        BY <2>7 DEF NobodyToSubstitute, ApproveRefused, CountActive
      <3> QED
        BY <1>8, <1>10, <1>12, <3>1, <3>2
    <2>8. CASE AfterExpiry(p)
      <3>1. CASE ~Searching
        BY <1>3, <2>8, <3>1 DEF AfterExpiry, Searching, Off
      <3>2. CASE Searching
        <4>1. ~Seeking
          BY <3>2 DEF Searching, Seeking
        <4> QED
          BY <1>2, <1>5, <2>8, <3>2, <4>1 DEF AfterExpiry
      <3> QED
        BY <3>1, <3>2
    <2>9. CASE CompleteFromAssignment(p) \/ ReadAfter(p)
      <3>1. ProcsKeep
        BY <1>2, <1>7, <2>9 DEF CompleteFromAssignment, ReadAfter, Stands, Ends, Goes
      <3>2. asg' = asg /\ replaces' = replaces /\ events' = events
        BY <2>9 DEF CompleteFromAssignment, ReadAfter
      <3>3. status' = status \/ Off
        BY <2>9 DEF CompleteFromAssignment, ReadAfter, Off
      <3> QED
        BY <1>8, <1>10, <1>12, <3>1, <3>2, <3>3
    <2>10. CASE \/ DraftInvoice(p) \/ IssueInvoice(p) \/ NoShowRefused(p)
                \/ OfferRefused(p) \/ HandoffRefused(p)
      <3>1. op[p].at \notin Pursuing /\ Ends(p)
        BY <1>2, <2>10 DEF DraftInvoice, IssueInvoice, NoShowRefused, OfferRefused, HandoffRefused, Stands
      <3>2. ProcsKeep
        BY <1>7, <3>1 DEF Ends
      <3>3. status' = status /\ asg' = asg /\ replaces' = replaces /\ events' = events
        BY <2>10 DEF DraftInvoice, IssueInvoice, NoShowRefused, OfferRefused, HandoffRefused
      <3> QED
        BY <1>8, <1>10, <1>12, <3>2, <3>3
    <2>11. CASE NoShowCommit(p)
      BY <2>11, NoShowAsksAgain
    <2>12. CASE CancelRead(p)
      <3>1. op'[p].at \in CancelStages
        BY <1>1, <2>12 DEF CancelRead, CancelStages, At
      <3> QED
        BY <1>2, <1>4, <3>1
    <2>13. CASE CancelRelease(p)
      <3>1. \E s \in CancelStages : Goes(p, s)
        BY <2>13 DEF CancelRelease, CancelStages
      <3> QED
        BY <1>2, <1>5, <3>1
    <2>14. CASE DeclineCommit(p)
      <3>1. op[p].at # "declineLast"
        BY <2>14 DEF Orderly, ReadSeeking, AnswersSeeking
      <3>2. Goes(p, "enqueue")
        BY <2>14, <3>1 DEF DeclineCommit, Stands
      <3> QED
        BY <1>2, <1>5, <3>2
    <2>15. ~AcceptCommit(p)
      BY DEF AcceptCommit, Stands, Orderly, ReadSeeking, AnswersSeeking
    <2> QED
      BY <1>13, <2>1, <2>2, <2>3, <2>4, <2>5, <2>6, <2>7, <2>8, <2>9, <2>10, <2>11, <2>12, <2>13,
         <2>14, <2>15 DEF Continue
  <1>14. ASSUME NEW p \in Procs, TakeEvent(p) PROVE ~Stalled'
    <2>1. CASE TakeSearches(p) \/ TakeFails(p)
      BY <1>2, <1>5, <2>1 DEF TakeSearches, TakeFails
    <2>2. CASE TakeForNothing(p)
      <3>1. Off \/ FullyStaffed
        BY <2>2 DEF TakeForNothing, Seeking, Off
      <3>2. FullyStaffed' = FullyStaffed
        BY <2>2 DEF TakeForNothing, FullyStaffed, Staffed, Ordinary
      <3> QED
        BY <1>3, <3>1, <3>2 DEF Stalled
    <2>3. CASE TakeSettles(p) \/ TakePauses(p) \/ TakeSeeks(p)
      BY <1>3, <2>3 DEF TakeSettles, TakePauses, TakeSeeks, Seeking, Off
    <2> QED
      BY <1>14, <2>1, <2>2, <2>3 DEF TakeEvent
  <1>15. ASSUME NEW p \in Procs, Ask(p) PROVE ~Stalled'
    <2>1. CASE RequestDispatch(p) \/ ScanFails(p)
      BY <1>2, <1>5, <2>1 DEF RequestDispatch, ScanFails
    <2>2. CASE ResumeReplacement(p) \/ ConfirmBilling(p)
      BY <1>3, <2>2 DEF ResumeReplacement, ConfirmBilling, Seeking, Off
    <2>3. CASE Cancel(p)
      <3>1. "cancelOffers" \in Pursuing
        BY <1>2 DEF CancelStages
      <3> QED
        BY <1>5, <2>3, <3>1 DEF Cancel
    <2>4. ASSUME NEW r \in Rows, AcceptSlot(p, r) PROVE ~Stalled'
      <3>1. status' = "ASSIGNED" \/ Pending' # {} \/ Goes(p, "enqueue")
        BY <2>4, SlotFilledOrOffered
      <3> QED
        BY <1>2, <1>3, <1>5, <3>1 DEF Stalled, Off
    <2>5. ASSUME NEW r \in Rows, AcceptRead(p, r) \/ DeclineRead(p, r) PROVE ~Stalled'
      <3>1. ProcsKeep
        BY <1>2, <1>7, <2>5 DEF AcceptRead, DeclineRead, Stands, ReadsJob
      <3>2. status' = status /\ asg' = asg /\ replaces' = replaces /\ events' = events
        BY <2>5 DEF AcceptRead, DeclineRead
      <3> QED
        BY <1>8, <1>10, <1>12, <3>1, <3>2
    <2>6. ASSUME NEW r \in Rows, ExpireRead(p, r) \/ HandoffRead(p, r) PROVE ~Stalled'
      <3>1. ProcsKeep
        BY <1>2, <1>7, <2>6 DEF ExpireRead, HandoffRead, Stands, GoesWith
      <3>2. status' = status /\ asg' = asg /\ replaces' = replaces /\ events' = events
        BY <2>6 DEF ExpireRead, HandoffRead
      <3> QED
        BY <1>8, <1>10, <1>12, <3>1, <3>2
    <2>7. ASSUME NEW r \in Rows, NoShowRead(p, r) \/ ApproveRead(p, r) PROVE ~Stalled'
      <3>1. ProcsKeep
        BY <1>2, <1>7, <2>7 DEF NoShowRead, ApproveRead, Stands, GoesWith
      <3>2. status' = status /\ asg' = asg /\ replaces' = replaces /\ events' = events
        BY <2>7 DEF NoShowRead, ApproveRead
      <3> QED
        BY <1>8, <1>10, <1>12, <3>1, <3>2
    <2>8. ASSUME NEW r \in Rows, Complete(p, r) PROVE ~Stalled'
      <3>1. ProcsKeep
        BY <1>2, <1>7, <2>8 DEF Complete, Stands, Goes
      <3>2. "COMPLETED" \in StaffedStatus /\ "OFFERED" \notin CompletableStatus
        BY DEF StaffedStatus, CompletableStatus
      <3>3. RowsKeep
        BY <1>9, <2>8, <3>2 DEF Complete
      <3> QED
        BY <1>10, <1>12, <2>8, <3>1, <3>3 DEF Complete
    <2> QED
      BY <1>15, <2>1, <2>2, <2>3, <2>4, <2>5, <2>6, <2>7, <2>8 DEF Ask
  <1>16. ASSUME NEW r \in Rows, AskAtOnce(r) PROVE ~Stalled'
    <2>1. CASE Arrives(r)
      BY <1>3, <2>1 DEF Arrives, Off
    <2>2. ASSUME status' = status, events' = events, op' = op, RowsKeep PROVE ~Stalled'
      BY <1>6, <1>10, <1>12, <2>2
    <2>3. {"EN_ROUTE", "ON_SITE", "EARLY_RELEASE_REQUESTED", "EARLY_RELEASE_GRANTED",
           "REPLACEMENT_REQUESTED"} \subseteq StaffedStatus
      BY DEF StaffedStatus, ActiveStatus
    <2>4. CASE EnRoute(r)
      <3>1. RowsKeep
        BY <1>9, <2>3, <2>4 DEF EnRoute
      <3> QED
        BY <2>2, <2>4, <3>1 DEF EnRoute
    <2>5. CASE RequestEarlyRelease(r)
      <3>1. RowsKeep
        BY <1>9, <2>3, <2>5 DEF RequestEarlyRelease
      <3> QED
        BY <2>2, <2>5, <3>1 DEF RequestEarlyRelease
    <2>6. CASE ResolveEarlyRelease(r)
      <3>1. ReadAs(r, {"EARLY_RELEASE_REQUESTED", "EARLY_RELEASE_GRANTED"})
        BY <2>6 DEF ResolveEarlyRelease, ReadAs
      <3>2. RowsKeep
        BY <1>9, <2>3, <2>6, <3>1 DEF ResolveEarlyRelease
      <3> QED
        BY <2>2, <2>6, <3>2 DEF ResolveEarlyRelease
    <2>7. CASE RequestReplacement(r)
      <3>1. RowsKeep
        BY <1>9, <2>3, <2>7 DEF RequestReplacement
      <3> QED
        BY <2>2, <2>7, <3>1 DEF RequestReplacement
    <2>8. CASE DenyReplacement(r)
      <3>1. RowsKeep
        BY <1>9, <2>3, <2>8 DEF DenyReplacement
      <3> QED
        BY <2>2, <2>8, <3>1 DEF DenyReplacement
    <2> QED
      BY <1>16, <2>1, <2>4, <2>5, <2>6, <2>7, <2>8 DEF AskAtOnce
  <1>17. ASSUME UNCHANGED vars \/ DeadlinePasses PROVE ~Stalled'
    <2>1. UNCHANGED <<status, asg, replaces, events, op>>
      BY <1>17 DEF vars, DeadlinePasses
    <2> QED
      BY <1>6, <1>8, <1>10, <1>12, <2>1
  <1> QED
    BY <1>13, <1>14, <1>15, <1>16, <1>17 DEF Next, Procs

(* A dispatched job that lacks guardians is never forgotten, whatever is   *)
(* requested: of all steps, of any number of processes, only the crash of  *)
(* a process and the commit of an accept, a decline or a no-show that read *)
(* the job while it sought a replacement can leave it with no offer out,   *)
(* no event in the outbox and no handler on its way.                       *)
THEOREM SearchGoesOn == Spec => SearchNeverStalls
  <1> DEFINE Excuse == \E p \in Procs :
                          \/ Crash(p)
                          \/ /\ AcceptCommit(p) \/ DeclineCommit(p) \/ NoShowCommit(p)
                             /\ op[p].seen = "SEEKING_REPLACEMENT"
  <1>1. TypeOK /\ Orderly /\ TypeOK' /\ [Next]_vars => [~Stalled /\ Stalled' => Excuse]_vars
    BY StallStep
  <1> QED
    BY <1>1, RowsOrderly, PTL DEF SearchNeverStalls, Spec

(* Once a job is past its search, only a no-show or a request for dispatch *)
(* that overwrites the status takes it back there.                         *)
LEMMA PastSearch ==
    ASSUME [Next]_vars, ~Searching, \A p \in Procs : ~NoShowCommit(p) /\ ~DispatchWrite(p)
    PROVE  ~Searching'
  <1> USE DEF Searching
  <1>1. ASSUME NEW p \in Procs, Continue(p) PROVE ~Searching'
    BY <1>1 DEF Continue, Enqueue, FailRelease, FailWrite, CountOpenSlots, SendOffers, NobodyToAsk,
       OfferSubstitution, NobodyToSubstitute, AcceptCommit, DeclineCommit, ExpireCommit, OfferRefused,
       AfterExpiry, HandoffCommit, HandoffRefused, ApproveCommit, ApproveRefused, AskSubstitute,
       CountActive, CompleteFromAssignment, ReadAfter, DraftInvoice, IssueInvoice, NoShowRefused,
       CancelRead, CancelRelease, CancelWrite
  <1>2. ASSUME NEW p \in Procs, Crash(p) \/ TakeEvent(p) PROVE ~Searching'
    BY <1>2 DEF Crash, TakeEvent, TakeForNothing, TakeSettles, TakeSearches, TakeFails, TakePauses,
       TakeSeeks
  <1>3. ASSUME NEW p \in Procs, Ask(p) PROVE ~Searching'
    <2>1. ASSUME NEW r \in Rows, AcceptSlot(p, r) PROVE ~Searching'
      BY <2>1 DEF AcceptSlot, CanAccept
    <2> QED
      BY <1>3, <2>1 DEF Ask, RequestDispatch, ScanFails, ResumeReplacement, ConfirmBilling, Cancel,
         AcceptRead, DeclineRead, ExpireRead, NoShowRead, HandoffRead, ApproveRead, Complete
  <1>4. ASSUME NEW r \in Rows, AskAtOnce(r) PROVE ~Searching'
    BY <1>4 DEF AskAtOnce, EnRoute, Arrives, RequestEarlyRelease, ResolveEarlyRelease,
       RequestReplacement, DenyReplacement
  <1>5. UNCHANGED vars \/ DeadlinePasses => status' = status
    BY DEF vars, DeadlinePasses
  <1> QED
    BY <1>1, <1>2, <1>3, <1>4, <1>5 DEF Next, Procs

(* So where processes do not die in the middle of a handler, nobody is     *)
(* reported absent and nobody asks for dispatch again, declines, expiries, *)
(* partial accepts, replacements and cancellations, however their reads    *)
(* and writes overlap, never leave a dispatched job to itself.             *)
THEOREM NeverStalled ==
    ASSUME ~MayCrash, Requests \subseteq {"cancel"}
    PROVE  Spec => []~Stalled
  <1> DEFINE Calm == \A p \in Procs : op[p].at \notin {"absent", "dispatchWrite"}
             Beyond == \A p \in Procs : op[p].at \in AnswersSeeking => ~Searching
             Inv == ~Stalled /\ Calm /\ Beyond
  <1>1. Init => Inv
    BY DEF Init, Stalled, Idle, At, AnswersSeeking
  <1>2. ASSUME TypeOK, TypeOK', Orderly, Inv, [Next]_vars PROVE Inv'
    <2>1. ASSUME NEW p \in Procs
          PROVE  /\ op'[p].at \notin {"absent", "dispatchWrite"}
                 /\ op'[p].at \in AnswersSeeking => op'[p] = op[p] \/ (Seeking /\ status' = status)
      <3>1. Reads(p)
        BY <1>2, ReadStep
      <3>2. \A r \in Rows : ~NoShowRead(p, r)
        BY DEF NoShowRead
      <3>3. ASSUME NEW r \in Rows, ApproveRead(p, r) PROVE op'[p].at = "approve"
        BY <1>2, <3>3 DEF ApproveRead, GoesWith, At, TypeOK
      <3>4. CancelRead(p) => op'[p].at \notin Marked
        BY <1>2, FoundWereSent
      <3> QED
        BY <1>2, <3>1, <3>2, <3>3, <3>4 DEF Reads, Marked, AnswersSeeking
    <2>2. \A p \in Procs : ~Crash(p)
      BY DEF Crash
    <2>3. \A p \in Procs : ~NoShowCommit(p) /\ ~DispatchWrite(p)
      BY <1>2 DEF NoShowCommit, DispatchWrite, Stands
    <2>4. ~Searching => ~Searching'
      BY <1>2, <2>3, PastSearch
    <2>5. Beyond'
      BY <1>2, <2>1, <2>4 DEF Seeking, Searching
    <2>6. CASE \E p \in Procs : /\ AcceptCommit(p) \/ DeclineCommit(p)
                                /\ op[p].at \in AnswersSeeking
      <3>1. ~Searching'
        BY <1>2, <2>4, <2>6
      <3> QED
        BY <2>1, <2>5, <3>1 DEF Stalled, Searching
    <2>7. CASE \A p \in Procs : AcceptCommit(p) \/ DeclineCommit(p) => op[p].at \notin AnswersSeeking
      <3>0. ASSUME NEW p \in Procs, DeclineCommit(p), op[p].at \notin AnswersSeeking
            PROVE  Goes(p, "enqueue")
        BY <3>0 DEF DeclineCommit, Stands, AnswersSeeking
      <3>1. ASSUME NEW p \in Procs, Goes(p, "enqueue") PROVE ~Stalled'
        <4>1. op'[p].at = "enqueue"
          BY <1>2, <3>1 DEF Goes, At, TypeOK
        <4>2. Doing(SearchStages \cup CancelStages)'
          BY <4>1 DEF Doing, SearchStages
        <4> QED
          BY <4>2 DEF Stalled
      <3>2. CASE \E p \in Procs : DeclineCommit(p)
        BY <2>1, <2>5, <2>7, <3>0, <3>1, <3>2
      <3>3. CASE \A p \in Procs : ~DeclineCommit(p)
        <4>1. \A p \in Procs : ~AcceptCommit(p)
          BY <2>7 DEF AcceptCommit, Stands, AnswersSeeking
        <4>2. \A p \in Procs : ~(AcceptCommit(p) \/ DeclineCommit(p) \/ NoShowCommit(p))
          BY <2>3, <3>3, <4>1
        <4>3. ~Stalled'
          BY <1>2, <2>2, <4>2, StallStep
        <4> QED
          BY <2>1, <2>5, <4>3
      <3> QED
        BY <2>1, <2>5, <3>2, <3>3
    <2> QED
      BY <2>6, <2>7
  <1> QED
    BY <1>1, <1>2, RowsOrderly, PTL DEF Spec

-----------------------------------------------------------------------------
(* The pool of slots.                                                      *)
NoShows == {r \in Ordinary : asg[r] = "NO_SHOW"}

(* An offer becomes ACCEPTED by an accept of it, and a row NO_SHOW by the  *)
(* commit of its no-show.                                                  *)
Explained(r) ==
    /\ asg[r] = "OFFERED" /\ asg'[r] = "ACCEPTED"
       => \/ \E p \in Procs : AcceptCommit(p) /\ op[p].row = r
          \/ \E p \in Clerks : AcceptSlot(p, r)
    /\ asg[r] # "NO_SHOW" /\ asg'[r] = "NO_SHOW"
       => \E p \in Procs : NoShowCommit(p) /\ op[p].row = r

(* Every step is explained so.                                             *)
LEMMA StepExplained ==
    ASSUME TypeOK, [Next]_vars, NEW r \in Rows
    PROVE  Explained(r)
  <1> USE DEF Explained
  <1>0. CASE asg' = asg
    BY <1>0
  <1>1. ASSUME NEW p \in Procs, NoShowCommit(p) PROVE Explained(r)
    BY <1>1 DEF NoShowCommit, Sets
  <1>2. ASSUME NEW p \in Procs, FailRelease(p) \/ CancelRelease(p) PROVE Explained(r)
    BY <1>2 DEF FailRelease, CancelRelease, Releases
  <1>3. ASSUME NEW p \in Procs, SendOffers(p) \/ OfferSubstitution(p) PROVE Explained(r)
    BY <1>3 DEF SendOffers, OfferSubstitution, Insert, Sets
  <1>4. ASSUME NEW p \in Procs, ApproveCommit(p) PROVE Explained(r)
    BY <1>4 DEF ApproveCommit, Sets
  <1>14. ASSUME NEW p \in Procs, AcceptCommit(p) PROVE Explained(r)
    BY <1>14 DEF AcceptCommit, TypeOK
  <1>15. ASSUME NEW p \in Procs, DeclineCommit(p) \/ ExpireCommit(p) PROVE Explained(r)
    BY <1>15 DEF DeclineCommit, ExpireCommit, Sets
  <1>11. ASSUME NEW p \in Procs, HandoffCommit(p) PROVE Explained(r)
    BY <1>11 DEF HandoffCommit, TypeOK
  <1>5. ASSUME NEW p \in Procs, Continue(p) PROVE Explained(r)
    <2>1. asg' = asg \/ NoShowCommit(p) \/ FailRelease(p) \/ CancelRelease(p) \/ SendOffers(p)
          \/ OfferSubstitution(p) \/ ApproveCommit(p) \/ AcceptCommit(p) \/ DeclineCommit(p)
          \/ ExpireCommit(p) \/ HandoffCommit(p)
      BY <1>5 DEF Continue, OfferRefused, HandoffRefused, NoShowRefused, CancelRead,
          Enqueue, DispatchWrite, FailWrite,
         CountOpenSlots, NobodyToAsk, NobodyToSubstitute, AfterExpiry, ApproveRefused, AskSubstitute,
         CountActive, CompleteFromAssignment, ReadAfter, DraftInvoice, IssueInvoice, CancelWrite,
         Assignments
    <2> QED
      BY <2>1, <1>0, <1>1, <1>2, <1>3, <1>4, <1>11, <1>14, <1>15
  <1>6. ASSUME NEW p \in Procs, Crash(p) \/ TakeEvent(p) PROVE asg' = asg
    BY <1>6 DEF Crash, TakeEvent, TakeForNothing, TakeSettles, TakeSearches, TakeFails, TakePauses,
       TakeSeeks, Assignments
  <1>7. ASSUME NEW p \in Clerks, NEW s \in Rows, AcceptSlot(p, s) PROVE Explained(r)
    BY <1>7 DEF AcceptSlot
  <1>8. ASSUME NEW p \in Clerks, NEW s \in Rows, Complete(p, s) PROVE Explained(r)
    BY <1>8 DEF Complete, Sets
  <1>9. ASSUME NEW p \in Clerks, Ask(p) PROVE Explained(r)
    <2>1. asg' = asg \/ \E s \in Rows : AcceptSlot(p, s) \/ Complete(p, s)
      BY <1>9 DEF Ask, RequestDispatch, ScanFails, ResumeReplacement, ConfirmBilling, Cancel, NoShowRead,
         AcceptRead, DeclineRead, ExpireRead, HandoffRead, ApproveRead, Assignments
    <2> QED
      BY <2>1, <1>0, <1>7, <1>8
  <1>10. ASSUME NEW s \in Rows, EnRoute(s) \/ Arrives(s) PROVE Explained(r)
    BY <1>10 DEF EnRoute, Arrives, Sets
  <1>12. ASSUME NEW s \in Rows,
                \/ RequestEarlyRelease(s) \/ ResolveEarlyRelease(s)
                \/ RequestReplacement(s) \/ DenyReplacement(s)
         PROVE  Explained(r)
    BY <1>12 DEF RequestEarlyRelease, ResolveEarlyRelease, RequestReplacement, DenyReplacement, Sets
  <1>13. ASSUME NEW s \in Rows, AskAtOnce(s) PROVE Explained(r)
    BY <1>10, <1>12, <1>13 DEF AskAtOnce
  <1> HIDE DEF Explained
  <1> QED
    BY <1>0, <1>5, <1>6, <1>9, <1>13 DEF Next, vars, DeadlinePasses, Assignments, Procs

(* A step that neither gives nor takes a slot may close offers. *)
LEMMA ClosingStep ==
    ASSUME RowsMove,
           \A r \in Ordinary : asg'[r] \in StaffedStatus <=> asg[r] \in StaffedStatus
    PROVE  Pool!Next
  <1>1. Ordinary' = Ordinary /\ Ordinary \subseteq Rows /\ \A r \in Rows : RowMoves(r)
    BY DEF RowsMove, Ordinary
  <1>2. Staffed' = Staffed
    BY <1>1 DEF Staffed
  <1>3. \A r \in Rows : asg'[r] = "OFFERED" /\ asg[r] # "OFFERED" => FALSE
    BY <1>1 DEF RowMoves, AllowedNext
  <1>4. Pending' \in SUBSET Pending
    BY <1>1, <1>3 DEF Pending
  <1>5. \A r \in Rows : asg[r] = "NO_SHOW" => asg'[r] = "NO_SHOW"
    BY <1>1 DEF RowMoves, AllowedNext
  <1>6. NoShows \subseteq NoShows'
    BY <1>1, <1>5 DEF NoShows
  <1>7. NoShows' \cap Staffed' = {}
    BY DEF NoShows, Staffed, StaffedStatus, ActiveStatus
  <1> QED
    BY <1>2, <1>4, <1>6, <1>7 DEF Pool!Next, Pool!Close, NoShows

(* The cardinality of the pool is the one of this module. *)
LEMMA SameCardinality == ASSUME NEW S PROVE Pool!Cardinality(S) = Cardinality(S)
  BY DEF Pool!Cardinality, Cardinality

(* Without a substitute in it, an accept takes a slot of the pool: outside *)
(* a search for a substitute because it has counted them, during one       *)
(* because no more offers are out than slots are left.                     *)
LEMMA TakingStep ==
    ASSUME TypeOK, SlotBudget, NEW r \in Ordinary, asg[r] = "OFFERED",
           \/ \E p \in Procs : AcceptCommit(p) /\ op[p].row = r
           \/ \E p \in Clerks : AcceptSlot(p, r)
    PROVE  Pool!Take(r)
  <1>1. /\ Staffed \in SUBSET Rows /\ Pending \in SUBSET Rows /\ r \in Pending /\ r \in Rows
        /\ r \notin Staffed /\ r \notin NoShows
    BY DEF Staffed, Pending, Ordinary, NoShows, StaffedStatus, ActiveStatus
  <1>2. /\ IsFiniteSet(Staffed) /\ Cardinality(Staffed) \in Nat
        /\ IsFiniteSet(Pending) /\ Cardinality(Pending) \in Nat /\ Requested \in Nat
    BY <1>1, CountsAreNat, BoundsPositive
  <1>3. Cardinality(Staffed \cup {r}) = Cardinality(Staffed) + 1
    BY <1>1, <1>2, FS_AddElement
  <1>4. Cardinality(Pending \ {r}) = Cardinality(Pending) - 1 /\ IsFiniteSet(Pending \ {r})
    BY <1>1, <1>2, FS_RemoveElement
  <1> DEFINE last == Cardinality(Staffed) + 1 = Requested
  <1>5. ASSUME NEW X \in SUBSET (Pending \ {r}), replaces' = replaces,
               \A s \in Rows : asg'[s] = IF s = r THEN "ACCEPTED"
                                         ELSE IF s \in X THEN "CANCELLED" ELSE asg[s]
        PROVE  Staffed' = Staffed \cup {r} /\ Pending' = (Pending \ {r}) \ X /\ NoShows' = NoShows
    <2>1. Ordinary' = Ordinary /\ r \in Ordinary /\ Ordinary \subseteq Rows
      BY <1>5 DEF Ordinary
    <2>2. \A s \in X : asg[s] = "OFFERED" /\ s # r
      BY DEF Pending
    <2>3. Staffed' = Staffed \cup {r}
      BY <1>5, <2>1, <2>2 DEF Staffed, StaffedStatus, ActiveStatus
    <2>4. Pending' = (Pending \ {r}) \ X
      BY <1>5, <2>1, <2>2 DEF Pending
    <2>5. NoShows' = NoShows
      BY <1>1, <1>5, <2>1, <2>2 DEF NoShows
    <2> QED
      BY <2>3, <2>4, <2>5
  <1>6. ASSUME NEW p \in Procs, AcceptCommit(p), op[p].row = r PROVE Pool!Take(r)
    <2> DEFINE X == {}
    <2>0. X = {} /\ X \in SUBSET (Pending \ {r})
      OBVIOUS
    <2>1. /\ replaces' = replaces
          /\ \A s \in Rows : asg'[s] = IF s = r THEN "ACCEPTED" ELSE IF s \in X THEN "CANCELLED" ELSE asg[s]
      BY <1>6 DEF AcceptCommit, Relief, TypeOK
    <2> HIDE DEF X
    <2>2. Staffed' = Staffed \cup {r} /\ Pending' = Pending \ {r} /\ NoShows' = NoShows
      <3>1. Staffed' = Staffed \cup {r} /\ Pending' = (Pending \ {r}) \ X /\ NoShows' = NoShows
        BY <1>5, <2>0, <2>1
      <3> QED
        BY <2>0, <3>1
    <2>3. Cardinality(Pending) >= 1
      BY <1>1, <1>2, FS_EmptySet
    <2>4. Cardinality(Staffed) < Requested
      BY <1>2, <2>3 DEF SlotBudget
    <2>5. last => Pending \ {r} = {}
      <3> SUFFICES ASSUME last PROVE Pending \ {r} = {}
        OBVIOUS
      <3>1. Cardinality(Pending) - 1 = 0
        BY <1>2, <2>3 DEF SlotBudget
      <3> QED
        BY <1>4, <3>1, FS_EmptySet
    <2> QED
      BY <1>1, <2>2, <2>4, <2>5, SameCardinality DEF Pool!Take, NoShows
  <1>7. ASSUME NEW p \in Clerks, AcceptSlot(p, r) PROVE Pool!Take(r)
    <2>1. TakenBy(r) = Cardinality(Staffed) + 1
      <3>1. {r} \cap Ordinary = {r}
        OBVIOUS
      <3> QED
        BY <1>3, <3>1 DEF TakenBy
    <2>2. Cardinality(Staffed) < Requested
      BY <1>7 DEF AcceptSlot, CanAccept
    <2>3. TakenBy(r) >= Requested <=> last
      BY <1>2, <2>1, <2>2
    <2> DEFINE X == IF TakenBy(r) >= Requested THEN Pending \ {r} ELSE {}
    <2>4. /\ replaces' = replaces
          /\ \A s \in Rows : asg'[s] = IF s = r THEN "ACCEPTED" ELSE IF s \in X THEN "CANCELLED" ELSE asg[s]
      BY <1>7 DEF AcceptSlot, Relief
    <2>5. X \in SUBSET (Pending \ {r}) /\ X = IF last THEN Pending \ {r} ELSE {}
      BY <2>3
    <2> HIDE DEF X
    <2>6. Staffed' = Staffed \cup {r} /\ Pending' = (Pending \ {r}) \ X /\ NoShows' = NoShows
      BY <1>5, <2>4, <2>5
    <2>7. Pending' = IF last THEN {} ELSE Pending \ {r}
      BY <2>5, <2>6
    <2> QED
      BY <1>1, <2>2, <2>6, <2>7, SameCardinality DEF Pool!Take, NoShows
  <1> QED
    BY <1>6, <1>7

(* Every step is one of the pool, or leaves it alone. *)
LEMMA PoolStep ==
    ASSUME TypeOK, SearchInv, SlotBudget, [Next]_vars, "cancel" \notin Requests
    PROVE  [Pool!Next]_(Pool!poolVars)
  <1>1. CASE RowsMove
    <2>1. Ordinary' = Ordinary /\ Ordinary \subseteq Rows /\ \A r \in Rows : RowMoves(r)
      BY <1>1 DEF RowsMove, Ordinary
    <2>2. CASE \A r \in Ordinary : asg'[r] \in StaffedStatus <=> asg[r] \in StaffedStatus
      BY <1>1, <2>2, ClosingStep
    <2>3. ASSUME NEW r \in Ordinary, asg'[r] \in StaffedStatus, asg[r] \notin StaffedStatus
          PROVE  Pool!Next
      <3>1. asg[r] = "OFFERED" /\ asg'[r] = "ACCEPTED"
        BY <2>1, <2>3 DEF RowMoves, AllowedNext, StaffedStatus, ActiveStatus
      <3>2. \/ \E p \in Procs : AcceptCommit(p) /\ op[p].row = r
            \/ \E p \in Clerks : AcceptSlot(p, r)
        BY <2>1, <3>1, StepExplained DEF Explained
      <3> QED
        BY <2>1, <3>1, <3>2, TakingStep DEF Pool!Next
    <2>4. ASSUME NEW r \in Ordinary, asg'[r] \notin StaffedStatus, asg[r] \in StaffedStatus
          PROVE  Pool!Next
      <3>1. asg'[r] = "NO_SHOW" /\ asg[r] # "NO_SHOW"
        BY <2>1, <2>4 DEF RowMoves, AllowedNext, StaffedStatus, ActiveStatus
      <3>2. PICK p \in Procs : NoShowCommit(p) /\ op[p].row = r
        BY <2>1, <3>1, StepExplained DEF Explained
      <3>3. \A s \in Rows : asg'[s] = IF s = r THEN "NO_SHOW" ELSE asg[s]
        BY <3>2 DEF NoShowCommit, Sets
      <3>4. r \in Staffed /\ Staffed' = Staffed \ {r}
        BY <2>1, <2>4, <3>3 DEF Staffed, StaffedStatus, ActiveStatus
      <3>5. Pending' = Pending
        BY <2>1, <2>4, <3>3 DEF Pending, StaffedStatus, ActiveStatus
      <3>6. NoShows' = NoShows \cup {r}
        BY <2>1, <3>3 DEF NoShows
      <3> QED
        BY <2>1, <3>4, <3>5, <3>6 DEF Pool!Next, Pool!GiveUp, NoShows
    <2> QED
      BY <2>2, <2>3, <2>4
  <1>2. ASSUME NEW p \in Procs, SendOffers(p) \/ OfferSubstitution(p) PROVE Pool!Next
    <2>0. op[p].row \in 0 .. MaxRows /\ op[p].open \in Nat /\ 0 \in 0 .. MaxRows
      BY BoundsPositive DEF TypeOK
    <2>1. PICK n \in Nat, d \in 0 .. MaxRows : Insert(n, d)
      <3>1. (\E n \in 1 .. op[p].open : Insert(n, 0)) \/ Insert(1, op[p].row)
        BY <1>2, SendersInsert
      <3> QED
        BY <2>0, <3>1
    <2>2. PICK k \in 0 .. MaxRows :
             /\ \A r \in Rows : asg'[r] = IF r \in k + 1 .. k + n THEN "OFFERED" ELSE asg[r]
             /\ \A r \in Rows : replaces'[r] = IF r \in k + 1 .. k + n THEN d ELSE replaces[r]
             /\ \A r \in k + 1 .. k + n : r \in Rows /\ asg[r] = "UNSENT"
      BY <2>1, InsertStep DEF SearchInv
    <2> DEFINE new == k + 1 .. k + n
               S == (Pending' \ Pending)
    <2>3. new \subseteq Rows /\ \A r \in new : asg[r] = "UNSENT" /\ asg'[r] = "OFFERED"
      BY <2>2
    <2>4. \A r \in Rows \ new : asg'[r] = asg[r] /\ replaces'[r] = replaces[r]
      BY <2>2
    <2> HIDE DEF new
    <2>5. Staffed' = Staffed
      BY <2>3, <2>4 DEF Staffed, Ordinary, StaffedStatus, ActiveStatus
    <2>6. NoShows' = NoShows
      BY <2>3, <2>4 DEF NoShows, Ordinary
    <2>7. Pending \subseteq Pending' /\ S \subseteq new
      BY <2>3, <2>4 DEF Pending, Ordinary
    <2>8. S \in SUBSET (Rows \ (Staffed \cup Pending \cup NoShows))
      BY <2>3, <2>7 DEF Staffed, Pending, NoShows, StaffedStatus, ActiveStatus
    <2>9. Pending' = Pending \cup S
      BY <2>7
    <2> QED
      BY <2>5, <2>6, <2>8, <2>9 DEF Pool!Next, Pool!Extend, NoShows
  <1> QED
    BY <1>1, <1>2, RowStep

(* With one dispatcher and no cancellation the life of a job implements    *)
(* the pool of slots: nobody takes a slot that is not free, whoever takes  *)
(* the last one closes the other offers, and only a no-show gives a slot   *)
(* back, through replacements, refills, failures and crashes.              *)
THEOREM LifeImplementsSlotPool ==
    ASSUME "cancel" \notin Requests, \A d, e \in Dispatchers : d = e
    PROVE  Spec => ImplementsSlotPool
  <1>1. Init => Pool!Init
    BY DEF Init, Pool!Init, Staffed, Pending, Ordinary, StaffedStatus, ActiveStatus
  <1>2. TypeOK /\ SearchInv /\ SlotBudget /\ [Next]_vars => [Pool!Next]_(Pool!poolVars)
    BY PoolStep
  <1> QED
    BY <1>1, <1>2, SearchInvariant, OneDispatcherKeepsBudget, PTL DEF Spec, ImplementsSlotPool, Pool!Spec
=============================================================================
