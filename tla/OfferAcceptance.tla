--------------------------- MODULE OfferAcceptance ---------------------------
(***************************************************************************)
(* The staffing of one job, at the grain of PostgreSQL row locks.          *)
(*                                                                         *)
(* Guardians accept, decline or miss offers, the dispatch workers of every *)
(* server process top offers up, and a terminal dispatch failure sweeps    *)
(* the offers away.  Each of these is a READ COMMITTED transaction: it     *)
(* takes row locks on assignments and on the job one after the other,      *)
(* sees what others committed, and publishes its own writes when it        *)
(* commits.  The interesting part is the order of the locks: an accept     *)
(* locks its own assignment and then the job, and the accept that fills    *)
(* the last slot goes on to lock every other offered assignment, so two    *)
(* accepts can wait for one another and the database kills one of them.    *)
(*                                                                         *)
(* The module ends where the first guardian arrives: jobs in progress and  *)
(* replacements are the subject of JobLifecycle.                           *)
(***************************************************************************)
EXTENDS Naturals, FiniteSets

CONSTANTS
    Offers,      \* assignment rows the job may ever get
    Requested,   \* jobs.requestedGuardianCount
    Parallel,    \* URGENT_PARALLEL_OFFERS, the most offers of one dispatch round
    Txns,        \* database sessions that handle guardian requests and failures
    Workers,     \* dispatch workers, one per server process
    None         \* "no session" and "no offer"

ASSUME OffersFinite == IsFiniteSet(Offers)
ASSUME RequestedPositive == Requested \in Nat \ {0}
ASSUME ParallelPositive == Parallel \in Nat \ {0}
ASSUME NoneIsFresh == None \notin Txns /\ None \notin Offers

VARIABLES
    job,       \* committed jobs.status
    asg,       \* committed job_assignments.status; "UNSENT" before the insert
    ver,       \* committed job_assignments.versionNumber
    jobLock,   \* session that holds the job row FOR UPDATE, or None
    rowLock,   \* session that holds each assignment row, or None
    tx,        \* the transaction each session runs
    wk         \* open slots each dispatch worker has computed; 0 when idle

vars == <<job, asg, ver, jobLock, rowLock, tx, wk>>

JobStatus == {"DISPATCHING", "PARTIALLY_ASSIGNED", "ASSIGNED", "FAILED"}

AsgStatus == {"UNSENT", "OFFERED", "ACCEPTED", "DECLINED", "EXPIRED",
              "NO_SHOW", "CANCELLED"}

(* STAFFED_ASSIGNMENT_STATUSES, as far as this phase of the job goes. *)
StaffedStatus == {"ACCEPTED"}

(* What a session does: nothing; an accept; a decline or an expiry; a      *)
(* no-show; the sweep of a terminal dispatch failure; or a dispatch        *)
(* request.  at is how far it has come, off the row it is about, seenVer   *)
(* and seenJob the version and the job status it read before its           *)
(* transaction began, todo the rows its bulk update has still to lock and  *)
(* hit the rows it has locked and will cancel.                             *)
Idle == [kind |-> "none", at |-> "idle", off |-> None, seenVer |-> 0,
         seenJob |-> "DISPATCHING", todo |-> {}, hit |-> {}]

TxRecords ==
    [kind : {"none", "accept", "decline", "expire", "noShow", "fail", "request"},
     at : {"idle", "read", "wantsJob", "sweeps", "wantsEnd"},
     off : Offers \cup {None}, seenVer : Nat, seenJob : JobStatus,
     todo : SUBSET Offers, hit : SUBSET Offers]

Staffed == {o \in Offers : asg[o] \in StaffedStatus}
Pending == {o \in Offers : asg[o] = "OFFERED"}
Absent == {o \in Offers : asg[o] = "NO_SHOW"}

(* A row or the job can be locked, or waited for, by sessions only. *)
FreeRow(o) == rowLock[o] = None
FreeJob == jobLock = None

-----------------------------------------------------------------------------
Init ==
    /\ job = "DISPATCHING"
    /\ asg = [o \in Offers |-> "UNSENT"]
    /\ ver = [o \in Offers |-> 1]
    /\ jobLock = None
    /\ rowLock = [o \in Offers |-> None]
    /\ tx = [t \in Txns |-> Idle]
    /\ wk = [w \in Workers |-> 0]

(* The end of a transaction, committed or rolled back: its locks go. *)
Unlock(t) ==
    /\ rowLock' = [o \in Offers |-> IF rowLock[o] = t THEN None ELSE rowLock[o]]
    /\ jobLock' = IF jobLock = t THEN None ELSE jobLock

Finish(t) == tx' = [tx EXCEPT ![t] = Idle] /\ Unlock(t)

Rollback(t) == Finish(t) /\ UNCHANGED <<job, asg, ver, wk>>

-----------------------------------------------------------------------------
(* AssignmentsService.accept, first statements: lock the assignment row,   *)
(* read it with its job, reject what is no longer offered or has expired.  *)
(* A rejected request changes nothing.                                     *)
AcceptBegin(t, o) ==
    /\ tx[t] = Idle
    /\ FreeRow(o)
    /\ asg[o] = "OFFERED"
    /\ rowLock' = [rowLock EXCEPT ![o] = t]
    /\ tx' = [tx EXCEPT ![t] = [Idle EXCEPT !.kind = "accept", !.at = "wantsJob",
                                            !.off = o, !.seenJob = job]]
    /\ UNCHANGED <<job, asg, ver, jobLock, wk>>

(* Whether one more acceptance fills the request, the status it moves the  *)
(* job to, and the statuses the job may move there from.                   *)
LastSlot == Cardinality(Staffed) + 1 >= Requested

AcceptTarget == IF LastSlot THEN "ASSIGNED" ELSE "PARTIALLY_ASSIGNED"

AcceptFrom == {"DISPATCHING", "PARTIALLY_ASSIGNED"}
              \cup (IF LastSlot THEN {"ASSIGNED"} ELSE {})

(* Mutant of AcceptLockJob: the slots are not checked under the lock. *)
AcceptLockJobUnchecked(t) ==
    /\ tx[t].kind = "accept" /\ tx[t].at = "wantsJob"
    /\ FreeJob
    /\ job \in AcceptFrom
    /\ jobLock' = t
    /\ tx' = [tx EXCEPT ![t].at = "sweeps",
                        ![t].todo = IF LastSlot THEN Pending \ {tx[t].off} ELSE {}]
    /\ UNCHANGED <<job, asg, ver, rowLock, wk>>

(* lockJobForStaffingUpdate, the slot check, and the status transition of  *)
(* applyAcceptStaffingUpdate.  The accept that takes the last slot goes on *)
(* to cancel the excess offers, which are read here.                       *)
AcceptLockJob(t) ==
    /\ tx[t].kind = "accept" /\ tx[t].at = "wantsJob"
    /\ FreeJob
    /\ Cardinality(Staffed) < Requested
    /\ job \in AcceptFrom
    /\ jobLock' = t
    /\ tx' = [tx EXCEPT ![t].at = "sweeps",
                        ![t].todo = IF LastSlot THEN Pending \ {tx[t].off} ELSE {}]
    /\ UNCHANGED <<job, asg, ver, rowLock, wk>>

(* Mutant of AcceptRejected: an accept of a job that moved on hangs. *)
AcceptRejectedWhenFull(t) ==
    /\ tx[t].kind = "accept" /\ tx[t].at = "wantsJob"
    /\ FreeJob
    /\ Cardinality(Staffed) >= Requested
    /\ Rollback(t)

(* "All guardian slots are filled", or the transition of the job throws. *)
AcceptRejected(t) ==
    /\ tx[t].kind = "accept" /\ tx[t].at = "wantsJob"
    /\ FreeJob
    /\ Cardinality(Staffed) >= Requested \/ job \notin AcceptFrom
    /\ Rollback(t)

(* One row of a bulk UPDATE ... WHERE status = 'OFFERED': wait for its     *)
(* lock, look at it again, keep it when it is still offered.               *)
SweepRow(t, o) ==
    /\ tx[t].at = "sweeps"
    /\ o \in tx[t].todo
    /\ FreeRow(o)
    /\ tx' = [tx EXCEPT ![t].todo = @ \ {o},
                        ![t].hit = IF asg[o] = "OFFERED" THEN @ \cup {o} ELSE @]
    /\ rowLock' = IF asg[o] = "OFFERED" THEN [rowLock EXCEPT ![o] = t] ELSE rowLock
    /\ UNCHANGED <<job, asg, ver, jobLock, wk>>

(* Commit of accept: the offer is accepted, the job moves on, the excess   *)
(* offers are cancelled under a new version.                               *)
AcceptCommit(t) ==
    /\ tx[t].kind = "accept" /\ tx[t].at = "sweeps"
    /\ tx[t].todo = {}
    /\ job' = AcceptTarget
    /\ asg' = [o \in Offers |-> IF o = tx[t].off THEN "ACCEPTED"
                                ELSE IF o \in tx[t].hit THEN "CANCELLED" ELSE asg[o]]
    /\ ver' = [o \in Offers |-> IF o \in tx[t].hit \cup {tx[t].off}
                                THEN ver[o] + 1 ELSE ver[o]]
    /\ Finish(t)
    /\ UNCHANGED wk

-----------------------------------------------------------------------------
(* decline, rejectOffer and expireOffer read the assignment first and      *)
(* write it in a transaction of one optimistic update.                     *)
WithdrawRead(t, o, kind) ==
    /\ tx[t] = Idle
    /\ kind \in {"decline", "expire"}
    /\ asg[o] = "OFFERED"
    /\ tx' = [tx EXCEPT ![t] = [Idle EXCEPT !.kind = kind, !.at = "read",
                                            !.off = o, !.seenVer = ver[o]]]
    /\ UNCHANGED <<job, asg, ver, jobLock, rowLock, wk>>

(* Mutant of WithdrawCommit: the version is not compared. *)
WithdrawCommitBlindly(t) ==
    LET o == tx[t].off IN
    /\ tx[t].kind \in {"decline", "expire"}
    /\ FreeRow(o)
    /\ asg' = [asg EXCEPT ![o] = IF tx[t].kind = "decline" THEN "DECLINED" ELSE "EXPIRED"]
    /\ ver' = [ver EXCEPT ![o] = @ + 1]
    /\ Finish(t)
    /\ UNCHANGED <<job, wk>>

WithdrawCommit(t) ==
    LET o == tx[t].off IN
    /\ tx[t].kind \in {"decline", "expire"}
    /\ FreeRow(o)
    /\ ver[o] = tx[t].seenVer
    /\ asg' = [asg EXCEPT ![o] = IF tx[t].kind = "decline" THEN "DECLINED" ELSE "EXPIRED"]
    /\ ver' = [ver EXCEPT ![o] = @ + 1]
    /\ Finish(t)
    /\ UNCHANGED <<job, wk>>

(* updateOptimistic matches no row: "Assignment was modified concurrently". *)
Conflict(t) ==
    /\ tx[t].at = "read"
    /\ FreeRow(tx[t].off)
    /\ ver[tx[t].off] # tx[t].seenVer
    /\ Rollback(t)

-----------------------------------------------------------------------------
(* applyNoShow: the assignment and its job are read before the transaction. *)
NoShowRead(t, o) ==
    /\ tx[t] = Idle
    /\ asg[o] \in {"OFFERED", "ACCEPTED"}
    /\ tx' = [tx EXCEPT ![t] = [Idle EXCEPT !.kind = "noShow", !.at = "read",
                                            !.off = o, !.seenVer = ver[o],
                                            !.seenJob = job]]
    /\ UNCHANGED <<job, asg, ver, jobLock, rowLock, wk>>

NoShowLock(t) ==
    LET o == tx[t].off IN
    /\ tx[t].kind = "noShow" /\ tx[t].at = "read"
    /\ FreeRow(o)
    /\ ver[o] = tx[t].seenVer
    /\ rowLock' = [rowLock EXCEPT ![o] = t]
    /\ tx' = [tx EXCEPT ![t].at = "wantsJob"]
    /\ UNCHANGED <<job, asg, ver, jobLock, wk>>

(* applyUnfilledSlotRedispatch: what becomes of the job is decided by the  *)
(* status read before the transaction, the move itself by the status now.  *)
(* A pair of the statuses the move is allowed from and the one it ends in. *)
NoShowMove(o, seen) ==
    LET left == Staffed \ {o} IN
    CASE Cardinality(left) >= Requested ->
            IF seen = "ASSIGNED" THEN <<JobStatus, job>>
            ELSE <<{"DISPATCHING", "PARTIALLY_ASSIGNED", "ASSIGNED"}, "ASSIGNED">>
      [] Cardinality(left) < Requested /\ seen = "ASSIGNED" ->
            <<{"DISPATCHING", "PARTIALLY_ASSIGNED"}, "PARTIALLY_ASSIGNED">>
      [] Cardinality(left) < Requested /\ seen = "PARTIALLY_ASSIGNED" ->
            <<JobStatus, job>>
      [] OTHER ->
            <<{"ASSIGNED", "PARTIALLY_ASSIGNED", "DISPATCHING"}, "DISPATCHING">>

NoShowCommit(t) ==
    LET o == tx[t].off
        move == NoShowMove(o, tx[t].seenJob)
    IN
    /\ tx[t].kind = "noShow" /\ tx[t].at = "wantsJob"
    /\ FreeJob
    /\ job \in move[1] \cup {move[2]}
    /\ job' = move[2]
    /\ asg' = [asg EXCEPT ![o] = "NO_SHOW"]
    /\ ver' = [ver EXCEPT ![o] = @ + 1]
    /\ Finish(t)
    /\ UNCHANGED wk

NoShowRefused(t) ==
    LET move == NoShowMove(tx[t].off, tx[t].seenJob) IN
    /\ tx[t].kind = "noShow" /\ tx[t].at = "wantsJob"
    /\ FreeJob
    /\ job \notin move[1] \cup {move[2]}
    /\ Rollback(t)

-----------------------------------------------------------------------------
(* failJob, called when the search for guardians ends: the bulk update of  *)
(* releaseInFlightOffersForJob, which leaves the versions alone, and then  *)
(* the unconditional write of FAILED.                                      *)
FailBegin(t) ==
    /\ tx[t] = Idle
    /\ job \in {"DISPATCHING", "PARTIALLY_ASSIGNED"}
    /\ tx' = [tx EXCEPT ![t] = [Idle EXCEPT !.kind = "fail", !.at = "sweeps",
                                            !.todo = Pending]]
    /\ UNCHANGED <<job, asg, ver, jobLock, rowLock, wk>>

FailRelease(t) ==
    /\ tx[t].kind = "fail" /\ tx[t].at = "sweeps"
    /\ tx[t].todo = {}
    /\ asg' = [o \in Offers |-> IF o \in tx[t].hit THEN "CANCELLED" ELSE asg[o]]
    /\ tx' = [tx EXCEPT ![t] = [Idle EXCEPT !.kind = "fail", !.at = "wantsEnd"]]
    /\ Unlock(t)
    /\ UNCHANGED <<job, ver, wk>>

FailCommit(t) ==
    /\ tx[t].kind = "fail" /\ tx[t].at = "wantsEnd"
    /\ FreeJob
    /\ job' = "FAILED"
    /\ Finish(t)
    /\ UNCHANGED <<asg, ver, wk>>

-----------------------------------------------------------------------------
(* requestDispatch: the status is read, checked, and then overwritten      *)
(* whatever it has become.                                                 *)
RequestDispatchRead(t) ==
    /\ tx[t] = Idle
    /\ job \in {"DISPATCHING", "PARTIALLY_ASSIGNED"}
    /\ tx' = [tx EXCEPT ![t] = [Idle EXCEPT !.kind = "request", !.at = "wantsEnd"]]
    /\ UNCHANGED <<job, asg, ver, jobLock, rowLock, wk>>

RequestDispatchCommit(t) ==
    /\ tx[t].kind = "request"
    /\ FreeJob
    /\ job' = "DISPATCHING"
    /\ Finish(t)
    /\ UNCHANGED <<asg, ver, wk>>

-----------------------------------------------------------------------------
(* Mutant of DispatchRead: the round is not cut short when all are found. *)
DispatchReadUnguarded(w) ==
    /\ wk[w] = 0
    /\ job # "FAILED"
    /\ wk' = [wk EXCEPT ![w] = Requested - Cardinality(Staffed) - Cardinality(Pending)]
    /\ UNCHANGED <<job, asg, ver, jobLock, rowLock, tx>>

(* processDispatch and processParallelDispatch, up to the number of open   *)
(* slots: what remains of the request less the offers still pending.       *)
DispatchRead(w) ==
    LET open == Requested - Cardinality(Staffed) - Cardinality(Pending) IN
    /\ wk[w] = 0
    /\ job # "FAILED"
    /\ Cardinality(Staffed) + Cardinality(Pending) < Requested
    /\ wk' = [wk EXCEPT ![w] = open]
    /\ UNCHANGED <<job, asg, ver, jobLock, rowLock, tx>>

(* The inserts of createOfferInTransaction.  Their foreign key and the     *)
(* counter update wait for the job row; the slots are not counted again.   *)
(* No guardian at all (S empty) ends the round.                            *)
DispatchInsert(w, S) ==
    /\ wk[w] > 0
    /\ FreeJob
    /\ S \subseteq {o \in Offers : asg[o] = "UNSENT"}
    /\ Cardinality(S) <= Parallel
    /\ Cardinality(S) <= wk[w]
    /\ asg' = [o \in Offers |-> IF o \in S THEN "OFFERED" ELSE asg[o]]
    /\ wk' = [wk EXCEPT ![w] = 0]
    /\ UNCHANGED <<job, ver, jobLock, rowLock, tx>>

(* processDispatch finds every slot taken. *)
DispatchSettle ==
    /\ FreeJob
    /\ Cardinality(Staffed) >= Requested
    /\ job \in {"DISPATCHING", "PARTIALLY_ASSIGNED"}
    /\ job' = "ASSIGNED"
    /\ UNCHANGED <<asg, ver, jobLock, rowLock, tx, wk>>

-----------------------------------------------------------------------------
(* PostgreSQL's deadlock detector.  A session waits for the ones that hold *)
(* what it asks for next; a set of sessions that wait for one another, and *)
(* has no smaller such set in it, is a cycle, and one of its members is    *)
(* rolled back.                                                            *)
WaitsFor(t) ==
    CASE tx[t].at = "wantsJob" -> {jobLock} \ {None}
      [] tx[t].at = "sweeps" /\ tx[t].todo # {} /\ ~ \E o \in tx[t].todo : FreeRow(o) ->
            {rowLock[o] : o \in tx[t].todo}
      [] OTHER -> {}

Stuck(C) == C # {} /\ \A t \in C : WaitsFor(t) \cap C # {}

DeadlockVictim(t) ==
    /\ \E C \in SUBSET Txns :
          /\ t \in C
          /\ Stuck(C)
          /\ \A D \in SUBSET C : Stuck(D) => D = C
    /\ Rollback(t)

-----------------------------------------------------------------------------
SessionStep(t) ==
    \/ AcceptLockJob(t)
    \/ AcceptRejected(t)
    \/ \E o \in Offers : SweepRow(t, o)
    \/ AcceptCommit(t)
    \/ WithdrawCommit(t)
    \/ Conflict(t)
    \/ NoShowLock(t)
    \/ NoShowCommit(t)
    \/ NoShowRefused(t)
    \/ FailRelease(t)
    \/ FailCommit(t)
    \/ RequestDispatchCommit(t)
    \/ DeadlockVictim(t)

Request(t) ==
    \/ \E o \in Offers : AcceptBegin(t, o)
    \/ \E o \in Offers, kind \in {"decline", "expire"} : WithdrawRead(t, o, kind)
    \/ \E o \in Offers : NoShowRead(t, o)
    \/ FailBegin(t)
    \/ RequestDispatchRead(t)

Dispatch ==
    \/ \E w \in Workers : DispatchRead(w)
    \/ \E w \in Workers, S \in SUBSET Offers : DispatchInsert(w, S)
    \/ DispatchSettle

Next == \/ \E t \in Txns : SessionStep(t) \/ Request(t)
        \/ Dispatch

Spec == Init /\ [][Next]_vars

(* The database runs every statement it has admitted and grants contended  *)
(* locks in the order they were asked for; whether guardians respond, and  *)
(* whether dispatch runs, is not for it to say.                            *)
FairSpec == Spec /\ \A t \in Txns : SF_vars(SessionStep(t))
-----------------------------------------------------------------------------
TypeOK ==
    /\ job \in JobStatus
    /\ asg \in [Offers -> AsgStatus]
    /\ ver \in [Offers -> Nat]
    /\ jobLock \in Txns \cup {None}
    /\ rowLock \in [Offers -> Txns \cup {None}]
    /\ tx \in [Txns -> TxRecords]
    /\ wk \in [Workers -> 0 .. Requested]

(* However the accepts of several guardians interleave, and however many   *)
(* offers racing dispatch workers sent out, no more guardians hold the job *)
(* than were requested (slot check of accept under the job row lock).      *)
NoOverstaffing == Cardinality(Staffed) <= Requested

(* What the staffing of a job promises, whatever the locks and the order   *)
(* of the requests: slots are taken one at a time, by open offers only,    *)
(* taking the last one closes the others in the same step, and a guardian  *)
(* who holds a slot loses it by a no-show and nothing else (no late        *)
(* decline, expiry or sweep takes it back).                                *)
Pool == INSTANCE SlotPool WITH held <- Staffed, open <- Pending, absent <- Absent

ImplementsSlotPool == Pool!Spec

(* A session never waits for ever: the cycles of row and job locks that    *)
(* accepts and no-shows form are broken and what they asked for is         *)
(* answered.                                                               *)
EveryRequestAnswered == \A t \in Txns : tx[t] # Idle ~> tx[t] = Idle

(* docs/api/multi-guardian-production-review.md on no-shows of an ASSIGNED *)
(* job: it becomes PARTIALLY_ASSIGNED and is refilled.  A no-show that is  *)
(* answered without a lock conflict was recorded.                          *)
AssignedNoShowRecorded ==
    [][\A t \in Txns :
          /\ tx[t].kind = "noShow" /\ tx[t].at = "wantsJob" /\ FreeJob
          /\ tx[t].seenJob = "ASSIGNED" /\ job = "ASSIGNED"
          /\ tx'[t] = Idle
          => asg'[tx[t].off] = "NO_SHOW"]_vars

(* docs/api/multi-guardian-dispatch.md: clients poll until the status is   *)
(* ASSIGNED, which means fully staffed.  Refuted as README.md tells.       *)
AssignedMeansFullyStaffed == job = "ASSIGNED" => Cardinality(Staffed) >= Requested

(* docs/api/multi-guardian-dispatch.md: FAILED is a terminal state.        *)
(* Refuted in the same way.                                                *)
FailedIsTerminal == [][job = "FAILED" => job' = "FAILED"]_vars
=============================================================================
