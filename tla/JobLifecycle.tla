---------------------------- MODULE JobLifecycle ----------------------------
(***************************************************************************)
(* One job from its creation to its end: dispatch rounds, offers, guardians *)
(* on their way and on site, early release, replacement and handoff,       *)
(* no-shows, terminal dispatch failures, cancellation, completion and its  *)
(* draft invoice.                                                          *)
(*                                                                         *)
(* A step is one database transaction.  A handler that runs several, or    *)
(* that acts on a job it read before, is a sequence of steps of a process: *)
(* its place in the handler is op[p], and anything may happen between two  *)
(* of them.  A handler of one transaction under a version check that       *)
(* decides by its assignment alone is a single step, for nothing moved the *)
(* assignment since it was read but, perhaps, a bulk release, which leaves *)
(* the version alone; so is one that tests the job again under a lock.     *)
(* The locks inside an accept are the subject of OfferAcceptance.          *)
(*                                                                         *)
(* The assignments of the job are rows, numbered in the order of creation, *)
(* each of a guardian of its own.  Which guardians are eligible, reachable *)
(* or late is decided by the environment.                                  *)
(***************************************************************************)
EXTENDS Naturals, FiniteSets

CONSTANTS
    MaxRows,                \* bound: assignments the job may ever get
    Requested,              \* jobs.requestedGuardianCount
    Parallel,               \* URGENT_PARALLEL_OFFERS
    MaxOffers,              \* MAX_OFFERS_PER_JOB
    MaxReplacementOffers,   \* MAX_REPLACEMENT_OFFERS_PER_JOB
    MaxEvents,              \* bound: dispatch events pending at once; more are merged
    Dispatchers,            \* outbox workers, one per server process
    Clerks,                 \* request handlers and timers with several steps
    Requests,               \* which of dispatch, cancel and noShow somebody may request
    AllowsEarlyRelease,     \* billing policy of the job
    ClientApproves,         \* early release waits for the client
    MayCrash                \* whether server processes crash between steps

ASSUME BoundsPositive ==
    MaxRows \in Nat \ {0} /\ Requested \in Nat \ {0} /\ Parallel \in Nat \ {0}
    /\ MaxEvents \in Nat \ {0} /\ MaxOffers \in Nat /\ MaxReplacementOffers \in Nat
ASSUME PolicyBoolean ==
    AllowsEarlyRelease \in BOOLEAN /\ ClientApproves \in BOOLEAN /\ MayCrash \in BOOLEAN
ASSUME RolesApart == Dispatchers \cap Clerks = {}
ASSUME KnownRequests == Requests \subseteq {"dispatch", "cancel", "noShow"}

VARIABLES
    status,      \* jobs.status
    asg,         \* job_assignments.status per row; "UNSENT" before the insert
    freed,       \* what a bulk release made CANCELLED under the same versionNumber
    replaces,    \* replacesAssignmentId; 0 for an ordinary assignment
    departing,   \* jobs.replacementDepartingAssignmentId; 0 for null
    paused,      \* dispatchFailureReason is a pause reason of replacement dispatch
    deadline,    \* dispatchDeadlineAt: "none", still "ahead", or "past"
    dark,        \* unreachableSince is set
    invoice,     \* the job's invoice: "none", "DRAFT" or "ISSUED"
    events,      \* pending JOB_DISPATCH_REQUESTED events in the outbox
    op,          \* what each process is in the middle of
    uncounted    \* history: rows accepted after the count that ends the job

vars == <<status, asg, freed, replaces, departing, paused, deadline, dark, invoice, events, op,
          uncounted>>

Rows == 1 .. MaxRows
Procs == Dispatchers \cup Clerks

JobStatus == {"PENDING", "DISPATCHING", "PARTIALLY_ASSIGNED", "ASSIGNED", "IN_PROGRESS",
              "SEEKING_REPLACEMENT", "AWAITING_CONFIRMATION", "COMPLETED", "CANCELLED",
              "FAILED"}

(* EARLY_RELEASE_REQUESTED is split by its earlyReleaseResolution: _GRANTED *)
(* is the status with a resolution of APPROVED or AUTO_APPROVED.           *)
(* replacementResolution needs no variable: it is APPROVED from            *)
(* AWAITING_RELIEF on and not before.                                      *)
ActiveStatus == {"ACCEPTED", "EN_ROUTE", "ON_SITE", "EARLY_RELEASE_REQUESTED",
                 "EARLY_RELEASE_GRANTED", "REPLACEMENT_REQUESTED", "AWAITING_RELIEF"}
StaffedStatus == ActiveStatus \cup {"COMPLETED"}
ClosedStatus == {"DECLINED", "EXPIRED", "NO_SHOW", "CANCELLED"}
AsgStatus == {"UNSENT", "OFFERED"} \cup StaffedStatus \cup ClosedStatus

(* A process is at a stage, with a row it acts on, the status it read the  *)
(* row in, the job status it read, the rows it has found, and the open     *)
(* slots it has counted.                                                   *)
At(stage, r, n) == [at |-> stage, row |-> r, was |-> "UNSENT", seen |-> "PENDING",
                    rows |-> {}, open |-> n]
Idle == At("idle", 0, 0)
Stages == {"idle", "search", "insert", "substitute", "failRelease", "failWrite",
           "enqueue", "accept", "decline", "declineLast", "expire", "expired",
           "dispatchWrite", "handoff", "approve", "askSubstitute",
           "cancelOffers", "readSubstitutes", "cancelSubstitutes", "readDeparting",
           "cancelDeparting", "readActive", "cancelActive", "cancelWrite",
           "absent", "finish", "await", "draft", "invoice", "issue"}

(* The counts of job-staffing.util leave replacement assignments out. *)
Ordinary == {r \in Rows : replaces[r] = 0}
Staffed == {r \in Ordinary : asg[r] \in StaffedStatus}
Active == {r \in Ordinary : asg[r] \in ActiveStatus}
Pending == {r \in Ordinary : asg[r] = "OFFERED"}
Offered == {r \in Rows : asg[r] = "OFFERED"}
Sent == {r \in Rows : asg[r] # "UNSENT"}
Tried == {r \in Rows : asg[r] \in {"DECLINED", "EXPIRED", "CANCELLED"}}
Substitutes == {r \in Rows : replaces[r] # 0}

Searching == status \in {"PENDING", "DISPATCHING", "PARTIALLY_ASSIGNED"}
Seeking == status = "SEEKING_REPLACEMENT"

(* Mutant of Open: the count forgets the offers that are still pending. *)
OpenForgettingOffers == IF Cardinality(Staffed) >= Requested THEN 0
                        ELSE Requested - Cardinality(Staffed)

Open == IF Cardinality(Staffed) + Cardinality(Pending) >= Requested THEN 0
        ELSE Requested - Cardinality(Staffed) - Cardinality(Pending)

More(n) == IF n < MaxEvents THEN n + 1 ELSE MaxEvents

(* Rows are written under a new version, or released in bulk without one.  *)
Sets(S, s) ==
    /\ asg' = [r \in Rows |-> IF r \in S THEN s ELSE asg[r]]
    /\ freed' = [r \in Rows |-> IF r \in S THEN "UNSENT" ELSE freed[r]]
    /\ uncounted' = uncounted

Releases(S) ==
    /\ asg' = [r \in Rows |-> IF r \in S THEN "CANCELLED" ELSE asg[r]]
    /\ freed' = [r \in Rows |-> IF r \in S /\ asg[r] # "CANCELLED" THEN asg[r] ELSE freed[r]]
    /\ uncounted' = uncounted

(* A handler that read row r in one of the statuses S, and compares the    *)
(* version, may write it: it still has the status or was released since.   *)
ReadAs(r, S) == asg[r] \in S \/ (asg[r] = "CANCELLED" /\ freed[r] \in S)

Stands(p, stage) == op[p].at = stage
Goes(p, stage) == op' = [op EXCEPT ![p] = At(stage, 0, 0)]
GoesWith(p, stage, r) == op' = [op EXCEPT ![p] = At(stage, r, 0)]
ReadsJob(p, stage, r) == op' = [op EXCEPT ![p] = [At(stage, r, 0) EXCEPT !.seen = status]]
Ends(p) == op' = [op EXCEPT ![p] = Idle]

Assignments == <<asg, freed, uncounted>>
SearchData == <<deadline, dark>>
Relief == <<replaces, departing, paused>>

-----------------------------------------------------------------------------
(* JobsService.create, with and without automatic dispatch. *)
Init ==
    /\ status = "PENDING"
    /\ asg = [r \in Rows |-> "UNSENT"] /\ freed = asg /\ uncounted = {}
    /\ replaces = [r \in Rows |-> 0]
    /\ departing = 0 /\ paused = FALSE /\ dark = FALSE /\ invoice = "none"
    /\ \/ deadline = "ahead" /\ events = 1
       \/ deadline = "none" /\ events = 0
    /\ op = [p \in Procs |-> Idle]

(* The dispatch window of ten minutes runs out. *)
DeadlinePasses ==
    /\ deadline = "ahead" /\ deadline' = "past"
    /\ UNCHANGED <<status, Assignments, Relief, dark, invoice, events, op>>

(* The last statement of many handlers: an event for the outbox. *)
Enqueue(p) ==
    /\ Stands(p, "enqueue")
    /\ events' = More(events)
    /\ Ends(p)
    /\ UNCHANGED <<status, Assignments, Relief, SearchData, invoice>>

-----------------------------------------------------------------------------
(* requestDispatch: the status is read, the schedule set, and then the     *)
(* status is overwritten whatever it has become.                           *)
RequestDispatch(p) ==
    /\ "dispatch" \in Requests
    /\ Stands(p, "idle") /\ Searching
    /\ deadline' = IF deadline = "none" THEN "ahead" ELSE deadline
    /\ Goes(p, "dispatchWrite")
    /\ UNCHANGED <<status, Assignments, Relief, dark, invoice, events>>

DispatchWrite(p) ==
    /\ Stands(p, "dispatchWrite")
    /\ status' = "DISPATCHING"
    /\ Goes(p, "enqueue")
    /\ UNCHANGED <<Assignments, Relief, SearchData, invoice, events>>

(* Mutant of MustFail: partly staffed jobs are not timed out. *)
MustFailUnstaffed == status \in {"PENDING", "DISPATCHING"} /\ deadline = "past"

(* evaluateTerminalFailures.  The deadline decides; with no offer out,     *)
(* whoever is eligible may have been tried already; and an unreachable     *)
(* pool may have been so for the grace period.                             *)
MustFail == Searching /\ deadline = "past"
PoolMayBeExhausted == Offered = {} /\ Tried # {}
MayFail == Searching /\ (deadline = "past" \/ PoolMayBeExhausted \/ dark)

(* The two scans of JobStatusReconciliationService that fail jobs. *)
ScanFails(p) ==
    /\ Stands(p, "idle")
    /\ \/ MustFail
       \/ status \in {"PENDING", "DISPATCHING"} /\ PoolMayBeExhausted
    /\ Goes(p, "failRelease")
    /\ UNCHANGED <<status, Assignments, Relief, SearchData, invoice, events>>

(* failJob: release the offers in flight, then write FAILED. *)
FailRelease(p) ==
    /\ Stands(p, "failRelease")
    /\ Releases(Offered)
    /\ Goes(p, "failWrite")
    /\ UNCHANGED <<status, Relief, SearchData, invoice, events>>

FailWrite(p) ==
    /\ Stands(p, "failWrite")
    /\ status' = "FAILED" /\ paused' = FALSE
    /\ Ends(p)
    /\ UNCHANGED <<Assignments, replaces, departing, SearchData, invoice, events>>

-----------------------------------------------------------------------------
(* Mutant of Take: a worker that handles an event twice. *)
TakeUnclaimed(p) == Stands(p, "idle") /\ events' = events - 1

(* processDispatch, the consumer of the events: one action per way out of  *)
(* it.  An event whose handler throws is marked failed and never claimed   *)
(* again, so taking it is the end of it either way.                        *)
Take(p) == Stands(p, "idle") /\ events > 0 /\ events' = events - 1

FullyStaffed == Cardinality(Staffed) >= Requested

TakeForNothing(p) ==
    /\ Take(p)
    /\ \/ status \in {"CANCELLED", "COMPLETED", "AWAITING_CONFIRMATION", "FAILED"}
       \/ FullyStaffed /\ status \in {"ASSIGNED", "IN_PROGRESS"}
       \/ Seeking /\ paused
    /\ UNCHANGED <<status, Assignments, Relief, SearchData, invoice, op>>

TakeSettles(p) ==
    /\ Take(p) /\ Searching /\ FullyStaffed
    /\ status' = "ASSIGNED"
    /\ UNCHANGED <<Assignments, Relief, SearchData, invoice, op>>

Unfilled == ~FullyStaffed /\ (Searching \/ status \in {"ASSIGNED", "IN_PROGRESS"})

TakeSearches(p) ==
    /\ Take(p) /\ Unfilled /\ ~MustFail
    /\ Cardinality(Sent) < MaxOffers
    /\ deadline' = IF deadline = "none" THEN "ahead" ELSE deadline
    /\ Goes(p, "search")
    /\ UNCHANGED <<status, Assignments, Relief, dark, invoice>>

TakeFails(p) ==
    /\ Take(p) /\ Unfilled
    /\ \/ MayFail
       \/ Cardinality(Sent) >= MaxOffers
    /\ deadline' = IF deadline = "none" THEN "ahead" ELSE deadline
    /\ Goes(p, "failRelease")
    /\ UNCHANGED <<status, Assignments, Relief, dark, invoice>>

LimitReached == deadline = "past" \/ Cardinality(Substitutes) >= MaxReplacementOffers

TakePauses(p) ==
    /\ Take(p) /\ Seeking /\ ~paused /\ LimitReached
    /\ paused' = TRUE
    /\ UNCHANGED <<status, Assignments, replaces, departing, SearchData, invoice, op>>

(* The departing assignment is the one of the job as read here. *)
TakeSeeks(p) ==
    /\ Take(p) /\ Seeking /\ ~paused /\ ~LimitReached
    /\ GoesWith(p, "substitute", departing)
    /\ UNCHANGED <<status, Assignments, Relief, SearchData, invoice>>

-----------------------------------------------------------------------------
(* processParallelDispatch: the open slots are counted, then guardians are *)
(* picked and offers inserted, with no lock on the job in between.         *)
CountOpenSlots(p) ==
    /\ Stands(p, "search")
    /\ IF Open = 0 THEN Ends(p)
       ELSE op' = [op EXCEPT ![p] = At("insert", 0, Open)]
    /\ UNCHANGED <<status, Assignments, Relief, SearchData, invoice, events>>

(* n new rows get the next numbers, and say whom they replace. *)
Insert(n, d) ==
    LET first == Cardinality(Sent) IN
    /\ first + n <= MaxRows
    /\ Sets(first + 1 .. first + n, "OFFERED")
    /\ replaces' = [r \in Rows |-> IF r \in first + 1 .. first + n THEN d ELSE replaces[r]]

SendOffers(p) ==
    /\ Stands(p, "insert")
    /\ \E n \in 1 .. op[p].open : n <= Parallel /\ Insert(n, 0)
    /\ dark' = FALSE
    /\ Ends(p)
    /\ UNCHANGED <<status, departing, paused, deadline, invoice, events>>

(* Nobody to send an offer to: handleDispatchFailure fails the job or asks *)
(* for another round.                                                      *)
NobodyToAsk(p) ==
    /\ Stands(p, "insert")
    /\ dark' \in {dark, TRUE}
    /\ \/ MayFail /\ Goes(p, "failRelease")
       \/ ~MustFail /\ Goes(p, "enqueue")
    /\ UNCHANGED <<status, Assignments, Relief, deadline, invoice, events>>

OfferSubstitution(p) ==
    /\ Stands(p, "substitute")
    /\ Insert(1, op[p].row)
    /\ dark' = FALSE
    /\ Ends(p)
    /\ UNCHANGED <<status, departing, paused, deadline, invoice, events>>

(* handleReplacementDispatchFailure. *)
NobodyToSubstitute(p) ==
    /\ Stands(p, "substitute")
    /\ dark' \in {dark, TRUE}
    /\ paused' = (paused \/ (Seeking /\ LimitReached))
    /\ IF Seeking /\ (paused \/ LimitReached) THEN Ends(p) ELSE Goes(p, "enqueue")
    /\ UNCHANGED <<status, Assignments, replaces, departing, deadline, invoice, events>>

-----------------------------------------------------------------------------
(* accept, when the job is not seeking a replacement: the slot check, the  *)
(* status transition and the release of excess offers, under the job lock. *)
TakenBy(r) == Cardinality(Staffed \cup ({r} \cap Ordinary))

CanAccept(r) ==
    /\ asg[r] = "OFFERED" /\ ~Seeking
    /\ Cardinality(Staffed) < Requested
    /\ Searching \/ (status = "ASSIGNED" /\ TakenBy(r) >= Requested)

AcceptSlot(p, r) ==
    LET full == TakenBy(r) >= Requested
        excess == IF full THEN Pending \ {r} ELSE {}
    IN
    /\ Stands(p, "idle") /\ CanAccept(r)
    /\ status' = IF full THEN "ASSIGNED" ELSE "PARTIALLY_ASSIGNED"
    /\ asg' = [s \in Rows |-> IF s = r THEN "ACCEPTED"
                             ELSE IF s \in excess THEN "CANCELLED" ELSE asg[s]]
    /\ IF ~full /\ TakenBy(r) + Cardinality(Pending \ {r}) < Requested
       THEN Goes(p, "enqueue") ELSE UNCHANGED op
    /\ UNCHANGED <<freed, uncounted, Relief, SearchData, invoice, events>>

(* accept, when it is: the row is locked and the job read, but not locked. *)
(* Neither a slot check nor a transition of the job follows, for ordinary  *)
(* offers as for substitutes, whatever the job has become by the commit.   *)
AcceptRead(p, r) ==
    /\ Stands(p, "idle")
    /\ asg[r] = "OFFERED" /\ Seeking
    /\ ReadsJob(p, "accept", r)
    /\ UNCHANGED <<status, Assignments, Relief, SearchData, invoice, events>>

(* The last completion has counted already who is at work on the job.      *)
AlreadyCounted ==
    \/ \E p \in Procs : op[p].at = "await"
    \/ status \in {"AWAITING_CONFIRMATION", "COMPLETED"}

AcceptCommit(p) ==
    LET r == op[p].row IN
    /\ Stands(p, "accept") /\ asg[r] = "OFFERED"
    /\ asg' = [asg EXCEPT ![r] = "ACCEPTED"]
    /\ uncounted' = IF AlreadyCounted THEN uncounted \cup {r} ELSE uncounted
    /\ Ends(p)
    /\ UNCHANGED <<status, freed, Relief, SearchData, invoice, events>>

(* Mutant of AsksAgain: only a refused substitution has another round. *)
AsksAgainForSubstitute == Seeking /\ ~paused

(* Whether a declined offer has another round follow it. *)
AsksAgain == ~(Seeking /\ paused)

(* decline and rejectOffer: the job read with the offer, before the        *)
(* transaction, decides whether another round is asked for.                *)
DeclineRead(p, r) ==
    /\ Stands(p, "idle")
    /\ asg[r] = "OFFERED"
    /\ ReadsJob(p, IF AsksAgain THEN "decline" ELSE "declineLast", r)
    /\ UNCHANGED <<status, Assignments, Relief, SearchData, invoice, events>>

DeclineCommit(p) ==
    /\ \/ Stands(p, "decline") /\ Goes(p, "enqueue")
       \/ Stands(p, "declineLast") /\ Ends(p)
    /\ ReadAs(op[p].row, {"OFFERED"})
    /\ Sets({op[p].row}, "DECLINED")
    /\ UNCHANGED <<status, Relief, SearchData, invoice, events>>

(* expireOffer, and its second look at the job. *)
ExpireRead(p, r) ==
    /\ Stands(p, "idle")
    /\ asg[r] = "OFFERED" /\ status \notin {"CANCELLED", "COMPLETED", "AWAITING_CONFIRMATION"}
    /\ GoesWith(p, "expire", r)
    /\ UNCHANGED <<status, Assignments, Relief, SearchData, invoice, events>>

ExpireCommit(p) ==
    /\ Stands(p, "expire") /\ ReadAs(op[p].row, {"OFFERED"})
    /\ Sets({op[p].row}, "EXPIRED")
    /\ Goes(p, "expired")
    /\ UNCHANGED <<status, Relief, SearchData, invoice, events>>

(* The offer was answered since it was read, or released under the lock of *)
(* an accept.                                                              *)
OfferRefused(p) ==
    /\ \/ Stands(p, "accept") /\ asg[op[p].row] # "OFFERED"
       \/ op[p].at \in {"decline", "declineLast", "expire"} /\ ~ReadAs(op[p].row, {"OFFERED"})
    /\ Ends(p)
    /\ UNCHANGED <<status, Assignments, Relief, SearchData, invoice, events>>

AfterExpiry(p) ==
    /\ Stands(p, "expired")
    /\ \/ MayFail /\ Goes(p, "failRelease")
       \/ Searching /\ ~MustFail /\ Goes(p, "enqueue")
       \/ Seeking /\ ~paused /\ Goes(p, "enqueue")
       \/ ~Searching /\ ~(Seeking /\ ~paused) /\ Ends(p)
    /\ UNCHANGED <<status, Assignments, Relief, SearchData, invoice, events>>

(* Mutant of AbsentStatus: a guardian on site may be marked absent. *)
AbsentStatusWithOnSite == {"OFFERED", "ACCEPTED", "EN_ROUTE", "ON_SITE"}

(* NO_SHOW_ALLOWED_FROM_STATUSES. *)
AbsentStatus == {"OFFERED", "ACCEPTED", "EN_ROUTE"}

(* applyNoShow reads the assignment and its job ... *)
NoShowRead(p, r) ==
    /\ "noShow" \in Requests
    /\ Stands(p, "idle")
    /\ asg[r] \in AbsentStatus
    /\ op' = [op EXCEPT ![p] = [At("absent", r, 0) EXCEPT !.was = asg[r], !.seen = status]]
    /\ UNCHANGED <<status, Assignments, Relief, SearchData, invoice, events>>

(* ... and applyUnfilledSlotRedispatch decides by the job as it was read   *)
(* what becomes of it, but moves it from the status it has by now.         *)
FilledWithout(r) == Cardinality(Staffed \ {r}) >= Requested

JobStays(seen, filled) ==
    \/ seen \in {"SEEKING_REPLACEMENT", "IN_PROGRESS"}
    \/ filled /\ seen = "ASSIGNED"
    \/ ~filled /\ seen = "PARTIALLY_ASSIGNED"

MovesTo(seen, filled) ==
    IF filled THEN "ASSIGNED"
    ELSE IF seen = "ASSIGNED" THEN "PARTIALLY_ASSIGNED" ELSE "DISPATCHING"

MovesFrom(target) ==
    CASE target = "ASSIGNED" -> {"PENDING", "DISPATCHING", "PARTIALLY_ASSIGNED", "ASSIGNED"}
      [] target = "PARTIALLY_ASSIGNED" -> {"PENDING", "DISPATCHING", "PARTIALLY_ASSIGNED"}
      [] target = "DISPATCHING" -> {"ASSIGNED", "PARTIALLY_ASSIGNED", "IN_PROGRESS", "DISPATCHING"}

NoShowFits(p) ==
    LET filled == FilledWithout(op[p].row) IN
    /\ ReadAs(op[p].row, {op[p].was})
    /\ JobStays(op[p].seen, filled) \/ status \in MovesFrom(MovesTo(op[p].seen, filled))

NoShowCommit(p) ==
    LET filled == FilledWithout(op[p].row)
        target == IF JobStays(op[p].seen, filled) THEN status ELSE MovesTo(op[p].seen, filled)
        again == target = "DISPATCHING" /\ ~JobStays(op[p].seen, filled)
    IN
    /\ Stands(p, "absent") /\ NoShowFits(p)
    /\ Sets({op[p].row}, "NO_SHOW")
    /\ status' = target
    /\ events' = IF filled \/ op[p].seen = "SEEKING_REPLACEMENT" THEN events ELSE More(events)
    /\ IF again THEN deadline' = "ahead" /\ dark' = FALSE /\ paused' = FALSE
       ELSE UNCHANGED <<deadline, dark, paused>>
    /\ Ends(p)
    /\ UNCHANGED <<replaces, departing, invoice>>

(* The version has changed, or the transition of the job throws. *)
NoShowRefused(p) ==
    /\ Stands(p, "absent") /\ ~NoShowFits(p)
    /\ Ends(p)
    /\ UNCHANGED <<status, Assignments, Relief, SearchData, invoice, events>>

-----------------------------------------------------------------------------
EnRoute(r) ==
    /\ ReadAs(r, {"ACCEPTED"})
    /\ Sets({r}, "EN_ROUTE")
    /\ UNCHANGED <<status, Relief, SearchData, invoice, events, op>>

Arrives(r) ==
    /\ ReadAs(r, {"EN_ROUTE"})
    /\ ~(replaces[r] # 0 /\ Seeking)
    /\ status \in {"ASSIGNED", "PARTIALLY_ASSIGNED", "IN_PROGRESS"}
    /\ status' = "IN_PROGRESS"
    /\ Sets({r}, "ON_SITE")
    /\ UNCHANGED <<Relief, SearchData, invoice, events, op>>

(* executeReplacementHandoff: the substitute's arrival relieves the one it *)
(* replaces and ends the search.  Rows and job are read first; the rows    *)
(* are written by their versions, and the transition of the job does       *)
(* nothing when another handoff has brought it back to IN_PROGRESS.        *)
HandoffRead(p, r) ==
    /\ Stands(p, "idle")
    /\ asg[r] = "EN_ROUTE" /\ Seeking
    /\ replaces[r] # 0 /\ asg[replaces[r]] = "AWAITING_RELIEF"
    /\ GoesWith(p, "handoff", r)
    /\ UNCHANGED <<status, Assignments, Relief, SearchData, invoice, events>>

HandoffFits(p) ==
    /\ ReadAs(op[p].row, {"EN_ROUTE"}) /\ ReadAs(replaces[op[p].row], {"AWAITING_RELIEF"})
    /\ status \in {"SEEKING_REPLACEMENT", "IN_PROGRESS"}

HandoffCommit(p) ==
    LET r == op[p].row
        original == replaces[r]
    IN
    /\ Stands(p, "handoff") /\ HandoffFits(p)
    /\ asg' = [asg EXCEPT ![original] = "COMPLETED", ![r] = "ON_SITE"]
    /\ freed' = [freed EXCEPT ![original] = "UNSENT", ![r] = "UNSENT"]
    /\ status' = "IN_PROGRESS" /\ departing' = 0 /\ paused' = FALSE
    /\ Ends(p)
    /\ UNCHANGED <<uncounted, replaces, SearchData, invoice, events>>

HandoffRefused(p) ==
    /\ Stands(p, "handoff") /\ ~HandoffFits(p)
    /\ Ends(p)
    /\ UNCHANGED <<status, Assignments, Relief, SearchData, invoice, events>>

RequestEarlyRelease(r) ==
    /\ AllowsEarlyRelease /\ ReadAs(r, {"ON_SITE"})
    /\ Sets({r}, IF ClientApproves THEN "EARLY_RELEASE_REQUESTED" ELSE "EARLY_RELEASE_GRANTED")
    /\ UNCHANGED <<status, Relief, SearchData, invoice, events, op>>

(* approveEarlyRelease and autoApproveEarlyRelease; rejectEarlyRelease. *)
ResolveEarlyRelease(r) ==
    /\ \/ asg[r] = "EARLY_RELEASE_REQUESTED" /\ Sets({r}, "EARLY_RELEASE_GRANTED")
       \/ /\ ReadAs(r, {"EARLY_RELEASE_REQUESTED", "EARLY_RELEASE_GRANTED"})
          /\ Sets({r}, "ON_SITE")
    /\ UNCHANGED <<status, Relief, SearchData, invoice, events, op>>

-----------------------------------------------------------------------------
(* requestReplacement and denyReplacement.  The job is read with the row,  *)
(* and no other step tells the request from its row as it was before.      *)
RequestReplacement(r) ==
    /\ ReadAs(r, {"ON_SITE"})
    /\ asg[r] = "ON_SITE" => status = "IN_PROGRESS"
    /\ Sets({r}, "REPLACEMENT_REQUESTED")
    /\ UNCHANGED <<status, Relief, SearchData, invoice, events, op>>

DenyReplacement(r) ==
    /\ ReadAs(r, {"REPLACEMENT_REQUESTED"})
    /\ Sets({r}, "ON_SITE")
    /\ UNCHANGED <<status, Relief, SearchData, invoice, events, op>>

(* approveReplacement: the job is checked when it is read, the row by its  *)
(* version when it is written, and the transition of the job does nothing  *)
(* when it is seeking already.                                             *)
ApproveRead(p, r) ==
    /\ Stands(p, "idle")
    /\ asg[r] = "REPLACEMENT_REQUESTED" /\ status = "IN_PROGRESS"
    /\ GoesWith(p, "approve", r)
    /\ UNCHANGED <<status, Assignments, Relief, SearchData, invoice, events>>

ApproveCommit(p) ==
    LET r == op[p].row IN
    /\ Stands(p, "approve")
    /\ ReadAs(r, {"REPLACEMENT_REQUESTED"})
    /\ status \in {"IN_PROGRESS", "SEEKING_REPLACEMENT"}
    /\ Sets({r}, "AWAITING_RELIEF")
    /\ status' = "SEEKING_REPLACEMENT" /\ departing' = r /\ paused' = FALSE
    /\ deadline' = "ahead" /\ dark' = FALSE
    /\ Goes(p, "askSubstitute")
    /\ UNCHANGED <<replaces, invoice, events>>

ApproveRefused(p) ==
    /\ Stands(p, "approve")
    /\ \/ ~ReadAs(op[p].row, {"REPLACEMENT_REQUESTED"})
       \/ status \notin {"IN_PROGRESS", "SEEKING_REPLACEMENT"}
    /\ Ends(p)
    /\ UNCHANGED <<status, Assignments, Relief, SearchData, invoice, events>>

(* requestReplacementDispatch. *)
AskSubstitute(p) ==
    /\ Stands(p, "askSubstitute")
    /\ events' = IF Seeking THEN More(events) ELSE events
    /\ Ends(p)
    /\ UNCHANGED <<status, Assignments, Relief, SearchData, invoice>>

ResumeReplacement(p) ==
    /\ Stands(p, "idle") /\ Seeking
    /\ departing # 0 /\ asg[departing] = "AWAITING_RELIEF"
    /\ paused' = FALSE /\ deadline' = "ahead" /\ dark' = FALSE
    /\ Goes(p, "askSubstitute")
    /\ UNCHANGED <<status, Assignments, replaces, departing, invoice, events>>

-----------------------------------------------------------------------------
(* Mutant of CompletableStatus: who waits for relief may leave as well. *)
CompletableWithRelief == {"ON_SITE", "EARLY_RELEASE_GRANTED", "AWAITING_RELIEF"}

CompletableStatus == {"ON_SITE", "EARLY_RELEASE_GRANTED"}

(* complete: the assignment, then the job, then the draft invoice. *)
Complete(p, r) ==
    /\ Stands(p, "idle")
    /\ ReadAs(r, CompletableStatus)
    /\ Sets({r}, "COMPLETED")
    /\ Goes(p, "finish")
    /\ UNCHANGED <<status, Relief, SearchData, invoice, events>>

(* Mutant of CountActive: guardians released early are taken for gone. *)
CountOnSite(p) ==
    /\ Stands(p, "finish")
    /\ Goes(p, IF \E r \in Active : asg[r] = "ON_SITE" THEN "draft" ELSE "await")
    /\ UNCHANGED <<status, Assignments, Relief, SearchData, invoice, events>>

(* completeFromAssignment counts without a lock and then moves the job; a  *)
(* job that cannot be moved makes it throw.                                *)
CountActive(p) ==
    /\ Stands(p, "finish")
    /\ Goes(p, IF Active = {} THEN "await" ELSE "draft")
    /\ UNCHANGED <<status, Assignments, Relief, SearchData, invoice, events>>

CanAwait == status \in {"PARTIALLY_ASSIGNED", "ASSIGNED", "IN_PROGRESS", "AWAITING_CONFIRMATION"}

CompleteFromAssignment(p) ==
    /\ Stands(p, "await")
    /\ status' = IF CanAwait THEN "AWAITING_CONFIRMATION" ELSE status
    /\ IF CanAwait THEN Goes(p, "draft") ELSE Ends(p)
    /\ UNCHANGED <<Assignments, Relief, SearchData, invoice, events>>

(* The job is read again to see whether it is time for the invoice. *)
ReadAfter(p) ==
    /\ Stands(p, "draft")
    /\ IF status = "AWAITING_CONFIRMATION" THEN Goes(p, "invoice") ELSE Ends(p)
    /\ UNCHANGED <<status, Assignments, Relief, SearchData, invoice, events>>

DraftInvoice(p) ==
    /\ Stands(p, "invoice")
    /\ invoice' = IF invoice = "none" THEN "DRAFT" ELSE invoice
    /\ Ends(p)
    /\ UNCHANGED <<status, Assignments, Relief, SearchData, events>>

(* completeJob and processAutoConfirm, which waits for the invoice. *)
ConfirmBilling(p) ==
    /\ Stands(p, "idle")
    /\ status \in {"AWAITING_CONFIRMATION", "COMPLETED"}
    /\ status' = "COMPLETED"
    /\ Goes(p, "issue")
    /\ UNCHANGED <<Assignments, Relief, SearchData, invoice, events>>

IssueInvoice(p) ==
    /\ Stands(p, "issue")
    /\ invoice' = IF invoice = "DRAFT" THEN "ISSUED" ELSE invoice
    /\ Ends(p)
    /\ UNCHANGED <<status, Assignments, Relief, SearchData, events>>

-----------------------------------------------------------------------------
(* cancel: checked once; then the offers are released, and the             *)
(* substitutes, the departing guardian and the active ones each read and   *)
(* then released, whatever has become of them; then the status is written. *)
Cancel(p) ==
    /\ "cancel" \in Requests
    /\ Stands(p, "idle")
    /\ status \notin {"COMPLETED", "CANCELLED", "AWAITING_CONFIRMATION"}
    /\ Goes(p, "cancelOffers")
    /\ UNCHANGED <<status, Assignments, Relief, SearchData, invoice, events>>

CancelRead(p) ==
    /\ \E step \in {<<"readSubstitutes", "cancelSubstitutes",
                     {r \in Substitutes : asg[r] \in {"ACCEPTED", "EN_ROUTE"}}>>,
                   <<"readDeparting", "cancelDeparting",
                     {r \in Rows : r = departing /\ asg[r] = "AWAITING_RELIEF"}>>,
                   <<"readActive", "cancelActive",
                     {r \in Active : asg[r] # "AWAITING_RELIEF"}>>} :
          /\ Stands(p, step[1])
          /\ op' = [op EXCEPT ![p] = [At(step[2], 0, 0) EXCEPT !.rows = step[3]]]
    /\ UNCHANGED <<status, Assignments, Relief, SearchData, invoice, events>>

CancelRelease(p) ==
    /\ \/ Stands(p, "cancelOffers") /\ Releases(Offered) /\ Goes(p, "readSubstitutes")
       \/ Stands(p, "cancelSubstitutes") /\ Releases(op[p].rows) /\ Goes(p, "readDeparting")
       \/ Stands(p, "cancelDeparting") /\ Releases(op[p].rows) /\ Goes(p, "readActive")
       \/ Stands(p, "cancelActive") /\ Releases(op[p].rows) /\ Goes(p, "cancelWrite")
    /\ UNCHANGED <<status, Relief, SearchData, invoice, events>>

CancelWrite(p) ==
    /\ Stands(p, "cancelWrite")
    /\ status' = "CANCELLED"
    /\ Ends(p)
    /\ UNCHANGED <<Assignments, Relief, SearchData, invoice, events>>

-----------------------------------------------------------------------------
(* A server process dies, or a statement throws, between two steps. *)
Crash(p) ==
    /\ MayCrash /\ op[p] # Idle
    /\ Ends(p)
    /\ UNCHANGED <<status, Assignments, Relief, SearchData, invoice, events>>

(* What a process does next once it has begun. *)
Continue(p) ==
    \/ Enqueue(p) \/ DispatchWrite(p) \/ FailRelease(p) \/ FailWrite(p)
    \/ CountOpenSlots(p) \/ SendOffers(p) \/ NobodyToAsk(p)
    \/ OfferSubstitution(p) \/ NobodyToSubstitute(p)
    \/ AcceptCommit(p) \/ DeclineCommit(p) \/ ExpireCommit(p) \/ OfferRefused(p)
    \/ AfterExpiry(p) \/ HandoffCommit(p) \/ HandoffRefused(p)
    \/ ApproveCommit(p) \/ ApproveRefused(p) \/ AskSubstitute(p)
    \/ CountActive(p) \/ CompleteFromAssignment(p)
    \/ ReadAfter(p) \/ DraftInvoice(p) \/ IssueInvoice(p)
    \/ NoShowCommit(p) \/ NoShowRefused(p)
    \/ CancelRead(p) \/ CancelRelease(p) \/ CancelWrite(p)

TakeEvent(p) ==
    \/ TakeForNothing(p) \/ TakeSettles(p) \/ TakeSearches(p) \/ TakeFails(p)
    \/ TakePauses(p) \/ TakeSeeks(p)

(* What guardians, clients, operators and timers may ask for. *)
Ask(p) ==
    \/ RequestDispatch(p) \/ ScanFails(p) \/ ResumeReplacement(p)
    \/ ConfirmBilling(p) \/ Cancel(p)
    \/ \E r \in Rows :
          \/ AcceptSlot(p, r) \/ AcceptRead(p, r) \/ DeclineRead(p, r) \/ ExpireRead(p, r)
          \/ NoShowRead(p, r) \/ HandoffRead(p, r) \/ ApproveRead(p, r) \/ Complete(p, r)

AskAtOnce(r) ==
    \/ EnRoute(r) \/ Arrives(r)
    \/ RequestEarlyRelease(r) \/ ResolveEarlyRelease(r)
    \/ RequestReplacement(r) \/ DenyReplacement(r)

Next ==
    \/ DeadlinePasses
    \/ \E p \in Procs : Continue(p) \/ Crash(p)
    \/ \E p \in Dispatchers : TakeEvent(p)
    \/ \E p \in Clerks : Ask(p)
    \/ \E r \in Rows : AskAtOnce(r)

Spec == Init /\ [][Next]_vars

(* Node runs what a handler has begun; the outbox worker polls; the scan   *)
(* of JobStatusReconciliationService comes round again and again, however  *)
(* busy its process is; time passes.  Nobody else has to do anything.      *)
FairSpec ==
    /\ Spec
    /\ WF_vars(DeadlinePasses)
    /\ \A p \in Procs : WF_vars(Continue(p))
    /\ \A p \in Dispatchers : SF_vars(TakeEvent(p))
    /\ \A p \in Clerks : SF_vars(ScanFails(p))

-----------------------------------------------------------------------------
(* The type invariant. *)
TypeOK ==
    /\ status \in JobStatus
    /\ asg \in [Rows -> AsgStatus] /\ freed \in [Rows -> AsgStatus]
    /\ replaces \in [Rows -> 0 .. MaxRows]
    /\ departing \in 0 .. MaxRows
    /\ paused \in BOOLEAN /\ dark \in BOOLEAN
    /\ deadline \in {"none", "ahead", "past"}
    /\ invoice \in {"none", "DRAFT", "ISSUED"}
    /\ events \in 0 .. MaxEvents
    /\ op \in [Procs -> [at : Stages, row : 0 .. MaxRows, was : AsgStatus, seen : JobStatus,
                         rows : SUBSET Rows, open : 0 .. Requested]]
    /\ uncounted \subseteq 0 .. MaxRows

Doing(stages) == \E p \in Procs : op[p].at \in stages
CancelStages == {"cancelOffers", "readSubstitutes", "cancelSubstitutes", "readDeparting",
                 "cancelDeparting", "readActive", "cancelActive", "cancelWrite"}

SearchStages == {"search", "insert", "failRelease", "failWrite", "enqueue", "expired",
                 "dispatchWrite"}

(* A single dispatcher never has more ordinary offers out than slots are   *)
(* open, whatever is accepted, declined, expired, marked absent or         *)
(* approved between its count of the slots and its insert.                 *)
SlotBudget == Cardinality(Staffed) + Cardinality(Pending) <= Requested

(* So with one dispatcher the whole life of a job, with its replacements,  *)
(* refills and failures, implements the pool of slots that accepts under   *)
(* locks implement: whoever takes a slot finds one free, the last one      *)
(* closes all other offers, and only a no-show gives one back.             *)
Pool == INSTANCE SlotPool WITH
            Offers <- Rows, held <- Staffed, open <- Pending,
            absent <- {r \in Ordinary : asg[r] = "NO_SHOW"}

ImplementsSlotPool == Pool!Spec

(* While a job seeks a replacement, the guardian to be replaced waits on   *)
(* site and the job knows which one it is; only a cancellation under way   *)
(* may already have let that guardian go.                                  *)
SeekingHasDeparting ==
    Seeking /\ ~Doing(CancelStages) => departing # 0 /\ asg[departing] = "AWAITING_RELIEF"

(* A dispatched job that lacks guardians is forgotten when no offer is out *)
(* whose answer will bring another round, no event is waiting in the       *)
(* outbox, and no handler is on its way to enqueue one or to fail or       *)
(* cancel the job.                                                         *)
Stalled ==
    /\ status \in {"DISPATCHING", "PARTIALLY_ASSIGNED"} /\ ~FullyStaffed
    /\ Pending = {} /\ events = 0 /\ ~Doing(SearchStages \cup CancelStages)

(* Of everything that handlers, guardians, clients and timers do, only two *)
(* things bring a job there: a crash that takes a handler with it, and the *)
(* commit of an accept, a decline or a no-show by a handler that read the  *)
(* job while it sought a replacement: it asks for no further round,        *)
(* whatever the job is doing by then.                                      *)
SearchNeverStalls ==
    [][~Stalled /\ Stalled'
           => \E p \in Procs :
                 \/ Crash(p)
                 \/ /\ AcceptCommit(p) \/ DeclineCommit(p) \/ NoShowCommit(p)
                    /\ op[p].seen = "SEEKING_REPLACEMENT"]_vars

(* When a job waits for the client's confirmation, or has it, none of its  *)
(* ordinary guardians is still at work, but whoever accepted too late:     *)
(* an accept that read the job while it sought a replacement may commit    *)
(* when the last completion has counted, and nothing stops it.             *)
OrdinaryDoneAtConfirmation ==
    status \in {"AWAITING_CONFIRMATION", "COMPLETED"} => Active \subseteq uncounted

(* ALLOWED_ASSIGNMENT_TRANSITIONS of assignment-transitions.ts. *)
AllowedNext(s) ==
    CASE s = "UNSENT" -> {"OFFERED"}
      [] s = "OFFERED" -> {"ACCEPTED", "DECLINED", "EXPIRED", "CANCELLED"}
      [] s = "ACCEPTED" -> {"EN_ROUTE", "NO_SHOW", "CANCELLED"}
      [] s = "EN_ROUTE" -> {"ON_SITE", "NO_SHOW", "CANCELLED"}
      [] s = "ON_SITE" -> {"COMPLETED", "EARLY_RELEASE_REQUESTED", "EARLY_RELEASE_GRANTED",
                           "REPLACEMENT_REQUESTED", "CANCELLED"}
      [] s = "EARLY_RELEASE_REQUESTED" -> {"EARLY_RELEASE_GRANTED", "ON_SITE", "CANCELLED"}
      [] s = "EARLY_RELEASE_GRANTED" -> {"COMPLETED", "ON_SITE", "CANCELLED"}
      [] s = "REPLACEMENT_REQUESTED" -> {"ON_SITE", "AWAITING_RELIEF", "CANCELLED"}
      [] s = "AWAITING_RELIEF" -> {"COMPLETED", "CANCELLED"}
      [] OTHER -> {}

(* The no-show of an offer nobody answered, which applyNoShow admits and   *)
(* the table does not know.                                                *)
OfferMarkedAbsent(r) ==
    \E p \in Procs : NoShowCommit(p) /\ op[p].row = r /\ op[p].was = "OFFERED"

(* No step takes an assignment where the transition table does not allow,  *)
(* though most of the writes do not consult the table: not the bulk        *)
(* releases, the handoff or an approval of a request read earlier.  There  *)
(* are two exceptions.  An assignment released in bulk may still be moved  *)
(* by a handler that read it before, but only where the table allows from  *)
(* the status it was released from; and applyNoShow, whose own list of     *)
(* statuses contradicts the table, marks offers NO_SHOW.                   *)
AllowedStep(r) ==
    asg'[r] # asg[r] => \/ asg'[r] \in AllowedNext(asg[r])
                        \/ asg[r] = "CANCELLED" /\ asg'[r] \in AllowedNext(freed[r])
                        \/ OfferMarkedAbsent(r)

AssignmentsMoveAsAllowed == [][\A r \in Rows : AllowedStep(r)]_vars

(* The search for guardians comes to an end, even if processes crash in    *)
(* the middle of their handlers and events are lost with them: once they   *)
(* no longer do, the deadline passes and the scan fails the job, if        *)
(* nothing else happened before.                                           *)
CrashesCease == <>[][\A p \in Procs : ~Crash(p)]_vars
SearchEnds == CrashesCease => (Searching /\ deadline # "none" ~> ~Searching)

-----------------------------------------------------------------------------
(* What the documents say and the code does not keep: TLC refutes each     *)
(* with the constants that README.md gives for it.                         *)

(* multi-guardian-production-review.md, "Why overstaffing cannot occur":   *)
(* never more guardians on a job than it asked for.                        *)
NoOverstaffing == Cardinality(Staffed) <= Requested

(* The same document on completion: a job awaits confirmation only when    *)
(* nobody is at work on it, substitutes and late accepts included.         *)
AllDoneAtConfirmation ==
    status = "AWAITING_CONFIRMATION" => \A r \in Rows : asg[r] \notin ActiveStatus

(* The same document on no-shows: a job in progress is refilled, so the    *)
(* offers sent for its open slots can be accepted.                         *)
RefillCanBeTaken ==
    \A r \in Pending : status = "IN_PROGRESS" /\ ~FullyStaffed => CanAccept(r)

(* job-dispatch-frontend.md on FAILED: no guardian accepted in time.       *)
FailedJobHasNobody == status = "FAILED" => Active = {}

(* replacement.md on the replacement SLA: the search for a substitute goes *)
(* on until it is paused; some offer, event or handler keeps it going.     *)
ReplacementNeverStalls ==
    Seeking /\ ~paused
        => \/ events > 0
           \/ Doing({"substitute", "enqueue", "expired", "askSubstitute"} \cup CancelStages)
           \/ \E r \in Substitutes : /\ replaces[r] = departing
                                     /\ asg[r] \in {"OFFERED", "ACCEPTED", "EN_ROUTE"}

(* replacement.md on AWAITING_RELIEF: while a job seeks a replacement,     *)
(* whoever waits for relief is the one it seeks a substitute for.          *)
ReliefIsSought ==
    \A r \in Rows : Seeking /\ asg[r] = "AWAITING_RELIEF" => departing = r

(* jobs.md on cancel: a cancelled job has no open offer.                   *)
CancelReleasesOffers == status = "CANCELLED" => Offered = {}

(* jobs.md on COMPLETED: the client confirmed and the invoice is issued,   *)
(* once the requests that do it have ended.                                *)
ConfirmedJobIsBilled ==
    status = "COMPLETED" /\ (\A p \in Procs : Stands(p, "idle")) => invoice = "ISSUED"

(* assignment-transitions.ts: its table lists every transition.            *)
MovesAsTabled == [][\A r \in Rows : asg'[r] # asg[r] => asg'[r] \in AllowedNext(asg[r])]_vars

(* assignment-transitions.ts: from the closed statuses there is no way out. *)
ClosedAssignmentsStayClosed ==
    [][\A r \in Rows : asg[r] \in ClosedStatus \cup {"COMPLETED"} => asg'[r] = asg[r]]_vars
=============================================================================
