------------------------------- MODULE Roster -------------------------------
(***************************************************************************)
(* Guardians whom several jobs share: their accounts, their duty, and the  *)
(* dispatch rounds that pick among them.                                   *)
(*                                                                         *)
(* A round is one transaction that locks the guardian rows of the best     *)
(* candidates, looks up who of them is reachable, and inserts the offers;  *)
(* whoever changes a guardian row meanwhile waits.  The duty of a guardian *)
(* is a row of its own that nobody locks.  Requests are steps of clerks,   *)
(* split where they read before they write; op[c] is a clerk's place in    *)
(* its request.  In serial order a request or a round begins when nothing  *)
(* else is going on.                                                       *)
(*                                                                         *)
(* JobLifecycle takes the life of one job apart; here a job has slots, is  *)
(* open or cancelled, and seeks a relief while one of its guardians awaits *)
(* it.  Each job has one dispatch worker at a time.                        *)
(***************************************************************************)
EXTENDS Naturals, FiniteSets

CONSTANTS
    Clerks,         \* request handlers of the server processes
    Jobs,
    MaxGuardians,   \* guardians of the district, the most reliable first
    Scenarios,      \* circumstances, one of which is chosen at the start
    Slots,          \* requestedGuardianCount of each job
    Parallel,       \* URGENT_PARALLEL_OFFERS, the most offers of one round
    PoolSize        \* DISPATCH_POOL_SIZE

ASSUME SomeGuardians == MaxGuardians \in Nat
ASSUME SomePool == {Slots, Parallel, PoolSize} \subseteq Nat \ {0}

Guardians == 1 .. MaxGuardians
(* Serial order or not; whether handlers may die or throw between their    *)
(* steps; the guardians on file, active and verified; those whose accounts *)
(* are reviewed, suspended and deleted; the jobs there are, and those      *)
(* whose guardians may ask to leave early.                                 *)
Scenario == [serial : BOOLEAN, trouble : BOOLEAN, onFile : SUBSET Guardians,
             managed : SUBSET Guardians, open : SUBSET Jobs, leave : SUBSET Jobs]
ASSUME SomeScenario == Scenarios \subseteq Scenario

Kinds == {"ordinary", "substitute"}
Rows == Jobs \X Kinds \X Guardians
JobOf(r) == r[1]
Guardian(r) == r[3]

ShiftStatus == {"OFF_DUTY", "AVAILABLE", "BUSY"}
LiveStatus == {"none", "OFFERED", "COMING", "ON_SITE", "ASKING", "RELIEF"}
PastStatus == {"CLOSED", "NO_SHOW", "COMPLETED"}
Active == {"COMING", "ON_SITE", "ASKING", "RELIEF"}

VARIABLES
    scenario,   \* chosen once
    stranded,   \* history: whose last completion threw before it set them available
    user,       \* users.status
    account,    \* guardians.status
    verified,   \* guardians.verificationStatus is VERIFIED
    certified,  \* some certification is VERIFIED and has not expired
    shift,      \* guardian_shift_state; availableForJobs iff AVAILABLE
    reachable,  \* the last heartbeat is recent and came on duty
    open,       \* the job is not cancelled
    live,       \* the assignment in progress, for each job, kind and guardian
    past,       \* the assignments that ended
    round,      \* the dispatch round in progress
    op

files == <<user, account, verified, certified>>
duty == <<shift, reachable>>
work == <<open, live, past>>
vars == <<scenario, stranded, files, duty, work, round, op>>

(* A clerk is at a stage of a request about a guardian or an assignment;   *)
(* free lists the guardians it has yet to set available, ends is what      *)
(* becomes of the assignment whose row it keeps locked till then, if any.  *)
Idle == [at |-> "idle", who |-> 0, free |-> {}, row |-> <<>>, ends |-> "none"]
NoRound == [kind |-> "none", many |-> 0, held |-> {}, candidates |-> {}]
Stands(c, stage) == op[c].at = stage
Goes(c, place) == op' = [op EXCEPT ![c] = place]
Ends(c) == Goes(c, Idle)
Quiet == (\A c \in Clerks : op[c] = Idle) /\ (\A j \in Jobs : round[j] = NoRound)
MayBegin == scenario.serial => Quiet
Begins(c) == op[c] = Idle /\ MayBegin

Locked(g) == \E j \in Jobs : g \in round[j].held
RowLocked(r) == \E c \in Clerks : op[c].row = r /\ op[c].ends # "none"
-----------------------------------------------------------------------------
(* Who is not on file yet is as AdminGuardiansService.create leaves a new  *)
(* guardian.                                                               *)
Init ==
    /\ scenario \in Scenarios
    /\ stranded = {}
    /\ open = [j \in Jobs |-> j \in scenario.open]
    /\ user = [g \in Guardians |-> IF g \in scenario.onFile THEN "ACTIVE" ELSE "PENDING"]
    /\ account = [g \in Guardians |-> IF g \in scenario.onFile THEN "ACTIVE" ELSE "INACTIVE"]
    /\ verified = [g \in Guardians |-> g \in scenario.onFile]
    /\ certified = [g \in Guardians |-> g \in scenario.onFile]
    /\ shift = [g \in Guardians |-> "OFF_DUTY"]
    /\ reachable = [g \in Guardians |-> FALSE]
    /\ live = [r \in Rows |-> "none"]
    /\ past = [r \in Rows |-> {}]
    /\ round = [j \in Jobs |-> NoRound]
    /\ op = [c \in Clerks |-> Idle]

-----------------------------------------------------------------------------
(* The query of the dispatcher, and assertDispatchEligible. *)
Fit(g) == account[g] = "ACTIVE" /\ verified[g] /\ certified[g]
Eligible(g) == shift[g] = "AVAILABLE" /\ Fit(g)

Seeking(j) == \E r \in Rows : JobOf(r) = j /\ live[r] = "RELIEF"
Ordinary(j) == {r \in Rows : JobOf(r) = j /\ r[2] = "ordinary"}
Staffed(j) == Cardinality({r \in Ordinary(j) : live[r] \in Active})
              + Cardinality({r \in Ordinary(j) : "COMPLETED" \in past[r]})
Offered(j) == Cardinality({r \in Ordinary(j) : live[r] = "OFFERED"})
OpenSlots(j) == Slots - (Staffed(j) + Offered(j))
ParallelCount(j) == IF OpenSlots(j) < Parallel THEN OpenSlots(j) ELSE Parallel

(* Somebody has arrived: the job is IN_PROGRESS, or seeks a relief. *)
Begun(j) ==
    \E r \in Rows : JobOf(r) = j /\ (live[r] \in {"ON_SITE", "ASKING", "RELIEF"} \/ "COMPLETED" \in past[r])

Tried(j) == {g \in Guardians : \E r \in Rows : JobOf(r) = j /\ Guardian(r) = g /\ "CLOSED" \in past[r]}
Excluded(j) ==
    Tried(j) \cup {g \in Guardians : \E r \in Ordinary(j) :
                       Guardian(r) = g /\ (live[r] # "none" \/ "COMPLETED" \in past[r])}
ReplacementExcluded(j) ==
    {g \in Guardians : \E r \in Rows :
        JobOf(r) = j /\ Guardian(r) = g /\ (live[r] # "none" \/ past[r] \ {"CLOSED"} # {})}

Top(S, n) == {g \in S : Cardinality({h \in S : h < g}) < n}

(* Mutant: the pool does not grow with the guardians it will lose. *)
FlatPool(excluded) ==
    Top({g \in Guardians : Eligible(g) /\ ~Locked(g)}, PoolSize)

(* Mutant: another round's rows are read all the same. *)
PoolOfLocked(excluded) ==
    Top({g \in Guardians : Eligible(g)}, PoolSize + Cardinality(excluded))

(* FOR UPDATE SKIP LOCKED LIMIT: the rows a round locks. *)
Pool(excluded) ==
    Top({g \in Guardians : Eligible(g) /\ ~Locked(g)}, PoolSize + Cardinality(excluded))

(* Mutant: no FOR UPDATE. *)
LocksNothing(j, kind, excluded) ==
    round' = [round EXCEPT ![j] = [kind |-> kind, many |-> ParallelCount(j), held |-> {},
                                   candidates |-> Pool(excluded) \ excluded]]

Locks(j, kind, excluded) ==
    round' = [round EXCEPT ![j] = [kind |-> kind, many |-> ParallelCount(j), held |-> Pool(excluded),
                                   candidates |-> Pool(excluded) \ excluded]]

RoundBegins(j) ==
    /\ round[j] = NoRound /\ MayBegin /\ open[j]
    /\ \/ ~Seeking(j) /\ OpenSlots(j) > 0 /\ Locks(j, "ordinary", Excluded(j))
       \/ Seeking(j) /\ Locks(j, "substitute", ReplacementExcluded(j))
    /\ UNCHANGED <<scenario, stranded, files, duty, work, op>>

(* The offers go to the first of the candidates who are reachable; a       *)
(* substitute is one guardian, and nobody if that one was tried before.    *)
Chosen(j) ==
    LET able == {g \in round[j].candidates : reachable[g]} IN
    IF round[j].kind = "ordinary" THEN Top(able, round[j].many) ELSE Top(able, 1) \ Tried(j)

RoundOffers(j) ==
    /\ round[j] # NoRound
    /\ live' = [r \in Rows |-> IF JobOf(r) = j /\ r[2] = round[j].kind /\ Guardian(r) \in Chosen(j)
                               THEN "OFFERED" ELSE live[r]]
    /\ round' = [round EXCEPT ![j] = NoRound]
    /\ UNCHANGED <<scenario, stranded, files, duty, open, past, op>>

-----------------------------------------------------------------------------
(* Mutant: OFF_DUTY is overwritten too. *)
FreeReadAlways(c, g) ==
    /\ Stands(c, "free") /\ g \in op[c].free
    /\ Goes(c, [op[c] EXCEPT !.at = "freeWrite", !.who = g, !.free = @ \ {g}])
    /\ UNCHANGED <<scenario, stranded, files, duty, work, round>>

(* setAvailable: a read, and a write unless it read OFF_DUTY. *)
FreeRead(c, g) ==
    /\ Stands(c, "free") /\ g \in op[c].free
    /\ IF shift[g] = "OFF_DUTY"
       THEN Goes(c, [op[c] EXCEPT !.free = @ \ {g}])
       ELSE Goes(c, [op[c] EXCEPT !.at = "freeWrite", !.who = g, !.free = @ \ {g}])
    /\ UNCHANGED <<scenario, stranded, files, duty, work, round>>

FreeWrite(c) ==
    /\ Stands(c, "freeWrite")
    /\ shift' = [shift EXCEPT ![op[c].who] = "AVAILABLE"]
    /\ Goes(c, [op[c] EXCEPT !.at = "free"])
    /\ UNCHANGED <<scenario, stranded, files, reachable, work, round>>

(* Everybody is set available.  The transaction that waits commits, except *)
(* that of a no-show of a job which is cancelled, or ASSIGNED: its         *)
(* transition throws.                                                      *)
Refused(r, ends) ==
    /\ ends = "NO_SHOW"
    /\ \/ ~open[JobOf(r)]
       \/ r[2] = "ordinary" /\ Staffed(JobOf(r)) >= Slots /\ ~Begun(JobOf(r))

FreeEnds(c) ==
    LET r == op[c].row IN
    /\ Stands(c, "free") /\ op[c].free = {}
    /\ IF op[c].ends = "none" \/ Refused(r, op[c].ends) THEN UNCHANGED work
       ELSE /\ live' = [live EXCEPT ![r] = "none"]
            /\ past' = [past EXCEPT ![r] = @ \cup {op[c].ends}]
            /\ UNCHANGED open
    /\ Ends(c)
    /\ UNCHANGED <<scenario, stranded, files, duty, round>>

Frees(c, guardians) ==
    Goes(c, IF guardians = {} THEN Idle ELSE [Idle EXCEPT !.at = "free", !.free = guardians])

(* The transactions of decline, expireOffer and applyNoShow update the     *)
(* assignment, which locks its row, and call setAvailable before they      *)
(* commit.                                                                 *)
Withdraws(c, r, ends) ==
    /\ ~RowLocked(r)
    /\ Goes(c, [Idle EXCEPT !.at = "free", !.free = {Guardian(r)}, !.row = r, !.ends = ends])
    /\ UNCHANGED <<scenario, stranded, files, duty, work, round>>

Decline(c, r) == Begins(c) /\ live[r] = "OFFERED" /\ Withdraws(c, r, "CLOSED")
Expire(c, r) == Begins(c) /\ live[r] = "OFFERED" /\ open[JobOf(r)] /\ Withdraws(c, r, "CLOSED")
NoShow(c, r) == Begins(c) /\ live[r] \in {"OFFERED", "COMING"} /\ Withdraws(c, r, "NO_SHOW")

(* The accept makes the guardian BUSY in its transaction; one that fills   *)
(* the job closes the other offers and then frees their guardians.         *)
Accept(c, r) ==
    LET j == JobOf(r)
        full == r[2] = "ordinary" /\ Staffed(j) + 1 >= Slots
        excess == IF full THEN {x \in Ordinary(j) : x # r /\ live[x] = "OFFERED"} ELSE {}
    IN
    /\ Begins(c) /\ live[r] = "OFFERED" /\ user[Guardian(r)] = "ACTIVE" /\ open[j]
    /\ \A x \in excess \cup {r} : ~RowLocked(x)
    /\ Seeking(j) \/ (Staffed(j) < Slots /\ ~Begun(j))
    /\ live' = [x \in Rows |-> IF x = r THEN "COMING" ELSE IF x \in excess THEN "none" ELSE live[x]]
    /\ past' = [x \in Rows |-> IF x \in excess THEN past[x] \cup {"CLOSED"} ELSE past[x]]
    /\ shift' = [shift EXCEPT ![Guardian(r)] = "BUSY"]
    /\ stranded' = stranded \ {Guardian(r)}
    /\ Frees(c, {Guardian(x) : x \in excess})
    /\ UNCHANGED <<scenario, files, reachable, open, round>>

Becomes(r, status) == live' = [live EXCEPT ![r] = status]

Arrive(c, r) ==
    /\ Begins(c) /\ live[r] = "COMING" /\ ~RowLocked(r) /\ ~Seeking(JobOf(r))
    /\ Becomes(r, "ON_SITE")
    /\ UNCHANGED <<scenario, stranded, files, duty, open, past, round, op>>

(* Early release and replacement: asked for, denied, or the guardian has   *)
(* to await a relief.  One relief at a time; JobLifecycle has two.         *)
AskToLeave(c, r) ==
    /\ Begins(c) /\ live[r] = "ON_SITE" /\ JobOf(r) \in scenario.leave /\ ~Seeking(JobOf(r))
    /\ Becomes(r, "ASKING")
    /\ UNCHANGED <<scenario, stranded, files, duty, open, past, round, op>>

DenyLeave(c, r) ==
    /\ Begins(c) /\ live[r] = "ASKING"
    /\ Becomes(r, "ON_SITE")
    /\ UNCHANGED <<scenario, stranded, files, duty, open, past, round, op>>

AwaitRelief(c, r) ==
    /\ Begins(c) /\ live[r] = "ASKING" /\ ~Seeking(JobOf(r)) /\ open[JobOf(r)]
    /\ Becomes(r, "RELIEF")
    /\ UNCHANGED <<scenario, stranded, files, duty, open, past, round, op>>

(* The substitute arrives; the guardian it relieves is made AVAILABLE in   *)
(* the same transaction, on duty or not.                                   *)
Handoff(c, r, s) ==
    /\ Begins(c) /\ live[r] = "COMING" /\ r[2] = "substitute" /\ ~RowLocked(r)
    /\ live[s] = "RELIEF" /\ JobOf(s) = JobOf(r)
    /\ live' = [live EXCEPT ![r] = "ON_SITE", ![s] = "none"]
    /\ past' = [past EXCEPT ![s] = @ \cup {"COMPLETED"}]
    /\ shift' = [shift EXCEPT ![Guardian(s)] = "AVAILABLE"]
    /\ UNCHANGED <<scenario, stranded, files, reachable, open, round, op>>

(* Mutant: the guardian is not set available. *)
CompleteOnly(c, r) ==
    /\ Begins(c) /\ live[r] \in {"ON_SITE", "ASKING"}
    /\ live' = [live EXCEPT ![r] = "none"]
    /\ past' = [past EXCEPT ![r] = @ \cup {"COMPLETED"}]
    /\ UNCHANGED <<scenario, stranded, files, duty, open, round, op>>

(* On site, or asking to leave early and approved: COMPLETED is committed. *)
Complete(c, r) ==
    /\ Begins(c) /\ live[r] \in {"ON_SITE", "ASKING"}
    /\ live' = [live EXCEPT ![r] = "none"]
    /\ past' = [past EXCEPT ![r] = @ \cup {"COMPLETED"}]
    /\ Goes(c, [Idle EXCEPT !.at = "finish", !.row = r])
    /\ UNCHANGED <<scenario, stranded, files, duty, open, round>>

(* Then completeFromAssignment moves the job when nobody is left, and the  *)
(* guardian is set available.  A job that is cancelled or seeks a relief   *)
(* refuses the move; so does one that was confirmed or sent back meanwhile *)
(* (JobLifecycle has them), and the draft invoice may fail: what throws    *)
(* leaves the guardian as it is.                                           *)
NobodyLeft(j) == \A r \in Ordinary(j) : live[r] \notin Active

CompletionFrees(c) ==
    LET r == op[c].row IN
    /\ Stands(c, "finish")
    /\ NobodyLeft(JobOf(r)) => open[JobOf(r)] /\ ~Seeking(JobOf(r))
    /\ Frees(c, {Guardian(r)})
    /\ UNCHANGED <<scenario, stranded, files, duty, work, round>>

CompletionThrows(c) ==
    LET r == op[c].row IN
    /\ Stands(c, "finish") /\ NobodyLeft(JobOf(r))
    /\ stranded' = stranded \cup {Guardian(r)}
    /\ Ends(c)
    /\ UNCHANGED <<scenario, files, duty, work, round>>

(* Cancelling releases the assignments in progress, in one step here, but  *)
(* for a substitute who has arrived and awaits no relief.                  *)
CancelJob(c, j) ==
    LET stays == {r \in Rows : r[2] = "substitute" /\ live[r] \in {"ON_SITE", "ASKING"}}
        released == {r \in Rows : JobOf(r) = j /\ live[r] # "none"} \ stays
    IN
    /\ Begins(c) /\ open[j] /\ \A r \in released : ~RowLocked(r)
    /\ open' = [open EXCEPT ![j] = FALSE]
    /\ live' = [r \in Rows |-> IF r \in released THEN "none" ELSE live[r]]
    /\ past' = [r \in Rows |-> IF r \in released THEN past[r] \cup {"CLOSED"} ELSE past[r]]
    /\ Frees(c, {Guardian(r) : r \in released})
    /\ UNCHANGED <<scenario, stranded, files, duty, round>>

-----------------------------------------------------------------------------
(* startShift, by the guardian or by a sign-in that finds OFF_DUTY. *)
MayStart(g) == user[g] = "ACTIVE" /\ Fit(g)

StartShift(c, g) ==
    /\ Begins(c) /\ MayStart(g)
    /\ Goes(c, [Idle EXCEPT !.at = "start", !.who = g])
    /\ UNCHANGED <<scenario, stranded, files, duty, work, round>>

StartShiftWrite(c) ==
    /\ Stands(c, "start")
    /\ shift' = [shift EXCEPT ![op[c].who] = "AVAILABLE"]
    /\ Ends(c)
    /\ UNCHANGED <<scenario, stranded, files, reachable, work, round>>

EndShift(c, g) ==
    /\ Begins(c) /\ user[g] = "ACTIVE"
    /\ shift' = [shift EXCEPT ![g] = "OFF_DUTY"]
    /\ UNCHANGED <<scenario, stranded, files, reachable, work, round, op>>

Heartbeat(c, g) ==
    /\ Begins(c) /\ user[g] = "ACTIVE"
    /\ reachable' = [reachable EXCEPT ![g] = shift[g] = "AVAILABLE"]
    /\ UNCHANGED <<scenario, stranded, files, shift, work, round, op>>

HeartbeatsStop(g) ==
    /\ reachable[g]
    /\ reachable' = [reachable EXCEPT ![g] = FALSE]
    /\ UNCHANGED <<scenario, stranded, files, shift, work, round, op>>

-----------------------------------------------------------------------------
(* reviewGuardian and reviewCertification; a certificate may expire too.   *)
Review(c, g) ==
    /\ Begins(c) /\ g \in scenario.managed /\ ~Locked(g)
    /\ verified' = [verified EXCEPT ![g] = ~@]
    /\ UNCHANGED <<scenario, stranded, user, account, certified, duty, work, round, op>>

ReviewCertification(c, g) ==
    /\ Begins(c) /\ g \in scenario.managed
    /\ certified' = [certified EXCEPT ![g] = ~@]
    /\ UNCHANGED <<scenario, stranded, user, account, verified, duty, work, round, op>>

Activate(c, g) ==
    /\ Begins(c) /\ g \in scenario.managed /\ verified[g]
    /\ Goes(c, [Idle EXCEPT !.at = "activate", !.who = g])
    /\ UNCHANGED <<scenario, stranded, files, duty, work, round>>

ActivateWrite(c) ==
    LET g == op[c].who IN
    /\ Stands(c, "activate") /\ ~Locked(g)
    /\ user' = [user EXCEPT ![g] = "ACTIVE"]
    /\ account' = [account EXCEPT ![g] = "ACTIVE"]
    /\ Ends(c)
    /\ UNCHANGED <<scenario, stranded, verified, certified, duty, work, round>>

(* Mutant: the shift gets the status of the account. *)
SuspendShift(c, g) ==
    /\ Begins(c) /\ g \in scenario.managed /\ ~Locked(g)
    /\ account' = [account EXCEPT ![g] = "SUSPENDED"]
    /\ shift' = [shift EXCEPT ![g] = "SUSPENDED"]
    /\ UNCHANGED <<scenario, stranded, user, verified, certified, reachable, work, round, op>>

Suspend(c, g) ==
    /\ Begins(c) /\ g \in scenario.managed /\ ~Locked(g)
    /\ account' = [account EXCEPT ![g] = "SUSPENDED"]
    /\ shift' = [shift EXCEPT ![g] = "OFF_DUTY"]
    /\ UNCHANGED <<scenario, stranded, user, verified, certified, reachable, work, round, op>>

BLOCKING == {"OFFERED", "COMING", "ON_SITE"}
Blocked(g) == \E r \in Rows : Guardian(r) = g /\ live[r] \in BLOCKING

(* softDeleteUser, after collectBlockers. *)
Delete(c, g) ==
    /\ Begins(c) /\ g \in scenario.managed /\ user[g] # "DELETED" /\ ~Blocked(g)
    /\ Goes(c, [Idle EXCEPT !.at = "delete", !.who = g])
    /\ UNCHANGED <<scenario, stranded, files, duty, work, round>>

DeleteWrite(c) ==
    LET g == op[c].who IN
    /\ Stands(c, "delete") /\ ~Locked(g)
    /\ user' = [user EXCEPT ![g] = "DELETED"]
    /\ account' = [account EXCEPT ![g] = "INACTIVE"]
    /\ shift' = [shift EXCEPT ![g] = "OFF_DUTY"]
    /\ Ends(c)
    /\ UNCHANGED <<scenario, stranded, verified, certified, reachable, work, round>>

Fails(c) ==
    /\ scenario.trouble /\ op[c] # Idle
    /\ Ends(c)
    /\ UNCHANGED <<scenario, stranded, files, duty, work, round>>

-----------------------------------------------------------------------------
Continue(c) ==
    \/ (\E g \in Guardians : FreeRead(c, g)) \/ FreeWrite(c) \/ FreeEnds(c)
    \/ CompletionFrees(c) \/ CompletionThrows(c)
    \/ StartShiftWrite(c) \/ ActivateWrite(c) \/ DeleteWrite(c)

OfGuardian(c) ==
    \/ \E g \in Guardians : StartShift(c, g) \/ EndShift(c, g) \/ Heartbeat(c, g)
    \/ \E r \in Rows : \/ Decline(c, r) \/ Accept(c, r) \/ Arrive(c, r) \/ AskToLeave(c, r)
                         \/ (\E s \in Rows : Handoff(c, r, s)) \/ Complete(c, r)

OfStaff(c) ==
    \/ \E g \in Guardians : \/ Review(c, g) \/ ReviewCertification(c, g) \/ Activate(c, g)
                             \/ Suspend(c, g) \/ Delete(c, g)
    \/ \E r \in Rows : NoShow(c, r) \/ DenyLeave(c, r) \/ AwaitRelief(c, r)
    \/ \E j \in Jobs : CancelJob(c, j)

Expires(j) == \E c \in Clerks, r \in Rows : JobOf(r) = j /\ Expire(c, r)

Next ==
    \/ \E j \in Jobs : RoundBegins(j) \/ RoundOffers(j) \/ Expires(j)
    \/ \E c \in Clerks : Continue(c) \/ OfGuardian(c) \/ OfStaff(c) \/ Fails(c)
    \/ \E g \in Guardians : HeartbeatsStop(g)

Spec == Init /\ [][Next]_vars

(* A handler that has begun goes on; the outbox worker and the expiry      *)
(* queue come round to a job, however busy the process is.                 *)
FairSpec ==
    /\ Spec
    /\ \A c \in Clerks : WF_vars(Continue(c))
    /\ \A j \in Jobs : WF_vars(RoundOffers(j)) /\ SF_vars(RoundBegins(j)) /\ SF_vars(Expires(j))

-----------------------------------------------------------------------------
Stages == {"idle", "free", "freeWrite", "finish", "start", "activate", "delete"}

(* Rows, rounds and requests have the types the code gives them. *)
TypeOK ==
    /\ scenario \in Scenario /\ stranded \subseteq Guardians
    /\ user \in [Guardians -> {"PENDING", "ACTIVE", "DELETED"}]
    /\ account \in [Guardians -> {"INACTIVE", "ACTIVE", "SUSPENDED"}]
    /\ verified \in [Guardians -> BOOLEAN] /\ certified \in [Guardians -> BOOLEAN]
    /\ shift \in [Guardians -> ShiftStatus] /\ reachable \in [Guardians -> BOOLEAN]
    /\ open \in [Jobs -> BOOLEAN]
    /\ live \in [Rows -> LiveStatus] /\ past \in [Rows -> SUBSET PastStatus]
    /\ round \in [Jobs -> [kind : Kinds \cup {"none"}, many : 0 .. Parallel,
                            held : SUBSET Guardians, candidates : SUBSET Guardians]]
    /\ op \in [Clerks -> [at : Stages, who : Guardians \cup {0}, free : SUBSET Guardians,
                           row : Rows \cup {<<>>}, ends : PastStatus \cup {"none"}]]

(* However requests and rounds overlap, an offer goes to a guardian who is *)
(* active and verified when it is made: suspension, deletion and review    *)
(* wait for the round that holds the guardian's row.                       *)
OfferedInGoodStanding ==
    [][\A r \in Rows : live[r] = "none" /\ live'[r] = "OFFERED" =>
           account[Guardian(r)] = "ACTIVE" /\ verified[Guardian(r)]]_vars

(* However they overlap, a guardian is a candidate of one round at a time, *)
(* and no round sends more offers than the job has slots.                  *)
RoundsKeepApart ==
    /\ \A i, j \in Jobs : i # j => round[i].held \cap round[j].held = {}
    /\ \A j \in Jobs : Staffed(j) + Offered(j) <= Slots

(* In serial order: a guardian who is off duty, by choice, suspension or   *)
(* deletion, comes on duty only by a startShift (the guardian's own, or of *)
(* a sign-in) that finds the account in order, by accepting an offer, or   *)
(* by the arrival of a relief.  The setAvailable of whatever ends later of *)
(* the work of before leaves it off duty, and so does an activation.       *)
StaysOffDuty ==
    [][scenario.serial => \A g \in Guardians : shift[g] = "OFF_DUTY" /\ shift'[g] # "OFF_DUTY" =>
           \/ MayStart(g) /\ \E c \in Clerks : StartShiftWrite(c) /\ op[c].who = g
           \/ \E c \in Clerks, r \in Rows : Accept(c, r) /\ Guardian(r) = g
           \/ \E c \in Clerks, r, s \in Rows : Handoff(c, r, s) /\ Guardian(s) = g]_vars

AtWork(g) == \E r \in Rows : Guardian(r) = g /\ live[r] \in Active

(* However they overlap, as long as no handler fails half way: a guardian  *)
(* whose work has ended does not stay BUSY, except one whose completion    *)
(* threw between COMPLETED and setAvailable.                               *)
BusyComesFree ==
    \A g \in Guardians :
        ~scenario.trouble /\ shift[g] = "BUSY" /\ ~AtWork(g) /\ g \notin stranded
            ~> shift[g] # "BUSY" \/ AtWork(g) \/ g \in stranded

(* A guardian whom the rounds of the job should reach: in serial order one *)
(* is missed only for a pool full of others who are not reachable.         *)
Waits(j, g) ==
    /\ scenario.serial /\ open[j] /\ ~Seeking(j) /\ Staffed(j) < Slots
    /\ Eligible(g) /\ reachable[g] /\ g \notin Excluded(j)
    /\ Cardinality({h \in Guardians : Eligible(h) /\ ~reachable[h] /\ h \notin Excluded(j)}) < PoolSize

(* In serial order, a job that stays short of guardians asks every one who *)
(* stays eligible and reachable, however many declined before.             *)
EveryCandidateAsked == \A j \in Jobs, g \in Guardians : Waits(j, g) ~> ~Waits(j, g)

=============================================================================
