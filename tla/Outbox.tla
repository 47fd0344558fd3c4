------------------------------- MODULE Outbox -------------------------------
(***************************************************************************)
(* The transactional outbox and the queue of expiring offers: server       *)
(* processes claim due events in batches, run the handler of each, and     *)
(* record how it went; the handler of a dispatch event leaves an offer and *)
(* queues its expiry, which enqueues the next event.                       *)
(*                                                                         *)
(* Queued expiries are in Redis, or timers of the process that queued them *)
(* where there is no Redis.  A process dies between any two steps, and     *)
(* comes back without its batch, its timers and its locks.  An event makes *)
(* at most one offer here, which has the event's name.                     *)
(***************************************************************************)
EXTENDS Naturals, FiniteSets

CONSTANTS
    Processes,      \* server processes
    MaxEvents,      \* bound: outbox events, the earliest scheduled first
    Scenarios       \* circumstances, one of which is chosen at the start

ASSUME SomeEvents == MaxEvents \in Nat

Events == 1 .. MaxEvents
(* The limit of claimBatch; Redis or timers; how often processes die;      *)
(* whether a call may fail that records how a handler went, or that queues *)
(* an expiry in Redis; whether others release open offers, or end the job; *)
(* whether the clock of one process may be behind that of another.         *)
Scenario == [limit : Nat \ {0}, redis : BOOLEAN, crashes : Nat, failures : BOOLEAN,
             releases : BOOLEAN, skew : BOOLEAN]
ASSUME SomeScenario == Scenarios \subseteq Scenario

MaxRetries == 5
EventStatus == {"none", "PENDING", "PROCESSING", "COMPLETED", "FAILED", "DEAD_LETTER"}
(* A released offer is closed, but keeps the version of the open one.      *)
OfferStatus == {"none", "open", "closed", "released"}

VARIABLES
    scenario,   \* chosen once
    crashes,    \* processes that died so far
    status,     \* of each event
    retries,
    due,        \* events whose scheduledAt has come
    offer,      \* status of the offer of each event
    over,       \* the job of the offers is cancelled, completed or awaits confirmation
    queued,     \* expiries queued: <<"redis", e>>, or <<p, e>> for a timer of p
    tick,       \* the outbox worker of each process: [at, batch, event]
    expiry,     \* the expiry a process is at: [at, event]
    release,    \* the offer a process has begun to release, 0 for none
    starts      \* history: how often the handler of each event was started

work == <<tick, expiry, release>>
rows == <<status, retries, due, offer, over>>
vars == <<scenario, crashes, rows, queued, work, starts>>

Resting == [at |-> "idle", batch |-> {}, event |-> 0]
NoExpiry == [at |-> "idle", event |-> 0]
Down(p) == tick[p].at = "down"

Init ==
    /\ scenario \in Scenarios
    /\ crashes = 0
    /\ status = [e \in Events |-> IF e = 1 THEN "PENDING" ELSE "none"]
    /\ retries = [e \in Events |-> 0]
    /\ due = {}
    /\ offer = [e \in Events |-> "none"]
    /\ over = FALSE
    /\ queued = {}
    /\ tick = [p \in Processes |-> Resting]
    /\ expiry = [p \in Processes |-> NoExpiry]
    /\ release = [p \in Processes |-> 0]
    /\ starts = [e \in Events |-> 0]

-----------------------------------------------------------------------------
(* Events are numbered as they are scheduled; a handler elsewhere enqueues *)
(* one in its own transaction, or with the statement after it.             *)
Unused == {e \in Events : status[e] = "none"}
Enqueued(e) == e \in Unused /\ \A f \in Unused : e <= f
Enqueue(e) == Enqueued(e) /\ status' = [status EXCEPT ![e] = "PENDING"]

OthersEnqueue(e) ==
    /\ Enqueue(e)
    /\ UNCHANGED <<scenario, crashes, retries, due, offer, over, queued, work, starts>>

FallsDue(e) ==
    /\ status[e] = "PENDING" /\ e \notin due
    /\ \A f \in Events : f < e => f \in due \/ status[f] # "PENDING"
    /\ due' = due \cup {e}
    /\ UNCHANGED <<scenario, crashes, status, retries, offer, over, queued, work, starts>>

-----------------------------------------------------------------------------
Claiming(p) == tick[p].at = "claim"
LockedRows == UNION {tick[p].batch : p \in {q \in Processes : Claiming(q)}}

(* Mutant: every due row, locked or not. *)
AllDue == {e \in due : status[e] = "PENDING"}

(* FOR UPDATE SKIP LOCKED. *)
Claimable == {e \in due \ LockedRows : status[e] = "PENDING"}

Works(p, place) == tick' = [tick EXCEPT ![p] = place]

(* claimBatch selects and locks the earliest due rows... *)
ClaimLock(p) ==
    /\ tick[p].at = "idle" /\ Claimable # {}
    /\ \E batch \in SUBSET Claimable :
        /\ Cardinality(batch) = scenario.limit \/ (batch = Claimable /\ Cardinality(batch) < scenario.limit)
        /\ \A e \in batch, f \in Claimable \ batch : e < f
        /\ Works(p, [at |-> "claim", batch |-> batch, event |-> 0])
    /\ UNCHANGED <<scenario, crashes, rows, queued, expiry, release, starts>>

(* ... and marks them in the same transaction.                             *)
ClaimCommit(p) ==
    /\ Claiming(p)
    /\ status' = [e \in Events |-> IF e \in tick[p].batch THEN "PROCESSING" ELSE status[e]]
    /\ Works(p, [tick[p] EXCEPT !.at = "next"])
    /\ UNCHANGED <<scenario, crashes, retries, due, offer, over, queued, expiry, release, starts>>

(* Mutant: the rest of the batch is dropped. *)
ProcessOne(p, e) ==
    /\ tick[p].at = "next" /\ e \in tick[p].batch
    /\ starts' = [starts EXCEPT ![e] = @ + 1]
    /\ Works(p, [at |-> "run", batch |-> {}, event |-> e])
    /\ UNCHANGED <<scenario, crashes, rows, queued, expiry, release>>

(* processEvent for each event of the batch, in whatever order findMany    *)
(* returned them; then the tick is over.                                   *)
ProcessEvent(p, e) ==
    /\ tick[p].at = "next" /\ e \in tick[p].batch
    /\ starts' = [starts EXCEPT ![e] = @ + 1]
    /\ Works(p, [at |-> "run", batch |-> tick[p].batch \ {e}, event |-> e])
    /\ UNCHANGED <<scenario, crashes, rows, queued, expiry, release>>

TickEnds(p) ==
    /\ tick[p].at = "next" /\ tick[p].batch = {}
    /\ Works(p, Resting)
    /\ UNCHANGED <<scenario, crashes, rows, queued, expiry, release, starts>>

(* The handler: it throws, has nothing to do, or commits an offer...       *)
HandlerReturns(p, place) ==
    /\ tick[p].at = "run" /\ place \in {"completed", "failed"}
    /\ Works(p, [tick[p] EXCEPT !.at = place])
    /\ UNCHANGED <<scenario, crashes, rows, queued, expiry, release, starts>>

HandlerOffers(p) ==
    LET e == tick[p].event IN
    /\ tick[p].at = "run" /\ offer[e] = "none"
    /\ offer' = [offer EXCEPT ![e] = "open"]
    /\ Works(p, [tick[p] EXCEPT !.at = "finalize"])
    /\ UNCHANGED <<scenario, crashes, status, retries, due, over, queued, expiry, release, starts>>

(* Mutant: Redis in any case. *)
PlaceInRedis(p) == "redis"

Place(p) == IF scenario.redis THEN "redis" ELSE p

(* ... whose expiry finalizeOffer queues, before it sends the messages     *)
(* that may throw.                                                         *)
FinalizeOffer(p) ==
    /\ tick[p].at = "finalize"
    /\ queued' = queued \cup {<<Place(p), tick[p].event>>}
    /\ \E place \in {"completed", "failed"} : Works(p, [tick[p] EXCEPT !.at = place])
    /\ UNCHANGED <<scenario, crashes, rows, expiry, release, starts>>

(* Redis may refuse: the offer stays, and no expiry of it is queued.       *)
FinalizeThrows(p) ==
    /\ scenario.redis /\ scenario.failures /\ tick[p].at = "finalize"
    /\ Works(p, [tick[p] EXCEPT !.at = "failed"])
    /\ UNCHANGED <<scenario, crashes, rows, queued, expiry, release, starts>>

(* markCompleted; when it throws, the catch clause marks the event failed. *)
MarkCompleted(p) ==
    /\ tick[p].at = "completed"
    /\ status' = [status EXCEPT ![tick[p].event] = "COMPLETED"]
    /\ Works(p, [tick[p] EXCEPT !.at = "next", !.event = 0])
    /\ UNCHANGED <<scenario, crashes, retries, due, offer, over, queued, expiry, release, starts>>

MarkCompletedThrows(p) ==
    /\ scenario.failures /\ tick[p].at = "completed"
    /\ Works(p, [tick[p] EXCEPT !.at = "failed"])
    /\ UNCHANGED <<scenario, crashes, rows, queued, expiry, release, starts>>

(* markFailed schedules the event anew; when it throws, the tick is over   *)
(* and leaves the rest of the batch.                                       *)
FailedStatus(n) == IF n >= MaxRetries THEN "DEAD_LETTER" ELSE "FAILED"

MarkFailed(p) ==
    LET e == tick[p].event IN
    /\ tick[p].at = "failed"
    /\ retries' = [retries EXCEPT ![e] = @ + 1]
    /\ status' = [status EXCEPT ![e] = FailedStatus(retries[e] + 1)]
    /\ Works(p, [tick[p] EXCEPT !.at = "next", !.event = 0])
    /\ UNCHANGED <<scenario, crashes, due, offer, over, queued, expiry, release, starts>>

MarkFailedThrows(p) ==
    /\ scenario.failures /\ tick[p].at = "failed"
    /\ Works(p, Resting)
    /\ UNCHANGED <<scenario, crashes, rows, queued, expiry, release, starts>>

-----------------------------------------------------------------------------
(* A process dies; Redis hands the expiry that it had to another one. *)
Dies(p) ==
    /\ crashes' = crashes + 1
    /\ Works(p, [Resting EXCEPT !.at = "down"])
    /\ expiry' = [expiry EXCEPT ![p] = NoExpiry]
    /\ release' = [release EXCEPT ![p] = 0]
    /\ queued' = IF scenario.redis
                 THEN queued \cup ({"redis"} \X ({expiry[p].event} \ {0}))
                 ELSE queued \ ({p} \X Events)
    /\ UNCHANGED <<scenario, rows, starts>>

(* A queued expiry comes up, in Redis for any process.                     *)
ExpiryFires(p, e) ==
    /\ ~Down(p) /\ expiry[p] = NoExpiry
    /\ \E place \in {"redis", p} : <<place, e>> \in queued /\ queued' = queued \ {<<place, e>>}
    /\ expiry' = [expiry EXCEPT ![p] = [at |-> "read", event |-> e]]
    /\ UNCHANGED <<scenario, crashes, rows, tick, release, starts>>

ExpiryRead(p) ==
    /\ expiry[p].at = "read"
    /\ expiry' = [expiry EXCEPT ![p] =
                    IF offer[expiry[p].event] = "open" /\ ~over THEN [@ EXCEPT !.at = "write"] ELSE NoExpiry]
    /\ UNCHANGED <<scenario, crashes, rows, queued, tick, release, starts>>

(* By the clock of this process the offer has not expired yet: nobody      *)
(* queues its expiry again.                                                *)
ExpiryTooEarly(p) ==
    /\ scenario.skew /\ scenario.redis /\ expiry[p].at = "read"
    /\ expiry' = [expiry EXCEPT ![p] = NoExpiry]
    /\ UNCHANGED <<scenario, crashes, rows, queued, tick, release, starts>>

(* EXPIRED is written for the version that was read, that of an offer      *)
(* released meanwhile included.                                            *)
ExpiryWrite(p) ==
    LET e == expiry[p].event IN
    /\ expiry[p].at = "write" /\ offer[e] \in {"open", "released"}
    /\ offer' = [offer EXCEPT ![e] = "closed"]
    /\ expiry' = [expiry EXCEPT ![p] = [@ EXCEPT !.at = "next"]]
    /\ UNCHANGED <<scenario, crashes, status, retries, due, over, queued, tick, release, starts>>

(* A stale version throws.  The worker of Redis takes note and does not    *)
(* repeat the expiry; nobody catches what a timer throws, which ends the   *)
(* process.                                                                *)
ExpiryStale(p) ==
    /\ expiry[p].at = "write" /\ offer[expiry[p].event] \notin {"open", "released"}
    /\ IF scenario.redis
       THEN /\ expiry' = [expiry EXCEPT ![p] = NoExpiry]
            /\ UNCHANGED <<scenario, crashes, rows, queued, tick, release, starts>>
       ELSE Dies(p)

(* The next event, unless the job is not searching any more.               *)
ExpiryEnds(p) ==
    /\ expiry[p].at = "next"
    /\ (\E e \in Unused : Enqueue(e)) \/ UNCHANGED status
    /\ expiry' = [expiry EXCEPT ![p] = NoExpiry]
    /\ UNCHANGED <<scenario, crashes, retries, due, offer, over, queued, tick, release, starts>>

(* The job is over for expireOffer. *)
JobEnds ==
    /\ scenario.releases /\ ~over
    /\ over' = TRUE
    /\ UNCHANGED <<scenario, crashes, status, retries, due, offer, queued, work, starts>>

(* The guardian accepts or declines; its expiry stays queued.              *)
Answered(e) ==
    /\ offer[e] = "open"
    /\ offer' = [offer EXCEPT ![e] = "closed"]
    /\ UNCHANGED <<scenario, crashes, status, retries, due, over, queued, work, starts>>

(* releaseInFlightOffersForJob, for one offer: its expiry is cancelled,    *)
(* where this process can reach it, and then the offer if still open.      *)
ReleaseBegins(p, e) ==
    /\ scenario.releases
    /\ ~Down(p) /\ release[p] = 0 /\ offer[e] = "open"
    /\ release' = [release EXCEPT ![p] = e]
    /\ queued' = queued \ {<<"redis", e>>, <<p, e>>}
    /\ UNCHANGED <<scenario, crashes, rows, tick, expiry, starts>>

(* Mutant: the offer stays open. *)
ReleaseExpiryOnly(p) ==
    /\ release[p] # 0
    /\ release' = [release EXCEPT ![p] = 0]
    /\ UNCHANGED <<scenario, crashes, rows, queued, tick, expiry, starts>>

ReleaseEnds(p) ==
    /\ release[p] # 0
    /\ offer' = [offer EXCEPT ![release[p]] = IF @ = "open" THEN "released" ELSE @]
    /\ release' = [release EXCEPT ![p] = 0]
    /\ UNCHANGED <<scenario, crashes, status, retries, due, over, queued, tick, expiry, starts>>

-----------------------------------------------------------------------------
Crash(p) == crashes < scenario.crashes /\ ~Down(p) /\ Dies(p)

Restart(p) ==
    /\ Down(p)
    /\ Works(p, Resting)
    /\ UNCHANGED <<scenario, crashes, rows, queued, expiry, release, starts>>

-----------------------------------------------------------------------------
Tick(p) ==
    \/ Restart(p) \/ ClaimLock(p) \/ ClaimCommit(p)
    \/ (\E e \in Events : ProcessEvent(p, e)) \/ TickEnds(p)
    \/ HandlerReturns(p, "completed") \/ HandlerReturns(p, "failed")
    \/ HandlerOffers(p) \/ FinalizeOffer(p) \/ FinalizeThrows(p)
    \/ MarkCompleted(p) \/ MarkCompletedThrows(p) \/ MarkFailed(p) \/ MarkFailedThrows(p)

Expire(p) == (\E e \in Events : ExpiryFires(p, e)) \/ ExpiryRead(p) \/ ExpiryTooEarly(p)
             \/ ExpiryWrite(p) \/ ExpiryStale(p) \/ ExpiryEnds(p)

Next ==
    \/ JobEnds
    \/ \E e \in Events : OthersEnqueue(e) \/ FallsDue(e) \/ Answered(e)
    \/ \E p \in Processes : \/ Tick(p) \/ Expire(p) \/ Crash(p)
                            \/ (\E e \in Events : ReleaseBegins(p, e)) \/ ReleaseEnds(p)

Spec == Init /\ [][Next]_vars

(* Time passes, ticks recur every two seconds, handlers come to an end,    *)
(* queued expiries fire, and a process that died is started again.         *)
FairSpec ==
    /\ Spec
    /\ \A e \in Events : WF_vars(FallsDue(e))
    /\ \A p \in Processes : WF_vars(Tick(p)) /\ WF_vars(Expire(p)) /\ WF_vars(ReleaseEnds(p))

-----------------------------------------------------------------------------
Ticks == [at : {"down", "idle", "claim", "next", "run", "finalize", "completed", "failed"},
          batch : SUBSET Events, event : 0 .. MaxEvents]

(* The outbox, the queue and the processes have the types of the schema    *)
(* and of the code; an expiry is queued in one kind of place.              *)
TypeOK ==
    /\ scenario \in Scenario /\ crashes \in Nat
    /\ status \in [Events -> EventStatus] /\ retries \in [Events -> Nat]
    /\ due \subseteq Events /\ offer \in [Events -> OfferStatus] /\ over \in BOOLEAN
    /\ queued \subseteq (IF scenario.redis THEN {"redis"} ELSE Processes) \X Events
    /\ tick \in [Processes -> Ticks]
    /\ expiry \in [Processes -> [at : {"idle", "read", "write", "next"}, event : 0 .. MaxEvents]]
    /\ release \in [Processes -> 0 .. MaxEvents]
    /\ starts \in [Events -> Nat]

(* However many processes tick at the same time, and wherever they die:    *)
(* the handler of an event is started at most once.                        *)
StartedOnce == \A e \in Events : starts[e] <= 1

(* As long as no process dies and no statement fails that records how a    *)
(* handler went: every due event is settled.                               *)
Settled(e) == status[e] \in {"COMPLETED", "FAILED", "DEAD_LETTER"}
DueEventsSettle == ~scenario.failures => \A e \in Events : e \in due ~> Settled(e) \/ crashes > 0

(* With Redis wherever processes die, without it until one dies, and as    *)
(* long as clocks agree: an offer whose expiry was queued does not stay    *)
(* open, unless its job is over.                                           *)
Queued(e) == \E place \in {"redis"} \cup Processes : <<place, e>> \in queued
OffersEnd ==
    \A e \in Events :
        ~scenario.skew /\ Queued(e) /\ offer[e] = "open"
            ~> offer[e] # "open" \/ over \/ (crashes > 0 /\ ~scenario.redis)

(* An event whose handler failed is tried again, as the scheduledAt that   *)
(* markFailed writes and its limit of five attempts say.                   *)
FailedIsRetried == \A e \in Events : status[e] = "FAILED" ~> status[e] # "FAILED"
=============================================================================
