--------------------------- MODULE Outbox_proofs ---------------------------
(***************************************************************************)
(* Theorems about Outbox, for any number of processes, events and deaths:  *)
(* its types, and that no handler is started twice for the same event.     *)
(***************************************************************************)
EXTENDS Outbox, TLAPS

(* A worker that runs a handler, or records how it went, knows its event.  *)
Busy == {"run", "finalize", "completed", "failed"}
Places == {t \in Ticks : t.at \in Busy => t.event \in Events}

(* An expiry that a process handles. *)
Expiries == [at : {"idle", "read", "write", "next"}, event : 0 .. MaxEvents]

WorkersTyped == tick \in [Processes -> Places]
RestTyped ==
    /\ scenario \in Scenario /\ crashes \in Nat
    /\ status \in [Events -> EventStatus] /\ retries \in [Events -> Nat]
    /\ due \subseteq Events /\ offer \in [Events -> OfferStatus] /\ over \in BOOLEAN
    /\ queued \subseteq (IF scenario.redis THEN {"redis"} ELSE Processes) \X Events
    /\ expiry \in [Processes -> Expiries]
    /\ release \in [Processes -> 0 .. MaxEvents]
    /\ starts \in [Events -> Nat]

(* The two parts give the type invariant. *)
LEMMA TypeParts == WorkersTyped /\ RestTyped => TypeOK
  BY DEF WorkersTyped, RestTyped, TypeOK, Places, Expiries

(* Rows are in one batch at most; those of a batch that was committed are  *)
(* not PENDING; and what was started once is neither PENDING, nor in a     *)
(* batch.                                                                  *)
Apart ==
    /\ \A p, q \in Processes : p # q => tick[p].batch \cap tick[q].batch = {}
    /\ \A p \in Processes : tick[p].at # "claim" =>
           \A e \in tick[p].batch : status[e] \notin {"none", "PENDING"}
    /\ \A e \in Events : starts[e] # 0 =>
           /\ starts[e] = 1 /\ status[e] \notin {"none", "PENDING"}
           /\ \A p \in Processes : e \notin tick[p].batch

(* A worker that goes on to a place it can be in stays well-formed. *)
LEMMA WorksTyped ==
    ASSUME WorkersTyped, NEW p \in Processes, NEW t \in Places, Works(p, t)
    PROVE  WorkersTyped'
  BY DEF WorkersTyped, Works

(* Where a worker can go from where it is. *)
LEMMA PlacesNext ==
    ASSUME WorkersTyped, NEW p \in Processes
    PROVE  /\ tick[p] \in Places
           /\ Resting \in Places /\ [Resting EXCEPT !.at = "down"] \in Places
           /\ \A s \in {"next", "claim"} : [tick[p] EXCEPT !.at = s] \in Places
           /\ [tick[p] EXCEPT !.at = "next", !.event = 0] \in Places
           /\ tick[p].at \in Busy => \A s \in Busy : [tick[p] EXCEPT !.at = s] \in Places
           /\ \A batch \in SUBSET Events, e \in Events :
                 /\ [at |-> "claim", batch |-> batch, event |-> 0] \in Places
                 /\ [at |-> "run", batch |-> batch, event |-> e] \in Places
  <1>1. tick[p] \in Places
    BY DEF WorkersTyped
  <1>2. 0 \in 0 .. MaxEvents /\ Events \subseteq 0 .. MaxEvents
    BY SomeEvents DEF Events
  <1> QED
    BY <1>1, <1>2 DEF Places, Ticks, Busy, Resting

(* Every step keeps the types of the workers. *)
LEMMA WorkersStep ==
  ASSUME WorkersTyped, RestTyped, [Next]_vars
  PROVE  WorkersTyped'
  <1>1. CASE UNCHANGED vars
    BY <1>1 DEF vars, work, WorkersTyped
  <1>2. CASE JobEnds
    BY <1>2 DEF JobEnds, work, WorkersTyped
  <1>3. ASSUME NEW e \in Events, OthersEnqueue(e) \/ FallsDue(e) \/ Answered(e) PROVE WorkersTyped'
    BY <1>3 DEF OthersEnqueue, FallsDue, Answered, work, WorkersTyped
  <1>4. ASSUME NEW p \in Processes, Tick(p) PROVE WorkersTyped'
    <2>0. due \subseteq Events /\ tick[p].batch \subseteq Events
      <3>1. tick[p] \in Places
        BY DEF WorkersTyped
      <3> QED
        BY <3>1 DEF RestTyped, Places, Ticks
    <2> USE <2>0, PlacesNext, WorksTyped DEF Busy
    <2>1. CASE Restart(p)
      BY <2>1 DEF Restart
    <2>2. CASE ClaimLock(p)
      BY <2>2 DEF ClaimLock, Claimable
    <2>3. CASE ClaimCommit(p)
      BY <2>3 DEF ClaimCommit, Claiming
    <2>4. ASSUME NEW e \in Events, ProcessEvent(p, e) PROVE WorkersTyped'
      BY <2>4, tick[p].batch \ {e} \in SUBSET Events DEF ProcessEvent
    <2>5. CASE TickEnds(p)
      BY <2>5 DEF TickEnds
    <2>6. ASSUME NEW place \in {"completed", "failed"}, HandlerReturns(p, place) PROVE WorkersTyped'
      BY <2>6 DEF HandlerReturns
    <2>7. CASE HandlerOffers(p)
      BY <2>7 DEF HandlerOffers
    <2>8. CASE FinalizeOffer(p) \/ FinalizeThrows(p)
      BY <2>8 DEF FinalizeOffer, FinalizeThrows
    <2>9. CASE MarkCompleted(p)
      BY <2>9 DEF MarkCompleted
    <2>10. CASE MarkCompletedThrows(p)
      BY <2>10 DEF MarkCompletedThrows
    <2>11. CASE MarkFailed(p)
      BY <2>11 DEF MarkFailed
    <2>12. CASE MarkFailedThrows(p)
      BY <2>12 DEF MarkFailedThrows
    <2> QED
      BY <1>4, <2>1, <2>2, <2>3, <2>4, <2>5, <2>6, <2>7, <2>8, <2>9, <2>10, <2>11, <2>12
            DEF Tick
  <1>5. ASSUME NEW p \in Processes, Expire(p) PROVE WorkersTyped'
    BY <1>5, PlacesNext, WorksTyped DEF Expire, ExpiryFires, ExpiryRead, ExpiryTooEarly, ExpiryWrite,
       ExpiryStale, ExpiryEnds, Dies, WorkersTyped
  <1>6. ASSUME NEW p \in Processes, Crash(p) PROVE WorkersTyped'
    BY <1>6, PlacesNext, WorksTyped DEF Crash, Dies
  <1>7. ASSUME NEW p \in Processes, NEW e \in Events, ReleaseBegins(p, e) PROVE WorkersTyped'
    BY <1>7 DEF ReleaseBegins, WorkersTyped
  <1>8. ASSUME NEW p \in Processes, ReleaseEnds(p) PROVE WorkersTyped'
    BY <1>8 DEF ReleaseEnds, WorkersTyped
  <1> QED
    BY <1>1, <1>2, <1>3, <1>4, <1>5, <1>6, <1>7, <1>8 DEF Next

(* A death puts the expiry that was handled back to the queue of Redis, or *)
(* drops the timers.                                                       *)
LEMMA DeathTyped ==
  ASSUME RestTyped, NEW p \in Processes, Dies(p)
  PROVE  RestTyped'
  <1>1. 0 \in 0 .. MaxEvents /\ (0 .. MaxEvents) \ {0} \subseteq Events /\ NoExpiry \in Expiries
    BY SomeEvents DEF Events, NoExpiry, Expiries
  <1>2. crashes' \in Nat /\ release' \in [Processes -> 0 .. MaxEvents]
    BY <1>1 DEF Dies, RestTyped
  <1>3. expiry' \in [Processes -> Expiries]
    BY <1>1 DEF Dies, RestTyped
  <1>4. queued' \subseteq (IF scenario.redis THEN {"redis"} ELSE Processes) \X Events
    <2>1. expiry[p].event \in 0 .. MaxEvents
      BY DEF RestTyped, Expiries
    <2>2. CASE scenario.redis
      BY <1>1, <2>1, <2>2 DEF Dies, RestTyped
    <2>3. CASE ~scenario.redis
      BY <2>3 DEF Dies, RestTyped
    <2> QED
      BY <2>2, <2>3
  <1> QED
    BY <1>2, <1>3, <1>4 DEF Dies, RestTyped, rows

(* Every step keeps the types of the rows, the queue and the rest. *)
LEMMA RestStep ==
  ASSUME WorkersTyped, RestTyped, [Next]_vars
  PROVE  RestTyped'
  <1>0. /\ RestTyped /\ WorkersTyped /\ SomeEvents /\ scenario.redis \in BOOLEAN
        /\ \A p \in Processes : tick[p] \in Places /\ (tick[p].at \in Busy => tick[p].event \in Events)
        /\ Events \subseteq 0 .. MaxEvents /\ 0 \in 0 .. MaxEvents /\ (0 .. MaxEvents) \ {0} \subseteq Events
    BY SomeEvents DEF WorkersTyped, RestTyped, Places, Scenario, Events
  <1>1. CASE UNCHANGED vars
    BY <1>0, <1>1 DEF vars, rows, work, RestTyped
  <1>2. CASE JobEnds
    BY <1>0, <1>2 DEF JobEnds, work, RestTyped
  <1>3. ASSUME NEW e \in Events, OthersEnqueue(e) \/ FallsDue(e) \/ Answered(e) PROVE RestTyped'
    <2> USE <1>0 DEF rows, work, Works, RestTyped, EventStatus, OfferStatus,
                NoExpiry, Busy
    <2>1. CASE OthersEnqueue(e)
      BY <2>1 DEF OthersEnqueue, Enqueue, Enqueued, Unused
    <2>2. CASE FallsDue(e)
      BY <2>2 DEF FallsDue
    <2>3. CASE Answered(e)
      BY <2>3 DEF Answered
    <2> QED
      BY <1>3, <2>1, <2>2, <2>3
  <1>4. ASSUME NEW p \in Processes, Tick(p) PROVE RestTyped'
    <2> USE <1>0 DEF rows, work, Works, RestTyped, EventStatus, OfferStatus,
                NoExpiry, Busy
    <2>1. CASE Restart(p)
      BY <2>1 DEF Restart
    <2>2. CASE ClaimLock(p)
      BY <2>2 DEF ClaimLock, Claimable, LockedRows, Claiming
    <2>3. CASE ClaimCommit(p)
      BY <2>3 DEF ClaimCommit, Claiming
    <2>4. ASSUME NEW e \in Events, ProcessEvent(p, e) PROVE RestTyped'
      BY <2>4 DEF ProcessEvent
    <2>5. CASE TickEnds(p)
      BY <2>5 DEF TickEnds
    <2>6. ASSUME NEW place \in {"completed", "failed"}, HandlerReturns(p, place) PROVE RestTyped'
      BY <2>6 DEF HandlerReturns
    <2>7. CASE HandlerOffers(p)
      BY <2>7 DEF HandlerOffers
    <2>8. CASE FinalizeOffer(p) \/ FinalizeThrows(p)
      BY <2>8 DEF FinalizeOffer, FinalizeThrows, Place
    <2>9. CASE MarkCompleted(p)
      BY <2>9 DEF MarkCompleted
    <2>10. CASE MarkCompletedThrows(p)
      BY <2>10 DEF MarkCompletedThrows
    <2>11. CASE MarkFailed(p)
      BY <2>11 DEF MarkFailed, FailedStatus
    <2>12. CASE MarkFailedThrows(p)
      BY <2>12 DEF MarkFailedThrows
    <2> QED
      BY <1>4, <2>1, <2>2, <2>3, <2>4, <2>5, <2>6, <2>7, <2>8, <2>9, <2>10, <2>11, <2>12
            DEF Tick
  <1>5. ASSUME NEW p \in Processes, Expire(p) PROVE RestTyped'
    <2>0. /\ expiry[p] \in Expiries /\ NoExpiry \in Expiries
          /\ \A s \in {"write", "next"} : [expiry[p] EXCEPT !.at = s] \in Expiries
          /\ \A e \in Events : [at |-> "read", event |-> e] \in Expiries
      BY <1>0 DEF RestTyped, Expiries, NoExpiry
    <2>1. ASSUME NEW e \in Events, ExpiryFires(p, e) PROVE RestTyped'
      BY <1>0, <2>0, <2>1 DEF ExpiryFires, rows, RestTyped
    <2>2. CASE ExpiryRead(p) \/ ExpiryTooEarly(p)
      BY <1>0, <2>0, <2>2 DEF ExpiryRead, ExpiryTooEarly, rows, RestTyped
    <2>3. CASE ExpiryWrite(p)
      <3>1. offer' \in [Events -> OfferStatus] /\ expiry' \in [Processes -> Expiries]
        BY <1>0, <2>0, <2>3 DEF ExpiryWrite, RestTyped, OfferStatus
      <3> QED
        BY <1>0, <2>3, <3>1 DEF ExpiryWrite, RestTyped
    <2>4. CASE ExpiryStale(p)
      <3>1. CASE scenario.redis
        BY <1>0, <2>0, <2>4, <3>1 DEF ExpiryStale, rows, RestTyped
      <3>2. CASE ~scenario.redis
        BY <2>4, <3>2, DeathTyped DEF ExpiryStale
      <3> QED
        BY <3>1, <3>2
    <2>5. CASE ExpiryEnds(p)
      <3>1. status' \in [Events -> EventStatus]
        BY <1>0, <2>5 DEF ExpiryEnds, Enqueue, Enqueued, Unused, RestTyped, EventStatus
      <3> QED
        BY <1>0, <2>0, <2>5, <3>1 DEF ExpiryEnds, RestTyped
    <2> QED
      BY <1>5, <2>1, <2>2, <2>3, <2>4, <2>5
            DEF Expire
  <1>6. ASSUME NEW p \in Processes, Crash(p) PROVE RestTyped'
    BY <1>6, DeathTyped DEF Crash
  <1>7. ASSUME NEW p \in Processes, NEW e \in Events, ReleaseBegins(p, e) PROVE RestTyped'
    BY <1>0, <1>7 DEF ReleaseBegins, rows, Works, RestTyped, EventStatus, OfferStatus,
                NoExpiry, Busy
  <1>8. ASSUME NEW p \in Processes, ReleaseEnds(p) PROVE RestTyped'
    BY <1>0, <1>8 DEF ReleaseEnds, rows, Works, RestTyped, EventStatus, OfferStatus,
                NoExpiry, Busy
  <1> QED
    BY <1>1, <1>2, <1>3, <1>4, <1>5, <1>6, <1>7, <1>8 DEF Next

(* Every step keeps batches and starts apart. *)
LEMMA ApartStep ==
  ASSUME WorkersTyped, RestTyped, Apart, [Next]_vars
  PROVE  Apart'
  <1>0. /\ Apart /\ tick \in [Processes -> Ticks]
        /\ status \in [Events -> EventStatus] /\ starts \in [Events -> Nat]
        /\ \A p \in Processes : tick[p].event \in 0 .. MaxEvents
    BY DEF WorkersTyped, RestTyped, Places, Ticks
  <1>1. CASE UNCHANGED vars
    BY <1>0, <1>1 DEF vars, rows, work, Apart
  <1>2. CASE JobEnds
    BY <1>0, <1>2 DEF JobEnds, work, Apart
  <1>3. ASSUME NEW e \in Events, OthersEnqueue(e) \/ FallsDue(e) \/ Answered(e) PROVE Apart'
    <2> USE <1>0 DEF rows, work, Works, Apart, Resting,
                EventStatus, Ticks
    <2>1. CASE OthersEnqueue(e)
      BY <2>1 DEF OthersEnqueue, Enqueue, Enqueued, Unused
    <2>2. CASE FallsDue(e)
      BY <2>2 DEF FallsDue
    <2>3. CASE Answered(e)
      BY <2>3 DEF Answered
    <2> QED
      BY <1>3, <2>1, <2>2, <2>3
  <1>4. ASSUME NEW p \in Processes, Tick(p) PROVE Apart'
    <2> USE <1>0 DEF rows, work, Works, Apart, Resting,
                EventStatus, Ticks
    <2>1. CASE Restart(p)
      BY <2>1 DEF Restart
    <2>2. CASE ClaimLock(p)
      BY <2>2 DEF ClaimLock, Claimable, LockedRows, Claiming
    <2>3. CASE ClaimCommit(p)
      BY <2>3 DEF ClaimCommit, Claiming
    <2>4. ASSUME NEW e \in Events, ProcessEvent(p, e) PROVE Apart'
      BY <2>4 DEF ProcessEvent
    <2>5. CASE TickEnds(p)
      BY <2>5 DEF TickEnds
    <2>6. ASSUME NEW place \in {"completed", "failed"}, HandlerReturns(p, place) PROVE Apart'
      BY <2>6 DEF HandlerReturns
    <2>7. CASE HandlerOffers(p)
      BY <2>7 DEF HandlerOffers
    <2>8. CASE FinalizeOffer(p) \/ FinalizeThrows(p)
      BY <2>8 DEF FinalizeOffer, FinalizeThrows, Place
    <2>9. CASE MarkCompleted(p)
      BY <2>9 DEF MarkCompleted
    <2>10. CASE MarkCompletedThrows(p)
      BY <2>10 DEF MarkCompletedThrows
    <2>11. CASE MarkFailed(p)
      BY <2>11 DEF MarkFailed, FailedStatus
    <2>12. CASE MarkFailedThrows(p)
      BY <2>12 DEF MarkFailedThrows
    <2> QED
      BY <1>4, <2>1, <2>2, <2>3, <2>4, <2>5, <2>6, <2>7, <2>8, <2>9, <2>10, <2>11, <2>12
            DEF Tick
  <1>5. ASSUME NEW p \in Processes, Expire(p) PROVE Apart'
    <2> USE <1>0 DEF rows, work, Works, Apart, Resting,
                EventStatus, Ticks
    <2>1. ASSUME NEW e \in Events, ExpiryFires(p, e) PROVE Apart'
      BY <2>1 DEF ExpiryFires
    <2>2. CASE ExpiryRead(p) \/ ExpiryTooEarly(p)
      BY <2>2 DEF ExpiryRead, ExpiryTooEarly
    <2>3. CASE ExpiryWrite(p)
      BY <2>3 DEF ExpiryWrite
    <2>4. CASE ExpiryStale(p)
      <3>1. CASE scenario.redis
        BY <2>4, <3>1 DEF ExpiryStale
      <3>2. CASE ~scenario.redis
        BY <2>4, <3>2 DEF ExpiryStale, Dies
      <3> QED
        BY <3>1, <3>2
    <2>5. CASE ExpiryEnds(p)
      BY <2>5 DEF ExpiryEnds, Enqueue, Enqueued, Unused
    <2> QED
      BY <1>5, <2>1, <2>2, <2>3, <2>4, <2>5
            DEF Expire
  <1>6. ASSUME NEW p \in Processes, Crash(p) PROVE Apart'
    BY <1>0, <1>6 DEF Crash, Dies, rows, Works, Apart, Resting,
                EventStatus, Ticks
  <1>7. ASSUME NEW p \in Processes, NEW e \in Events, ReleaseBegins(p, e) PROVE Apart'
    BY <1>0, <1>7 DEF ReleaseBegins, rows, Works, Apart, Resting,
                EventStatus, Ticks
  <1>8. ASSUME NEW p \in Processes, ReleaseEnds(p) PROVE Apart'
    BY <1>0, <1>8 DEF ReleaseEnds, rows, Works, Apart, Resting,
                EventStatus, Ticks
  <1> QED
    BY <1>1, <1>2, <1>3, <1>4, <1>5, <1>6, <1>7, <1>8 DEF Next

-----------------------------------------------------------------------------
(* No two batches share an event, and an event that was started is no      *)
(* longer PENDING nor in a batch (claimBatch, processEvent).               *)
THEOREM OutboxInvariant == Spec => [](WorkersTyped /\ RestTyped /\ Apart)
  <1>1. Init => WorkersTyped /\ RestTyped /\ Apart
    <2> SUFFICES ASSUME Init PROVE WorkersTyped /\ RestTyped /\ Apart
      OBVIOUS
    <2>1. WorkersTyped
      BY SomeEvents DEF Init, WorkersTyped, Resting, Places, Ticks, Busy, Events
    <2>2. RestTyped
      <3>1. 0 \in 0 .. MaxEvents /\ scenario \in Scenario
        BY SomeEvents, SomeScenario DEF Init
      <3>2. NoExpiry \in Expiries
        BY <3>1 DEF NoExpiry, Expiries
      <3> QED
        BY <3>1, <3>2 DEF Init, RestTyped, EventStatus, OfferStatus
    <2>3. Apart
      BY DEF Init, Apart, Resting
    <2> QED
      BY <2>1, <2>2, <2>3
  <1>2. WorkersTyped /\ RestTyped /\ Apart /\ [Next]_vars => (WorkersTyped /\ RestTyped /\ Apart)'
    BY WorkersStep, RestStep, ApartStep
  <1> QED
    BY <1>1, <1>2, PTL DEF Spec

(* The outbox, the queue and the processes have their types. *)
THEOREM TypeCorrect == Spec => []TypeOK
  BY OutboxInvariant, TypeParts, PTL

(* The lock of claimBatch and the status it writes hand every event to one *)
(* handler, however many processes there are and wherever they die.        *)
THEOREM HandlersStartOnce == Spec => []StartedOnce
  <1>1. WorkersTyped /\ RestTyped /\ Apart => StartedOnce
    BY DEF RestTyped, Apart, StartedOnce
  <1> QED
    BY OutboxInvariant, <1>1, PTL

=============================================================================
