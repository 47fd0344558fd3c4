---------------------------- MODULE Pricing_proofs ----------------------------
(***************************************************************************)
(* Theorems about Pricing, for any policies, prices, windows, scenarios    *)
(* and number of reliefs: its types; what is charged and what is paid is   *)
(* what was agreed, as long as clients do not answer a release while the   *)
(* automation does; and no anomaly is alerted twice.                       *)
(***************************************************************************)
EXTENDS Pricing, FiniteSetTheorems, TLAPS

-----------------------------------------------------------------------------
(* The night.                                                              *)

(* The night begins on a whole hour, and goes on for an hour at least.     *)
LEMMA NightBegins ==
    ASSUME NEW t \in Nat, ~NightHour(t), NightHour(t + 1)
    PROVE  NightHour(t + 2)
  BY DEF NightHour, Day, Hour

(* The loop looks at every second tick from the start on: what it does not *)
(* see of the night is at most the last tick of the booking.               *)
LEMMA NightSeen ==
    ASSUME NEW start \in Nat, NEW end \in Nat
    PROVE  LET night == {t \in start .. end - 1 : NightHour(t)}
           IN IF isNightShift(start, end) THEN night # {} ELSE Cardinality(night) < Hour
  <1> DEFINE night == {t \in start .. end - 1 : NightHour(t)}
  <1>1. CASE isNightShift(start, end)
    <2>1. PICK k \in 0 .. (end - start) : start + Hour * k < end /\ NightHour(start + Hour * k)
      BY <1>1 DEF isNightShift
    <2>2. start + Hour * k \in start .. end - 1
      BY <2>1 DEF Hour
    <2> QED
      BY <1>1, <2>1, <2>2
  <1>2. CASE ~isNightShift(start, end)
    <2>1. ASSUME NEW k \in Nat, start + 2 * k < end PROVE ~NightHour(start + 2 * k)
      <3>1. k \in 0 .. (end - start)
        BY <2>1
      <3> QED
        BY <1>2, <2>1, <3>1 DEF isNightShift, Hour
    <2>2. ASSUME NEW t \in start .. end - 1, NightHour(t) PROVE t = end - 1
      <3>1. PICK k \in Nat : t = start + 2 * k \/ t = start + 2 * k + 1
        <4>1. (t - start) \div 2 \in Nat
              /\ (t = start + 2 * ((t - start) \div 2) \/ t = start + 2 * ((t - start) \div 2) + 1)
          OBVIOUS
        <4> QED
          BY <4>1
      <3>2. t = start + 2 * k + 1 /\ ~NightHour(start + 2 * k)
        BY <2>1, <2>2, <3>1
      <3>3. NightHour(start + 2 * (k + 1))
        <4>1. start + 2 * k \in Nat /\ (start + 2 * k) + 1 = t
              /\ (start + 2 * k) + 2 = start + 2 * (k + 1)
          BY <3>2
        <4>2. NightHour((start + 2 * k) + 1)
          BY <2>2, <4>1
        <4>3. NightHour((start + 2 * k) + 2)
          BY ONLY <3>2, <4>1, <4>2, NightBegins
        <4> QED
          BY <4>1, <4>3
      <3>4. ~(start + 2 * (k + 1) < end)
        <4>1. k + 1 \in Nat
          OBVIOUS
        <4> QED
          BY ONLY <2>1, <3>3, <4>1
      <3> QED
        BY <3>2, <3>4
    <2>3. night \subseteq {end - 1}
      BY <2>2
    <2>4. IsFiniteSet({end - 1}) /\ Cardinality({end - 1}) = 1
      BY FS_Singleton
    <2>5. IsFiniteSet(night) /\ Cardinality(night) <= 1
      BY ONLY <2>3, <2>4, FS_Subset
    <2>6. Cardinality(night) \in Nat
      BY ONLY <2>5, FS_CardinalityType
    <2> QED
      BY <1>2, <2>5, <2>6 DEF Hour
  <1> QED
    BY <1>1, <1>2

-----------------------------------------------------------------------------
(* Types.                                                                  *)

RowRecords == [status : AssignmentStatus, accepted : Times, arrived : Times, completed : Times,
               release : Resolution, autoAt : Times, terms : PayTerms]
JobRecords == [status : {"none", "PENDING", "IN_PROGRESS", "SEEKING_REPLACEMENT", "AWAITING_CONFIRMATION"},
               start : Nat, end : Nat, terms : BillingTerms]
InvoiceRecords == [status : {"none", "DRAFT", "PAID"}, hours : Nat, prorated : BOOLEAN,
                   model : {"HOURLY", "FLAT"}, night : BOOLEAN]
ScanRecords == [at : {"idle"} \cup Kinds, since : Int, todo : SUBSET Rows, row : Rows \cup {0}]

OfficeTyped ==
    /\ now \in Nat /\ changes \in Nat /\ scenario \in Scenario
    /\ billing \subseteq BillingPolicies /\ pay \subseteq PayPolicies /\ rules \subseteq PricingRules
    /\ active \in BOOLEAN
RowsTyped == job \in JobRecords /\ asg \in [Rows -> RowRecords] /\ worked \in [Rows -> Nat] /\ covered \in Nat
BooksTyped ==
    /\ invoice \in InvoiceRecords /\ earning \in [Rows -> Times]
    /\ releases \in [todo : SUBSET Rows, row : Rows \cup {0}]
ScansTyped ==
    /\ running \in BOOLEAN /\ scan \in [Timers -> ScanRecords] /\ alerts \in [Kinds -> [Rows -> Nat]]
    /\ \A s \in Timers : scan[s].row # 0 => scan[s].at \in Kinds

Typed == OfficeTyped /\ RowsTyped /\ BooksTyped /\ ScansTyped

(* A duration billed or paid is a number of ticks. *)
LEMMA DurationTyped ==
    /\ \A a, b \in Int : hoursBetween(a, b) \in Nat
    /\ \A m \in BillingPolicyModel, a, b, c \in Nat : Duration(m, a, b, c) \in Nat
    /\ \A r \in RowRecords : RowsTyped => computePayableDuration(r) \in Nat
  <1>1. \A a, b \in Int : hoursBetween(a, b) \in Nat
    BY DEF hoursBetween, Larger
  <1>2. ASSUME NEW m \in BillingPolicyModel, NEW a \in Nat, NEW b \in Nat, NEW c \in Nat
        PROVE  Duration(m, a, b, c) \in Nat
    BY <1>2 DEF BillingPolicyModel, Duration, Larger, Smaller
  <1>3. ASSUME NEW r \in RowRecords, RowsTyped PROVE computePayableDuration(r) \in Nat
    <2> DEFINE m == effectivePayModelForEarning(r.terms, isEarlyReleaseApproved(r.release))
               b == hoursBetween(job.start, job.end)
               c == hoursBetween(r.arrived, r.completed)
    <2>1. m \in BillingPolicyModel /\ r.terms.minimum \in Nat
      BY DEF RowRecords, PayTerms, PayPolicyModel, BillingPolicyModel, effectivePayModelForEarning
    <2>2. b \in Nat /\ c \in Nat
      <3>1. job.start \in Int /\ job.end \in Int /\ r.arrived \in Int /\ r.completed \in Int
        BY <1>3 DEF RowsTyped, JobRecords, RowRecords, Times, Never
      <3> QED
        BY <1>1, <3>1
    <2>3. Duration(m, r.terms.minimum, b, c) \in Nat
      BY ONLY <1>2, <2>1, <2>2
    <2> QED
      BY <2>3 DEF computePayableDuration
  <1> QED
    BY <1>1, <1>2, <1>3

-----------------------------------------------------------------------------
(* The order of the guardians.                                             *)

Arrived == Present \cup {"COMPLETED"}
Is(i, statuses) == asg[i].status \in statuses

(* Who is offered, or on the way, is the last so far; who is on site has   *)
(* relieved all who completed; guardians arrive in the order of rows.      *)
InOrder ==
    /\ \A i, j \in Rows : i < j /\ ~Is(j, {"none"}) => ~Is(i, Coming \cup {"none"})
    /\ \A i, j \in Rows : i # j /\ Is(i, Present) /\ Is(j, Arrived) => j < i /\ Is(j, {"COMPLETED"})
    /\ \A i, j \in Rows : i < j /\ Is(i, Arrived) /\ Is(j, Arrived) => asg[i].arrived <= asg[j].arrived

(* The times of a row are in their order, and the time worked is the time  *)
(* between them, up to now for who is on site.                             *)
Timed ==
    \A i \in Rows :
        /\ Is(i, {"ACCEPTED", "EN_ROUTE"}) => asg[i].accepted <= now
        /\ Is(i, {"none"} \cup Coming) => worked[i] = 0
        /\ Is(i, Arrived) => /\ asg[i].arrived \in Nat
                             /\ asg[i].accepted <= asg[i].arrived /\ asg[i].arrived <= now
        /\ Is(i, Present) => worked[i] = now - asg[i].arrived
        /\ Is(i, {"COMPLETED"}) => /\ asg[i].completed \in Nat /\ asg[i].arrived <= asg[i].completed
                                   /\ worked[i] = asg[i].completed - asg[i].arrived

(* While somebody is on site, somebody has been since the first arrival.   *)
FirstArrived(f) ==
    Is(f, Arrived) /\ \A j \in Rows : Is(j, Arrived) => f <= j /\ asg[f].arrived <= asg[j].arrived
Covering ==
    /\ (\A i \in Rows : ~Is(i, Arrived)) => covered = 0
    /\ \A i \in Rows : Is(i, Present) =>
           \E f \in Rows : FirstArrived(f) /\ covered = now - asg[f].arrived

Ordered == InOrder /\ Timed /\ Covering

(* A row that moves with the times it has, from offer to offer, or on      *)
(* site, or as it is.                                                      *)
Calm(i, row) ==
    /\ Row(i, row) /\ row.arrived = asg[i].arrived /\ row.completed = asg[i].completed
    /\ \/ /\ Is(i, Coming) /\ row.status \in Coming \cup {"NO_SHOW", "EXPIRED"}
          /\ row.status \in {"ACCEPTED", "EN_ROUTE"} => row.accepted <= now
       \/ Is(i, Present) /\ row.status \in Present /\ row.accepted = asg[i].accepted
       \/ row.status = asg[i].status /\ row.accepted = asg[i].accepted

(* Whom such a move leaves where they are. *)
LEMMA CalmKeeps ==
    ASSUME asg \in [Rows -> RowRecords], NEW i \in Rows, NEW row \in RowRecords, Calm(i, row)
    PROVE  /\ asg' \in [Rows -> RowRecords]
           /\ \A k \in Rows :
                 /\ asg'[k].arrived = asg[k].arrived /\ asg'[k].completed = asg[k].completed
                 /\ Is(k, Present)' <=> Is(k, Present)
                 /\ Is(k, {"COMPLETED"})' <=> Is(k, {"COMPLETED"})
                 /\ Is(k, {"none"})' <=> Is(k, {"none"})
                 /\ Is(k, Coming)' => Is(k, Coming)
                 /\ Is(k, Arrived) => asg'[k].accepted = asg[k].accepted
                 /\ k # i => asg'[k] = asg[k]
  <1>1. asg' = [asg EXCEPT ![i] = row]
    BY DEF Calm, Row
  <1> QED
    BY <1>1 DEF Calm, Is, Arrived, Present, Coming

(* Order, times and coverage survive it. *)
LEMMA CalmStep ==
    ASSUME RowsTyped, now \in Nat, Ordered, UNCHANGED <<now, history>>,
           NEW i \in Rows, NEW row \in RowRecords, Calm(i, row)
    PROVE  Ordered'
  <1>1. /\ \A k \in Rows :
                 /\ asg'[k].arrived = asg[k].arrived /\ asg'[k].completed = asg[k].completed
                 /\ Is(k, Present)' <=> Is(k, Present)
                 /\ Is(k, {"COMPLETED"})' <=> Is(k, {"COMPLETED"})
                 /\ Is(k, {"none"})' <=> Is(k, {"none"})
                 /\ Is(k, Coming)' => Is(k, Coming)
                 /\ Is(k, Arrived) => asg'[k].accepted = asg[k].accepted
                 /\ k # i => asg'[k] = asg[k]
        /\ now' = now /\ worked' = worked /\ covered' = covered
    BY CalmKeeps DEF RowsTyped, history
  <1>2. \A k \in Rows : /\ Is(k, Arrived)' <=> Is(k, Arrived)
                        /\ Is(k, Coming \cup {"none"})' => Is(k, Coming \cup {"none"})
    BY <1>1 DEF Is, Arrived
  <1>3. InOrder'
    BY <1>1, <1>2 DEF Ordered, InOrder
  <1>4. Timed'
    <2> SUFFICES ASSUME NEW k \in Rows
                 PROVE  /\ Is(k, {"ACCEPTED", "EN_ROUTE"})' => asg'[k].accepted <= now
                        /\ Is(k, {"none"} \cup Coming)' => worked[k] = 0
                        /\ Is(k, Arrived)' => asg'[k].arrived \in Nat /\ asg'[k].accepted <= asg'[k].arrived
                                              /\ asg'[k].arrived <= now
                        /\ Is(k, Present)' => worked[k] = now - asg'[k].arrived
                        /\ Is(k, {"COMPLETED"})' => /\ asg'[k].completed \in Nat
                                                    /\ asg'[k].arrived <= asg'[k].completed
                                                    /\ worked[k] = asg'[k].completed - asg'[k].arrived
      BY <1>1 DEF Timed
    <2>1. Is(k, {"none"} \cup Coming)' => Is(k, {"none"} \cup Coming)
      BY <1>1 DEF Is
    <2>2. Is(k, {"ACCEPTED", "EN_ROUTE"})' => asg'[k].accepted <= now
      BY <1>1 DEF Ordered, Timed, Calm, Row, RowsTyped, Is, Coming, Present
    <2> QED
      BY <1>1, <1>2, <2>1, <2>2 DEF Ordered, Timed
  <1>5. Covering'
    BY <1>1, <1>2 DEF Ordered, Covering, FirstArrived
  <1> QED
    BY <1>3, <1>4, <1>5 DEF Ordered

(* An offer is made when nobody else has one, to the first row without.    *)
LEMMA OfferStep ==
    ASSUME RowsTyped, now \in Nat, Ordered, NEW i \in Rows, Offer(i)
    PROVE  RowsTyped' /\ Ordered' /\ \A k \in Rows : /\ Is(k, Arrived)' <=> Is(k, Arrived)
                                                     /\ Is(k, Arrived) => asg'[k] = asg[k]
  <1>1. /\ asg' = [asg EXCEPT ![i] = [asg[i] EXCEPT !.status = "OFFERED"]]
        /\ Is(i, {"none"}) /\ \A j \in Rows : (j < i => ~Is(j, {"none"})) /\ ~Is(j, Coming)
        /\ UNCHANGED <<now, job, history>>
    BY DEF Offer, Moves, Row, Is
  <1>2. RowsTyped'
    BY <1>1 DEF RowsTyped, RowRecords, AssignmentStatus, history
  <1>3. \A k \in Rows : k # i => asg'[k] = asg[k]
    BY <1>1 DEF RowsTyped
  <1>4. asg'[i].status = "OFFERED" /\ asg[i].status = "none"
    BY <1>1 DEF RowsTyped, Is
  <1>5. \A k \in Rows : /\ Is(k, Arrived)' <=> Is(k, Arrived)
                        /\ Is(k, Present)' <=> Is(k, Present)
                        /\ Is(k, Arrived) => asg'[k] = asg[k]
    BY <1>3, <1>4 DEF Is, Arrived, Present
  <1>6. InOrder'
    <2>1. \A j, k \in Rows : j < k /\ ~Is(k, {"none"})' => ~Is(j, Coming \cup {"none"})'
      <3> SUFFICES ASSUME NEW j \in Rows, NEW k \in Rows, j < k, ~Is(k, {"none"})'
                   PROVE  ~Is(j, Coming \cup {"none"})'
        OBVIOUS
      <3>1. j \in Nat /\ k \in Nat /\ i \in Nat
        BY SomeRows
      <3>2. CASE k = i
        BY <1>1, <1>3, <3>1, <3>2 DEF Is
      <3>3. CASE k # i
        BY <1>1, <1>3, <1>4, <3>1, <3>3 DEF Is, Ordered, InOrder
      <3> QED
        BY <3>2, <3>3
    <2>2. \A j, k \in Rows : j # k /\ Is(j, Present)' /\ Is(k, Arrived)' => k < j /\ Is(k, {"COMPLETED"})'
      BY <1>5 DEF Ordered, InOrder, Is, Arrived
    <2>3. \A j, k \in Rows : j < k /\ Is(j, Arrived)' /\ Is(k, Arrived)' => asg'[j].arrived <= asg'[k].arrived
      BY <1>5 DEF Ordered, InOrder
    <2> QED
      BY <2>1, <2>2, <2>3 DEF InOrder
  <1>7. Timed'
    BY <1>1, <1>3, <1>4 DEF Ordered, Timed, Is, Arrived, Present, Coming, history
  <1>8. Covering'
    BY <1>1, <1>5 DEF Ordered, Covering, FirstArrived, history
  <1> QED
    BY <1>2, <1>5, <1>6, <1>7, <1>8 DEF Ordered

-----------------------------------------------------------------------------
(* Arrivals, handoffs, completions and time.                               *)

(* Nobody arrives before the job begins, and nobody is on site when it is  *)
(* done; only then there is an invoice.                                    *)
Staged ==
    /\ job.status \in {"none", "PENDING"} => \A i \in Rows : ~Is(i, Arrived)
    /\ job.status = "AWAITING_CONFIRMATION" => \A i \in Rows : ~Is(i, Present)
    /\ invoice.status # "none" => job.status = "AWAITING_CONFIRMATION"
    /\ job.start <= job.end

(* An arrival at a time, a departure at a time and a job that moves stay   *)
(* records of their kinds.                                                 *)
LEMMA FieldsTyped ==
    ASSUME RowsTyped, now \in Nat, NEW i \in Rows
    PROVE  /\ [asg[i] EXCEPT !.status = "ON_SITE", !.arrived = now] \in RowRecords
           /\ [asg[i] EXCEPT !.status = "COMPLETED", !.completed = now] \in RowRecords
           /\ [job EXCEPT !.status = "IN_PROGRESS"] \in JobRecords
           /\ [job EXCEPT !.status = "AWAITING_CONFIRMATION"] \in JobRecords
  <1>1. asg[i] \in RowRecords /\ job \in JobRecords
    BY DEF RowsTyped
  <1>2. /\ [asg[i] EXCEPT !.status = "ON_SITE", !.arrived = now] \in RowRecords
        /\ [asg[i] EXCEPT !.status = "COMPLETED", !.completed = now] \in RowRecords
    BY <1>1 DEF RowRecords, AssignmentStatus, Times
  <1>3. /\ [job EXCEPT !.status = "IN_PROGRESS"] \in JobRecords
        /\ [job EXCEPT !.status = "AWAITING_CONFIRMATION"] \in JobRecords
    BY <1>1 DEF JobRecords
  <1> QED
    BY <1>2, <1>3

(* The first guardian arrives: nothing was covered before. *)
LEMMA OnSiteStep ==
    ASSUME RowsTyped, now \in Nat, Ordered, Staged, NEW i \in Rows, OnSite(i)
    PROVE  RowsTyped' /\ Ordered' /\ job'.status = "IN_PROGRESS"
  <1>1. /\ asg' = [asg EXCEPT ![i] = [asg[i] EXCEPT !.status = "ON_SITE", !.arrived = now]]
        /\ job' = [job EXCEPT !.status = "IN_PROGRESS"]
        /\ asg[i].status = "EN_ROUTE" /\ (\A j \in Rows : ~Is(j, Arrived))
        /\ now' = now /\ worked' = worked /\ covered' = covered
    BY DEF OnSite, Row, JobMoves, Staged, history
  <1>2. RowsTyped' /\ job'.status = "IN_PROGRESS"
    <2>1. asg' \in [Rows -> RowRecords]
      BY <1>1, FieldsTyped DEF RowsTyped
    <2>2. job' \in JobRecords /\ job'.status = "IN_PROGRESS"
      BY <1>1, FieldsTyped DEF RowsTyped, JobRecords
    <2> QED
      BY <1>1, <2>1, <2>2 DEF RowsTyped
  <1>3. (\A k \in Rows : k # i => asg'[k] = asg[k])
        /\ asg'[i].status = "ON_SITE" /\ asg'[i].arrived = now /\ asg'[i].accepted = asg[i].accepted
    BY <1>1 DEF RowsTyped, RowRecords
  <1>4. InOrder'
    BY <1>1, <1>3 DEF Ordered, InOrder, Is, Arrived, Present, Coming
  <1>5. Timed'
    BY <1>1, <1>3 DEF Ordered, Timed, Is, Arrived, Present, Coming
  <1>6. Covering'
    <2>1. covered = 0
      BY <1>1 DEF Ordered, Covering
    <2>2. FirstArrived(i)' /\ Is(i, Arrived)'
      BY <1>1, <1>3, SomeRows DEF FirstArrived, Is, Arrived, Present
    <2>3. \A k \in Rows : Is(k, Present)' => k = i
      BY <1>1, <1>3 DEF Is, Arrived
    <2> QED
      BY <1>1, <1>3, <2>1, <2>2, <2>3 DEF Covering
  <1> QED
    BY <1>2, <1>4, <1>5, <1>6 DEF Ordered

(* The relief comes after everybody who was there, and the guardian        *)
(* relieved leaves at the same time.                                       *)
LEMMA HandoffStep ==
    ASSUME RowsTyped, now \in Nat, Ordered, NEW i \in Rows, executeReplacementHandoff(i)
    PROVE  RowsTyped' /\ Ordered' /\ job'.status = "IN_PROGRESS"
  <1>1. PICK d \in Rows : /\ asg[d].status = "AWAITING_RELIEF"
                          /\ asg' = [asg EXCEPT ![d] = [@ EXCEPT !.status = "COMPLETED", !.completed = now],
                                                ![i] = [@ EXCEPT !.status = "ON_SITE", !.arrived = now]]
    BY DEF executeReplacementHandoff, Relieves
  <1>2. /\ job' = [job EXCEPT !.status = "IN_PROGRESS"] /\ asg[i].status = "EN_ROUTE"
        /\ now' = now /\ worked' = worked /\ covered' = covered
    BY DEF executeReplacementHandoff, JobMoves, history
  <1>3. d # i
    BY <1>1, <1>2
  <1>4. asg' = [k \in Rows |-> IF k = i THEN [asg[i] EXCEPT !.status = "ON_SITE", !.arrived = now]
                               ELSE IF k = d THEN [asg[d] EXCEPT !.status = "COMPLETED", !.completed = now]
                               ELSE asg[k]]
    BY <1>1, <1>3 DEF RowsTyped
  <1>5. RowsTyped' /\ job'.status = "IN_PROGRESS"
    <2>1. asg' \in [Rows -> RowRecords]
      BY <1>4, FieldsTyped DEF RowsTyped
    <2>2. job' \in JobRecords /\ job'.status = "IN_PROGRESS"
      BY <1>2, FieldsTyped DEF RowsTyped, JobRecords
    <2> QED
      BY <1>2, <2>1, <2>2 DEF RowsTyped
  <1>6. /\ \A k \in Rows : k # i /\ k # d => asg'[k] = asg[k]
        /\ asg'[i].status = "ON_SITE" /\ asg'[i].arrived = now /\ asg'[i].accepted = asg[i].accepted
        /\ asg'[d].status = "COMPLETED" /\ asg'[d].arrived = asg[d].arrived /\ asg'[d].completed = now
        /\ asg'[d].accepted = asg[d].accepted
    BY <1>3, <1>4 DEF RowsTyped, RowRecords
  <1>7. \A k \in Rows : Is(k, Arrived)' <=> (k = i \/ Is(k, Arrived))
    BY <1>1, <1>6 DEF Is, Arrived, Present
  <1>8. \A k \in Rows : Is(k, Arrived) => k < i /\ (k = d \/ Is(k, {"COMPLETED"}))
    <2> SUFFICES ASSUME NEW k \in Rows, Is(k, Arrived) PROVE k < i /\ (k = d \/ Is(k, {"COMPLETED"}))
      OBVIOUS
    <2>1. k \in Nat /\ i \in Nat /\ k # i
      BY <1>2, SomeRows DEF Is, Arrived, Present
    <2>2. ~(i < k)
      BY <1>2 DEF Ordered, InOrder, Is, Arrived, Present, Coming
    <2>3. k = d \/ Is(k, {"COMPLETED"})
      BY <1>1 DEF Ordered, InOrder, Is, Present
    <2> QED
      BY <2>1, <2>2, <2>3
  <1>9. \A k \in Rows : Is(k, Arrived) => asg[k].arrived \in Nat /\ asg[k].arrived <= now
    BY DEF Ordered, Timed
  <1>10. InOrder'
    <2>0. \A k \in Rows : k \in Nat
      BY SomeRows
    <2>1. \A j, k \in Rows : j < k /\ ~Is(k, {"none"})' => ~Is(j, Coming \cup {"none"})'
      BY <1>1, <1>2, <1>6 DEF Ordered, InOrder, Is, Coming
    <2>2. \A j \in Rows : Is(j, Present)' => j = i
      BY <1>6, <1>8 DEF Is, Arrived, Present
    <2>3. \A k \in Rows : k # i /\ Is(k, Arrived)' => k < i /\ Is(k, {"COMPLETED"})'
      BY <1>6, <1>7, <1>8 DEF Is
    <2>4. \A j, k \in Rows : j < k /\ Is(j, Arrived)' /\ Is(k, Arrived)' => asg'[j].arrived <= asg'[k].arrived
      <3> SUFFICES ASSUME NEW j \in Rows, NEW k \in Rows, j < k, Is(j, Arrived)', Is(k, Arrived)'
                   PROVE  asg'[j].arrived <= asg'[k].arrived
        OBVIOUS
      <3>1. j # i
        BY <1>7, <1>8, <2>0
      <3>2. Is(j, Arrived) /\ asg'[j].arrived = asg[j].arrived
        BY <1>6, <1>7, <3>1
      <3>3. CASE k = i
        BY <1>6, <1>9, <3>2, <3>3
      <3>4. CASE k # i
        BY <1>6, <1>7, <3>2, <3>4 DEF Ordered, InOrder
      <3> QED
        BY <3>3, <3>4
    <2> QED
      BY <2>1, <2>2, <2>3, <2>4 DEF InOrder
  <1>11. Timed'
    <2> SUFFICES ASSUME NEW k \in Rows
                 PROVE  /\ Is(k, {"ACCEPTED", "EN_ROUTE"})' => asg'[k].accepted <= now
                        /\ Is(k, {"none"} \cup Coming)' => worked[k] = 0
                        /\ Is(k, Arrived)' => asg'[k].arrived \in Nat /\ asg'[k].accepted <= asg'[k].arrived
                                              /\ asg'[k].arrived <= now
                        /\ Is(k, Present)' => worked[k] = now - asg'[k].arrived
                        /\ Is(k, {"COMPLETED"})' => /\ asg'[k].completed \in Nat
                                                    /\ asg'[k].arrived <= asg'[k].completed
                                                    /\ worked[k] = asg'[k].completed - asg'[k].arrived
      BY <1>2 DEF Timed
    <2>1. CASE k = i
      BY <1>2, <1>6, <2>1 DEF Ordered, Timed, Is, Arrived, Present, Coming
    <2>2. CASE k = d
      BY <1>1, <1>6, <2>2 DEF Ordered, Timed, Is, Arrived, Present, Coming
    <2>3. CASE k # i /\ k # d
      BY <1>6, <2>3 DEF Ordered, Timed, Is
    <2> QED
      BY <2>1, <2>2, <2>3
  <1>12. Covering'
    <2>1. PICK f \in Rows : FirstArrived(f) /\ covered = now - asg[f].arrived
      BY <1>1 DEF Ordered, Covering, Is, Present
    <2>2. f # i /\ asg'[f].arrived = asg[f].arrived
      BY <1>2, <1>6, <2>1 DEF FirstArrived, Is, Arrived, Present
    <2>3. FirstArrived(f)'
      BY <1>6, <1>7, <1>8, <1>9, <2>1, <2>2, SomeRows DEF FirstArrived
    <2>4. Is(i, Arrived)'
      BY <1>7
    <2> QED
      BY <1>2, <2>1, <2>2, <2>3, <2>4 DEF Covering
  <1> QED
    BY <1>5, <1>10, <1>11, <1>12 DEF Ordered

(* The last guardian leaves. *)
LEMMA CompleteStep ==
    ASSUME RowsTyped, now \in Nat, Ordered, NEW i \in Rows, Complete(i)
    PROVE  /\ RowsTyped' /\ Ordered' /\ job'.status = "AWAITING_CONFIRMATION"
           /\ \A k \in Rows : ~Is(k, Present)' /\ (Is(k, Arrived)' <=> Is(k, Arrived))
  <1>1. /\ asg' = [asg EXCEPT ![i] = [asg[i] EXCEPT !.status = "COMPLETED", !.completed = now]]
        /\ job' = [job EXCEPT !.status = "AWAITING_CONFIRMATION"] /\ Is(i, Present)
        /\ now' = now /\ worked' = worked /\ covered' = covered
    BY DEF Complete, Row, JobMoves, Is, Present, history
  <1>2. RowsTyped' /\ job'.status = "AWAITING_CONFIRMATION"
    <2>1. asg' \in [Rows -> RowRecords]
      BY <1>1, FieldsTyped DEF RowsTyped
    <2>2. job' \in JobRecords /\ job'.status = "AWAITING_CONFIRMATION"
      BY <1>1, FieldsTyped DEF RowsTyped, JobRecords
    <2> QED
      BY <1>1, <2>1, <2>2 DEF RowsTyped
  <1>3. /\ \A k \in Rows : k # i => asg'[k] = asg[k]
        /\ asg'[i].status = "COMPLETED" /\ asg'[i].arrived = asg[i].arrived /\ asg'[i].completed = now
        /\ asg'[i].accepted = asg[i].accepted
    BY <1>1 DEF RowsTyped, RowRecords
  <1>4. \A k \in Rows : ~Is(k, Present)' /\ (Is(k, Arrived)' <=> Is(k, Arrived))
    BY <1>1, <1>3 DEF Ordered, InOrder, Is, Arrived, Present
  <1>5. InOrder'
    BY <1>1, <1>3, <1>4 DEF Ordered, InOrder, Is, Present, Coming
  <1>6. Timed'
    <2> SUFFICES ASSUME NEW k \in Rows
                 PROVE  /\ Is(k, {"ACCEPTED", "EN_ROUTE"})' => asg'[k].accepted <= now
                        /\ Is(k, {"none"} \cup Coming)' => worked[k] = 0
                        /\ Is(k, Arrived)' => asg'[k].arrived \in Nat /\ asg'[k].accepted <= asg'[k].arrived
                                              /\ asg'[k].arrived <= now
                        /\ Is(k, Present)' => worked[k] = now - asg'[k].arrived
                        /\ Is(k, {"COMPLETED"})' => /\ asg'[k].completed \in Nat
                                                    /\ asg'[k].arrived <= asg'[k].completed
                                                    /\ worked[k] = asg'[k].completed - asg'[k].arrived
      BY <1>1 DEF Timed
    <2>1. CASE k = i
      BY <1>1, <1>3, <2>1 DEF Ordered, Timed, Is, Arrived, Present, Coming
    <2>2. CASE k # i
      BY <1>3, <2>2 DEF Ordered, Timed, Is
    <2> QED
      BY <2>1, <2>2
  <1>7. Covering'
    BY <1>1, <1>4 DEF Covering, Is, Arrived
  <1> QED
    BY <1>2, <1>4, <1>5, <1>6, <1>7 DEF Ordered

(* Time passes for whoever is on site, and for the coverage. *)
LEMMA TickStep ==
    ASSUME RowsTyped, now \in Nat, Ordered, Tick
    PROVE  RowsTyped' /\ Ordered'
  <1>1. /\ now' = now + 1 /\ asg' = asg /\ job' = job
        /\ worked' = [i \in Rows |-> IF Is(i, Present) THEN worked[i] + 1 ELSE worked[i]]
        /\ covered' = IF \E i \in Rows : Is(i, Present) THEN covered + 1 ELSE covered
    BY DEF Tick, Is
  <1>0. \A k \in Rows : /\ Is(k, Present)' <=> Is(k, Present)
                        /\ Is(k, Arrived)' <=> Is(k, Arrived)
                        /\ Is(k, {"COMPLETED"})' <=> Is(k, {"COMPLETED"})
                        /\ Is(k, {"none"} \cup Coming)' <=> Is(k, {"none"} \cup Coming)
                        /\ Is(k, {"ACCEPTED", "EN_ROUTE"})' <=> Is(k, {"ACCEPTED", "EN_ROUTE"})
                        /\ FirstArrived(k)' <=> FirstArrived(k)
    BY <1>1 DEF Is, FirstArrived
  <1>2. RowsTyped'
    BY <1>1 DEF RowsTyped
  <1>3. InOrder'
    BY <1>1 DEF Ordered, InOrder, Is
  <1>4. Timed'
    <2> SUFFICES ASSUME NEW k \in Rows
                 PROVE  /\ Is(k, {"ACCEPTED", "EN_ROUTE"})' => asg'[k].accepted <= now'
                        /\ Is(k, {"none"} \cup Coming)' => worked'[k] = 0
                        /\ Is(k, Arrived)' => asg'[k].arrived \in Nat /\ asg'[k].accepted <= asg'[k].arrived
                                              /\ asg'[k].arrived <= now'
                        /\ Is(k, Present)' => worked'[k] = now' - asg'[k].arrived
                        /\ Is(k, {"COMPLETED"})' => /\ asg'[k].completed \in Nat
                                                    /\ asg'[k].arrived <= asg'[k].completed
                                                    /\ worked'[k] = asg'[k].completed - asg'[k].arrived
      BY DEF Timed
    <2>1. asg[k].accepted \in Int /\ now' = now + 1 /\ asg'[k] = asg[k]
      BY <1>1 DEF RowsTyped, RowRecords, Times, Never
    <2>2. worked'[k] = IF Is(k, Present) THEN worked[k] + 1 ELSE worked[k]
      BY <1>1
    <2>3. Is(k, Present) => ~Is(k, {"none"} \cup Coming) /\ ~Is(k, {"COMPLETED"}) /\ Is(k, Arrived)
      BY DEF Is, Present, Coming, Arrived
    <2>4. Is(k, {"ACCEPTED", "EN_ROUTE"})' => asg'[k].accepted <= now'
      BY <1>0, <2>1 DEF Ordered, Timed
    <2>5. Is(k, {"none"} \cup Coming)' => worked'[k] = 0
      BY <1>0, <2>2, <2>3 DEF Ordered, Timed
    <2>6. Is(k, Arrived)' => /\ asg'[k].arrived \in Nat /\ asg'[k].accepted <= asg'[k].arrived
                             /\ asg'[k].arrived <= now'
      BY <1>0, <2>1 DEF Ordered, Timed
    <2>7. Is(k, Present)' => worked'[k] = now' - asg'[k].arrived
      BY <1>0, <2>1, <2>2, <2>3 DEF Ordered, Timed
    <2>8. Is(k, {"COMPLETED"})' => /\ asg'[k].completed \in Nat
                                   /\ asg'[k].arrived <= asg'[k].completed
                                   /\ worked'[k] = asg'[k].completed - asg'[k].arrived
      BY <1>0, <2>1, <2>2, <2>3 DEF Ordered, Timed
    <2> QED
      BY <2>4, <2>5, <2>6, <2>7, <2>8
  <1>5. Covering'
    <2>1. (\A i \in Rows : ~Is(i, Arrived)) => covered' = 0
      BY <1>1 DEF Ordered, Covering, Is, Arrived
    <2>2. ASSUME NEW i \in Rows, Is(i, Present)
          PROVE  \E f \in Rows : FirstArrived(f) /\ covered' = now + 1 - asg[f].arrived
      <3>1. PICK f \in Rows : FirstArrived(f) /\ covered = now - asg[f].arrived
        BY <2>2 DEF Ordered, Covering
      <3>2. asg[f].arrived \in Nat /\ covered' = covered + 1
        BY <1>1, <2>2, <3>1 DEF Ordered, Timed, FirstArrived
      <3> QED
        BY <3>1, <3>2
    <2>3. ASSUME NEW i \in Rows, Is(i, Present)'
          PROVE  \E f \in Rows : FirstArrived(f)' /\ covered' = now' - asg'[f].arrived
      <3>1. PICK f \in Rows : FirstArrived(f) /\ covered' = now + 1 - asg[f].arrived
        BY <1>0, <2>2, <2>3
      <3>2. FirstArrived(f)'
        BY <1>0, <3>1
      <3>3. asg[f].arrived \in Int
        BY DEF RowsTyped, RowRecords, Times, Never
      <3>4. covered' = now' - asg'[f].arrived
        BY <1>1, <3>1, <3>3
      <3> QED
        BY <3>2, <3>4
    <2>4. (\A i \in Rows : ~Is(i, Arrived)') => covered' = 0
      BY <1>0, <2>1
    <2> QED
      BY <2>3, <2>4 DEF Covering
  <1> QED
    BY <1>2, <1>3, <1>4, <1>5 DEF Ordered

-----------------------------------------------------------------------------
(* The inductive invariant.                                                *)

(* What the automation is about to approve still is unanswered.            *)
Answered ==
    releases.row # 0 => Is(releases.row, {"EARLY_RELEASE_REQUESTED"}) /\ asg[releases.row].release = "none"

Agreed == ~scenario.overlap => Answered /\ ChargedAsAgreed /\ PaidAsAgreed

(* One scan runs at a time, and what it is about to alert is not yet.      *)
Scanning ==
    /\ \A s, t \in Timers : scan[s].at # "idle" /\ scan[t].at # "idle" => s = t
    /\ \A s \in Timers : scan[s].at # "idle" => running
    /\ \A s \in Timers : scan[s].row # 0 => alerts[scan[s].at][scan[s].row] = 0
    /\ AlertedOnce

IInv == Typed /\ Ordered /\ Staged /\ Agreed /\ Scanning

(* The parts of the invariant make the type invariant.                     *)
LEMMA TypeParts == Typed /\ Ordered => TypeOK
  <1> SUFFICES ASSUME Typed, Ordered PROVE TypeOK
    OBVIOUS
  <1>1. \A i, j \in Rows : asg[i].status \in Present /\ asg[j].status \in Present => i = j
    BY DEF Ordered, InOrder, Is, Arrived, Present
  <1>2. ASSUME NEW i \in Rows
        PROVE  LET a == asg[i] IN
                 /\ a.status \in Present \cup {"COMPLETED"} => a.arrived # Never /\ a.accepted <= a.arrived
                 /\ a.status = "COMPLETED" => a.completed # Never /\ a.arrived <= a.completed
    BY DEF Ordered, Timed, Is, Arrived, Never
  <1> QED
    BY <1>1, <1>2 DEF Typed, OfficeTyped, RowsTyped, BooksTyped, ScansTyped, RowRecords, JobRecords,
       InvoiceRecords, ScanRecords, TypeOK

(* The invariant holds initially. *)
LEMMA InvInit == Init => IInv
  <1> SUFFICES ASSUME Init PROVE IInv
    OBVIOUS
  <1>1. NoTerms \in PayTerms /\ NoRow \in RowRecords /\ NoJob \in JobRecords /\ NoInvoice \in InvoiceRecords
    BY DEF NoTerms, NoRow, NoJob, NoInvoice, PayTerms, BillingTerms, PayPolicyModel, BillingPolicyModel,
       RowRecords, JobRecords, InvoiceRecords, AssignmentStatus, Times, Never, Resolution
  <1>2. OfficeTyped
    BY SomeScenario, Bounds DEF Init, OfficeTyped, Scenario
  <1>3. RowsTyped /\ BooksTyped
    BY <1>1 DEF Init, RowsTyped, BooksTyped, Times
  <1>4. NoScan \in ScanRecords /\ NoScan.row = 0
    BY DEF NoScan, ScanRecords
  <1>5. ScansTyped
    BY <1>4 DEF Init, ScansTyped
  <1>6. \A i \in Rows : asg[i].status = "none" /\ worked[i] = 0
    BY DEF Init, NoRow
  <1>7. Ordered
    BY <1>6 DEF Init, Ordered, InOrder, Timed, Covering, Is, Arrived, Present, Coming
  <1>8. Staged
    BY <1>6 DEF Init, Staged, NoJob, NoInvoice, Is, Arrived, Present
  <1>9. Agreed
    BY DEF Init, Agreed, Answered, ChargedAsAgreed, PaidAsAgreed, NoInvoice
  <1>10. Scanning
    BY DEF Init, Scanning, NoScan, AlertedOnce
  <1> QED
    BY <1>2, <1>3, <1>5, <1>7, <1>8, <1>9, <1>10 DEF IInv, Typed

(* What was charged and paid stays as agreed while the rows it comes from  *)
(* stay as they are.                                                       *)
LEMMA AgreedKept ==
    ASSUME Typed, ChargedAsAgreed, PaidAsAgreed, UNCHANGED <<invoice, earning>>,
           invoice.status # "none" =>
               /\ job' = job /\ covered' = covered
               /\ \A k \in Rows : /\ Is(k, {"COMPLETED"})' <=> Is(k, {"COMPLETED"})
                                  /\ Is(k, {"COMPLETED"}) => asg'[k] = asg[k] /\ worked'[k] = worked[k]
    PROVE  ChargedAsAgreed' /\ PaidAsAgreed'
  <1>1. CASE invoice.status = "none"
    BY <1>1 DEF ChargedAsAgreed, PaidAsAgreed
  <1>2. CASE invoice.status # "none"
    <2>1. /\ job' = job /\ covered' = covered /\ invoice' = invoice /\ earning' = earning
          /\ \A k \in Rows : /\ asg'[k].status = "COMPLETED" <=> asg[k].status = "COMPLETED"
                             /\ asg[k].status = "COMPLETED" => asg'[k] = asg[k] /\ worked'[k] = worked[k]
      BY <1>2 DEF Is
    <2>2. HoursAsAgreed /\ NightIsCharged
      BY <1>2 DEF ChargedAsAgreed
    <2>3. HoursAsAgreed'
      BY <2>1, <2>2 DEF HoursAsAgreed
    <2>4. NightIsCharged'
      BY <2>1, <2>2 DEF NightIsCharged
    <2>5. PaidAsAgreed'
      BY <2>1 DEF PaidAsAgreed
    <2> QED
      BY <2>3, <2>4, <2>5 DEF ChargedAsAgreed
  <1> QED
    BY <1>1, <1>2

(* The rows of a draft, and the first and the last of them.                *)
LEMMA DraftRows ==
    ASSUME Typed, Ordered, NEW i \in Rows, Complete(i)
    PROVE  /\ Served' = {k \in Rows : Is(k, Arrived)}
           /\ LastOf(Served') = i
           /\ Coverage(Served') = covered /\ covered \in Nat
  <1>1. RowsTyped /\ now \in Nat
    BY DEF Typed, OfficeTyped
  <1>2. /\ RowsTyped' /\ Ordered' /\ \A k \in Rows : ~Is(k, Present)' /\ (Is(k, Arrived)' <=> Is(k, Arrived))
    BY <1>1, CompleteStep DEF Ordered
  <1>3. /\ asg' = [asg EXCEPT ![i] = [asg[i] EXCEPT !.status = "COMPLETED", !.completed = now]]
        /\ Is(i, Present)
    BY DEF Complete, Row, Is, Present
  <1>4. /\ \A k \in Rows : asg'[k].arrived = asg[k].arrived /\ (k # i => asg'[k] = asg[k])
        /\ asg'[i].completed = now
    BY <1>1, <1>3 DEF RowsTyped, RowRecords
  <1>5. \A k \in Rows : Is(k, Arrived) <=> asg'[k].status = "COMPLETED"
    BY <1>2 DEF Is, Arrived
  <1>6. \A k \in Rows : Is(k, Arrived) => /\ asg[k].arrived \in Nat /\ asg[k].arrived <= now
                                          /\ asg'[k].completed \in Nat
    BY <1>2, <1>5 DEF Ordered, Timed, Is
  <1>7. Served' = {k \in Rows : Is(k, Arrived)}
    BY <1>4, <1>5, <1>6 DEF Served, Never
  <1>8. \A k \in Rows : Is(k, Arrived) => k <= i /\ asg[k].arrived <= asg[i].arrived
    <2> SUFFICES ASSUME NEW k \in Rows, Is(k, Arrived) PROVE k <= i /\ asg[k].arrived <= asg[i].arrived
      OBVIOUS
    <2>1. k \in Nat /\ i \in Nat
      BY SomeRows
    <2>2. CASE k = i
      BY <1>6, <2>1, <2>2
    <2>3. CASE k # i
      <3>1. k < i
        BY <1>3, <2>3 DEF Ordered, InOrder
      <3> QED
        BY <1>3, <2>1, <3>1 DEF Ordered, InOrder, Is, Arrived
    <2> QED
      BY <2>2, <2>3
  <1>9. Is(i, Arrived)
    BY <1>3 DEF Is, Arrived
  <1>10. LastOf(Served') = i
    <2>1. \A k \in Served' : ArrivesBefore(k, i)
      <3> SUFFICES ASSUME NEW k \in Rows, Is(k, Arrived) PROVE ArrivesBefore(k, i)
        BY <1>7
      <3>1. asg[k].arrived \in Nat /\ asg[i].arrived \in Nat /\ asg[k].arrived <= asg[i].arrived /\ k <= i
        BY <1>6, <1>8, <1>9
      <3> QED
        BY <1>4, <3>1 DEF ArrivesBefore
    <2>2. ASSUME NEW k \in Served', \A j \in Served' : ArrivesBefore(j, k) PROVE k = i
      <3>1. k \in Rows /\ Is(k, Arrived) /\ ArrivesBefore(i, k)
        BY <1>7, <1>9, <2>2
      <3>2. /\ asg[k].arrived \in Nat /\ asg[i].arrived \in Nat /\ asg[k].arrived <= asg[i].arrived /\ k <= i
            /\ k \in Nat /\ i \in Nat
        BY <1>6, <1>8, <1>9, <3>1, SomeRows
      <3> QED
        BY <1>4, <3>1, <3>2 DEF ArrivesBefore
    <2>3. i \in Served'
      BY <1>7, <1>9
    <2> QED
      BY <2>1, <2>2, <2>3 DEF LastOf
  <1>11. Coverage(Served') = covered /\ covered \in Nat
    <2>1. PICK f \in Rows : FirstArrived(f) /\ covered = now - asg[f].arrived
      BY <1>3 DEF Ordered, Covering
    <2>2. f \in Served' /\ \A j \in Served' : ArrivesBefore(f, j)
      BY <1>4, <1>6, <1>7, <2>1 DEF FirstArrived, ArrivesBefore
    <2>3. PICK k \in Served' : k = FirstOf(Served') /\ \A j \in Served' : ArrivesBefore(k, j)
      BY <2>2 DEF FirstOf
    <2>4. asg[k].arrived = asg[f].arrived /\ asg[f].arrived \in Nat /\ asg[f].arrived <= now
      <3>1. ArrivesBefore(f, k) /\ ArrivesBefore(k, f) /\ k \in Rows /\ Is(k, Arrived) /\ Is(f, Arrived)
        BY <1>7, <2>2, <2>3
      <3>2. asg[k].arrived \in Nat /\ asg[f].arrived \in Nat
        BY <1>6, <3>1
      <3> QED
        BY <1>4, <1>6, <3>1, <3>2 DEF ArrivesBefore
    <2>5. Coverage(Served') = hoursBetween(asg[f].arrived, now)
      BY <1>4, <1>7, <1>10, <2>3, <2>4 DEF Coverage
    <2> QED
      BY <1>1, <2>1, <2>4, <2>5 DEF hoursBetween, Larger
  <1> QED
    BY <1>7, <1>10, <1>11

(* The release that counts is that of the guardian who completes.          *)
LEMMA DraftIsOfLast ==
    ASSUME Typed, Ordered, NEW i \in Rows, Complete(i)
    PROVE  (\E k \in Rows : /\ asg'[k].status = "COMPLETED" /\ isEarlyReleaseApproved(asg'[k].release)
                            /\ \A j \in Rows : asg'[j].status = "COMPLETED" => j <= k)
           <=> isEarlyReleaseApproved(asg'[i].release)
  <1>1. RowsTyped /\ now \in Nat
    BY DEF Typed, OfficeTyped
  <1>2. \A k \in Rows : ~Is(k, Present)' /\ (Is(k, Arrived)' <=> Is(k, Arrived))
    BY <1>1, CompleteStep
  <1>3. Is(i, Present)
    BY DEF Complete, Is, Present
  <1>4. \A k \in Rows : asg'[k].status = "COMPLETED" <=> Is(k, Arrived)
    BY <1>2 DEF Is, Arrived
  <1>5. \A k \in Rows : k \in Nat /\ (Is(k, Arrived) => k <= i)
    BY <1>3, SomeRows DEF Ordered, InOrder
  <1>6. asg'[i].status = "COMPLETED"
    BY <1>3, <1>4 DEF Is, Arrived
  <1>7. \A j \in Rows : asg'[j].status = "COMPLETED" => j <= i
    BY <1>4, <1>5
  <1>8. ASSUME NEW k \in Rows, asg'[k].status = "COMPLETED",
               \A j \in Rows : asg'[j].status = "COMPLETED" => j <= k
        PROVE  k = i
    <2>1. i <= k /\ k <= i /\ k \in Nat /\ i \in Nat
      BY <1>5, <1>6, <1>7, <1>8
    <2> QED
      BY <2>1
  <1> QED
    BY <1>6, <1>7, <1>8

(* The draft charges what was agreed: its hours from the rows above, the   *)
(* night by the lemma on the loop over the hours.                          *)
LEMMA CompleteBills ==
    ASSUME Typed, Ordered, Staged, NEW i \in Rows, Complete(i)
    PROVE  invoice' \in InvoiceRecords /\ ChargedAsAgreed' /\ PaidAsAgreed'
  <1>1. /\ invoice.status = "none" /\ invoice \in InvoiceRecords
        /\ job' = [job EXCEPT !.status = "AWAITING_CONFIRMATION"] /\ covered' = covered
        /\ createDraftInvoiceForJob
    BY DEF Complete, Staged, JobMoves, history, Typed, BooksTyped
  <1>2. CASE invoice' = invoice
    BY <1>1, <1>2 DEF ChargedAsAgreed, PaidAsAgreed
  <1>3. CASE invoice' # invoice
    <2>1. PICK m \in resolvePrice(job.start) : invoice' = Draft(Served', m)
      BY <1>1, <1>3 DEF createDraftInvoiceForJob
    <2>2. m \in {"HOURLY", "FLAT"}
      <3>1. rules \subseteq PricingRules
        BY DEF Typed, OfficeTyped
      <3> QED
        BY <2>1, <3>1, SomePolicies DEF resolvePrice, First
    <2>3. /\ LastOf(Served') = i /\ Coverage(Served') = covered /\ covered \in Nat
          /\ Served' = {k \in Rows : Is(k, Arrived)}
      BY DraftRows
    <2> DEFINE approved == isEarlyReleaseApproved(asg'[i].release)
               model == effectiveBillingModelForInvoice(job.terms, approved)
               scheduled == job.end - job.start
    <2>4. /\ job \in JobRecords /\ job.start \in Nat /\ job.end \in Nat /\ job.start <= job.end
          /\ job.terms.minimum \in Nat /\ job.terms.model \in BillingPolicyModel
          /\ job'.start = job.start /\ job'.end = job.end /\ job'.terms = job.terms
      BY <1>1 DEF Typed, RowsTyped, JobRecords, BillingTerms, Staged
    <2>5. scheduled \in Nat /\ hoursBetween(job.start, job.end) = scheduled
      BY <2>4 DEF hoursBetween, Larger
    <2>6. approved \in BOOLEAN /\ model \in BillingPolicyModel
      BY <2>4 DEF isEarlyReleaseApproved, effectiveBillingModelForInvoice, BillingPolicyModel
    <2>7. invoice' = [status |-> "DRAFT", hours |-> Duration(model, job.terms.minimum, scheduled, covered),
                      prorated |-> model # job.terms.model, model |-> m,
                      night |-> isNightShift(job.start, job.end)]
      BY <2>1, <2>3, <2>5 DEF Draft
    <2>8. Duration(model, job.terms.minimum, scheduled, covered) \in Nat
      BY <2>3, <2>4, <2>5, <2>6, DurationTyped
    <2>9. isNightShift(job.start, job.end) \in BOOLEAN
      BY DEF isNightShift
    <2>10. invoice' \in InvoiceRecords
      BY <2>2, <2>7, <2>8, <2>9 DEF InvoiceRecords
    <2>11. NightIsCharged'
      BY <2>4, <2>7, NightSeen DEF NightIsCharged
    <2> DEFINE released == \E k \in Rows : /\ asg'[k].status = "COMPLETED"
                                           /\ isEarlyReleaseApproved(asg'[k].release)
                                           /\ \A j \in Rows : asg'[j].status = "COMPLETED" => j <= k
    <2>12. released <=> approved
      BY DraftIsOfLast
    <2>13. HoursAsAgreed'
      <3> HIDE DEF released, approved
      <3>1. invoice'.hours = Duration(model, job.terms.minimum, scheduled, covered)
        BY <2>7
      <3>2. CASE job.terms.model = "ACTUAL_TIME"
        <4>1. invoice'.hours = Smaller(scheduled, covered)
          BY <3>1, <3>2 DEF Duration, effectiveBillingModelForInvoice
        <4> QED
          BY <1>1, <2>4, <3>2, <4>1 DEF HoursAsAgreed
      <3>3. CASE job.terms.model = "MINIMUM_GUARANTEED"
        <4>1. invoice'.hours = Larger(job.terms.minimum, Smaller(scheduled, covered))
          BY <3>1, <3>3 DEF Duration, effectiveBillingModelForInvoice
        <4> QED
          BY <1>1, <2>4, <3>3, <4>1 DEF HoursAsAgreed
      <3>4. CASE job.terms.model = "BOOKED_BLOCK"
        <4>1. invoice'.hours =
                  IF released /\ job.terms.proration THEN Smaller(scheduled, covered) ELSE scheduled
          BY <2>12, <3>1, <3>4 DEF Duration, effectiveBillingModelForInvoice
        <4> QED
          BY <1>1, <2>4, <3>4, <4>1 DEF HoursAsAgreed, released
      <3> QED
        BY <2>4, <3>2, <3>3, <3>4 DEF BillingPolicyModel
    <2>14. invoice'.status = "DRAFT"
      BY <2>7
    <2> QED
      BY <2>10, <2>11, <2>13, <2>14 DEF ChargedAsAgreed, PaidAsAgreed
  <1> QED
    BY <1>1, <1>2, <1>3

-----------------------------------------------------------------------------
(* The steps.                                                              *)

(* What the automation is about to approve still is, while that row stays. *)
LEMMA AnsweredKept ==
    ASSUME Answered, releases' = releases,
           \A k \in Rows : Is(k, {"EARLY_RELEASE_REQUESTED"}) /\ asg[k].release = "none" /\ releases.row = k
                           => asg'[k] = asg[k],
           Typed
    PROVE  Answered'
  BY DEF Answered, Is, Typed, BooksTyped

(* A step that touches neither the job nor its rows, time, nor the         *)
(* invoice.                                                                *)
LEMMA Frame ==
    ASSUME Ordered, Staged, UNCHANGED <<now, job, asg, history, invoice>>
    PROVE  Ordered' /\ Staged'
  <1>1. \A k, S : Is(k, S)' <=> Is(k, S)
    BY DEF Is
  <1>2. UNCHANGED <<worked, covered>>
    BY DEF history
  <1>3. Ordered'
    BY <1>1, <1>2 DEF Ordered, InOrder, Timed, Covering, FirstArrived, Is
  <1> QED
    BY <1>1, <1>3 DEF Staged, Is

CalmAction(i) ==
    \/ OfferEnds(i) \/ Accept(i) \/ EnRoute(i) \/ AutoNoShow(i)
    \/ RequestReplacement(i) \/ ApproveReplacement(i) \/ DenyReplacement(i)
    \/ RequestEarlyRelease(i) \/ ApproveEarlyRelease(i) \/ RejectEarlyRelease(i)

(* The handlers that move one row and record no time of arrival or         *)
(* completion.                                                             *)
LEMMA CalmActions ==
    ASSUME Typed, Ordered, NEW i \in Rows, CalmAction(i)
    PROVE  /\ \E row \in RowRecords : Calm(i, row)
           /\ \/ job' = job
              \/ job.status = "IN_PROGRESS" /\ job' = [job EXCEPT !.status = "SEEKING_REPLACEMENT"]
           /\ ~Is(i, {"COMPLETED"})
           /\ Is(i, {"EARLY_RELEASE_REQUESTED"}) => ClientMayAnswer
           /\ UNCHANGED <<now, office, history, books, releases, ops>>
  <1>0. asg[i] \in RowRecords /\ now \in Nat /\ job \in JobRecords
    BY DEF Typed, OfficeTyped, RowsTyped
  <1>1. ASSUME OfferEnds(i) PROVE \E r \in RowRecords : Calm(i, r)
    <2> DEFINE row == [asg[i] EXCEPT !.status = "EXPIRED"]
    <2>1. row \in RowRecords
      BY <1>0 DEF RowRecords, AssignmentStatus
    <2>2. Calm(i, row)
      BY <1>0, <1>1 DEF OfferEnds, Moves, Calm, Is, Coming, RowRecords
    <2> QED
      BY ONLY <2>1, <2>2
  <1>2. ASSUME Accept(i) PROVE \E r \in RowRecords : Calm(i, r)
    <2>1. PICK p \in resolvePayPolicy(job.start) :
              Row(i, [asg[i] EXCEPT !.status = "ACCEPTED", !.accepted = now, !.terms = p.terms])
      BY <1>2 DEF Accept
    <2>2. p.terms \in PayTerms
      BY <2>1, SomePolicies DEF resolvePayPolicy, First, Typed, OfficeTyped
    <2> DEFINE row == [asg[i] EXCEPT !.status = "ACCEPTED", !.accepted = now, !.terms = p.terms]
    <2>3. row \in RowRecords
      BY <1>0, <2>2 DEF RowRecords, AssignmentStatus, Times
    <2>4. Calm(i, row)
      BY <1>0, <1>2, <2>1 DEF Accept, Calm, Is, Coming, RowRecords
    <2> QED
      BY ONLY <2>3, <2>4
  <1>3. ASSUME EnRoute(i) PROVE \E r \in RowRecords : Calm(i, r)
    <2> DEFINE row == [asg[i] EXCEPT !.status = "EN_ROUTE"]
    <2>1. row \in RowRecords
      BY <1>0 DEF RowRecords, AssignmentStatus
    <2>2. asg[i].accepted <= now
      BY <1>3 DEF EnRoute, Ordered, Timed, Is
    <2>3. Calm(i, row)
      BY <1>0, <1>3, <2>2 DEF EnRoute, Moves, Calm, Is, Coming, RowRecords
    <2> QED
      BY ONLY <2>1, <2>3
  <1>4. ASSUME AutoNoShow(i) PROVE \E r \in RowRecords : Calm(i, r)
    <2> DEFINE row == [asg[i] EXCEPT !.status = "NO_SHOW"]
    <2>1. row \in RowRecords
      BY <1>0 DEF RowRecords, AssignmentStatus
    <2>2. Calm(i, row)
      BY <1>0, <1>4 DEF AutoNoShow, Moves, Calm, Is, Coming, RowRecords
    <2> QED
      BY ONLY <2>1, <2>2
  <1>5. ASSUME RequestReplacement(i) PROVE \E r \in RowRecords : Calm(i, r)
    <2> DEFINE row == [asg[i] EXCEPT !.status = "REPLACEMENT_REQUESTED"]
    <2>1. row \in RowRecords
      BY <1>0 DEF RowRecords, AssignmentStatus
    <2>2. Calm(i, row)
      BY <1>0, <1>5 DEF RequestReplacement, Moves, Calm, Is, Present, RowRecords
    <2> QED
      BY ONLY <2>1, <2>2
  <1>6. ASSUME ApproveReplacement(i) PROVE \E r \in RowRecords : Calm(i, r)
    <2> DEFINE row == [asg[i] EXCEPT !.status = "AWAITING_RELIEF"]
    <2>1. row \in RowRecords
      BY <1>0 DEF RowRecords, AssignmentStatus
    <2>2. Calm(i, row)
      BY <1>0, <1>6 DEF ApproveReplacement, Moves, Calm, Is, Present, RowRecords
    <2> QED
      BY ONLY <2>1, <2>2
  <1>7. ASSUME DenyReplacement(i) PROVE \E r \in RowRecords : Calm(i, r)
    <2> DEFINE row == [asg[i] EXCEPT !.status = "ON_SITE"]
    <2>1. row \in RowRecords
      BY <1>0 DEF RowRecords, AssignmentStatus
    <2>2. Calm(i, row)
      BY <1>0, <1>7 DEF DenyReplacement, Moves, Calm, Is, Present, RowRecords
    <2> QED
      BY ONLY <2>1, <2>2
  <1>8. ASSUME RequestEarlyRelease(i) PROVE \E r \in RowRecords : Calm(i, r)
    <2> DEFINE asks == job.terms.asksClient
               release == IF asks THEN "none" ELSE "AUTO_APPROVED"
               autoAt == IF asks /\ job.terms.after > 0 THEN now + job.terms.after ELSE Never
               row == [asg[i] EXCEPT !.status = "EARLY_RELEASE_REQUESTED", !.release = release,
                                     !.autoAt = autoAt]
    <2>1. release \in Resolution
      BY DEF Resolution
    <2>2. autoAt \in Times
      BY <1>0 DEF JobRecords, BillingTerms, Times, Never
    <2>3. row \in RowRecords
      <3> HIDE DEF release, autoAt
      <3> QED
        BY <1>0, <2>1, <2>2 DEF RowRecords, AssignmentStatus
    <2>4. Row(i, row)
      BY <1>8 DEF RequestEarlyRelease
    <2>5. Calm(i, row)
      <3> HIDE DEF release, autoAt
      <3> QED
        BY <1>0, <1>8, <2>4 DEF RequestEarlyRelease, Calm, Is, Present, RowRecords
    <2> QED
      BY ONLY <2>3, <2>5
  <1>9. ASSUME ApproveEarlyRelease(i) PROVE \E r \in RowRecords : Calm(i, r)
    <2> DEFINE row == [asg[i] EXCEPT !.release = "APPROVED", !.autoAt = Never]
    <2>1. row \in RowRecords
      BY <1>0 DEF RowRecords, Resolution, Times
    <2>2. Calm(i, row)
      BY <1>0, <1>9 DEF ApproveEarlyRelease, Calm, RowRecords
    <2> QED
      BY ONLY <2>1, <2>2
  <1>10. ASSUME RejectEarlyRelease(i) PROVE \E r \in RowRecords : Calm(i, r)
    <2> DEFINE row == [asg[i] EXCEPT !.status = "ON_SITE", !.release = "REJECTED", !.autoAt = Never]
    <2>1. row \in RowRecords
      BY <1>0 DEF RowRecords, AssignmentStatus, Resolution, Times
    <2>2. Calm(i, row)
      BY <1>0, <1>10 DEF RejectEarlyRelease, Calm, Is, Present, RowRecords
    <2> QED
      BY ONLY <2>1, <2>2
  <1>11. /\ \/ job' = job
            \/ job.status = "IN_PROGRESS" /\ job' = [job EXCEPT !.status = "SEEKING_REPLACEMENT"]
         /\ UNCHANGED <<now, office, history, books, releases, ops>>
    <2>1. CASE ApproveReplacement(i)
      BY <2>1 DEF ApproveReplacement, JobMoves
    <2>2. CASE ~ApproveReplacement(i)
      <3>1. /\ now' = now /\ office' = office /\ job' = job /\ history' = history /\ books' = books
            /\ releases' = releases /\ ops' = ops
        BY <2>2 DEF CalmAction, OfferEnds, Accept, EnRoute, AutoNoShow, RequestReplacement,
           DenyReplacement, RequestEarlyRelease, ApproveEarlyRelease, RejectEarlyRelease
      <3> QED
        BY <3>1
    <2> QED
      BY <2>1, <2>2
  <1>12. ~Is(i, {"COMPLETED"}) /\ (Is(i, {"EARLY_RELEASE_REQUESTED"}) => ClientMayAnswer)
    BY DEF Is, CalmAction, OfferEnds, Accept, EnRoute, AutoNoShow, RequestReplacement,
       ApproveReplacement, DenyReplacement, RequestEarlyRelease, ApproveEarlyRelease, RejectEarlyRelease
  <1>13. \E row \in RowRecords : Calm(i, row)
    BY <1>1, <1>2, <1>3, <1>4, <1>5, <1>6, <1>7, <1>8, <1>9, <1>10 DEF CalmAction
  <1> QED
    BY <1>11, <1>12, <1>13

(* They keep the invariant. *)
LEMMA CalmInv ==
    ASSUME IInv, NEW i \in Rows, CalmAction(i)
    PROVE  IInv'
  <1>0. Typed /\ RowsTyped /\ now \in Nat /\ Ordered /\ Staged /\ Agreed /\ Scanning
    BY DEF IInv, Typed, OfficeTyped
  <1>1. PICK row \in RowRecords : Calm(i, row)
    BY <1>0, CalmActions
  <1>2. /\ \/ job' = job
           \/ job.status = "IN_PROGRESS" /\ job' = [job EXCEPT !.status = "SEEKING_REPLACEMENT"]
        /\ ~Is(i, {"COMPLETED"}) /\ (Is(i, {"EARLY_RELEASE_REQUESTED"}) => ClientMayAnswer)
        /\ UNCHANGED <<now, billing, pay, rules, active, changes, scenario,
                       worked, covered, invoice, earning,
                       releases, running, scan, alerts>>
    BY <1>0, CalmActions DEF office, history, books, ops
  <1>3. /\ asg' \in [Rows -> RowRecords]
        /\ \A k \in Rows : /\ Is(k, Present)' <=> Is(k, Present)
                           /\ Is(k, {"COMPLETED"})' <=> Is(k, {"COMPLETED"})
                           /\ k # i => asg'[k] = asg[k]
    BY <1>0, <1>1, CalmKeeps DEF RowsTyped
  <1>4. Typed'
    BY <1>0, <1>2, <1>3 DEF Typed, OfficeTyped, RowsTyped, JobRecords, BooksTyped, ScansTyped
  <1>5. Ordered'
    BY <1>0, <1>1, <1>2, CalmStep DEF history
  <1>6. Staged'
    BY <1>0, <1>2, <1>3 DEF Staged, Is, Arrived, RowsTyped, JobRecords
  <1>7. Agreed'
    <2> SUFFICES ASSUME ~scenario.overlap PROVE Answered' /\ ChargedAsAgreed' /\ PaidAsAgreed'
      BY <1>2 DEF Agreed
    <2>1. Answered /\ ChargedAsAgreed /\ PaidAsAgreed
      BY <1>0 DEF Agreed
    <2>2. Answered'
      <3>1. ASSUME NEW k \in Rows, Is(k, {"EARLY_RELEASE_REQUESTED"}), releases.row = k PROVE asg'[k] = asg[k]
        BY <1>2, <1>3, <3>1, SomeRows DEF ClientMayAnswer
      <3> QED
        BY <1>0, <1>2, <2>1, <3>1, AnsweredKept
    <2>3. ChargedAsAgreed' /\ PaidAsAgreed'
      <3>1. invoice.status # "none" => job' = job
        BY <1>0, <1>2 DEF Staged
      <3>2. \A k \in Rows : Is(k, {"COMPLETED"}) => asg'[k] = asg[k] /\ worked'[k] = worked[k]
        BY <1>2, <1>3
      <3> QED
        BY <1>0, <1>2, <1>3, <2>1, <3>1, <3>2, AgreedKept
    <2> QED
      BY <2>2, <2>3
  <1>8. Scanning'
    BY <1>0, <1>2 DEF Scanning, AlertedOnce
  <1> QED
    BY <1>4, <1>5, <1>6, <1>7, <1>8 DEF IInv

(* Booking stores a policy's terms with a window that is not empty. *)
LEMMA BookInv ==
    ASSUME IInv, NEW w \in Windows, Book(w)
    PROVE  IInv'
  <1>0. /\ Typed /\ Ordered /\ Staged /\ Agreed /\ Scanning /\ job.status = "none" /\ invoice.status = "none"
        /\ UNCHANGED <<now, billing, pay, rules, active, changes, scenario,
                       asg, worked, covered, invoice, earning,
                       releases, running, scan, alerts>>
    BY DEF IInv, Staged, Book, office, history, books, ops
  <1>1. PICK p \in resolveBillingPolicy(w[1]) :
            job' = [status |-> "PENDING", start |-> w[1], end |-> w[2], terms |-> p.terms]
    BY DEF Book
  <1>2. p.terms \in BillingTerms
    BY <1>0, <1>1, SomePolicies DEF resolveBillingPolicy, First, Typed, OfficeTyped
  <1>3. w[1] \in Nat /\ w[2] \in Nat /\ hoursBetween(w[1], w[2]) >= MinimumBooking
    BY SomeWindows DEF Book
  <1>4. w[1] <= w[2]
    BY <1>3, Bounds DEF hoursBetween, Larger
  <1>5. job' \in JobRecords /\ job'.start <= job'.end /\ job'.status = "PENDING"
    BY <1>1, <1>2, <1>3, <1>4 DEF JobRecords
  <1>6. Typed'
    BY <1>0, <1>5 DEF Typed, OfficeTyped, RowsTyped, BooksTyped, ScansTyped
  <1>7. \A k, S : Is(k, S)' <=> Is(k, S)
    BY <1>0 DEF Is
  <1>8. Ordered'
    BY <1>0, <1>7 DEF Ordered, InOrder, Timed, Covering, FirstArrived
  <1>9. Staged'
    BY <1>0, <1>5, <1>7 DEF Staged
  <1>10. Agreed'
    BY <1>0, <1>7 DEF Agreed, Answered, ChargedAsAgreed, PaidAsAgreed
  <1>11. Scanning'
    BY <1>0 DEF Scanning, AlertedOnce
  <1> QED
    BY <1>6, <1>8, <1>9, <1>10, <1>11 DEF IInv

(* An offer. *)
LEMMA OfferInv ==
    ASSUME IInv, NEW i \in Rows, Offer(i)
    PROVE  IInv'
  <1>0. /\ Typed /\ RowsTyped /\ now \in Nat /\ Ordered /\ Staged /\ Agreed /\ Scanning
        /\ UNCHANGED <<now, billing, pay, rules, active, changes, scenario,
                       job, worked, covered, invoice, earning,
                       releases, running, scan, alerts>>
    BY DEF IInv, Typed, OfficeTyped, Offer, office, history, books, ops
  <1>1. RowsTyped' /\ Ordered' /\ \A k \in Rows : /\ Is(k, Arrived)' <=> Is(k, Arrived)
                                                  /\ Is(k, Arrived) => asg'[k] = asg[k]
    BY <1>0, OfferStep
  <1>2. Typed'
    BY <1>0, <1>1 DEF Typed, OfficeTyped, BooksTyped, ScansTyped
  <1>3. \A k \in Rows : /\ Is(k, Present)' => Is(k, Present)
                        /\ Is(k, {"COMPLETED"})' <=> Is(k, {"COMPLETED"})
                        /\ Is(k, {"COMPLETED"}) => asg'[k] = asg[k]
                        /\ Is(k, {"EARLY_RELEASE_REQUESTED"}) => asg'[k] = asg[k]
    BY <1>1 DEF Is, Arrived, Present
  <1>4. Staged'
    BY <1>0, <1>1, <1>3 DEF Staged
  <1>5. Agreed'
    BY <1>0, <1>3, AnsweredKept, AgreedKept DEF Agreed
  <1>6. Scanning'
    BY <1>0 DEF Scanning, AlertedOnce
  <1> QED
    BY <1>1, <1>2, <1>4, <1>5, <1>6 DEF IInv

(* Arrivals: there is no invoice yet. *)
LEMMA ArrivalInv ==
    ASSUME IInv, NEW i \in Rows, OnSite(i) \/ executeReplacementHandoff(i)
    PROVE  IInv'
  <1>0. /\ Typed /\ RowsTyped /\ now \in Nat /\ Ordered /\ Staged /\ Agreed /\ Scanning
        /\ UNCHANGED <<now, billing, pay, rules, active, changes, scenario,
                       worked, covered, invoice, earning,
                       releases, running, scan, alerts>>
        /\ job.status # "AWAITING_CONFIRMATION"
        /\ job' = [job EXCEPT !.status = "IN_PROGRESS"]
    BY DEF IInv, Typed, OfficeTyped, OnSite, executeReplacementHandoff, JobMoves, office, history, books, ops
  <1>1. RowsTyped' /\ Ordered' /\ job'.status = "IN_PROGRESS"
    BY <1>0, OnSiteStep, HandoffStep
  <1>2. Typed'
    BY <1>0, <1>1 DEF Typed, OfficeTyped, BooksTyped, ScansTyped
  <1>3. invoice.status = "none" /\ job'.start = job.start /\ job'.end = job.end
    BY <1>0 DEF Staged, RowsTyped, JobRecords
  <1>4. Staged'
    BY <1>0, <1>1, <1>3 DEF Staged
  <1>5. \A k \in Rows : Is(k, {"EARLY_RELEASE_REQUESTED"}) => asg'[k] = asg[k]
    BY <1>0 DEF OnSite, executeReplacementHandoff, Row, Relieves, Is, RowsTyped
  <1>6. Agreed'
    BY <1>0, <1>3, <1>5, AnsweredKept DEF Agreed, ChargedAsAgreed, PaidAsAgreed
  <1>7. Scanning'
    BY <1>0 DEF Scanning, AlertedOnce
  <1> QED
    BY <1>1, <1>2, <1>4, <1>6, <1>7 DEF IInv

(* Completion. *)
LEMMA CompleteInv ==
    ASSUME IInv, NEW i \in Rows, Complete(i)
    PROVE  IInv'
  <1>0. /\ Typed /\ RowsTyped /\ now \in Nat /\ Ordered /\ Staged /\ Agreed /\ Scanning
        /\ UNCHANGED <<now, billing, pay, rules, active, changes, scenario, worked, covered, earning,
                       releases, running, scan, alerts>>
        /\ job' = [job EXCEPT !.status = "AWAITING_CONFIRMATION"]
    BY DEF IInv, Typed, OfficeTyped, Complete, JobMoves, office, history, ops
  <1>1. /\ RowsTyped' /\ Ordered' /\ job'.status = "AWAITING_CONFIRMATION"
        /\ \A k \in Rows : ~Is(k, Present)'
    BY <1>0, CompleteStep
  <1>2. invoice' \in InvoiceRecords /\ ChargedAsAgreed' /\ PaidAsAgreed'
    BY <1>0, CompleteBills
  <1>3. Typed'
    BY <1>0, <1>1, <1>2 DEF Typed, OfficeTyped, BooksTyped, ScansTyped
  <1>4. Staged'
    BY <1>0, <1>1 DEF Staged, RowsTyped, JobRecords
  <1>5. ASSUME NEW k \in Rows, Is(k, {"EARLY_RELEASE_REQUESTED"}), asg[k].release = "none"
        PROVE  asg'[k] = asg[k]
    BY <1>0, <1>5 DEF Complete, Row, Is, isEarlyReleaseApproved, RowsTyped
  <1>6. Agreed'
    BY <1>0, <1>2, <1>5, AnsweredKept DEF Agreed
  <1>7. Scanning'
    BY <1>0 DEF Scanning, AlertedOnce
  <1> QED
    BY <1>1, <1>3, <1>4, <1>6, <1>7 DEF IInv

(* Payment: the guardians who served are those who completed, and a        *)
(* guardian's time on site is that between arrival and completion.         *)
LEMMA ConfirmInv ==
    ASSUME IInv, ConfirmPayment
    PROVE  IInv'
  <1>0. /\ Typed /\ RowsTyped /\ Ordered /\ Staged /\ Agreed /\ Scanning
        /\ UNCHANGED <<now, billing, pay, rules, active, changes, scenario, job, asg, worked, covered,
                       releases, running, scan, alerts>>
        /\ invoice.status = "DRAFT" /\ invoice' = [invoice EXCEPT !.status = "PAID"]
        /\ earning' = [i \in Rows |-> IF i \in Served THEN computePayableDuration(asg[i]) ELSE earning[i]]
    BY DEF IInv, Typed, ConfirmPayment, office, history, ops
  <1>1. \A k \in Rows : computePayableDuration(asg[k]) \in Nat
    BY <1>0, DurationTyped DEF RowsTyped
  <1>2. invoice \in InvoiceRecords /\ invoice' \in InvoiceRecords /\ earning' \in [Rows -> Times]
    BY <1>0, <1>1 DEF Typed, BooksTyped, InvoiceRecords, Times
  <1>3. Typed'
    BY <1>0, <1>2 DEF Typed, OfficeTyped, RowsTyped, BooksTyped, ScansTyped
  <1>4. \A k, S : Is(k, S)' <=> Is(k, S)
    BY <1>0 DEF Is
  <1>5. Ordered'
    BY <1>0, <1>4 DEF Ordered, InOrder, Timed, Covering, FirstArrived
  <1>6. Staged'
    BY <1>0, <1>4 DEF Staged
  <1>7. ASSUME ~scenario.overlap PROVE Answered' /\ ChargedAsAgreed' /\ PaidAsAgreed'
    <2>1. Answered /\ ChargedAsAgreed
      BY <1>0, <1>7 DEF Agreed
    <2>2. Answered'
      BY <1>0, <1>4, <2>1 DEF Answered
    <2>3. HoursAsAgreed /\ NightIsCharged
      BY <1>0, <2>1 DEF ChargedAsAgreed
    <2>4. invoice'.hours = invoice.hours /\ invoice'.night = invoice.night
      BY <1>0, <1>2 DEF InvoiceRecords
    <2>5. HoursAsAgreed' /\ NightIsCharged'
      BY <1>0, <2>3, <2>4 DEF HoursAsAgreed, NightIsCharged
    <2>6. PaidAsAgreed'
      <3> SUFFICES ASSUME NEW i \in Rows, asg[i].status = "COMPLETED"
                   PROVE  LET onSite == Smaller(job.end - job.start, worked[i])
                              waived == isEarlyReleaseApproved(asg[i].release) /\ ~asg[i].terms.onRelease
                          IN earning'[i] = IF asg[i].terms.model = "ACTUAL_TIME" \/ waived THEN onSite
                                           ELSE Larger(asg[i].terms.minimum, onSite)
        BY <1>0 DEF PaidAsAgreed
      <3> DEFINE scheduled == job.end - job.start
                 waived == isEarlyReleaseApproved(asg[i].release) /\ ~asg[i].terms.onRelease
                 model == effectivePayModelForEarning(asg[i].terms, isEarlyReleaseApproved(asg[i].release))
      <3>1. /\ asg[i].arrived \in Nat /\ asg[i].completed \in Nat /\ asg[i].arrived <= asg[i].completed
            /\ worked[i] = asg[i].completed - asg[i].arrived
        BY <1>0 DEF Ordered, Timed, Is, Arrived
      <3>2. i \in Served
        BY <3>1 DEF Served, Never
      <3>3. hoursBetween(asg[i].arrived, asg[i].completed) = worked[i] /\ worked[i] \in Nat
        BY <3>1 DEF hoursBetween, Larger
      <3>4. hoursBetween(job.start, job.end) = scheduled /\ scheduled \in Nat
        BY <1>0 DEF hoursBetween, Larger, Staged, RowsTyped, JobRecords
      <3>5. earning'[i] = Duration(model, asg[i].terms.minimum, scheduled, worked[i])
        BY <1>0, <3>2, <3>3, <3>4 DEF computePayableDuration
      <3>6. asg[i].terms.model \in PayPolicyModel
        BY <1>0 DEF RowsTyped, RowRecords, PayTerms
      <3>7. model = IF asg[i].terms.model = "ACTUAL_TIME" \/ waived
                    THEN "ACTUAL_TIME" ELSE "MINIMUM_GUARANTEED"
        BY <3>6 DEF effectivePayModelForEarning, PayPolicyModel
      <3> QED
        BY <3>5, <3>7 DEF Duration
    <2> QED
      BY <2>2, <2>5, <2>6 DEF ChargedAsAgreed
  <1>8. Agreed'
    BY <1>0, <1>7 DEF Agreed
  <1>9. Scanning'
    BY <1>0 DEF Scanning, AlertedOnce
  <1> QED
    BY <1>3, <1>5, <1>6, <1>8, <1>9 DEF IInv

(* Time. *)
LEMMA TickInv ==
    ASSUME IInv, Tick
    PROVE  IInv'
  <1>0. /\ Typed /\ RowsTyped /\ now \in Nat /\ Ordered /\ Staged /\ Agreed /\ Scanning /\ now' = now + 1
        /\ UNCHANGED <<billing, pay, rules, active, changes, scenario, job, asg, invoice, earning,
                       releases, running, scan, alerts>>
    BY DEF IInv, Typed, OfficeTyped, Tick, office, books, ops
  <1>1. RowsTyped' /\ Ordered'
    BY <1>0, TickStep
  <1>2. Typed'
    BY <1>0, <1>1 DEF Typed, OfficeTyped, BooksTyped, ScansTyped
  <1>3. \A k, S : Is(k, S)' <=> Is(k, S)
    BY <1>0 DEF Is
  <1>4. Staged'
    BY <1>0, <1>3 DEF Staged
  <1>5. invoice.status # "none" => \A k \in Rows : ~Is(k, Present)
    BY <1>0 DEF Staged
  <1>6. invoice.status # "none" => covered' = covered /\ \A k \in Rows : worked'[k] = worked[k]
    BY <1>5 DEF Tick, Is
  <1>7. Agreed'
    BY <1>0, <1>3, <1>6, AnsweredKept, AgreedKept DEF Agreed
  <1>8. Scanning'
    BY <1>0 DEF Scanning, AlertedOnce
  <1> QED
    BY <1>1, <1>2, <1>4, <1>7, <1>8 DEF IInv

(* The automation: as long as no client answers in between, what it        *)
(* approves is what it saw.                                                *)
LEMMA AutomationInv ==
    ASSUME IInv, Automation
    PROVE  IInv'
  <1>0. /\ Typed /\ RowsTyped /\ now \in Nat /\ Ordered /\ Staged /\ Agreed /\ Scanning
        /\ releases \in [todo : SUBSET Rows, row : Rows \cup {0}]
        /\ UNCHANGED <<now, billing, pay, rules, active, changes, scenario,
                       job, worked, covered, invoice, earning,
                       running, scan, alerts>>
    BY DEF IInv, Typed, OfficeTyped, BooksTyped, Automation, ScanReleases, AutoApproveRead, AutoApproveWrite,
       office, history, books, ops
  <1>1. Scanning'
    BY <1>0 DEF Scanning, AlertedOnce
  <1>2. CASE AutoApproveWrite
    <2> DEFINE i == releases.row
               row == [asg[i] EXCEPT !.release = "AUTO_APPROVED", !.autoAt = Never]
    <2>1. i \in Rows /\ Row(i, row) /\ releases' = [releases EXCEPT !.row = 0]
      BY <1>0, <1>2 DEF AutoApproveWrite
    <2>2. row \in RowRecords
      <3>1. asg[i] \in RowRecords
        BY <1>0, <2>1 DEF RowsTyped
      <3> HIDE DEF i
      <3> QED
        BY <3>1 DEF RowRecords, Resolution, Times
    <2>3. Calm(i, row)
      BY <1>0, <2>1 DEF Calm, RowsTyped, RowRecords
    <2> HIDE DEF i, row
    <2>4. /\ asg' \in [Rows -> RowRecords]
          /\ \A k \in Rows : /\ Is(k, Present)' <=> Is(k, Present)
                             /\ Is(k, {"COMPLETED"})' <=> Is(k, {"COMPLETED"})
                             /\ k # i => asg'[k] = asg[k]
      BY <1>0, <2>1, <2>2, <2>3, CalmKeeps DEF RowsTyped
    <2>5. releases' \in [todo : SUBSET Rows, row : Rows \cup {0}] /\ releases'.row = 0
      BY <1>0, <2>1
    <2>6. Typed'
      BY <1>0, <2>4, <2>5 DEF Typed, OfficeTyped, RowsTyped, BooksTyped, ScansTyped
    <2>7. Ordered'
      BY <1>0, <2>1, <2>2, <2>3, CalmStep DEF history
    <2>8. Staged'
      BY <1>0, <2>4 DEF Staged, Is, Arrived
    <2>9. ASSUME ~scenario.overlap PROVE Answered' /\ ChargedAsAgreed' /\ PaidAsAgreed'
      <3>1. Answered /\ ChargedAsAgreed /\ PaidAsAgreed
        BY <1>0, <2>9 DEF Agreed
      <3>2. ~Is(i, {"COMPLETED"})
        BY <1>2, <3>1 DEF AutoApproveWrite, Answered, Is, i
      <3>3. \A k \in Rows : Is(k, {"COMPLETED"}) => asg'[k] = asg[k] /\ worked'[k] = worked[k]
        BY <1>0, <2>4, <3>2
      <3>4. ChargedAsAgreed' /\ PaidAsAgreed'
        BY <1>0, <2>4, <3>1, <3>3, AgreedKept
      <3> QED
        BY <2>5, <3>4 DEF Answered
    <2>10. Agreed'
      BY <1>0, <2>9 DEF Agreed
    <2> QED
      BY <1>1, <2>6, <2>7, <2>8, <2>10 DEF IInv
  <1>3. CASE ScanReleases \/ \E i \in Rows : AutoApproveRead(i)
    <2>1. asg' = asg
      BY <1>3 DEF ScanReleases, AutoApproveRead
    <2>2. releases' \in [todo : SUBSET Rows, row : Rows \cup {0}]
      BY <1>0, <1>3 DEF ScanReleases, AutoApproveRead, AutoApprovable
    <2>3. Typed'
      BY <1>0, <2>1, <2>2 DEF Typed, OfficeTyped, RowsTyped, BooksTyped, ScansTyped
    <2>4. Ordered' /\ Staged'
      BY <1>0, <2>1, Frame DEF history
    <2>5. Answered'
      <3>1. CASE ScanReleases
        BY <1>0, <3>1 DEF ScanReleases, Answered
      <3>2. ASSUME NEW i \in Rows, AutoApproveRead(i) PROVE Answered'
        BY <1>0, <2>1, <3>2 DEF AutoApproveRead, Answered, Is
      <3> QED
        BY <1>3, <3>1, <3>2
    <2>6. Agreed'
      BY <1>0, <2>1, <2>5, AgreedKept DEF Agreed, Is
    <2> QED
      BY <1>1, <2>3, <2>4, <2>6 DEF IInv
  <1> QED
    BY <1>2, <1>3 DEF Automation

(* Administrators change what is resolved next, nothing that is stored. *)
LEMMA AdministrationInv ==
    ASSUME IInv, Administration
    PROVE  IInv'
  <1>0. /\ Typed /\ Ordered /\ Staged /\ Agreed /\ Scanning
        /\ UNCHANGED <<now, scenario, job, asg, worked, covered, invoice, earning, releases,
                       running, scan, alerts>>
    BY DEF IInv, Administration, WriteBillingPolicy, WritePayPolicy, WritePricingRule, UpdateService,
       history, books, ops
  <1>1. changes' \in Nat
    BY <1>0 DEF Administration, WriteBillingPolicy, WritePayPolicy, WritePricingRule, UpdateService, Changes,
       Typed, OfficeTyped
  <1>2. billing' \subseteq BillingPolicies /\ pay' \subseteq PayPolicies /\ rules' \subseteq PricingRules
    <2>1. ASSUME NEW rows, NEW all, rows \subseteq all PROVE \A new \in Written(rows, all) : new \subseteq all
      BY <2>1 DEF Written
    <2>2. billing \subseteq BillingPolicies /\ pay \subseteq PayPolicies /\ rules \subseteq PricingRules
      BY <1>0 DEF Typed, OfficeTyped
    <2> QED
      BY <2>1, <2>2 DEF Administration, WriteBillingPolicy, WritePayPolicy, WritePricingRule, UpdateService
  <1>3. active' \in BOOLEAN
    BY <1>0 DEF Administration, WriteBillingPolicy, WritePayPolicy, WritePricingRule, UpdateService,
       Typed, OfficeTyped
  <1>4. Typed'
    BY <1>0, <1>1, <1>2, <1>3 DEF Typed, OfficeTyped, RowsTyped, BooksTyped, ScansTyped
  <1>5. Ordered' /\ Staged'
    BY <1>0, Frame DEF history
  <1>6. Agreed'
    BY <1>0, AgreedKept DEF Agreed, Answered, Is
  <1>7. Scanning'
    BY <1>0 DEF Scanning, AlertedOnce
  <1> QED
    BY <1>4, <1>5, <1>6, <1>7 DEF IInv

(* The scans: only one of them runs, and it adds an alert it has found     *)
(* missing.                                                                *)
LEMMA ScansInv ==
    ASSUME IInv, NEW s \in Timers, BillingOps(s)
    PROVE  IInv'
  <1>0. /\ Typed /\ Ordered /\ Staged /\ Agreed /\ Scanning /\ ScansTyped /\ now \in Nat
        /\ UNCHANGED <<now, billing, pay, rules, active, changes, scenario, job, asg, worked, covered,
                       invoice, earning, releases>>
    BY DEF IInv, Typed, OfficeTyped, BillingOps, ScanStarts, AlertRead, AlertWrite, ScanTurns, ScanEnds,
       office, history, books
  <1>1. Ordered' /\ Staged'
    BY <1>0, Frame DEF history
  <1>2. Agreed'
    BY <1>0, AgreedKept DEF Agreed, Answered, Is
  <1>3. ASSUME ScansTyped', Scanning' PROVE IInv'
    BY <1>0, <1>1, <1>2, <1>3 DEF IInv, Typed, OfficeTyped, RowsTyped, BooksTyped
  <1>4. scan[s] \in ScanRecords /\ \A t \in Timers : scan[t] \in ScanRecords
    BY <1>0 DEF ScansTyped
  <1>5. CASE ScanStarts(s)
    <2>1. PICK new : /\ scan' = [scan EXCEPT ![s] = new]
                     /\ new = [at |-> "early", since |-> now - Lookback, row |-> 0,
                               todo |-> {i \in Served : asg[i].completed >= now - Lookback}]
      BY <1>5 DEF ScanStarts, Begin, Scan
    <2>2. new \in ScanRecords /\ new.row = 0
      BY <1>0, <2>1, Thresholds DEF ScanRecords, Kinds, Served
    <2>3. ScansTyped'
      BY <1>0, <1>5, <2>1, <2>2 DEF ScansTyped, ScanStarts
    <2>4. Scanning'
      BY <1>0, <1>5, <2>1, <2>2 DEF ScansTyped, ScanStarts, Scanning, AlertedOnce
    <2> QED
      BY <1>3, <2>3, <2>4
  <1>6. ASSUME NEW i \in Rows, AlertRead(s, i) PROVE IInv'
    <2>1. PICK row \in Rows \cup {0} :
              /\ scan' = [scan EXCEPT ![s] = [scan[s] EXCEPT !.todo = @ \ {i}, !.row = row]]
              /\ row # 0 => alerts[scan[s].at][row] = 0
      BY <1>6 DEF AlertRead, Scan
    <2>2. scan[s].at \in Kinds /\ UNCHANGED <<running, alerts>>
      BY <1>6 DEF AlertRead
    <2>3. ScansTyped'
      BY <1>0, <1>4, <2>1, <2>2 DEF ScansTyped, ScanRecords
    <2>4. Scanning'
      BY <1>0, <1>4, <2>1, <2>2 DEF ScansTyped, ScanRecords, Scanning, AlertedOnce
    <2> QED
      BY <1>3, <2>3, <2>4
  <1>7. CASE AlertWrite(s)
    <2>1. /\ scan' = [scan EXCEPT ![s] = [scan[s] EXCEPT !.row = 0]] /\ running' = running
          /\ alerts' = [alerts EXCEPT ![scan[s].at][scan[s].row] = @ + 1] /\ scan[s].row # 0
      BY <1>7 DEF AlertWrite, Scan
    <2>2. scan[s].at \in Kinds /\ scan[s].row \in Rows /\ alerts[scan[s].at][scan[s].row] = 0
      BY <1>0, <1>4, <2>1 DEF ScansTyped, ScanRecords, Scanning
    <2>3. alerts' \in [Kinds -> [Rows -> Nat]] /\ \A k \in Kinds, i \in Rows :
              alerts'[k][i] = IF k = scan[s].at /\ i = scan[s].row THEN 1 ELSE alerts[k][i]
      BY <1>0, <2>1, <2>2 DEF ScansTyped
    <2>4. ScansTyped'
      <3>1. [scan[s] EXCEPT !.row = 0] \in ScanRecords
        BY <1>4 DEF ScanRecords
      <3>2. scan' \in [Timers -> ScanRecords] /\ \A t \in Timers : scan'[t].row # 0 => scan'[t] = scan[t]
        BY <1>0, <1>4, <2>1, <3>1 DEF ScansTyped, ScanRecords
      <3>3. running' \in BOOLEAN /\ \A t \in Timers : scan'[t].row # 0 => scan'[t].at \in Kinds
        BY <1>0, <2>1, <3>2 DEF ScansTyped
      <3> QED
        BY <2>3, <3>2, <3>3 DEF ScansTyped
    <2>5. \A t \in Timers : t # s => scan[t].at = "idle" /\ scan[t].row = 0
      <3> SUFFICES ASSUME NEW t \in Timers, t # s PROVE scan[t].at = "idle" /\ scan[t].row = 0
        OBVIOUS
      <3>1. scan[t].at = "idle"
        BY <1>0, <2>2 DEF Scanning, Kinds
      <3> QED
        BY <1>0, <3>1 DEF ScansTyped, Kinds
    <2>6. AlertedOnce'
      BY <1>0, <2>3 DEF Scanning, AlertedOnce
    <2>7. \A t \in Timers : scan'[t].row = 0 /\ scan'[t].at = scan[t].at
      BY <1>0, <1>4, <2>1, <2>5 DEF ScansTyped, ScanRecords
    <2>8. Scanning'
      BY <1>0, <2>1, <2>6, <2>7 DEF Scanning
    <2> QED
      BY <1>3, <2>4, <2>8
  <1>8. CASE ScanTurns(s)
    <2>1. PICK todo \in SUBSET Rows :
              scan' = [scan EXCEPT ![s] = [scan[s] EXCEPT !.at = "late", !.todo = todo]]
      BY <1>8 DEF ScanTurns, Scan
    <2>2. scan[s].at = "early" /\ scan[s].row = 0 /\ UNCHANGED <<running, alerts>>
      BY <1>8 DEF ScanTurns, Scans
    <2>3. ScansTyped'
      BY <1>0, <1>4, <2>1, <2>2 DEF ScansTyped, ScanRecords, Kinds
    <2>4. Scanning'
      BY <1>0, <1>4, <2>1, <2>2 DEF ScansTyped, ScanRecords, Scanning, AlertedOnce
    <2> QED
      BY <1>3, <2>3, <2>4
  <1>9. CASE ScanEnds(s)
    <2>1. scan' = [scan EXCEPT ![s] = NoScan] /\ running' = FALSE /\ alerts' = alerts /\ scan[s].at # "idle"
      BY <1>9 DEF ScanEnds, Scan, Scans
    <2>2. NoScan \in ScanRecords /\ NoScan.row = 0 /\ NoScan.at = "idle"
      BY DEF NoScan, ScanRecords
    <2>3. ScansTyped'
      BY <1>0, <2>1, <2>2 DEF ScansTyped
    <2>4. \A t \in Timers : scan'[t].at = "idle"
      BY <1>0, <2>1, <2>2 DEF Scanning, ScansTyped
    <2>5. \A t \in Timers : scan'[t].row = 0
      BY <2>3, <2>4 DEF ScansTyped, Kinds
    <2>6. Scanning'
      BY <1>0, <2>1, <2>4, <2>5 DEF Scanning, AlertedOnce
    <2> QED
      BY <1>3, <2>3, <2>6
  <1> QED
    BY <1>5, <1>6, <1>7, <1>8, <1>9 DEF BillingOps

(* Every step keeps the invariant. *)
LEMMA InvStep == IInv /\ [Next]_vars => IInv'
  <1> SUFFICES ASSUME IInv, [Next]_vars PROVE IInv'
    OBVIOUS
  <1>1. ASSUME NEW i \in Rows, Guardian(i) PROVE IInv'
    BY <1>1, CalmInv, OfferInv, ArrivalInv, CompleteInv DEF Guardian, CalmAction
  <1>2. CASE UNCHANGED vars
    <2>1. UNCHANGED <<now, billing, pay, rules, active, changes, scenario, job, asg, worked, covered,
                      invoice, earning, releases, running, scan, alerts>>
      BY <1>2 DEF vars, office, history, books, ops
    <2>2. Typed' /\ Scanning'
      BY <2>1 DEF IInv, Typed, OfficeTyped, RowsTyped, BooksTyped, ScansTyped, Scanning, AlertedOnce
    <2>3. Ordered' /\ Staged'
      BY <2>1, Frame DEF IInv, history
    <2>4. Agreed'
      BY <2>1, AgreedKept DEF IInv, Agreed, Answered, Is
    <2> QED
      BY <2>2, <2>3, <2>4 DEF IInv
  <1> QED
    BY <1>1, <1>2, BookInv, ConfirmInv, AutomationInv, AdministrationInv, TickInv, ScansInv DEF Next

-----------------------------------------------------------------------------
(* The theorems.                                                           *)

(* The invariant holds in every reachable state. *)
THEOREM PricingInvariant == Spec => []IInv
  BY InvInit, InvStep, PTL DEF Spec

(* The type invariant: one guardian on site at a time, and times in their  *)
(* order for whoever was there.                                            *)
THEOREM TypeCorrect == Spec => []TypeOK
  <1>1. IInv => TypeOK
    BY TypeParts DEF IInv
  <1> QED
    BY <1>1, PricingInvariant, PTL

(* Without overlap of clients and automation, invoices and earnings are    *)
(* what the policies stored at the booking and at the acceptance say of    *)
(* the time on site, for any number of reliefs and changes of policies.    *)
NoOverlap == \A s \in Scenarios : ~s.overlap

(* The scenario is chosen at the start. *)
LEMMA Undisturbed ==
    ASSUME NoOverlap
    PROVE  Spec => []~scenario.overlap
  <1>1. Init => ~scenario.overlap
    BY DEF Init, NoOverlap
  <1>2. ~scenario.overlap /\ [Next]_vars => (~scenario.overlap)'
    <2> SUFFICES ASSUME [Next]_vars PROVE scenario' = scenario
      OBVIOUS
    <2>1. ASSUME NEW i \in Rows, Guardian(i) PROVE scenario' = scenario
      BY <2>1 DEF Guardian, Offer, OfferEnds, Accept, EnRoute, AutoNoShow, OnSite, executeReplacementHandoff,
         RequestReplacement, ApproveReplacement, DenyReplacement, RequestEarlyRelease, ApproveEarlyRelease,
         RejectEarlyRelease, Complete, office
    <2>2. ASSUME NEW s \in Timers, BillingOps(s) PROVE scenario' = scenario
      BY <2>2 DEF BillingOps, ScanStarts, AlertRead, AlertWrite, ScanTurns, ScanEnds, office
    <2>3. CASE Automation \/ Administration
      BY <2>3 DEF Automation, ScanReleases, AutoApproveRead, AutoApproveWrite, Administration,
         WriteBillingPolicy, WritePayPolicy, WritePricingRule, UpdateService, office
    <2>4. CASE (\E w \in Windows : Book(w)) \/ ConfirmPayment \/ Tick \/ UNCHANGED vars
      BY <2>4 DEF Book, ConfirmPayment, Tick, vars, office
    <2> QED
      BY <2>1, <2>2, <2>3, <2>4 DEF Next
  <1> QED
    BY <1>1, <1>2, PTL DEF Spec

(* What is invoiced is what was agreed: HoursAsAgreed and NightIsCharged.  *)
THEOREM ChargesAsAgreed ==
    ASSUME NoOverlap
    PROVE  Spec => []ChargedAsAgreed
  <1>1. IInv /\ ~scenario.overlap => ChargedAsAgreed
    BY DEF IInv, Agreed
  <1> QED
    BY <1>1, PricingInvariant, Undisturbed, PTL

(* What is earned is what was accepted. *)
THEOREM PaysAsAgreed ==
    ASSUME NoOverlap
    PROVE  Spec => []PaidAsAgreed
  <1>1. IInv /\ ~scenario.overlap => PaidAsAgreed
    BY DEF IInv, Agreed
  <1> QED
    BY <1>1, PricingInvariant, Undisturbed, PTL

(* No anomaly is alerted twice, however many timers fire. *)
THEOREM AlertsOnce == Spec => []AlertedOnce
  <1>1. IInv => AlertedOnce
    BY DEF IInv, Scanning
  <1> QED
    BY <1>1, PricingInvariant, PTL
=============================================================================
