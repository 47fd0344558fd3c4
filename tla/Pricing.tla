------------------------------ MODULE Pricing -------------------------------
(***************************************************************************)
(* What a booking costs and what it pays: one job for one guardian on the  *)
(* time line, from its booking under the billing policy of the day, over   *)
(* offers, arrivals, handoffs to a relief and early releases, to the draft *)
(* invoice and the earnings, while administrators change policies and      *)
(* prices and the scans for unanswered releases, no-shows and anomalies    *)
(* run.  A tick of the clock is half an hour, a duration is in ticks.      *)
(*                                                                         *)
(* How requests for the same rows overlap is the matter of JobLifecycle    *)
(* and Billing: here a handler is one step, except for those of the scans. *)
(***************************************************************************)
EXTENDS Integers, FiniteSets

CONSTANTS
    Rows,                       \* bound: job_assignments of the job, numbered in the order of their offers
    Opening, Horizon,           \* bound: the first and the last tick
    Windows,                    \* <<scheduledStart, scheduledEnd>> that may be asked for
    MinimumBooking,             \* minimumBookingHours, in ticks
    BillingPolicies, PayPolicies, PricingRules,     \* rows administrators may write
    NoShowAfter, NoShowGrace,   \* ACCEPTED_NO_SHOW_AFTER_MS, EN_ROUTE_NO_SHOW_GRACE_AFTER_START_MS
    EarlyBy, LateBy, Lookback,  \* thresholds and look-back of the billing scan
    Timers,                     \* scans the interval of one process may have started
    Scenarios                   \* circumstances, one of which is chosen at the start

Hour == 2
Day == 24 * Hour
Never == -1

ASSUME SomeRows == Rows \subseteq Nat \ {0} /\ IsFiniteSet(Rows)
ASSUME Bounds == Opening \in Nat /\ Horizon \in Nat /\ MinimumBooking \in Nat \ {0}
ASSUME Thresholds ==
    {NoShowAfter, NoShowGrace, EarlyBy, LateBy, Lookback} \subseteq Nat
ASSUME SomeWindows == Windows \subseteq Nat \X Nat

BillingPolicyModel == {"BOOKED_BLOCK", "ACTUAL_TIME", "MINIMUM_GUARANTEED"}
PayPolicyModel == {"ACTUAL_TIME", "MINIMUM_GUARANTEED"}
Resolution == {"none", "APPROVED", "REJECTED", "AUTO_APPROVED"}

(* Whether a row's organisation, job type, district and employment type,   *)
(* where it has them, are those of this job, and the days it is valid.     *)
Filter == [priority : Nat, ours : BOOLEAN, from : Nat, until : Nat]

BillingTerms == [model : BillingPolicyModel, minimum : Nat, proration : BOOLEAN,
                 release : BOOLEAN, asksClient : BOOLEAN, after : Nat \cup {Never}]
PayTerms == [model : PayPolicyModel, minimum : Nat, onRelease : BOOLEAN]

ASSUME SomePolicies ==
    /\ BillingPolicies \subseteq [filter : Filter, terms : BillingTerms]
    /\ PayPolicies \subseteq [filter : Filter, terms : PayTerms]
    /\ PricingRules \subseteq [filter : Filter, model : {"HOURLY", "FLAT"},
                              hourly : BOOLEAN, flat : BOOLEAN]

(* Policies and rules there are at first, whether the service is offered,  *)
(* how often administrators change something, whether anomalies are looked *)
(* for, whether clients may answer a release while the automation does,    *)
(* and the last assignment there may be.                                   *)
Scenario == [billing : SUBSET BillingPolicies, pay : SUBSET PayPolicies, rules : SUBSET PricingRules,
             changes : Nat, scans : BOOLEAN, overlap : BOOLEAN, rows : Rows]
ASSUME SomeScenario == Scenarios \subseteq Scenario

AssignmentStatus == {"none", "OFFERED", "ACCEPTED", "EN_ROUTE", "ON_SITE", "EARLY_RELEASE_REQUESTED",
                     "REPLACEMENT_REQUESTED", "AWAITING_RELIEF", "COMPLETED", "NO_SHOW", "EXPIRED"}
Present == {"ON_SITE", "EARLY_RELEASE_REQUESTED", "REPLACEMENT_REQUESTED", "AWAITING_RELIEF"}
Coming == {"OFFERED", "ACCEPTED", "EN_ROUTE"}

VARIABLES
    now,
    changes,    \* changes administrators still make
    scenario,
    billing, pay, rules,    \* billing_policies, pay_policies, pricing_rules
    active,     \* services.isActive
    job,        \* status, window and the billing terms stored with it
    asg,        \* the job's assignments
    worked,     \* history: ticks the guardian of an assignment was on site
    covered,    \* history: ticks somebody was on site
    invoice,
    earning,    \* payableHours of the guardian_earnings of an assignment
    releases,   \* the scan of EarlyReleaseAutomationService
    running,    \* BillingOpsAutomationService.running
    scan,       \* the scans of BillingOpsService
    alerts      \* audit_logs of anomalies: how many of a kind an assignment has

office == <<billing, pay, rules, active, changes, scenario>>
history == <<worked, covered>>
books == <<invoice, earning>>
ops == <<running, scan, alerts>>
vars == <<now, office, job, asg, history, books, releases, ops>>

Kinds == {"early", "late"}
NoTerms == [model |-> "ACTUAL_TIME", minimum |-> 0, onRelease |-> TRUE]
NoRow == [status |-> "none", accepted |-> Never, arrived |-> Never, completed |-> Never,
          release |-> "none", autoAt |-> Never, terms |-> NoTerms]
NoJob == [status |-> "none", start |-> 0, end |-> 0,
          terms |-> [model |-> "BOOKED_BLOCK", minimum |-> 0, proration |-> FALSE,
                     release |-> FALSE, asksClient |-> TRUE, after |-> Never]]
NoInvoice == [status |-> "none", hours |-> 0, prorated |-> FALSE, model |-> "HOURLY", night |-> FALSE]
NoScan == [at |-> "idle", since |-> 0, todo |-> {}, row |-> 0]

Init ==
    /\ now = Opening
    /\ scenario \in Scenarios
    /\ billing = scenario.billing /\ pay = scenario.pay /\ rules = scenario.rules
    /\ active = TRUE /\ changes = scenario.changes
    /\ job = NoJob
    /\ asg = [i \in Rows |-> NoRow] /\ worked = [i \in Rows |-> 0] /\ covered = 0
    /\ invoice = NoInvoice /\ earning = [i \in Rows |-> Never]
    /\ releases = [todo |-> {}, row |-> 0]
    /\ running = FALSE /\ scan = [s \in Timers |-> NoScan]
    /\ alerts = [k \in Kinds |-> [i \in Rows |-> 0]]

-----------------------------------------------------------------------------
(* Rows are read by falling priority; the first whose filters match is     *)
(* taken.  None is a NotFoundException.                                    *)
Valid(f, start) == f.ours /\ f.from <= start \div Day /\ start \div Day <= f.until

First(rows, start) ==
    {r \in rows : /\ Valid(r.filter, start)
                  /\ \A q \in rows : Valid(q.filter, start) => q.filter.priority <= r.filter.priority}

resolveBillingPolicy(start) == First(billing, start)
resolvePayPolicy(start) == First(pay, start)

(* The catalogue's rate, unless a rule with a rate of its own matches; a   *)
(* flat rule without a fee has no applicable rate.                         *)
resolvePrice(start) ==
    LET first == First({r \in rules : r.hourly \/ r.flat}, start)
    IN IF ~active THEN {}
       ELSE IF first = {} THEN {"HOURLY"}
       ELSE {r.model : r \in {q \in first : q.model = "FLAT" => q.flat}}

Smaller(a, b) == IF a <= b THEN a ELSE b
Larger(a, b) == IF a >= b THEN a ELSE b

hoursBetween(start, end) == Larger(0, end - start)

NightHour(t) == LET h == (t % Day) \div Hour IN h >= 22 \/ h < 6

(* The loop looks at the start and at every whole hour after it.           *)
isNightShift(start, end) ==
    \E k \in 0 .. (end - start) : start + Hour * k < end /\ NightHour(start + Hour * k)

isEarlyReleaseApproved(resolution) == resolution \in {"APPROVED", "AUTO_APPROVED"}

effectiveBillingModelForInvoice(terms, approved) ==
    IF approved /\ terms.proration /\ terms.model = "BOOKED_BLOCK" THEN "ACTUAL_TIME" ELSE terms.model

(* computeBillableDuration and computePayableDuration after the choice of  *)
(* the model.                                                              *)
Duration(model, minimum, scheduled, actual) ==
    LET capped == Smaller(scheduled, actual)
    IN CASE model = "BOOKED_BLOCK" -> scheduled
         [] model = "ACTUAL_TIME" -> capped
         [] model = "MINIMUM_GUARANTEED" -> Larger(minimum, capped)

effectivePayModelForEarning(terms, approved) ==
    IF approved /\ ~terms.onRelease THEN "ACTUAL_TIME" ELSE terms.model

(* Mutant: the policy of the day of the accrual. *)
PayableByCurrentPolicy(row) ==
    LET terms == (CHOOSE p \in resolvePayPolicy(job.start) : TRUE).terms
    IN Duration(effectivePayModelForEarning(terms, isEarlyReleaseApproved(row.release)), terms.minimum,
                hoursBetween(job.start, job.end), hoursBetween(row.arrived, row.completed))

computePayableDuration(row) ==
    Duration(effectivePayModelForEarning(row.terms, isEarlyReleaseApproved(row.release)),
             row.terms.minimum, hoursBetween(job.start, job.end), hoursBetween(row.arrived, row.completed))
-----------------------------------------------------------------------------
Row(i, row) == asg' = [asg EXCEPT ![i] = row]
Moves(i, status) == Row(i, [asg[i] EXCEPT !.status = status])
JobMoves(status) == job' = [job EXCEPT !.status = status]

(* The guardian is paid by the policy of the day the job is booked for.    *)
Book(w) ==
    /\ job.status = "none" /\ active
    /\ hoursBetween(w[1], w[2]) >= MinimumBooking
    /\ \E p \in resolveBillingPolicy(w[1]) :
           job' = [status |-> "PENDING", start |-> w[1], end |-> w[2], terms |-> p.terms]
    /\ UNCHANGED <<now, office, asg, history, books, releases, ops>>

(* Dispatch, which JobLifecycle has in full: here one offer at a time.     *)
Offer(i) ==
    /\ job.status \in {"PENDING", "SEEKING_REPLACEMENT"}
    /\ i <= scenario.rows /\ asg[i].status = "none"
    /\ \A j \in Rows : (j < i => asg[j].status # "none") /\ asg[j].status \notin Coming
    /\ Moves(i, "OFFERED")
    /\ UNCHANGED <<now, office, job, history, books, releases, ops>>

OfferEnds(i) ==
    /\ asg[i].status = "OFFERED" /\ Moves(i, "EXPIRED")
    /\ UNCHANGED <<now, office, job, history, books, releases, ops>>

Accept(i) ==
    /\ asg[i].status = "OFFERED"
    /\ \E p \in resolvePayPolicy(job.start) :
           Row(i, [asg[i] EXCEPT !.status = "ACCEPTED", !.accepted = now, !.terms = p.terms])
    /\ UNCHANGED <<now, office, job, history, books, releases, ops>>

EnRoute(i) ==
    /\ asg[i].status = "ACCEPTED" /\ Moves(i, "EN_ROUTE")
    /\ UNCHANGED <<now, office, job, history, books, releases, ops>>

OnSite(i) ==
    /\ asg[i].status = "EN_ROUTE" /\ job.status = "PENDING"
    /\ Row(i, [asg[i] EXCEPT !.status = "ON_SITE", !.arrived = now])
    /\ JobMoves("IN_PROGRESS")
    /\ UNCHANGED <<now, office, history, books, releases, ops>>

(* Mutant: the guardian relieved is completed without a completedAt. *)
RelievesUntimed(d, i) ==
    asg' = [asg EXCEPT ![d] = [@ EXCEPT !.status = "COMPLETED"],
                       ![i] = [@ EXCEPT !.status = "ON_SITE", !.arrived = now]]

Relieves(d, i) ==
    asg' = [asg EXCEPT ![d] = [@ EXCEPT !.status = "COMPLETED", !.completed = now],
                       ![i] = [@ EXCEPT !.status = "ON_SITE", !.arrived = now]]

(* The relief arrives and the guardian it relieves is done, at one time.   *)
executeReplacementHandoff(i) ==
    /\ asg[i].status = "EN_ROUTE" /\ job.status = "SEEKING_REPLACEMENT"
    /\ \E d \in Rows : asg[d].status = "AWAITING_RELIEF" /\ Relieves(d, i)
    /\ JobMoves("IN_PROGRESS")
    /\ UNCHANGED <<now, office, history, books, releases, ops>>

RequestReplacement(i) ==
    /\ asg[i].status = "ON_SITE" /\ job.status = "IN_PROGRESS"
    /\ Moves(i, "REPLACEMENT_REQUESTED")
    /\ UNCHANGED <<now, office, job, history, books, releases, ops>>

ApproveReplacement(i) ==
    /\ asg[i].status = "REPLACEMENT_REQUESTED" /\ job.status = "IN_PROGRESS"
    /\ Moves(i, "AWAITING_RELIEF") /\ JobMoves("SEEKING_REPLACEMENT")
    /\ UNCHANGED <<now, office, history, books, releases, ops>>

DenyReplacement(i) ==
    /\ asg[i].status = "REPLACEMENT_REQUESTED" /\ Moves(i, "ON_SITE")
    /\ UNCHANGED <<now, office, job, history, books, releases, ops>>

RequestEarlyRelease(i) ==
    /\ asg[i].status = "ON_SITE" /\ job.terms.release
    /\ LET asks == job.terms.asksClient
       IN Row(i, [asg[i] EXCEPT !.status = "EARLY_RELEASE_REQUESTED",
                                !.release = IF asks THEN "none" ELSE "AUTO_APPROVED",
                                !.autoAt = IF asks /\ job.terms.after > 0
                                           THEN now + job.terms.after ELSE Never])
    /\ UNCHANGED <<now, office, job, history, books, releases, ops>>

ClientMayAnswer == scenario.overlap \/ releases.row = 0

ApproveEarlyRelease(i) ==
    /\ ClientMayAnswer
    /\ asg[i].status = "EARLY_RELEASE_REQUESTED" /\ asg[i].release = "none"
    /\ Row(i, [asg[i] EXCEPT !.release = "APPROVED", !.autoAt = Never])
    /\ UNCHANGED <<now, office, job, history, books, releases, ops>>

RejectEarlyRelease(i) ==
    /\ ClientMayAnswer
    /\ asg[i].status = "EARLY_RELEASE_REQUESTED"
    /\ Row(i, [asg[i] EXCEPT !.status = "ON_SITE", !.release = "REJECTED", !.autoAt = Never])
    /\ UNCHANGED <<now, office, job, history, books, releases, ops>>

(* The automation finds the requests whose time is up, ...                 *)
AutoApprovable ==
    {i \in Rows : /\ asg[i].status = "EARLY_RELEASE_REQUESTED" /\ asg[i].release = "none"
                  /\ asg[i].autoAt # Never /\ asg[i].autoAt <= now}

ScanReleases ==
    /\ releases.row = 0 /\ releases.todo = {} /\ AutoApprovable # {}
    /\ releases' = [releases EXCEPT !.todo = AutoApprovable]
    /\ UNCHANGED <<now, office, job, asg, history, books, ops>>

(* ... looks whether each still is unanswered, and approves what it saw.   *)
AutoApproveRead(i) ==
    /\ releases.row = 0 /\ i \in releases.todo
    /\ LET open == asg[i].status = "EARLY_RELEASE_REQUESTED" /\ asg[i].release = "none"
       IN releases' = [todo |-> releases.todo \ {i}, row |-> IF open THEN i ELSE 0]
    /\ UNCHANGED <<now, office, job, asg, history, books, ops>>

AutoApproveWrite ==
    /\ releases.row # 0
    /\ Row(releases.row, [asg[releases.row] EXCEPT !.release = "AUTO_APPROVED", !.autoAt = Never])
    /\ releases' = [releases EXCEPT !.row = 0]
    /\ UNCHANGED <<now, office, job, history, books, ops>>

-----------------------------------------------------------------------------
(* The draft bills from the first arrival to the completion of the last to *)
(* arrive; with no price, or no policy valid any more, there is none.      *)
Served == {i \in Rows : /\ asg[i].status = "COMPLETED"
                        /\ asg[i].arrived # Never /\ asg[i].completed # Never}

ArrivesBefore(i, j) == asg'[i].arrived < asg'[j].arrived \/ (asg'[i].arrived = asg'[j].arrived /\ i <= j)
FirstOf(served) == CHOOSE i \in served : \A j \in served : ArrivesBefore(i, j)
LastOf(served) == CHOOSE i \in served : \A j \in served : ArrivesBefore(j, i)

(* Mutant: the time of the last guardian only. *)
CoverageOfLast(served) == hoursBetween(asg'[LastOf(served)].arrived, asg'[LastOf(served)].completed)

Coverage(served) == hoursBetween(asg'[FirstOf(served)].arrived, asg'[LastOf(served)].completed)

Draft(served, price) ==
    LET approved == isEarlyReleaseApproved(asg'[LastOf(served)].release)
        model == effectiveBillingModelForInvoice(job.terms, approved)
    IN [status |-> "DRAFT",
        hours |-> Duration(model, job.terms.minimum, hoursBetween(job.start, job.end), Coverage(served)),
        prorated |-> model # job.terms.model, model |-> price,
        night |-> isNightShift(job.start, job.end)]

createDraftInvoiceForJob ==
    IF invoice.status # "none" \/ resolvePrice(job.start) = {} \/ resolveBillingPolicy(job.start) = {}
    THEN UNCHANGED invoice
    ELSE \E m \in resolvePrice(job.start) : invoice' = Draft(Served', m)

Complete(i) ==
    /\ \/ asg[i].status = "ON_SITE"
       \/ asg[i].status = "EARLY_RELEASE_REQUESTED" /\ isEarlyReleaseApproved(asg[i].release)
    /\ job.status = "IN_PROGRESS"
    /\ Row(i, [asg[i] EXCEPT !.status = "COMPLETED", !.completed = now])
    /\ JobMoves("AWAITING_CONFIRMATION")
    /\ createDraftInvoiceForJob
    /\ UNCHANGED <<now, office, history, earning, releases, ops>>

(* The client confirms and pays, and every guardian who served earns; the  *)
(* steps in between are those of Billing.                                  *)
ConfirmPayment ==
    /\ invoice.status = "DRAFT"
    /\ invoice' = [invoice EXCEPT !.status = "PAID"]
    /\ earning' = [i \in Rows |-> IF i \in Served THEN computePayableDuration(asg[i]) ELSE earning[i]]
    /\ UNCHANGED <<now, office, job, asg, history, releases, ops>>

(* An accepted offer nobody set out for, or a guardian under way at whose  *)
(* job the shift began a while ago.                                        *)
AutoNoShow(i) ==
    /\ \/ asg[i].status = "ACCEPTED" /\ asg[i].accepted <= now - NoShowAfter
       \/ asg[i].status = "EN_ROUTE" /\ asg[i].arrived = Never /\ job.start <= now - NoShowGrace
    /\ Moves(i, "NO_SHOW")
    /\ UNCHANGED <<now, office, job, history, books, releases, ops>>

-----------------------------------------------------------------------------
(* The administrator writes a row or another in the place of one.          *)
Written(rows, all) == {rows \cup {r} : r \in all} \cup {(rows \ {q}) \cup {r} : q \in rows, r \in all}

Changes == changes > 0 /\ changes' = changes - 1

WriteBillingPolicy ==
    /\ Changes /\ billing' \in Written(billing, BillingPolicies)
    /\ UNCHANGED <<now, scenario, pay, rules, active, job, asg, history, books, releases, ops>>

WritePayPolicy ==
    /\ Changes /\ pay' \in Written(pay, PayPolicies)
    /\ UNCHANGED <<now, scenario, billing, rules, active, job, asg, history, books, releases, ops>>

WritePricingRule ==
    /\ Changes /\ rules' \in Written(rules, PricingRules)
    /\ UNCHANGED <<now, scenario, billing, pay, active, job, asg, history, books, releases, ops>>

UpdateService ==
    /\ Changes /\ active' = ~active
    /\ UNCHANGED <<now, scenario, billing, pay, rules, job, asg, history, books, releases, ops>>

-----------------------------------------------------------------------------
detectEarlyCompletion(i) == asg[i].completed # Never /\ job.end - asg[i].completed - EarlyBy > 0
detectLateArrival(i) == asg[i].arrived # Never /\ asg[i].arrived - job.start - LateBy > 0

Anomalous(k, i) == IF k = "early" THEN detectEarlyCompletion(i) ELSE detectLateArrival(i)

Scans(s, stage) == scan[s].at = stage
Scan(s, to) == scan' = [scan EXCEPT ![s] = to]

Begin(s) ==
    LET since == now - Lookback
    IN Scan(s, [at |-> "early", since |-> since, row |-> 0,
                todo |-> {i \in Served : asg[i].completed >= since}])

(* Mutant: no look at the flag. *)
ScanStartsAnyway(s) ==
    /\ scenario.scans /\ Scans(s, "idle") /\ running' = TRUE /\ Begin(s)
    /\ UNCHANGED <<now, office, job, asg, history, books, releases, alerts>>

ScanStarts(s) ==
    /\ scenario.scans /\ Scans(s, "idle") /\ ~running
    /\ running' = TRUE /\ Begin(s)
    /\ UNCHANGED <<now, office, job, asg, history, books, releases, alerts>>

(* recordAlertIfNew looks for the alert and, in a later statement, adds it. *)
AlertRead(s, i) ==
    /\ scan[s].at \in Kinds /\ scan[s].row = 0 /\ i \in scan[s].todo
    /\ LET k == scan[s].at
       IN Scan(s, [scan[s] EXCEPT !.todo = @ \ {i},
                                  !.row = IF Anomalous(k, i) /\ alerts[k][i] = 0 THEN i ELSE 0])
    /\ UNCHANGED <<now, office, job, asg, history, books, releases, running, alerts>>

AlertWrite(s) ==
    /\ scan[s].row # 0
    /\ alerts' = [alerts EXCEPT ![scan[s].at][scan[s].row] = @ + 1]
    /\ Scan(s, [scan[s] EXCEPT !.row = 0])
    /\ UNCHANGED <<now, office, job, asg, history, books, releases, running>>

ScanTurns(s) ==
    /\ Scans(s, "early") /\ scan[s].todo = {} /\ scan[s].row = 0
    /\ Scan(s, [scan[s] EXCEPT !.at = "late",
                               !.todo = {i \in Rows : /\ asg[i].arrived # Never
                                                       /\ asg[i].arrived >= scan[s].since}])
    /\ UNCHANGED <<now, office, job, asg, history, books, releases, running, alerts>>

(* A statement that throws ends the scan as well.                          *)
ScanEnds(s) ==
    /\ ~Scans(s, "idle") /\ Scan(s, NoScan) /\ running' = FALSE
    /\ UNCHANGED <<now, office, job, asg, history, books, releases, alerts>>

Tick ==
    /\ now < Horizon /\ now' = now + 1
    /\ worked' = [i \in Rows |-> IF asg[i].status \in Present THEN worked[i] + 1 ELSE worked[i]]
    /\ covered' = IF \E i \in Rows : asg[i].status \in Present THEN covered + 1 ELSE covered
    /\ UNCHANGED <<office, job, asg, books, releases, ops>>

Guardian(i) ==
    \/ Offer(i) \/ OfferEnds(i) \/ Accept(i) \/ EnRoute(i) \/ AutoNoShow(i)
    \/ OnSite(i) \/ executeReplacementHandoff(i)
    \/ RequestReplacement(i) \/ ApproveReplacement(i) \/ DenyReplacement(i)
    \/ RequestEarlyRelease(i) \/ ApproveEarlyRelease(i) \/ RejectEarlyRelease(i)
    \/ Complete(i)

Automation ==
    \/ ScanReleases \/ AutoApproveWrite
    \/ \E i \in Rows : AutoApproveRead(i)

Administration == WriteBillingPolicy \/ WritePayPolicy \/ WritePricingRule \/ UpdateService

BillingOps(s) ==
    \/ ScanStarts(s) \/ AlertWrite(s) \/ ScanTurns(s) \/ ScanEnds(s)
    \/ \E i \in Rows : AlertRead(s, i)

Next ==
    \/ \E w \in Windows : Book(w)
    \/ \E i \in Rows : Guardian(i)
    \/ ConfirmPayment \/ Automation \/ Administration \/ Tick
    \/ \E s \in Timers : BillingOps(s)

Spec == Init /\ [][Next]_vars

-----------------------------------------------------------------------------
Times == Nat \cup {Never}

(* Times, policies, invoice and scans have the types the code gives them,  *)
(* at most one guardian is on site, and who is or was has the times that   *)
(* drafts and earnings are computed from, in their order.                  *)
TypeOK ==
    /\ now \in Nat /\ changes \in Nat /\ scenario \in Scenario
    /\ billing \subseteq BillingPolicies /\ pay \subseteq PayPolicies /\ rules \subseteq PricingRules
    /\ active \in BOOLEAN
    /\ job \in [status : {"none", "PENDING", "IN_PROGRESS", "SEEKING_REPLACEMENT", "AWAITING_CONFIRMATION"},
                start : Nat, end : Nat, terms : BillingTerms]
    /\ asg \in [Rows -> [status : AssignmentStatus, accepted : Times, arrived : Times, completed : Times,
                         release : Resolution, autoAt : Times, terms : PayTerms]]
    /\ worked \in [Rows -> Nat] /\ covered \in Nat
    /\ invoice \in [status : {"none", "DRAFT", "PAID"}, hours : Nat, prorated : BOOLEAN,
                    model : {"HOURLY", "FLAT"}, night : BOOLEAN]
    /\ earning \in [Rows -> Times]
    /\ releases \in [todo : SUBSET Rows, row : Rows \cup {0}]
    /\ running \in BOOLEAN
    /\ scan \in [Timers -> [at : {"idle"} \cup Kinds, since : Int, todo : SUBSET Rows, row : Rows \cup {0}]]
    /\ alerts \in [Kinds -> [Rows -> Nat]]
    /\ \A s \in Timers : scan[s].row # 0 => scan[s].at \in Kinds
    /\ \A i, j \in Rows : asg[i].status \in Present /\ asg[j].status \in Present => i = j
    /\ \A i \in Rows : LET a == asg[i] IN
           /\ a.status \in Present \cup {"COMPLETED"} => a.arrived # Never /\ a.accepted <= a.arrived
           /\ a.status = "COMPLETED" => a.completed # Never /\ a.arrived <= a.completed

(* docs/api/admin-billing-policies.md: the models over the hours somebody  *)
(* was on site, by the policy of the booking, whoever relieved whom and    *)
(* whatever administrators changed since; the release that counts is that  *)
(* of the guardian who was there at the end.                               *)
HoursAsAgreed ==
    LET scheduled == job.end - job.start
        onSite == Smaller(scheduled, covered)
        released == \E i \in Rows : /\ asg[i].status = "COMPLETED" /\ isEarlyReleaseApproved(asg[i].release)
                                     /\ \A j \in Rows : asg[j].status = "COMPLETED" => j <= i
    IN CASE job.terms.model = "ACTUAL_TIME" -> invoice.hours = onSite
         [] job.terms.model = "MINIMUM_GUARANTEED" -> invoice.hours = Larger(job.terms.minimum, onSite)
         [] job.terms.model = "BOOKED_BLOCK" ->
                invoice.hours = IF released /\ job.terms.proration THEN onSite ELSE scheduled

(* booking-policy.config.ts: the night is from 22:00 to 06:00.  Who pays   *)
(* the surcharge booked some of it, and who does not booked less than an   *)
(* hour of it, which the loop over whole hours steps over.                 *)
NightIsCharged ==
    LET night == {t \in job.start .. job.end - 1 : NightHour(t)}
    IN IF invoice.night THEN night # {} ELSE Cardinality(night) < Hour

ChargedAsAgreed == invoice.status # "none" => HoursAsAgreed /\ NightIsCharged

(* docs/api/admin-pay-policies.md: policy changes do not affect past       *)
(* assignments.  Of a paid invoice every guardian who was relieved or      *)
(* completed earns for the time on site by the policy of the acceptance.   *)
PaidAsAgreed ==
    invoice.status = "PAID" =>
        \A i \in Rows : asg[i].status = "COMPLETED" =>
            LET onSite == Smaller(job.end - job.start, worked[i])
                waived == isEarlyReleaseApproved(asg[i].release) /\ ~asg[i].terms.onRelease
            IN earning[i] = IF asg[i].terms.model = "ACTUAL_TIME" \/ waived THEN onSite
                            ELSE Larger(asg[i].terms.minimum, onSite)

(* Timers that fire while a scan is under way do not lead to a second      *)
(* alert of the same anomaly.                                              *)
AlertedOnce == \A k \in Kinds, i \in Rows : alerts[k][i] <= 1

(* docs/api/early-release.md: the worker approves requests that are open   *)
(* and have no resolution, so what a client has rejected stays rejected    *)
(* until the guardian asks again.  Refuted as README.md tells.             *)
RejectionStands ==
    [][\A i \in Rows : asg[i].release = "REJECTED" /\ asg'[i].release # "REJECTED" =>
           asg'[i].status = "EARLY_RELEASE_REQUESTED"]_vars
=============================================================================
