--------------------------- MODULE Roster_proofs ---------------------------
(***************************************************************************)
(* Theorems about Roster, for any number of guardians, jobs, clerks and    *)
(* slots, in serial order or overlapping, with or without failures: its    *)
(* types; rounds hold different guardians and never send more offers than  *)
(* a job has slots; offers go to guardians in good standing; and, in       *)
(* serial order, who is off duty is not put on duty by the work of before. *)
(***************************************************************************)
EXTENDS Roster, FiniteSetTheorems, TLAPS

-----------------------------------------------------------------------------
(* Counting. *)

(* Every subset of the guardians, and of the ordinary rows of a job, is    *)
(* finite.                                                                 *)
LEMMA SubsetsFinite ==
    /\ \A S \in SUBSET Guardians : IsFiniteSet(S) /\ Cardinality(S) \in Nat
    /\ \A j \in Jobs : \A S \in SUBSET Ordinary(j) : IsFiniteSet(S) /\ Cardinality(S) \in Nat
  <1>1. IsFiniteSet(Guardians)
    BY SomeGuardians, FS_Interval DEF Guardians
  <1>2. \A S \in SUBSET Guardians : IsFiniteSet(S) /\ Cardinality(S) \in Nat
    BY <1>1, FS_Subset, FS_CardinalityType
  <1>3. ASSUME NEW j \in Jobs, NEW S \in SUBSET Ordinary(j)
        PROVE  IsFiniteSet(S) /\ Cardinality(S) \in Nat
    <2> DEFINE f == [r \in S |-> Guardian(r)]
    <2>1. f \in Injection(S, Guardians)
      BY DEF Injection, IsInjective, Ordinary, Rows, JobOf, Guardian
    <2>2. IsFiniteSet(S)
      BY <1>1, <2>1, FS_Injection
    <2> QED
      BY <2>2, FS_CardinalityType
  <1> QED
    BY <1>2, <1>3

(* The first n of a set of guardians are n at most: the number of those    *)
(* before it tells one from another.                                       *)
LEMMA TopCounts ==
    ASSUME NEW S \in SUBSET Guardians, NEW n \in Nat
    PROVE  Top(S, n) \in SUBSET S /\ Cardinality(Top(S, n)) <= n
  <1> DEFINE before(g) == {h \in S : h < g}
             f == [g \in Top(S, n) |-> Cardinality(before(g))]
  <1>0. \A x \in S : x \in Int
    BY SomeGuardians DEF Guardians
  <1>1. Top(S, n) \in SUBSET S
    BY DEF Top
  <1>2. \A g \in Guardians : IsFiniteSet(before(g)) /\ Cardinality(before(g)) \in Nat
    BY SubsetsFinite
  <1>3. f \in [Top(S, n) -> 0 .. n - 1]
    BY <1>1, <1>2 DEF Top
  <1>4. ASSUME NEW g \in Top(S, n), NEW h \in Top(S, n), g < h
        PROVE  f[g] # f[h]
    <2>0. g \in Int /\ h \in Int /\ g \in S /\ \A x \in S : x \in Int
      BY <1>0, <1>1
    <2>1. \A x \in S : x < g => x < h
      BY <1>0, <1>4, <2>0
    <2>2. before(g) \subseteq before(h)
      BY <2>1
    <2>3. g \in before(h) /\ g \notin before(g)
      BY <1>4, <2>0
    <2>4. Cardinality(before(g)) # Cardinality(before(h))
      <3>1. before(g) # before(h)
        BY <2>3
      <3> QED
        BY <1>1, <1>2, <2>2, <3>1, FS_Subset
    <2> QED
      BY <2>4
  <1>5. f \in Injection(Top(S, n), 0 .. n - 1)
    <2>0. \A x \in Top(S, n) : x \in Int
      BY <1>0, <1>1
    <2>1. \A g, h \in Top(S, n) : ~(g < h) /\ ~(h < g) => g = h
      BY <2>0
    <2>2. \A g, h \in Top(S, n) : f[g] = f[h] => g = h
      <3> HIDE DEF f
      <3> QED
        BY <1>4, <2>1
    <2> QED
      BY <1>3, <2>2 DEF Injection, IsInjective
  <1>6. IsFiniteSet(0 .. n - 1) /\ Cardinality(0 .. n - 1) = n
    BY FS_Interval
  <1> QED
    BY <1>1, <1>5, <1>6, FS_Injection

(* The slots of a job that are taken or offered. *)
Claimed(j) == {r \in Ordinary(j) : live[r] # "none" \/ "COMPLETED" \in past[r]}

(* What has ended has not to end yet: a guardian who completed is not      *)
(* asked again for the same job.                                           *)
Done == \A j \in Jobs : \A r \in Ordinary(j) : live[r] # "none" => "COMPLETED" \notin past[r]

(* Open slots are those not claimed. *)
LEMMA ClaimsCounted ==
    ASSUME live \in [Rows -> LiveStatus], Done, NEW j \in Jobs
    PROVE  /\ IsFiniteSet(Claimed(j)) /\ Cardinality(Claimed(j)) \in Nat
           /\ Staffed(j) + Offered(j) = Cardinality(Claimed(j))
  <1> DEFINE A == {r \in Ordinary(j) : live[r] \in Active}
             B == {r \in Ordinary(j) : "COMPLETED" \in past[r]}
             C == {r \in Ordinary(j) : live[r] = "OFFERED"}
  <1>1. /\ IsFiniteSet(A) /\ IsFiniteSet(B) /\ IsFiniteSet(C)
        /\ Cardinality(A) \in Nat /\ Cardinality(B) \in Nat /\ Cardinality(C) \in Nat
    BY SubsetsFinite
  <1>2. A \cap B = {} /\ (A \cup B) \cap C = {} /\ Claimed(j) = (A \cup B) \cup C
    BY DEF Done, Claimed, Ordinary, LiveStatus, Active
  <1>3. IsFiniteSet(A \cup B) /\ Cardinality(A \cup B) = Cardinality(A) + Cardinality(B)
    <2>1. /\ IsFiniteSet(A \cup B)
          /\ Cardinality(A \cup B) = Cardinality(A) + Cardinality(B) - Cardinality({})
      BY ONLY <1>1, <1>2, FS_Union
    <2>2. Cardinality({}) = 0
      BY ONLY FS_EmptySet
    <2> QED
      BY ONLY <1>1, <2>1, <2>2
  <1>4. Cardinality(Claimed(j)) = Cardinality(A \cup B) + Cardinality(C)
    <2>1. Cardinality((A \cup B) \cup C) = Cardinality(A \cup B) + Cardinality(C) - Cardinality({})
      BY ONLY <1>1, <1>2, <1>3, FS_Union
    <2> QED
      BY <1>1, <1>2, <1>3, <2>1, FS_EmptySet
  <1>5. IsFiniteSet(Claimed(j)) /\ Cardinality(Claimed(j)) \in Nat
    BY SubsetsFinite DEF Claimed
  <1> QED
    BY <1>1, <1>3, <1>4, <1>5 DEF Staffed, Offered

-----------------------------------------------------------------------------
(* Types.                                                                  *)

RowsTyped ==
    /\ scenario \in Scenario /\ stranded \subseteq Guardians
    /\ user \in [Guardians -> {"PENDING", "ACTIVE", "DELETED"}]
    /\ account \in [Guardians -> {"INACTIVE", "ACTIVE", "SUSPENDED"}]
    /\ verified \in [Guardians -> BOOLEAN] /\ certified \in [Guardians -> BOOLEAN]
    /\ shift \in [Guardians -> ShiftStatus] /\ reachable \in [Guardians -> BOOLEAN]
    /\ open \in [Jobs -> BOOLEAN]
    /\ live \in [Rows -> LiveStatus] /\ past \in [Rows -> SUBSET PastStatus]

RoundsTyped ==
    round \in [Jobs -> [kind : Kinds \cup {"none"}, many : 0 .. Parallel,
                        held : SUBSET Guardians, candidates : SUBSET Guardians]]

(* What a clerk may have in hand: a guardian where it writes one's row, an *)
(* assignment that it ends, or has completed.                              *)
OpRecords == [at : Stages, who : Guardians \cup {0}, free : SUBSET Guardians,
              row : Rows \cup {<<>>}, ends : PastStatus \cup {"none"}]
InHand == {r \in OpRecords :
               /\ r.at \in {"freeWrite", "start", "activate", "delete"} => r.who \in Guardians
               /\ r.ends # "none" \/ r.at = "finish" => r.row \in Rows
               /\ r.ends # "COMPLETED"}

OpTyped == op \in [Clerks -> InHand]

(* The three parts give the type invariant. *)
LEMMA TypeParts == RowsTyped /\ RoundsTyped /\ OpTyped => TypeOK
  BY DEF RowsTyped, RoundsTyped, OpTyped, InHand, OpRecords, TypeOK

(* A request that goes on with a well-formed record is well-formed. *)
LEMMA GoesTyped ==
    ASSUME OpTyped, NEW c \in Clerks, NEW r \in InHand, Goes(c, r)
    PROVE  OpTyped'
  BY DEF Goes, OpTyped

(* Who is idle, and who sets guardians available, is well-formed. *)
LEMMA PlacesTyped ==
    /\ Idle \in InHand
    /\ \A S \in SUBSET Guardians : [Idle EXCEPT !.at = "free", !.free = S] \in InHand
    /\ \A g \in Guardians, s \in {"start", "activate", "delete"} :
           [Idle EXCEPT !.at = s, !.who = g] \in InHand
    /\ \A r \in Rows : [Idle EXCEPT !.at = "finish", !.row = r] \in InHand
    /\ \A r \in Rows, s \in {"CLOSED", "NO_SHOW"} :
           [Idle EXCEPT !.at = "free", !.free = {Guardian(r)}, !.row = r, !.ends = s] \in InHand
  BY DEF Idle, InHand, OpRecords, Stages, PastStatus, Rows, Guardian

(* Every step keeps the types of requests. *)
LEMMA OpStep ==
    ASSUME OpTyped, [Next]_vars
    PROVE  OpTyped'
  <1>0. \A r \in Rows : Guardian(r) \in Guardians
    BY DEF Rows, Guardian
  <1>1. CASE UNCHANGED vars
    BY <1>1 DEF vars, OpTyped
  <1>2. ASSUME NEW j \in Jobs, RoundBegins(j) \/ RoundOffers(j) PROVE OpTyped'
    BY <1>2 DEF RoundBegins, RoundOffers, OpTyped
  <1>3. ASSUME NEW c \in Clerks, NEW r \in Rows, NEW s \in {"CLOSED", "NO_SHOW"}, Withdraws(c, r, s)
        PROVE  OpTyped'
    BY <1>3, PlacesTyped, GoesTyped DEF Withdraws
  <1>4. ASSUME NEW c \in Clerks, NEW S \in SUBSET Guardians, Frees(c, S) PROVE OpTyped'
    <2>1. CASE S = {}
      BY <1>4, <2>1, PlacesTyped, GoesTyped DEF Frees
    <2>2. CASE S # {}
      BY <1>4, <2>2, PlacesTyped, GoesTyped DEF Frees
    <2> QED
      BY <2>1, <2>2
  <1>5. ASSUME NEW j \in Jobs, Expires(j) PROVE OpTyped'
    BY <1>3, <1>5 DEF Expires, Expire
  <1>6. ASSUME NEW c \in Clerks, Continue(c) PROVE OpTyped'
    <2>0. op[c] \in InHand
      BY DEF OpTyped
    <2>1. ASSUME NEW g \in Guardians, FreeRead(c, g) PROVE OpTyped'
      <3>1. /\ [op[c] EXCEPT !.free = @ \ {g}] \in InHand
            /\ [op[c] EXCEPT !.at = "freeWrite", !.who = g, !.free = @ \ {g}] \in InHand
        BY <2>0, <2>1 DEF FreeRead, Stands, InHand, OpRecords, Stages
      <3> QED
        BY <2>1, <3>1, GoesTyped DEF FreeRead
    <2>2. CASE FreeWrite(c)
      <3>1. [op[c] EXCEPT !.at = "free"] \in InHand
        BY <2>0 DEF InHand, OpRecords, Stages
      <3> QED
        BY <2>2, <3>1, GoesTyped DEF FreeWrite
    <2>3. CASE FreeEnds(c) \/ StartShiftWrite(c) \/ ActivateWrite(c) \/ DeleteWrite(c)
      BY <2>3, PlacesTyped, GoesTyped DEF FreeEnds, StartShiftWrite, ActivateWrite, DeleteWrite, Ends
    <2>4. CASE CompletionFrees(c) \/ CompletionThrows(c)
      <3>1. op[c].row \in Rows
        BY <2>0, <2>4 DEF CompletionFrees, CompletionThrows, Stands, InHand
      <3> QED
        BY <1>0, <1>4, <2>4, <3>1, PlacesTyped, GoesTyped DEF CompletionFrees, CompletionThrows, Ends
    <2> QED
      BY <1>6, <2>1, <2>2, <2>3, <2>4 DEF Continue
  <1>7. ASSUME NEW c \in Clerks, OfGuardian(c) PROVE OpTyped'
    <2>1. ASSUME NEW g \in Guardians, StartShift(c, g) PROVE OpTyped'
      BY <2>1, PlacesTyped, GoesTyped DEF StartShift
    <2>2. ASSUME NEW g \in Guardians, EndShift(c, g) \/ Heartbeat(c, g) PROVE OpTyped'
      BY <2>2 DEF EndShift, Heartbeat, OpTyped
    <2>3. ASSUME NEW r \in Rows, Decline(c, r) PROVE OpTyped'
      BY <1>3, <2>3 DEF Decline
    <2>4. ASSUME NEW r \in Rows, Accept(c, r) PROVE OpTyped'
      <3>1. PICK S \in SUBSET Rows : Frees(c, {Guardian(x) : x \in S})
        <4> DEFINE full == r[2] = "ordinary" /\ Staffed(JobOf(r)) + 1 >= Slots
                   S == IF full THEN {x \in Ordinary(JobOf(r)) : x # r /\ live[x] = "OFFERED"} ELSE {}
        <4>1. Frees(c, {Guardian(x) : x \in S})
          BY <2>4 DEF Accept
        <4>2. S \in SUBSET Rows
          BY DEF Ordinary
        <4> QED
          BY <4>1, <4>2
      <3>2. {Guardian(x) : x \in S} \in SUBSET Guardians
        BY <1>0
      <3> QED
        BY <1>4, <3>1, <3>2
    <2>5. ASSUME NEW r \in Rows, Arrive(c, r) \/ AskToLeave(c, r) PROVE OpTyped'
      BY <2>5 DEF Arrive, AskToLeave, OpTyped
    <2>6. ASSUME NEW r \in Rows, NEW s \in Rows, Handoff(c, r, s) PROVE OpTyped'
      BY <2>6 DEF Handoff, OpTyped
    <2>7. ASSUME NEW r \in Rows, Complete(c, r) PROVE OpTyped'
      BY <2>7, PlacesTyped, GoesTyped DEF Complete
    <2> QED
      BY <1>7, <2>1, <2>2, <2>3, <2>4, <2>5, <2>6, <2>7 DEF OfGuardian
  <1>8. ASSUME NEW c \in Clerks, OfStaff(c) PROVE OpTyped'
    <2>1. ASSUME NEW g \in Guardians, Review(c, g) \/ ReviewCertification(c, g) \/ Suspend(c, g)
          PROVE  OpTyped'
      BY <2>1 DEF Review, ReviewCertification, Suspend, OpTyped
    <2>2. ASSUME NEW g \in Guardians, Activate(c, g) \/ Delete(c, g) PROVE OpTyped'
      BY <2>2, PlacesTyped, GoesTyped DEF Activate, Delete
    <2>3. ASSUME NEW r \in Rows, NoShow(c, r) PROVE OpTyped'
      BY <1>3, <2>3 DEF NoShow
    <2>4. ASSUME NEW r \in Rows, DenyLeave(c, r) \/ AwaitRelief(c, r) PROVE OpTyped'
      BY <2>4 DEF DenyLeave, AwaitRelief, OpTyped
    <2>5. ASSUME NEW j \in Jobs, CancelJob(c, j) PROVE OpTyped'
      <3> DEFINE stays == {r \in Rows : r[2] = "substitute" /\ live[r] \in {"ON_SITE", "ASKING"}}
                 S == {r \in Rows : JobOf(r) = j /\ live[r] # "none"} \ stays
      <3>1. {Guardian(r) : r \in S} \in SUBSET Guardians
        BY <1>0
      <3>2. Frees(c, {Guardian(r) : r \in S})
        BY <2>5 DEF CancelJob
      <3> QED
        BY <1>4, <3>1, <3>2
    <2> QED
      BY <1>8, <2>1, <2>2, <2>3, <2>4, <2>5 DEF OfStaff
  <1>9. ASSUME NEW c \in Clerks, Fails(c) PROVE OpTyped'
    BY <1>9, PlacesTyped, GoesTyped DEF Fails, Ends
  <1>10. ASSUME NEW g \in Guardians, HeartbeatsStop(g) PROVE OpTyped'
    BY <1>10 DEF HeartbeatsStop, OpTyped
  <1> QED
    BY <1>1, <1>2, <1>5, <1>6, <1>7, <1>8, <1>9, <1>10 DEF Next

-----------------------------------------------------------------------------
(* What a step that belongs to no round does.                              *)

(* No row comes to be in progress or offered, and what completes was in    *)
(* progress.                                                               *)
Settles ==
    \A r \in Rows :
        /\ live'[r] # "none" => live[r] # "none"
        /\ live'[r] = "OFFERED" => live[r] = "OFFERED"
        /\ "COMPLETED" \in past'[r] /\ "COMPLETED" \notin past[r] =>
               live[r] # "none" /\ live'[r] = "none"

(* Whose row a round holds keeps its standing. *)
Keeps ==
    \A g \in Guardians : Locked(g) => account'[g] = account[g] /\ verified'[g] = verified[g]

(* The duty, the rows of accounts and the rest keep their types, too. *)
Fine == RowsTyped' /\ Settles /\ Keeps /\ UNCHANGED round

(* What a step leaves alone is fine. *)
LEMMA FineFrame ==
    ASSUME RowsTyped
    PROVE  /\ UNCHANGED <<scenario, stranded, files, duty, work, round>> => Fine
           /\ UNCHANGED <<scenario, stranded, files, work, round>>
              /\ shift' \in [Guardians -> ShiftStatus] /\ reachable' \in [Guardians -> BOOLEAN] => Fine
           /\ UNCHANGED <<scenario, files, round>> /\ Settles /\ stranded' \subseteq Guardians
              /\ shift' \in [Guardians -> ShiftStatus] /\ reachable' \in [Guardians -> BOOLEAN]
              /\ open' \in [Jobs -> BOOLEAN] /\ live' \in [Rows -> LiveStatus]
              /\ past' \in [Rows -> SUBSET PastStatus] => Fine
  BY DEF Fine, RowsTyped, Settles, Keeps, files, duty, work

(* The steps of clerks, expiries and heartbeats that stop are fine. *)
LEMMA OthersFine ==
    ASSUME RowsTyped, OpTyped,
           \/ \E j \in Jobs : Expires(j)
           \/ \E c \in Clerks : Continue(c) \/ OfGuardian(c) \/ OfStaff(c) \/ Fails(c)
           \/ \E g \in Guardians : HeartbeatsStop(g)
    PROVE  Fine
  <1>0. \A r \in Rows : Guardian(r) \in Guardians
    BY DEF Rows, Guardian
  <1> USE DEF ShiftStatus
  <1>1. ASSUME NEW j \in Jobs, Expires(j) PROVE Fine
    BY <1>1, FineFrame DEF Expires, Expire, Withdraws
  <1>2. ASSUME NEW c \in Clerks, Continue(c) PROVE Fine
    <2>0. op[c] \in InHand
      BY DEF OpTyped
    <2>1. CASE (\E g \in Guardians : FreeRead(c, g))
      BY <2>1, FineFrame DEF FreeRead
    <2>2. CASE FreeWrite(c) \/ StartShiftWrite(c)
      <3>1. shift' \in [Guardians -> ShiftStatus] /\ reachable' \in [Guardians -> BOOLEAN]
        BY <2>2 DEF FreeWrite, StartShiftWrite, RowsTyped
      <3> QED
        BY <2>2, <3>1, FineFrame DEF FreeWrite, StartShiftWrite, files, work
    <2>3. CASE FreeEnds(c)
      <3>1. CASE UNCHANGED work
        BY <2>3, <3>1, FineFrame DEF FreeEnds
      <3>2. CASE ~UNCHANGED work
        <4> DEFINE r == op[c].row
        <4>1. /\ op[c].ends \in PastStatus \ {"COMPLETED"} /\ r \in Rows /\ UNCHANGED open
              /\ live' = [live EXCEPT ![r] = "none"]
              /\ past' = [past EXCEPT ![r] = @ \cup {op[c].ends}]
          BY <2>0, <2>3, <3>2 DEF FreeEnds, InHand, OpRecords
        <4>2. live' \in [Rows -> LiveStatus] /\ past' \in [Rows -> SUBSET PastStatus]
          BY <4>1 DEF RowsTyped, LiveStatus
        <4>3. Settles
          BY <4>1 DEF Settles, RowsTyped
        <4> QED
          BY <2>3, <4>1, <4>2, <4>3, FineFrame DEF FreeEnds, duty, RowsTyped
      <3> QED
        BY <3>1, <3>2
    <2>4. CASE ActivateWrite(c) \/ DeleteWrite(c)
      <3>1. op[c].who \in Guardians
        BY <2>0, <2>4 DEF ActivateWrite, DeleteWrite, Stands, InHand
      <3>2. /\ UNCHANGED <<scenario, stranded, verified, certified, reachable, work, round>>
            /\ ~Locked(op[c].who)
        BY <2>4 DEF ActivateWrite, DeleteWrite, duty
      <3>3. /\ user' \in [Guardians -> {"PENDING", "ACTIVE", "DELETED"}]
            /\ account' \in [Guardians -> {"INACTIVE", "ACTIVE", "SUSPENDED"}]
            /\ shift' \in [Guardians -> ShiftStatus]
            /\ \A g \in Guardians : g # op[c].who => account'[g] = account[g]
        BY <2>4 DEF ActivateWrite, DeleteWrite, RowsTyped, duty
      <3> QED
        BY <3>1, <3>2, <3>3 DEF Fine, RowsTyped, Settles, Keeps, work
    <2>5. CASE CompletionFrees(c)
      BY <2>5, FineFrame DEF CompletionFrees
    <2>6. CASE CompletionThrows(c)
      <3>1. op[c].row \in Rows
        BY <2>0, <2>6 DEF CompletionThrows, Stands, InHand
      <3>2. stranded' \subseteq Guardians
        BY <1>0, <2>6, <3>1 DEF CompletionThrows, RowsTyped
      <3>3. UNCHANGED <<scenario, files, duty, work, round>>
        BY <2>6 DEF CompletionThrows
      <3> QED
        BY <3>2, <3>3 DEF Fine, RowsTyped, Settles, Keeps, files, duty, work
    <2> QED
      BY <1>2, <2>1, <2>2, <2>3, <2>4, <2>5, <2>6 DEF Continue
  <1>3. ASSUME NEW c \in Clerks, OfGuardian(c) PROVE Fine
    <2>1. ASSUME NEW g \in Guardians, StartShift(c, g) PROVE Fine
      BY <2>1, FineFrame DEF StartShift
    <2>2. ASSUME NEW g \in Guardians, EndShift(c, g) \/ Heartbeat(c, g) PROVE Fine
      <3>1. shift' \in [Guardians -> ShiftStatus] /\ reachable' \in [Guardians -> BOOLEAN]
        BY <2>2 DEF EndShift, Heartbeat, RowsTyped
      <3> QED
        BY <2>2, <3>1, FineFrame DEF EndShift, Heartbeat
    <2>3. ASSUME NEW r \in Rows, Decline(c, r) PROVE Fine
      BY <2>3, FineFrame DEF Decline, Withdraws
    <2>4. ASSUME NEW r \in Rows, Accept(c, r) PROVE Fine
      <3>1. PICK S \in SUBSET Rows :
               /\ live' = [x \in Rows |->
                              IF x = r THEN "COMING" ELSE IF x \in S THEN "none" ELSE live[x]]
               /\ past' = [x \in Rows |-> IF x \in S THEN past[x] \cup {"CLOSED"} ELSE past[x]]
        <4> DEFINE full == r[2] = "ordinary" /\ Staffed(JobOf(r)) + 1 >= Slots
                   S == IF full THEN {x \in Ordinary(JobOf(r)) : x # r /\ live[x] = "OFFERED"} ELSE {}
        <4>1. S \in SUBSET Rows
          BY DEF Ordinary
        <4> QED
          BY <2>4, <4>1 DEF Accept
      <3>2. /\ live[r] = "OFFERED" /\ UNCHANGED <<scenario, files, reachable, open, round>>
            /\ shift' = [shift EXCEPT ![Guardian(r)] = "BUSY"]
            /\ stranded' = stranded \ {Guardian(r)}
        BY <2>4 DEF Accept
      <3>3. live' \in [Rows -> LiveStatus] /\ past' \in [Rows -> SUBSET PastStatus]
        BY <3>1 DEF RowsTyped, LiveStatus, PastStatus
      <3>4. Settles
        BY <3>1, <3>2 DEF Settles
      <3> QED
        BY <3>2, <3>3, <3>4, FineFrame DEF RowsTyped
    <2>5. ASSUME NEW r \in Rows, Arrive(c, r) \/ AskToLeave(c, r) PROVE Fine
      <3>1. live' \in [Rows -> LiveStatus] /\ Settles
        BY <2>5 DEF Arrive, AskToLeave, Becomes, RowsTyped, LiveStatus, Settles
      <3> QED
        BY <2>5, <3>1, FineFrame DEF Arrive, AskToLeave, RowsTyped, duty
    <2>6. ASSUME NEW r \in Rows, NEW s \in Rows, Handoff(c, r, s) PROVE Fine
      <3>1. live' \in [Rows -> LiveStatus] /\ past' \in [Rows -> SUBSET PastStatus] /\ Settles
        BY <2>6 DEF Handoff, RowsTyped, LiveStatus, PastStatus, Settles
      <3> QED
        BY <2>6, <3>1, FineFrame DEF Handoff, RowsTyped
    <2>7. ASSUME NEW r \in Rows, Complete(c, r) PROVE Fine
      <3>1. live' \in [Rows -> LiveStatus] /\ past' \in [Rows -> SUBSET PastStatus] /\ Settles
        BY <2>7 DEF Complete, RowsTyped, LiveStatus, PastStatus, Settles
      <3> QED
        BY <2>7, <3>1, FineFrame DEF Complete, RowsTyped, duty
    <2> QED
      BY <1>3, <2>1, <2>2, <2>3, <2>4, <2>5, <2>6, <2>7 DEF OfGuardian
  <1>4. ASSUME NEW c \in Clerks, OfStaff(c) PROVE Fine
    <2>1. ASSUME NEW g \in Guardians, Review(c, g) PROVE Fine
      BY <2>1 DEF Review, Fine, RowsTyped, Settles, Keeps, duty, work
    <2>2. ASSUME NEW g \in Guardians, ReviewCertification(c, g) PROVE Fine
      BY <2>2 DEF ReviewCertification, Fine, RowsTyped, Settles, Keeps, duty, work
    <2>3. ASSUME NEW g \in Guardians, Suspend(c, g) PROVE Fine
      BY <2>3 DEF Suspend, Fine, RowsTyped, Settles, Keeps, work
    <2>4. ASSUME NEW g \in Guardians, Activate(c, g) \/ Delete(c, g) PROVE Fine
      BY <2>4, FineFrame DEF Activate, Delete
    <2>5. ASSUME NEW r \in Rows, NoShow(c, r) PROVE Fine
      BY <2>5, FineFrame DEF NoShow, Withdraws
    <2>6. ASSUME NEW r \in Rows, DenyLeave(c, r) \/ AwaitRelief(c, r) PROVE Fine
      <3>1. live' \in [Rows -> LiveStatus] /\ Settles
        BY <2>6 DEF DenyLeave, AwaitRelief, Becomes, RowsTyped, LiveStatus, Settles
      <3> QED
        BY <2>6, <3>1, FineFrame DEF DenyLeave, AwaitRelief, RowsTyped, duty
    <2>7. ASSUME NEW j \in Jobs, CancelJob(c, j) PROVE Fine
      <3>1. /\ open' \in [Jobs -> BOOLEAN] /\ live' \in [Rows -> LiveStatus]
            /\ past' \in [Rows -> SUBSET PastStatus] /\ Settles
        BY <2>7 DEF CancelJob, RowsTyped, LiveStatus, PastStatus, Settles
      <3> QED
        BY <2>7, <3>1, FineFrame DEF CancelJob, RowsTyped, duty
    <2> QED
      BY <1>4, <2>1, <2>2, <2>3, <2>4, <2>5, <2>6, <2>7 DEF OfStaff
  <1>5. ASSUME NEW c \in Clerks, Fails(c) PROVE Fine
    BY <1>5, FineFrame DEF Fails
  <1>6. ASSUME NEW g \in Guardians, HeartbeatsStop(g) PROVE Fine
    <2>1. shift' \in [Guardians -> ShiftStatus] /\ reachable' \in [Guardians -> BOOLEAN]
      BY <1>6 DEF HeartbeatsStop, RowsTyped
    <2> QED
      BY <1>6, <2>1, FineFrame DEF HeartbeatsStop
  <1> QED
    BY <1>1, <1>2, <1>3, <1>4, <1>5, <1>6

-----------------------------------------------------------------------------
(* The inductive invariant.                                                *)

(* Rounds hold the rows of different guardians, who are in good standing.  *)
Held ==
    /\ \A i, j \in Jobs : i # j => round[i].held \cap round[j].held = {}
    /\ \A j \in Jobs : /\ round[j].candidates \subseteq round[j].held
                       /\ \A g \in round[j].held : account[g] = "ACTIVE" /\ verified[g]

(* What a round of ordinary offers has counted is still open, and none of  *)
(* its candidates has come to claim a slot of the job.                     *)
Slotted ==
    \A j \in Jobs :
        /\ Cardinality(Claimed(j)) <= Slots
        /\ round[j].kind = "ordinary" =>
               /\ Cardinality(Claimed(j)) + round[j].many <= Slots
               /\ \A g \in round[j].candidates : <<j, "ordinary", g>> \notin Claimed(j)

IInv == RowsTyped /\ RoundsTyped /\ OpTyped /\ Held /\ Done /\ Slotted

(* The invariant holds initially. *)
LEMMA InvInit == Init => IInv
  <1> SUFFICES ASSUME Init PROVE IInv
    OBVIOUS
  <1>1. RowsTyped
    BY SomeScenario DEF Init, RowsTyped, Scenario, ShiftStatus, LiveStatus, PastStatus
  <1>2. RoundsTyped /\ Held
    BY SomePool DEF Init, RoundsTyped, Held, NoRound
  <1>3. OpTyped
    BY PlacesTyped DEF Init, OpTyped
  <1>4. Done
    BY DEF Init, Done, Ordinary
  <1>5. ASSUME NEW j \in Jobs PROVE Cardinality(Claimed(j)) = 0
    <2>1. Claimed(j) = {}
      BY DEF Init, Claimed, Ordinary
    <2> QED
      BY <2>1, FS_EmptySet
  <1>6. Slotted
    <2>1. Slots \in Nat /\ \A j \in Jobs : round[j].kind # "ordinary"
      BY SomePool DEF Init, NoRound
    <2> QED
      BY <1>5, <2>1 DEF Slotted
  <1> QED
    BY <1>1, <1>2, <1>3, <1>4, <1>6 DEF IInv

(* A step of no round keeps the invariant. *)
LEMMA FineStep ==
    ASSUME IInv, Fine
    PROVE  RoundsTyped' /\ Held' /\ Done' /\ Slotted'
  <1>1. RowsTyped /\ RowsTyped' /\ Settles /\ Keeps /\ round' = round
    BY DEF IInv, Fine
  <1>2. RoundsTyped'
    BY <1>1 DEF IInv, RoundsTyped
  <1>3. Held'
    BY <1>1 DEF IInv, Held, Keeps, Locked, RoundsTyped
  <1>4. Done'
    BY <1>1 DEF IInv, Done, Settles, Ordinary
  <1>5. ASSUME NEW j \in Jobs
        PROVE  /\ Claimed(j)' \subseteq Claimed(j)
               /\ Cardinality(Claimed(j)') \in Nat /\ Cardinality(Claimed(j)) \in Nat
               /\ Cardinality(Claimed(j)') <= Cardinality(Claimed(j))
    <2>1. Claimed(j)' \subseteq Claimed(j)
      BY <1>1 DEF Claimed, Settles, Ordinary
    <2>2. IsFiniteSet(Claimed(j)) /\ Cardinality(Claimed(j)) \in Nat
      BY SubsetsFinite DEF Claimed
    <2> QED
      BY <2>1, <2>2, FS_Subset, FS_CardinalityType
  <1>6. Slotted'
    BY <1>1, <1>5, SomePool DEF IInv, Slotted, RoundsTyped
  <1> QED
    BY <1>2, <1>3, <1>4, <1>6

(* The beginning of a round keeps it: whom another round holds is left     *)
(* out, and what is open is counted.                                       *)
LEMMA BeginsStep ==
    ASSUME IInv, NEW j \in Jobs, RoundBegins(j)
    PROVE  IInv'
  <1> DEFINE n == ParallelCount(j)
  <1>1. UNCHANGED <<scenario, stranded, files, duty, work, op>>
    BY DEF RoundBegins
  <1>2. RowsTyped' /\ OpTyped' /\ Done' /\ \A i \in Jobs : Claimed(i)' = Claimed(i)
    BY <1>1 DEF IInv, RowsTyped, OpTyped, Done, Claimed, Ordinary, files, duty, work
  <1>3. /\ Cardinality(Claimed(j)) \in Nat
        /\ Staffed(j) + Offered(j) = Cardinality(Claimed(j))
    BY ClaimsCounted DEF IInv, RowsTyped
  <1>4. n \in 0 .. Parallel /\ Cardinality(Claimed(j)) + n <= Slots
    BY <1>3, SomePool DEF IInv, Slotted, ParallelCount, OpenSlots
  <1>5. PICK excluded \in SUBSET Guardians, kind \in Kinds :
           /\ Locks(j, kind, excluded)
           /\ kind = "ordinary" => excluded = Excluded(j)
    <2> DEFINE P(excluded, kind) == /\ Locks(j, kind, excluded)
                                    /\ kind = "ordinary" => excluded = Excluded(j)
    <2>0. /\ Excluded(j) \in SUBSET Guardians /\ ReplacementExcluded(j) \in SUBSET Guardians
          /\ "ordinary" \in Kinds /\ "substitute" \in Kinds
      BY DEF Excluded, Tried, ReplacementExcluded, Kinds
    <2>1. CASE Locks(j, "ordinary", Excluded(j))
      <3>1. P(Excluded(j), "ordinary")
        BY <2>1
      <3> QED
        BY <2>0, <3>1
    <2>2. CASE Locks(j, "substitute", ReplacementExcluded(j))
      <3>1. P(ReplacementExcluded(j), "substitute")
        BY <2>2
      <3> QED
        BY <2>0, <3>1
    <2> QED
      BY <2>1, <2>2 DEF RoundBegins
  <1>6. /\ Pool(excluded) \subseteq Guardians
        /\ \A g \in Pool(excluded) : account[g] = "ACTIVE" /\ verified[g] /\ ~Locked(g)
    BY DEF Pool, Top, Eligible, Fit
  <1>7. /\ round' = [round EXCEPT ![j] = [kind |-> kind, many |-> n, held |-> Pool(excluded),
                                          candidates |-> Pool(excluded) \ excluded]]
        /\ round \in [Jobs -> [kind : Kinds \cup {"none"}, many : 0 .. Parallel,
                               held : SUBSET Guardians, candidates : SUBSET Guardians]]
    BY <1>5 DEF Locks, IInv, RoundsTyped
  <1>8. RoundsTyped'
    BY <1>4, <1>6, <1>7 DEF RoundsTyped
  <1>9. Held'
    BY <1>1, <1>6, <1>7 DEF IInv, Held, Locked, files
  <1>10. kind = "ordinary" =>
            \A g \in Pool(excluded) \ excluded : <<j, "ordinary", g>> \notin Claimed(j)
    <2> SUFFICES ASSUME NEW g \in Guardians, <<j, "ordinary", g>> \in Claimed(j)
                 PROVE  g \in Excluded(j)
      BY <1>5, <1>6
    <2> DEFINE r == <<j, "ordinary", g>>
    <2>1. r \in Ordinary(j) /\ (live[r] # "none" \/ "COMPLETED" \in past[r]) /\ Guardian(r) = g
      BY DEF Claimed, Guardian
    <2> QED
      BY <2>1 DEF Excluded
  <1>11. Slotted'
    BY <1>2, <1>4, <1>7, <1>10 DEF IInv, Slotted
  <1> QED
    BY <1>2, <1>8, <1>9, <1>11 DEF IInv

(* The guardians whom a round offers to. *)
LEMMA ChosenCounts ==
    ASSUME IInv, NEW j \in Jobs
    PROVE  /\ Chosen(j) \subseteq round[j].candidates
           /\ IsFiniteSet(Chosen(j)) /\ Cardinality(Chosen(j)) \in Nat
           /\ round[j].kind = "ordinary" => Cardinality(Chosen(j)) <= round[j].many
  <1> DEFINE able == {g \in round[j].candidates : reachable[g]}
  <1>1. able \in SUBSET Guardians /\ round[j].many \in Nat
    BY SomePool DEF IInv, RoundsTyped
  <1>2. /\ Top(able, round[j].many) \in SUBSET able /\ Top(able, 1) \in SUBSET able
        /\ Cardinality(Top(able, round[j].many)) <= round[j].many
    BY <1>1, TopCounts
  <1>3. Chosen(j) \subseteq able /\ (round[j].kind = "ordinary" => Chosen(j) = Top(able, round[j].many))
    BY <1>2 DEF Chosen
  <1> QED
    BY <1>1, <1>2, <1>3, SubsetsFinite

(* The offers of a round keep it. *)
LEMMA OffersStep ==
    ASSUME IInv, NEW j \in Jobs, RoundOffers(j)
    PROVE  IInv'
  <1> DEFINE kind == round[j].kind
             New == {r \in Rows : JobOf(r) = j /\ r[2] = kind /\ Guardian(r) \in Chosen(j)}
  <1>1. /\ UNCHANGED <<scenario, stranded, files, duty, open, past, op>>
        /\ live' = [r \in Rows |-> IF r \in New THEN "OFFERED" ELSE live[r]]
        /\ round' = [round EXCEPT ![j] = NoRound]
    BY DEF RoundOffers
  <1>2. RowsTyped' /\ OpTyped'
    BY <1>1 DEF IInv, RowsTyped, OpTyped, files, duty, LiveStatus
  <1>3. RoundsTyped' /\ Held'
    BY <1>1, SomePool DEF IInv, RoundsTyped, Held, NoRound, files
  <1>4. \A r \in New : kind = "ordinary" => r \notin Claimed(j)
    <2> SUFFICES ASSUME NEW r \in New, kind = "ordinary" PROVE r \notin Claimed(j)
      OBVIOUS
    <2>1. r = <<j, "ordinary", Guardian(r)>> /\ Guardian(r) \in round[j].candidates
      BY ChosenCounts DEF Rows, JobOf, Guardian
    <2> QED
      BY <2>1 DEF IInv, Slotted
  <1>5. Done'
    <2> SUFFICES ASSUME NEW i \in Jobs, NEW r \in Ordinary(i), live'[r] # "none"
                 PROVE  "COMPLETED" \notin past'[r]
      BY DEF Done, Ordinary
    <2>1. r \in Rows /\ JobOf(r) = i /\ r[2] = "ordinary"
      BY DEF Ordinary
    <2>2. CASE r \in New
      BY <1>1, <1>4, <2>1, <2>2 DEF Claimed, Ordinary
    <2>3. CASE r \notin New
      BY <1>1, <2>1, <2>3 DEF IInv, Done
    <2> QED
      BY <2>2, <2>3
  <1>6. ASSUME NEW i \in Jobs
        PROVE  IsFiniteSet(Claimed(i)) /\ Cardinality(Claimed(i)) \in Nat
    BY SubsetsFinite DEF Claimed
  <1>7. ASSUME NEW i \in Jobs, i # j \/ kind # "ordinary"
        PROVE  Claimed(i)' = Claimed(i)
    BY <1>1, <1>7 DEF Claimed, Ordinary
  <1>8. ASSUME kind = "ordinary"
        PROVE  /\ Cardinality(Claimed(j)') \in Nat
               /\ Cardinality(Claimed(j)') <= Cardinality(Claimed(j)) + round[j].many
    <2> DEFINE f == [r \in New |-> Guardian(r)]
    <2>1. f \in Injection(New, Chosen(j))
      BY DEF Injection, IsInjective, Rows, JobOf, Guardian
    <2>2. /\ IsFiniteSet(New) /\ Cardinality(New) <= Cardinality(Chosen(j))
          /\ Cardinality(Chosen(j)) \in Nat /\ Cardinality(Chosen(j)) <= round[j].many
      BY <1>8, <2>1, ChosenCounts, FS_Injection
    <2>3. Claimed(j)' = Claimed(j) \cup New
      BY <1>1, <1>8 DEF Claimed, Ordinary
    <2>4. Cardinality(New) \in Nat /\ Cardinality(Claimed(j) \cap New) \in Nat
      BY <1>6, <2>2, FS_CardinalityType, FS_Intersection
    <2>5. Cardinality(Claimed(j)') = Cardinality(Claimed(j)) + Cardinality(New)
                                     - Cardinality(Claimed(j) \cap New)
      BY <1>6, <2>2, <2>3, FS_Union
    <2>6. Cardinality(Claimed(j)') \in Nat
      BY <1>6, <2>2, <2>3, FS_Union, FS_CardinalityType
    <2>7. round[j].many \in Nat
      BY SomePool DEF IInv, RoundsTyped
    <2> QED
      BY <1>6, <2>2, <2>4, <2>5, <2>6, <2>7
  <1>9. Slotted'
    <2> SUFFICES ASSUME NEW i \in Jobs
                 PROVE  /\ Cardinality(Claimed(i)') <= Slots
                        /\ round'[i].kind = "ordinary" =>
                              /\ Cardinality(Claimed(i)') + round'[i].many <= Slots
                              /\ \A g \in round'[i].candidates : <<i, "ordinary", g>> \notin Claimed(i)'
      BY DEF Slotted
    <2>1. CASE i # j
      BY <1>1, <1>7, <2>1 DEF IInv, Slotted
    <2>2. CASE i = j
      <3>1. round'[i].kind # "ordinary"
        BY <1>1, <2>2 DEF IInv, RoundsTyped, NoRound
      <3>2. CASE kind = "ordinary"
        BY <1>6, <1>8, <2>2, <3>1, <3>2, SomePool DEF IInv, Slotted, RoundsTyped
      <3>3. CASE kind # "ordinary"
        BY <1>7, <2>2, <3>1, <3>3 DEF IInv, Slotted
      <3> QED
        BY <3>2, <3>3
    <2> QED
      BY <2>1, <2>2
  <1> QED
    BY <1>2, <1>3, <1>5, <1>9 DEF IInv

(* Every step keeps the invariant. *)
LEMMA InvStep ==
    ASSUME IInv, [Next]_vars
    PROVE  IInv'
  <1>1. CASE UNCHANGED vars
    <2>1. UNCHANGED <<scenario, stranded, files, duty, work, round>> /\ UNCHANGED op
      BY <1>1 DEF vars
    <2>2. Fine
      BY <2>1, FineFrame DEF IInv
    <2>3. RowsTyped' /\ OpTyped'
      BY <2>1, <2>2 DEF Fine, IInv, OpTyped
    <2> QED
      BY <2>2, <2>3, FineStep DEF IInv
  <1>2. ASSUME NEW j \in Jobs, RoundBegins(j) PROVE IInv'
    BY <1>2, BeginsStep
  <1>3. ASSUME NEW j \in Jobs, RoundOffers(j) PROVE IInv'
    BY <1>3, OffersStep
  <1>4. CASE \/ \E j \in Jobs : Expires(j)
             \/ \E c \in Clerks : Continue(c) \/ OfGuardian(c) \/ OfStaff(c) \/ Fails(c)
             \/ \E g \in Guardians : HeartbeatsStop(g)
    <2>1. Fine
      BY <1>4, OthersFine DEF IInv
    <2>2. OpTyped'
      BY OpStep DEF IInv
    <2> QED
      BY <2>1, <2>2, FineStep DEF IInv, Fine
  <1> QED
    BY <1>1, <1>2, <1>3, <1>4 DEF Next

-----------------------------------------------------------------------------
(* The invariant holds for good: what a round has locked stays as it was   *)
(* read, and what it has counted stays open, until its offers are sent.    *)
THEOREM RosterInvariant == Spec => []IInv
  BY InvInit, InvStep, PTL DEF Spec

(* Rows, rounds and requests have their types, however they overlap. *)
THEOREM TypeCorrect == Spec => []TypeOK
  <1>1. IInv => TypeOK
    BY TypeParts DEF IInv
  <1> QED
    BY RosterInvariant, <1>1, PTL

(* FOR UPDATE SKIP LOCKED keeps rounds apart, and a job with one dispatch  *)
(* worker at a time never has more guardians and offers than slots.        *)
THEOREM RoundsStayApart == Spec => []RoundsKeepApart
  <1>1. IInv => RoundsKeepApart
    <2> SUFFICES ASSUME IInv PROVE RoundsKeepApart
      OBVIOUS
    <2>1. \A j \in Jobs : Staffed(j) + Offered(j) = Cardinality(Claimed(j))
      BY ClaimsCounted DEF IInv, RowsTyped
    <2> QED
      BY <2>1 DEF IInv, Held, Slotted, RoundsKeepApart
  <1> QED
    BY RosterInvariant, <1>1, PTL

(* Whoever suspends, deletes or reviews a guardian waits for the round     *)
(* that holds the row, so an offer meets the standing that was read.       *)
THEOREM OffersInGoodStanding == Spec => OfferedInGoodStanding
  <1>1. ASSUME IInv, [Next]_vars, NEW r \in Rows, live[r] = "none", live'[r] = "OFFERED"
        PROVE  account[Guardian(r)] = "ACTIVE" /\ verified[Guardian(r)]
    <2>1. CASE UNCHANGED vars
      BY <1>1, <2>1 DEF vars, work
    <2>2. ASSUME NEW j \in Jobs, RoundBegins(j) PROVE FALSE
      BY <1>1, <2>2 DEF RoundBegins, work
    <2>3. ASSUME NEW j \in Jobs, RoundOffers(j)
          PROVE  account[Guardian(r)] = "ACTIVE" /\ verified[Guardian(r)]
      <3>1. Guardian(r) \in Chosen(j)
        BY <1>1, <2>3 DEF RoundOffers
      <3> QED
        BY <1>1, <3>1, ChosenCounts DEF IInv, Held
    <2>4. CASE \/ \E j \in Jobs : Expires(j)
               \/ \E c \in Clerks : Continue(c) \/ OfGuardian(c) \/ OfStaff(c) \/ Fails(c)
               \/ \E g \in Guardians : HeartbeatsStop(g)
      <3>1. Fine
        BY <1>1, <2>4, OthersFine DEF IInv
      <3> QED
        BY <1>1, <3>1 DEF Fine, Settles
    <2> QED
      BY <1>1, <2>1, <2>2, <2>3, <2>4 DEF Next
  <1>2. IInv /\ [Next]_vars =>
           [\A r \in Rows : live[r] = "none" /\ live'[r] = "OFFERED" =>
                account[Guardian(r)] = "ACTIVE" /\ verified[Guardian(r)]]_vars
    BY <1>1
  <1> QED
    BY RosterInvariant, <1>2, PTL DEF Spec, OfferedInGoodStanding

-----------------------------------------------------------------------------
(* Serial order.                                                           *)

(* In serial order one request is under way at most, and what it has read  *)
(* of a guardian still holds: one whom it is about to set available is not *)
(* off duty, and one whose shift it is about to start may start it.        *)
Alone ==
    scenario.serial =>
        /\ \A c, d \in Clerks : op[c] # Idle /\ op[d] # Idle => c = d
        /\ \A c \in Clerks : op[c].at = "freeWrite" => shift[op[c].who] # "OFF_DUTY"
        /\ \A c \in Clerks : op[c].at = "start" => MayStart(op[c].who)

(* A request that begins or goes on is the only one. *)
LEMMA GoesAlone ==
    ASSUME OpTyped, Alone, NEW c \in Clerks, NEW p, Goes(c, p), UNCHANGED scenario,
           Begins(c) \/ op[c] # Idle,
           p.at = "freeWrite" => shift'[p.who] # "OFF_DUTY",
           p.at = "start" => MayStart(p.who)'
    PROVE  Alone'
  <1> SUFFICES ASSUME scenario.serial
               PROVE  /\ \A d, e \in Clerks : op'[d] # Idle /\ op'[e] # Idle => d = e
                      /\ \A d \in Clerks : op'[d].at = "freeWrite" => shift'[op'[d].who] # "OFF_DUTY"
                      /\ \A d \in Clerks : op'[d].at = "start" => MayStart(op[d].who)'
    BY DEF Alone, Idle
  <1>1. \A d \in Clerks : d # c => op[d] = Idle
    BY DEF Begins, MayBegin, Quiet, Alone
  <1>2. \A d \in Clerks : op'[d] = IF d = c THEN p ELSE Idle
    BY <1>1 DEF Goes, OpTyped
  <1>3. Idle.at = "idle"
    BY DEF Idle
  <1>4. ASSUME NEW d \in Clerks, op'[d].at = "start" PROVE MayStart(op[d].who)'
    <2>1. d = c /\ op'[d] = p
      BY <1>2, <1>3, <1>4
    <2> QED
      BY <1>4, <2>1 DEF MayStart, Fit
  <1> QED
    BY <1>2, <1>3, <1>4

(* A step between requests disturbs none, whatever it writes; a step that  *)
(* writes neither duty nor accounts disturbs none either.                  *)
LEMMA StaysAlone ==
    ASSUME Alone, UNCHANGED scenario, UNCHANGED op,
           (\E c \in Clerks : Begins(c)) \/ UNCHANGED <<files, shift>>
    PROVE  Alone'
  <1>1. CASE \E c \in Clerks : Begins(c)
    BY <1>1 DEF Begins, MayBegin, Quiet, Alone, Idle
  <1>2. CASE UNCHANGED <<files, shift>>
    BY <1>2 DEF Alone, files, MayStart, Fit
  <1> QED
    BY <1>1, <1>2

(* How a guardian may come on duty. *)
Rises ==
    scenario.serial => \A g \in Guardians : shift[g] = "OFF_DUTY" /\ shift'[g] # "OFF_DUTY" =>
        \/ MayStart(g) /\ \E c \in Clerks : StartShiftWrite(c) /\ op[c].who = g
        \/ \E c \in Clerks, r \in Rows : Accept(c, r) /\ Guardian(r) = g
        \/ \E c \in Clerks, r, s \in Rows : Handoff(c, r, s) /\ Guardian(s) = g

(* A request that comes to set guardians available, to withdraw or to      *)
(* finish an assignment, or to write an account, is alone.                 *)
LEMMA BeginsAlone ==
    ASSUME OpTyped, Alone, NEW c \in Clerks, Begins(c) \/ op[c] # Idle, UNCHANGED scenario,
           \/ \E S : Frees(c, S)
           \/ \E r : Goes(c, [Idle EXCEPT !.at = "finish", !.row = r])
           \/ \E r, s : Withdraws(c, r, s)
           \/ \E g, s : s \in {"activate", "delete"} /\ Goes(c, [Idle EXCEPT !.at = s, !.who = g])
    PROVE  Alone'
  <1>1. ASSUME NEW S, Frees(c, S) PROVE Alone'
    <2>1. CASE S = {}
      BY <1>1, <2>1, GoesAlone DEF Frees, Idle
    <2>2. CASE S # {}
      <3> DEFINE p == [Idle EXCEPT !.at = "free", !.free = S]
      <3>1. Goes(c, p) /\ p.at = "free"
        BY <1>1, <2>2 DEF Frees, Idle
      <3> HIDE DEF p
      <3> QED
        BY <3>1, GoesAlone
    <2> QED
      BY <2>1, <2>2
  <1>2. ASSUME NEW r, NEW s, Withdraws(c, r, s) PROVE Alone'
    <2> DEFINE p == [Idle EXCEPT !.at = "free", !.free = {Guardian(r)}, !.row = r, !.ends = s]
    <2>1. Goes(c, p) /\ p.at = "free"
      BY <1>2 DEF Withdraws, Idle
    <2> HIDE DEF p
    <2> QED
      BY <2>1, GoesAlone
  <1>3. ASSUME NEW g, NEW s \in {"activate", "delete"}, Goes(c, [Idle EXCEPT !.at = s, !.who = g])
        PROVE  Alone'
    <2> DEFINE p == [Idle EXCEPT !.at = s, !.who = g]
    <2>1. Goes(c, p) /\ p.at = s
      BY <1>3 DEF Idle
    <2> HIDE DEF p
    <2> QED
      BY <2>1, GoesAlone
  <1>4. ASSUME NEW r, Goes(c, [Idle EXCEPT !.at = "finish", !.row = r])
        PROVE  Alone'
    <2> DEFINE p == [Idle EXCEPT !.at = "finish", !.row = r]
    <2>1. Goes(c, p) /\ p.at = "finish"
      BY <1>4 DEF Idle
    <2> HIDE DEF p
    <2> QED
      BY <2>1, GoesAlone
  <1> QED
    BY <1>1, <1>2, <1>3, <1>4

(* The steps of a request that goes on. *)
LEMMA ContinueAlone ==
    ASSUME RowsTyped, OpTyped, Alone, NEW c \in Clerks, Continue(c)
    PROVE  Alone' /\ Rises
  <1>0. op[c] \in InHand
    BY DEF OpTyped
  <1>1. ASSUME NEW g \in Guardians, FreeRead(c, g) PROVE Alone' /\ Rises
    <2>1. op[c] # Idle /\ op[c].at = "free" /\ UNCHANGED <<scenario, shift>>
      BY <1>1 DEF FreeRead, Stands, Idle, duty
    <2>2. CASE shift[g] = "OFF_DUTY"
      <3> DEFINE p == [op[c] EXCEPT !.free = @ \ {g}]
      <3>1. Goes(c, p) /\ p.at = "free"
        BY <1>0, <1>1, <2>1, <2>2 DEF FreeRead, InHand, OpRecords
      <3> HIDE DEF p
      <3>2. Alone'
        BY <2>1, <3>1, GoesAlone
      <3> QED
        BY <2>1, <3>2 DEF Rises
    <2>3. CASE shift[g] # "OFF_DUTY"
      <3> DEFINE p == [op[c] EXCEPT !.at = "freeWrite", !.who = g, !.free = @ \ {g}]
      <3>1. Goes(c, p) /\ p.at = "freeWrite" /\ p.who = g
        BY <1>0, <1>1, <2>1, <2>3 DEF FreeRead, InHand, OpRecords
      <3> HIDE DEF p
      <3>2. Alone'
        BY <2>1, <2>3, <3>1, GoesAlone
      <3> QED
        BY <2>1, <3>2 DEF Rises
    <2> QED
      BY <2>2, <2>3
  <1>2. CASE FreeWrite(c)
    <2> DEFINE p == [op[c] EXCEPT !.at = "free"]
    <2>1. /\ op[c] # Idle /\ op[c].at = "freeWrite" /\ UNCHANGED scenario
          /\ shift' = [shift EXCEPT ![op[c].who] = "AVAILABLE"]
          /\ Goes(c, p) /\ p.at = "free"
      BY <1>0, <1>2 DEF FreeWrite, Stands, Idle, InHand, OpRecords
    <2> HIDE DEF p
    <2>2. Alone'
      BY <2>1, GoesAlone
    <2>3. Rises
      BY <2>1 DEF Rises, Alone, RowsTyped
    <2> QED
      BY <2>2, <2>3
  <1>3. CASE FreeEnds(c)
    <2>1. op[c] # Idle /\ UNCHANGED <<scenario, shift>> /\ Goes(c, Idle) /\ Idle.at = "idle"
      BY <1>3 DEF FreeEnds, Stands, Ends, Idle, duty
    <2>2. Alone'
      BY <2>1, GoesAlone
    <2> QED
      BY <2>1, <2>2 DEF Rises
  <1>4. CASE StartShiftWrite(c)
    <2>1. /\ op[c] # Idle /\ op[c].at = "start" /\ UNCHANGED scenario
          /\ shift' = [shift EXCEPT ![op[c].who] = "AVAILABLE"]
          /\ Goes(c, Idle) /\ Idle.at = "idle"
      BY <1>4 DEF StartShiftWrite, Stands, Ends, Idle
    <2>2. Alone'
      BY <2>1, GoesAlone
    <2>3. ASSUME scenario.serial, NEW g \in Guardians, shift[g] = "OFF_DUTY", shift'[g] # "OFF_DUTY"
          PROVE  MayStart(g) /\ op[c].who = g
      <3>1. op[c].who = g
        BY <2>1, <2>3 DEF RowsTyped
      <3> QED
        BY <2>1, <2>3, <3>1 DEF Alone
    <2>4. Rises
      BY <1>4, <2>3 DEF Rises
    <2> QED
      BY <2>2, <2>4
  <1>5. CASE ActivateWrite(c) \/ DeleteWrite(c)
    <2>1. op[c] # Idle /\ UNCHANGED scenario /\ Goes(c, Idle) /\ Idle.at = "idle"
      BY <1>5 DEF ActivateWrite, DeleteWrite, Stands, Ends, Idle
    <2>2. Alone'
      BY <2>1, GoesAlone
    <2>3. Rises
      BY <1>5 DEF ActivateWrite, DeleteWrite, Rises, RowsTyped, duty
    <2> QED
      BY <2>2, <2>3
  <1>6. CASE CompletionFrees(c)
    <2>1. op[c] # Idle /\ UNCHANGED <<scenario, shift>> /\ (\E S : Frees(c, S))
      BY <1>6 DEF CompletionFrees, Stands, Idle, duty
    <2>2. Alone'
      BY <2>1, BeginsAlone
    <2> QED
      BY <2>1, <2>2 DEF Rises
  <1>7. CASE CompletionThrows(c)
    <2>1. op[c] # Idle /\ UNCHANGED <<scenario, shift>> /\ Goes(c, Idle) /\ Idle.at = "idle"
      BY <1>7 DEF CompletionThrows, Stands, Ends, Idle, duty
    <2>2. Alone'
      BY <2>1, GoesAlone
    <2> QED
      BY <2>1, <2>2 DEF Rises
  <1> QED
    BY <1>1, <1>2, <1>3, <1>4, <1>5, <1>6, <1>7 DEF Continue

(* The requests that guardians begin. *)
LEMMA GuardianAlone ==
    ASSUME RowsTyped, OpTyped, Alone, NEW c \in Clerks, OfGuardian(c)
    PROVE  Alone' /\ Rises
  <1>1. ASSUME NEW g \in Guardians, StartShift(c, g) PROVE Alone' /\ Rises
    <2> DEFINE p == [Idle EXCEPT !.at = "start", !.who = g]
    <2>1. /\ Begins(c) /\ MayStart(g) /\ UNCHANGED <<scenario, files, shift>>
          /\ Goes(c, p) /\ p.at = "start" /\ p.who = g
      BY <1>1 DEF StartShift, Idle, duty
    <2>2. MayStart(g)'
      BY <2>1 DEF MayStart, Fit, files
    <2> HIDE DEF p
    <2>3. MayStart(p.who)'
      BY <2>1, <2>2 DEF MayStart, Fit
    <2>4. Alone'
      BY <2>1, <2>3, GoesAlone
    <2> QED
      BY <2>1, <2>4 DEF Rises
  <1>2. ASSUME NEW g \in Guardians, EndShift(c, g) \/ Heartbeat(c, g) PROVE Alone' /\ Rises
    <2>1. Alone'
      BY <1>2, StaysAlone DEF EndShift, Heartbeat
    <2>2. Rises
      BY <1>2 DEF EndShift, Heartbeat, Rises, RowsTyped
    <2> QED
      BY <2>1, <2>2
  <1>3. ASSUME NEW r \in Rows, Decline(c, r) PROVE Alone' /\ Rises
    <2>1. Begins(c) /\ Withdraws(c, r, "CLOSED") /\ UNCHANGED <<scenario, shift>>
      BY <1>3 DEF Decline, Withdraws, duty
    <2> QED
      BY <2>1, BeginsAlone DEF Rises
  <1>4. ASSUME NEW r \in Rows, Accept(c, r) PROVE Alone' /\ Rises
    <2>1. /\ Begins(c) /\ UNCHANGED scenario /\ (\E S : Frees(c, S))
          /\ shift' = [shift EXCEPT ![Guardian(r)] = "BUSY"]
      BY <1>4 DEF Accept
    <2>2. Alone'
      BY <2>1, BeginsAlone
    <2>3. ASSUME NEW g \in Guardians, shift[g] = "OFF_DUTY", shift'[g] # "OFF_DUTY"
          PROVE  Guardian(r) = g
      BY <2>1, <2>3 DEF RowsTyped
    <2>4. Rises
      BY <1>4, <2>3 DEF Rises
    <2> QED
      BY <2>2, <2>4
  <1>5. ASSUME NEW r \in Rows, Arrive(c, r) \/ AskToLeave(c, r) PROVE Alone' /\ Rises
    <2>1. Begins(c) /\ UNCHANGED <<scenario, op, shift>>
      BY <1>5 DEF Arrive, AskToLeave, duty
    <2>2. Alone'
      BY <2>1, StaysAlone
    <2> QED
      BY <2>1, <2>2 DEF Rises
  <1>6. ASSUME NEW r \in Rows, NEW s \in Rows, Handoff(c, r, s) PROVE Alone' /\ Rises
    <2>1. /\ Begins(c) /\ UNCHANGED <<scenario, op>>
          /\ shift' = [shift EXCEPT ![Guardian(s)] = "AVAILABLE"]
      BY <1>6 DEF Handoff
    <2>2. Alone'
      BY <2>1, StaysAlone
    <2>3. ASSUME NEW g \in Guardians, shift[g] = "OFF_DUTY", shift'[g] # "OFF_DUTY"
          PROVE  Guardian(s) = g
      BY <2>1, <2>3 DEF RowsTyped
    <2>4. Rises
      BY <1>6, <2>3 DEF Rises
    <2> QED
      BY <2>2, <2>4
  <1>7. ASSUME NEW r \in Rows, Complete(c, r) PROVE Alone' /\ Rises
    <2>1. /\ Begins(c) /\ UNCHANGED <<scenario, shift>>
          /\ Goes(c, [Idle EXCEPT !.at = "finish", !.row = r])
      BY <1>7 DEF Complete, duty
    <2>2. Alone'
      BY <2>1, BeginsAlone
    <2> QED
      BY <2>1, <2>2 DEF Rises
  <1> QED
    BY <1>1, <1>2, <1>3, <1>4, <1>5, <1>6, <1>7 DEF OfGuardian

(* The requests that clients and administrators begin. *)
LEMMA StaffAlone ==
    ASSUME RowsTyped, OpTyped, Alone, NEW c \in Clerks, OfStaff(c)
    PROVE  Alone' /\ Rises
  <1>1. ASSUME NEW g \in Guardians, Review(c, g) \/ ReviewCertification(c, g) \/ Suspend(c, g)
        PROVE  Alone' /\ Rises
    <2>1. Begins(c) /\ UNCHANGED <<scenario, op>>
      BY <1>1 DEF Review, ReviewCertification, Suspend
    <2>2. Alone'
      BY <2>1, StaysAlone
    <2>3. Rises
      BY <1>1 DEF Review, ReviewCertification, Suspend, Rises, RowsTyped, duty
    <2> QED
      BY <2>2, <2>3
  <1>2. ASSUME NEW g \in Guardians, Activate(c, g) \/ Delete(c, g) PROVE Alone' /\ Rises
    <2>1. /\ Begins(c) /\ UNCHANGED <<scenario, shift>>
          /\ \E s : s \in {"activate", "delete"} /\ Goes(c, [Idle EXCEPT !.at = s, !.who = g])
      BY <1>2 DEF Activate, Delete, duty
    <2>2. Alone'
      BY <2>1, BeginsAlone
    <2> QED
      BY <2>1, <2>2 DEF Rises
  <1>3. ASSUME NEW r \in Rows, NoShow(c, r) PROVE Alone' /\ Rises
    <2>1. Begins(c) /\ Withdraws(c, r, "NO_SHOW") /\ UNCHANGED <<scenario, shift>>
      BY <1>3 DEF NoShow, Withdraws, duty
    <2> QED
      BY <2>1, BeginsAlone DEF Rises
  <1>4. ASSUME NEW r \in Rows, DenyLeave(c, r) \/ AwaitRelief(c, r) PROVE Alone' /\ Rises
    <2>1. Begins(c) /\ UNCHANGED <<scenario, op, shift>>
      BY <1>4 DEF DenyLeave, AwaitRelief, duty
    <2>2. Alone'
      BY <2>1, StaysAlone
    <2> QED
      BY <2>1, <2>2 DEF Rises
  <1>5. ASSUME NEW j \in Jobs, CancelJob(c, j) PROVE Alone' /\ Rises
    <2>1. Begins(c) /\ UNCHANGED <<scenario, shift>> /\ (\E S : Frees(c, S))
      BY <1>5 DEF CancelJob, duty
    <2>2. Alone'
      BY <2>1, BeginsAlone
    <2> QED
      BY <2>1, <2>2 DEF Rises
  <1> QED
    BY <1>1, <1>2, <1>3, <1>4, <1>5 DEF OfStaff

(* Every step keeps requests alone in serial order. *)
LEMMA AloneStep ==
    ASSUME RowsTyped, OpTyped, Alone, [Next]_vars
    PROVE  Alone' /\ Rises
  <1>1. CASE UNCHANGED vars
    <2>1. UNCHANGED <<scenario, op, files, shift>>
      BY <1>1 DEF vars, duty
    <2> QED
      BY <2>1, StaysAlone DEF Rises
  <1>2. ASSUME NEW j \in Jobs, RoundBegins(j) \/ RoundOffers(j) PROVE Alone' /\ Rises
    <2>1. UNCHANGED <<scenario, op, files, shift>>
      BY <1>2 DEF RoundBegins, RoundOffers, duty
    <2> QED
      BY <2>1, StaysAlone DEF Rises
  <1>3. ASSUME NEW j \in Jobs, Expires(j) PROVE Alone' /\ Rises
    <2>1. PICK c \in Clerks, r \in Rows : Expire(c, r)
      BY <1>3 DEF Expires
    <2>2. Begins(c) /\ Withdraws(c, r, "CLOSED") /\ UNCHANGED <<scenario, shift>>
      BY <2>1 DEF Expire, Withdraws, duty
    <2> QED
      BY <2>2, BeginsAlone DEF Rises
  <1>4. ASSUME NEW c \in Clerks, Fails(c) PROVE Alone' /\ Rises
    <2>1. op[c] # Idle /\ UNCHANGED <<scenario, shift>> /\ Goes(c, Idle) /\ Idle.at = "idle"
      BY <1>4 DEF Fails, Ends, Idle, duty
    <2>2. Alone'
      BY <2>1, GoesAlone
    <2> QED
      BY <2>1, <2>2 DEF Rises
  <1>5. ASSUME NEW g \in Guardians, HeartbeatsStop(g) PROVE Alone' /\ Rises
    <2>1. UNCHANGED <<scenario, op, files, shift>>
      BY <1>5 DEF HeartbeatsStop
    <2> QED
      BY <2>1, StaysAlone DEF Rises
  <1> QED
    BY <1>1, <1>2, <1>3, <1>4, <1>5, ContinueAlone, GuardianAlone, StaffAlone DEF Next

(* In serial order only a startShift that the account admits, the accept   *)
(* of an offer, or the arrival of a relief puts on duty a guardian who is  *)
(* off duty: a setAvailable meets the duty it has read.                    *)
THEOREM OffDutyStays == Spec => StaysOffDuty
  <1>1. Init => Alone
    BY DEF Init, Alone, Idle
  <1>2. IInv => RowsTyped /\ OpTyped
    BY DEF IInv
  <1>3. RowsTyped /\ OpTyped /\ Alone /\ [Next]_vars => Alone'
    BY AloneStep
  <1>4. Spec => []Alone
    BY RosterInvariant, <1>1, <1>2, <1>3, PTL DEF Spec
  <1>5. IInv /\ Alone /\ [Next]_vars =>
           [scenario.serial => \A g \in Guardians : shift[g] = "OFF_DUTY" /\ shift'[g] # "OFF_DUTY" =>
                \/ MayStart(g) /\ \E c \in Clerks : StartShiftWrite(c) /\ op[c].who = g
                \/ \E c \in Clerks, r \in Rows : Accept(c, r) /\ Guardian(r) = g
                \/ \E c \in Clerks, r, s \in Rows : Handoff(c, r, s) /\ Guardian(s) = g]_vars
    BY <1>2, AloneStep DEF Rises
  <1> QED
    BY RosterInvariant, <1>4, <1>5, PTL DEF Spec, StaysOffDuty

=============================================================================
