----------------------- MODULE OfferAcceptance_proofs -----------------------
(***************************************************************************)
(* Theorems about OfferAcceptance, for every number of offers, slots,      *)
(* sessions and dispatch workers: it is typed, the slot check of accept    *)
(* prevents overstaffing, and it implements SlotPool.                      *)
(*                                                                         *)
(* The argument is one about locks.  A row changes only under its own row  *)
(* lock or while nobody holds it, and the number of staffed guardians only *)
(* under the job lock, or while nobody holds that; so what an accept read  *)
(* under its locks, an offer that is open and a slot that is left, still   *)
(* holds when it commits.  The inductive invariant says so.                *)
(***************************************************************************)
EXTENDS OfferAcceptance, FiniteSetTheorems, TLAPS

Accepting(t) == tx[t].kind = "accept" /\ tx[t].at = "sweeps"

(* The job row is locked by accepts past their slot check and by nobody    *)
(* else.                                                                   *)
JobLockHeld == \A t \in Txns : jobLock = t <=> Accepting(t)

(* An accept holds the row of the offer it is about, which is still open.  *)
OfferHeld ==
    \A t \in Txns : tx[t].kind = "accept" =>
        /\ tx[t].at \in {"wantsJob", "sweeps"}
        /\ tx[t].off \in Offers
        /\ rowLock[tx[t].off] = t
        /\ asg[tx[t].off] = "OFFERED"
        /\ tx[t].at = "wantsJob" => tx[t].hit = {}

(* A bulk update holds the rows it has found offered. *)
SweptRowsHeld ==
    \A t \in Txns : tx[t].at = "sweeps" =>
        /\ tx[t].kind \in {"accept", "fail"}
        /\ \A o \in tx[t].hit : rowLock[o] = t /\ asg[o] = "OFFERED"

(* An accept past its slot check still has a slot to take; when it is the  *)
(* last one, every other open offer has been swept or is going to be.      *)
SlotKept ==
    \A t \in Txns : Accepting(t) =>
        /\ Cardinality(Staffed) < Requested
        /\ LastSlot => Pending \subseteq {tx[t].off} \cup tx[t].todo \cup tx[t].hit
        /\ ~LastSlot => tx[t].todo = {} /\ tx[t].hit = {}

(* A decline or an expiry that still sees the version it read has not been *)
(* overtaken by an accept.                                                 *)
WithdrawSound ==
    \A t \in Txns : tx[t].kind \in {"decline", "expire"} =>
        /\ tx[t].off \in Offers
        /\ tx[t].at = "read"
        /\ tx[t].seenVer <= ver[tx[t].off]
        /\ tx[t].seenVer = ver[tx[t].off] => asg[tx[t].off] \in {"OFFERED", "CANCELLED"}

(* A no-show holds its row from the moment it has written it. *)
NoShowHeld ==
    \A t \in Txns : tx[t].kind = "noShow" =>
        /\ tx[t].off \in Offers
        /\ tx[t].at \in {"read", "wantsJob"}
        /\ tx[t].at = "wantsJob" => rowLock[tx[t].off] = t

LockInv == /\ JobLockHeld /\ OfferHeld /\ SweptRowsHeld /\ SlotKept
           /\ WithdrawSound /\ NoShowHeld /\ NoOverstaffing
-----------------------------------------------------------------------------
(* The sets of staffed and of pending rows are finite. *)
LEMMA CountsAreNat ==
    /\ IsFiniteSet(Staffed) /\ Cardinality(Staffed) \in Nat
    /\ IsFiniteSet(Pending) /\ Cardinality(Pending) \in Nat
  <1>1. Staffed \subseteq Offers /\ Pending \subseteq Offers
    BY DEF Staffed, Pending
  <1> QED
    BY <1>1, OffersFinite, FS_Subset, FS_CardinalityType

(* One more row adds one at most to the staffed ones. *)
LEMMA OneMoreStaffed ==
    ASSUME NEW x
    PROVE  /\ Cardinality(Staffed \cup {x}) \in Nat
           /\ Cardinality(Staffed \cup {x}) <= Cardinality(Staffed) + 1
  <1>1. IsFiniteSet(Staffed) /\ Cardinality(Staffed) \in Nat
    BY CountsAreNat
  <1>2. Cardinality(Staffed \cup {x}) = IF x \in Staffed THEN Cardinality(Staffed)
                                                         ELSE Cardinality(Staffed) + 1
    BY <1>1, FS_AddElement
  <1> QED
    BY <1>1, <1>2

(* A version that is counted up is still a number. *)
LEMMA VersionBump ==
    ASSUME NEW v \in [Offers -> Nat], NEW x
    PROVE  [v EXCEPT ![x] = @ + 1] \in [Offers -> Nat]
  <1>1. CASE x \in Offers
    <2>1. v[x] + 1 \in Nat
      BY <1>1
    <2> QED
      BY <2>1
  <1>2. CASE x \notin Offers
    BY <1>2
  <1> QED
    BY <1>1, <1>2

(* The program keeps the types of its variables, step by step. *)
LEMMA TypeStep == TypeOK /\ [Next]_vars => TypeOK'
  <1> SUFFICES ASSUME TypeOK, [Next]_vars PROVE TypeOK'
    OBVIOUS
  <1> USE RequestedPositive DEF TypeOK, TxRecords, JobStatus, AsgStatus
  <1>1. ASSUME NEW t \in Txns, Rollback(t) PROVE TypeOK'
    BY <1>1 DEF Rollback, Finish, Unlock, Idle
  <1>2. ASSUME NEW t \in Txns, SessionStep(t) PROVE TypeOK'
    <2>1. CASE AcceptLockJob(t)
      <3> DEFINE todo == IF LastSlot THEN Pending \ {tx[t].off} ELSE {}
                 r == [tx[t] EXCEPT !.at = "sweeps", !.todo = todo]
      <3>1. todo \in SUBSET Offers
        BY DEF Pending
      <3>2. tx[t] \in TxRecords
        OBVIOUS
      <3> HIDE DEF todo
      <3>3. r \in TxRecords
        BY <3>1, <3>2
      <3>4. tx' = [tx EXCEPT ![t] = r]
        BY <2>1, <3>2 DEF AcceptLockJob, todo
      <3> HIDE DEF r, TxRecords
      <3> QED
        BY <2>1, <3>3, <3>4 DEF AcceptLockJob
    <2>2. CASE AcceptRejected(t)
      BY <1>1, <2>2 DEF AcceptRejected
    <2>3. ASSUME NEW o \in Offers, SweepRow(t, o) PROVE TypeOK'
      <3> DEFINE hit == IF asg[o] = "OFFERED" THEN tx[t].hit \cup {o} ELSE tx[t].hit
                 r == [tx[t] EXCEPT !.todo = tx[t].todo \ {o}, !.hit = hit]
      <3>1. tx[t] \in TxRecords
        OBVIOUS
      <3>2. hit \in SUBSET Offers
        BY <3>1
      <3> HIDE DEF hit
      <3>3. r \in TxRecords
        BY <3>1, <3>2
      <3>4. tx' = [tx EXCEPT ![t] = r]
        BY <2>3, <3>1 DEF SweepRow, hit
      <3> HIDE DEF r, TxRecords
      <3> QED
        BY <2>3, <3>3, <3>4 DEF SweepRow
    <2>4. CASE AcceptCommit(t)
      BY <2>4 DEF AcceptCommit, AcceptTarget, Finish, Unlock, Idle
    <2>5. CASE WithdrawCommit(t)
      <3>1. asg' \in [Offers -> AsgStatus]
        BY <2>5 DEF WithdrawCommit
      <3>2. ver' \in [Offers -> Nat]
        BY <2>5, VersionBump DEF WithdrawCommit
      <3> QED
        BY <2>5, <3>1, <3>2 DEF WithdrawCommit, Finish, Unlock, Idle
    <2>6. CASE Conflict(t)
      BY <1>1, <2>6 DEF Conflict
    <2>7. CASE NoShowLock(t)
      <3> DEFINE r == [tx[t] EXCEPT !.at = "wantsJob"]
      <3>1. tx[t] \in TxRecords
        OBVIOUS
      <3>2. r \in TxRecords
        BY <3>1
      <3>3. tx' = [tx EXCEPT ![t] = r]
        BY <2>7 DEF NoShowLock
      <3> HIDE DEF r, TxRecords
      <3> QED
        BY <2>7, <3>2, <3>3 DEF NoShowLock
    <2>8. CASE NoShowCommit(t)
      <3>1. NoShowMove(tx[t].off, tx[t].seenJob)[2] \in JobStatus
        BY DEF NoShowMove
      <3>2. job' \in JobStatus
        BY <2>8, <3>1 DEF NoShowCommit
      <3>3. asg' \in [Offers -> AsgStatus]
        BY <2>8 DEF NoShowCommit
      <3>4. ver' \in [Offers -> Nat]
        BY <2>8, VersionBump DEF NoShowCommit
      <3> QED
        BY <2>8, <3>2, <3>3, <3>4 DEF NoShowCommit, Finish, Unlock, Idle
    <2>9. CASE NoShowRefused(t)
      BY <1>1, <2>9 DEF NoShowRefused
    <2>10. CASE FailRelease(t)
      BY <2>10 DEF FailRelease, Unlock, Idle
    <2>11. CASE FailCommit(t)
      BY <2>11 DEF FailCommit, Finish, Unlock, Idle
    <2>12. CASE RequestDispatchCommit(t)
      BY <2>12 DEF RequestDispatchCommit, Finish, Unlock, Idle
    <2>13. CASE DeadlockVictim(t)
      BY <1>1, <2>13 DEF DeadlockVictim
    <2> QED
      BY <1>2, <2>1, <2>2, <2>3, <2>4, <2>5, <2>6, <2>7, <2>8, <2>9, <2>10,
         <2>11, <2>12, <2>13 DEF SessionStep
  <1>3. ASSUME NEW t \in Txns, Request(t) PROVE TypeOK'
    <2>1. ASSUME NEW o \in Offers, AcceptBegin(t, o) PROVE TypeOK'
      BY <2>1 DEF AcceptBegin, Idle
    <2>2. ASSUME NEW o \in Offers, NEW kind \in {"decline", "expire"},
                 WithdrawRead(t, o, kind)
          PROVE TypeOK'
      BY <2>2 DEF WithdrawRead, Idle
    <2>3. ASSUME NEW o \in Offers, NoShowRead(t, o) PROVE TypeOK'
      BY <2>3 DEF NoShowRead, Idle
    <2>4. CASE FailBegin(t)
      BY <2>4 DEF FailBegin, Idle, Pending
    <2>5. CASE RequestDispatchRead(t)
      BY <2>5 DEF RequestDispatchRead, Idle
    <2> QED
      BY <1>3, <2>1, <2>2, <2>3, <2>4, <2>5 DEF Request
  <1>4. ASSUME Dispatch PROVE TypeOK'
    <2>1. ASSUME NEW w \in Workers, DispatchRead(w) PROVE TypeOK'
      BY <2>1, CountsAreNat DEF DispatchRead
    <2>2. ASSUME NEW w \in Workers, NEW S \in SUBSET Offers, DispatchInsert(w, S)
          PROVE TypeOK'
      BY <2>2 DEF DispatchInsert
    <2>3. CASE DispatchSettle
      BY <2>3 DEF DispatchSettle
    <2> QED
      BY <1>4, <2>1, <2>2, <2>3 DEF Dispatch
  <1>5. CASE UNCHANGED vars
    BY <1>5 DEF vars
  <1> QED
    BY <1>2, <1>3, <1>4, <1>5 DEF Next

(* Every state of the staffing of a job is typed. *)
THEOREM TypeCorrect == Spec => []TypeOK
  <1>1. Init => TypeOK
    BY RequestedPositive DEF Init, TypeOK, TxRecords, JobStatus, AsgStatus, Idle
  <1> QED
    BY <1>1, TypeStep, PTL DEF Spec
-----------------------------------------------------------------------------
(* A session that finishes gives up its own locks and no others. *)
FreesItsLocks(t) ==
    /\ tx'[t].kind = "none" /\ tx'[t].at = "idle" /\ jobLock' # t
    /\ \A u \in Txns : u # t => /\ tx'[u] = tx[u]
                               /\ (jobLock' = u) = (jobLock = u)
                               /\ \A o \in Offers : rowLock[o] = u => rowLock'[o] = u

(* That is what finishing does.                                            *)
LEMMA FinishFrees ==
    ASSUME TypeOK, NEW t \in Txns, Finish(t) PROVE FreesItsLocks(t)
  BY NoneIsFresh DEF TypeOK, Finish, Unlock, Idle, FreesItsLocks

(* What a session other than t holds is not disturbed by a step of t that  *)
(* leaves the rows locked by others alone.                                 *)
OthersKept(t) ==
    \A u \in Txns : u # t =>
        /\ tx'[u] = tx[u]
        /\ \A o \in Offers : rowLock[o] = u => rowLock'[o] = u /\ asg'[o] = asg[o]

(* So what is known of the rows that others hold goes on to hold.          *)
LEMMA RowsKept ==
    ASSUME TypeOK, OfferHeld, SweptRowsHeld, NoShowHeld, NEW t \in Txns, OthersKept(t),
           tx'[t].kind \notin {"accept", "noShow"}, tx'[t].at # "sweeps"
    PROVE  OfferHeld' /\ SweptRowsHeld' /\ NoShowHeld'
  <1>1. \A u \in Txns : tx[u].hit \subseteq Offers
    BY DEF TypeOK, TxRecords
  <1>2. OfferHeld'
    BY DEF OfferHeld, OthersKept
  <1>3. SweptRowsHeld'
    BY <1>1 DEF SweptRowsHeld, OthersKept
  <1>4. NoShowHeld'
    BY DEF NoShowHeld, OthersKept
  <1> QED
    BY <1>2, <1>3, <1>4

(* A row that is written without a new version is written by a sweep. *)
VersionsGrow ==
    \A o \in Offers : /\ ver'[o] \in Nat /\ ver'[o] >= ver[o]
                      /\ ver'[o] = ver[o] => asg'[o] \in {asg[o], "CANCELLED"}

(* So what others have read stays sound by its version.                    *)
LEMMA VersionsKept ==
    ASSUME TypeOK, WithdrawSound, NEW t \in Txns, OthersKept(t), VersionsGrow,
           tx'[t].kind \notin {"decline", "expire"}
    PROVE  WithdrawSound'
  <1> SUFFICES ASSUME NEW u \in Txns, tx'[u].kind \in {"decline", "expire"}
               PROVE  /\ tx'[u].off \in Offers
                      /\ tx'[u].at = "read"
                      /\ tx'[u].seenVer <= ver'[tx'[u].off]
                      /\ tx'[u].seenVer = ver'[tx'[u].off]
                            => asg'[tx'[u].off] \in {"OFFERED", "CANCELLED"}
    BY DEF WithdrawSound
  <1>1. tx'[u] = tx[u]
    BY DEF OthersKept
  <1>2. /\ tx[u].off \in Offers /\ tx[u].at = "read" /\ tx[u].seenVer <= ver[tx[u].off]
        /\ tx[u].seenVer = ver[tx[u].off] => asg[tx[u].off] \in {"OFFERED", "CANCELLED"}
    BY <1>1 DEF WithdrawSound
  <1>3. tx[u].seenVer \in Nat /\ ver[tx[u].off] \in Nat
    BY <1>2 DEF TypeOK, TxRecords
  <1> QED
    BY <1>1, <1>2, <1>3 DEF VersionsGrow

(* What an accept read under its locks still holds, step by step. *)
LEMMA LockStep == TypeOK /\ TypeOK' /\ LockInv /\ [Next]_vars => LockInv'
  <1> SUFFICES ASSUME TypeOK, TypeOK', LockInv, [Next]_vars PROVE LockInv'
    OBVIOUS
  <1>t. /\ tx \in [Txns -> TxRecords] /\ rowLock \in [Offers -> Txns \cup {None}]
        /\ asg \in [Offers -> AsgStatus] /\ ver \in [Offers -> Nat]
        /\ jobLock \in Txns \cup {None}
    BY DEF TypeOK
  <1> USE NoneIsFresh, <1>t DEF LockInv, JobLockHeld, Accepting, OfferHeld, SweptRowsHeld,
          SlotKept, WithdrawSound, NoShowHeld, NoOverstaffing, StaffedStatus
  <1>1. ASSUME asg' = asg PROVE Staffed' = Staffed /\ Pending' = Pending /\ LastSlot' = LastSlot
    BY <1>1 DEF Staffed, Pending, LastSlot
  <1>2. ASSUME NEW t \in Txns, Rollback(t) PROVE LockInv'
    <2>1. FreesItsLocks(t) /\ asg' = asg /\ ver' = ver
      BY <1>2, FinishFrees DEF Rollback
    <2>2. OthersKept(t) /\ VersionsGrow
      BY <2>1 DEF FreesItsLocks, OthersKept, VersionsGrow
    <2>3. OfferHeld' /\ SweptRowsHeld' /\ NoShowHeld' /\ WithdrawSound'
      BY <2>1, <2>2, RowsKept, VersionsKept DEF FreesItsLocks
    <2> QED
      BY <1>1, <2>1, <2>3 DEF FreesItsLocks
  <1>3. ASSUME NEW t \in Txns, SessionStep(t) PROVE LockInv'
    <2>1. CASE AcceptLockJob(t)
      <3>1. /\ tx'[t].kind = "accept" /\ tx'[t].at = "sweeps" /\ tx'[t].hit = tx[t].hit
            /\ tx'[t].off = tx[t].off
            /\ tx'[t].todo = IF LastSlot THEN Pending \ {tx[t].off} ELSE {}
        BY <2>1 DEF AcceptLockJob
      <3>2. \A u \in Txns : u # t => tx'[u] = tx[u]
        BY <2>1 DEF AcceptLockJob
      <3>3. asg' = asg /\ ver' = ver /\ rowLock' = rowLock /\ jobLock' = t /\ jobLock = None
        BY <2>1 DEF AcceptLockJob, FreeJob
      <3>7. tx[t].hit = {}
        BY <2>1 DEF AcceptLockJob
      <3>4. SlotKept'
        BY <2>1, <3>1, <3>2, <3>3, <3>7, <1>1 DEF AcceptLockJob
      <3>5. JobLockHeld' /\ NoOverstaffing'
        BY <3>1, <3>2, <3>3, <1>1
      <3>6. OfferHeld' /\ WithdrawSound' /\ NoShowHeld'
        BY <2>1, <3>1, <3>2, <3>3 DEF AcceptLockJob
      <3>8. SweptRowsHeld'
        BY <2>1, <3>1, <3>2, <3>3, <3>7 DEF AcceptLockJob
      <3> QED
        BY <3>4, <3>5, <3>6, <3>8
    <2>2. CASE AcceptRejected(t)
      BY <1>2, <2>2 DEF AcceptRejected
    <2>3. ASSUME NEW o \in Offers, SweepRow(t, o) PROVE LockInv'
      <3>1. /\ tx'[t].kind = tx[t].kind /\ tx'[t].at = "sweeps" /\ tx'[t].off = tx[t].off
            /\ tx'[t].todo = tx[t].todo \ {o}
            /\ tx'[t].hit = IF asg[o] = "OFFERED" THEN tx[t].hit \cup {o} ELSE tx[t].hit
        BY <2>3 DEF SweepRow
      <3>2. \A u \in Txns : u # t => tx'[u] = tx[u]
        BY <2>3 DEF SweepRow
      <3>3. \A u \in Txns, p \in Offers : rowLock[p] = u => rowLock'[p] = u
        BY <2>3 DEF SweepRow, FreeRow
      <3>4. SlotKept'
        BY <2>3, <3>1, <3>2, <1>1 DEF SweepRow, Pending
      <3>5. /\ asg' = asg /\ ver' = ver /\ jobLock' = jobLock /\ tx[t].at = "sweeps"
            /\ rowLock' = IF asg[o] = "OFFERED" THEN [rowLock EXCEPT ![o] = t] ELSE rowLock
        BY <2>3 DEF SweepRow
      <3>6. JobLockHeld' /\ NoOverstaffing'
        BY <3>1, <3>2, <3>5, <1>1
      <3>7. OfferHeld' /\ WithdrawSound' /\ NoShowHeld'
        BY <3>1, <3>2, <3>3, <3>5
      <3>8. SweptRowsHeld'
        BY <3>1, <3>2, <3>3, <3>5
      <3> QED
        BY <3>4, <3>6, <3>7, <3>8
    <2>4. CASE AcceptCommit(t)
      <3>1. tx[t].off \in Offers /\ \A o \in tx[t].hit : rowLock[o] = t /\ asg[o] = "OFFERED"
        BY <2>4 DEF AcceptCommit
      <3>2. FreesItsLocks(t)
        BY <2>4, FinishFrees DEF AcceptCommit
      <3>a. \A o \in Offers : asg'[o] = "ACCEPTED" <=> asg[o] = "ACCEPTED" \/ o = tx[t].off
        BY <2>4, <3>1 DEF AcceptCommit
      <3>3. Staffed' = Staffed \cup {tx[t].off}
        BY <3>1, <3>a DEF Staffed
      <3>b. Cardinality(Staffed) < Requested
        BY <2>4 DEF AcceptCommit
      <3> HIDE DEF NoOverstaffing
      <3>4. NoOverstaffing'
        <4>1. Cardinality(Staffed') <= Cardinality(Staffed) + 1
          BY <3>3, OneMoreStaffed
        <4>2. Cardinality(Staffed') \in Nat
          BY <3>3, OneMoreStaffed
        <4> QED
          BY <3>b, <4>1, <4>2, CountsAreNat, RequestedPositive DEF NoOverstaffing
      <3>5. \A u \in Txns : ~ Accepting(u)'
        BY <2>4, <3>2 DEF AcceptCommit, FreesItsLocks
      <3>6. JobLockHeld' /\ SlotKept'
        BY <2>4, <3>2, <3>5 DEF AcceptCommit, FreesItsLocks
      <3>7. \A o \in Offers : rowLock[o] # t => asg'[o] = asg[o] /\ ver'[o] = ver[o]
        BY <2>4, <3>1 DEF AcceptCommit
      <3>8. OthersKept(t)
        BY <3>2, <3>7 DEF FreesItsLocks, OthersKept
      <3>9. VersionsGrow
        BY <2>4 DEF AcceptCommit, VersionsGrow
      <3>10. OfferHeld' /\ SweptRowsHeld' /\ NoShowHeld' /\ WithdrawSound'
        BY <3>2, <3>8, <3>9, RowsKept, VersionsKept DEF FreesItsLocks
      <3> QED
        BY <3>4, <3>6, <3>10
    <2>5. CASE WithdrawCommit(t)
      <3> DEFINE o == tx[t].off
      <3>1. o \in Offers /\ asg[o] \in {"OFFERED", "CANCELLED"} /\ rowLock[o] = None
        BY <2>5 DEF WithdrawCommit, FreeRow
      <3>2. FreesItsLocks(t)
        BY <2>5, FinishFrees DEF WithdrawCommit
      <3>3. Staffed' = Staffed /\ Pending' \subseteq Pending
        BY <2>5, <3>1 DEF WithdrawCommit, Staffed, Pending
      <3>4. LastSlot' = LastSlot
        BY <3>3 DEF LastSlot
      <3>5. \A p \in Offers : p # o => asg'[p] = asg[p] /\ ver'[p] = ver[p]
        BY <2>5 DEF WithdrawCommit
      <3>6. ver'[o] = ver[o] + 1
        BY <2>5, <3>1 DEF WithdrawCommit
      <3> HIDE DEF o
      <3>7. JobLockHeld' /\ SlotKept' /\ NoOverstaffing'
        BY <3>2, <3>3, <3>4 DEF FreesItsLocks
      <3>8. OthersKept(t) /\ VersionsGrow
        BY <3>1, <3>2, <3>5, <3>6 DEF FreesItsLocks, OthersKept, VersionsGrow
      <3>9. OfferHeld' /\ SweptRowsHeld' /\ NoShowHeld' /\ WithdrawSound'
        BY <3>2, <3>8, RowsKept, VersionsKept DEF FreesItsLocks
      <3> QED
        BY <3>7, <3>9
    <2>6. CASE Conflict(t)
      BY <1>2, <2>6 DEF Conflict
    <2>7. CASE NoShowLock(t)
      BY <1>1, <2>7 DEF NoShowLock, FreeRow
    <2>8. CASE NoShowCommit(t)
      <3> DEFINE o == tx[t].off
      <3>1. o \in Offers /\ rowLock[o] = t /\ \A u \in Txns : ~ Accepting(u)
        BY <2>8 DEF NoShowCommit, FreeJob
      <3>2. FreesItsLocks(t)
        BY <2>8, FinishFrees DEF NoShowCommit
      <3>3. Staffed' \subseteq Staffed
        BY <2>8, <3>1 DEF NoShowCommit, Staffed
      <3>4. NoOverstaffing'
        BY <3>3, CountsAreNat, FS_Subset, FS_CardinalityType, RequestedPositive
      <3>5. \A p \in Offers : p # o => asg'[p] = asg[p] /\ ver'[p] = ver[p]
        BY <2>8 DEF NoShowCommit
      <3>6. ver'[o] = ver[o] + 1
        BY <2>8, <3>1 DEF NoShowCommit
      <3> HIDE DEF o
      <3>7. JobLockHeld' /\ SlotKept'
        BY <3>1, <3>2 DEF FreesItsLocks
      <3>8. OthersKept(t) /\ VersionsGrow
        BY <3>1, <3>2, <3>5, <3>6 DEF FreesItsLocks, OthersKept, VersionsGrow
      <3>9. OfferHeld' /\ SweptRowsHeld' /\ NoShowHeld' /\ WithdrawSound'
        BY <3>2, <3>8, RowsKept, VersionsKept DEF FreesItsLocks
      <3> QED
        BY <3>4, <3>7, <3>9
    <2>9. CASE NoShowRefused(t)
      BY <1>2, <2>9 DEF NoShowRefused
    <2>10. CASE FailRelease(t)
      <3>1. \A o \in tx[t].hit : rowLock[o] = t /\ asg[o] = "OFFERED"
        BY <2>10 DEF FailRelease
      <3>2. Staffed' = Staffed /\ Pending' \subseteq Pending
        BY <2>10, <3>1 DEF FailRelease, Staffed, Pending
      <3>3. LastSlot' = LastSlot
        BY <3>2 DEF LastSlot
      <3>4. /\ tx'[t].kind = "fail" /\ tx'[t].at = "wantsEnd"
            /\ \A u \in Txns : u # t => tx'[u] = tx[u]
        BY <2>10 DEF FailRelease, Idle
      <3>5. \A u \in Txns, o \in Offers : u # t /\ rowLock[o] = u => rowLock'[o] = u
        BY <2>10 DEF FailRelease, Unlock
      <3>6. \A u \in Txns : jobLock' = u <=> jobLock = u
        BY <2>10 DEF FailRelease, Unlock
      <3>7. \A o \in Offers : /\ rowLock[o] # t => asg'[o] = asg[o]
                              /\ asg'[o] \in {asg[o], "CANCELLED"}
                              /\ ver'[o] = ver[o]
        BY <2>10, <3>1 DEF FailRelease
      <3>8. JobLockHeld' /\ SlotKept' /\ NoOverstaffing'
        BY <2>10, <3>2, <3>3, <3>4, <3>6 DEF FailRelease
      <3>9. OthersKept(t) /\ VersionsGrow
        BY <3>4, <3>5, <3>7 DEF OthersKept, VersionsGrow
      <3>10. OfferHeld' /\ SweptRowsHeld' /\ NoShowHeld' /\ WithdrawSound'
        BY <3>4, <3>9, RowsKept, VersionsKept
      <3> QED
        BY <3>8, <3>10
    <2>11. CASE FailCommit(t)
      <3>1. FreesItsLocks(t) /\ asg' = asg /\ ver' = ver
        BY <2>11, FinishFrees DEF FailCommit
      <3>2. OthersKept(t) /\ VersionsGrow
        BY <3>1 DEF FreesItsLocks, OthersKept, VersionsGrow
      <3>3. OfferHeld' /\ SweptRowsHeld' /\ NoShowHeld' /\ WithdrawSound'
        BY <3>1, <3>2, RowsKept, VersionsKept DEF FreesItsLocks
      <3> QED
        BY <1>1, <3>1, <3>3, <2>11 DEF FailCommit, FreesItsLocks
    <2>12. CASE RequestDispatchCommit(t)
      <3>1. FreesItsLocks(t) /\ asg' = asg /\ ver' = ver
        BY <2>12, FinishFrees DEF RequestDispatchCommit
      <3>2. OthersKept(t) /\ VersionsGrow
        BY <3>1 DEF FreesItsLocks, OthersKept, VersionsGrow
      <3>3. OfferHeld' /\ SweptRowsHeld' /\ NoShowHeld' /\ WithdrawSound'
        BY <3>1, <3>2, RowsKept, VersionsKept DEF FreesItsLocks
      <3> QED
        BY <1>1, <3>1, <3>3, <2>12 DEF RequestDispatchCommit, FreesItsLocks
    <2>13. CASE DeadlockVictim(t)
      BY <1>2, <2>13 DEF DeadlockVictim
    <2> QED
      BY <1>3, <2>1, <2>2, <2>3, <2>4, <2>5, <2>6, <2>7, <2>8, <2>9, <2>10,
         <2>11, <2>12, <2>13 DEF SessionStep
  <1>4. ASSUME NEW t \in Txns, Request(t) PROVE LockInv'
    <2>1. ASSUME NEW o \in Offers, AcceptBegin(t, o) PROVE LockInv'
      BY <1>1, <2>1 DEF AcceptBegin, Idle, FreeRow
    <2>2. ASSUME NEW o \in Offers, NEW kind \in {"decline", "expire"},
                 WithdrawRead(t, o, kind)
          PROVE LockInv'
      BY <1>1, <2>2 DEF WithdrawRead, Idle
    <2>3. ASSUME NEW o \in Offers, NoShowRead(t, o) PROVE LockInv'
      BY <1>1, <2>3 DEF NoShowRead, Idle
    <2>4. CASE FailBegin(t)
      BY <1>1, <2>4 DEF FailBegin, Idle
    <2>5. CASE RequestDispatchRead(t)
      BY <1>1, <2>5 DEF RequestDispatchRead, Idle
    <2> HIDE DEF LockInv
    <2> QED
      BY ONLY <1>4, <2>1, <2>2, <2>3, <2>4, <2>5 DEF Request
  <1>5. ASSUME Dispatch PROVE LockInv'
    <2>1. ASSUME NEW w \in Workers, DispatchRead(w) PROVE LockInv'
      BY <1>1, <2>1 DEF DispatchRead
    <2>2. ASSUME NEW w \in Workers, NEW S \in SUBSET Offers, DispatchInsert(w, S)
          PROVE LockInv'
      <3>1. Staffed' = Staffed
        BY <2>2 DEF DispatchInsert, Staffed
      <3>2. \A u \in Txns : ~ Accepting(u) /\ tx'[u] = tx[u]
        BY <2>2 DEF DispatchInsert, FreeJob
      <3>3. \A o \in Offers : asg[o] # "UNSENT" => asg'[o] = asg[o]
        BY <2>2 DEF DispatchInsert
      <3>4. rowLock' = rowLock /\ jobLock' = jobLock /\ ver' = ver
        BY <2>2 DEF DispatchInsert
      <3>5. JobLockHeld' /\ SlotKept' /\ NoOverstaffing'
        BY <3>1, <3>2, <3>4
      <3>6. OfferHeld' /\ NoShowHeld' /\ WithdrawSound'
        BY <3>2, <3>3, <3>4
      <3>7. SweptRowsHeld'
        BY <3>2, <3>3, <3>4 DEF TypeOK, TxRecords
      <3> QED
        BY <3>5, <3>6, <3>7
    <2>3. CASE DispatchSettle
      BY <1>1, <2>3 DEF DispatchSettle
    <2> QED
      BY <1>5, <2>1, <2>2, <2>3 DEF Dispatch
  <1>6. CASE UNCHANGED vars
    BY <1>1, <1>6 DEF vars
  <1> QED
    BY <1>3, <1>4, <1>5, <1>6 DEF Next
-----------------------------------------------------------------------------
(* What the locks protect holds in every reachable state. *)
THEOREM LockInvariant == Spec => [](TypeOK /\ LockInv)
  <1>1. Init => TypeOK
    BY RequestedPositive DEF Init, TypeOK, TxRecords, JobStatus, AsgStatus, Idle
  <1>2. Init => LockInv
    <2> SUFFICES ASSUME Init PROVE LockInv
      OBVIOUS
    <2>1. \A t \in Txns : tx[t].kind = "none" /\ tx[t].at = "idle"
      BY DEF Init, Idle
    <2>2. Staffed = {}
      BY DEF Init, Staffed, StaffedStatus
    <2>3. NoOverstaffing
      BY <2>2, FS_EmptySet, RequestedPositive DEF NoOverstaffing
    <2>4. JobLockHeld
      BY <2>1, NoneIsFresh DEF Init, JobLockHeld, Accepting
    <2> QED
      BY <2>1, <2>3, <2>4 DEF LockInv, OfferHeld, SweptRowsHeld, SlotKept, Accepting,
         WithdrawSound, NoShowHeld
  <1>3. TypeOK /\ LockInv /\ [Next]_vars => TypeOK' /\ LockInv'
    BY TypeStep, LockStep
  <1> QED
    BY <1>1, <1>2, <1>3, PTL DEF Spec

(* No interleaving of accepts, withdrawals, no-shows, failures and racing  *)
(* dispatch rounds gives a job more guardians than it asked for.           *)
THEOREM NeverOverstaffed == Spec => []NoOverstaffing
  <1>1. LockInv => NoOverstaffing
    BY DEF LockInv
  <1> QED
    BY <1>1, LockInvariant, PTL
-----------------------------------------------------------------------------
(* The cardinality of the pool is the one of this module. *)
LEMMA SameCardinality == ASSUME NEW S PROVE Pool!Cardinality(S) = Cardinality(S)
  BY DEF Pool!Cardinality, Cardinality

(* Every step of the lock-level specification opens, closes, takes or      *)
(* gives up offers of the pool, or leaves the pool alone.                  *)
LEMMA PoolStep == TypeOK /\ LockInv /\ [Next]_vars => [Pool!Next]_(Pool!poolVars)
  <1> SUFFICES ASSUME TypeOK, LockInv, [Next]_vars PROVE [Pool!Next]_(Pool!poolVars)
    OBVIOUS
  <1> USE DEF StaffedStatus
  <1>1. asg' = asg => UNCHANGED <<Staffed, Pending, Absent>>
    BY DEF Staffed, Pending, Absent
  <1>2. Staffed' = Staffed /\ Pending' \subseteq Pending /\ Absent \subseteq Absent'
        => Pool!Next
    <2>1. Absent' \cap Staffed' = {}
      BY DEF Absent, Staffed
    <2> QED
      BY <2>1 DEF Pool!Next, Pool!Close
  <1>3. ASSUME NEW t \in Txns, AcceptCommit(t) PROVE Pool!Next
    <2> DEFINE o == tx[t].off
    <2>1. /\ Accepting(t) /\ tx[t].todo = {} /\ o \in Offers /\ asg[o] = "OFFERED"
          /\ \A p \in tx[t].hit : asg[p] = "OFFERED"
      BY <1>3 DEF AcceptCommit, LockInv, OfferHeld, SweptRowsHeld, Accepting
    <2>2. /\ Cardinality(Staffed) < Requested
          /\ LastSlot => Pending \subseteq {o} \cup tx[t].hit
          /\ ~LastSlot => tx[t].hit = {}
      BY <2>1 DEF LockInv, SlotKept
    <2>3. LastSlot <=> Cardinality(Staffed) + 1 = Requested
      BY <2>2, CountsAreNat, RequestedPositive DEF LastSlot
    <2>4. \A p \in Offers : asg'[p] = IF p = o THEN "ACCEPTED"
                            ELSE IF p \in tx[t].hit THEN "CANCELLED" ELSE asg[p]
      BY <1>3 DEF AcceptCommit
    <2>5. Staffed' = Staffed \cup {o}
      BY <2>1, <2>4 DEF Staffed
    <2>6. Pending' = Pending \ ({o} \cup tx[t].hit)
      BY <2>1, <2>4 DEF Pending
    <2>7. Pending' = IF Cardinality(Staffed) + 1 = Requested THEN {} ELSE Pending \ {o}
      BY <2>2, <2>3, <2>6
    <2>8. o \in Pending
      BY <2>1 DEF Pending
    <2>9. Absent' = Absent
      BY <2>1, <2>4 DEF Absent
    <2> HIDE DEF o
    <2>10. Pool!Take(o)
      BY <2>2, <2>5, <2>7, <2>8, <2>9, SameCardinality DEF Pool!Take
    <2> QED
      BY <2>1, <2>10 DEF Pool!Next
  <1>4. ASSUME NEW t \in Txns, WithdrawCommit(t) PROVE Pool!Next
    <2> DEFINE o == tx[t].off
    <2>1. o \in Offers /\ asg[o] \in {"OFFERED", "CANCELLED"}
      BY <1>4 DEF WithdrawCommit, LockInv, WithdrawSound
    <2>2. /\ asg'[o] \in {"DECLINED", "EXPIRED"}
          /\ \A p \in Offers : p # o => asg'[p] = asg[p]
      BY <1>4, <2>1 DEF WithdrawCommit, TypeOK
    <2> QED
      BY <1>2, <2>1, <2>2 DEF Staffed, Pending, Absent
  <1>5. ASSUME NEW t \in Txns, NoShowCommit(t) PROVE Pool!Next
    <2> DEFINE o == tx[t].off
    <2>1. o \in Offers
      BY <1>5 DEF NoShowCommit, LockInv, NoShowHeld
    <2>2. asg'[o] = "NO_SHOW" /\ \A p \in Offers : p # o => asg'[p] = asg[p]
      BY <1>5, <2>1 DEF NoShowCommit, TypeOK
    <2>3. CASE asg[o] = "ACCEPTED"
      <3>1. /\ o \in Staffed /\ Staffed' = Staffed \ {o} /\ Pending' = Pending
            /\ Absent' = Absent \cup {o}
        BY <2>1, <2>2, <2>3 DEF Staffed, Pending, Absent
      <3> QED
        BY <2>1, <3>1 DEF Pool!Next, Pool!GiveUp
    <2>4. CASE asg[o] # "ACCEPTED"
      BY <1>2, <2>1, <2>2, <2>4 DEF Staffed, Pending, Absent
    <2> QED
      BY <2>3, <2>4
  <1>6. ASSUME NEW t \in Txns, FailRelease(t) PROVE Pool!Next
    <2>1. \A o \in tx[t].hit : asg[o] = "OFFERED"
      BY <1>6 DEF FailRelease, LockInv, SweptRowsHeld
    <2> QED
      BY <1>2, <1>6, <2>1 DEF FailRelease, Staffed, Pending, Absent
  <1>7. ASSUME NEW w \in Workers, NEW S \in SUBSET Offers, DispatchInsert(w, S)
        PROVE  Pool!Next
    <2>1. /\ \A o \in Offers : asg'[o] = IF o \in S THEN "OFFERED" ELSE asg[o]
          /\ \A o \in S : asg[o] = "UNSENT"
      BY <1>7 DEF DispatchInsert
    <2>2. Staffed' = Staffed /\ Pending' = Pending \cup S /\ Absent' = Absent
      BY <2>1 DEF Staffed, Pending, Absent
    <2>3. S \in SUBSET (Offers \ (Staffed \cup Pending \cup Absent))
      BY <2>1 DEF Staffed, Pending, Absent
    <2>4. Pool!Extend
      BY <2>2, <2>3 DEF Pool!Extend
    <2> QED
      BY <2>4 DEF Pool!Next
  <1>8. CASE asg' = asg
    BY <1>1, <1>8 DEF Pool!poolVars
  <1>9. CASE asg' # asg
    <2>1. Next
      BY <1>9 DEF vars
    <2>2. ASSUME NEW t \in Txns, SessionStep(t) PROVE Pool!Next
      BY <2>2, <1>3, <1>4, <1>5, <1>6, <1>9
         DEF SessionStep, AcceptLockJob, AcceptRejected, SweepRow, Conflict, NoShowLock,
             NoShowRefused, FailCommit, RequestDispatchCommit, DeadlockVictim, Rollback
    <2>3. ASSUME NEW t \in Txns, Request(t) PROVE FALSE
      BY <2>3, <1>9 DEF Request, AcceptBegin, WithdrawRead, NoShowRead, FailBegin,
         RequestDispatchRead
    <2>4. ASSUME Dispatch PROVE Pool!Next
      BY <2>4, <1>7, <1>9 DEF Dispatch, DispatchRead, DispatchSettle
    <2> QED
      BY <2>1, <2>2, <2>3, <2>4 DEF Next
  <1> QED
    BY <1>8, <1>9

(* The staffing of a job, with its locks, its stale reads and its deadlock *)
(* victims, implements the pool of slots.                                  *)
THEOREM SlotPoolImplemented == Spec => ImplementsSlotPool
  <1>1. Init => Pool!Init
    BY DEF Init, Pool!Init, Staffed, Pending, Absent, StaffedStatus
  <1> QED
    BY <1>1, PoolStep, LockInvariant, PTL DEF Spec, ImplementsSlotPool, Pool!Spec
=============================================================================
