-------------------------- MODULE ProjectionProofs --------------------------
(***************************************************************************)
(* Proofs about Projection, for any keys, days, events, rows and bounds.   *)
(* One invariant says what stands between the calendar and the plan a pass *)
(* goes by (WritingInv), another what stands between that plan and the     *)
(* live one (QueueInv).                                                    *)
(***************************************************************************)
EXTENDS Projection, WellFoundedInduction, TLAPS

(* The writes of the diff, and no others. *)
PlannedWrites ==
    {Patch(e, i[1], i[2]) : e \in EventIds, i \in pass.intended}
        \cup {Insert(i[1], i[2]) : i \in pass.intended}
        \cup {Delete(e) : e \in EventIds}

(* A pass holds claims, goes by a plan that gives a key one time inside its horizon, and has   *)
(* writes to send only while it writes.                                                       *)
PassInv ==
    /\ pass.phase = "idle" <=> pass.claimed = {}
    /\ pass.phase # "writing" => pass.todo = {}
    /\ pass.todo \subseteq PlannedWrites
    /\ \A i \in pass.intended : i[2] \in pass.horizon
    /\ \A i, j \in pass.intended : i[1] = j[1] => i = j
    /\ pass.fresh => pass.phase \in {"reading", "writing", "stopped"}

(* The one event that is, or will be made, the intended one: every other holder of its key    *)
(* is to be deleted.                                                                          *)
Settles(e, i) ==
    /\ e \in Holders(i[1], pass.horizon)
    /\ Delete(e) \notin pass.todo
    /\ calendar[e].at = i[2] \/ Patch(e, i[1], i[2]) \in pass.todo
    /\ \A x \in Holders(i[1], pass.horizon) : x = e \/ Delete(x) \in pass.todo
ToInsert(i) ==
    /\ Insert(i[1], i[2]) \in pass.todo
    /\ Holders(i[1], pass.horizon) = {}

WritingInv ==
    pass.phase = "writing" /\ pass.fresh =>
        /\ \A i \in pass.intended : ToInsert(i) \/ \E e \in EventIds : Settles(e, i)
        /\ \A e \in EventIds, i \in pass.intended : Patch(e, i[1], i[2]) \in pass.todo => Settles(e, i)
        /\ \A e \in EventIds : Delete(e) \in pass.todo => calendar[e] # NULL
        /\ \A i \in pass.intended : Insert(i[1], i[2]) \in pass.todo => ToInsert(i)
        /\ \A e \in Existing(pass.horizon) :
            Delete(e) \in pass.todo \/ \E i \in pass.intended : calendar[e].key = i[1]

(* While a pass is fresh it goes by what is desired now, or a plan change waits behind it; a   *)
(* pass that is not has a change of the world to thank for it, as a tick that midnight left     *)
(* behind has; what it claimed runs, was returned to the queue, or was given up on.             *)
QueueInv ==
    /\ pass.phase \in {"reading", "writing"} =>
        IF pass.fresh
        THEN /\ pass.horizon = horizon /\ target = "google"
             /\ pass.intended = Desired(plan, horizon) \/ Pending # {}
        ELSE drift
    /\ pass.phase = "claimed" => pass.today = today \/ drift
    /\ pass.phase = "done" => target = "none" \/ drift
    /\ \A id \in pass.claimed :
        /\ ops[id].status \in {"running", "pending", "failed"}
        /\ ops[id].status = "failed" => abandoned

ProjectionInv ==
    TypeOK /\ PassInv /\ WritingInv /\ QueueInv /\ QuietIsShownOrStated

-----------------------------------------------------------------------------
(* What is kept of several copies. *)

LEMMA LeastOfNaturals ==
    ASSUME NEW S \in SUBSET Nat, S # {}
    PROVE  \E m \in S : \A n \in S : m <= n
<1>1. PICK m \in S : \A n \in S : <<n, m>> \notin OpToRel(<, Nat)
  BY NatLessThanWellFounded, WFMin
<1>2. \A n \in S : ~(n < m)
  BY <1>1 DEF OpToRel
<1> QED BY <1>2

LEMMA KeptIsALeastHolder ==
    ASSUME NEW k, NEW days, Holders(k, days) # {}
    PROVE  Kept(k, days) \in Holders(k, days)
<1>1. Holders(k, days) \in SUBSET Nat
  BY ProjectionSets DEF Holders, Existing
<1>2. \E e \in Holders(k, days) : \A other \in Holders(k, days) : e <= other
  BY <1>1, LeastOfNaturals
<1> QED BY <1>2 DEF Kept

(* What is desired gives a key one time, inside the horizon. *)
LEMMA DesiredIsFunctional ==
    ASSUME NEW days
    PROVE  /\ Desired(plan, days) \in SUBSET Intent
           /\ \A i \in Desired(plan, days) : i[2] \in days
           /\ \A i, j \in Desired(plan, days) : i[1] = j[1] => i = j
BY DEF Desired, Intent

(* The diff is made of the pass's own writes. *)
LEMMA ReconciliationIsPlanned ==
    ASSUME pass.intended \in SUBSET Intent
    PROVE  Reconciliation(pass.intended, pass.horizon) \subseteq PlannedWrites
<1>1. \A i \in pass.intended : Holders(i[1], pass.horizon) # {}
        => Kept(i[1], pass.horizon) \in EventIds
  BY KeptIsALeastHolder DEF Holders, Existing
<1>2. Patches(pass.intended, pass.horizon) \subseteq PlannedWrites
  BY <1>1 DEF Patches, PlannedWrites
<1>3. Inserts(pass.intended, pass.horizon) \subseteq PlannedWrites
  BY DEF Inserts, PlannedWrites
<1>4. Deletes(pass.intended, pass.horizon) \subseteq PlannedWrites
  BY DEF Deletes, PlannedWrites, Existing
<1> QED BY <1>2, <1>3, <1>4 DEF Reconciliation

(* Three kinds of writes, told apart by what they do. *)
LEMMA PlannedKinds ==
    ASSUME TypeOK, NEW write \in PlannedWrites
    PROVE  /\ write \in Write
           /\ write.do = "patch" => \E e \in EventIds, i \in pass.intended : write = Patch(e, i[1], i[2])
           /\ write.do = "insert" => \E i \in pass.intended : write = Insert(i[1], i[2])
           /\ write.do = "delete" => \E e \in EventIds : write = Delete(e)
<1>1. \A i \in pass.intended : i[1] \in Keys /\ i[2] \in Days
  BY DEF TypeOK, Pass, Intent
<1> QED BY <1>1 DEF PlannedWrites, Patch, Insert, Delete, Write

(* A write makes an event, changes one, or takes one away. *)
Made(e, i) == calendar[e] = NULL /\ calendar' = [calendar EXCEPT ![e] = [key |-> i[1], at |-> i[2]]]
Changed(e, i) == calendar[e] # NULL /\ calendar' = [calendar EXCEPT ![e] = [key |-> i[1], at |-> i[2]]]
TakenAway(e) == calendar' = [calendar EXCEPT ![e] = NULL]

LEMMA AppliedKinds ==
    ASSUME TypeOK, NEW write \in PlannedWrites, Applied(write)
    PROVE  \/ \E i \in pass.intended, e \in EventIds : write = Insert(i[1], i[2]) /\ Made(e, i)
           \/ \E i \in pass.intended, e \in EventIds : write = Patch(e, i[1], i[2]) /\ Changed(e, i)
           \/ \E e \in EventIds : write = Delete(e) /\ TakenAway(e)
<1>1. CASE write.do = "insert"
  <2>1. PICK i \in pass.intended : write = Insert(i[1], i[2])
    BY <1>1, PlannedKinds
  <2>2. write.key = i[1] /\ write.at = i[2]
    BY <2>1 DEF Insert
  <2> QED BY <1>1, <2>1, <2>2 DEF Applied, Made
<1>2. CASE write.do = "patch"
  <2>1. PICK e \in EventIds, i \in pass.intended : write = Patch(e, i[1], i[2])
    BY <1>2, PlannedKinds
  <2>2. write.event = e /\ write.key = i[1] /\ write.at = i[2]
    BY <2>1 DEF Patch
  <2> QED BY <1>2, <2>1, <2>2 DEF Applied, Changed
<1>3. CASE write.do = "delete"
  <2>1. PICK e \in EventIds : write = Delete(e)
    BY <1>3, PlannedKinds
  <2>2. write.event = e
    BY <2>1 DEF Delete
  <2> QED BY <1>3, <2>1, <2>2 DEF Applied, TakenAway
<1> QED BY <1>1, <1>2, <1>3 DEF Applied

-----------------------------------------------------------------------------
(* Types. *)

LEMMA FailedRowTyped ==
    ASSUME NEW row \in Row
    PROVE  /\ FailedRow(row) \in Row
           /\ FailedRow(row).status \in {"pending", "failed"}
<1>1. row.attempt \in 0..MaxAttempts
  BY DEF Row
<1>2. CASE row.attempt < MaxAttempts
  <2> DEFINE new == [row EXCEPT !.status = "pending", !.attempt = row.attempt + 1,
                                !.due = FALSE, !.lapsed = FALSE]
  <2>1. row.attempt + 1 \in 0..MaxAttempts
    BY <1>1, <1>2, ProjectionBounds
  <2>2. new \in Row /\ new.status = "pending"
    BY <2>1 DEF Row, Statuses
  <2>3. FailedRow(row) = new
    BY <1>2 DEF FailedRow
  <2> QED BY <2>2, <2>3
<1>3. CASE ~(row.attempt < MaxAttempts)
  <2> DEFINE new == [row EXCEPT !.status = "failed", !.lapsed = FALSE]
  <2>1. new \in Row /\ new.status = "failed"
    BY DEF Row, Statuses
  <2>2. FailedRow(row) = new
    BY <1>3 DEF FailedRow
  <2> QED BY <2>1, <2>2
<1> QED BY <1>2, <1>3

LEMMA RowsTyped ==
    /\ AbsentRow \in Row
    /\ [status |-> "pending", attempt |-> 1, due |-> TRUE, lapsed |-> FALSE] \in Row
BY ProjectionBounds DEF AbsentRow, Row, Statuses

LEMMA IdlePassTyped ==
    IdlePass \in Pass
BY DEF IdlePass, Pass, Phases, AllTargets

LEMMA TypeInit == Init => TypeOK
<1> SUFFICES ASSUME Init PROVE TypeOK
  OBVIOUS
<1>1. plan \in [Keys -> Days \cup {NULL}] /\ calendar \in [EventIds -> Event \cup {NULL}]
  BY DEF Init
<1>2. today \in Days /\ reach \in Reaches /\ target \in AllTargets
  BY ProjectionSets DEF Init
<1>3. ops \in [OpIds -> Row] /\ pass \in Pass
  BY IdlePassTyped, RowsTyped DEF Init
<1>4. banner \in BOOLEAN /\ drift \in BOOLEAN /\ abandoned \in BOOLEAN /\ drifts \in Nat
  BY DEF Init
<1> QED BY <1>1, <1>2, <1>3, <1>4 DEF TypeOK

LEMMA AppliedTyped ==
    ASSUME TypeOK, NEW write \in PlannedWrites, Applied(write)
    PROVE  calendar' \in [EventIds -> Event \cup {NULL}]
<1>1. \A i \in pass.intended : [key |-> i[1], at |-> i[2]] \in Event
  BY DEF TypeOK, Pass, Intent, Event
<1> QED BY <1>1, AppliedKinds DEF TypeOK, Made, Changed, TakenAway

LEMMA PlanStepTyped ==
    ASSUME TypeOK, PlanChanges \/ OffPlanChanges
    PROVE  plan' \in [Keys -> Days \cup {NULL}]
BY DEF PlanChanges, OffPlanChanges, TypeOK, Keys

LEMMA TypeStep ==
    ASSUME TypeOK, PassInv, [Next]_vars
    PROVE  TypeOK'
<1> USE DEF TypeOK, PassInv
<1>1. CASE UNCHANGED vars
  BY <1>1 DEF vars
<1>2. CASE PlanChanges
  BY <1>2, PlanStepTyped, RowsTyped DEF PlanChanges
<1>3. ASSUME Drifting PROVE /\ UNCHANGED <<ops, banner, abandoned>>
                            /\ drift' \in BOOLEAN /\ drifts' \in Nat
                            /\ pass' \in Pass
  <2>1. pass' \in Pass
    BY <1>3 DEF Drifting, Stale, Pass
  <2> QED BY <1>3, <2>1 DEF Drifting
<1>4. CASE OffPlanChanges
  BY <1>3, <1>4, PlanStepTyped DEF OffPlanChanges
<1>5. CASE MidnightPasses \/ SetHorizon
  BY <1>3, <1>5 DEF MidnightPasses, SetHorizon
<1>6. CASE TargetChanges
  BY <1>3, <1>6 DEF TargetChanges, AllTargets
<1>7. CASE UserEdits
  <2>1. calendar' \in [EventIds -> Event \cup {NULL}]
    BY <1>7 DEF UserEdits, Event
  <2> QED BY <1>3, <1>7, <2>1 DEF UserEdits
<1>8. CASE Claim
  <2>1. PICK taken \in SUBSET Pending :
            /\ ops' = [id \in OpIds |-> IF id \in taken THEN [ops[id] EXCEPT !.status = "running"]
                                        ELSE ops[id]]
            /\ pass' = [IdlePass EXCEPT !.phase = "claimed", !.claimed = taken, !.today = today]
    BY <1>8 DEF Claim
  <2>2. ops' \in [OpIds -> Row]
    BY <2>1 DEF Row, Statuses
  <2>3. taken \in SUBSET OpIds /\ today \in Nat
    BY ProjectionSets DEF Pending
  <2>4. pass' \in Pass
    BY <2>1, <2>3, IdlePassTyped DEF Pass, Phases
  <2> QED BY <1>8, <2>2, <2>4 DEF Claim
<1>9. CASE Read
  <2> DEFINE phase == CASE target = "none" -> "done"
                        [] target = "feed" -> "stopped"
                        [] target = "google" -> "reading"
             days == HorizonOf(pass.today, reach)
             fresh == target = "google" /\ days = horizon
  <2>1. phase \in Phases /\ fresh \in BOOLEAN
    BY DEF Phases, AllTargets
  <2>2. days \in SUBSET Days /\ Desired(plan, days) \in SUBSET Intent
    BY DEF HorizonOf, Desired
  <2>3. pass' = [pass EXCEPT !.phase = phase, !.target = target, !.horizon = days,
                             !.intended = Desired(plan, days), !.fresh = fresh]
    BY <1>9 DEF Read
  <2> HIDE DEF phase, days, fresh
  <2>4. pass' \in Pass
    BY <2>1, <2>2, <2>3 DEF Pass
  <2> QED BY <1>9, <2>4 DEF Read
<1>10. CASE ListEvents
  <2>1. Reconciliation(pass.intended, pass.horizon) \in SUBSET Write
    BY ReconciliationIsPlanned, PlannedKinds DEF Pass
  <2> QED BY <1>10, <2>1 DEF ListEvents, Pass, Phases
<1>11. CASE Send
  <2>1. PICK write \in pass.todo : Applied(write)
    BY <1>11 DEF Send, Sendable
  <2> QED BY <1>11, <2>1, AppliedTyped DEF Send, Pass
<1>12. CASE SendFails
  <2>1. calendar' \in [EventIds -> Event \cup {NULL}]
    BY <1>12, AppliedTyped DEF SendFails, Sendable
  <2> QED BY <1>12, <2>1 DEF SendFails, Pass, Phases
<1>13. CASE CloseDone
  BY <1>13, IdlePassTyped DEF CloseDone, Row, Statuses
<1>14. CASE CloseStopped
  <2>1. ops' \in [OpIds -> Row]
    BY <1>14, FailedRowTyped DEF CloseStopped, Running
  <2> QED BY <1>14, <2>1, IdlePassTyped DEF CloseStopped
<1>15. CASE CloseTakenOver \/ Crash
  BY <1>15, IdlePassTyped DEF CloseTakenOver, Crash
<1>16. ASSUME NEW id \in OpIds, BecomesDue(id) \/ LeaseLapses(id) PROVE TypeOK'
  <2>1. ops' \in [OpIds -> Row]
    BY ZenonT(30), <1>16 DEF BecomesDue, LeaseLapses, Row
  <2> QED BY <1>16, <2>1 DEF BecomesDue, LeaseLapses
<1>17. ASSUME NEW id \in OpIds, Reap(id) PROVE TypeOK'
  BY <1>17, FailedRowTyped DEF Reap
<1> QED BY <1>1, <1>2, <1>4, <1>5, <1>6, <1>7, <1>8, <1>9, <1>10, <1>11, <1>12, <1>13, <1>14, <1>15,
           <1>16, <1>17 DEF Next, WorkerStep, Passing

-----------------------------------------------------------------------------
(* The pass. *)

LEMMA DriftingPass ==
    ASSUME TypeOK, Drifting
    PROVE  /\ pass'.phase = pass.phase /\ pass'.claimed = pass.claimed /\ pass'.todo = pass.todo
           /\ pass'.horizon = pass.horizon /\ pass'.intended = pass.intended
           /\ pass'.target = pass.target /\ pass'.today = pass.today /\ ~pass'.fresh
BY DEF Drifting, Stale, TypeOK, Pass

LEMMA ClaimedPass ==
    ASSUME Claim
    PROVE  \E taken \in SUBSET Pending :
               /\ taken # {}
               /\ ops' = [id \in OpIds |-> IF id \in taken THEN [ops[id] EXCEPT !.status = "running"]
                                           ELSE ops[id]]
               /\ pass'.phase = "claimed" /\ pass'.claimed = taken /\ pass'.todo = {}
               /\ pass'.intended = {} /\ pass'.today = today /\ ~pass'.fresh
BY DEF Claim, IdlePass

LEMMA ReadPass ==
    ASSUME TypeOK, Read
    PROVE  /\ pass'.claimed = pass.claimed /\ pass'.todo = pass.todo
           /\ pass'.horizon = HorizonOf(pass.today, reach)
           /\ pass'.intended = Desired(plan, pass'.horizon)
           /\ pass'.target = target
           /\ pass'.fresh <=> target = "google" /\ pass'.horizon = horizon
           /\ \/ target = "google" /\ pass'.phase = "reading"
              \/ target = "none" /\ pass'.phase = "done"
              \/ target = "feed" /\ pass'.phase = "stopped"
<1> DEFINE phase == CASE target = "none" -> "done"
                      [] target = "feed" -> "stopped"
                      [] target = "google" -> "reading"
           days == HorizonOf(pass.today, reach)
           fresh == target = "google" /\ days = horizon
<1>1. pass \in Pass /\ target \in AllTargets
  BY DEF TypeOK
<1>2. \/ target = "google" /\ phase = "reading"
      \/ target = "none" /\ phase = "done"
      \/ target = "feed" /\ phase = "stopped"
  BY <1>1 DEF AllTargets
<1>3. pass' = [pass EXCEPT !.phase = phase, !.target = target, !.horizon = days,
                           !.intended = Desired(plan, days), !.fresh = fresh]
  BY DEF Read
<1>4. fresh <=> target = "google" /\ days = horizon
  OBVIOUS
<1> HIDE DEF phase, days, fresh
<1>5. /\ pass'.claimed = pass.claimed /\ pass'.todo = pass.todo
      /\ pass'.horizon = days /\ pass'.intended = Desired(plan, days)
      /\ pass'.target = target /\ pass'.phase = phase /\ pass'.fresh = fresh
  BY <1>1, <1>3 DEF Pass
<1> QED BY <1>2, <1>4, <1>5 DEF days

LEMMA ListedPass ==
    ASSUME TypeOK, ListEvents
    PROVE  /\ pass.phase = "reading" /\ pass'.phase = "writing"
           /\ pass'.todo = Reconciliation(pass.intended, pass.horizon)
           /\ pass'.claimed = pass.claimed /\ pass'.horizon = pass.horizon
           /\ pass'.intended = pass.intended /\ pass'.fresh = pass.fresh
BY DEF ListEvents, TypeOK, Pass

LEMMA SentPass ==
    ASSUME TypeOK, Send \/ SendFails
    PROVE  /\ pass'.claimed = pass.claimed /\ pass'.horizon = pass.horizon
           /\ pass'.intended = pass.intended /\ pass'.fresh = pass.fresh
           /\ \/ Send /\ pass'.phase = "writing" /\ pass'.todo \subseteq pass.todo
              \/ SendFails /\ pass'.phase = "stopped" /\ pass'.todo = {}
<1>1. CASE Send
  BY <1>1 DEF Send, TypeOK, Pass
<1>2. CASE SendFails
  BY <1>2 DEF SendFails, TypeOK, Pass
<1> QED BY <1>1, <1>2

LEMMA EndedPass ==
    ASSUME CloseDone \/ CloseStopped \/ CloseTakenOver \/ Crash
    PROVE  /\ pass'.phase = "idle" /\ pass'.claimed = {} /\ pass'.todo = {}
           /\ pass'.intended = {} /\ ~pass'.fresh
<1>1. pass' = IdlePass
  BY DEF CloseDone, CloseStopped, CloseTakenOver, Crash
<1> QED BY <1>1 DEF IdlePass

LEMMA PassKept ==
    ASSUME \/ UNCHANGED vars \/ PlanChanges \/ \E id \in OpIds : Passing(id)
    PROVE  UNCHANGED <<today, reach, target, calendar, pass, banner, drift>>
BY DEF vars, PlanChanges, Passing, BecomesDue, LeaseLapses, Reap

LEMMA PassStep ==
    ASSUME TypeOK, PassInv, [Next]_vars
    PROVE  PassInv'
<1> USE DEF PassInv
<1>1. CASE \/ UNCHANGED vars \/ PlanChanges \/ \E id \in OpIds : Passing(id)
  BY <1>1, PassKept DEF PlannedWrites
<1>2. CASE Drifting
  BY <1>2, DriftingPass DEF PlannedWrites
<1>3. CASE Claim
  BY <1>3, ClaimedPass
<1>4. CASE Read
  <2>1. pass.phase = "claimed" /\ pass'.todo = {}
    BY <1>4, ReadPass DEF Read
  <2> QED BY <1>4, <2>1, ReadPass, DesiredIsFunctional
<1>5. CASE ListEvents
  <2>1. pass.intended \in SUBSET Intent
    BY DEF TypeOK, Pass
  <2>2. pass'.todo \subseteq PlannedWrites'
    BY <1>5, <2>1, ListedPass, ReconciliationIsPlanned DEF PlannedWrites
  <2> QED BY <1>5, <2>2, ListedPass
<1>6. CASE Send \/ SendFails
  <2>1. pass.phase # "idle" /\ (Send => pass.phase = "writing")
    BY <1>6 DEF Send, SendFails
  <2> QED BY <1>6, <2>1, SentPass DEF PlannedWrites
<1>7. CASE CloseDone \/ CloseStopped \/ CloseTakenOver \/ Crash
  BY <1>7, EndedPass
<1>8. OffPlanChanges \/ MidnightPasses \/ SetHorizon \/ TargetChanges \/ UserEdits => Drifting
  BY DEF OffPlanChanges, MidnightPasses, SetHorizon, TargetChanges, UserEdits
<1> QED BY <1>1, <1>2, <1>3, <1>4, <1>5, <1>6, <1>7, <1>8 DEF Next, WorkerStep

-----------------------------------------------------------------------------
(* The diff, and the writes that carry it out. *)

LEMMA KindsDiffer ==
    ASSUME NEW e, NEW f, NEW k, NEW d, NEW k2, NEW d2
    PROVE  /\ Patch(e, k, d) # Delete(f) /\ Insert(k, d) # Delete(f) /\ Patch(e, k, d) # Insert(k2, d2)
           /\ Delete(e) = Delete(f) => e = f
           /\ Patch(e, k, d) = Patch(f, k2, d2) => e = f /\ k = k2 /\ d = d2
           /\ Insert(k, d) = Insert(k2, d2) => k = k2 /\ d = d2
BY DEF Patch, Insert, Delete

(* Where the calendar shows what is intended the diff is empty. *)
LEMMA NothingToWrite ==
    ASSUME NEW intended, NEW days, Shows(intended, days)
    PROVE  Reconciliation(intended, days) = {}
<1>1. \A i \in intended : \E e \in EventIds :
          calendar[e] = [key |-> i[1], at |-> i[2]] /\ Holders(i[1], days) = {e}
  BY DEF Shows
<1>2. \A i \in intended : /\ Holders(i[1], days) = {Kept(i[1], days)}
                          /\ calendar[Kept(i[1], days)].at = i[2]
  <2> SUFFICES ASSUME NEW i \in intended
               PROVE  /\ Holders(i[1], days) = {Kept(i[1], days)}
                      /\ calendar[Kept(i[1], days)].at = i[2]
    OBVIOUS
  <2>1. PICK e \in EventIds : calendar[e] = [key |-> i[1], at |-> i[2]] /\ Holders(i[1], days) = {e}
    BY <1>1
  <2>2. Kept(i[1], days) = e
    BY <2>1, KeptIsALeastHolder
  <2> QED BY <2>1, <2>2
<1>3. Patches(intended, days) = {} /\ Inserts(intended, days) = {}
  BY <1>2 DEF Patches, Inserts
<1>4. Deletes(intended, days) = {}
  <2> SUFFICES ASSUME NEW x \in Existing(days)
               PROVE  \E i \in intended : Holders(i[1], days) # {} /\ x = Kept(i[1], days)
    BY DEF Deletes
  <2>1. PICK i \in intended : calendar[x].key = i[1]
    BY DEF Shows
  <2>2. x \in Holders(i[1], days)
    BY <2>1 DEF Holders
  <2> QED BY <1>2, <2>2
<1> QED BY <1>3, <1>4 DEF Reconciliation

(* What the listing leaves to write settles every event. *)
LEMMA ListingSettles ==
    ASSUME TypeOK, PassInv, ListEvents
    PROVE  WritingInv'
<1> DEFINE I == pass.intended
           D == pass.horizon
           T == Reconciliation(I, D)
<1>0. /\ pass'.phase = "writing" /\ pass'.todo = T /\ pass'.intended = I /\ pass'.horizon = D
      /\ calendar' = calendar
  BY ListedPass DEF ListEvents
<1>00. /\ I \in SUBSET Intent
       /\ \A i, j \in I : i[1] = j[1] => i = j
  BY DEF TypeOK, Pass, PassInv
<1>1. \A x \in EventIds : Delete(x) \in T <=>
          x \in Existing(D) /\ ~\E i \in I : Holders(i[1], D) # {} /\ x = Kept(i[1], D)
  <2> SUFFICES ASSUME NEW x \in EventIds
               PROVE  Delete(x) \in T <=>
                        x \in Existing(D) /\ ~\E i \in I : Holders(i[1], D) # {} /\ x = Kept(i[1], D)
    OBVIOUS
  <2>1. Delete(x) \notin Patches(I, D) /\ Delete(x) \notin Inserts(I, D)
    BY KindsDiffer DEF Patches, Inserts
  <2>2. Delete(x) \in Deletes(I, D) <=>
            \E y \in Existing(D) : /\ ~\E i \in I : Holders(i[1], D) # {} /\ y = Kept(i[1], D)
                                  /\ Delete(x) = Delete(y)
    BY DEF Deletes
  <2> QED BY <2>1, <2>2, KindsDiffer DEF Reconciliation
<1>2. \A i \in I : Insert(i[1], i[2]) \in T <=> Holders(i[1], D) = {}
  <2> SUFFICES ASSUME NEW i \in I PROVE Insert(i[1], i[2]) \in T <=> Holders(i[1], D) = {}
    OBVIOUS
  <2>1. Insert(i[1], i[2]) \in T <=> Insert(i[1], i[2]) \in Inserts(I, D)
    BY KindsDiffer DEF Reconciliation, Patches, Deletes
  <2>2. Insert(i[1], i[2]) \in Inserts(I, D) <=> Holders(i[1], D) = {}
    BY <1>00, KindsDiffer DEF Inserts
  <2> QED BY <2>1, <2>2
<1>3. \A e \in EventIds, i \in I : Patch(e, i[1], i[2]) \in T <=>
          Holders(i[1], D) # {} /\ e = Kept(i[1], D) /\ calendar[e].at # i[2]
  <2> SUFFICES ASSUME NEW e \in EventIds, NEW i \in I
               PROVE  Patch(e, i[1], i[2]) \in T <=>
                          Holders(i[1], D) # {} /\ e = Kept(i[1], D) /\ calendar[e].at # i[2]
    OBVIOUS
  <2>1. Patch(e, i[1], i[2]) \in T <=> Patch(e, i[1], i[2]) \in Patches(I, D)
    BY KindsDiffer DEF Reconciliation, Inserts, Deletes
  <2>2. Patch(e, i[1], i[2]) \in Patches(I, D) <=>
            \E j \in I : /\ Holders(j[1], D) # {} /\ calendar[Kept(j[1], D)].at # j[2]
                         /\ Patch(e, i[1], i[2]) = Patch(Kept(j[1], D), j[1], j[2])
    BY DEF Patches
  <2> QED BY <1>00, <2>1, <2>2, KindsDiffer
<1>4. \A i \in I : Holders(i[1], D) # {} => Kept(i[1], D) \in Holders(i[1], D)
  BY KeptIsALeastHolder
<1>5. \A i \in I : \A x \in Holders(i[1], D) : x \in EventIds /\ calendar[x].key = i[1] /\ x \in Existing(D)
  BY DEF Holders, Existing
<1>6. \A i \in I : Holders(i[1], D) # {} =>
          /\ Delete(Kept(i[1], D)) \notin T
          /\ \A x \in Holders(i[1], D) : x = Kept(i[1], D) \/ Delete(x) \in T
  BY <1>00, <1>1, <1>4, <1>5
<1> HIDE DEF T
<1>7. \A i \in I : Holders(i[1], D) # {} =>
          /\ Kept(i[1], D) \in Holders(i[1], D) /\ Delete(Kept(i[1], D)) \notin T
          /\ calendar[Kept(i[1], D)].at = i[2] \/ Patch(Kept(i[1], D), i[1], i[2]) \in T
          /\ \A x \in Holders(i[1], D) : x = Kept(i[1], D) \/ Delete(x) \in T
  BY <1>3, <1>4, <1>5, <1>6
<1>8. \A i \in I, e \in EventIds :
          Holders(i[1], D) # {} /\ e = Kept(i[1], D) => Settles(e, i)'
  <2> SUFFICES ASSUME NEW i \in I, NEW e \in EventIds, Holders(i[1], D) # {}, e = Kept(i[1], D)
               PROVE  Settles(e, i)'
    OBVIOUS
  <2>1. Holders(i[1], pass.horizon)' = Holders(i[1], D)
    BY <1>0 DEF Holders, Existing
  <2>2. /\ e \in Holders(i[1], D) /\ Delete(e) \notin T
        /\ calendar[e].at = i[2] \/ Patch(e, i[1], i[2]) \in T
        /\ \A x \in Holders(i[1], D) : x = e \/ Delete(x) \in T
    BY <1>7
  <2> QED BY <1>0, <2>1, <2>2 DEF Settles
<1>9. \A i \in I : Holders(i[1], D) = {} => ToInsert(i)'
  BY <1>0, <1>2 DEF ToInsert, Holders, Existing
<1>10. \A e \in Existing(D) : Delete(e) \in T \/ \E i \in I : calendar[e].key = i[1]
  BY <1>1, <1>4, <1>5 DEF Existing
<1>11. Existing(D)' = Existing(D)
  BY <1>0 DEF Existing
<1>12. \A e \in EventIds : Delete(e) \in T => calendar[e] # NULL
  BY <1>1 DEF Existing
<1>13. \A i \in I : ToInsert(i)' \/ \E e \in EventIds : Settles(e, i)'
  <2> SUFFICES ASSUME NEW i \in I, Holders(i[1], D) # {}
               PROVE  \E e \in EventIds : Settles(e, i)'
    BY <1>9
  <2> DEFINE e == Kept(i[1], D)
  <2>1. e \in EventIds
    BY <1>4, <1>5
  <2> QED BY <1>8, <2>1
<1>14. \A e \in EventIds, i \in I : Patch(e, i[1], i[2]) \in T => Settles(e, i)'
  BY <1>3, <1>8 DEF T
<1>15. \A i \in I : Insert(i[1], i[2]) \in T => ToInsert(i)'
  BY <1>2, <1>9
<1> QED BY <1>0, <1>10, <1>11, <1>12, <1>13, <1>14, <1>15 DEF WritingInv

(* A sent insert: its event is the only one of its key. *)
LEMMA InsertSettles ==
    ASSUME TypeOK, PassInv, WritingInv, pass.phase = "writing", pass.fresh,
           NEW i0 \in pass.intended, NEW e0 \in EventIds,
           Insert(i0[1], i0[2]) \in pass.todo, Made(e0, i0),
           pass' = [pass EXCEPT !.todo = @ \ {Insert(i0[1], i0[2])}]
    PROVE  WritingInv'
<1> DEFINE I == pass.intended
           D == pass.horizon
           T == pass.todo
<1>0. /\ pass'.phase = "writing" /\ pass'.intended = I /\ pass'.horizon = D
      /\ pass'.todo = T \ {Insert(i0[1], i0[2])}
  BY DEF TypeOK, Pass
<1>1. /\ calendar[e0] = NULL /\ calendar'[e0] = [key |-> i0[1], at |-> i0[2]]
      /\ calendar'[e0] # NULL
      /\ \A e \in EventIds : e # e0 => calendar'[e] = calendar[e]
  <2>1. [key |-> i0[1], at |-> i0[2]] \in Event
    BY DEF TypeOK, Pass, Intent, Event
  <2> QED BY <2>1, NullIsNoEvent DEF Made, TypeOK
<1>2. i0[2] \in D /\ \A i \in I : i[1] = i0[1] => i = i0
  BY DEF PassInv
<1>3. /\ \A i \in I : ToInsert(i) \/ \E e \in EventIds : Settles(e, i)
      /\ \A e \in EventIds, i \in I : Patch(e, i[1], i[2]) \in T => Settles(e, i)
      /\ \A e \in EventIds : Delete(e) \in T => calendar[e] # NULL
      /\ \A i \in I : Insert(i[1], i[2]) \in T => ToInsert(i)
      /\ \A e \in Existing(D) : Delete(e) \in T \/ \E i \in I : calendar[e].key = i[1]
  BY DEF WritingInv
<1>4. Existing(D)' = Existing(D) \cup {e0}
  BY <1>0, <1>1, <1>2 DEF Existing
<1>5. Holders(i0[1], D) = {}
  BY <1>3 DEF ToInsert
<1>6. \A k : Holders(k, D)' = IF k = i0[1] THEN {e0} ELSE Holders(k, D)
  BY <1>1, <1>4, <1>5 DEF Holders, Existing
<1>7. Settles(e0, i0)'
  <2>1. Holders(i0[1], pass.horizon)' = {e0}
    BY <1>0, <1>6
  <2> QED BY <1>0, <1>1, <1>3, <2>1 DEF Settles
<1>8. ASSUME NEW i \in I, i # i0, NEW e \in EventIds, Settles(e, i) PROVE Settles(e, i)'
  <2>1. Holders(i[1], pass.horizon)' = Holders(i[1], D)
    BY <1>0, <1>2, <1>6, <1>8
  <2>2. /\ e \in Holders(i[1], D) /\ Delete(e) \notin T
        /\ calendar[e].at = i[2] \/ Patch(e, i[1], i[2]) \in T
        /\ \A x \in Holders(i[1], D) : x = e \/ Delete(x) \in T
    BY <1>8 DEF Settles
  <2>3. calendar'[e] = calendar[e]
    BY <1>1, <2>2 DEF Holders, Existing
  <2>4. calendar'[e].at = i[2] \/ Patch(e, i[1], i[2]) \in pass'.todo
    BY <1>0, <2>2, <2>3, KindsDiffer
  <2>5. \A x \in Holders(i[1], D) : x = e \/ Delete(x) \in pass'.todo
    BY <1>0, <2>2, KindsDiffer
  <2> QED BY <1>0, <2>1, <2>2, <2>4, <2>5 DEF Settles
<1>9. ASSUME NEW i \in I, i # i0, ToInsert(i) PROVE ToInsert(i)'
  <2>1. Holders(i[1], pass.horizon)' = {}
    BY <1>0, <1>2, <1>6, <1>9 DEF ToInsert
  <2>2. Insert(i[1], i[2]) # Insert(i0[1], i0[2])
    BY <1>2, <1>9, KindsDiffer
  <2> QED BY <1>0, <1>9, <2>1, <2>2 DEF ToInsert
<1>10. \A i \in I : ToInsert(i)' \/ \E e \in EventIds : Settles(e, i)'
  BY <1>3, <1>7, <1>8, <1>9
<1>11. \A e \in EventIds, i \in I : Patch(e, i[1], i[2]) \in pass'.todo => Settles(e, i)'
  <2>1. \A e : ~Settles(e, i0)
    BY <1>5 DEF Settles
  <2> QED BY <1>0, <1>3, <1>8, <2>1
<1>12. \A e \in EventIds : Delete(e) \in pass'.todo => calendar'[e] # NULL
  BY <1>0, <1>1, <1>3
<1>13. \A i \in I : Insert(i[1], i[2]) \in pass'.todo => ToInsert(i)'
  BY <1>0, <1>3, <1>9
<1>14. \A e \in Existing(D)' : Delete(e) \in pass'.todo \/ \E i \in I : calendar'[e].key = i[1]
  <2>1. \A e \in Existing(D) : e # e0 /\ e \in EventIds
    BY <1>1 DEF Existing
  <2> QED BY <1>0, <1>1, <1>3, <1>4, <2>1, KindsDiffer
<1> QED BY <1>0, <1>10, <1>11, <1>12, <1>13, <1>14 DEF WritingInv, Existing

(* A sent patch: the event it settles is where it should be, and no other event moved. *)
LEMMA PatchSettles ==
    ASSUME TypeOK, PassInv, WritingInv, pass.phase = "writing", pass.fresh,
           NEW i0 \in pass.intended, NEW e0 \in EventIds,
           Patch(e0, i0[1], i0[2]) \in pass.todo, Changed(e0, i0),
           pass' = [pass EXCEPT !.todo = @ \ {Patch(e0, i0[1], i0[2])}]
    PROVE  WritingInv'
<1> DEFINE I == pass.intended
           D == pass.horizon
           T == pass.todo
<1>0. /\ pass'.phase = "writing" /\ pass'.intended = I /\ pass'.horizon = D
      /\ pass'.todo = T \ {Patch(e0, i0[1], i0[2])}
  BY DEF TypeOK, Pass
<1>1. /\ calendar'[e0] = [key |-> i0[1], at |-> i0[2]]
      /\ calendar'[e0] # NULL
      /\ \A e \in EventIds : e # e0 => calendar'[e] = calendar[e]
  <2>1. [key |-> i0[1], at |-> i0[2]] \in Event
    BY DEF TypeOK, Pass, Intent, Event
  <2> QED BY <2>1, NullIsNoEvent DEF Changed, TypeOK
<1>2. i0[2] \in D /\ \A i \in I : i[1] = i0[1] => i = i0
  BY DEF PassInv
<1>3. /\ \A i \in I : ToInsert(i) \/ \E e \in EventIds : Settles(e, i)
      /\ \A e \in EventIds, i \in I : Patch(e, i[1], i[2]) \in T => Settles(e, i)
      /\ \A e \in EventIds : Delete(e) \in T => calendar[e] # NULL
      /\ \A i \in I : Insert(i[1], i[2]) \in T => ToInsert(i)
      /\ \A e \in Existing(D) : Delete(e) \in T \/ \E i \in I : calendar[e].key = i[1]
  BY DEF WritingInv
<1>4. e0 \in Existing(D) /\ calendar[e0].key = i0[1]
  BY <1>3 DEF Settles, Holders
<1>5. Existing(D)' = Existing(D)
  BY <1>0, <1>1, <1>2, <1>4 DEF Existing
<1>6. \A k : Holders(k, D)' = Holders(k, D)
  BY <1>1, <1>4, <1>5 DEF Holders, Existing
<1>7. ASSUME NEW i \in I, NEW e \in EventIds, Settles(e, i) PROVE Settles(e, i)'
  <2>1. Holders(i[1], pass.horizon)' = Holders(i[1], D)
    BY <1>0, <1>6
  <2>2. /\ e \in Holders(i[1], D) /\ Delete(e) \notin T
        /\ calendar[e].at = i[2] \/ Patch(e, i[1], i[2]) \in T
        /\ \A x \in Holders(i[1], D) : x = e \/ Delete(x) \in T
    BY <1>7 DEF Settles
  <2>3. e = e0 => calendar'[e].at = i[2]
    BY <1>1, <1>2, <1>4, <2>2 DEF Holders
  <2>4. calendar'[e].at = i[2] \/ Patch(e, i[1], i[2]) \in pass'.todo
    BY <1>0, <1>1, <2>2, <2>3, KindsDiffer
  <2> QED BY SMTT(30), <1>0, <2>1, <2>2, <2>4, KindsDiffer DEF Settles
<1>8. ASSUME NEW i \in I, ToInsert(i) PROVE ToInsert(i)'
  <2>1. Holders(i[1], pass.horizon)' = {}
    BY <1>0, <1>6, <1>8 DEF ToInsert
  <2> QED BY <1>0, <1>8, <2>1, KindsDiffer DEF ToInsert
<1>9. \A i \in I : ToInsert(i)' \/ \E e \in EventIds : Settles(e, i)'
  BY <1>3, <1>7, <1>8
<1>10. \A e \in EventIds, i \in I : Patch(e, i[1], i[2]) \in pass'.todo => Settles(e, i)'
  BY <1>0, <1>3, <1>7
<1>11. \A e \in EventIds : Delete(e) \in pass'.todo => calendar'[e] # NULL
  BY <1>0, <1>1, <1>3
<1>12. \A i \in I : Insert(i[1], i[2]) \in pass'.todo => ToInsert(i)'
  BY <1>0, <1>3, <1>8
<1>13. \A e \in Existing(D)' : Delete(e) \in pass'.todo \/ \E i \in I : calendar'[e].key = i[1]
  <2>1. \A e \in Existing(D) : e \in EventIds
    BY DEF Existing
  <2> QED BY <1>0, <1>1, <1>3, <1>5, <2>1, KindsDiffer
<1> QED BY <1>0, <1>9, <1>10, <1>11, <1>12, <1>13 DEF WritingInv, Existing

(* A sent delete, when nothing else is left to send: no intended event goes. *)
LEMMA DeleteSettles ==
    ASSUME TypeOK, PassInv, WritingInv, pass.phase = "writing", pass.fresh,
           NEW e0 \in EventIds,
           Delete(e0) \in pass.todo, TakenAway(e0),
           \A write \in pass.todo : write.do = "delete",
           pass' = [pass EXCEPT !.todo = @ \ {Delete(e0)}]
    PROVE  WritingInv'
<1> DEFINE I == pass.intended
           D == pass.horizon
           T == pass.todo
<1>0. /\ pass'.phase = "writing" /\ pass'.intended = I /\ pass'.horizon = D
      /\ pass'.todo = T \ {Delete(e0)}
  BY DEF TypeOK, Pass
<1>1. calendar'[e0] = NULL /\ \A e \in EventIds : e # e0 => calendar'[e] = calendar[e]
  BY DEF TakenAway, TypeOK
<1>2. \A e, k, d : Patch(e, k, d) \notin T /\ Insert(k, d) \notin T
  BY DEF Patch, Insert
<1>3. /\ \A i \in I : \E e \in EventIds : Settles(e, i)
      /\ \A e \in EventIds : Delete(e) \in T => calendar[e] # NULL
      /\ \A e \in Existing(D) : Delete(e) \in T \/ \E i \in I : calendar[e].key = i[1]
  BY <1>2 DEF WritingInv, ToInsert
<1>4. Existing(D)' = Existing(D) \ {e0}
  BY <1>0, <1>1 DEF Existing
<1>5. \A k : Holders(k, D)' = Holders(k, D) \ {e0}
  BY <1>1, <1>4 DEF Holders, Existing
<1>6. ASSUME NEW i \in I, NEW e \in EventIds, Settles(e, i) PROVE Settles(e, i)'
  <2>1. Holders(i[1], pass.horizon)' = Holders(i[1], D) \ {e0}
    BY <1>0, <1>5
  <2>2. /\ e \in Holders(i[1], D) /\ Delete(e) \notin T
        /\ calendar[e].at = i[2]
        /\ \A x \in Holders(i[1], D) : x = e \/ Delete(x) \in T
    BY <1>2, <1>6 DEF Settles
  <2>3. e # e0 /\ calendar'[e] = calendar[e]
    BY <1>1, <2>2
  <2> QED BY <1>0, <2>1, <2>2, <2>3, KindsDiffer DEF Settles
<1>7. \A i \in I : \E e \in EventIds : Settles(e, i)'
  BY <1>3, <1>6
<1>8. \A e \in EventIds : Delete(e) \in pass'.todo => calendar'[e] # NULL
  BY <1>0, <1>1, <1>3
<1>9. \A e \in Existing(D)' : Delete(e) \in pass'.todo \/ \E i \in I : calendar'[e].key = i[1]
  <2>1. \A e \in Existing(D) : e \in EventIds
    BY DEF Existing
  <2> QED BY <1>0, <1>1, <1>3, <1>4, <2>1, KindsDiffer
<1> QED BY <1>0, <1>2, <1>7, <1>8, <1>9 DEF WritingInv, Existing

LEMMA WritingStep ==
    ASSUME TypeOK, PassInv, WritingInv, [Next]_vars
    PROVE  WritingInv'
<1>1. CASE \/ UNCHANGED vars \/ PlanChanges \/ \E id \in OpIds : Passing(id)
  BY <1>1, PassKept DEF WritingInv, Settles, ToInsert, Holders, Existing
<1>2. CASE Drifting
  BY <1>2, DriftingPass DEF WritingInv
<1>3. CASE Claim \/ Read
  BY <1>3, ClaimedPass, ReadPass DEF WritingInv
<1>4. CASE ListEvents
  BY <1>4, ListingSettles
<1>5. CASE Send
  <2>1. PICK write \in Sendable : Applied(write) /\ pass' = [pass EXCEPT !.todo = @ \ {write}]
    BY <1>5 DEF Send
  <2>2. /\ write \in pass.todo /\ write \in PlannedWrites
        /\ write.do = "delete" => \A other \in pass.todo : other.do = "delete"
    BY DEF Sendable, PassInv
  <2> SUFFICES ASSUME pass.fresh PROVE WritingInv'
    BY <1>5, SentPass DEF WritingInv
  <2>3. pass.phase = "writing"
    BY <1>5 DEF Send
  <2>4. CASE \E i \in pass.intended, e \in EventIds : write = Insert(i[1], i[2]) /\ Made(e, i)
    BY <2>1, <2>2, <2>3, <2>4, InsertSettles
  <2>5. CASE \E i \in pass.intended, e \in EventIds : write = Patch(e, i[1], i[2]) /\ Changed(e, i)
    BY <2>1, <2>2, <2>3, <2>5, PatchSettles
  <2>6. CASE \E e \in EventIds : write = Delete(e) /\ TakenAway(e)
    <3>1. PICK e \in EventIds : write = Delete(e) /\ TakenAway(e)
      BY <2>6
    <3>2. \A other \in pass.todo : other.do = "delete"
      BY <2>2, <3>1 DEF Delete
    <3> QED BY <2>1, <2>2, <2>3, <3>1, <3>2, DeleteSettles
  <2> QED BY <2>1, <2>2, <2>4, <2>5, <2>6, AppliedKinds
<1>6. CASE SendFails
  BY <1>6, SentPass DEF WritingInv, SendFails
<1>7. CASE CloseDone \/ CloseStopped \/ CloseTakenOver \/ Crash
  BY <1>7, EndedPass DEF WritingInv
<1>8. OffPlanChanges \/ MidnightPasses \/ SetHorizon \/ TargetChanges \/ UserEdits => Drifting
  BY DEF OffPlanChanges, MidnightPasses, SetHorizon, TargetChanges, UserEdits
<1> QED BY <1>1, <1>2, <1>3, <1>4, <1>5, <1>6, <1>7, <1>8 DEF Next, WorkerStep

-----------------------------------------------------------------------------
(* What a finished pass shows. *)

LEMMA EventIsItsFields ==
    ASSUME TypeOK, NEW e \in EventIds, calendar[e] # NULL
    PROVE  calendar[e] = [key |-> calendar[e].key, at |-> calendar[e].at]
BY DEF TypeOK, Event

LEMMA WrittenShows ==
    ASSUME TypeOK, WritingInv, pass.phase = "writing", pass.fresh, pass.todo = {}
    PROVE  Shows(pass.intended, pass.horizon)
<1>1. \A i \in pass.intended : \E e \in EventIds :
          calendar[e] = [key |-> i[1], at |-> i[2]] /\ Holders(i[1], pass.horizon) = {e}
  <2> SUFFICES ASSUME NEW i \in pass.intended
               PROVE  \E e \in EventIds : /\ calendar[e] = [key |-> i[1], at |-> i[2]]
                                          /\ Holders(i[1], pass.horizon) = {e}
    OBVIOUS
  <2>1. PICK e \in EventIds : Settles(e, i)
    BY DEF WritingInv, ToInsert
  <2>2. e \in Holders(i[1], pass.horizon) /\ calendar[e].at = i[2]
    BY <2>1 DEF Settles
  <2>3. Holders(i[1], pass.horizon) = {e}
    BY <2>1, <2>2 DEF Settles
  <2>4. calendar[e] # NULL /\ calendar[e].key = i[1]
    BY <2>2 DEF Holders, Existing
  <2> QED BY <2>2, <2>3, <2>4, EventIsItsFields
<1>2. \A e \in Existing(pass.horizon) : \E i \in pass.intended : calendar[e].key = i[1]
  BY DEF WritingInv
<1> QED BY <1>1, <1>2 DEF Shows

-----------------------------------------------------------------------------
(* The queue. *)

LEMMA QueueInit == Init => PassInv /\ WritingInv /\ QueueInv /\ QuietIsShownOrStated
BY DEF Init, IdlePass, PassInv, WritingInv, QueueInv, QuietIsShownOrStated

(* A change of the world that queues nothing is remembered. *)
LEMMA DriftingQueue ==
    ASSUME TypeOK, QueueInv, Drifting
    PROVE  QueueInv' /\ QuietIsShownOrStated'
BY DriftingPass DEF Drifting, QueueInv, QuietIsShownOrStated

(* While a pass is reading or writing an empty queue means that it was given up on. *)
LEMMA EmptiedBehindThePass ==
    ASSUME TypeOK, PassInv, QueueInv, pass.phase \in {"reading", "writing"}, InFlight = {}
    PROVE  abandoned
<1>1. PICK id \in pass.claimed : TRUE
  BY DEF PassInv
<1>2. ops[id].status = "failed"
  BY <1>1 DEF QueueInv, InFlight, Pending, Running, TypeOK, Pass
<1> QED BY <1>1, <1>2 DEF QueueInv, PassInv

LEMMA QueueStep ==
    ASSUME TypeOK, PassInv, WritingInv, QueueInv, QuietIsShownOrStated, [Next]_vars
    PROVE  QueueInv' /\ QuietIsShownOrStated'
<1> USE DEF QueueInv, QuietIsShownOrStated
<1>0. pass \in Pass /\ pass.claimed \subseteq OpIds /\ ops \in [OpIds -> Row]
  BY DEF TypeOK, Pass
<1>1. CASE UNCHANGED vars
  BY <1>1 DEF vars, horizon, Shown, Shows, Holders, Existing, Desired, InFlight, Pending, Running
<1>2. CASE PlanChanges
  <2>1. PICK new \in FreshOps :
            ops' = [ops EXCEPT ![new] =
                      [status |-> "pending", attempt |-> 1, due |-> TRUE, lapsed |-> FALSE]]
    BY <1>2 DEF PlanChanges
  <2>2. ops'[new].status = "pending" /\ \A id \in OpIds : id # new => ops'[id] = ops[id]
    BY <1>0, <2>1 DEF FreshOps
  <2>3. Pending' # {} /\ InFlight' # {}
    BY <2>2 DEF Pending, InFlight, FreshOps
  <2>4. new \notin pass.claimed
    BY DEF FreshOps
  <2> QED BY <1>0, <1>2, <2>2, <2>3, <2>4 DEF PlanChanges, horizon
<1>3. CASE OffPlanChanges \/ MidnightPasses \/ SetHorizon \/ TargetChanges \/ UserEdits
  BY <1>3, DriftingQueue DEF OffPlanChanges, MidnightPasses, SetHorizon, TargetChanges, UserEdits
<1>4. CASE Claim
  <2>1. PICK taken \in SUBSET Pending :
            /\ taken # {}
            /\ ops' = [id \in OpIds |-> IF id \in taken THEN [ops[id] EXCEPT !.status = "running"]
                                        ELSE ops[id]]
            /\ pass'.phase = "claimed" /\ pass'.claimed = taken /\ pass'.today = today
    BY <1>4, ClaimedPass
  <2>2. \A id \in taken : id \in OpIds /\ ops'[id].status = "running"
    BY <1>0, <2>1 DEF Pending, Row
  <2>3. InFlight' # {}
    BY <2>1, <2>2 DEF InFlight, Running
  <2>4. UNCHANGED today
    BY <1>4 DEF Claim
  <2> QED BY <2>1, <2>2, <2>3, <2>4
<1>5. CASE Read
  <2>1. /\ UNCHANGED <<plan, today, target, calendar, ops, banner, drift, abandoned>>
        /\ horizon' = horizon
    BY <1>5 DEF Read, horizon
  <2>2. pass.phase = "claimed" /\ (pass'.horizon # horizon => drift)
    BY <1>5, ReadPass DEF Read, horizon
  <2>3. Desired(plan, horizon)' = Desired(plan, horizon)
    BY <2>1 DEF Desired
  <2>4. QueueInv'
    BY <1>0, <1>5, <2>1, <2>2, <2>3, ReadPass
  <2>5. QuietIsShownOrStated'
    BY <2>1 DEF Shown, Shows, Holders, Existing, Desired, InFlight, Pending, Running
  <2> QED BY <2>4, <2>5
<1>6. CASE ListEvents \/ Send \/ SendFails
  <2>1. UNCHANGED <<plan, horizon, target, ops, banner, drift, abandoned>>
    BY <1>6 DEF ListEvents, Send, SendFails, horizon
  <2>2. pass.phase \in {"reading", "writing"}
    BY <1>6 DEF ListEvents, Send, SendFails
  <2>3. /\ pass'.claimed = pass.claimed /\ pass'.horizon = pass.horizon
        /\ pass'.intended = pass.intended /\ pass'.fresh = pass.fresh
        /\ pass'.phase \in {"writing", "stopped"}
    BY <1>6, ListedPass, SentPass
  <2>4. QueueInv'
    BY <2>1, <2>2, <2>3 DEF Desired, Pending
  <2>5. InFlight = {} => abandoned
    BY <2>2, EmptiedBehindThePass
  <2> QED BY <2>1, <2>4, <2>5 DEF InFlight, Pending, Running
<1>7. CASE CloseDone
  <2>1. pass'.phase = "idle" /\ pass'.claimed = {}
    BY <1>7, EndedPass
  <2>2. /\ pass.claimed \subseteq Running
        /\ drift' = (drift /\ ~pass.fresh)
        /\ \A id \in OpIds \ pass.claimed : ops'[id] = ops[id]
        /\ UNCHANGED <<plan, horizon, target, calendar>>
    BY <1>7 DEF CloseDone, horizon
  <2>3. Pending \subseteq Pending'
    BY <2>2 DEF Pending, Running
  <2>4. Shown' <=> Shown
    BY <2>2 DEF Shown, Shows, Holders, Existing, Desired
  <2>5. ASSUME InFlight' = {}, target = "google", ~drift' PROVE Shown
    <3>1. pass.fresh /\ pass.phase = "writing" /\ pass.todo = {}
      BY <1>7, <2>2, <2>5 DEF CloseDone, ReadyToClose, PassInv
    <3>2. Shows(pass.intended, pass.horizon)
      BY <3>1, WrittenShows
    <3>3. pass.horizon = horizon /\ pass.intended = Desired(plan, horizon)
      BY <2>3, <2>5, <3>1 DEF InFlight
    <3> QED BY <3>2, <3>3 DEF Shown
  <2>6. QuietIsShownOrStated'
    BY <2>2, <2>4, <2>5
  <2> QED BY <2>1, <2>6
<1>8. CASE CloseStopped
  <2>1. pass'.phase = "idle" /\ pass'.claimed = {}
    BY <1>8, EndedPass
  <2> QED BY <1>8, <2>1 DEF CloseStopped, horizon
<1>9. CASE CloseTakenOver \/ Crash
  <2>1. pass'.phase = "idle" /\ pass'.claimed = {}
    BY <1>9, EndedPass
  <2>2. UNCHANGED <<plan, horizon, target, calendar, ops, banner, drift, abandoned>>
    BY <1>9 DEF CloseTakenOver, Crash, horizon
  <2> QED BY <2>1, <2>2 DEF Shown, Shows, Holders, Existing, Desired, InFlight, Pending, Running
<1>10. ASSUME NEW id \in OpIds, BecomesDue(id) \/ LeaseLapses(id)
       PROVE  QueueInv' /\ QuietIsShownOrStated'
  <2>1. /\ UNCHANGED <<plan, today, horizon, target, calendar, pass, banner, drift, abandoned>>
        /\ \A other \in OpIds : ops'[other].status = ops[other].status
    BY <1>0, <1>10 DEF BecomesDue, LeaseLapses, Row, horizon
  <2>2. Pending' = Pending /\ InFlight' = InFlight
    BY <2>1 DEF InFlight, Pending, Running
  <2>3. (Shown' <=> Shown) /\ Desired(plan, horizon)' = Desired(plan, horizon)
    BY <2>1 DEF Shown, Shows, Holders, Existing, Desired
  <2> QED BY <1>0, <2>1, <2>2, <2>3
<1>11. ASSUME NEW id \in OpIds, Reap(id)
       PROVE  QueueInv' /\ QuietIsShownOrStated'
  <2>1. /\ UNCHANGED <<plan, today, horizon, target, calendar, pass, banner, drift>>
        /\ ops' = [ops EXCEPT ![id] = FailedRow(ops[id])]
        /\ abandoned' = (abandoned \/ FailedRow(ops[id]).status = "failed")
        /\ ops[id].status = "running"
    BY <1>11 DEF Reap, horizon
  <2>2. /\ \A other \in OpIds : other # id => ops'[other] = ops[other]
        /\ ops'[id].status \in {"pending", "failed"}
        /\ ops'[id].status = "failed" => abandoned'
        /\ abandoned => abandoned'
    BY <1>0, <2>1, FailedRowTyped
  <2>3. Pending \subseteq Pending'
    BY <2>1, <2>2 DEF Pending
  <2>4. InFlight' = {} => abandoned'
    BY <2>2 DEF InFlight, Pending
  <2>5. Desired(plan, horizon)' = Desired(plan, horizon)
    BY <2>1 DEF Desired
  <2>6. QueueInv'
    BY <1>0, <2>1, <2>2, <2>3, <2>5
  <2> QED BY <2>4, <2>6
<1> QED BY <1>1, <1>2, <1>3, <1>4, <1>5, <1>6, <1>7, <1>8, <1>9, <1>10, <1>11
        DEF Next, WorkerStep, Passing

-----------------------------------------------------------------------------
(* Theorems. *)

THEOREM ProjectionInvariant == Spec => []ProjectionInv
<1>1. Init => ProjectionInv
  BY TypeInit, QueueInit DEF ProjectionInv
<1>2. ProjectionInv /\ [Next]_vars => ProjectionInv'
  BY TypeStep, PassStep, WritingStep, QueueStep DEF ProjectionInv
<1> QED BY <1>1, <1>2, PTL DEF Spec

(* Every row, event, write and plan keeps its shape whatever the user, the provider and the    *)
(* reaper do to a pass, and no attempt exceeds MAX_ATTEMPTS (fail_operation, the reaper).      *)
THEOREM ProjectionTypeOK == Spec => []TypeOK
<1>1. ProjectionInv => TypeOK
  BY DEF ProjectionInv
<1> QED BY <1>1, ProjectionInvariant, PTL

(* When no PROJECTION row is pending or running, the designated calendar shows the desired     *)
(* events, or the target's last_error is set, or the reaper gave a claim up, or what is        *)
(* desired changed in a way that queues nothing (projection_pass.py, _record and _close).      *)
THEOREM ProjectionQuietIsShownOrStated == Spec => []QuietIsShownOrStated
<1>1. ProjectionInv => QuietIsShownOrStated
  BY DEF ProjectionInv
<1> QED BY <1>1, ProjectionInvariant, PTL

(* A write carried out leaves what is intended and shown in place: an insert adds, a patch     *)
(* moves an event to where it is intended, and when only deletes are left the event kept is    *)
(* none of those deleted.                                                                      *)
LEMMA NoGapOpened ==
    ASSUME TypeOK, PassInv, WritingInv, pass.phase = "writing", pass.fresh,
           NEW write \in Sendable, Applied(write),
           NEW i \in pass.intended, Held(i)
    PROVE  Held(i)'
<1>0. /\ write \in pass.todo /\ write \in PlannedWrites
      /\ write.do = "delete" => \A other \in pass.todo : other.do = "delete"
  BY DEF Sendable, PassInv
<1>1. PICK e \in EventIds : calendar[e] = [key |-> i[1], at |-> i[2]]
  BY DEF Held
<1>2. calendar[e] # NULL
  <2>1. [key |-> i[1], at |-> i[2]] \in Event
    BY DEF TypeOK, Pass, Intent, Event
  <2> QED BY <1>1, <2>1, NullIsNoEvent
<1>3. CASE \E j \in pass.intended, f \in EventIds : write = Insert(j[1], j[2]) /\ Made(f, j)
  <2>1. calendar'[e] = calendar[e]
    BY <1>2, <1>3 DEF Made, TypeOK
  <2> QED BY <1>1, <2>1 DEF Held
<1>4. CASE \E j \in pass.intended, f \in EventIds : write = Patch(f, j[1], j[2]) /\ Changed(f, j)
  <2>1. PICK j \in pass.intended, f \in EventIds : write = Patch(f, j[1], j[2]) /\ Changed(f, j)
    BY <1>4
  <2>2. calendar[f].key = j[1]
    BY <1>0, <2>1 DEF WritingInv, Settles, Holders
  <2>3. f = e => j = i
    BY <1>1, <2>2 DEF PassInv
  <2>4. calendar'[f] = [key |-> j[1], at |-> j[2]] /\ (f # e => calendar'[e] = calendar[e])
    BY <2>1 DEF Changed, TypeOK
  <2>5. calendar'[e] = [key |-> i[1], at |-> i[2]]
    BY <1>1, <2>3, <2>4
  <2> QED BY <2>5 DEF Held
<1>5. CASE \E f \in EventIds : write = Delete(f) /\ TakenAway(f)
  <2>1. PICK f \in EventIds : write = Delete(f) /\ TakenAway(f)
    BY <1>5
  <2>2. \A k, d, x : Patch(x, k, d) \notin pass.todo /\ Insert(k, d) \notin pass.todo
    BY <1>0, <2>1 DEF Patch, Insert, Delete
  <2>3. PICK x \in EventIds : Settles(x, i)
    BY <2>2 DEF WritingInv, ToInsert
  <2>4. x # f /\ calendar[x].at = i[2] /\ calendar[x].key = i[1] /\ calendar[x] # NULL
    BY <1>0, <2>1, <2>2, <2>3 DEF Settles, Holders, Existing
  <2>5. calendar[x] = [key |-> i[1], at |-> i[2]]
    BY <2>4, EventIsItsFields
  <2>6. calendar'[x] = calendar[x]
    BY <2>1, <2>4 DEF TakenAway, TypeOK
  <2> QED BY <2>5, <2>6 DEF Held
<1> QED BY <1>0, <1>3, <1>4, <1>5, AppliedKinds

(* The writer patches, then inserts, then deletes, one call after the other                    *)
(* (calendar_writer.py, write_changes): at no moment of a pass is an event that the plan wants *)
(* and the phone shows missing or elsewhere.                                                   *)
THEOREM ProjectionNoWriteOpensAGap == Spec => NoWriteOpensAGap
<1> DEFINE A == pass.phase = "writing" /\ pass.fresh /\ pass'.fresh
                    => \A i \in pass.intended : Held(i) => Held(i)'
<1>1. ProjectionInv /\ [Next]_vars => A
  <2> SUFFICES ASSUME ProjectionInv, [Next]_vars, pass.phase = "writing", pass.fresh, pass'.fresh,
                      NEW i \in pass.intended, Held(i)
               PROVE  Held(i)'
    OBVIOUS
  <2> USE DEF ProjectionInv
  <2>1. CASE UNCHANGED calendar
    BY <2>1 DEF Held
  <2>2. CASE \E write \in Sendable : Applied(write)
    BY <2>2, NoGapOpened
  <2>3. \/ UNCHANGED calendar
        \/ \E write \in Sendable : Applied(write)
        \/ Drifting
    BY DEF Next, vars, WorkerStep, Passing, PlanChanges, OffPlanChanges, MidnightPasses, SetHorizon, TargetChanges,
           UserEdits, Claim, Read, ListEvents, Send, SendFails, CloseDone, CloseStopped,
           CloseTakenOver, Crash, BecomesDue, LeaseLapses, Reap
  <2> QED BY <2>1, <2>2, <2>3, DriftingPass
<1> QED BY <1>1, ProjectionInvariant, PTL DEF Spec, NoWriteOpensAGap

(* A pass over a calendar that shows the plan finds every event identical and no foreign one   *)
(* (reconciliation.py, plan_reconciliation): it sends no write, so a retried or raced pass     *)
(* undoes nothing and doubles nothing.                                                         *)
THEOREM ProjectionRightIsLeftAlone == Spec => RightIsLeftAlone
<1> DEFINE A == pass.phase = "reading" /\ pass'.phase = "writing"
                    /\ Shows(pass.intended, pass.horizon) => pass'.todo = {}
<1>1. ProjectionInv /\ [Next]_vars => A
  <2> SUFFICES ASSUME ProjectionInv, [Next]_vars, pass.phase = "reading", pass'.phase = "writing",
                      Shows(pass.intended, pass.horizon)
               PROVE  pass'.todo = {}
    OBVIOUS
  <2> USE DEF ProjectionInv
  <2>1. CASE ListEvents
    BY <2>1, ListedPass, NothingToWrite
  <2>2. CASE \/ UNCHANGED vars \/ PlanChanges \/ \E id \in OpIds : Passing(id)
    BY <2>2, PassKept
  <2>3. CASE OffPlanChanges \/ MidnightPasses \/ SetHorizon \/ TargetChanges \/ UserEdits
    BY <2>3, DriftingPass DEF OffPlanChanges, MidnightPasses, SetHorizon, TargetChanges, UserEdits
  <2>4. CASE Claim \/ Read \/ Send
    BY <2>4 DEF Claim, Read, Send
  <2>5. CASE SendFails
    BY <2>5, SentPass DEF Send
  <2>6. CASE CloseDone \/ CloseStopped \/ CloseTakenOver \/ Crash
    BY <2>6, EndedPass
  <2> QED BY <2>1, <2>2, <2>3, <2>4, <2>5, <2>6 DEF Next, WorkerStep
<1> QED BY <1>1, ProjectionInvariant, PTL DEF Spec, RightIsLeftAlone

(* A claim is finished as succeeded only by the transaction that closes a pass whose writes     *)
(* were all answered (projection_pass.py, _close): unless the world moved under it, the        *)
(* calendar then holds each intended event once and nothing else.                              *)
THEOREM ProjectionSucceededShowsWhatItRead == Spec => SucceededShowsWhatItRead
<1> DEFINE A == \A id \in OpIds :
                    ops[id].status = "running" /\ ops'[id].status = "succeeded" /\ pass.fresh
                        => Shows(pass.intended, pass.horizon)
<1>1. ProjectionInv /\ [Next]_vars => A
  <2> SUFFICES ASSUME ProjectionInv, [Next]_vars, NEW id \in OpIds,
                      ops[id].status = "running", ops'[id].status = "succeeded", pass.fresh
               PROVE  Shows(pass.intended, pass.horizon)
    OBVIOUS
  <2>0. ops \in [OpIds -> Row]
    BY DEF ProjectionInv, TypeOK
  <2>1. CASE CloseDone
    <3>1. pass.phase = "writing" /\ pass.todo = {}
      BY <2>1 DEF CloseDone, ReadyToClose, ProjectionInv, PassInv
    <3> QED BY <3>1, WrittenShows DEF ProjectionInv
  <2>2. CASE UNCHANGED ops
    BY <2>2
  <2>3. CASE PlanChanges
    BY <2>0, <2>3 DEF PlanChanges, FreshOps
  <2>4. CASE Claim
    <3>1. PICK taken \in SUBSET Pending :
              ops' = [x \in OpIds |-> IF x \in taken THEN [ops[x] EXCEPT !.status = "running"]
                                      ELSE ops[x]]
      BY <2>4, ClaimedPass
    <3> QED BY <2>0, <3>1 DEF Row
  <2>5. CASE CloseStopped
    <3>1. ops'[id] \in {FailedRow(ops[id]), ops[id]}
      BY <2>5 DEF CloseStopped
    <3>2. FailedRow(ops[id]).status \in {"pending", "failed"}
      BY <2>0, FailedRowTyped
    <3> QED BY <3>1, <3>2
  <2>6. CASE \E x \in OpIds : Passing(x)
    <3>1. PICK x \in OpIds : Passing(x)
      BY <2>6
    <3>2. CASE BecomesDue(x) \/ LeaseLapses(x)
      BY <2>0, <3>2 DEF BecomesDue, LeaseLapses, Row
    <3>3. CASE Reap(x)
      BY <2>0, <3>3, FailedRowTyped DEF Reap
    <3> QED BY <3>1, <3>2, <3>3 DEF Passing
  <2>7. CASE \/ UNCHANGED vars \/ OffPlanChanges \/ MidnightPasses \/ SetHorizon \/ TargetChanges
             \/ UserEdits \/ Read
             \/ ListEvents \/ Send \/ SendFails \/ CloseTakenOver \/ Crash
    <3>1. UNCHANGED ops
      BY <2>7 DEF vars, OffPlanChanges, MidnightPasses, SetHorizon, TargetChanges, UserEdits, Drifting, Read,
                  ListEvents, Send, SendFails, CloseTakenOver, Crash
    <3> QED BY <2>2, <3>1
  <2> QED BY <2>1, <2>3, <2>4, <2>5, <2>6, <2>7 DEF Next, WorkerStep
<1> QED BY <1>1, ProjectionInvariant, PTL DEF Spec, SucceededShowsWhatItRead

=============================================================================
