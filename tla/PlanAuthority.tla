---------------------------- MODULE PlanAuthority ----------------------------
(***************************************************************************)
(* The authority rule over one week's plan of record: what a solve's       *)
(* answer may change on its own, what waits in the pending slot for the    *)
(* user, and what an approval may write by the time it is given.           *)
(*                                                                         *)
(* A document says where each block is.  A solve is two steps: the load,   *)
(* which fixes the instant everything is compared against, and the write,  *)
(* which happens later and only if the week's input version did not move   *)
(* (SolvePipeline models how that is enforced; here a mismatch is a flag). *)
(* The solver's answer is any document whose placed blocks do not overlap: *)
(* these guards trust nothing the search promises.                         *)
(*                                                                         *)
(* Simplified: one week; the conflicts a write raises, the concession an   *)
(* approval persists and the projection each write enqueues are read by no *)
(* action here; a block is only where it is.                               *)
(***************************************************************************)
EXTENDS Naturals

CONSTANTS
    Placed,    \* blocks the solve places: habits, tasks
    Fixed,     \* blocks their source places: the frame, commitments, buffers
    Spans,     \* the intervals a block can take, as pairs <<start, end>>
    LastInstant, \* bound on time
    NULL

Blocks == Placed \cup Fixed

VARIABLES
    now,    \* the instant
    live,   \* the plan of record's document, or NULL for a week without one
    slot,   \* the pending proposal, or NULL
    solve,  \* the solve in progress, or NULL
    against \* history: the instant the newest write to the plan was compared at

vars == <<now, live, slot, solve, against>>

-----------------------------------------------------------------------------
(* Intervals and documents. *)

HasStarted(span, at) == span[1] <= at
HasElapsed(span, at) == span[1] < at
Overlaps(one, other) == one[1] < other[2] /\ other[1] < one[2]

Held(document) == {b \in Blocks : document[b] # NULL}

Documents ==
    {d \in [Blocks -> Spans \cup {NULL}] :
        \A b, c \in Placed : b # c /\ d[b] # NULL /\ d[c] # NULL => ~Overlaps(d[b], d[c])}

Proposals == [document: Documents, shown: SUBSET (Blocks \X (Spans \cup {NULL})),
              compared: BOOLEAN]
Solves == [at: 0..LastInstant, current: BOOLEAN]

ASSUME SpansAssumption ==
    /\ Spans \subseteq Nat \X Nat
    /\ \A span \in Spans : span[1] < span[2]
ASSUME BlocksAssumption == Placed \cap Fixed = {}
ASSUME InstantsAssumption == LastInstant \in Nat
ASSUME NullAssumption ==
    NULL \notin Spans /\ NULL \notin Documents /\ NULL \notin Proposals /\ NULL \notin Solves

(* A week without a plan holds nothing to displace, to drop or to move. *)
Plan == IF live = NULL THEN [b \in Blocks |-> NULL] ELSE live

-----------------------------------------------------------------------------
(* settled.py: the past the two documents must state alike. *)

Settled(document, at) == {b \in Placed \cap Held(document) : HasStarted(document[b], at)}

RestatesOnlyADrop(plan, document, at) ==   \* a mutation: one direction of the comparison
    Settled(plan, at) \ Settled(document, at) # {}
RestatesThePast(plan, document, at) ==
    LET lived == Settled(plan, at)
        stated == Settled(document, at)
    IN  \/ lived \ stated # {}
        \/ \E b \in stated \ lived : HasElapsed(document[b], at)
        \/ \E b \in lived \cap stated : plan[b] # document[b]

-----------------------------------------------------------------------------
(* authority.py: the classes of a difference. *)

Arriving(plan, document, at) ==
    {b \in Held(document) \ Held(plan) : ~HasStarted(document[b], at)}

DisplacingEachOther(plan, document, at) ==   \* a mutation: the occupied space is the candidate's
    {b \in Arriving(plan, document, at) :
        \E c \in Held(document) \ {b} : Overlaps(document[b], document[c])}
Displacing(plan, document, at) ==
    {b \in Arriving(plan, document, at) : \E c \in Held(plan) : Overlaps(document[b], plan[c])}

Fills(plan, document, at) == Arriving(plan, document, at) \ Displacing(plan, document, at)

Dropped(plan, document, at) ==
    {b \in Held(plan) \ Held(document) : ~HasStarted(plan[b], at)}

Relocated(plan, document, at) ==
    {b \in Held(plan) \cap Held(document) :
        /\ plan[b] # document[b]
        /\ ~HasStarted(plan[b], at)
        /\ ~HasStarted(document[b], at)}

(* The changes a diff names: the block, and where the document puts it (NULL where it *)
(* holds no such block).                                                              *)
ChangesAsRemovals(blocks, document) == {<<b, NULL>> : b \in blocks}   \* a mutation
Changes(blocks, document) == {<<b, document[b]>> : b \in blocks}

ProposalDiffWithoutDrops(plan, document, at) ==   \* a mutation
    Changes(Displacing(plan, document, at) \cup Relocated(plan, document, at), document)
ProposalDiff(plan, document, at) ==
    Changes(Displacing(plan, document, at) \cup Dropped(plan, document, at)
                \cup Relocated(plan, document, at), document)

AppliesImmediately(plan, document, at) ==
    Fills(plan, document, at) # {} /\ ProposalDiff(plan, document, at) = {}

(* assent.py: what the document would move or drop that the user was not shown. *)
Unassented(plan, document, shown, at) ==
    Changes(Dropped(plan, document, at) \cup Relocated(plan, document, at), document) \ shown

-----------------------------------------------------------------------------
Init ==
    /\ now = 0
    /\ live = NULL
    /\ slot = NULL
    /\ solve = NULL
    /\ against = 0

Tick ==
    /\ now < LastInstant
    /\ now' = now + 1
    /\ UNCHANGED <<live, slot, solve, against>>

(* The version a solve loaded is no longer the week's. *)
Bumped == IF solve = NULL THEN NULL ELSE [solve EXCEPT !.current = FALSE]

(* Any mutation of the week's inputs: a pin, a task, a routine, a calendar sync. *)
Edit ==
    /\ solve # NULL /\ solve.current
    /\ solve' = Bumped
    /\ UNCHANGED <<now, live, slot, against>>

Load ==
    /\ solve = NULL
    /\ solve' = [at |-> now, current |-> TRUE]
    /\ UNCHANGED <<now, live, slot, against>>

(* ClassificationRejected: the operation fails and nothing is written. *)
Refuse(candidate) ==
    /\ solve # NULL /\ solve.current
    /\ live # NULL /\ RestatesThePast(live, candidate, solve.at)
    /\ solve' = NULL
    /\ UNCHANGED <<now, live, slot, against>>

(* The guard does not match: superseded, and nothing is written. *)
Supersede ==
    /\ solve # NULL /\ ~solve.current
    /\ solve' = NULL
    /\ UNCHANGED <<now, live, slot, against>>

(* The guard matches, so the plan of record is still the one that was classified. *)
Writing(candidate) ==
    /\ solve # NULL /\ solve.current
    /\ live # NULL => ~RestatesThePast(live, candidate, solve.at)
    /\ solve' = NULL
    /\ UNCHANGED now

(* What the live plan does to a slot filled before: nothing but make it older. *)
PlanMovedUnder == IF slot = NULL THEN NULL ELSE [slot EXCEPT !.compared = FALSE]

AppendFills(candidate) ==
    /\ Writing(candidate)
    /\ AppliesImmediately(Plan, candidate, solve.at)
    /\ live' = candidate
    /\ slot' = PlanMovedUnder
    /\ against' = solve.at

ReplaceProposal(candidate) ==
    /\ Writing(candidate)
    /\ ProposalDiff(Plan, candidate, solve.at) # {}
    /\ slot' = [document |-> candidate, shown |-> ProposalDiff(Plan, candidate, solve.at),
                compared |-> TRUE]
    /\ UNCHANGED <<live, against>>

ChangeNothing(candidate) ==
    /\ Writing(candidate)
    /\ ~AppliesImmediately(Plan, candidate, solve.at)
    /\ ProposalDiff(Plan, candidate, solve.at) = {}
    /\ UNCHANGED <<live, slot, against>>

(* _require_only_the_changes_the_user_was_shown, compared at the approval's own instant. *)
ApprovableUnlessItRestates(proposal, at) ==   \* a mutation: no second comparison of the plan
    live # NULL => ~RestatesThePast(live, proposal.document, at)
Approvable(proposal, at) ==
    live # NULL =>
        /\ ~RestatesThePast(live, proposal.document, at)
        /\ Unassented(Plan, proposal.document, proposal.shown, at) = {}

(* approve() reads the clock and then waits for the version row: by the time it has it, *)
(* the instant may be any earlier one, older even than the proposal it finds.           *)
Approve(at) ==
    /\ slot # NULL
    /\ Approvable(slot, at)
    /\ live' = slot.document
    /\ slot' = NULL
    /\ solve' = Bumped
    /\ against' = at
    /\ UNCHANGED now

(* The week producer: a week without a plan gets what its sources fix, and no more. *)
Materialize(document) ==
    /\ live = NULL
    /\ Held(document) \subseteq Fixed
    /\ live' = document
    /\ solve' = Bumped
    /\ UNCHANGED <<now, slot, against>>

Next ==
    \/ Tick
    \/ Edit
    \/ Load
    \/ Supersede
    \/ \E at \in 0..now : Approve(at)
    \/ \E document \in Documents :
        \/ Refuse(document)
        \/ AppendFills(document)
        \/ ReplaceProposal(document)
        \/ ChangeNothing(document)
        \/ Materialize(document)

Spec == Init /\ [][Next]_vars

-----------------------------------------------------------------------------
(* Properties. *)

(* Types; and a stored diff asks for something, names a block once, and puts each where *)
(* the document beside it does (ProposalDiff and adoption.py refuse to build another).  *)
TypeOK ==
    /\ now \in 0..LastInstant
    /\ live \in Documents \cup {NULL}
    /\ slot # NULL =>
        /\ slot \in Proposals
        /\ slot.shown # {}
        /\ \A change \in slot.shown : slot.document[change[1]] = change[2]
    /\ solve # NULL => solve \in Solves /\ solve.at <= now
    /\ against \in 0..now

(* A week that holds a proposal has a plan of record (approvals/service.py:34-37: what     *)
(* excuses the week producer, which appends a first plan, from taking the version lock).  *)
AProposalHasAPlanUnderIt == slot # NULL => live # NULL

(* A proposal whose plan of record has not moved is never refused for a change it did not *)
(* show, however late the approval that finds it is asked for: time only takes changes    *)
(* out of a difference.  (One asked for before the solve was loaded may be refused.)      *)
AssentOutlivesTheWait ==
    slot # NULL /\ live # NULL /\ slot.compared =>
        \A later \in now..LastInstant :
            Unassented(live, slot.document, slot.shown, later) = {}

(* An approval's step, and the instant a write's comparison is made at. *)
Approving == slot # NULL /\ slot' = NULL
ComparedAt == against'

(* The plan of record loses or moves a block only by an approval whose diff showed exactly *)
(* that; but for blocks their source moved once the week had reached them, and, a hole, a  *)
(* block moved to begin at the very instant of the comparison (see MovesNeedAssent).       *)
NothingMovesUnasked ==
    [][live # NULL /\ live' # live =>
        \A b \in Held(live) : live'[b] # live[b] =>
            \/ Approving /\ <<b, live'[b]>> \in slot.shown
            \/ b \in Fixed /\ HasStarted(live[b], ComparedAt)
            \/ b \in Fixed /\ live'[b] # NULL /\ HasStarted(live'[b], ComparedAt)
            \/ live'[b] # NULL /\ live'[b][1] = ComparedAt]_vars

(* No write changes what the week has lived of the blocks the solve placed: one that had   *)
(* started stays where it was, and none is put into time already spent (settled.py).       *)
TheLivedWeekStands ==
    [][live # NULL /\ live' # live =>
        \A b \in Placed :
            /\ live[b] # NULL /\ HasStarted(live[b], ComparedAt) => live'[b] = live[b]
            /\ live'[b] # NULL /\ HasElapsed(live'[b], ComparedAt) => live'[b] = live[b]]_vars

(* A block the solve places is never moved without assent (authority.py:200-204: "a move   *)
(* always needs assent ... a candidate that would move a block into the past is refused"). *)
(* It does not hold: moved to begin exactly now, it is in no class and is not refused.     *)
MovesNeedAssent ==
    [][live # NULL /\ live' # live =>
        \A b \in Placed \cap Held(live) : live'[b] # live[b] =>
            Approving /\ <<b, live'[b]>> \in slot.shown]_vars

=============================================================================
