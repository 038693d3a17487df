------------------------- MODULE PlanAuthorityProofs -------------------------
(***************************************************************************)
(* What the authority rule guarantees of every document, whatever the      *)
(* blocks, the spans and the instants are.  The rule is a comparison of    *)
(* two documents, so the proofs are lemmas about the comparison, and an    *)
(* invariant that carries its result from the solve to the approval.       *)
(***************************************************************************)
EXTENDS PlanAuthority, TLAPS

(* The plan of record, or the plan that holds nothing, is a document's worth of blocks. *)
LEMMA PlanHolds ==
    ASSUME live \in Documents \cup {NULL}
    PROVE  /\ live = NULL => Held(Plan) = {}
           /\ live # NULL => Plan = live /\ Plan \in Documents
BY DEF Plan, Held

(* A diff that asks for nothing drops, moves and displaces nothing. *)
LEMMA NothingAsked ==
    ASSUME NEW plan, NEW document, NEW at, ProposalDiff(plan, document, at) = {}
    PROVE  /\ Displacing(plan, document, at) = {}
           /\ Dropped(plan, document, at) = {}
           /\ Relocated(plan, document, at) = {}
<1> DEFINE named == Displacing(plan, document, at) \cup Dropped(plan, document, at)
                        \cup Relocated(plan, document, at)
<1>1. \A b \in named : <<b, document[b]>> \in ProposalDiff(plan, document, at)
    BY DEF ProposalDiff, Changes
<1>2. named = {}
    BY <1>1
<1> QED BY <1>2

(* A week without a plan proposes nothing: everything it is given is a fill. *)
LEMMA FirstPlanIsAllFills ==
    ASSUME NEW plan, NEW document, NEW at, Held(plan) = {}
    PROVE  ProposalDiff(plan, document, at) = {}
BY DEF ProposalDiff, Changes, Displacing, Dropped, Relocated

(* Of two documents that state the past alike, a block they place apart is in a class, *)
(* or its source moved it once it was reached, or it is moved to begin at the instant.  *)
LEMMA ChangesAreClassified ==
    ASSUME NEW plan \in Documents, NEW document \in Documents, NEW at \in Nat,
           ~RestatesThePast(plan, document, at),
           NEW b \in Held(plan), document[b] # plan[b]
    PROVE  \/ b \in Dropped(plan, document, at) \cup Relocated(plan, document, at)
           \/ b \in Fixed /\ HasStarted(plan[b], at)
           \/ b \in Fixed /\ document[b] # NULL /\ HasStarted(document[b], at)
           \/ document[b] # NULL /\ document[b][1] = at
<1>1. b \in Blocks /\ plan[b] # NULL
    BY DEF Held
<1>2. CASE document[b] = NULL
    <2>1. CASE ~HasStarted(plan[b], at)
        BY <1>1, <1>2, <2>1 DEF Dropped, Held
    <2>2. CASE HasStarted(plan[b], at)
        <3>1. b \notin Placed
            BY <1>1, <1>2, <2>2 DEF RestatesThePast, Settled, Held
        <3> QED BY <1>1, <2>2, <3>1 DEF Blocks
    <2> QED BY <2>1, <2>2
<1>3. CASE document[b] # NULL
    <2>1. CASE ~HasStarted(plan[b], at) /\ ~HasStarted(document[b], at)
        BY <1>1, <1>3, <2>1 DEF Relocated, Held
    <2>2. CASE b \in Fixed /\ (HasStarted(plan[b], at) \/ HasStarted(document[b], at))
        BY <1>3, <2>2
    <2>3. CASE b \in Placed /\ HasStarted(plan[b], at)
        <3>1. b \in Settled(plan, at)
            BY <2>3 DEF Settled
        <3>2. b \in Settled(document, at) /\ document[b] = plan[b]
            BY <3>1 DEF RestatesThePast
        <3> QED BY <3>2
    <2>4. CASE b \in Placed /\ ~HasStarted(plan[b], at) /\ HasStarted(document[b], at)
        <3>1. b \in Settled(document, at) \ Settled(plan, at)
            BY <1>1, <1>3, <2>4 DEF Settled, Held
        <3>2. ~HasElapsed(document[b], at)
            BY <3>1 DEF RestatesThePast
        <3>3. document[b] \in Nat \X Nat
            BY <1>1, <1>3, SpansAssumption DEF Documents
        <3> QED BY <1>3, <2>4, <3>2, <3>3 DEF HasStarted, HasElapsed
    <2> QED BY <1>1, <2>1, <2>2, <2>3, <2>4 DEF Blocks
<1> QED BY <1>2, <1>3

(* Of two documents that state the past alike, what the first has lived stands. *)
LEMMA LivedBlocksStand ==
    ASSUME NEW plan \in Documents, NEW document \in Documents, NEW at \in Nat,
           ~RestatesThePast(plan, document, at), NEW b \in Placed
    PROVE  /\ plan[b] # NULL /\ HasStarted(plan[b], at) => document[b] = plan[b]
           /\ document[b] # NULL /\ HasElapsed(document[b], at) => document[b] = plan[b]
<1> b \in Blocks
    BY DEF Blocks
<1>1. ASSUME plan[b] # NULL, HasStarted(plan[b], at)
      PROVE  document[b] = plan[b]
    <2>1. b \in Settled(plan, at)
        BY <1>1 DEF Settled, Held
    <2> QED BY <2>1 DEF RestatesThePast
<1>2. ASSUME document[b] # NULL, HasElapsed(document[b], at)
      PROVE  document[b] = plan[b]
    <2>1. document[b] \in Nat \X Nat
        BY <1>2, SpansAssumption DEF Documents
    <2>2. HasStarted(document[b], at)
        BY <1>2, <2>1 DEF HasStarted, HasElapsed
    <2>3. b \in Settled(document, at)
        BY <1>2, <2>2 DEF Settled, Held
    <2>4. b \in Settled(plan, at)
        BY <1>2, <2>3 DEF RestatesThePast
    <2> QED BY <2>3, <2>4 DEF RestatesThePast
<1> QED BY <1>1, <1>2

(* Time only takes changes out of what would need assent. *)
LEMMA TimeOnlySettles ==
    ASSUME NEW plan \in Documents, NEW document \in Documents,
           NEW at \in Nat, NEW later \in Nat, at <= later
    PROVE  Unassented(plan, document, ProposalDiff(plan, document, at), later) = {}
<1>1. ASSUME NEW span \in Spans, ~HasStarted(span, later)
      PROVE  ~HasStarted(span, at)
    BY <1>1, SpansAssumption DEF HasStarted
<1>2. Dropped(plan, document, later) \subseteq Dropped(plan, document, at)
    BY <1>1 DEF Dropped, Held, Documents
<1>3. Relocated(plan, document, later) \subseteq Relocated(plan, document, at)
    BY <1>1 DEF Relocated, Held, Documents
<1> QED BY <1>2, <1>3 DEF Unassented, ProposalDiff, Changes

-----------------------------------------------------------------------------
(* Types. *)

LEMMA BumpedKeepsTypes ==
    ASSUME solve # NULL => solve \in Solves /\ solve.at <= now
    PROVE  Bumped # NULL => Bumped \in Solves /\ Bumped.at <= now
BY DEF Bumped, Solves

LEMMA ProposalTypes ==
    ASSUME live \in Documents \cup {NULL}, NEW document \in Documents, NEW at
    PROVE  /\ ProposalDiff(Plan, document, at) \subseteq Blocks \X (Spans \cup {NULL})
           /\ \A change \in ProposalDiff(Plan, document, at) :
                document[change[1]] = change[2]
<1>1. Displacing(Plan, document, at) \cup Dropped(Plan, document, at)
        \cup Relocated(Plan, document, at) \subseteq Blocks
    BY DEF Displacing, Arriving, Dropped, Relocated, Held
<1>2. \A b \in Blocks : document[b] \in Spans \cup {NULL}
    BY DEF Documents
<1> QED BY <1>1, <1>2 DEF ProposalDiff, Changes

LEMMA TypeStep == TypeOK /\ [Next]_vars => TypeOK'
<1> SUFFICES ASSUME TypeOK, [Next]_vars PROVE TypeOK'
    OBVIOUS
<1> USE DEF TypeOK
<1>1. CASE Tick
    BY <1>1, InstantsAssumption DEF Tick, Solves
<1>2. CASE Edit
    BY <1>2, BumpedKeepsTypes DEF Edit
<1>3. CASE Load
    BY <1>3 DEF Load, Solves
<1>4. CASE Supersede
    BY <1>4 DEF Supersede
<1>5. ASSUME NEW at \in 0..now, Approve(at) PROVE TypeOK'
    <2>1. live' \in Documents
        BY <1>5 DEF Approve, Proposals
    <2> QED BY <1>5, <2>1, BumpedKeepsTypes DEF Approve
<1>6. ASSUME NEW document \in Documents, Refuse(document) PROVE TypeOK'
    BY <1>6 DEF Refuse
<1>7. ASSUME NEW document \in Documents, AppendFills(document) PROVE TypeOK'
    <2>1. slot # NULL => /\ slot' \in Proposals
                         /\ slot'.shown = slot.shown /\ slot'.document = slot.document
        BY <1>7 DEF AppendFills, PlanMovedUnder, Proposals
    <2>2. slot = NULL => slot' = NULL
        BY <1>7 DEF AppendFills, PlanMovedUnder
    <2>3. against' \in 0..now
        BY <1>7, InstantsAssumption DEF AppendFills, Writing, Solves
    <2> QED BY <1>7, <2>1, <2>2, <2>3 DEF AppendFills, Writing
<1>8. ASSUME NEW document \in Documents, ReplaceProposal(document) PROVE TypeOK'
    <2>1. slot' \in Proposals /\ slot'.shown # {}
        BY <1>8, ProposalTypes DEF ReplaceProposal, Proposals
    <2>2. \A change \in slot'.shown : slot'.document[change[1]] = change[2]
        BY <1>8, ProposalTypes DEF ReplaceProposal
    <2> QED BY <1>8, <2>1, <2>2 DEF ReplaceProposal, Writing
<1>9. ASSUME NEW document \in Documents, ChangeNothing(document) PROVE TypeOK'
    BY <1>9 DEF ChangeNothing, Writing
<1>10. ASSUME NEW document \in Documents, Materialize(document) PROVE TypeOK'
    BY <1>10, BumpedKeepsTypes DEF Materialize
<1>11. CASE UNCHANGED vars
    BY <1>11 DEF vars
<1> QED BY <1>1, <1>2, <1>3, <1>4, <1>5, <1>6, <1>7, <1>8, <1>9, <1>10, <1>11 DEF Next

(* Every reachable state has the types of the tables, and the slot's diff agrees with  *)
(* the document beside it.                                                              *)
THEOREM AuthorityTypeOK == Spec => []TypeOK
<1>1. Init => TypeOK
    BY InstantsAssumption DEF Init, TypeOK
<1> QED BY <1>1, TypeStep, PTL DEF Spec

-----------------------------------------------------------------------------
(* The slot.  A proposal is always of a week that has a plan, and while that plan is   *)
(* the one it was compared with, nothing it would do is missing from what it showed.    *)

SlotInv ==
    slot # NULL =>
        /\ live # NULL
        /\ slot.compared =>
            \A later \in Nat : now <= later =>
                Unassented(live, slot.document, slot.shown, later) = {}

LEMMA SlotStep == TypeOK /\ SlotInv /\ [Next]_vars => SlotInv'
<1> SUFFICES ASSUME TypeOK, SlotInv, [Next]_vars PROVE SlotInv'
    OBVIOUS
<1>0. now \in Nat /\ now <= LastInstant
    BY InstantsAssumption DEF TypeOK
<1>1. CASE Tick
    <2>1. \A later \in Nat : now' <= later => now <= later
        BY <1>0, <1>1 DEF Tick
    <2> QED BY <1>1, <2>1 DEF Tick, SlotInv
<1>2. CASE UNCHANGED <<now, live, slot>>
    BY <1>2 DEF SlotInv
<1>3. ASSUME NEW at \in 0..now, Approve(at) PROVE SlotInv'
    BY <1>3 DEF Approve, SlotInv
<1>4. ASSUME NEW document \in Documents, AppendFills(document) PROVE SlotInv'
    <2>1. live' # NULL
        BY <1>4, NullAssumption DEF AppendFills
    <2>2. slot # NULL => ~slot'.compared
        BY <1>4 DEF AppendFills, PlanMovedUnder, TypeOK, Proposals
    <2>3. slot = NULL => slot' = NULL
        BY <1>4 DEF AppendFills, PlanMovedUnder
    <2> QED BY <2>1, <2>2, <2>3 DEF SlotInv
<1>5. ASSUME NEW document \in Documents, ReplaceProposal(document) PROVE SlotInv'
    <2>1. ProposalDiff(Plan, document, solve.at) # {}
        BY <1>5 DEF ReplaceProposal
    <2>2. live # NULL /\ Plan = live /\ Plan \in Documents
        BY <2>1, PlanHolds, FirstPlanIsAllFills DEF TypeOK
    <2>3. solve.at \in Nat /\ solve.at <= now
        BY <1>5, InstantsAssumption DEF ReplaceProposal, Writing, TypeOK, Solves
    <2>4. ASSUME NEW later \in Nat, now <= later
          PROVE  Unassented(live, document, ProposalDiff(Plan, document, solve.at), later) = {}
        <3>1. solve.at <= later
            BY <1>0, <2>3, <2>4
        <3> QED BY <2>2, <2>3, <3>1, TimeOnlySettles
    <2>5. /\ live' = live /\ now' = now
          /\ slot'.document = document
          /\ slot'.shown = ProposalDiff(Plan, document, solve.at)
        BY <1>5 DEF ReplaceProposal, Writing
    <2> QED BY <2>2, <2>4, <2>5 DEF SlotInv
<1>6. ASSUME NEW document \in Documents, Materialize(document) PROVE SlotInv'
    BY <1>6 DEF Materialize, SlotInv
<1>7. [Next]_vars => \/ Tick \/ UNCHANGED <<now, live, slot>>
                     \/ \E at \in 0..now : Approve(at)
                     \/ \E document \in Documents :
                          \/ AppendFills(document) \/ ReplaceProposal(document)
                          \/ Materialize(document)
    BY DEF Next, vars, Edit, Load, Supersede, Refuse, ChangeNothing, Writing
<1> QED BY <1>1, <1>2, <1>3, <1>4, <1>5, <1>6, <1>7

LEMMA SlotAlways == Spec => []SlotInv
<1>1. Init => SlotInv
    BY DEF Init, SlotInv
<1> QED BY <1>1, SlotStep, AuthorityTypeOK, PTL DEF Spec

(* Whatever the solver answers and whenever: a week that holds a proposal has a plan of *)
(* record, which is what lets the week producer append without the version lock.        *)
THEOREM AuthorityProposalHasAPlan == Spec => []AProposalHasAPlanUnderIt
<1>1. SlotInv => AProposalHasAPlanUnderIt
    BY DEF SlotInv, AProposalHasAPlanUnderIt
<1> QED BY <1>1, SlotAlways, PTL

(* However long a proposal waits, waiting alone never makes it one that changes more    *)
(* than it showed.                                                                       *)
THEOREM AuthorityAssentOutlivesTheWait == Spec => []AssentOutlivesTheWait
<1>1. TypeOK /\ SlotInv => AssentOutlivesTheWait
    BY InstantsAssumption DEF TypeOK, SlotInv, AssentOutlivesTheWait
<1> QED BY <1>1, SlotAlways, AuthorityTypeOK, PTL

-----------------------------------------------------------------------------
(* What a step may do to the plan of record. *)

(* A step that replaces a plan of record is the fills' or the approval's. *)
LEMMA WhoReplacesThePlan ==
    ASSUME TypeOK, [Next]_vars, live # NULL, live' # live
    PROVE  \/ /\ Approving /\ slot \in Proposals
              /\ live' = slot.document /\ Approvable(slot, ComparedAt)
           \/ \E document \in Documents : AppendFills(document) /\ ~Approving
<1>1. \/ \E at \in 0..now : Approve(at)
      \/ \E document \in Documents : AppendFills(document)
    BY DEF Next, vars, Tick, Edit, Load, Supersede, Refuse, ReplaceProposal, ChangeNothing,
           Materialize, Writing
<1>2. CASE \E at \in 0..now : Approve(at)
    BY <1>2 DEF Approve, Approving, ComparedAt, TypeOK
<1>3. ASSUME NEW document \in Documents, AppendFills(document) PROVE ~Approving
    <2>1. slot # NULL => slot' \in Proposals
        BY <1>3 DEF AppendFills, PlanMovedUnder, TypeOK, Proposals
    <2> QED BY <2>1, NullAssumption DEF Approving
<1> QED BY <1>1, <1>2, <1>3

(* What both writes have in common: the document, the instant, and the comparison. *)
LEMMA TheComparison ==
    ASSUME TypeOK, [Next]_vars, live # NULL, live' # live
    PROVE  /\ live \in Documents /\ live' \in Documents /\ Plan = live
           /\ ComparedAt \in Nat
           /\ ~RestatesThePast(live, live', ComparedAt)
<1>0. live \in Documents /\ Plan = live
    BY PlanHolds DEF TypeOK
<1>1. ComparedAt \in Nat
    BY TypeStep, InstantsAssumption DEF ComparedAt, TypeOK
<1>2. CASE /\ Approving /\ slot \in Proposals
           /\ live' = slot.document /\ Approvable(slot, ComparedAt)
    BY <1>0, <1>1, <1>2 DEF Approvable, Proposals
<1>3. ASSUME NEW document \in Documents, AppendFills(document)
      PROVE  live' \in Documents /\ ~RestatesThePast(live, live', ComparedAt)
    BY <1>3 DEF AppendFills, Writing, ComparedAt
<1> QED BY <1>0, <1>1, <1>2, <1>3, WhoReplacesThePlan

(* No block the plan of record holds is moved or dropped unasked, of any week, for any  *)
(* answer of the solver and any delay of the user, but through the two exceptions the   *)
(* property names.                                                                       *)
THEOREM AuthorityNothingMovesUnasked == Spec => NothingMovesUnasked
<1>1. ASSUME TypeOK, [Next]_vars, live # NULL, live' # live,
             NEW b \in Held(live), live'[b] # live[b]
      PROVE  \/ Approving /\ <<b, live'[b]>> \in slot.shown
             \/ b \in Fixed /\ HasStarted(live[b], ComparedAt)
             \/ b \in Fixed /\ live'[b] # NULL /\ HasStarted(live'[b], ComparedAt)
             \/ live'[b] # NULL /\ live'[b][1] = ComparedAt
    <2> DEFINE classed == b \in Dropped(live, live', ComparedAt)
                                \cup Relocated(live, live', ComparedAt)
    <2>1. \/ classed
          \/ b \in Fixed /\ HasStarted(live[b], ComparedAt)
          \/ b \in Fixed /\ live'[b] # NULL /\ HasStarted(live'[b], ComparedAt)
          \/ live'[b] # NULL /\ live'[b][1] = ComparedAt
        BY <1>1, TheComparison, ChangesAreClassified
    <2>2. ASSUME classed, Approving, live' = slot.document, Approvable(slot, ComparedAt)
          PROVE  <<b, live'[b]>> \in slot.shown
        <3>1. Unassented(live, live', slot.shown, ComparedAt) = {}
            BY <1>1, <2>2, TheComparison DEF Approvable
        <3> QED BY <2>2, <3>1 DEF Unassented, Changes
    <2>3. ASSUME NEW document \in Documents, AppendFills(document), ~Approving
          PROVE  ~classed
        <3>1. ProposalDiff(live, live', ComparedAt) = {}
            BY <1>1, <2>3, TheComparison DEF AppendFills, AppliesImmediately, ComparedAt
        <3> QED BY <3>1, NothingAsked
    <2> QED BY <1>1, <2>1, <2>2, <2>3, WhoReplacesThePlan
<1>2. TypeOK /\ [Next]_vars =>
        [live # NULL /\ live' # live =>
            \A b \in Held(live) : live'[b] # live[b] =>
                \/ Approving /\ <<b, live'[b]>> \in slot.shown
                \/ b \in Fixed /\ HasStarted(live[b], ComparedAt)
                \/ b \in Fixed /\ live'[b] # NULL /\ HasStarted(live'[b], ComparedAt)
                \/ live'[b] # NULL /\ live'[b][1] = ComparedAt]_vars
    BY <1>1
<1> QED BY <1>2, AuthorityTypeOK, PTL DEF Spec, NothingMovesUnasked

(* The blocks the solve placed and the week has lived stay as the week lived them. *)
THEOREM AuthorityLivedWeekStands == Spec => TheLivedWeekStands
<1>1. ASSUME TypeOK, [Next]_vars, live # NULL, live' # live, NEW b \in Placed
      PROVE  /\ live[b] # NULL /\ HasStarted(live[b], ComparedAt) => live'[b] = live[b]
             /\ live'[b] # NULL /\ HasElapsed(live'[b], ComparedAt) => live'[b] = live[b]
    BY <1>1, TheComparison, LivedBlocksStand
<1>2. TypeOK /\ [Next]_vars =>
        [live # NULL /\ live' # live =>
            \A b \in Placed :
                /\ live[b] # NULL /\ HasStarted(live[b], ComparedAt) => live'[b] = live[b]
                /\ live'[b] # NULL /\ HasElapsed(live'[b], ComparedAt) => live'[b] = live[b]]_vars
    BY <1>1
<1> QED BY <1>2, AuthorityTypeOK, PTL DEF Spec, TheLivedWeekStands

=============================================================================
