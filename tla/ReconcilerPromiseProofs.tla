---------------------- MODULE ReconcilerPromiseProofs ----------------------
(***************************************************************************)
(* Reconciler implements Convergence, for every value of the constants.    *)
(***************************************************************************)
EXTENDS ReconcilerReportProofs

(* The operators of the promise are the planner's and the target's own.    *)
LEMMA PromisedObservation == ASSUME NEW t, NEW d PROVE Promise!Observe(t, d) = Observe(t, d)
  BY DEF Promise!Observe, Promise!DesiredSchemas, Promise!DesiredContexts, Promise!ContextsOf,
     Observe, DesiredSchemas, DesiredContexts, ContextsOf

(* The promise refuses the same levels and the same observations.          *)
LEMMA PromisedRefusals ==
  ASSUME NEW d, NEW bindings, NEW observed
  PROVE  /\ Promise!DesiredIsRefused(d, bindings) <=> DesiredIsRefused(d, bindings)
         /\ Promise!PlanIsRefused(d, observed) <=> PlanIsRefused(d, observed)
  BY DEF Promise!DesiredIsRefused, DesiredIsRefused, Promise!TargetOwned, TargetOwned,
     Promise!PlanIssues, PlanIssues, Promise!BindingConflict, BindingConflict,
     Promise!DesiredContexts, DesiredContexts, Promise!ContextsOf, ContextsOf,
     Promise!MigrationsOf, MigrationsOf, Promise!BindingFor, BindingFor,
     Promise!PlanIsRefused, PlanIsRefused, Promise!MigrationMutated, MigrationMutated,
     Promise!Receipted, Receipted, Promise!MatchingReceipt, MatchingReceipt,
     Promise!InputUnbound, InputUnbound

(* The promise asks for the same operation next.                           *)
LEMMA PromisedFirst ==
  ASSUME NEW d, NEW bindings, NEW observed
  PROVE  Promise!First(Promise!Outstanding(d, bindings, observed))
           = First(Outstanding(d, bindings, observed))
  BY DEF Promise!First, First, Promise!Before, Before, Promise!Outstanding, Outstanding,
     Promise!BindSteps, BindSteps, Promise!MetadataSteps, MetadataSteps,
     Promise!SchemaSteps, SchemaSteps, Promise!MigrationSteps, MigrationSteps,
     Promise!ApiSteps, ApiSteps, Promise!Ranked, Ranked, Promise!ComponentsOf, ComponentsOf,
     Promise!Op, Op, Promise!DesiredDigest, DesiredDigest,
     Promise!EstablishBinding, EstablishBinding, Promise!EnsureMetadata, EnsureMetadata,
     Promise!EnsureSchema, EnsureSchema, Promise!ApplyMigration, ApplyMigration,
     Promise!ConfigureApi, ConfigureApi, Promise!WantedExposure, WantedExposure,
     Promise!GrantsMatch, GrantsMatch, Promise!WantsAnonRead, WantsAnonRead,
     Promise!Bound, Bound, Promise!Receipted, Receipted,
     Promise!DesiredContexts, DesiredContexts, Promise!ContextsOf, ContextsOf

(* The promise executes an operation, or cannot, just as the target does,  *)
(* and lets others edit the target in the same ways.                       *)
LEMMA PromisedExecution ==
  ASSUME NEW t, NEW op
  PROVE  /\ Promise!CanExecute(t, op) <=> CanExecute(t, op)
         /\ Promise!Execute(t, op) = Execute(t, op)
         /\ Promise!Drifted(t) = Drifted(t)
  BY DEF Promise!CanExecute, CanExecute, Promise!Execute, Execute, Promise!Drifted, Drifted,
     Promise!Receipted, Receipted, Promise!MatchingReceipt, MatchingReceipt,
     Promise!PolicySchemas, PolicySchemas, Promise!PolicyContexts, PolicyContexts,
     Promise!ContextsOf, ContextsOf, Promise!WantsAnonRead, WantsAnonRead

(* The promise claims a binding as the journal does.                       *)
LEMMA PromisedClaim ==
  ASSUME NEW d, NEW c, NEW bindings
  PROVE  Promise!Claim(bindings, Promise!BindingFor(d, c)) = Claim(bindings, BindingFor(d, c))
  BY DEF Promise!Claim, Claim, Promise!BindingFor, BindingFor

-----------------------------------------------------------------------------
(* A plan for a binding was accepted against the ledger as it still is.    *)

(* The ledger of receipts is a table of the connector's own schema.        *)
LedgerOK(t) == ~t.metadata => t.receipts = {}

SameReceipts(p) ==
  p.op.kind = "bind" =>
    \/ TargetOwned(p.slice, journal.bindings)
    \/ Claimed(p)
    \/ p.observed.receipts = target.receipts

VInv ==
  /\ CInv
  /\ LedgerOK(target)
  /\ \A g \in Graphs : \A p \in HeldPlans(g) : SameReceipts(p)

(* A commit is the first outstanding operation of the level of the graph   *)
(* that holds the bindings.                                                *)
LEMMA CommitIsFirst ==
  ASSUME CInv, NEW g \in Graphs, Commit(g)
  PROVE  LET op == work[g].plan.op
             d == chk[g].slice IN
         /\ op.kind # "bind"
         /\ op \in First(Outstanding(d, journal.bindings, Observe(target, d)))
         /\ ~DesiredIsRefused(d, journal.bindings)
         /\ ~PlanIsRefused(d, Observe(target, d))
         /\ \A b \in journal.bindings : b.graph = g
<1> DEFINE p == work[g].plan
<1>1. pc[g] = "apply" /\ p.observed = Observe(target, desired[g])
  BY DEF Commit, Fresh
<1>2. p \in HeldPlans(g) /\ pc[g] \in OwnLabels
  BY <1>1, HeldIsHeld DEF OwnLabels, PlanLabels
<1>3. PassOK(g) /\ Current(p) /\ Made(p) /\ LevelOK(g) /\ OwnerOK(g)
  BY <1>2 DEF CInv, MInv, OInv, LInv
<1>4. p.slice = chk[g].slice /\ desired[g] = chk[g].slice
  BY <1>1, <1>3 DEF LevelOK, PlanOK, PlanLabels
<1>5. p.op.kind # "bind" /\ ~DesiredIsRefused(chk[g].slice, journal.bindings)
  BY <1>1, <1>2, <1>3, <1>4 DEF PassOK
<1>6. p.op \in First(Outstanding(p.slice, journal.bindings, p.observed))
  BY <1>3, <1>4, <1>5 DEF Current, Claimed, DesiredIsRefused
<1>7. ~PlanIsRefused(p.slice, p.observed)
  BY <1>3 DEF Made
<1>8. \A b \in journal.bindings : b.graph = g
  BY <1>2, <1>3 DEF OwnerOK
<1> QED
  BY <1>1, <1>4, <1>5, <1>6, <1>7, <1>8

(* A commit that adds a receipt is one of a graph that owns the target.    *)
LEMMA ReceiptsNeedBindings ==
  ASSUME CInv, NEW g \in Graphs, Commit(g), target'.receipts # target.receipts
  PROVE  \E b \in journal.bindings : b.graph = g
<1> DEFINE op == work[g].plan.op
           d == chk[g].slice
<1>0. target \in TargetStates /\ target' = Execute(target, op)
  BY DEF Commit, CInv, MInv, OInv, LInv, TInv, TypeOK
<1>1. /\ op.kind # "bind"
      /\ op \in First(Outstanding(d, journal.bindings, Observe(target, d)))
      /\ \A b \in journal.bindings : b.graph = g
  BY CommitIsFirst
<1>2. op.kind = "migration"
  <2>1. op.kind \in {"metadata", "schema", "migration", "api"}
    BY <1>1, OutstandingShapes
       DEF EstablishBinding, EnsureMetadata, EnsureSchema, ApplyMigration, ConfigureApi, Op
  <2>2. op.kind \in {"metadata", "schema", "api"} => Execute(target, op).receipts = target.receipts
    BY <1>0 DEF Execute, TargetStates
  <2> QED
    BY <1>0, <2>1, <2>2
<1>3. op.context \in DesiredContexts(d)
  BY <1>1, <1>2, OutstandingShapes
     DEF EstablishBinding, EnsureMetadata, EnsureSchema, ApplyMigration, ConfigureApi, Op
<1>4. Bound(op.context, journal.bindings)
  BY <1>1, <1>3, BoundBeforeApplied
<1> QED
  BY <1>1, <1>4 DEF Bound

(* Neither the connector nor anybody else writes receipts without a ledger.*)
LEMMA LedgerIsKept ==
  ASSUME NEW t \in TargetStates, LedgerOK(t)
  PROVE  /\ \A op \in Operations : CanExecute(t, op) => LedgerOK(Execute(t, op))
         /\ \A u \in Drifted(t) : LedgerOK(u) /\ u.receipts = t.receipts
<1>1. ASSUME NEW op \in Operations, CanExecute(t, op) PROVE LedgerOK(Execute(t, op))
  BY <1>1 DEF Execute, CanExecute, TargetStates, LedgerOK, Operations
<1>2. ASSUME NEW u \in Drifted(t) PROVE LedgerOK(u) /\ u.receipts = t.receipts
  <2>1. PICK s \in Schemas :
          u \in {[t EXCEPT !.schemas = @ \ {s}, !.anonRead = @ \ {s}, !.open = @ \ {s}],
                [t EXCEPT !.schemas = @ \cup {s}],
                [t EXCEPT !.exposed = @ \ {s}],
                [t EXCEPT !.exposed = @ \cup {s}],
                [t EXCEPT !.anonRead = @ \cup ({s} \cap t.schemas)]}
    BY <1>2 DEF Drifted
  <2>2. u.receipts = t.receipts /\ u.metadata = t.metadata
    BY <2>1 DEF TargetStates
  <2> QED
    BY <2>2 DEF LedgerOK
<1> QED
  BY <1>1, <1>2

(* A step of a graph keeps the ledger and what plans for bindings saw.     *)
LEMMA GraphStepKeepsReceipts ==
  ASSUME VInv, NEW g \in Graphs, GraphStep(g)
  PROVE  LedgerOK(target') /\ \A h \in Graphs : \A p \in HeldPlans(h)' : SameReceipts(p)'
<1>0. /\ CInv /\ MInv /\ OInv /\ LInv /\ LedgerOK(target) /\ target \in TargetStates
      /\ PassOK(g) /\ OwnerOK(g)
  BY DEF VInv, CInv, MInv, OInv, LInv, TInv, TypeOK
<1>1. Commit(g) => work[g].plan \in HeldPlans(g) /\ work[g].plan.op \in Operations
  BY <1>0, HeldIsHeld, HeldTyped DEF Commit, PlanLabels
<1>2. LedgerOK(target')
  <2>1. CASE target' = target
    BY <1>0, <2>1
  <2>2. CASE Commit(g)
    BY <1>0, <1>1, <2>2, LedgerIsKept DEF Commit
  <2> QED
    BY <1>0, <2>1, <2>2, Effects
<1>3. ASSUME NEW h \in Graphs, NEW p \in HeldPlans(h)', p.op.kind = "bind"
      PROVE  \/ TargetOwned(p.slice, journal'.bindings)
             \/ BindingFor(p.slice, p.op.context) \in journal'.bindings
             \/ p.observed.receipts = target'.receipts
  <2>1. CASE h = g /\ Propose(g) /\ HeldPlans(g)' \subseteq {work'[g].plan}
    <3>1. p = work'[g].plan /\ target' = target
      BY <1>3, <2>1 DEF Propose, external
    <3>2. p.observed = Observe(target, desired[g])
      BY <1>0, <2>1, <3>1, ProposedIsMade
    <3> QED
      BY <1>0, <3>1, <3>2 DEF Observe, LedgerOK
  <2>2. CASE p \in HeldPlans(h)
    <3>0. SameReceipts(p) /\ p.slice.graph = h
      BY <1>0, <2>2, HeldTyped DEF VInv
    <3>1. CASE target' = target /\ journal'.bindings = journal.bindings
      BY <1>3, <3>0, <3>1 DEF SameReceipts, Claimed
    <3>2. CASE target' = target /\ BindsOnly(g)
      <4>1. work[g].plan \in HeldPlans(g)
        BY <3>2, HeldIsHeld DEF BindsOnly, PlanLabels
      <4>2. ClaimedBinding(work[g].plan) \in journal'.bindings
        BY <3>2 DEF BindsOnly, Claim
      <4>3. CASE h = g
        <5>1. p = work[g].plan
          BY <1>0, <2>2, <3>2, <4>3, HeldIsHeld DEF PassOK, BindsOnly, PlanLabels
        <5> QED
          BY <4>2, <5>1 DEF ClaimedBinding
      <4>4. CASE h # g
        <5>1. work[g].plan.slice.graph = g
          BY <1>0, <4>1, HeldTyped
        <5> QED
          BY <3>0, <4>2, <4>4, <5>1 DEF TargetOwned, ClaimedBinding, BindingFor
      <4> QED
        BY <4>3, <4>4
    <3>3. CASE Commit(g) /\ journal'.bindings = journal.bindings
      <4>1. CASE target'.receipts = target.receipts
        BY <1>3, <3>0, <3>3, <4>1 DEF SameReceipts, Claimed
      <4>2. CASE target'.receipts # target.receipts
        <5>1. h # g
          BY <1>0, <1>3, <2>2, <3>3, HeldIsHeld DEF Commit, PassOK, PlanLabels
        <5>2. \E b \in journal.bindings : b.graph = g
          BY <1>0, <3>3, <4>2, ReceiptsNeedBindings
        <5> QED
          BY <3>0, <3>3, <5>1, <5>2 DEF TargetOwned
      <4> QED
        BY <4>1, <4>2
    <3>4. ~ReleasesOnly(g)
      BY <1>0 DEF ReleasesOnly, CInv, RetireFree
    <3> QED
      BY <1>0, <3>1, <3>2, <3>3, <3>4, Effects
  <2>3. CASE h # g
    BY <1>0, <1>3, <2>2, <2>3, OthersKeepPass
  <2> QED
    BY <1>0, <2>1, <2>2, <2>3, GraphStepKeepsPass DEF CarriesOn
<1>4. ASSUME NEW h \in Graphs, NEW p \in HeldPlans(h)' PROVE SameReceipts(p)'
  BY <1>3, <1>4 DEF SameReceipts, Claimed
<1> QED
  BY <1>2, <1>4

(* VInv is inductive.                                                      *)
LEMMA NextKeepsReceipts ==
  ASSUME VInv, "retire" \notin Faults, [Next]_vars
  PROVE  VInv'
<1>1. CInv'
  BY NextKeepsCurrent DEF VInv
<1>2. CASE OtherStep
  <2>1. target \in TargetStates /\ MInv
    BY DEF VInv, CInv, MInv, OInv, LInv, TInv, TypeOK
  <2>2. LedgerOK(target') /\ target'.receipts = target.receipts /\ journal' = journal
    BY <1>2, <2>1, OtherStepsKeepJournal, LedgerIsKept DEF VInv, Drift
  <2>3. ASSUME NEW h \in Graphs, NEW p \in HeldPlans(h)' PROVE SameReceipts(p)'
    <3>1. p \in HeldPlans(h)
      BY <1>2, <2>1, <2>3, OtherStepsKeepPass
    <3> QED
      BY <2>2, <3>1 DEF VInv, SameReceipts, Claimed
  <2> QED
    BY <1>1, <2>2, <2>3 DEF VInv, LedgerOK
<1>3. ASSUME NEW g \in Graphs, GraphStep(g) PROVE VInv'
  BY <1>1, <1>3, GraphStepKeepsReceipts DEF VInv, LedgerOK
<1> QED
  BY <1>2, <1>3, StepsAreSorted

-----------------------------------------------------------------------------
(* The refinement.  A graph's level is what its checkpoint retains.        *)

Levels == [g \in Graphs |-> IF Live(g) THEN Retained(g) ELSE None]

(* A step that leaves bindings, target and levels is a stutter.            *)
LEMMA Stutters ==
  ASSUME journal'.bindings = journal.bindings, target' = target, Levels' = Levels
  PROVE  UNCHANGED Promise!vars
  BY DEF Promise!vars, Levels

(* No step of an activity changes a level, when none is retired.           *)
LEMMA GraphStepKeepsLevels ==
  ASSUME CInv, RetireFree', NEW g \in Graphs, GraphStep(g)
  PROVE  Levels' = Levels
<1>1. \A h \in Graphs : /\ chk[h] # None <=> chk'[h] # None
                        /\ chk[h] # None => chk'[h].slice = chk[h].slice
  BY Footprint, GraphStepReports DEF ReportStep, CInv, MInv, OInv, LInv
<1>2. \A h \in Graphs : (Live(h) <=> Live(h)') /\ (Live(h) => Retained(h)' = Retained(h))
  BY <1>1 DEF Live, Retained, RetireFree, CInv
<1> QED
  BY <1>2 DEF Levels

(* The next operation of the plan is the next operation of the promise.    *)
LEMMA PromisedNext ==
  ASSUME NEW g \in Graphs, Live(g), NEW op,
         op \in First(Outstanding(chk[g].slice, journal.bindings, Observe(target, chk[g].slice))),
         ~DesiredIsRefused(chk[g].slice, journal.bindings),
         ~PlanIsRefused(chk[g].slice, Observe(target, chk[g].slice))
  PROVE  op \in Promise!NextOperations(g)
<1>1. Levels[g] = chk[g].slice
  BY DEF Levels, Retained
<1>2. Promise!NextOperations(g) =
        LET observed == Promise!Observe(target, Levels[g]) IN
        IF \/ Promise!DesiredIsRefused(Levels[g], journal.bindings)
           \/ Promise!PlanIsRefused(Levels[g], observed)
        THEN {}
        ELSE Promise!First(Promise!Outstanding(Levels[g], journal.bindings, observed))
  BY DEF Promise!NextOperations, Levels
<1> QED
  BY <1>1, <1>2, PromisedObservation, PromisedRefusals, PromisedFirst

(* Claiming the binding of a plan is the promised binding, or was done     *)
(* before the connector forgot that it had done it.                        *)
LEMMA BindRefines ==
  ASSUME VInv, NEW g \in Graphs, BindsOnly(g), target' = target, Levels' = Levels
  PROVE  Promise!Bind(g) \/ UNCHANGED Promise!vars
<1> DEFINE p == work[g].plan
           d == chk[g].slice
<1>0. /\ CInv /\ MInv /\ OInv /\ LInv /\ LedgerOK(target)
      /\ PassOK(g) /\ LevelOK(g) /\ ActivityOK(g)
      /\ pc[g] = "bind" /\ journal'.bindings = Claim(journal.bindings, ClaimedBinding(p))
  BY DEF VInv, CInv, MInv, OInv, LInv, TInv, BindsOnly
<1>1. p \in HeldPlans(g) /\ pc[g] \in OwnLabels
  BY <1>0, HeldIsHeld DEF OwnLabels, PlanLabels
<1>2. p.op.kind = "bind" /\ p.slice = d /\ desired[g] = d /\ Live(g)
  BY <1>0, <1>1 DEF LevelOK, PlanOK, PlanLabels, ActivityOK, Live
<1>3. Current(p) /\ SameReceipts(p) /\ Made(p)
  BY <1>0, <1>1 DEF VInv, CInv, MInv
<1>4. ~DesiredIsRefused(d, journal.bindings) /\ ~TargetOwned(d, journal.bindings)
  BY <1>0, <1>1, <1>2 DEF PassOK, DesiredIsRefused
<1>5. CASE Claimed(p)
  <2>1. journal'.bindings = journal.bindings
    BY <1>0, <1>5, ClaimIsKeyed DEF MInv, Claimed, ClaimedBinding
  <2> QED
    BY <2>1, Stutters
<1>6. CASE ~Claimed(p)
  <2>1. p.op \in First(Outstanding(d, journal.bindings, p.observed))
    BY <1>2, <1>3, <1>4, <1>6 DEF Current
  <2>2. p.op \in First(Outstanding(d, journal.bindings, Observe(target, d)))
    BY <1>2, <2>1, BindingFirst
  <2>3. p.observed.receipts = Observe(target, d).receipts
    BY <1>0, <1>2, <1>3, <1>4, <1>6 DEF SameReceipts, Observe, LedgerOK
  <2>4. ~PlanIsRefused(d, Observe(target, d))
    BY <1>2, <1>3, <2>3 DEF Made, PlanIsRefused, MigrationMutated, Receipted
  <2>5. p.op \in Promise!NextOperations(g)
    BY <1>2, <1>4, <2>2, <2>4, PromisedNext
  <2>6. Levels[g] = d /\ d # None
    BY <1>2, HeldTyped, <1>0, <1>1, NoneIsNoValue DEF Levels, Retained
  <2>7. journal'.bindings = Promise!Claim(journal.bindings, Promise!BindingFor(Levels[g], p.op.context))
    BY <1>0, <1>2, <2>6, PromisedClaim DEF ClaimedBinding
  <2> QED
    BY <1>2, <2>5, <2>6, <2>7 DEF Promise!Bind, Levels
<1> QED
  BY <1>5, <1>6

(* A commit is the promised operation.                                     *)
LEMMA CommitRefines ==
  ASSUME CInv, NEW g \in Graphs, Commit(g), journal'.bindings = journal.bindings, Levels' = Levels
  PROVE  Promise!Advance(g)
<1> DEFINE op == work[g].plan.op
           d == chk[g].slice
<1>1. /\ op.kind # "bind"
      /\ op \in First(Outstanding(d, journal.bindings, Observe(target, d)))
      /\ ~DesiredIsRefused(d, journal.bindings) /\ ~PlanIsRefused(d, Observe(target, d))
  BY CommitIsFirst
<1>2. Live(g) /\ d \in Slices
  BY DEF Commit, CInv, MInv, OInv, LInv, TInv, TypeOK, LevelOK, Live, Checkpoints
<1>3. op \in Promise!NextOperations(g)
  BY <1>1, <1>2, PromisedNext
<1>4. Promise!CanExecute(target, op) /\ target' = Promise!Execute(target, op)
  BY PromisedExecution DEF Commit
<1>5. Levels[g] = d /\ d # None
  BY <1>2, NoneIsNoValue DEF Levels, Retained
<1> QED
  BY <1>1, <1>3, <1>4, <1>5 DEF Promise!Advance, Levels

(* Every step of an activity is a promised one or a stutter.               *)
LEMMA GraphStepRefines ==
  ASSUME VInv, RetireFree', NEW g \in Graphs, GraphStep(g)
  PROVE  Promise!Next \/ UNCHANGED Promise!vars
<1>0. CInv /\ OInv /\ Levels' = Levels
  BY GraphStepKeepsLevels DEF VInv, CInv, MInv
<1>1. CASE target' = target /\ journal'.bindings = journal.bindings
  BY <1>0, <1>1, Stutters
<1>2. CASE target' = target /\ BindsOnly(g)
  BY <1>0, <1>2, BindRefines DEF Promise!Next, Promise!Step
<1>3. CASE Commit(g) /\ journal'.bindings = journal.bindings
  BY <1>0, <1>3, CommitRefines DEF Promise!Next, Promise!Step
<1>4. ~ReleasesOnly(g)
  BY <1>0 DEF ReleasesOnly, CInv, RetireFree
<1> QED
  BY <1>0, <1>1, <1>2, <1>3, <1>4, Effects

(* So is every other step: core's levels and somebody else's changes are   *)
(* in the promise, the life of the process is not.                         *)
LEMMA OtherStepRefines ==
  ASSUME VInv, RetireFree', OtherStep
  PROVE  Promise!Next \/ UNCHANGED Promise!vars
<1> USE DEF process, external
<1>0. /\ chk \in [Graphs -> Checkpoints \cup {None}]
      /\ \A g \in boot : g \in Graphs /\ chk[g] \in Checkpoints
      /\ RetireFree
  BY DEF VInv, CInv, MInv, OInv, LInv, TInv, TypeOK, ProcessOK
<1>1. journal' = journal /\ (target' = target \/ Drift)
  BY OtherStepsKeepJournal
<1>2. CASE CoreSends
  <2>1. PICK d \in Slices : AcceptNew(d) \/ AcceptAgain(d)
    BY <1>2 DEF CoreSends
  <2>2. CASE AcceptNew(d)
    <3>1. /\ d.graph \in Graphs /\ journal' = journal /\ target' = target
          /\ chk' = [chk EXCEPT ![d.graph] = AcceptedCheckpoint(d, chk[d.graph])]
          /\ chk[d.graph] # None => /\ d.sequence > chk[d.graph].slice.sequence
                                    /\ d.generation >= chk[d.graph].slice.generation
      BY <2>2, SlicesAreTyped DEF AcceptNew
    <3>2. /\ chk'[d.graph].slice = d /\ ~chk'[d.graph].retired /\ chk'[d.graph] # None
          /\ \A h \in Graphs \ {d.graph} : chk'[h] = chk[h]
      <4>1. chk'[d.graph] \in Checkpoints /\ chk'[d.graph].slice = d /\ ~chk'[d.graph].retired
        BY <1>0, <3>1 DEF AcceptedCheckpoint, Checkpoints
      <4> QED
        BY <1>0, <3>1, <4>1, NoneIsNoCheckpoint
    <3>3. Levels' = [Levels EXCEPT ![d.graph] = d]
      <4>1. Live(d.graph)' /\ Retained(d.graph)' = d
        BY <3>2 DEF Live, Retained
      <4>2. \A h \in Graphs \ {d.graph} :
              (Live(h)' <=> Live(h)) /\ Retained(h)' = Retained(h)
        BY <3>2 DEF Live, Retained
      <4> QED
        BY <3>1, <4>1, <4>2 DEF Levels
    <3>4. Levels[d.graph] # None => /\ d.sequence > Levels[d.graph].sequence
                                    /\ d.generation >= Levels[d.graph].generation
      BY <3>1 DEF Levels, Live, Retained
    <3>5. Promise!Accept(d)
      BY <3>1, <3>3, <3>4 DEF Promise!Accept, Levels
    <3> QED
      BY <3>5 DEF Promise!Next
  <2>3. CASE AcceptAgain(d)
    <3>1. chk' = chk /\ target' = target
      BY <2>3 DEF AcceptAgain
    <3> QED
      BY <1>1, <3>1, Stutters DEF Levels, Live, Retained
  <2> QED
    BY <2>1, <2>2, <2>3
<1>3. CASE Drift
  <2>1. Promise!Drift
    BY <1>3, PromisedExecution DEF Drift, Promise!Drift, Live, Retained
  <2> QED
    BY <2>1 DEF Promise!Next
<1>4. CASE ~CoreSends /\ ~Drift
  <2>1. \A h \in Graphs : \/ chk'[h] = chk[h]
                          \/ chk[h] \in Checkpoints /\ chk'[h] = [chk[h] EXCEPT !.report = None]
    BY <1>0, <1>4 DEF OtherStep, ProcessCrashes, Crash, Boot, ResumeFails, Serve, ResumeSaveFails,
       vars
  <2>2. ASSUME NEW h \in Graphs
        PROVE  /\ chk[h] # None <=> chk'[h] # None
               /\ chk[h] # None => chk'[h].slice = chk[h].slice
    <3>1. CASE chk'[h] = chk[h]
      BY <3>1
    <3>2. CASE chk[h] \in Checkpoints /\ chk'[h] = [chk[h] EXCEPT !.report = None]
      <4>1. chk'[h] \in Checkpoints /\ chk'[h].slice = chk[h].slice
        BY <3>2 DEF Checkpoints
      <4> QED
        BY <3>2, <4>1, NoneIsNoCheckpoint
    <3> QED
      BY <2>1, <3>1, <3>2
  <2>3. \A h \in Graphs : (Live(h) <=> Live(h)') /\ (Live(h) => Retained(h)' = Retained(h))
    BY <1>0, <2>2 DEF Live, Retained, RetireFree
  <2> QED
    BY <1>1, <1>4, <2>3, Stutters DEF Levels
<1> QED
  BY <1>2, <1>3, <1>4

(* The controller keeps its promise: whatever it plans, retries, recovers  *)
(* or repeats, over crashes, lost appends, lost answers and changes made   *)
(* by somebody else, bindings and target only ever change by the first     *)
(* outstanding operation of a retained level, judged by the bindings and   *)
(* the target of that very moment.  Retirement is left out: see README.    *)
THEOREM ConvergenceImplemented ==
  "retire" \notin Faults /\ (\A t \in InitialTargets : LedgerOK(t))
    => (Spec => ImplementsConvergence)
<1> SUFFICES ASSUME "retire" \notin Faults, \A t \in InitialTargets : LedgerOK(t)
             PROVE  Spec => ImplementsConvergence
  OBVIOUS
<1>1. Init => VInv /\ Promise!Init
  <2> SUFFICES ASSUME Init PROVE VInv /\ Promise!Init
    OBVIOUS
  <2>1. VInv
    BY InitHasPlans DEF Init, VInv, CInv, RetireFree, HeldPlans, PlanLabels
  <2>2. Promise!Init
    BY DEF Init, Promise!Init, EmptyJournal, Live
  <2> QED
    BY <2>1, <2>2
<1>2. VInv /\ [Next]_vars => VInv'
  BY NextKeepsReceipts
<1>3. VInv /\ VInv' /\ [Next]_vars => [Promise!Next]_(Promise!vars)
  <2> SUFFICES ASSUME VInv, VInv', [Next]_vars
               PROVE  Promise!Next \/ UNCHANGED Promise!vars
    OBVIOUS
  <2>1. RetireFree'
    BY DEF VInv, CInv
  <2> QED
    BY <2>1, GraphStepRefines, OtherStepRefines, StepsAreSorted
<1> QED
  BY <1>1, <1>2, <1>3, PTL DEF Spec, ImplementsConvergence, Promise!Spec
=============================================================================
