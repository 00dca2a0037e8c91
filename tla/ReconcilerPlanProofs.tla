------------------------ MODULE ReconcilerPlanProofs ------------------------
(***************************************************************************)
(* What becomes of a plan between build_plan and its success receipt, for  *)
(* every value of the constants.                                           *)
(***************************************************************************)
EXTENDS ReconcilerProofs

(* The plans of a graph: the checkpoint's and that of a running pass.      *)
HeldPlans(g) ==
  (IF chk[g] # None /\ chk[g].plan # None THEN {chk[g].plan} ELSE {})
    \cup (IF pc[g] \in PlanLabels \/ (pc[g] = "publish" /\ work[g].plan # None)
          THEN {work[g].plan} ELSE {})

(* A plan is one that build_plan made, from what it observed.              *)
Made(p) ==
  /\ ~PlanIsRefused(p.slice, p.observed)
  /\ \E known \in SUBSET Bindings : p.op \in First(Outstanding(p.slice, known, p.observed))

(* A pass works on the checkpoint's plan or makes the only one, and goes   *)
(* on only with a level that is not refused.                               *)
PassOK(g) ==
  /\ pc[g] \in PlanLabels \ {"propose"} => work[g].plan = chk[g].plan
  /\ pc[g] \in {"plan", "propose"} => chk[g].plan = None
  /\ pc[g] \in {"observe", "apply"} => work[g].plan.op.kind # "bind"
  /\ pc[g] \in OwnLabels => ~DesiredIsRefused(desired[g], journal.bindings)

(* The journal's map of bindings is keyed by the resource.                 *)
Keyed(bindings) == \A b, c \in bindings : b.resource = c.resource => b = c

MInv ==
  /\ OInv
  /\ Keyed(journal.bindings)
  /\ \A g \in Graphs : PassOK(g) /\ \A p \in HeldPlans(g) : Made(p)

-----------------------------------------------------------------------------
(* A plan is held by the checkpoint or by the pass.                        *)
LEMMA HeldIsHeld ==
  ASSUME NEW g, NEW p
  PROVE  p \in HeldPlans(g) <=>
           \/ chk[g] # None /\ chk[g].plan # None /\ p = chk[g].plan
           \/ pc[g] \in PlanLabels /\ p = work[g].plan
           \/ pc[g] = "publish" /\ work[g].plan # None /\ p = work[g].plan
  BY DEF HeldPlans

(* Held plans are well formed and belong to the graph's level.             *)
LEMMA HeldTyped ==
  ASSUME LInv, NEW g \in Graphs, NEW p \in HeldPlans(g)
  PROVE  /\ p \in ResourcePlans
         /\ chk[g] \in Checkpoints /\ chk[g] # None
         /\ p.slice = chk[g].slice /\ p.slice \in Slices /\ p.slice.graph = g
         /\ p.op \in Operations
<1>1. p \in ResourcePlans
  <2>1. chk[g] \in Checkpoints \cup {None} /\ work[g] \in Activities
    BY DEF LInv, TInv, TypeOK
  <2>2. ActivityOK(g)
    BY DEF LInv, TInv
  <2> QED
    BY <2>1, <2>2, HeldIsHeld DEF Checkpoints, Activities, ActivityOK
<1>2. LevelOK(g) /\ chk[g] \in Checkpoints \cup {None}
  BY DEF LInv, TInv, TypeOK
<1>3. chk[g] # None
  BY <1>2, HeldIsHeld DEF LevelOK, PlanLabels
<1>4. p.slice = chk[g].slice
  BY <1>2, HeldIsHeld DEF LevelOK, PlanOK
<1> QED
  BY <1>1, <1>2, <1>3, <1>4 DEF LevelOK, ResourcePlans

(* What build_plan's operation is about is part of the level.              *)
LEMMA MadeContext ==
  ASSUME NEW p, Made(p), p.op.kind \in {"bind", "schema", "migration"}
  PROVE  p.op.context \in DesiredContexts(p.slice)
  BY OutstandingShapes
     DEF Made, EstablishBinding, EnsureMetadata, EnsureSchema, ApplyMigration, ConfigureApi, Op

(* Claiming a component's binding refuses nothing of its own level.        *)
LEMMA ClaimIsAccepted ==
  ASSUME NEW d \in Slices, NEW c \in DesiredContexts(d), NEW bindings,
         ~DesiredIsRefused(d, bindings)
  PROVE  ~DesiredIsRefused(d, Claim(bindings, BindingFor(d, c)))
<1>1. ~TargetOwned(d, Claim(bindings, BindingFor(d, c)))
  BY DEF DesiredIsRefused, TargetOwned, Claim, BindingFor
<1>2. ASSUME NEW x \in DesiredContexts(d)
      PROVE  ~BindingConflict(d, x, Claim(bindings, BindingFor(d, c)))
  <2> SUFFICES ASSUME NEW b \in Claim(bindings, BindingFor(d, c)), b.resource = x.resource,
                      b # BindingFor(d, x)
               PROVE  FALSE
    BY DEF BindingConflict
  <2>1. CASE b \in bindings
    BY <2>1 DEF DesiredIsRefused, BindingConflict
  <2>2. CASE b = BindingFor(d, c)
    <3>1. c.resource = x.resource
      BY <2>2 DEF BindingFor
    <3>2. c = x
      BY <3>1, SlicesAreTyped, ContextsAreDistinct DEF DesiredContexts
    <3> QED
      BY <2>2, <3>2
  <2> QED
    BY <2>1, <2>2 DEF Claim
<1> QED
  BY <1>1, <1>2 DEF DesiredIsRefused

(* One binding stays the only one of its resource.                         *)
LEMMA ClaimIsKeyed ==
  ASSUME NEW bindings, NEW b, Keyed(bindings)
  PROVE  Keyed(Claim(bindings, b)) /\ (b \in bindings => Claim(bindings, b) = bindings)
  BY DEF Keyed, Claim

-----------------------------------------------------------------------------
(* What one step of an activity does to the journal's bindings and to the  *)
(* target, which it touches only as the holder of the target lock.         *)
BindsOnly(g) ==
  /\ pc[g] = "bind"
  /\ journal'.bindings = Claim(journal.bindings, ClaimedBinding(work[g].plan))
ReleasesOnly(g) ==
  /\ pc[g] = "retire"
  /\ journal'.bindings = Release(journal.bindings, g)

(* A step of an activity changes the bindings by a claim or a release, the *)
(* target by a commit, never both, and only under the target lock.         *)
LEMMA Effects ==
  ASSUME OInv, NEW g \in Graphs, GraphStep(g)
  PROVE  \/ target' = target /\ journal'.bindings = journal.bindings
         \/ target' = target /\ HoldsTarget(g) /\ BindsOnly(g)
         \/ target' = target /\ HoldsTarget(g) /\ ReleasesOnly(g)
         \/ HoldsTarget(g) /\ Commit(g) /\ journal'.bindings = journal.bindings
<1> USE DEF process, external
<1>0. JournalTyped(journal) /\ OwnerOK(g)
  BY DEF OInv, LInv, TInv, TypeOK
<1>1. ASSUME journal' = Appended(journal, Pending(g)), Appending(g), target' = target
      PROVE  HoldsTarget(g) /\ (journal'.bindings = journal.bindings \/ BindsOnly(g) \/ ReleasesOnly(g))
  <2>0. HoldsTarget(g)
    BY <1>0, <1>1 DEF Appending, OwnerOK, Unlocked
  <2>1. CASE pc[g] = "bind"
    <3>1. /\ Pending(g).kind = "BindingEstablished"
          /\ Pending(g).binding = ClaimedBinding(work[g].plan)
      BY <2>1 DEF Pending, BindingEstablished
    <3> QED
      BY <1>0, <1>1, <2>0, <2>1, <3>1, AppendedBindings DEF BindsOnly
  <2>2. CASE pc[g] = "retire"
    <3>1. Pending(g).kind = "GraphReleased" /\ Pending(g).graph = g
      BY <2>2 DEF Pending, GraphReleased
    <3> QED
      BY <1>0, <1>1, <2>0, <2>2, <3>1, AppendedBindings DEF ReleasesOnly
  <2>3. CASE pc[g] \in {"stale", "start", "succeed", "fail", "propose"}
    <3>1. Pending(g).kind \in {"PlanStale", "Started", "Succeeded", "Failed", "PlanCreated"}
      <4>1. CASE pc[g] = "stale"
        BY <4>1 DEF Pending, PlanStale
      <4>2. CASE pc[g] = "start"
        BY <4>2 DEF Pending, OperationStarted
      <4>3. CASE pc[g] = "succeed"
        BY <4>3 DEF Pending, OperationSucceeded
      <4>4. CASE pc[g] = "fail"
        BY <4>4 DEF Pending, OperationFailed
      <4>5. CASE pc[g] = "propose"
        BY <4>5 DEF Pending, PlanCreated
      <4> QED
        BY <2>3, <4>1, <4>2, <4>3, <4>4, <4>5
    <3> QED
      BY <1>0, <1>1, <2>0, <3>1, AppendedBindings
  <2> QED
    BY <1>1, <2>1, <2>2, <2>3 DEF Appending
<1>2. ASSUME Commit(g), journal' = journal
      PROVE  HoldsTarget(g) /\ Commit(g) /\ journal'.bindings = journal.bindings
  BY <1>0, <1>2 DEF Commit, OwnerOK, Unlocked
<1>3. CASE TaskStep(g)
  BY <1>3 DEF TaskStep, DropTask, BeginRedelivery, BeginPass
<1>4. CASE PassStep(g)
  <2>1. \/ journal' = journal /\ target' = target
        \/ journal' = Appended(journal, Pending(g)) /\ Appending(g) /\ target' = target
        \/ Commit(g) /\ journal' = journal
    BY <1>4 DEF PassStep, RefuseDesired, FindStale, ResumeBinding, ResumePlan, PlanFresh,
         AppendStale, AppendStarted, AppendBinding, AppendSucceeded, AppendFailed, AppendCreated,
         AppendPending, Appending, ObserveForApply, ApplyStale, ApplyCommits, ApplyRejected,
         PlanRejected, PlanEmpty, Propose, SaveReport
  <2> QED
    BY <1>1, <1>2, <2>1
<1>5. CASE ReportAcknowledged(g) \/ RetireBegin(g) \/ RetireSave(g)
  BY <1>5 DEF ReportAcknowledged, RetireBegin, RetireSave
<1>6. CASE RetireRelease(g)
  BY <1>1, <1>6 DEF RetireRelease, AppendPending, Appending
<1>7. CASE FaultStep(g)
  <2>1. \/ journal' = journal /\ target' = target
        \/ journal' = Appended(journal, Pending(g)) /\ Appending(g) /\ target' = target
        \/ Commit(g) /\ journal' = journal
    BY <1>7 DEF FaultStep, AppendUnacknowledged, LoadFails, ObserveFails, ObserveForPlanFails,
         CommitUnanswered, CommitThenRejected, ApplyUnavailable, ReportLost, SaveFails
  <2> QED
    BY <1>1, <1>2, <2>1
<1>8. CASE ResumeGraph(g)
  BY <1>8 DEF ResumeGraph
<1> QED
  BY <1>3, <1>4, <1>5, <1>6, <1>7, <1>8 DEF GraphStep, RetireStep

(* The level a pass goes on with stays one that is not refused.            *)
LEMMA StaysAccepted ==
  ASSUME MInv, NEW g \in Graphs, GraphStep(g), pc[g] \in OwnLabels, desired' = desired
  PROVE  ~DesiredIsRefused(desired[g], journal'.bindings)
<1>1. PassOK(g) /\ LevelOK(g) /\ ~DesiredIsRefused(desired[g], journal.bindings)
  BY DEF MInv, OInv, LInv, PassOK
<1>2. CASE BindsOnly(g)
  <2>1. work[g].plan \in HeldPlans(g) /\ work[g].plan.op.kind = "bind"
    BY <1>2, HeldIsHeld DEF BindsOnly, PlanLabels, MInv, OInv, LInv, TInv, ActivityOK
  <2>2. desired[g] = work[g].plan.slice /\ desired[g] \in Slices
    BY <1>1, <1>2, <2>1, HeldTyped DEF BindsOnly, LevelOK, MInv, OInv
  <2>3. work[g].plan.op.context \in DesiredContexts(desired[g])
    BY <2>1, <2>2, MadeContext DEF MInv
  <2> QED
    BY <1>1, <1>2, <2>2, <2>3, ClaimIsAccepted DEF BindsOnly, ClaimedBinding
<1>3. CASE journal'.bindings = journal.bindings
  BY <1>1, <1>3
<1>4. ~ReleasesOnly(g)
  BY DEF ReleasesOnly, OwnLabels, PlanLabels
<1> QED
  BY <1>2, <1>3, <1>4, Effects DEF MInv

(* A pass carries the plan of its checkpoint on, forgets it, or makes one. *)
CarriesOn(g) ==
  \/ HeldPlans(g)' \subseteq HeldPlans(g)
  \/ Propose(g) /\ HeldPlans(g)' \subseteq {work'[g].plan}

(* Every step of a pass keeps its level accepted and its plans in order.   *)
LEMMA PassStepKeepsPass ==
  ASSUME MInv, NEW g \in Graphs, PassStep(g)
  PROVE  PassOK(g)' /\ CarriesOn(g)
<1> USE DEF process, external
<1>0. /\ PassOK(g) /\ LevelOK(g) /\ pc \in [Graphs -> Labels] /\ work \in [Graphs -> Activities]
      /\ chk \in [Graphs -> Checkpoints \cup {None}] /\ GraphStep(g)
  BY DEF MInv, OInv, LInv, TInv, TypeOK, GraphStep
<1>1. pc[g] \in OwnLabels /\ desired' = desired => ~DesiredIsRefused(desired'[g], journal'.bindings)
  BY <1>0, StaysAccepted
<1>2. ASSUME pc[g] \in PlanLabels \ {"propose"}, NEW label \in PlanLabels \ {"propose"},
             Goto(g, label), UNCHANGED <<process, chk, work>>,
             label \in {"observe", "apply"} => work[g].plan.op.kind # "bind"
      PROVE  PassOK(g)' /\ CarriesOn(g)
  <2>1. pc'[g] = label
    BY <1>0, <1>2 DEF Goto
  <2>2. HeldPlans(g)' \subseteq HeldPlans(g)
    BY <1>2, <2>1 DEF HeldPlans, PlanLabels
  <2>3. PassOK(g)'
    BY <1>0, <1>1, <1>2, <2>1 DEF PassOK, OwnLabels, PlanLabels
  <2> QED
    BY <2>2, <2>3 DEF CarriesOn
<1>3. ASSUME NEW plan, NEW disposition, NEW requeue, Publish(g, plan, disposition, requeue),
             chk' = chk, plan = None \/ (pc[g] \in PlanLabels /\ plan = work[g].plan)
      PROVE  PassOK(g)' /\ CarriesOn(g)
  <2>1. pc'[g] = "publish" /\ work'[g].plan = plan
    BY <1>0, <1>3 DEF Publish, Goto
  <2>2. HeldPlans(g)' \subseteq HeldPlans(g)
    BY <1>3, <2>1 DEF HeldPlans, PlanLabels
  <2>3. PassOK(g)'
    BY <2>1 DEF PassOK, OwnLabels, PlanLabels
  <2> QED
    BY <2>2, <2>3 DEF CarriesOn
<1>4. ASSUME LoadPlan(g), NEW label \in {"stale", "bind", "start", "observe"}, Goto(g, label),
             UNCHANGED <<process, chk, external>>,
             label = "observe" => chk[g].plan.op.kind # "bind"
      PROVE  PassOK(g)' /\ CarriesOn(g)
  <2>1. /\ pc'[g] = label /\ work'[g].plan = chk[g].plan /\ chk[g].plan # None
        /\ pc[g] = "load" /\ ~DesiredIsRefused(desired[g], journal.bindings)
    BY <1>0, <1>4 DEF Goto, LoadPlan, Loaded, Activities
  <2>2. chk[g] # None
    BY <1>0, <2>1 DEF LevelOK
  <2>3. HeldPlans(g)' \subseteq HeldPlans(g)
    BY <1>4, <2>1, <2>2 DEF HeldPlans, PlanLabels
  <2>4. PassOK(g)'
    BY <1>4, <2>1 DEF PassOK, OwnLabels, PlanLabels
  <2> QED
    BY <2>3, <2>4 DEF CarriesOn
<1>5. CASE RefuseDesired(g) \/ PlanRejected(g) \/ PlanEmpty(g)
  BY <1>3, <1>5 DEF RefuseDesired, PlanRejected, PlanEmpty
<1>6. CASE AppendStale(g) \/ AppendSucceeded(g) \/ AppendFailed(g) \/ AppendCreated(g)
  BY <1>3, <1>6 DEF AppendStale, AppendSucceeded, AppendFailed, AppendCreated, AppendPending,
     PlanLabels
<1>7. CASE FindStale(g) \/ ResumeBinding(g) \/ ResumePlan(g)
  BY <1>4, <1>7 DEF FindStale, ResumeBinding, ResumePlan
<1>8. CASE PlanFresh(g)
  <2>1. /\ pc'[g] = "plan" /\ chk[g].plan = None /\ pc[g] = "load"
        /\ ~DesiredIsRefused(desired[g], journal.bindings)
    BY <1>0, <1>8 DEF Goto, PlanFresh, Loaded
  <2>2. HeldPlans(g)' \subseteq HeldPlans(g)
    BY <1>8, <2>1 DEF PlanFresh, HeldPlans, PlanLabels
  <2>3. PassOK(g)'
    BY <1>8, <2>1 DEF PlanFresh, PassOK, PlanLabels
  <2> QED
    BY <2>2, <2>3 DEF CarriesOn
<1>9. CASE \/ AppendStarted(g) \/ AppendBinding(g) \/ ObserveForApply(g) \/ ApplyStale(g)
           \/ ApplyCommits(g) \/ ApplyRejected(g)
  <2>1. pc[g] \in {"start", "bind", "observe", "apply"} /\ UNCHANGED <<process, chk, work>>
    BY <1>9 DEF AppendStarted, AppendBinding, ObserveForApply, ApplyStale, ApplyCommits, Commit,
       ApplyRejected, AppendPending
  <2>2. PICK label \in {"bind", "apply", "succeed", "start", "stale", "fail"} : 
          Goto(g, label) /\ (label \in {"observe", "apply"} => work[g].plan.op.kind # "bind")
    BY <1>0, <1>9 DEF AppendStarted, AppendBinding, ObserveForApply, ApplyStale, ApplyCommits,
       ApplyRejected, PassOK
  <2> QED
    BY <1>2, <2>1, <2>2 DEF PlanLabels
<1>10. CASE Propose(g)
  <2>1. pc[g] = "plan" /\ pc'[g] = "propose" /\ chk' = chk /\ desired' = desired /\ chk[g].plan = None
    BY <1>0, <1>10 DEF Propose, Goto, PassOK
  <2>2. HeldPlans(g)' \subseteq {work'[g].plan}
    BY <2>1 DEF HeldPlans
  <2>3. PassOK(g)'
    BY <1>1, <2>1 DEF PassOK, OwnLabels, PlanLabels
  <2> QED
    BY <1>10, <2>2, <2>3 DEF CarriesOn
<1>11. CASE SaveReport(g)
  <2>1. pc[g] = "publish" /\ pc'[g] = "deliver" /\ chk[g] \in Checkpoints /\ work' = work
    BY <1>0, <1>11 DEF SaveReport, Goto, LevelOK
  <2>2. chk'[g].plan = work[g].plan
    BY <1>0, <1>11, <2>1 DEF SaveReport, Saved, Checkpoints
  <2>3. HeldPlans(g)' \subseteq HeldPlans(g)
    BY <2>1, <2>2 DEF HeldPlans, PlanLabels
  <2>4. PassOK(g)'
    BY <2>1 DEF PassOK, OwnLabels, PlanLabels
  <2> QED
    BY <2>3, <2>4 DEF CarriesOn
<1> QED
  BY <1>5, <1>6, <1>7, <1>8, <1>9, <1>10, <1>11 DEF PassStep

(* So does every step of a graph.                                          *)
LEMMA GraphStepKeepsPass ==
  ASSUME MInv, NEW g \in Graphs, GraphStep(g)
  PROVE  PassOK(g)' /\ CarriesOn(g)
<1> USE DEF process, external
<1>0. /\ PassOK(g) /\ LevelOK(g) /\ pc \in [Graphs -> Labels] /\ work \in [Graphs -> Activities]
      /\ chk \in [Graphs -> Checkpoints \cup {None}]
  BY DEF MInv, OInv, LInv, TInv, TypeOK
<1>1. ASSUME pc'[g] \notin OwnLabels \cup {"publish"},
             \/ chk'[g] = chk[g]
             \/ chk[g] \in Checkpoints /\ chk'[g].plan \in {chk[g].plan, None}
             \/ pc[g] = "publish" /\ chk'[g].plan = work[g].plan /\ chk[g] # None
      PROVE  PassOK(g)' /\ CarriesOn(g)
  <2>1. HeldPlans(g)' \subseteq HeldPlans(g)
    BY <1>1, NoneIsNoCheckpoint DEF HeldPlans, OwnLabels, PlanLabels
  <2>2. PassOK(g)'
    BY <1>1 DEF PassOK, OwnLabels, PlanLabels
  <2> QED
    BY <2>1, <2>2 DEF CarriesOn
<1>2. CASE TaskStep(g)
  BY <1>0, <1>1, <1>2 DEF TaskStep, TakeTask, DropTask, BeginRedelivery, BeginPass, Goto, OwnLabels,
     PlanLabels
<1>3. CASE ReportAcknowledged(g)
  <2>1. pc'[g] = "idle" /\ chk[g] \in Checkpoints
    BY <1>0, <1>3 DEF ReportAcknowledged, Delivering, Finish, LevelOK
  <2>2. chk'[g].plan = chk[g].plan
    BY <1>0, <1>3, <2>1 DEF ReportAcknowledged, Checkpoints
  <2> QED
    BY <1>1, <2>1, <2>2 DEF OwnLabels, PlanLabels
<1>4. CASE RetireBegin(g) \/ RetireRelease(g)
  BY <1>0, <1>1, <1>4 DEF RetireBegin, RetireRelease, Goto, OwnLabels, PlanLabels
<1>5. CASE RetireSave(g)
  <2>1. pc'[g] = "idle" /\ chk[g] \in Checkpoints
    BY <1>0, <1>5 DEF RetireSave, Finish, LevelOK
  <2>2. chk'[g].plan = None
    BY <1>0, <1>5, <2>1 DEF RetireSave, Retired, Checkpoints
  <2> QED
    BY <1>1, <2>1, <2>2 DEF OwnLabels, PlanLabels
<1>6. CASE FaultStep(g)
  <2>1. CASE AppendUnacknowledged(g) \/ LoadFails(g) \/ ObserveFails(g) \/ ReportLost(g)
    <3>1. pc'[g] = "idle" /\ chk'[g] = chk[g]
      BY <1>0, <2>1 DEF AppendUnacknowledged, LoadFails, ObserveFails, ReportLost, Finish
    <3> QED
      BY <1>1, <3>1 DEF OwnLabels, PlanLabels
  <2>2. CASE ObserveForPlanFails(g) \/ CommitUnanswered(g) \/ ApplyUnavailable(g)
    <3>1. PICK plan : /\ plan = None \/ (pc[g] \in PlanLabels /\ plan = work[g].plan)
                      /\ Publish(g, plan, "retrying", TRUE) /\ chk' = chk
      BY <2>2 DEF ObserveForPlanFails, CommitUnanswered, Commit, ApplyUnavailable, PlanLabels
    <3>2. pc'[g] = "publish" /\ work'[g].plan = plan
      BY <1>0, <3>1 DEF Publish, Goto
    <3>3. HeldPlans(g)' \subseteq HeldPlans(g)
      BY <3>1, <3>2 DEF HeldPlans, PlanLabels
    <3>4. PassOK(g)'
      BY <3>2 DEF PassOK, OwnLabels, PlanLabels
    <3> QED
      BY <3>3, <3>4 DEF CarriesOn
  <2>3. CASE CommitThenRejected(g)
    <3>1. pc[g] = "apply" /\ pc'[g] = "fail" /\ UNCHANGED <<chk, work, desired, journal>>
      BY <1>0, <2>3 DEF CommitThenRejected, Commit, Goto
    <3>2. HeldPlans(g)' \subseteq HeldPlans(g)
      BY <3>1 DEF HeldPlans, PlanLabels
    <3>3. PassOK(g)'
      BY <1>0, <3>1 DEF PassOK, OwnLabels, PlanLabels
    <3> QED
      BY <3>2, <3>3 DEF CarriesOn
  <2>4. CASE SaveFails(g)
    <3>1. pc'[g] = "idle" /\ chk[g] \in Checkpoints /\ chk[g] # None
      BY <1>0, <2>4 DEF SaveFails, Delivering, Finish, LevelOK
    <3>2. \/ chk' = chk
          \/ pc[g] = "publish" /\ chk' = Saved(g)
          \/ chk' = Retired(g)
          \/ chk' = [chk EXCEPT ![g].report = None]
      BY <2>4 DEF SaveFails
    <3>3. \/ chk'[g].plan \in {chk[g].plan, None}
          \/ pc[g] = "publish" /\ chk'[g].plan = work[g].plan
      BY <1>0, <3>1, <3>2 DEF Saved, Retired, Checkpoints
    <3> QED
      BY <1>1, <3>1, <3>3 DEF OwnLabels, PlanLabels
  <2> QED
    BY <1>6, <2>1, <2>2, <2>3, <2>4 DEF FaultStep
<1>7. CASE ResumeGraph(g)
  <2>1. pc[g] = "idle" /\ pc' = pc /\ chk[g] \in Checkpoints
    BY <1>7 DEF ResumeGraph, MInv, OInv, LInv, TInv, ProcessOK, Quiet
  <2>2. chk'[g].plan = chk[g].plan
    BY <1>0, <1>7, <2>1 DEF ResumeGraph, Checkpoints
  <2> QED
    BY <1>1, <2>1, <2>2 DEF OwnLabels, PlanLabels
<1> QED
  BY <1>2, <1>3, <1>4, <1>5, <1>6, <1>7, PassStepKeepsPass DEF GraphStep, RetireStep

(* What is not a step of one graph's activity leaves plans and journal.    *)
OtherStep ==
  \/ CoreSends \/ ProcessCrashes \/ Boot \/ ResumeFails \/ Serve
  \/ \E g \in Graphs : ResumeSaveFails(g)
  \/ Drift
  \/ UNCHANGED vars

(* What no activity does leaves the journal alone, and the target unless   *)
(* somebody else edits it.                                                 *)
LEMMA OtherStepsKeepJournal ==
  ASSUME OtherStep
  PROVE  journal' = journal /\ (target' = target \/ Drift)
  BY DEF OtherStep, CoreSends, AcceptNew, AcceptAgain, ProcessCrashes, Crash, Boot, ResumeFails,
     Serve, ResumeSaveFails, Drift, external, vars

(* They leave every activity where it is, or end them all.                 *)
LEMMA OtherStepsKeepActivity ==
  ASSUME OtherStep
  PROVE  (pc' = pc /\ work' = work) \/ \A g \in Graphs : pc'[g] = "idle"
  BY DEF OtherStep, CoreSends, AcceptNew, AcceptAgain, ProcessCrashes, Crash, Wiped, Boot,
     ResumeFails, Serve, ResumeSaveFails, Drift, vars

(* They leave the passes that go on, and add no plan.                      *)
LEMMA OtherStepsKeepPass ==
  ASSUME MInv, OtherStep, NEW h \in Graphs
  PROVE  /\ PassOK(h)'
         /\ HeldPlans(h)' \subseteq HeldPlans(h)
         /\ journal' = journal
         /\ target' = target \/ Drift
<1> USE DEF external
<1>0. /\ PassOK(h) /\ pc \in [Graphs -> Labels] /\ chk \in [Graphs -> Checkpoints \cup {None}]
      /\ \A g \in boot : g \in Graphs /\ chk[g] \in Checkpoints
  BY DEF MInv, OInv, LInv, TInv, TypeOK, ProcessOK
<1>1. CASE CoreSends
  <2>1. PICK d \in Slices : AcceptNew(d) \/ AcceptAgain(d)
    BY <1>1 DEF CoreSends
  <2>2. /\ UNCHANGED <<pc, work, journal, target>>
        /\ pc[d.graph] = "idle" /\ d.graph \in Graphs
        /\ d.graph # h => desired'[h] = desired[h]
    BY <1>0, <2>1, SlicesAreTyped DEF AcceptNew, AcceptAgain, MInv, OInv, LInv, TInv, TypeOK
  <2>3. chk'[h] = chk[h] \/ (chk'[h].plan = None /\ pc[h] = "idle")
    BY <1>0, <2>1, <2>2 DEF AcceptNew, AcceptAgain, AcceptedCheckpoint
  <2>4. HeldPlans(h)' \subseteq HeldPlans(h)
    BY <2>2, <2>3 DEF HeldPlans, PlanLabels
  <2>5. pc[h] = "idle" \/ (chk'[h] = chk[h] /\ desired'[h] = desired[h])
    BY <2>2, <2>3, <2>1, <1>0 DEF AcceptNew, AcceptAgain
  <2>6. PassOK(h)'
    BY <1>0, <2>2, <2>5 DEF PassOK, OwnLabels, PlanLabels
  <2> QED
    BY <2>2, <2>4, <2>6
<1>2. ASSUME Crash
      PROVE  /\ PassOK(h)'
             /\ HeldPlans(h)' \subseteq HeldPlans(h)
             /\ journal' = journal /\ target' = target
  <2>1. pc'[h] = "idle" /\ UNCHANGED <<chk, journal, target>>
    BY <1>2 DEF Crash, Wiped
  <2> QED
    BY <2>1 DEF HeldPlans, PassOK, OwnLabels, PlanLabels
<1>3. CASE Boot \/ Serve \/ Drift \/ UNCHANGED vars
  <2>1. UNCHANGED <<chk, desired, pc, work, journal>> /\ (target' = target \/ Drift)
    BY <1>3 DEF Boot, Serve, Drift, vars
  <2> QED
    BY <1>0, <2>1 DEF HeldPlans, PassOK
<1>4. ASSUME NEW g \in Graphs, ResumeSaveFails(g)
      PROVE  /\ PassOK(h)'
             /\ HeldPlans(h)' \subseteq HeldPlans(h)
             /\ journal' = journal /\ target' = target
  <2>1. pc'[h] = "idle" /\ UNCHANGED <<journal, target>>
    BY <1>4 DEF ResumeSaveFails, Wiped
  <2>2. chk[g] \in Checkpoints
    BY <1>0, <1>4 DEF ResumeSaveFails
  <2>3. chk'[h] = chk[h] \/ (chk[h] \in Checkpoints /\ chk'[h].plan = chk[h].plan)
    BY <1>0, <1>4, <2>2 DEF ResumeSaveFails, Checkpoints
  <2>4. HeldPlans(h)' \subseteq HeldPlans(h)
    BY <2>1, <2>3, NoneIsNoCheckpoint DEF HeldPlans, PlanLabels
  <2> QED
    BY <2>1, <2>4 DEF PassOK, OwnLabels, PlanLabels
<1> QED
  BY <1>1, <1>2, <1>3, <1>4 DEF OtherStep, ProcessCrashes, ResumeFails

(* Every step is one of a graph's activity or one of the others.           *)
LEMMA StepsAreSorted ==
  ASSUME [Next]_vars
  PROVE  (\E g \in Graphs : GraphStep(g)) \/ OtherStep
  BY DEF Next, OtherStep

(* A graph's step leaves the plans of the other graphs, and what they do.  *)
LEMMA OthersKeepPass ==
  ASSUME MInv, NEW g \in Graphs, GraphStep(g), NEW h \in Graphs \ {g}
  PROVE  PassOK(h)' /\ HeldPlans(h)' = HeldPlans(h)
<1>1. /\ chk'[h] = chk[h] /\ desired'[h] = desired[h]
      /\ pc'[h] = pc[h] /\ work'[h] = work[h]
  BY Footprint DEF MInv, OInv, LInv
<1>2. HeldPlans(h)' = HeldPlans(h)
  BY <1>1 DEF HeldPlans
<1>3. pc[h] \in OwnLabels => journal'.bindings = journal.bindings
  BY Effects DEF MInv, OInv, OwnerOK, Unlocked, OwnLabels, PlanLabels, HoldsTarget
<1>4. PassOK(h)'
  BY <1>1, <1>3 DEF MInv, PassOK
<1> QED
  BY <1>2, <1>4

(* The plan of a pass that planned is what build_plan made of what it saw. *)
LEMMA ProposedIsMade ==
  ASSUME MInv, NEW g \in Graphs, Propose(g)
  PROVE  LET p == work'[g].plan IN
         /\ p.slice = desired[g]
         /\ p.observed = Observe(target, desired[g])
         /\ p.op \in First(Outstanding(p.slice, journal.bindings, p.observed))
         /\ ~PlanIsRefused(p.slice, p.observed)
         /\ Made(p)
<1>1. work[g] \in Activities /\ journal.bindings \in SUBSET Bindings
  BY DEF MInv, OInv, LInv, TInv, TypeOK, JournalTyped
<1>2. PICK op \in First(Outstanding(desired[g], journal.bindings, Observe(target, desired[g]))) :
        work' = [work EXCEPT ![g].plan = [id |-> FreshPlanId, slice |-> desired[g], op |-> op,
                                          observed |-> Observe(target, desired[g])]]
  BY DEF Propose
<1>3. /\ work'[g].plan.slice = desired[g]
      /\ work'[g].plan.op = op
      /\ work'[g].plan.observed = Observe(target, desired[g])
  BY <1>1, <1>2 DEF MInv, OInv, LInv, TInv, TypeOK, Activities
<1>4. ~PlanIsRefused(desired[g], Observe(target, desired[g]))
  BY DEF Propose
<1> QED
  BY <1>1, <1>2, <1>3, <1>4 DEF Made

(* MInv is inductive.                                                      *)
LEMMA NextKeepsPlans == ASSUME MInv, [Next]_vars PROVE MInv'
<1>1. OInv'
  BY NextKeepsOwner DEF MInv
<1>2. CASE OtherStep
  <2>1. Keyed(journal'.bindings)
    BY <1>2, OtherStepsKeepJournal DEF MInv
  <2>2. ASSUME NEW h \in Graphs
        PROVE  PassOK(h)' /\ \A p \in HeldPlans(h)' : Made(p)
    BY <1>2, OtherStepsKeepPass DEF MInv
  <2> QED
    BY <1>1, <2>1, <2>2 DEF MInv, Made
<1>3. ASSUME NEW g \in Graphs, GraphStep(g) PROVE MInv'
  <2>1. Keyed(journal'.bindings)
    BY <1>3, Effects, ClaimIsKeyed DEF MInv, BindsOnly, ReleasesOnly, Release, Keyed
  <2>2. ASSUME NEW h \in Graphs
        PROVE  PassOK(h)' /\ \A p \in HeldPlans(h)' : Made(p)
    <3>1. CASE h = g
      BY <1>3, <3>1, GraphStepKeepsPass, ProposedIsMade DEF CarriesOn, MInv
    <3>2. CASE h # g
      BY <1>3, <3>2, OthersKeepPass DEF MInv
    <3> QED
      BY <3>1, <3>2
  <2> QED
    BY <1>1, <2>1, <2>2 DEF MInv, Made
<1> QED
  BY <1>2, <1>3, StepsAreSorted

(* The initial states satisfy MInv.                                        *)
LEMMA InitHasPlans == ASSUME Init PROVE MInv
<1>1. OInv
  BY InitHasLevels DEF Init, OInv, OwnerOK, ExclusiveOwner, EmptyJournal, Unbound, Unlocked,
     OwnLabels, PlanLabels
<1> QED
  BY <1>1 DEF Init, MInv, PassOK, HeldPlans, Keyed, EmptyJournal, OwnLabels, PlanLabels

(* MInv is an invariant.                                                   *)
LEMMA PlansInvariant == Spec => []MInv
<1>1. Init => MInv
  BY InitHasPlans
<1>2. MInv /\ [Next]_vars => MInv'
  BY NextKeepsPlans
<1> QED
  BY <1>1, <1>2, PTL DEF Spec

-----------------------------------------------------------------------------
(* As long as core retires no graph: a plan in hand is still next.         *)

RetireFree ==
  \A g \in Graphs : /\ pc[g] \notin {"retire", "retired"}
                    /\ chk[g] # None => ~chk[g].retired

(* What the plan does is still next, or is already claimed, or another     *)
(* graph has come to own the target in the meantime.                       *)
Claimed(p) ==
  p.op.kind = "bind" /\ BindingFor(p.slice, p.op.context) \in journal.bindings
Current(p) ==
  \/ TargetOwned(p.slice, journal.bindings)
  \/ Claimed(p)
  \/ p.op \in First(Outstanding(p.slice, journal.bindings, p.observed))

CInv ==
  /\ MInv
  /\ RetireFree
  /\ \A g \in Graphs : \A p \in HeldPlans(g) : Current(p)

(* Only core starts a retirement.                                          *)
LEMMA NextKeepsRetireFree ==
  ASSUME OInv, RetireFree, "retire" \notin Faults, [Next]_vars
  PROVE  RetireFree'
<1> USE DEF process, external
<1>0. /\ pc \in [Graphs -> Labels] /\ chk \in [Graphs -> Checkpoints \cup {None}]
      /\ \A g \in boot : g \in Graphs /\ chk[g] \in Checkpoints
  BY DEF OInv, LInv, TInv, TypeOK, ProcessOK
<1>1. ASSUME NEW g \in Graphs, GraphStep(g) PROVE RetireFree'
  <2>1. \A h \in Graphs \ {g} : chk'[h] = chk[h] /\ pc'[h] = pc[h]
    BY <1>1, Footprint DEF OInv, LInv
  <2>2. chk'[g] # None => ~chk'[g].retired
    BY <1>1, GraphStepLocks DEF LockStep, RetireFree
  <2>3. pc'[g] \notin {"retire", "retired"}
    <3>1. CASE TaskStep(g) \/ ReportAcknowledged(g) \/ ResumeGraph(g)
      BY <1>0, <3>1 DEF TaskStep, DropTask, TakeTask, BeginRedelivery, BeginPass,
         ReportAcknowledged, Finish, Goto, ResumeGraph, RetireFree
    <3>2. CASE PassStep(g)
      BY <1>0, <3>2 DEF PassStep, RefuseDesired, FindStale, ResumeBinding, ResumePlan, PlanFresh,
         AppendStale, AppendStarted, AppendBinding, AppendSucceeded, AppendFailed, AppendCreated,
         ObserveForApply, ApplyStale, ApplyCommits, ApplyRejected, PlanRejected, PlanEmpty,
         Propose, SaveReport, Publish, Goto
    <3>3. CASE FaultStep(g)
      BY <1>0, <3>3 DEF FaultStep, AppendUnacknowledged, LoadFails, ObserveFails,
         ObserveForPlanFails, CommitUnanswered, CommitThenRejected, ApplyUnavailable, ReportLost,
         SaveFails, Publish, Goto, Finish
    <3>4. ~(RetireBegin(g) \/ RetireStep(g))
      BY DEF RetireBegin, RetireStep, RetireRelease, AppendPending, RetireSave, RetireFree
    <3> QED
      BY <1>1, <3>1, <3>2, <3>3, <3>4 DEF GraphStep
  <2> QED
    BY <2>1, <2>2, <2>3 DEF RetireFree
<1>2. CASE CoreSends
  BY <1>0, <1>2, SlicesAreTyped
     DEF CoreSends, AcceptNew, AcceptAgain, AcceptedCheckpoint, RetireFree
<1>3. ASSUME Crash PROVE RetireFree'
  BY <1>3 DEF Crash, Wiped, RetireFree
<1>4. CASE Boot \/ Serve \/ Drift \/ UNCHANGED vars
  BY <1>4 DEF Boot, Serve, Drift, vars, RetireFree
<1>5. ASSUME NEW g \in Graphs, ResumeSaveFails(g) PROVE RetireFree'
  <2>1. chk[g] \in Checkpoints
    BY <1>0, <1>5 DEF ResumeSaveFails
  <2>2. \A h \in Graphs : \/ chk'[h] = chk[h]
                          \/ chk[h] # None /\ chk'[h].retired = chk[h].retired
    BY <1>0, <1>5, <2>1, NoneIsNoCheckpoint DEF ResumeSaveFails, Checkpoints
  <2> QED
    BY <1>5, <2>2 DEF ResumeSaveFails, Wiped, RetireFree
<1> QED
  BY <1>1, <1>2, <1>3, <1>4, <1>5 DEF Next, ProcessCrashes, ResumeFails

(* A step of a graph leaves every plan in hand current: its own binding is *)
(* claimed by the plan itself, and shuts the other graphs out.             *)
LEMMA GraphStepKeepsCurrent ==
  ASSUME CInv, NEW g \in Graphs, GraphStep(g), NEW h \in Graphs, NEW p \in HeldPlans(h)'
  PROVE  Current(p)'
<1>0. MInv /\ OInv /\ LInv /\ JournalTyped(journal)
  BY DEF CInv, MInv, OInv, LInv, TInv, TypeOK
<1>1. CASE h = g /\ Propose(g) /\ HeldPlans(g)' \subseteq {work'[g].plan}
  <2>1. p = work'[g].plan /\ journal' = journal
    BY <1>1 DEF Propose, external
  <2>2. p.op \in First(Outstanding(p.slice, journal.bindings, p.observed))
    BY <1>0, <1>1, <2>1, ProposedIsMade
  <2> QED
    BY <2>1, <2>2 DEF Current
<1>2. CASE p \in HeldPlans(h)
  <2>1. Current(p)
    BY <1>2 DEF CInv
  <2>2. CASE journal'.bindings = journal.bindings
    BY <2>1, <2>2 DEF Current, Claimed
  <2>3. CASE BindsOnly(g)
    <3>1. work[g].plan \in HeldPlans(g)
      BY <2>3, HeldIsHeld DEF BindsOnly, PlanLabels
    <3>2. ClaimedBinding(work[g].plan) \in journal'.bindings
      BY <2>3 DEF BindsOnly, Claim
    <3>3. CASE h = g
      <4>1. p = work[g].plan
        BY <1>0, <1>2, <2>3, <3>3, HeldIsHeld DEF MInv, PassOK, BindsOnly, PlanLabels
      <4>2. p.op.kind = "bind"
        BY <1>0, <2>3, <4>1 DEF LInv, TInv, ActivityOK, BindsOnly
      <4> QED
        BY <3>2, <4>1, <4>2 DEF Current, Claimed, ClaimedBinding
    <3>4. CASE h # g
      <4>1. p.slice.graph = h /\ work[g].plan.slice.graph = g
        BY <1>0, <1>2, <3>1, HeldTyped
      <4> QED
        BY <3>2, <3>4, <4>1 DEF Current, TargetOwned, ClaimedBinding, BindingFor
    <3> QED
      BY <3>3, <3>4
  <2>4. ~ReleasesOnly(g)
    BY DEF ReleasesOnly, CInv, RetireFree
  <2> QED
    BY <1>0, <2>2, <2>3, <2>4, Effects
<1>3. CASE h # g
  BY <1>0, <1>2, <1>3, OthersKeepPass
<1> QED
  BY <1>0, <1>1, <1>2, <1>3, GraphStepKeepsPass DEF CarriesOn

(* CInv is inductive.                                                      *)
LEMMA NextKeepsCurrent ==
  ASSUME CInv, "retire" \notin Faults, [Next]_vars
  PROVE  CInv'
<1>1. MInv' /\ RetireFree'
  BY NextKeepsPlans, NextKeepsRetireFree DEF CInv, MInv
<1>2. ASSUME NEW h \in Graphs, NEW p \in HeldPlans(h)' PROVE Current(p)'
  <2>1. CASE OtherStep
    <3>1. p \in HeldPlans(h) /\ journal' = journal
      BY <2>1, OtherStepsKeepPass, OtherStepsKeepJournal DEF CInv
    <3> QED
      BY <3>1 DEF CInv, Current, Claimed
  <2> QED
    BY <2>1, GraphStepKeepsCurrent, StepsAreSorted
<1> QED
  BY <1>1, <1>2 DEF CInv

(* Without retirement every plan at hand is of the current bindings.       *)
LEMMA CurrentInvariant == "retire" \notin Faults => (Spec => []CInv)
<1> SUFFICES ASSUME "retire" \notin Faults PROVE Spec => []CInv
  OBVIOUS
<1>1. Init => CInv
  <2> SUFFICES ASSUME Init PROVE CInv
    OBVIOUS
  <2>1. MInv
    BY InitHasPlans
  <2> QED
    BY <2>1 DEF Init, CInv, RetireFree, HeldPlans, PlanLabels
<1>2. CInv /\ [Next]_vars => CInv'
  BY NextKeepsCurrent
<1> QED
  BY <1>1, <1>2, PTL DEF Spec

(* As long as core retires no graph, a fresh plan is what build_plan would *)
(* make now, however old it is: bindings that other passes or graphs       *)
(* recorded since, restarts, lost answers and changes somebody else made   *)
(* to the target and took back never leave an operation out of its turn.   *)
THEOREM AppliesFirstCorrect == "retire" \notin Faults => (Spec => []AppliesFirstOutstanding)
<1> SUFFICES ASSUME "retire" \notin Faults PROVE Spec => []AppliesFirstOutstanding
  OBVIOUS
<1>1. ASSUME CInv PROVE AppliesFirstOutstanding
  <2> SUFFICES ASSUME NEW g \in Graphs, pc[g] = "apply", Fresh(g)
               PROVE  work[g].plan.op \in First(Outstanding(Retained(g), journal.bindings,
                                                            Observe(target, Retained(g))))
    BY DEF AppliesFirstOutstanding
  <2> DEFINE p == work[g].plan
  <2>1. p \in HeldPlans(g)
    BY HeldIsHeld DEF PlanLabels
  <2>2. PassOK(g) /\ Current(p)
    BY <1>1, <2>1 DEF CInv, MInv
  <2>3. p.slice = Retained(g) /\ desired[g] = Retained(g)
    BY <1>1 DEF CInv, MInv, OInv, LInv, LevelOK, PlanOK, PlanLabels, Retained
  <2>4. ~TargetOwned(p.slice, journal.bindings) /\ ~Claimed(p)
    BY <2>2, <2>3 DEF PassOK, OwnLabels, PlanLabels, DesiredIsRefused, Claimed
  <2>5. p.observed = Observe(target, Retained(g))
    BY <2>3 DEF Fresh
  <2> QED
    BY <2>2, <2>3, <2>4, <2>5 DEF Current
<1>2. Spec => []CInv
  BY CurrentInvariant
<1> QED
  BY <1>1, <1>2, PTL

-----------------------------------------------------------------------------
(* As long as nobody else touches the target: a receipt tells the truth.   *)

(* The postcondition of the operation about to be receipted.               *)
Effective(g) ==
  LET op == work[g].plan.op IN
  IF op.kind = "bind"
  THEN BindingFor(work[g].plan.slice, op.context) \in journal.bindings
  ELSE OperationSatisfied(op, Observe(target, work[g].plan.slice))

EInv ==
  /\ MInv
  /\ target.open = {}
  /\ \A g \in Graphs : pc[g] = "succeed" => Effective(g)

(* How an activity comes to a success receipt.                             *)
LEMMA SucceedsFrom ==
  ASSUME MInv, NEW g \in Graphs, GraphStep(g), pc'[g] = "succeed"
  PROVE  AppendBinding(g) \/ ObserveForApply(g) \/ ApplyCommits(g)
<1>0. pc \in [Graphs -> Labels] /\ (g \in boot => pc[g] = "idle")
  BY DEF MInv, OInv, LInv, TInv, TypeOK, ProcessOK, Quiet
<1>1. CASE TaskStep(g) \/ ReportAcknowledged(g) \/ ResumeGraph(g)
  BY <1>0, <1>1 DEF TaskStep, DropTask, TakeTask, BeginRedelivery, BeginPass,
     ReportAcknowledged, Finish, Goto, ResumeGraph
<1>2. CASE PassStep(g)
  BY <1>0, <1>2 DEF PassStep, RefuseDesired, FindStale, ResumeBinding, ResumePlan, PlanFresh,
     AppendStale, AppendStarted, AppendSucceeded, AppendFailed, AppendCreated,
     ApplyStale, ApplyRejected, PlanRejected, PlanEmpty, Propose, SaveReport, Publish, Goto
<1>3. CASE FaultStep(g)
  BY <1>0, <1>3 DEF FaultStep, AppendUnacknowledged, LoadFails, ObserveFails,
     ObserveForPlanFails, CommitUnanswered, CommitThenRejected, ApplyUnavailable, ReportLost,
     SaveFails, Publish, Goto, Finish
<1>4. CASE RetireBegin(g) \/ RetireStep(g)
  BY <1>0, <1>4 DEF RetireBegin, RetireStep, RetireRelease, RetireSave, Goto, Finish
<1> QED
  BY <1>1, <1>2, <1>3, <1>4 DEF GraphStep

(* What a pass leaves behind is there, and the others cannot disturb it.   *)
LEMMA GraphStepKeepsEffect ==
  ASSUME EInv, NEW g \in Graphs, GraphStep(g)
  PROVE  target'.open = {} /\ \A h \in Graphs : pc'[h] = "succeed" => Effective(h)'
<1>0. /\ MInv /\ OInv /\ LInv /\ target \in TargetStates /\ JournalTyped(journal)
      /\ PassOK(g) /\ LevelOK(g) /\ ActivityOK(g)
  BY DEF EInv, MInv, OInv, LInv, TInv, TypeOK
<1> DEFINE p == work[g].plan
<1>1. ASSUME Commit(g)
      PROVE  /\ p.op.kind # "bind" /\ p.slice = desired[g]
             /\ OperationSatisfied(p.op, Observe(target', p.slice)) /\ target'.open = {}
  <2>1. p \in HeldPlans(g) /\ p.op.kind # "bind" /\ p.slice = desired[g]
    BY <1>0, <1>1, HeldIsHeld DEF Commit, PlanLabels, PassOK, LevelOK, PlanOK
  <2>2. PICK known \in SUBSET Bindings : p.op \in First(Outstanding(p.slice, known, p.observed))
    BY <1>0, <2>1 DEF MInv, Made
  <2>3. p.slice \in Slices
    BY <1>0, <2>1, HeldTyped
  <2>4. CanExecute(target, p.op) /\ target' = Execute(target, p.op) /\ target.open = {}
    BY <1>1 DEF Commit, EInv
  <2> QED
    BY <1>0, <2>1, <2>2, <2>3, <2>4, ExecuteSatisfies
<1>2. target'.open = {}
  BY <1>0, <1>1, Effects DEF EInv
<1>3. ASSUME NEW h \in Graphs, pc'[h] = "succeed", h # g PROVE Effective(h)'
  <2>1. pc[h] = "succeed" /\ work'[h] = work[h]
    BY <1>0, <1>3, Footprint DEF LInv
  <2>2. target' = target /\ journal'.bindings = journal.bindings
    BY <1>0, <1>3, <2>1, Effects DEF OInv, OwnerOK, Unlocked, HoldsTarget
  <2> QED
    BY <2>1, <2>2 DEF EInv, Effective
<1>4. ASSUME pc'[g] = "succeed" PROVE Effective(g)'
  <2>1. CASE AppendBinding(g)
    <3>1. pc[g] = "bind" /\ work' = work /\ p.op.kind = "bind"
      BY <1>0, <2>1 DEF AppendBinding, AppendPending, ActivityOK
    <3>2. /\ journal' = Appended(journal, Pending(g))
          /\ Pending(g).kind = "BindingEstablished" /\ Pending(g).binding = ClaimedBinding(p)
      BY <2>1, <3>1 DEF AppendBinding, AppendPending, Pending, BindingEstablished
    <3>3. ClaimedBinding(p) \in journal'.bindings
      BY <1>0, <3>2, AppendedBindings DEF Claim
    <3> QED
      BY <3>1, <3>3 DEF Effective, ClaimedBinding
  <2>2. CASE ObserveForApply(g)
    <3>1. pc[g] = "observe" /\ work' = work /\ target' = target
      BY <2>2 DEF ObserveForApply, external
    <3>2. Recovered(p, Observe(target, desired[g]))
      BY <1>0, <1>4, <2>2 DEF ObserveForApply, Goto, LInv, TInv, TypeOK
    <3>3. p.slice = desired[g] /\ p.op.kind # "bind"
      BY <1>0, <3>1 DEF PassOK, LevelOK, PlanOK, PlanLabels
    <3> QED
      BY <3>1, <3>2, <3>3 DEF Effective, Recovered
  <2>3. CASE ApplyCommits(g)
    <3>1. Commit(g) /\ work' = work
      BY <2>3 DEF ApplyCommits
    <3> QED
      BY <1>1, <3>1 DEF Effective
  <2> QED
    BY <1>0, <1>4, <2>1, <2>2, <2>3, SucceedsFrom
<1> QED
  BY <1>2, <1>3, <1>4

(* EInv is inductive.                                                      *)
LEMMA NextKeepsEffect ==
  ASSUME EInv, "drift" \notin Faults, [Next]_vars
  PROVE  EInv'
<1>1. MInv'
  BY NextKeepsPlans DEF EInv
<1>2. CASE OtherStep
  <2>1. target' = target /\ journal' = journal
    BY <1>2, OtherStepsKeepJournal DEF Drift
  <2> QED
    BY <1>1, <1>2, <2>1, OtherStepsKeepActivity DEF EInv, Effective
<1> QED
  BY <1>1, <1>2, GraphStepKeepsEffect, StepsAreSorted DEF EInv

(* A success receipt is true when it is appended: after a crash, a lost    *)
(* answer or a restart, and whichever other graph was served in between,   *)
(* the effect is there.  That nobody else changes the target, and that it  *)
(* came without a schema open to PUBLIC, is needed: the receipt is not     *)
(* appended in the transaction, and ConfigureApi does not close a schema.  *)
THEOREM ReceiptsAreTrueCorrect ==
  "drift" \notin Faults /\ (\A t \in InitialTargets : t.open = {}) => (Spec => ReceiptsAreTrue)
<1> SUFFICES ASSUME "drift" \notin Faults, \A t \in InitialTargets : t.open = {}
             PROVE  Spec => ReceiptsAreTrue
  OBVIOUS
<1>1. Init => EInv
  BY InitHasPlans DEF Init, EInv
<1>2. EInv /\ [Next]_vars => EInv'
  BY NextKeepsEffect
<1>3. EInv => [\A g \in Graphs :
                 LET op == work[g].plan.op IN
                 AppendSucceeded(g) =>
                   IF op.kind = "bind"
                   THEN BindingFor(Retained(g), op.context) \in journal.bindings
                   ELSE OperationSatisfied(op, Observe(target, Retained(g)))]_vars
  <2> SUFFICES ASSUME EInv, NEW g \in Graphs, AppendSucceeded(g)
               PROVE  LET op == work[g].plan.op IN
                      IF op.kind = "bind"
                      THEN BindingFor(Retained(g), op.context) \in journal.bindings
                      ELSE OperationSatisfied(op, Observe(target, Retained(g)))
    OBVIOUS
  <2>1. pc[g] = "succeed" /\ Effective(g)
    BY DEF AppendSucceeded, AppendPending, EInv
  <2>2. work[g].plan.slice = Retained(g)
    BY <2>1 DEF EInv, MInv, OInv, LInv, LevelOK, PlanOK, PlanLabels, Retained
  <2> QED
    BY <2>1, <2>2 DEF Effective
<1> QED
  BY <1>1, <1>2, <1>3, PTL DEF Spec, ReceiptsAreTrue
=============================================================================
