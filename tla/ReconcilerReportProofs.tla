----------------------- MODULE ReconcilerReportProofs -----------------------
(***************************************************************************)
(* What core is told, and that it is told in the end to ask again, for     *)
(* every value of the constants.                                           *)
(***************************************************************************)
EXTENDS ReconcilerPlanProofs

Final(g) == {Report(chk[g].slice, "ready"), Report(chk[g].slice, "failed")}

(* A pass ends the work on a level only with a final report and no plan;   *)
(* what was saved is what is delivered; and a level nobody works on is     *)
(* settled.                                                                *)
PassesOK(g) ==
  /\ pc[g] \in {"publish", "deliver"} /\ ~work[g].requeue =>
       work[g].plan = None /\ work[g].report \in Final(g)
  /\ pc[g] = "deliver" => chk[g].plan = work[g].plan /\ chk[g].report = work[g].report
  /\ proc # "down" /\ g \notin boot /\ Live(g) /\ ~Scheduled(g) => Settled(g)

PInv == LInv /\ \A g \in Graphs : PassesOK(g)

(* The failures of the environment that end a pass with nothing left to    *)
(* continue it are none of those a configuration lets happen.              *)
NothingEndsPasses == {"journal", "target", "provider", "disk"} \cap Faults = {}

-----------------------------------------------------------------------------
(* What a step of one activity leaves of the other graphs' reports.        *)
LEMMA CoreFootprint ==
  ASSUME TInv, NEW g \in Graphs, GraphStep(g), NEW h \in Graphs \ {g}
  PROVE  /\ core'[h] = core[h]
         /\ h \in boot' <=> h \in boot
         /\ proc' = proc
<1> USE DEF process, external
<1>0. core \in [Graphs -> Reports \cup {None}]
  BY DEF TInv, TypeOK
<1>1. CASE TaskStep(g)
  BY <1>1 DEF TaskStep, DropTask, BeginRedelivery, BeginPass
<1>2. CASE PassStep(g)
  BY <1>2 DEF PassStep, RefuseDesired, FindStale, ResumeBinding, ResumePlan, PlanFresh,
     AppendStale, AppendStarted, AppendBinding, AppendSucceeded, AppendFailed, AppendCreated,
     ObserveForApply, ApplyStale, ApplyCommits, ApplyRejected, PlanRejected, PlanEmpty,
     Propose, SaveReport
<1>3. CASE ReportAcknowledged(g) \/ ResumeGraph(g)
  BY <1>0, <1>3 DEF ReportAcknowledged, ResumeGraph, CoreReceives
<1>4. CASE RetireBegin(g) \/ RetireStep(g)
  BY <1>4 DEF RetireBegin, RetireStep, RetireRelease, RetireSave
<1>5. CASE FaultStep(g)
  BY <1>0, <1>5 DEF FaultStep, AppendUnacknowledged, LoadFails, ObserveFails,
     ObserveForPlanFails, CommitUnanswered, CommitThenRejected, ApplyUnavailable, ReportLost,
     SaveFails, CoreReceives
<1> QED
  BY <1>1, <1>2, <1>3, <1>4, <1>5 DEF GraphStep

(* The others keep working, or stay settled.                               *)
LEMMA OthersKeepPassing ==
  ASSUME PInv, NEW g \in Graphs, GraphStep(g), NEW h \in Graphs \ {g}
  PROVE  PassesOK(h)'
<1>1. /\ chk'[h] = chk[h] /\ tasks'[h] = tasks[h] /\ pc'[h] = pc[h] /\ work'[h] = work[h]
      /\ core'[h] = core[h] /\ (h \in boot' <=> h \in boot) /\ proc' = proc
  BY Footprint, CoreFootprint DEF PInv, LInv
<1>2. PassesOK(h)
  BY DEF PInv
<1>3. Final(h)' = Final(h)
  BY <1>1 DEF Final
<1>4. Live(h)' <=> Live(h)
  BY <1>1 DEF Live
<1>5. Scheduled(h)' <=> Scheduled(h)
  BY <1>1 DEF Scheduled, Retained
<1>6. Settled(h) => Settled(h)'
  BY <1>1 DEF Settled, Live, Retained, Report
<1> QED
  BY <1>1, <1>2, <1>3, <1>4, <1>5, <1>6 DEF PassesOK

(* One more task of the retained sequence is a task.                       *)
LEMMA SpawnedIsScheduled ==
  ASSUME TypeOK, NEW g \in Graphs, NEW q \in Sequences, NEW n \in Nat \ {0}
  PROVE  Spawned(g, q, n)[g][q] > 0
  BY MaxTasksIsPositive DEF TypeOK, Spawned, Counted

(* The graph whose step it is: its pass goes on, schedules another, or     *)
(* ends with the level settled.                                            *)
LEMMA GraphStepKeepsPassing ==
  ASSUME PInv, NothingEndsPasses, NEW g \in Graphs, GraphStep(g)
  PROVE  PassesOK(g)'
<1> USE DEF process, external
<1>0. /\ PassesOK(g) /\ LevelOK(g) /\ ActivityOK(g)
      /\ pc \in [Graphs -> Labels] /\ work \in [Graphs -> Activities]
      /\ chk \in [Graphs -> Checkpoints \cup {None}]
      /\ tasks \in [Graphs -> [Sequences -> 0 .. MaxTasks]]
      /\ core \in [Graphs -> Reports \cup {None}]
      /\ proc # "booting" => boot = {}
      /\ proc = "down" => pc[g] = "idle"
      /\ TypeOK
  BY DEF PInv, LInv, TInv, TypeOK, ProcessOK, Quiet
<1>1. ASSUME pc'[g] \notin {"idle", "publish", "deliver"} PROVE PassesOK(g)'
  BY <1>1 DEF PassesOK, Scheduled
<1>2. ASSUME NEW plan, NEW disposition, NEW requeue, Publish(g, plan, disposition, requeue),
             chk' = chk,
             ~requeue => plan = None /\ disposition \in {"ready", "failed"}
      PROVE  PassesOK(g)'
  <2>1. /\ pc'[g] = "publish"
        /\ work'[g] = [plan |-> plan, report |-> Report(chk[g].slice, disposition),
                       requeue |-> requeue]
    BY <1>0, <1>2 DEF Publish, Goto
  <2> QED
    BY <1>2, <2>1 DEF PassesOK, Scheduled, Final, Report
<1>3. ASSUME pc'[g] = "idle", chk[g] \in Checkpoints, chk'[g].slice = chk[g].slice,
             tasks'[g][chk[g].slice.sequence] > 0
      PROVE  PassesOK(g)'
  BY <1>3 DEF PassesOK, Scheduled, Retained
<1>4. ASSUME pc[g] # "idle" PROVE chk[g] \in Checkpoints /\ chk[g].slice.sequence \in Sequences
  BY <1>0, <1>4 DEF LevelOK, Checkpoints, Sequences
<1>01. \A q \in Sequences : Spawned(g, q, 1)[g][q] > 0
  <2>1. 1 \in Nat \ {0}
    OBVIOUS
  <2> QED
    BY <1>0, <2>1, SpawnedIsScheduled
<1>5. CASE PassStep(g)
  <2>1. CASE RefuseDesired(g) \/ PlanRejected(g) \/ PlanEmpty(g)
    BY <1>2, <2>1 DEF RefuseDesired, PlanRejected, PlanEmpty
  <2>2. CASE AppendStale(g) \/ AppendSucceeded(g) \/ AppendFailed(g) \/ AppendCreated(g)
    BY <1>2, <2>2 DEF AppendStale, AppendSucceeded, AppendFailed, AppendCreated
  <2>3. CASE \/ FindStale(g) \/ ResumeBinding(g) \/ ResumePlan(g) \/ PlanFresh(g)
             \/ AppendStarted(g) \/ AppendBinding(g) \/ ObserveForApply(g) \/ ApplyStale(g)
             \/ ApplyCommits(g) \/ ApplyRejected(g) \/ Propose(g)
    BY <1>0, <1>1, <2>3 DEF FindStale, ResumeBinding, ResumePlan, PlanFresh, AppendStarted,
       AppendBinding, ObserveForApply, ApplyStale, ApplyCommits, ApplyRejected, Propose, Goto
  <2>4. CASE SaveReport(g)
    <3>1. pc[g] = "publish" /\ pc'[g] = "deliver" /\ chk[g] \in Checkpoints /\ work' = work
      BY <1>0, <1>4, <2>4 DEF SaveReport, Goto
    <3>2. /\ chk'[g].plan = work[g].plan /\ chk'[g].report = work[g].report
          /\ chk'[g].slice = chk[g].slice
      BY <1>0, <2>4, <3>1 DEF SaveReport, Saved, Checkpoints
    <3> QED
      BY <1>0, <3>1, <3>2 DEF PassesOK, Scheduled, Final, Report
  <2> QED
    BY <1>5, <2>1, <2>2, <2>3, <2>4 DEF PassStep
<1>6. CASE TaskStep(g)
  <2>1. CASE \E q \in Sequences : DropTask(g, q)
    <3>1. PICK q \in Sequences : DropTask(g, q)
      BY <2>1
    <3>2. /\ UNCHANGED <<proc, boot, chk, pc, work, core>> /\ pc[g] = "idle"
          /\ \A r \in Sequences \ {q} : tasks'[g][r] = tasks[g][r]
          /\ tasks[g][q] > 0
      BY <1>0, <3>1 DEF DropTask, TakeTask
    <3>3. chk[g] \in Checkpoints
      BY <1>0, <3>2 DEF ActivityOK
    <3>4. Live(g) => chk[g].slice.sequence \in Sequences \ {q}
      BY <3>1, <3>3 DEF DropTask, Live, Checkpoints, Sequences
    <3>5. Live(g)' /\ ~Scheduled(g)' => Live(g) /\ ~Scheduled(g)
      BY <3>2, <3>4 DEF Live, Scheduled, Retained
    <3>6. Settled(g) => Settled(g)'
      BY <3>2 DEF Settled, Live, Retained, Report
    <3> QED
      BY <1>0, <3>2, <3>5, <3>6 DEF PassesOK
  <2>2. CASE \E q \in Sequences : BeginRedelivery(g, q) \/ BeginPass(g, q)
    BY <1>0, <1>1, <2>2 DEF BeginRedelivery, BeginPass, Goto
  <2> QED
    BY <1>6, <2>1, <2>2 DEF TaskStep
<1>7. CASE ReportAcknowledged(g)
  <2>1. /\ chk[g] \in Checkpoints /\ pc'[g] = "idle" /\ chk[g].slice.sequence \in Sequences
        /\ chk'[g] = [chk[g] EXCEPT !.report = None] /\ core'[g] = chk[g].report
    BY <1>0, <1>4, <1>7 DEF ReportAcknowledged, Delivering, Finish, CoreReceives
  <2>2. /\ chk'[g].slice = chk[g].slice /\ chk'[g].plan = chk[g].plan
        /\ chk'[g].report = None /\ chk'[g].retired = chk[g].retired /\ chk[g] # None
        /\ chk'[g] \in Checkpoints
    BY <2>1, NoneIsNoCheckpoint DEF Checkpoints
  <2>3. CASE Requeues(g)
    <3>1. tasks' = Spawned(g, chk[g].slice.sequence, 1)
      BY <1>7, <2>3 DEF ReportAcknowledged, Schedule
    <3> QED
      BY <1>3, <1>01, <2>1, <2>2, <3>1
  <2>4. CASE ~Requeues(g)
    <3>1. pc[g] = "deliver" /\ ~work[g].requeue
      BY <1>7, <2>4 DEF ReportAcknowledged, Delivering, Requeues
    <3>2. chk[g].plan = None /\ chk[g].report \in Final(g) /\ ~chk[g].retired
      BY <1>0, <3>1 DEF PassesOK, LevelOK
    <3>3. Settled(g)'
      BY <2>1, <2>2, <3>2, NoneIsNoCheckpoint DEF Settled, Live, Retained, Report, Final
    <3> QED
      BY <2>1, <3>3 DEF PassesOK
  <2> QED
    BY <2>3, <2>4
<1>8. CASE ResumeGraph(g)
  <2>1. chk[g] \in Checkpoints /\ pc'[g] = "idle"
    BY <1>8 DEF ResumeGraph, PInv, LInv, TInv, ProcessOK, Quiet
  <2>2. chk'[g].slice = chk[g].slice /\ chk[g].slice.sequence \in Sequences
    BY <1>0, <1>8, <2>1 DEF ResumeGraph, Checkpoints, Sequences
  <2>3. tasks'[g][chk[g].slice.sequence] > 0
    BY <1>8, <1>01, <2>2 DEF ResumeGraph, Schedule
  <2> QED
    BY <1>3, <2>1, <2>2, <2>3
<1>9. CASE RetireBegin(g) \/ RetireRelease(g)
  BY <1>0, <1>1, <1>9 DEF RetireBegin, RetireRelease, Goto
<1>10. CASE RetireSave(g)
  <2>1. chk[g] \in Checkpoints /\ pc'[g] = "idle"
    BY <1>0, <1>4, <1>10 DEF RetireSave, Finish
  <2>2. chk'[g].retired
    BY <1>0, <1>10, <2>1 DEF RetireSave, Retired, Checkpoints
  <2> QED
    BY <2>1, <2>2 DEF PassesOK, Live
<1>11. CASE FaultStep(g)
  <2>1. CASE ReportLost(g)
    <3>1. /\ pc'[g] = "idle" /\ chk' = chk /\ chk[g] \in Checkpoints
          /\ chk[g].slice.sequence \in Sequences
      BY <1>0, <1>4, <2>1 DEF ReportLost, Delivering, Finish
    <3>2. \E n \in Nat \ {0} : tasks' = Spawned(g, chk[g].slice.sequence, n)
      BY <2>1 DEF ReportLost, Schedule
    <3>3. tasks'[g][chk[g].slice.sequence] > 0
      BY <1>0, <3>1, <3>2, SpawnedIsScheduled
    <3> QED
      BY <1>3, <3>1, <3>3
  <2>2. ReportLost(g)
    BY <1>11 DEF NothingEndsPasses, FaultStep, AppendUnacknowledged, LoadFails, ObserveFails,
       ObserveForPlanFails, CommitUnanswered, CommitThenRejected, ApplyUnavailable, SaveFails
  <2> QED
    BY <2>1, <2>2
<1> QED
  BY <1>5, <1>6, <1>7, <1>8, <1>9, <1>10, <1>11 DEF GraphStep, RetireStep

(* What is not a step of a graph's activity keeps every level in work or   *)
(* settled.                                                                *)
LEMMA OtherStepsKeepPassing ==
  ASSUME PInv, NothingEndsPasses, OtherStep, NEW h \in Graphs
  PROVE  PassesOK(h)'
<1> USE DEF process, external
<1>0. /\ PassesOK(h) /\ LevelOK(h) /\ TypeOK
      /\ pc \in [Graphs -> Labels]
      /\ chk \in [Graphs -> Checkpoints \cup {None}]
      /\ tasks \in [Graphs -> [Sequences -> 0 .. MaxTasks]]
      /\ proc # "booting" => boot = {}
  BY DEF PInv, LInv, TInv, TypeOK, ProcessOK
<1>1. CASE CoreSends
  <2>1. PICK d \in Slices : AcceptNew(d) \/ AcceptAgain(d)
    BY <1>1 DEF CoreSends
  <2>2. /\ d.graph \in Graphs /\ d.sequence \in Sequences
        /\ UNCHANGED <<proc, boot, pc, work, core>>
        /\ tasks' = Spawned(d.graph, d.sequence, 1)
        /\ chk' = chk \/ chk' = [chk EXCEPT ![d.graph] = AcceptedCheckpoint(d, chk[d.graph])]
        /\ pc[d.graph] = "idle"
    BY <1>0, <2>1, SlicesAreTyped
       DEF AcceptNew, AcceptAgain, NothingEndsPasses, Sequences, Schedule
  <2>3. CASE h = d.graph
    <3>1. chk'[h].slice.sequence = d.sequence
      BY <1>0, <2>1, <2>2, <2>3 DEF AcceptNew, AcceptAgain, AcceptedCheckpoint
    <3>2. 1 \in Nat \ {0}
      OBVIOUS
    <3>3. tasks'[h][d.sequence] > 0
      BY <1>0, <2>2, <2>3, <3>2, SpawnedIsScheduled
    <3> QED
      BY <2>2, <2>3, <3>1, <3>3 DEF PassesOK, Scheduled, Retained
  <2>4. CASE h # d.graph
    <3>1. chk'[h] = chk[h]
      BY <1>0, <2>2, <2>4
    <3>2. tasks'[h] = tasks[h]
      BY <1>0, <2>2, <2>4 DEF Spawned
    <3> QED
      BY <1>0, <2>2, <3>1, <3>2
         DEF PassesOK, Final, Report, Live, Scheduled, Settled, Retained
  <2> QED
    BY <2>3, <2>4
<1>2. ASSUME Crash PROVE PassesOK(h)'
  BY <1>2 DEF Crash, Wiped, PassesOK
<1>3. CASE Boot
  <2>1. pc'[h] = "idle" /\ (h \in boot' <=> Live(h)) /\ chk' = chk
    BY <1>3 DEF Boot, PInv, LInv, TInv, ProcessOK, Quiet
  <2> QED
    BY <2>1 DEF PassesOK, Live
<1>4. CASE Serve \/ Drift \/ UNCHANGED vars
  <2>1. /\ UNCHANGED <<boot, chk, tasks, pc, work, core>>
        /\ proc' # "down" => proc # "down"
    BY <1>4 DEF Serve, Drift, vars
  <2> QED
    BY <1>0, <2>1 DEF PassesOK, Final, Report, Live, Scheduled, Settled, Retained
<1>5. ~\E g \in Graphs : ResumeSaveFails(g)
  BY DEF ResumeSaveFails, NothingEndsPasses
<1> QED
  BY <1>1, <1>2, <1>3, <1>4, <1>5 DEF OtherStep, ProcessCrashes, ResumeFails

(* PInv is inductive.                                                      *)
LEMMA NextKeepsPassing ==
  ASSUME PInv, NothingEndsPasses, [Next]_vars
  PROVE  PInv'
<1>1. LInv'
  BY NextKeepsLevel DEF PInv
<1>2. CASE OtherStep
  BY <1>1, <1>2, OtherStepsKeepPassing DEF PInv
<1>3. ASSUME NEW g \in Graphs, GraphStep(g) PROVE PInv'
  BY <1>1, <1>3, GraphStepKeepsPassing, OthersKeepPassing DEF PInv
<1> QED
  BY <1>2, <1>3, StepsAreSorted

(* While the connector serves, a level that is not settled always has a    *)
(* pass running or scheduled, whatever crashes, whatever core fails to     *)
(* acknowledge or to return, whatever the database refuses and whoever     *)
(* changes it: only an error of the journal, of the target's connection or *)
(* of the state directory ends a task with nothing left to continue it.    *)
THEOREM NoLostPassCorrect == NothingEndsPasses => (Spec => []NoLostPass)
<1> SUFFICES ASSUME NothingEndsPasses PROVE Spec => []NoLostPass
  OBVIOUS
<1>1. Init => PInv
  BY InitHasLevels DEF Init, PInv, PassesOK, Live
<1>2. PInv /\ [Next]_vars => PInv'
  BY NextKeepsPassing
<1>3. PInv => NoLostPass
  BY DEF PInv, PassesOK, NoLostPass, LInv, TInv, ProcessOK
<1> QED
  BY <1>1, <1>2, <1>3, PTL DEF Spec

-----------------------------------------------------------------------------
(* What core is told is ready.                                             *)

(* Reports belong to the retained level, or to an older one at core.       *)
ReportOK(g) ==
  /\ core[g] # None => chk[g] # None /\ core[g].slice.sequence <= chk[g].slice.sequence
  /\ chk[g] # None /\ chk[g].report # None => chk[g].report.slice = chk[g].slice
  /\ pc[g] = "publish" => work[g].report.slice = chk[g].slice

(* "ready" was told to core, or is on its way.                             *)
Told(g) ==
  /\ chk[g] # None
  /\ \/ core[g] = Report(chk[g].slice, "ready")
     \/ chk[g].report = Report(chk[g].slice, "ready")
     \/ pc[g] = "publish" /\ work[g].report = Report(chk[g].slice, "ready")

(* All of it is there, and by the graph's own bindings.                    *)
Backed(g) ==
  /\ Converged(chk[g].slice, journal.bindings, Observe(target, chk[g].slice))
  /\ journal.bindings # {}
  /\ \A b \in journal.bindings : b.graph = g

RInv ==
  /\ CInv
  /\ \A g \in Graphs : ReportOK(g) /\ (Told(g) => Backed(g))

(* Only the holder of the bindings can change bindings or target, and it   *)
(* has nothing to do.                                                      *)
LEMMA BackedIsStable ==
  ASSUME RInv, NEW g \in Graphs, GraphStep(g), NEW h \in Graphs, chk[h] # None, Backed(h)
  PROVE  target' = target /\ journal'.bindings = journal.bindings
<1>0. MInv /\ CInv /\ OInv /\ LInv /\ JournalTyped(journal) /\ PassOK(g) /\ OwnerOK(g) /\ LevelOK(g)
  BY DEF RInv, CInv, MInv, OInv, LInv, TInv, TypeOK
<1> DEFINE p == work[g].plan
<1>1. pc[g] \in OwnLabels => g = h
  BY <1>0 DEF OwnerOK, Backed
<1>2. ASSUME pc[g] \in {"bind", "apply"}
      PROVE  /\ g = h /\ p.slice = chk[g].slice /\ desired[g] = chk[g].slice
             /\ Claimed(p) \/ p.op \in First(Outstanding(p.slice, journal.bindings, p.observed))
  <2>1. p \in HeldPlans(g) /\ pc[g] \in OwnLabels
    BY <1>2, HeldIsHeld DEF OwnLabels, PlanLabels
  <2>2. Current(p)
    BY <1>0, <2>1 DEF CInv
  <2>3. p.slice = chk[g].slice /\ desired[g] = chk[g].slice
    BY <1>0, <1>2 DEF LevelOK, PlanOK, PlanLabels
  <2>4. ~TargetOwned(p.slice, journal.bindings)
    BY <1>0, <2>1, <2>3 DEF PassOK, DesiredIsRefused
  <2> QED
    BY <1>1, <2>1, <2>2, <2>3, <2>4 DEF Current
<1>3. ~Commit(g)
  <2> SUFFICES ASSUME Commit(g) PROVE FALSE
    OBVIOUS
  <2>1. pc[g] = "apply" /\ p.observed = Observe(target, desired[g])
    BY DEF Commit, Fresh
  <2>2. ~Claimed(p)
    BY <1>0, <2>1 DEF PassOK, Claimed
  <2>3. p.op \in First(Outstanding(chk[h].slice, journal.bindings, Observe(target, chk[h].slice)))
    BY <1>2, <2>1, <2>2
  <2> QED
    BY <2>3 DEF Backed, Converged, First
<1>4. BindsOnly(g) => journal'.bindings = journal.bindings
  <2> SUFFICES ASSUME BindsOnly(g) PROVE journal'.bindings = journal.bindings
    OBVIOUS
  <2>1. pc[g] = "bind" /\ journal'.bindings = Claim(journal.bindings, ClaimedBinding(p))
    BY DEF BindsOnly
  <2>2. p.op.kind = "bind"
    BY <1>0, <2>1 DEF LInv, TInv, ActivityOK
  <2>3. Claimed(p)
    <3> SUFFICES ASSUME p.op \in First(Outstanding(p.slice, journal.bindings, p.observed))
                 PROVE  FALSE
      BY <1>2, <2>1
    <3>1. p.op \in First(Outstanding(chk[h].slice, journal.bindings, Observe(target, chk[h].slice)))
      BY <1>2, <2>1, <2>2, BindingFirst
    <3> QED
      BY <3>1 DEF Backed, Converged, First
  <2> QED
    BY <1>0, <2>1, <2>3, ClaimIsKeyed DEF MInv, Claimed, ClaimedBinding
<1>5. ~ReleasesOnly(g)
  BY <1>0 DEF ReleasesOnly, CInv, RetireFree
<1> QED
  BY <1>0, <1>3, <1>4, <1>5, Effects

(* What a step of an activity does to the report of its graph: made by     *)
(* publish, saved, delivered, forgotten.                                   *)
ReportStep(g) ==
  /\ chk[g] # None => chk'[g] # None /\ chk'[g].slice = chk[g].slice
  /\ chk[g] = None => chk'[g] = None
  /\ core'[g] = core[g] \/ (chk[g] # None /\ core'[g] = chk[g].report)
  /\ chk[g] # None => \/ chk'[g].report \in {chk[g].report, None}
                      \/ pc[g] = "publish" /\ chk'[g].report = work[g].report
  /\ pc'[g] = "publish" => /\ chk[g] # None
                           /\ \/ work'[g].report = Report(chk[g].slice, "ready") /\ PlanEmpty(g)
                              \/ \E disposition \in {"failed", "reconciling", "retrying"} :
                                   work'[g].report = Report(chk[g].slice, disposition)

(* Every step of an activity does with reports only what ReportStep says:  *)
(* a report is made for the retained level, saved, and then delivered.     *)
LEMMA GraphStepReports == ASSUME LInv, NEW g \in Graphs, GraphStep(g) PROVE ReportStep(g)
<1> USE DEF process, external
<1>0. /\ LevelOK(g) /\ ActivityOK(g)
      /\ pc \in [Graphs -> Labels] /\ work \in [Graphs -> Activities]
      /\ chk \in [Graphs -> Checkpoints \cup {None}]
      /\ core \in [Graphs -> Reports \cup {None}]
      /\ g \in boot => pc[g] = "idle" /\ chk[g] \in Checkpoints
  BY DEF LInv, TInv, TypeOK, ProcessOK, Quiet
<1>1. ASSUME pc'[g] # "publish", chk' = chk, core' = core PROVE ReportStep(g)
  BY <1>1 DEF ReportStep
<1>2. ASSUME pc[g] # "idle", NEW plan, NEW disposition \in {"ready", "failed", "reconciling", "retrying"},
             NEW requeue, Publish(g, plan, disposition, requeue),
             chk' = chk, core' = core, disposition = "ready" => PlanEmpty(g)
      PROVE  ReportStep(g)
  <2>1. work'[g].report = Report(chk[g].slice, disposition)
    BY <1>0, <1>2 DEF Publish
  <2> QED
    BY <1>0, <1>2, <2>1 DEF ReportStep, LevelOK
<1>3. ASSUME pc[g] # "idle" PROVE chk[g] \in Checkpoints /\ chk[g] # None
  BY <1>0, <1>3 DEF LevelOK
<1>4. CASE PassStep(g)
  <2>1. CASE RefuseDesired(g) \/ PlanRejected(g)
    BY <1>2, <2>1 DEF RefuseDesired, Loaded, PlanRejected
  <2>2. CASE PlanEmpty(g)
    <3>1. pc[g] # "idle" /\ Publish(g, None, "ready", FALSE) /\ chk' = chk /\ core' = core
      BY <2>2 DEF PlanEmpty
    <3> QED
      BY <1>2, <2>2, <3>1
  <2>3. CASE AppendStale(g) \/ AppendSucceeded(g) \/ AppendFailed(g) \/ AppendCreated(g)
    BY <1>2, <2>3 DEF AppendStale, AppendSucceeded, AppendFailed, AppendCreated, AppendPending
  <2>4. CASE \/ FindStale(g) \/ ResumeBinding(g) \/ ResumePlan(g) \/ PlanFresh(g)
             \/ AppendStarted(g) \/ AppendBinding(g) \/ ObserveForApply(g) \/ ApplyStale(g)
             \/ ApplyCommits(g) \/ ApplyRejected(g) \/ Propose(g)
    BY <1>0, <1>1, <2>4 DEF FindStale, ResumeBinding, ResumePlan, PlanFresh, AppendStarted,
       AppendBinding, ObserveForApply, ApplyStale, ApplyCommits, ApplyRejected, Propose, Goto
  <2>5. CASE SaveReport(g)
    <3>1. pc[g] = "publish" /\ pc'[g] = "deliver" /\ core' = core
      BY <1>0, <2>5 DEF SaveReport, Goto
    <3>2. /\ chk'[g].report = work[g].report /\ chk'[g].slice = chk[g].slice
          /\ chk'[g] \in Checkpoints
      BY <1>0, <1>3, <2>5, <3>1 DEF SaveReport, Saved, Checkpoints, Activities
    <3> QED
      BY <1>3, <3>1, <3>2, NoneIsNoCheckpoint DEF ReportStep
  <2> QED
    BY <1>4, <2>1, <2>2, <2>3, <2>4, <2>5 DEF PassStep
<1>5. CASE TaskStep(g) \/ RetireBegin(g) \/ RetireRelease(g)
  BY <1>0, <1>1, <1>5 DEF TaskStep, TakeTask, DropTask, BeginRedelivery, BeginPass, RetireBegin,
     RetireRelease, Goto
<1>6. ASSUME chk[g] \in Checkpoints, chk[g] # None, pc'[g] # "publish",
             core'[g] \in {core[g], chk[g].report},
             \/ chk'[g] = chk[g]
             \/ chk'[g] = [chk[g] EXCEPT !.report = None]
             \/ chk'[g] = [chk[g] EXCEPT !.retired = TRUE, !.plan = None, !.report = None]
             \/ pc[g] = "publish"
                  /\ chk'[g] = [chk[g] EXCEPT !.plan = work[g].plan, !.report = work[g].report]
      PROVE  ReportStep(g)
  <2>1. /\ chk'[g].slice = chk[g].slice
        /\ \/ chk'[g].report \in {chk[g].report, None}
           \/ pc[g] = "publish" /\ chk'[g].report = work[g].report
    BY <1>6 DEF Checkpoints
  <2>2. work[g].plan \in ResourcePlans \cup {None} /\ work[g].report \in Reports \cup {None}
    BY <1>0 DEF Activities
  <2>3. chk'[g] \in Checkpoints
    BY <1>6, <2>2 DEF Checkpoints
  <2>4. chk'[g] # None
    BY <2>3, NoneIsNoCheckpoint
  <2> QED
    BY <1>6, <2>1, <2>4 DEF ReportStep
<1>7. CASE ReportAcknowledged(g) \/ RetireSave(g) \/ ReportLost(g) \/ SaveFails(g)
  <2>1. pc[g] # "idle" /\ pc'[g] = "idle"
    BY <1>0, <1>7 DEF ReportAcknowledged, RetireSave, ReportLost, SaveFails, Delivering, Finish
  <2>2. core'[g] \in {core[g], chk[g].report}
    BY <1>0, <1>7 DEF ReportAcknowledged, RetireSave, ReportLost, SaveFails, CoreReceives
  <2>3. \/ chk' = chk
        \/ chk' = [chk EXCEPT ![g].report = None]
        \/ chk' = Retired(g)
        \/ pc[g] = "publish" /\ chk' = Saved(g)
    BY <1>7 DEF ReportAcknowledged, RetireSave, ReportLost, SaveFails
  <2>4. \/ chk'[g] = chk[g]
        \/ chk'[g] = [chk[g] EXCEPT !.report = None]
        \/ chk'[g] = [chk[g] EXCEPT !.retired = TRUE, !.plan = None, !.report = None]
        \/ pc[g] = "publish"
             /\ chk'[g] = [chk[g] EXCEPT !.plan = work[g].plan, !.report = work[g].report]
    BY <1>0, <2>3 DEF Retired, Saved
  <2> QED
    BY <1>3, <1>6, <2>1, <2>2, <2>4
<1>8. CASE ResumeGraph(g)
  <2>1. chk[g] \in Checkpoints /\ pc'[g] = "idle"
    BY <1>0, <1>8 DEF ResumeGraph
  <2>2. core'[g] \in {core[g], chk[g].report}
    BY <1>0, <1>8 DEF ResumeGraph, CoreReceives
  <2>3. chk'[g] = chk[g] \/ chk'[g] = [chk[g] EXCEPT !.report = None]
    BY <1>0, <1>8 DEF ResumeGraph
  <2> QED
    BY <1>6, <2>1, <2>2, <2>3, NoneIsNoCheckpoint
<1>9. CASE FaultStep(g)
  <2>1. CASE AppendUnacknowledged(g) \/ LoadFails(g) \/ ObserveFails(g) \/ CommitThenRejected(g)
    BY <1>0, <1>1, <2>1 DEF AppendUnacknowledged, LoadFails, ObserveFails, CommitThenRejected,
       Finish, Goto
  <2>2. CASE ObserveForPlanFails(g) \/ CommitUnanswered(g) \/ ApplyUnavailable(g)
    BY <1>2, <2>2 DEF ObserveForPlanFails, CommitUnanswered, ApplyUnavailable, Commit
  <2> QED
    BY <1>7, <1>9, <2>1, <2>2 DEF FaultStep
<1> QED
  BY <1>4, <1>5, <1>7, <1>8, <1>9 DEF GraphStep, RetireStep

(* What is backed stays so while bindings, target and level do.            *)
LEMMA BackedIsKept ==
  ASSUME NEW h \in Graphs, Backed(h), chk'[h].slice = chk[h].slice,
         target' = target, journal'.bindings = journal.bindings
  PROVE  Backed(h)'
  BY DEF Backed

(* A level with nothing outstanding is backed by bindings.                 *)
LEMMA EmptyPlanIsBacked ==
  ASSUME OInv, LevelsHaveComponents, NEW g \in Graphs, PlanEmpty(g)
  PROVE  Backed(g)
<1>1. /\ pc[g] = "plan" /\ desired[g] = chk[g].slice /\ desired[g] \in Slices
      /\ \A b \in journal.bindings : b.graph = g
  BY DEF PlanEmpty, OInv, OwnerOK, OwnLabels, PlanLabels, LInv, TInv, ActivityOK, LevelOK
<1>2. Converged(desired[g], journal.bindings, Observe(target, desired[g]))
  BY DEF PlanEmpty
<1>3. BindSteps(desired[g], journal.bindings) = {}
  BY <1>2 DEF Converged, Outstanding
<1>4. PICK i \in DOMAIN ComponentsOf(desired[g]) : TRUE
  BY <1>1 DEF LevelsHaveComponents, DesiredContexts, ContextsOf, ComponentsOf
<1>5. Bound(ComponentsOf(desired[g])[i], journal.bindings)
  BY <1>3, <1>4 DEF BindSteps
<1> QED
  BY <1>1, <1>2, <1>5 DEF Backed, Bound

(* A step of an activity tells core only what it just found, and leaves    *)
(* what was told in place.                                                 *)
LEMMA GraphStepKeepsReady ==
  ASSUME RInv, LevelsHaveComponents, NEW g \in Graphs, GraphStep(g), NEW h \in Graphs
  PROVE  ReportOK(h)' /\ (Told(h)' => Backed(h)')
<1>0. /\ RInv /\ CInv /\ MInv /\ OInv /\ LInv /\ TInv
      /\ ReportOK(h) /\ (Told(h) => Backed(h))
      /\ chk \in [Graphs -> Checkpoints \cup {None}]
  BY DEF RInv, CInv, MInv, OInv, LInv, TInv, TypeOK
<1>1. ASSUME Told(h), chk'[h].slice = chk[h].slice PROVE Backed(h)'
  BY <1>0, <1>1, BackedIsStable, BackedIsKept DEF Told
<1>2. CASE h # g
  <2>1. /\ chk'[h] = chk[h] /\ pc'[h] = pc[h] /\ work'[h] = work[h] /\ core'[h] = core[h]
    BY <1>0, <1>2, Footprint, CoreFootprint
  <2>2. ReportOK(h)'
    BY <1>0, <2>1 DEF ReportOK
  <2>3. Told(h)' => Told(h)
    BY <2>1 DEF Told, Report
  <2> QED
    BY <1>1, <2>1, <2>2, <2>3
<1>3. CASE h = g
  <2>1. ReportStep(g)
    BY <1>0, GraphStepReports
  <2>0. chk[g] # None => /\ chk[g].slice \in Slices /\ chk[g].slice.sequence \in Nat
                         /\ Report(chk[g].slice, "ready") # None
    BY <1>0, SlicesAreTyped, NoneIsNoReport DEF Checkpoints, Report, Reports
  <2>2. ReportOK(g)'
    BY <1>0, <1>3, <2>0, <2>1 DEF ReportOK, ReportStep, Report
  <2>3. Told(g)' => Told(g) \/ PlanEmpty(g)
    <3> SUFFICES ASSUME Told(g)' PROVE Told(g) \/ PlanEmpty(g)
      OBVIOUS
    <3> DEFINE ready == Report(chk[g].slice, "ready")
    <3>1. chk[g] # None /\ Report(chk[g].slice, "ready")' = ready
      BY <2>1 DEF Told, ReportStep, Report
    <3>2. \/ core'[g] = ready \/ chk'[g].report = ready
          \/ pc'[g] = "publish" /\ work'[g].report = ready
      BY <3>1 DEF Told
    <3>3. \A disposition \in {"failed", "reconciling", "retrying"} :
            Report(chk[g].slice, disposition) # ready
      BY DEF Report
    <3> HIDE DEF ready
    <3>4. ready # None
      BY <2>0, <3>1 DEF ready
    <3>5. \/ core[g] = ready \/ chk[g].report = ready
          \/ pc[g] = "publish" /\ work[g].report = ready
          \/ PlanEmpty(g)
      BY <2>1, <3>1, <3>2, <3>3, <3>4 DEF ReportStep
    <3> QED
      BY <3>1, <3>5 DEF Told, ready
  <2>4. chk[g] # None => chk'[g].slice = chk[g].slice
    BY <2>1 DEF ReportStep
  <2>5. CASE PlanEmpty(g)
    <3>1. target' = target /\ journal' = journal /\ chk' = chk
      BY <2>5 DEF PlanEmpty, external
    <3>2. Backed(g)
      BY <1>0, <2>5, EmptyPlanIsBacked
    <3> QED
      BY <1>3, <2>2, <3>1, <3>2, BackedIsKept
  <2> QED
    BY <1>1, <1>3, <2>2, <2>3, <2>4, <2>5 DEF Told
<1> QED
  BY <1>2, <1>3

(* A newer level was not told ready, and nothing else is forgotten that    *)
(* core was not told.                                                      *)
LEMMA OtherStepsKeepReady ==
  ASSUME RInv, "drift" \notin Faults, OtherStep, NEW h \in Graphs
  PROVE  ReportOK(h)' /\ (Told(h)' => Backed(h)')
<1> USE DEF process, external
<1>0. /\ ReportOK(h) /\ (Told(h) => Backed(h))
      /\ chk \in [Graphs -> Checkpoints \cup {None}]
      /\ core \in [Graphs -> Reports \cup {None}]
      /\ target' = target /\ journal' = journal
      /\ \A g \in boot : g \in Graphs /\ chk[g] \in Checkpoints
  BY OtherStepsKeepJournal
     DEF Drift, RInv, CInv, MInv, OInv, LInv, TInv, TypeOK, ProcessOK
<1>1. ASSUME chk'[h] = chk[h], core'[h] = core[h],
             pc'[h] = "idle" \/ (pc' = pc /\ work' = work)
      PROVE  ReportOK(h)' /\ (Told(h)' => Backed(h)')
  <2>1. ReportOK(h)'
    BY <1>0, <1>1 DEF ReportOK
  <2>2. Told(h)' => Told(h)
    BY <1>1 DEF Told, Report
  <2> QED
    BY <1>0, <1>1, <2>1, <2>2, BackedIsKept
<1>2. CASE CoreSends
  <2>1. PICK d \in Slices : AcceptNew(d) \/ AcceptAgain(d)
    BY <1>2 DEF CoreSends
  <2>2. d.graph \in Graphs /\ d.sequence \in Nat /\ UNCHANGED <<pc, work, core>>
    BY <2>1, SlicesAreTyped DEF AcceptNew, AcceptAgain
  <2>3. CASE AcceptNew(d) /\ h = d.graph
    <3>1. /\ chk'[h].slice = d /\ chk'[h].report = None /\ pc'[h] = "idle"
          /\ chk[h] # None => d.sequence > chk[h].slice.sequence
          /\ chk'[h] \in Checkpoints
      BY <1>0, <2>2, <2>3 DEF AcceptNew, AcceptedCheckpoint, Checkpoints
    <3>2. chk'[h] # None
      BY <3>1, NoneIsNoCheckpoint
    <3>3. core[h] # None => core[h].slice.sequence \in Nat /\ core[h].slice.sequence < d.sequence
      <4> SUFFICES ASSUME core[h] # None
                   PROVE  core[h].slice.sequence \in Nat /\ core[h].slice.sequence < d.sequence
        OBVIOUS
      <4>1. chk[h] \in Checkpoints /\ core[h] \in Reports
        BY <1>0 DEF ReportOK
      <4>2. chk[h].slice.sequence \in Nat /\ core[h].slice.sequence \in Nat
        BY <4>1, SlicesAreTyped DEF Checkpoints, Reports
      <4> QED
        BY <1>0, <2>2, <3>1, <4>2 DEF ReportOK
    <3>4. ReportOK(h)'
      BY <2>2, <3>1, <3>2, <3>3 DEF ReportOK
    <3>5. Report(d, "ready") # None /\ Report(d, "ready").slice = d
      BY NoneIsNoReport DEF Report, Reports
    <3>6. ~Told(h)'
      <4>1. core[h] # Report(d, "ready")
        BY <2>2, <3>3, <3>5
      <4> QED
        BY <2>2, <3>1, <3>5, <4>1 DEF Told, Report
    <3> QED
      BY <3>4, <3>6
  <2>4. CASE AcceptAgain(d) \/ h # d.graph
    <3>1. chk'[h] = chk[h]
      BY <1>0, <2>1, <2>4 DEF AcceptNew, AcceptAgain
    <3> QED
      BY <1>1, <2>2, <3>1
  <2> QED
    BY <2>1, <2>3, <2>4
<1>3. ASSUME Crash PROVE ReportOK(h)' /\ (Told(h)' => Backed(h)')
  BY <1>1, <1>3 DEF Crash, Wiped
<1>4. CASE Boot \/ Serve \/ Drift \/ UNCHANGED vars
  BY <1>1, <1>4 DEF Boot, Serve, Drift, vars
<1>5. ASSUME NEW g \in Graphs, ResumeSaveFails(g)
      PROVE  ReportOK(h)' /\ (Told(h)' => Backed(h)')
  <2>1. chk[g] \in Checkpoints /\ chk[g] # None /\ pc'[h] = "idle"
    BY <1>0, <1>5, NoneIsNoCheckpoint DEF ResumeSaveFails, Wiped
  <2>2. CASE h # g
    <3>1. chk'[h] = chk[h] /\ core'[h] = core[h]
      BY <1>0, <1>5, <2>2 DEF ResumeSaveFails, CoreReceives
    <3> QED
      BY <1>1, <2>1, <3>1
  <2>3. CASE h = g
    <3>1. /\ core'[h] = chk[h].report /\ chk[h].report # None
          /\ chk'[h] = chk[h] \/ chk'[h] = [chk[h] EXCEPT !.report = None]
      BY <1>0, <1>5, <2>3 DEF ResumeSaveFails, CoreReceives
    <3>2. /\ chk'[h].slice = chk[h].slice /\ chk'[h].report \in {chk[h].report, None}
          /\ chk'[h] # None
      BY <2>1, <2>3, <3>1, NoneIsNoCheckpoint DEF Checkpoints
    <3>3. chk[h].slice.sequence \in Nat /\ Report(chk[h].slice, "ready") # None
      BY <2>1, <2>3, SlicesAreTyped, NoneIsNoReport DEF Checkpoints, Report, Reports
    <3>4. ReportOK(h)'
      BY <1>0, <2>1, <2>3, <3>1, <3>2, <3>3 DEF ReportOK
    <3>5. Told(h)' => Told(h)
      BY <2>1, <2>3, <3>1, <3>2, <3>3 DEF Told, Report
    <3> QED
      BY <1>0, <3>2, <3>4, <3>5, BackedIsKept
  <2> QED
    BY <2>2, <2>3
<1> QED
  BY <1>2, <1>3, <1>4, <1>5 DEF OtherStep, ProcessCrashes, ResumeFails

(* RInv is inductive.                                                      *)
LEMMA NextKeepsReady ==
  ASSUME RInv, LevelsHaveComponents, {"drift", "retire"} \cap Faults = {}, [Next]_vars
  PROVE  RInv'
<1>1. CInv'
  BY NextKeepsCurrent DEF RInv
<1>2. CASE OtherStep
  BY <1>1, <1>2, OtherStepsKeepReady DEF RInv
<1>3. ASSUME NEW g \in Graphs, GraphStep(g) PROVE RInv'
  BY <1>1, <1>3, GraphStepKeepsReady DEF RInv
<1> QED
  BY <1>2, <1>3, StepsAreSorted

(* What core was told is ready, is, for as long as the level is retained:  *)
(* redelivered reports, passes left over from before a restart and the     *)
(* other graphs do not undo it.  Somebody else could (drift), a retirement *)
(* takes the bindings away, and a level without components would own       *)
(* nothing that keeps the other graphs out.                                *)
THEOREM ReadyIsBackedCorrect ==
  LevelsHaveComponents /\ {"drift", "retire"} \cap Faults = {} => (Spec => []ReadyIsBacked)
<1> SUFFICES ASSUME LevelsHaveComponents, {"drift", "retire"} \cap Faults = {}
             PROVE  Spec => []ReadyIsBacked
  OBVIOUS
<1>1. Init => RInv
  <2> SUFFICES ASSUME Init PROVE RInv
    OBVIOUS
  <2>1. CInv
    BY InitHasPlans DEF Init, CInv, RetireFree, HeldPlans, PlanLabels
  <2> QED
    BY <2>1 DEF Init, RInv, ReportOK, Told
<1>2. RInv /\ [Next]_vars => RInv'
  BY NextKeepsReady
<1>3. RInv => ReadyIsBacked
  BY DEF RInv, Told, Backed, ReadyIsBacked, Live, Retained
<1> QED
  BY <1>1, <1>2, <1>3, PTL DEF Spec
=============================================================================
