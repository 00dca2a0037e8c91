-------------------------- MODULE ReconcilerProofs --------------------------
(***************************************************************************)
(* Theorems about Reconciler, for every value of its constants.            *)
(***************************************************************************)
EXTENDS Reconciler, PlannerProofs

(* What an activity has at hand at each of its labels.                     *)
PlanLabels == {"stale", "start", "bind", "succeed", "fail", "observe", "apply", "propose"}

ActivityOK(g) ==
  /\ pc[g] # "idle" => chk[g] \in Checkpoints
  /\ pc[g] \notin {"idle", "retire", "retired"} => desired[g] \in Slices
  /\ pc[g] \in PlanLabels => work[g].plan \in ResourcePlans
  /\ pc[g] = "bind" => work[g].plan.op.kind = "bind"
  /\ pc[g] = "publish" => work[g].report \in Reports
  /\ pc[g] \in {"deliver", "redeliver"} => chk[g].report \in Reports
  /\ \A q \in Sequences : tasks[g][q] > 0 => chk[g] \in Checkpoints

Quiet(g) == pc[g] = "idle" /\ \A q \in Sequences : tasks[g][q] = 0

(* Nothing runs while the process is down, nor for a graph that resume has *)
(* not come to yet.                                                        *)
ProcessOK ==
  /\ proc = "down" => \A g \in Graphs : Quiet(g)
  /\ proc # "booting" => boot = {}
  /\ \A g \in boot : Quiet(g) /\ chk[g] \in Checkpoints

TInv == TypeOK /\ (\A g \in Graphs : ActivityOK(g)) /\ ProcessOK

-----------------------------------------------------------------------------
(* Ending an activity keeps labels, work and the lock queue well typed.    *)
LEMMA FinishTyped ==
  ASSUME TypeOK, NEW g \in Graphs, Finish(g)
  PROVE  /\ pc' \in [Graphs -> Labels] /\ pc' = [pc EXCEPT ![g] = "idle"]
         /\ work' \in [Graphs -> Activities] /\ \A h \in Graphs \ {g} : work'[h] = work[h]
         /\ queue' \in Seq(Graphs)
  BY DEF TypeOK, Finish, HoldsTarget, Idle, Activities, Labels

(* A report about to be saved is well typed when its level and plan are.   *)
LEMMA PublishTyped ==
  ASSUME TypeOK, NEW g \in Graphs, chk[g] \in Checkpoints,
         NEW plan \in ResourcePlans \cup {None},
         NEW disposition \in {"ready", "failed", "reconciling", "retrying"},
         NEW requeue \in BOOLEAN,
         Publish(g, plan, disposition, requeue)
  PROVE  /\ pc' \in [Graphs -> Labels] /\ pc' = [pc EXCEPT ![g] = "publish"]
         /\ work' \in [Graphs -> Activities] /\ work'[g].report \in Reports
         /\ \A h \in Graphs \ {g} : work'[h] = work[h]
<1>1. Report(chk[g].slice, disposition) \in Reports
  BY DEF Checkpoints, Report, Reports
<1> QED
  BY <1>1 DEF TypeOK, Publish, Goto, Activities, Labels

(* Counting one more spawned pass stays within the bound.                  *)
LEMMA SpawnedTyped ==
  ASSUME TypeOK, NEW g \in Graphs, NEW q \in Sequences, NEW n \in Nat
  PROVE  /\ Spawned(g, q, n) \in [Graphs -> [Sequences -> 0 .. MaxTasks]]
         /\ \A h \in Graphs \ {g} : Spawned(g, q, n)[h] = tasks[h]
  BY MaxTasksIsPositive DEF TypeOK, Spawned, Counted

(* The initial states satisfy the inductive type invariant.                *)
LEMMA InitTyped == ASSUME Init PROVE TInv
  BY MaxTasksIsPositive, TargetsAreTyped
     DEF Init, TInv, TypeOK, ActivityOK, ProcessOK, Quiet, PlanLabels, Labels, Idle, Activities,
         JournalTyped, EmptyJournal, Checkpoints

(* The actions of one activity that end in a report to be saved.           *)
LEMMA PublishKeeps ==
  ASSUME TInv, NEW g \in Graphs, pc[g] # "idle", pc[g] \notin {"retire", "retired"},
         NEW plan \in ResourcePlans \cup {None},
         NEW disposition \in {"ready", "failed", "reconciling", "retrying"},
         NEW requeue \in BOOLEAN,
         Publish(g, plan, disposition, requeue),
         UNCHANGED <<process, chk, queue, core>>,
         JournalTyped(journal'), target' \in TargetStates
  PROVE  TInv'
<1>1. chk[g] \in Checkpoints /\ desired[g] \in Slices
  BY DEF TInv, ActivityOK
<1>2. /\ pc' \in [Graphs -> Labels] /\ pc' = [pc EXCEPT ![g] = "publish"]
      /\ work' \in [Graphs -> Activities] /\ work'[g].report \in Reports
      /\ \A h \in Graphs \ {g} : work'[h] = work[h]
  BY <1>1, PublishTyped DEF TInv
<1> QED
  BY <1>1, <1>2 DEF TInv, TypeOK, ActivityOK, ProcessOK, Quiet, PlanLabels, process

(* An activity whose label needs a plan carries a well-typed one.          *)
LEMMA CarryingTyped ==
  ASSUME TypeOK, NEW g \in Graphs, NEW p \in ResourcePlans,
         work' = [work EXCEPT ![g].plan = p]
  PROVE  /\ work' \in [Graphs -> Activities] /\ work'[g].plan = p
         /\ \A h \in Graphs \ {g} : work'[h] = work[h]
<1>1. work[g] \in Activities
  BY DEF TypeOK
<1>2. [work[g] EXCEPT !.plan = p] \in Activities /\ [work[g] EXCEPT !.plan = p].plan = p
  BY <1>1 DEF Activities
<1> QED
  BY <1>2 DEF TypeOK

(* The actions that only move an activity on.                              *)
LEMMA GotoKeeps ==
  ASSUME TInv, NEW g \in Graphs, pc[g] \notin {"idle", "retire", "retired"},
         NEW label \in PlanLabels \cup {"plan"},
         Goto(g, label),
         work' \in [Graphs -> Activities], \A h \in Graphs \ {g} : work'[h] = work[h],
         label \in PlanLabels => work'[g].plan \in ResourcePlans,
         label = "bind" => work'[g].plan.op.kind = "bind",
         UNCHANGED <<process, chk, queue, core>>,
         JournalTyped(journal'), target' \in TargetStates
  PROVE  TInv'
<1>1. chk[g] \in Checkpoints /\ desired[g] \in Slices
  BY DEF TInv, ActivityOK
<1>3. label \in Labels /\ label \notin {"idle", "retire", "retired", "publish", "deliver", "redeliver"}
  BY DEF PlanLabels, Labels
<1>4. pc' \in [Graphs -> Labels] /\ pc' = [pc EXCEPT ![g] = label]
  BY <1>3 DEF Goto, TInv, TypeOK
<1> QED
  BY <1>1, <1>3, <1>4 DEF TInv, TypeOK, ActivityOK, ProcessOK, Quiet, process

(* The actions that end an activity.                                       *)
LEMMA FinishKeeps ==
  ASSUME TInv, NEW g \in Graphs, pc[g] # "idle",
         Finish(g),
         UNCHANGED <<proc, boot>>,
         desired' = desired \/ desired' = [desired EXCEPT ![g] = None],
         tasks' = tasks \/ \E n \in Nat : Schedule(g, chk[g].slice.sequence, n),
         NEW c \in Checkpoints, chk' = [chk EXCEPT ![g] = c],
         JournalTyped(journal'), target' \in TargetStates,
         core' \in [Graphs -> Reports \cup {None}]
  PROVE  TInv'
<1>1. chk[g] \in Checkpoints
  BY DEF TInv, ActivityOK
<1>2. /\ pc' \in [Graphs -> Labels] /\ pc' = [pc EXCEPT ![g] = "idle"]
      /\ work' \in [Graphs -> Activities] /\ \A h \in Graphs \ {g} : work'[h] = work[h]
      /\ queue' \in Seq(Graphs)
  BY FinishTyped DEF TInv
<1>3. /\ chk' \in [Graphs -> Checkpoints \cup {None}] /\ chk'[g] \in Checkpoints
      /\ \A h \in Graphs \ {g} : chk'[h] = chk[h]
  BY DEF TInv, TypeOK
<1>4. /\ tasks' \in [Graphs -> [Sequences -> 0 .. MaxTasks]]
      /\ \A h \in Graphs \ {g} : tasks'[h] = tasks[h]
  <2>1. CASE tasks' = tasks
    BY <2>1 DEF TInv, TypeOK
  <2>2. CASE \E n \in Nat : Schedule(g, chk[g].slice.sequence, n)
    <3>1. chk[g].slice.sequence \in Sequences
      BY <1>1 DEF Checkpoints, Sequences
    <3> QED
      BY <2>2, <3>1, SpawnedTyped DEF TInv, Schedule
  <2> QED
    BY <2>1, <2>2
<1>5. /\ desired' \in [Graphs -> Slices \cup {None}]
      /\ \A h \in Graphs \ {g} : desired'[h] = desired[h]
  BY DEF TInv, TypeOK
<1>6. g \notin boot /\ proc # "down"
  BY DEF TInv, ProcessOK, Quiet
<1>7. TypeOK'
  BY <1>2, <1>3, <1>4, <1>5 DEF TInv, TypeOK
<1>8. ActivityOK(g)'
  BY <1>2, <1>3 DEF TInv, TypeOK, ActivityOK, PlanLabels
<1>9. \A h \in Graphs \ {g} : ActivityOK(h)'
  BY <1>2, <1>3, <1>4, <1>5 DEF TInv, TypeOK, ActivityOK
<1>10. ProcessOK'
  BY <1>2, <1>3, <1>4, <1>6 DEF TInv, TypeOK, ProcessOK, Quiet
<1> QED
  BY <1>7, <1>8, <1>9, <1>10 DEF TInv

(* Whatever an activity appends, the journal stays well formed.            *)
LEMMA PendingTyped ==
  ASSUME TInv, NEW g \in Graphs,
         pc[g] \in {"stale", "start", "bind", "succeed", "fail", "propose", "retire"}
  PROVE  JournalTyped(Appended(journal, Pending(g)))
<1> DEFINE plan == work[g].plan
<1>1. pc[g] # "retire" => plan \in ResourcePlans
  BY DEF TInv, ActivityOK, PlanLabels
<1>2. pc[g] # "retire" => plan.id \in PlanIds /\ plan.op \in Operations /\ plan.slice \in Slices
  BY <1>1 DEF ResourcePlans
<1>3. pc[g] = "bind" => ClaimedBinding(plan) \in Bindings
  <2> SUFFICES ASSUME pc[g] = "bind" PROVE ClaimedBinding(plan) \in Bindings
    OBVIOUS
  <2>1. plan.op.kind = "bind"
    BY DEF TInv, ActivityOK
  <2>2. plan.op.context \in Contexts
    BY <1>2, <2>1 DEF Operations
  <2> QED
    BY <1>2, <2>2, SlicesAreTyped, ContextsAreTyped
       DEF ClaimedBinding, BindingFor, Bindings, Resources
<1>4. EventTyped(Pending(g))
  <2>1. CASE pc[g] = "stale"
    BY <1>2, <2>1 DEF Pending, PlanStale, EventTyped
  <2>2. CASE pc[g] = "start"
    BY <1>2, <2>2 DEF Pending, OperationStarted, EventTyped
  <2>3. CASE pc[g] = "bind"
    BY <1>3, <2>3 DEF Pending, BindingEstablished, EventTyped
  <2>4. CASE pc[g] = "succeed"
    BY <1>2, <2>4 DEF Pending, OperationSucceeded, EventTyped
  <2>5. CASE pc[g] = "fail"
    BY <1>2, <2>5 DEF Pending, OperationFailed, EventTyped
  <2>6. CASE pc[g] = "propose"
    BY <1>2, <2>6 DEF Pending, PlanCreated, EventTyped
  <2>7. CASE pc[g] = "retire"
    BY <2>7 DEF Pending, GraphReleased, EventTyped
  <2> QED
    BY <2>1, <2>2, <2>3, <2>4, <2>5, <2>6, <2>7
<1> QED
  BY <1>4, AppendedTyped DEF TInv, TypeOK

(* The journal stays well formed when the pending event is appended.       *)
LEMMA AppendTyped ==
  ASSUME TInv, NEW g \in Graphs, NEW label, AppendPending(g, label),
         label \in {"stale", "start", "bind", "succeed", "fail", "propose", "retire"}
  PROVE  pc[g] = label /\ JournalTyped(journal')
  BY PendingTyped DEF AppendPending

(* A committed operation keeps the target well typed.                      *)
LEMMA CommitTyped ==
  ASSUME TInv, NEW g \in Graphs, Commit(g)
  PROVE  pc[g] = "apply" /\ target' \in TargetStates
<1>1. work[g].plan.op \in Operations
  BY DEF Commit, TInv, ActivityOK, PlanLabels, ResourcePlans
<1> QED
  BY <1>1, ExecuteTyped DEF Commit, TInv, TypeOK

(* A plan that build_plan makes is well formed.                            *)
LEMMA ProposedTyped ==
  ASSUME TInv, NEW g \in Graphs, desired[g] \in Slices, FreshPlanId \in PlanIds,
         NEW op \in First(Outstanding(desired[g], journal.bindings, Observe(target, desired[g])))
  PROVE  [id |-> FreshPlanId, slice |-> desired[g], op |-> op,
          observed |-> Observe(target, desired[g])] \in ResourcePlans
<1>1. Observe(target, desired[g]) \in ObservedTargets
  BY ObserveTyped DEF TInv, TypeOK
<1>2. op \in Operations
  BY <1>1, FirstTyped
<1> QED
  BY <1>1, <1>2 DEF ResourcePlans

-----------------------------------------------------------------------------
(* Every step of a pass preserves the inductive type invariant.            *)
LEMMA PassStepTyped == ASSUME TInv, NEW g \in Graphs, PassStep(g) PROVE TInv'
<1> USE DEF process, external
<1>0. JournalTyped(journal) /\ target \in TargetStates /\ work \in [Graphs -> Activities]
  BY DEF TInv, TypeOK
<1>1. CASE RefuseDesired(g)
  BY <1>0, <1>1, PublishKeeps DEF RefuseDesired, Loaded
<1>2. ASSUME LoadPlan(g)
      PROVE  /\ chk[g].plan \in ResourcePlans /\ pc[g] = "load"
             /\ work' \in [Graphs -> Activities] /\ work'[g].plan = chk[g].plan
             /\ \A h \in Graphs \ {g} : work'[h] = work[h]
  <2>1. chk[g] \in Checkpoints /\ pc[g] = "load"
    BY <1>2 DEF LoadPlan, Loaded, TInv, ActivityOK
  <2>2. chk[g].plan \in ResourcePlans
    BY <1>2, <2>1 DEF LoadPlan, Checkpoints
  <2> QED
    BY <1>2, <2>1, <2>2, CarryingTyped DEF LoadPlan, TInv
<1>3. CASE FindStale(g)
  BY <1>0, <1>2, <1>3, GotoKeeps DEF FindStale, PlanLabels
<1>4. CASE ResumeBinding(g)
  <2>1. CASE Known(journal, chk[g].plan.op)
    BY <1>0, <1>2, <1>4, <2>1, GotoKeeps DEF ResumeBinding, PlanLabels
  <2>2. CASE ~Known(journal, chk[g].plan.op)
    BY <1>0, <1>2, <1>4, <2>2, GotoKeeps DEF ResumeBinding, PlanLabels
  <2> QED
    BY <2>1, <2>2
<1>5. CASE ResumePlan(g)
  BY <1>0, <1>2, <1>5, GotoKeeps DEF ResumePlan, PlanLabels
<1>6. CASE PlanFresh(g)
  BY <1>0, <1>6, GotoKeeps DEF PlanFresh, Loaded, PlanLabels
<1>7. CASE AppendStale(g)
  <2>1. pc[g] = "stale" /\ JournalTyped(journal')
    BY <1>7, AppendTyped DEF AppendStale
  <2> QED
    BY <1>0, <1>7, <2>1, PublishKeeps DEF AppendStale
<1>8. CASE AppendStarted(g)
  <2>1. pc[g] = "start" /\ JournalTyped(journal') /\ work[g].plan \in ResourcePlans
    BY <1>8, AppendTyped DEF AppendStarted, TInv, ActivityOK, PlanLabels
  <2>2. CASE work[g].plan.op.kind = "bind"
    BY <1>0, <1>8, <2>1, <2>2, GotoKeeps DEF AppendStarted, PlanLabels
  <2>3. CASE work[g].plan.op.kind # "bind"
    BY <1>0, <1>8, <2>1, <2>3, GotoKeeps DEF AppendStarted, PlanLabels
  <2> QED
    BY <2>2, <2>3
<1>9. CASE AppendBinding(g)
  <2>1. pc[g] = "bind" /\ JournalTyped(journal') /\ work[g].plan \in ResourcePlans
    BY <1>9, AppendTyped DEF AppendBinding, TInv, ActivityOK, PlanLabels
  <2> QED
    BY <1>0, <1>9, <2>1, GotoKeeps DEF AppendBinding, PlanLabels
<1>10. CASE AppendSucceeded(g)
  <2>1. pc[g] = "succeed" /\ JournalTyped(journal')
    BY <1>10, AppendTyped DEF AppendSucceeded
  <2> QED
    BY <1>0, <1>10, <2>1, PublishKeeps DEF AppendSucceeded
<1>11. CASE AppendFailed(g)
  <2>1. pc[g] = "fail" /\ JournalTyped(journal')
    BY <1>11, AppendTyped DEF AppendFailed
  <2> QED
    BY <1>0, <1>11, <2>1, PublishKeeps DEF AppendFailed
<1>12. CASE AppendCreated(g)
  <2>1. pc[g] = "propose" /\ JournalTyped(journal') /\ work[g].plan \in ResourcePlans
    BY <1>12, AppendTyped DEF AppendCreated, TInv, ActivityOK, PlanLabels
  <2> QED
    BY <1>0, <1>12, <2>1, PublishKeeps DEF AppendCreated
<1>13. ASSUME pc[g] \in {"observe", "apply"}
       PROVE  work[g].plan \in ResourcePlans
  BY <1>13 DEF TInv, ActivityOK, PlanLabels
<1>14. CASE ObserveForApply(g)
  <2>1. pc[g] = "observe" /\ work[g].plan \in ResourcePlans
    BY <1>13, <1>14 DEF ObserveForApply
  <2>2. PICK label \in {"succeed", "apply", "start"} : Goto(g, label)
    BY <1>14 DEF ObserveForApply
  <2> QED
    BY <1>0, <1>14, <2>1, <2>2, GotoKeeps DEF ObserveForApply, PlanLabels
<1>15. CASE ApplyStale(g)
  BY <1>0, <1>13, <1>15, GotoKeeps DEF ApplyStale, PlanLabels
<1>16. CASE ApplyCommits(g)
  <2>1. pc[g] = "apply" /\ target' \in TargetStates
    BY <1>16, CommitTyped DEF ApplyCommits
  <2> QED
    BY <1>0, <1>13, <1>16, <2>1, GotoKeeps DEF ApplyCommits, PlanLabels
<1>17. CASE ApplyRejected(g)
  BY <1>0, <1>13, <1>17, GotoKeeps DEF ApplyRejected, PlanLabels
<1>18. CASE PlanRejected(g)
  BY <1>0, <1>18, PublishKeeps DEF PlanRejected
<1>19. CASE PlanEmpty(g)
  BY <1>0, <1>19, PublishKeeps DEF PlanEmpty
<1>20. CASE Propose(g)
  <2>1. pc[g] = "plan" /\ desired[g] \in Slices
    BY <1>20 DEF Propose, TInv, ActivityOK
  <2>2. PICK op \in First(Outstanding(desired[g], journal.bindings, Observe(target, desired[g]))) :
          work' = [work EXCEPT ![g].plan = [id |-> FreshPlanId, slice |-> desired[g], op |-> op,
                                            observed |-> Observe(target, desired[g])]]
    BY <1>20 DEF Propose
  <2> DEFINE proposed == [id |-> FreshPlanId, slice |-> desired[g], op |-> op,
                          observed |-> Observe(target, desired[g])]
  <2>3. proposed \in ResourcePlans
    BY <1>20, <2>1, ProposedTyped DEF Propose
  <2> HIDE DEF proposed
  <2>4. /\ work' \in [Graphs -> Activities] /\ work'[g].plan = proposed
        /\ \A h \in Graphs \ {g} : work'[h] = work[h]
    BY <2>2, <2>3, CarryingTyped DEF TInv, proposed
  <2> QED
    BY <1>0, <1>20, <2>1, <2>3, <2>4, GotoKeeps DEF Propose, PlanLabels
<1>21. CASE SaveReport(g)
  <2>1. pc[g] = "publish" /\ chk[g] \in Checkpoints /\ work[g] \in Activities
        /\ desired[g] \in Slices /\ work[g].report \in Reports
    BY <1>21 DEF SaveReport, TInv, TypeOK, ActivityOK
  <2>2. [chk[g] EXCEPT !.plan = work[g].plan, !.report = work[g].report] \in Checkpoints
    BY <2>1 DEF Checkpoints, Activities
  <2>3. /\ chk' \in [Graphs -> Checkpoints \cup {None}] /\ chk'[g] \in Checkpoints
        /\ chk'[g].report = work[g].report
        /\ \A h \in Graphs \ {g} : chk'[h] = chk[h]
    BY <1>21, <2>1, <2>2 DEF SaveReport, Saved, TInv, TypeOK, Checkpoints
  <2>4. pc' \in [Graphs -> Labels] /\ pc' = [pc EXCEPT ![g] = "deliver"]
    BY <1>21 DEF SaveReport, Goto, TInv, TypeOK, Labels
  <2>5. TypeOK'
    BY <1>21, <2>3, <2>4 DEF SaveReport, TInv, TypeOK
  <2> QED
    BY <1>21, <2>1, <2>3, <2>4, <2>5
       DEF SaveReport, TInv, TypeOK, ActivityOK, ProcessOK, Quiet, PlanLabels
<1> QED
  BY <1>1, <1>3, <1>4, <1>5, <1>6, <1>7, <1>8, <1>9, <1>10, <1>11, <1>12, <1>14, <1>15, <1>16,
     <1>17, <1>18, <1>19, <1>20, <1>21 DEF PassStep

(* Starting an activity: it has its checkpoint and, for a pass, its level. *)
LEMMA BeginKeeps ==
  ASSUME TInv, NEW g \in Graphs, pc[g] = "idle", proc # "down", g \notin boot,
         NEW label \in {"load", "redeliver", "retire"}, Goto(g, label),
         chk[g] \in Checkpoints,
         label # "retire" => desired[g] \in Slices,
         label = "redeliver" => chk[g].report \in Reports,
         tasks' = tasks \/ \E q \in Sequences : tasks' = [tasks EXCEPT ![g][q] = @ - 1]
                                               /\ tasks[g][q] > 0,
         queue' = queue \/ queue' = Append(queue, g),
         UNCHANGED <<proc, boot, chk, desired, work, external>>
  PROVE  TInv'
<1>1. pc' \in [Graphs -> Labels] /\ pc' = [pc EXCEPT ![g] = label]
  BY DEF Goto, TInv, TypeOK, Labels
<1>2. queue' \in Seq(Graphs)
  <2>1. queue \in Seq(Graphs) /\ Append(queue, g) \in Seq(Graphs)
    BY DEF TInv, TypeOK
  <2> QED
    BY <2>1
<1>3. /\ tasks' \in [Graphs -> [Sequences -> 0 .. MaxTasks]]
      /\ \A h \in Graphs \ {g} : tasks'[h] = tasks[h]
  <2>1. CASE tasks' = tasks
    BY <2>1 DEF TInv, TypeOK
  <2>2. ASSUME NEW q \in Sequences, tasks' = [tasks EXCEPT ![g][q] = @ - 1], tasks[g][q] > 0
        PROVE  /\ tasks' \in [Graphs -> [Sequences -> 0 .. MaxTasks]]
               /\ \A h \in Graphs \ {g} : tasks'[h] = tasks[h]
    <3>1. tasks[g] \in [Sequences -> 0 .. MaxTasks] /\ tasks[g][q] \in 0 .. MaxTasks
      BY DEF TInv, TypeOK
    <3>2. tasks[g][q] - 1 \in 0 .. MaxTasks
      BY <2>2, <3>1, MaxTasksIsPositive
    <3>3. [tasks[g] EXCEPT ![q] = @ - 1] \in [Sequences -> 0 .. MaxTasks]
      BY <3>1, <3>2
    <3> QED
      BY <2>2, <3>3 DEF TInv, TypeOK
  <2> QED
    BY <2>1, <2>2
<1>4. TypeOK'
  BY <1>1, <1>2, <1>3 DEF TInv, TypeOK, external
<1>5. ActivityOK(g)'
  BY <1>1, <1>3 DEF ActivityOK, PlanLabels
<1>6. \A h \in Graphs \ {g} : ActivityOK(h)'
  BY <1>1, <1>3 DEF TInv, TypeOK, ActivityOK
<1>7. ProcessOK'
  BY <1>1, <1>3 DEF TInv, TypeOK, ProcessOK, Quiet
<1> QED
  BY <1>4, <1>5, <1>6, <1>7 DEF TInv

(* So does a spawned task that gets its graph's lock.                      *)
LEMMA TaskStepTyped == ASSUME TInv, NEW g \in Graphs, TaskStep(g) PROVE TInv'
<1>1. PICK q \in Sequences : DropTask(g, q) \/ BeginRedelivery(g, q) \/ BeginPass(g, q)
  BY DEF TaskStep
<1>2. /\ proc # "down" /\ pc[g] = "idle" /\ tasks[g][q] > 0
      /\ tasks' = [tasks EXCEPT ![g][q] = @ - 1]
  BY <1>1 DEF DropTask, BeginRedelivery, BeginPass, TakeTask
<1>3. chk[g] \in Checkpoints /\ g \notin boot
  BY <1>2 DEF TInv, ActivityOK, ProcessOK, Quiet
<1>4. CASE DropTask(g, q)
  <2>1. tasks[g] \in [Sequences -> 0 .. MaxTasks] /\ tasks[g][q] \in 0 .. MaxTasks
    BY DEF TInv, TypeOK
  <2>2. tasks[g][q] - 1 \in 0 .. MaxTasks
    BY <1>2, <2>1, MaxTasksIsPositive
  <2>3. [tasks[g] EXCEPT ![q] = @ - 1] \in [Sequences -> 0 .. MaxTasks]
    BY <2>1, <2>2
  <2>4. /\ tasks' \in [Graphs -> [Sequences -> 0 .. MaxTasks]]
        /\ \A h \in Graphs \ {g} : tasks'[h] = tasks[h]
    BY <1>2, <2>3 DEF TInv, TypeOK
  <2>5. TypeOK'
    BY <1>4, <2>4 DEF DropTask, external, TInv, TypeOK
  <2> QED
    BY <1>2, <1>3, <1>4, <2>4, <2>5 DEF DropTask, external, TInv, ActivityOK, ProcessOK, Quiet
<1>5. CASE BeginRedelivery(g, q)
  <2>1. desired[g] \in Slices /\ chk[g].report \in Reports
    BY <1>3, <1>5 DEF BeginRedelivery, Checkpoints, TInv, TypeOK
  <2> QED
    BY <1>2, <1>3, <1>5, <2>1, BeginKeeps DEF BeginRedelivery
<1>6. CASE BeginPass(g, q)
  <2>1. desired[g] \in Slices
    BY <1>6 DEF BeginPass, TInv, TypeOK
  <2> QED
    BY <1>2, <1>3, <1>6, <2>1, BeginKeeps DEF BeginPass
<1> QED
  BY <1>1, <1>4, <1>5, <1>6

(* A checkpoint without its report is a checkpoint.                        *)
LEMMA ForgottenReport ==
  ASSUME NEW c \in Checkpoints
  PROVE  [c EXCEPT !.report = None] \in Checkpoints
  BY DEF Checkpoints

(* A checkpoint marked retired is a checkpoint.                            *)
LEMMA RetiredTyped ==
  ASSUME NEW c \in Checkpoints
  PROVE  [c EXCEPT !.retired = TRUE, !.plan = None, !.report = None] \in Checkpoints
  BY DEF Checkpoints

(* What core receives is a report.                                         *)
LEMMA ReceivedTyped ==
  ASSUME TInv, NEW g \in Graphs, chk[g] \in Checkpoints
  PROVE  CoreReceives(g) \in [Graphs -> Reports \cup {None}]
  BY DEF CoreReceives, Checkpoints, TInv, TypeOK

(* Delivering a report and retiring preserve the inductive type invariant. *)
LEMMA FinalStepTyped ==
  ASSUME TInv, NEW g \in Graphs,
         ReportAcknowledged(g) \/ RetireBegin(g) \/ RetireStep(g)
  PROVE  TInv'
<1>0. /\ JournalTyped(journal) /\ target \in TargetStates
      /\ core \in [Graphs -> Reports \cup {None}]
      /\ chk \in [Graphs -> Checkpoints \cup {None}]
  BY DEF TInv, TypeOK
<1>1. CASE ReportAcknowledged(g)
  <2>1. pc[g] # "idle" /\ chk[g] \in Checkpoints
    BY <1>1 DEF ReportAcknowledged, Delivering, TInv, ActivityOK
  <2>2. \E n \in Nat : Schedule(g, chk[g].slice.sequence, n)
    BY <1>1 DEF ReportAcknowledged
  <2>3. core' \in [Graphs -> Reports \cup {None}]
    BY <1>1, <2>1, ReceivedTyped DEF ReportAcknowledged
  <2> DEFINE c == [chk[g] EXCEPT !.report = None]
  <2>4. c \in Checkpoints
    BY <2>1, ForgottenReport
  <2>5. chk' = [chk EXCEPT ![g] = c]
    BY <1>1, <2>1 DEF ReportAcknowledged, Checkpoints
  <2> HIDE DEF c
  <2> QED
    BY <1>0, <1>1, <2>1, <2>2, <2>3, <2>4, <2>5, FinishKeeps DEF ReportAcknowledged
<1>2. CASE RetireBegin(g)
  <2>1. g \notin boot /\ chk[g] \in Checkpoints
    BY <1>0, <1>2 DEF RetireBegin, Live, TInv, ProcessOK
  <2> QED
    BY <1>2, <2>1, BeginKeeps DEF RetireBegin, process
<1>3. CASE RetireRelease(g)
  <2>1. pc[g] = "retire" /\ JournalTyped(journal')
    BY <1>3, AppendTyped DEF RetireRelease
  <2>2. chk[g] \in Checkpoints
    BY <2>1 DEF TInv, ActivityOK
  <2>3. pc' \in [Graphs -> Labels] /\ pc' = [pc EXCEPT ![g] = "retired"]
    BY <1>3 DEF RetireRelease, Goto, TInv, TypeOK, Labels
  <2>4. TypeOK'
    BY <1>3, <2>1, <2>3 DEF RetireRelease, process, TInv, TypeOK
  <2> QED
    BY <1>3, <2>1, <2>2, <2>3, <2>4
       DEF RetireRelease, process, TInv, TypeOK, ActivityOK, ProcessOK, Quiet, PlanLabels
<1>4. CASE RetireSave(g)
  <2>1. pc[g] # "idle" /\ chk[g] \in Checkpoints
    BY <1>4 DEF RetireSave, TInv, ActivityOK
  <2> DEFINE c == [chk[g] EXCEPT !.retired = TRUE, !.plan = None, !.report = None]
  <2>2. c \in Checkpoints
    BY <2>1, RetiredTyped
  <2>3. chk' = [chk EXCEPT ![g] = c]
    BY <1>0, <1>4, <2>1 DEF RetireSave, Retired, Checkpoints
  <2> HIDE DEF c
  <2> QED
    BY <1>0, <1>4, <2>1, <2>2, <2>3, FinishKeeps DEF RetireSave, external
<1> QED
  BY <1>1, <1>2, <1>3, <1>4 DEF RetireStep

(* So does every failure of the environment.                               *)
LEMMA FaultStepTyped == ASSUME TInv, NEW g \in Graphs, FaultStep(g) PROVE TInv'
<1>0. /\ JournalTyped(journal) /\ target \in TargetStates
      /\ core \in [Graphs -> Reports \cup {None}]
      /\ chk \in [Graphs -> Checkpoints \cup {None}]
  BY DEF TInv, TypeOK
<1>1. ASSUME Finish(g), pc[g] # "idle", UNCHANGED <<process, chk, target, core>>,
             JournalTyped(journal')
      PROVE  TInv'
  <2>1. chk[g] \in Checkpoints
    BY <1>1 DEF TInv, ActivityOK
  <2>2. chk' = [chk EXCEPT ![g] = chk[g]]
    BY <1>0, <1>1
  <2> QED
    BY <1>0, <1>1, <2>1, <2>2, FinishKeeps DEF process
<1>2. CASE AppendUnacknowledged(g)
  <2>1. pc[g] \in {"stale", "start", "bind", "succeed", "fail", "propose", "retire"}
    BY <1>2 DEF AppendUnacknowledged, Appending
  <2>2. JournalTyped(journal')
    BY <1>0, <1>2, <2>1, PendingTyped DEF AppendUnacknowledged
  <2> QED
    BY <1>1, <1>2, <2>1, <2>2 DEF AppendUnacknowledged
<1>3. CASE LoadFails(g)
  BY <1>0, <1>1, <1>3 DEF LoadFails, external
<1>4. CASE ObserveFails(g)
  BY <1>0, <1>1, <1>4 DEF ObserveFails, external
<1>5. CASE ObserveForPlanFails(g)
  BY <1>0, <1>5, PublishKeeps DEF ObserveForPlanFails, external
<1>6. ASSUME pc[g] = "apply" PROVE work[g].plan \in ResourcePlans
  BY <1>6 DEF TInv, ActivityOK, PlanLabels
<1>7. CASE CommitUnanswered(g)
  <2>1. pc[g] = "apply" /\ target' \in TargetStates
    BY <1>7, CommitTyped DEF CommitUnanswered
  <2> QED
    BY <1>0, <1>6, <1>7, <2>1, PublishKeeps DEF CommitUnanswered
<1>8. CASE CommitThenRejected(g)
  <2>1. pc[g] = "apply" /\ target' \in TargetStates
    BY <1>8, CommitTyped DEF CommitThenRejected
  <2>2. work \in [Graphs -> Activities]
    BY DEF TInv, TypeOK
  <2> QED
    BY <1>0, <1>6, <1>8, <2>1, <2>2, GotoKeeps DEF CommitThenRejected, PlanLabels
<1>9. CASE ApplyUnavailable(g)
  BY <1>0, <1>6, <1>9, PublishKeeps DEF ApplyUnavailable, external
<1>10. CASE ReportLost(g)
  <2>1. pc[g] # "idle" /\ chk[g] \in Checkpoints
    BY <1>10 DEF ReportLost, Delivering, TInv, ActivityOK
  <2>2. \E n \in Nat : Schedule(g, chk[g].slice.sequence, n)
    BY <1>10 DEF ReportLost
  <2>3. core' \in [Graphs -> Reports \cup {None}]
    BY <1>0, <1>10, <2>1, ReceivedTyped DEF ReportLost
  <2>4. chk' = [chk EXCEPT ![g] = chk[g]]
    BY <1>0, <1>10 DEF ReportLost
  <2> QED
    BY <1>0, <1>10, <2>1, <2>2, <2>3, <2>4, FinishKeeps DEF ReportLost
<1>11. CASE SaveFails(g)
  <2>1. pc[g] \in {"propose", "publish", "retired", "deliver", "redeliver"}
    BY <1>11 DEF SaveFails, Delivering
  <2>2. chk[g] \in Checkpoints /\ work[g] \in Activities
    BY <2>1 DEF TInv, TypeOK, ActivityOK
  <2>3. core' \in [Graphs -> Reports \cup {None}]
    BY <1>0, <1>11, <2>2, ReceivedTyped DEF SaveFails
  <2> DEFINE saved == [chk[g] EXCEPT !.plan = work[g].plan, !.report = work[g].report]
             retired == [chk[g] EXCEPT !.retired = TRUE, !.plan = None, !.report = None]
             acknowledged == [chk[g] EXCEPT !.report = None]
  <2>4. saved \in Checkpoints
    BY <2>2 DEF Checkpoints, Activities
  <2>5. retired \in Checkpoints
    BY <2>2, RetiredTyped
  <2>6. acknowledged \in Checkpoints
    BY <2>2, ForgottenReport
  <2>7. /\ Saved(g) = [chk EXCEPT ![g] = saved]
        /\ Retired(g) = [chk EXCEPT ![g] = retired]
        /\ [chk EXCEPT ![g].report = None] = [chk EXCEPT ![g] = acknowledged]
        /\ chk = [chk EXCEPT ![g] = chk[g]]
    BY <1>0, <2>2 DEF Saved, Retired, Checkpoints
  <2> HIDE DEF saved, retired, acknowledged
  <2>8. PICK c \in Checkpoints : chk' = [chk EXCEPT ![g] = c]
    BY <1>11, <2>2, <2>4, <2>5, <2>6, <2>7 DEF SaveFails
  <2> QED
    BY <1>0, <1>11, <2>1, <2>3, <2>8, FinishKeeps DEF SaveFails, process
<1> QED
  BY <1>2, <1>3, <1>4, <1>5, <1>7, <1>8, <1>9, <1>10, <1>11 DEF FaultStep

(* A process that loses its memory is well typed if what it leaves behind  *)
(* is.                                                                     *)
LEMMA WipedTyped ==
  ASSUME TInv, Wiped, UNCHANGED <<journal, target>>,
         chk' \in [Graphs -> Checkpoints \cup {None}],
         core' \in [Graphs -> Reports \cup {None}]
  PROVE  TInv'
  BY MaxTasksIsPositive
     DEF Wiped, TInv, TypeOK, ActivityOK, ProcessOK, Quiet, PlanLabels, Labels, Idle,
         Activities

(* So does a crash.                                                        *)
LEMMA CrashTyped == ASSUME TInv, Crash PROVE TInv'
  BY WipedTyped DEF Crash, external, TInv, TypeOK

(* What a failed save at restart leaves of the checkpoint.                 *)
LEMMA ResumeSaveFailsTyped ==
  ASSUME TInv, NEW g \in Graphs, ResumeSaveFails(g)
  PROVE  TInv'
<1>1. /\ chk[g] \in Checkpoints
      /\ chk \in [Graphs -> Checkpoints \cup {None}]
      /\ core \in [Graphs -> Reports \cup {None}]
  BY DEF ResumeSaveFails, TInv, TypeOK, ProcessOK
<1>2. core' \in [Graphs -> Reports \cup {None}]
  BY <1>1, ReceivedTyped DEF ResumeSaveFails
<1> DEFINE acknowledged == [chk[g] EXCEPT !.report = None]
<1>3. acknowledged \in Checkpoints
  BY <1>1, ForgottenReport
<1>4. [chk EXCEPT ![g].report = None] = [chk EXCEPT ![g] = acknowledged]
  BY <1>1 DEF Checkpoints
<1> HIDE DEF acknowledged
<1>5. chk' \in [Graphs -> Checkpoints \cup {None}]
  BY <1>1, <1>3, <1>4 DEF ResumeSaveFails
<1> QED
  BY <1>2, <1>5, WipedTyped DEF ResumeSaveFails

(* So do the crash, the boot, its failure and the start of service.        *)
LEMMA LifecycleTyped ==
  ASSUME TInv, ProcessCrashes \/ Boot \/ ResumeFails \/ Serve \/ Drift
  PROVE  TInv'
<1>1. CASE ProcessCrashes
  BY <1>1, CrashTyped DEF ProcessCrashes
<1>2. CASE Boot
  BY <1>2 DEF Boot, external, Live, TInv, TypeOK, ActivityOK, ProcessOK, Quiet
<1>3. CASE ResumeFails
  BY <1>3, CrashTyped DEF ResumeFails
<1>4. CASE Serve
  BY <1>4 DEF Serve, external, TInv, TypeOK, ActivityOK, ProcessOK, Quiet
<1>5. CASE Drift
  <2>1. target' \in TargetStates
    BY <1>5, DriftedTyped DEF Drift, TInv, TypeOK
  <2> QED
    BY <1>5, <2>1 DEF Drift, TInv, TypeOK, ActivityOK, ProcessOK, Quiet
<1> QED
  BY <1>1, <1>2, <1>3, <1>4, <1>5

(* So does resuming one graph.                                             *)
LEMMA ResumeTyped == ASSUME TInv, NEW g \in Graphs, ResumeGraph(g) PROVE TInv'
<1>1. g \in boot /\ chk[g] \in Checkpoints /\ Quiet(g) /\ proc = "booting"
  BY DEF ResumeGraph, TInv, ProcessOK
<1>2. chk[g].slice \in Slices /\ chk[g].slice.sequence \in Sequences
  BY <1>1 DEF Checkpoints, Sequences
<1>3. /\ chk' \in [Graphs -> Checkpoints \cup {None}] /\ chk'[g] \in Checkpoints
      /\ \A h \in Graphs \ {g} : chk'[h] = chk[h]
  <2>1. [chk[g] EXCEPT !.report = None] \in Checkpoints
    BY <1>1, ForgottenReport
  <2>2. chk' = chk \/ chk' = [chk EXCEPT ![g] = [chk[g] EXCEPT !.report = None]]
    BY <1>1 DEF ResumeGraph, TInv, TypeOK, Checkpoints
  <2> QED
    BY <1>1, <2>1, <2>2 DEF TInv, TypeOK
<1>4. core' \in [Graphs -> Reports \cup {None}]
  BY <1>1, ReceivedTyped DEF ResumeGraph, TInv, TypeOK
<1>5. /\ tasks' \in [Graphs -> [Sequences -> 0 .. MaxTasks]]
      /\ \A h \in Graphs \ {g} : tasks'[h] = tasks[h]
  BY <1>2, SpawnedTyped DEF ResumeGraph, Schedule, TInv
<1>6. /\ desired' \in [Graphs -> Slices \cup {None}]
      /\ \A h \in Graphs \ {g} : desired'[h] = desired[h]
  BY <1>2 DEF ResumeGraph, TInv, TypeOK
<1>7. TypeOK'
  BY <1>3, <1>4, <1>5, <1>6 DEF ResumeGraph, TInv, TypeOK
<1>8. ActivityOK(g)'
  BY <1>1, <1>3 DEF ResumeGraph, Quiet, ActivityOK, PlanLabels
<1>9. \A h \in Graphs \ {g} : ActivityOK(h)'
  BY <1>3, <1>5, <1>6 DEF ResumeGraph, TInv, ActivityOK
<1>10. ProcessOK'
  BY <1>1, <1>3, <1>5 DEF ResumeGraph, TInv, TypeOK, ProcessOK, Quiet
<1> QED
  BY <1>7, <1>8, <1>9, <1>10 DEF TInv

(* So does accepting a level, new or repeated.                             *)
LEMMA AcceptTyped ==
  ASSUME TInv, NEW d \in Slices, AcceptNew(d) \/ AcceptAgain(d)
  PROVE  TInv'
<1> DEFINE g == d.graph
<1>1. g \in Graphs /\ d.sequence \in Sequences
  BY SlicesAreTyped DEF Sequences
<1>2. pc[g] = "idle" /\ proc = "serving" /\ boot = {}
  BY DEF AcceptNew, AcceptAgain, TInv, ProcessOK
<1>3. /\ chk' \in [Graphs -> Checkpoints \cup {None}] /\ chk'[g] \in Checkpoints
      /\ \A h \in Graphs \ {g} : chk'[h] = chk[h]
  <2>1. AcceptedCheckpoint(d, chk[g]) \in Checkpoints
    BY DEF AcceptedCheckpoint, Checkpoints
  <2>2. CASE AcceptNew(d)
    BY <1>1, <2>1, <2>2 DEF AcceptNew, TInv, TypeOK
  <2>3. CASE AcceptAgain(d)
    BY <1>1, <2>3 DEF AcceptAgain, Live, TInv, TypeOK
  <2> QED
    BY <2>2, <2>3
<1>4. /\ tasks' \in [Graphs -> [Sequences -> 0 .. MaxTasks]]
      /\ \A h \in Graphs \ {g} : tasks'[h] = tasks[h]
  <2>1. /\ Spawned(g, d.sequence, 1) \in [Graphs -> [Sequences -> 0 .. MaxTasks]]
        /\ \A h \in Graphs \ {g} : Spawned(g, d.sequence, 1)[h] = tasks[h]
    BY <1>1, SpawnedTyped DEF TInv
  <2>2. tasks' = tasks \/ tasks' = Spawned(g, d.sequence, 1)
    BY DEF AcceptNew, AcceptAgain, Schedule
  <2> QED
    BY <2>1, <2>2 DEF TInv, TypeOK
<1>5. /\ desired' \in [Graphs -> Slices \cup {None}]
      /\ \A h \in Graphs \ {g} : desired'[h] = desired[h]
  BY <1>1 DEF AcceptNew, AcceptAgain, TInv, TypeOK
<1>6. UNCHANGED <<proc, boot, pc, work, queue, journal, target, core>>
  BY DEF AcceptNew, AcceptAgain, external
<1> HIDE DEF g
<1>7. TypeOK'
  BY <1>3, <1>4, <1>5, <1>6 DEF TInv, TypeOK
<1>8. ActivityOK(g)'
  BY <1>2, <1>3, <1>6 DEF ActivityOK, PlanLabels
<1>9. \A h \in Graphs \ {g} : ActivityOK(h)'
  BY <1>3, <1>4, <1>5, <1>6 DEF TInv, ActivityOK
<1>10. ProcessOK'
  BY <1>2, <1>6 DEF ProcessOK
<1> QED
  BY <1>7, <1>8, <1>9, <1>10 DEF TInv

(* TInv is inductive.                                                      *)
LEMMA NextTyped == ASSUME TInv, [Next]_vars PROVE TInv'
<1>1. CASE \E g \in Graphs : GraphStep(g)
  BY <1>1, TaskStepTyped, PassStepTyped, FinalStepTyped, FaultStepTyped, ResumeTyped
     DEF GraphStep
<1>2. CASE CoreSends
  BY <1>2, AcceptTyped DEF CoreSends
<1>3. CASE ProcessCrashes \/ Boot \/ ResumeFails \/ Serve \/ Drift
  BY <1>3, LifecycleTyped
<1>4. CASE \E g \in Graphs : ResumeSaveFails(g)
  BY <1>4, ResumeSaveFailsTyped
<1>5. CASE UNCHANGED vars
  BY <1>5 DEF vars, TInv, TypeOK, ActivityOK, ProcessOK, Quiet
<1> QED
  BY <1>1, <1>2, <1>3, <1>4, <1>5 DEF Next

(* Type correctness: every state the controller reaches, whatever fails    *)
(* and whenever it restarts, is one the code's types can hold, and every   *)
(* activity has the checkpoint, level, plan and report its label needs.    *)
THEOREM TypeCorrect == Spec => []TypeOK
<1>1. Init => TInv
  BY InitTyped
<1>2. TInv /\ [Next]_vars => TInv'
  BY NextTyped
<1>3. TInv => TypeOK
  BY DEF TInv
<1> QED
  BY <1>1, <1>2, <1>3, PTL DEF Spec

-----------------------------------------------------------------------------
(* A step of one graph's activity leaves the others' bookkeeping alone.    *)
LEMMA Footprint ==
  ASSUME TInv, NEW g \in Graphs, GraphStep(g), NEW h \in Graphs \ {g}
  PROVE  /\ chk'[h] = chk[h]
         /\ desired'[h] = desired[h]
         /\ tasks'[h] = tasks[h]
         /\ pc'[h] = pc[h]
         /\ work'[h] = work[h]
<1> USE DEF TInv, TypeOK, process, external, Goto, Publish, Finish, Schedule, Spawned
<1>1. CASE TaskStep(g)
  BY <1>1 DEF TaskStep, TakeTask, DropTask, BeginRedelivery, BeginPass
<1>2. CASE PassStep(g)
  <2>1. CASE RefuseDesired(g) \/ FindStale(g) \/ ResumeBinding(g) \/ ResumePlan(g) \/ PlanFresh(g)
    BY <2>1 DEF RefuseDesired, LoadPlan, FindStale, ResumeBinding, ResumePlan, PlanFresh
  <2>2. CASE \/ AppendStale(g) \/ AppendStarted(g) \/ AppendBinding(g) \/ AppendSucceeded(g)
             \/ AppendFailed(g) \/ AppendCreated(g)
    BY <2>2 DEF AppendStale, AppendStarted, AppendBinding, AppendSucceeded, AppendFailed,
                AppendCreated
  <2>3. CASE ObserveForApply(g) \/ ApplyStale(g) \/ ApplyCommits(g) \/ ApplyRejected(g)
    BY <2>3 DEF ObserveForApply, ApplyStale, ApplyCommits, ApplyRejected
  <2>4. CASE PlanRejected(g) \/ PlanEmpty(g) \/ Propose(g) \/ SaveReport(g)
    BY <2>4 DEF PlanRejected, PlanEmpty, Propose, SaveReport, Saved
  <2> QED
    BY <1>2, <2>1, <2>2, <2>3, <2>4 DEF PassStep
<1>3. CASE ReportAcknowledged(g)
  BY <1>3 DEF ReportAcknowledged
<1>4. CASE RetireBegin(g) \/ RetireStep(g)
  BY <1>4 DEF RetireBegin, RetireStep, RetireRelease, RetireSave, Retired
<1>5. CASE FaultStep(g)
  <2>1. CASE AppendUnacknowledged(g) \/ LoadFails(g) \/ ObserveFails(g) \/ ObserveForPlanFails(g)
    BY <2>1 DEF AppendUnacknowledged, LoadFails, ObserveFails, ObserveForPlanFails
  <2>2. CASE CommitUnanswered(g) \/ CommitThenRejected(g) \/ ApplyUnavailable(g)
    BY <2>2 DEF CommitUnanswered, CommitThenRejected, ApplyUnavailable
  <2>3. CASE ReportLost(g) \/ SaveFails(g)
    BY <2>3 DEF ReportLost, SaveFails, Saved, Retired
  <2> QED
    BY <1>5, <2>1, <2>2, <2>3 DEF FaultStep
<1>6. CASE ResumeGraph(g)
  BY <1>6 DEF ResumeGraph
<1> QED
  BY <1>1, <1>2, <1>3, <1>4, <1>5, <1>6 DEF GraphStep

-----------------------------------------------------------------------------
(* Plans belong to the retained level, and propose only what was missing.  *)

PlanOK(g, plan) ==
  /\ plan.slice = chk[g].slice
  /\ ~OperationSatisfied(plan.op, plan.observed)

LevelOK(g) ==
  /\ chk[g] # None => chk[g].slice.graph = g
  /\ chk[g] # None /\ chk[g].plan # None => PlanOK(g, chk[g].plan)
  /\ pc[g] \in PlanLabels => PlanOK(g, work[g].plan)
  /\ pc[g] = "publish" /\ work[g].plan # None => PlanOK(g, work[g].plan)
  /\ pc[g] \notin {"idle", "retire", "retired"} => ~chk[g].retired /\ desired[g] = chk[g].slice
  /\ pc[g] # "idle" => chk[g] # None
  /\ \A q \in Sequences : tasks[g][q] > 0 => chk[g] # None /\ q <= chk[g].slice.sequence
  /\ Live(g) /\ tasks[g][chk[g].slice.sequence] > 0 => desired[g] = chk[g].slice

LInv == TInv /\ \A g \in Graphs : LevelOK(g)

(* A pass keeps its graph's level and plan together.                       *)
LEMMA PassStepKeepsLevel == ASSUME LInv, NEW g \in Graphs, PassStep(g) PROVE LevelOK(g)'
<1> USE DEF process, external
<1>0. /\ LevelOK(g) /\ pc \in [Graphs -> Labels] /\ work \in [Graphs -> Activities]
      /\ chk \in [Graphs -> Checkpoints \cup {None}]
  BY DEF LInv, TInv, TypeOK
<1>1. ASSUME pc[g] \notin {"idle", "retire", "retired"}, NEW plan, NEW disposition, NEW requeue,
             Publish(g, plan, disposition, requeue), plan # None => PlanOK(g, plan),
             UNCHANGED <<process, chk>>
      PROVE  LevelOK(g)'
  BY <1>0, <1>1 DEF Publish, Goto, LevelOK, PlanOK, Live, PlanLabels
<1>2. ASSUME pc[g] \notin {"idle", "retire", "retired"}, NEW label \in PlanLabels \cup {"plan"},
             Goto(g, label), label # "plan" => PlanOK(g, work'[g].plan),
             UNCHANGED <<process, chk>>
      PROVE  LevelOK(g)'
  BY <1>0, <1>2 DEF Goto, LevelOK, PlanOK, Live, PlanLabels
<1>3. CASE RefuseDesired(g)
  BY <1>1, <1>3 DEF RefuseDesired, Loaded
<1>4. ASSUME LoadPlan(g) PROVE pc[g] = "load" /\ PlanOK(g, work'[g].plan)
  <2>1. work' = [work EXCEPT ![g].plan = chk[g].plan] /\ chk[g].plan # None /\ pc[g] = "load"
    BY <1>4 DEF LoadPlan, Loaded
  <2>2. work[g] \in Activities
    BY <1>0
  <2>3. work'[g].plan = chk[g].plan
    BY <1>0, <2>1, <2>2 DEF Activities
  <2> QED
    BY <1>0, <2>1, <2>3 DEF LevelOK
<1>5. CASE FindStale(g)
  BY <1>2, <1>4, <1>5 DEF FindStale, PlanLabels
<1>6. CASE ResumeBinding(g)
  <2>1. PICK label \in {"bind", "start"} : Goto(g, label)
    BY <1>6 DEF ResumeBinding
  <2> QED
    BY <1>2, <1>4, <1>6, <2>1 DEF ResumeBinding, PlanLabels
<1>7. CASE ResumePlan(g)
  BY <1>2, <1>4, <1>7 DEF ResumePlan, PlanLabels
<1>8. CASE PlanFresh(g)
  BY <1>2, <1>8 DEF PlanFresh, Loaded
<1>9. CASE AppendStale(g)
  BY <1>1, <1>9 DEF AppendStale, AppendPending
<1>10. CASE AppendStarted(g)
  <2>1. PICK label \in {"bind", "apply"} : Goto(g, label)
    BY <1>10 DEF AppendStarted
  <2>2. pc[g] = "start" /\ work' = work /\ PlanOK(g, work[g].plan)
    BY <1>0, <1>10 DEF AppendStarted, AppendPending, LevelOK, PlanLabels
  <2> QED
    BY <1>2, <1>10, <2>1, <2>2 DEF AppendStarted, PlanLabels
<1>11. CASE AppendBinding(g)
  <2>1. pc[g] = "bind" /\ work' = work /\ PlanOK(g, work[g].plan)
    BY <1>0, <1>11 DEF AppendBinding, AppendPending, LevelOK, PlanLabels
  <2> QED
    BY <1>2, <1>11, <2>1 DEF AppendBinding, PlanLabels
<1>12. CASE AppendSucceeded(g)
  BY <1>1, <1>12 DEF AppendSucceeded, AppendPending
<1>13. CASE AppendFailed(g)
  BY <1>1, <1>13 DEF AppendFailed, AppendPending
<1>14. CASE AppendCreated(g)
  <2>1. pc[g] = "propose" /\ PlanOK(g, work[g].plan)
    BY <1>0, <1>14 DEF AppendCreated, AppendPending, LevelOK, PlanLabels
  <2> QED
    BY <1>1, <1>14, <2>1 DEF AppendCreated
<1>15. ASSUME pc[g] \in {"observe", "apply"} PROVE PlanOK(g, work[g].plan)
  BY <1>0, <1>15 DEF LevelOK, PlanLabels
<1>16. CASE ObserveForApply(g)
  <2>1. PICK label \in {"succeed", "apply", "start"} : Goto(g, label)
    BY <1>16 DEF ObserveForApply
  <2> QED
    BY <1>2, <1>15, <1>16, <2>1 DEF ObserveForApply, PlanLabels
<1>17. CASE ApplyStale(g)
  BY <1>2, <1>15, <1>17 DEF ApplyStale, PlanLabels
<1>18. CASE ApplyCommits(g)
  BY <1>2, <1>15, <1>18 DEF ApplyCommits, Commit, PlanLabels
<1>19. CASE ApplyRejected(g)
  BY <1>2, <1>15, <1>19 DEF ApplyRejected, PlanLabels
<1>20. CASE PlanRejected(g)
  BY <1>1, <1>20 DEF PlanRejected
<1>21. CASE PlanEmpty(g)
  BY <1>1, <1>21 DEF PlanEmpty
<1>22. CASE Propose(g)
  <2>1. PICK op \in First(Outstanding(desired[g], journal.bindings, Observe(target, desired[g]))) :
          work' = [work EXCEPT ![g].plan = [id |-> FreshPlanId, slice |-> desired[g], op |-> op,
                                            observed |-> Observe(target, desired[g])]]
    BY <1>22 DEF Propose
  <2>2. /\ work'[g].plan.slice = desired[g] /\ work'[g].plan.op = op
        /\ work'[g].plan.observed = Observe(target, desired[g])
    BY <1>0, <2>1 DEF Activities
  <2>3. pc[g] = "plan" /\ desired[g] = chk[g].slice
    BY <1>0, <1>22 DEF Propose, LevelOK
  <2>4. ~OperationSatisfied(op, Observe(target, desired[g]))
    BY FirstIsUnsatisfied
  <2>5. PlanOK(g, work'[g].plan)
    BY <2>2, <2>3, <2>4 DEF PlanOK
  <2> QED
    BY <1>2, <1>22, <2>3, <2>5 DEF Propose, PlanLabels
<1>23. CASE SaveReport(g)
  <2>1. pc[g] = "publish" /\ chk[g] # None /\ chk[g] \in Checkpoints
    BY <1>0, <1>23 DEF SaveReport, LevelOK
  <2>2. /\ chk'[g] = [chk[g] EXCEPT !.plan = work[g].plan, !.report = work[g].report]
        /\ pc'[g] = "deliver"
    BY <1>0, <1>23, <2>1 DEF SaveReport, Saved, Goto, Checkpoints
  <2>3. /\ chk'[g].slice = chk[g].slice /\ chk'[g].retired = chk[g].retired
        /\ chk'[g].plan = work[g].plan
    BY <2>1, <2>2 DEF Checkpoints
  <2>4. chk'[g] # None
    BY <1>23, PassStepTyped, NoneIsNoCheckpoint, <2>2
       DEF LInv, TInv, ActivityOK, PassStep
  <2> QED
    BY <1>0, <1>23, <2>1, <2>2, <2>3, <2>4 DEF SaveReport, LevelOK, PlanOK, Live, PlanLabels
<1> QED
  BY <1>3, <1>5, <1>6, <1>7, <1>8, <1>9, <1>10, <1>11, <1>12, <1>13, <1>14, <1>16, <1>17, <1>18,
     <1>19, <1>20, <1>21, <1>22, <1>23 DEF PassStep

(* So does a task that starts or drops a pass.                             *)
LEMMA TaskStepKeepsLevel == ASSUME LInv, NEW g \in Graphs, TaskStep(g) PROVE LevelOK(g)'
<1>1. PICK q \in Sequences : DropTask(g, q) \/ BeginRedelivery(g, q) \/ BeginPass(g, q)
  BY DEF TaskStep
<1>2. /\ tasks[g] \in [Sequences -> 0 .. MaxTasks] /\ tasks[g][q] > 0 /\ pc[g] = "idle"
      /\ tasks' = [tasks EXCEPT ![g][q] = @ - 1] /\ tasks \in [Graphs -> [Sequences -> 0 .. MaxTasks]]
      /\ pc \in [Graphs -> Labels]
  BY <1>1 DEF TakeTask, DropTask, BeginRedelivery, BeginPass, LInv, TInv, TypeOK
<1>3. \A r \in Sequences : tasks'[g][r] > 0 => tasks[g][r] > 0
  BY <1>2, MaxTasksIsPositive
<1>4. LevelOK(g) /\ chk[g] # None /\ chk[g].slice.sequence \in Sequences
  BY <1>2, SlicesAreTyped DEF LInv, LevelOK, TInv, TypeOK, Checkpoints, Sequences
<1>5. UNCHANGED <<chk, desired, work>>
  BY <1>1 DEF DropTask, BeginRedelivery, BeginPass, external
<1>6. CASE DropTask(g, q)
  BY <1>2, <1>3, <1>4, <1>5, <1>6 DEF DropTask, LevelOK, PlanOK, Live, PlanLabels
<1>7. CASE BeginRedelivery(g, q) \/ BeginPass(g, q)
  <2>1. ~chk[g].retired /\ chk[g].slice.sequence = q /\ pc'[g] \in {"load", "redeliver"}
    BY <1>2, <1>7 DEF BeginRedelivery, BeginPass, Goto
  <2>2. desired[g] = chk[g].slice
    BY <1>2, <1>4, <2>1 DEF LevelOK, Live
  <2> QED
    BY <1>3, <1>4, <1>5, <2>1, <2>2 DEF LevelOK, PlanOK, Live, PlanLabels
<1> QED
  BY <1>1, <1>6, <1>7

(* An activity that ends, whatever of its checkpoint it saved.             *)
LEMMA EndKeepsLevel ==
  ASSUME LInv, NEW g \in Graphs, pc[g] # "idle", Finish(g),
         tasks' = tasks \/ (pc[g] \notin {"retire", "retired"}
                            /\ \E n \in Nat : Schedule(g, chk[g].slice.sequence, n)),
         desired' = desired \/ chk'[g].retired,
         chk'[g] # None,
         chk'[g].slice = chk[g].slice,
         chk'[g].retired = chk[g].retired \/ chk'[g].retired,
         chk'[g].plan # None => PlanOK(g, chk'[g].plan)
  PROVE  LevelOK(g)'
<1>1. LevelOK(g) /\ chk[g] # None /\ chk[g].slice.sequence \in Sequences
  BY SlicesAreTyped DEF LInv, LevelOK, TInv, TypeOK, Checkpoints, Sequences
<1>2. pc'[g] = "idle"
  BY DEF Finish, LInv, TInv, TypeOK
<1>3. \A q \in Sequences : tasks'[g][q] > 0 => tasks[g][q] > 0 \/ q = chk[g].slice.sequence
  BY <1>1 DEF Schedule, Spawned, LInv, TInv, TypeOK
<1>4. chk[g].slice.sequence \in Nat
  BY <1>1, SlicesAreTyped DEF Sequences
<1>5. \A q \in Sequences : tasks'[g][q] > 0 => q <= chk[g].slice.sequence
  BY <1>1, <1>3, <1>4 DEF LevelOK
<1>6. ASSUME ~chk'[g].retired, tasks'[g][chk[g].slice.sequence] > 0
      PROVE  desired'[g] = chk[g].slice
  BY <1>1, <1>6 DEF LevelOK, Live
<1> QED
  BY <1>1, <1>2, <1>5, <1>6 DEF LevelOK, PlanOK, Live, PlanLabels

(* So does the end of a pass or of a retirement.                           *)
LEMMA FinalStepKeepsLevel ==
  ASSUME LInv, NEW g \in Graphs,
         ReportAcknowledged(g) \/ RetireBegin(g) \/ RetireStep(g)
  PROVE  LevelOK(g)'
<1> USE DEF process, external
<1>0. /\ LevelOK(g) /\ pc \in [Graphs -> Labels] /\ chk \in [Graphs -> Checkpoints \cup {None}]
  BY DEF LInv, TInv, TypeOK
<1>1. CASE ReportAcknowledged(g)
  <2>1. pc[g] \in {"deliver", "redeliver"} /\ chk[g] # None /\ chk[g] \in Checkpoints
    BY <1>0, <1>1 DEF ReportAcknowledged, Delivering, LevelOK
  <2>2. chk'[g] = [chk[g] EXCEPT !.report = None]
    BY <1>0, <1>1, <2>1 DEF ReportAcknowledged, Checkpoints
  <2>3. chk'[g] \in Checkpoints
    BY <2>1, <2>2, ForgottenReport
  <2>4. /\ chk'[g] # None /\ chk'[g].slice = chk[g].slice /\ chk'[g].retired = chk[g].retired
        /\ chk'[g].plan = chk[g].plan
    BY <2>1, <2>2, <2>3, NoneIsNoCheckpoint DEF Checkpoints
  <2>5. chk'[g].plan # None => PlanOK(g, chk'[g].plan)
    BY <1>0, <2>1, <2>4 DEF LevelOK
  <2>6. pc[g] \notin {"idle", "retire", "retired"} /\ Finish(g) /\ desired' = desired
        /\ \E n \in Nat : Schedule(g, chk[g].slice.sequence, n)
    BY <1>1, <2>1 DEF ReportAcknowledged
  <2> QED
    BY <2>4, <2>5, <2>6, EndKeepsLevel
<1>2. CASE RetireBegin(g)
  BY <1>0, <1>2 DEF RetireBegin, Goto, LevelOK, PlanOK, Live, PlanLabels
<1>3. CASE RetireRelease(g)
  BY <1>0, <1>3 DEF RetireRelease, AppendPending, Goto, LevelOK, PlanOK, Live, PlanLabels
<1>4. CASE RetireSave(g)
  <2>1. chk[g] # None /\ chk[g] \in Checkpoints
    BY <1>0, <1>4 DEF RetireSave, LevelOK
  <2>2. chk'[g] = [chk[g] EXCEPT !.retired = TRUE, !.plan = None, !.report = None]
    BY <1>0, <1>4, <2>1 DEF RetireSave, Retired, Checkpoints
  <2>3. chk'[g] \in Checkpoints
    BY <2>1, <2>2, RetiredTyped
  <2>4. /\ chk'[g] # None /\ chk'[g].slice = chk[g].slice /\ chk'[g].retired
        /\ chk'[g].plan = None
    BY <2>1, <2>2, <2>3, NoneIsNoCheckpoint DEF Checkpoints
  <2> QED
    BY <1>4, <2>4, EndKeepsLevel DEF RetireSave
<1> QED
  BY <1>1, <1>2, <1>3, <1>4 DEF RetireStep

(* So does every failure of the environment.                               *)
LEMMA FaultStepKeepsLevel == ASSUME LInv, NEW g \in Graphs, FaultStep(g) PROVE LevelOK(g)'
<1> USE DEF process, external
<1>0. /\ LevelOK(g) /\ pc \in [Graphs -> Labels] /\ work \in [Graphs -> Activities]
      /\ chk \in [Graphs -> Checkpoints \cup {None}]
  BY DEF LInv, TInv, TypeOK
<1>1. ASSUME pc[g] # "idle", Finish(g), UNCHANGED <<process, chk>>
      PROVE  LevelOK(g)'
  <2>1. chk[g] # None /\ (chk[g].plan # None => PlanOK(g, chk[g].plan))
    BY <1>0, <1>1 DEF LevelOK
  <2> QED
    BY <1>1, <2>1, EndKeepsLevel
<1>2. ASSUME pc[g] \in {"plan", "apply"}, NEW plan, NEW disposition, NEW requeue,
             Publish(g, plan, disposition, requeue), plan = None \/ plan = work[g].plan,
             pc[g] = "plan" => plan = None, UNCHANGED <<process, chk>>
      PROVE  LevelOK(g)'
  BY <1>0, <1>2 DEF Publish, Goto, LevelOK, PlanOK, Live, PlanLabels
<1>3. CASE AppendUnacknowledged(g) \/ LoadFails(g) \/ ObserveFails(g)
  BY <1>1, <1>3 DEF AppendUnacknowledged, Appending, LoadFails, ObserveFails
<1>4. CASE ObserveForPlanFails(g)
  BY <1>2, <1>4 DEF ObserveForPlanFails
<1>5. CASE CommitUnanswered(g)
  BY <1>2, <1>5 DEF CommitUnanswered, Commit
<1>6. CASE CommitThenRejected(g)
  BY <1>0, <1>6 DEF CommitThenRejected, Commit, Goto, LevelOK, PlanOK, Live, PlanLabels
<1>7. CASE ApplyUnavailable(g)
  BY <1>2, <1>7 DEF ApplyUnavailable
<1>8. CASE ReportLost(g)
  <2>1. pc[g] \in {"deliver", "redeliver"} /\ chk[g] # None
    BY <1>0, <1>8 DEF ReportLost, Delivering, LevelOK
  <2>2. chk' = chk /\ (chk[g].plan # None => PlanOK(g, chk[g].plan))
    BY <1>0, <1>8, <2>1 DEF ReportLost, LevelOK
  <2>3. Finish(g) /\ desired' = desired
        /\ \E n \in Nat : Schedule(g, chk[g].slice.sequence, n)
    BY <1>8 DEF ReportLost
  <2> QED
    BY <2>1, <2>2, <2>3, EndKeepsLevel
<1>9. CASE SaveFails(g)
  <2>1. pc[g] \in {"propose", "publish", "retired", "deliver", "redeliver"} /\ chk[g] # None
        /\ chk[g] \in Checkpoints
    BY <1>0, <1>9 DEF SaveFails, Delivering, LevelOK
  <2>2. chk[g].plan # None => PlanOK(g, chk[g].plan)
    BY <1>0, <2>1 DEF LevelOK
  <2>3. work[g] \in Activities
    BY <1>0
  <2>4. ASSUME pc[g] = "publish", chk' = Saved(g)
        PROVE  /\ chk'[g] \in Checkpoints /\ chk'[g].slice = chk[g].slice
               /\ chk'[g].retired = chk[g].retired
               /\ chk'[g].plan # None => PlanOK(g, chk'[g].plan)
    <3>1. chk'[g] = [chk[g] EXCEPT !.plan = work[g].plan, !.report = work[g].report]
      BY <1>0, <2>1, <2>4 DEF Saved, Checkpoints
    <3> QED
      BY <1>0, <2>1, <2>3, <2>4, <3>1 DEF Checkpoints, Activities, LevelOK
  <2>5. ASSUME chk' = Retired(g)
        PROVE  /\ chk'[g] \in Checkpoints /\ chk'[g].slice = chk[g].slice
               /\ chk'[g].retired /\ chk'[g].plan = None
    <3>1. chk'[g] = [chk[g] EXCEPT !.retired = TRUE, !.plan = None, !.report = None]
      BY <1>0, <2>1, <2>5 DEF Retired, Checkpoints
    <3> QED
      BY <2>1, <3>1, RetiredTyped DEF Checkpoints
  <2>6. ASSUME chk' = [chk EXCEPT ![g].report = None]
        PROVE  /\ chk'[g] \in Checkpoints /\ chk'[g].slice = chk[g].slice
               /\ chk'[g].retired = chk[g].retired /\ chk'[g].plan = chk[g].plan
    <3>1. chk'[g] = [chk[g] EXCEPT !.report = None]
      BY <1>0, <2>1, <2>6 DEF Checkpoints
    <3> QED
      BY <2>1, <3>1, ForgottenReport DEF Checkpoints
  <2>7. Finish(g) /\ desired' = desired /\ tasks' = tasks
    BY <1>9 DEF SaveFails
  <2>8. \/ chk' = chk
        \/ pc[g] = "publish" /\ chk' = Saved(g)
        \/ chk' = Retired(g)
        \/ chk' = [chk EXCEPT ![g].report = None]
    BY <1>9 DEF SaveFails
  <2>9. /\ chk'[g] # None /\ chk'[g].slice = chk[g].slice
        /\ (chk'[g].retired = chk[g].retired \/ chk'[g].retired)
        /\ chk'[g].plan # None => PlanOK(g, chk'[g].plan)
    BY <2>1, <2>2, <2>4, <2>5, <2>6, <2>8, NoneIsNoCheckpoint
  <2> QED
    BY <2>1, <2>7, <2>9, EndKeepsLevel
<1> QED
  BY <1>3, <1>4, <1>5, <1>6, <1>7, <1>8, <1>9 DEF FaultStep

(* Resuming loads exactly the checkpoint's level.                          *)
LEMMA ResumeKeepsLevel == ASSUME LInv, NEW g \in Graphs, ResumeGraph(g) PROVE LevelOK(g)'
<1>1. LevelOK(g) /\ pc[g] = "idle" /\ chk[g] \in Checkpoints /\ \A q \in Sequences : tasks[g][q] = 0
  BY DEF ResumeGraph, LInv, TInv, ProcessOK, Quiet
<1>2. chk[g].slice.sequence \in Sequences /\ chk[g].slice.sequence \in Nat
  BY <1>1, SlicesAreTyped DEF Checkpoints, Sequences
<1>3. /\ chk'[g] \in Checkpoints /\ chk'[g].slice = chk[g].slice
      /\ chk'[g].retired = chk[g].retired /\ chk'[g].plan = chk[g].plan
  <2>1. chk' = chk \/ chk'[g] = [chk[g] EXCEPT !.report = None]
    BY <1>1 DEF ResumeGraph, LInv, TInv, TypeOK, Checkpoints
  <2> QED
    BY <1>1, <2>1, ForgottenReport DEF Checkpoints
<1>4. \A q \in Sequences : tasks'[g][q] > 0 => q = chk[g].slice.sequence
  BY <1>1, <1>2 DEF ResumeGraph, Schedule, Spawned, LInv, TInv, TypeOK
<1>5. desired'[g] = chk[g].slice /\ pc'[g] = "idle"
  BY <1>1 DEF ResumeGraph, LInv, TInv, TypeOK
<1> QED
  BY <1>1, <1>2, <1>3, <1>4, <1>5, NoneIsNoCheckpoint DEF LevelOK, PlanOK, Live, PlanLabels

(* Accepting replaces level and plan at once, or neither.                  *)
LEMMA AcceptKeepsLevel ==
  ASSUME LInv, NEW d \in Slices, AcceptNew(d) \/ AcceptAgain(d), NEW g \in Graphs
  PROVE  LevelOK(g)'
<1>0. /\ LevelOK(g) /\ chk \in [Graphs -> Checkpoints \cup {None}]
      /\ desired \in [Graphs -> Slices \cup {None}]
      /\ tasks \in [Graphs -> [Sequences -> 0 .. MaxTasks]]
      /\ pc' = pc /\ work' = work
      /\ d.graph \in Graphs /\ d.sequence \in Sequences /\ d.sequence \in Nat
  BY SlicesAreTyped DEF LInv, TInv, TypeOK, AcceptNew, AcceptAgain, external, Sequences
<1>1. CASE g # d.graph
  <2>1. chk'[g] = chk[g] /\ desired'[g] = desired[g] /\ tasks'[g] = tasks[g]
    BY <1>0, <1>1 DEF AcceptNew, AcceptAgain, Schedule, Spawned
  <2> QED
    BY <1>0, <2>1 DEF LevelOK, PlanOK, Live
<1>2. CASE g = d.graph /\ AcceptNew(d)
  <2>1. /\ chk'[g] = AcceptedCheckpoint(d, chk[g]) /\ pc[g] = "idle"
        /\ chk[g] # None => d.sequence > chk[g].slice.sequence
    BY <1>0, <1>2 DEF AcceptNew
  <2>2. /\ chk'[g] \in Checkpoints /\ chk'[g].slice = d /\ chk'[g].plan = None
    BY <2>1 DEF AcceptedCheckpoint, Checkpoints
  <2>3. \A q \in Sequences : tasks[g][q] > 0 => q < d.sequence
    BY <1>0, <2>1, SlicesAreTyped DEF LevelOK, Sequences, Checkpoints
  <2>4. \A q \in Sequences : tasks'[g][q] > 0 => tasks[g][q] > 0 \/ (q = d.sequence /\ desired'[g] = d)
    BY <1>0, <1>2 DEF AcceptNew, Schedule, Spawned
  <2>5. \A q \in Sequences : q \in Nat
    BY SlicesAreTyped DEF Sequences
  <2>6. \A q \in Sequences : tasks'[g][q] > 0 => q <= d.sequence
    BY <1>0, <2>3, <2>4, <2>5
  <2>7. tasks'[g][d.sequence] > 0 => desired'[g] = d
    BY <1>0, <2>3, <2>4, <2>5
  <2> QED
    BY <1>0, <1>2, <2>1, <2>2, <2>6, <2>7, NoneIsNoCheckpoint DEF LevelOK, Live, PlanLabels
<1>3. CASE g = d.graph /\ AcceptAgain(d)
  <2>1. /\ chk[g] # None /\ d.sequence = chk[g].slice.sequence
        /\ DesiredDigest(d) = DesiredDigest(chk[g].slice) /\ pc[g] = "idle"
        /\ chk' = chk /\ desired'[g] = d /\ chk[g] \in Checkpoints
    BY <1>0, <1>3 DEF AcceptAgain, Live
  <2>2. chk[g].slice \in Slices
    BY <2>1 DEF Checkpoints
  <2>3. d = chk[g].slice
    BY <2>1, <2>2, SlicesAreTyped DEF DesiredDigest
  <2>4. \A q \in Sequences : tasks'[g][q] > 0 => tasks[g][q] > 0 \/ q = d.sequence
    BY <1>0, <1>3 DEF AcceptAgain, Schedule, Spawned
  <2>5. \A q \in Sequences : tasks'[g][q] > 0 => q <= chk[g].slice.sequence
    BY <1>0, <2>1, <2>4 DEF LevelOK
  <2> QED
    BY <1>0, <2>1, <2>3, <2>5 DEF LevelOK, PlanOK, Live, PlanLabels
<1> QED
  BY <1>1, <1>2, <1>3

(* A crash forgets the level together with every scheduled pass.           *)
LEMMA LifecycleKeepsLevel ==
  ASSUME LInv, ProcessCrashes \/ Boot \/ ResumeFails \/ Serve \/ Drift, NEW g \in Graphs
  PROVE  LevelOK(g)'
<1>0. LevelOK(g)
  BY DEF LInv
<1>1. ASSUME Crash PROVE LevelOK(g)'
  BY <1>0, <1>1, SlicesAreTyped
     DEF Crash, Wiped, external, LevelOK, PlanOK, Live, PlanLabels, LInv, TInv, TypeOK,
         Checkpoints, Sequences
<1>2. CASE Boot \/ Serve \/ Drift
  BY <1>0, <1>2 DEF Boot, Serve, Drift, external, LevelOK, PlanOK, Live
<1> QED
  BY <1>1, <1>2 DEF ProcessCrashes, ResumeFails

(* So does a boot that a failed save ends.                                 *)
LEMMA ResumeSaveFailsKeepsLevel ==
  ASSUME LInv, NEW g \in Graphs, ResumeSaveFails(g), NEW h \in Graphs
  PROVE  LevelOK(h)'
<1>1. /\ LevelOK(h)
      /\ chk[g] \in Checkpoints
      /\ chk \in [Graphs -> Checkpoints \cup {None}]
  BY DEF ResumeSaveFails, LInv, TInv, TypeOK, ProcessOK
<1>2. \/ chk'[h] = chk[h]
      \/ chk[h] \in Checkpoints /\ chk'[h] = [chk[h] EXCEPT !.report = None]
  BY <1>1 DEF ResumeSaveFails, Checkpoints
<1>3. CASE chk'[h] = chk[h]
  BY <1>1, <1>3, SlicesAreTyped
     DEF ResumeSaveFails, Wiped, LevelOK, PlanOK, Live, PlanLabels, Checkpoints, Sequences
<1>4. CASE chk[h] \in Checkpoints /\ chk'[h] = [chk[h] EXCEPT !.report = None]
  <2>1. /\ chk'[h] \in Checkpoints /\ chk[h] # None /\ chk'[h] # None
        /\ chk'[h].slice = chk[h].slice /\ chk'[h].plan = chk[h].plan
    BY <1>4, ForgottenReport, NoneIsNoCheckpoint DEF Checkpoints
  <2> QED
    BY <1>1, <2>1, SlicesAreTyped
       DEF ResumeSaveFails, Wiped, LevelOK, PlanOK, Live, PlanLabels, Checkpoints, Sequences
<1> QED
  BY <1>2, <1>3, <1>4

(* LInv is inductive.                                                      *)
LEMMA NextKeepsLevel == ASSUME LInv, [Next]_vars PROVE LInv'
<1>1. TInv'
  BY NextTyped DEF LInv
<1>2. ASSUME NEW h \in Graphs PROVE LevelOK(h)'
  <2>1. ASSUME NEW g \in Graphs, GraphStep(g) PROVE LevelOK(h)'
    <3>1. CASE g = h
      BY <2>1, <3>1, TaskStepKeepsLevel, PassStepKeepsLevel, FinalStepKeepsLevel,
         FaultStepKeepsLevel, ResumeKeepsLevel DEF GraphStep
    <3>2. CASE g # h
      <4>1. /\ chk'[h] = chk[h] /\ desired'[h] = desired[h] /\ tasks'[h] = tasks[h]
            /\ pc'[h] = pc[h] /\ work'[h] = work[h]
        BY <2>1, <3>2, Footprint DEF LInv
      <4> QED
        BY <4>1 DEF LInv, LevelOK, PlanOK, Live
    <3> QED
      BY <3>1, <3>2
  <2>2. CASE CoreSends
    BY <2>2, AcceptKeepsLevel DEF CoreSends
  <2>3. CASE ProcessCrashes \/ Boot \/ ResumeFails \/ Serve \/ Drift
    BY <2>3, LifecycleKeepsLevel
  <2>4. CASE \E g \in Graphs : ResumeSaveFails(g)
    BY <2>4, ResumeSaveFailsKeepsLevel
  <2>5. CASE UNCHANGED vars
    BY <2>5 DEF vars, LInv, LevelOK, PlanOK, Live
  <2> QED
    BY <2>1, <2>2, <2>3, <2>4, <2>5 DEF Next
<1> QED
  BY <1>1, <1>2 DEF LInv

(* LInv holds initially.                                                   *)
LEMMA InitHasLevels == ASSUME Init PROVE LInv
  BY InitTyped DEF Init, LInv, LevelOK, Live, PlanLabels

(* LInv is an invariant.                                                   *)
LEMMA LevelsInvariant == Spec => []LInv
<1>1. Init => LInv
  BY InitHasLevels
<1>2. LInv /\ [Next]_vars => LInv'
  BY NextKeepsLevel
<1> QED
  BY <1>1, <1>2, PTL DEF Spec

(* Plans and passes belong to the retained level: accept, restart, failed  *)
(* saves, leftover tasks and redelivered reports never bring a pass        *)
(* together with another level, or a checkpoint with another level's plan. *)
THEOREM LevelCorrect == Spec => []PassHasItsLevel
<1>1. LInv => PassHasItsLevel
  BY SlicesAreTyped DEF LInv, LevelOK, PlanOK, PassHasItsLevel, PlanDescribes, Retained, Live, TInv,
     TypeOK, Checkpoints, Sequences
<1> QED
  BY <1>1, LevelsInvariant, PTL

(* No operation is applied to a target in which its postcondition already  *)
(* holds: build_plan proposes only what the observation lacks, the plan    *)
(* keeps that observation, and the transaction commits only if it still is *)
(* the observation.                                                        *)
THEOREM NeverReappliesCorrect == Spec => []NeverReapplies
<1>1. LInv => NeverReapplies
  BY DEF LInv, LevelOK, PlanOK, NeverReapplies, Fresh, PlanLabels
<1> QED
  BY <1>1, LevelsInvariant, PTL

-----------------------------------------------------------------------------
(* The target lock and the exclusive owner.                                *)

Unlocked == {"idle", "load", "redeliver", "retire"}
OwnLabels == PlanLabels \cup {"plan"}

Unbound(g) == \A b \in journal.bindings : b.graph # g

OwnerOK(g) ==
  /\ pc[g] \notin Unlocked => HoldsTarget(g)
  /\ pc[g] \in OwnLabels => \A b \in journal.bindings : b.graph = g
  /\ pc[g] = "retired" => Unbound(g)
  /\ chk[g] # None /\ chk[g].retired => Unbound(g)

OInv == LInv /\ ExclusiveOwner /\ \A g \in Graphs : OwnerOK(g)

(* What a step of one graph's activity can do to the bindings.             *)
LEMMA BindingsGrowOnlyAtBind ==
  ASSUME OInv, NEW g \in Graphs, GraphStep(g)
  PROVE  \/ journal'.bindings \subseteq journal.bindings
         \/ /\ pc[g] = "bind"
            /\ \A b \in journal'.bindings : b.graph = g
<1> USE DEF process, external
<1>0. JournalTyped(journal)
  BY DEF OInv, LInv, TInv, TypeOK
<1>1. ASSUME journal' = Appended(journal, Pending(g)), Appending(g)
      PROVE  \/ journal'.bindings \subseteq journal.bindings
             \/ pc[g] = "bind" /\ \A b \in journal'.bindings : b.graph = g
  <2>1. CASE pc[g] = "bind"
    <3>1. /\ Pending(g).kind = "BindingEstablished"
          /\ Pending(g).binding = ClaimedBinding(work[g].plan)
      BY <2>1 DEF Pending, BindingEstablished
    <3>2. journal'.bindings = Claim(journal.bindings, ClaimedBinding(work[g].plan))
      BY <1>0, <1>1, <3>1, AppendedBindings
    <3>3. ClaimedBinding(work[g].plan).graph = g
      BY <2>1 DEF OInv, LInv, LevelOK, PlanOK, PlanLabels, ClaimedBinding, BindingFor
    <3>4. \A b \in journal.bindings : b.graph = g
      BY <2>1 DEF OInv, OwnerOK, OwnLabels, PlanLabels
    <3> QED
      BY <2>1, <3>2, <3>3, <3>4 DEF Claim
  <2>2. CASE pc[g] = "retire"
    <3>1. Pending(g).kind = "GraphReleased" /\ Pending(g).graph = g
      BY <2>2 DEF Pending, GraphReleased
    <3>2. journal'.bindings = Release(journal.bindings, g)
      BY <1>0, <1>1, <3>1, AppendedBindings
    <3> QED
      BY <3>2 DEF Release
  <2>3. CASE pc[g] \in {"stale", "start", "succeed", "fail", "propose"}
    <3>1. Pending(g).kind \in {"PlanStale", "Started", "Succeeded", "Failed", "PlanCreated"}
      <4>1. CASE pc[g] = "stale"
        BY <4>1 DEF Pending, PlanStale
      <4>2. CASE pc[g] = "start"
        BY <4>2 DEF Pending, OperationStarted
      <4>3. CASE pc[g] = "succeed"
        BY <4>3 DEF Pending, OperationSucceeded
      <4>4. CASE pc[g] = "fail"
        BY <4>4 DEF Pending, OperationFailed
      <4>5. CASE pc[g] = "propose"
        BY <4>5 DEF Pending, PlanCreated
      <4> QED
        BY <2>3, <4>1, <4>2, <4>3, <4>4, <4>5
    <3>2. journal'.bindings = journal.bindings
      BY <1>0, <1>1, <3>1, AppendedBindings
    <3> QED
      BY <3>2
  <2> QED
    BY <1>1, <2>1, <2>2, <2>3 DEF Appending
<1>2. ASSUME journal' = journal PROVE journal'.bindings \subseteq journal.bindings
  BY <1>2
<1>3. CASE TaskStep(g)
  BY <1>2, <1>3 DEF TaskStep, DropTask, BeginRedelivery, BeginPass
<1>4. CASE PassStep(g)
  <2>1. \/ journal' = journal
        \/ journal' = Appended(journal, Pending(g)) /\ Appending(g)
    BY <1>4 DEF PassStep, RefuseDesired, FindStale, ResumeBinding, ResumePlan, PlanFresh,
         AppendStale, AppendStarted, AppendBinding, AppendSucceeded, AppendFailed, AppendCreated,
         AppendPending, Appending, ObserveForApply, ApplyStale, ApplyCommits, ApplyRejected,
         PlanRejected, PlanEmpty, Propose, SaveReport
  <2> QED
    BY <1>1, <1>2, <2>1
<1>5. CASE ReportAcknowledged(g) \/ RetireBegin(g) \/ RetireSave(g)
  BY <1>2, <1>5 DEF ReportAcknowledged, RetireBegin, RetireSave
<1>6. CASE RetireRelease(g)
  BY <1>1, <1>6 DEF RetireRelease, AppendPending, Appending
<1>7. CASE FaultStep(g)
  <2>1. \/ journal' = journal
        \/ journal' = Appended(journal, Pending(g)) /\ Appending(g)
    BY <1>7 DEF FaultStep, AppendUnacknowledged, LoadFails, ObserveFails, ObserveForPlanFails,
         CommitUnanswered, CommitThenRejected, ApplyUnavailable, ReportLost, SaveFails
  <2> QED
    BY <1>1, <1>2, <2>1
<1>8. CASE ResumeGraph(g)
  BY <1>2, <1>8 DEF ResumeGraph
<1> QED
  BY <1>3, <1>4, <1>5, <1>6, <1>7, <1>8 DEF GraphStep, RetireStep

(* How a step of an activity moves through the lock and towards the        *)
(* target: past the lock only as its holder, to its own bindings only      *)
(* after the ownership check.                                              *)
LockStep(g) ==
  /\ pc'[g] \notin Unlocked => HoldsTarget(g) /\ queue' = queue
  /\ queue' = queue \/ queue' = Append(queue, g) \/ (HoldsTarget(g) /\ queue' = Tail(queue))
  /\ pc'[g] \in OwnLabels => \A b \in journal.bindings : b.graph = g
  /\ pc'[g] = "retired" => Unbound(g)'
  /\ chk'[g] # None /\ chk'[g].retired =>
       pc[g] = "retired" \/ (chk[g] # None /\ chk[g].retired)

(* A pass changes bindings only as the holder of the target lock.          *)
LEMMA PassStepLocks == ASSUME OInv, NEW g \in Graphs, PassStep(g) PROVE LockStep(g)
<1> USE DEF process, external
<1>0. /\ OwnerOK(g) /\ LevelOK(g) /\ pc \in [Graphs -> Labels]
      /\ chk \in [Graphs -> Checkpoints \cup {None}]
  BY DEF OInv, LInv, TInv, TypeOK
<1>1. ASSUME NEW label \in OwnLabels \cup {"publish", "deliver"}, Goto(g, label),
             pc[g] \in OwnLabels \cup {"publish"} \/ Loaded(g),
             label \in OwnLabels =>
               \/ pc[g] \in OwnLabels
               \/ Loaded(g) /\ ~DesiredIsRefused(desired[g], journal.bindings),
             queue' = queue, chk'[g].retired = chk[g].retired
      PROVE  LockStep(g)
  <2>1. pc'[g] = label /\ HoldsTarget(g) /\ label \notin {"retired", "idle"} /\ chk[g] # None
    BY <1>0, <1>1 DEF Goto, Loaded, OwnerOK, LevelOK, Unlocked, OwnLabels, PlanLabels
  <2>2. ASSUME label \in OwnLabels PROVE \A b \in journal.bindings : b.graph = g
    <3>1. CASE pc[g] \in OwnLabels
      BY <1>0, <3>1 DEF OwnerOK
    <3>2. CASE pc[g] \notin OwnLabels
      <4>1. ~TargetOwned(desired[g], journal.bindings)
        BY <1>1, <2>2, <3>2 DEF DesiredIsRefused
      <4>2. desired[g].graph = g
        BY <1>0, <1>1, <2>2, <3>2 DEF LevelOK, Loaded
      <4> QED
        BY <4>1, <4>2 DEF TargetOwned
    <3> QED
      BY <3>1, <3>2
  <2> QED
    BY <1>1, <2>1, <2>2 DEF LockStep
<1>2. CASE RefuseDesired(g)
  BY <1>1, <1>2 DEF RefuseDesired, Publish, OwnLabels, PlanLabels
<1>3. CASE FindStale(g) \/ ResumeBinding(g) \/ ResumePlan(g) \/ PlanFresh(g)
  <2>1. PICK label \in {"stale", "bind", "start", "observe", "plan"} : Goto(g, label)
    BY <1>3 DEF FindStale, ResumeBinding, ResumePlan, PlanFresh
  <2>2. Loaded(g) /\ ~DesiredIsRefused(desired[g], journal.bindings) /\ queue' = queue /\ chk' = chk
    BY <1>3 DEF FindStale, ResumeBinding, ResumePlan, PlanFresh, LoadPlan
  <2> QED
    BY <1>1, <2>1, <2>2 DEF OwnLabels, PlanLabels
<1>4. CASE \/ AppendStale(g) \/ AppendSucceeded(g) \/ AppendFailed(g) \/ AppendCreated(g)
           \/ PlanRejected(g) \/ PlanEmpty(g)
  BY <1>1, <1>4 DEF AppendStale, AppendSucceeded, AppendFailed, AppendCreated, PlanRejected,
     PlanEmpty, AppendPending, Publish, OwnLabels, PlanLabels
<1>5. CASE \/ AppendStarted(g) \/ AppendBinding(g) \/ ObserveForApply(g) \/ ApplyStale(g)
           \/ ApplyCommits(g) \/ ApplyRejected(g) \/ Propose(g)
  <2>1. PICK label \in {"bind", "apply", "succeed", "start", "stale", "fail", "propose"} : Goto(g, label)
    BY <1>5 DEF AppendStarted, AppendBinding, ObserveForApply, ApplyStale, ApplyCommits,
       ApplyRejected, Propose
  <2>2. pc[g] \in {"start", "bind", "observe", "apply", "plan"} /\ queue' = queue /\ chk' = chk
    BY <1>5 DEF AppendStarted, AppendBinding, ObserveForApply, ApplyStale, ApplyCommits, Commit,
       ApplyRejected, Propose, AppendPending
  <2> QED
    BY <1>1, <2>1, <2>2 DEF OwnLabels, PlanLabels
<1>6. CASE SaveReport(g)
  <2>1. pc[g] = "publish" /\ chk[g] \in Checkpoints
    BY <1>0, <1>6 DEF SaveReport, LevelOK
  <2>2. chk'[g] = [chk[g] EXCEPT !.plan = work[g].plan, !.report = work[g].report]
    BY <1>0, <1>6, <2>1 DEF SaveReport, Saved, Checkpoints
  <2>3. chk'[g].retired = chk[g].retired
    BY <2>1, <2>2 DEF Checkpoints
  <2> QED
    BY <1>1, <1>6, <2>1, <2>3 DEF SaveReport, OwnLabels, PlanLabels
<1> QED
  BY <1>2, <1>3, <1>4, <1>5, <1>6 DEF PassStep

(* So does every step of a graph.                                          *)
LEMMA GraphStepLocks == ASSUME OInv, NEW g \in Graphs, GraphStep(g) PROVE LockStep(g)
<1> USE DEF process, external
<1>0. /\ OwnerOK(g) /\ LevelOK(g) /\ pc \in [Graphs -> Labels]
      /\ chk \in [Graphs -> Checkpoints \cup {None}] /\ JournalTyped(journal)
  BY DEF OInv, LInv, TInv, TypeOK
<1>1. ASSUME pc[g] # "idle", Finish(g), chk'[g] # None /\ chk'[g].retired => chk[g].retired \/ pc[g] = "retired"
      PROVE  LockStep(g)
  BY <1>0, <1>1 DEF Finish, LockStep, LevelOK, Unlocked, OwnLabels, PlanLabels
<1>2. ASSUME pc[g] \in {"plan", "apply"}, NEW label \in {"publish", "fail"}, Goto(g, label),
             queue' = queue, chk' = chk
      PROVE  LockStep(g)
  BY <1>0, <1>2 DEF Goto, LockStep, OwnerOK, LevelOK, Unlocked, OwnLabels, PlanLabels
<1>3. CASE TaskStep(g)
  BY <1>0, <1>3 DEF TaskStep, TakeTask, DropTask, BeginRedelivery, BeginPass, Goto, LockStep,
     Unlocked, OwnLabels, PlanLabels
<1>4. CASE ReportAcknowledged(g)
  <2>1. pc[g] # "idle" /\ chk[g] \in Checkpoints /\ Finish(g)
    BY <1>0, <1>4 DEF ReportAcknowledged, Delivering, LevelOK
  <2>2. chk'[g].retired = chk[g].retired
    BY <1>0, <1>4, <2>1 DEF ReportAcknowledged, Checkpoints
  <2> QED
    BY <1>1, <2>1, <2>2
<1>5. CASE RetireBegin(g)
  BY <1>0, <1>5 DEF RetireBegin, Goto, LockStep, Unlocked, OwnLabels, PlanLabels
<1>6. CASE RetireRelease(g)
  <2>1. pc[g] = "retire" /\ journal' = Appended(journal, Pending(g)) /\ HoldsTarget(g)
        /\ pc'[g] = "retired" /\ queue' = queue /\ chk' = chk
    BY <1>0, <1>6 DEF RetireRelease, AppendPending, Goto
  <2>2. Pending(g).kind = "GraphReleased" /\ Pending(g).graph = g
    BY <2>1 DEF Pending, GraphReleased
  <2>3. journal'.bindings = Release(journal.bindings, g)
    BY <1>0, <2>1, <2>2, AppendedBindings
  <2>4. Unbound(g)'
    BY <2>3 DEF Unbound, Release
  <2> QED
    BY <2>1, <2>4 DEF LockStep, OwnLabels, PlanLabels
<1>7. CASE RetireSave(g)
  BY <1>1, <1>7 DEF RetireSave
<1>8. CASE FaultStep(g)
  <2>1. CASE AppendUnacknowledged(g) \/ LoadFails(g) \/ ObserveFails(g)
    BY <1>1, <2>1 DEF AppendUnacknowledged, Appending, LoadFails, ObserveFails
  <2>2. CASE ObserveForPlanFails(g) \/ CommitUnanswered(g) \/ CommitThenRejected(g) \/ ApplyUnavailable(g)
    BY <1>2, <2>2 DEF ObserveForPlanFails, CommitUnanswered, CommitThenRejected, ApplyUnavailable,
       Commit, Publish
  <2>3. CASE ReportLost(g)
    BY <1>1, <2>3 DEF ReportLost, Delivering
  <2>4. CASE SaveFails(g)
    <3>1. pc[g] \in {"propose", "publish", "retired", "deliver", "redeliver"} /\ chk[g] \in Checkpoints /\ Finish(g)
      BY <1>0, <2>4 DEF SaveFails, Delivering, LevelOK
    <3>2. CASE pc[g] = "retired"
      BY <1>1, <3>1, <3>2
    <3>5. CASE pc[g] = "propose"
      BY <1>1, <2>4, <3>1, <3>5 DEF SaveFails, Delivering
    <3>3. CASE pc[g] = "publish"
      <4>1. chk' = chk \/ chk' = Saved(g)
        BY <2>4, <3>3 DEF SaveFails, Delivering
      <4>2. chk'[g].retired = chk[g].retired
        BY <1>0, <3>1, <4>1 DEF Saved, Checkpoints
      <4> QED
        BY <1>1, <3>1, <4>2
    <3>4. CASE pc[g] \in {"deliver", "redeliver"}
      <4>1. chk' = chk \/ chk' = [chk EXCEPT ![g].report = None]
        BY <2>4, <3>4 DEF SaveFails, Delivering
      <4>2. chk'[g].retired = chk[g].retired
        BY <1>0, <3>1, <4>1 DEF Checkpoints
      <4> QED
        BY <1>1, <3>1, <4>2
    <3> QED
      BY <3>1, <3>2, <3>3, <3>4, <3>5
  <2> QED
    BY <1>8, <2>1, <2>2, <2>3, <2>4 DEF FaultStep
<1>9. CASE ResumeGraph(g)
  <2>1. pc[g] = "idle" /\ pc' = pc /\ queue' = queue /\ chk[g] \in Checkpoints
    BY <1>9 DEF ResumeGraph, OInv, LInv, TInv, ProcessOK, Quiet
  <2>2. chk'[g].retired = chk[g].retired
    BY <1>0, <1>9, <2>1 DEF ResumeGraph, Checkpoints
  <2> QED
    BY <2>1, <2>2, NoneIsNoCheckpoint DEF LockStep, Unlocked, OwnLabels, PlanLabels
<1> QED
  BY <1>3, <1>4, <1>5, <1>6, <1>7, <1>8, <1>9, PassStepLocks DEF GraphStep, RetireStep

(* A step of a graph preserves OInv.                                       *)
LEMMA GraphStepKeepsOwner ==
  ASSUME OInv, LInv', NEW g \in Graphs, GraphStep(g)
  PROVE  OInv'
<1>1. LockStep(g)
  BY GraphStepLocks
<1>2. \A h \in Graphs \ {g} :
        /\ chk'[h] = chk[h] /\ desired'[h] = desired[h]
        /\ pc'[h] = pc[h] /\ work'[h] = work[h]
  BY Footprint DEF OInv, LInv
<1>3. \/ journal'.bindings \subseteq journal.bindings
      \/ pc[g] = "bind" /\ \A b \in journal'.bindings : b.graph = g
  BY BindingsGrowOnlyAtBind
<1>4. OwnerOK(g) /\ LevelOK(g) /\ ExclusiveOwner
  BY DEF OInv, LInv
<1>5. ExclusiveOwner'
  BY <1>3, <1>4 DEF ExclusiveOwner
<1>6. OwnerOK(g)'
  <2>1. pc[g] = "bind" => chk[g] # None /\ ~chk[g].retired
    BY <1>4 DEF LevelOK
  <2>2. pc'[g] \notin Unlocked => HoldsTarget(g)'
    BY <1>1 DEF LockStep, HoldsTarget
  <2>3. pc'[g] \in OwnLabels => \A b \in journal'.bindings : b.graph = g
    BY <1>1, <1>3 DEF LockStep
  <2>4. chk'[g] # None /\ chk'[g].retired => Unbound(g)'
    <3> SUFFICES ASSUME chk'[g] # None, chk'[g].retired PROVE Unbound(g)'
      OBVIOUS
    <3>1. pc[g] = "retired" \/ (chk[g] # None /\ chk[g].retired)
      BY <1>1 DEF LockStep
    <3>2. Unbound(g) /\ pc[g] # "bind"
      BY <1>4, <2>1, <3>1 DEF OwnerOK
    <3> QED
      BY <1>3, <3>2 DEF Unbound
  <2> QED
    BY <1>1, <2>2, <2>3, <2>4 DEF OwnerOK, LockStep
<1>7. ASSUME NEW h \in Graphs \ {g} PROVE OwnerOK(h)'
  <2>0. OwnerOK(h)
    BY DEF OInv
  <2>1. pc[h] \notin Unlocked => HoldsTarget(h)'
    <3> SUFFICES ASSUME pc[h] \notin Unlocked PROVE HoldsTarget(h)'
      OBVIOUS
    <3>1. HoldsTarget(h) /\ ~HoldsTarget(g)
      BY <2>0 DEF OwnerOK, HoldsTarget
    <3>2. queue' = queue \/ queue' = Append(queue, g)
      BY <1>1, <3>1 DEF LockStep
    <3>3. queue \in Seq(Graphs)
      BY DEF OInv, LInv, TInv, TypeOK
    <3> QED
      BY <3>1, <3>2, <3>3 DEF HoldsTarget
  <2>2. pc[h] \notin Unlocked => journal'.bindings \subseteq journal.bindings
    <3> SUFFICES ASSUME pc[h] \notin Unlocked, pc[g] = "bind" PROVE FALSE
      BY <1>3
    <3>1. HoldsTarget(h) /\ HoldsTarget(g)
      BY <1>4, <2>0 DEF OwnerOK, Unlocked
    <3> QED
      BY <3>1 DEF HoldsTarget
  <2>3. Unbound(h) => Unbound(h)'
    BY <1>3 DEF Unbound
  <2> QED
    BY <1>2, <2>0, <2>1, <2>2, <2>3 DEF OwnerOK, Unlocked, OwnLabels, PlanLabels
<1> QED
  BY <1>5, <1>6, <1>7 DEF OInv

(* OInv is inductive.                                                      *)
LEMMA NextKeepsOwner == ASSUME OInv, [Next]_vars PROVE OInv'
<1>1. LInv'
  BY NextKeepsLevel DEF OInv
<1>2. CASE \E g \in Graphs : GraphStep(g)
  BY <1>1, <1>2, GraphStepKeepsOwner
<1>3. CASE CoreSends
  <2>1. PICK d \in Slices : AcceptNew(d) \/ AcceptAgain(d)
    BY <1>3 DEF CoreSends
  <2>2. UNCHANGED <<pc, queue, journal>>
    BY <2>1 DEF AcceptNew, AcceptAgain, external
  <2>3. ASSUME NEW h \in Graphs, chk'[h] # None, chk'[h].retired
        PROVE  chk[h] # None /\ chk[h].retired
    <3>1. chk'[h] = chk[h] \/ ~chk'[h].retired
      BY <2>1, SlicesAreTyped
         DEF AcceptNew, AcceptAgain, AcceptedCheckpoint, OInv, LInv, TInv, TypeOK
    <3> QED
      BY <2>3, <3>1
  <2> QED
    BY <1>1, <2>2, <2>3 DEF OInv, OwnerOK, ExclusiveOwner, Unbound, HoldsTarget
<1>4. ASSUME Crash PROVE OInv'
  BY <1>1, <1>4 DEF Crash, Wiped, external, OInv, OwnerOK, ExclusiveOwner, Unbound, Unlocked,
     OwnLabels, PlanLabels
<1>5. CASE Boot \/ Serve \/ Drift
  BY <1>1, <1>5 DEF Boot, Serve, Drift, external, OInv, OwnerOK, ExclusiveOwner, Unbound,
     HoldsTarget
<1>6. ASSUME NEW g \in Graphs, ResumeSaveFails(g) PROVE OInv'
  <2>1. chk[g] \in Checkpoints /\ chk \in [Graphs -> Checkpoints \cup {None}]
    BY <1>6 DEF ResumeSaveFails, OInv, LInv, TInv, TypeOK, ProcessOK
  <2>2. ASSUME NEW h \in Graphs, chk'[h] # None, chk'[h].retired
        PROVE  chk[h] # None /\ chk[h].retired
    <3>1. chk' = chk \/ chk' = [chk EXCEPT ![g].report = None]
      BY <1>6 DEF ResumeSaveFails
    <3>2. CASE chk' = chk
      BY <2>2, <3>2
    <3>3. CASE chk' = [chk EXCEPT ![g].report = None]
      <4>1. chk[g] # None /\ [chk[g] EXCEPT !.report = None].retired = chk[g].retired
        BY <2>1, NoneIsNoCheckpoint DEF Checkpoints
      <4>2. chk'[h] = IF h = g THEN [chk[g] EXCEPT !.report = None] ELSE chk[h]
        BY <2>1, <3>3
      <4> QED
        BY <2>2, <4>1, <4>2
    <3> QED
      BY <3>1, <3>2, <3>3
  <2> QED
    BY <1>1, <1>6, <2>2 DEF ResumeSaveFails, Wiped, OInv, OwnerOK, ExclusiveOwner, Unbound,
       Unlocked, OwnLabels, PlanLabels
<1>7. CASE UNCHANGED vars
  BY <1>1, <1>7 DEF vars, OInv, OwnerOK, ExclusiveOwner, Unbound, HoldsTarget
<1> QED
  BY <1>2, <1>3, <1>4, <1>5, <1>6, <1>7 DEF Next, ProcessCrashes, ResumeFails

(* OInv is an invariant.                                                   *)
LEMMA OwnerInvariant == Spec => []OInv
<1>1. Init => OInv
  BY InitHasLevels DEF Init, OInv, OwnerOK, ExclusiveOwner, EmptyJournal, Unbound, Unlocked,
     OwnLabels, PlanLabels
<1>2. OInv /\ [Next]_vars => OInv'
  BY NextKeepsOwner
<1> QED
  BY <1>1, <1>2, PTL DEF Spec

(* One exclusive owner: although each graph may plan a binding while no    *)
(* graph holds one, the bindings of the journal never belong to two, for   *)
(* any number of graphs, whatever crashes or fails: the check and the      *)
(* record it permits happen under one hold of the target lock.             *)
THEOREM OwnerCorrect == Spec => []ExclusiveOwner
<1>1. OInv => ExclusiveOwner
  BY DEF OInv
<1> QED
  BY <1>1, OwnerInvariant, PTL

(* A retired graph owns nothing: the release precedes the checkpoint that  *)
(* says so, and no pass of the graph binds in between or afterwards.       *)
THEOREM RetirementCorrect == Spec => []RetiredOwnsNothing
<1>1. OInv => RetiredOwnsNothing
  BY DEF OInv, OwnerOK, Unbound, RetiredOwnsNothing
<1> QED
  BY <1>1, OwnerInvariant, PTL
=============================================================================
