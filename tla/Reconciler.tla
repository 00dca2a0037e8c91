----------------------------- MODULE Reconciler -----------------------------
(***************************************************************************)
(* The durable level-triggered controller (reconciler.rs, with the serving *)
(* order of main.rs): one process, one activity per graph at a time.       *)
(*                                                                         *)
(* An activity is a pass (reconcile_once) or a retirement.  It holds its   *)
(* graph's lock from begin to end, takes its turn at the target lock, and  *)
(* is cut into one action per await: a journal read or append, a target    *)
(* observation or transaction, a report to core, and the synchronous save  *)
(* of a checkpoint.  Between any two of them the process may crash.        *)
(*                                                                         *)
(* Faults selects which failures of the environment a configuration lets   *)
(* happen: "crash", "journal" (S2 read or append fails, an append possibly *)
(* after it landed), "target" (PostgreSQL unreachable, possibly after the  *)
(* commit), "provider" (an observation gets a database error), "reject"    *)
(* (the statements or the commit of an operation are refused), "report"    *)
(* (core does not acknowledge), "core" (core cannot return a slice),       *)
(* "disk" (a checkpoint save fails, possibly after the rename), "drift"    *)
(* (somebody else changes the target), "retire" (core retires graphs).     *)
(***************************************************************************)
EXTENDS Target, OperationJournal

CONSTANTS
  Faults,        \* the failures this configuration allows
  InitialTargets, \* the databases a connector may be pointed at
  MaxTasks       \* BOUND: spawned tasks of one graph and sequence that are counted

ASSUME TargetsAreTyped == InitialTargets \subseteq TargetStates

ASSUME MaxTasksIsPositive == MaxTasks \in Nat \ {0}

VARIABLES
  proc,      \* "down", "booting" (resume) or "serving"
  boot,      \* graphs resume has not recovered yet
  chk,       \* state_dir/graphs/<g>.json: the durable checkpoint, or None
  desired,   \* the in-memory desired slice of a graph, or None
  tasks,     \* spawned passes, by graph and expected sequence
  pc,        \* where the activity that holds the graph's lock is
  work,      \* its in-memory plan, the report it is about to publish, its requeue
  queue,     \* the FIFO target lock: its holder, then the waiting graphs
  journal,   \* the S2 stream, folded
  target,    \* the database
  core       \* the last report core received for a graph

vars == <<proc, boot, chk, desired, tasks, pc, work, queue, journal, target, core>>
process == <<proc, boot, desired, tasks>>    \* what Crash wipes, with pc, work, queue
external == <<journal, target, core>>

Sequences == {d.sequence : d \in Slices}
ResourcePlans == [id : PlanIds, slice : Slices, op : Operations, observed : ObservedTargets]
(* A reconciling report that promises a retry is told from the others.     *)
Reports == [slice : Slices, disposition : {"ready", "failed", "reconciling", "retrying"}]
Checkpoints == [slice : Slices, plan : ResourcePlans \cup {None},
                report : Reports \cup {None}, retired : BOOLEAN]

(* A missing checkpoint or report is told from every one.                   *)
ASSUME NoneIsNoCheckpoint == None \notin Checkpoints

ASSUME NoneIsNoReport == None \notin Reports

Activities == [plan : ResourcePlans \cup {None}, report : Reports \cup {None}, requeue : BOOLEAN]

Report(d, disposition) == [slice |-> d, disposition |-> disposition]

Idle == [plan |-> None, report |-> None, requeue |-> FALSE]

-----------------------------------------------------------------------------
Init ==
  /\ proc = "serving"
  /\ boot = {}
  /\ chk = [g \in Graphs |-> None]
  /\ desired = [g \in Graphs |-> None]
  /\ tasks = [g \in Graphs |-> [q \in Sequences |-> 0]]
  /\ pc = [g \in Graphs |-> "idle"]
  /\ work = [g \in Graphs |-> Idle]
  /\ queue = << >>
  /\ journal = EmptyJournal
  /\ target \in InitialTargets
  /\ core = [g \in Graphs |-> None]

-----------------------------------------------------------------------------
(* Helpers *)

Live(g) == chk[g] # None /\ ~chk[g].retired

HoldsTarget(g) == queue # << >> /\ Head(queue) = g

(* tokio::spawn of one more pass; the count saturates at MaxTasks.         *)
Counted(n) == IF n > MaxTasks THEN MaxTasks ELSE n
Spawned(g, q, n) == [tasks EXCEPT ![g][q] = Counted(@ + n)]
Schedule(g, q, n) == tasks' = Spawned(g, q, n)

(* Faulty variant: a lost wake-up, the waiting graphs are forgotten.       *)
FinishLosesWaiters(g) ==
  /\ pc' = [pc EXCEPT ![g] = "idle"]
  /\ work' = [work EXCEPT ![g] = Idle]
  /\ queue' = IF HoldsTarget(g) THEN << >> ELSE queue

(* The activity ends and drops its locks.                                  *)
Finish(g) ==
  /\ pc' = [pc EXCEPT ![g] = "idle"]
  /\ work' = [work EXCEPT ![g] = Idle]
  /\ queue' = IF HoldsTarget(g) THEN Tail(queue) ELSE queue

Goto(g, label) == pc' = [pc EXCEPT ![g] = label]

(* publish(checkpoint, report): the checkpoint in memory has current_plan  *)
(* = plan; requeue says whether the caller schedules a pass afterwards.    *)
Publish(g, plan, disposition, requeue) ==
  /\ Goto(g, "publish")
  /\ work' = [work EXCEPT ![g] = [plan |-> plan,
                                  report |-> Report(chk[g].slice, disposition),
                                  requeue |-> requeue]]

(* A plan id nobody refers to: a plan's digest covers the journal tail, so *)
(* every appended PlanCreated has a new one.  (Should the finite pool run   *)
(* out, the CHOOSE is an error that TLC reports.)                          *)
PlansInUse == {chk[g].plan.id : g \in {x \in Graphs : chk[x] # None /\ chk[x].plan # None}}
              \cup {work[g].plan.id : g \in {x \in Graphs : work[x].plan # None}}
              \cup {journal.operations[op].plan : op \in DOMAIN journal.operations}
              \cup {journal.fence}
FreshPlanId == CHOOSE id \in PlanIds : id \notin PlansInUse

-----------------------------------------------------------------------------
(* accept: the ReconcileSlice RPC.  Rejected requests change nothing.      *)

(* Faulty variant: the plan of the previous level survives.                *)
AcceptedWithOldPlan(d, previous) ==
  [slice |-> d, plan |-> IF previous = None THEN None ELSE previous.plan,
   report |-> None, retired |-> FALSE]

(* The checkpoint of a newly accepted level: the plan and the report of    *)
(* the previous level are forgotten.                                       *)
AcceptedCheckpoint(d, previous) ==
  [slice |-> d, plan |-> None, report |-> None, retired |-> FALSE]

AcceptNew(d) ==
  LET g == d.graph IN
  /\ proc = "serving"
  /\ pc[g] = "idle"
  /\ chk[g] # None => /\ ~chk[g].retired
                      /\ d.sequence > chk[g].slice.sequence
                      /\ d.generation >= chk[g].slice.generation
  /\ chk' = [chk EXCEPT ![g] = AcceptedCheckpoint(d, chk[g])]
  /\ \/ /\ desired' = [desired EXCEPT ![g] = d]
        /\ Schedule(g, d.sequence, 1)
     \/ /\ "disk" \in Faults          \* renamed, but the directory sync failed
        /\ UNCHANGED <<desired, tasks>>
  /\ UNCHANGED <<proc, boot, pc, work, queue, external>>

AcceptAgain(d) ==
  LET g == d.graph IN
  /\ proc = "serving"
  /\ pc[g] = "idle"
  /\ Live(g)
  /\ d.sequence = chk[g].slice.sequence
  /\ DesiredDigest(d) = DesiredDigest(chk[g].slice)
  /\ desired' = [desired EXCEPT ![g] = d]
  /\ Schedule(g, d.sequence, 1)
  /\ UNCHANGED <<proc, boot, chk, pc, work, queue, external>>

-----------------------------------------------------------------------------
(* reconcile_once, up to the target lock.  "Accepted desired slice is not  *)
(* loaded" and a plan that does not describe the level would end the pass  *)
(* with an error; they have no action, as PassHasItsLevel rules them out.  *)

(* A spawned task gets the graph's lock and loads the checkpoint.          *)
TakeTask(g, q) ==
  /\ proc # "down"
  /\ pc[g] = "idle"
  /\ tasks[g][q] > 0
  /\ tasks' = [tasks EXCEPT ![g][q] = @ - 1]

DropTask(g, q) ==
  /\ TakeTask(g, q)
  /\ chk[g].retired \/ chk[g].slice.sequence # q
  /\ UNCHANGED <<proc, boot, chk, desired, pc, work, queue, external>>

BeginRedelivery(g, q) ==
  /\ TakeTask(g, q)
  /\ ~chk[g].retired /\ chk[g].slice.sequence = q
  /\ desired[g] # None
  /\ chk[g].report # None
  /\ Goto(g, "redeliver")
  /\ UNCHANGED <<proc, boot, chk, desired, work, queue, external>>

BeginPass(g, q) ==
  /\ TakeTask(g, q)
  /\ ~chk[g].retired /\ chk[g].slice.sequence = q
  /\ desired[g] # None
  /\ chk[g].report = None
  /\ Goto(g, "load")
  /\ queue' = Append(queue, g)
  /\ UNCHANGED <<proc, boot, chk, desired, work, external>>

-----------------------------------------------------------------------------
(* The target lock is held: the journal is loaded and the pass decides.    *)

Loaded(g) == pc[g] = "load" /\ HoldsTarget(g)

RefuseDesired(g) ==
  /\ Loaded(g)
  /\ DesiredIsRefused(desired[g], journal.bindings)
  /\ Publish(g, None, "failed", FALSE)
  /\ UNCHANGED <<process, chk, queue, external>>

(* validate_plan_identity.                                                 *)
PlanDescribes(plan, d) == plan.slice = d

(* Faulty variant: the plan is bound to the tail BEFORE its own record.    *)
FenceOffByOne(plan) == StartedBy(journal, plan.op, plan.id)

FenceHolds(plan) ==
  journal.fence = plan.id \/ StartedBy(journal, plan.op, plan.id)

LoadPlan(g) ==
  /\ Loaded(g)
  /\ ~DesiredIsRefused(desired[g], journal.bindings)
  /\ chk[g].plan # None
  /\ PlanDescribes(chk[g].plan, desired[g])
  /\ work' = [work EXCEPT ![g].plan = chk[g].plan]

FindStale(g) ==
  /\ LoadPlan(g)
  /\ ~FenceHolds(chk[g].plan)
  /\ Goto(g, "stale")
  /\ UNCHANGED <<process, chk, queue, external>>

ResumeBinding(g) ==
  /\ LoadPlan(g)
  /\ FenceHolds(chk[g].plan)
  /\ chk[g].plan.op.kind = "bind"
  /\ Goto(g, IF Known(journal, chk[g].plan.op) THEN "bind" ELSE "start")
  /\ UNCHANGED <<process, chk, queue, external>>

ResumePlan(g) ==
  /\ LoadPlan(g)
  /\ FenceHolds(chk[g].plan)
  /\ chk[g].plan.op.kind # "bind"
  /\ Goto(g, "observe")
  /\ UNCHANGED <<process, chk, queue, external>>

PlanFresh(g) ==
  /\ Loaded(g)
  /\ ~DesiredIsRefused(desired[g], journal.bindings)
  /\ chk[g].plan = None
  /\ Goto(g, "plan")
  /\ UNCHANGED <<process, chk, work, queue, external>>

-----------------------------------------------------------------------------
(* Appends.  Pending is the event an activity waits for S2 to acknowledge. *)

(* Faulty variant: the first component of the slice instead of the         *)
(* operation's own.                                                        *)
ClaimedFirstBinding(plan) == BindingFor(plan.slice, ComponentsOf(plan.slice)[1])

ClaimedBinding(plan) == BindingFor(plan.slice, plan.op.context)

Pending(g) ==
  LET plan == work[g].plan IN
  CASE pc[g] = "stale"   -> PlanStale(plan.id)
    [] pc[g] = "start"   -> OperationStarted(plan.id, plan.op)
    [] pc[g] = "bind"    -> BindingEstablished(ClaimedBinding(plan))
    [] pc[g] = "succeed" -> OperationSucceeded(plan.id, plan.op)
    [] pc[g] = "fail"    -> OperationFailed(plan.id, plan.op)
    [] pc[g] = "propose" -> PlanCreated(plan.id)
    [] pc[g] = "retire"  -> GraphReleased(g)

Appending(g) ==
  \/ pc[g] \in {"stale", "start", "bind", "succeed", "fail", "propose"}
  \/ pc[g] = "retire" /\ HoldsTarget(g)

AppendPending(g, label) ==
  /\ pc[g] = label
  /\ journal' = Appended(journal, Pending(g))

AppendStale(g) ==
  /\ AppendPending(g, "stale")
  /\ Publish(g, None, "reconciling", TRUE)
  /\ UNCHANGED <<process, chk, queue, target, core>>

AppendStarted(g) ==
  /\ AppendPending(g, "start")
  /\ Goto(g, IF work[g].plan.op.kind = "bind" THEN "bind" ELSE "apply")
  /\ UNCHANGED <<process, chk, work, queue, target, core>>

AppendBinding(g) ==
  /\ AppendPending(g, "bind")
  /\ Goto(g, "succeed")
  /\ UNCHANGED <<process, chk, work, queue, target, core>>

(* Faulty variant: one completed operation reported as the whole level.    *)
AppendSucceededReady(g) ==
  /\ AppendPending(g, "succeed")
  /\ Publish(g, None, "ready", TRUE)
  /\ UNCHANGED <<process, chk, queue, target, core>>

AppendSucceeded(g) ==
  /\ AppendPending(g, "succeed")
  /\ Publish(g, None, "reconciling", TRUE)
  /\ UNCHANGED <<process, chk, queue, target, core>>

AppendFailed(g) ==
  /\ AppendPending(g, "fail")
  /\ Publish(g, None, "failed", FALSE)
  /\ UNCHANGED <<process, chk, queue, target, core>>

AppendCreated(g) ==
  /\ AppendPending(g, "propose")
  /\ Publish(g, work[g].plan, "reconciling", TRUE)
  /\ UNCHANGED <<process, chk, queue, target, core>>

(* An append that is not acknowledged may have landed; either way the      *)
(* error ends the activity, and nothing schedules another pass.            *)
AppendUnacknowledged(g) ==
  /\ "journal" \in Faults
  /\ Appending(g)
  /\ journal' \in {journal, Appended(journal, Pending(g))}
  /\ Finish(g)
  /\ UNCHANGED <<process, chk, target, core>>

(* The journal cannot be read: at the start of a pass or retirement, and   *)
(* again before a PlanStale or OperationFailed receipt (see the previous   *)
(* action with nothing landed).                                            *)
LoadFails(g) ==
  /\ "journal" \in Faults
  /\ pc[g] \in {"load", "retire"}
  /\ HoldsTarget(g)
  /\ Finish(g)
  /\ UNCHANGED <<process, chk, external>>

-----------------------------------------------------------------------------
(* Applying the one operation of the loaded plan *)

(* Faulty variant: a started receipt taken for completion.                 *)
RecoveredUnobserved(plan, observed) == StartedBy(journal, plan.op, plan.id)

(* An attempt of this very plan was interrupted, and it had taken effect.  *)
Recovered(plan, observed) ==
  StartedBy(journal, plan.op, plan.id) /\ OperationSatisfied(plan.op, observed)

ObserveForApply(g) ==
  LET plan == work[g].plan IN
  /\ pc[g] = "observe"
  /\ Goto(g, IF Recovered(plan, Observe(target, desired[g]))
             THEN "succeed"
             ELSE IF Known(journal, plan.op) THEN "apply" ELSE "start")
  /\ UNCHANGED <<process, chk, work, queue, external>>

(* The observation error is returned and ends the task.                    *)
ObserveFails(g) ==
  /\ {"target", "provider"} \cap Faults # {}
  /\ pc[g] = "observe"
  /\ Finish(g)
  /\ UNCHANGED <<process, chk, external>>

(* Faulty variant: no re-observation inside the transaction.               *)
FreshUnchecked(g) == TRUE

(* The transaction re-observes under the advisory lock before it mutates.  *)
Fresh(g) == Observe(target, desired[g]) = work[g].plan.observed

ApplyStale(g) ==
  /\ pc[g] = "apply"
  /\ ~Fresh(g)
  /\ Goto(g, "stale")
  /\ UNCHANGED <<process, chk, work, queue, external>>

Commit(g) ==
  /\ pc[g] = "apply"
  /\ Fresh(g)
  /\ CanExecute(target, work[g].plan.op)
  /\ target' = Execute(target, work[g].plan.op)

ApplyCommits(g) ==
  /\ Commit(g)
  /\ Goto(g, "succeed")
  /\ UNCHANGED <<process, chk, work, queue, journal, core>>

(* The commit took effect but its answer, or the observation after it, is  *)
(* lost: the pass reports the target unavailable and keeps its plan.       *)
CommitUnanswered(g) ==
  /\ "target" \in Faults
  /\ Commit(g)
  /\ Publish(g, work[g].plan, "retrying", TRUE)
  /\ UNCHANGED <<process, chk, queue, journal, core>>

(* The commit took effect and the observation after it got a database      *)
(* error: the pass takes the operation to have been rejected.              *)
CommitThenRejected(g) ==
  /\ "provider" \in Faults
  /\ Commit(g)
  /\ Goto(g, "fail")
  /\ UNCHANGED <<process, chk, work, queue, journal, core>>

ApplyRejected(g) ==
  /\ pc[g] = "apply"
  /\ \/ "provider" \in Faults
     \/ Fresh(g) /\ ("reject" \in Faults \/ ~CanExecute(target, work[g].plan.op))
  /\ Goto(g, "fail")
  /\ UNCHANGED <<process, chk, work, queue, external>>

ApplyUnavailable(g) ==
  /\ "target" \in Faults
  /\ pc[g] = "apply"
  /\ Publish(g, work[g].plan, "retrying", TRUE)
  /\ UNCHANGED <<process, chk, queue, external>>

-----------------------------------------------------------------------------
(* Planning: observe, build_plan, persist the artifacts, append PlanCreated *)

ObserveForPlanFails(g) ==
  /\ {"target", "provider"} \cap Faults # {}
  /\ pc[g] = "plan"
  /\ Publish(g, None, "retrying", TRUE)
  /\ UNCHANGED <<process, chk, queue, external>>

PlanRejected(g) ==
  /\ pc[g] = "plan"
  /\ PlanIsRefused(desired[g], Observe(target, desired[g]))
  /\ Publish(g, None, "failed", FALSE)
  /\ UNCHANGED <<process, chk, queue, external>>

PlanEmpty(g) ==
  LET observed == Observe(target, desired[g]) IN
  /\ pc[g] = "plan"
  /\ ~PlanIsRefused(desired[g], observed)
  /\ Converged(desired[g], journal.bindings, observed)
  /\ Publish(g, None, "ready", FALSE)
  /\ UNCHANGED <<process, chk, queue, external>>

Propose(g) ==
  LET d == desired[g]
      observed == Observe(target, d) IN
  /\ pc[g] = "plan"
  /\ ~PlanIsRefused(d, observed)
  /\ FreshPlanId \in PlanIds
  /\ \E op \in First(Outstanding(d, journal.bindings, observed)) :
       work' = [work EXCEPT ![g].plan = [id |-> FreshPlanId, slice |-> d, op |-> op,
                                         observed |-> observed]]
  /\ Goto(g, "propose")
  /\ UNCHANGED <<process, chk, queue, external>>

-----------------------------------------------------------------------------
(* Durable report delivery *)

Saved(g) == [chk EXCEPT ![g].plan = work[g].plan, ![g].report = work[g].report]

SaveReport(g) ==
  /\ pc[g] = "publish"
  /\ chk' = Saved(g)
  /\ Goto(g, "deliver")
  /\ UNCHANGED <<process, work, queue, external>>

Delivering(g) == pc[g] \in {"deliver", "redeliver"}

CoreReceives(g) == [core EXCEPT ![g] = chk[g].report]

(* Faulty variant: a redelivered report is the end of the pass.            *)
RequeuesOnlyOnRequest(g) == work[g].requeue

(* A pass that redelivers always schedules the next one; publish only when *)
(* its caller does, or when the report must be retried.                    *)
Requeues(g) == pc[g] = "redeliver" \/ work[g].requeue

ReportAcknowledged(g) ==
  /\ Delivering(g)
  /\ core' = CoreReceives(g)
  /\ chk' = [chk EXCEPT ![g].report = None]
  /\ Schedule(g, chk[g].slice.sequence, IF Requeues(g) THEN 1 ELSE 0)
  /\ Finish(g)
  /\ UNCHANGED <<proc, boot, desired, journal, target>>

ReportLost(g) ==
  /\ "report" \in Faults
  /\ Delivering(g)
  /\ core' \in {core, CoreReceives(g)}
  /\ Schedule(g, chk[g].slice.sequence, IF pc[g] = "deliver" /\ Requeues(g) THEN 2 ELSE 1)
  /\ Finish(g)
  /\ UNCHANGED <<proc, boot, chk, desired, journal, target>>

-----------------------------------------------------------------------------
(* retire: the RetireSlice RPC, for the retained generation and a sequence *)
(* that is not older.  Nothing is deleted from the database.               *)

RetireBegin(g) ==
  /\ "retire" \in Faults
  /\ proc = "serving"
  /\ pc[g] = "idle"
  /\ Live(g)
  /\ Goto(g, "retire")
  /\ queue' = Append(queue, g)
  /\ UNCHANGED <<process, chk, work, external>>

RetireRelease(g) ==
  /\ HoldsTarget(g)
  /\ AppendPending(g, "retire")
  /\ Goto(g, "retired")
  /\ UNCHANGED <<process, chk, work, queue, target, core>>

Retired(g) == [chk EXCEPT ![g].retired = TRUE, ![g].plan = None, ![g].report = None]

RetireSave(g) ==
  /\ pc[g] = "retired"
  /\ chk' = Retired(g)
  /\ desired' = [desired EXCEPT ![g] = None]
  /\ Finish(g)
  /\ UNCHANGED <<proc, boot, tasks, external>>

(* A save fails: before the rename, or after it at the directory sync; or  *)
(* the plan's artifacts cannot be persisted.                               *)
SaveFails(g) ==
  /\ "disk" \in Faults
  /\ \/ pc[g] = "propose" /\ chk' = chk /\ core' = core
     \/ pc[g] = "publish" /\ chk' \in {chk, Saved(g)} /\ core' = core
     \/ pc[g] = "retired" /\ chk' \in {chk, Retired(g)} /\ core' = core
     \/ /\ Delivering(g)
        /\ chk' \in {chk, [chk EXCEPT ![g].report = None]}
        /\ core' = CoreReceives(g)
  /\ Finish(g)
  /\ UNCHANGED <<process, journal, target>>

-----------------------------------------------------------------------------
(* Process lifecycle *)

(* What the process keeps in memory is lost.                               *)
Wiped ==
  /\ proc' = "down"
  /\ boot' = {}
  /\ desired' = [g \in Graphs |-> None]
  /\ tasks' = [g \in Graphs |-> [q \in Sequences |-> 0]]
  /\ pc' = [g \in Graphs |-> "idle"]
  /\ work' = [g \in Graphs |-> Idle]
  /\ queue' = << >>

Crash ==
  /\ proc # "down"
  /\ Wiped
  /\ UNCHANGED <<chk, external>>

ProcessCrashes == "crash" \in Faults /\ Crash

(* resume reads every checkpoint that is not retired ...                   *)
Boot ==
  /\ proc = "down"
  /\ proc' = "booting"
  /\ boot' = {g \in Graphs : Live(g)}
  /\ UNCHANGED <<chk, desired, tasks, pc, work, queue, external>>

(* Faulty variant: what core returned is used to check the level only.     *)
ResumeForgets(g) ==
  /\ proc = "booting"
  /\ g \in boot
  /\ boot' = boot \ {g}
  /\ core' = IF chk[g].report = None THEN core ELSE CoreReceives(g)
  /\ chk' = [chk EXCEPT ![g].report = None]
  /\ Schedule(g, chk[g].slice.sequence, 1)
  /\ UNCHANGED <<proc, desired, pc, work, queue, journal, target>>

(* ... fetches its slice from core, redelivers a pending report, spawns.   *)
ResumeGraph(g) ==
  /\ proc = "booting"
  /\ g \in boot
  /\ boot' = boot \ {g}
  /\ desired' = [desired EXCEPT ![g] = chk[g].slice]
  /\ \/ chk[g].report = None /\ UNCHANGED <<chk, core>>
     \/ /\ chk[g].report # None
        /\ core' = CoreReceives(g)
        /\ chk' = [chk EXCEPT ![g].report = None]
     \/ /\ "report" \in Faults
        /\ chk[g].report # None
        /\ core' \in {core, CoreReceives(g)}
        /\ chk' = chk
  /\ Schedule(g, chk[g].slice.sequence, 1)
  /\ UNCHANGED <<proc, pc, work, queue, journal, target>>

(* One graph core cannot return ends the whole process, with the passes    *)
(* of the graphs already resumed.                                          *)
ResumeFails ==
  /\ "core" \in Faults
  /\ boot # {}
  /\ Crash

(* So does a checkpoint that cannot be saved after core acknowledged the   *)
(* report in it.                                                           *)
ResumeSaveFails(g) ==
  /\ "disk" \in Faults
  /\ proc = "booting"
  /\ g \in boot
  /\ chk[g].report # None
  /\ core' = CoreReceives(g)
  /\ chk' \in {chk, [chk EXCEPT ![g].report = None]}
  /\ Wiped
  /\ UNCHANGED <<journal, target>>

Serve ==
  /\ proc = "booting"
  /\ boot = {}
  /\ proc' = "serving"
  /\ UNCHANGED <<boot, chk, desired, tasks, pc, work, queue, external>>

-----------------------------------------------------------------------------
(* Somebody else drops or creates a schema, or edits the API settings.     *)
Drift ==
  /\ "drift" \in Faults
  /\ target' \in Drifted(target)
  /\ UNCHANGED <<proc, boot, chk, desired, tasks, pc, work, queue, journal, core>>

-----------------------------------------------------------------------------
PassStep(g) ==
  \/ RefuseDesired(g) \/ FindStale(g) \/ ResumeBinding(g) \/ ResumePlan(g) \/ PlanFresh(g)
  \/ AppendStale(g) \/ AppendStarted(g) \/ AppendBinding(g) \/ AppendSucceeded(g)
  \/ AppendFailed(g) \/ AppendCreated(g)
  \/ ObserveForApply(g) \/ ApplyStale(g) \/ ApplyCommits(g) \/ ApplyRejected(g)
  \/ PlanRejected(g) \/ PlanEmpty(g) \/ Propose(g)
  \/ SaveReport(g)

TaskStep(g) == \E q \in Sequences : DropTask(g, q) \/ BeginRedelivery(g, q) \/ BeginPass(g, q)

RetireStep(g) == RetireRelease(g) \/ RetireSave(g)

FaultStep(g) ==
  \/ AppendUnacknowledged(g) \/ LoadFails(g) \/ ObserveFails(g) \/ ObserveForPlanFails(g)
  \/ CommitUnanswered(g) \/ CommitThenRejected(g) \/ ApplyUnavailable(g)
  \/ ReportLost(g) \/ SaveFails(g)

GraphStep(g) ==
  \/ TaskStep(g) \/ PassStep(g) \/ ReportAcknowledged(g)
  \/ RetireBegin(g) \/ RetireStep(g) \/ FaultStep(g)
  \/ ResumeGraph(g)

CoreSends == \E d \in Slices : AcceptNew(d) \/ AcceptAgain(d)

Next ==
  \/ \E g \in Graphs : GraphStep(g)
  \/ CoreSends
  \/ ProcessCrashes \/ Boot \/ ResumeFails \/ Serve
  \/ \E g \in Graphs : ResumeSaveFails(g)
  \/ Drift

Spec == Init /\ [][Next]_vars

-----------------------------------------------------------------------------
(* Type invariant *)

Labels == {"idle", "load", "stale", "start", "bind", "succeed", "fail", "observe", "apply",
           "plan", "propose", "publish", "deliver", "redeliver", "retire", "retired"}

(* Every variable keeps its shape: a checkpoint, plan, report, receipt or  *)
(* binding that is stored is always one that the code could have built.    *)
TypeOK ==
  /\ proc \in {"down", "booting", "serving"}
  /\ boot \subseteq Graphs
  /\ chk \in [Graphs -> Checkpoints \cup {None}]
  /\ desired \in [Graphs -> Slices \cup {None}]
  /\ tasks \in [Graphs -> [Sequences -> 0 .. MaxTasks]]
  /\ pc \in [Graphs -> Labels]
  /\ work \in [Graphs -> Activities]
  /\ queue \in Seq(Graphs)
  /\ JournalTyped(journal)
  /\ target \in TargetStates
  /\ core \in [Graphs -> Reports \cup {None}]

-----------------------------------------------------------------------------
(* Safety *)

Retained(g) == chk[g].slice

(* A pass that is running, or scheduled for the retained sequence, finds   *)
(* the retained level in memory, and a retained plan is a plan of exactly  *)
(* that level: neither "accepted desired slice is not loaded" nor          *)
(* "persisted executable plan does not describe current desired level" can *)
(* end a pass, whatever accept, restart and failed saves do in between.    *)
PassHasItsLevel ==
  \A g \in Graphs : Live(g) =>
    /\ chk[g].plan # None => PlanDescribes(chk[g].plan, Retained(g))
    /\ (pc[g] # "idle" /\ pc[g] # "retire" /\ pc[g] # "retired")
         \/ tasks[g][Retained(g).sequence] > 0
       => desired[g] = Retained(g)

(* At the moment an apply transaction would commit, the operation's        *)
(* postcondition does not hold yet: however plans, retries, lost answers,  *)
(* restarts and newer levels interleave, no operation is applied twice     *)
(* and no migration reaches the receipt ledger's primary key a second time.*)
NeverReapplies ==
  \A g \in Graphs :
    pc[g] = "apply" /\ Fresh(g) =>
      ~OperationSatisfied(work[g].plan.op, Observe(target, desired[g]))

(* When a pass has a fresh plan in hand, that plan is still the one        *)
(* build_plan would make now: its operation is the first one outstanding,  *)
(* judged by the bindings and the target of this very moment.              *)
AppliesFirstOutstanding ==
  \A g \in Graphs :
    pc[g] = "apply" /\ Fresh(g) =>
      work[g].plan.op \in First(Outstanding(Retained(g), journal.bindings,
                                           Observe(target, Retained(g))))

(* A success receipt is appended only when the postcondition really holds: *)
(* for a binding, in the journal; for every other operation, in the target.*)
ReceiptsAreTrue ==
  [][\A g \in Graphs :
       LET op == work[g].plan.op IN
       AppendSucceeded(g) =>
         IF op.kind = "bind"
         THEN BindingFor(Retained(g), op.context) \in journal.bindings
         ELSE OperationSatisfied(op, Observe(target, Retained(g)))]_vars

(* As long as nobody else touches the target: what core was told is ready, *)
(* is.  The level core believes materialised, while it is the retained     *)
(* one, has no outstanding operation in current truth, restarts, lost      *)
(* reports and leftover passes notwithstanding.                            *)
ReadyIsBacked ==
  \A g \in Graphs :
    Live(g) /\ core[g] = Report(Retained(g), "ready") =>
      Converged(Retained(g), journal.bindings, Observe(target, Retained(g)))

(* The level is settled: a final report reached core and nothing is left   *)
(* pending in the checkpoint.                                              *)
Settled(g) ==
  /\ Live(g)
  /\ chk[g].plan = None
  /\ chk[g].report = None
  /\ core[g] \in {Report(Retained(g), "ready"), Report(Retained(g), "failed")}

Scheduled(g) == pc[g] # "idle" \/ tasks[g][Retained(g).sequence] > 0

(* While the connector serves, a level that is not settled always has a    *)
(* pass running or scheduled: the work is never forgotten.                 *)
NoLostPass ==
  \A g \in Graphs : proc = "serving" /\ Live(g) /\ ~Scheduled(g) => Settled(g)

(* All bindings in the journal belong to one graph, although every graph   *)
(* may plan a binding before any of them holds one.                        *)
ExclusiveOwner == \A b, c \in journal.bindings : b.graph = c.graph

(* Seen through the bindings, the target and the accepted levels, the      *)
(* controller is the loop of Convergence: whatever it plans, retries,      *)
(* recovers or repeats, a step that changes the bindings or the target is  *)
(* the first outstanding operation of the retained level, judged by the    *)
(* bindings and the target of that very moment.                            *)
Promise == INSTANCE Convergence WITH
  bindings <- journal.bindings,
  target <- target,
  level <- [g \in Graphs |-> IF Live(g) THEN Retained(g) ELSE None]
ImplementsConvergence == Promise!Spec

(* A graph whose checkpoint says retired holds no binding, at any later    *)
(* time: the release is in the journal before the checkpoint says so, and  *)
(* no pass of the graph binds again.                                       *)
RetiredOwnsNothing ==
  \A g \in Graphs : chk[g] # None /\ chk[g].retired =>
    \A b \in journal.bindings : b.graph # g

-----------------------------------------------------------------------------
(* Statements of the documentation that the code does not keep; each is    *)
(* refuted by a run of its own.                                            *)

(* reconciler.rs, target unavailable: "The connector will retry from       *)
(* current target truth."  While the connector serves, a level that core   *)
(* was told is being retried has a pass running or scheduled.              *)
RetryIsScheduled ==
  \A g \in Graphs :
    /\ proc = "serving"
    /\ Live(g)
    /\ core[g] = Report(Retained(g), "retrying")
    => Scheduled(g)

(* journal.rs, OperationState::Failed: "The target rejected the operation  *)
(* with canonical evidence."  No failure is receipted for an operation     *)
(* whose postcondition holds.                                              *)
FailedWasRejected ==
  [][\A g \in Graphs :
       AppendFailed(g) =>
         ~OperationSatisfied(work[g].plan.op, Observe(target, Retained(g)))]_vars

-----------------------------------------------------------------------------
(* Liveness.  The runtime polls every spawned task and every future that   *)
(* is ready, the supervisor restarts the process, and core, asked again    *)
(* and again, acknowledges a report some time.                             *)
Fairness ==
  /\ WF_vars(Boot) /\ WF_vars(Serve)
  /\ \A g \in Graphs : /\ WF_vars(ResumeGraph(g))
                       /\ WF_vars(TaskStep(g))
                       /\ WF_vars(PassStep(g))
                       /\ WF_vars(RetireStep(g))
                       /\ SF_vars(ReportAcknowledged(g))

FairSpec == Spec /\ Fairness

(* Once the process stops crashing, every retained level is settled: core  *)
(* gets a final report on it, unless a newer level or a retirement takes   *)
(* its place.                                                              *)
LevelsSettle ==
  <>[](proc # "down") =>
    \A d \in Slices :
      Live(d.graph) /\ Retained(d.graph) = d
        ~> Settled(d.graph) \/ ~Live(d.graph) \/ Retained(d.graph) # d

(* Every lock that is taken is released: no activity stays forever.        *)
LocksAreReleased == \A g \in Graphs : (pc[g] # "idle") ~> (pc[g] = "idle")

(* component-context-v1.md: "The local v1 target has one exclusive graph   *)
(* owner; a second graph receives supabase.plan.target-owned".  When two   *)
(* graphs ask for a target nobody owns, one of them comes to own it.       *)
ContentionIsDecided ==
  \A g, h \in Graphs :
    g # h /\ Live(g) /\ Live(h) ~> journal.bindings # {}
=============================================================================
