--------------------------- MODULE StateDirectory ---------------------------
(***************************************************************************)
(* What a connector keeps on its own disk, and what it answers core from   *)
(* it: checkpoints (reconciler.rs, save and load) and plan artifacts       *)
(* (review.rs, persist and load), written by ReconcileSlice, RetireSlice   *)
(* and the passes.                                                         *)
(*                                                                         *)
(* A file is written whole to a temporary name, synced, renamed, and then  *)
(* its directory is synced.  From the rename on every reader sees the new  *)
(* file; only from the sync on does it survive a loss of power.  Before    *)
(* that, each name may come back old or new.  The directories themselves   *)
(* are taken to be durable with their first synced entry.                  *)
(*                                                                         *)
(* Left to Reconciler: the journal, the target and the scheduling of       *)
(* passes.  A pass proposes a plan, does something with the retained one,  *)
(* or reports something else, whatever the target says.                    *)
(***************************************************************************)
EXTENDS SliceAcceptance

CONSTANTS
  Graphs,      \* graph UUIDs
  Requests,    \* the ReconcileSlice requests that are sent
  PlanIds,     \* BOUND: digests that identify plans
  Faults       \* the failures an instance allows: "crash", "power", "disk"

ASSUME RequestsAreTyped ==
  \A r \in Requests : /\ r.graph \in Graphs \cup {None}
                      /\ r.generation \in Nat \cup {None}
                      /\ r.sequence \in Nat \cup {None}
                      /\ r.components \in Seq(Range(r.components))

ASSUME PlanIdsAreNoReports == None \notin PlanIds /\ "other" \notin PlanIds

VARIABLES
  proc,      \* "down", "booting" or "serving"
  boot,      \* graphs whose checkpoint resume has yet to handle
  desired,   \* the slice in memory, or None
  pc,        \* where the activity that holds the graph's lock is
  work,      \* its locals
  seen,      \* the files as a reader sees them, None where there is none
  kept,      \* the files that a loss of power leaves
  created,   \* plans whose PlanCreated is in the journal
  answered,  \* the latest level a request saved and core was answered for, or None
  offered    \* plans that core was told are ready for review

vars == <<proc, boot, desired, pc, work, seen, kept, created, answered, offered>>
memory == <<proc, boot, desired>>
external == <<created, answered, offered>>

-----------------------------------------------------------------------------
(* Files *)

CheckpointFile(g) == <<"graphs", g>>
PlanFile(p)       == <<"plans", p>>
JsonFile(p)       == <<"reviews", p, "plan.json">>
MarkdownFile(p)   == <<"reviews", p, "plan.md">>

ArtifactFiles(p) == {PlanFile(p), JsonFile(p), MarkdownFile(p)}
Files == {CheckpointFile(g) : g \in Graphs} \cup UNION {ArtifactFiles(p) : p \in PlanIds}

(* Each plan has a directory for its review.                               *)
Directory(file) == IF Len(file) = 3 THEN <<file[1], file[2]>> ELSE <<file[1]>>

(* What a plan says of the level it was made for (validate_plan_identity). *)
Identity(x) == [graph |-> x.graph, generation |-> x.generation, sequence |-> x.sequence,
                digest |-> x.digest]

Fresh(slice) ==
  [graph |-> slice.graph, generation |-> slice.generation, sequence |-> slice.sequence,
   digest |-> DigestOf(slice), plan |-> None, report |-> None, retired |-> FALSE]

PlanFor(slice) == Identity(Fresh(slice))

Write(file, content) == [file |-> file, content |-> content]
Save(checkpoint) == <<Write(CheckpointFile(checkpoint.graph), checkpoint)>>

(* Faulty variant: the private plan is not written.                        *)
PersistReviewOnly(p, slice) ==
  <<Write(JsonFile(p), PlanFor(slice)), Write(MarkdownFile(p), PlanFor(slice))>>

Persist(p, slice) ==
  <<Write(PlanFile(p), PlanFor(slice)),
    Write(JsonFile(p), PlanFor(slice)),
    Write(MarkdownFile(p), PlanFor(slice))>>

Retained(g) == seen[CheckpointFile(g)]

-----------------------------------------------------------------------------
(* Activities *)

Idle == [todo |-> << >>, next |-> "idle", checkpoint |-> None, slice |-> None]

Init ==
  /\ proc = "serving"
  /\ boot = {}
  /\ desired = [g \in Graphs |-> None]
  /\ pc = [g \in Graphs |-> "idle"]
  /\ work = [g \in Graphs |-> Idle]
  /\ seen = [f \in Files |-> None]
  /\ kept = [f \in Files |-> None]
  /\ created = {}
  /\ answered = [g \in Graphs |-> None]
  /\ offered = {}

Goto(g, label) == pc' = [pc EXCEPT ![g] = label]

End(g) ==
  /\ Goto(g, "idle")
  /\ work' = [work EXCEPT ![g] = Idle]

(* The process ends, and what it keeps in memory is lost.                  *)
Down ==
  /\ proc' = "down"
  /\ boot' = {}
  /\ desired' = [g \in Graphs |-> None]
  /\ pc' = [g \in Graphs |-> "idle"]
  /\ work' = [g \in Graphs |-> Idle]
  /\ UNCHANGED external

(* Writes files one after the other, then goes on at "next".               *)
Writes(g, writes, next, checkpoint, slice) ==
  /\ Goto(g, "rename")
  /\ work' = [work EXCEPT ![g] = [todo |-> writes, next |-> next,
                                  checkpoint |-> checkpoint, slice |-> slice]]

Rename(g) ==
  /\ pc[g] = "rename"
  /\ seen' = [seen EXCEPT ![Head(work[g].todo).file] = Head(work[g].todo).content]
  /\ Goto(g, "sync")
  /\ UNCHANGED <<memory, work, kept, external>>

(* Faulty variant: the directory is not synced.                            *)
SyncedNothing(file) == kept

(* The sync of a directory covers the entries of other graphs and plans.   *)
Synced(file) ==
  [f \in Files |-> IF Directory(f) = Directory(file) THEN seen[f] ELSE kept[f]]

Sync(g) ==
  /\ pc[g] = "sync"
  /\ kept' = Synced(Head(work[g].todo).file)
  /\ work' = [work EXCEPT ![g].todo = Tail(@)]
  /\ Goto(g, IF Len(work[g].todo) = 1 THEN work[g].next ELSE "rename")
  /\ UNCHANGED <<memory, seen, external>>

(* A write fails before its rename, or at the sync after it: the activity  *)
(* ends with an error.  While resume runs for the graph, the process does. *)
WriteFails(g) ==
  /\ "disk" \in Faults
  /\ pc[g] \in {"rename", "sync"}
  /\ IF g \in boot THEN Down ELSE End(g) /\ UNCHANGED <<memory, external>>
  /\ UNCHANGED <<seen, kept>>

-----------------------------------------------------------------------------
(* accept *)

(* The answer to the request that has just saved its checkpoint.           *)
Answer(g) ==
  answered' = [answered EXCEPT ![g] = [level |-> Identity(work[g].checkpoint),
                                       retired |-> work[g].checkpoint.retired]]

Free(g) == proc = "serving" /\ pc[g] = "idle"

(* Faulty variant: the sequence alone decides.                             *)
SupersedesBySequence(slice, checkpoint) == slice.sequence > checkpoint.sequence

Supersedes(slice, checkpoint) ==
  /\ slice.sequence > checkpoint.sequence
  /\ slice.generation >= checkpoint.generation

Repeats(slice, checkpoint) ==
  /\ slice.sequence = checkpoint.sequence
  /\ DigestOf(slice) = checkpoint.digest

AcceptNew(slice) ==
  LET g == slice.graph IN
  /\ Free(g)
  /\ Retained(g) # None => ~Retained(g).retired /\ Supersedes(slice, Retained(g))
  /\ Writes(g, Save(Fresh(slice)), "accepted", Fresh(slice), slice)
  /\ UNCHANGED <<memory, seen, kept, external>>

AnswerAccepted(g) ==
  /\ pc[g] = "accepted"
  /\ desired' = [desired EXCEPT ![g] = work[g].slice]
  /\ Answer(g)
  /\ End(g)
  /\ UNCHANGED <<proc, boot, seen, kept, created, offered>>

(* The retained level again: answered from the checkpoint as it is read.   *)
(* So is an older level, with the retained sequence.                       *)
AcceptKnown(slice) ==
  LET g == slice.graph IN
  /\ Free(g)
  /\ Retained(g) # None
  /\ ~Retained(g).retired
  /\ Repeats(slice, Retained(g))
  /\ desired' = [desired EXCEPT ![g] = slice]
  /\ UNCHANGED <<proc, boot, pc, work, seen, kept, external>>

(* Every other request is refused, and changes nothing.                    *)
Receive(request) ==
  LET slice == FromView(request) IN
  slice # None /\ (AcceptNew(slice) \/ AcceptKnown(slice))

-----------------------------------------------------------------------------
(* retire, for the retained generation and a sequence that is not older.   *)
(* A graph that is retired already is answered and left as it is.          *)

(* Faulty variant: the plan stays in the retired checkpoint.               *)
RetiredWithPlan(checkpoint) == [checkpoint EXCEPT !.retired = TRUE, !.report = None]

Retired(checkpoint) ==
  [checkpoint EXCEPT !.retired = TRUE, !.plan = None, !.report = None]

Retire(g) ==
  /\ Free(g)
  /\ Retained(g) # None
  /\ ~Retained(g).retired
  /\ Writes(g, Save(Retired(Retained(g))), "retired", Retired(Retained(g)), None)
  /\ UNCHANGED <<memory, seen, kept, external>>

AnswerRetired(g) ==
  /\ pc[g] = "retired"
  /\ desired' = [desired EXCEPT ![g] = None]
  /\ Answer(g)
  /\ End(g)
  /\ UNCHANGED <<proc, boot, seen, kept, created, offered>>

-----------------------------------------------------------------------------
(* Passes *)

(* A pass runs for the retained sequence only, and was scheduled by what   *)
(* put that level in memory.                                               *)
Runs(g) ==
  /\ proc # "down"
  /\ g \notin boot
  /\ pc[g] = "idle"
  /\ Retained(g) # None
  /\ ~Retained(g).retired
  /\ desired[g] # None
  /\ desired[g].sequence = Retained(g).sequence

Publish(g, checkpoint) ==
  Writes(g, Save(checkpoint), "deliver", checkpoint, None)

(* An id already written is written again when the same plan is made again *)
(* before its PlanCreated has moved the journal.                           *)
Propose(g) ==
  /\ Runs(g)
  /\ Retained(g).report = None
  /\ Retained(g).plan = None
  /\ \E p \in PlanIds \ created :
       /\ \A f \in ArtifactFiles(p) : seen[f] \in {None, PlanFor(desired[g])}
       /\ \A h \in Graphs \ {g} : work[h].checkpoint # None => work[h].checkpoint.plan # p
       /\ Writes(g, Persist(p, desired[g]), "create",
                 [Retained(g) EXCEPT !.plan = p, !.report = p], None)
  /\ UNCHANGED <<memory, seen, kept, external>>

(* The append of PlanCreated, and the save of the checkpoint after it.     *)
Create(g) ==
  /\ pc[g] = "create"
  /\ created' = created \cup {work[g].checkpoint.plan}
  /\ Publish(g, work[g].checkpoint)
  /\ UNCHANGED <<memory, seen, kept, answered, offered>>

(* review::load and validate_plan_identity; then the plan is used, and     *)
(* dropped unless the target cannot be reached.                            *)
UsePlan(g) ==
  /\ Runs(g)
  /\ Retained(g).report = None
  /\ Retained(g).plan # None
  /\ seen[PlanFile(Retained(g).plan)] = PlanFor(desired[g])
  /\ \E p \in {None, Retained(g).plan} :
       Publish(g, [Retained(g) EXCEPT !.plan = p, !.report = "other"])
  /\ UNCHANGED <<memory, seen, kept, external>>

(* Ready, failed, or the target cannot be observed.                        *)
ReportLevel(g) ==
  /\ Runs(g)
  /\ Retained(g).report = None
  /\ Retained(g).plan = None
  /\ Publish(g, [Retained(g) EXCEPT !.report = "other"])
  /\ UNCHANGED <<memory, seen, kept, external>>

DeliverAgain(g) ==
  /\ Goto(g, "deliver")
  /\ work' = [work EXCEPT ![g].checkpoint = Retained(g)]

Redeliver(g) ==
  /\ Runs(g)
  /\ Retained(g).report # None
  /\ DeliverAgain(g)
  /\ UNCHANGED <<memory, seen, kept, external>>

CoreReads(g) == offered' = offered \cup ({work[g].checkpoint.report} \cap PlanIds)

Deliver(g) ==
  /\ pc[g] = "deliver"
  /\ CoreReads(g)
  /\ LET delivered == [work[g].checkpoint EXCEPT !.report = None]
     IN Writes(g, Save(delivered), "idle", None, None)
  /\ UNCHANGED <<memory, seen, kept, created, answered>>

(* S2 or core gives no answer: the call may have had its effect.           *)
CallFails(g) ==
  /\ pc[g] \in {"create", "deliver"}
  /\ \/ UNCHANGED <<created, offered>>
     \/ pc[g] = "create" /\ created' = created \cup {work[g].checkpoint.plan} /\ UNCHANGED offered
     \/ pc[g] = "deliver" /\ CoreReads(g) /\ UNCHANGED created
  /\ End(g)
  /\ UNCHANGED <<memory, seen, kept, answered>>

-----------------------------------------------------------------------------
(* Process lifecycle *)

Crash ==
  /\ "crash" \in Faults
  /\ proc # "down"
  /\ Down
  /\ UNCHANGED <<seen, kept>>

(* Each name that was not synced comes back as it was, or as it is.        *)
PowerLoss ==
  /\ "power" \in Faults
  /\ \E lost \in SUBSET {f \in Files : seen[f] # kept[f]} :
       seen' = [f \in Files |-> IF f \in lost THEN kept[f] ELSE seen[f]]
  /\ kept' = seen'
  /\ Down

Boot ==
  /\ proc = "down"
  /\ proc' = "booting"
  /\ boot' = {g \in Graphs : Retained(g) # None /\ ~Retained(g).retired}
  /\ UNCHANGED <<desired, pc, work, seen, kept, external>>

(* resume takes one checkpoint at a time: fetch the level from core, check *)
(* its digest, deliver a pending report.                                   *)
Fetches(g, request) ==
  LET slice == FromView(request) IN
  /\ slice # None
  /\ slice.graph = g
  /\ slice.sequence = Retained(g).sequence
  /\ DigestOf(slice) = Retained(g).digest

Resuming(g) == g \in boot /\ \A h \in boot : desired[h] = None

ResumeGraph(g) ==
  /\ Resuming(g)
  /\ \E request \in Requests :
       Fetches(g, request) /\ desired' = [desired EXCEPT ![g] = FromView(request)]
  /\ IF Retained(g).report = None
     THEN UNCHANGED <<pc, work>>
     ELSE DeliverAgain(g)
  /\ UNCHANGED <<proc, boot, seen, kept, external>>

Resumed(g) ==
  /\ g \in boot
  /\ desired[g] # None
  /\ pc[g] = "idle"
  /\ boot' = boot \ {g}
  /\ UNCHANGED <<proc, desired, pc, work, seen, kept, external>>

(* Core does not return the level, or returns another one.                 *)
ResumeFails(g) ==
  /\ Resuming(g)
  /\ Down
  /\ UNCHANGED <<seen, kept>>

Serve ==
  /\ proc = "booting"
  /\ boot = {}
  /\ proc' = "serving"
  /\ UNCHANGED <<boot, desired, pc, work, seen, kept, external>>

-----------------------------------------------------------------------------
Rpc(g) == AnswerAccepted(g) \/ Retire(g) \/ AnswerRetired(g)

Pass(g) ==
  \/ Propose(g) \/ Create(g) \/ UsePlan(g) \/ ReportLevel(g)
  \/ Redeliver(g) \/ Deliver(g) \/ CallFails(g)

Disk(g) == Rename(g) \/ Sync(g) \/ WriteFails(g)

Lifecycle == Crash \/ PowerLoss \/ Boot \/ Serve

Next ==
  \/ \E request \in Requests : Receive(request)
  \/ \E g \in Graphs : Rpc(g) \/ Pass(g) \/ Disk(g)
  \/ \E g \in Graphs : ResumeGraph(g) \/ Resumed(g) \/ ResumeFails(g)
  \/ Lifecycle

Spec == Init /\ [][Next]_vars

-----------------------------------------------------------------------------
(* Type invariant *)

Slices == {FromView(r) : r \in Requests} \ {None}
Plans == {PlanFor(slice) : slice \in Slices}
Checkpoints ==
  {[graph |-> level.graph, generation |-> level.generation, sequence |-> level.sequence,
    digest |-> level.digest, plan |-> p, report |-> r, retired |-> b] :
     level \in Plans, p \in PlanIds \cup {None}, r \in PlanIds \cup {None, "other"},
     b \in BOOLEAN}

ASSUME NoneIsNoContent == None \notin Plans \cup Checkpoints

Contents(file) == IF file[1] = "graphs" THEN Checkpoints ELSE Plans

(* Every variable keeps its shape: a checkpoint file holds a checkpoint of *)
(* its graph, a plan file a plan.                                          *)
TypeOK ==
  /\ proc \in {"down", "booting", "serving"}
  /\ boot \subseteq Graphs
  /\ desired \in [Graphs -> Slices \cup {None}]
  /\ pc \in [Graphs -> {"idle", "rename", "sync", "accepted", "retired", "create", "deliver"}]
  /\ \A f \in Files : seen[f] \in Contents(f) \cup {None} /\ kept[f] \in Contents(f) \cup {None}
  /\ \A g \in Graphs : \A c \in {seen[CheckpointFile(g)], kept[CheckpointFile(g)]} :
       c # None => c.graph = g /\ (c.retired => c.plan = None)
  /\ created \subseteq PlanIds
  /\ offered \subseteq PlanIds

-----------------------------------------------------------------------------
(* Safety *)

(* The checkpoints a graph may be found with after a loss of power.        *)
MayRemain(g) == {seen[CheckpointFile(g)], kept[CheckpointFile(g)]}

(* Whatever a loss of power leaves, a checkpoint that names a plan finds   *)
(* that plan and its review, made for the checkpoint's own level; and a    *)
(* plan that core was told is ready for review stays there to be reviewed. *)
(* A checkpoint whose plan is missing would fail every pass of its level.  *)
PlansAreKept ==
  /\ \A g \in Graphs : \A c \in MayRemain(g) :
       c # None /\ c.plan # None =>
         \A f \in ArtifactFiles(c.plan) : kept[f] = Identity(c)
  /\ \A p \in offered : \A f \in ArtifactFiles(p) : kept[f] # None

(* One level of a graph takes the place of another: never an older         *)
(* sequence or generation, never other contents under the same sequence,   *)
(* never back from retirement.                                             *)
Follows(level, wasRetired, c) ==
  /\ c # None
  /\ c.sequence >= level.sequence
  /\ c.generation >= level.generation
  /\ c.sequence = level.sequence => c.digest = level.digest
  /\ wasRetired => c.retired

(* What core was answered by the request that saved it is not taken back   *)
(* by any crash, failed write or loss of power after it, nor by the level  *)
(* that comes next.                                                        *)
SavedAnswersHold ==
  \A g \in Graphs : answered[g] # None =>
    \A c \in MayRemain(g) : Follows(answered[g].level, answered[g].retired, c)

(* What a loss of power leaves of a graph only moves forward, answered or  *)
(* not: a later save never puts an older level under a newer one.          *)
KeptMovesForward ==
  [][\A g \in Graphs :
       LET c == kept[CheckpointFile(g)] IN
       c # None => Follows(Identity(c), c.retired, kept'[CheckpointFile(g)])]_vars

(* A slice in memory is what the planner takes for granted: resources,     *)
(* schemas and names are unique, one target, no reserved schema; and under *)
(* the retained sequence it is the retained level.                         *)
DesiredIsValid ==
  \A g \in Graphs : desired[g] # None =>
    /\ \A x, y \in desired[g].specs :
         /\ x # y => /\ x.name # y.name
                     /\ x.context.resource # y.context.resource
                     /\ x.context.schema # y.context.schema
         /\ x.context.target = y.context.target
         /\ x.context.schema \notin Reserved
    /\ Retained(g) # None /\ Retained(g).sequence = desired[g].sequence =>
         Retained(g).digest = DigestOf(desired[g])

(* reconciler.rs, accept: "Durably accept a complete desired level and     *)
(* schedule one pass."  When a request is answered with its sequence, a    *)
(* loss of power leaves its level.                                         *)
Acknowledges(slice) ==
  \/ AcceptKnown(slice)
  \/ AnswerAccepted(slice.graph) /\ work[slice.graph].slice = slice
AcceptsDurably ==
  [][\A slice \in Slices : Acknowledges(slice) =>
       \A c \in MayRemain(slice.graph) : c # None /\ c.sequence >= slice.sequence]_vars
=============================================================================
