----------------------------- MODULE Connectors -----------------------------
(***************************************************************************)
(* The two stores that connectors share, at the grain of their calls:      *)
(* several connector processes over one S2 stream (journal.rs) and one     *)
(* PostgreSQL database (target.rs), with nothing else between them.  Two   *)
(* of them may be rivals for the target, or a connector and the one that   *)
(* is replacing it; even one has company, in the calls it made before it   *)
(* died.                                                                   *)
(*                                                                         *)
(* A pass loads the journal in two calls (the tail, then the records, with *)
(* whatever was appended in between), appends only at the tail it expects, *)
(* and applies an operation in a transaction whose snapshot is taken when  *)
(* it asks for the advisory lock, not when it gets it.  A pass may be      *)
(* abandoned anywhere (a crash, a lost connection, a call given up); its   *)
(* append may still land and its commit may still happen, later.           *)
(*                                                                         *)
(* Left to Reconciler: locks between the graphs of one process, reports,   *)
(* checkpoint saves, retirement, newer levels.  A checkpoint is saved with *)
(* the step before it; a crash in between is an append that lands after    *)
(* its pass was abandoned.  The plan of a failed validation is dropped.    *)
(***************************************************************************)
EXTENDS Target, OperationJournal

CONSTANTS
  Connectors,      \* connector processes
  InitialTargets,
  MaxTail,         \* BOUND: records in the stream
  MaxSessions      \* BOUND: open database sessions

ASSUME BoundsAreTyped == MaxTail \in Nat /\ MaxSessions \in Nat

ASSUME TargetsAreTyped == InitialTargets \subseteq TargetStates

ASSUME PlanIdsAreTails == 1 .. MaxTail \subseteq PlanIds

ASSUME NoneIsNoClient == None \notin Connectors

VARIABLES
  level,     \* the level a connector has accepted, or None
  plan,      \* the plan it retains, in its checkpoint ("propose": in memory), or None
  pc,        \* where its pass is
  at,        \* the sequence number its next append has to match
  seen,      \* what it has folded, its own appends included
  tail,      \* the stream's next sequence number
  journal,   \* the stream's records, folded
  flying,    \* events whose append was abandoned and may still land
  sessions,  \* transactions that asked for the advisory lock, its holder first
  target     \* the committed database

vars == <<level, plan, pc, at, seen, tail, journal, flying, sessions, target>>
stream == <<tail, journal, flying>>
database == <<sessions, target>>

(* JournalSnapshot without its tail.                                       *)
Fold(j) == [bindings |-> j.bindings, operations |-> j.operations]

Init ==
  /\ level = [p \in Connectors |-> None]
  /\ plan = [p \in Connectors |-> None]
  /\ pc = [p \in Connectors |-> "idle"]
  /\ at = [p \in Connectors |-> 0]
  /\ seen = [p \in Connectors |-> Fold(EmptyJournal)]
  /\ tail = 0
  /\ journal = EmptyJournal
  /\ flying = {}
  /\ sessions = << >>
  /\ target \in InitialTargets

-----------------------------------------------------------------------------
(* Helpers *)

Goto(p, label) == pc' = [pc EXCEPT ![p] = label]

(* The pass ends; what it had read is forgotten.                           *)
EndPass(p) ==
  /\ Goto(p, "idle")
  /\ at' = [at EXCEPT ![p] = 0]
  /\ seen' = [seen EXCEPT ![p] = Fold(EmptyJournal)]

Retain(p, x) == plan' = [plan EXCEPT ![p] = x]

(* A plan's identity covers the tail after its own PlanCreated record, and *)
(* only one such record can land there: that tail identifies the plan.     *)
PlanOf(d, op, observed, next) == [id |-> next, slice |-> d, op |-> op, observed |-> observed]

(* Faulty variant: bound to the tail before the plan's own record.         *)
TailBeforePlan(p) == at[p]

TailAfterPlan(p) == at[p] + 1

(* Core gives every connector of a graph the same level.                   *)
Accept(p, d) ==
  /\ level[p] = None
  /\ \A q \in Connectors : level[q] # None /\ level[q].graph = d.graph => level[q] = d
  /\ level' = [level EXCEPT ![p] = d]
  /\ UNCHANGED <<plan, pc, at, seen, stream, database>>

-----------------------------------------------------------------------------
(* load: check_tail, then reads until the tail is reached.  The last batch *)
(* returns what the stream holds by then, records after the tail included; *)
(* where the tail was zero nothing is read.                                *)

Loads == {"idle", "stale?", "failed?"}

CheckTail(p) ==
  /\ level[p] # None
  /\ pc[p] \in Loads
  /\ at' = [at EXCEPT ![p] = tail]
  /\ Goto(p, CASE pc[p] = "idle" -> "read"
               [] pc[p] = "stale?" -> "read stale"
               [] pc[p] = "failed?" -> "read failed")
  /\ UNCHANGED <<level, plan, seen, stream, database>>

Records(p) == IF at[p] = 0 THEN EmptyJournal ELSE journal

Read(p, label) ==
  /\ pc[p] = label
  /\ seen' = [seen EXCEPT ![p] = Fold(Records(p))]
  /\ UNCHANGED <<level, at, stream, database>>

(* The load before a PlanStale or an OperationFailed receipt.              *)
ReadAgain(p) ==
  /\ \/ Read(p, "read stale") /\ Goto(p, "stale")
     \/ Read(p, "read failed") /\ Goto(p, "fail")
  /\ UNCHANGED plan

ReadRefused(p) ==
  /\ pc[p] = "read"
  /\ DesiredIsRefused(level[p], Records(p).bindings)
  /\ Retain(p, None)
  /\ EndPass(p)
  /\ UNCHANGED <<level, stream, database>>

FenceHolds(p) == at[p] = plan[p].id \/ StartedBy(Records(p), plan[p].op, plan[p].id)

ReadPlan(p) ==
  /\ Read(p, "read")
  /\ ~DesiredIsRefused(level[p], Records(p).bindings)
  /\ plan[p] # None
  /\ Goto(p, IF ~FenceHolds(p) THEN "stale"
             ELSE IF plan[p].op.kind # "bind" THEN "observe"
             ELSE IF Known(Records(p), plan[p].op) THEN "bind" ELSE "start")
  /\ UNCHANGED plan

ReadFresh(p) ==
  /\ Read(p, "read")
  /\ ~DesiredIsRefused(level[p], Records(p).bindings)
  /\ plan[p] = None
  /\ Goto(p, "plan")
  /\ UNCHANGED plan

-----------------------------------------------------------------------------
(* append: compare-and-append at the expected tail.                        *)

Appends == {"stale", "start", "bind", "succeed", "fail", "propose"}

Event(p) ==
  LET op == plan[p].op IN
  CASE pc[p] = "stale"   -> PlanStale(plan[p].id)
    [] pc[p] = "start"   -> OperationStarted(plan[p].id, op)
    [] pc[p] = "bind"    -> BindingEstablished(BindingFor(plan[p].slice, op.context))
    [] pc[p] = "succeed" -> OperationSucceeded(plan[p].id, op)
    [] pc[p] = "fail"    -> OperationFailed(plan[p].id, op)
    [] pc[p] = "propose" -> PlanCreated(plan[p].id)

(* Faulty variant: an append without match_seq_num.                        *)
AnyTail(expected) == TRUE

Matches(expected) == expected = tail

(* An append that lands makes every other one in flight miss the tail.     *)
Land(event) ==
  /\ tail < MaxTail
  /\ journal' = Appended(journal, event)
  /\ tail' = tail + 1
  /\ flying' = {}

AppendLands(p) ==
  /\ pc[p] \in Appends
  /\ Matches(at[p])
  /\ Land(Event(p))
  /\ \/ /\ pc[p] \in {"start", "bind"}
        /\ at' = [at EXCEPT ![p] = tail + 1]
        /\ seen' = [seen EXCEPT ![p] = Fold(Appended(journal, Event(p)))]
        /\ Goto(p, IF pc[p] = "bind" THEN "succeed"
                   ELSE IF plan[p].op.kind = "bind" THEN "bind" ELSE "begin")
        /\ UNCHANGED plan
     \/ /\ pc[p] = "propose"
        /\ EndPass(p)
        /\ UNCHANGED plan
     \/ /\ pc[p] \in {"stale", "succeed", "fail"}
        /\ EndPass(p)
        /\ Retain(p, None)
  /\ UNCHANGED <<level, database>>

(* CasConflict: the pass ends with an error, its plan stays.               *)
AppendConflicts(p) ==
  /\ pc[p] \in Appends
  /\ ~Matches(at[p])
  /\ EndPass(p)
  /\ Retain(p, IF pc[p] = "propose" THEN None ELSE plan[p])
  /\ UNCHANGED <<level, stream, database>>

(* An append its writer no longer waits for arrives at the tail it expects. *)
LandsLate ==
  \E event \in flying :
    /\ Land(event)
    /\ UNCHANGED <<level, plan, pc, at, seen, database>>

-----------------------------------------------------------------------------
(* Observation outside a transaction, and planning *)

(* Faulty variant: the receipt alone counts, the target is not observed.   *)
RecoveredUnseen(p) == StartedBy(seen[p], plan[p].op, plan[p].id)

Recovered(p) ==
  /\ StartedBy(seen[p], plan[p].op, plan[p].id)
  /\ OperationSatisfied(plan[p].op, Observe(target, level[p]))

ObserveForApply(p) ==
  /\ pc[p] = "observe"
  /\ Goto(p, IF Recovered(p) THEN "succeed"
             ELSE IF Known(seen[p], plan[p].op) THEN "begin" ELSE "start")
  /\ UNCHANGED <<level, plan, at, seen, stream, database>>

(* The pass reports that the level is refused, or that nothing is left.    *)
NothingToPlan(p) ==
  LET observed == Observe(target, level[p]) IN
  /\ pc[p] = "plan"
  /\ PlanIsRefused(level[p], observed) \/ Converged(level[p], seen[p].bindings, observed)
  /\ EndPass(p)
  /\ UNCHANGED <<level, plan, stream, database>>

Propose(p) ==
  LET observed == Observe(target, level[p]) IN
  /\ pc[p] = "plan"
  /\ at[p] < MaxTail
  /\ ~PlanIsRefused(level[p], observed)
  /\ \E op \in First(Outstanding(level[p], seen[p].bindings, observed)) :
       Retain(p, PlanOf(level[p], op, observed, TailAfterPlan(p)))
  /\ Goto(p, "propose")
  /\ UNCHANGED <<level, at, seen, stream, database>>

-----------------------------------------------------------------------------
(* apply: one serializable transaction.  Its snapshot is the database at   *)
(* its first statement, the one that then waits for the advisory lock.     *)

Begin(p) ==
  /\ pc[p] = "begin"
  /\ Len(sessions) < MaxSessions
  /\ sessions' = Append(sessions, [client |-> p, plan |-> plan[p], snapshot |-> target,
                                   stage |-> "waiting"])
  /\ Goto(p, "apply")
  /\ UNCHANGED <<level, plan, at, seen, stream, target>>

Without(s, i) == [j \in 1 .. Len(s) - 1 |-> IF j < i THEN s[j] ELSE s[j + 1]]

(* Faulty variant: no advisory lock.                                       *)
NeedsNoLock(i) == TRUE

HoldsLock(i) == i = 1

(* What the transaction observes: tables through its snapshot; whether the *)
(* ledger exists (to_regclass) and the privileges (has_schema_privilege)   *)
(* through the catalog caches, which follow the latest commit.             *)
Visible(s) == [s.snapshot EXCEPT !.metadata = target.metadata, !.anonRead = target.anonRead,
                                 !.open = target.open]

Fresh(s) == Observe(Visible(s), s.plan.slice) = s.plan.observed

(* Serializable transactions that both read the ledger and both insert     *)
(* into it cannot both commit; the catalogs take no part in this.          *)
SerializationFails(s) ==
  s.plan.op.kind = "migration" /\ s.snapshot.receipts # target.receipts

(* What PostgreSQL refuses whatever else happens.                          *)
IsRefused(s) == ~CanExecute(target, s.plan.op) \/ SerializationFails(s)

Waiting(i) == /\ i \in 1 .. Len(sessions)
              /\ HoldsLock(i)
              /\ sessions[i].stage = "waiting"
              /\ sessions[i].client # None

TurnIsStale(i) ==
  /\ Waiting(i)
  /\ ~Fresh(sessions[i])
  /\ sessions' = Without(sessions, i)
  /\ Goto(sessions[i].client, "stale?")
  /\ UNCHANGED <<level, plan, at, seen, stream, target>>

(* The observation or the operation gets a database error: a refusal, or   *)
(* any other, of which the code cannot tell it.                            *)
TurnIsRefused(i) ==
  /\ Waiting(i)
  /\ sessions' = Without(sessions, i)
  /\ Goto(sessions[i].client, "failed?")
  /\ UNCHANGED <<level, plan, at, seen, stream, target>>

(* The operation is executed and COMMIT is sent.                           *)
TurnExecutes(i) ==
  /\ Waiting(i)
  /\ Fresh(sessions[i])
  /\ ~IsRefused(sessions[i])
  /\ sessions' = [sessions EXCEPT ![i].stage = "committing"]
  /\ UNCHANGED <<level, plan, pc, at, seen, stream, target>>

Committing(i) == i \in 1 .. Len(sessions) /\ sessions[i].stage = "committing"

(* A client that is still there goes on.                                   *)
Answer(client, label) == IF client = None THEN UNCHANGED pc ELSE Goto(client, label)

(* The server commits, whether or not its client still is there.  A client *)
(* observes again, and takes a database error of that for a refusal.       *)
Commits(i) ==
  /\ Committing(i)
  /\ target' = Execute(target, sessions[i].plan.op)
  /\ sessions' = Without(sessions, i)
  /\ \E label \in {"succeed", "failed?"} : Answer(sessions[i].client, label)
  /\ UNCHANGED <<level, plan, at, seen, stream>>

(* COMMIT itself gets a database error, and nothing is committed.          *)
CommitFails(i) ==
  /\ Committing(i)
  /\ sessions' = Without(sessions, i)
  /\ Answer(sessions[i].client, "failed?")
  /\ UNCHANGED <<level, plan, at, seen, stream, target>>

(* The server finds the client of an unfinished transaction gone.          *)
OrphanEnds(i) ==
  /\ i \in 1 .. Len(sessions)
  /\ sessions[i].client = None
  /\ sessions[i].stage = "waiting"
  /\ sessions' = Without(sessions, i)
  /\ UNCHANGED <<level, plan, pc, at, seen, stream, target>>

-----------------------------------------------------------------------------
(* The process crashes, or the pass ends with an error, wherever it is: an *)
(* append on its way may still land, and the database session lives on     *)
(* without its client.                                                     *)
Abandon(p) ==
  /\ pc[p] # "idle"
  /\ EndPass(p)
  /\ Retain(p, IF pc[p] = "propose" THEN None ELSE plan[p])
  /\ \/ UNCHANGED flying
     \/ /\ pc[p] \in Appends
        /\ Matches(at[p])
        /\ flying' = flying \cup {Event(p)}
  /\ sessions' = [i \in DOMAIN sessions |->
                    IF sessions[i].client = p THEN [sessions[i] EXCEPT !.client = None]
                    ELSE sessions[i]]
  /\ UNCHANGED <<level, tail, journal, target>>

-----------------------------------------------------------------------------
PassStep(p) ==
  \/ \E d \in Slices : Accept(p, d)
  \/ CheckTail(p) \/ ReadAgain(p) \/ ReadRefused(p) \/ ReadPlan(p) \/ ReadFresh(p)
  \/ AppendLands(p) \/ AppendConflicts(p)
  \/ ObserveForApply(p) \/ NothingToPlan(p) \/ Propose(p) \/ Begin(p)

Turn(i) ==
  \/ TurnIsStale(i) \/ TurnIsRefused(i) \/ TurnExecutes(i)
  \/ Commits(i) \/ CommitFails(i) \/ OrphanEnds(i)

Next ==
  \/ \E p \in Connectors : PassStep(p) \/ Abandon(p)
  \/ LandsLate
  \/ \E i \in 1 .. MaxSessions : Turn(i)

Spec == Init /\ [][Next]_vars

-----------------------------------------------------------------------------
(* Type invariant *)

Labels == {"idle", "read", "stale?", "read stale", "failed?", "read failed", "observe", "plan",
           "begin", "apply"} \cup Appends

Plans == [id : 1 .. MaxTail, slice : Slices, op : Operations, observed : ObservedTargets]

ASSUME NoneIsNoPlan == None \notin Plans

Sessions == [client : Connectors \cup {None}, plan : Plans, snapshot : TargetStates,
             stage : {"waiting", "committing"}]

(* Every variable keeps its shape, and the stream and the sessions their   *)
(* bounds.                                                                 *)
TypeOK ==
  /\ level \in [Connectors -> Slices \cup {None}]
  /\ plan \in [Connectors -> Plans \cup {None}]
  /\ pc \in [Connectors -> Labels]
  /\ at \in [Connectors -> 0 .. MaxTail]
  /\ tail \in 0 .. MaxTail
  /\ JournalTyped(journal)
  /\ sessions \in Seq(Sessions)
  /\ target \in TargetStates

-----------------------------------------------------------------------------
(* Safety *)

(* A record that a connector appends extends exactly the journal it has    *)
(* folded: nothing it has not seen is in front of it, although records may *)
(* be appended between its two reads, between its read and its append, and *)
(* by passes that no longer exist.                                         *)
ExtendsWhatItSaw ==
  [][\A p \in Connectors : AppendLands(p) => seen[p] = Fold(journal)]_vars

(* The tail a plan was bound to is the tail of the stream exactly when the *)
(* plan's PlanCreated is the last record: comparing numbers, as the code   *)
(* does, and comparing the last plan, as Reconciler does, is the same.     *)
FenceIsTheTail ==
  \A p \in Connectors :
    plan[p] # None /\ pc[p] # "propose" =>
      (plan[p].id = tail <=> journal.fence = plan[p].id)

(* All bindings belong to one graph, with no lock between the connectors   *)
(* that check for an owner and then claim the target.                      *)
ExclusiveOwner == \A b, c \in journal.bindings : b.graph = c.graph

(* While a migration is about to commit, the ledger is the one its plan    *)
(* was made from: the snapshot may be older than the advisory lock, but no *)
(* migration runs on a ledger that has moved.                              *)
MigrationsAreFresh ==
  \A i \in 1 .. Len(sessions) :
    LET s == sessions[i] IN
    s.stage = "committing" /\ s.plan.op.kind = "migration" =>
      Observe(target, s.plan.slice).receipts = s.plan.observed.receipts

(* A success receipt lands only while the postcondition holds, whoever     *)
(* brought it about.                                                       *)
SucceededIsTrue ==
  [][\A p \in Connectors :
       LET op == plan[p].op IN
       AppendLands(p) /\ pc[p] = "succeed" =>
         IF op.kind = "bind"
         THEN BindingFor(plan[p].slice, op.context) \in journal.bindings
         ELSE OperationSatisfied(op, Observe(target, plan[p].slice))]_vars

(* The connectors together are the loop of Convergence: every step that    *)
(* changes the bindings or the database is the first outstanding operation *)
(* of a level, judged by the bindings and the database of that moment.     *)
(* What runs on a stale snapshot is refused or changes nothing.            *)
LevelOf(g) ==
  IF \E p \in Connectors : level[p] # None /\ level[p].graph = g
  THEN level[CHOOSE p \in Connectors : level[p] # None /\ level[p].graph = g]
  ELSE None
Promise == INSTANCE Convergence WITH
  bindings <- journal.bindings,
  target <- target,
  level <- [g \in Graphs |-> LevelOf(g)]
ImplementsConvergence == Promise!Spec

(* target.rs, apply: "Apply one exact operation after a serializable,      *)
(* locked freshness check."  When an operation commits, the database is     *)
(* what its plan observed.                                                 *)
CommitsAreFresh ==
  [][\A i \in 1 .. MaxSessions :
       Commits(i) => Observe(target, sessions[i].plan.slice) = sessions[i].plan.observed]_vars

=============================================================================
