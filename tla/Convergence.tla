---------------------------- MODULE Convergence ----------------------------
(***************************************************************************)
(* What the connector promises, without saying how: each accepted level is *)
(* brought about one operation at a time, always the first one outstanding *)
(* against current bindings and current target, and only by the graph that *)
(* no other graph's binding excludes.  Plans, receipts, reports, retries,  *)
(* crashes and locks are invisible at this level; Reconciler implements    *)
(* this specification.                                                     *)
(***************************************************************************)
EXTENDS Target, OperationJournal

CONSTANT InitialTargets

ASSUME TargetsAreTyped == InitialTargets \subseteq TargetStates

VARIABLES
  bindings,   \* the resource identities claimed
  target,     \* the database
  level       \* the level accepted for each graph, or None

vars == <<bindings, target, level>>

Init ==
  /\ bindings = {}
  /\ target \in InitialTargets
  /\ level = [g \in Graphs |-> None]

(* Core moves a graph to a newer level.                                    *)
Accept(d) ==
  LET current == level[d.graph] IN
  /\ current # None => /\ d.sequence > current.sequence
                       /\ d.generation >= current.generation
  /\ level' = [level EXCEPT ![d.graph] = d]
  /\ UNCHANGED <<bindings, target>>

(* The operations the level asks for next: none while it is refused.       *)
NextOperations(g) ==
  LET observed == Observe(target, level[g]) IN
  IF DesiredIsRefused(level[g], bindings) \/ PlanIsRefused(level[g], observed)
  THEN {}
  ELSE First(Outstanding(level[g], bindings, observed))

Bind(g) ==
  /\ level[g] # None
  /\ \E op \in NextOperations(g) :
       /\ op.kind = "bind"
       /\ bindings' = Claim(bindings, BindingFor(level[g], op.context))
  /\ UNCHANGED <<target, level>>

Advance(g) ==
  /\ level[g] # None
  /\ \E op \in NextOperations(g) :
       /\ op.kind # "bind"
       /\ CanExecute(target, op)
       /\ target' = Execute(target, op)
  /\ UNCHANGED <<bindings, level>>

(* Retirement releases the bindings, then forgets the level.               *)
ReleaseGraph(g) ==
  /\ level[g] # None
  /\ bindings' = Release(bindings, g)
  /\ UNCHANGED <<target, level>>

Forget(g) ==
  /\ \A b \in bindings : b.graph # g
  /\ level' = [level EXCEPT ![g] = None]
  /\ UNCHANGED <<bindings, target>>

Drift ==
  /\ target' \in Drifted(target)
  /\ UNCHANGED <<bindings, level>>

Step == \E g \in Graphs : Bind(g) \/ Advance(g)

Next ==
  \/ Step
  \/ \E d \in Slices : Accept(d)
  \/ \E g \in Graphs : ReleaseGraph(g) \/ Forget(g)
  \/ Drift

Spec == Init /\ [][Next]_vars

-----------------------------------------------------------------------------
(* The promise by itself, when nobody else changes the target and core     *)
(* does not retire the graph: operations keep being applied.               *)
Undisturbed == Step \/ \E d \in Slices : Accept(d)

FairSpec ==
  /\ Init
  /\ [][Undisturbed]_vars
  /\ \A g \in Graphs : WF_vars(Bind(g)) /\ WF_vars(Advance(g))

RefusedLevel(g) ==
  \/ DesiredIsRefused(level[g], bindings)
  \/ PlanIsRefused(level[g], Observe(target, level[g]))

(* From whatever target the connector is pointed at, applying the first    *)
(* outstanding operation over and over comes to an end, with the level     *)
(* converged or refused: no operation undoes what another one needs, and   *)
(* none is proposed again once it has been applied.                        *)
LevelsConverge ==
  \A g \in Graphs :
    <>[](level[g] # None =>
           RefusedLevel(g) \/ Converged(level[g], bindings, Observe(target, level[g])))

(* The operation to apply next is one the database accepts: whatever is in *)
(* the target, no receipt is inserted twice or without its ledger, and no  *)
(* schema is granted before it exists.                                     *)
NextIsExecutable ==
  \A g \in Graphs : level[g] # None =>
    \A op \in NextOperations(g) : op.kind # "bind" => CanExecute(target, op)

(* For the level of a graph that the target may be of, a migration is      *)
(* applied only to an existing schema, after every earlier migration its   *)
(* component declares, and the API is opened only when every migration of  *)
(* the level is in the ledger.                                             *)
ReceiptOrder ==
  [][\A g \in Graphs : level[g] # None /\ ~TargetOwned(level[g], bindings) =>
       \A c \in DesiredContexts(level[g]) :
       /\ \A j \in DOMAIN c.migrations :
            /\ ~Receipted(c, c.migrations[j], target)
            /\ Receipted(c, c.migrations[j], target')
            => /\ c.schema \in target.schemas
               /\ \A i \in 1 .. j - 1 : Receipted(c, c.migrations[i], target)
       /\ target'.exposed # target.exposed =>
            \A m \in MigrationsOf(c) : Receipted(c, m, target)]_vars
=============================================================================
