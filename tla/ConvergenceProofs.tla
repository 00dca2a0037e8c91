------------------------- MODULE ConvergenceProofs -------------------------
(***************************************************************************)
(* Theorems about Convergence, for every database, every level and any     *)
(* number of graphs.                                                       *)
(***************************************************************************)
EXTENDS Convergence, PlannerProofs

(* A migration comes first only when the ledger exists and lacks it.       *)
LEMMA MigrationExecutable ==
  ASSUME NEW t, NEW d, NEW bindings_,
         NEW op \in First(Outstanding(d, bindings_, Observe(t, d))),
         op.kind = "migration"
  PROVE  t.metadata /\ ~Receipted(op.context, op.migration, t)
<1> DEFINE observed == Observe(t, d)
<1>1. PICK c \in DesiredContexts(d) : \E m \in MigrationsOf(c) :
        op = ApplyMigration(d, c, m) /\ ~Receipted(c, m, observed)
  BY OutstandingShapes DEF EstablishBinding, EnsureMetadata, EnsureSchema, ConfigureApi, Op
<1>2. PICK m \in MigrationsOf(c) : op = ApplyMigration(d, c, m) /\ ~Receipted(c, m, observed)
  BY <1>1
<1>3. op.context = c /\ op.migration = m
  BY <1>2 DEF ApplyMigration, Op
<1>4. PICK s \in Outstanding(d, bindings_, observed) :
        /\ op = s.op
        /\ \A y \in Outstanding(d, bindings_, observed) : y = s \/ Before(s, y)
  BY FirstIsFirst
<1>5. \E i, j, k : i \in Nat /\ 2 < i /\ s = Ranked(i, j, k, op)
  BY <1>4 DEF Outstanding, BindSteps, MetadataSteps, SchemaSteps, MigrationSteps, ApiSteps, Ranked,
              EstablishBinding, EnsureMetadata, Op
<1>6. observed.metadata
  <2> SUFFICES ASSUME ~observed.metadata PROVE FALSE
    OBVIOUS
  <2>1. Ranked(2, 0, 0, EnsureMetadata(d)) \in Outstanding(d, bindings_, observed)
    BY DEF Outstanding, MetadataSteps
  <2> QED
    BY <1>4, <1>5, <2>1, EarlierPhaseFirst
<1>7. t.metadata /\ observed.receipts = t.receipts
  BY <1>6 DEF Observe
<1> QED
  BY <1>2, <1>3, <1>7 DEF Receipted

(* The API comes first only when every schema of the level exists.         *)
LEMMA ApiExecutable ==
  ASSUME NEW t, NEW d, NEW bindings_,
         NEW op \in First(Outstanding(d, bindings_, Observe(t, d))),
         op.kind = "api"
  PROVE  PolicySchemas(op) \subseteq t.schemas
<1> DEFINE observed == Observe(t, d)
<1>1. op.digest.content = d.content
  BY OutstandingShapes DEF EstablishBinding, EnsureMetadata, EnsureSchema, ApplyMigration,
                           ConfigureApi, Op, DesiredDigest
<1>2. PICK s \in Outstanding(d, bindings_, observed) :
        /\ op = s.op
        /\ \A y \in Outstanding(d, bindings_, observed) : y = s \/ Before(s, y)
  BY FirstIsFirst
<1>3. s = Ranked(4, 0, 0, op)
  BY <1>2 DEF Outstanding, BindSteps, MetadataSteps, SchemaSteps, MigrationSteps, ApiSteps, Ranked,
              EstablishBinding, EnsureMetadata, EnsureSchema, ApplyMigration, Op
<1>4. ASSUME NEW i \in DOMAIN ComponentsOf(d)
      PROVE  ComponentsOf(d)[i].schema \in observed.schemas
  <2> SUFFICES ASSUME ComponentsOf(d)[i].schema \notin observed.schemas PROVE FALSE
    OBVIOUS
  <2>1. Ranked(3, i, 0, EnsureSchema(d, ComponentsOf(d)[i])) \in Outstanding(d, bindings_, observed)
    BY DEF Outstanding, SchemaSteps
  <2> QED
    BY <1>2, <1>3, <2>1, EarlierPhaseFirst
<1>5. \A c \in DesiredContexts(d) : c.schema \in t.schemas
  BY <1>4 DEF Observe, DesiredContexts, ContextsOf, ComponentsOf
<1> QED
  BY <1>1, <1>5 DEF PolicySchemas, PolicyContexts, DesiredContexts

(* Whatever is in the target and the journal, the operation a level asks   *)
(* for next is one the database accepts.                                   *)
LEMMA AlwaysExecutable == NextIsExecutable
<1> SUFFICES ASSUME NEW g \in Graphs, NEW op \in NextOperations(g)
             PROVE  CanExecute(target, op)
  BY DEF NextIsExecutable
<1>1. op \in First(Outstanding(level[g], bindings, Observe(target, level[g])))
  BY DEF NextOperations
<1> QED
  BY <1>1, MigrationExecutable, ApiExecutable DEF CanExecute

(* The planning loop never proposes what the database refuses.             *)
THEOREM ExecutableCorrect == Spec => []NextIsExecutable
  BY AlwaysExecutable, PTL

-----------------------------------------------------------------------------
(* The order of the receipts *)

(* What comes first is a step of the level, at its place, and nothing that *)
(* is outstanding has an earlier one.                                      *)
LEMMA MigrationComesFirst ==
  ASSUME NEW d \in Slices, NEW bindings_, NEW observed,
         \A c \in DesiredContexts(d) : ~PlanIssues(c),
         NEW op \in First(Outstanding(d, bindings_, observed)), op.kind = "migration",
         NEW c \in DesiredContexts(d), op.context.resource = c.resource,
         NEW j \in DOMAIN c.migrations, op.migration.id = c.migrations[j].id
  PROVE  /\ c.schema \in observed.schemas
         /\ \A i \in 1 .. j - 1 : Receipted(c, c.migrations[i], observed)
<1>1. PICK s \in Outstanding(d, bindings_, observed) :
        /\ op = s.op
        /\ \A y \in Outstanding(d, bindings_, observed) : y = s \/ Before(s, y)
  BY FirstIsFirst
<1>2. s \in MigrationSteps(d, observed)
  BY <1>1 DEF Outstanding, BindSteps, MetadataSteps, SchemaSteps, ApiSteps, Ranked,
              EstablishBinding, EnsureMetadata, EnsureSchema, ConfigureApi, Op
<1>3. PICK l \in DOMAIN ComponentsOf(d) :
        s \in {Ranked(3, l, k, ApplyMigration(d, ComponentsOf(d)[l],
                                             ComponentsOf(d)[l].migrations[k])) :
                k \in {x \in DOMAIN ComponentsOf(d)[l].migrations :
                        ~Receipted(ComponentsOf(d)[l], ComponentsOf(d)[l].migrations[x], observed)}}
  BY <1>2 DEF MigrationSteps
<1>4. PICK k \in DOMAIN ComponentsOf(d)[l].migrations :
        s = Ranked(3, l, k, ApplyMigration(d, ComponentsOf(d)[l],
                                          ComponentsOf(d)[l].migrations[k]))
  BY <1>3
<1>5. op.context = ComponentsOf(d)[l] /\ op.migration = ComponentsOf(d)[l].migrations[k]
  BY <1>1, <1>4 DEF Ranked, ApplyMigration, Op
<1>6. ComponentsOf(d)[l] = c /\ c \in Contexts
  <2>1. ComponentsOf(d)[l] \in DesiredContexts(d) /\ d.content \in Contents
    BY SlicesAreTyped DEF DesiredContexts, ContextsOf, ComponentsOf
  <2> QED
    BY <1>5, <2>1, ContextsAreDistinct, SlicesAreDescribed DEF DesiredContexts
<1>7. /\ l \in Nat /\ k \in Nat /\ j \in Nat /\ DOMAIN c.migrations = 1 .. Len(c.migrations)
      /\ Len(c.migrations) \in Nat /\ 1 <= k /\ k <= Len(c.migrations)
  BY <1>4, <1>6, ContentsAreOrdered, SlicesAreTyped DEF ComponentsOf
<1>8. k = j
  <2>1. k \in DOMAIN c.migrations /\ c.migrations[k].id = c.migrations[j].id
    BY <1>4, <1>5, <1>6
  <2>2. c.migrations[j].id \in Nat
    BY <1>6, ContextsAreTyped DEF MigrationsOf
  <2>3. ~(k < j) /\ ~(j < k)
    BY <1>6, <2>1, <2>2, IdsIncrease
  <2> QED
    BY <1>7, <2>3
<1>9. c.schema \in observed.schemas
  <2> SUFFICES ASSUME c.schema \notin observed.schemas PROVE FALSE
    OBVIOUS
  <2>1. Ranked(3, l, 0, EnsureSchema(d, c)) \in Outstanding(d, bindings_, observed)
    BY <1>6 DEF Outstanding, SchemaSteps
  <2> QED
    BY <1>1, <1>4, <1>7, <2>1 DEF Ranked, Before
<1>10. ASSUME NEW i \in 1 .. j - 1 PROVE Receipted(c, c.migrations[i], observed)
  <2> SUFFICES ASSUME ~Receipted(c, c.migrations[i], observed) PROVE FALSE
    OBVIOUS
  <2>0. i \in Nat /\ i < j /\ i \in DOMAIN c.migrations
    BY <1>7, <1>8
  <2>1. Ranked(3, l, i, ApplyMigration(d, c, c.migrations[i])) \in MigrationSteps(d, observed)
    BY <1>6, <2>0 DEF MigrationSteps
  <2>2. Ranked(3, l, i, ApplyMigration(d, c, c.migrations[i]))
          \in Outstanding(d, bindings_, observed)
    BY <2>1 DEF Outstanding
  <2> QED
    BY <1>1, <1>4, <1>7, <1>8, <2>0, <2>2 DEF Ranked, Before
<1> QED
  BY <1>9, <1>10

(* When the API comes first, every migration of the level has its receipt. *)
LEMMA ApiComesLast ==
  ASSUME NEW d, NEW bindings_, NEW observed,
         NEW op \in First(Outstanding(d, bindings_, observed)), op.kind = "api",
         NEW c \in DesiredContexts(d), NEW m \in MigrationsOf(c)
  PROVE  Receipted(c, m, observed)
<1> SUFFICES ASSUME ~Receipted(c, m, observed) PROVE FALSE
  OBVIOUS
<1>1. PICK i \in DOMAIN ComponentsOf(d) : c = ComponentsOf(d)[i]
  BY DEF DesiredContexts, ContextsOf, ComponentsOf
<1>2. PICK j \in DOMAIN c.migrations : m = c.migrations[j]
  BY DEF MigrationsOf
<1>3. Ranked(3, i, j, ApplyMigration(d, c, m)) \in MigrationSteps(d, observed)
  BY <1>1, <1>2 DEF MigrationSteps
<1>4. Ranked(3, i, j, ApplyMigration(d, c, m)) \in ApiSteps(d, bindings_, observed)
  BY <1>3, ApiIsAlone DEF Outstanding
<1> QED
  BY <1>4 DEF ApiSteps, Ranked

(* The level of a graph is a slice of that graph, the target is one.       *)
LevelInv ==
  /\ level \in [Graphs -> Slices \cup {None}]
  /\ \A g \in Graphs : level[g] # None => level[g].graph = g
  /\ target \in TargetStates

(* Accepting a level and working on one keep levels and target typed.      *)
LEMMA LevelInvInductive == LevelInv /\ [Undisturbed]_vars => LevelInv'
<1> SUFFICES ASSUME LevelInv, [Undisturbed]_vars PROVE LevelInv'
  OBVIOUS
<1>1. ASSUME NEW g \in Graphs, Bind(g) PROVE LevelInv'
  BY <1>1 DEF LevelInv, Bind
<1>2. ASSUME NEW g \in Graphs, Advance(g) PROVE LevelInv'
  <2>1. PICK op \in NextOperations(g) : target' = Execute(target, op)
    BY <1>2 DEF Advance
  <2>2. level[g] \in Slices
    BY <1>2 DEF LevelInv, Advance
  <2>3. op \in First(Outstanding(level[g], bindings, Observe(target, level[g])))
    BY DEF NextOperations
  <2>4. target' \in TargetStates
    BY <2>1, <2>2, <2>3, ObserveTyped, FirstTyped, ExecuteTyped DEF LevelInv
  <2> QED
    BY <1>2, <2>4 DEF LevelInv, Advance
<1>3. ASSUME NEW d \in Slices, Accept(d) PROVE LevelInv'
  BY <1>3, SlicesAreTyped, NoneIsNoValue DEF LevelInv, Accept
<1>4. CASE UNCHANGED vars
  BY <1>4 DEF vars, LevelInv
<1> QED
  BY <1>1, <1>2, <1>3, <1>4 DEF Undisturbed, Step

(* Whoever advances the target owns it: the level of any other graph with  *)
(* a component would be refused.                                           *)
LEMMA OnlyTheOwnerAdvances ==
  ASSUME LevelsHaveComponents, LevelInv, NEW h \in Graphs, Advance(h),
         NEW g \in Graphs, level[g] # None, ~TargetOwned(level[g], bindings)
  PROVE  g = h
<1>1. PICK op \in NextOperations(h) : op.kind # "bind"
  BY DEF Advance
<1>2. /\ op \in First(Outstanding(level[h], bindings, Observe(target, level[h])))
      /\ ~TargetOwned(level[h], bindings)
  BY DEF NextOperations, DesiredIsRefused
<1>3. level[h] \in Slices /\ level[h].graph = h /\ level[g].graph = g
  BY DEF LevelInv, Advance
<1>4. PICK c \in DesiredContexts(level[h]) : Bound(c, bindings)
  BY <1>1, <1>2, <1>3, BoundBeforeApplied DEF LevelsHaveComponents
<1>5. PICK b \in bindings : b.resource = c.resource
  BY <1>4 DEF Bound
<1> QED
  BY <1>2, <1>3, <1>5 DEF TargetOwned

(* One step of the loop applies a migration to an existing schema, in the  *)
(* declared order, and opens the API after the last.                       *)
LEMMA ReceiptsInOrder ==
  ASSUME LevelsHaveComponents, LevelInv, NEW h \in Graphs, Advance(h),
         NEW g \in Graphs, level[g] # None, ~TargetOwned(level[g], bindings),
         NEW c \in DesiredContexts(level[g])
  PROVE  /\ \A j \in DOMAIN c.migrations :
              /\ ~Receipted(c, c.migrations[j], target)
              /\ Receipted(c, c.migrations[j], target')
              => /\ c.schema \in target.schemas
                 /\ \A i \in 1 .. j - 1 : Receipted(c, c.migrations[i], target)
         /\ target'.exposed # target.exposed =>
              \A m \in MigrationsOf(c) : Receipted(c, m, target)
<1> DEFINE observed == Observe(target, level[g])
<1>1. PICK op \in NextOperations(g) : op.kind # "bind" /\ target' = Execute(target, op)
  BY OnlyTheOwnerAdvances DEF Advance
<1>2. /\ op \in First(Outstanding(level[g], bindings, observed))
      /\ \A x \in DesiredContexts(level[g]) : ~PlanIssues(x)
  BY DEF NextOperations, DesiredIsRefused
<1>3. level[g] \in Slices
  BY DEF LevelInv
<1>4. /\ observed.schemas \subseteq target.schemas
      /\ \A x, m : Receipted(x, m, observed) => Receipted(x, m, target)
  BY DEF Observe, Receipted
<1> HIDE DEF observed
<1>5. ASSUME NEW j \in DOMAIN c.migrations,
             ~Receipted(c, c.migrations[j], target), Receipted(c, c.migrations[j], target')
      PROVE  /\ c.schema \in target.schemas
             /\ \A i \in 1 .. j - 1 : Receipted(c, c.migrations[i], target)
  <2>1. PICK r \in target'.receipts : r.resource = c.resource /\ r.id = c.migrations[j].id
    BY <1>5 DEF Receipted
  <2>2. r \notin target.receipts
    BY <1>5, <2>1 DEF Receipted
  <2>3. op.kind = "migration" /\ r = MatchingReceipt(op.context, op.migration)
    BY <1>1, <2>1, <2>2 DEF LevelInv, TargetStates, Execute
  <2>4. op.context.resource = c.resource /\ op.migration.id = c.migrations[j].id
    BY <2>1, <2>3 DEF MatchingReceipt
  <2> QED
    BY <1>2, <1>3, <1>4, <2>3, <2>4, MigrationComesFirst
<1>6. ASSUME target'.exposed # target.exposed, NEW m \in MigrationsOf(c)
      PROVE  Receipted(c, m, target)
  <2>1. op.kind = "api"
    BY <1>1, <1>6 DEF LevelInv, TargetStates, Execute
  <2> QED
    BY <1>2, <1>4, <2>1, ApiComesLast
<1> QED
  BY <1>5, <1>6

(* Whatever the database held at first, receipts come in the declared      *)
(* order, each in an existing schema, and the API is opened after the last *)
(* migration: the order in which build_plan pushes its operations carries  *)
(* over to all the passes together.                                        *)
THEOREM ReceiptOrderCorrect == LevelsHaveComponents => (FairSpec => ReceiptOrder)
<1> SUFFICES ASSUME LevelsHaveComponents PROVE FairSpec => ReceiptOrder
  OBVIOUS
<1> DEFINE Ordered(g, c) ==
             /\ \A j \in DOMAIN c.migrations :
                  /\ ~Receipted(c, c.migrations[j], target)
                  /\ Receipted(c, c.migrations[j], target')
                  => /\ c.schema \in target.schemas
                     /\ \A i \in 1 .. j - 1 : Receipted(c, c.migrations[i], target)
             /\ target'.exposed # target.exposed =>
                  \A m \in MigrationsOf(c) : Receipted(c, m, target)
           InOrder == \A g \in Graphs : level[g] # None /\ ~TargetOwned(level[g], bindings) =>
                        \A c \in DesiredContexts(level[g]) : Ordered(g, c)
<1>1. Init => LevelInv
  BY TargetsAreTyped DEF Init, LevelInv
<1>2. LevelInv /\ [Undisturbed]_vars => [InOrder]_vars
  <2> SUFFICES ASSUME LevelInv, Undisturbed PROVE InOrder
    OBVIOUS
  <2>1. CASE target' = target
    BY <2>1 DEF Receipted
  <2>2. ASSUME NEW h \in Graphs, Advance(h) PROVE InOrder
    BY <2>2, ReceiptsInOrder
  <2> QED
    BY <2>1, <2>2 DEF Undisturbed, Step, Bind, Accept
<1> QED
  BY <1>1, <1>2, LevelInvInductive, PTL DEF FairSpec, ReceiptOrder
=============================================================================
