--------------------------- MODULE PlannerProofs ---------------------------
(***************************************************************************)
(* Facts about the pure operators, for every content and every target.     *)
(***************************************************************************)
EXTENDS Target, OperationJournal, TLAPS, WellFoundedInduction

(* Every outstanding step of a level carries an operation of that level.   *)
LEMMA OutstandingShapes ==
  ASSUME NEW d, NEW bindings, NEW observed,
         NEW op \in First(Outstanding(d, bindings, observed))
  PROVE  \/ \E c \in DesiredContexts(d) :
              op = EstablishBinding(d, c) /\ ~Bound(c, bindings)
         \/ op = EnsureMetadata(d) /\ ~observed.metadata
         \/ \E c \in DesiredContexts(d) :
              op = EnsureSchema(d, c) /\ c.schema \notin observed.schemas
         \/ \E c \in DesiredContexts(d) : \E m \in MigrationsOf(c) :
              op = ApplyMigration(d, c, m) /\ ~Receipted(c, m, observed)
         \/ /\ op = ConfigureApi(d, WantedExposure(d, bindings, observed))
            /\ \/ WantedExposure(d, bindings, observed) # observed.exposed
               \/ ~GrantsMatch(d, observed)
<1>1. PICK s \in Outstanding(d, bindings, observed) : op = s.op
  BY DEF First
<1>2. CASE s \in BindSteps(d, bindings)
  <2>1. PICK i \in DOMAIN ComponentsOf(d) :
          s = Ranked(1, i, 0, EstablishBinding(d, ComponentsOf(d)[i]))
            /\ ~Bound(ComponentsOf(d)[i], bindings)
    BY <1>2 DEF BindSteps
  <2>2. ComponentsOf(d)[i] \in DesiredContexts(d)
    BY DEF DesiredContexts, ContextsOf, ComponentsOf
  <2> QED
    BY <1>1, <2>1, <2>2 DEF Ranked
<1>3. CASE s \in MetadataSteps(d, observed)
  BY <1>1, <1>3 DEF MetadataSteps, Ranked
<1>4. CASE s \in SchemaSteps(d, observed)
  <2>1. PICK i \in DOMAIN ComponentsOf(d) :
          s = Ranked(3, i, 0, EnsureSchema(d, ComponentsOf(d)[i]))
            /\ ComponentsOf(d)[i].schema \notin observed.schemas
    BY <1>4 DEF SchemaSteps
  <2>2. ComponentsOf(d)[i] \in DesiredContexts(d)
    BY DEF DesiredContexts, ContextsOf, ComponentsOf
  <2> QED
    BY <1>1, <2>1, <2>2 DEF Ranked
<1>5. CASE s \in MigrationSteps(d, observed)
  <2>0. PICK i \in DOMAIN ComponentsOf(d) :
          s \in {Ranked(3, i, j, ApplyMigration(d, ComponentsOf(d)[i],
                                               ComponentsOf(d)[i].migrations[j])) :
                  j \in {k \in DOMAIN ComponentsOf(d)[i].migrations :
                          ~Receipted(ComponentsOf(d)[i], ComponentsOf(d)[i].migrations[k],
                                     observed)}}
    BY <1>5 DEF MigrationSteps
  <2>1. PICK j \in DOMAIN ComponentsOf(d)[i].migrations :
          /\ s = Ranked(3, i, j, ApplyMigration(d, ComponentsOf(d)[i],
                                               ComponentsOf(d)[i].migrations[j]))
          /\ ~Receipted(ComponentsOf(d)[i], ComponentsOf(d)[i].migrations[j], observed)
    BY <2>0
  <2>2. ComponentsOf(d)[i] \in DesiredContexts(d)
    BY DEF DesiredContexts, ContextsOf, ComponentsOf
  <2>3. ComponentsOf(d)[i].migrations[j] \in MigrationsOf(ComponentsOf(d)[i])
    BY DEF MigrationsOf
  <2> QED
    BY <1>1, <2>1, <2>2, <2>3 DEF Ranked
<1>6. CASE s \in ApiSteps(d, bindings, observed)
  BY <1>1, <1>6 DEF ApiSteps, Ranked
<1> QED
  BY <1>2, <1>3, <1>4, <1>5, <1>6 DEF Outstanding

(* The planner proposes only what is not there yet: the postcondition of   *)
(* the operation it proposes does not hold in the observation it saw.      *)
THEOREM FirstIsUnsatisfied ==
  ASSUME NEW d, NEW bindings, NEW observed,
         NEW op \in First(Outstanding(d, bindings, observed))
  PROVE  ~OperationSatisfied(op, observed)
<1>1. CASE \E c \in DesiredContexts(d) : op = EstablishBinding(d, c)
  BY <1>1 DEF OperationSatisfied, EstablishBinding, Op
<1>2. CASE op = EnsureMetadata(d) /\ ~observed.metadata
  BY <1>2 DEF OperationSatisfied, EnsureMetadata, Op
<1>3. CASE \E c \in DesiredContexts(d) :
             op = EnsureSchema(d, c) /\ c.schema \notin observed.schemas
  BY <1>3 DEF OperationSatisfied, EnsureSchema, Op
<1>4. CASE \E c \in DesiredContexts(d) : \E m \in MigrationsOf(c) :
             op = ApplyMigration(d, c, m) /\ ~Receipted(c, m, observed)
  <2>0. PICK c \in DesiredContexts(d) : \E m \in MigrationsOf(c) :
          op = ApplyMigration(d, c, m) /\ ~Receipted(c, m, observed)
    BY <1>4
  <2>1. PICK m \in MigrationsOf(c) :
          op = ApplyMigration(d, c, m) /\ ~Receipted(c, m, observed)
    BY <2>0
  <2>2. MatchingReceipt(c, m) \notin observed.receipts
    BY <2>1 DEF Receipted, MatchingReceipt
  <2> QED
    BY <2>1, <2>2 DEF OperationSatisfied, ApplyMigration, Op
<1>5. CASE /\ op = ConfigureApi(d, WantedExposure(d, bindings, observed))
           /\ \/ WantedExposure(d, bindings, observed) # observed.exposed
              \/ ~GrantsMatch(d, observed)
  <2>1. /\ op.kind = "api"
        /\ op.exposed = WantedExposure(d, bindings, observed)
        /\ op.digest.content = d.content
    BY <1>5 DEF ConfigureApi, Op, DesiredDigest
  <2>2. PolicyContexts(op) = DesiredContexts(d)
    BY <2>1 DEF PolicyContexts, DesiredContexts
  <2> QED
    BY <1>5, <2>1, <2>2 DEF OperationSatisfied, GrantsMatch
<1> QED
  BY <1>1, <1>2, <1>3, <1>4, <1>5, OutstandingShapes
-----------------------------------------------------------------------------
(* What comes first. *)

(* The first step is behind no other.                                      *)
LEMMA FirstIsFirst ==
  ASSUME NEW d, NEW bindings, NEW observed,
         NEW op \in First(Outstanding(d, bindings, observed))
  PROVE  \E s \in Outstanding(d, bindings, observed) :
           /\ op = s.op
           /\ \A y \in Outstanding(d, bindings, observed) : y = s \/ Before(s, y)
  BY DEF First

(* Steps of an earlier phase come before: while one is outstanding, the    *)
(* first operation is of no later phase.                                   *)
LEMMA EarlierPhaseFirst ==
  ASSUME NEW s, NEW y, NEW i, NEW j, NEW k, NEW l, NEW m, NEW n, NEW p, NEW q,
         i \in Nat, l \in Nat, l < i,
         s = Ranked(i, j, k, p), y = Ranked(l, m, n, q)
  PROVE  ~(y = s \/ Before(s, y))
  BY DEF Ranked, Before

(* Only the steps of the first phase are bindings.                         *)
LEMMA StepPhases ==
  ASSUME NEW d, NEW bindings, NEW observed, NEW s \in Outstanding(d, bindings, observed)
  PROVE  \/ s \in BindSteps(d, bindings) /\ s.op.kind = "bind"
         \/ s.op.kind # "bind" /\ \E i, j, k : i \in Nat /\ 1 < i /\ s = Ranked(i, j, k, s.op)
<1>1. CASE s \in BindSteps(d, bindings)
  BY <1>1 DEF BindSteps, Ranked, EstablishBinding, Op
<1>2. CASE s \in MetadataSteps(d, observed)
  BY <1>2 DEF MetadataSteps, Ranked, EnsureMetadata, Op
<1>3. CASE s \in SchemaSteps(d, observed)
  BY <1>3 DEF SchemaSteps, Ranked, EnsureSchema, Op
<1>4. CASE s \in MigrationSteps(d, observed)
  BY <1>4 DEF MigrationSteps, Ranked, ApplyMigration, Op
<1>5. CASE s \in ApiSteps(d, bindings, observed)
  BY <1>5 DEF ApiSteps, Ranked, ConfigureApi, Op
<1> QED
  BY <1>1, <1>2, <1>3, <1>4, <1>5 DEF Outstanding

(* Whatever is applied to the target, the components have their bindings.  *)
LEMMA BoundBeforeApplied ==
  ASSUME NEW d, NEW bindings, NEW observed,
         NEW op \in First(Outstanding(d, bindings, observed)), op.kind # "bind"
  PROVE  \A c \in DesiredContexts(d) : Bound(c, bindings)
<1> SUFFICES ASSUME NEW c \in DesiredContexts(d), ~Bound(c, bindings) PROVE FALSE
  OBVIOUS
<1>1. PICK s \in Outstanding(d, bindings, observed) :
        /\ op = s.op
        /\ \A y \in Outstanding(d, bindings, observed) : y = s \/ Before(s, y)
  BY FirstIsFirst
<1>2. \E i, j, k : i \in Nat /\ 1 < i /\ s = Ranked(i, j, k, op)
  BY <1>1, StepPhases
<1>3. PICK i \in DOMAIN ComponentsOf(d) : c = ComponentsOf(d)[i]
  BY DEF DesiredContexts, ContextsOf, ComponentsOf
<1>4. Ranked(1, i, 0, EstablishBinding(d, c)) \in Outstanding(d, bindings, observed)
  BY <1>3 DEF Outstanding, BindSteps
<1> QED
  BY <1>1, <1>2, <1>4, EarlierPhaseFirst

(* Which binding comes first does not depend on the target.                *)
LEMMA BindingFirst ==
  ASSUME NEW d, NEW bindings, NEW observed, NEW other,
         NEW op \in First(Outstanding(d, bindings, observed)), op.kind = "bind"
  PROVE  op \in First(Outstanding(d, bindings, other))
<1>1. PICK s \in Outstanding(d, bindings, observed) :
        /\ op = s.op
        /\ \A y \in Outstanding(d, bindings, observed) : y = s \/ Before(s, y)
  BY FirstIsFirst
<1>2. s \in BindSteps(d, bindings)
  BY <1>1, StepPhases
<1>3. PICK l : s = Ranked(1, l, 0, op)
  BY <1>1, <1>2 DEF BindSteps, Ranked
<1>4. s \in Outstanding(d, bindings, other)
  BY <1>2 DEF Outstanding
<1>5. ASSUME NEW y \in Outstanding(d, bindings, other) PROVE y = s \/ Before(s, y)
  <2>1. CASE y \in BindSteps(d, bindings)
    BY <1>1, <2>1 DEF Outstanding
  <2>2. CASE y \notin BindSteps(d, bindings)
    <3>1. PICK i, j, k : i \in Nat /\ 1 < i /\ y = Ranked(i, j, k, y.op)
      BY <2>2, StepPhases
    <3> QED
      BY <1>3, <3>1 DEF Ranked, Before
  <2> QED
    BY <2>1, <2>2
<1> QED
  BY <1>1, <1>4, <1>5 DEF First

(* Every level has a component: connectors are sent slices of their own.   *)
LevelsHaveComponents == \A d \in Slices : DesiredContexts(d) # {}

(* A component of a level is found again by its resource or its schema.    *)
LEMMA ContextsAreDistinct ==
  ASSUME NEW content \in Contents, NEW b \in ContextsOf(content), NEW c \in ContextsOf(content),
         b.resource = c.resource \/ b.schema = c.schema
  PROVE  b = c
  BY ContentsAreValid DEF ContextsOf
-----------------------------------------------------------------------------
(* The operators keep to their types. *)

(* A slice's digest and contexts are among those the types range over.     *)
LEMMA SlicesAreDescribed ==
  ASSUME NEW d \in Slices
  PROVE  /\ d.graph \in Graphs
         /\ d.sequence \in Nat
         /\ d.generation \in Nat
         /\ d.content \in Contents
         /\ DesiredDigest(d) \in Digests
         /\ DesiredContexts(d) \subseteq Contexts
  BY SlicesAreTyped DEF Digests, DesiredContexts, Contexts

(* A digest names a content, and so contexts and schemas, of the model.    *)
LEMMA DigestsNameContents ==
  ASSUME NEW digest \in Digests
  PROVE  digest.content \in Contents /\ ContextsOf(digest.content) \subseteq Contexts
<1>1. PICK d \in Slices : digest = DesiredDigest(d)
  BY DEF Digests
<1>2. digest.content = d.content
  BY <1>1 DEF DesiredDigest
<1> QED
  BY <1>2, SlicesAreTyped DEF Contexts

(* An observation of a well-typed target is well typed.                    *)
LEMMA ObserveTyped ==
  ASSUME NEW t \in TargetStates, NEW d
  PROVE  Observe(t, d) \in ObservedTargets
  BY DEF TargetStates, Observe, ObservedTargets

(* The exposure a level wants consists of schemas.                         *)
LEMMA WantedExposureTyped ==
  ASSUME NEW d \in Slices, NEW bindings, NEW observed \in ObservedTargets
  PROVE  WantedExposure(d, bindings, observed) \subseteq Schemas
<1>1. \A c \in DesiredContexts(d) : c.schema \in Schemas
  BY SlicesAreDescribed, ContextsAreTyped
<1>2. observed.exposed \subseteq Schemas
  BY DEF ObservedTargets
<1> QED
  BY <1>1, <1>2, PublicIsASchema DEF WantedExposure

(* Every proposed operation is one of the shapes of Operations.            *)
LEMMA FirstTyped ==
  ASSUME NEW d \in Slices, NEW bindings, NEW observed \in ObservedTargets,
         NEW op \in First(Outstanding(d, bindings, observed))
  PROVE  op \in Operations
<1> USE SlicesAreDescribed
<1>1. CASE \E c \in DesiredContexts(d) : op = EstablishBinding(d, c)
  BY <1>1 DEF EstablishBinding, Op, Operations
<1>2. CASE op = EnsureMetadata(d)
  BY <1>2 DEF EnsureMetadata, Op, Operations
<1>3. CASE \E c \in DesiredContexts(d) : op = EnsureSchema(d, c)
  BY <1>3 DEF EnsureSchema, Op, Operations
<1>4. CASE \E c \in DesiredContexts(d) : \E m \in MigrationsOf(c) : op = ApplyMigration(d, c, m)
  <2>1. PICK c \in DesiredContexts(d) : \E m \in MigrationsOf(c) : op = ApplyMigration(d, c, m)
    BY <1>4
  <2>2. PICK m \in MigrationsOf(c) : op = ApplyMigration(d, c, m)
    BY <2>1
  <2>3. c \in Contexts /\ m \in Migrations
    BY DEF Migrations
  <2> QED
    BY <2>2, <2>3 DEF ApplyMigration, Op, Operations
<1>5. CASE op = ConfigureApi(d, WantedExposure(d, bindings, observed))
  BY <1>5, WantedExposureTyped DEF ConfigureApi, Op, Operations
<1> QED
  BY <1>1, <1>2, <1>3, <1>4, <1>5, OutstandingShapes

(* The receipt a migration of the model leaves is a receipt.               *)
LEMMA MatchingReceiptTyped ==
  ASSUME NEW op \in Operations, op.kind = "migration"
  PROVE  MatchingReceipt(op.context, op.migration) \in Receipts
<1>1. op.context \in Contexts /\ op.migration \in Migrations
  BY DEF Operations
<1>2. op.migration.id \in Nat
  BY <1>1, ContextsAreTyped DEF Migrations
<1>3. op.context.resource \in Resources
  BY <1>1 DEF Resources
<1> QED
  BY <1>1, <1>2, <1>3 DEF MatchingReceipt, Receipts

(* Executing an operation keeps the target well typed.                     *)
LEMMA ExecuteTyped ==
  ASSUME NEW t \in TargetStates, NEW op \in Operations
  PROVE  Execute(t, op) \in TargetStates
<1>1. CASE op.kind = "bind"
  BY <1>1 DEF Execute
<1>2. CASE op.kind = "metadata"
  BY <1>2 DEF Execute, TargetStates
<1>3. CASE op.kind = "schema"
  <2>1. op.context.schema \in Schemas
    BY <1>3, ContextsAreTyped DEF Operations
  <2> QED
    BY <1>3, <2>1 DEF Execute, TargetStates
<1>4. CASE op.kind = "migration"
  BY <1>4, MatchingReceiptTyped DEF Execute, TargetStates
<1>5. CASE op.kind = "api"
  <2>1. op.exposed \subseteq Schemas /\ op.digest \in Digests
    BY <1>5 DEF Operations
  <2>2. {c.schema : c \in {x \in PolicyContexts(op) : WantsAnonRead(x)}} \subseteq Schemas
    BY <2>1, DigestsNameContents, ContextsAreTyped DEF PolicyContexts
  <2> QED
    BY <1>5, <2>1, <2>2 DEF Execute, TargetStates
<1> QED
  BY <1>1, <1>2, <1>3, <1>4, <1>5 DEF Operations

(* Whatever somebody else does keeps the target well typed.                *)
LEMMA DriftedTyped ==
  ASSUME NEW t \in TargetStates, NEW u \in Drifted(t)
  PROVE  u \in TargetStates
<1>1. PICK s \in Schemas :
        u \in {[t EXCEPT !.schemas = @ \ {s}, !.anonRead = @ \ {s}, !.open = @ \ {s}],
              [t EXCEPT !.schemas = @ \cup {s}],
              [t EXCEPT !.exposed = @ \ {s}],
              [t EXCEPT !.exposed = @ \cup {s}],
              [t EXCEPT !.anonRead = @ \cup ({s} \cap t.schemas)]}
  BY DEF Drifted
<1>2. CASE u = [t EXCEPT !.schemas = @ \ {s}, !.anonRead = @ \ {s}, !.open = @ \ {s}]
  BY <1>2 DEF TargetStates
<1>3. CASE u = [t EXCEPT !.schemas = @ \cup {s}]
  BY <1>3 DEF TargetStates
<1>4. CASE u = [t EXCEPT !.exposed = @ \ {s}]
  BY <1>4 DEF TargetStates
<1>5. CASE u = [t EXCEPT !.exposed = @ \cup {s}]
  BY <1>5 DEF TargetStates
<1>6. CASE u = [t EXCEPT !.anonRead = @ \cup ({s} \cap t.schemas)]
  BY <1>6 DEF TargetStates
<1> QED
  BY <1>1, <1>2, <1>3, <1>4, <1>5, <1>6

(* Where no schema is open to PUBLIC, a committed operation has its        *)
(* postcondition.                                                          *)
LEMMA ExecuteSatisfies ==
  ASSUME NEW t \in TargetStates, t.open = {}, NEW d \in Slices, NEW bindings, NEW observed,
         NEW op \in First(Outstanding(d, bindings, observed)), op.kind # "bind",
         CanExecute(t, op)
  PROVE  OperationSatisfied(op, Observe(Execute(t, op), d)) /\ Execute(t, op).open = {}
<1> DEFINE u == Execute(t, op)
<1>1. CASE op.kind = "metadata"
  <2>1. u = [t EXCEPT !.metadata = TRUE]
    BY <1>1 DEF Execute
  <2> QED
    BY <1>1, <2>1 DEF TargetStates, Observe, OperationSatisfied
<1>2. CASE op.kind = "schema"
  <2>1. u = [t EXCEPT !.schemas = @ \cup {op.context.schema}, !.open = @ \ {op.context.schema}]
    BY <1>2 DEF Execute
  <2>2. op.context \in DesiredContexts(d)
    BY <1>2, OutstandingShapes
       DEF EstablishBinding, EnsureMetadata, EnsureSchema, ApplyMigration, ConfigureApi, Op
  <2>3. op.context.schema \in DesiredSchemas(d)
    BY <2>2 DEF DesiredSchemas
  <2> QED
    BY <1>2, <2>1, <2>3 DEF TargetStates, Observe, OperationSatisfied
<1>3. CASE op.kind = "migration"
  <2>1. u = [t EXCEPT !.receipts = @ \cup {MatchingReceipt(op.context, op.migration)}]
    BY <1>3 DEF Execute
  <2>2. t.metadata
    BY <1>3 DEF CanExecute
  <2> QED
    BY <1>3, <2>1, <2>2 DEF TargetStates, Observe, OperationSatisfied
<1>4. CASE op.kind = "api"
  <2>0. PolicyContexts(op) = DesiredContexts(d) /\ d.content \in Contents
    BY <1>4, OutstandingShapes, SlicesAreTyped
       DEF EstablishBinding, EnsureMetadata, EnsureSchema, ApplyMigration, ConfigureApi, Op,
           DesiredDigest, PolicyContexts, DesiredContexts
  <2> DEFINE granted == {c.schema : c \in {x \in PolicyContexts(op) : WantsAnonRead(x)}}
  <2>1. u = [t EXCEPT !.exposed = op.exposed,
                      !.anonRead = (t.anonRead \ PolicySchemas(op)) \cup granted]
    BY <1>4 DEF Execute, TargetStates
  <2>2. /\ u.exposed = op.exposed /\ u.open = {} /\ u.schemas = t.schemas
        /\ u.anonRead = (t.anonRead \ PolicySchemas(op)) \cup granted
    BY <2>1 DEF TargetStates
  <2>3. ASSUME NEW c \in PolicyContexts(op)
        PROVE  (c.schema \in Observe(u, d).anonRead) <=> WantsAnonRead(c)
    <3>1. c.schema \in PolicySchemas(op) /\ c.schema \in DesiredSchemas(d)
      BY <2>0 DEF PolicySchemas, DesiredSchemas
    <3>2. c.schema \in t.schemas
      BY <1>4, <3>1 DEF CanExecute
    <3>3. c.schema \in granted <=> WantsAnonRead(c)
      BY <2>0, ContextsAreDistinct DEF DesiredContexts
    <3> HIDE DEF granted, u
    <3>4. c.schema \in Observe(u, d).anonRead <=> c.schema \in granted
      BY <2>2, <3>1, <3>2 DEF Observe
    <3> QED
      BY <3>3, <3>4
  <2> HIDE DEF u
  <2>4. Observe(u, d).exposed = op.exposed
    BY <2>2 DEF Observe
  <2>5. OperationSatisfied(op, Observe(u, d))
    BY <1>4, <2>3, <2>4 DEF OperationSatisfied
  <2> QED
    BY <2>2, <2>5 DEF u
<1> QED
  BY <1>1, <1>2, <1>3, <1>4, OutstandingShapes
     DEF EstablishBinding, EnsureMetadata, EnsureSchema, ApplyMigration, ConfigureApi, Op


-----------------------------------------------------------------------------
(* The journal: what an event the connector may append does to the fold.   *)

EventTyped(e) ==
  \/ e.kind = "PlanCreated" /\ e.plan \in PlanIds
  \/ e.kind = "PlanStale"
  \/ e.kind = "BindingEstablished" /\ e.binding \in Bindings
  \/ e.kind = "GraphReleased"
  \/ e.kind \in {"Started", "Succeeded", "Failed"} /\ e.operation \in Operations
       /\ e.plan \in PlanIds

(* Appending a well-formed event keeps the journal well formed.            *)
LEMMA AppendedTyped ==
  ASSUME NEW j, JournalTyped(j), NEW e, EventTyped(e)
  PROVE  JournalTyped(Appended(j, e))
<1>1. CASE e.kind = "PlanCreated" /\ e.plan \in PlanIds
  BY <1>1 DEF JournalTyped, Appended
<1>2. CASE e.kind = "PlanStale"
  BY <1>2 DEF JournalTyped, Appended
<1>3. CASE e.kind = "BindingEstablished" /\ e.binding \in Bindings
  BY <1>3 DEF JournalTyped, Appended, Claim
<1>4. CASE e.kind = "GraphReleased"
  BY <1>4 DEF JournalTyped, Appended, Release
<1>5. CASE e.kind \in {"Started", "Succeeded", "Failed"} /\ e.operation \in Operations
           /\ e.plan \in PlanIds
  <2>1. Appended(j, e) = [j EXCEPT !.operations = Receipt(j.operations, e.operation, ReceiptOf(e)),
                                   !.fence = None]
    BY <1>5 DEF JournalTyped, Appended
  <2>2. ReceiptOf(e) \in OperationStates
    BY <1>5 DEF ReceiptOf, OperationStates
  <2> DEFINE operations == Receipt(j.operations, e.operation, ReceiptOf(e))
  <2>3. /\ DOMAIN operations \subseteq Operations
        /\ \A op \in DOMAIN operations : operations[op] \in OperationStates
    BY <1>5, <2>2 DEF JournalTyped, Receipt
  <2> HIDE DEF operations
  <2>4. Appended(j, e) = [j EXCEPT !.operations = operations, !.fence = None]
    BY <2>1 DEF operations
  <2> QED
    BY <2>3, <2>4 DEF JournalTyped
<1> QED
  BY <1>1, <1>2, <1>3, <1>4, <1>5 DEF EventTyped

(* Only two kinds of record touch the bindings.                            *)
LEMMA AppendedBindings ==
  ASSUME NEW j, JournalTyped(j), NEW e
  PROVE  /\ e.kind = "BindingEstablished" =>
              Appended(j, e).bindings = Claim(j.bindings, e.binding)
         /\ e.kind = "GraphReleased" =>
              Appended(j, e).bindings = Release(j.bindings, e.graph)
         /\ e.kind \in {"PlanCreated", "PlanStale", "Started", "Succeeded", "Failed"} =>
              Appended(j, e).bindings = j.bindings
<1>1. CASE e.kind = "BindingEstablished"
  <2>1. Appended(j, e) = [j EXCEPT !.bindings = Claim(j.bindings, e.binding), !.fence = None]
    BY <1>1 DEF Appended, JournalTyped
  <2> QED
    BY <1>1, <2>1 DEF JournalTyped
<1>2. CASE e.kind = "GraphReleased"
  <2>1. Appended(j, e) = [j EXCEPT !.bindings = Release(j.bindings, e.graph), !.fence = None]
    BY <1>2 DEF Appended, JournalTyped
  <2> QED
    BY <1>2, <2>1 DEF JournalTyped
<1>3. CASE e.kind \in {"PlanCreated", "PlanStale", "Started", "Succeeded", "Failed"}
  BY <1>3 DEF Appended, JournalTyped
<1> QED
  BY <1>1, <1>2, <1>3

-----------------------------------------------------------------------------
(* Order *)

(* Of some natural numbers, one is the least.                              *)
LEMMA LeastNatural ==
  ASSUME NEW T, T \subseteq Nat, T # {}
  PROVE  \E n \in T : \A m \in T : n <= m
<1> DEFINE R == OpToRel(<, Nat)
<1>1. IsWellFoundedOn(R, Nat)
  BY NatLessThanWellFounded
<1>2. \A m, n \in Nat : m < n => <<m, n>> \in R
  BY DEF R, OpToRel
<1> HIDE DEF R
<1>3. PICK n \in T : \A m \in T : ~(<<m, n>> \in R)
  BY <1>1, WFMin
<1>4. \A m \in T : m \in Nat /\ n \in Nat /\ ~(m < n)
  BY <1>2, <1>3
<1> QED
  BY <1>4

(* What check_migrations looks at are neighbours; that every migration has *)
(* a greater id than all before it follows.                                *)
LEMMA IdsIncrease ==
  ASSUME NEW c \in Contexts, ~PlanIssues(c),
         NEW i \in DOMAIN c.migrations, NEW j \in DOMAIN c.migrations, i < j
  PROVE  c.migrations[i].id < c.migrations[j].id
<1>0. /\ c.migrations \in Seq(Migrations) /\ DOMAIN c.migrations = 1 .. Len(c.migrations)
      /\ Len(c.migrations) \in Nat
      /\ \A k \in DOMAIN c.migrations : c.migrations[k].id \in Nat
  BY ContentsAreOrdered, ContextsAreTyped DEF MigrationsOf
<1> DEFINE T == {k \in DOMAIN c.migrations : i < k /\ ~(c.migrations[i].id < c.migrations[k].id)}
<1> SUFFICES ASSUME T # {} PROVE FALSE
  OBVIOUS
<1>1. T \subseteq Nat
  BY <1>0
<1>2. PICK k \in T : \A m \in T : k <= m
  BY <1>1, LeastNatural
<1>3. k - 1 \in DOMAIN c.migrations /\ i <= k - 1
  BY <1>0, <1>2
<1>4. c.migrations[k - 1].id < c.migrations[k].id
  <2>1. k > 1 /\ ~(c.migrations[k - 1].id >= c.migrations[k].id)
    BY <1>0, <1>2, <1>3 DEF PlanIssues
  <2> QED
    BY <1>0, <1>2, <1>3, <2>1
<1>5. CASE i = k - 1
  BY <1>2, <1>4, <1>5
<1>6. CASE i < k - 1
  <2>1. k - 1 \notin T
    BY <1>0, <1>2
  <2>2. c.migrations[i].id < c.migrations[k - 1].id
    BY <1>3, <1>6, <2>1
  <2> QED
    BY <1>0, <1>2, <1>3, <1>4, <2>2
<1> QED
  BY <1>0, <1>3, <1>5, <1>6

(* A migration of a sound component is found again by its id.              *)
LEMMA MigrationsAreDistinct ==
  ASSUME NEW c \in Contexts, ~PlanIssues(c),
         NEW m \in MigrationsOf(c), NEW n \in MigrationsOf(c), m.id = n.id
  PROVE  m = n
<1>1. PICK i \in DOMAIN c.migrations : m = c.migrations[i]
  BY DEF MigrationsOf
<1>2. PICK j \in DOMAIN c.migrations : n = c.migrations[j]
  BY DEF MigrationsOf
<1>3. i \in Nat /\ j \in Nat /\ m.id \in Nat
  BY ContentsAreOrdered, ContextsAreTyped
<1> QED
  BY <1>1, <1>2, <1>3, IdsIncrease

(* Only one binding comes first.                                           *)
LEMMA OneBindingFirst ==
  ASSUME NEW d \in Slices, NEW bindings, NEW observed,
         NEW b, NEW c,
         EstablishBinding(d, b) \in First(Outstanding(d, bindings, observed)),
         EstablishBinding(d, c) \in First(Outstanding(d, bindings, observed))
  PROVE  b = c
<1>1. PICK s \in Outstanding(d, bindings, observed) :
        /\ EstablishBinding(d, b) = s.op
        /\ \A y \in Outstanding(d, bindings, observed) : y = s \/ Before(s, y)
  BY FirstIsFirst
<1>2. PICK r \in Outstanding(d, bindings, observed) :
        /\ EstablishBinding(d, c) = r.op
        /\ \A y \in Outstanding(d, bindings, observed) : y = r \/ Before(r, y)
  BY FirstIsFirst
<1>3. s \in BindSteps(d, bindings) /\ r \in BindSteps(d, bindings)
  BY <1>1, <1>2, StepPhases DEF EstablishBinding, Op
<1>4. DOMAIN ComponentsOf(d) \subseteq Nat
  BY ContentsAreOrdered, SlicesAreTyped DEF ComponentsOf
<1>5. PICK i \in Nat : s = Ranked(1, i, 0, s.op)
  BY <1>3, <1>4 DEF BindSteps, Ranked
<1>6. PICK j \in Nat : r = Ranked(1, j, 0, r.op)
  BY <1>3, <1>4 DEF BindSteps, Ranked
<1>7. s = r
  BY <1>1, <1>2, <1>5, <1>6 DEF Ranked, Before
<1> QED
  BY <1>1, <1>2, <1>7 DEF EstablishBinding, Op

-----------------------------------------------------------------------------
(* A target that has only advanced *)

(* Between s and t nothing but operations of the level has been applied:   *)
(* schemas have been added, closed to PUBLIC;                              *)
SchemasAdvanced(s, t) ==
  /\ s.schemas \subseteq t.schemas
  /\ \A x \in t.schemas \ s.schemas : x \notin t.open

(* receipts have been added, those of the level's migrations;              *)
ReceiptsAdvanced(d, s, t) ==
  /\ s.receipts \subseteq t.receipts
  /\ \A r \in t.receipts \ s.receipts :
       \E c \in DesiredContexts(d) : \E m \in MigrationsOf(c) : r = MatchingReceipt(c, m)

(* and the API is as it was or as the level wants it.                      *)
GrantsSet(d, t) == \A c \in DesiredContexts(d) : c.schema \in t.anonRead <=> WantsAnonRead(c)

ApiAdvanced(d, bindings, s, t) ==
  t.exposed # s.exposed => t.exposed = WantedExposure(d, bindings, s) /\ GrantsSet(d, t)

OnlyAdvanced(d, bindings, s, t) ==
  SchemasAdvanced(s, t) /\ ReceiptsAdvanced(d, s, t) /\ ApiAdvanced(d, bindings, s, t)

(* The exposure wanted of the exposure wanted is the same.                 *)
LEMMA WantedAgain ==
  ASSUME NEW d, NEW bindings, NEW s, NEW t,
         t.exposed = s.exposed \/ t.exposed = WantedExposure(d, bindings, s)
  PROVE  WantedExposure(d, bindings, t) = WantedExposure(d, bindings, s)
  BY DEF WantedExposure

(* The phase of a step is that of its operation.                           *)
LEMMA ApiIsLast ==
  ASSUME NEW d, NEW bindings, NEW observed, NEW s \in Outstanding(d, bindings, observed)
  PROVE  \/ s \in ApiSteps(d, bindings, observed) /\ s = Ranked(4, 0, 0, s.op) /\ s.op.kind = "api"
         \/ /\ s.op.kind # "api"
            /\ \E i, j, k : i \in Nat /\ i < 4 /\ s = Ranked(i, j, k, s.op)
<1>1. CASE s \in BindSteps(d, bindings)
  BY <1>1 DEF BindSteps, Ranked, EstablishBinding, Op
<1>2. CASE s \in MetadataSteps(d, observed)
  BY <1>2 DEF MetadataSteps, Ranked, EnsureMetadata, Op
<1>3. CASE s \in SchemaSteps(d, observed)
  BY <1>3 DEF SchemaSteps, Ranked, EnsureSchema, Op
<1>4. CASE s \in MigrationSteps(d, observed)
  BY <1>4 DEF MigrationSteps, Ranked, ApplyMigration, Op
<1>5. CASE s \in ApiSteps(d, bindings, observed)
  BY <1>5 DEF ApiSteps, Ranked, ConfigureApi, Op
<1> QED
  BY <1>1, <1>2, <1>3, <1>4, <1>5 DEF Outstanding

(* What is outstanding later was outstanding before, but for the API.      *)
LEMMA LaterSteps ==
  ASSUME NEW d, NEW bindings, NEW was, NEW now,
         was.metadata = now.metadata, was.schemas \subseteq now.schemas,
         was.receipts \subseteq now.receipts,
         NEW y \in Outstanding(d, bindings, now)
  PROVE  y \in Outstanding(d, bindings, was) \/ y \in ApiSteps(d, bindings, now)
<1>1. CASE y \in BindSteps(d, bindings)
  BY <1>1 DEF Outstanding
<1>2. CASE y \in MetadataSteps(d, now)
  BY <1>2 DEF Outstanding, MetadataSteps
<1>3. CASE y \in SchemaSteps(d, now)
  BY <1>3 DEF Outstanding, SchemaSteps
<1>4. CASE y \in MigrationSteps(d, now)
  <2>1. PICK i \in DOMAIN ComponentsOf(d) :
          y \in {Ranked(3, i, j, ApplyMigration(d, ComponentsOf(d)[i],
                                               ComponentsOf(d)[i].migrations[j])) :
                  j \in {k \in DOMAIN ComponentsOf(d)[i].migrations :
                          ~Receipted(ComponentsOf(d)[i], ComponentsOf(d)[i].migrations[k], now)}}
    BY <1>4 DEF MigrationSteps
  <2>2. \A m : Receipted(ComponentsOf(d)[i], m, was) => Receipted(ComponentsOf(d)[i], m, now)
    BY DEF Receipted
  <2>3. y \in MigrationSteps(d, was)
    BY <2>1, <2>2 DEF MigrationSteps
  <2> QED
    BY <2>3 DEF Outstanding
<1> QED
  BY <1>1, <1>2, <1>3, <1>4 DEF Outstanding

(* What came first comes first as long as it is outstanding.               *)
LEMMA StaysFirst ==
  ASSUME NEW d, NEW bindings, NEW was, NEW now,
         was.metadata = now.metadata, was.schemas \subseteq now.schemas,
         was.receipts \subseteq now.receipts,
         NEW s \in Outstanding(d, bindings, was),
         \A y \in Outstanding(d, bindings, was) : y = s \/ Before(s, y),
         s.op.kind # "api", s \in Outstanding(d, bindings, now)
  PROVE  s.op \in First(Outstanding(d, bindings, now))
<1>1. PICK i, j, k : i \in Nat /\ i < 4 /\ s = Ranked(i, j, k, s.op)
  BY ApiIsLast
<1>2. ASSUME NEW y \in Outstanding(d, bindings, now) PROVE y = s \/ Before(s, y)
  <2>1. CASE y \in Outstanding(d, bindings, was)
    BY <2>1
  <2>2. CASE y \in ApiSteps(d, bindings, now)
    <3>1. y.rank = <<4, 0, 0>>
      BY <2>2 DEF ApiSteps, Ranked
    <3>2. s.rank[1] = i
      BY <1>1 DEF Ranked
    <3> QED
      BY <1>1, <3>1, <3>2 DEF Before
  <2> QED
    BY <2>1, <2>2, LaterSteps
<1> QED
  BY <1>2 DEF First

(* The API comes first only when nothing else is outstanding.              *)
LEMMA ApiIsAlone ==
  ASSUME NEW d, NEW bindings, NEW observed,
         NEW op \in First(Outstanding(d, bindings, observed)), op.kind = "api"
  PROVE  /\ \A y \in Outstanding(d, bindings, observed) : y \in ApiSteps(d, bindings, observed)
         /\ \A c \in DesiredContexts(d) : c.schema \in observed.schemas
<1>1. PICK s \in Outstanding(d, bindings, observed) :
        /\ op = s.op
        /\ \A y \in Outstanding(d, bindings, observed) : y = s \/ Before(s, y)
  BY FirstIsFirst
<1>2. s = Ranked(4, 0, 0, op)
  BY <1>1, ApiIsLast
<1>3. ASSUME NEW y \in Outstanding(d, bindings, observed), y \notin ApiSteps(d, bindings, observed)
      PROVE  FALSE
  <2>1. PICK i, j, k : i \in Nat /\ i < 4 /\ y = Ranked(i, j, k, y.op)
    BY <1>3, ApiIsLast
  <2> QED
    BY <1>1, <1>2, <2>1, EarlierPhaseFirst
<1>4. ASSUME NEW i \in DOMAIN ComponentsOf(d)
      PROVE  ComponentsOf(d)[i].schema \in observed.schemas
  <2> SUFFICES ASSUME ComponentsOf(d)[i].schema \notin observed.schemas PROVE FALSE
    OBVIOUS
  <2>1. Ranked(3, i, 0, EnsureSchema(d, ComponentsOf(d)[i])) \in Outstanding(d, bindings, observed)
    BY DEF Outstanding, SchemaSteps
  <2> QED
    BY <1>1, <1>2, <2>1, EarlierPhaseFirst
<1> QED
  BY <1>3, <1>4 DEF DesiredContexts, ContextsOf, ComponentsOf

(* What a transaction observes through its snapshot s of a target that has *)
(* become t: the ledger's existence and the grants as they are.            *)
Through(s, t) == [s EXCEPT !.metadata = t.metadata, !.anonRead = t.anonRead, !.open = t.open]

(* The observation of a transaction, field by field.                       *)
LEMMA ObservedThrough ==
  ASSUME NEW s \in TargetStates, NEW t \in TargetStates, NEW d
  PROVE  LET seen == Observe(Through(s, t), d) IN
         /\ seen.metadata = t.metadata
         /\ seen.schemas = s.schemas \cap DesiredSchemas(d)
         /\ seen.receipts = IF t.metadata THEN s.receipts ELSE {}
         /\ seen.exposed = s.exposed
         /\ seen.anonRead = (t.anonRead \cup t.open) \cap s.schemas \cap DesiredSchemas(d)
<1>1. /\ Through(s, t).metadata = t.metadata /\ Through(s, t).schemas = s.schemas
      /\ Through(s, t).receipts = s.receipts /\ Through(s, t).exposed = s.exposed
      /\ Through(s, t).anonRead = t.anonRead /\ Through(s, t).open = t.open
  BY DEF Through, TargetStates
<1> QED
  BY <1>1 DEF Observe

(* What the level's own migrations have added refuses none of them.        *)
LEMMA AdvancedIsNotRefused ==
  ASSUME NEW d \in Slices, NEW bindings, NEW s \in TargetStates, NEW t \in TargetStates,
         OnlyAdvanced(d, bindings, s, t),
         \A c \in DesiredContexts(d) : ~PlanIssues(c),
         ~PlanIsRefused(d, Observe(Through(s, t), d))
  PROVE  ~PlanIsRefused(d, Observe(t, d))
<1> DEFINE was == Observe(Through(s, t), d)
           now == Observe(t, d)
<1>0. was.receipts = (IF t.metadata THEN s.receipts ELSE {})
      /\ now.receipts = (IF t.metadata THEN t.receipts ELSE {})
  BY ObservedThrough DEF Observe
<1> SUFFICES ASSUME NEW c \in DesiredContexts(d), NEW m \in MigrationsOf(c),
                    MigrationMutated(c, m, now)
             PROVE  FALSE
  BY DEF PlanIsRefused
<1> HIDE DEF was, now
<1>1. PICK r \in now.receipts : r.resource = c.resource /\ r.id = m.id
  BY DEF MigrationMutated, Receipted
<1>2. /\ MatchingReceipt(c, m) \notin now.receipts
      /\ r \in t.receipts /\ now.receipts = t.receipts /\ was.receipts = s.receipts
  BY <1>0, <1>1 DEF MigrationMutated
<1>3. CASE r \in s.receipts
  <2>1. Receipted(c, m, was) /\ ~MigrationMutated(c, m, was)
    BY <1>1, <1>2, <1>3 DEF Receipted, PlanIsRefused, was
  <2>2. MatchingReceipt(c, m) \in s.receipts
    BY <1>2, <2>1 DEF MigrationMutated
  <2> QED
    BY <1>2, <2>2 DEF OnlyAdvanced, ReceiptsAdvanced
<1>4. CASE r \notin s.receipts
  <2>1. PICK b \in DesiredContexts(d) : \E n \in MigrationsOf(b) : r = MatchingReceipt(b, n)
    BY <1>2, <1>4 DEF OnlyAdvanced, ReceiptsAdvanced
  <2>2. PICK n \in MigrationsOf(b) : r = MatchingReceipt(b, n)
    BY <2>1
  <2>3. b.resource = c.resource /\ n.id = m.id
    BY <1>1, <2>2 DEF MatchingReceipt
  <2>4. d.content \in Contents /\ b = c /\ c \in Contexts
    BY <2>3, SlicesAreDescribed, ContextsAreDistinct DEF DesiredContexts
  <2>5. n = m
    BY <2>2, <2>3, <2>4, MigrationsAreDistinct
  <2> QED
    BY <1>2, <2>2, <2>4, <2>5
<1> QED
  BY <1>3, <1>4

(* An operation planned from a snapshot that is behind is still the first  *)
(* one outstanding, or changes nothing.                                    *)
LEMMA AdvancedStaysFirst ==
  ASSUME NEW d \in Slices, NEW bindings, NEW s \in TargetStates, NEW t \in TargetStates,
         OnlyAdvanced(d, bindings, s, t),
         NEW op \in First(Outstanding(d, bindings, Observe(Through(s, t), d))), op.kind # "bind",
         op.kind = "migration" => s.receipts = t.receipts
  PROVE  Execute(t, op) = t \/ op \in First(Outstanding(d, bindings, Observe(t, d)))
<1> DEFINE was == Observe(Through(s, t), d)
           now == Observe(t, d)
<1>0. /\ was.metadata = t.metadata /\ was.schemas = s.schemas \cap DesiredSchemas(d)
      /\ was.receipts = (IF t.metadata THEN s.receipts ELSE {})
      /\ was.exposed = s.exposed
      /\ was.anonRead = (t.anonRead \cup t.open) \cap s.schemas \cap DesiredSchemas(d)
      /\ now.metadata = t.metadata /\ now.schemas = t.schemas \cap DesiredSchemas(d)
      /\ now.receipts = (IF t.metadata THEN t.receipts ELSE {})
      /\ now.exposed = t.exposed
      /\ now.anonRead = (t.anonRead \cup t.open) \cap t.schemas \cap DesiredSchemas(d)
  BY ObservedThrough DEF Observe
<1> HIDE DEF was, now
<1>1. /\ was.metadata = now.metadata /\ was.schemas \subseteq now.schemas
      /\ was.receipts \subseteq now.receipts
  BY <1>0 DEF OnlyAdvanced, SchemasAdvanced, ReceiptsAdvanced
<1>2. PICK z \in Outstanding(d, bindings, was) :
        /\ op = z.op
        /\ \A y \in Outstanding(d, bindings, was) : y = z \/ Before(z, y)
  BY FirstIsFirst DEF was
<1>3. op.kind # "api" /\ z \in Outstanding(d, bindings, now) => op \in First(Outstanding(d, bindings, now))
  BY <1>1, <1>2, StaysFirst
<1>4. CASE z \in MetadataSteps(d, was)
  <2>1. z \in Outstanding(d, bindings, now) /\ op.kind = "metadata"
    BY <1>1, <1>2, <1>4 DEF MetadataSteps, Outstanding, Ranked, EnsureMetadata, Op
  <2> QED
    BY <1>3, <2>1 DEF now
<1>5. CASE z \in SchemaSteps(d, was)
  <2>1. PICK i \in DOMAIN ComponentsOf(d) :
          /\ z = Ranked(3, i, 0, EnsureSchema(d, ComponentsOf(d)[i]))
          /\ ComponentsOf(d)[i].schema \notin was.schemas
    BY <1>5 DEF SchemaSteps
  <2>2. op.kind = "schema" /\ op.context = ComponentsOf(d)[i]
    BY <1>2, <2>1 DEF Ranked, EnsureSchema, Op
  <2>3. op.context.schema \in DesiredSchemas(d)
    BY <2>2 DEF DesiredSchemas, DesiredContexts, ContextsOf, ComponentsOf
  <2>4. CASE op.context.schema \in t.schemas
    <3>1. op.context.schema \notin t.open
      BY <1>0, <2>1, <2>2, <2>3, <2>4 DEF OnlyAdvanced, SchemasAdvanced
    <3>2. Execute(t, op) = [t EXCEPT !.schemas = t.schemas \cup {op.context.schema},
                                     !.open = t.open \ {op.context.schema}]
      BY <2>2 DEF Execute, TargetStates
    <3>3. t.schemas \cup {op.context.schema} = t.schemas /\ t.open \ {op.context.schema} = t.open
      BY <2>4, <3>1
    <3> QED
      BY <3>2, <3>3 DEF TargetStates
  <2>5. CASE op.context.schema \notin t.schemas
    <3>1. z \in SchemaSteps(d, now)
      BY <1>0, <2>1, <2>2, <2>5 DEF SchemaSteps
    <3> QED
      BY <1>3, <2>2, <3>1 DEF Outstanding, now
  <2> QED
    BY <2>4, <2>5
<1>6. CASE z \in MigrationSteps(d, was)
  <2>1. op.kind = "migration"
    BY <1>2, <1>6 DEF MigrationSteps, Ranked, ApplyMigration, Op
  <2>2. was.receipts = now.receipts
    BY <1>0, <2>1
  <2>3. z \in MigrationSteps(d, now)
    BY <1>6, <2>2 DEF MigrationSteps, Receipted
  <2> QED
    BY <1>3, <2>1, <2>3 DEF Outstanding, now
<1>7. CASE z \in ApiSteps(d, bindings, was)
  <2>1. /\ z = Ranked(4, 0, 0, op) /\ op = ConfigureApi(d, WantedExposure(d, bindings, was))
        /\ op.kind = "api" /\ op.exposed = WantedExposure(d, bindings, was)
        /\ PolicyContexts(op) = DesiredContexts(d)
    BY <1>2, <1>7 DEF ApiSteps, Ranked, ConfigureApi, Op, PolicyContexts, DesiredContexts,
                      DesiredDigest
  <2>2. /\ \A y \in Outstanding(d, bindings, was) : y \in ApiSteps(d, bindings, was)
        /\ \A c \in DesiredContexts(d) : c.schema \in was.schemas
    BY <2>1, ApiIsAlone DEF was
  <2>3. now.anonRead = was.anonRead
    BY <1>0, <2>2 DEF OnlyAdvanced, SchemasAdvanced, DesiredSchemas
  <2>4. CASE t.exposed = s.exposed
    <3>1. ApiSteps(d, bindings, now) = ApiSteps(d, bindings, was)
      BY <1>0, <2>3, <2>4 DEF ApiSteps, WantedExposure, GrantsMatch
    <3>2. z \in Outstanding(d, bindings, now)
      BY <1>7, <3>1 DEF Outstanding
    <3>3. ASSUME NEW y \in Outstanding(d, bindings, now) PROVE y = z
      <4>1. y \in ApiSteps(d, bindings, now)
        BY <1>1, <2>2, <3>1, LaterSteps
      <4>2. y = Ranked(4, 0, 0, op)
        BY <1>7, <2>1, <3>1, <4>1 DEF ApiSteps, Ranked
      <4> QED
        BY <2>1, <4>2
    <3> QED
      BY <1>2, <3>2, <3>3 DEF First, now
  <2>5. CASE t.exposed # s.exposed
    <3>1. /\ t.exposed = WantedExposure(d, bindings, s)
          /\ \A c \in DesiredContexts(d) : c.schema \in t.anonRead <=> WantsAnonRead(c)
      BY <2>5 DEF OnlyAdvanced, ApiAdvanced, GrantsSet
    <3>2. op.exposed = t.exposed
      BY <1>0, <2>1, <3>1, WantedAgain
    <3> DEFINE granted == {c.schema : c \in {x \in PolicyContexts(op) : WantsAnonRead(x)}}
    <3>3. (t.anonRead \ PolicySchemas(op)) \cup granted = t.anonRead
      BY <2>1, <3>1 DEF PolicySchemas
    <3>4. Execute(t, op) = [t EXCEPT !.exposed = op.exposed,
                                     !.anonRead = (t.anonRead \ PolicySchemas(op)) \cup granted]
      BY <2>1 DEF Execute, TargetStates
    <3> HIDE DEF granted
    <3> QED
      BY <3>2, <3>3, <3>4 DEF TargetStates
  <2> QED
    BY <2>4, <2>5
<1>8. z \notin BindSteps(d, bindings)
  BY <1>2 DEF BindSteps, Ranked, EstablishBinding, Op
<1> QED
  BY <1>4, <1>5, <1>6, <1>7, <1>8 DEF Outstanding

(* An operation of the level, planned from a target that is behind, is an  *)
(* advance of it, whatever snapshot r it is compared with.                 *)
LEMMA ExecuteAdvances ==
  ASSUME NEW d \in Slices, NEW bindings,
         NEW r \in TargetStates, NEW s \in TargetStates, NEW t \in TargetStates,
         OnlyAdvanced(d, bindings, r, t), OnlyAdvanced(d, bindings, s, t),
         NEW observed, observed.exposed = s.exposed,
         NEW op \in First(Outstanding(d, bindings, observed)), op.kind # "bind"
  PROVE  OnlyAdvanced(d, bindings, r, Execute(t, op))
<1> DEFINE u == Execute(t, op)
<1>1. CASE op.kind = "metadata"
  <2>1. u = [t EXCEPT !.metadata = TRUE]
    BY <1>1 DEF Execute, TargetStates
  <2> QED
    BY <2>1 DEF TargetStates, OnlyAdvanced, SchemasAdvanced, ReceiptsAdvanced, ApiAdvanced,
                GrantsSet
<1>2. CASE op.kind = "schema"
  <2>1. u = [t EXCEPT !.schemas = t.schemas \cup {op.context.schema},
                      !.open = t.open \ {op.context.schema}]
    BY <1>2 DEF Execute, TargetStates
  <2>2. /\ u.schemas = t.schemas \cup {op.context.schema} /\ u.open = t.open \ {op.context.schema}
        /\ u.receipts = t.receipts /\ u.exposed = t.exposed /\ u.anonRead = t.anonRead
    BY <2>1 DEF TargetStates
  <2> HIDE DEF u
  <2>3. SchemasAdvanced(r, u)
    BY <2>2 DEF OnlyAdvanced, SchemasAdvanced
  <2>4. ReceiptsAdvanced(d, r, u)
    BY <2>2 DEF OnlyAdvanced, ReceiptsAdvanced
  <2>5. ApiAdvanced(d, bindings, r, u)
    BY <2>2 DEF OnlyAdvanced, ApiAdvanced, GrantsSet
  <2> QED
    BY <2>3, <2>4, <2>5 DEF OnlyAdvanced, u
<1>3. CASE op.kind = "migration"
  <2>1. u = [t EXCEPT !.receipts = t.receipts \cup {MatchingReceipt(op.context, op.migration)}]
    BY <1>3 DEF Execute, TargetStates
  <2>2. PICK c \in DesiredContexts(d) : \E m \in MigrationsOf(c) :
          op.context = c /\ op.migration = m
    BY <1>3, OutstandingShapes
       DEF EstablishBinding, EnsureMetadata, EnsureSchema, ApplyMigration, ConfigureApi, Op
  <2>3. /\ u.schemas = t.schemas /\ u.open = t.open /\ u.exposed = t.exposed
        /\ u.anonRead = t.anonRead
        /\ u.receipts = t.receipts \cup {MatchingReceipt(op.context, op.migration)}
    BY <2>1 DEF TargetStates
  <2> HIDE DEF u
  <2>4. SchemasAdvanced(r, u)
    BY <2>3 DEF OnlyAdvanced, SchemasAdvanced
  <2>5. ReceiptsAdvanced(d, r, u)
    BY <2>2, <2>3 DEF OnlyAdvanced, ReceiptsAdvanced
  <2>6. ApiAdvanced(d, bindings, r, u)
    BY <2>3 DEF OnlyAdvanced, ApiAdvanced, GrantsSet
  <2> QED
    BY <2>4, <2>5, <2>6 DEF OnlyAdvanced, u
<1>4. CASE op.kind = "api"
  <2>1. /\ op.exposed = WantedExposure(d, bindings, observed)
        /\ PolicyContexts(op) = DesiredContexts(d) /\ d.content \in Contents
    BY <1>4, OutstandingShapes, SlicesAreTyped
       DEF EstablishBinding, EnsureMetadata, EnsureSchema, ApplyMigration, ConfigureApi, Op,
           DesiredDigest, PolicyContexts, DesiredContexts
  <2> DEFINE granted == {c.schema : c \in {x \in PolicyContexts(op) : WantsAnonRead(x)}}
  <2>2. u = [t EXCEPT !.exposed = op.exposed,
                      !.anonRead = (t.anonRead \ PolicySchemas(op)) \cup granted]
    BY <1>4 DEF Execute, TargetStates
  <2>3. /\ u.schemas = t.schemas /\ u.open = t.open /\ u.receipts = t.receipts
        /\ u.exposed = op.exposed
        /\ u.anonRead = (t.anonRead \ PolicySchemas(op)) \cup granted
    BY <2>2 DEF TargetStates
  <2>4. op.exposed = WantedExposure(d, bindings, r)
    <3>1. WantedExposure(d, bindings, observed) = WantedExposure(d, bindings, s)
      BY WantedAgain
    <3>2. WantedExposure(d, bindings, t) = WantedExposure(d, bindings, s)
      BY WantedAgain DEF OnlyAdvanced, ApiAdvanced
    <3>3. WantedExposure(d, bindings, t) = WantedExposure(d, bindings, r)
      BY WantedAgain DEF OnlyAdvanced, ApiAdvanced
    <3> QED
      BY <2>1, <3>1, <3>2, <3>3
  <2>5. ASSUME NEW c \in DesiredContexts(d) PROVE c.schema \in u.anonRead <=> WantsAnonRead(c)
    <3>1. c.schema \in PolicySchemas(op)
      BY <2>1 DEF PolicySchemas
    <3>2. c.schema \in granted <=> WantsAnonRead(c)
      BY <2>1, ContextsAreDistinct DEF DesiredContexts
    <3> HIDE DEF u, granted
    <3> QED
      BY <2>3, <3>1, <3>2
  <2> HIDE DEF u, granted
  <2>6. ApiAdvanced(d, bindings, r, u)
    BY <2>3, <2>4, <2>5 DEF ApiAdvanced, GrantsSet
  <2>7. SchemasAdvanced(r, u) /\ ReceiptsAdvanced(d, r, u)
    BY <2>3 DEF OnlyAdvanced, SchemasAdvanced, ReceiptsAdvanced
  <2> QED
    BY <2>6, <2>7 DEF OnlyAdvanced, u
<1> QED
  BY <1>1, <1>2, <1>3, <1>4, OutstandingShapes
     DEF EstablishBinding, EnsureMetadata, EnsureSchema, ApplyMigration, ConfigureApi, Op

(* What an operation has brought about, the other operations of the level  *)
(* leave alone.                                                            *)
LEMMA ExecuteKeepsSatisfied ==
  ASSUME NEW d \in Slices, NEW bindings,
         NEW s \in TargetStates, NEW t \in TargetStates, t.open = {},
         OnlyAdvanced(d, bindings, s, t),
         NEW observed, observed.exposed = s.exposed,
         NEW op \in First(Outstanding(d, bindings, observed)), op.kind # "bind",
         CanExecute(t, op),
         NEW was, NEW done \in First(Outstanding(d, bindings, was)), done.kind # "bind",
         done.kind = "api" => \A c \in DesiredContexts(d) : c.schema \in t.schemas,
         OperationSatisfied(done, Observe(t, d))
  PROVE  OperationSatisfied(done, Observe(Execute(t, op), d))
<1> DEFINE u == Execute(t, op)
<1> USE DEF TargetStates
<1>1. /\ t.metadata => u.metadata
      /\ t.schemas \subseteq u.schemas /\ t.receipts \subseteq u.receipts
      /\ op.kind # "api" => u.exposed = t.exposed /\ u.anonRead = t.anonRead /\ u.open = {}
  BY OutstandingShapes DEF Execute, EstablishBinding, EnsureMetadata, EnsureSchema,
                           ApplyMigration, ConfigureApi, Op
<1> HIDE DEF u
<1>2. CASE done.kind = "metadata"
  BY <1>1, <1>2 DEF OperationSatisfied, Observe, u
<1>3. CASE done.kind = "schema"
  BY <1>1, <1>3 DEF OperationSatisfied, Observe, u
<1>4. CASE done.kind = "migration"
  <2>1. t.metadata
    BY <1>4 DEF OperationSatisfied, Observe
  <2> QED
    BY <1>1, <1>4, <2>1 DEF OperationSatisfied, Observe, u
<1>5. CASE done.kind = "api"
  <2>1. /\ done.exposed = WantedExposure(d, bindings, was)
        /\ PolicyContexts(done) = DesiredContexts(d)
    BY <1>5, OutstandingShapes
       DEF EstablishBinding, EnsureMetadata, EnsureSchema, ApplyMigration, ConfigureApi, Op,
           DesiredDigest, PolicyContexts, DesiredContexts
  <2>2. /\ t.exposed = done.exposed
        /\ \A c \in DesiredContexts(d) :
             c.schema \in Observe(t, d).anonRead <=> WantsAnonRead(c)
    BY <1>5, <2>1 DEF OperationSatisfied, Observe
  <2>3. CASE op.kind = "api"
    <3>1. /\ op.exposed = WantedExposure(d, bindings, observed)
          /\ PolicyContexts(op) = DesiredContexts(d)
      BY <2>3, OutstandingShapes
         DEF EstablishBinding, EnsureMetadata, EnsureSchema, ApplyMigration, ConfigureApi, Op,
             DesiredDigest, PolicyContexts, DesiredContexts
    <3>2. op.exposed = done.exposed
      <4>1. WantedExposure(d, bindings, observed) = WantedExposure(d, bindings, s)
        BY WantedAgain
      <4>2. WantedExposure(d, bindings, t) = WantedExposure(d, bindings, s)
        BY WantedAgain DEF OnlyAdvanced, ApiAdvanced
      <4>3. WantedExposure(d, bindings, t) = WantedExposure(d, bindings, was)
        BY <2>1, <2>2, WantedAgain
      <4> QED
        BY <2>1, <3>1, <4>1, <4>2, <4>3
    <3>3. OperationSatisfied(op, Observe(u, d))
      BY ExecuteSatisfies DEF u
    <3> QED
      BY <1>5, <2>1, <2>3, <3>1, <3>2, <3>3 DEF OperationSatisfied, u
  <2>4. CASE op.kind # "api"
    <3>1. u.exposed = t.exposed /\ u.anonRead = t.anonRead /\ u.open = {}
      BY <1>1, <2>4
    <3>2. ASSUME NEW c \in DesiredContexts(d)
          PROVE  c.schema \in Observe(u, d).anonRead <=> WantsAnonRead(c)
      <4>1. c.schema \in t.schemas /\ c.schema \in u.schemas
        BY <1>1, <1>5
      <4> QED
        BY <2>2, <3>1, <4>1 DEF Observe
    <3> QED
      BY <1>5, <2>1, <2>2, <3>1, <3>2 DEF OperationSatisfied, Observe, u
  <2> QED
    BY <2>3, <2>4
<1> QED
  BY <1>2, <1>3, <1>4, <1>5, OutstandingShapes
     DEF EstablishBinding, EnsureMetadata, EnsureSchema, ApplyMigration, ConfigureApi, Op
=============================================================================
