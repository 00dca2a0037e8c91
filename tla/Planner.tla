------------------------------ MODULE Planner ------------------------------
(***************************************************************************)
(* The pure planning core of the connector (plan.rs, and the parts of      *)
(* slice.rs and context.rs it reads): what a desired slice asks of the     *)
(* target, which operations are outstanding against the bindings of the    *)
(* operation journal and an observation of the target, and in which order. *)
(*                                                                         *)
(* A plan carries its operations in order, but a pass applies at most the  *)
(* first of them and then plans again, so the model keeps the first.  The  *)
(* order is given by ranks instead of by the vector the code pushes to.    *)
(*                                                                         *)
(* Digests (BLAKE3 of the desired slice, SHA-256 of an operation) are      *)
(* taken to be injective: a digest is the record it is computed from.      *)
(***************************************************************************)
EXTENDS Integers, Sequences

CONSTANTS
  Graphs,       \* graph UUIDs
  Contents,     \* names of the desired contents a slice can carry
  Components,   \* Contents -> sequence of component contexts, by spec hash
  Upstream,     \* Contents -> set of upstream outputs the slice carries
  Schemas,      \* PostgreSQL schema names, Public among them
  Public,       \* the schema PostgREST always exposes
  Slices,       \* the levels core may send
  None          \* "no value"

(* A component context: the resource it names, the schema it owns, its     *)
(* migrations in declared order and its API policy.  A migration has an    *)
(* id, a checksum, the inputs it takes from upstream outputs, and whether  *)
(* the content checks on it alone (checksum, SQL scan, names) pass.        *)
ContextsOf(content) == {Components[content][i] : i \in DOMAIN Components[content]}
Contexts == UNION {ContextsOf(content) : content \in Contents}
MigrationsOf(c) == {c.migrations[j] : j \in DOMAIN c.migrations}
Migrations == UNION {MigrationsOf(c) : c \in Contexts}
Resources == {c.resource : c \in Contexts}

(* What DesiredSlice::from_view guarantees of every accepted slice: within *)
(* one slice, resource identities and schemas are each unique.             *)
ASSUME ContentsAreValid ==
  \A content \in Contents :
    \A i, j \in DOMAIN Components[content] :
      i # j => /\ Components[content][i].resource # Components[content][j].resource
               /\ Components[content][i].schema # Components[content][j].schema

(* Components, and the migrations of each, come in an order.               *)
ASSUME ContentsAreOrdered ==
  /\ \A content \in Contents : Components[content] \in Seq(Contexts)
  /\ \A c \in Contexts : c.migrations \in Seq(Migrations)

ASSUME ContextsAreTyped ==
  \A c \in Contexts : /\ c.schema \in Schemas
                      /\ c.expose \in BOOLEAN
                      /\ c.anonRead \in BOOLEAN
                      /\ \A m \in MigrationsOf(c) : m.id \in Nat

ASSUME PublicIsASchema == Public \in Schemas

ASSUME SlicesAreTyped ==
  Slices \subseteq [graph : Graphs, sequence : Nat, generation : Nat, content : Contents]

(* No record that the modules build is the absent value.                   *)
ASSUME NoneIsNoValue == /\ None \notin Slices
                        /\ None \notin Contexts
                        /\ None \notin Migrations

-----------------------------------------------------------------------------
(* The desired digest covers the graph, the generation, the components and *)
(* the upstream outputs; the slice sequence is NOT part of it.             *)
DesiredDigest(d) ==
  [graph |-> d.graph, generation |-> d.generation, content |-> d.content]
Digests == {DesiredDigest(d) : d \in Slices}

ComponentsOf(d) == Components[d.content]
DesiredContexts(d) == ContextsOf(d.content)
DesiredSchemas(d) == {c.schema : c \in DesiredContexts(d)}

(* What the target tells about itself for one slice (ObservedTarget).      *)
Receipts == [resource : Resources, id : Nat, checksum : {m.checksum : m \in Migrations}]
ObservedTargets == [metadata : BOOLEAN,
                    schemas  : SUBSET Schemas,
                    receipts : SUBSET Receipts,
                    exposed  : SUBSET Schemas,
                    anonRead : SUBSET Schemas]

Bindings == [graph : Graphs, resource : Resources, schema : Schemas]

(* Faulty variant: the resource identity stored where the schema belongs.  *)
BindingForSwapped(d, c) == [graph |-> d.graph, resource |-> c.resource, schema |-> c.resource]

BindingFor(d, c) == [graph |-> d.graph, resource |-> c.resource, schema |-> c.schema]

Bound(c, bindings) == \E b \in bindings : b.resource = c.resource

-----------------------------------------------------------------------------
(* Operations.  An operation's id hashes the desired digest and the        *)
(* payload, so the record is the id: the same operation planned again for  *)
(* the same digest, in any plan, has the same id.                          *)
Op(kind, d, c, m, exposed) ==
  [kind |-> kind, digest |-> DesiredDigest(d), context |-> c, migration |-> m,
   exposed |-> exposed]

EstablishBinding(d, c)   == Op("bind", d, c, None, {})
EnsureMetadata(d)        == Op("metadata", d, None, None, {})
EnsureSchema(d, c)       == Op("schema", d, c, None, {})
ApplyMigration(d, c, m)  == Op("migration", d, c, m, {})
ConfigureApi(d, exposed) == Op("api", d, None, None, exposed)

Operations ==
  [kind : {"metadata"}, digest : Digests, context : {None}, migration : {None}, exposed : {{}}]
  \cup [kind : {"bind", "schema"}, digest : Digests, context : Contexts, migration : {None},
        exposed : {{}}]
  \cup [kind : {"migration"}, digest : Digests, context : Contexts, migration : Migrations,
        exposed : {{}}]
  \cup [kind : {"api"}, digest : Digests, context : {None}, migration : {None},
        exposed : SUBSET Schemas]

-----------------------------------------------------------------------------
(* Checks that need no observation of the target.                          *)

(* Faulty variant: only a clash on a resource of the slice counts.         *)
TargetOwnedByName(d, bindings) ==
  \E b \in bindings : b.graph # d.graph /\ \E c \in DesiredContexts(d) : c.resource = b.resource

TargetOwned(d, bindings) == \E b \in bindings : b.graph # d.graph

(* Migration ids strictly increase, and each migration is sound by itself. *)
PlanIssues(c) ==
  \/ \E j \in DOMAIN c.migrations :
       j > 1 /\ c.migrations[j - 1].id >= c.migrations[j].id
  \/ \E m \in MigrationsOf(c) : ~m.sound

BindingConflict(d, c, bindings) ==
  \E b \in bindings : /\ b.resource = c.resource
                      /\ b # BindingFor(d, c)

DesiredIsRefused(d, bindings) ==
  \/ TargetOwned(d, bindings)
  \/ \E c \in DesiredContexts(d) : PlanIssues(c) \/ BindingConflict(d, c, bindings)

-----------------------------------------------------------------------------
(* Checks against the observation (the diagnostics of build_plan).         *)

Receipted(c, m, observed) ==
  \E r \in observed.receipts : r.resource = c.resource /\ r.id = m.id

MatchingReceipt(c, m) ==
  [resource |-> c.resource, id |-> m.id, checksum |-> m.checksum]

MigrationMutated(c, m, observed) ==
  /\ Receipted(c, m, observed)
  /\ MatchingReceipt(c, m) \notin observed.receipts

(* Inputs are materialised for every migration, the applied ones included. *)
InputUnbound(d, m) ==
  \E input \in m.inputs : ~input.default /\ input.source \notin Upstream[d.content]

PlanIsRefused(d, observed) ==
  \E c \in DesiredContexts(d) : \E m \in MigrationsOf(c) :
    MigrationMutated(c, m, observed) \/ InputUnbound(d, m)

-----------------------------------------------------------------------------
(* The operations build_plan proposes, each with its rank in the vector.   *)

(* Exposed schemas that no binding claims are unmanaged and preserved.     *)
WantedExposure(d, bindings, observed) ==
  {s \in observed.exposed : \A b \in bindings : b.schema # s}
    \cup {Public}
    \cup {c.schema : c \in {x \in DesiredContexts(d) : x.expose}}

WantsAnonRead(c) == c.expose /\ c.anonRead

(* Faulty variant: the policy compared without regard to exposure.         *)
GrantsMatchUnexposed(d, observed) ==
  \A c \in DesiredContexts(d) : (c.schema \in observed.anonRead) <=> c.anonRead

GrantsMatch(d, observed) ==
  \A c \in DesiredContexts(d) : (c.schema \in observed.anonRead) <=> WantsAnonRead(c)

Ranked(phase, i, j, op) == [rank |-> <<phase, i, j>>, op |-> op]

BindSteps(d, bindings) ==
  {Ranked(1, i, 0, EstablishBinding(d, ComponentsOf(d)[i])) :
     i \in {k \in DOMAIN ComponentsOf(d) : ~Bound(ComponentsOf(d)[k], bindings)}}

MetadataSteps(d, observed) ==
  {Ranked(2, 0, 0, EnsureMetadata(d)) : x \in {k \in {0} : ~observed.metadata}}

(* Faulty variant: the schema is proposed whether it exists or not.        *)
SchemaStepsAlways(d, observed) ==
  {Ranked(3, i, 0, EnsureSchema(d, ComponentsOf(d)[i])) : i \in DOMAIN ComponentsOf(d)}

SchemaSteps(d, observed) ==
  {Ranked(3, i, 0, EnsureSchema(d, ComponentsOf(d)[i])) :
     i \in {k \in DOMAIN ComponentsOf(d) : ComponentsOf(d)[k].schema \notin observed.schemas}}

(* Faulty variant: migrations proposed from the last to the first.         *)
MigrationStepsBackwards(d, observed) ==
  UNION {LET c == ComponentsOf(d)[i] IN
         {Ranked(3, i, 0 - j, ApplyMigration(d, c, c.migrations[j])) :
            j \in {k \in DOMAIN c.migrations : ~Receipted(c, c.migrations[k], observed)}} :
         i \in DOMAIN ComponentsOf(d)}

MigrationSteps(d, observed) ==
  UNION {LET c == ComponentsOf(d)[i] IN
         {Ranked(3, i, j, ApplyMigration(d, c, c.migrations[j])) :
            j \in {k \in DOMAIN c.migrations : ~Receipted(c, c.migrations[k], observed)}} :
         i \in DOMAIN ComponentsOf(d)}

(* Faulty variant: the API is configured before the schemas are ensured.   *)
ApiStepsEarly(d, bindings, observed) ==
  LET wanted == WantedExposure(d, bindings, observed) IN
  {Ranked(2, 1, 0, ConfigureApi(d, wanted)) :
     x \in {k \in {0} : wanted # observed.exposed \/ ~GrantsMatch(d, observed)}}

ApiSteps(d, bindings, observed) ==
  LET wanted == WantedExposure(d, bindings, observed) IN
  {Ranked(4, 0, 0, ConfigureApi(d, wanted)) :
     x \in {k \in {0} : wanted # observed.exposed \/ ~GrantsMatch(d, observed)}}

Outstanding(d, bindings, observed) ==
  BindSteps(d, bindings) \cup MetadataSteps(d, observed) \cup SchemaSteps(d, observed)
    \cup MigrationSteps(d, observed) \cup ApiSteps(d, bindings, observed)

(* Every step carries an operation; the first is the one all others follow. *)
Before(a, b) ==
  \/ a.rank[1] < b.rank[1]
  \/ a.rank[1] = b.rank[1] /\ a.rank[2] < b.rank[2]
  \/ a.rank[1] = b.rank[1] /\ a.rank[2] = b.rank[2] /\ a.rank[3] < b.rank[3]

First(steps) == {s.op : s \in {x \in steps : \A y \in steps : y = x \/ Before(x, y)}}

(* Nothing is left to do: the observation satisfies the whole level.       *)
Converged(d, bindings, observed) == Outstanding(d, bindings, observed) = {}
=============================================================================
