------------------------------- MODULE Target -------------------------------
(***************************************************************************)
(* The Supabase target (target.rs): what a pass observes of the database,  *)
(* when an operation's postcondition holds, and what one committed         *)
(* operation does.  The target state is the part of the PostgreSQL         *)
(* database the connector reads or writes: whether the receipt ledger      *)
(* exists, the schemas, the migration receipts, PostgREST's exposed        *)
(* schemas, the schemas granted to the anon role, and the schemas whose    *)
(* USAGE is granted to PUBLIC, which anon can use without a grant of its   *)
(* own (tables that lack a SELECT grant are left out).                     *)
(***************************************************************************)
EXTENDS Planner

TargetStates == [metadata : BOOLEAN,
                 schemas  : SUBSET Schemas,
                 receipts : SUBSET Receipts,
                 exposed  : SUBSET Schemas,
                 anonRead : SUBSET Schemas,
                 open     : SUBSET Schemas]

PristineTarget == [metadata |-> FALSE, schemas |-> {}, receipts |-> {},
                   exposed |-> {Public}, anonRead |-> {}, open |-> {}]

(* An observation is restricted to the schemas of the slice, except for    *)
(* the receipts and the exposed schemas, which it reads whole.  Access of  *)
(* anon is effective access: has_schema_privilege counts PUBLIC's grants.  *)
Observe(t, d) ==
  [metadata |-> t.metadata,
   schemas  |-> t.schemas \cap DesiredSchemas(d),
   receipts |-> IF t.metadata THEN t.receipts ELSE {},
   exposed  |-> t.exposed,
   anonRead |-> (t.anonRead \cup t.open) \cap t.schemas \cap DesiredSchemas(d)]

PolicyContexts(op) == ContextsOf(op.digest.content)
PolicySchemas(op) == {c.schema : c \in PolicyContexts(op)}

(* The postcondition of an interrupted operation, from current truth.      *)
OperationSatisfied(op, observed) ==
  \/ op.kind = "metadata" /\ observed.metadata
  \/ op.kind = "schema" /\ op.context.schema \in observed.schemas
  \/ op.kind = "migration" /\ MatchingReceipt(op.context, op.migration) \in observed.receipts
  \/ /\ op.kind = "api"
     /\ observed.exposed = op.exposed
     /\ \A c \in PolicyContexts(op) :
          (c.schema \in observed.anonRead) <=> WantsAnonRead(c)

(* PostgreSQL refuses a second receipt for one (resource, migration) and   *)
(* grants on a schema that does not exist.  Whether the SQL of a migration *)
(* itself is refused is left open: see ApplyRejected in Reconciler.        *)
CanExecute(t, op) ==
  /\ op.kind = "migration" => t.metadata /\ ~Receipted(op.context, op.migration, t)
  /\ op.kind = "api" => PolicySchemas(op) \subseteq t.schemas

Execute(t, op) ==
  CASE op.kind = "metadata"  -> [t EXCEPT !.metadata = TRUE]
    [] op.kind = "schema"    -> [t EXCEPT !.schemas = @ \cup {op.context.schema},
                                         !.open = @ \ {op.context.schema}]
    [] op.kind = "migration" ->
         [t EXCEPT !.receipts = @ \cup {MatchingReceipt(op.context, op.migration)}]
    [] op.kind = "api"       ->
         [t EXCEPT !.exposed = op.exposed,
                   !.anonRead = (@ \ PolicySchemas(op))
                     \cup {c.schema : c \in {x \in PolicyContexts(op) : WantsAnonRead(x)}}]
    [] OTHER                 -> t

(* What somebody else may do to the target: drop or create a schema, edit  *)
(* the exposed schemas, or grant a schema to anon.                         *)
Drifted(t) ==
  UNION {{[t EXCEPT !.schemas = @ \ {s}, !.anonRead = @ \ {s}, !.open = @ \ {s}],
          [t EXCEPT !.schemas = @ \cup {s}],
          [t EXCEPT !.exposed = @ \ {s}],
          [t EXCEPT !.exposed = @ \cup {s}],
          [t EXCEPT !.anonRead = @ \cup ({s} \cap t.schemas)]} : s \in Schemas \ {Public}}
=============================================================================
