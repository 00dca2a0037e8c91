--------------------------- MODULE SliceAcceptance ---------------------------
(***************************************************************************)
(* The boundary of ReconcileSlice (slice.rs and the boundary checks of     *)
(* context.rs): which requests become a desired slice, and its digest.     *)
(* The loops of from_view are folds that carry what they have met.         *)
(*                                                                         *)
(* A field that is absent, malformed or empty is None.  Hashes are         *)
(* injective: the hash of a spec is the spec.  JSON comes in spellings     *)
(* (space, order of keys) of a value; parsing and writing it again leaves  *)
(* one of them, so what is kept is the value.                              *)
(***************************************************************************)
EXTENDS Naturals, SequencesExt

CONSTANTS
  ConnectorName,   \* the registry key this connector serves
  ApiVersion,      \* the context format it reads
  Configured,      \* the one stack, project and database of version 1
  Reserved,        \* schemas a component must not name
  None             \* "no value"

(* The contexts that can be accepted: migrations are checked at planning.  *)
BoundaryHolds(context) ==
  /\ context # None
  /\ context.version = ApiVersion
  /\ context.resource # None
  /\ context.target = Configured
  /\ context.schema \notin Reserved \cup {None}

Parses(component) ==
  LET spec == component.spec IN
  /\ component.hash # None
  /\ spec # None
  /\ component.hash = spec
  /\ spec.name # None
  /\ spec.connector = ConnectorName
  /\ IsInjective(spec.dependsOn)
  /\ BoundaryHolds(spec.context)

-----------------------------------------------------------------------------
(* The loop over the components *)

NoComponents == [ok |-> TRUE, names |-> {}, resources |-> {}, schemas |-> {}, targets |-> {},
                 specs |-> {}]

Met(so_far, spec) ==
  [so_far EXCEPT !.names = @ \cup {spec.name},
                 !.resources = @ \cup {spec.context.resource},
                 !.schemas = @ \cup {spec.context.schema},
                 !.targets = @ \cup {spec.context.target},
                 !.specs = @ \cup {spec}]

Rejected(so_far) == [so_far EXCEPT !.ok = FALSE]

(* Faulty variant: two components may share a schema.                      *)
InsertSharing(so_far, component) ==
  LET spec == component.spec IN
  IF /\ so_far.ok
     /\ Parses(component)
     /\ spec.name \notin so_far.names
     /\ spec.context.resource \notin so_far.resources
  THEN Met(so_far, spec)
  ELSE Rejected(so_far)

Insert(so_far, component) ==
  LET spec == component.spec IN
  IF /\ so_far.ok
     /\ Parses(component)
     /\ spec.name \notin so_far.names
     /\ spec.context.resource \notin so_far.resources
     /\ spec.context.schema \notin so_far.schemas
     /\ so_far.targets \subseteq {spec.context.target}
     /\ spec \notin so_far.specs
  THEN Met(so_far, spec)
  ELSE Rejected(so_far)

-----------------------------------------------------------------------------
(* The loop over the upstream outputs *)

NoOutputs == [ok |-> TRUE, producers |-> {}, outputs |-> {}]

InsertOutput(so_far, output) ==
  IF /\ so_far.ok
     /\ output.producer # None
     /\ output.json # None
     /\ output.producer \notin so_far.producers
  THEN [so_far EXCEPT !.producers = @ \cup {output.producer},
                      !.outputs = @ \cup {[producer |-> output.producer,
                                           value |-> output.json.value]}]
  ELSE Rejected(so_far)

-----------------------------------------------------------------------------
(* from_view: the desired slice of a request, or None.  Components and     *)
(* outputs are kept in the order of their hashes, so as sets.              *)
FromView(request) ==
  LET components == FoldLeft(Insert, NoComponents, request.components)
      upstream == FoldLeft(InsertOutput, NoOutputs, request.upstream)
  IN IF /\ request.graph # None
        /\ request.generation \notin {None, 0}
        /\ request.sequence # None
        /\ request.connector = ConnectorName
        /\ components.ok
        /\ upstream.ok
     THEN [graph |-> request.graph, generation |-> request.generation,
           sequence |-> request.sequence, specs |-> components.specs,
           outputs |-> upstream.outputs]
     ELSE None

DigestOf(slice) ==
  [graph |-> slice.graph, generation |-> slice.generation, specs |-> slice.specs,
   outputs |-> slice.outputs]
=============================================================================
