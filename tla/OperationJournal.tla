-------------------------- MODULE OperationJournal --------------------------
(***************************************************************************)
(* The operation journal as its readers see it (journal.rs): the folded    *)
(* snapshot of an append-only S2 stream, and what one appended event does  *)
(* to it.                                                                  *)
(*                                                                         *)
(* The numeric tail is only ever compared for equality with the tail a     *)
(* plan was bound to, the one right after its PlanCreated record.  The     *)
(* snapshot therefore keeps the plan whose PlanCreated is the LAST record  *)
(* ("fence"): the journal has not moved since exactly when the plan still  *)
(* is the fence.  Any other record moves the tail past it.                 *)
(***************************************************************************)
EXTENDS Planner

CONSTANT PlanIds        \* digests that identify plans

ASSUME NoneIsNoPlanId == None \notin PlanIds

EmptyJournal == [bindings |-> {}, operations |-> << >>, fence |-> None]

(* The events, with the fields the fold or a reader looks at.              *)
PlanCreated(id)           == [kind |-> "PlanCreated", plan |-> id]
PlanStale(id)             == [kind |-> "PlanStale", plan |-> id]
BindingEstablished(b)     == [kind |-> "BindingEstablished", binding |-> b]
OperationStarted(id, op)  == [kind |-> "Started", plan |-> id, operation |-> op]
OperationSucceeded(id, op) == [kind |-> "Succeeded", plan |-> id, operation |-> op]
OperationFailed(id, op)   == [kind |-> "Failed", plan |-> id, operation |-> op]
GraphReleased(g)          == [kind |-> "GraphReleased", graph |-> g]

(* Readers compare the plan of a started operation with the plan at hand,  *)
(* and never look at the plan of a terminal receipt.                       *)
OperationStates == [state : {"Started"}, plan : PlanIds]
                     \cup [state : {"Succeeded", "Failed"}, plan : {None}]
ReceiptOf(e) ==
  [state |-> e.kind, plan |-> IF e.kind = "Started" THEN e.plan ELSE None]

JournalTyped(j) ==
  /\ j \in [bindings : SUBSET Bindings, operations : {j.operations}, fence : PlanIds \cup {None}]
  /\ DOMAIN j.operations \subseteq Operations
  /\ \A op \in DOMAIN j.operations : j.operations[op] \in OperationStates

(* The latest receipt of an operation id replaces the earlier ones.        *)
Receipt(operations, op, receipt) ==
  [o \in DOMAIN operations \cup {op} |-> IF o = op THEN receipt ELSE operations[o]]

(* One binding per resource identity: the map is keyed by it.              *)
Claim(bindings, b) == {x \in bindings : x.resource # b.resource} \cup {b}

(* Faulty variant: the fold ignores the release.                           *)
ReleaseIgnored(bindings, g) == bindings

Release(bindings, g) == {b \in bindings : b.graph # g}

(* JournalSnapshot::apply, and the tail moving with every record.          *)
Appended(j, e) ==
  CASE e.kind = "PlanCreated"        -> [j EXCEPT !.fence = e.plan]
    [] e.kind = "PlanStale"          -> [j EXCEPT !.fence = None]
    [] e.kind = "BindingEstablished" ->
         [j EXCEPT !.bindings = Claim(@, e.binding), !.fence = None]
    [] e.kind = "GraphReleased"      ->
         [j EXCEPT !.bindings = Release(@, e.graph), !.fence = None]
    [] OTHER                         ->
         [j EXCEPT !.operations = Receipt(@, e.operation, ReceiptOf(e)),
                   !.fence = None]

Known(j, op) == op \in DOMAIN j.operations

StartedBy(j, op, id) == Known(j, op) /\ j.operations[op] = [state |-> "Started", plan |-> id]
=============================================================================
