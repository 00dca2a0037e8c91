---------------------------- MODULE MCReconciler ----------------------------
(***************************************************************************)
(* Small instances of Reconciler for TLC: the contents and the levels each *)
(* configuration sends, and the properties the runs check.                 *)
(***************************************************************************)
EXTENDS Reconciler, FiniteSets

CONSTANTS A, B       \* two graphs

Migration(id, checksum, inputs) ==
  [id |-> id, checksum |-> checksum, sound |-> TRUE, inputs |-> inputs]

Context(resource, schema, migrations, expose, anonRead) ==
  [resource |-> resource, schema |-> schema, migrations |-> migrations,
   expose |-> expose, anonRead |-> anonRead]

M1 == Migration(1, "one", {})
M2 == Migration(2, "two", {[source |-> "auth", default |-> FALSE]})

MCComponents ==
  [bare   |-> <<Context("r", "app", << >>, FALSE, FALSE)>>,
   small  |-> <<Context("r", "app", <<M1>>, TRUE, TRUE)>>,
   grown  |-> <<Context("r", "app", <<M1, M2>>, FALSE, FALSE)>>,
   waits  |-> <<Context("r", "app", <<M1, M2>>, TRUE, TRUE)>>,
   edited |-> <<Context("r", "app", <<Migration(1, "changed", {})>>, TRUE, TRUE)>>,
   other  |-> <<Context("s", "web", << >>, FALSE, FALSE)>>,
   pair   |-> <<Context("r", "app", <<M1>>, TRUE, FALSE), Context("s", "web", << >>, TRUE, TRUE)>>]

AllContents == DOMAIN MCComponents
AppContents == AllContents \ {"pair", "other"}
MCUpstream == [c \in AllContents |-> IF c = "grown" THEN {"auth"} ELSE {}]
OneSchema == {"public", "app"}
TwoSchemas == {"public", "app", "web"}

Level(g, sequence, generation, content) ==
  [graph |-> g, sequence |-> sequence, generation |-> generation, content |-> content]

Pristine == {PristineTarget}
Provisioned == {[PristineTarget EXCEPT !.schemas = {"app", "web"}]}
WebReady == {[PristineTarget EXCEPT !.metadata = TRUE, !.schemas = {"web"}]}

Once == {Level(A, 1, 1, "small")}
Revised == {Level(A, 1, 1, "pair"), Level(A, 2, 2, "grown")}
Refused == {Level(A, 1, 1, "small"), Level(A, 2, 2, "waits"), Level(A, 3, 3, "edited")}
Rivals == {Level(A, 1, 1, "bare"), Level(B, 1, 1, "other")}
-----------------------------------------------------------------------------
(* A plan id is only ever compared with the ids of plans that a checkpoint *)
(* or an activity holds, and a graph holds at most one.  States that agree *)
(* after naming each id by the graph that holds it, and every other id by  *)
(* None, behave alike; TLC tells states apart by this view of them.        *)
HoldsPlan(g, id) == \/ chk[g] # None /\ chk[g].plan # None /\ chk[g].plan.id = id
                    \/ work[g].plan # None /\ work[g].plan.id = id
Holders(id) == {g \in Graphs : HoldsPlan(g, id)}
Anonymous(plan) == IF plan = None THEN None ELSE <<plan.slice, plan.op, plan.observed>>

View ==
  <<proc, boot, desired, tasks, pc, queue, target, core,
    [g \in Graphs |-> IF chk[g] = None THEN None
                      ELSE <<chk[g].slice, Anonymous(chk[g].plan), chk[g].report, chk[g].retired>>],
    [g \in Graphs |-> <<Anonymous(work[g].plan), work[g].report, work[g].requeue>>],
    journal.bindings,
    Holders(journal.fence),
    [op \in DOMAIN journal.operations |->
       <<journal.operations[op].state, Holders(journal.operations[op].plan)>>]>>
=============================================================================
