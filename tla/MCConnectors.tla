---------------------------- MODULE MCConnectors ----------------------------
(***************************************************************************)
(* Small instances of Connectors for TLC: two connectors that serve the    *)
(* same graph, or graphs that are rivals for the target.                   *)
(***************************************************************************)
EXTENDS Connectors, FiniteSets, TLC

CONSTANTS A, B,                \* two graphs
          WantA, WantB,        \* what they want: one component,
          DataA, DataB,        \* and its resource
          P, Q                 \* two connectors

Migration(id, checksum) == [id |-> id, checksum |-> checksum, sound |-> TRUE, inputs |-> {}]

Context(resource, schema, migrations, expose) ==
  [resource |-> resource, schema |-> schema, migrations |-> migrations,
   expose |-> expose, anonRead |-> expose]

MCComponents ==
  [c \in {WantA, WantB} |->
     <<Context(IF c = WantA THEN DataA ELSE DataB, "app", <<Migration(1, "one")>>, FALSE)>>]
MCContents == DOMAIN MCComponents
MCUpstream == [c \in MCContents |-> {}]

Level(g, content) == [graph |-> g, sequence |-> 1, generation |-> 1, content |-> content]
MCSlices == {Level(A, WantA), Level(B, WantB)}

WithLedger == {[PristineTarget EXCEPT !.metadata = TRUE, !.schemas = {"app"}]}
LedgerOnly == {[PristineTarget EXCEPT !.metadata = TRUE]}

(* Nothing tells the two connectors apart, nor the two graphs when their   *)
(* levels and resources change places with them.                           *)
Rivals ==
  [x \in {A, B, WantA, WantB, DataA, DataB} |->
     CASE x = A -> B [] x = B -> A [] x = WantA -> WantB [] x = WantB -> WantA
       [] x = DataA -> DataB [] x = DataB -> DataA]
Alike == Permutations(Connectors) \cup {Rivals}
=============================================================================
