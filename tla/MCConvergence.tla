--------------------------- MODULE MCConvergence ---------------------------
(***************************************************************************)
(* A small instance of Convergence for TLC, started on every database that *)
(* two components, three migrations and three schemas can tell apart.      *)
(***************************************************************************)
EXTENDS Convergence, FiniteSets

CONSTANT A

Migration(id, checksum) == [id |-> id, checksum |-> checksum, sound |-> TRUE, inputs |-> {}]

Context(resource, schema, migrations, expose, anonRead) ==
  [resource |-> resource, schema |-> schema, migrations |-> migrations,
   expose |-> expose, anonRead |-> anonRead]

MCComponents ==
  [twin |-> <<Context("r", "app", <<Migration(1, "one"), Migration(3, "three")>>, TRUE, TRUE),
              Context("s", "web", <<Migration(1, "one")>>, FALSE, TRUE)>>,
   late |-> <<Context("s", "web", <<Migration(1, "one")>>, TRUE, FALSE),
              Context("r", "app", <<Migration(1, "one"), Migration(2, "two"),
                                    Migration(3, "three")>>, TRUE, TRUE)>>]

MCContents == DOMAIN MCComponents
MCUpstream == [c \in MCContents |-> {}]
MCSlices == {[graph |-> A, sequence |-> 1, generation |-> 1, content |-> "twin"],
             [graph |-> A, sequence |-> 2, generation |-> 2, content |-> "late"]}

Ledger(resource, id, checksum) ==
  [resource |-> resource, id |-> id, checksum |-> checksum]

MCReceipts == {Ledger("r", 1, "one"), Ledger("r", 3, "three"), Ledger("r", 3, "one"),
               Ledger("s", 1, "one")}

AnyTarget ==
  {t \in [metadata : BOOLEAN, schemas : SUBSET {"app", "web"}, receipts : SUBSET MCReceipts,
          exposed : SUBSET Schemas, anonRead : SUBSET {"app", "web"}, open : {{}}] :
     /\ ~t.metadata => t.receipts = {}
     /\ t.anonRead \subseteq t.schemas
     /\ \A x, y \in t.receipts : x.resource = y.resource /\ x.id = y.id => x = y}
=============================================================================
