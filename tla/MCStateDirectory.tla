-------------------------- MODULE MCStateDirectory --------------------------
(***************************************************************************)
(* A small instance of StateDirectory for TLC: two levels of a graph, each *)
(* request in more than one spelling, and the requests that come near them *)
(* and must be refused.                                                    *)
(***************************************************************************)
EXTENDS StateDirectory, TLC

CONSTANTS A,           \* a graph
          One, Two     \* two plans

Spec1(name, resource, schema) ==
  [name |-> name, connector |-> "supabase", dependsOn |-> << >>,
   context |-> [version |-> 1, resource |-> resource, target |-> "local", schema |-> schema]]

Pin(spec) == [hash |-> spec, spec |-> spec]

App == Spec1("app", "r", "app")
Web == Spec1("web", "s", "web")
Rival == Spec1("rival", "t", "app")
Hidden == Spec1("hidden", "u", "vault")

Output(value, spelling) == [producer |-> "core", json |-> [value |-> value, spelling |-> spelling]]

Request(g, sequence, generation, components, upstream) ==
  [graph |-> g, sequence |-> sequence, generation |-> generation, connector |-> "supabase",
   components |-> components, upstream |-> upstream]

(* The same level twice, in another order and spelling; its successor; and *)
(* other contents of an older generation under the successor's sequence.   *)
Levels == {
  Request(A, 1, 2, <<Pin(App), Pin(Web)>>, <<Output("x", "wide")>>),
  Request(A, 1, 2, <<Pin(Web), Pin(App)>>, <<Output("x", "narrow")>>),
  Request(A, 2, 2, <<Pin(App)>>, << >>),
  Request(A, 2, 1, <<Pin(App)>>, << >>)}

(* Refused: a shared schema, a repeated component, a hash of other         *)
(* content, a reserved schema, outputs twice, text that is no JSON.        *)
Refused == {
  Request(A, 2, 2, <<Pin(App), Pin(Rival)>>, << >>),
  Request(A, 2, 2, <<Pin(App), Pin(App)>>, << >>),
  Request(A, 2, 2, <<[hash |-> Web, spec |-> App]>>, << >>),
  Request(A, 2, 2, <<Pin(Hidden)>>, << >>),
  Request(A, 2, 2, <<Pin(App)>>, <<Output("x", "wide"), Output("y", "wide")>>),
  Request(A, 2, 2, <<Pin(App)>>, <<[producer |-> "core", json |-> None]>>)}

AllRequests == Levels \cup Refused

TwoPlans == {One, Two}
Interchangeable == Permutations(TwoPlans)
=============================================================================
