--------------------------- MODULE MCEnvironments ---------------------------
(***************************************************************************)
(* Environments on small instances, with ids that meet: namespace b of     *)
(* cluster a and the Docker Swarm a-b both have the id auto-a-b, and the   *)
(* configuration's environment of that namespace has the id a-b.           *)
(***************************************************************************)
EXTENDS Environments

MCWords == STRING
A == <<"a">>
B == <<"b">>
AB == A \o B

MCClusters == {A, AB}
MCTypes == [c \in {A, AB} |-> IF c = A THEN {"namespaced"} ELSE Types]
MCNamespaces == {B}
MCShortIds == {<<"0f2b">>}
MCYaml == << [id |-> Empty, cluster |-> A, ns |-> B] >>
NoEntries == <<>>
Nothing == {}
MCPosted == {[id |-> Empty, cluster |-> A, ns |-> B],
             [id |-> AutoId(A, B), cluster |-> AB, ns |-> Empty]}
=============================================================================
