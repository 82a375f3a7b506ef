---------------------------- MODULE MCContainers ----------------------------
(***************************************************************************)
(* Containers on a small instance: an id that is given to environments of  *)
(* either cluster, one of which a user may see and the other not; a second *)
(* environment of that user; an administrator; a group that is gone from   *)
(* the configuration, and one with a star at the end, at the start, in the *)
(* middle and at both ends.  The first environment has no namespace, and   *)
(* its cluster may be a Docker or a Kubernetes; the others are a Nomad's.  *)
(***************************************************************************)
EXTENDS Containers

CONSTANTS e1, e2, c1, c2, n1

MCEnvs == {[id |-> e1, name |-> <<"a", "/", "b">>, cluster |-> c1, ns |-> Empty],
           [id |-> e1, name |-> <<"b", "/", "a">>, cluster |-> c2, ns |-> n1],
           [id |-> e2, name |-> <<"a", "/", "b">>, cluster |-> c2, ns |-> Default]}

MCJoins == {<<c1, "docker">>, <<c1, "kube">>, <<c2, "nomad">>}

MCNames == {<<>>, <<"a">>, <<"b">>, <<"a", "b">>, <<"a", "a", "b">>,
            <<"*", "b">>, <<"*", "b", "a">>} \cup {e.name : e \in MCEnvs}

MCGroupsOf == [admin |-> {}, dev |-> {"team", "gone"}]

MCPatternsOf == [team |-> {<<"a", "*">>, <<"*", "a", "b">>, <<"a", "*", "b">>,
                           <<"*", "b", "*">>}]

MCClaims == {[sub |-> "admin", admin |-> TRUE], [sub |-> "dev", admin |-> FALSE]}
=============================================================================
