-------------------------- MODULE EnvironmentsProofs --------------------------
(***************************************************************************)
(* Theorems about Environments, for any clusters, namespaces,              *)
(* configuration and requests: its type invariant, that the discovery      *)
(* remembers every environment it registered, that it leaves the others    *)
(* alone, and that the cluster of an added environment is known.           *)
(***************************************************************************)
EXTENDS Environments, SequenceTheorems, TLAPS

USE NamesAssumption, TypesAssumption, ShortIdsAssumption, ConfigAssumption, PostedAssumption

-----------------------------------------------------------------------------
(* Ids.                                                                    *)

(* Joining gives names, of at least two parts.                             *)
LEMMA JoinName ==
  ASSUME NEW s \in Name, NEW t \in Name
  PROVE  s \o t \in Name /\ Len(s \o t) > 1 /\ Head(s \o t) = Head(s)
<1>1. s \in Seq(Words) /\ s # <<>> /\ t \in Seq(Words) /\ t # <<>>
  BY DEF Name
<1>2. Len(s) > 0 /\ Len(t) > 0
  BY <1>1, EmptySeq
<1>3. s \o t \in Seq(Words) /\ Len(s \o t) = Len(s) + Len(t) /\ (s \o t)[1] = s[1]
  BY <1>1, <1>2
<1> QED
  BY <1>1, <1>2, <1>3 DEF Name

LEMMA AutoName == <<"auto">> \in Name /\ Head(<<"auto">>) = "auto" /\ Empty \in Name
<1>1. "auto" \in Words /\ "" \in Words
  BY WordsAssumption
<1>2. \A w \in Words : <<w>> \in Seq(Words) /\ Len(<<w>>) = 1 /\ Head(<<w>>) = w
  OBVIOUS
<1>3. \A w \in Words : <<w>> \in Name
  BY <1>2, EmptySeq DEF Name
<1> QED
  BY <1>1, <1>2, <1>3 DEF Empty

(* The ids of the discovery are recognised by their prefix.                *)
LEMMA AutoIdIsAuto ==
  ASSUME NEW c \in Clusters
  PROVE  /\ SwarmId(c) \in Ids /\ IsAuto(SwarmId(c))
         /\ \A n \in Namespaces : AutoId(c, n) \in Ids /\ IsAuto(AutoId(c, n))
<1>1. c \in Name
  OBVIOUS
<1>2. SwarmId(c) \in Name /\ IsAuto(SwarmId(c)) /\ Head(SwarmId(c)) = "auto"
  BY <1>1, AutoName, JoinName DEF SwarmId, IsAuto
<1>3. ASSUME NEW n \in Namespaces
      PROVE  IsAuto(AutoId(c, n))
  <2>1. n \in Name /\ AutoId(c, n) = SwarmId(c) \o n
    BY DEF AutoId, SwarmId
  <2>2. Len(SwarmId(c) \o n) > 1 /\ Head(SwarmId(c) \o n) = "auto"
    BY <1>2, <2>1, JoinName
  <2> QED
    BY <2>1, <2>2 DEF IsAuto
<1> QED
  BY <1>2, <1>3 DEF Ids

LEMMA LoadedType == Loaded \in Seq(Request)
<1>1. ASSUME NEW i \in 1..Len(Yaml)
      PROVE  WithId(Yaml[i], ConfigId(Yaml[i]), Yaml[i].ns) \in Request
  <2>1. Yaml[i] \in Request
    OBVIOUS
  <2>2. Yaml[i].cluster \o Yaml[i].ns \in Name
    BY <2>1, JoinName DEF Request
  <2> QED
    BY <2>1, <2>2 DEF Request, WithId, ConfigId
<1>2. [i \in 1..Len(Yaml) |-> WithId(Yaml[i], ConfigId(Yaml[i]), Yaml[i].ns)] \in Seq(Request)
  <2>1. Len(Yaml) \in Nat
    OBVIOUS
  <2> QED
    BY <1>1, <2>1, IsASeq
<1> QED
  BY <1>2, ConcatProperties DEF Loaded

LEMMA ConfiguredType ==
  ASSUME NEW id
  PROVE  /\ Configured(id) \in Env \cup {None}
         /\ Configured(id) # None => Configured(id).by = "config"
<1> DEFINE LastOf(i) == /\ Loaded[i].id = id
                        /\ \A j \in DOMAIN Loaded : Loaded[j].id = id => j <= i
<1>1. CASE \E i \in DOMAIN Loaded : LastOf(i)
  <2>1. PICK i \in DOMAIN Loaded : Configured(id) = AsEnv(Loaded[i], "config")
    BY <1>1 DEF Configured
  <2>2. Loaded[i] \in Request
    BY LoadedType
  <2> QED
    BY <2>1, <2>2 DEF AsEnv, Env, Request
<1>2. CASE ~\E i \in DOMAIN Loaded : LastOf(i)
  BY <1>2 DEF Configured
<1> QED
  BY <1>1, <1>2

-----------------------------------------------------------------------------
(* Types.                                                                  *)

LEMMA InitTypes == Init => TypeOK
<1> SUFFICES ASSUME Init PROVE TypeOK
  OBVIOUS
<1>1. envs \in [Ids -> Env \cup {None}]
  BY ConfiguredType DEF Init
<1>2. clusters \in [Clusters -> Types \cup {None}]
  BY DEF Init
<1> QED
  BY <1>1, <1>2 DEF Init, TypeOK

LEMMA AsEnvType ==
  ASSUME NEW e \in Found, NEW who \in {"admin", "discovery"}
  PROVE  AsEnv(e, who) \in Env
BY DEF Found, AsEnv, Env

LEMMA DiscoversTypes == TypeOK /\ Discovers => TypeOK'
<1> SUFFICES ASSUME TypeOK, Discovers PROVE TypeOK'
  OBVIOUS
<1>1. CASE StartPass
  BY <1>1 DEF TypeOK, StartPass, worldVars
<1>2. CASE Skip
  BY <1>2 DEF TypeOK, Skip, worldVars
<1>3. CASE VisitSwarm
  <2>1. PICK x \in todo :
          found' = {[id |-> SwarmId(x.cluster), cluster |-> x.cluster, ns |-> Empty]}
          /\ todo' = todo \ {x}
    BY <1>3 DEF VisitSwarm
  <2>2. x.cluster \in Clusters
    BY <2>1 DEF TypeOK, Copies
  <2>3. found' \subseteq Found
    BY <2>1, <2>2, AutoIdIsAuto, AutoName DEF Found
  <2> QED
    BY <1>3, <2>1, <2>3 DEF TypeOK, VisitSwarm, worldVars
<1>4. CASE VisitNamespaced
  BY <1>4 DEF TypeOK, VisitNamespaced, worldVars, Copies
<1>5. CASE ListFails
  BY <1>5 DEF TypeOK, ListFails, worldVars
<1>6. CASE Lists
  <2>1. /\ listing \in Clusters
        /\ found' = {[id |-> AutoId(listing, n), cluster |-> listing, ns |-> n] :
                     n \in namespaces[listing]}
    BY <1>6 DEF Lists, TypeOK
  <2>2. namespaces[listing] \subseteq Namespaces
    BY <2>1 DEF TypeOK
  <2>3. found' \subseteq Found
    BY <2>1, <2>2, AutoIdIsAuto DEF Found
  <2> QED
    BY <1>6, <2>3 DEF TypeOK, Lists, worldVars
<1>7. CASE RegisterEnvironment
  <2>1. PICK e \in found :
          /\ found' = found \ {e} /\ newDiscovered' = newDiscovered \cup {e.id}
          /\ envs' = [envs EXCEPT ![e.id] = AsEnv(e, "discovery")]
    BY <1>7 DEF RegisterEnvironment
  <2>2. e.id \in Ids /\ AsEnv(e, "discovery") \in Env
    BY <2>1, AsEnvType DEF TypeOK, Found
  <2> QED
    BY <1>7, <2>1, <2>2 DEF TypeOK, RegisterEnvironment, worldVars
<1>8. CASE Sweep
  BY <1>8 DEF TypeOK, Sweep, worldVars
<1>9. CASE RemoveDiscovered
  BY <1>9 DEF TypeOK, RemoveDiscovered, worldVars
<1>10. CASE EndPass
  BY <1>10 DEF TypeOK, EndPass, worldVars
<1> QED
  BY <1>1, <1>2, <1>3, <1>4, <1>5, <1>6, <1>7, <1>8, <1>9, <1>10 DEF Discovers

(* What addEnvironment hands from its first lock section to its second.    *)
LEMMA AddEnvironmentEffect ==
  ASSUME TypeOK, AddEnvironment
  PROVE  \E e \in Found : /\ adding' = adding \cup {e}
                         /\ clusters[e.cluster] # None
<1>1. PICK p \in Posted :
        /\ clusters[p.cluster] # None
        /\ \E id \in IF p.id # Empty THEN {p.id}
                      ELSE {i \in ShortIds : envs[i] = None /\ \A a \in adding : a.id # i} :
             adding' = adding \cup
               {WithId(p, id, IF clusters[p.cluster] = "swarm" THEN Empty ELSE p.ns)}
  BY DEF AddEnvironment
<1>2. PICK id \in Ids :
        adding' = adding \cup
          {WithId(p, id, IF clusters[p.cluster] = "swarm" THEN Empty ELSE p.ns)}
  BY <1>1 DEF Ids
<1>3. p.cluster \in Clusters /\ p.ns \in Name
  BY DEF Request
<1> DEFINE ns == IF clusters[p.cluster] = "swarm" THEN Empty ELSE p.ns
<1>4. ns \in Name
  BY <1>3, AutoName
<1> HIDE DEF ns
<1>5. WithId(p, id, ns) \in Found /\ WithId(p, id, ns).cluster = p.cluster
  BY <1>2, <1>3, <1>4 DEF WithId, Found
<1> QED
  BY <1>1, <1>2, <1>5 DEF ns

LEMMA AdministersTypes == TypeOK /\ Administers => TypeOK'
<1> SUFFICES ASSUME TypeOK, Administers PROVE TypeOK'
  OBVIOUS
<1>1. CASE AddEnvironment
  <2>1. adding' \subseteq Found
    BY <1>1, AddEnvironmentEffect DEF TypeOK
  <2> QED
    BY <1>1, <2>1 DEF TypeOK, AddEnvironment, worldVars, passVars
<1>2. CASE AddStored
  <2>1. PICK e \in adding : /\ envs' = [envs EXCEPT ![e.id] = AsEnv(e, "admin")]
                           /\ adding' = adding \ {e}
    BY <1>2 DEF AddStored
  <2>2. AsEnv(e, "admin") \in Env
    BY <2>1, AsEnvType DEF TypeOK
  <2> QED
    BY <1>2, <2>1, <2>2 DEF TypeOK, AddStored, worldVars, passVars
<1>3. CASE RemoveEnvironment
  BY <1>3 DEF TypeOK, RemoveEnvironment, worldVars, passVars
<1> QED
  BY <1>1, <1>2, <1>3 DEF Administers

LEMMA HappensTypes == TypeOK /\ Happens => TypeOK'
<1> SUFFICES ASSUME TypeOK, Happens PROVE TypeOK'
  OBVIOUS
<1>1. CASE Restart
  <2>1. envs' \in [Ids -> Env \cup {None}]
    BY <1>1, ConfiguredType DEF Restart
  <2> QED
    BY <1>1, <2>1 DEF TypeOK, Restart
<1>2. CASE QuietChanges
  BY <1>2 DEF TypeOK, QuietChanges, World, passVars
<1>3. ASSUME NEW c \in Clusters,
             Connects(c) \/ ClusterJoined(c) \/ Disconnects(c) \/ NamespacesChange(c)
      PROVE  TypeOK'
  <2>1. /\ namespaces' \in [Clusters -> SUBSET Namespaces]
        /\ online' \subseteq Clusters /\ quiet' \in BOOLEAN
    BY <1>3 DEF TypeOK, Connects, ClusterJoined, Disconnects, NamespacesChange
  <2>2. clusters' \in [Clusters -> Types \cup {None}]
    <3>1. TypesOf[c] \subseteq Types
      OBVIOUS
    <3> QED
      BY <1>3, <3>1 DEF TypeOK, Connects, ClusterJoined, Disconnects, NamespacesChange
  <2>3. UNCHANGED <<envs, adding, passVars>>
    BY <1>3 DEF Connects, ClusterJoined, Disconnects, NamespacesChange, World
  <2> QED
    BY <2>1, <2>2, <2>3 DEF TypeOK, passVars
<1> QED
  BY <1>1, <1>2, <1>3 DEF Happens

LEMMA NextTypes == TypeOK /\ [Next]_vars => TypeOK'
<1>1. TypeOK /\ UNCHANGED vars => TypeOK'
  BY DEF TypeOK, vars, worldVars, passVars
<1> QED
  BY <1>1, DiscoversTypes, AdministersTypes, HappensTypes DEF Next

(* Every variable keeps its type: every id is one that the configuration,  *)
(* a request or the discovery makes (main.go:81-109, discovery.go:74-136). *)
THEOREM TypeCorrect == Spec => []TypeOK
BY InitTypes, NextTypes, PTL DEF Spec

-----------------------------------------------------------------------------
(* What the discovery remembers.  Where an environment of its own is       *)
(* remembered depends on where the pass is: in the last pass's set until a *)
(* pass has begun, in either set during one, and, once the stale ids have  *)
(* been worked out, in this pass's set or among those to be removed.       *)

Tracked(id) ==
  /\ pass = "idle" => id \in discovered
  /\ pass \in {"visit", "list"} => id \in discovered \cup newDiscovered
  /\ pass = "sweep" => id \in newDiscovered \cup stale

Own(id) == envs[id] # None /\ envs[id].by = "discovery"

AllTracked == \A id \in Ids : Own(id) => Tracked(id)
AutoOnly   == /\ \A e \in found : IsAuto(e.id)
              /\ \A id \in newDiscovered \cup discovered \cup stale : IsAuto(id)
StaleKnown == stale \subseteq discovered
IdleFound  == pass \in {"idle", "sweep", "list"} => found = {}

DiscoveryInv == AllTracked /\ AutoOnly /\ StaleKnown /\ IdleFound

LEMMA InitDiscovery == Init => DiscoveryInv
<1> SUFFICES ASSUME Init PROVE DiscoveryInv
  OBVIOUS
<1>1. AllTracked
  BY ConfiguredType DEF Init, AllTracked, Own
<1> QED
  BY <1>1 DEF Init, DiscoveryInv, AutoOnly, StaleKnown, IdleFound

LEMMA DiscoversInv == TypeOK /\ DiscoveryInv /\ Discovers => DiscoveryInv'
<1> SUFFICES ASSUME TypeOK, DiscoveryInv, Discovers PROVE DiscoveryInv'
  OBVIOUS
<1> USE DEF DiscoveryInv, AllTracked, AutoOnly, StaleKnown, IdleFound
<1>1. CASE StartPass
  BY <1>1 DEF StartPass, Tracked, Own
<1>2. CASE Skip
  BY <1>2 DEF Skip, Tracked, Own
<1>3. CASE VisitSwarm
  <2>1. PICK x \in todo :
          found' = {[id |-> SwarmId(x.cluster), cluster |-> x.cluster, ns |-> Empty]}
    BY <1>3 DEF VisitSwarm
  <2>2. x.cluster \in Clusters
    BY <2>1 DEF TypeOK, Copies
  <2>3. \A e \in found' : IsAuto(e.id)
    BY <2>1, <2>2, AutoIdIsAuto
  <2> QED
    BY <1>3, <2>3 DEF VisitSwarm, Tracked, Own
<1>4. CASE VisitNamespaced
  BY <1>4 DEF VisitNamespaced, Tracked, Own
<1>5. CASE ListFails
  BY <1>5 DEF ListFails, Tracked, Own
<1>6. CASE Lists
  <2>1. /\ listing \in Clusters
        /\ found' = {[id |-> AutoId(listing, n), cluster |-> listing, ns |-> n] :
                     n \in namespaces[listing]}
    BY <1>6 DEF Lists, TypeOK
  <2>2. namespaces[listing] \subseteq Namespaces
    BY <2>1 DEF TypeOK
  <2>3. \A e \in found' : IsAuto(e.id)
    BY <2>1, <2>2, AutoIdIsAuto
  <2> QED
    BY <1>6, <2>3 DEF Lists, Tracked, Own
<1>7. CASE RegisterEnvironment
  <2>1. PICK e \in found :
          /\ found' = found \ {e} /\ newDiscovered' = newDiscovered \cup {e.id}
          /\ envs' = [envs EXCEPT ![e.id] = AsEnv(e, "discovery")]
    BY <1>7 DEF RegisterEnvironment
  <2>2. pass = "visit" /\ UNCHANGED <<pass, discovered, stale>>
    BY <1>7 DEF RegisterEnvironment
  <2>3. AllTracked'
    <3> SUFFICES ASSUME NEW id \in Ids, Own(id)' PROVE Tracked(id)'
      BY DEF AllTracked
    <3>1. CASE id = e.id
      BY <2>1, <2>2, <3>1 DEF Tracked
    <3>2. CASE id # e.id
      BY <2>1, <2>2, <3>2 DEF Tracked, Own, TypeOK
    <3> QED
      BY <3>1, <3>2
  <2> QED
    BY <2>1, <2>2, <2>3
<1>8. CASE Sweep
  BY <1>8 DEF Sweep, Tracked, Own
<1>9. CASE RemoveDiscovered
  <2>1. PICK id \in stale : /\ stale' = stale \ {id}
                           /\ envs' = [envs EXCEPT ![id] = None]
    BY <1>9 DEF RemoveDiscovered
  <2>2. pass = "sweep" /\ UNCHANGED <<pass, found, newDiscovered, discovered>>
    BY <1>9 DEF RemoveDiscovered
  <2>3. AllTracked'
    BY <2>1, <2>2 DEF Tracked, Own, TypeOK
  <2> QED
    BY <2>1, <2>2, <2>3
<1>10. CASE EndPass
  BY <1>10 DEF EndPass, Tracked, Own
<1> QED
  BY <1>1, <1>2, <1>3, <1>4, <1>5, <1>6, <1>7, <1>8, <1>9, <1>10 DEF Discovers

LEMMA OthersInv == TypeOK /\ DiscoveryInv /\ (Administers \/ Happens) => DiscoveryInv'
<1> SUFFICES ASSUME TypeOK, DiscoveryInv, Administers \/ Happens PROVE DiscoveryInv'
  OBVIOUS
<1> USE DEF DiscoveryInv, AllTracked, AutoOnly, StaleKnown, IdleFound
<1>1. CASE Restart
  BY <1>1, ConfiguredType DEF Restart, Own
<1>2. CASE AddStored
  <2>1. PICK e \in adding : envs' = [envs EXCEPT ![e.id] = AsEnv(e, "admin")]
    BY <1>2 DEF AddStored
  <2>2. \A id \in Ids : Own(id)' => Own(id)
    BY <2>1 DEF Own, AsEnv, TypeOK
  <2> QED
    BY <1>2, <2>2 DEF AddStored, passVars, Tracked
<1>3. CASE RemoveEnvironment
  <2>1. PICK r \in Ids : envs' = [envs EXCEPT ![r] = None]
    BY <1>3 DEF RemoveEnvironment
  <2>2. \A id \in Ids : Own(id)' => Own(id)
    BY <2>1 DEF Own, TypeOK
  <2> QED
    BY <1>3, <2>2 DEF RemoveEnvironment, passVars, Tracked
<1>4. CASE UNCHANGED <<envs, passVars>>
  BY <1>4 DEF passVars, Tracked, Own
<1> QED
  BY <1>1, <1>2, <1>3, <1>4
  DEF Administers, Happens, AddEnvironment, Connects, ClusterJoined, Disconnects,
      NamespacesChange, QuietChanges, World

LEMMA NextDiscovery == TypeOK /\ DiscoveryInv /\ [Next]_vars => DiscoveryInv'
<1>1. DiscoveryInv /\ UNCHANGED vars => DiscoveryInv'
  BY DEF DiscoveryInv, AllTracked, AutoOnly, StaleKnown, IdleFound, vars, passVars, Tracked, Own
<1> QED
  BY <1>1, DiscoversInv, OthersInv DEF Next

LEMMA DiscoverySafe == Spec => [](TypeOK /\ DiscoveryInv)
<1>1. Init => TypeOK /\ DiscoveryInv
  BY InitTypes, InitDiscovery
<1>2. TypeOK /\ DiscoveryInv /\ [Next]_vars => (TypeOK /\ DiscoveryInv)'
  BY NextTypes, NextDiscovery
<1> QED
  BY <1>1, <1>2, PTL DEF Spec

(* Nothing the discovery registered is forgotten by it: it will see it     *)
(* again in a later pass or remove it.                                     *)
THEOREM AlwaysRemembered == Spec => []Remembered
<1>1. TypeOK /\ DiscoveryInv => Remembered
  BY DEF TypeOK, DiscoveryInv, AllTracked, StaleKnown, Remembered, Tracked, Own
<1> QED
  BY <1>1, DiscoverySafe, PTL

LeavesManual == Discovers => \A id \in Ids : ~IsAuto(id) => envs'[id] = envs[id]

(* The discovery changes no environment whose id lacks its prefix.         *)
THEOREM ManualStays == Spec => ManualKept
<1>1. TypeOK /\ DiscoveryInv /\ [Next]_vars => [LeavesManual]_vars
  <2> SUFFICES ASSUME TypeOK, DiscoveryInv, Discovers, NEW id \in Ids, ~IsAuto(id)
               PROVE  envs'[id] = envs[id]
    BY DEF LeavesManual
  <2>1. CASE RegisterEnvironment
    BY <2>1 DEF RegisterEnvironment, DiscoveryInv, AutoOnly, TypeOK
  <2>2. CASE RemoveDiscovered
    BY <2>2 DEF RemoveDiscovered, DiscoveryInv, AutoOnly, TypeOK
  <2>3. CASE UNCHANGED envs
    BY <2>3
  <2> QED
    BY <2>1, <2>2, <2>3 DEF Discovers, StartPass, Skip, VisitSwarm, VisitNamespaced,
                            ListFails, Lists, Sweep, EndPass
<1>2. Spec => [][LeavesManual]_vars
  BY <1>1, DiscoverySafe, PTL DEF Spec
<1> QED
  BY <1>2 DEF ManualKept, LeavesManual

-----------------------------------------------------------------------------
(* The clusters of added environments.                                     *)

KnownInv == /\ AddedIsKnown
            /\ \A e \in adding : clusters[e.cluster] # None

LEMMA NextKnown == TypeOK /\ KnownInv /\ [Next]_vars => KnownInv'
<1> SUFFICES ASSUME TypeOK, KnownInv, [Next]_vars PROVE KnownInv'
  OBVIOUS
<1> USE DEF KnownInv, AddedIsKnown
<1>1. CASE Discovers
  <2>1. UNCHANGED <<clusters, adding>>
    BY <1>1 DEF Discovers, StartPass, Skip, VisitSwarm, VisitNamespaced, ListFails, Lists,
                RegisterEnvironment, Sweep, RemoveDiscovered, EndPass, worldVars
  <2>2. CASE RegisterEnvironment
    <3>1. PICK e \in found : envs' = [envs EXCEPT ![e.id] = AsEnv(e, "discovery")]
      BY <2>2 DEF RegisterEnvironment
    <3>2. \A id \in Ids : envs'[id] = envs[id] \/ envs'[id].by = "discovery"
      BY <3>1 DEF AsEnv, TypeOK
    <3> QED
      BY <2>1, <3>2
  <2>3. CASE RemoveDiscovered
    <3>1. \A id \in Ids : envs'[id] = envs[id] \/ envs'[id] = None
      BY <2>3 DEF RemoveDiscovered, TypeOK
    <3> QED
      BY <2>1, <3>1
  <2>4. CASE UNCHANGED envs
    BY <2>1, <2>4
  <2> QED
    BY <1>1, <2>2, <2>3, <2>4
    DEF Discovers, StartPass, Skip, VisitSwarm, VisitNamespaced, ListFails, Lists, Sweep, EndPass
<1>2. CASE AddEnvironment
  <2>1. UNCHANGED <<envs, clusters>>
    BY <1>2 DEF AddEnvironment, worldVars
  <2> QED
    BY <1>2, <2>1, AddEnvironmentEffect
<1>3. CASE AddStored
  <2>1. PICK e \in adding : /\ envs' = [envs EXCEPT ![e.id] = AsEnv(e, "admin")]
                           /\ adding' = adding \ {e}
    BY <1>3 DEF AddStored
  <2>2. UNCHANGED clusters
    BY <1>3 DEF AddStored, worldVars
  <2>3. \A id \in Ids : envs'[id] = envs[id] \/ envs'[id] = AsEnv(e, "admin")
    BY <2>1 DEF TypeOK
  <2>4. AsEnv(e, "admin").cluster = e.cluster
    BY DEF AsEnv
  <2> QED
    BY <2>1, <2>2, <2>3, <2>4
<1>4. CASE RemoveEnvironment
  <2>1. \A id \in Ids : envs'[id] = envs[id] \/ envs'[id] = None
    BY <1>4 DEF RemoveEnvironment, TypeOK
  <2> QED
    BY <1>4, <2>1 DEF RemoveEnvironment, worldVars
<1>5. CASE Restart
  BY <1>5, ConfiguredType DEF Restart
<1>6. ASSUME NEW c \in Clusters, ClusterJoined(c)
      PROVE  KnownInv'
  <2>1. PICK t \in TypesOf[c] : clusters' = [clusters EXCEPT ![c] = t]
    BY <1>6 DEF ClusterJoined
  <2>2. t # None
    <3>1. t \in Types
      BY <2>1
    <3> QED
      BY <3>1, NoEnvAssumption DEF Types
  <2>3. UNCHANGED <<envs, adding>>
    BY <1>6 DEF ClusterJoined, World
  <2>4. \A d \in Clusters : clusters[d] # None => clusters'[d] # None
    BY <2>1, <2>2 DEF TypeOK
  <2>5. /\ \A e \in adding : e.cluster \in Clusters
        /\ \A id \in Ids : envs[id] # None => envs[id].cluster \in Clusters
    BY DEF TypeOK, Found, Env
  <2> QED
    BY <2>3, <2>4, <2>5
<1>7. CASE UNCHANGED <<envs, adding, clusters>>
  BY <1>7
<1> QED
  BY <1>1, <1>2, <1>3, <1>4, <1>5, <1>6, <1>7
  DEF Next, Administers, Happens, Connects, Disconnects, NamespacesChange, QuietChanges, World,
      vars, worldVars

(* providerFor finds the cluster of every environment an administrator     *)
(* added.                                                                  *)
THEOREM AddedKnown == Spec => []AddedIsKnown
<1>1. Init => KnownInv
  BY ConfiguredType DEF Init, KnownInv, AddedIsKnown
<1>2. TypeOK /\ KnownInv /\ [Next]_vars => KnownInv'
  BY NextKnown
<1>3. KnownInv => AddedIsKnown
  BY DEF KnownInv
<1> QED
  BY <1>1, <1>2, <1>3, TypeCorrect, PTL DEF Spec

-----------------------------------------------------------------------------
(* Environments implements Inventory.  That the discovery forgets nothing  *)
(* it has an entry by is what Tracked says at the two places where one of  *)
(* its sets is replaced.                                                   *)

Others == [id \in {i \in Ids : ~IsAuto(i)} |-> envs[id]]
Known  == discovered \cup newDiscovered

LEMMA RegisterStep ==
  ASSUME TypeOK, DiscoveryInv, RegisterEnvironment
  PROVE  \E id \in {i \in Ids : IsAuto(i)} : Owned!Register(id)
<1>1. PICK e \in found : /\ newDiscovered' = newDiscovered \cup {e.id}
                         /\ envs' = [envs EXCEPT ![e.id] = AsEnv(e, "discovery")]
  BY DEF RegisterEnvironment
<1>2. e.id \in Ids /\ IsAuto(e.id) /\ UNCHANGED discovered
  BY DEF RegisterEnvironment, TypeOK, Found, DiscoveryInv, AutoOnly
<1>3. AsEnv(e, "discovery") \in Env /\ AsEnv(e, "discovery").by = "discovery"
  BY DEF TypeOK, Found, AsEnv, Env
<1>4. AsEnv(e, "discovery") # None
  BY <1>3, NoEnvAssumption DEF Env
<1>5. envs'[e.id] = AsEnv(e, "discovery") /\ \A id \in Ids : id # e.id => envs'[id] = envs[id]
  BY <1>1, <1>2 DEF TypeOK
<1>6. DiscoveredEnvs' = DiscoveredEnvs \cup {e.id}
  BY <1>2, <1>3, <1>4, <1>5 DEF DiscoveredEnvs
<1>7. UNCHANGED Others
  BY <1>2, <1>5 DEF Others
<1>8. Known' = Known \cup {e.id}
  BY <1>1, <1>2 DEF Known
<1> QED
  BY <1>2, <1>6, <1>7, <1>8 DEF Owned!Register, Others, Known

LEMMA DropStep ==
  ASSUME TypeOK, DiscoveryInv, RemoveDiscovered
  PROVE  \E id \in {i \in Ids : IsAuto(i)} : Owned!Drop(id)
<1>1. PICK d \in stale :
        envs' = IF IsAuto(d) THEN [envs EXCEPT ![d] = None] ELSE envs
  BY DEF RemoveDiscovered
<1>2. /\ d \in Ids /\ IsAuto(d) /\ d \in discovered
      /\ UNCHANGED <<discovered, newDiscovered>>
  BY DEF RemoveDiscovered, TypeOK, DiscoveryInv, AutoOnly, StaleKnown
<1>3. envs'[d] = None /\ \A id \in Ids : id # d => envs'[id] = envs[id]
  BY <1>1, <1>2 DEF TypeOK
<1>4. DiscoveredEnvs' = DiscoveredEnvs \ {d}
  BY <1>2, <1>3 DEF DiscoveredEnvs
<1>5. UNCHANGED Others
  BY <1>2, <1>3 DEF Others
<1> QED
  BY <1>2, <1>4, <1>5 DEF Owned!Drop, Others

LEMMA ForgetStep ==
  ASSUME TypeOK, DiscoveryInv, StartPass \/ EndPass
  PROVE  Owned!Forget
<1>1. UNCHANGED envs
  BY DEF StartPass, EndPass
<1>2. \A id \in DiscoveredEnvs : Tracked(id)
  BY DEF DiscoveredEnvs, DiscoveryInv, AllTracked, Own
<1>3. Known' \subseteq Known
  BY DEF StartPass, EndPass, Known
<1>4. DiscoveredEnvs \subseteq Known'
  BY <1>2 DEF StartPass, EndPass, Known, Tracked
<1>5. UNCHANGED <<DiscoveredEnvs, Others>>
  BY <1>1 DEF DiscoveredEnvs, Others
<1> QED
  BY <1>3, <1>4, <1>5 DEF Owned!Forget, Known, Others

LEMMA AdministerStep ==
  ASSUME TypeOK, AddStored \/ RemoveEnvironment
  PROVE  Owned!Administer
<1>1. PICK id \in Ids, x \in Env \cup {None} :
        /\ envs' = [envs EXCEPT ![id] = x]
        /\ x # None => x.by = "admin"
  <2>1. CASE RemoveEnvironment
    BY <2>1 DEF RemoveEnvironment
  <2>2. CASE AddStored
    <3>1. PICK e \in adding : envs' = [envs EXCEPT ![e.id] = AsEnv(e, "admin")]
      BY <2>2 DEF AddStored
    <3>2. e.id \in Ids /\ AsEnv(e, "admin") \in Env /\ AsEnv(e, "admin").by = "admin"
      BY DEF TypeOK, Found, AsEnv, Env
    <3> QED
      BY <3>1, <3>2
  <2> QED
    BY <2>1, <2>2
<1>2. envs'[id] = x /\ \A i \in Ids : i # id => envs'[i] = envs[i]
  BY <1>1 DEF TypeOK
<1>3. DiscoveredEnvs \ {id} \subseteq DiscoveredEnvs' /\ DiscoveredEnvs' \subseteq DiscoveredEnvs
  BY <1>1, <1>2 DEF DiscoveredEnvs
<1>4. \A i \in {j \in Ids : ~IsAuto(j)} : i # id => Others'[i] = Others[i]
  BY <1>2 DEF Others
<1>5. \A i \in Ids \ {j \in Ids : IsAuto(j)} : i # id => Others'[i] = Others[i]
  BY <1>4
<1>6. UNCHANGED Known
  BY DEF AddStored, RemoveEnvironment, passVars, Known
<1> QED
  BY <1>3, <1>5, <1>6 DEF Owned!Administer, Others, Known

LEMMA NothingOwned == (\A id \in Ids : envs[id] = Configured(id)) => DiscoveredEnvs = {}
BY ConfiguredType DEF DiscoveredEnvs

LEMMA RestartStep == ASSUME Restart PROVE Owned!Restart
<1>1. \A id \in Ids : envs'[id] = Configured(id)
  BY DEF Restart
<1>2. DiscoveredEnvs' = {}
  BY <1>1, ConfiguredType DEF DiscoveredEnvs
<1> QED
  BY <1>2 DEF Restart, Owned!Restart

LEMMA InventoryStep ==
  TypeOK /\ DiscoveryInv /\ [Next]_vars => [Owned!InventoryNext]_(Owned!inventoryVars)
<1> SUFFICES ASSUME TypeOK, DiscoveryInv, [Next]_vars
             PROVE  [Owned!InventoryNext]_(Owned!inventoryVars)
  OBVIOUS
<1>1. CASE UNCHANGED <<envs, discovered, newDiscovered>>
  <2>1. UNCHANGED <<DiscoveredEnvs, Known, Others>>
    BY <1>1 DEF DiscoveredEnvs, Known, Others
  <2> QED
    BY <2>1 DEF Owned!inventoryVars, Known, Others
<1>2. CASE RegisterEnvironment
  BY <1>2, RegisterStep DEF Owned!InventoryNext
<1>3. CASE RemoveDiscovered
  BY <1>3, DropStep DEF Owned!InventoryNext
<1>4. CASE StartPass \/ EndPass
  BY <1>4, ForgetStep DEF Owned!InventoryNext
<1>5. CASE AddStored \/ RemoveEnvironment
  BY <1>5, AdministerStep DEF Owned!InventoryNext
<1>6. CASE Restart
  BY <1>6, RestartStep DEF Owned!InventoryNext
<1> QED
  BY <1>1, <1>2, <1>3, <1>4, <1>5, <1>6
  DEF Next, Discovers, Administers, Happens, Skip, VisitSwarm, VisitNamespaced, ListFails, Lists,
      Sweep, AddEnvironment, Connects, ClusterJoined, Disconnects, NamespacesChange,
      QuietChanges, World, passVars, vars

(* The server's environments are an Inventory: each side changes what is   *)
(* its own to change, and nothing the discovery stored is ever forgotten   *)
(* before it is gone, whatever happens between the steps of a pass.        *)
THEOREM ImplementsInventory == Spec => KeepsInventory
<1>1. Init => Owned!InventoryInit
  BY NothingOwned DEF Init, Owned!InventoryInit
<1>2. TypeOK /\ DiscoveryInv /\ [Next]_vars
        => [Owned!InventoryNext]_(Owned!inventoryVars)
  BY InventoryStep
<1> QED
  BY <1>1, <1>2, DiscoverySafe, PTL DEF Spec, KeepsInventory, Owned!InventorySpec
=============================================================================
