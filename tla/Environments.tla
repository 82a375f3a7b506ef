---------------------------- MODULE Environments ----------------------------
(***************************************************************************)
(* The server's environments: s.envs (handlers.go), filled from the        *)
(* configuration at start (main.go), by administrators, and by the         *)
(* discovery goroutine (discovery.go), which lists the namespaces of every *)
(* cluster that is online once a minute and forgets what it no longer      *)
(* finds.                                                                  *)
(*                                                                         *)
(* A pass of discovery holds no lock across its steps: clusters come and   *)
(* go, namespaces are created and deleted and administrators add and       *)
(* remove environments while it runs.                                      *)
(*                                                                         *)
(* A string that ids are built from is modelled as the sequence of its     *)
(* parts between hyphens, so that joining two strings with a hyphen is \o. *)
(***************************************************************************)
EXTENDS Naturals, Sequences

CONSTANTS
  Words,        \* the parts between hyphens that may occur in a string
  Clusters,     \* cluster ids
  TypesOf,      \* TypesOf[c]: the types its agents may have been started with
  Namespaces,   \* namespace names an orchestrator may have
  ShortIds,     \* ids that shortID may make up
  Yaml,         \* the environments of the YAML file, in order
  Legacy,       \* those of the legacy file and of ENVIRONMENTS
  Posted,       \* what administrators may post: [id, cluster, ns]
  None

(* Types of clusters: Kubernetes and Nomad are listed the same way, and    *)
(* every other type is treated as Docker Swarm.                            *)
Types == {"swarm", "namespaced"}

Name == Seq(Words) \ {<<>>}
Empty == <<"">>        \* the empty string

Request == [id : Name, cluster : Clusters, ns : Name]

ASSUME WordsAssumption == {"auto", ""} \subseteq Words
ASSUME NamesAssumption == Clusters \subseteq Name /\ Namespaces \subseteq Name
ASSUME TypesAssumption == TypesOf \in [Clusters -> SUBSET Types]
ASSUME ShortIdsAssumption == ShortIds \subseteq Name /\ \A i \in ShortIds : Len(i) = 1
ASSUME ConfigAssumption == Yaml \in Seq(Request) /\ Legacy \in Seq(Request)
ASSUME PostedAssumption == Posted \subseteq Request
ASSUME NoEnvAssumption == None \notin [cluster : Clusters, ns : Name,
                                       by : {"config", "admin", "discovery"}]
                          /\ None \notin {"swarm", "namespaced"}

VARIABLES
  namespaces,   \* namespaces[c]: what the orchestrator of cluster c lists
  online,       \* the clusters that have a connection in h.tunnels
  clusters,     \* clusters[c]: the type in s.clusters, or None
  quiet,        \* nothing outside the discovery changes for now
  envs,         \* s.envs, with who wrote the entry
  adding,       \* environments that addEnvironment has checked, not stored
  pass,         \* where the discovery goroutine is
  todo,         \* clusters of GetClusters' copy that are still to be visited
  listing,      \* the cluster whose namespaces are being listed
  found,        \* environments found there and not yet registered
  newDiscovered, discovered,   \* the sets of those names
  stale         \* discovered ids that are still to be removed

worldVars == <<namespaces, online, clusters, quiet>>
passVars  == <<pass, todo, listing, found, newDiscovered, discovered, stale>>
vars == <<worldVars, envs, adding, passVars>>

-----------------------------------------------------------------------------
Env == [cluster : Clusters, ns : Name, by : {"config", "admin", "discovery"}]
Copies == [cluster : Clusters, type : Types]
IsAuto(id) == Len(id) > 1 /\ Head(id) = "auto"

(* Faulty: ids without the prefix that sets them apart.                    *)
AutoIdBare(c, ns) == c \o ns
AutoId(c, ns) == <<"auto">> \o c \o ns
SwarmId(c)    == <<"auto">> \o c
ConfigId(e)   == IF e.id = Empty THEN e.cluster \o e.ns ELSE e.id

AsEnv(e, who) == [cluster |-> e.cluster, ns |-> e.ns, by |-> who]

WithId(e, id, ns) == [id |-> id, cluster |-> e.cluster, ns |-> ns]

(* What main loads, in order: a later entry replaces one of the same id.   *)
Loaded == [i \in 1..Len(Yaml) |-> WithId(Yaml[i], ConfigId(Yaml[i]), Yaml[i].ns)] \o Legacy

Configured(id) ==
  LET LastOf(i) == /\ Loaded[i].id = id
                   /\ \A j \in DOMAIN Loaded : Loaded[j].id = id => j <= i
  IN IF \E i \in DOMAIN Loaded : LastOf(i)
       THEN AsEnv(Loaded[CHOOSE i \in DOMAIN Loaded : LastOf(i)], "config")
       ELSE None

(* Every id there can be.                                                  *)
Ids == {AutoId(c, ns) : c \in Clusters, ns \in Namespaces}
       \cup {SwarmId(c) : c \in Clusters} \cup ShortIds
       \cup {e.id : e \in Posted} \cup {Loaded[i].id : i \in DOMAIN Loaded}

Found == [id : Ids, cluster : Clusters, ns : Name]

TypeOK ==
  /\ namespaces \in [Clusters -> SUBSET Namespaces]
  /\ online \subseteq Clusters
  /\ clusters \in [Clusters -> Types \cup {None}]
  /\ quiet \in BOOLEAN
  /\ envs \in [Ids -> Env \cup {None}]
  /\ adding \subseteq Found
  /\ pass \in {"idle", "visit", "list", "sweep"}
  /\ todo \subseteq Copies
  /\ listing \in Clusters \cup {None}
  /\ pass = "list" => listing \in Clusters
  /\ found \subseteq Found
  /\ newDiscovered \subseteq Ids /\ discovered \subseteq Ids /\ stale \subseteq Ids

Init ==
  /\ namespaces \in [Clusters -> SUBSET Namespaces]
  /\ online = {} /\ clusters = [c \in Clusters |-> None] /\ quiet = FALSE
  /\ envs = [id \in Ids |-> Configured(id)]
  /\ adding = {}
  /\ pass = "idle" /\ todo = {} /\ listing = None /\ found = {}
  /\ newDiscovered = {} /\ discovered = {} /\ stale = {}

-----------------------------------------------------------------------------
(* Faulty variants, to test the properties below.                          *)

(* addEnvironment that does not look its cluster up.                       *)
AddEnvironmentUnchecked ==
  /\ ~quiet
  /\ \E p \in Posted : p.id # Empty /\ adding' = adding \cup {p}
  /\ UNCHANGED <<worldVars, envs, passVars>>

(* A failed listing that ends the pass, leaving the clusters after it out. *)
ListFailsReturns ==
  /\ pass = "list"
  /\ ~quiet \/ listing \notin online
  /\ pass' = "idle"
  /\ listing' = None
  /\ UNCHANGED <<worldVars, envs, adding, todo, found, newDiscovered, discovered, stale>>

(* discover that returns at a cluster that is offline.                     *)
SkipReturns ==
  /\ pass = "visit" /\ found = {}
  /\ \E x \in todo : x.cluster \notin online
  /\ pass' = "idle"
  /\ UNCHANGED <<worldVars, envs, adding, todo, listing, found, newDiscovered, discovered, stale>>

(* A listing whose cluster is not carried over to its answer.              *)
VisitNamespacedForgets ==
  /\ pass = "visit" /\ found = {}
  /\ \E x \in todo : /\ x.cluster \in online /\ x.type = "namespaced"
                     /\ todo' = todo \ {x}
  /\ pass' = "list"
  /\ UNCHANGED <<worldVars, envs, adding, listing, found, newDiscovered, discovered, stale>>

(* Replacing the remembered set before the last of the sweep's removals.   *)
EndPassEarly ==
  /\ pass = "sweep"
  /\ pass' = "idle"
  /\ discovered' = newDiscovered
  /\ UNCHANGED <<worldVars, envs, adding, todo, listing, found, newDiscovered, stale>>

-----------------------------------------------------------------------------
(* What the discovery finds around it: agents, orchestrators, the network. *)
World == UNCHANGED <<envs, adding, passVars>>

(* HandleConnect puts the agent in h.tunnels ...                           *)
Connects(c) ==
  /\ ~quiet /\ c \notin online
  /\ online' = online \cup {c}
  /\ World /\ UNCHANGED <<namespaces, clusters, quiet>>

(* ... and calls ClusterJoined, by when it may have gone again; the next   *)
(* agent may say another type.                                             *)
ClusterJoined(c) ==
  /\ ~quiet
  /\ \E t \in TypesOf[c] : clusters' = [clusters EXCEPT ![c] = t]
  /\ World /\ UNCHANGED <<namespaces, online, quiet>>

(* ClusterLeft keeps the entry of s.clusters.                              *)
Disconnects(c) ==
  /\ ~quiet /\ c \in online
  /\ online' = online \ {c}
  /\ World /\ UNCHANGED <<namespaces, clusters, quiet>>

NamespacesChange(c) ==
  /\ ~quiet
  /\ \E n \in Namespaces :
       namespaces' = [namespaces EXCEPT ![c] = IF n \in @ THEN @ \ {n} ELSE @ \cup {n}]
  /\ World /\ UNCHANGED <<online, clusters, quiet>>

QuietChanges == quiet' = ~quiet /\ World /\ UNCHANGED <<namespaces, online, clusters>>

(* Everything is in memory: a server that restarts has its configuration.  *)
Restart ==
  /\ ~quiet
  /\ online' = {} /\ clusters' = [c \in Clusters |-> None]
  /\ envs' = [id \in Ids |-> Configured(id)]
  /\ adding' = {}
  /\ pass' = "idle" /\ todo' = {} /\ listing' = None /\ found' = {}
  /\ newDiscovered' = {} /\ discovered' = {} /\ stale' = {}
  /\ UNCHANGED <<namespaces, quiet>>

-----------------------------------------------------------------------------
(* Administrators.                                                         *)

(* addEnvironment up to the lock: the cluster must be known, and its type  *)
(* at that moment decides whether the namespace is cleared.                *)
AddEnvironment ==
  /\ ~quiet
  /\ \E p \in Posted :
       /\ clusters[p.cluster] # None
       /\ \E id \in IF p.id # Empty THEN {p.id}
                     ELSE {i \in ShortIds : envs[i] = None /\ \A a \in adding : a.id # i} :
            adding' = adding \cup
              {WithId(p, id, IF clusters[p.cluster] = "swarm" THEN Empty ELSE p.ns)}
  /\ UNCHANGED <<worldVars, envs, passVars>>

AddStored ==
  /\ \E e \in adding : /\ envs' = [envs EXCEPT ![e.id] = AsEnv(e, "admin")]
                      /\ adding' = adding \ {e}
  /\ UNCHANGED <<worldVars, passVars>>

(* removeEnvironment deletes what it is asked to, discovered or not.       *)
RemoveEnvironment ==
  /\ ~quiet
  /\ \E id \in Ids : envs' = [envs EXCEPT ![id] = None]
  /\ UNCHANGED <<worldVars, adding, passVars>>

-----------------------------------------------------------------------------
(* Discovery.                                                              *)

(* GetClusters copies the entries under the lock.                          *)
StartPass ==
  /\ pass = "idle"
  /\ pass' = "visit"
  /\ todo' = {x \in Copies : clusters[x.cluster] = x.type}
  /\ newDiscovered' = {}
  /\ UNCHANGED <<worldVars, envs, adding, listing, found, discovered, stale>>

Skip ==
  /\ pass = "visit" /\ found = {}
  /\ \E x \in todo : x.cluster \notin online /\ todo' = todo \ {x}
  /\ UNCHANGED <<worldVars, envs, adding, pass, listing, found, newDiscovered, discovered, stale>>

VisitSwarm ==
  /\ pass = "visit" /\ found = {}
  /\ \E x \in todo :
       /\ x.cluster \in online /\ x.type = "swarm"
       /\ todo' = todo \ {x}
       /\ found' = {[id |-> SwarmId(x.cluster), cluster |-> x.cluster, ns |-> Empty]}
  /\ UNCHANGED <<worldVars, envs, adding, pass, listing, newDiscovered, discovered, stale>>

VisitNamespaced ==
  /\ pass = "visit" /\ found = {}
  /\ \E x \in todo : /\ x.cluster \in online /\ x.type = "namespaced"
                     /\ todo' = todo \ {x}
                     /\ listing' = x.cluster
  /\ pass' = "list"
  /\ UNCHANGED <<worldVars, envs, adding, found, newDiscovered, discovered, stale>>

(* The call through the tunnel fails or times out: the next cluster's turn.*)
ListFails ==
  /\ pass = "list"
  /\ ~quiet \/ listing \notin online
  /\ pass' = "visit"
  /\ listing' = None
  /\ UNCHANGED <<worldVars, envs, adding, todo, found, newDiscovered, discovered, stale>>

Lists ==
  /\ pass = "list" /\ listing \in online
  /\ pass' = "visit"
  /\ found' = {[id |-> AutoId(listing, n), cluster |-> listing, ns |-> n] :
                 n \in namespaces[listing]}
  /\ listing' = None
  /\ UNCHANGED <<worldVars, envs, adding, todo, newDiscovered, discovered, stale>>

(* newDiscovered[env.ID] = true and the registrar, RegisterEnvironment.    *)
RegisterEnvironment ==
  /\ pass = "visit"
  /\ \E e \in found : /\ found' = found \ {e}
                     /\ newDiscovered' = newDiscovered \cup {e.id}
                     /\ envs' = [envs EXCEPT ![e.id] = AsEnv(e, "discovery")]
  /\ UNCHANGED <<worldVars, adding, pass, todo, listing, discovered, stale>>

Sweep ==
  /\ pass = "visit" /\ found = {} /\ todo = {}
  /\ pass' = "sweep"
  /\ stale' = discovered \ newDiscovered
  /\ UNCHANGED <<worldVars, envs, adding, todo, listing, found, newDiscovered, discovered>>

(* The remover, RemoveDiscoveredEnvironment.                               *)
RemoveDiscovered ==
  /\ pass = "sweep"
  /\ \E id \in stale : /\ stale' = stale \ {id}
                      /\ envs' = IF IsAuto(id) THEN [envs EXCEPT ![id] = None] ELSE envs
  /\ UNCHANGED <<worldVars, adding, pass, todo, listing, found, newDiscovered, discovered>>

EndPass ==
  /\ pass = "sweep" /\ stale = {}
  /\ pass' = "idle"
  /\ discovered' = newDiscovered
  /\ UNCHANGED <<worldVars, envs, adding, todo, listing, found, newDiscovered, stale>>

-----------------------------------------------------------------------------
Discovers == \/ StartPass \/ Skip \/ VisitSwarm \/ VisitNamespaced \/ ListFails \/ Lists
             \/ RegisterEnvironment \/ Sweep \/ RemoveDiscovered \/ EndPass
Administers == AddEnvironment \/ AddStored \/ RemoveEnvironment
Happens == \/ \E c \in Clusters : \/ Connects(c) \/ ClusterJoined(c)
                                \/ Disconnects(c) \/ NamespacesChange(c)
           \/ QuietChanges \/ Restart

Next == Discovers \/ Administers \/ Happens

Spec == Init /\ [][Next]_vars

(* The goroutine and its ticker run on, and so does a handler's goroutine; *)
(* a listing is answered or times out.                                     *)
FairSpec == Spec /\ WF_vars(Discovers) /\ WF_vars(AddStored)

-----------------------------------------------------------------------------
(* What the discovery put in s.envs it remembers, so that it will take it  *)
(* out again: an environment of its own is in the set of the last pass or  *)
(* of this one, whatever failed or was restarted (discovery.go:83-97).     *)
Remembered ==
  \A id \in Ids : envs[id] # None =>
    (envs[id].by = "discovery" => id \in discovered \cup newDiscovered)

(* An environment that the configuration or an administrator named, with   *)
(* an id that is not the discovery's, is not changed by the discovery      *)
(* (handlers.go:117): not though the ids main makes up for the environment *)
(* of the same namespace differ from its ids only in the prefix.           *)
ManualKept ==
  [][Discovers => \A id \in Ids : ~IsAuto(id) => envs'[id] = envs[id]]_vars

(* The cluster of an environment that an administrator added is known, so  *)
(* providerFor finds it: s.clusters never shrinks between addEnvironment's *)
(* two lock sections or after (handlers.go:317-336).                       *)
AddedIsKnown ==
  \A id \in Ids : envs[id] # None =>
    (envs[id].by = "admin" => clusters[envs[id].cluster] # None)

DiscoveredEnvs == {id \in Ids : envs[id] # None /\ envs[id].by = "discovery"}

(* Who may change which entries: the discovery those with ids of its kind, *)
(* each remembered before it is stored and forgotten after it is gone, and *)
(* the administrators any, one at a time (Inventory; discovery.go:58-102,  *)
(* handlers.go:107-130).                                                   *)
Owned == INSTANCE Inventory
           WITH OwnIds <- {id \in Ids : IsAuto(id)},
                mine   <- DiscoveredEnvs,
                known  <- discovered \cup newDiscovered,
                others <- [id \in {i \in Ids : ~IsAuto(i)} |-> envs[id]]
KeepsInventory == Owned!InventorySpec

Expected(c) == IF c \notin online THEN {}
               ELSE IF clusters[c] = "swarm" THEN {SwarmId(c)}
               ELSE IF clusters[c] = "namespaced"
                 THEN {AutoId(c, n) : n \in namespaces[c]} ELSE {}

(* Once the world is quiet the discovered environments become, and remain, *)
(* those of the clusters that are online: none is missing, none is left    *)
(* over, none comes and goes (discovery.go:58-102).                        *)
Converges == <>[]quiet => <>[](DiscoveredEnvs = UNION {Expected(c) : c \in Clusters})

(* "Auto-discovery will find Kubernetes namespaces and Nomad namespaces    *)
(* automatically" (config.yaml.example:65): once the world is quiet every  *)
(* namespace of a cluster that is online has its environment.  It has not, *)
(* when two pairs of cluster and namespace are joined to the same id.      *)
NamespacesFound ==
  <>[]quiet => <>[](\A c \in online : clusters[c] = "namespaced" =>
                      \A n \in namespaces[c] : \E id \in Ids :
                        envs[id] # None /\ envs[id].cluster = c /\ envs[id].ns = n)
=============================================================================
