-------------------------------- MODULE Hub --------------------------------
(***************************************************************************)
(* The hub's registry of agents, and the agents that connect to it: one    *)
(* HandleConnect goroutine per connection (hub.go), the two maps it keeps  *)
(* up to date (h.tunnels, and s.clusters through the onJoin and onLeave    *)
(* callbacks, handlers.go), and every agent's Run loop (agent.go).  What   *)
(* happens on one connection while it lasts is the module Tunnel.          *)
(*                                                                         *)
(* The hub's lock covers h.tunnels only; the callbacks run outside it, so  *)
(* the two maps are updated in separate steps of concurrent goroutines.    *)
(***************************************************************************)
EXTENDS Naturals

CONSTANTS
  Agents,        \* agent processes
  Clusters,      \* cluster ids
  ClusterOf,     \* ClusterOf[a]: the cluster id agent a was started with
  Rejected,      \* agents whose parameters HandleConnect refuses
  Conns,         \* connections; one that is over can be used again
  None,          \* no connection, no agent
  BaseBackoff,   \* 5 seconds in the code
  MaxBackoff     \* 60 seconds in the code

ASSUME AgentsAssumption == ClusterOf \in [Agents -> Clusters] /\ Rejected \subseteq Agents
ASSUME BackoffAssumption == /\ BaseBackoff \in Nat /\ MaxBackoff \in Nat
                            /\ BaseBackoff <= MaxBackoff

ASSUME NoneAssumption == None \notin Agents \cup Conns

VARIABLES
  calm,       \* nothing fails for now: no break, restart or failed dial
  tunnels,    \* h.tunnels: the connection of a cluster, or None
  clusters,   \* s.clusters: whose name and type, and the Online field
  at,         \* at[k]: where the HandleConnect goroutine of k is
  owner,      \* owner[k]: the agent that made connection k
  open,       \* open[k]: the hub has not closed k
  link,       \* link[k]: k's TCP connection works
  state,      \* state[a]: where agent a is in Run
  conn,       \* conn[a]: the connection agent a reads from, or None
  backoff     \* backoff[a]: the variable of Run

hubVars   == <<tunnels, clusters, at, owner>>
connVars  == <<open, link>>
agentVars == <<state, conn, backoff>>
vars == <<calm, hubVars, connVars, agentVars>>

TypeOK ==
  /\ calm \in BOOLEAN
  /\ tunnels \in [Clusters -> Conns \cup {None}]
  /\ clusters \in [Clusters -> [info : Agents \cup {None}, online : BOOLEAN]]
  /\ at \in [Conns -> {"free", "upgraded", "registered", "serving", "ended", "unregistered"}]
  /\ owner \in [Conns -> Agents \cup {None}]
  /\ \A k \in Conns : at[k] # "free" => owner[k] \in Agents
  /\ open \in [Conns -> BOOLEAN] /\ link \in [Conns -> BOOLEAN]
  /\ state \in [Agents -> {"dialing", "connected", "sleeping"}]
  /\ conn \in [Agents -> Conns \cup {None}]
  /\ \A a \in Agents : state[a] = "connected" => conn[a] \in Conns
  /\ backoff \in [Agents -> BaseBackoff..MaxBackoff]

Unknown == [info |-> None, online |-> FALSE]

Init ==
  /\ calm = FALSE
  /\ tunnels = [c \in Clusters |-> None]
  /\ clusters = [c \in Clusters |-> Unknown]
  /\ at = [k \in Conns |-> "free"]
  /\ owner = [k \in Conns |-> None]
  /\ open = [k \in Conns |-> FALSE] /\ link = [k \in Conns |-> FALSE]
  /\ state = [a \in Agents |-> "dialing"]
  /\ conn = [a \in Agents |-> None]
  /\ backoff = [a \in Agents |-> BaseBackoff]

ClusterOn(k) == ClusterOf[owner[k]]

(* h.IsOnline, which the API's listings use.                               *)
IsOnline(c) == tunnels[c] # None

-----------------------------------------------------------------------------
(* Faulty variants, to test the properties below.                          *)

(* A newer connection that does not close the one it replaces.             *)
RegisterBeside(k) ==
  /\ at[k] = "upgraded"
  /\ tunnels' = [tunnels EXCEPT ![ClusterOn(k)] = k]
  /\ at' = [at EXCEPT ![k] = "registered"]
  /\ UNCHANGED <<calm, clusters, owner, connVars, agentVars>>

(* Deleting the cluster's entry without asking whose it is.                *)
UnregisterAny(k) ==
  /\ at[k] = "ended"
  /\ tunnels' = [tunnels EXCEPT ![ClusterOn(k)] = None]
  /\ at' = [at EXCEPT ![k] = "unregistered"]
  /\ UNCHANGED <<calm, clusters, owner, connVars, agentVars>>

(* Leaving the dead connection in h.tunnels.                               *)
UnregisterNothing(k) ==
  /\ at[k] = "ended"
  /\ at' = [at EXCEPT ![k] = "unregistered"]
  /\ UNCHANGED <<calm, tunnels, clusters, owner, connVars, agentVars>>

(* readLoop that returns without closing its connection.                   *)
ReadEndsOpen(k) ==
  /\ at[k] = "serving"
  /\ ~open[k] \/ ~link[k]
  /\ at' = [at EXCEPT ![k] = "ended"]
  /\ UNCHANGED <<calm, tunnels, clusters, owner, connVars, agentVars>>

(* Returning early, without onLeave, when a newer connection took over.    *)
UnregisterReturns(k) ==
  /\ at[k] = "ended"
  /\ IF tunnels[ClusterOn(k)] = k
       THEN /\ tunnels' = [tunnels EXCEPT ![ClusterOn(k)] = None]
            /\ at' = [at EXCEPT ![k] = "unregistered"]
            /\ UNCHANGED owner
       ELSE /\ at' = [at EXCEPT ![k] = "free"]
            /\ owner' = [owner EXCEPT ![k] = None]
            /\ UNCHANGED tunnels
  /\ UNCHANGED <<calm, clusters, connVars, agentVars>>

(* A backoff that is doubled and never capped.                             *)
WakeUncapped(a) ==
  /\ state[a] = "sleeping"
  /\ state' = [state EXCEPT ![a] = "dialing"]
  /\ backoff' = [backoff EXCEPT ![a] = 2 * @]
  /\ UNCHANGED <<calm, hubVars, connVars, conn>>

-----------------------------------------------------------------------------
(* HandleConnect.                                                          *)

(* The lock section that puts k in h.tunnels and closes the connection it  *)
(* replaces.                                                               *)
Register(k) ==
  /\ at[k] = "upgraded"
  /\ tunnels' = [tunnels EXCEPT ![ClusterOn(k)] = k]
  /\ open' = [j \in Conns |-> open[j] /\ j # tunnels[ClusterOn(k)]]
  /\ at' = [at EXCEPT ![k] = "registered"]
  /\ UNCHANGED <<calm, clusters, owner, link, agentVars>>

(* onJoin: ClusterJoined replaces the cluster's whole entry.               *)
Join(k) ==
  /\ at[k] = "registered"
  /\ clusters' = [clusters EXCEPT ![ClusterOn(k)] = [info |-> owner[k], online |-> TRUE]]
  /\ at' = [at EXCEPT ![k] = "serving"]
  /\ UNCHANGED <<calm, tunnels, owner, connVars, agentVars>>

(* readLoop returns, closing the connection.                               *)
ReadEnds(k) ==
  /\ at[k] = "serving"
  /\ ~open[k] \/ ~link[k]
  /\ at' = [at EXCEPT ![k] = "ended"]
  /\ open' = [open EXCEPT ![k] = FALSE]
  /\ UNCHANGED <<calm, tunnels, clusters, owner, link, agentVars>>

(* The second lock section.                                                *)
Unregister(k) ==
  /\ at[k] = "ended"
  /\ tunnels' = IF tunnels[ClusterOn(k)] = k
                  THEN [tunnels EXCEPT ![ClusterOn(k)] = None] ELSE tunnels
  /\ at' = [at EXCEPT ![k] = "unregistered"]
  /\ UNCHANGED <<calm, clusters, owner, connVars, agentVars>>

(* onLeave: ClusterLeft clears the Online field of an entry that exists.   *)
Leave(k) ==
  /\ at[k] = "unregistered"
  /\ clusters' = [clusters EXCEPT ![ClusterOn(k)] = [info |-> @.info, online |-> FALSE]]
  /\ at' = [at EXCEPT ![k] = "free"]
  /\ owner' = [owner EXCEPT ![k] = None]
  /\ UNCHANGED <<calm, tunnels, connVars, agentVars>>

-----------------------------------------------------------------------------
(* Run.                                                                    *)

Sleeps(a) == /\ state' = [state EXCEPT ![a] = "sleeping"]
             /\ conn' = [conn EXCEPT ![a] = None]
             /\ UNCHANGED backoff

(* Dial succeeds: HandleConnect accepted the parameters and upgraded.      *)
Dial(a) ==
  /\ state[a] = "dialing" /\ a \notin Rejected
  /\ \E k \in Conns :
       /\ at[k] = "free" /\ \A b \in Agents : conn[b] # k
       /\ at' = [at EXCEPT ![k] = "upgraded"]
       /\ owner' = [owner EXCEPT ![k] = a]
       /\ open' = [open EXCEPT ![k] = TRUE]
       /\ link' = [link EXCEPT ![k] = TRUE]
       /\ conn' = [conn EXCEPT ![a] = k]
  /\ state' = [state EXCEPT ![a] = "connected"]
  /\ UNCHANGED <<calm, tunnels, clusters, backoff>>

DialFails(a) ==
  /\ state[a] = "dialing"
  /\ ~calm \/ a \in Rejected
  /\ Sleeps(a)
  /\ UNCHANGED <<calm, hubVars, connVars>>

(* connect's read loop fails.  connect has no other way out, and returns   *)
(* an error here too: the branch of Run that resets backoff never runs.    *)
Disconnect(a) ==
  /\ state[a] = "connected"
  /\ ~open[conn[a]] \/ ~link[conn[a]]
  /\ link' = [link EXCEPT ![conn[a]] = FALSE]
  /\ Sleeps(a)
  /\ UNCHANGED <<calm, hubVars, open>>

(* The sleep is over; backoff doubles for the next one.                    *)
Wake(a) ==
  /\ state[a] = "sleeping"
  /\ state' = [state EXCEPT ![a] = "dialing"]
  /\ backoff' = [backoff EXCEPT ![a] = IF 2 * @ > MaxBackoff THEN MaxBackoff ELSE 2 * @]
  /\ UNCHANGED <<calm, hubVars, connVars, conn>>

-----------------------------------------------------------------------------
(* What can fail.                                                          *)

Break(k) ==
  /\ ~calm /\ link[k]
  /\ link' = [link EXCEPT ![k] = FALSE]
  /\ UNCHANGED <<calm, hubVars, open, agentVars>>

AgentRestarts(a) ==
  /\ ~calm
  /\ state' = [state EXCEPT ![a] = "dialing"]
  /\ conn' = [conn EXCEPT ![a] = None]
  /\ backoff' = [backoff EXCEPT ![a] = BaseBackoff]
  /\ link' = [k \in Conns |-> link[k] /\ k # conn[a]]
  /\ UNCHANGED <<calm, hubVars, open>>

(* Both maps live in memory only.                                          *)
HubRestarts ==
  /\ ~calm
  /\ tunnels' = [c \in Clusters |-> None]
  /\ clusters' = [c \in Clusters |-> Unknown]
  /\ at' = [k \in Conns |-> "free"]
  /\ owner' = [k \in Conns |-> None]
  /\ open' = [k \in Conns |-> FALSE] /\ link' = [k \in Conns |-> FALSE]
  /\ UNCHANGED <<calm, agentVars>>

Weather == calm' = ~calm /\ UNCHANGED <<hubVars, connVars, agentVars>>

-----------------------------------------------------------------------------
HandleConnect(k) == Register(k) \/ Join(k) \/ ReadEnds(k) \/ Unregister(k) \/ Leave(k)
Run(a) == Dial(a) \/ DialFails(a) \/ Disconnect(a) \/ Wake(a)

Next == \/ \E k \in Conns : HandleConnect(k) \/ Break(k)
        \/ \E a \in Agents : Run(a) \/ AgentRestarts(a)
        \/ HubRestarts \/ Weather

Spec == Init /\ [][Next]_vars

(* Goroutines and agents run on; timers fire; a broken connection is       *)
(* noticed.  Nothing is assumed of what can fail.                          *)
FairSpec == /\ Spec
            /\ \A k \in Conns : WF_vars(HandleConnect(k))
            /\ \A a \in Agents : WF_vars(Run(a))

-----------------------------------------------------------------------------
(* The connection h.tunnels has for a cluster is one of that cluster's,    *)
(* whose HandleConnect will still take it out.                             *)
NoDeadTunnel ==
  \A c \in Clusters : IsOnline(c) =>
    /\ at[tunnels[c]] \in {"registered", "serving", "ended"}
    /\ ClusterOn(tunnels[c]) = c

(* Of the connections of a cluster only the newest is open: one that is    *)
(* registered and open is the one requests go to (hub.go:85-90), so no     *)
(* agent waits on a connection nobody uses.                                *)
NewestServes ==
  \A k \in Conns : open[k] /\ at[k] \in {"registered", "serving"} => tunnels[ClusterOn(k)] = k

(* An open connection is not taken out of h.tunnels: not by the handler of *)
(* an older connection of the same agent that ends late (hub.go:105-109).  *)
OpenIsKept ==
  [][\A c \in Clusters :
       IsOnline(c) /\ tunnels'[c] # tunnels[c] => ~open'[tunnels[c]]]_vars

(* The registry as those see it who look a cluster up (hub.go:122-127): a  *)
(* connection comes, gets its entry once, and loses it only when it is     *)
(* closed; no other is ever closed by a new one (Directory).               *)
Registry == INSTANCE Directory
KeepsDirectory == Registry!DirectorySpec

(* Once every connection of a cluster is over, in whatever order the       *)
(* callbacks ran, the cluster is not marked online.                        *)
FlagOffWhenGone ==
  \A c \in Clusters : clusters[c].online =>
    \E k \in Conns : at[k] # "free" /\ ClusterOn(k) = c

(* When failures stop, a cluster that has an agent comes online and stays  *)
(* so, whatever happened before: old connections ending late, restarts of  *)
(* either side, two agents with the same cluster id (README.md:91).        *)
ComesOnline ==
  <>[]calm => \A c \in Clusters :
    (\E a \in Agents \ Rejected : ClusterOf[a] = c) => <>[]IsOnline(c)

(* "The server auto-registers the cluster and marks it as online"          *)
(* (README.md:188): while the connection of a cluster is up and its        *)
(* registration is done, its entry is marked online.  It is not: the       *)
(* onLeave of the connection it replaced comes later.                      *)
MarkedOnline ==
  \A c \in Clusters : IsOnline(c) /\ at[tunnels[c]] = "serving" /\ open[tunnels[c]]
                      => clusters[c].online

(* "Successful connection that later disconnected; reset backoff"          *)
(* (agent.go:70): after a connection that was established, the agent       *)
(* sleeps the base delay.  It does not: connect never returns nil.         *)
BackoffResets ==
  [][\A a \in Agents :
       state[a] = "connected" /\ state'[a] = "sleeping" => backoff'[a] = BaseBackoff]_vars
=============================================================================
