------------------------------ MODULE HubProofs ------------------------------
(***************************************************************************)
(* Theorems about Hub, for any agents, clusters and connections: its type  *)
(* invariant, what h.tunnels may hold, that an open connection is never    *)
(* taken out of it, and that a cluster without connections is not marked   *)
(* online.                                                                 *)
(***************************************************************************)
EXTENDS Hub, TLAPS

USE AgentsAssumption, BackoffAssumption, NoneAssumption

-----------------------------------------------------------------------------
LEMMA InitTypes == Init => TypeOK
<1> SUFFICES ASSUME Init PROVE TypeOK
  OBVIOUS
<1>1. BaseBackoff \in BaseBackoff..MaxBackoff
  OBVIOUS
<1>2. backoff \in [Agents -> BaseBackoff..MaxBackoff]
  BY <1>1 DEF Init
<1>3. clusters \in [Clusters -> [info : Agents \cup {None}, online : BOOLEAN]]
  BY DEF Init, Unknown
<1> QED
  BY <1>2, <1>3 DEF Init, TypeOK

LEMMA HandleConnectTypes ==
  ASSUME TypeOK, NEW k \in Conns, HandleConnect(k)
  PROVE  TypeOK'
<1>1. at[k] # "free" /\ owner[k] \in Agents /\ ClusterOn(k) \in Clusters
  BY DEF TypeOK, HandleConnect, Register, Join, ReadEnds, Unregister, Leave, ClusterOn
<1>2. CASE Register(k)
  BY <1>1, <1>2 DEF TypeOK, Register, agentVars
<1>3. CASE Join(k)
  BY <1>1, <1>3 DEF TypeOK, Join, connVars, agentVars
<1>4. CASE ReadEnds(k)
  BY <1>1, <1>4 DEF TypeOK, ReadEnds, agentVars
<1>5. CASE Unregister(k)
  BY <1>1, <1>5 DEF TypeOK, Unregister, connVars, agentVars
<1>6. CASE Leave(k)
  <2>1. clusters' = [clusters EXCEPT ![ClusterOn(k)] = [info |-> @.info, online |-> FALSE]]
    BY <1>6 DEF Leave
  <2>2. clusters' \in [Clusters -> [info : Agents \cup {None}, online : BOOLEAN]]
    BY <1>1, <2>1 DEF TypeOK
  <2>3. /\ at' = [at EXCEPT ![k] = "free"] /\ owner' = [owner EXCEPT ![k] = None]
        /\ UNCHANGED <<calm, tunnels, open, link, state, conn, backoff>>
    BY <1>6 DEF Leave, connVars, agentVars
  <2> QED
    BY <2>2, <2>3 DEF TypeOK
<1> QED
  BY <1>2, <1>3, <1>4, <1>5, <1>6 DEF HandleConnect

LEMMA RunTypes ==
  ASSUME TypeOK, NEW a \in Agents, Run(a) \/ AgentRestarts(a)
  PROVE  TypeOK'
<1>1. CASE Dial(a)
  BY <1>1 DEF TypeOK, Dial
<1>2. CASE DialFails(a)
  BY <1>2 DEF TypeOK, DialFails, Sleeps, hubVars, connVars
<1>3. CASE Disconnect(a)
  BY <1>3 DEF TypeOK, Disconnect, Sleeps, hubVars
<1>4. CASE Wake(a)
  <2>1. backoff[a] \in BaseBackoff..MaxBackoff
    BY DEF TypeOK
  <2>2. (IF 2 * backoff[a] > MaxBackoff THEN MaxBackoff ELSE 2 * backoff[a])
          \in BaseBackoff..MaxBackoff
    BY <2>1
  <2> QED
    BY <1>4, <2>2 DEF TypeOK, Wake, hubVars, connVars
<1>5. CASE AgentRestarts(a)
  <2>1. BaseBackoff \in BaseBackoff..MaxBackoff
    OBVIOUS
  <2> QED
    BY <1>5, <2>1 DEF TypeOK, AgentRestarts, hubVars
<1> QED
  BY <1>1, <1>2, <1>3, <1>4, <1>5 DEF Run

LEMMA NextTypes == TypeOK /\ [Next]_vars => TypeOK'
<1> SUFFICES ASSUME TypeOK, [Next]_vars PROVE TypeOK'
  OBVIOUS
<1>1. CASE UNCHANGED vars
  BY <1>1 DEF TypeOK, vars, hubVars, connVars, agentVars
<1>2. CASE HubRestarts
  BY <1>2 DEF TypeOK, HubRestarts, Unknown, agentVars
<1>3. CASE Weather
  BY <1>3 DEF TypeOK, Weather, hubVars, connVars, agentVars
<1>4. CASE \E k \in Conns : Break(k)
  BY <1>4 DEF TypeOK, Break, hubVars, agentVars
<1> QED
  BY <1>1, <1>2, <1>3, <1>4, HandleConnectTypes, RunTypes DEF Next

(* Every variable keeps its type: a connection that is not free has an     *)
(* owner, a connected agent a connection, and no delay exceeds the cap.    *)
THEOREM TypeCorrect == Spec => []TypeOK
BY InitTypes, NextTypes, PTL DEF Spec

-----------------------------------------------------------------------------
(* The registry.  OpenIsKept needs to know that a connection whose         *)
(* readLoop has returned is closed, and NewestServes that the entry of a   *)
(* cluster is a live connection of that cluster (NoDeadTunnel).            *)

Closed == \A k \in Conns : at[k] \in {"ended", "unregistered", "free"} => ~open[k]

HubInv == NoDeadTunnel /\ NewestServes /\ Closed /\ FlagOffWhenGone

LEMMA InitHub == Init => HubInv
BY DEF Init, HubInv, NoDeadTunnel, NewestServes, Closed, FlagOffWhenGone, Unknown, IsOnline

LEMMA HandleConnectHub ==
  ASSUME TypeOK, HubInv, NEW k \in Conns, HandleConnect(k)
  PROVE  HubInv'
<1> USE DEF ClusterOn, IsOnline
<1>1. at[k] # "free" /\ owner[k] \in Agents /\ ClusterOn(k) \in Clusters
  BY DEF TypeOK, HandleConnect, Register, Join, ReadEnds, Unregister, Leave
<1>2. CASE Register(k)
  <2>1. /\ at[k] = "upgraded" /\ at' = [at EXCEPT ![k] = "registered"]
        /\ tunnels' = [tunnels EXCEPT ![ClusterOn(k)] = k]
        /\ open' = [j \in Conns |-> open[j] /\ j # tunnels[ClusterOn(k)]]
        /\ UNCHANGED <<clusters, owner>>
    BY <1>2 DEF Register
  <2>2. NoDeadTunnel'
    BY <1>1, <2>1 DEF TypeOK, HubInv, NoDeadTunnel
  <2>3. NewestServes'
    BY <1>1, <2>1 DEF TypeOK, HubInv, NewestServes
  <2>4. Closed' /\ FlagOffWhenGone'
    BY <1>1, <2>1 DEF TypeOK, HubInv, Closed, FlagOffWhenGone
  <2> QED
    BY <2>2, <2>3, <2>4 DEF HubInv
<1>3. CASE Join(k)
  <2>1. /\ at[k] = "registered" /\ at' = [at EXCEPT ![k] = "serving"]
        /\ clusters' = [clusters EXCEPT ![ClusterOn(k)] = [info |-> owner[k], online |-> TRUE]]
        /\ UNCHANGED <<tunnels, owner, open>>
    BY <1>3 DEF Join, connVars
  <2>2. NoDeadTunnel' /\ NewestServes' /\ Closed'
    BY <2>1 DEF TypeOK, HubInv, NoDeadTunnel, NewestServes, Closed
  <2>3. FlagOffWhenGone'
    BY <1>1, <2>1 DEF TypeOK, HubInv, FlagOffWhenGone
  <2> QED
    BY <2>2, <2>3 DEF HubInv
<1>4. CASE ReadEnds(k)
  <2>1. /\ at[k] = "serving" /\ at' = [at EXCEPT ![k] = "ended"]
        /\ open' = [open EXCEPT ![k] = FALSE]
        /\ UNCHANGED <<tunnels, owner, clusters>>
    BY <1>4 DEF ReadEnds
  <2> QED
    BY <2>1 DEF TypeOK, HubInv, NoDeadTunnel, NewestServes, Closed, FlagOffWhenGone
<1>5. CASE Unregister(k)
  <2>1. /\ at[k] = "ended" /\ at' = [at EXCEPT ![k] = "unregistered"]
        /\ tunnels' = IF tunnels[ClusterOn(k)] = k
                        THEN [tunnels EXCEPT ![ClusterOn(k)] = None] ELSE tunnels
        /\ UNCHANGED <<clusters, owner, open>>
    BY <1>5 DEF Unregister, connVars
  <2>2. NoDeadTunnel' /\ Closed' /\ FlagOffWhenGone'
    BY <1>1, <2>1 DEF TypeOK, HubInv, NoDeadTunnel, Closed, FlagOffWhenGone
  <2>3. NewestServes'
    BY <1>1, <2>1 DEF TypeOK, HubInv, NewestServes
  <2> QED
    BY <2>2, <2>3 DEF HubInv
<1>6. CASE Leave(k)
  <2>1. /\ at[k] = "unregistered" /\ at' = [at EXCEPT ![k] = "free"]
        /\ owner' = [owner EXCEPT ![k] = None]
        /\ clusters' = [clusters EXCEPT ![ClusterOn(k)] = [info |-> @.info, online |-> FALSE]]
        /\ UNCHANGED <<tunnels, open>>
    BY <1>6 DEF Leave, connVars
  <2>2. NoDeadTunnel' /\ NewestServes' /\ Closed'
    BY <2>1 DEF TypeOK, HubInv, NoDeadTunnel, NewestServes, Closed
  <2>3. FlagOffWhenGone'
    BY <1>1, <2>1 DEF TypeOK, HubInv, FlagOffWhenGone
  <2> QED
    BY <2>2, <2>3 DEF HubInv
<1> QED
  BY <1>2, <1>3, <1>4, <1>5, <1>6 DEF HandleConnect

LEMMA RunHub ==
  ASSUME TypeOK, HubInv, NEW a \in Agents, Run(a) \/ AgentRestarts(a)
  PROVE  HubInv'
<1>1. CASE Dial(a)
  <2>1. PICK k \in Conns : /\ at[k] = "free" /\ at' = [at EXCEPT ![k] = "upgraded"]
                           /\ owner' = [owner EXCEPT ![k] = a]
                           /\ open' = [open EXCEPT ![k] = TRUE]
    BY <1>1 DEF Dial
  <2>2. UNCHANGED <<tunnels, clusters>>
    BY <1>1 DEF Dial
  <2> QED
    BY <2>1, <2>2 DEF TypeOK, HubInv, NoDeadTunnel, NewestServes, Closed, FlagOffWhenGone,
                      ClusterOn, IsOnline
<1>2. CASE DialFails(a) \/ Disconnect(a) \/ Wake(a) \/ AgentRestarts(a)
  <2>1. UNCHANGED <<tunnels, clusters, at, owner, open>>
    BY <1>2 DEF DialFails, Disconnect, Wake, AgentRestarts, hubVars, connVars
  <2> QED
    BY <2>1 DEF HubInv, NoDeadTunnel, NewestServes, Closed, FlagOffWhenGone, ClusterOn, IsOnline
<1> QED
  BY <1>1, <1>2 DEF Run

LEMMA NextHub == TypeOK /\ HubInv /\ [Next]_vars => HubInv'
<1> SUFFICES ASSUME TypeOK, HubInv, [Next]_vars PROVE HubInv'
  OBVIOUS
<1>1. CASE HubRestarts
  BY <1>1 DEF HubRestarts, HubInv, NoDeadTunnel, NewestServes, Closed, FlagOffWhenGone,
              Unknown, IsOnline
<1>2. CASE Weather \/ UNCHANGED vars \/ \E k \in Conns : Break(k)
  <2>1. UNCHANGED <<tunnels, clusters, at, owner, open>>
    BY <1>2 DEF Weather, Break, vars, hubVars, connVars
  <2> QED
    BY <2>1 DEF HubInv, NoDeadTunnel, NewestServes, Closed, FlagOffWhenGone, ClusterOn, IsOnline
<1> QED
  BY <1>1, <1>2, HandleConnectHub, RunHub DEF Next

LEMMA HubSafe == Spec => [](TypeOK /\ HubInv)
<1>1. Init => TypeOK /\ HubInv
  BY InitTypes, InitHub
<1>2. TypeOK /\ HubInv /\ [Next]_vars => (TypeOK /\ HubInv)'
  BY NextTypes, NextHub
<1> QED
  BY <1>1, <1>2, PTL DEF Spec

(* h.tunnels never holds a connection whose handler is done with it, nor   *)
(* one of another cluster.                                                 *)
THEOREM RegistryLive == Spec => []NoDeadTunnel
<1>1. HubInv => NoDeadTunnel
  BY DEF HubInv
<1> QED
  BY <1>1, HubSafe, PTL

(* The only open, registered connection of a cluster is the one requests   *)
(* go to, however many agents claim the cluster.                           *)
THEOREM OneServes == Spec => []NewestServes
<1>1. HubInv => NewestServes
  BY DEF HubInv
<1> QED
  BY <1>1, HubSafe, PTL

(* When all connections of a cluster are over it is not marked online.     *)
THEOREM FlagOff == Spec => []FlagOffWhenGone
<1>1. HubInv => FlagOffWhenGone
  BY DEF HubInv
<1> QED
  BY <1>1, HubSafe, PTL

KeepsOpen == \A c \in Clusters :
  IsOnline(c) /\ tunnels'[c] # tunnels[c] => ~open'[tunnels[c]]

LEMMA StepKeepsOpen == TypeOK /\ HubInv /\ [Next]_vars => KeepsOpen
<1> SUFFICES ASSUME TypeOK, HubInv, [Next]_vars, NEW c \in Clusters,
                    IsOnline(c), tunnels'[c] # tunnels[c]
             PROVE  ~open'[tunnels[c]]
  BY DEF KeepsOpen
<1>1. tunnels[c] \in Conns
  BY DEF TypeOK, IsOnline
<1>2. CASE \E k \in Conns : Register(k)
  BY <1>1, <1>2 DEF Register, TypeOK, ClusterOn
<1>3. CASE \E k \in Conns : Unregister(k)
  <2>1. PICK k \in Conns : Unregister(k)
    BY <1>3
  <2>2. tunnels[c] = k /\ at[k] = "ended" /\ UNCHANGED open
    BY <2>1 DEF Unregister, TypeOK, connVars
  <2> QED
    BY <2>2 DEF HubInv, Closed
<1>4. CASE HubRestarts
  BY <1>1, <1>4 DEF HubRestarts
<1>5. CASE UNCHANGED tunnels
  BY <1>5
<1> QED
  BY <1>2, <1>3, <1>4, <1>5
  DEF Next, HandleConnect, Join, ReadEnds, Leave, Break, Run, Dial, DialFails, Disconnect, Wake,
      AgentRestarts, Weather, vars, hubVars

(* No step takes an open connection out of h.tunnels: whoever removes or   *)
(* replaces an entry, its connection is closed (hub.go:85-90, 105-109).    *)
THEOREM OpenStays == Spec => OpenIsKept
<1>1. TypeOK /\ HubInv /\ [Next]_vars => [KeepsOpen]_vars
  BY StepKeepsOpen
<1>2. Spec => [][KeepsOpen]_vars
  BY <1>1, HubSafe, PTL DEF Spec
<1> QED
  BY <1>2 DEF OpenIsKept, KeepsOpen

-----------------------------------------------------------------------------
(* The registry implements Directory.  What is to be added is that a       *)
(* connection which has no entry yet is still open: nobody but the one     *)
(* that replaces its entry, and its own readLoop, closes it.               *)

Dials == \A k \in Conns : at[k] = "upgraded" => open[k]

LEMMA NextDials == TypeOK /\ HubInv /\ Dials /\ [Next]_vars => Dials'
<1> SUFFICES ASSUME TypeOK, HubInv, Dials, [Next]_vars, NEW k \in Conns, at'[k] = "upgraded"
             PROVE  open'[k]
  BY DEF Dials
<1>1. ASSUME NEW j \in Conns, Register(j)
      PROVE  open'[k]
  <2>1. /\ at' = [at EXCEPT ![j] = "registered"]
        /\ open' = [i \in Conns |-> open[i] /\ i # tunnels[ClusterOn(j)]]
        /\ ClusterOn(j) \in Clusters
    BY <1>1 DEF Register, TypeOK, ClusterOn
  <2>2. at[k] = "upgraded" /\ open[k]
    BY <2>1 DEF TypeOK, Dials
  <2>3. k # tunnels[ClusterOn(j)]
    BY <2>1, <2>2, NoneAssumption DEF HubInv, NoDeadTunnel, IsOnline, TypeOK
  <2> QED
    BY <2>1, <2>2, <2>3
<1>2. ASSUME NEW j \in Conns, ReadEnds(j)
      PROVE  open'[k]
  BY <1>2 DEF ReadEnds, TypeOK, Dials
<1>3. ASSUME NEW j \in Conns, Join(j) \/ Unregister(j) \/ Leave(j)
      PROVE  open'[k]
  BY <1>3 DEF Join, Unregister, Leave, TypeOK, Dials, connVars
<1>4. ASSUME NEW a \in Agents, Dial(a)
      PROVE  open'[k]
  BY <1>4 DEF Dial, TypeOK, Dials
<1>5. CASE HubRestarts
  BY <1>5 DEF HubRestarts
<1>6. CASE UNCHANGED <<at, open>>
  BY <1>6 DEF Dials
<1> QED
  BY <1>1, <1>2, <1>3, <1>4, <1>5, <1>6
  DEF Next, HandleConnect, Break, Run, DialFails, Disconnect, Wake, AgentRestarts, Weather,
      vars, hubVars, connVars

(* One lemma per action that a user of the registry sees.                  *)
LEMMA DialComes ==
  ASSUME TypeOK, HubInv, NEW a \in Agents, Dial(a)
  PROVE  \E k \in Conns : Registry!Come(k)
<1>1. PICK k \in Conns : at[k] = "free" /\ open' = [open EXCEPT ![k] = TRUE]
  BY DEF Dial
<1>2. UNCHANGED tunnels
  BY DEF Dial
<1>3. ~open[k]
  BY <1>1 DEF HubInv, Closed
<1>4. ~Registry!Entered(k)
  BY <1>1, NoneAssumption DEF Registry!Entered, HubInv, NoDeadTunnel, IsOnline
<1> QED
  BY <1>1, <1>2, <1>3, <1>4 DEF Registry!Come

LEMMA RegisterEnters ==
  ASSUME TypeOK, HubInv, Dials, NEW k \in Conns, Register(k)
  PROVE  \E c \in Clusters : Registry!Enter(c, k)
<1>1. /\ at[k] = "upgraded" /\ ClusterOn(k) \in Clusters
      /\ tunnels' = [tunnels EXCEPT ![ClusterOn(k)] = k]
      /\ open' = [j \in Conns |-> open[j] /\ j # tunnels[ClusterOn(k)]]
  BY DEF Register, TypeOK, ClusterOn
<1>2. ~Registry!Entered(k)
  BY <1>1, NoneAssumption DEF Registry!Entered, HubInv, NoDeadTunnel, IsOnline
<1> QED
  BY <1>1, <1>2 DEF Registry!Enter, Dials

LEMMA ReadEndsCloses ==
  ASSUME TypeOK, HubInv, NEW k \in Conns, ReadEnds(k)
  PROVE  (\E c \in Clusters : Registry!Close(c)) \/ UNCHANGED <<tunnels, open>>
<1>1. /\ at[k] = "serving" /\ open' = [open EXCEPT ![k] = FALSE] /\ UNCHANGED tunnels
      /\ ClusterOn(k) \in Clusters
  BY DEF ReadEnds, TypeOK, ClusterOn
<1>2. CASE open[k]
  <2>1. tunnels[ClusterOn(k)] = k /\ k # None
    BY <1>1, <1>2, NoneAssumption DEF HubInv, NewestServes
  <2> QED
    BY <1>1, <1>2, <2>1 DEF Registry!Close
<1>3. CASE ~open[k]
  BY <1>1, <1>3 DEF TypeOK
<1> QED
  BY <1>2, <1>3

LEMMA UnregisterRemoves ==
  ASSUME TypeOK, HubInv, NEW k \in Conns, Unregister(k)
  PROVE  (\E c \in Clusters : Registry!Remove(c)) \/ UNCHANGED <<tunnels, open>>
<1>1. /\ at[k] = "ended" /\ UNCHANGED open /\ ClusterOn(k) \in Clusters
      /\ tunnels' = IF tunnels[ClusterOn(k)] = k
                      THEN [tunnels EXCEPT ![ClusterOn(k)] = None] ELSE tunnels
  BY DEF Unregister, TypeOK, ClusterOn, connVars
<1>2. ~open[k] /\ k # None
  BY <1>1, NoneAssumption DEF HubInv, Closed
<1> QED
  BY <1>1, <1>2 DEF Registry!Remove

LEMMA DirectoryStep ==
  TypeOK /\ HubInv /\ Dials /\ [Next]_vars => [Registry!DirectoryNext]_(Registry!directoryVars)
<1> SUFFICES ASSUME TypeOK, HubInv, Dials, [Next]_vars
             PROVE  Registry!DirectoryNext \/ UNCHANGED <<tunnels, open>>
  BY DEF Registry!directoryVars
<1>1. CASE HubRestarts
  BY <1>1 DEF HubRestarts, Registry!DirectoryNext, Registry!Reset
<1>2. CASE UNCHANGED <<tunnels, open>>
  BY <1>2
<1> QED
  BY <1>1, <1>2, DialComes, RegisterEnters, ReadEndsCloses, UnregisterRemoves
  DEF Next, HandleConnect, Join, Leave, Break, Run, DialFails, Disconnect, Wake, AgentRestarts,
      Weather, vars, hubVars, connVars, Registry!DirectoryNext

(* The registry is a Directory: a connection gets its entry once, and      *)
(* loses it only when it is closed, whichever handlers run late.           *)
THEOREM ImplementsDirectory == Spec => KeepsDirectory
<1>1. Init => Registry!DirectoryInit /\ Dials
  BY DEF Init, Registry!DirectoryInit, Dials
<1>2. TypeOK /\ HubInv /\ Dials /\ [Next]_vars => Dials'
  BY NextDials
<1>3. TypeOK /\ HubInv /\ Dials /\ [Next]_vars
        => [Registry!DirectoryNext]_(Registry!directoryVars)
  BY DirectoryStep
<1> QED
  BY <1>1, <1>2, <1>3, HubSafe, PTL DEF Spec, KeepsDirectory, Registry!DirectorySpec
=============================================================================
