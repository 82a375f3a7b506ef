-------------------------- MODULE ContainersProofs --------------------------
(***************************************************************************)
(* Proofs about Containers, for any requests, environments, clusters,      *)
(* users and patterns.  What a pattern matches plays no part but in the    *)
(* section on patterns: elsewhere the access check is any predicate.       *)
(***************************************************************************)
EXTENDS Containers, SequenceTheorems, WellFoundedInduction, TLAPS

-----------------------------------------------------------------------------
(* The tables of calls.                                                    *)

Passes(c) == c.goes \cup c.ends
Good == {"good", "garbled"}

(* Every operation makes one to three calls; a listing needs its first one *)
(* to succeed; one that reads needs the last it makes; one that changes    *)
(* something needs its last, which is the one that changes it.  Only a     *)
(* call that reads may fail and the operation go on.                       *)
Sound(calls, o) ==
  /\ Len(calls) \in 1..MaxCalls
  /\ \A i \in 1..Len(calls) : "failed" \in Passes(calls[i]) => calls[i].effect = "read"
  /\ \A i \in 1..Len(calls) : calls[i].goes \cap calls[i].ends = {}
  /\ o = "list" => Passes(calls[1]) = {"good"}
  /\ o \in {"inspect", "logs"} \cup Changes =>
       /\ Passes(calls[Len(calls)]) \subseteq Good
       /\ \A i \in 1..Len(calls) : calls[i].ends \subseteq Good
  /\ o \in Changes =>
       /\ calls[Len(calls)].effect \in Changes
       /\ \A i \in 1..Len(calls) : calls[i].ends = {}

LEMMA DockerSound == ASSUME NEW o \in Ops PROVE Sound(Docker[o], o)
<1> USE DEF Sound, Docker, Passes, Good, Changes, MaxCalls, Outcomes,
            Going, Decoded, Passed, Unchecked, Optional
<1>1. CASE o = "list" BY <1>1
<1>2. CASE o = "inspect" BY <1>2
<1>3. CASE o = "logs" BY <1>3
<1>4. CASE o = "exec" BY <1>4
<1>5. CASE o = "stop" BY <1>5
<1>6. CASE o = "restart" BY <1>6
<1>7. CASE o = "delete" BY <1>7
<1> QED BY <1>1, <1>2, <1>3, <1>4, <1>5, <1>6, <1>7 DEF Ops

LEMMA KubeSound == ASSUME NEW o \in Ops PROVE Sound(Kube[o], o)
<1> USE DEF Sound, Kube, Passes, Good, Changes, MaxCalls, Outcomes,
            Going, Decoded, Passed, Unchecked, Optional
<1>1. CASE o = "list" BY <1>1
<1>2. CASE o = "inspect" BY <1>2
<1>3. CASE o = "logs" BY <1>3
<1>4. CASE o = "exec" BY <1>4
<1>5. CASE o = "stop" BY <1>5
<1>6. CASE o = "restart" BY <1>6
<1>7. CASE o = "delete" BY <1>7
<1> QED BY <1>1, <1>2, <1>3, <1>4, <1>5, <1>6, <1>7 DEF Ops

LEMMA NomadSound == ASSUME NEW o \in Ops PROVE Sound(Nomad[o], o)
<1> USE DEF Sound, Nomad, Passes, Good, Changes, MaxCalls, Outcomes,
            Going, Decoded, Passed, Unchecked, Optional, Tried
<1>1. CASE o = "list" BY <1>1
<1>2. CASE o = "inspect" BY <1>2
<1>3. CASE o = "logs" BY <1>3
<1>4. CASE o = "exec" BY <1>4
<1>5. CASE o = "stop" BY <1>5
<1>6. CASE o = "restart" BY <1>6
<1>7. CASE o = "delete" BY <1>7
<1> QED BY <1>1, <1>2, <1>3, <1>4, <1>5, <1>6, <1>7 DEF Ops

LEMMA TablesSound ==
  ASSUME NEW ty \in Types, NEW o \in Ops
  PROVE  Sound(Provider[ty][o], o)
<1>1. CASE ty = "docker" BY <1>1, DockerSound DEF Provider
<1>2. CASE ty = "kube" BY <1>2, KubeSound DEF Provider
<1>3. CASE ty = "nomad" BY <1>3, NomadSound DEF Provider
<1> QED BY <1>1, <1>2, <1>3 DEF Types

-----------------------------------------------------------------------------
(* The invariant.                                                          *)

(* What a task has, by where it is: a user who may use its environment, an *)
(* audit entry if it runs a command, and the orchestrator's word for what  *)
(* it has done so far.                                                     *)
TaskInv(t) ==
  /\ at[t] # "none" =>
       /\ stage[t[1]] # "idle"
       /\ env[t].id = t[2] /\ CanAccessEnvironment(user[t[1]], env[t].name)
  /\ stage[t[1]] = "idle" \/ at[t] \in {"online", "provider"} => step[t] = 1
  /\ at[t] \in {"call", "wait", "ok"} => type[t] \in Types
  /\ at[t] \in {"call", "wait"} /\ op[t[1]] = "exec" => t[1] \in audit
  /\ op[t[1]] = "list" /\ at[t] \in {"call", "wait"} /\ step[t] # 1 =>
       verdict[<<t, 1>>] = "accepted"
  /\ op[t[1]] = "list" /\ at[t] = "ok" => verdict[<<t, 1>>] = "accepted"
  /\ op[t[1]] \in {"inspect", "logs"} \cup Changes /\ at[t] = "ok" =>
       /\ step[t] \in 1..Len(CallsOf(t))
       /\ verdict[<<t, step[t]>>] = "accepted"
       /\ op[t[1]] \in Changes => step[t] = Len(CallsOf(t))

Granted(u, o, id, place) ==
  \E e \in Envs : /\ e.id = id /\ CanAccessEnvironment(u, e.name)
                  /\ Concerns(place, o, e)

(* What is known of a call.                                                *)
CallInv(t, i) ==
  /\ target[<<t, i>>] # None =>
       /\ stage[t[1]] # "idle"
       /\ Granted(user[t[1]], op[t[1]], t[2], target[<<t, i>>])
       /\ op[t[1]] = "exec" => t[1] \in audit
  /\ executed[<<t, i>>] = 1 => target[<<t, i>>] # None
  /\ verdict[<<t, i>>] # "none" => executed[<<t, i>>] = 1

RequestInv(r) ==
  /\ answer[r] # "none" <=> stage[r] = "answered"
  /\ answer[r] = "ok" => \A e \in asked[r] : at[<<r, e>>] \in {"ok", "error"}

IInv == /\ TypeOK
        /\ \A t \in Tasks : TaskInv(t) /\ \A i \in 1..MaxCalls : CallInv(t, i)
        /\ \A r \in Requests : RequestInv(r)

LEMMA Pairs ==
  /\ \A t \in Tasks : /\ t[1] \in Requests /\ t[2] \in EnvIds /\ t = <<t[1], t[2]>>
  /\ \A r \in Requests, e \in EnvIds : <<r, e>> \in Tasks
  /\ \A c \in Calls : /\ c[1] \in Tasks /\ c[2] \in 1..MaxCalls /\ c = <<c[1], c[2]>>
  /\ \A t \in Tasks, i \in 1..MaxCalls : <<t, i>> \in Calls
<1>1. \A t \in Tasks : t[1] \in Requests /\ t[2] \in EnvIds /\ t = <<t[1], t[2]>>
      BY DEF Tasks
<1>2. \A r \in Requests, e \in EnvIds : <<r, e>> \in Tasks BY DEF Tasks
<1>3. \A c \in Calls : c[1] \in Tasks /\ c[2] \in 1..MaxCalls /\ c = <<c[1], c[2]>>
      BY DEF Calls
<1>4. \A t \in Tasks, i \in 1..MaxCalls : <<t, i>> \in Calls BY DEF Calls
<1> QED BY <1>1, <1>2, <1>3, <1>4

LEMMA InitInv == Init => IInv
<1> SUFFICES ASSUME Init PROVE IInv OBVIOUS
<1>1. TypeOK
  <2>1. RC!CallTypeOK BY DEF Init, RC!CallInit, RC!CallTypeOK
  <2>2. 1 \in 1..MaxCalls BY DEF MaxCalls
  <2> QED BY <2>1, <2>2 DEF Init, TypeOK
<1>2. ASSUME NEW t \in Tasks PROVE TaskInv(t)
      BY <1>2, Pairs DEF Init, TaskInv
<1>3. ASSUME NEW t \in Tasks, NEW i \in 1..MaxCalls PROVE CallInv(t, i)
      BY <1>3, Pairs DEF Init, CallInv, RC!CallInit
<1>4. ASSUME NEW r \in Requests PROVE RequestInv(r)
      BY <1>4 DEF Init, RequestInv
<1> QED BY <1>1, <1>2, <1>3, <1>4 DEF IInv

-----------------------------------------------------------------------------
(* What goes on around the requests touches none of this.                  *)

LEMMA WorldInv ==
  ASSUME IInv, RequestsUnchanged, envs' \in Stores,
         clusters' \in [Clusters -> Types \cup {None}], online' \subseteq Clusters
  PROVE  IInv'
<1> USE DEF RequestsUnchanged, requestVars, remoteVars
<1>1. TypeOK' BY DEF IInv, TypeOK, RC!CallTypeOK, CallsOf
<1>2. ASSUME NEW t \in Tasks PROVE TaskInv(t)'
      BY <1>2 DEF IInv, TaskInv, CallsOf
<1>3. ASSUME NEW t \in Tasks, NEW i \in 1..MaxCalls PROVE CallInv(t, i)'
      BY <1>3 DEF IInv, CallInv
<1>4. ASSUME NEW r \in Requests PROVE RequestInv(r)'
      BY <1>4 DEF IInv, RequestInv
<1> QED BY <1>1, <1>2, <1>3, <1>4 DEF IInv

LEMMA StutterInv == IInv /\ UNCHANGED vars => IInv'
<1> SUFFICES ASSUME IInv, UNCHANGED vars PROVE IInv' OBVIOUS
<1> QED BY WorldInv DEF vars, worldVars, RequestsUnchanged, IInv, TypeOK

LEMMA OrchestratorInv == ASSUME NEW c \in Calls, IInv, Orchestrator(c) PROVE IInv'
<1> USE DEF Orchestrator, worldVars, requestVars, RC!Execute
<1>1. TypeOK' BY DEF IInv, TypeOK, RC!CallTypeOK, CallsOf
<1>2. ASSUME NEW x \in Calls, verdict[x] # "none"
      PROVE  verdict'[x] = verdict[x] /\ executed'[x] = 1
  <2>1. executed[x] = 1 BY <1>2, Pairs DEF IInv, CallInv
  <2> QED BY <1>2, <2>1 DEF IInv, TypeOK, RC!CallTypeOK
<1>3. ASSUME NEW t \in Tasks PROVE TaskInv(t)'
  <2>1. TaskInv(t) BY <1>3 DEF IInv
  <2>2. 1 \in 1..MaxCalls /\ step[t] \in 1..MaxCalls
        BY <1>3 DEF IInv, TypeOK, MaxCalls
  <2>3. <<t, 1>> \in Calls /\ <<t, step[t]>> \in Calls BY <1>3, <2>2, Pairs
  <2> QED BY <2>1, <2>3, <1>2 DEF TaskInv, CallsOf
<1>4. ASSUME NEW t \in Tasks, NEW i \in 1..MaxCalls PROVE CallInv(t, i)'
  <2>1. CallInv(t, i) /\ <<t, i>> \in Calls BY <1>4, Pairs DEF IInv
  <2>2. CASE <<t, i>> = c BY <2>1, <2>2 DEF CallInv, IInv, TypeOK, RC!CallTypeOK
  <2>3. CASE <<t, i>> # c BY <2>1, <2>3 DEF CallInv, IInv, TypeOK, RC!CallTypeOK
  <2> QED BY <2>2, <2>3
<1>5. ASSUME NEW r \in Requests PROVE RequestInv(r)'
      BY <1>5 DEF IInv, RequestInv
<1> QED BY <1>1, <1>3, <1>4, <1>5 DEF IInv

LEMMA RestartInv == IInv /\ Restart => IInv'
<1> SUFFICES ASSUME IInv, Restart PROVE IInv' OBVIOUS
<1> USE DEF Restart
<1>1. TypeOK'
  <2>1. RC!CallTypeOK' BY DEF IInv, TypeOK, RC!CallTypeOK
  <2>2. /\ envs' \in Stores /\ clusters' \in [Clusters -> Types \cup {None}]
        /\ online' \subseteq Clusters
        BY DEF IInv, TypeOK
  <2>3. /\ stage' \in [Requests -> {"idle", "busy", "answered"}]
        /\ answer' \in [Requests -> {"none", "ok", "failed", "denied", "notFound", "lost"}]
        /\ at' \in [Tasks -> {"none", "online", "provider", "call", "wait", "ok", "error"}]
        BY DEF IInv, TypeOK
  <2>4. \A t \in Tasks : at'[t] \in {at[t], "none"} BY DEF IInv, TypeOK
  <2> QED BY <2>1, <2>2, <2>3, <2>4 DEF IInv, TypeOK, CallsOf
<1>2. ASSUME NEW t \in Tasks PROVE TaskInv(t)'
  <2>1. TaskInv(t) /\ t[1] \in Requests BY <1>2, Pairs DEF IInv
  <2>2. /\ at'[t] \in {at[t], "none"}
        /\ stage'[t[1]] = "idle" <=> stage[t[1]] = "idle"
        BY <1>2, <2>1 DEF IInv, TypeOK
  <2> QED BY <2>1, <2>2 DEF TaskInv, CallsOf
<1>3. ASSUME NEW t \in Tasks, NEW i \in 1..MaxCalls PROVE CallInv(t, i)'
  <2>1. CallInv(t, i) /\ t[1] \in Requests BY <1>3, Pairs DEF IInv
  <2>2. stage'[t[1]] = "idle" <=> stage[t[1]] = "idle" BY <1>3, <2>1 DEF IInv, TypeOK
  <2> QED BY <2>1, <2>2 DEF CallInv
<1>4. ASSUME NEW r \in Requests PROVE RequestInv(r)'
  <2>1. RequestInv(r) BY <1>4 DEF IInv
  <2>2. CASE stage[r] = "busy" BY <1>4, <2>1, <2>2 DEF RequestInv, IInv, TypeOK
  <2>3. CASE stage[r] # "busy"
    <3>1. /\ answer'[r] = answer[r] /\ stage'[r] = stage[r] /\ asked'[r] = asked[r]
          BY <1>4, <2>3 DEF IInv, TypeOK
    <3>2. \A e \in asked[r] : at'[<<r, e>>] = at[<<r, e>>]
          BY <1>4, <2>3, Pairs DEF IInv, TypeOK
    <3> QED BY <2>1, <3>1, <3>2 DEF RequestInv
  <2> QED BY <2>2, <2>3
<1> QED BY <1>1, <1>2, <1>3, <1>4 DEF IInv

LEMMA AroundInv == IInv /\ World => IInv'
<1> SUFFICES ASSUME IInv, World PROVE IInv' OBVIOUS
<1>1. envs \in Stores /\ clusters \in [Clusters -> Types \cup {None}]
      /\ online \subseteq Clusters
      BY DEF IInv, TypeOK
<1>2. ASSUME NEW e \in Envs, PutEnvironment(e) PROVE IInv'
      BY <1>1, <1>2, WorldInv, EnvsAssumption DEF PutEnvironment, Stores
<1>3. ASSUME NEW id \in EnvIds, RemoveEnvironment(id) PROVE IInv'
      BY <1>1, <1>3, WorldInv DEF RemoveEnvironment, Stores
<1>4. ASSUME NEW c \in Clusters, Connects(c) \/ Disconnects(c) PROVE IInv'
      BY <1>1, <1>4, WorldInv DEF Connects, Disconnects
<1>5. ASSUME NEW j \in Joins, ClusterJoined(j) PROVE IInv'
  <2>1. j[1] \in Clusters /\ j[2] \in Types BY <1>5, JoinsAssumption
  <2> QED BY <1>1, <1>5, <2>1, WorldInv DEF ClusterJoined
<1>6. CASE Restart BY <1>6, RestartInv
<1>7. ASSUME NEW c \in Calls, Orchestrator(c) PROVE IInv' BY <1>7, OrchestratorInv
<1> QED BY <1>2, <1>3, <1>4, <1>5, <1>6, <1>7 DEF World

-----------------------------------------------------------------------------
(* A request arrives.  Until then it has no tasks and no calls.            *)

LEMMA IdleInv ==
  ASSUME IInv, NEW t \in Tasks, stage[t[1]] = "idle"
  PROVE  /\ at[t] = "none" /\ step[t] = 1
         /\ \A i \in 1..MaxCalls : target[<<t, i>>] = None
BY DEF IInv, TaskInv, CallInv

LEMMA UserType ==
  ASSUME NEW x \in Claims PROVE UserOf(x, GroupsOf, PatternsOf) \in Users
BY DEF Users

LEMMA RefuseInv ==
  ASSUME NEW r \in Requests, NEW o \in Ops, NEW x \in Claims, NEW id \in EnvIds,
         IInv, Refuse(r, o, x, id)
  PROVE  IInv'
<1>0. /\ stage[r] = "idle"
      /\ op' = [op EXCEPT ![r] = o]
      /\ user' = [user EXCEPT ![r] = UserOf(x, GroupsOf, PatternsOf)]
      /\ stage' = [stage EXCEPT ![r] = "answered"]
      /\ UNCHANGED <<worldVars, asked, at, env, type, step, remoteVars, audit>>
      BY DEF Refuse, Asks, Answers
<1>1. PICK what \in {"notFound", "denied"} : answer' = [answer EXCEPT ![r] = what]
      BY DEF Refuse, Answers
<1> USE <1>0, <1>1 DEF worldVars, remoteVars
<1>2. TypeOK'
  <2>1. /\ op' \in [Requests -> Ops \cup {None}]
        /\ user' \in [Requests -> Users \cup {None}]
        /\ stage' \in [Requests -> {"idle", "busy", "answered"}]
        /\ answer' \in [Requests -> {"none", "ok", "failed", "denied", "notFound", "lost"}]
        BY UserType DEF IInv, TypeOK
  <2>2. ASSUME NEW t \in Tasks, at[t] # "none" PROVE op'[t[1]] = op[t[1]]
        BY <2>2, IdleInv, Pairs DEF IInv, TypeOK
  <2> QED BY <2>1, <2>2, Pairs DEF IInv, TypeOK, RC!CallTypeOK, CallsOf
<1>3. ASSUME NEW t \in Tasks PROVE TaskInv(t)'
  <2>1. CASE t[1] = r
    <3>1. at[t] = "none" /\ step[t] = 1 BY <1>3, <2>1, IdleInv
    <3> QED BY <3>1, NoneAssumption DEF TaskInv
  <2>2. CASE t[1] # r
    <3>1. /\ stage'[t[1]] = stage[t[1]] /\ op'[t[1]] = op[t[1]]
          /\ user'[t[1]] = user[t[1]]
          BY <1>3, <2>2, Pairs DEF IInv, TypeOK
    <3> QED BY <1>3, <3>1 DEF IInv, TaskInv, CallsOf
  <2> QED BY <2>1, <2>2
<1>4. ASSUME NEW t \in Tasks, NEW i \in 1..MaxCalls PROVE CallInv(t, i)'
  <2>1. CASE t[1] = r
    <3>1. target[<<t, i>>] = None BY <1>4, <2>1, IdleInv
    <3> QED BY <1>4, <3>1 DEF IInv, CallInv
  <2>2. CASE t[1] # r
    <3>1. /\ stage'[t[1]] = stage[t[1]] /\ op'[t[1]] = op[t[1]]
          /\ user'[t[1]] = user[t[1]]
          BY <1>4, <2>2, Pairs DEF IInv, TypeOK
    <3> QED BY <1>4, <3>1 DEF IInv, CallInv
  <2> QED BY <2>1, <2>2
<1>5. ASSUME NEW q \in Requests PROVE RequestInv(q)'
      BY <1>5 DEF IInv, TypeOK, RequestInv
<1> QED BY <1>2, <1>3, <1>4, <1>5 DEF IInv

LEMMA BeginInv ==
  ASSUME NEW r \in Requests, NEW o \in Ops, NEW x \in Claims,
         NEW ids \in SUBSET EnvIds, NEW place \in {"online", "provider"},
         IInv, Asks(r, o, x), Begins(r, ids),
         \A id \in ids : envs[id] # None /\ MayUse(x, envs[id]),
         at' = [t \in Tasks |-> IF t[1] = r /\ t[2] \in ids THEN place ELSE at[t]],
         UNCHANGED <<worldVars, answer, type, step, remoteVars, audit>>
  PROVE  IInv'
<1>0. /\ stage[r] = "idle"
      /\ op' = [op EXCEPT ![r] = o]
      /\ user' = [user EXCEPT ![r] = UserOf(x, GroupsOf, PatternsOf)]
      /\ stage' = [stage EXCEPT ![r] = "busy"]
      /\ asked' = [asked EXCEPT ![r] = ids]
      /\ env' = [t \in Tasks |-> IF t[1] = r /\ t[2] \in ids THEN envs[t[2]] ELSE env[t]]
      BY DEF Asks, Begins
<1> USE <1>0 DEF worldVars, remoteVars
<1>1. ASSUME NEW t \in Tasks, at'[t] # "none"
      PROVE  \/ /\ t[1] = r /\ at'[t] = place /\ op'[t[1]] = o /\ env'[t] = envs[t[2]]
                /\ envs[t[2]] \in Envs /\ envs[t[2]].id = t[2] /\ MayUse(x, envs[t[2]])
                /\ user'[t[1]] = UserOf(x, GroupsOf, PatternsOf) /\ stage'[t[1]] = "busy"
             \/ /\ t[1] # r /\ at'[t] = at[t] /\ op'[t[1]] = op[t[1]] /\ env'[t] = env[t]
                /\ user'[t[1]] = user[t[1]] /\ stage'[t[1]] = stage[t[1]]
  <2>1. CASE t[1] = r
    <3>1. at[t] = "none" BY <1>1, <2>1, IdleInv
    <3>2. t[2] \in ids /\ at'[t] = place /\ env'[t] = envs[t[2]] BY <1>1, <2>1, <3>1
    <3>3. envs[t[2]] \in Envs /\ envs[t[2]].id = t[2] /\ MayUse(x, envs[t[2]])
          BY <3>2, Pairs DEF IInv, TypeOK, Stores
    <3>4. /\ op'[r] = o /\ user'[r] = UserOf(x, GroupsOf, PatternsOf) /\ stage'[r] = "busy"
          BY DEF IInv, TypeOK
    <3> QED BY <2>1, <3>2, <3>3, <3>4
  <2>2. CASE t[1] # r BY <1>1, <2>2, Pairs DEF IInv, TypeOK
  <2> QED BY <2>1, <2>2
<1>2. TypeOK'
  <2>1. /\ op' \in [Requests -> Ops \cup {None}]
        /\ user' \in [Requests -> Users \cup {None}]
        /\ stage' \in [Requests -> {"idle", "busy", "answered"}]
        /\ asked' \in [Requests -> SUBSET EnvIds]
        /\ at' \in [Tasks -> {"none", "online", "provider", "call", "wait", "ok", "error"}]
        BY UserType DEF IInv, TypeOK
  <2>2. env' \in [Tasks -> Envs \cup {None}]
        BY Pairs DEF IInv, TypeOK, Stores
  <2>3. ASSUME NEW t \in Tasks
        PROVE  /\ at'[t] # "none" => op'[t[1]] \in Ops /\ env'[t] \in Envs
               /\ at'[t] \in {"call", "wait"} =>
                    at'[t] = at[t] /\ type'[t] = type[t] /\ op'[t[1]] = op[t[1]]
        BY <1>1, <2>3 DEF IInv, TypeOK
  <2>4. ASSUME NEW t \in Tasks, at'[t] \in {"call", "wait"}
        PROVE  type'[t] \in Types /\ step'[t] <= Len(CallsOf(t))'
        BY <2>3, <2>4 DEF IInv, TypeOK, CallsOf
  <2> QED BY <2>1, <2>2, <2>3, <2>4 DEF IInv, TypeOK, RC!CallTypeOK
<1>3. ASSUME NEW t \in Tasks PROVE TaskInv(t)'
  <2>1. CASE t[1] = r
    <3>1. step[t] = 1 /\ at'[t] \in {"none", place} BY <1>3, <2>1, IdleInv
    <3>2. at'[t] # "none" =>
            /\ stage'[t[1]] # "idle" /\ env'[t].id = t[2]
            /\ CanAccessEnvironment(user'[t[1]], env'[t].name)
          BY <1>1, <1>3, <2>1 DEF MayUse
    <3> QED BY <3>1, <3>2 DEF TaskInv
  <2>2. CASE t[1] # r
    <3>1. /\ stage'[t[1]] = stage[t[1]] /\ op'[t[1]] = op[t[1]]
          /\ user'[t[1]] = user[t[1]] /\ at'[t] = at[t] /\ env'[t] = env[t]
          BY <1>3, <2>2, Pairs DEF IInv, TypeOK
    <3> QED BY <1>3, <3>1 DEF IInv, TaskInv, CallsOf
  <2> QED BY <2>1, <2>2
<1>4. ASSUME NEW t \in Tasks, NEW i \in 1..MaxCalls PROVE CallInv(t, i)'
  <2>1. CASE t[1] = r
    <3>1. target[<<t, i>>] = None BY <1>4, <2>1, IdleInv
    <3> QED BY <1>4, <3>1 DEF IInv, CallInv
  <2>2. CASE t[1] # r
    <3>1. /\ stage'[t[1]] = stage[t[1]] /\ op'[t[1]] = op[t[1]]
          /\ user'[t[1]] = user[t[1]]
          BY <1>4, <2>2, Pairs DEF IInv, TypeOK
    <3> QED BY <1>4, <3>1 DEF IInv, CallInv
  <2> QED BY <2>1, <2>2
<1>5. ASSUME NEW q \in Requests PROVE RequestInv(q)'
  <2>1. RequestInv(q) BY <1>5 DEF IInv
  <2>2. CASE q = r BY <1>5, <2>1, <2>2 DEF IInv, TypeOK, RequestInv
  <2>3. CASE q # r
    <3>1. /\ stage'[q] = stage[q] /\ asked'[q] = asked[q] /\ asked[q] \subseteq EnvIds
          BY <1>5, <2>3 DEF IInv, TypeOK
    <3>2. \A e \in asked[q] : at'[<<q, e>>] = at[<<q, e>>]
          BY <1>5, <2>3, <3>1, Pairs
    <3> QED BY <2>1, <3>1, <3>2 DEF RequestInv
  <2> QED BY <2>2, <2>3
<1> QED BY <1>2, <1>3, <1>4, <1>5 DEF IInv

LEMMA ArriveInv == ASSUME NEW r \in Requests, IInv, Arrive(r) PROVE IInv'
<1>1. ASSUME NEW x \in Claims, NEW o \in Ops \ {"list"}, NEW id \in EnvIds, Refuse(r, o, x, id)
      PROVE  IInv'
      BY <1>1, RefuseInv
<1>2. ASSUME NEW x \in Claims, NEW o \in Ops \ {"list"}, NEW id \in EnvIds, Accept(r, o, x, id)
      PROVE  IInv'
  <2>1. at' = [at EXCEPT ![<<r, id>>] = "provider"] BY <1>2 DEF Accept
  <2>2. at' = [t \in Tasks |-> IF t[1] = r /\ t[2] \in {id} THEN "provider" ELSE at[t]]
    <3>1. at = [t \in Tasks |-> at[t]] BY DEF IInv, TypeOK
    <3>2. ASSUME NEW t \in Tasks
          PROVE  t = <<r, id>> <=> t[1] = r /\ t[2] \in {id}
          BY <3>2, Pairs
    <3> QED BY <2>1, <3>1, <3>2
  <2>3. /\ Asks(r, o, x) /\ Begins(r, {id})
        /\ UNCHANGED <<worldVars, answer, type, step, remoteVars, audit>>
        /\ \A j \in {id} : envs[j] # None /\ MayUse(x, envs[j])
        BY <1>2 DEF Accept
  <2>4. o \in Ops /\ {id} \in SUBSET EnvIds /\ "provider" \in {"online", "provider"}
        BY <1>2
  <2> QED BY <1>2, <2>2, <2>3, <2>4, BeginInv
<1>3. ASSUME NEW x \in Claims, NEW filter \in EnvIds \cup {All}, List(r, x, filter)
      PROVE  IInv'
  <2> DEFINE ids == {id \in EnvIds : /\ filter \in {All, id}
                                     /\ envs[id] # None /\ MayUse(x, envs[id])}
  <2>1. /\ Asks(r, "list", x) /\ Begins(r, ids)
        /\ at' = [t \in Tasks |-> IF t[1] = r /\ t[2] \in ids THEN "online" ELSE at[t]]
        /\ UNCHANGED <<worldVars, answer, type, step, remoteVars, audit>>
        BY <1>3 DEF List
  <2>2. ids \in SUBSET EnvIds /\ \A id \in ids : envs[id] # None /\ MayUse(x, envs[id])
        OBVIOUS
  <2>3. "list" \in Ops /\ "online" \in {"online", "provider"} BY DEF Ops
  <2> HIDE DEF ids
  <2> QED BY <2>1, <2>2, <2>3, BeginInv
<1> QED BY <1>1, <1>2, <1>3 DEF Arrive

-----------------------------------------------------------------------------
(* A task makes a step: what has to be shown of it.                        *)

Place == {"none", "online", "provider", "call", "wait", "ok", "error"}

LEMMA TaskStepInv ==
  ASSUME NEW t \in Tasks, NEW to \in Place, NEW ty \in Types \cup {None},
         NEW n \in 1..MaxCalls,
         IInv, at[t] \in {"online", "provider", "call", "wait"},
         at' = [at EXCEPT ![t] = to], type' = [type EXCEPT ![t] = ty],
         step' = [step EXCEPT ![t] = n],
         UNCHANGED <<worldVars, requestVars, answer, env, verdict>>,
         audit \subseteq audit', audit' \subseteq Requests,
         RC!CallTypeOK',
         target' \in [Calls -> Places \cup {None}],
         to \in {"call", "wait"} => type'[t] \in Types /\ step'[t] <= Len(CallsOf(t))',
         TaskInv(t)',
         \A u \in Tasks, i \in 1..MaxCalls : CallInv(u, i)'
  PROVE  IInv'
<1> USE DEF worldVars, requestVars
<1>1. ASSUME NEW u \in Tasks, u # t
      PROVE  at'[u] = at[u] /\ type'[u] = type[u] /\ step'[u] = step[u]
      BY <1>1 DEF IInv, TypeOK
<1>2. at'[t] = to /\ type'[t] = ty /\ step'[t] = n BY DEF IInv, TypeOK
<1>3. TypeOK'
  <2>1. /\ at' \in [Tasks -> Place] /\ type' \in [Tasks -> Types \cup {None}]
        /\ step' \in [Tasks -> 1..MaxCalls]
        BY DEF IInv, TypeOK, Place
  <2>2. ASSUME NEW u \in Tasks
        PROVE  /\ at'[u] # "none" => op'[u[1]] \in Ops /\ env'[u] \in Envs
               /\ at'[u] \in {"call", "wait"} => type'[u] \in Types /\ step'[u] <= Len(CallsOf(u))'
    <3>1. CASE u = t BY <1>2, <3>1 DEF IInv, TypeOK
    <3>2. CASE u # t BY <1>1, <2>2, <3>2 DEF IInv, TypeOK, CallsOf
    <3> QED BY <3>1, <3>2
  <2> QED BY <2>1, <2>2 DEF IInv, TypeOK, Place
<1>4. ASSUME NEW u \in Tasks, u # t PROVE TaskInv(u)'
      BY <1>1, <1>4 DEF IInv, TaskInv, CallsOf
<1>5. ASSUME NEW r \in Requests PROVE RequestInv(r)'
  <2>1. RequestInv(r) /\ asked[r] \subseteq EnvIds BY <1>5 DEF IInv, TypeOK
  <2>2. ASSUME NEW e \in asked[r], answer[r] = "ok" PROVE at'[<<r, e>>] = at[<<r, e>>]
    <3>1. <<r, e>> \in Tasks /\ <<r, e>> # t BY <1>5, <2>1, <2>2, Pairs DEF RequestInv
    <3> QED BY <3>1, <1>1
  <2> QED BY <2>1, <2>2 DEF RequestInv
<1> QED BY <1>3, <1>4, <1>5 DEF IInv

(* What is known of calls stays true while nothing is sent or executed.    *)
LEMMA CallsKept ==
  ASSUME IInv, UNCHANGED <<requestVars, verdict, target, executed>>, audit \subseteq audit'
  PROVE  \A u \in Tasks, i \in 1..MaxCalls : CallInv(u, i)'
BY DEF IInv, CallInv, requestVars

LEMMA ProviderInv ==
  ASSUME NEW t \in Tasks, IInv,
         Online(t) \/ Offline(t) \/ ProviderFor(t) \/ NoProvider(t)
  PROVE  IInv'
<1> USE DEF Place, remoteVars
<1>1. ASSUME NEW there \in BOOLEAN, NEW next \in {"provider", "error"}, Listing(t, there, next)
      PROVE  IInv'
  <2>1. /\ at[t] = "online" /\ at' = [at EXCEPT ![t] = next]
        /\ UNCHANGED <<worldVars, requestVars, answer, env, type, step, remoteVars, audit>>
        BY <1>1 DEF Listing
  <2>2. /\ type[t] \in Types \cup {None} /\ type' = [type EXCEPT ![t] = type[t]]
        /\ step[t] \in 1..MaxCalls /\ step' = [step EXCEPT ![t] = step[t]]
        /\ audit' \subseteq Requests /\ RC!CallTypeOK'
        /\ target' \in [Calls -> Places \cup {None}]
        BY <2>1 DEF IInv, TypeOK, RC!CallTypeOK
  <2>3. TaskInv(t)'
    <3>1. at'[t] = next BY <2>1 DEF IInv, TypeOK
    <3> QED BY <2>1, <3>1 DEF IInv, TaskInv, requestVars
  <2>4. \A u \in Tasks, i \in 1..MaxCalls : CallInv(u, i)' BY <2>1, CallsKept
  <2> QED BY <2>1, <2>2, <2>3, <2>4, TaskStepInv
<1>2. CASE NoProvider(t)
  <2>1. /\ at[t] = "provider" /\ at' = [at EXCEPT ![t] = "error"]
        /\ UNCHANGED <<worldVars, requestVars, answer, env, type, step, remoteVars, audit>>
        BY <1>2 DEF NoProvider
  <2>2. /\ type[t] \in Types \cup {None} /\ type' = [type EXCEPT ![t] = type[t]]
        /\ step[t] \in 1..MaxCalls /\ step' = [step EXCEPT ![t] = step[t]]
        /\ audit' \subseteq Requests /\ RC!CallTypeOK'
        /\ target' \in [Calls -> Places \cup {None}]
        BY <2>1 DEF IInv, TypeOK, RC!CallTypeOK
  <2>3. TaskInv(t)'
    <3>1. at'[t] = "error" BY <2>1 DEF IInv, TypeOK
    <3> QED BY <2>1, <3>1 DEF IInv, TaskInv, requestVars
  <2>4. \A u \in Tasks, i \in 1..MaxCalls : CallInv(u, i)' BY <2>1, CallsKept
  <2> QED BY <2>1, <2>2, <2>3, <2>4, TaskStepInv
<1>3. CASE ProviderFor(t)
  <2> DEFINE ty == clusters[env[t].cluster]
  <2>1. /\ at[t] = "provider" /\ at' = [at EXCEPT ![t] = "call"]
        /\ type' = [type EXCEPT ![t] = ty] /\ ty # None
        /\ audit' = IF op[t[1]] = "exec" THEN audit \cup {t[1]} ELSE audit
        /\ UNCHANGED <<worldVars, requestVars, answer, env, step, remoteVars>>
        BY <1>3 DEF ProviderFor
  <2>2. env[t] \in Envs /\ op[t[1]] \in Ops /\ t[1] \in Requests
        BY <2>1, Pairs DEF IInv, TypeOK
  <2>3. ty \in Types BY <2>1, <2>2, EnvsAssumption DEF IInv, TypeOK
  <2>4. /\ step[t] = 1 /\ step' = [step EXCEPT ![t] = step[t]] /\ 1 \in 1..MaxCalls
        /\ audit \subseteq audit' /\ audit' \subseteq Requests /\ RC!CallTypeOK'
        /\ target' \in [Calls -> Places \cup {None}]
    <3>1. step[t] = 1 BY <2>1 DEF IInv, TaskInv
    <3>2. step' = [step EXCEPT ![t] = step[t]] BY <2>1 DEF IInv, TypeOK
    <3>3. 1 \in 1..MaxCalls BY DEF MaxCalls
    <3>4. /\ audit \subseteq audit' /\ audit' \subseteq Requests /\ RC!CallTypeOK'
          /\ target' \in [Calls -> Places \cup {None}]
          BY <2>1, <2>2 DEF IInv, TypeOK, RC!CallTypeOK
    <3> QED BY <3>1, <3>2, <3>3, <3>4
  <2> HIDE DEF ty
  <2>5. at'[t] = "call" /\ type'[t] = ty /\ step'[t] = 1
        BY <2>1, <2>4 DEF IInv, TypeOK
  <2>6. step'[t] <= Len(CallsOf(t))'
    <3>1. CallsOf(t)' = Provider[ty][op[t[1]]] BY <2>1, <2>5 DEF CallsOf, requestVars
    <3>2. Len(Provider[ty][op[t[1]]]) \in 1..MaxCalls BY <2>2, <2>3, TablesSound DEF Sound
    <3>3. 1 <= Len(Provider[ty][op[t[1]]])
      <4>1. Len(Provider[ty][op[t[1]]]) \in 1..3 BY <3>2 DEF MaxCalls
      <4>2. \A m \in 1..3 : 1 <= m OBVIOUS
      <4> QED BY ONLY <4>1, <4>2
    <3>4. 1 <= Len(CallsOf(t))' BY <3>1, <3>3
    <3> QED BY <2>5, <3>4
  <2>7. TaskInv(t)'
    <3>1. op[t[1]] = "exec" => t[1] \in audit' BY <2>1
    <3> QED BY <2>1, <2>3, <2>5, <3>1 DEF IInv, TaskInv, requestVars
  <2>8. \A u \in Tasks, i \in 1..MaxCalls : CallInv(u, i)' BY <2>1, <2>4, CallsKept
  <2>9. ty \in Types \cup {None} /\ "call" \in Place BY <2>3
  <2> QED BY <2>1, <2>3, <2>4, <2>5, <2>6, <2>7, <2>8, <2>9, TaskStepInv
<1> QED BY <1>1, <1>2, <1>3 DEF Online, Offline

(* The number of the next call.                                            *)
LEMMA NextCall ==
  ASSUME NEW s \in 1..3, NEW m \in 1..3, s <= m, s # m
  PROVE  s + 1 \in 1..3 /\ s + 1 <= m /\ s + 1 # 1
OBVIOUS

LEMMA ContinueInv ==
  ASSUME NEW t \in Tasks, NEW outcome \in Outcomes,
         IInv, at[t] \in {"call", "wait"}, Continue(t, outcome),
         outcome \in Good => verdict[Current(t)] = "accepted",
         UNCHANGED <<worldVars, requestVars, answer, env, type, verdict, target, audit>>,
         RC!CallTypeOK',
         \A u \in Tasks, i \in 1..MaxCalls : CallInv(u, i)'
  PROVE  IInv'
<1> DEFINE calls == CallsOf(t)
           c == calls[step[t]]
           last == step[t] = Len(calls)
           to == IF outcome \in c.ends \/ (outcome \in c.goes /\ last) THEN "ok"
                 ELSE IF outcome \in c.goes THEN "call" ELSE "error"
           n == IF outcome \in c.goes /\ ~last THEN step[t] + 1 ELSE step[t]
<1>1. /\ TaskInv(t) /\ op[t[1]] \in Ops /\ type[t] \in Types
      /\ step[t] \in 1..3 /\ step[t] <= Len(calls)
      BY DEF IInv, TypeOK, MaxCalls
<1>2. Sound(calls, op[t[1]]) BY <1>1, TablesSound DEF CallsOf
<1>3. Len(calls) \in 1..3 BY <1>2 DEF Sound, MaxCalls
<1>4. step[t] \in 1..Len(calls) BY ONLY <1>1, <1>3
<1>5. calls[step[t]].goes \cap calls[step[t]].ends = {}
      BY <1>2, <1>4 DEF Sound
<1>6. calls' = calls BY DEF CallsOf, requestVars
<1>7. at' = [at EXCEPT ![t] = to] /\ step' = [step EXCEPT ![t] = n]
      BY DEF Continue
<1>8. at'[t] = to /\ step'[t] = n /\ type'[t] = type[t] /\ op' = op /\ stage' = stage
      BY <1>7 DEF IInv, TypeOK, requestVars
<1>9. n \in 1..3 /\ (to = "call" => n <= Len(calls)) /\ (to = "call" => n # 1)
  <2>1. CASE outcome \in c.goes /\ ~last BY <1>1, <1>3, <2>1, NextCall
  <2>2. CASE ~(outcome \in c.goes /\ ~last) BY <1>1, <2>2
  <2> QED BY <2>1, <2>2
<1>10. step[t] = 1 /\ op[t[1]] = "list" /\ outcome \in c.goes \cup c.ends =>
         verdict[<<t, 1>>] = "accepted"
       BY <1>2 DEF Sound, Passes, Good, Current
<1>11. op[t[1]] = "list" /\ to \in {"call", "ok"} => verdict[<<t, 1>>] = "accepted"
       BY <1>1, <1>10 DEF TaskInv
<1>12. ASSUME op[t[1]] \in {"inspect", "logs"} \cup Changes, to = "ok"
       PROVE  /\ n = step[t] /\ verdict[<<t, step[t]>>] = "accepted"
              /\ op[t[1]] \in Changes => step[t] = Len(calls)
  <2>1. CASE outcome \in c.ends
    <3>1. outcome \in Good BY <1>2, <1>4, <1>12, <2>1 DEF Sound
    <3>2. op[t[1]] \notin Changes BY <1>2, <1>4, <2>1 DEF Sound
    <3>3. n = step[t] BY <1>5, <2>1
    <3> QED BY <3>1, <3>2, <3>3 DEF Current
  <2>2. CASE outcome \notin c.ends
    <3>1. outcome \in c.goes /\ last BY <1>12, <2>2
    <3>2. outcome \in Good BY <1>2, <1>12, <3>1 DEF Sound, Passes
    <3> QED BY <3>1, <3>2 DEF Current
  <2> QED BY <2>1, <2>2
<1>13. to \in {"ok", "call", "error"} OBVIOUS
<1>14. TaskInv(t)'
  <2>1. /\ at'[t] # "none" => /\ stage'[t[1]] # "idle"
                             /\ env'[t].id = t[2]
                             /\ CanAccessEnvironment(user'[t[1]], env'[t].name)
        /\ ~(stage'[t[1]] = "idle" \/ at'[t] \in {"online", "provider"})
        /\ at'[t] \in {"call", "wait", "ok"} => type'[t] \in Types
        /\ at'[t] \in {"call", "wait"} /\ op'[t[1]] = "exec" => t[1] \in audit'
        BY <1>1, <1>8, <1>13 DEF TaskInv, requestVars
  <2>2. op'[t[1]] = "list" /\ at'[t] \in {"call", "wait", "ok"} =>
          verdict'[<<t, 1>>] = "accepted"
        BY <1>8, <1>11, <1>13
  <2>3. op'[t[1]] \in {"inspect", "logs"} \cup Changes /\ at'[t] = "ok" =>
          /\ step'[t] \in 1..Len(calls)'
          /\ verdict'[<<t, step'[t]>>] = "accepted"
          /\ op'[t[1]] \in Changes => step'[t] = Len(calls)'
        BY <1>4, <1>6, <1>8, <1>12
  <2> QED BY <2>1, <2>2, <2>3 DEF TaskInv
<1>15. to \in Place /\ n \in 1..MaxCalls /\ type[t] \in Types \cup {None}
       BY <1>1, <1>9, <1>13 DEF Place, MaxCalls
<1>16. /\ type' = [type EXCEPT ![t] = type[t]]
       /\ audit \subseteq audit' /\ audit' \subseteq Requests
       /\ target' \in [Calls -> Places \cup {None}]
       BY DEF IInv, TypeOK
<1>17. to \in {"call", "wait"} => type'[t] \in Types /\ step'[t] <= Len(calls)'
       BY <1>1, <1>6, <1>8, <1>9, <1>13
<1> HIDE DEF to, n
<1> QED BY <1>7, <1>14, <1>15, <1>16, <1>17, TaskStepInv

(* Open, Fail and Answer keep the types of the tunnel's variables, and     *)
(* change nothing that has been executed.                                  *)
LEMMA TunnelTypes ==
  ASSUME NEW c \in Calls, IInv, RC!Open(c) \/ RC!Fail(c) \/ RC!Answer(c)
  PROVE  RC!CallTypeOK' /\ executed' = executed
BY DEF IInv, TypeOK, RC!CallTypeOK, RC!Open, RC!Fail, RC!Answer

LEMMA CurrentCall ==
  ASSUME NEW t \in Tasks, IInv
  PROVE  Current(t) \in Calls /\ step[t] \in 1..MaxCalls
BY Pairs DEF IInv, TypeOK, Current

LEMMA SendInv == ASSUME NEW t \in Tasks, IInv, Send(t) PROVE IInv'
<1> USE DEF Place
<1> DEFINE place == [cluster |-> env[t].cluster, type |-> type[t], ns |-> NamespaceOf(t)]
<1>1. /\ at[t] = "call" /\ at' = [at EXCEPT ![t] = "wait"]
      /\ target' = [target EXCEPT ![Current(t)] = place]
      /\ RC!Open(Current(t))
      /\ UNCHANGED <<worldVars, requestVars, answer, env, type, step, verdict, audit>>
      BY DEF Send
<1>2. Current(t) \in Calls /\ step[t] \in 1..MaxCalls BY CurrentCall
<1>3. RC!CallTypeOK' /\ executed' = executed BY <1>1, <1>2, TunnelTypes
<1>4. /\ env[t] \in Envs /\ type[t] \in Types /\ step[t] <= Len(CallsOf(t))
      /\ TaskInv(t)
      BY <1>1 DEF IInv, TypeOK
<1>5. /\ NamespaceOf(t) \in {env[t].ns, Default, None}
      /\ Concerns(place, op[t[1]], env[t])
      BY <1>4, EnvsAssumption
      DEF NamespaceOf, KubeNs, NomadNs, Concerns, Types
<1>6. target' \in [Calls -> Places \cup {None}]
  <2>1. place \in Places BY <1>4, <1>5, EnvsAssumption DEF Places
  <2> HIDE DEF place
  <2> QED BY <1>1, <2>1 DEF IInv, TypeOK
<1>7. Granted(user[t[1]], op[t[1]], t[2], place) BY <1>1, <1>4, <1>5 DEF Granted, TaskInv
<1>8. ASSUME NEW u \in Tasks, NEW i \in 1..MaxCalls PROVE CallInv(u, i)'
  <2>1. CallInv(u, i) /\ <<u, i>> \in Calls BY <1>8, Pairs DEF IInv
  <2>2. CASE <<u, i>> = Current(t)
    <3>1. u = t BY <2>2 DEF Current
    <3>2. target'[<<u, i>>] = place BY <1>1, <1>2, <2>2 DEF IInv, TypeOK
    <3>3. place # None BY <1>4, <1>5, EnvsAssumption, NoneAssumption DEF Places
    <3>4. stage[t[1]] # "idle" /\ (op[t[1]] = "exec" => t[1] \in audit)
          BY <1>1, <1>4 DEF TaskInv
    <3> QED BY <1>1, <1>3, <1>7, <2>1, <3>1, <3>2, <3>3, <3>4 DEF CallInv, requestVars
  <2>3. CASE <<u, i>> # Current(t)
    <3>1. target'[<<u, i>>] = target[<<u, i>>]
          BY <1>1, <2>1, <2>3 DEF IInv, TypeOK
    <3> QED BY <1>1, <1>3, <2>1, <3>1 DEF CallInv, requestVars
  <2> QED BY <2>2, <2>3
<1> HIDE DEF place
<1>9. at'[t] = "wait" BY <1>1 DEF IInv, TypeOK
<1>10. TaskInv(t)' BY <1>1, <1>4, <1>9 DEF TaskInv, requestVars, CallsOf
<1>11. type'[t] \in Types /\ step'[t] <= Len(CallsOf(t))'
       BY <1>1, <1>4 DEF CallsOf, requestVars
<1>12. /\ type' = [type EXCEPT ![t] = type[t]] /\ step' = [step EXCEPT ![t] = step[t]]
       /\ audit \subseteq audit' /\ audit' \subseteq Requests
       BY <1>1 DEF IInv, TypeOK
<1>13. type[t] \in Types \cup {None} /\ "wait" \in Place BY <1>4
<1>14. at[t] \in {"online", "provider", "call", "wait"} BY <1>1
<1>15. UNCHANGED <<worldVars, requestVars, answer, env, verdict>> BY <1>1
<1> QED BY <1>1, <1>2, <1>3, <1>6, <1>8, <1>10, <1>11, <1>12, <1>13, <1>14, <1>15, TaskStepInv

LEMMA OutcomeInv ==
  ASSUME NEW t \in Tasks, IInv, SendFails(t) \/ Receive(t) \/ ReceiveFails(t)
  PROVE  IInv'
<1>1. Current(t) \in Calls BY CurrentCall
<1>2. /\ at[t] \in {"call", "wait"}
      /\ RC!Fail(Current(t)) \/ RC!Answer(Current(t))
      /\ UNCHANGED <<worldVars, requestVars, answer, env, type, verdict, target, audit>>
      BY DEF SendFails, Receive, ReceiveFails
<1>3. RC!CallTypeOK' /\ executed' = executed BY <1>1, <1>2, TunnelTypes
<1>4. \A u \in Tasks, i \in 1..MaxCalls : CallInv(u, i)' BY <1>2, <1>3, CallsKept
<1>5. PICK outcome \in Outcomes :
        /\ Continue(t, outcome)
        /\ outcome \in Good => verdict[Current(t)] = "accepted"
      BY DEF SendFails, Receive, ReceiveFails, Outcomes, Good
<1> QED BY <1>2, <1>3, <1>4, <1>5, ContinueInv

LEMMA ReplyInv == ASSUME NEW r \in Requests, IInv, Reply(r) PROVE IInv'
<1>1. /\ stage[r] = "busy" /\ stage' = [stage EXCEPT ![r] = "answered"]
      /\ \A e \in asked[r] : at[<<r, e>>] \in {"ok", "error"}
      /\ UNCHANGED <<worldVars, op, user, asked, at, env, type, step, remoteVars, audit>>
      BY DEF Reply, Answers
<1>2. PICK what \in {"ok", "failed"} : answer' = [answer EXCEPT ![r] = what]
      BY DEF Reply, Answers
<1> USE <1>1, <1>2 DEF worldVars, remoteVars
<1>3. TypeOK' BY DEF IInv, TypeOK, RC!CallTypeOK, CallsOf
<1>4. \A q \in Requests : stage'[q] = "idle" <=> stage[q] = "idle" BY DEF IInv, TypeOK
<1>5. ASSUME NEW t \in Tasks PROVE TaskInv(t)'
      BY <1>4, <1>5, Pairs DEF IInv, TaskInv, CallsOf
<1>6. ASSUME NEW t \in Tasks, NEW i \in 1..MaxCalls PROVE CallInv(t, i)'
      BY <1>4, <1>6, Pairs DEF IInv, CallInv
<1>7. ASSUME NEW q \in Requests PROVE RequestInv(q)'
      BY <1>7 DEF IInv, TypeOK, RequestInv
<1> QED BY <1>3, <1>5, <1>6, <1>7 DEF IInv

-----------------------------------------------------------------------------
LEMMA StepInv == IInv /\ [Next]_vars => IInv'
<1> SUFFICES ASSUME IInv, [Next]_vars PROVE IInv' OBVIOUS
<1>1. CASE World BY <1>1, AroundInv
<1>2. ASSUME NEW r \in Requests, Arrive(r) \/ Reply(r) PROVE IInv'
      BY <1>2, ArriveInv, ReplyInv
<1>3. ASSUME NEW t \in Tasks, Work(t) PROVE IInv'
      BY <1>3, ProviderInv, SendInv, OutcomeInv DEF Work
<1>4. CASE UNCHANGED vars BY <1>4, StutterInv
<1> QED BY <1>1, <1>2, <1>3, <1>4 DEF Next

(* The invariant above is inductive.                                       *)
THEOREM Inductive == Spec => []IInv
<1>1. Init => IInv BY InitInv
<1>2. IInv /\ [Next]_vars => IInv' BY StepInv
<1> QED BY <1>1, <1>2, PTL DEF Spec

(* Every variable keeps its type, and a provider never makes a call beyond *)
(* its last (docker.go, kube.go, nomad.go).                                *)
THEOREM TypeCorrect == Spec => []TypeOK
<1>1. IInv => TypeOK BY DEF IInv
<1> QED BY <1>1, Inductive, PTL

(* Every call goes to the cluster of an environment by the id asked for    *)
(* that its user may use, and names that environment's namespace the way   *)
(* the orchestrator takes it: for any groups, patterns and access rule,    *)
(* whoever replaces environments and whatever type a cluster comes back    *)
(* with meanwhile (handlers.go:448-460, kube.go:30-35, nomad.go:31-37).    *)
THEOREM StaysInGrant == Spec => []CallsStayInGrant
<1>1. IInv => CallsStayInGrant
  <2> SUFFICES ASSUME IInv, NEW c \in Calls, target[c] # None
               PROVE  Granted(user[c[1][1]], op[c[1][1]], c[1][2], target[c])
      BY DEF CallsStayInGrant, Granted
  <2>1. c[1] \in Tasks /\ c[2] \in 1..MaxCalls /\ c = <<c[1], c[2]>> BY Pairs
  <2>2. CallInv(c[1], c[2]) BY <2>1 DEF IInv
  <2> QED BY <2>1, <2>2 DEF CallInv
<1> QED BY <1>1, Inductive, PTL

(* No command runs before its entry was given to the audit log, not even   *)
(* one that runs late (handlers.go:567-573).                               *)
THEOREM AuditFirst == Spec => []AuditedBeforeRun
<1>1. IInv => AuditedBeforeRun
  <2> SUFFICES ASSUME IInv, NEW c \in Calls, executed[c] = 1, op[c[1][1]] = "exec"
               PROVE  c[1][1] \in audit
      BY DEF AuditedBeforeRun
  <2>1. c[1] \in Tasks /\ c[2] \in 1..MaxCalls /\ c = <<c[1], c[2]>> BY Pairs
  <2>2. CallInv(c[1], c[2]) BY <2>1 DEF IInv
  <2> QED BY <2>1, <2>2 DEF CallInv
<1> QED BY <1>1, Inductive, PTL

(* A request other than exec succeeds only on the orchestrator's word: one *)
(* that changes a container, on its word about that change                 *)
(* (nomad.go:199-220, docker.go:226-240).                                  *)
THEOREM OkAccepted == Spec => []OkMeansAccepted
<1>1. IInv => OkMeansAccepted
  <2> SUFFICES ASSUME IInv, NEW t \in Tasks, at[t] = "ok", op[t[1]] # "exec"
               PROVE  \E i \in 1..Len(CallsOf(t)) :
                        /\ verdict[<<t, i>>] = "accepted"
                        /\ op[t[1]] \in Changes => CallsOf(t)[i].effect \in Changes
      BY DEF OkMeansAccepted
  <2>1. TaskInv(t) /\ op[t[1]] \in Ops BY DEF IInv, TypeOK
  <2>2. Sound(CallsOf(t), op[t[1]]) BY <2>1, TablesSound DEF CallsOf, TaskInv
  <2>3. CASE op[t[1]] = "list"
    <3>1. Len(CallsOf(t)) \in 1..3 BY <2>2 DEF Sound, MaxCalls
    <3>2. 1 \in 1..Len(CallsOf(t)) BY ONLY <3>1
    <3>3. verdict[<<t, 1>>] = "accepted" BY <2>1, <2>3 DEF TaskInv
    <3> QED BY <2>3, <3>2, <3>3 DEF Changes
  <2>4. CASE op[t[1]] # "list"
    <3>1. op[t[1]] \in {"inspect", "logs"} \cup Changes BY <2>1, <2>4 DEF Ops, Changes
    <3>2. /\ step[t] \in 1..Len(CallsOf(t)) /\ verdict[<<t, step[t]>>] = "accepted"
          /\ op[t[1]] \in Changes => step[t] = Len(CallsOf(t))
          BY <2>1, <3>1 DEF TaskInv
    <3> QED BY <2>2, <3>2 DEF Sound
  <2> QED BY <2>3, <2>4
<1> QED BY <1>1, Inductive, PTL

(* A listing's answer accounts for every environment it is about, and only *)
(* gives containers that an orchestrator listed (handlers.go:414-423).     *)
THEOREM Complete == Spec => []ListingComplete
<1>1. IInv => ListingComplete
  <2> SUFFICES ASSUME IInv, NEW r \in Requests, op[r] = "list", answer[r] = "ok",
                      NEW e \in asked[r]
               PROVE  \/ at[<<r, e>>] = "error"
                      \/ at[<<r, e>>] = "ok" /\ executed[<<<<r, e>>, 1>>] = 1
      BY DEF ListingComplete
  <2>1. <<r, e>> \in Tasks /\ <<r, e>>[1] = r BY Pairs DEF IInv, TypeOK
  <2>2. at[<<r, e>>] \in {"ok", "error"} BY DEF IInv, RequestInv
  <2>3. CASE at[<<r, e>>] = "ok"
    <3>1. verdict[<<<<r, e>>, 1>>] = "accepted" BY <2>1, <2>3 DEF IInv, TaskInv
    <3>2. 1 \in 1..MaxCalls BY DEF MaxCalls
    <3> QED BY <2>1, <2>3, <3>1, <3>2 DEF IInv, CallInv
  <2> QED BY <2>2, <2>3
<1> QED BY <1>1, Inductive, PTL

-----------------------------------------------------------------------------
(* OkIsFinal: what a request that has succeeded has left behind.  A call   *)
(* is settled when it was never made, or has answered, which it does only  *)
(* once it has been executed, or is one that reads.                        *)

Settled(t, i) == call[<<t, i>>] \in {"idle", "ok"} \/ CallsOf(t)[i].effect = "read"

FinalInv(t) ==
  /\ stage[t[1]] = "idle" => \A i \in 1..MaxCalls : call[<<t, i>>] = "idle"
  /\ \A i \in 1..MaxCalls :
       /\ at[t] \in {"online", "provider", "call"} /\ i >= step[t] => call[<<t, i>>] = "idle"
       /\ at[t] = "wait" /\ i > step[t] => call[<<t, i>>] = "idle"
       /\ at[t] \in {"call", "wait"} /\ i < step[t] => Settled(t, i)
       /\ at[t] = "ok" => Settled(t, i)

Answered == \A c \in Calls : call[c] = "ok" => executed[c] = 1

(* A task that stays where it is, or is given up, while none of its calls  *)
(* becomes worse.                                                          *)
LEMMA FinalKept ==
  ASSUME NEW t \in Tasks, FinalInv(t),
         at'[t] \in {at[t], "none", "error"},
         at'[t] # "none" => op'[t[1]] = op[t[1]],
         step'[t] = step[t], type'[t] = type[t],
         stage'[t[1]] = "idle" => stage[t[1]] = "idle",
         \A i \in 1..MaxCalls : call'[<<t, i>>] = call[<<t, i>>]
                                \/ (call[<<t, i>>] = "open" /\ call'[<<t, i>>] = "failed")
  PROVE  FinalInv(t)'
<1>1. \A i \in 1..MaxCalls : call[<<t, i>>] = "idle" => call'[<<t, i>>] = "idle"
      OBVIOUS
<1>2. ASSUME at'[t] \in {"call", "wait", "ok"}
      PROVE  at'[t] = at[t] /\ CallsOf(t)' = CallsOf(t)
      BY <1>2 DEF CallsOf
<1>3. ASSUME at'[t] \in {"call", "wait", "ok"}, NEW i \in 1..MaxCalls, Settled(t, i)
      PROVE  Settled(t, i)'
      BY <1>2, <1>3 DEF Settled
<1> QED BY <1>1, <1>2, <1>3 DEF FinalInv

LEMMA InitFinal == Init => Answered /\ \A t \in Tasks : FinalInv(t)
<1> SUFFICES ASSUME Init PROVE Answered /\ \A t \in Tasks : FinalInv(t)
    OBVIOUS
<1>1. \A c \in Calls : call[c] = "idle" BY DEF Init, RC!CallInit
<1>2. ASSUME NEW t \in Tasks PROVE at[t] = "none" BY <1>2 DEF Init
<1> QED BY <1>1, <1>2, Pairs DEF Answered, FinalInv

(* A step that leaves the tunnel's variables as they are.                  *)
LEMMA QuietStep ==
  ASSUME NEW t \in Tasks, FinalInv(t), UNCHANGED <<call, step, type, op>>,
         at'[t] \in {at[t], "none", "error"},
         stage'[t[1]] = "idle" => stage[t[1]] = "idle"
  PROVE  FinalInv(t)'
BY FinalKept

(* A request that arrives has no calls yet, and its tasks begin.           *)
LEMMA ArrivedFinal ==
  ASSUME IInv, NEW t \in Tasks, FinalInv(t), NEW r \in Requests, stage[r] = "idle",
         \A u \in Tasks : at'[u] = at[u] \/ (u[1] = r /\ at'[u] \in {"online", "provider"}),
         \A q \in Requests \ {r} : op'[q] = op[q] /\ stage'[q] = stage[q],
         stage'[r] # "idle", UNCHANGED <<call, step, type>>
  PROVE  FinalInv(t)'
<1>1. CASE t[1] = r
  <2>1. at[t] = "none" /\ \A i \in 1..MaxCalls : call[<<t, i>>] = "idle"
        BY <1>1, IdleInv DEF FinalInv
  <2>2. at'[t] \in {"none", "online", "provider"} BY <2>1
  <2> QED BY <1>1, <2>1, <2>2 DEF FinalInv
<1>2. CASE t[1] # r
  <2>1. t[1] \in Requests \ {r} BY <1>2, Pairs
  <2>2. at'[t] = at[t] /\ op'[t[1]] = op[t[1]] /\ stage'[t[1]] = stage[t[1]]
        BY <1>2, <2>1
  <2> QED BY <2>2, FinalKept
<1> QED BY <1>1, <1>2

LEMMA ArriveFinal ==
  ASSUME IInv, NEW t \in Tasks, FinalInv(t), NEW r \in Requests, Arrive(r)
  PROVE  FinalInv(t)'
<1>1. /\ op \in [Requests -> Ops \cup {None}]
      /\ stage \in [Requests -> {"idle", "busy", "answered"}]
      /\ at \in [Tasks -> {"none", "online", "provider", "call", "wait", "ok", "error"}]
      BY DEF IInv, TypeOK
<1>2. ASSUME NEW x \in Claims, NEW o \in Ops \ {"list"}, NEW id \in EnvIds, Refuse(r, o, x, id)
      PROVE  FinalInv(t)'
  <2>1. /\ stage[r] = "idle" /\ op' = [op EXCEPT ![r] = o]
        /\ stage' = [stage EXCEPT ![r] = "answered"]
        /\ UNCHANGED <<at, call, step, type>>
        BY <1>2 DEF Refuse, Asks, Answers, remoteVars
  <2> QED BY <1>1, <2>1, ArrivedFinal
<1>3. ASSUME NEW x \in Claims, NEW o \in Ops \ {"list"}, NEW id \in EnvIds, Accept(r, o, x, id)
      PROVE  FinalInv(t)'
  <2>1. /\ stage[r] = "idle" /\ op' = [op EXCEPT ![r] = o]
        /\ at' = [at EXCEPT ![<<r, id>>] = "provider"]
        /\ stage' = [stage EXCEPT ![r] = "busy"]
        /\ UNCHANGED <<call, step, type>>
        BY <1>3 DEF Accept, Asks, Begins, remoteVars
  <2>2. \A u \in Tasks : at'[u] = at[u] \/ (u[1] = r /\ at'[u] \in {"online", "provider"})
        BY <1>1, <2>1
  <2> QED BY <1>1, <2>1, <2>2, ArrivedFinal
<1>4. ASSUME NEW x \in Claims, NEW filter \in EnvIds \cup {All}, List(r, x, filter)
      PROVE  FinalInv(t)'
  <2>1. /\ stage[r] = "idle" /\ op' = [op EXCEPT ![r] = "list"]
        /\ stage' = [stage EXCEPT ![r] = "busy"]
        /\ UNCHANGED <<call, step, type>>
        BY <1>4 DEF List, Asks, Begins, remoteVars
  <2>2. \A u \in Tasks : at'[u] = at[u] \/ (u[1] = r /\ at'[u] \in {"online", "provider"})
        BY <1>4 DEF List
  <2> QED BY <1>1, <2>1, <2>2, ArrivedFinal
<1> QED BY <1>2, <1>3, <1>4 DEF Arrive

(* The call a task is at: its outcome lets the task go on, succeed or      *)
(* fail.                                                                   *)
LEMMA OutcomeFinal ==
  ASSUME IInv, NEW t \in Tasks, FinalInv(t), at[t] \in {"call", "wait"},
         NEW outcome \in Outcomes, Continue(t, outcome),
         UNCHANGED <<requestVars, type>>,
         \/ call' = [call EXCEPT ![Current(t)] = "failed"] /\ outcome = "failed"
         \/ call' = [call EXCEPT ![Current(t)] = "ok"]
  PROVE  FinalInv(t)'
<1> DEFINE calls == CallsOf(t)
           c == calls[step[t]]
           last == step[t] = Len(calls)
           to == IF outcome \in c.ends \/ (outcome \in c.goes /\ last) THEN "ok"
                 ELSE IF outcome \in c.goes THEN "call" ELSE "error"
           n == IF outcome \in c.goes /\ ~last THEN step[t] + 1 ELSE step[t]
<1>1. /\ op[t[1]] \in Ops /\ type[t] \in Types /\ stage[t[1]] # "idle"
      /\ step[t] \in 1..3 /\ step[t] <= Len(calls)
      BY DEF IInv, TypeOK, TaskInv, MaxCalls
<1>2. Sound(calls, op[t[1]]) BY <1>1, TablesSound DEF CallsOf
<1>3. Len(calls) \in 1..3 BY <1>2 DEF Sound, MaxCalls
<1>4. step[t] \in 1..Len(calls) BY ONLY <1>1, <1>3
<1>5. calls' = calls BY DEF CallsOf, requestVars
<1>6. at'[t] = to /\ step'[t] = n /\ stage'[t[1]] # "idle"
      BY <1>1 DEF Continue, IInv, TypeOK, requestVars
<1>7. to \in {"ok", "call"} => outcome \in Passes(c) BY DEF Passes
<1>8. outcome = "failed" /\ to \in {"ok", "call"} => c.effect = "read"
      BY <1>2, <1>4, <1>7 DEF Sound
<1>9. /\ \A i \in 1..MaxCalls : i # step[t] => call'[<<t, i>>] = call[<<t, i>>]
      /\ call'[<<t, step[t]>>] = "ok" \/ (outcome = "failed" /\ call'[<<t, step[t]>>] = "failed")
  <2>1. call \in [Calls -> {"idle", "open", "ok", "failed"}] BY DEF IInv, TypeOK, RC!CallTypeOK
  <2>2. Current(t) \in Calls /\ Current(t) = <<t, step[t]>> BY CurrentCall DEF Current
  <2>3. \A i \in 1..MaxCalls : <<t, i>> \in Calls /\ (i # step[t] => <<t, i>> # Current(t))
        BY <2>2, Pairs
  <2> QED BY <2>1, <2>2, <2>3
<1>10. ASSUME NEW i \in 1..MaxCalls
       PROVE  /\ i > step[t] => call'[<<t, i>>] = "idle"
              /\ i < step[t] => Settled(t, i)'
              /\ i = step[t] /\ to \in {"ok", "call"} => Settled(t, i)'
  <2>1. i \in 1..3 BY <1>10 DEF MaxCalls
  <2>2. ASSUME i > step[t] PROVE call'[<<t, i>>] = "idle"
    <3>1. i >= step[t] /\ i # step[t] BY ONLY <1>1, <2>1, <2>2
    <3> QED BY <1>9, <2>2, <3>1 DEF FinalInv
  <2>3. ASSUME i < step[t] PROVE Settled(t, i)'
    <3>1. i # step[t] BY ONLY <1>1, <2>1, <2>3
    <3>2. Settled(t, i) BY <2>3 DEF FinalInv
    <3> QED BY <1>5, <1>9, <3>1, <3>2 DEF Settled
  <2>4. ASSUME i = step[t], to \in {"ok", "call"} PROVE Settled(t, i)'
        BY <1>5, <1>8, <1>9, <2>4 DEF Settled
  <2> QED BY <2>2, <2>3, <2>4
<1>11. to \in {"ok", "call", "error"} OBVIOUS
<1>12. to = "call" => n = step[t] + 1 OBVIOUS
<1> HIDE DEF to, n, c, last, calls
<1>13. CASE to = "ok"
  <2>1. ASSUME NEW i \in 1..MaxCalls PROVE Settled(t, i)'
    <3>1. i > step[t] \/ i < step[t] \/ i = step[t]
      <4>1. i \in 1..3 BY DEF MaxCalls
      <4> QED BY ONLY <1>1, <4>1
    <3> QED BY <1>10, <1>13, <3>1 DEF Settled
  <2> QED BY <1>6, <1>13, <2>1 DEF FinalInv
<1>14. CASE to = "call"
  <2>1. ASSUME NEW i \in 1..MaxCalls
        PROVE  /\ i >= step[t] + 1 => call'[<<t, i>>] = "idle"
               /\ i < step[t] + 1 => Settled(t, i)'
    <3>1. /\ i >= step[t] + 1 => i > step[t]
          /\ i < step[t] + 1 => i < step[t] \/ i = step[t]
      <4>1. i \in 1..3 BY DEF MaxCalls
      <4> QED BY ONLY <1>1, <4>1
    <3> QED BY <1>10, <1>14, <3>1
  <2> QED BY <1>6, <1>12, <1>14, <2>1 DEF FinalInv
<1>15. CASE to = "error" BY <1>6, <1>15 DEF FinalInv
<1> QED BY <1>11, <1>13, <1>14, <1>15

LEMMA SendFinal ==
  ASSUME IInv, NEW t \in Tasks, FinalInv(t), Send(t)
  PROVE  FinalInv(t)'
<1>1. /\ at[t] = "call" /\ at'[t] = "wait" /\ stage'[t[1]] # "idle"
      /\ call' = [call EXCEPT ![Current(t)] = "open"]
      /\ UNCHANGED <<requestVars, type, step>>
      BY DEF Send, RC!Open, IInv, TypeOK, TaskInv, requestVars
<1>2. \A i \in 1..MaxCalls : i # step[t] => call'[<<t, i>>] = call[<<t, i>>]
  <2>1. call \in [Calls -> {"idle", "open", "ok", "failed"}] BY DEF IInv, TypeOK, RC!CallTypeOK
  <2>2. \A i \in 1..MaxCalls : <<t, i>> \in Calls /\ (i # step[t] => <<t, i>> # Current(t))
        BY Pairs DEF Current
  <2> QED BY <1>1, <2>1, <2>2
<1>3. CallsOf(t)' = CallsOf(t) BY <1>1 DEF CallsOf, requestVars
<1>4. ASSUME NEW i \in 1..MaxCalls
      PROVE  /\ i > step[t] => call'[<<t, i>>] = "idle"
             /\ i < step[t] => Settled(t, i)'
  <2>1. /\ i > step[t] => i >= step[t] /\ i # step[t]
        /\ i < step[t] => i # step[t]
    <3>1. i \in 1..3 /\ step[t] \in 1..3 BY DEF IInv, TypeOK, MaxCalls
    <3> QED BY ONLY <3>1
  <2> QED BY <1>1, <1>2, <1>3, <2>1 DEF FinalInv, Settled
<1> QED BY <1>1, <1>4 DEF FinalInv

LEMMA WorkFinal ==
  ASSUME IInv, NEW t \in Tasks, FinalInv(t), NEW u \in Tasks, Work(u)
  PROVE  FinalInv(t)'
<1>1. CASE u # t
  <2>1. /\ at'[t] = at[t] /\ type'[t] = type[t] /\ step'[t] = step[t]
        /\ UNCHANGED requestVars
        /\ UNCHANGED call \/ \E v : call' = [call EXCEPT ![Current(u)] = v]
        BY <1>1 DEF Work, Online, Offline, Listing, ProviderFor, NoProvider, Send, SendFails,
           Receive, ReceiveFails, Continue, RC!Open, RC!Fail, RC!Answer, IInv, TypeOK, remoteVars
  <2>2. \A i \in 1..MaxCalls : call'[<<t, i>>] = call[<<t, i>>]
    <3>1. call \in [Calls -> {"idle", "open", "ok", "failed"}] BY DEF IInv, TypeOK, RC!CallTypeOK
    <3>2. \A i \in 1..MaxCalls : <<t, i>> \in Calls /\ <<t, i>> # Current(u)
          BY <1>1, Pairs DEF Current
    <3> QED BY <2>1, <3>1, <3>2
  <2> QED BY <2>1, <2>2, FinalKept DEF requestVars
<1>2. CASE u = t /\ (Online(t) \/ Offline(t) \/ NoProvider(t))
  <2>1. /\ at[t] \in {"online", "provider"} /\ at'[t] \in {"provider", "error"}
        /\ UNCHANGED <<requestVars, type, step, call>>
        BY <1>2 DEF Online, Offline, Listing, NoProvider, IInv, TypeOK, remoteVars
  <2> QED BY <2>1 DEF FinalInv, requestVars
<1>3. CASE u = t /\ ProviderFor(t)
  <2>1. /\ at[t] = "provider" /\ at'[t] = "call" /\ UNCHANGED <<requestVars, step, call>>
        BY <1>3 DEF ProviderFor, IInv, TypeOK, remoteVars
  <2>2. step[t] = 1 BY <2>1 DEF IInv, TaskInv
  <2>3. \A i \in 1..MaxCalls : ~(i < 1) BY DEF MaxCalls
  <2> QED BY <2>1, <2>2, <2>3 DEF FinalInv, requestVars
<1>4. CASE u = t /\ Send(t) BY <1>4, SendFinal
<1>5. CASE u = t /\ (SendFails(t) \/ ReceiveFails(t))
  <2>1. /\ at[t] \in {"call", "wait"} /\ Continue(t, "failed") /\ "failed" \in Outcomes
        /\ call' = [call EXCEPT ![Current(t)] = "failed"] /\ UNCHANGED <<requestVars, type>>
        BY <1>5 DEF SendFails, ReceiveFails, RC!Fail, Outcomes
  <2> QED BY <2>1, OutcomeFinal
<1>6. CASE u = t /\ Receive(t)
  <2>1. /\ at[t] \in {"call", "wait"} /\ \E outcome \in Outcomes : Continue(t, outcome)
        /\ call' = [call EXCEPT ![Current(t)] = "ok"] /\ UNCHANGED <<requestVars, type>>
        BY <1>6 DEF Receive, RC!Answer, Outcomes
  <2> QED BY <2>1, OutcomeFinal
<1> QED BY <1>1, <1>2, <1>3, <1>4, <1>5, <1>6 DEF Work

LEMMA AroundFinal ==
  ASSUME IInv, NEW t \in Tasks, FinalInv(t),
         World \/ (\E r \in Requests : Reply(r)) \/ UNCHANGED vars
  PROVE  FinalInv(t)'
<1>1. CASE \/ \E e \in Envs : PutEnvironment(e)
           \/ \E id \in EnvIds : RemoveEnvironment(id)
           \/ \E c \in Clusters : Connects(c) \/ Disconnects(c)
           \/ \E j \in Joins : ClusterJoined(j)
           \/ \E c \in Calls : Orchestrator(c)
           \/ UNCHANGED vars
  <2>1. UNCHANGED <<call, step, type, op, at, stage>>
        BY <1>1 DEF PutEnvironment, RemoveEnvironment, Connects, Disconnects, ClusterJoined,
           RequestsUnchanged, Orchestrator, RC!Execute, vars, requestVars, remoteVars
  <2> QED BY <2>1, QuietStep
<1>2. CASE \E r \in Requests : Reply(r)
  <2>1. /\ UNCHANGED <<call, step, type, op, at>>
        /\ \A q \in Requests : stage'[q] = "idle" => stage[q] = "idle"
        BY <1>2 DEF Reply, Answers, remoteVars, IInv, TypeOK
  <2> QED BY <2>1, Pairs, QuietStep
<1>3. CASE Restart
  <2>1. /\ UNCHANGED <<step, type, op>> /\ at'[t] \in {at[t], "none"}
        /\ \A q \in Requests : stage'[q] = "idle" => stage[q] = "idle"
        /\ \A c \in Calls : call'[c] = IF call[c] = "open" THEN "failed" ELSE call[c]
        BY <1>3 DEF Restart, IInv, TypeOK
  <2>2. \A i \in 1..MaxCalls : call'[<<t, i>>] = call[<<t, i>>]
                               \/ (call[<<t, i>>] = "open" /\ call'[<<t, i>>] = "failed")
        BY <2>1, Pairs
  <2> QED BY <2>1, <2>2, Pairs, FinalKept
<1> QED BY <1>1, <1>2, <1>3 DEF World

(* What has answered has been executed; only Orchestrator executes.        *)
LEMMA ExecutedStep ==
  ASSUME IInv, Answered, [Next]_vars
  PROVE  /\ Answered'
         /\ \A c \in Calls : executed'[c] # executed[c] =>
              Orchestrator(c) /\ call[c] \notin {"idle", "ok"}
<1>1. call \in [Calls -> {"idle", "open", "ok", "failed"}] /\ executed \in [Calls -> 0..1]
      BY DEF IInv, TypeOK, RC!CallTypeOK
<1>2. ASSUME NEW c \in Calls, Orchestrator(c)
      PROVE  /\ Answered'
             /\ \A x \in Calls : executed'[x] # executed[x] =>
                  Orchestrator(x) /\ call[x] \notin {"idle", "ok"}
  <2>1. /\ call[c] # "idle" /\ executed[c] = 0 /\ call' = call
        /\ executed' = [executed EXCEPT ![c] = 1]
        BY <1>2 DEF Orchestrator, RC!Execute
  <2>2. call[c] # "ok" BY <2>1 DEF Answered
  <2> QED BY <1>1, <1>2, <2>1, <2>2 DEF Answered
<1>3. ASSUME executed' = executed, \A c \in Calls : call'[c] = "ok" => executed[c] = 1
      PROVE  /\ Answered'
             /\ \A c \in Calls : executed'[c] = executed[c]
      BY <1>3 DEF Answered
<1>4. ASSUME NEW t \in Tasks, Work(t)
      PROVE  executed' = executed /\ \A c \in Calls : call'[c] = "ok" => executed[c] = 1
  <2>1. CASE UNCHANGED remoteVars BY <2>1 DEF remoteVars, Answered
  <2>2. CASE RC!Open(Current(t)) \/ RC!Fail(Current(t)) \/ RC!Answer(Current(t))
        BY <1>1, <2>2 DEF RC!Open, RC!Fail, RC!Answer, Answered
  <2> QED BY <1>4, <2>1, <2>2 DEF Work, Online, Offline, Listing, ProviderFor, NoProvider, Send,
             SendFails, Receive, ReceiveFails
<1>5. CASE \/ \E e \in Envs : PutEnvironment(e)
           \/ \E id \in EnvIds : RemoveEnvironment(id)
           \/ \E c \in Clusters : Connects(c) \/ Disconnects(c)
           \/ \E j \in Joins : ClusterJoined(j)
           \/ \E r \in Requests : Reply(r)
           \/ UNCHANGED vars
  <2>1. UNCHANGED <<call, executed>>
        BY <1>5 DEF PutEnvironment, RemoveEnvironment, Connects, Disconnects, ClusterJoined,
           RequestsUnchanged, Reply, vars, remoteVars
  <2> QED BY <1>3, <2>1 DEF Answered
<1>6. CASE Restart
  <2>1. executed' = executed /\ \A c \in Calls : call'[c] = "ok" => executed[c] = 1
        BY <1>1, <1>6 DEF Restart, Answered
  <2> QED BY <1>3, <2>1
<1>7. ASSUME NEW r \in Requests, Arrive(r)
      PROVE  UNCHANGED <<call, executed>>
  <2>1. UNCHANGED remoteVars BY <1>7 DEF Arrive, Refuse, Accept, List
  <2> QED BY <2>1 DEF remoteVars
<1>8. ASSUME NEW r \in Requests, Arrive(r)
      PROVE  executed' = executed /\ \A c \in Calls : call'[c] = "ok" => executed[c] = 1
      BY <1>7, <1>8 DEF Answered
<1> QED BY <1>2, <1>3, <1>4, <1>5, <1>6, <1>8 DEF Next, World

LEMMA StepFinal ==
  ASSUME IInv, Answered, \A t \in Tasks : FinalInv(t), [Next]_vars
  PROVE  Answered' /\ \A t \in Tasks : FinalInv(t)'
<1>1. ASSUME NEW t \in Tasks PROVE FinalInv(t)'
  <2>1. FinalInv(t) BY <1>1
  <2> QED BY <1>1, <2>1, ArriveFinal, WorkFinal, AroundFinal DEF Next
<1> QED BY <1>1, ExecutedStep

(* A request that has succeeded has nothing left in the tunnel that could  *)
(* still change a container: a provider goes on after a call that failed,  *)
(* and may so be executed late, only where that call reads                 *)
(* (docker.go:211-221).                                                    *)
THEOREM OkFinal == Spec => OkIsFinal
<1> DEFINE I == IInv /\ Answered /\ \A t \in Tasks : FinalInv(t)
<1>1. Init => I BY InitInv, InitFinal
<1>2. I /\ [Next]_vars => I' BY StepInv, StepFinal
<1>3. I /\ [Next]_vars =>
        [\A c \in Calls : answer[c[1][1]] = "ok" /\ at[c[1]] = "ok" =>
           \/ executed'[c] = executed[c]
           \/ CallsOf(c[1])[c[2]].effect = "read"]_vars
  <2> SUFFICES ASSUME I, [Next]_vars, NEW c \in Calls, at[c[1]] = "ok",
                      executed'[c] # executed[c]
               PROVE  CallsOf(c[1])[c[2]].effect = "read"
      OBVIOUS
  <2>1. call[c] \notin {"idle", "ok"} BY ExecutedStep
  <2>2. c[1] \in Tasks /\ c[2] \in 1..MaxCalls /\ c = <<c[1], c[2]>> BY Pairs
  <2>3. Settled(c[1], c[2]) BY <2>2 DEF FinalInv
  <2> QED BY <2>1, <2>2, <2>3 DEF Settled
<1> HIDE DEF I
<1> QED BY <1>1, <1>2, <1>3, PTL DEF Spec, OkIsFinal

-----------------------------------------------------------------------------
(* AccessFromGroups: matchPattern, character by character, for strings of  *)
(* any length.                                                             *)

LEMMA PrefixChars ==
  ASSUME NEW s \in Seq(Chars), NEW p \in Seq(Chars), NEW m \in 0..Len(p)
  PROVE  HasPrefix(s, SubSeq(p, 1, m)) <=> m <= Len(s) /\ \A i \in 1..m : s[i] = p[i]
<1>1. /\ Len(s) \in Nat /\ Len(p) \in Nat /\ m \in Nat
      /\ \A i \in 1..Len(s) : s[i] \in Chars
      /\ \A i \in 1..Len(p) : p[i] \in Chars
      BY LenProperties, ElementOfSeq
<1>2. /\ SubSeq(p, 1, m) \in Seq(Chars) /\ Len(SubSeq(p, 1, m)) = m
      /\ \A i \in 1..m : SubSeq(p, 1, m)[i] = p[i]
      BY <1>1, SubSeqProperties
<1>3. CASE m <= Len(s)
  <2>1. /\ SubSeq(s, 1, m) \in Seq(Chars) /\ Len(SubSeq(s, 1, m)) = m
        /\ \A i \in 1..m : SubSeq(s, 1, m)[i] = s[i]
        BY <1>1, <1>3, SubSeqProperties
  <2>2. SubSeq(s, 1, m) = SubSeq(p, 1, m) <=> \A i \in 1..m : s[i] = p[i]
        BY <1>2, <2>1, SeqEqual
  <2> QED BY <1>2, <1>3, <2>2 DEF HasPrefix
<1>4. CASE ~(m <= Len(s)) BY <1>2, <1>4 DEF HasPrefix
<1> QED BY <1>3, <1>4

LEMMA SuffixChars ==
  ASSUME NEW s \in Seq(Chars), NEW p \in Seq(Chars), NEW k \in 1..Len(p)
  PROVE  HasSuffix(s, SubSeq(p, k + 1, Len(p))) <=>
           /\ Len(p) - k <= Len(s)
           /\ \A i \in 1..(Len(p) - k) : s[Len(s) - (Len(p) - k) + i] = p[k + i]
<1> DEFINE m == Len(p) - k
<1>1. /\ Len(s) \in Nat /\ Len(p) \in Nat /\ k \in Nat /\ m \in Nat
      /\ \A i \in 1..Len(s) : s[i] \in Chars
      /\ \A i \in 1..Len(p) : p[i] \in Chars
      BY LenProperties, ElementOfSeq
<1>2. /\ SubSeq(p, k + 1, Len(p)) \in Seq(Chars) /\ Len(SubSeq(p, k + 1, Len(p))) = m
      /\ \A i \in 1..m : SubSeq(p, k + 1, Len(p))[i] = p[k + i]
  <2>1. \A i \in (k + 1)..Len(p) : p[i] \in Chars BY <1>1
  <2>2. /\ SubSeq(p, k + 1, Len(p)) \in Seq(Chars)
        /\ Len(SubSeq(p, k + 1, Len(p))) =
             IF k + 1 <= Len(p) THEN Len(p) - (k + 1) + 1 ELSE 0
        /\ \A i \in 1..(Len(p) - (k + 1) + 1) :
             SubSeq(p, k + 1, Len(p))[i] = p[(k + 1) + i - 1]
        BY <1>1, <2>1, SubSeqProperties
  <2>3. \A i \in 1..m : i \in 1..(Len(p) - (k + 1) + 1) /\ (k + 1) + i - 1 = k + i
        BY <1>1
  <2> QED BY <1>1, <2>2, <2>3
<1>3. CASE m <= Len(s)
  <2> DEFINE n == Len(s) - m
  <2>1. n \in Nat /\ n + 1 \in Int BY <1>1, <1>3
  <2>2. /\ SubSeq(s, n + 1, Len(s)) \in Seq(Chars) /\ Len(SubSeq(s, n + 1, Len(s))) = m
        /\ \A i \in 1..m : SubSeq(s, n + 1, Len(s))[i] = s[n + i]
    <3>1. \A i \in (n + 1)..Len(s) : s[i] \in Chars BY <1>1, <2>1
    <3>2. /\ SubSeq(s, n + 1, Len(s)) \in Seq(Chars)
          /\ Len(SubSeq(s, n + 1, Len(s))) =
               IF n + 1 <= Len(s) THEN Len(s) - (n + 1) + 1 ELSE 0
          /\ \A i \in 1..(Len(s) - (n + 1) + 1) :
               SubSeq(s, n + 1, Len(s))[i] = s[(n + 1) + i - 1]
          BY <1>1, <2>1, <3>1, SubSeqProperties
    <3>3. \A i \in 1..m : i \in 1..(Len(s) - (n + 1) + 1) /\ (n + 1) + i - 1 = n + i
          BY <1>1, <1>3
    <3> QED BY <1>1, <1>3, <3>2, <3>3
  <2>3. SubSeq(s, n + 1, Len(s)) = SubSeq(p, k + 1, Len(p))
          <=> \A i \in 1..m : s[n + i] = p[k + i]
        BY <1>2, <2>2, SeqEqual
  <2> QED BY <1>2, <1>3, <2>3 DEF HasSuffix
<1>4. CASE ~(m <= Len(s)) BY <1>2, <1>4 DEF HasSuffix
<1> QED BY <1>3, <1>4

(* What a pattern with a star at k says of a name that is long enough.     *)
Fits(p, k, name) ==
  /\ \A i \in 1..(k - 1) : name[i] = p[i]
  /\ \A i \in 1..(Len(p) - k) : name[Len(name) - (Len(p) - k) + i] = p[k + i]

(* A pattern that has stars has a first one.                               *)
LEMMA FirstStarIs ==
  ASSUME NEW p \in Seq(Chars), Stars(p) # {}
  PROVE  FirstStar(p) \in Stars(p)
<1>1. Stars(p) \subseteq Nat
  <2>1. Len(p) \in Nat BY LenProperties
  <2> QED BY <2>1 DEF Stars
<1>2. PICK i \in Stars(p) : \A j \in Stars(p) : <<j, i>> \notin OpToRel(<, Nat)
      BY <1>1, NatLessThanWellFounded, WFMin
<1>3. \A j \in Stars(p) : i <= j
  <2> SUFFICES ASSUME NEW j \in Stars(p), j < i PROVE FALSE BY <1>1
  <2>1. j \in Nat /\ i \in Nat BY <1>1
  <2>2. <<j, i>> \in OpToRel(<, Nat) BY <2>1 DEF OpToRel
  <2> QED BY <1>2, <2>2
<1> QED BY <1>2, <1>3 DEF FirstStar

(* The star that matchPattern goes by: the last character, the first, or   *)
(* the first star in the middle.                                           *)
Acting(p) == IF p[Len(p)] = Star THEN Len(p)
             ELSE IF p[1] = Star THEN 1 ELSE FirstStar(p)

LEMMA ActingIs ==
  ASSUME NEW p \in Seq(Chars), Stars(p) # {}
  PROVE  Acting(p) \in Stars(p)
<1>1. Len(p) \in Nat BY LenProperties
<1>2. 1 \in 1..Len(p) /\ Len(p) \in 1..Len(p) BY <1>1 DEF Stars
<1> QED BY <1>2, FirstStarIs DEF Acting, Stars

LEMMA ActingMatch ==
  ASSUME NEW p \in Seq(Chars), NEW name \in Seq(Chars), Stars(p) # {},
         Len(name) + 1 >= Len(p)
  PROVE  matchPattern(p, name) <=> Fits(p, Acting(p), name)
<1> DEFINE k == Acting(p)
<1>1. k \in Stars(p) BY ActingIs
<1>2. /\ Len(p) \in Nat \ {0} /\ Len(name) \in Nat
      /\ k \in Nat \ {0} /\ k <= Len(p) /\ p[k] = Star
  <2>1. Len(p) \in Nat /\ Len(name) \in Nat BY LenProperties
  <2> QED BY <1>1, <2>1 DEF Stars
<1>3. Len(p) # 1 => p # <<Star>> OBVIOUS
<1>4. CASE Len(p) = 1
  <2>1. k = 1 /\ p[1] = Star BY <1>2, <1>4
  <2>2. <<Star>> \in Seq(Chars) /\ Len(<<Star>>) = 1 /\ <<Star>>[1] = Star
        BY StarAssumption
  <2>3. p = <<Star>> BY <1>4, <2>1, <2>2, SeqEqual
  <2>4. Fits(p, k, name) BY <1>2, <1>4, <2>1 DEF Fits
  <2> QED BY <2>3, <2>4 DEF matchPattern
<1>5. CASE Len(p) # 1 /\ p[Len(p)] = Star
  <2>1. k = Len(p) BY <1>5 DEF Acting
  <2>2. matchPattern(p, name) <=> HasPrefix(name, SubSeq(p, 1, Len(p) - 1))
    <3>1. Len(p) > 1
      <4>1. Len(p) \in Nat \ {0} /\ Len(p) # 1 BY <1>2, <1>5
      <4>2. \A n \in Nat \ {0} : n # 1 => n > 1 OBVIOUS
      <4> QED BY <4>1, <4>2, Zenon
    <3>2. p # <<Star>> BY <1>3, <1>5
    <3> QED BY ONLY <1>5, <3>1, <3>2, Stars(p) # {}, Zenon DEF matchPattern
  <2>3. Len(p) - 1 \in 0..Len(p) /\ Len(p) - 1 <= Len(name) BY <1>2
  <2>4. matchPattern(p, name) <=> \A i \in 1..(Len(p) - 1) : name[i] = p[i]
        BY <2>2, <2>3, PrefixChars
  <2>5. Fits(p, Len(p), name) <=> \A i \in 1..(Len(p) - 1) : name[i] = p[i]
        BY <1>2 DEF Fits
  <2> QED BY ONLY <2>1, <2>4, <2>5
<1>6. CASE Len(p) # 1 /\ p[Len(p)] # Star /\ p[1] = Star
  <2>1. k = 1 BY <1>6 DEF Acting
  <2>2. Tail(p) = SubSeq(p, 1 + 1, Len(p))
    <3>1. p # <<>> /\ 1 + 1 = 2 BY <1>2
    <3> QED BY <3>1, TailIsSubSeq
  <2>3. matchPattern(p, name) <=> HasSuffix(name, SubSeq(p, 1 + 1, Len(p)))
    <3>1. Len(p) > 1 /\ p # <<Star>> BY <1>2, <1>3, <1>6
    <3>2. matchPattern(p, name) <=> HasSuffix(name, Tail(p))
          BY ONLY <1>6, <3>1, Stars(p) # {}, Zenon DEF matchPattern
    <3> QED BY <2>2, <3>2
  <2>4. 1 \in 1..Len(p) /\ Len(p) - 1 <= Len(name) BY <1>2
  <2>5. matchPattern(p, name) <=>
          \A i \in 1..(Len(p) - 1) : name[Len(name) - (Len(p) - 1) + i] = p[1 + i]
        BY <2>3, <2>4, SuffixChars
  <2>6. Fits(p, 1, name) <=>
          \A i \in 1..(Len(p) - 1) : name[Len(name) - (Len(p) - 1) + i] = p[1 + i]
        BY DEF Fits
  <2> QED BY ONLY <2>1, <2>5, <2>6
<1>7. CASE Len(p) # 1 /\ p[Len(p)] # Star /\ p[1] # Star
  <2>1. k = FirstStar(p) BY <1>7 DEF Acting
  <2>2. matchPattern(p, name) <=> /\ HasPrefix(name, SubSeq(p, 1, k - 1))
                                  /\ HasSuffix(name, SubSeq(p, k + 1, Len(p)))
        BY <1>2, <1>3, <1>7, <2>1 DEF matchPattern, Before, After
  <2>3. k - 1 \in 0..Len(p) /\ k - 1 <= Len(name) /\ k \in 1..Len(p) /\ Len(p) - k <= Len(name)
        BY <1>2
  <2>4. HasPrefix(name, SubSeq(p, 1, k - 1)) <=> \A i \in 1..(k - 1) : name[i] = p[i]
        BY <2>3, PrefixChars
  <2>5. HasSuffix(name, SubSeq(p, k + 1, Len(p))) <=>
          \A i \in 1..(Len(p) - k) : name[Len(name) - (Len(p) - k) + i] = p[k + i]
        BY <2>3, SuffixChars
  <2>6. Fits(p, k, name) <=>
          /\ \A i \in 1..(k - 1) : name[i] = p[i]
          /\ \A i \in 1..(Len(p) - k) : name[Len(name) - (Len(p) - k) + i] = p[k + i]
        BY DEF Fits
  <2> QED BY <2>2, <2>4, <2>5, <2>6
<1> QED BY <1>4, <1>5, <1>6, <1>7

(* A name that fits a pattern at one of its stars is one that the pattern  *)
(* describes: the other stars may stand for themselves.                    *)
LEMMA FitsGlob ==
  ASSUME NEW p \in Seq(Chars), NEW name \in Seq(Chars), NEW k \in Stars(p),
         Len(name) + 1 >= Len(p), Fits(p, k, name)
  PROVE  Glob(p, name)
<1>1. /\ Len(p) \in Nat \ {0} /\ Len(name) \in Nat /\ k \in Nat \ {0} /\ k <= Len(p)
      /\ \A s \in {0} \cup Stars(p) : s \in Nat /\ s <= Len(p)
  <2>1. Len(p) \in Nat /\ Len(name) \in Nat BY LenProperties
  <2> QED BY <2>1 DEF Stars
<1> DEFINE d == Len(name) - Len(p)
           cut == [s \in {0} \cup Stars(p) |-> IF s < k THEN s ELSE d + s]
<1>2. cut \in [{0} \cup Stars(p) -> 0..Len(name)] /\ cut[0] = 0
  <2>1. ASSUME NEW s \in {0} \cup Stars(p)
        PROVE  (IF s < k THEN s ELSE d + s) \in 0..Len(name)
        BY <1>1, <2>1
  <2>2. cut \in [{0} \cup Stars(p) -> 0..Len(name)] BY <2>1
  <2>3. cut[0] = 0 BY <1>1
  <2> QED BY <2>2, <2>3
<1>3. \A s \in {0} \cup Stars(p) : cut[s] = IF s < k THEN s ELSE d + s OBVIOUS
<1> HIDE DEF cut
<1>4. ASSUME NEW s \in {0} \cup Stars(p), NEW i \in 0..Len(p), s <= i,
             \A z \in Stars(p) : ~(s < z /\ z <= i)
      PROVE  LET end == cut[s] + (i - s)
             IN /\ end <= Len(name)
                /\ s < i => name[end] = p[i]
                /\ i + 1 \in Stars(p) => end <= cut[i + 1]
                /\ i = Len(p) => end = Len(name)
  <2>1. i \in Nat /\ i <= Len(p) /\ s \in Nat BY <1>1
  <2>2. CASE s < k
    <3>1. i < k BY <1>1, <1>4, <2>1, <2>2
    <3>2. cut[s] + (i - s) = i BY <1>3, <2>1, <2>2
    <3>3. s < i => name[i] = p[i]
      <4>1. s < i => i \in 1..(k - 1) BY <1>1, <2>1, <3>1
      <4> QED BY <4>1 DEF Fits
    <3>4. i + 1 \in Stars(p) => i <= cut[i + 1] BY <1>1, <1>3, <2>1, <3>1
    <3> QED BY <1>1, <2>1, <3>1, <3>2, <3>3, <3>4
  <2>3. CASE ~(s < k)
    <3>1. cut[s] + (i - s) = d + i BY <1>1, <1>3, <2>1, <2>3
    <3>2. s < i => name[d + i] = p[i]
      <4> SUFFICES ASSUME s < i PROVE name[d + i] = p[i] OBVIOUS
      <4> DEFINE j == i - k
      <4>1. /\ j \in 1..(Len(p) - k) /\ k + j = i
            /\ Len(name) - (Len(p) - k) + j = d + i
            BY <1>1, <2>1, <2>3
      <4>2. name[Len(name) - (Len(p) - k) + j] = p[k + j] BY <4>1 DEF Fits
      <4> QED BY <4>1, <4>2
    <3>3. i + 1 \in Stars(p) => d + i <= cut[i + 1] BY <1>1, <1>3, <2>1, <2>3, <1>4
    <3> QED BY <1>1, <2>1, <3>1, <3>2, <3>3
  <2> QED BY <2>2, <2>3
<1> QED BY <1>2, <1>4 DEF Glob

(* A pattern with one star describes the names that fit it there, and none *)
(* that is too short.                                                      *)
LEMMA GlobFits ==
  ASSUME NEW p \in Seq(Chars), NEW name \in Seq(Chars), NEW k \in 1..Len(p),
         Stars(p) = {k}, Glob(p, name)
  PROVE  Fits(p, k, name) /\ Len(name) + 1 >= Len(p)
<1>1. Len(p) \in Nat \ {0} /\ Len(name) \in Nat /\ k \in Nat \ {0} /\ k <= Len(p)
      BY LenProperties
<1>2. PICK cut \in [{0} \cup Stars(p) -> 0..Len(name)] :
        /\ cut[0] = 0
        /\ \A s \in {0} \cup Stars(p), i \in 0..Len(p) :
             s <= i /\ (\A z \in Stars(p) : ~(s < z /\ z <= i)) =>
               LET end == cut[s] + (i - s)
               IN /\ end <= Len(name)
                  /\ s < i => name[end] = p[i]
                  /\ i + 1 \in Stars(p) => end <= cut[i + 1]
                  /\ i = Len(p) => end = Len(name)
      BY DEF Glob
<1>3. cut[k] \in Nat BY <1>2
<1>4. ASSUME NEW i \in 0..(k - 1)
      PROVE  (0 < i => name[i] = p[i]) /\ (i = k - 1 => i <= cut[k])
  <2>1. /\ i \in 0..Len(p) /\ 0 <= i /\ ~(0 < k /\ k <= i) /\ 0 + (i - 0) = i
        /\ i = k - 1 => i + 1 = k
        BY <1>1
  <2> QED BY <1>2, <2>1
<1>5. ASSUME NEW i \in k..Len(p)
      PROVE  /\ k < i => name[cut[k] + (i - k)] = p[i]
             /\ i = Len(p) => cut[k] + (i - k) = Len(name)
  <2>1. i \in 0..Len(p) /\ k <= i /\ ~(k < k /\ k <= i) BY <1>1
  <2> QED BY <1>2, <2>1
<1>6. k - 1 <= cut[k]
  <2>1. k - 1 \in 0..(k - 1) BY <1>1
  <2> QED BY <1>4, <2>1
<1>7. cut[k] + (Len(p) - k) = Len(name)
  <2>1. Len(p) \in k..Len(p) BY <1>1
  <2> QED BY <1>5, <2>1
<1>8. ASSUME NEW i \in 1..(k - 1) PROVE name[i] = p[i]
  <2>1. i \in 0..(k - 1) /\ 0 < i BY <1>1
  <2> QED BY <1>4, <2>1
<1>9. ASSUME NEW i \in 1..(Len(p) - k)
      PROVE  name[Len(name) - (Len(p) - k) + i] = p[k + i]
  <2>1. /\ k + i \in k..Len(p) /\ k < k + i
        /\ cut[k] + ((k + i) - k) = Len(name) - (Len(p) - k) + i
        BY <1>1, <1>3, <1>7
  <2> QED BY <1>5, <2>1
<1> QED BY <1>1, <1>3, <1>6, <1>7, <1>8, <1>9 DEF Fits

(* A pattern without a star is the name itself.                            *)
LEMMA NoStar ==
  ASSUME NEW p \in Seq(Chars), NEW name \in Seq(Chars), Stars(p) = {}
  PROVE  (matchPattern(p, name) <=> p = name) /\ (Glob(p, name) <=> p = name)
<1>1. Len(p) \in Nat /\ Len(name) \in Nat BY LenProperties
<1>2. \A i \in 1..Len(p) : p[i] # Star BY DEF Stars
<1>3. p # <<Star>>
  <2> SUFFICES ASSUME p = <<Star>> PROVE FALSE OBVIOUS
  <2>1. Len(p) = 1 /\ p[1] = Star OBVIOUS
  <2> QED BY <1>2, <2>1
<1>4. Len(p) > 1 => p[Len(p)] # Star /\ p[1] # Star
  <2>1. Len(p) > 1 => Len(p) \in 1..Len(p) /\ 1 \in 1..Len(p) BY <1>1
  <2> QED BY <1>2, <2>1
<1>5. matchPattern(p, name) <=> p = name BY <1>3, <1>4 DEF matchPattern
<1>6. ASSUME Glob(p, name) PROVE p = name
  <2>1. PICK cut \in [{0} \cup Stars(p) -> 0..Len(name)] :
          /\ cut[0] = 0
          /\ \A s \in {0} \cup Stars(p), i \in 0..Len(p) :
               s <= i /\ (\A z \in Stars(p) : ~(s < z /\ z <= i)) =>
                 LET end == cut[s] + (i - s)
                 IN /\ s < i => name[end] = p[i]
                    /\ i = Len(p) => end = Len(name)
        BY <1>6 DEF Glob
  <2>2. ASSUME NEW i \in 0..Len(p)
        PROVE  (0 < i => name[i] = p[i]) /\ (i = Len(p) => i = Len(name))
    <3>1. 0 <= i /\ 0 + (i - 0) = i BY <1>1
    <3> QED BY <2>1, <3>1
  <2>3. Len(p) = Len(name) /\ \A i \in 1..Len(p) : p[i] = name[i]
    <3>1. Len(p) \in 0..Len(p) /\ \A i \in 1..Len(p) : i \in 0..Len(p) /\ 0 < i BY <1>1
    <3> QED BY <2>2, <3>1
  <2> QED BY <2>3, SeqEqual
<1>7. ASSUME p = name PROVE Glob(p, name)
  <2> DEFINE cut == [s \in {0} \cup Stars(p) |-> 0]
  <2>1. cut \in [{0} \cup Stars(p) -> 0..Len(name)] /\ cut[0] = 0 BY <1>1
  <2> HIDE DEF cut
  <2>2. ASSUME NEW s \in {0} \cup Stars(p), NEW i \in 0..Len(p)
        PROVE  cut[s] + (i - s) = i
        BY <1>1, <2>1
  <2>3. ASSUME NEW s \in {0} \cup Stars(p), NEW i \in 0..Len(p)
        PROVE  LET end == cut[s] + (i - s)
               IN /\ end <= Len(name)
                  /\ s < i => name[end] = p[i]
                  /\ i + 1 \in Stars(p) => end <= cut[i + 1]
                  /\ i = Len(p) => end = Len(name)
        BY <1>1, <1>7, <2>2
  <2> QED BY <2>1, <2>3 DEF Glob
<1> QED BY <1>5, <1>6, <1>7

(* matchPattern grants what the pattern says, and all of it if the pattern *)
(* has at most one star.                                                   *)
LEMMA PatternsMean ==
  ASSUME NEW p \in Seq(Chars), NEW name \in Seq(Chars)
  PROVE  /\ matchPattern(p, name) /\ Len(name) + 1 >= Len(p) => Glob(p, name)
         /\ Glob(p, name) /\ (\A i, j \in Stars(p) : i = j) => matchPattern(p, name)
<1>1. CASE Stars(p) = {} BY <1>1, NoStar
<1>2. CASE Stars(p) # {}
  <2>1. ASSUME matchPattern(p, name), Len(name) + 1 >= Len(p) PROVE Glob(p, name)
    <3>1. Acting(p) \in Stars(p) BY <1>2, ActingIs
    <3>2. Fits(p, Acting(p), name) BY <1>2, <2>1, ActingMatch
    <3> QED BY <2>1, <3>1, <3>2, FitsGlob
  <2>2. ASSUME Glob(p, name), \A i, j \in Stars(p) : i = j PROVE matchPattern(p, name)
    <3>1. Acting(p) \in Stars(p) BY <1>2, ActingIs
    <3>2. Stars(p) = {Acting(p)} /\ Acting(p) \in 1..Len(p) BY <2>2, <3>1 DEF Stars
    <3>3. Fits(p, Acting(p), name) /\ Len(name) + 1 >= Len(p) BY <2>2, <3>2, GlobFits
    <3> QED BY <1>2, <3>3, ActingMatch
  <2> QED BY <2>1, <2>2
<1> QED BY <1>1, <1>2

(* Whatever groups and patterns the configuration has: no pattern grants a *)
(* name that is not what it says with every star standing for some         *)
(* stretch of it, though matchPattern looks at one star only, and one with *)
(* at most one star grants all of those.  Names too short for the text     *)
(* around a star are left out of the first (auth.go:172-190).              *)
THEOREM PatternsGrant == Spec => []AccessFromGroups
<1>1. IInv => AccessFromGroups
  <2> SUFFICES ASSUME IInv, NEW r \in Requests, user[r] # None,
                      NEW p \in user[r].environments
               PROVE  p \notin Misread
      BY DEF AccessFromGroups
  <2>1. user[r] \in Users BY DEF IInv, TypeOK
  <2>2. PICK x \in Claims : user[r] = UserOf(x, GroupsOf, PatternsOf) BY <2>1 DEF Users
  <2>3. \E g \in DOMAIN PatternsOf : p \in PatternsOf[g] BY <2>2 DEF UserOf
  <2>4. p \in Seq(Chars) /\ Names \subseteq Seq(Chars) BY <2>3, StringsAssumption
  <2> QED BY <2>4, PatternsMean DEF Misread
<1> QED BY <1>1, Inductive, PTL

-----------------------------------------------------------------------------
(* CallsInTurn: a call is under way exactly while its goroutine waits for  *)
(* it, which a restart ends for both; a request is answered, and its calls *)
(* are over, only when all its goroutines have reported.                   *)

Working == {"online", "provider", "call", "wait"}

TurnInv(t) ==
  /\ at[t] \in Working => stage[t[1]] = "busy" /\ t[2] \in asked[t[1]]
  /\ \A i \in 1..MaxCalls : call[<<t, i>>] = "open" <=> at[t] = "wait" /\ i = step[t]

(* A task that nobody touches, and one that is given up.                   *)
LEMMA TurnKept ==
  ASSUME NEW t \in Tasks, TurnInv(t), at'[t] = at[t], step'[t] = step[t],
         \A i \in 1..MaxCalls : call'[<<t, i>>] = call[<<t, i>>],
         at[t] \in Working => stage'[t[1]] = "busy" /\ asked'[t[1]] = asked[t[1]]
  PROVE  TurnInv(t)'
BY DEF TurnInv

LEMMA RestartTurn == ASSUME IInv, NEW t \in Tasks, TurnInv(t), Restart PROVE TurnInv(t)'
<1>1. /\ at' = [u \in Tasks |-> IF stage[u[1]] = "busy" THEN "none" ELSE at[u]]
      /\ call' = [c \in Calls |-> IF call[c] = "open" THEN "failed" ELSE call[c]]
      BY DEF Restart
<1>2. at'[t] \notin Working BY <1>1 DEF TurnInv, Working
<1>3. \A i \in 1..MaxCalls : call'[<<t, i>>] # "open" BY <1>1, Pairs
<1> QED BY <1>2, <1>3 DEF TurnInv, Working

LEMMA ReplyTurn ==
  ASSUME IInv, NEW t \in Tasks, TurnInv(t), NEW r \in Requests, Reply(r)
  PROVE  TurnInv(t)'
<1>1. /\ \A e \in asked[r] : at[<<r, e>>] \in {"ok", "error"}
      /\ stage' = [stage EXCEPT ![r] = "answered"]
      /\ UNCHANGED <<at, step, asked, call>>
      BY DEF Reply, Answers, remoteVars
<1>2. at[t] \in Working => t[1] # r BY <1>1, Pairs DEF TurnInv, Working
<1>3. at[t] \in Working => stage'[t[1]] = "busy"
      BY <1>1, <1>2, Pairs DEF TurnInv, IInv, TypeOK
<1> QED BY <1>1, <1>3, TurnKept

LEMMA ArriveTurn ==
  ASSUME IInv, NEW t \in Tasks, TurnInv(t), NEW r \in Requests, Arrive(r)
  PROVE  TurnInv(t)'
<1>1. /\ stage[r] = "idle" /\ UNCHANGED <<call, step>>
      BY DEF Arrive, Refuse, Accept, List, Asks, remoteVars
<1>2. t[1] = r => at[t] = "none" BY <1>1 DEF IInv, TaskInv
<1>3. ASSUME NEW x \in Claims, NEW o \in Ops \ {"list"}, NEW id \in EnvIds, Refuse(r, o, x, id)
      PROVE  TurnInv(t)'
  <2>1. /\ stage' = [stage EXCEPT ![r] = "answered"] /\ UNCHANGED <<at, asked>>
        BY <1>3 DEF Refuse, Answers
  <2>2. at[t] \in Working => t[1] # r BY <1>2 DEF Working
  <2>3. at[t] \in Working => stage'[t[1]] = "busy"
        BY <2>1, <2>2, Pairs DEF TurnInv, IInv, TypeOK
  <2> QED BY <1>1, <2>1, <2>3, TurnKept
<1>4. ASSUME NEW ids \in SUBSET EnvIds, NEW place \in {"online", "provider"}, Begins(r, ids),
             \A u \in Tasks : at'[u] = IF u[1] = r /\ u[2] \in ids THEN place ELSE at[u]
      PROVE  TurnInv(t)'
  <2>1. /\ stage' = [stage EXCEPT ![r] = "busy"] /\ asked' = [asked EXCEPT ![r] = ids]
        BY <1>4 DEF Begins
  <2>2. CASE t[1] = r
    <3>1. at'[t] \in {"none", place} /\ (at'[t] = place => t[2] \in ids) BY <1>2, <1>4, <2>2
    <3>2. stage'[t[1]] = "busy" /\ asked'[t[1]] = ids
          BY <2>1, <2>2, Pairs DEF IInv, TypeOK
    <3>3. \A i \in 1..MaxCalls : call'[<<t, i>>] # "open" BY <1>1, <1>2, <2>2 DEF TurnInv
    <3> QED BY <3>1, <3>2, <3>3 DEF TurnInv, Working
  <2>3. CASE t[1] # r
    <3>1. at'[t] = at[t] /\ stage'[t[1]] = stage[t[1]] /\ asked'[t[1]] = asked[t[1]]
          BY <1>4, <2>1, <2>3, Pairs DEF IInv, TypeOK
    <3> QED BY <1>1, <3>1, TurnKept DEF TurnInv
  <2> QED BY <2>2, <2>3
<1>5. ASSUME NEW x \in Claims, NEW o \in Ops \ {"list"}, NEW id \in EnvIds, Accept(r, o, x, id)
      PROVE  TurnInv(t)'
  <2>1. Begins(r, {id}) /\ at' = [at EXCEPT ![<<r, id>>] = "provider"] BY <1>5 DEF Accept
  <2>2. \A u \in Tasks : at'[u] = IF u[1] = r /\ u[2] \in {id} THEN "provider" ELSE at[u]
    <3>1. \A u \in Tasks : u[1] = r /\ u[2] \in {id} <=> u = <<r, id>> BY Pairs
    <3> QED BY <2>1, <3>1 DEF IInv, TypeOK
  <2> QED BY <1>4, <2>1, <2>2
<1>6. ASSUME NEW x \in Claims, NEW filter \in EnvIds \cup {All}, List(r, x, filter)
      PROVE  TurnInv(t)'
  <2>1. PICK ids \in SUBSET EnvIds :
          /\ Begins(r, ids)
          /\ at' = [u \in Tasks |-> IF u[1] = r /\ u[2] \in ids THEN "online" ELSE at[u]]
        BY <1>6 DEF List
  <2> QED BY <1>4, <2>1
<1> QED BY <1>3, <1>5, <1>6 DEF Arrive

(* The call of a task returns or could not be made, and the task goes on.  *)
LEMMA OutcomeTurn ==
  ASSUME IInv, NEW t \in Tasks, TurnInv(t), SendFails(t) \/ Receive(t) \/ ReceiveFails(t)
  PROVE  TurnInv(t)'
<1>1. /\ at[t] \in {"call", "wait"} /\ UNCHANGED <<stage, asked>>
      /\ \E v \in {"ok", "failed"} : call' = [call EXCEPT ![Current(t)] = v]
      BY DEF SendFails, Receive, ReceiveFails, RC!Answer, RC!Fail, requestVars
<1>2. at'[t] \in {"ok", "call", "error"}
      BY DEF SendFails, Receive, ReceiveFails, Continue, IInv, TypeOK
<1>3. ASSUME NEW i \in 1..MaxCalls PROVE call'[<<t, i>>] # "open"
  <2>1. call \in [Calls -> {"idle", "open", "ok", "failed"}] /\ <<t, i>> \in Calls
        BY <1>3, Pairs DEF IInv, TypeOK, RC!CallTypeOK
  <2>2. CASE i = step[t] BY <1>1, <2>1, <2>2 DEF Current
  <2>3. CASE i # step[t]
    <3>1. call[<<t, i>>] # "open" BY <1>3, <2>3 DEF TurnInv
    <3> QED BY <1>1, <2>1, <3>1
  <2> QED BY <2>2, <2>3
<1> QED BY <1>1, <1>2, <1>3 DEF TurnInv, Working

LEMMA SendTurn == ASSUME IInv, NEW t \in Tasks, TurnInv(t), Send(t) PROVE TurnInv(t)'
<1>1. /\ at[t] = "call" /\ at'[t] = "wait" /\ UNCHANGED <<stage, asked, step>>
      /\ call' = [call EXCEPT ![Current(t)] = "open"]
      BY DEF Send, RC!Open, IInv, TypeOK, requestVars
<1>2. ASSUME NEW i \in 1..MaxCalls PROVE call'[<<t, i>>] = "open" <=> i = step[t]
  <2>1. call \in [Calls -> {"idle", "open", "ok", "failed"}] /\ <<t, i>> \in Calls
        BY <1>2, Pairs DEF IInv, TypeOK, RC!CallTypeOK
  <2>2. CASE i = step[t] BY <1>1, <2>1, <2>2 DEF Current
  <2>3. CASE i # step[t]
    <3>1. <<t, i>> # Current(t) /\ call[<<t, i>>] # "open"
          BY <1>1, <1>2, <2>3 DEF TurnInv, Current
    <3> QED BY <1>1, <2>1, <2>3, <3>1
  <2> QED BY <2>2, <2>3
<1> QED BY <1>1, <1>2 DEF TurnInv, Working

LEMMA WorkTurn ==
  ASSUME IInv, NEW t \in Tasks, TurnInv(t), NEW u \in Tasks, Work(u)
  PROVE  TurnInv(t)'
<1>1. CASE u # t
  <2>1. /\ at'[t] = at[t] /\ step'[t] = step[t] /\ UNCHANGED requestVars
        /\ UNCHANGED call \/ \E v : call' = [call EXCEPT ![Current(u)] = v]
        BY <1>1 DEF Work, Online, Offline, Listing, ProviderFor, NoProvider, Send, SendFails,
           Receive, ReceiveFails, Continue, RC!Open, RC!Fail, RC!Answer, IInv, TypeOK, remoteVars
  <2>2. \A i \in 1..MaxCalls : call'[<<t, i>>] = call[<<t, i>>]
    <3>1. call \in [Calls -> {"idle", "open", "ok", "failed"}] BY DEF IInv, TypeOK, RC!CallTypeOK
    <3>2. \A i \in 1..MaxCalls : <<t, i>> \in Calls /\ <<t, i>> # Current(u)
          BY <1>1, Pairs DEF Current
    <3> QED BY <2>1, <3>1, <3>2
  <2> QED BY <2>1, <2>2, TurnKept DEF TurnInv, requestVars
<1>2. CASE u = t /\ (Online(t) \/ Offline(t) \/ NoProvider(t) \/ ProviderFor(t))
  <2>1. /\ at[t] \in {"online", "provider"} /\ at'[t] \in {"provider", "call", "error"}
        /\ UNCHANGED <<stage, asked, step, call>>
        BY <1>2 DEF Online, Offline, Listing, NoProvider, ProviderFor, IInv, TypeOK,
           remoteVars, requestVars
  <2> QED BY <2>1 DEF TurnInv, Working
<1>3. CASE u = t /\ Send(t) BY <1>3, SendTurn
<1>4. CASE u = t /\ (SendFails(t) \/ Receive(t) \/ ReceiveFails(t)) BY <1>4, OutcomeTurn
<1> QED BY <1>1, <1>2, <1>3, <1>4 DEF Work

LEMMA StepTurn ==
  ASSUME IInv, NEW t \in Tasks, TurnInv(t), [Next]_vars
  PROVE  TurnInv(t)'
<1>1. CASE \/ \E e \in Envs : PutEnvironment(e)
           \/ \E id \in EnvIds : RemoveEnvironment(id)
           \/ \E c \in Clusters : Connects(c) \/ Disconnects(c)
           \/ \E j \in Joins : ClusterJoined(j)
           \/ \E c \in Calls : Orchestrator(c)
           \/ UNCHANGED vars
  <2>1. UNCHANGED <<call, step, at, stage, asked>>
        BY <1>1 DEF PutEnvironment, RemoveEnvironment, Connects, Disconnects, ClusterJoined,
           RequestsUnchanged, Orchestrator, RC!Execute, vars, requestVars, remoteVars
  <2> QED BY <2>1 DEF TurnInv
<1> QED BY <1>1, RestartTurn, ReplyTurn, ArriveTurn, WorkTurn DEF Next, World

(* Every goroutine has at most the call under way that it waits for, and   *)
(* the next call it makes was never made before: providers try nothing     *)
(* again, whatever fails or is lost with a restart (nomad.go:199-240).     *)
THEOREM OneCallEach == Spec => []CallsInTurn
<1> DEFINE I == IInv /\ Answered /\ \A t \in Tasks : FinalInv(t) /\ TurnInv(t)
<1>1. Init => I
  <2>1. ASSUME Init, NEW t \in Tasks PROVE TurnInv(t)
    <3>1. at[t] = "none" /\ \A c \in Calls : call[c] = "idle" BY <2>1 DEF Init, RC!CallInit
    <3> QED BY <3>1, Pairs DEF TurnInv, Working
  <2> QED BY <2>1, InitInv, InitFinal
<1>2. I /\ [Next]_vars => I' BY StepInv, StepFinal, StepTurn
<1>3. I => CallsInTurn
  <2> SUFFICES ASSUME I, NEW t \in Tasks
               PROVE  /\ \A i \in 1..MaxCalls :
                           call[<<t, i>>] = "open" <=> at[t] = "wait" /\ i = step[t]
                      /\ at[t] = "call" => call[Current(t)] = "idle"
      BY DEF CallsInTurn
  <2>1. step[t] \in 1..MaxCalls /\ step[t] >= step[t]
    <3>1. step[t] \in 1..3 BY DEF IInv, TypeOK, MaxCalls
    <3> QED BY ONLY <3>1 DEF MaxCalls
  <2>2. at[t] = "call" => call[Current(t)] = "idle" BY <2>1 DEF FinalInv, Current
  <2> QED BY <2>2 DEF TurnInv
<1> HIDE DEF I
<1> QED BY <1>1, <1>2, <1>3, PTL DEF Spec
=============================================================================
