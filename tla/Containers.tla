----------------------------- MODULE Containers -----------------------------
(***************************************************************************)
(* Requests about containers: the handlers of handlers.go, from the lookup *)
(* of the environment to the answer, and the calls that the providers      *)
(* (docker.go, kube.go, nomad.go) make for them through the tunnel.        *)
(*                                                                         *)
(* A handler reads s.envs, checks the user's access, reads s.clusters and  *)
(* looks the tunnel up again for every call, each under a lock of its own; *)
(* environments and agents come and go in between.  A listing does this    *)
(* for all its environments at once, in a goroutine each, and answers when *)
(* all have reported; any other request is a listing of one here.          *)
(*                                                                         *)
(* The tunnel is RemoteCall, which Tunnel implements: a call is executed   *)
(* at most once, and may be executed after it has failed.                  *)
(***************************************************************************)
EXTENDS Access

CONSTANTS
  Requests,
  EnvIds,       \* the keys of s.envs
  Clusters,
  Names,        \* names an environment may be given
  Envs,         \* what may be stored there: [id, name, cluster, ns]
  Joins,        \* the clusters that may register: <<cluster, type>>
  Claims,       \* claims of valid tokens: [sub, admin]
  GroupsOf,     \* GroupsOf[u]: the groups of user u (the configuration)
  PatternsOf,   \* PatternsOf[g]: the environment patterns of group g
  All,          \* a listing without ?env=
  Empty, Default,   \* the namespaces "" and "default"
  None

Users == {UserOf(x, GroupsOf, PatternsOf) : x \in Claims}

Types == {"docker", "kube", "nomad"}

(* Where a call is sent: to a cluster, in the terms of an orchestrator,    *)
(* with a namespace or without.                                            *)
Places == [cluster : Clusters, type : Types, ns : {e.ns : e \in Envs} \cup {Default, None}]

Ops == {"list", "inspect", "logs", "exec", "stop", "restart", "delete"}

ASSUME EnvsAssumption == \A e \in Envs :
  e.id \in EnvIds /\ e.cluster \in Clusters /\ e.name \in Names /\ e.ns # None
ASSUME JoinsAssumption == Joins \subseteq Clusters \X Types
ASSUME NoneAssumption ==
  None \notin Envs /\ None \notin Types /\ None \notin Users /\ None \notin Places
ASSUME StringsAssumption ==
  Names \subseteq Seq(Chars) /\ \A g \in DOMAIN PatternsOf : PatternsOf[g] \subseteq Seq(Chars)
ASSUME ClaimsAssumption == \A x \in Claims : x.sub \in DOMAIN GroupsOf

Tasks == Requests \X EnvIds     \* one request's work on one environment
MaxCalls == 3
Calls == Tasks \X (1..MaxCalls)

VARIABLES
  envs,         \* s.envs
  clusters,     \* s.clusters: the type of each cluster that ever connected
  online,       \* the clusters with a connection in h.tunnels
  op, user,     \* op[r], user[r]: what r asks for, and who asks
  stage,        \* stage[r]: "idle", "busy" or "answered"
  answer,       \* answer[r]: what it was told
  asked,        \* asked[r]: the environments r is about
  at,           \* at[t]: where the work of t is
  env, type,    \* env[t], type[t]: its copies of the environment and the type
  step,         \* step[t]: the number of its call to the orchestrator
  call, executed,   \* the tunnel's view of each call (RemoteCall)
  verdict,      \* verdict[c]: what the orchestrator made of it
  target,       \* target[c]: where it was sent
  audit         \* the requests whose exec was given to the audit log

worldVars == <<envs, clusters, online>>
requestVars == <<op, user, stage, asked>>
remoteVars == <<call, executed, verdict, target>>
vars == <<worldVars, requestVars, answer, at, env, type, step, remoteVars, audit>>

RC == INSTANCE RemoteCall WITH Requests <- Calls

-----------------------------------------------------------------------------
(* The calls a provider makes for each operation.  An answer may be what   *)
(* was asked for, the same with a body that cannot be decoded, or another  *)
(* status; or the call fails.                                              *)

Outcomes == {"good", "garbled", "refused", "failed"}

(* A call has an effect on the orchestrator, outcomes after which the      *)
(* provider goes on (and succeeds if it was the last call), and outcomes   *)
(* with which it succeeds at once.  Any other is an error.                 *)
Going(effect, goes) == [effect |-> effect, goes |-> goes, ends |-> {}]
Decoded(effect)   == Going(effect, {"good"})
Passed(effect)    == Going(effect, {"good", "garbled"})
Unchecked(effect) == Going(effect, {"good", "garbled", "refused"})
Optional(effect)  == Going(effect, Outcomes)
Tried(effect) == [effect |-> effect, goes |-> {"refused"}, ends |-> {"good", "garbled"}]

DockerUnchecked ==      \* faulty: stop that does not look at the status
  [list    |-> <<Decoded("read"), Optional("read")>>,
   inspect |-> <<Decoded("read")>>,
   logs    |-> <<Passed("read")>>,
   exec    |-> <<Decoded("prepare"), Unchecked("run"), Optional("read")>>,
   stop    |-> <<Unchecked("stop")>>,
   restart |-> <<Passed("restart")>>,
   delete  |-> <<Passed("delete")>>]

Docker == [list    |-> <<Decoded("read"), Optional("read")>>,
           inspect |-> <<Decoded("read")>>,
           logs    |-> <<Passed("read")>>,
           exec    |-> <<Decoded("prepare"), Unchecked("run"), Optional("read")>>,
           stop    |-> <<Passed("stop")>>,
           restart |-> <<Passed("restart")>>,
           delete  |-> <<Passed("delete")>>]

Kube == [list    |-> <<Decoded("read")>>,
         inspect |-> <<Decoded("read")>>,
         logs    |-> <<Passed("read")>>,
         exec    |-> <<Unchecked("run")>>,
         stop    |-> <<Passed("delete")>>,
         restart |-> <<Passed("delete")>>,
         delete  |-> <<Passed("delete")>>]

NomadHopeful ==         \* faulty: a job's deletion that is not waited for
  [list    |-> <<Decoded("read")>>,
   inspect |-> <<Decoded("read")>>,
   logs    |-> <<Tried("read"), Passed("read")>>,
   exec    |-> <<Unchecked("run")>>,
   stop    |-> <<Decoded("read"), Passed("stop")>>,
   restart |-> <<Passed("restart")>>,
   delete  |-> <<Decoded("read"), Optional("delete")>>]

Nomad == [list    |-> <<Decoded("read")>>,
          inspect |-> <<Decoded("read")>>,
          logs    |-> <<Tried("read"), Passed("read")>>,
          exec    |-> <<Unchecked("run")>>,
          stop    |-> <<Decoded("read"), Passed("stop")>>,
          restart |-> <<Passed("restart")>>,
          delete  |-> <<Decoded("read"), Passed("delete")>>]

Provider == [docker |-> Docker, kube |-> Kube, nomad |-> Nomad]

CallsOf(t) == Provider[type[t]][op[t[1]]]
Current(t) == <<t, step[t]>>

(* The namespace in a call's path or query: Kubernetes needs one, Nomad    *)
(* takes none for its default.                                             *)
KubeNs(ns) == IF ns = Empty THEN Default ELSE ns
NomadNs(ns) == IF ns \in {Empty, Default} THEN None ELSE ns

(* Docker has none, and Nomad's restart leaves it out.                     *)
NamespaceOf(t) ==
  CASE type[t] = "kube" -> KubeNs(env[t].ns)
    [] type[t] = "nomad" /\ op[t[1]] # "restart" -> NomadNs(env[t].ns)
    [] OTHER -> None

-----------------------------------------------------------------------------
Stores == {f \in [EnvIds -> Envs \cup {None}] :
             \A id \in EnvIds : f[id] # None => f[id].id = id}

TypeOK ==
  /\ envs \in Stores
  /\ clusters \in [Clusters -> Types \cup {None}]
  /\ online \subseteq Clusters
  /\ op \in [Requests -> Ops \cup {None}]
  /\ user \in [Requests -> Users \cup {None}]
  /\ stage \in [Requests -> {"idle", "busy", "answered"}]
  /\ answer \in [Requests -> {"none", "ok", "failed", "denied", "notFound", "lost"}]
  /\ asked \in [Requests -> SUBSET EnvIds]
  /\ at \in [Tasks -> {"none", "online", "provider", "call", "wait", "ok", "error"}]
  /\ env \in [Tasks -> Envs \cup {None}]
  /\ type \in [Tasks -> Types \cup {None}]
  /\ step \in [Tasks -> 1..MaxCalls]
  /\ RC!CallTypeOK
  /\ verdict \in [Calls -> {"none", "accepted", "refused"}]
  /\ target \in [Calls -> Places \cup {None}]
  /\ audit \subseteq Requests
  /\ \A t \in Tasks :
       /\ at[t] # "none" => op[t[1]] \in Ops /\ env[t] \in Envs
       /\ at[t] \in {"call", "wait"} => type[t] \in Types /\ step[t] <= Len(CallsOf(t))

Init ==
  /\ envs \in Stores
  /\ clusters = [c \in Clusters |-> None] /\ online = {}
  /\ op = [r \in Requests |-> None] /\ user = [r \in Requests |-> None]
  /\ stage = [r \in Requests |-> "idle"]
  /\ answer = [r \in Requests |-> "none"]
  /\ asked = [r \in Requests |-> {}]
  /\ at = [t \in Tasks |-> "none"]
  /\ env = [t \in Tasks |-> None] /\ type = [t \in Tasks |-> None]
  /\ step = [t \in Tasks |-> 1]
  /\ RC!CallInit
  /\ verdict = [c \in Calls |-> "none"] /\ target = [c \in Calls |-> None]
  /\ audit = {}

-----------------------------------------------------------------------------
(* Faulty variants, to test the properties below.                          *)

(* providerFor that looks the environment up once more.                    *)
ProviderForAgain(t) ==
  /\ at[t] = "provider" /\ envs[t[2]] # None
  /\ clusters[envs[t[2]].cluster] # None
  /\ env' = [env EXCEPT ![t] = envs[t[2]]]
  /\ type' = [type EXCEPT ![t] = clusters[envs[t[2]].cluster]]
  /\ at' = [at EXCEPT ![t] = "call"]
  /\ audit' = IF op[t[1]] = "exec" THEN audit \cup {t[1]} ELSE audit
  /\ UNCHANGED <<worldVars, requestVars, answer, step, remoteVars>>

(* A handler that does not ask whether the cluster is there.               *)
ProviderForUnchecked(t) ==
  /\ at[t] = "provider"
  /\ type' = [type EXCEPT ![t] = clusters[env[t].cluster]]
  /\ at' = [at EXCEPT ![t] = "call"]
  /\ audit' = IF op[t[1]] = "exec" THEN audit \cup {t[1]} ELSE audit
  /\ UNCHANGED <<worldVars, requestVars, answer, env, step, remoteVars>>

(* execContainer that writes its entry once it has the result.             *)
ProviderForUnaudited(t) ==
  /\ at[t] = "provider" /\ clusters[env[t].cluster] # None
  /\ type' = [type EXCEPT ![t] = clusters[env[t].cluster]]
  /\ at' = [at EXCEPT ![t] = "call"]
  /\ UNCHANGED <<worldVars, requestVars, answer, env, step, remoteVars, audit>>

(* A listing's goroutine that returns without a word when its agent is     *)
(* offline.                                                                *)
OfflineSilent(t) ==
  /\ at[t] = "online" /\ env[t].cluster \notin online
  /\ at' = [at EXCEPT ![t] = "none"]
  /\ UNCHANGED <<worldVars, requestVars, answer, env, type, step, remoteVars, audit>>

(* listContainers that answers as soon as one environment has reported.    *)
ReplyFirst(r) ==
  /\ stage[r] = "busy"
  /\ \E e \in asked[r] : at[<<r, e>>] \in {"ok", "error"}
  /\ stage' = [stage EXCEPT ![r] = "answered"]
  /\ answer' = [answer EXCEPT ![r] = IF \E e \in asked[r] : at[<<r, e>>] = "ok"
                                       THEN "ok" ELSE "failed"]
  /\ UNCHANGED <<worldVars, op, user, asked, at, env, type, step, remoteVars, audit>>

(* A call that failed is tried again.                                      *)
ReceiveFailsRetries(t) ==
  /\ at[t] = "wait"
  /\ RC!Fail(Current(t))
  /\ at' = [at EXCEPT ![t] = "call"]
  /\ UNCHANGED <<worldVars, requestVars, answer, env, type, step, verdict, target, audit>>

-----------------------------------------------------------------------------
(* What changes around the requests.                                       *)

RequestsUnchanged ==
  UNCHANGED <<requestVars, answer, at, env, type, step, remoteVars, audit>>

PutEnvironment(e) == /\ envs' = [envs EXCEPT ![e.id] = e]
                     /\ UNCHANGED <<clusters, online>> /\ RequestsUnchanged
RemoveEnvironment(id) == /\ envs' = [envs EXCEPT ![id] = None]
                         /\ UNCHANGED <<clusters, online>> /\ RequestsUnchanged

(* An agent is in h.tunnels before its cluster is in s.clusters.           *)
Connects(c) == /\ online' = online \cup {c}
               /\ UNCHANGED <<envs, clusters>> /\ RequestsUnchanged
ClusterJoined(j) == /\ clusters' = [clusters EXCEPT ![j[1]] = j[2]]
                    /\ UNCHANGED <<envs, online>> /\ RequestsUnchanged
Disconnects(c) == /\ online' = online \ {c}
                  /\ UNCHANGED <<envs, clusters>> /\ RequestsUnchanged

(* The server stops and starts anew: every request is lost, the calls it   *)
(* made may still be executed.                                             *)
Restart ==
  /\ envs' \in Stores
  /\ clusters' = [c \in Clusters |-> None] /\ online' = {}
  /\ stage' = [r \in Requests |-> IF stage[r] = "busy" THEN "answered" ELSE stage[r]]
  /\ answer' = [r \in Requests |-> IF stage[r] = "busy" THEN "lost" ELSE answer[r]]
  /\ at' = [t \in Tasks |-> IF stage[t[1]] = "busy" THEN "none" ELSE at[t]]
  /\ call' = [c \in Calls |-> IF call[c] = "open" THEN "failed" ELSE call[c]]
  /\ UNCHANGED <<op, user, asked, env, type, step, executed, verdict, target, audit>>

-----------------------------------------------------------------------------
(* The handlers.                                                           *)

Asks(r, o, x) == /\ stage[r] = "idle"
                 /\ op' = [op EXCEPT ![r] = o]
                 /\ user' = [user EXCEPT ![r] = UserOf(x, GroupsOf, PatternsOf)]

Answers(r, what) == /\ stage' = [stage EXCEPT ![r] = "answered"]
                    /\ answer' = [answer EXCEPT ![r] = what]

Begins(r, ids) ==
  /\ stage' = [stage EXCEPT ![r] = "busy"]
  /\ asked' = [asked EXCEPT ![r] = ids]
  /\ env' = [t \in Tasks |-> IF t[1] = r /\ t[2] \in ids THEN envs[t[2]] ELSE env[t]]

MayUse(x, e) == CanAccessEnvironment(UserOf(x, GroupsOf, PatternsOf), e.name)

(* getEnv and the checks of a request for one environment: 404, or 403.    *)
Refuse(r, o, x, id) ==
  /\ Asks(r, o, x)
  /\ \/ envs[id] = None /\ (o = "delete" => x.admin) /\ Answers(r, "notFound")
     \/ o = "delete" /\ ~x.admin /\ Answers(r, "denied")
     \/ envs[id] # None /\ ~MayUse(x, envs[id]) /\ Answers(r, "denied")
  /\ UNCHANGED <<worldVars, asked, at, env, type, step, remoteVars, audit>>

Accept(r, o, x, id) ==
  /\ Asks(r, o, x)
  /\ o = "delete" => x.admin
  /\ envs[id] # None /\ MayUse(x, envs[id])
  /\ Begins(r, {id})
  /\ at' = [at EXCEPT ![<<r, id>>] = "provider"]
  /\ UNCHANGED <<worldVars, answer, type, step, remoteVars, audit>>

(* listContainers: what the user may see of what is asked for; it starts a *)
(* goroutine for each.                                                     *)
List(r, x, filter) ==
  /\ Asks(r, "list", x)
  /\ LET ids == {id \in EnvIds : /\ filter \in {All, id}
                                 /\ envs[id] # None /\ MayUse(x, envs[id])}
     IN /\ Begins(r, ids)
        /\ at' = [t \in Tasks |-> IF t[1] = r /\ t[2] \in ids THEN "online" ELSE at[t]]
  /\ UNCHANGED <<worldVars, answer, type, step, remoteVars, audit>>

Listing(t, there, next) ==
  /\ at[t] = "online" /\ (env[t].cluster \in online <=> there)
  /\ at' = [at EXCEPT ![t] = next]
  /\ UNCHANGED <<worldVars, requestVars, answer, env, type, step, remoteVars, audit>>

Online(t)  == Listing(t, TRUE, "provider")
Offline(t) == Listing(t, FALSE, "error")

(* providerFor; execContainer then logs the command before it runs it.     *)
ProviderFor(t) ==
  /\ at[t] = "provider" /\ clusters[env[t].cluster] # None
  /\ type' = [type EXCEPT ![t] = clusters[env[t].cluster]]
  /\ at' = [at EXCEPT ![t] = "call"]
  /\ audit' = IF op[t[1]] = "exec" THEN audit \cup {t[1]} ELSE audit
  /\ UNCHANGED <<worldVars, requestVars, answer, env, step, remoteVars>>

NoProvider(t) ==
  /\ at[t] = "provider" /\ clusters[env[t].cluster] = None
  /\ at' = [at EXCEPT ![t] = "error"]
  /\ UNCHANGED <<worldVars, requestVars, answer, env, type, step, remoteVars, audit>>

(* What the provider does with the outcome of a call.                      *)
Continue(t, outcome) ==
  LET c == CallsOf(t)[step[t]]
      last == step[t] = Len(CallsOf(t))
  IN /\ at' = [at EXCEPT ![t] =
                  IF outcome \in c.ends \/ (outcome \in c.goes /\ last) THEN "ok"
                  ELSE IF outcome \in c.goes THEN "call" ELSE "error"]
     /\ step' = [step EXCEPT ![t] = IF outcome \in c.goes /\ ~last THEN @ + 1 ELSE @]

(* The provider's do, through tunnelTransport.                             *)
Send(t) ==
  /\ at[t] = "call" /\ env[t].cluster \in online
  /\ RC!Open(Current(t))
  /\ target' = [target EXCEPT ![Current(t)] =
                   [cluster |-> env[t].cluster, type |-> type[t], ns |-> NamespaceOf(t)]]
  /\ at' = [at EXCEPT ![t] = "wait"]
  /\ UNCHANGED <<worldVars, requestVars, answer, env, type, step, verdict, audit>>

SendFails(t) ==
  /\ at[t] = "call" /\ env[t].cluster \notin online
  /\ RC!Fail(Current(t))
  /\ Continue(t, "failed")
  /\ UNCHANGED <<worldVars, requestVars, answer, env, type, verdict, target, audit>>

Receive(t) ==
  /\ at[t] = "wait"
  /\ RC!Answer(Current(t))
  /\ \E outcome \in IF verdict[Current(t)] = "accepted" THEN {"good", "garbled"}
                                                         ELSE {"refused"} :
       Continue(t, outcome)
  /\ UNCHANGED <<worldVars, requestVars, answer, env, type, verdict, target, audit>>

ReceiveFails(t) ==
  /\ at[t] = "wait"
  /\ RC!Fail(Current(t))
  /\ Continue(t, "failed")
  /\ UNCHANGED <<worldVars, requestVars, answer, env, type, verdict, target, audit>>

(* All that was asked has been answered; the answer to a listing is 200    *)
(* whatever it lists as errors.                                            *)
Reply(r) ==
  /\ stage[r] = "busy"
  /\ \A e \in asked[r] : at[<<r, e>>] \in {"ok", "error"}
  /\ Answers(r, IF op[r] = "list" \/ \E e \in asked[r] : at[<<r, e>>] = "ok"
                  THEN "ok" ELSE "failed")
  /\ UNCHANGED <<worldVars, op, user, asked, at, env, type, step, remoteVars, audit>>

(* The agent hands a request to the orchestrator, which does as told and   *)
(* says so, or refuses: there is no such thing, or not of that kind.       *)
Orchestrator(c) ==
  /\ RC!Execute(c)
  /\ target[c] # None
  /\ \E v \in {"accepted", "refused"} : verdict' = [verdict EXCEPT ![c] = v]
  /\ UNCHANGED <<worldVars, requestVars, answer, at, env, type, step, target, audit>>

-----------------------------------------------------------------------------
World == \/ \E e \in Envs : PutEnvironment(e)
         \/ \E id \in EnvIds : RemoveEnvironment(id)
         \/ \E c \in Clusters : Connects(c) \/ Disconnects(c)
         \/ \E j \in Joins : ClusterJoined(j)
         \/ Restart
         \/ \E c \in Calls : Orchestrator(c)
Arrive(r) == \E x \in Claims :
  \/ \E o \in Ops \ {"list"}, id \in EnvIds : Refuse(r, o, x, id) \/ Accept(r, o, x, id)
  \/ \E filter \in EnvIds \cup {All} : List(r, x, filter)
Work(t) == \/ Online(t) \/ Offline(t) \/ ProviderFor(t) \/ NoProvider(t)
           \/ Send(t) \/ SendFails(t) \/ Receive(t) \/ ReceiveFails(t)

Next == \/ World
        \/ \E r \in Requests : Arrive(r) \/ Reply(r)
        \/ \E t \in Tasks : Work(t)

Spec == Init /\ [][Next]_vars

(* Every goroutine goes on, and a call through the tunnel returns: it has  *)
(* a timer (Tunnel, BufferedCallsReturn).                                  *)
Fairness == /\ \A r \in Requests : WF_vars(Reply(r))
            /\ \A t \in Tasks : WF_vars(Work(t))
FairSpec == Spec /\ Fairness

-----------------------------------------------------------------------------
(* What an environment stands for in its cluster, whatever type that has   *)
(* by now: with "" for its namespace it is the default one, and a Docker   *)
(* has none.  Nomad takes a call without a namespace to be about the       *)
(* default one, but finds the allocation of a restart by its id.           *)
Concerns(place, o, e) ==
  LET ns == IF e.ns = Empty THEN Default ELSE e.ns
  IN /\ place.cluster = e.cluster
     /\ place.type = "docker" => place.ns = None
     /\ place.type = "kube" => place.ns = ns
     /\ place.type = "nomad" /\ o # "restart" =>
          IF place.ns = None THEN ns = Default ELSE place.ns = ns

(* Whatever happens to s.envs while a request is served, and whatever type *)
(* its cluster comes back with, each of its calls is sent to the cluster   *)
(* of an environment by the id asked for that its user may use, and names  *)
(* the namespace of that very environment: handlers keep the *Environment  *)
(* that they checked (handlers.go:448-460, kube.go:30-35, nomad.go:31-37). *)
(* What the container's id selects there is up to the orchestrator.        *)
CallsStayInGrant ==
  \A c \in Calls : target[c] # None =>
    \E e \in Envs : /\ e.id = c[1][2]
                    /\ CanAccessEnvironment(user[c[1][1]], e.name)
                    /\ Concerns(target[c], op[c[1][1]], e)

(* A command of execContainer runs only after its entry was given to the   *)
(* audit log, even if it runs after the call has failed or the server has  *)
(* restarted (handlers.go:567-573).  The log drops entries when it is      *)
(* disabled or cannot be written (audit.go:85, 102).                       *)
AuditedBeforeRun ==
  \A c \in Calls : executed[c] = 1 /\ op[c[1][1]] = "exec" => c[1][1] \in audit

(* A request other than exec succeeds only if the orchestrator accepted    *)
(* it: for stop, restart and delete the very call that does it, whichever  *)
(* calls came before (nomad.go:199-220, docker.go:226-240).                *)
Changes == {"stop", "restart", "delete"}
OkMeansAccepted ==
  \A t \in Tasks : at[t] = "ok" /\ op[t[1]] # "exec" =>
    \E i \in 1..Len(CallsOf(t)) :
      /\ verdict[<<t, i>>] = "accepted"
      /\ op[t[1]] \in Changes => CallsOf(t)[i].effect \in Changes

(* A listing's answer accounts for every environment it is about, with its *)
(* containers or its error, and gives containers only from an orchestrator *)
(* that listed them (handlers.go:414-423).                                 *)
ListingComplete ==
  \A r \in Requests : op[r] = "list" /\ answer[r] = "ok" =>
    \A e \in asked[r] : \/ at[<<r, e>>] = "error"
                        \/ at[<<r, e>>] = "ok" /\ executed[<<<<r, e>>, 1>>] = 1

(* Once a request has succeeded nothing of it is executed any more: what   *)
(* the provider gave up on, if anything, only reads (docker.go:211-221).   *)
OkIsFinal ==
  [][\A c \in Calls : answer[c[1][1]] = "ok" /\ at[c[1]] = "ok" =>
       \/ executed'[c] = executed[c]
       \/ CallsOf(c[1])[c[2]].effect = "read"]_vars

(* A goroutine has one call under way, and only while it waits for it; it  *)
(* makes none again that failed, timed out or may still be executed: one   *)
(* of stop, restart or delete would be done twice (nomad.go:199-240).      *)
CallsInTurn ==
  \A t \in Tasks :
    /\ \A i \in 1..MaxCalls : call[<<t, i>>] = "open" <=> at[t] = "wait" /\ i = step[t]
    /\ at[t] = "call" => call[Current(t)] = "idle"

(* Every request is answered, whatever becomes of environments, clusters   *)
(* and agents: each goroutine of a listing reports exactly once            *)
(* (handlers.go:398-412).                                                  *)
RequestsAnswered == \A r \in Requests : stage[r] = "busy" ~> stage[r] = "answered"

(* The patterns of the configuration that do not mean what they say: one   *)
(* that grants a name it does not describe, however many stars it has, or  *)
(* one with at most one star that refuses a name it does.  Names shorter   *)
(* than the text around a star, of which prefix and suffix may overlap,    *)
(* are left out.                                                           *)
Patterns == UNION {PatternsOf[g] : g \in DOMAIN PatternsOf}
Misread == {p \in Patterns : \E name \in Names :
              IF matchPattern(p, name)
                THEN ~Glob(p, name) /\ Len(name) + 1 >= Len(p)
                ELSE Glob(p, name) /\ \A i, j \in Stars(p) : i = j}

(* A user is granted what the groups' patterns say (auth.go:172-190).      *)
AccessFromGroups ==
  \A r \in Requests : user[r] # None => user[r].environments \cap Misread = {}
=============================================================================
