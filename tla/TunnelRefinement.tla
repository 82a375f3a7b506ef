-------------------------- MODULE TunnelRefinement --------------------------
(***************************************************************************)
(* Tunnel implements RemoteCall, for every set of requests: a request is   *)
(* executed at most once, never before its call, and a call succeeds only  *)
(* if its request was executed.  Messages may be lost and calls may time   *)
(* out at any moment; what carries the argument is that a request is put   *)
(* on the wire at most once, that reading it starts its only goroutine,    *)
(* and that every message which is not an error is evidence of execution.  *)
(***************************************************************************)
EXTENDS TunnelProofs

Unsent == {"idle", "got", "registered"}

NoRequest(r) == \A i \in 1..Len(toAgent) : toAgent[i].kind = "request" => toAgent[i].id # r

(* A request is in flight at most once, before its goroutine exists.       *)
SentOnce ==
  /\ \A r \in Requests : call[r] \in Unsent => handler[r] = "none" /\ NoRequest(r)
  /\ \A i, j \in 1..Len(toAgent) :
       toAgent[i].kind = "request" /\ toAgent[j].kind = "request"
         /\ toAgent[i].id = toAgent[j].id => i = j
  /\ \A i \in 1..Len(toAgent) :
       toAgent[i].kind = "request" => handler[toAgent[i].id] = "none"

(* What the place of a goroutine says about execution.                     *)
Did == \A r \in Requests :
  /\ executed[r] \in {0, 1}
  /\ handler[r] \in {"none", "start", "do"} => executed[r] = 0
  /\ handler[r] \in {"reply", "head", "body", "chunk", "done"} => executed[r] = 1

(* What a message that is not an error says about it.                      *)
Evidence ==
  /\ \A i \in 1..Len(toHub) : toHub[i].kind # "error" => executed[toHub[i].id] = 1
  /\ loop = "send" /\ cur.kind # "error" => executed[cur.id] = 1
  /\ \A r \in Requests : \A i \in 1..Len(chan[r]) :
       chan[r][i].kind # "error" => executed[r] = 1

ExecInv == SentOnce /\ Did /\ Evidence

LEMMA InitExec == Init => ExecInv
<1> SUFFICES ASSUME Init PROVE ExecInv
  OBVIOUS
<1>1. \A r \in Requests : chan[r] = <<>> /\ Len(chan[r]) = 0
  BY EmptySeq DEF Init
<1>2. toHub = <<>> /\ Len(toHub) = 0 /\ toAgent = <<>> /\ Len(toAgent) = 0
  BY EmptySeq DEF Init
<1> QED
  BY <1>1, <1>2 DEF Init, ExecInv, SentOnce, NoRequest, Did, Evidence

-----------------------------------------------------------------------------
(* SentOnce.                                                               *)

LEMMA ToAgentIds ==
  ASSUME TypeOK, NEW i \in 1..Len(toAgent)
  PROVE  toAgent[i] \in ToAgentMessages /\ toAgent[i].id \in Requests
<1>1. toAgent \in Seq(ToAgentMessages)
  BY DEF TypeOK
<1>2. toAgent[i] \in ToAgentMessages
  BY <1>1, ElementOfSeq
<1> QED
  BY <1>2 DEF ToAgentMessages

LEMMA SentOnceKept ==
  ASSUME TypeOK, SentOnce, UNCHANGED toAgent,
         \A q \in Requests : call'[q] \in Unsent => call[q] \in Unsent,
         \A q \in Requests : handler[q] = "none" => handler'[q] = "none"
  PROVE  SentOnce'
<1>1. \A i \in 1..Len(toAgent) : toAgent[i].id \in Requests
  BY ToAgentIds
<1> QED
  BY <1>1 DEF SentOnce, NoRequest

LEMMA SentOnceShorter ==
  ASSUME TypeOK, SentOnce, UNCHANGED <<call, handler>>,
         NEW n \in 0..Len(toAgent), toAgent' = Prefix(toAgent, n)
  PROVE  SentOnce'
<1>1. /\ Len(toAgent) \in Nat /\ Len(toAgent') = n
      /\ \A i \in 1..n : toAgent'[i] = toAgent[i]
  BY PrefixElements, LenProperties DEF TypeOK
<1> QED
  BY <1>1 DEF SentOnce, NoRequest

LEMMA SentOnceSent ==
  ASSUME TypeOK, SentOnce, NEW m \in ToAgentMessages,
         toAgent' \in {toAgent, Append(toAgent, m)},
         UNCHANGED handler,
         \A q \in Requests : call'[q] \in Unsent => call[q] \in Unsent,
         m.kind = "request" => call[m.id] \in Unsent /\ call'[m.id] \notin Unsent
  PROVE  SentOnce'
<1>1. CASE toAgent' = toAgent
  BY <1>1, SentOnceKept
<1>2. CASE toAgent' = Append(toAgent, m)
  <2>1. toAgent \in Seq(ToAgentMessages) /\ m.id \in Requests
    BY DEF TypeOK, ToAgentMessages
  <2>2. /\ Len(toAgent) \in Nat /\ Len(toAgent') = Len(toAgent) + 1
        /\ \A i \in 1..Len(toAgent) : toAgent'[i] = toAgent[i]
        /\ toAgent'[Len(toAgent) + 1] = m
    BY <1>2, <2>1, AppendElements, LenProperties
  <2>3. m.kind = "request" => handler[m.id] = "none" /\ NoRequest(m.id)
    BY <2>1 DEF SentOnce
  <2>4. \A r \in Requests : call'[r] \in Unsent => handler'[r] = "none" /\ NoRequest(r)'
    BY <2>1, <2>2 DEF SentOnce, NoRequest
  <2>5. \A i, j \in 1..Len(toAgent') :
          toAgent'[i].kind = "request" /\ toAgent'[j].kind = "request"
            /\ toAgent'[i].id = toAgent'[j].id => i = j
    BY <2>2, <2>3 DEF SentOnce, NoRequest
  <2>6. \A i \in 1..Len(toAgent') :
          toAgent'[i].kind = "request" => handler'[toAgent'[i].id] = "none"
    BY <2>2, <2>3 DEF SentOnce
  <2> QED
    BY <2>4, <2>5, <2>6 DEF SentOnce
<1> QED
  BY <1>1, <1>2

LEMMA SentOnceRead ==
  ASSUME TypeOK, SentOnce, AgentReads
  PROVE  SentOnce' /\ (Head(toAgent).kind = "request" => handler[Head(toAgent).id] = "none")
<1> DEFINE m == Head(toAgent)
<1>1. /\ m \in ToAgentMessages /\ m = toAgent[1] /\ Len(toAgent) \in Nat \ {0}
      /\ Len(toAgent') = Len(toAgent) - 1
      /\ \A i \in 1..Len(toAgent') : toAgent'[i] = toAgent[i + 1]
  BY TailElements DEF AgentReads, TypeOK
<1>2. m.id \in Requests /\ UNCHANGED call
  BY <1>1 DEF AgentReads, ToAgentMessages, callVars
<1>3. m.kind = "request" => handler[m.id] = "none" /\ call[m.id] \notin Unsent
  BY <1>1, <1>2 DEF SentOnce, NoRequest
<1>4. \A q \in Requests \ {m.id} : handler'[q] = handler[q]
  BY DEF AgentReads, TypeOK
<1>5. m.kind # "request" => UNCHANGED handler
  BY DEF AgentReads
<1> HIDE DEF m
<1>6. \A r \in Requests : call'[r] \in Unsent => handler'[r] = "none" /\ NoRequest(r)'
  BY <1>1, <1>2, <1>3, <1>4, <1>5 DEF SentOnce, NoRequest
<1>7. \A i, j \in 1..Len(toAgent') :
        toAgent'[i].kind = "request" /\ toAgent'[j].kind = "request"
          /\ toAgent'[i].id = toAgent'[j].id => i = j
  <2> SUFFICES ASSUME NEW i \in 1..Len(toAgent'), NEW j \in 1..Len(toAgent'),
                      toAgent'[i].kind = "request", toAgent'[j].kind = "request",
                      toAgent'[i].id = toAgent'[j].id
               PROVE  i = j
    OBVIOUS
  <2>1. i + 1 \in 1..Len(toAgent) /\ j + 1 \in 1..Len(toAgent)
    BY <1>1
  <2>2. i + 1 = j + 1
    BY <1>1, <2>1 DEF SentOnce
  <2> QED
    BY <1>1, <2>2
<1>8. ASSUME NEW i \in 1..Len(toAgent'), toAgent'[i].kind = "request"
      PROVE  handler'[toAgent'[i].id] = "none"
  <2>1. i + 1 \in 1..Len(toAgent) /\ toAgent'[i] = toAgent[i + 1] /\ i + 1 # 1
    BY <1>1
  <2>2. handler[toAgent[i + 1].id] = "none"
    BY <1>8, <2>1 DEF SentOnce
  <2>3. m.kind = "request" => toAgent[i + 1].id # m.id
    BY <1>1, <1>8, <2>1 DEF SentOnce
  <2>4. toAgent[i + 1].id \in Requests
    BY <2>1, ToAgentIds
  <2> QED
    BY <1>4, <1>5, <2>1, <2>2, <2>3, <2>4
<1> QED
  BY <1>3, <1>6, <1>7, <1>8 DEF SentOnce, m

-----------------------------------------------------------------------------
(* Did.                                                                    *)

(* A goroutine moves on without having the request executed.               *)
LEMMA DidMoves ==
  ASSUME Did, UNCHANGED executed, NEW r \in Requests,
         \A q \in Requests \ {r} : handler'[q] = handler[q],
         handler'[r] \in {"none", "start", "do"} => handler[r] \in {"none", "start", "do"},
         handler'[r] \in {"reply", "head", "body", "chunk", "done"} =>
           handler[r] \in {"reply", "head", "body", "chunk", "done"}
  PROVE  Did'
BY DEF Did

LEMMA DidDo ==
  ASSUME TypeOK, Did, NEW r \in Requests, Do(r)
  PROVE  /\ Did'
         /\ executed[r] = 0 /\ executed'[r] \in {0, 1}
         /\ executed' = executed \/ executed' = [executed EXCEPT ![r] = 1]
         /\ \A q \in Requests \ {r} : executed'[q] = executed[q]
<1>1. PICK did \in BOOLEAN, ok \in BOOLEAN :
        /\ ok => did
        /\ executed' = [executed EXCEPT ![r] = IF did THEN @ + 1 ELSE @]
        /\ handler' = [handler EXCEPT ![r] =
             IF ~ok THEN "error" ELSE IF r \in Streams THEN "head" ELSE "reply"]
  BY DEF Do, HandlerTo
<1>2. handler[r] = "do" /\ executed[r] = 0
  BY DEF Do, Did
<1>3. \A q \in Requests \ {r} : executed'[q] = executed[q] /\ handler'[q] = handler[q]
  BY <1>1 DEF TypeOK
<1>4. /\ executed'[r] = IF did THEN 1 ELSE 0
      /\ handler'[r] = IF ~ok THEN "error" ELSE IF r \in Streams THEN "head" ELSE "reply"
  BY <1>1, <1>2 DEF TypeOK
<1>5. executed' = executed \/ executed' = [executed EXCEPT ![r] = 1]
  <2>1. CASE did
    <3>1. executed[r] + 1 = 1
      BY <1>2
    <3> QED
      BY <1>1, <2>1, <3>1
  <2>2. CASE ~did
    BY <1>1, <2>2 DEF TypeOK
  <2> QED
    BY <2>1, <2>2
<1> QED
  BY <1>1, <1>2, <1>3, <1>4, <1>5 DEF Did

LEMMA DidRead ==
  ASSUME TypeOK, Did, AgentReads,
         Head(toAgent).kind = "request" => handler[Head(toAgent).id] = "none"
  PROVE  Did'
<1> DEFINE m == Head(toAgent)
<1>1. m \in ToAgentMessages
  BY TailElements DEF AgentReads, TypeOK
<1>2. m.id \in Requests
  BY <1>1 DEF ToAgentMessages
<1>3. UNCHANGED executed /\ \A q \in Requests \ {m.id} : handler'[q] = handler[q]
  BY DEF AgentReads, TypeOK
<1>4. CASE m.kind = "request"
  <2>1. handler'[m.id] \in {"start", "do"}
    BY <1>2, <1>4 DEF AgentReads, TypeOK
  <2> QED
    BY <1>2, <1>3, <1>4, <2>1, DidMoves
<1>5. CASE m.kind # "request"
  <2>1. UNCHANGED handler
    BY <1>5 DEF AgentReads
  <2> QED
    BY <1>3, <2>1 DEF Did
<1> QED
  BY <1>4, <1>5

-----------------------------------------------------------------------------
(* Evidence.                                                               *)

ExecutedKept == \A q \in Requests : executed[q] = 1 => executed'[q] = 1

LEMMA EvidenceKept ==
  ASSUME TypeOK, Evidence, ExecutedKept, UNCHANGED <<toHub, loop, cur, chan>>
  PROVE  Evidence'
<1>1. \A i \in 1..Len(toHub) : toHub[i].id \in Requests
  <2>1. toHub \in Seq(Responses)
    BY DEF TypeOK
  <2>2. \A i \in 1..Len(toHub) : toHub[i] \in Responses
    BY <2>1, ElementOfSeq
  <2> QED
    BY <2>2 DEF Responses
<1>2. cur.id \in Requests
  BY DEF TypeOK, Responses
<1> QED
  BY <1>1, <1>2 DEF Evidence, ExecutedKept

LEMMA EvidenceSent ==
  ASSUME TypeOK, Evidence, NEW m \in Responses, AgentSend(m) \/ AgentSendFails,
         m.kind # "error" => executed[m.id] = 1,
         UNCHANGED <<hubVars, executed>>
  PROVE  Evidence'
<1>1. UNCHANGED <<loop, cur, chan>>
  BY DEF hubVars
<1>2. CASE UNCHANGED toHub
  BY <1>1, <1>2 DEF Evidence
<1>3. CASE toHub' = Append(toHub, m)
  <2>1. /\ Len(toHub) \in Nat /\ Len(toHub') = Len(toHub) + 1
        /\ \A i \in 1..Len(toHub) : toHub'[i] = toHub[i]
        /\ toHub'[Len(toHub) + 1] = m
    BY <1>3, AppendElements, LenProperties DEF TypeOK
  <2> QED
    BY <1>1, <2>1 DEF Evidence
<1> QED
  BY <1>2, <1>3 DEF AgentSend, AgentSendFails, wireVars

LEMMA EvidenceShorter ==
  ASSUME TypeOK, Evidence, NEW n \in 0..Len(toHub), toHub' = Prefix(toHub, n),
         UNCHANGED <<cur, chan, executed>>, loop' = loop \/ loop' # "send"
  PROVE  Evidence'
<1>1. /\ Len(toHub) \in Nat /\ Len(toHub') = n
      /\ \A i \in 1..n : toHub'[i] = toHub[i]
  BY PrefixElements, LenProperties DEF TypeOK
<1> QED
  BY <1>1 DEF Evidence

LEMMA EvidenceReceived ==
  ASSUME TypeOK, Evidence, NEW r \in Requests,
         chan[r] # <<>>, chan' = [chan EXCEPT ![r] = Tail(@)],
         UNCHANGED <<toHub, loop, cur, executed>>
  PROVE  Evidence' /\ (Head(chan[r]).kind # "error" => executed[r] = 1)
<1>1. \A q \in Requests \ {r} : chan'[q] = chan[q]
  BY DEF TypeOK
<1>2. /\ chan'[r] = Tail(chan[r]) /\ Head(chan[r]) = chan[r][1]
      /\ Len(chan[r]) \in Nat \ {0}
      /\ Len(chan'[r]) = Len(chan[r]) - 1
      /\ \A i \in 1..Len(chan'[r]) : chan'[r][i] = chan[r][i + 1]
  BY TailElements DEF TypeOK
<1> QED
  BY <1>1, <1>2 DEF Evidence

LEMMA EvidenceLoopRead ==
  ASSUME TypeOK, Evidence, LoopRead
  PROVE  Evidence'
<1> DEFINE m == Head(toHub)
<1>1. /\ m = toHub[1] /\ Len(toHub) \in Nat \ {0}
      /\ Len(toHub') = Len(toHub) - 1
      /\ \A i \in 1..Len(toHub') : toHub'[i] = toHub[i + 1]
  BY TailElements DEF LoopRead, TypeOK
<1>2. UNCHANGED <<chan, executed>>
  BY DEF LoopRead, agentVars
<1>3. cur' = m \/ UNCHANGED <<cur, loop>>
  BY DEF LoopRead
<1> HIDE DEF m
<1> QED
  BY <1>1, <1>2, <1>3 DEF Evidence

LEMMA EvidenceLoopSend ==
  ASSUME TypeOK, Evidence, LoopSend
  PROVE  Evidence'
<1>1. UNCHANGED <<cur, toHub, executed>> /\ loop = "send" /\ loop' # "send"
  BY DEF LoopSend, wireVars, agentVars
<1>2. cur \in Responses /\ cur.id \in Requests /\ chan[cur.id] \in Seq(Responses)
  BY DEF TypeOK, Responses
<1>3. /\ \A q \in Requests \ {cur.id} : chan'[q] = chan[q]
      /\ chan'[cur.id] = Append(chan[cur.id], cur)
  BY <1>2 DEF LoopSend, TypeOK
<1>4. /\ Len(chan[cur.id]) \in Nat /\ Len(chan'[cur.id]) = Len(chan[cur.id]) + 1
      /\ \A i \in 1..Len(chan[cur.id]) : chan'[cur.id][i] = chan[cur.id][i]
      /\ chan'[cur.id][Len(chan[cur.id]) + 1] = cur
  BY <1>2, <1>3, AppendElements, LenProperties
<1> QED
  BY <1>1, <1>2, <1>3, <1>4 DEF Evidence

-----------------------------------------------------------------------------
(* Every step keeps the invariant and is a step of RemoteCall or none.     *)

Step == ExecInv' /\ [RC!CallNext]_(RC!callVars)

LEMMA NoStep ==
  ASSUME UNCHANGED <<call, executed>>
  PROVE  [RC!CallNext]_(RC!callVars)
BY DEF RC!callVars, callSeen

LEMMA CallStep ==
  ASSUME TypeOK, NEW r \in Requests, NEW v,
         call' = [call EXCEPT ![r] = v], UNCHANGED executed,
         \/ v \in {"got", "failed"} /\ call[r] = "idle"
         \/ v = "registered" /\ call[r] = "got"
         \/ v = "waiting" /\ call[r] = "registered"
         \/ v = "failed" /\ call[r] \in {"registered", "waiting"}
         \/ v = "ok" /\ call[r] = "waiting" /\ executed[r] = 1
  PROVE  [RC!CallNext]_(RC!callVars)
<1> DEFINE Seen(c) == IF c \in {"idle", "got"} THEN "idle"
                      ELSE IF c \in {"registered", "waiting"} THEN "open" ELSE c
<1>1. callSeen' = [callSeen EXCEPT ![r] = Seen(v)]
  BY DEF callSeen, TypeOK
<1>2. callSeen[r] = Seen(call[r])
  BY DEF callSeen
<1>3. CASE Seen(v) = Seen(call[r])
  <2>1. callSeen' = callSeen
    BY <1>1, <1>2, <1>3 DEF callSeen
  <2> QED
    BY <2>1 DEF RC!callVars
<1>4. CASE v = "registered" /\ call[r] = "got"
  BY <1>1, <1>2, <1>4 DEF RC!CallNext, RC!Open
<1>5. CASE v = "failed" /\ call[r] \in {"idle", "registered", "waiting"}
  BY <1>1, <1>2, <1>5 DEF RC!CallNext, RC!Fail
<1>6. CASE v = "ok" /\ call[r] = "waiting" /\ executed[r] = 1
  BY <1>1, <1>2, <1>6 DEF RC!CallNext, RC!Answer
<1> QED
  BY <1>3, <1>4, <1>5, <1>6

(* A call moves on: handlers, messages and executions stay as they are.    *)
LEMMA CallOnly ==
  ASSUME TypeOK, ExecInv, NEW r \in Requests, NEW v,
         call' = [call EXCEPT ![r] = v], v \in Unsent => call[r] \in Unsent,
         UNCHANGED <<toAgent, handler, executed, toHub, loop, cur, chan>>
  PROVE  ExecInv'
<1>1. \A q \in Requests : call'[q] \in Unsent => call[q] \in Unsent
  BY DEF TypeOK
<1>2. SentOnce'
  BY <1>1, SentOnceKept DEF ExecInv
<1> QED
  BY <1>2 DEF ExecInv, Did, Evidence

LEMMA CallerStep ==
  ASSUME TypeOK, ExecInv, NEW r \in Requests, Caller(r)
  PROVE  Step
<1> USE DEF Unsent
<1>1. CASE Get(r)
  <2> DEFINE v == IF inTunnels THEN "got" ELSE "failed"
  <2>1. /\ call' = [call EXCEPT ![r] = v] /\ call[r] = "idle" /\ v \in {"got", "failed"}
        /\ UNCHANGED <<toAgent, handler, executed, toHub, loop, cur, chan>>
    BY <1>1 DEF Get, hubVars, wireVars, agentVars
  <2> HIDE DEF v
  <2> QED
    BY <2>1, CallOnly, CallStep DEF Step
<1>2. CASE Register(r)
  <2>1. /\ call' = [call EXCEPT ![r] = "registered"] /\ call[r] = "got"
        /\ UNCHANGED <<toAgent, handler, executed, toHub, loop, cur, chan>>
    BY <1>2 DEF Register, wireVars, agentVars
  <2> QED
    BY <2>1, CallOnly, CallStep DEF Step
<1>3. CASE SendRequest(r)
  <2> DEFINE m == [id |-> r, kind |-> "request"]
  <2>1. /\ call' = [call EXCEPT ![r] = "waiting"] /\ call[r] = "registered"
        /\ UNCHANGED <<handler, executed, toHub, loop, cur, chan>>
        /\ toAgent' \in {toAgent, Append(toAgent, m)}
    BY <1>3 DEF SendRequest, HubSend, hubVars, agentVars
  <2>2. m \in ToAgentMessages /\ m.id = r
    BY DEF ToAgentMessages
  <2>3. /\ \A q \in Requests : call'[q] \in Unsent => call[q] \in Unsent
        /\ call[r] \in Unsent /\ call'[r] \notin Unsent
    BY <2>1 DEF TypeOK
  <2> HIDE DEF m
  <2>4. SentOnce'
    BY <2>1, <2>2, <2>3, SentOnceSent DEF ExecInv
  <2>5. Did' /\ Evidence'
    BY <2>1 DEF ExecInv, Did, Evidence
  <2> QED
    BY <2>1, <2>4, <2>5, CallStep DEF Step, ExecInv
<1>4. CASE SendRequestFails(r)
  <2>1. /\ call' = [call EXCEPT ![r] = "failed"] /\ call[r] = "registered"
        /\ UNCHANGED <<toAgent, handler, executed, toHub, loop, cur, chan>>
    BY <1>4 DEF SendRequestFails, HubSendFails, wireVars, agentVars
  <2> QED
    BY <2>1, CallOnly, CallStep DEF Step
<1>5. CASE RoundTripReturns(r) \/ StreamFirst(r)
  <2> DEFINE v == IF Head(chan[r]).kind = "error" THEN "failed" ELSE "ok"
  <2>1. /\ call' = [call EXCEPT ![r] = v] /\ call[r] = "waiting"
        /\ chan[r] # <<>> /\ chan' = [chan EXCEPT ![r] = Tail(@)]
        /\ UNCHANGED <<toAgent, handler, executed, toHub, loop, cur>>
    BY <1>5 DEF RoundTripReturns, StreamFirst, wireVars, agentVars
  <2>2. Evidence' /\ (v = "ok" => executed[r] = 1)
    BY <2>1, EvidenceReceived DEF ExecInv
  <2>3. v \in {"ok", "failed"}
    OBVIOUS
  <2> HIDE DEF v
  <2>4. \A q \in Requests : call'[q] \in Unsent => call[q] \in Unsent
    BY <2>1, <2>3 DEF TypeOK
  <2>5. SentOnce'
    BY <2>1, <2>4, SentOnceKept DEF ExecInv
  <2>6. Did'
    BY <2>1 DEF ExecInv, Did
  <2> QED
    BY <2>1, <2>2, <2>3, <2>5, <2>6, CallStep DEF Step, ExecInv
<1>6. CASE ReturnsClosed(r)
  <2>1. /\ call' = [call EXCEPT ![r] = "failed"] /\ call[r] = "waiting"
        /\ UNCHANGED <<toAgent, handler, executed, toHub, loop, cur, chan>>
    BY <1>6 DEF ReturnsClosed, hubVars, wireVars, agentVars
  <2> QED
    BY <2>1, CallOnly, CallStep DEF Step
<1>7. CASE Timeout(r)
  <2>1. /\ call' = [call EXCEPT ![r] = "failed"] /\ call[r] = "waiting"
        /\ UNCHANGED <<toAgent, handler, executed, toHub, loop, cur, chan>>
    BY <1>7 DEF Timeout, wireVars, agentVars
  <2> QED
    BY <2>1, CallOnly, CallStep DEF Step
<1> QED
  BY <1>1, <1>2, <1>3, <1>4, <1>5, <1>6, <1>7 DEF Caller

LEMMA PumpStep ==
  ASSUME TypeOK, ExecInv, NEW r \in Requests, Pump(r)
  PROVE  Step
<1>1. UNCHANGED <<call, handler, executed, toHub, loop, cur>>
  BY DEF Pump, PumpReceive, PumpEnds, Read, CloseReader, PumpWriteFails, SendCancel,
         HubSend, HubSendFails, hubVars, wireVars, agentVars
<1>2. Did' /\ [RC!CallNext]_(RC!callVars)
  BY <1>1, NoStep DEF ExecInv, Did
<1>3. CASE PumpReceive(r)
  <2>1. /\ chan[r] # <<>> /\ chan' = [chan EXCEPT ![r] = Tail(@)]
        /\ UNCHANGED toAgent
    BY <1>3 DEF PumpReceive, wireVars
  <2>2. Evidence'
    BY <1>1, <2>1, EvidenceReceived DEF ExecInv
  <2>3. SentOnce'
    BY <1>1, <2>1, SentOnceKept DEF ExecInv
  <2> QED
    BY <1>2, <2>2, <2>3 DEF Step, ExecInv
<1>4. CASE PumpEnds(r) \/ Read(r) \/ CloseReader(r) \/ PumpWriteFails(r)
  <2>1. UNCHANGED <<toAgent, chan>>
    BY <1>4 DEF PumpEnds, Read, CloseReader, PumpWriteFails, hubVars, wireVars
  <2>2. SentOnce'
    BY <1>1, <2>1, SentOnceKept DEF ExecInv
  <2> QED
    BY <1>1, <1>2, <2>1, <2>2 DEF Step, ExecInv, Evidence
<1>5. CASE SendCancel(r)
  <2> DEFINE m == [id |-> r, kind |-> "cancel"]
  <2>1. UNCHANGED chan /\ toAgent' \in {toAgent, Append(toAgent, m)}
    BY <1>5 DEF SendCancel, HubSend, HubSendFails, hubVars, wireVars
  <2>2. m \in ToAgentMessages /\ m.kind # "request"
    BY DEF ToAgentMessages
  <2> HIDE DEF m
  <2>3. SentOnce'
    BY <1>1, <2>1, <2>2, SentOnceSent DEF ExecInv
  <2> QED
    BY <1>1, <1>2, <2>1, <2>3 DEF Step, ExecInv, Evidence
<1> QED
  BY <1>3, <1>4, <1>5 DEF Pump

(* A goroutine sends m, or fails to, and moves on.                         *)
LEMMA SendStep ==
  ASSUME TypeOK, ExecInv, NEW r \in Requests, NEW m \in Responses, m.id = r,
         AgentSend(m) \/ AgentSendFails,
         UNCHANGED <<hubVars, callVars, executed>>,
         m.kind # "error" => executed[r] = 1,
         handler[r] # "none", handler'[r] \notin {"none", "start", "do"},
         \A q \in Requests \ {r} : handler'[q] = handler[q],
         handler'[r] \in {"reply", "head", "body", "chunk", "done"} => executed[r] = 1
  PROVE  Step
<1>1. UNCHANGED <<toAgent, call>>
  BY DEF AgentSend, AgentSendFails, wireVars, callVars
<1>2. SentOnce'
  BY <1>1, SentOnceKept DEF ExecInv
<1>3. Did'
  BY DEF ExecInv, Did
<1>4. Evidence'
  BY EvidenceSent DEF ExecInv
<1> QED
  BY <1>1, <1>2, <1>3, <1>4, NoStep DEF Step, ExecInv

(* A goroutine moves on without sending and without executing.             *)
LEMMA QuietStep ==
  ASSUME TypeOK, ExecInv, NEW r \in Requests, AgentOnly, UNCHANGED executed,
         \A q \in Requests \ {r} : handler'[q] = handler[q],
         handler[r] # "none", handler'[r] # "none",
         handler'[r] \in {"start", "do"} => handler[r] \in {"start", "do"},
         handler'[r] \in {"reply", "head", "body", "chunk", "done"} =>
           handler[r] \in {"reply", "head", "body", "chunk", "done"}
  PROVE  Step
<1>1. UNCHANGED <<toAgent, call, toHub, loop, cur, chan>>
  BY DEF AgentOnly, hubVars, callVars, wireVars
<1>2. SentOnce'
  BY <1>1, SentOnceKept DEF ExecInv
<1>3. Did'
  BY DidMoves DEF ExecInv
<1> QED
  BY <1>1, <1>2, <1>3, NoStep DEF Step, ExecInv, Evidence

LEMMA HandlerStep ==
  ASSUME TypeOK, ExecInv, NEW r \in Requests, Handler(r)
  PROVE  Step
<1> USE DEF HandlerTo
<1>1. CASE Do(r)
  <2>1. /\ Did' /\ executed[r] = 0 /\ executed'[r] \in {0, 1}
        /\ executed' = executed \/ executed' = [executed EXCEPT ![r] = 1]
        /\ \A q \in Requests \ {r} : executed'[q] = executed[q]
    BY <1>1, DidDo DEF ExecInv
  <2>2. UNCHANGED <<toAgent, call, toHub, loop, cur, chan>> /\ handler[r] = "do"
    BY <1>1 DEF Do, AgentOnly, hubVars, callVars, wireVars
  <2>3. \A q \in Requests : handler[q] = "none" => handler'[q] = "none"
    BY <1>1, <2>2 DEF Do, TypeOK
  <2>4. SentOnce'
    BY <2>2, <2>3, SentOnceKept DEF ExecInv
  <2>5. Evidence'
    BY <2>1, <2>2, EvidenceKept DEF ExecInv, ExecutedKept
  <2>6. CASE executed' = executed
    BY <2>1, <2>2, <2>4, <2>5, <2>6, NoStep DEF Step, ExecInv
  <2>7. CASE executed' # executed
    <3>1. executed' = [executed EXCEPT ![r] = 1]
      BY <2>1, <2>7
    <3>2. callSeen[r] # "idle" /\ callSeen' = callSeen
      BY <2>2 DEF callSeen, ExecInv, SentOnce, Unsent
    <3>3. RC!Execute(r)
      BY <2>1, <3>1, <3>2 DEF RC!Execute
    <3> QED
      BY <2>1, <2>4, <2>5, <3>3 DEF Step, ExecInv, RC!CallNext
  <2> QED
    BY <2>6, <2>7
<1>2. CASE StreamStart(r) \/ BodyReads(r) \/ BodyEnds(r) \/ Cleanup(r)
  <2>1. AgentOnly /\ UNCHANGED executed
    BY <1>2 DEF StreamStart, BodyReads, BodyEnds, Cleanup
  <2>2. \A q \in Requests \ {r} : handler'[q] = handler[q]
    BY <1>2 DEF StreamStart, BodyReads, BodyEnds, Cleanup, TypeOK
  <2>3. \/ handler[r] = "start" /\ handler'[r] \in {"error", "do"}
        \/ handler[r] = "body" /\ handler'[r] \in {"chunk", "done"}
        \/ handler[r] = "cleanup" /\ handler'[r] = "end"
    BY <1>2 DEF StreamStart, BodyReads, BodyEnds, Cleanup, TypeOK
  <2> QED
    BY <2>1, <2>2, <2>3, QuietStep
<1>3. CASE SendReply(r)
  <2> DEFINE m == Message(r, "reply")
  <2>1. /\ AgentSend(m) \/ AgentSendFails
        /\ UNCHANGED <<hubVars, callVars, executed>>
    BY <1>3 DEF SendReply
  <2>2. /\ handler[r] = "reply" /\ handler'[r] \in {"end"}
        /\ \A q \in Requests \ {r} : handler'[q] = handler[q]
    BY <1>3 DEF SendReply, TypeOK
  <2>3. m \in Responses /\ m.id = r
    <3>1. "reply" \in Kinds
      BY DEF Kinds
    <3>2. Message(r, "reply") \in Responses
      BY <3>1, MessageTypes
    <3> QED
      BY <3>2 DEF Message
  <2>4. executed[r] = 1
    BY <2>2 DEF ExecInv, Did
  <2> HIDE DEF m
  <2> QED
    BY <2>1, <2>2, <2>3, <2>4, SendStep
<1>4. CASE SendError(r)
  <2> DEFINE m == Message(r, "error")
  <2>1. /\ AgentSend(m) \/ AgentSendFails
        /\ UNCHANGED <<hubVars, callVars, executed>>
    BY <1>4 DEF SendError
  <2>2. /\ handler[r] = "error" /\ handler'[r] \in {"cleanup", "end"}
        /\ \A q \in Requests \ {r} : handler'[q] = handler[q]
    BY <1>4 DEF SendError, TypeOK
  <2>3. m \in Responses /\ m.id = r /\ m.kind = "error"
    <3>1. "error" \in Kinds
      BY DEF Kinds
    <3>2. Message(r, "error") \in Responses
      BY <3>1, MessageTypes
    <3> QED
      BY <3>2 DEF Message
  <2> HIDE DEF m
  <2> QED
    BY <2>1, <2>2, <2>3, SendStep
<1>5. CASE SendHead(r)
  <2> DEFINE m == Message(r, "head")
  <2>1. /\ AgentSend(m) \/ AgentSendFails
        /\ UNCHANGED <<hubVars, callVars, executed>>
    BY <1>5 DEF SendHead
  <2>2. /\ handler[r] = "head" /\ handler'[r] \in {"body"}
        /\ \A q \in Requests \ {r} : handler'[q] = handler[q]
    BY <1>5 DEF SendHead, TypeOK
  <2>3. m \in Responses /\ m.id = r
    <3>1. "head" \in Kinds
      BY DEF Kinds
    <3>2. Message(r, "head") \in Responses
      BY <3>1, MessageTypes
    <3> QED
      BY <3>2 DEF Message
  <2>4. executed[r] = 1
    BY <2>2 DEF ExecInv, Did
  <2> HIDE DEF m
  <2> QED
    BY <2>1, <2>2, <2>3, <2>4, SendStep
<1>6. CASE SendChunk(r)
  <2> DEFINE m == [id |-> r, kind |-> "data", n |-> sent[r]]
  <2>1. /\ AgentSend(m) \/ AgentSendFails
        /\ UNCHANGED <<hubVars, callVars, executed>>
    BY <1>6 DEF SendChunk
  <2>2. /\ handler[r] = "chunk" /\ handler'[r] \in {"body", "cleanup"}
        /\ \A q \in Requests \ {r} : handler'[q] = handler[q]
    BY <1>6 DEF SendChunk, TypeOK
  <2>3. m \in Responses /\ m.id = r
    BY DEF Responses, Kinds, TypeOK
  <2>4. executed[r] = 1
    BY <2>2 DEF ExecInv, Did
  <2> HIDE DEF m
  <2> QED
    BY <2>1, <2>2, <2>3, <2>4, SendStep
<1>7. CASE SendDone(r)
  <2> DEFINE m == Message(r, "done")
  <2>1. /\ AgentSend(m) \/ AgentSendFails
        /\ UNCHANGED <<hubVars, callVars, executed>>
    BY <1>7 DEF SendDone
  <2>2. /\ handler[r] = "done" /\ handler'[r] \in {"cleanup"}
        /\ \A q \in Requests \ {r} : handler'[q] = handler[q]
    BY <1>7 DEF SendDone, TypeOK
  <2>3. m \in Responses /\ m.id = r
    <3>1. "done" \in Kinds
      BY DEF Kinds
    <3>2. Message(r, "done") \in Responses
      BY <3>1, MessageTypes
    <3> QED
      BY <3>2 DEF Message
  <2>4. executed[r] = 1
    BY <2>2 DEF ExecInv, Did
  <2> HIDE DEF m
  <2> QED
    BY <2>1, <2>2, <2>3, <2>4, SendStep
<1> QED
  BY <1>1, <1>2, <1>3, <1>4, <1>5, <1>6, <1>7 DEF Handler

(* Steps of the connection and of the two read loops move no call and      *)
(* execute nothing.                                                        *)
LEMMA ConnectionStep ==
  ASSUME TypeOK, ExecInv,
         ReadLoop \/ Unregister \/ Replace \/ Break \/ AgentReads \/ AgentLoses
  PROVE  Step
<1>1. UNCHANGED <<call, executed>>
  BY DEF ReadLoop, LoopRead, LoopSend, LoopClose, LoopFails, LoopExits, Unregister, Replace,
         Break, AgentReads, AgentLoses, callVars, agentVars
<1>2. [RC!CallNext]_(RC!callVars)
  BY <1>1, NoStep
<1>3. CASE LoopRead
  <2>1. UNCHANGED <<toAgent, handler>>
    BY <1>3 DEF LoopRead, agentVars
  <2> QED
    BY <1>1, <1>2, <1>3, <2>1, SentOnceKept, EvidenceLoopRead DEF Step, ExecInv, Did
<1>4. CASE LoopSend
  <2>1. UNCHANGED <<toAgent, handler>>
    BY <1>4 DEF LoopSend, wireVars, agentVars
  <2> QED
    BY <1>1, <1>2, <1>4, <2>1, SentOnceKept, EvidenceLoopSend DEF Step, ExecInv, Did
<1>5. CASE LoopClose \/ LoopFails \/ Unregister \/ AgentLoses
  <2>1. UNCHANGED <<toAgent, handler, toHub, cur, chan>> /\ (loop' = loop \/ loop' # "send")
    BY <1>5 DEF LoopClose, LoopFails, Unregister, AgentLoses, hubVars, wireVars, agentVars
  <2>2. Evidence'
    BY <1>1, <2>1 DEF ExecInv, Evidence
  <2> QED
    BY <1>1, <1>2, <2>1, <2>2, SentOnceKept DEF Step, ExecInv, Did
<1>6. CASE LoopExits \/ Replace \/ Break
  <2>1. Sever /\ UNCHANGED <<handler, cur, chan>> /\ (loop' = loop \/ loop' # "send")
    BY <1>6 DEF LoopExits, Replace, Break, hubVars, agentVars
  <2>2. SentOnce'
    BY <1>1, <2>1, SentOnceShorter DEF Sever, ExecInv
  <2>3. Evidence'
    BY <1>1, <2>1, EvidenceShorter DEF Sever, ExecInv
  <2> QED
    BY <1>1, <1>2, <2>1, <2>2, <2>3 DEF Step, ExecInv, Did
<1>7. CASE AgentReads
  <2>1. UNCHANGED <<toHub, loop, cur, chan>>
    BY <1>7 DEF AgentReads, hubVars
  <2>2. Evidence'
    BY <1>1, <2>1 DEF ExecInv, Evidence
  <2> QED
    BY <1>2, <1>7, <2>2, SentOnceRead, DidRead DEF Step, ExecInv
<1> QED
  BY <1>3, <1>4, <1>5, <1>6, <1>7 DEF ReadLoop

LEMMA NextStep == TypeOK /\ ExecInv /\ [Next]_vars => Step
<1> SUFFICES ASSUME TypeOK, ExecInv, [Next]_vars
             PROVE  Step
  OBVIOUS
<1>1. CASE UNCHANGED vars
  <2>1. UNCHANGED <<call, executed, toAgent, handler, toHub, loop, cur, chan>>
    BY <1>1 DEF vars, hubVars, callVars, wireVars, agentVars
  <2>2. Evidence' /\ Did'
    BY <2>1 DEF ExecInv, Evidence, Did
  <2> QED
    BY <2>1, <2>2, SentOnceKept, NoStep DEF Step, ExecInv
<1>2. CASE Next
  BY <1>2, CallerStep, PumpStep, HandlerStep, ConnectionStep DEF Next
<1> QED
  BY <1>1, <1>2

LEMMA InitStep == Init => RC!CallInit
BY DEF Init, RC!CallInit, callSeen

(* The orchestrator executes a request at most once and only after its     *)
(* call, and a call that succeeds was executed, whatever is lost on the    *)
(* way and whichever calls time out (RemoteCall).                          *)
THEOREM ImplementsRemoteCall == Spec => AtMostOnce
<1>1. Init => TypeOK /\ ExecInv
  BY InitTypes, InitExec
<1>2. TypeOK /\ ExecInv /\ [Next]_vars => (TypeOK /\ ExecInv)'
  BY NextTypes, NextStep DEF Step
<1>3. TypeOK /\ ExecInv /\ [Next]_vars => [RC!CallNext]_(RC!callVars)
  BY NextStep DEF Step
<1> QED
  BY <1>1, <1>2, <1>3, InitStep, PTL DEF Spec, AtMostOnce, RC!CallSpec
=============================================================================
