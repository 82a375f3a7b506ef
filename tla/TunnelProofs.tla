---------------------------- MODULE TunnelProofs ----------------------------
(***************************************************************************)
(* Theorems about Tunnel, for every set of requests, every capacity and    *)
(* every bound on the chunks: type correctness, the four safety properties *)
(* of the hub's bookkeeping, and the implementation of RemoteCall.         *)
(***************************************************************************)
EXTENDS Tunnel, SequenceTheorems, TLAPS

USE StreamsAssumption, CapAssumption, ChunksAssumption

-----------------------------------------------------------------------------
(* What the operations on a queue do to its elements.                      *)

LEMMA AppendElements ==
  ASSUME NEW S, NEW q \in Seq(S), NEW e \in S
  PROVE  /\ Append(q, e) \in Seq(S)
         /\ Append(q, e) # <<>>
         /\ Len(Append(q, e)) = Len(q) + 1
         /\ \A i \in 1..Len(q) : Append(q, e)[i] = q[i]
         /\ Append(q, e)[Len(q) + 1] = e
  BY AppendProperties

LEMMA TailElements ==
  ASSUME NEW S, NEW q \in Seq(S), q # <<>>
  PROVE  /\ Head(q) \in S /\ Head(q) = q[1]
         /\ Len(q) \in Nat \ {0}
         /\ Tail(q) \in Seq(S)
         /\ Len(Tail(q)) = Len(q) - 1
         /\ \A i \in 1..(Len(q) - 1) : Tail(q)[i] = q[i + 1]
  BY HeadTailProperties, EmptySeq

LEMMA PrefixElements ==
  ASSUME NEW S, NEW q \in Seq(S), NEW n \in 0..Len(q)
  PROVE  /\ Prefix(q, n) \in Seq(S)
         /\ Len(Prefix(q, n)) = n
         /\ \A i \in 1..n : Prefix(q, n)[i] = q[i]
<1>1. \A i \in 1..n : q[i] \in S
  BY ElementOfSeq, LenProperties
<1>2. n \in Int /\ Len(q) \in Nat
  BY LenProperties
<1> QED
  BY <1>1, <1>2, SubSeqProperties DEF Prefix

-----------------------------------------------------------------------------
(* Type correctness.                                                       *)

LEMMA MessageTypes ==
  ASSUME NEW r \in Requests, NEW kind \in Kinds
  PROVE  Message(r, kind) \in Responses
BY DEF Message, Responses

LEMMA SeverTypes ==
  ASSUME TypeOK, Sever
  PROVE  /\ link' \in BOOLEAN
         /\ toAgent' \in Seq(ToAgentMessages)
         /\ toHub' \in Seq(Responses)
<1>1. /\ toAgent \in Seq(ToAgentMessages)
      /\ toHub \in Seq(Responses)
  BY DEF TypeOK
<1> QED
  BY <1>1, PrefixElements DEF Sever

LEMMA InitTypes == Init => TypeOK
<1> SUFFICES ASSUME Init PROVE TypeOK
  OBVIOUS
<1>1. NoMessage \in Responses
  BY DEF NoMessage, Responses, Kinds
<1>2. <<>> \in Seq(Responses) /\ <<>> \in Seq(ToAgentMessages)
  BY EmptySeq
<1> QED
  BY <1>1, <1>2 DEF Init, TypeOK, BufferedStates, StreamStates

(* The hub's and the agent's sends keep the types of the queues.           *)
LEMMA HubSendTypes ==
  ASSUME TypeOK, NEW m \in ToAgentMessages, HubSend(m) \/ HubSendFails
  PROVE  wireVars' \in {<<link, q, toHub>> : q \in Seq(ToAgentMessages)}
<1>1. toAgent \in Seq(ToAgentMessages)
  BY DEF TypeOK
<1>2. Append(toAgent, m) \in Seq(ToAgentMessages)
  BY <1>1, AppendElements
<1> QED
  BY <1>1, <1>2 DEF HubSend, HubSendFails, wireVars

LEMMA AgentSendTypes ==
  ASSUME TypeOK, NEW m \in Responses, AgentSend(m) \/ AgentSendFails
  PROVE  wireVars' \in {<<link, toAgent, q>> : q \in Seq(Responses)}
<1>1. toHub \in Seq(Responses)
  BY DEF TypeOK
<1>2. Append(toHub, m) \in Seq(Responses)
  BY <1>1, AppendElements
<1> QED
  BY <1>1, <1>2 DEF AgentSend, AgentSendFails, wireVars

LEMMA CallerTypes ==
  ASSUME TypeOK, NEW r \in Requests, Caller(r)
  PROVE  TypeOK'
<1>1. CASE Get(r)
  BY <1>1 DEF TypeOK, Get, hubVars, wireVars, agentVars
<1>2. CASE Register(r)
  BY <1>2 DEF TypeOK, Register, wireVars, agentVars
<1>3. CASE SendRequest(r)
  <2>1. wireVars' \in {<<link, q, toHub>> : q \in Seq(ToAgentMessages)}
    BY <1>3, HubSendTypes DEF SendRequest, ToAgentMessages
  <2> QED
    BY <1>3, <2>1 DEF TypeOK, SendRequest, hubVars, wireVars, agentVars
<1>4. CASE SendRequestFails(r)
  BY <1>4 DEF TypeOK, SendRequestFails, HubSendFails, wireVars, agentVars
<1>5. CASE RoundTripReturns(r)
  <2>1. Tail(chan[r]) \in Seq(Responses)
    BY <1>5, TailElements DEF TypeOK, RoundTripReturns
  <2> QED
    BY <1>5, <2>1 DEF TypeOK, RoundTripReturns, wireVars, agentVars
<1>6. CASE ReturnsClosed(r)
  BY <1>6 DEF TypeOK, ReturnsClosed, hubVars, wireVars, agentVars
<1>7. CASE Timeout(r)
  BY <1>7 DEF TypeOK, Timeout, wireVars, agentVars
<1>8. CASE StreamFirst(r)
  <2>1. Tail(chan[r]) \in Seq(Responses)
    BY <1>8, TailElements DEF TypeOK, StreamFirst
  <2> QED
    BY <1>8, <2>1 DEF TypeOK, StreamFirst, wireVars, agentVars
<1> QED
  BY <1>1, <1>2, <1>3, <1>4, <1>5, <1>6, <1>7, <1>8 DEF Caller

LEMMA PumpTypes ==
  ASSUME TypeOK, NEW r \in Requests, Pump(r)
  PROVE  TypeOK'
<1>1. CASE PumpReceive(r)
  <2>1. Tail(chan[r]) \in Seq(Responses) /\ Head(chan[r]) \in Responses
    BY <1>1, TailElements DEF TypeOK, PumpReceive
  <2>2. Head(chan[r]).n \in 0..MaxChunks
    BY <2>1 DEF Responses
  <2> QED
    BY <1>1, <2>1, <2>2 DEF TypeOK, PumpReceive, wireVars, agentVars
<1>2. CASE PumpEnds(r)
  BY <1>2 DEF TypeOK, PumpEnds, hubVars, wireVars, agentVars
<1>3. CASE Read(r)
  BY <1>3 DEF TypeOK, Read, hubVars, wireVars, agentVars
<1>4. CASE CloseReader(r)
  BY <1>4 DEF TypeOK, CloseReader, hubVars, wireVars, agentVars
<1>5. CASE PumpWriteFails(r)
  BY <1>5 DEF TypeOK, PumpWriteFails, hubVars, wireVars, agentVars
<1>6. CASE SendCancel(r)
  <2> DEFINE m == [id |-> r, kind |-> "cancel"]
  <2>0. m \in ToAgentMessages /\ (HubSend(m) \/ HubSendFails)
    BY <1>6 DEF SendCancel, ToAgentMessages
  <2> HIDE DEF m
  <2>1. wireVars' \in {<<link, q, toHub>> : q \in Seq(ToAgentMessages)}
    BY <2>0, HubSendTypes
  <2>2. /\ pump' = [pump EXCEPT ![r] = "cancelled"]
        /\ UNCHANGED <<hubVars, call, held, readerOpen, delivered, agentVars>>
    BY <1>6 DEF SendCancel
  <2> QED
    BY <2>1, <2>2 DEF TypeOK, hubVars, wireVars, agentVars
<1> QED
  BY <1>1, <1>2, <1>3, <1>4, <1>5, <1>6 DEF Pump

LEMMA HandlerTypes ==
  ASSUME TypeOK, NEW r \in Requests, Handler(r)
  PROVE  TypeOK'
<1>1. CASE Do(r)
  <2>1. PICK did \in BOOLEAN, ok \in BOOLEAN :
          /\ executed' = [executed EXCEPT ![r] = IF did THEN @ + 1 ELSE @]
          /\ handler' = [handler EXCEPT ![r] =
               IF ~ok THEN "error" ELSE IF r \in Streams THEN "head" ELSE "reply"]
    BY <1>1 DEF Do, HandlerTo
  <2>2. executed' \in [Requests -> Nat]
    BY <2>1 DEF TypeOK
  <2>3. /\ handler' \in [Requests -> BufferedStates \cup StreamStates]
        /\ \A q \in Requests : handler'[q] \in IF q \in Streams THEN StreamStates
                                                             ELSE BufferedStates
    BY <2>1 DEF TypeOK, BufferedStates, StreamStates
  <2> QED
    BY <1>1, <2>2, <2>3 DEF TypeOK, Do, AgentOnly, hubVars, callVars, wireVars
<1>2. CASE SendReply(r)
  <2>1. wireVars' \in {<<link, toAgent, q>> : q \in Seq(Responses)}
    BY <1>2, AgentSendTypes, MessageTypes DEF SendReply, Kinds
  <2> QED
    BY <1>2, <2>1 DEF TypeOK, BufferedStates, StreamStates, SendReply, HandlerTo, hubVars, callVars, wireVars
<1>3. CASE SendError(r)
  <2>1. wireVars' \in {<<link, toAgent, q>> : q \in Seq(Responses)}
    BY <1>3, AgentSendTypes, MessageTypes DEF SendError, Kinds
  <2> QED
    BY <1>3, <2>1 DEF TypeOK, BufferedStates, StreamStates, SendError, HandlerTo, hubVars, callVars, wireVars
<1>4. CASE StreamStart(r)
  <2>1. r \in Streams
    BY <1>4 DEF TypeOK, StreamStart, BufferedStates
  <2> QED
    BY <1>4, <2>1 DEF TypeOK, BufferedStates, StreamStates, StreamStart, HandlerTo, AgentOnly, hubVars, callVars, wireVars
<1>5. CASE SendHead(r)
  <2>1. wireVars' \in {<<link, toAgent, q>> : q \in Seq(Responses)}
    BY <1>5, AgentSendTypes, MessageTypes DEF SendHead, Kinds
  <2> QED
    BY <1>5, <2>1 DEF TypeOK, BufferedStates, StreamStates, SendHead, HandlerTo, hubVars, callVars, wireVars
<1>6. CASE BodyReads(r)
  <2>1. sent[r] + 1 \in 0..MaxChunks
    BY <1>6 DEF TypeOK, BodyReads
  <2> QED
    BY <1>6, <2>1 DEF TypeOK, BufferedStates, StreamStates, BodyReads, HandlerTo, AgentOnly, hubVars, callVars, wireVars
<1>7. CASE SendChunk(r)
  <2>1. [id |-> r, kind |-> "data", n |-> sent[r]] \in Responses
    BY DEF TypeOK, Responses, Kinds
  <2>2. wireVars' \in {<<link, toAgent, q>> : q \in Seq(Responses)}
    BY <1>7, <2>1, AgentSendTypes DEF SendChunk
  <2> QED
    BY <1>7, <2>2 DEF TypeOK, BufferedStates, StreamStates, SendChunk, HandlerTo, hubVars, callVars, wireVars
<1>8. CASE BodyEnds(r)
  BY <1>8 DEF TypeOK, BufferedStates, StreamStates, BodyEnds, HandlerTo, AgentOnly, hubVars, callVars, wireVars
<1>9. CASE SendDone(r)
  <2>1. wireVars' \in {<<link, toAgent, q>> : q \in Seq(Responses)}
    BY <1>9, AgentSendTypes, MessageTypes DEF SendDone, Kinds
  <2> QED
    BY <1>9, <2>1 DEF TypeOK, BufferedStates, StreamStates, SendDone, HandlerTo, hubVars, callVars, wireVars
<1>10. CASE Cleanup(r)
  <2>1. r \in Streams
    BY <1>10 DEF TypeOK, Cleanup, BufferedStates
  <2> QED
    BY <1>10, <2>1 DEF TypeOK, BufferedStates, StreamStates, Cleanup, HandlerTo, AgentOnly, hubVars, callVars, wireVars
<1> QED
  BY <1>1, <1>2, <1>3, <1>4, <1>5, <1>6, <1>7, <1>8, <1>9, <1>10 DEF Handler

LEMMA ReadLoopTypes ==
  ASSUME TypeOK, ReadLoop
  PROVE  TypeOK'
<1>1. CASE LoopRead
  <2>1. Head(toHub) \in Responses /\ Tail(toHub) \in Seq(Responses)
    BY <1>1, TailElements DEF TypeOK, LoopRead
  <2> QED
    BY <1>1, <2>1 DEF TypeOK, LoopRead, callVars, agentVars
<1>2. CASE LoopSend
  <2>1. cur.id \in Requests
    BY DEF TypeOK, Responses
  <2>2. Append(chan[cur.id], cur) \in Seq(Responses)
    BY <2>1, AppendElements DEF TypeOK
  <2> QED
    BY <1>2, <2>1, <2>2 DEF TypeOK, LoopSend, callVars, wireVars, agentVars
<1>3. CASE LoopClose
  BY <1>3 DEF TypeOK, Responses, LoopClose, callVars, wireVars, agentVars
<1>4. CASE LoopFails
  BY <1>4 DEF TypeOK, LoopFails, callVars, wireVars, agentVars
<1>5. CASE LoopExits
  BY <1>5, SeverTypes DEF TypeOK, LoopExits, callVars, agentVars
<1> QED
  BY <1>1, <1>2, <1>3, <1>4, <1>5 DEF ReadLoop

LEMMA AgentTypes ==
  ASSUME TypeOK, AgentReads \/ AgentLoses
  PROVE  TypeOK'
<1>1. CASE AgentReads
  <2>1. Head(toAgent) \in ToAgentMessages /\ Tail(toAgent) \in Seq(ToAgentMessages)
    BY <1>1, TailElements DEF TypeOK, AgentReads
  <2>2. Head(toAgent).id \in Requests
    BY <2>1 DEF ToAgentMessages
  <2>3. /\ handler' \in [Requests -> BufferedStates \cup StreamStates]
        /\ \A q \in Requests : handler'[q] \in IF q \in Streams THEN StreamStates
                                                             ELSE BufferedStates
    <3>1. CASE Head(toAgent).kind = "request"
      <4>1. handler' = [handler EXCEPT ![Head(toAgent).id] =
                          IF Head(toAgent).id \in Streams THEN "start" ELSE "do"]
        BY <1>1, <3>1 DEF AgentReads
      <4> QED
        BY <4>1, <2>2 DEF TypeOK, BufferedStates, StreamStates
    <3>2. CASE Head(toAgent).kind # "request"
      BY <1>1, <3>2 DEF TypeOK, AgentReads
    <3> QED
      BY <3>1, <3>2
  <2>4. streams' \subseteq Streams /\ cancelled' \subseteq Streams
    BY <1>1 DEF TypeOK, AgentReads
  <2> QED
    BY <1>1, <2>1, <2>3, <2>4 DEF TypeOK, AgentReads, hubVars, callVars
<1>2. CASE AgentLoses
  BY <1>2 DEF TypeOK, AgentLoses, hubVars, callVars, wireVars
<1> QED
  BY <1>1, <1>2

LEMMA ConnectionTypes ==
  ASSUME TypeOK, Unregister \/ Replace \/ Break
  PROVE  TypeOK'
<1>1. CASE Unregister
  BY <1>1 DEF TypeOK, Unregister, callVars, wireVars, agentVars
<1>2. CASE Replace
  BY <1>2, SeverTypes DEF TypeOK, Replace, callVars, agentVars
<1>3. CASE Break
  BY <1>3, SeverTypes DEF TypeOK, Break, hubVars, callVars, agentVars
<1> QED
  BY <1>1, <1>2, <1>3

LEMMA NextTypes == TypeOK /\ [Next]_vars => TypeOK'
<1>1. ASSUME TypeOK, UNCHANGED vars
      PROVE  TypeOK'
  BY <1>1 DEF TypeOK, vars, hubVars, callVars, wireVars, agentVars
<1> QED
  BY <1>1, CallerTypes, PumpTypes, HandlerTypes, ReadLoopTypes, AgentTypes,
     ConnectionTypes DEF Next

(* Every variable keeps to the values its type allows: in particular no    *)
(* buffered request ever reaches the agent's stream registry, and readLoop *)
(* only hands over responses to known requests.                            *)
THEOREM TypeCorrect == Spec => []TypeOK
<1> QED
  BY InitTypes, NextTypes, PTL DEF Spec

-----------------------------------------------------------------------------
(* The hub's bookkeeping.  ChannelSafety, NoPendingLeak, WaiterHasWakeup   *)
(* and BufferedNeverBlocksLoop are not inductive one by one: each needs to *)
(* know what the calls that have not registered, the response readLoop     *)
(* holds, and the channels' contents say about ac.pending.                 *)

Handing(r) == loop \in {"send", "close"} /\ cur.id = r

(* A call that has not registered has left no trace in the hub.            *)
Fresh == \A r \in Requests : call[r] \in {"idle", "got"} =>
            /\ r \notin pending /\ r \notin closed
            /\ chan[r] = <<>> /\ ~Handing(r)

(* What readLoop holds, between its lookup and its close.                  *)
HandOver == /\ loop \in {"send", "close"} => cur.id \notin closed
            /\ loop \in {"send", "close"} /\ IsLast(cur) => cur.id \notin pending
            /\ loop = "close" => IsLast(cur)

(* A last message in a channel: the entry has been removed.                *)
LastGone == \A r \in Requests : \A i \in 1..Len(chan[r]) :
              IsLast(chan[r][i]) => r \notin pending

(* A buffered request is only ever answered by a reply or an error.        *)
SingleKind ==
  /\ \A i \in 1..Len(toHub) : toHub[i].id \in Buffered => toHub[i].kind \in {"reply", "error"}
  /\ loop = "send" /\ cur.id \in Buffered => cur.kind \in {"reply", "error"}
BufferedChan == \A r \in Buffered :
  /\ \A i \in 1..Len(chan[r]) : chan[r][i].kind \in {"reply", "error"}
  /\ loop = "send" /\ cur.id = r => chan[r] = <<>>

(* WaiterHasWakeup from the moment a call has registered.                  *)
Wakeup == \A r \in Requests \ pending : call[r] \in {"registered", "waiting"} =>
            chan[r] # <<>> \/ r \in closed \/ Handing(r)

PumpOfOk == \A r \in Requests : pump[r] # "none" => call[r] = "ok"

Disjoint == pending \cap closed = {}

HubInv == /\ Disjoint /\ Fresh /\ HandOver /\ LastGone /\ SingleKind /\ BufferedChan
          /\ Wakeup /\ PumpOfOk /\ NoPendingLeak

LEMMA InitHub == Init => HubInv
<1> SUFFICES ASSUME Init PROVE HubInv
  OBVIOUS
<1>1. \A r \in Requests : chan[r] = <<>> /\ Len(chan[r]) = 0
  BY EmptySeq DEF Init
<1>2. toHub = <<>> /\ Len(toHub) = 0
  BY EmptySeq DEF Init
<1>3. LastGone /\ BufferedChan /\ SingleKind
  BY <1>1, <1>2 DEF Init, LastGone, BufferedChan, SingleKind, Buffered
<1>4. Disjoint /\ Fresh /\ HandOver /\ Wakeup /\ PumpOfOk /\ NoPendingLeak
  BY <1>1 DEF Init, Disjoint, Fresh, Handing, HandOver, Wakeup, PumpOfOk, NoPendingLeak
<1> QED
  BY <1>3, <1>4 DEF HubInv

(* The variables HubInv is about, apart from toHub.                        *)
hubView == <<loop, cur, pending, chan, closed, call, pump>>

LEMMA HubStutter ==
  ASSUME HubInv, UNCHANGED hubView, SingleKind'
  PROVE  HubInv'
BY DEF hubView, HubInv, Disjoint, Fresh, Handing, HandOver, LastGone,
       BufferedChan, Wakeup, PumpOfOk, NoPendingLeak

(* A call moves on without taking anything from its channel.               *)
LEMMA CallMoves ==
  ASSUME TypeOK, HubInv, NEW r \in Requests, NEW v,
         call' = [call EXCEPT ![r] = v],
         UNCHANGED <<loop, cur, chan, closed, pump, toHub>>,
         pending' \in {pending, pending \ {r}},
         call[r] # "ok",
         \/ v = "got" /\ call[r] = "idle"
         \/ v = "waiting" /\ call[r] = "registered" /\ pending' = pending
         \/ v = "failed" /\ r \notin pending'
  PROVE  HubInv'
<1>1. /\ \A q \in Requests \ {r} : call'[q] = call[q]
      /\ call'[r] = v
  BY DEF TypeOK
<1>2. /\ pending' \subseteq pending
      /\ \A q \in Requests \ {r} : q \in pending' <=> q \in pending
  OBVIOUS
<1>3. Disjoint'
  BY <1>1, <1>2 DEF HubInv, Disjoint
<1>4. Fresh'
  BY <1>1, <1>2 DEF HubInv, Fresh, Handing
<1>5. HandOver'
  BY <1>1, <1>2 DEF HubInv, HandOver, Fresh, Handing
<1>6. LastGone'
  BY <1>1, <1>2 DEF HubInv, LastGone
<1>7. SingleKind'
  BY <1>1, <1>2 DEF HubInv, SingleKind
<1>8. BufferedChan'
  BY <1>1, <1>2 DEF HubInv, BufferedChan
<1>9. Wakeup'
  BY <1>1, <1>2 DEF HubInv, Wakeup, Handing
<1>10. PumpOfOk'
  BY <1>1, <1>2 DEF HubInv, PumpOfOk
<1>11. NoPendingLeak'
  BY <1>1, <1>2 DEF HubInv, NoPendingLeak, TypeOK
<1> QED
  BY <1>3, <1>4, <1>5, <1>6, <1>7, <1>8, <1>9, <1>10, <1>11 DEF HubInv

LEMMA RegisterHub ==
  ASSUME TypeOK, HubInv, NEW r \in Requests, Register(r)
  PROVE  HubInv'
<1>1. /\ \A q \in Requests \ {r} : call'[q] = call[q]
      /\ call[r] = "got" /\ call'[r] = "registered"
      /\ pending' = pending \cup {r}
  BY DEF Register, TypeOK
<1>2. UNCHANGED <<loop, cur, chan, closed, pump, toHub>>
  BY DEF Register, wireVars
<1>3. r \notin closed /\ chan[r] = <<>> /\ ~Handing(r)
  BY <1>1 DEF HubInv, Fresh
<1>4. Len(chan[r]) = 0
  BY <1>3, EmptySeq
<1>5. Disjoint'
  BY <1>1, <1>2, <1>3, <1>4 DEF HubInv, Disjoint
<1>6. Fresh'
  BY <1>1, <1>2, <1>3, <1>4 DEF HubInv, Fresh, Handing
<1>7. HandOver'
  BY <1>1, <1>2, <1>3, <1>4 DEF HubInv, HandOver, Fresh, Handing
<1>8. LastGone'
  BY <1>1, <1>2, <1>3, <1>4 DEF HubInv, LastGone
<1>9. SingleKind'
  BY <1>1, <1>2, <1>3, <1>4 DEF HubInv, SingleKind
<1>10. BufferedChan'
  BY <1>1, <1>2, <1>3, <1>4 DEF HubInv, BufferedChan
<1>11. Wakeup'
  BY <1>1, <1>2, <1>3, <1>4 DEF HubInv, Wakeup, Handing
<1>12. PumpOfOk'
  BY <1>1, <1>2, <1>3, <1>4 DEF HubInv, PumpOfOk
<1>13. NoPendingLeak'
  BY <1>1, <1>2, <1>3, <1>4 DEF HubInv, NoPendingLeak, TypeOK
<1> QED
  BY <1>5, <1>6, <1>7, <1>8, <1>9, <1>10, <1>11, <1>12, <1>13 DEF HubInv

(* A call or a pump takes the next message from its channel.               *)
LEMMA ReceiveHub ==
  ASSUME TypeOK, HubInv, NEW r \in Requests, NEW v \in {"ok", "failed"},
         chan[r] # <<>>, chan' = [chan EXCEPT ![r] = Tail(@)],
         call' = [call EXCEPT ![r] = v],
         v = "failed" \/ r \in Buffered => r \notin pending,
         \A q \in Requests \ {r} : pump'[q] = pump[q],
         pump'[r] # "none" => v = "ok",
         UNCHANGED <<loop, cur, pending, closed, toHub>>
  PROVE  HubInv'
<1>1. /\ \A q \in Requests \ {r} : call'[q] = call[q] /\ chan'[q] = chan[q]
      /\ call'[r] = v /\ chan'[r] = Tail(chan[r])
  BY DEF TypeOK
<1>2. /\ Len(chan'[r]) \in Nat /\ Len(chan[r]) = Len(chan'[r]) + 1
      /\ \A i \in 1..Len(chan'[r]) : chan'[r][i] = chan[r][i + 1]
  BY <1>1, TailElements DEF TypeOK
<1>3. Disjoint'
  BY <1>1, <1>2 DEF HubInv, Disjoint
<1>4. Fresh'
  BY <1>1, <1>2 DEF HubInv, Fresh, Handing
<1>5. HandOver'
  BY <1>1, <1>2 DEF HubInv, HandOver, Fresh, Handing
<1>6. LastGone'
  BY <1>1, <1>2 DEF HubInv, LastGone
<1>7. SingleKind'
  BY <1>1, <1>2 DEF HubInv, SingleKind
<1>8. BufferedChan'
  BY <1>1, <1>2 DEF HubInv, BufferedChan
<1>9. Wakeup'
  BY <1>1, <1>2 DEF HubInv, Wakeup, Handing
<1>10. PumpOfOk'
  BY <1>1, <1>2 DEF HubInv, PumpOfOk
<1>11. NoPendingLeak'
  BY <1>1, <1>2 DEF HubInv, NoPendingLeak, TypeOK
<1> QED
  BY <1>3, <1>4, <1>5, <1>6, <1>7, <1>8, <1>9, <1>10, <1>11 DEF HubInv

(* readLoop.                                                               *)
LEMMA LoopReadHub ==
  ASSUME TypeOK, HubInv, LoopRead
  PROVE  HubInv'
<1> DEFINE m == Head(toHub)
<1>1. /\ m \in Responses /\ m = toHub[1] /\ Len(toHub) \in Nat \ {0}
      /\ Len(toHub') = Len(toHub) - 1
      /\ \A i \in 1..Len(toHub') : toHub'[i] = toHub[i + 1]
  BY TailElements DEF LoopRead, TypeOK
<1>2. UNCHANGED <<chan, closed, call, pump>> /\ loop = "read"
  BY DEF LoopRead, callVars
<1>3. m.id \in Requests
  BY <1>1 DEF Responses
<1>4. SingleKind'
  <2>1. \A i \in 1..Len(toHub') :
          toHub'[i].id \in Buffered => toHub'[i].kind \in {"reply", "error"}
    BY <1>1 DEF HubInv, SingleKind
  <2>2. m.id \in Buffered => m.kind \in {"reply", "error"}
    BY <1>1 DEF HubInv, SingleKind
  <2> QED
    BY <1>2, <2>1, <2>2 DEF LoopRead, SingleKind
<1>5. CASE m.id \notin pending
  <2>1. UNCHANGED <<cur, loop, pending>>
    BY <1>5 DEF LoopRead
  <2> QED
    BY <1>2, <1>4, <2>1, HubStutter DEF hubView
<1>6. CASE m.id \in pending
  <2>1. /\ cur' = m /\ loop' = "send"
        /\ pending' = IF IsLast(m) THEN pending \ {m.id} ELSE pending
    BY <1>6 DEF LoopRead
  <2>2. m.id \notin closed /\ call[m.id] \notin {"idle", "got"}
    BY <1>3, <1>6 DEF HubInv, Disjoint, Fresh
  <2>3. m.id \in Buffered => chan[m.id] = <<>>
    <3> SUFFICES ASSUME m.id \in Buffered, chan[m.id] # <<>>
                 PROVE  FALSE
      OBVIOUS
    <3>1. Len(chan[m.id]) \in Nat \ {0}
      BY <1>3, EmptySeq DEF TypeOK
    <3>2. IsLast(chan[m.id][1])
      BY <3>1 DEF HubInv, BufferedChan, IsLast, IsChunk
    <3> QED
      BY <1>3, <1>6, <3>1, <3>2 DEF HubInv, LastGone
  <2>4. IsLast(cur') = IsLast(m)
    BY <2>1 DEF IsLast, IsChunk, IsDone
  <2> HIDE DEF m
  <2>5. Disjoint' /\ LastGone' /\ PumpOfOk' /\ NoPendingLeak'
    BY <1>2, <2>1 DEF HubInv, Disjoint, LastGone, PumpOfOk, NoPendingLeak
  <2>6. Fresh'
    BY <1>2, <1>3, <2>1, <2>2 DEF HubInv, Fresh, Handing
  <2>7. HandOver'
    BY <1>2, <2>1, <2>2, <2>4 DEF HubInv, HandOver
  <2>8. BufferedChan'
    BY <1>2, <2>1, <2>3 DEF HubInv, BufferedChan
  <2>9. Wakeup'
    BY <1>2, <2>1 DEF HubInv, Wakeup, Handing
  <2> QED
    BY <1>4, <2>5, <2>6, <2>7, <2>8, <2>9 DEF HubInv
<1> QED
  BY <1>5, <1>6

LEMMA LoopSendHub ==
  ASSUME TypeOK, HubInv, LoopSend
  PROVE  HubInv'
<1>1. /\ UNCHANGED <<cur, pending, closed, call, pump, toHub>>
      /\ loop = "send" /\ loop' \in {"read", "close"}
      /\ loop' = "close" => ClosesChannel(cur)
  BY DEF LoopSend, callVars, wireVars
<1>2. cur \in Responses /\ cur.id \in Requests
  BY DEF TypeOK, Responses
<1>3. /\ \A q \in Requests \ {cur.id} : chan'[q] = chan[q]
      /\ chan'[cur.id] = Append(chan[cur.id], cur)
  BY <1>2 DEF LoopSend, TypeOK
<1>4. /\ chan'[cur.id] # <<>>
      /\ Len(chan[cur.id]) \in Nat /\ Len(chan'[cur.id]) = Len(chan[cur.id]) + 1
      /\ \A i \in 1..Len(chan[cur.id]) : chan'[cur.id][i] = chan[cur.id][i]
      /\ chan'[cur.id][Len(chan[cur.id]) + 1] = cur
  <2>1. chan[cur.id] \in Seq(Responses)
    BY <1>2 DEF TypeOK
  <2> QED
    BY <1>2, <1>3, <2>1, AppendElements, LenProperties
<1>5. ClosesChannel(cur) => IsLast(cur)
  BY DEF ClosesChannel, IsLast
<1>6. Disjoint' /\ PumpOfOk' /\ NoPendingLeak' /\ SingleKind'
  BY <1>1 DEF HubInv, Disjoint, PumpOfOk, NoPendingLeak, SingleKind
<1>7. Fresh'
  BY <1>1, <1>2, <1>3 DEF HubInv, Fresh, Handing
<1>8. HandOver'
  BY <1>1, <1>5 DEF HubInv, HandOver, IsLast, IsChunk, IsDone
<1>9. LastGone'
  <2> SUFFICES ASSUME NEW q \in Requests, NEW i \in 1..Len(chan'[q]), IsLast(chan'[q][i])
               PROVE  q \notin pending
    BY <1>1 DEF LastGone, IsLast, IsChunk, IsDone
  <2>1. CASE q # cur.id
    BY <1>3, <2>1 DEF HubInv, LastGone
  <2>2. CASE q = cur.id /\ i \in 1..Len(chan[q])
    BY <1>4, <2>2 DEF HubInv, LastGone
  <2>3. CASE q = cur.id /\ i = Len(chan[q]) + 1
    BY <1>1, <1>4, <2>3 DEF HubInv, HandOver
  <2> QED
    BY <1>4, <2>1, <2>2, <2>3
<1>10. BufferedChan'
  <2> SUFFICES ASSUME NEW q \in Buffered
               PROVE  \A i \in 1..Len(chan'[q]) : chan'[q][i].kind \in {"reply", "error"}
    BY <1>1 DEF BufferedChan
  <2>1. q \in Requests
    BY DEF Buffered
  <2>2. CASE q # cur.id
    BY <1>3, <2>1, <2>2 DEF HubInv, BufferedChan
  <2>3. CASE q = cur.id
    BY <1>1, <1>4, <2>3 DEF HubInv, BufferedChan, SingleKind
  <2> QED
    BY <2>2, <2>3
<1>11. Wakeup'
  BY <1>1, <1>2, <1>3, <1>4 DEF HubInv, Wakeup, Handing
<1> QED
  BY <1>6, <1>7, <1>8, <1>9, <1>10, <1>11 DEF HubInv

LEMMA LoopCloseHub ==
  ASSUME TypeOK, HubInv, LoopClose
  PROVE  HubInv'
<1>1. /\ UNCHANGED <<cur, pending, chan, call, pump, toHub>>
      /\ loop = "close" /\ loop' = "read" /\ closed' = closed \cup {cur.id}
  BY DEF LoopClose, callVars, wireVars
<1>2. cur.id \notin pending
  BY <1>1 DEF HubInv, HandOver
<1>3. Disjoint'
  BY <1>1, <1>2 DEF HubInv, Disjoint
<1>4. Fresh'
  BY <1>1, <1>2 DEF HubInv, Fresh, Handing
<1>5. HandOver'
  BY <1>1, <1>2 DEF HubInv, HandOver, Fresh, Handing
<1>6. LastGone'
  BY <1>1, <1>2 DEF HubInv, LastGone
<1>7. SingleKind'
  BY <1>1, <1>2 DEF HubInv, SingleKind
<1>8. BufferedChan'
  BY <1>1, <1>2 DEF HubInv, BufferedChan
<1>9. Wakeup'
  BY <1>1, <1>2 DEF HubInv, Wakeup, Handing
<1>10. PumpOfOk'
  BY <1>1, <1>2 DEF HubInv, PumpOfOk
<1>11. NoPendingLeak'
  BY <1>1, <1>2 DEF HubInv, NoPendingLeak, TypeOK
<1> QED
  BY <1>3, <1>4, <1>5, <1>6, <1>7, <1>8, <1>9, <1>10, <1>11 DEF HubInv

LEMMA LoopFailsHub ==
  ASSUME TypeOK, HubInv, LoopFails
  PROVE  HubInv'
<1>1. /\ UNCHANGED <<cur, chan, call, pump, toHub>>
      /\ loop = "read" /\ loop' = "failed"
      /\ pending' = {} /\ closed' = closed \cup pending
  BY DEF LoopFails, callVars, wireVars
<1>2. Disjoint'
  BY <1>1 DEF HubInv, Disjoint
<1>3. Fresh'
  BY <1>1 DEF HubInv, Fresh, Handing
<1>4. HandOver'
  BY <1>1 DEF HubInv, HandOver, Fresh, Handing
<1>5. LastGone'
  BY <1>1 DEF HubInv, LastGone
<1>6. SingleKind'
  BY <1>1 DEF HubInv, SingleKind
<1>7. BufferedChan'
  BY <1>1 DEF HubInv, BufferedChan
<1>8. Wakeup'
  BY <1>1 DEF HubInv, Wakeup, Handing
<1>9. PumpOfOk'
  BY <1>1 DEF HubInv, PumpOfOk
<1>10. NoPendingLeak'
  BY <1>1 DEF HubInv, NoPendingLeak, TypeOK
<1> QED
  BY <1>2, <1>3, <1>4, <1>5, <1>6, <1>7, <1>8, <1>9, <1>10 DEF HubInv

(* What an agent's goroutine sends for a buffered request is a reply or an *)
(* error.                                                                  *)
LEMMA AgentSendHub ==
  ASSUME TypeOK, HubInv, NEW m \in Responses, AgentSend(m) \/ AgentSendFails,
         m.id \in Buffered => m.kind \in {"reply", "error"},
         UNCHANGED <<hubVars, callVars>>
  PROVE  HubInv'
<1>1. UNCHANGED hubView
  BY DEF hubView, hubVars, callVars
<1>2. SingleKind'
  <2>1. CASE UNCHANGED toHub
    BY <1>1, <2>1 DEF HubInv, SingleKind, hubView
  <2>2. CASE toHub' = Append(toHub, m)
    <3>1. /\ Len(toHub) \in Nat /\ Len(toHub') = Len(toHub) + 1
          /\ \A i \in 1..Len(toHub) : toHub'[i] = toHub[i]
          /\ toHub'[Len(toHub) + 1] = m
      BY <2>2, AppendElements, LenProperties DEF TypeOK
    <3> QED
      BY <1>1, <3>1 DEF HubInv, SingleKind, hubView
  <2> QED
    BY <2>1, <2>2 DEF AgentSend, AgentSendFails, wireVars
<1> QED
  BY <1>1, <1>2, HubStutter

LEMMA SeverHub ==
  ASSUME TypeOK, HubInv, Sever, loop' = loop \/ (loop = "failed" /\ loop' = "exited"),
         UNCHANGED <<cur, pending, chan, closed, call, pump>>
  PROVE  HubInv'
<1>1. PICK n \in 0..Len(toHub) : toHub' = Prefix(toHub, n)
  BY DEF Sever
<1>2. /\ Len(toHub) \in Nat /\ Len(toHub') = n
      /\ \A i \in 1..n : toHub'[i] = toHub[i]
  BY <1>1, PrefixElements, LenProperties DEF TypeOK
<1>3. Disjoint'
  BY <1>2 DEF HubInv, Disjoint
<1>4. Fresh'
  BY <1>2 DEF HubInv, Fresh, Handing
<1>5. HandOver'
  BY <1>2 DEF HubInv, HandOver, Fresh, Handing
<1>6. LastGone'
  BY <1>2 DEF HubInv, LastGone
<1>7. SingleKind'
  BY <1>2 DEF HubInv, SingleKind
<1>8. BufferedChan'
  BY <1>2 DEF HubInv, BufferedChan
<1>9. Wakeup'
  BY <1>2 DEF HubInv, Wakeup, Handing
<1>10. PumpOfOk'
  BY <1>2 DEF HubInv, PumpOfOk
<1>11. NoPendingLeak'
  BY <1>2 DEF HubInv, NoPendingLeak, TypeOK
<1> QED
  BY <1>3, <1>4, <1>5, <1>6, <1>7, <1>8, <1>9, <1>10, <1>11 DEF HubInv

LEMMA CallerHub ==
  ASSUME TypeOK, HubInv, NEW r \in Requests, Caller(r)
  PROVE  HubInv'
<1>1. CASE Get(r)
  <2>1. call' = [call EXCEPT ![r] = IF inTunnels THEN "got" ELSE "failed"]
    BY <1>1 DEF Get
  <2>2. r \notin pending
    BY <1>1 DEF Get, HubInv, Fresh
  <2> QED
    BY <1>1, <2>1, <2>2, CallMoves DEF Get, hubVars, wireVars
<1>2. CASE Register(r)
  BY <1>2, RegisterHub
<1>3. CASE SendRequest(r)
  <2>1. UNCHANGED toHub
    BY <1>3 DEF SendRequest, HubSend
  <2> QED
    BY <1>3, <2>1, CallMoves DEF SendRequest, hubVars
<1>4. CASE SendRequestFails(r)
  BY <1>4, CallMoves DEF SendRequestFails, HubSendFails, wireVars
<1>5. CASE RoundTripReturns(r)
  <2> DEFINE v == IF Head(chan[r]).kind = "error" THEN "failed" ELSE "ok"
  <2>1. r \notin pending
    <3>1. chan[r] \in Seq(Responses) /\ chan[r] # <<>> /\ r \in Buffered
      BY <1>5 DEF TypeOK, RoundTripReturns
    <3>2. Len(chan[r]) \in Nat \ {0}
      BY <3>1, TailElements
    <3>3. IsLast(chan[r][1])
      BY <3>1, <3>2 DEF HubInv, BufferedChan, IsLast, IsChunk
    <3> QED
      BY <3>2, <3>3 DEF HubInv, LastGone
  <2>2. /\ chan[r] # <<>> /\ chan' = [chan EXCEPT ![r] = Tail(@)]
        /\ call' = [call EXCEPT ![r] = v]
        /\ UNCHANGED <<loop, cur, pending, closed, toHub, pump>>
    BY <1>5 DEF RoundTripReturns, wireVars
  <2>3. pump[r] = "none" /\ v \in {"ok", "failed"}
    BY <1>5 DEF RoundTripReturns, HubInv, PumpOfOk
  <2> HIDE DEF v
  <2> QED
    BY <2>1, <2>2, <2>3, ReceiveHub
<1>6. CASE ReturnsClosed(r)
  <2>1. r \notin pending
    BY <1>6 DEF ReturnsClosed, HubInv, Disjoint
  <2> QED
    BY <1>6, <2>1, CallMoves DEF ReturnsClosed, hubVars, wireVars
<1>7. CASE Timeout(r)
  BY <1>7, CallMoves DEF Timeout, wireVars
<1>8. CASE StreamFirst(r)
  <2> DEFINE v == IF Head(chan[r]).kind = "error" THEN "failed" ELSE "ok"
  <2>1. /\ chan[r] # <<>> /\ chan' = [chan EXCEPT ![r] = Tail(@)]
        /\ UNCHANGED <<loop, cur, pending, closed, toHub>>
        /\ r \notin Buffered /\ call[r] = "waiting"
    BY <1>8 DEF StreamFirst, wireVars, Buffered
  <2>2. call' = [call EXCEPT ![r] = v]
    BY <1>8 DEF StreamFirst
  <2>3. v = "failed" => r \notin pending
    <3> SUFFICES ASSUME Head(chan[r]).kind = "error" PROVE r \notin pending
      OBVIOUS
    <3>1. Len(chan[r]) \in Nat \ {0} /\ Head(chan[r]) = chan[r][1]
      BY <2>1, TailElements DEF TypeOK
    <3>2. IsLast(chan[r][1])
      BY <3>1 DEF IsLast, IsChunk
    <3> QED
      BY <3>1, <3>2 DEF HubInv, LastGone
  <2>4. \A q \in Requests \ {r} : pump'[q] = pump[q]
    BY <1>8 DEF StreamFirst, TypeOK
  <2>5. pump'[r] # "none" => v = "ok"
    BY <1>8, <2>1 DEF StreamFirst, HubInv, PumpOfOk
  <2>6. v \in {"ok", "failed"}
    OBVIOUS
  <2> HIDE DEF v
  <2> QED
    BY <2>1, <2>2, <2>3, <2>4, <2>5, <2>6, ReceiveHub
<1> QED
  BY <1>1, <1>2, <1>3, <1>4, <1>5, <1>6, <1>7, <1>8 DEF Caller

(* A pump that does not receive changes nothing the invariant speaks of.   *)
LEMMA PumpMoves ==
  ASSUME TypeOK, HubInv, NEW r \in Requests, pump[r] # "none",
         \A q \in Requests \ {r} : pump'[q] = pump[q],
         UNCHANGED <<loop, cur, pending, chan, closed, call, toHub>>
  PROVE  HubInv'
<1>1. PumpOfOk'
  BY DEF HubInv, PumpOfOk
<1> QED
  BY <1>1 DEF HubInv, Disjoint, Fresh, Handing, HandOver, LastGone, SingleKind,
              BufferedChan, Wakeup, NoPendingLeak

LEMMA PumpHub ==
  ASSUME TypeOK, HubInv, NEW r \in Requests, Pump(r)
  PROVE  HubInv'
<1>1. CASE PumpReceive(r)
  <2>1. /\ chan[r] # <<>> /\ chan' = [chan EXCEPT ![r] = Tail(@)]
        /\ UNCHANGED <<loop, cur, pending, closed, toHub, call>>
        /\ pump[r] = "receive"
    BY <1>1 DEF PumpReceive, wireVars
  <2>2. call[r] = "ok" /\ call' = [call EXCEPT ![r] = "ok"]
    BY <2>1 DEF TypeOK, HubInv, PumpOfOk
  <2>3. r \in Buffered => r \notin pending
    BY <2>2 DEF HubInv, NoPendingLeak
  <2>4. \A q \in Requests \ {r} : pump'[q] = pump[q]
    BY <1>1 DEF PumpReceive, TypeOK
  <2> QED
    BY <2>1, <2>2, <2>3, <2>4, ReceiveHub
<1>2. CASE PumpEnds(r)
  BY <1>2, PumpMoves DEF TypeOK, PumpEnds, hubVars, wireVars
<1>3. CASE Read(r)
  BY <1>3, PumpMoves DEF TypeOK, Read, hubVars, wireVars
<1>4. CASE CloseReader(r)
  <2>1. UNCHANGED hubView /\ UNCHANGED toHub
    BY <1>4 DEF CloseReader, hubView, hubVars, wireVars
  <2> QED
    BY <2>1, HubStutter DEF HubInv, SingleKind, hubView
<1>5. CASE PumpWriteFails(r)
  BY <1>5, PumpMoves DEF TypeOK, PumpWriteFails, hubVars, wireVars
<1>6. CASE SendCancel(r)
  <2>1. UNCHANGED toHub
    BY <1>6 DEF SendCancel, HubSend, HubSendFails, wireVars
  <2> QED
    BY <1>6, <2>1, PumpMoves DEF TypeOK, SendCancel, hubVars
<1> QED
  BY <1>1, <1>2, <1>3, <1>4, <1>5, <1>6 DEF Pump

LEMMA HandlerHub ==
  ASSUME TypeOK, HubInv, NEW r \in Requests, Handler(r)
  PROVE  HubInv'
<1> USE DEF Message
<1>1. ASSUME UNCHANGED <<hubVars, callVars, wireVars>>
      PROVE  HubInv'
  <2>1. UNCHANGED hubView /\ UNCHANGED toHub
    BY <1>1 DEF hubView, hubVars, callVars, wireVars
  <2> QED
    BY <2>1, HubStutter DEF HubInv, SingleKind, hubView
<1>2. CASE Do(r) \/ StreamStart(r) \/ BodyReads(r) \/ BodyEnds(r) \/ Cleanup(r)
  BY <1>1, <1>2 DEF Do, StreamStart, BodyReads, BodyEnds, Cleanup, AgentOnly
<1>3. CASE SendReply(r)
  BY <1>3, AgentSendHub, MessageTypes DEF SendReply, Kinds
<1>4. CASE SendError(r)
  BY <1>4, AgentSendHub, MessageTypes DEF SendError, Kinds
<1>5. CASE SendHead(r)
  <2>1. r \notin Buffered
    BY <1>5 DEF SendHead, TypeOK, BufferedStates, Buffered
  <2> QED
    BY <1>5, <2>1, AgentSendHub, MessageTypes DEF SendHead, Kinds
<1>6. CASE SendChunk(r)
  <2>1. r \notin Buffered
    BY <1>6 DEF SendChunk, TypeOK, BufferedStates, Buffered
  <2>2. [id |-> r, kind |-> "data", n |-> sent[r]] \in Responses
    BY DEF TypeOK, Responses, Kinds
  <2> QED
    BY <1>6, <2>1, <2>2, AgentSendHub DEF SendChunk
<1>7. CASE SendDone(r)
  <2>1. r \notin Buffered
    BY <1>7 DEF SendDone, TypeOK, BufferedStates, Buffered
  <2> QED
    BY <1>7, <2>1, AgentSendHub, MessageTypes DEF SendDone, Kinds
<1> QED
  BY <1>2, <1>3, <1>4, <1>5, <1>6, <1>7 DEF Handler

LEMMA NextHub == TypeOK /\ HubInv /\ [Next]_vars => HubInv'
<1> SUFFICES ASSUME TypeOK, HubInv, [Next]_vars
             PROVE  HubInv'
  OBVIOUS
<1>1. ASSUME UNCHANGED hubView, UNCHANGED toHub
      PROVE  HubInv'
  BY <1>1, HubStutter DEF HubInv, SingleKind, hubView
<1>2. CASE LoopExits
  BY <1>2, SeverHub DEF LoopExits, callVars
<1>3. CASE ReadLoop
  BY <1>2, <1>3, LoopReadHub, LoopSendHub, LoopCloseHub, LoopFailsHub DEF ReadLoop
<1>4. CASE Unregister
  <2>1. loop = "exited" /\ loop' = "left" /\ UNCHANGED <<cur, pending, chan, closed, call, pump, toHub>>
    BY <1>4 DEF Unregister, callVars, wireVars
  <2>2. Disjoint' /\ HandOver' /\ LastGone' /\ SingleKind' /\ BufferedChan' /\ PumpOfOk'
    BY <2>1 DEF HubInv, Disjoint, HandOver, LastGone, SingleKind, BufferedChan, PumpOfOk
  <2>3. Fresh' /\ Wakeup' /\ NoPendingLeak'
    BY <2>1 DEF HubInv, Fresh, Handing, Wakeup, NoPendingLeak
  <2> QED
    BY <2>2, <2>3 DEF HubInv
<1>5. CASE Replace \/ Break
  <2>1. loop' = loop /\ Sever /\ UNCHANGED <<cur, pending, chan, closed, call, pump>>
    BY <1>5 DEF Replace, Break, hubVars, callVars
  <2> QED
    BY <2>1, SeverHub
<1>6. CASE AgentReads \/ AgentLoses
  BY <1>1, <1>6 DEF AgentReads, AgentLoses, hubView, hubVars, callVars, wireVars
<1>7. CASE UNCHANGED vars
  BY <1>1, <1>7 DEF vars, hubView, hubVars, callVars, wireVars
<1>8. CASE \E r \in Requests : Caller(r) \/ Pump(r) \/ Handler(r)
  BY <1>8, CallerHub, PumpHub, HandlerHub
<1> QED
  BY <1>3, <1>4, <1>5, <1>6, <1>7, <1>8 DEF Next

LEMMA HubSafe == Spec => [](TypeOK /\ HubInv)
<1>1. Init => TypeOK /\ HubInv
  BY InitTypes, InitHub
<1>2. TypeOK /\ HubInv /\ [Next]_vars => (TypeOK /\ HubInv)'
  BY NextTypes, NextHub
<1> QED
  BY <1>1, <1>2, PTL DEF Spec

(* readLoop never sends on a closed channel and never closes one twice,    *)
(* for any number of calls, streams and breaks (hub.go:161-171, 148-153).  *)
THEOREM ChannelsSafe == Spec => []ChannelSafety
<1>1. HubInv => ChannelSafety
  BY DEF HubInv, Disjoint, HandOver, ChannelSafety
<1> QED
  BY <1>1, HubSafe, PTL

(* No call that has returned leaves its entry in ac.pending.               *)
THEOREM PendingClean == Spec => []NoPendingLeak
<1>1. HubInv => NoPendingLeak
  BY DEF HubInv
<1> QED
  BY <1>1, HubSafe, PTL

(* A waiting call that is out of ac.pending always has a wakeup coming.    *)
THEOREM NoLostWakeup == Spec => []WaiterHasWakeup
<1>1. HubInv => WaiterHasWakeup
  BY DEF HubInv, Wakeup, Handing, WaiterHasWakeup
<1> QED
  BY <1>1, HubSafe, PTL

(* readLoop never blocks on the channel of a buffered call.                *)
THEOREM BufferedNeverBlocks == Spec => []BufferedNeverBlocksLoop
<1>1. TypeOK /\ HubInv => BufferedNeverBlocksLoop
  BY EmptySeq DEF HubInv, BufferedChan, BufferedNeverBlocksLoop, Capacity, Buffered
<1> QED
  BY <1>1, HubSafe, PTL
=============================================================================
