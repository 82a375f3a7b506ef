---------------------------- MODULE TunnelCancel ----------------------------
(***************************************************************************)
(* A cancel of the hub finds its stream at the agent, for every set of     *)
(* streams and every interleaving (CancelFindsStream).  handleStreamRequest *)
(* puts the stream in a.streams before it makes the call (agent.go:175),   *)
(* so every message that opens a stream at the hub is evidence of that,    *)
(* and a stream that leaves a.streams has been cancelled.                  *)
(***************************************************************************)
EXTENDS TunnelProofs

(* The streams the agent has had in a.streams, and the buffered requests,  *)
(* which never enter it.                                                   *)
Known == streams \cup cancelled \cup Buffered

(* A goroutine that is past its registration.                              *)
Past == {"do", "head", "body", "chunk", "done", "cleanup"}
Opened == \A r \in Requests : handler[r] \in Past => r \in Known

(* What a message that is not an error says of its stream, wherever it is, *)
(* and what a running pump does.                                           *)
Witnessed ==
  /\ \A i \in 1..Len(toHub) : toHub[i].kind # "error" => toHub[i].id \in Known
  /\ loop = "send" /\ cur.kind # "error" => cur.id \in Known
  /\ \A r \in Requests : \A i \in 1..Len(chan[r]) :
       chan[r][i].kind # "error" => r \in Known
Pumping == \A r \in Requests : pump[r] # "none" => r \in Known

FoundInv == Opened /\ Witnessed /\ Pumping

Grows == Known \subseteq Known'

LEMMA InitFound == Init => FoundInv
<1> SUFFICES ASSUME Init PROVE FoundInv
  OBVIOUS
<1>1. \A r \in Requests : Len(chan[r]) = 0
  BY EmptySeq DEF Init
<1>2. Len(toHub) = 0
  BY EmptySeq DEF Init
<1> QED
  BY <1>1, <1>2 DEF Init, FoundInv, Opened, Witnessed, Pumping, Past

-----------------------------------------------------------------------------
(* Witnessed.                                                              *)

LEMMA WitnessedKept ==
  ASSUME Witnessed, Grows, UNCHANGED <<toHub, cur, chan>>,
         loop' = loop \/ loop' # "send"
  PROVE  Witnessed'
BY DEF Witnessed, Grows

LEMMA WitnessedSent ==
  ASSUME TypeOK, Witnessed, Grows, NEW m \in Responses, AgentSend(m) \/ AgentSendFails,
         m.kind # "error" => m.id \in Known, UNCHANGED hubVars
  PROVE  Witnessed'
<1>1. UNCHANGED <<loop, cur, chan>>
  BY DEF hubVars
<1>2. CASE UNCHANGED toHub
  BY <1>1, <1>2, WitnessedKept
<1>3. CASE toHub' = Append(toHub, m)
  <2>1. /\ Len(toHub) \in Nat /\ Len(toHub') = Len(toHub) + 1
        /\ \A i \in 1..Len(toHub) : toHub'[i] = toHub[i]
        /\ toHub'[Len(toHub) + 1] = m
    BY <1>3, AppendElements, LenProperties DEF TypeOK
  <2> QED
    BY <1>1, <2>1 DEF Witnessed, Grows
<1> QED
  BY <1>2, <1>3 DEF AgentSend, AgentSendFails, wireVars

LEMMA WitnessedShorter ==
  ASSUME TypeOK, Witnessed, Grows, NEW n \in 0..Len(toHub), toHub' = Prefix(toHub, n),
         UNCHANGED <<cur, chan>>, loop' = loop \/ loop' # "send"
  PROVE  Witnessed'
<1>1. /\ Len(toHub) \in Nat /\ Len(toHub') = n
      /\ \A i \in 1..n : toHub'[i] = toHub[i]
  BY PrefixElements, LenProperties DEF TypeOK
<1> QED
  BY <1>1 DEF Witnessed, Grows

LEMMA WitnessedReceived ==
  ASSUME TypeOK, Witnessed, Grows, NEW r \in Requests,
         chan[r] # <<>>, chan' = [chan EXCEPT ![r] = Tail(@)],
         UNCHANGED <<toHub, loop, cur>>
  PROVE  Witnessed' /\ (Head(chan[r]).kind # "error" => r \in Known)
<1>1. \A q \in Requests \ {r} : chan'[q] = chan[q]
  BY DEF TypeOK
<1>2. /\ chan'[r] = Tail(chan[r]) /\ Head(chan[r]) = chan[r][1]
      /\ Len(chan[r]) \in Nat \ {0}
      /\ Len(chan'[r]) = Len(chan[r]) - 1
      /\ \A i \in 1..Len(chan'[r]) : chan'[r][i] = chan[r][i + 1]
  BY TailElements DEF TypeOK
<1> QED
  BY <1>1, <1>2 DEF Witnessed, Grows

LEMMA WitnessedLoopRead ==
  ASSUME TypeOK, Witnessed, Grows, LoopRead
  PROVE  Witnessed'
<1> DEFINE m == Head(toHub)
<1>1. /\ m = toHub[1] /\ Len(toHub) \in Nat \ {0}
      /\ Len(toHub') = Len(toHub) - 1
      /\ \A i \in 1..Len(toHub') : toHub'[i] = toHub[i + 1]
  BY TailElements DEF LoopRead, TypeOK
<1>2. UNCHANGED chan /\ (cur' = m \/ UNCHANGED <<cur, loop>>)
  BY DEF LoopRead
<1> HIDE DEF m
<1> QED
  BY <1>1, <1>2 DEF Witnessed, Grows

LEMMA WitnessedLoopSend ==
  ASSUME TypeOK, Witnessed, Grows, LoopSend
  PROVE  Witnessed'
<1>1. UNCHANGED <<cur, toHub>> /\ loop = "send" /\ loop' # "send"
  BY DEF LoopSend, wireVars
<1>2. cur \in Responses /\ cur.id \in Requests /\ chan[cur.id] \in Seq(Responses)
  BY DEF TypeOK, Responses
<1>3. /\ \A q \in Requests \ {cur.id} : chan'[q] = chan[q]
      /\ chan'[cur.id] = Append(chan[cur.id], cur)
  BY <1>2 DEF LoopSend, TypeOK
<1>4. /\ Len(chan[cur.id]) \in Nat /\ Len(chan'[cur.id]) = Len(chan[cur.id]) + 1
      /\ \A i \in 1..Len(chan[cur.id]) : chan'[cur.id][i] = chan[cur.id][i]
      /\ chan'[cur.id][Len(chan[cur.id]) + 1] = cur
  BY <1>2, <1>3, AppendElements, LenProperties
<1>5. cur.kind # "error" => cur.id \in Known
  BY <1>1 DEF Witnessed
<1>6. ASSUME NEW q \in Requests, NEW i \in 1..Len(chan'[q]), chan'[q][i].kind # "error"
      PROVE  q \in Known
  <2>1. CASE q = cur.id
    <3>1. CASE i = Len(chan[q]) + 1
      BY <1>4, <1>5, <1>6, <2>1, <3>1
    <3>2. CASE i \in 1..Len(chan[q])
      <4>1. chan[q][i].kind # "error"
        BY <1>4, <1>6, <2>1, <3>2
      <4> QED
        BY <3>2, <4>1 DEF Witnessed
    <3> QED
      BY <1>4, <1>6, <2>1, <3>1, <3>2
  <2>2. CASE q # cur.id
    BY <1>3, <1>6, <2>2 DEF Witnessed
  <2> QED
    BY <2>1, <2>2
<1> QED
  BY <1>1, <1>6 DEF Witnessed, Grows

-----------------------------------------------------------------------------
(* Every step keeps the invariant.                                         *)

(* No step of the hub's side, or of the network, concerns a.streams.       *)
LEMMA HubSide ==
  ASSUME FoundInv, UNCHANGED <<handler, streams, cancelled, pump>>
  PROVE  Grows /\ Opened' /\ Pumping'
BY DEF FoundInv, Grows, Known, Opened, Pumping

LEMMA FoundCaller ==
  ASSUME TypeOK, FoundInv, NEW r \in Requests, Caller(r)
  PROVE  FoundInv'
<1>1. UNCHANGED <<handler, streams, cancelled, toHub, loop, cur>>
  BY DEF Caller, Get, Register, SendRequest, SendRequestFails, RoundTripReturns,
         ReturnsClosed, Timeout, StreamFirst, HubSend, HubSendFails,
         hubVars, wireVars, agentVars
<1>2. CASE UNCHANGED <<chan, pump>>
  BY <1>1, <1>2, HubSide, WitnessedKept DEF FoundInv
<1>3. CASE RoundTripReturns(r) \/ StreamFirst(r)
  <2>1. chan[r] # <<>> /\ chan' = [chan EXCEPT ![r] = Tail(@)]
    BY <1>3 DEF RoundTripReturns, StreamFirst
  <2>2. Grows /\ Opened'
    BY <1>1 DEF FoundInv, Grows, Known, Opened
  <2>3. Witnessed' /\ (Head(chan[r]).kind # "error" => r \in Known)
    BY <1>1, <2>1, <2>2, WitnessedReceived DEF FoundInv
  <2>4. /\ \A q \in Requests \ {r} : pump'[q] = pump[q]
        /\ Head(chan[r]).kind = "error" => pump' = pump
    BY <1>3 DEF RoundTripReturns, StreamFirst, TypeOK, Buffered
  <2>5. pump'[r] # "none" => pump[r] # "none" \/ Head(chan[r]).kind # "error"
    BY <2>4
  <2>6. Pumping'
    BY <2>2, <2>3, <2>4, <2>5 DEF FoundInv, Pumping, Grows
  <2> QED
    BY <2>2, <2>3, <2>6 DEF FoundInv
<1> QED
  BY <1>2, <1>3 DEF Caller, Get, Register, SendRequest, SendRequestFails,
     ReturnsClosed, Timeout, hubVars, callVars

LEMMA FoundPump ==
  ASSUME TypeOK, FoundInv, NEW r \in Requests, Pump(r)
  PROVE  FoundInv'
<1>1. UNCHANGED <<handler, streams, cancelled, toHub, loop, cur>>
  BY DEF Pump, PumpReceive, PumpEnds, Read, CloseReader, PumpWriteFails, SendCancel,
         HubSend, HubSendFails, hubVars, wireVars, agentVars
<1>2. Grows /\ Opened'
  BY <1>1 DEF FoundInv, Grows, Known, Opened
<1>3. /\ \A q \in Requests \ {r} : pump'[q] = pump[q]
      /\ pump'[r] # "none" => pump[r] # "none"
  BY DEF Pump, PumpReceive, PumpEnds, Read, CloseReader, PumpWriteFails, SendCancel, TypeOK
<1>4. Pumping'
  BY <1>2, <1>3 DEF FoundInv, Pumping, Grows
<1>5. CASE PumpReceive(r)
  <2>1. chan[r] # <<>> /\ chan' = [chan EXCEPT ![r] = Tail(@)]
    BY <1>5 DEF PumpReceive
  <2> QED
    BY <1>1, <1>2, <1>4, <2>1, WitnessedReceived DEF FoundInv
<1>6. CASE UNCHANGED chan
  BY <1>1, <1>2, <1>4, <1>6, WitnessedKept DEF FoundInv
<1> QED
  BY <1>5, <1>6 DEF Pump, PumpEnds, Read, CloseReader, PumpWriteFails, SendCancel, hubVars

(* A goroutine of the agent sends m, or fails to, and moves on.            *)
LEMMA FoundSend ==
  ASSUME TypeOK, FoundInv, NEW r \in Requests, NEW m \in Responses, m.id = r,
         AgentSend(m) \/ AgentSendFails,
         UNCHANGED <<hubVars, callVars, streams, cancelled>>,
         m.kind # "error" => r \in Known,
         \A q \in Requests \ {r} : handler'[q] = handler[q],
         handler'[r] \in Past => r \in Known
  PROVE  FoundInv'
<1>1. Grows /\ Opened' /\ Pumping'
  BY DEF FoundInv, Grows, Known, Opened, Pumping, callVars
<1> QED
  BY <1>1, WitnessedSent DEF FoundInv

LEMMA FoundHandler ==
  ASSUME TypeOK, FoundInv, NEW r \in Requests, Handler(r)
  PROVE  FoundInv'
<1> USE DEF HandlerTo
<1>1. CASE Do(r) \/ StreamStart(r) \/ BodyReads(r) \/ BodyEnds(r) \/ Cleanup(r)
  <2>1. AgentOnly
    BY <1>1 DEF Do, StreamStart, BodyReads, BodyEnds, Cleanup
  <2>2. UNCHANGED <<toHub, loop, cur, chan, pump>>
    BY <2>1 DEF AgentOnly, hubVars, callVars, wireVars
  <2>3. Grows
    BY <1>1 DEF Do, StreamStart, BodyReads, BodyEnds, Cleanup, Grows, Known
  <2>4. \A q \in Requests \ {r} : handler'[q] = handler[q]
    BY <1>1 DEF Do, StreamStart, BodyReads, BodyEnds, Cleanup, TypeOK
  <2>5. handler'[r] \in Past => handler[r] \in Past \/ r \in Known'
    BY <1>1 DEF Do, StreamStart, BodyReads, BodyEnds, Cleanup, TypeOK, Past, Known
  <2>6. Opened'
    BY <2>3, <2>4, <2>5 DEF FoundInv, Opened, Grows
  <2>7. Pumping'
    BY <2>2, <2>3 DEF FoundInv, Pumping, Grows
  <2> QED
    BY <2>2, <2>3, <2>6, <2>7, WitnessedKept DEF FoundInv
<1>2. CASE SendReply(r)
  <2>1. Message(r, "reply") \in Responses /\ Message(r, "reply").id = r
    BY MessageTypes DEF Kinds, Message
  <2>2. r \in Buffered
    BY <1>2 DEF SendReply, TypeOK, Buffered, StreamStates
  <2>3. /\ handler'[r] = "end" /\ \A q \in Requests \ {r} : handler'[q] = handler[q]
    BY <1>2 DEF SendReply, TypeOK
  <2> QED
    BY <1>2, <2>1, <2>2, <2>3, FoundSend DEF SendReply, Known, Past
<1>3. CASE SendError(r)
  <2>1. /\ Message(r, "error") \in Responses
        /\ Message(r, "error").id = r /\ Message(r, "error").kind = "error"
    BY MessageTypes DEF Kinds, Message
  <2>2. /\ handler'[r] = IF r \in streams THEN "cleanup" ELSE "end"
        /\ \A q \in Requests \ {r} : handler'[q] = handler[q]
    BY <1>3 DEF SendError, TypeOK
  <2> QED
    BY <1>3, <2>1, <2>2, FoundSend DEF SendError, Known, Past
<1>4. CASE SendHead(r)
  <2>1. Message(r, "head") \in Responses /\ Message(r, "head").id = r
    BY MessageTypes DEF Kinds, Message
  <2>2. r \in Known
    BY <1>4 DEF SendHead, FoundInv, Opened, Past
  <2>3. \A q \in Requests \ {r} : handler'[q] = handler[q]
    BY <1>4 DEF SendHead, TypeOK
  <2> QED
    BY <1>4, <2>1, <2>2, <2>3, FoundSend DEF SendHead
<1>5. CASE SendChunk(r)
  <2> DEFINE m == [id |-> r, kind |-> "data", n |-> sent[r]]
  <2>1. m \in Responses /\ m.id = r
    BY DEF Responses, Kinds, TypeOK
  <2>2. r \in Known
    BY <1>5 DEF SendChunk, FoundInv, Opened, Past
  <2>3. \A q \in Requests \ {r} : handler'[q] = handler[q]
    BY <1>5 DEF SendChunk, TypeOK
  <2>4. AgentSend(m) \/ AgentSendFails
    BY <1>5 DEF SendChunk
  <2> HIDE DEF m
  <2> QED
    BY <1>5, <2>1, <2>2, <2>3, <2>4, FoundSend DEF SendChunk
<1>6. CASE SendDone(r)
  <2>1. Message(r, "done") \in Responses /\ Message(r, "done").id = r
    BY MessageTypes DEF Kinds, Message
  <2>2. r \in Known
    BY <1>6 DEF SendDone, FoundInv, Opened, Past
  <2>3. \A q \in Requests \ {r} : handler'[q] = handler[q]
    BY <1>6 DEF SendDone, TypeOK
  <2> QED
    BY <1>6, <2>1, <2>2, <2>3, FoundSend DEF SendDone
<1> QED
  BY <1>1, <1>2, <1>3, <1>4, <1>5, <1>6 DEF Handler

(* The agent's read loop: a request it reads is not past its registration  *)
(* if it is a stream, and a cancel moves a stream from a.streams to the    *)
(* cancelled ones.                                                         *)
LEMMA FoundAgentReads ==
  ASSUME TypeOK, FoundInv, AgentReads
  PROVE  FoundInv'
<1>1. UNCHANGED <<toHub, loop, cur, chan, pump>>
  BY DEF AgentReads, hubVars, callVars
<1>2. Grows
  BY DEF AgentReads, Grows, Known
<1>3. \A r \in Requests : handler'[r] \in Past => handler[r] \in Past \/ r \in Buffered
  BY DEF AgentReads, TypeOK, Past, Buffered
<1>4. Opened'
  BY <1>2, <1>3 DEF FoundInv, Opened, Grows, Known
<1>5. Pumping'
  BY <1>1, <1>2 DEF FoundInv, Pumping, Grows
<1> QED
  BY <1>1, <1>2, <1>4, <1>5, WitnessedKept DEF FoundInv

LEMMA FoundConnection ==
  ASSUME TypeOK, FoundInv, ReadLoop \/ Unregister \/ Replace \/ Break \/ AgentLoses
  PROVE  FoundInv'
<1>1. UNCHANGED <<handler, streams, cancelled, pump>>
  BY DEF ReadLoop, LoopRead, LoopSend, LoopClose, LoopFails, LoopExits, Unregister, Replace,
         Break, AgentLoses, callVars, agentVars
<1>2. Grows /\ Opened' /\ Pumping'
  BY <1>1, HubSide
<1>3. CASE LoopRead \/ LoopSend
  BY <1>2, <1>3, WitnessedLoopRead, WitnessedLoopSend DEF FoundInv
<1>4. CASE LoopClose \/ LoopFails \/ Unregister \/ AgentLoses
  <2>1. UNCHANGED <<toHub, cur, chan>> /\ (loop' = loop \/ loop' # "send")
    BY <1>4 DEF LoopClose, LoopFails, Unregister, AgentLoses, hubVars, wireVars
  <2> QED
    BY <1>2, <2>1, WitnessedKept DEF FoundInv
<1>5. CASE LoopExits \/ Replace \/ Break
  <2>1. Sever /\ UNCHANGED <<cur, chan>> /\ (loop' = loop \/ loop' # "send")
    BY <1>5 DEF LoopExits, Replace, Break, hubVars
  <2> QED
    BY <1>2, <2>1, WitnessedShorter DEF Sever, FoundInv
<1> QED
  BY <1>3, <1>4, <1>5 DEF ReadLoop

LEMMA NextFound == TypeOK /\ FoundInv /\ [Next]_vars => FoundInv'
<1> SUFFICES ASSUME TypeOK, FoundInv, [Next]_vars
             PROVE  FoundInv'
  OBVIOUS
<1>1. CASE UNCHANGED vars
  <2>1. UNCHANGED <<handler, streams, cancelled, pump, toHub, loop, cur, chan>>
    BY <1>1 DEF vars, hubVars, callVars, wireVars, agentVars
  <2> QED
    BY <2>1, HubSide, WitnessedKept DEF FoundInv
<1>2. CASE Next
  BY <1>2, FoundCaller, FoundPump, FoundHandler, FoundAgentReads, FoundConnection DEF Next
<1> QED
  BY <1>1, <1>2

(* By the time the hub has a stream, so that its pump may cancel it, the   *)
(* agent has the stream in a.streams, or has had it there and cancelled    *)
(* it, whatever is lost, buffered or late in between (agent.go:174-184).   *)
THEOREM CancelFinds == Spec => []CancelFindsStream
<1>1. Init => TypeOK /\ FoundInv
  BY InitTypes, InitFound
<1>2. TypeOK /\ FoundInv /\ [Next]_vars => (TypeOK /\ FoundInv)'
  BY NextTypes, NextFound
<1>3. FoundInv => CancelFindsStream
  BY StreamsAssumption DEF FoundInv, Pumping, Known, Buffered, CancelFindsStream
<1> QED
  BY <1>1, <1>2, <1>3, PTL DEF Spec
=============================================================================
