------------------------------- MODULE Tunnel -------------------------------
(***************************************************************************)
(* One reverse-tunnel connection: the hub's AgentConn (hub.go), the        *)
(* WebSocket under it, and the agent's end of it (agent.go), from the      *)
(* moment HandleConnect has put the AgentConn in h.tunnels until its       *)
(* readLoop has returned and HandleConnect has removed it.                 *)
(*                                                                         *)
(* The processes are the callers (one goroutine per request in             *)
(* tunnelTransport.RoundTrip), one pump goroutine per stream, the hub's    *)
(* readLoop, the agent's read loop in connect, and one agent goroutine per *)
(* request.  The hub's goroutines share the pending map, whose channels    *)
(* are modelled with their capacity: a send to a full one blocks.          *)
(***************************************************************************)
EXTENDS Naturals, Sequences

CONSTANTS
  Requests,     \* every request ever sent; newID makes their ids unique
  Streams,      \* those with follow=1 or follow=true; the rest are buffered
  StreamCap,    \* capacity of a stream's channel (128 in the code)
  WireCap,      \* messages towards the hub that TCP holds before a send blocks
  MaxChunks     \* bound: chunks a response body may have

ASSUME StreamsAssumption == Requests # {} /\ Streams \subseteq Requests
ASSUME CapAssumption == StreamCap \in Nat \ {0} /\ WireCap \in Nat \ {0}
ASSUME ChunksAssumption == MaxChunks \in Nat

Buffered == Requests \ Streams

VARIABLES
  inTunnels,    \* h.tunnels[clusterID] is this AgentConn
  hubOpen,      \* the hub has not called conn.Close
  loop,         \* where the hub's readLoop is
  cur,          \* the response readLoop is handing over
  pending,      \* the ids in ac.pending
  chan,         \* chan[r]: what is buffered in r's channel
  closed,       \* the ids whose channel has been closed
  call,         \* call[r]: where the caller of r is
  pump,         \* pump[r]: where the pump goroutine of stream r is
  held,         \* held[r]: the number of the chunk the pump is writing
  readerOpen,   \* readerOpen[r]: the pipe's reader has not been closed
  delivered,    \* delivered[r]: chunks the reader of r was given
  link,         \* the TCP connection works
  toAgent, toHub,     \* messages in flight
  agentOpen,    \* the agent has not called conn.Close
  handler,      \* handler[r]: where the agent's goroutine for r is
  streams,      \* the ids in a.streams
  cancelled,    \* the streams whose context was cancelled
  sent,         \* sent[r]: chunks of r's body the agent has read
  executed      \* executed[r]: how often the orchestrator executed r

hubVars   == <<inTunnels, hubOpen, loop, cur, pending, chan, closed>>
callVars  == <<call, pump, held, readerOpen, delivered>>
wireVars  == <<link, toAgent, toHub>>
agentVars == <<agentOpen, handler, streams, cancelled, sent, executed>>
vars == <<hubVars, callVars, wireVars, agentVars>>

-----------------------------------------------------------------------------
(* Messages.  A TunnelResponse is a reply or an error that ends its        *)
(* request, the head of a stream, one chunk of its body, or its end.       *)

Kinds == {"reply", "error", "head", "data", "done"}
Responses == [id : Requests, kind : Kinds, n : 0..MaxChunks]
Message(r, kind) == [id |-> r, kind |-> kind, n |-> 0]

IsChunk(m) == m.kind \in {"head", "data"}
IsDone(m)  == m.kind = "done"
IsLastUnlessDone(m) == ~IsChunk(m) /\ ~IsDone(m)     \* faulty: keeps a finished stream
IsLast(m)  == ~IsChunk(m) \/ IsDone(m)
ClosesChannel(m) == IsDone(m) \/ (~IsChunk(m) /\ m.kind # "error")

ToAgentMessages == [id : Requests, kind : {"request", "cancel"}]

CapacityUnbuffered(r) == IF r \in Streams THEN StreamCap ELSE 0   \* faulty
Capacity(r) == IF r \in Streams THEN StreamCap ELSE 1

(* conn.WriteMessage on the hub.  Nothing tells a writer that the network  *)
(* is gone: until it notices, its messages vanish in the socket's buffer.  *)
HubSend(m) == /\ hubOpen
              /\ toAgent' = IF link THEN Append(toAgent, m) ELSE toAgent
              /\ UNCHANGED <<link, toHub>>
HubSendFails == /\ ~hubOpen \/ ~link
                /\ UNCHANGED wireVars

(* a.sendMsg on the agent, which blocks while the hub does not read.       *)
AgentSend(m) == /\ agentOpen
                /\ link => Len(toHub) < WireCap
                /\ toHub' = IF link THEN Append(toHub, m) ELSE toHub
                /\ UNCHANGED <<link, toAgent>>
AgentSendFails == /\ ~agentOpen \/ ~link
                  /\ UNCHANGED wireVars

Prefix(s, n) == SubSeq(s, 1, n)

(* The connection dies: of what was in flight each side still receives     *)
(* some prefix.                                                            *)
Sever == /\ link' = FALSE
         /\ \E n \in 0..Len(toAgent) : toAgent' = Prefix(toAgent, n)
         /\ \E n \in 0..Len(toHub) : toHub' = Prefix(toHub, n)

HandlerTo(r, state) == handler' = [handler EXCEPT ![r] = state]
AgentOnly == UNCHANGED <<hubVars, callVars, wireVars, agentOpen>>

-----------------------------------------------------------------------------
(* Faulty variants.  Each is a mistake this code could have made; putting  *)
(* one in the place of the definition it is named after breaks a property  *)
(* below, which shows that the property constrains the code.               *)

(* RoundTrip without its timer, as RoundTripStream is.                     *)
TimeoutNever(r) == FALSE /\ UNCHANGED <<r, vars>>

(* RoundTrip that forgets to delete its entry when the timer fires.        *)
TimeoutKeepsEntry(r) ==
  /\ r \in Buffered /\ call[r] = "waiting"
  /\ call' = [call EXCEPT ![r] = "failed"]
  /\ UNCHANGED <<hubVars, pump, held, readerOpen, delivered, wireVars, agentVars>>

(* handleStreamRequest that looks at Body.Read's error before its bytes:   *)
(* the last chunk may come together with the end of the body.              *)
BodyEndsDropsLast(r) ==
  /\ handler[r] = "body"
  /\ HandlerTo(r, "done")
  /\ sent' \in {sent, [sent EXCEPT ![r] = @ + 1]}
  /\ sent[r] < MaxChunks
  /\ AgentOnly /\ UNCHANGED <<streams, cancelled, executed>>

(* readLoop that drops a response rather than wait for a slow reader.      *)
LoopSendDrops ==
  /\ loop = "send"
  /\ chan' = IF Len(chan[cur.id]) < Capacity(cur.id)
               THEN [chan EXCEPT ![cur.id] = Append(@, cur)] ELSE chan
  /\ loop' = IF ClosesChannel(cur) THEN "close" ELSE "read"
  /\ UNCHANGED <<inTunnels, hubOpen, cur, pending, closed, callVars, wireVars, agentVars>>

(* readLoop that forgets the waiting calls without closing their channels. *)
LoopFailsSilently ==
  /\ loop = "read"
  /\ ~hubOpen \/ (~link /\ toHub = <<>>)
  /\ pending' = {}
  /\ loop' = "failed"
  /\ UNCHANGED <<inTunnels, hubOpen, cur, chan, closed, callVars, wireVars, agentVars>>

(* HandleConnect that leaves the dead connection in h.tunnels.             *)
UnregisterForgets ==
  /\ loop = "exited"
  /\ loop' = "left"
  /\ UNCHANGED <<inTunnels, hubOpen, cur, pending, chan, closed, callVars, wireVars, agentVars>>

(* connect that starts handleStreamRequest for every request.              *)
AgentReadsAsStreams ==
  /\ agentOpen /\ toAgent # <<>> /\ Head(toAgent).kind = "request"
  /\ toAgent' = Tail(toAgent)
  /\ HandlerTo(Head(toAgent).id, "start")
  /\ UNCHANGED <<hubVars, callVars, link, toHub, agentOpen, streams, cancelled, sent, executed>>

(* cancelStream that forgets the stream without calling its cancel.        *)
AgentReadsForgets ==
  /\ agentOpen /\ toAgent # <<>>
  /\ toAgent' = Tail(toAgent)
  /\ LET m == Head(toAgent) IN
     IF m.kind = "request"
       THEN /\ HandlerTo(m.id, IF m.id \in Streams THEN "start" ELSE "do")
            /\ UNCHANGED streams
       ELSE /\ streams' = streams \ {m.id}
            /\ UNCHANGED handler
  /\ UNCHANGED <<hubVars, callVars, link, toHub, agentOpen, cancelled, sent, executed>>

(* An agent that tries a failed request again.                             *)
DoRetries(r) ==
  /\ handler[r] = "do"
  /\ executed' = [executed EXCEPT ![r] = @ + 1]
  /\ \E next \in {"do", IF r \in Streams THEN "head" ELSE "reply"} : HandlerTo(r, next)
  /\ executed[r] < 2
  /\ AgentOnly /\ UNCHANGED <<streams, cancelled, sent>>

(* handleStreamRequest that sends the head before it fills a.streams.      *)
StreamStartUnregistered(r) ==
  /\ handler[r] = "start"
  /\ HandlerTo(r, "do")
  /\ AgentOnly /\ UNCHANGED <<streams, cancelled, sent, executed>>

-----------------------------------------------------------------------------
BufferedStates == {"none", "do", "reply", "error", "end"}
StreamStates   == {"none", "start", "do", "error", "head", "body", "chunk",
                   "done", "cleanup", "end"}

TypeOK ==
  /\ inTunnels \in BOOLEAN /\ hubOpen \in BOOLEAN
  /\ link \in BOOLEAN /\ agentOpen \in BOOLEAN
  /\ loop \in {"read", "send", "close", "failed", "exited", "left"}
  /\ cur \in Responses
  /\ pending \subseteq Requests /\ closed \subseteq Requests
  /\ chan \in [Requests -> Seq(Responses)]
  /\ call \in [Requests -> {"idle", "got", "registered", "waiting", "ok", "failed"}]
  /\ pump \in [Requests -> {"none", "receive", "write", "cancel",
                            "eof", "error", "cancelled"}]
  /\ held \in [Requests -> 0..MaxChunks]
  /\ readerOpen \in [Requests -> BOOLEAN]
  /\ delivered \in [Requests -> Nat]
  /\ toAgent \in Seq(ToAgentMessages)
  /\ toHub \in Seq(Responses)
  /\ handler \in [Requests -> BufferedStates \cup StreamStates]
  /\ \A r \in Requests : handler[r] \in IF r \in Streams THEN StreamStates
                                                          ELSE BufferedStates
  /\ streams \subseteq Streams /\ cancelled \subseteq Streams
  /\ sent \in [Requests -> 0..MaxChunks]
  /\ executed \in [Requests -> Nat]

NoMessage == [id |-> CHOOSE r \in Requests : TRUE, kind |-> "done", n |-> 0]

Init ==
  /\ inTunnels = TRUE /\ hubOpen = TRUE /\ link = TRUE /\ agentOpen = TRUE
  /\ loop = "read" /\ cur = NoMessage
  /\ pending = {} /\ closed = {} /\ streams = {} /\ cancelled = {}
  /\ chan = [r \in Requests |-> <<>>]
  /\ call = [r \in Requests |-> "idle"]
  /\ pump = [r \in Requests |-> "none"]
  /\ held = [r \in Requests |-> 0]
  /\ readerOpen = [r \in Requests |-> FALSE]
  /\ delivered = [r \in Requests |-> 0]
  /\ toAgent = <<>> /\ toHub = <<>>
  /\ handler = [r \in Requests |-> "none"]
  /\ sent = [r \in Requests |-> 0]
  /\ executed = [r \in Requests |-> 0]

-----------------------------------------------------------------------------
(* The callers.                                                            *)

(* t.hub.get, under the hub's lock.                                        *)
Get(r) ==
  /\ call[r] = "idle"
  /\ call' = [call EXCEPT ![r] = IF inTunnels THEN "got" ELSE "failed"]
  /\ UNCHANGED <<hubVars, pump, held, readerOpen, delivered, wireVars, agentVars>>

(* The AgentConn got above may be gone by now; nothing checks it again.    *)
Register(r) ==
  /\ call[r] = "got"
  /\ pending' = pending \cup {r}
  /\ call' = [call EXCEPT ![r] = "registered"]
  /\ UNCHANGED <<inTunnels, hubOpen, loop, cur, chan, closed, pump, held,
                 readerOpen, delivered, wireVars, agentVars>>

SendRequest(r) ==
  /\ call[r] = "registered"
  /\ HubSend([id |-> r, kind |-> "request"])
  /\ call' = [call EXCEPT ![r] = "waiting"]
  /\ UNCHANGED <<hubVars, pump, held, readerOpen, delivered, agentVars>>

SendRequestFails(r) ==
  /\ call[r] = "registered"
  /\ HubSendFails
  /\ pending' = pending \ {r}
  /\ call' = [call EXCEPT ![r] = "failed"]
  /\ UNCHANGED <<inTunnels, hubOpen, loop, cur, chan, closed, pump, held,
                 readerOpen, delivered, agentVars>>

(* <-ch of a buffered call: the reply, or an error as an answer.           *)
RoundTripReturns(r) ==
  /\ r \in Buffered /\ call[r] = "waiting"
  /\ chan[r] # <<>>
  /\ chan' = [chan EXCEPT ![r] = Tail(@)]
  /\ call' = [call EXCEPT ![r] =
                 IF Head(chan[r]).kind = "error" THEN "failed" ELSE "ok"]
  /\ UNCHANGED <<inTunnels, hubOpen, loop, cur, pending, closed, pump, held,
                 readerOpen, delivered, wireVars, agentVars>>

(* <-ch of either kind of call once the channel is closed and empty.       *)
ReturnsClosed(r) ==
  /\ call[r] = "waiting"
  /\ chan[r] = <<>> /\ r \in closed
  /\ call' = [call EXCEPT ![r] = "failed"]
  /\ UNCHANGED <<hubVars, pump, held, readerOpen, delivered, wireVars, agentVars>>

(* Only RoundTrip has a timer.                                             *)
Timeout(r) ==
  /\ r \in Buffered /\ call[r] = "waiting"
  /\ pending' = pending \ {r}
  /\ call' = [call EXCEPT ![r] = "failed"]
  /\ UNCHANGED <<inTunnels, hubOpen, loop, cur, chan, closed, pump, held,
                 readerOpen, delivered, wireVars, agentVars>>

(* first, ok := <-ch of a streaming call; the pump starts on a head.       *)
StreamFirst(r) ==
  /\ r \in Streams /\ call[r] = "waiting"
  /\ chan[r] # <<>>
  /\ chan' = [chan EXCEPT ![r] = Tail(@)]
  /\ IF Head(chan[r]).kind = "error"
       THEN /\ call' = [call EXCEPT ![r] = "failed"]
            /\ UNCHANGED <<pump, readerOpen>>
       ELSE /\ call' = [call EXCEPT ![r] = "ok"]
            /\ readerOpen' = [readerOpen EXCEPT ![r] = TRUE]
            /\ pump' = [pump EXCEPT ![r] =
                          IF IsLast(Head(chan[r])) THEN "eof" ELSE "receive"]
  /\ UNCHANGED <<inTunnels, hubOpen, loop, cur, pending, closed, held,
                 delivered, wireVars, agentVars>>

-----------------------------------------------------------------------------
(* The pump goroutine of a stream, and the reader at the other end of its  *)
(* pipe.                                                                   *)

PumpReceive(r) ==
  /\ pump[r] = "receive"
  /\ chan[r] # <<>>
  /\ chan' = [chan EXCEPT ![r] = Tail(@)]
  /\ LET m == Head(chan[r]) IN
     /\ pump' = [pump EXCEPT ![r] = IF m.kind = "data" THEN "write"
                                    ELSE IF m.kind = "error" THEN "error"
                                    ELSE IF IsDone(m) THEN "eof" ELSE "receive"]
     /\ held' = [held EXCEPT ![r] = IF m.kind = "data" THEN m.n ELSE @]
  /\ UNCHANGED <<inTunnels, hubOpen, loop, cur, pending, closed, call,
                 readerOpen, delivered, wireVars, agentVars>>

(* The range over the channel ends; the reader sees a clean end of file.   *)
PumpEnds(r) ==
  /\ pump[r] = "receive"
  /\ chan[r] = <<>> /\ r \in closed
  /\ pump' = [pump EXCEPT ![r] = "eof"]
  /\ UNCHANGED <<hubVars, call, held, readerOpen, delivered, wireVars, agentVars>>

Read(r) ==
  /\ pump[r] = "write" /\ readerOpen[r]
  /\ pump' = [pump EXCEPT ![r] = "receive"]
  /\ delivered' = [delivered EXCEPT ![r] = @ + 1]
  /\ UNCHANGED <<hubVars, call, held, readerOpen, wireVars, agentVars>>

CloseReader(r) ==
  /\ readerOpen[r]
  /\ readerOpen' = [readerOpen EXCEPT ![r] = FALSE]
  /\ UNCHANGED <<hubVars, call, pump, held, delivered, wireVars, agentVars>>

(* pw.Write fails: only now does the pump learn that the reader has gone.  *)
PumpWriteFails(r) ==
  /\ pump[r] = "write" /\ ~readerOpen[r]
  /\ pump' = [pump EXCEPT ![r] = "cancel"]
  /\ UNCHANGED <<hubVars, call, held, readerOpen, delivered, wireVars, agentVars>>

(* sendCancel ignores its error, and leaves r in ac.pending.               *)
SendCancel(r) ==
  /\ pump[r] = "cancel"
  /\ HubSend([id |-> r, kind |-> "cancel"]) \/ HubSendFails
  /\ pump' = [pump EXCEPT ![r] = "cancelled"]
  /\ UNCHANGED <<hubVars, call, held, readerOpen, delivered, agentVars>>

-----------------------------------------------------------------------------
(* The hub's readLoop, and HandleConnect around it.                        *)

(* ReadMessage and the lookup under ac.mu, which removes the last message's *)
(* entry.  A response nobody waits for is dropped.                         *)
LoopRead ==
  /\ loop = "read" /\ toHub # <<>>
  /\ toHub' = Tail(toHub)
  /\ LET m == Head(toHub) IN
     IF m.id \in pending
       THEN /\ cur' = m
            /\ loop' = "send"
            /\ pending' = IF IsLast(m) THEN pending \ {m.id} ELSE pending
       ELSE UNCHANGED <<cur, loop, pending>>
  /\ UNCHANGED <<inTunnels, hubOpen, chan, closed, callVars, link, toAgent, agentVars>>

(* ch <- &resp, outside the lock; it blocks while the channel is full.     *)
LoopSend ==
  /\ loop = "send"
  /\ Len(chan[cur.id]) < Capacity(cur.id)
  /\ chan' = [chan EXCEPT ![cur.id] = Append(@, cur)]
  /\ loop' = IF ClosesChannel(cur) THEN "close" ELSE "read"
  /\ UNCHANGED <<inTunnels, hubOpen, cur, pending, closed, callVars, wireVars, agentVars>>

LoopClose ==
  /\ loop = "close"
  /\ closed' = closed \cup {cur.id}
  /\ loop' = "read"
  /\ UNCHANGED <<inTunnels, hubOpen, cur, pending, chan, callVars, wireVars, agentVars>>

(* ReadMessage fails: every pending channel is closed and forgotten.       *)
LoopFails ==
  /\ loop = "read"
  /\ ~hubOpen \/ (~link /\ toHub = <<>>)
  /\ closed' = closed \cup pending
  /\ pending' = {}
  /\ loop' = "failed"
  /\ UNCHANGED <<inTunnels, hubOpen, cur, chan, callVars, wireVars, agentVars>>

(* The deferred conn.Close.                                                *)
LoopExits ==
  /\ loop = "failed"
  /\ loop' = "exited"
  /\ hubOpen' = FALSE
  /\ Sever
  /\ UNCHANGED <<inTunnels, cur, pending, chan, closed, callVars, agentVars>>

(* HandleConnect after readLoop has returned.                              *)
Unregister ==
  /\ loop = "exited"
  /\ loop' = "left"
  /\ inTunnels' = FALSE
  /\ UNCHANGED <<hubOpen, cur, pending, chan, closed, callVars, wireVars, agentVars>>

(* HandleConnect of a newer connection for the same cluster closes this one *)
(* and takes its place in h.tunnels.                                       *)
Replace ==
  /\ inTunnels
  /\ inTunnels' = FALSE
  /\ hubOpen' = FALSE
  /\ Sever
  /\ UNCHANGED <<loop, cur, pending, chan, closed, callVars, agentVars>>

(* The network, or the agent's host, fails.                                *)
Break ==
  /\ link
  /\ Sever
  /\ UNCHANGED <<hubVars, callVars, agentVars>>

-----------------------------------------------------------------------------
(* The agent.                                                              *)

(* One message in connect's loop: a request starts a goroutine, a cancel   *)
(* cancels the context of the stream it finds in a.streams.                *)
AgentReads ==
  /\ agentOpen /\ toAgent # <<>>
  /\ toAgent' = Tail(toAgent)
  /\ LET m == Head(toAgent) IN
     IF m.kind = "request"
       THEN /\ handler' = [handler EXCEPT ![m.id] =
                              IF m.id \in Streams THEN "start" ELSE "do"]
            /\ UNCHANGED <<streams, cancelled>>
       ELSE /\ cancelled' = cancelled \cup ({m.id} \cap streams)
            /\ streams' = streams \ {m.id}
            /\ UNCHANGED handler
  /\ UNCHANGED <<hubVars, callVars, link, toHub, agentOpen, sent, executed>>

(* ReadMessage fails in connect, which closes the connection and returns.  *)
(* The goroutines it started go on.                                        *)
AgentLoses ==
  /\ agentOpen /\ ~link /\ toAgent = <<>>
  /\ agentOpen' = FALSE
  /\ UNCHANGED <<hubVars, callVars, wireVars, handler, streams, cancelled, sent, executed>>

(* httpClient.Do or streamClient.Do.  A request that fails may or may not  *)
(* have been executed.                                                     *)
Do(r) ==
  /\ handler[r] = "do"
  /\ \E did \in BOOLEAN, ok \in BOOLEAN :
       /\ ok => did
       /\ executed' = [executed EXCEPT ![r] = IF did THEN @ + 1 ELSE @]
       /\ HandlerTo(r, IF ~ok THEN "error"
                       ELSE IF r \in Streams THEN "head" ELSE "reply")
  /\ AgentOnly /\ UNCHANGED <<streams, cancelled, sent>>

(* doHTTP's answer is the only message of a buffered request.              *)
SendReply(r) ==
  /\ handler[r] = "reply"
  /\ AgentSend(Message(r, "reply")) \/ AgentSendFails
  /\ HandlerTo(r, "end")
  /\ UNCHANGED <<hubVars, callVars, agentOpen, streams, cancelled, sent, executed>>

SendError(r) ==
  /\ handler[r] = "error"
  /\ AgentSend(Message(r, "error")) \/ AgentSendFails
  /\ HandlerTo(r, IF r \in streams THEN "cleanup" ELSE "end")
  /\ UNCHANGED <<hubVars, callVars, agentOpen, streams, cancelled, sent, executed>>

(* handleStreamRequest: http.NewRequest, then a.streams, before the call.  *)
StreamStart(r) ==
  /\ handler[r] = "start"
  /\ \/ /\ HandlerTo(r, "error")
        /\ UNCHANGED streams
     \/ /\ HandlerTo(r, "do")
        /\ streams' = streams \cup {r}
  /\ AgentOnly /\ UNCHANGED <<cancelled, sent, executed>>

SendHead(r) ==
  /\ handler[r] = "head"
  /\ AgentSend(Message(r, "head")) \/ AgentSendFails
  /\ HandlerTo(r, "body")
  /\ UNCHANGED <<hubVars, callVars, agentOpen, streams, cancelled, sent, executed>>

(* httpResp.Body.Read returns a chunk.                                     *)
BodyReads(r) ==
  /\ handler[r] = "body" /\ sent[r] < MaxChunks
  /\ sent' = [sent EXCEPT ![r] = @ + 1]
  /\ HandlerTo(r, "chunk")
  /\ AgentOnly /\ UNCHANGED <<streams, cancelled, executed>>

(* A send that fails ends the stream without the final message.            *)
SendChunk(r) ==
  /\ handler[r] = "chunk"
  /\ \/ AgentSend([id |-> r, kind |-> "data", n |-> sent[r]]) /\ HandlerTo(r, "body")
     \/ AgentSendFails /\ HandlerTo(r, "cleanup")
  /\ UNCHANGED <<hubVars, callVars, agentOpen, streams, cancelled, sent, executed>>

(* Body.Read returns an error: the end of the body, or a failure ...       *)
BodyEnds(r) ==
  /\ handler[r] = "body"
  /\ HandlerTo(r, "done")
  /\ AgentOnly /\ UNCHANGED <<streams, cancelled, sent, executed>>

(* ... which it does soon once the context is cancelled.                   *)
BodyCancelled(r) == r \in cancelled /\ BodyEnds(r)

SendDone(r) ==
  /\ handler[r] = "done"
  /\ AgentSend(Message(r, "done")) \/ AgentSendFails
  /\ HandlerTo(r, "cleanup")
  /\ UNCHANGED <<hubVars, callVars, agentOpen, streams, cancelled, sent, executed>>

(* The deferred cancelFunc and delete.                                     *)
Cleanup(r) ==
  /\ handler[r] = "cleanup"
  /\ HandlerTo(r, "end")
  /\ cancelled' = cancelled \cup {r}
  /\ streams' = streams \ {r}
  /\ AgentOnly /\ UNCHANGED <<sent, executed>>

-----------------------------------------------------------------------------
Caller(r) == \/ Get(r) \/ Register(r) \/ SendRequest(r) \/ SendRequestFails(r)
             \/ RoundTripReturns(r) \/ ReturnsClosed(r) \/ Timeout(r) \/ StreamFirst(r)
Pump(r) == \/ PumpReceive(r) \/ PumpEnds(r) \/ Read(r) \/ CloseReader(r)
           \/ PumpWriteFails(r) \/ SendCancel(r)
ReadLoop == LoopRead \/ LoopSend \/ LoopClose \/ LoopFails \/ LoopExits
Handler(r) == \/ Do(r) \/ SendReply(r) \/ SendError(r) \/ StreamStart(r) \/ SendHead(r)
              \/ BodyReads(r) \/ SendChunk(r) \/ BodyEnds(r) \/ SendDone(r) \/ Cleanup(r)

Next == \/ \E r \in Requests : Caller(r) \/ Pump(r) \/ Handler(r)
        \/ ReadLoop \/ Unregister \/ Replace \/ Break
        \/ AgentReads \/ AgentLoses

Spec == Init /\ [][Next]_vars

-----------------------------------------------------------------------------
(* Safety.                                                                 *)

(* readLoop never sends on a closed channel and closes none twice, either  *)
(* of which would panic and take the server down: the entry is removed     *)
(* from ac.pending before its channel is closed (hub.go:163-170), and the  *)
(* drain closes what is left (hub.go:149-152).                             *)
ChannelSafety ==
  /\ pending \cap closed = {}
  /\ loop \in {"send", "close"} => cur.id \notin closed

(* A call that has returned has left nothing in ac.pending, whichever of   *)
(* its error paths it took and whatever readLoop was doing meanwhile.  A   *)
(* stream that was opened stays there until its last message.              *)
NoPendingLeak ==
  \A r \in pending : call[r] # "failed" /\ (r \in Buffered => call[r] # "ok")

(* No lost wakeup: once a waiting call is out of ac.pending, its channel   *)
(* has something for it, or is closed, or readLoop is handing it over.     *)
WaiterHasWakeup ==
  \A r \in Requests \ pending : call[r] = "waiting" =>
     \/ chan[r] # <<>> \/ r \in closed
     \/ loop \in {"send", "close"} /\ cur.id = r

(* A buffered call can never hold readLoop up, though it may give up       *)
(* between readLoop's lookup and its send: its channel has room for the    *)
(* one message the agent sends it (hub.go:186).                            *)
BufferedNeverBlocksLoop ==
  loop = "send" /\ cur.id \in Buffered => Len(chan[cur.id]) < Capacity(cur.id)

(* A cancel cannot overtake the stream it cancels: by the time the hub has *)
(* a stream the agent has it in a.streams, unless it is over already.      *)
CancelFindsStream ==
  \A r \in Streams : pump[r] # "none" => r \in streams \cup cancelled

(* The reader of a stream is given the chunks of the body in order and     *)
(* with no gap.                                                            *)
InOrder == \A r \in Streams : pump[r] = "write" => held[r] = delivered[r] + 1

(* While the connection lasts, a reader sees the end of file only after    *)
(* every chunk the agent read.  (When it breaks the reader sees the same   *)
(* clean end of file wherever it was: hub.go:248 and 255.)                 *)
EofMeansComplete ==
  \A r \in Streams : pump[r] = "eof" /\ link =>
     delivered[r] = sent[r] /\ handler[r] \in {"cleanup", "end"}

(* The tunnel implements its abstract specification.                       *)
callSeen == [r \in Requests |->
               IF call[r] \in {"idle", "got"} THEN "idle"
               ELSE IF call[r] \in {"registered", "waiting"} THEN "open"
               ELSE call[r]]

RC == INSTANCE RemoteCall WITH call <- callSeen

(* A request is executed at most once, never before the call, and a call   *)
(* that succeeds was executed (RemoteCall).                                *)
AtMostOnce == RC!CallSpec

-----------------------------------------------------------------------------
(* Liveness.  Every goroutine that can take a step takes one; nothing is   *)
(* assumed of new calls, of the network, of another connection, or of how  *)
(* soon the orchestrator answers a streaming request, whose client has no  *)
(* timeout.                                                                *)

Fairness ==
  /\ \A r \in Requests :
       /\ WF_vars(Register(r)) /\ WF_vars(SendRequest(r) \/ SendRequestFails(r))
       /\ WF_vars(RoundTripReturns(r)) /\ WF_vars(ReturnsClosed(r))
       /\ WF_vars(Timeout(r)) /\ WF_vars(StreamFirst(r))
       /\ WF_vars(PumpReceive(r)) /\ WF_vars(PumpEnds(r))
       /\ WF_vars(Read(r)) /\ WF_vars(PumpWriteFails(r)) /\ WF_vars(SendCancel(r))
       /\ r \in Buffered => WF_vars(Do(r))
       /\ WF_vars(SendReply(r)) /\ WF_vars(SendError(r)) /\ WF_vars(StreamStart(r))
       /\ WF_vars(SendHead(r)) /\ WF_vars(SendChunk(r))
       /\ WF_vars(BodyCancelled(r)) /\ WF_vars(SendDone(r)) /\ WF_vars(Cleanup(r))
  /\ WF_vars(ReadLoop) /\ WF_vars(Unregister)
  /\ WF_vars(AgentReads) /\ WF_vars(AgentLoses)

FairSpec == Spec /\ Fairness

(* readLoop is stuck handing a response to a stream whose pump has gone:   *)
(* the channel is full and nobody will ever receive from it.               *)
Wedged == /\ loop = "send" /\ Len(chan[cur.id]) = Capacity(cur.id)
          /\ pump[cur.id] = "cancelled"

(* A buffered call that has sent its request returns, because of its 30    *)
(* second timer, even when it registered after the drain.                  *)
BufferedCallsReturn ==
  \A r \in Buffered : call[r] = "got" ~> call[r] \in {"ok", "failed"}

(* A connection that is gone leaves h.tunnels, unless readLoop is wedged.  *)
OfflineUnlessWedged == ~link ~> ~inTunnels \/ Wedged

(* Closing a stream's reader stops the agent's request to the              *)
(* orchestrator, once the pump has noticed, unless the connection breaks   *)
(* or readLoop is wedged.                                                  *)
CancelStopsStream ==
  \A r \in Streams : pump[r] = "cancel" ~> handler[r] = "end" \/ ~link \/ Wedged

(* "RoundTripStream sends a streaming request and returns a piped reader"  *)
(* (hub.go:218): a streaming call returns, with a reader or an error, once *)
(* the connection is gone.  It does not: RoundTripStream can register its  *)
(* channel after the drain and wait for ever.                              *)
StreamCallsReturn ==
  \A r \in Streams : call[r] = "waiting" /\ ~link ~> call[r] \in {"ok", "failed"}

(* "IsOnline returns true if an agent is connected for the given cluster"  *)
(* (hub.go:43): an agent that is gone is offline eventually.  It is not    *)
(* when readLoop is wedged.                                                *)
AgentGoneGoesOffline == ~link ~> ~inTunnels
=============================================================================
