----------------------------- MODULE TunnelOrder -----------------------------
(***************************************************************************)
(* What the reader of a stream is given, for every set of requests, every  *)
(* capacity and every length of a body: the chunks in order and without a  *)
(* gap (InOrder), and, while the connection lasts, the end of file only    *)
(* after the last of them (EofMeansComplete).                              *)
(*                                                                         *)
(* The messages of a stream have places 0, 1, 2, ... : its head or error,  *)
(* the chunks of the body, the end.  They are in line, from the agent's    *)
(* goroutine through toHub, readLoop's hand and the stream's channel to    *)
(* its pump, among the messages of all other requests.  In the channel and *)
(* in readLoop's hand a message's position says its place; in toHub places *)
(* grow without a gap.                                                     *)
(***************************************************************************)
EXTENDS TunnelRefinement

USE StreamsAssumption, ChunksAssumption

Live == loop \in {"read", "send", "close"}
Holds(r) == loop = "send" /\ cur.id = r
InFlight(r) == {i \in 1..Len(toHub) : toHub[i].id = r}

(* Where the goroutine of a stream has sent nothing yet, and where it has  *)
(* sent all it will.                                                       *)
NotBegun == {"none", "start", "do", "error", "head"}
Over == {"cleanup", "end"}

Place(m) == IF m.kind = "data" THEN m.n
            ELSE IF m.kind = "done" THEN sent[m.id] + 1 ELSE 0

(* How many places the pump has taken, the hub has received, and the agent *)
(* has sent, the last while its goroutine is not Over.                     *)
Taken(r) == IF pump[r] = "none" THEN 0
            ELSE IF pump[r] = "receive" THEN delivered[r] + 1 ELSE delivered[r] + 2
Expected(r) == Taken(r) + Len(chan[r]) + (IF Holds(r) THEN 1 ELSE 0)
Produced(r) == IF handler[r] \in {"body", "done"} THEN sent[r] + 1
               ELSE IF handler[r] = "chunk" THEN sent[r] ELSE 0

(* The call waits for the stream or has it, and the pump has not ended.    *)
Flowing(r) == call[r] \in {"waiting", "ok"} /\ pump[r] \notin {"eof", "error"}

-----------------------------------------------------------------------------
(* The invariant.                                                          *)

(* Whatever ends at either side severs the connection.                     *)
DeadLink == ~hubOpen \/ ~agentOpen \/ ~Live => ~link

(* A stream whose goroutine has not begun has no message anywhere.         *)
Quiet(r) == handler[r] \in NotBegun =>
  sent[r] = 0 /\ chan[r] = <<>> /\ ~Holds(r) /\ InFlight(r) = {}

(* A message that ends a stream comes from a goroutine that is Over.       *)
FinalMessage(m) == /\ m.kind # "reply"
                   /\ m.kind \in {"error", "done"} => handler[m.id] \in Over
Final(r) == /\ \A i \in 1..Len(chan[r]) : chan[r][i].id = r /\ FinalMessage(chan[r][i])
            /\ Holds(r) => FinalMessage(cur)
            /\ \A i \in InFlight(r) : FinalMessage(toHub[i])

(* Nothing follows it.                                                     *)
LastAlone(r) == \A i, j \in InFlight(r) : i < j => IsChunk(toHub[i])

(* readLoop drops no message of a stream: its entry stays until the last.  *)
Entered(r) == Live /\ call[r] \in {"registered", "waiting", "ok"} =>
  r \in pending \/ (handler[r] \in Over /\ InFlight(r) = {})

(* Places in the channel and in readLoop's hand.                           *)
Line(r) == Flowing(r) =>
  /\ \A i \in 1..Len(chan[r]) : Place(chan[r][i]) = Taken(r) + i - 1
  /\ Holds(r) => Place(cur) = Taken(r) + Len(chan[r])
  /\ handler[r] \notin Over => Expected(r) <= Produced(r)

(* Places in toHub: what the hub expects comes first and nothing is        *)
(* missing in between, nor at the end while the connection lasts.          *)
Flight(r) == Flowing(r) /\ Live =>
  /\ \A i \in InFlight(r) : /\ Expected(r) <= Place(toHub[i])
                            /\ handler[r] \notin Over => Place(toHub[i]) < Produced(r)
  /\ \A i, j \in InFlight(r) : i < j => Place(toHub[i]) < Place(toHub[j])
  /\ \A j \in InFlight(r) : \A k \in Expected(r)..(Place(toHub[j]) - 1) :
       \E i \in InFlight(r) : i < j /\ Place(toHub[i]) = k
  /\ link /\ handler[r] \notin Over => \A k \in Expected(r)..(Produced(r) - 1) :
       \E i \in InFlight(r) : Place(toHub[i]) = k

(* While readLoop runs, a channel is closed behind the end of the stream.  *)
Ends(r) == Flowing(r) /\ Live /\ (r \in closed \/ (loop = "close" /\ cur.id = r)) =>
  Len(chan[r]) > 0 /\ chan[r][Len(chan[r])].kind = "done"

(* The two properties, for one stream; a pump that has not started has     *)
(* delivered nothing.                                                      *)
Held(r) == /\ pump[r] = "write" => held[r] = delivered[r] + 1
           /\ pump[r] = "none" => delivered[r] = 0
Whole(r) == pump[r] = "eof" /\ link => delivered[r] = sent[r] /\ handler[r] \in Over

StreamInv(r) == /\ Quiet(r) /\ Final(r) /\ LastAlone(r) /\ Entered(r)
                /\ Line(r) /\ Flight(r) /\ Ends(r) /\ Held(r) /\ Whole(r)

OrderInv == DeadLink /\ \A r \in Streams : StreamInv(r)

(* What is proved before: types, the hub's bookkeeping, single execution.  *)
Before == TypeOK /\ HubInv /\ ExecInv

LEMMA InitOrder == Init => OrderInv
<1> SUFFICES ASSUME Init PROVE OrderInv
  OBVIOUS
<1>1. DeadLink
  BY DEF Init, DeadLink, Live
<1>2. ASSUME NEW r \in Streams
      PROVE  StreamInv(r)
  <2>1. /\ chan[r] = <<>> /\ Len(chan[r]) = 0 /\ Len(toHub) = 0 /\ InFlight(r) = {}
        /\ call[r] = "idle" /\ pump[r] = "none" /\ sent[r] = 0 /\ ~Holds(r)
        /\ delivered[r] = 0
    BY EmptySeq DEF Init, InFlight, Holds
  <2> QED
    BY <2>1 DEF StreamInv, Quiet, Final, LastAlone, Entered, Line, Flight, Ends, Held,
       Whole, Flowing
<1> QED
  BY <1>1, <1>2 DEF OrderInv

LEMMA Numbers ==
  ASSUME TypeOK, NEW r \in Streams
  PROVE  /\ r \in Requests
         /\ Taken(r) \in Nat /\ Len(chan[r]) \in Nat /\ Expected(r) \in Nat
         /\ Produced(r) \in Nat /\ sent[r] \in Nat /\ delivered[r] \in Nat
         /\ Len(toHub) \in Nat /\ chan[r] \in Seq(Responses) /\ toHub \in Seq(Responses)
<1>1. /\ r \in Requests /\ delivered[r] \in Nat /\ sent[r] \in 0..MaxChunks
      /\ chan[r] \in Seq(Responses) /\ toHub \in Seq(Responses)
  BY DEF TypeOK
<1>2. Len(chan[r]) \in Nat /\ Len(toHub) \in Nat
  BY <1>1, LenProperties
<1>3. Taken(r) \in Nat /\ Produced(r) \in Nat /\ sent[r] \in Nat
  BY <1>1 DEF Taken, Produced
<1> QED
  BY <1>1, <1>2, <1>3 DEF Expected

LEMMA PlaceTypes ==
  ASSUME TypeOK, NEW m \in Responses
  PROVE  Place(m) \in Nat
BY DEF Place, TypeOK, Responses

LEMMA FlightPlaces ==
  ASSUME TypeOK, NEW r \in Streams, NEW i \in InFlight(r)
  PROVE  i \in Nat /\ toHub[i] \in Responses /\ toHub[i].id = r /\ Place(toHub[i]) \in Nat
<1>1. toHub \in Seq(Responses) /\ i \in 1..Len(toHub) /\ toHub[i].id = r
  BY DEF InFlight, TypeOK
<1>2. toHub[i] \in Responses
  BY <1>1, ElementOfSeq
<1> QED
  BY <1>1, <1>2, PlaceTypes

-----------------------------------------------------------------------------
(* Steps that move no message of the stream r out of its place.            *)

(* The messages of r in toHub are as before, apart from a common shift of  *)
(* their positions, or the connection is cut behind some of them.          *)
Shift(r) == \E d \in {0, 1} :
  /\ \A j \in InFlight(r)' : j + d \in InFlight(r) /\ toHub'[j] = toHub[j + d]
  /\ \A i \in InFlight(r), j \in InFlight(r)' : i < j + d => i - d \in InFlight(r)'
  /\ link' => \A i \in InFlight(r) : i - d \in InFlight(r)'

(* The goroutine of r moves on in a way that no message shows.             *)
HandlerMoves(r) ==
  /\ sent'[r] = sent[r] \/ (handler[r] \notin Over /\ handler'[r] \notin NotBegun)
  /\ handler'[r] \in NotBegun => handler[r] \in NotBegun
  /\ handler[r] \in Over => handler'[r] \in Over
  /\ handler'[r] \notin Over =>
       \/ Produced(r)' = Produced(r)
       \/ ~link' /\ Produced(r)' \in Nat /\ Produced(r)' >= Produced(r)

(* The call and the pump of r move on without a message.                   *)
CallMovesOn(r) ==
  /\ Flowing(r)' => Flowing(r) /\ Taken(r)' = Taken(r)
  /\ call'[r] \in {"registered", "waiting", "ok"} =>
       call[r] \in {"registered", "waiting", "ok"} \/ r \in pending' \/ ~Live'
  /\ Held(r) => Held(r)'
  /\ Whole(r) => Whole(r)'

(* readLoop does nothing for r, but for closing its channel.               *)
LoopMovesOn(r) ==
  /\ link' => link
  /\ Live' => Live
  /\ Holds(r)' <=> Holds(r)
  /\ Holds(r) => cur' = cur
  /\ Live' /\ loop' = "close" /\ cur'.id = r => loop = "close" /\ cur.id = r
  /\ r \in pending => r \in pending' \/ ~Live' \/ call'[r] = "failed"
  /\ r \in closed' => r \in closed \/ ~Live' \/ (loop = "close" /\ cur.id = r)

Keeps(r) == /\ chan'[r] = chan[r]
            /\ Shift(r) /\ HandlerMoves(r) /\ CallMovesOn(r) /\ LoopMovesOn(r)

(* A message in line keeps its place.                                      *)
LEMMA PlaceKept ==
  ASSUME TypeOK, NEW r \in Streams, HandlerMoves(r), NEW m, m.id = r, FinalMessage(m)
  PROVE  Place(m)' = Place(m) /\ FinalMessage(m)'
BY DEF Place, FinalMessage, HandlerMoves

LEMMA Frame ==
  ASSUME TypeOK, NEW r \in Streams, StreamInv(r), Keeps(r)
  PROVE  StreamInv(r)'
<1>1. PICK d \in {0, 1} :
        /\ \A j \in InFlight(r)' : j + d \in InFlight(r) /\ toHub'[j] = toHub[j + d]
        /\ \A i \in InFlight(r), j \in InFlight(r)' : i < j + d => i - d \in InFlight(r)'
        /\ link' => \A i \in InFlight(r) : i - d \in InFlight(r)'
  BY DEF Keeps, Shift
<1>2. chan'[r] = chan[r] /\ HandlerMoves(r) /\ CallMovesOn(r) /\ LoopMovesOn(r)
  BY DEF Keeps
<1>3. \A m : m.id = r /\ FinalMessage(m) => Place(m)' = Place(m) /\ FinalMessage(m)'
  BY <1>2, PlaceKept
<1>4. /\ \A i \in 1..Len(chan[r]) : /\ Place(chan[r][i])' = Place(chan[r][i])
                                    /\ FinalMessage(chan[r][i])'
      /\ Holds(r) => Place(cur)' = Place(cur) /\ FinalMessage(cur)'
  <2>1. \A i \in 1..Len(chan[r]) : chan[r][i].id = r /\ FinalMessage(chan[r][i])
    BY DEF StreamInv, Final
  <2>2. Holds(r) => cur.id = r /\ FinalMessage(cur) /\ cur' = cur
    BY <1>2 DEF StreamInv, Final, Holds, LoopMovesOn
  <2> QED
    BY <1>2, <1>3, <2>1, <2>2
<1>5. /\ \A i \in InFlight(r) : i \in Nat /\ FinalMessage(toHub[i]) /\ Place(toHub[i]) \in Nat
      /\ \A j \in InFlight(r)' : j \in Nat /\ j + d \in InFlight(r)
      /\ \A j \in InFlight(r)' : /\ Place(toHub[j])' = Place(toHub[j + d])
                                 /\ FinalMessage(toHub[j])'
                                 /\ toHub'[j] = toHub[j + d]
  <2>1. \A i \in InFlight(r) : /\ i \in Nat /\ toHub[i].id = r /\ Place(toHub[i]) \in Nat
                               /\ FinalMessage(toHub[i])
    BY FlightPlaces DEF StreamInv, Final
  <2>2. \A j \in InFlight(r)' : j \in Nat
    BY DEF InFlight
  <2> QED
    BY <1>1, <1>3, <2>1, <2>2
<1>6. /\ Taken(r) \in Nat /\ Len(chan[r]) \in Nat /\ Expected(r) \in Nat /\ Produced(r) \in Nat
      /\ Flowing(r)' => Flowing(r) /\ Taken(r)' = Taken(r) /\ Expected(r)' = Expected(r)
  BY <1>2, Numbers DEF CallMovesOn, LoopMovesOn, Expected
<1>7. Quiet(r)'
  <2>1. ASSUME handler'[r] \in NotBegun
        PROVE  sent'[r] = 0 /\ chan'[r] = <<>> /\ ~Holds(r)' /\ InFlight(r)' = {}
    <3>1. handler[r] \in NotBegun
      BY <1>2, <2>1 DEF HandlerMoves
    <3> QED
      BY <1>2, <1>5, <2>1, <3>1 DEF StreamInv, Quiet, HandlerMoves, LoopMovesOn
  <2> QED
    BY <2>1 DEF Quiet
<1>8. Final(r)'
  BY <1>2, <1>4, <1>5 DEF StreamInv, Final, LoopMovesOn
<1>9. LastAlone(r)'
  BY <1>5 DEF StreamInv, LastAlone, IsChunk
<1>10. Entered(r)'
  BY <1>2, <1>5 DEF StreamInv, Entered, HandlerMoves, CallMovesOn, LoopMovesOn
<1>11. Line(r)'
  BY <1>2, <1>4, <1>6 DEF StreamInv, Line, HandlerMoves, LoopMovesOn
<1>12. Flight(r)'
  <2> SUFFICES ASSUME Flowing(r)', Live'
               PROVE  Flight(r)'
    BY DEF Flight
  <2>0. Flowing(r) /\ Live /\ Taken(r)' = Taken(r) /\ Expected(r)' = Expected(r)
    BY <1>2, <1>6 DEF LoopMovesOn
  <2>1. ASSUME NEW i \in InFlight(r)'
        PROVE  /\ Expected(r)' <= Place(toHub[i])'
               /\ handler'[r] \notin Over => Place(toHub[i])' < Produced(r)'
    BY <1>2, <1>5, <1>6, <2>0 DEF StreamInv, Flight, HandlerMoves
  <2>2. ASSUME NEW i \in InFlight(r)', NEW j \in InFlight(r)', i < j
        PROVE  Place(toHub[i])' < Place(toHub[j])'
    BY <1>5, <2>0, <2>2 DEF StreamInv, Flight
  <2>3. ASSUME NEW j \in InFlight(r)', NEW k \in Expected(r)'..(Place(toHub[j])' - 1)
        PROVE  \E i \in InFlight(r)' : i < j /\ Place(toHub[i])' = k
    <3>1. k \in Expected(r)..(Place(toHub[j + d]) - 1) /\ j + d \in InFlight(r)
      BY <1>5, <2>0
    <3>2. PICK i \in InFlight(r) : i < j + d /\ Place(toHub[i]) = k
      BY <2>0, <3>1 DEF StreamInv, Flight
    <3>3. i - d \in InFlight(r)'
      BY <1>1, <3>2
    <3>4. i - d < j /\ (i - d) + d = i
      BY <1>5, <3>2
    <3> QED
      BY <1>5, <3>2, <3>3, <3>4
  <2>4. ASSUME link', handler'[r] \notin Over, NEW k \in Expected(r)'..(Produced(r)' - 1)
        PROVE  \E i \in InFlight(r)' : Place(toHub[i])' = k
    <3>1. link /\ handler[r] \notin Over /\ k \in Expected(r)..(Produced(r) - 1)
      BY <1>2, <2>0, <2>4 DEF HandlerMoves, LoopMovesOn
    <3>2. PICK i \in InFlight(r) : Place(toHub[i]) = k
      BY <2>0, <3>1 DEF StreamInv, Flight
    <3>3. i - d \in InFlight(r)' /\ (i - d) + d = i
      BY <1>1, <1>5, <2>4, <3>2
    <3> QED
      BY <1>5, <3>2, <3>3
  <2> QED
    BY <2>1, <2>2, <2>3, <2>4 DEF Flight
<1>13. Ends(r)'
  BY <1>2, <1>6 DEF StreamInv, Ends, LoopMovesOn
<1>14. Held(r)' /\ Whole(r)'
  BY <1>2 DEF StreamInv, CallMovesOn
<1> QED
  BY <1>7, <1>8, <1>9, <1>10, <1>11, <1>12, <1>13, <1>14 DEF StreamInv

-----------------------------------------------------------------------------
(* What becomes of toHub.                                                  *)

LEMMA ShiftSame ==
  ASSUME UNCHANGED toHub, NEW r \in Streams
  PROVE  Shift(r)
<1>1. InFlight(r)' = InFlight(r) /\ \A i \in InFlight(r) : i \in Nat
  BY DEF InFlight
<1>2. \A i \in InFlight(r) : i + 0 = i /\ i - 0 = i
  BY <1>1
<1>3. /\ \A j \in InFlight(r)' : j + 0 \in InFlight(r) /\ toHub'[j] = toHub[j + 0]
      /\ \A i \in InFlight(r) : i - 0 \in InFlight(r)'
  BY <1>1, <1>2
<1> QED
  BY <1>3 DEF Shift

LEMMA ShiftAppend ==
  ASSUME TypeOK, NEW r \in Streams, NEW m \in Responses, m.id # r,
         toHub' = Append(toHub, m)
  PROVE  Shift(r)
<1>1. /\ Len(toHub) \in Nat /\ Len(toHub') = Len(toHub) + 1
      /\ \A i \in 1..Len(toHub) : toHub'[i] = toHub[i]
      /\ toHub'[Len(toHub) + 1] = m
  BY AppendElements, LenProperties DEF TypeOK
<1>2. \A i \in InFlight(r) : i + 0 = i /\ i - 0 = i
  BY DEF InFlight
<1>3. InFlight(r)' = InFlight(r)
  BY <1>1 DEF InFlight
<1>4. \A i \in InFlight(r) : toHub'[i] = toHub[i]
  BY <1>1 DEF InFlight
<1>5. /\ \A j \in InFlight(r)' : j + 0 \in InFlight(r) /\ toHub'[j] = toHub[j + 0]
      /\ \A i \in InFlight(r) : i - 0 \in InFlight(r)'
  BY <1>2, <1>3, <1>4
<1> QED
  BY <1>5 DEF Shift

LEMMA ShiftTail ==
  ASSUME TypeOK, NEW r \in Streams, toHub # <<>>, Head(toHub).id # r,
         toHub' = Tail(toHub)
  PROVE  Shift(r)
<1>1. /\ Head(toHub) = toHub[1] /\ Len(toHub) \in Nat \ {0}
      /\ Len(toHub') = Len(toHub) - 1
      /\ \A i \in 1..Len(toHub') : toHub'[i] = toHub[i + 1]
  BY TailElements DEF TypeOK
<1>2. \A j \in InFlight(r)' : j + 1 \in InFlight(r) /\ toHub'[j] = toHub[j + 1]
  BY <1>1 DEF InFlight
<1>3. \A i \in InFlight(r) : i - 1 \in InFlight(r)'
  <2> SUFFICES ASSUME NEW i \in InFlight(r) PROVE i - 1 \in InFlight(r)'
    OBVIOUS
  <2>1. i \in 1..Len(toHub) /\ i # 1 /\ toHub[i].id = r
    BY <1>1 DEF InFlight
  <2>2. i - 1 \in 1..Len(toHub') /\ (i - 1) + 1 = i
    BY <1>1, <2>1
  <2>3. toHub'[i - 1].id = r
    BY <1>1, <2>1, <2>2
  <2> QED
    BY <2>2, <2>3 DEF InFlight
<1> QED
  BY <1>2, <1>3 DEF Shift

LEMMA ShiftPrefix ==
  ASSUME TypeOK, NEW r \in Streams, NEW n \in 0..Len(toHub), toHub' = Prefix(toHub, n),
         ~link'
  PROVE  Shift(r)
<1>1. /\ Len(toHub) \in Nat /\ Len(toHub') = n
      /\ \A i \in 1..n : toHub'[i] = toHub[i]
  BY PrefixElements, LenProperties DEF TypeOK
<1>2. \A j \in InFlight(r)' : j \in InFlight(r) /\ j + 0 = j /\ toHub'[j] = toHub[j]
  BY <1>1 DEF InFlight
<1>3. ASSUME NEW i \in InFlight(r), NEW j \in InFlight(r)', i < j + 0
      PROVE  i - 0 \in InFlight(r)'
  <2>1. i \in Nat /\ j \in Nat /\ i \in 1..n /\ i - 0 = i
    BY <1>1, <1>3 DEF InFlight
  <2> QED
    BY <1>1, <2>1 DEF InFlight
<1> QED
  BY <1>2, <1>3 DEF Shift

-----------------------------------------------------------------------------
(* Steps that move a message of the stream.                                *)

(* The request goes out: nothing of its stream is anywhere yet.            *)
LEMMA StreamRequested ==
  ASSUME Before, NEW r \in Streams, StreamInv(r), SendRequest(r)
  PROVE  StreamInv(r)'
<1>1. /\ call[r] = "registered" /\ call'[r] = "waiting" /\ pump[r] = "none"
      /\ UNCHANGED <<chan, loop, cur, pending, closed, pump, held, delivered,
                     toHub, link, handler, sent>>
  BY DEF SendRequest, HubSend, hubVars, agentVars, Before, TypeOK, HubInv, PumpOfOk
<1>2. handler[r] = "none"
  BY <1>1 DEF Before, ExecInv, SentOnce, Unsent
<1>3. chan[r] = <<>> /\ ~Holds(r) /\ InFlight(r) = {} /\ sent[r] = 0
  BY <1>2 DEF StreamInv, Quiet, NotBegun
<1>4. Len(chan[r]) = 0 /\ Taken(r) = 0 /\ Expected(r) = 0 /\ Produced(r) = 0
  BY <1>1, <1>2, <1>3, EmptySeq DEF Taken, Expected, Produced
<1>5. Live => r \in pending
  BY <1>1, <1>2 DEF StreamInv, Entered, Over
<1>6. Live => r \notin closed /\ ~(loop = "close" /\ cur.id = r)
  BY <1>5 DEF Before, HubInv, Disjoint, HandOver
<1>7. /\ chan'[r] = <<>> /\ ~Holds(r)' /\ InFlight(r)' = {} /\ sent'[r] = 0
      /\ Len(chan[r])' = 0 /\ Taken(r)' = 0 /\ Expected(r)' = 0 /\ Produced(r)' = 0
      /\ handler'[r] = "none" /\ pump'[r] = "none"
      /\ Live' => r \in pending' /\ r \notin closed' /\ ~(loop' = "close" /\ cur'.id = r)
  BY <1>1, <1>2, <1>3, <1>4, <1>5, <1>6
     DEF Holds, InFlight, Live, Taken, Expected, Produced
<1>8. Held(r)'
  BY <1>1 DEF StreamInv, Held
<1> QED
  BY <1>7, <1>8 DEF StreamInv, Quiet, Final, LastAlone, Entered, Line, Flight, Ends, Whole

(* The pump, or the call for it, takes the first message from the channel. *)
LEMMA StreamTaken ==
  ASSUME TypeOK, NEW r \in Streams, StreamInv(r),
         chan[r] # <<>>, chan' = [chan EXCEPT ![r] = Tail(@)],
         UNCHANGED <<toHub, loop, cur, pending, closed, link, handler, sent>>,
         Flowing(r)' => /\ Flowing(r) /\ Taken(r)' = Taken(r) + 1
                        /\ Head(chan[r]).kind # "done",
         call'[r] \in {"registered", "waiting", "ok"} => call[r] \in {"registered", "waiting", "ok"},
         Held(r)', Whole(r)'
  PROVE  StreamInv(r)'
<1>1. /\ r \in Requests /\ Taken(r) \in Nat /\ Len(chan[r]) \in Nat \ {0}
      /\ chan'[r] = Tail(chan[r]) /\ Head(chan[r]) = chan[r][1]
      /\ Len(chan'[r]) = Len(chan[r]) - 1
      /\ \A i \in 1..Len(chan'[r]) : chan'[r][i] = chan[r][i + 1]
  <2>1. /\ r \in Requests /\ Taken(r) \in Nat /\ chan[r] \in Seq(Responses)
        /\ chan'[r] = Tail(chan[r])
    BY Numbers DEF TypeOK
  <2>2. /\ Len(chan[r]) \in Nat \ {0} /\ Head(chan[r]) = chan[r][1]
        /\ Len(Tail(chan[r])) = Len(chan[r]) - 1
        /\ \A i \in 1..(Len(chan[r]) - 1) : Tail(chan[r])[i] = chan[r][i + 1]
    BY <2>1, TailElements
  <2> QED
    BY <2>1, <2>2
<1>2. /\ Holds(r)' = Holds(r) /\ InFlight(r)' = InFlight(r) /\ Live' = Live
      /\ Produced(r)' = Produced(r)
      /\ \A m : Place(m)' = Place(m) /\ FinalMessage(m)' = FinalMessage(m)
      /\ Place(cur)' = Place(cur) /\ FinalMessage(cur)' = FinalMessage(cur)
      /\ \A i : toHub'[i] = toHub[i] /\ Place(toHub[i])' = Place(toHub[i])
                /\ FinalMessage(toHub[i])' = FinalMessage(toHub[i])
  BY DEF Holds, InFlight, Live, Produced, Place, FinalMessage
<1>3. \A i \in 1..Len(chan'[r]) : /\ i + 1 \in 1..Len(chan[r])
                                  /\ Place(chan[r][i])' = Place(chan[r][i + 1])
                                  /\ FinalMessage(chan[r][i])' = FinalMessage(chan[r][i + 1])
  BY <1>1, <1>2
<1>4. Flowing(r)' => Expected(r)' = Expected(r)
  BY <1>1, <1>2 DEF Expected
<1>5. handler[r] \notin NotBegun
  BY DEF StreamInv, Quiet
<1>6. Quiet(r)'
  BY <1>5 DEF Quiet
<1>7. Final(r)'
  BY <1>1, <1>2, <1>3 DEF StreamInv, Final
<1>8. LastAlone(r)' /\ Entered(r)'
  BY <1>2 DEF StreamInv, LastAlone, Entered, IsChunk
<1>9. Line(r)'
  <2> SUFFICES ASSUME Flowing(r)' PROVE Line(r)'
    BY DEF Line
  <2>1. \A i \in 1..Len(chan'[r]) : Place(chan[r][i])' = Taken(r)' + i - 1
    <3> SUFFICES ASSUME NEW i \in 1..Len(chan'[r])
                 PROVE  Place(chan[r][i])' = Taken(r)' + i - 1
      OBVIOUS
    <3>1. Place(chan[r][i + 1]) = Taken(r) + (i + 1) - 1
      BY <1>3 DEF StreamInv, Line
    <3> QED
      BY <1>1, <1>3, <3>1
  <2>2. Holds(r)' => Place(cur)' = Taken(r)' + Len(chan'[r])
    BY <1>1, <1>2 DEF StreamInv, Line
  <2> QED
    BY <1>2, <1>4, <2>1, <2>2 DEF StreamInv, Line
<1>10. Flight(r)'
  BY <1>2, <1>4 DEF StreamInv, Flight
<1>11. Ends(r)'
  <2> SUFFICES ASSUME Flowing(r)', Live, r \in closed \/ (loop = "close" /\ cur.id = r)
               PROVE  Len(chan'[r]) > 0 /\ chan'[r][Len(chan'[r])].kind = "done"
    BY <1>2 DEF Ends
  <2>1. chan[r][Len(chan[r])].kind = "done" /\ chan[r][1].kind # "done"
    BY <1>1 DEF StreamInv, Ends
  <2>2. Len(chan[r]) # 1
    BY <2>1
  <2> QED
    BY <1>1, <2>1, <2>2
<1> QED
  BY <1>6, <1>7, <1>8, <1>9, <1>10, <1>11 DEF StreamInv

(* readLoop reads a message of the stream: the one the hub expects.        *)
LEMMA StreamRead ==
  ASSUME Before, NEW r \in Streams, StreamInv(r), LoopRead, Head(toHub).id = r
  PROVE  StreamInv(r)'
<1> DEFINE m == Head(toHub)
<1>1. /\ m = toHub[1] /\ m \in Responses /\ m.id = r /\ Len(toHub) \in Nat \ {0}
      /\ Len(toHub') = Len(toHub) - 1
      /\ \A i \in 1..Len(toHub') : toHub'[i] = toHub[i + 1]
  BY TailElements DEF LoopRead, Before, TypeOK
<1>2. /\ loop = "read" /\ ~Holds(r)
      /\ UNCHANGED <<chan, closed, call, pump, held, delivered, link, handler, sent>>
      /\ IF r \in pending
           THEN /\ cur' = m /\ loop' = "send"
                /\ pending' = IF IsLast(m) THEN pending \ {r} ELSE pending
           ELSE UNCHANGED <<cur, loop, pending>>
  BY <1>1 DEF LoopRead, Holds, callVars, agentVars
<1> HIDE DEF m
<1>3. /\ 1 \in InFlight(r) /\ \A i \in InFlight(r) : i \in Nat \ {0}
      /\ \A i \in InFlight(r)' : i \in Nat \ {0}
      /\ \A i \in InFlight(r)' : i + 1 \in InFlight(r) /\ toHub'[i] = toHub[i + 1]
      /\ \A i \in InFlight(r) : i # 1 => i - 1 \in InFlight(r)'
  <2>1. 1 \in InFlight(r) /\ \A i \in InFlight(r) : i \in Nat \ {0}
    BY <1>1 DEF InFlight
  <2>2. \A i \in InFlight(r)' : /\ i \in Nat \ {0} /\ i + 1 \in InFlight(r)
                                /\ toHub'[i] = toHub[i + 1]
    BY <1>1 DEF InFlight
  <2>3. ASSUME NEW i \in InFlight(r), i # 1 PROVE i - 1 \in InFlight(r)'
    <3>1. i \in 1..Len(toHub) /\ toHub[i].id = r
      BY DEF InFlight
    <3>2. i - 1 \in 1..Len(toHub') /\ (i - 1) + 1 = i
      BY <1>1, <2>3, <3>1
    <3>3. toHub'[i - 1].id = r
      BY <1>1, <3>1, <3>2
    <3> QED
      BY <3>2, <3>3 DEF InFlight
  <2> QED
    BY <2>1, <2>2, <2>3
<1>4. /\ \A q : Place(q)' = Place(q) /\ FinalMessage(q)' = FinalMessage(q)
      /\ \A i \in InFlight(r)' : Place(toHub[i])' = Place(toHub[i + 1])
                                 /\ FinalMessage(toHub[i])' = FinalMessage(toHub[i + 1])
      /\ \A i : Place(chan[r][i])' = Place(chan[r][i])
                /\ FinalMessage(chan[r][i])' = FinalMessage(chan[r][i])
      /\ Taken(r)' = Taken(r) /\ Produced(r)' = Produced(r) /\ Flowing(r)' = Flowing(r)
  <2>1. \A q : Place(q)' = Place(q) /\ FinalMessage(q)' = FinalMessage(q)
    BY <1>2 DEF Place, FinalMessage
  <2> QED
    BY <1>2, <1>3, <2>1 DEF Taken, Produced, Flowing
<1>5. /\ TypeOK /\ Taken(r) \in Nat /\ Len(chan[r]) \in Nat
      /\ Expected(r) = Taken(r) + Len(chan[r]) /\ Produced(r) \in Nat
      /\ \A i \in InFlight(r) : Place(toHub[i]) \in Nat
  BY <1>2, Numbers, FlightPlaces DEF Before, Expected
<1>6. handler[r] \notin NotBegun /\ FinalMessage(m)
  BY <1>1, <1>3 DEF StreamInv, Quiet, Final
<1>7. Quiet(r)' /\ Held(r)' /\ Whole(r)'
  BY <1>2, <1>6 DEF StreamInv, Quiet, Held, Whole
<1>8. LastAlone(r)'
  <2> SUFFICES ASSUME NEW i \in InFlight(r)', NEW j \in InFlight(r)', i < j
               PROVE  IsChunk(toHub'[i])
    BY DEF LastAlone, IsChunk
  <2>1. i + 1 \in InFlight(r) /\ j + 1 \in InFlight(r) /\ i + 1 < j + 1
    BY <1>3
  <2> QED
    BY <1>3, <2>1 DEF StreamInv, LastAlone
<1>9. CASE r \in pending
  <2>1. /\ cur' = m /\ loop' = "send" /\ Holds(r)' /\ r \notin closed
        /\ pending' = IF IsLast(m) THEN pending \ {r} ELSE pending
    BY <1>1, <1>2, <1>9 DEF Holds, Before, HubInv, Disjoint
  <2>2. Place(cur)' = Place(m) /\ FinalMessage(cur)'
    BY <1>4, <1>6, <2>1
  <2>3. Expected(r)' = Expected(r) + 1
    BY <1>2, <1>4, <1>5, <2>1 DEF Expected
  <2>4. Final(r)'
    BY <1>2, <1>3, <1>4, <2>2 DEF StreamInv, Final
  <2>5. Entered(r)'
    <3>1. CASE ~IsLast(m)
      BY <2>1, <3>1, <1>9 DEF Entered
    <3>2. CASE IsLast(m)
      <4>1. ~IsChunk(m) /\ handler[r] \in Over
        BY <1>1, <1>6, <3>2 DEF IsLast, IsDone, IsChunk, FinalMessage, Responses, Kinds
      <4>2. InFlight(r)' = {}
        BY <1>1, <1>3, <4>1 DEF StreamInv, LastAlone
      <4> QED
        BY <1>2, <4>1, <4>2 DEF Entered
    <3> QED
      BY <3>1, <3>2
  <2>6. Flowing(r) => Place(m) = Expected(r)
    <3> SUFFICES ASSUME Flowing(r), Place(m) # Expected(r) PROVE FALSE
      OBVIOUS
    <3>0. Live /\ Place(m) = Place(toHub[1]) /\ Place(toHub[1]) \in Nat
      BY <1>1, <1>2, <1>3, <1>5 DEF Live
    <3>1. Expected(r) < Place(m) /\ Place(m) \in Nat
      BY <1>3, <1>5, <3>0 DEF StreamInv, Flight
    <3>2. Expected(r) \in Expected(r)..(Place(m) - 1)
      BY <1>5, <3>1
    <3>3. \E i \in InFlight(r) : i < 1 /\ Place(toHub[i]) = Expected(r)
      BY <1>1, <1>2, <1>3, <3>2 DEF StreamInv, Flight, Live
    <3> QED
      BY <1>3, <3>3
  <2>7. Line(r)'
    <3>1. Flowing(r) /\ handler[r] \notin Over => Expected(r) < Produced(r)
      BY <1>1, <1>2, <1>3, <1>5, <2>6 DEF StreamInv, Flight, Live
    <3> QED
      BY <1>2, <1>4, <1>5, <2>2, <2>3, <2>6, <3>1 DEF StreamInv, Line
  <2>8. Flight(r)'
    <3> SUFFICES ASSUME Flowing(r) PROVE Flight(r)'
      BY <1>4 DEF Flight
    <3>0. Live /\ Place(toHub[1]) = Expected(r) /\ Expected(r) \in Nat
      BY <1>1, <1>2, <1>5, <2>6 DEF Live
    <3>1. ASSUME NEW i \in InFlight(r)'
          PROVE  /\ Expected(r)' <= Place(toHub[i])'
                 /\ handler'[r] \notin Over => Place(toHub[i])' < Produced(r)'
      <4>1. i + 1 \in InFlight(r) /\ 1 < i + 1
        BY <1>3
      <4>2. Place(toHub[1]) < Place(toHub[i + 1])
        BY <1>3, <3>0, <4>1 DEF StreamInv, Flight
      <4>3. handler[r] \notin Over => Place(toHub[i + 1]) < Produced(r)
        BY <3>0, <4>1 DEF StreamInv, Flight
      <4> QED
        BY <1>2, <1>4, <1>5, <2>3, <3>0, <4>1, <4>2, <4>3
    <3>2. ASSUME NEW i \in InFlight(r)', NEW j \in InFlight(r)', i < j
          PROVE  Place(toHub[i])' < Place(toHub[j])'
      <4>1. i + 1 \in InFlight(r) /\ j + 1 \in InFlight(r) /\ i + 1 < j + 1
        BY <1>3, <3>2
      <4> QED
        BY <1>4, <3>0, <4>1 DEF StreamInv, Flight
    <3>3. ASSUME NEW j \in InFlight(r)', NEW k \in Expected(r)'..(Place(toHub[j])' - 1)
          PROVE  \E i \in InFlight(r)' : i < j /\ Place(toHub[i])' = k
      <4>1. j + 1 \in InFlight(r) /\ k \in Expected(r)..(Place(toHub[j + 1]) - 1)
            /\ k # Expected(r)
        BY <1>3, <1>4, <1>5, <2>3, <3>0
      <4>2. PICK i \in InFlight(r) : i < j + 1 /\ Place(toHub[i]) = k
        BY <3>0, <4>1 DEF StreamInv, Flight
      <4>3. i # 1 /\ i - 1 \in InFlight(r)' /\ (i - 1) + 1 = i /\ i - 1 < j
        BY <1>3, <3>0, <4>1, <4>2
      <4> QED
        BY <1>4, <4>2, <4>3
    <3>4. ASSUME link', handler'[r] \notin Over, NEW k \in Expected(r)'..(Produced(r)' - 1)
          PROVE  \E i \in InFlight(r)' : Place(toHub[i])' = k
      <4>1. k \in Expected(r)..(Produced(r) - 1) /\ k # Expected(r)
        BY <1>4, <1>5, <2>3, <3>0
      <4>2. PICK i \in InFlight(r) : Place(toHub[i]) = k
        BY <1>2, <3>0, <3>4, <4>1 DEF StreamInv, Flight
      <4>3. i # 1 /\ i - 1 \in InFlight(r)' /\ (i - 1) + 1 = i
        BY <1>3, <3>0, <4>1, <4>2
      <4> QED
        BY <1>4, <4>2, <4>3
    <3> QED
      BY <3>1, <3>2, <3>3, <3>4 DEF Flight
  <2>9. Ends(r)'
    BY <1>2, <2>1 DEF Ends
  <2> QED
    BY <1>7, <1>8, <2>4, <2>5, <2>7, <2>8, <2>9 DEF StreamInv
<1>10. CASE r \notin pending
  <2>1. UNCHANGED <<cur, loop, pending>> /\ ~Holds(r)'
    BY <1>2, <1>10 DEF Holds
  <2>2. call[r] \notin {"registered", "waiting", "ok"}
    BY <1>2, <1>3, <1>10 DEF StreamInv, Entered, Live
  <2>3. ~Flowing(r)' /\ Entered(r)'
    BY <1>2, <2>2 DEF Flowing, Entered
  <2>4. Final(r)'
    BY <1>2, <1>3, <1>4, <2>1 DEF StreamInv, Final
  <2> QED
    BY <1>7, <1>8, <2>3, <2>4 DEF StreamInv, Line, Flight, Ends
<1> QED
  BY <1>9, <1>10

(* readLoop hands a message of the stream over to its channel, where it is *)
(* the last.                                                               *)
LEMMA StreamHandedOver ==
  ASSUME Before, NEW r \in Streams, StreamInv(r), LoopSend, cur.id = r
  PROVE  StreamInv(r)'
<1>1. /\ loop = "send" /\ Holds(r) /\ ~Holds(r)' /\ Live /\ Live'
      /\ loop' = (IF ClosesChannel(cur) THEN "close" ELSE "read")
      /\ chan'[r] = Append(chan[r], cur)
      /\ UNCHANGED <<cur, pending, closed, call, pump, held, delivered, toHub, link,
                     handler, sent>>
  BY DEF LoopSend, Holds, Live, callVars, wireVars, agentVars, Before, TypeOK
<1>2. /\ Taken(r) \in Nat /\ Len(chan[r]) \in Nat /\ Len(chan'[r]) = Len(chan[r]) + 1
      /\ \A i \in 1..Len(chan[r]) : chan'[r][i] = chan[r][i]
      /\ chan'[r][Len(chan[r]) + 1] = cur
  <2>1. chan[r] \in Seq(Responses) /\ cur \in Responses
    BY DEF Before, TypeOK
  <2> QED
    BY <1>1, <2>1, AppendElements, Numbers DEF Before
<1>3. r \notin closed /\ FinalMessage(cur) /\ handler[r] \notin NotBegun
  BY <1>1 DEF Before, HubInv, HandOver, StreamInv, Final, Quiet
<1>4. /\ InFlight(r)' = InFlight(r) /\ Taken(r)' = Taken(r) /\ Produced(r)' = Produced(r)
      /\ Flowing(r)' = Flowing(r)
      /\ \A q : Place(q)' = Place(q) /\ FinalMessage(q)' = FinalMessage(q)
      /\ \A i : toHub'[i] = toHub[i] /\ Place(toHub[i])' = Place(toHub[i])
                /\ FinalMessage(toHub[i])' = FinalMessage(toHub[i])
      /\ Place(cur)' = Place(cur) /\ FinalMessage(cur)'
  BY <1>1, <1>3 DEF InFlight, Taken, Produced, Flowing, Place, FinalMessage
<1>5. Expected(r)' = Expected(r)
  BY <1>1, <1>2, <1>4 DEF Expected
<1>6. \A i \in 1..Len(chan'[r]) :
        \/ i \in 1..Len(chan[r]) /\ chan'[r][i] = chan[r][i]
        \/ i = Len(chan[r]) + 1 /\ chan'[r][i] = cur
  BY <1>2
<1>7. Quiet(r)' /\ Entered(r)' /\ Held(r)' /\ Whole(r)'
  BY <1>1, <1>3, <1>4 DEF StreamInv, Quiet, Entered, Held, Whole
<1>8. Final(r)'
  <2>1. ASSUME NEW i \in 1..Len(chan'[r])
        PROVE  chan'[r][i].id = r /\ FinalMessage(chan'[r][i])
    BY <1>3, <1>6 DEF StreamInv, Final
  <2>2. \A i \in 1..Len(chan'[r]) : FinalMessage(chan[r][i])'
    BY <1>1, <2>1 DEF FinalMessage
  <2> QED
    BY <1>1, <1>4, <2>1, <2>2 DEF StreamInv, Final
<1>9. LastAlone(r)'
  BY <1>4 DEF StreamInv, LastAlone, IsChunk
<1>10. Line(r)'
  <2> SUFFICES ASSUME Flowing(r) PROVE Line(r)'
    BY <1>4 DEF Line
  <2>1. ASSUME NEW i \in 1..Len(chan'[r])
        PROVE  Place(chan[r][i])' = Taken(r)' + i - 1
    <3>1. Place(chan[r][i])' = Place(chan'[r][i])
      BY <1>1 DEF Place
    <3>2. CASE i \in 1..Len(chan[r]) /\ chan'[r][i] = chan[r][i]
      BY <1>4, <3>1, <3>2 DEF StreamInv, Line
    <3>3. CASE i = Len(chan[r]) + 1 /\ chan'[r][i] = cur
      <4>1. Place(cur) = Taken(r) + Len(chan[r])
        BY <1>1 DEF StreamInv, Line
      <4> QED
        BY <1>2, <1>4, <3>1, <3>3, <4>1
    <3> QED
      BY <1>6, <3>2, <3>3
  <2> QED
    BY <1>1, <1>4, <1>5, <2>1 DEF StreamInv, Line
<1>11. Flight(r)'
  BY <1>1, <1>4, <1>5 DEF StreamInv, Flight
<1>12. Ends(r)'
  <2>1. loop' = "close" => cur.kind = "done"
    <3>1. cur \in Responses
      BY DEF Before, TypeOK
    <3> QED
      BY <1>1, <1>3, <3>1 DEF ClosesChannel, IsDone, IsChunk, FinalMessage, Responses, Kinds
  <2> QED
    BY <1>1, <1>2, <1>3, <2>1 DEF Ends
<1> QED
  BY <1>7, <1>8, <1>9, <1>10, <1>11, <1>12 DEF StreamInv

(* The goroutine of the stream sends its next message, which takes the     *)
(* next place, behind all others.                                          *)
Sends(m) == link /\ UNCHANGED link /\ toHub' = Append(toHub, m)

LEMMA StreamSent ==
  ASSUME Before, NEW r \in Streams, StreamInv(r), NEW m \in Responses, m.id = r,
         Sends(m), UNCHANGED <<loop, cur, pending, chan, closed, call, pump, held, delivered, sent>>,
         handler[r] \notin Over, handler'[r] \notin NotBegun,
         Place(m) = Produced(r), FinalMessage(m)',
         handler'[r] \notin Over => Produced(r)' = Produced(r) + 1
  PROVE  StreamInv(r)'
<1>0. PICK N \in Nat : N = Len(toHub) + 1
  BY Numbers DEF Before
<1>1. /\ Len(toHub') = N /\ toHub'[N] = m
      /\ \A i \in 1..Len(toHub) : toHub'[i] = toHub[i] /\ i < N
      /\ link /\ link'
  BY <1>0, AppendElements, Numbers DEF Before, Sends
<1>2. /\ N \in InFlight(r)' /\ InFlight(r)' = InFlight(r) \cup {N}
      /\ \A i \in InFlight(r) : i \in Nat /\ i < N /\ toHub'[i] = toHub[i]
  BY <1>0, <1>1 DEF InFlight
<1>3. /\ Expected(r) \in Nat /\ Produced(r) \in Nat /\ Taken(r) \in Nat
      /\ \A i \in InFlight(r) : Place(toHub[i]) \in Nat
  BY Numbers, FlightPlaces DEF Before
<1>4. \A i \in InFlight(r) : IsChunk(toHub[i])
  <2>1. ASSUME NEW i \in InFlight(r)
        PROVE  IsChunk(toHub[i])
    <3>1. toHub[i] \in Responses /\ toHub[i].id = r /\ FinalMessage(toHub[i])
      BY FlightPlaces DEF Before, StreamInv, Final
    <3> QED
      BY <3>1 DEF FinalMessage, IsChunk, Responses, Kinds
  <2> QED
    BY <2>1
<1>5. /\ Holds(r)' = Holds(r) /\ Live' = Live /\ Flowing(r)' = Flowing(r)
      /\ Taken(r)' = Taken(r) /\ Expected(r)' = Expected(r)
      /\ \A q : Place(q)' = Place(q)
      /\ \A i : Place(chan[r][i])' = Place(chan[r][i])
      /\ \A i \in InFlight(r) : Place(toHub[i])' = Place(toHub[i])
      /\ Place(toHub[N])' = Produced(r)
      /\ Place(cur)' = Place(cur)
  <2>1. \A q : Place(q)' = Place(q)
    BY DEF Place
  <2>2. /\ \A i \in InFlight(r) : Place(toHub[i])' = Place(toHub[i])
        /\ Place(toHub[N])' = Produced(r)
    BY <1>1, <1>2 DEF Place
  <2> QED
    BY <2>1, <2>2 DEF Holds, Live, Flowing, Taken, Expected, Place
<1>6. ASSUME NEW q, q.id = r, FinalMessage(q)
      PROVE  FinalMessage(q)'
  BY <1>6 DEF FinalMessage
<1>7. Quiet(r)' /\ Held(r)' /\ Ends(r)'
  BY <1>5 DEF StreamInv, Quiet, Held, Ends
<1>8. Final(r)'
  <2>1. \A i \in 1..Len(chan[r]) : chan'[r][i].id = r /\ FinalMessage(chan[r][i])'
    BY DEF StreamInv, Final, FinalMessage
  <2>2. Holds(r) => FinalMessage(cur)'
    BY DEF StreamInv, Final, FinalMessage, Holds
  <2>3. ASSUME NEW i \in InFlight(r)'
        PROVE  FinalMessage(toHub[i])'
    <3>1. CASE i \in InFlight(r)
      BY <1>2, <1>4, <3>1 DEF IsChunk, FinalMessage
    <3>2. CASE i = N
      BY <1>1, <3>2 DEF FinalMessage
    <3> QED
      BY <1>2, <3>1, <3>2
  <2> QED
    BY <1>5, <2>1, <2>2, <2>3 DEF Final
<1>9. LastAlone(r)'
  <2> SUFFICES ASSUME NEW i \in InFlight(r)', NEW j \in InFlight(r)', i < j
               PROVE  IsChunk(toHub'[i])
    BY DEF LastAlone, IsChunk
  <2>1. i \in InFlight(r)
    BY <1>1, <1>2
  <2> QED
    BY <1>2, <1>4, <2>1
<1>10. Entered(r)'
  BY <1>5 DEF StreamInv, Entered
<1>11. Line(r)'
  BY <1>3, <1>5 DEF StreamInv, Line
<1>12. Flight(r)'
  <2> SUFFICES ASSUME Flowing(r), Live PROVE Flight(r)'
    BY <1>5 DEF Flight
  <2>0. /\ Expected(r) <= Produced(r)
        /\ \A i \in InFlight(r) : /\ Expected(r) <= Place(toHub[i])
                                  /\ Place(toHub[i]) < Produced(r)
    BY DEF StreamInv, Line, Flight
  <2>1. ASSUME NEW i \in InFlight(r)'
        PROVE  /\ Expected(r)' <= Place(toHub[i])'
               /\ handler'[r] \notin Over => Place(toHub[i])' < Produced(r)'
    <3>1. CASE i \in InFlight(r)
      BY <1>3, <1>5, <2>0, <3>1
    <3>2. CASE i = N
      BY <1>3, <1>5, <2>0, <3>2
    <3> QED
      BY <1>2, <3>1, <3>2
  <2>2. ASSUME NEW i \in InFlight(r)', NEW j \in InFlight(r)', i < j
        PROVE  Place(toHub[i])' < Place(toHub[j])'
    <3>1. i \in InFlight(r)
      BY <1>1, <1>2, <2>2
    <3>2. CASE j \in InFlight(r)
      BY <1>5, <2>2, <3>1, <3>2 DEF StreamInv, Flight
    <3>3. CASE j = N
      BY <1>5, <2>0, <3>1, <3>3
    <3> QED
      BY <1>2, <3>2, <3>3
  <2>3. \A k \in Expected(r)..(Produced(r) - 1) :
          \E i \in InFlight(r) : Place(toHub[i]) = k
    BY <1>1 DEF StreamInv, Flight
  <2>4. ASSUME NEW j \in InFlight(r)', NEW k \in Expected(r)'..(Place(toHub[j])' - 1)
        PROVE  \E i \in InFlight(r)' : i < j /\ Place(toHub[i])' = k
    <3>1. CASE j \in InFlight(r)
      <4>1. k \in Expected(r)..(Place(toHub[j]) - 1)
        BY <1>5, <3>1
      <4>2. PICK i \in InFlight(r) : i < j /\ Place(toHub[i]) = k
        BY <3>1, <4>1 DEF StreamInv, Flight
      <4> QED
        BY <1>2, <1>5, <4>2
    <3>2. CASE j = N
      <4>1. k \in Expected(r)..(Produced(r) - 1)
        BY <1>5, <3>2
      <4>2. PICK i \in InFlight(r) : Place(toHub[i]) = k
        BY <2>3, <4>1
      <4> QED
        BY <1>2, <1>5, <3>2, <4>2
    <3> QED
      BY <1>2, <3>1, <3>2
  <2>5. ASSUME handler'[r] \notin Over, NEW k \in Expected(r)'..(Produced(r)' - 1)
        PROVE  \E i \in InFlight(r)' : Place(toHub[i])' = k
    <3>1. k = Produced(r) \/ k \in Expected(r)..(Produced(r) - 1)
      BY <1>3, <1>5, <2>5
    <3> QED
      BY <1>2, <1>5, <2>3, <3>1
  <2> QED
    BY <2>1, <2>2, <2>4, <2>5 DEF Flight
<1>13. Whole(r)'
  BY <1>1 DEF StreamInv, Whole
<1> QED
  BY <1>7, <1>8, <1>9, <1>10, <1>11, <1>12, <1>13 DEF StreamInv

-----------------------------------------------------------------------------
(* Every step keeps the invariant of every stream: first those that leave  *)
(* one side of it alone.                                                   *)

LEMMA HandlerStays ==
  ASSUME NEW r \in Streams, handler'[r] = handler[r], sent'[r] = sent[r]
  PROVE  HandlerMoves(r)
BY DEF HandlerMoves, Produced

LEMMA CallStays ==
  ASSUME NEW r \in Streams, HandlerMoves(r), link' => link,
         UNCHANGED <<call, pump, held, delivered>>
  PROVE  CallMovesOn(r)
BY DEF CallMovesOn, HandlerMoves, Flowing, Taken, Held, Whole

LEMMA LoopStays ==
  ASSUME NEW r \in Streams, link' => link, UNCHANGED <<loop, cur, pending, closed>>
  PROVE  LoopMovesOn(r)
BY DEF LoopMovesOn, Live, Holds

(* A step of a call or of a pump that takes nothing from the channel.      *)
LEMMA CallMoved ==
  ASSUME TypeOK, NEW r \in Streams, StreamInv(r), chan'[r] = chan[r],
         UNCHANGED <<loop, cur, closed, link, toHub, handler, sent>>,
         r \in pending => r \in pending' \/ call'[r] = "failed",
         CallMovesOn(r)
  PROVE  StreamInv(r)'
<1>1. LoopMovesOn(r)
  BY DEF LoopMovesOn, Live, Holds
<1>2. Keeps(r)
  BY <1>1, ShiftSame, HandlerStays DEF Keeps
<1> QED
  BY <1>2, Frame

(* A step of the goroutine that sends nothing the hub can receive.         *)
LEMMA HandlerMoved ==
  ASSUME TypeOK, NEW r \in Streams, StreamInv(r),
         UNCHANGED <<hubVars, callVars, link, toHub>>,
         HandlerMoves(r)
  PROVE  StreamInv(r)'
<1>1. UNCHANGED <<loop, cur, pending, closed, chan, call, pump, held, delivered>>
  BY DEF hubVars, callVars
<1>2. Keeps(r)
  BY <1>1, ShiftSame, CallStays, LoopStays DEF Keeps
<1> QED
  BY <1>2, Frame

(* A step of readLoop, or of the connection, that is not about the stream. *)
LEMMA LoopMoved ==
  ASSUME TypeOK, NEW r \in Streams, StreamInv(r), chan'[r] = chan[r],
         UNCHANGED <<call, pump, held, delivered, handler, sent>>,
         Shift(r), LoopMovesOn(r)
  PROVE  StreamInv(r)'
<1>1. link' => link
  BY DEF LoopMovesOn
<1>2. Keeps(r)
  BY <1>1, HandlerStays, CallStays DEF Keeps
<1> QED
  BY <1>2, Frame

LEMMA StreamFirstOrder ==
  ASSUME Before, NEW r \in Streams, StreamInv(r), StreamFirst(r)
  PROVE  StreamInv(r)'
<1> DEFINE m == Head(chan[r])
<1>1. /\ call[r] = "waiting" /\ chan[r] # <<>> /\ chan' = [chan EXCEPT ![r] = Tail(@)]
      /\ IF m.kind = "error"
           THEN call'[r] = "failed" /\ pump' = pump
           ELSE call'[r] = "ok" /\ pump'[r] = IF IsLast(m) THEN "eof" ELSE "receive"
      /\ UNCHANGED <<toHub, loop, cur, pending, closed, link, handler, sent, held, delivered>>
  BY DEF StreamFirst, wireVars, agentVars, Before, TypeOK
<1>2. m = chan[r][1] /\ m \in Responses /\ Len(chan[r]) \in Nat \ {0}
  BY <1>1, TailElements DEF Before, TypeOK
<1> HIDE DEF m
<1>3. /\ pump[r] = "none" /\ delivered[r] = 0 /\ Taken(r) = 0 /\ Flowing(r)
      /\ sent[r] \in Nat
  BY <1>1, Numbers DEF Before, HubInv, PumpOfOk, StreamInv, Held, Taken, Flowing
<1>4. FinalMessage(m) /\ Place(m) = 0 /\ m.id = r
  <2>1. Place(chan[r][1]) = Taken(r) + 1 - 1
    BY <1>2, <1>3 DEF StreamInv, Line
  <2> QED
    BY <1>2, <1>3, <2>1 DEF StreamInv, Final
<1>5. m.kind # "error" => m.kind \in {"head", "data"}
  BY <1>2, <1>3, <1>4 DEF FinalMessage, Place, Responses, Kinds
<1>6. Held(r)' /\ Whole(r)'
  BY <1>1, <1>3, <1>5 DEF Held, Whole, IsLast, IsChunk, IsDone
<1>7. Flowing(r)' => /\ Flowing(r) /\ Taken(r)' = Taken(r) + 1
                     /\ Head(chan[r]).kind # "done"
  BY <1>1, <1>3, <1>5 DEF Flowing, Taken, m, IsLast, IsChunk, IsDone
<1> QED
  BY <1>1, <1>6, <1>7, StreamTaken DEF Before

LEMMA PumpReceiveOrder ==
  ASSUME Before, NEW r \in Streams, StreamInv(r), PumpReceive(r)
  PROVE  StreamInv(r)'
<1> DEFINE m == Head(chan[r])
<1>1. /\ pump[r] = "receive" /\ chan[r] # <<>> /\ chan' = [chan EXCEPT ![r] = Tail(@)]
      /\ pump'[r] = (IF m.kind = "data" THEN "write"
                     ELSE IF m.kind = "error" THEN "error"
                     ELSE IF IsDone(m) THEN "eof" ELSE "receive")
      /\ m.kind = "data" => held'[r] = m.n
      /\ UNCHANGED <<toHub, loop, cur, pending, closed, call, link, handler, sent, delivered>>
  BY DEF PumpReceive, wireVars, agentVars, Before, TypeOK
<1>2. m = chan[r][1] /\ m \in Responses /\ Len(chan[r]) \in Nat \ {0}
  BY <1>1, TailElements DEF Before, TypeOK
<1> HIDE DEF m
<1>3. /\ call[r] = "ok" /\ Flowing(r) /\ Taken(r) = delivered[r] + 1
      /\ sent[r] \in Nat /\ delivered[r] \in Nat
  BY <1>1, Numbers DEF Before, HubInv, PumpOfOk, Taken, Flowing
<1>4. FinalMessage(m) /\ Place(m) = delivered[r] + 1 /\ m.id = r
  <2>1. Place(chan[r][1]) = Taken(r) + 1 - 1
    BY <1>2, <1>3 DEF StreamInv, Line
  <2> QED
    BY <1>2, <1>3, <2>1 DEF StreamInv, Final
<1>5. /\ m.kind \in {"data", "error", "done"}
      /\ m.kind = "data" => m.n = delivered[r] + 1
      /\ m.kind = "done" => delivered[r] = sent[r] /\ handler[r] \in Over
  BY <1>2, <1>3, <1>4 DEF FinalMessage, Place, Responses, Kinds
<1>6. Held(r)' /\ Whole(r)'
  BY <1>1, <1>3, <1>5 DEF Held, Whole, IsDone
<1>7. Flowing(r)' => /\ Flowing(r) /\ Taken(r)' = Taken(r) + 1
                     /\ Head(chan[r]).kind # "done"
  BY <1>1, <1>3, <1>5 DEF Flowing, Taken, m, IsDone
<1> QED
  BY <1>1, <1>6, <1>7, StreamTaken DEF Before

LEMMA CallerOrder ==
  ASSUME Before, DeadLink, NEW r \in Streams, StreamInv(r), NEW q \in Requests, Caller(q)
  PROVE  StreamInv(r)'
<1> USE DEF Before
<1>1. CASE Get(q) \/ SendRequestFails(q) \/ ReturnsClosed(q) \/ Timeout(q)
  <2>1. /\ UNCHANGED <<loop, cur, closed, chan, link, toHub, handler, sent, pump, held, delivered>>
        /\ call' = [call EXCEPT ![q] = call'[q]]
        /\ r # q \/ call'[q] \in {"got", "failed"}
        /\ pending' \in {pending, pending \ {q}}
        /\ pending' # pending => call'[q] = "failed"
    BY <1>1 DEF Get, SendRequestFails, HubSendFails, ReturnsClosed, Timeout, TypeOK,
       hubVars, wireVars, agentVars
  <2>2. call'[r] = call[r] \/ (r = q /\ call'[r] \in {"got", "failed"})
    BY <2>1 DEF TypeOK
  <2>3. CallMovesOn(r)
    BY <2>1, <2>2 DEF CallMovesOn, Flowing, Taken, Held, Whole
  <2>4. r \in pending => r \in pending' \/ call'[r] = "failed"
    BY <2>1
  <2> QED
    BY <2>1, <2>3, <2>4, CallMoved
<1>2. CASE Register(q)
  <2>1. /\ UNCHANGED <<loop, cur, closed, chan, link, toHub, handler, sent, pump, held, delivered>>
        /\ \A p \in Requests \ {q} : call'[p] = call[p]
        /\ call'[q] = "registered" /\ pending' = pending \cup {q}
    BY <1>2 DEF Register, TypeOK, wireVars, agentVars
  <2>2. CallMovesOn(r)
    BY <2>1, Numbers DEF CallMovesOn, Flowing, Taken, Held, Whole
  <2> QED
    BY <2>1, <2>2, CallMoved
<1>3. CASE SendRequest(q)
  <2>1. CASE q = r
    BY <1>3, <2>1, StreamRequested
  <2>2. CASE q # r
    <3>1. /\ UNCHANGED <<loop, cur, pending, closed, chan, link, toHub, handler, sent, pump,
                         held, delivered>>
          /\ call'[r] = call[r]
      BY <1>3, <2>2, Numbers DEF SendRequest, HubSend, TypeOK, hubVars, agentVars
    <3>2. CallMovesOn(r)
      BY <3>1 DEF CallMovesOn, Flowing, Taken, Held, Whole
    <3> QED
      BY <3>1, <3>2, CallMoved
  <2> QED
    BY <2>1, <2>2
<1>4. CASE q # r /\ (RoundTripReturns(q) \/ StreamFirst(q))
  <2>1. /\ UNCHANGED <<loop, cur, pending, closed, link, toHub, handler, sent, held, delivered>>
        /\ call'[r] = call[r] /\ chan'[r] = chan[r] /\ pump'[r] = pump[r]
    BY <1>4, Numbers DEF RoundTripReturns, StreamFirst, TypeOK, wireVars, agentVars
  <2>2. CallMovesOn(r)
    BY <2>1 DEF CallMovesOn, Flowing, Taken, Held, Whole
  <2> QED
    BY <2>1, <2>2, CallMoved
<1>5. CASE q = r /\ StreamFirst(q)
  BY <1>5, StreamFirstOrder
<1>6. RoundTripReturns(q) => q # r
  BY DEF RoundTripReturns, Buffered
<1> QED
  BY <1>1, <1>2, <1>3, <1>4, <1>5, <1>6 DEF Caller

LEMMA PumpOrder ==
  ASSUME Before, DeadLink, NEW r \in Streams, StreamInv(r), NEW q \in Requests, Pump(q)
  PROVE  StreamInv(r)'
<1> USE DEF Before
<1>1. CASE q = r /\ PumpReceive(q)
  BY <1>1, PumpReceiveOrder
<1>2. CASE q # r
  <2>1. /\ UNCHANGED <<loop, cur, pending, closed, link, toHub, handler, sent, call>>
        /\ chan'[r] = chan[r] /\ pump'[r] = pump[r] /\ held'[r] = held[r]
        /\ delivered'[r] = delivered[r]
    BY <1>2, Numbers DEF Pump, PumpReceive, PumpEnds, Read, CloseReader, PumpWriteFails,
       SendCancel, HubSend, HubSendFails, TypeOK, hubVars, wireVars, agentVars
  <2>2. CallMovesOn(r)
    BY <2>1 DEF CallMovesOn, Flowing, Taken, Held, Whole
  <2> QED
    BY <2>1, <2>2, CallMoved
<1>3. CASE q = r /\ PumpEnds(q)
  <2>1. /\ UNCHANGED <<loop, cur, pending, closed, chan, link, toHub, handler, sent, call, held,
                       delivered>>
        /\ pump[r] = "receive" /\ pump'[r] = "eof" /\ chan[r] = <<>> /\ r \in closed
    BY <1>3 DEF PumpEnds, TypeOK, hubVars, wireVars, agentVars
  <2>2. Flowing(r) /\ Len(chan[r]) = 0
    BY <2>1, EmptySeq, Numbers DEF HubInv, PumpOfOk, Flowing
  <2>3. ~link
    BY <2>1, <2>2 DEF StreamInv, Ends, DeadLink
  <2>4. CallMovesOn(r)
    BY <2>1, <2>3 DEF CallMovesOn, Flowing, Held, Whole
  <2> QED
    BY <2>1, <2>4, CallMoved
<1>4. CASE q = r /\ (Read(q) \/ CloseReader(q) \/ PumpWriteFails(q) \/ SendCancel(q))
  <2>1. /\ UNCHANGED <<loop, cur, pending, closed, chan, link, toHub, handler, sent, call, held>>
        /\ \/ pump[r] = "write" /\ pump'[r] = "receive" /\ delivered'[r] = delivered[r] + 1
           \/ pump[r] = "write" /\ pump'[r] = "cancel" /\ delivered'[r] = delivered[r]
           \/ pump[r] = "cancel" /\ pump'[r] = "cancelled" /\ delivered'[r] = delivered[r]
           \/ UNCHANGED <<pump, delivered>>
    BY <1>4 DEF Read, CloseReader, PumpWriteFails, SendCancel, HubSend, HubSendFails, TypeOK,
       hubVars, wireVars, agentVars
  <2>2. delivered[r] \in Nat
    BY Numbers
  <2>3. CallMovesOn(r)
    BY <2>1, <2>2 DEF CallMovesOn, Flowing, Taken, Held, Whole
  <2> QED
    BY <2>1, <2>3, CallMoved
<1> QED
  BY <1>1, <1>2, <1>3, <1>4 DEF Pump

(* A send of another request's goroutine.                                  *)
LEMMA OthersSent ==
  ASSUME TypeOK, NEW r \in Streams, StreamInv(r), NEW m \in Responses, m.id # r,
         AgentSend(m) \/ AgentSendFails, UNCHANGED <<hubVars, callVars>>,
         handler'[r] = handler[r], sent'[r] = sent[r]
  PROVE  StreamInv(r)'
<1>1. link' = link /\ (toHub' = toHub \/ toHub' = Append(toHub, m))
  BY DEF AgentSend, AgentSendFails, wireVars
<1>2. Shift(r)
  BY <1>1, ShiftSame, ShiftAppend
<1>3. UNCHANGED <<loop, cur, pending, closed, chan, call, pump, held, delivered>>
  BY DEF hubVars, callVars
<1>4. Keeps(r)
  BY <1>1, <1>2, <1>3, HandlerStays, CallStays, LoopStays DEF Keeps
<1> QED
  BY <1>4, Frame

(* A send of the stream's own goroutine, which the hub receives or which   *)
(* vanishes.                                                               *)
LEMMA OwnSent ==
  ASSUME Before, DeadLink, NEW r \in Streams, StreamInv(r), NEW m \in Responses, m.id = r,
         AgentSend(m) \/ AgentSendFails, UNCHANGED <<hubVars, callVars, sent>>,
         handler[r] \notin Over, handler'[r] \notin NotBegun,
         Place(m) = Produced(r), m.kind # "reply",
         m.kind \in {"error", "done"} => handler'[r] \in Over,
         handler'[r] \notin Over => Produced(r)' = Produced(r) + 1
  PROVE  StreamInv(r)'
<1>1. UNCHANGED <<loop, cur, pending, closed, chan, call, pump, held, delivered>>
  BY DEF hubVars, callVars
<1>2. CASE link /\ toHub' = Append(toHub, m) /\ link' = link
  <2>1. Sends(m)
    BY <1>2 DEF Sends
  <2>2. FinalMessage(m)'
    BY DEF FinalMessage
  <2> QED
    BY <1>1, <2>1, <2>2, StreamSent
<1>3. CASE ~link /\ UNCHANGED <<link, toHub>>
  <2>1. HandlerMoves(r)
    BY <1>3, Numbers DEF HandlerMoves, Before
  <2> QED
    BY <1>3, <2>1, HandlerMoved DEF Before
<1> QED
  BY <1>2, <1>3 DEF AgentSend, AgentSendFails, wireVars, DeadLink

LEMMA OwnHandlerOrder ==
  ASSUME Before, DeadLink, NEW r \in Streams, StreamInv(r), Handler(r)
  PROVE  StreamInv(r)'
<1> USE DEF Before
<1>1. /\ r \in Requests /\ handler[r] \in StreamStates /\ sent[r] \in 0..MaxChunks
      /\ handler \in [Requests -> BufferedStates \cup StreamStates]
      /\ sent \in [Requests -> 0..MaxChunks]
  BY DEF TypeOK
<1>2. CASE Do(r) \/ StreamStart(r) \/ BodyReads(r) \/ BodyEnds(r) \/ Cleanup(r)
  <2>1. /\ UNCHANGED <<hubVars, callVars, link, toHub>>
        /\ \/ handler[r] = "do" /\ handler'[r] \in {"error", "head"} /\ sent' = sent
           \/ handler[r] = "start" /\ handler'[r] \in {"error", "do"} /\ sent' = sent
           \/ handler[r] = "body" /\ handler'[r] = "chunk" /\ sent'[r] = sent[r] + 1
           \/ handler[r] = "body" /\ handler'[r] = "done" /\ sent' = sent
           \/ handler[r] = "cleanup" /\ handler'[r] = "end" /\ sent' = sent
    BY <1>1, <1>2 DEF Do, StreamStart, BodyReads, BodyEnds, Cleanup, HandlerTo, AgentOnly, wireVars
  <2>2. HandlerMoves(r)
    BY <1>1, <2>1 DEF HandlerMoves, Produced, NotBegun, Over
  <2> QED
    BY <2>1, <2>2, HandlerMoved
<1>3. ~SendReply(r)
  BY <1>1 DEF SendReply, StreamStates
<1>4. CASE SendError(r)
  <2>1. /\ handler[r] = "error" /\ handler'[r] \in Over
        /\ UNCHANGED <<hubVars, callVars, sent>>
        /\ AgentSend(Message(r, "error")) \/ AgentSendFails
    BY <1>1, <1>4 DEF SendError, HandlerTo, Over
  <2>2. /\ Message(r, "error") \in Responses /\ Message(r, "error").id = r
        /\ Message(r, "error").kind = "error"
    BY <1>1, MessageTypes DEF Message, Kinds
  <2>3. Place(Message(r, "error")) = Produced(r)
    BY <2>1, <2>2 DEF Place, Produced
  <2> QED
    BY <2>1, <2>2, <2>3, OwnSent DEF Over, NotBegun
<1>5. CASE SendHead(r)
  <2>1. /\ handler[r] = "head" /\ handler'[r] = "body"
        /\ UNCHANGED <<hubVars, callVars, sent>>
        /\ AgentSend(Message(r, "head")) \/ AgentSendFails
    BY <1>1, <1>5 DEF SendHead, HandlerTo
  <2>2. /\ Message(r, "head") \in Responses /\ Message(r, "head").id = r
        /\ Message(r, "head").kind = "head"
    BY <1>1, MessageTypes DEF Message, Kinds
  <2>3. sent[r] = 0
    BY <2>1 DEF StreamInv, Quiet, NotBegun
  <2>4. Place(Message(r, "head")) = Produced(r) /\ Produced(r)' = Produced(r) + 1
    BY <2>1, <2>2, <2>3 DEF Place, Produced
  <2> QED
    BY <2>1, <2>2, <2>4, OwnSent DEF Over, NotBegun
<1>6. CASE SendDone(r)
  <2>1. /\ handler[r] = "done" /\ handler'[r] \in Over
        /\ UNCHANGED <<hubVars, callVars, sent>>
        /\ AgentSend(Message(r, "done")) \/ AgentSendFails
    BY <1>1, <1>6 DEF SendDone, HandlerTo, Over
  <2>2. /\ Message(r, "done") \in Responses /\ Message(r, "done").id = r
        /\ Message(r, "done").kind = "done"
    BY <1>1, MessageTypes DEF Message, Kinds
  <2>3. Place(Message(r, "done")) = Produced(r)
    BY <2>1, <2>2 DEF Place, Produced
  <2> QED
    BY <2>1, <2>2, <2>3, OwnSent DEF Over, NotBegun
<1>7. CASE SendChunk(r)
  <2> DEFINE m == [id |-> r, kind |-> "data", n |-> sent[r]]
  <2>1. m \in Responses /\ m.id = r /\ m.kind = "data" /\ m.n = sent[r]
    BY <1>1 DEF Responses, Kinds
  <2>2. /\ handler[r] = "chunk" /\ UNCHANGED <<hubVars, callVars, sent>>
        /\ \/ AgentSend(m) /\ handler'[r] = "body"
           \/ AgentSendFails /\ handler'[r] = "cleanup"
    BY <1>1, <1>7 DEF SendChunk, HandlerTo
  <2> HIDE DEF m
  <2>3. /\ Place(m) = Produced(r)
        /\ handler'[r] \notin Over => Produced(r)' = Produced(r) + 1
    BY <1>1, <2>1, <2>2 DEF Place, Produced, Over
  <2> QED
    BY <2>1, <2>2, <2>3, OwnSent DEF Over, NotBegun
<1> QED
  BY <1>2, <1>3, <1>4, <1>5, <1>6, <1>7 DEF Handler

LEMMA HandlerOrder ==
  ASSUME Before, DeadLink, NEW r \in Streams, StreamInv(r), NEW q \in Requests, Handler(q)
  PROVE  StreamInv(r)'
<1> USE DEF Before
<1>1. CASE q = r
  BY <1>1, OwnHandlerOrder
<1>2. CASE q # r
  <2>1. handler'[r] = handler[r] /\ sent'[r] = sent[r]
    BY <1>2 DEF Handler, Do, SendReply, SendError, StreamStart, SendHead, BodyReads, SendChunk,
       BodyEnds, SendDone, Cleanup, HandlerTo, TypeOK
  <2>2. CASE Do(q) \/ StreamStart(q) \/ BodyReads(q) \/ BodyEnds(q) \/ Cleanup(q)
    <3>1. UNCHANGED <<hubVars, callVars, link, toHub>>
      BY <2>2 DEF Do, StreamStart, BodyReads, BodyEnds, Cleanup, AgentOnly, wireVars
    <3> QED
      BY <2>1, <3>1, HandlerStays, HandlerMoved
  <2>3. CASE SendReply(q) \/ SendError(q) \/ SendHead(q) \/ SendChunk(q) \/ SendDone(q)
    <3>1. PICK m \in Responses : m.id = q /\ (AgentSend(m) \/ AgentSendFails)
      <4>1. /\ \A kind \in Kinds : Message(q, kind) \in Responses /\ Message(q, kind).id = q
            /\ {"reply", "error", "head", "done"} \subseteq Kinds
        BY MessageTypes DEF Message, Kinds
      <4>2. [id |-> q, kind |-> "data", n |-> sent[q]] \in Responses
        BY DEF Responses, Kinds, TypeOK
      <4> QED
        BY <2>3, <4>1, <4>2 DEF SendReply, SendError, SendHead, SendChunk, SendDone
    <3>2. UNCHANGED <<hubVars, callVars>>
      BY <2>3 DEF SendReply, SendError, SendHead, SendChunk, SendDone
    <3> QED
      BY <1>2, <2>1, <3>1, <3>2, OthersSent
  <2> QED
    BY <2>2, <2>3 DEF Handler
<1> QED
  BY <1>1, <1>2

LEMMA SeverShift ==
  ASSUME TypeOK, NEW r \in Streams, Sever
  PROVE  Shift(r) /\ ~link'
BY ShiftPrefix DEF Sever

LEMMA LoopOrder ==
  ASSUME Before, NEW r \in Streams, StreamInv(r), ReadLoop
  PROVE  StreamInv(r)'
<1> USE DEF Before
<1>1. CASE LoopRead /\ Head(toHub).id # r
  <2>1. /\ UNCHANGED <<chan, closed, call, pump, held, delivered, link, handler, sent>>
        /\ toHub # <<>> /\ toHub' = Tail(toHub) /\ loop = "read"
        /\ \/ /\ cur' = Head(toHub) /\ loop' = "send"
              /\ pending' \in {pending, pending \ {Head(toHub).id}}
           \/ UNCHANGED <<cur, loop, pending>>
    BY <1>1 DEF LoopRead, callVars, agentVars
  <2>2. LoopMovesOn(r)
    BY <1>1, <2>1 DEF LoopMovesOn, Live, Holds
  <2> QED
    BY <1>1, <2>1, <2>2, ShiftTail, LoopMoved
<1>2. CASE LoopRead /\ Head(toHub).id = r
  BY <1>2, StreamRead
<1>3. CASE LoopSend /\ cur.id # r
  <2>1. /\ UNCHANGED <<cur, pending, closed, call, pump, held, delivered, link, toHub, handler, sent>>
        /\ chan'[r] = chan[r] /\ loop = "send" /\ loop' \in {"close", "read"}
    BY <1>3, Numbers DEF LoopSend, TypeOK, callVars, wireVars, agentVars
  <2>2. LoopMovesOn(r)
    BY <1>3, <2>1 DEF LoopMovesOn, Live, Holds
  <2> QED
    BY <2>1, <2>2, ShiftSame, LoopMoved
<1>4. CASE LoopSend /\ cur.id = r
  BY <1>4, StreamHandedOver
<1>5. CASE LoopClose \/ LoopFails
  <2>1. /\ UNCHANGED <<cur, chan, call, pump, held, delivered, link, toHub, handler, sent>>
        /\ \/ /\ loop = "close" /\ loop' = "read" /\ closed' = closed \cup {cur.id}
              /\ pending' = pending
           \/ loop = "read" /\ loop' = "failed"
    BY <1>5 DEF LoopClose, LoopFails, callVars, wireVars, agentVars
  <2>2. LoopMovesOn(r)
    BY <2>1 DEF LoopMovesOn, Live, Holds
  <2> QED
    BY <2>1, <2>2, ShiftSame, LoopMoved
<1>6. CASE LoopExits
  <2>1. /\ UNCHANGED <<cur, pending, closed, chan, call, pump, held, delivered, handler, sent>>
        /\ loop = "failed" /\ loop' = "exited" /\ Sever
    BY <1>6 DEF LoopExits, callVars, agentVars
  <2>2. LoopMovesOn(r)
    BY <2>1, SeverShift DEF LoopMovesOn, Live, Holds
  <2> QED
    BY <2>1, <2>2, SeverShift, LoopMoved
<1> QED
  BY <1>1, <1>2, <1>3, <1>4, <1>5, <1>6 DEF ReadLoop

LEMMA ConnectionOrder ==
  ASSUME Before, NEW r \in Streams, StreamInv(r), Unregister \/ Replace \/ Break
  PROVE  StreamInv(r)'
<1> USE DEF Before
<1>1. UNCHANGED <<cur, pending, closed, chan, call, pump, held, delivered, handler, sent>>
  BY DEF Unregister, Replace, Break, hubVars, callVars, agentVars
<1>2. CASE Unregister
  <2>1. UNCHANGED <<link, toHub>> /\ loop = "exited" /\ loop' = "left"
    BY <1>2 DEF Unregister, wireVars
  <2>2. LoopMovesOn(r)
    BY <1>1, <2>1 DEF LoopMovesOn, Live, Holds
  <2> QED
    BY <1>1, <2>1, <2>2, ShiftSame, LoopMoved
<1>3. CASE Replace \/ Break
  <2>1. loop' = loop /\ Sever
    BY <1>3 DEF Replace, Break, hubVars
  <2> QED
    BY <1>1, <2>1, SeverShift, LoopStays, LoopMoved
<1> QED
  BY <1>2, <1>3

LEMMA AgentOrder ==
  ASSUME Before, NEW r \in Streams, StreamInv(r), AgentReads \/ AgentLoses
  PROVE  StreamInv(r)'
<1> USE DEF Before
<1>1. UNCHANGED <<hubVars, callVars, link, toHub, sent>>
  BY DEF AgentReads, AgentLoses, wireVars
<1>2. handler'[r] = handler[r] \/ (handler[r] = "none" /\ handler'[r] = "start")
  <2>1. CASE AgentReads
    <3>1. Head(toAgent) \in ToAgentMessages
      BY <2>1, TailElements DEF AgentReads, TypeOK
    <3>2. Head(toAgent).kind = "request" => handler[Head(toAgent).id] = "none"
      BY <2>1, SentOnceRead DEF ExecInv
    <3> QED
      BY <2>1, <3>1, <3>2, Numbers DEF AgentReads, TypeOK, ToAgentMessages
  <2>2. CASE AgentLoses
    BY <2>2 DEF AgentLoses
  <2> QED
    BY <2>1, <2>2
<1>3. HandlerMoves(r)
  BY <1>1, <1>2 DEF HandlerMoves, Produced, NotBegun, Over
<1> QED
  BY <1>1, <1>3, HandlerMoved

LEMMA StutterOrder ==
  ASSUME Before, NEW r \in Streams, StreamInv(r), UNCHANGED vars
  PROVE  StreamInv(r)'
<1>1. UNCHANGED <<hubVars, callVars, link, toHub, handler, sent>>
  BY DEF vars, wireVars, agentVars
<1> QED
  BY <1>1, HandlerStays, HandlerMoved DEF Before

LEMMA DeadLinkKept == Before /\ DeadLink /\ [Next]_vars => DeadLink'
<1> SUFFICES ASSUME Before, DeadLink, [Next]_vars PROVE DeadLink'
  OBVIOUS
<1>1. CASE UNCHANGED vars
  BY <1>1 DEF DeadLink, Live, vars, hubVars, wireVars, agentVars
<1>2. ASSUME NEW r \in Requests, Caller(r) \/ Pump(r) \/ Handler(r)
      PROVE  DeadLink'
  <2>1. UNCHANGED <<hubOpen, loop, link, agentOpen>>
    BY <1>2 DEF Caller, Get, Register, SendRequest, SendRequestFails, RoundTripReturns,
       ReturnsClosed, Timeout, StreamFirst, Pump, PumpReceive, PumpEnds, Read, CloseReader,
       PumpWriteFails, SendCancel, Handler, Do, SendReply, SendError, StreamStart, SendHead,
       BodyReads, SendChunk, BodyEnds, SendDone, Cleanup, HubSend, HubSendFails, AgentSend,
       AgentSendFails, AgentOnly, hubVars, wireVars, agentVars
  <2> QED
    BY <2>1 DEF DeadLink, Live
<1>3. CASE ReadLoop \/ Unregister \/ Replace \/ Break
  BY <1>3 DEF ReadLoop, LoopRead, LoopSend, LoopClose, LoopFails, LoopExits, Unregister, Replace,
     Break, Sever, DeadLink, Live, hubVars, wireVars, agentVars
<1>4. CASE AgentReads \/ AgentLoses
  BY <1>4 DEF AgentReads, AgentLoses, DeadLink, Live, hubVars, wireVars
<1> QED
  BY <1>1, <1>2, <1>3, <1>4 DEF Next

LEMMA NextOrder == Before /\ OrderInv /\ [Next]_vars => OrderInv'
<1> SUFFICES ASSUME Before, OrderInv, [Next]_vars PROVE OrderInv'
  OBVIOUS
<1>1. DeadLink'
  BY DeadLinkKept DEF OrderInv
<1>2. ASSUME NEW r \in Streams
      PROVE  StreamInv(r)'
  <2>1. StreamInv(r) /\ DeadLink
    BY DEF OrderInv
  <2> QED
    BY <2>1, CallerOrder, PumpOrder, HandlerOrder, LoopOrder, ConnectionOrder, AgentOrder,
       StutterOrder DEF Next
<1> QED
  BY <1>1, <1>2 DEF OrderInv

LEMMA OrderInvariant == Spec => [](Before /\ OrderInv)
<1>1. Init => Before /\ OrderInv
  BY InitTypes, InitHub, InitExec, InitOrder DEF Before
<1>2. Before /\ OrderInv /\ [Next]_vars => (Before /\ OrderInv)'
  BY NextTypes, NextHub, NextStep, NextOrder DEF Before, Step
<1> QED
  BY <1>1, <1>2, PTL DEF Spec

(* Whatever calls come and go and however the connection ends, the pump of *)
(* a stream is handed the chunks of the body one after the other, and      *)
(* readLoop, which drops what nobody waits for, drops none of them.        *)
THEOREM ChunksInOrder == Spec => []InOrder
<1>1. Before /\ OrderInv => InOrder
  BY DEF OrderInv, StreamInv, Held, InOrder
<1> QED
  BY <1>1, OrderInvariant, PTL

(* While the connection lasts, a pump that ends without an error has given *)
(* its reader every chunk the agent read, and the agent will read no more: *)
(* a channel is closed behind its last message only, unless readLoop has   *)
(* failed.                                                                 *)
THEOREM EofComplete == Spec => []EofMeansComplete
<1>1. Before /\ OrderInv => EofMeansComplete
  BY DEF OrderInv, StreamInv, Whole, Over, EofMeansComplete
<1> QED
  BY <1>1, OrderInvariant, PTL
=============================================================================
