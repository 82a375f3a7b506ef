--------------------------- MODULE SessionsProofs ---------------------------
(***************************************************************************)
(* Proofs about Sessions, for any number of viewers and commands: types,   *)
(* that a shell's commands run in order, and in a shell that was logged.   *)
(*                                                                         *)
(* A call says nothing of the commands before it, and a command may run    *)
(* long after its shell is gone.  The invariant ties what the tunnel knows *)
(* of a command to the shell's count: a command that was ever sent is      *)
(* among those taken, all taken before the last have returned, and so has  *)
(* the last one unless the shell is waiting for it, or was cut there.      *)
(***************************************************************************)
EXTENDS Sessions, TLAPS

Returned(v, i) == call[<<v, i>>] \in {"ok", "failed"}

(* Which handlers reach which places.                                      *)
Places(v) ==
  /\ at[v] \in {"opening", "reading"} => kind[v] = "logs"
  /\ at[v] \in {"idle", "running"} => kind[v] = "shell" /\ v \in audit
  /\ at[v] = "running" => taken[v] # 0
  /\ at[v] = "writing" =>
       \/ kind[v] = "logs" /\ stream[v] \in {"open", "ended"}
       \/ kind[v] = "shell" /\ v \in audit
  /\ kind[v] # "shell" \/ at[v] \in {"none", "started"} => taken[v] = 0

(* What has become of the commands.                                        *)
Progress(v) == \A i \in 1..MaxCommands :
  /\ i <= taken[v] /\ at[v] \notin {"running", "cut"} => Returned(v, i)
  /\ i = taken[v] /\ at[v] = "running" => call[<<v, i>>] = "open"
  /\ i < taken[v] => Returned(v, i)
  /\ call[<<v, i>>] # "idle" => i <= taken[v] /\ v \in audit
  /\ executed[<<v, i>>] = 1 => call[<<v, i>>] # "idle"
  /\ call[<<v, i>>] = "ok" => executed[<<v, i>>] = 1

IInv == TypeOK /\ \A v \in Viewers : Places(v) /\ Progress(v)

LEMMA InitInv == Init => IInv
<1> SUFFICES ASSUME Init PROVE IInv OBVIOUS
<1>1. TypeOK
  <2>1. RC!CallTypeOK BY DEF Init, RC!CallInit, RC!CallTypeOK
  <2>2. 0 \in 0..MaxCommands BY MaxCommandsAssumption
  <2>3. /\ kind \in [Viewers -> Kinds] /\ audit \subseteq Viewers
        /\ main = "starting" /\ stopper = "waiting"
        /\ signalled \in BOOLEAN /\ graceOver \in BOOLEAN
        BY DEF Init
  <2>4. /\ at = [v \in Viewers |-> "none"] /\ ws = [v \in Viewers |-> "none"]
        /\ watcher = [v \in Viewers |-> "none"] /\ cancelled = [v \in Viewers |-> FALSE]
        /\ stream = [v \in Viewers |-> "none"]
        BY DEF Init
  <2>5. typed = [v \in Viewers |-> 0] /\ taken = [v \in Viewers |-> 0] BY DEF Init
  <2> QED BY <2>1, <2>2, <2>3, <2>4, <2>5 DEF TypeOK
<1>2. ASSUME NEW v \in Viewers PROVE Places(v)
      BY <1>2 DEF Init, Places
<1>3. ASSUME NEW v \in Viewers, NEW i \in 1..MaxCommands
      PROVE  /\ call[<<v, i>>] = "idle" /\ executed[<<v, i>>] = 0
             /\ ~(i <= taken[v])
  <2>1. <<v, i>> \in Commands BY <1>3 DEF Commands
  <2> QED BY <2>1, <1>3, MaxCommandsAssumption DEF Init, RC!CallInit
<1>4. ASSUME NEW v \in Viewers PROVE Progress(v)
      BY <1>1, <1>3, <1>4, MaxCommandsAssumption DEF Progress, TypeOK
<1> QED BY <1>1, <1>2, <1>4 DEF IInv

(* Steps that touch neither the shells' commands nor, but for one viewer,  *)
(* anything else.                                                          *)
LEMMA ReturnInv ==
  ASSUME NEW v \in Viewers, IInv, Return(v), at[v] \notin {"running", "cut"} PROVE IInv'
BY MaxCommandsAssumption
DEF Return, IInv, TypeOK, Places, Progress, Returned, Commands, Kinds, RC!CallTypeOK,
    shellVars, processVars

LEMMA HandlerInv == ASSUME NEW v \in Viewers, IInv, Handler(v) PROVE IInv'
<1> USE MaxCommandsAssumption
        DEF IInv, TypeOK, Places, Progress, Returned, Commands, Kinds, RC!CallTypeOK,
            Goes, logVars, shellVars, processVars
<1>1. CASE NoProvider(v) BY <1>1, ReturnInv DEF NoProvider
<1>2. CASE PlainAnswered(v) BY <1>2 DEF PlainAnswered
<1>3. CASE Wrote(v)
  <2>1. CASE kind[v] = "logs" /\ cancelled[v] BY <1>3, <2>1, ReturnInv DEF Wrote
  <2>2. CASE kind[v] = "logs" /\ ~cancelled[v]
    <3>1. at[v] = "writing" /\ at' = [at EXCEPT ![v] = "reading"] BY <1>3, <2>2 DEF Wrote
    <3>2. UNCHANGED <<kind, ws, logVars, shellVars, processVars>> BY <1>3, <2>2 DEF Wrote
    <3> QED BY <2>2, <3>1, <3>2
  <2>3. CASE kind[v] = "shell"
    <3>1. at[v] = "writing" /\ at' = [at EXCEPT ![v] = "idle"] BY <1>3, <2>3 DEF Wrote
    <3>2. UNCHANGED <<kind, ws, logVars, shellVars, processVars>> BY <1>3, <2>3 DEF Wrote
    <3> QED BY <2>3, <3>1, <3>2
  <2>4. kind[v] \in {"logs", "shell"} BY <1>3 DEF Wrote
  <2> QED BY <2>1, <2>2, <2>3, <2>4
<1>4. CASE WriteFails(v) BY <1>4, ReturnInv DEF WriteFails
<1>5. CASE OpenLogs(v) BY <1>5 DEF OpenLogs
<1>6. CASE ReadEnd(v) BY <1>6, ReturnInv DEF ReadEnd
<1>7. CASE OpenShell(v)
  <2>1. TypeOK' BY <1>7 DEF OpenShell
  <2>2. ASSUME NEW w \in Viewers PROVE Places(w)' BY <1>7, <2>2 DEF OpenShell
  <2>3. ASSUME NEW w \in Viewers PROVE Progress(w)' BY <1>7, <2>3 DEF OpenShell
  <2> QED BY <2>1, <2>2, <2>3
<1>8. CASE TakeCommand(v) BY <1>8 DEF TakeCommand, RC!Open
<1>9. CASE CommandReturns(v)
  <2>1. TypeOK'
    <3>1. RC!CallTypeOK'
      <4>1. /\ executed' = executed
            /\ \E x \in {"ok", "failed"} : call' = [call EXCEPT ![<<v, taken[v]>>] = x]
            BY <1>9 DEF CommandReturns, RC!Answer, RC!Fail
      <4>2. RC!CallTypeOK BY DEF TypeOK
      <4> QED BY ONLY <4>1, <4>2 DEF RC!CallTypeOK
    <3>2. at' = [at EXCEPT ![v] = "writing"] BY <1>9 DEF CommandReturns
    <3>3. UNCHANGED <<kind, ws, logVars, typed, taken, audit, processVars>>
          BY <1>9 DEF CommandReturns
    <3> HIDE DEF RC!CallTypeOK
    <3> QED BY <3>1, <3>2, <3>3
  <2>2. ASSUME NEW w \in Viewers PROVE Places(w)'
        BY <1>9, <2>2 DEF CommandReturns, RC!Answer, RC!Fail
  <2>3. CASE RC!Answer(<<v, taken[v]>>)
    <3>1. ASSUME NEW w \in Viewers PROVE Progress(w)'
      <4>1. /\ at[v] = "running" /\ at' = [at EXCEPT ![v] = "writing"]
            /\ UNCHANGED <<taken, audit, executed>>
            /\ executed[<<v, taken[v]>>] = 1
            /\ call' = [call EXCEPT ![<<v, taken[v]>>] = "ok"]
            BY <1>9, <2>3 DEF CommandReturns, RC!Answer
      <4> SUFFICES ASSUME NEW i \in 1..MaxCommands
                   PROVE  /\ i <= taken'[w] /\ at'[w] \notin {"running", "cut"}
                               => Returned(w, i)'
                          /\ i = taken'[w] /\ at'[w] = "running" => call'[<<w, i>>] = "open"
                          /\ i < taken'[w] => Returned(w, i)'
                          /\ call'[<<w, i>>] # "idle" => i <= taken'[w] /\ w \in audit'
                          /\ executed'[<<w, i>>] = 1 => call'[<<w, i>>] # "idle"
                          /\ call'[<<w, i>>] = "ok" => executed'[<<w, i>>] = 1
          BY DEF Progress
      <4>2. <<w, i>> \in Commands /\ Progress(w) /\ Places(w) BY <3>1
      <4>3. CASE w = v
        <5>1. CASE i = taken[v] BY <3>1, <4>1, <4>2, <4>3, <5>1
        <5>2. CASE i # taken[v]
          <6>1. call'[<<w, i>>] = call[<<w, i>>] BY <4>1, <4>2, <5>2
          <6>2. taken[v] \in Nat /\ i \in Nat BY DEF TypeOK
          <6>3. i <= taken[v] => i < taken[v] BY ONLY <5>2, <6>2
          <6>4. /\ i < taken[v] => Returned(v, i)
                /\ call[<<v, i>>] # "idle" => i <= taken[v] /\ v \in audit
                /\ executed[<<v, i>>] = 1 => call[<<v, i>>] # "idle"
                /\ call[<<v, i>>] = "ok" => executed[<<v, i>>] = 1
                BY <4>2, <4>3
          <6> QED BY ONLY <4>1, <4>3, <6>1, <6>3, <6>4 DEF Returned
        <5> QED BY <5>1, <5>2
      <4>4. CASE w # v BY <3>1, <4>1, <4>2, <4>4
      <4> QED BY <4>3, <4>4
    <3> QED BY <2>1, <2>2, <3>1
  <2>4. CASE RC!Fail(<<v, taken[v]>>)
    <3>1. ASSUME NEW w \in Viewers PROVE Progress(w)'
          BY <1>9, <2>4, <3>1 DEF CommandReturns, RC!Fail
    <3> QED BY <2>1, <2>2, <3>1
  <2> QED BY <1>9, <2>3, <2>4 DEF CommandReturns
<1>10. CASE ReadFails(v) BY <1>10, ReturnInv DEF ReadFails
<1> QED BY <1>1, <1>2, <1>3, <1>4, <1>5, <1>6, <1>7, <1>8, <1>9, <1>10 DEF Handler

LEMMA SessionInv ==
  ASSUME NEW v \in Viewers, IInv,
         Watch(v) \/ Opened(v) \/ OpenFails(v) \/ Line(v) \/ StreamEnds(v)
           \/ Arrive(v) \/ Leave(v) \/ Type(v)
  PROVE  IInv'
<1> USE MaxCommandsAssumption
        DEF IInv, TypeOK, Places, Progress, Returned, Commands, Kinds, RC!CallTypeOK,
            Goes, logVars, shellVars, processVars
<1>1. CASE Watch(v) BY <1>1 DEF Watch
<1>2. CASE Opened(v) BY <1>2 DEF Opened
<1>3. CASE OpenFails(v) BY <1>3, ReturnInv DEF OpenFails
<1>4. CASE Line(v) BY <1>4 DEF Line
<1>5. CASE StreamEnds(v) BY <1>5 DEF StreamEnds
<1>6. CASE Arrive(v) BY <1>6 DEF Arrive
<1>7. CASE Leave(v) BY <1>7 DEF Leave
<1>8. CASE Type(v) BY <1>8 DEF Type
<1> QED BY <1>1, <1>2, <1>3, <1>4, <1>5, <1>6, <1>7, <1>8

LEMMA OutsideInv ==
  ASSUME IInv, (\E c \in Commands : Executes(c)) \/ Process \/ Signal \/ GraceEnds
  PROVE  IInv'
<1> USE MaxCommandsAssumption
        DEF IInv, TypeOK, Places, Progress, Returned, Commands, Kinds, RC!CallTypeOK,
            logVars, shellVars, processVars, SessionsUnchanged
<1>1. ASSUME NEW c \in Commands, Executes(c) PROVE IInv'
  <2>1. TypeOK' BY <1>1 DEF Executes, RC!Execute
  <2>2. ASSUME NEW v \in Viewers PROVE Places(v)'
        BY <1>1, <2>2 DEF Executes, RC!Execute
  <2>3. ASSUME NEW v \in Viewers PROVE Progress(v)'
    <3> SUFFICES ASSUME NEW i \in 1..MaxCommands
                 PROVE  /\ executed'[<<v, i>>] = 1 => call[<<v, i>>] # "idle"
                        /\ call[<<v, i>>] = "ok" => executed'[<<v, i>>] = 1
        BY <1>1, <2>3 DEF Executes, RC!Execute
    <3>1. <<v, i>> \in Commands BY <2>3
    <3>2. CASE c = <<v, i>> BY <1>1, <2>3, <3>1, <3>2 DEF Executes, RC!Execute
    <3>3. CASE c # <<v, i>> BY <1>1, <2>3, <3>1, <3>3 DEF Executes, RC!Execute
    <3> QED BY <3>2, <3>3
  <2> QED BY <2>1, <2>2, <2>3
<1>2. CASE Listen \/ ListenFails \/ ServeReturns
      BY <1>2 DEF Listen, ListenFails, ServeReturns
<1>3. CASE Shutdown \/ ShutdownReturns BY <1>3 DEF Shutdown, ShutdownReturns
<1>4. CASE Exit BY <1>4 DEF Exit, InFlight
<1>5. CASE Signal BY <1>5 DEF Signal
<1>6. CASE GraceEnds BY <1>6 DEF GraceEnds
<1> QED BY <1>1, <1>2, <1>3, <1>4, <1>5, <1>6 DEF Process

LEMMA StepInv == IInv /\ [Next]_vars => IInv'
<1> SUFFICES ASSUME IInv, [Next]_vars PROVE IInv' OBVIOUS
<1>1. CASE UNCHANGED vars
      BY <1>1 DEF vars, IInv, TypeOK, Places, Progress, Returned, RC!CallTypeOK,
                  logVars, shellVars, processVars
<1>2. CASE Next BY <1>2, HandlerInv, SessionInv, OutsideInv DEF Next
<1> QED BY <1>1, <1>2

THEOREM Inductive == Spec => []IInv
BY InitInv, StepInv, PTL DEF Spec

(* Every variable keeps its type; a shell takes no command that was not    *)
(* typed, and a log viewer reads only from a stream that it has opened and *)
(* not closed.                                                             *)
THEOREM TypeCorrect == Spec => []TypeOK
<1>1. IInv => TypeOK BY DEF IInv
<1> QED BY <1>1, Inductive, PTL

(* A shell waits for the one command it has under way, and leaves none     *)
(* behind when it returns (handlers.go:815-842).                           *)
LEMMA OneByOne ==
  ASSUME IInv, NEW v \in Viewers
  PROVE  OneAtATime(v)
<1>1. taken[v] \in 0..MaxCommands /\ Places(v) /\ Progress(v) BY DEF IInv, TypeOK
<1>2. at[v] = "running" => taken[v] # 0 /\ call[<<v, taken[v]>>] = "open"
      BY <1>1, MaxCommandsAssumption DEF Places, Progress
<1>3. ASSUME NEW i \in 1..MaxCommands, call[<<v, i>>] = "open"
      PROVE  i = taken[v] /\ at[v] \in {"running", "cut"}
  <2>1. i <= taken[v] /\ ~Returned(v, i) BY <1>1, <1>3 DEF Progress, Returned
  <2>2. ~(i < taken[v]) /\ at[v] \in {"running", "cut"} BY <1>1, <2>1 DEF Progress
  <2> QED BY <1>1, <2>1, <2>2, MaxCommandsAssumption
<1> QED BY <1>2, <1>3 DEF OneAtATime

(* A shell has one command under way, and a command runs only when those   *)
(* before it have run or failed (handlers.go:815-842).                     *)
THEOREM InOrder == Spec => []ShellInOrder
<1>1. ASSUME IInv, NEW v \in Viewers, NEW i \in 1..MaxCommands, NEW j \in 1..MaxCommands,
             j < i, executed[<<v, i>>] = 1
      PROVE  executed[<<v, j>>] = 1 \/ call[<<v, j>>] = "failed"
  BY <1>1, MaxCommandsAssumption
     DEF IInv, TypeOK, Progress, Returned, Commands, RC!CallTypeOK
<1>2. IInv => ShellInOrder BY <1>1, OneByOne DEF ShellInOrder
<1> QED BY <1>2, Inductive, PTL

(* No command runs, however late, in a shell whose opening was not given   *)
(* to the audit log.  It says nothing of an entry for the command, for     *)
(* there is none (handlers.go:804-830).                                    *)
THEOREM OpenLogged == Spec => []ShellOpenLogged
<1>1. IInv => ShellOpenLogged
      BY MaxCommandsAssumption
      DEF IInv, TypeOK, Progress, ShellOpenLogged, Commands, RC!CallTypeOK
<1> QED BY <1>1, Inductive, PTL
=============================================================================
