------------------------------ MODULE Sessions ------------------------------
(***************************************************************************)
(* WebSocket sessions and the end of the server: the log viewer and the    *)
(* shell of handlers.go, and main.go from ListenAndServe on.               *)
(*                                                                         *)
(* A log viewer is a handler that copies a stream to its viewer and a      *)
(* watcher that reads from the viewer, to learn that it left.  A shell     *)
(* reads a command, waits for its result and reads the next; it learns     *)
(* that the viewer left when it reads or writes.  A plain request is one   *)
(* of Containers.  On a signal, one goroutine shuts the HTTP server down   *)
(* while main, whose ListenAndServe returns, goes on to exit.              *)
(*                                                                         *)
(* The tunnel under the commands is RemoteCall, as in Containers; a stream *)
(* may be quiet for ever, or break off at any time (Tunnel).               *)
(***************************************************************************)
EXTENDS Naturals

CONSTANTS
  Viewers,      \* one session or plain request each
  MaxCommands   \* bound: the commands typed in a shell

ASSUME MaxCommandsAssumption == MaxCommands \in Nat

Commands == Viewers \X (1..MaxCommands)

VARIABLES
  kind,         \* kind[v]: what v asked for
  at,           \* at[v]: where its handler is
  ws,           \* ws[v]: its WebSocket
  watcher,      \* watcher[v]: the goroutine that reads from a log viewer
  cancelled,    \* cancelled[v]: the log viewer's context
  stream,       \* stream[v]: the log stream from the tunnel
  typed, taken, \* typed[v], taken[v]: commands sent, and read by the shell
  call, executed,   \* the tunnel's view of each command (RemoteCall)
  audit,        \* the shells whose opening was given to the audit log
  main,         \* where main is
  stopper,      \* where the goroutine is that shuts the server down
  signalled,    \* SIGINT or SIGTERM came
  graceOver     \* the 10 seconds of Shutdown are over

logVars == <<watcher, cancelled, stream>>
shellVars == <<typed, taken, call, executed, audit>>
processVars == <<main, stopper, signalled, graceOver>>
vars == <<kind, at, ws, logVars, shellVars, processVars>>

RC == INSTANCE RemoteCall WITH Requests <- Commands

Kinds == {"logs", "shell", "plain"}
InFlight(v) == at[v] \notin {"none", "done", "cut"}
Alive == main # "exited"

TypeOK ==
  /\ kind \in [Viewers -> Kinds]
  /\ at \in [Viewers -> {"none", "started", "opening", "reading", "writing",
                         "idle", "running", "done", "cut"}]
  /\ ws \in [Viewers -> {"none", "open", "left", "closed"}]
  /\ watcher \in [Viewers -> {"none", "watching", "done"}]
  /\ cancelled \in [Viewers -> BOOLEAN]
  /\ stream \in [Viewers -> {"none", "open", "ended", "closed"}]
  /\ typed \in [Viewers -> 0..MaxCommands] /\ taken \in [Viewers -> 0..MaxCommands]
  /\ RC!CallTypeOK
  /\ audit \subseteq Viewers
  /\ main \in {"starting", "serving", "returned", "exited"}
  /\ stopper \in {"waiting", "shutting", "over"}
  /\ signalled \in BOOLEAN /\ graceOver \in BOOLEAN
  /\ \A v \in Viewers : /\ taken[v] <= typed[v]
                        /\ at[v] = "reading" => stream[v] \in {"open", "ended"}

Init ==
  /\ kind \in [Viewers -> Kinds]
  /\ at = [v \in Viewers |-> "none"] /\ ws = [v \in Viewers |-> "none"]
  /\ watcher = [v \in Viewers |-> "none"]
  /\ cancelled = [v \in Viewers |-> FALSE]
  /\ stream = [v \in Viewers |-> "none"]
  /\ typed = [v \in Viewers |-> 0] /\ taken = [v \in Viewers |-> 0]
  /\ RC!CallInit
  /\ audit = {}
  /\ main = "starting" /\ stopper = "waiting"
  /\ signalled = FALSE /\ graceOver = FALSE

-----------------------------------------------------------------------------
(* What handlers share.                                                    *)

Goes(v, from, to) == /\ Alive /\ at[v] = from
                     /\ at' = [at EXCEPT ![v] = to]

(* Faulty: a handler that returns without closing its WebSocket.           *)
ReturnUnclosed(v) ==
  /\ at' = [at EXCEPT ![v] = "done"]
  /\ ws' = ws
  /\ cancelled' = [cancelled EXCEPT ![v] = TRUE]
  /\ stream' = [stream EXCEPT ![v] = IF @ = "none" THEN @ ELSE "closed"]
  /\ UNCHANGED <<kind, watcher, shellVars, processVars>>

(* A handler returns, through its deferred calls.                          *)
Return(v) ==
  /\ at' = [at EXCEPT ![v] = "done"]
  /\ ws' = [ws EXCEPT ![v] = "closed"]
  /\ cancelled' = [cancelled EXCEPT ![v] = TRUE]
  /\ stream' = [stream EXCEPT ![v] = IF @ = "none" THEN @ ELSE "closed"]
  /\ UNCHANGED <<kind, watcher, shellVars, processVars>>

(* A request that passed the checks for its user and environment.  (What   *)
(* still comes on connections accepted before the listener closed is left  *)
(* out: it can only be cut by Exit too.)                                   *)
Arrive(v) ==
  /\ main = "serving" /\ stopper = "waiting"
  /\ Goes(v, "none", "started")
  /\ ws' = [ws EXCEPT ![v] = IF kind[v] = "plain" THEN "none" ELSE "open"]
  /\ watcher' = [watcher EXCEPT ![v] = IF kind[v] = "logs" THEN "watching" ELSE "none"]
  /\ UNCHANGED <<kind, cancelled, stream, shellVars, processVars>>

NoProvider(v) == Alive /\ at[v] = "started" /\ kind[v] # "plain" /\ Return(v)

PlainAnswered(v) ==
  /\ kind[v] = "plain" /\ Goes(v, "started", "done")
  /\ UNCHANGED <<kind, ws, logVars, shellVars, processVars>>

Leave(v) == /\ ws[v] = "open" /\ ws' = [ws EXCEPT ![v] = "left"]
            /\ UNCHANGED <<kind, at, logVars, shellVars, processVars>>

(* Faulty: a write after which nobody asks whether the viewer left.        *)
WroteAnyway(v) ==
  /\ Goes(v, "writing", IF kind[v] = "shell" THEN "idle" ELSE "reading")
  /\ UNCHANGED <<kind, ws, logVars, shellVars, processVars>>

(* WriteMessage succeeds, also for a while after the viewer has left.      *)
Wrote(v) ==
  IF kind[v] = "logs" /\ cancelled[v]
    THEN Alive /\ at[v] = "writing" /\ Return(v)
    ELSE /\ Goes(v, "writing", IF kind[v] = "shell" THEN "idle" ELSE "reading")
         /\ UNCHANGED <<kind, ws, logVars, shellVars, processVars>>

WriteFails(v) == Alive /\ at[v] = "writing" /\ ws[v] = "left" /\ Return(v)

-----------------------------------------------------------------------------
(* wsLogs                                                                  *)

OpenLogs(v) == /\ kind[v] = "logs" /\ Goes(v, "started", "opening")
               /\ UNCHANGED <<kind, ws, logVars, shellVars, processVars>>

Opened(v) == /\ Goes(v, "opening", "reading")
             /\ stream' = [stream EXCEPT ![v] = "open"]
             /\ UNCHANGED <<kind, ws, watcher, cancelled, shellVars, processVars>>

(* Faulty: an error that is reported but does not end the handler.         *)
OpenFailsOn(v) == /\ Goes(v, "opening", "reading")
                  /\ UNCHANGED <<kind, ws, logVars, shellVars, processVars>>

OpenFails(v) == Alive /\ at[v] = "opening" /\ Return(v)

Line(v) == /\ stream[v] = "open" /\ Goes(v, "reading", "writing")
           /\ UNCHANGED <<kind, ws, logVars, shellVars, processVars>>

StreamEnds(v) == /\ Alive /\ stream[v] = "open"
                 /\ stream' = [stream EXCEPT ![v] = "ended"]
                 /\ UNCHANGED <<kind, at, ws, watcher, cancelled, shellVars, processVars>>

ReadEnd(v) == Alive /\ at[v] = "reading" /\ stream[v] = "ended" /\ Return(v)

Watch(v) == /\ Alive /\ watcher[v] = "watching" /\ ws[v] \in {"left", "closed"}
            /\ watcher' = [watcher EXCEPT ![v] = "done"]
            /\ cancelled' = [cancelled EXCEPT ![v] = TRUE]
            /\ UNCHANGED <<kind, at, ws, stream, shellVars, processVars>>

-----------------------------------------------------------------------------
(* wsShell                                                                 *)

(* Faulty: a shell whose entry is missing.                                 *)
OpenShellUnaudited(v) ==
  /\ kind[v] = "shell" /\ Goes(v, "started", "idle")
  /\ UNCHANGED <<kind, ws, logVars, shellVars, processVars>>

OpenShell(v) == /\ kind[v] = "shell" /\ Goes(v, "started", "idle")
                /\ audit' = audit \cup {v}
                /\ UNCHANGED <<kind, ws, logVars, typed, taken, call, executed, processVars>>

Type(v) == /\ kind[v] = "shell" /\ ws[v] = "open" /\ typed[v] < MaxCommands
           /\ typed' = [typed EXCEPT ![v] = @ + 1]
           /\ UNCHANGED <<kind, at, ws, logVars, taken, call, executed, audit, processVars>>

(* Faulty: a shell that reads the next command without a wait.             *)
TakeCommandAtOnce(v) ==
  /\ taken[v] < typed[v] /\ Goes(v, "idle", "idle")
  /\ RC!Open(<<v, taken[v] + 1>>)
  /\ taken' = [taken EXCEPT ![v] = @ + 1]
  /\ UNCHANGED <<kind, ws, logVars, typed, audit, processVars>>

(* What was sent before the viewer left may be read, and run, all the same *)
(* (or be lost: ReadFails).                                                *)
TakeCommand(v) ==
  /\ taken[v] < typed[v] /\ Goes(v, "idle", "running")
  /\ RC!Open(<<v, taken[v] + 1>>)
  /\ taken' = [taken EXCEPT ![v] = @ + 1]
  /\ UNCHANGED <<kind, ws, logVars, typed, audit, processVars>>

CommandReturns(v) ==
  /\ Goes(v, "running", "writing")
  /\ RC!Answer(<<v, taken[v]>>) \/ RC!Fail(<<v, taken[v]>>)
  /\ UNCHANGED <<kind, ws, logVars, typed, taken, audit, processVars>>

ReadFails(v) == Alive /\ at[v] = "idle" /\ ws[v] = "left" /\ Return(v)

Executes(c) == /\ RC!Execute(c)
               /\ UNCHANGED <<kind, at, ws, logVars, typed, taken, audit, processVars>>

-----------------------------------------------------------------------------
(* main and its goroutine.                                                 *)

SessionsUnchanged == UNCHANGED <<kind, at, ws, logVars, shellVars>>

Signal == /\ Alive /\ signalled' = TRUE
          /\ UNCHANGED <<main, stopper, graceOver>> /\ SessionsUnchanged

(* ListenAndServe begins; or it cannot, which is fatal unless Shutdown was *)
(* called before.                                                          *)
Listen == /\ main = "starting" /\ stopper = "waiting" /\ main' = "serving"
          /\ UNCHANGED <<stopper, signalled, graceOver>> /\ SessionsUnchanged
ListenFails == /\ main = "starting" /\ stopper = "waiting" /\ main' = "exited"
               /\ UNCHANGED <<stopper, signalled, graceOver>> /\ SessionsUnchanged

(* It returns ErrServerClosed as soon as Shutdown has begun.               *)
ServeReturns == /\ main \in {"starting", "serving"} /\ stopper # "waiting"
                /\ main' = "returned"
                /\ UNCHANGED <<stopper, signalled, graceOver>> /\ SessionsUnchanged

Shutdown == /\ Alive /\ stopper = "waiting" /\ signalled /\ stopper' = "shutting"
            /\ UNCHANGED <<main, signalled, graceOver>> /\ SessionsUnchanged

GraceEnds == /\ Alive /\ stopper = "shutting" /\ graceOver' = TRUE
             /\ UNCHANGED <<main, stopper, signalled>> /\ SessionsUnchanged

(* Shutdown waits for plain requests; it does not know of WebSockets.      *)
ShutdownReturns ==
  /\ Alive /\ stopper = "shutting"
  /\ graceOver \/ \A v \in Viewers : kind[v] = "plain" => ~InFlight(v)
  /\ stopper' = "over"
  /\ UNCHANGED <<main, signalled, graceOver>> /\ SessionsUnchanged

(* Faulty: a main that waits for all its handlers.                         *)
ExitWhenDone ==
  /\ main = "returned" /\ main' = "exited"
  /\ \A v \in Viewers : ~InFlight(v)
  /\ UNCHANGED <<kind, at, ws, logVars, shellVars, stopper, signalled, graceOver>>

(* main returns, and the process ends with all that is still going on.     *)
Exit ==
  /\ main = "returned" /\ main' = "exited"
  /\ at' = [v \in Viewers |-> IF InFlight(v) THEN "cut" ELSE at[v]]
  /\ ws' = [v \in Viewers |-> IF ws[v] = "none" THEN "none" ELSE "closed"]
  /\ watcher' = [v \in Viewers |-> IF watcher[v] = "none" THEN "none" ELSE "done"]
  /\ stream' = [v \in Viewers |-> IF stream[v] = "none" THEN "none" ELSE "closed"]
  /\ UNCHANGED <<kind, cancelled, shellVars, stopper, signalled, graceOver>>

-----------------------------------------------------------------------------
(* The steps a handler takes when it can; it may wait for ever for a       *)
(* stream to open, for a line and for a command.                           *)
Handler(v) ==
  \/ NoProvider(v) \/ PlainAnswered(v) \/ Wrote(v) \/ WriteFails(v)
  \/ OpenLogs(v) \/ ReadEnd(v)
  \/ OpenShell(v) \/ TakeCommand(v) \/ CommandReturns(v) \/ ReadFails(v)

Process == Listen \/ ListenFails \/ ServeReturns \/ Shutdown \/ ShutdownReturns \/ Exit

Next ==
  \/ \E v \in Viewers : \/ Handler(v) \/ Watch(v)
                        \/ Opened(v) \/ OpenFails(v) \/ Line(v) \/ StreamEnds(v)
                        \/ Arrive(v) \/ Leave(v) \/ Type(v)
  \/ \E c \in Commands : Executes(c)
  \/ Process \/ Signal \/ GraceEnds

Spec == Init /\ [][Next]_vars

(* Goroutines go on; a command's call returns, for it has a timer (Tunnel, *)
(* BufferedCallsReturn); a write returns, for a viewer reads or is gone.   *)
Fairness == /\ \A v \in Viewers : WF_vars(Handler(v)) /\ WF_vars(Watch(v))
            /\ WF_vars(Process)
FairSpec == Spec /\ Fairness

-----------------------------------------------------------------------------
(* A shell has one command under way at most, the last it took, and waits  *)
(* for it: none is left without a reader when it returns, other than by    *)
(* the end of the process (handlers.go:815-842).                           *)
OneAtATime(v) ==
  /\ at[v] = "running" => taken[v] # 0 /\ call[<<v, taken[v]>>] = "open"
  /\ \A i \in 1..MaxCommands : call[<<v, i>>] = "open" =>
       i = taken[v] /\ at[v] \in {"running", "cut"}

(* So a command is run only when all the commands before it were run or    *)
(* have failed (handlers.go:829-831).  One that failed may run later, and  *)
(* so out of order.                                                        *)
ShellInOrder ==
  \A v \in Viewers :
    /\ OneAtATime(v)
    /\ \A i \in 1..MaxCommands, j \in 1..MaxCommands :
         j < i /\ executed[<<v, i>>] = 1 =>
           executed[<<v, j>>] = 1 \/ call[<<v, j>>] = "failed"

(* A command runs only if the opening of its shell was given to the audit  *)
(* log, even if it runs late, when the shell or the process has ended      *)
(* (handlers.go:804-807).  Of the command itself nothing is logged, other  *)
(* than of one of execContainer (handlers.go:567, 829).                    *)
ShellOpenLogged ==
  \A c \in Commands : executed[c] = 1 => c[1] \in audit

Released(v) == /\ at[v] \in {"done", "cut"}
               /\ stream[v] \in {"none", "closed"}
               /\ watcher[v] # "watching"

(* When the viewer of a log or a shell leaves, its handler and its watcher *)
(* end and its stream is closed, unless the handler waits for ever for the *)
(* stream to open or for a line (handlers.go:750-761, 815-818).            *)
LeaveEndsSession ==
  \A v \in Viewers : [](ws[v] = "left" => \/ <>Released(v)
                                          \/ <>[](at[v] \in {"opening", "reading"}))

(* When a log stream ends, as when its agent is lost, its viewer is told:  *)
(* the WebSocket is closed and nothing of the session is left.             *)
EndReachesViewer ==
  \A v \in Viewers : stream[v] = "ended" ~> Released(v) /\ ws[v] = "closed"

(* A signal ends the server, whatever sessions there are (main.go:127-141).*)
StopsOnSignal == signalled ~> main = "exited"

(* "waits up to 10 seconds for in-flight requests (including WebSocket     *)
(* streams) to complete before exiting" (README.md:198).  It does not.     *)
GracefulShutdown ==
  main = "exited" /\ ~graceOver => \A v \in Viewers : at[v] # "cut"
=============================================================================
