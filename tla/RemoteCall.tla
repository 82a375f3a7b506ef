----------------------------- MODULE RemoteCall -----------------------------
(***************************************************************************)
(* What the reverse tunnel promises the code above it.  A provider hands   *)
(* the tunnel an HTTP request for a cluster's orchestrator and waits for   *)
(* an answer or an error:                                                  *)
(*                                                                         *)
(*   - the orchestrator executes a request at most once, and only after    *)
(*     the call was made;                                                  *)
(*   - an answer is given only when the orchestrator executed the request; *)
(*   - a call that failed says nothing: the request may have been          *)
(*     executed, and may even be executed later.                           *)
(***************************************************************************)
EXTENDS Naturals

CONSTANT Requests       \* the requests, one call of RoundTrip each

VARIABLES call,         \* call[r]: what the caller of r has seen
          executed      \* executed[r]: how often the orchestrator executed r

callVars == <<call, executed>>

CallTypeOK == /\ call \in [Requests -> {"idle", "open", "ok", "failed"}]
              /\ executed \in [Requests -> 0..1]

CallInit == /\ call = [r \in Requests |-> "idle"]
            /\ executed = [r \in Requests |-> 0]

Open(r) == /\ call[r] = "idle"
           /\ call' = [call EXCEPT ![r] = "open"]
           /\ UNCHANGED executed

Execute(r) == /\ call[r] # "idle"
              /\ executed[r] = 0
              /\ executed' = [executed EXCEPT ![r] = 1]
              /\ UNCHANGED call

Answer(r) == /\ call[r] = "open"
             /\ executed[r] = 1
             /\ call' = [call EXCEPT ![r] = "ok"]
             /\ UNCHANGED executed

Fail(r) == /\ call[r] \in {"idle", "open"}
           /\ call' = [call EXCEPT ![r] = "failed"]
           /\ UNCHANGED executed

CallNext == \E r \in Requests : Open(r) \/ Execute(r) \/ Answer(r) \/ Fail(r)

CallSpec == CallInit /\ [][CallNext]_callVars
=============================================================================
