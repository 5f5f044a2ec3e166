---------------------------- MODULE ProofService ----------------------------
(***************************************************************************)
(* What the worker supervisor promises the callers of `evaluate`: requests *)
(* are served one at a time in the order they were queued, each accepted   *)
(* call completes at most once, and a verdict handed to a caller is the    *)
(* verdict computed from that caller's own request.  Every operational     *)
(* trouble is an error and never a verdict (worker.rs, doc of `evaluate`). *)
(***************************************************************************)
EXTENDS Naturals, Sequences

CONSTANT Requests       \* the evaluate calls; each is made at most once

VARIABLES
    line,               \* accepted calls, oldest first; the head is served
    call,               \* where each call stands
    outcome,            \* what each completed call was told
    stopped             \* the service is gone for good

serviceVars == <<line, call, outcome, stopped>>

(***************************************************************************)
(* Outcomes.  A verdict names the request it was computed from.            *)
(***************************************************************************)
NoOutcome == [kind |-> "none"]
Verdict(r) == [kind |-> "verdict", of |-> r]
Unavailable(reason) == [kind |-> "unavailable", reason |-> reason]

Reasons == {"StartFailed", "HandshakeFailed", "TimedOut", "Crashed",
            "ProtocolViolation", "FrameTooLarge", "SupervisorStopped"}

Errors == {Unavailable(reason) : reason \in Reasons}

-----------------------------------------------------------------------------

Init ==
    /\ line = <<>>
    /\ call = [r \in Requests |-> "idle"]
    /\ outcome = [r \in Requests |-> NoOutcome]
    /\ stopped = FALSE

\* A caller calls `evaluate`; it may have to wait for room in the line.
Call(r) ==
    /\ call[r] = "idle"
    /\ call' = [call EXCEPT ![r] = "sending"]
    /\ UNCHANGED <<line, outcome, stopped>>

Accept(r) ==
    /\ call[r] = "sending"
    /\ ~stopped
    /\ call' = [call EXCEPT ![r] = "waiting"]
    /\ line' = Append(line, r)
    /\ UNCHANGED <<outcome, stopped>>

\* A call made after the service stopped is refused.
Refuse(r) ==
    /\ call[r] = "sending"
    /\ stopped
    /\ call' = [call EXCEPT ![r] = "done"]
    /\ outcome' = [outcome EXCEPT ![r] = Unavailable("SupervisorStopped")]
    /\ UNCHANGED <<line, stopped>>

\* The caller goes away; its place in the line is kept.
Cancel(r) ==
    /\ call[r] \in {"sending", "waiting"}
    /\ call' = [call EXCEPT ![r] = "dropped"]
    /\ UNCHANGED <<line, outcome, stopped>>

\* The head of the line is finished: a caller still waiting is told its own
\* verdict or an error, a caller that went away is told nothing.
Finish ==
    /\ line # <<>>
    /\ UNCHANGED stopped
    /\ line' = Tail(line)
    /\ LET r == Head(line) IN
       \/ /\ call[r] = "waiting"
          /\ call' = [call EXCEPT ![r] = "done"]
          /\ \E o \in {Verdict(r)} \union Errors :
                outcome' = [outcome EXCEPT ![r] = o]
       \/ /\ call[r] = "dropped"
          /\ UNCHANGED <<call, outcome>>

\* The service is torn down with calls in the line: each is told so.
Stop ==
    /\ ~stopped
    /\ stopped' = TRUE
    /\ line' = <<>>
    /\ call' = [r \in Requests |->
                  IF call[r] = "waiting" THEN "done" ELSE call[r]]
    /\ outcome' = [r \in Requests |->
                  IF call[r] = "waiting" THEN Unavailable("SupervisorStopped")
                                         ELSE outcome[r]]

Next ==
    \/ \E r \in Requests : Call(r) \/ Accept(r) \/ Refuse(r) \/ Cancel(r)
    \/ Finish
    \/ Stop

Spec == Init /\ [][Next]_serviceVars
=============================================================================
