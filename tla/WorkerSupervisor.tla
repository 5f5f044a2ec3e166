-------------------------- MODULE WorkerSupervisor --------------------------
(***************************************************************************)
(* The supervisor of the OCaml kernel worker                               *)
(* (crates/rationale-protocol/src/worker.rs) and the worker process it     *)
(* talks to (ocaml/worker/main.ml).                                        *)
(*                                                                         *)
(* Callers put requests in a bounded channel.  One task takes them out one *)
(* by one, writes a frame to the worker's stdin and reads one frame from   *)
(* its stdout under a deadline.  The frames carry no correlation the host  *)
(* checks: that a reply belongs to the request being served rests on the   *)
(* pipes being empty whenever the next request is written.                 *)
(*                                                                         *)
(* A frame is one element of a pipe.  A frame cut short by a crash is an   *)
(* end of file for its reader, and a frame never finished is a hang; both  *)
(* are outcomes of the read steps below.                                   *)
(***************************************************************************)
EXTENDS Naturals, Sequences

CONSTANTS
    Requests,           \* the evaluate calls; each is made at most once
    Oversized,          \* those whose encoding exceeds max_payload
    QueueCapacity,      \* WorkerConfig.queue_capacity
    RestartLimit,       \* WorkerConfig.restart_limit, a u8
    Hello,              \* the handshake frame
    Nobody              \* no request is being served

ASSUME SupervisorAssumption ==
    /\ Oversized \subseteq Requests
    /\ QueueCapacity \in Nat \ {0}
    /\ RestartLimit \in 0..255
    /\ Hello \notin Requests
    /\ Nobody \notin Requests

VARIABLES
    call,               \* where each evaluate call stands
    outcome,            \* what its oneshot channel delivered
    open,               \* some WorkerSupervisor handle (a Sender) is held
    queue,              \* the mpsc channel of EvaluateCommands
    pc,                 \* where the supervisor task stands
    current,            \* the request being served; Nobody while start() runs
    attempt,            \* evaluate_with_restart's counter
    worker,             \* incarnation of the worker held, 0 is None
    pid,                \* the published process_id, 0 is None
    alive,              \* that process is running
    toWorker,           \* frames in its stdin
    fromWorker,         \* frames in its stdout
    spawned,            \* processes spawned so far (history)
    starts,             \* Worker::start calls for the current request (history)
    sends               \* evaluate frames written for it (history)

callerVars == <<call, outcome>>
workerVars == <<worker, pid, alive, toWorker, fromWorker>>
historyVars == <<spawned, starts, sends>>
vars == <<callerVars, open, queue, pc, current, attempt, workerVars, historyVars>>

Service == INSTANCE ProofService
              WITH line <- IF current = Nobody THEN queue
                                               ELSE <<current>> \o queue,
                   stopped <- pc = "stopped"

NoOutcome == Service!NoOutcome
Verdict(r) == Service!Verdict(r)
Unavailable(reason) == Service!Unavailable(reason)

\* What a worker can put in its stdout; "ready" carries the right version.
ReplyKinds == {"ready", "wrong_version", "result", "failure", "garbage", "oversize"}
Reply(kind, r) == [kind |-> kind, of |-> r]
Replies == {Reply(kind, r) : kind \in ReplyKinds, r \in Requests \union {Hello}}

Stages == {"spawn", "handshake", "idle", "exchange", "reading", "backoff", "stopped"}

-----------------------------------------------------------------------------
(***************************************************************************)
(* WorkerSupervisor::start runs Worker::start once, before any handle      *)
(* exists: current = Nobody in stages "spawn" and "handshake".             *)
(***************************************************************************)
Init ==
    /\ call = [r \in Requests |-> "idle"]
    /\ outcome = [r \in Requests |-> NoOutcome]
    /\ open = FALSE
    /\ queue = <<>>
    /\ pc = "spawn"
    /\ current = Nobody
    /\ attempt = 0
    /\ worker = 0 /\ pid = 0 /\ alive = FALSE
    /\ toWorker = <<>> /\ fromWorker = <<>>
    /\ spawned = 0 /\ starts = 1 /\ sends = 0

-----------------------------------------------------------------------------
(* Callers. *)

Call(r) ==
    /\ open
    /\ call[r] = "idle"
    /\ call' = [call EXCEPT ![r] = "sending"]
    /\ UNCHANGED <<outcome, open, queue, pc, current, attempt, workerVars, historyVars>>

\* Mutant of Send: an unbounded channel.
SendWithoutPermit(r) ==
    /\ call[r] = "sending"
    /\ pc # "stopped"
    /\ queue' = Append(queue, r)
    /\ call' = [call EXCEPT ![r] = "waiting"]
    /\ UNCHANGED <<outcome, open, pc, current, attempt, workerVars, historyVars>>

\* sender.send waits for a permit of the bounded channel.
Send(r) ==
    /\ call[r] = "sending"
    /\ pc # "stopped"
    /\ Len(queue) < QueueCapacity
    /\ queue' = Append(queue, r)
    /\ call' = [call EXCEPT ![r] = "waiting"]
    /\ UNCHANGED <<outcome, open, pc, current, attempt, workerVars, historyVars>>

\* The receiver is gone: send fails.
SendRefused(r) ==
    /\ call[r] = "sending"
    /\ pc = "stopped"
    /\ call' = [call EXCEPT ![r] = "done"]
    /\ outcome' = [outcome EXCEPT ![r] = Unavailable("SupervisorStopped")]
    /\ UNCHANGED <<open, queue, pc, current, attempt, workerVars, historyVars>>

\* The future of `evaluate` is dropped.  A command already queued stays
\* queued and an exchange already begun goes on.
Cancel(r) ==
    /\ call[r] \in {"sending", "waiting"}
    /\ call' = [call EXCEPT ![r] = "dropped"]
    /\ UNCHANGED <<outcome, open, queue, pc, current, attempt, workerVars, historyVars>>

\* The last handle is dropped; a pending `evaluate` still borrows one.
DropHandles ==
    /\ open
    /\ \A r \in Requests : call[r] \notin {"sending", "waiting"}
    /\ open' = FALSE
    /\ UNCHANGED <<callerVars, queue, pc, current, attempt, workerVars, historyVars>>

-----------------------------------------------------------------------------
(* The worker process: main.ml answers each frame with exactly one frame.  *)

WorkerReply ==
    /\ alive
    /\ toWorker # <<>>
    /\ toWorker' = Tail(toWorker)
    /\ \E kind \in ReplyKinds :
          /\ kind \in {"ready", "wrong_version"} => Head(toWorker) = Hello
          /\ kind = "result" => Head(toWorker) \in Requests
          /\ fromWorker' = Append(fromWorker, Reply(kind, Head(toWorker)))
    /\ UNCHANGED <<callerVars, open, queue, pc, current, attempt, worker, pid, alive,
                   historyVars>>

\* The process dies, idle or in the middle of a request; a reply already in
\* its stdout can still be read.
WorkerCrash ==
    /\ alive
    /\ alive' = FALSE
    /\ toWorker' = <<>>
    /\ UNCHANGED <<callerVars, open, queue, pc, current, attempt, worker, pid, fromWorker,
                   historyVars>>

-----------------------------------------------------------------------------
(* Steps of the supervisor's task. *)

\* Worker::terminate, then the Worker value and its pipes are dropped.
Terminate ==
    /\ worker' = 0 /\ pid' = 0 /\ alive' = FALSE
    /\ toWorker' = <<>> /\ fromWorker' = <<>>

\* run_supervisor hands the result to the oneshot and takes the next command;
\* nobody hears it when the caller went away.
Deliver(o) ==
    /\ IF call[current] = "waiting"
       THEN /\ call' = [call EXCEPT ![current] = "done"]
            /\ outcome' = [outcome EXCEPT ![current] = o]
       ELSE UNCHANGED callerVars
    /\ current' = Nobody
    /\ pc' = "idle"
    /\ UNCHANGED <<attempt, starts>>

\* Mutant of RetryOrGiveUp: the retry is not counted.
RetryUncounted(reason) ==
    \/ /\ attempt >= RestartLimit
       /\ Deliver(Unavailable(reason))
    \/ /\ attempt < RestartLimit
       /\ pc' = "backoff"
       /\ UNCHANGED <<callerVars, current, attempt, starts>>

\* A failure evaluate_with_restart may retry.
RetryOrGiveUp(reason) ==
    \/ /\ attempt >= RestartLimit
       /\ Deliver(Unavailable(reason))
    \/ /\ attempt < RestartLimit
       /\ attempt' = attempt + 1
       /\ pc' = "backoff"
       /\ UNCHANGED <<callerVars, current, starts>>

\* Worker::start failed: for start() that is its result, no handle is made;
\* while a request is served it counts as an attempt.
StartError(reason) ==
    \/ /\ current = Nobody
       /\ pc' = "stopped"
       /\ UNCHANGED <<callerVars, current, attempt, starts>>
    \/ /\ current # Nobody
       /\ RetryOrGiveUp(reason)

\* Command::spawn, the pid is published, hello is written.
Spawn ==
    /\ pc = "spawn"
    /\ spawned' = spawned + 1
    /\ worker' = spawned' /\ pid' = spawned' /\ alive' = TRUE
    /\ toWorker' = <<Hello>> /\ fromWorker' = <<>>
    /\ pc' = "handshake"
    /\ UNCHANGED <<callerVars, open, queue, current, attempt, starts, sends>>

SpawnFails ==
    /\ pc = "spawn"
    /\ StartError("StartFailed")
    /\ UNCHANGED <<open, queue, workerVars, spawned, sends>>

HandshakeReady ==
    /\ pc = "handshake"
    /\ fromWorker # <<>>
    /\ Head(fromWorker).kind = "ready"
    /\ fromWorker' = Tail(fromWorker)
    /\ pc' = IF current = Nobody THEN "idle" ELSE "exchange"
    /\ open' = (current = Nobody \/ open)
    /\ UNCHANGED <<callerVars, queue, current, attempt, worker, pid, alive, toWorker,
                   historyVars>>

\* Any other reply, end of file, or the deadline (which may pass even with a
\* good reply in the pipe): the worker is terminated.
HandshakeFails ==
    /\ pc = "handshake"
    /\ Terminate
    /\ StartError("HandshakeFailed")
    /\ UNCHANGED <<open, queue, spawned, sends>>

\* Mutant of Receive: the newest command first.
ReceiveNewest ==
    /\ pc = "idle"
    /\ queue # <<>>
    /\ current' = queue[Len(queue)]
    /\ queue' = SubSeq(queue, 1, Len(queue) - 1)
    /\ attempt' = 0
    /\ sends' = 0
    /\ starts' = IF worker = 0 THEN 1 ELSE 0
    /\ pc' = IF worker = 0 THEN "spawn" ELSE "exchange"
    /\ UNCHANGED <<callerVars, open, workerVars, spawned>>

Receive ==
    /\ pc = "idle"
    /\ queue # <<>>
    /\ current' = Head(queue)
    /\ queue' = Tail(queue)
    /\ attempt' = 0
    /\ sends' = 0
    /\ starts' = IF worker = 0 THEN 1 ELSE 0
    /\ pc' = IF worker = 0 THEN "spawn" ELSE "exchange"
    /\ UNCHANGED <<callerVars, open, workerVars, spawned>>

\* exchange refuses the payload before writing; the worker is terminated all
\* the same and the request is not retried.
RequestTooLarge ==
    /\ pc = "exchange"
    /\ current \in Oversized
    /\ Terminate
    /\ Deliver(Unavailable("FrameTooLarge"))
    /\ UNCHANGED <<open, queue, spawned, sends>>

\* Mutant of WriteRequest: the exchange is abandoned when its caller is gone.
WriteAndForgetDropped ==
    /\ pc = "exchange"
    /\ current \notin Oversized
    /\ alive
    /\ toWorker' = Append(toWorker, current)
    /\ sends' = sends + 1
    /\ IF call[current] = "dropped"
       THEN pc' = "idle" /\ current' = Nobody
       ELSE pc' = "reading" /\ UNCHANGED current
    /\ UNCHANGED <<callerVars, open, queue, attempt, worker, pid, alive,
                   fromWorker, spawned, starts>>

WriteRequest ==
    /\ pc = "exchange"
    /\ current \notin Oversized
    /\ alive
    /\ toWorker' = Append(toWorker, current)
    /\ sends' = sends + 1
    /\ pc' = "reading"
    /\ UNCHANGED <<callerVars, open, queue, current, attempt, worker, pid, alive,
                   fromWorker, spawned, starts>>

ReadResult ==
    /\ pc = "reading"
    /\ fromWorker # <<>>
    /\ Head(fromWorker).kind = "result"
    /\ fromWorker' = Tail(fromWorker)
    /\ Deliver(Verdict(Head(fromWorker).of))
    /\ UNCHANGED <<open, queue, worker, pid, alive, toWorker, spawned, sends>>

\* A failure message, or readiness out of place, is an error of this request
\* only: the worker is kept.
ReadRefusal ==
    /\ pc = "reading"
    /\ fromWorker # <<>>
    /\ Head(fromWorker).kind \in {"failure", "ready", "wrong_version"}
    /\ fromWorker' = Tail(fromWorker)
    /\ Deliver(Unavailable("ProtocolViolation"))
    /\ UNCHANGED <<open, queue, worker, pid, alive, toWorker, spawned, sends>>

ReadOversize ==
    /\ pc = "reading"
    /\ fromWorker # <<>>
    /\ Head(fromWorker).kind = "oversize"
    /\ Terminate
    /\ Deliver(Unavailable("FrameTooLarge"))
    /\ UNCHANGED <<open, queue, spawned, sends>>

ReadGarbage ==
    /\ pc = "reading"
    /\ fromWorker # <<>>
    /\ Head(fromWorker).kind = "garbage"
    /\ Terminate
    /\ RetryOrGiveUp("ProtocolViolation")
    /\ UNCHANGED <<open, queue, spawned, sends>>

\* Broken pipe on the write, or end of file on the read.
ExchangeCrashes ==
    /\ \/ pc = "exchange" /\ current \notin Oversized
       \/ pc = "reading" /\ fromWorker = <<>>
    /\ ~alive
    /\ Terminate
    /\ RetryOrGiveUp("Crashed")
    /\ UNCHANGED <<open, queue, spawned, sends>>

\* Mutant of ExchangeTimesOut: the slow worker is kept for the next attempt.
TimeOutKeepingWorker ==
    /\ pc = "reading"
    /\ \/ attempt >= RestartLimit /\ Deliver(Unavailable("TimedOut"))
       \/ /\ attempt < RestartLimit
          /\ attempt' = attempt + 1
          /\ pc' = "exchange"
          /\ UNCHANGED <<callerVars, current, starts>>
    /\ UNCHANGED <<open, queue, workerVars, spawned, sends>>

\* Mutant of ExchangeTimesOut: no deadline, only the end of file is noticed.
NoDeadline ==
    /\ pc = "reading"
    /\ ~alive
    /\ Terminate
    /\ RetryOrGiveUp("TimedOut")
    /\ UNCHANGED <<open, queue, spawned, sends>>

\* The deadline passes first, whether the worker hangs, died, or has just
\* written the reply.
ExchangeTimesOut ==
    /\ pc = "reading"
    /\ Terminate
    /\ RetryOrGiveUp("TimedOut")
    /\ UNCHANGED <<open, queue, spawned, sends>>

BackoffElapses ==
    /\ pc = "backoff"
    /\ pc' = "spawn"
    /\ starts' = starts + 1
    /\ UNCHANGED <<callerVars, open, queue, current, attempt, workerVars, spawned, sends>>

\* Mutant of Shutdown: the task ends without terminating the worker.
ShutdownLeavingWorker ==
    /\ pc = "idle"
    /\ queue = <<>>
    /\ ~open
    /\ pc' = "stopped"
    /\ UNCHANGED <<callerVars, open, queue, current, attempt, workerVars, historyVars>>

\* recv returns None: no sender is left and the channel is empty.
Shutdown ==
    /\ pc = "idle"
    /\ queue = <<>>
    /\ ~open
    /\ Terminate
    /\ pc' = "stopped"
    /\ UNCHANGED <<callerVars, open, queue, current, attempt, historyVars>>

Supervisor ==
    \/ Spawn \/ SpawnFails \/ HandshakeReady \/ HandshakeFails
    \/ Receive \/ RequestTooLarge \/ WriteRequest
    \/ ReadResult \/ ReadRefusal \/ ReadOversize \/ ReadGarbage
    \/ ExchangeCrashes \/ ExchangeTimesOut \/ BackoffElapses \/ Shutdown

\* The future of start(), or later the task, is dropped with its runtime.
\* kill_on_drop reaps the worker, nothing resets the published pid, the
\* oneshots of everyone queued close.
Abort ==
    /\ pc # "stopped"
    /\ pc' = "stopped"
    /\ queue' = <<>>
    /\ current' = Nobody
    /\ call' = [r \in Requests |-> IF call[r] = "waiting" THEN "done" ELSE call[r]]
    /\ outcome' = [r \in Requests |-> IF call[r] = "waiting"
                                      THEN Unavailable("SupervisorStopped")
                                      ELSE outcome[r]]
    /\ worker' = 0 /\ alive' = FALSE
    /\ toWorker' = <<>> /\ fromWorker' = <<>>
    /\ UNCHANGED <<open, attempt, pid, historyVars>>

Next ==
    \/ \E r \in Requests : Call(r) \/ Send(r) \/ SendRefused(r) \/ Cancel(r)
    \/ DropHandles
    \/ WorkerReply
    \/ WorkerCrash
    \/ Supervisor
    \/ Abort

Spec == Init /\ [][Next]_vars

(***************************************************************************)
(* The runtime polls the task and fires its timers, and wakes a sender     *)
(* when there is room.  Nothing is assumed of the worker process, of the   *)
(* callers' patience, or of handles being dropped.                         *)
(***************************************************************************)
Fairness ==
    /\ WF_vars(Supervisor)
    /\ \A r \in Requests : WF_vars(Send(r)) /\ WF_vars(SendRefused(r))

FairSpec == Spec /\ Fairness

-----------------------------------------------------------------------------
(* Properties. *)

\* Every variable keeps its type; the channel never exceeds its capacity, the
\* attempt counter, a u8 compared before it is incremented, its limit, and a
\* request is being served exactly in the stages of evaluate_with_restart.
TypeOK ==
    /\ call \in [Requests -> {"idle", "sending", "waiting", "done", "dropped"}]
    /\ outcome \in [Requests -> {NoOutcome} \union Service!Errors
                                  \union {Verdict(r) : r \in Requests}]
    /\ open \in BOOLEAN
    /\ queue \in Seq(Requests) /\ Len(queue) <= QueueCapacity
    /\ pc \in Stages
    /\ current \in Requests \union {Nobody}
    /\ pc \in {"exchange", "reading", "backoff"} => current # Nobody
    /\ pc \in {"idle", "stopped"} => current = Nobody
    /\ attempt \in 0..RestartLimit
    /\ worker \in Nat /\ pid \in Nat /\ alive \in BOOLEAN
    /\ toWorker \in Seq(Requests \union {Hello})
    /\ fromWorker \in Seq(Replies)
    /\ spawned \in Nat /\ starts \in Nat /\ sends \in Nat

\* A verdict a caller receives was computed from that caller's request,
\* whatever replies were late, lost or abandoned before (the host compares no
\* request id, so only the discipline of the pipes ensures it).
OwnVerdict ==
    \A r \in Requests : outcome[r].kind = "verdict" => outcome[r].of = r

\* The pipes hold one frame or its one reply, for the frame now awaited.
OneFrameInFlight(frame) ==
    \/ toWorker = <<frame>> /\ fromWorker = <<>>
    \/ toWorker = <<>> /\ fromWorker = <<>>
    \/ /\ toWorker = <<>>
       /\ \E kind \in ReplyKinds :
             /\ kind = "result" => frame # Hello
             /\ fromWorker = <<Reply(kind, frame)>>

\* Outside an exchange both pipes of the worker are empty, within one they
\* hold at most the frame written and its reply: no reply of an exchange that
\* timed out, failed or lost its caller is left to answer the next request.
PipesInStep ==
    IF pc \in {"handshake", "reading"}
    THEN OneFrameInFlight(IF pc = "handshake" THEN Hello ELSE current)
    ELSE toWorker = <<>> /\ fromWorker = <<>>

\* One request makes the supervisor start at most RestartLimit + 1 workers and
\* write the request at most RestartLimit + 1 times: start failures and
\* exchange failures draw on the same budget.
AttemptBudget ==
    /\ starts <= attempt + (IF pc = "backoff" THEN 0 ELSE 1)
    /\ sends <= attempt + (IF pc \in {"idle", "reading", "stopped"} THEN 1 ELSE 0)

\* The supervisor implements the serial first-come-first-served service: each
\* accepted call is told its own verdict or an error, at most once.
ImplementsService == Service!Spec

\* Every call of `evaluate` returns or is abandoned by its caller, even if the
\* worker hangs or dies on every request.
EveryCallCompletes ==
    \A r \in Requests :
        call[r] \in {"sending", "waiting"} ~> call[r] \in {"done", "dropped"}

\* Once the last handle is dropped the task ends and leaves no process behind,
\* even with commands of vanished callers still queued.
WorkerReaped == ~open ~> (open \/ (pc = "stopped" /\ ~alive))
=============================================================================
