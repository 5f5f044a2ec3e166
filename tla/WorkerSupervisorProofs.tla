----------------------- MODULE WorkerSupervisorProofs -----------------------
(***************************************************************************)
(* Proofs about WorkerSupervisor, for any set of requests, any channel     *)
(* capacity and any restart limit.                                         *)
(*                                                                         *)
(* The inductive invariant is IInv: the types with the serving stages      *)
(* (TypeOK) and one frame in flight at most (PipesInStep).  OwnVerdict and *)
(* AttemptBudget follow step by step from it: the only reply that can be   *)
(* read is the reply to current, and each attempt is counted.  That the    *)
(* supervisor implements ProofService needs besides that the line is the   *)
(* accepted calls, each once (LineInv).                                    *)
(***************************************************************************)
EXTENDS WorkerSupervisor, SequenceTheorems, TLAPS

\* The part of TypeOK that concerns the request being served.
ServingTypes ==
    /\ call \in [Requests -> {"idle", "sending", "waiting", "done", "dropped"}]
    /\ outcome \in [Requests -> {NoOutcome} \union Service!Errors
                                  \union {Verdict(r) : r \in Requests}]
    /\ pc \in Stages
    /\ current \in Requests \union {Nobody}
    /\ pc \in {"exchange", "reading", "backoff"} => current # Nobody
    /\ pc \in {"idle", "stopped"} => current = Nobody
    /\ attempt \in 0..RestartLimit
    /\ starts \in Nat

-----------------------------------------------------------------------------
(* Facts about the helpers that several actions share. *)

\* Handing out an outcome of the right type keeps the callers' types.
LEMMA DeliverType ==
    ASSUME TypeOK, current \in Requests, NEW o, Deliver(o),
           o \in Service!Errors \union {Verdict(r) : r \in Requests}
    PROVE  ServingTypes'
<1>1. CASE call[current] = "waiting"
  BY <1>1 DEF TypeOK, ServingTypes, Deliver, Stages
<1>2. CASE call[current] # "waiting"
  BY <1>2 DEF TypeOK, ServingTypes, Deliver, Stages, callerVars
<1>3. QED BY <1>1, <1>2

\* So does counting a failed attempt, which never counts past the limit.
LEMMA RetryType ==
    ASSUME TypeOK, current \in Requests,
           NEW reason \in Service!Reasons, RetryOrGiveUp(reason)
    PROVE  ServingTypes'
<1>1. CASE attempt >= RestartLimit /\ Deliver(Unavailable(reason))
  BY <1>1, DeliverType DEF Service!Errors, Unavailable
<1>2. CASE attempt < RestartLimit /\ attempt' = attempt + 1 /\ pc' = "backoff"
             /\ UNCHANGED <<callerVars, current, starts>>
  BY <1>2, SupervisorAssumption DEF TypeOK, ServingTypes, callerVars, Stages
<1>3. QED BY <1>1, <1>2 DEF RetryOrGiveUp

\* And so does a failed Worker::start, before or while a request is served.
LEMMA StartErrorType ==
    ASSUME TypeOK, NEW reason \in Service!Reasons, StartError(reason)
    PROVE  ServingTypes'
<1>1. CASE current = Nobody /\ pc' = "stopped"
             /\ UNCHANGED <<callerVars, current, attempt, starts>>
  BY <1>1 DEF TypeOK, ServingTypes, callerVars, Stages
<1>2. CASE current # Nobody /\ RetryOrGiveUp(reason)
  BY <1>2, RetryType DEF TypeOK
<1>3. QED BY <1>1, <1>2 DEF StartError

\* While a reply is awaited, the first frame of the worker's stdout is the
\* reply to the frame last written, and it is the only one.
LEMMA AwaitedReply ==
    ASSUME TypeOK, PipesInStep, pc \in {"handshake", "reading"}, fromWorker # <<>>
    PROVE  /\ toWorker = <<>>
           /\ Tail(fromWorker) = <<>>
           /\ Head(fromWorker).of = IF pc = "handshake" THEN Hello ELSE current
           /\ Head(fromWorker).kind = "result" => pc = "reading"
<1>1. PICK kind \in ReplyKinds :
         /\ toWorker = <<>>
         /\ kind = "result" => pc = "reading"
         /\ fromWorker = <<Reply(kind, IF pc = "handshake" THEN Hello ELSE current)>>
  BY DEF PipesInStep, OneFrameInFlight
<1>2. QED BY <1>1 DEF Reply

-----------------------------------------------------------------------------
(* Type correctness. *)

LEMMA TypeInit == Init => TypeOK
<1> SUFFICES ASSUME Init PROVE TypeOK
  OBVIOUS
<1>1. /\ call \in [Requests -> {"idle", "sending", "waiting", "done", "dropped"}]
      /\ outcome \in [Requests -> {NoOutcome} \union Service!Errors
                                    \union {Verdict(r) : r \in Requests}]
  BY DEF Init
<1>2. /\ queue \in Seq(Requests) /\ Len(queue) <= QueueCapacity
      /\ toWorker \in Seq(Requests \union {Hello})
      /\ fromWorker \in Seq(Replies)
  BY EmptySeq, SupervisorAssumption DEF Init
<1>3. attempt \in 0..RestartLimit
  BY SupervisorAssumption DEF Init
<1>4. QED BY <1>1, <1>2, <1>3 DEF Init, TypeOK, Stages

LEMMA TypeCallers ==
    ASSUME TypeOK, NEW r \in Requests,
           Call(r) \/ Send(r) \/ SendRefused(r) \/ Cancel(r)
    PROVE  TypeOK'
<1> USE DEF TypeOK, callerVars, workerVars, historyVars
<1>1. CASE Call(r)         BY <1>1 DEF Call
<1>2. CASE Send(r)
  <2>1. queue' \in Seq(Requests) /\ Len(queue') = Len(queue) + 1
    BY <1>2, AppendProperties DEF Send
  <2>2. Len(queue') <= QueueCapacity
    BY <1>2, <2>1, SupervisorAssumption, LenProperties DEF Send
  <2>3. QED BY <1>2, <2>1, <2>2 DEF Send
<1>3. CASE SendRefused(r)
  BY <1>3 DEF SendRefused, Unavailable, Service!Errors, Service!Reasons
<1>4. CASE Cancel(r)       BY <1>4 DEF Cancel
<1>5. QED BY <1>1, <1>2, <1>3, <1>4

LEMMA TypeWorker ==
    ASSUME TypeOK, WorkerReply \/ WorkerCrash
    PROVE  TypeOK'
<1>1. CASE WorkerReply
  <2>1. /\ Head(toWorker) \in Requests \union {Hello}
        /\ Tail(toWorker) \in Seq(Requests \union {Hello})
    BY <1>1, HeadTailProperties DEF WorkerReply, TypeOK
  <2>2. PICK kind \in ReplyKinds : fromWorker' = Append(fromWorker, Reply(kind, Head(toWorker)))
    BY <1>1 DEF WorkerReply
  <2>3. Reply(kind, Head(toWorker)) \in Replies
    BY <2>1 DEF Replies
  <2>4. fromWorker' \in Seq(Replies)
    BY <2>2, <2>3, AppendProperties DEF TypeOK
  <2>5. QED
    BY <1>1, <2>1, <2>4 DEF WorkerReply, TypeOK, callerVars, historyVars
<1>2. CASE WorkerCrash
  BY <1>2, EmptySeq DEF WorkerCrash, TypeOK, callerVars, historyVars
<1>3. QED BY <1>1, <1>2

LEMMA TypeSupervisor ==
    ASSUME TypeOK, PipesInStep, Supervisor
    PROVE  TypeOK'
<1> USE SupervisorAssumption DEF TypeOK, callerVars, workerVars, historyVars
<1>e. /\ <<>> \in Seq(Requests \union {Hello})
      /\ <<>> \in Seq(Replies)
  BY EmptySeq
<1>u. \A reason \in Service!Reasons : Unavailable(reason) \in Service!Errors
  BY DEF Unavailable, Service!Errors
<1>1. CASE Spawn
  BY <1>1, <1>e DEF Spawn, Stages
<1>2. CASE SpawnFails
  BY <1>2, StartErrorType DEF SpawnFails, ServingTypes, Service!Reasons
<1>3. CASE HandshakeReady
  BY <1>3, <1>e, AwaitedReply DEF HandshakeReady, Stages
<1>4. CASE HandshakeFails
  BY <1>4, <1>e, StartErrorType DEF HandshakeFails, ServingTypes, Terminate, Service!Reasons
<1>5. CASE Receive
  BY <1>5, HeadTailProperties DEF Receive, Stages
<1>6. CASE RequestTooLarge
  BY <1>6, <1>e, <1>u, DeliverType
     DEF RequestTooLarge, ServingTypes, Terminate, Service!Reasons
<1>7. CASE WriteRequest
  <2>1. current \in Requests
    BY <1>7 DEF WriteRequest
  <2>2. toWorker' \in Seq(Requests \union {Hello})
    BY <1>7, <2>1, AppendProperties DEF WriteRequest
  <2>3. QED BY <1>7, <2>1, <2>2 DEF WriteRequest, Stages
<1>8. CASE ReadResult
  <2>1. current \in Requests /\ Head(fromWorker).of = current /\ fromWorker' = <<>>
    BY <1>8, AwaitedReply DEF ReadResult
  <2>2. Verdict(current) \in {Verdict(r) : r \in Requests}
    BY <2>1
  <2>3. ServingTypes'
    BY <1>8, <2>1, <2>2, DeliverType DEF ReadResult
  <2>4. QED BY <1>8, <1>e, <2>1, <2>3 DEF ReadResult, ServingTypes
<1>9. CASE ReadRefusal
  <2>1. fromWorker' = <<>>
    BY <1>9, AwaitedReply DEF ReadRefusal
  <2>2. ServingTypes'
    BY <1>9, <1>u, DeliverType DEF ReadRefusal, Service!Reasons
  <2>3. QED BY <1>9, <1>e, <2>1, <2>2 DEF ReadRefusal, ServingTypes
<1>10. CASE ReadOversize
  BY <1>10, <1>e, <1>u, DeliverType DEF ReadOversize, ServingTypes, Terminate, Service!Reasons
<1>11. CASE ReadGarbage
  BY <1>11, <1>e, RetryType DEF ReadGarbage, ServingTypes, Terminate, Service!Reasons
<1>12. CASE ExchangeCrashes
  BY <1>12, <1>e, RetryType DEF ExchangeCrashes, ServingTypes, Terminate, Service!Reasons
<1>13. CASE ExchangeTimesOut
  BY <1>13, <1>e, RetryType DEF ExchangeTimesOut, ServingTypes, Terminate, Service!Reasons
<1>14. CASE BackoffElapses
  BY <1>14 DEF BackoffElapses, Stages
<1>15. CASE Shutdown
  BY <1>15, <1>e DEF Shutdown, Terminate, Stages
<1>16. QED
  BY <1>1, <1>2, <1>3, <1>4, <1>5, <1>6, <1>7, <1>8, <1>9, <1>10, <1>11, <1>12,
     <1>13, <1>14, <1>15
     DEF Supervisor

-----------------------------------------------------------------------------
(* One frame in flight. *)

LEMMA PipesCallers ==
    ASSUME PipesInStep, NEW r \in Requests,
           Call(r) \/ Send(r) \/ SendRefused(r) \/ Cancel(r) \/ DropHandles
    PROVE  PipesInStep'
<1>1. UNCHANGED <<pc, current, toWorker, fromWorker>>
  BY DEF Call, Send, SendRefused, Cancel, DropHandles, workerVars
<1>2. QED BY <1>1 DEF PipesInStep, OneFrameInFlight

\* The worker turns the frame written into its reply, or loses it.
LEMMA PipesWorker ==
    ASSUME TypeOK, PipesInStep, WorkerReply \/ WorkerCrash
    PROVE  PipesInStep'
<1> DEFINE frame == IF pc = "handshake" THEN Hello ELSE current
<1>1. UNCHANGED <<pc, current>>
  BY DEF WorkerReply, WorkerCrash
<1>2. CASE WorkerReply
  <2>1. /\ pc \in {"handshake", "reading"}
        /\ toWorker = <<frame>> /\ fromWorker = <<>>
    BY <1>2 DEF WorkerReply, PipesInStep, OneFrameInFlight
  <2>2. PICK kind \in ReplyKinds :
           /\ kind = "result" => frame \in Requests
           /\ fromWorker' = Append(<<>>, Reply(kind, frame))
    BY <1>2, <2>1 DEF WorkerReply
  <2>3. toWorker' = <<>> /\ fromWorker' = <<Reply(kind, frame)>>
    BY <1>2, <2>1, <2>2 DEF WorkerReply
  <2>4. QED
    BY <1>1, <2>1, <2>2, <2>3, SupervisorAssumption DEF PipesInStep, OneFrameInFlight
<1>3. CASE WorkerCrash
  BY <1>1, <1>3 DEF WorkerCrash, PipesInStep, OneFrameInFlight
<1>4. QED BY <1>2, <1>3

\* A request is retried or answered in a stage where no frame is awaited.
LEMMA RestStage ==
    ASSUME NEW o, Deliver(o) \/ RetryOrGiveUp(o) \/ StartError(o)
    PROVE  pc' \in {"idle", "backoff", "stopped"}
BY DEF Deliver, RetryOrGiveUp, StartError

LEMMA PipesSupervisor ==
    ASSUME TypeOK, PipesInStep, Supervisor
    PROVE  PipesInStep'
<1>1. CASE Spawn
  BY <1>1 DEF Spawn, PipesInStep, OneFrameInFlight
<1>2. CASE SpawnFails
  BY <1>2, RestStage DEF SpawnFails, workerVars, PipesInStep
<1>3. CASE HandshakeReady
  BY <1>3, AwaitedReply DEF HandshakeReady, PipesInStep
<1>4. CASE HandshakeFails
  BY <1>4, RestStage DEF HandshakeFails, Terminate, PipesInStep
<1>5. CASE Receive
  BY <1>5 DEF Receive, workerVars, PipesInStep
<1>6. CASE RequestTooLarge
  BY <1>6, RestStage DEF RequestTooLarge, Terminate, PipesInStep
<1>7. CASE WriteRequest
  <2>1. toWorker' = <<current>> /\ fromWorker' = <<>>
    BY <1>7 DEF WriteRequest, PipesInStep
  <2>2. QED BY <1>7, <2>1 DEF WriteRequest, PipesInStep, OneFrameInFlight
<1>8. CASE ReadResult
  BY <1>8, AwaitedReply, RestStage DEF ReadResult, PipesInStep
<1>9. CASE ReadRefusal
  BY <1>9, AwaitedReply, RestStage DEF ReadRefusal, PipesInStep
<1>10. CASE ReadOversize
  BY <1>10, RestStage DEF ReadOversize, Terminate, PipesInStep
<1>11. CASE ReadGarbage
  BY <1>11, RestStage DEF ReadGarbage, Terminate, PipesInStep
<1>12. CASE ExchangeCrashes
  BY <1>12, RestStage DEF ExchangeCrashes, Terminate, PipesInStep
<1>13. CASE ExchangeTimesOut
  BY <1>13, RestStage DEF ExchangeTimesOut, Terminate, PipesInStep
<1>14. CASE BackoffElapses
  BY <1>14 DEF BackoffElapses, workerVars, PipesInStep
<1>15. CASE Shutdown
  BY <1>15 DEF Shutdown, Terminate, PipesInStep
<1>16. QED
  BY <1>1, <1>2, <1>3, <1>4, <1>5, <1>6, <1>7, <1>8, <1>9, <1>10, <1>11, <1>12,
     <1>13, <1>14, <1>15
     DEF Supervisor

-----------------------------------------------------------------------------
(* The types and the pipes together. *)

IInv == TypeOK /\ PipesInStep

LEMMA IInvInit == Init => IInv
BY TypeInit DEF Init, IInv, PipesInStep

LEMMA AbortKeeps ==
    ASSUME IInv, Abort
    PROVE  IInv'
<1>1. PipesInStep'
  BY DEF Abort, PipesInStep
<1>2. /\ call' \in [Requests -> {"idle", "sending", "waiting", "done", "dropped"}]
      /\ outcome' \in [Requests -> {NoOutcome} \union Service!Errors
                                     \union {Verdict(r) : r \in Requests}]
  BY DEF IInv, TypeOK, Abort, Unavailable, Service!Errors, Service!Reasons
<1>3. /\ queue' \in Seq(Requests) /\ Len(queue') <= QueueCapacity
      /\ toWorker' \in Seq(Requests \union {Hello})
      /\ fromWorker' \in Seq(Replies)
  BY EmptySeq, SupervisorAssumption DEF Abort
<1>4. TypeOK'
  BY <1>2, <1>3 DEF IInv, TypeOK, Abort, historyVars, Stages
<1>5. QED BY <1>1, <1>4 DEF IInv

LEMMA IInvStep == IInv /\ [Next]_vars => IInv'
<1> SUFFICES ASSUME IInv, [Next]_vars PROVE IInv'
  OBVIOUS
<1> USE DEF IInv
<1>1. ASSUME NEW r \in Requests, Call(r) \/ Send(r) \/ SendRefused(r) \/ Cancel(r)
      PROVE  IInv'
  BY <1>1, TypeCallers, PipesCallers
<1>2. CASE DropHandles
  <2>1. TypeOK'
    BY <1>2 DEF DropHandles, TypeOK, callerVars, workerVars, historyVars
  <2>2. PipesInStep'
    BY <1>2 DEF DropHandles, PipesInStep, OneFrameInFlight, workerVars
  <2>3. QED BY <2>1, <2>2
<1>3. CASE WorkerReply \/ WorkerCrash
  BY <1>3, TypeWorker, PipesWorker
<1>4. CASE Supervisor
  BY <1>4, TypeSupervisor, PipesSupervisor
<1>5. CASE Abort
  BY <1>5, AbortKeeps
<1>6. CASE UNCHANGED vars
  <2>1. TypeOK'
    BY <1>6 DEF vars, TypeOK, callerVars, workerVars, historyVars
  <2>2. PipesInStep'
    BY <1>6 DEF vars, PipesInStep, OneFrameInFlight, workerVars
  <2>3. QED BY <2>1, <2>2
<1>7. QED BY <1>1, <1>2, <1>3, <1>4, <1>5, <1>6 DEF Next

LEMMA Invariance == Spec => []IInv
BY IInvInit, IInvStep, PTL DEF Spec

\* The supervisor's variables keep their types, the channel its capacity, the
\* attempt counter its limit: worker.rs never overflows its u8 counter.
THEOREM TypeCorrect == Spec => []TypeOK
<1>1. IInv => TypeOK BY DEF IInv
<1>2. QED BY <1>1, Invariance, PTL

\* Whatever times out, crashes or is cancelled, the pipes of the worker never
\* hold anything but the frame of the exchange in progress or its reply.
THEOREM PipesStayInStep == Spec => []PipesInStep
<1>1. IInv => PipesInStep BY DEF IInv
<1>2. QED BY <1>1, Invariance, PTL

-----------------------------------------------------------------------------
(* Every verdict is the caller's own. *)

\* An error is not a verdict.
LEMMA ErrorIsNoVerdict ==
    ASSUME NEW reason
    PROVE  Unavailable(reason).kind # "verdict"
BY DEF Unavailable, Service!Unavailable

LEMMA DeliverOwn ==
    ASSUME TypeOK, OwnVerdict, current \in Requests, NEW o, Deliver(o),
           o.kind = "verdict" => o.of = current
    PROVE  OwnVerdict'
<1>1. CASE call[current] = "waiting"
  BY <1>1 DEF TypeOK, OwnVerdict, Deliver
<1>2. CASE call[current] # "waiting"
  BY <1>2 DEF OwnVerdict, Deliver, callerVars
<1>3. QED BY <1>1, <1>2

LEMMA RetryOwn ==
    ASSUME TypeOK, OwnVerdict, current \in Requests, NEW reason, RetryOrGiveUp(reason)
    PROVE  OwnVerdict'
<1>1. CASE Deliver(Unavailable(reason))
  BY <1>1, DeliverOwn, ErrorIsNoVerdict
<1>2. CASE UNCHANGED callerVars
  BY <1>2 DEF OwnVerdict, callerVars
<1>3. QED BY <1>1, <1>2 DEF RetryOrGiveUp, callerVars

LEMMA StartErrorOwn ==
    ASSUME TypeOK, OwnVerdict, NEW reason, StartError(reason)
    PROVE  OwnVerdict'
<1>1. CASE UNCHANGED callerVars
  BY <1>1 DEF OwnVerdict, callerVars
<1>2. CASE current # Nobody /\ RetryOrGiveUp(reason)
  BY <1>2, RetryOwn DEF TypeOK
<1>3. QED BY <1>1, <1>2 DEF StartError, callerVars

LEMMA OwnSupervisor ==
    ASSUME IInv, OwnVerdict, Supervisor
    PROVE  OwnVerdict'
<1> USE DEF IInv
<1>1. CASE Spawn \/ HandshakeReady \/ Receive \/ WriteRequest \/ BackoffElapses \/ Shutdown
  <2>1. UNCHANGED callerVars
    BY <1>1 DEF Spawn, HandshakeReady, Receive, WriteRequest, BackoffElapses, Shutdown,
                callerVars
  <2>2. QED BY <2>1 DEF OwnVerdict, callerVars
<1>2. CASE SpawnFails \/ HandshakeFails
  BY <1>2, StartErrorOwn DEF SpawnFails, HandshakeFails
<1>3. CASE ReadResult
  <2>1. current \in Requests /\ Head(fromWorker).of = current
    BY <1>3, AwaitedReply DEF ReadResult, TypeOK
  <2>2. Verdict(Head(fromWorker).of).of = current
    BY <2>1 DEF Verdict, Service!Verdict
  <2>3. QED BY <1>3, <2>1, <2>2, DeliverOwn DEF ReadResult
<1>4. CASE RequestTooLarge \/ ReadRefusal \/ ReadOversize
  <2>1. current \in Requests
    BY <1>4 DEF RequestTooLarge, ReadRefusal, ReadOversize, TypeOK
  <2>2. PICK reason \in Service!Reasons : Deliver(Unavailable(reason))
    BY <1>4 DEF RequestTooLarge, ReadRefusal, ReadOversize, Service!Reasons
  <2>3. QED BY <2>1, <2>2, DeliverOwn, ErrorIsNoVerdict
<1>5. CASE ReadGarbage \/ ExchangeCrashes \/ ExchangeTimesOut
  <2>1. current \in Requests
    BY <1>5 DEF ReadGarbage, ExchangeCrashes, ExchangeTimesOut, TypeOK
  <2>2. PICK reason \in Service!Reasons : RetryOrGiveUp(reason)
    BY <1>5 DEF ReadGarbage, ExchangeCrashes, ExchangeTimesOut, Service!Reasons
  <2>3. QED BY <2>1, <2>2, RetryOwn
<1>6. QED BY <1>1, <1>2, <1>3, <1>4, <1>5 DEF Supervisor

LEMMA OwnStep == IInv /\ OwnVerdict /\ [Next]_vars => OwnVerdict'
<1> SUFFICES ASSUME IInv, OwnVerdict, [Next]_vars PROVE OwnVerdict'
  OBVIOUS
<1>1. ASSUME NEW r \in Requests, SendRefused(r) PROVE OwnVerdict'
  BY <1>1, ErrorIsNoVerdict DEF SendRefused, OwnVerdict, IInv, TypeOK
<1>2. CASE UNCHANGED outcome
  BY <1>2 DEF OwnVerdict
<1>3. CASE Supervisor
  BY <1>3, OwnSupervisor
<1>4. CASE Abort
  BY <1>4, ErrorIsNoVerdict DEF Abort, OwnVerdict
<1>5. QED
  BY <1>1, <1>2, <1>3, <1>4
     DEF Next, vars, Call, Send, Cancel, DropHandles, WorkerReply, WorkerCrash, callerVars

\* No late, lost or abandoned reply can become another caller's verdict: the
\* host compares no request id, the empty pipes make it unnecessary.
THEOREM VerdictsAreOwn == Spec => []OwnVerdict
<1>1. Init => OwnVerdict
  BY DEF Init, OwnVerdict, NoOutcome, Service!NoOutcome
<1>2. QED BY <1>1, OwnStep, Invariance, PTL DEF Spec

-----------------------------------------------------------------------------
(* The budget of attempts. *)

LEMMA BudgetStep == IInv /\ AttemptBudget /\ [Next]_vars => AttemptBudget'
<1> SUFFICES ASSUME IInv, AttemptBudget, [Next]_vars PROVE AttemptBudget'
  OBVIOUS
<1> USE SupervisorAssumption DEF IInv, TypeOK, AttemptBudget
<1>1. CASE UNCHANGED <<pc, attempt, starts, sends>>
  BY <1>1
<1>2. CASE Spawn \/ HandshakeReady \/ Receive \/ WriteRequest \/ BackoffElapses \/ Shutdown
  BY <1>2 DEF Spawn, HandshakeReady, Receive, WriteRequest, BackoffElapses, Shutdown,
              historyVars, Stages
<1>3. ASSUME NEW o, Deliver(o), UNCHANGED sends PROVE AttemptBudget'
  BY <1>3 DEF Deliver, Stages
<1>4. ASSUME NEW reason, RetryOrGiveUp(reason), UNCHANGED sends PROVE AttemptBudget'
  BY <1>3, <1>4 DEF RetryOrGiveUp, Stages
<1>5. ASSUME NEW reason, StartError(reason), UNCHANGED sends PROVE AttemptBudget'
  BY <1>4, <1>5 DEF StartError, Stages
<1>6. CASE SpawnFails \/ HandshakeFails
  BY <1>5, <1>6 DEF SpawnFails, HandshakeFails
<1>7. CASE RequestTooLarge \/ ReadResult \/ ReadRefusal \/ ReadOversize
  BY <1>3, <1>7 DEF RequestTooLarge, ReadResult, ReadRefusal, ReadOversize
<1>8. CASE ReadGarbage \/ ExchangeCrashes \/ ExchangeTimesOut
  BY <1>4, <1>8 DEF ReadGarbage, ExchangeCrashes, ExchangeTimesOut
<1>9. CASE Abort
  BY <1>9 DEF Abort, historyVars, Stages
<1>10. QED
  BY <1>1, <1>2, <1>6, <1>7, <1>8, <1>9
     DEF Next, Supervisor, vars, Call, Send, SendRefused, Cancel, DropHandles,
         WorkerReply, WorkerCrash, callerVars, workerVars, historyVars

\* Start failures and exchange failures draw on one budget per request.
THEOREM BudgetIsKept == Spec => []AttemptBudget
<1>1. Init => AttemptBudget
  BY DEF Init, AttemptBudget
<1>2. QED BY <1>1, BudgetStep, Invariance, PTL DEF Spec

-----------------------------------------------------------------------------
(* The line of calls, and the service. *)

\* The accepted calls are those being served and queued, each once; no call is
\* made before start() has returned a handle, and none is queued afterwards.
LineInv ==
    /\ \A i, j \in DOMAIN queue : queue[i] = queue[j] => i = j
    /\ \A i \in DOMAIN queue : queue[i] # current /\ call[queue[i]] \in {"waiting", "dropped"}
    /\ current # Nobody => call[current] \in {"waiting", "dropped"}
    /\ \A r \in Requests :
          call[r] = "waiting" => r = current \/ \E i \in DOMAIN queue : queue[i] = r
    /\ pc \in {"spawn", "handshake"} /\ current = Nobody =>
          ~open /\ queue = <<>> /\ \A r \in Requests : call[r] = "idle"
    /\ pc = "stopped" => queue = <<>>

LEMMA LineInit == Init => LineInv
BY SupervisorAssumption DEF Init, LineInv

\* What a queue is, index by index.
LEMMA QueueFacts ==
    ASSUME TypeOK
    PROVE  /\ queue \in Seq(Requests) /\ Len(queue) \in Nat /\ DOMAIN queue = 1 .. Len(queue)
           /\ \A i \in DOMAIN queue : queue[i] \in Requests
           /\ call \in [Requests -> {"idle", "sending", "waiting", "done", "dropped"}]
BY LenProperties, ElementOfSeq DEF TypeOK

LEMMA LineCallers ==
    ASSUME TypeOK, LineInv, NEW r \in Requests,
           Call(r) \/ Send(r) \/ SendRefused(r) \/ Cancel(r)
    PROVE  LineInv'
<1>1. CASE Call(r) BY <1>1, QueueFacts DEF Call, LineInv
<1>2. CASE Send(r)
  <2>1. /\ queue' \in Seq(Requests) /\ Len(queue') = Len(queue) + 1
        /\ DOMAIN queue' = 1 .. Len(queue) + 1
        /\ \A i \in 1 .. Len(queue) : queue'[i] = queue[i]
        /\ queue'[Len(queue) + 1] = r
    BY <1>2, QueueFacts, AppendProperties DEF Send
  <2>2. /\ call' = [call EXCEPT ![r] = "waiting"] /\ call[r] = "sending"
        /\ UNCHANGED <<open, pc, current>> /\ pc # "stopped"
    BY <1>2 DEF Send
  <2>3. r # current /\ \A i \in DOMAIN queue : queue[i] # r
    BY <2>2, SupervisorAssumption DEF LineInv
  <2>4. ~ (pc \in {"spawn", "handshake"} /\ current = Nobody)
    BY <2>2 DEF LineInv
  <2>5. /\ call'[r] = "waiting" /\ \A q \in Requests \ {r} : call'[q] = call[q]
    BY <2>2, QueueFacts
  <2>6. \A i \in DOMAIN queue' : i = Len(queue) + 1 \/ i \in DOMAIN queue
    BY <2>1, QueueFacts
  <2>7. Len(queue) + 1 \in DOMAIN queue' /\ Len(queue) + 1 \notin DOMAIN queue
        /\ DOMAIN queue \subseteq DOMAIN queue'
    BY <2>1, QueueFacts
  <2>8. \A i \in DOMAIN queue : queue'[i] = queue[i] /\ queue[i] \in Requests
    BY <2>1, QueueFacts
  <2>9. QED BY <2>1, <2>2, <2>3, <2>4, <2>5, <2>6, <2>7, <2>8, SupervisorAssumption DEF LineInv
<1>3. CASE SendRefused(r) BY <1>3, QueueFacts, SupervisorAssumption DEF SendRefused, LineInv
<1>4. CASE Cancel(r) BY <1>4, QueueFacts, SupervisorAssumption DEF Cancel, LineInv
<1>5. QED BY <1>1, <1>2, <1>3, <1>4

\* The call served leaves the line when it is told its outcome.
LEMMA LineDeliver ==
    ASSUME TypeOK, LineInv, current \in Requests, NEW o, Deliver(o), UNCHANGED <<open, queue>>
    PROVE  LineInv'
<1>1. /\ current' = Nobody /\ pc' = "idle"
      /\ \A r \in Requests \ {current} : call'[r] = call[r]
      /\ call'[current] # "waiting"
  BY QueueFacts DEF Deliver, callerVars
<1>2. Nobody \notin Requests BY SupervisorAssumption
<1>3. QED BY <1>1, <1>2, QueueFacts DEF LineInv

LEMMA LineRetry ==
    ASSUME TypeOK, LineInv, current \in Requests, NEW reason, RetryOrGiveUp(reason),
           UNCHANGED <<open, queue>>
    PROVE  LineInv'
<1>1. CASE Deliver(Unavailable(reason)) BY <1>1, LineDeliver
<1>2. CASE pc' = "backoff" /\ UNCHANGED <<callerVars, current>>
  BY <1>2 DEF LineInv, callerVars
<1>3. QED BY <1>1, <1>2 DEF RetryOrGiveUp, callerVars

LEMMA LineStartError ==
    ASSUME TypeOK, LineInv, pc \in {"spawn", "handshake"}, NEW reason, StartError(reason),
           UNCHANGED <<open, queue>>
    PROVE  LineInv'
<1>1. CASE current = Nobody /\ pc' = "stopped" /\ UNCHANGED <<callerVars, current>>
  BY <1>1 DEF LineInv, callerVars
<1>2. CASE current # Nobody /\ RetryOrGiveUp(reason)
  BY <1>2, LineRetry DEF TypeOK
<1>3. QED BY <1>1, <1>2 DEF StartError, callerVars

\* The first of the queue is served next.
LEMMA QueueHead ==
    ASSUME TypeOK, queue # <<>>
    PROVE  /\ Head(queue) = queue[1] /\ Head(queue) \in Requests /\ 1 \in DOMAIN queue
           /\ Tail(queue) \in Seq(Requests)
           /\ DOMAIN Tail(queue) = 1 .. Len(queue) - 1
           /\ \A i \in DOMAIN Tail(queue) : i + 1 \in DOMAIN queue /\ Tail(queue)[i] = queue[i + 1]
           /\ \A i \in DOMAIN queue : i # 1 => i - 1 \in DOMAIN Tail(queue)
           /\ <<Head(queue)>> \o Tail(queue) = queue
BY QueueFacts, HeadTailProperties

LEMMA LineReceive ==
    ASSUME TypeOK, LineInv, Receive
    PROVE  LineInv'
<1>1. /\ pc = "idle" /\ current = Nobody /\ queue # <<>>
      /\ current' = Head(queue) /\ queue' = Tail(queue)
      /\ call' = call /\ open' = open /\ pc' \in {"spawn", "exchange"}
  BY DEF Receive, TypeOK, callerVars
<1> DEFINE first == Head(queue)
<1>2. first = queue[1] /\ first \in Requests /\ 1 \in DOMAIN queue /\ first # Nobody
  BY <1>1, QueueHead, SupervisorAssumption
<1>3. /\ DOMAIN queue \subseteq Nat
      /\ \A i \in DOMAIN queue' : i + 1 \in DOMAIN queue /\ i + 1 # 1 /\ queue'[i] = queue[i + 1]
      /\ \A i \in DOMAIN queue : i # 1 => i - 1 \in DOMAIN queue' /\ (i - 1) + 1 = i
      /\ \A i, j \in DOMAIN queue' : i + 1 = j + 1 => i = j
  BY <1>1, QueueHead, QueueFacts
<1> HIDE DEF first
<1>4. \A i, j \in DOMAIN queue' : queue'[i] = queue'[j] => i = j
  BY <1>3 DEF LineInv
<1>5. \A i \in DOMAIN queue' : queue'[i] # first /\ call[queue'[i]] \in {"waiting", "dropped"}
  BY <1>2, <1>3 DEF LineInv
<1>6. ASSUME NEW r \in Requests, call[r] = "waiting"
      PROVE  r = first \/ \E i \in DOMAIN queue' : queue'[i] = r
  <2>1. PICK i \in DOMAIN queue : queue[i] = r BY <1>1, <1>6, SupervisorAssumption DEF LineInv
  <2>2. CASE i = 1 BY <1>2, <2>1, <2>2
  <2>3. CASE i # 1
    <3>1. i - 1 \in DOMAIN queue' /\ queue'[i - 1] = queue[i] BY <1>3, <2>3
    <3>2. QED BY <2>1, <3>1
  <2>4. QED BY <2>2, <2>3
<1>7. call[first] \in {"waiting", "dropped"} BY <1>2 DEF LineInv
<1>8. current' = first BY <1>1 DEF first
<1>9. QED BY <1>1, <1>2, <1>4, <1>5, <1>6, <1>7, <1>8 DEF LineInv

LEMMA LineSupervisor ==
    ASSUME IInv, LineInv, Supervisor
    PROVE  LineInv'
<1> USE DEF IInv
<1>1. CASE Spawn \/ WriteRequest \/ BackoffElapses
  <2>1. UNCHANGED <<call, open, queue, current>> /\ pc' \in {"handshake", "reading", "spawn"}
    BY <1>1 DEF Spawn, WriteRequest, BackoffElapses, callerVars
  <2>2. pc \in {"spawn"} \/ current # Nobody
    BY <1>1 DEF Spawn, WriteRequest, BackoffElapses, TypeOK
  <2>3. QED BY <2>1, <2>2 DEF LineInv
<1>2. CASE HandshakeReady
  <2>1. UNCHANGED <<call, queue, current>> /\ pc' \in {"idle", "exchange"}
    BY <1>2 DEF HandshakeReady, callerVars
  <2>2. QED BY <2>1 DEF LineInv
<1>3. CASE Shutdown
  <2>1. UNCHANGED <<call, open, queue, current>> /\ pc' = "stopped" /\ queue = <<>>
    BY <1>3 DEF Shutdown, callerVars
  <2>2. QED BY <2>1 DEF LineInv
<1>4. CASE SpawnFails \/ HandshakeFails
  <2>1. pc \in {"spawn", "handshake"} /\ UNCHANGED <<open, queue>>
    BY <1>4 DEF SpawnFails, HandshakeFails
  <2>2. QED BY <1>4, <2>1, LineStartError DEF SpawnFails, HandshakeFails
<1>5. CASE RequestTooLarge \/ ReadResult \/ ReadRefusal \/ ReadOversize
  <2>1. current \in Requests /\ UNCHANGED <<open, queue>>
    BY <1>5 DEF RequestTooLarge, ReadResult, ReadRefusal, ReadOversize, TypeOK
  <2>2. QED BY <1>5, <2>1, LineDeliver DEF RequestTooLarge, ReadResult, ReadRefusal, ReadOversize
<1>6. CASE ReadGarbage \/ ExchangeCrashes \/ ExchangeTimesOut
  <2>1. current \in Requests /\ UNCHANGED <<open, queue>>
    BY <1>6 DEF ReadGarbage, ExchangeCrashes, ExchangeTimesOut, TypeOK
  <2>2. QED BY <1>6, <2>1, LineRetry DEF ReadGarbage, ExchangeCrashes, ExchangeTimesOut
<1>7. QED
  BY <1>1, <1>2, <1>3, <1>4, <1>5, <1>6, LineReceive DEF Supervisor

LEMMA LineStep == IInv /\ LineInv /\ [Next]_vars => LineInv'
<1> SUFFICES ASSUME IInv, LineInv, [Next]_vars PROVE LineInv'
  OBVIOUS
<1>1. ASSUME NEW r \in Requests, Call(r) \/ Send(r) \/ SendRefused(r) \/ Cancel(r)
      PROVE  LineInv'
  BY <1>1, LineCallers DEF IInv
<1>2. CASE UNCHANGED <<call, queue, pc, current>> /\ (~open => ~open')
  BY <1>2 DEF LineInv
<1>3. CASE Supervisor BY <1>3, LineSupervisor
<1>4. CASE Abort BY <1>4, SupervisorAssumption DEF Abort, LineInv, IInv, TypeOK
<1>5. QED
  BY <1>1, <1>2, <1>3, <1>4
     DEF Next, vars, DropHandles, WorkerReply, WorkerCrash, callerVars

\* The call a service would be serving, and those behind it.
Line == IF current = Nobody THEN queue ELSE <<current>> \o queue

LEMMA LineOfServing ==
    ASSUME TypeOK, current # Nobody
    PROVE  /\ Line = <<current>> \o queue /\ Line # <<>>
           /\ Head(Line) = current /\ Tail(Line) = queue
<1>1. current \in Requests /\ queue \in Seq(Requests) /\ <<current>> \in Seq(Requests)
  BY DEF TypeOK
<1>2. Line = <<current>> \o queue BY DEF Line
<1>3. Line \in Seq(Requests) /\ Len(Line) = 1 + Len(queue) /\ Line[1] = current
  BY <1>1, <1>2, ConcatProperties
<1>4. Line # <<>> /\ Head(Line) = current BY <1>1, <1>3, HeadTailProperties
<1>5. Tail(Line) = queue BY <1>1, <1>2
<1>6. QED BY <1>2, <1>4, <1>5

LEMMA LineOfAppended ==
    ASSUME TypeOK, NEW r \in Requests, queue' = Append(queue, r), UNCHANGED current
    PROVE  Line' = Append(Line, r)
<1>1. queue \in Seq(Requests) BY DEF TypeOK
<1>2. CASE current = Nobody BY <1>2 DEF Line
<1>3. CASE current # Nobody
  <2>1. current \in Requests BY <1>3 DEF TypeOK
  <2>2. <<current>> \o Append(queue, r) = Append(<<current>> \o queue, r)
    BY <1>1, <2>1
  <2>3. QED BY <1>3, <2>2 DEF Line
<1>4. QED BY <1>2, <1>3

\* A call that is told something is the first of the line and leaves it.
LEMMA DeliverFinishes ==
    ASSUME TypeOK, LineInv, current \in Requests, UNCHANGED queue,
           NEW o \in {Verdict(current)} \union Service!Errors, Deliver(o)
    PROVE  Service!Finish
<1>1. current # Nobody BY SupervisorAssumption
<1>2. /\ Line # <<>> /\ Head(Line) = current /\ Tail(Line) = queue
      /\ Line' = queue
  BY <1>1, LineOfServing DEF Deliver, Line
<1>3. pc # "stopped" /\ pc' # "stopped" BY <1>1 DEF Deliver, TypeOK
<1>4. call[current] \in {"waiting", "dropped"} BY <1>1 DEF LineInv
<1>5. \/ /\ call[current] = "waiting" /\ call' = [call EXCEPT ![current] = "done"]
         /\ outcome' = [outcome EXCEPT ![current] = o]
      \/ call[current] = "dropped" /\ UNCHANGED <<call, outcome>>
  BY <1>4 DEF Deliver, callerVars
<1>6. QED BY <1>2, <1>3, <1>5 DEF Service!Finish, Line, Verdict

\* The abstract step of a task that ends.
LEMMA StoppedIsStop ==
    ASSUME TypeOK, pc # "stopped", pc' = "stopped", current' = Nobody, queue' = <<>>,
           call' = [r \in Requests |-> IF call[r] = "waiting" THEN "done" ELSE call[r]],
           outcome' = [r \in Requests |-> IF call[r] = "waiting"
                                          THEN Unavailable("SupervisorStopped")
                                          ELSE outcome[r]]
    PROVE  Service!Stop
BY DEF Service!Stop, Unavailable

LEMMA NobodyWaits ==
    ASSUME TypeOK, LineInv, current = Nobody, queue = <<>>, UNCHANGED callerVars
    PROVE  /\ call' = [r \in Requests |-> IF call[r] = "waiting" THEN "done" ELSE call[r]]
           /\ outcome' = [r \in Requests |-> IF call[r] = "waiting"
                                             THEN Unavailable("SupervisorStopped")
                                             ELSE outcome[r]]
<1>1. \A r \in Requests : call[r] # "waiting"
  BY SupervisorAssumption DEF LineInv
<1>2. call' = call /\ outcome' = outcome BY DEF callerVars
<1>3. call = [r \in Requests |-> call[r]] /\ outcome = [r \in Requests |-> outcome[r]]
  BY DEF TypeOK
<1>4. QED BY <1>1, <1>2, <1>3

Stutter == UNCHANGED Service!serviceVars

LEMMA RetryFinishes ==
    ASSUME TypeOK, LineInv, current \in Requests, UNCHANGED queue,
           NEW reason \in Service!Reasons, RetryOrGiveUp(reason)
    PROVE  Service!Finish \/ Stutter
<1>1. CASE Deliver(Unavailable(reason))
  BY <1>1, DeliverFinishes DEF Unavailable, Service!Errors
<1>2. CASE pc' = "backoff" /\ UNCHANGED <<callerVars, current>>
  <2>1. pc # "stopped" BY SupervisorAssumption DEF TypeOK
  <2>2. QED BY <1>2, <2>1 DEF Stutter, Service!serviceVars, callerVars
<1>3. QED BY <1>1, <1>2 DEF RetryOrGiveUp, callerVars

LEMMA SupervisorServes ==
    ASSUME IInv, LineInv, Supervisor
    PROVE  Service!Finish \/ Service!Stop \/ Stutter
<1> USE DEF IInv
<1>1. CASE Spawn \/ HandshakeReady \/ WriteRequest \/ BackoffElapses
  <2>1. UNCHANGED <<callerVars, queue, current>> /\ pc # "stopped" /\ pc' # "stopped"
    BY <1>1 DEF Spawn, HandshakeReady, WriteRequest, BackoffElapses
  <2>2. QED BY <2>1 DEF Stutter, Service!serviceVars, callerVars
<1>2. CASE Receive
  <2>1. /\ current = Nobody /\ pc = "idle" /\ pc' # "stopped" /\ queue # <<>>
        /\ current' = Head(queue) /\ queue' = Tail(queue) /\ UNCHANGED callerVars
    BY <1>2 DEF Receive, TypeOK
  <2>2. Head(queue) # Nobody /\ <<Head(queue)>> \o Tail(queue) = queue
    BY <2>1, QueueHead, SupervisorAssumption
  <2>3. Line = queue /\ Line' = queue BY <2>1, <2>2 DEF Line
  <2>4. QED BY <2>1, <2>3 DEF Stutter, Service!serviceVars, callerVars, Line
<1>3. CASE Shutdown
  BY <1>3, NobodyWaits, StoppedIsStop DEF Shutdown, TypeOK
<1>4. CASE SpawnFails \/ HandshakeFails
  <2>1. PICK reason \in Service!Reasons : StartError(reason)
    BY <1>4 DEF SpawnFails, HandshakeFails, Service!Reasons
  <2>2. pc \in {"spawn", "handshake"} /\ UNCHANGED queue
    BY <1>4 DEF SpawnFails, HandshakeFails
  <2>3. CASE current = Nobody
    <3>1. pc' = "stopped" /\ UNCHANGED <<callerVars, current>> /\ queue = <<>>
      BY <2>1, <2>2, <2>3 DEF StartError, LineInv
    <3>2. QED BY <2>2, <2>3, <3>1, NobodyWaits, StoppedIsStop
  <2>4. CASE current # Nobody
    BY <2>1, <2>2, <2>4, RetryFinishes DEF StartError, TypeOK
  <2>5. QED BY <2>3, <2>4
<1>5. CASE RequestTooLarge \/ ReadRefusal \/ ReadOversize
  <2>1. current \in Requests /\ UNCHANGED queue
    BY <1>5 DEF RequestTooLarge, ReadRefusal, ReadOversize, TypeOK
  <2>2. PICK reason \in Service!Reasons : Deliver(Unavailable(reason))
    BY <1>5 DEF RequestTooLarge, ReadRefusal, ReadOversize, Service!Reasons
  <2>3. Unavailable(reason) \in Service!Errors BY DEF Unavailable, Service!Errors
  <2>4. QED BY <2>1, <2>2, <2>3, DeliverFinishes
<1>6. CASE ReadResult
  <2>1. current \in Requests /\ Head(fromWorker).of = current /\ UNCHANGED queue
    BY <1>6, AwaitedReply DEF ReadResult, TypeOK
  <2>2. QED BY <1>6, <2>1, DeliverFinishes DEF ReadResult
<1>7. CASE ReadGarbage \/ ExchangeCrashes \/ ExchangeTimesOut
  <2>1. current \in Requests /\ UNCHANGED queue
    BY <1>7 DEF ReadGarbage, ExchangeCrashes, ExchangeTimesOut, TypeOK
  <2>2. PICK reason \in Service!Reasons : RetryOrGiveUp(reason)
    BY <1>7 DEF ReadGarbage, ExchangeCrashes, ExchangeTimesOut, Service!Reasons
  <2>3. QED BY <2>1, <2>2, RetryFinishes
<1>8. QED BY <1>1, <1>2, <1>3, <1>4, <1>5, <1>6, <1>7 DEF Supervisor

LEMMA ServiceStep ==
    IInv /\ LineInv /\ [Next]_vars => [Service!Next]_Service!serviceVars
<1> SUFFICES ASSUME IInv, LineInv, [Next]_vars PROVE Service!Next \/ Stutter
  BY DEF Stutter
<1>1. ASSUME NEW r \in Requests, Call(r) PROVE Service!Call(r)
  BY <1>1 DEF Call, Service!Call
<1>2. ASSUME NEW r \in Requests, Send(r) PROVE Service!Accept(r)
  <2>1. Line' = Append(Line, r) BY <1>2, LineOfAppended DEF Send, IInv
  <2>2. QED BY <1>2, <2>1 DEF Send, Service!Accept, Line
<1>3. ASSUME NEW r \in Requests, SendRefused(r) PROVE Service!Refuse(r)
  BY <1>3 DEF SendRefused, Service!Refuse, Unavailable
<1>4. ASSUME NEW r \in Requests, Cancel(r) PROVE Service!Cancel(r)
  BY <1>4 DEF Cancel, Service!Cancel
<1>5. CASE UNCHANGED <<callerVars, queue, pc, current>>
  BY <1>5 DEF Stutter, Service!serviceVars, callerVars
<1>6. CASE Supervisor BY <1>6, SupervisorServes DEF Service!Next
<1>7. CASE Abort
  <2>1. Service!Stop BY <1>7, StoppedIsStop DEF Abort, IInv
  <2>2. QED BY <2>1 DEF Service!Next
<1>8. QED
  BY <1>1, <1>2, <1>3, <1>4, <1>5, <1>6, <1>7
     DEF Next, vars, DropHandles, WorkerReply, WorkerCrash, Service!Next

\* For any number of calls the supervisor is the serial service: whatever times
\* out, crashes, is cancelled or torn down, each accepted call is served in its
\* turn and told its own verdict or an error, at most once (run_supervisor and
\* WorkerSupervisor::evaluate).
THEOREM SupervisorImplementsService == Spec => ImplementsService
<1>1. Init => Service!Init
  BY DEF Init, Service!Init, NoOutcome
<1>2. Spec => []LineInv
  BY LineInit, LineStep, Invariance, PTL DEF Spec
<1>3. QED BY <1>1, <1>2, ServiceStep, Invariance, PTL DEF Spec, ImplementsService, Service!Spec
=============================================================================
