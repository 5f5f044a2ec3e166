---------------------------- MODULE WhyQueryProofs ----------------------------
(***************************************************************************)
(* Proofs about WhyQuery, for any queries, targets, snapshots and limits.  *)
(*                                                                         *)
(* OneSupervisor needs that the lock is waited for by exactly the queries  *)
(* that stand before it, each once, and that only its first starts a       *)
(* worker (LockInv).  AnswersFitOneSnapshot needs that a query keeps to    *)
(* the snapshot of its slice (AnswerInv).                                  *)
(*                                                                         *)
(* The rest needs that the worker is asked about a slice of a published    *)
(* snapshot within the limits, with what the target brings along           *)
(* (RequestInv).  Such a slice is closed, so it fits together with the     *)
(* target (SliceFacts, AttachFacts), and its lists hold each record and    *)
(* relationship once, as every rank among them is taken (OrderedHolds).    *)
(* Whatever else the snapshot holds is not reached and decides nothing     *)
(* (NearSuffices).                                                         *)
(***************************************************************************)
EXTENDS WhyQuery, SharedLemmas, FiniteSetTheorems, SequenceTheorems, TLAPS

-----------------------------------------------------------------------------
(* The lock. *)

Waits(stage) == stage \in {"lock", "starting"}

\* The lock is waited for by exactly the queries that stand before it.
Queue(l, p) ==
    /\ l \in Seq(Callers) /\ p \in [Callers -> Stages]
    /\ \A i, j \in DOMAIN l : l[i] = l[j] => i = j
    /\ \A i \in DOMAIN l : Waits(p[l[i]])
    /\ \A c \in Callers : Waits(p[c]) => \E i \in DOMAIN l : l[i] = c

\* One item less, the others in their order.
Shorter(l, k, o) ==
    /\ o \in Seq(Callers) /\ Len(o) = Len(l) - 1
    /\ \A j \in 1 .. Len(o) : /\ j < k => o[j] = l[j]
                              /\ j >= k => o[j] = l[j + 1]

LEMMA RemovedOne ==
    ASSUME NEW l \in Seq(Callers), NEW k \in 1 .. Len(l)
    PROVE  Shorter(l, k, RemoveAt(l, k))
<1> DEFINE a == SubSeq(l, 1, k - 1)
           b == SubSeq(l, k + 1, Len(l))
<1>0. Len(l) \in Nat /\ k \in Nat /\ k <= Len(l) /\ \A i \in 1 .. Len(l) : l[i] \in Callers
  BY LenProperties, ElementOfSeq
<1>1. /\ a \in Seq(Callers) /\ Len(a) = k - 1
      /\ \A i \in 1 .. k - 1 : a[i] = l[i]
  <2>1. \A i \in 1 .. k - 1 : l[i] \in Callers BY <1>0
  <2>2. QED BY <2>1, <1>0, SubSeqProperties, SMT
<1>2. /\ b \in Seq(Callers) /\ Len(b) = Len(l) - k
      /\ \A i \in 1 .. Len(l) - k : b[i] = l[k + i]
  <2>1. \A i \in k + 1 .. Len(l) : l[i] \in Callers BY <1>0
  <2>2. /\ b \in Seq(Callers)
        /\ Len(b) = IF k + 1 <= Len(l) THEN Len(l) - (k + 1) + 1 ELSE 0
        /\ \A i \in 1 .. Len(l) - (k + 1) + 1 : b[i] = l[k + 1 + i - 1]
    BY <2>1, <1>0, SubSeqProperties
  <2>3. Len(b) = Len(l) - k BY <2>2, <1>0
  <2>4. \A i \in 1 .. Len(l) - k : /\ i \in 1 .. Len(l) - (k + 1) + 1
                                  /\ k + 1 + i - 1 = k + i
    BY <1>0
  <2>5. QED BY <2>2, <2>3, <2>4
<1>3. RemoveAt(l, k) = a \o b
  BY DEF RemoveAt
<1> HIDE DEF a, b
<1>4. /\ a \o b \in Seq(Callers) /\ Len(a \o b) = Len(a) + Len(b)
      /\ \A j \in 1 .. Len(a) + Len(b) :
            (a \o b)[j] = IF j <= Len(a) THEN a[j] ELSE b[j - Len(a)]
  BY <1>1, <1>2, ConcatProperties
<1>5. Len(a) + Len(b) = Len(l) - 1
  BY <1>0, <1>1, <1>2
<1>6. ASSUME NEW j \in 1 .. Len(l) - 1
      PROVE  /\ j < k => (a \o b)[j] = l[j]
             /\ j >= k => (a \o b)[j] = l[j + 1]
  <2>1. CASE j < k BY <2>1, <1>0, <1>1, <1>4, <1>5
  <2>2. CASE ~(j < k)
    <3>1. (a \o b)[j] = b[j - (k - 1)] BY <2>2, <1>0, <1>1, <1>4, <1>5
    <3>2. j - (k - 1) \in 1 .. Len(l) - k /\ k + (j - (k - 1)) = j + 1 BY <2>2, <1>0
    <3>3. QED BY <2>2, <3>1, <3>2, <1>2
  <2>3. QED BY <2>1, <2>2
<1>7. QED BY <1>3, <1>4, <1>5, <1>6 DEF Shorter

LEMMA RemovedFirst ==
    ASSUME NEW l \in Seq(Callers), l # <<>>
    PROVE  1 \in 1 .. Len(l) /\ Head(l) = l[1] /\ Shorter(l, 1, Tail(l))
<1>1. /\ Head(l) \in Callers /\ Tail(l) \in Seq(Callers)
      /\ Len(Tail(l)) = Len(l) - 1
      /\ \A i \in 1 .. Len(Tail(l)) : Tail(l)[i] = l[i + 1]
  BY HeadTailProperties
<1>2. Len(l) \in Nat /\ Len(l) # 0
  BY LenProperties, EmptySeq
<1>3. Head(l) = l[1]
  OBVIOUS
<1>4. \A i \in 1 .. Len(Tail(l)) : ~(i < 1)
  BY <1>1, <1>2
<1>5. QED BY <1>1, <1>2, <1>3, <1>4 DEF Shorter

\* A query that waits leaves the lock.
LEMMA QueueLeaves ==
    ASSUME NEW l, NEW p, Queue(l, p), NEW k \in 1 .. Len(l), NEW o, Shorter(l, k, o),
           NEW stage \in Stages, ~Waits(stage)
    PROVE  /\ Queue(o, [p EXCEPT ![l[k]] = stage])
           /\ k # 1 => o # <<>> /\ o[1] = l[1]
<1>0. /\ l \in Seq(Callers) /\ DOMAIN l = 1 .. Len(l)
      /\ o \in Seq(Callers) /\ DOMAIN o = 1 .. Len(o)
  BY LenProperties DEF Queue, Shorter
<1>1. Len(l) \in Nat /\ k \in 1 .. Len(l) /\ Len(o) = Len(l) - 1
  BY LenProperties DEF Queue, Shorter
<1>2. \A j \in 1 .. Len(o) : /\ j < k => o[j] = l[j]
                             /\ j >= k => o[j] = l[j + 1]
  BY DEF Shorter
<1> DEFINE From(j) == IF j < k THEN j ELSE j + 1
<1>3. \A j \in 1 .. Len(o) : From(j) \in 1 .. Len(l) /\ From(j) # k
  BY <1>1
<1>4. \A j \in 1 .. Len(o) : o[j] = l[From(j)]
  BY <1>1, <1>2
<1>5. \A i, j \in 1 .. Len(o) : From(i) = From(j) => i = j
  BY <1>1
<1>6. \A i \in 1 .. Len(l) : i # k => \E j \in 1 .. Len(o) : From(j) = i
  <2> SUFFICES ASSUME NEW i \in 1 .. Len(l), i # k PROVE \E j \in 1 .. Len(o) : From(j) = i
    OBVIOUS
  <2>1. CASE i < k BY <2>1, <1>1
  <2>2. CASE i > k
    <3>1. i - 1 \in 1 .. Len(o) /\ From(i - 1) = i BY <2>2, <1>1
    <3>2. QED BY <3>1
  <2>3. QED BY <2>1, <2>2, <1>1
<1>7. k # 1 => 1 \in 1 .. Len(o) /\ From(1) = 1
  BY <1>1
<1> HIDE DEF From
<1> DEFINE q == [p EXCEPT ![l[k]] = stage]
<1>8. p \in [Callers -> Stages] /\ l[k] \in Callers
  BY <1>0, <1>1, ElementOfSeq DEF Queue
<1>9. q \in [Callers -> Stages] /\ q[l[k]] = stage
      /\ \A c \in Callers \ {l[k]} : q[c] = p[c]
  BY <1>8
<1>10. \A i, j \in 1 .. Len(l) : l[i] = l[j] => i = j
  BY <1>0 DEF Queue
<1>11. \A i, j \in 1 .. Len(o) : o[i] = o[j] => i = j
  BY <1>3, <1>4, <1>5, <1>10
<1>12. \A j \in 1 .. Len(o) : o[j] \in Callers \ {l[k]} /\ Waits(p[o[j]])
  <2>1. \A i \in 1 .. Len(l) : Waits(p[l[i]]) /\ l[i] \in Callers
    BY <1>0, ElementOfSeq DEF Queue
  <2>2. QED BY <2>1, <1>1, <1>3, <1>4, <1>10
<1>13. ASSUME NEW c \in Callers, Waits(q[c])
       PROVE  \E j \in 1 .. Len(o) : o[j] = c
  <2>1. c # l[k] BY <1>9, <1>13
  <2>2. PICK i \in 1 .. Len(l) : l[i] = c BY <1>0, <1>9, <1>13, <2>1 DEF Queue
  <2>3. PICK j \in 1 .. Len(o) : From(j) = i BY <2>1, <2>2, <1>6
  <2>4. QED BY <2>2, <2>3, <1>4
<1> HIDE DEF q
<1>14. Queue(o, q)
  BY <1>0, <1>9, <1>11, <1>12, <1>13 DEF Queue
<1>15. ASSUME k # 1 PROVE o # <<>> /\ o[1] = l[1]
  <2>1. 1 \in 1 .. Len(o) /\ o[1] = l[1] BY <1>4, <1>7, <1>15
  <2>2. QED BY <2>1
<1>16. QED BY <1>14, <1>15 DEF q

\* The first of those who wait is the only one that may start the worker.
Starting(l, p, s) ==
    \A c \in Callers : p[c] = "starting" => l # <<>> /\ l[1] = c /\ s = Absent

LockInv ==
    /\ Queue(lock, pc) /\ Starting(lock, pc, supervisor)
    /\ supervisor \in Callers \union {Absent}
    /\ running = {supervisor} \ {Absent}

\* A query that does not wait goes on, or ends.
LEMMA ElsewhereKeepsLock ==
    ASSUME LockInv, NEW c \in Callers, ~Waits(pc[c]),
           NEW stage \in Stages, ~Waits(stage), pc' = [pc EXCEPT ![c] = stage],
           UNCHANGED engine
    PROVE  LockInv'
<1>1. UNCHANGED lock /\ UNCHANGED supervisor /\ UNCHANGED running
  BY DEF engine
<1>2. pc' \in [Callers -> Stages] /\ pc'[c] = stage /\ \A d \in Callers \ {c} : pc'[d] = pc[d]
  BY DEF LockInv, Queue
<1>3. \A i \in DOMAIN lock : lock[i] \in Callers \ {c}
  BY LenProperties, ElementOfSeq DEF LockInv, Queue
<1>4. Queue(lock, pc')
  BY <1>2, <1>3 DEF LockInv, Queue
<1>5. Starting(lock, pc', supervisor)
  BY <1>2 DEF LockInv, Starting, Waits
<1>6. QED BY <1>1, <1>4, <1>5 DEF LockInv

\* The first of those who wait leaves.
LEMMA FirstLeaves ==
    ASSUME LockInv, NEW c \in Callers, lock # <<>>, c = Head(lock),
           NEW stage \in Stages, ~Waits(stage), pc' = [pc EXCEPT ![c] = stage], Unlock
    PROVE  Queue(lock, pc)' /\ \A d \in Callers : pc'[d] # "starting"
<1>1. lock \in Seq(Callers)
  BY DEF LockInv, Queue
<1>2. /\ 1 \in 1 .. Len(lock) /\ c = lock[1] /\ lock' = Tail(lock)
      /\ Shorter(lock, 1, Tail(lock))
  BY <1>1, RemovedFirst DEF Unlock
<1>3. Queue(Tail(lock), [pc EXCEPT ![lock[1]] = stage])
  BY <1>2, QueueLeaves DEF LockInv
<1>4. pc'[c] = stage /\ \A d \in Callers \ {c} : pc'[d] = pc[d]
  BY DEF LockInv, Queue
<1>5. \A d \in Callers : pc'[d] # "starting"
  BY <1>2, <1>4 DEF LockInv, Starting, Waits
<1>6. QED BY <1>2, <1>3, <1>5

\* A query that waits is there to be removed.
LEMMA WaitsSomewhere ==
    ASSUME LockInv, NEW c \in Callers, Waits(pc[c])
    PROVE  /\ lock # <<>>
           /\ LET k == CHOOSE i \in DOMAIN lock : lock[i] = c
              IN  k \in 1 .. Len(lock) /\ lock[k] = c
<1>1. lock \in Seq(Callers) /\ DOMAIN lock = 1 .. Len(lock)
  BY LenProperties DEF LockInv, Queue
<1>2. \E i \in DOMAIN lock : lock[i] = c
  BY DEF LockInv, Queue
<1>3. lock # <<>>
  BY <1>2
<1>4. QED BY <1>1, <1>2, <1>3

LEMMA LockInit == Init => LockInv
<1> SUFFICES ASSUME Init PROVE LockInv
  OBVIOUS
<1>1. Queue(lock, pc)
  BY DEF Init, Queue, Stages, Waits
<1>2. QED BY <1>1 DEF Init, LockInv, Starting

LEMMA LockStep == LockInv /\ [Next]_vars => LockInv'
<1> SUFFICES ASSUME LockInv, [Next]_vars PROVE LockInv'
  OBVIOUS
<1>1. CASE UNCHANGED engine /\ UNCHANGED pc
  BY <1>1 DEF LockInv, engine
<1> DEFINE Free == {"new", "resolve", "slice", "evaluate", "again", "records", "done"}
<1>2. ASSUME NEW c \in Callers, pc[c] \in Free, UNCHANGED engine,
             NEW stage \in Free, pc' = [pc EXCEPT ![c] = stage]
      PROVE  LockInv'
  BY <1>2, ElsewhereKeepsLock DEF Waits, Stages
<1>3. ASSUME NEW c \in Callers, NEW t, Ask(c, t) PROVE LockInv'
  BY <1>3, <1>2 DEF Ask, Go
<1>4. ASSUME NEW c \in Callers, ResolveTarget(c) \/ LookForCandidates(c) \/ ResolveAgain(c)
      PROVE  LockInv'
  BY <1>4, <1>2 DEF ResolveTarget, LookForCandidates, ResolveAgain, Go
<1>5. ASSUME NEW c \in Callers, NEW r, pc[c] \in Free, Return(c, r), UNCHANGED engine
      PROVE  LockInv'
  BY <1>5, <1>2 DEF Return
<1>6. ASSUME NEW c \in Callers,
             ResolveFails(c) \/ NoSnapshot(c) \/ SliceTooLarge(c) \/ StoreFails(c)
      PROVE  LockInv'
  BY <1>6, <1>5 DEF ResolveFails, NoSnapshot, SliceTooLarge, StoreFails
<1>7. ASSUME NEW c \in Callers, Unavailable(c) \/ Answer(c) \/ FindCandidates(c) \/ TooManyRecords(c)
      PROVE  LockInv'
  BY <1>7, <1>5 DEF Unavailable, Answer, FindCandidates, TooManyRecords
<1>8. ASSUME NEW c \in Callers, LoadSlice(c) PROVE LockInv'
  <2>1. /\ pc[c] = "slice" /\ pc' = [pc EXCEPT ![c] = "lock"] /\ lock' = Append(lock, c)
        /\ UNCHANGED supervisor /\ UNCHANGED running
    BY <1>8 DEF LoadSlice, Go
  <2>2. /\ pc' \in [Callers -> Stages] /\ pc'[c] = "lock"
        /\ \A d \in Callers \ {c} : pc'[d] = pc[d]
    BY <2>1 DEF LockInv, Queue, Stages
  <2>3. lock \in Seq(Callers) /\ DOMAIN lock = 1 .. Len(lock) /\ Len(lock) \in Nat
    BY LenProperties DEF LockInv, Queue
  <2>4. \A i \in 1 .. Len(lock) : lock[i] \in Callers \ {c}
    BY <1>8, <2>1, <2>3, ElementOfSeq DEF LockInv, Queue, Waits
  <2>5. /\ lock' \in Seq(Callers) /\ Len(lock') = Len(lock) + 1
        /\ \A i \in 1 .. Len(lock) : lock'[i] = lock[i]
        /\ lock'[Len(lock) + 1] = c
    BY <2>1, <2>3, AppendProperties
  <2>6. DOMAIN lock' = 1 .. Len(lock')
    BY <2>5, LenProperties
  <2>7. \A i \in 1 .. Len(lock') : i \in 1 .. Len(lock) \/ i = Len(lock) + 1
    BY <2>3, <2>5
  <2>8. \A i \in 1 .. Len(lock) : i \in 1 .. Len(lock')
    BY <2>3, <2>5
  <2>9. Len(lock) + 1 \in 1 .. Len(lock')
    BY <2>3, <2>5
  <2>10. \A i, j \in 1 .. Len(lock') : lock'[i] = lock'[j] => i = j
    BY <2>3, <2>4, <2>5, <2>7 DEF LockInv, Queue
  <2>11. \A i \in 1 .. Len(lock') : Waits(pc'[lock'[i]])
    BY <2>2, <2>3, <2>4, <2>5, <2>7 DEF LockInv, Queue, Waits
  <2>12. ASSUME NEW d \in Callers, Waits(pc'[d])
         PROVE  \E i \in 1 .. Len(lock') : lock'[i] = d
    <3>1. CASE d = c BY <3>1, <2>5, <2>9
    <3>2. CASE d # c
      <4>1. PICK i \in 1 .. Len(lock) : lock[i] = d
        BY <3>2, <2>2, <2>3, <2>12 DEF LockInv, Queue
      <4>2. QED BY <4>1, <2>5, <2>8
    <3>3. QED BY <3>1, <3>2
  <2>13. Queue(lock', pc')
    BY <2>2, <2>5, <2>6, <2>10, <2>11, <2>12 DEF Queue
  <2>14. ASSUME NEW d \in Callers, pc'[d] = "starting"
         PROVE  lock' # <<>> /\ lock'[1] = d /\ supervisor = Absent
    <3>1. lock # <<>> /\ lock[1] = d /\ supervisor = Absent
      BY <2>2, <2>14 DEF LockInv, Starting
    <3>2. 1 \in 1 .. Len(lock) BY <3>1, <2>3, RemovedFirst
    <3>3. QED BY <3>1, <3>2, <2>5
  <2>15. Starting(lock', pc', supervisor') BY <2>1, <2>14 DEF Starting
  <2>16. QED BY <2>1, <2>13, <2>15 DEF LockInv
<1>9. ASSUME NEW c \in Callers, UseWorker(c) \/ Started(c) \/ StartFails(c)
      PROVE  LockInv'
  <2>1. PICK stage \in {"evaluate", "done"} : pc' = [pc EXCEPT ![c] = stage]
    BY <1>9 DEF UseWorker, Started, StartFails, Go, Return
  <2>2. Waits(pc[c]) /\ Unlock
    BY <1>9 DEF UseWorker, Started, StartFails, Go, Waits
  <2>3. lock # <<>> BY <2>2, WaitsSomewhere
  <2>4. c = Head(lock)
    <3>1. pc[c] = "starting" => c = lock[1] BY DEF LockInv, Starting
    <3>2. Head(lock) = lock[1] BY <2>3, RemovedFirst DEF LockInv, Queue
    <3>3. QED BY <1>9, <3>1, <3>2 DEF UseWorker, Started, StartFails, Go
  <2>5. Queue(lock, pc)' /\ \A d \in Callers : pc'[d] # "starting"
    BY <2>1, <2>2, <2>3, <2>4, FirstLeaves DEF Stages, Waits
  <2>6. /\ supervisor' \in Callers \union {Absent}
        /\ running' = {supervisor'} \ {Absent}
    <3>1. CASE UseWorker(c) BY <3>1 DEF UseWorker, LockInv
    <3>2. CASE StartFails(c) BY <3>2 DEF StartFails, LockInv
    <3>3. CASE Started(c)
      <4>1. supervisor = Absent BY <3>3 DEF Started, Go, LockInv, Starting
      <4>2. c # Absent BY QueryAssumption
      <4>3. QED BY <3>3, <4>1, <4>2 DEF Started, LockInv
    <3>4. QED BY <1>9, <3>1, <3>2, <3>3
  <2>7. QED BY <2>5, <2>6 DEF LockInv, Starting
<1>10. ASSUME NEW c \in Callers, BeginStart(c) PROVE LockInv'
  <2>1. /\ pc[c] = "lock" /\ pc' = [pc EXCEPT ![c] = "starting"]
        /\ c = Head(lock) /\ supervisor = Absent /\ UNCHANGED engine
    BY <1>10 DEF BeginStart, Go
  <2>2. lock # <<>> /\ c = lock[1]
    <3>1. lock # <<>> BY <1>10, <2>1, WaitsSomewhere DEF Waits
    <3>2. QED BY <2>1, <3>1, RemovedFirst DEF LockInv, Queue
  <2>3. /\ pc' \in [Callers -> Stages] /\ pc'[c] = "starting"
        /\ \A d \in Callers \ {c} : pc'[d] = pc[d]
    BY <2>1 DEF LockInv, Queue, Stages
  <2>4. UNCHANGED lock /\ UNCHANGED supervisor /\ UNCHANGED running
    BY <2>1 DEF engine
  <2>5. \A d \in Callers : pc'[d] = "starting" => d = c
    <3>1. \A d \in Callers : pc[d] = "starting" => d = lock[1] BY DEF LockInv, Starting
    <3>2. QED BY <2>2, <2>3, <3>1
  <2>6. \A i \in DOMAIN lock : lock[i] \in Callers
    BY LenProperties, ElementOfSeq DEF LockInv, Queue
  <2>7. \A d \in Callers : Waits(pc'[d]) <=> Waits(pc[d])
    BY <2>1, <2>3 DEF Waits
  <2>8. Queue(lock, pc')
    BY <2>3, <2>6, <2>7 DEF LockInv, Queue
  <2>9. Starting(lock, pc', supervisor)
    BY <2>1, <2>2, <2>5 DEF Starting
  <2>10. QED BY <2>4, <2>8, <2>9 DEF LockInv
<1>11. ASSUME NEW c \in Callers, Abandon(c) PROVE LockInv'
  <2>1. pc' = [pc EXCEPT ![c] = "done"] /\ UNCHANGED supervisor /\ UNCHANGED running
    BY <1>11 DEF Abandon, Return
  <2>2. CASE pc[c] = "evaluate"
    <3>1. UNCHANGED engine BY <1>11, <2>2 DEF Abandon, engine
    <3>2. QED BY <1>11, <2>1, <2>2, <3>1, <1>2
  <2>3. CASE pc[c] # "evaluate"
    <3> DEFINE k == CHOOSE i \in DOMAIN lock : lock[i] = c
    <3>1. Waits(pc[c]) /\ lock' = RemoveAt(lock, k)
      BY <1>11, <2>3 DEF Abandon, Waits
    <3>2. lock # <<>> /\ k \in 1 .. Len(lock) /\ lock[k] = c
      BY <1>11, <3>1, WaitsSomewhere
    <3> HIDE DEF k
    <3>3. Shorter(lock, k, RemoveAt(lock, k))
      BY <3>2, RemovedOne DEF LockInv, Queue
    <3>4. /\ Queue(RemoveAt(lock, k), [pc EXCEPT ![lock[k]] = "done"])
          /\ k # 1 => RemoveAt(lock, k) # <<>> /\ RemoveAt(lock, k)[1] = lock[1]
      <4>1. "done" \in Stages /\ ~Waits("done") BY DEF Stages, Waits
      <4>2. QED BY <3>2, <3>3, <4>1, QueueLeaves DEF LockInv
    <3>5. Queue(lock', pc') /\ (k # 1 => lock' # <<>> /\ lock'[1] = lock[1])
      BY <2>1, <3>1, <3>2, <3>4
    <3>6. pc'[c] = "done" /\ \A d \in Callers \ {c} : pc'[d] = pc[d]
      BY <1>11, <2>1 DEF LockInv, Queue
    <3>7. Starting(lock', pc', supervisor)
      BY <3>2, <3>5, <3>6 DEF LockInv, Starting
    <3>8. QED BY <2>1, <3>5, <3>7 DEF LockInv
  <2>4. QED BY <2>2, <2>3
<1>12. ASSUME NEW x, ChangeRepository(x) PROVE LockInv'
  BY <1>12, <1>1 DEF ChangeRepository
<1>13. CASE Publish
  BY <1>13, <1>1 DEF Publish
<1>14. CASE UNCHANGED vars
  BY <1>14, <1>1 DEF vars
<1> HIDE DEF Free
<1>15. ASSUME NEW c \in Callers, Proceed(c) PROVE LockInv'
  BY <1>15, <1>4, <1>6, <1>7, <1>8, <1>9, <1>10 DEF Proceed
<1>16. QED BY <1>3, <1>11, <1>12, <1>13, <1>14, <1>15 DEF Next

\* The queries of a server share one supervisor, however many they are, come
\* together, fail to start it or are dropped.
THEOREM SupervisorIsShared == Spec => []OneSupervisor
<1>1. LockInv => OneSupervisor
  <2> SUFFICES ASSUME LockInv PROVE OneSupervisor
    OBVIOUS
  <2> DEFINE starting == {c \in Callers : pc[c] = "starting"}
             all == starting \union running
  <2>1. running = {supervisor} \ {Absent} BY DEF LockInv
  <2>2. \E x : all \subseteq {x}
    <3>1. CASE starting = {} BY <3>1, <2>1
    <3>2. CASE starting # {}
      <4>1. starting \subseteq {lock[1]} /\ supervisor = Absent
        BY <3>2 DEF LockInv, Starting
      <4>2. QED BY <2>1, <4>1
    <3>3. QED BY <3>1, <3>2
  <2> HIDE DEF all
  <2>3. PICK x : all \subseteq {x} BY <2>2
  <2>4. IsFiniteSet({x}) /\ Cardinality({x}) = 1 BY FS_Singleton
  <2>5. Cardinality(all) <= 1 BY <2>3, <2>4, FS_Subset
  <2>6. QED BY <2>1, <2>5 DEF OneSupervisor, all
<1>2. QED BY <1>1, LockInit, LockStep, PTL DEF Spec

-----------------------------------------------------------------------------
(* Snapshots and answers. *)

Sliced(stage) == stage \in {"lock", "starting", "evaluate", "again", "records"}

\* What is answered is of one snapshot.
Fits(r, since, now) ==
    r.kind = "why" =>
        /\ r.of \in since .. now
        /\ r.candidates \subseteq {n.id : n \in {m \in history[r.of].nodes : m.current}}

\* A query keeps to a snapshot that was current while it ran.
AnswerInv ==
    /\ snapshot \in Nat
    /\ began \in [Callers -> Nat] /\ sliced \in [Callers -> Nat]
    /\ pc \in [Callers -> Stages]
    /\ DOMAIN result = Callers /\ result = [c \in Callers |-> result[c]]
    /\ \A c \in Callers :
          /\ began[c] <= snapshot
          /\ Sliced(pc[c]) => sliced[c] \in began[c] .. snapshot
          /\ Fits(result[c], began[c], snapshot)
          /\ pc[c] = "new" => result[c].kind # "why"

LEMMA AnswerInit == Init => AnswerInv
BY DEF Init, AnswerInv, Sliced, Fits, Stages, Pending

\* A query that returns what fits leaves the rest as it was.
LEMMA ReturnFits ==
    ASSUME AnswerInv, NEW c \in Callers, NEW r, Return(c, r), Fits(r, began[c], snapshot)
    PROVE  AnswerInv'
<1>1. /\ UNCHANGED <<view, history, snapshot, began>>
      /\ pc' = [pc EXCEPT ![c] = "done"] /\ result' = [result EXCEPT ![c] = r]
      /\ sliced' = [sliced EXCEPT ![c] = 0]
  BY DEF Return, world
<1>2. /\ pc' \in [Callers -> Stages] /\ sliced' \in [Callers -> Nat]
      /\ pc'[c] = "done" /\ \A d \in Callers \ {c} : pc'[d] = pc[d] /\ sliced'[d] = sliced[d]
  BY <1>1 DEF AnswerInv, Stages
<1>3. /\ DOMAIN result' = Callers /\ result' = [d \in Callers |-> result'[d]]
      /\ result'[c] = r /\ \A d \in Callers \ {c} : result'[d] = result[d]
  BY <1>1 DEF AnswerInv
<1>4. ASSUME NEW d \in Callers
      PROVE  /\ began'[d] <= snapshot'
             /\ Sliced(pc'[d]) => sliced'[d] \in began'[d] .. snapshot'
             /\ Fits(result[d], began[d], snapshot)'
             /\ pc'[d] = "new" => result'[d].kind # "why"
  <2>1. CASE d = c BY <1>1, <1>2, <1>3, <2>1 DEF AnswerInv, Sliced, Fits
  <2>2. CASE d # c BY <1>1, <1>2, <1>3, <2>2 DEF AnswerInv, Fits
  <2>3. QED BY <2>1, <2>2
<1>5. QED BY <1>1, <1>2, <1>3, <1>4 DEF AnswerInv

\* One that goes on keeps its snapshot.
LEMMA GoOnFits ==
    ASSUME AnswerInv, NEW c \in Callers, NEW stage \in Stages \ {"new"},
           pc' = [pc EXCEPT ![c] = stage],
           Sliced(stage) => Sliced(pc[c]), UNCHANGED <<world, began, sliced, result>>
    PROVE  AnswerInv'
<1>1. /\ pc' \in [Callers -> Stages] /\ pc'[c] = stage
      /\ \A d \in Callers \ {c} : pc'[d] = pc[d]
  BY DEF AnswerInv
<1>2. \A d \in Callers : Sliced(pc'[d]) => Sliced(pc[d])
  BY <1>1
<1>3. QED BY <1>1, <1>2 DEF AnswerInv, Fits, world

LEMMA AnswerStep == AnswerInv /\ [Next]_vars => AnswerInv'
<1> SUFFICES ASSUME AnswerInv, [Next]_vars PROVE AnswerInv'
  OBVIOUS
<1>1. ASSUME NEW x, ChangeRepository(x) PROVE AnswerInv'
  BY <1>1 DEF ChangeRepository, AnswerInv, query, Fits
<1>2. CASE Publish
  <2>1. snapshot' = snapshot + 1 /\ UNCHANGED <<history, pc, began, sliced, result>>
    BY <1>2 DEF Publish, query
  <2>2. \A c \in Callers :
            /\ began[c] <= snapshot'
            /\ began[c] .. snapshot \subseteq began[c] .. snapshot'
    BY <2>1 DEF AnswerInv
  <2>3. \A c \in Callers : Fits(result[c], began[c], snapshot)'
    BY <2>1, <2>2 DEF AnswerInv, Fits
  <2>4. \A c \in Callers : Sliced(pc'[c]) => sliced'[c] \in began'[c] .. snapshot'
    BY <2>1, <2>2 DEF AnswerInv
  <2>5. QED BY <2>1, <2>2, <2>3, <2>4 DEF AnswerInv
<1>3. ASSUME NEW c \in Callers, NEW t, Ask(c, t) PROVE AnswerInv'
  <2>1. /\ pc' = [pc EXCEPT ![c] = "resolve"] /\ began' = [began EXCEPT ![c] = snapshot]
        /\ pc[c] = "new" /\ UNCHANGED <<history, snapshot, sliced, result>>
    BY <1>3 DEF Ask, Go, world
  <2>2. /\ pc' \in [Callers -> Stages] /\ began' \in [Callers -> Nat]
        /\ pc'[c] = "resolve" /\ began'[c] = snapshot
        /\ \A d \in Callers \ {c} : pc'[d] = pc[d] /\ began'[d] = began[d]
    BY <2>1 DEF AnswerInv, Stages
  <2>3. result[c].kind # "why" => Fits(result[c], began[c], snapshot)'
    BY <2>1 DEF Fits
  <2>4. result[c].kind # "why" BY <2>1 DEF AnswerInv, Fits
  <2>5. QED BY <2>1, <2>2, <2>3, <2>4 DEF AnswerInv, Sliced, Fits
<1>4. ASSUME NEW c \in Callers, ResolveTarget(c) PROVE AnswerInv'
  BY <1>4, GoOnFits DEF ResolveTarget, Go, Sliced, Stages, world
<1>5. ASSUME NEW c \in Callers, LookForCandidates(c) \/ ResolveAgain(c) PROVE AnswerInv'
  BY <1>5, GoOnFits DEF LookForCandidates, ResolveAgain, Go, Sliced, Stages, world
<1>6. ASSUME NEW c \in Callers, UseWorker(c) \/ BeginStart(c) \/ Started(c) PROVE AnswerInv'
  BY <1>6, GoOnFits DEF UseWorker, BeginStart, Started, Go, Sliced, Stages, world, query
<1>7. ASSUME NEW c \in Callers, NEW f, Return(c, Failure(f)) PROVE AnswerInv'
  <2>1. Fits(Failure(f), began[c], snapshot) BY DEF Fits, Failure
  <2>2. QED BY <1>7, <2>1, ReturnFits
<1>8. ASSUME NEW c \in Callers,
             ResolveFails(c) \/ NoSnapshot(c) \/ SliceTooLarge(c) \/ StoreFails(c)
      PROVE  AnswerInv'
  BY <1>8, <1>7 DEF ResolveFails, NoSnapshot, SliceTooLarge, StoreFails
<1>9. ASSUME NEW c \in Callers,
             StartFails(c) \/ Unavailable(c) \/ TooManyRecords(c) \/ Abandon(c)
      PROVE  AnswerInv'
  BY <1>9, <1>7 DEF StartFails, Unavailable, TooManyRecords, Abandon
<1>10. ASSUME NEW c \in Callers, LoadSlice(c) PROVE AnswerInv'
  <2>1. /\ pc' = [pc EXCEPT ![c] = "lock"] /\ sliced' = [sliced EXCEPT ![c] = snapshot]
        /\ UNCHANGED <<history, snapshot, began, result>>
    BY <1>10 DEF LoadSlice, Go, world
  <2>2. /\ pc' \in [Callers -> Stages] /\ sliced' \in [Callers -> Nat]
        /\ sliced'[c] = snapshot
        /\ \A d \in Callers \ {c} : pc'[d] = pc[d] /\ sliced'[d] = sliced[d]
    BY <2>1 DEF AnswerInv, Stages
  <2>3. snapshot \in began[c] .. snapshot BY DEF AnswerInv
  <2>4. QED BY <2>1, <2>2, <2>3 DEF AnswerInv, Fits
<1>11. ASSUME NEW c \in Callers, Answer(c) PROVE AnswerInv'
  <2>1. PICK a : pc[c] = "evaluate" /\ Return(c, Why(a, sliced[c], {}))
    BY <1>11 DEF Answer
  <2>2. Fits(Why(a, sliced[c], {}), began[c], snapshot)
    BY <2>1 DEF Fits, Why, AnswerInv, Sliced
  <2>3. QED BY <2>1, <2>2, ReturnFits
<1>12. ASSUME NEW c \in Callers, FindCandidates(c) PROVE AnswerInv'
  <2> DEFINE g == history[sliced[c]]
  <2>1. PICK found \in SUBSET Eligible(target[c], response[c], g) :
            pc[c] = "records" /\ Return(c, Why(response[c], sliced[c], found))
    BY <1>12 DEF FindCandidates
  <2>2. found \subseteq {n.id : n \in {m \in g.nodes : m.current}}
    BY <2>1 DEF Eligible
  <2>3. Fits(Why(response[c], sliced[c], found), began[c], snapshot)
    BY <2>1, <2>2 DEF Fits, Why, AnswerInv, Sliced
  <2>4. QED BY <2>1, <2>3, ReturnFits
<1>13. CASE UNCHANGED vars
  BY <1>13 DEF vars, world, query, AnswerInv, Fits
<1>14. ASSUME NEW c \in Callers, Proceed(c) PROVE AnswerInv'
  BY <1>14, <1>4, <1>5, <1>6, <1>8, <1>9, <1>10, <1>11, <1>12 DEF Proceed
<1>15. QED BY <1>1, <1>2, <1>3, <1>9, <1>13, <1>14 DEF Next

\* An answer tells of one snapshot, current at some time while the query ran, and
\* its candidates are of that snapshot too, whatever was published in between.
THEOREM AnswersAreOfOneSnapshot == Spec => []AnswersFitOneSnapshot
<1>1. AnswerInv => AnswersFitOneSnapshot
  BY DEF AnswerInv, Fits, AnswersFitOneSnapshot
<1>2. QED BY <1>1, AnswerInit, AnswerStep, PTL DEF Spec

-----------------------------------------------------------------------------
(* Requests. *)

\* Identifiers that name nothing twice.
Named(S) == IsFiniteSet(S) /\ \A m \in S : m.id \in Nat /\ \A n \in S : m.id = n.id => m = n

LEMMA NamedUnion ==
    ASSUME NEW S, NEW T, Named(S), Named(T), \A m \in S, x \in T : m.id # x.id
    PROVE  Named(S \union T)
<1>1. IsFiniteSet(S \union T) BY FS_Union DEF Named
<1>2. \A m \in S \union T : m.id \in Nat BY DEF Named
<1>3. \A m \in S, x \in S : m.id = x.id => m = x BY DEF Named
<1>4. \A m \in T, x \in T : m.id = x.id => m = x BY DEF Named
<1>5. \A m \in S \union T, x \in S \union T : m.id = x.id => m = x BY <1>3, <1>4
<1>6. QED BY <1>1, <1>2, <1>5 DEF Named

\* A list in the order of the identifiers has every item once.
LEMMA OrderedHolds ==
    ASSUME NEW S, Named(S)
    PROVE  /\ Ordered(S) \in Seq(S) /\ Len(Ordered(S)) = Cardinality(S)
           /\ Range(Ordered(S)) = S /\ ~Duplicate(Ordered(S))
<1> DEFINE s == Ordered(S)
           key == [m \in S |-> m.id]
           Rest(m) == {n \in S : n.id < m.id}
<1>1. Keyed(S, key) BY DEF Named, Keyed
<1>2. \A m \in S : Below(S, key, m) = Rest(m) BY DEF Below
<1>3. s = [i \in 1 .. Cardinality(S) |-> CHOOSE m \in S : Cardinality(Rest(m)) = i - 1]
  BY DEF Ordered
<1> HIDE DEF Rest, key
<1>4. \A m \in S : Rank(S, key, m) = Cardinality(Rest(m)) BY <1>2 DEF Rank
<1>5. s = Ranked(S, key)
  <2>1. \A i \in 1 .. Cardinality(S) : (CHOOSE m \in S : Cardinality(Rest(m)) = i - 1)
                                          = CHOOSE m \in S : Rank(S, key, m) = i - 1
    BY <1>4
  <2> HIDE DEF s
  <2>2. QED BY <1>3, <2>1 DEF Ranked
<1> HIDE DEF s
<1>6. InOrderOf(key, S, s) BY <1>1, <1>5, RankedList
<1>7. \A i \in DOMAIN s : s[i] \in S BY <1>6 DEF InOrderOf
<1>8. Range(s) = S BY <1>6, <1>7 DEF Range, InOrderOf
<1>9. ~Duplicate(s)
  <2> SUFFICES ASSUME NEW i \in DOMAIN s, NEW j \in DOMAIN s, i # j, s[i].id = s[j].id
               PROVE  FALSE
    BY DEF Duplicate
  <2>1. s[i] = s[j] BY <1>7 DEF Named
  <2>2. QED BY <1>6, <2>1 DEF InOrderOf
<1>10. QED BY <1>6, <1>8, <1>9 DEF s, InOrderOf

\* What is known of a target's evidence and a snapshot.
Brings(e, g) ==
    /\ e \in TargetEvidence
    /\ e.kind = "commit" => e.commits = {e.id}
    /\ e.kind = "lines" => e.id \notin e.commits /\ e.id \notin GraphIds(g)
    /\ \A l \in e.links : l.from = e.id
    /\ \A l, m \in e.links : l.id = m.id => l = m
    /\ IsFiniteSet(e.commits) /\ IsFiniteSet(e.links)

LEMMA SliceClosed ==
    ASSUME NEW g \in Graphs, Whole(g), NEW seeds
    PROVE  LET ids == SliceIds(g, seeds)
           IN  /\ seeds \subseteq ids /\ ids \subseteq GraphIds(g) \union seeds
               /\ \A e \in g.edges : e.from \in ids => e.to \in ids
               /\ \A c \in g.conflicts : c.left \in ids <=> c.right \in ids
<1> DEFINE ids == SliceIds(g, seeds)
           closed == ClosedSets(g, seeds)
<1>1. \A id : id \in ids <=> id \in GraphIds(g) \union seeds /\ \A C \in closed : id \in C
  BY DEF SliceIds
<1>2. \A C \in closed : /\ seeds \subseteq C
                        /\ \A e \in g.edges : e.from \in C => e.to \in C
                        /\ \A c \in g.conflicts : c.left \in C <=> c.right \in C
  BY DEF ClosedSets
<1> HIDE DEF ids, closed
<1>3. \A e \in g.edges : e.to \in GraphIds(g) BY DEF Whole
<1>4. \A c \in g.conflicts : c.left \in GraphIds(g) /\ c.right \in GraphIds(g) BY DEF Whole
<1>5. seeds \subseteq ids /\ ids \subseteq GraphIds(g) \union seeds BY <1>1, <1>2
<1>6. \A e \in g.edges : e.from \in ids => e.to \in ids BY <1>1, <1>2, <1>3
<1>7. \A c \in g.conflicts : c.left \in ids <=> c.right \in ids BY <1>1, <1>2, <1>4
<1>8. QED BY <1>5, <1>6, <1>7 DEF ids

\* The slice names what it holds, and nothing leads out of it.
LEMMA SliceFacts ==
    ASSUME NEW g \in Graphs, Whole(g), NEW seeds
    PROVE  LET s == Slice(g, seeds)
               ids == SliceIds(g, seeds)
           IN  /\ s.nodes = {n \in g.nodes : n.id \in ids}
               /\ s.edges = {d \in g.edges : d.from \in ids}
               /\ s.conflicts = {c \in g.conflicts : {c.left, c.right} \subseteq ids}
               /\ GraphIds(s) = GraphIds(g) \cap ids
               /\ Named(s.nodes) /\ Named(s.edges)
               /\ \A d \in s.edges : d.from \in GraphIds(s) /\ d.to \in GraphIds(s)
<1> DEFINE s == Slice(g, seeds)
           ids == SliceIds(g, seeds)
<1>1. /\ s.nodes = {n \in g.nodes : n.id \in ids}
      /\ s.edges = {d \in g.edges : d.from \in ids}
      /\ s.conflicts = {c \in g.conflicts : {c.left, c.right} \subseteq ids}
  BY DEF Slice
<1>2. \A d \in g.edges : d.from \in ids => d.to \in ids BY SliceClosed
<1> HIDE DEF s, ids
<1>3. GraphIds(s) = GraphIds(g) \cap ids BY <1>1 DEF GraphIds
<1>4. /\ g.nodes \subseteq Nodes /\ g.edges \subseteq Edges
      /\ IsFiniteSet(g.nodes) /\ IsFiniteSet(g.edges)
  BY DEF Graphs, Whole
<1>5. Named(s.nodes)
  <2>1. s.nodes \in SUBSET g.nodes BY <1>1
  <2>2. IsFiniteSet(s.nodes) BY <1>4, <2>1, FS_Subset
  <2>3. \A m \in s.nodes : m.id \in Nat /\ \A n \in s.nodes : m.id = n.id => m = n
    BY <1>4, <2>1 DEF Whole, Nodes
  <2>4. QED BY <2>2, <2>3 DEF Named
<1>6. Named(s.edges)
  <2>1. s.edges \in SUBSET g.edges BY <1>1
  <2>2. IsFiniteSet(s.edges) BY <1>4, <2>1, FS_Subset
  <2>3. \A m \in s.edges : m.id \in Nat /\ \A n \in s.edges : m.id = n.id => m = n
    BY <1>4, <2>1 DEF Whole, Edges
  <2>4. QED BY <2>2, <2>3 DEF Named
<1>7. \A d \in s.edges : d.from \in GraphIds(s) /\ d.to \in GraphIds(s)
  BY <1>1, <1>2, <1>3 DEF Whole
<1>8. QED BY <1>1, <1>3, <1>5, <1>6, <1>7 DEF s, ids

\* What is asked about: the slice and what the target brings along.
LEMMA AttachFacts ==
    ASSUME NEW g \in Graphs, Whole(g), NEW e, Brings(e, g)
    PROVE  LET s == Slice(g, e.commits)
               a == Attach(e, s)
           IN  /\ a.nodes \subseteq Nodes /\ a.edges \subseteq Edges
               /\ a.conflicts = s.conflicts /\ a.conflicts \subseteq Conflicts
               /\ Named(a.nodes) /\ Named(a.edges)
               /\ s.nodes \subseteq a.nodes
               /\ GraphIds(a) = GraphIds(s) \union e.commits \union {e.id}
               /\ GraphIds(a) \cap GraphIds(g) = GraphIds(s)
               /\ \A d \in a.edges : d.from \in GraphIds(a) /\ d.to \in GraphIds(a)
               /\ \A d \in s.edges : d.id \in {x.id : x \in a.edges}
<1> DEFINE s == Slice(g, e.commits)
           ids == SliceIds(g, e.commits)
           a == Attach(e, s)
           new == (e.commits \union {e.id}) \ GraphIds(s)
           brought == {Attached(e, id) : id \in new}
           nodes == s.nodes \union brought
           links == {l \in e.links : l.to \in {n.id : n \in nodes}}
           edges == {d \in s.edges : \A l \in links : l.id # d.id} \union links
<1>1. /\ s.nodes = {n \in g.nodes : n.id \in ids}
      /\ s.edges = {d \in g.edges : d.from \in ids}
      /\ s.conflicts = {c \in g.conflicts : {c.left, c.right} \subseteq ids}
      /\ GraphIds(s) = GraphIds(g) \cap ids
      /\ Named(s.nodes) /\ Named(s.edges)
      /\ \A d \in s.edges : d.from \in GraphIds(s) /\ d.to \in GraphIds(s)
  BY SliceFacts
<1>2. a.nodes = nodes /\ a.edges = edges /\ a.conflicts = s.conflicts
  BY DEF Attach, Slice
<1>3. e.commits \subseteq ids BY SliceClosed
<1>4. /\ e.id \in Nat /\ e.commits \subseteq Nat /\ e.links \subseteq Edges
      /\ IsFiniteSet(e.commits) /\ IsFiniteSet(e.links) /\ e.kind \in {"commit", "lines"}
  BY DEF Brings, TargetEvidence
<1>5. \A id \in new : id \notin GraphIds(g)
  <2>1. \A id \in e.commits : id \in GraphIds(g) => id \in GraphIds(s) BY <1>1, <1>3
  <2>2. e.id \in GraphIds(g) => e.id \in e.commits BY <1>4 DEF Brings
  <2>3. QED BY <2>1, <2>2
<1>6. \A id \in new : Attached(e, id) \in Nodes /\ Attached(e, id).id = id
  BY <1>4 DEF Attached, Nodes, NodeKinds
<1>7. g.nodes \subseteq Nodes /\ g.edges \subseteq Edges /\ g.conflicts \subseteq Conflicts
  BY DEF Graphs
<1> HIDE DEF s, ids, a, new
<1>8. brought \subseteq Nodes /\ \A n \in brought : n.id \in new BY <1>6
<1>9. IsFiniteSet(brought)
  <2>1. new \in SUBSET (e.commits \union {e.id}) BY DEF new
  <2>2. IsFiniteSet(e.commits \union {e.id}) BY <1>4, FS_AddElement
  <2>3. IsFiniteSet(new) BY <2>1, <2>2, FS_Subset
  <2> DEFINE f == [id \in new |-> Attached(e, id)]
  <2>4. f \in Surjection(new, brought) BY DEF Surjection
  <2> HIDE DEF f, brought
  <2>5. QED BY <2>3, <2>4, FS_Surjection
<1>10. Named(nodes)
  <2>1. IsFiniteSet(s.nodes) BY <1>1 DEF Named
  <2>2. IsFiniteSet(nodes) BY <1>9, <2>1, FS_Union
  <2>3. \A m \in s.nodes : m.id \in GraphIds(s) BY DEF GraphIds
  <2>4. \A id \in new : id \notin GraphIds(s) BY DEF new
  <2>5. \A m, n \in brought : m.id = n.id => m = n BY <1>6
  <2>6. \A m, n \in s.nodes : m.id = n.id => m = n BY <1>1 DEF Named
  <2> HIDE DEF brought
  <2>7. \A m, n \in nodes : m.id = n.id => m = n BY <1>8, <2>3, <2>4, <2>5, <2>6
  <2>8. \A m \in nodes : m.id \in Nat BY <1>1, <1>7, <1>8 DEF Nodes
  <2>9. QED BY <2>2, <2>7, <2>8 DEF Named
<1>11. {n.id : n \in nodes} = GraphIds(s) \union e.commits \union {e.id}
  <2>1. {n.id : n \in brought} = new BY <1>6
  <2>2. {n.id : n \in nodes} = {n.id : n \in s.nodes} \union {n.id : n \in brought}
    <3> HIDE DEF brought
    <3>1. QED OBVIOUS
  <2> HIDE DEF brought, nodes
  <2>3. QED BY <2>1, <2>2 DEF GraphIds, new
<1>12. GraphIds(a) = GraphIds(s) \union e.commits \union {e.id}
  BY <1>2, <1>11 DEF GraphIds
<1>13. GraphIds(a) \cap GraphIds(g) = GraphIds(s)
  <2>1. GraphIds(s) \subseteq GraphIds(g) BY <1>1
  <2>2. \A id \in e.commits \union {e.id} : id \in GraphIds(g) => id \in GraphIds(s)
    BY <1>5 DEF new
  <2>3. QED BY <1>12, <2>1, <2>2
<1>14. Named(edges)
  <2>1. IsFiniteSet(links) BY <1>4, FS_Subset
  <2>2. IsFiniteSet({d \in s.edges : \A l \in links : l.id # d.id})
    <3>1. IsFiniteSet(s.edges) BY <1>1 DEF Named
    <3>2. QED BY <3>1, FS_Subset
  <2>3. IsFiniteSet(edges) BY <2>1, <2>2, FS_Union
  <2>4. \A l, m \in links : l.id = m.id => l = m BY DEF Brings
  <2>5. \A d, x \in s.edges : d.id = x.id => d = x BY <1>1 DEF Named
  <2>6. \A d \in s.edges : d \in Edges BY <1>1, <1>7
  <2>7. \A l \in links : l \in Edges BY <1>4
  <2> HIDE DEF links
  <2>8. \A d, x \in edges : d.id = x.id => d = x BY <2>4, <2>5
  <2>9. \A d \in edges : d.id \in Nat BY <2>6, <2>7 DEF Edges
  <2>10. QED BY <2>3, <2>8, <2>9 DEF Named
<1>15. a.nodes \subseteq Nodes /\ a.edges \subseteq Edges /\ a.conflicts \subseteq Conflicts
  BY <1>1, <1>2, <1>4, <1>7, <1>8
<1>16. \A d \in a.edges : d.from \in GraphIds(a) /\ d.to \in GraphIds(a)
  <2>1. \A l \in links : l.from \in GraphIds(a) /\ l.to \in GraphIds(a)
    BY <1>11, <1>12 DEF Brings
  <2>2. \A d \in s.edges : d.from \in GraphIds(a) /\ d.to \in GraphIds(a)
    BY <1>1, <1>12
  <2> HIDE DEF links
  <2>3. QED BY <1>2, <2>1, <2>2
<1>17. \A d \in s.edges : d.id \in {x.id : x \in a.edges}
  <2> HIDE DEF links
  <2>1. QED BY <1>2
<1>18. s.nodes \subseteq a.nodes BY <1>2
<1>19. QED
  BY <1>2, <1>10, <1>12, <1>13, <1>14, <1>15, <1>16, <1>17, <1>18 DEF s, a

\* What was put together, each record and relationship once.
Tells(r, id, a) ==
    /\ r.version = 1 /\ r.target = id /\ r.anchors = {"decision", "work_item"}
    /\ r.conflicts = a.conflicts
    /\ NodesOf(r) = a.nodes /\ EdgesOf(r) = a.edges /\ IdsOf(r) = GraphIds(a)
    /\ ~Duplicate(r.nodes) /\ ~Duplicate(r.edges)
    /\ r.nodes \in Seq(a.nodes) /\ r.edges \in Seq(a.edges)
    /\ r = [version |-> 1, target |-> id, anchors |-> {"decision", "work_item"},
            nodes |-> r.nodes, edges |-> r.edges, conflicts |-> a.conflicts]

\* The worker is told what was put together.
LEMMA RequestFacts ==
    ASSUME NEW id, NEW a, Named(a.nodes), Named(a.edges), NEW r, r = Request(id, a)
    PROVE  Tells(r, id, a)
<1>1. /\ r.version = 1 /\ r.target = id /\ r.anchors = {"decision", "work_item"}
      /\ r.nodes = Ordered(a.nodes) /\ r.edges = Ordered(a.edges) /\ r.conflicts = a.conflicts
      /\ r = [version |-> 1, target |-> id, anchors |-> {"decision", "work_item"},
              nodes |-> r.nodes, edges |-> r.edges, conflicts |-> a.conflicts]
  BY DEF Request
<1>2. /\ Ordered(a.nodes) \in Seq(a.nodes) /\ Range(Ordered(a.nodes)) = a.nodes
      /\ ~Duplicate(Ordered(a.nodes))
  BY OrderedHolds
<1>3. /\ Ordered(a.edges) \in Seq(a.edges) /\ Range(Ordered(a.edges)) = a.edges
      /\ ~Duplicate(Ordered(a.edges))
  BY OrderedHolds
<1>4. NodesOf(r) = a.nodes /\ EdgesOf(r) = a.edges BY <1>1, <1>2, <1>3 DEF NodesOf, EdgesOf
<1>5. IdsOf(r) = GraphIds(a) BY <1>4 DEF IdsOf, GraphIds
<1>6. QED BY <1>1, <1>2, <1>3, <1>4, <1>5 DEF Tells

\* Two requests that are judged alike.
SameAnswer(r, w) ==
    LET R == Reachable(r)
    IN  /\ R = Reachable(w)
        /\ MaterialConflicts(r, R) = MaterialConflicts(w, R)
        /\ WarrantedVerdict(r) = WarrantedVerdict(w)

\* Two requests of which one holds all that is near the target: nothing that it
\* lacks decides, unless it supersedes a record that it has.
LEMMA NearSuffices ==
    ASSUME NEW r, NEW w,
           NodesOf(r) \subseteq NodesOf(w), \A m, n \in NodesOf(w) : m.id = n.id => m = n,
           \A n \in NodesOf(w) : n.id \in IdsOf(r) => n \in NodesOf(r),
           EdgesOf(r) \subseteq EdgesOf(w),
           \A d \in EdgesOf(w) : d.from \in IdsOf(r) => d \in EdgesOf(r),
           \A d \in EdgesOf(r) : d.from \in IdsOf(r) /\ d.to \in IdsOf(r),
           r.target = w.target, r.target \in IdsOf(r), r.anchors = w.anchors,
           r.conflicts \subseteq w.conflicts,
           \A c \in w.conflicts : c.left \in IdsOf(r) /\ c.right \in IdsOf(r) => c \in r.conflicts,
           Superseded(w) \cap IdsOf(r) = Superseded(r)
    PROVE  SameAnswer(r, w)
<1> DEFINE I == IdsOf(r)
           R == Reachable(r)
<1>1. I \subseteq IdsOf(w) BY DEF IdsOf
<1>2. \A id \in I : NodeAt(w, id) = NodeAt(r, id)
  <2> SUFFICES ASSUME NEW id \in I PROVE NodeAt(w, id) = NodeAt(r, id)
    OBVIOUS
  <2>1. PICK n \in NodesOf(r) : n.id = id BY DEF IdsOf
  <2>2. NodeAt(r, id) \in NodesOf(r) /\ NodeAt(r, id).id = id BY <2>1 DEF NodeAt
  <2>3. NodeAt(w, id) \in NodesOf(w) /\ NodeAt(w, id).id = id BY <2>1 DEF NodeAt
  <2>4. QED BY <2>2, <2>3
<1>3. \A id \in I : id \in Active(r) <=> id \in Active(w)
  BY <1>1, <1>2 DEF Active
<1>4. Active(r) \subseteq I BY DEF Active
<1>5. \A d : d \in ActiveEdges(r) <=> d \in ActiveEdges(w) /\ d.from \in I
  <2>1. \A d \in EdgesOf(r) : d.from \in I /\ d.to \in I /\ d \in EdgesOf(w) OBVIOUS
  <2>2. \A d \in EdgesOf(w) : d.from \in I => d \in EdgesOf(r) OBVIOUS
  <2> HIDE DEF I
  <2>3. QED BY <1>3, <2>1, <2>2 DEF ActiveEdges
<1>6. \A d \in ActiveEdges(r) : d.to \in I BY DEF ActiveEdges
<1> HIDE DEF I
<1>7. I \in Closed(r) BY <1>6 DEF Closed, I
<1>8. \A C \in Closed(r) : C \subseteq I BY DEF Closed, I
<1>9. \A C \in Closed(r) : C \in Closed(w)
  <2> SUFFICES ASSUME NEW C \in Closed(r) PROVE C \in Closed(w)
    OBVIOUS
  <2>1. C \subseteq I /\ r.target \in C /\ \A d \in ActiveEdges(r) : d.from \in C => d.to \in C
    BY <1>8 DEF Closed
  <2>2. \A d \in ActiveEdges(w) : d.from \in C => d.to \in C BY <1>5, <2>1
  <2>3. QED BY <1>1, <2>1, <2>2 DEF Closed
<1>10. \A C \in Closed(w) : C \cap I \in Closed(r)
  <2> SUFFICES ASSUME NEW C \in Closed(w) PROVE C \cap I \in Closed(r)
    OBVIOUS
  <2>1. r.target \in C /\ \A d \in ActiveEdges(w) : d.from \in C => d.to \in C
    BY DEF Closed
  <2>2. \A d \in ActiveEdges(r) : d.from \in C \cap I => d.to \in C \cap I BY <1>5, <1>6, <2>1
  <2>3. QED BY <2>1, <2>2 DEF Closed, I
<1>11. \A id : id \in R <=> id \in I /\ \A C \in Closed(r) : id \in C
  BY DEF Reachable, I
<1>12. \A id : id \in Reachable(w) <=> id \in IdsOf(w) /\ \A C \in Closed(w) : id \in C
  BY DEF Reachable
<1> HIDE DEF R
<1>13. R = Reachable(w)
  <2>1. \A id \in R : id \in Reachable(w) BY <1>1, <1>10, <1>11, <1>12
  <2>2. \A id \in Reachable(w) : id \in R BY <1>7, <1>9, <1>11, <1>12
  <2>3. QED BY <2>1, <2>2
<1>14. R \subseteq I BY <1>11
<1>15. R \cap Active(r) = R \cap Active(w) BY <1>3, <1>14
<1>16. ASSUME NEW c, c.left \in R \cap Active(r), c.right \in R \cap Active(r)
       PROVE  c \in StructuredConflicts(r) <=> c \in StructuredConflicts(w)
  <2> DEFINE D(x) == {n \in NodesOf(x) : /\ n.id \in Active(x) /\ n.kind = "decision"
                                         /\ n.subject # 0 /\ n.outcome # 0}
             Made(m, n) == [left |-> m.id, right |-> n.id, rule |-> "subject_outcome"]
             Differ(m, n) == m.id < n.id /\ m.subject = n.subject /\ m.outcome # n.outcome
  <2>1. \A x : c \in StructuredConflicts(x) <=>
                  \E m, n \in D(x) : Differ(m, n) /\ c = Made(m, n)
    <3> SUFFICES ASSUME NEW x
                 PROVE  c \in StructuredConflicts(x) <=>
                            \E m, n \in D(x) : Differ(m, n) /\ c = Made(m, n)
      OBVIOUS
    <3> DEFINE pairs == {d \in D(x) \X D(x) : Differ(d[1], d[2])}
    <3>1. StructuredConflicts(x) = {Made(d[1], d[2]) : d \in pairs} BY DEF StructuredConflicts
    <3> HIDE DEF D, Made, Differ
    <3>2. c \in StructuredConflicts(x) <=> \E d \in pairs : c = Made(d[1], d[2]) BY <3>1
    <3>3. ASSUME NEW m \in D(x), NEW n \in D(x), Differ(m, n), c = Made(m, n)
          PROVE  \E d \in pairs : c = Made(d[1], d[2])
      <4>1. <<m, n>>[1] = m /\ <<m, n>>[2] = n /\ <<m, n>> \in D(x) \X D(x) OBVIOUS
      <4>2. <<m, n>> \in pairs BY <3>3, <4>1
      <4>3. c = Made(<<m, n>>[1], <<m, n>>[2]) BY <3>3, <4>1
      <4>4. QED BY <4>2, <4>3
    <3>4. ASSUME NEW d \in pairs, c = Made(d[1], d[2])
          PROVE  \E m, n \in D(x) : Differ(m, n) /\ c = Made(m, n)
      <4>1. d[1] \in D(x) /\ d[2] \in D(x) /\ Differ(d[1], d[2]) OBVIOUS
      <4>2. QED BY <3>4, <4>1
    <3>5. QED BY <3>2, <3>3, <3>4
  <2>2. \A m, n : Made(m, n).left = m.id /\ Made(m, n).right = n.id OBVIOUS
  <2>3. \A n : n.id \in R => (n \in D(r) <=> n \in D(w)) BY <1>3, <1>14 DEF I
  <2> HIDE DEF D, Made, Differ
  <2>4. QED BY <1>16, <2>1, <2>2, <2>3
<1>17. MaterialConflicts(r, R) = MaterialConflicts(w, R)
  <2>1. \A x, c : c \in MaterialConflicts(x, R) <=>
                     /\ c \in x.conflicts \/ c \in StructuredConflicts(x)
                     /\ c.left \in R \cap Active(x) /\ c.right \in R \cap Active(x)
    BY DEF MaterialConflicts
  <2>2. \A c : c.left \in R /\ c.right \in R => (c \in r.conflicts <=> c \in w.conflicts)
    BY <1>14 DEF I
  <2>3. \A c : c \in MaterialConflicts(r, R) <=> c \in MaterialConflicts(w, R)
    BY <1>15, <1>16, <2>1, <2>2
  <2>4. QED BY <2>3
<1>18. \A id \in R : IsAnchor(r, id) <=> IsAnchor(w, id) BY <1>2, <1>14 DEF IsAnchor
<1>19. WarrantedVerdict(r) = WarrantedVerdict(w)
  <2>1. (\E id \in R \cap Active(r) : IsAnchor(r, id))
           <=> \E id \in R \cap Active(w) : IsAnchor(w, id)
    BY <1>15, <1>18
  <2>2. \A x : Reachable(x) = R => WarrantedVerdict(x) =
           IF MaterialConflicts(x, R) # {} THEN "conflicted"
           ELSE IF \E id \in R \cap Active(x) : IsAnchor(x, id) THEN "established"
           ELSE IF R # {x.target} THEN "partial"
           ELSE "not_established"
    BY DEF WarrantedVerdict
  <2>3. Reachable(r) = R /\ Reachable(w) = R BY <1>13 DEF R
  <2>4. QED BY <1>17, <2>1, <2>2, <2>3
<1>20. QED BY <1>13, <1>17, <1>19 DEF R, SameAnswer

-----------------------------------------------------------------------------
(* Where a query stands. *)

Evidences == {Resolve[v][t] : v \in Views, t \in Targets} \ {Absent}

AtWorker(p) == p \in {"lock", "starting", "evaluate"}

\* What the worker is asked was put together of a slice within its limits.
Made(h, e, i, q) ==
    LET s == Slice(h[i], e.commits)
    IN  WithinLimits(e.commits, s) /\ q = Request(e.id, Attach(e, s))

\* The values that belong to one query, over a history of which n are published.
Stands(h, n, p, a, b, e, i, q, x, res) ==
    /\ p \in Stages /\ a \in Targets \union {Absent} /\ b \in 0 .. n /\ i \in 0 .. n
    /\ e \in Evidences \union {Absent} /\ q \in Requests \union {Absent}
    /\ x \in Proofs \union {Pending} /\ res \in Results
    /\ p \notin {"new", "done"} => a \in Targets
    /\ p \notin {"new", "resolve", "done"} => e \in Evidences
    /\ Sliced(p) => i \in 1 .. n
    /\ AtWorker(p) => Made(h, e, i, q)
    /\ p \in {"again", "records"} => x \in Proofs

PerCaller(f) == f = [c \in Callers |-> f[c]]

RequestInv ==
    /\ view \in Views /\ history \in Histories /\ snapshot \in 0 .. Len(history)
    /\ PerCaller(pc) /\ PerCaller(asked) /\ PerCaller(began) /\ PerCaller(target)
    /\ PerCaller(sliced) /\ PerCaller(request) /\ PerCaller(response) /\ PerCaller(result)
    /\ \A c \in Callers :
          Stands(history, snapshot, pc[c], asked[c], began[c], target[c], sliced[c],
                 request[c], response[c], result[c])

LEMMA PublishedIsWhole ==
    ASSUME NEW h \in Histories, NEW n \in 0 .. Len(h), NEW i \in 1 .. n
    PROVE  /\ i \in DOMAIN h /\ h[i] \in Graphs /\ Whole(h[i])
           /\ \A e \in Evidences : Brings(e, h[i])
<1>1. h \in Seq(Graphs) BY QueryAssumption
<1>2. DOMAIN h = 1 .. Len(h) /\ Len(h) \in Nat BY <1>1, LenProperties
<1>3. i \in DOMAIN h /\ i \in 1 .. Len(h) BY <1>2
<1>4. h[i] \in Graphs BY <1>1, <1>3, ElementOfSeq
<1>5. Whole(h[i]) BY <1>3, QueryAssumption
<1>6. ASSUME NEW e \in Evidences PROVE Brings(e, h[i])
  <2>1. PICK v \in Views, t \in Targets : e = Resolve[v][t] /\ e # Absent BY DEF Evidences
  <2>2. e \in TargetEvidence BY <2>1, QueryAssumption
  <2>3. /\ e.kind = "commit" => e.commits = {e.id}
        /\ e.kind = "lines" => e.id \notin e.commits /\ e.id \notin GraphIds(h[i])
        /\ \A l \in e.links : l.from = e.id
        /\ \A l, m \in e.links : l.id = m.id => l = m
        /\ IsFiniteSet(e.commits) /\ IsFiniteSet(e.links)
    BY <1>3, <2>1, QueryAssumption
  <2>4. QED BY <2>2, <2>3 DEF Brings
<1>7. QED BY <1>3, <1>4, <1>5, <1>6

LEMMA MadeTypes ==
    ASSUME NEW h \in Histories, NEW n \in 0 .. Len(h), NEW i \in 1 .. n, NEW e \in Evidences,
           NEW q, Made(h, e, i, q)
    PROVE  /\ q \in Requests
           /\ Validate(q) \in {"none", "resource_limit"}
           /\ Cardinality(GraphIds(h[i]) \cap IdsOf(q)) <= MaxSliceNodes
<1> DEFINE g == h[i]
           s == Slice(g, e.commits)
           a == Attach(e, s)
<1>1. g \in Graphs /\ Whole(g) /\ Brings(e, g) BY PublishedIsWhole
<1>2. q = Request(e.id, a) /\ WithinLimits(e.commits, s) BY DEF Made
<1>3. /\ a.nodes \subseteq Nodes /\ a.edges \subseteq Edges
      /\ a.conflicts = s.conflicts /\ a.conflicts \subseteq Conflicts
      /\ Named(a.nodes) /\ Named(a.edges)
      /\ GraphIds(a) = GraphIds(s) \union e.commits \union {e.id}
      /\ GraphIds(a) \cap GraphIds(g) = GraphIds(s)
      /\ \A d \in a.edges : d.from \in GraphIds(a) /\ d.to \in GraphIds(a)
  BY <1>1, AttachFacts
<1>4. /\ s.conflicts = {c \in g.conflicts : {c.left, c.right} \subseteq SliceIds(g, e.commits)}
      /\ GraphIds(s) = GraphIds(g) \cap SliceIds(g, e.commits)
      /\ Named(s.nodes)
  BY <1>1, SliceFacts
<1> HIDE DEF g, s, a
<1>5. Tells(q, e.id, a) BY <1>2, <1>3, RequestFacts
<1>6. q \in Requests
  <2>1. q.nodes \in Seq(Nodes) /\ q.edges \in Seq(Edges)
    <3>1. \A S, T, u : S \subseteq T /\ u \in Seq(S) => u \in Seq(T) OBVIOUS
    <3>2. QED BY <1>3, <1>5, <3>1 DEF Tells
  <2>2. e.id \in Nat BY <1>1 DEF Brings, TargetEvidence
  <2>3. QED BY <1>3, <1>5, <2>1, <2>2 DEF Requests, Tells
<1>7. Validate(q) \in {"none", "resource_limit"}
  <2>1. \A c \in q.conflicts : c.left \in IdsOf(q) /\ c.right \in IdsOf(q)
    <3>1. \A c \in g.conflicts : c.left \in GraphIds(g) /\ c.right \in GraphIds(g)
      BY <1>1 DEF Whole
    <3>2. QED BY <1>3, <1>4, <1>5, <3>1 DEF Tells
  <2>2. \A d \in EdgesOf(q) : d.from \in IdsOf(q) /\ d.to \in IdsOf(q) BY <1>3, <1>5 DEF Tells
  <2>3. ~Dangling(q) BY <2>1, <2>2 DEF Dangling
  <2>4. q.target \in IdsOf(q) BY <1>3, <1>5 DEF Tells
  <2>5. q.anchors # {} /\ q.anchors \subseteq {"decision", "work_item"} BY <1>5 DEF Tells
  <2>6. QED BY <1>5, <2>3, <2>4, <2>5 DEF Validate, Tells
<1>8. Cardinality(GraphIds(g) \cap IdsOf(q)) <= MaxSliceNodes
  <2>1. GraphIds(g) \cap IdsOf(q) = GraphIds(s) BY <1>3, <1>5 DEF Tells
  <2>2. IsFiniteSet(s.nodes) BY <1>4 DEF Named
  <2> DEFINE f == [x \in s.nodes |-> x.id]
  <2>3. f \in Surjection(s.nodes, GraphIds(s)) BY DEF Surjection, GraphIds
  <2> HIDE DEF f
  <2>4. IsFiniteSet(GraphIds(s)) /\ Cardinality(GraphIds(s)) <= Cardinality(s.nodes)
    BY <2>2, <2>3, FS_Surjection
  <2>5. Cardinality(s.nodes) <= MaxSliceNodes BY <1>2 DEF WithinLimits
  <2>6. /\ Cardinality(s.nodes) \in Nat /\ Cardinality(GraphIds(s)) \in Nat
        /\ MaxSliceNodes \in Nat
    BY <2>2, <2>4, FS_CardinalityType, QueryAssumption
  <2>7. Cardinality(GraphIds(s)) <= MaxSliceNodes BY <2>4, <2>5, <2>6
  <2>8. QED BY <2>1, <2>7
<1>9. QED BY <1>6, <1>7, <1>8 DEF g

\* A snapshot and what is asked about it.
With(g, q) ==
    [nodes |-> NodesOf(q) \union {x \in g.nodes : x.id \notin {m.id : m \in NodesOf(q)}},
     edges |-> EdgesOf(q) \union {x \in g.edges : x.id \notin {d.id : d \in EdgesOf(q)}},
     conflicts |-> g.conflicts]

\* The whole snapshot, with what the target brought along, decides no more.
LEMMA SliceSuffices ==
    ASSUME NEW h \in Histories, NEW n \in 0 .. Len(h), NEW i \in 1 .. n, NEW e \in Evidences,
           NEW q, Made(h, e, i, q), NEW all, all = With(h[i], q),
           Superseded(Request(q.target, all)) \cap IdsOf(q) = Superseded(q)
    PROVE  SameAnswer(q, Request(q.target, all))
<1> DEFINE g == h[i]
           ids == SliceIds(g, e.commits)
           s == Slice(g, e.commits)
           a == Attach(e, s)
           w == Request(q.target, all)
<1>1. g \in Graphs /\ Whole(g) /\ Brings(e, g) BY PublishedIsWhole
<1>2. q = Request(e.id, a) BY DEF Made
<1>3. /\ a.conflicts = s.conflicts /\ Named(a.nodes) /\ Named(a.edges)
      /\ GraphIds(a) = GraphIds(s) \union e.commits \union {e.id}
      /\ GraphIds(a) \cap GraphIds(g) = GraphIds(s)
      /\ \A d \in a.edges : d.from \in GraphIds(a) /\ d.to \in GraphIds(a)
      /\ \A d \in s.edges : d.id \in {x.id : x \in a.edges}
  BY <1>1, AttachFacts
<1>4. /\ s.edges = {d \in g.edges : d.from \in ids}
      /\ s.conflicts = {c \in g.conflicts : {c.left, c.right} \subseteq ids}
      /\ GraphIds(s) = GraphIds(g) \cap ids
  BY <1>1, SliceFacts
<1>5. all = [nodes |-> NodesOf(q) \union {x \in g.nodes : x.id \notin {m.id : m \in NodesOf(q)}},
             edges |-> EdgesOf(q) \union {x \in g.edges : x.id \notin {d.id : d \in EdgesOf(q)}},
             conflicts |-> g.conflicts]
  BY DEF With
<1> HIDE DEF g, ids, s, a
<1>6. Tells(q, e.id, a) BY <1>2, <1>3, RequestFacts
<1>7. /\ q.target = e.id /\ q.anchors = {"decision", "work_item"} /\ q.conflicts = a.conflicts
      /\ NodesOf(q) = a.nodes /\ EdgesOf(q) = a.edges /\ IdsOf(q) = GraphIds(a)
  BY <1>6 DEF Tells
<1> DEFINE moreNodes == {x \in g.nodes : x.id \notin {m.id : m \in a.nodes}}
           moreEdges == {x \in g.edges : x.id \notin {d.id : d \in a.edges}}
<1>8. /\ all.nodes = a.nodes \union moreNodes /\ all.edges = a.edges \union moreEdges
      /\ all.conflicts = g.conflicts
  BY <1>5, <1>7
<1>9. /\ IsFiniteSet(g.nodes) /\ IsFiniteSet(g.edges)
      /\ g.nodes \subseteq Nodes /\ g.edges \subseteq Edges
  BY <1>1 DEF Whole, Graphs
<1>10. Named(all.nodes)
  <2>1. moreNodes \in SUBSET g.nodes OBVIOUS
  <2>2. IsFiniteSet(moreNodes) BY <1>9, <2>1, FS_Subset
  <2>3. \A m, x \in moreNodes : m.id = x.id => m = x BY <1>1 DEF Whole
  <2>4. \A m \in a.nodes, x \in moreNodes : m.id # x.id OBVIOUS
  <2>5. \A m \in moreNodes : m.id \in Nat BY <1>9 DEF Nodes
  <2> HIDE DEF moreNodes
  <2>6. Named(moreNodes) BY <2>2, <2>3, <2>5 DEF Named
  <2>7. QED BY <1>3, <1>8, <2>4, <2>6, NamedUnion
<1>11. Named(all.edges)
  <2>1. moreEdges \in SUBSET g.edges OBVIOUS
  <2>2. IsFiniteSet(moreEdges) BY <1>9, <2>1, FS_Subset
  <2>3. \A m, x \in moreEdges : m.id = x.id => m = x BY <1>1 DEF Whole
  <2>4. \A m \in a.edges, x \in moreEdges : m.id # x.id OBVIOUS
  <2>5. \A m \in moreEdges : m.id \in Nat BY <1>9 DEF Edges
  <2> HIDE DEF moreEdges
  <2>6. Named(moreEdges) BY <2>2, <2>3, <2>5 DEF Named
  <2>7. QED BY <1>3, <1>8, <2>4, <2>6, NamedUnion
<1>12. Tells(w, q.target, all) BY <1>10, <1>11, RequestFacts
<1>13. /\ w.target = q.target /\ w.anchors = q.anchors /\ w.conflicts = g.conflicts
       /\ NodesOf(w) = a.nodes \union moreNodes /\ EdgesOf(w) = a.edges \union moreEdges
  BY <1>7, <1>8, <1>12 DEF Tells
<1>14. \A m, x \in NodesOf(w) : m.id = x.id => m = x BY <1>8, <1>10, <1>13 DEF Named
<1>15. \A x \in NodesOf(w) : x.id \in IdsOf(q) => x \in NodesOf(q)
  BY <1>7, <1>13 DEF GraphIds
<1>16. \A d \in EdgesOf(w) : d.from \in IdsOf(q) => d \in EdgesOf(q)
  <2> SUFFICES ASSUME NEW d \in moreEdges, d.from \in GraphIds(a) PROVE FALSE
    BY <1>7, <1>13
  <2>1. d \in g.edges /\ d.from \in GraphIds(g) BY <1>1 DEF Whole
  <2>2. d.from \in ids BY <1>3, <1>4, <2>1
  <2>3. d \in s.edges BY <1>4, <2>1, <2>2
  <2>4. QED BY <1>3, <2>3
<1>17. \A d \in EdgesOf(q) : d.from \in IdsOf(q) /\ d.to \in IdsOf(q) BY <1>3, <1>7
<1>18. q.target \in IdsOf(q) BY <1>3, <1>7
<1>19. q.conflicts \subseteq w.conflicts BY <1>3, <1>4, <1>7, <1>13
<1>20. \A c \in w.conflicts : c.left \in IdsOf(q) /\ c.right \in IdsOf(q) => c \in q.conflicts
  <2> SUFFICES ASSUME NEW c \in g.conflicts, c.left \in GraphIds(a), c.right \in GraphIds(a)
               PROVE  c \in s.conflicts
    BY <1>3, <1>7, <1>13
  <2>1. c.left \in GraphIds(g) /\ c.right \in GraphIds(g) BY <1>1 DEF Whole
  <2>2. c.left \in ids /\ c.right \in ids BY <1>3, <1>4, <2>1
  <2>3. QED BY <1>4, <2>2
<1>21. NodesOf(q) \subseteq NodesOf(w) /\ EdgesOf(q) \subseteq EdgesOf(w) BY <1>7, <1>13
<1>22. Superseded(w) \cap IdsOf(q) = Superseded(q) OBVIOUS
<1> HIDE DEF w, moreNodes, moreEdges
<1>23. SameAnswer(q, w)
  BY <1>13, <1>14, <1>15, <1>16, <1>17, <1>18, <1>19, <1>20, <1>21, <1>22, NearSuffices
<1>24. QED BY <1>23 DEF w

\* What the kernel answers to a request that fits together.
LEMMA ResponsesTyped ==
    ASSUME NEW q \in Requests, Validate(q) \in {"none", "resource_limit"},
           NEW a \in Responses(q)
    PROVE  a \in Proofs \union KernelErrors /\ (NeedsCandidates(a) => a \in Proofs)
<1> DEFINE R == Reachable(q)
           cs == MaterialConflicts(q, R)
           verdict == WarrantedVerdict(q)
<1>1. q.nodes \in Seq(Nodes) /\ q.conflicts \subseteq Conflicts BY DEF Requests
<1>2. NodesOf(q) \subseteq Nodes BY <1>1, LenProperties, ElementOfSeq DEF NodesOf, Range
<1>3. \A n \in NodesOf(q) : n.id \in Nat BY <1>2 DEF Nodes
<1>4. R \subseteq Nat BY <1>3 DEF Reachable, IdsOf
<1>5. StructuredConflicts(q) \subseteq Conflicts BY <1>3 DEF StructuredConflicts, Conflicts
<1>6. cs \in SUBSET Conflicts BY <1>1, <1>5 DEF MaterialConflicts
<1>7. verdict \in {"established", "partial", "not_established", "conflicted"}
  BY DEF WarrantedVerdict
<1> DEFINE gaps == IF verdict \in Incomplete THEN R ELSE {Absent}
<1>8. gaps \subseteq Nat \union {Absent} BY <1>4
<1>9. \/ a \in {KernelError(Validate(q)), KernelError("resource_limit")} /\ a \in KernelErrors
      \/ \E id \in gaps : a = Proof(verdict, cs, id)
  BY DEF Responses, KernelErrors
<1> HIDE DEF R, cs, verdict, gaps
<1>10. CASE a \in {KernelError(Validate(q)), KernelError("resource_limit")} /\ a \in KernelErrors
  BY <1>10 DEF NeedsCandidates, KernelError
<1>11. CASE \E id \in gaps : a = Proof(verdict, cs, id)
  BY <1>11, <1>6, <1>7, <1>8 DEF Proof, Proofs
<1>12. QED BY <1>9, <1>10, <1>11

LEMMA KeepOne ==
    ASSUME NEW f, PerCaller(f), NEW c \in Callers
    PROVE  f = [f EXCEPT ![c] = f[c]]
BY DEF PerCaller

\* One query goes to where it may stand, the others stay.
Becomes(c, p, a, b, e, i, q, x, res) ==
    /\ UNCHANGED <<history, snapshot>> /\ view' \in Views
    /\ pc' = [pc EXCEPT ![c] = p] /\ asked' = [asked EXCEPT ![c] = a]
    /\ began' = [began EXCEPT ![c] = b] /\ target' = [target EXCEPT ![c] = e]
    /\ sliced' = [sliced EXCEPT ![c] = i] /\ request' = [request EXCEPT ![c] = q]
    /\ response' = [response EXCEPT ![c] = x] /\ result' = [result EXCEPT ![c] = res]

LEMMA OneStands ==
    ASSUME RequestInv, NEW c \in Callers,
           NEW p, NEW a, NEW b, NEW e, NEW i, NEW q, NEW x, NEW res,
           Becomes(c, p, a, b, e, i, q, x, res),
           Stands(history, snapshot, p, a, b, e, i, q, x, res)
    PROVE  RequestInv'
<1>1. /\ PerCaller(pc) /\ PerCaller(asked) /\ PerCaller(began) /\ PerCaller(target)
      /\ PerCaller(sliced) /\ PerCaller(request) /\ PerCaller(response) /\ PerCaller(result)
      /\ history \in Histories /\ snapshot \in 0 .. Len(history)
  BY DEF RequestInv
<1>2. PerCaller(pc') /\ pc'[c] = p /\ \A d \in Callers \ {c} : pc'[d] = pc[d]
  <2>1. pc' = [pc EXCEPT ![c] = p] BY DEF Becomes
  <2>2. QED BY <1>1, <2>1 DEF PerCaller
<1>3. PerCaller(asked') /\ asked'[c] = a /\ \A d \in Callers \ {c} : asked'[d] = asked[d]
  <2>1. asked' = [asked EXCEPT ![c] = a] BY DEF Becomes
  <2>2. QED BY <1>1, <2>1 DEF PerCaller
<1>4. PerCaller(began') /\ began'[c] = b /\ \A d \in Callers \ {c} : began'[d] = began[d]
  <2>1. began' = [began EXCEPT ![c] = b] BY DEF Becomes
  <2>2. QED BY <1>1, <2>1 DEF PerCaller
<1>5. PerCaller(target') /\ target'[c] = e /\ \A d \in Callers \ {c} : target'[d] = target[d]
  <2>1. target' = [target EXCEPT ![c] = e] BY DEF Becomes
  <2>2. QED BY <1>1, <2>1 DEF PerCaller
<1>6. PerCaller(sliced') /\ sliced'[c] = i /\ \A d \in Callers \ {c} : sliced'[d] = sliced[d]
  <2>1. sliced' = [sliced EXCEPT ![c] = i] BY DEF Becomes
  <2>2. QED BY <1>1, <2>1 DEF PerCaller
<1>7. PerCaller(request') /\ request'[c] = q /\ \A d \in Callers \ {c} : request'[d] = request[d]
  <2>1. request' = [request EXCEPT ![c] = q] BY DEF Becomes
  <2>2. QED BY <1>1, <2>1 DEF PerCaller
<1>8. PerCaller(response') /\ response'[c] = x /\ \A d \in Callers \ {c} : response'[d] = response[d]
  <2>1. response' = [response EXCEPT ![c] = x] BY DEF Becomes
  <2>2. QED BY <1>1, <2>1 DEF PerCaller
<1>9. PerCaller(result') /\ result'[c] = res /\ \A d \in Callers \ {c} : result'[d] = result[d]
  <2>1. result' = [result EXCEPT ![c] = res] BY DEF Becomes
  <2>2. QED BY <1>1, <2>1 DEF PerCaller
<1>10. UNCHANGED <<history, snapshot>> /\ view' \in Views BY DEF Becomes
<1>11. ASSUME NEW d \in Callers
       PROVE  Stands(history', snapshot', pc'[d], asked'[d], began'[d], target'[d], sliced'[d],
                     request'[d], response'[d], result'[d])
  <2>1. CASE d = c BY <2>1, <1>2, <1>3, <1>4, <1>5, <1>6, <1>7, <1>8, <1>9, <1>10
  <2>2. CASE d # c
    <3>1. Stands(history, snapshot, pc[d], asked[d], began[d], target[d], sliced[d],
                 request[d], response[d], result[d])
      BY DEF RequestInv
    <3>2. QED BY <2>2, <3>1, <1>2, <1>3, <1>4, <1>5, <1>6, <1>7, <1>8, <1>9, <1>10
  <2>3. QED BY <2>1, <2>2
<1>12. QED BY <1>1, <1>2, <1>3, <1>4, <1>5, <1>6, <1>7, <1>8, <1>9, <1>10, <1>11 DEF RequestInv

\* A query that ends keeps only what it returned.
LEMMA ReturnStands ==
    ASSUME RequestInv, NEW c \in Callers, NEW r \in Results, Return(c, r)
    PROVE  RequestInv'
<1>1. /\ UNCHANGED <<history, snapshot>> /\ view' \in Views /\ UNCHANGED began
      /\ pc' = [pc EXCEPT ![c] = "done"] /\ asked' = [asked EXCEPT ![c] = Absent]
      /\ target' = [target EXCEPT ![c] = Absent] /\ sliced' = [sliced EXCEPT ![c] = 0]
      /\ request' = [request EXCEPT ![c] = Absent]
      /\ response' = [response EXCEPT ![c] = Pending] /\ result' = [result EXCEPT ![c] = r]
  BY DEF Return, world, RequestInv
<1>2. began' = [began EXCEPT ![c] = began[c]] BY <1>1, KeepOne DEF RequestInv
<1>3. Stands(history, snapshot, "done", Absent, began[c], Absent, 0, Absent, Pending, r)
  <2>1. snapshot \in Nat /\ began[c] \in 0 .. snapshot BY DEF RequestInv, Stands
  <2>2. 0 \in 0 .. snapshot BY <2>1
  <2>3. QED BY <2>1, <2>2 DEF Stands, Stages, Sliced, AtWorker
<1>4. Becomes(c, "done", Absent, began[c], Absent, 0, Absent, Pending, r)
  BY <1>1, <1>2 DEF Becomes
<1>5. QED BY <1>3, <1>4, OneStands

LEMMA FailureStands ==
    ASSUME RequestInv, NEW c \in Callers,
           NEW f \in {"git", "no_snapshot", "store", "unavailable", "abandoned"},
           Return(c, Failure(f))
    PROVE  RequestInv'
BY ReturnStands DEF Results

\* What has been said of a query, read off.
LEMMA StandsOf ==
    ASSUME RequestInv, NEW c \in Callers
    PROVE  /\ Stands(history, snapshot, pc[c], asked[c], began[c], target[c], sliced[c],
                     request[c], response[c], result[c])
           /\ pc = [pc EXCEPT ![c] = pc[c]] /\ asked = [asked EXCEPT ![c] = asked[c]]
           /\ began = [began EXCEPT ![c] = began[c]] /\ target = [target EXCEPT ![c] = target[c]]
           /\ sliced = [sliced EXCEPT ![c] = sliced[c]]
           /\ request = [request EXCEPT ![c] = request[c]]
           /\ response = [response EXCEPT ![c] = response[c]]
           /\ result = [result EXCEPT ![c] = result[c]]
BY KeepOne DEF RequestInv

LEMMA RequestInit == Init => RequestInv
<1> SUFFICES ASSUME Init PROVE RequestInv
  OBVIOUS
<1>1. history \in Seq(Graphs) BY QueryAssumption DEF Init
<1>2. Len(history) \in Nat BY <1>1, LenProperties
<1>3. snapshot \in 0 .. Len(history) /\ 0 \in 0 .. snapshot BY <1>2 DEF Init
<1>4. \A c \in Callers :
          Stands(history, snapshot, pc[c], asked[c], began[c], target[c], sliced[c],
                 request[c], response[c], result[c])
  BY <1>3 DEF Init, Stands, Stages, Sliced, AtWorker, Results
<1>5. QED BY <1>3, <1>4 DEF Init, RequestInv, PerCaller

LEMMA RequestStep == RequestInv /\ [Next]_vars => RequestInv'
<1> SUFFICES ASSUME RequestInv, [Next]_vars PROVE RequestInv'
  OBVIOUS
<1>1. ASSUME NEW v \in Views, ChangeRepository(v) PROVE RequestInv'
  BY <1>1 DEF ChangeRepository, RequestInv, query
<1>2. CASE Publish
  <2>1. snapshot' = snapshot + 1 /\ snapshot < Len(history) /\ UNCHANGED <<view, history, pc, query>>
    BY <1>2 DEF Publish
  <2>2. Len(history) \in Nat
    <3>1. history \in Seq(Graphs) BY QueryAssumption DEF RequestInv
    <3>2. QED BY <3>1, LenProperties
  <2>3. snapshot \in Nat /\ snapshot' \in 0 .. Len(history) BY <2>1, <2>2 DEF RequestInv
  <2>4. 0 .. snapshot \subseteq 0 .. snapshot' /\ 1 .. snapshot \subseteq 1 .. snapshot'
    BY <2>1, <2>3
  <2>5. \A p, a, b, e, i, q, x, res : Stands(history, snapshot, p, a, b, e, i, q, x, res)
                                         => Stands(history, snapshot', p, a, b, e, i, q, x, res)
    BY <2>4 DEF Stands
  <2>6. QED BY <2>1, <2>3, <2>5 DEF RequestInv, query
<1>3. ASSUME NEW c \in Callers, NEW t \in Targets, Ask(c, t) PROVE RequestInv'
  <2>1. /\ pc[c] = "new" /\ pc' = [pc EXCEPT ![c] = "resolve"] /\ asked' = [asked EXCEPT ![c] = t]
        /\ began' = [began EXCEPT ![c] = snapshot]
        /\ UNCHANGED <<view, history, snapshot, target, sliced, request, response, result>>
    BY <1>3 DEF Ask, Go, world
  <2>2. snapshot \in 0 .. snapshot /\ view \in Views
    <3>1. snapshot \in Nat BY DEF RequestInv
    <3>2. QED BY <3>1 DEF RequestInv
  <2>3. Stands(history, snapshot, "resolve", t, snapshot, target[c], sliced[c], request[c],
               response[c], result[c])
    BY <2>1, <2>2, StandsOf DEF Stands, Stages, Sliced, AtWorker
  <2>4. Becomes(c, "resolve", t, snapshot, target[c], sliced[c], request[c], response[c], result[c])
    BY <2>1, <2>2, StandsOf DEF Becomes, world
  <2>5. QED BY <2>3, <2>4, OneStands
<1>4. ASSUME NEW c \in Callers, NEW from \in {"resolve", "again"}, NEW to, Go(c, from, to),
             <<from, to>> \in {<<"resolve", "slice">>, <<"again", "records">>},
             Resolve[view][asked[c]] # Absent,
             target' = [target EXCEPT ![c] = Resolve[view][asked[c]]],
             UNCHANGED <<world, asked, began, sliced, request, response, result>>
      PROVE  RequestInv'
  <2>1. pc[c] = from /\ pc' = [pc EXCEPT ![c] = to] /\ UNCHANGED <<view, history, snapshot>>
        /\ asked[c] \in Targets /\ view \in Views
    BY <1>4, StandsOf DEF Go, world, Stands, RequestInv
  <2>2. Resolve[view][asked[c]] \in Evidences BY <1>4, <2>1 DEF Evidences
  <2>3. Stands(history, snapshot, to, asked[c], began[c], Resolve[view][asked[c]], sliced[c],
               request[c], response[c], result[c])
    BY <1>4, <2>1, <2>2, StandsOf DEF Stands, Stages, Sliced, AtWorker
  <2>4. Becomes(c, to, asked[c], began[c], Resolve[view][asked[c]], sliced[c], request[c],
              response[c], result[c])
    BY <1>4, <2>1, StandsOf DEF Becomes, world
  <2>5. QED BY <2>3, <2>4, OneStands
<1>5. ASSUME NEW c \in Callers, ResolveTarget(c) PROVE RequestInv'
  BY <1>5, <1>4 DEF ResolveTarget
<1>6. ASSUME NEW c \in Callers, ResolveAgain(c) PROVE RequestInv'
  BY <1>6, <1>4 DEF ResolveAgain
<1>7. ASSUME NEW c \in Callers, LoadSlice(c) PROVE RequestInv'
  <2> DEFINE e == target[c]
             q == Request(e.id, Attach(e, CurrentSlice(c)))
  <2>1. /\ pc[c] = "slice" /\ pc' = [pc EXCEPT ![c] = "lock"] /\ snapshot > 0
        /\ WithinLimits(e.commits, CurrentSlice(c)) /\ request' = [request EXCEPT ![c] = q]
        /\ sliced' = [sliced EXCEPT ![c] = snapshot]
        /\ UNCHANGED <<view, history, snapshot, asked, began, target, response, result>>
    BY <1>7 DEF LoadSlice, Go, world
  <2>2. /\ e \in Evidences /\ history \in Histories /\ view \in Views
        /\ snapshot \in 0 .. Len(history) /\ snapshot \in 1 .. snapshot
        /\ snapshot \in 0 .. snapshot
    <3>1. snapshot \in Nat BY DEF RequestInv
    <3>2. QED BY <2>1, <3>1, StandsOf DEF Stands, RequestInv
  <2>3. Made(history, e, snapshot, q) BY <2>1 DEF Made, CurrentSlice
  <2> HIDE DEF q, e
  <2>4. q \in Requests BY <2>2, <2>3, MadeTypes
  <2>5. Stands(history, snapshot, "lock", asked[c], began[c], e, snapshot, q, response[c], result[c])
    BY <2>1, <2>2, <2>3, <2>4, StandsOf DEF Stands, Stages, Sliced, AtWorker
  <2>6. target' = [target EXCEPT ![c] = e] BY <2>1, StandsOf DEF e
  <2>7. Becomes(c, "lock", asked[c], began[c], e, snapshot, q, response[c], result[c])
    BY <2>1, <2>2, <2>6, StandsOf DEF Becomes
  <2>8. QED BY <2>5, <2>7, OneStands
<1>8. ASSUME NEW c \in Callers, AtWorker(pc[c]), NEW to \in {"starting", "evaluate"},
             pc' = [pc EXCEPT ![c] = to], UNCHANGED <<world, query>>
      PROVE  RequestInv'
  <2>1. UNCHANGED <<view, history, snapshot, asked, began, target, sliced, request, response, result>>
        /\ view \in Views
    BY <1>8 DEF world, query, RequestInv
  <2>2. Stands(history, snapshot, to, asked[c], began[c], target[c], sliced[c], request[c],
               response[c], result[c])
    BY <1>8, StandsOf DEF Stands, Stages, Sliced, AtWorker
  <2>3. Becomes(c, to, asked[c], began[c], target[c], sliced[c], request[c], response[c],
              result[c])
    BY <1>8, <2>1, StandsOf DEF Becomes, world
  <2>4. QED BY <2>2, <2>3, OneStands
<1>9. ASSUME NEW c \in Callers, UseWorker(c) \/ BeginStart(c) \/ Started(c) PROVE RequestInv'
  BY <1>9, <1>8 DEF UseWorker, BeginStart, Started, Go, AtWorker
<1>10. ASSUME NEW c \in Callers, pc[c] = "evaluate"
       PROVE  /\ sliced[c] \in Nat
              /\ \A a \in Responses(request[c]) :
                    a \in Proofs \union KernelErrors /\ (NeedsCandidates(a) => a \in Proofs)
  <2>1. /\ history \in Histories /\ snapshot \in 0 .. Len(history) /\ sliced[c] \in 1 .. snapshot
        /\ target[c] \in Evidences /\ Made(history, target[c], sliced[c], request[c])
    BY <1>10, StandsOf DEF Stands, Sliced, AtWorker, RequestInv
  <2>2. request[c] \in Requests /\ Validate(request[c]) \in {"none", "resource_limit"}
    BY <2>1, MadeTypes
  <2>3. QED BY <2>1, <2>2, ResponsesTyped
<1>11. ASSUME NEW c \in Callers, LookForCandidates(c) PROVE RequestInv'
  <2>1. PICK a \in Responses(request[c]) :
            NeedsCandidates(a) /\ response' = [response EXCEPT ![c] = a]
    BY <1>11 DEF LookForCandidates
  <2>2. /\ pc[c] = "evaluate" /\ pc' = [pc EXCEPT ![c] = "again"]
        /\ request' = [request EXCEPT ![c] = Absent] /\ view \in Views
        /\ UNCHANGED <<view, history, snapshot, asked, began, target, sliced, result>>
    BY <1>11 DEF LookForCandidates, Go, world, RequestInv
  <2>3. a \in Proofs BY <1>10, <2>1, <2>2
  <2>4. Stands(history, snapshot, "again", asked[c], began[c], target[c], sliced[c], Absent, a,
               result[c])
    BY <2>2, <2>3, StandsOf DEF Stands, Stages, Sliced, AtWorker
  <2>5. Becomes(c, "again", asked[c], began[c], target[c], sliced[c], Absent, a, result[c])
    BY <2>1, <2>2, StandsOf DEF Becomes, world
  <2>6. QED BY <2>4, <2>5, OneStands
<1>12. ASSUME NEW c \in Callers, Answer(c) PROVE RequestInv'
  <2>1. PICK a \in Responses(request[c]) : pc[c] = "evaluate" /\ Return(c, Why(a, sliced[c], {}))
    BY <1>12 DEF Answer
  <2>2. a \in Proofs \union KernelErrors /\ sliced[c] \in Nat BY <1>10, <2>1
  <2>3. Why(a, sliced[c], {}) \in Results BY <2>2 DEF Why, Results
  <2>4. QED BY <2>1, <2>3, ReturnStands
<1>13. ASSUME NEW c \in Callers, FindCandidates(c) PROVE RequestInv'
  <2> DEFINE g == history[sliced[c]]
  <2>1. PICK found \in SUBSET Eligible(target[c], response[c], g) :
            pc[c] = "records" /\ Return(c, Why(response[c], sliced[c], found))
    BY <1>13 DEF FindCandidates
  <2>2. /\ response[c] \in Proofs /\ sliced[c] \in 1 .. snapshot
        /\ history \in Histories /\ snapshot \in 0 .. Len(history)
    BY <2>1, StandsOf DEF Stands, Sliced, RequestInv
  <2>3. g \in Graphs /\ sliced[c] \in Nat BY <2>2, PublishedIsWhole
  <2>4. \A m \in g.nodes : m.id \in Nat BY <2>3 DEF Graphs, Nodes
  <2> HIDE DEF g
  <2>5. found \in SUBSET Nat BY <2>4 DEF Eligible
  <2>6. Why(response[c], sliced[c], found) \in Results BY <2>2, <2>3, <2>5 DEF Why, Results
  <2>7. QED BY <2>1, <2>6, ReturnStands
<1>14. ASSUME NEW c \in Callers,
              ResolveFails(c) \/ NoSnapshot(c) \/ SliceTooLarge(c) \/ StoreFails(c)
       PROVE  RequestInv'
  BY <1>14, FailureStands DEF ResolveFails, NoSnapshot, SliceTooLarge, StoreFails
<1>15. ASSUME NEW c \in Callers,
              StartFails(c) \/ Unavailable(c) \/ TooManyRecords(c) \/ Abandon(c)
       PROVE  RequestInv'
  BY <1>15, FailureStands DEF StartFails, Unavailable, TooManyRecords, Abandon
<1>16. CASE UNCHANGED vars
  BY <1>16 DEF vars, world, query, RequestInv
<1>17. ASSUME NEW c \in Callers, Proceed(c) PROVE RequestInv'
  BY <1>17, <1>5, <1>6, <1>7, <1>9, <1>11, <1>12, <1>13, <1>14, <1>15 DEF Proceed
<1>18. QED BY <1>1, <1>2, <1>3, <1>15, <1>16, <1>17 DEF Next

\* Every variable keeps its type, the lock is waited for by exactly those that
\* stand before it, and a request holds no more of a snapshot than a slice may.
THEOREM TypeCorrect == Spec => []TypeOK
<1>1. RequestInv /\ LockInv => TypeOK
  <2> SUFFICES ASSUME RequestInv, LockInv PROVE TypeOK
    OBVIOUS
  <2>1. \A c \in Callers : Stands(history, snapshot, pc[c], asked[c], began[c], target[c],
                                  sliced[c], request[c], response[c], result[c])
    BY DEF RequestInv
  <2>2. \A e \in Evidences : e \in TargetEvidence BY QueryAssumption DEF Evidences
  <2>3. /\ pc \in [Callers -> Stages] /\ asked \in [Callers -> Targets \union {Absent}]
        /\ began \in [Callers -> 0 .. snapshot] /\ sliced \in [Callers -> 0 .. snapshot]
        /\ target \in [Callers -> TargetEvidence \union {Absent}]
        /\ request \in [Callers -> Requests \union {Absent}]
        /\ response \in [Callers -> Proofs \union {Pending}] /\ result \in [Callers -> Results]
    <3>1. /\ pc = [c \in Callers |-> pc[c]] /\ asked = [c \in Callers |-> asked[c]]
          /\ began = [c \in Callers |-> began[c]] /\ sliced = [c \in Callers |-> sliced[c]]
          /\ target = [c \in Callers |-> target[c]] /\ request = [c \in Callers |-> request[c]]
          /\ response = [c \in Callers |-> response[c]] /\ result = [c \in Callers |-> result[c]]
      BY DEF RequestInv, PerCaller
    <3>2. \A c \in Callers : /\ pc[c] \in Stages /\ asked[c] \in Targets \union {Absent}
                             /\ began[c] \in 0 .. snapshot /\ sliced[c] \in 0 .. snapshot
                             /\ target[c] \in Evidences \union {Absent}
                             /\ request[c] \in Requests \union {Absent}
                             /\ response[c] \in Proofs \union {Pending} /\ result[c] \in Results
      BY <2>1 DEF Stands
    <3>3. \A c \in Callers : target[c] \in TargetEvidence \union {Absent} BY <2>2, <3>2
    <3>4. QED BY <3>1, <3>2, <3>3
  <2>4. lock \in Seq(Callers) /\ supervisor \in Callers \union {Absent} /\ running \subseteq Callers
    BY DEF LockInv, Queue
  <2>5. ASSUME NEW c \in Callers
        PROVE  (\E i \in DOMAIN lock : lock[i] = c) <=> pc[c] \in {"lock", "starting"}
    BY DEF LockInv, Queue, Waits
  <2>6. ASSUME NEW c \in Callers, pc[c] \in {"lock", "starting", "evaluate"}
        PROVE  /\ request[c] # Absent
               /\ Cardinality(GraphIds(history[sliced[c]]) \intersect IdsOf(request[c]))
                      <= MaxSliceNodes
    <3>1. /\ history \in Histories /\ snapshot \in 0 .. Len(history) /\ sliced[c] \in 1 .. snapshot
          /\ target[c] \in Evidences /\ Made(history, target[c], sliced[c], request[c])
      BY <2>1, <2>6 DEF Stands, Sliced, AtWorker, RequestInv
    <3>2. QED BY <3>1, MadeTypes, AbsentAssumption
  <2>7. view \in Views /\ history \in Histories /\ snapshot \in 0 .. Len(history) BY DEF RequestInv
  <2>8. QED BY <2>3, <2>4, <2>5, <2>6, <2>7 DEF TypeOK
<1>2. QED BY <1>1, RequestInit, RequestStep, LockInit, LockStep, PTL DEF Spec

\* The worker is only ever asked what it can judge.
THEOREM WorkerIsAskedWhatItCanJudge == Spec => []RequestsAreValid
<1>1. RequestInv => RequestsAreValid
  <2> SUFFICES ASSUME RequestInv, NEW c \in Callers, pc[c] \in {"lock", "starting", "evaluate"}
               PROVE  Validate(request[c]) \in {"none", "resource_limit"}
    BY DEF RequestsAreValid
  <2>1. /\ history \in Histories /\ snapshot \in 0 .. Len(history) /\ sliced[c] \in 1 .. snapshot
        /\ target[c] \in Evidences /\ Made(history, target[c], sliced[c], request[c])
    BY StandsOf DEF Stands, Sliced, AtWorker, RequestInv
  <2>2. QED BY <2>1, MadeTypes
<1>2. QED BY <1>1, RequestInit, RequestStep, PTL DEF Spec

\* To look at a slice is as good as to look at the whole snapshot, unless a record
\* of the slice is superseded by one that nothing of the slice leads to.
THEOREM SliceIsEnough == Spec => []SliceDecides
<1>1. RequestInv => SliceDecides
  <2> SUFFICES ASSUME RequestInv, NEW c \in Callers, pc[c] = "lock",
                      ~SupersededOutside(request[c], Request(request[c].target, WholeGraph(c)))
               PROVE  SameAnswer(request[c], Request(request[c].target, WholeGraph(c)))
    BY DEF SliceDecides, SameAnswer
  <2> DEFINE q == request[c]
             all == WholeGraph(c)
             i == sliced[c]
  <2>1. /\ history \in Histories /\ snapshot \in 0 .. Len(history) /\ i \in 1 .. snapshot
        /\ target[c] \in Evidences /\ Made(history, target[c], i, q)
    BY StandsOf DEF Stands, Sliced, AtWorker, RequestInv
  <2>2. all = With(history[i], q) BY DEF WholeGraph, With
  <2>3. Superseded(Request(q.target, all)) \cap IdsOf(q) = Superseded(q)
    BY DEF SupersededOutside
  <2> HIDE DEF q, all, i
  <2>4. SameAnswer(q, Request(q.target, all)) BY <2>1, <2>2, <2>3, SliceSuffices
  <2>5. QED BY <2>4 DEF q, all
<1>2. QED BY <1>1, RequestInit, RequestStep, PTL DEF Spec
=============================================================================
