--------------------------- MODULE ProofKernelProofs ---------------------------
(***************************************************************************)
(* Proofs about ProofKernel, for any requests and limits.                   *)
(*                                                                         *)
(* The argument is that of every graph search: each path in hand is a walk  *)
(* from the target over current edges, so no more than what is reachable    *)
(* is found; and each edge that leads on from a path already looked at was  *)
(* followed or leads back into it, so when the queue is empty no less is.   *)
(* That no chain at all is missed is the same argument along one chain: its  *)
(* first beginning that was not walked would extend one that was.           *)
(***************************************************************************)
EXTENDS ProofKernel, SharedLemmas, SequenceTheorems, FiniteSetTheorems, TLAPS

\* Every path is a walk from the target and enters no record twice.
Good(r, p) ==
    /\ p \in Path
    /\ Len(p.nodes) = Len(p.edges) + 1
    /\ p.nodes[1] = r.target
    /\ \A i \in 1 .. Len(p.nodes) : p.nodes[i] \in Reachable(r)
    /\ \A i, j \in 1 .. Len(p.nodes) : i # j => p.nodes[i] # p.nodes[j]
    /\ \A i \in 1 .. Len(p.edges) :
          \E e \in ActiveEdges(r) : /\ e.id = p.edges[i]
                                    /\ e.from = p.nodes[i] /\ e.to = p.nodes[i + 1]

AllPaths == paths \union Range(queue)

PathsAreGood == \A p \in AllPaths : Good(request, p)

\* What leads on from a path that was looked at was queued.
Followed ==
    \A p \in paths : \A e \in ActiveEdges(request) :
        e.from = End(p) => e.to \in Range(p.nodes) \/ Extend(p, e) \in AllPaths

\* The records of a path but its last were reached by others.
Behind ==
    \A p \in AllPaths : \A i \in 1 .. Len(p.nodes) : p.nodes[i] \in reachable \/ i = Len(p.nodes)

Ends == reachable = {End(p) : p \in paths}

AnchorsAreFound ==
    anchors = {p \in paths : End(p) \in Active(request) /\ IsAnchor(request, End(p))}

Started == phase = "traverse" => Start(request) \in AllPaths

Begun == phase = "validate" => queue = <<>> /\ paths = {} /\ anchors = {} /\ reachable = {}

Valid == phase = "traverse" => Validate(request) = "none"

IInv ==
    /\ TypeOK
    /\ PathsAreGood /\ Followed /\ Behind /\ Ends /\ AnchorsAreFound
    /\ Started /\ Begun /\ Valid
    /\ VerdictIsWarranted /\ ChainsAreCurrent /\ GapIsADeadEnd

-----------------------------------------------------------------------------
(* The evidence. *)

LEMMA RequestType ==
    ASSUME NEW r \in Requests
    PROVE  /\ r.nodes \in Seq(Nodes) /\ r.edges \in Seq(Edges)
           /\ r.conflicts \subseteq Conflicts /\ r.target \in Nat /\ r.anchors \subseteq NodeKinds
           /\ NodesOf(r) \subseteq Nodes /\ EdgesOf(r) \subseteq Edges /\ IdsOf(r) \subseteq Nat
<1>1. /\ r.nodes \in Seq(Nodes) /\ r.edges \in Seq(Edges)
      /\ r.conflicts \subseteq Conflicts /\ r.target \in Nat /\ r.anchors \subseteq NodeKinds
  BY KernelAssumption
<1>2. NodesOf(r) \subseteq Nodes
  BY <1>1 DEF NodesOf, Range
<1>3. EdgesOf(r) \subseteq Edges
  BY <1>1 DEF EdgesOf, Range
<1>4. IdsOf(r) \subseteq Nat
  BY <1>2 DEF IdsOf, Nodes
<1>5. QED BY <1>1, <1>2, <1>3, <1>4

LEMMA NodeAtType ==
    ASSUME NEW r \in Requests, NEW id \in IdsOf(r)
    PROVE  NodeAt(r, id) \in NodesOf(r) /\ NodeAt(r, id) \in Nodes /\ NodeAt(r, id).id = id
<1>1. \E n \in NodesOf(r) : n.id = id
  BY DEF IdsOf
<1>2. NodeAt(r, id) \in NodesOf(r) /\ NodeAt(r, id).id = id
  BY <1>1 DEF NodeAt
<1>3. QED BY <1>2, RequestType

LEMMA ActiveTypes ==
    ASSUME NEW r \in Requests
    PROVE  /\ Active(r) \subseteq IdsOf(r)
           /\ ActiveEdges(r) \subseteq EdgesOf(r) /\ ActiveEdges(r) \subseteq Edges
           /\ \A e \in ActiveEdges(r) : /\ e.from \in Active(r) /\ e.to \in Active(r)
                                        /\ e.current /\ e.kind # "supersedes"
                                        /\ e.id \in Nat /\ e.from \in Nat /\ e.to \in Nat
<1>1. Active(r) \subseteq IdsOf(r)
  BY DEF Active
<1>2. ActiveEdges(r) \subseteq EdgesOf(r)
  BY DEF ActiveEdges
<1>3. ActiveEdges(r) \subseteq Edges
  BY <1>2, RequestType
<1>4. \A e \in ActiveEdges(r) : e.from \in Active(r) /\ e.to \in Active(r)
                                /\ e.current /\ e.kind # "supersedes"
  BY DEF ActiveEdges
<1>5. \A e \in ActiveEdges(r) : e.id \in Nat /\ e.from \in Nat /\ e.to \in Nat
  BY <1>3 DEF Edges
<1>6. QED BY <1>1, <1>2, <1>3, <1>4, <1>5

LEMMA ConflictTypes ==
    ASSUME NEW r \in Requests, NEW ids
    PROVE  MaterialConflicts(r, ids) \subseteq Conflicts
<1>1. StructuredConflicts(r) \subseteq Conflicts
  <2> SUFFICES ASSUME NEW c \in StructuredConflicts(r) PROVE c \in Conflicts
    OBVIOUS
  <2>1. PICK m \in NodesOf(r), n \in NodesOf(r) :
           c = [left |-> m.id, right |-> n.id, rule |-> "subject_outcome"]
    BY DEF StructuredConflicts
  <2>2. m.id \in Nat /\ n.id \in Nat
    BY RequestType DEF Nodes
  <2>3. QED BY <2>1, <2>2 DEF Conflicts
<1>2. QED BY <1>1, RequestType DEF MaterialConflicts

LEMMA ReachableFacts ==
    ASSUME NEW r \in Requests
    PROVE  /\ Reachable(r) \subseteq IdsOf(r)
           /\ r.target \in IdsOf(r) => r.target \in Reachable(r)
           /\ \A e \in ActiveEdges(r) : e.from \in Reachable(r) => e.to \in Reachable(r)
<1>1. Reachable(r) \subseteq IdsOf(r)
  BY DEF Reachable
<1>2. r.target \in IdsOf(r) => r.target \in Reachable(r)
  BY DEF Reachable, Closed
<1>3. ASSUME NEW e \in ActiveEdges(r), e.from \in Reachable(r)
      PROVE  e.to \in Reachable(r)
  <2>1. e.to \in IdsOf(r)
    BY ActiveTypes
  <2>2. \A C \in Closed(r) : e.to \in C
    BY <1>3 DEF Reachable, Closed
  <2>3. QED BY <2>1, <2>2 DEF Reachable
<1>4. QED BY <1>1, <1>2, <1>3

LEMMA CandidatesFinite ==
    ASSUME NEW path, request \in Requests
    PROVE  Cardinality(Candidates(path)) \in Nat
<1> DEFINE es == request.edges
<1>1. es \in Seq(Edges)
  BY RequestType
<1>2. Len(es) \in Nat /\ DOMAIN es = 1 .. Len(es)
  BY <1>1
<1>3. es \in Surjection(1 .. Len(es), EdgesOf(request))
  <2>1. es \in [1 .. Len(es) -> EdgesOf(request)]
    BY <1>1, <1>2 DEF EdgesOf, Range
  <2>2. \A e \in EdgesOf(request) : \E i \in 1 .. Len(es) : es[i] = e
    BY <1>2 DEF EdgesOf, Range
  <2>3. QED BY <2>1, <2>2 DEF Surjection
<1>4. IsFiniteSet(1 .. Len(es))
  BY <1>2, FS_Interval
<1>5. IsFiniteSet(EdgesOf(request))
  BY <1>3, <1>4, FS_Surjection
<1>6. Candidates(path) \in SUBSET EdgesOf(request)
  BY DEF Candidates, ActiveEdges
<1>7. QED BY <1>5, <1>6, FS_Subset, FS_CardinalityType

-----------------------------------------------------------------------------
(* Paths. *)

LEMMA GoodPath ==
    ASSUME NEW r \in Requests, NEW p, Good(r, p)
    PROVE  /\ p.nodes \in Seq(Nat) /\ p.edges \in Seq(Nat)
           /\ Len(p.nodes) \in Nat /\ Len(p.edges) \in Nat /\ Len(p.nodes) >= 1
           /\ DOMAIN p.nodes = 1 .. Len(p.nodes) /\ DOMAIN p.edges = 1 .. Len(p.edges)
           /\ Range(p.nodes) = {p.nodes[i] : i \in 1 .. Len(p.nodes)}
           /\ End(p) = p.nodes[Len(p.nodes)]
           /\ End(p) \in Reachable(r) /\ End(p) \in Nat /\ End(p) \in IdsOf(r)
<1>1. p.nodes \in Seq(Nat) /\ p.edges \in Seq(Nat)
  BY DEF Good, Path
<1>2. /\ Len(p.nodes) \in Nat /\ Len(p.edges) \in Nat
      /\ DOMAIN p.nodes = 1 .. Len(p.nodes) /\ DOMAIN p.edges = 1 .. Len(p.edges)
  BY <1>1
<1>3. Len(p.nodes) >= 1
  BY <1>2 DEF Good
<1>4. Range(p.nodes) = {p.nodes[i] : i \in 1 .. Len(p.nodes)}
  BY <1>2 DEF Range
<1>5. End(p) = p.nodes[Len(p.nodes)]
  BY DEF End, Last
<1>6. End(p) \in Reachable(r)
  BY <1>2, <1>3, <1>5 DEF Good
<1>7. QED BY <1>1, <1>2, <1>3, <1>4, <1>5, <1>6, ReachableFacts, RequestType

LEMMA StartIsGood ==
    ASSUME NEW r \in Requests, r.target \in IdsOf(r)
    PROVE  Good(r, Start(r)) /\ End(Start(r)) = r.target
<1> DEFINE p == Start(r)
<1>1. p.nodes = <<r.target>> /\ p.edges = <<>> /\ p = [nodes |-> p.nodes, edges |-> p.edges]
  BY DEF Start
<1>2. r.target \in Nat /\ r.target \in Reachable(r)
  BY RequestType, ReachableFacts
<1> HIDE DEF p
<1>3. p \in Path
  <2>1. <<r.target>> \in Seq(Nat) /\ <<>> \in Seq(Nat)
    BY <1>2
  <2>2. p.nodes \in Seq(Nat) /\ p.edges \in Seq(Nat)
    BY <1>1, <2>1
  <2>3. QED BY <1>1, <2>2 DEF Path
<1>4. Len(p.nodes) = 1 /\ Len(p.edges) = 0 /\ p.nodes[1] = r.target
  BY <1>1, <1>2
<1>5. Good(r, p)
  BY <1>2, <1>3, <1>4 DEF Good
<1>6. QED BY <1>4, <1>5 DEF p, End, Last

LEMMA ExtensionIsGood ==
    ASSUME NEW r \in Requests, NEW p, Good(r, p), NEW e \in ActiveEdges(r),
           e.from = End(p), e.to \notin Range(p.nodes)
    PROVE  LET q == Extend(p, e)
           IN  /\ Good(r, q) /\ End(q) = e.to
               /\ Len(q.nodes) = Len(p.nodes) + 1 /\ Len(q.edges) = Len(p.edges) + 1
               /\ \A i \in 1 .. Len(p.nodes) : q.nodes[i] = p.nodes[i]
<1> DEFINE q == Extend(p, e)
           n == Len(p.nodes)
<1>1. /\ p.nodes \in Seq(Nat) /\ p.edges \in Seq(Nat)
      /\ n \in Nat /\ Len(p.edges) \in Nat /\ n = Len(p.edges) + 1
      /\ Range(p.nodes) = {p.nodes[i] : i \in 1 .. n}
      /\ End(p) = p.nodes[n] /\ End(p) \in Reachable(r)
  BY GoodPath DEF Good
<1>2. e.id \in Nat /\ e.to \in Nat
  BY ActiveTypes
<1>3. /\ q = [nodes |-> q.nodes, edges |-> q.edges]
      /\ q.nodes = Append(p.nodes, e.to) /\ q.edges = Append(p.edges, e.id)
  BY DEF Extend
<1> HIDE DEF q
<1>4. /\ q.nodes \in Seq(Nat) /\ Len(q.nodes) = n + 1
      /\ \A i \in 1 .. n : q.nodes[i] = p.nodes[i]
      /\ q.nodes[n + 1] = e.to
  BY <1>1, <1>2, <1>3
<1>5. /\ q.edges \in Seq(Nat) /\ Len(q.edges) = Len(p.edges) + 1
      /\ \A i \in 1 .. Len(p.edges) : q.edges[i] = p.edges[i]
      /\ q.edges[n] = e.id
  BY <1>1, <1>2, <1>3
<1> HIDE DEF n
<1>6. q \in Path
  BY <1>3, <1>4, <1>5 DEF Path
<1>7. q.nodes[1] = r.target
  BY <1>1, <1>4 DEF Good, n
<1>8. ASSUME NEW i \in 1 .. n + 1
      PROVE  q.nodes[i] \in Reachable(r)
  <2>1. CASE i \in 1 .. n
    BY <1>4, <2>1 DEF Good, n
  <2>2. CASE i = n + 1
    BY <1>1, <1>4, <2>2, ReachableFacts
  <2>3. QED BY <1>1, <1>8, <2>1, <2>2
<1>9. ASSUME NEW i \in 1 .. n + 1, NEW j \in 1 .. n + 1, i # j
      PROVE  q.nodes[i] # q.nodes[j]
  <2>1. \A k \in 1 .. n : p.nodes[k] # e.to
    BY <1>1
  <2>2. CASE i \in 1 .. n /\ j \in 1 .. n
    BY <1>4, <1>9, <2>2 DEF Good, n
  <2>3. CASE i = n + 1 /\ j \in 1 .. n
    BY <1>4, <2>1, <2>3
  <2>4. CASE j = n + 1 /\ i \in 1 .. n
    BY <1>4, <2>1, <2>4
  <2>5. QED BY <1>1, <1>9, <2>2, <2>3, <2>4
<1>10. ASSUME NEW i \in 1 .. n
       PROVE  \E f \in ActiveEdges(r) : /\ f.id = q.edges[i]
                                        /\ f.from = q.nodes[i] /\ f.to = q.nodes[i + 1]
  <2>1. CASE i \in 1 .. Len(p.edges)
    <3>1. i \in 1 .. n /\ i + 1 \in 1 .. n
      BY <1>1, <2>1
    <3>2. PICK f \in ActiveEdges(r) : /\ f.id = p.edges[i]
                                      /\ f.from = p.nodes[i] /\ f.to = p.nodes[i + 1]
      BY <2>1 DEF Good
    <3>3. QED BY <1>4, <1>5, <2>1, <3>1, <3>2
  <2>2. CASE i = n
    BY <1>1, <1>4, <1>5, <2>2
  <2>3. QED BY <1>1, <1>10, <2>1, <2>2
<1>11. Good(r, q)
  BY <1>1, <1>4, <1>5, <1>6, <1>7, <1>8, <1>9, <1>10 DEF Good
<1>12. End(q) = e.to
  BY <1>4 DEF End, Last
<1>13. QED BY <1>4, <1>5, <1>11, <1>12 DEF q, n

\* The records of a good path are active, except perhaps a target that is all of it.
LEMMA GoodPathIsChain ==
    ASSUME NEW r \in Requests, NEW p, Good(r, p), End(p) \in Active(r)
    PROVE  IsChain(r, p)
<1> DEFINE n == Len(p.nodes)
<1>1. /\ n \in Nat /\ Len(p.edges) \in Nat /\ n = Len(p.edges) + 1 /\ n >= 1
      /\ DOMAIN p.nodes = 1 .. n /\ DOMAIN p.edges = 1 .. Len(p.edges)
      /\ End(p) = p.nodes[n]
  BY GoodPath DEF Good
<1> HIDE DEF n
<1>2. ASSUME NEW i \in 1 .. n
      PROVE  p.nodes[i] \in Active(r)
  <2>1. CASE i = n
    BY <1>1, <2>1
  <2>2. CASE i \in 1 .. Len(p.edges)
    BY <2>2, ActiveTypes DEF Good
  <2>3. QED BY <1>1, <1>2, <2>1, <2>2
<1>3. \A i \in DOMAIN p.nodes :
          /\ NodeAt(r, p.nodes[i]).current
          /\ ~\E e \in EdgesOf(r) : /\ e.current /\ e.kind = "supersedes"
                                    /\ e.to = p.nodes[i] /\ NodeAt(r, e.from).current
  BY <1>1, <1>2 DEF Active, Superseded
<1>4. \A i \in DOMAIN p.edges :
          \E e \in EdgesOf(r) : /\ e.id = p.edges[i]
                                /\ e.from = p.nodes[i] /\ e.to = p.nodes[i + 1]
                                /\ e.current /\ e.kind # "supersedes"
  BY <1>1, ActiveTypes DEF Good
<1>5. QED BY <1>1, <1>3, <1>4 DEF IsChain, Good, n

-----------------------------------------------------------------------------
(* The queue. *)

LEMMA QueueSplits ==
    ASSUME NEW S, NEW s \in Seq(S), s # <<>>
    PROVE  /\ Head(s) \in S /\ Tail(s) \in Seq(S)
           /\ Range(s) = {Head(s)} \union Range(Tail(s))
<1>1. /\ Head(s) \in S /\ Tail(s) \in Seq(S) /\ Len(Tail(s)) = Len(s) - 1
      /\ \A i \in 1 .. Len(Tail(s)) : Tail(s)[i] = s[i + 1]
  BY HeadTailProperties
<1>2. Len(s) \in Nat /\ Len(s) >= 1 /\ DOMAIN s = 1 .. Len(s) /\ Head(s) = s[1]
  OBVIOUS
<1>3. DOMAIN Tail(s) = 1 .. Len(s) - 1
  BY <1>1, <1>2
<1>4. \A i \in 1 .. Len(s) : i = 1 \/ (i - 1 \in DOMAIN Tail(s) /\ Tail(s)[i - 1] = s[i])
  BY <1>1, <1>2, <1>3
<1>5. \A i \in DOMAIN Tail(s) : i + 1 \in DOMAIN s /\ Tail(s)[i] = s[i + 1]
  BY <1>1, <1>2, <1>3
<1>6. Range(s) \subseteq {Head(s)} \union Range(Tail(s))
  BY <1>2, <1>4 DEF Range
<1>7. Range(Tail(s)) \subseteq Range(s)
  BY <1>5 DEF Range
<1>8. Head(s) \in Range(s)
  BY <1>2 DEF Range
<1>9. QED BY <1>1, <1>6, <1>7, <1>8

LEMMA QueueGrows ==
    ASSUME NEW S, NEW s \in Seq(S), NEW n \in Nat, NEW t \in [1 .. n -> S]
    PROVE  /\ s \o t \in Seq(S)
           /\ Range(s \o t) = Range(s) \union Range(t)
<1>1. t \in Seq(S) /\ Len(t) = n /\ DOMAIN t = 1 .. n
  <2>1. t \in Seq(S)
    BY SeqDef
  <2>2. Len(t) \in Nat /\ DOMAIN t = 1 .. Len(t) /\ DOMAIN t = 1 .. n
    BY <2>1
  <2>3. QED BY <2>1, <2>2
<1>2. /\ s \o t \in Seq(S) /\ Len(s \o t) = Len(s) + n
      /\ \A i \in 1 .. Len(s) + n : (s \o t)[i] = IF i <= Len(s) THEN s[i] ELSE t[i - Len(s)]
  BY <1>1, ConcatProperties
<1>3. Len(s) \in Nat /\ DOMAIN s = 1 .. Len(s)
  OBVIOUS
<1> DEFINE u == s \o t
<1>4. DOMAIN u = 1 .. Len(s) + n
  BY <1>2
<1>5. \A i \in 1 .. Len(s) + n : u[i] = IF i <= Len(s) THEN s[i] ELSE t[i - Len(s)]
  BY <1>2
<1> HIDE DEF u
<1>6. \A i \in DOMAIN u : u[i] \in Range(s) \union Range(t)
  <2> SUFFICES ASSUME NEW i \in 1 .. Len(s) + n
               PROVE  u[i] \in Range(s) \union Range(t)
    BY <1>4
  <2>1. CASE i <= Len(s)
    BY <1>3, <1>5, <2>1 DEF Range
  <2>2. CASE ~(i <= Len(s))
    <3>1. i - Len(s) \in 1 .. n
      BY <1>3, <2>2
    <3>2. QED BY <1>1, <1>5, <2>2, <3>1 DEF Range
  <2>3. QED BY <2>1, <2>2
<1>7. \A i \in 1 .. Len(s) : i \in DOMAIN u /\ u[i] = s[i]
  BY <1>3, <1>4, <1>5
<1>8. \A i \in 1 .. n : i + Len(s) \in DOMAIN u /\ u[i + Len(s)] = t[i]
  BY <1>3, <1>4, <1>5
<1>9. Range(s) \subseteq Range(u) /\ Range(t) \subseteq Range(u)
  BY <1>1, <1>3, <1>7, <1>8 DEF Range
<1>10. Range(u) = Range(s) \union Range(t)
  BY <1>6, <1>9 DEF Range
<1>11. QED BY <1>2, <1>10 DEF u

\* What a visit does to the paths in hand.
LEMMA VisitPaths ==
    ASSUME IInv, NEW path \in Range(queue), Take(path), End(path) \in Active(request),
           NEW s \in [1 .. Cardinality(Candidates(path)) -> Candidates(path)],
           Lists(s, Candidates(path)),
           queue' = Tail(queue) \o [i \in DOMAIN s |-> Extend(path, s[i])]
    PROVE  /\ queue' \in Seq(Path)
           /\ AllPaths' = AllPaths \union {Extend(path, e) : e \in Candidates(path)}
<1> DEFINE C == Candidates(path)
           t == [i \in DOMAIN s |-> Extend(path, s[i])]
<1>1. request \in Requests /\ queue \in Seq(Path) /\ queue # <<>> /\ path = Head(queue)
  BY DEF IInv, TypeOK, Take
<1>2. Good(request, path)
  BY DEF IInv, PathsAreGood, AllPaths
<1>3. ASSUME NEW e \in C
      PROVE  Extend(path, e) \in Path
  <2>1. e \in ActiveEdges(request) /\ e.from = End(path) /\ e.to \notin Range(path.nodes)
    BY <1>3 DEF Candidates
  <2>2. Good(request, Extend(path, e))
    BY <1>1, <1>2, <2>1, ExtensionIsGood
  <2>3. QED BY <2>2 DEF Good
<1>4. Cardinality(C) \in Nat
  BY <1>1, CandidatesFinite
<1>5. t \in [1 .. Cardinality(C) -> Path]
  BY <1>3
<1>6. Range(t) = {Extend(path, e) : e \in C}
  <2>1. \A i \in DOMAIN s : s[i] \in C
    OBVIOUS
  <2>2. \A e \in C : \E i \in DOMAIN s : s[i] = e
    BY DEF Lists
  <2> HIDE DEF C
  <2>3. QED BY <2>1, <2>2 DEF Range
<1>7. /\ Tail(queue) \in Seq(Path)
      /\ Range(queue) = {path} \union Range(Tail(queue))
  BY <1>1, QueueSplits
<1> HIDE DEF C, t
<1>8. queue' = Tail(queue) \o t
  BY DEF t
<1>9. /\ queue' \in Seq(Path)
      /\ Range(queue') = Range(Tail(queue)) \union Range(t)
  <2> DEFINE n == Cardinality(C)
  <2>1. n \in Nat /\ t \in [1 .. n -> Path] /\ Tail(queue) \in Seq(Path)
    BY <1>4, <1>5, <1>7
  <2> DEFINE rest == Tail(queue)
  <2>2. rest \in Seq(Path)
    BY <1>7
  <2> HIDE DEF n, rest
  <2>3. rest \o t \in Seq(Path)
    BY <2>1, <2>2, QueueGrows
  <2>4. Range(rest \o t) = Range(rest) \union Range(t)
    BY <2>1, <2>2, QueueGrows
  <2>5. QED BY <1>8, <2>3, <2>4 DEF rest
<1>10. paths' = paths \union {path}
  BY DEF Take
<1>11. AllPaths' = AllPaths \union Range(t)
  BY <1>7, <1>9, <1>10 DEF AllPaths
<1>12. QED BY <1>6, <1>9, <1>11 DEF C

-----------------------------------------------------------------------------
(* The steps. *)

LEMMA FailureType ==
    ASSUME NEW code \in Codes
    PROVE  Failure(code) \in Answers /\ Failure(code) # Pending /\ Failure(code).kind # "proof"
<1>1. Failure(code) \in [kind : {"error"}, code : Codes]
  BY DEF Failure
<1>2. Failure(code).kind = "error" /\ Pending.kind = "pending"
  BY DEF Failure, Pending
<1>3. Failure(code) # Pending
  BY <1>2
<1>4. QED BY <1>1, <1>2, <1>3 DEF Answers

LEMMA RefuseKeepsIInv == IInv /\ Refuse => IInv'
<1> SUFFICES ASSUME IInv, Refuse PROVE IInv'
  OBVIOUS
<1>1. Validate(request) \in Codes
  BY DEF Refuse, Validate, Codes
<1>2. answer' = Failure(Validate(request))
  BY DEF Refuse
<1>3. answer' \in Answers /\ answer' # Pending /\ answer'.kind # "proof"
  BY <1>1, <1>2, FailureType
<1>4. TypeOK'
  BY <1>3 DEF IInv, TypeOK, Refuse
<1>5. (PathsAreGood /\ Followed /\ Behind /\ Ends /\ AnchorsAreFound /\ Started /\ Begun /\ Valid)'
  BY DEF Refuse, IInv, PathsAreGood, AllPaths, Followed, Behind, Ends, AnchorsAreFound, Started,
         Begun, Valid
<1>6. (VerdictIsWarranted /\ ChainsAreCurrent /\ GapIsADeadEnd)'
  BY <1>3 DEF VerdictIsWarranted, ChainsAreCurrent, GapIsADeadEnd, Proved
<1>7. QED BY <1>4, <1>5, <1>6 DEF IInv

LEMMA LimitKeepsIInv == IInv /\ LimitReached => IInv'
<1> SUFFICES ASSUME IInv, LimitReached PROVE IInv'
  OBVIOUS
<1>1. answer' = Failure("resource_limit")
  BY DEF LimitReached
<1>2. answer' \in Answers /\ answer' # Pending /\ answer'.kind # "proof"
  <2>1. "resource_limit" \in Codes
    BY DEF Codes
  <2>2. QED BY <1>1, <2>1, FailureType
<1>3. TypeOK'
  BY <1>2 DEF IInv, TypeOK, LimitReached
<1>4. (PathsAreGood /\ Followed /\ Behind /\ Ends /\ AnchorsAreFound /\ Started /\ Begun /\ Valid)'
  BY DEF LimitReached, IInv, PathsAreGood, AllPaths, Followed, Behind, Ends, AnchorsAreFound,
         Started, Begun, Valid
<1>5. (VerdictIsWarranted /\ ChainsAreCurrent /\ GapIsADeadEnd)'
  BY <1>2 DEF VerdictIsWarranted, ChainsAreCurrent, GapIsADeadEnd, Proved
<1>6. QED BY <1>3, <1>4, <1>5 DEF IInv

LEMMA ValidFacts ==
    ASSUME NEW r, Validate(r) = "none"
    PROVE  r.target \in IdsOf(r)
BY DEF Validate

LEMMA AcceptKeepsIInv == IInv /\ Accept => IInv'
<1> SUFFICES ASSUME IInv, Accept PROVE IInv'
  OBVIOUS
<1> DEFINE p == Start(request)
<1>1. /\ request \in Requests /\ paths = {} /\ anchors = {} /\ reachable = {}
      /\ Validate(request) = "none" /\ phase' = "traverse" /\ queue' = <<p>>
      /\ UNCHANGED <<request, explored, paths, anchors, reachable, answer>>
      /\ answer = Pending
  BY DEF IInv, TypeOK, Begun, Accept
<1>2. Good(request, p) /\ p \in Path
  BY <1>1, ValidFacts, StartIsGood DEF Good
<1>3. Len(p.nodes) = 1
  BY DEF Start
<1> HIDE DEF p
<1>4. AllPaths' = {p} /\ queue' \in Seq(Path)
  BY <1>1, <1>2 DEF AllPaths, Range
<1>5. TypeOK'
  BY <1>1, <1>4 DEF IInv, TypeOK
<1>6. (PathsAreGood /\ Followed /\ Behind /\ Ends /\ AnchorsAreFound)'
  <2>1. PathsAreGood'
    BY <1>1, <1>2, <1>4 DEF PathsAreGood
  <2>2. Behind'
    <3>1. ASSUME NEW q \in AllPaths', NEW i \in 1 .. Len(q.nodes)
          PROVE  i = Len(q.nodes)
      <4>1. Len(q.nodes) = 1
        BY <1>3, <1>4
      <4>2. QED BY <3>1, <4>1
    <3>2. QED BY <3>1 DEF Behind
  <2>3. Followed'
    BY <1>1 DEF Followed
  <2>4. Ends'
    BY <1>1 DEF Ends
  <2>5. AnchorsAreFound'
    BY <1>1 DEF AnchorsAreFound
  <2>6. QED BY <2>1, <2>2, <2>3, <2>4, <2>5
<1>7. (Started /\ Begun /\ Valid)'
  BY <1>1, <1>4 DEF Started, Begun, Valid, p
<1>8. (VerdictIsWarranted /\ ChainsAreCurrent /\ GapIsADeadEnd)'
  BY <1>1 DEF VerdictIsWarranted, ChainsAreCurrent, GapIsADeadEnd, Proved
<1>9. QED BY <1>5, <1>6, <1>7, <1>8 DEF IInv

\* Looking at a path, whatever it adds to the queue.
LEMMA TakeKeepsIInv ==
    ASSUME IInv, NEW path \in Range(queue), Take(path), NEW new,
           queue' \in Seq(Path), AllPaths' = AllPaths \union new,
           \A p \in new : /\ Good(request, p)
                         /\ \A i \in 1 .. Len(p.nodes) :
                               \/ p.nodes[i] \in Range(path.nodes)
                               \/ i = Len(p.nodes),
           \A e \in ActiveEdges(request) :
              e.from = End(path) => e.to \in Range(path.nodes) \/ Extend(path, e) \in new,
           anchors' = anchors \union
                        {p \in {path} : End(p) \in Active(request) /\ IsAnchor(request, End(p))}
    PROVE  IInv'
<1>1. /\ request \in Requests /\ queue \in Seq(Path) /\ queue # <<>> /\ path = Head(queue)
      /\ phase = "traverse" /\ explored < MaxPathStates /\ explored \in 0 .. MaxPathStates
      /\ explored' = explored + 1 /\ paths' = paths \union {path}
      /\ reachable' = reachable \union {End(path)}
      /\ UNCHANGED <<request, phase, answer>>
  BY DEF IInv, TypeOK, Take
<1>2. path \in AllPaths
  BY DEF AllPaths
<1>3. Good(request, path)
  BY <1>2 DEF IInv, PathsAreGood
<1>4. /\ End(path) = path.nodes[Len(path.nodes)] /\ End(path) \in Nat /\ path \in Path
      /\ Range(path.nodes) = {path.nodes[i] : i \in 1 .. Len(path.nodes)}
  <2>1. path \in Path
    BY <1>3 DEF Good
  <2>2. End(path) = path.nodes[Len(path.nodes)] /\ End(path) \in Nat
    BY <1>1, <1>3, GoodPath
  <2>3. Range(path.nodes) = {path.nodes[i] : i \in 1 .. Len(path.nodes)}
    <3>1. DOMAIN path.nodes = 1 .. Len(path.nodes)
      BY <1>1, <1>3, GoodPath
    <3>2. QED BY <3>1, Zenon DEF Range
  <2>4. QED BY <2>1, <2>2, <2>3
<1>5. TypeOK'
  <2>1. explored' \in 0 .. MaxPathStates
    BY <1>1, KernelAssumption
  <2>2. QED BY <1>1, <1>4, <2>1 DEF IInv, TypeOK
<1>6. PathsAreGood'
  BY <1>1 DEF IInv, PathsAreGood
<1>7. Followed'
  <2> SUFFICES ASSUME NEW p \in paths', NEW e \in ActiveEdges(request), e.from = End(p)
               PROVE  e.to \in Range(p.nodes) \/ Extend(p, e) \in AllPaths'
    BY <1>1 DEF Followed
  <2>1. CASE p \in paths
    BY <2>1 DEF IInv, Followed
  <2>2. CASE p = path
    BY <2>2
  <2>3. QED BY <1>1, <2>1, <2>2
<1>8. Behind'
  <2>1. \A n \in Range(path.nodes) : n \in reachable'
    BY <1>1, <1>2, <1>4 DEF IInv, Behind
  <2>2. \A p \in AllPaths : \A i \in 1 .. Len(p.nodes) :
           p.nodes[i] \in reachable' \/ i = Len(p.nodes)
    BY <1>1 DEF IInv, Behind
  <2>3. \A p \in new : \A i \in 1 .. Len(p.nodes) :
           p.nodes[i] \in reachable' \/ i = Len(p.nodes)
    BY <2>1
  <2>4. QED BY <2>2, <2>3 DEF Behind
<1>9. Ends'
  BY <1>1 DEF IInv, Ends
<1>10. AnchorsAreFound'
  BY <1>1 DEF IInv, AnchorsAreFound
<1>11. (Started /\ Begun /\ Valid)'
  BY <1>1 DEF IInv, Started, Begun, Valid
<1>12. (VerdictIsWarranted /\ ChainsAreCurrent /\ GapIsADeadEnd)'
  BY <1>1 DEF VerdictIsWarranted, ChainsAreCurrent, GapIsADeadEnd, Proved
<1>13. QED BY <1>5, <1>6, <1>7, <1>8, <1>9, <1>10, <1>11, <1>12 DEF IInv

LEMMA VisitKeepsIInv == IInv /\ Visit => IInv'
<1> SUFFICES ASSUME IInv, Visit PROVE IInv'
  OBVIOUS
<1>1. PICK path \in Range(queue) :
         /\ Take(path)
         /\ End(path) \in Active(request)
         /\ anchors' = IF IsAnchor(request, End(path)) THEN anchors \union {path} ELSE anchors
         /\ \E s \in [1 .. Cardinality(Candidates(path)) -> Candidates(path)] :
               /\ Lists(s, Candidates(path))
               /\ queue' = Tail(queue) \o [i \in DOMAIN s |-> Extend(path, s[i])]
  BY DEF Visit
<1> DEFINE new == {Extend(path, e) : e \in Candidates(path)}
<1>2. queue' \in Seq(Path) /\ AllPaths' = AllPaths \union new
  BY <1>1, VisitPaths
<1>3. request \in Requests
  BY DEF IInv, TypeOK
<1>4. Good(request, path)
  BY DEF IInv, PathsAreGood, AllPaths
<1>5. ASSUME NEW e \in Candidates(path)
      PROVE  LET p == Extend(path, e)
             IN  /\ Good(request, p)
                 /\ \A i \in 1 .. Len(p.nodes) :
                       p.nodes[i] \in Range(path.nodes) \/ i = Len(p.nodes)
  <2> DEFINE p == Extend(path, e)
  <2>1. e \in ActiveEdges(request) /\ e.from = End(path) /\ e.to \notin Range(path.nodes)
    BY <1>5 DEF Candidates
  <2>2. /\ Good(request, p) /\ Len(p.nodes) = Len(path.nodes) + 1
        /\ \A i \in 1 .. Len(path.nodes) : p.nodes[i] = path.nodes[i]
    BY <1>3, <1>4, <2>1, ExtensionIsGood
  <2>3. /\ Len(path.nodes) \in Nat
        /\ Range(path.nodes) = {path.nodes[i] : i \in 1 .. Len(path.nodes)}
    BY <1>3, <1>4, GoodPath
  <2> HIDE DEF p
  <2>4. \A i \in 1 .. Len(p.nodes) : p.nodes[i] \in Range(path.nodes) \/ i = Len(p.nodes)
    BY <2>2, <2>3
  <2>5. QED BY <2>2, <2>4 DEF p
<1>6. \A e \in ActiveEdges(request) :
         e.from = End(path) => e.to \in Range(path.nodes) \/ Extend(path, e) \in new
  BY DEF Candidates
<1>7. anchors' = anchors \union
                   {p \in {path} : End(p) \in Active(request) /\ IsAnchor(request, End(p))}
  BY <1>1
<1>8. \A p \in new : /\ Good(request, p)
                     /\ \A i \in 1 .. Len(p.nodes) :
                           p.nodes[i] \in Range(path.nodes) \/ i = Len(p.nodes)
  BY <1>5
<1>9. Take(path)
  BY <1>1
<1> HIDE DEF new
<1>10. QED BY <1>2, <1>6, <1>7, <1>8, <1>9, TakeKeepsIInv

LEMMA VisitInactiveKeepsIInv == IInv /\ VisitInactive => IInv'
<1> SUFFICES ASSUME IInv, VisitInactive PROVE IInv'
  OBVIOUS
<1>1. PICK path \in Range(queue) : /\ Take(path) /\ End(path) \notin Active(request)
                                  /\ queue' = Tail(queue) /\ UNCHANGED anchors
  BY DEF VisitInactive
<1>2. /\ request \in Requests /\ queue \in Seq(Path) /\ queue # <<>> /\ path = Head(queue)
      /\ paths' = paths \union {path}
  BY <1>1 DEF IInv, TypeOK, Take
<1>3. queue' \in Seq(Path) /\ Range(queue) = {path} \union Range(queue')
  BY <1>1, <1>2, QueueSplits
<1>4. AllPaths' = AllPaths \union {}
  BY <1>2, <1>3 DEF AllPaths
<1>5. \A e \in ActiveEdges(request) : e.from # End(path)
  BY <1>1, <1>2, ActiveTypes
<1>6. anchors' = anchors \union
                   {p \in {path} : End(p) \in Active(request) /\ IsAnchor(request, End(p))}
  BY <1>1
<1>7. QED BY <1>1, <1>3, <1>4, <1>5, <1>6, TakeKeepsIInv

\* When the queue is empty, what was reached is what can be reached.
LEMMA SearchIsComplete ==
    ASSUME IInv, phase = "traverse", queue = <<>>
    PROVE  /\ reachable = Reachable(request)
           /\ request.target \in reachable
           /\ AllPaths = paths
<1>1. request \in Requests
  BY DEF IInv, TypeOK
<1>2. AllPaths = paths
  BY DEF AllPaths, Range
<1>3. reachable \subseteq Reachable(request)
  BY <1>1, <1>2, GoodPath DEF IInv, Ends, PathsAreGood
<1>4. request.target \in reachable
  <2>1. Start(request) \in paths
    BY <1>2 DEF IInv, Started
  <2>2. End(Start(request)) = request.target
    BY <1>1, ValidFacts, StartIsGood DEF IInv, Valid
  <2>3. QED BY <2>1, <2>2 DEF IInv, Ends
<1>5. ASSUME NEW e \in ActiveEdges(request), e.from \in reachable
      PROVE  e.to \in reachable
  <2>1. PICK p \in paths : e.from = End(p)
    BY <1>5 DEF IInv, Ends
  <2>2. Good(request, p)
    BY <1>2, <2>1 DEF IInv, PathsAreGood
  <2>3. CASE e.to \in Range(p.nodes)
    <3> DEFINE R == Range(p.nodes)
    <3>0. R = {p.nodes[i] : i \in 1 .. Len(p.nodes)}
      BY <1>1, <2>2, GoodPath
    <3>1. PICK i \in 1 .. Len(p.nodes) : e.to = p.nodes[i]
      <4> HIDE DEF R
      <4>1. e.to \in R
        BY <2>3 DEF R
      <4>2. QED BY <3>0, <4>1
    <3>2. p.nodes[i] \in reachable \/ i = Len(p.nodes)
      BY <1>2, <2>1 DEF IInv, Behind
    <3>3. End(p) \in reachable /\ End(p) = p.nodes[Len(p.nodes)]
      BY <1>1, <2>1, <2>2, GoodPath DEF IInv, Ends
    <3>4. QED BY <3>1, <3>2, <3>3
  <2>4. CASE e.to \notin Range(p.nodes) /\ Extend(p, e) \in AllPaths
    <3>1. End(Extend(p, e)) = e.to
      BY <1>1, <2>1, <2>2, <2>4, ExtensionIsGood
    <3>2. QED BY <1>2, <2>4, <3>1 DEF IInv, Ends
  <2>5. QED BY <2>1, <2>3, <2>4 DEF IInv, Followed
<1>6. reachable \in SUBSET IdsOf(request)
  BY <1>1, <1>3, ReachableFacts
<1>7. reachable \in Closed(request)
  BY <1>4, <1>5, <1>6 DEF Closed
<1>8. Reachable(request) \subseteq reachable
  BY <1>6, <1>7 DEF Reachable
<1>9. QED BY <1>2, <1>3, <1>4, <1>8

\* Where the evidence stops, there is only the target exactly if the path is empty.
LEMMA DeepestPath ==
    ASSUME IInv, phase = "traverse", queue = <<>>,
           NEW path \in paths, \A q \in paths : NotAfter(path, q)
    PROVE  /\ path.edges = <<>> <=> reachable = {request.target}
           /\ \A e \in ActiveEdges(request) :
                 e.from = End(path) => e.to \in Range(path.nodes)
<1>1. /\ request \in Requests /\ reachable = Reachable(request)
      /\ request.target \in reachable /\ AllPaths = paths
  BY SearchIsComplete DEF IInv, TypeOK
<1>2. \A q \in paths : Good(request, q)
  BY <1>1 DEF IInv, PathsAreGood
<1>3. \A q \in paths : /\ Len(q.edges) \in Nat /\ Len(q.nodes) = Len(q.edges) + 1
                       /\ q.edges \in Seq(Nat) /\ q.nodes[1] = request.target
                       /\ End(q) = q.nodes[Len(q.nodes)]
  BY <1>1, <1>2, GoodPath DEF Good
<1>4. \A q \in paths : Len(q.edges) <= Len(path.edges)
  BY <1>3 DEF NotAfter
<1>5. ASSUME path.edges = <<>>
      PROVE  reachable = {request.target}
  <2>1. Len(path.edges) = 0
    BY <1>5
  <2>2. ASSUME NEW q \in paths
        PROVE  Len(q.nodes) = 1
    <3>1. Len(q.edges) \in Nat /\ Len(q.edges) <= 0 /\ Len(q.nodes) = Len(q.edges) + 1
      BY <1>3, <1>4, <2>1
    <3>2. Len(q.edges) = 0
      BY <3>1
    <3>3. QED BY <3>1, <3>2
  <2>3. \A q \in paths : End(q) = request.target
    BY <1>3, <2>2
  <2>4. QED BY <1>1, <2>3 DEF IInv, Ends
<1>6. ASSUME path.edges # <<>>
      PROVE  reachable # {request.target}
  <2>1. Len(path.edges) >= 1
    BY <1>3, <1>6
  <2>2. Len(path.nodes) \in Nat /\ 1 \in 1 .. Len(path.nodes) /\ 2 \in 1 .. Len(path.nodes)
    BY <1>3, <2>1
  <2>3. path.nodes[1] # path.nodes[2] /\ path.nodes[2] \in Reachable(request)
    BY <1>2, <2>2 DEF Good
  <2>4. QED BY <1>1, <1>3, <2>3
<1>7. ASSUME NEW e \in ActiveEdges(request), e.from = End(path), e.to \notin Range(path.nodes)
      PROVE  FALSE
  <2>1. Extend(path, e) \in paths
    BY <1>1, <1>7 DEF IInv, Followed
  <2>2. Len(Extend(path, e).edges) = Len(path.edges) + 1
    BY <1>1, <1>2, <1>7, ExtensionIsGood
  <2>3. QED BY <1>3, <1>4, <2>1, <2>2
<1>8. QED BY <1>5, <1>6, <1>7

LEMMA ProofFacts ==
    ASSUME NEW v, NEW ch, NEW g, NEW co
    PROVE  LET a == Proof(v, ch, g, co)
           IN  /\ a.kind = "proof" /\ a.verdict = v /\ a.chains = ch /\ a.gaps = g
               /\ a.conflicts = co /\ a # Pending
               /\ v \in Verdicts /\ ch \subseteq Path /\ co \subseteq Conflicts
                  /\ g \subseteq [node : Nat, after : NodeKinds] => a \in Answers
<1> DEFINE a == Proof(v, ch, g, co)
<1>1. a = [kind |-> "proof", verdict |-> v, chains |-> ch, gaps |-> g, conflicts |-> co]
  BY DEF Proof
<1>2. a.kind = "proof" /\ a.verdict = v /\ a.chains = ch /\ a.gaps = g /\ a.conflicts = co
  BY <1>1
<1>3. a # Pending
  <2>1. Pending.kind = "pending"
    BY DEF Pending
  <2>2. QED BY <1>2, <2>1
<1>4. ASSUME v \in Verdicts, ch \subseteq Path, co \subseteq Conflicts,
             g \subseteq [node : Nat, after : NodeKinds]
      PROVE  a \in Answers
  BY <1>1, <1>4 DEF Answers
<1>5. QED BY <1>2, <1>3, <1>4

LEMMA ConcludeKeepsIInv == IInv /\ Conclude => IInv'
<1> SUFFICES ASSUME IInv, Conclude PROVE IInv'
  OBVIOUS
<1> DEFINE conflicts == MaterialConflicts(request, reachable)
           A == {id \in Reachable(request) \intersect Active(request) : IsAnchor(request, id)}
<1>1. /\ phase = "traverse" /\ queue = <<>> /\ phase' = "done"
      /\ UNCHANGED <<request, queue, explored, paths, anchors, reachable>>
  BY DEF Conclude
<1>2. /\ request \in Requests /\ reachable = Reachable(request)
      /\ request.target \in reachable /\ AllPaths = paths
  BY <1>1, SearchIsComplete DEF IInv, TypeOK
<1>3. \A q \in paths : Good(request, q)
  BY <1>2 DEF IInv, PathsAreGood
<1>4. conflicts \subseteq Conflicts
  BY <1>2, ConflictTypes
<1>5. anchors # {} <=> A # {}
  BY <1>2 DEF IInv, AnchorsAreFound, Ends
<1>6. MaximalPaths(anchors) \subseteq anchors
  BY DEF MaximalPaths
<1>7. \A p \in anchors : IsChain(request, p) /\ IsAnchor(request, End(p)) /\ p \in Path
  BY <1>2, <1>3, GoodPathIsChain DEF IInv, AnchorsAreFound, Good
<1>8. \/ conflicts # {} /\ answer' = Conflicted(conflicts)
      \/ conflicts = {} /\ anchors # {} /\ answer' = Established(anchors)
      \/ /\ conflicts = {} /\ anchors = {}
         /\ \E path \in paths : /\ \A q \in paths : NotAfter(path, q)
                               /\ answer' = Incomplete(path)
  BY DEF Conclude
<1> DEFINE Right ==
      /\ answer' \in Answers /\ answer' # Pending
      /\ answer'.conflicts = conflicts
      /\ answer'.verdict = IF conflicts # {} THEN "conflicted"
                           ELSE IF A # {} THEN "established"
                           ELSE IF reachable # {request.target} THEN "partial"
                           ELSE "not_established"
      /\ \A p \in answer'.chains : IsChain(request, p) /\ IsAnchor(request, End(p))
      /\ \A gap \in answer'.gaps :
            \E path \in paths :
                /\ End(path) = gap.node
                /\ gap.node \in Active(request) => IsChain(request, path)
                /\ \A e \in ActiveEdges(request) :
                      e.from = gap.node => e.to \in Range(path.nodes)
<1>9. ASSUME conflicts # {}, answer' = Conflicted(conflicts)
      PROVE  Right
  <2> HIDE DEF conflicts, A
  <2>1. answer' = Proof("conflicted", {}, {}, conflicts)
    BY <1>9 DEF Conflicted
  <2>2. answer' \in Answers
    BY <1>4, <2>1, ProofFacts DEF Verdicts
  <2>3. /\ answer'.conflicts = conflicts /\ answer'.verdict = "conflicted"
        /\ answer'.chains = {} /\ answer'.gaps = {} /\ answer' # Pending
    BY <2>1, ProofFacts
  <2>4. QED BY <1>9, <2>2, <2>3
<1>10. ASSUME conflicts = {}, anchors # {}, answer' = Established(anchors)
       PROVE  Right
  <2> HIDE DEF conflicts, A
  <2>1. answer' = Proof("established", MaximalPaths(anchors), {}, {})
    BY <1>10 DEF Established
  <2>2. answer' \in Answers
    BY <1>6, <1>7, <2>1, ProofFacts DEF Verdicts
  <2>3. /\ answer'.conflicts = {} /\ answer'.verdict = "established"
        /\ answer'.chains = MaximalPaths(anchors) /\ answer'.gaps = {} /\ answer' # Pending
    BY <2>1, ProofFacts
  <2>4. QED BY <1>5, <1>6, <1>7, <1>10, <2>2, <2>3
<1>11. ASSUME conflicts = {}, anchors = {}, NEW path \in paths,
              \A q \in paths : NotAfter(path, q), answer' = Incomplete(path)
       PROVE  Right
  <2> DEFINE gap == [node |-> End(path), after |-> NodeAt(request, End(path)).kind]
             verdict == IF path.edges = <<>> THEN "not_established" ELSE "partial"
  <2>1. /\ path.edges = <<>> <=> reachable = {request.target}
        /\ \A e \in ActiveEdges(request) : e.from = End(path) => e.to \in Range(path.nodes)
    BY <1>1, <1>11, DeepestPath
  <2>2. End(path) \in Nat /\ End(path) \in IdsOf(request)
    BY <1>2, <1>3, GoodPath
  <2>3. gap \in [node : Nat, after : NodeKinds] /\ gap.node = End(path)
    BY <1>2, <2>2, NodeAtType DEF Nodes
  <2>4. End(path) \in Active(request) => IsChain(request, path)
    BY <1>2, <1>3, GoodPathIsChain
  <2>5. answer' = Proof(verdict, {}, {gap}, {})
    BY <1>11 DEF Incomplete
  <2>6. verdict = IF reachable # {request.target} THEN "partial" ELSE "not_established"
    BY <2>1
  <2>7. A = {}
    BY <1>5, <1>11
  <2>8. verdict \in Verdicts
    BY DEF Verdicts
  <2> HIDE DEF conflicts, A, gap, verdict
  <2>9. answer' \in Answers
    BY <2>3, <2>5, <2>8, ProofFacts
  <2>10. /\ answer'.conflicts = {} /\ answer'.verdict = verdict
         /\ answer'.chains = {} /\ answer'.gaps = {gap} /\ answer' # Pending
    BY <2>5, ProofFacts
  <2>11. QED BY <1>11, <2>1, <2>3, <2>4, <2>6, <2>7, <2>9, <2>10
<1>12. Right
  <2> HIDE DEF Right
  <2>1. QED BY <1>8, <1>9, <1>10, <1>11
<1>13. TypeOK'
  BY <1>1, <1>12 DEF IInv, TypeOK
<1>14. (PathsAreGood /\ Followed /\ Behind /\ Ends /\ AnchorsAreFound /\ Started /\ Begun /\ Valid)'
  BY <1>1 DEF IInv, PathsAreGood, AllPaths, Followed, Behind, Ends, AnchorsAreFound, Started,
              Begun, Valid
<1>15. VerdictIsWarranted'
  BY <1>1, <1>2, <1>12 DEF VerdictIsWarranted, WarrantedVerdict
<1>16. ChainsAreCurrent'
  BY <1>1, <1>12 DEF ChainsAreCurrent
<1>17. GapIsADeadEnd'
  BY <1>1, <1>12 DEF GapIsADeadEnd
<1>18. QED BY <1>13, <1>14, <1>15, <1>16, <1>17 DEF IInv

-----------------------------------------------------------------------------

LEMMA InvInit == Init => IInv
<1> SUFFICES ASSUME Init PROVE IInv
  OBVIOUS
<1>1. answer.kind # "proof"
  BY DEF Init, Pending
<1>2. Range(queue) = {}
  BY DEF Init, Range
<1>3. TypeOK
  BY KernelAssumption DEF Init, TypeOK, Answers
<1>4. PathsAreGood /\ Followed /\ Behind /\ Ends /\ AnchorsAreFound /\ Started /\ Begun /\ Valid
  BY <1>2 DEF Init, PathsAreGood, AllPaths, Followed, Behind, Ends, AnchorsAreFound, Started,
              Begun, Valid
<1>5. VerdictIsWarranted /\ ChainsAreCurrent /\ GapIsADeadEnd
  BY <1>1 DEF VerdictIsWarranted, ChainsAreCurrent, GapIsADeadEnd, Proved
<1>6. QED BY <1>3, <1>4, <1>5 DEF IInv

LEMMA InvNext == IInv /\ [Next]_vars => IInv'
<1> SUFFICES ASSUME IInv, [Next]_vars PROVE IInv'
  OBVIOUS
<1>1. CASE UNCHANGED vars
  BY <1>1 DEF vars, IInv, TypeOK, PathsAreGood, AllPaths, Followed, Behind, Ends,
              AnchorsAreFound, Started, Begun, Valid, VerdictIsWarranted, ChainsAreCurrent,
              GapIsADeadEnd, Proved
<1>2. CASE Next
  BY <1>2, RefuseKeepsIInv, AcceptKeepsIInv, VisitKeepsIInv, VisitInactiveKeepsIInv,
     LimitKeepsIInv, ConcludeKeepsIInv DEF Next
<1>3. QED BY <1>1, <1>2

LEMMA InvHolds == Spec => []IInv
BY InvInit, InvNext, PTL DEF Spec

\* Types, and the bound on the paths looked at (rules.ml max_path_states).
THEOREM KernelTypeCorrect == Spec => []TypeOK
<1>1. IInv => TypeOK
  BY DEF IInv
<1>2. QED BY <1>1, InvHolds, PTL

\* The verdict is what the evidence reachable from the target warrants
\* (evaluate), whatever the sizes and shapes of the request.
THEOREM VerdictsAreWarranted == Spec => []VerdictIsWarranted
<1>1. IInv => VerdictIsWarranted
  BY DEF IInv
<1>2. QED BY <1>1, InvHolds, PTL

\* No chain of a proof holds a historical or superseded record, a stale edge or
\* a circle, and each ends in an anchor (active_edges, traverse, established).
THEOREM CitedChainsAreCurrent == Spec => []ChainsAreCurrent
<1>1. IInv => ChainsAreCurrent
  BY DEF IInv
<1>2. QED BY <1>1, InvHolds, PTL

\* The gap of an incomplete proof is where the evidence stops (deepest_path).
THEOREM GapsAreDeadEnds == Spec => []GapIsADeadEnd
<1>1. IInv => GapIsADeadEnd
  BY DEF IInv
<1>2. QED BY <1>1, InvHolds, PTL

-----------------------------------------------------------------------------
(* No chain is withheld. *)

\* A path has no more edges than there were paths looked at before it.
Deep == \A p \in AllPaths : Len(p.edges) <= explored

CitedInv == Deep /\ EveryChainIsCited

LEMMA PrefixElements ==
    ASSUME NEW S, NEW s \in Seq(S), NEW t \in Seq(S)
    PROVE  IsPrefix(s, t) <=> Len(s) <= Len(t) /\ \A i \in 1 .. Len(s) : s[i] = t[i]
<1>1. /\ Len(s) \in Nat /\ Len(t) \in Nat
      /\ \A i \in 1 .. Len(s) : s[i] \in S
      /\ \A i \in 1 .. Len(t) : t[i] \in S
  OBVIOUS
<1> DEFINE u == SubSeq(s, 1, Len(s))
           v == SubSeq(t, 1, Len(s))
<1>2. CASE Len(s) <= Len(t)
  <2>1. \A i \in 1 .. Len(s) : i \in 1 .. Len(t) BY <1>1, <1>2
  <2>2. \A i \in 1 .. Len(s) : s[i] \in S /\ t[i] \in S BY <1>1, <2>1
  <2>3. /\ u \in Seq(S) /\ Len(u) = IF 1 <= Len(s) THEN Len(s) - 1 + 1 ELSE 0
        /\ \A i \in 1 .. Len(s) - 1 + 1 : u[i] = s[1 + i - 1]
    BY <1>1, <2>2, SubSeqProperties
  <2>4. /\ v \in Seq(S) /\ Len(v) = IF 1 <= Len(s) THEN Len(s) - 1 + 1 ELSE 0
        /\ \A i \in 1 .. Len(s) - 1 + 1 : v[i] = t[1 + i - 1]
    BY <1>1, <2>2, SubSeqProperties
  <2> HIDE DEF u, v
  <2>5. Len(u) = Len(s) /\ Len(v) = Len(s) BY <1>1, <2>3, <2>4
  <2>6. \A i \in 1 .. Len(s) : u[i] = s[i] /\ v[i] = t[i] BY <1>1, <2>3, <2>4
  <2>7. ASSUME \A i \in 1 .. Len(s) : s[i] = t[i] PROVE u = v
    <3>1. \A i \in 1 .. Len(u) : u[i] = v[i] BY <2>5, <2>6, <2>7
    <3>2. QED BY <2>3, <2>4, <2>5, <3>1, SeqEqual
  <2>8. ASSUME u = v, NEW i \in 1 .. Len(s) PROVE s[i] = t[i] BY <2>6, <2>8
  <2>9. QED BY <1>2, <2>7, <2>8 DEF IsPrefix, u, v
<1>3. CASE ~(Len(s) <= Len(t)) BY <1>3 DEF IsPrefix
<1>4. QED BY <1>2, <1>3

LEMMA BeginningIsTransitive ==
    ASSUME NEW p \in Path, NEW q \in Path, NEW x \in Path,
           IsBeginning(p, q), IsBeginning(q, x)
    PROVE  IsBeginning(p, x)
<1>1. ASSUME NEW s \in Seq(Nat), NEW t \in Seq(Nat), NEW u \in Seq(Nat),
             IsPrefix(s, t), IsPrefix(t, u)
      PROVE  IsPrefix(s, u)
  <2>1. /\ Len(s) \in Nat /\ Len(t) \in Nat /\ Len(u) \in Nat
        /\ Len(s) <= Len(t) /\ \A i \in 1 .. Len(s) : s[i] = t[i]
        /\ Len(t) <= Len(u) /\ \A i \in 1 .. Len(t) : t[i] = u[i]
    BY <1>1, PrefixElements
  <2>2. Len(s) <= Len(u) /\ \A i \in 1 .. Len(s) : i \in 1 .. Len(t) BY <2>1
  <2>3. \A i \in 1 .. Len(s) : s[i] = u[i] BY <2>1, <2>2
  <2>4. QED BY <2>2, <2>3, PrefixElements
<1>2. QED BY <1>1 DEF IsBeginning, Path

\* Every path of S is the beginning of a longest one, and so of a maximal one.
LEMMA MaximalPathsCover ==
    ASSUME NEW S \in SUBSET Path, NEW bound \in Nat, \A p \in S : Len(p.edges) <= bound,
           NEW path \in S
    PROVE  \E q \in MaximalPaths(S) : IsBeginning(path, q)
<1> DEFINE Q == {q \in S : IsBeginning(path, q)}
           lengths == {Len(q.edges) + 1 : q \in Q}
<1>1. \A q \in S : Len(q.edges) \in Nat BY DEF Path
<1>2. path \in Q
  <2>1. path.nodes \in Seq(Nat) /\ path.edges \in Seq(Nat) BY DEF Path
  <2>2. Len(path.nodes) <= Len(path.nodes) /\ Len(path.edges) <= Len(path.edges) BY <2>1
  <2>3. QED BY <2>1, <2>2, PrefixElements DEF IsBeginning
<1>3. bound + 1 \in Nat /\ lengths \in SUBSET (1 .. bound + 1) /\ lengths # {}
  BY <1>1, <1>2
<1> HIDE DEF lengths
<1>4. PICK n \in lengths : \A m \in lengths : m <= n BY <1>3, GreatestElement
<1>5. PICK q \in Q : n = Len(q.edges) + 1 BY DEF lengths
<1>6. \A x \in Q : Len(x.edges) + 1 <= Len(q.edges) + 1 BY <1>4, <1>5 DEF lengths
<1>7. ASSUME NEW x \in S, Len(x.edges) > Len(q.edges), IsBeginning(q, x) PROVE FALSE
  <2>1. x \in Q BY <1>7, BeginningIsTransitive
  <2>2. QED BY <1>1, <1>6, <1>7, <2>1
<1>8. QED BY <1>7 DEF MaximalPaths

\* The walk over some edges, record by record.
LEMMA WalkSteps ==
    ASSUME NEW r \in Requests, NEW n \in Nat, NEW es \in [1 .. n -> ActiveEdges(r)]
    PROVE  LET path == Walk(r, es)
           IN  /\ path \in Path /\ Len(path.edges) = n /\ Len(path.nodes) = n + 1
               /\ path.nodes[1] = r.target
               /\ \A i \in 1 .. n : path.edges[i] = es[i].id /\ path.nodes[i + 1] = es[i].to
<1> DEFINE tos == [i \in 1 .. n |-> es[i].to]
           ids == [i \in 1 .. n |-> es[i].id]
           nodes == <<r.target>> \o tos
<1>1. \A i \in 1 .. n : es[i].to \in Nat /\ es[i].id \in Nat BY ActiveTypes
<1>2. tos \in Seq(Nat) /\ ids \in Seq(Nat)
  <2>1. tos \in [1 .. n -> Nat] /\ ids \in [1 .. n -> Nat] BY <1>1
  <2> HIDE DEF tos, ids
  <2>2. QED BY <2>1, SeqDef
<1>3. /\ DOMAIN tos = 1 .. n /\ DOMAIN ids = 1 .. n
      /\ \A i \in 1 .. n : tos[i] = es[i].to /\ ids[i] = es[i].id
  OBVIOUS
<1>4. Walk(r, es) = [nodes |-> nodes, edges |-> ids] BY DEF Walk
<1> HIDE DEF tos, ids
<1>5. Len(tos) = n /\ Len(ids) = n
  <2>1. DOMAIN tos = 1 .. Len(tos) /\ DOMAIN ids = 1 .. Len(ids)
        /\ Len(tos) \in Nat /\ Len(ids) \in Nat
    BY <1>2
  <2>2. QED BY <1>3, <2>1
<1>6. <<r.target>> \in Seq(Nat) /\ Len(<<r.target>>) = 1 /\ <<r.target>>[1] = r.target
  BY RequestType
<1>7. /\ nodes \in Seq(Nat) /\ Len(nodes) = Len(<<r.target>>) + Len(tos)
      /\ \A i \in 1 .. Len(<<r.target>>) + Len(tos) :
            nodes[i] = IF i <= Len(<<r.target>>) THEN <<r.target>>[i]
                       ELSE tos[i - Len(<<r.target>>)]
  BY <1>2, <1>6, ConcatProperties
<1> HIDE DEF nodes
<1>8. Len(nodes) = n + 1 BY <1>5, <1>6, <1>7
<1>9. nodes[1] = r.target BY <1>5, <1>6, <1>7
<1>10. ASSUME NEW i \in 1 .. n PROVE nodes[i + 1] = tos[i]
  <2>1. i + 1 \in 1 .. 1 + n /\ ~(i + 1 <= 1) /\ i + 1 - 1 = i OBVIOUS
  <2>2. QED BY <1>5, <1>6, <1>7, <2>1
<1>11. QED BY <1>2, <1>3, <1>4, <1>5, <1>7, <1>8, <1>9, <1>10 DEF Path

\* In a chain, each edge leads on from the record before: identifiers are unique.
LEMMA ChainEdges ==
    ASSUME NEW r \in Requests, Validate(r) = "none",
           NEW n \in Nat, NEW es \in [1 .. n -> ActiveEdges(r)],
           IsChain(r, Walk(r, es)), NEW i \in 1 .. n
    PROVE  es[i].from = Walk(r, es).nodes[i]
<1> DEFINE path == Walk(r, es)
<1>1. path \in Path /\ Len(path.edges) = n /\ path.edges[i] = es[i].id BY WalkSteps
<1>2. DOMAIN path.edges = 1 .. n BY <1>1 DEF Path
<1>3. PICK e \in EdgesOf(r) : e.id = path.edges[i] /\ e.from = path.nodes[i]
  BY <1>2 DEF IsChain
<1>4. ~Duplicate(r.edges) BY DEF Validate
<1>5. PICK j \in DOMAIN r.edges : e = r.edges[j] BY DEF EdgesOf, Range
<1>6. PICK k \in DOMAIN r.edges : es[i] = r.edges[k] BY ActiveTypes DEF EdgesOf, Range
<1>7. j = k BY <1>1, <1>3, <1>4, <1>5, <1>6 DEF Duplicate
<1>8. QED BY <1>3, <1>5, <1>6, <1>7

\* The first k steps of a path.
Beginning(path, k) ==
    [nodes |-> [i \in 1 .. k + 1 |-> path.nodes[i]], edges |-> [i \in 1 .. k |-> path.edges[i]]]

LEMMA BeginningSteps ==
    ASSUME NEW path \in Path, NEW n \in Nat, Len(path.edges) = n, Len(path.nodes) = n + 1,
           NEW k \in 0 .. n
    PROVE  LET p == Beginning(path, k)
           IN  /\ p \in Path /\ Len(p.nodes) = k + 1 /\ Len(p.edges) = k
               /\ \A i \in 1 .. k + 1 : p.nodes[i] = path.nodes[i]
               /\ \A i \in 1 .. k : p.edges[i] = path.edges[i]
               /\ p = [nodes |-> p.nodes, edges |-> p.edges]
<1> DEFINE nodes == [i \in 1 .. k + 1 |-> path.nodes[i]]
           edges == [i \in 1 .. k |-> path.edges[i]]
<1>1. path.nodes \in Seq(Nat) /\ path.edges \in Seq(Nat) BY DEF Path
<1>2. /\ k + 1 \in Nat /\ k \in Nat
      /\ \A i \in 1 .. k + 1 : i \in 1 .. n + 1
      /\ \A i \in 1 .. k : i \in 1 .. n
  OBVIOUS
<1>3. /\ \A i \in 1 .. k + 1 : path.nodes[i] \in Nat
      /\ \A i \in 1 .. k : path.edges[i] \in Nat
  BY <1>1, <1>2
<1>4. nodes \in [1 .. k + 1 -> Nat] /\ edges \in [1 .. k -> Nat] BY <1>3
<1>5. /\ Beginning(path, k) = [nodes |-> nodes, edges |-> edges]
      /\ \A i \in 1 .. k + 1 : nodes[i] = path.nodes[i]
      /\ \A i \in 1 .. k : edges[i] = path.edges[i]
  BY DEF Beginning
<1> HIDE DEF nodes, edges
<1>6. nodes \in Seq(Nat) /\ edges \in Seq(Nat) BY <1>2, <1>4, SeqDef
<1>7. Len(nodes) = k + 1 /\ Len(edges) = k
  <2>1. /\ DOMAIN nodes = 1 .. Len(nodes) /\ Len(nodes) \in Nat
        /\ DOMAIN edges = 1 .. Len(edges) /\ Len(edges) \in Nat
    BY <1>6
  <2>2. DOMAIN nodes = 1 .. k + 1 /\ DOMAIN edges = 1 .. k BY <1>4
  <2>3. Len(nodes) = k + 1 BY <1>2, <2>1, <2>2, SameInterval
  <2>4. Len(edges) = k BY <1>2, <2>1, <2>2, SameInterval
  <2>5. QED BY <2>3, <2>4
<1> DEFINE p == Beginning(path, k)
<1>8. p = [nodes |-> nodes, edges |-> edges] BY <1>5
<1> HIDE DEF p
<1>9. p.nodes = nodes /\ p.edges = edges BY <1>8
<1>10. p \in Path BY <1>6, <1>8 DEF Path
<1>11. /\ Len(p.nodes) = k + 1 /\ Len(p.edges) = k
       /\ p = [nodes |-> p.nodes, edges |-> p.edges]
  BY <1>7, <1>8, <1>9
<1>12. /\ \A i \in 1 .. k + 1 : p.nodes[i] = path.nodes[i]
       /\ \A i \in 1 .. k : p.edges[i] = path.edges[i]
  BY <1>5, <1>9
<1>13. QED BY <1>10, <1>11, <1>12 DEF p

\* Paths with the same steps are the same.
LEMMA SamePath ==
    ASSUME NEW p \in Path, NEW q \in Path, Len(p.nodes) = Len(q.nodes),
           Len(p.edges) = Len(q.edges),
           \A i \in 1 .. Len(p.nodes) : p.nodes[i] = q.nodes[i],
           \A i \in 1 .. Len(p.edges) : p.edges[i] = q.edges[i]
    PROVE  p = q
<1>1. /\ p.nodes \in Seq(Nat) /\ q.nodes \in Seq(Nat)
      /\ p.edges \in Seq(Nat) /\ q.edges \in Seq(Nat)
  BY DEF Path
<1>2. p.nodes = q.nodes BY <1>1, SeqEqual
<1>3. p.edges = q.edges BY <1>1, SeqEqual
<1>4. QED BY <1>2, <1>3 DEF Path

\* Every chain was walked: if not, one of its beginnings would be the first that
\* was not, though the one before it was, and was followed.
LEMMA ChainIsWalked ==
    ASSUME IInv, phase = "traverse", queue = <<>>,
           NEW n \in Nat, NEW es \in [1 .. n -> ActiveEdges(request)],
           IsChain(request, Walk(request, es))
    PROVE  Walk(request, es) \in paths
<1> DEFINE path == Walk(request, es)
           missed == {k \in 0 .. n : Beginning(path, k) \notin paths}
<1>1. /\ request \in Requests /\ Validate(request) = "none" /\ AllPaths = paths
      /\ Start(request) \in paths /\ request.target \in IdsOf(request)
  BY SearchIsComplete, ValidFacts DEF IInv, TypeOK, Valid, Started
<1>2. /\ path \in Path /\ Len(path.edges) = n /\ Len(path.nodes) = n + 1
      /\ path.nodes[1] = request.target
      /\ \A i \in 1 .. n : path.edges[i] = es[i].id /\ path.nodes[i + 1] = es[i].to
  BY <1>1, WalkSteps
<1>3. \A i \in 1 .. n : es[i].from = path.nodes[i] BY <1>1, ChainEdges
<1>4. \A i, j \in 1 .. n + 1 : i # j => path.nodes[i] # path.nodes[j]
  <2>1. DOMAIN path.nodes = 1 .. n + 1 BY <1>2 DEF Path
  <2>2. IsChain(request, path) OBVIOUS
  <2> HIDE DEF path
  <2>3. QED BY <2>1, <2>2 DEF IsChain
<1> HIDE DEF path
<1>5. \A k \in 0 .. n :
         LET p == Beginning(path, k)
         IN  /\ p \in Path /\ Len(p.nodes) = k + 1 /\ Len(p.edges) = k
             /\ \A i \in 1 .. k + 1 : p.nodes[i] = path.nodes[i]
             /\ \A i \in 1 .. k : p.edges[i] = path.edges[i]
             /\ p = [nodes |-> p.nodes, edges |-> p.edges]
  BY <1>2, BeginningSteps
<1>6. Beginning(path, 0) \in paths
  <2> DEFINE p == Beginning(path, 0)
             s == Start(request)
  <2>1. /\ p \in Path /\ Len(p.nodes) = 1 /\ Len(p.edges) = 0 /\ p.nodes[1] = path.nodes[1]
    <3>1. 0 \in 0 .. n OBVIOUS
    <3>2. /\ p \in Path /\ Len(p.nodes) = 0 + 1 /\ Len(p.edges) = 0
          /\ \A i \in 1 .. 0 + 1 : p.nodes[i] = path.nodes[i]
      BY <1>5, <3>1
    <3> HIDE DEF p
    <3>3. QED BY <3>2
  <2>2. /\ s \in Path /\ Len(s.nodes) = 1 /\ Len(s.edges) = 0 /\ s.nodes[1] = request.target
    BY <1>1, StartIsGood DEF Good, Start
  <2> HIDE DEF p, s
  <2>3. p = s BY <1>2, <2>1, <2>2, SamePath
  <2>4. QED BY <1>1, <2>3 DEF p, s
<1>7. ASSUME NEW k \in 0 .. n, k # 0, Beginning(path, k - 1) \in paths
      PROVE  Beginning(path, k) \in paths
  <2> DEFINE p == Beginning(path, k - 1)
             q == Beginning(path, k)
             e == es[k]
             x == Extend(p, e)
  <2>1. /\ k \in 1 .. n /\ k - 1 \in 0 .. n /\ (k - 1) + 1 = k /\ k \in Nat
        /\ k + 1 \in 1 .. n + 1 /\ k \in 1 .. n + 1
    BY <1>7
  <2>2. /\ p \in Path /\ Len(p.nodes) = k /\ Len(p.edges) = k - 1
        /\ \A i \in 1 .. k : p.nodes[i] = path.nodes[i]
        /\ \A i \in 1 .. k - 1 : p.edges[i] = path.edges[i]
    BY <1>5, <2>1
  <2>3. /\ q \in Path /\ Len(q.nodes) = k + 1 /\ Len(q.edges) = k
        /\ \A i \in 1 .. k + 1 : q.nodes[i] = path.nodes[i]
        /\ \A i \in 1 .. k : q.edges[i] = path.edges[i]
    BY <1>5, <2>1
  <2>4. /\ e \in ActiveEdges(request) /\ e.id = path.edges[k] /\ e.from = path.nodes[k]
        /\ e.to = path.nodes[k + 1]
    BY <1>2, <1>3, <2>1
  <2>5. p \in paths /\ Good(request, p)
    BY <1>1, <1>7 DEF IInv, PathsAreGood
  <2> HIDE DEF p, q, e
  <2>6. End(p) = p.nodes[Len(p.nodes)] /\ Range(p.nodes) = {p.nodes[i] : i \in 1 .. Len(p.nodes)}
    BY <1>1, <2>5, GoodPath
  <2>7. e.from = End(p)
    <3>1. k \in 1 .. k BY <2>1
    <3>2. p.nodes[k] = path.nodes[k] BY <2>2, <3>1
    <3>3. End(p) = p.nodes[k] BY <2>2, <2>6
    <3>4. QED BY <2>4, <3>2, <3>3
  <2>8. e.to \notin Range(p.nodes)
    <3>1. \A i \in 1 .. k : i \in 1 .. n + 1 /\ i # k + 1 BY <2>1
    <3>2. \A i \in 1 .. k : path.nodes[i] # path.nodes[k + 1] BY <1>4, <2>1, <3>1
    <3>3. QED BY <2>2, <2>4, <2>6, <3>2
  <2>9. x \in paths BY <1>1, <2>4, <2>5, <2>7, <2>8 DEF IInv, Followed
  <2>10. /\ x.nodes = Append(p.nodes, e.to) /\ x.edges = Append(p.edges, e.id)
         /\ p.nodes \in Seq(Nat) /\ p.edges \in Seq(Nat) /\ e.to \in Nat /\ e.id \in Nat
    BY <1>1, <2>2, <2>4, ActiveTypes DEF Extend, Path
  <2>11. x \in Path BY <1>1, <2>4, <2>5, <2>7, <2>8, ExtensionIsGood DEF Good
  <2> HIDE DEF x
  <2>12. /\ Len(x.nodes) = k + 1 /\ x.nodes[k + 1] = e.to
         /\ \A i \in 1 .. k : x.nodes[i] = p.nodes[i]
    BY <2>1, <2>2, <2>10
  <2>13. /\ Len(x.edges) = k /\ x.edges[k] = e.id
         /\ \A i \in 1 .. k - 1 : x.edges[i] = p.edges[i]
    BY <2>1, <2>2, <2>10
  <2>14. \A i \in 1 .. k + 1 : x.nodes[i] = q.nodes[i]
    <3> TAKE i \in 1 .. k + 1
    <3>1. i \in 1 .. k \/ i = k + 1 BY <2>1
    <3>2. QED BY <2>2, <2>3, <2>4, <2>12, <3>1
  <2>15. \A i \in 1 .. k : x.edges[i] = q.edges[i]
    <3> TAKE i \in 1 .. k
    <3>1. i \in 1 .. k - 1 \/ i = k BY <2>1
    <3>2. QED BY <2>2, <2>3, <2>4, <2>13, <3>1
  <2>16. x = q BY <2>3, <2>11, <2>12, <2>13, <2>14, <2>15, SamePath
  <2>17. QED BY <2>9, <2>16 DEF q
<1>8. missed = {}
  <2> SUFFICES ASSUME missed # {} PROVE FALSE OBVIOUS
  <2>1. missed \in SUBSET Nat OBVIOUS
  <2>2. \A k \in missed : k \in 0 .. n /\ Beginning(path, k) \notin paths OBVIOUS
  <2>3. \A k \in 0 .. n : Beginning(path, k) \notin paths => k \in missed OBVIOUS
  <2> HIDE DEF missed
  <2>4. PICK k \in missed : \A m \in missed : k <= m BY <2>1, LeastElement
  <2>5. k \in 0 .. n /\ k # 0 BY <1>6, <2>2
  <2>6. k - 1 \in 0 .. n /\ ~(k <= k - 1) BY <2>5
  <2>7. Beginning(path, k - 1) \in paths BY <2>3, <2>4, <2>6
  <2>8. QED BY <1>7, <2>2, <2>5, <2>7
<1>9. Beginning(path, n) \in paths BY <1>8
<1>10. Beginning(path, n) = path
  <2> DEFINE p == Beginning(path, n)
  <2>1. /\ p \in Path /\ Len(p.nodes) = n + 1 /\ Len(p.edges) = n
        /\ \A i \in 1 .. n + 1 : p.nodes[i] = path.nodes[i]
        /\ \A i \in 1 .. n : p.edges[i] = path.edges[i]
    <3>1. n \in 0 .. n OBVIOUS
    <3>2. QED BY <1>5, <3>1
  <2> HIDE DEF p
  <2>2. p = path BY <1>2, <2>1, SamePath
  <2>3. QED BY <2>2 DEF p
<1>11. QED BY <1>9, <1>10 DEF path

\* The chains of an established proof, when it is made.
LEMMA EstablishedCitesAll ==
    ASSUME IInv, Deep, phase = "traverse", queue = <<>>,
           NEW path \in Walks(request), IsChain(request, path), IsAnchor(request, End(path))
    PROVE  \E chain \in MaximalPaths(anchors) : IsBeginning(path, chain)
<1>1. request \in Requests /\ AllPaths = paths /\ anchors \subseteq paths /\ paths \subseteq Path
  BY SearchIsComplete DEF IInv, TypeOK
<1>2. PICK n \in 0 .. Cardinality(IdsOf(request)) - 1 :
        \E es \in [1 .. n -> ActiveEdges(request)] : path = Walk(request, es)
  BY DEF Walks
<1>12. PICK es \in [1 .. n -> ActiveEdges(request)] : path = Walk(request, es)
  BY <1>2
<1>3. n \in Nat BY <1>2
<1>4. path \in paths BY <1>12, <1>3, ChainIsWalked
<1>5. Good(request, path) BY <1>1, <1>4 DEF IInv, PathsAreGood
<1>6. /\ End(path) = path.nodes[Len(path.nodes)] /\ End(path) \in IdsOf(request)
      /\ Len(path.nodes) \in DOMAIN path.nodes
  BY <1>1, <1>5, GoodPath
<1>7. End(path) \in Active(request) BY <1>6 DEF IsChain, Active, Superseded
<1>8. path \in anchors BY <1>4, <1>7 DEF IInv, AnchorsAreFound
<1>9. explored \in Nat /\ \A p \in anchors : Len(p.edges) <= explored
  BY <1>1, KernelAssumption DEF Deep, IInv, TypeOK
<1>10. anchors \in SUBSET Path BY <1>1
<1>11. QED BY <1>8, <1>9, <1>10, MaximalPathsCover

LEMMA DeepStep ==
    ASSUME IInv, Deep, Next
    PROVE  Deep'
<1>1. request \in Requests /\ explored \in Nat /\ queue \in Seq(Path) /\ paths \subseteq Path
  BY KernelAssumption DEF IInv, TypeOK
<1>2. CASE Refuse \/ LimitReached \/ Conclude
  BY <1>2 DEF Deep, AllPaths, Refuse, LimitReached, Conclude
<1>3. CASE Accept
  <2>1. AllPaths' = {Start(request)} /\ explored' = explored
    BY <1>3 DEF Accept, IInv, TypeOK, Begun, AllPaths, Range
  <2>2. Len(Start(request).edges) = 0 BY DEF Start
  <2>3. QED BY <1>1, <2>1, <2>2 DEF Deep
<1>4. CASE Visit
  <2>1. PICK path \in Range(queue) :
           /\ Take(path)
           /\ End(path) \in Active(request)
           /\ \E s \in [1 .. Cardinality(Candidates(path)) -> Candidates(path)] :
                 /\ Lists(s, Candidates(path))
                 /\ queue' = Tail(queue) \o [i \in DOMAIN s |-> Extend(path, s[i])]
    BY <1>4 DEF Visit
  <2>2. AllPaths' = AllPaths \union {Extend(path, e) : e \in Candidates(path)}
    BY <2>1, VisitPaths
  <2>3. explored' = explored + 1 BY <2>1 DEF Take
  <2>4. Good(request, path) /\ Len(path.edges) <= explored
    BY DEF IInv, PathsAreGood, AllPaths, Deep
  <2>5. \A p \in AllPaths : Len(p.edges) \in Nat
    BY <1>1, GoodPath DEF IInv, PathsAreGood
  <2>6. \A e \in Candidates(path) : Len(Extend(path, e).edges) = Len(path.edges) + 1
    BY <1>1, <2>4, ExtensionIsGood DEF Candidates
  <2>7. Len(path.edges) \in Nat BY <1>1, <2>4, GoodPath
  <2>8. QED BY <1>1, <2>2, <2>3, <2>4, <2>5, <2>6, <2>7 DEF Deep
<1>5. CASE VisitInactive
  <2>1. PICK path \in Range(queue) : Take(path) /\ queue' = Tail(queue)
    BY <1>5 DEF VisitInactive
  <2>2. /\ queue # <<>> /\ path = Head(queue) /\ paths' = paths \union {path}
        /\ explored' = explored + 1
    BY <2>1 DEF Take
  <2>3. Range(queue) = {path} \union Range(queue') BY <1>1, <2>1, <2>2, QueueSplits
  <2>4. AllPaths' = AllPaths BY <2>2, <2>3 DEF AllPaths
  <2>5. \A p \in AllPaths : Len(p.edges) \in Nat
    BY <1>1, GoodPath DEF IInv, PathsAreGood
  <2>6. QED BY <1>1, <2>2, <2>4, <2>5 DEF Deep
<1>6. QED BY <1>2, <1>3, <1>4, <1>5 DEF Next

LEMMA CitedStep == IInv /\ CitedInv /\ [Next]_vars => CitedInv'
<1> SUFFICES ASSUME IInv, CitedInv, [Next]_vars PROVE CitedInv'
  OBVIOUS
<1>1. CASE UNCHANGED vars
  BY <1>1 DEF vars, CitedInv, Deep, AllPaths, EveryChainIsCited, Proved
<1>2. CASE Next /\ ~(Conclude /\ anchors # {} /\ answer' = Established(anchors))
  <2>1. Deep' BY <1>2, DeepStep DEF CitedInv
  <2>2. ~(Proved' /\ answer'.verdict = "established")
    <3>1. CASE Refuse \/ LimitReached
      <4>1. \E code : answer' = Failure(code) BY <3>1 DEF Refuse, LimitReached
      <4>2. QED BY <4>1 DEF Failure, Proved
    <3>2. CASE Accept \/ Visit \/ VisitInactive
      <4>1. phase' = "traverse" BY <3>2 DEF Accept, Visit, VisitInactive, Take
      <4>2. QED BY <4>1 DEF Proved
    <3>3. CASE Conclude
      <4>1. \/ \E conflicts : answer' = Conflicted(conflicts)
            \/ \E path : answer' = Incomplete(path)
        BY <1>2, <3>3 DEF Conclude
      <4>2. answer'.verdict # "established"
        <5>1. ASSUME NEW conflicts, answer' = Conflicted(conflicts)
              PROVE  answer'.verdict # "established"
          <6>1. answer'.verdict = "conflicted" BY <5>1, ProofFacts DEF Conflicted
          <6>2. QED BY <6>1
        <5>2. ASSUME NEW path, answer' = Incomplete(path)
              PROVE  answer'.verdict # "established"
          <6>1. answer'.verdict = IF path.edges = <<>> THEN "not_established" ELSE "partial"
            BY <5>2, ProofFacts DEF Incomplete
          <6>2. QED BY <6>1
        <5>3. QED BY <4>1, <5>1, <5>2
      <4>3. QED BY <4>2
    <3>4. QED BY <1>2, <3>1, <3>2, <3>3 DEF Next
  <2>3. QED BY <2>1, <2>2 DEF CitedInv, EveryChainIsCited
<1>3. CASE Conclude /\ anchors # {} /\ answer' = Established(anchors)
  <2>1. Deep' BY <1>3, DeepStep DEF CitedInv, Next
  <2>2. phase = "traverse" /\ queue = <<>> /\ request' = request BY <1>3 DEF Conclude
  <2>3. answer'.chains = MaximalPaths(anchors) BY <1>3, ProofFacts DEF Established
  <2>4. EveryChainIsCited'
    BY <2>2, <2>3, EstablishedCitesAll DEF CitedInv, EveryChainIsCited
  <2>5. QED BY <2>1, <2>4 DEF CitedInv
<1>4. QED BY <1>1, <1>2, <1>3

\* EveryChainIsCited: a developer who reads an established proof has seen every
\* way the evidence leads to an anchor (traverse enters no record twice on one
\* path, but any record by every path; established keeps the maximal paths).
THEOREM NoChainIsWithheld == Spec => []EveryChainIsCited
<1>1. Init => CitedInv
  <2> SUFFICES ASSUME Init PROVE CitedInv
    OBVIOUS
  <2>1. AllPaths = {} BY DEF Init, AllPaths, Range
  <2>2. ~Proved BY DEF Init, Proved
  <2>3. QED BY <2>1, <2>2 DEF CitedInv, Deep, EveryChainIsCited
<1>2. CitedInv => EveryChainIsCited BY DEF CitedInv
<1>3. QED BY <1>1, <1>2, InvHolds, CitedStep, PTL DEF Spec
===============================================================================
