----------------------------- MODULE ProofRules -----------------------------
(***************************************************************************)
(* The data the proof kernel is given and the rules by which it counts     *)
(* (ocaml/lib/model.ml, rules.ml and the first half of evaluator.ml): what *)
(* a request must be, which evidence is active, what is an anchor and      *)
(* what is a conflict.                                                     *)
(*                                                                         *)
(* Identifiers are numbers, ordered as the strings are.  An edge's and a    *)
(* node's origin, and the messages of errors, play no part here.            *)
(***************************************************************************)
EXTENDS Naturals, FiniteSets, SequencesExt

CONSTANTS
    MaxNodes, MaxEdges  \* bounds on a request

ASSUME RulesAssumption == MaxNodes \in Nat /\ MaxEdges \in Nat

NodeKinds == {"code_target", "change", "work_item", "review", "decision", "verification"}
EdgeKinds == {"introduced_by", "changed_by", "included_in_pr", "resolves_issue", "documents",
              "supersedes", "verified_by"}

\* A subject or outcome of 0 is none.
Nodes == [id : Nat, kind : NodeKinds, current : BOOLEAN, subject : Nat, outcome : Nat]
Edges == [id : Nat, kind : EdgeKinds, from : Nat, to : Nat, current : BOOLEAN]
Conflicts == [left : Nat, right : Nat, rule : {"explicit", "subject_outcome"}]

-----------------------------------------------------------------------------
(* The evidence of a request. *)

NodesOf(r) == Range(r.nodes)
EdgesOf(r) == Range(r.edges)
IdsOf(r) == {n.id : n \in NodesOf(r)}

Duplicate(s) == \E i, j \in DOMAIN s : i # j /\ s[i].id = s[j].id

Dangling(r) ==
    \/ \E e \in EdgesOf(r) : ~({e.from, e.to} \subseteq IdsOf(r))
    \/ \E c \in r.conflicts : ~({c.left, c.right} \subseteq IdsOf(r))

Validate(r) ==
    IF r.version # 1 THEN "unsupported_protocol"
    ELSE IF Len(r.nodes) > MaxNodes \/ Len(r.edges) > MaxEdges THEN "resource_limit"
    ELSE IF \/ r.anchors = {} \/ ~(r.anchors \subseteq {"decision", "work_item"})
            \/ Duplicate(r.nodes) \/ Duplicate(r.edges) THEN "invalid_request"
    ELSE IF r.target \notin IdsOf(r) \/ Dangling(r) THEN "missing_record"
    ELSE "none"

NodeAt(r, id) == CHOOSE n \in NodesOf(r) : n.id = id

\* Mutant of Superseded: the wrong end of the edge.
Superseding(r) ==
    {e.from : e \in {f \in EdgesOf(r) : f.current /\ f.kind = "supersedes"}}

\* A superseded record still supersedes, a historical one does not.
Superseded(r) ==
    {e.to : e \in {f \in EdgesOf(r) : /\ f.current /\ f.kind = "supersedes"
                                      /\ NodeAt(r, f.from).current}}

Active(r) == {id \in IdsOf(r) : NodeAt(r, id).current} \ Superseded(r)

ActiveEdges(r) ==
    LET active == Active(r)
    IN  {e \in EdgesOf(r) : /\ e.current /\ e.kind # "supersedes"
                            /\ e.from \in active /\ e.to \in active}

IsAnchor(r, id) == NodeAt(r, id).current /\ NodeAt(r, id).kind \in r.anchors

\* Two active decisions on one subject with different outcomes.
StructuredConflicts(r) ==
    LET decisions == {n \in NodesOf(r) : /\ n.id \in Active(r) /\ n.kind = "decision"
                                         /\ n.subject # 0 /\ n.outcome # 0}
        pairs == {d \in decisions \X decisions : /\ d[1].id < d[2].id
                                                 /\ d[1].subject = d[2].subject
                                                 /\ d[1].outcome # d[2].outcome}
    IN  {[left |-> d[1].id, right |-> d[2].id, rule |-> "subject_outcome"] : d \in pairs}

MaterialConflicts(r, ids) ==
    {c \in r.conflicts \union StructuredConflicts(r) :
        {c.left, c.right} \subseteq ids \intersect Active(r)}

-----------------------------------------------------------------------------
(* What can be found. *)

\* What holds the target and whatever current edges lead to from there.
Closed(r) ==
    LET edges == ActiveEdges(r)
    IN  {C \in SUBSET IdsOf(r) : /\ r.target \in C
                                 /\ \A e \in edges : e.from \in C => e.to \in C}

\* What can be reached from the target over current edges.
Reachable(r) ==
    LET closed == Closed(r)
    IN  {id \in IdsOf(r) : \A C \in closed : id \in C}

\* What the evidence warrants, however it is looked through: conflicts come
\* before anchors, and anchors before gaps.
WarrantedVerdict(r) ==
    LET R == Reachable(r)
    IN  IF MaterialConflicts(r, R) # {} THEN "conflicted"
        ELSE IF \E id \in R \intersect Active(r) : IsAnchor(r, id) THEN "established"
        ELSE IF R # {r.target} THEN "partial"
        ELSE "not_established"
=============================================================================
