----------------------------- MODULE SnapshotLog -----------------------------
(***************************************************************************)
(* What the evidence store promises: snapshots appear one after another,   *)
(* each whole, closed and never altered, and a reader is told one of them, *)
(* no older than the newest when its read began.                           *)
(***************************************************************************)
EXTENDS Naturals, Sequences

CONSTANTS
    Clients,            \* the connections
    Absent              \* no such row

VARIABLES
    log,                \* the published snapshots, oldest first
    since,              \* for each read in progress, Len(log) when it began
    answer              \* what each client's last completed read returned

logVars == <<log, since, answer>>

(***************************************************************************)
(* A snapshot: nodes are <<record, content>> pairs, links <<link, row>>    *)
(* pairs where a row names the two records it relates.                     *)
(***************************************************************************)
Snapshot(id, nodes, links, sources) ==
    [id |-> id, nodes |-> nodes, links |-> links, sources |-> sources]

Whole(s) ==
    \A link \in s.links : \E from, to \in s.nodes :
        link[2].source = from[1] /\ link[2].target = to[1]

\* An identifier means the same content in every snapshot.
Agree(s, t) ==
    /\ s.id # t.id
    /\ \A m \in s.nodes, n \in t.nodes : m[1] = n[1] => m = n
    /\ \A m \in s.links, n \in t.links : m[1] = n[1] => m = n

\* The answers to the three reads of the interface.
NoAnswer == [kind |-> "none"]
NoSnapshot == [kind |-> "empty"]
Slice(s) == [kind |-> "slice", snapshot |-> s]
Freshness(s) == [kind |-> "freshness", id |-> s.id, sources |-> s.sources]
RecordsOf(s) == [kind |-> "records", id |-> s.id, nodes |-> s.nodes]

-----------------------------------------------------------------------------

Init ==
    /\ log = <<>>
    /\ since = [c \in Clients |-> Absent]
    /\ answer = [c \in Clients |-> NoAnswer]

Publish ==
    /\ Len(log') = Len(log) + 1
    /\ SubSeq(log', 1, Len(log)) = log
    /\ LET new == log'[Len(log')]
       IN  /\ Whole(new)
           /\ \A i \in DOMAIN log : Agree(log[i], new)
    /\ UNCHANGED <<since, answer>>

\* The caller keeps a slice it is about to ask the records for.
BeginRead(c) ==
    /\ since[c] = Absent
    /\ since' = [since EXCEPT ![c] = Len(log)]
    /\ answer' \in {answer, [answer EXCEPT ![c] = NoAnswer]}
    /\ UNCHANGED log

Answers(c, a) ==
    /\ since[c] # Absent
    /\ since' = [since EXCEPT ![c] = Absent]
    /\ answer' = [answer EXCEPT ![c] = a]
    /\ UNCHANGED log

\* The current snapshot at some moment of the read.
Return(c) ==
    /\ since[c] # Absent
    /\ \/ since[c] = 0 /\ Answers(c, NoSnapshot)
       \/ \E i \in DOMAIN log :
             /\ i >= since[c]
             /\ Answers(c, Slice(log[i])) \/ Answers(c, Freshness(log[i]))

\* The records of the snapshot a slice was read from.
ReturnRecords(c) ==
    \E i \in DOMAIN log :
        /\ answer[c] = Slice(log[i])
        /\ Answers(c, RecordsOf(log[i]))

\* An error, or the client is gone.
Forget(c) ==
    /\ since' = [since EXCEPT ![c] = Absent]
    /\ answer' = [answer EXCEPT ![c] = NoAnswer]
    /\ UNCHANGED log

Next ==
    \/ Publish
    \/ \E c \in Clients : BeginRead(c) \/ Return(c) \/ ReturnRecords(c) \/ Forget(c)

Spec == Init /\ [][Next]_logVars
=============================================================================
