------------------------------ MODULE GitHistory ------------------------------
(***************************************************************************)
(* What the Git adapter computes from the commits (rationale-git): the     *)
(* history of HEAD, the history of a path through renames and merges, the  *)
(* references in a message and the attribution of lines.  Pure functions   *)
(* of a repository's commits, which never change; libgit2's walks, its     *)
(* comparison of trees and its blame are external.                         *)
(*                                                                         *)
(* Identifiers are those of Documents, and so are those in messages.  A    *)
(* text is a sequence of lines that are unlike each other.                 *)
(***************************************************************************)
EXTENDS Documents, FiniteSets

CONSTANTS
    Commits,        \* identifiers of commits
    Parents,        \* each one's parents, in order
    Boundary,       \* the commits without parents in a shallow clone
    Names,          \* how many names of source files there are, 1 .. Names
    Trees,          \* what each commit has under each name: a text, or Absent
    Messages,       \* the words of each commit's message
    HistoryLimit, MaxWalked

\* A commit names its parents by their hashes, so they were made before it;
\* commits are numbered in the order in which they were made.
ASSUME GitAssumption ==
    /\ IsFiniteSet(Commits) /\ Commits = 1 .. Cardinality(Commits)
    /\ Parents \in [Commits -> Seq(Commits)] /\ Boundary \subseteq Commits
    /\ \A c \in Commits : \A d \in ToSet(Parents[c]) : d < c
    /\ Names \in Nat /\ Absent \notin 1 .. Names
    /\ HistoryLimit \in Nat \ {0} /\ MaxWalked \in Nat

-----------------------------------------------------------------------------
(* Messages. *)

\* references::extract, of the words of a message: "#12" is an issue, or a story
\* after that word; STORY-12, ADR-12 and URLs of the forge stand for themselves.
Extract(words) ==
    LET At(i) ==
            IF words[i][1] = "#"
            THEN IF i > 1 /\ words[i - 1] = <<"word", "story">>
                 THEN {[kind |-> "Story", value |-> <<"STORY-", words[i][2]>>]}
                 ELSE {[kind |-> "Issue", value |-> words[i]]}
            ELSE CASE words[i][1] = "STORY-" -> {[kind |-> "Story", value |-> words[i]]}
                   [] words[i][1] = "ADR-" -> {[kind |-> "Decision", value |-> words[i]]}
                   [] words[i][1] = "url" -> {[kind |-> "ForgeUrl", value |-> words[i]]}
                   [] OTHER -> {}
    IN  UNION {At(i) : i \in DOMAIN words}

\* A commit's name among the identifiers of records.
Sha(c) == <<"sha", c>>

\* commit_evidence.
CommitEvidence(c) == [id |-> Sha(c), references |-> Extract(Messages[c])]

-----------------------------------------------------------------------------
(* Walks, external. *)

ParentsSeen(c, shallow) == IF shallow /\ c \in Boundary THEN <<>> ELSE Parents[c]

Reached[x \in Commits \X BOOLEAN] ==
    {x[1]} \union UNION {Reached[<<d, x[2]>>] : d \in ToSet(ParentsSeen(x[1], x[2]))}

\* Sort::TOPOLOGICAL | Sort::TIME: children before their parents, whatever the
\* times are.
NextInWalk(left) == {c \in left : \A d \in left \ {c} : c \notin Reached[<<d, FALSE>>]}

Orders[left \in SUBSET Commits] ==
    IF left = {} THEN {<<>>}
    ELSE UNION {{<<c>> \o w : w \in Orders[left \ {c}]} : c \in NextInWalk(left)}

Walks(c, shallow) == Orders[Reached[<<c, shallow>>]]

\* commit_history.
CommitHistory(walk, shallow) ==
    [commits |-> SubSeq(walk, 1,
                        IF Len(walk) > HistoryLimit THEN HistoryLimit ELSE Len(walk)),
     complete |-> ~shallow /\ Len(walk) <= HistoryLimit]

-----------------------------------------------------------------------------
(* The history of a path. *)

NoFiles == [n \in 1 .. Names |-> Absent]

Similar(text, other) ==
    text # Absent /\ other # Absent /\ ToSet(text) \intersect ToSet(other) # {}

\* What may have been renamed to n: files that are gone, and similar.
RenamedFrom(old, new, n) ==
    {m \in 1 .. Names : old[m] # Absent /\ new[m] = Absent
                        /\ old[n] = Absent /\ Similar(old[m], new[n])}

\* The one of them that find_similar takes, external.
Origin(old, new, n) == CHOOSE m \in RenamedFrom(old, new, n) : TRUE

Delta(old, new, status) == [old |-> old, new |-> new, status |-> status]

\* diff_tree_to_tree and find_similar, external: what became of each name that differs.
Deltas(old, new) ==
    LET changed == {n \in 1 .. Names : old[n] # new[n]}
        renamed == {n \in changed : RenamedFrom(old, new, n) # {}}
        gone == {n \in changed : new[n] = Absent}
        added == {n \in changed \ renamed : old[n] = Absent}
    IN  {Delta(Origin(old, new, n), n, "renamed") : n \in renamed}
        \union {Delta(n, n, "added") : n \in added}
        \union {Delta(n, n, "modified") : n \in changed \ (renamed \union added \union gone)}
        \union {Delta(n, n, "deleted") : n \in gone \ {Origin(old, new, m) : m \in renamed}}

\* A commit is compared with each of its parents, or with nothing.
Compared(c, shallow) ==
    LET parents == ParentsSeen(c, shallow)
    IN  IF parents = <<>> THEN <<Deltas(NoFiles, Trees[c])>>
        ELSE [i \in DOMAIN parents |-> Deltas(Trees[parents[i]], Trees[c])]

Renamings(deltas) == {d \in deltas : d.status = "renamed"}

About(deltas, known) == {d \in deltas : {d.old, d.new} \intersect known # {}}

\* Deltas come in the order of their names.
LastOf(deltas) == CHOOSE d \in deltas : \A e \in deltas : e.new <= d.new

\* path_history: where a walk stands that looks for a name, with what the
\* comparisons of the first commit that is left have told so far.
Trail(name, walk, shallow) ==
    [left |-> walk, compared |-> 0,
     matched_path |-> Absent, renamed_from |-> Absent, deleted |-> FALSE,
     walked |-> 0, known |-> {name}, changes |-> <<>>, complete |-> ~shallow]

\* The next commit is one too many.
GiveUp(trail) == [trail EXCEPT !.left = <<>>, !.complete = FALSE]

Relevant(trail, shallow) ==
    About(Compared(Head(trail.left), shallow)[trail.compared + 1], trail.known)

\* Mutant of Compare: the name before a renaming is not looked for.
CompareHere(trail, shallow) ==
    LET relevant == Relevant(trail, shallow)
    IN  [trail EXCEPT
            !.compared = trail.compared + 1,
            !.matched_path = IF relevant = {} THEN trail.matched_path ELSE LastOf(relevant).new]

\* The next comparison, of which the deltas count that are about a known name.  Those
\* that are renamings make the former names known to whatever is compared next; in
\* the same comparison no other delta has them, for they are gone.
Compare(trail, shallow) ==
    LET relevant == Relevant(trail, shallow)
        renamings == Renamings(relevant)
    IN  [trail EXCEPT
            !.compared = trail.compared + 1,
            !.known = trail.known \union {d.old : d \in renamings},
            !.matched_path = IF relevant = {} THEN trail.matched_path ELSE LastOf(relevant).new,
            !.renamed_from = IF renamings = {} THEN trail.renamed_from ELSE LastOf(renamings).old,
            !.deleted = trail.deleted \/ \E d \in relevant : d.status = "deleted"]

\* After its comparisons a commit is told of if one was relevant; the walk goes on
\* unless there are enough changes.
Conclude(trail) ==
    LET change == [commit |-> Head(trail.left), path |-> trail.matched_path,
                   renamed_from |-> trail.renamed_from, deleted |-> trail.deleted]
        changed == trail.matched_path # Absent
        changes == IF changed THEN Append(trail.changes, change) ELSE trail.changes
        full == changed /\ Len(changes) >= HistoryLimit
    IN  [trail EXCEPT
            !.left = IF full THEN <<>> ELSE Tail(trail.left),
            !.compared = 0, !.matched_path = Absent, !.renamed_from = Absent, !.deleted = FALSE,
            !.walked = trail.walked + 1,
            !.changes = changes,
            !.complete = trail.complete /\ ~full]

-----------------------------------------------------------------------------
(* Blame. *)

\* The versions of a file: a commit and the name it had there.
Versions == Commits \X (1 .. Names)
Text(v) == Trees[v[1]][v[2]]

\* The parents' versions of one, by what Git takes for renamings.
FormerVersions(v, shallow) ==
    {w \in ToSet(ParentsSeen(v[1], shallow)) \X (1 .. Names) :
        \/ w[2] = v[2] /\ Text(w) # Absent
        \/ /\ RenamedFrom(Trees[w[1]], Trees[v[1]], v[2]) # {}
           /\ w[2] = Origin(Trees[w[1]], Trees[v[1]], v[2])}

Lines == UNION {ToSet(text) : text \in {Text(v) : v \in Versions} \ {Absent}}
Holds(v, line) == Text(v) # Absent /\ line \in ToSet(Text(v))

Position(text, line) == CHOOSE i \in DOMAIN text : text[i] = line

\* No other line of both texts has passed it, so that a comparison keeps it; of
\* one that has moved it may make a line that is gone and a new one.
Unmoved(old, new, line) ==
    LET common == ToSet(old) \intersect ToSet(new)
    IN  /\ line \in common
        /\ \A other \in common :
              Position(old, other) < Position(old, line) <=>
                  Position(new, other) < Position(new, line)

\* The versions through which a line has come down to one of them.
Bearers[x \in Versions \X Lines \X BOOLEAN] ==
    {x[1]} \union UNION {Bearers[<<w, x[2], x[3]>>] :
                          w \in {u \in FormerVersions(x[1], x[3]) : Holds(u, x[2])}}

Introduces(v, line, shallow) ==
    \A w \in FormerVersions(v, shallow) : ~Unmoved(Text(w), Text(v), line)

\* Whom git_blame may name, external.  It follows a file through renamings, as far
\* as the clone goes: the first commits of a shallow one have what came before them.
\* (Its options to track copies do nothing.)
IntroducedBy(v, line, shallow) ==
    {w[1] : w \in {u \in Bearers[<<v, line, shallow>>] : Introduces(u, line, shallow)}}

\* A hunk of a blame; that of lines which are not committed has no commit.
Hunk(c) == [commit |-> c]

\* blame_file, external: the commit of a line of a version, if it has it.
Committed(v, k, shallow) ==
    IF k \in DOMAIN Text(v) THEN {Hunk(c) : c \in IntroducedBy(v, Text(v)[k], shallow)}
    ELSE {Absent}

\* blame_buffer, external: the blame of the lines from the first to the last moved
\* to where the content has them.  A line that is not in the committed text has no
\* commit, nor may one that the content has elsewhere among the others; one that
\* is, but not among those lines, may be found or not.
Buffered(v, content, k, first, last, shallow) ==
    LET line == content[k]
    IN  IF line \notin ToSet(Text(v)) THEN {Hunk(Absent)}
        ELSE {Hunk(c) : c \in IntroducedBy(v, line, shallow)}
             \union (IF Unmoved(Text(v), content, line) THEN {} ELSE {Hunk(Absent)})
             \union (IF Position(Text(v), line) \in first .. last THEN {} ELSE {Absent})
===============================================================================
