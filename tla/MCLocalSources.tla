---------------------------- MODULE MCLocalSources ----------------------------
(* An instance of LocalSources for TLC. *)
EXTENDS LocalSources

ADR(n) == <<"ADR-", n>>
Verify(n) == <<"VERIFY-", n>>
Work(n) == <<"#", n>>

Form(f) == [form |-> f]
Rationale(id, mentions, supersedes, verified_by, conflicts) ==
    [form |-> "rationale", id |-> id, kind |-> Absent, status |-> "accepted",
     documents |-> {Sha(1)}, mentions |-> mentions, supersedes |-> supersedes,
     verified_by |-> verified_by, conflicts |-> conflicts]
Manifest(version, id, targets) ==
    [form |-> "verification", version |-> version, id |-> id, artifact |-> "x",
     targets |-> targets, status |-> "current"]

\* Two decisions, one of which supersedes the other and is contradicted by it;
\* the same identifier in two files; a manifest for one, of a version that is not
\* known, or with a commit's name; files that cannot be taken in.
Decision == Rationale(ADR(1), {Work(1), Verify(1)}, {ADR(2)}, {}, {})
Contradicts(n, rule) == [with |-> ADR(n), rule_id |-> rule]
MCFiles ==
    <<{Decision, Form("unclosed"), Form("large")},
      {Rationale(ADR(2), {}, {}, {Verify(1)}, {Contradicts(1, "r"), Contradicts(9, "s")}),
       Decision, Form("plain")},
      {Manifest(1, Verify(1), {ADR(1), ADR(2)}), Manifest(2, Verify(1), {ADR(1)}),
       Manifest(1, Sha(1), {ADR(2)})}>>

MCDirectoryOf == <<1, 2, 1>>

\* A file is renamed on one branch and changed on the other; the branches are
\* merged, and the file is changed again: a line is new and another one moved.
MCParents == <<<<>>, <<1>>, <<1>>, <<2, 3>>, <<4>>, <<5>>>>
Named(old, new) == <<old, new>>
MCTrees ==
    <<Named(<<"k", "l">>, Absent), Named(Absent, <<"k", "l">>),
      Named(<<"k", "m", "l">>, Absent), Named(Absent, <<"k", "m", "l">>),
      Named(Absent, <<"n", "m", "k", "l">>), Named(Absent, <<"n", "m", "k", "l">>)>>
MCMessages ==
    <<<<>>, <<<<"word", "story">>, <<"#", 1>>, ADR(1)>>, <<<<"#", 2>>>>,
      <<<<"url", "pull">>>>, <<<<"word", "see">>, ADR(2)>>, <<>>>>

\* As committed, or with a line that is new.
MCTexts ==
    ({MCTrees[c][n] : c \in 1 .. 6, n \in 1 .. 2} \ {Absent}) \union {<<"new", "k", "m", "l">>}
===============================================================================
