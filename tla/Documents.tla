------------------------------- MODULE Documents -------------------------------
(***************************************************************************)
(* What documents say (crates/rationale-docs), and the local evidence that *)
(* a sync makes of them and of the commits (prepare_evidence): pure        *)
(* functions of files that were read.                                      *)
(*                                                                         *)
(* An identifier is a pair of a prefix and what follows it; a path is its  *)
(* place in the order of the paths; a file is what parsing tells apart: a  *)
(* file without rationale, one of the ways to be malformed, or the         *)
(* metadata with the identifiers its text mentions.                        *)
(***************************************************************************)
EXTENDS Naturals, Sequences, SequencesExt

CONSTANTS
    Manifests,      \* the paths of verification manifests; others are Markdown
    MaxDocuments,
    Absent

\* IdPatterns::kind: the prefixes of an identifier, most specific kind first.
KindOfPrefix == ("ADR-" :> "decision") @@ ("VERIFY-" :> "verification")
                    @@ ("#" :> "work_item") @@ ("ISSUE-" :> "work_item")
                    @@ ("STORY-" :> "work_item")

KindOf(id) == IF id[1] \in DOMAIN KindOfPrefix THEN KindOfPrefix[id[1]] ELSE Absent

\* validate_id: an identifier that is too long or has other characters is written
\* with this prefix.
IsValid(id) == id[1] # "invalid"

\* parse_status.
StatusOf(word) ==
    IF word \in {"accepted", "current"} THEN "current"
    ELSE IF word = "historical" THEN "historical" ELSE Absent

\* Where evidence comes from: a document, a commit's message; or, of a conflict
\* that is not resolved, the rule.
File(path) == <<"file", path>>
Message(commit) == <<"message", commit>>
Rule(rule) == <<"rule", rule>>

Node(id, kind, status, from) == [id |-> id, kind |-> kind, status |-> status, from |-> from]
Link(kind, source, target, status, from) ==
    [kind |-> kind, source |-> source, target |-> target, status |-> status, from |-> from]
Diagnostic(at, code) == [at |-> at, code |-> code]

\* The three outcomes of a parser.
NoRationale == [outcome |-> "none"]
Failed(code) == [outcome |-> "failed", code |-> code]
Parsed(node, links, conflicts) ==
    [outcome |-> "parsed", node |-> node, links |-> links, conflicts |-> conflicts]

-----------------------------------------------------------------------------
(* One file. *)

\* What a parser may be given: the ways in which it is, or is not, what it should be.
Forms(path) ==
    IF path \in Manifests THEN {"verification", "undecodable", "deep"}
    ELSE {"plain", "unclosed", "undecodable", "deep", "unknown_field", "rationale"}

Links(kind, source, targets, status, from) ==
    {Link(kind, source, t, status, from) : t \in targets}

\* normalize_markdown: the text's identifiers are documented as well, except the
\* record's own.
NormalizeMarkdown(path, m) ==
    LET kind == IF m.kind # Absent THEN m.kind ELSE KindOf(m.id)
        status == StatusOf(m.status)
        documents == (m.documents \union {i \in m.mentions : KindOf(i) # Absent}) \ {m.id}
        named == documents \union m.supersedes \union m.verified_by
                    \union {c.with : c \in m.conflicts}
        To(k, targets) == Links(k, m.id, targets, status, File(path))
    IN  IF /\ \A i \in named \union {m.id} : IsValid(i)
           /\ kind # Absent /\ status # Absent
           /\ \A c \in m.conflicts : c.rule_id # ""
        THEN Parsed(Node(m.id, kind, status, File(path)),
                    To("Documents", documents) \union To("Supersedes", m.supersedes)
                        \union To("VerifiedBy", m.verified_by),
                    {[left |-> m.id, right |-> c.with, rule_id |-> c.rule_id] : c \in m.conflicts})
        ELSE Failed("invalid_rationale")

\* front_matter and decode_rationale.
ParseMarkdown(path, file) ==
    CASE file.form = "plain" -> NoRationale
      [] file.form \in {"unclosed", "undecodable"} -> Failed("invalid_front_matter")
      [] file.form = "deep" -> Failed("structured_nesting")
      [] file.form = "unknown_field" -> Failed("invalid_rationale")
      [] file.form = "rationale" -> NormalizeMarkdown(path, file)

\* parse_verification: the edges lead from the targets to the manifest's record.
ParseVerification(path, file) ==
    IF file.form = "deep" THEN Failed("structured_nesting")
    ELSE IF /\ file.form = "verification"
            /\ file.version = 1 /\ file.artifact # "" /\ file.targets # {}
            /\ \A i \in file.targets \union {file.id} : IsValid(i)
            /\ StatusOf(file.status) # Absent
    THEN LET status == StatusOf(file.status)
         IN  Parsed(Node(file.id, "verification", status, File(path)),
                    {Link("VerifiedBy", t, file.id, status, File(path)) : t \in file.targets},
                    {})
    ELSE Failed("invalid_verification")

Parse(path, file) ==
    IF path \in Manifests THEN ParseVerification(path, file) ELSE ParseMarkdown(path, file)

-----------------------------------------------------------------------------
(* All files. *)

Ingested(records, links, conflicts, diagnostics) ==
    [records |-> records, links |-> links, conflicts |-> conflicts, diagnostics |-> diagnostics]

Quarantine(r, path, code) ==
    [r EXCEPT !.diagnostics = @ \union {Diagnostic(File(path), code)}]

Put(records, node) ==
    [id \in DOMAIN records \union {node.id} |-> IF id = node.id THEN node ELSE records[id]]

\* Mutant of Add: a later record takes the identifier.
AddOver(r, p) ==
    Ingested(Put(r.records, p.node), r.links \union p.links,
             r.conflicts \union p.conflicts, r.diagnostics)

\* A record, unless another file has defined its identifier.
Add(r, p) ==
    IF p.node.id \in DOMAIN r.records /\ r.records[p.node.id] # p.node
    THEN Quarantine(r, p.node.from[2], "duplicate_record")
    ELSE Ingested(Put(r.records, p.node), r.links \union p.links,
                  r.conflicts \union p.conflicts, r.diagnostics)

\* The i-th file.
Take(r, i, input) ==
    LET p == Parse(input.path, input.file)
    IN  IF i > MaxDocuments THEN Quarantine(r, input.path, "document_limit")
        ELSE CASE p.outcome = "none" -> r
               [] p.outcome = "failed" -> Quarantine(r, input.path, p.code)
               [] p.outcome = "parsed" -> Add(r, p)

\* DocumentIngestor::ingest, of files in the order of their paths.
Ingest(inputs) ==
    LET Through[n \in 0 .. Len(inputs)] ==
            IF n = 0 THEN Ingested(<<>>, {}, {}, {})
            ELSE Take(Through[n - 1], n, inputs[n])
    IN  Through[Len(inputs)]

-----------------------------------------------------------------------------
(* Commits and documents together. *)

CommitNode(commit) == Node(commit.id, "change", "current", Message(commit.id))

\* commit_reference_edges: a URL gives none.
CommitLinks(commit) ==
    {Link(IF r.kind = "Decision" THEN "Documents" ELSE "ResolvesIssue",
          commit.id, r.value, "current", Message(commit.id)) :
        r \in {x \in commit.references : x.kind # "ForgeUrl"}}

Unresolved(links, conflicts) ==
    {Diagnostic(l.from, "unresolved_reference") : l \in links}
        \union {Diagnostic(Rule(c.rule_id), "unresolved_conflict") : c \in conflicts}

\* A commit takes the identifier of a document.
AllRecords(commits, records) ==
    LET ids == {c.id : c \in commits}
    IN  [id \in ids \union DOMAIN records |->
            IF id \in ids THEN CommitNode([id |-> id]) ELSE records[id]]

\* Mutant of PrepareEvidence: links that name an absent record are kept.
PrepareLoosely(commits, ingested, scanned) ==
    Ingested(AllRecords(commits, ingested.records),
             ingested.links \union UNION {CommitLinks(c) : c \in commits},
             ingested.conflicts, scanned \union ingested.diagnostics)

\* prepare_evidence: what names a record that is not local becomes a diagnostic.
PrepareEvidence(commits, ingested, scanned) ==
    LET records == AllRecords(commits, ingested.records)
        links == ingested.links \union UNION {CommitLinks(c) : c \in commits}
        resolved == {l \in links : {l.source, l.target} \subseteq DOMAIN records}
        conflicts == {c \in ingested.conflicts : {c.left, c.right} \subseteq DOMAIN records}
    IN  Ingested(records, resolved, conflicts,
                 scanned \union ingested.diagnostics
                     \union Unresolved(links \ resolved, ingested.conflicts \ conflicts))
================================================================================
