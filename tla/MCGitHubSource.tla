---------------------------- MODULE MCGitHubSource ----------------------------
(* An instance of GitHubSource for TLC. *)
EXTENDS GitHubSource

CONSTANTS c, d      \* commits

MCLower == [n \in {"o", "O", "p", "n"} |-> IF n = "O" THEN "o" ELSE n]
MCRepositories == {<<"o", "n">>, <<"p", "n">>}

\* Two spellings of one repository, another one, and what is none.
MCRemotes ==
    [github : {TRUE}, plain : {TRUE}, path : {<<"o", "n">>, <<"O", "n">>, <<"p", "n">>}]
        \union {[github |-> TRUE, plain |-> TRUE, path |-> <<"o", "n", "n">>]}

\* Pull request 2 closes issue 1; then it only names it, with a keyword that
\* stands elsewhere, closes issue 3, and has a second commit.
MCContents ==
    [n \in 1 .. 4 |->
        IF n = 2
        THEN {[body |-> <<Keyword, Reference(Absent, 1)>>, commits |-> <<c>>],
              [body |-> <<Keyword, Prose, Reference(Absent, 1), Keyword,
                          Reference(<<"o", "n">>, 3)>>, commits |-> <<c, d>>]}
        ELSE {[body |-> <<>>, commits |-> <<>>]}]

First(n) ==
    Item(n, 0, CHOOSE x \in MCContents[n] : Len(x.commits) < 2)

MCInitialForge ==
    [r \in MCRepositories |->
        IF r = <<"o", "n">> THEN <<First(2), First(3), First(1)>> ELSE <<First(1)>>]
===============================================================================
