---------------------------- MODULE MCSettings ----------------------------
(***************************************************************************)
(* Settings for TLC: three options, one of each kind of type, and every    *)
(* file of up to MaxLines lines of a few kinds.                            *)
(***************************************************************************)
EXTENDS Settings, SequencesExt

CONSTANT MaxLines

MCTypeOf  == [debug |-> "int", dbname |-> "str", flag |-> "bool"]
MCDefault == [debug |-> 9, dbname |-> 9, flag |-> 0]

Assign(o, v, q) == [kind |-> "assign", name |-> o, value |-> v, quoted |-> q]

MCLines == {[kind |-> "section", names |-> {"test", "bars"}],
            [kind |-> "section", names |-> {"baz"}],
            [kind |-> "class", name |-> "new"],
            [kind |-> "class", name |-> "old"],
            [kind |-> "bare"], [kind |-> "blank"],
            Assign("debug", 1, FALSE), Assign("debug", 2, TRUE), Assign("dbname", 1, TRUE),
            Assign("dbname", 2, FALSE), Assign("flag", 1, FALSE), Assign("nosuch", 1, FALSE)}

MCTitles  == {l \in MCLines : l.kind \in {"section", "class"}}
MCAssigns == {[kind |-> "blank"], Assign("debug", 1, FALSE), Assign("debug", 2, TRUE)}

\* The files of up to MaxLines lines, those with titles and one line more, and
\* those that assign before, between and after two titles.
MCFiles  == SeqOf(MCLines, MaxLines)
            \cup {Append(t, l) : t \in SeqOf(MCTitles, MaxLines), l \in MCLines}
            \cup {<<a, s, b, t, c>> : a, b, c \in MCAssigns, s, t \in MCTitles}

\* After a restart, one line at most.
MCEdited == SeqOf(MCLines, 1)

Opt(o, v) == [name |-> o, value |-> v]

MCCommandLines == {<<>>, <<Opt("debug", 3)>>, <<Opt("debug", 3), Opt("debug", 4)>>,
                   <<Opt("f", 0), Opt("flag", 1)>>,
                   <<Opt("debug", 3), Opt("?", 0)>>, <<Opt("?", 0), Opt("debug", 3)>>}
=============================================================================
