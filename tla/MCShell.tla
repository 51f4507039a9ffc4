------------------------------- MODULE MCShell -------------------------------
(* Instances of the shell: the programs and the texts given to it.          *)
EXTENDS Shell, TLC

\* w writes more than a pipe holds, c copies its input, f fails.
Programs == (<<"w">> :> [out |-> 2, copy |-> FALSE, code |-> 0])
         @@ (<<"c">> :> [out |-> 0, copy |-> TRUE, code |-> 0])
         @@ (<<"f">> :> [out |-> 0, copy |-> FALSE, code |-> 1])

Or  == <<"|", "|">>
And == <<"&", "&">>

\* Three programs with any operators, with and without spaces.
Lists == {<<x>> \o o \o <<y>> \o p \o <<z>> :
            x, y, z \in {"w", "c", "f"}, o, p \in {<<"|">>, Or, And}}
\* A list left to a subshell, and a line after it; redirections; builtins; lines
\* that bash would refuse.
Others ==
    {<<x>> \o o \o <<y, "&", NEWLINE, "w", "|", "c">> :
        x \in {"w", "f"}, y \in {"c", "f"}, o \in {<<"|">>, Or, And}}
    \union {<<x, "|", y>> \o a \o <<"o", NEWLINE, "f">> :
        x, y \in {"w", "c", "f"}, a \in {<<">">>, <<">", ">">>}}
    \union {<<"exit", " ", "3", "|", "c", NEWLINE, "exit", " ", "3">>,
            <<"cd", " ", "a", NEWLINE, NEWLINE, "w", And[1], And[2], "c">>}
    \union {<<x, "|", " ", y, z>> : x, y \in {"w", "f"}, z \in {"|", "&"}}
    \union {<<"|", " ", "w">>, <<"w", "|", " ", "|", "c">>}

\* A redirection of what a list may have skipped.
Redirected == {<<x>> \o o \o <<y, ">", "o">> : x, y \in {"w", "f"}, o \in {Or, And}}

\* Texts of up to two words of two characters, written in three ways.
Chars  == {"a", " ", "\\", "'", "\"", "|"}
Words  == {<<x>> : x \in Chars} \union {<<x, y>> : x, y \in Chars}
\* A backslash may stay single before a character it cannot escape.
Quoted(word, quote, single) ==
    LET Stays(i) == /\ single /\ i < Len(word)
                    /\ word[i + 1] \notin {quote, "\\"}
        Char(i) == IF word[i] = quote \/ (word[i] = "\\" /\ ~Stays(i))
                   THEN <<"\\", word[i]>> ELSE <<word[i]>>
    IN <<quote>> \o FlattenSeq([i \in DOMAIN word |-> Char(i)]) \o <<quote>>
Escaped(word) ==
    FlattenSeq([i \in DOMAIN word |->
        IF word[i] = "a" THEN <<"a">> ELSE <<"\\", word[i]>>])
Written(word) == {Escaped(word)}
    \union {Quoted(word, quote, single) : quote \in Quotes, single \in BOOLEAN}

Texts == UNION {{<<a \o <<" ">> \o b, <<u, v>>>> :
                     a \in Written(u), b \in Written(v)} :
                   u \in Words, v \in {<<"a">>, <<"|", " ">>, <<"\\">>}}
WrittenTexts == {t[1] : t \in Texts}
AllScripts == Lists \union Others \union Redirected \union WrittenTexts

\* The words of a line reach the commands as they were written, whichever way
\* they were quoted or escaped.
WordsKept ==
    Reaches(MAIN, "parsed") /\ script \in WrittenTexts
        => <<script, FlattenSeq(sh[MAIN].commands)>> \in Texts

=============================================================================
