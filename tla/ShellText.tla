------------------------------ MODULE ShellText ------------------------------
(***************************************************************************)
(* How the shell of homework 2 reads a line, cuts it into tokens and groups *)
(* the tokens into commands (utils.c, tokenizer.c, parser.c).              *)
(*                                                                         *)
(* A text is a sequence of characters; a character is a string, and a      *)
(* whole word may stand for one character when nothing looks inside it.    *)
(* A token is a text, a command the sequence of its name and arguments.    *)
(***************************************************************************)
EXTENDS Integers, Sequences, SequencesExt

NEWLINE   == "newline"
Blanks    == {" ", NEWLINE}          \* a tab behaves like a space
Quotes    == {"'", "\""}
Operators == {">", "&", "|"}
NoChar    == "none"                  \* NO_QUOTES_USED, and no operator before

-----------------------------------------------------------------------------
(* The reader: characters up to a newline that is neither escaped nor in    *)
(* quotes. size is the capacity of the buffer, without the terminator.      *)

StartLine == [line |-> <<>>, size |-> 1, escaping |-> FALSE,
              quote |-> NoChar, done |-> FALSE]

\* A mistake to be caught: the buffer is grown one character late.
GrowLate(r) ==
    [r EXCEPT !.size = IF Len(r.line) > @ THEN @ * 10 ELSE @]
Grow(r) ==
    [r EXCEPT !.size = IF Len(r.line) = @ THEN @ * 10 ELSE @]

QuoteAfter(r, ch) ==
    IF ch \in Quotes /\ ~r.escaping
    THEN CASE r.quote = ch     -> NoChar
           [] r.quote = NoChar -> ch
           [] OTHER            -> r.quote
    ELSE r.quote

ReadChar(r, ch) ==
    IF ch = NEWLINE /\ ~r.escaping /\ r.quote = NoChar
    THEN [r EXCEPT !.done = TRUE]
    ELSE IF ch = NEWLINE /\ r.escaping          \* takes the backslash back
    THEN [Grow(r) EXCEPT !.line = Front(@), !.escaping = FALSE]
    ELSE [Grow(r) EXCEPT !.line = Append(@, ch),
                         !.escaping = ch = "\\" /\ ~@,
                         !.quote = QuoteAfter(r, ch)]

-----------------------------------------------------------------------------
(* The tokenizer. open says that an unquoted token has started, operator    *)
(* holds an operator character that the next one may double.                *)

NoTokens == [tokens |-> <<>>, current |-> <<>>, open |-> FALSE,
             escaped |-> FALSE, quote |-> NoChar, operator |-> NoChar]

CloseToken(t) ==
    IF t.open
    THEN [t EXCEPT !.tokens = Append(@, t.current),
                   !.current = <<>>, !.open = FALSE]
    ELSE t

\* Inside quotes a backslash escapes only itself and the quote in use.
\* A mistake to be caught: an escaped character always loses its backslash.
QuotedCharBare(t, ch) ==
    CASE ~t.escaped /\ ch = t.quote ->
           [CloseToken(t) EXCEPT !.quote = NoChar]
      [] ~t.escaped /\ ch = "\\" -> [t EXCEPT !.escaped = TRUE]
      [] OTHER ->
           [t EXCEPT !.current = Append(@, ch), !.escaped = FALSE]
QuotedChar(t, ch) ==
    CASE ~t.escaped /\ ch = t.quote ->
           [CloseToken(t) EXCEPT !.quote = NoChar]
      [] ~t.escaped /\ ch = "\\" -> [t EXCEPT !.escaped = TRUE]
      [] OTHER ->
           [t EXCEPT !.current =
                IF t.escaped /\ ch \notin {t.quote, "\\"}
                THEN @ \o <<"\\", ch>> ELSE Append(@, ch),
            !.escaped = FALSE]

OperatorChar(t, ch) ==
    IF t.operator = ch
    THEN [t EXCEPT !.tokens = Append(Front(@), <<ch, ch>>),
                   !.operator = NoChar]
    ELSE LET u == CloseToken(t) IN
         [u EXCEPT !.tokens = Append(@, <<ch>>), !.operator = ch]

PlainChar(t, ch) ==
    CASE ~t.escaped /\ ch \in Blanks ->
           [CloseToken(t) EXCEPT !.operator = NoChar]
      [] ~t.escaped /\ ch \in Quotes ->
           [CloseToken(t) EXCEPT !.quote = ch, !.open = TRUE,
                                 !.operator = NoChar]
      [] ~t.escaped /\ ch \in Operators -> OperatorChar(t, ch)
      [] ~t.escaped /\ ch = "\\" ->
           [t EXCEPT !.open = TRUE, !.escaped = TRUE, !.operator = NoChar]
      [] OTHER ->
           [t EXCEPT !.open = TRUE, !.current = Append(@, ch),
                     !.escaped = FALSE, !.operator = NoChar]

get_one_token(t, ch) ==
    IF t.quote = NoChar THEN PlainChar(t, ch) ELSE QuotedChar(t, ch)

-----------------------------------------------------------------------------
(* The parser: an operator is a command without arguments.                  *)

is_operator(token) == token # <<>> /\ Head(token) \in Operators

\* A token starts a command unless it follows a word.
AddToken(commands, token) ==
    IF \/ commands = <<>>
       \/ is_operator(token)
       \/ is_operator(Head(Last(commands)))
    THEN Append(commands, <<token>>)
    ELSE [commands EXCEPT ![Len(commands)] = Append(@, token)]

=============================================================================
