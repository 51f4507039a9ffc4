----------------------------- MODULE ShellProofs -----------------------------
(***************************************************************************)
(* What holds of the shell of homework 2 for all scripts, programs, sizes  *)
(* of pipes and numbers of processes. The invariant IInv says where main   *)
(* is in its line, which children it has and for which commands, which     *)
(* ends of which pipes every process holds, and that what the line has     *)
(* asked for so far has been done. Every action keeps it; the properties   *)
(* of Shell follow.                                                        *)
(***************************************************************************)
EXTENDS Shell, TLAPS, FiniteSetTheorems, SequenceTheorems, WellFoundedInduction

-----------------------------------------------------------------------------
(***************************************************************************)
(* The inductive invariant                                                 *)
(***************************************************************************)

Token   == Seq(Characters)
Command == {c \in Seq(Token) : c # <<>>}
Pcs == {"none", "read", "tokenize", "parse", "parsed", "loop", "forked", "output",
        "end", "reap", "wait", "exited"}
MaybeFd == Fds \cup {NONE}
Ends == {Closed, Terminal} \cup {R(p) : p \in Children} \cup {W(p) : p \in Children}

ReaderState == [line : Token, size : Nat, escaping : BOOLEAN, quote : Characters,
                done : BOOLEAN]
TokenState == [tokens : Seq(Token), current : Token, open : BOOLEAN,
               escaped : BOOLEAN, quote : Characters, operator : Characters]
ShellState == [pc : Pcs, commands : Seq(Command), logical : Int, ptr : Nat,
               operator : Token, pipe : MaybeFd, fd0 : MaybeFd, fd1 : MaybeFd,
               last : Children \cup {NONE}, kids : Seq(Children), status : Codes,
               code : Codes, eof : BOOLEAN]
ChildState == [st : {"none", "forked", "running", "zombie", "reaped"},
               parent : Shells \cup {NONE}, ptr : Nat, pipe : MaybeFd,
               fd0 : MaybeFd, fd1 : MaybeFd, out : Nat, copy : BOOLEAN, code : Codes]

\* Reading and cutting up a line.
TextOK ==
  /\ input \in Token /\ reader \in ReaderState
  /\ reader.size > 0 /\ Len(reader.line) <= reader.size
  /\ reader.escaping => reader.line # <<>>
  /\ lexer.tokens \in TokenState
  /\ lexer = [left |-> lexer.left, tokens |-> lexer.tokens]
  /\ Reaches(MAIN, "tokenize") => lexer.left \in Token
  /\ Reaches(MAIN, "parse") => lexer.left \in Seq(Token)

Typed ==
  /\ sh \in [Shells -> ShellState]
  /\ proc \in [Children -> ChildState]
  /\ fds \in [Shells \cup Children -> [Fds -> Ends]]
  /\ buf \in [Children -> 0..PIPE_SIZE]

\* Between two lines, and in one.
Idle == {"none", "read", "tokenize", "parse", "parsed", "exited"}
Busy == {"loop", "forked", "output", "end", "reap", "wait"}
\* Busy with the command at ptr.
Taken == {"forked", "output", "end"}

LimitOf(r) ==
  LET n == Len(r.commands)
      m == IF n > 1 /\ Name(r.commands[n - 1]) \in {<<">">>, <<">", ">">>}
           THEN n - 2 ELSE n
  IN IF m < r.logical THEN m ELSE r.logical

\* How far the line has been dealt with.
Done(r) == IF r.pc \in Taken THEN r.ptr + 1
           ELSE IF r.pc = "wait" THEN Len(r.commands) ELSE r.ptr

Operates(r, i) == is_operator(Name(r.commands[i]))

\* Where main is in its line.
Shape(r) ==
  /\ r.pc \in Idle => /\ r.ptr = 0 /\ r.operator = <<>> /\ r.pipe = NONE
                      /\ r.last = NONE /\ r.kids = <<>>
  /\ r.pc = "parsed" => r.logical = Len(r.commands) /\ r.logical > 0
  /\ r.pc \in Busy => r.ptr <= r.logical /\ r.logical <= Len(r.commands)
  /\ r.pc \in Taken => r.ptr < r.logical /\ ~ Operates(r, r.ptr + 1)
  /\ r.pc = "forked" => r.operator = <<>>
  /\ r.pc \in {"output", "end"} => LimitOf(r) <= r.ptr + 1
  /\ r.pipe # NONE => r.pc \in {"loop", "forked", "output", "end"} /\ r.kids # <<>>
  /\ r.pc = "reap" => r.kids # <<>>
  /\ r.kids # <<>> /\ r.pc # "wait" => r.last = r.kids[1]
  /\ r.pc = "wait" => \A k \in 2..Len(r.kids) : r.kids[k] # r.last
  /\ r.pc \in {"loop", "reap"} =>
       /\ r.ptr = 0 => r.operator = <<>>
       /\ r.ptr > 0 /\ Operates(r, r.ptr) => r.operator = Name(r.commands[r.ptr])

\* The list of children: those of this line, the newest first.
KidsOK(s, r, pr) ==
  /\ \A k \in 1..Len(r.kids) :
       /\ pr[r.kids[k]].st # "none" /\ pr[r.kids[k]].parent = s
       /\ pr[r.kids[k]].ptr > 0 /\ pr[r.kids[k]].ptr <= Done(r)
       /\ ~ Operates(r, pr[r.kids[k]].ptr)
  /\ \A k, l \in 1..Len(r.kids) : k < l => pr[r.kids[l]].ptr < pr[r.kids[k]].ptr
  /\ \A p \in Children :
       pr[p].parent = s /\ pr[p].st # "reaped" => \E k \in 1..Len(r.kids) : r.kids[k] = p
  /\ r.pc \in Taken => r.kids # <<>> /\ pr[r.kids[1]].ptr = r.ptr + 1

\* What a shell starts with, and what it holds besides.
Base(s) == [n \in Fds |-> IF n < 3 /\ (s # SUB \/ n # 0) THEN Terminal ELSE Closed]

Held(r) == {n \in Fds : \/ n = r.pipe
                        \/ n = r.fd0 /\ r.pc \in {"forked", "output"}
                        \/ n = r.fd1 /\ r.pc = "forked"}

TableOK(s, r, table) ==
  /\ r.pc \in {"none", "exited"} => \A n \in Fds : table[n] \in {Closed, Terminal}
  /\ r.pc \notin {"none", "exited"} =>
       /\ \A n \in Fds \ Held(r) : table[n] = Base(s)[n]
       /\ \A n \in Held(r) : Base(s)[n] = Closed
       /\ r.pipe # NONE =>
            \E q \in Children : table[r.pipe] = R(q) /\ (r.pc = "loop" => q = r.kids[1])
       /\ r.pc \in {"forked", "output"} =>
            r.fd0 \in Fds /\ table[r.fd0] = R(r.kids[1]) /\ r.fd0 # r.pipe
       /\ r.pc = "forked" =>
            /\ r.fd1 \in Fds /\ table[r.fd1] = W(r.kids[1])
            /\ r.fd1 # r.fd0 /\ r.fd1 # r.pipe /\ r.fd1 # 0

Ran(r, pr, i) == \E k \in 1..Len(r.kids) : pr[r.kids[k]].ptr = i

\* The newest child for a command at i or before.
Latest(r, pr, p, i) ==
  /\ pr[p].ptr <= i
  /\ \A k \in 1..Len(r.kids) : pr[r.kids[k]].ptr <= i => pr[r.kids[k]].ptr <= pr[p].ptr

\* The command behind the operator at i was run or skipped as the list asks for.
Decided(r, pr, i) ==
  IF Name(r.commands[i]) = <<"|">>
  THEN Ran(r, pr, i + 1) <=> Ran(r, pr, i - 1)
  ELSE \E k \in 1..Len(r.kids) :
         /\ Latest(r, pr, r.kids[k], i - 1) /\ pr[r.kids[k]].st = "reaped"
         /\ Ran(r, pr, i + 1) <=> IF Name(r.commands[i]) = <<"|", "|">>
                                  THEN pr[r.kids[k]].code # 0
                                  ELSE pr[r.kids[k]].code = 0

\* No child of the line has been forgotten.
Whole(r) == r.pc = "wait" => r.kids # <<>> /\ r.kids[1] = r.last

ListOK(r, pr) ==
  /\ Done(r) > 0 => Ran(r, pr, 1)
  /\ \A i \in 2..Len(r.commands) :
       i % 2 = 0 /\ i < Done(r) /\ i < LimitOf(r) => Decided(r, pr, i)
  /\ r.pc \in {"loop", "reap"} =>
       \A w \in {r.ptr, r.ptr - 1} :
         w > 0 /\ w % 2 = 1 /\ w < LimitOf(r) /\ Ran(r, pr, w)
         => r.pipe # NONE \/ (w = r.ptr - 1 /\ Name(r.commands[r.ptr]) # <<"|">>)

LineOK(r, pr) ==
  /\ r.pc = "loop" /\ r.kids # <<>> /\ r.pipe = NONE =>
       pr[r.kids[1]].st = "reaped" /\ r.code = pr[r.kids[1]].code
  /\ r.pc = "loop" /\ r.pipe # NONE =>
       /\ \A i \in (pr[r.kids[1]].ptr + 1)..r.ptr : Operates(r, i)
       /\ pr[r.kids[1]].ptr = r.ptr => r.operator = <<>>
  /\ r.pc \in Busy /\ WellFormed(r.commands, LimitOf(r)) /\ Whole(r) => ListOK(r, pr)

ShellOK(s, r, pr, table) ==
  /\ Shape(r) /\ KidsOK(s, r, pr) /\ TableOK(s, r, table) /\ LineOK(r, pr)

\* The descriptors of a child, and whose output it reads.
ChildOK(p, pr, table, commands) ==
  /\ pr[p].st = "none" => pr[p] = NoProc
  /\ pr[p].st \in {"none", "zombie", "reaped"} => table = NoFds
  /\ pr[p].st # "none" => pr[p].parent \in Shells
  /\ \A n \in Fds, q \in Children : table[n] = W(q) => q = p
  /\ pr[p].st = "forked" =>
       /\ pr[p].fd0 \in Fds \ {1} /\ pr[p].fd1 \in Fds \ {0, 1} /\ table[pr[p].fd1] = W(p)
       /\ pr[p].fd1 # pr[p].fd0 /\ pr[p].fd1 # pr[p].pipe
       /\ pr[p].parent = MAIN => pr[p].fd0 # 0 /\ pr[p].pipe # 0
  /\ pr[p].st = "running" => table[1] = W(p)
  /\ pr[p].st \in {"forked", "running"} /\ pr[p].parent = MAIN /\ pr[p].pipe # NONE =>
       \E q \in Children :
         /\ table[IF pr[p].st = "forked" THEN pr[p].pipe ELSE 0] = R(q)
         /\ pr[q].parent = MAIN /\ pr[q].ptr < pr[p].ptr
         /\ \A i \in (pr[q].ptr + 1)..(pr[p].ptr - 1) : is_operator(Name(commands[i]))

IInv ==
  /\ TextOK /\ Typed
  /\ \A s \in Shells : ShellOK(s, sh[s], proc, fds[s])
  /\ \A p \in Children : ChildOK(p, proc, fds[p], sh[MAIN].commands)

\* NoChar and the backslash may always stand in a token.
LEMMA Characters1 == NoChar \in Characters /\ "\\" \in Characters
  BY DEF Characters

\* A sequence of one element.
LEMMA ShortSeq ==
  ASSUME NEW T, NEW a \in T, NEW b \in T
  PROVE  <<>> \in Seq(T) /\ <<a>> \in Seq(T) /\ <<a, b>> \in Seq(T) /\ <<a>> # <<>>
  OBVIOUS

\* A sequence without its last element.
LEMMA FrontType ==
  ASSUME NEW T, NEW s \in Seq(T)
  PROVE  /\ Front(s) \in Seq(T)
         /\ s # <<>> => Len(Front(s)) = Len(s) - 1
  <1>1. Len(s) \in Nat /\ Len(s) - 1 \in Int /\ \A i \in 1..(Len(s) - 1) : s[i] \in T
    BY LenProperties, ElementOfSeq
  <1>2. s # <<>> => Len(s) > 0
    BY EmptySeq
  <1>3. PICK n \in Int : n = Len(s) - 1
    BY <1>1
  <1>4. \A i \in 1..n : s[i] \in T
    BY <1>1, <1>3
  <1>5. SubSeq(s, 1, n) \in Seq(T) /\ Len(SubSeq(s, 1, n)) = IF 1 <= n THEN n - 1 + 1 ELSE 0
    BY <1>3, <1>4, SubSeqProperties
  <1>6. Front(s) = SubSeq(s, 1, n)
    BY <1>3 DEF Front
  <1>7. s # <<>> => Len(SubSeq(s, 1, n)) = n
    BY <1>1, <1>2, <1>3, <1>5
  <1> QED BY <1>3, <1>5, <1>6, <1>7

\* read_stdin_line, one character: the buffer is large enough for the line.
LEMMA ReadCharOK ==
  ASSUME NEW r \in ReaderState, NEW ch \in Characters,
         r.size > 0, Len(r.line) <= r.size, r.escaping => r.line # <<>>
  PROVE  LET q == ReadChar(r, ch)
         IN /\ q \in ReaderState /\ q.size > 0 /\ Len(q.line) <= q.size
            /\ q.escaping => q.line # <<>>
  <1>1. /\ r.line \in Token /\ Len(r.line) \in Nat /\ r.size \in Nat /\ r.quote \in Characters
        /\ r.escaping \in BOOLEAN /\ r.done \in BOOLEAN
    BY LenProperties DEF ReaderState, Token
  <1>2. /\ Front(r.line) \in Token /\ Append(r.line, ch) \in Token
        /\ Len(Append(r.line, ch)) = Len(r.line) + 1 /\ Append(r.line, ch) # <<>>
        /\ r.line # <<>> => Len(Front(r.line)) = Len(r.line) - 1
    BY <1>1, FrontType, AppendProperties DEF Token
  <1> DEFINE g == Grow(r)
             size == IF Len(r.line) = r.size THEN r.size * 10 ELSE r.size
  <1>3. g = [r EXCEPT !.size = size] /\ size \in Nat /\ size > 0 /\ Len(r.line) + 1 <= size
    BY <1>1 DEF Grow
  <1> HIDE DEF size
  <1>4. QuoteAfter(r, ch) \in Characters
    BY <1>1, Characters1 DEF QuoteAfter
  <1>5. CASE ch = NEWLINE /\ ~r.escaping /\ r.quote = NoChar
    <2>1. ReadChar(r, ch) = [r EXCEPT !.done = TRUE]
      BY <1>5 DEF ReadChar
    <2> QED BY <2>1, <1>1 DEF ReaderState
  <1>6. CASE ~ (ch = NEWLINE /\ ~r.escaping /\ r.quote = NoChar) /\ ch = NEWLINE /\ r.escaping
    <2>1. ReadChar(r, ch) = [r EXCEPT !.size = size, !.line = Front(r.line), !.escaping = FALSE]
      BY <1>3, <1>6 DEF ReadChar, ReaderState
    <2>2. /\ Front(r.line) \in Token /\ Len(Front(r.line)) = Len(r.line) - 1 /\ r.line # <<>>
          /\ Len(r.line) - 1 <= size
      BY <1>1, <1>2, <1>3, <1>6
    <2> DEFINE l == Front(r.line)
    <2>3. LET t == [r EXCEPT !.size = size, !.line = l, !.escaping = FALSE]
          IN t \in ReaderState /\ t.size = size /\ t.line = l /\ t.escaping = FALSE
      BY <2>2, <1>3 DEF ReaderState
    <2> QED BY <2>1, <2>2, <2>3, <1>3
  <1>7. CASE ~ (ch = NEWLINE /\ ~r.escaping /\ r.quote = NoChar) /\ ~ (ch = NEWLINE /\ r.escaping)
    <2> DEFINE e == ch = "\\" /\ ~ r.escaping
               q == QuoteAfter(r, ch)
               l == Append(r.line, ch)
    <2>0. e \in BOOLEAN
      OBVIOUS
    <2>1. ReadChar(r, ch) = [r EXCEPT !.size = size, !.line = l, !.escaping = e, !.quote = q]
      BY <1>3, <1>7 DEF ReadChar, ReaderState
    <2> HIDE DEF e, q, l
    <2>2. l \in Token /\ Len(l) <= size /\ l # <<>> /\ q \in Characters
      BY <1>1, <1>2, <1>3, <1>4 DEF l, q
    <2>3. LET t == [r EXCEPT !.size = size, !.line = l, !.escaping = e, !.quote = q]
          IN t \in ReaderState /\ t.size = size /\ t.line = l /\ t.escaping = e
      BY <2>0, <2>2, <1>3 DEF ReaderState
    <2> QED BY <2>1, <2>2, <2>3, <1>3
  <1> QED BY <1>5, <1>6, <1>7

\* Closing a token keeps the types of the tokenizer.
LEMMA CloseTokenType ==
  ASSUME NEW t \in TokenState
  PROVE  CloseToken(t) \in TokenState
  <1>1. Append(t.tokens, t.current) \in Seq(Token) /\ <<>> \in Token
    BY AppendProperties, EmptySeq DEF TokenState, Token
  <1> QED BY <1>1 DEF CloseToken, TokenState

\* get_one_token: tokens are texts.
LEMMA TokenType ==
  ASSUME NEW t \in TokenState, NEW ch \in Characters
  PROVE  get_one_token(t, ch) \in TokenState
  <1>1. /\ t.tokens \in Seq(Token) /\ t.current \in Token /\ t.quote \in Characters
        /\ t.operator \in Characters /\ t.open \in BOOLEAN /\ t.escaped \in BOOLEAN
    BY DEF TokenState
  <1> DEFINE u == CloseToken(t)
  <1>2. u \in TokenState /\ u.tokens \in Seq(Token) /\ NoChar \in Characters
    BY CloseTokenType, Characters1 DEF TokenState
  <1> HIDE DEF u
  <1> DEFINE a == Append(t.current, ch)
             b == t.current \o <<"\\", ch>>
  <1>3. a \in Token /\ b \in Token
    <2>1. <<"\\", ch>> \in Seq(Characters)
      BY ShortSeq, Characters1
    <2> QED BY <1>1, <2>1, AppendProperties, ConcatProperties DEF Token
  <1> HIDE DEF a, b
  <1>4. QuotedChar(t, ch) \in TokenState
    <2>1. CASE ~t.escaped /\ ch = t.quote
      BY <1>2, <2>1 DEF QuotedChar, TokenState, u
    <2>2. CASE ~ (~t.escaped /\ ch = t.quote) /\ ~t.escaped /\ ch = "\\"
      <3>1. QuotedChar(t, ch) = [t EXCEPT !.escaped = TRUE]
        BY <2>2 DEF QuotedChar
      <3> QED BY <3>1 DEF TokenState
    <2>3. CASE ~ (~t.escaped /\ ch = t.quote) /\ ~ (~t.escaped /\ ch = "\\")
      <3> DEFINE c == IF t.escaped /\ ch \notin {t.quote, "\\"} THEN b ELSE a
      <3>1. c \in Token
        BY <1>3
      <3>2. QuotedChar(t, ch) = [t EXCEPT !.current = c, !.escaped = FALSE]
        BY <2>3 DEF QuotedChar, a, b
      <3> HIDE DEF c
      <3> QED BY <3>1, <3>2 DEF TokenState
    <2> QED BY <2>1, <2>2, <2>3
  <1>5. OperatorChar(t, ch) \in TokenState
    <2>1. <<ch, ch>> \in Token /\ <<ch>> \in Token
      BY ShortSeq DEF Token
    <2>2. Append(Front(t.tokens), <<ch, ch>>) \in Seq(Token) /\ Append(u.tokens, <<ch>>) \in Seq(Token)
      BY <1>1, <1>2, <2>1, FrontType, AppendProperties
    <2>3. CASE t.operator = ch
      BY <1>2, <2>2, <2>3 DEF OperatorChar, TokenState
    <2>4. CASE t.operator # ch
      <3>1. OperatorChar(t, ch) = [u EXCEPT !.tokens = Append(u.tokens, <<ch>>), !.operator = ch]
        BY <2>4, <1>2 DEF OperatorChar, u, TokenState
      <3> QED BY <1>2, <2>2, <3>1 DEF TokenState
    <2> QED BY <2>3, <2>4
  <1>6. PlainChar(t, ch) \in TokenState
    <2> DEFINE A == ~t.escaped /\ ch \in Blanks
               B == ~t.escaped /\ ch \in Quotes
               C == ~t.escaped /\ ch \in Operators
               D == ~t.escaped /\ ch = "\\"
    <2>1. ~ (A /\ B) /\ ~ (A /\ C) /\ ~ (A /\ D) /\ ~ (B /\ C) /\ ~ (B /\ D) /\ ~ (C /\ D)
      BY DEF Blanks, Quotes, Operators, NEWLINE
    <2> DEFINE va == [CloseToken(t) EXCEPT !.operator = NoChar]
               vb == [CloseToken(t) EXCEPT !.quote = ch, !.open = TRUE, !.operator = NoChar]
               vc == OperatorChar(t, ch)
               vd == [t EXCEPT !.open = TRUE, !.escaped = TRUE, !.operator = NoChar]
               ve == [t EXCEPT !.open = TRUE, !.current = Append(@, ch),
                               !.escaped = FALSE, !.operator = NoChar]
    <2>2. PlainChar(t, ch) = CASE A -> va [] B -> vb [] C -> vc [] D -> vd [] OTHER -> ve
      BY DEF PlainChar
    <2>3. va \in TokenState /\ vb \in TokenState
      BY <1>2 DEF TokenState, u
    <2>4. vd \in TokenState
      BY <1>2 DEF TokenState
    <2>5. ve \in TokenState
      <3>1. ve = [t EXCEPT !.open = TRUE, !.current = a, !.escaped = FALSE, !.operator = NoChar]
        BY DEF a
      <3> QED BY <1>2, <1>3, <3>1 DEF TokenState
    <2> HIDE DEF A, B, C, D, va, vb, vc, vd, ve
    <2>6. vc \in TokenState
      BY <1>5 DEF vc
    <2>7. PlainChar(t, ch) \in {va, vb, vc, vd, ve}
      BY <2>1, <2>2
    <2> QED BY <2>3, <2>4, <2>5, <2>6, <2>7
  <1> QED BY <1>4, <1>6 DEF get_one_token

\* parse: a command has a name, and a token more makes at least one command.
LEMMA AddTokenType ==
  ASSUME NEW commands \in Seq(Command), NEW token \in Token
  PROVE  AddToken(commands, token) \in Seq(Command)
  <1>1. <<token>> \in Command
    BY ShortSeq DEF Command
  <1>2. Append(commands, <<token>>) \in Seq(Command)
    BY <1>1, AppendProperties
  <1>3. CASE commands # <<>>
    <2> DEFINE n == Len(commands)
    <2>1. n \in 1..Len(commands)
      BY <1>3, EmptySeq
    <2>2. commands[n] \in Command
      BY <2>1, ElementOfSeq
    <2>3. Append(commands[n], token) \in Command
      BY <2>2, AppendProperties DEF Command
    <2>4. [commands EXCEPT ![n] = Append(@, token)] = [commands EXCEPT ![n] = Append(commands[n], token)]
      OBVIOUS
    <2> HIDE DEF n
    <2>5. [commands EXCEPT ![n] = Append(commands[n], token)] \in Seq(Command)
      BY <2>1, <2>3, ExceptSeq
    <2> QED BY <1>2, <2>4, <2>5 DEF AddToken, n
  <1> QED BY <1>2, <1>3 DEF AddToken

-----------------------------------------------------------------------------
(* What a step leaves alone.                                               *)

\* The children of s stay its children, for the same commands.
Same(s, pr, pr2) ==
  \A p \in Children : pr[p].parent = s \/ pr2[p].parent = s =>
    /\ pr[p].parent = s /\ pr2[p].parent = s /\ pr2[p].ptr = pr[p].ptr
    /\ pr[p].st # "none" => pr2[p].st # "none"
    /\ pr[p].st = "reaped" => pr2[p].st = "reaped" /\ pr2[p].code = pr[p].code

\* A shell is either between two lines or in one.
LEMMA PcKinds ==
  ASSUME NEW r \in ShellState
  PROVE  /\ r.pc \in Idle \/ r.pc \in Busy
         /\ ~ (r.pc \in Idle /\ r.pc \in Busy)
         /\ r.pc \in Taken => r.pc \in Busy
  BY DEF ShellState, Pcs, Idle, Busy, Taken

\* The list of children is a sequence of children.
LEMMA KidTypes ==
  ASSUME NEW r \in ShellState
  PROVE  /\ Len(r.kids) \in Nat
         /\ \A k \in 1..Len(r.kids) : r.kids[k] \in Children
         /\ r.kids # <<>> <=> 1 \in 1..Len(r.kids)
         /\ r.kids # <<>> => r.kids[1] \in Children
  <1>1. r.kids \in Seq(Children)
    BY DEF ShellState
  <1>2. Len(r.kids) \in Nat /\ (r.kids # <<>> <=> Len(r.kids) > 0)
    BY <1>1, EmptySeq, LenProperties
  <1>3. \A k \in 1..Len(r.kids) : r.kids[k] \in Children
    BY <1>1, ElementOfSeq
  <1> QED BY <1>2, <1>3

\* A command has a name, and a line is a sequence of commands.
LEMMA CommandTypes ==
  ASSUME NEW r \in ShellState
  PROVE  /\ Len(r.commands) \in Nat
         /\ \A i \in 1..Len(r.commands) : r.commands[i] \in Command /\ Name(r.commands[i]) \in Token
         /\ r.commands # <<>> <=> Len(r.commands) > 0
         /\ r.ptr \in Nat /\ r.logical \in Int
  <1>1. r.commands \in Seq(Command) /\ r.ptr \in Nat /\ r.logical \in Int
    BY DEF ShellState
  <1>2. Len(r.commands) \in Nat /\ (r.commands # <<>> <=> Len(r.commands) > 0)
    BY <1>1, EmptySeq, LenProperties
  <1>3. \A i \in 1..Len(r.commands) : r.commands[i] \in Command
    BY <1>1, ElementOfSeq
  <1>4. \A c \in Command : Name(c) \in Token
    <2> TAKE c \in Command
    <2>1. c \in Seq(Token) /\ c # <<>>
      BY DEF Command
    <2> QED BY <2>1, HeadTailProperties DEF Name
  <1> QED BY <1>1, <1>2, <1>3, <1>4

\* A step that keeps the children of s keeps what is said of its list.
LEMMA KidsSame ==
  ASSUME NEW s, NEW r \in ShellState, NEW pr, NEW pr2, Same(s, pr, pr2), KidsOK(s, r, pr)
  PROVE  /\ KidsOK(s, r, pr2)
         /\ \A k \in 1..Len(r.kids) : /\ pr2[r.kids[k]].ptr = pr[r.kids[k]].ptr
                                      /\ pr[r.kids[k]].st = "reaped" =>
                                           /\ pr2[r.kids[k]].st = "reaped"
                                           /\ pr2[r.kids[k]].code = pr[r.kids[k]].code
  <1>1. \A k \in 1..Len(r.kids) :
          /\ pr2[r.kids[k]].parent = s /\ pr2[r.kids[k]].ptr = pr[r.kids[k]].ptr
          /\ pr2[r.kids[k]].st # "none"
          /\ pr[r.kids[k]].st = "reaped" => /\ pr2[r.kids[k]].st = "reaped"
                                            /\ pr2[r.kids[k]].code = pr[r.kids[k]].code
    BY KidTypes DEF KidsOK, Same
  <1>2. \A p \in Children :
          pr2[p].parent = s /\ pr2[p].st # "reaped" => pr[p].parent = s /\ pr[p].st # "reaped"
    BY DEF Same
  <1>3. r.pc \in Taken => r.kids # <<>> /\ pr2[r.kids[1]].ptr = r.ptr + 1
    BY <1>1, KidTypes DEF KidsOK
  <1> QED BY <1>1, <1>2, <1>3 DEF KidsOK

\* The same for what is said of its line.
LEMMA LineSame ==
  ASSUME NEW s, NEW r \in ShellState, NEW pr, NEW pr2, Same(s, pr, pr2), KidsOK(s, r, pr),
         Shape(r), LineOK(r, pr)
  PROVE  LineOK(r, pr2)
  <1>1. \A k \in 1..Len(r.kids) : /\ pr2[r.kids[k]].ptr = pr[r.kids[k]].ptr
                                  /\ pr[r.kids[k]].st = "reaped" =>
                                       /\ pr2[r.kids[k]].st = "reaped"
                                       /\ pr2[r.kids[k]].code = pr[r.kids[k]].code
    BY KidTypes DEF KidsOK, Same
  <1>2. r.kids # <<>> => 1 \in 1..Len(r.kids)
    BY KidTypes
  <1>3. \A i : Ran(r, pr2, i) <=> Ran(r, pr, i)
    BY <1>1 DEF Ran
  <1>4. \A i, k : k \in 1..Len(r.kids) /\ Latest(r, pr, r.kids[k], i) => Latest(r, pr2, r.kids[k], i)
    BY <1>1 DEF Latest
  <1>5. \A i : Decided(r, pr, i) => Decided(r, pr2, i)
    BY <1>1, <1>3, <1>4 DEF Decided
  <1>6. ListOK(r, pr) => ListOK(r, pr2)
    BY <1>3, <1>5 DEF ListOK
  <1>7. r.pc = "loop" /\ r.pipe # NONE => r.kids # <<>>
    BY DEF Shape
  <1> QED BY <1>1, <1>2, <1>6, <1>7 DEF LineOK

\* So a shell need not look at what the children of another one do.
LEMMA ShellSame ==
  ASSUME NEW s, NEW r \in ShellState, NEW pr, NEW pr2, NEW table, Same(s, pr, pr2),
         ShellOK(s, r, pr, table)
  PROVE  ShellOK(s, r, pr2, table)
  <1>1. KidsOK(s, r, pr2)
    BY KidsSame DEF ShellOK
  <1>2. LineOK(r, pr2)
    BY LineSame DEF ShellOK
  <1> QED BY <1>1, <1>2 DEF ShellOK

\* A child that a step of another process does not touch. The line it belongs to
\* stays as long as it may run.
LEMMA ChildSame ==
  ASSUME NEW p, NEW pr, NEW pr2, NEW table, NEW commands, NEW commands2,
         ChildOK(p, pr, table, commands), pr2[p] = pr[p],
         \A q \in Children : pr[q].parent = MAIN => pr2[q].parent = MAIN /\ pr2[q].ptr = pr[q].ptr,
         commands2 = commands \/ ~ (pr[p].parent = MAIN /\ pr[p].st \in {"forked", "running"})
  PROVE  ChildOK(p, pr2, table, commands2)
  <1>1. /\ pr2[p].st = "none" => pr2[p] = NoProc
        /\ pr2[p].st \in {"none", "zombie", "reaped"} => table = NoFds
        /\ pr2[p].st # "none" => pr2[p].parent \in Shells
        /\ \A n \in Fds, q \in Children : table[n] = W(q) => q = p
        /\ pr2[p].st = "forked" =>
             /\ pr2[p].fd0 \in Fds \ {1} /\ pr2[p].fd1 \in Fds \ {0, 1} /\ table[pr2[p].fd1] = W(p)
             /\ pr2[p].fd1 # pr2[p].fd0 /\ pr2[p].fd1 # pr2[p].pipe
             /\ pr2[p].parent = MAIN => pr2[p].fd0 # 0 /\ pr2[p].pipe # 0
        /\ pr2[p].st = "running" => table[1] = W(p)
    BY DEF ChildOK
  <1>2. ASSUME pr2[p].st \in {"forked", "running"}, pr2[p].parent = MAIN, pr2[p].pipe # NONE
        PROVE  \E q \in Children :
                 /\ table[IF pr2[p].st = "forked" THEN pr2[p].pipe ELSE 0] = R(q)
                 /\ pr2[q].parent = MAIN /\ pr2[q].ptr < pr2[p].ptr
                 /\ \A i \in (pr2[q].ptr + 1)..(pr2[p].ptr - 1) : is_operator(Name(commands2[i]))
    <2>1. PICK q \in Children :
            /\ table[IF pr[p].st = "forked" THEN pr[p].pipe ELSE 0] = R(q)
            /\ pr[q].parent = MAIN /\ pr[q].ptr < pr[p].ptr
            /\ \A i \in (pr[q].ptr + 1)..(pr[p].ptr - 1) : is_operator(Name(commands[i]))
      BY <1>2 DEF ChildOK
    <2>2. pr2[q].parent = MAIN /\ pr2[q].ptr = pr[q].ptr
      BY <2>1
    <2>3. commands2 = commands
      BY <1>2
    <2> WITNESS q \in Children
    <2> QED BY <2>1, <2>2, <2>3
  <1> QED BY <1>1, <1>2 DEF ChildOK

\* A child that has ended.
LEMMA EndedOK ==
  ASSUME NEW p, NEW pr, NEW table, NEW commands,
         pr[p].st \in {"zombie", "reaped"}, pr[p].parent \in Shells, table = NoFds
  PROVE  ChildOK(p, pr, table, commands)
  BY DEF ChildOK, NoFds, W, Closed

\* What a step of shell s has to show.
LEMMA OneShell ==
  ASSUME IInv, NEW s \in Shells, NEW r, NEW table, r \in ShellState, table \in [Fds -> Ends],
         sh' = [sh EXCEPT ![s] = r], fds' = [fds EXCEPT ![s] = table],
         proc' \in [Children -> ChildState], buf' \in [Children -> 0..PIPE_SIZE], TextOK',
         \A t \in Shells : Same(t, proc, proc'),
         \A p \in Children : \/ proc'[p] = proc[p]
                             \/ /\ proc[p].st \in {"zombie", "reaped"} /\ proc'[p].st = "reaped"
                                /\ proc'[p].parent = proc[p].parent,
         s = MAIN => r.commands = sh[MAIN].commands \/ sh[MAIN].kids = <<>>,
         ShellOK(s, r, proc', table)
  PROVE  IInv'
  <1>1. sh' \in [Shells -> ShellState] /\ sh'[s] = r /\ \A t \in Shells : t # s => sh'[t] = sh[t]
    BY DEF IInv, Typed
  <1>2. /\ fds' \in [Shells \cup Children -> [Fds -> Ends]] /\ fds'[s] = table
        /\ \A t \in Shells \cup Children : t # s => fds'[t] = fds[t]
    BY DEF IInv, Typed
  <1>3. Typed'
    BY <1>1, <1>2 DEF Typed
  <1>4. ASSUME NEW t \in Shells
        PROVE  ShellOK(t, sh[t], proc, fds[t])' 
    <2>1. CASE t = s
      BY <1>1, <1>2, <2>1
    <2>2. CASE t # s
      <3>1. ShellOK(t, sh[t], proc, fds[t]) /\ sh[t] \in ShellState
        BY DEF IInv, Typed
      <3>2. ShellOK(t, sh[t], proc', fds[t])
        BY <3>1, ShellSame
      <3> QED BY <1>1, <1>2, <2>2, <3>2
    <2> QED BY <2>1, <2>2
  <1>5. ASSUME NEW p \in Children
        PROVE  ChildOK(p, proc, fds[p], sh[MAIN].commands)'
    <2>1. ChildOK(p, proc, fds[p], sh[MAIN].commands)
      BY DEF IInv
    <2>2. p # s /\ fds'[p] = fds[p]
      BY <1>2, BoundAssumption DEF Shells, Children, MAIN, SUB
    <2>3. CASE proc'[p] = proc[p]
      <3>1. sh'[MAIN].commands = sh[MAIN].commands
              \/ ~ (proc[p].parent = MAIN /\ proc[p].st \in {"forked", "running"})
        <4>1. CASE s = MAIN /\ sh[MAIN].kids = <<>>
          <5>1. KidsOK(MAIN, sh[MAIN], proc) /\ sh[MAIN] \in ShellState
            BY <4>1 DEF IInv, ShellOK, Typed
          <5>2. ~ \E k \in 1..Len(sh[MAIN].kids) : TRUE
            BY <4>1
          <5> QED BY <5>1, <5>2 DEF KidsOK
        <4>2. CASE s = MAIN /\ r.commands = sh[MAIN].commands
          BY <4>2, <1>1
        <4>3. CASE s # MAIN
          BY <4>3, <1>1 DEF Shells
        <4> QED BY <4>1, <4>2, <4>3
      <3>2. \A q \in Children : proc[q].parent = MAIN =>
              proc'[q].parent = MAIN /\ proc'[q].ptr = proc[q].ptr
        BY DEF Same, Shells
      <3> QED BY <2>1, <2>2, <2>3, <3>1, <3>2, ChildSame
    <2>4. CASE /\ proc[p].st \in {"zombie", "reaped"} /\ proc'[p].st = "reaped"
               /\ proc'[p].parent = proc[p].parent
      <3>1. proc'[p].parent \in Shells /\ fds'[p] = NoFds
        BY <2>1, <2>2, <2>4 DEF ChildOK
      <3> QED BY <2>4, <3>1, EndedOK
    <2> QED BY <2>3, <2>4
  <1> QED BY <1>3, <1>4, <1>5 DEF IInv

\* A step behind the parser leaves the reader and the tokenizer alone.
LEMMA TextSame ==
  ASSUME IInv, UNCHANGED text, sh'[MAIN].pc \in {"tokenize", "parse"} => sh'[MAIN].pc = sh[MAIN].pc
  PROVE  TextOK'
  BY DEF IInv, TextOK, text, Reaches

\* What a step of child p has to show.
LEMMA OneChild ==
  ASSUME IInv, NEW p \in Children, NEW c, NEW table, c \in ChildState, table \in [Fds -> Ends],
         UNCHANGED text, UNCHANGED sh, proc' = [proc EXCEPT ![p] = c],
         fds' = [fds EXCEPT ![p] = table], buf' \in [Children -> 0..PIPE_SIZE],
         proc[p].st \in {"forked", "running"}, c.st \in {"running", "zombie"},
         c.parent = proc[p].parent, c.ptr = proc[p].ptr,
         ChildOK(p, proc', table, sh[MAIN].commands)
  PROVE  IInv'
  <1>1. TextOK'
    BY TextSame
  <1>2. /\ proc' \in [Children -> ChildState] /\ proc'[p] = c
        /\ \A o \in Children : o # p => proc'[o] = proc[o]
    BY DEF IInv, Typed
  <1>3. /\ fds' \in [Shells \cup Children -> [Fds -> Ends]] /\ fds'[p] = table
        /\ \A t \in Shells \cup Children : t # p => fds'[t] = fds[t]
    BY DEF IInv, Typed
  <1>4. Typed'
    BY <1>2, <1>3 DEF Typed, IInv
  <1>5. \A t : Same(t, proc, proc')
    BY <1>2 DEF Same
  <1>6. ASSUME NEW t \in Shells
        PROVE  ShellOK(t, sh[t], proc, fds[t])'
    <2>1. t # p
      BY BoundAssumption DEF Shells, Children, MAIN, SUB
    <2>2. ShellOK(t, sh[t], proc, fds[t]) /\ sh[t] \in ShellState
      BY DEF IInv, Typed
    <2>3. ShellOK(t, sh[t], proc', fds[t])
      BY <1>5, <2>2, ShellSame
    <2> QED BY <1>3, <2>1, <2>3
  <1>7. ASSUME NEW o \in Children
        PROVE  ChildOK(o, proc, fds[o], sh[MAIN].commands)'
    <2>1. CASE o = p
      BY <1>3, <2>1
    <2>2. CASE o # p
      <3>1. ChildOK(o, proc, fds[o], sh[MAIN].commands)
        BY DEF IInv
      <3>2. ChildOK(o, proc', fds[o], sh[MAIN].commands)
        <4>1. \A q \in Children : proc[q].parent = MAIN =>
                proc'[q].parent = MAIN /\ proc'[q].ptr = proc[q].ptr
          BY <1>2
        <4>2. proc'[o] = proc[o]
          BY <1>2, <2>2
        <4>3. PICK pr : pr = proc'
          OBVIOUS
        <4>4. PICK table0 : table0 = fds[o]
          OBVIOUS
        <4>5. PICK commands : commands = sh[MAIN].commands
          OBVIOUS
        <4>6. /\ ChildOK(o, proc, table0, commands) /\ pr[o] = proc[o]
              /\ \A q \in Children : proc[q].parent = MAIN =>
                   pr[q].parent = MAIN /\ pr[q].ptr = proc[q].ptr
          BY <3>1, <4>1, <4>2, <4>3, <4>4, <4>5
        <4>7. ChildOK(o, pr, table0, commands)
          BY <4>6, ChildSame
        <4> QED BY <4>3, <4>4, <4>5, <4>7
      <3> QED BY <1>3, <2>2, <3>2
    <2> QED BY <2>1, <2>2
  <1> QED BY <1>1, <1>4, <1>6, <1>7 DEF IInv

\* What is known of child p and its descriptors.
LEMMA ChildFacts ==
  ASSUME IInv, NEW p \in Children
  PROVE  /\ proc[p] \in ChildState /\ fds[p] \in [Fds -> Ends] /\ proc \in [Children -> ChildState]
         /\ ChildOK(p, proc, fds[p], sh[MAIN].commands)
         /\ fds = [fds EXCEPT ![p] = fds[p]] /\ buf \in [Children -> 0..PIPE_SIZE]
         /\ buf' = buf => buf' \in [Children -> 0..PIPE_SIZE]
  BY DEF IInv, Typed

\* What a program does is a number of bytes, a flag and an exit code.
LEMMA WhatType ==
  ASSUME NEW command
  PROVE  What(command).out \in Nat /\ What(command).copy \in BOOLEAN /\ What(command).code \in Codes
  <1> DEFINE Result == [out : Nat, copy : BOOLEAN, code : 0..255]
  <1>1. ExitCode(command) \in 0..255 /\ ENOENT \in 0..255
    BY DEF ExitCode, ENOENT
  <1>2. [out |-> 0, copy |-> FALSE, code |-> ExitCode(command)] \in Result
    BY <1>1
  <1>3. Name(command) \in DOMAIN Program => Program[Name(command)] \in Result
    BY TextAssumption
  <1>4. [out |-> 0, copy |-> FALSE, code |-> ENOENT] \in Result
    BY <1>1
  <1>5. What(command) \in Result
    <2>1. CASE Name(command) = <<"exit">> /\ Name(command) \notin DOMAIN Program
      BY <1>2, <2>1 DEF What
    <2>2. CASE Name(command) # <<"exit">> /\ Name(command) \in DOMAIN Program
      BY <1>3, <2>2 DEF What
    <2>3. CASE Name(command) # <<"exit">> /\ Name(command) \notin DOMAIN Program
      BY <1>4, <2>3 DEF What
    <2>4. CASE Name(command) = <<"exit">> /\ Name(command) \in DOMAIN Program
      BY <1>2, <1>3, <2>4 DEF What
    <2> QED BY <2>1, <2>2, <2>3, <2>4
  <1> HIDE DEF Result
  <1>6. \A w \in Result : w.out \in Nat /\ w.copy \in BOOLEAN /\ w.code \in Codes
    BY DEF Result, Codes
  <1> QED BY <1>5, <1>6

\* Copying and closing descriptors of one process.
LEMMA TableOps ==
  ASSUME NEW table \in [Fds -> Ends], NEW n \in Fds, NEW m \in Fds
  PROVE  /\ Close(table, n) \in [Fds -> Ends] /\ Close(table, n)[n] = Closed
         /\ \A k \in Fds : k # n => Close(table, n)[k] = table[k]
         /\ Dup2(table, m, n) \in [Fds -> Ends] /\ Dup2(table, m, n)[n] = table[m]
         /\ \A k \in Fds : k # n => Dup2(table, m, n)[k] = table[k]
  BY DEF Close, Dup2, Ends

\* The things a descriptor may refer to are different.
LEMMA EndKinds ==
  /\ \A p, q : R(p) # W(q) /\ R(p) # Closed /\ R(p) # Terminal /\ W(p) # Closed /\ W(p) # Terminal
  /\ \A p, q : (R(p) = R(q) => p = q) /\ (W(p) = W(q) => p = q)
  /\ Closed # Terminal
  /\ \A p \in Children : R(p) \in Ends /\ W(p) \in Ends
  /\ Closed \in Ends /\ Terminal \in Ends
  BY DEF R, W, Closed, Terminal, Ends

\* A child connects its descriptors: 1 to its own pipe, and 0 to the pipe of the
\* program before it.
LEMMA ExecuteOK ==
  ASSUME IInv, NEW p \in Children, Execute(p)
  PROVE  IInv'
  <1> DEFINE c == proc[p]
             w == What(sh[c.parent].commands[c.ptr])
             t1 == TakeInput(p, fds[p])
             t2 == Dup2(t1, c.fd1, 1)
             t3 == Close(t2, c.fd1)
             table == Close(t3, c.fd0)
             d == [c EXCEPT !.st = "running", !.out = w.out, !.copy = w.copy, !.code = w.code]
  <1>1. /\ c \in ChildState /\ fds[p] \in [Fds -> Ends] /\ buf' \in [Children -> 0..PIPE_SIZE]
        /\ ChildOK(p, proc, fds[p], sh[MAIN].commands) /\ proc \in [Children -> ChildState]
    BY ChildFacts DEF Execute
  <1>2. /\ c.st = "forked" /\ fds' = [fds EXCEPT ![p] = table]
        /\ proc' = [proc EXCEPT ![p].st = "running", ![p].out = w.out,
                                ![p].copy = w.copy, ![p].code = w.code]
        /\ UNCHANGED text /\ UNCHANGED sh
    BY DEF Execute
  <1>3. w.out \in Nat /\ w.copy \in BOOLEAN /\ w.code \in Codes
    BY WhatType
  <1> HIDE DEF w
  <1>4. proc' = [proc EXCEPT ![p] = d]
    BY <1>2
  <1>5. /\ d \in ChildState /\ d.st = "running" /\ d.parent = c.parent /\ d.ptr = c.ptr
        /\ d.pipe = c.pipe
    BY <1>1, <1>3 DEF ChildState
  <1>6. /\ c.fd0 \in Fds \ {1} /\ c.fd1 \in Fds \ {0, 1} /\ fds[p][c.fd1] = W(p)
        /\ c.fd1 # c.fd0 /\ c.fd1 # c.pipe /\ c.pipe \in MaybeFd /\ c.parent \in Shells
        /\ c.parent = MAIN => c.fd0 # 0 /\ c.pipe # 0
        /\ \A n \in Fds, q \in Children : fds[p][n] = W(q) => q = p
    BY <1>1, <1>2 DEF ChildOK, ChildState
  <1>7. 0 \in Fds /\ 1 \in Fds /\ NONE \notin Fds
    BY BoundAssumption DEF Fds, NONE
  <1>8. /\ t1 \in [Fds -> Ends] /\ t1[c.fd1] = W(p)
        /\ c.pipe # NONE /\ c.pipe # 0 => t1[0] = fds[p][c.pipe]
        /\ \A n \in Fds, q \in Children : t1[n] = W(q) => q = p
    <2>1. CASE c.pipe = NONE
      BY <1>1, <1>6, <2>1 DEF TakeInput
    <2>2. CASE c.pipe # NONE
      <3>1. c.pipe \in Fds /\ t1 = Close(Dup2(fds[p], c.pipe, 0), c.pipe)
        BY <1>6, <2>2 DEF TakeInput, MaybeFd
      <3>2. PICK k \in Fds : k = c.pipe
        BY <3>1
      <3> DEFINE u == Dup2(fds[p], k, 0)
      <3>3. u \in [Fds -> Ends] /\ u[0] = fds[p][k] /\ \A n \in Fds : n # 0 => u[n] = fds[p][n]
        BY <1>1, <1>7, TableOps
      <3> HIDE DEF u
      <3>4. /\ Close(u, k) \in [Fds -> Ends] /\ Close(u, k)[k] = Closed
            /\ \A n \in Fds : n # k => Close(u, k)[n] = u[n]
        BY <3>3, TableOps
      <3>5. t1 = Close(u, k)
        BY <3>1, <3>2 DEF u
      <3> HIDE DEF t1
      <3> QED BY <1>6, <1>7, <3>2, <3>3, <3>4, <3>5, EndKinds
    <2> QED BY <2>1, <2>2
  <1> HIDE DEF t1
  <1>9. /\ t2 \in [Fds -> Ends] /\ t2[1] = W(p) /\ \A n \in Fds : n # 1 => t2[n] = t1[n]
    <2>1. PICK k \in Fds : k = c.fd1
      BY <1>6
    <2> QED BY <1>7, <1>8, <2>1, TableOps
  <1> HIDE DEF t2
  <1>10. /\ t3 \in [Fds -> Ends] /\ t3[1] = W(p) /\ t3[0] = t2[0]
         /\ \A n \in Fds : t3[n] = t2[n] \/ t3[n] = Closed
    <2>1. PICK k \in Fds : k = c.fd1
      BY <1>6
    <2> QED BY SMTT(60), <1>6, <1>7, <1>9, <2>1, TableOps
  <1> HIDE DEF t3
  <1>11. /\ table \in [Fds -> Ends] /\ table[1] = W(p) /\ (c.fd0 # 0 => table[0] = t3[0])
         /\ \A n \in Fds : table[n] = t3[n] \/ table[n] = Closed
    <2>1. PICK k \in Fds : k = c.fd0
      BY <1>6
    <2>2. table = Close(t3, k)
      BY <2>1
    <2>3. /\ Close(t3, k) \in [Fds -> Ends] /\ Close(t3, k)[k] = Closed
          /\ \A n \in Fds : n # k => Close(t3, k)[n] = t3[n]
      BY <1>10, TableOps
    <2> HIDE DEF table
    <2> QED BY <1>6, <1>7, <1>10, <2>1, <2>2, <2>3
  <1> HIDE DEF table
  <1>12. \A n \in Fds, q \in Children : table[n] = W(q) => q = p
    BY <1>8, <1>9, <1>10, <1>11, EndKinds
  <1>13. c.parent = MAIN /\ c.pipe # NONE => table[0] = fds[p][c.pipe]
    BY <1>6, <1>7, <1>8, <1>9, <1>10, <1>11
  <1>14. ChildOK(p, proc', table, sh[MAIN].commands)
    <2>0. PICK pr : pr = proc'
      OBVIOUS
    <2>1. pr[p] = d /\ \A q \in Children : pr[q].parent = proc[q].parent /\ pr[q].ptr = proc[q].ptr
      BY <1>1, <1>4, <1>5, <2>0
    <2> HIDE DEF d, c
    <2>2. ASSUME pr[p].parent = MAIN, pr[p].pipe # NONE
          PROVE  \E q \in Children :
                   /\ table[IF pr[p].st = "forked" THEN pr[p].pipe ELSE 0] = R(q)
                   /\ pr[q].parent = MAIN /\ pr[q].ptr < pr[p].ptr
                   /\ \A i \in (pr[q].ptr + 1)..(pr[p].ptr - 1) : is_operator(Name(sh[MAIN].commands[i]))
      <3>1. c.parent = MAIN /\ c.pipe # NONE /\ c.st = "forked" /\ c = proc[p]
        BY <1>2, <1>5, <2>1, <2>2 DEF c
      <3>2. PICK q \in Children :
              /\ fds[p][c.pipe] = R(q) /\ proc[q].parent = MAIN /\ proc[q].ptr < c.ptr
              /\ \A i \in (proc[q].ptr + 1)..(c.ptr - 1) : is_operator(Name(sh[MAIN].commands[i]))
        BY <1>1, <3>1 DEF ChildOK
      <3> WITNESS q \in Children
      <3> QED BY <1>5, <1>13, <2>1, <3>1, <3>2
    <2>3. ChildOK(p, pr, table, sh[MAIN].commands)
      BY <1>5, <1>6, <1>11, <1>12, <2>1, <2>2 DEF ChildOK
    <2> QED BY <2>0, <2>3
  <1> HIDE DEF d
  <1> QED BY <1>1, <1>2, <1>4, <1>5, <1>11, <1>14, OneChild

\* A program that goes on running keeps its descriptors.
LEMMA RunsOn ==
  ASSUME IInv, NEW p \in Children, NEW c, c \in ChildState, UNCHANGED text, UNCHANGED sh,
         UNCHANGED fds, proc' = [proc EXCEPT ![p] = c],
         buf' \in [Children -> 0..PIPE_SIZE], proc[p].st = "running", c.st = "running",
         c.parent = proc[p].parent, c.ptr = proc[p].ptr, c.pipe = proc[p].pipe
  PROVE  IInv'
  <1>1. /\ fds[p] \in [Fds -> Ends] /\ proc \in [Children -> ChildState]
        /\ fds' = [fds EXCEPT ![p] = fds[p]] /\ ChildOK(p, proc, fds[p], sh[MAIN].commands)
    BY ChildFacts
  <1>2. PICK pr : pr = proc'
    OBVIOUS
  <1>3. pr[p] = c /\ \A q \in Children : pr[q].parent = proc[q].parent /\ pr[q].ptr = proc[q].ptr
    BY <1>1, <1>2
  <1>4. ASSUME c.parent = MAIN, c.pipe # NONE
        PROVE  \E q \in Children :
                 /\ fds[p][0] = R(q) /\ pr[q].parent = MAIN /\ pr[q].ptr < pr[p].ptr
                 /\ \A i \in (pr[q].ptr + 1)..(pr[p].ptr - 1) : is_operator(Name(sh[MAIN].commands[i]))
    <2>1. PICK q \in Children :
            /\ fds[p][0] = R(q) /\ proc[q].parent = MAIN /\ proc[q].ptr < proc[p].ptr
            /\ \A i \in (proc[q].ptr + 1)..(proc[p].ptr - 1) : is_operator(Name(sh[MAIN].commands[i]))
      BY <1>1, <1>4 DEF ChildOK
    <2> WITNESS q \in Children
    <2> QED BY <1>3, <2>1
  <1>5. fds[p][1] = W(p) /\ c.parent \in Shells /\ \A n \in Fds, q \in Children : fds[p][n] = W(q) => q = p
    BY <1>1 DEF ChildOK
  <1>6. ChildOK(p, pr, fds[p], sh[MAIN].commands)
    BY <1>3, <1>4, <1>5 DEF ChildOK
  <1> QED BY <1>1, <1>2, <1>6, OneChild

\* A program that has ended holds nothing.
LEMMA Ends1 ==
  ASSUME IInv, NEW p \in Children, NEW c, c \in ChildState, UNCHANGED text, UNCHANGED sh,
         fds' = [fds EXCEPT ![p] = NoFds], proc' = [proc EXCEPT ![p] = c],
         buf' = buf, proc[p].st = "running", c.st = "zombie",
         c.parent = proc[p].parent, c.ptr = proc[p].ptr
  PROVE  IInv'
  <1>1. proc \in [Children -> ChildState] /\ ChildOK(p, proc, fds[p], sh[MAIN].commands)
        /\ buf' \in [Children -> 0..PIPE_SIZE]
    BY ChildFacts
  <1>2. NoFds \in [Fds -> Ends]
    BY EndKinds DEF NoFds
  <1>3. proc'[p] = c /\ c.parent \in Shells
    BY <1>1 DEF ChildOK
  <1>4. PICK pr : pr = proc'
    OBVIOUS
  <1>5. PICK table : table = NoFds
    OBVIOUS
  <1>6. ChildOK(p, pr, table, sh[MAIN].commands)
    <2>1. pr[p].st \in {"zombie", "reaped"} /\ pr[p].parent \in Shells
      BY <1>3, <1>4
    <2> QED BY <1>5, <2>1, EndedOK
  <1> QED BY <1>1, <1>2, <1>4, <1>5, <1>6, OneChild

\* The bytes of a pipe.
LEMMA BufType ==
  ASSUME NEW b \in [Children -> 0..PIPE_SIZE], NEW q
  PROVE  /\ b[q] > 0 => [b EXCEPT ![q] = @ - 1] \in [Children -> 0..PIPE_SIZE]
         /\ b[q] < PIPE_SIZE => [b EXCEPT ![q] = @ + 1] \in [Children -> 0..PIPE_SIZE]
  <1>1. CASE q \in Children
    BY <1>1, PipeAssumption
  <1>2. CASE q \notin Children
    BY <1>2
  <1> QED BY <1>1, <1>2

\* A program writes, or is killed because nobody reads.
LEMMA ProgramWritesOK ==
  ASSUME IInv, NEW p \in Children, ProgramWrites(p)
  PROVE  IInv'
  <1> DEFINE q == fds[p][1][2]
             c == proc[p]
  <1>1. /\ c \in ChildState /\ buf \in [Children -> 0..PIPE_SIZE] /\ UNCHANGED text /\ UNCHANGED sh
        /\ c.st = "running" /\ c.out > 0
    BY ChildFacts DEF ProgramWrites
  <1>2. CASE Readers(q) = {}
    <2> DEFINE d == [c EXCEPT !.st = "zombie", !.code = 0]
    <2>1. /\ proc' = [proc EXCEPT ![p].st = "zombie", ![p].code = 0]
          /\ fds' = [fds EXCEPT ![p] = NoFds] /\ buf' = buf
      BY <1>2 DEF ProgramWrites
    <2>2. proc' = [proc EXCEPT ![p] = d]
      BY <2>1
    <2>3. d \in ChildState /\ d.st = "zombie" /\ d.parent = c.parent /\ d.ptr = c.ptr
      <3>1. 0 \in Codes /\ "zombie" \in {"none", "forked", "running", "zombie", "reaped"}
        BY DEF Codes
      <3> QED BY <1>1, <3>1 DEF ChildState
    <2> HIDE DEF d
    <2> QED BY <1>1, <2>1, <2>2, <2>3, Ends1
  <1>3. CASE Readers(q) # {}
    <2> DEFINE d == [c EXCEPT !.out = @ - 1]
    <2>1. /\ buf[q] < PIPE_SIZE /\ buf' = [buf EXCEPT ![q] = @ + 1]
          /\ proc' = [proc EXCEPT ![p].out = @ - 1] /\ UNCHANGED fds
      BY <1>3 DEF ProgramWrites
    <2>2. proc' = [proc EXCEPT ![p] = d]
      BY <2>1
    <2>3. d \in ChildState /\ d.st = "running" /\ d.parent = c.parent /\ d.ptr = c.ptr /\ d.pipe = c.pipe
      BY <1>1 DEF ChildState
    <2>4. buf' \in [Children -> 0..PIPE_SIZE]
      <3>1. PICK o : o = q
        OBVIOUS
      <3> HIDE DEF q
      <3> QED BY <1>1, <2>1, <3>1, BufType
    <2> HIDE DEF d
    <2> QED BY <1>1, <2>1, <2>2, <2>3, <2>4, RunsOn
  <1> QED BY <1>2, <1>3

\* A program reads a byte or finds the end of its input.
LEMMA ProgramReadsOK ==
  ASSUME IInv, NEW p \in Children, ProgramReads(p)
  PROVE  IInv'
  <1> DEFINE q == fds[p][0][2]
             c == proc[p]
             F == fds[p][0][1] = "read" /\ buf[q] > 0
  <1>1. /\ c \in ChildState /\ buf \in [Children -> 0..PIPE_SIZE] /\ UNCHANGED text /\ UNCHANGED sh
        /\ UNCHANGED fds /\ c.st = "running"
    BY ChildFacts DEF ProgramReads
  <1>2. CASE F
    <2> DEFINE d == [c EXCEPT !.out = 1]
    <2>1. buf[q] > 0 /\ buf' = [buf EXCEPT ![q] = @ - 1] /\ proc' = [proc EXCEPT ![p].out = 1]
      BY <1>2 DEF ProgramReads
    <2>2. proc' = [proc EXCEPT ![p] = d]
      BY <2>1
    <2>3. d \in ChildState /\ d.st = "running" /\ d.parent = c.parent /\ d.ptr = c.ptr /\ d.pipe = c.pipe
      BY <1>1 DEF ChildState
    <2>4. buf' \in [Children -> 0..PIPE_SIZE]
      <3>1. PICK o : o = q
        OBVIOUS
      <3> HIDE DEF q
      <3> QED BY <1>1, <2>1, <3>1, BufType
    <2> HIDE DEF d
    <2> QED BY <1>1, <2>1, <2>2, <2>3, <2>4, RunsOn
  <1>3. CASE ~ F
    <2> DEFINE d == [c EXCEPT !.copy = FALSE]
    <2>1. buf' = buf /\ proc' = [proc EXCEPT ![p].copy = FALSE]
      BY <1>3 DEF ProgramReads
    <2>2. proc' = [proc EXCEPT ![p] = d]
      BY <2>1
    <2>3. d \in ChildState /\ d.st = "running" /\ d.parent = c.parent /\ d.ptr = c.ptr /\ d.pipe = c.pipe
      BY <1>1 DEF ChildState
    <2>4. buf' \in [Children -> 0..PIPE_SIZE]
      BY <1>1, <2>1
    <2> HIDE DEF d
    <2> QED BY <1>1, <2>1, <2>2, <2>3, <2>4, RunsOn
  <1> QED BY <1>2, <1>3

\* A program ends.
LEMMA ProgramExitsOK ==
  ASSUME IInv, NEW p \in Children, ProgramExits(p)
  PROVE  IInv'
  <1> DEFINE c == proc[p]
             d == [c EXCEPT !.st = "zombie"]
  <1>1. /\ c \in ChildState /\ UNCHANGED text /\ UNCHANGED sh /\ c.st = "running"
        /\ proc' = [proc EXCEPT ![p].st = "zombie"] /\ fds' = [fds EXCEPT ![p] = NoFds] /\ buf' = buf
    BY ChildFacts DEF ProgramExits
  <1>2. proc' = [proc EXCEPT ![p] = d]
    BY <1>1
  <1>3. d \in ChildState /\ d.st = "zombie" /\ d.parent = c.parent /\ d.ptr = c.ptr
    BY <1>1 DEF ChildState
  <1> HIDE DEF d
  <1> QED BY <1>1, <1>2, <1>3, Ends1

\* Every step of a child keeps the invariant.
LEMMA ChildStepOK ==
  ASSUME IInv, NEW p \in Children, ChildStep(p)
  PROVE  IInv'
  BY ExecuteOK, ProgramWritesOK, ProgramReadsOK, ProgramExitsOK DEF ChildStep

-----------------------------------------------------------------------------
(* The steps of a shell between two lines.                                 *)

\* What the invariant says of shell s.
LEMMA ShellFacts ==
  ASSUME IInv, NEW s \in Shells
  PROVE  /\ sh[s] \in ShellState /\ ShellOK(s, sh[s], proc, fds[s]) /\ fds[s] \in [Fds -> Ends]
         /\ proc \in [Children -> ChildState] /\ buf \in [Children -> 0..PIPE_SIZE]
         /\ sh = [sh EXCEPT ![s] = sh[s]] /\ fds = [fds EXCEPT ![s] = fds[s]]
  BY DEF IInv, Typed

\* A step that changes no child keeps the children of every shell.
LEMMA SameItself ==
  ASSUME NEW pr
  PROVE  \A t : Same(t, pr, pr)
  BY DEF Same

\* Without a pipe a shell holds what it started with.
LEMMA BaseTable ==
  ASSUME NEW s, NEW r \in ShellState, NEW table, r.pipe = NONE
  PROVE  /\ TableOK(s, r, table) /\ r.pc \notin {"none", "exited", "forked", "output"} =>
              \A n \in Fds : table[n] = Base(s)[n]
         /\ (\A n \in Fds : table[n] = Base(s)[n]) /\ r.pc \notin {"forked", "output"} =>
              TableOK(s, r, table)
  <1>1. NONE \notin Fds
    BY DEF NONE, Fds
  <1>2. r.pc \notin {"forked", "output"} => Held(r) = {}
    BY <1>1 DEF Held
  <1>3. \A n \in Fds : Base(s)[n] \in {Closed, Terminal}
    BY DEF Base
  <1> QED BY <1>2, <1>3 DEF TableOK

\* A shell without a line, after one without children to wait for.
LEMMA IdleOK ==
  ASSUME NEW s, NEW r0 \in ShellState, NEW r \in ShellState, NEW pr, NEW table,
         KidsOK(s, r0, pr), r0.kids = <<>>,
         r.pc \in Idle, r.ptr = 0, r.operator = <<>>, r.pipe = NONE, r.last = NONE, r.kids = <<>>,
         r.pc = "parsed" => r.logical = Len(r.commands) /\ r.logical > 0,
         TableOK(s, r, table)
  PROVE  ShellOK(s, r, pr, table)
  <1>1. ~ \E k \in 1..Len(r0.kids) : TRUE
    OBVIOUS
  <1>2. ~ \E k \in 1..Len(r.kids) : TRUE
    OBVIOUS
  <1>3. \A p \in Children : ~ (pr[p].parent = s /\ pr[p].st # "reaped")
    BY <1>1 DEF KidsOK
  <1>4. r.pc \notin Busy /\ r.pc \notin Taken /\ r.pc \notin {"loop", "wait", "reap", "output", "end", "forked"}
    BY DEF Idle, Busy, Taken
  <1>5. KidsOK(s, r, pr)
    BY <1>2, <1>3, <1>4 DEF KidsOK
  <1>6. Shape(r)
    BY <1>4 DEF Shape
  <1>7. LineOK(r, pr)
    BY <1>4 DEF LineOK
  <1> QED BY <1>5, <1>6, <1>7 DEF ShellOK

\* The top of the loop of main.
LEMMA NextLineOK ==
  ASSUME NEW s \in Shells, NEW r0 \in ShellState, NEW pr, NEW table,
         KidsOK(s, r0, pr), r0.kids = <<>>, r0.pipe = NONE,
         r0.pc \notin {"none", "exited", "forked", "output"}, TableOK(s, r0, table)
  PROVE  NextLine(r0) \in ShellState /\ ShellOK(s, NextLine(r0), pr, table)
  <1> DEFINE r == NextLine(r0)
  <1>1. /\ r.pc \in {"read", "exited"} /\ r.ptr = 0 /\ r.operator = <<>> /\ r.pipe = NONE
        /\ r.last = NONE /\ r.kids = <<>> /\ r.commands = <<>>
    BY DEF NextLine, NoShell
  <1>2. r \in ShellState
    <2>1. r0.code \in Codes /\ 0 \in Codes /\ NONE \in MaybeFd
      BY DEF ShellState, Codes, MaybeFd
    <2>2. <<>> \in Seq(Command) /\ <<>> \in Token /\ <<>> \in Seq(Children)
      BY EmptySeq DEF Token
    <2>3. NoShell \in ShellState
      BY <2>1, <2>2 DEF NoShell, ShellState, Pcs
    <2>4. PICK x : x = (IF r0.eof THEN "exited" ELSE "read")
      OBVIOUS
    <2>5. x \in Pcs
      BY <2>4 DEF Pcs
    <2>6. r = [NoShell EXCEPT !.pc = x, !.code = r0.code]
      BY <2>4 DEF NextLine
    <2> HIDE DEF r
    <2> QED BY <2>1, <2>3, <2>5, <2>6 DEF ShellState
  <1> HIDE DEF r
  <1>3. \A n \in Fds : table[n] = Base(s)[n]
    BY BaseTable
  <1>4. TableOK(s, r, table)
    BY <1>1, <1>2, <1>3, BaseTable
  <1>5. r.pc \in Idle /\ r.pc # "parsed"
    BY <1>1 DEF Idle
  <1>6. ShellOK(s, r, pr, table)
    BY <1>1, <1>2, <1>4, <1>5, IdleOK
  <1> QED BY <1>2, <1>6 DEF r

\* A step of the reader, the tokenizer or the parser leaves everything else alone.
LEMMA ReadingOK ==
  ASSUME IInv, NEW r, r \in ShellState, sh' = [sh EXCEPT ![MAIN] = r], UNCHANGED <<proc, fds, buf>>,
         TextOK', sh[MAIN].pc \in {"read", "tokenize", "parse", "parsed"},
         r.pc \in {"read", "tokenize", "parse", "parsed"},
         r.ptr = 0, r.operator = <<>>, r.pipe = NONE, r.last = NONE, r.kids = <<>>,
         r.pc = "parsed" => r.logical = Len(r.commands) /\ r.logical > 0
  PROVE  IInv'
  <1> MAIN \in Shells
    BY DEF Shells
  <1> DEFINE r0 == sh[MAIN]
  <1>1. /\ r0 \in ShellState /\ Shape(r0) /\ KidsOK(MAIN, r0, proc) /\ TableOK(MAIN, r0, fds[MAIN])
        /\ proc \in [Children -> ChildState] /\ buf \in [Children -> 0..PIPE_SIZE] /\ fds[MAIN] \in [Fds -> Ends]
    BY ShellFacts DEF ShellOK
  <1>2. r0.kids = <<>> /\ r0.pipe = NONE /\ r.pc \in Idle
    BY <1>1 DEF Shape, Idle
  <1>3. PICK table : table = fds[MAIN]
    OBVIOUS
  <1>4. \A n \in Fds : table[n] = Base(MAIN)[n]
    BY <1>1, <1>2, <1>3, BaseTable
  <1>5. TableOK(MAIN, r, table)
    BY <1>4, BaseTable
  <1>6. PICK q : q = r0
    OBVIOUS
  <1>7. ShellOK(MAIN, r, proc, table)
    BY <1>1, <1>2, <1>3, <1>5, <1>6, IdleOK
  <1>8. fds' = [fds EXCEPT ![MAIN] = table] /\ proc' = proc /\ buf' = buf
    BY <1>3, ShellFacts
  <1>9. \A t \in Shells : Same(t, proc, proc')
    BY <1>8, SameItself
  <1>10. ShellOK(MAIN, r, proc', table)
    BY <1>7, <1>8
  <1>11. \A p \in Children : proc'[p] = proc[p]
    BY <1>8
  <1>12. table \in [Fds -> Ends] /\ proc' \in [Children -> ChildState] /\ buf' \in [Children -> 0..PIPE_SIZE]
    BY <1>1, <1>3, <1>8
  <1> QED BY <1>2, <1>8, <1>9, <1>10, <1>11, <1>12, OneShell

\* Where main is before a line has been read and cut up.
LEMMA MainFacts ==
  ASSUME IInv, sh[MAIN].pc \in {"read", "tokenize", "parse", "parsed"}
  PROVE  /\ sh[MAIN] \in ShellState /\ sh \in [Shells -> ShellState] /\ MAIN \in Shells
         /\ sh[MAIN].ptr = 0 /\ sh[MAIN].operator = <<>> /\ sh[MAIN].pipe = NONE
         /\ sh[MAIN].last = NONE /\ sh[MAIN].kids = <<>>
         /\ KidsOK(MAIN, sh[MAIN], proc) /\ TableOK(MAIN, sh[MAIN], fds[MAIN])
         /\ sh[MAIN].pc = "parsed" => sh[MAIN].logical = Len(sh[MAIN].commands) /\ sh[MAIN].logical > 0
  BY DEF IInv, Typed, ShellOK, Shape, Idle, Shells

\* Reading a character keeps the invariant.
LEMMA ReadOneCharOK ==
  ASSUME IInv, ReadOneChar
  PROVE  IInv'
  <1>1. /\ sh[MAIN].pc = "read" /\ input # <<>> /\ reader' = ReadChar(reader, Head(input))
        /\ input' = Tail(input) /\ UNCHANGED <<script, lexer>> /\ UNCHANGED <<proc, fds, buf>> /\ sh' = sh
    BY DEF ReadOneChar, Reaches
  <1>2. input \in Seq(Characters) /\ reader \in ReaderState /\ reader.size > 0
        /\ Len(reader.line) <= reader.size /\ (reader.escaping => reader.line # <<>>)
    BY DEF IInv, TextOK, Token
  <1>3. Head(input) \in Characters /\ Tail(input) \in Seq(Characters)
    BY <1>1, <1>2, HeadTailProperties
  <1>4. PICK ch \in Characters : ch = Head(input)
    BY <1>3
  <1>5. /\ ReadChar(reader, ch) \in ReaderState /\ ReadChar(reader, ch).size > 0
        /\ Len(ReadChar(reader, ch).line) <= ReadChar(reader, ch).size
        /\ ReadChar(reader, ch).escaping => ReadChar(reader, ch).line # <<>>
    BY <1>2, ReadCharOK
  <1>6. TextOK'
    <2>1. reader' \in ReaderState /\ reader'.size > 0 /\ Len(reader'.line) <= reader'.size
          /\ (reader'.escaping => reader'.line # <<>>)
      BY <1>1, <1>4, <1>5
    <2>2. input' \in Token
      BY <1>1, <1>3 DEF Token
    <2>3. sh' = sh /\ lexer' = lexer
      BY <1>1
    <2> QED BY <2>1, <2>2, <2>3 DEF IInv, TextOK, Reaches
  <1>7. PICK r \in ShellState : r = sh[MAIN] /\ sh' = [sh EXCEPT ![MAIN] = r]
    BY <1>1, MainFacts
  <1> QED BY <1>1, <1>6, <1>7, MainFacts, ReadingOK

\* The lexer is a record of two fields.
LEMMA LexerFacts ==
  ASSUME IInv
  PROVE  lexer.tokens \in TokenState /\ lexer = [left |-> lexer.left, tokens |-> lexer.tokens]
  BY DEF IInv, TextOK

\* At the end of a line the tokenizer starts with what was read.
LEMMA EndOfLineOK ==
  ASSUME IInv, EndOfLine
  PROVE  IInv'
  <1> DEFINE r == [sh[MAIN] EXCEPT !.pc = "tokenize", !.eof = ~reader.done]
  <1>1. /\ sh[MAIN].pc = "read" /\ lexer' = [left |-> reader.line, tokens |-> NoTokens]
        /\ reader' = StartLine /\ sh' = [sh EXCEPT ![MAIN] = r] /\ input' = input
        /\ UNCHANGED <<proc, fds, buf>>
    BY DEF EndOfLine, Reaches, Become
  <1>2. <<>> \in Token /\ <<>> \in Seq(Token) /\ NoChar \in Characters /\ Len(<<>>) = 0
    BY EmptySeq, Characters1 DEF Token
  <1>3. StartLine \in ReaderState /\ StartLine.size = 1 /\ StartLine.line = <<>> /\ ~StartLine.escaping
    BY <1>2 DEF StartLine, ReaderState
  <1>4. NoTokens \in TokenState
    BY <1>2 DEF NoTokens, TokenState
  <1>5. input \in Token /\ reader.line \in Token /\ reader.done \in BOOLEAN
    BY DEF IInv, TextOK, ReaderState
  <1>6. /\ r \in ShellState /\ r.pc = "tokenize" /\ r.ptr = 0 /\ r.operator = <<>> /\ r.pipe = NONE
        /\ r.last = NONE /\ r.kids = <<>>
    BY <1>1, <1>5, MainFacts DEF ShellState, Pcs
  <1> HIDE DEF r
  <1>7. sh'[MAIN].pc = "tokenize"
    BY <1>1, <1>6, MainFacts
  <1>8. TextOK'
    <2>1. lexer'.left = reader.line /\ lexer'.tokens = NoTokens
      BY <1>1
    <2>2. lexer' = [left |-> lexer'.left, tokens |-> lexer'.tokens]
      BY <1>1, <2>1
    <2>3. reader' \in ReaderState /\ reader'.size > 0 /\ Len(reader'.line) <= reader'.size
          /\ (reader'.escaping => reader'.line # <<>>)
      BY <1>1, <1>2, <1>3
    <2>4. input' \in Token /\ lexer'.tokens \in TokenState /\ lexer'.left \in Token
      BY <1>1, <1>4, <1>5, <2>1
    <2> QED BY <1>7, <2>2, <2>3, <2>4 DEF TextOK, Reaches
  <1> QED BY <1>1, <1>6, <1>8, ReadingOK

\* A step of the tokenizer, and the end of it.
LEMMA GetTokensOK ==
  ASSUME IInv, get_tokens
  PROVE  IInv'
  <1>1. /\ sh[MAIN].pc = "tokenize" /\ UNCHANGED <<proc, fds, buf>> /\ reader' = reader /\ input' = input
        /\ lexer.left \in Token
    BY DEF get_tokens, Reaches, IInv, TextOK
  <1>2. /\ input \in Token /\ reader \in ReaderState /\ reader.size > 0
        /\ Len(reader.line) <= reader.size /\ (reader.escaping => reader.line # <<>>)
    BY DEF IInv, TextOK
  <1>3. CASE lexer.left # <<>>
    <2>1. sh' = sh /\ lexer' = [left |-> Tail(lexer.left),
                                tokens |-> get_one_token(lexer.tokens, Head(lexer.left))]
      BY <1>3 DEF get_tokens
    <2>2. Head(lexer.left) \in Characters /\ Tail(lexer.left) \in Token
      BY <1>1, <1>3, HeadTailProperties DEF Token
    <2>3. get_one_token(lexer.tokens, Head(lexer.left)) \in TokenState
      BY <2>2, LexerFacts, TokenType
    <2>4. TextOK'
      <3>1. lexer'.left = Tail(lexer.left) /\ lexer'.tokens = get_one_token(lexer.tokens, Head(lexer.left))
        BY <2>1
      <3>2. lexer' = [left |-> lexer'.left, tokens |-> lexer'.tokens]
        BY <2>1, <3>1
      <3>3. lexer'.left \in Token /\ lexer'.tokens \in TokenState
        BY <2>2, <2>3, <3>1
      <3> QED BY <1>1, <1>2, <2>1, <3>2, <3>3 DEF TextOK, Reaches
    <2>5. PICK r \in ShellState : r = sh[MAIN] /\ sh' = [sh EXCEPT ![MAIN] = r]
      BY <1>1, <2>1, MainFacts
    <2> QED BY <1>1, <2>4, <2>5, MainFacts, ReadingOK
  <1>4. CASE lexer.left = <<>>
    <2> DEFINE r == [sh[MAIN] EXCEPT !.pc = "parse"]
               u == CloseToken(lexer.tokens).tokens
    <2>1. sh' = [sh EXCEPT ![MAIN] = r] /\ lexer' = [lexer EXCEPT !.left = u]
      BY <1>4 DEF get_tokens, Become
    <2>2. u \in Seq(Token)
      BY LexerFacts, CloseTokenType DEF TokenState
    <2> HIDE DEF u
    <2>3. lexer'.left = u /\ lexer'.tokens = lexer.tokens
          /\ lexer' = [left |-> lexer'.left, tokens |-> lexer'.tokens]
      BY <2>1, LexerFacts
    <2>4. /\ r \in ShellState /\ r.pc = "parse" /\ r.ptr = 0 /\ r.operator = <<>> /\ r.pipe = NONE
          /\ r.last = NONE /\ r.kids = <<>>
      BY <1>1, MainFacts DEF ShellState, Pcs
    <2> HIDE DEF r
    <2>5. sh'[MAIN].pc = "parse"
      BY <1>1, <2>1, <2>4, MainFacts
    <2>6. TextOK'
      BY <1>1, <1>2, <2>2, <2>3, <2>5, LexerFacts DEF TextOK, Reaches
    <2> QED BY <1>1, <2>1, <2>4, <2>6, ReadingOK
  <1> QED BY <1>3, <1>4

\* A step of the parser, and the end of it.
LEMMA ParseOK ==
  ASSUME IInv, parse
  PROVE  IInv'
  <1> DEFINE r0 == sh[MAIN]
  <1>1. /\ r0.pc = "parse" /\ UNCHANGED <<proc, fds, buf>> /\ reader' = reader /\ input' = input
        /\ lexer.left \in Seq(Token)
    BY DEF parse, Reaches, IInv, TextOK
  <1>2. /\ input \in Token /\ reader \in ReaderState /\ reader.size > 0
        /\ Len(reader.line) <= reader.size /\ (reader.escaping => reader.line # <<>>)
    BY DEF IInv, TextOK
  <1>3. CASE lexer.left # <<>>
    <2> DEFINE c == AddToken(r0.commands, Head(lexer.left))
               r == [r0 EXCEPT !.commands = c]
    <2>1. sh' = [sh EXCEPT ![MAIN] = r] /\ lexer' = [lexer EXCEPT !.left = Tail(lexer.left)]
      BY <1>3 DEF parse, Become
    <2>2. Head(lexer.left) \in Token /\ Tail(lexer.left) \in Seq(Token)
      BY <1>1, <1>3, HeadTailProperties
    <2>3. c \in Seq(Command)
      <3>1. PICK token \in Token : token = Head(lexer.left)
        BY <2>2
      <3>2. PICK d \in Seq(Command) : d = r0.commands
        BY <1>1, MainFacts DEF ShellState
      <3> QED BY <3>1, <3>2, AddTokenType
    <2> HIDE DEF c
    <2>4. /\ r \in ShellState /\ r.pc = "parse" /\ r.ptr = 0 /\ r.operator = <<>> /\ r.pipe = NONE
          /\ r.last = NONE /\ r.kids = <<>>
      BY <1>1, <2>3, MainFacts DEF ShellState
    <2> HIDE DEF r
    <2>5. sh'[MAIN].pc = "parse"
      BY <1>1, <2>1, <2>4, MainFacts
    <2>6. lexer'.left = Tail(lexer.left) /\ lexer'.tokens = lexer.tokens
          /\ lexer' = [left |-> lexer'.left, tokens |-> lexer'.tokens]
      BY <2>1, LexerFacts
    <2>7. TextOK'
      BY <1>1, <1>2, <2>2, <2>5, <2>6, LexerFacts DEF TextOK, Reaches
    <2> QED BY <1>1, <2>1, <2>4, <2>7, ReadingOK
  <1>4. CASE lexer.left = <<>>
    <2>1. lexer' = NoLexer
      BY <1>4 DEF parse
    <2>2. <<>> \in Token /\ <<>> \in Seq(Token) /\ NoChar \in Characters
      BY EmptySeq, Characters1 DEF Token
    <2>3. NoLexer.tokens \in TokenState /\ NoLexer = [left |-> NoLexer.left, tokens |-> NoLexer.tokens]
      BY <2>2 DEF NoLexer, NoTokens, TokenState
    <2>4. ASSUME sh'[MAIN].pc \notin {"tokenize", "parse"}
          PROVE  TextOK'
      BY <1>1, <1>2, <2>1, <2>3, <2>4 DEF TextOK, Reaches
    <2>5. CASE r0.commands = <<>>
      <3> DEFINE r == NextLine(r0)
      <3>1. sh' = [sh EXCEPT ![MAIN] = r]
        BY <1>4, <2>5 DEF parse, Become
      <3>2. PICK q \in ShellState : q = r0
        BY <1>1, MainFacts
      <3>3. PICK table : table = fds[MAIN]
        OBVIOUS
      <3>4. r \in ShellState /\ ShellOK(MAIN, r, proc, table)
        BY <1>1, <3>2, <3>3, MainFacts, NextLineOK
      <3>5. r.pc \in {"read", "exited"}
        BY DEF NextLine, NoShell
      <3> HIDE DEF r
      <3>6. sh'[MAIN].pc \notin {"tokenize", "parse"}
        BY <1>1, <3>1, <3>5, MainFacts
      <3>7. /\ fds' = [fds EXCEPT ![MAIN] = table] /\ proc' = proc /\ buf' = buf /\ table \in [Fds -> Ends]
            /\ proc' \in [Children -> ChildState] /\ buf' \in [Children -> 0..PIPE_SIZE] /\ MAIN \in Shells
        BY <1>1, <3>3, MainFacts, ShellFacts
      <3>8. /\ \A t \in Shells : Same(t, proc, proc') /\ ShellOK(MAIN, r, proc', table)
            /\ \A p \in Children : proc'[p] = proc[p]
        BY <3>4, <3>7, SameItself
      <3>9. r0.kids = <<>>
        BY <1>1, MainFacts
      <3> QED BY <2>4, <3>1, <3>4, <3>6, <3>7, <3>8, <3>9, OneShell
    <2>6. CASE r0.commands # <<>>
      <3> DEFINE r == [r0 EXCEPT !.pc = "parsed", !.logical = Len(r0.commands)]
      <3>1. sh' = [sh EXCEPT ![MAIN] = r]
        BY <1>4, <2>6 DEF parse, Become
      <3>2. Len(r0.commands) \in Nat /\ Len(r0.commands) > 0
        <4>1. PICK q \in ShellState : q = r0
          BY <1>1, MainFacts
        <4> QED BY <2>6, <4>1, CommandTypes
      <3>3. /\ r \in ShellState /\ r.pc = "parsed" /\ r.ptr = 0 /\ r.operator = <<>> /\ r.pipe = NONE
            /\ r.last = NONE /\ r.kids = <<>> /\ r.commands = r0.commands /\ r.logical = Len(r0.commands)
        <4>1. "parsed" \in Pcs /\ Len(r0.commands) \in Int
          BY <3>2 DEF Pcs
        <4> HIDE DEF r0
        <4>2. r0 \in ShellState /\ r0.ptr = 0 /\ r0.operator = <<>> /\ r0.pipe = NONE
              /\ r0.last = NONE /\ r0.kids = <<>>
          BY <1>1, MainFacts DEF r0
        <4> QED BY <4>1, <4>2 DEF ShellState
      <3> HIDE DEF r
      <3>4. sh'[MAIN].pc \notin {"tokenize", "parse"}
        BY <1>1, <3>1, <3>3, MainFacts
      <3> QED BY <1>1, <2>4, <3>1, <3>2, <3>3, <3>4, ReadingOK
    <2> QED BY <2>5, <2>6
  <1> QED BY <1>3, <1>4

-----------------------------------------------------------------------------
(* The steps of a shell in a line.                                         *)

\* A step of shell s that touches no child.
LEMMA QuietOK ==
  ASSUME IInv, NEW s \in Shells, NEW r, NEW table, r \in ShellState, table \in [Fds -> Ends],
         sh' = [sh EXCEPT ![s] = r], fds' = [fds EXCEPT ![s] = table], proc' = proc,
         buf' \in [Children -> 0..PIPE_SIZE], UNCHANGED text, r.pc \notin {"tokenize", "parse"},
         r.commands = sh[s].commands \/ sh[s].kids = <<>>,
         ShellOK(s, r, proc, table)
  PROVE  IInv'
  <1>1. \A t \in Shells : Same(t, proc, proc')
    BY SameItself
  <1>2. proc' \in [Children -> ChildState] /\ \A p \in Children : proc'[p] = proc[p]
    BY ShellFacts
  <1>3. ShellOK(s, r, proc', table)
    OBVIOUS
  <1>4. sh'[MAIN].pc \in {"tokenize", "parse"} => sh'[MAIN].pc = sh[MAIN].pc
    <2>1. sh \in [Shells -> ShellState] /\ MAIN \in Shells
      BY DEF IInv, Typed, Shells
    <2> QED BY <2>1
  <1>5. TextOK'
    BY <1>4, TextSame
  <1> QED BY <1>1, <1>2, <1>3, <1>5, OneShell

\* The list of children stays and the line goes on.
LEMMA KidsStay ==
  ASSUME NEW s, NEW r0 \in ShellState, NEW r \in ShellState, NEW pr, KidsOK(s, r0, pr),
         r.kids = r0.kids, r.commands = r0.commands,
         \A i \in 1..Len(r0.kids) : pr[r0.kids[i]].ptr <= Done(r0) => pr[r0.kids[i]].ptr <= Done(r),
         r.pc \in Taken => r0.pc \in Taken /\ r.ptr = r0.ptr
  PROVE  KidsOK(s, r, pr)
  BY DEF KidsOK, Operates

\* The exit command closes every descriptor of the shell.
LEMMA ExitOK ==
  ASSUME IInv, NEW s \in Shells, execute_exit_command(s)
  PROVE  IInv'
  <1> DEFINE r == [sh[s] EXCEPT !.pc = "exited", !.code = ExitCode(sh[s].commands[1])]
  <1>1. /\ sh[s].pc = "parsed" /\ sh' = [sh EXCEPT ![s] = r] /\ fds' = [fds EXCEPT ![s] = NoFds]
        /\ UNCHANGED text /\ proc' = proc /\ buf' = buf
    BY DEF execute_exit_command, Reaches, Become
  <1>2. /\ sh[s] \in ShellState /\ KidsOK(s, sh[s], proc) /\ Shape(sh[s])
        /\ buf' \in [Children -> 0..PIPE_SIZE]
    BY <1>1, ShellFacts DEF ShellOK
  <1>3. "exited" \in Pcs /\ ExitCode(sh[s].commands[1]) \in Codes
    BY DEF Pcs, ExitCode, Codes
  <1>4. /\ sh[s].ptr = 0 /\ sh[s].operator = <<>> /\ sh[s].pipe = NONE /\ sh[s].last = NONE /\ sh[s].kids = <<>>
    BY <1>1, <1>2 DEF Shape, Idle
  <1>5. PICK r0 \in ShellState : r0 = sh[s]
    BY <1>2
  <1>6. /\ r \in ShellState /\ r.pc = "exited" /\ r.ptr = 0 /\ r.operator = <<>> /\ r.pipe = NONE
        /\ r.last = NONE /\ r.kids = <<>> /\ r.commands = r0.commands
    BY <1>3, <1>4, <1>5 DEF ShellState
  <1> HIDE DEF r
  <1>7. PICK table : table = NoFds
    OBVIOUS
  <1>8. table \in [Fds -> Ends] /\ TableOK(s, r, table)
    BY <1>6, <1>7, EndKinds DEF TableOK, NoFds
  <1>9. r.pc \in Idle
    BY <1>6 DEF Idle
  <1>10. ShellOK(s, r, proc, table)
    BY <1>2, <1>4, <1>5, <1>6, <1>8, <1>9, IdleOK
  <1> QED BY <1>1, <1>2, <1>4, <1>6, <1>7, <1>8, <1>10, QuietOK

\* A line without children.
LEMMA EmptyKids ==
  ASSUME NEW s, NEW r0 \in ShellState, NEW r \in ShellState, NEW pr,
         KidsOK(s, r0, pr), r0.kids = <<>>, r.kids = <<>>, r.pc \notin Taken
  PROVE  KidsOK(s, r, pr)
  <1>1. (~ \E k \in 1..Len(r0.kids) : TRUE) /\ ~ \E k \in 1..Len(r.kids) : TRUE
    OBVIOUS
  <1> QED BY <1>1 DEF KidsOK

\* The cd command forks nothing.
LEMMA ChdirOK ==
  ASSUME IInv, NEW s \in Shells, execute_chdir_command(s)
  PROVE  IInv'
  <1>1. PICK code \in {0, -1} : sh' = [sh EXCEPT ![s] = [sh[s] EXCEPT !.pc = "wait", !.code = code]]
    BY DEF execute_chdir_command, Become
  <1> DEFINE r == [sh[s] EXCEPT !.pc = "wait", !.code = code]
  <1>2. sh[s].pc = "parsed" /\ UNCHANGED text /\ proc' = proc /\ fds' = fds /\ buf' = buf
    BY DEF execute_chdir_command, Reaches
  <1>3. /\ sh[s] \in ShellState /\ KidsOK(s, sh[s], proc) /\ Shape(sh[s]) /\ TableOK(s, sh[s], fds[s])
        /\ buf' \in [Children -> 0..PIPE_SIZE] /\ fds[s] \in [Fds -> Ends]
    BY <1>2, ShellFacts DEF ShellOK
  <1>4. /\ sh[s].ptr = 0 /\ sh[s].operator = <<>> /\ sh[s].pipe = NONE /\ sh[s].last = NONE /\ sh[s].kids = <<>>
        /\ sh[s].logical = Len(sh[s].commands) /\ sh[s].logical > 0
    BY <1>2, <1>3 DEF Shape, Idle
  <1>5. PICK r0 \in ShellState : r0 = sh[s]
    BY <1>3
  <1>6. "wait" \in Pcs /\ code \in Codes
    BY DEF Pcs, Codes
  <1>7. /\ r \in ShellState /\ r.pc = "wait" /\ r.ptr = 0 /\ r.operator = <<>> /\ r.pipe = NONE
        /\ r.last = NONE /\ r.kids = <<>> /\ r.commands = r0.commands /\ r.logical = r0.logical
    BY <1>4, <1>5, <1>6 DEF ShellState
  <1> HIDE DEF r
  <1>8. PICK table : table = fds[s]
    OBVIOUS
  <1>9. TableOK(s, r, table)
    BY <1>2, <1>3, <1>4, <1>5, <1>7, <1>8, BaseTable
  <1>10. KidsOK(s, r, proc)
    BY <1>3, <1>4, <1>5, <1>7, EmptyKids DEF Taken
  <1>11. Shape(r)
    BY <1>4, <1>5, <1>7 DEF Shape, Taken, Idle
  <1>12. LineOK(r, proc)
    BY <1>7 DEF LineOK, Whole
  <1>13. ShellOK(s, r, proc, table)
    BY <1>9, <1>10, <1>11, <1>12 DEF ShellOK
  <1>14. fds' = [fds EXCEPT ![s] = table] /\ table \in [Fds -> Ends]
    BY <1>2, <1>3, <1>8, ShellFacts
  <1> QED BY <1>1, <1>2, <1>3, <1>4, <1>7, <1>13, <1>14, QuietOK DEF r

\* The line that a shell is busy with.
LEMMA LimitType ==
  ASSUME NEW r \in ShellState
  PROVE  /\ LimitOf(r) \in Int /\ LimitOf(r) <= r.logical /\ LimitOf(r) <= Len(r.commands)
         /\ r.logical >= 0 => LimitOf(r) >= 0
  <1>1. Len(r.commands) \in Nat /\ r.logical \in Int
    BY CommandTypes
  <1>2. PICK n \in Nat : n = Len(r.commands)
    BY <1>1
  <1>3. PICK m \in Int : /\ m <= n /\ m >= 0
                         /\ m = IF n > 1 /\ Name(r.commands[n - 1]) \in {<<">">>, <<">", ">">>}
                                THEN n - 2 ELSE n
    <2> DEFINE behind == Name(r.commands[n - 1]) \in {<<">">>, <<">", ">">>}
               x == IF n > 1 /\ behind THEN n - 2 ELSE n
    <2> HIDE DEF behind
    <2>1. x \in Int /\ x <= n /\ x >= 0
      BY <1>2
    <2>2. x = IF n > 1 /\ behind THEN n - 2 ELSE n
      OBVIOUS
    <2> HIDE DEF x
    <2>3. PICK m \in Int : m = x
      BY <2>1
    <2> QED BY <2>1, <2>2, <2>3 DEF behind
  <1>4. LimitOf(r) = IF m < r.logical THEN m ELSE r.logical
    BY <1>2, <1>3 DEF LimitOf
  <1> QED BY <1>1, <1>2, <1>3, <1>4

\* The names that count as operators.
LEMMA OperatorNames ==
  /\ \A w \in {<<"|">>, <<"|", "|">>, <<"&", "&">>} : is_operator(w)
  /\ <<"|">> # <<"|", "|">> /\ <<"|">> # <<"&", "&">> /\ <<"|", "|">> # <<"&", "&">>
  /\ <<"|">> # <<>> /\ ~ is_operator(<<>>)
  BY DEF is_operator, Operators

\* Odd and even numbers.
LEMMA Parity ==
  /\ \A n \in Int : n % 2 = 0 \/ n % 2 = 1
  /\ \A n \in Int : n % 2 = 0 => (n + 1) % 2 = 1 /\ (n - 1) % 2 = 1
  /\ \A n \in Int : n % 2 = 1 => (n + 1) % 2 = 0 /\ (n - 1) % 2 = 0
  /\ 0 % 2 = 0 /\ 1 % 2 = 1
  OBVIOUS

\* Words stand at the odd places of such a line, operators at the even ones.
LEMMA LineFacts ==
  ASSUME NEW r \in ShellState, r.logical >= 0, WellFormed(r.commands, LimitOf(r))
  PROVE  /\ LimitOf(r) \in Nat /\ LimitOf(r) >= 1
         /\ LimitOf(r) <= r.logical /\ LimitOf(r) <= Len(r.commands)
         /\ \A i \in Nat : i > 0 /\ i <= LimitOf(r) /\ Operates(r, i) =>
              i % 2 = 0 /\ Name(r.commands[i]) \in {<<"|">>, <<"|", "|">>, <<"&", "&">>}
         /\ \A i \in Nat : i > 0 /\ i <= LimitOf(r) /\ i % 2 = 0 => Operates(r, i)
         /\ \A i \in Nat : i > 0 /\ i <= LimitOf(r) /\ ~ Operates(r, i) => i % 2 = 1
         /\ \A i \in Nat : i > 0 /\ i <= LimitOf(r) /\ i % 2 = 1 => ~ Operates(r, i)
  <1>1. PICK n \in Int : n = LimitOf(r)
    BY LimitType
  <1>2. n >= 0 /\ n <= r.logical /\ n <= Len(r.commands)
    BY <1>1, LimitType
  <1>3. n % 2 = 1 /\ \A i \in 1..n : IF i % 2 = 1 THEN ~ Operates(r, i)
          ELSE Name(r.commands[i]) \in {<<"|">>, <<"|", "|">>, <<"&", "&">>}
    BY <1>1 DEF WellFormed, Operates
  <1>4. n # 0
    BY <1>3, Parity
  <1>5. \A i \in 1..n : i % 2 # 1 => Operates(r, i)
    BY <1>3, OperatorNames DEF Operates
  <1>6. \A i \in Nat : i > 0 /\ i <= n => i \in 1..n /\ (i % 2 = 0 \/ i % 2 = 1)
    BY Parity
  <1>7. \A i \in Nat : i > 0 /\ i <= n /\ Operates(r, i) =>
          i % 2 = 0 /\ Name(r.commands[i]) \in {<<"|">>, <<"|", "|">>, <<"&", "&">>}
    BY <1>3, <1>6
  <1>8. \A i \in Nat : i > 0 /\ i <= n /\ i % 2 = 0 => Operates(r, i)
    BY <1>5, <1>6
  <1>9. \A i \in Nat : i > 0 /\ i <= n /\ ~ Operates(r, i) => i % 2 = 1
    BY <1>5, <1>6
  <1>10. \A i \in Nat : i > 0 /\ i <= n /\ i % 2 = 1 => ~ Operates(r, i)
    BY <1>3, <1>6
  <1> QED BY <1>1, <1>2, <1>4, <1>7, <1>8, <1>9, <1>10

\* A shell at the first command of a line.
LEMMA FirstCommandOK ==
  ASSUME NEW s, NEW r0 \in ShellState, NEW r \in ShellState, NEW pr, NEW table,
         KidsOK(s, r0, pr), r0.kids = <<>>, r.pc = "loop", r.kids = <<>>, r.ptr = 0,
         r.operator = <<>>, r.pipe = NONE, 0 <= r.logical, r.logical <= Len(r.commands),
         \A n \in Fds : table[n] = Base(s)[n]
  PROVE  ShellOK(s, r, pr, table)
  <1>1. r.pc \in Busy /\ r.pc \notin Idle /\ r.pc \notin Taken
    BY DEF Busy, Idle, Taken
  <1>2. KidsOK(s, r, pr)
    BY <1>1, EmptyKids
  <1>3. Shape(r)
    BY <1>1 DEF Shape
  <1>4. TableOK(s, r, table)
    BY BaseTable
  <1>5. LineOK(r, pr)
    <2>1. Done(r) = 0
      BY <1>1 DEF Done
    <2>2. Len(r.commands) \in Nat
      BY CommandTypes
    <2>3. ListOK(r, pr)
      <3>1. \A i \in 2..Len(r.commands) : ~ (i < Done(r))
        BY <2>1, <2>2
      <3>2. \A w \in {r.ptr, r.ptr - 1} : ~ (w > 0)
        OBVIOUS
      <3>3. ~ (Done(r) > 0)
        BY <2>1
      <3> QED BY <3>1, <3>2, <3>3 DEF ListOK
    <2> QED BY <2>3 DEF LineOK
  <1> QED BY <1>2, <1>3, <1>4, <1>5 DEF ShellOK

\* A line in the foreground starts at its first command.
LEMMA StartForegroundOK ==
  ASSUME IInv, NEW s \in Shells, StartForeground(s)
  PROVE  IInv'
  <1> DEFINE r == [sh[s] EXCEPT !.pc = "loop"]
  <1>1. /\ sh[s].pc = "parsed" /\ UNCHANGED text /\ proc' = proc /\ fds' = fds /\ buf' = buf
        /\ sh' = [sh EXCEPT ![s] = r]
    BY DEF StartForeground, Reaches, Become
  <1>2. /\ sh[s] \in ShellState /\ KidsOK(s, sh[s], proc) /\ Shape(sh[s]) /\ TableOK(s, sh[s], fds[s])
        /\ buf' \in [Children -> 0..PIPE_SIZE] /\ fds[s] \in [Fds -> Ends]
    BY <1>1, ShellFacts DEF ShellOK
  <1>3. /\ sh[s].ptr = 0 /\ sh[s].operator = <<>> /\ sh[s].pipe = NONE /\ sh[s].last = NONE /\ sh[s].kids = <<>>
        /\ sh[s].logical = Len(sh[s].commands) /\ sh[s].logical > 0
    BY <1>1, <1>2 DEF Shape, Idle
  <1>4. PICK r0 \in ShellState : r0 = sh[s]
    BY <1>2
  <1>5. "loop" \in Pcs
    BY DEF Pcs
  <1>6. /\ r \in ShellState /\ r.pc = "loop" /\ r.ptr = 0 /\ r.operator = <<>> /\ r.pipe = NONE
        /\ r.kids = <<>> /\ r.commands = r0.commands /\ r.logical = r0.logical
    BY <1>3, <1>4, <1>5 DEF ShellState
  <1> HIDE DEF r
  <1>7. PICK table : table = fds[s]
    OBVIOUS
  <1>8. \A n \in Fds : table[n] = Base(s)[n]
    BY <1>1, <1>2, <1>3, <1>4, <1>7, BaseTable
  <1>9. 0 <= r.logical /\ r.logical <= Len(r.commands)
    BY <1>3, <1>4, <1>6, CommandTypes
  <1>10. ShellOK(s, r, proc, table)
    BY <1>2, <1>3, <1>4, <1>6, <1>8, <1>9, FirstCommandOK
  <1>11. fds' = [fds EXCEPT ![s] = table] /\ table \in [Fds -> Ends]
    BY <1>1, <1>2, <1>7, ShellFacts
  <1> QED BY <1>1, <1>2, <1>3, <1>6, <1>10, <1>11, QuietOK

Childs == [Children -> ChildState]

\* The line and its children seen from another record of the same line.
LEMMA SameLine ==
  ASSUME NEW r0, NEW r, NEW pr, r.kids = r0.kids, r.commands = r0.commands, r.logical = r0.logical
  PROVE  /\ LimitOf(r) = LimitOf(r0)
         /\ \A i : Ran(r, pr, i) <=> Ran(r0, pr, i)
         /\ \A i : Decided(r, pr, i) <=> Decided(r0, pr, i)
         /\ \A i : Operates(r, i) <=> Operates(r0, i)
  <1>1. LimitOf(r) = LimitOf(r0)
    BY DEF LimitOf
  <1>2. \A i : Ran(r, pr, i) <=> Ran(r0, pr, i)
    BY DEF Ran
  <1>3. \A i, p : Latest(r, pr, p, i) <=> Latest(r0, pr, p, i)
    BY DEF Latest
  <1>4. \A i : Decided(r, pr, i) <=> Decided(r0, pr, i)
    BY <1>2, <1>3 DEF Decided
  <1> QED BY <1>1, <1>2, <1>4 DEF Operates

\* Which commands have been run, in the order of the line.
LEMMA RanFacts ==
  ASSUME NEW s, NEW r \in ShellState, NEW pr \in Childs, KidsOK(s, r, pr)
  PROVE  /\ \A k \in 1..Len(r.kids) : pr[r.kids[k]].ptr \in Nat
         /\ \A i : Ran(r, pr, i) => i \in Nat /\ i > 0 /\ i <= Done(r) /\ ~ Operates(r, i)
         /\ r.kids = <<>> => \A i : ~ Ran(r, pr, i)
         /\ r.kids # <<>> =>
              /\ pr[r.kids[1]].ptr \in Nat /\ pr[r.kids[1]].ptr > 0 /\ pr[r.kids[1]].ptr <= Done(r)
              /\ Ran(r, pr, pr[r.kids[1]].ptr) /\ ~ Operates(r, pr[r.kids[1]].ptr)
              /\ \A i : Ran(r, pr, i) => i <= pr[r.kids[1]].ptr
              /\ \A k \in 1..Len(r.kids) : pr[r.kids[k]].ptr <= pr[r.kids[1]].ptr
  <1>1. \A k \in 1..Len(r.kids) : /\ pr[r.kids[k]].ptr \in Nat /\ pr[r.kids[k]].ptr > 0
                                  /\ pr[r.kids[k]].ptr <= Done(r) /\ ~ Operates(r, pr[r.kids[k]].ptr)
    <2> TAKE k \in 1..Len(r.kids)
    <2>1. r.kids[k] \in Children
      BY KidTypes
    <2>2. pr[r.kids[k]].ptr \in Nat
      BY <2>1 DEF Childs, ChildState
    <2> QED BY <2>2 DEF KidsOK
  <1>2. Len(r.kids) \in Nat /\ (r.kids # <<>> <=> 1 \in 1..Len(r.kids))
    BY KidTypes
  <1>3. \A k \in 1..Len(r.kids) : pr[r.kids[k]].ptr <= pr[r.kids[1]].ptr
    <2> TAKE k \in 1..Len(r.kids)
    <2>1. k = 1 \/ 1 < k
      BY <1>2
    <2>2. 1 \in 1..Len(r.kids)
      BY <1>2
    <2>3. 1 < k => pr[r.kids[k]].ptr < pr[r.kids[1]].ptr
      BY <2>2 DEF KidsOK
    <2> QED BY <1>1, <2>1, <2>2, <2>3
  <1>4. \A i : Ran(r, pr, i) => i \in Nat /\ i > 0 /\ i <= Done(r) /\ ~ Operates(r, i)
    BY <1>1 DEF Ran
  <1>5. r.kids = <<>> => \A i : ~ Ran(r, pr, i)
    BY <1>2 DEF Ran
  <1>6. r.kids # <<>> =>
          /\ pr[r.kids[1]].ptr \in Nat /\ pr[r.kids[1]].ptr > 0 /\ pr[r.kids[1]].ptr <= Done(r)
          /\ Ran(r, pr, pr[r.kids[1]].ptr) /\ ~ Operates(r, pr[r.kids[1]].ptr)
    BY <1>1, <1>2 DEF Ran
  <1>7. \A i : Ran(r, pr, i) => i <= pr[r.kids[1]].ptr
    BY <1>3 DEF Ran
  <1> QED BY <1>1, <1>3, <1>4, <1>5, <1>6, <1>7

\* In a line ptr is a place of it.
LEMMA BusyFacts ==
  ASSUME NEW r \in ShellState, Shape(r), r.pc \in Busy
  PROVE  /\ r.ptr \in Nat /\ r.logical \in Nat /\ Len(r.commands) \in Nat
         /\ r.ptr <= r.logical /\ r.logical <= Len(r.commands)
  BY CommandTypes DEF Shape

\* In the loop of main the command behind ptr is the next one.
LEMMA Advance ==
  ASSUME NEW s, NEW r0 \in ShellState, NEW r \in ShellState, NEW pr \in Childs,
         Shape(r0), KidsOK(s, r0, pr), LineOK(r0, pr), r0.pc = "loop", r.pc = "loop",
         r.kids = r0.kids, r.commands = r0.commands, r.logical = r0.logical, r.pipe = r0.pipe,
         r.code = r0.code, r.last = r0.last, r.ptr = r0.ptr + 1, r0.ptr < r0.logical,
         Operates(r0, r0.ptr + 1) => r.operator = Name(r0.commands[r0.ptr + 1]),
         r0.pipe # NONE => Operates(r0, r0.ptr + 1),
         WellFormed(r0.commands, LimitOf(r0)) =>
           /\ r0.ptr > 0
           /\ r0.ptr % 2 = 0 /\ r0.ptr < LimitOf(r0) => Decided(r0, pr, r0.ptr)
           /\ r0.ptr % 2 = 1 /\ r0.ptr < LimitOf(r0) /\ Ran(r0, pr, r0.ptr) =>
                r0.pipe # NONE \/ ~ Operates(r0, r0.ptr + 1)
  PROVE  Shape(r) /\ KidsOK(s, r, pr) /\ LineOK(r, pr)
  <1>1. /\ r.pc \in Busy /\ r.pc \notin Idle /\ r.pc \notin Taken /\ r0.pc \in Busy
        /\ r0.pc \notin Taken
    BY DEF Busy, Idle, Taken
  <1>2. /\ r0.ptr \in Nat /\ r0.logical \in Nat /\ Len(r0.commands) \in Nat
        /\ r0.ptr < r0.logical /\ r0.logical <= Len(r0.commands)
    BY <1>1, BusyFacts
  <1>3. Done(r0) = r0.ptr /\ Done(r) = r0.ptr + 1
    BY <1>1 DEF Done
  <1>4. KidsOK(s, r, pr)
    <2>1. \A i \in 1..Len(r0.kids) : pr[r0.kids[i]].ptr <= Done(r0) => pr[r0.kids[i]].ptr <= Done(r)
      <3>1. \A i \in 1..Len(r0.kids) : pr[r0.kids[i]].ptr \in Nat
        BY RanFacts
      <3> QED BY <1>2, <1>3, <3>1
    <2> QED BY <1>1, <2>1, KidsStay
  <1>5. /\ LimitOf(r) = LimitOf(r0)
        /\ \A i : Ran(r, pr, i) <=> Ran(r0, pr, i)
        /\ \A i : Decided(r, pr, i) <=> Decided(r0, pr, i)
        /\ \A i : Operates(r, i) <=> Operates(r0, i)
    BY SameLine
  <1>6. Shape(r)
    BY <1>1, <1>2, <1>5 DEF Shape
  <1>7. r.pipe # NONE =>
          /\ \A i \in (pr[r.kids[1]].ptr + 1)..r.ptr : Operates(r, i)
          /\ pr[r.kids[1]].ptr = r.ptr => r.operator = <<>>
    <2> HAVE r.pipe # NONE
    <2>1. r.kids # <<>>
      BY DEF Shape
    <2>2. PICK m \in Nat : m = pr[r.kids[1]].ptr
      BY <2>1, RanFacts
    <2>3. m <= r0.ptr
      BY <1>3, <2>1, <2>2, RanFacts
    <2>4. \A i \in (m + 1)..r0.ptr : Operates(r0, i)
      BY <2>2 DEF LineOK
    <2>5. \A i \in (m + 1)..r.ptr : Operates(r0, i)
      <3> TAKE i \in (m + 1)..r.ptr
      <3>1. i = r0.ptr + 1 \/ i \in (m + 1)..r0.ptr
        BY <1>2
      <3> QED BY <2>4, <3>1
    <2> QED BY <1>2, <1>5, <2>2, <2>3, <2>5
  <1>8. ASSUME WellFormed(r.commands, LimitOf(r))
        PROVE  ListOK(r, pr)
    <2>1. WellFormed(r0.commands, LimitOf(r0)) /\ Whole(r0) /\ ListOK(r0, pr)
      BY <1>1, <1>5, <1>8 DEF LineOK, Whole
    <2>2. r0.ptr > 0 /\ Ran(r0, pr, 1)
      BY <1>3, <2>1 DEF ListOK
    <2>3. ASSUME NEW i \in 2..Len(r.commands), i % 2 = 0, i < Done(r), i < LimitOf(r)
          PROVE  Decided(r, pr, i)
      <3>1. i = r0.ptr \/ i < Done(r0)
        BY <1>2, <1>3, <2>3
      <3> QED BY <1>5, <2>1, <2>3, <3>1 DEF ListOK
    <2>4. ASSUME NEW w \in {r.ptr, r.ptr - 1}, w > 0, w % 2 = 1, w < LimitOf(r), Ran(r, pr, w)
          PROVE  r.pipe # NONE \/ (w = r.ptr - 1 /\ Name(r.commands[r.ptr]) # <<"|">>)
      <3>1. Ran(r0, pr, w) /\ w <= r0.ptr
        BY ZenonT(60), <1>3, <1>5, <2>4, RanFacts
      <3>2. w = r0.ptr
        BY <1>2, <2>4, <3>1
      <3>3. r.pipe # NONE \/ ~ Operates(r0, r0.ptr + 1)
        BY <1>5, <2>1, <2>4, <3>1, <3>2
      <3>4. ~ Operates(r0, r0.ptr + 1) => Name(r.commands[r.ptr]) # <<"|">>
        BY OperatorNames DEF Operates
      <3> QED BY <1>2, <3>2, <3>3, <3>4
    <2> QED BY <1>5, <2>2, <2>3, <2>4 DEF ListOK
  <1>9. r.kids # <<>> /\ r.pipe = NONE => pr[r.kids[1]].st = "reaped" /\ r.code = pr[r.kids[1]].code
    BY DEF LineOK
  <1> QED BY <1>4, <1>6, <1>7, <1>8, <1>9 DEF LineOK

\* What is known of a shell in the loop over the commands.
LEMMA LoopFacts ==
  ASSUME IInv, NEW s \in Shells, sh[s].pc = "loop"
  PROVE  /\ sh[s] \in ShellState /\ Shape(sh[s]) /\ KidsOK(s, sh[s], proc) /\ LineOK(sh[s], proc)
         /\ TableOK(s, sh[s], fds[s]) /\ fds[s] \in [Fds -> Ends] /\ proc \in Childs
         /\ buf \in [Children -> 0..PIPE_SIZE] /\ sh[s].ptr \in Nat /\ sh[s].logical \in Nat
         /\ Len(sh[s].commands) \in Nat /\ sh[s].logical <= Len(sh[s].commands)
         /\ sh[s].ptr <= sh[s].logical
  <1>1. sh[s] \in ShellState /\ Shape(sh[s]) /\ KidsOK(s, sh[s], proc) /\ LineOK(sh[s], proc)
         /\ TableOK(s, sh[s], fds[s]) /\ fds[s] \in [Fds -> Ends] /\ proc \in Childs
         /\ buf \in [Children -> 0..PIPE_SIZE]
    BY ShellFacts DEF ShellOK, Childs
  <1>2. sh[s].pc \in Busy
    BY DEF Busy
  <1>3. PICK r \in ShellState : r = sh[s]
    BY <1>1
  <1> QED BY <1>1, <1>2, <1>3, BusyFacts

\* The next command is the one behind ptr.
LEMMA CurrentFacts ==
  ASSUME NEW s
  PROVE  is_operator(Name(Current(s))) <=> Operates(sh[s], sh[s].ptr + 1)
  BY DEF Current, Operates

\* The loop goes on behind a command without touching a child or a descriptor.
LEMMA AdvanceOK ==
  ASSUME IInv, NEW s \in Shells, sh[s].pc = "loop", NEW r, r \in ShellState,
         sh' = [sh EXCEPT ![s] = r], UNCHANGED text, proc' = proc, fds' = fds, buf' = buf,
         r.pc = "loop", r.kids = sh[s].kids, r.commands = sh[s].commands,
         r.logical = sh[s].logical, r.pipe = sh[s].pipe, r.code = sh[s].code,
         r.last = sh[s].last, r.ptr = sh[s].ptr + 1, sh[s].ptr < sh[s].logical,
         Operates(sh[s], sh[s].ptr + 1) => r.operator = Name(sh[s].commands[sh[s].ptr + 1]),
         sh[s].pipe # NONE => Operates(sh[s], sh[s].ptr + 1),
         WellFormed(sh[s].commands, LimitOf(sh[s])) =>
           /\ sh[s].ptr > 0
           /\ sh[s].ptr % 2 = 0 /\ sh[s].ptr < LimitOf(sh[s]) => Decided(sh[s], proc, sh[s].ptr)
           /\ sh[s].ptr % 2 = 1 /\ sh[s].ptr < LimitOf(sh[s]) /\ Ran(sh[s], proc, sh[s].ptr) =>
                sh[s].pipe # NONE \/ ~ Operates(sh[s], sh[s].ptr + 1)
  PROVE  IInv'
  <1>1. PICK r0 \in ShellState : r0 = sh[s]
    BY LoopFacts
  <1>2. PICK pr \in Childs : pr = proc
    BY LoopFacts
  <1>3. PICK table \in [Fds -> Ends] : table = fds[s] /\ fds' = [fds EXCEPT ![s] = table]
    BY LoopFacts, ShellFacts
  <1>4. Shape(r0) /\ KidsOK(s, r0, pr) /\ LineOK(r0, pr) /\ TableOK(s, r0, table)
    BY <1>1, <1>2, <1>3, LoopFacts
  <1>5. Shape(r) /\ KidsOK(s, r, pr) /\ LineOK(r, pr)
    BY <1>1, <1>2, <1>4, Advance
  <1>6. TableOK(s, r, table)
    <2>1. Held(r) = Held(r0)
      BY <1>1 DEF Held
    <2> QED BY <1>1, <1>4, <2>1 DEF TableOK
  <1>7. ShellOK(s, r, proc, table) /\ buf' \in [Children -> 0..PIPE_SIZE]
    BY <1>2, <1>5, <1>6, LoopFacts DEF ShellOK
  <1> QED BY <1>3, <1>7, QuietOK

\* Taking an operator keeps the invariant: it stands at an even place, and a
\* pipe that is still open belongs to the command before it.
LEMMA TakeOperatorOK ==
  ASSUME IInv, NEW s \in Shells, TakeOperator(s)
  PROVE  IInv'
  <1> DEFINE r == [sh[s] EXCEPT !.operator = Name(Current(s)), !.ptr = @ + 1]
  <1>1. /\ sh[s].pc = "loop" /\ UNCHANGED text /\ proc' = proc /\ fds' = fds /\ buf' = buf
        /\ sh' = [sh EXCEPT ![s] = r] /\ sh[s].ptr < sh[s].logical
        /\ Operates(sh[s], sh[s].ptr + 1)
    BY CurrentFacts DEF TakeOperator, Reaches, Become
  <1>2. PICK r0 \in ShellState : r0 = sh[s]
    BY <1>1, LoopFacts
  <1>3. /\ r0.ptr \in Nat /\ r0.logical \in Nat /\ r0.logical <= Len(r0.commands) /\ r0.ptr < r0.logical
        /\ Len(r0.commands) \in Nat
    BY <1>1, <1>2, LoopFacts
  <1>4. Current(s) = r0.commands[r0.ptr + 1] /\ Name(Current(s)) \in Token
    BY <1>2, <1>3, CommandTypes DEF Current
  <1>5. /\ r \in ShellState /\ r.pc = "loop" /\ r.kids = r0.kids /\ r.commands = r0.commands
        /\ r.logical = r0.logical /\ r.pipe = r0.pipe /\ r.code = r0.code /\ r.last = r0.last
        /\ r.ptr = r0.ptr + 1 /\ r.operator = Name(r0.commands[r0.ptr + 1])
    <2>1. PICK x \in Token : x = Name(Current(s))
      BY <1>4
    <2>2. r = [r0 EXCEPT !.operator = x, !.ptr = r0.ptr + 1] /\ r0.ptr + 1 \in Nat
      BY <1>2, <1>3, <2>1
    <2> HIDE DEF r
    <2> QED BY <1>1, <1>2, <1>4, <2>1, <2>2 DEF ShellState
  <1> HIDE DEF r
  <1>6. ASSUME WellFormed(r0.commands, LimitOf(r0))
        PROVE  /\ r0.ptr > 0
               /\ r0.ptr % 2 = 0 /\ r0.ptr < LimitOf(r0) => Decided(r0, proc, r0.ptr)
               /\ r0.ptr % 2 = 1 /\ r0.ptr < LimitOf(r0) /\ Ran(r0, proc, r0.ptr) =>
                    r0.pipe # NONE \/ ~ Operates(r0, r0.ptr + 1)
    <2>1. /\ LimitOf(r0) \in Nat /\ LimitOf(r0) >= 1 /\ LimitOf(r0) <= r0.logical
          /\ \A i \in Nat : i > 0 /\ i <= LimitOf(r0) /\ i % 2 = 1 => ~ Operates(r0, i)
      <3>1. r0 \in ShellState /\ r0.logical >= 0
        BY <1>2, <1>3
      <3> QED BY <1>6, <3>1, LineFacts
    <2>2. r0.ptr + 1 <= LimitOf(r0) => (r0.ptr + 1) % 2 # 1
      BY <1>1, <1>2, <1>3, <2>1
    <2>3. r0.ptr > 0
      <3>1. r0.ptr = 0 => (r0.ptr + 1) % 2 = 1
        BY Parity
      <3> QED BY <1>3, <2>1, <2>2, <3>1
    <2>4. r0.ptr % 2 = 0 => ~ (r0.ptr < LimitOf(r0))
      BY <1>3, <2>1, <2>2, Parity
    <2>5. r0.ptr % 2 = 1 /\ r0.ptr < LimitOf(r0) /\ Ran(r0, proc, r0.ptr) => r0.pipe # NONE
      <3>1. ListOK(r0, proc)
        BY <1>1, <1>2, <1>6, LoopFacts DEF LineOK, Whole, Busy
      <3>2. r0.pc = "loop" /\ r0.ptr \in {r0.ptr, r0.ptr - 1} /\ r0.ptr # r0.ptr - 1
        BY <1>1, <1>2, <1>3
      <3> QED BY <2>3, <3>1, <3>2 DEF ListOK
    <2> QED BY <2>3, <2>4, <2>5
  <1> QED BY <1>1, <1>2, <1>5, <1>6, AdvanceOK

\* What decides that a command is skipped.
LEMMA SkipAfterListOK ==
  ASSUME IInv, NEW s \in Shells, SkipAfterList(s)
  PROVE  IInv'
  <1> DEFINE r == [sh[s] EXCEPT !.ptr = @ + 1]
  <1>1. /\ sh[s].pc = "loop" /\ UNCHANGED text /\ proc' = proc /\ fds' = fds /\ buf' = buf
        /\ sh' = [sh EXCEPT ![s] = r] /\ sh[s].ptr < sh[s].logical
        /\ ~ Operates(sh[s], sh[s].ptr + 1) /\ sh[s].pipe = NONE
        /\ sh[s].operator # <<>> /\ sh[s].operator # <<"|">> /\ Skipped(s)
    BY CurrentFacts DEF SkipAfterList, AtCommand, AfterList, Reaches, Become
  <1>2. PICK r0 \in ShellState : r0 = sh[s]
    BY <1>1, LoopFacts
  <1>3. /\ r0.ptr \in Nat /\ r0.logical \in Nat /\ r0.logical <= Len(r0.commands) /\ r0.ptr < r0.logical
        /\ Len(r0.commands) \in Nat /\ Shape(r0) /\ KidsOK(s, r0, proc) /\ LineOK(r0, proc)
    BY <1>1, <1>2, LoopFacts
  <1>4. PICK pr \in Childs : pr = proc
    BY <1>1, LoopFacts
  <1>5. /\ r \in ShellState /\ r.pc = "loop" /\ r.kids = r0.kids /\ r.commands = r0.commands
        /\ r.logical = r0.logical /\ r.pipe = r0.pipe /\ r.code = r0.code /\ r.last = r0.last
        /\ r.ptr = r0.ptr + 1
    BY SMTT(60), <1>1, <1>2, <1>3 DEF ShellState
  <1> HIDE DEF r
  <1>6. r0.ptr > 0
    BY <1>1, <1>2, <1>3 DEF Shape
  <1>7. ASSUME WellFormed(r0.commands, LimitOf(r0)), r0.ptr % 2 = 0, r0.ptr < LimitOf(r0)
        PROVE  Decided(r0, pr, r0.ptr)
    <2>1. /\ LimitOf(r0) \in Nat /\ Operates(r0, r0.ptr)
          /\ Name(r0.commands[r0.ptr]) \in {<<"|">>, <<"|", "|">>, <<"&", "&">>}
      BY <1>3, <1>6, <1>7, LineFacts
    <2>2. r0.operator = Name(r0.commands[r0.ptr])
      BY <1>1, <1>2, <1>3, <1>6, <2>1 DEF Shape
    <2>3. ListOK(r0, pr) /\ Done(r0) = r0.ptr
      BY <1>1, <1>2, <1>3, <1>4, <1>7 DEF LineOK, Whole, Busy, Done, Taken
    <2>4. Ran(r0, pr, 1)
      BY <1>6, <2>3 DEF ListOK
    <2>5. /\ r0.kids # <<>> /\ pr[r0.kids[1]].ptr \in Nat /\ pr[r0.kids[1]].ptr <= r0.ptr
          /\ ~ Operates(r0, pr[r0.kids[1]].ptr)
          /\ \A k \in 1..Len(r0.kids) : pr[r0.kids[k]].ptr <= pr[r0.kids[1]].ptr
          /\ \A i : Ran(r0, pr, i) => i <= r0.ptr
      BY <1>3, <1>4, <2>3, <2>4, RanFacts
    <2>6. pr[r0.kids[1]].ptr <= r0.ptr - 1
      BY <1>3, <2>1, <2>5
    <2>7. Latest(r0, pr, r0.kids[1], r0.ptr - 1)
      BY SMTT(60), <2>5, <2>6 DEF Latest
    <2>8. pr[r0.kids[1]].st = "reaped" /\ r0.code = pr[r0.kids[1]].code
      BY <1>1, <1>2, <1>3, <1>4, <2>5 DEF LineOK
    <2>9. ~ Ran(r0, pr, r0.ptr + 1)
      BY <1>3, <2>5
    <2>10. IF Name(r0.commands[r0.ptr]) = <<"|", "|">> THEN r0.code = 0 ELSE r0.code # 0
      BY <1>1, <1>2, <2>2 DEF Skipped
    <2>11. Name(r0.commands[r0.ptr]) # <<"|">> /\ 1 \in 1..Len(r0.kids)
      BY <1>1, <1>2, <2>2, <2>5, KidTypes
    <2> QED BY <2>7, <2>8, <2>9, <2>10, <2>11 DEF Decided
  <1>8. WellFormed(r0.commands, LimitOf(r0)) =>
           /\ r0.ptr > 0
           /\ r0.ptr % 2 = 0 /\ r0.ptr < LimitOf(r0) => Decided(r0, proc, r0.ptr)
           /\ r0.ptr % 2 = 1 /\ r0.ptr < LimitOf(r0) /\ Ran(r0, proc, r0.ptr) =>
                r0.pipe # NONE \/ ~ Operates(r0, r0.ptr + 1)
    BY <1>1, <1>2, <1>4, <1>6, <1>7
  <1> QED BY <1>1, <1>2, <1>5, <1>8, AdvanceOK

\* A command behind | is skipped when the one before it was not run.
LEMMA SkipAfterPipeOK ==
  ASSUME IInv, NEW s \in Shells, SkipAfterPipe(s)
  PROVE  IInv'
  <1> DEFINE r == [sh[s] EXCEPT !.ptr = @ + 1, !.operator = <<>>]
  <1>1. /\ sh[s].pc = "loop" /\ UNCHANGED text /\ proc' = proc /\ fds' = fds /\ buf' = buf
        /\ sh' = [sh EXCEPT ![s] = r] /\ sh[s].ptr < sh[s].logical
        /\ ~ Operates(sh[s], sh[s].ptr + 1) /\ sh[s].pipe = NONE
        /\ sh[s].operator = <<"|">> /\ sh[s].ptr # 0
    BY CurrentFacts DEF SkipAfterPipe, AtCommand, Reaches, Become
  <1>2. PICK r0 \in ShellState : r0 = sh[s]
    BY <1>1, LoopFacts
  <1>3. /\ r0.ptr \in Nat /\ r0.logical \in Nat /\ r0.logical <= Len(r0.commands) /\ r0.ptr < r0.logical
        /\ Len(r0.commands) \in Nat /\ Shape(r0) /\ KidsOK(s, r0, proc) /\ LineOK(r0, proc)
    BY <1>1, <1>2, LoopFacts
  <1>4. PICK pr \in Childs : pr = proc
    BY <1>1, LoopFacts
  <1>5. /\ r \in ShellState /\ r.pc = "loop" /\ r.kids = r0.kids /\ r.commands = r0.commands
        /\ r.logical = r0.logical /\ r.pipe = r0.pipe /\ r.code = r0.code /\ r.last = r0.last
        /\ r.ptr = r0.ptr + 1
    <2>1. <<>> \in Token
      BY EmptySeq DEF Token
    <2>2. r = [r0 EXCEPT !.ptr = r0.ptr + 1, !.operator = <<>>] /\ r0.ptr + 1 \in Nat
      BY <1>2, <1>3
    <2> HIDE DEF r
    <2> QED BY <1>1, <1>2, <2>1, <2>2 DEF ShellState
  <1> HIDE DEF r
  <1>6. ASSUME WellFormed(r0.commands, LimitOf(r0)), r0.ptr % 2 = 0, r0.ptr < LimitOf(r0)
        PROVE  Decided(r0, pr, r0.ptr)
    <2>1. LimitOf(r0) \in Nat /\ Operates(r0, r0.ptr)
      BY SMTT(60), <1>1, <1>2, <1>3, <1>6, LineFacts
    <2>2. Name(r0.commands[r0.ptr]) = <<"|">>
      <3>1. r0.ptr > 0 /\ r0.pc = "loop" /\ r0.operator = <<"|">>
        BY <1>1, <1>2, <1>3
      <3> QED BY <1>3, <2>1, <3>1 DEF Shape
    <2>3. ListOK(r0, pr) /\ Done(r0) = r0.ptr
      BY <1>1, <1>2, <1>3, <1>4, <1>6 DEF LineOK, Whole, Busy, Done, Taken
    <2>4. ~ Ran(r0, pr, r0.ptr + 1)
      <3>1. \A i : Ran(r0, pr, i) => i <= r0.ptr
        BY <1>3, <1>4, <2>3, RanFacts
      <3> QED BY <1>3, <3>1
    <2>5. ~ Ran(r0, pr, r0.ptr - 1)
      <3>1. r0.ptr - 1 > 0 /\ (r0.ptr - 1) % 2 = 1 /\ r0.ptr - 1 < LimitOf(r0)
        <4>1. r0.ptr # 1
          BY <1>6, Parity
        <4>2. (r0.ptr - 1) % 2 = 1
          BY <1>3, <1>6, Parity
        <4> QED BY SMTT(60), <1>1, <1>2, <1>3, <1>6, <2>1, <4>1, <4>2
      <3>2. r0.pc = "loop" /\ r0.pipe = NONE
        BY <1>1, <1>2
      <3> QED BY <2>2, <2>3, <3>1, <3>2 DEF ListOK
    <2> QED BY <2>2, <2>4, <2>5 DEF Decided
  <1>7. WellFormed(r0.commands, LimitOf(r0)) =>
           /\ r0.ptr > 0
           /\ r0.ptr % 2 = 0 /\ r0.ptr < LimitOf(r0) => Decided(r0, proc, r0.ptr)
           /\ r0.ptr % 2 = 1 /\ r0.ptr < LimitOf(r0) /\ Ran(r0, proc, r0.ptr) =>
                r0.pipe # NONE \/ ~ Operates(r0, r0.ptr + 1)
    BY <1>1, <1>2, <1>3, <1>4, <1>6
  <1> QED BY <1>1, <1>2, <1>5, <1>7, AdvanceOK

\* A byte more has been read from a pipe.
LEMMA DrainOK ==
  ASSUME IInv, NEW q, buf[q] > 0, buf' = [buf EXCEPT ![q] = @ - 1], UNCHANGED <<text, sh, proc, fds>>
  PROVE  IInv'
  <1>1. buf' \in [Children -> 0..PIPE_SIZE]
    BY BufType DEF IInv, Typed
  <1>2. Typed'
    BY <1>1 DEF IInv, Typed
  <1>3. TextOK'
    BY TextSame
  <1>4. /\ \A s \in Shells : ShellOK(s, sh[s], proc, fds[s])'
        /\ \A p \in Children : ChildOK(p, proc, fds[p], sh[MAIN].commands)'
    BY DEF IInv
  <1> QED BY <1>2, <1>3, <1>4 DEF IInv

\* The only end a shell holds in the loop or after it is that of the last pipe.
LEMMA ClosePipe ==
  ASSUME NEW s, NEW r \in ShellState, NEW table0 \in [Fds -> Ends], NEW table, TableOK(s, r, table0),
         r.pc \in {"loop", "end"},
         table = IF r.pipe # NONE THEN Close(table0, r.pipe) ELSE table0
  PROVE  table \in [Fds -> Ends] /\ \A n \in Fds : table[n] = Base(s)[n]
  <1>1. CASE r.pipe = NONE
    BY <1>1, BaseTable
  <1>2. CASE r.pipe # NONE
    <2>1. r.pipe \in Fds
      BY <1>2 DEF ShellState, MaybeFd
    <2>2. PICK n \in Fds : n = r.pipe
      BY <2>1
    <2>3. /\ table \in [Fds -> Ends] /\ table[n] = Closed
          /\ \A k \in Fds : k # n => table[k] = table0[k]
      BY <1>2, <2>2, TableOps
    <2>4. Held(r) = {n}
      BY <2>2 DEF Held
    <2>5. Base(s)[n] = Closed /\ \A k \in Fds : k # n => table0[k] = Base(s)[k]
      BY <2>4 DEF TableOK
    <2> QED BY <2>3, <2>5
  <1> QED BY <1>1, <1>2

\* Before a command behind && or || the shell reads the last pipe to its end.
LEMMA FinishPipelineOK ==
  ASSUME IInv, NEW s \in Shells, FinishPipeline(s)
  PROVE  IInv'
  <1>1. /\ sh[s].pc = "loop" /\ sh[s].ptr < sh[s].logical /\ ~ Operates(sh[s], sh[s].ptr + 1)
        /\ sh[s].pipe # NONE /\ sh[s].operator # <<>> /\ sh[s].operator # <<"|">>
    BY CurrentFacts DEF FinishPipeline, AtCommand, AfterList, Reaches
  <1>2. CASE DrainByte(s, sh[s].pipe)
    BY <1>2, DrainOK DEF DrainByte
  <1>3. CASE ~ DrainByte(s, sh[s].pipe)
    <2> DEFINE r == [sh[s] EXCEPT !.pipe = NONE, !.pc = "reap"]
    <2>1. /\ UNCHANGED text /\ proc' = proc /\ buf' = buf /\ sh' = [sh EXCEPT ![s] = r]
          /\ fds' = [fds EXCEPT ![s] = Close(@, sh[s].pipe)]
      BY <1>3 DEF FinishPipeline, Become
    <2>2. PICK r0 \in ShellState : r0 = sh[s]
      BY <1>1, LoopFacts
    <2>3. PICK pr \in Childs : pr = proc
      BY <1>1, LoopFacts
    <2>4. PICK table0 \in [Fds -> Ends] : table0 = fds[s]
      BY <1>1, LoopFacts
    <2>5. PICK table : table = Close(table0, r0.pipe)
      OBVIOUS
    <2>6. /\ Shape(r0) /\ KidsOK(s, r0, pr) /\ LineOK(r0, pr) /\ TableOK(s, r0, table0)
          /\ r0.ptr \in Nat /\ r0.logical \in Nat /\ r0.logical <= Len(r0.commands) /\ r0.ptr < r0.logical
          /\ r0.pc = "loop" /\ r0.pipe # NONE /\ r0.operator # <<>> /\ r0.operator # <<"|">>
      BY <1>1, <2>2, <2>3, <2>4, LoopFacts
    <2>7. /\ r \in ShellState /\ r.pc = "reap" /\ r.kids = r0.kids /\ r.commands = r0.commands
          /\ r.logical = r0.logical /\ r.pipe = NONE /\ r.code = r0.code /\ r.last = r0.last
          /\ r.ptr = r0.ptr /\ r.operator = r0.operator
      <3>1. NONE \in MaybeFd /\ "reap" \in Pcs
        BY DEF MaybeFd, Pcs
      <3> QED BY <2>2, <3>1 DEF ShellState
    <2> HIDE DEF r
    <2>8. /\ r.pc \in Busy /\ r.pc \notin Idle /\ r.pc \notin Taken /\ r0.pc \notin Taken /\ r0.pc \in Busy
      BY <2>6, <2>7 DEF Busy, Idle, Taken
    <2>9. Done(r) = r0.ptr /\ Done(r0) = r0.ptr
      BY <2>6, <2>7, <2>8 DEF Done
    <2>10. KidsOK(s, r, pr)
      BY <2>6, <2>7, <2>8, <2>9, KidsStay
    <2>11. /\ LimitOf(r) = LimitOf(r0)
           /\ \A i : Ran(r, pr, i) <=> Ran(r0, pr, i)
           /\ \A i : Decided(r, pr, i) <=> Decided(r0, pr, i)
           /\ \A i : Operates(r, i) <=> Operates(r0, i)
      BY <2>7, SameLine
    <2>12. r0.kids # <<>>
      BY <2>6 DEF Shape
    <2>13. Shape(r)
      BY <2>6, <2>7, <2>8, <2>11, <2>12 DEF Shape
    <2>14. r0.ptr > 0 /\ Operates(r0, r0.ptr) /\ r0.operator = Name(r0.commands[r0.ptr])
      <3>1. PICK m \in Nat : m = pr[r0.kids[1]].ptr
        BY <2>6, <2>12, RanFacts
      <3>2. m > 0 /\ m <= r0.ptr
        BY <2>6, <2>9, <2>12, <3>1, RanFacts
      <3>3. m # r0.ptr /\ \A i \in (m + 1)..r0.ptr : Operates(r0, i)
        BY <2>6, <3>1 DEF LineOK
      <3>4. r0.ptr \in (m + 1)..r0.ptr /\ r0.ptr > 0
        BY <2>6, <3>2, <3>3
      <3>5. Operates(r0, r0.ptr)
        BY <3>3, <3>4
      <3> QED BY <2>6, <3>4, <3>5 DEF Shape
    <2>15. ASSUME WellFormed(r.commands, LimitOf(r))
           PROVE  ListOK(r, pr)
      <3>1. ListOK(r0, pr)
        BY <2>6, <2>7, <2>8, <2>11, <2>15 DEF LineOK, Whole
      <3>2. \A w \in {r.ptr, r.ptr - 1} : w > 0 /\ w % 2 = 1 /\ w < LimitOf(r) /\ Ran(r, pr, w)
              => w = r.ptr - 1 /\ Name(r.commands[r.ptr]) # <<"|">>
        <4>1. ~ Ran(r0, pr, r0.ptr)
          BY <2>6, <2>14, RanFacts
        <4> QED BY <2>6, <2>7, <2>11, <2>14, <4>1
      <3> QED BY <2>7, <2>9, <2>11, <3>1, <3>2 DEF ListOK
    <2>16. LineOK(r, pr)
      BY <2>7, <2>15 DEF LineOK
    <2>17. table \in [Fds -> Ends] /\ \A n \in Fds : table[n] = Base(s)[n]
      BY <2>5, <2>6, ClosePipe
    <2>18. TableOK(s, r, table)
      BY <2>7, <2>17, BaseTable
    <2>19. ShellOK(s, r, proc, table)
      BY <2>3, <2>10, <2>13, <2>16, <2>18 DEF ShellOK
    <2>20. fds' = [fds EXCEPT ![s] = table] /\ buf' \in [Children -> 0..PIPE_SIZE]
      BY <1>1, <2>1, <2>2, <2>4, <2>5, LoopFacts
    <2> QED BY <2>1, <2>2, <2>7, <2>17, <2>19, <2>20, QuietOK
  <1> QED BY <1>2, <1>3

\* A shell that waits for one of its children.
Reaped(pr, p) == [pr EXCEPT ![p].st = "reaped"]

\* Waiting for one child leaves the others alone.
LEMMA ReapSame ==
  ASSUME NEW pr \in Childs, NEW p \in Children, NEW pr2, pr[p].st \in {"zombie", "reaped"},
         pr2 = Reaped(pr, p)
  PROVE  /\ pr2 \in Childs /\ pr2[p].st = "reaped" /\ pr2[p].code = pr[p].code
         /\ pr2[p].parent = pr[p].parent /\ pr2[p].ptr = pr[p].ptr
         /\ \A o \in Children : o # p => pr2[o] = pr[o]
         /\ \A t : Same(t, pr, pr2)
  <1> DEFINE c == [pr[p] EXCEPT !.st = "reaped"]
  <1>1. pr2 = [pr EXCEPT ![p] = c]
    BY DEF Reaped
  <1>2. /\ c \in ChildState /\ c.st = "reaped" /\ c.code = pr[p].code /\ c.parent = pr[p].parent
        /\ c.ptr = pr[p].ptr
    BY DEF Childs, ChildState
  <1> HIDE DEF c
  <1>3. pr2 \in Childs /\ pr2[p] = c /\ \A o \in Children : o # p => pr2[o] = pr[o]
    BY <1>1, <1>2 DEF Childs
  <1>4. \A t : Same(t, pr, pr2)
    BY <1>2, <1>3 DEF Same
  <1> QED BY <1>2, <1>3, <1>4

\* Then it waits for the newest child and remembers its code.
LEMMA ReapLastOK ==
  ASSUME IInv, NEW s \in Shells, ReapLast(s)
  PROVE  IInv'
  <1>1. /\ sh[s] \in ShellState /\ Shape(sh[s]) /\ KidsOK(s, sh[s], proc) /\ LineOK(sh[s], proc)
        /\ TableOK(s, sh[s], fds[s]) /\ fds[s] \in [Fds -> Ends] /\ proc \in Childs
        /\ buf \in [Children -> 0..PIPE_SIZE]
    BY ShellFacts DEF ShellOK, Childs
  <1>2. PICK r0 \in ShellState : r0 = sh[s]
    BY <1>1
  <1>3. PICK pr \in Childs : pr = proc
    BY <1>1
  <1>4. PICK p : p = r0.last
    OBVIOUS
  <1> DEFINE r == [r0 EXCEPT !.pc = "loop", !.code = pr[p].code]
  <1>5. /\ r0.pc = "reap" /\ pr[p].st = "zombie" /\ proc' = [pr EXCEPT ![p].st = "reaped"]
        /\ sh' = [sh EXCEPT ![s] = r] /\ UNCHANGED text /\ fds' = fds /\ buf' = buf
    BY <1>2, <1>3, <1>4 DEF ReapLast, Reaches, Become
  <1>6. /\ Shape(r0) /\ KidsOK(s, r0, pr) /\ LineOK(r0, pr) /\ r0.pc \in Busy /\ r0.pc \notin Taken
        /\ r0.pc # "wait"
    BY <1>1, <1>2, <1>3, <1>5 DEF Busy, Taken
  <1>7. r0.kids # <<>> /\ p = r0.kids[1] /\ p \in Children /\ 1 \in 1..Len(r0.kids)
    BY <1>4, <1>5, <1>6, KidTypes DEF Shape
  <1>8. PICK pr2 : pr2 = proc'
    OBVIOUS
  <1>9. /\ pr2 \in Childs /\ pr2[p].st = "reaped" /\ pr2[p].code = pr[p].code
        /\ pr2[p].parent = pr[p].parent /\ pr2[p].ptr = pr[p].ptr
        /\ \A o \in Children : o # p => pr2[o] = pr[o]
        /\ \A t : Same(t, pr, pr2)
    <2>1. pr[p].st \in {"zombie", "reaped"} /\ pr2 = Reaped(pr, p) /\ p \in Children
      BY <1>5, <1>7, <1>8 DEF Reaped
    <2> QED BY <2>1, ReapSame
  <1>10. /\ r \in ShellState /\ r.pc = "loop" /\ r.kids = r0.kids /\ r.commands = r0.commands
         /\ r.logical = r0.logical /\ r.pipe = r0.pipe /\ r.code = pr[p].code /\ r.last = r0.last
         /\ r.ptr = r0.ptr /\ r.operator = r0.operator
    <2>1. "loop" \in Pcs /\ pr[p].code \in Codes
      BY <1>7 DEF Pcs, Childs, ChildState
    <2> QED BY <2>1 DEF ShellState
  <1> HIDE DEF r
  <1>11. KidsOK(s, r0, pr2) /\ LineOK(r0, pr2)
    BY <1>6, <1>9, KidsSame, LineSame
  <1>12. r.pc \in Busy /\ r.pc \notin Idle /\ r.pc \notin Taken /\ Done(r) = Done(r0) /\ r0.pipe = NONE
    BY <1>5, <1>6, <1>10 DEF Busy, Idle, Taken, Done, Shape
  <1>13. KidsOK(s, r, pr2)
    BY <1>10, <1>11, <1>12, KidsStay
  <1>14. /\ LimitOf(r) = LimitOf(r0)
         /\ \A i : Ran(r, pr2, i) <=> Ran(r0, pr2, i)
         /\ \A i : Decided(r, pr2, i) <=> Decided(r0, pr2, i)
         /\ \A i : Operates(r, i) <=> Operates(r0, i)
    BY <1>10, SameLine
  <1>15. Shape(r)
    BY <1>5, <1>6, <1>7, <1>10, <1>12, <1>14 DEF Shape
  <1>16. ASSUME WellFormed(r.commands, LimitOf(r))
         PROVE  ListOK(r, pr2)
    <2>1. ListOK(r0, pr2)
      BY <1>6, <1>10, <1>11, <1>14, <1>16 DEF LineOK, Whole
    <2> QED BY <1>5, <1>10, <1>12, <1>14, <2>1 DEF ListOK
  <1>17. LineOK(r, pr2)
    BY <1>7, <1>9, <1>10, <1>12, <1>16 DEF LineOK
  <1>18. PICK table : table = fds[s]
    OBVIOUS
  <1>19. TableOK(s, r, table)
    BY SMTT(60), <1>1, <1>2, <1>5, <1>10, <1>12, <1>18, BaseTable
  <1>20. ShellOK(s, r, proc', table)
    BY <1>8, <1>13, <1>15, <1>17, <1>19 DEF ShellOK
  <1>21. /\ fds' = [fds EXCEPT ![s] = table] /\ table \in [Fds -> Ends]
         /\ proc' \in [Children -> ChildState] /\ buf' \in [Children -> 0..PIPE_SIZE]
    BY <1>1, <1>5, <1>8, <1>9, <1>18, ShellFacts DEF Childs
  <1>22. \A t \in Shells : Same(t, proc, proc')
    BY <1>3, <1>8, <1>9
  <1>23. \A o \in Children : \/ proc'[o] = proc[o]
                             \/ /\ proc[o].st \in {"zombie", "reaped"} /\ proc'[o].st = "reaped"
                                /\ proc'[o].parent = proc[o].parent
    BY <1>3, <1>5, <1>8, <1>9
  <1>24. TextOK'
    <2>1. sh \in [Shells -> ShellState] /\ MAIN \in Shells
      BY DEF IInv, Typed, Shells
    <2>2. sh'[MAIN].pc \in {"tokenize", "parse"} => sh'[MAIN].pc = sh[MAIN].pc
      BY <1>5, <1>10, <2>1
    <2> QED BY <1>5, <2>2, TextSame
  <1> QED BY ZenonT(60), <1>2, <1>5, <1>10, <1>20, <1>21, <1>22, <1>23, <1>24, OneShell

\* What is known of any shell.
LEMMA AnyFacts ==
  ASSUME IInv, NEW s \in Shells
  PROVE  /\ sh[s] \in ShellState /\ Shape(sh[s]) /\ KidsOK(s, sh[s], proc) /\ LineOK(sh[s], proc)
         /\ TableOK(s, sh[s], fds[s]) /\ fds[s] \in [Fds -> Ends] /\ proc \in Childs
         /\ buf \in [Children -> 0..PIPE_SIZE]
  BY ShellFacts DEF ShellOK, Childs

\* When every child has been waited for, the next line is read.
LEMMA LineDoneOK ==
  ASSUME IInv, NEW s \in Shells, LineDone(s)
  PROVE  IInv'
  <1>1. PICK r0 \in ShellState : r0 = sh[s]
    BY AnyFacts
  <1>2. PICK pr \in Childs : pr = proc
    BY AnyFacts
  <1>3. PICK table \in [Fds -> Ends] : table = fds[s]
    BY AnyFacts
  <1> DEFINE r == NextLine(r0)
  <1>4. /\ r0.pc = "wait" /\ r0.kids = <<>> /\ sh' = [sh EXCEPT ![s] = r] /\ UNCHANGED text
        /\ proc' = proc /\ fds' = fds /\ buf' = buf
    BY <1>1 DEF LineDone, Reaches, Become
  <1>5. Shape(r0) /\ KidsOK(s, r0, pr) /\ TableOK(s, r0, table)
    BY <1>1, <1>2, <1>3, AnyFacts
  <1>6. r0.pipe = NONE
    BY <1>4, <1>5 DEF Shape
  <1>7. r \in ShellState /\ ShellOK(s, r, pr, table)
    BY <1>4, <1>5, <1>6, NextLineOK
  <1>8. r.pc \notin {"tokenize", "parse"}
    BY DEF NextLine, NoShell
  <1> HIDE DEF r
  <1>9. fds' = [fds EXCEPT ![s] = table] /\ buf' \in [Children -> 0..PIPE_SIZE] /\ sh[s].kids = <<>>
        /\ ShellOK(s, r, proc, table)
    BY <1>1, <1>2, <1>3, <1>4, <1>7, ShellFacts
  <1> QED BY <1>4, <1>7, <1>8, <1>9, QuietOK

\* The newest child is no longer in the list, the others still are.
LEMMA TailKids ==
  ASSUME NEW s, NEW r0 \in ShellState, NEW r \in ShellState, NEW pr \in Childs, KidsOK(s, r0, pr),
         r0.kids # <<>>, r0.pc = "wait", r.pc = "wait", pr[r0.kids[1]].st = "reaped",
         r.kids = Tail(r0.kids), r.commands = r0.commands
  PROVE  /\ KidsOK(s, r, pr)
         /\ \A k \in 1..Len(r.kids) : k + 1 \in 2..Len(r0.kids) /\ r.kids[k] = r0.kids[k + 1]
  <1>1. r0.kids \in Seq(Children) /\ Len(r0.kids) \in Nat
    BY KidTypes DEF ShellState
  <1>2. Len(r.kids) = Len(r0.kids) - 1 /\ Len(r0.kids) > 0
        /\ \A i \in 1..Len(r.kids) : r.kids[i] = r0.kids[i + 1]
    BY <1>1, EmptySeq, HeadTailProperties
  <1>3. \A k \in 1..Len(r.kids) : k + 1 \in 2..Len(r0.kids) /\ k + 1 \in 1..Len(r0.kids)
    BY <1>1, <1>2
  <1>4. \A l \in 2..Len(r0.kids) : l - 1 \in 1..Len(r.kids) /\ r.kids[l - 1] = r0.kids[l]
    BY <1>1, <1>2
  <1>5. Done(r) = Done(r0) /\ r.pc \notin Taken
    BY DEF Done, Taken
  <1>6. \A k \in 1..Len(r.kids) :
         /\ pr[r.kids[k]].st # "none" /\ pr[r.kids[k]].parent = s
         /\ pr[r.kids[k]].ptr > 0 /\ pr[r.kids[k]].ptr <= Done(r)
         /\ ~ Operates(r, pr[r.kids[k]].ptr)
    BY <1>2, <1>3, <1>5 DEF KidsOK, Operates
  <1>7. \A k, l \in 1..Len(r.kids) : k < l => pr[r.kids[l]].ptr < pr[r.kids[k]].ptr
    <2> TAKE k, l \in 1..Len(r.kids)
    <2> HAVE k < l
    <2>1. k + 1 \in 1..Len(r0.kids) /\ l + 1 \in 1..Len(r0.kids) /\ k + 1 < l + 1
      BY <1>3
    <2>2. pr[r0.kids[l + 1]].ptr < pr[r0.kids[k + 1]].ptr
      BY <2>1 DEF KidsOK
    <2> QED BY <1>2, <2>2
  <1>8. ASSUME NEW p \in Children, pr[p].parent = s, pr[p].st # "reaped"
        PROVE  \E k \in 1..Len(r.kids) : r.kids[k] = p
    <2>1. PICK k \in 1..Len(r0.kids) : r0.kids[k] = p
      BY <1>8 DEF KidsOK
    <2>2. k \in 2..Len(r0.kids)
      BY <1>1, <1>8, <2>1
    <2> QED BY <1>4, <2>1, <2>2
  <1> QED BY <1>2, <1>3, <1>5, <1>6, <1>7, <1>8 DEF KidsOK

\* Waiting for the newest child takes it from the list.
LEMMA WaitChildOK ==
  ASSUME IInv, NEW s \in Shells, WaitChild(s)
  PROVE  IInv'
  <1>1. PICK r0 \in ShellState : r0 = sh[s]
    BY AnyFacts
  <1>2. PICK pr \in Childs : pr = proc
    BY AnyFacts
  <1>3. PICK table \in [Fds -> Ends] : table = fds[s]
    BY AnyFacts
  <1>4. PICK p : p = Head(r0.kids)
    OBVIOUS
  <1> DEFINE status == IF pr[p].st = "zombie" THEN pr[p].code ELSE r0.status
             code == IF p = r0.last THEN status ELSE r0.code
             r == [r0 EXCEPT !.kids = Tail(r0.kids), !.status = status, !.code = code]
  <1>5. /\ r0.pc = "wait" /\ r0.kids # <<>> /\ pr[p].st \in {"zombie", "reaped"}
        /\ proc' = [pr EXCEPT ![p].st = "reaped"]
        /\ sh' = [sh EXCEPT ![s] = r] /\ UNCHANGED text /\ fds' = fds /\ buf' = buf
    BY <1>1, <1>2, <1>4 DEF WaitChild, Reaches, Become
  <1>6. Shape(r0) /\ KidsOK(s, r0, pr) /\ TableOK(s, r0, table)
    BY <1>1, <1>2, <1>3, AnyFacts
  <1>7. r0.kids \in Seq(Children) /\ p = r0.kids[1] /\ p \in Children /\ Tail(r0.kids) \in Seq(Children)
    <2>1. r0.kids \in Seq(Children)
      BY DEF ShellState
    <2> QED BY <1>4, <1>5, <2>1, HeadTailProperties, KidTypes
  <1>8. status \in Codes /\ code \in Codes
    BY <1>7 DEF Childs, ChildState, ShellState
  <1>9. /\ r \in ShellState /\ r.pc = "wait" /\ r.kids = Tail(r0.kids) /\ r.commands = r0.commands
        /\ r.logical = r0.logical /\ r.pipe = r0.pipe /\ r.last = r0.last
        /\ r.ptr = r0.ptr /\ r.operator = r0.operator
    <2> HIDE DEF status, code
    <2> QED BY <1>5, <1>7, <1>8 DEF ShellState
  <1> HIDE DEF r, status, code
  <1>10. PICK pr2 : pr2 = proc'
    OBVIOUS
  <1>11. /\ pr2 \in Childs /\ pr2[p].st = "reaped" /\ pr2[p].parent = pr[p].parent
         /\ \A o \in Children : o # p => pr2[o] = pr[o]
         /\ \A t : Same(t, pr, pr2)
    <2>1. pr2 = Reaped(pr, p)
      BY <1>5, <1>10 DEF Reaped
    <2> QED BY <1>5, <1>7, <2>1, ReapSame
  <1>12. KidsOK(s, r0, pr2)
    BY <1>6, <1>11, KidsSame
  <1>13. /\ KidsOK(s, r, pr2)
         /\ \A k \in 1..Len(r.kids) : k + 1 \in 2..Len(r0.kids) /\ r.kids[k] = r0.kids[k + 1]
    BY SMTT(60), <1>5, <1>7, <1>9, <1>11, <1>12, TailKids
  <1>14. \A k \in 1..Len(r.kids) : r.kids[k] # r.last
    BY <1>5, <1>6, <1>9, <1>13 DEF Shape
  <1>15. r0.pipe = NONE
    BY <1>5, <1>6 DEF Shape
  <1>16. Shape(r)
    <2>1. r.pc \in Busy /\ r.pc \notin Idle /\ r.pc \notin Taken /\ r0.pc \in Busy
      BY <1>5, <1>9 DEF Busy, Idle, Taken
    <2>2. \A k \in 2..Len(r.kids) : k \in 1..Len(r.kids)
      BY KidTypes, <1>9
    <2> QED BY <1>6, <1>9, <1>14, <1>15, <2>1, <2>2 DEF Shape
  <1>17. LineOK(r, pr2)
    <2>1. ~ Whole(r)
      BY <1>9, <1>14, KidTypes DEF Whole
    <2> QED BY <1>9, <2>1 DEF LineOK
  <1>18. TableOK(s, r, table)
    BY ZenonT(60), <1>5, <1>6, <1>9, <1>15, BaseTable
  <1>19. ShellOK(s, r, proc', table)
    BY <1>10, <1>13, <1>16, <1>17, <1>18 DEF ShellOK
  <1>20. /\ fds' = [fds EXCEPT ![s] = table] /\ table \in [Fds -> Ends]
         /\ proc' \in [Children -> ChildState] /\ buf' \in [Children -> 0..PIPE_SIZE]
    BY <1>3, <1>5, <1>10, <1>11, ShellFacts DEF Childs
  <1>21. \A t \in Shells : Same(t, proc, proc')
    BY <1>2, <1>10, <1>11
  <1>22. \A o \in Children : \/ proc'[o] = proc[o]
                             \/ /\ proc[o].st \in {"zombie", "reaped"} /\ proc'[o].st = "reaped"
                                /\ proc'[o].parent = proc[o].parent
    BY <1>2, <1>5, <1>10, <1>11
  <1>23. TextOK'
    <2>1. sh \in [Shells -> ShellState] /\ MAIN \in Shells
      BY DEF IInv, Typed, Shells
    <2>2. sh'[MAIN].pc \in {"tokenize", "parse"} => sh'[MAIN].pc = sh[MAIN].pc
      BY <1>5, <1>9, <2>1
    <2> QED BY <1>5, <2>2, TextSame
  <1> QED BY ZenonT(60), <1>1, <1>5, <1>9, <1>19, <1>20, <1>21, <1>22, <1>23, OneShell

\* The output of the last command is read to its end.
LEMMA OutputOK ==
  ASSUME IInv, NEW s \in Shells, Output(s)
  PROVE  IInv'
  <1>1. PICK r0 \in ShellState : r0 = sh[s]
    BY AnyFacts
  <1>2. PICK pr \in Childs : pr = proc
    BY AnyFacts
  <1>3. PICK table0 \in [Fds -> Ends] : table0 = fds[s]
    BY AnyFacts
  <1>4. CASE DrainByte(s, sh[s].fd0)
    BY <1>4, DrainOK DEF DrainByte
  <1>5. CASE ~ DrainByte(s, sh[s].fd0)
    <2> DEFINE r == [r0 EXCEPT !.pc = "end"]
    <2>1. /\ r0.pc = "output" /\ sh' = [sh EXCEPT ![s] = r] /\ UNCHANGED text /\ proc' = proc
          /\ fds' = [fds EXCEPT ![s] = Close(@, r0.fd0)] /\ buf' = buf
      BY <1>1, <1>5 DEF Output, Reaches, Become
    <2>2. Shape(r0) /\ KidsOK(s, r0, pr) /\ LineOK(r0, pr) /\ TableOK(s, r0, table0)
      BY <1>1, <1>2, <1>3, AnyFacts
    <2>3. /\ r \in ShellState /\ r.pc = "end" /\ r.kids = r0.kids /\ r.commands = r0.commands
          /\ r.logical = r0.logical /\ r.pipe = r0.pipe /\ r.code = r0.code /\ r.last = r0.last
          /\ r.ptr = r0.ptr /\ r.operator = r0.operator /\ r.fd0 = r0.fd0
      BY DEF ShellState, Pcs
    <2> HIDE DEF r
    <2>4. /\ r.pc \in Busy /\ r.pc \notin Idle /\ r.pc \in Taken /\ r0.pc \in Taken /\ r0.pc \in Busy
          /\ Done(r) = Done(r0)
      BY <2>1, <2>3 DEF Busy, Idle, Taken, Done
    <2>5. KidsOK(s, r, pr)
      BY <2>2, <2>3, <2>4, KidsStay
    <2>6. /\ LimitOf(r) = LimitOf(r0)
          /\ \A i : Ran(r, pr, i) <=> Ran(r0, pr, i)
          /\ \A i : Decided(r, pr, i) <=> Decided(r0, pr, i)
          /\ \A i : Operates(r, i) <=> Operates(r0, i)
      BY <2>3, SameLine
    <2>7. Shape(r)
      BY <2>1, <2>2, <2>3, <2>4, <2>6 DEF Shape
    <2>8. LineOK(r, pr)
      <3>1. WellFormed(r.commands, LimitOf(r)) => ListOK(r0, pr)
        BY <2>1, <2>2, <2>3, <2>4, <2>6 DEF LineOK, Whole
      <3>2. ListOK(r0, pr) => ListOK(r, pr)
        BY <2>3, <2>4, <2>6 DEF ListOK
      <3> QED BY <2>3, <3>1, <3>2 DEF LineOK
    <2>9. PICK n \in Fds : n = r0.fd0
      BY <2>1, <2>2 DEF TableOK
    <2>10. PICK table : table = Close(table0, n)
      OBVIOUS
    <2>11. /\ table \in [Fds -> Ends] /\ table[n] = Closed
           /\ \A k \in Fds : k # n => table[k] = table0[k]
      BY <2>10, TableOps
    <2>12. n # r0.pipe /\ Base(s)[n] = Closed
      <3>1. n \in Held(r0)
        BY <2>1, <2>9 DEF Held
      <3> QED BY <2>1, <2>2, <2>9, <3>1 DEF TableOK
    <2>13. TableOK(s, r, table)
      <3>1. \A k \in Fds : (k \in Held(r0) <=> k \in Held(r) \/ k = n) /\ (k \in Held(r) <=> k = r.pipe)
        BY <2>1, <2>3, <2>9 DEF Held
      <3>2. \A k \in Fds \ Held(r) : table[k] = Base(s)[k]
        <4> TAKE k \in Fds \ Held(r)
        <4>1. k # n => k \in Fds \ Held(r0)
          BY <3>1
        <4> QED BY <2>1, <2>2, <2>11, <2>12, <4>1 DEF TableOK
      <3>3. \A k \in Held(r) : Base(s)[k] = Closed
        <4>1. \A k \in Held(r) : k \in Held(r0)
          BY <3>1 DEF Held
        <4> QED BY <2>1, <2>2, <4>1 DEF TableOK
      <3>4. r.pipe # NONE => \E q \in Children : table[r.pipe] = R(q)
        <4> HAVE r.pipe # NONE
        <4>1. r.pipe \in Fds /\ r.pipe # n
          BY <2>3, <2>12 DEF ShellState, MaybeFd
        <4>2. \E q \in Children : table0[r.pipe] = R(q)
          BY <2>1, <2>2, <2>3 DEF TableOK
        <4> QED BY <2>11, <4>1, <4>2
      <3> QED BY <2>3, <3>2, <3>3, <3>4 DEF TableOK
    <2>14. ShellOK(s, r, proc, table)
      BY <1>2, <2>5, <2>7, <2>8, <2>13 DEF ShellOK
    <2>15. fds' = [fds EXCEPT ![s] = table] /\ buf' \in [Children -> 0..PIPE_SIZE]
      BY <1>3, <2>1, <2>9, <2>10, AnyFacts
    <2> QED BY <1>1, <2>1, <2>3, <2>11, <2>14, <2>15, QuietOK
  <1> QED BY <1>4, <1>5

\* The loop is over: everything that is to be decided has been decided.
LEMMA LoopOverLine ==
  ASSUME NEW s, NEW r0 \in ShellState, NEW r \in ShellState, NEW pr \in Childs,
         Shape(r0), KidsOK(s, r0, pr), LineOK(r0, pr),
         r0.pc = "end" \/ (r0.pc = "loop" /\ r0.ptr = r0.logical), r.pc = "wait", r.pipe = NONE,
         r.kids = r0.kids, r.commands = r0.commands, r.logical = r0.logical, r.last = r0.last,
         r.ptr = r0.ptr, r.operator = r0.operator
  PROVE  Shape(r) /\ KidsOK(s, r, pr) /\ LineOK(r, pr)
  <1>1. /\ r.pc \in Busy /\ r.pc \notin Idle /\ r.pc \notin Taken /\ r0.pc \in Busy
        /\ r0.pc # "wait" /\ (r0.pc \in Taken <=> r0.pc = "end")
    BY DEF Busy, Idle, Taken
  <1>2. /\ r0.ptr \in Nat /\ r0.logical \in Nat /\ Len(r0.commands) \in Nat
        /\ r0.ptr <= r0.logical /\ r0.logical <= Len(r0.commands)
        /\ r0.pc = "end" => r0.ptr < r0.logical
    <2>1. r0.pc = "end" => r0.ptr < r0.logical
      BY <1>1 DEF Shape
    <2> QED BY <1>1, <2>1, BusyFacts
  <1>3. Done(r) = Len(r0.commands) /\ Done(r0) <= Len(r0.commands) /\ Done(r0) \in Nat
        /\ (r0.pc = "loop" => Done(r0) = r0.ptr) /\ (r0.pc = "end" => Done(r0) = r0.ptr + 1)
    BY <1>1, <1>2 DEF Done
  <1>4. KidsOK(s, r, pr)
    <2>1. \A i \in 1..Len(r0.kids) : pr[r0.kids[i]].ptr \in Nat
      BY RanFacts
    <2>2. \A i \in 1..Len(r0.kids) : pr[r0.kids[i]].ptr <= Done(r0) => pr[r0.kids[i]].ptr <= Done(r)
      BY <1>2, <1>3, <2>1
    <2> QED BY <1>1, <2>2, KidsStay
  <1>5. /\ LimitOf(r) = LimitOf(r0)
        /\ \A i : Ran(r, pr, i) <=> Ran(r0, pr, i)
        /\ \A i : Decided(r, pr, i) <=> Decided(r0, pr, i)
        /\ \A i : Operates(r, i) <=> Operates(r0, i)
    BY SameLine
  <1>6. \A k \in 2..Len(r.kids) : r.kids[k] # r.last
    <2> TAKE k \in 2..Len(r.kids)
    <2>1. k \in 1..Len(r0.kids) /\ 1 \in 1..Len(r0.kids) /\ 1 < k /\ r0.kids # <<>>
      BY KidTypes
    <2>2. pr[r0.kids[k]].ptr < pr[r0.kids[1]].ptr
      BY <2>1 DEF KidsOK
    <2>3. pr[r0.kids[k]].ptr \in Nat
      BY <2>1, RanFacts
    <2>4. r0.last = r0.kids[1]
      BY <1>1, <2>1 DEF Shape
    <2> QED BY <2>2, <2>3, <2>4
  <1>7. Shape(r)
    BY <1>1, <1>2, <1>6 DEF Shape
  <1>8. ASSUME WellFormed(r.commands, LimitOf(r))
        PROVE  ListOK(r, pr)
    <2>1. ListOK(r0, pr)
      BY <1>1, <1>5, <1>8 DEF LineOK, Whole
    <2>2. LimitOf(r0) \in Nat /\ LimitOf(r0) >= 1 /\ LimitOf(r0) <= r0.logical
      BY <1>2, <1>5, <1>8, LineFacts
    <2>3. LimitOf(r0) <= Done(r0)
      <3>1. CASE r0.pc = "end"
        BY <1>3, <3>1 DEF Shape
      <3>2. CASE r0.pc = "loop"
        BY <1>3, <2>2, <3>2
      <3> QED BY <3>1, <3>2
    <2>4. Ran(r0, pr, 1)
      BY <1>3, <2>1, <2>2, <2>3 DEF ListOK
    <2>5. \A i \in 2..Len(r.commands) :
            i % 2 = 0 /\ i < Done(r) /\ i < LimitOf(r) => Decided(r, pr, i)
      <3> TAKE i \in 2..Len(r.commands)
      <3> HAVE i % 2 = 0 /\ i < Done(r) /\ i < LimitOf(r)
      <3>1. i < Done(r0) /\ i < LimitOf(r0)
        BY <1>2, <1>3, <1>5, <2>2, <2>3
      <3> QED BY <1>5, <2>1, <3>1 DEF ListOK
    <2> QED BY <1>5, <2>4, <2>5 DEF ListOK
  <1>9. LineOK(r, pr)
    BY <1>8 DEF LineOK
  <1> QED BY <1>4, <1>7, <1>9

\* The loop of main ends.
LEMMA EndLoopOK ==
  ASSUME IInv, NEW s \in Shells, EndLoop(s)
  PROVE  IInv'
  <1>1. PICK r0 \in ShellState : r0 = sh[s]
    BY AnyFacts
  <1>2. PICK pr \in Childs : pr = proc
    BY AnyFacts
  <1>3. PICK table0 \in [Fds -> Ends] : table0 = fds[s]
    BY AnyFacts
  <1> DEFINE r == [r0 EXCEPT !.pc = "wait", !.pipe = NONE]
  <1>4. PICK table : table = IF r0.pipe # NONE THEN Close(table0, r0.pipe) ELSE table0
    OBVIOUS
  <1>5. /\ r0.pc = "end" \/ (r0.pc = "loop" /\ r0.ptr = r0.logical)
        /\ sh' = [sh EXCEPT ![s] = r] /\ UNCHANGED text /\ proc' = proc
        /\ fds' = [fds EXCEPT ![s] = table] /\ buf' = buf
    BY <1>1, <1>3, <1>4 DEF EndLoop, Reaches, Become, CloseOldPipe
  <1>6. Shape(r0) /\ KidsOK(s, r0, pr) /\ LineOK(r0, pr) /\ TableOK(s, r0, table0)
        /\ buf' \in [Children -> 0..PIPE_SIZE]
    BY <1>1, <1>2, <1>3, <1>5, AnyFacts
  <1>7. /\ r \in ShellState /\ r.pc = "wait" /\ r.kids = r0.kids /\ r.commands = r0.commands
        /\ r.logical = r0.logical /\ r.pipe = NONE /\ r.last = r0.last
        /\ r.ptr = r0.ptr /\ r.operator = r0.operator
    <2>1. NONE \in MaybeFd /\ "wait" \in Pcs
      BY DEF MaybeFd, Pcs
    <2> QED BY <2>1 DEF ShellState
  <1> HIDE DEF r
  <1>8. Shape(r) /\ KidsOK(s, r, pr) /\ LineOK(r, pr)
    BY <1>5, <1>6, <1>7, LoopOverLine
  <1>9. table \in [Fds -> Ends] /\ \A n \in Fds : table[n] = Base(s)[n]
    <2>1. r0.pc \in {"loop", "end"}
      BY <1>5
    <2> QED BY <1>4, <1>6, <2>1, ClosePipe
  <1>10. TableOK(s, r, table)
    BY <1>7, <1>9, BaseTable
  <1>11. ShellOK(s, r, proc, table)
    BY <1>2, <1>8, <1>10 DEF ShellOK
  <1> QED BY <1>1, <1>5, <1>6, <1>7, <1>9, <1>11, QuietOK

\* The child for a command has been forked and the loop goes on, or it was the last.
LEMMA AfterForkLine ==
  ASSUME NEW s, NEW r0 \in ShellState, NEW r \in ShellState, NEW pr \in Childs,
         Shape(r0), KidsOK(s, r0, pr), LineOK(r0, pr), r0.pc = "forked",
         r.kids = r0.kids, r.commands = r0.commands, r.logical = r0.logical, r.last = r0.last,
         r.operator = r0.operator,
         \/ r.pc = "output" /\ r.ptr = r0.ptr /\ r.pipe = r0.pipe /\ LimitOf(r0) <= r0.ptr + 1
         \/ r.pc = "loop" /\ r.ptr = r0.ptr + 1 /\ r.pipe # NONE
  PROVE  Shape(r) /\ KidsOK(s, r, pr) /\ LineOK(r, pr)
  <1>1. /\ r.pc \in Busy /\ r.pc \notin Idle /\ r0.pc \in Taken /\ r0.pc \in Busy
        /\ (r.pc \in Taken <=> r.pc = "output")
    BY DEF Busy, Idle, Taken
  <1>2. /\ r0.ptr \in Nat /\ r0.logical \in Nat /\ Len(r0.commands) \in Nat
        /\ r0.ptr < r0.logical /\ r0.logical <= Len(r0.commands)
        /\ ~ Operates(r0, r0.ptr + 1) /\ r0.operator = <<>>
    <2>1. r0.ptr < r0.logical /\ ~ Operates(r0, r0.ptr + 1) /\ r0.operator = <<>>
      BY <1>1 DEF Shape
    <2> QED BY <1>1, <2>1, BusyFacts
  <1>3. Done(r) = r0.ptr + 1 /\ Done(r0) = r0.ptr + 1
    BY <1>1, <1>2 DEF Done
  <1>4. KidsOK(s, r, pr)
    BY <1>1, <1>3, KidsStay
  <1>5. /\ LimitOf(r) = LimitOf(r0)
        /\ \A i : Ran(r, pr, i) <=> Ran(r0, pr, i)
        /\ \A i : Decided(r, pr, i) <=> Decided(r0, pr, i)
        /\ \A i : Operates(r, i) <=> Operates(r0, i)
    BY SameLine
  <1>6. r0.kids # <<>> /\ pr[r0.kids[1]].ptr = r0.ptr + 1 /\ r0.last = r0.kids[1]
    BY <1>1 DEF Shape, KidsOK
  <1>7. Shape(r)
    <2>1. CASE r.pc = "output"
      BY <1>1, <1>2, <1>5, <1>6, <2>1 DEF Shape
    <2>2. CASE r.pc = "loop"
      BY <1>1, <1>2, <1>5, <1>6, <2>2 DEF Shape
    <2> QED BY <2>1, <2>2
  <1>8. ASSUME WellFormed(r.commands, LimitOf(r))
        PROVE  ListOK(r, pr)
    <2>1. ListOK(r0, pr)
      BY <1>1, <1>5, <1>8 DEF LineOK, Whole
    <2> QED BY <1>3, <1>5, <2>1 DEF ListOK
  <1>9. r.pc = "loop" => /\ \A i \in (pr[r.kids[1]].ptr + 1)..r.ptr : Operates(r, i)
                         /\ pr[r.kids[1]].ptr = r.ptr => r.operator = <<>>
    BY <1>2, <1>6
  <1>10. LineOK(r, pr)
    BY <1>8, <1>9 DEF LineOK
  <1> QED BY <1>4, <1>7, <1>10

\* The limit of the invariant is that of the property.
LEMMA LimitIs ==
  ASSUME NEW s \in Shells
  PROVE  LimitOf(sh[s]) = Limit(s)
  BY DEF LimitOf, Limit, CountBeforeRedirection

\* Where the shell reads the output itself, nothing of the line is left.
LEMMA LimitReached ==
  ASSUME NEW s \in Shells, sh[s] \in ShellState,
         sh[s].ptr \in {sh[s].logical - 1, CountBeforeRedirection(s) - 1}
  PROVE  LimitOf(sh[s]) <= sh[s].ptr + 1
  <1>1. Len(sh[s].commands) \in Nat /\ sh[s].ptr \in Nat /\ sh[s].logical \in Int
    <2>1. PICK r \in ShellState : r = sh[s]
      OBVIOUS
    <2> QED BY <2>1, CommandTypes
  <1>2. CountBeforeRedirection(s) \in Int
    BY <1>1 DEF CountBeforeRedirection
  <1>3. LimitOf(sh[s]) = IF CountBeforeRedirection(s) < sh[s].logical
                         THEN CountBeforeRedirection(s) ELSE sh[s].logical
    BY LimitIs DEF Limit
  <1> QED BY <1>1, <1>2, <1>3

\* After a fork the shell holds both ends of the new pipe and the end of the old one.
LEMMA ForkedTable ==
  ASSUME NEW s, NEW r \in ShellState, NEW table, TableOK(s, r, table), r.pc = "forked"
  PROVE  /\ r.fd0 \in Fds /\ r.fd1 \in Fds /\ r.fd0 # r.pipe /\ r.fd1 # r.fd0 /\ r.fd1 # r.pipe
         /\ table[r.fd0] = R(r.kids[1])
         /\ \A n \in Fds : n # r.pipe /\ n # r.fd0 /\ n # r.fd1 => table[n] = Base(s)[n]
         /\ Base(s)[r.fd0] = Closed /\ Base(s)[r.fd1] = Closed
         /\ r.pipe # NONE => /\ r.pipe \in Fds /\ Base(s)[r.pipe] = Closed
                             /\ \E q \in Children : table[r.pipe] = R(q)
  <1>1. \A n \in Fds : n \in Held(r) <=> n \in {r.pipe, r.fd0, r.fd1}
    BY DEF Held
  <1>2. r.pipe # NONE => r.pipe \in Fds
    BY DEF ShellState, MaybeFd
  <1> QED BY <1>1, <1>2 DEF TableOK

\* After a fork the shell reads the output of the child or goes on with its pipe.
LEMMA AfterForkOK ==
  ASSUME IInv, NEW s \in Shells, AfterFork(s)
  PROVE  IInv'
  <1>1. PICK r0 \in ShellState : r0 = sh[s]
    BY AnyFacts
  <1>2. PICK pr \in Childs : pr = proc
    BY AnyFacts
  <1>3. PICK table0 \in [Fds -> Ends] : table0 = fds[s]
    BY AnyFacts
  <1>4. /\ r0.pc = "forked" /\ UNCHANGED text /\ proc' = proc /\ buf' = buf
    BY <1>1 DEF AfterFork, Reaches
  <1>5. Shape(r0) /\ KidsOK(s, r0, pr) /\ LineOK(r0, pr) /\ TableOK(s, r0, table0)
        /\ buf' \in [Children -> 0..PIPE_SIZE]
    BY <1>1, <1>2, <1>3, <1>4, AnyFacts
  <1>6. /\ r0.fd0 \in Fds /\ r0.fd1 \in Fds /\ r0.fd0 # r0.pipe /\ r0.fd1 # r0.fd0 /\ r0.fd1 # r0.pipe
        /\ table0[r0.fd0] = R(r0.kids[1])
        /\ \A n \in Fds : n # r0.pipe /\ n # r0.fd0 /\ n # r0.fd1 => table0[n] = Base(s)[n]
        /\ Base(s)[r0.fd0] = Closed /\ Base(s)[r0.fd1] = Closed
        /\ r0.pipe # NONE => /\ r0.pipe \in Fds /\ Base(s)[r0.pipe] = Closed
                             /\ \E q \in Children : table0[r0.pipe] = R(q)
    BY <1>4, <1>5, ForkedTable
  <1>7. r0.kids # <<>> /\ r0.kids[1] \in Children
    BY <1>4, <1>5, KidTypes DEF KidsOK, Taken
  <1>8. PICK n \in Fds : n = r0.fd1
    BY <1>6
  <1>9. PICK table1 : table1 = Close(table0, n)
    OBVIOUS
  <1>10. table1 \in [Fds -> Ends] /\ table1[n] = Closed /\ \A k \in Fds : k # n => table1[k] = table0[k]
    BY <1>9, TableOps
  <1>11. table1 = CloseWriteEnd(s)
    BY <1>1, <1>3, <1>8, <1>9 DEF CloseWriteEnd
  <1>12. NONE \notin Fds
    BY DEF Fds, NONE
  <1>13. CASE r0.ptr \in {r0.logical - 1, CountBeforeRedirection(s) - 1}
    <2> DEFINE r == [r0 EXCEPT !.pc = "output"]
    <2>1. sh' = [sh EXCEPT ![s] = r] /\ fds' = [fds EXCEPT ![s] = table1]
      BY <1>1, <1>11, <1>13 DEF AfterFork, Become
    <2>2. /\ r \in ShellState /\ r.pc = "output" /\ r.kids = r0.kids /\ r.commands = r0.commands
          /\ r.logical = r0.logical /\ r.pipe = r0.pipe /\ r.last = r0.last
          /\ r.ptr = r0.ptr /\ r.operator = r0.operator /\ r.fd0 = r0.fd0 /\ r.fd1 = r0.fd1
      BY DEF ShellState, Pcs
    <2> HIDE DEF r
    <2>3. LimitOf(r0) <= r0.ptr + 1
      BY <1>1, <1>13, LimitReached
    <2>4. Shape(r) /\ KidsOK(s, r, pr) /\ LineOK(r, pr)
      BY <1>4, <1>5, <2>2, <2>3, AfterForkLine
    <2>5. TableOK(s, r, table1)
      <3>1. \A k \in Fds : k \in Held(r) <=> k = r.pipe \/ k = r.fd0
        BY <2>2 DEF Held
      <3>2. \A k \in Fds \ Held(r) : table1[k] = Base(s)[k]
        BY <1>6, <1>8, <1>10, <2>2, <3>1
      <3>3. \A k \in Held(r) : Base(s)[k] = Closed
        <4>1. \A k \in Held(r) : k \in Fds
          BY DEF Held
        <4> QED BY <1>6, <1>12, <2>2, <3>1, <4>1
      <3>4. r.pipe # NONE => \E q \in Children : table1[r.pipe] = R(q)
        BY <1>6, <1>8, <1>10, <2>2
      <3>5. table1[r.fd0] = R(r.kids[1])
        BY <1>6, <1>8, <1>10, <2>2
      <3> QED BY <1>6, <2>2, <3>2, <3>3, <3>4, <3>5 DEF TableOK
    <2>6. ShellOK(s, r, proc, table1)
      BY <1>2, <2>4, <2>5 DEF ShellOK
    <2> QED BY <1>1, <1>4, <1>5, <1>10, <2>1, <2>2, <2>6, QuietOK
  <1>14. CASE r0.ptr \notin {r0.logical - 1, CountBeforeRedirection(s) - 1}
    <2> DEFINE r == [r0 EXCEPT !.pc = "loop", !.pipe = r0.fd0, !.ptr = r0.ptr + 1]
    <2>0. PICK table : table = IF r0.pipe # NONE THEN Close(table1, r0.pipe) ELSE table1
      OBVIOUS
    <2>1. sh' = [sh EXCEPT ![s] = r] /\ fds' = [fds EXCEPT ![s] = table]
      BY <1>1, <1>11, <1>14, <2>0 DEF AfterFork, Become, CloseOldPipe
    <2>2. /\ r \in ShellState /\ r.pc = "loop" /\ r.kids = r0.kids /\ r.commands = r0.commands
          /\ r.logical = r0.logical /\ r.pipe = r0.fd0 /\ r.last = r0.last
          /\ r.ptr = r0.ptr + 1 /\ r.operator = r0.operator
      <3>1. "loop" \in Pcs /\ r0.fd0 \in MaybeFd /\ r0.ptr + 1 \in Nat
        BY <1>6, CommandTypes DEF Pcs, MaybeFd
      <3> QED BY <3>1 DEF ShellState
    <2> HIDE DEF r
    <2>3. r.pipe # NONE
      BY <1>6, <1>12, <2>2
    <2>4. Shape(r) /\ KidsOK(s, r, pr) /\ LineOK(r, pr)
      BY <1>4, <1>5, <2>2, <2>3, AfterForkLine
    <2>5. table \in [Fds -> Ends] /\ \A k \in Fds : table[k] = IF k = r0.pipe THEN Closed ELSE table1[k]
      <3>1. CASE r0.pipe = NONE
        BY <1>10, <1>12, <2>0, <3>1
      <3>2. CASE r0.pipe # NONE
        <4>1. PICK m \in Fds : m = r0.pipe
          BY <1>6, <3>2
        <4>2. table = Close(table1, m)
          BY <2>0, <3>2, <4>1
        <4> QED BY <1>10, <4>1, <4>2, TableOps
      <3> QED BY <3>1, <3>2
    <2>6. TableOK(s, r, table)
      <3>1. \A k \in Fds : k \in Held(r) <=> k = r.pipe
        BY <2>2 DEF Held
      <3>2. \A k \in Fds \ Held(r) : table[k] = Base(s)[k]
        <4> TAKE k \in Fds \ Held(r)
        <4>1. k \in Fds /\ k # r0.fd0
          BY <2>2, <3>1
        <4>2. CASE k = r0.pipe
          BY <1>6, <1>12, <2>5, <4>1, <4>2
        <4>3. CASE k # r0.pipe /\ k = n
          BY <1>6, <1>8, <1>10, <2>5, <4>1, <4>3
        <4>4. CASE k # r0.pipe /\ k # n
          BY <1>6, <1>8, <1>10, <2>5, <4>1, <4>4
        <4> QED BY <4>2, <4>3, <4>4
      <3>3. \A k \in Held(r) : Base(s)[k] = Closed
        <4>1. \A k \in Held(r) : k \in Fds
          BY DEF Held
        <4> QED BY <1>6, <2>2, <3>1, <4>1
      <3>4. table[r.pipe] = R(r.kids[1])
        BY <1>6, <1>8, <1>10, <2>2, <2>5
      <3> QED BY <1>7, <2>2, <3>2, <3>3, <3>4 DEF TableOK
    <2>7. ShellOK(s, r, proc, table)
      BY <1>2, <2>4, <2>6 DEF ShellOK
    <2> QED BY <1>1, <1>4, <1>5, <2>1, <2>2, <2>5, <2>7, QuietOK
  <1> QED BY <1>13, <1>14

-----------------------------------------------------------------------------
(* Forking.                                                                *)

\* A set of natural numbers that is not empty has a least element.
LEMMA LeastElement ==
  ASSUME NEW S, S \subseteq Nat, S # {}
  PROVE  \E i \in S : \A j \in S : i <= j
  <1> DEFINE Below == OpToRel(<, Nat)
  <1>1. IsWellFoundedOn(Below, Nat)
    BY NatLessThanWellFounded
  <1>2. \A i, j \in Nat : j < i => <<j, i>> \in Below
    BY Zenon DEF OpToRel
  <1> HIDE DEF Below
  <1>3. PICK i \in S : \A j \in S : ~ (<<j, i>> \in Below)
    BY <1>1, WFMin
  <1>4. \A j \in S : ~ (j < i)
    BY Zenon, <1>2, <1>3
  <1>5. \A j \in S : i <= j
    BY <1>4
  <1> QED BY <1>5

\* pipe() returns the lowest number that is free.
LEMMA LowestFree ==
  ASSUME NEW table, NEW a \in Fds, table[a] = Closed
  PROVE  /\ Lowest(table) \in Fds /\ table[Lowest(table)] = Closed
         /\ \A m \in Fds : table[m] = Closed => Lowest(table) <= m
  <1> DEFINE S == Fds \ Opened(table)
  <1>1. \A n : n \in S <=> n \in Fds /\ table[n] = Closed
    BY DEF Opened
  <1>2. S \subseteq Nat /\ S # {}
    BY <1>1, BoundAssumption DEF Fds
  <1> HIDE DEF S
  <1>3. \E n \in S : \A m \in S : n <= m
    BY <1>2, LeastElement
  <1>4. Lowest(table) = CHOOSE n \in S : \A m \in S : n <= m
    BY DEF Lowest, S
  <1>5. Lowest(table) \in S /\ \A m \in S : Lowest(table) <= m
    BY <1>3, <1>4
  <1> QED BY <1>1, <1>5

\* The descriptors that pipe() takes, one after the other.
FreePair(table, n0, n1) ==
  n0 = Lowest(table) /\ n1 = Lowest([table EXCEPT ![n0] = Terminal])

\* The two ends of a new pipe: neither of them is a standard descriptor of a
\* child, and the write end is not that of standard input either.
LEMMA PipeEnds ==
  ASSUME NEW s \in Shells, NEW r \in ShellState, NEW table \in [Fds -> Ends], TableOK(s, r, table),
         r.pc = "loop", NEW n0, NEW n1, FreePair(table, n0, n1)
  PROVE  /\ n0 \in Fds /\ n1 \in Fds /\ n0 # n1 /\ n1 # 0 /\ n0 # 1 /\ n1 # 1
         /\ n0 # r.pipe /\ n1 # r.pipe /\ Base(s)[n0] = Closed /\ Base(s)[n1] = Closed
         /\ s = MAIN => n0 # 0 /\ r.pipe # 0
         /\ \A n \in Fds : n # r.pipe => table[n] = Base(s)[n]
         /\ r.pipe # NONE => r.pipe \in Fds /\ table[r.pipe] = R(r.kids[1]) /\ Base(s)[r.pipe] = Closed
                             /\ r.kids[1] \in Children
  <1>1. \A n \in Fds : n \in Held(r) <=> n = r.pipe
    BY DEF Held
  <1>2. /\ \A n \in Fds : n # r.pipe => table[n] = Base(s)[n]
        /\ r.pipe # NONE => /\ r.pipe \in Fds /\ table[r.pipe] = R(r.kids[1])
                            /\ Base(s)[r.pipe] = Closed /\ r.kids[1] \in Children
    BY <1>1 DEF TableOK, ShellState, MaybeFd
  <1>3. /\ 0 \in Fds /\ 1 \in Fds /\ 3 \in Fds /\ 4 \in Fds /\ 5 \in Fds /\ Fds \subseteq Nat
        /\ Base(s)[3] = Closed /\ Base(s)[4] = Closed /\ Base(s)[5] = Closed
        /\ Base(s)[1] = Terminal /\ (s = MAIN => Base(s)[0] = Terminal)
    <2>1. 0 \in Fds /\ 1 \in Fds /\ 3 \in Fds /\ 4 \in Fds /\ 5 \in Fds /\ Fds \subseteq Nat
      BY BoundAssumption DEF Fds
    <2>2. MAIN # SUB
      BY BoundAssumption DEF MAIN, SUB
    <2> QED BY <2>1, <2>2 DEF Base
  <1>4. PICK a, b \in Fds : a # b /\ a # r.pipe /\ b # r.pipe /\ table[a] = Closed /\ table[b] = Closed
    <2>1. CASE r.pipe = 3
      BY <1>2, <1>3, <2>1
    <2>2. CASE r.pipe = 4
      BY <1>2, <1>3, <2>2
    <2>3. CASE r.pipe # 3 /\ r.pipe # 4
      BY <1>2, <1>3, <2>3
    <2> QED BY <2>1, <2>2, <2>3
  <1>0. PICK table1 : table1 = [table EXCEPT ![n0] = Terminal]
    OBVIOUS
  <1>5. n0 \in Fds /\ table[n0] = Closed /\ \A m \in Fds : table[m] = Closed => n0 <= m
    BY <1>4, LowestFree DEF FreePair
  <1>6. table1[n0] = Terminal /\ \A m \in Fds : m # n0 => table1[m] = table[m]
    BY <1>0, <1>5
  <1>7. PICK c \in Fds : table1[c] = Closed
    BY <1>4, <1>6
  <1>8. n1 \in Fds /\ table1[n1] = Closed
    BY <1>0, <1>7, LowestFree DEF FreePair
  <1>9. n1 # n0 /\ table[n1] = Closed
    BY <1>6, <1>8, EndKinds
  <1>10. n1 # 0
    BY <1>3, <1>5, <1>8, <1>9
  <1>11. n0 # r.pipe /\ n1 # r.pipe
    <2>1. r.pipe \in Fds => table[r.pipe] # Closed
      <3>1. NONE \notin Fds
        BY DEF Fds, NONE
      <3> QED BY <1>2, <3>1, EndKinds
    <2> QED BY <1>5, <1>8, <1>9, <2>1
  <1>12. Base(s)[n0] = Closed /\ Base(s)[n1] = Closed
    BY <1>2, <1>5, <1>8, <1>9, <1>11
  <1>13. n0 # 1 /\ n1 # 1 /\ (s = MAIN => n0 # 0)
    BY <1>3, <1>12, EndKinds
  <1>14. s = MAIN => r.pipe # 0
    <2>1. NONE # 0
      BY DEF NONE
    <2> QED BY <1>2, <1>3, <2>1, EndKinds
  <1> QED BY <1>2, <1>5, <1>8, <1>9, <1>10, <1>11, <1>12, <1>13, <1>14

\* One child more at the head of the list.
OneMore(p, kids, kids2) ==
  /\ kids2 \in Seq(Children) /\ Len(kids2) = Len(kids) + 1 /\ Len(kids) \in Nat
  /\ kids2 # <<>> /\ kids2[1] = p
  /\ \A k \in 1..Len(kids) : k + 1 \in 2..Len(kids2) /\ kids2[k + 1] = kids[k]
  /\ \A k \in 1..Len(kids2) : k = 1 \/ (k - 1 \in 1..Len(kids) /\ kids2[k] = kids[k - 1])

LEMMA OneKidMore ==
  ASSUME NEW kids \in Seq(Children), NEW p \in Children, NEW kids2, kids2 = <<p>> \o kids
  PROVE  OneMore(p, kids, kids2)
  <1>1. <<p>> \in Seq(Children) /\ Len(<<p>>) = 1 /\ <<p>>[1] = p
    BY ShortSeq
  <1>2. Len(kids) \in Nat
    BY LenProperties
  <1>3. PICK one \in Seq(Children) : one = <<p>>
    BY <1>1
  <1>4. /\ kids2 \in Seq(Children) /\ Len(kids2) = 1 + Len(kids)
        /\ \A i \in 1..(1 + Len(kids)) : kids2[i] = IF i <= 1 THEN one[i] ELSE kids[i - 1]
    BY <1>1, <1>3, ConcatProperties
  <1>5. kids2[1] = p
    BY <1>1, <1>2, <1>3, <1>4
  <1>6. kids2 # <<>>
    BY <1>2, <1>4, EmptySeq
  <1>7. \A k \in 1..Len(kids) : k + 1 \in 2..Len(kids2) /\ kids2[k + 1] = kids[k]
    BY <1>2, <1>4
  <1>8. \A k \in 1..Len(kids2) : k = 1 \/ (k - 1 \in 1..Len(kids) /\ kids2[k] = kids[k - 1])
    BY <1>2, <1>4
  <1> QED BY SMTT(60), <1>2, <1>4, <1>5, <1>6, <1>7, <1>8 DEF OneMore

\* The child p is forked for command i.
NewChild(s, pr, p, i, pr2) ==
  /\ pr[p].st = "none" /\ pr2[p].st = "forked" /\ pr2[p].parent = s /\ pr2[p].ptr = i
  /\ \A o \in Children : o # p => pr2[o] = pr[o]

\* The child of the command behind ptr.
LEMMA ForkKids ==
  ASSUME NEW s, NEW r0 \in ShellState, NEW r \in ShellState, NEW pr \in Childs, NEW p \in Children,
         NEW pr2, NewChild(s, pr, p, r0.ptr + 1, pr2),
         KidsOK(s, r0, pr), r0.pc = "loop", r.pc = "forked", OneMore(p, r0.kids, r.kids),
         r.commands = r0.commands, r.ptr = r0.ptr, ~ Operates(r0, r0.ptr + 1)
  PROVE  /\ KidsOK(s, r, pr2)
         /\ \A k \in 1..Len(r0.kids) : pr2[r0.kids[k]] = pr[r0.kids[k]]
         /\ \A i : Ran(r, pr2, i) <=> i = r0.ptr + 1 \/ Ran(r0, pr, i)
  <1>1. r0.kids \in Seq(Children) /\ r0.ptr \in Nat /\ Len(r0.kids) \in Nat
    BY KidTypes DEF ShellState
  <1>2. /\ Len(r.kids) = Len(r0.kids) + 1 /\ r.kids # <<>> /\ r.kids[1] = p
        /\ \A k \in 1..Len(r0.kids) : k + 1 \in 2..Len(r.kids) /\ r.kids[k + 1] = r0.kids[k]
        /\ \A k \in 1..Len(r.kids) :
             k = 1 \/ (k - 1 \in 1..Len(r0.kids) /\ r.kids[k] = r0.kids[k - 1])
    BY DEF OneMore
  <1>3. Done(r) = r0.ptr + 1 /\ Done(r0) = r0.ptr /\ r.pc \in Taken
    BY DEF Done, Taken
  <1>4. \A k \in 1..Len(r0.kids) : r0.kids[k] \in Children /\ r0.kids[k] # p
    BY KidTypes DEF KidsOK, NewChild
  <1>5. \A k \in 1..Len(r0.kids) : pr2[r0.kids[k]] = pr[r0.kids[k]]
    BY <1>4 DEF NewChild
  <1>6. \A k \in 1..Len(r0.kids) :
          /\ pr2[r0.kids[k]].st # "none" /\ pr2[r0.kids[k]].parent = s
          /\ pr2[r0.kids[k]].ptr > 0 /\ pr2[r0.kids[k]].ptr <= r0.ptr /\ pr2[r0.kids[k]].ptr \in Nat
          /\ ~ Operates(r0, pr2[r0.kids[k]].ptr)
    <2>1. \A k \in 1..Len(r0.kids) : pr[r0.kids[k]].ptr \in Nat
      BY RanFacts
    <2> QED BY <1>3, <1>5, <2>1 DEF KidsOK
  <1>7. /\ pr2[p].st # "none" /\ pr2[p].parent = s /\ pr2[p].ptr > 0 /\ pr2[p].ptr = r0.ptr + 1
        /\ pr2[p].ptr <= Done(r) /\ ~ Operates(r0, pr2[p].ptr)
    BY <1>1, <1>3 DEF NewChild
  <1>8. \A k \in 1..Len(r.kids) :
         /\ pr2[r.kids[k]].st # "none" /\ pr2[r.kids[k]].parent = s
         /\ pr2[r.kids[k]].ptr > 0 /\ pr2[r.kids[k]].ptr <= Done(r)
         /\ ~ Operates(r, pr2[r.kids[k]].ptr)
    <2> TAKE k \in 1..Len(r.kids)
    <2>1. CASE k = 1
      BY <1>2, <1>7, <2>1 DEF Operates
    <2>2. CASE k # 1
      <3>1. PICK l \in 1..Len(r0.kids) : r.kids[k] = r0.kids[l]
        BY <1>2, <2>2
      <3>2. pr2[r0.kids[l]].ptr <= Done(r)
        BY <1>1, <1>3, <1>6
      <3> QED BY <1>6, <3>1, <3>2 DEF Operates
    <2> QED BY <2>1, <2>2
  <1>9. \A k, l \in 1..Len(r.kids) : k < l => pr2[r.kids[l]].ptr < pr2[r.kids[k]].ptr
    <2> TAKE k, l \in 1..Len(r.kids)
    <2> HAVE k < l
    <2>1. l - 1 \in 1..Len(r0.kids) /\ r.kids[l] = r0.kids[l - 1]
      BY <1>1, <1>2
    <2>2. CASE k = 1
      <3>1. PICK o : o = r0.kids[l - 1]
        OBVIOUS
      <3>2. pr2[o].ptr \in Nat /\ pr2[o].ptr <= r0.ptr /\ r.kids[l] = o
        BY <1>6, <2>1, <3>1
      <3>3. r.kids[k] = p /\ pr2[p].ptr = r0.ptr + 1
        BY <1>2, <1>7, <2>2
      <3>4. pr2[o].ptr < pr2[p].ptr
        BY <1>1, <3>2, <3>3
      <3> QED BY <3>2, <3>3, <3>4
    <2>3. CASE k # 1
      <3>1. k - 1 \in 1..Len(r0.kids) /\ r.kids[k] = r0.kids[k - 1] /\ k - 1 < l - 1
        BY <1>1, <1>2, <2>3
      <3>2. pr[r0.kids[l - 1]].ptr < pr[r0.kids[k - 1]].ptr
        BY <2>1, <3>1 DEF KidsOK
      <3> QED BY <1>5, <2>1, <3>1, <3>2
    <2> QED BY <2>2, <2>3
  <1>10. ASSUME NEW q \in Children, pr2[q].parent = s, pr2[q].st # "reaped"
         PROVE  \E k \in 1..Len(r.kids) : r.kids[k] = q
    <2>1. CASE q = p
      BY <1>1, <1>2, <2>1
    <2>2. CASE q # p
      <3>1. PICK k \in 1..Len(r0.kids) : r0.kids[k] = q
        BY <1>10, <2>2 DEF KidsOK, NewChild
      <3>2. k + 1 \in 1..Len(r.kids) /\ r.kids[k + 1] = q
        BY <1>1, <1>2, <3>1
      <3> QED BY <3>2
    <2> QED BY <2>1, <2>2
  <1>11. KidsOK(s, r, pr2)
    BY <1>2, <1>7, <1>8, <1>9, <1>10 DEF KidsOK
  <1>12. \A i : Ran(r, pr2, i) <=> i = r0.ptr + 1 \/ Ran(r0, pr, i)
    <2>1. \A i : Ran(r, pr2, i) => i = r0.ptr + 1 \/ Ran(r0, pr, i)
      BY ZenonT(60), <1>2, <1>5, <1>7 DEF Ran
    <2>2. Ran(r, pr2, r0.ptr + 1)
      <3>1. 1 \in 1..Len(r.kids)
        BY <1>1, <1>2
      <3> QED BY <1>2, <1>7, <3>1 DEF Ran
    <2>3. \A i : Ran(r0, pr, i) => Ran(r, pr2, i)
      <3> TAKE i
      <3> HAVE Ran(r0, pr, i)
      <3>1. PICK k \in 1..Len(r0.kids) : pr[r0.kids[k]].ptr = i
        BY DEF Ran
      <3>2. k + 1 \in 1..Len(r.kids) /\ r.kids[k + 1] = r0.kids[k]
        BY <1>1, <1>2
      <3> QED BY <1>5, <3>1, <3>2 DEF Ran
    <2> QED BY <2>1, <2>2, <2>3
  <1> QED BY <1>5, <1>11, <1>12

\* A command is only run when the operator before it asks for it.
LEMMA ForkLine ==
  ASSUME NEW s, NEW r0 \in ShellState, NEW r \in ShellState, NEW pr \in Childs, NEW p \in Children,
         NEW pr2, NewChild(s, pr, p, r0.ptr + 1, pr2),
         Shape(r0), KidsOK(s, r0, pr), LineOK(r0, pr),
         r0.pc = "loop", r.pc = "forked", OneMore(p, r0.kids, r.kids),
         r.commands = r0.commands, r.logical = r0.logical, r.ptr = r0.ptr, r.pipe = r0.pipe,
         r.operator = <<>>, r.last = p, r0.ptr < r0.logical, ~ Operates(r0, r0.ptr + 1),
         IF r0.operator \notin {<<>>, <<"|">>}
         THEN r0.pipe = NONE /\ ~ (IF r0.operator = <<"|", "|">> THEN r0.code = 0 ELSE r0.code # 0)
         ELSE r0.operator = <<"|">> /\ r0.ptr # 0 => r0.pipe # NONE
  PROVE  Shape(r) /\ KidsOK(s, r, pr2) /\ LineOK(r, pr2)
  <1>1. /\ r.pc \in Busy /\ r.pc \notin Idle /\ r.pc \in Taken /\ r0.pc \in Busy /\ r0.pc \notin Taken
    BY DEF Busy, Idle, Taken
  <1>2. /\ r0.ptr \in Nat /\ r0.logical \in Nat /\ Len(r0.commands) \in Nat
        /\ r0.logical <= Len(r0.commands)
    BY <1>1, BusyFacts
  <1>3. /\ KidsOK(s, r, pr2)
        /\ \A k \in 1..Len(r0.kids) : pr2[r0.kids[k]] = pr[r0.kids[k]]
        /\ \A i : Ran(r, pr2, i) <=> i = r0.ptr + 1 \/ Ran(r0, pr, i)
    BY ForkKids
  <1>4. /\ Len(r.kids) = Len(r0.kids) + 1 /\ Len(r0.kids) \in Nat /\ r.kids # <<>> /\ r.kids[1] = p
        /\ \A k \in 1..Len(r0.kids) : k + 1 \in 2..Len(r.kids) /\ r.kids[k + 1] = r0.kids[k]
        /\ \A k \in 1..Len(r.kids) :
             k = 1 \/ (k - 1 \in 1..Len(r0.kids) /\ r.kids[k] = r0.kids[k - 1])
    BY DEF OneMore
  <1>5. LimitOf(r) = LimitOf(r0) /\ \A i : Operates(r, i) <=> Operates(r0, i)
    BY DEF LimitOf, Operates
  <1>6. Shape(r)
    BY <1>1, <1>2, <1>4, <1>5 DEF Shape
  <1>7. Done(r) = r0.ptr + 1 /\ Done(r0) = r0.ptr
    BY <1>1 DEF Done
  <1>8. \A i, k : i \in Nat /\ i <= r0.ptr /\ k \in 1..Len(r0.kids) /\ Latest(r0, pr, r0.kids[k], i)
          => k + 1 \in 1..Len(r.kids) /\ r.kids[k + 1] = r0.kids[k] /\ Latest(r, pr2, r.kids[k + 1], i)
    <2> TAKE i, k
    <2> HAVE i \in Nat /\ i <= r0.ptr /\ k \in 1..Len(r0.kids) /\ Latest(r0, pr, r0.kids[k], i)
    <2>1. k + 1 \in 1..Len(r.kids) /\ r.kids[k + 1] = r0.kids[k]
      BY <1>4
    <2>2. \A l \in 1..Len(r.kids) : pr2[r.kids[l]].ptr <= i => pr2[r.kids[l]].ptr <= pr2[r0.kids[k]].ptr
      <3> TAKE l \in 1..Len(r.kids)
      <3>1. CASE l = 1
        <4>1. pr2[r.kids[l]].ptr = r0.ptr + 1
          BY <1>4, <3>1 DEF NewChild
        <4> QED BY <1>2, <4>1
      <3>2. CASE l # 1
        <4>1. l - 1 \in 1..Len(r0.kids) /\ r.kids[l] = r0.kids[l - 1]
          BY <1>4, <3>2
        <4> QED BY <1>3, <4>1 DEF Latest
      <3> QED BY <3>1, <3>2
    <2>3. pr2[r0.kids[k]].ptr <= i
      BY <1>3 DEF Latest
    <2> QED BY <2>1, <2>2, <2>3 DEF Latest
  <1>9. ASSUME WellFormed(r.commands, LimitOf(r))
        PROVE  ListOK(r, pr2)
    <2>1. ListOK(r0, pr)
      BY <1>1, <1>5, <1>9 DEF LineOK, Whole
    <2>2. /\ LimitOf(r0) \in Nat /\ LimitOf(r0) >= 1 /\ LimitOf(r0) <= r0.logical
          /\ \A i \in Nat : i > 0 /\ i <= LimitOf(r0) /\ Operates(r0, i) =>
               i % 2 = 0 /\ Name(r0.commands[i]) \in {<<"|">>, <<"|", "|">>, <<"&", "&">>}
          /\ \A i \in Nat : i > 0 /\ i <= LimitOf(r0) /\ i % 2 = 0 => Operates(r0, i)
      BY <1>2, <1>5, <1>9, LineFacts
    <2>3. Ran(r, pr2, 1)
      <3>1. r0.ptr = 0 => 1 = r0.ptr + 1
        BY <1>2
      <3>2. r0.ptr > 0 => Ran(r0, pr, 1)
        BY <1>7, <2>1 DEF ListOK
      <3> QED BY <1>2, <1>3, <3>1, <3>2
    <2>4. ASSUME NEW i \in 2..Len(r.commands), i % 2 = 0, i < Done(r), i < LimitOf(r)
          PROVE  Decided(r, pr2, i)
      <3>1. i \in Nat /\ i > 0 /\ i <= r0.ptr /\ i + 1 \in Nat /\ i <= LimitOf(r0)
        BY <1>2, <1>5, <1>7, <2>2, <2>4
      <3>2. Ran(r, pr2, i - 1) <=> Ran(r0, pr, i - 1)
        BY <1>2, <1>3, <3>1
      <3>3. CASE i < r0.ptr
        <4>1. Decided(r0, pr, i)
          BY <1>5, <1>7, <2>1, <2>4, <3>3 DEF ListOK
        <4>2. Ran(r, pr2, i + 1) <=> Ran(r0, pr, i + 1)
          BY <1>2, <1>3, <3>1, <3>3
        <4>3. CASE Name(r0.commands[i]) = <<"|">>
          BY <3>2, <4>1, <4>2, <4>3 DEF Decided
        <4>4. CASE Name(r0.commands[i]) # <<"|">>
          <5>1. PICK k \in 1..Len(r0.kids) :
                  /\ Latest(r0, pr, r0.kids[k], i - 1) /\ pr[r0.kids[k]].st = "reaped"
                  /\ Ran(r0, pr, i + 1) <=> IF Name(r0.commands[i]) = <<"|", "|">>
                                            THEN pr[r0.kids[k]].code # 0
                                            ELSE pr[r0.kids[k]].code = 0
            BY <4>1, <4>4 DEF Decided
          <5>2. i - 1 \in Nat /\ i - 1 <= r0.ptr
            BY <1>2, <3>1
          <5>3. /\ k + 1 \in 1..Len(r.kids) /\ r.kids[k + 1] = r0.kids[k]
                /\ Latest(r, pr2, r.kids[k + 1], i - 1)
            BY <1>8, <5>1, <5>2
          <5>4. pr2[r.kids[k + 1]] = pr[r0.kids[k]]
            BY <1>3, <5>3
          <5> QED BY <4>2, <4>4, <5>1, <5>3, <5>4 DEF Decided
        <4> QED BY <4>3, <4>4
      <3>4. CASE i = r0.ptr
        <4>1. Operates(r0, i) /\ Name(r0.commands[i]) \in {<<"|">>, <<"|", "|">>, <<"&", "&">>}
          BY <2>2, <2>4, <3>1
        <4>2. r0.operator = Name(r0.commands[i])
          BY <3>1, <3>4, <4>1 DEF Shape
        <4>3. Ran(r, pr2, i + 1)
          BY <1>3, <3>4
        <4>4. /\ r0.kids # <<>> /\ pr[r0.kids[1]].ptr \in Nat /\ pr[r0.kids[1]].ptr <= r0.ptr
              /\ pr[r0.kids[1]].ptr > 0
              /\ ~ Operates(r0, pr[r0.kids[1]].ptr) /\ Ran(r0, pr, pr[r0.kids[1]].ptr)
              /\ \A k \in 1..Len(r0.kids) : pr[r0.kids[k]].ptr <= pr[r0.kids[1]].ptr
          <5>1. Ran(r0, pr, 1)
            BY <1>7, <2>1, <3>1, <3>4 DEF ListOK
          <5> QED BY <1>7, <5>1, RanFacts
        <4>5. pr[r0.kids[1]].ptr <= i - 1
          BY <1>2, <3>4, <4>1, <4>4
        <4>6. CASE Name(r0.commands[i]) = <<"|">>
          <5>1. r0.pipe # NONE
            BY <3>1, <3>4, <4>2, <4>6
          <5>2. PICK m \in Nat : m = pr[r0.kids[1]].ptr
            BY <4>4
          <5>3. \A l \in (m + 1)..r0.ptr : Operates(r0, l)
            BY <5>1, <5>2 DEF LineOK
          <5>4. m = i - 1
            <6>1. m < i - 1 => Operates(r0, i - 1)
              <7> HAVE m < i - 1
              <7>1. i - 1 \in (m + 1)..r0.ptr
                BY SMTT(60), <1>2, <3>1, <3>4, <5>2
              <7> QED BY <5>3, <7>1
            <6>2. m < i - 1 => i - 1 > 0 /\ i - 1 \in Nat /\ i - 1 <= LimitOf(r0) /\ (i - 1) % 2 = 1
              BY <2>2, <2>4, <3>1, <4>4, <5>2, Parity
            <6>3. ~ (m < i - 1)
              <7> SUFFICES ASSUME m < i - 1 PROVE FALSE
                OBVIOUS
              <7>1. (i - 1) % 2 = 0
                BY <2>2, <6>1, <6>2
              <7> QED BY <6>2, <7>1
            <6> QED BY <3>1, <4>5, <5>2, <6>3
          <5>5. Ran(r0, pr, i - 1)
            BY <4>4, <5>2, <5>4
          <5> QED BY <3>2, <4>3, <4>6, <5>5 DEF Decided
        <4>7. CASE Name(r0.commands[i]) # <<"|">>
          <5>1. r0.operator \notin {<<>>, <<"|">>}
            BY <4>1, <4>2, <4>7, OperatorNames
          <5>2. r0.pipe = NONE /\ ~ (IF r0.operator = <<"|", "|">> THEN r0.code = 0 ELSE r0.code # 0)
            BY <5>1
          <5>3. pr[r0.kids[1]].st = "reaped" /\ r0.code = pr[r0.kids[1]].code
            BY <4>4, <5>2 DEF LineOK
          <5>4. 1 \in 1..Len(r0.kids) /\ Latest(r0, pr, r0.kids[1], i - 1)
            BY <4>4, <4>5, KidTypes DEF Latest
          <5>5. i - 1 \in Nat /\ i - 1 <= r0.ptr
            BY <1>2, <3>1
          <5>6. /\ 1 + 1 \in 1..Len(r.kids) /\ r.kids[1 + 1] = r0.kids[1]
                /\ Latest(r, pr2, r.kids[1 + 1], i - 1)
            BY <1>8, <5>4, <5>5
          <5>7. pr2[r.kids[1 + 1]] = pr[r0.kids[1]]
            BY <1>3, <5>4, <5>6
          <5>8. IF Name(r0.commands[i]) = <<"|", "|">> THEN pr[r0.kids[1]].code # 0
                                                      ELSE pr[r0.kids[1]].code = 0
            BY <4>2, <5>2, <5>3
          <5> QED BY <4>3, <4>7, <5>3, <5>6, <5>7, <5>8 DEF Decided
        <4> QED BY <4>6, <4>7
      <3> QED BY <1>2, <3>1, <3>3, <3>4
    <2>5. r.pc \notin {"loop", "reap"}
      OBVIOUS
    <2> QED BY <2>3, <2>4, <2>5 DEF ListOK
  <1>10. LineOK(r, pr2)
    BY <1>9 DEF LineOK
  <1> QED BY <1>3, <1>6, <1>10

\* The table of a shell that has made a pipe for child p.
PipeMade(s, r, table0, p, n0, n1, table) ==
  /\ n0 \in Fds /\ n1 \in Fds /\ n0 # n1 /\ n1 # 0 /\ n0 # 1 /\ n1 # 1
  /\ n0 # r.pipe /\ n1 # r.pipe /\ Base(s)[n0] = Closed /\ Base(s)[n1] = Closed
  /\ s = MAIN => n0 # 0 /\ r.pipe # 0
  /\ \A n \in Fds : n # r.pipe => table0[n] = Base(s)[n]
  /\ r.pipe # NONE => /\ r.pipe \in Fds /\ table0[r.pipe] = R(r.kids[1])
                      /\ Base(s)[r.pipe] = Closed /\ r.kids[1] \in Children
  /\ table \in [Fds -> Ends] /\ table[n0] = R(p) /\ table[n1] = W(p)
  /\ \A n \in Fds : n # n0 /\ n # n1 => table[n] = table0[n]

\* After a fork the shell holds three ends of pipes.
LEMMA ForkTable ==
  ASSUME NEW s \in Shells, NEW r0 \in ShellState, NEW r \in ShellState, NEW p \in Children,
         NEW table0, NEW table, NEW n0, NEW n1, PipeMade(s, r0, table0, p, n0, n1, table),
         r.pc = "forked", r.fd0 = n0, r.fd1 = n1, r.pipe = r0.pipe, r.kids[1] = p
  PROVE  TableOK(s, r, table)
  <1>1. \A n \in Fds : n \in Held(r) <=> n = r0.pipe \/ n = n0 \/ n = n1
    BY DEF Held
  <1>2. \A n \in Held(r) : n \in Fds
    BY DEF Held
  <1>3. NONE \notin Fds
    BY DEF Fds, NONE
  <1>4. \A n \in Fds \ Held(r) : table[n] = Base(s)[n]
    BY <1>1 DEF PipeMade
  <1>5. \A n \in Held(r) : Base(s)[n] = Closed
    BY <1>1, <1>2, <1>3 DEF PipeMade
  <1>6. r.pipe # NONE => \E q \in Children : table[r.pipe] = R(q)
    BY DEF PipeMade
  <1>7. /\ r.fd0 \in Fds /\ table[r.fd0] = R(r.kids[1]) /\ r.fd0 # r.pipe
        /\ r.fd1 \in Fds /\ table[r.fd1] = W(r.kids[1])
        /\ r.fd1 # r.fd0 /\ r.fd1 # r.pipe /\ r.fd1 # 0
    BY DEF PipeMade
  <1> QED BY <1>4, <1>5, <1>6, <1>7 DEF TableOK

\* The new child holds its own pipe and the one that its shell was reading.
LEMMA ForkChild ==
  ASSUME NEW s \in Shells, NEW r0 \in ShellState, NEW pr \in Childs, NEW p \in Children,
         NEW pr2, NewChild(s, pr, p, r0.ptr + 1, pr2),
         NEW table0, NEW table, NEW n0, NEW n1, PipeMade(s, r0, table0, p, n0, n1, table),
         pr2[p].pipe = r0.pipe, pr2[p].fd0 = n0, pr2[p].fd1 = n1,
         Shape(r0), KidsOK(s, r0, pr), LineOK(r0, pr), r0.pc = "loop",
         NEW commands, s = MAIN => commands = r0.commands
  PROVE  ChildOK(p, pr2, table, commands)
  <1>1. pr2[p].st = "forked" /\ pr2[p].parent = s /\ pr2[p].ptr = r0.ptr + 1 /\ r0.ptr \in Nat
    BY CommandTypes DEF NewChild
  <1>2. /\ pr2[p].fd0 \in Fds \ {1} /\ pr2[p].fd1 \in Fds \ {0, 1} /\ table[pr2[p].fd1] = W(p)
        /\ pr2[p].fd1 # pr2[p].fd0 /\ pr2[p].fd1 # pr2[p].pipe
        /\ s = MAIN => pr2[p].fd0 # 0 /\ pr2[p].pipe # 0
    BY DEF PipeMade
  <1>3. \A n \in Fds, q \in Children : table[n] = W(q) => q = p
    <2> TAKE n \in Fds, q \in Children
    <2>1. CASE n = n0 \/ n = n1
      BY <2>1, EndKinds DEF PipeMade
    <2>2. CASE n # n0 /\ n # n1 /\ n = r0.pipe
      <3>1. NONE \notin Fds
        BY DEF Fds, NONE
      <3>2. table[n] = R(r0.kids[1])
        BY <2>2, <3>1 DEF PipeMade
      <3> QED BY <3>2, EndKinds
    <2>3. CASE n # n0 /\ n # n1 /\ n # r0.pipe
      <3>1. table[n] \in {Closed, Terminal}
        BY <2>3 DEF PipeMade, Base
      <3> QED BY <3>1, EndKinds
    <2> QED BY <2>1, <2>2, <2>3
  <1>4. ASSUME s = MAIN, r0.pipe # NONE
        PROVE  \E q \in Children :
                 /\ table[pr2[p].pipe] = R(q) /\ pr2[q].parent = MAIN /\ pr2[q].ptr < pr2[p].ptr
                 /\ \A i \in (pr2[q].ptr + 1)..(pr2[p].ptr - 1) : is_operator(Name(commands[i]))
    <2>1. PICK q \in Children : q = r0.kids[1]
      BY <1>4 DEF PipeMade
    <2>2. table[pr2[p].pipe] = R(q)
      BY <1>4, <2>1 DEF PipeMade
    <2>3. r0.kids # <<>> /\ 1 \in 1..Len(r0.kids)
      BY <1>4, KidTypes DEF Shape
    <2>4. pr[q].st # "none" /\ pr[q].parent = MAIN /\ pr[q].ptr <= Done(r0)
      BY <1>4, <2>1, <2>3 DEF KidsOK
    <2>5. pr2[q] = pr[q] /\ pr[q].ptr \in Nat /\ Done(r0) = r0.ptr
      BY <2>4 DEF NewChild, Childs, ChildState, Done, Taken
    <2>6. \A i \in (pr[q].ptr + 1)..r0.ptr : Operates(r0, i)
      BY <1>4, <2>1 DEF LineOK
    <2>7. \A i \in (pr2[q].ptr + 1)..(pr2[p].ptr - 1) : is_operator(Name(commands[i]))
      <3>1. pr2[p].ptr - 1 = r0.ptr /\ pr2[q].ptr = pr[q].ptr
        BY <1>1, <2>5
      <3> QED BY <1>4, <2>6, <3>1 DEF Operates
    <2>8. pr2[q].ptr < pr2[p].ptr
      BY <1>1, <2>4, <2>5
    <2> QED BY <2>2, <2>4, <2>5, <2>7, <2>8
  <1> QED BY <1>1, <1>2, <1>3, <1>4 DEF ChildOK

\* The process that is made is the first that has not been used.
FreeChild == CHOOSE q \in Children : proc[q].st = "none"
                 /\ \A o \in Children : proc[o].st = "none" => q <= o

\* It exists when a child is left, and nobody is its parent.
LEMMA FreeChildIs ==
  ASSUME IInv, NEW q \in Children, proc[q].st = "none"
  PROVE  FreeChild \in Children /\ proc[FreeChild] = NoProc /\ proc[FreeChild].st = "none"
         /\ proc[FreeChild].parent = NONE
  <1> DEFINE S == {o \in Children : proc[o].st = "none"}
  <1>1. S \subseteq Nat /\ S # {}
    BY DEF Children
  <1>2. \A o : o \in S <=> o \in Children /\ proc[o].st = "none"
    OBVIOUS
  <1> HIDE DEF S
  <1>3. PICK i \in S : \A j \in S : i <= j
    BY <1>1, LeastElement
  <1>4. \E o \in Children : proc[o].st = "none" /\ \A x \in Children : proc[x].st = "none" => o <= x
    BY <1>2, <1>3
  <1>5. FreeChild \in Children /\ proc[FreeChild].st = "none"
    BY <1>4 DEF FreeChild
  <1>6. proc[FreeChild] = NoProc
    BY <1>5 DEF IInv, ChildOK
  <1> QED BY <1>5, <1>6 DEF NoProc

\* What the parts of a fork come to.
LEMMA ForkParts ==
  ASSUME IInv, NEW s \in Shells, ForkCommand(s)
  PROVE  \E p \in Children, n0 \in Fds, n1 \in Fds : \E table, c :
           /\ proc[p] = NoProc /\ PipeMade(s, sh[s], fds[s], p, n0, n1, table)
           /\ c = [NoProc EXCEPT !.st = "forked", !.parent = s, !.ptr = sh[s].ptr + 1,
                                 !.pipe = sh[s].pipe, !.fd0 = n0, !.fd1 = n1]
           /\ fds' = [fds EXCEPT ![s] = table, ![p] = table]
           /\ proc' = [proc EXCEPT ![p] = c]
           /\ sh' = [sh EXCEPT ![s] = [sh[s] EXCEPT !.pc = "forked", !.fd0 = n0, !.fd1 = n1,
                                  !.operator = <<>>, !.last = p, !.kids = <<p>> \o sh[s].kids]]
  <1> DEFINE m0 == Lowest(fds[s])
             table1 == [fds[s] EXCEPT ![m0] = Terminal]
             m1 == Lowest(table1)
             p == FreeChild
             table == [fds[s] EXCEPT ![m0] = R(p), ![m1] = W(p)]
             c == [NoProc EXCEPT !.st = "forked", !.parent = s, !.ptr = sh[s].ptr + 1,
                                 !.pipe = sh[s].pipe, !.fd0 = m0, !.fd1 = m1]
             r == [sh[s] EXCEPT !.pc = "forked", !.fd0 = m0, !.fd1 = m1,
                                  !.operator = <<>>, !.last = p, !.kids = <<p>> \o sh[s].kids]
  <1>1. /\ sh[s].pc = "loop" /\ \E q \in Children : proc[q].st = "none"
        /\ fds' = [fds EXCEPT ![s] = table, ![p] = table] /\ proc' = [proc EXCEPT ![p] = c]
        /\ sh' = [sh EXCEPT ![s] = r]
    BY DEF ForkCommand, AtCommand, Reaches, Become, FreeChild
  <1>2. p \in Children /\ proc[p] = NoProc
    BY <1>1, FreeChildIs
  <1> HIDE DEF p
  <1>3. /\ sh[s] \in ShellState /\ fds[s] \in [Fds -> Ends] /\ TableOK(s, sh[s], fds[s])
    BY AnyFacts
  <1>4. PICK r0 \in ShellState : r0 = sh[s]
    BY <1>3
  <1>5. PICK table0 \in [Fds -> Ends] : table0 = fds[s]
    BY <1>3
  <1>6. PICK n0 : n0 = Lowest(table0)
    OBVIOUS
  <1>8. PICK n1 : n1 = Lowest([table0 EXCEPT ![n0] = Terminal])
    OBVIOUS
  <1>9. n0 = m0 /\ n1 = m1
    BY <1>5, <1>6, <1>8
  <1>7. FreePair(table0, n0, n1)
    BY <1>6, <1>8 DEF FreePair
  <1>10. TableOK(s, r0, table0) /\ r0.pc = "loop"
    BY <1>1, <1>3, <1>4, <1>5
  <1>11. /\ n0 \in Fds /\ n1 \in Fds /\ n0 # n1 /\ n1 # 0 /\ n0 # 1 /\ n1 # 1
         /\ n0 # r0.pipe /\ n1 # r0.pipe /\ Base(s)[n0] = Closed /\ Base(s)[n1] = Closed
         /\ s = MAIN => n0 # 0 /\ r0.pipe # 0
         /\ \A n \in Fds : n # r0.pipe => table0[n] = Base(s)[n]
         /\ r0.pipe # NONE => /\ r0.pipe \in Fds /\ table0[r0.pipe] = R(r0.kids[1])
                              /\ Base(s)[r0.pipe] = Closed /\ r0.kids[1] \in Children
    BY <1>7, <1>10, PipeEnds
  <1>12. table = [table0 EXCEPT ![n0] = R(p), ![n1] = W(p)]
    BY <1>5, <1>9
  <1>13. /\ table \in [Fds -> Ends] /\ table[n0] = R(p) /\ table[n1] = W(p)
         /\ \A n \in Fds : n # n0 /\ n # n1 => table[n] = table0[n]
    <2>1. R(p) \in Ends /\ W(p) \in Ends
      BY <1>2, EndKinds
    <2> HIDE DEF table
    <2> QED BY <1>11, <1>12, <2>1
  <1> HIDE DEF table
  <1>14. PipeMade(s, sh[s], fds[s], p, n0, n1, table)
    <2>1. PipeMade(s, r0, table0, p, n0, n1, table)
      BY <1>11, <1>13 DEF PipeMade
    <2> QED BY <1>4, <1>5, <2>1
  <1> HIDE DEF m0, m1
  <1> QED BY <1>1, <1>2, <1>9, <1>11, <1>14

\* Forking a command keeps the invariant.
LEMMA ForkCommandOK ==
  ASSUME IInv, NEW s \in Shells, ForkCommand(s)
  PROVE  IInv'
  <1>0. PICK p \in Children, n0 \in Fds, n1 \in Fds : \E table, c :
           /\ proc[p] = NoProc /\ PipeMade(s, sh[s], fds[s], p, n0, n1, table)
           /\ c = [NoProc EXCEPT !.st = "forked", !.parent = s, !.ptr = sh[s].ptr + 1,
                                 !.pipe = sh[s].pipe, !.fd0 = n0, !.fd1 = n1]
           /\ fds' = [fds EXCEPT ![s] = table, ![p] = table]
           /\ proc' = [proc EXCEPT ![p] = c]
           /\ sh' = [sh EXCEPT ![s] = [sh[s] EXCEPT !.pc = "forked", !.fd0 = n0, !.fd1 = n1,
                                  !.operator = <<>>, !.last = p, !.kids = <<p>> \o sh[s].kids]]
    BY ForkParts
  <1>1. PICK table, c :
           /\ proc[p] = NoProc /\ PipeMade(s, sh[s], fds[s], p, n0, n1, table)
           /\ c = [NoProc EXCEPT !.st = "forked", !.parent = s, !.ptr = sh[s].ptr + 1,
                                 !.pipe = sh[s].pipe, !.fd0 = n0, !.fd1 = n1]
           /\ fds' = [fds EXCEPT ![s] = table, ![p] = table]
           /\ proc' = [proc EXCEPT ![p] = c]
           /\ sh' = [sh EXCEPT ![s] = [sh[s] EXCEPT !.pc = "forked", !.fd0 = n0, !.fd1 = n1,
                                  !.operator = <<>>, !.last = p, !.kids = <<p>> \o sh[s].kids]]
    BY <1>0
  <1>2. PICK r0 \in ShellState : r0 = sh[s]
    BY AnyFacts
  <1>3. PICK pr \in Childs : pr = proc
    BY AnyFacts
  <1>4. PICK pr2 : pr2 = proc'
    OBVIOUS
  <1>5. PICK table0 : table0 = fds[s]
    OBVIOUS
  <1>6. PICK kids : kids = <<p>> \o r0.kids
    OBVIOUS
  <1>7. OneMore(p, r0.kids, kids)
    <2>1. r0.kids \in Seq(Children)
      BY DEF ShellState
    <2>2. PICK kids0 \in Seq(Children) : kids0 = r0.kids
      BY <2>1
    <2>3. kids = <<p>> \o kids0
      BY <1>6, <2>2
    <2>4. OneMore(p, kids0, kids)
      BY <2>3, OneKidMore
    <2> QED BY <2>2, <2>4
  <1>8. PICK r : r = [r0 EXCEPT !.pc = "forked", !.fd0 = n0, !.fd1 = n1, !.operator = <<>>,
                                !.last = p, !.kids = kids]
    OBVIOUS
  <1>9. sh' = [sh EXCEPT ![s] = r]
    BY <1>1, <1>2, <1>6, <1>8
  <1>10. /\ r \in ShellState /\ r.pc = "forked" /\ r.fd0 = n0 /\ r.fd1 = n1 /\ r.operator = <<>>
         /\ r.last = p /\ r.kids = kids /\ r.commands = r0.commands /\ r.logical = r0.logical
         /\ r.ptr = r0.ptr /\ r.pipe = r0.pipe
    <2>1. "forked" \in Pcs /\ n0 \in MaybeFd /\ n1 \in MaybeFd /\ p \in Children \cup {NONE}
      BY DEF Pcs, MaybeFd
    <2>2. <<>> \in Token
      BY EmptySeq DEF Token
    <2>3. kids \in Seq(Children)
      BY <1>7 DEF OneMore
    <2> QED BY <1>8, <2>1, <2>2, <2>3 DEF ShellState
  <1>11. /\ c \in ChildState /\ c.st = "forked" /\ c.parent = s /\ c.ptr = r0.ptr + 1
         /\ c.pipe = r0.pipe /\ c.fd0 = n0 /\ c.fd1 = n1
    <2>1. /\ r0.ptr + 1 \in Nat /\ r0.pipe \in MaybeFd /\ n0 \in MaybeFd /\ n1 \in MaybeFd
          /\ NONE \in MaybeFd /\ 0 \in Codes /\ s \in Shells \cup {NONE}
      BY CommandTypes DEF MaybeFd, Codes, ShellState
    <2> QED BY <1>1, <1>2, <2>1 DEF ChildState, NoProc
  <1>12. /\ pr2 \in [Children -> ChildState] /\ pr2[p] = c
         /\ \A o \in Children : o # p => pr2[o] = pr[o]
    BY <1>1, <1>3, <1>4, <1>11 DEF Childs
  <1>13. pr[p].st = "none" /\ pr[p].parent = NONE /\ NONE \notin Shells
    BY <1>1, <1>3, BoundAssumption DEF NoProc, Shells, NONE, MAIN, SUB
  <1>14. NewChild(s, pr, p, r0.ptr + 1, pr2)
    BY <1>11, <1>12, <1>13 DEF NewChild
  <1>15. /\ Shape(r0) /\ KidsOK(s, r0, pr) /\ LineOK(r0, pr) /\ r0.pc = "loop" /\ r0.ptr < r0.logical
         /\ ~ Operates(r0, r0.ptr + 1)
         /\ UNCHANGED text /\ buf' = buf /\ buf' \in [Children -> 0..PIPE_SIZE]
    <2>1. /\ Reaches(s, "loop") /\ sh[s].ptr < sh[s].logical /\ ~ is_operator(Name(Current(s)))
          /\ UNCHANGED text /\ buf' = buf
      BY DEF ForkCommand, AtCommand
    <2> QED BY <1>2, <1>3, <2>1, AnyFacts, CurrentFacts DEF Reaches
  <1>16. IF r0.operator \notin {<<>>, <<"|">>}
         THEN r0.pipe = NONE /\ ~ (IF r0.operator = <<"|", "|">> THEN r0.code = 0 ELSE r0.code # 0)
         ELSE r0.operator = <<"|">> /\ r0.ptr # 0 => r0.pipe # NONE
    BY <1>2 DEF ForkCommand, AfterList, Skipped
  <1>17. OneMore(p, r0.kids, r.kids)
    BY <1>7, <1>10
  <1>18. Shape(r) /\ KidsOK(s, r, pr2) /\ LineOK(r, pr2)
    BY <1>10, <1>14, <1>15, <1>16, <1>17, ForkLine
  <1>19. PipeMade(s, r0, table0, p, n0, n1, table)
    BY <1>1, <1>2, <1>5
  <1>20. r.kids[1] = p
    BY <1>17 DEF OneMore
  <1>21. TableOK(s, r, table)
    BY <1>10, <1>19, <1>20, ForkTable
  <1>22. /\ sh \in [Shells -> ShellState] /\ fds \in [Shells \cup Children -> [Fds -> Ends]]
         /\ p # s /\ p \notin Shells /\ MAIN \in Shells
    BY BoundAssumption DEF IInv, Typed, Shells, Children, MAIN, SUB
  <1>23. table \in [Fds -> Ends]
    BY <1>19 DEF PipeMade
  <1>24. /\ fds' \in [Shells \cup Children -> [Fds -> Ends]] /\ fds'[s] = table /\ fds'[p] = table
         /\ \A q \in Shells \cup Children : q # s /\ q # p => fds'[q] = fds[q]
    BY <1>1, <1>22, <1>23
  <1>25. /\ sh' \in [Shells -> ShellState] /\ sh'[s] = r /\ \A t \in Shells : t # s => sh'[t] = sh[t]
    BY <1>9, <1>10, <1>22
  <1>26. Typed'
    BY <1>4, <1>12, <1>15, <1>24, <1>25 DEF Typed
  <1>27. TextOK'
    <2>1. sh'[MAIN].pc \in {"tokenize", "parse"} => sh'[MAIN].pc = sh[MAIN].pc
      BY <1>10, <1>22, <1>25
    <2> QED BY <1>15, <2>1, TextSame
  <1>28. ASSUME NEW t \in Shells
         PROVE  ShellOK(t, sh[t], proc, fds[t])'
    <2>1. CASE t = s
      <3>1. ShellOK(t, r, pr2, table)
        BY <1>18, <1>21, <2>1 DEF ShellOK
      <3> QED BY <1>4, <1>24, <1>25, <2>1, <3>1
    <2>2. CASE t # s
      <3>1. Same(t, pr, pr2)
        BY <1>11, <1>12, <1>13, <2>2 DEF Same
      <3>2. PICK x \in ShellState : x = sh[t]
        BY <1>22
      <3>3. PICK tab : tab = fds[t]
        OBVIOUS
      <3>4. ShellOK(t, x, pr, tab)
        BY <1>3, <3>2, <3>3 DEF IInv
      <3>5. ShellOK(t, x, pr2, tab)
        BY <3>1, <3>4, ShellSame
      <3> QED BY <1>4, <1>22, <1>24, <1>25, <2>2, <3>2, <3>3, <3>5
    <2> QED BY <2>1, <2>2
  <1>29. PICK commands : commands = sh[MAIN].commands
    OBVIOUS
  <1>30. sh'[MAIN].commands = commands /\ (s = MAIN => commands = r0.commands)
    BY <1>2, <1>10, <1>22, <1>25, <1>29
  <1>31. ASSUME NEW o \in Children
         PROVE  ChildOK(o, proc, fds[o], sh[MAIN].commands)'
    <2>1. CASE o = p
      <3>1. pr2[p].pipe = r0.pipe /\ pr2[p].fd0 = n0 /\ pr2[p].fd1 = n1
        BY <1>11, <1>12
      <3>2. ChildOK(p, pr2, table, commands)
        BY <1>14, <1>15, <1>19, <1>30, <3>1, ForkChild
      <3> QED BY <1>4, <1>24, <1>30, <2>1, <3>2
    <2>2. CASE o # p
      <3>1. PICK tab : tab = fds[o]
        OBVIOUS
      <3>2. ChildOK(o, pr, tab, commands)
        BY <1>3, <1>29, <3>1 DEF IInv
      <3>3. \A q \in Children : pr[q].parent = MAIN => pr2[q].parent = MAIN /\ pr2[q].ptr = pr[q].ptr
        BY <1>12, <1>13, <1>22
      <3>4. pr2[o] = pr[o]
        BY <1>12, <2>2
      <3>5. ChildOK(o, pr2, tab, commands)
        BY <3>2, <3>3, <3>4, ChildSame
      <3>6. o # s
        BY BoundAssumption DEF Shells, Children, MAIN, SUB
      <3> QED BY <1>4, <1>24, <1>30, <2>2, <3>1, <3>5, <3>6
    <2> QED BY <2>1, <2>2
  <1> QED BY SMTT(60), <1>26, <1>27, <1>28, <1>31 DEF IInv

\* Forking a subshell: the shell goes on with the next line, the subshell with
\* this one, and it has no standard input.
LEMMA ForkSubshellOK ==
  ASSUME IInv, ForkSubshell
  PROVE  IInv'
  <1>1. MAIN \in Shells /\ SUB \in Shells /\ MAIN # SUB
    BY BoundAssumption DEF Shells, MAIN, SUB
  <1>2. /\ sh[MAIN].pc = "parsed" /\ sh[SUB].pc = "none" /\ UNCHANGED text /\ proc' = proc /\ buf' = buf
        /\ sh' = [sh EXCEPT ![MAIN] = NextLine(sh[MAIN]),
                            ![SUB] = [sh[MAIN] EXCEPT !.pc = "loop", !.logical = sh[MAIN].logical - 1]]
        /\ fds' = [fds EXCEPT ![SUB] = Close(fds[MAIN], 0)]
    BY DEF ForkSubshell, Reaches
  <1>3. PICK r0 \in ShellState : r0 = sh[MAIN]
    BY <1>1, AnyFacts
  <1>4. PICK u0 \in ShellState : u0 = sh[SUB]
    BY <1>1, AnyFacts
  <1>5. PICK pr \in Childs : pr = proc
    BY <1>1, AnyFacts
  <1>6. PICK table0 \in [Fds -> Ends] : table0 = fds[MAIN]
    BY <1>1, AnyFacts
  <1>7. /\ Shape(r0) /\ KidsOK(MAIN, r0, pr) /\ TableOK(MAIN, r0, table0)
        /\ Shape(u0) /\ KidsOK(SUB, u0, pr)
    BY <1>1, <1>3, <1>4, <1>5, <1>6, AnyFacts
  <1>8. /\ r0.pc = "parsed" /\ r0.ptr = 0 /\ r0.operator = <<>> /\ r0.pipe = NONE /\ r0.kids = <<>>
        /\ r0.logical = Len(r0.commands) /\ r0.logical > 0 /\ u0.pc = "none" /\ u0.kids = <<>>
    BY <1>2, <1>3, <1>4, <1>7 DEF Shape, Idle
  <1>9. PICK r : r = NextLine(r0)
    OBVIOUS
  <1>10. r \in ShellState /\ ShellOK(MAIN, r, pr, table0) /\ r.pc \notin {"tokenize", "parse"}
    <2>1. r \in ShellState /\ ShellOK(MAIN, r, pr, table0)
      BY <1>1, <1>7, <1>8, <1>9, NextLineOK
    <2> QED BY <1>9, <2>1 DEF NextLine, NoShell
  <1>11. PICK u : u = [r0 EXCEPT !.pc = "loop", !.logical = r0.logical - 1]
    OBVIOUS
  <1>12. /\ u \in ShellState /\ u.pc = "loop" /\ u.kids = <<>> /\ u.ptr = 0 /\ u.operator = <<>>
         /\ u.pipe = NONE /\ u.logical = r0.logical - 1 /\ u.commands = r0.commands
    <2>1. "loop" \in Pcs /\ r0.logical - 1 \in Int
      BY CommandTypes DEF Pcs
    <2> QED BY <1>8, <1>11, <2>1 DEF ShellState
  <1>13. 0 <= u.logical /\ u.logical <= Len(u.commands)
    BY <1>8, <1>12, CommandTypes
  <1>14. PICK table : table = Close(table0, 0)
    OBVIOUS
  <1>15. table \in [Fds -> Ends] /\ \A n \in Fds : table[n] = Base(SUB)[n]
    <2>1. 0 \in Fds
      BY BoundAssumption DEF Fds
    <2>2. \A n \in Fds : table0[n] = Base(MAIN)[n]
      BY <1>7, <1>8, BaseTable
    <2>3. /\ table \in [Fds -> Ends] /\ table[0] = Closed
          /\ \A n \in Fds : n # 0 => table[n] = table0[n]
      BY <1>14, <2>1, TableOps
    <2>4. Base(SUB)[0] = Closed /\ \A n \in Fds : n # 0 => Base(SUB)[n] = Base(MAIN)[n]
      BY <1>1, <2>1 DEF Base
    <2> QED BY <2>1, <2>2, <2>3, <2>4
  <1>16. ShellOK(SUB, u, pr, table)
    BY <1>7, <1>8, <1>12, <1>13, <1>15, FirstCommandOK
  <1>17. sh' \in [Shells -> ShellState] /\ sh'[MAIN] = r /\ sh'[SUB] = u
    <2>1. sh \in [Shells -> ShellState]
      BY DEF IInv, Typed
    <2>2. sh' = [sh EXCEPT ![MAIN] = r, ![SUB] = u]
      BY <1>2, <1>3, <1>9, <1>11
    <2> QED BY <1>1, <1>10, <1>12, <2>1, <2>2
  <1>18. /\ fds' \in [Shells \cup Children -> [Fds -> Ends]] /\ fds'[SUB] = table
         /\ \A q \in Shells \cup Children : q # SUB => fds'[q] = fds[q]
    <2>1. fds \in [Shells \cup Children -> [Fds -> Ends]]
      BY DEF IInv, Typed
    <2>2. fds' = [fds EXCEPT ![SUB] = table]
      BY <1>2, <1>6, <1>14
    <2> QED BY <1>1, <1>15, <2>1, <2>2
  <1>19. Typed'
    BY <1>2, <1>17, <1>18 DEF IInv, Typed
  <1>20. TextOK'
    BY <1>2, <1>10, <1>17, TextSame
  <1>21. ASSUME NEW t \in Shells
         PROVE  ShellOK(t, sh[t], proc, fds[t])'
    <2>1. CASE t = MAIN
      BY <1>1, <1>2, <1>5, <1>6, <1>10, <1>17, <1>18, <2>1
    <2>2. CASE t = SUB
      BY <1>2, <1>5, <1>16, <1>17, <1>18, <2>2
    <2> QED BY <2>1, <2>2 DEF Shells
  <1>22. ASSUME NEW p \in Children
         PROVE  ChildOK(p, proc, fds[p], sh[MAIN].commands)'
    <2>1. ~ (pr[p].parent = MAIN /\ pr[p].st \in {"forked", "running"})
      <3>1. ~ \E k \in 1..Len(r0.kids) : TRUE
        BY <1>8
      <3> QED BY <1>7, <3>1 DEF KidsOK
    <2>2. p # SUB
      BY BoundAssumption DEF Children, SUB
    <2>3. PICK tab : tab = fds[p]
      OBVIOUS
    <2>4. ChildOK(p, pr, tab, r0.commands)
      BY <1>3, <1>5, <2>3 DEF IInv
    <2>5. ChildOK(p, pr, tab, r.commands)
      BY <2>1, <2>4, ChildSame
    <2> QED BY <1>2, <1>5, <1>17, <1>18, <2>2, <2>3, <2>5
  <1> QED BY <1>19, <1>20, <1>21, <1>22 DEF IInv

\* The subshell has no children to wait for when it finds the end of its input.
LEMMA SubshellEndsOK ==
  ASSUME IInv, SubshellEnds
  PROVE  IInv'
  <1>1. SUB \in Shells
    BY DEF Shells
  <1>2. /\ sh[SUB].pc = "read" /\ UNCHANGED text /\ proc' = proc /\ fds' = fds /\ buf' = buf
        /\ sh' = [sh EXCEPT ![SUB] = [sh[SUB] EXCEPT !.pc = "exited"]]
    BY DEF SubshellEnds, Reaches, Become
  <1>3. PICK r0 \in ShellState : r0 = sh[SUB]
    BY <1>1, AnyFacts
  <1>4. PICK table \in [Fds -> Ends] : table = fds[SUB]
    BY <1>1, AnyFacts
  <1>5. Shape(r0) /\ KidsOK(SUB, r0, proc) /\ TableOK(SUB, r0, table) /\ r0.pc = "read"
        /\ buf' \in [Children -> 0..PIPE_SIZE]
    BY <1>1, <1>2, <1>3, <1>4, AnyFacts
  <1>6. r0.ptr = 0 /\ r0.operator = <<>> /\ r0.pipe = NONE /\ r0.last = NONE /\ r0.kids = <<>>
    BY <1>5 DEF Shape, Idle
  <1>7. PICK r : r = [r0 EXCEPT !.pc = "exited"]
    OBVIOUS
  <1>8. /\ r \in ShellState /\ r.pc = "exited" /\ r.ptr = 0 /\ r.operator = <<>> /\ r.pipe = NONE
        /\ r.last = NONE /\ r.kids = <<>> /\ r.commands = r0.commands
    BY <1>6, <1>7 DEF ShellState, Pcs
  <1>9. \A n \in Fds : table[n] = Base(SUB)[n]
    BY <1>5, <1>6, BaseTable
  <1>10. TableOK(SUB, r, table)
    BY <1>6, <1>8, <1>9, BaseTable
  <1>11. r.pc \in Idle
    BY <1>8 DEF Idle
  <1>12. ShellOK(SUB, r, proc, table)
    BY <1>5, <1>6, <1>8, <1>10, <1>11, IdleOK
  <1>13. sh' = [sh EXCEPT ![SUB] = r] /\ fds' = [fds EXCEPT ![SUB] = table]
    BY <1>1, <1>2, <1>3, <1>4, <1>7, AnyFacts, ShellFacts
  <1> QED BY <1>1, <1>2, <1>3, <1>4, <1>5, <1>8, <1>12, <1>13, QuietOK

-----------------------------------------------------------------------------
(* Every behaviour of the shell keeps the invariant.                       *)

\* The shell starts with the invariant.
LEMMA InitOK ==
  ASSUME Init
  PROVE  IInv
  <1>1. MAIN \in Shells /\ SUB \in Shells /\ MAIN # SUB /\ NONE \notin Shells
    BY BoundAssumption DEF Shells, MAIN, SUB, NONE
  <1>2. NoShell \in ShellState /\ [NoShell EXCEPT !.pc = "read"] \in ShellState
    <2>1. 0 \in Codes /\ NONE \in MaybeFd /\ "none" \in Pcs /\ "read" \in Pcs
      BY DEF Codes, MaybeFd, Pcs
    <2>2. <<>> \in Seq(Command) /\ <<>> \in Token /\ <<>> \in Seq(Children)
      BY EmptySeq DEF Token
    <2>3. NoShell \in ShellState
      BY <2>1, <2>2 DEF NoShell, ShellState
    <2> QED BY <2>1, <2>3 DEF ShellState
  <1>3. NoProc \in ChildState
    BY DEF NoProc, ChildState, Codes, MaybeFd
  <1>4. sh \in [Shells -> ShellState] /\ proc \in [Children -> ChildState]
    BY <1>2, <1>3 DEF Init
  <1>5. fds \in [Shells \cup Children -> [Fds -> Ends]]
    <2>1. [n \in Fds |-> IF n < 3 THEN Terminal ELSE Closed] \in [Fds -> Ends]
      BY EndKinds
    <2>2. NoFds \in [Fds -> Ends]
      BY EndKinds DEF NoFds
    <2> QED BY <2>1, <2>2 DEF Init
  <1>6. buf \in [Children -> 0..PIPE_SIZE]
    BY PipeAssumption DEF Init
  <1>7. Typed
    BY <1>4, <1>5, <1>6 DEF Typed
  <1>8. TextOK
    <2>1. input \in Token
      BY TextAssumption DEF Init, Token
    <2>2. reader = StartLine /\ lexer = NoLexer
      BY DEF Init
    <2>3. /\ reader \in ReaderState /\ reader.size > 0 /\ Len(reader.line) <= reader.size
          /\ ~ reader.escaping
      BY <2>2, EmptySeq DEF StartLine, ReaderState, Token, Characters
    <2>4. lexer.tokens \in TokenState /\ lexer = [left |-> lexer.left, tokens |-> lexer.tokens]
      BY <2>2, EmptySeq DEF NoLexer, NoTokens, TokenState, Token, Characters
    <2>5. sh[MAIN].pc = "read"
      BY <1>1, <1>2 DEF Init, NoShell
    <2> QED BY <2>1, <2>3, <2>4, <2>5 DEF TextOK, Reaches
  <1>9. ASSUME NEW s \in Shells
        PROVE  ShellOK(s, sh[s], proc, fds[s])
    <2>1. PICK r \in ShellState : r = sh[s]
      BY <1>4
    <2>2. PICK table : table = fds[s]
      OBVIOUS
    <2>3. /\ r.pc \in {"none", "read"} /\ r.pc = (IF s = MAIN THEN "read" ELSE "none")
          /\ r.ptr = 0 /\ r.operator = <<>> /\ r.pipe = NONE /\ r.last = NONE /\ r.kids = <<>>
      BY <2>1 DEF Init, NoShell
    <2>4. KidsOK(s, r, proc)
      <3>1. ~ \E k \in 1..Len(r.kids) : TRUE
        BY <2>3
      <3>2. \A p \in Children : proc[p].parent # s
        BY <1>1 DEF Init, NoProc
      <3> QED BY <2>3, <3>1, <3>2 DEF KidsOK, Taken
    <2>5. TableOK(s, r, table)
      <3>1. CASE s = MAIN
        <4>1. \A n \in Fds : table[n] = Base(s)[n]
          BY <1>1, <2>2, <3>1 DEF Init, Base
        <4> QED BY <2>3, <4>1, BaseTable
      <3>2. CASE s # MAIN
        <4>1. \A n \in Fds : table[n] = Closed
          BY <2>2, <3>2 DEF Init, NoFds
        <4> QED BY <2>3, <3>2, <4>1 DEF TableOK
      <3> QED BY <3>1, <3>2
    <2>6. r.pc \in Idle /\ r.pc # "parsed"
      BY <2>3 DEF Idle
    <2>7. ShellOK(s, r, proc, table)
      BY <2>3, <2>4, <2>5, <2>6, IdleOK
    <2> QED BY <2>1, <2>2, <2>7
  <1>10. ASSUME NEW p \in Children
         PROVE  ChildOK(p, proc, fds[p], sh[MAIN].commands)
    <2>1. proc[p] = NoProc /\ NoProc.st = "none"
      BY DEF Init, NoProc
    <2>2. fds[p] = NoFds
      BY BoundAssumption DEF Init, Children, MAIN
    <2>3. \A n \in Fds, q \in Children : NoFds[n] # W(q)
      BY EndKinds DEF NoFds
    <2> QED BY <2>1, <2>2, <2>3 DEF ChildOK
  <1> QED BY <1>7, <1>8, <1>9, <1>10 DEF IInv

\* Every step of a shell in its line keeps the invariant.
LEMMA ShellStepOK ==
  ASSUME IInv, NEW s \in Shells, ShellStep(s)
  PROVE  IInv'
  BY ExitOK, ChdirOK, StartForegroundOK, TakeOperatorOK, FinishPipelineOK, ReapLastOK,
     SkipAfterListOK, SkipAfterPipeOK, ForkCommandOK, AfterForkOK, OutputOK, EndLoopOK,
     WaitChildOK, LineDoneOK DEF ShellStep

\* Every step keeps the invariant.
LEMMA NextOK ==
  ASSUME IInv, [Next]_vars
  PROVE  IInv'
  <1>1. CASE MainStep
    <2>1. MAIN \in Shells
      BY DEF Shells
    <2> QED BY <1>1, <2>1, ReadOneCharOK, EndOfLineOK, GetTokensOK, ParseOK, ForkSubshellOK,
               ShellStepOK DEF MainStep
  <1>2. CASE SubStep
    <2>1. SUB \in Shells
      BY DEF Shells
    <2> QED BY <1>2, <2>1, SubshellEndsOK, ShellStepOK DEF SubStep
  <1>3. CASE \E p \in Children : ChildStep(p)
    BY <1>3, ChildStepOK
  <1>4. CASE UNCHANGED vars
    BY <1>4 DEF vars, IInv, TextOK, Typed, Reaches
  <1> QED BY <1>1, <1>2, <1>3, <1>4 DEF Next

\* The invariant holds in every state: the shell knows where in its line it is, its
\* list of children is that of its line, its descriptors are the ends of pipes it
\* made itself, and every command behind an operator that it is done with has been
\* run or skipped as the list asks for.
THEOREM ShellInvariance == Spec => []IInv
  <1>1. Init => IInv
    BY InitOK
  <1>2. IInv /\ [Next]_vars => IInv'
    BY NextOK
  <1> QED BY <1>1, <1>2, PTL DEF Spec

-----------------------------------------------------------------------------
(* What is behind a redirection.                                           *)

\* When the command before a redirection has been run, the loop of main is over and
\* nothing behind it has been run.
Stopped(r, pr) ==
  Ran(r, pr, LimitOf(r)) =>
    /\ r.pc \notin {"loop", "reap"}
    /\ \A k \in 1..Len(r.kids) : pr[r.kids[k]].ptr <= LimitOf(r)

Stops == \A s \in Shells : Stopped(sh[s], proc)

\* The children, the line and its limit stay, and no loop begins.
Steady(r0, r) ==
  /\ r.kids = r0.kids /\ r.commands = r0.commands /\ r.logical = r0.logical
  /\ r.pc \in {"loop", "reap"} => r0.pc \in {"loop", "reap"}

\* A shell without children has run nothing.
LEMMA StoppedEmpty ==
  ASSUME NEW r, NEW pr, r.kids = <<>>
  PROVE  Stopped(r, pr)
  BY DEF Stopped, Ran

\* What a shell has run stays, as long as its children do.
LEMMA StoppedSteady ==
  ASSUME NEW s, NEW r0 \in ShellState, NEW r, NEW pr, NEW pr2, Steady(r0, r), Stopped(r0, pr),
         \A k \in 1..Len(r0.kids) : pr2[r0.kids[k]].ptr = pr[r0.kids[k]].ptr
  PROVE  Stopped(r, pr2)
  <1>1. LimitOf(r) = LimitOf(r0)
    BY DEF Steady, LimitOf
  <1>2. Ran(r, pr2, LimitOf(r)) <=> Ran(r0, pr, LimitOf(r0))
    BY <1>1 DEF Steady, Ran
  <1> QED BY <1>1, <1>2 DEF Steady, Stopped

\* A child less in the list.
LEMMA StoppedTail ==
  ASSUME NEW r0 \in ShellState, NEW r \in ShellState, NEW pr, NEW pr2, Stopped(r0, pr),
         r.commands = r0.commands, r.logical = r0.logical, r.pc = "wait",
         r0.kids # <<>>, r.kids = Tail(r0.kids),
         \A k \in 1..Len(r0.kids) : pr2[r0.kids[k]].ptr = pr[r0.kids[k]].ptr
  PROVE  Stopped(r, pr2)
  <1>1. r0.kids \in Seq(Children) /\ Len(r0.kids) \in Nat
    BY KidTypes DEF ShellState
  <1>2. \A k \in 1..Len(r.kids) : k + 1 \in 1..Len(r0.kids) /\ r.kids[k] = r0.kids[k + 1]
    BY <1>1, EmptySeq, HeadTailProperties
  <1>3. \A k \in 1..Len(r.kids) : \E l \in 1..Len(r0.kids) : r.kids[k] = r0.kids[l]
    BY <1>2
  <1>4. LimitOf(r) = LimitOf(r0)
    BY DEF LimitOf
  <1>5. Ran(r, pr2, LimitOf(r)) => Ran(r0, pr, LimitOf(r0))
    BY <1>3, <1>4 DEF Ran
  <1> QED BY <1>3, <1>4, <1>5 DEF Stopped

\* The command that is forked is the newest of the line.
LEMMA StoppedFork ==
  ASSUME NEW s, NEW r0 \in ShellState, NEW r \in ShellState, NEW pr \in Childs, NEW pr2, NEW p \in Children,
         KidsOK(s, r0, pr), Stopped(r0, pr), OneMore(p, r0.kids, r.kids), r0.pc = "loop", r.pc = "forked",
         r.commands = r0.commands, r.logical = r0.logical, pr2[p].ptr = r0.ptr + 1,
         \A k \in 1..Len(r0.kids) : pr2[r0.kids[k]].ptr = pr[r0.kids[k]].ptr
  PROVE  Stopped(r, pr2)
  <1>1. LimitOf(r) = LimitOf(r0) /\ LimitOf(r0) \in Int /\ r0.ptr \in Nat
    BY LimitType, CommandTypes DEF LimitOf
  <1>2. ~ Ran(r0, pr, LimitOf(r0))
    BY DEF Stopped
  <1>3. \A k \in 1..Len(r0.kids) : pr[r0.kids[k]].ptr \in Nat /\ pr[r0.kids[k]].ptr <= r0.ptr
    BY RanFacts DEF KidsOK, Done, Taken
  <1>4. \A k \in 1..Len(r.kids) : \/ r.kids[k] = p
                                  \/ \E l \in 1..Len(r0.kids) : r.kids[k] = r0.kids[l]
    BY DEF OneMore
  <1>5. ASSUME Ran(r, pr2, LimitOf(r))
        PROVE  LimitOf(r) = r0.ptr + 1
    <2>1. PICK k \in 1..Len(r.kids) : pr2[r.kids[k]].ptr = LimitOf(r)
      BY <1>5 DEF Ran
    <2>2. CASE r.kids[k] = p
      BY <2>1, <2>2
    <2>3. CASE r.kids[k] # p
      <3>1. PICK l \in 1..Len(r0.kids) : r.kids[k] = r0.kids[l]
        BY <1>4, <2>3
      <3>2. pr[r0.kids[l]].ptr = LimitOf(r0)
        BY <1>1, <2>1, <3>1
      <3> QED BY <1>2, <3>2 DEF Ran
    <2> QED BY <2>2, <2>3
  <1>6. \A k \in 1..Len(r.kids) : pr2[r.kids[k]].ptr <= r0.ptr + 1
    <2> TAKE k \in 1..Len(r.kids)
    <2>1. CASE r.kids[k] = p
      BY <1>1, <2>1
    <2>2. CASE r.kids[k] # p
      <3>1. PICK l \in 1..Len(r0.kids) : r.kids[k] = r0.kids[l]
        BY <1>4, <2>2
      <3> QED BY SMTT(30), <1>1, <1>3, <3>1
    <2> QED BY <2>1, <2>2
  <1> QED BY <1>5, <1>6 DEF Stopped

\* Behind the limit the shell reads the output itself, so that the loop only goes on
\* in front of it.
LEMMA StoppedOn ==
  ASSUME NEW s, NEW r0 \in ShellState, NEW r \in ShellState, NEW pr \in Childs,
         KidsOK(s, r0, pr), Stopped(r0, pr), r0.pc = "forked", r0.ptr + 1 # LimitOf(r0),
         r.commands = r0.commands, r.logical = r0.logical, r.kids = r0.kids
  PROVE  Stopped(r, pr)
  <1>1. LimitOf(r) = LimitOf(r0) /\ LimitOf(r0) \in Int /\ r0.ptr \in Nat
    BY LimitType, CommandTypes DEF LimitOf
  <1>2. r0.kids # <<>> /\ pr[r0.kids[1]].ptr = r0.ptr + 1 /\ 1 \in 1..Len(r0.kids)
    BY KidTypes DEF KidsOK, Taken
  <1>3. ~ Ran(r0, pr, LimitOf(r0))
    <2> SUFFICES ASSUME Ran(r0, pr, LimitOf(r0)) PROVE FALSE
      OBVIOUS
    <2>1. r0.ptr + 1 <= LimitOf(r0)
      BY <1>2 DEF Stopped
    <2>2. LimitOf(r0) <= r0.ptr + 1
      BY <1>2, RanFacts
    <2> QED BY <1>1, <2>1, <2>2
  <1> QED BY <1>1, <1>3 DEF Stopped, Ran

\* How far AfterFork looks is the limit of the line.
LEMMA LimitAhead ==
  ASSUME NEW s \in Shells, sh[s] \in ShellState,
         sh[s].ptr \notin {sh[s].logical - 1, CountBeforeRedirection(s) - 1}
  PROVE  sh[s].ptr + 1 # LimitOf(sh[s])
  <1>1. Len(sh[s].commands) \in Nat /\ sh[s].ptr \in Nat /\ sh[s].logical \in Int
    <2>1. PICK r \in ShellState : r = sh[s]
      OBVIOUS
    <2> QED BY <2>1, CommandTypes
  <1>2. CountBeforeRedirection(s) \in Int
    BY <1>1 DEF CountBeforeRedirection
  <1>3. LimitOf(sh[s]) = IF CountBeforeRedirection(s) < sh[s].logical
                         THEN CountBeforeRedirection(s) ELSE sh[s].logical
    BY LimitIs DEF Limit
  <1> QED BY <1>1, <1>2, <1>3

\* No step changes the command a child was forked for.
LEMMA PlaceKept ==
  ASSUME IInv, Next, NEW p \in Children, proc[p].st # "none"
  PROVE  proc'[p].ptr = proc[p].ptr
  <1>1. proc \in [Children -> ChildState]
    BY DEF IInv, Typed
  <1>2. ASSUME NEW s \in Shells, ForkCommand(s)
        PROVE  proc'[p].ptr = proc[p].ptr
    <2>1. PICK q \in Children : proc[q] = NoProc /\ \E c : proc' = [proc EXCEPT ![q] = c]
      BY ZenonT(60), <1>2, ForkParts
    <2> QED BY SMTT(30), <1>1, <2>1 DEF NoProc
  <1>3. ASSUME NEW s \in Shells, ShellStep(s), ~ ForkCommand(s)
        PROVE  proc'[p].ptr = proc[p].ptr
    <2>1. \/ proc' = proc
          \/ \E q : proc' = [proc EXCEPT ![q].st = "reaped"]
      BY <1>3 DEF ShellStep, execute_exit_command, execute_chdir_command, StartForeground, TakeOperator,
         FinishPipeline, DrainByte, ReapLast, SkipAfterList, SkipAfterPipe, AfterFork, Output, EndLoop,
         WaitChild, LineDone
    <2>2. PICK pr \in [Children -> ChildState] : pr = proc
      BY <1>1
    <2>3. \A q : [pr EXCEPT ![q].st = "reaped"][p].ptr = pr[p].ptr
      BY DEF ChildState
    <2> QED BY <2>1, <2>2, <2>3
  <1>4. ASSUME NEW q \in Children, ChildStep(q)
        PROVE  proc'[p].ptr = proc[p].ptr
    <2>1. PICK pr \in [Children -> ChildState] : pr = proc
      BY <1>1
    <2>2. CASE Execute(q)
      <3>1. PICK w : proc' = [pr EXCEPT ![q].st = "running", ![q].out = w.out,
                                        ![q].copy = w.copy, ![q].code = w.code]
        BY <2>1, <2>2 DEF Execute
      <3>2. CASE p = q
        BY <2>1, <3>1, <3>2 DEF ChildState
      <3>3. CASE p # q
        BY <2>1, <3>1, <3>3 DEF ChildState
      <3> QED BY <3>2, <3>3
    <2>3. CASE ProgramWrites(q)
      BY <2>1, <2>3 DEF ProgramWrites, ChildState
    <2>4. CASE ProgramReads(q)
      BY <2>1, <2>4 DEF ProgramReads, ChildState
    <2>5. CASE ProgramExits(q)
      BY <2>1, <2>5 DEF ProgramExits, ChildState
    <2> QED BY <1>4, <2>2, <2>3, <2>4, <2>5 DEF ChildStep
  <1>5. MAIN \in Shells /\ SUB \in Shells
    BY DEF Shells
  <1>6. CASE ReadOneChar \/ EndOfLine \/ get_tokens \/ parse \/ ForkSubshell \/ SubshellEnds
    BY <1>6 DEF ReadOneChar, EndOfLine, get_tokens, parse, ForkSubshell, SubshellEnds
  <1> QED BY <1>2, <1>3, <1>4, <1>5, <1>6 DEF Next, MainStep, SubStep

\* What is left to show for the shell that takes a step.
LEMMA OneStops ==
  ASSUME IInv, Next, Stops, NEW s \in Shells, NEW r, sh' = [sh EXCEPT ![s] = r], Stopped(r, proc')
  PROVE  Stops'
  <1>1. sh \in [Shells -> ShellState]
    BY DEF IInv, Typed
  <1>2. ASSUME NEW o \in Shells
        PROVE  Stopped(sh'[o], proc')
    <2>1. CASE o = s
      BY <1>1, <2>1
    <2>2. CASE o # s
      <3>1. sh'[o] = sh[o]
        BY <1>1, <2>2
      <3>2. PICK r0 \in ShellState : r0 = sh[o]
        BY <1>1
      <3>3. PICK pr : pr = proc
        OBVIOUS
      <3>4. PICK pr2 : pr2 = proc'
        OBVIOUS
      <3>5. \A k \in 1..Len(r0.kids) : pr2[r0.kids[k]].ptr = pr[r0.kids[k]].ptr
        <4>1. KidsOK(o, r0, proc)
          BY <3>2, AnyFacts
        <4> QED BY <3>3, <3>4, <4>1, KidTypes, PlaceKept DEF KidsOK
      <3>6. Steady(r0, r0) /\ Stopped(r0, pr)
        BY <3>2, <3>3 DEF Steady, Stops
      <3>7. Stopped(r0, pr2)
        BY <3>5, <3>6, StoppedSteady
      <3> QED BY <3>1, <3>2, <3>4, <3>7
    <2> QED BY <2>1, <2>2
  <1> QED BY <1>2 DEF Stops

\* A step that leaves the shells alone.
LEMMA SameEntry ==
  ASSUME IInv, NEW s \in Shells, sh' = sh
  PROVE  sh' = [sh EXCEPT ![s] = sh[s]]
  BY DEF IInv, Typed

\* What the steps of a shell in its line do to its list of children.
LEMMA StepKinds ==
  ASSUME IInv, NEW s \in Shells, ShellStep(s), ~ ForkCommand(s)
  PROVE  \E r : /\ sh' = [sh EXCEPT ![s] = r]
                /\ \/ r.kids = <<>>
                   \/ Steady(sh[s], r)
                   \/ WaitChild(s) /\ r.commands = sh[s].commands /\ r.logical = sh[s].logical
                        /\ r.pc = "wait" /\ sh[s].kids # <<>> /\ r.kids = Tail(sh[s].kids)
                   \/ AfterFork(s) /\ sh[s].pc = "forked" /\ sh[s].ptr + 1 # LimitOf(sh[s])
                        /\ r.commands = sh[s].commands /\ r.logical = sh[s].logical
                        /\ r.kids = sh[s].kids
  <1>1. sh[s] \in ShellState /\ Shape(sh[s])
    BY AnyFacts
  <1>2. PICK r0 \in ShellState : r0 = sh[s]
    BY <1>1
  <1>3. ASSUME NEW r, r.kids = r0.kids, r.commands = r0.commands, r.logical = r0.logical,
               r.pc \notin {"loop", "reap"} \/ r0.pc \in {"loop", "reap"}
        PROVE  Steady(sh[s], r)
    BY <1>2, <1>3 DEF Steady
  <1>4. CASE execute_exit_command(s)
    <2> DEFINE r == [r0 EXCEPT !.pc = "exited", !.code = ExitCode(r0.commands[1])]
    <2>1. sh' = [sh EXCEPT ![s] = r]
      BY <1>2, <1>4 DEF execute_exit_command, Become
    <2>2. r.kids = r0.kids /\ r.commands = r0.commands /\ r.logical = r0.logical /\ r.pc = "exited"
      BY DEF ShellState
    <2> HIDE DEF r
    <2> QED BY <1>3, <2>1, <2>2
  <1>5. CASE execute_chdir_command(s)
    <2>1. PICK code : sh' = [sh EXCEPT ![s] = [r0 EXCEPT !.pc = "wait", !.code = code]]
      BY <1>2, <1>5 DEF execute_chdir_command, Become
    <2> DEFINE r == [r0 EXCEPT !.pc = "wait", !.code = code]
    <2>2. r.kids = r0.kids /\ r.commands = r0.commands /\ r.logical = r0.logical /\ r.pc = "wait"
      BY DEF ShellState
    <2>3. sh' = [sh EXCEPT ![s] = r]
      BY <2>1
    <2> HIDE DEF r
    <2> QED BY <1>3, <2>2, <2>3
  <1>6. CASE StartForeground(s)
    <2> DEFINE r == [r0 EXCEPT !.pc = "loop"]
    <2>1. sh' = [sh EXCEPT ![s] = r] /\ r0.pc = "parsed"
      BY <1>2, <1>6 DEF StartForeground, Become, Reaches
    <2>2. r.kids = <<>>
      BY <1>1, <1>2, <2>1 DEF ShellState, Shape, Idle
    <2> HIDE DEF r
    <2> QED BY <2>1, <2>2
  <1>7. CASE TakeOperator(s)
    <2> DEFINE r == [r0 EXCEPT !.operator = Name(Current(s)), !.ptr = r0.ptr + 1]
    <2>1. sh' = [sh EXCEPT ![s] = r] /\ r0.pc = "loop"
      BY <1>2, <1>7 DEF TakeOperator, Become, Reaches
    <2>2. r.kids = r0.kids /\ r.commands = r0.commands /\ r.logical = r0.logical
      BY DEF ShellState
    <2> HIDE DEF r
    <2> QED BY <1>3, <2>1, <2>2
  <1>8. CASE FinishPipeline(s)
    <2>1. CASE DrainByte(s, sh[s].pipe)
      BY <1>2, <1>3, <2>1, SameEntry DEF DrainByte
    <2> DEFINE r == [r0 EXCEPT !.pipe = NONE, !.pc = "reap"]
    <2>2. CASE sh' = [sh EXCEPT ![s] = r]
      <3>1. r.kids = r0.kids /\ r.commands = r0.commands /\ r.logical = r0.logical
        BY DEF ShellState
      <3>2. r0.pc = "loop"
        BY <1>2, <1>8 DEF FinishPipeline, AtCommand, Reaches
      <3> HIDE DEF r
      <3> QED BY <1>3, <2>2, <3>1, <3>2
    <2> QED BY <1>2, <1>8, <2>1, <2>2 DEF FinishPipeline, Become
  <1>9. CASE ReapLast(s)
    <2> DEFINE r == [r0 EXCEPT !.pc = "loop", !.code = proc[r0.last].code]
    <2>1. sh' = [sh EXCEPT ![s] = r] /\ r0.pc = "reap"
      BY <1>2, <1>9 DEF ReapLast, Become, Reaches
    <2>2. r.kids = r0.kids /\ r.commands = r0.commands /\ r.logical = r0.logical
      BY DEF ShellState
    <2> HIDE DEF r
    <2> QED BY <1>3, <2>1, <2>2
  <1>10. CASE SkipAfterList(s)
    <2> DEFINE r == [r0 EXCEPT !.ptr = r0.ptr + 1]
    <2>1. sh' = [sh EXCEPT ![s] = r] /\ r0.pc = "loop"
      BY <1>2, <1>10 DEF SkipAfterList, AtCommand, Become, Reaches
    <2>2. r.kids = r0.kids /\ r.commands = r0.commands /\ r.logical = r0.logical
      BY DEF ShellState
    <2> HIDE DEF r
    <2> QED BY <1>3, <2>1, <2>2
  <1>11. CASE SkipAfterPipe(s)
    <2> DEFINE r == [r0 EXCEPT !.ptr = r0.ptr + 1, !.operator = <<>>]
    <2>1. sh' = [sh EXCEPT ![s] = r] /\ r0.pc = "loop"
      BY <1>2, <1>11 DEF SkipAfterPipe, AtCommand, Become, Reaches
    <2>2. r.kids = r0.kids /\ r.commands = r0.commands /\ r.logical = r0.logical
      BY DEF ShellState
    <2> HIDE DEF r
    <2> QED BY <1>3, <2>1, <2>2
  <1>12. CASE AfterFork(s)
    <2>1. r0.pc = "forked"
      BY <1>2, <1>12 DEF AfterFork, Reaches
    <2>2. CASE r0.ptr \in {r0.logical - 1, CountBeforeRedirection(s) - 1}
      <3> DEFINE r == [r0 EXCEPT !.pc = "output"]
      <3>1. sh' = [sh EXCEPT ![s] = r]
        BY <1>2, <1>12, <2>2 DEF AfterFork, Become
      <3>2. r.kids = r0.kids /\ r.commands = r0.commands /\ r.logical = r0.logical /\ r.pc = "output"
        BY DEF ShellState
      <3> HIDE DEF r
      <3> QED BY <1>3, <3>1, <3>2
    <2>3. CASE r0.ptr \notin {r0.logical - 1, CountBeforeRedirection(s) - 1}
      <3> DEFINE r == [r0 EXCEPT !.pc = "loop", !.pipe = r0.fd0, !.ptr = r0.ptr + 1]
      <3>1. sh' = [sh EXCEPT ![s] = r]
        BY <1>2, <1>12, <2>3 DEF AfterFork, Become
      <3>2. r.kids = r0.kids /\ r.commands = r0.commands /\ r.logical = r0.logical
        BY DEF ShellState
      <3>3. sh[s].ptr + 1 # LimitOf(sh[s])
        BY <1>1, <1>2, <2>3, LimitAhead
      <3> HIDE DEF r
      <3> QED BY <1>2, <1>12, <2>1, <3>1, <3>2, <3>3
    <2> QED BY <2>2, <2>3
  <1>13. CASE Output(s)
    <2>1. CASE DrainByte(s, sh[s].fd0)
      BY <1>2, <1>3, <2>1, SameEntry DEF DrainByte
    <2> DEFINE r == [r0 EXCEPT !.pc = "end"]
    <2>2. CASE sh' = [sh EXCEPT ![s] = r]
      <3>1. r.kids = r0.kids /\ r.commands = r0.commands /\ r.logical = r0.logical /\ r.pc = "end"
        BY DEF ShellState
      <3> HIDE DEF r
      <3> QED BY <1>3, <2>2, <3>1
    <2> QED BY <1>2, <1>13, <2>1, <2>2 DEF Output, Become
  <1>14. CASE EndLoop(s)
    <2> DEFINE r == [r0 EXCEPT !.pc = "wait", !.pipe = NONE]
    <2>1. sh' = [sh EXCEPT ![s] = r]
      BY <1>2, <1>14 DEF EndLoop, Become
    <2>2. r.kids = r0.kids /\ r.commands = r0.commands /\ r.logical = r0.logical /\ r.pc = "wait"
      BY DEF ShellState
    <2> HIDE DEF r
    <2> QED BY <1>3, <2>1, <2>2
  <1>15. CASE WaitChild(s)
    <2>1. PICK status, code :
            sh' = [sh EXCEPT ![s] = [r0 EXCEPT !.kids = Tail(r0.kids), !.status = status, !.code = code]]
      BY <1>2, <1>15 DEF WaitChild, Become
    <2>2. r0.pc = "wait" /\ r0.kids # <<>>
      BY <1>2, <1>15 DEF WaitChild, Reaches
    <2> DEFINE r == [r0 EXCEPT !.kids = Tail(r0.kids), !.status = status, !.code = code]
    <2>3. r.kids = Tail(r0.kids) /\ r.commands = r0.commands /\ r.logical = r0.logical /\ r.pc = "wait"
      BY <2>2 DEF ShellState
    <2>4. sh' = [sh EXCEPT ![s] = r]
      BY <2>1
    <2> HIDE DEF r
    <2> QED BY <1>2, <1>15, <2>2, <2>3, <2>4
  <1>16. CASE LineDone(s)
    <2> DEFINE r == NextLine(r0)
    <2>1. sh' = [sh EXCEPT ![s] = r]
      BY <1>2, <1>16 DEF LineDone, Become
    <2>2. r.kids = <<>>
      BY DEF NextLine, NoShell
    <2> HIDE DEF r
    <2> QED BY <2>1, <2>2
  <1> QED BY <1>4, <1>5, <1>6, <1>7, <1>8, <1>9, <1>10, <1>11, <1>12, <1>13, <1>14, <1>15, <1>16
          DEF ShellStep

\* The steps of a shell in its line.
LEMMA LineStops ==
  ASSUME IInv, Next, Stops, NEW s \in Shells, ShellStep(s)
  PROVE  Stops'
  <1>1. PICK r0 \in ShellState : r0 = sh[s]
    BY AnyFacts
  <1>2. PICK pr \in Childs : pr = proc
    BY AnyFacts
  <1>3. PICK pr2 : pr2 = proc'
    OBVIOUS
  <1>4. KidsOK(s, r0, pr) /\ Stopped(r0, pr)
    BY <1>1, <1>2, AnyFacts DEF Stops
  <1>5. \A k \in 1..Len(r0.kids) : pr2[r0.kids[k]].ptr = pr[r0.kids[k]].ptr
    BY <1>2, <1>3, <1>4, KidTypes, PlaceKept DEF KidsOK
  <1>6. IInv'
    BY ShellStepOK
  <1>7. CASE ForkCommand(s)
    <2>1. PICK p \in Children, n0 \in Fds, n1 \in Fds : \E c :
            /\ proc' = [proc EXCEPT ![p] = c] /\ c.ptr = r0.ptr + 1
            /\ sh' = [sh EXCEPT ![s] = [sh[s] EXCEPT !.pc = "forked", !.fd0 = n0, !.fd1 = n1,
                                  !.operator = <<>>, !.last = p, !.kids = <<p>> \o sh[s].kids]]
      <3>1. PICK p \in Children, n0 \in Fds, n1 \in Fds : \E table, c :
             /\ proc[p] = NoProc /\ PipeMade(s, sh[s], fds[s], p, n0, n1, table)
             /\ c = [NoProc EXCEPT !.st = "forked", !.parent = s, !.ptr = sh[s].ptr + 1,
                                   !.pipe = sh[s].pipe, !.fd0 = n0, !.fd1 = n1]
             /\ fds' = [fds EXCEPT ![s] = table, ![p] = table]
             /\ proc' = [proc EXCEPT ![p] = c]
             /\ sh' = [sh EXCEPT ![s] = [sh[s] EXCEPT !.pc = "forked", !.fd0 = n0, !.fd1 = n1,
                                    !.operator = <<>>, !.last = p, !.kids = <<p>> \o sh[s].kids]]
        BY <1>7, ForkParts
      <3>2. PICK c : /\ c = [NoProc EXCEPT !.st = "forked", !.parent = s, !.ptr = sh[s].ptr + 1,
                                           !.pipe = sh[s].pipe, !.fd0 = n0, !.fd1 = n1]
                     /\ proc' = [proc EXCEPT ![p] = c]
                     /\ sh' = [sh EXCEPT ![s] = [sh[s] EXCEPT !.pc = "forked", !.fd0 = n0, !.fd1 = n1,
                                  !.operator = <<>>, !.last = p, !.kids = <<p>> \o sh[s].kids]]
        BY <3>1
      <3>3. c.ptr = r0.ptr + 1
        BY <1>1, <3>2 DEF NoProc
      <3> QED BY <3>2, <3>3
    <2>2. PICK kids : kids = <<p>> \o r0.kids
      OBVIOUS
    <2>3. OneMore(p, r0.kids, kids)
      <3>1. r0.kids \in Seq(Children)
        BY DEF ShellState
      <3>2. PICK kids0 \in Seq(Children) : kids0 = r0.kids
        BY <3>1
      <3>3. kids = <<p>> \o kids0
        BY <2>2, <3>2
      <3>4. OneMore(p, kids0, kids)
        BY <3>3, OneKidMore
      <3> QED BY <3>2, <3>4
    <2>4. PICK r : r = [r0 EXCEPT !.pc = "forked", !.fd0 = n0, !.fd1 = n1, !.operator = <<>>,
                                  !.last = p, !.kids = kids]
      OBVIOUS
    <2>5. sh' = [sh EXCEPT ![s] = r]
      BY <1>1, <2>1, <2>2, <2>4
    <2>6. /\ r \in ShellState /\ r.pc = "forked" /\ r.kids = kids /\ r.commands = r0.commands
          /\ r.logical = r0.logical
      <3>1. "forked" \in Pcs /\ n0 \in MaybeFd /\ n1 \in MaybeFd /\ p \in Children \cup {NONE}
        BY DEF Pcs, MaybeFd
      <3>2. <<>> \in Token
        BY EmptySeq DEF Token
      <3>3. kids \in Seq(Children)
        BY <2>3 DEF OneMore
      <3> QED BY <2>4, <3>1, <3>2, <3>3 DEF ShellState
    <2>7. pr2[p].ptr = r0.ptr + 1
      <3>1. pr \in [Children -> ChildState]
        BY DEF Childs
      <3> QED BY <1>2, <1>3, <2>1, <3>1
    <2>8. r0.pc = "loop"
      BY <1>1, <1>7 DEF ForkCommand, AtCommand, Reaches
    <2>9. OneMore(p, r0.kids, r.kids)
      BY <2>3, <2>6
    <2>10. Stopped(r, pr2)
      BY <1>4, <1>5, <2>6, <2>7, <2>8, <2>9, StoppedFork
    <2>11. Stopped(r, proc')
      BY <1>3, <2>10
    <2> QED BY <2>5, <2>11, OneStops
  <1>8. CASE ~ ForkCommand(s)
    <2>1. PICK r : /\ sh' = [sh EXCEPT ![s] = r]
                   /\ \/ r.kids = <<>>
                      \/ Steady(r0, r)
                      \/ WaitChild(s) /\ r.commands = r0.commands /\ r.logical = r0.logical
                           /\ r.pc = "wait" /\ r0.kids # <<>> /\ r.kids = Tail(r0.kids)
                      \/ AfterFork(s) /\ r0.pc = "forked" /\ r0.ptr + 1 # LimitOf(r0)
                           /\ r.commands = r0.commands /\ r.logical = r0.logical
                           /\ r.kids = r0.kids
      BY <1>1, <1>8, StepKinds
    <2>2. r \in ShellState
      <3>1. sh \in [Shells -> ShellState] /\ sh' \in [Shells -> ShellState]
        BY <1>6 DEF IInv, Typed
      <3> QED BY <2>1, <3>1
    <2>3. Stopped(r, pr2)
      <3>1. CASE r.kids = <<>>
        BY <3>1, StoppedEmpty
      <3>2. CASE Steady(r0, r)
        BY <1>4, <1>5, <3>2, StoppedSteady
      <3>3. CASE /\ r.commands = r0.commands /\ r.logical = r0.logical
                 /\ r.pc = "wait" /\ r0.kids # <<>> /\ r.kids = Tail(r0.kids)
        BY <1>4, <1>5, <2>2, <3>3, StoppedTail
      <3>4. CASE /\ AfterFork(s) /\ r0.pc = "forked" /\ r0.ptr + 1 # LimitOf(r0)
                 /\ r.commands = r0.commands /\ r.logical = r0.logical /\ r.kids = r0.kids
        <4>1. Stopped(r, pr)
          BY <1>4, <2>2, <3>4, StoppedOn
        <4>2. pr2 = pr
          BY <1>2, <1>3, <3>4 DEF AfterFork
        <4> QED BY <4>1, <4>2
      <3> QED BY <2>1, <3>1, <3>2, <3>3, <3>4
    <2>4. Stopped(r, proc')
      BY <1>3, <2>3
    <2> QED BY <2>1, <2>4, OneStops
  <1> QED BY <1>7, <1>8

\* Every step.
LEMMA NextStops ==
  ASSUME IInv, Stops, [Next]_vars
  PROVE  Stops'
  <1>1. MAIN \in Shells /\ SUB \in Shells /\ MAIN # SUB
    BY BoundAssumption DEF Shells, MAIN, SUB
  <1>2. sh \in [Shells -> ShellState]
    BY DEF IInv, Typed
  <1>3. sh[MAIN].pc \in Idle => sh[MAIN].kids = <<>>
    BY <1>1, AnyFacts DEF Shape
  <1>4. CASE UNCHANGED vars
    BY <1>4 DEF vars, Stops, Stopped, Ran
  <1>5. CASE Next /\ \E s \in Shells : ShellStep(s)
    BY <1>5, LineStops
  <1>6. CASE Next /\ sh' = sh
    <2>1. Stopped(sh[MAIN], proc')
      <3>1. PICK r0 \in ShellState : r0 = sh[MAIN]
        BY <1>1, <1>2
      <3>2. PICK pr : pr = proc
        OBVIOUS
      <3>3. PICK pr2 : pr2 = proc'
        OBVIOUS
      <3>4. \A k \in 1..Len(r0.kids) : pr2[r0.kids[k]].ptr = pr[r0.kids[k]].ptr
        <4>1. KidsOK(MAIN, r0, proc)
          BY <1>1, <3>1, AnyFacts
        <4> QED BY <1>6, <3>2, <3>3, <4>1, KidTypes, PlaceKept DEF KidsOK
      <3>5. Steady(r0, r0) /\ Stopped(r0, pr)
        BY <1>1, <3>1, <3>2 DEF Steady, Stops
      <3>6. Stopped(r0, pr2)
        BY <3>4, <3>5, StoppedSteady
      <3> QED BY <3>1, <3>3, <3>6
    <2>2. sh' = [sh EXCEPT ![MAIN] = sh[MAIN]]
      BY <1>1, <1>6, SameEntry
    <2> QED BY <1>1, <1>6, <2>1, <2>2, OneStops
  <1>7. CASE Next /\ EndOfLine
    <2> DEFINE r == [sh[MAIN] EXCEPT !.pc = "tokenize", !.eof = ~ reader.done]
    <2>1. sh' = [sh EXCEPT ![MAIN] = r] /\ sh[MAIN].pc = "read"
      BY <1>7 DEF EndOfLine, Become, Reaches
    <2>2. r.kids = <<>>
      BY <1>1, <1>2, <1>3, <2>1 DEF ShellState, Idle
    <2> HIDE DEF r
    <2>3. Stopped(r, proc')
      BY <2>2, StoppedEmpty
    <2> QED BY <1>1, <1>7, <2>1, <2>3, OneStops
  <1>8. CASE Next /\ get_tokens
    <2> DEFINE r == [sh[MAIN] EXCEPT !.pc = "parse"]
    <2>1. sh[MAIN].pc = "tokenize" /\ (sh' = sh \/ sh' = [sh EXCEPT ![MAIN] = r])
      BY <1>8 DEF get_tokens, Become, Reaches
    <2>2. r.kids = <<>>
      BY <1>1, <1>2, <1>3, <2>1 DEF ShellState, Idle
    <2> HIDE DEF r
    <2>3. Stopped(r, proc')
      BY <2>2, StoppedEmpty
    <2> QED BY <1>1, <1>6, <1>8, <2>1, <2>3, OneStops
  <1>9. CASE Next /\ parse
    <2>1. PICK r : sh' = [sh EXCEPT ![MAIN] = r] /\ r.kids = <<>>
      <3>1. sh[MAIN].kids = <<>> /\ sh[MAIN] \in ShellState
        BY <1>1, <1>2, <1>3, <1>9 DEF parse, Reaches, Idle
      <3>2. PICK r0 \in ShellState : r0 = sh[MAIN]
        BY <3>1
      <3>3. \A c : [r0 EXCEPT !.commands = c].kids = <<>>
        BY <3>1, <3>2 DEF ShellState
      <3>4. \A n : [r0 EXCEPT !.pc = "parsed", !.logical = n].kids = <<>>
        BY <3>1, <3>2 DEF ShellState
      <3>5. NextLine(r0).kids = <<>>
        BY DEF NextLine, NoShell
      <3>6. \/ sh' = [sh EXCEPT ![MAIN] = [r0 EXCEPT !.commands = AddToken(r0.commands, Head(lexer.left))]]
            \/ sh' = [sh EXCEPT ![MAIN] = NextLine(r0)]
            \/ sh' = [sh EXCEPT ![MAIN] = [r0 EXCEPT !.pc = "parsed", !.logical = Len(r0.commands)]]
        BY <1>9, <3>2 DEF parse, Become
      <3> QED BY <3>3, <3>4, <3>5, <3>6
    <2>2. Stopped(r, proc')
      BY <2>1, StoppedEmpty
    <2> QED BY <1>1, <1>9, <2>1, <2>2, OneStops
  <1>10. CASE Next /\ ForkSubshell
    <2> DEFINE r == NextLine(sh[MAIN])
               u == [sh[MAIN] EXCEPT !.pc = "loop", !.logical = sh[MAIN].logical - 1]
    <2>1. sh' = [sh EXCEPT ![MAIN] = r, ![SUB] = u] /\ sh[MAIN].pc = "parsed"
      BY <1>10 DEF ForkSubshell, Reaches
    <2>2. r.kids = <<>> /\ u.kids = <<>>
      BY <1>1, <1>2, <1>3, <2>1 DEF ShellState, Idle, NextLine, NoShell
    <2> HIDE DEF r, u
    <2>3. \A s \in Shells : sh'[s] \in {r, u}
      BY <1>1, <1>2, <2>1 DEF Shells
    <2>4. Stopped(r, proc') /\ Stopped(u, proc')
      BY <2>2, StoppedEmpty
    <2>5. \A s \in Shells : Stopped(sh'[s], proc')
      BY <2>3, <2>4
    <2> QED BY <2>5 DEF Stops
  <1>11. CASE Next /\ SubshellEnds
    <2>1. sh[SUB].pc = "read" /\ sh' = [sh EXCEPT ![SUB] = [sh[SUB] EXCEPT !.pc = "exited"]]
      BY <1>11 DEF SubshellEnds, Become, Reaches
    <2> DEFINE r == [sh[SUB] EXCEPT !.pc = "exited"]
    <2>2. r.kids = <<>>
      BY <1>1, <1>2, <2>1, AnyFacts DEF ShellState, Idle, Shape
    <2>3. sh' = [sh EXCEPT ![SUB] = r]
      BY <2>1
    <2> HIDE DEF r
    <2>4. Stopped(r, proc')
      BY <2>2, StoppedEmpty
    <2> QED BY <1>1, <1>11, <2>3, <2>4, OneStops
  <1>12. CASE Next /\ (ReadOneChar \/ \E p \in Children : ChildStep(p))
    <2>1. sh' = sh
      BY <1>12 DEF ReadOneChar, ChildStep, Execute, ProgramWrites, ProgramReads, ProgramExits
    <2> QED BY <1>6, <1>12, <2>1
  <1> QED BY <1>1, <1>4, <1>5, <1>7, <1>8, <1>9, <1>10, <1>11, <1>12 DEF Next, MainStep, SubStep

\* Nothing has been run before the first line.
LEMMA InitStops ==
  ASSUME Init
  PROVE  Stops
  <1>1. ASSUME NEW s \in Shells
        PROVE  sh[s].kids = <<>>
    BY <1>1 DEF Init, NoShell
  <1> QED BY <1>1, StoppedEmpty DEF Stops

\* When the command before a redirection has been run, the loop of main is over and
\* the shell forks nothing more for the line (the jump to end in main).
THEOREM ShellStops == Spec => []Stops
  <1>1. Init => Stops
    BY InitStops
  <1>2. IInv /\ Stops /\ [Next]_vars => Stops'
    BY NextStops
  <1> QED BY <1>1, <1>2, ShellInvariance, PTL DEF Spec

-----------------------------------------------------------------------------
(* What follows from the invariant.                                        *)

\* The invariant says more than the types.
LEMMA TypeFollows ==
  ASSUME IInv
  PROVE  TypeOK
  <1>1. /\ reader.line \in Seq(Characters) /\ Len(reader.line) <= reader.size
        /\ reader.escaping => reader.line # <<>>
    BY DEF IInv, TextOK, ReaderState, Token
  <1>2. ASSUME NEW s \in Shells
        PROVE  /\ sh[s].ptr \in 0..Len(sh[s].commands) /\ sh[s].pipe \in Fds \union {NONE}
               /\ sh[s].code \in Codes
    <2>1. PICK r \in ShellState : r = sh[s] /\ Shape(r)
      BY AnyFacts
    <2>2. r.ptr \in 0..Len(r.commands)
      <3>1. CASE r.pc \in Idle
        BY <2>1, <3>1, CommandTypes DEF Shape
      <3>2. CASE r.pc \in Busy
        BY <2>1, <3>2, BusyFacts
      <3> QED BY <3>1, <3>2, PcKinds
    <2> QED BY <2>1, <2>2 DEF ShellState, MaybeFd
  <1>3. ASSUME NEW p \in Children
        PROVE  /\ proc[p].st \in {"none", "forked", "running", "zombie", "reaped"}
               /\ buf[p] \in 0..PIPE_SIZE
    BY DEF IInv, Typed, ChildState
  <1>4. \A q \in DOMAIN fds : fds[q] \in [Fds -> {Closed, Terminal}
                  \union {R(p) : p \in Children} \union {W(p) : p \in Children}]
    BY DEF IInv, Typed, Ends
  <1> QED BY <1>1, <1>2, <1>3, <1>4 DEF TypeOK

\* Between two lines a shell has no pipe and no children that run a command to
\* wait for.
LEMMA NothingLeftFollows ==
  ASSUME IInv
  PROVE  NothingLeft
  <1> SUFFICES ASSUME Reaches(MAIN, "read")
               PROVE  /\ fds[MAIN] = [n \in Fds |-> IF n < 3 THEN Terminal ELSE Closed]
                      /\ \A p \in Children : proc[p].parent = MAIN => proc[p].st = "reaped"
    BY DEF NothingLeft
  <1>1. MAIN \in Shells /\ MAIN # SUB
    BY BoundAssumption DEF Shells, MAIN, SUB
  <1>2. PICK r \in ShellState : r = sh[MAIN]
    BY <1>1, AnyFacts
  <1>3. PICK table \in [Fds -> Ends] : table = fds[MAIN]
    BY <1>1, AnyFacts
  <1>4. r.pc = "read" /\ Shape(r) /\ KidsOK(MAIN, r, proc) /\ TableOK(MAIN, r, table)
    BY <1>1, <1>2, <1>3, AnyFacts DEF Reaches
  <1>5. r.kids = <<>> /\ r.pipe = NONE
    BY <1>4 DEF Shape, Idle
  <1>6. \A n \in Fds : table[n] = Base(MAIN)[n]
    BY <1>4, <1>5, BaseTable
  <1>7. \A n \in Fds : table[n] = IF n < 3 THEN Terminal ELSE Closed
    BY <1>1, <1>6 DEF Base
  <1>8. table = [n \in Fds |-> IF n < 3 THEN Terminal ELSE Closed]
    BY <1>7
  <1>9. ~ \E k \in 1..Len(r.kids) : TRUE
    BY <1>5
  <1> QED BY <1>3, <1>4, <1>8, <1>9 DEF KidsOK

\* Only a shell that has just forked holds a write end: that of its newest child.
LEMMA ShellWrites ==
  ASSUME NEW s, NEW r \in ShellState, NEW table, TableOK(s, r, table), NEW n \in Fds, NEW q \in Children,
         table[n] = W(q)
  PROVE  r.pc = "forked" /\ q = r.kids[1]
  <1>1. table[n] \notin {Closed, Terminal} /\ \A o : table[n] # R(o)
    BY EndKinds
  <1>2. r.pc \notin {"none", "exited"}
    BY <1>1 DEF TableOK
  <1>3. n \in Held(r)
    BY <1>1, <1>2 DEF TableOK, Base
  <1>4. n # r.pipe \/ r.pipe = NONE
    BY <1>1, <1>2 DEF TableOK
  <1>5. NONE \notin Fds
    BY DEF Fds, NONE
  <1>6. n = r.fd1 /\ r.pc = "forked"
    BY <1>1, <1>2, <1>3, <1>4, <1>5 DEF TableOK, Held
  <1>7. table[n] = W(r.kids[1])
    BY <1>6 DEF TableOK
  <1> QED BY <1>6, <1>7, EndKinds

\* No other child and no shell holds the write end of the pipe that a child of the
\* shell reads: only the newest child of a shell that has just forked has one, and
\* the reader is not older than that child.
LEMMA StdinFollows ==
  ASSUME IInv
  PROVE  StdinConnected
  <1> SUFFICES ASSUME NEW p \in Children, proc[p].st = "running", proc[p].parent = MAIN, proc[p].pipe # NONE
               PROVE  \E q \in Children :
                        /\ fds[p][0] = R(q) /\ Writers(q) \subseteq {q}
                        /\ proc[q].parent = MAIN /\ proc[q].ptr < proc[p].ptr
                        /\ \A i \in (proc[q].ptr + 1)..(proc[p].ptr - 1) :
                             is_operator(Name(sh[MAIN].commands[i]))
    BY DEF StdinConnected
  <1>1. PICK q \in Children :
          /\ fds[p][0] = R(q) /\ proc[q].parent = MAIN /\ proc[q].ptr < proc[p].ptr
          /\ \A i \in (proc[q].ptr + 1)..(proc[p].ptr - 1) : is_operator(Name(sh[MAIN].commands[i]))
    BY DEF IInv, ChildOK
  <1>2. DOMAIN fds = Shells \cup Children
    BY DEF IInv, Typed
  <1>3. ASSUME NEW o \in Shells \cup Children, NEW n \in Fds, fds[o][n] = W(q)
        PROVE  o = q
    <2>1. CASE o \in Children
      <3>1. ChildOK(o, proc, fds[o], sh[MAIN].commands)
        BY <2>1 DEF IInv
      <3> QED BY <1>3, <3>1 DEF ChildOK
    <2>2. CASE o \in Shells
      <3>1. PICK r \in ShellState : r = sh[o]
        BY <2>2, AnyFacts
      <3>2. PICK table : table = fds[o]
        OBVIOUS
      <3>3. PICK pr \in Childs : pr = proc
        BY <2>2, AnyFacts
      <3>4. TableOK(o, r, table) /\ KidsOK(o, r, pr)
        BY <2>2, <3>1, <3>2, <3>3, AnyFacts
      <3>5. r.pc = "forked" /\ q = r.kids[1]
        BY <1>3, <3>2, <3>4, ShellWrites
      <3>6. r.kids # <<>> /\ 1 \in 1..Len(r.kids)
        BY <3>4, <3>5, KidTypes DEF KidsOK, Taken
      <3>7. o = MAIN
        BY <1>1, <3>3, <3>4, <3>5, <3>6 DEF KidsOK
      <3>8. PICK k \in 1..Len(r.kids) : r.kids[k] = p
        BY <3>3, <3>4, <3>7 DEF KidsOK
      <3>9. pr[p].ptr <= pr[q].ptr /\ pr[p].ptr \in Nat /\ pr[q].ptr \in Nat
        BY <3>4, <3>5, <3>6, <3>8, RanFacts
      <3> QED BY <1>1, <3>3, <3>9
    <2> QED BY <2>1, <2>2
  <1>4. Writers(q) \subseteq {q}
    BY <1>2, <1>3 DEF Writers
  <1> QED BY <1>1, <1>4

\* The set of children that the properties speak of is the list of the invariant.
LEMMA KidSet ==
  ASSUME IInv, NEW s \in Shells
  PROVE  /\ \A p : p \in ToSet(sh[s].kids) <=> \E k \in 1..Len(sh[s].kids) : sh[s].kids[k] = p
         /\ \A i : ForkedFor(s, i) # {} <=> Ran(sh[s], proc, i)
         /\ \A p, q \in ToSet(sh[s].kids) : proc[p].ptr = proc[q].ptr => p = q
         /\ \A p \in ToSet(sh[s].kids) : proc[p].ptr \in Nat
  <1>1. PICK r \in ShellState : r = sh[s]
    BY AnyFacts
  <1>2. PICK pr \in Childs : pr = proc
    BY AnyFacts
  <1>3. KidsOK(s, r, pr)
    BY <1>1, <1>2, AnyFacts
  <1>4. r.kids \in Seq(Children) /\ DOMAIN r.kids = 1..Len(r.kids) /\ Len(r.kids) \in Nat
    BY KidTypes DEF ShellState
  <1>5. \A p : p \in ToSet(r.kids) <=> \E k \in 1..Len(r.kids) : r.kids[k] = p
    BY <1>4 DEF ToSet
  <1>6. \A k \in 1..Len(r.kids) : pr[r.kids[k]].ptr \in Nat
    BY <1>3, RanFacts
  <1>7. \A p \in ToSet(r.kids) : pr[p].ptr \in Nat
    BY <1>5, <1>6
  <1>8. ASSUME NEW p \in ToSet(r.kids), NEW q \in ToSet(r.kids), pr[p].ptr = pr[q].ptr
        PROVE  p = q
    <2>1. PICK k \in 1..Len(r.kids) : r.kids[k] = p
      BY <1>5
    <2>2. PICK l \in 1..Len(r.kids) : r.kids[l] = q
      BY <1>5
    <2>3. ~ (k < l)
      BY <1>3, <1>7, <1>8, <2>1, <2>2 DEF KidsOK
    <2>4. ~ (l < k)
      BY <1>3, <1>7, <1>8, <2>1, <2>2 DEF KidsOK
    <2> QED BY <1>4, <2>1, <2>2, <2>3, <2>4
  <1>9. \A i : ForkedFor(s, i) # {} <=> Ran(r, pr, i)
    BY <1>1, <1>2, <1>5 DEF ForkedFor, Ran
  <1> QED BY <1>1, <1>2, <1>5, <1>7, <1>8, <1>9

\* The child that is the newest at i is the one that the property chooses.
LEMMA LatestIs ==
  ASSUME IInv, NEW s \in Shells, NEW i \in Int, NEW k \in 1..Len(sh[s].kids),
         Latest(sh[s], proc, sh[s].kids[k], i)
  PROVE  LastRun(s, i) = sh[s].kids[k]
  <1> DEFINE p == sh[s].kids[k]
             Newest(x) == /\ proc[x].ptr <= i
                          /\ \A q \in ToSet(sh[s].kids) : proc[q].ptr <= i => proc[q].ptr <= proc[x].ptr
  <1>1. p \in ToSet(sh[s].kids)
    BY ZenonT(60), KidSet
  <1>2. Newest(p)
    BY KidSet DEF Latest
  <1>3. \A x \in ToSet(sh[s].kids) : Newest(x) => x = p
    <2> TAKE x \in ToSet(sh[s].kids)
    <2> HAVE Newest(x)
    <2>1. proc[x].ptr <= proc[p].ptr /\ proc[p].ptr <= proc[x].ptr
      BY <1>1, <1>2
    <2>2. proc[x].ptr \in Nat /\ proc[p].ptr \in Nat
      BY <1>1, KidSet
    <2>3. proc[x].ptr = proc[p].ptr
      BY <2>1, <2>2
    <2> QED BY <1>1, <2>3, KidSet
  <1>4. LastRun(s, i) = CHOOSE x \in ToSet(sh[s].kids) : Newest(x)
    BY DEF LastRun
  <1> HIDE DEF Newest
  <1>5. LastRun(s, i) \in ToSet(sh[s].kids) /\ Newest(LastRun(s, i))
    BY <1>1, <1>2, <1>4
  <1> QED BY <1>3, <1>5

\* The children of a line were forked for different commands.
LEMMA AtMostOne ==
  ASSUME IInv, NEW s \in Shells, NEW i
  PROVE  Cardinality(ForkedFor(s, i)) <= 1
  <1>1. CASE ForkedFor(s, i) = {}
    BY <1>1, FS_EmptySet
  <1>2. CASE ForkedFor(s, i) # {}
    <2>1. PICK p : p \in ForkedFor(s, i)
      BY <1>2
    <2>2. \A q \in ForkedFor(s, i) : q = p
      BY <2>1, KidSet DEF ForkedFor
    <2>3. ForkedFor(s, i) = {p}
      BY <2>1, <2>2
    <2> QED BY <2>3, FS_Singleton
  <1> QED BY <1>1, <1>2

\* At the end of the line every operator has been decided.
LEMMA RunsFollows ==
  ASSUME IInv, Stops
  PROVE  RunsAsWritten
  <1> SUFFICES ASSUME NEW s \in Shells, Reaches(s, "wait"), sh[s].kids # <<>>,
                      Head(sh[s].kids) = sh[s].last, WellFormed(sh[s].commands, Limit(s))
               PROVE  /\ ForkedFor(s, 1) # {}
                      /\ \A i \in 1..Limit(s) :
                           /\ Cardinality(ForkedFor(s, i)) <= 1
                           /\ i % 2 = 0 => /\ ForkedFor(s, i) = {}
                                           /\ ForkedFor(s, i + 1) # {} <=> Wanted(s, i)
                      /\ ForkedFor(s, Limit(s)) # {} =>
                           \A p \in ToSet(sh[s].kids) : proc[p].ptr <= Limit(s)
    BY DEF RunsAsWritten
  <1>1. PICK r \in ShellState : r = sh[s]
    BY AnyFacts
  <1>2. PICK pr \in Childs : pr = proc
    BY AnyFacts
  <1>3. /\ r.pc = "wait" /\ r.pc \in Busy /\ Shape(r) /\ KidsOK(s, r, pr) /\ LineOK(r, pr)
        /\ LimitOf(r) = Limit(s) /\ WellFormed(r.commands, LimitOf(r))
    BY <1>1, <1>2, AnyFacts, LimitIs DEF Reaches, Busy
  <1>4. Whole(r)
    <2>1. r.kids \in Seq(Children) /\ r.kids # <<>>
      BY <1>1 DEF ShellState
    <2>2. Head(r.kids) = r.kids[1]
      BY <2>1, HeadTailProperties
    <2> QED BY <1>1, <2>1, <2>2 DEF Whole
  <1>5. ListOK(r, pr)
    BY <1>3, <1>4 DEF LineOK
  <1>6. /\ r.ptr \in Nat /\ r.logical \in Nat /\ Len(r.commands) \in Nat /\ r.logical <= Len(r.commands)
        /\ Done(r) = Len(r.commands)
    BY <1>3, BusyFacts DEF Done, Taken
  <1>7. /\ LimitOf(r) \in Nat /\ LimitOf(r) >= 1
        /\ LimitOf(r) <= r.logical /\ LimitOf(r) <= Len(r.commands)
        /\ \A i \in Nat : i > 0 /\ i <= LimitOf(r) /\ Operates(r, i) =>
             i % 2 = 0 /\ Name(r.commands[i]) \in {<<"|">>, <<"|", "|">>, <<"&", "&">>}
        /\ \A i \in Nat : i > 0 /\ i <= LimitOf(r) /\ i % 2 = 0 => Operates(r, i)
    BY <1>3, <1>6, LineFacts
  <1>8. \A i : ForkedFor(s, i) # {} <=> Ran(r, pr, i)
    BY <1>1, <1>2, KidSet
  <1>9. ForkedFor(s, 1) # {}
    BY <1>5, <1>6, <1>7, <1>8 DEF ListOK
  <1>10. ASSUME NEW i \in 1..Limit(s), i % 2 = 0
         PROVE  ForkedFor(s, i) = {} /\ (ForkedFor(s, i + 1) # {} <=> Wanted(s, i))
    <2>1. i \in Nat /\ i > 0 /\ i <= LimitOf(r)
      BY <1>3, <1>7, <1>10
    <2>2. Operates(r, i) /\ Name(r.commands[i]) \in {<<"|">>, <<"|", "|">>, <<"&", "&">>}
      BY <1>7, <1>10, <2>1
    <2>3. ForkedFor(s, i) = {}
      BY <1>3, <1>8, <2>2, RanFacts
    <2>4. i < LimitOf(r) /\ i \in 2..Len(r.commands)
      <3>1. LimitOf(r) % 2 = 1
        BY <1>3 DEF WellFormed
      <3>2. i # LimitOf(r) /\ i # 1
        BY <1>10, <3>1, Parity
      <3> QED BY <1>6, <1>7, <2>1, <3>2
    <2>5. i < Done(r)
      BY <1>6, <1>7, <2>4
    <2>6. Decided(r, pr, i)
      BY <1>5, <1>10, <2>4, <2>5 DEF ListOK
    <2>7. CASE Name(r.commands[i]) = <<"|">>
      <3>1. Ran(r, pr, i + 1) <=> Ran(r, pr, i - 1)
        BY <2>6, <2>7 DEF Decided
      <3>2. Wanted(s, i) <=> ForkedFor(s, i - 1) # {}
        BY <1>1, <2>7 DEF Wanted
      <3> QED BY <1>8, <2>3, <3>1, <3>2
    <2>8. CASE Name(r.commands[i]) # <<"|">>
      <3>1. PICK k \in 1..Len(r.kids) :
              /\ Latest(r, pr, r.kids[k], i - 1)
              /\ Ran(r, pr, i + 1) <=> IF Name(r.commands[i]) = <<"|", "|">>
                                       THEN pr[r.kids[k]].code # 0 ELSE pr[r.kids[k]].code = 0
        BY <2>6, <2>8 DEF Decided
      <3>2. LastRun(s, i - 1) = r.kids[k]
        <4>1. i - 1 \in Int /\ Latest(sh[s], proc, sh[s].kids[k], i - 1)
          BY <1>1, <1>2, <2>1, <3>1
        <4>2. k \in 1..Len(sh[s].kids)
          BY <1>1
        <4> QED BY <1>1, <4>1, <4>2, LatestIs
      <3>3. Wanted(s, i) <=> IF Name(r.commands[i]) = <<"|", "|">>
                             THEN pr[r.kids[k]].code # 0 ELSE pr[r.kids[k]].code = 0
        BY <1>1, <1>2, <2>8, <3>2 DEF Wanted
      <3> QED BY <1>8, <2>3, <3>1, <3>3
    <2> QED BY <2>7, <2>8
  <1>11. \A i : Cardinality(ForkedFor(s, i)) <= 1
    BY AtMostOne
  <1>12. ForkedFor(s, Limit(s)) # {} => \A p \in ToSet(sh[s].kids) : proc[p].ptr <= Limit(s)
    <2> HAVE ForkedFor(s, Limit(s)) # {}
    <2>1. Ran(r, pr, LimitOf(r)) /\ Stopped(r, pr)
      BY <1>1, <1>2, <1>3, <1>8 DEF Stops
    <2>2. \A k \in 1..Len(r.kids) : pr[r.kids[k]].ptr <= LimitOf(r)
      BY <2>1 DEF Stopped
    <2>3. \A p : p \in ToSet(sh[s].kids) <=> \E k \in 1..Len(sh[s].kids) : sh[s].kids[k] = p
      BY KidSet
    <2> QED BY <1>1, <1>2, <1>3, <2>2, <2>3
  <1> QED BY <1>9, <1>10, <1>11, <1>12

-----------------------------------------------------------------------------
(***************************************************************************)
(* What holds in every state                                               *)
(***************************************************************************)

\* The reader's buffer is never smaller than its line and has a character to take
\* back (read_stdin_line), ptr never leaves the commands of the line, and no pipe
\* holds more than it can, for all scripts, programs and bounds.
THEOREM ShellTypes == Spec => []TypeOK
  BY ShellInvariance, TypeFollows, PTL

\* When the shell reads a line, every pipe of the lines before is closed at both
\* ends and every child forked for a command has been waited for (the end of the
\* loop of main). The subshell forked for an & is not among them.
THEOREM ShellNothingLeft == Spec => []NothingLeft
  BY ShellInvariance, NothingLeftFollows, PTL

\* A program after a | reads from the program before it, and nobody else can write
\* there, so that it finds the end of its input (pipe, fork and close in main).
THEOREM ShellStdin == Spec => []StdinConnected
  BY ShellInvariance, StdinFollows, PTL

\* When the loop of main is over, the commands that have been run are those that the
\* pipes, && and || of the line ask for.
THEOREM ShellRuns == Spec => []RunsAsWritten
  BY ShellInvariance, ShellStops, RunsFollows, PTL

=============================================================================
