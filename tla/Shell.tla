-------------------------------- MODULE Shell --------------------------------
(***************************************************************************)
(* The executor of homework 2 (main.c): the main loop of the shell, the    *)
(* subshell that an & leaves behind, the children they fork, and the pipes *)
(* between them. Descriptors are modelled by number, because the code      *)
(* depends on which number pipe() returns. What a program does is external: *)
(* it copies its input, writes some bytes, and exits with a code.          *)
(***************************************************************************)
EXTENDS ShellText, Integers, FiniteSets

CONSTANTS
    Scripts,      \* the texts that stdin may hold
    Program,      \* what each known program does: [out, copy, code]
    PIPE_SIZE,    \* bytes a pipe holds
    PROC_BOUND,   \* children forked in one behaviour
    FD_BOUND      \* descriptors of one process

\* What a process can exit with, and -1, which chdir() may return.
Codes == -1..255

ASSUME PipeAssumption == PIPE_SIZE \in Nat \ {0}

\* The terminal, the pipe that is read and both ends of a new one have numbers.
ASSUME BoundAssumption == PROC_BOUND \in Nat /\ FD_BOUND \in Nat /\ FD_BOUND >= 5

\* The characters that may reach a token; the tokenizer adds backslashes itself.
Characters == {NoChar, "\\"} \union UNION {ToSet(t) : t \in Scripts}

ASSUME TextAssumption ==
    /\ \A t \in Scripts : t \in Seq(Characters)
    /\ \A name \in DOMAIN Program :
         Program[name] \in [out : Nat, copy : BOOLEAN, code : 0..255]

VARIABLES
    script,    \* the text stdin held at the start
    input,     \* what is left of it
    reader,    \* the local variables of read_stdin_line
    lexer,     \* what get_tokens and parse have still to look at, and found
    sh,        \* the local variables of main, in the shell and the subshell
    proc,      \* the children
    fds,       \* descriptor table of every process
    buf        \* bytes in the pipe that was made for each child

text == <<script, input, reader, lexer>>
vars == <<script, input, reader, lexer, sh, proc, fds, buf>>

Children == 1..PROC_BOUND
MAIN     == 0                     \* the shell
SUB      == PROC_BOUND + 1        \* the subshell of an &
Shells   == {MAIN, SUB}
Fds      == 0..FD_BOUND
NONE     == -1
ENOENT   == 2

\* What a descriptor refers to: nothing, the terminal, an end of a pipe.
Closed   == <<"closed", 0>>
Terminal == <<"terminal", 0>>
R(p)     == <<"read", p>>
W(p)     == <<"write", p>>

NoFds    == [n \in Fds |-> Closed]
Opened(table) == {n \in Fds : table[n] # Closed}
Lowest(table) == CHOOSE n \in Fds \ Opened(table) :
                     \A m \in Fds \ Opened(table) : n <= m
Close(table, n)   == [table EXCEPT ![n] = Closed]
Dup2(table, m, n) == [table EXCEPT ![n] = table[m]]
Readers(p) == {q \in DOMAIN fds : \E n \in Fds : fds[q][n] = R(p)}
Writers(p) == {q \in DOMAIN fds : \E n \in Fds : fds[q][n] = W(p)}

NoShell == [pc |-> "none", commands |-> <<>>, logical |-> 0, ptr |-> 0,
            operator |-> <<>>, pipe |-> NONE, fd0 |-> NONE, fd1 |-> NONE,
            last |-> NONE, kids |-> <<>>, status |-> 0, code |-> 0,
            eof |-> FALSE]
NoLexer == [left |-> <<>>, tokens |-> NoTokens]
NoProc  == [st |-> "none", parent |-> NONE, ptr |-> 0, pipe |-> NONE,
            fd0 |-> NONE, fd1 |-> NONE, out |-> 0, copy |-> FALSE, code |-> 0]

Init ==
    /\ script \in Scripts
    /\ input = script
    /\ reader = StartLine
    /\ lexer = NoLexer
    /\ sh = [s \in Shells |-> IF s = MAIN THEN [NoShell EXCEPT !.pc = "read"]
                                            ELSE NoShell]
    /\ proc = [p \in Children |-> NoProc]
    /\ fds = [q \in Shells \union Children |->
                 IF q = MAIN THEN [n \in Fds |-> IF n < 3 THEN Terminal
                                                   ELSE Closed]
                 ELSE NoFds]
    /\ buf = [p \in Children |-> 0]

Name(command) == Head(command)
Current(s)    == sh[s].commands[sh[s].ptr + 1]
Reaches(s, pc) == sh[s].pc = pc
Become(s, r)  == sh' = [sh EXCEPT ![s] = r]
\* The top of the loop of main: read on unless the input has ended.
NextLine(r)   == [NoShell EXCEPT !.pc = IF r.eof THEN "exited" ELSE "read",
                                 !.code = r.code]

-----------------------------------------------------------------------------
(* Reading a line and what main does with it.                              *)

ReadOneChar ==
    /\ Reaches(MAIN, "read") /\ ~reader.done /\ input # <<>>
    /\ reader' = ReadChar(reader, Head(input))
    /\ input' = Tail(input)
    /\ UNCHANGED <<script, lexer, sh, proc, fds, buf>>

EndOfLine ==
    /\ Reaches(MAIN, "read") /\ (reader.done \/ input = <<>>)
    /\ lexer' = [left |-> reader.line, tokens |-> NoTokens]
    /\ reader' = StartLine
    /\ Become(MAIN, [sh[MAIN] EXCEPT !.pc = "tokenize", !.eof = ~reader.done])
    /\ UNCHANGED <<script, input, proc, fds, buf>>

\* get_tokens: the last token, and an unclosed quote, end with the line.
get_tokens ==
    /\ Reaches(MAIN, "tokenize")
    /\ IF lexer.left # <<>>
       THEN /\ lexer' = [left |-> Tail(lexer.left), tokens |->
                           get_one_token(lexer.tokens, Head(lexer.left))]
            /\ UNCHANGED sh
       ELSE /\ lexer' = [lexer EXCEPT !.left = CloseToken(lexer.tokens).tokens]
            /\ Become(MAIN, [sh[MAIN] EXCEPT !.pc = "parse"])
    /\ UNCHANGED <<script, input, reader, proc, fds, buf>>

parse ==
    LET r == sh[MAIN]
    IN /\ Reaches(MAIN, "parse")
       /\ IF lexer.left # <<>>
          THEN /\ lexer' = [lexer EXCEPT !.left = Tail(@)]
               /\ Become(MAIN, [r EXCEPT !.commands =
                                   AddToken(@, Head(lexer.left))])
          ELSE /\ lexer' = NoLexer
               /\ Become(MAIN, IF r.commands = <<>> THEN NextLine(r) ELSE
                     [r EXCEPT !.pc = "parsed", !.logical = Len(r.commands)])
       /\ UNCHANGED <<script, input, reader, proc, fds, buf>>

\* The subshell has closed its stdin and finds the end of the input.
SubshellEnds ==
    /\ Reaches(SUB, "read")
    /\ Become(SUB, [sh[SUB] EXCEPT !.pc = "exited"])
    /\ UNCHANGED <<text, proc, fds, buf>>

IsBuiltin(s, name) == sh[s].logical = 1 /\ Name(sh[s].commands[1]) = <<name>>

\* sscanf of the first argument; "3" stands for every number but 0.
ExitCode(command) == IF Len(command) > 1 /\ command[2] = <<"3">> THEN 3 ELSE 0

execute_exit_command(s) ==
    /\ Reaches(s, "parsed") /\ IsBuiltin(s, "exit")
    /\ Become(s, [sh[s] EXCEPT !.pc = "exited",
                               !.code = ExitCode(sh[s].commands[1])])
    /\ fds' = [fds EXCEPT ![s] = NoFds]
    /\ UNCHANGED <<text, proc, buf>>

execute_chdir_command(s) ==
    /\ Reaches(s, "parsed") /\ IsBuiltin(s, "cd")
    /\ \E code \in {0, -1} :
         Become(s, [sh[s] EXCEPT !.pc = "wait", !.code = code])
    /\ UNCHANGED <<text, proc, fds, buf>>

EndsWithAmpersand(s) == Name(Last(sh[s].commands)) = <<"&">>

\* The parent goes on with the next line and forgets the subshell.
ForkSubshell ==
    /\ Reaches(MAIN, "parsed") /\ EndsWithAmpersand(MAIN)
    /\ ~IsBuiltin(MAIN, "exit") /\ ~IsBuiltin(MAIN, "cd")
    /\ Reaches(SUB, "none")          \* bound: one line with &
    /\ sh' = [sh EXCEPT ![MAIN] = NextLine(@),
                        ![SUB] = [sh[MAIN] EXCEPT !.pc = "loop", !.logical = @ - 1]]
    /\ fds' = [fds EXCEPT ![SUB] = Close(fds[MAIN], 0)]
    /\ UNCHANGED <<text, proc, buf>>

StartForeground(s) ==
    /\ Reaches(s, "parsed") /\ ~EndsWithAmpersand(s)
    /\ ~IsBuiltin(s, "exit") /\ ~IsBuiltin(s, "cd")
    /\ Become(s, [sh[s] EXCEPT !.pc = "loop"])
    /\ UNCHANGED <<text, proc, fds, buf>>

-----------------------------------------------------------------------------
(* The loop over the commands.                                             *)

\* The count includes a final &, so that a redirection before it is missed.
CountBeforeRedirection(s) ==
    LET n == Len(sh[s].commands)
    IN IF n > 1 /\ Name(sh[s].commands[n - 1]) \in {<<">">>, <<">", ">">>}
       THEN n - 2 ELSE n

AtCommand(s) == /\ Reaches(s, "loop") /\ sh[s].ptr < sh[s].logical
                /\ ~is_operator(Name(Current(s)))
AfterList(s) == sh[s].operator \notin {<<>>, <<"|">>}    \* or, and; or >

TakeOperator(s) ==
    /\ Reaches(s, "loop") /\ sh[s].ptr < sh[s].logical
    /\ is_operator(Name(Current(s)))
    /\ Become(s, [sh[s] EXCEPT !.operator = Name(Current(s)), !.ptr = @ + 1])
    /\ UNCHANGED <<text, proc, fds, buf>>

\* Reads the pipe behind descriptor n to its end.
DrainByte(s, n) ==
    LET p == fds[s][n][2]
    IN /\ buf[p] > 0
       /\ buf' = [buf EXCEPT ![p] = @ - 1]
       /\ UNCHANGED <<text, sh, proc, fds>>
Drained(s, n) == LET p == fds[s][n][2] IN buf[p] = 0 /\ Writers(p) = {}

FinishPipeline(s) ==
    /\ AtCommand(s) /\ AfterList(s) /\ sh[s].pipe # NONE
    /\ \/ DrainByte(s, sh[s].pipe)
       \/ /\ Drained(s, sh[s].pipe)
          /\ fds' = [fds EXCEPT ![s] = Close(@, sh[s].pipe)]
          /\ Become(s, [sh[s] EXCEPT !.pipe = NONE, !.pc = "reap"])
          /\ UNCHANGED <<text, proc, buf>>

ReapLast(s) ==
    LET p == sh[s].last
    IN /\ Reaches(s, "reap") /\ proc[p].st = "zombie"
       /\ proc' = [proc EXCEPT ![p].st = "reaped"]
       /\ Become(s, [sh[s] EXCEPT !.pc = "loop", !.code = proc[p].code])
       /\ UNCHANGED <<text, fds, buf>>

\* A mistake to be caught: || is taken for &&.
SkippedAlike(s) == sh[s].code # 0
Skipped(s) ==
    IF sh[s].operator = <<"|", "|">> THEN sh[s].code = 0 ELSE sh[s].code # 0

\* A command after || or && that is not wanted; the operator stays.
SkipAfterList(s) ==
    /\ AtCommand(s) /\ AfterList(s) /\ sh[s].pipe = NONE /\ Skipped(s)
    /\ Become(s, [sh[s] EXCEPT !.ptr = @ + 1])
    /\ UNCHANGED <<text, proc, fds, buf>>

\* The rest of a pipeline whose first command was skipped.
SkipAfterPipe(s) ==
    /\ AtCommand(s) /\ sh[s].operator = <<"|">>
    /\ sh[s].ptr # 0 /\ sh[s].pipe = NONE
    /\ Become(s, [sh[s] EXCEPT !.ptr = @ + 1, !.operator = <<>>])
    /\ UNCHANGED <<text, proc, fds, buf>>

ForkCommand(s) ==
    LET r  == sh[s]
        n0 == Lowest(fds[s])
        n1 == Lowest([fds[s] EXCEPT ![n0] = Terminal])
        p  == CHOOSE q \in Children : proc[q].st = "none"
                  /\ \A o \in Children : proc[o].st = "none" => q <= o
        table == [fds[s] EXCEPT ![n0] = R(p), ![n1] = W(p)]
    IN /\ AtCommand(s)
       /\ IF AfterList(s) THEN r.pipe = NONE /\ ~Skipped(s)
          ELSE r.operator = <<"|">> /\ r.ptr # 0 => r.pipe # NONE
       /\ \E q \in Children : proc[q].st = "none"
       /\ fds' = [fds EXCEPT ![s] = table, ![p] = table]
       /\ proc' = [proc EXCEPT ![p] =
                     [NoProc EXCEPT !.st = "forked", !.parent = s,
                                    !.ptr = r.ptr + 1, !.pipe = r.pipe,
                                    !.fd0 = n0, !.fd1 = n1]]
       /\ Become(s, [r EXCEPT !.pc = "forked", !.fd0 = n0, !.fd1 = n1,
                              !.operator = <<>>, !.last = p,
                              !.kids = <<p>> \o @])
       /\ UNCHANGED <<text, buf>>

\* A mistake to be caught: the pipe that was read last stays open.
KeepOldPipe(s, table) == table
CloseOldPipe(s, table) ==
    IF sh[s].pipe # NONE THEN Close(table, sh[s].pipe) ELSE table

\* A mistake to be caught: the parent can write to the pipe it reads.
KeepWriteEnd(s)  == fds[s]
CloseWriteEnd(s) == Close(fds[s], sh[s].fd1)

\* The parent closes its write end and either reads the output of the last
\* command itself or keeps the read end for the next one.
AfterFork(s) ==
    LET r == sh[s]
        table == CloseWriteEnd(s)
    IN /\ Reaches(s, "forked")
       /\ IF r.ptr \in {r.logical - 1, CountBeforeRedirection(s) - 1}
          THEN /\ Become(s, [r EXCEPT !.pc = "output"])
               /\ fds' = [fds EXCEPT ![s] = table]
          ELSE /\ Become(s, [r EXCEPT !.pc = "loop", !.pipe = r.fd0,
                                      !.ptr = @ + 1])
               /\ fds' = [fds EXCEPT ![s] = CloseOldPipe(s, table)]
       /\ UNCHANGED <<text, proc, buf>>

\* To the terminal or, before a redirection, to the file.
Output(s) ==
    /\ Reaches(s, "output")
    /\ \/ DrainByte(s, sh[s].fd0)
       \/ /\ Drained(s, sh[s].fd0)
          /\ fds' = [fds EXCEPT ![s] = Close(@, sh[s].fd0)]
          /\ Become(s, [sh[s] EXCEPT !.pc = "end"])
          /\ UNCHANGED <<text, proc, buf>>

EndLoop(s) ==
    /\ \/ Reaches(s, "end")
       \/ Reaches(s, "loop") /\ sh[s].ptr = sh[s].logical
    /\ fds' = [fds EXCEPT ![s] = CloseOldPipe(s, @)]
    /\ Become(s, [sh[s] EXCEPT !.pc = "wait", !.pipe = NONE])
    /\ UNCHANGED <<text, proc, buf>>

-----------------------------------------------------------------------------
(* Waiting for the children, the newest first.                             *)

\* waitpid fails for a child that was waited for before and leaves status.
WaitChild(s) ==
    LET r == sh[s]
        p == Head(r.kids)
        status == IF proc[p].st = "zombie" THEN proc[p].code ELSE r.status
    IN /\ Reaches(s, "wait") /\ r.kids # <<>>
       /\ proc[p].st \in {"zombie", "reaped"}
       /\ proc' = [proc EXCEPT ![p].st = "reaped"]
       /\ Become(s, [r EXCEPT !.kids = Tail(@), !.status = status,
                              !.code = IF p = r.last THEN status ELSE @])
       /\ UNCHANGED <<text, fds, buf>>

LineDone(s) ==
    /\ Reaches(s, "wait") /\ sh[s].kids = <<>>
    /\ Become(s, NextLine(sh[s]))
    /\ UNCHANGED <<text, proc, fds, buf>>

-----------------------------------------------------------------------------
(* A child: it connects its descriptors, then runs its program.            *)

What(command) ==
    CASE Name(command) = <<"exit">> ->
           [out |-> 0, copy |-> FALSE, code |-> ExitCode(command)]
      [] Name(command) \in DOMAIN Program -> Program[Name(command)]
      [] OTHER -> [out |-> 0, copy |-> FALSE, code |-> ENOENT]

\* A mistake to be caught: the child reads from the pipe it writes to.
TakeOwnOutput(p, table) == Dup2(table, proc[p].fd0, 0)
TakeInput(p, table) ==
    IF proc[p].pipe = NONE THEN table
    ELSE Close(Dup2(table, proc[p].pipe, 0), proc[p].pipe)

Execute(p) ==
    LET c == proc[p]
        w == What(sh[c.parent].commands[c.ptr])
        connected == Dup2(TakeInput(p, fds[p]), c.fd1, 1)
    IN /\ c.st = "forked"
       /\ fds' = [fds EXCEPT ![p] = Close(Close(connected, c.fd1), c.fd0)]
       /\ proc' = [proc EXCEPT ![p].st = "running", ![p].out = w.out,
                               ![p].copy = w.copy, ![p].code = w.code]
       /\ UNCHANGED <<text, sh, buf>>

\* A write to a pipe nobody can read kills the program; the shell takes a
\* child that was killed for one that exited with 0.
ProgramWrites(p) ==
    LET q == fds[p][1][2]
    IN /\ proc[p].st = "running" /\ proc[p].out > 0
       /\ IF Readers(q) = {}
          THEN /\ proc' = [proc EXCEPT ![p].st = "zombie", ![p].code = 0]
               /\ fds' = [fds EXCEPT ![p] = NoFds]
               /\ UNCHANGED buf
          ELSE /\ buf[q] < PIPE_SIZE
               /\ buf' = [buf EXCEPT ![q] = @ + 1]
               /\ proc' = [proc EXCEPT ![p].out = @ - 1]
               /\ UNCHANGED fds
       /\ UNCHANGED <<text, sh>>

\* The terminal of the shell has nothing for its children.
ProgramReads(p) ==
    LET end == fds[p][0]
        q == end[2]
        FromPipe == end[1] = "read"
    IN /\ proc[p].st = "running" /\ proc[p].out = 0 /\ proc[p].copy
       /\ IF FromPipe /\ buf[q] > 0
          THEN /\ buf' = [buf EXCEPT ![q] = @ - 1]
               /\ proc' = [proc EXCEPT ![p].out = 1]
          ELSE /\ FromPipe => Writers(q) = {}
               /\ proc' = [proc EXCEPT ![p].copy = FALSE]
               /\ UNCHANGED buf
       /\ UNCHANGED <<text, sh, fds>>

ProgramExits(p) ==
    /\ proc[p].st = "running" /\ proc[p].out = 0 /\ ~proc[p].copy
    /\ proc' = [proc EXCEPT ![p].st = "zombie"]
    /\ fds' = [fds EXCEPT ![p] = NoFds]
    /\ UNCHANGED <<text, sh, buf>>

-----------------------------------------------------------------------------

ShellStep(s) ==
    \/ execute_exit_command(s) \/ execute_chdir_command(s)
    \/ StartForeground(s) \/ TakeOperator(s) \/ FinishPipeline(s)
    \/ ReapLast(s) \/ SkipAfterList(s) \/ SkipAfterPipe(s) \/ ForkCommand(s)
    \/ AfterFork(s) \/ Output(s) \/ EndLoop(s) \/ WaitChild(s) \/ LineDone(s)
MainStep == \/ ReadOneChar \/ EndOfLine \/ get_tokens \/ parse
            \/ ForkSubshell \/ ShellStep(MAIN)
SubStep  == SubshellEnds \/ ShellStep(SUB)
ChildStep(p) ==
    Execute(p) \/ ProgramWrites(p) \/ ProgramReads(p) \/ ProgramExits(p)

Next == MainStep \/ SubStep \/ \E p \in Children : ChildStep(p)

Spec == Init /\ [][Next]_vars

\* Every process is scheduled.
FairSpec == /\ Spec
            /\ WF_vars(MainStep)
            /\ WF_vars(SubStep)
            /\ \A p \in Children : WF_vars(ChildStep(p))

-----------------------------------------------------------------------------
(* Properties.                                                             *)

\* The ranges of the variables. The reader's buffer is never smaller than the line
\* in it, and there is a character to take back when a newline is escaped; the
\* commands of a line are never left, and no pipe holds more than it can.
TypeOK ==
    /\ reader.line \in Seq(Characters) /\ Len(reader.line) <= reader.size
    /\ reader.escaping => reader.line # <<>>
    /\ \A s \in Shells : /\ sh[s].ptr \in 0..Len(sh[s].commands)
                         /\ sh[s].pipe \in Fds \union {NONE}
                         /\ sh[s].code \in Codes
    /\ \A p \in Children :
         /\ proc[p].st \in {"none", "forked", "running", "zombie", "reaped"}
         /\ buf[p] \in 0..PIPE_SIZE
    /\ \A q \in DOMAIN fds : fds[q] \in [Fds -> {Closed, Terminal}
                    \union {R(p) : p \in Children} \union {W(p) : p \in Children}]

\* Words and operators alternate; a line that bash would refuse does not.
WellFormed(commands, n) ==
    /\ n % 2 = 1
    /\ \A i \in 1..n : IF i % 2 = 1 THEN ~is_operator(Name(commands[i]))
          ELSE Name(commands[i]) \in {<<"|">>, <<"|", "|">>, <<"&", "&">>}

\* The commands of the line that are not behind a redirection.
Limit(s) == IF CountBeforeRedirection(s) < sh[s].logical
            THEN CountBeforeRedirection(s) ELSE sh[s].logical

\* The children forked for a command of the line.
ForkedFor(s, i) == {p \in ToSet(sh[s].kids) : proc[p].ptr = i}

\* The child of the last command run at i or before.
LastRun(s, i) ==
    CHOOSE p \in ToSet(sh[s].kids) :
       /\ proc[p].ptr <= i
       /\ \A q \in ToSet(sh[s].kids) : proc[q].ptr <= i => proc[q].ptr <= proc[p].ptr

\* What the operator at i asks for the command behind it: a pipe that it runs if
\* the one before it does, || and && that the list up to there failed or not.
Wanted(s, i) ==
    LET operator == Name(sh[s].commands[i])
    IN CASE operator = <<"|">>      -> ForkedFor(s, i - 1) # {}
         [] operator = <<"|", "|">> -> proc[LastRun(s, i - 1)].code # 0
         [] OTHER                   -> proc[LastRun(s, i - 1)].code = 0

\* When the loop of main is over, the first command of the line has been run and,
\* of the others, exactly those that the pipes, && and || ask for, each of them
\* once. Nothing behind a redirection has, if the command before it was run.
RunsAsWritten ==
    \A s \in Shells :
      /\ Reaches(s, "wait") /\ sh[s].kids # <<>> /\ Head(sh[s].kids) = sh[s].last
      /\ WellFormed(sh[s].commands, Limit(s))
      => /\ ForkedFor(s, 1) # {}
         /\ \A i \in 1..Limit(s) :
              /\ Cardinality(ForkedFor(s, i)) <= 1
              /\ i % 2 = 0 => /\ ForkedFor(s, i) = {}
                             /\ ForkedFor(s, i + 1) # {} <=> Wanted(s, i)
         /\ ForkedFor(s, Limit(s)) # {} =>
              \A p \in ToSet(sh[s].kids) : proc[p].ptr <= Limit(s)

\* When the shell reads a line, it holds no end of a pipe any more and has
\* waited for every child it forked for a command of the lines before. (The
\* subshell of an & is no such child: nobody waits for it.)
NothingLeft ==
    Reaches(MAIN, "read") =>
      /\ fds[MAIN] = [n \in Fds |-> IF n < 3 THEN Terminal ELSE Closed]
      /\ \A p \in Children : proc[p].parent = MAIN => proc[p].st = "reaped"

\* A program after a | that the shell itself started reads from the program
\* before the |, and nobody but that program can still write there.
StdinConnected ==
    \A p \in Children :
      /\ proc[p].st = "running" /\ proc[p].parent = MAIN
      /\ proc[p].pipe # NONE
      => \E q \in Children :
           /\ fds[p][0] = R(q) /\ Writers(q) \subseteq {q}
           /\ proc[q].parent = MAIN /\ proc[q].ptr < proc[p].ptr
           /\ \A i \in (proc[q].ptr + 1)..(proc[p].ptr - 1) :
                is_operator(Name(sh[MAIN].commands[i]))

\* The status of a line is that of the last command that was run for it.
StatusOfLastCommand ==
    \A s \in Shells :
      Reaches(s, "wait") /\ sh[s].kids = <<>> /\ sh[s].last # NONE
        => sh[s].code = proc[sh[s].last].code

\* Every script ends: no reader waits for an end of file that cannot come, no
\* writer for room in a pipe that nobody reads, no wait for a child that hangs.
ScriptEnds ==
    <>[](/\ sh[MAIN].pc = "exited"
         /\ sh[SUB].pc \in {"none", "exited"}
         /\ \A p \in Children : proc[p].st \in {"none", "reaped"})

=============================================================================
