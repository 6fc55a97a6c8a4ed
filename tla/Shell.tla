-------------------------------- MODULE Shell --------------------------------
(***************************************************************************)
(* The shell, user/sh.c: the recursive-descent parser, and runcmd(), which *)
(* turns a command tree into processes joined by pipes. The system calls   *)
(* it makes are atomic here, and any of them may fail.                     *)
(*                                                                         *)
(* A line is a sequence of lexemes; spaces are left out, and every word is *)
(* "w", told apart by its position in the line.                            *)
(***************************************************************************)
EXTENDS Naturals, SequencesExt

CONSTANTS
    Lines,      \* the lines that may be typed
    Pids,       \* slots of the process table, numbers from 1; 1 is the shell
    MAXARGS,    \* room for arguments, with the final null pointer
    NFD         \* descriptors of a process

VARIABLES
    line,       \* the line that has been typed
    proc,       \* the processes, see Process below
    failed      \* some system call has failed

shvars == <<line, proc, failed>>

(***************************************************************************)
(* Constructors of command trees.                                          *)
(***************************************************************************)
execcmd == [type |-> "EXEC", argv |-> <<>>]
redircmd(cmd, word, mode) ==
    [type |-> "REDIR", cmd |-> cmd, file |-> word, fd |-> IF mode = "<" THEN 0 ELSE 1,
     mode |-> mode]
pipecmd(left, right) == [type |-> "PIPE", left |-> left, right |-> right]
listcmd(left, right) == [type |-> "LIST", left |-> left, right |-> right]
backcmd(cmd) == [type |-> "BACK", cmd |-> cmd]

(***************************************************************************)
(* The parser. A parser of line l that starts at position s returns the    *)
(* set of its results, the tree and where it stopped: one result, or none  *)
(* when it panics.                                                         *)
(***************************************************************************)
gettoken(l, s) == IF s > Len(l) THEN "0" ELSE l[s]
peek(l, s, toks) == gettoken(l, s) \in toks
Result(s, cmd) == [s |-> s, cmd |-> cmd]

RECURSIVE parseredirs(_, _, _)
parseredirs(cmd, l, s) ==
    IF ~peek(l, s, {"<", ">", ">>"}) THEN {Result(s, cmd)}
    ELSE IF gettoken(l, s + 1) # "w" THEN {}
    ELSE parseredirs(redircmd(cmd, s + 1, gettoken(l, s)), l, s + 2)

(* The redirections parsed so far are wrapped around the command whose     *)
(* arguments are still being collected.                                    *)
RECURSIVE AddArg(_, _)
AddArg(ret, word) ==
    IF ret.type = "EXEC" THEN [ret EXCEPT !.argv = Append(@, word)]
    ELSE [ret EXCEPT !.cmd = AddArg(@, word)]

RECURSIVE ParseArgs(_, _, _, _)
ParseArgs(l, s, ret, argc) ==
    IF peek(l, s, {"|", ")", "&", ";"}) \/ gettoken(l, s) = "0" THEN {Result(s, ret)}
    ELSE IF gettoken(l, s) # "w" \/ argc + 1 >= MAXARGS THEN {}
    ELSE UNION {ParseArgs(l, r.s, r.cmd, argc + 1) :
                  r \in parseredirs(AddArg(ret, s), l, s + 1)}

RECURSIVE parseline(_, _)

parseblock(l, s) ==
    UNION {IF peek(l, r.s, {")"}) THEN parseredirs(r.cmd, l, r.s + 1) ELSE {} :
             r \in parseline(l, s + 1)}

parseexec(l, s) ==
    IF peek(l, s, {"("}) THEN parseblock(l, s)
    ELSE UNION {ParseArgs(l, r.s, r.cmd, 0) : r \in parseredirs(execcmd, l, s)}

RECURSIVE parsepipe(_, _)
parsepipe(l, s) ==
    UNION {IF ~peek(l, e.s, {"|"}) THEN {e}
           ELSE {Result(r.s, pipecmd(e.cmd, r.cmd)) : r \in parsepipe(l, e.s + 1)} :
             e \in parseexec(l, s)}

(* Mutant: one & only. *)
ParseBackOnce(l, s, cmd) ==
    IF peek(l, s, {"&"}) THEN Result(s + 1, backcmd(cmd)) ELSE Result(s, cmd)

RECURSIVE ParseBack(_, _, _)
ParseBack(l, s, cmd) ==
    IF peek(l, s, {"&"}) THEN ParseBack(l, s + 1, backcmd(cmd)) ELSE Result(s, cmd)

parseline(l, s) ==
    UNION {LET b == ParseBack(l, r.s, r.cmd)
           IN  IF ~peek(l, b.s, {";"}) THEN {b}
               ELSE {Result(q.s, listcmd(b.cmd, q.cmd)) : q \in parseline(l, b.s + 1)} :
             r \in parsepipe(l, s)}

(* parsecmd: the whole line must have been used. *)
parsecmd(l) == {r.cmd : r \in {q \in parseline(l, 1) : q.s = Len(l) + 1}}

(* The words that nulterminate() puts a zero after. *)
RECURSIVE nulterminate(_)
nulterminate(cmd) ==
    CASE cmd.type = "EXEC" -> ToSet(cmd.argv)
      [] cmd.type = "REDIR" -> nulterminate(cmd.cmd) \union {cmd.file}
      [] cmd.type \in {"PIPE", "LIST"} -> nulterminate(cmd.left) \union nulterminate(cmd.right)
      [] cmd.type = "BACK" -> nulterminate(cmd.cmd)

(***************************************************************************)
(* Processes. What a descriptor stands for: the terminal, a file named by  *)
(* a word, or an end of the pipe made for the PIPE node at a place in the  *)
(* tree. `path' is the place of the command that the process runs.         *)
(***************************************************************************)
Closed == <<"closed", <<>>>>
Tty == <<"tty", <<>>>>
ReadEnd(path) == <<"read", path>>
WriteEnd(path) == <<"write", path>>
FileAt(word) == <<"file", <<word>>>>

Process(pc, parent, cmd, path, fd, p) ==
    [pc |-> pc, parent |-> parent, cmd |-> cmd, path |-> path, fd |-> fd, p |-> p]
NoFds == [i \in 0..NFD - 1 |-> Closed]
NoProcess == Process("free", 0, execcmd, <<>>, NoFds, <<0, 0>>)

ShInit ==
    /\ line \in Lines
    /\ proc = [q \in Pids |->
                 IF q # 1 THEN NoProcess
                 ELSE Process("main", 0, execcmd, <<>>,
                              [i \in 0..NFD - 1 |-> IF i < 3 THEN Tty ELSE Closed], <<0, 0>>)]
    /\ failed = FALSE

(* The system calls, as functions from the table of processes to the next. *)
FreeFd(fd) == Min({i \in DOMAIN fd : fd[i] = Closed})
close(fd, i) == [fd EXCEPT ![i] = Closed]
dup(fd, i) == [fd EXCEPT ![FreeFd(fd)] = fd[i]]

exit(pr, q) ==
    [r \in Pids |->
        IF r = q THEN [NoProcess EXCEPT !.pc = "zombie", !.parent = pr[q].parent]
        ELSE IF pr[r].parent = q THEN [pr[r] EXCEPT !.parent = 0] ELSE pr[r]]

FreePids == {r \in Pids : proc[r].pc = "free"}

(* fork1(): the child starts at pc with command cmd and the parent goes on *)
(* at next; or the call fails and the parent panics.                       *)
Fork(q, pc, cmd, path, next) ==
    \/ /\ FreePids # {}
       /\ proc' = [proc EXCEPT ![q].pc = next,
                     ![Min(FreePids)] = Process(pc, q, cmd, path, proc[q].fd, proc[q].p)]
       /\ UNCHANGED <<line, failed>>
    \/ /\ proc' = exit(proc, q)
       /\ failed' = TRUE
       /\ UNCHANGED line

(* wait(0): reap one child, whichever; or there is none.                   *)
Kids(q) == {r \in Pids : proc[r].pc # "free" /\ proc[r].parent = q}

Reaped(q) ==
    IF Kids(q) = {} THEN {proc}
    ELSE {[proc EXCEPT ![r] = NoProcess] : r \in {k \in Kids(q) : proc[k].pc = "zombie"}}

Wait(q, Then(_)) ==
    /\ \E pr \in Reaped(q) : proc' = Then(pr)
    /\ UNCHANGED <<line, failed>>

(***************************************************************************)
(* main: fork a child that parses and runs the line, and wait for it. A    *)
(* blank line is ignored.                                                  *)
(***************************************************************************)
Main(q) ==
    /\ proc[q].pc = "main"
    /\ line # <<>>
    /\ Fork(q, "parse", execcmd, <<>>, "prompt")

MainWait(q) ==
    /\ proc[q].pc = "prompt"
    /\ LET Then(pr) == [pr EXCEPT ![q].pc = "done"]
       IN  Wait(q, Then)

(* The child: a syntax error ends it. *)
Parse(q) ==
    /\ proc[q].pc = "parse"
    /\ \/ \E cmd \in parsecmd(line) :
            proc' = [proc EXCEPT ![q].pc = "run", ![q].cmd = cmd]
       \/ parsecmd(line) = {} /\ proc' = exit(proc, q)
    /\ UNCHANGED <<line, failed>>

(***************************************************************************)
(* runcmd, by the type of the command.                                     *)
(***************************************************************************)
Running(q, type) == proc[q].pc = "run" /\ proc[q].cmd.type = type

RunExec(q) ==
    /\ Running(q, "EXEC")
    /\ \/ /\ proc[q].cmd.argv # <<>>
          /\ proc' = [proc EXCEPT ![q].pc = "program"]
          /\ UNCHANGED failed
       \/ /\ proc' = exit(proc, q)
          /\ failed' = (failed \/ proc[q].cmd.argv # <<>>)
    /\ UNCHANGED line

RunRedir(q) ==
    /\ Running(q, "REDIR")
    /\ LET c  == proc[q].cmd
           fd == close(proc[q].fd, c.fd)
       IN  \/ /\ proc' = [proc EXCEPT ![q].fd = [fd EXCEPT ![FreeFd(fd)] = FileAt(c.file)],
                                      ![q].cmd = c.cmd, ![q].path = Append(@, 1)]
              /\ UNCHANGED failed
           \/ /\ proc' = exit(proc, q)
              /\ failed' = TRUE
    /\ UNCHANGED line

RunList(q) ==
    /\ Running(q, "LIST")
    /\ Fork(q, "run", proc[q].cmd.left, Append(proc[q].path, 1), "listwait")

ListWait(q) ==
    /\ proc[q].pc = "listwait"
    /\ LET Then(pr) == [pr EXCEPT ![q].pc = "run", ![q].cmd = @.right,
                                  ![q].path = Append(@, 2)]
       IN  Wait(q, Then)

RunPipe(q) ==
    /\ Running(q, "PIPE")
    /\ LET p0  == FreeFd(proc[q].fd)
           fd0 == [proc[q].fd EXCEPT ![p0] = ReadEnd(proc[q].path)]
           p1  == FreeFd(fd0)
       IN  \/ /\ proc' = [proc EXCEPT ![q].fd = [fd0 EXCEPT ![p1] = WriteEnd(proc[q].path)],
                                      ![q].p = <<p0, p1>>, ![q].pc = "forkleft"]
              /\ UNCHANGED failed
           \/ /\ proc' = exit(proc, q)
              /\ failed' = TRUE
    /\ UNCHANGED line

ForkLeft(q) ==
    /\ proc[q].pc = "forkleft"
    /\ Fork(q, "left", proc[q].cmd.left, Append(proc[q].path, 1), "forkright")

ForkRight(q) ==
    /\ proc[q].pc = "forkright"
    /\ Fork(q, "right", proc[q].cmd.right, Append(proc[q].path, 2), "closeboth")

(* Mutant: the write end is left open. *)
PlumbLeaky(q, std, end) == close(dup(close(proc[q].fd, std), proc[q].p[end]), proc[q].p[1])

(* The children put their end of the pipe in the place of 1 or 0, and      *)
(* close the two descriptors they inherited.                               *)
Plumb(q, std, end) ==
    close(close(dup(close(proc[q].fd, std), proc[q].p[end]), proc[q].p[1]), proc[q].p[2])

StartLeft(q) ==
    /\ proc[q].pc = "left"
    /\ proc' = [proc EXCEPT ![q].fd = Plumb(q, 1, 2), ![q].pc = "run"]
    /\ UNCHANGED <<line, failed>>

StartRight(q) ==
    /\ proc[q].pc = "right"
    /\ proc' = [proc EXCEPT ![q].fd = Plumb(q, 0, 1), ![q].pc = "run"]
    /\ UNCHANGED <<line, failed>>

(* Mutant: the parent waits with both ends of the pipe open. *)
CloseBothNot(q) ==
    /\ proc[q].pc = "closeboth"
    /\ proc' = [proc EXCEPT ![q].pc = "wait2"]
    /\ UNCHANGED <<line, failed>>

CloseBoth(q) ==
    /\ proc[q].pc = "closeboth"
    /\ proc' = [proc EXCEPT ![q].fd = close(close(@, proc[q].p[1]), proc[q].p[2]),
                            ![q].pc = "wait2"]
    /\ UNCHANGED <<line, failed>>

PipeWait(q) ==
    /\ proc[q].pc \in {"wait2", "wait1"}
    /\ LET Then(pr) == IF proc[q].pc = "wait2" THEN [pr EXCEPT ![q].pc = "wait1"]
                                               ELSE exit(pr, q)
       IN  Wait(q, Then)

RunBack(q) ==
    /\ Running(q, "BACK")
    /\ Fork(q, "run", proc[q].cmd.cmd, Append(proc[q].path, 1), "exit")

Exit(q) ==
    /\ proc[q].pc = "exit"
    /\ proc' = exit(proc, q)
    /\ UNCHANGED <<line, failed>>

(***************************************************************************)
(* Around the shell: a program reads its standard input to the end, which  *)
(* on a pipe comes when nobody has the write end open, and exits; init     *)
(* reaps the processes whose parent has exited.                            *)
(***************************************************************************)
Writers(path) == {r \in Pids : \E i \in DOMAIN proc[r].fd : proc[r].fd[i] = WriteEnd(path)}

ProgramEnds(q) ==
    /\ proc[q].pc = "program"
    /\ LET in == proc[q].fd[0]
       IN  in[1] = "read" => Writers(in[2]) = {}
    /\ proc' = exit(proc, q)
    /\ UNCHANGED <<line, failed>>

InitReaps(q) ==
    /\ proc[q].pc = "zombie"
    /\ proc[q].parent = 0
    /\ q # 1
    /\ proc' = [proc EXCEPT ![q] = NoProcess]
    /\ UNCHANGED <<line, failed>>

Step(q) ==
    \/ Main(q) \/ MainWait(q) \/ Parse(q)
    \/ RunExec(q) \/ RunRedir(q) \/ RunList(q) \/ ListWait(q)
    \/ RunPipe(q) \/ ForkLeft(q) \/ ForkRight(q) \/ StartLeft(q) \/ StartRight(q)
    \/ CloseBoth(q) \/ PipeWait(q) \/ RunBack(q) \/ Exit(q)
    \/ ProgramEnds(q) \/ InitReaps(q)

ShNext == \E q \in Pids : Step(q)

(***************************************************************************)
(* The grammar, by splitting a line at its outermost operators, and not as *)
(* the parser reads it.                                                    *)
(***************************************************************************)
Count(l, i, j, c) == Cardinality({k \in i..j : l[k] = c})

(* Positions of c in i..j that are inside no parentheses opened in i..j. *)
Outermost(l, i, j, c) ==
    {k \in i..j : l[k] = c /\ Count(l, i, k - 1, "(") = Count(l, i, k - 1, ")")}

Redirs(l, i, j) == {k \in i..j : l[k] \in {"<", ">", ">>"}}

(* c with the redirections of i..j around it, the first one innermost. *)
RECURSIVE Wrap(_, _, _, _)
Wrap(l, i, j, c) ==
    IF Redirs(l, i, j) = {} THEN c
    ELSE LET k == Max(Redirs(l, i, j)) IN redircmd(Wrap(l, i, k - 1, c), k + 1, l[k])

(* Every redirection in i..j is followed by a word. *)
Complete(l, i, j) == \A k \in Redirs(l, i, j) : k < j /\ l[k + 1] = "w"

Simple(l, i, j) ==
    LET args == SetToSortSeq({k \in i..j : l[k] = "w" /\ k - 1 \notin Redirs(l, i, j)},
                             LAMBDA a, b : a < b)
    IN  IF /\ \A k \in i..j : l[k] \in {"w", "<", ">", ">>"}
           /\ Complete(l, i, j)
           /\ Len(args) < MAXARGS
        THEN {Wrap(l, i, j, [execcmd EXCEPT !.argv = args])} ELSE {}

RECURSIVE Grammar(_, _, _)

Block(l, i, j) ==
    LET ends == Outermost(l, i + 1, j, ")")
        m    == Min(ends)
    IN  IF /\ ends # {}
           /\ Complete(l, m + 1, j)
           /\ Cardinality(Redirs(l, m + 1, j)) * 2 = j - m
        THEN {Wrap(l, m + 1, j, c) : c \in Grammar(l, i + 1, m - 1)} ELSE {}

RECURSIVE Pipeline(_, _, _)
Pipeline(l, i, j) ==
    LET bars == Outermost(l, i, j, "|")
        k    == IF bars = {} THEN j + 1 ELSE Min(bars)
        head == IF i < k /\ l[i] = "(" THEN Block(l, i, k - 1) ELSE Simple(l, i, k - 1)
    IN  IF bars = {} THEN head
        ELSE {pipecmd(a, b) : a \in head, b \in Pipeline(l, k + 1, j)}

RECURSIVE Backgrounds(_, _, _)
Backgrounds(l, i, j) ==
    IF i <= j /\ l[j] = "&" THEN {backcmd(c) : c \in Backgrounds(l, i, j - 1)}
    ELSE IF Outermost(l, i, j, "&") # {} THEN {} ELSE Pipeline(l, i, j)

Grammar(l, i, j) ==
    LET semis == Outermost(l, i, j, ";")
        k     == Min(semis)
    IN  IF semis = {} THEN Backgrounds(l, i, j)
        ELSE {listcmd(a, b) : a \in Backgrounds(l, i, k - 1), b \in Grammar(l, k + 1, j)}

(***************************************************************************)
(* The properties.                                                         *)
(***************************************************************************)
(* The parser accepts exactly the lines of the grammar and gives them the  *)
(* tree of the grammar: ; and | group to the right, & binds to the whole   *)
(* pipeline before it, redirections go around their command; and every     *)
(* word of a line it accepts is terminated before the tree is used.        *)
ParserRight ==
    proc[1].pc = "main" =>
        /\ parsecmd(line) = Grammar(line, 1, Len(line))
        /\ \A c \in parsecmd(line) :
             nulterminate(c) = {i \in DOMAIN line : line[i] = "w"}

(* The programs that a command at `path' runs, with their standard input   *)
(* and output.                                                             *)
RECURSIVE Plan(_, _, _, _)
Plan(cmd, path, in, out) ==
    LET at1 == Append(path, 1)
        at2 == Append(path, 2)
    IN  CASE cmd.type = "EXEC" -> {<<path, cmd.argv, in, out>>}
          [] cmd.type = "REDIR" /\ cmd.fd = 0 -> Plan(cmd.cmd, at1, FileAt(cmd.file), out)
          [] cmd.type = "REDIR" /\ cmd.fd = 1 -> Plan(cmd.cmd, at1, in, FileAt(cmd.file))
          [] cmd.type = "PIPE" -> Plan(cmd.left, at1, in, WriteEnd(path))
                                    \union Plan(cmd.right, at2, ReadEnd(path), out)
          [] cmd.type = "LIST" -> Plan(cmd.left, at1, in, out)
                                    \union Plan(cmd.right, at2, in, out)
          [] cmd.type = "BACK" -> Plan(cmd.cmd, at1, in, out)

(* Every program of a line is started with the input and the output that   *)
(* the line gives it, and with no other descriptor but standard error: no  *)
(* end of a pipe leaks into a program that is not its reader or writer.    *)
Plumbed ==
    \A q \in Pids : proc[q].pc = "program" =>
        LET fd == proc[q].fd
        IN  /\ \E cmd \in parsecmd(line) :
                 <<proc[q].path, proc[q].cmd.argv, fd[0], fd[1]>> \in Plan(cmd, <<>>, Tty, Tty)
            /\ fd[2] = Tty
            /\ \A i \in 3..NFD - 1 : fd[i] = Closed

(* The command at a path of the tree. *)
RECURSIVE Subcommand(_, _)
Subcommand(cmd, path) ==
    IF path = <<>> THEN cmd
    ELSE Subcommand(CASE cmd.type \in {"PIPE", "LIST"} ->
                           IF Head(path) = 1 THEN cmd.left ELSE cmd.right
                      [] OTHER -> cmd.cmd, Tail(path))

(* In a list, nothing of the right-hand side runs while a part of the      *)
(* left-hand side does, unless that part is in the background or a call    *)
(* has failed: the shell waits for a whole pipeline, not for its first     *)
(* process only.                                                           *)
ListInOrder ==
    failed \/ \A q, r \in Pids :
        (proc[q].pc = "program" /\ proc[r].pc = "program") =>
            \A i \in 1..Len(proc[q].path) :
                \/ i > Len(proc[r].path)
                \/ SubSeq(proc[q].path, 1, i - 1) # SubSeq(proc[r].path, 1, i - 1)
                \/ ~(proc[q].path[i] = 1 /\ proc[r].path[i] = 2)
                \/ \E cmd \in parsecmd(line) :
                     \/ Subcommand(cmd, SubSeq(proc[q].path, 1, i - 1)).type # "LIST"
                     \/ \E j \in i..Len(proc[q].path) - 1 :
                          Subcommand(cmd, SubSeq(proc[q].path, 1, j)).type = "BACK"

(* A line runs as it is written: every program with its own input and      *)
(* output, and in its turn.                                                *)
RunsAsWritten == Plumbed /\ ListInOrder

(* The shell comes back to its prompt, or is ended by a fork that failed,  *)
(* whatever the line: every program sees the end of its input, because all *)
(* copies of the write end of a pipe are closed in time.                   *)
PromptReturns == (line # <<>>) ~> (proc[1].pc \in {"done", "zombie"})
=============================================================================
