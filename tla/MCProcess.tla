----------------------------- MODULE MCProcess -----------------------------
(***************************************************************************)
(* What processes own and what they do with it: their memory in the kernel *)
(* (Memory), their open files (FileTable), the heap of a program (Heap),   *)
(* and the shell, which makes processes and joins them by pipes (Shell).   *)
(* The four share no variable, so that a behaviour of all of them is one   *)
(* of each, and TLC explores each with the others at rest.                 *)
(***************************************************************************)
EXTENDS Memory

(***************************************************************************)
(* Two processes, and too few pages for both to be large and one to exec.  *)
(* The first execs a program with data and bss whose segments are out of   *)
(* order, so that uvmalloc has nothing to do for the second, the other one *)
(* of one page of text.                                                    *)
(***************************************************************************)
MCSbrkSizes == {5, -5}
Text == [vaddr |-> 0, memsz |-> 1, filesz |-> 1, perm |-> {"X"}]
Data == [vaddr |-> 0, memsz |-> 3, filesz |-> 1, perm |-> {"W"}]
MCPrograms == [p \in Procs |-> {IF p = First THEN <<Data, Text>> ELSE <<Text>>}]

CONSTANTS NFILE, NOFILE, PipePages, NALLOC, HeapEnd, Requests, Pids, MAXARGS, NFD

VARIABLES part, file, ofile, pipe, iref, at, badfile,
          ptr, size, freep, brk, given, obtained, line, proc, failed

filevars == <<file, ofile, pipe, iref, at, badfile>>
heapvars == <<ptr, size, freep, brk, given, obtained>>
shvars == <<line, proc, failed>>

(* Every line of up to three lexemes (">>" is parsed as ">" is, with another *)
(* mode), and longer ones that combine pipes, lists, blocks, background     *)
(* commands and redirections.                                               *)
Lexemes == {"w", "<", ">", "|", "&", ";", "(", ")"}
MCLines ==
    UNION {[1..n -> Lexemes] : n \in 0..3} \union
    {<<"w", "|", "w", "|", "w">>, <<"w", "|", "w", ";", "w">>,
     <<"(", "w", ";", "w", ")", "|", "w">>, <<"(", "w", "|", "w", ")", "<", "w">>,
     <<"w", "|", "w", "&", ";", "w">>, <<"w", "&", ";", "w", "|", "w">>,
     <<"w", "<", "w", "|", "w", ">", "w", ">>", "w">>}

F == INSTANCE FileTable
H == INSTANCE Heap
S == INSTANCE Shell WITH Lines <- MCLines

MCInit ==
    /\ part \in {"memory", "files", "heap", "shell"}
    /\ Init /\ F!FTInit /\ H!HeapInit /\ S!ShInit
    /\ part # "shell" => line = <<>>

ShellStep(q) ==
    /\ part = "shell"
    /\ S!Step(q)
    /\ UNCHANGED <<part, vars, filevars, heapvars>>

MCNext ==
    \/ part = "memory" /\ Next /\ UNCHANGED <<part, filevars, heapvars, shvars>>
    \/ part = "files" /\ F!FTNext /\ UNCHANGED <<part, vars, heapvars, shvars>>
    \/ part = "heap" /\ H!HeapNext /\ UNCHANGED <<part, vars, filevars, shvars>>
    \/ \E q \in Pids : ShellStep(q)

(* The scheduler runs every process; programs are assumed to read their    *)
(* input to its end and to exit.                                           *)
MCSpec ==
    /\ MCInit
    /\ [][MCNext]_<<part, vars, filevars, heapvars, shvars>>
    /\ \A q \in Pids : WF_shvars(ShellStep(q))

(***************************************************************************)
(* The properties of FileTable, Heap and Shell, where they are not at      *)
(* rest.                                                                   *)
(***************************************************************************)
(* ref of a file entry is the number of pointers to it, pipeclose() runs   *)
(* once for each end of a pipe, and every reference to an inode is put     *)
(* once, on the error paths of open and pipe too.                          *)
OpenFilesCounted == part = "files" => F!OpenFilesCounted

(* The free list and the blocks that malloc() handed out partition the     *)
(* memory obtained with sbrk(), and free() merges neighbours.              *)
HeapSound == part = "heap" => H!HeapSound

(* parsecmd() accepts the lines of the grammar, builds their tree and      *)
(* terminates all of their words.                                          *)
ParserRight == part = "shell" => S!ParserRight

(* runcmd() starts every program with the right input and output and no    *)
(* other end of a pipe, and what follows a ; when what precedes it ended.  *)
RunsAsWritten == part = "shell" => S!RunsAsWritten

(* The shell gets back to its prompt: no program waits for ever for the    *)
(* end of its input.                                                       *)
PromptReturns == S!PromptReturns
=============================================================================
