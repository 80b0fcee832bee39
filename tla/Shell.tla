--------------------------------- MODULE Shell --------------------------------
(***************************************************************************)
(* The shell of HW_Shell/sh.c: the parser from tokens to a command, and    *)
(* runcmd as processes with file descriptors, pipes and files.             *)
(*                                                                         *)
(* The programs a command line may name are reduced to what they do with   *)
(* their descriptors: "gen" writes two items and exits, "cat" copies 0 to  *)
(* 1 until the end of file, "head" copies one item, "none" does not exist. *)
(***************************************************************************)
EXTENDS Integers, FiniteSets, Sequences, SequencesExt

CONSTANTS
  Lines,      \* the command lines, sequences of tokens, one to a behaviour
  MAXARGS,
  Capacity,   \* items that fit in a pipe
  MaxFailed   \* bound: how many calls of fork fail

Programs == {"gen", "cat", "head"}
Files == {"f", "g"}
Symbols == {"<", ">", "|"}

VARIABLES
  input,    \* the command line
  shell,    \* main: "read", "wait" or "done"
  proc,     \* the processes, see Process
  pipes,    \* what is in each pipe that was made
  files,    \* the contents of the files; missing files have none
  typed,    \* what the terminal shows: history
  failures  \* history: how many forks failed

vars == <<input, shell, proc, pipes, files, typed, failures>>

-----------------------------------------------------------------------------
(* Parser: a position ps in the tokens of a line *)

Error == [type |-> "error"]
IsWord(t) == t \notin Symbols

At(l, ps) == IF ps > Len(l) THEN "" ELSE l[ps]

\* execcmd, redircmd and pipecmd.
Exec == [type |-> " ", argv |-> <<>>]
Redir(type, cmd, file) == [type |-> type, cmd |-> cmd, file |-> file]
Pipe(left, right) == [type |-> "|", left |-> left, right |-> right]

\* parseredirs: wraps the command, the last redirection outermost.
RECURSIVE Parseredirs(_, _, _)
Parseredirs(l, cmd, ps) ==
  IF cmd = Error \/ At(l, ps) \notin {"<", ">"} THEN [cmd |-> cmd, ps |-> ps]
  ELSE IF At(l, ps + 1) = "" \/ ~IsWord(At(l, ps + 1)) THEN [cmd |-> Error, ps |-> ps]
  ELSE Parseredirs(l, Redir(l[ps], cmd, l[ps + 1]), ps + 2)

\* The redirections around a command, with the innermost argv replaced.
RECURSIVE WithArgv(_, _)
WithArgv(cmd, argv) ==
  IF cmd.type = " " THEN [cmd EXCEPT !.argv = argv]
  ELSE [cmd EXCEPT !.cmd = WithArgv(@, argv)]

\* The loop of parseexec: the words so far are argv.
RECURSIVE Parseargs(_, _, _, _)
Parseargs(l, ret, argv, ps) ==
  IF ret = Error THEN [cmd |-> Error, ps |-> ps]
  ELSE IF At(l, ps) \in {"", "|"} THEN [cmd |-> WithArgv(ret, argv), ps |-> ps]
  ELSE IF ~IsWord(l[ps]) \/ Len(argv) + 1 >= MAXARGS THEN [cmd |-> Error, ps |-> ps]
  ELSE LET r == Parseredirs(l, ret, ps + 1) IN Parseargs(l, r.cmd, Append(argv, l[ps]), r.ps)

Parseexec(l, ps) ==
  LET r == Parseredirs(l, Exec, ps) IN Parseargs(l, r.cmd, <<>>, r.ps)

RECURSIVE Parsepipe(_, _)
Parsepipe(l, ps) ==
  LET left == Parseexec(l, ps) IN
  IF left.cmd = Error \/ At(l, left.ps) # "|" THEN left
  ELSE LET right == Parsepipe(l, left.ps + 1) IN
       [cmd |-> IF right.cmd = Error THEN Error ELSE Pipe(left.cmd, right.cmd),
        ps |-> right.ps]

\* parsecmd: what is left over is an error.
Parsecmd(l) == LET r == Parsepipe(l, 1) IN IF r.ps <= Len(l) THEN Error ELSE r.cmd

-----------------------------------------------------------------------------
(* Processes: the command still to be run, where it is in it, what it has  *)
(* read and not written, and its descriptors.                              *)

\* What a descriptor refers to.
Tty == <<"tty">>
ReadEnd(i) == <<"r", i>>
WriteEnd(i) == <<"w", i>>
Closed == <<>>

Fds == 0 .. 6
Pids == DOMAIN proc

\* The end of the program's input was seen, or its output closed: exit.
Exit(p) == [p EXCEPT !.at = "exited", !.fd = [f \in Fds |-> Closed]]

\* open, dup: the lowest free descriptor.
Lowest(fd) == CHOOSE f \in Fds : fd[f] = Closed /\ \A g \in 0 .. f - 1 : fd[g] # Closed

Dup(fd, x) == [fd EXCEPT ![Lowest(fd)] = x]

Fork(cmd, fd) == [at |-> "runcmd", cmd |-> cmd, fd |-> fd, has |-> <<>>, left |-> 0]

Init ==
  /\ input \in Lines
  /\ shell = "read" /\ proc = <<>> /\ pipes = <<>>
  /\ files = [f \in Files |-> IF f = "f" THEN <<1, 2>> ELSE <<>>]
  /\ typed = <<>> /\ failures = 0

\* fork1 may fail; the shell goes on as if it were the parent.
ForkFails == failures < MaxFailed /\ failures' = failures + 1
ForkWorks == UNCHANGED failures

\* main: if(fork1() == 0) runcmd(parsecmd(buf)).
Main ==
  /\ shell = "read" /\ shell' = "wait"
  /\ \/ ForkWorks /\ proc' = <<Fork(Parsecmd(input), [f \in Fds |-> IF f < 3 THEN Tty ELSE Closed])>>
     \/ ForkFails /\ UNCHANGED proc
  /\ UNCHANGED <<input, pipes, files, typed>>

\* wait(&r) returns when the only child has exited, or there is none.
Wait ==
  /\ shell = "wait" /\ (\A pid \in {1} \cap Pids : proc[pid].at = "exited")
  /\ shell' = "done"
  /\ UNCHANGED <<input, proc, pipes, files, typed, failures>>

\* The process is about to run a command of a type.
Is(pid, type) == proc[pid].at = "runcmd" /\ proc[pid].cmd.type = type

Quit(pid) == proc' = [proc EXCEPT ![pid] = Exit(@)]

\* access() finds the program, as it is or in one of binPath.
Found(argv) == Len(argv) > 0 /\ argv[1] \in Programs

\* A parse error, an empty command, a program that is not found.
RunNothing(pid) ==
  /\ Is(pid, "error") \/ (Is(pid, " ") /\ ~Found(proc[pid].cmd.argv))
  /\ Quit(pid)
  /\ UNCHANGED <<input, shell, pipes, files, typed, failures>>

\* execv keeps the descriptors.
RunExec(pid) ==
  /\ Is(pid, " ") /\ Found(proc[pid].cmd.argv)
  /\ LET prog == proc[pid].cmd.argv[1] IN
     proc' = [proc EXCEPT ![pid].at = prog,
                          ![pid].has = IF prog = "gen" THEN <<1, 2>> ELSE <<>>,
                          ![pid].left = IF prog = "head" THEN 1 ELSE 9]
  /\ UNCHANGED <<input, shell, pipes, files, typed, failures>>

\* close(rcmd->fd) and open, which truncates an output file; exit if there is
\* no such input file.
RunRedir(pid) ==
  LET cmd == proc[pid].cmd
      n == IF cmd.type = "<" THEN 0 ELSE 1
      closed == [proc[pid].fd EXCEPT ![n] = Closed] IN
  /\ Is(pid, "<") \/ Is(pid, ">")
  /\ IF cmd.type = "<" /\ cmd.file # "f"
     THEN Quit(pid) /\ UNCHANGED files
     ELSE /\ files' = IF cmd.type = ">" THEN [files EXCEPT ![cmd.file] = <<>>] ELSE files
          /\ proc' = [proc EXCEPT ![pid].cmd = cmd.cmd,
                                  ![pid].fd = Dup(closed, <<cmd.type, cmd.file, pid>>)]
  /\ UNCHANGED <<input, shell, pipes, typed, failures>>

\* Mutant of PipeEnd: p[1] is not closed.
Mut_PipeEnd(fd, n, x) ==
  LET dup == Dup([fd EXCEPT ![n] = Closed], x)
      p == Len(pipes) + 1 IN
  [f \in Fds |-> IF f > 2 /\ dup[f] = ReadEnd(p) THEN Closed ELSE dup[f]]

\* close(n); dup(x); close(p[0]); close(p[1]).
PipeEnd(fd, n, x) ==
  LET dup == Dup([fd EXCEPT ![n] = Closed], x)
      p == Len(pipes) + 1 IN
  [f \in Fds |-> IF f > 2 /\ dup[f] \in {ReadEnd(p), WriteEnd(p)} THEN Closed ELSE dup[f]]

\* pipe(p); a child runs the left side and the caller becomes the right one.
RunPipe(pid) ==
  LET p == Len(pipes) + 1
      fd == Dup(Dup(proc[pid].fd, ReadEnd(p)), WriteEnd(p))
      right == [proc EXCEPT ![pid].cmd = @.right, ![pid].fd = PipeEnd(fd, 0, ReadEnd(p))] IN
  /\ Is(pid, "|")
  /\ pipes' = Append(pipes, <<>>)
  /\ \/ ForkWorks /\ proc' = Append(right, Fork(proc[pid].cmd.left, PipeEnd(fd, 1, WriteEnd(p))))
     \/ ForkFails /\ proc' = right
  /\ UNCHANGED <<input, shell, files, typed>>

-----------------------------------------------------------------------------
(* Programs *)

Holds(q, x) == \E f \in Fds : proc[q].fd[f] = x
SomeHold(x) == \E q \in Pids : Holds(q, x)

\* Take an item from a pipe, from the rest of a file; the terminal is at its end.
Read(pid) ==
  LET in == proc[pid].fd[0] IN
  /\ proc[pid].at \in {"cat", "head"} /\ proc[pid].has = <<>> /\ proc[pid].left > 0
  /\ \/ /\ in[1] = "r" /\ pipes[in[2]] # <<>>
        /\ proc' = [proc EXCEPT ![pid].has = <<Head(pipes[in[2]])>>, ![pid].left = @ - 1]
        /\ pipes' = [pipes EXCEPT ![in[2]] = Tail(@)]
     \/ /\ in[1] = "r" /\ pipes[in[2]] = <<>> /\ ~SomeHold(WriteEnd(in[2]))
        /\ Quit(pid) /\ UNCHANGED pipes
     \/ /\ in[1] = "<"                      \* left counts the reads
        /\ LET k == (IF proc[pid].at = "head" THEN 1 ELSE 9) - proc[pid].left + 1 IN
           IF k > Len(files[in[2]]) THEN Quit(pid)
           ELSE proc' = [proc EXCEPT ![pid].has = <<files[in[2]][k]>>, ![pid].left = @ - 1]
        /\ UNCHANGED pipes
     \/ in = Tty /\ Quit(pid) /\ UNCHANGED pipes
  /\ UNCHANGED <<input, shell, files, typed, failures>>

\* Write an item; SIGPIPE kills a writer when nobody reads.
Write(pid) ==
  LET out == proc[pid].fd[1]
      done == [proc EXCEPT ![pid].has = Tail(@)] IN
  /\ proc[pid].at \in {"gen", "cat", "head"} /\ proc[pid].has # <<>>
  /\ \/ /\ out[1] = "w" /\ ~SomeHold(ReadEnd(out[2]))
        /\ Quit(pid) /\ UNCHANGED <<pipes, files, typed>>
     \/ /\ out[1] = "w" /\ SomeHold(ReadEnd(out[2])) /\ Len(pipes[out[2]]) < Capacity
        /\ pipes' = [pipes EXCEPT ![out[2]] = Append(@, Head(proc[pid].has))]
        /\ proc' = done /\ UNCHANGED <<files, typed>>
     \/ /\ out[1] = ">"
        /\ files' = [files EXCEPT ![out[2]] = Append(@, Head(proc[pid].has))]
        /\ proc' = done /\ UNCHANGED <<pipes, typed>>
     \/ /\ out = Tty /\ typed' = Append(typed, Head(proc[pid].has))
        /\ proc' = done /\ UNCHANGED <<pipes, files>>
  /\ UNCHANGED <<input, shell, failures>>

Finish(pid) ==
  /\ proc[pid].has = <<>>
  /\ proc[pid].at = "gen" \/ (proc[pid].at \in {"cat", "head"} /\ proc[pid].left = 0)
  /\ Quit(pid)
  /\ UNCHANGED <<input, shell, pipes, files, typed, failures>>

Next ==
  \/ Main \/ Wait
  \/ \E pid \in Pids :
       \/ RunNothing(pid) \/ RunExec(pid) \/ RunRedir(pid) \/ RunPipe(pid)
       \/ Read(pid) \/ Write(pid) \/ Finish(pid)

Spec == Init /\ [][Next]_vars

-----------------------------------------------------------------------------
(* Properties *)

Running(pid) == proc[pid].at \in Programs

\* Every program starts with the three standard descriptors and nothing else:
\* no end of a pipe leaks into it (sh.c:106).
CleanDescriptors ==
  \A pid \in Pids : Running(pid) => \A f \in Fds : (proc[pid].fd[f] # Closed) = (f < 3)

\* Whatever is on the line, and whichever fork fails, no process hangs: every
\* reader sees the end of its file, every writer gets rid of its data or is
\* killed, and the shell reads the next line.
NobodyHangs ==
  shell # "read" /\ ~ENABLED Next => shell = "done" /\ \A pid \in Pids : proc[pid].at = "exited"

\* The stages of a line: the tokens between two bars, and whether they are the
\* first, the last.
Stages ==
  LET bars == {i \in DOMAIN input : input[i] = "|"} \cup {0, Len(input) + 1}
      next == {x \in bars \X bars : x[1] < x[2] /\ \A k \in bars : ~(x[1] < k /\ k < x[2])} IN
  {[tokens |-> SubSeq(input, x[1] + 1, x[2] - 1),
    first |-> x[1] = 0, last |-> x[2] = Len(input) + 1] : x \in next}

Redirect(s, type) == {i \in DOMAIN s : i > 1 /\ s[i - 1] = type}
Words(s) == {i \in DOMAIN s : IsWord(s[i]) /\ i \notin Redirect(s, "<") \cup Redirect(s, ">")}

\* What a stage should do, written down without the parser: the first word is
\* the program, and of several redirections of one kind the first one counts
\* (parseredirs wraps them the other way round than they are run).
Expected(s) ==
  [prog |-> s[CHOOSE i \in Words(s) : \A j \in Words(s) : i <= j],
   in |-> IF Redirect(s, "<") = {} THEN "" ELSE s[CHOOSE i \in Redirect(s, "<") : \A j \in Redirect(s, "<") : i <= j],
   out |-> IF Redirect(s, ">") = {} THEN "" ELSE s[CHOOSE i \in Redirect(s, ">") : \A j \in Redirect(s, ">") : i <= j]]

\* Each program that runs is a stage of the line, with the files it names, and
\* otherwise the terminal at the ends of the line and pipes in between.
RunsWhatWasTyped ==
  \A pid \in Pids : Running(pid) =>
    \E s \in Stages :
      LET e == Expected(s.tokens)
          fd == proc[pid].fd IN
      /\ Words(s.tokens) # {} /\ e.prog = proc[pid].at
      /\ IF e.in # "" THEN fd[0] = <<"<", e.in, pid>>
         ELSE IF s.first THEN fd[0] = Tty ELSE fd[0][1] = "r"
      /\ IF e.out # "" THEN fd[1] = <<">", e.out, pid>>
         ELSE IF s.last THEN fd[1] = Tty ELSE fd[1][1] = "w"
==============================================================================
