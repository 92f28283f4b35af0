------------------------------- MODULE GitCalls -------------------------------
(***************************************************************************)
(* Calls of git by split2mono (call_git.h, read_all.h).                    *)
(* A call makes one pipe for git's output and, when it has input, another  *)
(* for that; spawns git; closes git's ends; writes all the input and       *)
(* closes; reads until the end of the output; and waits for git.  The end  *)
(* of a pipe's data is seen only when the last copy of its writing end is  *)
(* closed.                                                                 *)
(*                                                                         *)
(* The program calls git from one thread, as the worker of commit_source.h *)
(* is never started.  Nothing in call_git.h forbids more, so the threads   *)
(* are a constant; no end of a pipe is closed on exec, and a git that one  *)
(* thread spawns keeps a copy of every end that another one holds.         *)
(*                                                                         *)
(* Data is counted in units; a pipe has room for Capacity of them.  git    *)
(* itself is modelled from the commands in use: mktree and commit-tree -F -*)
(* read all of their input before they print a name, the others have no    *)
(* input, and any git may die at any point.                                *)
(***************************************************************************)
EXTENDS Naturals

CONSTANTS
  Thread,         \* those that call git: the main thread, in the program
  Input,          \* Input[t]: the units of input of the calls of thread t
  Output,         \* the units git prints
  Capacity,       \* the units a pipe has room for
  MaxCalls,       \* bound: calls of each thread
  Interruptible,  \* the system calls a signal interrupts
  MaxInterrupts,  \* bound: interrupts of one call, fewer than the loops allow
  MaxDeaths       \* bound: gits that die

\* What the constants must be.
CallsAssumption ==
  /\ Input \in [Thread -> Nat]
  /\ Output \in Nat \ {0} /\ Capacity \in Nat \ {0}
  /\ MaxCalls \in Nat /\ MaxDeaths \in Nat
  /\ Interruptible \subseteq {"write", "read", "wait"}
  /\ MaxInterrupts \in Nat

VARIABLES
  call,    \* call[t]: the call thread t is in
  mine,    \* the ends of pipes that the process has open
  git,     \* git[t]: the child that thread t spawned
  pipe,    \* pipe[t]: the units in the pipes of t's call
  deaths

vars == <<call, mine, git, pipe, deaths>>

\* The ends of the pipes of thread t.
FromR(t) == <<t, "from", "r">>
FromW(t) == <<t, "from", "w">>
ToR(t) == <<t, "to", "r">>
ToW(t) == <<t, "to", "w">>
Ends(t) == {FromR(t), FromW(t), ToR(t), ToW(t)}

NoCall == [at |-> "idle", n |-> 0, left |-> 0, reply |-> 0, junk |-> FALSE,
           result |-> "none", interrupts |-> 0]
NoGit == [at |-> "none", ends |-> {}, left |-> 0, ok |-> TRUE]

Init ==
  /\ call = [t \in Thread |-> NoCall]
  /\ mine = {}
  /\ git = [t \in Thread |-> NoGit]
  /\ pipe = [t \in Thread |-> [from |-> 0, to |-> 0]]
  /\ deaths = 0

\* The process was killed by SIGPIPE.
Killed == \E t \in Thread : call[t].at = "killed"
At(t, pc) == ~Killed /\ call[t].at = pc
Goto(t, pc) == call' = [call EXCEPT ![t].at = pc]
NeedsToWrite(t) == Input[t] > 0

\* Who has a copy of an end: the process, and the gits that run.
Held(end) == end \in mine \/ \E u \in Thread : end \in git[u].ends

(***************************************************************************)
(* call_git_impl: the pipes, the spawn, and git's ends.                    *)
(***************************************************************************)
\* The copies of the ends of the thread's last call are of no effect now.
Pipe(t) ==
  /\ At(t, "idle") /\ call[t].n < MaxCalls
  /\ call' = [call EXCEPT ![t] = [NoCall EXCEPT !.n = call[t].n + 1,
                !.left = Input[t],
                !.at = IF NeedsToWrite(t) THEN "pipe" ELSE "spawn"]]
  /\ mine' = (mine \ Ends(t)) \cup {FromR(t), FromW(t)}
  /\ git' = [u \in Thread |-> IF u = t THEN NoGit
                              ELSE [git[u] EXCEPT !.ends = @ \ Ends(t)]]
  /\ pipe' = [pipe EXCEPT ![t] = [from |-> 0, to |-> 0]]
  /\ UNCHANGED deaths

PipeTo(t) ==
  /\ At(t, "pipe")
  /\ mine' = mine \cup {ToR(t), ToW(t)}
  /\ Goto(t, "spawn")
  /\ UNCHANGED <<git, pipe, deaths>>

\* git inherits every end that is open, but for the two that it closes.
Spawn(t) ==
  /\ At(t, "spawn")
  /\ git' = [git EXCEPT ![t] =
       [at |-> IF NeedsToWrite(t) THEN "reads" ELSE "writes",
        ends |-> mine \ {FromR(t), ToW(t)}, left |-> Output, ok |-> TRUE]]
  /\ Goto(t, "close")
  /\ UNCHANGED <<mine, pipe, deaths>>

\* A mutant of Close: the writing end of git's output stays open.
CloseInputOnly(t) ==
  /\ At(t, "close")
  /\ mine' = mine \ {ToR(t)}
  /\ Goto(t, IF NeedsToWrite(t) THEN "write" ELSE "read")
  /\ UNCHANGED <<git, pipe, deaths>>

Close(t) ==
  /\ At(t, "close")
  /\ mine' = mine \ {FromW(t), ToR(t)}
  /\ Goto(t, IF NeedsToWrite(t) THEN "write" ELSE "read")
  /\ UNCHANGED <<git, pipe, deaths>>

(***************************************************************************)
(* write_all and close.                                                    *)
(***************************************************************************)
Write(t) ==
  /\ At(t, "write") /\ call[t].left > 0
  /\ Held(ToR(t)) /\ pipe[t].to < Capacity
  /\ pipe' = [pipe EXCEPT ![t].to = @ + 1]
  /\ call' = [call EXCEPT ![t].left = @ - 1]
  /\ UNCHANGED <<mine, git, deaths>>

\* Nobody is left to read what is written.
BrokenPipe(t) ==
  /\ At(t, "write") /\ call[t].left > 0
  /\ ~Held(ToR(t))
  /\ Goto(t, "killed")
  /\ UNCHANGED <<mine, git, pipe, deaths>>

CloseTo(t) ==
  /\ At(t, "write") /\ call[t].left = 0
  /\ mine' = mine \ {ToW(t)}
  /\ Goto(t, "read")
  /\ UNCHANGED <<git, pipe, deaths>>

(***************************************************************************)
(* read_all, close and wait4.                                              *)
(***************************************************************************)
Read(t) ==
  /\ At(t, "read") /\ pipe[t].from > 0
  /\ pipe' = [pipe EXCEPT ![t].from = @ - 1]
  /\ call' = [call EXCEPT ![t].reply = @ + 1]
  /\ UNCHANGED <<mine, git, deaths>>

\* A mutant of ReadEnd: an empty pipe is taken for the end.
ReadEmpty(t) ==
  /\ At(t, "read") /\ pipe[t].from = 0
  /\ mine' = mine \ {FromR(t)}
  /\ Goto(t, "wait")
  /\ UNCHANGED <<git, pipe, deaths>>

\* read returns 0.
ReadEnd(t) ==
  /\ At(t, "read") /\ pipe[t].from = 0 /\ ~Held(FromW(t))
  /\ mine' = mine \ {FromR(t)}
  /\ Goto(t, "wait")
  /\ UNCHANGED <<git, pipe, deaths>>

Wait(t) ==
  /\ At(t, "wait") /\ git[t].at = "ended"
  /\ call' = [call EXCEPT ![t].at = "idle", ![t].interrupts = 0,
                 ![t].result = IF git[t].ok THEN "reply" ELSE "error"]
  /\ UNCHANGED <<mine, git, pipe, deaths>>

\* A signal: the call is made again.  read_all has grown its buffer by a
\* chunk by then, and grows it by another one for the next attempt.
Interrupt(t) ==
  /\ \E pc \in Interruptible : At(t, pc)
  /\ call[t].interrupts < MaxInterrupts
  /\ call' = [call EXCEPT ![t].interrupts = @ + 1,
                          ![t].junk = @ \/ call[t].at = "read"]
  /\ UNCHANGED <<mine, git, pipe, deaths>>

(***************************************************************************)
(* git.                                                                    *)
(***************************************************************************)
GitReads(t) ==
  /\ git[t].at = "reads" /\ pipe[t].to > 0
  /\ pipe' = [pipe EXCEPT ![t].to = @ - 1]
  /\ UNCHANGED <<call, mine, git, deaths>>

GitReadsEnd(t) ==
  /\ git[t].at = "reads" /\ pipe[t].to = 0 /\ ~Held(ToW(t))
  /\ git' = [git EXCEPT ![t].at = "writes"]
  /\ UNCHANGED <<call, mine, pipe, deaths>>

GitWrites(t) ==
  /\ git[t].at = "writes" /\ git[t].left > 0 /\ pipe[t].from < Capacity
  /\ pipe' = [pipe EXCEPT ![t].from = @ + 1]
  /\ git' = [git EXCEPT ![t].left = @ - 1]
  /\ UNCHANGED <<call, mine, deaths>>

GitExits(t) ==
  /\ git[t].at = "writes" /\ git[t].left = 0
  /\ git' = [git EXCEPT ![t].at = "ended", ![t].ends = {}]
  /\ UNCHANGED <<call, mine, pipe, deaths>>

\* git exits with an error, or is killed.
GitDies(t) ==
  /\ git[t].at \in {"reads", "writes"} /\ deaths < MaxDeaths
  /\ deaths' = deaths + 1
  /\ git' = [git EXCEPT ![t].at = "ended", ![t].ends = {}, ![t].ok = FALSE]
  /\ UNCHANGED <<call, mine, pipe>>

Step(t) ==
  \/ Pipe(t) \/ PipeTo(t) \/ Spawn(t) \/ Close(t)
  \/ Write(t) \/ BrokenPipe(t) \/ CloseTo(t)
  \/ Read(t) \/ ReadEnd(t) \/ Wait(t)

GitStep(t) == GitReads(t) \/ GitReadsEnd(t) \/ GitWrites(t) \/ GitExits(t)

Next ==
  \E t \in Thread :
    Step(t) \/ GitStep(t) \/ GitDies(t) \/ Interrupt(t)

\* The threads and the gits run on unless they are blocked.
Fairness == \A t \in Thread : WF_vars(Step(t)) /\ WF_vars(GitStep(t))

Spec == Init /\ [][Next]_vars /\ Fairness

-----------------------------------------------------------------------------
AllEnds == UNION {Ends(t) : t \in Thread}
Calls == {"idle", "pipe", "spawn", "close", "write", "read", "wait", "killed"}

IsCall(t, c) ==
  /\ DOMAIN c = DOMAIN NoCall
  /\ c.at \in Calls /\ c.n \in 0 .. MaxCalls
  /\ c.left \in 0 .. Input[t] /\ c.reply \in Nat
  /\ c.junk \in BOOLEAN /\ c.interrupts \in 0 .. MaxInterrupts
  /\ c.result \in {"none", "reply", "error"}

IsGit(g) ==
  /\ DOMAIN g = DOMAIN NoGit
  /\ g.at \in {"none", "reads", "writes", "ended"}
  /\ g.ends \subseteq AllEnds
  /\ g.left \in 0 .. Output /\ g.ok \in BOOLEAN

\* The types of the variables.
TypeOK ==
  /\ DOMAIN call = Thread /\ DOMAIN git = Thread
  /\ \A t \in Thread : IsCall(t, call[t]) /\ IsGit(git[t])
  /\ mine \subseteq AllEnds
  /\ pipe \in [Thread -> [from : 0 .. Capacity, to : 0 .. Capacity]]
  /\ deaths \in 0 .. MaxDeaths

\* A call that succeeds returns what git printed, all of it and nothing else,
\* whatever was spawned meanwhile and however often it was interrupted.
ReplyIsOutput ==
  \A t \in Thread : call[t].result = "reply" =>
    call[t].reply = Output /\ ~call[t].junk

\* No call waits for ever: neither for a git that waits for the end of an
\* input that another git keeps open, nor for the end of such an output.
EveryCallReturns ==
  \A t \in Thread : ~At(t, "idle") ~> At(t, "idle") \/ Killed
=============================================================================
