------------------------------- MODULE Daemon -------------------------------
(***************************************************************************)
(* The command's processes (cmd/icelake: main.go, daemonize.go,            *)
(* daemon.go): several `icelake run` typed against one pid file and one    *)
(* staging database, in the foreground or backgrounded, each of them       *)
(* signalled or killed at any point.                                       *)
(*                                                                         *)
(* A starter s is one typed `run`: its first process, the open file        *)
(* description of the pid file that its child shares, and its run, the     *)
(* execution of runDaemon, in the first process (foreground) or in the     *)
(* child (background).  pc[s] is where the first process is, run[s] the    *)
(* memory of the process that executes the run.                            *)
(*                                                                         *)
(* Starters bounds the commands at work at a time: one that has ended      *)
(* leaves its name to the next.  A table stands for the records one caller *)
(* has for it.  The lock is the kernel's flock: a description's, until the *)
(* last process that has it open closes it or dies.  The momentary shared  *)
(* lock of `icelake check` and the two retries that outlast it are left    *)
(* out.                                                                    *)
(***************************************************************************)
EXTENDS Naturals, FiniteSets

CONSTANTS
    Starters, Tables,
    Foreground,         \* the starters typed with -f
    Inodes,             \* inode numbers the pid file's directory can give
    MaxAttempts,        \* tries of acquirePidLock, five in the code
    MaxKills            \* bound on processes killed with SIGKILL

NoFile == 0

ASSUME DaemonAssumption ==
    /\ Foreground \subseteq Starters
    /\ Inodes \subseteq Nat \ {NoFile}
    /\ MaxAttempts \in Nat \ {0} /\ MaxKills \in Nat

VARIABLES
    path,        \* the inode the pid file's name leads to
    named,       \* the pid that file holds
    pc,          \* where the first process is
    attempts,    \* tries of acquirePidLock
    fd,          \* the inode the description is of
    holders,     \* the processes that have the description open
    locked,      \* the description has the flock
    written,     \* writePid succeeded
    pipe,        \* the readiness byte is in the pipe
    run,         \* what the run knows, while its process lives
    status,      \* the child's exit code, until its parent reads it
    exit,        \* how the first process ended
    where,       \* per table, where its last records are; outlives every process
    kills        \* processes killed so far

file == <<path, named>>
lock == <<fd, holders, locked, written>>
parent == <<pc, attempts, exit>>
vars == <<file, lock, parent, pipe, run, status, where, kills>>

Processes == {"first", "child"}
Pids == Starters \X Processes
NoPid == <<>>
\* The process that executes s's run, and its pid.
Runner(s) == IF s \in Foreground THEN "first" ELSE "child"
RunPid(s) == <<s, Runner(s)>>

Codes == {"ok", "usage", "runtime", "killed"}
Phases == {"opening", "tables", "reading", "draining", "storeclose", "over", "removed", "closed"}
Runs == [phase : Phases,
         code : Codes \union {"none"},
         opened : SUBSET Tables,        \* tables whose writer is open, not yet closed
         notice : SUBSET Tables,        \* quarantines not yet told to a Close
         signalled : BOOLEAN,           \* the context is done
         bounded : BOOLEAN,             \* the drain has its clock
         failed : BOOLEAN]              \* the drain has met an error
NoRun == [phase |-> "none"]
NewRun == [phase |-> "opening", code |-> "none", opened |-> {}, notice |-> {},
           signalled |-> FALSE, bounded |-> FALSE, failed |-> FALSE]
Running(s) == run[s] # NoRun

TypeOK ==
    /\ path \in Inodes \union {NoFile}
    /\ named \in Pids \union {NoPid}
    /\ pc \in [Starters -> {"idle", "open", "flock", "stat", "won", "abandon", "abandoned",
                            "started", "waiting", "serving", "exited"}]
    /\ attempts \in [Starters -> 0..MaxAttempts]
    /\ fd \in [Starters -> Inodes \union {NoFile}]
    /\ holders \in [Starters -> SUBSET Processes]
    /\ {locked, written, pipe} \subseteq [Starters -> BOOLEAN]
    /\ run \in [Starters -> Runs \union {NoRun}]
    /\ {status, exit} \subseteq [Starters -> Codes \union {"none"}]
    /\ where \in [Tables -> {"committed", "staged", "quarantined"}]
    /\ kills \in 0..MaxKills

Init ==
    /\ path = NoFile /\ named = NoPid
    /\ pc = [s \in Starters |-> "idle"] /\ attempts = [s \in Starters |-> 0]
    /\ fd = [s \in Starters |-> NoFile] /\ holders = [s \in Starters |-> {}]
    /\ locked = [s \in Starters |-> FALSE] /\ written = [s \in Starters |-> FALSE]
    /\ pipe = [s \in Starters |-> FALSE] /\ run = [s \in Starters |-> NoRun]
    /\ status = [s \in Starters |-> "none"] /\ exit = [s \in Starters |-> "none"]
    /\ where = [t \in Tables |-> "committed"]
    /\ kills = 0

-----------------------------------------------------------------------------
\* The kernel.

\* Process p of s closes the description, or dies with it open.
Drop(s, p) ==
    /\ holders' = [holders EXCEPT ![s] = @ \ {p}]
    /\ IF holders[s] \subseteq {p}
       THEN /\ fd' = [fd EXCEPT ![s] = NoFile]
            /\ locked' = [locked EXCEPT ![s] = FALSE]
            /\ written' = [written EXCEPT ![s] = FALSE]
       ELSE UNCHANGED <<fd, locked, written>>

Held(i) == \E s \in Starters : fd[s] = i /\ locked[s]
Free(i) == path # i /\ \A s \in Starters : fd[s] # i

\* The first process of s ends.
Exit(s, c) ==
    /\ pc' = [pc EXCEPT ![s] = "exited"]
    /\ attempts' = [attempts EXCEPT ![s] = 0]
    /\ exit' = [exit EXCEPT ![s] = c]
    /\ status' = [status EXCEPT ![s] = "none"]
    /\ pipe' = [pipe EXCEPT ![s] = FALSE]
    /\ Drop(s, "first")

\* The process of s's run ends; a living parent can ask how.
RunEnds(s, c) ==
    /\ run' = [run EXCEPT ![s] = NoRun]
    /\ IF s \in Foreground
       THEN Exit(s, c)
       ELSE /\ status' = [status EXCEPT ![s] = IF pc[s] = "exited" THEN "none" ELSE c]
            /\ Drop(s, "child") /\ UNCHANGED <<parent, pipe>>

\* SIGKILL takes a process at any point.
Kill(s) ==
    /\ kills < MaxKills /\ kills' = kills + 1
    /\ \/ Running(s) /\ RunEnds(s, "killed")
       \/ pc[s] \notin {"idle", "serving", "exited"} /\ Exit(s, "killed") /\ UNCHANGED run
    /\ UNCHANGED <<file, where>>

\* SIGTERM to the process that runs s.
Signal(s) ==
    /\ Running(s) /\ ~run[s].signalled
    /\ run' = [run EXCEPT ![s].signalled = TRUE]
    /\ UNCHANGED <<file, lock, parent, pipe, status, where, kills>>

-----------------------------------------------------------------------------
\* launch and acquirePidLock.

Go(s, from, to) == pc[s] = from /\ pc' = [pc EXCEPT ![s] = to]

\* A command is typed, perhaps where an earlier one has ended.
Launch(s) ==
    /\ pc[s] \in {"idle", "exited"} /\ ~Running(s)
    /\ pc' = [pc EXCEPT ![s] = "open"] /\ exit' = [exit EXCEPT ![s] = "none"]
    /\ UNCHANGED <<file, lock, attempts, pipe, status>>

\* The settings, the schema document or a terminal on stdin are refused.
RefuseSettings(s) == pc[s] = "idle" /\ Exit(s, "usage") /\ UNCHANGED file

\* os.OpenFile(O_RDWR|O_CREATE).
OpenPidFile(s) ==
    /\ attempts[s] < MaxAttempts /\ Go(s, "open", "flock")
    /\ attempts' = [attempts EXCEPT ![s] = @ + 1]
    /\ holders' = [holders EXCEPT ![s] = {"first"}]
    /\ IF path # NoFile
       THEN fd' = [fd EXCEPT ![s] = path] /\ UNCHANGED file
       ELSE \E i \in Inodes :
              /\ Free(i) /\ \A j \in Inodes : Free(j) => i <= j
              /\ path' = i /\ named' = NoPid
              /\ fd' = [fd EXCEPT ![s] = i]
    /\ UNCHANGED <<locked, written, exit, pipe, status>>

Flock(s) ==
    /\ ~Held(fd[s]) /\ Go(s, "flock", "stat")
    /\ locked' = [locked EXCEPT ![s] = TRUE]
    /\ UNCHANGED <<file, fd, holders, written, attempts, exit, pipe, status>>

AlreadyRunning(s) ==
    /\ pc[s] = "flock" /\ Held(fd[s])
    /\ Exit(s, "runtime")
    /\ UNCHANGED file

\* mutant: the second stat dropped
SameFileUnchecked(s) == TRUE

\* os.SameFile: the path still names the inode the lock is on.
SameFile(s) == path = fd[s]

Won(s) ==
    /\ SameFile(s) /\ Go(s, "stat", "won")
    /\ attempts' = [attempts EXCEPT ![s] = 0]
    /\ UNCHANGED <<file, lock, exit, pipe, status>>

Ghost(s) ==
    /\ ~SameFile(s) /\ Go(s, "stat", "open")
    /\ Drop(s, "first")
    /\ UNCHANGED <<file, attempts, exit, pipe, status>>

GiveUp(s) ==
    /\ pc[s] = "open" /\ attempts[s] = MaxAttempts
    /\ Exit(s, "runtime")
    /\ UNCHANGED file

Acquire(s) ==
    \/ OpenPidFile(s) \/ Flock(s) \/ AlreadyRunning(s) \/ Won(s) \/ Ghost(s) \/ GiveUp(s)

-----------------------------------------------------------------------------
\* daemonize and runForeground, up to the run and from its end.

\* os.Remove by name; what it names is whatever the path names.
RemovePidFile == path' = NoFile /\ named' = NoPid

\* cmd.Start: the child has the description too.
Spawn(s) ==
    /\ s \notin Foreground /\ Go(s, "won", "started")
    /\ holders' = [holders EXCEPT ![s] = Processes]
    /\ run' = [run EXCEPT ![s] = NewRun]
    /\ UNCHANGED <<file, fd, locked, written, attempts, exit, pipe, status>>

\* The log file, the pipe, the executable or the child cannot be had.
SpawnFails(s) ==
    /\ s \notin Foreground /\ Go(s, "won", "abandon")
    /\ UNCHANGED <<file, lock, attempts, exit, pipe, run, status>>

\* The log file is the operator's to name, and what keeps it from opening is a
\* refusal of the settings; the others are not.
Abandon(s) ==
    \/ /\ Go(s, "abandon", "abandoned") /\ RemovePidFile
       /\ UNCHANGED <<lock, attempts, exit, pipe, run, status>>
    \/ /\ pc[s] = "abandoned" /\ \E c \in {"usage", "runtime"} : Exit(s, c)
       /\ UNCHANGED <<file, run>>

\* writePid; a failure is only a warning.
WritePid(s) ==
    /\ \/ Go(s, "started", "waiting") /\ UNCHANGED run
       \/ s \in Foreground /\ Go(s, "won", "serving") /\ run' = [run EXCEPT ![s] = NewRun]
    /\ \E ok \in BOOLEAN :
         /\ written' = [written EXCEPT ![s] = ok]
         /\ named' = IF path # fd[s] THEN named ELSE IF ok THEN RunPid(s) ELSE NoPid
    /\ UNCHANGED <<path, fd, holders, locked, attempts, exit, pipe, status>>

\* The byte, or the end of the pipe and the child's exit code.
ReadPipe(s) ==
    /\ pc[s] = "waiting"
    /\ \/ pipe[s] /\ Exit(s, "ok")
       \/ /\ ~pipe[s] /\ ~Running(s)
          /\ Exit(s, IF status[s] = "usage" THEN "usage" ELSE "runtime")
    /\ UNCHANGED <<file, run>>

Step(s, from, to) == run[s].phase = from /\ run' = [run EXCEPT ![s].phase = to]

\* The end of runChild and of runForeground: Remove, Close, and os.Exit.
Remove(s) ==
    /\ Step(s, "over", "removed") /\ RemovePidFile
    /\ UNCHANGED <<lock, parent, pipe, status>>

CloseLock(s) ==
    /\ Step(s, "removed", "closed")
    /\ Drop(s, Runner(s))
    /\ UNCHANGED <<file, parent, pipe, status>>

Leave(s) ==
    /\ run[s].phase = "closed" /\ RunEnds(s, run[s].code)
    /\ UNCHANGED file

Lifecycle(s) ==
    \/ Spawn(s) \/ SpawnFails(s) \/ Abandon(s) \/ WritePid(s) \/ ReadPipe(s)
    \/ Remove(s) \/ CloseLock(s) \/ Leave(s)

-----------------------------------------------------------------------------
\* runDaemon.

End(s, from, c) ==
    run[s].phase = from /\ run' = [run EXCEPT ![s].phase = "over", ![s].code = c]

\* icelake.Open.
OpenStore(s) ==
    \/ Step(s, "opening", "tables")
    \/ \E c \in {"usage", "runtime"} : End(s, "opening", c)

OpenWriter(s) ==
    /\ run[s].phase = "tables"
    /\ \E t \in Tables \ run[s].opened : run' = [run EXCEPT ![s].opened = @ \union {t}]

Commit(t) == where[t] = "staged" /\ where' = [where EXCEPT ![t] = "committed"]

\* One table cannot be opened: closeStore drains the others inside the timeout
\* and its error is dropped.
OpenWriterFails(s) ==
    /\ run[s].phase = "tables" /\ run[s].opened # Tables
    /\ run' = [run EXCEPT ![s].phase = "over", ![s].code = "runtime", ![s].opened = {}]
    /\ UNCHANGED where \/ \E t \in run[s].opened : Commit(t)

\* mutant: ready is answered inside the loop that opens the writers
AllOpenEarly(s) ==
    /\ run[s].phase = "tables"
    /\ run' = [run EXCEPT ![s].phase = IF run[s].opened = Tables THEN "reading" ELSE @]
    /\ pipe' = [pipe EXCEPT ![s] = pc[s] # "exited" /\ s \notin Foreground]

\* Every writer is open: the byte is written, and reading begins.
AllOpen(s) ==
    /\ run[s].opened = Tables /\ Step(s, "tables", "reading")
    /\ pipe' = [pipe EXCEPT ![s] = pc[s] # "exited" /\ s \notin Foreground]

\* IngestStream stages records of a table.
Accept(s) ==
    /\ run[s].phase = "reading"
    /\ \E t \in Tables :
         where[t] = "committed" /\ where' = [where EXCEPT ![t] = "staged"]
    /\ UNCHANGED run

\* A flush worker commits or quarantines them: until its writer is closed, and
\* when nothing closes it until the process is gone.
Flush(s) ==
    /\ Running(s)
    /\ \E t \in run[s].opened :
         \/ Commit(t) /\ UNCHANGED run
         \/ /\ where[t] = "staged" /\ where' = [where EXCEPT ![t] = "quarantined"]
            /\ run' = [run EXCEPT ![s].notice = @ \union {t}]

\* A refused record ends the run with nothing closed.
RefuseRecord(s) == End(s, "reading", "runtime")

\* The end of input, or the signal: only the signal gives the drain a clock.
EndIngest(s) ==
    /\ run[s].phase = "reading"
    /\ run' = [run EXCEPT ![s].phase = "draining", ![s].bounded = run[s].signalled]

\* mutant: nothing watches for a signal during the drain
StartClockNever(s) == FALSE /\ UNCHANGED run

\* context.AfterFunc: a signal during the drain starts the clock.
StartClock(s) ==
    /\ run[s].phase \in {"draining", "storeclose"} /\ run[s].signalled /\ ~run[s].bounded
    /\ run' = [run EXCEPT ![s].bounded = TRUE]

\* Writer.Close: nil when the table's records are out of staging, else the
\* quarantine it must tell, or the end of the context.
CloseNil(s, t) == where[t] # "staged" /\ t \notin run[s].notice
CloseFails(s, t) == t \in run[s].notice \/ (where[t] = "staged" /\ run[s].bounded)

CloseWriter(s) ==
    /\ run[s].phase = "draining"
    /\ \E t \in run[s].opened :
         \/ CloseNil(s, t) /\ run' = [run EXCEPT ![s].opened = @ \ {t}]
         \/ CloseFails(s, t) /\ run' = [run EXCEPT ![s].opened = @ \ {t}, ![s].failed = TRUE]

\* The failure of a flush cycle that used up its attempts, told to that Close.
CloseGivesUp(s) ==
    /\ run[s].phase = "draining"
    /\ \E t \in run[s].opened :
         where[t] = "staged" /\ run' = [run EXCEPT ![s].opened = @ \ {t}, ![s].failed = TRUE]

Drained(s) == run[s].opened = {} /\ Step(s, "draining", "storeclose")

\* mutant: the drain's error is overwritten by Store.Close's
CloseStoreAlone(s) == \E c \in {"ok", "runtime"} : End(s, "storeclose", c)

\* Store.Close may fail too; the first error is the run's.
CloseStore(s) ==
    \E c \in {"ok", "runtime"} : End(s, "storeclose", IF run[s].failed THEN "runtime" ELSE c)

\* What a run does next whatever its input and its bucket do.
Proceed(s) ==
    \/ OpenStore(s) \/ OpenWriter(s) \/ StartClock(s) \/ CloseWriter(s) \/ Drained(s)
    \/ CloseStore(s) \/ (run[s].signalled /\ EndIngest(s))

resting == <<file, lock, parent, status, kills>>

RunDaemon(s) ==
    /\ Running(s)
    /\ \/ /\ Proceed(s) \/ RefuseRecord(s) \/ EndIngest(s) \/ CloseGivesUp(s)
          /\ UNCHANGED <<pipe, where>>
       \/ AllOpen(s) /\ UNCHANGED where
       \/ (OpenWriterFails(s) \/ Accept(s) \/ Flush(s)) /\ UNCHANGED pipe
    /\ UNCHANGED resting

Next == \E s \in Starters :
    \/ (Launch(s) \/ RefuseSettings(s) \/ Acquire(s)) /\ UNCHANGED <<run, where, kills>>
    \/ Lifecycle(s) /\ UNCHANGED <<where, kills>>
    \/ RunDaemon(s) \/ Kill(s) \/ Signal(s)

\* What the two processes of a starter do next of themselves.
FirstSteps(s) ==
    \/ Acquire(s) /\ UNCHANGED <<run, where, kills>>
    \/ (Spawn(s) \/ SpawnFails(s) \/ Abandon(s) \/ WritePid(s) \/ ReadPipe(s))
         /\ UNCHANGED <<where, kills>>

RunSteps(s) ==
    /\ Running(s)
    /\ \/ Proceed(s) /\ UNCHANGED <<pipe, where, resting>>
       \/ AllOpen(s) /\ UNCHANGED <<where, resting>>
       \/ (Remove(s) \/ CloseLock(s) \/ Leave(s)) /\ UNCHANGED <<where, kills>>

\* A process that can take a step of its own takes one.  Nothing is asked of the
\* input, of the bucket, or of whoever types commands and sends signals.
Fairness == \A s \in Starters : WF_vars(FirstSteps(s)) /\ WF_vars(RunSteps(s))

Spec == Init /\ [][Next]_vars /\ Fairness

-----------------------------------------------------------------------------
(***************************************************************************)
(* Properties.                                                             *)
(***************************************************************************)

Serving(s) == Running(s) /\ run[s].phase \notin {"removed", "closed"}

\* From the moment its run begins until it removes the file, a daemon is the
\* only one, the pid file's path leads to the inode it holds locked, and the
\* file names its pid if writePid did not warn (acquirePidLock, writePid).
OneDaemon ==
    \A s \in Starters : Serving(s) =>
        /\ path = fd[s] /\ locked[s]
        /\ written[s] => named = RunPid(s)
        /\ \A r \in Starters : Serving(r) => r = s

\* A backgrounding command that exits zero left a child that has opened every
\* table, if it still runs; one that exits with an error left nothing running
\* (daemonize; report: "nothing that was not already running was started").
ReportsAreTrue ==
    \A s \in Starters :
        /\ exit[s] = "ok" /\ Running(s) => run[s].phase \notin {"opening", "tables"}
        /\ exit[s] \in {"usage", "runtime"} => ~Running(s)

\* A run ends with exit code zero only when no record, of this run or of one
\* before it, is still staged, and no batch it quarantined went untold
\* (drainAndClose, drain).
ExitZeroMeansCommitted ==
    [][\A s \in Starters :
         Running(s) /\ run[s].code # "ok" /\ run'[s] # NoRun /\ run'[s].code = "ok" =>
           run[s].notice = {} /\ \A t \in Tables : where[t] # "staged"]_vars

\* A daemon that is signalled is gone in the end, whatever it was doing and
\* whether or not its batches can be committed (runDaemon, drainAndClose).
SignalledExits ==
    \A s \in Starters : (Running(s) /\ run[s].signalled) ~> ~Running(s)

\* No two processes have a writer open over the one staging database: the lock
\* is held for as long as a daemon is still writing (runChild's comment).
OneWriter ==
    \A r, s \in Starters :
       Running(r) /\ Running(s) /\ run[r].opened # {} /\ run[s].opened # {} => r = s

=============================================================================
