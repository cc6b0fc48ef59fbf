---------------------------- MODULE DaemonProofs ----------------------------
(***************************************************************************)
(* One daemon at a time over one pid file, and truthful reports of it: for *)
(* any number of commands, inodes, tries and kills. And what run, check    *)
(* and rebuild answer to any deployment in any world, and the sizes and    *)
(* delays that a deployment of any numbers comes to.                       *)
(*                                                                         *)
(* The argument.  A flock excludes every other description of its inode,   *)
(* but inodes outlive names: what makes the lock exclusive is that whoever *)
(* has won it, and until it removes the file itself, holds the inode the   *)
(* pid file's path leads to.  Two such keepers would hold one inode.  The  *)
(* second stat of acquirePidLock establishes this; that nobody removes a   *)
(* name it does not keep maintains it.                                     *)
(*                                                                         *)
(* A command says its answer in one step, so its theorems are about what   *)
(* the three compute of one deployment and one world: which settings and   *)
(* which part of the world each of them looks at, and in what order.       *)
(***************************************************************************)
EXTENDS Daemon, Setup, WellFoundedInduction, TLAPS

(***************************************************************************)
(* One starter: its two processes and the description they share.          *)
(***************************************************************************)

\* Who has the description open, by where the first process is.
Placed(s) ==
    /\ pc[s] \in {"idle", "open"} => holders[s] = {} /\ ~Running(s)
    /\ pc[s] \in {"flock", "stat", "won", "abandon", "abandoned"} =>
          holders[s] = {"first"} /\ ~Running(s)
    /\ pc[s] \in {"started", "waiting"} => s \notin Foreground /\ "first" \in holders[s]
    /\ pc[s] = "serving" => s \in Foreground /\ Running(s)
    /\ pc[s] = "exited" => "first" \notin holders[s]
    /\ "child" \in holders[s] => Running(s) /\ s \notin Foreground
    /\ Running(s) => (s \in Foreground <=> pc[s] = "serving")
    /\ Serving(s) => Runner(s) \in holders[s]

\* A description that somebody has open is of a file, and keeps its lock.
Described(s) ==
    /\ holders[s] = {} => fd[s] = NoFile /\ ~locked[s] /\ ~written[s]
    /\ holders[s] # {} => fd[s] # NoFile
    /\ pc[s] \in {"flock", "stat", "won"} => ~written[s]
    /\ pc[s] \in {"stat", "won", "abandon", "started"} \/ Serving(s) => locked[s]

\* The readiness byte, and what the first process has answered.
Reported(s) ==
    /\ pipe[s] => pc[s] \in {"started", "waiting"}
    /\ pipe[s] /\ Running(s) => run[s].phase \notin {"opening", "tables"}
    /\ pc[s] # "exited" => exit[s] = "none"
    /\ exit[s] = "ok" /\ Running(s) => run[s].phase \notin {"opening", "tables"}
    /\ exit[s] \in {"usage", "runtime"} => ~Running(s)

(***************************************************************************)
(* Several starters: the lock and the name.                                *)
(***************************************************************************)

\* Two locked descriptions are of two inodes.
LocksExclude == \A r, s \in Starters : locked[r] /\ locked[s] /\ fd[r] = fd[s] => r = s

\* Those to whom the pid file's name belongs.
Keeper(s) == pc[s] \in {"won", "abandon"} \/ Serving(s)

NameKept ==
    \A s \in Starters : Keeper(s) => /\ path = fd[s]
                                     /\ Serving(s) /\ written[s] => named = RunPid(s)

DaemonInv ==
    /\ \A s \in Starters : Placed(s) /\ Described(s) /\ Reported(s)
    /\ LocksExclude /\ NameKept

(***************************************************************************)
(* What a drain has established of the tables whose writer it closed.      *)
(***************************************************************************)
Settled(s) ==
    /\ Running(s) /\ run[s].phase = "reading" => run[s].opened = Tables
    /\ Running(s) /\ run[s].phase \in {"draining", "storeclose"} /\ ~run[s].failed =>
          \A t \in Tables \ run[s].opened : where[t] # "staged" /\ t \notin run[s].notice
    /\ Running(s) /\ run[s].phase = "storeclose" => run[s].opened = {}
    /\ Running(s) /\ run[s].phase \in {"opening", "tables", "reading", "draining", "storeclose"} =>
          run[s].code = "none"

DrainsInv == \A s \in Starters : Settled(s)

(***************************************************************************)
(* Types.                                                                  *)
(***************************************************************************)

\* A run's memory, updated field by field, stays one, and a run that ends
\* leaves none.
LEMMA RunUpdates ==
    ASSUME NEW x \in Runs
    PROVE  /\ x # NoRun /\ x.phase \in Phases /\ x.opened \subseteq Tables /\ x.notice \subseteq Tables
           /\ \A p \in Phases : [x EXCEPT !.phase = p] \in Runs
           /\ \A p \in Phases, c \in Codes \union {"none"} :
                 [x EXCEPT !.phase = p, !.code = c] \in Runs
           /\ \A O \in SUBSET Tables : [x EXCEPT !.opened = O] \in Runs
           /\ \A O \in SUBSET Tables : [x EXCEPT !.notice = O] \in Runs
           /\ \A O \in SUBSET Tables : [x EXCEPT !.opened = O, !.failed = TRUE] \in Runs
           /\ [x EXCEPT !.signalled = TRUE] \in Runs
           /\ [x EXCEPT !.bounded = TRUE] \in Runs
           /\ \A p \in Phases, b \in BOOLEAN : [x EXCEPT !.phase = p, !.bounded = b] \in Runs
           /\ \A p \in Phases, c \in Codes \union {"none"}, O \in SUBSET Tables :
                 [x EXCEPT !.phase = p, !.code = c, !.opened = O] \in Runs
<1>1. x # NoRun
  <2>1. x.phase \in Phases
    BY DEF Runs
  <2>2. NoRun.phase = "none"
    BY DEF NoRun
  <2> QED
    BY <2>1, <2>2 DEF Phases
<1> QED
  BY <1>1 DEF Runs

LEMMA NewRunIsRun == NewRun \in Runs
  BY DEF NewRun, Runs, Phases, Codes

LEMMA DaemonInit == Init => TypeOK
  BY DaemonAssumption DEF Init, TypeOK, NoRun, NoPid

\* A step of runDaemon touches its own run alone, and neither begins it nor ends
\* it; the readiness byte is written once every writer is open.
LEMMA RunDaemonFrame ==
    ASSUME TypeOK, NEW s \in Starters, RunDaemon(s)
    PROVE  /\ UNCHANGED resting
           /\ run' \in [Starters -> Runs \union {NoRun}]
           /\ \A r \in Starters : r # s => run'[r] = run[r]
           /\ Running(s) /\ run'[s] # NoRun
           /\ Serving(s)' <=> Serving(s)
           /\ run[s].phase \notin {"opening", "tables"} => run'[s].phase \notin {"opening", "tables"}
           /\ \/ pipe' = pipe
              \/ /\ pipe' = [pipe EXCEPT ![s] = pc[s] # "exited" /\ s \notin Foreground]
                 /\ run'[s].phase = "reading"
           /\ where' \in [Tables -> {"committed", "staged", "quarantined"}]
           /\ pipe' \in [Starters -> BOOLEAN]
<1> DEFINE x == run[s]
<1>0. x \in Runs /\ Running(s) /\ UNCHANGED resting /\ run \in [Starters -> Runs \union {NoRun}]
      /\ where \in [Tables -> {"committed", "staged", "quarantined"}]
      /\ pipe \in [Starters -> BOOLEAN]
  BY DEF RunDaemon, Running, TypeOK
<1>1. ASSUME NEW y \in Runs, run' = [run EXCEPT ![s] = y],
             x.phase = y.phase \/ {x.phase, y.phase} \cap {"removed", "closed"} = {}
      PROVE  /\ run' \in [Starters -> Runs \union {NoRun}]
             /\ \A r \in Starters : r # s => run'[r] = run[r]
             /\ run'[s] # NoRun /\ run'[s] = y
             /\ Serving(s)' <=> Serving(s)
  BY <1>0, <1>1, RunUpdates DEF Serving, Running
<1>2. CASE OpenStore(s) /\ UNCHANGED <<pipe, where>>
  <2>1. PICK y \in Runs : run' = [run EXCEPT ![s] = y] /\ x.phase = "opening" /\ y.phase \in {"tables", "over"}
    <3>1. CASE Step(s, "opening", "tables")
      <4> DEFINE y == [x EXCEPT !.phase = "tables"]
      <4>1. y \in Runs /\ run' = [run EXCEPT ![s] = y] /\ x.phase = "opening" /\ y.phase = "tables"
        BY <1>0, <3>1 DEF Step, Runs, Phases
      <4> QED
        BY <4>1
    <3>2. CASE \E c \in {"usage", "runtime"} : End(s, "opening", c)
      <4> PICK c \in {"usage", "runtime"} : End(s, "opening", c)
        BY <3>2
      <4> DEFINE y == [x EXCEPT !.phase = "over", !.code = c]
      <4>1. y \in Runs /\ run' = [run EXCEPT ![s] = y] /\ x.phase = "opening" /\ y.phase = "over"
        BY <1>0 DEF End, Runs, Phases, Codes
      <4> QED
        BY <4>1
    <3> QED
      BY <1>2, <3>1, <3>2 DEF OpenStore
  <2> QED
    BY <1>0, <1>1, <1>2, <2>1
<1>3. CASE OpenWriterFails(s) /\ UNCHANGED pipe
  <2> DEFINE y == [x EXCEPT !.phase = "over", !.code = "runtime", !.opened = {}]
  <2>1. y \in Runs /\ run' = [run EXCEPT ![s] = y] /\ x.phase = "tables" /\ y.phase = "over"
    BY <1>0, <1>3 DEF OpenWriterFails, Runs, Phases, Codes
  <2>2. where' \in [Tables -> {"committed", "staged", "quarantined"}]
    BY <1>0, <1>3 DEF OpenWriterFails, Commit, Runs
  <2> QED
    BY <1>0, <1>1, <1>3, <2>1, <2>2
<1>4. CASE OpenWriter(s) /\ UNCHANGED <<pipe, where>>
  <2> PICK t \in Tables : run' = [run EXCEPT ![s].opened = @ \union {t}]
    BY <1>4 DEF OpenWriter
  <2> DEFINE y == [x EXCEPT !.opened = @ \union {t}]
  <2>1. y \in Runs /\ run' = [run EXCEPT ![s] = y] /\ x.phase = y.phase
    BY <1>0 DEF Runs
  <2> QED
    BY <1>0, <1>1, <1>4, <2>1
<1>5. CASE AllOpen(s) /\ UNCHANGED where
  <2> DEFINE y == [x EXCEPT !.phase = "reading"]
  <2>1. y \in Runs /\ run' = [run EXCEPT ![s] = y] /\ x.phase = "tables" /\ y.phase = "reading"
    BY <1>0, <1>5 DEF AllOpen, Step, Runs, Phases
  <2>2. pipe' = [pipe EXCEPT ![s] = pc[s] # "exited" /\ s \notin Foreground]
    BY <1>5 DEF AllOpen
  <2>3. pipe' \in [Starters -> BOOLEAN]
    BY <1>0, <2>2
  <2> QED
    BY <1>0, <1>1, <1>5, <2>1, <2>2, <2>3
<1>6. CASE Accept(s) /\ UNCHANGED pipe
  <2>1. /\ run' = run /\ run'[s] = run[s] /\ run[s] # NoRun
        /\ where' \in [Tables -> {"committed", "staged", "quarantined"}]
    BY <1>0, <1>6, RunUpdates DEF Accept
  <2> QED
    BY <1>0, <1>6, <2>1 DEF Serving, Running
<1>7. CASE Flush(s) /\ UNCHANGED pipe
  <2>1. PICK t \in x.opened : \/ Commit(t) /\ UNCHANGED run
                              \/ /\ where[t] = "staged" /\ where' = [where EXCEPT ![t] = "quarantined"]
                                 /\ run' = [run EXCEPT ![s].notice = @ \union {t}]
    BY <1>7 DEF Flush
  <2>2. t \in Tables /\ where' \in [Tables -> {"committed", "staged", "quarantined"}]
    BY <1>0, <2>1 DEF Commit, Runs
  <2>3. CASE run' = run
    BY <1>0, <1>7, <2>2, <2>3, RunUpdates DEF Serving, Running
  <2>4. CASE run' = [run EXCEPT ![s].notice = @ \union {t}]
    <3> DEFINE y == [x EXCEPT !.notice = @ \union {t}]
    <3>1. y \in Runs /\ run' = [run EXCEPT ![s] = y] /\ x.phase = y.phase
      BY <1>0, <2>2, <2>4 DEF Runs
    <3> QED
      BY <1>0, <1>1, <1>7, <2>2, <3>1
  <2> QED
    BY <2>1, <2>3, <2>4
<1>8. CASE RefuseRecord(s) /\ UNCHANGED <<pipe, where>>
  <2> DEFINE y == [x EXCEPT !.phase = "over", !.code = "runtime"]
  <2>1. y \in Runs /\ run' = [run EXCEPT ![s] = y] /\ x.phase = "reading" /\ y.phase = "over"
    BY <1>0, <1>8 DEF RefuseRecord, End, Runs, Phases, Codes
  <2> QED
    BY <1>0, <1>1, <1>8, <2>1
<1>9. CASE EndIngest(s) /\ UNCHANGED <<pipe, where>>
  <2> DEFINE y == [x EXCEPT !.phase = "draining", !.bounded = x.signalled]
  <2>1. y \in Runs /\ run' = [run EXCEPT ![s] = y] /\ x.phase = "reading" /\ y.phase = "draining"
    BY <1>0, <1>9 DEF EndIngest, Runs, Phases
  <2> QED
    BY <1>0, <1>1, <1>9, <2>1
<1>10. CASE StartClock(s) /\ UNCHANGED <<pipe, where>>
  <2> DEFINE y == [x EXCEPT !.bounded = TRUE]
  <2>1. y \in Runs /\ run' = [run EXCEPT ![s] = y] /\ x.phase = y.phase
    BY <1>0, <1>10 DEF StartClock, Runs
  <2> QED
    BY <1>0, <1>1, <1>10, <2>1
<1>11. CASE (CloseWriter(s) \/ CloseGivesUp(s)) /\ UNCHANGED <<pipe, where>>
  <2>1. PICK t \in x.opened : \/ run' = [run EXCEPT ![s].opened = @ \ {t}]
                              \/ run' = [run EXCEPT ![s].opened = @ \ {t}, ![s].failed = TRUE]
    BY <1>11 DEF CloseWriter, CloseGivesUp
  <2>2. CASE run' = [run EXCEPT ![s].opened = @ \ {t}]
    <3> DEFINE y == [x EXCEPT !.opened = @ \ {t}]
    <3>1. y \in Runs /\ run' = [run EXCEPT ![s] = y] /\ x.phase = y.phase
      BY <1>0, <2>2 DEF Runs
    <3> QED
      BY <1>0, <1>1, <1>11, <3>1
  <2>3. CASE run' = [run EXCEPT ![s].opened = @ \ {t}, ![s].failed = TRUE]
    <3> DEFINE y == [x EXCEPT !.opened = @ \ {t}, !.failed = TRUE]
    <3>1. y \in Runs /\ run' = [run EXCEPT ![s] = y] /\ x.phase = y.phase
      BY <1>0, <2>3 DEF Runs
    <3> QED
      BY <1>0, <1>1, <1>11, <3>1
  <2> QED
    BY <2>1, <2>2, <2>3
<1>12. CASE Drained(s) /\ UNCHANGED <<pipe, where>>
  <2> DEFINE y == [x EXCEPT !.phase = "storeclose"]
  <2>1. y \in Runs /\ run' = [run EXCEPT ![s] = y] /\ x.phase = "draining" /\ y.phase = "storeclose"
    BY <1>0, <1>12 DEF Drained, Step, Runs, Phases
  <2> QED
    BY <1>0, <1>1, <1>12, <2>1
<1>13. CASE CloseStore(s) /\ UNCHANGED <<pipe, where>>
  <2> PICK c \in {"ok", "runtime"} : End(s, "storeclose", c)
    BY <1>13 DEF CloseStore
  <2> DEFINE y == [x EXCEPT !.phase = "over", !.code = c]
  <2>1. y \in Runs /\ run' = [run EXCEPT ![s] = y] /\ x.phase = "storeclose" /\ y.phase = "over"
    BY <1>0 DEF End, Runs, Phases, Codes
  <2> QED
    BY <1>0, <1>1, <1>13, <2>1
<1> QED
  BY <1>2, <1>3, <1>4, <1>5, <1>6, <1>7, <1>8, <1>9, <1>10, <1>11, <1>12, <1>13 DEF RunDaemon, Proceed

(***************************************************************************)
(* One starter's steps.                                                    *)
(***************************************************************************)

\* The steps of starter s, with what each of them leaves alone.
StepOf(s) ==
    \/ (Launch(s) \/ RefuseSettings(s) \/ Acquire(s)) /\ UNCHANGED <<run, where, kills>>
    \/ Lifecycle(s) /\ UNCHANGED <<where, kills>>
    \/ RunDaemon(s) \/ Kill(s) \/ Signal(s)

\* The well-typed part of the state that is each starter's own.
OwnTypes ==
    /\ pc \in [Starters -> {"idle", "open", "flock", "stat", "won", "abandon", "abandoned",
                            "started", "waiting", "serving", "exited"}]
    /\ attempts \in [Starters -> 0..MaxAttempts]
    /\ fd \in [Starters -> Inodes \union {NoFile}]
    /\ holders \in [Starters -> SUBSET Processes]
    /\ {locked, written, pipe} \subseteq [Starters -> BOOLEAN]
    /\ run \in [Starters -> Runs \union {NoRun}]
    /\ {status, exit} \subseteq [Starters -> Codes \union {"none"}]

OthersKept(s) ==
    \A r \in Starters \ {s} :
        /\ pc'[r] = pc[r] /\ fd'[r] = fd[r] /\ holders'[r] = holders[r]
        /\ locked'[r] = locked[r] /\ written'[r] = written[r] /\ pipe'[r] = pipe[r]
        /\ run'[r] = run[r] /\ exit'[r] = exit[r]

\* Closing the description: the last to close it drops the lock with it.
LEMMA Drops ==
    ASSUME OwnTypes, NEW s \in Starters, NEW p \in Processes, Drop(s, p)
    PROVE  /\ fd' \in [Starters -> Inodes \union {NoFile}]
           /\ holders' \in [Starters -> SUBSET Processes]
           /\ {locked', written'} \subseteq [Starters -> BOOLEAN]
           /\ holders'[s] = holders[s] \ {p}
           /\ holders'[s] = {} => fd'[s] = NoFile /\ ~locked'[s] /\ ~written'[s]
           /\ holders'[s] # {} => fd'[s] = fd[s] /\ locked'[s] = locked[s] /\ written'[s] = written[s]
           /\ locked'[s] => locked[s] /\ fd'[s] = fd[s]
           /\ \A r \in Starters : r # s => /\ holders'[r] = holders[r] /\ fd'[r] = fd[r]
                                           /\ locked'[r] = locked[r] /\ written'[r] = written[r]
<1>1. /\ holders' \in [Starters -> SUBSET Processes]
      /\ holders'[s] = holders[s] \ {p}
      /\ \A r \in Starters : r # s => holders'[r] = holders[r]
  BY DEF OwnTypes, Drop
<1>2. CASE holders[s] \subseteq {p}
  <2>1. /\ fd' = [fd EXCEPT ![s] = NoFile]
        /\ locked' = [locked EXCEPT ![s] = FALSE]
        /\ written' = [written EXCEPT ![s] = FALSE]
        /\ holders'[s] = {}
    BY <1>1, <1>2 DEF Drop
  <2>2. /\ fd' \in [Starters -> Inodes \union {NoFile}] /\ fd'[s] = NoFile
        /\ \A r \in Starters : r # s => fd'[r] = fd[r]
    BY <2>1 DEF OwnTypes
  <2>3. /\ {locked', written'} \subseteq [Starters -> BOOLEAN] /\ ~locked'[s] /\ ~written'[s]
        /\ \A r \in Starters : r # s => locked'[r] = locked[r] /\ written'[r] = written[r]
    BY <2>1 DEF OwnTypes
  <2> QED
    BY <1>1, <2>1, <2>2, <2>3
<1>3. CASE ~(holders[s] \subseteq {p})
  <2>1. UNCHANGED <<fd, locked, written>> /\ holders'[s] # {}
    BY <1>1, <1>3 DEF Drop
  <2> QED
    BY <1>1, <2>1 DEF OwnTypes
<1> QED
  BY <1>2, <1>3

\* The first process ends.
LEMMA Exits ==
    ASSUME OwnTypes, NEW s \in Starters, NEW c \in Codes \union {"none"}, Exit(s, c),
           run' \in [Starters -> Runs \union {NoRun}], \A r \in Starters : r # s => run'[r] = run[r]
    PROVE  /\ OwnTypes' /\ OthersKept(s)
           /\ pc'[s] = "exited" /\ exit'[s] = c /\ ~pipe'[s]
           /\ holders'[s] = holders[s] \ {"first"}
           /\ holders'[s] = {} => fd'[s] = NoFile /\ ~locked'[s] /\ ~written'[s]
           /\ holders'[s] # {} => fd'[s] = fd[s] /\ locked'[s] = locked[s]
           /\ locked'[s] => locked[s] /\ fd'[s] = fd[s]
<1>1. "first" \in Processes
  BY DEF Processes
<1>2. Drop(s, "first")
  BY DEF Exit
<1>3. /\ pc'[s] = "exited" /\ exit'[s] = c /\ ~pipe'[s]
      /\ pc' \in [Starters -> {"idle", "open", "flock", "stat", "won", "abandon", "abandoned",
                               "started", "waiting", "serving", "exited"}]
      /\ attempts' \in [Starters -> 0..MaxAttempts]
      /\ pipe' \in [Starters -> BOOLEAN]
      /\ {status', exit'} \subseteq [Starters -> Codes \union {"none"}]
      /\ \A r \in Starters : r # s => pc'[r] = pc[r] /\ pipe'[r] = pipe[r] /\ exit'[r] = exit[r]
  BY DaemonAssumption DEF Exit, OwnTypes
<1> QED
  BY <1>1, <1>2, <1>3, Drops DEF OwnTypes, OthersKept

\* What an invariant of one starter says after one of its steps, and how the
\* step treats its lock.
OwnInv(s) == Placed(s) /\ Described(s) /\ Reported(s)

LockTaken(s) ==
    locked'[s] => fd'[s] = fd[s] /\ (locked[s] \/ ~Held(fd[s]))

\* acquirePidLock.
LEMMA AcquireOwn ==
    ASSUME TypeOK, NEW s \in Starters, OwnInv(s), Acquire(s), run' = run
    PROVE  OwnTypes' /\ OthersKept(s) /\ OwnInv(s)' /\ LockTaken(s)
<1> USE DEF OwnInv
<1>0. OwnTypes
  BY DEF TypeOK, OwnTypes
<1>1. CASE OpenPidFile(s)
  <2>1. /\ pc[s] = "open" /\ pc' = [pc EXCEPT ![s] = "flock"]
        /\ attempts' = [attempts EXCEPT ![s] = @ + 1] /\ attempts[s] < MaxAttempts
        /\ holders' = [holders EXCEPT ![s] = {"first"}]
        /\ UNCHANGED <<locked, written, exit, pipe, status>>
    BY <1>1 DEF OpenPidFile, Go
  <2>2. PICK i \in Inodes : fd' = [fd EXCEPT ![s] = i]
    BY <1>1 DEF OpenPidFile, TypeOK
  <2>3. i # NoFile /\ {"first"} \in SUBSET Processes
    BY DaemonAssumption DEF Processes
  <2>4. attempts' \in [Starters -> 0..MaxAttempts]
    BY <1>0, <2>1, DaemonAssumption DEF OwnTypes
  <2>5. OwnTypes' /\ OthersKept(s)
    BY <1>0, <2>1, <2>2, <2>3, <2>4 DEF OwnTypes, OthersKept
  <2>6. /\ pc'[s] = "flock" /\ holders'[s] = {"first"} /\ fd'[s] = i
    BY <1>0, <2>1, <2>2 DEF OwnTypes
  <2>7. holders[s] = {} /\ ~Running(s) /\ ~locked[s] /\ ~written[s] /\ ~pipe[s] /\ exit[s] = "none"
    BY <2>1 DEF Placed, Described, Reported
  <2>8. Placed(s)' /\ Described(s)' /\ Reported(s)'
    BY <2>1, <2>3, <2>6, <2>7 DEF Placed, Described, Reported, Running, Serving
  <2> QED
    BY <2>1, <2>5, <2>7, <2>8 DEF LockTaken
<1>2. CASE Flock(s)
  <2>1. /\ pc[s] = "flock" /\ pc' = [pc EXCEPT ![s] = "stat"]
        /\ locked' = [locked EXCEPT ![s] = TRUE] /\ ~Held(fd[s])
        /\ UNCHANGED <<fd, holders, written, attempts, exit, pipe, status>>
    BY <1>2 DEF Flock, Go
  <2>2. OwnTypes' /\ OthersKept(s) /\ pc'[s] = "stat" /\ locked'[s]
    BY <1>0, <2>1 DEF OwnTypes, OthersKept
  <2>3. Placed(s)' /\ Described(s)' /\ Reported(s)'
    BY <2>1, <2>2 DEF Placed, Described, Reported, Running, Serving
  <2> QED
    BY <2>1, <2>2, <2>3 DEF LockTaken
<1>3. CASE AlreadyRunning(s) \/ GiveUp(s)
  <2>1. /\ Exit(s, "runtime") /\ ~Running(s) /\ holders[s] \subseteq {"first"}
    BY <1>3 DEF AlreadyRunning, GiveUp, Placed
  <2>2. /\ OwnTypes' /\ OthersKept(s)
        /\ pc'[s] = "exited" /\ exit'[s] = "runtime" /\ ~pipe'[s] /\ holders'[s] = {}
        /\ fd'[s] = NoFile /\ ~locked'[s] /\ ~written'[s]
    BY <1>0, <2>1, Exits DEF Codes, OwnTypes
  <2>3. Placed(s)' /\ Described(s)' /\ Reported(s)'
    BY <2>1, <2>2 DEF Placed, Described, Reported, Running, Serving
  <2> QED
    BY <2>2, <2>3 DEF LockTaken
<1>4. CASE Won(s)
  <2>1. /\ pc[s] = "stat" /\ pc' = [pc EXCEPT ![s] = "won"]
        /\ attempts' = [attempts EXCEPT ![s] = 0]
        /\ UNCHANGED <<lock, exit, pipe, status>>
    BY <1>4 DEF Won, Go
  <2>2. OwnTypes' /\ OthersKept(s) /\ pc'[s] = "won"
    BY <1>0, <2>1, DaemonAssumption DEF OwnTypes, OthersKept, lock
  <2>3. Placed(s)' /\ Described(s)' /\ Reported(s)'
    BY <2>1, <2>2 DEF Placed, Described, Reported, Running, Serving, lock
  <2> QED
    BY <2>1, <2>2, <2>3 DEF LockTaken, lock
<1>5. CASE Ghost(s)
  <2>1. /\ pc[s] = "stat" /\ pc' = [pc EXCEPT ![s] = "open"]
        /\ Drop(s, "first") /\ UNCHANGED <<attempts, exit, pipe, status>>
    BY <1>5 DEF Ghost, Go
  <2>2. "first" \in Processes /\ holders[s] = {"first"}
    BY <2>1 DEF Processes, Placed
  <2>3. /\ OwnTypes' /\ OthersKept(s) /\ pc'[s] = "open" /\ holders'[s] = {}
        /\ fd'[s] = NoFile /\ ~locked'[s] /\ ~written'[s]
    BY <1>0, <2>1, <2>2, Drops DEF OwnTypes, OthersKept
  <2>4. Placed(s)' /\ Described(s)' /\ Reported(s)'
    BY <2>1, <2>3 DEF Placed, Described, Reported, Running, Serving
  <2> QED
    BY <2>3, <2>4 DEF LockTaken
<1> QED
  BY <1>1, <1>2, <1>3, <1>4, <1>5 DEF Acquire

\* A command is typed, and perhaps refused at once.
LEMMA LaunchOwn ==
    ASSUME TypeOK, NEW s \in Starters, OwnInv(s), Launch(s) \/ RefuseSettings(s), run' = run
    PROVE  OwnTypes' /\ OthersKept(s) /\ OwnInv(s)' /\ LockTaken(s)
<1> USE DEF OwnInv
<1>0. OwnTypes
  BY DEF TypeOK, OwnTypes
<1>1. CASE Launch(s)
  <2>1. /\ pc[s] \in {"idle", "exited"} /\ ~Running(s)
        /\ pc' = [pc EXCEPT ![s] = "open"] /\ exit' = [exit EXCEPT ![s] = "none"]
        /\ UNCHANGED <<lock, attempts, pipe, status>>
    BY <1>1 DEF Launch
  <2>2. OwnTypes' /\ OthersKept(s) /\ pc'[s] = "open" /\ exit'[s] = "none"
    BY <1>0, <2>1 DEF OwnTypes, OthersKept, lock
  <2>3. holders[s] = {}
    BY <1>0, <2>1 DEF OwnTypes, Placed, Processes
  <2>4. Placed(s)' /\ Described(s)' /\ Reported(s)'
    BY <2>1, <2>2, <2>3 DEF Placed, Described, Reported, Running, Serving, lock
  <2> QED
    BY <2>1, <2>2, <2>4 DEF LockTaken, lock
<1>2. CASE RefuseSettings(s)
  <2>1. Exit(s, "usage") /\ ~Running(s) /\ holders[s] = {}
    BY <1>2 DEF RefuseSettings, Placed
  <2>2. /\ OwnTypes' /\ OthersKept(s)
        /\ pc'[s] = "exited" /\ exit'[s] = "usage" /\ ~pipe'[s] /\ holders'[s] = {}
        /\ fd'[s] = NoFile /\ ~locked'[s] /\ ~written'[s]
    BY <1>0, <2>1, Exits DEF Codes, OwnTypes
  <2>3. Placed(s)' /\ Described(s)' /\ Reported(s)'
    BY <2>1, <2>2 DEF Placed, Described, Reported, Running, Serving
  <2> QED
    BY <2>2, <2>3 DEF LockTaken
<1> QED
  BY <1>1, <1>2

\* The process of a run ends, of itself or killed.
LEMMA RunEndsOwn ==
    ASSUME TypeOK, NEW s \in Starters, OwnInv(s), Running(s), NEW c \in Codes \union {"none"}, RunEnds(s, c)
    PROVE  OwnTypes' /\ OthersKept(s) /\ OwnInv(s)' /\ LockTaken(s) /\ ~Running(s)'
<1> USE DEF OwnInv
<1>0. OwnTypes
  BY DEF TypeOK, OwnTypes
<1>1. /\ run' \in [Starters -> Runs \union {NoRun}] /\ ~Running(s)'
      /\ \A r \in Starters : r # s => run'[r] = run[r]
  BY <1>0 DEF RunEnds, OwnTypes, Running
<1>2. CASE s \in Foreground
  <2>1. Exit(s, c) /\ holders[s] \subseteq {"first"}
    BY <1>0, <1>2 DEF RunEnds, Placed, OwnTypes, Processes
  <2>2. /\ OwnTypes' /\ OthersKept(s)
        /\ pc'[s] = "exited" /\ exit'[s] = c /\ ~pipe'[s] /\ holders'[s] = {}
        /\ fd'[s] = NoFile /\ ~locked'[s] /\ ~written'[s]
    BY <1>0, <1>1, <2>1, Exits
  <2>3. Placed(s)' /\ Described(s)' /\ Reported(s)'
    BY <1>1, <2>2 DEF Placed, Described, Reported, Serving
  <2> QED
    BY <1>1, <2>2, <2>3 DEF LockTaken
<1>3. CASE s \notin Foreground
  <2>1. /\ status' = [status EXCEPT ![s] = IF pc[s] = "exited" THEN "none" ELSE c]
        /\ Drop(s, "child") /\ UNCHANGED <<parent, pipe>> /\ "child" \in Processes
    BY <1>3 DEF RunEnds, Processes
  <2>2. status' \in [Starters -> Codes \union {"none"}]
    BY <1>0, <2>1 DEF OwnTypes
  <2>3. /\ OwnTypes' /\ OthersKept(s)
        /\ pc'[s] = pc[s] /\ exit'[s] = exit[s] /\ pipe'[s] = pipe[s]
        /\ holders'[s] = holders[s] \ {"child"}
        /\ holders'[s] = {} => fd'[s] = NoFile /\ ~locked'[s] /\ ~written'[s]
        /\ holders'[s] # {} => fd'[s] = fd[s] /\ locked'[s] = locked[s] /\ written'[s] = written[s]
        /\ locked'[s] => locked[s] /\ fd'[s] = fd[s]
    BY <1>0, <1>1, <2>1, <2>2, Drops DEF OwnTypes, OthersKept, parent
  <2>4. pc[s] \notin {"idle", "open", "flock", "stat", "won", "abandon", "abandoned", "serving"}
    BY <1>3 DEF Placed
  <2>5. Placed(s)'
    BY <1>1, <1>3, <2>3, <2>4 DEF Placed, Serving
  <2>6. Described(s)'
    BY <1>1, <2>3, <2>4 DEF Described, Placed, Serving
  <2>7. Reported(s)'
    BY <1>1, <2>3, <2>4 DEF Reported
  <2> QED
    BY <1>1, <2>3, <2>5, <2>6, <2>7 DEF LockTaken
<1> QED
  BY <1>2, <1>3

\* daemonize and runForeground, around the run.
LEMMA LifecycleOwn ==
    ASSUME TypeOK, NEW s \in Starters, OwnInv(s), Lifecycle(s)
    PROVE  OwnTypes' /\ OthersKept(s) /\ OwnInv(s)' /\ LockTaken(s)
<1> USE DEF OwnInv
<1>0. OwnTypes
  BY DEF TypeOK, OwnTypes
<1>1. CASE Spawn(s)
  <2>1. /\ s \notin Foreground /\ pc[s] = "won" /\ pc' = [pc EXCEPT ![s] = "started"]
        /\ holders' = [holders EXCEPT ![s] = Processes]
        /\ run' = [run EXCEPT ![s] = NewRun]
        /\ UNCHANGED <<fd, locked, written, attempts, exit, pipe, status>>
    BY <1>1 DEF Spawn, Go
  <2>2. /\ OwnTypes' /\ OthersKept(s) /\ pc'[s] = "started"
        /\ holders'[s] = Processes /\ run'[s] = NewRun /\ NewRun # NoRun
    BY <1>0, <2>1, NewRunIsRun, RunUpdates DEF OwnTypes, OthersKept
  <2>3. /\ holders[s] = {"first"} /\ ~Running(s) /\ locked[s] /\ fd[s] # NoFile
        /\ ~pipe[s] /\ exit[s] = "none"
    BY <2>1 DEF Placed, Described, Reported
  <2>4. Placed(s)'
    BY <2>1, <2>2 DEF Placed, Running, Serving, Runner, Processes
  <2>5. Described(s)' /\ Reported(s)'
    BY <2>1, <2>2, <2>3 DEF Described, Reported, Running, Serving, Processes
  <2> QED
    BY <2>1, <2>2, <2>3, <2>4, <2>5 DEF LockTaken
<1>2. CASE SpawnFails(s)
  <2>1. /\ pc[s] = "won" /\ pc' = [pc EXCEPT ![s] = "abandon"]
        /\ UNCHANGED <<lock, attempts, exit, pipe, run, status>>
    BY <1>2 DEF SpawnFails, Go
  <2>2. OwnTypes' /\ OthersKept(s) /\ pc'[s] = "abandon"
    BY <1>0, <2>1 DEF OwnTypes, OthersKept, lock
  <2>3. Placed(s)' /\ Described(s)' /\ Reported(s)'
    BY <2>1, <2>2 DEF Placed, Described, Reported, Running, Serving, lock
  <2> QED
    BY <2>1, <2>2, <2>3 DEF LockTaken, lock
<1>3. CASE Abandon(s)
  <2>1. CASE /\ Go(s, "abandon", "abandoned") /\ RemovePidFile
             /\ UNCHANGED <<lock, attempts, exit, pipe, run, status>>
    <3>1. /\ pc[s] = "abandon" /\ pc' = [pc EXCEPT ![s] = "abandoned"]
          /\ UNCHANGED <<lock, attempts, exit, pipe, run, status>>
      BY <2>1 DEF Go
    <3>2. OwnTypes' /\ OthersKept(s) /\ pc'[s] = "abandoned"
      BY <1>0, <3>1 DEF OwnTypes, OthersKept, lock
    <3>3. Placed(s)' /\ Described(s)' /\ Reported(s)'
      BY <3>1, <3>2 DEF Placed, Described, Reported, Running, Serving, lock
    <3> QED
      BY <3>1, <3>2, <3>3 DEF LockTaken, lock
  <2>2. CASE pc[s] = "abandoned" /\ (\E c \in {"usage", "runtime"} : Exit(s, c)) /\ UNCHANGED <<file, run>>
    <3> PICK c \in {"usage", "runtime"} : Exit(s, c)
      BY <2>2
    <3>1. Exit(s, c) /\ run' = run /\ ~Running(s) /\ holders[s] = {"first"}
      BY <2>2 DEF Placed
    <3>2. /\ OwnTypes' /\ OthersKept(s)
          /\ pc'[s] = "exited" /\ exit'[s] = c /\ ~pipe'[s] /\ holders'[s] = {}
          /\ fd'[s] = NoFile /\ ~locked'[s] /\ ~written'[s]
      BY <1>0, <3>1, Exits DEF Codes, OwnTypes
    <3>3. Placed(s)' /\ Described(s)' /\ Reported(s)'
      BY <3>1, <3>2 DEF Placed, Described, Reported, Running, Serving
    <3> QED
      BY <3>2, <3>3 DEF LockTaken
  <2> QED
    BY <1>3, <2>1, <2>2 DEF Abandon
<1>4. CASE WritePid(s)
  <2>1. PICK ok \in BOOLEAN : written' = [written EXCEPT ![s] = ok]
    BY <1>4 DEF WritePid
  <2>2. UNCHANGED <<fd, holders, locked, attempts, exit, pipe, status>>
    BY <1>4 DEF WritePid
  <2>3. CASE Go(s, "started", "waiting") /\ UNCHANGED run
    <3>1. pc[s] = "started" /\ pc' = [pc EXCEPT ![s] = "waiting"] /\ run' = run
      BY <2>3 DEF Go
    <3>2. OwnTypes' /\ OthersKept(s) /\ pc'[s] = "waiting"
      BY <1>0, <2>1, <2>2, <3>1 DEF OwnTypes, OthersKept
    <3>3. Placed(s)' /\ Described(s)' /\ Reported(s)'
      BY <2>2, <3>1, <3>2 DEF Placed, Described, Reported, Running, Serving
    <3> QED
      BY <2>2, <3>1, <3>2, <3>3 DEF LockTaken
  <2>4. CASE s \in Foreground /\ Go(s, "won", "serving") /\ run' = [run EXCEPT ![s] = NewRun]
    <3>1. /\ s \in Foreground /\ pc[s] = "won" /\ pc' = [pc EXCEPT ![s] = "serving"]
          /\ run' = [run EXCEPT ![s] = NewRun]
      BY <2>4 DEF Go
    <3>2. OwnTypes' /\ OthersKept(s) /\ pc'[s] = "serving" /\ run'[s] = NewRun /\ NewRun # NoRun
      <4>1. run' \in [Starters -> Runs \union {NoRun}] /\ NewRun # NoRun
        BY <1>0, <3>1, NewRunIsRun, RunUpdates DEF OwnTypes
      <4>2. OwnTypes'
        BY <1>0, <2>1, <2>2, <3>1, <4>1 DEF OwnTypes
      <4>3. OthersKept(s) /\ pc'[s] = "serving" /\ run'[s] = NewRun
        BY <1>0, <2>1, <2>2, <3>1 DEF OwnTypes, OthersKept
      <4> QED
        BY <4>1, <4>2, <4>3
    <3>3. holders[s] = {"first"} /\ locked[s] /\ fd[s] # NoFile /\ ~pipe[s] /\ exit[s] = "none"
      BY <3>1 DEF Placed, Described, Reported
    <3>4. Placed(s)' /\ Described(s)' /\ Reported(s)'
      BY <2>2, <3>1, <3>2, <3>3 DEF Placed, Described, Reported, Running, Serving, Runner
    <3> QED
      BY <2>2, <3>2, <3>3, <3>4 DEF LockTaken
  <2> QED
    BY <1>4, <2>3, <2>4 DEF WritePid
<1>5. CASE ReadPipe(s)
  <2>1. PICK c \in Codes : /\ Exit(s, c) /\ run' = run
                           /\ \/ pipe[s] /\ c = "ok"
                              \/ ~Running(s) /\ c \in {"usage", "runtime"}
    BY <1>5 DEF ReadPipe, Codes
  <2>2. pc[s] = "waiting" /\ s \notin Foreground
    BY <1>5 DEF ReadPipe, Placed
  <2>3. /\ OwnTypes' /\ OthersKept(s)
        /\ pc'[s] = "exited" /\ exit'[s] = c /\ ~pipe'[s]
        /\ holders'[s] = holders[s] \ {"first"}
        /\ holders'[s] = {} => fd'[s] = NoFile /\ ~locked'[s] /\ ~written'[s]
        /\ holders'[s] # {} => fd'[s] = fd[s] /\ locked'[s] = locked[s]
        /\ locked'[s] => locked[s] /\ fd'[s] = fd[s]
    BY <1>0, <2>1, Exits DEF OwnTypes
  <2>4. Placed(s)'
    BY <2>1, <2>2, <2>3 DEF Placed, Running, Serving, Runner
  <2>5. Described(s)'
    BY <2>1, <2>2, <2>3, <2>4 DEF Described, Placed, Running, Serving, Runner
  <2>6. Reported(s)'
    BY <2>1, <2>2, <2>3 DEF Reported, Running
  <2> QED
    BY <2>3, <2>4, <2>5, <2>6 DEF LockTaken
<1>6. CASE Remove(s) \/ CloseLock(s)
  <2>1. PICK q \in {"removed", "closed"} :
           /\ run[s].phase \notin {"opening", "tables"}
           /\ run' = [run EXCEPT ![s].phase = q]
           /\ run[s].phase # "none"
    BY <1>6 DEF Remove, CloseLock, Step
  <2>2. run[s] \in Runs /\ Running(s)
    <3>1. run[s] # NoRun
      BY <2>1 DEF NoRun
    <3> QED
      BY <1>0, <3>1 DEF OwnTypes, Running
  <2>3. [run[s] EXCEPT !.phase = q] \in Runs /\ [run[s] EXCEPT !.phase = q] # NoRun
    BY <2>1, <2>2, RunUpdates DEF Phases
  <2>4. /\ run' \in [Starters -> Runs \union {NoRun}]
        /\ run'[s] = [run[s] EXCEPT !.phase = q]
        /\ \A r \in Starters : r # s => run'[r] = run[r]
    BY <1>0, <2>1, <2>3 DEF OwnTypes
  <2>5. Running(s)' /\ ~Serving(s)' /\ run'[s].phase \notin {"opening", "tables"}
    BY <2>2, <2>3, <2>4 DEF Running, Serving, Runs
  <2>6. UNCHANGED <<parent, pipe, status>>
    BY <1>6 DEF Remove, CloseLock
  <2>7. Reported(s)'
    BY <2>1, <2>2, <2>5, <2>6 DEF Reported, parent
  <2>8. CASE Remove(s)
    <3>1. UNCHANGED lock
      BY <2>8 DEF Remove
    <3>2. OwnTypes' /\ OthersKept(s)
      BY <1>0, <2>4, <2>6, <3>1 DEF OwnTypes, OthersKept, lock, parent
    <3>3. Placed(s)' /\ Described(s)'
      BY <2>2, <2>5, <2>6, <3>1 DEF Placed, Described, lock, parent
    <3> QED
      BY <2>7, <3>1, <3>2, <3>3 DEF LockTaken, lock
  <2>9. CASE CloseLock(s)
    <3>1. Drop(s, Runner(s)) /\ Runner(s) \in Processes
      BY <2>9 DEF CloseLock, Runner, Processes
    <3>2. /\ OwnTypes' /\ OthersKept(s)
          /\ holders'[s] = holders[s] \ {Runner(s)}
          /\ holders'[s] = {} => fd'[s] = NoFile /\ ~locked'[s] /\ ~written'[s]
          /\ holders'[s] # {} => fd'[s] = fd[s] /\ locked'[s] = locked[s] /\ written'[s] = written[s]
          /\ locked'[s] => locked[s] /\ fd'[s] = fd[s]
      BY <1>0, <2>4, <2>6, <3>1, Drops DEF OwnTypes, OthersKept, parent
    <3>3. pc[s] \notin {"idle", "open", "flock", "stat", "won", "abandon", "abandoned"}
      BY <2>2 DEF Placed
    <3>4. Placed(s)' /\ Described(s)'
      BY <2>2, <2>5, <2>6, <3>2, <3>3 DEF Placed, Described, Runner, parent
    <3> QED
      BY <2>7, <3>2, <3>4 DEF LockTaken
  <2> QED
    BY <1>6, <2>8, <2>9
<1>7. CASE Leave(s)
  <2>1. run[s].phase = "closed" /\ RunEnds(s, run[s].code)
    BY <1>7 DEF Leave
  <2>2. Running(s) /\ run[s] \in Runs
    BY <1>0, <2>1 DEF OwnTypes, NoRun, Running
  <2> QED
    BY <2>1, <2>2, RunEndsOwn DEF Runs
<1> QED
  BY <1>1, <1>2, <1>3, <1>4, <1>5, <1>6, <1>7 DEF Lifecycle

\* The run itself, and a signal to it.
LEMMA RunDaemonOwn ==
    ASSUME TypeOK, NEW s \in Starters, OwnInv(s), RunDaemon(s) \/ Signal(s)
    PROVE  /\ OwnTypes' /\ OthersKept(s) /\ OwnInv(s)' /\ LockTaken(s)
           /\ UNCHANGED <<file, lock, parent>> /\ (Serving(s)' <=> Serving(s))
<1> USE DEF OwnInv
<1>0. OwnTypes
  BY DEF TypeOK, OwnTypes
<1>1. /\ UNCHANGED <<file, lock, parent, status>>
      /\ run' \in [Starters -> Runs \union {NoRun}]
      /\ \A r \in Starters : r # s => run'[r] = run[r]
      /\ Running(s) /\ run'[s] # NoRun
      /\ Serving(s)' <=> Serving(s)
      /\ run[s].phase \notin {"opening", "tables"} => run'[s].phase \notin {"opening", "tables"}
      /\ \/ pipe' = pipe
         \/ /\ pipe' = [pipe EXCEPT ![s] = pc[s] # "exited" /\ s \notin Foreground]
            /\ run'[s].phase = "reading"
      /\ pipe' \in [Starters -> BOOLEAN]
  <2>1. CASE RunDaemon(s)
    BY <2>1, RunDaemonFrame DEF resting
  <2>2. CASE Signal(s)
    <3> DEFINE y == [run[s] EXCEPT !.signalled = TRUE]
    <3>1. run[s] \in Runs /\ Running(s)
      BY <1>0, <2>2 DEF Signal, Running, OwnTypes
    <3>2. y \in Runs /\ y.phase = run[s].phase
      BY <3>1 DEF Runs
    <3>3. y # NoRun
      BY <3>2, RunUpdates
    <3>4. run' = [run EXCEPT ![s] = y] /\ UNCHANGED <<file, lock, parent, pipe, status>>
      BY <2>2 DEF Signal
    <3> QED
      BY <1>0, <3>1, <3>2, <3>3, <3>4 DEF OwnTypes, Running, Serving
  <2> QED
    BY <2>1, <2>2
<1>2. \A r \in Starters : r # s => pipe'[r] = pipe[r]
  BY <1>0, <1>1 DEF OwnTypes
<1>3. OwnTypes' /\ OthersKept(s)
  BY <1>0, <1>1, <1>2 DEF OwnTypes, OthersKept, lock, parent
<1>4. Placed(s)' /\ Described(s)'
  BY <1>1 DEF Placed, Described, Running, lock, parent
<1>5. Reported(s)'
  <2>1. CASE pipe' = pipe
    BY <1>1, <2>1 DEF Reported, Running, parent
  <2>2. CASE /\ pipe' = [pipe EXCEPT ![s] = pc[s] # "exited" /\ s \notin Foreground]
             /\ run'[s].phase = "reading"
    <3>1. pipe'[s] => pc[s] # "exited" /\ s \notin Foreground
      BY <1>0, <2>2 DEF OwnTypes
    <3>2. pc[s] \in {"started", "waiting", "serving", "exited"}
      BY <1>0, <1>1 DEF OwnTypes, Placed
    <3>3. pipe'[s] => pc[s] \in {"started", "waiting"}
      BY <3>1, <3>2 DEF Placed
    <3> QED
      BY <1>1, <2>2, <3>3 DEF Reported, Running, parent
  <2> QED
    BY <1>1, <2>1, <2>2
<1> QED
  BY <1>1, <1>3, <1>4, <1>5 DEF LockTaken, lock

LEMMA KillOwn ==
    ASSUME TypeOK, NEW s \in Starters, OwnInv(s), Kill(s)
    PROVE  OwnTypes' /\ OthersKept(s) /\ OwnInv(s)' /\ LockTaken(s)
<1> USE DEF OwnInv
<1>0. OwnTypes /\ "killed" \in Codes
  BY DEF TypeOK, OwnTypes, Codes
<1>1. CASE Running(s) /\ RunEnds(s, "killed")
  BY <1>0, <1>1, RunEndsOwn
<1>2. CASE pc[s] \notin {"idle", "serving", "exited"} /\ Exit(s, "killed") /\ UNCHANGED run
  <2>1. /\ OwnTypes' /\ OthersKept(s) /\ run' = run
        /\ pc'[s] = "exited" /\ exit'[s] = "killed" /\ ~pipe'[s]
        /\ holders'[s] = holders[s] \ {"first"}
        /\ holders'[s] = {} => fd'[s] = NoFile /\ ~locked'[s] /\ ~written'[s]
        /\ holders'[s] # {} => fd'[s] = fd[s] /\ locked'[s] = locked[s]
        /\ locked'[s] => locked[s] /\ fd'[s] = fd[s]
    BY <1>0, <1>2, Exits DEF OwnTypes
  <2>2. Placed(s)'
    BY <1>2, <2>1 DEF Placed, Running, Serving, Runner
  <2>3. Described(s)' /\ Reported(s)'
    BY <1>2, <2>1, <2>2 DEF Described, Placed, Reported, Running, Serving
  <2> QED
    BY <2>1, <2>2, <2>3 DEF LockTaken
<1> QED
  BY <1>1, <1>2 DEF Kill

LEMMA OwnStep ==
    ASSUME TypeOK, NEW s \in Starters, OwnInv(s), StepOf(s)
    PROVE  OwnTypes' /\ OthersKept(s) /\ OwnInv(s)' /\ LockTaken(s)
  BY LaunchOwn, AcquireOwn, LifecycleOwn, RunDaemonOwn, KillOwn DEF StepOf

(***************************************************************************)
(* The name, and the rest of the shared state.                             *)
(***************************************************************************)

\* One keeper at most, and it holds a file's inode.
LEMMA OneKeeper ==
    ASSUME TypeOK, DaemonInv, NEW s \in Starters, Keeper(s)
    PROVE  /\ locked[s] /\ path = fd[s] /\ path # NoFile
           /\ \A r \in Starters : locked[r] /\ fd[r] = path => r = s
           /\ \A r \in Starters : Keeper(r) => r = s
<1>1. \A r \in Starters : Keeper(r) => locked[r] /\ path = fd[r] /\ holders[r] # {} /\ fd[r] # NoFile
  BY DEF DaemonInv, Placed, Described, NameKept, Keeper, Runner
<1> QED
  BY <1>1 DEF DaemonInv, LocksExclude

LEMMA LocksStillExclude ==
    ASSUME TypeOK, DaemonInv, NEW s \in Starters, OthersKept(s), LockTaken(s)
    PROVE  LocksExclude'
<1> SUFFICES ASSUME NEW r \in Starters, NEW q \in Starters,
                    locked'[r], locked'[q], fd'[r] = fd'[q], r # q
             PROVE  FALSE
  BY DEF LocksExclude
<1>1. CASE r # s /\ q # s
  BY <1>1 DEF OthersKept, DaemonInv, LocksExclude
<1>2. ASSUME NEW p \in Starters \ {s}, locked'[p], locked'[s], fd'[p] = fd'[s]
      PROVE  FALSE
  <2>1. locked[p] /\ fd[p] = fd[s] /\ (locked[s] \/ ~Held(fd[s]))
    BY <1>2 DEF OthersKept, LockTaken
  <2> QED
    BY <2>1 DEF Held, DaemonInv, LocksExclude
<1> QED
  BY <1>1, <1>2

\* The name is s's afterwards, if s is a keeper then.
NameIsOwn(s) ==
    Keeper(s) => path = fd[s] /\ (Serving(s) /\ written[s] => named = RunPid(s))

\* A first process that ends leaves a child's inode and its writePid alone.
LEMMA ExitKeepsName ==
    ASSUME TypeOK, DaemonInv, NEW s \in Starters, NEW c \in Codes, Exit(s, c),
           pc[s] # "serving", UNCHANGED <<file, run>>
    PROVE  NameIsOwn(s)'
<1>0. OwnTypes /\ "first" \in Processes /\ Drop(s, "first")
  BY DEF TypeOK, OwnTypes, Processes, Exit
<1>1. pc'[s] = "exited" /\ holders'[s] = holders[s] \ {"first"} /\ OwnTypes'
  BY <1>0, Exits DEF OwnTypes
<1>2. /\ holders'[s] = {} => fd'[s] = NoFile /\ ~locked'[s] /\ ~written'[s]
      /\ holders'[s] # {} => fd'[s] = fd[s] /\ written'[s] = written[s]
  BY <1>0, Drops
<1>3. ASSUME Keeper(s)'
      PROVE  Serving(s) /\ Serving(s)' /\ holders'[s] # {}
  <2>1. Serving(s)' /\ Serving(s)
    BY <1>1, <1>3 DEF Keeper, Serving, Running
  <2>2. s \notin Foreground /\ Runner(s) \in holders[s]
    <3>1. s \in Foreground => pc[s] = "serving"
      BY <2>1 DEF DaemonInv, Placed, Serving
    <3> QED
      BY <2>1, <3>1 DEF DaemonInv, Placed, Serving
  <2> QED
    BY <1>1, <2>1, <2>2 DEF Runner
<1> QED
  BY <1>2, <1>3 DEF NameIsOwn, DaemonInv, NameKept, Keeper, file, RunPid

\* Where the name leads is changed by an opening command that finds none, and
\* by a keeper that removes its own.
LEMMA NameStep ==
    ASSUME TypeOK, DaemonInv, NEW s \in Starters, StepOf(s)
    PROVE  /\ path' \in Inodes \union {NoFile} /\ named' \in Pids \union {NoPid}
           /\ NameIsOwn(s)'
           /\ \A r \in Starters \ {s} : Keeper(r) =>
                 path' = path /\ (named' = named \/ ~Serving(r))
<1> DEFINE Goal ==
       /\ path' \in Inodes \union {NoFile} /\ named' \in Pids \union {NoPid}
       /\ NameIsOwn(s)'
       /\ \A r \in Starters \ {s} : Keeper(r) => path' = path /\ (named' = named \/ ~Serving(r))
<1>0. /\ path \in Inodes \union {NoFile} /\ named \in Pids \union {NoPid}
      /\ RunPid(s) \in Pids /\ OwnInv(s) /\ OwnTypes
  BY DEF TypeOK, OwnTypes, OwnInv, DaemonInv, RunPid, Runner, Pids, Processes
<1>1. ASSUME UNCHANGED file, NameIsOwn(s)' PROVE Goal
  BY <1>0, <1>1 DEF file
<1>2. CASE Launch(s) /\ run' = run
  <2>1. UNCHANGED file /\ ~Keeper(s)'
    BY <1>0, <1>2 DEF Launch, OwnTypes, Keeper, Serving, Running
  <2> QED
    BY <1>1, <2>1 DEF NameIsOwn
<1>3. CASE RefuseSettings(s) /\ run' = run
  BY <1>1, <1>3, ExitKeepsName DEF RefuseSettings, Codes
<1>4. CASE (AlreadyRunning(s) \/ GiveUp(s)) /\ run' = run
  BY <1>1, <1>4, ExitKeepsName DEF AlreadyRunning, GiveUp, Codes
<1>5. CASE OpenPidFile(s) /\ run' = run
  <2>1. ~Keeper(s)'
    BY <1>0, <1>5 DEF OpenPidFile, Go, OwnInv, Placed, OwnTypes, Keeper, Serving, Running
  <2>2. CASE path # NoFile
    BY <1>1, <1>5, <2>1, <2>2 DEF OpenPidFile, NameIsOwn
  <2>3. CASE path = NoFile
    <3>1. \A r \in Starters : ~Keeper(r)
      BY <2>3, OneKeeper
    <3>2. path' \in Inodes /\ named' = NoPid
      BY <1>5, <2>3 DEF OpenPidFile
    <3> QED
      BY <2>1, <3>1, <3>2 DEF NameIsOwn
  <2> QED
    BY <2>2, <2>3
<1>6. CASE Flock(s) /\ run' = run
  <2>1. UNCHANGED file /\ ~Keeper(s)'
    BY <1>0, <1>6 DEF Flock, Go, OwnInv, Placed, OwnTypes, Keeper, Serving, Running
  <2> QED
    BY <1>1, <2>1 DEF NameIsOwn
<1>7. CASE Ghost(s) /\ run' = run
  <2>1. UNCHANGED file /\ ~Keeper(s)'
    BY <1>0, <1>7 DEF Ghost, Go, OwnInv, Placed, OwnTypes, Keeper, Serving, Running
  <2> QED
    BY <1>1, <2>1 DEF NameIsOwn
<1>8. CASE Won(s) /\ run' = run
  <2>1. UNCHANGED <<file, lock>> /\ path = fd[s] /\ ~Serving(s)'
    BY <1>8, <1>0 DEF Won, Go, SameFile, OwnInv, Placed, Serving, Running
  <2> QED
    BY <1>1, <2>1 DEF NameIsOwn, file, lock
<1>9. CASE Spawn(s) \/ SpawnFails(s)
  <2>1. /\ UNCHANGED <<file, fd, written>> /\ pc[s] = "won"
    BY <1>9 DEF Spawn, SpawnFails, Go, lock
  <2>2. path = fd[s] /\ ~written[s]
    BY <2>1, OneKeeper, <1>0 DEF Keeper, OwnInv, Described
  <2> QED
    BY <1>1, <2>1, <2>2 DEF NameIsOwn, file
<1>10. CASE Abandon(s)
  <2>1. CASE Go(s, "abandon", "abandoned") /\ RemovePidFile /\ UNCHANGED run
    <3>1. path' = NoFile /\ named' = NoPid /\ Keeper(s)
      BY <2>1 DEF RemovePidFile, Go, Keeper
    <3>2. ~Keeper(s)'
      BY <1>0, <2>1 DEF Go, OwnInv, Placed, OwnTypes, Keeper, Serving, Running
    <3> QED
      BY <3>1, <3>2, OneKeeper DEF NameIsOwn
  <2>2. CASE pc[s] = "abandoned" /\ (\E c \in {"usage", "runtime"} : Exit(s, c)) /\ UNCHANGED <<file, run>>
    BY <1>1, <2>2, ExitKeepsName DEF Codes
  <2> QED
    BY <1>10, <2>1, <2>2 DEF Abandon
<1>11. CASE WritePid(s)
  <2>1. pc[s] \in {"started", "won"} /\ locked[s]
    BY <1>0, <1>11 DEF WritePid, Go, OwnInv, Described
  <2>2. PICK ok \in BOOLEAN :
           /\ written' = [written EXCEPT ![s] = ok]
           /\ named' = IF path # fd[s] THEN named ELSE IF ok THEN RunPid(s) ELSE NoPid
    BY <1>11 DEF WritePid
  <2>3. UNCHANGED <<path, fd>> /\ written'[s] = ok
    BY <1>0, <1>11, <2>2 DEF WritePid, OwnTypes
  <2>4. path # fd[s] => ~Keeper(s) /\ ~Keeper(s)'
    <3>1. path # fd[s] => ~Keeper(s)
      BY OneKeeper
    <3>2. ASSUME path # fd[s]
          PROVE  pc'[s] = "waiting" /\ run' = run
      BY <1>0, <1>11, <2>1, <3>1, <3>2 DEF WritePid, Go, Keeper, OwnTypes
    <3> QED
      BY <3>1, <3>2 DEF Keeper, Serving, Running
  <2>5. NameIsOwn(s)'
    BY <2>2, <2>3, <2>4 DEF NameIsOwn, RunPid
  <2>6. \A r \in Starters \ {s} : Keeper(r) => path # fd[s]
    BY <2>1, OneKeeper
  <2> QED
    BY <1>0, <2>2, <2>3, <2>5, <2>6
<1>12. CASE ReadPipe(s)
  <2>1. UNCHANGED <<file, run>> /\ pc[s] # "serving" /\ \E c \in Codes : Exit(s, c)
    BY <1>12 DEF ReadPipe, Codes
  <2> QED
    BY <1>1, <2>1, ExitKeepsName
<1>13. CASE Remove(s) \/ CloseLock(s)
  <2>1. PICK p \in {"over", "removed"}, q \in {"removed", "closed"} :
           run[s].phase = p /\ run' = [run EXCEPT ![s].phase = q] /\ (p = "over" => Remove(s))
    BY <1>13 DEF Remove, CloseLock, Step
  <2>2. run[s] # NoRun
    BY <2>1 DEF NoRun
  <2>3. run[s] \in Runs
    BY <1>0, <2>2 DEF OwnTypes
  <2>4. run'[s].phase = q
    BY <1>0, <2>1, <2>3 DEF OwnTypes, Runs
  <2>5. ~Keeper(s)'
    <3>1. pc'[s] = pc[s]
      BY <1>13 DEF Remove, CloseLock, parent
    <3>2. pc[s] \notin {"won", "abandon"}
      BY <1>0, <2>2 DEF OwnInv, Placed, Running
    <3> QED
      BY <2>1, <2>4, <3>1, <3>2 DEF Keeper, Serving
  <2>6. CASE Remove(s)
    <3>1. path' = NoFile /\ named' = NoPid /\ run[s].phase = "over"
      BY <2>6 DEF Remove, RemovePidFile, Step
    <3>2. Keeper(s)
      BY <2>2, <3>1 DEF Keeper, Serving, Running
    <3> QED
      BY <2>5, <3>1, <3>2, OneKeeper DEF NameIsOwn
  <2>7. CASE CloseLock(s)
    BY <1>1, <2>5, <2>7 DEF CloseLock, NameIsOwn
  <2> QED
    BY <1>13, <2>6, <2>7
<1>14. ASSUME NEW c \in Codes \union {"none"}, Running(s), RunEnds(s, c), UNCHANGED file
       PROVE  Goal
  <2>1. ~Running(s)' /\ OwnInv(s)'
    BY <1>0, <1>14, RunEndsOwn
  <2>2. pc'[s] \notin {"won", "abandon"}
    <3>1. CASE s \in Foreground
      BY <1>0, <1>14, <3>1 DEF RunEnds, Exit, OwnTypes
    <3>2. CASE s \notin Foreground
      BY <1>0, <1>14, <3>2 DEF RunEnds, parent, OwnInv, Placed
    <3> QED
      BY <3>1, <3>2
  <2>3. ~Keeper(s)'
    BY <2>1, <2>2 DEF Keeper, Serving
  <2> QED
    BY <1>1, <1>14, <2>3 DEF NameIsOwn
<1>15. CASE Leave(s)
  <2>1. run[s].phase = "closed" /\ RunEnds(s, run[s].code) /\ UNCHANGED file
    BY <1>15 DEF Leave
  <2>2. run[s] # NoRun
    BY <2>1 DEF NoRun
  <2>3. Running(s) /\ run[s].code \in Codes \union {"none"}
    BY <1>0, <2>2 DEF OwnTypes, Running, Runs
  <2> QED
    BY <1>14, <2>1, <2>3
<1>16. CASE RunDaemon(s) \/ Signal(s)
  <2>1. UNCHANGED <<file, lock, parent>> /\ (Serving(s)' <=> Serving(s))
    BY <1>0, <1>16, RunDaemonOwn
  <2>2. NameIsOwn(s)'
    BY <2>1 DEF NameIsOwn, DaemonInv, NameKept, Keeper, file, lock, parent, RunPid
  <2> QED
    BY <1>1, <2>1, <2>2
<1>17. CASE Kill(s)
  <2>1. CASE Running(s) /\ RunEnds(s, "killed") /\ UNCHANGED file
    BY <1>14, <2>1 DEF Codes
  <2>2. CASE pc[s] \notin {"idle", "serving", "exited"} /\ Exit(s, "killed") /\ UNCHANGED <<file, run>>
    BY <1>1, <2>2, ExitKeepsName DEF Codes
  <2> QED
    BY <1>17, <2>1, <2>2 DEF Kill
<1> QED
  <2>1. CASE (Launch(s) \/ RefuseSettings(s) \/ Acquire(s)) /\ run' = run
    BY <1>2, <1>3, <1>4, <1>5, <1>6, <1>7, <1>8, <2>1 DEF Acquire
  <2>2. CASE Lifecycle(s)
    BY <1>9, <1>10, <1>11, <1>12, <1>13, <1>15, <2>2 DEF Lifecycle
  <2> QED
    BY <1>16, <1>17, <2>1, <2>2 DEF StepOf

(***************************************************************************)
(* Every step.                                                             *)
(***************************************************************************)

LEMMA DaemonTypeStep ==
    ASSUME TypeOK, DaemonInv, NEW s \in Starters, StepOf(s)
    PROVE  TypeOK'
<1>1. OwnTypes'
  BY OwnStep DEF DaemonInv, OwnInv
<1>2. path' \in Inodes \union {NoFile} /\ named' \in Pids \union {NoPid}
  BY NameStep
<1>3. /\ where' \in [Tables -> {"committed", "staged", "quarantined"}]
      /\ kills' \in 0..MaxKills
  <2>1. CASE RunDaemon(s)
    BY <2>1, RunDaemonFrame DEF resting, TypeOK
  <2>2. CASE Kill(s)
    BY <2>2, DaemonAssumption DEF Kill, TypeOK
  <2>3. CASE UNCHANGED <<where, kills>>
    BY <2>3 DEF TypeOK
  <2> QED
    BY <2>1, <2>2, <2>3 DEF StepOf, Signal
<1> QED
  BY <1>1, <1>2, <1>3 DEF TypeOK, OwnTypes

LEMMA DaemonStep ==
    ASSUME TypeOK, DaemonInv, NEW s \in Starters, StepOf(s)
    PROVE  DaemonInv'
<1>1. /\ OthersKept(s) /\ OwnInv(s)' /\ LockTaken(s)
  BY OwnStep DEF DaemonInv, OwnInv
<1>2. ASSUME NEW r \in Starters
      PROVE  Placed(r)' /\ Described(r)' /\ Reported(r)'
  <2>1. CASE r = s
    BY <1>1, <2>1 DEF OwnInv
  <2>2. CASE r # s
    <3>1. Placed(r) /\ Described(r) /\ Reported(r)
      BY DEF DaemonInv
    <3>2. /\ pc'[r] = pc[r] /\ fd'[r] = fd[r] /\ holders'[r] = holders[r]
          /\ locked'[r] = locked[r] /\ written'[r] = written[r] /\ pipe'[r] = pipe[r]
          /\ run'[r] = run[r] /\ exit'[r] = exit[r]
      BY <1>1, <2>2 DEF OthersKept
    <3> QED
      BY <3>1, <3>2 DEF Placed, Described, Reported, Running, Serving, Runner
  <2> QED
    BY <2>1, <2>2
<1>3. LocksExclude'
  BY <1>1, LocksStillExclude
<1>4. ASSUME NEW r \in Starters
      PROVE  NameIsOwn(r)'
  <2>1. CASE r = s
    BY <2>1, NameStep
  <2>2. CASE r # s
    <3>1. NameIsOwn(r)
      BY DEF NameIsOwn, DaemonInv, NameKept
    <3>2. /\ pc'[r] = pc[r] /\ fd'[r] = fd[r] /\ written'[r] = written[r] /\ run'[r] = run[r]
      BY <1>1, <2>2 DEF OthersKept
    <3>3. Keeper(r) => path' = path /\ (named' = named \/ ~Serving(r))
      BY <2>2, NameStep
    <3>4. (Keeper(r)' <=> Keeper(r)) /\ (Serving(r)' <=> Serving(r))
      BY <3>2 DEF Keeper, Serving, Running
    <3> QED
      BY <3>1, <3>2, <3>3, <3>4 DEF NameIsOwn, RunPid
  <2> QED
    BY <2>1, <2>2
<1>5. NameKept'
  BY <1>4 DEF NameKept, NameIsOwn
<1> QED
  BY <1>2, <1>3, <1>5 DEF DaemonInv

LEMMA NextIsOwn == Next => \E s \in Starters : StepOf(s)
  BY DEF Next, StepOf

LEMMA DaemonInitInv == Init => DaemonInv
<1> SUFFICES ASSUME Init PROVE DaemonInv
  OBVIOUS
<1>1. ASSUME NEW s \in Starters
      PROVE  /\ pc[s] = "idle" /\ holders[s] = {} /\ run[s] = NoRun /\ fd[s] = NoFile
             /\ ~locked[s] /\ ~written[s] /\ ~pipe[s] /\ exit[s] = "none"
  BY DEF Init
<1> QED
  BY <1>1 DEF DaemonInv, Placed, Described, Reported, LocksExclude, NameKept, Keeper, Serving, Running

LEMMA DaemonStutter == TypeOK /\ DaemonInv /\ UNCHANGED vars => TypeOK' /\ DaemonInv'
<1> SUFFICES ASSUME TypeOK, DaemonInv, UNCHANGED vars
             PROVE  TypeOK' /\ DaemonInv'
  OBVIOUS
<1> USE DEF vars, file, lock, parent
<1>1. TypeOK'
  BY DEF TypeOK
<1>2. LocksExclude'
  BY DEF DaemonInv, LocksExclude
<1>3. \A s \in Starters : Placed(s)' /\ Described(s)' /\ Reported(s)'
  BY DEF DaemonInv, Placed, Described, Reported, Running, Serving, Runner
<1>4. NameKept'
  BY DEF DaemonInv, NameKept, Keeper, Serving, Running, RunPid
<1> QED
  BY <1>1, <1>2, <1>3, <1>4 DEF DaemonInv

LEMMA DaemonInductive == TypeOK /\ DaemonInv /\ [Next]_vars => TypeOK' /\ DaemonInv'
<1> SUFFICES ASSUME TypeOK, DaemonInv, [Next]_vars
             PROVE  TypeOK' /\ DaemonInv'
  OBVIOUS
<1>1. CASE UNCHANGED vars
  BY <1>1, DaemonStutter
<1>2. CASE Next
  <2> PICK s \in Starters : StepOf(s)
    BY <1>2, NextIsOwn
  <2> QED
    BY DaemonTypeStep, DaemonStep
<1> QED
  BY <1>1, <1>2

LEMMA DaemonAlways == Spec => [](TypeOK /\ DaemonInv)
<1>1. Init => TypeOK /\ DaemonInv
  BY DaemonInit, DaemonInitInv
<1> QED
  BY <1>1, DaemonInductive, PTL DEF Spec

\* The processes of any number of commands keep the state well typed.
THEOREM DaemonTypeCorrect == Spec => []TypeOK
  BY DaemonAlways, PTL

\* However many commands are typed over one pid file, and whichever processes
\* are killed between any two of their steps, the daemon whose run has begun and
\* that has not yet removed the file is the only one, and it holds the lock of
\* the inode that the pid file's path leads to (acquirePidLock, writePid).
THEOREM OneDaemonAlways == Spec => []OneDaemon
<1>1. TypeOK /\ DaemonInv => OneDaemon
  <2> SUFFICES ASSUME TypeOK, DaemonInv, NEW s \in Starters, Serving(s)
               PROVE  /\ path = fd[s] /\ locked[s]
                      /\ written[s] => named = RunPid(s)
                      /\ \A r \in Starters : Serving(r) => r = s
    BY DEF OneDaemon
  <2>1. Keeper(s) /\ \A r \in Starters : Serving(r) => Keeper(r)
    BY DEF Keeper
  <2>2. path = fd[s] /\ locked[s] /\ \A r \in Starters : Serving(r) => r = s
    BY <2>1, OneKeeper
  <2> QED
    BY <2>1, <2>2 DEF DaemonInv, NameKept
<1> QED
  BY <1>1, DaemonAlways, PTL

\* What a backgrounding command answers is true of its child, also when the
\* child outlives or dies before its parent reads the pipe: zero with a running
\* child means every table is open, an error means nothing of it runs
\* (daemonize, report).
THEOREM ReportsAreTrueAlways == Spec => []ReportsAreTrue
<1>1. DaemonInv => ReportsAreTrue
  BY DEF DaemonInv, Reported, ReportsAreTrue
<1> QED
  BY <1>1, DaemonAlways, PTL

(***************************************************************************)
(* The drain and its exit code.                                            *)
(***************************************************************************)

\* A step of runDaemon keeps what its drain has settled; records are staged only
\* by a run that reads; and the code is zero only behind a drain that settled
\* every table.
LEMMA RunDaemonSettles ==
    ASSUME TypeOK, NEW s \in Starters, Settled(s), RunDaemon(s)
    PROVE  /\ Settled(s)'
           /\ \A t \in Tables : where'[t] = "staged" => where[t] = "staged" \/ run[s].phase = "reading"
           /\ run[s].code # "ok" /\ run'[s].code = "ok" =>
                 run[s].notice = {} /\ \A t \in Tables : where[t] # "staged"
<1> DEFINE x == run[s]
<1>0. /\ x \in Runs /\ Running(s) /\ run \in [Starters -> Runs \union {NoRun}]
      /\ where \in [Tables -> {"committed", "staged", "quarantined"}]
      /\ run'[s] # NoRun
  BY RunDaemonFrame DEF RunDaemon, Running, TypeOK
<1>1. ASSUME NEW y, run' = [run EXCEPT ![s] = y]
      PROVE  run'[s] = y
  BY <1>0, <1>1
<1>2. CASE OpenStore(s) /\ UNCHANGED where
  <2>1. CASE Step(s, "opening", "tables")
    <3>1. run'[s] = [x EXCEPT !.phase = "tables"] /\ x.phase = "opening"
      BY <1>0, <2>1 DEF Step
    <3>2. /\ run'[s].phase = "tables" /\ run'[s].code = x.code
      BY <1>0, <3>1 DEF Runs
    <3> QED
      BY <1>0, <1>2, <3>1, <3>2 DEF Settled, Running
  <2>2. CASE \E c \in {"usage", "runtime"} : End(s, "opening", c)
    <3> PICK c \in {"usage", "runtime"} : End(s, "opening", c)
      BY <2>2
    <3>1. run'[s] = [x EXCEPT !.phase = "over", !.code = c]
      BY <1>0 DEF End
    <3>2. run'[s].phase = "over" /\ run'[s].code = c
      BY <1>0, <3>1 DEF Runs
    <3> QED
      BY <1>0, <1>2, <3>2 DEF Settled, Running
  <2> QED
    BY <1>2, <2>1, <2>2 DEF OpenStore
<1>3. CASE OpenWriterFails(s)
  <2>1. run'[s] = [x EXCEPT !.phase = "over", !.code = "runtime", !.opened = {}]
    BY <1>0, <1>3 DEF OpenWriterFails
  <2>2. run'[s].phase = "over" /\ run'[s].code = "runtime"
    BY <1>0, <2>1 DEF Runs
  <2>3. \A t \in Tables : where'[t] = "staged" => where[t] = "staged"
    BY <1>0, <1>3 DEF OpenWriterFails, Commit, Runs
  <2> QED
    BY <2>2, <2>3 DEF Settled
<1>4. CASE OpenWriter(s) /\ UNCHANGED where
  <2> PICK t \in Tables : run' = [run EXCEPT ![s].opened = @ \union {t}] /\ x.phase = "tables"
    BY <1>4 DEF OpenWriter
  <2>1. run'[s] = [x EXCEPT !.opened = @ \union {t}]
    BY <1>0
  <2>2. run'[s].phase = "tables" /\ run'[s].code = x.code
    BY <1>0, <2>1 DEF Runs
  <2> QED
    BY <1>0, <1>4, <2>2 DEF Settled, Running
<1>5. CASE AllOpen(s) /\ UNCHANGED where
  <2>1. run'[s] = [x EXCEPT !.phase = "reading"] /\ x.opened = Tables /\ x.phase = "tables"
    BY <1>0, <1>5 DEF AllOpen, Step
  <2>2. run'[s].phase = "reading" /\ run'[s].code = x.code /\ run'[s].opened = Tables
    BY <1>0, <2>1 DEF Runs
  <2> QED
    BY <1>0, <1>5, <2>1, <2>2 DEF Settled, Running
<1>6. CASE Accept(s)
  <2>1. run' = run /\ x.phase = "reading"
    BY <1>6 DEF Accept
  <2> QED
    BY <2>1 DEF Settled, Running
<1>7. CASE Flush(s)
  <2>1. PICK t \in x.opened : \/ Commit(t) /\ UNCHANGED run
                              \/ /\ where[t] = "staged" /\ where' = [where EXCEPT ![t] = "quarantined"]
                                 /\ run' = [run EXCEPT ![s].notice = @ \union {t}]
    BY <1>7 DEF Flush
  <2>2. \A u \in Tables : where'[u] = "staged" => where[u] = "staged"
    BY <1>0, <2>1 DEF Commit, Runs
  <2>3. CASE run' = run
    BY <2>2, <2>3 DEF Settled, Running
  <2>4. CASE run' = [run EXCEPT ![s].notice = @ \union {t}]
    <3>1. run'[s] = [x EXCEPT !.notice = @ \union {t}]
      BY <1>0, <2>4
    <3>2. /\ run'[s].phase = x.phase /\ run'[s].code = x.code /\ run'[s].opened = x.opened
          /\ run'[s].failed = x.failed /\ run'[s].notice = x.notice \union {t}
      BY <1>0, <3>1 DEF Runs
    <3> QED
      BY <1>0, <2>2, <3>2 DEF Settled, Running
  <2> QED
    BY <2>1, <2>3, <2>4
<1>8. CASE RefuseRecord(s) /\ UNCHANGED where
  <2>1. run'[s] = [x EXCEPT !.phase = "over", !.code = "runtime"]
    BY <1>0, <1>8 DEF RefuseRecord, End
  <2>2. run'[s].phase = "over" /\ run'[s].code = "runtime"
    BY <1>0, <2>1 DEF Runs
  <2> QED
    BY <1>8, <2>2 DEF Settled
<1>9. CASE EndIngest(s) /\ UNCHANGED where
  <2>1. run'[s] = [x EXCEPT !.phase = "draining", !.bounded = x.signalled] /\ x.phase = "reading"
    BY <1>0, <1>9 DEF EndIngest
  <2>2. run'[s].phase = "draining" /\ run'[s].code = x.code /\ run'[s].opened = x.opened
    BY <1>0, <2>1 DEF Runs
  <2> QED
    BY <1>0, <1>9, <2>1, <2>2 DEF Settled, Running
<1>10. CASE StartClock(s) /\ UNCHANGED where
  <2>1. run'[s] = [x EXCEPT !.bounded = TRUE]
    BY <1>0, <1>10 DEF StartClock
  <2>2. /\ run'[s].phase = x.phase /\ run'[s].code = x.code /\ run'[s].opened = x.opened
        /\ run'[s].failed = x.failed /\ run'[s].notice = x.notice
    BY <1>0, <2>1 DEF Runs
  <2> QED
    BY <1>0, <1>10, <2>2 DEF Settled, Running
<1>11. CASE (CloseWriter(s) \/ CloseGivesUp(s)) /\ UNCHANGED where
  <2>1. PICK t \in x.opened :
           \/ CloseNil(s, t) /\ run' = [run EXCEPT ![s].opened = @ \ {t}]
           \/ run' = [run EXCEPT ![s].opened = @ \ {t}, ![s].failed = TRUE]
    BY <1>11 DEF CloseWriter, CloseGivesUp
  <2>2. x.phase = "draining"
    BY <1>11 DEF CloseWriter, CloseGivesUp
  <2>3. CASE CloseNil(s, t) /\ run' = [run EXCEPT ![s].opened = @ \ {t}]
    <3>1. run'[s] = [x EXCEPT !.opened = @ \ {t}]
      BY <1>0, <2>3
    <3>2. /\ run'[s].phase = x.phase /\ run'[s].code = x.code /\ run'[s].opened = x.opened \ {t}
          /\ run'[s].failed = x.failed /\ run'[s].notice = x.notice
      BY <1>0, <3>1 DEF Runs
    <3> QED
      BY <1>0, <1>11, <2>2, <2>3, <3>2 DEF Settled, Running, CloseNil
  <2>4. CASE run' = [run EXCEPT ![s].opened = @ \ {t}, ![s].failed = TRUE]
    <3>1. run'[s] = [x EXCEPT !.opened = @ \ {t}, !.failed = TRUE]
      BY <1>0, <2>4
    <3>2. /\ run'[s].phase = x.phase /\ run'[s].code = x.code /\ run'[s].failed
      BY <1>0, <3>1 DEF Runs
    <3> QED
      BY <1>0, <1>11, <2>2, <3>2 DEF Settled, Running
  <2> QED
    BY <2>1, <2>3, <2>4
<1>12. CASE Drained(s) /\ UNCHANGED where
  <2>1. run'[s] = [x EXCEPT !.phase = "storeclose"] /\ x.phase = "draining" /\ x.opened = {}
    BY <1>0, <1>12 DEF Drained, Step
  <2>2. /\ run'[s].phase = "storeclose" /\ run'[s].code = x.code /\ run'[s].opened = x.opened
        /\ run'[s].failed = x.failed /\ run'[s].notice = x.notice
    BY <1>0, <2>1 DEF Runs
  <2> QED
    BY <1>0, <1>12, <2>1, <2>2 DEF Settled, Running
<1>13. CASE CloseStore(s) /\ UNCHANGED where
  <2> PICK c \in {"ok", "runtime"} : End(s, "storeclose", IF x.failed THEN "runtime" ELSE c)
    BY <1>13 DEF CloseStore
  <2> DEFINE d == IF x.failed THEN "runtime" ELSE c
  <2>1. run'[s] = [x EXCEPT !.phase = "over", !.code = d] /\ x.phase = "storeclose"
    BY <1>0 DEF End
  <2>2. run'[s].phase = "over" /\ run'[s].code = d
    BY <1>0, <2>1 DEF Runs
  <2>3. ~x.failed => x.notice = {} /\ \A t \in Tables : where[t] # "staged"
    BY <1>0, <2>1 DEF Settled, Running, Runs
  <2> QED
    BY <1>0, <1>13, <2>2, <2>3 DEF Settled, Running
<1> QED
  BY <1>2, <1>3, <1>4, <1>5, <1>6, <1>7, <1>8, <1>9, <1>10, <1>11, <1>12, <1>13 DEF RunDaemon, Proceed

\* Every other step of a starter stages nothing, and leaves a drain as it was or
\* behind it.
LEMMA OtherStepSettles ==
    ASSUME TypeOK, DaemonInv, NEW s \in Starters, Settled(s), StepOf(s), ~RunDaemon(s)
    PROVE  /\ Settled(s)' /\ where' = where
           /\ Running(s) /\ run'[s] # NoRun => run'[s].code = run[s].code
<1>0. OwnTypes /\ OwnInv(s) /\ where' = where
  BY DEF TypeOK, OwnTypes, DaemonInv, OwnInv, StepOf, Kill, Signal
<1>1. CASE run' = run
  BY <1>0, <1>1 DEF Settled, Running
<1>2. CASE (Spawn(s) \/ WritePid(s)) /\ run' # run
  <2>1. pc[s] = "won" /\ run'[s] = NewRun
    BY <1>0, <1>2 DEF Spawn, WritePid, Go, OwnTypes
  <2> QED
    BY <1>0, <2>1 DEF OwnInv, Placed, Settled, Running, NewRun
<1>3. CASE Remove(s) \/ CloseLock(s)
  <2>1. PICK q \in {"removed", "closed"} :
           /\ run' = [run EXCEPT ![s].phase = q] /\ run[s].phase # "none"
    BY <1>3 DEF Remove, CloseLock, Step
  <2>2. run[s] # NoRun
    BY <2>1 DEF NoRun
  <2>3. run'[s].phase = q /\ run'[s].code = run[s].code
    BY <1>0, <2>1, <2>2 DEF OwnTypes, Runs
  <2> QED
    BY <1>0, <2>3 DEF Settled
<1>4. CASE Leave(s) \/ (Kill(s) /\ run' # run)
  <2>1. run'[s] = NoRun
    BY <1>0, <1>4 DEF Leave, Kill, RunEnds, OwnTypes
  <2> QED
    BY <1>0, <2>1 DEF Settled, Running
<1>5. CASE Signal(s)
  <2>1. run[s] # NoRun /\ run' = [run EXCEPT ![s].signalled = TRUE]
    BY <1>5 DEF Signal, Running
  <2>2. /\ run'[s].phase = run[s].phase /\ run'[s].code = run[s].code
        /\ run'[s].opened = run[s].opened
        /\ run'[s].failed = run[s].failed /\ run'[s].notice = run[s].notice
    BY <1>0, <2>1 DEF OwnTypes, Runs
  <2> QED
    BY <1>0, <2>1, <2>2 DEF Settled, Running
<1> QED
  <2>1. CASE Lifecycle(s)
    BY <1>1, <1>2, <1>3, <1>4, <2>1 DEF Lifecycle, SpawnFails, Abandon, ReadPipe
  <2> QED
    BY <1>1, <1>4, <1>5, <2>1 DEF StepOf

LEMMA DrainsStep ==
    ASSUME TypeOK, DaemonInv, DrainsInv, NEW q \in Starters, StepOf(q)
    PROVE  DrainsInv'
<1> SUFFICES ASSUME NEW s \in Starters
             PROVE  Settled(s)'
  BY DEF DrainsInv
<1>0. Settled(s) /\ Settled(q)
  BY DEF DrainsInv
<1>1. CASE s = q
  BY <1>0, <1>1, RunDaemonSettles, OtherStepSettles
<1>2. CASE s # q
  <2>1. run'[s] = run[s]
    BY <1>2, OwnStep DEF DaemonInv, OwnInv, OthersKept
  <2>2. CASE Running(s) /\ run[s].phase \in {"draining", "storeclose"}
    <3>1. Keeper(s) /\ ~(Running(q) /\ run[q].phase = "reading")
      BY <1>2, <2>2, OneKeeper DEF Keeper, Serving
    <3>2. \A t \in Tables : where'[t] = "staged" => where[t] = "staged"
      BY <1>0, <3>1, RunDaemonSettles, OtherStepSettles DEF RunDaemon
    <3> QED
      BY <1>0, <2>1, <3>2 DEF Settled, Running
  <2>3. CASE ~(Running(s) /\ run[s].phase \in {"draining", "storeclose"})
    BY <1>0, <2>1, <2>3 DEF Settled, Running
  <2> QED
    BY <2>2, <2>3
<1> QED
  BY <1>1, <1>2

LEMMA DrainsInductive == TypeOK /\ DaemonInv /\ DrainsInv /\ [Next]_vars => DrainsInv'
<1> SUFFICES ASSUME TypeOK, DaemonInv, DrainsInv, [Next]_vars
             PROVE  DrainsInv'
  OBVIOUS
<1>1. CASE UNCHANGED vars
  BY <1>1 DEF DrainsInv, Settled, Running, vars
<1>2. CASE Next
  BY <1>2, NextIsOwn, DrainsStep
<1> QED
  BY <1>1, <1>2

\* A run's exit code becomes zero only when no record, of this run or of an
\* earlier one whose process was killed, is staged any more and every quarantine
\* of its own was told: nobody stages behind a drain, whatever other commands do
\* meanwhile (drainAndClose, drain, runDaemon).
THEOREM ExitZeroIsCommitted == Spec => ExitZeroMeansCommitted
<1> DEFINE ZeroStep ==
       \A s \in Starters :
         Running(s) /\ run[s].code # "ok" /\ run'[s] # NoRun /\ run'[s].code = "ok" =>
           run[s].notice = {} /\ \A t \in Tables : where[t] # "staged"
<1>1. Init => DrainsInv
  BY DEF Init, DrainsInv, Settled, Running
<1>2. TypeOK /\ DaemonInv /\ DrainsInv /\ [Next]_vars => [ZeroStep]_vars
  <2> SUFFICES ASSUME TypeOK, DaemonInv, DrainsInv, Next, NEW s \in Starters,
                      Running(s), run[s].code # "ok", run'[s] # NoRun, run'[s].code = "ok"
               PROVE  run[s].notice = {} /\ \A t \in Tables : where[t] # "staged"
    OBVIOUS
  <2>1. PICK q \in Starters : StepOf(q)
    BY NextIsOwn
  <2>2. s = q
    BY <2>1, OwnStep DEF DaemonInv, OwnInv, OthersKept
  <2>3. Settled(s)
    BY DEF DrainsInv
  <2> QED
    BY <2>1, <2>2, <2>3, RunDaemonSettles, OtherStepSettles
<1>3. Spec => [](TypeOK /\ DaemonInv /\ DrainsInv)
  BY <1>1, DaemonAlways, DrainsInductive, PTL DEF Spec
<1>4. Spec => [][ZeroStep]_vars
  BY <1>2, <1>3, PTL DEF Spec
<1> QED
  BY <1>4 DEF ExitZeroMeansCommitted

(***************************************************************************)
(* The three commands.  One is typed, so what was told is one of three     *)
(* answers to the deployment, in one of the worlds; what is left is what   *)
(* the answers have in common.  run, check and rebuild resolve one         *)
(* environment: all that can differ is what each of them asks of it.       *)
(***************************************************************************)

\* What the command typed told, by the operator that answers for it.
Answered ==
    \/ said = Silent
    \/ \E w \in Worlds : \E c \in launch(deployment, w) :
          said = [cmd |-> "run", world |-> w, code |-> c, verdict |-> "none", tables |-> {}]
    \/ \E w \in Worlds :
          said = [cmd |-> "check", world |-> w, code |-> runCheck(deployment, w).code,
                  verdict |-> runCheck(deployment, w).verdict, tables |-> {}]
    \/ \E w \in Worlds, replace, dryRun \in BOOLEAN :
          LET code == runRebuild(deployment, w, replace, dryRun)
          IN said = [cmd |-> "rebuild", world |-> w, code |-> code, verdict |-> "none",
                     tables |-> IF code = "ok" THEN discovered(w) ELSE {}]

\* Every answer is of the operator of the command that was typed.
LEMMA AnsweredAlways == SetupSpec => []Answered
<1>1. SetupInit => Answered
  BY DEF SetupInit, Answered
<1>2. Answered /\ [SetupNext]_setup => Answered'
  <2>1. CASE UNCHANGED setup
    BY <2>1 DEF Answered, setup
  <2>2. SUFFICES ASSUME SetupNext PROVE Answered'
    BY <2>1
  <2>3. deployment' = deployment
    BY <2>2 DEF SetupNext
  <2>4. CASE Run
    BY <2>3, <2>4 DEF Run, Told, Answered
  <2>5. CASE Check
    BY <2>3, <2>5 DEF Check, Told, Answered
  <2>6. CASE Rebuild
    BY <2>3, <2>6 DEF Rebuild, Told, Answered
  <2> QED
    BY <2>2, <2>4, <2>5, <2>6 DEF SetupNext
<1> QED
  BY <1>1, <1>2, PTL DEF SetupSpec

\* A table that rebuild can register is one that check finds: the file it
\* registers is the first that is not torn, and it parses.
LEMMA RegisteredIsFound ==
    ASSUME NEW files \in Seq(MetadataFiles), Registered(files) # {}
    PROVE  probeTable(files) = "exists"
<1> DEFINE standing == {i \in DOMAIN files : files[i] # "torn"}
           first(c) == c \in standing /\ \A j \in standing : c <= j
<1>1. PICK i \in DOMAIN files : files[i] = "parses" /\ \A j \in 1..(i - 1) : files[j] = "torn"
  BY DEF Registered
<1>2. DOMAIN files = 1..Len(files) /\ Len(files) \in Nat
  OBVIOUS
<1>3. first(i)
  BY <1>1, <1>2
<1>4. ASSUME NEW c, first(c) PROVE c = i
  BY <1>2, <1>3, <1>4
<1>5. (CHOOSE c \in standing : \A j \in standing : c <= j) = i
  BY <1>3, <1>4
<1>6. files # <<>>
  BY <1>1
<1> QED
  BY <1>1, <1>3, <1>5, <1>6 DEF probeTable

\* A deployment that some world lets serve is one every parser, rule and
\* document check of run accepts.
LEMMA ServesIsAccepted ==
    ASSUME NEW d, Serves(d)
    PROVE  readSettings("run", d.env) = {} /\ loadTables(d.env, d.doc) /\ validate(Config(d)) = {}
BY DEF Serves, launch, runDaemon, OpenRefused

\* rebuild asks less of an environment than run.
LEMMA RebuildAsksLess ==
    ASSUME NEW e PROVE readSettings("rebuild", e) \subseteq readSettings("run", e)
<1>1. Matrix("rebuild", e) \subseteq Matrix("run", e)
  BY DEF Matrix
<1> QED
  BY <1>1 DEF readSettings

\* Where the library accepts a configuration, only the prefix "/" is refused.
LEMMA InspectionRefusesOnePrefix ==
    ASSUME NEW d, validate(Config(d)) = {}, ~Inspectable(Config(d))
    PROVE  d.env["prefix"] = Word("/")
<1> DEFINE c == Config(d)
<1>1. validateMode(c) = {}
  BY DEF validate
<1>2. ~c.LocalOnly
  <2>1. SUFFICES ASSUME c.LocalOnly, NEW f \in Forbidden, c[f] # Unset PROVE FALSE
    BY DEF Inspectable
  <2> QED
    BY <1>1, <2>1 DEF validateMode
<1>3. \A f \in {"CatalogPath", "Endpoint", "Bucket", "WarehousePrefix"} : c[f] # Unset
  BY <1>1, <1>2 DEF validateMode
<1>4. ValidateCredentials(c) = {}
  BY <1>1, <1>2 DEF validateMode
<1>5. c["Endpoint"] = c.Endpoint /\ c["Bucket"] = c.Bucket /\ c["WarehousePrefix"] = c.WarehousePrefix
  OBVIOUS
<1>6. c.WarehousePrefix # Unset /\ Trimmed(c.WarehousePrefix) = Unset
  BY <1>2, <1>3, <1>4, <1>5 DEF Inspectable
<1>7. c.WarehousePrefix = Word("/")
  BY <1>6 DEF Trimmed
<1>8. c.WarehousePrefix = Value(d.env, "prefix")
  BY DEF Config
<1>9. Defaults["prefix"] = Unset
  BY DEF Defaults, Given, EnvVars, BucketOnly
<1> QED
  BY <1>7, <1>8, <1>9 DEF Value, IsSet, Unset, Word

\* A calm world leaves a run that was let in nothing to fail at but the mirror.
LEMMA CalmRunFailsAtTheMirror ==
    ASSUME NEW d, NEW w \in Worlds, Calm(w), "runtime" \in launch(d, w)
    PROVE  MirrorRefuses(d)
<1>1. w.dir /\ w.pid = "free" /\ w.bucket /\ w.staging.file # "unreadable"
  BY DEF Calm
<1>2. "runtime" \in runDaemon(d, w)
  BY <1>1 DEF launch
<1>3. SUFFICES ASSUME Unread(d, w) PROVE FALSE
  BY <1>1, <1>2 DEF runDaemon, OpenRefused
<1>4. PICK n \in DOMAIN w.tables : probeTable(w.tables[n]) = "failed"
  BY <1>1, <1>3 DEF Unread
<1>5. Registered(w.tables[n]) # {}
  BY DEF Calm
<1>6. w.tables[n] \in Seq(MetadataFiles)
  BY WorldsAssumption
<1>7. probeTable(w.tables[n]) = "exists"
  BY <1>5, <1>6, RegisteredIsFound
<1> QED
  BY <1>4, <1>7

\* main.go's exit codes: 2 is of the deployment and of no world, for every
\* deployment and every world; and what a calm run fails at is the mirror.
THEOREM UsageIsForGood == SetupSpec => []RefusedForGood
<1>1. Answered => RefusedForGood
  <2> SUFFICES ASSUME Answered, said # Silent PROVE RefusedForGood
    BY DEF RefusedForGood
  <2> DEFINE d == deployment
  <2>1. CASE \E w \in Worlds : \E c \in launch(d, w) :
               said = [cmd |-> "run", world |-> w, code |-> c, verdict |-> "none", tables |-> {}]
    <3>0. PICK w \in Worlds : \E c \in launch(d, w) :
                 said = [cmd |-> "run", world |-> w, code |-> c, verdict |-> "none", tables |-> {}]
      BY <2>1
    <3>1. PICK c \in launch(d, w) :
                 said = [cmd |-> "run", world |-> w, code |-> c, verdict |-> "none", tables |-> {}]
      BY <3>0
    <3>2. said.cmd = "run" /\ said.code = c /\ said.world = w
      BY <3>1
    <3>3. c = "usage" => ~Serves(d)
      BY ServesIsAccepted DEF launch, runDaemon, OpenRefused
    <3>4. c = "runtime" /\ Calm(w) => MirrorRefuses(d)
      BY CalmRunFailsAtTheMirror
    <3> QED
      BY <3>2, <3>3, <3>4 DEF RefusedForGood
  <2>2. CASE \E w \in Worlds :
               said = [cmd |-> "check", world |-> w, code |-> runCheck(d, w).code,
                       verdict |-> runCheck(d, w).verdict, tables |-> {}]
    <3>1. PICK w \in Worlds :
               said = [cmd |-> "check", world |-> w, code |-> runCheck(d, w).code,
                       verdict |-> runCheck(d, w).verdict, tables |-> {}]
      BY <2>2
    <3>2. said.cmd = "check" /\ said.code = runCheck(d, w).code
      BY <3>1
    <3>3. ASSUME runCheck(d, w).code = "usage", Serves(d) PROVE d.env["prefix"] = Word("/")
      <4>1. ~Inspectable(Config(d))
        BY <3>3, ServesIsAccepted DEF runCheck
      <4> QED
        BY <3>3, <4>1, ServesIsAccepted, InspectionRefusesOnePrefix
    <3> QED
      BY <3>2, <3>3 DEF RefusedForGood
  <2>3. CASE \E w \in Worlds, replace, dryRun \in BOOLEAN :
               said = [cmd |-> "rebuild", world |-> w, code |-> runRebuild(d, w, replace, dryRun),
                       verdict |-> "none",
                       tables |-> IF runRebuild(d, w, replace, dryRun) = "ok"
                                  THEN discovered(w) ELSE {}]
    <3>1. PICK w \in Worlds, replace \in BOOLEAN, dryRun \in BOOLEAN :
                 said.cmd = "rebuild" /\ said.code = runRebuild(d, w, replace, dryRun)
      BY <2>3
    <3>2. LocalOnly(d.env) => \A v \in Worlds : runRebuild(d, v, TRUE, TRUE) = "usage"
      BY DEF runRebuild
    <3>3. ASSUME runRebuild(d, w, replace, dryRun) = "usage", ~LocalOnly(d.env) PROVE ~Serves(d)
      BY <3>3, ServesIsAccepted, RebuildAsksLess DEF runRebuild
    <3> QED
      BY <3>1, <3>2, <3>3 DEF RefusedForGood
  <2> QED
    BY <2>1, <2>2, <2>3 DEF Answered
<1> QED
  BY <1>1, AnsweredAlways, PTL

\* check tells what is failing of a world, and nothing else keeps a run that
\* the library and the mirror accept from serving in it.
LEMMA PassedIsServed ==
    ASSUME NEW d, NEW w \in Worlds, runCheck(d, w).code = "ok",
           validate(Config(d)) = {}, ~MirrorRefuses(d)
    PROVE  launch(d, [w EXCEPT !.dir = TRUE, !.pid = "free"]) = {"serving"}
<1> DEFINE v == [w EXCEPT !.dir = TRUE, !.pid = "free"]
<1>1. w \in [dir : BOOLEAN, pid : {"free", "held", "unreadable"}, staging : StagingFiles,
             catalog : BOOLEAN, bucket : BOOLEAN, misnamed : BOOLEAN, tables : {w.tables},
             mirror : BOOLEAN]
  BY WorldsAssumption
<1>2. v.dir /\ v.pid = "free" /\ v.staging = w.staging /\ v.bucket = w.bucket /\ v.tables = w.tables
  BY <1>1
<1>3. readSettings("run", d.env) = {} /\ loadTables(d.env, d.doc) /\ failedLines(d, w) = {}
  BY DEF runCheck
<1>4. w.staging.file # "unreadable"
  BY <1>3 DEF failedLines, Summarize
<1>5. ~Unread(d, w)
  <2>1. SUFFICES ASSUME Unread(d, w) PROVE FALSE
    OBVIOUS
  <2>2. ~LocalOnly(d.env)
    BY <2>1 DEF Unread
  <2>3. w.bucket
    BY <1>3, <2>2 DEF failedLines
  <2>4. PICK t \in d.doc.tables : t.name \in DOMAIN w.tables /\ probeTable(w.tables[t.name]) = "failed"
    BY <2>1, <2>3 DEF Unread
  <2>5. t.name \in failedLines(d, w)
    BY <2>2, <2>4 DEF failedLines
  <2> QED
    BY <1>3, <2>5
<1>6. ~Unread(d, v)
  BY <1>2, <1>5 DEF Unread
<1>7. runDaemon(d, v) = {"serving"}
  BY <1>2, <1>4, <1>6 DEF runDaemon
<1> QED
  BY <1>2, <1>3, <1>7 DEF launch

\* What check says of the records is of the database, whatever the table's state.
LEMMA NothingIsWaiting ==
    ASSUME NEW d, NEW w \in Worlds, runCheck(d, w).verdict = "nothing is waiting"
    PROVE  w.staging.file # "unreadable" /\ w.staging.waiting = 0
<1>1. ~Summarize(w.staging).err /\ Summarize(w.staging).waiting = 0
  BY DEF runCheck, verdict
<1>2. w.staging \in StagingFiles
  BY WorldsAssumption
<1>3. w.staging.file \in {"readable", "absent", "unreadable"}
  BY <1>2 DEF StagingFiles
<1>4. w.staging.file = "absent" \/ ~w.staging.migrated => w.staging.waiting = 0
  BY WorldsAssumption
<1> QED
  BY <1>1, <1>3, <1>4 DEF Summarize

\* A rebuild that succeeded registered every table there is.
LEMMA RebuiltIsFound ==
    ASSUME NEW d, NEW w \in Worlds, NEW replace, NEW dryRun,
           runRebuild(d, w, replace, dryRun) = "ok"
    PROVE  /\ discovered(w) = DOMAIN w.tables
           /\ \A t \in discovered(w) : /\ probeTable(w.tables[t]) = "exists"
                                       /\ \A i \in Registered(w.tables[t]) : w.tables[t][i] = "parses"
<1>1. discovered(w) # {}
  BY DEF runRebuild
<1>2. discovered(w) = DOMAIN w.tables /\ \A t \in DOMAIN w.tables : Registered(w.tables[t]) # {}
  BY <1>1 DEF discovered
<1>3. ASSUME NEW t \in DOMAIN w.tables PROVE probeTable(w.tables[t]) = "exists"
  <2>1. w.tables[t] \in Seq(MetadataFiles)
    BY WorldsAssumption
  <2> QED
    BY <1>2, <2>1, RegisteredIsFound
<1>4. \A t : \A i \in Registered(w.tables[t]) : w.tables[t][i] = "parses"
  BY DEF Registered
<1> QED
  BY <1>2, <1>3, <1>4

\* What one command told is what the others meet in the same world
\* (inspect.go: "exactly as rebuild takes it"), for every deployment and world.
THEOREM OneAnswer == SetupSpec => []CommandsAgree
<1>1. Answered => CommandsAgree
  <2> SUFFICES ASSUME Answered, said # Silent PROVE CommandsAgree
    BY DEF CommandsAgree
  <2> DEFINE d == deployment
  <2>1. CASE \E w \in Worlds : \E c \in launch(d, w) :
               said = [cmd |-> "run", world |-> w, code |-> c, verdict |-> "none", tables |-> {}]
    <3>1. said.cmd = "run"
      BY <2>1
    <3> QED
      BY <3>1 DEF CommandsAgree
  <2>2. CASE \E w \in Worlds :
               said = [cmd |-> "check", world |-> w, code |-> runCheck(d, w).code,
                       verdict |-> runCheck(d, w).verdict, tables |-> {}]
    <3>1. PICK w \in Worlds :
               said = [cmd |-> "check", world |-> w, code |-> runCheck(d, w).code,
                       verdict |-> runCheck(d, w).verdict, tables |-> {}]
      BY <2>2
    <3>2. said.cmd = "check" /\ said.world = w /\ said.code = runCheck(d, w).code
            /\ said.verdict = runCheck(d, w).verdict
      BY <3>1
    <3>3. said.code = "ok" =>
            \/ launch(d, [w EXCEPT !.dir = TRUE, !.pid = "free"]) = {"serving"}
            \/ validate(Config(d)) # {} \/ MirrorRefuses(d)
      BY <3>2, PassedIsServed
    <3>4. said.verdict = "nothing is waiting" =>
            w.staging.file # "unreadable" /\ w.staging.waiting = 0
      BY <3>2, NothingIsWaiting
    <3> QED
      BY <3>2, <3>3, <3>4 DEF CommandsAgree
  <2>3. CASE \E w \in Worlds, replace, dryRun \in BOOLEAN :
               said = [cmd |-> "rebuild", world |-> w, code |-> runRebuild(d, w, replace, dryRun),
                       verdict |-> "none",
                       tables |-> IF runRebuild(d, w, replace, dryRun) = "ok"
                                  THEN discovered(w) ELSE {}]
    <3>1. PICK w \in Worlds, replace \in BOOLEAN, dryRun \in BOOLEAN :
               said = [cmd |-> "rebuild", world |-> w, code |-> runRebuild(d, w, replace, dryRun),
                       verdict |-> "none",
                       tables |-> IF runRebuild(d, w, replace, dryRun) = "ok"
                                  THEN discovered(w) ELSE {}]
      BY <2>3
    <3>2. said.cmd = "rebuild" /\ said.world = w /\ said.code = runRebuild(d, w, replace, dryRun)
            /\ (said.code = "ok" => said.tables = discovered(w))
      BY <3>1
    <3>3. ASSUME said.code = "ok"
          PROVE  /\ said.tables = DOMAIN said.world.tables
                 /\ \A t \in said.tables :
                      /\ probeTable(said.world.tables[t]) = "exists"
                      /\ \A i \in Registered(said.world.tables[t]) :
                           said.world.tables[t][i] = "parses"
      <4>1. runRebuild(d, w, replace, dryRun) = "ok" /\ said.tables = discovered(w)
        BY <3>2, <3>3
      <4>2. /\ discovered(w) = DOMAIN w.tables
            /\ \A t \in discovered(w) :
                 /\ probeTable(w.tables[t]) = "exists"
                 /\ \A i \in Registered(w.tables[t]) : w.tables[t][i] = "parses"
        BY <4>1, RebuiltIsFound
      <4> HIDE DEF d
      <4> QED
        BY <3>2, <4>1, <4>2
    <3> QED
      BY <3>2, <3>3 DEF CommandsAgree
  <2> QED
    BY <2>1, <2>2, <2>3 DEF Answered
<1> QED
  BY <1>1, AnsweredAlways, PTL

(***************************************************************************)
(* The numbers.  A power of two is twice the one before it, whatever the   *)
(* width of a word; so what fits half a word is not wrapped by it.         *)
(***************************************************************************)

LEMMA Climbs ==
    ASSUME NEW n \in Nat, NEW S, 0 \in S, \A i \in 1..n : i - 1 \in S => i \in S
    PROVE  \A i \in 0..n : i \in S
<1> DEFINE B == {i \in 0..n : i \notin S}
<1> SUFFICES ASSUME B # {} PROVE FALSE
  OBVIOUS
<1>1. IsWellFoundedOn(OpToRel(<, Nat), Nat)
  BY NatLessThanWellFounded
<1>2. B \subseteq Nat
  OBVIOUS
<1>3. PICK m \in B : \A y \in B : ~(<<y, m>> \in OpToRel(<, Nat))
  BY <1>1, <1>2, WFMin
<1>4. m \in 1..n /\ m - 1 \in 0..n /\ m - 1 \in Nat /\ m \in Nat /\ m - 1 < m
  <2>1. m \in 0..n /\ m \notin S
    OBVIOUS
  <2>2. m # 0
    BY <2>1
  <2> QED
    BY <2>1, <2>2
<1>5. m - 1 \notin B
  BY <1>3, <1>4 DEF OpToRel
<1> QED
  BY <1>3, <1>4, <1>5

\* The powers up to the n-th.
Powers(p, n) == p \in [0..n -> Nat \ {0}] /\ p[0] = 1 /\ \A i \in 1..n : p[i] = 2 * p[i - 1]

LEMMA PowersAre ==
    ASSUME NEW n \in Nat
    PROVE  \E p : Powers(p, n) /\ TwoTo(n) = p[n]
<1> DEFINE Body(f) == [i \in 0..n |-> IF i = 0 THEN 1 ELSE 2 * f[i - 1]]
           F == CHOOSE f : f = Body(f)
           R == {m \in 0..n : \E p : Powers(p, m)}
<1>1. 0 \in R
  <2> DEFINE p == [i \in 0..0 |-> 1]
  <2>1. Powers(p, 0)
    BY DEF Powers
  <2> HIDE DEF p
  <2> QED
    BY <2>1
<1>2. ASSUME NEW m \in 1..n, m - 1 \in R PROVE m \in R
  <2>1. PICK p : Powers(p, m - 1)
    BY <1>2
  <2> DEFINE q == [i \in 0..m |-> IF i = m THEN 2 * p[m - 1] ELSE p[i]]
  <2>2. p[m - 1] \in Nat \ {0} /\ \A i \in 0..m - 1 : p[i] \in Nat \ {0}
    BY <2>1 DEF Powers
  <2>3. q \in [0..m -> Nat \ {0}]
    BY <2>2
  <2>4. q[0] = 1
    BY <2>1 DEF Powers
  <2>5. ASSUME NEW i \in 1..m PROVE q[i] = 2 * q[i - 1]
    <3>1. i - 1 \in 0..m /\ i - 1 # m /\ i \in 0..m
      OBVIOUS
    <3>2. CASE i = m
      BY <3>1, <3>2
    <3>3. CASE i # m
      <4>1. i \in 1..m - 1
        BY <3>3
      <4> QED
        BY <2>1, <3>1, <3>3, <4>1 DEF Powers
    <3> QED
      BY <3>2, <3>3
  <2> HIDE DEF q
  <2>6. Powers(q, m)
    BY <2>3, <2>4, <2>5 DEF Powers
  <2> QED
    BY <2>6
<1>3. \E p : Powers(p, n)
  <2> HIDE DEF R
  <2>1. \A i \in 0..n : i \in R
    BY <1>1, <1>2, Climbs
  <2>2. n \in R
    BY <2>1
  <2> QED
    BY <2>2, Zenon DEF R
<1>4. PICK p : Powers(p, n)
  BY <1>3
<1>5. p = Body(p)
  <2>1. p \in [0..n -> Nat \ {0}] /\ p[0] = 1 /\ \A i \in 1..n : p[i] = 2 * p[i - 1]
    BY <1>4 DEF Powers
  <2>2. \A i \in 0..n : p[i] = Body(p)[i]
    <3> SUFFICES ASSUME NEW i \in 0..n PROVE p[i] = IF i = 0 THEN 1 ELSE 2 * p[i - 1]
      OBVIOUS
    <3>1. i = 0 \/ i \in 1..n
      OBVIOUS
    <3> QED
      BY <2>1, <3>1
  <2> QED
    BY <2>1, <2>2
<1>6. F = Body(F)
  BY <1>5
<1> HIDE DEF F
<1>7. TwoTo(n) = F[n]
  BY DEF TwoTo, F
<1> DEFINE Same == {i \in 0..n : F[i] = p[i]}
<1>8. n \in Same
  <2>1. 0 \in Same
    BY <1>4, <1>6 DEF Powers
  <2>2. ASSUME NEW i \in 1..n, i - 1 \in Same PROVE i \in Same
    <3>1. i \in 0..n /\ i # 0
      OBVIOUS
    <3>2. F[i] = 2 * F[i - 1]
      BY <1>6, <3>1
    <3>3. p[i] = 2 * p[i - 1]
      BY <1>4 DEF Powers
    <3> QED
      BY <2>2, <3>1, <3>2, <3>3
  <2> HIDE DEF Same
  <2>3. \A i \in 0..n : i \in Same
    BY <2>1, <2>2, Climbs
  <2> QED
    BY <2>3
<1> QED
  BY <1>4, <1>7, <1>8

LEMMA Doubling ==
    ASSUME NEW n \in Nat
    PROVE  TwoTo(0) = 1 /\ TwoTo(n) \in Nat \ {0} /\ TwoTo(n + 1) = 2 * TwoTo(n)
<1>1. PICK p : Powers(p, n) /\ TwoTo(n) = p[n]
  BY PowersAre
<1>2. n + 1 \in Nat
  OBVIOUS
<1>3. PICK q : Powers(q, n + 1) /\ TwoTo(n + 1) = q[n + 1]
  BY <1>2, PowersAre
<1>4. PICK z : Powers(z, 0) /\ TwoTo(0) = z[0]
  BY PowersAre
<1> DEFINE Same == {i \in 0..n : p[i] = q[i]}
<1>5. n \in Same
  <2>1. 0 \in Same
    BY <1>1, <1>3 DEF Powers
  <2>2. ASSUME NEW i \in 1..n, i - 1 \in Same PROVE i \in Same
    <3>1. i \in 1..n + 1
      OBVIOUS
    <3> QED
      BY <1>1, <1>3, <2>2, <3>1 DEF Powers
  <2> HIDE DEF Same
  <2>3. \A i \in 0..n : i \in Same
    BY <2>1, <2>2, Climbs
  <2> QED
    BY <2>3
<1>6. q[n + 1] = 2 * q[n]
  <2>1. n + 1 \in 1..n + 1 /\ n + 1 - 1 = n
    OBVIOUS
  <2> QED
    BY <1>3, <2>1 DEF Powers
<1>7. p[n] \in Nat \ {0}
  BY <1>1 DEF Powers
<1> QED
  BY <1>1, <1>3, <1>4, <1>5, <1>6, <1>7 DEF Powers

\* A word is twice half a word, and what it has room for it does not wrap.
LEMMA WordIs ==
    /\ Addressable \in Nat \ {0} /\ WordMax + 1 = 2 * Addressable
    /\ \A n \in 0..WordMax : Wrapped(n) = n
<1>1. WordBits \in Nat \ {0}
  BY SetupAssumption
<1> DEFINE h == TwoTo(WordBits - 1)
           m == TwoTo(WordBits)
           w == TwoTo(WordBits + 1)
<1>2. h \in Nat \ {0} /\ m = 2 * h /\ w = 2 * m
  <2>1. WordBits - 1 \in Nat /\ WordBits - 1 + 1 = WordBits
    BY <1>1
  <2>2. h \in Nat \ {0} /\ TwoTo(WordBits - 1 + 1) = 2 * h
    BY <2>1, Doubling
  <2>3. w = 2 * m
    BY <1>1, Doubling
  <2> QED
    BY <2>1, <2>2, <2>3
<1>3. WordMax = m - 1 /\ Addressable = h /\ \A n : Wrapped(n) = ((n + m) % w) - m
  BY DEF WordMax, Addressable, Wrapped
<1> HIDE DEF h, m, w
<1>4. ASSUME NEW n \in 0..WordMax PROVE Wrapped(n) = n
  <2>1. n + m \in 0..w - 1 /\ w \in Nat \ {0}
    BY <1>2, <1>3
  <2>2. (n + m) % w = n + m
    BY <2>1
  <2> QED
    BY <1>2, <1>3, <2>2
<1> QED
  BY <1>2, <1>3, <1>4

LEMMA ScaleIs ==
    ASSUME NEW u \in DOMAIN Power
    PROVE  Scale(u) \in Nat \ {0}
<1>1. Power[u] \in Nat
  <2>1. DOMAIN Power = {"bare", "B", "KB", "MB", "GB", "TB"}
    BY DEF Power
  <2>2. CASE u \in {"bare", "B"}
    BY <2>1, <2>2 DEF Power
  <2>3. CASE u \notin {"bare", "B"}
    <3>1. DOMAIN Units = 1..4 /\ Units[1] = "KB" /\ Units[2] = "MB" /\ Units[3] = "GB" /\ Units[4] = "TB"
      BY DEF Units
    <3>2. \E i \in DOMAIN Units : Units[i] = u
      BY <2>1, <2>3, <3>1
    <3> DEFINE above == CHOOSE i \in DOMAIN Units : Units[i] = u
    <3>3. above \in DOMAIN Units
      BY <3>2
    <3>4. Power[u] = above
      BY <2>1, <2>3 DEF Power
    <3> HIDE DEF above
    <3> QED
      BY <3>1, <3>3, <3>4
  <2> QED
    BY <2>2, <2>3
<1>2. KiloBits * Power[u] \in Nat
  BY <1>1, SetupAssumption
<1> QED
  BY <1>2, Doubling DEF Scale

\* A size that is accepted is the one that was written.
LEMMA SizeIs ==
    ASSUME NEW t, NEW n \in parseByteSize(t)
    PROVE  n = t[1] * Scale(t[2]) /\ 2 * n <= WordMax + 1
<1> DEFINE c == t[1]
           s == Scale(t[2])
<1>1. /\ Number(t) /\ t[2] \in DOMAIN Power /\ c >= 0 /\ Fits(c, t[2])
      /\ n = Wrapped(c * s)
  BY DEF parseByteSize
<1>2. Addressable \in Nat \ {0} /\ WordMax + 1 = 2 * Addressable
  BY WordIs
<1>3. WordMax \in Nat
  BY <1>2, Doubling, SetupAssumption DEF WordMax
<1>4. s \in Nat \ {0} /\ c \in Nat /\ c <= Addressable \div s
  BY <1>1, <1>3, ScaleIs DEF Number, Fits
<1> HIDE DEF c, s
<1>5. c * s <= Addressable /\ c * s \in Nat
  <2> DEFINE q == Addressable \div s
  <2>1. q \in Nat /\ s * q <= Addressable
    BY <1>2, <1>4
  <2> HIDE DEF q
  <2>2. c <= q
    BY <1>4 DEF q
  <2>3. c * s <= q * s /\ c * s \in Nat /\ q * s = s * q
    BY <1>4, <2>1, <2>2
  <2> QED
    BY <1>2, <1>4, <2>1, <2>3
<1>6. c * s \in 0..WordMax
  BY <1>2, <1>3, <1>5
<1>7. n = c * s
  BY <1>1, <1>6, WordIs DEF c, s
<1> QED
  BY <1>2, <1>5, <1>7 DEF c, s

\* A delay is the base doubled, exactly, up to the cap.
LEMMA DelayIs ==
    ASSUME NEW r, NEW b \in Nat \ {0}, b = r.BaseDelay, NEW m \in 0..WordMax, m = r.MaxDelay, b <= m,
           NEW k \in Nat \ {0}
    PROVE  ceiling(r, k) = IF b * TwoTo(k - 1) > m THEN m ELSE b * TwoTo(k - 1)
<1> DEFINE last == k - 1
           Body(f) == [i \in 0..last |-> IF i = 0 THEN b ELSE Doubled(f[i - 1], m)]
           F == CHOOSE f : f = Body(f)
           exact(i) == b * TwoTo(i)
           G == [i \in 0..last |-> IF exact(i) > m THEN m ELSE exact(i)]
<1>1. last \in Nat /\ WordMax \in Nat /\ m \in Nat /\ m > 0
  <2>1. WordMax \in Nat
    BY Doubling, SetupAssumption DEF WordMax
  <2> QED
    BY <2>1
<1>2. G[0] = b
  <2>1. exact(0) = b
    BY Doubling
  <2> QED
    BY <1>1, <2>1
<1>3. ASSUME NEW i \in 1..last PROVE G[i] = Doubled(G[i - 1], m)
  <2> DEFINE x == exact(i - 1)
             y == exact(i)
  <2>1. i - 1 \in Nat /\ i - 1 + 1 = i /\ i - 1 \in 0..last /\ i \in 0..last
    BY <1>1
  <2>2. TwoTo(i - 1) \in Nat \ {0} /\ TwoTo(i) = 2 * TwoTo(i - 1)
    BY <2>1, Doubling
  <2>3. x \in Nat \ {0} /\ y = 2 * x
    BY <2>2
  <2>4. G[i - 1] = (IF x > m THEN m ELSE x) /\ G[i] = (IF y > m THEN m ELSE y)
    BY <2>1
  <2> HIDE DEF x, y, G
  <2>5. CASE x > m
    <3>1. m > m \div 2 /\ y > m
      BY <1>1, <2>3, <2>5
    <3> QED
      BY <2>4, <2>5, <3>1 DEF Doubled
  <2>6. CASE ~(x > m) /\ x > m \div 2
    <3>1. y > m
      BY <1>1, <2>3, <2>6
    <3> QED
      BY <2>4, <2>6, <3>1 DEF Doubled
  <2>7. CASE ~(x > m) /\ ~(x > m \div 2)
    <3>1. y <= m /\ 2 * x \in 0..WordMax /\ ~(y > m)
      BY <1>1, <2>3, <2>7
    <3>2. Wrapped(2 * x) = y
      BY <2>3, <3>1, WordIs
    <3> QED
      BY <2>4, <2>7, <3>1, <3>2 DEF Doubled
  <2> QED
    BY <2>5, <2>6, <2>7
<1> HIDE DEF exact
<1>4. G = Body(G)
  <2>1. \A i \in 0..last : G[i] = IF i = 0 THEN b ELSE Doubled(G[i - 1], m)
    <3> SUFFICES ASSUME NEW i \in 0..last PROVE G[i] = IF i = 0 THEN b ELSE Doubled(G[i - 1], m)
      OBVIOUS
    <3>1. i = 0 \/ i \in 1..last
      BY <1>1
    <3>2. i \in 1..last => i # 0
      BY <1>1
    <3> HIDE DEF G
    <3> QED
      BY <1>2, <1>3, <3>1, <3>2
  <2>2. DOMAIN G = 0..last /\ G = [i \in 0..last |-> G[i]]
    OBVIOUS
  <2> HIDE DEF G
  <2> QED
    BY <2>1, <2>2
<1> HIDE DEF G
<1>5. F = Body(F)
  BY <1>4
<1> HIDE DEF F
<1> DEFINE Same == {i \in 0..last : F[i] = G[i]}
<1>6. last \in Same
  <2>1. 0 \in Same
    BY <1>1, <1>2, <1>5
  <2>2. ASSUME NEW i \in 1..last, i - 1 \in Same PROVE i \in Same
    <3>1. i \in 0..last /\ i # 0
      BY <1>1
    <3>2. F[i] = Doubled(F[i - 1], m)
      BY <1>5, <3>1
    <3> QED
      BY <1>3, <2>2, <3>1, <3>2
  <2> HIDE DEF Same, last
  <2>3. \A i \in 0..last : i \in Same
    BY <1>1, <2>1, <2>2, Climbs
  <2> QED
    BY <1>1, <2>3
<1>7. ceiling(r, k) = IF F[last] > m THEN m ELSE F[last]
  <2>1. ~(k < 1 \/ b <= 0)
    OBVIOUS
  <2> QED
    BY <2>1 DEF ceiling, F
<1>8. G[last] = IF exact(last) > m THEN m ELSE exact(last)
  BY <1>1 DEF G
<1>9. ~(m > m)
  BY <1>1
<1> QED
  BY <1>6, <1>7, <1>8, <1>9 DEF exact

\* Whatever the width of a word, a size is the one that was written and leaves
\* room to count beside it, and a delay is the base doubled up to the cap,
\* whatever the attempt (parseByteSize, Retry.ceiling).
THEOREM NumbersAlwaysHold == SetupSpec => []NumbersHold
<1> DEFINE Chosen == deployment \in Deployments
<1>1. SetupSpec => []Chosen
  <2>1. SetupInit => Chosen
    BY DEF SetupInit
  <2>2. Chosen /\ [SetupNext]_setup => Chosen'
    BY DEF SetupNext, setup
  <2> QED
    BY <2>1, <2>2, PTL DEF SetupSpec
<1>2. Chosen => NumbersHold
  <2> SUFFICES ASSUME Chosen PROVE NumbersHold
    OBVIOUS
  <2>1. ASSUME NEW v \in Sizes, NEW n \in Parsed(deployment.env, v)
        PROVE  LET t == Value(deployment.env, v)
               IN n = t[1] * Scale(t[2]) /\ 2 * n <= WordMax + 1
    <3>1. /\ v \notin Booleans /\ v \notin Durations /\ v \notin Counts
          /\ v # "logLevel" /\ v # "clickHouseTTL"
      BY DEF Sizes, Booleans, Durations, Counts
    <3>2. Parsed(deployment.env, v) = parseByteSize(Value(deployment.env, v))
      BY <3>1 DEF Parsed
    <3> QED
      BY <3>2, SizeIs
  <2>2. ASSUME validate(Config(deployment)) = {}, NEW k \in 1..MaxAttempt
        PROVE  LET c == Config(deployment)
                   r == retrySettings(c)
                   exact == r.BaseDelay * TwoTo(k - 1)
               IN ceiling(r, k) = IF exact > r.MaxDelay THEN r.MaxDelay ELSE exact
    <3> DEFINE c == Config(deployment)
               r == retrySettings(c)
               b == r.BaseDelay
               m == r.MaxDelay
    <3>1. c.RetryBaseDelay = deployment.retry.base /\ c.RetryMaxDelay = deployment.retry.max
      BY DEF Config
    <3> HIDE DEF c
    <3>2. WordMax \in Nat
      BY Doubling, SetupAssumption DEF WordMax
    <3>3. c.RetryBaseDelay \in -(WordMax + 1)..WordMax /\ c.RetryMaxDelay \in -(WordMax + 1)..WordMax
      BY <3>1, DelaysAssumption
    <3>4. ~(c.RetryBaseDelay < 0) /\ ~(c.RetryMaxDelay < 0)
      BY <2>2 DEF validate, c
    <3>5. ~(b > m)
      BY <2>2, <3>2, <3>3, <3>4 DEF validate, c
    <3>6. /\ b = IF c.RetryBaseDelay = 0 THEN DefaultBaseDelay ELSE c.RetryBaseDelay
          /\ m = IF c.RetryMaxDelay = 0 THEN DefaultMaxDelay ELSE c.RetryMaxDelay
      BY DEF retrySettings, cmpOrDefault
    <3> HIDE DEF r
    <3>7. b \in Nat \ {0} /\ m \in 0..WordMax
      BY <3>2, <3>3, <3>4, <3>6, SetupAssumption, DelaysAssumption
    <3>8. k \in Nat \ {0}
      BY DelaysAssumption
    <3>9. b <= m
      BY <3>2, <3>5, <3>7
    <3>10. ceiling(r, k) = IF b * TwoTo(k - 1) > m THEN m ELSE b * TwoTo(k - 1)
      BY <3>7, <3>8, <3>9, DelayIs
    <3> QED
      BY <3>10 DEF r, c
  <2> QED
    BY <2>1, <2>2 DEF NumbersHold
<1> QED
  BY <1>1, <1>2, PTL

=============================================================================
