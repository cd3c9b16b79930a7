---------------------------- MODULE KernelChunks ----------------------------
(***************************************************************************)
(* The kernel phase of a federation archive (federation_archive.py): the   *)
(* declared sample of cells is split into chunks; a builder process keeps  *)
(* a number of worker processes running, one per chunk; each worker leaves *)
(* its chunk in a file of the chunk directory; when every chunk file       *)
(* exists the builder assembles the kernel readout and empties the         *)
(* directory.  The phase can be started again after a crash, by the same   *)
(* build command or by the resume command, and finds the files of the      *)
(* earlier invocation.                                                     *)
(***************************************************************************)
EXTENDS Integers, FiniteSets, FiniteSetsExt, Functions

CONSTANTS
  Cells,          \* number of cells of the declared sample
  BuildWorkers,   \* --workers of the build command
  ResumeWorkers,  \* --workers of the resume command (--kernels-only)
  Pid,            \* process ids the system gives to workers
  NoProc,         \* no process runs under this id
  Installed,      \* stands for the pid in the name of a finished chunk file
  MaxCrash,       \* bound: how often the builder dies in the kernel phase
  MaxFail         \* bound: how many workers fail or cannot be started

ASSUME SampleAssumption == Cells \in Nat
ASSUME WorkersAssumption == BuildWorkers \in Int /\ ResumeWorkers \in Int
ASSUME PidAssumption == Installed \notin Pid
ASSUME BoundAssumption == MaxCrash \in Nat /\ MaxFail \in Nat

VARIABLES
  builder,     \* phase of the builder: down, run, assemble, list, unlink, ok
  configured,  \* the archive has its config file, so it can be resumed
  chunks,      \* number of chunks of this invocation
  workers,     \* number of workers of this invocation
  pending,     \* chunks not yet given to a worker
  running,     \* chunk -> pid of its worker
  proc,        \* pid -> process
  chunkFile,   \* chunk -> the cells its finished file holds
  staging,     \* <<chunk, pid>> of the staging files in the chunk directory
  dir,         \* the chunk directory exists
  listed,      \* files the builder has listed and not yet unlinked
  kernel,      \* the kernel readout has been written
  crashes,     \* builder crashes so far
  fails        \* worker failures so far

vars == <<builder, configured, chunks, workers, pending, running, proc, chunkFile,
          staging, dir, listed, kernel, crashes, fails>>

runner == <<chunks, workers, pending, running>>
disk == <<chunkFile, staging, dir>>
bounds == <<crashes, fails>>

-----------------------------------------------------------------------------
Cell == 0 .. Cells - 1

kernel_chunk_count(w) == Max({1, Min({2 * Max({1, w}), Cells})})

(***************************************************************************)
(* items[i::count]                                                         *)
(***************************************************************************)
Part(i, n) == {c \in Cell : c % n = i}

Process == [chunk : Nat, chunks : Nat \ {0},
            phase : {"compute", "staged", "done", "failed"}]

ASSUME NoProcAssumption == NoProc \notin Process

With(f, x, v) == [y \in DOMAIN f \cup {x} |-> IF y = x THEN v ELSE f[y]]

Children == Range(running)

Live(p) == proc[p] # NoProc /\ proc[p].phase \in {"compute", "staged"}

Files == {<<i, Installed>> : i \in DOMAIN chunkFile} \cup staging

Init ==
  /\ builder = "down" /\ configured = FALSE
  /\ chunks = 1 /\ workers = 1 /\ pending = {} /\ running = << >>
  /\ proc = [p \in Pid |-> NoProc]
  /\ chunkFile = << >> /\ staging = {} /\ dir = FALSE
  /\ listed = {} /\ kernel = FALSE
  /\ crashes = 0 /\ fails = 0

-----------------------------------------------------------------------------
(***************************************************************************)
(* The builder.                                                            *)
(***************************************************************************)
Start(w) ==
  LET n == kernel_chunk_count(w)
  IN  /\ builder = "down"
      /\ builder' = "run"
      /\ chunks' = n
      /\ workers' = Max({1, w})
      /\ pending' = {i \in 0 .. n - 1 : i \notin DOMAIN chunkFile}
      /\ running' = << >>
      /\ dir' = TRUE
      /\ UNCHANGED <<proc, chunkFile, staging, listed, kernel, bounds>>

Build == Start(Max({1, BuildWorkers - 1})) /\ configured' = TRUE

Resume == configured /\ Start(ResumeWorkers) /\ UNCHANGED configured

\* Faulty variant: one worker more than asked for.
RoomForOneMore == pending # {} /\ Cardinality(DOMAIN running) <= workers

Room == pending # {} /\ Cardinality(DOMAIN running) < workers

IsFirst(i) == i \in pending /\ \A j \in pending : i <= j

Spawn(i, p) ==
  /\ builder = "run" /\ Room
  /\ IsFirst(i)
  /\ proc[p] = NoProc
  /\ pending' = pending \ {i}
  /\ running' = With(running, i, p)
  /\ proc' = [proc EXCEPT ![p] = [chunk |-> i, chunks |-> chunks, phase |-> "compute"]]
  /\ UNCHANGED <<builder, configured, chunks, workers, disk, listed, kernel, bounds>>

\* Faulty variant: the error handler reaps what has ended and kills nothing.
ReapedOnly(ps) == [p \in Pid |-> IF p \in ps /\ ~Live(p) THEN NoProc ELSE proc[p]]

Killed(ps) == [p \in Pid |-> IF p \in ps THEN NoProc ELSE proc[p]]

(***************************************************************************)
(* The handler of run(): the error is kept for the caller of join, which   *)
(* raises it, and the workers still running are killed.                    *)
(***************************************************************************)
GiveUp ==
  /\ builder' = "down"
  /\ running' = << >>
  /\ proc' = Killed(Children)

SpawnFails(i) ==
  /\ builder = "run" /\ Room
  /\ IsFirst(i)
  /\ fails < MaxFail
  /\ fails' = fails + 1
  /\ pending' = pending \ {i}
  /\ GiveUp
  /\ UNCHANGED <<configured, chunks, workers, disk, listed, kernel, crashes>>

\* Faulty variant: the exit code of a finished worker is not looked at.
NoneFailed(S) == FALSE

SomeFailed(S) == \E i \in S : proc[running[i]].phase = "failed"

(***************************************************************************)
(* One pass over the running workers finds those of S ended.               *)
(***************************************************************************)
Poll(S) ==
  /\ builder = "run" /\ ~Room
  /\ S # {} /\ \A i \in S : ~Live(running[i])
  /\ \/ /\ SomeFailed(S)
        /\ GiveUp
     \/ /\ ~SomeFailed(S)
        /\ running' = Restrict(running, DOMAIN running \ S)
        /\ proc' = Killed({running[i] : i \in S})
        /\ UNCHANGED builder
  /\ UNCHANGED <<configured, chunks, workers, pending, disk, listed, kernel, bounds>>

Join ==
  /\ builder = "run" /\ pending = {} /\ DOMAIN running = {}
  /\ builder' = "assemble"
  /\ UNCHANGED <<configured, runner, proc, disk, listed, kernel, bounds>>

(***************************************************************************)
(* A chunk file that is missing, or files that do not cover the sample,    *)
(* raise; the files stay.                                                  *)
(***************************************************************************)
Covered ==
  /\ 0 .. chunks - 1 \subseteq DOMAIN chunkFile
  /\ UNION {chunkFile[i] : i \in 0 .. chunks - 1} = Cell

\* Faulty variant: the directory is emptied first, the readout comes last.
DiscardFirst ==
  /\ builder = "assemble"
  /\ builder' = IF Covered THEN "list" ELSE "down"
  /\ UNCHANGED <<configured, runner, proc, disk, listed, kernel, bounds>>

Assemble ==
  /\ builder = "assemble"
  /\ builder' = IF Covered THEN "list" ELSE "down"
  /\ kernel' = (kernel \/ Covered)
  /\ UNCHANGED <<configured, runner, proc, disk, listed, bounds>>

\* Faulty variant: only finished chunks are deleted, staging files are not.
ListFinished ==
  /\ builder = "list"
  /\ builder' = "unlink"
  /\ listed' = Files \ staging
  /\ UNCHANGED <<configured, runner, proc, disk, kernel, bounds>>

List ==
  /\ builder = "list"
  /\ builder' = "unlink"
  /\ listed' = Files
  /\ UNCHANGED <<configured, runner, proc, disk, kernel, bounds>>

(***************************************************************************)
(* A listed file that is gone, and a directory that is not empty at the    *)
(* end, raise.                                                             *)
(***************************************************************************)
Unlink(f) ==
  /\ builder = "unlink" /\ f \in listed
  /\ listed' = listed \ {f}
  /\ builder' = IF f \in Files THEN "unlink" ELSE "down"
  /\ staging' = staging \ {f}
  /\ chunkFile' = IF f[2] = Installed
                  THEN Restrict(chunkFile, DOMAIN chunkFile \ {f[1]})
                  ELSE chunkFile
  /\ UNCHANGED <<configured, runner, proc, dir, kernel, bounds>>

Rmdir ==
  /\ builder = "unlink" /\ listed = {}
  /\ dir' = (Files # {})
  /\ builder' = IF Files = {} THEN "ok" ELSE "down"
  /\ UNCHANGED <<configured, runner, proc, chunkFile, staging, listed, kernel, bounds>>

(***************************************************************************)
(* The builder is killed, or its main thread raises while the runner       *)
(* thread, a daemon, is at work: its workers go on as orphans.             *)
(***************************************************************************)
Crash ==
  /\ builder \notin {"down", "ok"}
  /\ crashes < MaxCrash
  /\ crashes' = crashes + 1
  /\ builder' = "down"
  /\ running' = << >>
  /\ proc' = Killed({p \in Children : ~Live(p)})
  /\ UNCHANGED <<configured, chunks, workers, pending, disk, listed, kernel, fails>>

-----------------------------------------------------------------------------
(***************************************************************************)
(* The workers.  The exit code of an orphan reaches nobody.                *)
(***************************************************************************)
Exit(p, how) ==
  proc' = [proc EXCEPT ![p] = IF p \in Children THEN [@ EXCEPT !.phase = how] ELSE NoProc]

Stage(p) ==
  /\ proc[p] # NoProc /\ proc[p].phase = "compute"
  /\ dir' = TRUE
  /\ staging' = staging \cup {<<proc[p].chunk, p>>}
  /\ proc' = [proc EXCEPT ![p].phase = "staged"]
  /\ UNCHANGED <<builder, configured, runner, chunkFile, listed, kernel, bounds>>

(***************************************************************************)
(* os.replace raises when the staging file was unlinked meanwhile.         *)
(***************************************************************************)
Replace(p) ==
  LET i == proc[p].chunk
      there == <<i, p>> \in staging
  IN  /\ proc[p] # NoProc /\ proc[p].phase = "staged"
      /\ chunkFile' = IF there
                      THEN With(chunkFile, i, Part(i, proc[p].chunks))
                      ELSE chunkFile
      /\ staging' = staging \ {<<i, p>>}
      /\ Exit(p, IF there THEN "done" ELSE "failed")
      /\ UNCHANGED <<builder, configured, runner, dir, listed, kernel, bounds>>

Fail(p) ==
  /\ Live(p)
  /\ fails < MaxFail
  /\ fails' = fails + 1
  /\ Exit(p, "failed")
  /\ UNCHANGED <<builder, configured, runner, disk, listed, kernel, crashes>>

-----------------------------------------------------------------------------
Invoke == Build \/ Resume

BuilderStep ==
  \/ \E i \in pending : SpawnFails(i) \/ \E p \in Pid : Spawn(i, p)
  \/ \E S \in SUBSET DOMAIN running : Poll(S)
  \/ Join
  \/ Assemble
  \/ List
  \/ \E f \in listed : Unlink(f)
  \/ Rmdir

WorkerStep(p) == Stage(p) \/ Replace(p)

Next ==
  \/ Invoke
  \/ BuilderStep
  \/ \E p \in Pid : WorkerStep(p) \/ Fail(p)
  \/ Crash

(***************************************************************************)
(* A builder and a worker that run keep running (a worker computes a       *)
(* finite number of matrix products; nothing in the code waits for another *)
(* worker), and whoever started the build starts it again until it is      *)
(* done.  Crashes and failures are owed to nobody.                         *)
(***************************************************************************)
Fairness ==
  /\ WF_vars(Invoke)
  /\ WF_vars(BuilderStep)
  /\ \A p \in Pid : WF_vars(WorkerStep(p))

Spec == Init /\ [][Next]_vars /\ Fairness

-----------------------------------------------------------------------------
(***************************************************************************)
(* The shape of the state, with the bound of the pool: no more workers     *)
(* than the command asked for are running for this invocation.             *)
(***************************************************************************)
TypeOK ==
  /\ builder \in {"down", "run", "assemble", "list", "unlink", "ok"}
  /\ configured \in BOOLEAN /\ dir \in BOOLEAN /\ kernel \in BOOLEAN
  /\ chunks \in Nat \ {0} /\ workers \in Nat \ {0}
  /\ pending \subseteq 0 .. chunks - 1
  /\ running \in [DOMAIN running -> Pid] /\ DOMAIN running \subseteq 0 .. chunks - 1
  /\ Cardinality(DOMAIN running) <= workers
  /\ proc \in [Pid -> Process \cup {NoProc}]
  /\ chunkFile \in [DOMAIN chunkFile -> SUBSET Cell] /\ DOMAIN chunkFile \subseteq Nat
  /\ staging \subseteq Nat \X Pid
  /\ listed \subseteq Nat \X (Pid \cup {Installed})
  /\ crashes \in 0 .. MaxCrash /\ fails \in 0 .. MaxFail

(***************************************************************************)
(* "Keeps workers subprocesses running until every chunk file exists": if  *)
(* both commands split the sample alike, the builder that has joined the   *)
(* runner finds files that cover the declared sample, whatever was left by *)
(* crashed builders, failed workers and orphans that finish late.          *)
(***************************************************************************)
AssemblyCovers == builder = "assemble" => Covered

(***************************************************************************)
(* A worker outlives the invocation that started it only if the builder    *)
(* crashed: a failing chunk takes its siblings down before the error is    *)
(* raised to the caller.                                                   *)
(***************************************************************************)
NoStrayWorkers == crashes = 0 => {p \in Pid : Live(p)} \subseteq Children

(***************************************************************************)
(* Computed chunks are thrown away only once the readout made of them is   *)
(* on disk, so that no crash costs more than the chunks in flight.         *)
(***************************************************************************)
ChunksOutliveReadout ==
  [][kernel \/ DOMAIN chunkFile \subseteq DOMAIN chunkFile']_vars

(***************************************************************************)
(* "(resumable)": after the last crash and the last failure, starting the  *)
(* phase again brings it to its end.                                       *)
(***************************************************************************)
Resumable == <>(builder = "ok")
=============================================================================
