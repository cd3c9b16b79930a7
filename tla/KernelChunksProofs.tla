------------------------- MODULE KernelChunksProofs -------------------------
(***************************************************************************)
(* Safety of the kernel phase for every sample, every number of workers,   *)
(* and any number of crashes and failures: what the builder finds when it  *)
(* assembles, and which workers outlive their builder.                     *)
(***************************************************************************)
EXTENDS KernelChunks, FiniteSetTheorems, TLAPS

(***************************************************************************)
(* The two-element maximum and minimum of kernel_chunk_count.              *)
(***************************************************************************)
LEMMA MaxOfTwo ==
  ASSUME NEW a \in Int, NEW b \in Int
  PROVE  Max({a, b}) \in {a, b} /\ Max({a, b}) >= a /\ Max({a, b}) >= b
<1>1. \E x \in {a, b} : \A y \in {a, b} : x >= y
  OBVIOUS
<1> QED
  BY <1>1, Zenon DEF Max

LEMMA MinOfTwo ==
  ASSUME NEW a \in Int, NEW b \in Int
  PROVE  Min({a, b}) \in {a, b}
<1>1. \E x \in {a, b} : \A y \in {a, b} : x =< y
  OBVIOUS
<1> QED
  BY <1>1, Zenon DEF Min

(***************************************************************************)
(* Every invocation has at least one chunk and one worker.                 *)
(***************************************************************************)
LEMMA CountsArePositive ==
  ASSUME NEW w \in Int
  PROVE  kernel_chunk_count(w) \in Nat \ {0} /\ Max({1, w}) \in Nat \ {0}
<1>1. Max({1, w}) \in Nat \ {0}
  <2>1. Max({1, w}) \in {1, w} /\ Max({1, w}) >= 1
    BY MaxOfTwo, 1 \in Int, Zenon
  <2> QED
    BY <2>1
<1> DEFINE m == Min({2 * Max({1, w}), Cells})
<1>2. m \in Int
  <2>1. 2 * Max({1, w}) \in Int /\ Cells \in Int
    BY <1>1, SampleAssumption
  <2>2. m \in {2 * Max({1, w}), Cells}
    BY <2>1, MinOfTwo, Zenon
  <2> QED
    BY <2>1, <2>2
<1> HIDE DEF m
<1>3. Max({1, m}) \in {1, m} /\ Max({1, m}) >= 1
  BY <1>2, MaxOfTwo, 1 \in Int, Zenon
<1>4. Max({1, m}) \in Nat \ {0}
  BY <1>2, <1>3
<1> QED
  BY <1>1, <1>4 DEF kernel_chunk_count, m

-----------------------------------------------------------------------------
(***************************************************************************)
(* What the runner knows about its workers: a chunk is pending or running, *)
(* never both; the worker of a running chunk works on that chunk; only a   *)
(* builder in the run phase has workers.                                   *)
(***************************************************************************)
Bookkeeping ==
  /\ pending \cap DOMAIN running = {}
  /\ \A i \in DOMAIN running : proc[running[i]] \in Process /\ proc[running[i]].chunk = i
  /\ builder # "run" => DOMAIN running = {}

RunnerInv == TypeOK /\ Bookkeeping

(***************************************************************************)
(* The runner's table is finite and no two chunks share a worker.          *)
(***************************************************************************)
LEMMA RunningTable ==
  ASSUME RunnerInv
  PROVE  /\ IsFiniteSet(DOMAIN running)
         /\ Cardinality(DOMAIN running) \in Nat
         /\ \A i, j \in DOMAIN running : running[i] = running[j] => i = j
<1>1. IsFiniteSet(0 .. chunks - 1)
  <2>1. 0 \in Int /\ chunks - 1 \in Int
    BY DEF RunnerInv, TypeOK
  <2> QED
    BY <2>1, FS_Interval, Zenon
<1>2. IsFiniteSet(DOMAIN running)
  BY <1>1, FS_Subset DEF RunnerInv, TypeOK
<1>3. Cardinality(DOMAIN running) \in Nat
  BY <1>2, FS_CardinalityType
<1>4. \A i, j \in DOMAIN running : running[i] = running[j] => i = j
  BY DEF RunnerInv, Bookkeeping
<1> QED
  BY <1>2, <1>3, <1>4

LEMMA StartRunner ==
  ASSUME RunnerInv, NEW w \in Int, Start(w), configured' \in BOOLEAN
  PROVE  RunnerInv'
<1>1. kernel_chunk_count(w) \in Nat \ {0} /\ Max({1, w}) \in Nat \ {0}
  BY CountsArePositive
<1>2. DOMAIN running' = {} /\ Cardinality({}) = 0
  BY FS_EmptySet DEF Start
<1>3. TypeOK'
  BY <1>1, <1>2 DEF RunnerInv, TypeOK, Start, Cell, Process, bounds
<1>4. Bookkeeping'
  BY <1>2 DEF Start, Bookkeeping
<1> QED
  BY <1>3, <1>4 DEF RunnerInv

LEMMA SpawnRunner ==
  ASSUME RunnerInv, NEW i \in pending, NEW p \in Pid, Spawn(i, p)
  PROVE  RunnerInv'
<1>1. DOMAIN running' = (DOMAIN running) \cup {i}
  BY DEF Spawn, With
<1>2. running' \in [DOMAIN running' -> Pid]
  BY DEF Spawn, With, RunnerInv, TypeOK
<1>3. Cardinality(DOMAIN running') <= workers'
  <2>1. i \notin DOMAIN running
    BY DEF RunnerInv, Bookkeeping
  <2>2. Cardinality((DOMAIN running) \cup {i}) = Cardinality(DOMAIN running) + 1
    BY <2>1, RunningTable, FS_AddElement
  <2> QED
    BY <1>1, <2>2, RunningTable DEF Spawn, Room, RunnerInv, TypeOK
<1>4. proc' \in [Pid -> Process \cup {NoProc}]
  BY DEF Spawn, RunnerInv, TypeOK, Process
<1>5. TypeOK'
  BY <1>1, <1>2, <1>3, <1>4 DEF Spawn, RunnerInv, TypeOK, disk, bounds, Cell
<1>6. p \notin Children
  BY NoProcAssumption DEF Spawn, Children, Range, RunnerInv, Bookkeeping
<1>7. Bookkeeping'
  BY <1>1, <1>6 DEF Spawn, RunnerInv, TypeOK, Bookkeeping, Children, Range, With, Process
<1> QED
  BY <1>5, <1>7 DEF RunnerInv

(***************************************************************************)
(* Steps after which the builder is down and has no workers.               *)
(***************************************************************************)
LEMMA StopRunner ==
  ASSUME RunnerInv, builder' = "down", running' = << >>,
         proc' \in [Pid -> Process \cup {NoProc}],
         pending' \subseteq pending, crashes' \in 0 .. MaxCrash, fails' \in 0 .. MaxFail,
         UNCHANGED <<configured, chunks, workers, disk, listed, kernel>>
  PROVE  RunnerInv'
<1>1. DOMAIN running' = {} /\ Cardinality({}) = 0
  BY FS_EmptySet
<1>2. TypeOK'
  BY <1>1 DEF RunnerInv, TypeOK, disk, Cell
<1>3. Bookkeeping'
  BY <1>1 DEF Bookkeeping
<1> QED
  BY <1>2, <1>3 DEF RunnerInv

LEMMA KilledType ==
  ASSUME RunnerInv, NEW ps
  PROVE  Killed(ps) \in [Pid -> Process \cup {NoProc}]
BY DEF RunnerInv, TypeOK, Killed

LEMMA PollRunner ==
  ASSUME RunnerInv, NEW S \in SUBSET DOMAIN running, Poll(S)
  PROVE  RunnerInv'
<1>1. CASE SomeFailed(S)
  <2>1. GiveUp
    BY <1>1 DEF Poll
  <2> QED
    BY <2>1, KilledType, StopRunner DEF Poll, GiveUp, bounds, RunnerInv, TypeOK
<1>2. CASE ~SomeFailed(S)
  <2>1. /\ running' = Restrict(running, (DOMAIN running) \ S)
        /\ proc' = Killed({running[i] : i \in S})
        /\ UNCHANGED <<builder, configured, chunks, workers, pending, disk, listed, kernel, bounds>>
    BY <1>2 DEF Poll
  <2>2. DOMAIN running' = (DOMAIN running) \ S
    BY <2>1 DEF Restrict
  <2>3. Cardinality(DOMAIN running') <= workers'
    <3>1. Cardinality((DOMAIN running) \ S) <= Cardinality(DOMAIN running)
      BY RunningTable, FS_Subset
    <3>2. Cardinality((DOMAIN running) \ S) \in Nat
      BY RunningTable, FS_Subset, FS_CardinalityType
    <3> QED
      BY <2>1, <2>2, <3>1, <3>2, RunningTable DEF RunnerInv, TypeOK
  <2>4. running' \in [DOMAIN running' -> Pid]
    BY <2>1, <2>2 DEF Restrict, RunnerInv, TypeOK
  <2>5. TypeOK'
    BY <2>1, <2>2, <2>3, <2>4, KilledType DEF RunnerInv, TypeOK, disk, bounds, Cell
  <2>6. \A j \in (DOMAIN running) \ S : running[j] \notin {running[i] : i \in S}
    BY RunningTable
  <2>7. Bookkeeping'
    BY <2>1, <2>2, <2>6 DEF Restrict, Killed, RunnerInv, TypeOK, Bookkeeping
  <2> QED
    BY <2>5, <2>7 DEF RunnerInv
<1> QED
  BY <1>1, <1>2

(***************************************************************************)
(* Steps of a worker: the table stays, the process keeps its chunk or is   *)
(* gone, and it is gone only if it is nobody's child.                      *)
(***************************************************************************)
LEMMA WorkerRunner ==
  ASSUME RunnerInv, NEW p \in Pid, Stage(p) \/ Replace(p) \/ Fail(p)
  PROVE  RunnerInv'
<1>1. CASE Stage(p)
  <2>1. proc[p] \in Process
    BY <1>1 DEF Stage, RunnerInv, TypeOK
  <2>2. TypeOK'
    BY <1>1, <2>1 DEF Stage, RunnerInv, TypeOK, runner, bounds, Cell, Process
  <2>3. Bookkeeping'
    BY <1>1, <2>1 DEF Stage, RunnerInv, TypeOK, Bookkeeping, runner, Process
  <2> QED
    BY <2>2, <2>3 DEF RunnerInv
<1>2. ASSUME NEW how \in {"done", "failed"}, proc[p] \in Process, Exit(p, how),
             UNCHANGED <<builder, runner>>
      PROVE  proc' \in [Pid -> Process \cup {NoProc}] /\ Bookkeeping'
  <2>1. proc' \in [Pid -> Process \cup {NoProc}]
    BY <1>2 DEF Exit, RunnerInv, TypeOK, Process
  <2>2. \A i \in DOMAIN running : proc'[running[i]] \in Process /\ proc'[running[i]].chunk = i
    BY <1>2 DEF Exit, RunnerInv, TypeOK, Bookkeeping, Children, Range, Process
  <2> QED
    BY <1>2, <2>1, <2>2 DEF RunnerInv, Bookkeeping, runner
<1>3. CASE Replace(p)
  <2>1. proc[p] \in Process
    BY <1>3 DEF Replace, RunnerInv, TypeOK
  <2>2. proc' \in [Pid -> Process \cup {NoProc}] /\ Bookkeeping'
    BY <1>2, <1>3, <2>1 DEF Replace
  <2>3. chunkFile' \in [DOMAIN chunkFile' -> SUBSET Cell] /\ DOMAIN chunkFile' \subseteq Nat
    BY <1>3, <2>1 DEF Replace, RunnerInv, TypeOK, Process, With, Part
  <2>4. TypeOK'
    BY <1>3, <2>2, <2>3 DEF Replace, RunnerInv, TypeOK, runner, bounds, Cell
  <2> QED
    BY <2>2, <2>4 DEF RunnerInv
<1>4. CASE Fail(p)
  <2>1. proc[p] \in Process
    BY <1>4 DEF Fail, Live, RunnerInv, TypeOK
  <2>2. proc' \in [Pid -> Process \cup {NoProc}] /\ Bookkeeping'
    BY <1>2, <1>4, <2>1 DEF Fail
  <2>3. TypeOK'
    BY <1>4, <2>2, BoundAssumption DEF Fail, RunnerInv, TypeOK, runner, disk, Cell
  <2> QED
    BY <2>2, <2>3 DEF RunnerInv
<1> QED
  BY <1>1, <1>3, <1>4

(***************************************************************************)
(* The builder after the join: no workers, no new chunks.                  *)
(***************************************************************************)
LEMMA FinishRunner ==
  ASSUME RunnerInv,
         Join \/ Assemble \/ List \/ (\E f \in listed : Unlink(f)) \/ Rmdir
  PROVE  RunnerInv'
<1>1. CASE Join
  BY <1>1 DEF Join, RunnerInv, TypeOK, Bookkeeping, runner, disk, bounds, Cell, Process
<1>2. CASE Assemble
  BY <1>2 DEF Assemble, RunnerInv, TypeOK, Bookkeeping, runner, disk, bounds, Cell, Process
<1>3. CASE List
  BY <1>3 DEF List, Files, RunnerInv, TypeOK, Bookkeeping, runner, disk, bounds, Cell, Process
<1>4. ASSUME NEW f \in listed, Unlink(f)
      PROVE  RunnerInv'
  <2>1. chunkFile' \in [DOMAIN chunkFile' -> SUBSET Cell] /\ DOMAIN chunkFile' \subseteq Nat
    BY <1>4 DEF Unlink, RunnerInv, TypeOK, Restrict
  <2>2. TypeOK'
    BY <1>4, <2>1 DEF Unlink, RunnerInv, TypeOK, runner, bounds, Cell
  <2>3. Bookkeeping'
    BY <1>4 DEF Unlink, RunnerInv, Bookkeeping, runner
  <2> QED
    BY <2>2, <2>3 DEF RunnerInv
<1>5. CASE Rmdir
  BY <1>5 DEF Rmdir, RunnerInv, TypeOK, Bookkeeping, runner, bounds, Cell, Process
<1> QED
  BY <1>1, <1>2, <1>3, <1>4, <1>5

(***************************************************************************)
(* The worker counts of the two commands are integers.                     *)
(***************************************************************************)
LEMMA CommandWorkers ==
  Max({1, BuildWorkers - 1}) \in Int /\ ResumeWorkers \in Int
<1>1. BuildWorkers - 1 \in Int
  BY WorkersAssumption
<1> QED
  BY <1>1, CountsArePositive, WorkersAssumption

LEMMA RunnerInitially == Init => RunnerInv
<1> SUFFICES ASSUME Init PROVE RunnerInv
  OBVIOUS
<1>1. DOMAIN running = {} /\ Cardinality({}) = 0
  BY FS_EmptySet DEF Init
<1>2. \A T : << >> \in [DOMAIN << >> -> T]
  OBVIOUS
<1>3. TypeOK
  <2>1. running \in [DOMAIN running -> Pid] /\ DOMAIN running \subseteq 0 .. chunks - 1
    BY <1>1, <1>2 DEF Init
  <2>2. chunkFile \in [DOMAIN chunkFile -> SUBSET Cell] /\ DOMAIN chunkFile \subseteq Nat
    BY <1>2 DEF Init
  <2>3. Cardinality(DOMAIN running) <= workers
    BY <1>1 DEF Init
  <2>4. proc \in [Pid -> Process \cup {NoProc}]
    BY DEF Init
  <2>5. configured \in BOOLEAN /\ dir \in BOOLEAN /\ kernel \in BOOLEAN
    BY DEF Init
  <2>6. /\ builder = "down"
        /\ chunks = 1 /\ workers = 1 /\ pending = {} /\ staging = {} /\ listed = {}
        /\ crashes \in 0 .. MaxCrash /\ fails \in 0 .. MaxFail
    BY BoundAssumption DEF Init
  <2> QED
    BY <2>1, <2>2, <2>3, <2>4, <2>5, <2>6 DEF TypeOK
<1>4. Bookkeeping
  BY <1>1 DEF Init, Bookkeeping
<1> QED
  BY <1>3, <1>4 DEF RunnerInv

LEMMA RunnerStep == RunnerInv /\ [Next]_vars => RunnerInv'
<1> SUFFICES ASSUME RunnerInv, [Next]_vars PROVE RunnerInv'
  OBVIOUS
<1>1. CASE Build
  BY <1>1, StartRunner, CommandWorkers DEF Build
<1>2. CASE Resume
  BY <1>2, StartRunner, CommandWorkers DEF Resume, RunnerInv, TypeOK
<1>3. ASSUME NEW i \in pending, NEW p \in Pid, Spawn(i, p)
      PROVE  RunnerInv'
  BY <1>3, SpawnRunner
<1>4. ASSUME NEW i \in pending, SpawnFails(i)
      PROVE  RunnerInv'
  <2>1. GiveUp /\ proc' \in [Pid -> Process \cup {NoProc}]
    BY <1>4, KilledType DEF SpawnFails, GiveUp
  <2>2. fails' \in 0 .. MaxFail /\ crashes' \in 0 .. MaxCrash
    BY <1>4, BoundAssumption DEF SpawnFails, RunnerInv, TypeOK
  <2> QED
    BY <1>4, <2>1, <2>2, StopRunner DEF SpawnFails, GiveUp
<1>5. ASSUME NEW S \in SUBSET DOMAIN running, Poll(S)
      PROVE  RunnerInv'
  BY <1>5, PollRunner
<1>6. CASE Join \/ Assemble \/ List \/ (\E f \in listed : Unlink(f)) \/ Rmdir
  BY <1>6, FinishRunner
<1>7. ASSUME NEW p \in Pid, WorkerStep(p) \/ Fail(p)
      PROVE  RunnerInv'
  BY <1>7, WorkerRunner DEF WorkerStep
<1>8. CASE Crash
  <2>1. proc' \in [Pid -> Process \cup {NoProc}]
    BY <1>8, KilledType DEF Crash
  <2>2. fails' \in 0 .. MaxFail /\ crashes' \in 0 .. MaxCrash
    BY <1>8, BoundAssumption DEF Crash, RunnerInv, TypeOK
  <2> QED
    BY <1>8, <2>1, <2>2, StopRunner DEF Crash
<1>9. CASE UNCHANGED vars
  BY <1>9 DEF vars, RunnerInv, TypeOK, Bookkeeping, Cell, Process
<1> QED
  BY <1>1, <1>2, <1>3, <1>4, <1>5, <1>6, <1>7, <1>8, <1>9
     DEF Next, Invoke, BuilderStep

(***************************************************************************)
(* The pool of the runner keeps its bound, and its table always names a    *)
(* process that works on the chunk it is listed for.                       *)
(***************************************************************************)
THEOREM PoolIsBounded == Spec => []TypeOK
<1>1. Spec => []RunnerInv
  BY RunnerInitially, RunnerStep, PTL DEF Spec
<1>2. RunnerInv => TypeOK
  BY DEF RunnerInv
<1> QED
  BY <1>1, <1>2, PTL

-----------------------------------------------------------------------------
(***************************************************************************)
(* Workers outlive their invocation only through a crash of the builder    *)
(* (_KernelChunkRunner.run, the except clause).                            *)
(***************************************************************************)
THEOREM WorkersEndWithTheirBuilder == Spec => []NoStrayWorkers
<1>1. Init => NoStrayWorkers
  BY DEF Init, NoStrayWorkers, Live
<1>2. ASSUME RunnerInv, NoStrayWorkers, [Next]_vars
      PROVE  NoStrayWorkers'
  <2> SUFFICES ASSUME crashes' = 0, NEW q \in Pid, Live(q)'
               PROVE  q \in Children'
    BY DEF NoStrayWorkers
  <2>1. CASE Build \/ Resume
    BY <1>2, <2>1 DEF Build, Resume, Start, RunnerInv, Bookkeeping, NoStrayWorkers, Live, Children, Range, bounds
  <2>2. ASSUME NEW i \in pending, NEW p \in Pid, Spawn(i, p)
        PROVE  q \in Children'
    BY <1>2, <2>2 DEF Spawn, With, RunnerInv, TypeOK, Bookkeeping, NoStrayWorkers, Live, Children, Range, bounds
  <2>3. ASSUME GiveUp, crashes' = crashes
        PROVE  FALSE
    BY <1>2, <2>3 DEF GiveUp, Killed, NoStrayWorkers, Live
  <2>4. ASSUME NEW i \in pending, SpawnFails(i)
        PROVE  q \in Children'
    BY <2>3, <2>4 DEF SpawnFails
  <2>5. ASSUME NEW S \in SUBSET DOMAIN running, Poll(S)
        PROVE  q \in Children'
    <3>1. crashes' = crashes
      BY <2>5 DEF Poll, bounds
    <3>2. CASE SomeFailed(S)
      BY <2>3, <2>5, <3>1, <3>2 DEF Poll
    <3>3. CASE ~SomeFailed(S)
      <4>1. /\ running' = Restrict(running, (DOMAIN running) \ S)
            /\ proc' = Killed({running[i] : i \in S})
        BY <2>5, <3>3 DEF Poll
      <4>2. Live(q) /\ q \notin {running[i] : i \in S}
        BY <4>1 DEF Killed, Live
      <4>3. q \in Children
        BY <1>2, <3>1, <4>2 DEF NoStrayWorkers
      <4>4. PICK j \in DOMAIN running : q = running[j]
        BY <4>3 DEF Children, Range
      <4> QED
        BY <4>1, <4>2, <4>4 DEF Children, Range, Restrict
    <3> QED
      BY <3>2, <3>3
  <2>6. CASE Join \/ Assemble \/ List \/ (\E f \in listed : Unlink(f)) \/ Rmdir
    BY <1>2, <2>6 DEF Join, Assemble, List, Unlink, Rmdir, runner, bounds, NoStrayWorkers, Live, Children, Range
  <2>7. ASSUME NEW p \in Pid, Stage(p) \/ Replace(p) \/ Fail(p)
        PROVE  q \in Children'
    <3>1. UNCHANGED running /\ crashes' = crashes
      BY <2>7 DEF Stage, Replace, Fail, runner, bounds
    <3>2. Live(q)
      BY <1>2, <2>7 DEF Stage, Replace, Fail, Exit, Live, RunnerInv, TypeOK
    <3> QED
      BY <1>2, <3>1, <3>2 DEF NoStrayWorkers, Children
  <2>8. CASE Crash
    BY <1>2, <2>8 DEF Crash, RunnerInv, TypeOK
  <2>9. CASE UNCHANGED vars
    BY <1>2, <2>9 DEF vars, NoStrayWorkers, Live, Children
  <2> QED
    BY <1>2, <2>1, <2>2, <2>4, <2>5, <2>6, <2>7, <2>8, <2>9
       DEF Next, Invoke, BuilderStep, WorkerStep
<1>3. Spec => []RunnerInv
  BY RunnerInitially, RunnerStep, PTL DEF Spec
<1> QED
  BY <1>1, <1>2, <1>3, PTL DEF Spec

-----------------------------------------------------------------------------
(***************************************************************************)
(* Assembly.  Everything rests on one number of chunks for the archive:    *)
(* the chunk files carry the index of a chunk and not the partition they   *)
(* were cut from.                                                          *)
(***************************************************************************)
N == kernel_chunk_count(ResumeWorkers)

SameSplit == kernel_chunk_count(Max({1, BuildWorkers - 1})) = N

(***************************************************************************)
(* Every process, live or orphaned, and every file belongs to the          *)
(* partition into N chunks; in the run phase each chunk is pending, in the *)
(* hands of a worker, or in its file; a worker that ended well left it.    *)
(***************************************************************************)
OnePartition ==
  /\ builder # "down" => chunks = N
  /\ \A p \in Pid : proc[p] # NoProc => proc[p].chunks = N
  /\ \A i \in DOMAIN chunkFile : chunkFile[i] = Part(i, N)

NoChunkForgotten ==
  /\ builder \in {"run", "assemble"} =>
       \A i \in 0 .. chunks - 1 :
         i \in pending \/ i \in DOMAIN running \/ i \in DOMAIN chunkFile
  /\ builder = "assemble" => pending = {}
  /\ \A i \in DOMAIN running :
       proc[running[i]].phase = "done" => i \in DOMAIN chunkFile

SplitInv == OnePartition /\ NoChunkForgotten

(***************************************************************************)
(* The residues modulo N partition the sample.                             *)
(***************************************************************************)
LEMMA PartsCover ==
  UNION {Part(i, N) : i \in 0 .. N - 1} = Cell
<1>1. N \in Nat \ {0}
  BY CountsArePositive, WorkersAssumption DEF N
<1>2. \A c \in Cell : c % N \in 0 .. N - 1
  BY <1>1, SampleAssumption DEF Cell
<1> QED
  BY <1>2 DEF Part

LEMMA SplitCovers ==
  ASSUME RunnerInv, SplitInv
  PROVE  AssemblyCovers
<1> SUFFICES ASSUME builder = "assemble" PROVE Covered
  BY DEF AssemblyCovers
<1>1. chunks = N /\ 0 .. N - 1 \subseteq DOMAIN chunkFile
  BY DEF RunnerInv, Bookkeeping, SplitInv, OnePartition, NoChunkForgotten
<1>2. \A i \in 0 .. N - 1 : chunkFile[i] = Part(i, N)
  BY <1>1 DEF SplitInv, OnePartition
<1>3. UNION {chunkFile[i] : i \in 0 .. N - 1} = UNION {Part(i, N) : i \in 0 .. N - 1}
  BY <1>2
<1> QED
  BY <1>1, <1>3, PartsCover DEF Covered

LEMMA SplitInitially == Init => SplitInv
BY DEF Init, SplitInv, OnePartition, NoChunkForgotten

(***************************************************************************)
(* One step of the phase keeps the partition and forgets no chunk.         *)
(***************************************************************************)
LEMMA SplitStep ==
  ASSUME SameSplit, RunnerInv, SplitInv, [Next]_vars
  PROVE  SplitInv'
<1>1. CASE Build \/ Resume
  <2>1. PICK w \in {Max({1, BuildWorkers - 1}), ResumeWorkers} : Start(w)
    BY <1>1 DEF Build, Resume
  <2>2. kernel_chunk_count(w) = N
    BY <2>1, SameSplit DEF SameSplit, N
  <2>3. OnePartition'
    BY <2>1, <2>2 DEF Start, SplitInv, OnePartition
  <2>4. NoChunkForgotten'
    BY <2>1, <2>2 DEF Start, NoChunkForgotten
  <2> QED
    BY <2>3, <2>4 DEF SplitInv
<1>2. ASSUME NEW i \in pending, NEW p \in Pid, Spawn(i, p)
      PROVE  SplitInv'
  <2>1. OnePartition'
    BY <1>2 DEF Spawn, disk, RunnerInv, TypeOK, SplitInv, OnePartition
  <2>2. DOMAIN running' = (DOMAIN running) \cup {i}
    BY <1>2 DEF Spawn, With
  <2>3. \A j \in DOMAIN running :
          running'[j] = running[j] /\ proc'[running[j]] = proc[running[j]]
    BY <1>2, NoProcAssumption DEF Spawn, With, RunnerInv, TypeOK, Bookkeeping
  <2>4. running'[i] = p /\ proc'[p].phase = "compute"
    BY <1>2 DEF Spawn, With, RunnerInv, TypeOK
  <2>5. NoChunkForgotten'
    BY <1>2, <2>2, <2>3, <2>4 DEF Spawn, disk, RunnerInv, Bookkeeping, SplitInv, NoChunkForgotten
  <2> QED
    BY <2>1, <2>5 DEF SplitInv
<1>3. ASSUME GiveUp, UNCHANGED disk
      PROVE  SplitInv'
  BY <1>3 DEF GiveUp, Killed, disk, SplitInv, OnePartition, NoChunkForgotten
<1>4. ASSUME NEW i \in pending, SpawnFails(i)
      PROVE  SplitInv'
  BY <1>3, <1>4 DEF SpawnFails
<1>5. ASSUME NEW S \in SUBSET DOMAIN running, Poll(S)
      PROVE  SplitInv'
  <2>1. CASE SomeFailed(S)
    BY <1>3, <1>5, <2>1 DEF Poll
  <2>2. CASE ~SomeFailed(S)
    <3>1. /\ running' = Restrict(running, (DOMAIN running) \ S)
          /\ proc' = Killed({running[i] : i \in S})
          /\ UNCHANGED <<builder, chunks, pending, disk>>
      BY <1>5, <2>2 DEF Poll
    <3>2. OnePartition'
      BY <3>1 DEF Killed, disk, SplitInv, OnePartition
    <3>3. \A i \in S : i \in DOMAIN chunkFile
      BY <1>5, <2>2, NoProcAssumption DEF Poll, SomeFailed, Live, Process, RunnerInv, Bookkeeping, SplitInv, NoChunkForgotten
    <3>4. \A j \in (DOMAIN running) \ S :
            running'[j] = running[j] /\ proc'[running[j]] = proc[running[j]]
      BY <3>1, RunningTable DEF Restrict, Killed, RunnerInv, TypeOK
    <3>5. DOMAIN running' = (DOMAIN running) \ S
      BY <3>1 DEF Restrict
    <3>6. NoChunkForgotten'
      BY <1>5, <3>1, <3>3, <3>4, <3>5 DEF Poll, disk, RunnerInv, TypeOK, SplitInv, NoChunkForgotten
    <3> QED
      BY <3>2, <3>6 DEF SplitInv
  <2> QED
    BY <2>1, <2>2
<1>6. CASE Join
  BY <1>6 DEF Join, runner, disk, SplitInv, OnePartition, NoChunkForgotten
<1>7. CASE Assemble
  BY <1>7 DEF Assemble, runner, disk, SplitInv, OnePartition, NoChunkForgotten
<1>8. CASE List
  BY <1>8 DEF List, runner, disk, SplitInv, OnePartition, NoChunkForgotten
<1>9. ASSUME NEW f \in listed, Unlink(f)
      PROVE  SplitInv'
  <2>1. OnePartition'
    BY <1>9 DEF Unlink, Restrict, runner, SplitInv, OnePartition
  <2>2. DOMAIN running = {}
    BY <1>9 DEF Unlink, RunnerInv, Bookkeeping
  <2>3. NoChunkForgotten'
    BY <1>9, <2>2 DEF Unlink, runner, NoChunkForgotten
  <2> QED
    BY <2>1, <2>3 DEF SplitInv
<1>10. CASE Rmdir
  BY <1>10 DEF Rmdir, runner, SplitInv, OnePartition, NoChunkForgotten
<1>11. ASSUME NEW p \in Pid, Stage(p)
       PROVE  SplitInv'
  BY <1>11 DEF Stage, runner, RunnerInv, TypeOK, Process, SplitInv, OnePartition, NoChunkForgotten
<1>12. ASSUME NEW p \in Pid, Replace(p)
       PROVE  SplitInv'
  <2> DEFINE i == proc[p].chunk
             there == <<i, p>> \in staging
  <2>1. proc[p] \in Process /\ proc[p].chunks = N
    BY <1>12 DEF Replace, RunnerInv, TypeOK, SplitInv, OnePartition
  <2>2. /\ DOMAIN chunkFile \subseteq DOMAIN chunkFile'
        /\ there => i \in DOMAIN chunkFile'
        /\ \A j \in DOMAIN chunkFile' : chunkFile'[j] = Part(j, N)
    BY <1>12, <2>1 DEF Replace, With, SplitInv, OnePartition
  <2>3. \A q \in Pid : q # p => proc'[q] = proc[q]
    BY <1>12 DEF Replace, Exit, RunnerInv, TypeOK
  <2>4. proc'[p] # NoProc => /\ proc'[p].chunks = N
                             /\ proc'[p].phase = "done" => there
    BY <1>12, <2>1 DEF Replace, Exit, RunnerInv, TypeOK, Process
  <2>5. OnePartition'
    BY <1>12, <2>2, <2>3, <2>4 DEF Replace, runner, SplitInv, OnePartition
  <2>6. \A j \in DOMAIN running : running[j] = p => j = i /\ proc'[p] # NoProc
    BY <1>12, <2>1, NoProcAssumption DEF Replace, Exit, Children, Range, RunnerInv, TypeOK, Bookkeeping, Process
  <2>7. NoChunkForgotten'
    BY <1>12, <2>2, <2>3, <2>4, <2>6 DEF Replace, runner, RunnerInv, TypeOK, SplitInv, NoChunkForgotten
  <2> QED
    BY <2>5, <2>7 DEF SplitInv
<1>13. ASSUME NEW p \in Pid, Fail(p)
       PROVE  SplitInv'
  <2>1. proc[p] \in Process
    BY <1>13 DEF Fail, Live, RunnerInv, TypeOK
  <2>2. OnePartition'
    <3>1. \A q \in Pid : proc'[q] # NoProc =>
                           proc[q] # NoProc /\ proc'[q].chunks = proc[q].chunks
      BY <1>13, <2>1, NoProcAssumption DEF Fail, Exit, RunnerInv, TypeOK, Process
    <3> QED
      BY <1>13, <3>1 DEF Fail, runner, disk, SplitInv, OnePartition
  <2>3. NoChunkForgotten'
    BY <1>13, <2>1 DEF Fail, Exit, Children, Range, runner, disk, RunnerInv, TypeOK, Process, SplitInv, NoChunkForgotten
  <2> QED
    BY <2>2, <2>3 DEF SplitInv
<1>14. CASE Crash
  BY <1>14 DEF Crash, Killed, disk, SplitInv, OnePartition, NoChunkForgotten
<1>15. CASE UNCHANGED vars
  BY <1>15 DEF vars, SplitInv, OnePartition, NoChunkForgotten
<1> QED
  BY <1>1, <1>2, <1>4, <1>5, <1>6, <1>7, <1>8, <1>9, <1>10, <1>11, <1>12, <1>13, <1>14, <1>15
     DEF Next, Invoke, BuilderStep, WorkerStep

(***************************************************************************)
(* If the build and the resume command cut the sample into the same number *)
(* of chunks, a builder that joined its runner never raises "kernel chunks *)
(* do not cover the declared sample".                                      *)
(***************************************************************************)
THEOREM AssemblyNeverFallsShort ==
  ASSUME SameSplit
  PROVE  Spec => []AssemblyCovers
<1>1. Spec => []RunnerInv
  BY RunnerInitially, RunnerStep, PTL DEF Spec
<1>2. RunnerInv /\ SplitInv /\ [Next]_vars => SplitInv'
  BY SplitStep, SameSplit
<1>3. Spec => []SplitInv
  BY <1>1, <1>2, SplitInitially, PTL DEF Spec
<1>4. RunnerInv /\ SplitInv => AssemblyCovers
  BY SplitCovers
<1> QED
  BY <1>1, <1>3, <1>4, PTL

-----------------------------------------------------------------------------
(***************************************************************************)
(* The directory is emptied by a builder that has written the readout.     *)
(***************************************************************************)
ReadoutFirst == builder \in {"list", "unlink"} => kernel

(***************************************************************************)
(* A chunk file that exists is lost only after the readout was written     *)
(* (_assemble_from_chunks), whoever crashes and whatever orphans do.       *)
(***************************************************************************)
THEOREM ReadoutBeforeLoss == Spec => ChunksOutliveReadout
<1>1. Init => ReadoutFirst
  BY DEF Init, ReadoutFirst
<1>2. ASSUME ReadoutFirst, [Next]_vars
      PROVE  /\ ReadoutFirst'
             /\ [kernel \/ DOMAIN chunkFile \subseteq DOMAIN chunkFile']_vars
  <2>1. CASE Invoke
    BY <1>2, <2>1 DEF Invoke, Build, Resume, Start, ReadoutFirst
  <2>2. ASSUME NEW i \in pending, SpawnFails(i) \/ \E p \in Pid : Spawn(i, p)
        PROVE  /\ ReadoutFirst'
               /\ [kernel \/ DOMAIN chunkFile \subseteq DOMAIN chunkFile']_vars
    BY <1>2, <2>2 DEF SpawnFails, Spawn, GiveUp, disk, ReadoutFirst
  <2>3. ASSUME NEW S \in SUBSET DOMAIN running, Poll(S)
        PROVE  /\ ReadoutFirst'
               /\ [kernel \/ DOMAIN chunkFile \subseteq DOMAIN chunkFile']_vars
    BY <1>2, <2>3 DEF Poll, GiveUp, disk, ReadoutFirst
  <2>4. CASE Join \/ List \/ Rmdir
    BY <1>2, <2>4 DEF Join, List, Rmdir, disk, ReadoutFirst
  <2>5. CASE Assemble
    <3>1. builder' \in {"list", "unlink"} => Covered
      BY <2>5 DEF Assemble
    <3>2. Covered => kernel'
      BY <2>5 DEF Assemble
    <3> QED
      BY <2>5, <3>1, <3>2 DEF Assemble, disk, ReadoutFirst
  <2>6. ASSUME NEW f \in listed, Unlink(f)
        PROVE  /\ ReadoutFirst'
               /\ [kernel \/ DOMAIN chunkFile \subseteq DOMAIN chunkFile']_vars
    BY <1>2, <2>6 DEF Unlink, ReadoutFirst
  <2>7. ASSUME NEW p \in Pid, WorkerStep(p) \/ Fail(p)
        PROVE  /\ ReadoutFirst'
               /\ [kernel \/ DOMAIN chunkFile \subseteq DOMAIN chunkFile']_vars
    BY <1>2, <2>7 DEF WorkerStep, Stage, Replace, Fail, With, disk, ReadoutFirst
  <2>8. CASE Crash
    BY <1>2, <2>8 DEF Crash, disk, ReadoutFirst
  <2>9. CASE UNCHANGED vars
    BY <1>2, <2>9 DEF vars, ReadoutFirst
  <2> QED
    BY <1>2, <2>1, <2>2, <2>3, <2>4, <2>5, <2>6, <2>7, <2>8, <2>9 DEF Next, BuilderStep
<1> QED
  BY <1>1, <1>2, PTL DEF Spec, ChunksOutliveReadout
=============================================================================
