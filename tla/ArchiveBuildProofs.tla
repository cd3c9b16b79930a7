------------------------- MODULE ArchiveBuildProofs -------------------------
(***************************************************************************)
(* Safety of the archive build for all levels, any number of cells,        *)
(* workers and faults: a command that ends leaves no child behind; and how *)
(* a build ends that nothing disturbs, whatever the directory held when it *)
(* began: refused exactly for foreign chunk files, verified otherwise.     *)
(***************************************************************************)
EXTENDS ArchiveBuild, TLAPS

-----------------------------------------------------------------------------
(***************************************************************************)
(* The inductive invariant, in two parts.  First what holds under every    *)
(* interference: the worker processes, the files a worker reads when it    *)
(* starts, and where in the command each kind of child is alive.           *)
(***************************************************************************)
Process ==
  [kind : {"float", "spectrum", "kernel"}, child : BOOLEAN,
   at : {"new", "config", "loaded", "half", "done", "failed"},
   seed : Levels, level : Levels, born : 0..MaxFaults,
   chunk : Position, chunks : Nat \ {0}]

\* The steps after the thread was joined.
Joined == {"assemble", "kernel", "discard", "rmdir", "blocks", "manifest", "verify"}

Possible(w) ==
  /\ w \in Process
  /\ w.at = "half" => w.kind # "kernel"
  /\ w.kind # "kernel" => w.chunk = 0

WorkersTyped == \A w \in workers : Possible(w)

ReadableInputs ==
  /\ \A f \in {"primitives", "config"} : Has(disk, f) => disk[f] \in Levels
  /\ pc = "config" => Has(disk, "primitives")
  /\ Has(disk, "config") => Has(disk, "primitives")
  /\ workers # {} \/ pc \notin {"idle", "primitives", "config"} => Has(disk, "config")

Placed(w) ==
  \/ w.kind = "float" /\ pc = "float"
  \/ w.kind = "spectrum" /\ pc = "spectrum"
  \/ w.kind = "kernel" /\ runner = "run" /\ w.chunk \notin pending

Rank(w) == <<w.kind, w.chunk>>

ChildrenPlaced ==
  /\ \A w \in workers : w.child => Placed(w)
  /\ \A v, w \in workers : v.child /\ w.child /\ Rank(v) = Rank(w) => v = w

RunnerPlaced ==
  /\ pc \in {"idle", "primitives", "config"} \cup Joined => runner = "off"
  /\ runner # "run" => pending = {}

ProcessInv ==
  TypeOK /\ WorkersTyped /\ ReadableInputs /\ ChildrenPlaced /\ RunnerPlaced

(***************************************************************************)
(* Then what a build that nothing disturbs has done so far: which files    *)
(* are those of its own level, and that everything alive is its child.     *)
(***************************************************************************)
FromFloat == {"spectrum", "join"} \cup LawNames \cup Joined

OwnProcesses ==
  \A w \in workers :
    /\ w.child /\ w.level = p /\ w.seed = p /\ w.at # "failed"
    /\ w.kind = "kernel" => w.chunks = Split("build") /\ w.chunk \in Index("build")

Is(f, c) == Has(disk, f) /\ disk[f] = c

OwnInputs ==
  /\ pc # "primitives" => Is("primitives", p)
  /\ pc \notin {"primitives", "config"} => Is("config", p)

OwnFloat ==
  LET c == [level |-> p, seed |-> p]
  IN  /\ \A w \in workers : w.kind = "float" =>
           /\ w.at \in {"half", "done"} => Is("float_npz", c)
           /\ w.at = "done" => Is("float", c)
      /\ pc \in FromFloat => Is("float_npz", c) /\ Is("float", c)

OwnSpectrum ==
  /\ \A w \in workers : w.kind = "spectrum" =>
       /\ w.at \in {"half", "done"} => Is("fiedler", Result(w))
       /\ w.at = "done" => Is("spectrum", Result(w))
  /\ pc \in FromFloat \ {"spectrum"} => verify_spectrum(disk, p)

OwnLaws ==
  \A k \in 1..5 :
    pc \in {LawFiles[j] : j \in (k + 1)..5} \cup {"join"} \cup Joined
      => Is(LawFiles[k], p)

(***************************************************************************)
(* The chunk files: whether they will cover the sample is settled when the *)
(* build begins, because what is missing is computed for its place and     *)
(* what is there is left alone; before assembly nothing is missing.        *)
(***************************************************************************)
Discarded == {"rmdir", "manifest", "verify"}

OwnChunks ==
  /\ clean = "own" =>
       \A i \in DOMAIN chunks \cap Index("build") : chunks[i] = Own(p, i, Split("build"))
  /\ pc \notin Discarded =>
       (Covered(chunks, p, "build") = Sample(p) <=> clean # "foreign")
  /\ pc = "rmdir" => DOMAIN chunks = {}
  /\ pc \in {"kernel", "discard"} \cup Discarded => clean # "foreign"

OwnRunner ==
  /\ runner # "error"
  /\ pending \subseteq Index("build") \ DOMAIN chunks
  /\ \A w \in workers : w.kind = "kernel" => (w.chunk \in DOMAIN chunks <=> w.at = "done")
  /\ runner = "run" =>
       \A i \in Index("build") \ (DOMAIN chunks \cup pending) :
         \E w \in workers : w.kind = "kernel" /\ w.chunk = i
  /\ runner = "off" /\ pc \notin {"primitives", "config"} \cup Discarded =>
       Index("build") \subseteq DOMAIN chunks

KernelsOf(f) ==
  /\ Has(disk, f) /\ DOMAIN disk[f] = Sample(p)
  /\ clean = "own" => disk[f] = [c \in Sample(p) |-> p]

OwnKernels ==
  /\ pc = "kernel" => KernelsOf("kernel_npz")
  /\ pc \in {"discard"} \cup Discarded => verify_kernels(disk, p) /\ KernelsOf("kernel")

OwnBuild ==
  /\ OwnProcesses /\ OwnInputs /\ OwnFloat /\ OwnSpectrum /\ OwnLaws
  /\ OwnChunks /\ OwnRunner /\ OwnKernels
  /\ pc = "verify" => manifest = inventory(disk)
  /\ pc # "blocks" /\ verdict = "none"

BuildInv == ProcessInv /\ (cmd = "build" /\ clean # "no" => OwnBuild)

-----------------------------------------------------------------------------
(***************************************************************************)
(* The files by name.                                                      *)
(***************************************************************************)
LEMMA LawFileNames ==
  /\ LawFiles[1] = "integer_npz" /\ LawFiles[2] = "integer"
  /\ LawFiles[3] = "isolated_npz" /\ LawFiles[4] = "isolated"
  /\ LawFiles[5] = "float_isolated"
  /\ LawNames = {"integer_npz", "integer", "isolated_npz", "isolated", "float_isolated"}
<1>1. /\ LawFiles[1] = "integer_npz" /\ LawFiles[2] = "integer"
      /\ LawFiles[3] = "isolated_npz" /\ LawFiles[4] = "isolated"
      /\ LawFiles[5] = "float_isolated"
  BY DEF LawFiles
<1>2. 1..5 = {1, 2, 3, 4, 5}
  OBVIOUS
<1>3. LawNames = {LawFiles[1], LawFiles[2], LawFiles[3], LawFiles[4], LawFiles[5]}
  BY <1>2 DEF LawNames
<1> QED
  BY <1>1, <1>3

LEMMA NextPc ==
  ASSUME NEW k \in 1..5
  PROVE  /\ LawFiles[k] \in LawNames
         /\ After(k) \in LawNames \cup {"join"}
         /\ k # 5 => After(k) = LawFiles[k + 1]
         /\ k = 5 => After(k) = "join"
<1>1. k # 5 => After(k) = LawFiles[k + 1] /\ k + 1 \in 1..5
  BY DEF After
<1> QED
  BY <1>1 DEF After, LawNames

(***************************************************************************)
(* The parts of a sample.                                                  *)
(***************************************************************************)
LEMMA SplitType ==
  ASSUME NEW c
  PROVE  /\ Split(c) \in 1..KernelCells /\ Split(c) \in Nat \ {0}
         /\ Index(c) \subseteq Position
<1>1. width(c) \in Nat \ {0}
  BY ArchiveAssumption DEF width
<1>2. Split(c) \in 1..KernelCells
  BY <1>1, ArchiveAssumption DEF Split, kernel_chunk_count
<1> QED
  BY <1>2, ArchiveAssumption DEF Index, Position

LEMMA PartsCover ==
  ASSUME NEW l, NEW n \in Nat \ {0}
  PROVE  UNION {Part(l, i, n) : i \in 0..(n - 1)} = Sample(l)
<1>1. \A k \in Position : k % n \in 0..(n - 1)
  BY ArchiveAssumption DEF Position
<1>2. ASSUME NEW k \in Position
      PROVE  Cell(l, k) \in Part(l, k % n, n)
  BY DEF Part
<1>3. \A i : Part(l, i, n) \subseteq Sample(l)
  BY DEF Part, Sample
<1>4. Sample(l) \subseteq UNION {Part(l, i, n) : i \in 0..(n - 1)}
  BY <1>1, <1>2 DEF Sample
<1> QED
  BY <1>3, <1>4

LEMMA NotBeyond ==
  ASSUME NEW l \in Levels, NEW S, S \subseteq Sample(l)
  PROVE  ~Beyond(l, S)
<1>1. l \in Nat
  BY ArchiveAssumption
<1>2. ASSUME NEW k \in Position
      PROVE  ~(Cell(l, k)[1] > l)
  <2>1. CASE k = 0
    BY <1>1, <2>1 DEF Cell
  <2>2. CASE k # 0
    BY <1>1, <2>2 DEF Cell
  <2> QED
    BY <2>1, <2>2
<1> QED
  BY <1>2 DEF Beyond, Sample

-----------------------------------------------------------------------------
(***************************************************************************)
(* The first part is preserved.  A worker that moves on keeps its kind and *)
(* its parent; writing or deleting other files than the inputs keeps the   *)
(* inputs readable.                                                        *)
(***************************************************************************)
NoOrphans == cmd = "idle" => \A w \in workers : ~w.child

LEMMA MoveOn ==
  ASSUME ProcessInv, NEW w \in workers, NEW v, Possible(v),
         Rank(v) = Rank(w), v.child = w.child,
         workers' \subseteq (workers \ {w}) \cup {v},
         UNCHANGED <<cmd, pc, runner, pending>>
  PROVE  WorkersTyped' /\ ChildrenPlaced' /\ NoOrphans'
<1>1. WorkersTyped'
  BY DEF ProcessInv, WorkersTyped, Possible, Process
<1>2. v.kind = w.kind /\ v.chunk = w.chunk
  BY DEF Rank
<1>3. \A u \in workers' : u.child => Placed(u)'
  BY <1>2 DEF ProcessInv, ChildrenPlaced, Placed
<1>4. \A t, u \in workers' : t.child /\ u.child /\ Rank(t) = Rank(u) => t = u
  BY DEF ProcessInv, ChildrenPlaced
<1>5. NoOrphans'
  BY DEF ProcessInv, TypeOK, NoOrphans
<1> QED
  BY <1>1, <1>3, <1>4, <1>5 DEF ChildrenPlaced, Rank

LEMMA OtherFiles ==
  ASSUME ProcessInv,
         \A f \in {"primitives", "config"} :
           /\ Has(disk, f) <=> Has(disk', f)
           /\ Has(disk, f) => disk'[f] = disk[f],
         pc' = "config" => pc = "config",
         pc' \notin {"idle", "primitives", "config"} \/ workers' # {} => Has(disk, "config")
  PROVE  ReadableInputs'
BY DEF ProcessInv, ReadableInputs

(***************************************************************************)
(* What a worker does, whoever it works for: it becomes v, and writes its  *)
(* result to one file that is its own, or nothing.                         *)
(***************************************************************************)
Outcome(w, v) ==
  /\ Possible(v) /\ Rank(v) = Rank(w)
  /\ v.child = w.child /\ v.born = w.born /\ v.chunks = w.chunks
  /\ workers' = IF v.at \in Ended /\ ~v.child THEN workers \ {w}
                ELSE (workers \ {w}) \cup {v}

Silent(w, v) ==
  /\ UNCHANGED <<disk, chunks>>
  /\ \/ /\ w.at = "new" /\ w.kind = "kernel" /\ v.at = "config"
        /\ v.seed = disk["config"] /\ v.level = w.level
     \/ v.at = "loaded" /\ v.seed = w.seed /\ v.level = disk["primitives"]
     \/ /\ v.at = "failed" /\ v.seed = w.seed /\ v.level = w.level
        /\ w.kind = "kernel" /\ Beyond(w.level, Result(w).cells)
  /\ w.at \notin Ended

Writes(w, v) ==
  /\ v.seed = w.seed /\ v.level = w.level
  /\ \/ /\ w.kind = "kernel" /\ w.at = "loaded" /\ v.at = "done"
        /\ chunks' = Write(chunks, w.chunk, Result(w)) /\ UNCHANGED disk
     \/ /\ w.kind = "float" /\ v.at = "half"
        /\ disk' = Write(disk, "float_npz", Result(w)) /\ UNCHANGED chunks
     \/ /\ w.kind = "spectrum" /\ v.at = "half"
        /\ disk' = Write(disk, "fiedler", Result(w)) /\ UNCHANGED chunks
     \/ /\ w.kind = "float" /\ w.at = "half" /\ v.at = "done"
        /\ disk' = Write(disk, "float", Result(w)) /\ UNCHANGED chunks
     \/ /\ w.kind = "spectrum" /\ w.at = "half" /\ v.at = "done"
        /\ disk' = Write(disk, "spectrum", Result(w)) /\ UNCHANGED chunks

LEMMA WorkOutcome ==
  ASSUME ProcessInv, NEW w \in workers, Work(w)
  PROVE  \E v \in Process : Outcome(w, v) /\ (Silent(w, v) \/ Writes(w, v))
<1> USE DEF ProcessInv
<1>1. /\ w \in Process /\ Possible(w)
      /\ disk["primitives"] \in Levels /\ disk["config"] \in Levels
  BY DEF WorkersTyped, Possible, ReadableInputs
<1>2. w.kind \in {"float", "spectrum", "kernel"} /\ (w.at = "half" => w.kind # "kernel")
  BY <1>1 DEF Process, Possible
<1>3. CASE LoadConfig(w)
  <2> DEFINE v == [w EXCEPT !.at = "config", !.seed = disk["config"]]
  <2>1. /\ v \in Process /\ v.kind = w.kind /\ v.child = w.child /\ v.at = "config"
        /\ v.seed = disk["config"] /\ v.level = w.level /\ v.born = w.born
        /\ v.chunk = w.chunk /\ v.chunks = w.chunks
    BY <1>1 DEF Process
  <2>2. Outcome(w, v) /\ Silent(w, v)
    BY <1>1, <1>3, <2>1 DEF LoadConfig, Replace, Outcome, Silent, Rank, Possible, Ended
  <2> QED
    BY <2>1, <2>2
<1>4. CASE LoadPrimitives(w)
  <2> DEFINE v == [w EXCEPT !.at = "loaded", !.level = disk["primitives"]]
  <2>1. /\ v \in Process /\ v.kind = w.kind /\ v.child = w.child /\ v.at = "loaded"
        /\ v.seed = w.seed /\ v.level = disk["primitives"] /\ v.born = w.born
        /\ v.chunk = w.chunk /\ v.chunks = w.chunks
    BY <1>1 DEF Process
  <2>2. Outcome(w, v) /\ Silent(w, v)
    BY <1>1, <1>4, <2>1 DEF LoadPrimitives, Replace, Outcome, Silent, Rank, Possible, Ended
  <2> QED
    BY <2>1, <2>2
<1>5. ASSUME NEW a \in {"half", "done", "failed"}, Become(w, a), a = "half" => w.kind # "kernel"
      PROVE  \E v \in Process : /\ Outcome(w, v) /\ v.at = a
                                /\ v.seed = w.seed /\ v.level = w.level
  <2> DEFINE v == [w EXCEPT !.at = a]
  <2>1. /\ v \in Process /\ v.kind = w.kind /\ v.child = w.child /\ v.at = a
        /\ v.seed = w.seed /\ v.level = w.level /\ v.born = w.born
        /\ v.chunk = w.chunk /\ v.chunks = w.chunks
    BY <1>1 DEF Process
  <2>2. Outcome(w, v)
    BY <1>1, <1>5, <2>1 DEF Become, Replace, Outcome, Rank, Possible
  <2> QED
    BY <2>1, <2>2
<1>6. CASE SaveArrays(w)
  <2>1. PICK v \in Process : Outcome(w, v) /\ v.at = "half" /\ v.seed = w.seed /\ v.level = w.level
    BY <1>5, <1>6 DEF SaveArrays
  <2>2. Writes(w, v)
    BY <1>2, <1>6, <2>1 DEF SaveArrays, ArrayName, Writes
  <2> QED
    BY <2>1, <2>2
<1>7. CASE SaveBlock(w)
  <2>1. PICK v \in Process : Outcome(w, v) /\ v.at = "done" /\ v.seed = w.seed /\ v.level = w.level
    BY <1>5, <1>7 DEF SaveBlock
  <2>2. Writes(w, v)
    BY <1>2, <1>7, <2>1 DEF SaveBlock, Writes
  <2> QED
    BY <2>1, <2>2
<1>8. CASE SaveChunk(w)
  <2>1. PICK v \in Process : Outcome(w, v) /\ v.at = "done" /\ v.seed = w.seed /\ v.level = w.level
    BY <1>5, <1>8 DEF SaveChunk
  <2>2. Writes(w, v)
    BY <1>8, <2>1 DEF SaveChunk, Writes
  <2> QED
    BY <2>1, <2>2
<1>9. CASE CellMissing(w)
  <2>1. PICK v \in Process : Outcome(w, v) /\ v.at = "failed" /\ v.seed = w.seed /\ v.level = w.level
    BY <1>5, <1>9 DEF CellMissing
  <2>2. Silent(w, v)
    BY <1>9, <2>1 DEF CellMissing, Silent, Ended
  <2> QED
    BY <2>1, <2>2
<1> QED
  BY <1>3, <1>4, <1>6, <1>7, <1>8, <1>9 DEF Work

LEMMA WorkProcess ==
  ASSUME ProcessInv, NEW w \in workers, Work(w)
  PROVE  ProcessInv'
<1> USE DEF ProcessInv
<1>1. PICK v \in Process : Outcome(w, v) /\ (Silent(w, v) \/ Writes(w, v))
  BY WorkOutcome
<1>2. UNCHANGED <<cmd, pc, p, runner, pending, manifest, verdict, faults, clean>>
  BY DEF Work
<1>3. WorkersTyped' /\ ChildrenPlaced' /\ NoOrphans'
  <2>1. workers' \subseteq (workers \ {w}) \cup {v}
    BY <1>1 DEF Outcome
  <2> QED
    BY <1>1, <1>2, <2>1, MoveOn DEF Outcome
<1>4. \/ disk' = disk
      \/ \E f \in {"float_npz", "fiedler", "float", "spectrum"} :
           disk' = Write(disk, f, Result(w))
  BY <1>1 DEF Silent, Writes
<1>5. DOMAIN disk' \subseteq Bound
  BY <1>4 DEF TypeOK, Bound, Write
<1>6. DOMAIN chunks' \subseteq Position
  <2>1. w.chunk \in Position
    BY DEF WorkersTyped, Possible, Process
  <2> QED
    BY <1>1, <2>1 DEF TypeOK, Silent, Writes, Write
<1>7. ReadableInputs'
  <2>1. \A f \in {"primitives", "config"} :
          /\ Has(disk, f) <=> Has(disk', f)
          /\ Has(disk, f) => disk'[f] = disk[f]
    BY <1>4 DEF Has, Write
  <2>2. Has(disk, "config")
    BY DEF ReadableInputs
  <2> QED
    BY <1>2, <2>1, <2>2, OtherFiles
<1>8. TypeOK'
  BY <1>2, <1>3, <1>5, <1>6 DEF TypeOK, NoOrphans
<1>9. RunnerPlaced'
  BY <1>2 DEF RunnerPlaced
<1> QED
  BY <1>3, <1>7, <1>8, <1>9

LEMMA WorkerFailsProcess ==
  ASSUME ProcessInv, NEW w \in workers, WorkerFails(w)
  PROVE  ProcessInv'
<1> USE DEF ProcessInv
<1>1. UNCHANGED <<disk, chunks, cmd, pc, p, runner, pending, manifest, verdict>>
  BY DEF WorkerFails
<1>2. WorkersTyped' /\ ChildrenPlaced' /\ NoOrphans'
  <2> DEFINE v == [w EXCEPT !.at = "failed"]
  <2>1. /\ w \in Process /\ v \in Process /\ v.kind = w.kind /\ v.child = w.child
        /\ v.chunk = w.chunk /\ v.at = "failed" /\ Possible(w)
    BY DEF Process, WorkersTyped, Possible
  <2>2. workers' \subseteq (workers \ {w}) \cup {v}
    BY <2>1 DEF WorkerFails, Become, Replace
  <2>3. Possible(v) /\ Rank(v) = Rank(w)
    BY <2>1 DEF Possible, Rank
  <2> QED
    BY <1>1, <2>1, <2>2, <2>3, MoveOn
<1>3. ReadableInputs'
  BY <1>1, OtherFiles DEF ReadableInputs
<1>4. TypeOK'
  <2>1. faults' \in 0..MaxFaults
    BY ArchiveAssumption DEF TypeOK, WorkerFails, Fault
  <2>2. clean' = "no"
    BY DEF WorkerFails, Fault
  <2> QED
    BY <1>1, <1>2, <2>1, <2>2, Zenon DEF TypeOK, NoOrphans
<1>5. RunnerPlaced'
  BY <1>1 DEF RunnerPlaced
<1> QED
  BY <1>2, <1>3, <1>4, <1>5

LEMMA BeginProcess ==
  ASSUME ProcessInv, NEW c \in {"build", "kernels", "refresh"}, NEW s, NEW q \in Levels,
         Begin(c, s, q), clean' \in {"no", "own", "covers", "foreign"},
         \/ s = "primitives" /\ runner' = "off"
         \/ s = "join" /\ runner' = "scan" /\ Has(disk, "config")
         \/ s = "blocks" /\ runner' = "off" /\ Has(disk, "config")
  PROVE  ProcessInv'
<1> USE DEF ProcessInv
<1>1. /\ cmd = "idle" /\ cmd' = c /\ pc' = s /\ p' = q /\ verdict' = "none"
      /\ UNCHANGED <<disk, chunks, pending, workers, manifest, faults>>
  BY DEF Begin
<1>2. pc = "idle" /\ pending = {} /\ \A w \in workers' : ~w.child
  BY <1>1 DEF TypeOK, RunnerPlaced
<1>3. WorkersTyped' /\ ChildrenPlaced'
  BY <1>1, <1>2 DEF WorkersTyped, ChildrenPlaced
<1>4. ReadableInputs'
  <2>1. workers' # {} => Has(disk, "config")
    BY <1>1 DEF ReadableInputs
  <2> QED
    BY <1>1, <2>1, OtherFiles
<1>5. TypeOK'
  <2>1. cmd' # "idle" /\ pc' # "idle" /\ runner' \in {"off", "scan", "run", "error"}
    BY <1>1
  <2>2. cmd' \in {"idle", "build", "kernels", "refresh"}
    BY <1>1
  <2> QED
    BY <1>1, <2>1, <2>2, Zenon DEF TypeOK
<1>6. RunnerPlaced'
  BY <1>1, <1>2 DEF RunnerPlaced, Joined
<1> QED
  BY <1>3, <1>4, <1>5, <1>6

(***************************************************************************)
(* The end of a command, whichever it is: no process is its child any      *)
(* more.                                                                   *)
(***************************************************************************)
LEMMA EndProcess ==
  ASSUME ProcessInv, cmd' = "idle", pc' = "idle", runner' = "off", pending' = {},
         \A w \in workers' : Possible(w) /\ ~w.child,
         workers' # {} => workers # {},
         verdict' \in {"none", "pass", "fail"},
         faults' \in 0..MaxFaults, clean' = "no",
         UNCHANGED <<disk, chunks, p>>
  PROVE  ProcessInv'
<1> USE DEF ProcessInv
<1>1. WorkersTyped' /\ ChildrenPlaced'
  BY DEF WorkersTyped, ChildrenPlaced, Possible, Process
<1>2. ReadableInputs'
  BY OtherFiles DEF ReadableInputs
<1>3. TypeOK'
  BY Zenon DEF TypeOK
<1>4. RunnerPlaced'
  BY DEF RunnerPlaced, Joined
<1> QED
  BY <1>1, <1>2, <1>3, <1>4

LEMMA AbandonProcess ==
  ASSUME ProcessInv, Abandon, faults' \in 0..MaxFaults
  PROVE  ProcessInv'
<1>1. \A w \in workers : Possible(w)
  BY DEF ProcessInv, WorkersTyped
<1>2. ASSUME NEW v \in workers'
      PROVE  Possible(v) /\ ~v.child
  <2>1. PICK w \in workers : v = [w EXCEPT !.child = FALSE]
    BY <1>2 DEF Abandon
  <2> QED
    BY <1>1, <2>1 DEF Possible, Process
<1>3. workers' # {} => workers # {}
  BY DEF Abandon
<1>4. /\ cmd' = "idle" /\ pc' = "idle" /\ runner' = "off" /\ pending' = {} /\ clean' = "no"
      /\ verdict' \in {"none", "pass", "fail"} /\ UNCHANGED <<disk, chunks, p>>
  BY DEF Abandon, ProcessInv, TypeOK
<1> QED
  BY <1>2, <1>3, <1>4, EndProcess

LEMMA FaultTypes ==
  ASSUME ProcessInv, Fault
  PROVE  faults' \in 0..MaxFaults
BY ArchiveAssumption DEF ProcessInv, TypeOK, Fault

LEMMA RaiseProcess ==
  ASSUME ProcessInv, Raise
  PROVE  ProcessInv'
<1>1. faults' \in 0..MaxFaults
  BY DEF Raise, ProcessInv, TypeOK
<1> QED
  BY <1>1, AbandonProcess DEF Raise

(***************************************************************************)
(* Steps of the builder that start and end no process.                     *)
(***************************************************************************)
Outputs == Bound \ {"primitives", "config"}

LEMMA QuietProcess ==
  ASSUME ProcessInv, cmd # "idle",
         pc \notin {"idle", "primitives", "config", "float", "spectrum"},
         pc' \in {"join"} \cup LawNames \cup Joined,
         runner' = runner \/ (runner = "run" /\ runner' = "off" /\ pending = {}
                              /\ Child("kernel") = {}),
         pc' \in Joined => runner' = "off",
         disk' = disk \/ \E f \in Outputs : \E c : disk' = Write(disk, f, c),
         DOMAIN chunks' \subseteq DOMAIN chunks,
         UNCHANGED <<cmd, p, verdict, faults, clean, pending, workers>>
  PROVE  ProcessInv'
<1> USE DEF ProcessInv
<1>1. DOMAIN disk' \subseteq Bound
  BY DEF TypeOK, Outputs, Write
<1>2. ReadableInputs'
  <2>1. \A f \in {"primitives", "config"} :
          /\ Has(disk, f) <=> Has(disk', f)
          /\ Has(disk, f) => disk'[f] = disk[f]
    BY DEF Has, Outputs, Write
  <2>2. Has(disk, "config")
    BY DEF ReadableInputs
  <2> QED
    BY <2>1, <2>2, LawFileNames, OtherFiles DEF Joined
<1>3. pc' \notin {"idle", "primitives", "config", "float", "spectrum"}
  BY LawFileNames DEF Joined
<1>4. TypeOK'
  BY <1>1, <1>3 DEF TypeOK
<1>5. WorkersTyped' /\ ChildrenPlaced'
  <2>1. \A w \in workers : w.child => w.kind = "kernel" /\ runner = "run" /\ w.chunk \notin pending
    BY DEF ChildrenPlaced, Placed
  <2>2. \A w \in workers : w.child => runner' = runner
    BY <2>1 DEF Child
  <2> QED
    BY <2>1, <2>2 DEF WorkersTyped, Possible, ChildrenPlaced, Placed, Rank, Process
<1>6. RunnerPlaced'
  BY <1>3 DEF RunnerPlaced
<1> QED
  BY <1>2, <1>4, <1>5, <1>6

(***************************************************************************)
(* A child is started where there is none of its kind.                     *)
(***************************************************************************)
LEMMA NewWorker ==
  ASSUME ProcessInv, NEW kind \in {"float", "spectrum"}
  PROVE  /\ Possible(Worker(kind)) /\ Rank(Worker(kind)) = <<kind, 0>>
         /\ Worker(kind).kind = kind /\ Worker(kind).child /\ Worker(kind).at = "new"
         /\ Worker(kind).level = p /\ Worker(kind).seed = p
<1>1. 0 \in Position
  BY ArchiveAssumption DEF Position
<1> QED
  BY <1>1 DEF ProcessInv, TypeOK, Worker, Process, Possible, Rank

LEMMA NewKernelWorker ==
  ASSUME ProcessInv, NEW i \in Position
  PROVE  /\ Possible(KernelWorker(i)) /\ Rank(KernelWorker(i)) = <<"kernel", i>>
         /\ KernelWorker(i).kind = "kernel" /\ KernelWorker(i).child
         /\ KernelWorker(i).at = "new" /\ KernelWorker(i).level = p /\ KernelWorker(i).seed = p
         /\ KernelWorker(i).chunk = i /\ KernelWorker(i).chunks = Split(cmd)
<1> DEFINE w == Worker("kernel")
           n == Split(cmd)
           v == [w EXCEPT !.chunk = i, !.chunks = n]
<1>1. /\ w \in Process /\ w.kind = "kernel" /\ w.child /\ w.at = "new"
      /\ w.level = p /\ w.seed = p
  <2>1. 0 \in Position
    BY ArchiveAssumption DEF Position
  <2> QED
    BY <2>1 DEF ProcessInv, TypeOK, Worker, Process
<1>2. n \in Nat \ {0}
  BY SplitType
<1>3. KernelWorker(i) = v
  BY DEF KernelWorker
<1> HIDE DEF w, n
<1>4. /\ v \in Process /\ v.kind = "kernel" /\ v.child /\ v.at = "new"
      /\ v.level = p /\ v.seed = p /\ v.chunk = i /\ v.chunks = n
  BY <1>1, <1>2 DEF Process
<1>5. Possible(v) /\ Rank(v) = <<"kernel", i>>
  BY <1>4 DEF Possible, Rank
<1> QED
  BY <1>3, <1>4, <1>5 DEF n

LEMMA SaveConfigProcess ==
  ASSUME ProcessInv, SaveConfig
  PROVE  ProcessInv'
<1> USE DEF ProcessInv
<1>1. /\ pc = "config" /\ pc' = "float" /\ cmd # "idle" /\ runner = "off" /\ runner' = "scan"
      /\ disk' = Write(disk, "config", p) /\ pending = {}
      /\ workers' = workers \cup {Worker("float")}
      /\ UNCHANGED <<chunks, cmd, p, pending, verdict, faults, clean>>
  BY DEF SaveConfig, At, Goto, RunnerPlaced
<1>2. \A w \in workers : ~w.child
  BY <1>1 DEF ChildrenPlaced, Placed
<1>3. WorkersTyped'
  BY <1>1, NewWorker DEF WorkersTyped, Possible, Process
<1>4. ChildrenPlaced'
  BY <1>1, <1>2, NewWorker DEF ChildrenPlaced, Placed
<1>5. ReadableInputs'
  <2>1. Has(disk, "primitives") /\ p \in Levels
    BY <1>1 DEF ReadableInputs, TypeOK
  <2> QED
    BY <1>1, <2>1 DEF ReadableInputs, Has, Write
<1>6. TypeOK'
  BY <1>1 DEF TypeOK, Write, Bound
<1>7. RunnerPlaced'
  BY <1>1 DEF RunnerPlaced, Joined
<1> QED
  BY <1>3, <1>4, <1>5, <1>6, <1>7

LEMMA SavePrimitivesProcess ==
  ASSUME ProcessInv, SavePrimitives
  PROVE  ProcessInv'
<1> USE DEF ProcessInv
<1>1. /\ pc = "primitives" /\ pc' = "config" /\ cmd # "idle"
      /\ disk' = Write(disk, "primitives", p)
      /\ UNCHANGED <<chunks, cmd, p, verdict, faults, clean, runner, pending, workers>>
  BY DEF SavePrimitives, At, Goto, kernelPhase
<1>2. WorkersTyped' /\ ChildrenPlaced'
  BY <1>1 DEF WorkersTyped, ChildrenPlaced, Placed, Rank, Possible, Process
<1>3. ReadableInputs'
  BY <1>1 DEF TypeOK, ReadableInputs, Has, Write
<1>4. TypeOK'
  BY <1>1 DEF TypeOK, Write, Bound
<1>5. RunnerPlaced'
  BY <1>1 DEF RunnerPlaced, Joined
<1> QED
  BY <1>2, <1>3, <1>4, <1>5

LEMMA FloatWaitProcess ==
  ASSUME ProcessInv, FloatWait
  PROVE  ProcessInv'
<1> USE DEF ProcessInv
<1>1. CASE Raise
  BY <1>1, RaiseProcess
<1>2. ASSUME NEW w \in Child("float"),
             workers' = (workers \ {w}) \cup {Worker("spectrum")},
             Goto("spectrum"), UNCHANGED <<disk, kernelPhase, manifest>>
      PROVE  ProcessInv'
  <2>1. /\ pc = "float" /\ pc' = "spectrum" /\ cmd # "idle"
        /\ UNCHANGED <<disk, chunks, runner, pending, cmd, p, verdict, faults, clean>>
    BY <1>2 DEF FloatWait, At, Goto, kernelPhase
  <2>2. w \in workers /\ w.kind = "float" /\ w.child
    BY <1>2 DEF Child
  <2>3. w.chunk = 0 /\ \A v \in workers : v.kind = "float" => v.chunk = 0
    BY <2>2 DEF WorkersTyped, Possible
  <2>4. \A v \in workers \ {w} : v.child => v.kind = "kernel"
    <3>1. \A v \in workers : v.child => v.kind \in {"kernel", "float"}
      BY <2>1 DEF ChildrenPlaced, Placed
    <3>2. \A v \in workers : v.child /\ v.kind = "float" => v = w
      BY <2>2, <2>3 DEF ChildrenPlaced, Rank
    <3> QED
      BY <3>1, <3>2
  <2>5. WorkersTyped'
    BY <1>2, NewWorker DEF WorkersTyped, Possible, Process
  <2>6. ChildrenPlaced'
    <3>1. \A v \in workers' : v.child => Placed(v)'
      BY <1>2, <2>1, <2>4, NewWorker DEF ChildrenPlaced, Placed
    <3>2. \A u, v \in workers' : u.child /\ v.child /\ Rank(u) = Rank(v) => u = v
      BY <1>2, <2>4, NewWorker DEF ChildrenPlaced, Rank
    <3> QED
      BY <3>1, <3>2 DEF ChildrenPlaced, Rank
  <2>7. ReadableInputs'
    BY <2>1 DEF ReadableInputs
  <2>8. TypeOK'
    BY <2>1 DEF TypeOK
  <2>9. RunnerPlaced'
    BY <2>1 DEF RunnerPlaced, Joined
  <2> QED
    BY <2>5, <2>6, <2>7, <2>8, <2>9
<1> QED
  BY <1>1, <1>2 DEF FloatWait

(***************************************************************************)
(* Both ways in which the builder goes on after the spectrum.              *)
(***************************************************************************)
SpectrumOver(w) ==
  /\ pc = "spectrum" /\ cmd # "idle"
  /\ workers' = workers \ {w}
  /\ \/ disk' = disk /\ w.at = "done"
     \/ disk' = SkipSpectrum(disk)
  /\ Goto(LawFiles[1])
  /\ UNCHANGED <<chunks, runner, pending, manifest>>

LEMMA SpectrumEnds ==
  ASSUME SpectrumWait \/ SpectrumTimeout
  PROVE  \E w \in Child("spectrum") : SpectrumOver(w)
<1>1. CASE SpectrumWait
  <2>1. PICK w \in Child("spectrum") :
          /\ w.at \in Ended
          /\ disk' = IF w.at = "done" THEN disk ELSE SkipSpectrum(disk)
          /\ workers' = workers \ {w}
    BY <1>1 DEF SpectrumWait
  <2> QED
    BY <1>1, <2>1 DEF SpectrumWait, SpectrumOver, At, kernelPhase
<1>2. CASE SpectrumTimeout
  BY <1>2 DEF SpectrumTimeout, SpectrumOver, At, kernelPhase
<1> QED
  BY <1>1, <1>2

LEMMA SpectrumProcess ==
  ASSUME ProcessInv, NEW w \in Child("spectrum"), SpectrumOver(w)
  PROVE  ProcessInv'
<1> USE DEF ProcessInv
<1>1. /\ pc = "spectrum" /\ cmd # "idle" /\ pc' = "integer_npz"
      /\ workers' = workers \ {w}
      /\ UNCHANGED <<chunks, runner, pending, cmd, p, verdict, faults, clean>>
  BY LawFileNames DEF SpectrumOver, Goto
<1>2. disk' = disk \/ disk' = Without(disk, {"spectrum", "fiedler"})
  BY DEF SpectrumOver, SkipSpectrum
<1>3. w \in workers /\ w.kind = "spectrum" /\ w.child
  BY DEF Child
<1>4. WorkersTyped' /\ ChildrenPlaced'
  <2>1. \A v \in workers : v.kind = "spectrum" => v.chunk = 0
    BY DEF WorkersTyped, Possible
  <2>2. \A v \in workers : v.child => v.kind \in {"kernel", "spectrum"}
    BY <1>1 DEF ChildrenPlaced, Placed
  <2>3. \A v \in workers' : v.child => v.kind = "kernel"
    BY <1>1, <1>3, <2>1, <2>2 DEF ChildrenPlaced, Rank
  <2> QED
    BY <1>1, <2>3 DEF WorkersTyped, Possible, Process, ChildrenPlaced, Placed, Rank
<1>5. ReadableInputs'
  <2>1. \A f \in {"primitives", "config"} :
          /\ Has(disk, f) <=> Has(disk', f)
          /\ Has(disk, f) => disk'[f] = disk[f]
    BY <1>2 DEF Has, Without
  <2> QED
    BY <1>1, <2>1, OtherFiles DEF ReadableInputs
<1>6. TypeOK'
  BY <1>1, <1>2 DEF TypeOK, Without
<1>7. RunnerPlaced'
  BY <1>1 DEF RunnerPlaced, Joined
<1> QED
  BY <1>4, <1>5, <1>6, <1>7

(***************************************************************************)
(* Kernel workers are started for chunks that have none.                   *)
(***************************************************************************)
LEMMA StartNextSet ==
  ASSUME NEW js, NEW kids, StartNext(js, kids)
  PROVE  \E started \in SUBSET js :
           /\ pending' = js \ started
           /\ workers' = (workers \ (Child("kernel") \ kids))
                           \cup {KernelWorker(i) : i \in started}
BY DEF StartNext

LEMMA StartNextProcess ==
  ASSUME ProcessInv, NEW js, js \subseteq Position,
         NEW kids, kids \subseteq Child("kernel"), StartNext(js, kids),
         \A w \in kids : w.chunk \notin js, runner' = "run", pc' = pc
  PROVE  WorkersTyped' /\ ChildrenPlaced' /\ pending' \subseteq js
<1> USE DEF ProcessInv
<1>1. PICK started \in SUBSET js :
        /\ pending' = js \ started
        /\ workers' = (workers \ (Child("kernel") \ kids))
                        \cup {KernelWorker(i) : i \in started}
  BY StartNextSet
<1>2. \A i \in started :
        /\ Possible(KernelWorker(i)) /\ KernelWorker(i).kind = "kernel"
        /\ KernelWorker(i).chunk = i /\ i \in js
  BY NewKernelWorker
<1>3. \A w \in workers' :
        \/ w \in workers /\ (w.child /\ w.kind = "kernel" => w \in kids)
        \/ \E i \in started : w = KernelWorker(i)
  BY <1>1 DEF Child
<1>4. WorkersTyped'
  BY <1>2, <1>3 DEF WorkersTyped, Possible, Process
<1>5. \A w \in workers' : w.child => Placed(w)'
  BY <1>1, <1>2, <1>3 DEF ChildrenPlaced, Placed
<1>6. \A v, w \in workers' : v.child /\ w.child /\ Rank(v) = Rank(w) => v = w
  <2> SUFFICES ASSUME NEW v \in workers', NEW w \in workers', v.child, w.child,
                      v.kind = w.kind, v.chunk = w.chunk
               PROVE  v = w
    BY DEF Rank
  <2>1. CASE v \in workers /\ w \in workers
    BY <2>1 DEF ChildrenPlaced, Rank
  <2>2. CASE \E i, j \in started : v = KernelWorker(i) /\ w = KernelWorker(j)
    BY <1>2, <2>2
  <2> QED
    BY <1>2, <1>3, <2>1, <2>2
<1> QED
  BY <1>1, <1>4, <1>5, <1>6 DEF ChildrenPlaced, Rank

LEMMA RunnerProcess ==
  ASSUME ProcessInv, Scan \/ Poll
  PROVE  ProcessInv'
<1> USE DEF ProcessInv
<1>1. UNCHANGED <<disk, chunks, cmd, pc, p, manifest, verdict, faults, clean>>
  BY DEF Scan, Poll, Thread
<1>2. pc \notin {"idle", "primitives", "config"} \cup Joined
  BY DEF Scan, Poll, RunnerPlaced
<1>3. /\ runner' \in {"run", "error"} /\ pending' \subseteq Position
      /\ runner' = "error" => pending' = {}
      /\ WorkersTyped' /\ ChildrenPlaced'
  <2>1. CASE Scan
    <3>1. runner' = "run" /\ StartNext(Index(cmd) \ DOMAIN chunks, {})
      BY <2>1 DEF Scan
    <3>2. Index(cmd) \ DOMAIN chunks \subseteq Position
      BY SplitType
    <3>3. WorkersTyped' /\ ChildrenPlaced' /\ pending' \subseteq Index(cmd) \ DOMAIN chunks
      BY <1>1, <3>1, <3>2, StartNextProcess
    <3> QED
      BY <3>1, <3>2, <3>3
  <2>2. ASSUME NEW w \in Child("kernel"), StartNext(pending, Child("kernel") \ {w}),
               runner = "run", UNCHANGED runner
        PROVE  /\ runner' \in {"run", "error"} /\ pending' \subseteq Position
               /\ runner' = "error" => pending' = {}
               /\ WorkersTyped' /\ ChildrenPlaced'
    <3>1. \A v \in Child("kernel") \ {w} : v.chunk \notin pending
      BY DEF Child, ChildrenPlaced, Placed
    <3>2. pending \subseteq Position
      BY DEF TypeOK
    <3>3. WorkersTyped' /\ ChildrenPlaced' /\ pending' \subseteq pending
      BY <1>1, <2>2, <3>1, <3>2, StartNextProcess
    <3> QED
      BY <2>2, <3>2, <3>3
  <2>3. CASE workers' = workers \ Child("kernel") /\ runner' = "error" /\ pending' = {}
    <3>1. \A v \in workers' : v \in workers /\ (v.child => v.kind # "kernel")
      BY <2>3 DEF Child
    <3> QED
      BY <1>1, <2>3, <3>1 DEF WorkersTyped, Possible, Process, ChildrenPlaced, Placed, Rank
  <2> QED
    BY <2>1, <2>2, <2>3 DEF Poll
<1>4. ReadableInputs'
  BY <1>1, <1>2 DEF ReadableInputs
<1>5. TypeOK'
  <2>1. cmd' # "idle"
    BY <1>1, <1>2 DEF TypeOK
  <2> QED
    BY <1>1, <1>3, <2>1 DEF TypeOK
<1>6. RunnerPlaced'
  BY <1>1, <1>2, <1>3 DEF RunnerPlaced
<1> QED
  BY <1>3, <1>4, <1>5, <1>6

(***************************************************************************)
(* The steps of the builder that QuietProcess is about.                    *)
(***************************************************************************)
QuietStep ==
  /\ cmd # "idle"
  /\ \/ /\ \E k \in 1..5 : pc = LawFiles[k] /\ pc' = After(k)
                            /\ disk' = Write(disk, LawFiles[k], p)
        /\ UNCHANGED <<chunks, runner, manifest>>
     \/ /\ pc = "join" /\ pc' = "assemble" /\ runner = "run" /\ runner' = "off"
        /\ pending = {} /\ Child("kernel") = {}
        /\ UNCHANGED <<disk, chunks, manifest>>
     \/ /\ pc = "assemble" /\ pc' = "kernel" /\ Assembled = Sample(p)
        /\ disk' = Write(disk, "kernel_npz", glued)
        /\ UNCHANGED <<chunks, runner, manifest>>
     \/ /\ pc = "kernel" /\ pc' = "discard"
        /\ disk' = Write(disk, "kernel", disk["kernel_npz"])
        /\ UNCHANGED <<chunks, runner, manifest>>
     \/ /\ pc = "discard" /\ pc' = "rmdir"
        /\ chunks' = [i \in {} |-> 0]
        /\ UNCHANGED <<disk, runner, manifest>>
     \/ /\ pc = "rmdir" /\ pc' = IF cmd = "build" THEN "manifest" ELSE "blocks"
        /\ DOMAIN chunks = {}
        /\ UNCHANGED <<disk, chunks, runner, manifest>>
     \/ pc = "blocks" /\ pc' = "manifest" /\ UNCHANGED <<disk, chunks, runner, manifest>>
     \/ /\ pc = "manifest" /\ pc' = "verify" /\ UNCHANGED <<disk, chunks, runner>>
        /\ manifest' = inventory(disk)
  /\ UNCHANGED <<cmd, p, verdict, faults, clean, pending, workers>>

LEMMA StepCases ==
  ASSUME Step
  PROVE  \/ SavePrimitives \/ SaveConfig \/ FloatWait \/ SpectrumWait
         \/ QuietStep \/ Raise \/ Report
<1> USE DEF At, Goto, kernelPhase, QuietStep
<1>1. ASSUME SaveLaw PROVE QuietStep
  BY <1>1 DEF SaveLaw
<1>2. ASSUME Join PROVE QuietStep \/ Raise
  BY <1>2 DEF Join
<1>3. ASSUME Assemble PROVE QuietStep \/ Raise
  BY <1>3 DEF Assemble
<1>4. ASSUME SaveKernels PROVE QuietStep
  BY <1>4 DEF SaveKernels
<1>5. ASSUME Discard PROVE QuietStep
  BY <1>5 DEF Discard
<1>6. ASSUME RemoveDirectory PROVE QuietStep \/ Raise
  BY <1>6 DEF RemoveDirectory
<1>7. ASSUME LoadBlocks PROVE QuietStep \/ Raise
  BY <1>7 DEF LoadBlocks
<1>8. ASSUME write_manifest PROVE QuietStep
  BY <1>8 DEF write_manifest
<1> QED
  BY <1>1, <1>2, <1>3, <1>4, <1>5, <1>6, <1>7, <1>8 DEF Step

LEMMA QuietStepProcess ==
  ASSUME ProcessInv, QuietStep
  PROVE  ProcessInv'
<1>1. cmd # "idle" /\ UNCHANGED <<cmd, p, verdict, faults, clean, pending, workers>>
  BY DEF QuietStep
<1>2. /\ pc \in LawNames \cup {"join"} \cup Joined
      /\ pc' \in {"join"} \cup LawNames \cup Joined
      /\ pc' \in Joined => pc \in Joined \/ pc = "join"
      /\ pc = "join" => runner' = "off"
  BY NextPc, LawFileNames DEF QuietStep, Joined
<1>3. /\ \/ runner' = runner
         \/ runner = "run" /\ runner' = "off" /\ pending = {} /\ Child("kernel") = {}
      /\ DOMAIN chunks' \subseteq DOMAIN chunks
  BY DEF QuietStep
<1>4. disk' = disk \/ \E f \in Outputs : \E c : disk' = Write(disk, f, c)
  <2>1. LawNames \cup {"kernel_npz", "kernel"} \subseteq Outputs
    BY LawFileNames DEF Outputs, Bound
  <2> QED
    BY <2>1, NextPc DEF QuietStep
<1>5. pc \notin {"idle", "primitives", "config", "float", "spectrum"}
  BY <1>2, LawFileNames DEF Joined
<1>6. pc' \in Joined => runner' = "off"
  BY <1>2, <1>3 DEF ProcessInv, RunnerPlaced
<1> QED
  BY <1>1, <1>2, <1>3, <1>4, <1>5, <1>6, QuietProcess

LEMMA ReportProcess ==
  ASSUME ProcessInv, Report
  PROVE  ProcessInv'
<1>1. /\ pc = "verify" /\ cmd' = "idle" /\ pc' = "idle" /\ runner' = "off"
      /\ verdict' \in {"none", "pass", "fail"} /\ clean' = "no"
      /\ UNCHANGED <<disk, chunks, pending, p, workers, faults>>
  BY DEF Report, At
<1>2. pending' = {} /\ \A w \in workers' : Possible(w) /\ ~w.child
  BY <1>1 DEF ProcessInv, WorkersTyped, ChildrenPlaced, Placed, RunnerPlaced, Joined
<1>3. faults' \in 0..MaxFaults
  BY <1>1 DEF ProcessInv, TypeOK
<1> QED
  BY <1>1, <1>2, <1>3, EndProcess

(***************************************************************************)
(* All steps, with the builder's sorted by what they do to the directory   *)
(* and to the processes.                                                   *)
(***************************************************************************)
LEMMA NextCases ==
  ASSUME Next
  PROVE  \/ \E q \in Levels : Build(q)
         \/ kernel_phase \/ refresh_archive
         \/ SavePrimitives \/ SaveConfig \/ FloatWait
         \/ \E w \in Child("spectrum") : SpectrumOver(w)
         \/ QuietStep \/ Raise \/ Report \/ Scan \/ Poll
         \/ \E w \in workers : Work(w)
         \/ \E w \in workers : WorkerFails(w)
         \/ Fault /\ Abandon
BY StepCases, SpectrumEnds DEF Next, Killed, LawFails

LEMMA ProcessStep ==
  ASSUME ProcessInv, [Next]_vars
  PROVE  ProcessInv'
<1>1. ASSUME NEW q \in Levels, Build(q) PROVE ProcessInv'
  <2>1. clean' \in {"no", "own", "covers", "foreign"}
    BY <1>1 DEF Build, Outlook
  <2> QED
    BY <1>1, <2>1, BeginProcess DEF Build
<1>2. CASE kernel_phase \/ refresh_archive
  <2>1. Has(disk, "config") /\ disk["config"] \in Levels /\ clean' = "no"
    BY <1>2 DEF kernel_phase, refresh_archive, ProcessInv, ReadableInputs
  <2> QED
    BY <1>2, <2>1, BeginProcess DEF kernel_phase, refresh_archive
<1>3. CASE SavePrimitives
  BY <1>3, SavePrimitivesProcess
<1>4. CASE SaveConfig
  BY <1>4, SaveConfigProcess
<1>5. CASE FloatWait
  BY <1>5, FloatWaitProcess
<1>6. ASSUME NEW w \in Child("spectrum"), SpectrumOver(w) PROVE ProcessInv'
  BY <1>6, SpectrumProcess
<1>7. CASE QuietStep
  BY <1>7, QuietStepProcess
<1>8. CASE Raise
  BY <1>8, RaiseProcess
<1>9. CASE Report
  BY <1>9, ReportProcess
<1>10. CASE Scan \/ Poll
  BY <1>10, RunnerProcess
<1>11. ASSUME NEW w \in workers, Work(w) PROVE ProcessInv'
  BY <1>11, WorkProcess
<1>12. ASSUME NEW w \in workers, WorkerFails(w) PROVE ProcessInv'
  BY <1>12, WorkerFailsProcess
<1>13. CASE Fault /\ Abandon
  BY <1>13, FaultTypes, AbandonProcess
<1>14. CASE UNCHANGED vars
  BY <1>14 DEF vars, ProcessInv, TypeOK, WorkersTyped, Possible, Process, ReadableInputs,
     ChildrenPlaced, Placed, Rank, RunnerPlaced
<1> QED
  BY <1>1, <1>2, <1>3, <1>4, <1>5, <1>6, <1>7, <1>8, <1>9, <1>10, <1>11, <1>12, <1>13,
     <1>14, NextCases

LEMMA ProcessInit ==
  ASSUME Init
  PROVE  ProcessInv
<1>1. DOMAIN disk = {} /\ workers = {}
  BY DEF Init
<1>2. TypeOK
  <2>1. faults \in 0..MaxFaults
    BY ArchiveAssumption DEF Init
  <2>2. DOMAIN chunks = {}
    BY DEF Init
  <2> QED
    BY <1>1, <2>1, <2>2 DEF Init, TypeOK
<1> QED
  BY <1>1, <1>2 DEF Init, ProcessInv, WorkersTyped, ReadableInputs, ChildrenPlaced,
     RunnerPlaced, Has, Joined

(***************************************************************************)
(* Types, and no command ends with a child: when a build, a kernel phase   *)
(* or a refresh returns, raises or is killed, every worker it started has  *)
(* been waited for or is a stray.                                          *)
(***************************************************************************)
THEOREM TypeCorrect == Spec => []TypeOK
<1>1. Init => ProcessInv
  BY ProcessInit
<1>2. ProcessInv /\ [Next]_vars => ProcessInv'
  BY ProcessStep
<1>3. ProcessInv => TypeOK
  BY DEF ProcessInv
<1> QED
  BY <1>1, <1>2, <1>3, PTL DEF Spec

-----------------------------------------------------------------------------
(***************************************************************************)
(* The second part is preserved.  The only processes around are children,  *)
(* so none is alive before the float worker starts or after the join.      *)
(***************************************************************************)
LEMMA OwnKinds ==
  ASSUME ProcessInv, OwnProcesses
  PROVE  /\ \A w \in workers : Placed(w)
         /\ \A v, w \in workers : v.kind = w.kind /\ v.chunk = w.chunk => v = w
         /\ pc \in {"primitives", "config"} \cup Joined => workers = {}
<1>1. \A w \in workers : Placed(w)
  BY DEF ProcessInv, ChildrenPlaced, OwnProcesses
<1>2. \A v, w \in workers : v.kind = w.kind /\ v.chunk = w.chunk => v = w
  BY DEF ProcessInv, ChildrenPlaced, OwnProcesses, Rank
<1> QED
  BY <1>1, <1>2 DEF ProcessInv, Placed, RunnerPlaced, Joined

(***************************************************************************)
(* What the chunk files will cover depends on the cells at each place.     *)
(***************************************************************************)
Held(d, l, c, i) == IF i \in DOMAIN d THEN d[i].cells ELSE Part(l, i, Split(c))

LEMMA CoveredSame ==
  ASSUME NEW d, NEW e, NEW l, NEW c, \A i \in Index(c) : Held(d, l, c, i) = Held(e, l, c, i)
  PROVE  Covered(d, l, c) = Covered(e, l, c)
<1>1. \A x : x \in Covered(d, l, c) <=> \E i \in Index(c) : x \in Held(d, l, c, i)
  BY DEF Covered, Held
<1>2. \A x : x \in Covered(e, l, c) <=> \E i \in Index(c) : x \in Held(e, l, c, i)
  BY DEF Covered, Held
<1> QED
  BY <1>1, <1>2

LEMMA OwnCover ==
  ASSUME NEW l, NEW c, NEW d,
         \A i \in DOMAIN d \cap Index(c) : d[i] = Own(l, i, Split(c))
  PROVE  Covered(d, l, c) = Sample(l)
<1>1. UNION {Part(l, i, Split(c)) : i \in Index(c)} = Sample(l)
  BY SplitType, PartsCover DEF Index
<1>2. \A i \in Index(c) : Held(d, l, c, i) = Part(l, i, Split(c))
  BY DEF Held, Own
<1>3. \A x : x \in Covered(d, l, c) <=> \E i \in Index(c) : x \in Held(d, l, c, i)
  BY DEF Covered, Held
<1> QED
  BY <1>1, <1>2, <1>3

LEMMA PartsDisjoint ==
  ASSUME NEW l, NEW n, NEW i, NEW j, NEW c \in Part(l, i, n), c \in Part(l, j, n)
  PROVE  i = j
<1>1. PICK k \in Position : c = Cell(l, k) /\ k % n = i
  BY DEF Part
<1>2. PICK m \in Position : c = Cell(l, m) /\ m % n = j
  BY DEF Part
<1>3. k = m
  BY <1>1, <1>2 DEF Cell
<1> QED
  BY <1>1, <1>2, <1>3

(***************************************************************************)
(* Steps that leave the chunks and their workers alone.                    *)
(***************************************************************************)
LEMMA ChunksKept ==
  ASSUME OwnChunks, UNCHANGED <<chunks, clean, p>>,
         pc \notin {"kernel", "discard"} \cup Discarded,
         pc' \notin {"kernel", "discard"} \cup Discarded
  PROVE  OwnChunks'
BY DEF OwnChunks, Discarded

LEMMA RunnerKept ==
  ASSUME OwnRunner, UNCHANGED <<chunks, pending, runner>>,
         \A w : w.kind = "kernel" => (w \in workers <=> w \in workers'),
         runner = "off" => (pc \in {"primitives", "config"} \cup Discarded
                              => pc' \in {"primitives", "config"} \cup Discarded)
  PROVE  OwnRunner'
BY DEF OwnRunner

LEMMA BuildBegins ==
  ASSUME ProcessInv, NEW q \in Levels, Build(q), clean' # "no"
  PROVE  OwnBuild'
<1>1. /\ pc' = "primitives" /\ p' = q /\ workers' = {} /\ runner' = "off" /\ pending' = {}
      /\ verdict' = "none" /\ chunks' = chunks /\ clean' = Outlook(q)
  <2>1. pending = {}
    BY DEF Build, Begin, ProcessInv, TypeOK, RunnerPlaced
  <2> QED
    BY <2>1 DEF Build, Begin
<1>2. OwnChunks'
  <2> DEFINE own == \A i \in DOMAIN chunks \cap Index("build") :
                      chunks[i] = Own(q, i, Split("build"))
  <2>1. own => clean' = "own" /\ Covered(chunks, q, "build") = Sample(q)
    BY <1>1, OwnCover DEF Outlook
  <2>2. ~own => clean' # "own" /\ (Covered(chunks, q, "build") = Sample(q) <=> clean' # "foreign")
    BY <1>1 DEF Outlook
  <2> QED
    BY <1>1, <2>1, <2>2 DEF OwnChunks, Discarded
<1>3. OwnRunner'
  BY <1>1 DEF OwnRunner
<1> QED
  BY <1>1, <1>2, <1>3, LawFileNames DEF OwnBuild, OwnProcesses, OwnInputs, OwnFloat, OwnSpectrum,
     OwnLaws, OwnKernels, FromFloat, Joined, Discarded

LEMMA SavePrimitivesOwn ==
  ASSUME ProcessInv, OwnBuild, SavePrimitives
  PROVE  OwnBuild'
<1>1. /\ pc = "primitives" /\ pc' = "config" /\ p' = p
      /\ disk' = Write(disk, "primitives", p) /\ workers' = {} /\ workers = {}
      /\ UNCHANGED <<chunks, runner, pending, clean, verdict>>
  BY OwnKinds DEF SavePrimitives, At, Goto, OwnBuild, kernelPhase
<1>2. OwnInputs'
  BY <1>1 DEF OwnInputs, Is, Has, Write
<1>3. OwnChunks' /\ OwnRunner'
  BY <1>1, ChunksKept, RunnerKept DEF OwnBuild, Discarded
<1> QED
  BY <1>1, <1>2, <1>3, LawFileNames DEF OwnBuild, OwnProcesses, OwnFloat, OwnSpectrum,
     OwnLaws, OwnKernels, FromFloat, Joined, Discarded

LEMMA SaveConfigOwn ==
  ASSUME ProcessInv, OwnBuild, SaveConfig
  PROVE  OwnBuild'
<1>1. /\ pc = "config" /\ pc' = "float" /\ p' = p
      /\ disk' = Write(disk, "config", p) /\ workers' = {Worker("float")}
      /\ runner' = "scan" /\ UNCHANGED <<chunks, pending, clean, verdict>>
  BY OwnKinds DEF SaveConfig, At, Goto, OwnBuild
<1>2. OwnInputs'
  BY <1>1 DEF OwnBuild, OwnInputs, Is, Has, Write
<1>3. OwnProcesses'
  BY <1>1, NewWorker DEF OwnProcesses
<1>4. OwnFloat' /\ OwnSpectrum'
  BY <1>1, NewWorker, LawFileNames DEF OwnFloat, OwnSpectrum, FromFloat, Joined
<1>5. OwnChunks' /\ OwnRunner'
  <2>1. \A w \in workers' : w.kind # "kernel"
    BY <1>1, NewWorker
  <2> QED
    BY <1>1, <2>1, ChunksKept DEF OwnBuild, OwnRunner, Discarded
<1> QED
  BY <1>1, <1>2, <1>3, <1>4, <1>5, LawFileNames DEF OwnBuild, OwnLaws, OwnKernels, Joined, Discarded

LEMMA FloatWaitOwn ==
  ASSUME ProcessInv, OwnBuild, FloatWait, cmd' = "build"
  PROVE  OwnBuild'
<1>1. PICK w \in Child("float") :
        /\ w.at = "done"
        /\ workers' = (workers \ {w}) \cup {Worker("spectrum")}
        /\ Goto("spectrum")
        /\ UNCHANGED <<disk, kernelPhase, manifest>>
  BY DEF FloatWait, Raise, Abandon
<1>2. /\ pc = "float" /\ pc' = "spectrum"
      /\ UNCHANGED <<p, disk, chunks, runner, pending, clean, verdict>>
  BY <1>1 DEF FloatWait, At, Goto, kernelPhase
<1>3. w \in workers /\ w.kind = "float"
  BY <1>1 DEF Child
<1>4. OwnProcesses'
  BY <1>1, <1>2, NewWorker DEF OwnBuild, OwnProcesses
<1>5. OwnInputs'
  BY <1>2 DEF OwnBuild, OwnInputs, Is
<1>6. OwnFloat'
  <2>1. Is("float_npz", [level |-> p, seed |-> p]) /\ Is("float", [level |-> p, seed |-> p])
    BY <1>1, <1>3 DEF OwnBuild, OwnFloat
  <2> QED
    BY <1>1, <1>2, <2>1 DEF OwnFloat, Is
<1>7. OwnSpectrum'
  <2>1. \A v \in workers : v.kind # "spectrum"
    BY <1>2, OwnKinds DEF OwnBuild, Placed
  <2> QED
    BY <1>1, <1>2, <2>1, NewWorker DEF OwnSpectrum, FromFloat
<1>8. OwnChunks' /\ OwnRunner'
  <2>1. \A v : v.kind = "kernel" => (v \in workers <=> v \in workers')
    BY <1>1, <1>3, NewWorker
  <2> QED
    BY <1>2, <2>1, ChunksKept, RunnerKept DEF OwnBuild, Discarded
<1> QED
  BY <1>2, <1>4, <1>5, <1>6, <1>7, <1>8, LawFileNames DEF OwnBuild, OwnLaws, OwnKernels, Joined,
     Discarded

(***************************************************************************)
(* A finished spectrum is whole, an unfinished one is removed.             *)
(***************************************************************************)
LEMMA SpectrumOwn ==
  ASSUME ProcessInv, OwnBuild, NEW w \in Child("spectrum"), SpectrumOver(w)
  PROVE  OwnBuild'
<1>1. /\ pc = "spectrum" /\ pc' = "integer_npz" /\ workers' = workers \ {w}
      /\ UNCHANGED <<p, chunks, runner, pending, clean, verdict>>
  BY LawFileNames DEF SpectrumOver, Goto
<1>2. \/ disk' = disk /\ w.at = "done"
      \/ disk' = Without(disk, {"spectrum", "fiedler"})
  BY DEF SpectrumOver, SkipSpectrum
<1>3. w \in workers /\ w.kind = "spectrum" /\ w.level = p /\ w.child
  BY DEF Child, OwnBuild, OwnProcesses
<1>4. OwnProcesses'
  BY <1>1 DEF OwnBuild, OwnProcesses
<1>5. OwnInputs'
  BY <1>1, <1>2 DEF OwnBuild, OwnInputs, Is, Has, Without
<1>6. OwnFloat'
  BY <1>1, <1>2 DEF OwnBuild, OwnFloat, Is, Has, Without, FromFloat
<1>7. OwnSpectrum'
  <2>1. \A v \in workers' : v.kind # "spectrum"
    <3>1. \A v \in workers : v.kind = "spectrum" => v.chunk = 0
      BY DEF ProcessInv, WorkersTyped, Possible
    <3> QED
      BY <1>1, <1>3, <3>1, OwnKinds DEF OwnBuild
  <2>2. verify_spectrum(disk', p)
    <3>1. CASE disk' = disk /\ w.at = "done"
      <4>1. Is("fiedler", Result(w)) /\ Is("spectrum", Result(w))
        BY <1>3, <3>1 DEF OwnBuild, OwnSpectrum
      <4>2. Result(w).level = p
        BY <1>3 DEF Result
      <4> QED
        BY <3>1, <4>1, <4>2 DEF verify_spectrum, Same, Is, Has
    <3>2. CASE disk' = Without(disk, {"spectrum", "fiedler"})
      BY <3>2 DEF verify_spectrum, Has, Without
    <3> QED
      BY <1>2, <3>1, <3>2
  <2> QED
    BY <1>1, <2>1, <2>2 DEF OwnSpectrum
<1>8. OwnLaws' /\ OwnKernels'
  BY <1>1, LawFileNames DEF OwnLaws, OwnKernels, Joined, Discarded
<1>9. OwnChunks' /\ OwnRunner'
  BY <1>1, <1>3, ChunksKept, RunnerKept DEF OwnBuild, Discarded
<1> QED
  BY <1>1, <1>4, <1>5, <1>6, <1>7, <1>8, <1>9 DEF OwnBuild

(***************************************************************************)
(* Chunks: a worker is started for each missing one, and none is over      *)
(* before its chunk is there.                                              *)
(***************************************************************************)
LEMMA StartNextOwn ==
  ASSUME ProcessInv, OwnProcesses, OwnRunner, cmd = "build", NEW kids,
         NEW js, StartNext(js, kids), js \subseteq Index("build") \ DOMAIN chunks,
         kids \subseteq Child("kernel"), runner' = "run",
         UNCHANGED <<disk, chunks, cmd, pc, p, manifest, verdict, clean>>,
         \A i \in Index("build") \ (DOMAIN chunks \cup js) : \E w \in kids : w.chunk = i
  PROVE  /\ OwnProcesses' /\ OwnRunner'
         /\ \A w \in workers' : w.kind # "kernel" => w \in workers
<1>1. PICK started \in SUBSET js :
        /\ pending' = js \ started
        /\ workers' = (workers \ (Child("kernel") \ kids))
                        \cup {KernelWorker(i) : i \in started}
  BY StartNextSet
<1>2. \A i \in started :
        /\ KernelWorker(i).kind = "kernel" /\ KernelWorker(i).child
        /\ KernelWorker(i).at = "new" /\ KernelWorker(i).level = p /\ KernelWorker(i).seed = p
        /\ KernelWorker(i).chunk = i /\ KernelWorker(i).chunks = Split("build")
        /\ i \in Index("build") \ DOMAIN chunks
  BY SplitType, NewKernelWorker
<1>3. \A w \in workers' : w \in workers \/ \E i \in started : w = KernelWorker(i)
  BY <1>1
<1>4. OwnProcesses'
  BY <1>2, <1>3 DEF OwnProcesses
<1>5. OwnRunner'
  <2>1. pending' \subseteq Index("build") \ DOMAIN chunks'
    BY <1>1
  <2>2. \A w \in workers' : w.kind = "kernel" => (w.chunk \in DOMAIN chunks' <=> w.at = "done")
    BY <1>2, <1>3 DEF OwnRunner
  <2>3. ASSUME NEW i \in Index("build") \ (DOMAIN chunks' \cup pending')
        PROVE  \E w \in workers' : w.kind = "kernel" /\ w.chunk = i
    <3>1. CASE i \in js
      <4>1. i \in started /\ KernelWorker(i) \in workers'
        BY <1>1, <2>3, <3>1
      <4> QED
        BY <1>2, <4>1
    <3>2. CASE i \notin js
      <4>1. PICK w \in kids : w.chunk = i
        BY <2>3, <3>2
      <4>2. w \in workers' /\ w.kind = "kernel"
        BY <1>1 DEF Child
      <4> QED
        BY <4>1, <4>2
    <3> QED
      BY <3>1, <3>2
  <2> QED
    BY <2>1, <2>2, <2>3 DEF OwnRunner
<1> QED
  BY <1>2, <1>3, <1>4, <1>5

LEMMA RunnerOwn ==
  ASSUME ProcessInv, OwnBuild, cmd = "build", Scan \/ Poll
  PROVE  OwnBuild'
<1>1. UNCHANGED <<disk, chunks, cmd, pc, p, manifest, verdict, clean>>
  BY DEF Scan, Poll, Thread
<1>2. /\ OwnProcesses' /\ OwnRunner'
      /\ \A w \in workers' : w.kind # "kernel" => w \in workers
  <2>1. CASE Scan
    <3>1. runner = "scan" /\ runner' = "run" /\ StartNext(Index("build") \ DOMAIN chunks, {})
      BY <2>1 DEF Scan
    <3> QED
      BY <1>1, <3>1, StartNextOwn DEF OwnBuild
  <2>2. CASE Poll
    <3>1. PICK w \in Child("kernel") :
            /\ w.at = "done" /\ runner = "run" /\ runner' = "run"
            /\ StartNext(pending, Child("kernel") \ {w})
      BY <2>2 DEF Poll, Child, OwnBuild, OwnProcesses
    <3>2. w \in workers /\ w.kind = "kernel" /\ w.chunk \in DOMAIN chunks
      BY <3>1 DEF Child, OwnBuild, OwnRunner
    <3>3. pending \subseteq Index("build") \ DOMAIN chunks
      BY DEF OwnBuild, OwnRunner
    <3>4. ASSUME NEW i \in Index("build") \ (DOMAIN chunks \cup pending)
          PROVE  \E u \in Child("kernel") \ {w} : u.chunk = i
      <4>1. PICK u \in workers : u.kind = "kernel" /\ u.chunk = i
        BY <3>1 DEF OwnBuild, OwnRunner
      <4> QED
        BY <3>2, <4>1 DEF Child, OwnBuild, OwnProcesses
    <3> QED
      BY <1>1, <3>1, <3>3, <3>4, StartNextOwn DEF OwnBuild
  <2> QED
    BY <2>1, <2>2
<1>3. OwnFloat'
  BY <1>1, <1>2 DEF OwnBuild, OwnFloat, Is
<1>4. OwnSpectrum'
  BY <1>1, <1>2 DEF OwnBuild, OwnSpectrum, Is
<1>5. OwnChunks'
  BY <1>1 DEF OwnBuild, OwnChunks
<1>6. OwnKernels'
  BY <1>1 DEF OwnBuild, OwnKernels, KernelsOf
<1> QED
  BY <1>1, <1>2, <1>3, <1>4, <1>5, <1>6 DEF OwnBuild, OwnInputs, OwnLaws, Is

(***************************************************************************)
(* A worker of this build writes what this build expects, and while it is  *)
(* alive the builder is at the step that waits for it (float, spectrum) or *)
(* before the join (kernels).                                              *)
(***************************************************************************)
LEMMA WorkOwnChunks ==
  ASSUME ProcessInv, OwnBuild, NEW w \in workers, NEW v \in Process,
         w.kind = "kernel", v.kind = "kernel", v.chunk = w.chunk,
         workers' = (workers \ {w}) \cup {v},
         UNCHANGED <<pc, p, runner, pending, clean>>,
         \/ chunks' = chunks /\ w.at # "done" /\ v.at # "done"
         \/ chunks' = Write(chunks, w.chunk, Result(w)) /\ w.at # "done" /\ v.at = "done"
  PROVE  OwnChunks' /\ OwnRunner'
<1> DEFINE i == w.chunk
<1>1. /\ w.level = p /\ w.seed = p /\ w.chunks = Split("build") /\ i \in Index("build")
      /\ w.child /\ runner = "run" /\ i \notin pending /\ i \notin DOMAIN chunks
  BY OwnKinds DEF OwnBuild, OwnProcesses, Placed, OwnRunner
<1>2. pc \notin {"primitives", "config"} \cup Joined
  BY <1>1 DEF ProcessInv, RunnerPlaced
<1>3. \A u \in workers : u.kind = "kernel" /\ u.chunk = i => u = w
  BY OwnKinds DEF OwnBuild
<1>4. CASE chunks' = chunks /\ w.at # "done" /\ v.at # "done"
  <2>1. OwnChunks'
    BY <1>4 DEF OwnBuild, OwnChunks
  <2>2. \A u \in workers' : u.kind = "kernel" => (u.chunk \in DOMAIN chunks' <=> u.at = "done")
    BY <1>1, <1>4 DEF OwnBuild, OwnRunner
  <2>3. \A j \in Index("build") \ (DOMAIN chunks' \cup pending') :
          \E u \in workers' : u.kind = "kernel" /\ u.chunk = j
    BY <1>1, <1>4 DEF OwnBuild, OwnRunner
  <2> QED
    BY <1>1, <1>4, <2>1, <2>2, <2>3 DEF OwnBuild, OwnRunner
<1>5. CASE chunks' = Write(chunks, i, Result(w)) /\ w.at # "done" /\ v.at = "done"
  <2>1. Result(w) = Own(p, i, Split("build"))
    BY <1>1 DEF Result, Own
  <2>2. /\ DOMAIN chunks' = DOMAIN chunks \cup {i}
        /\ chunks'[i] = Own(p, i, Split("build"))
        /\ \A j \in DOMAIN chunks : chunks'[j] = chunks[j]
    BY <1>1, <1>5, <2>1 DEF Write
  <2>3. Covered(chunks', p, "build") = Covered(chunks, p, "build")
    <3>1. \A j \in Index("build") : Held(chunks', p, "build", j) = Held(chunks, p, "build", j)
      BY <1>1, <2>2 DEF Held, Own
    <3> QED
      BY <3>1, CoveredSame
  <2>4. OwnChunks'
    BY <1>2, <2>2, <2>3 DEF OwnBuild, OwnChunks, Joined, Discarded
  <2>5. \A u \in workers' : u.kind = "kernel" => (u.chunk \in DOMAIN chunks' <=> u.at = "done")
    BY <1>3, <1>5, <2>2 DEF OwnBuild, OwnRunner
  <2>6. \A j \in Index("build") \ (DOMAIN chunks' \cup pending') :
          \E u \in workers' : u.kind = "kernel" /\ u.chunk = j
    BY <1>1, <2>2 DEF OwnBuild, OwnRunner
  <2>7. pending' \subseteq Index("build") \ DOMAIN chunks'
    BY <1>1, <2>2 DEF OwnBuild, OwnRunner
  <2> QED
    BY <1>1, <2>4, <2>5, <2>6, <2>7 DEF OwnBuild, OwnRunner
<1> QED
  BY <1>4, <1>5

LEMMA WorkOwn ==
  ASSUME ProcessInv, OwnBuild, NEW w \in workers, Work(w)
  PROVE  OwnBuild'
<1>1. UNCHANGED <<cmd, pc, p, runner, pending, manifest, verdict, clean>>
  BY DEF Work
<1>2. /\ w \in Process /\ w.child /\ w.level = p /\ w.seed = p /\ Placed(w)
      /\ pc \notin {"primitives", "config"} \cup Joined
      /\ w.kind = "kernel" => w.chunks = Split("build")
  BY OwnKinds DEF ProcessInv, WorkersTyped, Possible, OwnBuild, OwnProcesses
<1>3. Is("primitives", p) /\ Is("config", p)
  BY <1>2 DEF OwnBuild, OwnInputs
<1>4. PICK v \in Process : Outcome(w, v) /\ (Silent(w, v) \/ Writes(w, v))
  BY WorkOutcome
<1>5. /\ v.kind = w.kind /\ v.chunk = w.chunk /\ v.child /\ v.born = w.born
      /\ v.chunks = w.chunks /\ workers' = (workers \ {w}) \cup {v}
  BY <1>2, <1>4 DEF Outcome, Rank
<1>6. ~(w.kind = "kernel" /\ Beyond(w.level, Result(w).cells))
  <2>1. CASE w.kind = "kernel"
    <3>1. Result(w).cells = Part(p, w.chunk, w.chunks)
      BY <1>2, <2>1 DEF Result
    <3>2. Part(p, w.chunk, w.chunks) \subseteq Sample(p)
      BY DEF Part, Sample
    <3>3. p \in Levels
      BY DEF ProcessInv, TypeOK
    <3> QED
      BY <1>2, <3>1, <3>2, <3>3, NotBeyond
  <2> QED
    BY <2>1
<1>7. /\ v.level = p /\ v.seed = p /\ v.at # "failed"
      /\ \/ v.at \in {"config", "loaded"} /\ w.at \notin Ended /\ UNCHANGED <<disk, chunks>>
         \/ Writes(w, v) /\ v.at \in {"half", "done"}
  BY <1>2, <1>3, <1>4, <1>6 DEF Silent, Writes, Is
<1>8. Result(v) = Result(w)
  BY <1>2, <1>5, <1>7 DEF Result
<1>9. \A f \in {"primitives", "config", "kernel_npz", "kernel"} \cup LawNames :
        (Has(disk, f) <=> Has(disk', f)) /\ (Has(disk, f) => disk'[f] = disk[f])
  BY <1>7, LawFileNames DEF Writes, Has, Write
<1>10. OwnProcesses'
  BY <1>1, <1>5, <1>7 DEF OwnBuild, OwnProcesses
<1>11. OwnInputs'
  BY <1>1, <1>9 DEF OwnBuild, OwnInputs, Is
<1>12. w.kind # "kernel" => \A u \in workers : u.kind = w.kind => u = w
  BY OwnKinds DEF ProcessInv, WorkersTyped, Possible, OwnBuild
<1>13. OwnFloat'
  <2>1. CASE w.kind = "float"
    <3>1. pc = "float" /\ pc \notin FromFloat
      BY <1>2, <2>1, LawFileNames DEF Placed, FromFloat, Joined
    <3>2. Result(w) = [level |-> p, seed |-> p]
      BY <1>2, <2>1 DEF Result
    <3>3. \A u \in workers' : u.kind = "float" => u = v
      BY <1>5, <1>12, <2>1
    <3>4. v.at \in {"half", "done"} => Is("float_npz", [level |-> p, seed |-> p])'
      BY <1>1, <1>7, <2>1, <3>2 DEF Writes, OwnBuild, OwnFloat, Is, Has, Write
    <3>5. v.at = "done" => Is("float", [level |-> p, seed |-> p])'
      BY <1>1, <1>7, <2>1, <3>2 DEF Writes, OwnBuild, OwnFloat, Is, Has, Write
    <3> QED
      BY <1>1, <3>1, <3>3, <3>4, <3>5 DEF OwnFloat
  <2>2. CASE w.kind # "float"
    <3>1. \A f \in {"float_npz", "float"} :
            (Has(disk, f) <=> Has(disk', f)) /\ (Has(disk, f) => disk'[f] = disk[f])
      BY <1>7, <2>2 DEF Writes, Has, Write
    <3>2. \A u \in workers' : u.kind = "float" => u \in workers
      BY <1>5, <2>2
    <3> QED
      BY <1>1, <3>1, <3>2 DEF OwnBuild, OwnFloat, Is
  <2> QED
    BY <2>1, <2>2
<1>14. OwnSpectrum'
  <2>1. CASE w.kind = "spectrum"
    <3>1. pc = "spectrum"
      BY <1>2, <2>1 DEF Placed
    <3>2. \A u \in workers' : u.kind = "spectrum" => u = v
      BY <1>5, <1>12, <2>1
    <3>3. v.at \in {"half", "done"} => Is("fiedler", Result(w))'
      BY <1>1, <1>7, <2>1 DEF Writes, OwnBuild, OwnSpectrum, Is, Has, Write
    <3>4. v.at = "done" => Is("spectrum", Result(w))'
      BY <1>1, <1>7, <2>1 DEF Writes, OwnBuild, OwnSpectrum, Is, Has, Write
    <3> QED
      BY <1>1, <1>8, <3>1, <3>2, <3>3, <3>4 DEF OwnSpectrum
  <2>2. CASE w.kind # "spectrum"
    <3>1. \A f \in {"fiedler", "spectrum"} :
            (Has(disk, f) <=> Has(disk', f)) /\ (Has(disk, f) => disk'[f] = disk[f])
      BY <1>7, <2>2 DEF Writes, Has, Write
    <3>2. \A u \in workers' : u.kind = "spectrum" => u \in workers
      BY <1>5, <2>2
    <3> QED
      BY <1>1, <3>1, <3>2 DEF OwnBuild, OwnSpectrum, verify_spectrum, Same, Is
  <2> QED
    BY <2>1, <2>2
<1>15. OwnLaws'
  <2>1. \A k \in 1..5 : LawFiles[k] \in LawNames
    BY NextPc
  <2> QED
    BY <1>1, <1>9, <2>1 DEF OwnBuild, OwnLaws, Is
<1>16. OwnKernels' /\ pc' # "verify"
  BY <1>1, <1>2 DEF OwnKernels, Joined, Discarded
<1>17. OwnChunks' /\ OwnRunner'
  <2>1. CASE w.kind = "kernel"
    <3>1. \/ chunks' = chunks /\ w.at # "done" /\ v.at # "done"
          \/ chunks' = Write(chunks, w.chunk, Result(w)) /\ w.at # "done" /\ v.at = "done"
      BY <1>7, <2>1 DEF Writes, Ended
    <3> QED
      BY <1>1, <1>5, <2>1, <3>1, WorkOwnChunks
  <2>2. CASE w.kind # "kernel"
    <3>1. chunks' = chunks
      BY <1>7, <2>2 DEF Writes
    <3>2. \A u : u.kind = "kernel" => (u \in workers <=> u \in workers')
      BY <1>5, <2>2
    <3>3. OwnChunks'
      BY <1>1, <3>1 DEF OwnBuild, OwnChunks
    <3> QED
      BY <1>1, <3>1, <3>2, <3>3, RunnerKept DEF OwnBuild
  <2> QED
    BY <2>1, <2>2
<1> QED
  BY <1>1, <1>2, <1>10, <1>11, <1>13, <1>14, <1>15, <1>16, <1>17 DEF OwnBuild, Joined

(***************************************************************************)
(* After the join the files of all places are there, and if all are those  *)
(* of this build every cell is in exactly one of them.                     *)
(***************************************************************************)
LEMMA AllThere ==
  ASSUME ProcessInv, OwnBuild, cmd = "build", pc = "assemble"
  PROVE  /\ Covered(chunks, p, "build") = Assembled
         /\ Assembled = Sample(p) <=> clean # "foreign"
         /\ clean = "own" => glued = [c \in Sample(p) |-> p]
<1>1. Index("build") \subseteq DOMAIN chunks
  BY DEF ProcessInv, RunnerPlaced, Joined, OwnBuild, OwnRunner, Discarded
<1>2. Covered(chunks, p, "build") = Assembled
  <2>1. \A i \in Index("build") : Held(chunks, p, "build", i) = chunks[i].cells
    BY <1>1 DEF Held
  <2>2. \A x : x \in Covered(chunks, p, "build")
                 <=> \E i \in Index("build") : x \in Held(chunks, p, "build", i)
    BY DEF Covered, Held
  <2>3. \A x : x \in Assembled <=> \E i \in Index("build") : x \in chunks[i].cells
    BY DEF Assembled
  <2> QED
    BY <2>1, <2>2, <2>3
<1>3. Assembled = Sample(p) <=> clean # "foreign"
  BY <1>2 DEF OwnBuild, OwnChunks, Discarded
<1>4. ASSUME clean = "own"
      PROVE  glued = [c \in Sample(p) |-> p]
  <2>1. \A i \in Index("build") : chunks[i] = Own(p, i, Split("build"))
    BY <1>1, <1>4 DEF OwnBuild, OwnChunks
  <2>2. \A i \in Index("build") :
          chunks[i].cells = Part(p, i, Split("build")) /\ chunks[i].level = p
    <3> SUFFICES ASSUME NEW i \in Index("build")
                 PROVE  chunks[i].cells = Part(p, i, Split("build")) /\ chunks[i].level = p
      OBVIOUS
    <3>1. chunks[i] = Own(p, i, Split("build"))
      BY <2>1
    <3> QED
      BY <3>1 DEF Own
  <2>3. ASSUME NEW c \in Assembled
        PROVE  glued[c] = p
    <3> DEFINE held == {i \in Index(cmd) : c \in chunks[i].cells}
    <3>1. PICK i \in Index("build") : c \in chunks[i].cells
      BY <2>3 DEF Assembled
    <3>2. \A j \in held : j = i
      BY <2>2, <3>1, PartsDisjoint
    <3>3. i \in held /\ i <= i
      BY <3>1 DEF Index
    <3>4. (CHOOSE j \in held : \A m \in held : m <= j) = i
      BY <3>2, <3>3
    <3>5. glued[c] = chunks[CHOOSE j \in held : \A m \in held : m <= j].level
      BY DEF glued
    <3> QED
      BY <2>2, <3>4, <3>5
  <2>4. glued = [c \in Assembled |-> glued[c]]
    BY DEF glued
  <2>5. Assembled = Sample(p)
    BY <1>3, <1>4
  <2> QED
    BY <2>3, <2>4, <2>5
<1> QED
  BY <1>2, <1>3, <1>4

LEMMA QuietStepOwn ==
  ASSUME ProcessInv, OwnBuild, cmd = "build", QuietStep
  PROVE  OwnBuild'
<1>1. UNCHANGED <<cmd, p, verdict, clean, pending, workers>>
  BY DEF QuietStep
<1>2. /\ pc \in LawNames \cup {"join"} \cup Joined
      /\ pc' \in LawNames \cup {"join"} \cup Joined
      /\ pc # "blocks" /\ pc' # "blocks"
  BY NextPc, LawFileNames DEF QuietStep, Joined, OwnBuild
<1>3. /\ pc \in FromFloat /\ pc' \in FromFloat
      /\ pc \notin {"primitives", "config", "spectrum"}
      /\ pc' \notin {"primitives", "config", "spectrum"}
  BY <1>2, LawFileNames DEF FromFloat, Joined
<1>4. \A f \in {"primitives", "config", "float_npz", "float", "fiedler", "spectrum"} :
        (Has(disk, f) <=> Has(disk', f)) /\ (Has(disk, f) => disk'[f] = disk[f])
  BY LawFileNames, NextPc DEF QuietStep, Has, Write
<1>5. OwnProcesses' /\ OwnInputs' /\ OwnFloat'
  BY <1>1, <1>3, <1>4 DEF OwnBuild, OwnProcesses, OwnInputs, OwnFloat, Is
<1>6. OwnSpectrum'
  <2>1. verify_spectrum(disk, p)
    BY <1>3 DEF OwnBuild, OwnSpectrum
  <2>2. verify_spectrum(disk', p')
    BY <1>1, <1>4, <2>1 DEF verify_spectrum, Same
  <2>3. \A w \in workers : w.kind # "spectrum"
    BY <1>3, OwnKinds DEF OwnBuild, Placed
  <2> QED
    BY <1>1, <2>2, <2>3 DEF OwnSpectrum
<1>7. OwnLaws'
  <2> SUFFICES ASSUME NEW k \in 1..5,
                      pc' \in {LawFiles[j] : j \in (k + 1)..5} \cup {"join"} \cup Joined
               PROVE  Is(LawFiles[k], p)'
    BY DEF OwnLaws
  <2>1. CASE \E j \in 1..5 : pc = LawFiles[j]
    <3>1. PICK j \in 1..5 : pc = LawFiles[j]
      BY <2>1
    <3>2. pc' = After(j) /\ disk' = Write(disk, LawFiles[j], p)
      <4>1. \A i \in 1..5 : LawFiles[i] = LawFiles[j] => i = j
        BY LawFileNames
      <4>2. pc \notin {"join"} \cup Joined
        BY <3>1, LawFileNames DEF Joined
      <4> QED
        BY <3>1, <4>1, <4>2 DEF QuietStep, Joined
    <3>3. k <= j
      <4>1. CASE j = 5
        BY <4>1
      <4>2. CASE j # 5
        BY <3>2, <4>2, NextPc, LawFileNames DEF Joined
      <4> QED
        BY <4>1, <4>2
    <3>4. CASE k = j
      BY <1>1, <3>2, <3>4 DEF Is, Has, Write
    <3>5. CASE k < j
      <4>1. Is(LawFiles[k], p)
        <5>1. j \in (k + 1)..5
          BY <3>5
        <5> QED
          BY <3>1, <5>1 DEF OwnBuild, OwnLaws
      <4>2. LawFiles[k] # LawFiles[j]
        BY <3>5, LawFileNames
      <4> QED
        BY <1>1, <3>2, <4>1, <4>2 DEF Is, Has, Write
    <3> QED
      BY <3>3, <3>4, <3>5
  <2>2. CASE pc \in {"join"} \cup Joined
    <3>1. Is(LawFiles[k], p)
      BY <2>2 DEF OwnBuild, OwnLaws
    <3>2. LawFiles[k] \in LawNames
      BY NextPc
    <3>3. \A i \in 1..5 : pc # LawFiles[i]
      BY <2>2, LawFileNames DEF Joined
    <3>4. disk' = disk \/ \E f \in {"kernel", "kernel_npz"} : \E c : disk' = Write(disk, f, c)
      BY <3>3 DEF QuietStep
    <3> QED
      BY <1>1, <3>1, <3>2, <3>4, LawFileNames DEF Is, Has, Write
  <2> QED
    BY <1>2, <2>1, <2>2 DEF LawNames
<1>8. OwnKernels'
  <2>1. CASE pc' = "kernel"
    <3>1. /\ pc = "assemble" /\ Assembled = Sample(p)
          /\ disk' = Write(disk, "kernel_npz", glued)
      BY <2>1, NextPc, LawFileNames DEF QuietStep
    <3>2. DOMAIN glued = Sample(p) /\ (clean = "own" => glued = [c \in Sample(p) |-> p])
      BY <3>1, AllThere DEF glued
    <3> QED
      BY <1>1, <2>1, <3>1, <3>2 DEF OwnKernels, KernelsOf, Has, Write, Discarded
  <2>2. CASE pc' = "discard"
    <3>1. pc = "kernel" /\ disk' = Write(disk, "kernel", disk["kernel_npz"])
      BY <2>2, NextPc, LawFileNames DEF QuietStep
    <3>2. KernelsOf("kernel_npz")
      BY <3>1 DEF OwnBuild, OwnKernels
    <3>3. verify_kernels(disk', p) /\ KernelsOf("kernel")'
      BY <1>1, <3>1, <3>2 DEF KernelsOf, verify_kernels, Same, Has, Write
    <3> QED
      BY <1>1, <2>2, <3>3 DEF OwnKernels
  <2>3. CASE pc' \in Discarded
    <3>1. pc \in {"discard", "rmdir", "manifest"} /\ disk' = disk
      BY <1>2, <2>3, NextPc, LawFileNames DEF QuietStep, Discarded
    <3>2. verify_kernels(disk, p) /\ KernelsOf("kernel")
      BY <3>1 DEF OwnBuild, OwnKernels, Discarded
    <3> QED
      BY <1>1, <2>3, <3>1, <3>2 DEF OwnKernels, KernelsOf, Discarded
  <2>4. CASE pc' \notin {"kernel", "discard"} \cup Discarded
    BY <2>4 DEF OwnKernels
  <2> QED
    BY <2>1, <2>2, <2>3, <2>4
<1>9. OwnChunks'
  <2>1. CASE pc' = "kernel"
    <3>1. pc = "assemble" /\ Assembled = Sample(p) /\ UNCHANGED chunks
      BY <2>1, NextPc, LawFileNames DEF QuietStep
    <3> QED
      BY <1>1, <2>1, <3>1, AllThere DEF OwnBuild, OwnChunks, Discarded
  <2>2. CASE pc' = "discard"
    <3>1. pc = "kernel" /\ UNCHANGED chunks
      BY <2>2, NextPc, LawFileNames DEF QuietStep
    <3> QED
      BY <1>1, <2>2, <3>1 DEF OwnBuild, OwnChunks, Discarded
  <2>3. CASE pc' = "rmdir"
    <3>1. pc = "discard" /\ DOMAIN chunks' = {}
      BY <2>3, NextPc, LawFileNames DEF QuietStep
    <3> QED
      BY <1>1, <2>3, <3>1 DEF OwnBuild, OwnChunks, Discarded
  <2>4. CASE pc' \in {"manifest", "verify"}
    <3>1. pc \in {"rmdir", "manifest"} /\ UNCHANGED chunks
      BY <1>2, <2>4, NextPc, LawFileNames DEF QuietStep
    <3> QED
      BY <1>1, <2>4, <3>1 DEF OwnBuild, OwnChunks, Discarded
  <2>5. CASE pc' \in LawNames \cup {"join", "assemble"}
    <3>1. pc \in LawNames \cup {"join"} /\ UNCHANGED chunks
      BY <1>2, <2>5, NextPc, LawFileNames DEF QuietStep
    <3> QED
      BY <1>1, <2>5, <3>1, ChunksKept, LawFileNames DEF OwnBuild, Discarded
  <2> QED
    BY <1>2, <2>1, <2>2, <2>3, <2>4, <2>5 DEF Joined
<1>10. OwnRunner'
  <2>1. CASE pc \in LawNames
    <3>1. UNCHANGED <<chunks, runner>>
      BY <2>1, LawFileNames DEF QuietStep
    <3> QED
      BY <1>1, <2>1, <3>1, RunnerKept, LawFileNames DEF OwnBuild, Discarded
  <2>2. CASE pc = "join"
    <3>1. /\ runner = "run" /\ runner' = "off" /\ pending = {} /\ Child("kernel") = {}
          /\ UNCHANGED chunks
      BY <2>2, LawFileNames DEF QuietStep
    <3>2. \A w \in workers : w.kind # "kernel"
      BY <3>1 DEF Child, OwnBuild, OwnProcesses
    <3>3. Index("build") \subseteq DOMAIN chunks
      BY <3>1, <3>2 DEF OwnBuild, OwnRunner
    <3> QED
      BY <1>1, <3>1, <3>2, <3>3 DEF OwnBuild, OwnRunner
  <2>3. CASE pc \in Joined
    <3>1. /\ runner' = "off" /\ workers = {} /\ pending = {}
          /\ pc' \in Discarded \/ UNCHANGED chunks
      BY <2>3, OwnKinds, LawFileNames, NextPc
         DEF QuietStep, OwnBuild, ProcessInv, RunnerPlaced, Joined, Discarded
    <3>2. pc' \notin Discarded => Index("build") \subseteq DOMAIN chunks
      <4>1. pc' \notin Discarded => pc \notin Discarded
        BY <1>2, <2>3, LawFileNames DEF QuietStep, Discarded, Joined
      <4>2. runner = "off" /\ pc \notin {"primitives", "config"}
        BY <2>3 DEF ProcessInv, RunnerPlaced, Joined
      <4> QED
        BY <4>1, <4>2 DEF OwnBuild, OwnRunner
    <3> QED
      BY <1>1, <3>1, <3>2 DEF OwnRunner
  <2> QED
    BY <1>2, <2>1, <2>2, <2>3
<1>11. pc' = "verify" => manifest' = inventory(disk')
  BY NextPc, LawFileNames DEF QuietStep
<1> QED
  BY <1>1, <1>2, <1>5, <1>6, <1>7, <1>8, <1>9, <1>10, <1>11 DEF OwnBuild

(***************************************************************************)
(* Only the start of a build makes it clean, and its end or a fault undoes *)
(* that.                                                                   *)
(***************************************************************************)
LEMMA BuildStep ==
  ASSUME BuildInv, [Next]_vars
  PROVE  BuildInv'
<1>1. ProcessInv /\ ProcessInv'
  BY ProcessStep DEF BuildInv
<1> SUFFICES ASSUME cmd' = "build", clean' # "no"
             PROVE  OwnBuild'
  BY <1>1 DEF BuildInv
<1>2. ASSUME NEW q \in Levels, Build(q) PROVE OwnBuild'
  BY <1>1, <1>2, BuildBegins
<1>3. CASE \/ kernel_phase \/ refresh_archive \/ Raise \/ Report
           \/ Fault \/ \E w \in workers : WorkerFails(w)
  <2>1. cmd' # "build" \/ clean' = "no"
    BY <1>3 DEF kernel_phase, refresh_archive, Begin, Raise, Abandon, Report, WorkerFails, Fault
  <2> QED
    BY <2>1
<1>4. CASE \/ SavePrimitives \/ SaveConfig \/ FloatWait \/ QuietStep \/ Scan \/ Poll
           \/ \E w \in Child("spectrum") : SpectrumOver(w)
           \/ \E w \in workers : Work(w)
           \/ UNCHANGED vars
  <2>1. UNCHANGED <<cmd, clean>>
    BY <1>4 DEF SavePrimitives, SaveConfig, FloatWait, Raise, Abandon, QuietStep, Scan, Poll,
       Thread, SpectrumOver, Work, Goto, vars
  <2>2. OwnBuild
    BY <2>1 DEF BuildInv
  <2>3. CASE UNCHANGED vars
    BY <2>2, <2>3 DEF vars, OwnBuild, OwnProcesses, OwnInputs, OwnFloat, OwnSpectrum,
       OwnLaws, OwnChunks, OwnRunner, OwnKernels, KernelsOf, Is
  <2> QED
    BY <1>1, <1>4, <2>1, <2>2, <2>3, SavePrimitivesOwn, SaveConfigOwn, FloatWaitOwn,
       QuietStepOwn, RunnerOwn, SpectrumOwn, WorkOwn
<1> QED
  BY <1>2, <1>3, <1>4, NextCases

LEMMA OwnBuildVerifies ==
  ASSUME ProcessInv, OwnBuild, pc = "verify"
  PROVE  Verifies(disk, manifest)
<1>1. Is("primitives", p) /\ Is("config", p)
  BY DEF OwnBuild, OwnInputs
<1>2. \A f \in LawNames : Is(f, p)
  BY DEF OwnBuild, OwnLaws, LawNames, Joined
<1>3. pc \in FromFloat \ {"spectrum"}
  BY LawFileNames DEF FromFloat, Joined
<1>4. verify_float_law(disk, p)
  BY <1>3 DEF OwnBuild, OwnFloat, verify_float_law, Same, Is
<1>5. verify_spectrum(disk, p) /\ verify_kernels(disk, p)
  BY <1>3 DEF OwnBuild, OwnSpectrum, OwnKernels, Discarded
<1>6. verify_integer_law(disk, p) /\ verify_float_isolated(disk, p)
  BY <1>2, LawFileNames DEF verify_integer_law, verify_float_isolated, Is
<1>7. verify_inventory(disk, manifest)
  BY DEF OwnBuild, verify_inventory
<1> QED
  BY <1>1, <1>4, <1>5, <1>6, <1>7 DEF Verifies, Is

(***************************************************************************)
(* The ways in which a command may end without a fault; all but two are    *)
(* closed to a clean build: no worker of it fails, its thread finds no     *)
(* error, the directory of its chunks is empty when it is removed.         *)
(***************************************************************************)
LEMMA EndOfBuild ==
  ASSUME ProcessInv, OwnBuild, cmd = "build", cmd' = "idle", Step
  PROVE  \/ Report
         \/ Raise /\ clean = "foreign"
<1>1. CASE SavePrimitives \/ SaveConfig \/ SpectrumWait \/ SaveLaw \/ SaveKernels
           \/ Discard \/ write_manifest
  BY <1>1 DEF SavePrimitives, SaveConfig, SpectrumWait, SaveLaw, SaveKernels, Discard,
     write_manifest, Goto
<1>2. CASE FloatWait
  BY <1>2 DEF FloatWait, Goto, Child, OwnBuild, OwnProcesses
<1>3. CASE Join
  BY <1>3 DEF Join, Goto, OwnBuild, OwnRunner
<1>4. CASE Assemble
  <2>1. pc = "assemble"
    BY <1>4 DEF Assemble, At
  <2>2. Raise
    BY <1>4 DEF Assemble, Goto
  <2>3. ~Beyond(disk["primitives"], Sample(p))
    BY <2>1, NotBeyond DEF OwnBuild, OwnInputs, Is, ProcessInv, TypeOK
  <2>4. Assembled # Sample(p)
    BY <1>4, <2>3 DEF Assemble, Goto
  <2> QED
    BY <2>1, <2>2, <2>4, AllThere
<1>5. CASE RemoveDirectory
  <2>1. pc = "rmdir" /\ DOMAIN chunks = {}
    BY <1>5 DEF RemoveDirectory, At, OwnBuild, OwnChunks
  <2> QED
    BY <1>5, <2>1 DEF RemoveDirectory, Goto
<1>6. CASE LoadBlocks
  BY <1>6 DEF LoadBlocks, At, OwnBuild
<1> QED
  BY <1>1, <1>2, <1>3, <1>4, <1>5, <1>6 DEF Step

(***************************************************************************)
(* A build of any level that begins while no stray is alive, and in which  *)
(* no process is killed and no worker or law fails, ends in one of two     *)
(* ways, whatever earlier commands left behind and however the spectrum    *)
(* worker ends.  It raises exactly if the chunk files it found, completed  *)
(* by its own, are not its sample.  Otherwise its verifier passes; and if  *)
(* the chunk files it found were such as it writes itself, or none, the    *)
(* kernels in the archive are those of its primitives, cell by cell.       *)
(***************************************************************************)
THEOREM UndisturbedBuildEnds == Spec => CleanBuildEnds
<1>1. Init => BuildInv
  BY ProcessInit DEF BuildInv, Init
<1>2. BuildInv /\ [Next]_vars => BuildInv'
  BY BuildStep
<1>3. BuildInv /\ [Next]_vars =>
        [cmd = "build" /\ cmd' = "idle" /\ faults' = faults /\ clean # "no" =>
           /\ verdict' = "pass" <=> clean # "foreign"
           /\ verdict' = "none" <=> clean = "foreign"
           /\ clean = "own" => disk'["kernel"] = [c \in Sample(p) |-> p]]_vars
  <2> SUFFICES ASSUME BuildInv, Next, cmd = "build", cmd' = "idle", faults' = faults,
                      clean # "no"
               PROVE  /\ verdict' = "pass" <=> clean # "foreign"
                      /\ verdict' = "none" <=> clean = "foreign"
                      /\ clean = "own" => disk'["kernel"] = [c \in Sample(p) |-> p]
    OBVIOUS
  <2>1. ProcessInv /\ OwnBuild
    BY DEF BuildInv
  <2>2. Step
    <3>1. ~kernel_phase /\ ~refresh_archive /\ \A q \in Levels : ~Build(q)
      BY DEF kernel_phase, refresh_archive, Build, Begin
    <3>2. ~SpectrumTimeout /\ ~Scan /\ ~Poll /\ \A w : ~Work(w)
      BY DEF SpectrumTimeout, Goto, Scan, Poll, Thread, Work
    <3>3. faults \in Int /\ faults + 1 # faults
      BY <2>1, ArchiveAssumption DEF ProcessInv, TypeOK
    <3>4. ~Killed /\ ~LawFails /\ \A w : ~WorkerFails(w)
      BY <3>3 DEF Killed, LawFails, WorkerFails, Fault
    <3> QED
      BY <3>1, <3>2, <3>4 DEF Next
  <2>3. CASE Report
    <3>1. pc = "verify" /\ disk' = disk
      BY <2>3 DEF Report, At
    <3>2. verdict' = "pass"
      BY <2>1, <2>3, <3>1, OwnBuildVerifies DEF Report
    <3>3. clean # "foreign" /\ KernelsOf("kernel")
      BY <2>1, <3>1 DEF OwnBuild, OwnChunks, OwnKernels, Discarded
    <3> QED
      BY <3>1, <3>2, <3>3 DEF KernelsOf
  <2>4. CASE Raise /\ clean = "foreign"
    <3>1. verdict' = "none"
      BY <2>1, <2>4 DEF Raise, Abandon, OwnBuild
    <3> QED
      BY <2>4, <3>1
  <2> QED
    BY <2>1, <2>2, <2>3, <2>4, EndOfBuild
<1> QED
  BY <1>1, <1>2, <1>3, PTL DEF Spec, CleanBuildEnds
=============================================================================
