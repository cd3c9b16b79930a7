---------------------------- MODULE ArchiveBuild ----------------------------
(***************************************************************************)
(* The evidence archive of an exact federation                             *)
(* (oph_exact/federation_archive.py): a directory, filled by build_archive *)
(* and its float, spectrum and kernel workers, and re-bound by the         *)
(* commands --refresh and --kernels-only.  A builder may be killed at any  *)
(* step; its workers then go on as strays and write into the directory     *)
(* while later commands use it.                                            *)
(*                                                                         *)
(* A file is abstracted to what it was computed from: the level of the     *)
(* primitives, the seed, the cells.  The seeds of a level are named by the *)
(* level; schedules and sweeps are bound by config in the same way and     *)
(* left out.  A chunk file appears in one step (KernelChunks has staging   *)
(* files and the directory itself), and so does a run of the verifier.     *)
(***************************************************************************)
EXTENDS Integers, FiniteSets

CONSTANTS
  Levels,       \* the --level values used
  KernelCells,  \* --kernel-cells: cells in the kernel sample of every level
  Workers,      \* --workers of every command
  MaxFaults,    \* bound on kills, failing workers and failing laws
  Overlap       \* bound: may a level follow another while a stray is alive

ASSUME ArchiveAssumption ==
  /\ Levels # {} /\ Levels \subseteq Nat /\ MaxFaults \in Nat
  /\ KernelCells \in Nat \ {0} /\ Workers \in Nat \ {0} /\ Overlap \in BOOLEAN

\* What the builder writes itself between the spectrum and the join.
LawFiles == <<"integer_npz", "integer", "isolated_npz", "isolated", "float_isolated">>

LawNames == {LawFiles[k] : k \in 1..5}

\* Names under which Path.iterdir finds files to bind.
Bound == {"primitives", "config", "float_npz", "float", "fiedler", "spectrum",
          "kernel_npz", "kernel"} \cup LawNames

VARIABLES
  disk,      \* existing file -> what it was computed from
  chunks,    \* number -> cells and level of a file of the chunk directory
  cmd,       \* the running command, or "idle"
  pc,        \* its next step
  p,         \* its level
  runner,    \* state of the thread _KernelChunkRunner
  pending,   \* chunks it has not started a worker for
  workers,   \* live worker processes, and children not waited for yet
  manifest,  \* inventory of the manifest, until the verifier has read it
  verdict,   \* of the verifier run of the last command, if it got there
  faults,    \* faults so far
  clean      \* history of the running build: what it found (see Outlook), or
             \* "no" when a stray was alive or a fault has happened since

vars == <<disk, chunks, cmd, pc, p, runner, pending, workers, manifest, verdict,
          faults, clean>>

kernelPhase == <<chunks, runner, pending>>

-----------------------------------------------------------------------------
Has(d, f) == f \in DOMAIN d

Write(d, f, c) == [g \in DOMAIN d \cup {f} |-> IF g = f THEN c ELSE d[g]]

Without(d, F) == [g \in DOMAIN d \ F |-> d[g]]

inventory(d) == [f \in DOMAIN d \cap Bound |-> d[f]]

Same(d, f, g) == Has(d, f) /\ Has(d, g) /\ d[f] = d[g]

(***************************************************************************)
(* The kernel sample of a level: cell 0 touches the first pentagonal       *)
(* vertex at every level and is the lowest, so every sample begins with    *)
(* it; the other cells are taken to differ from level to level.  Part is   *)
(* items[i::n].                                                            *)
(***************************************************************************)
Cell(level, k) == IF k = 0 THEN <<0, 0>> ELSE <<level, k>>

Position == 0 .. KernelCells - 1

Sample(level) == {Cell(level, k) : k \in Position}

Part(level, i, n) == {Cell(level, k) : k \in {j \in Position : j % n = i}}

\* The sample of a finer level may name carriers that these primitives lack.
Beyond(level, cells) == \E c \in cells : c[1] > level

width(c) == IF c = "build" /\ Workers > 1 THEN Workers - 1 ELSE Workers

kernel_chunk_count(w) == IF 2 * w < KernelCells THEN 2 * w ELSE KernelCells

Split(c) == kernel_chunk_count(width(c))

Index(c) == 0 .. Split(c) - 1

\* Every file at its place, the missing ones computed: what they will hold.
Covered(d, level, c) ==
  UNION {IF i \in DOMAIN d THEN d[i].cells ELSE Part(level, i, Split(c)) : i \in Index(c)}

Own(level, i, n) == [cells |-> Part(level, i, n), level |-> level]

Outlook(level) ==
  CASE \A i \in DOMAIN chunks \cap Index("build") :
         chunks[i] = Own(level, i, Split("build"))      -> "own"
    [] Covered(chunks, level, "build") # Sample(level)  -> "foreign"
    [] OTHER                                            -> "covers"

(***************************************************************************)
(* verify_archive.py.  Digests tie each array file to its JSON block;      *)
(* loads, seeds and seam counts tie the blocks to config and primitives.   *)
(* The kernel block is tied to the sample of config only: glued kernels    *)
(* are not computed again.                                                 *)
(***************************************************************************)
verify_inventory(d, m) == m = inventory(d)

verify_integer_law(d, level) ==
  \A f \in LawNames \ {"float_isolated"} : Has(d, f) /\ d[f] = level

verify_float_isolated(d, level) ==
  Has(d, "float_isolated") /\ d["float_isolated"] = level

verify_float_law(d, level) ==
  Has(d, "float") => /\ Same(d, "float", "float_npz")
                     /\ d["float"] = [level |-> level, seed |-> level]

verify_spectrum(d, level) ==
  Has(d, "spectrum") => /\ Same(d, "spectrum", "fiedler")
                        /\ d["spectrum"].level = level

verify_kernels(d, level) ==
  Same(d, "kernel", "kernel_npz") /\ DOMAIN d["kernel"] = Sample(level)

Verifies(d, m) ==
  LET level == d["config"]
  IN  /\ verify_inventory(d, m)
      /\ d["primitives"] = level
      /\ verify_integer_law(d, level)
      /\ verify_float_law(d, level)
      /\ verify_float_isolated(d, level)
      /\ verify_spectrum(d, level)
      /\ verify_kernels(d, level)

-----------------------------------------------------------------------------
(***************************************************************************)
(* Worker processes.  A worker is told its seed, or its chunk and their    *)
(* number, on the command line; it reads primitives, and before them, for  *)
(* kernels, config (seed is the level whose sample that names).            *)
(* The arrays of two runs of the spectrum differ: ARPACK starts from a     *)
(* random vector.                                                          *)
(***************************************************************************)
Worker(kind) ==
  [kind |-> kind, child |-> TRUE, at |-> "new", seed |-> p,
   level |-> p, born |-> faults, chunk |-> 0, chunks |-> 1]

KernelWorker(i) == [Worker("kernel") EXCEPT !.chunk = i, !.chunks = Split(cmd)]

Child(kind) == {w \in workers : w.kind = kind /\ w.child}

Ended == {"done", "failed"}

Result(w) ==
  CASE w.kind = "float"    -> [level |-> w.level, seed |-> w.seed]
    [] w.kind = "spectrum" -> [level |-> w.level, run |-> w.born]
    [] w.kind = "kernel"   -> [level |-> w.level, cells |-> Part(w.seed, w.chunk, w.chunks)]

Replace(w, v) ==
  workers' = IF v.at \in Ended /\ ~v.child THEN workers \ {w}
             ELSE (workers \ {w}) \cup {v}

Become(w, s) == Replace(w, [w EXCEPT !.at = s])

LoadConfig(w) ==
  /\ w.at = "new" /\ w.kind = "kernel"
  /\ Replace(w, [w EXCEPT !.at = "config", !.seed = disk["config"]])
  /\ UNCHANGED <<disk, chunks>>

LoadPrimitives(w) ==
  /\ w.at = IF w.kind = "kernel" THEN "config" ELSE "new"
  /\ Replace(w, [w EXCEPT !.at = "loaded", !.level = disk["primitives"]])
  /\ UNCHANGED <<disk, chunks>>

ArrayName == [float |-> "float_npz", spectrum |-> "fiedler"]

SaveArrays(w) ==
  /\ w.at = "loaded" /\ w.kind # "kernel"
  /\ disk' = Write(disk, ArrayName[w.kind], Result(w))
  /\ Become(w, "half")
  /\ UNCHANGED chunks

\* The JSON block of float and spectrum.
SaveBlock(w) ==
  /\ w.at = "half"
  /\ disk' = Write(disk, w.kind, Result(w))
  /\ Become(w, "done")
  /\ UNCHANGED chunks

SaveChunk(w) ==
  /\ w.at = "loaded" /\ w.kind = "kernel"
  /\ chunks' = Write(chunks, w.chunk, Result(w))
  /\ Become(w, "done")
  /\ UNCHANGED disk

\* The impulse does not fit the empty block of a carrier that is not there
\* (ValueError).
CellMissing(w) ==
  /\ w.at = "loaded" /\ w.kind = "kernel" /\ Beyond(w.level, Result(w).cells)
  /\ Become(w, "failed")
  /\ UNCHANGED <<disk, chunks>>

Work(w) ==
  /\ \/ LoadConfig(w) \/ LoadPrimitives(w) \/ SaveArrays(w) \/ SaveBlock(w)
     \/ SaveChunk(w) \/ CellMissing(w)
  /\ UNCHANGED <<cmd, pc, p, runner, pending, manifest, verdict, faults, clean>>

Fault == faults < MaxFaults /\ faults' = faults + 1 /\ clean' = "no"

\* An exception, or a kill: a nonzero exit code.
WorkerFails(w) ==
  /\ w.at \notin Ended
  /\ Fault
  /\ Become(w, "failed")
  /\ UNCHANGED <<disk, chunks, cmd, pc, p, runner, pending, manifest, verdict>>

-----------------------------------------------------------------------------
(***************************************************************************)
(* Commands.                                                               *)
(***************************************************************************)
Init ==
  /\ disk = [f \in {} |-> 0]
  /\ chunks = [i \in {} |-> 0]
  /\ cmd = "idle" /\ pc = "idle" /\ p \in Levels
  /\ runner = "off" /\ pending = {} /\ workers = {}
  /\ manifest = [f \in {} |-> 0] /\ verdict = "none"
  /\ faults = 0 /\ clean = "no"

Begin(c, s, q) ==
  /\ cmd = "idle"
  /\ q = p \/ workers = {} \/ Overlap
  /\ cmd' = c /\ pc' = s /\ p' = q
  /\ verdict' = "none"
  /\ UNCHANGED <<disk, chunks, pending, workers, manifest, faults>>

Build(q) ==
  /\ Begin("build", "primitives", q)
  /\ runner' = "off"
  /\ clean' = IF workers = {} THEN Outlook(q) ELSE "no"

kernel_phase ==
  /\ Has(disk, "config") /\ Begin("kernels", "join", disk["config"])
  /\ runner' = "scan" /\ clean' = "no"

refresh_archive ==
  /\ Has(disk, "config") /\ Begin("refresh", "blocks", disk["config"])
  /\ runner' = "off" /\ clean' = "no"

\* The process ends; children that are still running become strays.
Abandon ==
  /\ cmd' = "idle" /\ pc' = "idle" /\ runner' = "off" /\ pending' = {}
  /\ workers' = {[w EXCEPT !.child = FALSE] : w \in {w \in workers : w.at \notin Ended}}
  /\ manifest' = [f \in {} |-> 0]
  /\ clean' = "no"
  /\ UNCHANGED <<disk, chunks, p, verdict>>

Killed == cmd # "idle" /\ Fault /\ Abandon

Raise == Abandon /\ UNCHANGED faults

At(s) == cmd # "idle" /\ pc = s

Goto(s) == pc' = s /\ UNCHANGED <<cmd, p, verdict, faults, clean>>

-----------------------------------------------------------------------------
(***************************************************************************)
(* build_archive, step by step.                                            *)
(***************************************************************************)
SavePrimitives ==
  /\ At("primitives")
  /\ disk' = Write(disk, "primitives", p)
  /\ Goto("config")
  /\ UNCHANGED <<kernelPhase, workers, manifest>>

SaveConfig ==
  /\ At("config")
  /\ disk' = Write(disk, "config", p)
  /\ runner' = "scan"
  /\ workers' = workers \cup {Worker("float")}
  /\ Goto("float")
  /\ UNCHANGED <<chunks, pending, manifest>>

FloatWait ==
  /\ At("float")
  /\ \E w \in Child("float") :
       \/ /\ w.at = "done"
          /\ workers' = (workers \ {w}) \cup {Worker("spectrum")}
          /\ Goto("spectrum")
          /\ UNCHANGED <<disk, kernelPhase, manifest>>
       \/ w.at = "failed" /\ Raise

\* Faulty variant: what an earlier or the killed worker has written stays.
KeepSpectrum(d) == d

\* unlink(missing_ok=True) of both files
SkipSpectrum(d) == Without(d, {"spectrum", "fiedler"})

SpectrumWait ==
  /\ At("spectrum")
  /\ \E w \in Child("spectrum") :
       /\ w.at \in Ended
       /\ disk' = IF w.at = "done" THEN disk ELSE SkipSpectrum(disk)
       /\ workers' = workers \ {w}
  /\ Goto(LawFiles[1])
  /\ UNCHANGED <<kernelPhase, manifest>>

\* Faulty variant: wait() without the timeout.
WaitForever == FALSE /\ UNCHANGED vars

\* Faulty variant: the worker is given up without kill().
LeaveRunning ==
  /\ At("spectrum")
  /\ disk' = SkipSpectrum(disk)
  /\ Goto(LawFiles[1])
  /\ UNCHANGED <<kernelPhase, manifest, workers>>

\* kill() and wait()
SpectrumTimeout ==
  /\ At("spectrum")
  /\ \E w \in Child("spectrum") :
       /\ w.at \notin Ended
       /\ workers' = workers \ {w}
  /\ disk' = SkipSpectrum(disk)
  /\ Goto(LawFiles[1])
  /\ UNCHANGED <<kernelPhase, manifest>>

After(k) == IF k = 5 THEN "join" ELSE LawFiles[k + 1]

SaveLaw ==
  /\ \E k \in 1..5 :
       /\ At(LawFiles[k])
       /\ disk' = Write(disk, LawFiles[k], p)
       /\ Goto(After(k))
  /\ UNCHANGED <<kernelPhase, workers, manifest>>

\* A schedule that does not end where it should: AssertionError.
LawFails == cmd # "idle" /\ pc \in LawNames /\ Fault /\ Abandon

(***************************************************************************)
(* The thread: no worker for a chunk file that is already there, and never *)
(* more workers at a time than its width.  What it can start it starts at  *)
(* once, in the order of the chunks (KernelChunks has them one by one).    *)
(***************************************************************************)
StartNext(js, kids) ==
  LET room    == width(cmd) - Cardinality(kids)
      started == {i \in js : Cardinality({j \in js : j < i}) < room}
  IN  /\ pending' = js \ started
      /\ workers' = (workers \ (Child("kernel") \ kids)) \cup {KernelWorker(i) : i \in started}

Thread == UNCHANGED <<disk, chunks, cmd, pc, p, manifest, verdict, faults, clean>>

Scan ==
  /\ runner = "scan" /\ runner' = "run"
  /\ StartNext(Index(cmd) \ DOMAIN chunks, {})
  /\ Thread

\* A failed worker: its siblings are killed, join finds the error.
Poll ==
  /\ runner = "run"
  /\ \E w \in Child("kernel") :
       \/ w.at = "done" /\ StartNext(pending, Child("kernel") \ {w}) /\ UNCHANGED runner
       \/ /\ w.at = "failed"
          /\ workers' = workers \ Child("kernel")
          /\ runner' = "error" /\ pending' = {}
  /\ Thread

Join ==
  /\ At("join")
  /\ \/ /\ runner = "run" /\ pending = {} /\ Child("kernel") = {}
        /\ runner' = "off" /\ Goto("assemble")
        /\ UNCHANGED <<disk, chunks, pending, workers, manifest>>
     \/ runner = "error" /\ Raise

(***************************************************************************)
(* The files are read in the order of their numbers, a later one replaces  *)
(* what an earlier one says of the same cell.                              *)
(***************************************************************************)
Assembled == UNION {chunks[i].cells : i \in Index(cmd)}

glued ==
  [c \in Assembled |->
     LET held == {i \in Index(cmd) : c \in chunks[i].cells}
     IN  chunks[CHOOSE i \in held : \A j \in held : j <= i].level]

Assemble ==
  /\ At("assemble")
  /\ \/ /\ Assembled = Sample(p)
        /\ disk' = Write(disk, "kernel_npz", glued)
        /\ Goto("kernel")
        /\ UNCHANGED <<kernelPhase, workers, manifest>>
     \/ Assembled # Sample(p) /\ Raise
     \/ Beyond(disk["primitives"], Assembled) /\ Raise

SaveKernels ==
  /\ At("kernel")
  /\ disk' = Write(disk, "kernel", disk["kernel_npz"])
  /\ Goto("discard")
  /\ UNCHANGED <<kernelPhase, workers, manifest>>

\* iterdir and unlink: whatever is there by now
Discard ==
  /\ At("discard")
  /\ chunks' = [i \in {} |-> 0]
  /\ Goto("rmdir")
  /\ UNCHANGED <<disk, runner, pending, workers, manifest>>

\* A stray has put a chunk back: OSError.
RemoveDirectory ==
  /\ At("rmdir")
  /\ IF DOMAIN chunks = {}
     THEN /\ Goto(IF cmd = "build" THEN "manifest" ELSE "blocks")
          /\ UNCHANGED <<disk, kernelPhase, workers, manifest>>
     ELSE Raise

LoadBlocks ==
  /\ At("blocks")
  /\ IF {"integer", "isolated", "float_isolated", "kernel"} \subseteq DOMAIN disk
     THEN Goto("manifest") /\ UNCHANGED <<disk, kernelPhase, workers, manifest>>
     ELSE Raise

write_manifest ==
  /\ At("manifest")
  /\ manifest' = inventory(disk)
  /\ Goto("verify")
  /\ UNCHANGED <<disk, kernelPhase, workers>>

Report ==
  /\ At("verify")
  /\ verdict' = IF Verifies(disk, manifest) THEN "pass" ELSE "fail"
  /\ manifest' = [f \in {} |-> 0]
  /\ cmd' = "idle" /\ pc' = "idle" /\ runner' = "off" /\ clean' = "no"
  /\ UNCHANGED <<disk, chunks, pending, p, workers, faults>>

Step ==
  \/ SavePrimitives \/ SaveConfig \/ FloatWait \/ SpectrumWait \/ SaveLaw
  \/ Join \/ Assemble \/ SaveKernels \/ Discard \/ RemoveDirectory \/ LoadBlocks
  \/ write_manifest \/ Report

Next ==
  \/ \E q \in Levels : Build(q)
  \/ kernel_phase \/ refresh_archive
  \/ Step \/ SpectrumTimeout \/ Scan \/ Poll
  \/ \E w \in workers : Work(w) \/ WorkerFails(w)
  \/ Killed \/ LawFails

(***************************************************************************)
(* The builder and its thread go on, float and kernel workers compute for  *)
(* a finite time.  Nothing of the kind is asked of the spectrum worker     *)
(* (shift-invert may take any time) or of who starts commands.             *)
(***************************************************************************)
Spec ==
  /\ Init /\ [][Next]_vars
  /\ WF_vars(Step) /\ WF_vars(SpectrumTimeout) /\ WF_vars(Scan \/ Poll)
  /\ WF_vars(\E w \in workers : w.kind # "spectrum" /\ Work(w))

-----------------------------------------------------------------------------
(***************************************************************************)
(* Types; and a command that has ended has waited for all its children or  *)
(* left them as strays.                                                    *)
(***************************************************************************)
TypeOK ==
  /\ DOMAIN disk \subseteq Bound
  /\ DOMAIN chunks \subseteq Position
  /\ cmd \in {"idle", "build", "kernels", "refresh"}
  /\ cmd = "idle" <=> pc = "idle"
  /\ p \in Levels
  /\ runner \in {"off", "scan", "run", "error"} /\ pending \subseteq Position
  /\ verdict \in {"none", "pass", "fail"}
  /\ faults \in 0..MaxFaults /\ clean \in {"no", "own", "covers", "foreign"}
  /\ cmd = "idle" => \A w \in workers : ~w.child

(***************************************************************************)
(* How a build ends that begins without strays and meets no fault.  It is  *)
(* refused exactly if the chunk files it found, completed by those it      *)
(* computes, are not its sample; otherwise its verifier passes, whatever   *)
(* killed builds, failed workers and skipped spectra have left in the      *)
(* directory; and if it found no chunks but such as it would have written, *)
(* the kernels of the archive are those of its primitives.                 *)
(***************************************************************************)
CleanBuildEnds ==
  [][cmd = "build" /\ cmd' = "idle" /\ faults' = faults /\ clean # "no" =>
       /\ verdict' = "pass" <=> clean # "foreign"
       /\ verdict' = "none" <=> clean = "foreign"
       /\ clean = "own" => disk'["kernel"] = [c \in Sample(p) |-> p]]_vars

(***************************************************************************)
(* Every command ends, also when the spectrum worker hangs: its wait has   *)
(* the --lambda2-timeout.                                                  *)
(***************************************************************************)
CommandEnds == cmd # "idle" ~> cmd = "idle"

(***************************************************************************)
(* A directory used for one level and never for --kernels-only: builds     *)
(* that are started again and again verify again and again, whatever fault *)
(* has hit an earlier one.  Both premises are needed: a chunk file of      *)
(* another sample, or of the split of the other command, is never removed  *)
(* and every later build raises (KernelChunks has that run).               *)
(***************************************************************************)
Recovers ==
  \A l \in Levels :
    [](p = l) /\ [](cmd # "kernels") /\ []<>(cmd = "build") => []<>(verdict = "pass")

(***************************************************************************)
(* An archive that its verifier passes holds the kernels of its own        *)
(* primitives (the readout is reported as that of the archived seams).     *)
(***************************************************************************)
KernelsOfThePrimitives ==
  [][verdict' = "pass" /\ verdict # "pass" =>
       \A c \in DOMAIN disk["kernel"] : disk["kernel"][c] = disk["primitives"]]_verdict
=============================================================================
