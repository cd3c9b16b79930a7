# TLA+ models of the OPH-FPE simulator

OPH-FPE simulates observer patches on finite graphs and writes evidence that
others are meant to audit.  Most of the repository is floating-point numerics.
What carries its claims, however, is a small amount of discrete control code:
transactions that may be applied only if nothing they read has moved, receipts
that vouch for them, verifiers that replay them, and long computations that
survive crashes.  This project models that code.

Modules end in `.tla`; each `.cfg` gives one instance to TLC.  `MC*` modules
hold the finite constants.  `*Proofs` modules hold the theorems for TLAPS.
`PROJECT.json` lists components, runs, faulty variants, source lines, findings,
hazards and theorems.

    tlc -config RepairTransaction.cfg MCRepairTransaction
    tlapm RepairTransactionProofs.tla

## 1. Inventory

Components with discrete logic of their own, by importance.

| Component | Source | State | Operations | Here |
|---|---|---|---|---|
| Transactional repair engine | `oph_fpe/repair/transaction.py` | register values, versions, archives | prepare, assess, commit, commit_batch, rollback | modelled |
| Receipts and replay verifier | same file | none; receipts are values | issue, diagnose, replay in a fresh engine | partly |
| Federation archive build | `oph_exact/federation_archive.py` | archive files, manifest, worker processes | build, `--kernels-only`, `--refresh`, verifier run | partly |
| Kernel phase of the archive | same file | chunk files, worker processes, runner thread | build, resume, spawn, poll, assemble, clean up | partly |
| Seam laws of the exact federation | `oph_exact/federation.py`, `oph_exact/carrier.py` | port readings, ledger, counters | sequential and layered engines, sweeps, stop test | partly |
| Consensus transactions | `oph_fpe/consensus/transactional_repair.py` | none; the caller keeps the state | prepare, commit, batch receipt, graph reports | partly |
| Ordered thread maps | `oph_fpe/bulk/modular_response_kernel.py`, `oph_fpe/cosmology/angular_power.py` | window of futures | submit, yield in order | no |
| E0 patch network | `oph_fpe/core/patchnet.py`, `oph_fpe/dynamics/repair.py` | patch states, records | repair moves, record writes | no |
| Gauge authority repair | `oph_fpe/gauge/authority_repair.py` | gauge links | authority sweeps | no |
| Geometry cache | `oph_fpe/cache/geometry_cache.py` | files shared by processes | load, build, replace | no |
| Native kernel loader | `oph_exact/federation.py` | shared compile cache | compile, publish, fall back | no |
| Sweeps, pipelines | `oph_fpe/scale/parallel.py`, `oph_fpe/pipelines/` | result lists | process pool, stages | no |
| Screen engines, cosmology, observers | `oph_fpe/scale/`, `oph_fpe/cosmology/`, `oph_fpe/bulk/` | arrays | numerics | no |
| Evidence bundles, visualizer | `oph_fpe/evidence/`, `tools/` | files | hashing, HTTP | no |

How they interact.  The pipelines call the engines and write evidence.  The
repair engine is driven by the capacity conformance and, inside the replay, by
the verifier itself; the emergence ladder, the operational verifier of the
observers and the H3/KMS preflight replay its envelopes.  Its receipts leave the process as JSON and come back to the diagnostic and to
the replay verifier, which knows nothing but the primitive inputs they contain.
The consensus functions are an earlier, stateless relative of the engine: they
compare values, optionally versions, and return states for the caller to adopt.
The exact federation is a lane of its own: the seam laws run in one of three
engines (python, numpy, a compiled kernel) that are meant to be
interchangeable, and the archive builder runs them, a float worker, a spectrum
worker and the kernel phase into one directory, which a generated verifier then
reads.  Builder and workers communicate only through files and exit codes.

What is hard, and what correctness means:

- *Optimistic concurrency.*  A proposal is computed at one moment and committed
  at another.  Correct: an admitted proposal is what its recovery would compute
  now (no ABA gap through rollback, no undeclared dependency).
- *Batches.*  Components are committed one by one against a state that earlier
  ones have changed.  Correct: the order decides nothing.
- *Unions.*  Moves that are each lawful may be unlawful together.  Correct: the
  law is tested on the union.
- *Histories.*  Rollback brings old states back.  Correct: no archive entry is
  ever overwritten, every change is archived or undone.
- *Receipts.*  Correct: what a receipt says is what happened, and somebody with
  the inputs alone obtains the same receipt.
- *Crashes.*  A builder may die anywhere and leave orphans and files behind.
  Correct: nothing computed is lost, nothing half-written is read, and starting
  again ends the phase.
- *Strays.*  Workers outlive a killed builder and meet the files of the next
  one.  Correct: what the verifier passes belongs together.
- *Timeouts.*  The spectrum may take any time.  Correct: the build ends, and
  what was given up leaves no trace.
- *Reordering.*  The layered engine makes the moves of a chunk out of order.
  Correct: nobody can tell from readings, ledger and counters.
- *Redelivery.*  A transaction may arrive twice.  Correct: it takes effect once.

## 2. Modules

Order of composition, bottom up:

    MismatchLedger       ledgers and their two descent orders
    RepairContract       registers, collars, the law of each transition kind
      AtomicRepair       abstract: run the recoveries and commit at one instant
      RepairTransaction  the engine
        RepairReceipt    receipts and the self-consistency diagnostic
          RepairReplay   engine, receipts issued, replay in a fresh engine
    KernelChunks         builder, worker processes, chunk directory
    ArchiveBuild         all commands on an archive directory, strays, verifier
    SeamLaw              the two seam laws in sequential and layered engines
    ConsensusRepair      value-checked transactions and the batch receipt

**MismatchLedger, RepairContract.**  The static part of `transaction.py`:
`MismatchLedger`, `RepairCollar`, `_union_collar` and the tests that
`_evaluate_component` makes of a state before and a state after.  Recovery
maps, inverse updates and the mismatch evaluator are the caller's code, hence
constant operators.  The only thing assumed of them is what the read-tracking
view guarantees: the result is a function of the values read.  A register value
is opaque; for records, `Appends` says which value extends which.

**RepairTransaction.**  `state`, `versions` and `archives` are `_state`,
`_versions` and `_archives`; `proposals` is what clients hold.  Hashes are the
values they digest, so hash collisions are excluded.  `Prepare`, `Commit`,
`CommitBatch` and `Rollback` are the public calls.  The engine has no lock and
no thread of its own: calls do not overlap, but clients interleave between
them.  A batch commits its components one after another inside one call, and an
evaluator that raises ends it in the middle, so `BatchStep` and `BatchRaise`
are steps of their own and no other call starts meanwhile.  Each named check of
`_evaluate_component` is an operator of the same name.  An evaluator that
raises within a single commit changes nothing and is a stuttering step.
`touched` and `batchStart` are history variables: no guard reads them.

**AtomicRepair.**  The promise to users: no snapshots, no versions, no batches.
`Transact` runs the recoveries of a set of drafts and installs the union at
once, under the law of its kind; `Undo` takes back a transition made before
whose result is the current state.

**RepairReceipt, RepairReplay.**  `CommitReceipt` and the receipt of a rollback
follow `RepairCommitReceipt`; `SelfConsistent` follows the diagnostic over the
serialized form, with the digests of its own fields left out.  The replay
instantiates the receipt module a second time with the state and versions of
the receipt as a fresh engine.  What it is given of a proposal is a
`ReplayInput`: the draft and the inverse updates, which travel in the envelope
and are not computed again; snapshot, observed reads and updates are.

**KernelChunks.**  The builder is a phase variable that follows
`_KernelChunkRunner.run`, `join`, `_assemble_from_chunks` and the deletion of
the directory, file by file.  A worker computes, stages and replaces.  `Crash`
kills the builder, not its workers.  The sample is numbered cells; what a chunk
file contains is the set of cells it covers.  The other work of `build_archive`
goes on in the main thread; all that the kernel phase sees of it is that the
main thread joins the runner, or raises, which for the daemon thread and its
workers is a `Crash`.

**ArchiveBuild.**  `disk` maps each file to what it was computed from: a level
of primitives, a seed, a sample, a run of the eigensolver.  `Build`,
`kernel_phase` and `refresh_archive` start a command, `pc` follows
`build_archive` write by write, `runner` is the thread (`Scan`, `Poll`),
`workers` are the float, spectrum and kernel processes.  A kernel worker reads
config and primitives one after the other (`LoadConfig`, `LoadPrimitives`) and
writes its chunk file; the others write arrays, then the JSON block.  `Killed`
and every exception end the builder and its daemon thread but not its children,
which go on as strays.  Two commands never overlap; strays overlap with all of
them.  `chunks` maps the number of a chunk file to the cells and the level in
it.  Each command cuts its sample by its own count (`width`, `Split`), starts
workers for the files that are not there, beside whatever is, and assembles the
union.  Cell 0 belongs to the sample of every level, since `vertex_cells` puts
the first pentagonal vertex there; other cells are taken to differ between
levels.  Staging files and crashes within the deletion of the directory are in
`KernelChunks`; there the other work of the main thread is a possible `Crash`,
because it is here.  `verify_*` follow the functions of the generated
`verify_archive.py`: what each one ties to what.  A file is written in one step:
a torn one fails its digest or its parser, and the next build writes it again.
`clean` is a history variable that no guard reads: what an undisturbed build
found among the chunks when it began (`Outlook`: only files it would write
itself, files that with its own make up its sample, or files that do not).

**SeamLaw.**  A schedule draws a sweep (`Draw`), makes its attempts one by one
(`Move`, the python and native engines) or layer by layer within chunks
(`Layer`, `CloseChunk`, the numpy engines), and stops when the minimum of `V`
or the threshold of `Phi` is reached or sweeps run out.  The draws of the random
generator are all draws.  `Ready` is `_dependency_layers`, `SeamSumChange`
`_seam_sum_change`, `Running` the prefix sum over a chunk.  Readings of the mean
law are integers in units of `2^-(MaxSweeps * Seams)` loads, so halving is exact
as in `run_mean_law_exact`; rounding of the float engines is not modelled.  The
history variable `origin` keeps what a sweep started from, so that `Sequential`
can repeat it one move at a time.

**ConsensusRepair.**  The functions are pure; the state they act on belongs to
a caller.  External and assumed: the caller adopts a committed state at once
and increments the version of every register that was written (`Adopt`).
Values and versions are compared by canonical hashes, here by equality; a
measure is an integer (comparing incomparable measures raises).  Each client
has one transaction, so a batch has unique ids.  While a batch runs,
nothing else does: it is one call in one thread.

## 3. Runs

| Run | Instance | What it shows |
|---|---|---|
| `repair_core` | 2 clients, 4 drafts, versions to 3 | freshness has no ABA gap; the engine implements `AtomicRepair`; commits are archived for good; batches are order-independent |
| `repair_receipts` | 2 clients, 4 drafts, versions to 2 | fresh means rerun; receipts verify, replay, and describe the store |
| `repair_wide_inverse` | violation | see finding 1 |
| `repair_protected` | violation | see finding 2 |
| `repair_rollback_receipt` | violation | see finding 3 |
| `kernel_chunks` | 3 cells, 3 pids, 1 crash, 1 failure, one split | coverage, no stray workers, no early deletion, resumable |
| `kernel_resume_split` | violation, 7 cells, same `--workers` twice | see finding 4 |
| `consensus_repair` | 3 clients, 6 drafts, 4 registers | no laundering, truthful receipt, single effect, descent |
| `archive_build` | 2 levels, 3 cells, 2 workers, 1 fault | an undisturbed build ends as it should, every command ends, a directory of one level recovers |
| `archive_stale_kernels` | violation, 2 levels, 2 cells, 1 kill | see finding 5 |
| `seam_law` | row of 4 ports and a pair, both laws, 2 sweeps, chunks of 3 | engines agree, ledger exact, descent, balanced end, never stuck |
| `seam_first_raise` | violation, rows of 4 and 3 ports, mean law | see finding 6 |

Why the bounds suffice for the interesting cases.

*Repair.*  The drafts repeat the cases of
`tests/test_proof_carrying_transaction.py`: two overlapping repairs, one that
reads what another writes, an undeclared read, a register the engine lacks, an
involution, a record that can be extended and overwritten.  In `repair_core`,
two clients give two components in a batch (the involution beside a repair of
`z`) or one component of two; the component whose turn comes second then meets a
state that is no longer that of the call.  In `repair_receipts` all drafts
conflict pairwise, so a batch is one component; what is asked there are the
receipts of unions.  A version bound of 2 allows change, return and the ABA
situation, and 3 that a commit is undone and repeated.  `MaxVersion` guards
`Install`; the code's versions are unbounded integers.  Clients are symmetric.

*Kernel.*  Three cells and a split into three chunks let an orphan of the first
builder finish at every point of the second one.  Crashes and failures are
bounded (`MaxCrash`, `MaxFail`), so that starting again does end.  Three pids
are two workers and an orphan, or one worker and two orphans; two workers beside
two orphans (a fourth pid) are beyond TLC here, and the safety properties are
proved for any set of pids.  The run may stop in `ok`, hence no deadlock
check.  The instance uses worker counts that give both commands one split; the
violated run uses the counts that the command line gives.

*Consensus.*  Six drafts: reading and blind writes of `a`, a repair of `b` that
brings the old value of `a` back, a draft that creates a register, and one that
moves the boundary.  Redelivery after the values came back, incompatible
writes, stale members, a refused aggregate and the escaping `KeyError` all
occur.  Nothing here needs an artificial bound: every change lowers a measure
that is bounded below.

*Archive.*  One fault (a kill of the builder at any step, a failing worker, a
law that raises) and any number of commands after it.  Two levels are what it
takes for files of two builds to be told apart; the first build may meet
nothing, everything or part of another one's.  A sample of a finer level names
carriers that coarser primitives lack, so such a kernel worker fails
(`CellMissing`).  With 3 cells and 2 workers a build cuts its sample in 2 and
`--kernels-only` in 3, so the files of the two commands mix, and with 2 levels
those of two samples.  A cell 0 that all samples share makes a foreign file fit
when it holds nothing else.  `Overlap = FALSE` bounds the state space: no command
of another level begins while a stray is alive.  The violated run lifts this and
has 2 cells; the theorems hold for both.

`CleanBuildEnds` is about builds that nothing disturbs: no stray was alive when
they began and no fault struck since.  Such a build is refused exactly when the
chunk files it found, completed by those it computes, are not its sample;
otherwise it passes; and if it found only files such as it would have written,
the kernels are those of its primitives.  `Recovers` has two premises besides
that somebody goes on building, and both are needed.  A directory that serves two
levels may hold a chunk of the other sample.  One that `--kernels-only` has been
used on may hold a chunk of the other split: after a killed build that command
takes the chunks of the build's split for its own and, unless they happen to fit,
raises, as does every later build.  Nothing in the code removes such files
(findings 4 and 5).  The directory may rest for ever, hence no deadlock check.

*Seam laws.*  In a row of four ports the outer seams share no port but each
reads a neighbour that the other one writes, which is what separates the
readiness test of the mean law from that of the integer law; the pair is a
second component, so that minima are summed.  Chunks of 3 cut a sweep of 4
attempts unevenly.  Loads from 3 down to 0 need several sweeps and give odd
totals.  The threshold of `Phi` is in squared units and lets some draws stop
after one sweep and others not.  A schedule ends, hence no deadlock check.

Fairness is used in `KernelChunks` and `ArchiveBuild`.  In the former,
`WF(BuilderStep)` and
`WF(WorkerStep(p))`: the builder's loop polls and sleeps, a worker's computation
is finite, and neither waits for the other except through the files and exit
codes modelled.  Nothing in the code enforces the finiteness: kernel workers,
unlike the spectrum worker, have no timeout, which `hazards` records.
`WF(Invoke)`: whoever wants the archive starts the phase again.  Crash and
failure have no fairness.  In `ArchiveBuild` the builder, its thread, float and
kernel workers go on; the spectrum worker gets no fairness at all, since
shift-invert may take any time, and the timeout of `wait` fires if nothing
else happens (`WF(SpectrumTimeout)`); the thread's loop is `WF(Scan \/ Poll)`.  Nobody is obliged to start a command:
`Recovers` has this as its premise.

Every property of a passing run is paired with a faulty variant of a definition
(marked `Faulty variant` in the modules, listed under `mutants`) under which TLC
finds it violated.

## 4. Findings

1. *An inverse may reach outside the read set* (`transaction.py:2498`).  The
   registers of `inverse_updates` need not be declared although the
   exact-inverse test depends on them.  `BatchDecisionsCommute` fails: the order
   of a batch decides.
2. *A record lifts a neighbour's protection* (`transaction.py:2659`).  The
   exemption of record registers is taken from the union collar.
   `EachBoundaryKept` fails for two record commits.
3. *Rollback receipts do not verify* (`transaction.py:1332`).  The diagnostic
   asks for footprints a rollback receipt never has.  `AppliedReceiptsVerify`
   fails with the first committed rollback: prepare, commit, roll back.
4. *The archive cannot be resumed with the command it was built with*
   (`federation_archive.py:1154`).  Build and resume derive different numbers of
   chunks from the same `--workers`.  `Resumable` fails.
5. *A chunk does not say which primitives it was computed from*
   (`federation_archive.py:1105`).  Cell 0 is in the sample of every level, so
   with one cell per chunk the file `chunk_00` fits every level.  A killed build,
   or its stray worker, leaves that file; a build at another level takes it for
   its own, computes the others, covers its sample, and the verifier passes,
   since it recomputes isolated kernels only.  `KernelsOfThePrimitives` fails.
   This takes at most as many cells as chunks, for example `--kernel-cells 5` with
   the default `--workers 6`.  With the default 64 cells in 10 chunks a file of
   another level does not cover its place in the sample: the build computes the
   other chunks and raises, and a further fault, before they are
   written, is needed for ten foreign files to come together.
6. *The numpy engine reports another first raising move*
   (`federation.py:766`).  It takes the least attempt of the first layer with a
   raising move, while an earlier attempt that waits in a later layer may raise
   `Phi` too.  `FirstRaiseAgrees` fails; the receipt's counterexample depends on
   the engine, although all other results agree (`EnginesAgree`).

## 5. Theorems

For every value of the constants that satisfies the `ASSUME`s (sets of
registers, clients, drafts, values, any recovery or measure, any number of
cells and workers):

**RepairTransactionProofs.**  `TypeCorrect`; `FreshnessIsHistorical`
(`FreshMeansUntouched`); `FreshnessIsRerun` (`FreshMeansRerun`);
`StateChangesAreArchived` (`CommitsAreArchived`).  None is inductive alone.
`HistoryInv` adds: a version never runs backwards, and one that equals its
snapshot vouches for the value and for the absence of any change in between
(`VersionsVouch`); each proposal was computed in one state of which it keeps the
snapshot (`ProposalsHaveASource`); since every archived commit some version has
grown, so that its id cannot recur (`ArchiveIsPast`).  `FreshMeansRerun` then
follows from `RecoverAssumption`: source and current state agree on all that the
recovery read.  The step from a component to the union is `Install`, and a
rollback is an `Install` as well.

`EngineImplementsAtomicRepair`, at the end of the module: under the refinement mapping `done` = the endpoints of the archive, every commit is a
`Transact` of the component's drafts, every rollback an `Undo`, everything else
a stutter.  The argument rests on `FreshMeansRerun`; since the snapshots are
current, the prepared updates may be replaced by the rerun.

`BatchesCommute` (`BatchDecisionsCommute`) closes the module, under the
hypothesis `InversesDeclared`: a reversible draft declares the registers that
its inverse writes.  The engine leaves this to the caller, and
`repair_wide_inverse` shows that it cannot be left out; tests and callers in the
repository satisfy it.  Components are the least conflict-closed sets, so two of
them are apart (`ComponentsApart`): neither writes what the other declares.  A
verdict depends on nothing but the declared registers (`VerdictIsLocal`), which
for the evaluator is `mismatch_read_trace_complete` with `EvaluatorAssumption`,
and for the exact inverse is the hypothesis.  `BatchInv` then says that the
components still waiting are apart from each other and that on what they declare,
state and versions are those of the moment the batch was called.

**RepairReplayProofs.**  `ReceiptsAreTrue` (`ReceiptsDescribeTheStore`),
`CommitReceiptsAreConsistent` (`CommitReceiptsVerify`) and
`CommittedReceiptsAreReplayable` (`CommittedReceiptsReplay`).  `ReplayIsEngine`
lets the invariants of the engine be used; `BatchIdsUnique` says that no waiting
component holds an id twice, so that footprints and snapshots can be found by
id.  For the replay, `AdmissibleMirrored` shows that preparing the inputs again
in the state of the commit gives the proposals that were prepared some time
before (from `HistoryInv`: the snapshots vouch for the time between).  The
`Mirror` lemmas carry this through every check, and `MirrorReceipt` through
every field of the receipt; that the inputs form one conflict component again
needs that a component of a component is itself (`MirrorComponent`).

**KernelChunksProofs.**  `PoolIsBounded` (`TypeOK`, with the bound on workers),
`WorkersEndWithTheirBuilder` (`NoStrayWorkers`), `AssemblyNeverFallsShort`
(`AssemblyCovers`) and `ReadoutBeforeLoss` (`ChunksOutliveReadout`).  The
runner's bookkeeping (no chunk is both pending and running, a running chunk's
process works on that chunk, nothing runs outside the run phase) makes the first two inductive.  Coverage needs `SameSplit`, that both
commands cut the sample into the same number of chunks, as a hypothesis; with
it, all files and processes belong to one partition (`OnePartition`) and each
chunk is pending, in the hands of a worker, or on disk, where a worker that
ended well has left it (`NoChunkForgotten`).
Finding 4 is the failure of this hypothesis.

**ArchiveBuildProofs.**  `TypeCorrect` (`TypeOK`) and `UndisturbedBuildEnds`
(`CleanBuildEnds`), for any levels, cells, workers and number of faults, with and
without `Overlap`.  The types need to know who is running: workers of a command
have the roles and chunk numbers that command gives out, children and runner
exist only at the places of `pc` that start them (`ProcessInv`).  `OwnBuild` is
the strengthening for a build that nothing has disturbed.  Its first half says
that every file the builder has passed, and every file a worker of its own has
reported, was computed from the primitives that this build wrote.  Its second
half is about chunks.  What the chunk files will hold when all are there is
settled when the build begins: `Covered` does not change when a worker of the
build adds the part that `Covered` already counted (`OwnChunks`); and each chunk
is there, pending or in the hands of a worker (`OwnRunner`).  So at `join` the
files cover what `Outlook` foretold (`AllThere`), and `Assemble` compares exactly
that with the sample.  `PartsCover` and `PartsDisjoint` say that the parts of a
split make up the sample and do not meet; `EndOfBuild` puts the verdict together.
`BuildInv` is the conjunction.

**ConsensusRepairProofs.**  `ConsensusTypes`, `NoLaundering`
(`FreshnessIgnoresOrder`), `ReceiptIsTruthful` (`ReceiptMeansApplied`),
`StateOnlyDescends` (`DescentWithinBoundary`) and `CommittedOnce`
(`RedeliveryIsRefused`).  Components are the least conflict-closed sets, and
two of them are apart: what of one lies outside the other would itself be
closed.  `BatchInv` keeps this for the components served and to be served; the
copy then equals the original state plus the committed payloads, registers that
a waiting member reads are untouched, and the measure of the copy lies below
that of the original.  `VersionsMovedOn` says that a delivered transaction has
left a version behind in each register it reads and writes.

**SeamLawProofs.**  The module begins with sums: `SumOver` is a fold of the
community modules, a `CHOOSE` of a recursive function, so that nothing can be
said of it until the recursion is shown to have a solution (`FoldExists`).  That
and every induction after it is by the smallest counterexample
(`LeastNat`); from it follow what an element contributes (`SumTakesAny`) and that
sums split (`SumSplits`).  `ReadingsStayInRange` (`TypeOK`): a move lands
between the two readings it starts from, so readings never leave the range of
the loads, for any federation, law, chunk size and draws; ledger and counters
are integers.  `LayersNeverOvertake`
(`NoOvertaking`): reading a port that another attempt writes is mutual for both
laws (`ReadsAreMutual`), hence an attempt that is made early shares nothing with
those it passes; that two attempts of one layer are independent
(`LayerIsIndependent`) is what carries the induction.  `LayerIsSequential`: any
attempt of an independent set may be made first and the others from what it
leaves, with the readings of the whole layer as the result; this is the single
step of the equivalence of the engines.
`RaisesAreExact` (`PhiChangeExact`): the closed form of `_seam_sum_change` is the
change of `Phi`, under the hypothesis `NoParallelSeams`.  The code meets it: the
seams inside a carrier are the edges of its graph, an inter-carrier seam joins
two carriers, and `build_federation` refuses a port that is glued twice
(`federation.py:354`); with parallel seams the closed form, which counts
neighbours, would differ from `Phi`, which counts seams.  The sum over the seams
at a port is turned into one over its neighbours (`SumReindexed`).  The closed
form halves a difference, so the readings of the mean law must be even: that is
`HalvingInv`, by which they are multiples of two to the number of attempts that
the run may still make.

**SeamEngineProofs.**  `LedgerIsExact` (`LedgerExact`): inside a sweep, `V` of
the readings is the ledger plus the changes noted for the open chunk
(`LedgerInv`); that a layer books what it changes is `LayerIsSequential` applied
attempt by attempt.  `LayersAgree` (`EnginesAgree`): the sequential run from the
history variable is a recursive function, which `RunSteps` shows to exist.
`SweepInv` then says where a layered engine stands in it: a port that no waiting
attempt up to `n` writes reads what the run has after `n`; the change noted for
an attempt that was made is the one the run makes there; the counters are those
of the attempts made; at a chunk's end, ledger and first hit are those of the run
(`LedgerFollows`).  Since no attempt overtakes one it depends on, each is made
from the readings the run makes it from (`LayerReads`).

**SeamBalanceProofs.**  Three theorems about the integer law, for any federation
and schedule.  They rest on the search behind `component`: rounds of adding
neighbours must stop changing by the last one, since each that changes anything
adds a port (`ComponentIsClosed`); so the result is the least closed set, and
components partition the ports (`SameComponent`).
`IntegerLawDescends` (`DescendsOrPermutes`): a move whose ports differ by at
least two lowers `V`; a layer without such a move exchanges readings along a
bijection of the ports that stays inside each component (`ReadingsPermuted`).
`BalancedAtTheEnd` (`TerminalIsBalanced`): on a component with total
`m * q + r`, the squares exceed `LeastOn` by the sum of `(y - q)(y - q - 1)`, no
term of which is negative, so `V = v_min` exactly when every reading is `q` or
`q + 1` (`MinimumIsLevel`).  `BalanceInv` says that totals are those of the
loads, that the open chunk's changes only lower `V`, and that a minimum once
booked is still there: after it only exchanges are possible.
`AlwaysAWayDown` (`NeverStuck`): the orbit of all readings that neutral moves
lead to has a solution of its recursion too (`OrbitExists`).  Outside the
balanced class two ports of a component differ by two or more
(`UnlevelIsApart`); one neutral move for each round of the component's search
brings such readings together, or meets a descent before (`ApartMeets`).

Only model-checked: liveness (`Resumable`, `CommandEnds`, `Recovers`), which
needs fairness and `ENABLED`.  Every invariant and every action property of the
passing runs is proved.

## 6. Not modelled

- JSON shapes, digests and the small expression language of the replay
  envelopes; what they encode is modelled, how it is written is not.
- Of `federation_archive.py`: the numbers inside the blocks, the numeric tests
  of the verifier within a block, the tables of the report, torn files.
- Of `oph_exact`: the construction of carriers and gluings, the response
  kernels, the spectra, the float rounding of the mean law, and the loader of
  the compiled kernel (its hazard is listed; an incomplete library only makes
  the engines fall back).
- Of `consensus/transactional_repair.py`: the two-order diamond, the exhaustive
  transition graph, selected-fiber, union and gauge reports.
- Thread maps, geometry cache, process pools, patch network and authority
  repair: discrete, but either without concurrency or around one numeric call;
  see the plan.
- The numeric components of the inventory, by far the most of the repository:
  their state is arrays of floats and their correctness statistical.

## 7. Plan

1. `TransitionGraph`: `exhaustive_transition_graph_report` with its search and
   strongly connected components, checked against reference definitions
   (reachability, termination, unique normal form), and the diamond report
   against the commuting squares it stands for.
2. `OrderedMap`: the sliding windows of futures, their bound, order and
   liveness, with failing items.
3. `GeometryCache` and the loader of the native kernel: processes that share a
   directory, replacement, swallowed failures and corrupt entries.
4. `PatchNet`: records, repair moves and the E0 verifier over a small group;
   then authority repair.
