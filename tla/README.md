# Verification of Solfec

Solfec simulates multi-body frictional contact.  The MPI build spreads the
bodies and the constraints (contacts, fixed points, rigid links, ...) over the
ranks, moves them in every time step and solves for the reactions in parallel.
This project models the parts where most of that distribution is decided, and what
becomes of the results:

* the **parallel block Gauss-Seidel solver** (`src/bgs.c` over `src/com.c`),
* the **domain** (`src/dom.c`), which owns bodies and constraints and moves them,
* **a run and its results** (`src/sol.c`, `src/dio.c`, `src/pbf.c`): when states are written,
  by which rank to which file, and what a reader that goes back and forth makes of them, and
* **time series** (`src/tms.c`), which prescribe loads and motions.

Everything here is TLA+: modules, TLC configurations and TLAPS proofs.

| module | what it is |
| --- | --- |
| `Coloring` | `processor_coloring`: the greedy colouring of the rank graph |
| `ColoringProofs` | its theorems |
| `GaussSeidel` | `GAUSS_SEIDEL_Solve` of the MPI build with its messages |
| `SequentialSweep` | what it promises: a sequential Gauss-Seidel method |
| `MCGaussSeidel` | instances of `GaussSeidel` for TLC |
| `GaussSeidelPatternProofs` | type correctness, which phases are possible, the messages in flight, and what follows from them |
| `GaussSeidelSweepProofs` | what rows read is current, and the solver implements `SequentialSweep` |
| `Domain` | bodies, constraints and external copies through the time step |
| `SerialDomain` | what it promises: one set of constraints, without ranks |
| `DomainProofs` | type correctness, and that ids are never shared |
| `DomainCopiesProofs` | the ranks agree on bodies, constraints and copies, and implement `SerialDomain` |
| `Frames` | the files of `pbf.c`: frames, labels, the index, and how they are found again |
| `Output` | `SOLFEC_Run` on all ranks, bodies that come and go, `write_state`, the end of the process |
| `Results` | a run followed by the process that reads its files; composes `Output` and `Frames` |
| `MCResults` | the instance of `Results` for TLC |
| `ResultsProofs` | what was not finished is refused; the frames of all ranks have the same times and every `RUN` leaves one of its last state; ids agree |
| `ReaderProofs` | what a reader accepts, finds and shows: no read fails where the data are on disk, its domain and list are those of the frame; histories, queries; type correctness |
| `TimeSeries` | `TMS_Value` and its cached marker |
| `TimeSeriesProofs` | the segment found is the right one, for any series and calls |

`PROJECT.json` lists the components, runs, theorems and hazards, and maps every
definition to the source lines that it stands for.

## 1. Inventory of the system

**Run control** (`solfec.c`, `sol.c`).  State: domain, solver, output and callback
intervals, mode (read or write).  `SOLFEC_Run` repeats: `DOM_Update_Begin`, the
constraint solver, `DOM_Update_End`, output, callback, until the duration is
over or a STOP file appears.  In READ mode `SOLFEC_Seek_To`, `SOLFEC_Forward`, `SOLFEC_Backward`,
`SOLFEC_Time_Skip` and `SOLFEC_History` move over the frames.  Hard: intervals that the script sets
differently on the ranks, several `RUN`s, the last state, signals.  Correct when all ranks
record the same states, each once, and when a query leaves the reader where it was.

**Domain** (`dom.c`).  State per rank: all bodies (`allbodies`), the parents
(`bod`) and children of them, regular constraints (`con`), external copies
(`conext`), ids to use again (`sparecid`, `sparebid`), what is pending
(`pendingcons`, `pendingbods`), and per body the set of constraints on it
(`bod->con`).  A time step is a sequence of collective exchanges: update of
children, update of constraint points, balancing (bodies, constraints,
removals), gluing of old constraints, detection, gluing of new ones,
sparsification, update of reactions, management of bodies.  Hard: ids
freed and reused on different ranks, copies that must follow an owner that moves
while the bodies that call for them move as well, calls from the input script
between two steps.  Correct when ids are unique, lookups find something, copies
are those of existing constraints and each rank knows all constraints on the
bodies it holds.

**Overlap detection** (`box.c` with `hsh.c`, `swp.c`, `hyb.c`, `xyt.c`, `dyr.c`).
State: the boxes of parents and children, excluded pairs.  Reports a pair of
overlapping boxes to the domain.  Correct when, of all ranks that find it, one
reports it.

**Local dynamics** (`ldy.c`).  State: the graph of blocks W, `adj` to regular and
`adjext` to external constraints.  Correct when the graph couples just the
constraints that share a body, symmetrically across ranks.

**Parallel Gauss-Seidel solver** (`bgs.c`).  State per rank: block sets (top,
middle, bottom, internal), copies of reactions, `CON_DONE` flags, open requests;
globally an iteration count and an error code.  Ranks compute at their own pace and
exchange reactions with persistent patterns and, in the FULL variant, with one
message per middle block.  Hard: waits in an order that follows from colours, MPI
writing into copies while rows are solved, two patterns with one tag, ready-mode
sends.  Correct when it does what a sequential method does, and ends.

**Processor colouring** (`bgs.c`).  A loop that every rank runs over gathered data.
Correct when adjacent ranks differ in colour.

**Communication** (`com.c`, `put.c`).  Patterns with posted receives, collectives
with packing callbacks (`COMOBJS`, `COMOBJSALL`).

**Other solvers** (`nts.c`, `pes.c`, `tts.c`, `sis.c`, `dbs.c`, `mrf.c`, `scf.c`).
Floating-point iterations; single-row solvers are called by `bgs.c`.

**Bodies and time integration** (`bod.c`, `fem.c`, `mat.c`, `svk.c`), **geometry**
(`goc.c`, `shp.c`, `msh.c`, `cvx.c`, `sph.c`, `gjk.c`, `hul.c`, `tri.c`, ...), **linear algebra**
(`mtx.c`, `alg.c`): numerical, without shared state.

**Cracking and fracture** (`cra.c`, `fra.c`, `psc.c`).  Splits bodies; the parts become
pending bodies of the domain, constraints are transferred to them.

**Output and input** (`dio.c`, `pbf.c`, `cmp.c`).  State: frames in files, an index by
time and label, the list of bodies as of the current frame.  Hard: seeking back
and forth while bodies appear and disappear, files of several ranks, files of a process
that died.  Correct when a reader sees just what was written, or refuses the files.

**Containers** (`mem.c`, `set.c`, `map.c`, `skp.c`, `lis.h`, `kdt.c`), **time series**
(`tms.c`), **material pairs** (`sps.c`, `fld.c`).

**Python interface** (`lng.c`): argument checks; creates bodies and constraints, and
changes the domain from callbacks (`DELETE`, `FIX_POINT`, `PUT_RIGID_LINK`).
**Viewer** (`rnd.c`, `glv.c`, `bmp.c`).

The hazards of `PROJECT.json` are the places in this code where a test would
hardly notice that something is wrong; each names the properties that watch it.

## 2. The parallel Gauss-Seidel solver

### Model and code

A reaction is a version: the number of times its row was solved.  `R[b]` is the
version at the owner, `img[r][b]` the one in the external copy at rank `r`, and
`seen[b][a]` remembers which version of `a` the last solve of `b` read.  Velocities,
merit and error values are left out; the test that ends the loop is a
nondeterministic value `met`, equal on all ranks because the code reduces it.

`pc[r]` is the part of an iteration a rank is in, and `After` gives the next one:
top sweep, send, internal blocks, receive, middle part, bottom sweep, send,
internal blocks, receive, Allreduce; a backward iteration (`gs->reverse`) swaps top
and bottom.  `SweepBlock` is one row solve, `Send`/`Recv` are `COM_Send`/`COM_Recv`,
`PostRepeat`, `Barrier`, `ReadySend`, `RecvRepeat` are the four parts of
`COM_Repeat` (MIDDLE_JACOBI), `PostMiddle`, `MiddleBlock`, `MiddleEnd`, `WaitSends`,
`Drain` are `gauss_seidel_loop` (FULL), `Deliver` is MPI writing a message into
`con->R`, `UpdateExternal` is `DOM_Update_External_Reactions`
(BOUNDARY_JACOBI), `Reduce` the end of an iteration with its error codes.

Messages of one tag between two ranks keep their order.  `Eager` chooses between
a send that completes when it is received and one that completes at once.

`SequentialSweep` solves one row at a time, reading current reactions (or, where a
Jacobi variant says so, those of the previous iteration) and ends a sweep when
every row was solved its due number of times.  `SequentialSpec` says that
`GaussSeidel` implements it under the mapping `sweep <- iters`.

### Checks

| run | instance | what it shows |
| --- | --- | --- |
| `coloring` | all graphs of 4 ranks | colours are proper, none wasted, the loop ends |
| `gs_four` | 4 ranks, all adjacent, 6 blocks; 3 iterations (forward, backward, forward); sends complete on receipt | the middle blocks of ranks 2 and 3 wait for each other's; no deadlock, all ranks return (`Termination`); every read is the one a sequential sweep makes |
| `gs_three` | 3 ranks, inner blocks, 2 inner loops, 2 iterations; sends complete at once | quotas of inner loops (the refinement); all ranks return when sends need no receiver |
| `gs_failure` | 3 ranks; row solves may fail | **violated**: a failed diagonal solver is not reported |

Four colours are the least for which two ranks have middle blocks that wait for
each other; two blocks in one message, and a rank with a middle and a bottom
block coupled to the same rank, are what the shared tag of `mid_pattern` and
`bot_pattern` needs to go wrong.  Three iterations cover each change between forward
and backward.

Fairness (`FairSpec` in `gs_four` and `gs_three`, needed by `Termination` only): every MPI process keeps running,
MPI progresses transfers, and a collective that all ranks entered completes.  All are
weak fairness conditions on steps that stay enabled; there is no assumption on
the order of ranks.  `Coloring` is a sequential loop, it has weak fairness of its next step.

### Proofs

`ColoringProofs`: for any number of ranks and any symmetric graph, the
colouring is proper and greedy.  The invariant adds to the two properties that ranks after
`i` are uncoloured and that every trial colour passed over for rank `i` is used
next door by an earlier rank.  `ColoringTypes` are the types; `ColorsServeSolver` says that the colours
the loop ends with are what `GaussSeidel` assumes of `Color`, for any blocks
coupled only between ranks that the rank graph joins.

`GaussSeidelPatternProofs`: for any ranks, blocks,
coupling, colouring, variants, number of inner loops and iterations,

* `TypeCorrect`: the types, with the bounds of `iters` and `loops`;
* `OwnPatternReceived`: a receive completes with a message of its own pattern
  although two patterns share a tag;
* `ReadySendsMatched`: at an `MPI_Rsend` the receive is posted and no older message
  of the tag is left;
* `WaitsArePosted`: `gauss_seidel_loop` never waits on a request that was not posted;
* `AllDoneHolds`: the assertion `all_done` of the code.

Assumed of the constants: every block has an owner, coupling is symmetric
(`RowsComplete` of `Domain` is this fact), coupled blocks of different ranks have ranks of different colours
(`ColoringIsProper`).  None of the properties is inductive: a rank cannot know what is in a channel
unless the invariant says how far sender and receiver are.
`PatternInv` therefore numbers the parts of an iteration (`PartNo`), defines when a
rank has sent and received over a pattern, and states that a channel holds just
the messages sent and not yet received, in the order of the parts (`TopChannels`, `BottomChannels`),
that nothing is received before it is sent (`Causal`), that what was received is
flagged (`DoneReceived`, `DoneMiddle`), and that nobody passes the barrier of
`COM_Repeat` before all have posted (`RepeatPosted`).

`GaussSeidelSweepProofs`, for the same constants:

* `ExternalsCurrentHolds`: when all ranks meet in the `Allreduce`, copies equal what their owners hold;
* `NoReadWhileWrittenHolds`: no row is solved while MPI may be writing a copy that it reads;
* `DoneIsUpdatedHolds`: a flag `CON_DONE` is never left from an earlier iteration;
* `SolverRefinesSequential`: `Spec => SequentialSpec`.

These relate what a rank reads to what another rank has computed, and no finite piece of the state tells
that by itself.  `SweepInv` adds to `PatternInv` how often every row has been solved, as a function of where
its rank is (`SolveCounts`, with `Solved`), that messages carry final reactions only (`MessagesFinal`, `MiddleMessages`), that a
copy is that of the last iteration until it is renewed and final afterwards (`CopiesHold`, with `Updated`),
that a flag means renewed (`DoneUpdated`), and that a row is not begun before the copies it must wait for are
renewed (`BegunInOrder`).  The last one is the heart: coupled rows of two ranks are solved in the order of the colours
(`Before`), which is where the colouring is used; in the middle loop it follows from `Awaited`, elsewhere from the phase
in which a rank receives.  `EndTogether` says that the `Allreduce` ends an iteration on all ranks or none.
The refinement maps a step of a rank to `SolveRow`, the reduction to `EndSweep`, and everything else to a
stutter; `EndSweep` needs that all counts are complete, `SolveRow` that what was read is the latest.

`SweepInv` was model-checked on the instances of `gs_four` and `gs_three` before it was proved.
Model-checked only: absence of deadlock and `Termination`, as liveness and ENABLED are out of the prover's reach.

## 3. The domain

### Model and code

`Domain` follows one time step through the exchanges of `DOM_Update_Begin` and
`DOM_Update_End`; `phase` names the part in between:

| phase | step | code |
| --- | --- | --- |
| callback | `FixPoint`, `PutRigidLink`, `DeleteBody`, `DeleteConstraint` | script calls, `lng.c` |
| callback -> balance | `UpdateConstraints` | contacts vanish; `update_external_constraint_points` |
| balance | `InsertPending` | `insert_pending_constraints` |
| balance -> glue | `DomainBalancing` | partitioning; parents, children, constraints and removals migrate |
| glue -> detect | `OldBoundary` | copies sent, updated and removed as bodies call for them |
| detect | `OverlapCreate` | `AABB_Update`, `overlap_create` |
| detect -> sparsify | `GluingBegin` | copies of new contacts |
| sparsify -> solve | `Sparsify` | `sparsify_contacts`, `domain_gluing_end` |
| solve -> callback | `UpdateEnd` | reactions to copies, bodies removed everywhere, constraints break |

Ranks only touch their own data between two exchanges, and an exchange involves
all of them, so that an exchange with the packing before it and the unpacking
after it is one step; insertions of constraints, which need an id, are steps of
their own in any order.

`con[r]`, `conext[r]`, `bodcon[r][b]`, `cid[r]`, `sparecid[r]` are the fields of `DOM`
and `BODY` of the same name.  The sets `bod->con` compare elements with
`constraint_compare`, by bodies for contacts and by id for others; an equal element is not
inserted again (`With`), and a removal takes out whatever is equal (`Without`).
`missed` collects lookups by id that find nothing; the program ends there.

Geometry is replaced by what the partitioning may answer: `Placement` gives a body
the rank of its middle, the ranks its extents overlap (`box`), and those its
contact boxes overlap (`shape`); a constraint gets any rank, except that a point
inside the extents of a body lies on one of the ranks of its `box`.
Whether a point is inside the extents is taken from the code
(`PointsInExtents`).  Assumed of Zoltan: a point inside a box is assigned to one of the
ranks that the box is assigned to.  One box per body and one contact per pair; obstacles,
self-contact and excluded pairs are left out.  Fixed directions, set
velocities and springs behave as fixed points or links here.  Dummy bodies keep stale fields
in the code, which nothing reads; the model clears them.

`SerialDomain` is the promise: a set of constraints that grows by `Create` (fresh id,
no second contact of a pair, no removed body), and shrinks when contacts vanish, bodies are
removed with all that is attached, or constraints break.  `SerialSpec` says that the union of the ranks'
lists behaves like that; in particular migration changes nothing.

### Checks

| run | instance | what it shows |
| --- | --- | --- |
| `dom_two` | 2 ranks, 2 bodies, at most 2 constraints at a time and ids up to 3; bodies fall out, constraints break | all nine invariants and the refinement |
| `dom_three` | 3 ranks, 2 bodies, 1 constraint at a time; links also put during the run | `OldConstraintsListed`, `CopiesMatch`: a constraint moves between two ranks while a third has, gains or loses a copy |
| `dom_one` | 1 rank, 3 bodies, all script calls at any time | the refinement: `DELETE` and late insertions are safe without distribution |
| `dom_strength` | 2 ranks, 1 body | **violated**: a fixed point loses its strength when it migrates |
| `dom_delete_body` | 2 ranks, 1 body | **violated**: after `DELETE` of a body the owner of a constraint on it addresses a copy that is gone |

Bounds are constants: `MaxCon` constraints at a time and ids up to `MaxCid`, both kept by
`Room`, and `Loose`, which lets extents reach ranks that the boxes do not.  Two constraints on two ranks are
what `RowsComplete`, `OneContactPerPair` and `IdsUnique` need to fail, and three
ids let an id be freed and used again on another rank while one more is in use.  A copy on a
rank that is neither the old nor the new owner needs three ranks.  The state space is
finite without a bound on time steps.

`LateCalls` are the script calls allowed after the first step.  `dom_two` has none: a constraint that breaks frees its
id while its copies live on to the next balancing, so that a constraint inserted by a callback may get the id of
a copy that is still there; `DELETE` of a body fails as `dom_delete_body` shows, and `DELETE` of a constraint leaves its copies
behind.  `dom_three` allows links during the run but no breaking.  These are the
conditions under which the domain is consistent on several ranks.
Deadlock is checked in the three passing runs.

### Proofs

`DomainProofs`: for any number of ranks, bodies and ids, any partitioning and all script
calls at any time (`DELETE` and late insertions included),

* `DomainTypeCorrect`: the types; a rank is never among the ranks that get copies of its own constraints;
* `IdsNeverShared`: `IdsUnique`, no id belongs to two constraints at a time, and none that
  is about to be dealt out is in use.

`TypeOK` is inductive with one addition (`OtherHolders`): the ranks a rank stores as further holders of a
body do not include itself, which balancing establishes and `Needed` relies on.
`IdsUnique` is not inductive: that an id is not the next one of a rank does not tell that it will not be
once the rank has dealt out more.  `IdInv` therefore speaks of all the ids a rank may still deal out
(`Fresh`, `cid[r] + k * ncpu`): they are in use nowhere and spare nowhere, and since `cid[r]` is `r + 1` modulo `ncpu`
(`Dealt`) no two ranks share one.  Each step then either takes an id that is fresh or spare (`InsertIds`) or
keeps the ids of constraints it relabels, moves and removes (`RearrangedIds`).
The only assumption on the constants is `DomainAssumption`.

`DomainCopiesProofs`: for any number of ranks, bodies and ids, any partitioning, `Loose` or not,
under the assumption `SafeCalls` on the script,

* `BodiesAgreeHolds`: parent and children of a body know of each other;
* `LookupsSucceedHolds`: no message names what its receiver does not have;
* `NoDummyHolds`: constraints only go to ranks that hold their bodies;
* `OneContactPerPairHolds`, `OldConstraintsListedHolds`: a contact is found once;
* `CopiesMatchHolds`, `RowsCompleteHolds`: what the solver starts from: copies match owners, and coupling is complete and symmetric;
* `DomainRefinesSerial`: `Spec => SerialSpec`.

`SafeCalls`: the script makes no calls after the first step, or it inserts constraints but none
break and none are deleted.  Neither can be dropped on several ranks: after `DELETE` of a body a lookup fails (`dom_delete_body`), and when
a constraint breaks, its id is spare at once while its copies live until the next balancing, so that a point
fixed by a callback in between takes the id of a copy that is still there.  `dom_two` satisfies the first
alternative, `dom_three` the second.  `dom_one` does not satisfy it; with one rank nothing is copied, and its refinement is
model-checked only.

None of these properties is inductive; they need each other.  `DomainInv` has these parts:

* bodies (`BodyInv`): a body is stored on all ranks or on none, and those that hold it agree on the parent and the
  children; whatever a constraint is attached to, or will be once it is inserted, is stored;
* where constraints may be (`ReachInv`): a new constraint is a contact without copies, found by the one rank that
  `Filters` selects (`NewInv`); `c.ext` is what the bodies call for from detection to the end of the step (`ExtInv`); at other times
  the parent of each body still has the constraint or a copy (`ParentKnows`), unless it is a link or point just inserted, which is
  why `PointsInExtents` may tell the partitioning to stay within the extents;
* copies (`CopyInv`): each entry of `c.ext` has its copy (`Copied`); each copy has its owner or its removal is on the
  way (`Owned`, `Stale`, `RemovalsKnown`); copies to be removed are equal to no constraint in the sense of
  `constraint_compare` (`StaleApart`), and no two copies are (`CopiesApart`), or `With` would drop one of them; ids other than of
  contacts are not dealt out again while copies are left (`BrokenOnly`, the place where `SafeCalls` is used);
* the sets of bodies are what the lists of constraints and copies make of them (`Listed`).

While constraints migrate (phase `glue`) copies that stay name their old owner, hence the exception there.
`StrengthKept` is false (`dom_strength`), therefore invariant and refinement speak of constraints without strength (`Core`).
`DomainInv` was model-checked on three instances, among them those of `dom_two` and `dom_three`, before it was proved.
There is one lemma per action, named after it.  Model-checked only: absence of deadlock.

## 4. A run and its results

### Model and code

**Writing** (`Output`).  The ranks take the steps of `SOLFEC_Run` together, because each time
step, each callback (`PUT_int_min` of its result) and `stopfile` end in a collective call; what a rank does between two of these depends on
its own variables, so all of them are kept per rank: `sol[r]` and `dom[r]`
are members of `SOLFEC` and `DOM` under their names, `file[r]` the files of `pbf.c` and `bodfile[r]` the
`.bod` file of `write_new_bodies`.  Time counts time steps.

| action | code |
| --- | --- |
| `SOLFEC_Output`, `SOLFEC_Set_Callback` | script calls, with other intervals on other ranks, a callback perhaps not on all |
| `Run` | `SOLFEC_Run` up to its loop: values made uniform, the initial frame at time 0 |
| `Step` | `DOM_Update_Begin`, `DOM_Update_End`: a parent migrates, bodies leave the scene or crack, `manage_bodies` |
| `Output` | "write output if needed" |
| `Callback` | "execute callback if needed": `DELETE`, a new body, an interrupted run, a STOP file |
| `RecordLast` | "record last state if out of sync" |
| `SOLFEC_Destroy` | the state if it was never written |
| `Close` | one step of `PBF_Close` on one rank: `finalize_frames` (the last frame and the closing marker), then the index, the labels and the data are flushed, in this order |
| `SOLFEC_Abort` | a signal or an error: a frame on the ranks that get to it, while the processes of the others die; then `Close` on the former |
| `Crash` | all processes die, at any moment, also between two steps of `Close`: each stream that was not flushed lacks what was in its buffer |

A body is a pair that says where it comes from (input file, fragment of a body, callback
at a time), so that two ranks that give one id to different bodies differ in `all`.  A callback that is due on some ranks only
would leave the ranks waiting in different collectives for ever: `Callback` is disabled then, and `RanksInStep` says that it never is;
`Uniform` is what makes the ranks agree.

**Files** (`Frames`).  A file is a sequence of values, an index with a marker for each frame
(time, offset, labels, how its label list ends) and the label names.  A frame stays in memory until the next
`PBF_Time` or `PBF_Close`.  `dat`, `idx` and `lab` are what the process has written to three streams with buffers of their own
(`pbf.c:901` writes to a buffered stream as well); `stage` says how far `PBF_Close` has come, and `Torn` is what a dying process leaves:
a stream that is flushed is whole (`OnDisk`), another one lacks some of its last items, for each stream by itself.  The search of `PBF_Seek` and `PBF_Span` is the bisection of the code,
with the frame it stops at when there is none of the time asked for.

**Reading** (`Results`).  After the run a serial process opens all files (`Open`: the assertions of
`initialise_reading` on the index, then the first frame is read, `Readable`), and seeks, steps, skips and takes histories in any order.  Its list of bodies is kept as
in the code, by `bod`, `next` and `prev`, since `dom_read_state` unlinks by hand; a walk over a list that has
become a ring hangs the process (`hung`), a failed assertion stops it (`failed`), as does a frame whose data are not on disk (`MoveFiles`).

### Checks

| run | instance | what it shows |
| --- | --- | --- |
| `output` | 2 ranks, 2 bodies and 2 more ids, 2 time steps, intervals 1 and 2; the run ends by itself, or its processes die at any moment, before, during and after `SOLFEC_Abort` and `PBF_Close` | all invariants below but `ListIsFrame` |
| `output_list` | 1 rank, 2 bodies, 1 time step | **violated**: a reader that goes back and forth over the frame in which a body disappears is left with the wrong list |

* `IdsAgree`: new bodies get the same id on all ranks, and no body has two parents, while fragments of several ranks,
  bodies of callbacks and deletions on one rank are mixed.
* `RanksInStep`: the files of all ranks whose processes live have frames of the same times, and a callback is due on all ranks or on none.
* `RecordedOnce`: every `RUN` leaves a frame of the state it has reached, no state is recorded twice (an aborted run may do so).
* `OnlyClosedOpens`: output is accepted only if `PBF_Close` got as far as its index on every rank.  The index is then complete, on all
  ranks, and so are the data unless a process died.  Not more: `xdr_destroy (&bf->x_idx)` (`pbf.c:1112`) puts the closing marker on disk before
  the last data leave the buffer of `dat` (1115-1117), and a process that dies in between leaves files that are accepted and lack
  their last frames.
* `ReadsSucceed`: every body of a frame is known to the reader, also one whose data are in the `.bod` file of
  the rank it was born on and whose frame is in the file of another; reading fails only at a frame whose data a crash has taken.
* `ShownIsFrame`: the reader has the ids, bodies, states and time of the frame, whatever way led to it, up to the first body that is unlinked
  through a stale link (`StaleLinks`).
* `HistoryFits`: the arrays of a history have room for its points, and all returned points were filled, unless it meets a frame whose
  data are lost.
* `QueriesKeepPlace`: a history leaves the files at the time they were at.  It goes back by time (`sol.c:1119`), so that this is the same frame
  after a normal end of the run (`pc = "closed"`), whereas `SOLFEC_Abort` may record the last time twice: with frames of times
  0, 1, 1 a reader at frame 2 is left at frame 1.  `SOLFEC_Time_Skip` leaves the files at the same frame, however the run ended
  (but not at the last frame, where the code goes one frame back without having gone forward).
* `ListIsFrame`: the list of bodies is that of the frame.  This is violated (`output_list`); what remains true is proved
  (`ListHolds`): it holds until a body is unlinked from a place where the list does not have it.  In `output` a reader stops there (`StaleLinks = FALSE`).

Two ranks are what ids and files need to disagree; fragments on both ranks in one step need the two bodies; two more ids are a
fragment and a callback's body, or two fragments; the body that migrates (`Movers = {3}`) is one that was created in the run, so that its
frame and its `.bod` data may be in files of different ranks.  Two time steps give three frames, or four in the file of an aborted run: enough to
jump over a frame, to go back, and to find no frame of a time.  `Parts = {1}` has a split body leave one part, which is a removal and
an insertion in one step; more parts only take more ids.  `MaxLost` bounds the bodies that may disappear.  Deadlock is checked; a process that has
stopped stays so (`Stopped`).

The fault model: a process dies between any two steps, also of `PBF_Close`, and what is in the buffers of its streams is lost in part or as a
whole; some ranks may get to `SOLFEC_Abort` before, as an error caught on one rank makes only that rank
write and close.  What a stream has given to the operating system stays; a power loss is not modelled.  `.bod` files are opened and closed
by each `write_new_bodies` (`dio.c:203`), hence complete.  A step of the writing itself is whole: a buffer that fills up in the middle of a frame leaves on disk some
first part of what the stream contains, which is what `OnDisk` allows at the end of the step.  `SomeLosses` has the
last datum, the last item of each stream (among them the closing marker), and all data.  There is no need for a process that dies and loses nothing: its files are
those of one that has closed them.  There is no restart: `PBF_Write` truncates, and a run does not continue an older one.

### Proof

`ResultsProofs`: for any number of ranks, any script, any bodies, and processes that die at any moment with any loss,
`TornIsRefused` says that the files of a process that died before `finalize_frames` are refused, however much of them is on disk, and
with them the output as a whole; `OnlyClosedOpensHolds` (in `ReaderProofs`, as it rests on the contents of the files) says the rest of
`OnlyClosedOpens`.  The invariant is `FilesInv`: every file is in one of three conditions.  No marker of its index is the closing one while it is written (`IsOpen`);
the last marker, and no other, is the closing one from `finalize_frames` on (`IsFinal`); a process that died left nothing more to come (`IsDead`).
That an index of such a file is complete if it ends in the closing marker is part of `FoundFile`, below.  The lemmas on lists and records
(`AppendList`, `SubSeqList`, `ExceptList`, `HasFields`) speak of sequences of anything.

`RanksInStepHolds` and `RecordedOnceHolds`, for any number of ranks, any sequence of script commands and any
intervals, rest on `TimesInv`.  Inside `SOLFEC_Run` the output and callback times and intervals of all ranks are equal (`SameSol`: `Uniform`
makes them so, after that they move on together), and for each place of the run `Reached` says how far the frames have got:
`written` holds as soon as there is a frame, in the loop no frame is of a later time than the run, and at the end of a step
`lastwrite` holds just when the last frame is of the current time.  That the last state is recorded on all ranks or on none follows
from this and from the equal times of their frames, although the test reads the `lastwrite` of the rank.  `FrameAdded` and `CloseTimes` are
what the proof needs of a file: `write_state` adds one frame of the time of the run, and `PBF_Close` adds none.
`TimesInv` was model-checked on the instance of `output` before it was proved.

`IdsAgreeHolds`, for any number of ranks and bodies, rests on `Agreed`: the counters of all ranks are equal, every id a
rank knows was dealt (`Sound`), a body that one rank knows is the same body on another or is among the ids which that rank has removed and
`manage_bodies` has yet to spread (`SameBodies`), and the lists of two ranks have no body in common.  There is a lemma for each operation:
`AgreedMigrated`, `AgreedRemoved`, `AgreedInserted`, `AgreedSpares`, and `AgreedManaged`, which puts them together.
The lists are built by recursion (`Chosen`, and `FlattenSeq` of the community modules).  The induction
theorems of the library take an operator as a parameter, which the provers cannot instantiate; here
they are replaced by `SetInduction` and `SetRecursion`, which speak of sets and functions and follow from `WFMin` for the order
of the naturals.  `ChosenList` and `FlattenList` say by them what the recursions compute.

No assumption on the constants is used beyond `OutputAssumption` and `ResultsAssumption`.

`ReaderProofs`, for any number of ranks, bodies, steps and queries in any order:

* `OnlyClosedOpensHolds`: what is accepted was closed up to its index, which is complete, as are the data if no process died;
* `ReadsSucceedHolds`: no assertion of the reader fails but at frames whose data a crash has taken;
* `ShownHolds`, `ListHolds`: the domain of the reader, and its list of bodies, are those of the frame.  Both say
  `~(StaleLinks /\ view.stale)`: without stale links, as in the run `output`, this is always so; with them, the properties hold until a body
  is unlinked from a place where the list does not have it, which is where `output_list` begins to go wrong;
* `HistoryFitsHolds`, `QueriesKeepPlaceHolds`: histories fit their arrays, and queries lead back to the time, and after a normal end to the frame, where they began;
* `TypeHolds`: type correctness of run, files and reader.

A reader's domain depends on everything that happened to a body since it was created, so the invariant `ReadsInv` follows
the data from the domain to the file and back:

* `BodiesInv`: each body has one origin on all ranks (`Known`); all bodies that a rank has or has just inserted are in the input
  file, in `newb` or in some `.bod` file (`Tracked`, `Found`), so that a body that is born on one rank and written by another can be read;
* `ContentsInv`: frame by frame, a file holds what `log`, the record kept of what was written, says (`FileKept`, `Holds`), with the data of the
  last frame in memory or on disk, and with the labels that `read_state` asks for; of a file left by a process that died this holds if its index is accepted (`FoundFile`), for frames
  whose data are there; `LogsInv`: the logs of all ranks have the same times, in order, unless some rank's index is `Refused`;
* `OutputReadable` is what follows for output that is accepted (`AcceptedFile`, `OutputRead`): this is all that a reader needs to know of a run.  A frame
  is as it was written on all ranks (`FrameRead`) if its data are on disk (`FrameWhole`);
* `ListKept`: the list of bodies, as `bod`, `next` and `prev` make it, leads through the bodies of `idb` in the order of a key that
  falls from each body to the next (`Linked`), where the key is when a body was inserted; what is not in `idb` may keep old
  links, as long as it is not taken for the body before one of the list (`Unhooked`).  The walk over the list ends
  because keys fall (`WalkList`).  `RemovedList` shows that removal keeps this as long as every body that is unlinked is named by the one before it, or
  is the first: `dom_read_state` does not reset `prev` of a body it inserts in front, which is what makes links stale;
* `ViewInv`: the reader is as it was opened, or it shows the frame that it read last (`ShownFrame`), with everything else settled (`Settled`), or it has failed at a frame that is not whole (`SaneView`, `Failed`).

Of the bisection, `SearchStep` and `SearchPlace` say that the time looked for stays between the bounds, and that the frame found has that time, or is next
to where it would be (`Around`).  The sizes of histories follow from this on both sides of the interval; a query finds its way back because a frame of the time is found, and no time is recorded twice when the run ended normally
(`SameTime`).  `SearchSteps`, `ReadBodies` and `HistoryLoop` are recursive functions; `SetRecursion` unfolds them, and `SetInduction` carries what
a single turn keeps through all of them.

Model-checked only: absence of deadlock.

## 5. Time series

`TimeSeries` is `TMS_Value` call by call: outside the points (`Before`, `After`), next to the marker (`Near`),
or through `findmarker` (`Far`, then `Found`, `Lower`, `Higher`, `NotFound`).  Values are left out, only times matter:
the question is which two points are interpolated.  The code compares with the point after the last one,
which does not exist; the outcome is arbitrary (`less`).

The run `series` has all series of two to five points at seven times, asked for times at, between and outside of them, in any order.
`SegmentHolds`: the value is interpolated in the segment of the time, whatever earlier calls left in the marker.  The time of
the last point is left out, where the code is wrong: a search for it ends at the first segment, which is extrapolated, or at the last
point, which has no segment.  No document or comment of the repository speaks about it, hence it is a
hazard in `PROJECT.json` and not a violated run.  Points at integers lose nothing, as only comparisons matter; five points
make the bisection go to both sides twice.
`SearchEnds`: every call returns, under weak fairness of `Search` (a call that has begun goes on; nothing else runs meanwhile).

`TimeSeriesProofs`, for any times and sizes: `SegmentFound` (`SegmentHolds`) and `TimeSeriesTypeCorrect` (the marker stays the
index of a point).  `SegmentHolds` needs two additions: points increase (asserted by `TMS_Create`), and while a search goes on the time lies
between what is below `low` and above `high` (`Enclosed`).  `SearchEnds` is model-checked only.

## 6. Not modelled

* Numerical work: single-row solvers, time integration, geometry, assembly of W, interpolation.
* `com.c` collectives message by message: they are modelled as one exchange.
* Transfer of constraints to fragments (`DOM_Transfer_Constraint`), which goes by the geometry of a crack; the `LOCAL_BODIES` build.
* `DOM_Put_Rigid_Link` with coincident points, which inserts a fixed point between two bodies.
* A body deleted while a link on it is pending: what follows depends on freed memory.
* Constraints in frames: a reader destroys and creates all of them with every frame, they have no history.
* Durations that differ between ranks: the code makes `sol->duration` uniform and then ends the loop by the argument of the call.
* Power loss, and what the operating system does not write.
* A signal in the middle of `write_state`; `.bod` files left by an older run with more ranks, which are appended to and read.
* Bodies that a script creates after a `RUN`: in READ mode they get other ids (a FIXME of `read_new_bodies`).
* The HDF5 build of `pbf.c`, `dom_init_state`, histories that read single records, exports.
* Containers as such (memory pools, balanced trees, skip lists): sequential textbook algorithms.
* Surface material pairs, a table filled before the run; the viewer.

More than half of the code is vendored or third-party (`ext/`), geometry, finite elements and rendering: floating-point
computations on the data of one rank without a protocol between actors.  That is why the modules map a small share of all lines.

## 7. Plan

Done: all modules of the table above with their proofs.  What is left, most useful first:

1. The pool of `mem.c`: no chunk served twice while in use.
