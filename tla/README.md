# Verification of stencil-computation

TLA+ models, model-checking runs and machine-checked proofs for the optimized
7-point and 27-point stencil of this repository: one MPI process per core group
of a Sunway SW26010, and in every process a master core that talks MPI and 64
slave cores that compute.

Paths are relative to `src/`. `optimized.c` and `slave.c` are short for
`stencil-optimized.c` and `stencil-slave.c`.

## 1. The system

### 1.1 Components

| component | code | state | operations |
|---|---|---|---|
| driver | `benchmark.c` 32-222 | arguments, arrays `a0`, `a1`, communicator, file views | parse, create the grid, read the input, warm-up call, timed call, check |
| distribution | `optimized.c` 47-84, `benchmark.c` 145-222 | `dist_grid_info_t` | choose `num_x/y/z`, local sizes, offsets; zero the halos |
| master core | `optimized.c` 87-293 (7 points), 296-499 (27 points) | `t`, `flag0/1`, `runnable0/1_flag`, requests, `non_runnable` | spawn, post, arm, signal, test, wait, join |
| halo exchange | the MPI calls of the master, `optimized.c` 135-229 | messages in flight, halo planes | `MPI_Isend`, `MPI_Irecv`, `MPI_Testall` |
| slave cores | `slave.c` 69-290, 292-558 | `t`, `finish0/1`, `runnable0/1` | interior rows, look at the flags, edge rows, barriers, resets |
| row division | `slave.c` 84-116, 307-339 | `y_begin`, `y_end`, `z_loc` | loops over segments and rows |
| row pipeline | `slave.c` 143-197, 216-266, 377-450, 468-534 | ring of three rows, `answer`, `data` | DMA get, sum, DMA put |
| verification | `check.c` | norms | local maxima and sums, reductions |
| reference | `stencil-naive.c` | - | the defining loops |
| printing of the slaves | `include/cal.h` | two counters, the order of lines | draw a ticket, wait, print, pass on |
| profiling | `include/lwpf2.h`, `TIMING` in `slave.c` | counters in local and main memory, times | start, stop, fetch, store, report |

The other include files are the platform's; the Makefile, `run.sh` and
`submit.sh` hold no state of the program.

### 1.2 Interactions

* The driver calls `stencil_7` or `stencil_27` twice on the same two arrays: a
  warm-up of one step, `MPI_Barrier`, the timed call of `nt` steps. Step `t`
  reads `buffer[t % 2]` and writes `buffer[(t + 1) % 2]`.
* In every step the master posts the exchange of its edge planes, sets
  `non_runnable` to 1, and polls two groups of requests, group 0 for the
  neighbour above and group 1 for the one below. When a group is complete it
  writes 1 into `runnable0` or `runnable1` in the local memory of each of the
  slaves (`h2ldm`), one after the other; for a group with no requests it writes
  2 at once. Then it spins on `non_runnable`.
* A slave computes its interior rows without waiting, then its rows of the top
  plane when `runnable0` is set and of the bottom plane when `runnable1` is.
  All slaves meet at a barrier, each clears its own two flags, slave 0 clears
  `non_runnable`, and all meet at a second barrier.
* Processes see each other only through MPI messages, tagged with the sender.
  The tag is the same in every step and in both calls.

### 1.3 What is hard here

There are no locks. A step is correct because of an order established by
flags with three kinds of writers, a barrier that the master does not take part
in, and the message order of MPI. A test can only run it; on the machine the
unlucky orders are rare. `PROJECT.json` lists the hazards one by one with
their lines. In short:

* flags written by one core and cleared by another, with nothing between a
  clearing and the next write (`slave.c:128`, `273`, `541`);
* one slave that answers for all (`slave.c:275`, `543`);
* arrays that are computed from, computed into, sent from and received into at
  the same time (`optimized.c:194-227`);
* messages that do not say which step they belong to;
* spinning on both sides (`optimized.c:249-279`, `slave.c:203-215`);
* truncating divisions that give each slave its rows (`slave.c:84-116`) and
  each process its planes (`optimized.c:47-61`);
* asynchronous transfers into a ring of rows and out of a single one, told
  apart by counting replies (`slave.c:150-194`);
* memory nobody sets and somebody reads: the ends of `answer`, lane 27 of
  `data`, the norms outside process 0 (`slave.c:127`, `354`, `benchmark.c:87`);
* operations that fail on one process while the others are in a collective
  call (`benchmark.c:178-192`);
* counters that wrap (`cal.h:9-16`, `lwpf2.h:45-75`).

### 1.4 What makes each component correct

| component | properties |
|---|---|
| master and slaves | no two cores, and no core and MPI, access the same rows in conflict; no flag is taken for another step's; each call returns the array with all its steps; it returns |
| core group | a step ends only after its halos have arrived, and its planes are handed out only when they are complete |
| halo exchange | a halo is of the right step, a plane is intact until it has been read, neighbours are a step apart at most; the processes together do the global iteration; nobody waits for ever |
| row division | every row of the block by exactly one slave, none outside |
| row pipeline | a row is the weighted sum of the 7 or 27 rows the naive code reads; the x halo stays zero |
| distribution | the blocks tile the grid; neighbours exist |
| x, y and z branches | every plane that is sent is received once, into the cells that stand for the same points |
| driver, verification | collective calls match, with any failure; a wrong answer is reported, a right one is not; the time covers the timed call |
| printing, profiling | lines are whole and all printed; what is reported is what was spent, in order |

## 2. The modules

| module | models | extends / instantiates |
|---|---|---|
| `RankStep` | what a process promises its neighbours (abstract) | |
| `CoreGroup` | master and slaves of one process | `RankStep` as `Rank` |
| `Jacobi` | the global iteration (abstract) | |
| `HaloExchange` | all processes and the messages between them | `Jacobi` as `Blocks` |
| `RowSplit` | the division of rows among slaves | |
| `RowPipeline` | the rows of one slave: transfers, ring, sums, and the reference's sums | |
| `GridInfo` | arithmetic of `dist_grid_info_t`, `INDEX`, MPI datatypes (no state) | |
| `DistGrid` | division of the grid, `memory_alloc`, `read_file`, for one process | `GridInfo` |
| `HaloPlan` | what the x, y and z branches send and receive | `GridInfo` |
| `Driver` | `main` of all processes with its collective calls and failures | |
| `CheckAnswer` | `check_answer` and the reports of `main` | |
| `CalLock` | the lock around the slaves' output | |
| `Profile` | what a slave measures over both calls | |
| `Report` | what the reports make of the counters | |
| `Blocks` | the three modules about what is in the blocks, side by side | `DistGrid`; `HaloPlan` as `Plan`, `CheckAnswer` as `Check` |
| `Output` | the three modules about what the slaves put out, side by side | `CalLock`; `Profile` as `Measured`, `Report` as `Shown` |
| `MC...` | an instance of one module for TLC each | |
| `CoreGroupProof` | theorems about `CoreGroup`: coordination, arrays, refinement of `RankStep` | `CoreGroup`, `TLAPS` |
| `HaloExchangeProof` | theorems about `HaloExchange`: messages, refinement of `RankStep` and `Jacobi` | `HaloExchange`, `TLAPS` |
| `RowSplitProof`, `RowPipelineProof`, `DriverProof`, `CalLockProof` | theorems about these modules | the module, `TLAPS` |
| `BlocksProof` | theorems about `DistGrid`, `HaloPlan` and `CheckAnswer` | `Blocks`, `TLAPS` |
| `OutputProof` | theorems about `Profile` and `Report` | `Output`, `TLAPS` |

`HaloPlan`, `CheckAnswer`, `Profile` and `Report` state what they need of their
constants as an operator (`HaloPlanConstants`, ...), which `Blocks` and `Output`
assume (`BlocksAssumption`, `OutputAssumption`). The parts of these two share no
state. In `MCBlocks` and `MCOutput` a variable `part`, chosen in the initial
state, says which one a behaviour is of; the others stay in an initial state.
The theorems are about the specification of each part (`Plan!Spec`,
`Measured!Spec`, ...).

`CoreGroup` is a single process whose neighbours are the environment;
`HaloExchange` is all processes, with a process reduced to what `RankStep`
says. The two are joined by refinement: `CoreGroup` implements `RankStep`
(`ImplementsRankStep`, with MPI as the environment), and `HaloExchange` seen
from any of its processes, `View(r)`, implements `RankStep` as well: the rest
of the system gives a core group nothing but what the environment of
`CoreGroup` may do. `HaloExchange` in turn implements `Jacobi`.

The other modules justify what these two abstract from. `RowSplit`: each slave
owns its rows alone. `RowPipeline`: computing a row is one step that reads
whole rows of the right array. `DistGrid`: the two arrays start as the grid
with a zero halo. `HaloPlan`: a message of `HaloExchange` carries the plane its
receiver's halo stands for. `Driver`: both calls are made by all processes, or
none of their results is printed.

### 2.1 CoreGroup

`mpc` is the place of the master in `stencil_7` / `stencil_27`, `spc[i]` that
of slave `i`.

| code | model |
|---|---|
| `non_runnable = 0; athread_spawn` (`optimized.c` 108, 117) | `Spawn` |
| the Isend / Irecv calls, the flags of the step (123-229, 232-235) | `Post` |
| `non_runnable = 1` (230) | `Arm` |
| the loops over 64 slaves (236-247 and 258-267), one slave a step | `WriteFlag`, `SkipGroup` with `mpc` = `"none"` and `"set"` |
| the two `MPI_Testall` (250-256), one a step | `Test` |
| `while (non_runnable == 1);` (279) | `Await` |
| `athread_join`, `return` (282, 292) | `Join` |
| completion of a request group inside MPI | `Complete(g)` |
| flags cleared on entry, 7 points only (`slave.c` 128-129) | `Clear0`, `Clear1` |
| segments 0 and 1, `finish0 = finish1 = 0` (143-198) | `Main` |
| the tests of the flags (207-215), one a step | `Look0`, `Look1` |
| segments 3 and 2, the test of the loop (204, 216-266) | `Edge(i, 0)`, `Edge(i, 1)` |
| `athread_syn`, the resets, `athread_syn` (272-278) | `Barrier1`, `Reset0`, `Reset1`, `Signal`, `Barrier2` |

Every access to a variable that two cores share is a step of its own; what a
core does on its own goes with the step before it. Values are abstracted to
the time step they belong to: `mem[b][i][p]` for the rows of slave `i` in array
`b`, in three parts (the interior, its share of the top and of the bottom
plane), `halo[b][g]` for the halo planes. A part computed from anything but
the step it should be computed from becomes `Garbage`, and stays recognisable.
A slave's computation writes in one step; that this loses nothing is what
`RaceFree` says: nobody else accesses these rows in conflict while its program
counter is there.

Assumed: the stores of a core become visible to the others in the order in
which it makes them, and DMA is complete when its reply has been counted. The
code has no fence; on a machine with weaker stores it would have more
behaviours than the model.

### 2.2 HaloExchange

A message is put on `wire` by `Post` and taken off by `Deliver`, in order, by
the `Irecv` that is open. MPI may copy the plane at once (`Copy`, the eager
protocol) or read it from the array when the message is delivered (rendezvous).
A process's own computation is `Advance`: it turns the array of the step into
the next, and from then on the old array is being overwritten (`Garbage`).
After either call a process waits in `MPI_Barrier` (`LeaveBarrier`).

### 2.3 RowSplit

`YBegin`, `YEnd`, `ZLoc` are `y_begin`, `y_end`, `z_loc`, with C's division,
which rounds toward zero. Every slave goes through its segments and puts one
row a step, at any speed relative to the others. `Supported` is what the
division needs: `local_size_y` a multiple of the number of slaves and
`2 <= local_size_z < THREAD_NUM + 2`. The four jobs of `run.sh` (512 x 32
planes and 768 x 12 planes on 64 slaves) are supported.

### 2.4 RowPipeline

One slave goes through its segments, row by row. `GetFirst` and `GetNext` issue
the gets before the first and before every row of a segment, `GetsDone` is the
loop on `get_reply`; `Compute` the loop over `x`, `Put` and `WaitPut` the put
of `answer` and the loop on `put_reply`; `EndSegment` goes on to the next
segment, after the last one to the next step. `Transfer` is the DMA engine: a
transfer that has been issued ends at any time, in any order with others.

Numbers are abstracted to where they come from. A row of an array is the time
step of its cells, whether its two ends are zero, and whether its cells are
finite. A sum is the set of its terms, each the name of the weight, the shift
along x and the row that was read. `Naive` is the set of the terms of
`stencil-naive.c`, taken from the names in `common.h`, and `SumIsNaive`
compares the two: weights, lanes, places in the ring and steps all have to
agree. `ends` and `lane27` are what local memory held in the elements nobody
sets, chosen in `Init`.

### 2.5 GridInfo, DistGrid, HaloPlan

`GridInfo` holds the arithmetic: `Num`, `LocalSize`, `Position` and `Offset` are
the assignments of `create_dist_grid`, `Subarray` and `Vector` what the MPI
datatypes select, as functions from element numbers to addresses.

`DistGrid` follows one process of either version through `memory_alloc`
(`Front`, `Plane`, `RowEnds`, `PlaneEnd`, `Back`, one per kind of `set_zero`)
and `read_file` (`Read`). `array[i]` is unset, zero, or the index of a cell in
the file, so `LocalIsGlobal` is the sentence in `common.h:40-49`, but for its third
width: common.h:45 writes `local_size_y + halo_size_x * 2`, evidently for
`local_size_z + halo_size_z * 2`, which is what `memory_alloc` makes.
`Tiling` says that the blocks tile the grid, for the counts and grids the division
is made for (`Supported`).

`HaloPlan` computes `request[r][g]`, the calls each process makes in a step, for
any arrangement of the processes. `create_dist_grid` only makes arrangements
along z; the x and y branches are there in the code, and the model checks them
for arrangements the code does not reach. `BuffersApart` is stated for z only:
with two dimensions the planes that are received overlap in the edges of the
halo.

### 2.6 Driver

The program of a process is a sequence of operations, `Program(r)`: it depends
on the number of arguments and on whether the process has cells. `Do` is a local
operation, `Enter` and `Return` the two ends of a collective call, `Fail` an
operation that returns an error, after which `ABORT_IF_ERROR` calls `MPI_Abort`;
`Kill` is the abort reaching another process, at any later time. The calls of the
optimized version are local steps that may fail as well (`StencilFails`): with
fewer than two planes in a block the shares of the slaves are negative and their
rows outside the arrays (`slave.c:84-116`), with a process count other than 16 or
64 planes are addressed to processes that do not exist. The process dies of that
and the job with it, or it goes on. Calls are
matched by order alone: a process that makes one call too few or too many in
its communicator makes the others wait, or match the wrong ones.

`BadArgs` is the case of bad arguments, in which `MPI_Abort` is called with
`active_procs` before that has been set: the job ends, or the process returns
from `main` without `MPI_Finalize`.

### 2.7 CheckAnswer

An error is in one of four classes: none, small, large, not a number. The three
loops are four actions: `Element` adds the error of a cell to the norms of its
row, `EndRow` those of the row to the plane's, `EndPlane` those of the plane to
the block's, and `EndBlock` leaves the loops. `Keep` is the comparison of C, which
is false for a NaN. `OddSets` are the sets of elements whose errors may be large
or not numbers, in the blocks or their halos; all other errors are small.
`MPI_Reduce` sets the result on process 0; what another process has in `norm_inf`
is any value, and so may be what it prints; `RootRight` is about process 0.

### 2.8 CalLock, Profile, Report

`CalLock`: `Draw` is the `faaw` on `cal_req_id`, `Look` a load of `cal_cur_id` and
its comparison, `PrintHalf` half of the output of a line, `Unlock` the second
`faaw`. `hoisted` says whether the build has taken the load out of the waiting
loop, which it may, for the `asm` statement is not volatile.

`Profile` is about both stencils (`type`, chosen in `Init`). `Enter` and
`Leave` move the counters of a slave in and out of its local memory
(`lwpf_enter`, `lwpf_exit`), `Start` and `Stop` are `lwpf_start` and
`lwpf_stop`, `Mark` is one of the places in a row where `TIMING` reads the
cycle counter, six for 7 points (`Marks7`) and eight for 27 (`Marks27`), which
times its copies. `Return` includes the report, which only stencil_7 prints
(`optimized.c:283-287`). All arithmetic is modulo `Cycles`; the printed times
are modulo `Ints`, with a sign. `inA` and `spent` count the same without
differences.

`Report`: the three reports over a flat array of counters, one step for each
slave that is added and for each row. `lwpf_report_summary` and
`lwpf_report_summary_wide` have no caller in the repository; the detailed
report has (`optimized.c:285`). `Divisors` are the units above 1; the last one a
number passes by more than the report's `Slack` is used, and the number rounded
to it.

## 3. The runs

| run | cfg | bounds | distinct states |
|---|---|---|---|
| `core_group_7` | `CoreGroup7` | 3 slaves, 3 processes along z, 1 + 3 steps | 546,917 |
| `core_group_27` | `CoreGroup27` | the same | 169,999 |
| `core_group_live` | `CoreGroupLive` | 7 points, 2 slaves, 1 + 2 steps | 28,990 |
| `core_group_spawn_race` | `CoreGroupSpawnRace` | 7 points, 2 slaves, 1 + 1 steps | violation |
| `core_group_reset_race` | `CoreGroupResetRace` | 27 points, 2 slaves, 1 + 2 steps | violation |
| `halo_exchange` | `HaloExchange` | 4 processes, 1 + 3 steps | 20,227 |
| `row_split` | `RowSplit` | 3 slaves, all supported sizes up to 6 x 6 | 47,313 |
| `row_split_any_size` | `RowSplitAnySize` | 2 slaves, sizes 2-4 x 3-5 | violation |
| `row_pipeline` | `RowPipeline` | 9 rows in 6 segments, 3 steps, both stencils | 3,344 |
| `blocks` | `Blocks` | see below | 167,875 |
| `driver` | `Driver` | 3 processes, any failure, with and without cells | 62,602 |
| `output` | `Output` | see below | 934,724 |

The parts of `blocks`: `DistGrid` with 2 and 3 processes for 16 and 64, three
grids, both versions; `HaloPlan` with 1x1x4, 2x2x2, 3x2x1 and 1x3x3 processes
and two blocks; `CheckAnswer` with two blocks of 2 x 2 x 1 and up to two odd
elements, in the two rows with their halos or in a cell before, after or above
them. The parts of `output`: `CalLock` with three slaves, two lines each,
counters modulo 3; `Profile` with one slave, both stencils, two steps, the
cycle counter modulo 4, int modulo 2; `Report` with two slaves, two kernels,
eight values, units to the base 10.

Bounds. Slaves other than 0 are alike, so three are enough for a slave that is
early, one that is late and slave 0. Three processes give every position of a
process: lowest, inner, highest (`pid` is chosen in `Init`). Both arrays have
been read and written after two steps, and the third shows a wrap of the
parity; one warm-up step and three steps cover an odd and an even step after
which a call ends and the reuse of the flags by a second call. Four
processes in `halo_exchange` give two inner ones next to each other. With three
slaves the sizes up to 6 x 6 contain shares that are empty (`lz = 2`), that end
with a plane, and that run over the end of one.

The segments of `row_pipeline` are an empty one, one that begins inside a plane
and is continued in the next, and whole planes; with three steps each array is
written over values of its own. Two and three processes in `DistGrid` stand
for 16 and 64 (`SmallNum`, `LargeNum`): the code uses the numbers for nothing but
a comparison and a division. The grids have three different sides, so a wrong
stride or a swapped dimension shows. The arrangements of `HaloPlan` have ends
and middles in each dimension and every pair of dimensions. `driver` needs a
process that fails, one that has gone ahead and one that is behind. Two odd
elements are enough for a NaN before, after, and in another row, plane or
process than a large error; the halo can hold them too. With `Words` = 3 and
three slaves all tickets are out at once, the tightest case
`CalLockAssumption` allows. In `Profile` every row is longer than the range of
the counter. The values of `Report` are at, above and inside the limits of the
units, of which the code's (1000, and 10, 1000 and 10^11 units) are scaled
down.

Deadlock checking is off: all these programs end. The core group also can stop
before the end, which is the subject of the first two findings.

`TypeOK` of every module says what values its variables take; runs check those
of `CoreGroup` and `HaloExchange`.

What they show:

* `core_group_7`, `core_group_27`: under all interleavings `RaceFree`,
  `SendReady`, `FlagFresh`, `CallResult` and `ClearsLast` hold, and the core
  group implements `RankStep`. That is: what the code computes is right
  whenever it gets there. The slaves for 27 points do not clear their flags on
  entry, so what a call leaves in them matters to the next; for them `RaceFree`
  and `FlagFresh` are proved (section 4), and the run checks `CallResult` and
  the refinement, which are proved as well.
* `core_group_spawn_race` and `core_group_reset_race` show that it may not
  get there (see Findings), and `core_group_live` that there is no further
  cause: unless a flag is lost, both calls return. `KeptInFirstStep` bounds the
  second race: without a clearing on entry no flag is lost in the first step of
  a call, so a warm-up call of one step always returns.
* `halo_exchange`: one tag for all steps is enough,
  because messages between two processes keep their order and no process gets
  more than a step ahead. The barrier between the calls is needed for the
  refinement of `Jacobi` (the mutant without it violates it).
* `row_split`: the division is exact for supported sizes.
  `row_split_any_size`: it is not in general.
* `row_pipeline`: the optimized sums have the same terms as the reference's,
  over rows that have arrived and are of the right step, however long a
  transfer takes; a row being put is not overwritten. This is what makes the
  single step `Main` or `Edge` of `CoreGroup` a fair abstraction.
  Unset local memory reaches the result in the two ways `CleanUnlessUnset` names
  and in no other; rows of the ring that have not arrived hold anything.
* `blocks`, of `DistGrid`: the pieces that are zeroed are exactly the halo and the file
  fills exactly the rest, for both versions. Also for a process without cells.
  Of `HaloPlan`: in all three branches peers, tags and addresses of the two sides
  agree, cell by cell, six requests per group are enough, and with the processes
  along z no buffers overlap (`PlansFit`). Of `CheckAnswer`:
  process 0 is right about large errors, NaNs or not, and a NaN shows in the
  printed norms.
* `driver`: a failure of any operation on any process ends all processes, and
  process 0 prints nothing it should not. The mutants show what this rests on:
  the barriers, `MPI_Abort`, and the reductions to process 0.
* `output`: lines are whole and in the order of the tickets (`LinesInOrder`);
  wrapping counters are harmless, as long as
  there are no more slaves than values, and differences are taken modulo the
  same number; the three numbers of a summary stay in order.

### 3.1 Fairness

`CoreGroup!FairSpec` has weak fairness of the master, of each slave, of the
barriers and of the completion of a request group. Master and slaves are cores
of their own which nothing preempts; a barrier opens once all are there; and
that a neighbour answers is what `halo_exchange` shows for the whole run.
`HaloExchange!FairSpec` has weak fairness of each process's steps and of the
delivery of a message for which a receive is open, the progress MPI
guarantees. It has none for `Copy`: MPI need not buffer.
`RowPipeline!FairSpec`: the slave runs, and every transfer that was issued ends
(DMA completes). `MCOutput!MCSpec`: in `CalLock` every slave is a core of its
own; nothing is fair in the other two parts, of which only safety is checked.
`Driver!FairSpec`: every process runs, a collective call that can return does,
and `MPI_Abort` arrives; it has none for `Fail`.

### 3.2 Findings

1. `slave.c:128`: stencil_7's slaves clear their flags after they have been
   spawned. The master does not wait for that: a process without a neighbour
   on one side writes 2 into the flags of that group as soon as it has posted
   its requests for the other. A slave that starts later than that clears the
   flag, waits for it for ever, and with it the barrier, slave 0 and the master.
   (`core_group_spawn_race`)
2. `slave.c:541` (273 in stencil_7): slave 0 clears `non_runnable` between the
   two barriers while another slave may not have cleared its flags. The
   released master enters the next step and, on the same kind of process,
   writes the flag at once; the late slave clears it. (`core_group_reset_race`)
3. `slave.c:107`: rows that do not divide evenly are computed by nobody;
   `parse_args` accepts such sizes. (`row_split_any_size`)

In the first two, the window is a few instructions of a slave against a loop
of MPI calls of the master, which is why the runs of `run.sh` do not meet it.

### 3.3 Conditions

Where the result is only right under a condition which the code neither
establishes nor checks, the model states the condition and the properties hold
under it:

* `slave.c:127`, `186`: the two ends of `answer` are never set and are put into the
  x halo with every row, where the next step reads them as the boundary. They
  have to be zero (`ends` in `CleanUnlessUnset`).
* `slave.c:354`: the 28th element of `data` is never set and is multiplied by a
  zero weight. It has to be finite (`lane27` in `CleanUnlessUnset`).
* `slave.c:84-116`: the sizes have to divide evenly (`Supported`; finding 3 is the
  case in which they do not).
* `optimized.c:52`: a process count other than 16 is taken for 64. It has to be one
  of the two (`PNums` in `DistGrid`); `Driver` has the case of another one, in
  which a process may be ended in its call.
* `benchmark.c:79`: with fewer planes than `num_z` no process has cells. The run
  computes and prints nothing, if the slaves, whose shares are negative, do not
  end it: `Driver` has both cases.
* `optimized.c:59`: the number of planes has to be a multiple of the processes
  (`Supported` in `DistGrid`). What is left over is in no block: nobody reads,
  computes or compares it, and the last process computes its top plane as if the
  grid ended there.
* `benchmark.c:87`: processes other than 0 compare a norm that `MPI_Reduce` does not
  set there (`check.c:52`) and may print "Significant numeric error." about a
  right answer. In the model their norm is arbitrary (`Reduce`), and no property
  is about what they print.
* `cal.h:12`: the load in the waiting loop has to stay there. A build that takes it
  out makes a slave wait for ever (`hoisted`), and `AllPrinted` is about the
  others.
* `check.c:34`: a NaN is not greater than anything and does not enter the maximum
  norm, so an answer with NaNs and no large error is not reported; `NaNShows`
  says that the printed 1- and 2-norm are NaNs then.

## 4. The proofs

Eight modules hold theorems, each for every value of the constants its `ASSUME`
allows: any number of slaves, processes, time steps, sizes, tickets. The
invariants named below were checked with TLC as invariants of a small instance
before they were proved.

| module | theorem | states |
|---|---|---|
| `CoreGroupProof` | `TypeCorrect`, `Coordinated` | `Spec => []TypeOK`, `Spec => []IInv` |
| | `FlagsAreFresh`, `NoRaces` | `Spec => []FlagFresh`, `Spec => []RaceFree` |
| | `SlavesClearLast` | `Spec => ClearsLast` (an action property) |
| | `ArraysAreRight` | `Spec => []Contents` |
| | `CallsReturnResult`, `SendsAreReady` | `Spec => []CallResult`, `Spec => []SendReady` |
| | `FirstStepKeepsFlags` | for 27 points, `Spec => []KeptInFirstStep` |
| | `GroupKeepsContract` | `Spec => ImplementsRankStep` |
| `HaloExchangeProof` | `TypeCorrect`, `Counted` | `Spec => []TypeOK`, `Spec => []IInv` |
| | `HalosAreCurrent`, `SendsStayIntact`, `NeighboursInLockstep` | `HaloCurrent`, `SendIntact`, `Lockstep` |
| | `ProcessesKeepContract` | `Spec => ImplementsRankStep` |
| | `RunIsJacobi` | `Spec => Blocks!Spec` |
| `RowSplitProof` | `NoRowTwice`, `OnlyBlockRows`, `EveryRowWritten` | `RowsOnce`, `InsideBlock`, `AllWritten`, if all sizes are `Supported` |
| `RowPipelineProof` | `TypeCorrect`, `RowsInPlace` | `Spec => []TypeOK`, `Spec => []IInv` |
| | `SumsAreNaive`, `SourceStaysWhole`, `NothingElseUnset` | `SumIsNaive`, `SourceWhole`, `CleanUnlessUnset` |
| `BlocksProof` | `BlockFilled`, `ArraysHoldTheGrid`, `GridIsTiled` | `Spec => []IInv`, `LocalIsGlobal`, `Tiling` |
| | `CallsAreForNeighbours`, `PlansAreRight`, `GroupsFillHalos` | `Plan!Spec => []PlanInv`, `PlansFit`, `GroupsCover` |
| | `NormsAreOfErrors`, `VerdictIsRight`, `NaNErrorsShow` | `Check!Spec => []CheckInv`, `RootRight`, `NaNShows` |
| `DriverProof` | `Matched`, `ReportsAreComplete`, `TimeIsOfAll` | `Spec => []IInv`, `ReportMeansAll`, `TimedTogether` |
| `CalLockProof` | `LockTyped`, `LinesApart` | `Spec => []TypeOK`, `Spec => []LinesInOrder` |
| `OutputProof` | `AllMeasured`, `TimesExact` | `Measured!Spec => []IInv`, `ShownExact` |
| | `ReportsExact` | `Measured!Spec => ReportExact` (an action property) |
| | `RowsAreOfKernels`, `ReportsInOrder` | `Shown!Spec => []ReportInv`, `RowsInOrder` |

Every invariant and every action property the passing runs check is proved; what is left
to the runs is in 4.10.

Together they close the argument of section 2 for any number of cores and
processes: a core group implements `RankStep` (`GroupKeepsContract`); each
process of `HaloExchange` implements it too, so the others give it what
`CoreGroup` takes for its environment (`ProcessesKeepContract`), and all do the
global iteration together (`RunIsJacobi`).

### 4.1 Master and slaves

`RaceFree` and `FlagFresh` are not inductive: whether a slave may write an
array depends on where the master and the other slaves are. `IInv` is `TypeOK`
and `Coordination`, which has seven parts:

* `Together`: the slaves are in the same phase (all computing, all resetting,
  or all idle) and in the same step;
* `MasterBounds`: where the master's step and loop counters can be;
* `InStep`: the slaves' step is the master's, or one off, by phase;
* `NonRun`: when `non_runnable` is 1 and when it can have been cleared;
* `Requests`: which requests are pending, complete or absent at each place of
  the master;
* `Flags`: a flag that is set in a slave has been written in this step, and the
  group's requests are complete with the halo in place;
* `Finish`: a slave that has finished a group has seen its flag, so in
  particular all slaves past the first barrier have both.

The proof has one lemma per action (`SpawnStep`, `PostStep`, ...,
`Barrier2Step`) with one step per part, `InvStep` puts them together, and each
theorem follows from `Coordinated` in a few steps.

`SendReady` and `CallResult` are about the contents of the arrays. `Contents`
says that the array the slaves compute from is complete and of their step, that
the input survives the warm-up, and what each slave has `Written` of the next
array: its own rows once it is `PastMain`, an edge plane once it has finished
the group. It is inductive together with `IInv`, which rules out that a slave
reads what is not there: `Flags` and `FlagFresh` give the halo, `Together` the
rows of the other slaves. At the second barrier all have written everything,
and the next array becomes the one that is read.

`FirstStepKeepsFlags` follows from `Kept`: the slaves for 27 points never clear
on entry, and in the first step of a call a flag the master has written
(`Signalled`) is still set while its slave computes. The clearings that could
take it are those at the end of a step, and by `Together` and `InStep` none of
the step before, in the other call, is still to come.

`GroupKeepsContract` maps a core group to one process. Its step is that of its
slowest slave, so it moves when the last slave writes its last edge plane
(`AllFinished`), before the master counts on; a group of requests that
completes is its exchange. `SlowestIs` reduces the `CHOOSE` of the mapping to a
case distinction by `Together`; all other steps stutter (`RankStutter`). The
proof found a mistake in the mapping: `got` was a `CASE` with overlapping
guards (a group without a peer while the master posts), whose value TLA+ leaves
open though TLC takes the first one. It is an `IF` now.

### 4.2 Messages between processes

A message does not say which step it belongs to, so no property of a single
message is inductive. The argument counts: `Sent(r)` and `Received(r, g)` are
the planes process `r` has sent to each neighbour and received from `g`, over
both calls. `Counts` says that what is on a wire is the difference, `Messages`
that message `k` on it belongs to the exchange its place says, `StepOf`, and
that a plane MPI has not copied yet is the last message and that of the
sender's step. As a wire holds no negative number of messages, `Counts` of the
two directions bounds how far neighbours are apart (`NeighboursInLockstep`),
and with that `HaloCurrent` and `SendIntact` follow. `Places`, `Barriers` and
`Arrays` say where a process can be, that nobody enters the timed call before
all have come to the barrier, and what its arrays hold; the second is what
keeps the messages of the two calls apart.

`RunIsJacobi` is the safety part of `ImplementsJacobi`; its fairness is not
proved.

### 4.3 Division of the rows

The interior rows are numbered plane by plane. The share of slave `i` is the
numbers from `PerSize * i` up to `PerSize * (i + 1)`, and segments 0 and 1 are
the rows with these numbers (`ShareRow`); the edge planes are divided in pieces
of `PerPlane` rows. The numbers of the rows are a bijection (`InteriorRow`),
and every number is in exactly one piece (`SomePiece`, `SamePiece`). The
hypothesis `AllSupported` is necessary: the run `row_split_any_size` has the
counterexample. `IInv` adds which rows have been put by a slave that is at row
`yy` of a segment.

### 4.4 Collective calls

Calls are matched by their number alone, and a process with cells makes other
calls than one without. `Places`, `WorldCalls` and `ActiveCalls` say where in
the three programs the calls are. Two processes that have made the same number
of calls need not be at the same operation; but if one is at the barrier before
the timed call, it has made one call on the world more than another can have
made that is not there yet (`OneMore`, `TwoMore`). So who leaves the barrier
finds all others at it (`MeetWarm`, and likewise `MeetTimed`, `MeetReduce`):
`Meetings`. With the number of files by place (`FilesRead`) and the place of
the report (`Prints`) it is inductive. Failures and aborts move nobody on
(`StayStep`).

### 4.5 Tickets

The tickets of the slaves in line are consecutive modulo `Words`. They are
different as long as the line is not longer than `Words` (`Apart`, `LineFits`),
which `Distinct` adds to `TicketsInLine`; so one slave at a time has the ticket
`cal_cur_id` and prints. `HalfLine` says that half a line stands at the end of
the output exactly while its slave is between the halves; `Owing`, that a slave
in line has a line left to print, without which `left` is not bounded from
below. `Words` is not 0 (`CalLockAssumption`): without it the counters have no
type.

### 4.6 Rows in the ring

When a row is summed, nine transfers (three for 7 points) may have ended in any
order. `InFlight` relates those that have to the count of replies: the rows of
every get that is no longer under way are in their places, so when all replies
are counted, all are. `Window` says that two places of the ring hold the row
before the one to be computed and that row; with `Transfers` and `RingTurns`
the next gets go to the third place and to nothing the sum reads. `SourceRight`
and `DestRight` are about the arrays: the one that is read is whole and of the
step, and the other has every row that was put in it, by the segments that are
through and the rows of this one (`Written`). All of them carry `CleanRow`,
that nothing unset has reached a row but through the ends of `answer` and lane
27 of `data`.

`SumIsNaive` then compares two sets of terms: the vectors of the optimized sum
are enumerated, by lane and row, against the shifts of the reference.
`RowPipeline` has one slave, which owns the whole block; that each row is in one
of its segments (`RowPipelineAssumption`) is for one slave what `RowSplitProof`
proves of the division for any number.

### 4.7 Cells, planes and peers

An index is a number in a mixed radix with the sides of the block as its bases;
`INDEX` and `CellAt` are inverse to each other (`IndexOfCell`, `CellOfIndex`,
from `Digits`). Everything about addresses is reduced to cells by that.

`DistGrid`: with the processes along z, a view of the file is a piece of
consecutive indices (`ViewIsPiece`), the pieces are of the same length
(`BlocksAlongZ`), so every index is in one (`OneReader`). `Zeroed` is the set of
cells `memory_alloc` has zeroed when its loops are at a `y` and `z`; it grows by
the cells of each `set_zero` (`ZeroedStep`) and is the halo in the end.

`HaloPlan`: the elements of a vector type are the cells of a plane
(`PlaneAt`, `PlaneHas`). A process is a cell of the arrangement, so the
neighbour along a dimension is the process one step further, and there is one
(`NextAlong`, `OnePeer`). The requests of a process are a send and a receive for
each neighbour (`CallsPosted`): a send is received by exactly one receive of
the peer (`Match`), and both planes stand for the same points of the grid
(`SamePoints`).

`CheckAnswer`: the norms of a row, a plane and a block are those of the errors in
the cells the loop has been through (`AreNorms`), a property that adding a cell
or joining two sets of cells keeps (`AddError`, `AddNorms`). It makes the folds
over the cells superfluous, for which the provers would need induction.

### 4.8 Cycles and reports

`Profile`: all numbers are remainders modulo the width of the cycle counter, and
so are the equations. `Counted`: inside a kernel the counter plus the clock is
what has been spent in it. `TimerIs`: while an interval is open, the time plus what
has passed since its beginning is what has been spent; at most one of the timers
that share a variable is open at a time (`OpenMarks`, `MarkTurns`, by cases of
the stencil, whose intervals `OpenAt` lists).

`Report`: rounding is monotone in one unit, and across the limit between two,
because each unit is a multiple of the one below; so least, average and greatest
keep their order though each has a unit of its own. A sum of `n` counters lies
between `n` times the least and `n` times the greatest (`SumsOf`), and its
mean between the two. No sum is ever computed in closed form.

### 4.9 Assumptions

The `ASSUME` of the modules say that numbers are natural numbers, sets of slaves
finite, and

* `RowPipelineAssumption`: every row is in one segment (compare `RowSplitProof`);
* `CalLockAssumption`: there are no more slaves than values of a counter;
* `HaloPlanConstants`: an arrangement has as many places as there are processes.
  `create_dist_grid` makes it so, if there are 16 or 64 (`optimized.c:52`);
* `ProfileConstants`: the width of an int divides that of a counter;
* `ReportConstants`: no counter is above `Least`, where a minimum begins
  (`lwpf2.h:253`), and there is a unit above 1.

`Tiling` states inside that the grid is one the division is made for
(`Supported`). Two hypotheses stand in theorems: `AllSupported` for those about
`RowSplit` (what `run.sh` uses and the code does not check), and `StencilType =
27` for `FirstStepKeepsFlags` (in stencil_7 a flag can be lost in the first
step: finding 1).

### 4.10 Only model-checked

* Liveness: `Termination`, `TerminatesUnlessLost`, `AllEnd` and `AllPrinted`, which
  need `ENABLED` of the fair actions, and the fairness part of
  `ImplementsJacobi`. They are out of the prover's reach.
* The two violations of `Termination` and the one of `AllWritten` are
  counterexamples; there is nothing to prove.

## 5. Not modelled

* Floating point: which inputs a value is computed from is modelled, and
  whether it is a number; its rounding, and so the order of a sum's terms, is
  not.
* Local memory as a resource: `origin` and `answer` take ten rows of the 64 KB,
  which bounds `local_size_x`, statically.
* The placement `pid % 4` of processes on core groups, which the job system
  decides, and core groups with fewer than 64 slaves.
* `cal_lock` and `cal_unlock`, the lock of `CalLock` over a struct, which have no
  caller.
* The choice of the performance counters, the layout of the reports, the
  master's own times (`optimized.c` 34-43, 271-278), the messages on stderr,
  dumps of rows.
* The Makefile, the job scripts, and the vendored headers of the platform
  (`simd.h`, `slave.h`, `share.h`, `slave_sig.h`, `dma.h`: 2,200 of the lines),
  which declare what the platform provides; it is modelled from its use.
* What a slave outside the arrays does to the rest of memory: the process dies or
  goes on with its program, and a call returns or ends the process.
* Names of dimensions in the datatypes of files beyond what `Subarray` selects,
  and file errors in more detail than that an operation fails.

## 6. What is left

All components are modelled, with the exceptions of section 5, and the safety
properties are proved. A proof that a flag is lost in the two ways of findings 1
and 2 only would need a predicate for the time between a clearing and the write
it takes away; `TerminatesUnlessLost` checks the consequence on small instances,
and `FirstStepKeepsFlags` proves one half of it for the first step.
