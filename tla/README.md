# TLA+ models and proofs for JFYan

JFYan evaluates acyclic joins inside an SGX enclave with data-oblivious
algorithms and OpenMP parallelism. This directory holds TLA+ models of its
core, TLC configurations that check them on small instances, and TLAPS proofs.
Paths below are relative to the repository (`implement/`, `include/`,
`Enclave/`, `App/`).

- [1. Inventory](#1-inventory)
- [2. Modules and how they correspond to the code](#2-modules-and-how-they-correspond-to-the-code)
- [3. Runs](#3-runs)
- [4. Disagreements found](#4-disagreements-found)
- [5. Proofs](#5-proofs)
- [6. Only model-checked](#6-only-model-checked)
- [7. Not modelled](#7-not-modelled)
- [8. Plan](#8-plan)

Every module parses with SANY, every `.cfg` is for the MC module named in the
table of section 3 (`tlc -config MCJFYan.cfg MCJFYan`), and the proofs are
checked with `tlapm JFYanDownProofs.tla` and so on. Operators whose comment
starts with `mutant:` are not part of the models: each is a plausible error in
the definition that follows it, and shows that the properties notice it.

## 1. Inventory

A call of the program: `App/App.cpp` loads a tree of relations and calls the
enclave once per mode; `Enclave/Enclave.cpp` decides how many rows the output
shall have and runs one of four join algorithms; these are built from parallel
primitives (sort, compaction, expansion, segmented sums).

| Part | State | Operations | What is hard | What makes it correct |
|---|---|---|---|---|
| Bottom-up semi-join, `BottomupSemiJoin.cpp` 967-1271 | tables with appended columns, per-edge values, positions | one semi-join per edge, one update per node, level by level; root expansion | nodes of a level in parallel (enclave build) or edges of a node in parallel (other build); barriers only between levels | reads finished children only; nobody writes what a semi-join reads; the intervals of positions tile the output |
| Top-down pass, `JFYanDown.cpp` | output positions, local indices, scratch tables of each edge | per edge: rank, copy, sort; final sort by position and assembly | edges of a node in parallel under a cap of workers; unstable sorts; mixed-radix indices | every position once per relation, adjacent copies join, no combination lost or doubled |
| Sizes, `BottomupSemiJoin.cpp` 41-57, 719-931 | counts per row, completions per row | upward and downward pass, padding | ints in the semi-join, saturating long longs around it | exact while counts are narrow, never below the answer |
| RRS sensitivity, `include/RRSSensitivity.h` | bounds per set of relations | three ways to combine degree and exact bounds | saturation; which bounds may be mixed | every combination bounds what it is about; the answer bounds the local sensitivity |
| ParYan, `ParYan.cpp` | filtered tables, partial joins, column offsets | filter up, filter down, two-way joins up | nodes of a level in parallel; filtered rows are zeros | fully reduced tables; every two-way join fits the size; the right bag of rows |
| ObliYan, `ObliYan.cpp` | tables, list of edges to do | semi-joins up, down, two-way joins cut at tau | truncation, equal rows numbered by copies | the same, and only answers when tau is small |
| Non-oblivious JFYan, `NonObliviousJFYan.cpp` | hash index per edge, counts | checked counting, unranking of each output row | overflow, limits, mixed radix | every answer once, or a refusal |
| Two-way join, `ObliViatorJoin.cpp`; value semi-join, `ParallelSemiJoin.cpp` | merged table | sort, count, expand, align, pair up | unstable sorts, key 0, dummies | the pairs of equal keys, padded |
| Sorts, `ParallelBitonicSort.cpp`, `BitonicSort.cpp` | keys and rows in parallel arrays; rows | rounds of exchanges by a team; recursion | barrier per round, keys and rows exchanged separately, padding | sorted permutation, padding at the end |
| Trees, `Aggtree.cpp`, `DupAggtree.cpp` | a tree in an array | upward, downward pass | lengths that are no power of two, in-place updates | segmented prefix, suffix, total, product, fill |
| Compaction, `ORcompact.cpp` | rows, marks | recursion into tasks, taskloops | order of tasks, uneven ranges | stable compaction |
| Expansion, `ObliViatorExpand.cpp` | rows, targets | distribution by tasks, filling | order of tasks and taskloop iterations | every row in its places |
| Memory profile, `MemoryProfile.cpp` | atomic counters | operator new/delete, run/position/branch intervals | lock-free maxima, nested intervals, failed joins | recorded peaks are the peaks |
| ECALLs, `Enclave.cpp` | profile switches, memory run, phase | sizing, refusals, join, copying out | exceptions and refusals in the middle | nothing left on, nothing cut short |
| Session, `App.cpp` 1027-1172, 1206-1720 | carried size, verdict, summaries | warm-up, sweep, single pass | one call's results used by the next | modes compared alike, sound exit code |
| SOExpand, logging, data generators | - | - | - | not modelled, section 7 |

Interaction: the session hands flat tables to an ECALL; the ECALL calls the
sizing, then one of the modes. `bottomUpSemiJoin` leaves tables with u-values and
delta and an expanded root, the input of `JFYanDown`. ParYan and ObliYan share
the plan of Yannakakis (filter up, filter down, join) and differ in their
two-way joins. All of them call the primitives, which share nothing but the
arrays of their caller. The memory profile is driven from below by every
`operator new` of every thread and from the side by `JFYanDown` and the ECALL.

## 2. Modules and how they correspond to the code

```
                  AcyclicJoin   (what a join promises)
              ^ refinement       ^ refinement
             JFYan             Baselines
               |              /    |    \
           JFYanDown    ParYan ObliYan NonObliviousJFYan
               |              \    |    /
           BottomUp         FlatTables
               |                 |
            JoinTree  <----------+               JoinTree <- RRSSensitivity <- OutputSize

      TwoWayJoins  =  ParallelSemiJoin, ObliViatorJoin, ObliYanTwoWay  (on TwoTables)
      Primitives   =  ParallelBitonicSort, BitonicSort, ORCompact, ObliExpand (with Aggtree), Aggtree
      MemoryProfile          Session
```

A layer uses the one below by its promise: `Primitives` shows that the sorts
sort, the compaction is stable, the expansion repeats and the trees sum;
`TwoWayJoins` takes these for granted and shows what the semi-join and the
two-way joins return; `Baselines` and `BottomUp` take those for granted and show
what the joins return. One run checks one layer, with the algorithms of a layer
as alternatives of one next-state relation (`algorithm`, `mode`): what an
alternative does not use stays at a fixed value.

**JoinTree** — the parent array with its derived children lists, levels and
breadth-first order, the join predicate of an edge, and the reference
definition of the join: `Matches` enumerates the assignments of rows to nodes
that agree on every edge, `JoinSize` and `SubtreeCount` count them. A row is a
record: the input columns (`keys`) and what the passes append (`us`, `delta`,
`P`, ...). `TreeAssumption` says what the loader guarantees: one root, and
depths (so no cycles; see section 7). `materializedOutSize` is the size
`runJoin` asks for.

**BottomUp** — `bottomUpSemiJoin`. `BeginEdge`/`EndEdge` are the start and the
end of one `executeValueOnly`, two steps because it reads two tables while
other threads run. `UpdateNode` is the loop that appends counts and their
product, `NextLevel` the implicit barrier of the parallel loop over a level.
`AssignPositions`, `ExpandRoot`, `NumberAndPad` are the three stages of the
root. `SgxBuild` selects the preprocessor branch: threads per node or per edge.

**JFYanDown** — `JFYanDown`, `subProcessFlat`, `getRankValues`. `PrepareNode`
sorts an inner node by row and numbers equal rows (the sort is not stable: any
arrangement of ties, `Arrangements`); `RankChild` and `CopyToChild` are the two
halves of a worker's edge; `FinalSort` and `Materialize` the assembly. The
merge with the child's headers, the marking, the compaction and the write-back
inside `subProcessFlat` are sequential in one worker and are one step: every
parent row finds the header that owns its index (`Owner`) and its copy takes the
header's columns; the compaction keeps in the place of a parent row that was not
marked some unmarked row, a copy or a header (`Unmarked`). `InputAssumption` says
what the loaders guarantee of the rows: at least one column, integers, none of
them the dummy value.

**JFYan** — `runJoin` for this mode, composing the two passes on one set of
tables; **AcyclicJoin** is the promise: one step that answers with one of the
bags that `Answers` allows for the input. The refinement mapping drops rows that
are dummies at the root.

**FlatTables** — tables of the baselines once they are joined: the two-way joins
keep no order, so a table is a bag of rows, and a row the sequence of its columns.

**ParYan** — `ParYanFilter` and `ParYanJoin`. The internal nodes of a level are
iterations of a parallel loop: `pc[p]` counts what node p has done, `UpSemiJoin`,
`UpMultiply`, `DownSemiJoin`, `DownFilter`, `JoinChild` are its steps, and the
`End...Level` actions the barriers. `partial`, `cols` and `offset` are
`partialTables`, `partialCols` and `colOffset`. (In the build outside the enclave
the edges of a node that is alone on its level run at once; they write separate
`semiJoinValues[i]` and read what nobody writes, and are taken one by one.)

**ObliYan** — the serial passes over the edges (`todo`): semi-joins up and down
drop rows, `JoinEdge` joins and cuts at tau, `Finish` reorders and pads. A cut
keeps any tau rows, since the order inside the two-way join is that of an
unstable sort.

**NonObliviousJFYan** — `EdgeIndex` is the hash index (buckets with cumulative
ends), `Count` the bottom-up pass with checked arithmetic, `Size` the limit,
`MapChild` one level of the unranking of all output rows, `Finish` the assembly.
`MaxRows` and `MaxCount` stand for INT_MAX and LLONG_MAX.

**Baselines** — `runJoin` for the three modes with their sizes, the invariants
of the passes and the refinement. `Correct` says which bags each may answer.

**TwoTables, ObliViatorJoin, ObliYanTwoWay, ParallelSemiJoin** — the joins of
two tables, one action per function the code calls (`augmentTables`,
`fillDimension`, `fetchExpand`, `alignTable`; `Expand`, `MultiNumber`, ...), with
every outcome of the sorts that leave ties (`SortedBy`). **TwoWayJoins** states
what they return.

**OutputSize** — `computeOutputSizeStats`, `computeAcyclicJoinOutputSize`
(`sized`) and `computeDOPaddingStats`. Counts are bounded by `MaxInt` and
`MaxLong` as in the code: the delta column is clipped, the sums of the prefix
tree wrap (taken as two's complement, which is what the adders leave), a
negative sum counts as no match, the products saturate. `Factor` stands for the
real noise factor, which is above 1 for every accepted epsilon and delta. The
branch of `satAdd` for negative operands cannot be reached from these callers and
is left out.

**RRSSensitivity** — the engine as operators: degrees, `ComputeEST`, the exact
bounds of components (`RowsWith`, `GroupMax`), relaxed boundaries, and the three
combinations `estTE`, `rrsTE`, `hybridTE`. The residual is a maximum over
distances k of a bound times a factor that falls with k; the model keeps the
term for k = 0 and lets the engine answer anything from there up to
`GlobalSensitivity`: more than the code can answer, and enough for the
property, which is a lower bound.

**ParallelBitonicSort** — `ParallelBitonicSorter`. Each thread exchanges the
keys and then the rows of the pairs of its static share; `EndRound` is the
barrier of the `omp for`. Keys are computed by the code's `2 * key_base` digits.

**BitonicSort** — `BitonicSorter`, a recursion in one thread with the calls still
to be made on a stack, its own filler rows, and the cut at the end by their value.

**ORCompact** — `ORCompact` with its recursion into tasks. A task is a record
with the calls it still has to make; the iterations of a swap loop are steps
that can come in any order. `TaskRows` is 8192 in the code (the threshold of the
task pragma); below it the recursion is sequential, and the model keeps that.
`JFYanDown.cpp` 226-456 holds a second, packed copy of the same recursion.

**ObliExpand** — `ObliViatorExpand`: target places, distribution with tasks and
taskloops, then filling by the tree of `Aggtree`. All calls are tasks, whether or
not the code's size threshold makes them so: this only adds interleavings. Rows
are identities.

**Aggtree** — the five tree algorithms; a level is one step, since its nodes
touch disjoint cells except inside one node, where the order is kept. Sums are
linear in the data, so distinct powers of two tell every subset apart, and
distinct primes every product. In `SuffixTreeRun` `exclusive = 1` is the variant
that *adds* the own value: the model follows the code, not the name. `FullRun`
runs the prefix tree and then the suffix tree (`BothSides`). `SuffixProductRun`
is modelled although no caller is left.

**MemoryProfile** — `recordAllocation` step by step (count, then for each mark
the load, the compare-and-swap and its retry) for several threads, against the
serial code that opens and closes the run, the propagation, groups and branches.
`crest`, `siblings` and `returned` are history variables: the most bytes live
since a mark was opened, what the branches of a group added in sum, and the bytes
of the blocks operator new has handed out. Spurious failures of the weak
compare-and-swap are not modelled (they only repeat the load). `JFYanDown` is
represented by the order of its calls, which may end at any point by an
exception.

**Session** — `main` and the four ECALLs. A join is represented by the number
of rows it returns for a target; failures can occur in any step of a call. The
buffer check is for results of one column. In `expectedRowsMatch` the branch
for statistics-only results *with* rows is dead, because the flag is only set
when there are none; the model leaves it out.

## 3. Runs

| Run | Config (module) | Bounds | What it shows |
|---|---|---|---|
| bottomup_tree | MCBottomUp (MCBottomUp) | 6 relations, 2 internal nodes on one level and one on another, 48 databases, the build outside the enclave: a node's edges run at once when it is alone on its level, the nodes of a level otherwise | `ReadsFinished`, `StableUnderRead`, `ContributionExact`, `PositionsTile`, `TypeOK`, `Termination` |
| jfyan_exact | MCJFYan (MCJFYan) | 7 relations, depth 3, siblings on two levels, 3 edges under the root for 2 workers, up to 18 answers, an empty join, the enclave build | `PositionsComplete`, `EdgesAgree`, `IndicesBalanced`, `EdgesIsolated`, `DownTypeOK`, `ImplementsJoin` |
| baselines | MCBaselines (MCBaselines) | 5 relations, 3 levels, up to 12 answers, key 0, tau 0, 2, 20; row limit 3, count limit 5 | `FullyReduced`, `PartialsFit`, `ImplementsBaseline` |
| two_tables | MCTwoWayJoins (MCTwoWayJoins) | tables of up to 3 rows, sizes 0, 2, 10 | `KeysAligned`, `ImplementsTwoWay` |
| primitives | MCPrimitives (MCPrimitives) | sorts: 3 to 6 rows, both directions, 3 threads; compaction: every marking of 1 to 7 rows; expansion: 1-5 rows to at most 7; trees: every segmentation of 1 to 9 places | `RangesDisjoint`, `Sorted`, `StablyCompacted`, `Expanded`, `SumsCorrect`, `SpreadCorrect`, `Termination` |
| output_size | MCOutputSize (MCOutputSize) | 4 relations, ints up to 3, long longs up to 11 | `ExactWhileNarrow`, `SensitivityExact`, `BoundsValid`, `SensitivityCovers`, `CoversAnswer` |
| memory_team | MCMemoryProfile (MCMemoryProfile) | 2 threads, 2 bytes, groups of 2 branches | `TypeOK`, `PeaksExact`, `IntervalsNested`, `BoundConservative`, `AllocationsReturn` |
| session_calls | MCSession (MCSession) | joins of 0, 2, 7 rows, limit 6, every combination of options | `QuietBetweenCalls`, `SizedAlike`, `VerdictSound`, `AnswersComplete`, `Terminates` |
| jfyan_padded, bitonic_filler, rrs_saturated, session_warmup | MCJFYanPadded (MCJFYan), MCFiller (MCFiller), MCSaturatedBound (MCOutputSize), MCSessionWarmup (MCSession) | a target above the exact size; keys of nines; degrees whose product saturates; a sweep with warm-up | the disagreements of section 4 |

**Why the bounds are enough to be interesting.** The trees are the smallest
that have two internal nodes on a level, siblings at two depths, and a position
handed on over more than one edge; the databases have rows with no, one and
several partners, duplicate rows and dangling rows. In `Baselines` the
breadth-first order differs from the order of the relations and every join column
but one is not the first, so that a wrong offset shows. Tables of three rows are
enough for a key with two rows on both sides, where the alignment of copies
matters, next to a key with one. Three and five rows are padded to four and
eight, so the sort has padding in one and in two rounds; with three threads the
shares of a round are uneven. Lengths up to nine give the trees every shape of a
missing child up to four levels. Task thresholds are lowered so that ranges
split more than once. In `OutputSize` the bounds are low enough that counts clip,
sums wrap and products saturate within the instance. Two threads suffice for a
lost update of a maximum, and the proof of section 5 covers any number. In
`Session` the limit lies between the sizes of the joins, so that refusals,
exact-size fall-backs and statistics-only results all occur.

**Fairness.** All models but `MemoryProfile` assume weak fairness of the
next-state relation only: while something can run, something runs. No step of
theirs can repeat for ever, so this is enough, whichever thread is favoured; it
is what the threads of an OpenMP team give, since none of them waits for
anything but a barrier or a task. `MemoryProfile` assumes weak fairness of each
thread: OpenMP threads are kernel threads that are eventually scheduled, and no
code waits on a lock. The compare-and-swap loop of `updateMaximum` ends because
every failure means that another thread raised the mark, and marks are bounded
by the memory in use (`MaxLive` bounds it in the model). `CHECK_DEADLOCK FALSE`
is used where the program ends; the memory model has no end and keeps the
deadlock check.

## 4. Disagreements found

Four statements of the repository are refuted by a run:

- `TidIsPosition` (jfyan_padded): with a target above the exact size,
  `subProcessFlat` leaves a dummy parent row unmarked when its predecessor has
  another key, and the compaction keeps a child header in its place, whose tid
  is no output position. The comment in `JFYanDown.cpp` says tid is the output
  position. The affected rows are dummies.
- `PaddingStaysBehind` (bitonic_filler): a row whose key columns are all 9
  (99, ...) has the same key as the filler of the bitonic sort; in a descending
  block the two are exchanged and the row is cut off with the padding.
- `EveryBoundValid` (rrs_saturated): a product of degrees that saturates for
  every relaxation equals the value for "no bound found" and becomes 1, below
  the number of joined rows it should bound. `BoundsValid` of output_size states
  the same for sets where the product does not saturate.
- `WarmupUnreported` (session_warmup): the warm-up checks its result before the
  statistics-only flag is set, so a result that a measurement accepts ends the
  program.

More were met while reading and modelling, and no run is spent on them:

- the comment at `BottomupSemiJoin.cpp:1165` says positions are 1-based; the
  exclusive prefix sum gives 0-based ones, and the users of the positions (and
  the model) agree with the code;
- an empty join sized exactly returns one dummy row (`Enclave.cpp:394`); the
  refinement mapping of JFYan drops it;
- key 0 stands for a dummy row in ParYan and ObliYan: rows that join on 0 are
  not in their answers, while JFYan and the non-oblivious mode return them
  (`BfsJoin` of Baselines leaves them out, `JoinBag` does not). In ParYan such
  rows survive the filters, because filtered rows are zeros and match them, and
  an intermediate join can then be larger than the size (`PartialsFit` leaves
  these databases out);
- with `-tau` below the exact size and padding off, ObliYan cuts every two-way
  join at tau (`ObliYan.cpp:748`) and returns fewer rows than the join has, and,
  when it was an intermediate join that was cut, fewer than tau.
  `ImplementsBaseline` states only that what it returns are answers, none too
  often; `AnswersComplete` of Session is stated for sizes that come from the
  sizing;
- the non-oblivious mode reports an overflow of a count although a later child
  of the same row has no match, so that the count would be 0
  (`SomeCountTooLarge` allows the refusal).

## 5. Proofs

All proofs are for every value of the constants that satisfies the named
assumptions of the modules, and use no other axioms.

**JFYanDownProofs, the bottom-up pass** (from `TreeAssumption`, `InputAssumption`). `ReadsFinished`
and `StableUnderRead` are not inductive: that a child is finished when its
parent's semi-join starts follows from the level counter alone. `IInv` adds
`ControlOK` (types of the control state) and `Schedule`: nodes deeper than the
current level are updated, nodes above it untouched, and an updated node has
all its edges done. Preservation has one step per action; `NextLevel` needs that
every internal node of the level has been updated, and every child of a node of
depth d has depth d+1 (`ParentFacts`). `ScheduleInvariant` is that invariant;
`ReadsFinishedTheorem` follows from it. `TypeCorrect` adds `Rows` (tables keep
their length, finished edges have one value per parent row).
`StableUnderReadTheorem` is the action property: an updating node is either the
parent of the running edge, whose edges would have to be done, or its child,
which lies on a level that is finished.

**JFYanProofs** (from the same assumptions and `JFYanAssumption`, on top of
JFYanDownProofs). `EdgesIsolated` needs to know which edges can be in work:
`Current` says that they all lead to children of the current node, `PassesApart`
that the top-down pass begins when the bottom-up pass is done, whose actions are
then all disabled (`UpIsOver`, from `Schedule`). Two workers then write two
different children of one parent, and the parent is neither (`NoSelfLoop`, by
depth). `WorkersCapped` is the bound of `DownTypeOK` on open edges: the count in
`FreeWorker` ranges over the children of one node only, but by `Current` there
are no others. `DownInvariant` is the invariant; the rows of the bottom-up pass
(`RowsUp`) belong to it until the top-down pass overwrites the tables.

*Types.* `DownTypeCorrect` needs to know which tables have been handed down.
`Progress`: the nodes that the pass has left have all their children copied, and
edges are only in work below relations that have positions. `Shapes`: a table
that carries positions has as many rows as the output, with the columns the pass
reads. `Ready`: a table that waits for its copies is a permutation of its
database rows with their counts (`Waiting`), and the indices and ranks in use
are those of the tables they were computed from (`Indexed`, `Ranked`).

*Positions and joins.* With the exact size as target, `Following` says that
there are, for every output position q and relation u, a row R[u][q] of the
database and a turn T[u][q] below the number of that row's partial answers, such
that the copy of u that carries q has the columns of row R[u][q] and the local
index T[u][q], the rows of an edge join, and a turn of a child and its row
determine the share of the parent's turn that led there. R and T are witnesses,
no part of the model: `FollowingStart` takes them from the expanded root
(`PositionsTile`), `FollowingCopy` extends them along an edge. There a digit of
the parent's index falls into the interval of one header (`HeadersCover`: the
ranks cut 0 .. u-1 into one interval per row, as long as its count), and what
the header's start leaves over is the child's turn. `PositionsCompleteTheorem`
and `EdgesAgreeTheorem` follow: sorting permutes the positions, and the rows of
an edge join because the header has the parent's key.

*The answer.* `AnswerCorrect`: the rows that are read off are the join, each
combination once. The rows R[.][q] of a position are an answer, since its edges
join; two positions with the same rows have the same turns at the root, because
turn and row of every child determine a digit and all digits determine the
parent's turn (`SameTurn`, from the leaves up), and a row with a turn at the
root is one position. So the map from positions to answers is injective, and
onto because there are as many positions as answers. Like `PositionsTile` it has
the hypothesis `N > 1`.

*The turns.* `IndicesBalancedTheorem` is a count, got without counting. While edges
are in work only some relations have been followed, but what has been followed can
be continued to the leaves (`FollowedToTheEnd`: an edge needs only that the share
numbers the answers below the child, and those can be numbered), so that positions
and answers correspond one to one. Below a row the turn and the answer determine
each other: one half is `SameTurn`; for the other (`SameBelow`) exchange what one
answer has below the row for what the other has, and the position that has the
result agrees with the first in the root's row and turn. So every turn of a row that
occurs is taken (`EveryTurn`), and exchanging the answers of one turn for those of
another maps the positions of the one into those of the other without losing any
(`NotMore`), in both directions.

*The refinement.* `AnswersOnce`: with `Taus = {0}` every step of the join is a
step of `AcyclicJoin` or a stutter; liveness aside this is `ImplementsJoin`.
Beyond `AnswerCorrect` it needs the join without answers, whose output is one
row. `DummyRow` is its invariant: the row is a dummy at the root, and whatever
it meets below are rows of numbers (its index may be meaningless, but
`OwnerIsHeader` finds a header for it or none), so the row that is read off
contains the dummy value and the bag is empty.

**JFYanDownProofs, the top-down pass** has no steps: it says what the operators of
JFYanDown return. The order of the inner nodes is the breadth-first
order without the leaves; what a sort returns is a permutation without
inversions, and one by position puts a row at its place (`Sorting`,
`SortedPositions`); the running differences of `RawIndex` telescope
(`LocalIndexIs`); the digits of an index to mixed radixes determine it
(`SameDigits`); the headers of a key lay their answers out one behind the other,
without gaps (`HeadersCover`), so that every number below their sum has one
owner (`OwnerFound`); together, a parent row with an answer finds the header
that owns it, and its copy is the one for that answer (`CopyCovers`).

**MemoryProfileProofs** (from `MemoryAssumption`). `PeaksExact` speaks of quiet
states only. `MarksInvariant` says what holds in between, for each open mark:
it is never above its crest; its crest is at most the larger of the mark and
what some thread still has to record; and a thread that has loaded a value has
not loaded more than the mark. The steps fall into three lemmas: a thread goes on
to the next mark, a thread reads or re-reads a mark, the serial code opens or
closes one. `PeaksExactTheorem` follows since nobody is pending when all
threads are idle: the relaxed compare-and-swap loops lose no maximum for any
number of threads.

**SessionProofs** (from `RequestAssumption`). `IInv` ties the switches to the
step of the call (log and timing on only inside a call, memory and phase only
inside a join), the flag to the summaries, and the exit code to both.
`QuietTheorem` and `VerdictTheorem` follow for every set of requests, any list
of modes and any sweep.

The second half of the module is about nested intervals. `IntervalsNested` needs
`PositionOpen`: inside the position propagation of a profiled run the position
interval is open, so a branch group can only begin there. A failed join leaves
that interval without an end of its own; the end of the run closes it.
`BoundConservative` needs `SumCovers`, relative to `MarksInvariant`: when a
branch ends its mark is exact, so the group's start plus the sum of what the
branches added is never below what they really added. `NestingInvariant` is
preserved step by step, one lemma per serial action; the allocating threads
change none of its variables. `Accounts` (`AccountsInvariant`) balances the
books: the bytes live are those handed out by operator new plus those a thread
is about to hand out or has taken back, and with it `TypeCorrect` bounds every
counter.

**SessionProofs, the sizes.** `SizedAlike` speaks of a call in its join only.
`CarriedInv` adds what holds between the calls and while one is sized: without
`-tau` the size carried from call to call is none or the exact one, and none at
all with padding. `TargetInv` is the size inside the join and `RowsInv` what a
successful call brings back; `AnswersComplete` follows by collecting the rows of
the calls. The cases are the ways a size can be found (given, carried, exact,
padded, refused because it is too large).

**PrimitivesProofs** (from `SortAssumption`, `CompactAssumption` and
`ExpandAssumption` as far as an algorithm needs them). `RangesDisjoint` says that
what runs at the same time touches different cells. For the sort team: a pair of
a round has one lower end, and the shares of the threads are disjoint
intervals. For the two task recursions (compaction, expansion) the invariant is
about the whole set of tasks: every task works inside the range it was given,
the ranges of tasks that may run together do not meet, and a parent that still
has calls to make is waiting for those it has made. `PrimitivesKeepApart` puts
the algorithms together.

**JoinTreeProofs** (from `TreeAssumption`) is about the join itself and has no
states. `CountsMultiply`: the partial answers of a subtree that use a row of its
root are as many as the product, over the children, of the sums of the children's
counts over the rows that join it. `Decomposition` is the same for all answers
and the root, `Levels` that the breadth-first order lists every node once, depth
by depth. The argument is a bijection: a partial answer of a subtree is a row and
one partial answer per child, chosen independently, because the subtrees of two
children share no node (by depth) and no edge leads from one to the other. The
rest are facts about products and sums over sequences.

**JFYanDownProofs, the counts.** `ContributionExact` follows from `CountsMultiply`
once the schedule is known: an updated node's table carries the product of
semi-join values that were read from finished children (`Schedule`), which carry
their own counts. `PositionsTile` needs in addition that a sequence of copies,
`delta[i]` of each row, places copy k of row i at `Pos[i] + k`. It has the
hypothesis `N > 1`: in a tree of one relation the root has no counts to be
expanded by (section 7).

**OutputSizeProofs** (from `TreeAssumption`, `WidthAssumption` and its own
`InputAssumption`, that the databases are tables of rows).
`ExactWhileNarrow`, `SensitivityExact` and `CoversAnswer` compare what bounded
arithmetic computes with cardinalities of sets of answers. A saturating sum is the
size of a disjoint union, cut at the limit (`SatSumIsUnion`), a saturating
product the number of ways to pick one element of each set, cut (`SatProductIsPicks`):
cutting early or late makes no difference, because nothing negative is ever added
or multiplied, and a product with 0 is 0 before as well as after a cut. The passes visit the nodes in a computed
order; `UpOrderIs` and `BfsOrderIs` say that it names every node and that depths
fall, or rise, along it. `UpInv` and `DownInv` are then the invariants of one visit: what has been
visited holds cut cardinalities. The exact halves need that no value in play
passed the limit of its type (`Narrow`), which is what the properties assume too.

**BaselinesProofs** (from `TreeAssumption` and the `InputAssumption` of Baselines).
`FullyReduced` is about two algorithms that have nothing but their aim in common,
and `PassesInvariant` has one part for each. Both rest on a fact about the tree:
an answer of a subtree and an answer around it that agree on the subtree's root
can be exchanged (`Exchange`). So a row of a child is used by an answer exactly
if it has answers below it and joins a row of its parent that is used
(`ChildUsed`), and a row of the root exactly if it has answers (`RootUsed`).

*ParYan.* Upwards every finished node carries, for each row, the number of answers
below it (`ParCounts`, `ParSums`; a product of sums by `CountsMultiply`), also
when siblings of a level are half way. Materialising the root drops the rows with
count 0, and downwards a node's finished probe is positive exactly for the rows
that join a used row of the parent (`ParProbe`, `ParFilter`). That rows which were
zeroed match nothing is where "no key 0" enters (`NoZeroRows`). `ParSize` adds that
the output is at least as large as the join, since the counts of the root rows add
up to it (`RootCounts`).

*ObliYan.* Its order of nodes names every node once, children before parents
(`Reversed`, `OrderFacts`). After the upward pass exactly the rows with answers
below them are left (`UpDone`, with `CountedByChildren`: a row has answers
below it if it joins such a row in every child), after the downward pass the used
ones (`DownDone`, `Reduced`). The invariant names the nodes that a pass has yet to
visit, so that a node's table is known to wait for exactly its remaining children.

*ParYan's joins.* A combination is a choice of one row per relation of a set of
relations whose rows join along the edges inside the set, on keys other than 0
(`Combined`). `JoinsInvariant` says that the table of a node *lists* the
combinations of the relations it has gathered so far (`Lists`, `Gathered`): each
non-zero row stands in the bag as often as there are combinations with these
columns, at the offsets that the node keeps. A two-way join concatenates rows, and
the combinations behind a concatenation are the pairs of combinations of its two
halves, because the edge above the child is the only one between them (`Bridge`,
`JoinedFibre`); duplicate rows multiply. Padding adds rows of zeros, of which
`Lists` says nothing (`PaddedLists`). `PartialsFit` follows because, after the
filters, every combination of the gathered relations extends to an answer
(`GatheredExtends`, by `Exchange`), so there are at most as many as answers, and
these fit the size by `ParSize`. At the end the root has gathered all relations,
and putting its columns in breadth-first order turns what the table lists into the
join, row for row and with the same multiplicity (`AnswerListed`). That is
`ParYanAnswers`. It needs no assumption about key 0: rows with it are never combined.

`N > 1` is needed: ParYan counts nothing in a tree of one relation.

**Technique.** The provers cannot instantiate an induction rule. Facts about folds
and recursive functions are proved by naming the function the fold computes and
taking a least (or greatest) counterexample out of a concrete set of naturals, or a
smallest counterexample among subsets (`LeastOfNats`, `GreatestOfNats`,
`SubsetInduction`).

## 6. Only model-checked

- Liveness (`Termination`, `AllocationsReturn`, `Terminates`) and the refinements
  `ImplementsJoin` (its safety is proved, `AnswersOnce`), `ImplementsBaseline` and
  `ImplementsTwoWay`, which include it. What ParYan answers is proved
  (`ParYanAnswers`), what ObliYan, the non-oblivious mode and the two-way joins
  answer is not.
- What the primitives compute: `Sorted` (a sorting network, correct by the 0-1
  principle or by induction over its rounds), `StablyCompacted`, `Expanded`,
  `SumsCorrect`, `SpreadCorrect`. They are inductions over a recursion; only that
  its parts keep apart is proved.
- `BoundsValid` and `SensitivityCovers`: the bounds of the RRS engine are recursive
  over sets of relations and combine three ways to bound each.
- `KeysAligned`: the two-way joins of ObliYan and ObliViator.

## 7. Not modelled

- The vendored data generators `tpch/` and `tpcds/`, most of the lines of the
  repository, and the scripts and figures of the experiments.
- Option parsing, loading, printing and page profiling in `App.cpp`; logging,
  timers and per-node profiles everywhere; the checks of malformed tables in
  `restoreTables` and in `validateInput` of the non-oblivious mode.
- `SOExpand`, which nothing calls; the row-building `execute()` of
  `ParallelSemiJoin`, which nothing calls either.
- Of the RRS engine: the maximisation over distances k >= 1 and the exponential
  weights (real numbers), and so the smoothness of the result.
- 32-bit products in the joins themselves (`BottomupSemiJoin.cpp:1072`,
  `ParYan.cpp:136`): their counts are unbounded in the models.
- Sentinels in data: rows with `INT_MAX` and the dummy value as a key. The models
  assume they do not occur (`InputAssumption`, `SortAssumption`). Key 0 is modelled.
- Malformed input: empty relations in a join tree, a parent array with a cycle
  (the loader checks ranges and the number of roots only), invalid modes.
- A tree of one relation.
- In `MemoryProfile`: byte totals, copy-table and output counters, the value
  of the position increase. A closed interval forgets its start and its history,
  a branch also its mark, and a run everything, so that states do not multiply.

## 8. Plan

Done, in this order: the join (JoinTree, BottomUp, JFYanDown, JFYan,
AcyclicJoin), the primitives it stands on, the memory profile, the sizes, the
session and the theorems of section 5; then the three other modes against the
same abstract join (Baselines), their two-way joins (TwoWayJoins), the recursive
sort and `FullRun`, and the bounds of the RRS engine.

Left:

1. single-relation trees as an instance of BottomUp;
2. the smoothness of the RRS bounds, if the weights are taken as a falling
   sequence of integers;
3. 32-bit products in ParYan's filter;
4. the safety half of `ImplementsTwoWay` along `KeysAligned`, and of
   `ImplementsBaseline` for ObliYan, along `Lists` as for ParYan (its joins run along
   one chain and may be cut at tau), and for the non-oblivious mode;
5. the segmented sums of the trees, and the compaction's order.
