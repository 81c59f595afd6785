# hearlpix: a TLA+ model of its queries, its containers, its NIF and its file library

hearlpix gives Erlang programs the HEALPix pixelisation of the sphere. An
Erlang module (`src/src/hearlpix.erl`) checks little and forwards every call
to a NIF library (`src/c_src/hearlpix_nif.cpp`), which calls the vendored
HEALPix C++ library (`src/c_src/healpix/src/cxx`); that library keeps its maps in
files of the vendored cfitsio (`src/c_src/cfitsio`). This directory models the
parts with a state worth checking, checks the models with TLC on small
instances, and proves the most important results for every instance with TLAPS.

Paths below are abbreviated: `healpix_base.cc` is
`src/c_src/healpix/src/cxx/Healpix_cxx/healpix_base.cc`, `rangeset.h` is
`src/c_src/healpix/src/cxx/cxxsupport/rangeset.h`, and `buffers.c`, `drvrsmem.c` and
`ricecomp.c` are in `src/c_src/cfitsio`.

## 1. Inventory

| part | state | operations | hard behaviour | what makes it correct |
|---|---|---|---|---|
| rangeset (`rangeset.h`) | vector of boundaries `r` | append, add, remove, intersect, unite, subtract, contains, containsAll, findInterval, toVector | sequences of calls whose positions depend on parities; empty and touching ranges; simultaneous boundaries in the merge | vector ordered, accesses in bounds, each call computes its set operation |
| disc queries, NEST (`healpix_base.cc` 70-122, 262-316) | stack of pixels, saved stack position, answer | query_disc, query_disc_inclusive | depth-first walk with an explicit stack that unwinds past unseen entries | bounded stack, ascending output, nothing missed, nothing added, termination |
| disc queries, RING (164-261) | answer, ring, interval | the same | intervals that wrap around phi = 0, caps, trimming of ends | ascending output, each ring's interval once |
| multi-disc, polygon, strip (338-583) | answer, command stack | query_multidisc, query_multidisc_general, query_polygon, query_strip | fold of rangesets over discs, postfix commands | the intersection of the discs |
| pixel indexing (586-690, 710-900) | none (pure) | nest, ring, xyf, peano, ring info, nside2order, npix2nside | facet borders, polar caps, integer widths | conversions keep the pixel, centres are located back, rings and the Peano curve are in order |
| neighbors, interpolation, boundaries | none (pure) | neighbors, get_interpol, boundaries | face tables | each neighbor shares exactly the corners on its side |
| pixel maps (`healpix_map.h`) | array of values | swap_scheme, Import_degrade, Import_upgrade | permutation in place along cycles | each pixel ends at its place |
| Erlang API and NIF glue (`hearlpix.erl`, `hearlpix_nif.cpp`) | calls in progress | new, query_disc, query_disc_inclusive, conversions | guards, argument checks, names and arities bound by hand, C++ exceptions without a handler | what -spec lines promise; the virtual machine stays up |
| handle lifecycle (`hearlpix_nif.cpp` 89-123, 875-903) | reference counts, pointer to the base | alloc, construct, make, release, send, collect, destroy | several schedulers interleave | a base lives as long as somebody can reach it, and no longer |
| cfitsio: buffers (`buffers.c`) | records buffered, their age and dirtiness, sizes, position on disk, what the stdio stream below holds | move, get, put, get and put by groups, flush, truncate, open, close | a cache that large requests bypass; records past the end; a program that dies in a call, and leaves records out or half written | a sequence of bytes, whatever is buffered |
| cfitsio: shared memory (`drvrsmem.c`) | a table of segments, a semaphore each, file locks, a table per process | create, open, lock, resize, unlock, free, remove, recover | processes that interleave, die, and come back | exclusion, exact counts, nothing in use destroyed, no wait for ever |
| cfitsio: Rice coding (`ricecomp.c`) | bit buffer, output position | compress and decompress a tile | bits across bytes, output whose end most branches do not look for | what is compressed comes back |
| build and load, alm, power spectra, programs, libsharp, libfftpack, the rest of cfitsio | - | - | - | not modelled, see section 7 |

How they interact: a call of `hearlpix:F` runs the NIF bound to F and its arity
on the calling process's scheduler. The NIF gets the handle from the term, reads
`handle->base` and calls the library synchronously; a disc query fills a
`rangeset` local to the call and turns it into a list. Bases are immutable
after construction, so processes share nothing but the handle's reference count
and its lifetime. There is no `try` anywhere in the NIF: a `PlanckError` or
`std::exception` leaves it and ends the virtual machine. The NIF calls no function
of cfitsio; `build_deps.sh` builds it for HEALPix's functions and programs that keep maps
in files. Its buffers and its shared memory driver keep state across calls, and the latter
across processes.

## 2. Plan

The order is by how much of the observable behaviour rests on a part.

1. `Rangeset`, `RangesetUnion`, composed in `RangesetCalls` (refines `IntegerSet`): done.
2. `DiscQueryNest`, with proofs that its walk is right for every disc: done.
3. `HearlpixNif`, API, dispatch, lifecycle, exceptions: done.
4. `HealpixIndex`, `PixelWalk`: index conversions, rings, neighbors and the Peano
   curve, checked against the geometry of pixel centres and corners: done.
5. `RingQueries`: the ring loop of disc, multi-disc and strip queries, composed with
   `Rangeset` and `HealpixIndex`: done.
6. `MultidiscNest`: the zones of queries of several discs and the command stack of
   `query_multidisc_general`, on the walk of `DiscQueryNest`: done.
7. `HealpixMap`: `swap_scheme` along its cycles and the Import functions, on the
   conversions of `HealpixIndex`: done.
8. `IoBuffers` (refines `ByteFile`), `SharedSegments`, `RiceCodec`: the parts of
   cfitsio whose state outlives a call, or that move bits across bytes: done.
9. Proofs, below.

Theorems, in the order of what they say about the system: the walk of the NEST queries,
its stack, its answer and what it covers; the rangeset, every safety property of
it and the refinement of `IntegerSet`; the handles of the NIF; the shared segments; the
RING queries, with the facts about rings they need; queries of several discs; the buffers of
an open file; the conversions of pixel numbers. These are done; section 5 says what is left
to TLC and why.

Abstract specifications: `IntegerSet` (what a rangeset promises) is stated and
implemented by `RangesetCalls`; `ByteFile` (what an open file promises, and how far
its disk may lag behind) by `IoBuffers`. For a query the promise is stated on the
answer (`StrictExact`, `InclusiveComplete`, `DiscAnswer`, `MultidiscAnswer`,
`StripAnswer`): it is a call with one result.

## 3. Modules

| module | models | kind |
|---|---|---|
| `Rangeset` | the member functions of `rangeset.h` as operators on vectors | pure operators |
| `IntegerSet` | a set of integers with the calls' documented effects | abstract specification |
| `RangesetUnion` | the locals and one turn of the loop `generalUnion` | pure operators |
| `RangesetCalls` | one object and any legal sequence of calls, a call with another rangeset turn by turn | state machine, refines `IntegerSet` |
| `DiscQueryNest` | `query_disc_internal` (NEST), `check_pixel` | state machine, one turn per step |
| `MultidiscNest` | the zones in `query_multidisc` and `query_multidisc_general` (NEST) | extends `DiscQueryNest` |
| `RingQueries` | `query_disc_internal` (RING), `check_pixel_ring`, `query_multidisc` (RING), `query_strip` | state machine, one ring per step |
| `HearlpixNif` | `hearlpix.erl`, `new_base`, dispatch, the destructor | concurrent state machine |
| `HealpixIndex` | pixel numberings, rings, neighbors, positions of centres | pure operators |
| `PixelWalk` | a caller that converts and steps from pixel to pixel | state machine |
| `HealpixMap` | `swap_scheme`, `Import_nograde`, `Import_upgrade`, `Import_degrade` | state machine, extends `PixelWalk` |
| `ByteFile` | a file of bytes and its disk | abstract specification |
| `IoBuffers` | `buffers.c`, with `fftrun`, opening and closing of `cfileio.c` and the file driver under it | state machine, refines `ByteFile` |
| `SharedSegments` | `drvrsmem.c` | concurrent state machine |
| `RiceCodec` | `fits_rcomp_byte`, `fits_rcomp_short`, `fits_rdecomp_byte`, `fits_rdecomp_short` | state machine, one block per step |
| `QueryLemmas` | lemmas about vectors of boundaries, and about the rings of any base | proofs |
| `RangesetCallsProofs`, `RingQueriesProofs` | theorems about the object and its calls, and about the RING queries | proofs |
| `DiscQueryNestProofs` | theorems about the walk, what it covers, and queries of several discs | proofs |
| `HearlpixNifProofs`, `SharedSegmentsProofs` | theorems about the handles and about the segments | proofs |
| `IoBuffersProofs` | theorem about the buffers of an open file | proofs |
| `PixelWalkProofs` | theorems about the conversions, rings, neighbors, the Peano curve and maps | proofs |
| `MC...` | values of the constants for TLC | instances |

**Rangeset.** A vector `<<b0, e0, b1, e1, ...>>` is a TLA+ sequence; C++'s `r[k]`
is `r[k+1]`. `iiv` is `std::upper_bound` by its contract. `addRemove` splits
into `addRemovePlan` (the positions, lines 56-62), `addRemoveInBounds` (the
assertion on line 64 and what the writes and the erase need without asserting)
and `addRemove` (the effect). `x & 1` of C++ is `x % 2` in TLA+, for -1 too.
`RangesetCalls` has one action per call; a call is legal when its bounds are in
order, as every caller's are.

**RangesetUnion, the calls with another rangeset.** `CallWith` enters `generalUnion` with
the flips of the function (lines 198 to 219), each `MergeTurn` is one turn of its loop,
`Swap` swaps the result in. `runa` and `runb` are operators since they always
equal `ia!=ea` and `ib!=eb`. `IntegerSet` changes its set when the call returns.

**DiscQueryNest.** State: the locals of `query_disc_internal` (`stk`, `stacktop`,
`pixset`, `omax`), its arguments (`disc`, `fact`) and where the call is. One step
is one turn of the `while` loop: pop, classify, and the branch of `check_pixel`
taken. The trigonometry is abstracted to what it decides. A disc is

* `touched`: the pixels of the finest order that it overlaps,
* `centres`: the pixels of the map's order whose centres it contains,
* `blind`: the pixels centred exactly opposite the disc's centre while
  `radius + dr > pi` (see section 6),
* `wide`: the radius is at least pi,
* `pinned`: no pixels, unless it stands for several discs (below).

The zone of a pixel (line 310) is then any of 0 to 3 that such a disc allows:
0 only when nothing of the pixel is touched, 3 only when all of it is touched and
all its centres are contained, and at the map's order at least 2 exactly when
the centre is contained. The safety margins `dr` make the code choose 1 or 2
more often than necessary, which the model leaves free. That the margins are
large enough (`max_pixrad` bounds the radius of every pixel of the order) is an
assumption of the model, not something it shows.

**MultidiscNest.** A query of several discs walks as a single disc does, with another
way of finding the zone of a pixel: the smallest over all discs, or what a list of
commands in postfix order leaves on a stack. So it is not a walk of its own: a query is a
disc of `DiscQueryNest` that carries its discs and commands along, and `SeveralAsOne`
says that wherever the walk is, the zones that the discs can have there leave exactly
one zone, which the single disc could have there too. The single disc is the `Region` asked
for: commands combine regions on a stack (`Regions`) as they combine zones, and
`ConsistentCommands` says that each finds its two operands and that one region is left; in
a query without commands the region is what all discs share. A disc whose radius is below the safety margin has a central
pixel, if one is centred where it is: `crlimit(o,i,2)` is then 1 and so is `crad`, so that the pixel
may be given zone 3 though only a part of it is in the disc (section 6). The central pixels of all discs
are the `pinned` pixels of the single disc, and `StrictExact` names what they add to the
answer. Discs with a radius of pi and more
are excluded, as the code's comment says ("TODO: ignore all disks with radius>=pi",
lines 451 and 516).

**RingQueries.** One step is one turn of the loop over rings. A disc says which rings it
reaches (`irmin`, `irmax`, whether a pole is inside) and, for each ring, how far east
and west of its centre it reaches, in `Turn` units to the circle; what makes pixel numbers
of that, lines 225 to 253, is exact. That the east end of an interval lies right at a pixel's
centre (`OnCentre`) is excluded: there rounding decides whether the pixel is taken. `Whole` is the half width `pi-1e-15` of a ring that
is wholly inside, and `rounds` says whether that rounds to pi on the way to a pixel
position: either happens. Which pixels `check_pixel_ring` finds to overlap is free
(`overlaps`); the trimming of an interval's ends with it is exact. The answers are compared
with the pixels whose centres lie inside (`Inside`), computed from ring positions and not by
the code's formula. `remove` and `intersect` are those of `Rangeset`.

**HearlpixNif.** Each process is in one call at a time; `call[p].step` says how
far `new_base` is, because other processes may run between its steps. Handles
are resources with a reference count: one per process whose heap or mailbox
holds a term (`terms`), one of `new_base` itself. `enif_get_int64`, sends and
garbage collection are external: they are modelled from how the NIF depends on
them. Arguments are values of the types in the -spec lines. Integers are numbers,
since three things depend on them: whether they fit in the 64 bits that `enif_get_int64` and
`enif_get_long` read, or the int of `enif_get_int` (`GetterBits`), and what the library does with them
(`Throws`). Of pixel numbers, angles and the size of an answer, `good` says whether the
library is made for them. A function that only reads the base runs in one step. Those in
`Specs` stand for all: `pix2ring` for every function of a pixel or ring, `neighbors` too,
`ang2pix` for those of a direction, `boundaries_as_vec` for the three `boundaries_as_*`, whose step may
be negative (`out.resize(4*step)` then throws), `get_ring_info` for those that
are not implemented. A pixel number which the base does not have is undefined behaviour:
the virtual machine ends or some value is returned.

**HealpixIndex, PixelWalk.** The member functions are operators on a base, the
record of what `Set` and `SetNside` computed; the tables are the tables of
`healpix_tables.cc`. Bit tables and their unrolled look-ups are modelled by what they
compute (`spread_bits`, `compress_bits`). Positions are exact where the code has
doubles: `z` is the integer `3*nside^2*z`, `phi` a fraction of quarter turns, so
`pix2loc` and `loc2pix` are integer arithmetic, and what rounding does to positions
on the very edge of a pixel is not modelled (pixel centres are half a line away from
one). The state of `PixelWalk` is a base and a pixel number; its actions are the
conversions and a step to neighbor `i`. What is checked is geometry, not that the
functions are inverse to each other: RING positions are computed by counting along
rings, NEST positions from the faces, so `ConversionsStay` compares two derivations;
`NeighborsExact` compares the face and swap tables with the corners (`corner`, from
`xyf2loc`) that pixels share.

**HealpixMap.** The caller of `PixelWalk` also holds a map. A value is the place it was
measured at, so that `MapKept` can say that it is still at its place. `SwapMove` moves one
value along a cycle and `SwapClose` ends a cycle; the cycle tables are those of the code up
to order 3. `LeadAround` says what the tables are for: the trails from the starts of an order
share no pixel, and what is on none of them has the same number in both schemes. TLC evaluates
it for the four orders, in both directions (`SwapCycles`). A degrade averages values; the average of equal values is that value, of
others the set of them, so that a wrong choice of parts cannot go unnoticed.

**IoBuffers.** The state `Fptr` is the structure of an open file: for each buffer its
record, its bytes and whether it is dirty, the order of their ages, the current one, the
sizes and positions; and the file. `disk` is the file as the driver has been given it; the driver's
`file_write` is `fwrite`, so the operating system may have less: `os.file` is what it certainly has,
and the bytes since `os.from` are in the stream, which passes them on in order, some of them
whenever it likes and all at a seek, a read or a flush (`ffflushx`, line 609). Each function of `buffers.c` is an operator from one
such state to another. A step is a call: move, put or get of bytes or groups, flush,
truncate, close and open again. In any step the program may die instead (`Returns`): another one then finds
any of the files the system may have had at some time in the call, a record at most
half written among them. `ByteFile` sees the bytes under the buffers (`Seen`), the file as the driver
was given it (`stored`) and what is left of it at least (`kept`); their records may be as old as the last flush,
never anything else, and after a flush all three agree. A file that ends within a
record is opened in `SpecTorn` only. A caller's data are marked bytes or fill: the code does not
look at bytes, so one marked write at a time (`Followed`) is followed among any number of
others.

**SharedSegments.** Each shared_ function is one step, since it holds the fcntl lock of the
entry for all it does; the smem_ functions are sequences of such steps. `proc[p].pc` says
where in one a process is. `semval` is the semaphore, `sem[p]` what process p has added to it, which is
what `SEM_UNDO` takes back when it dies; the kernel stops at zero, and `withheld` records what it
could not take, for good. `Crash` ends a process between any two steps, `shared_cleanup`
is an `exit` with the file open. `died` and `cut` only record what happened, for the
properties: how many died while they wrote this segment, and whose segment was destroyed
while they used it.

**RiceCodec.** The state is the bit buffer of either direction, the output, and the
pixels that are done; a step is a block. `buffer` and `input` are exact to the bit;
pixels keep the width of a byte or a short.

## 4. Runs

| run | bounds | what it shows |
|---|---|---|
| `rangeset_calls` | bounds 0..4, other operands of up to two ranges, 154953 states | `PositionsFit`, `QueriesAgree`, `StaysCanonical`, and that the object implements `IntegerSet` |
| `disc_query_nest` | 2 base pixels, orders 0..3, map of order 1, factors -1..4, 435402 states | stack bound, ascending output, exact and complete answers, own-subtree unwinding, termination; queries of several discs take no other walk |
| `hearlpix_nif` | 2 processes, 2 handles, 4 integers, symmetric in processes and in handles, 261917 states | exact counts, no base lost, only calls with arguments that have no meaning and are not checked abort, only known calls raise badarg |
| `pixel_walk` | orders 0..2 in both schemes, nside 2, 3, 5 in RING, 2860 states | conversions keep the pixel, `loc2pix` inverts `pix2loc`, order of RING numbers, ring tables, `ring_above`, neighbors, continuity of the Peano curve, maps that keep their values in place |
| `ring_queries` | nside 1 and 2, 32 units to a turn, 64836 states | no assertion is hit, the answers of disc, multi-disc and strip queries |
| `io_buffers` | 2 buffers of 2 bytes, files of up to 4 records, large requests of 6 bytes, 24211 states | the buffers are coherent and implement a file of bytes |
| `shared_segments` | 2 processes, 2 dead writers, a second attachment, 182796 states | exclusion, exact counts, nothing in use destroyed, every call returns |
| `rice_codec` | 10604 tiles of up to 12 pixels, 89714 states | lossless, and inside the output buffer |
| `disc_doc`, `ring_doc`, `io_doc`, `io_torn` | as above, the last with files that end within a record | the code disagrees with a comment (section 6) |

Why the bounds are enough. *Rangeset:* `addRemove` and `intersect` look at the
two boundaries around each argument; five values give vectors of up to two
separated ranges, with a gap before, between and after them, touching and empty
ones (which calls with an empty range leave behind), and every relative position
of both bounds. Against another operand they give all the orders of four boundaries against four
others in which some coincide. *NEST:* one
order above the map's order and two below it make the walk enter two levels of
subpixels and unwind out of either; two base pixels make an unwinding leave
something on the stack in another tree. Discs are empty, one or two pixels, or
runs with their ends at the first, an inner and the last child. *NIF:* two
processes suffice for one to build or use what the other forgets; an `int` of 6
bits and an `int64` of 9 bits make the narrowing of the order wrap (192 becomes
0), a step too wide for its int, and overflow (256 is refused) with small numbers; of the four
integers -1, 29, 192 and 256 each argument can be too small, right, and too large in either
way, and one is a number of pixels. `CallNew` is guarded so
that a handle is free when it allocates: `Handles` bounds the resources alive.
*Pixel walk:*
order 2 has pixels whose eight neighbors are in one face and
pixels on every kind of border and corner of the faces; its Peano indices use two
levels of the tables below the face. Nside 3 and 5 have no order, so the branches
on `order_ >= 0` take the other way. From pixel 0 every pixel
is reached, in each numbering, so the properties on the pixel held are checked for
all of them. *Ring queries:* nside 1 has polar caps and an equatorial ring only, nside 2
all kinds of rings, shifted and not; discs begin and end in each kind, contain no pole, either
or both, and their intervals cover nothing, one pixel, all but one, or all of a ring, and
wrap on either side. *Buffers:* one more record than buffers evicts; large requests are three
records (the code's `MINDIRECT` is three), so that one begins and ends within a record and
passes over a whole one; groups straddle records upwards and downwards. *Segments:* two
processes suffice for one to use what the other destroys, `MaxDied = 2` for more dead writers than
users. *Rice:* pixels of both widths with differences
of zero, small, large, and overflowing the pixel, in blocks with a shorter last one.

Deadlock is checked in every run: a finished call stutters in an action of its
own (`Returned`, `Finished`, `Stopped`), and callers of `IoBuffers`, `SharedSegments`, `RangesetCalls` and
`PixelWalk` can always make another.

Every property of a passing run has a mutant in `PROJECT.json`: a plausible bug in
the code (a dropped comparison, a missing increment, a forgotten reference, a
swapped order) that makes TLC find the property violated.

**Fairness.** `DiscQueryNest` assumes weak fairness of the loop: the call runs on one
thread and nothing in it waits. `SharedSegments` assumes strong fairness of
the calls that wait for a lock, because the kernel queues the waiters of an fcntl lock and
the lock is free again and again; and weak fairness of closing and removing, because a
program that has a file open closes it in the end, or dies. Opening, resizing and dying are
not fair. The other specifications state none, and no other run asks for liveness: nothing in a NIF, in
`buffers.c`, in a rangeset or in a RING query waits.

## 5. Proofs

All of them are for every value of the constants that satisfies the assumptions
in the modules: any number of base pixels, any orders, any set of factors, any
set of discs that satisfy `IsDisc`, any bounds and other rangesets, any processes and
handles. The assumptions state what the environment grants or what the provers cannot know:

* `PowersOf4` (`DiscQueryNest`) and the second half of `OrdersFit` (`HearlpixNif`): facts
  about `^`, of which the provers have no theory (`4^k` is a positive number,
  `4^(k+1) = 4 * 4^k`; the same of `2^(IntBits-1)`). The first half of `OrdersFit`: the
  largest order is at least the 29 of `hearlpix:new/2`'s guard and an int holds it.
* `ProcessesAssumption`, `SegmentBounds`, `ValuesAssumption`: finitely many processes
  and bounds, so that counting them means something.
* `OthersAssumption`: a rangeset that is passed to another is ordered. That is the object's
  own invariant, and a rangeset can be made only by the same calls.
* `RingAssumption`: what a disc's trigonometry decides (its rings, half widths of at most half
  a turn, whole rings around the poles it contains), and that a boundary does not
  fall on a pixel's centre or on a ring, where rounding decides.
* `SeveralAssumption`: a query of several discs has one, its commands are consistent, and the
  region it is called with is the one they ask for.
* `BufferSizes`, `RequestsAssumption`, `DataAssumption`: buffers hold at least a byte, and only
  what is longer than two records goes past them (`MINDIRECT` is three records in
  `fitsio2.h`); groups of bytes fit in a record ("ffpbytoff can't handle" larger ones,
  `putcols.c:98`). Positions and gaps are free, negative gaps included.
* `WalkAssumption` and `Powers` (`PixelWalk`): orders and sides are numbers, and the facts about
  `2^k` and `4^k` that the provers lack, as in `PowersOf4`, up to three times the largest side (a map is
  imported to a side two or three times its own).
* `SwapCycles` (`HealpixMap`): the cycle tables name each cycle once. It has no constant in it: it is a fact
  about 18 numbers of the source and permutations of up to 768 pixels, which TLC computes.

TLC evaluates all of them on the runs. Each inductive invariant was checked with TLC, as
an invariant of the instance of section 4, before it was proved.

**The walk of a NEST query** (`DiscQueryNestProofs`).
`Inv` is inductive (`Invariance`); from it follow `StackFits`, `OutputAscends` and
`CanonicalAnswer`. None of `StackBounded`, `OnlyBadFactThrows` and `AnswerCanonical`
is inductive alone: whether the next pixel is in order depends on the whole
stack. `StackInv` says that from the bottom of the stack to its top orders rise
and pixels fall, and that entry `i` has order at least `(i - NBase)/3`; this gives
the bound on the stack. `SavedInv` says that when an entry below the map's order
is on the stack, the saved position separates exactly the entries below one
pixel of the map from the rest: this is why a stale `stacktop`
is never used, and why the unwinding drops only pixels below the one output.
`OutputInv` says that the answer lies before everything that the stack can lead
to, so `append`'s assertion holds. Each action of the walk is one step of the
proof, in four parts for the four conjuncts; the lemmas `ExpandingKeeps...`,
`DroppingKeeps` and `OutputtingKeeps...` treat the three things that a
turn does to the stack. For coverage (`NothingLost`, `StrictQueryExact`,
`InclusiveQueryComplete`, the action property `Unwinds`), `StrictInv` and
`InclusiveInv` add that what is owed to the answer is in it or below an entry of the
stack; the four children of a pixel partition it (`CoveredByChild`, proved from integer
division), and an unwinding drops only parts of the pixel just output.

`SeveralDiscsAsOne` carries all of this to queries of several discs. It matches the stack of
zones, command by command, with the stack of regions: at every depth the zone is one that a
disc of the region there could have, because the larger of two zones is one of the union, and
the smaller one of the intersection; both keep the central pixels of their discs. No property of the walk is used beyond the order of the pixel it is at.

**The rangeset** (`QueryLemmas`, `RangesetCallsProofs`). `QueryLemmas` begins with lemmas about
vectors. `append` keeps a vector canonical and adds its range (`AppendCanonical`,
`AppendElements`). For `addRemove` and `intersect`, `PositionIs` says what `iiv` returns on
an ordered vector, and `MemberPosition` that an integer is in the set exactly when
its position is even. `AddRemoveShape` shows that the boundaries written and
the section erased leave one of four vectors, by whether each end falls inside a range;
`SplicedOrdered` and `SplicedElements` say of any such vector that it is ordered and what
it contains, from the parity of positions alone. So `AddElements`, `RemoveElements` and
`IntersectElements` hold for every ordered vector, empty ranges included, and
`MemberQueries` and `RangeQuery` relate the queries to the elements.

`RangesetCallsProofs` is about the object. `ObjectInv` (`ObjectInvariance`) says that
the vector is ordered, and, while `generalUnion` runs, `Merging`: each operand is inside
at a boundary of `a` or `b` exactly by the parity of its position and the flip, all
boundaries already passed lie below those to come, and the vector built so far is ordered,
ends below what may still be pushed, and is, up to the boundary reached, the union
wanted. `PositionsFit` alone is not inductive, since it says nothing of a
vector that is being merged. From the invariant follow `PositionsAlwaysFit`
(with its exception, exact by `EmptyIntersect`: `intersect` with an empty range writes outside just where
a range starts),
`QueriesAlwaysAgree`, `StaysCanonicalAlways`, and `ObjectImplementsSet`: initial states
map to initial states, a call maps to a step of `IntegerSet`, the entry into the loop and
its turns to stutters, and the swap at its end to the call that was waiting. Induction over
positions is needed in one lemma (that positions are found); the library's rule takes an
operator as a parameter, so `NatSetInduction` proves the rule for a set, from the
well-ordering that `Nat`'s least elements give, and the lemma uses that.

**The RING queries** (`QueryLemmas`, `RingQueriesProofs`). The second half of `QueryLemmas` is about the rings of a
base of any side, a power of two or not. `RingsTouch` and `RingsAscend` say that they follow each other without
a gap, `RingOfPixel` that the ring `pix2ring` computes with an integer root is
the one the pixel is in, `Lower` that they descend in z, and `RingAbove` that `ring_above` finds
the ring at or above any z. The squares in these formulas are treated in lemmas of their own
(`RootIs`, `SquaresGrow`, `CapRing`), because the provers do no algebra of degree two.

`RingQueriesProofs` is about the queries. `IntervalIs` turns the two roundings of lines 229
and 230 into inequalities on pixel centres; `IntervalBounds` bounds the
interval's ends, which is what makes one subtraction of `nr` enough to wrap it;
`IntervalReaches` says that its positions, each moved into the ring by
at most a turn, are those of the pixels nearer to the disc's longitude, around
the circle, than `dphi`. `TrimmedIs` says that the trimming stops, and drops only pixels
free of overlap. `RangesAnswer` puts them together: what is appended for a ring is in the
disc, and misses nothing that must be there. `CutIs` says that the bounds which
`query_multidisc` derives separately for the same interval give the same pixels of the ring, so
`RingLeftIs`, with the rangeset's lemmas about `remove` and `intersect`, makes its ring the
intersection. `IInv` (`QueryInvariance`) says that what has been found north of the ring that is next
is right and complete (`DiscSoFar`, `MultidiscSoFar`); an answer alone is not
inductive, since it says nothing of a query in progress, and that appends are in order
follows from what the answer so far contains. Each action is a lemma (`StartDiscKeeps`, ...);
`Kept` lists what each has to show. The theorems `CallsAlwaysLegal`, `DiscAnswered`,
`MultidiscAnswered` and `StripAnswered` follow for all sides, turns, factors and numbers of discs,
from `RingAssumption` alone: what `IsDisc` says of the trigonometry, and that no
boundary falls on the centre of a pixel (`OnCentre`) or of a ring.

**The handles** (`HearlpixNifProofs`). `Inv` is `HandleInvariance`. `RefsExact`,
a sum of two cardinalities, is preserved because a step changes which processes reach a
handle by one at most. It needs `NewInv` (a handle is built by one
process, which has no term for it until `enif_make_resource`, and what it holds depends on
the step it is at) and `RunInv` (a NIF runs on handles its process keeps, with arguments of its -spec line). Then a
handle that somebody reaches has a reference count above zero, which gives
`BasesThere` and the action property `DestructorMeetsBuilt`. `AbortsKnown`
and `BadargCallsKnown` (an action property: a call that has returned no longer shows its arguments) go through the arguments of every function of the table, and
`RingOrdersAsAsked` through the narrowing of an order to an int: the
guard admits only orders that it does not change.

**The shared segments** (`SharedSegmentsProofs`). `Inv` (`SegmentInvariance`) says what
`shared_lt` and the lock of a process are at each point it may be in (`ProcessOK`), that a
write lock is alone (`LocksOK`), and that an entry without a segment has no users and no
dead writers; and that the semaphore is the sum of what each process will have undone and of what was withheld
(`Counted`). Neither `AccessExclusive` nor `CountsExact` is inductive alone: that a
new writer is alone follows from the locks, and what the counts are after a call
from where the process was in it. `AccessIsExclusive` and
`CountsAreExact` follow, for any number of processes that may die at any step: without a segment destroyed
under its users the semaphore is the number of uses and what was withheld before, and each
process's share is its own uses. `SumChange` says what the sum is after one share changed, and each step
changes at most one (`DeltaCount`, `UndoneCount`) or clears all (`NoCount`).
`UnusedDestroyed`, the action property, compares the semaphore, a sum over the processes, with what
they use and with the dead writers: `SumUnfold` shows that the recursive function
by which the sum is defined exists, by an induction over sizes in the same set form, and
`SumBounds` that no summand exceeds it.

**The buffers of an open file** (`IoBuffersProofs`). The theorem is `Coherent`, the inductive
invariant `IInv`. `BuffersCoherent` asks that no record is in two buffers, that a buffer which
is not dirty holds what is on disk, and that sizes and position are right. That is not
inductive: what a dirty buffer leaves on disk when it is written back depends on
its place in the file. `DirtyInFile` says that dirty buffers hold records of the file, `Whole` that
a buffer with a record is full (a direct write copies into it), and `LastDirty` that if the disk
is shorter than the file the buffer of the last record is dirty: this is why flushing
closes the gap, and why the fill that `ffbfwt` writes before a record beyond the end lands only
where nothing is. `AtPlace` relates `io_pos` with the driver's position; it is
lost between a seek and the next transfer, so it is a conjunct of its own. Each
operator of the model has a lemma saying that it keeps the invariant and what it leaves
alone; the loops over buffers (write back in order of records, drop what a large request
passes over) and over groups are recursive functions, for which a lemma shows that each turn
keeps the invariant, and `NatSetInduction` carries that to the end. A crash and a reopening
lead back to an invariant with empty buffers.

**The conversions of pixel numbers** (`PixelWalkProofs`). `WalkInv` (`WalkTyped`) is inductive: the
base is one that `Set` or `SetNside` made (`IsBase`), the number held is a pixel's, and a Peano index
is held only in NEST. The other theorems are consequences, once the operators are understood.

* Bits: `spread_bits` and `compress_bits` are inverse to each other (by `NatSetInduction`), so
  `nest2xyf` and `xyf2nest` are, for every order. The two Peano tables are followed along the
  same path of digits, from the highest: at each, the state of one inverts the state of the
  other (`PeanoTables`, over all 8 x 4 entries).
* Places and RING numbers: `RingPlace` says that `xyf2ring` gives the number in the ring of the place whose
  centre is in the column of the place, and `PlaceAgain` that `ring2xyf` leads back. In the belt, lines 62 to 85 of
  `healpix_base.cc` find the face from two diagonals; `EquatorInFace` and `BeltFace` relate these with the
  columns that a face covers.
* Centres: `pix2loc` has one formula for RING and another for faces. They agree by `RingSpot`
  and `PlaceSpot`, both in terms of column and ring. `loc2pix` of a centre finds its column and
  ring again (`CapColumns`, `BeltColumns`, `LocatedNest`): a centre is half a line away from every edge, which
  is what makes the truncations exact.
* Rings: `RingAboveAlways`, `RingsFitAlways` and `RingOrderAlways` rest on the lemmas about rings in
  `QueryLemmas`; z is quadratic in the caps and linear between, and the proofs go case by case.

* Corners: `SameCorner` says which corner of one face is which of another. For each two
  faces there is a `Way` from one to the other, across an edge or through a corner, and `MeetsBy`
  says for each way which coordinates meet; it is proved from the ring and the longitude
  of a corner, around the circle, at every side. `SideTouched` then turns "shares just the corners
  on that side" into "is the place one step further" (`Beside`).
* Neighbors: `Beyond0` to `Beyond8` read the nine rows of the face table as ways, and
  `AcrossBeside` says that mirroring and swapping leads to the place beside. So `NeighborsExactAlways`
  holds for all sides, also for 1, where all neighbors of a pixel are in other faces.
* The Peano curve: `PeanoNext` follows an index and the next one from the highest digit down. They
  are together at first; where they part, they are in two squares that are `Linked`: beside
  each other across an edge, and so are the quadrant where the curve leaves the one and that where it
  enters the other. This is what being neighbors alone lacks to be kept (`LinkedDeeper`): a
  path ends in the same corner at every depth (`PeanoEnds`). `PeanoJoins` (24 entries of
  the tables) and `PeanoFaceJoins` (11 steps from face to face) say that it holds where they part.

`ConversionsStayAlways` and `LocatedBackAlways` put the first four together. All are stated of `Spec`; the run checks
them of `MapSpec`, which adds a map to the walk, and `MapWalks` shows that it only adds.

**Maps** (`PixelWalkProofs`). `MapKeptAlways` rests on `MapInv`. Between calls the array is `Values`
of the base of the map. During a swap, `Underway` says how far it is: on the m-th trail at its
j-th pixel, all pixels before (`HasMoved`) have the value of their new number, all others still their
old one, and the value of the first pixel of the trail is the one kept. `MapKept` alone is not
inductive: that a move overwrites nothing that is still needed follows from where on the trail it is.
`HalfwayMoves`: the pixel whose value is taken has not moved, for the trails share no pixel.
`HalfwayCloses`: a trail is closed at its last pixel only, and after the last trail the pixels that
have not moved are those that stay where they are, so that the array is that of the other scheme
(`ValuesSwapped`, from the theorems on conversions). The copies: `Copied` needs that each number of
the other scheme is reached from one pixel, `ThereAndBack` that the parts of a pixel
are `fact * fact` places of the finer base that all lead back to it (`PartsOfPlace`), for every side
and for the pessimistic and the optimistic mean.

What remains with TLC, and why:

* termination and every other property with `~>` or `<>` (`CallsReturn`, `Terminates`):
  liveness under fairness is out of reach of the proof system;
* `ImplementsByteFile`, the refinement of `ByteFile` by `IoBuffers`. `Coherent` is the part of it that
  concerns the buffers; that the bytes seen through them change only as asked needs a
  history of all turns of a request, over the folds by which `ByteFile` says what a request by
  groups reads and writes, and holds only for gaps that are not negative (`io_doc`);
* `Lossless` of `RiceCodec`: what it computes bit by bit is induction over data.

## 6. Where the code disagrees with its documentation

1. `disc_doc`: a strict NEST query misses pixels. `healpix_base.cc:286` uses -1 as the
   cosine that accepts everything when `radius + dr > pi`, but line 308 compares
   with `>`: a pixel centred exactly opposite the disc's centre has the cosine -1
   and is dropped with its whole subtree. Compiled and run: at order 1 with radius
   3.0 around the point opposite the centre of a base pixel, 44 pixels are
   returned, the RING query and a count over all centres give 48. `StrictExact` and
   `InclusiveComplete`, proved, say that nothing else is missed.
2. `ring_doc`: an inclusive RING query misses pixels. Where a ring is wholly inside the disc, line 221
   of `healpix_base.cc` takes `pi-1e-15` for the half width, and a pixel exactly opposite the disc's centre is left
   out unless rounding makes up for the difference, although `healpix_base.h:215` promises "all pixels
   which overlap with the disk". Compiled and run: nside 1, theta 0, phi 0, radius 0.9, fact 2 leaves out pixel 6.
   `query_multidisc` has the same line (416), in strict queries too. No other pixel is missed (`Opposite`
   in `DiscAnswer` and `MultidiscAnswer`), and strict `query_disc` of a RING base is exact.
3. `io_doc`: a read by groups (`ffgbytoff`) whose gap is negative and that steps back to the
   first byte of an earlier record reads the record after it: `buffers.c:433` computes a
   position of `IOBUFLEN`, one past the buffer. The comment on line 366 allows a negative
   gap. Compiled and run: `ffgsv` of a byte image, pixels 8641 to 1 by steps of 2880 backwards,
   returns 4 4 4 4 for 4 3 2 1.

4. `io_torn`: a read that failed succeeds when it is made again, with other bytes. `ffldrc` labels the
   buffer with the record although `ffread` failed (`buffers.c:523`), and the next read is served
   from there. A file that ends within a record is enough, as a program leaves one that dies before
   its stream is flushed. Compiled and run: of an image cut to 5860 bytes, pixels 3500 to 3509 read twice
   give status 108 the first time, and ten zeros instead of 22 the second time.
5. `rangeset_calls`, `ImplementsSet`: the comments on `subtract` and `setToDifference` (`rangeset.h:212`, 228)
   promise "the union of itself with the inverse of other"; the code leaves the difference, as the names
   say, of any two rangesets. `IntegerSet` follows the names.
6. `rangeset_calls`, `PositionsFit`: `intersect` with an empty range that begins where a range does writes
   one past the end of the vector and leaves the range there (`rangeset.h:171`), always; with any other range
   it does what line 157 says. `query_multidisc` of a RING base calls it so for a disc that contains no centre in a
   ring. Compiled with the library's assertions and run: a `query_polygon` at nside 2 stops in it.
   The usual builds survive.
7. `hearlpix_nif`, `AbortsOnlyUnchecked`: the guard of `hearlpix:new/2` bounds the order of ring bases only;
   `new(30, nest)` throws inside the NIF and ends the virtual machine, where the -spec line promises
   a base or an error.

Met on the way, without a run of their own:

* A strict NEST query of several discs returns pixels centred outside them: where a disc's radius
  is below the safety margin, `crlimit(o,i,2)` is 1 (lines 463, 528), and a pixel centred exactly where the
  disc is passes `crad<crlimit` (488, 556) as wholly inside. Compiled and run: at order 1, one
  disc of radius 0.001 at the centre of base pixel 2 returns its 4 subpixels, `query_disc` none. (A pixel
  opposite a disc is not lost in it, as in the first finding: line 488 compares with `<`.) `StrictExact`,
  proved, says that nothing else is added.
* The semaphore of a shared segment ends too high when users of a destroyed segment and of the next one
  die: the kernel does not undo below zero. Compiled and run on Linux with five processes: it stays
  at 1 with nobody attached, and `shared_recover` does not clear the entry. `CountsExact` has `withheld` for it.
* `query_disc_inclusive/5` is bound to `query_disc`, and `/6` to a
  function that handles an `argc` of 4 and 5 (`hearlpix_nif.cpp:843`): both always raise
  badarg, against the -spec lines `hearlpix.erl:114` and 118. `BadargsKnown` describes the
  calls that do; the others have an integer beyond 64 bits, or a step beyond an int. Inclusive queries cannot be made from Erlang; they are modelled all the
  same, since the C++ library offers them.
* A program that exits with a shared memory file open for writing destroys the segment under
  all others that have it open (`drvrsmem.c:102`); an opener that was waiting is then
  refused but stays attached, and when the slot is taken again its `shared_free` may wait at
  zero for ever, with the lock held. `DestroysUnused` and `CallsReturn` name the cases.
* `shared_recover` (line 258) destroys a segment that others use after more writers died
  than there are users. `shared_uncond_delete` frees without having unlocked.
* A large read in a gap that was never written fails where a small
  one returns fill.

## 7. Not modelled, and why

* Floating point: positions, angles, `max_pixrad`, conversions of latitude and
  longitude. The models take what the comparisons decide.
* `query_polygon` turns a polygon into discs by geometry and calls `query_multidisc`;
  `query_multidisc_general` of a RING base asserts that it is not implemented.
* Maps: interpolation, sums and averages of the numbers; the cycle tables above order 3.
* `get_interpol` and the points of `boundaries`: floating-point geometry. `get_ring_info2` repeats
  `get_ring_info` with an angle. Overflow of pixel numbers: order 29 is the largest whose
  `npix` fits an `int64`, far from what TLC can enumerate.
* `contains(rangeset)`, `equals`, stream output of `rangeset`: no state, no caller in the
  NIF. Passing a rangeset to itself in `setToUnion` and the like trips an assertion
  (`rangeset.h:82`).
* The stubs of the NIF (`query_polygon`, `query_strip` and their inclusive forms, `get_ring_info`,
  `get_ring_info2`, `get_ring_small`, `get_interpol`) return `{error}` and keep no state; `get_ring_info` stands
  for them. `neighbors` and `boundaries_as_*` are implemented: `neighbors` is treated as a function of a
  pixel, and the points that `boundaries_as_*` return are not computed.
* Liveness of the NIF: a call is at most five steps, none of which waits.
* cfitsio: disks and system calls that fail; a machine that goes down (what the system has been given is taken to be
  on disk: a death is that of the program); ASCII tables, whose gaps are blanks; the 4-byte
  Rice functions (numbers out of TLC's reach, the same code otherwise); a second opening of a
  shared segment in one process, which cfitsio makes only when it is for reading (`fits_already_open`), and whose
  fcntl locks, being the process's, drop those of the first; deaths within one of the
  driver's functions, and the creation and removal of its table (line 138: "there is a race
  condition here"). Headers, keywords, tables, number conversions, the expression parser,
  quantization, the other compressions and the network drivers: sequential parsing, formatting
  and numerical code that the NIF does not call.
* Memory: the destructor does not free the base (`hearlpix_nif.cpp:878`, a leak of every base on every path,
  which no order of steps changes), and `&terms[0]` of an empty vector; there is no heap in the models.
* The build scripts and `erlang:load_nif`: the models take the library as loaded.
  `ERL_NIF_INIT` names module hearlpix while the library is loaded from hearlpix_nif, and
  there is no upgrade callback (`hearlpix_nif.cpp:908`).
* Alm, power spectra, the programs, libsharp, libfftpack, alice, HEALPix's wrapper of
  FITS files: vendored numerical or I/O code that hearlpix does not call.
