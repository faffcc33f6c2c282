# Verification of RingBuffer

TLA+ models, model-checking configurations and machine-checked proofs for the
header-only library in `include/`: `ring_buffer` (`ring_buffer.h`), a
fixed-capacity FIFO that overwrites its oldest element when full, and
`ring_buffer_thread_safe` (`thread_safe_ring_buffer.h`), a mutex and two
condition variables around one.

## 1. Inventory

| Component | State | Operations | What makes it hard |
|---|---|---|---|
| `ring_buffer`, indices and storage | `buffer_`, `head_`, `tail_`, `count_`, `full_`, `just_overwrote_`, `overwrite_position_` | constructor, `push_back` (2), `emplace_back`, `pop_front`, `clear`, `front`, `back`, `operator[]`, `size`, `capacity`, `empty`, `full`, `available` | occupancy is recorded three times; an overwrite moves `head_` and leaves `tail_`; manual element lifetimes; wrap-around |
| `ring_buffer`, special members | two objects, two allocations | copy/move construction and assignment, destructor | slot-by-slot copies, moved-from objects, allocation that throws |
| `ring_buffer`, iterators and references | a pointer and an index; the size at creation of `end()`; a slot | `begin` ... `cend`, increment, dereference; what `front`, `back`, `operator[]` return | used after a modification |
| `ring_buffer`, exceptions | the members, half way | a throwing `allocate()`, a throwing operation of the element type | destroys before it constructs, deallocates before it allocates |
| `ring_buffer_thread_safe` | a `ring_buffer`, `mutex_`, `not_empty_`, `not_full_` | blocking, trying and timed insertion and removal, observers, `clear`, timed waits | lost and stolen wake-ups, spurious wake-ups, timeouts, references that outlive the lock, two functions whose bodies run unlocked |
| stream output | none | `operator<<` | none: it uses member functions that do not exist and cannot be instantiated |
| `CircularLogger` (example) | a ring buffer of records, a file, two flags | log, clear, enable, dump, filter, oldest, newest | overwrites all the time; buffer and file must agree |
| audio buffer (example) | a ring buffer of samples, the schedule | chunked write and read | overwrites, then pops, then pushes |
| producer/consumer, priority processing (example) | the wrapper, counters, a stop flag | timed transfers from several threads, a monitor | ends only if no item is lost |
| embedded example, tests, benchmarks | one buffer each | straight-line programs | none of their own |
| TypeTraits, build files | none at run time | | not code that runs |

A client calls a `ring_buffer` directly, in one thread, or calls the wrapper
from several; the wrapper calls its `ring_buffer` while it holds `mutex_`
(except in the two timed transfers) and the condition variables connect the
threads. Nothing is persisted and nothing is sent, so crashes and messages do
not occur.

What has to be right, per component:

* **ring buffer** - indices stay in the storage; the three records of
  occupancy agree; every call returns what an ideal bounded sequence returns;
  the constructed slots are exactly those of the elements; `back()` never uses
  a stale mark.
* **special members** - a copy equals its source, each allocation is freed
  once, a moved-from object is empty and destructible.
* **wrapper** - it is a linearizable bounded queue that never drops an
  element; no producer sleeps beside a free slot; timed calls end; every
  access to the buffer happens under the mutex.
* **iterators and references** - a reference is good until its element is
  removed; a loop that removes nothing visits every element once.
* **examples** - the logger keeps and shows the newest records in order, and its
  file ends with them; the audio program plays samples in order; the
  producer/consumer programs end and consume every item once.

The hazards of the code, line by line, are listed in `PROJECT.json`.

## 2. Modules

| Module | Models | Role |
|---|---|---|
| `RingBuffer` | one object of `ring_buffer` | the members as variables, every member function as an operator of the same name |
| `SlidingWindow` | what `ring_buffer` promises | abstract specification: a bounded sequence that drops its oldest value |
| `RingBufferClient` | a single-threaded caller | one action per call; `Spec` for any caller, `DisciplinedSpec` for callers that respect `tail_` |
| `RingBufferLockstep` | any caller, on the buffer and on the ideal sequence, with elements that throw | says when the two agree |
| `RingBufferHandles` | the same caller, holding a reference or an iterator | what a handle may rely on |
| `CircularLogger` | the logger and its file | a client that overwrites and clears |
| `AudioBuffer` | the audio simulation and its schedule | a client that overwrites and pops |
| `RingBufferObjects` | several objects, their storage, the special members | constructors, assignments, destructor, a throwing `allocate()`, elements that throw while they are copied |
| `BoundedChannel` | what `ring_buffer_thread_safe` promises | abstract specification: a bounded queue that never drops |
| `ThreadSafeRingBuffer` | the wrapper and its threads | lock, critical section and wait of every function that runs under the mutex |
| `TimedTransfers` | the wrapper's transfers, statement by statement | the bodies of `push_back_with_timeout` and `pop_front_with_timeout` run unlocked |
| `LockedTransfers` | the same statements, for functions that keep the mutex | shows that a critical section may be one action |
| `ProducerConsumer` | the producer/consumer and the priority program | producers, consumers, monitor and main thread on top of `TimedTransfers` |
| `RingBufferClientProofs` | | every client; of disciplined ones, element lifetimes and `SlidingWindow` |
| `RingBufferHandlesProofs` | | any client, throwing elements included, with references and iterators |
| `RingBufferObjectsProofs` | | any number of objects: ownership and value semantics |
| `ThreadSafeRingBufferProofs` | | any number of threads: invariants, `BoundedChannel`, wake-ups |
| `TimedTransfersProofs` | | the transfers, however they interleave; a body that has the buffer to itself |
| `LockedTransfersProofs` | | functions that keep the mutex, statement by statement, implement `BoundedChannel` |
| `ProducerConsumerProofs` | | the programs on the transfers: their end, every packet once |
| `CircularLoggerProofs` | | the logger |
| `MC...` | | instances for TLC |

**`RingBuffer`.** The variables are the data members, with the names of the
code. `buffer_` is a function on the slots `0 .. Capacity - 1`; a slot holds a
value or `Raw`, memory in which no object is alive. An observer is a state
function (`front`, `back`, `at(i)`, `size`, ...), a modifier an action
(`push_back(item)`, `pop_front`, `clear`, ...) built, as in the code, from the
private index functions `increment_head`, `increment_tail` and
`overwrite_advance_head`. The copying and the moving overload of a function
differ in what becomes of the caller's argument only and are one operator. A
read of a `Raw` slot is undefined in C++; the model returns `Raw` itself, a
result the properties exclude. `capacity_` is the constant `Capacity`.

**`RingBufferClient`.** Each call is an action that also records the call and
its result in `out`, a thrown exception included. `lag` is a history variable:
the overwrites since construction or `clear()`, modulo the capacity, that is,
by how much `tail_` is out of place. `DisciplinedSpec` lets the client use the
back of the buffer (`push_back`, `emplace_back`, `back`) only while the buffer
is full or `lag = 0`. The wrapper, the logger and the embedded example are such
clients. `ImplementsWindow` is refinement: under `q <- Contents` every step of
the code is a step of `SlidingWindow`, with the same call and result.

**`RingBufferLockstep`** makes every call of an arbitrary client on the buffer and
on `SlidingWindow`. `torn` and `strayed` record what undisciplined calls have
done. `ElementThrows` is a call in which an operation of the element type
throws: no member has changed by then, but the element whose storage the new one
was being constructed in is gone (`LeftBehind`): the oldest one for `emplace_back`
into a full buffer, and, in one that is not full, whatever lived at a displaced
`tail_`, for `push_back` too. `EmplaceOwn` is `emplace_back(b[i])`,
whose argument may be the element that is destroyed or constructed over. It is
assumed that assigning, copying and moving a `T` has the strong guarantee (if it
throws, both operands are as before); most standard types give it, the code does
not ask for it. It says nothing of an object that lived where the new one was
being constructed.

**`RingBufferHandles`** adds what a caller keeps between calls: one reference (a
slot, and which element it refers to) or one loop (an index, the `end()` taken
at its start, and what it has seen). The loop body may call every modifier.
This is also what remains of a reference that the wrapper returns after its
mutex is released: other threads modify the buffer under it. Handles are held
one at a time: one of them does not influence another.

**`CircularLogger`.** The six logging functions are `log`; its entry is a value
with a level. `push_back` comes before the file is written, and the file may not
open; `shown` is what the last reading function has printed or returned. The
same variables `out` and `lag` as in the client modules record the calls of the
ring buffer, so that the logger is compared with `SlidingWindow` too.

**`AudioBuffer`** is deterministic: the schedule of the program (bursts at every
fifth step, pauses at every seventh, slow and fast processing at every fourth
and third) decides every step, and a sample is the number of its generation.

**`RingBufferObjects`.** An object is the record of its data members, a block
of the heap a function from slots to contents. The special members are built
from the parts they share in the code: the copying loop (`CopiedBlock`), the
transfer (`MoveTo`, `MovedFrom`), `clear()` and `deallocate` (`Released`).
`WrongFree` is the allocator's contract: a block is freed once, with the size it
was allocated with. The history variables are the sequence each object should
hold (`ideal`), the objects whose slots a push at a displaced tail or a copy
has misplaced (`torn`), and those whose mark for `back()` was dropped or
inherited (`stale`). The copying of an element may throw after any number of
elements (`CopyThrows`): a copy construction then leaves no object and a block
that nobody owns, a copy assignment leaves the target with the source's members
and a half-copied block. Once something has thrown inside a copy, only the
destructors of the unwinding program run. `push_back`, `pop_front` and
`clear` are written again as functions of a member record, because here the
capacity is a member that assignments change.

**`ThreadSafeRingBuffer`.** A call is a `Call` step, a `Lock` step and a
critical section that ends in `Return` or in a wait; the critical section is one
action because every access to the buffer in these functions happens under
`mutex_` (that this is sound is checked in `LockedTransfers` and proved in
`LockedTransfersProofs`). `T` may throw: in an insertion (`InsertThrows`), which
then unlocks without a notification, and in a removal (`RemoveThrows`), where
`try_pop_front` may also throw after it has removed the element and notified,
when the optional is made; that element is lost, which `BoundedChannel` allows.
The history variable `thrown` counts the blocking insertions that have thrown
since one last went to sleep. `notify_one` picks any waiter, `notify_all` takes
all; a woken thread contends for the mutex again and tests its predicate again;
a waiter may wake up without a notification; the deadline of a timed wait may
pass whenever the thread waits. The module maps to `BoundedChannel` with the
same `q <- Contents`; a report carries the function, the item or index given to
it, and the result.

**`TimedTransfers`.** The `unique_lock` of the two timed transfers is scoped to
the `if` statement that waits, so that the transfer itself and the notification
run without the mutex. The module steps through `push_back`, `try_pop_front` and
the timed transfers one statement at a time; a statement that reads a member and
writes it back is two steps, with the value read in `reg`. These races are
undefined behaviour in C++; the model gives them the outcomes of an unoptimised
build (the build files offer one), in which each access to a member is a load or
a store of its own, in program order. `count_` is a `size_t`, up to `SizeMax`:
two removals that have both passed the test `count_ > 0` wrap it to `SizeMax`.
Under weaker memory more can happen, and the violations found remain possible.
The moving overload (lines 182-196) is the same function.

**`ProducerConsumer`** puts the two example programs on top of those statements:
what a thread does between its calls is one step per atomic counter or flag, the
monitor is the condition it waits for, the main thread a sequence of joins. The
five seconds before `stop_flag_` is set are untimed: they may be over at once.
The program's waits do not wake up spuriously (`timed_transfers` has spurious
wake-ups), and the monitor's `size()`, which only prints, is left out. An
exception that leaves the function of a thread ends the program. `overlapped`
records that two bodies ran at once, or that one ran between another's decision
and its body: the condition under which the wrapper promises nothing.

**`LockedTransfers`** adds two history variables to it, the elements when the
mutex was last released and the result of the last call to end, and maps them
to `BoundedChannel`.

## 3. Runs

| Run | Question | Instance |
|---|---|---|
| `any_client` | do indices, flags and counts agree for any caller, what of the interface is right for any caller, elements that throw included, and what may a reference or a loop rely on? | 2 values, capacity 3 |
| `logger` | does the logger hold, show and write the newest entries? | 3 entries of 2 levels, capacity 2, `MaxEntries` 4, `MaxFile` 4 |
| `audio` | are the samples played once and in order? No. | the program's 20 steps, `CHUNK_SIZE` 2, capacity 4 |
| `objects` | do ownership and values survive copies, moves, assignments and destructions? | 2 objects, 3 blocks, capacities 0, 1, 2 |
| `copy_equal` | does a copy have the elements of its source? No. | the same |
| `wrapper_channel` | is the wrapper a linearizable bounded queue? | 3 threads, 2 values, capacity 2, every function |
| `wrapper_live` | is a blocked insertion ever forgotten, do timed waits end? | 3 threads, 1 value, capacity 2 |
| `wrapper_stolen` | may `wait_until_not_full` absorb a producer's notification? Yes. | 3 threads, capacity 1 |
| `locked_transfers` | do the statements of a critical section add up to one step? | 2 producers, 1 consumer, 2 values, capacity 2 |
| `timed_transfers` | what can an unlocked transfer still rely on? | 2 threads calling everything, capacity 1 |
| `programs` | do the programs end with every packet consumed once? | capacity 2; 1 producer of 3 packets and 1 consumer; 1 of 1 and 2 consumers; priority: 2 producers of 1 packet and 1 consumer |
| `programs_throw` | does a timed removal never throw? It does. | capacity 2, 1 producer, 2 consumers, as in the program |

**Bounds.** Capacity 3 is the smallest at which the middle of the buffer is
neither its first nor its last slot, so that a displaced `tail_` can be told
apart from `head_` and from the end; with 2 interchangeable values an element in
a wrong slot differs from the right one in some state. What `any_client` and
`logger` check is also proved for every capacity. The logger's `MaxEntries` 4,
twice its capacity, takes `head_` once around and back, and the file of 4
entries outlives two overwrites and a `clear()`; a call that would exceed either
bound does not happen. The audio program has its own schedule and proportions (a
buffer of two chunks), with 2 samples for a chunk instead of 512. Capacities 0,
1 and 2 with 3 blocks let a rejected construction, a reassignment to a smaller
storage and a copy of a rotated buffer occur, and leave a block for each.
Capacity 2 with two producers and a consumer is the smallest instance in which
one removal wakes one of several producers, `clear()` frees several slots, and a
third insertion takes the slot meant for a woken one. With capacity 1 the stolen
notification leaves a producer asleep for good. In `TimedTransfers` racing
bodies may let `count_` grow beyond the capacity; `MaxCount` is the value above
which no further call starts (calls under way go on); together with the two
bounds of the logger and with `thrown`, which is counted up to the capacity
(more exceptions excuse no more slots), that is every bound on a counter in the
project: `lag` is kept modulo the capacity and all else is finite. `SizeMax` is
7, as for a `size_t` of 3 bits, so that a wrapped `count_` is above `MaxCount`
and out of reach of any other race. The crews of `programs` are the smallest in
which a producer fills the buffer and times out or waits, in which two consumers
race for one packet, and in which two producers race with a consumer that
counts; the program itself has 3 producers and 2 consumers. `timed_transfers`
has capacity 1 because at capacity 2 the statement-level interleavings no longer
finish in minutes; there every index is 0, so that what it says of indices is
that they never leave the storage when two threads advance them at once.
Deadlock is not checked there, since `MaxCount` and unlocked transfers that lose
an element stop all threads, nor in `objects` and `copy_equal`, where a program
that is unwound ends, nor in `audio`, `programs` and `programs_throw`, whose
programs end.

**Violations** are disagreements between the code and its comments or README,
listed under `findings`:

* `audio`: `overwrite_advance_head` (line 696) moves `head_` and not `tail_`.
  While the buffer stays full `tail_` is not used; once an element is popped,
  the next `push_back` constructs at a `tail_` that lies inside the elements.
  The audio program does exactly this and plays samples twice and out of order
  from step 6 on. `any_client` says what remains true all the same, and when
  `clear()` repairs it; the element that was constructed over is leaked.
* `copy_equal`: the copying loops take slots `0 .. count_ - 1`, which are the
  slots of the elements only if these start at slot 0 or fill the storage.
  `ValuesFollow` says that this, a push at a displaced `tail_` and an element
  that throws are the only ways to lose a value.
* `wrapper_stolen`: `wait_until_not_full` shares a condition variable with the
  producers and uses up a `notify_one`.
* `programs_throw`: two consumers of the producer/consumer program see the same
  packet, one removes it, the exception of the other ends the program.

More are stated as conditions of properties that hold: an allocation that throws
in a copy assignment makes the destructor free a block a second time (the
condition of `FreedRight`), and `back()` reads a wrong slot, or one outside the
storage, after an object that was just overwritten is copied, moved or moved
into (the condition of `BackFollows`); and an element that throws in a copy
construction leaves a block that nobody frees (the condition of `StorageOwned`);
an insertion that is woken and then throws has used up a notification, so that
another may sleep beside a free slot (with capacity 1: two producers blocked, a
removal wakes one, its copy throws, the other sleeps on; `NoLostWakeup` and
`FreeSlotIsUsed` except one slot for each such exception); and of two
overlapping removals both may take one packet, so that the counters of the
producer/consumer program agree, or even exceed what was produced, with a packet
lost (`FinishedMeansConsumed` says what a finished program has done, and that
without overlaps it has received every packet once).

**Fairness.** A thread that owns the mutex, or that runs a body without it, goes
on (weak fairness of `Critical` and of `Proceed`): no function blocks or loops
there. Locking and the passing of a deadline are strongly fair: every owner
releases the mutex again, so a waiting thread finds it free again and again, and
the liveness runs assume, as programs on a fair scheduler do, that it gets it
some time (`std::mutex` itself promises no order); a timed wait keeps its
absolute deadline across spurious wake-ups. No fairness is put on calls, on
spurious wake-ups or on which waiter `notify_one` picks. In `ProducerConsumer`
the same holds of the program: a thread that can run on does, or its deadline
passes (`Program` and `Expire` together are weakly fair, since a thread that
waits can only do the latter), `Acquire` is strongly fair as above, and the
monitor and the main thread go on when what they wait for has happened. Nothing
makes the five seconds long enough for the consumers, so `EndsUnlessOverlapped`
excepts the runs in which the flag is set while packets are in the buffer: the
monitor then waits for packets that nobody will take, and the program hangs.

## 4. Proofs

All for every capacity (`CapacityAssumption`: at least 1, the constructor
rejects 0) and every set of values that lacks the mark of a dead slot
(`RawAssumption`); with threads, for every finite set of them
(`ThreadAssumption`, `TransferAssumption`); with several objects, for any sets of
objects, blocks and capacities (`CapacitiesAssumption`), 0 and infinitely many
included, as long as the markers of an absent object, a null pointer and a free
block are nothing else (`MarkersAssumption`).

`RingBufferClientProofs`, for every client: `SpecTypeOK` (members and results
stay in their ranges), `SpecFullFlagExact`, `SpecTailLag`, `SpecOverwriteMark`.
The inductive invariant is `IndexInv`: the types, together with `FullFlagExact`,
`TailLag` and `OverwriteMark`. Types alone are not inductive: that `count_`
stays within the capacity when `full_` is false needs `FullFlagExact`, and an
overwrite re-establishes `TailLag` only because `count_` is then the capacity.
There is one lemma per modifier (`IndexInvInsert`, `IndexInvPop`,
`IndexInvClear`), one for the calls that change no member, and lemmas on
arithmetic modulo the capacity (`Step`, `StepInSum`, `SuccMod`).

The same module, for disciplined clients: `DisciplinedLiveExactly`, the
constructed slots are exactly those of the elements. The slots of `n` elements
from slot `h` are `SlotsOf(h, n)`; `Distance` inverts the index arithmetic
(`DistanceInverse`), which turns "the window grows at the end, shrinks at the
front, or covers the storage" (`LongerWindow`, `ShorterWindow`, `FullWindow`)
into arithmetic. The inductive invariant `DisciplineInv` adds to `IndexInv` and
`LiveExactly` that a full buffer that was not just overwritten has its tail in
place: without it nothing relates `tail_` to the elements when `full_` is set.

And, again for disciplined clients, `DisciplinedRefinesWindow`: the ring buffer
implements `SlidingWindow`. What a write or a move of the front does to the
sequence of elements is proved on plain functions (`ElementsAppend`,
`ElementsTail`, `ElementsOverwrite`), then there is one lemma per call
(`EnqueueStep`, `PopStep`, `ClearStep`, `BackStep`, `FrontStep`, `AtStep`,
`SizeStep`) that maps it to the abstract call of the same name. `BackSlotNewest`
is where the mark of `back()` matters.

`RingBufferHandlesProofs`, for every client, throwing elements and arguments
that refer into the buffer included: `LockstepInv` is inductive. It has three
layers. `IndexInv`, the agreement of `count_` with the length of the ideal
sequence and of the kinds of results hold always; that the elements are the
ideal ones holds while not `torn`; `DisciplineInv` and equal results hold while
not `strayed`. The layers are needed together: a pop from a torn buffer still has
to keep the sizes, and a push keeps the elements only if `DisciplineInv` puts
`tail_` in place. The lemmas of the modules above are stated for one step
from states of `IndexInv` or `DisciplineInv` and for any cell, a dead one
included, so that they serve here too.

On top of that, `HandlesAreLockstep`: taking and using a handle is a
stuttering step, hence all of the above holds with handles around; together with
`HandlesReferencesHold` and `HandlesLoopsComplete` all nine properties of the run
`any_client` are theorems. A reference is good because its slot is that of its
element in every reachable state (`RefInv`: the slot is `head_` plus its rank,
which a removal decreases as it advances `head_`). A loop sees every element
because, as long as nothing is removed, the elements of `begin()` are a prefix
of the elements now (`LoopInv`).

`CircularLoggerProofs`, for every capacity, set of entries, levels and bounds:
all five properties of the run `logger`. `LoggerIsDisciplined` shows that the
logger is one of the disciplined clients, because a buffer that is never popped
has `tail_` in place or is full: `LoggerInv` says so, and
`LoggerLiveExactly` and `LoggerImplementsWindow` follow. `EntriesInv` states
`KeepsNewest` together with the agreement of the file with the entries
accepted; the lemmas `LastAppend` and those around it say what an append does to
the last elements of a sequence.

`RingBufferObjectsProofs`: all five properties of the run `objects`. The inductive
invariant `ObjectsInv` says of each object that its members agree (`Shape`), that
it owns a block of its capacity (`Owns`), that its elements are those it should
have unless it is torn (`Holds`) and that the mark of `back()` points at the
newest one or `tail_` is behind it (`MarkRight`); and of all of them that no two
have the same pointer and no block is lost. These need each other: a write or a
free concerns one object only because nobody shares its block (`OthersStayGood`),
a new block is nobody's because owned blocks are allocated (`FreeUnowned`), and a
copy has the elements of its source because `Shape` bounds the slots it reads.
Unshared pointers hold even after an allocation has thrown inside a copy
assignment, ownership does not: that object keeps a pointer to a freed block.
Four lemmas carry the steps: `InPlaceStep` (modifiers), `InstallStep` (an object
gets a new block), `MoveToStep`, and `ReleaseStep` (a block is freed).

`ThreadSafeRingBufferProofs`: `WrapperTypeOK`, `WrapperImplementsChannel` and
`WrapperNoLostWakeup`. The wrapper never overwrites, so it is a disciplined
client with `lag` 0: the lemmas of `RingBufferClientProofs` are used under `lag
<- 0`. `WrapperInv` adds to `DisciplineInv` what the threads are at
(`ControlInv`): who is in a wait set has released the mutex and waits in the
call whose wait set that is, and at most the owner of the mutex is in a body.
That one `notify_one` per removal is enough unless `T` throws (`NoLostWakeup`:
the free slots are at most as many as the insertions under way and those that
have thrown since one last went to sleep; a producer goes to sleep only in a
full buffer, in which no slot is left to account for) is proved under
`NobodyAwaitsRoom`, which is what its statement needs and no more: no thread
calls `wait_until_not_full`. The run `wrapper_stolen` shows that it fails
otherwise. Under the same condition, and while no insertion has thrown since one
last went to sleep, `WrapperWaitsOnlyForSpace` proves the comment on `push_back`
that that run refutes. An insertion that throws constructs into a dead slot
(`NothingLeftBehind`), so that it leaves the elements alone.

`TimedTransfersProofs`: `TransfersTypeOK`, the types of the unlocked bodies,
which are inductive by themselves, since every index that is written back was
reduced modulo the capacity in the same statement. The rest of the module is
what both of the next two need: what a body does that has the buffer to itself.
Between two statements the members contradict each other (an element is
constructed and not yet counted, `tail_` has moved and `full_` has not), so that
no formula over the members alone is inductive. `Front`, `Behind` and `Held` say
for each label what `head_`, `tail_` and `count_` are going to be once the body
is done; seen through them the buffer is `Sound` at every label, and its
elements (`Queue`) change at one statement only, where the element is
constructed or destroyed. `InPlace` says that what the call's test has found
and what `reg` has read still hold. `BodySteps` is the one lemma for all
statements; `EnterStep` and `OutsideStep` are for the beginning of a body and
for steps outside it.

`LockedTransfersProofs`: `LockedTransfersImplementChannel`, for every run in
which no thread calls a timed transfer (`NobodyTimed`: the bodies of timed
transfers overlap, and what comes of that the run `programs_throw` shows). The
inductive invariant `LockedInv`: a thread past `lock` owns the mutex
(`OwnerInv`), hence at most one is in a body and has the buffer to itself, and
nobody is in one otherwise (`BufferInv`); and the elements now are those of the
last time the mutex was free, with what the running call has made of them
(`HistoryInv`). The step by which a call ends is then the step of
`BoundedChannel`, and every other statement stutters. This justifies that
`ThreadSafeRingBuffer` takes a critical section as one action.

`ProducerConsumerProofs`, for any crew. `ProgramInv` says where each loop may be
given what it has counted, and relates the counters of the program to the
packets stored (`CountInv`): `total_produced_` is the number of packets stored,
less those whose producer has not counted them yet. Both are cardinalities of
sets, so no sum over threads is needed. Nothing in it depends on what the racing
bodies do to the buffer.

`ProgramsExactlyOnceUnlessOverlapped` does depend on it, and is proved from an
invariant of single statements, `ExactlyOnceInv`. As long as not `overlapped`, at
most one thread is in a body and has the buffer to itself (`SoloInv`; a thread
that has decided and not begun is the reason why `overlapped` also counts a body
between another's decision and its body), and a call in progress carries the
packet its thread is at (`CallInv`). `OnceInv` then accounts for every packet:
those stored, with the one being stored, are those taken, those in the buffer
and those a consumer carries. The property itself speaks of settled states and
is not inductive; that no packet is in two of these places follows because the
numbers are equal too, a set that is the union of others and has as many
members as they have together being their disjoint union.
`ProgramsFinishedMeansConsumed` joins the two: `total_consumed_` is the number of
packets received, less those whose consumer has not counted them yet
(`ReceivedInv`), and when everybody is joined nothing is under way, so that
without an overlap as many packets received as there were to store leave none in
the buffer.

Model-checked only: `FreeSlotIsUsed`, `TimedWaitReturns`, `TimedTransferReturns`,
`EndsUnlessOverlapped` and `ConsumersStop`. They rest on fairness, and liveness
under fairness is beyond the prover. Every other property of a passing run is a
theorem. The runs that expect a violation need no proof: TLC's counterexample is
one.

## 5. Plan

In this order:

1. *(done)* ring buffer, its clients, the wrapper's locked operations; proofs of
   the index invariant, of lifetimes and of the refinement.
2. *(done)* the timed transfers, statement by statement.
3. *(done)* the special members and their storage.
4. *(done)* references and iterators kept across modifications; elements that
   throw in modifiers and copies.
5. *(done)* the clients: `CircularLogger`, the audio simulation, the
   producer/consumer and the priority program. *(done)* proofs of any client
   against the ideal sequence, of handles, of the logger.
6. *(done)* proofs of the wrapper for any number of threads, of the types of the
   transfers for any capacity and any largest `size_t`, of the programs' end, and
   of ownership and value semantics for any objects.
7. *(done)* proofs of single statements: a body that has the buffer to itself,
   `ImplementsChannel` of `LockedTransfers` and `ExactlyOnceUnlessOverlapped`.

## 6. Not modelled

The stream output (cannot be instantiated), benchmarks and the embedded example
(straight-line; its overwrites and pops are a behaviour of `DisciplinedSpec`),
`demonstrate_audio_analysis` (pushes and one traversal, as the logger does), the
texts, colours, statistics and random numbers of the examples, TypeTraits and
the build files (nothing runs). Elements that throw in the timed transfers, and
hence in the two programs and in `LockedTransfers`, or in the modifiers of
`RingBufferObjects`; the item that `pop_front` returns is a local that is not
copied (the compiler elides it). An element type whose assignment does not have
the strong guarantee; what destroying a slot that was never constructed does,
after a copy assignment has thrown: both depend on the type. Overflow of
`size_t` cannot occur in the ring buffer: every index is below the capacity, and
`head_ + i` is below twice the capacity, which memory bounds far below the
width; the `count_` of racing transfers does wrap, and is modelled with its
width. The special members that propagate an allocator change no state that is
modelled: the standard allocator has none.
