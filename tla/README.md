# A TLA+ model of the Dart embedding example

The repository shows how to embed the Dart VM in a C++ program on Windows. It
has one program of its own, `src/EmbeddedDart/EmbeddedDart.cpp`, and the
headers of the Dart standalone embedder it is linked with (`src/dart/`). Most
of those headers declare what a prebuilt library defines; some hold templates,
inline functions and macros with real algorithms. This directory models the
program and those algorithms, checks them with TLC on small instances, and
proves with TLAPS, for every value of the constants, all of what was checked but
what needs fairness.

## Inventory

| Component | State | Operations | Interacts with |
|---|---|---|---|
| **Embedder** (`EmbeddedDart.cpp`) | the current isolate of each thread, its open API scopes, `IsolateData`, `IsolateGroupData` and its kernel buffer, the progress of `main` | `main`, `CreateIsolateGroupAndSetup` (`CreateIsolate`, `CreateAndSetupKernelIsolate`, `CreateServiceIsolate`), `OnIsolateInitialize`, `OnIsolateShutdown`, `DeleteIsolateData`, `DeleteIsolateGroupData` | calls the VM, is called back by it on the threads of its pool, also from inside its own calls of `Dart_ShutdownIsolate` |
| **IsolateGroupData, IsolateData** (`isolate_data.h`) | script URI, kernel buffer and who owns it, package files, loading units | `SetKernelBuffer...`, `kernel_buffer`, the setters of names, the destructors | made and deleted by the embedder; a kernel buffer is shared between groups and isolates that start |
| **TimeoutQueue / PriorityQueue** (`eventhandler.h`, `priority_queue.h`) | a heap in an array that grows and shrinks, a hash map from value to offset | insert, change the priority, remove the minimum or a value | driven by the event handler's loop, for timers of Dart isolates |
| **DescriptorInfoMultipleMixin / CircularLinkedList** (`eventhandler.h`) | the ports of a listening socket, the tokens of each, the ring of active readers | `SetPortAndMask`, `RemovePort`, `RemoveAllPorts`, `NextNotifyDartPort`, `NotifyAllDartPorts`, `ReturnTokens` | several isolates send commands and get events |
| **DescriptorInfoSingleMixin** (`eventhandler.h`) | port, mask, tokens | the same, for one port | one isolate |
| **Reference counting** (`reference_counting.h`) | an atomic count per object | `Retain`, `Release`, `RefCntReleaseScope`, `RetainedPointer` | sockets and files shared by Dart threads, IO service and event handler |
| **Event messages** (`eventhandler.h`, `eventhandler_win.h`) | the bits of a message; the layout of an `OverlappedBuffer` | `IS_COMMAND`, `IS_EVENT`, `TOKEN_COUNT`; the constructor, `GetWASBUF` | the event handler, the operating system |
| **Atomics** (`atomic.h`) | the value of an atomic, what each thread has seen | load, store, exchange and read-and-update, each with its default order | reference counts and what threads publish to each other |
| **Growable arrays** (`growable_array.h`) | length, capacity, data | add, insert, remove, resize, move, steal, `SetLength` | every client |
| **Arithmetic** (`platform/utils.h`, `globals.h`) | none | rounding, bit widths, overflow tests, wrapping, shifts, rotations, conversion of doubles | every client |
| **Options, objects, strings** (`dartutils.h`, `bin/utils.h`, `utils_win.h`, `dfe.h`, `platform.h`) | an argument array; a `Dart_CObject` and its wrappers; owned C strings; the executable's name | `CommandLineOptions`, `CObject...`, `OSError`, the string scopes, `set_frontend_filename`, `GetResolvedExecutableName` | native functions of Dart's io library |
| **Assertions, configuration** (`assert.h`, `globals.h`, `vm/globals.h`) | the macros that are defined | `ASSERT`, `EXPECT...`; detection of host and target | every file |
| **Windows event loop, threads, VM service, builtins, gzip, hash map** | in the library | declared only | |

What makes each hard, and what makes it correct:

* *Embedder.* The VM calls it on several threads, and every call it makes can
  fail. Isolates of a group end in any order. Correct means: a thread leaves an
  isolate before another enters it; the data of a group lives as long as its
  isolates and goes once; each scope is closed before an isolate is given up or
  handed on; what a callback answers is what happened; the program ends and leaves nothing behind.
* *Timeout queue.* Two structures that name each other's entries, changed by
  every swap. Correct means: they agree, the earliest timeout is next, no
  timeout is lost.
* *Shared descriptors.* Which ports are in the ring depends on two things that
  change independently (reading, tokens), in six operations. Correct means: the
  ring is exact, tokens are conserved, turns are fair.
* *Reference counting and atomics.* Threads race for the last reference. Correct
  means: the count is the number of references, the last one deletes, nobody
  else does, and the one that deletes has seen all that was done to the object.
* *Ownership.* Blocks, strings and kernel buffers are handed from owner to owner
  by calls in any order. Correct means: one owner each, freed once, lost only
  where the code is known to lose them.
* *Arithmetic, configuration, messages, objects.* Pure functions whose
  boundaries matter: the least integer, a shift by the width, a message that is
  both command and event. Correct means: exact for every input.

The hazards, each at its line, are in `PROJECT.json` with the properties that
cover them.

## Modules

| Module | Models | Kind |
|---|---|---|
| `Embedder` | `EmbeddedDart.cpp` and the environment it relies on | component |
| `EmbedderMC` | | sets of failing calls and the symmetry for TLC |
| `Embedder_proofs` | | theorems about `Embedder` |
| `PriorityQueue` | `priority_queue.h`, as operators on a record | data structure |
| `TimeoutQueue` | `eventhandler.h:60-95`, using `PriorityQueue` | component |
| `Timeouts` | what a client of the queue is promised | abstract specification |
| `TimeoutQueueMC` | | run of `TimeoutQueue` that shows its finding |
| `TimeoutQueue_proofs` | | theorems about `TimeoutQueue` |
| `CircularLinkedList` | `eventhandler.h:109-210`, as operators on a sequence | data structure |
| `DescriptorInfoMultiple` | `eventhandler.h:348-579`, using the list | component |
| `DescriptorInfo_proofs` | | theorems about it and lemmas about the list |
| `DescriptorInfoSingle` | `eventhandler.h:259-346` | component |
| `DescriptorInfoSingle_proofs` | | theorems about it |
| `EventHandlerMC` | | run of `TimeoutQueue` and `DescriptorInfoSingle`, each by itself |
| `Descriptor` | `DescriptorInfoBase`, `eventhandler.h:212-256` | abstract specification |
| `ReferenceCounting` | `reference_counting.h` | component |
| `SharedObjects` | what a user of reference counting is promised | abstract specification |
| `ReferenceCounting_proofs` | | theorems about it |
| `MemoryOrder` | the memory orders of `reference_counting.h` and `atomic.h` | component |
| `IsolateGroupData` | the kernel buffers of `isolate_data.h` | component |
| `Binary` | powers of two, shifts and bits (`platform/utils.h:389-400`) | operators |
| `Binary_proofs` | | induction over the naturals, the functions that a loop defines, and the arithmetic of powers of two, quotients and bits |
| `Utils` | arithmetic of `platform/utils.h` | operators and their reference definitions |
| `GrowableArray` | `growable_array.h` | component |
| `GrowableArray_proofs` | | theorems about it |
| `OwnedStrings` | strings owned by fields: `bin/utils.h`, `utils_win.h`, `dfe.h`, `isolate_data.h` | component |
| `CommandLineOptions` | `dartutils.h:41-98` | component |
| `CObject` | the wrappers of `dartutils.h` over `dart_native_api.h` | operators |
| `MessageFlags` | `eventhandler.h:22-57` | operators |
| `OverlappedBuffer` | layout in `eventhandler_win.h:34-135` | component |
| `Platform` | `platform.h:85-94` | component |
| `BuildConfiguration` | `platform/globals.h` | operators on sets of macros |
| `Assertions` | `platform/assert.h` | component |
| `LibraryMC` | | run of the last nine components and of `MemoryOrder`, `IsolateGroupData`, `Utils` |
| `Library_proofs` | | theorems about the modules of that run but `GrowableArray`, and about the run's own specification |

Operators named `X_Y` with a comment that begins with MUTANT are wrong versions
of the definition `X` that follows them, at least one for each property. No
specification uses them. They show that the property notices such a bug.

### Embedder

`pc[t]` says where thread `t` is; its labels are the points at which another
thread can make a difference: where an isolate is entered or left, where it is
made runnable, where data is made or deleted, and where a callback returns.
Between two labels the code only touches its own locals or an isolate it is
alone in. `frame[t]` holds the locals: the isolate, its group, what the
callback will answer, and where a shutdown goes on. A group is called by the
name of its first isolate.

| Code | Actions |
|---|---|
| `main` | `MainPlatform`, `MainInitialize`, then `CreateIsolate`'s, `MainCreateFailed` or `MainRun`, `MainLoopEnds`, the shutdown's, `MainCleanup`, `MainEnds` |
| `CreateIsolate` | `ReadScript`, `CreateFromKernel`, `CompileAndReadScript`, `LoadScript`, `MakeRunnable` and the `...Fails` of each early return |
| `CreateAndSetupKernelIsolate` | `KernelCreate`, `KernelCreateFails`, `KernelSetup`, `KernelRunnable` |
| `CreateServiceIsolate` | `ServiceCreate`, `CreateFromKernelFails`, `ServiceSetup`, `ServiceAssertFails` |
| `CreateIsolateGroupAndSetup` | dispatch in `VMBoot`/`VMSpawnUri`, and its own action for `return nullptr` |
| `OnIsolateInitialize` | `InitializeStart`, `InitializeFails`, `ResolveFails`, `InitializeLeave`, `InitializeRunnable` |
| `Dart_ShutdownIsolate` and the three callbacks in it | `OnIsolateShutdown`, `DeleteIsolateData`, `DeleteIsolateGroupData` |

The VM is not in the repository. The actions `VM...` are the least the embedder
relies on, taken from how it uses `dart_api.h`: a pool thread that is in no
isolate picks up work; system isolates are asked for while `main` goes on; an
isolate that was handed over and made runnable is run by at most one thread at a
time, and one that was not made runnable cannot start (`dart_api.h:1285-1289`);
isolates may be spawned in a group (`Isolate.spawn`) or in a new one
(`Isolate.spawnUri`, constant `SpawnUri`); the last isolate of a group takes
the group with it; `Dart_Cleanup` starts nothing new and waits for the isolates
that run, not for one that never could. `Failing` is the set of calls that may
return an error and `Debug` says whether `assert` is compiled in: where it is
not, the code goes on as it is written.

What happens to an isolate whose `OnIsolateInitialize` returned false is said in
two ways by one comment of `dart_api.h`: the callback has to make sure that it
was shut down (690-691), and the VM will terminate it (703-704). The code relies
on the second (`EmbeddedDart.cpp:419`, `424`). The constant `VMTerminates` says
whether the VM does so for sure. `embedder_faults` and the theorems about memory,
scopes and exclusion hold either way; that nothing leaks and that `main` returns
is claimed only where it does, and that the first sentence is broken is finding 4.

### TimeoutQueue

`UpdateTimeout`, `CancelTimeout` (a negative timeout) and `RemoveCurrent` are
each a single step: one thread, the event handler's, owns the queue. The heap,
the map and the capacity of the array are kept apart so that they can disagree.
`Timeouts` is the promise: a function from port to due time of which the least
is removed. Without cancellation `TimeoutQueue` is checked to implement it, with
the map as the witness of which ports are in it; with cancellation it does not
(see Findings), and the weaker `EachPortItsOwn` is checked.

### DescriptorInfoMultiple

`known`, `reading` and `tokens` are the `PortEntry`s of `tokens_map_`, `active`
is the ring from its head, and `notifying` is the rest of the loop of
`NotifyAllDartPorts`, which is a step per port because the ring is changed
inside it. `owed` is the other end: the events an isolate has been sent and not
answered for. Only as many tokens come back as events went out, and close is the
last command of a port. Both settings of `disable_tokens_` are explored.

### DescriptorInfoSingle and Descriptor

The same for one port: `mask` is a set of events, `Mask` is empty when the
tokens are used up. Nothing happens to the descriptor before its port is set and
the event handler notifies only of what `Mask()` asks for, as the interface's
comments say.

`Descriptor` is that interface as one sees it from the event handler: each port
with its mask and its tokens, independent of the others. Both mixins are shown
to implement it. In the one with many ports a broadcast is a loop; it takes
effect for `Descriptor` when it begins, so the mapping shows a port the loop has
yet to reach (`notifying`) with its token already spent. Tokens of a removed
port, which the mixin for one port keeps, are not part of the interface.

### ReferenceCounting

A handle is a reference somebody has to give back, in the hands of a thread or
on the way to another thread. The decrement and the delete of `Release` are two
steps, so are the release and the retain of `RetainedPointer::set`.

`SharedObjects` is the same without a count and without threads: each object with
the set of handles through which it is reached. Only an object that somebody has
is handed on, and it is deleted, once, when nobody has it. `RetainedPointer::set`
is two of its steps, to let go and to share; a hand-over to another thread is none.

### MemoryOrder

The same count, seen as C++ sees it. `view[t]` is the set of accesses to the
object that happened before what thread `t` does next. A read-and-update or a
load that acquires adds what the value it reads carries; one that releases, or a
store, leaves its own view with the value, and a relaxed update passes on what
was there (a release sequence). `Drop` takes its order as a parameter, the one
of `Release` is `acq_rel`. References change hands only through an atomic
(`Offer`, `Take`, `Publish`, `Look`) with the default orders of `AcqRelAtomic`.
That protocol is the model's own, for nothing under `src/` hands references over
so; `HoldersKnowObject` says what the default orders give a client of that kind.
A load returns the latest value, so this module says what is ordered, not which
old value could be read.

### IsolateGroupData and OwnedStrings

`kernel` is the `shared_ptr` of each group and of each isolate that has copied
one while it starts, `uses` and `deleter` are its control block. A group takes a
buffer unowned, newly owned or already owned; the actions that set it stand
under the condition that nothing is set yet, as the code asserts. A buffer is not
NULL here and is given to one group without a `shared_ptr` (see Not modelled).

A field of `OwnedStrings` is a `char*` some class owns. Each setter is the step
it is in its header, including the order of free and copy and the case of NULL.

### The other headers

`Utils` works on words of `Width` bits. Integers are TLA+ integers within `Ints`,
and the operators on unsigned words go through `ToUnsigned` and `ToSigned` as the
casts do. Where C++ leaves the result undefined an operator gives the set of
all answers and the properties claim nothing: the negation of the least integer
(`IsAbsoluteUint`, 197) and a rotation by the width (320, 329). A double is an integer of at most `Precision` significant bits, or
`NaN`: that keeps what matters for the conversion, that the largest integer has
no double of its own.

`GrowableArray` has an algorithm layer (records with length, capacity and cells,
each loop as so many rounds of its body) and a layer of owners: which array has which
block, what has been stolen, what has been freed. `ActsOnSequence` compares each
call with an operation on sequences.

`BuildConfiguration` follows the preprocessor: each `Define...` maps the set of
defined macros to a larger one, or to an error, in the order of `globals.h`.

The rest are small: what a wrapper of an object asserts and reads
(`CObject`), who may still write to the arguments (`CommandLineOptions`), where
the parts of a buffer lie (`OverlappedBuffer`), two threads that resolve the
executable's name at once (`Platform`), which failure ends what (`Assertions`).

## Runs

| Run | Instance | Shows |
|---|---|---|
| `embedder_faults` | main and 3 pool threads, 4 isolates, every call may fail, `spawnUri`, no asserts, the VM need not end what it was refused | types, lifetime of group data and kernel buffers, no double delete, no shared isolate |
| `embedder_ends` | main and 2 pool threads, 3 isolates, the failures the code recovers from, fair, the VM ends what it was refused | scopes are closed before an isolate is answered, given up or shut down; nothing leaks; `main` returns |
| `embedder_spawn_uri` | no failure | finding: a runnable isolate is answered with NULL |
| `embedder_load` | the script does not load | finding: NULL is answered and the isolate is alive |
| `embedder_refusal` | `SetupCoreLibraries` may fail | finding: false is answered and the isolate was not shut down |
| `embedder_success` | the kernel isolate's set-up may fail | finding: an isolate that is not runnable is answered as created |
| `event_handler` | one of: 6 ports, 3 times, cancellation; 1 port, 2 events, 4 tokens | map and array agree, the array fits, each operation changes its own port's timeout only, and until a timeout is cancelled timeouts are taken in the order they are due; conserved tokens, the mask while muted and after removal, implements `Descriptor` |
| `timeouts_minimum` | 7 ports, 2 times, cancellation | finding: the current timeout need not be the first one due |
| `descriptor_shared` | 3 ports, 2 tokens each, fair | exact ring, conserved tokens, ordered turns, no starvation; implements `Descriptor` |
| `references` | 2 threads, 2 objects, 4 handles, fair | exact counts, no dangling reference, and a delete in the end; implements `SharedObjects` |
| `library` | each of the twelve header modules by itself, see Bounds | arithmetic is exact (`BoundsAreExact`, `WrapsOnce`, `WordsAreExact`, `DoublesAreExact`), so are configuration, messages, objects and buffers; blocks, strings and kernel buffers have one owner, are freed once and are lost only by two known calls; the thread that deletes has seen every access |
| `utils_double` | words of 4 bits, doubles of 2 | finding: a double outside the range of `T` is cast to it |

### Bounds

* *Embedder.* An isolate is used once. Four isolates are the main one, the
  kernel's and the service's, and one more to spawn in any of their groups or in
  a group of its own; three pool threads let all of those be in callbacks at
  once. `Room` keeps a name for each system isolate still to boot. The run with
  fairness has one isolate less, so that it can be explored with its liveness
  property: there the spawned isolate and a system isolate share what is left.
  Its `Failing` (`HandledCalls`) leaves out three calls: two return with the scope
  open (`Dart_LoadScriptFromKernel`, `EmbeddedDart.cpp:330`, and `ResolveScript`,
  402), and with the third (`Dart_IsolateMakeRunnable` at 217) an isolate that can
  never run is handed over and its data stays. A service isolate that cannot be
  set up (246) ends the process by an assert there.
* *Event handler.* `EventHandlerMC` puts two parts in one run: an initial state
  chooses one, and only that one moves.
* *Timeouts.* The heap needs six entries before a removal by value can break its
  order and seven before the minimum is wrong. With `kMinimumSize` 2 instead of
  16 the array grows and shrinks at 2, 4 and 8. Ports are
  only told apart, so they are symmetric. The history variable `cancelled` says
  whether a timeout has been cancelled yet: until then the abstract
  specification is the strict one.
* *Descriptors.* Three ports have an order that can be wrong, two tokens allow
  one to be left. `OwedBound` (3; 6 of 4 tokens for one port) allows a broadcast
  to take the count below zero; without tokens, events are counted to the bound and still sent.
* *References.* Two threads race for the last two references, and a second
  object is there to be assigned. An object is made once. When both have been
  deleted there is nothing left to do, hence `CHECK_DEADLOCK FALSE` in that run
  (and in `library`, below).
* *Library.* `LibraryMC` puts the modules in one run because they share nothing:
  an initial state chooses a part, and only that part moves. Words have 4 bits
  and doubles 2, so every pair and triple of inputs is explored; the proofs cover
  every width. Arrays: two, with up to four cells and three blocks, so that a
  block can be moved, stolen and reallocated and one of the sizes is no power of
  two. Three groups, two buffers and two starting isolates allow every order of
  handing on and ending. Three threads that resolve the name race in every way;
  three users of two references see a hand-over by way of a third. `DataOffset`,
  `ObjectSize`, `LengthSize` and `AddressSize` keep the order of the real sizes.
  `MessageBits` are all the bits that mean something by themselves and those at
  the edges of the token count, so that every message is one of 2^13.
  `CHECK_DEADLOCK FALSE`: some parts come to an end. Properties that are conjunctions
  (`OneOwnerEach`, `WordsAreExact`, `DataIsReadAsWritten`) name their parts, each
  defined and commented in its module; several mutants show each conjunct at
  work.

### Fairness

* *Embedder.* Each thread inside the embedder or the VM goes on (weak): the
  operating system schedules it and no call of the embedder blocks on another
  thread. An isolate that was handed over and made runnable is run (weak). A pool thread that runs
  an isolate again and again ends it at some time (strong): `hello_world.dart`
  prints, sleeps and ends. Nothing is assumed of `VMBoot` and the spawns.
* *Descriptors.* Connections keep arriving and the completion port hands them
  out between other events (strong), and a broadcast that was begun goes on
  (weak). Isolates need not answer.
* *References.* A thread inside `Release` or `set` goes on (weak). No thread has
  to release what it holds.

## Findings

Each is a run that is expected to fail, with one property that quotes what the
repository says.

1. `CreateIsolateGroupAndSetup` (`EmbeddedDart.cpp:377`) drops the isolate that
   `CreateIsolate` returned. `dart_api.h:664-665` says it returns NULL if the
   creation was not successful "and the isolate if successful".
2. `CreateIsolate` (`EmbeddedDart.cpp:330`) answers a script that does not load
   with NULL and does not shut the isolate down, as `dart_api.h:629-634` asks.
3. `CreateAndSetupKernelIsolate` (`EmbeddedDart.cpp:219`) returns the isolate
   also when it could not be made runnable.
4. `OnIsolateInitialize` (`EmbeddedDart.cpp:419`, `424`) returns false without
   `Dart_ShutdownIsolate`, which `dart_api.h:690-691` makes its responsibility;
   `dart_api.h:703-704` says that the VM will terminate the isolate. The two
   sentences cannot both be what a caller relies on.
5. `PriorityQueue::RemoveAt` (`priority_queue.h:159`) only bubbles the entry
   down that fills a gap. It may have to go up: the gap and the last entry can be
   in different subtrees. After a cancelled timeout another one may be late.
6. `Utils::SafeDoubleToInt` (`platform/utils.h:361`) compares with the largest
   integer made a double, which rounds up. The double just above the range passes
   and is cast, the undefined behavior the function is there to avoid.

Met on the way, and stated by the properties as the code has it, without a claim
of the repository that says otherwise: `SetLength` loses the block it replaces
(`growable_array.h:230`), `UpdatePackagesFile` loses the old name when it is
given NULL (`isolate_data.h:131`), two threads that resolve the executable's name
at once may lose copies of it (`platform.h:86`), `AddArguments` aborts where the
arguments would just fit (`dartutils.h:77`).

Disagreements that have no run:

* `OnIsolateInitialize` (`EmbeddedDart.cpp:402`) answers `result != nullptr` for
  an error handle of `ResolveScript`, which is true, with its scope open. This is
  the promise of finding 3 once more, on another path; `embedder_faults` takes
  that path, but no property of it is about the answer. In a release build
  `CreateServiceIsolate` (247) does the same for a service isolate.
* `EXPECT_STREQ` means to report a nullptr (`assert.h:143-144`) and not to end
  the test (298-301), but hands it to `strcmp` first (142), which is undefined.
  `FailuresAreReported` is about tests that compare no nullptr as a string.
* `globals.h:349-350` calls simarm_x64 the only mismatch of architectures that is
  allowed. The tests there compare the sizes of words: an ARM or ARM64 target
  on an X64 host, an ARM target on an IA32 host, an X64 target on an ARM64 host
  and an IA32 target on an ARM host all pass. The last two are not simulated
  (357-365). `MismatchesAreThese` says so; that a build of those two can
  run what it makes is claimed nowhere.
* `RotateLeft` and `RotateRight` admit a rotation by the width (`utils.h:317`,
  `326`), which shifts by it. `IsAbsoluteUint` (197) negates the least integer.

## Proofs

What the runs show for small instances, these theorems show for every value of
the constants (given the named ASSUME of each module, which TLC evaluates, and
the hypotheses below). Type
correctness is a conjunct of each inductive invariant; a run checks it by itself
for the embedder only.

| Theorem | Shows |
|---|---|
| `Embedder_proofs!TypeCorrect` | `TypeOK` |
| `Embedder_proofs!MemoryIsSafe` | `GroupOutlivesIsolates` |
| `Embedder_proofs!NothingDeletedTwice` | `NoDoubleDelete` |
| `Embedder_proofs!IsolatesAreExclusive` | `OneThreadPerIsolate` |
| `Embedder_proofs!ScopesAreBalanced` | `ScopesBalanced`, where the script loads and resolves |
| `Embedder_proofs!AllIsReleased` | `NothingLeaks`, without `spawnUri` and for the failures the code recovers from |
| `Embedder_proofs!EachIsolateLivesOnce` | `IsolatesLiveOnce`: created once, then shut down once |
| `Embedder_proofs!NothingRunsForEver` | `CallbacksEnd`: no callback goes back, none takes more than 17 steps |
| `TimeoutQueue_proofs!MapStaysInverse` | `MapIsInverse` |
| `TimeoutQueue_proofs!CapacityAlwaysFits` | `CapacityFits` |
| `TimeoutQueue_proofs!PortsKeepTheirOwn` | `EachPortItsOwn` |
| `TimeoutQueue_proofs!ImplementsTimeouts` | `RefinesTimeouts` |
| `DescriptorInfo_proofs!RingIsExact` | `ActiveReadersAreReady` |
| `DescriptorInfo_proofs!TokensAreConserved` | `TokensConserved` |
| `DescriptorInfo_proofs!ReturnedToKnown` | `ReturnFindsEntry` |
| `DescriptorInfo_proofs!TurnsInOrder` | `NeverPassed` |
| `DescriptorInfo_proofs!WaitsAreBounded` | `TurnsComeNearer`: each event brings a port that waits one place nearer |
| `DescriptorInfo_proofs!MaskIsRight` | `MaskIsUnion` |
| `DescriptorInfo_proofs!ImplementsDescriptor` | `RefinesDescriptor` |
| `DescriptorInfoSingle_proofs!MutedWhileOwed` | `TokensConserved` |
| `DescriptorInfoSingle_proofs!MaskIsRight` | `MaskIsUnion` |
| `DescriptorInfoSingle_proofs!ImplementsDescriptor` | `RefinesDescriptor` |
| `ReferenceCounting_proofs!CountsAreExact` | `CountIsExact` |
| `ReferenceCounting_proofs!ReferencesAreSafe` | `NoDanglingHandle` |
| `ReferenceCounting_proofs!NothingDeletedTwice` | `DeletedOnce` |
| `ReferenceCounting_proofs!ImplementsSharedObjects` | `RefinesSharedObjects` |
| `ReferenceCounting_proofs!UnreferencedIsDying` | `SomebodyDeletes`: a live object without a reference has a thread that is to delete it |
| `ReferenceCounting_proofs!DyingIsDeleted` | `DeletionIsNext`: that thread deletes it next |
| `GrowableArray_proofs!CallsActOnSequences` | `ActsOnSequence` |
| `GrowableArray_proofs!BlocksAreOwnedOnce` | `ItemsFit`, `BlocksHaveOneOwner` |
| `GrowableArray_proofs!OthersLoseNothing` | `OnlySetLengthLoses` |
| `Library_proofs!EveryOwnerIsAlone` | `OneOwnerEach` |
| `Library_proofs!OthersLoseNoMemory` | `OnlyTheseLose` |
| `Library_proofs!BoundsNeverOverflow` | `BoundsAreExact` |
| `Library_proofs!SumsWrapOnce` | `WrapsOnce` |
| `Library_proofs!BitsAreArithmetic` | `WordsAreExact`, where the code is defined |
| `Library_proofs!ConversionsAreExact` | `DoublesAreExact` |
| `Library_proofs!CrossingsAreRead` | `DataIsReadAsWritten`, on a 64-bit build |
| `Library_proofs!BuildsAreConsistent` | `ConfigurationIsConsistent`, for the compilers and options listed |
| `Library_proofs!ArgumentsAreKept` | `ArgumentsAreThoseAdded` |
| `Library_proofs!TestsFail` | `FailuresAreReported`, where no nullptr is compared as a string |
| `Library_proofs!BuffersAreLaidOut` | `PartsAreDisjoint` |
| `Library_proofs!BuffersOutliveUsers` | `KernelOutlivesUsers` |
| `Library_proofs!RacesLoseFew` | `RaceLosesFew` |
| `Library_proofs!DeletesKnowingAll` | `DeleterKnowsAll` |
| `Library_proofs!HandedOverConstructed` | `HoldersKnowObject` |

Each state machine has one inductive invariant (`IInv`, `KInv`, `MInv` and the
like) and a theorem that says it always holds; the rest follow from it.

Three theorems have a hypothesis. `ScopesAreBalanced` assumes that two calls do
not fail: `Dart_LoadScriptFromKernel` in `CreateIsolate`, which returns NULL with
the scope open (`EmbeddedDart.cpp:330`, finding 2), and `ResolveScript` in
`OnIsolateInitialize`, which answers true with it open (402). Every other call
may fail, and the scope is shown to be closed before `Dart_ShutdownIsolate`,
which would hide one that was not. `AllIsReleased` assumes that Dart code does
not use `spawnUri`, because the isolate that is made runnable and then denied
(finding 1) belongs to nobody when `main` ends; that only calls fail which the
code recovers from (`OnlyRecoverable`: besides those two not
`Dart_IsolateMakeRunnable` at 217, nor, without asserts, `VmService::Setup` at
246); and, where `OnIsolateInitialize` may return false, that the VM ends the
isolate (`VMTerminates`). It says of a `main` that returns 0 that all is
released, of one that returns -1 that its own isolate's data is: the isolates of
the VM stay then, because `Dart_Cleanup` is not called, and so does everything
when the process aborts. `embedder_ends` checks both under the same conditions.
`CrossingsAreRead` assumes that a
word has 8 bytes, as `library` does: where it has 4, `CObjectIntptr::Value`
(`dartutils.h:469-478`) reads an `Int64` object as a word that need not hold it.

* *Embedder.* That two threads are never in one isolate is not inductive: it
  needs to be known which thread is working on an isolate at all. `IInv` says
  that a thread inside a callback owns its isolate alone (`Owned`), that a
  thread outside owns none, that the isolate is alive in the places where the
  code takes it to be, that it is current exactly between entering and leaving,
  and that an isolate handed to the VM is alive and free. Deletes are single
  because the callback at `sd_data` is the only one left for its isolate, and
  the one at `sd_group` the last of its group (`LastOfGroup`); this is where the
  end of an isolate and the decision to take the group have to be one step of
  the VM. One lemma per action, one step per conjunct it can disturb. For the
  scopes, `OneScope` says at which labels the isolate of a thread has its one
  scope open, and `OpenIsKept` that an isolate has scopes only while a thread is
  in it. For the end, a live isolate has been handed to the VM or is held by a
  thread that will end it (`AliveIsHeld`), and live data belongs to a live
  isolate, so none is left when the VM has nothing left to run. That callbacks
  end needs a number that each step makes smaller: `StepsLeft`, the most steps
  from a label back to `idle`, or to the end of `main`. A shutdown has three steps
  and goes on at one of three places, so the number depends on `frame` as well.
* *TimeoutQueue.* The loops are recursive functions over the rounds they have
  left. Each round swaps two entries, and what a swap keeps (the map is the
  inverse of the array, each port's timeout, the number of entries) the loop
  keeps, by induction over the rounds. The heap has a second induction: while an
  entry bubbles up, only the pair of it and its parent may be out of order, and
  the children of the gap are in order with the parent of the gap; likewise on
  the way down. From the order of each pair the head is a least entry, by
  induction over the places. Until a timeout is cancelled the array is a heap
  between two calls; afterwards the map is still right, which is what
  `MapStaysInverse` and `PortsKeepTheirOwn` say for every behaviour.
* *DescriptorInfoMultiple.* The lemmas about the list say what each operation
  does to the elements and that none repeats one. The invariant adds that a port
  nobody knows has all its tokens or is gone. For the refinement each action has
  a lemma that names the abstract step it is: a turn of a broadcast is none, and
  the port that is told is ready because it heads the ring. For the turns, each
  operation on the ring keeps the ports ahead of one that stays, unless it was
  the head; an event takes the head, and nobody else, away from the front.
* *DescriptorInfoSingle.* The invariant adds that without a port there is no
  mask, and before the port is set no token is spent.
* *ReferenceCounting.* The count is a cardinality; the invariant adds that an
  object about to be deleted is alive and has no handle, and that a thread inside
  `set` has a live object in its hand. With it each step is one of `SharedObjects`
  or none: the count need not be mentioned any more. A live object whose last
  handle goes is dying from that very step, because the decrement and its test
  are one.
* *GrowableArray.* Each loop has a closed form: after k rounds of `InsertAt` the
  cells behind place length - k have moved up by one and the others have not, and
  likewise for filling, erasing and swapping. The closed form after all rounds is
  the operation on sequences (`Inserted`, `Erased`, `Reversed` and so on); what
  is behind the length does not matter to it. `ArraysInv` says that length,
  capacity and the size of the block fit and that no block has two owners;
  `ArraysStep` shows for each call that it keeps this and loses no block, and
  that a call that is not `SetLength` makes no unwritten cell an item. The sizes
  are powers of two by induction over the exponent (`RoundedUp`).
* *Strings and the library.* `Store` frees, loses or keeps the string of a field,
  and only a NULL name of a packages file makes it lose one. A behaviour of
  `LibrarySpec` is one of each part (`LibraryIsItsParts`), so that the properties
  which the run checks of all parts follow from the theorems of each.
* *Options, checks, buffers, names.* The arguments below `count` are the ones
  added since the last reset; the comparisons of C++ agree with those of
  arithmetic, unordered numbers and tolerances included; each name
  that is lost has cost a thread that was resolving, and nobody starts to resolve
  once there is a name.
* *IsolateGroupData.* `KInv` adds that `uses` is the number of groups and
  starting isolates that point to the buffer, that only live groups have one,
  and that the deleter is `free` exactly for a buffer that was on the heap.
* *MemoryOrder.* `DeleterKnowsAll` speaks of the last moment only. `MInv` says
  why it holds then: whatever was done to the object is known to somebody who
  still has a reference, or is carried by the count, so the thread that brings
  the count to zero, which acquires, knows it all.
* *Utils.* The modulus is even and at least 2, and a sum of two words is off by
  less than one turn, which fixes the quotient of the reduction. Powers of two
  are a recursive function (`Binary`), about which `Binary_proofs` shows by
  induction what the provers do not know of `2^k`: sums of exponents, the order,
  shifts as quotients of quotients, and that a number is determined by its bits.
  A rotation is then a number with the bits of each half in their new place, and
  a mask is a remainder. A double is a multiple of a power of two that leaves
  `Precision` bits, so the largest integer has none and the bounds of
  `globals.h:499-501` are the last that do.
* *Messages and objects.* A message is a set of bits, any set: the number that
  `TOKEN_COUNT` reads depends only on the bits below `kCloseCommand`, which the
  flags leave alone. For objects each pair of a type and a wrapper is a case.
* *BuildConfiguration.* What a compiler may define is any set of macros that has
  what `BuildDefines` says, which every build of the run has. Each stage of
  `globals.h` has a lemma that says what it adds; a stage never
  takes a macro away, so a build that no stage refuses has what each has added,
  and exactly one of each kind. `LibrarySpec` starts in one of these builds and
  keeps it.

Induction over the naturals is stated for a set of numbers, not for a predicate:
`Binary_proofs` derives it from the well-foundedness of `<` (`LeastNumber`,
`SetInduction`), with the existence of the functions that a recursion over the
rounds of a loop defines (`IteratesExist`, `RunExists`). `TimeoutQueue_proofs`,
`GrowableArray_proofs` and `Library_proofs` rest on it.

Model-checked only: the three liveness properties (`Termination`,
`EveryReaderIsServed`, `UnreferencedIsDeleted`). Fairness speaks of ENABLED, which
the provers cannot use. What each asks of the states and steps is proved: a
thread that moves on comes to its end (`NothingRunsForEver`), a port that waits
comes nearer with every event and is never passed (`WaitsAreBounded`,
`TurnsInOrder`), an object without references has a thread that deletes it next
(`UnreferencedIsDying`, `DyingIsDeleted`). What is left to the runs is that the
step in question can be taken, and that what can be taken in the end is. The
properties that the runs of the findings refute are not theorems, of course.

## Not modelled

* The inside of the VM and of the prebuilt library. `dart_api.h`,
  `dart_tools_api.h` and the other headers of `include/` are declarations and
  their documentation: more than a third of the repository's lines, without a
  step to model. What the program relies on is the environment of `Embedder`.
* `eventhandler_win.h` but for the layout of a buffer, `thread.h`, `hashmap.h`,
  `vmservice_impl.h`, `builtin.h`, `gzip.h` and most of `dfe.h`, `dartutils.h` and
  `platform.h` declare and do not define: the completion-port loop, handles and
  their states, threads and monitors, hashing and the byte order functions are in
  the library. Where the program calls them the call is a step that may fail; a
  model of their bodies would be invented.
* Native functions and the library tag handler: they keep no state.
* Single cases of what is modelled, each outside the conditions of an action:
  `RetainedPointer::set` of a pointer to its own target by somebody without
  another reference, which releases what it goes on to retain
  (`reference_counting.h:156-164`, `SetReleases`); a kernel buffer that is NULL
  in `IsolateGroupData` (`EmbeddedDart.cpp:277`, then 315: `Embedder` has the
  replacement, not the `shared_ptr` of NULL), and one raw buffer given to two
  groups, each with a count of its own; an element of a growable array passed to
  its own `Add`, `InsertAt` or `FillWith`, whose `const T&` would be read after
  `Realloc` has moved it; the difference of two priorities, which
  `InsertOrChangePriority` keeps in an `intptr_t` (`priority_queue.h:112`) and
  the model compares without overflow or truncation; rotations of signed words.
* Text: messages, URIs and names; the digits of `utils.h`.
* Weak memory beyond what is ordered: loads of old values.

## State

Modelled and checked: the embedder, the timeout queue, the descriptors and
reference counting, the last three with their abstract specifications, memory
orders, kernel buffers, arrays, arithmetic and the rest of what the headers
define. Proved: every safety property and every refinement that a passing run
checks, under the hypotheses named above, and the safety half of each liveness
property. Whoever continues may look at `CObject` on a 32-bit build, where the
hypothesis of `CrossingsAreRead` should become a finding once a test or a comment
of the repository says what is expected, and at an abstract specification of the
embedder as its VM sees it.
