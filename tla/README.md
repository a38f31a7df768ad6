# TLA+ for Rust-LabVIEW-Interop

The crate `labview-interop` lets Rust functions that LabVIEW calls through a Call
Library Node work on LabVIEW's own data: handles, strings, arrays, error clusters.
These modules model the part of it that has state, order and failure, check it on small
instances with TLC, and prove its main properties for all sizes with TLAPS. Paths below
are relative to `src/labview-interop/src/`.

## 1. The system

| Component | Code | State | Operations | Module |
| --- | --- | --- | --- | --- |
| API loader | `labview.rs` | two `LazyLock` cells, one per function table | `sync_api()`, `memory_api()`, `load_container` | `ApiLoader`, `LazyCell` |
| LabVIEW memory manager | external, called through the table `MemoryApi` | the heap: which handles are allocated, what they hold | `DSNewHandle`, `DSCheckHandle`, `DSSetHandleSize`, `DSCopyHandle`, `DSDisposeHandle`, `NumericArrayResize` | `MemoryManager`, `LVArray` |
| Handles | `memory/uhandle.rs` | one pointer, lent by LabVIEW | `as_ref`, `valid`, `resize`, `clone_into_pointer` | `OwnedHandle` |
| Owned handles | `memory/owned_handle.rs` | one pointer, owned | `new`, `new_unsized`, `try_clone`, `try_to_owned`, `handle_to_inner`, `Drop` | `OwnedHandle`, `ValueSemantics`, `OwnedHandleRefinement` |
| Pointers | `memory/uptr.rs`, `memory/mod.rs` | one address | `as_ref`, `as_ref_mut`, copies | `SharedCluster` |
| Strings | `types/string.rs` | size and bytes in a handle | `set`, `set_str`, `from_data`, `empty_string`, `to_rust_string`, slices | `LStr`; as opaque values `OwnedHandle` |
| Arrays | `types/array/` | header with `D` dimensions, elements | `new_empty`, `resize_array`, `copy_from_ndarray`, slices and views | `LVArray` |
| Arrays of owned handles | `types/array/mod.rs`, `memory/` | pointers inside a block | moves through slices, clones, raw reads and writes, `Drop` | `NestedHandles` |
| Error clusters | `types/lv_errors.rs`, `types/boolean.rs` | status, code, source | `wrap_function`, `wrap_return_status`, `write_error` | `ErrorCluster`, `SharedCluster` |
| Status codes, errors | `types/lv_status.rs`, `errors.rs` | none | conversions between `i32`, enums and `Result` | `StatusCodes` |
| Timestamps | `types/timestamp.rs` | none | conversions from and to seconds, bytes and `chrono` | `LVTime` |
| Events, occurrences | `sync.rs`, the test library's `sync.rs` | none in Rust | `post`, `set` | `UserEvents` |
| Layout, waveforms, variants | `types/mod.rs`, `lib.rs` | none | – | – |
| Test library, test project, CI | `src/labview-test-library`, `src/labview-test-project` | – | exported functions that each call one operation | the posting functions: `UserEvents` |

How they interact. Every operation on LabVIEW memory asks `memory_api()` for the table of
functions and calls one or two of them; each of these is atomic (LabVIEW's manager is
thread safe), the operation as a whole is not. An owned handle is a handle plus the duty
to dispose of it; strings and arrays are handles with a layout; the error cluster holds a
string handle, so recording an error may itself fail for want of memory. Errors travel
from the manager's status code through `Result` and `ToLvError` into a cluster, or into
the status a function returns. LabVIEW calls from several threads, and keeps changing
its own terminals between the calls.

What is hard here, and where (the full list, with lines and the properties that cover
each point, is under `hazards` in `PROJECT.json`):

- *Ownership.* Owned handles are `Send` and `Sync`; a clone is allocate, check, copy,
  with other threads in between. Nothing may be freed twice, early or never; addresses
  are recycled.
- *Early returns.* Every call of the manager may fail, and the code leaves with `?`: what
  has been done by then must not be lost or half done.
- *Initialisation once.* The outcome of the first lookup of the function tables decides
  for the life of the process, while LabVIEW may still be loading; and a failure is
  displayed from inside the initialiser.
- *Two copies of one fact.* The array header, written by the crate, must describe the
  storage, resized by LabVIEW; the error cluster must describe the error that happened.
- *Pointers inside blocks.* LabVIEW copies and frees a block without looking at the
  handles in it, `LVCopy` permits arrays of owned handles, and reads and writes of
  elements may be raw.
- *Data handed on.* A posted event waits in a queue while its sender frees the string it
  was made from; `PostLVUserEvent` may change what it is given.
- *Aliases.* `UPtr` is `Copy`: two mutable references to one cluster can exist.
- *Edges.* Negative dimensions, products beyond `usize`, axes longer than `i32`; status
  codes the enum does not know; warnings, which have a code and are not errors; a size
  field narrower than `usize`; fractions of 64 bits in doubles of 53.

What makes each component correct:

- loader: one answer for everybody and for ever; what is there is found; no call hangs;
- handles: exclusive, initialised, freed at the right moment, lost on no path; seen from
  outside, every place simply holds a value of its own;
- arrays: a slice lies inside the storage and is the whole array; `Ok` means done, `Err`
  means nothing happened;
- strings: the slice lies inside the block; `Ok` means stored, `Err` means the old string;
- nested handles: one owner for each block, none freed under an owner, none lost but what
  a dropped array holds;
- events: a string is the function's or LabVIEW's, is freed once, and what a structure
  reads is what was posted; every call returns;
- timestamps: conversions stay within the rounding and keep the order;
- errors: the first error of a chain wins, failures are always recorded, never success.

## 2. Modules

```
MemoryManager   LazyCell <---- refined by ---- ApiLoader <- MCApiLoader, ApiLoaderProofs
       \        /
       OwnedHandle                                        StatusCodes
           ^                                                   ^
 OwnedHandleRefinement <- MCOwnedHandle, OwnedHandleProofs     |
   |                                                       ErrorCluster <- MCErrorCluster
   v INSTANCE                                                  ^
 ValueSemantics                                            SharedCluster <- MCSharedCluster
                                                               ^
                                                       ErrorClusterProofs

 MemoryManager <- NestedHandles <- MCNestedHandles, NestedHandlesProofs
 MemoryManager, LazyCell (twice) <- UserEvents <- MCUserEvents, UserEventsProofs
 LVArray <- MCLVArray, LVArrayProofs
 LStr <- MCLStr, LStrProofs
 LVTime <- MCLVTime, LVTimeProofs
```

An arrow points to what a module EXTENDS or INSTANCEs, except where it says "refined by".

**MemoryManager** (external) is the heap: `live`, the allocated handles, and `data`, what
each holds, `Uninit` before the first write. Its operators state what the doc comments of
the function table say; that a failing function changes nothing is an assumption about
LabVIEW.

**LazyCell** is what `memory_api()` promises: a variable that the first call sets to `ok`
or `err`, for good. `OwnedHandle` uses it; `ApiLoader` is shown to implement it, once for
each of its two cells.

**OwnedHandle** has a pointer for each *slot* (a Rust variable of type
`Option<OwnedUHandle>`) and each *var* (a LabVIEW terminal that reaches Rust as a
`UHandle`), and for each thread the call it is in. The steps of a call are those of the
code between two calls of the manager:

| Action | Code |
| --- | --- |
| `New` | `OwnedUHandle::new`: allocate, write, wrap |
| `FromData`, `InitSet` | `new_unsized` with the routine of `from_data` / `empty_string`: allocate; then `set`, which may fail |
| `TryClone`, `Validate`, `CopyHandle` | `new_unsized` with the routine of `try_clone` / `try_to_owned`: allocate; `valid()`; `copy_handle` |
| `CloneIntoPointer`, `Validate`, `CopyHandle` | `clone_into_pointer` called by a client |
| `Set` | `set` or a write through `DerefMut` |
| `Drop` | `Drop for OwnedUHandle` |
| `CallFails` | the returns before anything is allocated |
| `LVCreate`, `LVDispose`, `LVForeign` | LabVIEW, on a terminal that no call has borrowed |

`CanShare` and `CanMut` are Rust's borrow rules over the calls in progress, for slots and
terminals alike: a source is borrowed shared, a destination mutably. They are what the
compiler enforces (`handle_to_inner` takes `&mut self`; the doc tests at
`memory/owned_handle.rs:137-164` fail to compile) and, for terminals, what LabVIEW
guarantees for the duration of a Call Library Node. A client that stores a `UHandle`
beyond its call is outside of the model.

**ValueSemantics** is the abstract program: each place has a value, a clone has a
beginning and an end and gives its destination the value of its source, nothing else ever
changes two places. **OwnedHandleRefinement** maps the heap to it: the value of a place is
what `Deref` shows through its pointer.

**ApiLoader** has the two cells with the phases of `load_container`, the thread that runs
the initialiser, and the answers threads got. `present`, the tables that can be resolved,
grows at any moment. The message of `MEMORY_API`'s initialiser is a step of its own,
because displaying an error made of a status code would ask `memory_api()` for a text.

**StatusCodes** and **ErrorCluster**: the conversions, and one error cluster on a wire
through a chain of calls, each with any outcome its closure may have, or with the status
of a call of the manager passed on through the conversions. The text of an error is
opaque; whether it can be stored is a choice. `last` and `first` are history: the last
call, and the first error since LabVIEW last wrote the cluster.

**LVArray** is one array with `D` dimensions: `block` (none, null, without a header, or an
array), `dims`, the elements, and the last call. The widths of `i32` and `usize` are
parameters. `Product` is the plain product; `element_count` is the checked fold of the
code. A read of a header that is not there returns anything, and a write through it past
the storage has the result `undefined`.

**LStr** is one string: its size field, the bytes that are allocated behind it, and the
last call. `Store` is what `set` does on a handle of the manager: resize the block, then
write the size and then the bytes, or leave through `?`. Two things the code relies on and
never checks are inputs: the width of the size field (`AsI32` is `as i32`), and the word
behind the master pointer that `as_ref_mut` takes for the length of the data (`meta`).
Encodings map a character to one or more bytes, and back; a byte order mark is one byte.

**LVTime** is the timestamp in a terminal and the last conversion. A double is an integer
count of `2^-P` seconds with `M` significant bits: `Exponent` says how large a number is,
`Ulp` how far apart doubles are there, `Nearest` rounds to a multiple (ties to even), and
`F64` and `Rounded` round a number and a quotient to a double. `AsI64` is the saturating
cast. `Pow2` and `Weight` are recursive functions, so that theorems can be stated over them.
`Exact` is the instant a timestamp means; the properties hold every conversion to it.
`PassOn` is LabVIEW's part: a function has returned, and the next one is called with the
same timestamp.

**NestedHandles** is the heap with blocks that hold pointers: strings in Rust variables
(`Str`) and in the elements of arrays, which are LabVIEW's terminals or owned (`Arr`).

| Action | Code |
| --- | --- |
| `FromData`, `SetText`, `SetElem` | `LStrOwned::from_data`; `set_str` on a variable or an element |
| `Assign` | `data_as_slice_mut()[i] = s`: the old element is dropped, `s` is moved in |
| `Swap` | `mem::swap` and `mem::replace` on an element: the old string moves out |
| `Drop` | `Drop for OwnedUHandle`: the one pointer, whatever it leads to |
| `Clone` | `try_clone`, `try_to_owned` of the array: a copy of the block, pointers and all |
| `Get`, `Set` | `get_value_unchecked`, `set_value_unchecked` |
| `LVCreate`, `LVSet`, `LVDispose` | LabVIEW, which frees an array with its strings |

No operation is guarded by who else has a pointer: a drop frees what its pointer leads to,
whether it was freed before or belongs to somebody else by now, and LabVIEW disposes of
its array at any time. Two history variables tell programs apart. `raw` collects what a
program has done to strings as to plain bytes: it cloned an array that holds some
(`"clone"`), read one out of an element or wrote over one (`"get"`, `"set"`), or, with a
clone around, changed an element of an owned array (`"through"`). `orphaned` has the
strings that were elements of a dropped array. The properties say what holds as long as
`raw` is empty, as long as there are only clones, and, in `CloneIsSafe`, what the
documentation promises of clones and does not hold.

**UserEvents** has, for each thread, the call LabVIEW made: build the cluster
(`FromData`), `post`, and the drops at the end of the scope (`Drop`), which free the string
the cluster or the variable owns; or `set` on an occurrence. The two lazy cells are
separate, because memory may be there while sync is not. `PostLVUserEvent` is LabVIEW's:
it queues a copy of the string for each registered structure, or refuses; and, for the
clusters in `Modified`, it may keep the caller's string and leave a null handle. A
structure handles its events one after the other (`HandleEvent`), and LabVIEW frees the
copy. `Panic` is the `unwrap` of a failed allocation in an `extern "C"` function.

**SharedCluster** takes the calls of `ErrorCluster` apart: check (twice, in
`wrap_return_status`), closure, code, status, source, return, each a step of its thread. It
extends `ErrorCluster`, whose `cluster` becomes what a caller is shown when its call
returns; `memory` is the cluster that the steps write, and `RefinesErrorCluster` is the
specification of `ErrorCluster` itself. `Via` says through which `UPtr` each thread calls:
`&mut self` keeps calls through one `UPtr` apart, and nothing does so for its copies, which
safe code makes at will. The histories are `offered`, the errors whose writing has begun
since LabVIEW wrote the cluster, with LabVIEW's own, and `overlap`, whether a code was
written between the code and the status of another call.

Beside some definitions stand faulty variants of them (`DropForgets`, `RunAlways`, ...),
marked as such: none occurs in a specification; each shows, put in the place of the
operation next to it, that a property fails when the code is wrong in that way.

## 3. Runs

| Run | Instance | Properties | Result |
| --- | --- | --- | --- |
| `handles` | 2 threads, 2 slots, 2 terminals, 4 addresses, 1 foreign pointer, 2 values | `TypeOK`, `Exclusive`, `OwnedUsable`, `CopyTargetsLive`, `DropFrees`, `LeaksOnlyFromFailedInit`, `RefinesValues` | hold |
| `handles_leak` | same places | `NoLeak` | violated, see below |
| `api_loader` | 2 threads, 2 cells, 2 libraries | `TypeOK`, `OneAnswer`, `FoundIfPresent`, `CallsReturn`, `RefinesLazyCell` | hold |
| `error_cluster` | 5 codes, 2 texts, bytes 0, 1 and 255 | `TypeOK`, `FirstErrorWins`, `FailureIsRecorded`, `ManagerFailureVisible`, `UntouchedUnlessFailed` | hold |
| `array` | D = 2, dimensions -1..3, `usize` up to 7, memory for 4 elements, 2 values | `TypeOK`, `SliceInBounds`, `SliceIsWhole`, `ResizeTakesEffect`, `CopyIsFaithful`, `FailureKeepsArray` | hold |
| `array_header` | same | `HeaderPrepared` | violated, see below |
| `string` | sizes up to 2 in the field, blocks up to 6 bytes, 2 bytes, 3 characters, texts up to 2 | `SliceInBounds`, `OkStores`, `TextReadsBack`, `ErrKeepsString` | hold |
| `time` | words of 6 bits, mantissas of 5, 25 "nanoseconds", minutes of 4 seconds, 1970 in second 4, dates up to 10 seconds around it | `FromEpochIsNear`, `ToEpochIsMonotone`, `ByteOrdersAgree`, `ChronoIsNear`, `ChronoRoundTrip` | hold |
| `nested` | 5 addresses, 1 terminal, 2 owned arrays, 2 variables, 2 elements | `OwnedOnce`, `OwnersUsable`, `LostOnlyWithArray`, `SourceSurvivesClone` | hold |
| `nested_clone` | same | `CloneIsSafe` | violated, see below |
| `events` | 2 threads, 2 structures, queues of 1, 4 addresses, 2 texts, both kinds of cluster | `StringsAccounted`, `EventsIntact`, `CallsReturn` | hold |
| `shared_cluster` | 2 threads, 2 copies of the pointer, 3 codes, 2 texts | `OneError` | violated, see below |

The bounds and why they are enough:

- `handles`: two threads can be in a clone at once, and a third party, LabVIEW, acts at
  any time. Four addresses leave room for the two places a thread touches, one in flight
  and one recycled after a drop or lost by a failed init; when the heap is full of lost
  blocks, allocations fail, which the code must survive too. Handles, threads and values
  are symmetric, and the theorems of section 5 remove the bounds.
- `api_loader`: a third thread could only wait as the second does. Nothing is bounded:
  tables appear at most once each.
- `error_cluster`: the codes are success, one the enum has, the default code of
  `ToLvError`, one of the crate's and one of the user's range; 255 stands for Booleans
  LabVIEW writes that are neither 0 nor 1.
- `array`: `3 * 3` exceeds the small `usize`, `3 * 2` exceeds memory but not `usize`, and
  a shape may have an axis of 4, too long for the small `i32`. Two dimensions are the
  fewest whose shapes can differ at the same size.

- `string`: the field counts up to 2 and wraps at 6, blocks reach 6 bytes and values 7, so
  that values fit, wrap to a negative size, wrap past it and are refused; the word `meta`
  covers one byte or all of them.
- `time`: the widths keep the order of the real ones (mantissa < fraction < second in a
  double), so fractions round, up to a whole second too; every timestamp, double, byte
  sequence and date of these widths is tried. Seconds reach far enough to leave chrono's
  range and to overflow when the epoch is subtracted; the epoch and the dates are small
  enough for a mantissa of 5 bits to tell half seconds apart, as one of 53 bits does for
  all of chrono's dates. From second 8 on doubles are half a second apart, 12.5 of the 25
  nanoseconds, so `ChronoRoundTrip` has cases.
- `nested`: three arrays and two variables compete for five addresses, so that addresses
  are recycled while clones still hold them. The constraint `Claimed` stops a behaviour once
  the program has used raw reads or writes on strings or has changed an element of a clone:
  from there on `raw` excuses it from every property, and for good.
- `events`: with two queues and two calls, four strings can be in use, and one freed by a
  function is recycled while its copy waits. A queue of one (`MaxQueue`) is full at once.
- `shared_cluster`: success, which a warning may have, and two errors; two threads are the
  fewest that overlap.

Deadlock is checked in every run but `events`, whose process ends with a panic.

**Findings.** Four runs are expected to be violated; each refutes one sentence of the
documentation.

1. `handles_leak`: `new_unsized` (`memory/owned_handle.rs:92`) leaves through `?` when its
   init routine fails. The fresh block is in a `UHandle`, which has no `Drop`: it is never
   disposed of. `LeaksOnlyFromFailedInit` shows, and a theorem proves, that this is the
   only leak.
2. `array_header`: `new_empty` goes through `resize_array`, whose first comparison
   (`types/array/memory.rs:81`) reads the dimensions of a block of zero bytes. If that
   memory happens to read as zeros, the array is returned without a header.
3. `nested_clone`: `LVArray` is `LVCopy` whatever its elements are
   (`types/array/mod.rs:34`), and `LVCopy` is there "to ensure it is safe to clone"
   (`memory/owned_handle.rs:49`). After `try_to_owned` of an array of strings both arrays
   own them; LabVIEW disposes of its own, and the elements of the clone point to freed
   memory, all with safe functions. `memory/uhandle.rs:165` asks for data that is `'static`
   or `Copy`, and an owned string is `'static`. `SourceSurvivesClone` says what is left: a
   clone that is read and dropped as a whole harms nobody else.
4. `shared_cluster`: `UPtr` is `Copy`, `Send` and `Sync` (`memory/uptr.rs:11,77-78`), for
   the reason that LabVIEW's manager is thread safe (line 76). Two copies give two mutable
   references, and two failing calls leave the code of one error with the severity of the
   other: an error may so end up as a warning. `TornOnlyByOverlap` is proved to be all that
   can happen to the two: it takes a code that is written between the code and the status
   of another.

**Divergences told here, without a run.** While modelling, the following turned up; each is
in the model as the code has it, and the property next to it says what remains true.

- `set` writes `input_length as i32` (`types/string.rs:181`): a value of 2 GiB or more is
  stored with an `Ok` and a size that is negative or too small, although the comment at
  line 153 speaks of the size of the input. `OkStores` is about values the field counts;
  `SliceInBounds` holds for all.
- The length that bounds the write comes from a word the crate never writes
  (`types/string.rs:182`); where it is short, `set` returns `Ok` over bytes it has not
  written. `OkStores` assumes that it covers the value.
- `to_rust_string` removes a byte order mark and changes the encoding
  (`types/string.rs:106`), while line 111 speaks of the LabVIEW encoding. `TextReadsBack`
  excepts texts that begin like one.
- `from_lv_epoch` loses the fraction of a time before 1904 (`types/timestamp.rs:51`): it
  is negative and saturates to zero. `FromEpochIsNear` allows for it.
- A fraction that rounds up to a whole second makes the conversion to chrono fail with an
  error about the range (`types/timestamp.rs:175`), except in the last second of a minute,
  where it becomes a leap second.
- `to_lv_epoch` rounds twice (`types/timestamp.rs:58`), and beyond the seconds a double can
  count the second rounding may undo the order of the first: the last instant before second
  -2^53 becomes a later double than the instant after it. `ToEpochIsMonotone` is about
  seconds from -2^53 to 2^53 - 1.
- `From<DateTime<Utc>>` counts from 1970 before it counts from 1904 (`types/timestamp.rs:197`).
  Around 1904 the first of these doubles is 2 * 10^9, which has steps of a quarter of a
  microsecond, so a nanosecond is lost there although the timestamp could hold it.
  `ChronoIsNear` allows two steps of the larger double, and before 1904 less than two
  seconds, because of the fraction `from_lv_epoch` drops.
- `wrap_return_status` returns the cluster's code after an `Ok` too
  (`types/lv_errors.rs:140`): that of a warning that came in, although line 107 speaks of
  "the LabVIEW status code of the error". `Ran` has it as the code does.
- `get_value_unchecked` (`types/array/mod.rs:79`) does not ask for `T: Copy`, although
  the comment at line 38 says "copy only"; a string read with it has two owners.
- `Drop` frees the outer block (`memory/owned_handle.rs:184`), so the strings of a dropped
  array stay allocated for ever unless they were moved out, although line 11 says that an
  owned value manages "the lifetime". `LostOnlyWithArray` says that nothing else is lost.
- A cluster of handles (`memory_manager.rs:40-46` of the test library) owns a string through
  a variable beside it. Where LabVIEW keeps such a string, it is freed twice: the run sets
  `Modified` to the clusters that own their string, which drop what LabVIEW left in them.

## 4. Fairness

`api_loader` assumes weak fairness of `Proceed(t)`, a thread that is inside an accessor:
once it can run it runs, because the operating system schedules it, `LazyLock` wakes its
waiters, and the loader calls return. That a thread calls an accessor at all, and that
LabVIEW ever finishes loading, is not assumed. `events` assumes weak fairness of
`Continue(t)`, a function LabVIEW has called: it runs on its thread and nothing in it
blocks. That LabVIEW calls a function, or that a structure handles an event, is not
assumed; `CallsReturn` holds with full queues nobody empties, because `post` then fails.
The other modules are safety only: no operation waits for another.

## 5. Proofs

All theorems hold for every value of the constants under the named assumptions
(`MemoryAssumption`, `PlaceAssumption`, `CodeAssumption`, `ClusterAssumption`,
`LoaderAssumption`, `ArrayAssumption`, `StringAssumption`, `EncodingAssumption`,
`TimeAssumption`, `NestedAssumption`, `EventAssumption`), which say that null, foreign
pointers, addresses and the initial mark are distinct, that the codes include the two the
library itself uses, that the widths of integers are in order, and so on.

**OwnedHandleProofs.** `Exclusive` and `OwnedUsable` are not inductive: that `CopyHandle`
writes a block nobody else holds depends on what other calls have borrowed, and that the
source is alive on a check made earlier. The inductive invariant `IInv` adds

- `FrameShape`: which fields of a call are set at which step;
- `Borrows`: the destination of a call is neither source nor destination of another;
- `Prepared`: a fresh block is live and its slot still empty, a destination is still live
  or still null, a checked source is still live;
- `PlacesUsable`: what a place holds of the manager's is allocated and written;
- `ApiLoaded`: who holds or is about to hold a block got it from a loaded table.

There is one lemma per action, with one step per conjunct; `StepIInv` combines them. From
`IInv` follow `TypeCorrect`, `ExclusiveHandles`, `OwnedAreUsable`, `ValidatedStaysValid`,
and, step by step over the actions, `DroppedAreFreed` and `OnlyFailedInitLeaks`.
`DroppedAreFreed` needs `ApiLoaded` and `PlacesUsable`: they make the two error branches
of `Drop`, which print and forget the block, unreachable.

`HandlesAreValues`, in the same module: under `IInv` each action of `OwnedHandle` is one
action of `ValueSemantics` or a stutter.

**ApiLoaderProofs.** `LoaderTyped`, `AnswersAgree`, `LookupFinds` and `LoaderIsLazyCell`.
The invariant `Looked` follows a lookup through its phases: what it has passed by was not
there when it began.

**ErrorClusterProofs.** The three invariants of `ErrorCluster` are inductive together with
the types. The lemmas about the conversions (`ConvertedCode`, `StatusOfConverted`,
`ReportedOutcome`) say what becomes of a status of the manager, `WrittenCluster` what
`write_error` leaves. `IncomingPassesThrough` needs no invariant.

The second half is about `SharedCluster`. `Shape` says what a thread's frame can be, for any
number of threads and copies. On it rests `SharedTornOnlyByOverlap`: the invariant `Whole`
adds that, without an overlap, one call at most is between its code and its status, that the
code is then that call's, and that the cluster otherwise reads as one of the errors offered.
`SharedRefines` assumes `OnePointer`, that everybody calls through one `UPtr`, whose borrow
keeps calls apart (`Alone`). `Progress` says, for each step of the one call, which fields of
`memory` are already those of the new error and which are still those of the cluster shown
last; every step is then a stutter or the step of `ErrorCluster`, and `SharedKeepsErrors`
carries the theorems about whole calls over to calls taken in their steps.

**LVArrayProofs.** For every number of dimensions and all widths. `element_count` and
`Product` are folds, defined by recursive functions. `Induction` is the least-number
principle over a set, from the well-foundedness of the naturals; with it
`FactorsExist` and `CheckedExist` show that the functions exist, `CountIsProductOrZero` that
the checked fold is the product or 0, and `CountIsProduct` that it is the product wherever
that fits a `usize`, a product of zero after a partial overflow included. The invariant is
then that of the header (`TypeOK`, `SliceInBounds`, `NoHeader`: no dimensions without a
header) and of the last call (`ResizeTakesEffect`, `CopyIsFaithful`). `ArrayAssumption`
says that memory holds fewer elements than a `usize` can count, which ndarray guarantees
(at most `isize::MAX`); without it a shape of exactly `usize::MAX + 1` elements would be
copied into an array with an empty slice.

**LStrProofs.** For every width of the size field, every size of memory and every encoding
with as many bytes as it likes for a character. `SlicesInBounds` needs only the range of
`AsI32`, which `Wraps` gives: a size that wraps becomes negative, so the slice is empty, or
smaller than the value, so it is inside the block. `OkMeansStored` follows the bytes
through `Store` (`StoredText`), where the field can count the value and the reference
covers it, the condition explained above. `TextsReadBack` is about `FlattenSeq`, a
recursive function over sequences: by induction over the length, the encoding of a text of
single-byte characters has its length and its bytes, and decoding it gives the text back.
`ErrorsKeepString` needs the block, the field and the bytes to agree before the call.

**LVTimeProofs.** For all widths that `TimeAssumption` allows, those of the code among
them (`Radix` 256, `Bytes` 8, `B` 64, `M` 53, `P` 1074). The properties compare the last
conversion with the timestamp it was made of, which is what `IInv` remembers; the work is
in the arithmetic.

- `Induction` is the least-number principle; with it `PowersExist` shows that the recursive
  functions are total, `PowSum` and `PowOrder` how powers multiply and compare.
- `NearestIs`, `NearestMonotone`, `NearestMultiple` and `NearestBest` say what rounding to a
  multiple does; `ExponentIs` that every number below `Top` has exactly one exponent.
- `F64Exact`: a multiple of a power of two with no more than `M` bits is its own double.
  `F64Mono`: rounding keeps the order, also where the spacing of doubles changes
  (`Boundary`). `F64Within`: it is off by half a step at most.
- `EpochIsNear` and `EpochIsMonotone` follow (`FromLvEpoch`, `ToLvEpoch`,
  `ToEpochMonotone`): below the limit of the seconds, the sum of two roundings is the
  rounding of a sum that keeps the order, because whole seconds are doubles.
- `BytesComeBack`: a word is determined by its digits (`Division`, `Digits`), two's
  complement is a bijection (`SignedIs`), and the two orders are each other's reverse
  (`OrdersReverse`).
- `ChronoStaysNear` adds up the errors of up to five roundings (`SubSeconds`, `TryFrom`;
  `DatePart`, `Addition`, `ViaDoubles`, `ThroughEpoch`, `FromChronoNear`). It uses the part
  of `TimeAssumption` that says that doubles tell half seconds apart for all of chrono's
  dates.
- `ChronoComesBack`: there and back are six roundings and one division that cuts off, and
  still nothing is lost. A timestamp that came from a double is that double
  (`LateDouble`), whose part of a second is a double as well (`LateFraction`), so only
  nanoseconds are inexact: an eighth of a step, if a step has twelve (`ThroughNanos`). The
  sum with 1970 may double that (`ViaUnix`), and a quarter of a step rounds back
  (`RoundsTo`, with `HalfUlp` where the spacing changes). Twelve nanoseconds are what the
  proof needs; two would not do, although many small widths have no counterexample: with
  `B` = 7, `M` = 6, `P` = 8 and 41 nanoseconds there is one at 2.56. At the widths of the
  code doubles are 477 nanoseconds apart after 1970.

**NestedHandlesProofs.** The operations have no guard to lean on, so the invariant has two
parts beside the types. While `raw` is empty, every pointer in a variable or an element is
the only one to its block, which is live and a string, every array has its holder, and what
is live is held or orphaned (`Kept`); `NestedOwnedOnce`, `NestedOwnersUsable` and
`NestedLostOnlyWithArray` follow. While there are only clones, the same of the terminals and
the variables alone, whatever the elements of owned arrays point to:
`NestedSourceSurvivesClone`. A drop or a disposal then frees a block that no terminal or
variable shares, and a clone only allocates. There is one lemma per action.

**UserEventsProofs.** Under the assumption that LabVIEW modifies only clusters that own
their string. `StringsAccounted` speaks of sets; the invariant adds that no two owners,
calls or events, share a handle (`Apart`), that a call that posts still holds the string it
was entered with (`Shape`), and that an owner has loaded the memory API (`ApiLoaded`), so
that the drop frees it. One lemma per step; `CopiesStep` covers both outcomes of
`PostLVUserEvent`, and in `HandleEventStep` the events move up by one.

Only model-checked: the liveness properties `CallsReturn` of `ApiLoader` and `UserEvents`;
fairness and ENABLED are out of the prover's reach. Only proved: `SharedTornOnlyByOverlap`,
`SharedRefines` and `SharedKeepsErrors`; the run of their module shows `OneError` violated.
`NoLeak`, `HeaderPrepared`, `CloneIsSafe` and `OneError` are refuted, so there is nothing to
prove of them. The modules with theorems, and those they use, declare no RECURSIVE operator.
The types of the modules without a `TypeOK` among their run's properties (`NestedHandles`,
`UserEvents`, `SharedCluster`, `LStr`, `LVTime`) are part of their proved invariants.

## 6. Not modelled

- 32-bit targets and builds without the feature `link`: unaligned accesses are a matter
  of layout; without `link` there are no owned handles.
- The handle `NIGetOneErrorCode` allocates for a description: the table does not say who
  owns it. The texts of errors.
- The order derived for `LVTime`, which compares fractions first: nothing says what it is
  for.
- The Windows code page, `NaN` and infinite doubles, null `UPtr`s (a panic).
- What an occurrence wakes: it is LabVIEW's.
- Waveforms, variants, layout macros: no state of their own.
- Panics, other than as an outcome or, in `UserEvents`, as the end of the process.

## 7. Plan

Done: every component with state or order, its abstract specification where it promises
one, and proofs of all safety properties that the passing runs check. Next,
in this order:

1. A refinement of the opaque writes of `OwnedHandle` by `LStr`.
2. `SharedCluster` on the memory manager, with the source string as a handle of the heap.
