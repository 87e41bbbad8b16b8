# A TLA+ model of Baobab

Baobab is a key-value store written in Go: a B+ tree over a buffer manager, a
pager and a disk manager, with a write-ahead log and recovery. This directory
models these parts, checks them with TLC on small instances, and proves the disk
manager, the LSNs of the log, the logger and the admission filter correct with TLAPS
for every value of their constants.

Paths below are relative to `src/`.

## The system and its parts

A request of the HTTP server (`main.go`) becomes an operation of the B+ tree
(`pkg/bptree`). The tree logs it (`pkg/wal`) and works on frames it gets from
the buffer manager (`pkg/buffermanager`), which reads and writes pages through
the pager (`pkg/pager`), which queues its requests with the disk manager
(`pkg/diskmanager`). A restart replays the log into the tree (`pkg/recovery`).

| Part | State and operations | Who runs concurrently | Module |
|---|---|---|---|
| B+ tree | nodes in pages, the root, the tree's mutex; `InsertValue`, `Get`, `RangeSearch`, `DeleteValue` | HTTP handlers | `BTree` over `BTreeNode`, promise in `KVStore` |
| buffer manager, shard | hash table, frames, pins, three segments; GET, NEW, DELETE | workers, callers, background writer | `Shard` |
| buffer manager, clock | the hand and the entries; `EvictWithoutClearing` | one sweep, everyone who pins | `Clock` |
| TinyLFU filter | doorkeeper, count-min sketch; `IncrementItem`, `CheckItemCount` | a goroutine per access | `TinyLfu` |
| pager | id counter, page count, free list and its file, metadata page | callers, one `watchFreeList` per shard, detached flushes | `Pager` |
| disk manager | a job queue per page; `WriteReq`, `ReadReq`, `ForceFlush`, `Close` | pager workers, one or more `run` goroutines per queue | `DiskManager`, promise in `PageFile` |
| write-ahead log | next LSN, buffer, wal file, config file; `AddPutLog`, `AddDelLog`, `AddCheckpoint`, `BLogWrite` | clients, a checkpointer, `walBgWriter` | `Wal` |
| recovery | the walk over the log | crash and restart | `Recovery` (extends `Wal`) |
| logger | a linked queue, the log file; `Write`, `run` | everyone, one or more `run` goroutines | `Logger` |
| `main.go` | start-up order; requests | | `Recovery`; `BTree`, `KVStore` |
| helpers | binary search, insertion in a list, page arithmetic | | `BTreeNode`, `Recovery` |
| dirty page list, manual memory, zipf, `cmd/pager` | | | not modelled |

The repository is in the middle of a change: `main.go`, `pkg/bptree` and
`pkg/recovery` import `pkg/bp_tree` and `pkg/buffer_manager`, which are no longer there. The
modules take each package as it is.

## Modules

Every variable is named for the field it stands for where there is one.
`PROJECT.json` maps each definition to its lines. A definition named
`X_Something` and introduced by "Mutation:" is a deliberately wrong variant of
`X`; no specification uses it. It shows that the properties notice such a
mistake.

**`BTreeNode`** has what the tree computes on nodes: the binary search, the insertion in a leaf,
`split`, the redistribution between siblings. Indices count from 0 as in the code.

**`BTree`** has the calls. A `Node` is a private copy of a page, and its latch protects the copy only, so
a step is one page access: reading a page and everything computed from it (`PutVisit`, `GetVisit`,
`DelVisit`, ...), or one `SyncFrame` (`Sync`). A call that takes the tree's mutex for several page
accesses (`DelRootLeaf`, `DelLone`, `DelCollapse`) is one step there. The returns that forget to
unlock the mutex put "R" or "W" into `leaked`; a goroutine in `waiting` keeps later readers out, as
Go's `RWMutex` does. Every call of the cache may fail: a read (`CacheFault`), a `SyncFrame` (`SyncFault`, with the page left as it is),
a new page (`EntryFault`, `FirstRootFails`). The call then ends as the code has it: an error ("io"), a panic that reports the error
("abort"), or success where the code drops the error. Of the log the tree sees that `AddPutLog` refuses an empty value, also by a panic.
Indexing out of range is the answer "panic". The program goes on, because the HTTP
server recovers from a panicking handler. LSNs and pins are left out: `Wal` and `Shard` have them.

One goroutine, `First`, first makes the calls of a script; then the clients make theirs. Four history variables record how
far the promises reach: `harm` collects what the tree has suffered, namely writers that overlap, a deletion that needs a sibling ("underflow"),
a writer that begins after that ("late"), a root that collapses, a failure of the cache in the middle of a change of several pages ("fault"); `torn` has the
readers that overlap a split; `puts` and `want` are the pairs put and the map after the writes begun so far.

**`KVStore`** is what a client may rely on: a map, on which each call takes effect in one step between
request and answer. `BTree!ImplementsKVStore` is the refinement. The map is read off the chain of leaves
(`ChainMap`), a PUT takes effect with the `SyncFrame` of its leaf or the assignment of the root,
a DELETE likewise, a GET when it reads a leaf. An empty value is refused, but as the first value of an empty store it is stored nevertheless.
The call that meets a failure of the cache may end with an error or a panic, a PUT or DELETE also with success, in each case
with or without its effect; the other calls keep their promise.

**`DiskManager`.** A call is named by a member of `Requests`; the queue object and
the goroutine it may create carry the same name. `LoadQueue` and `StoreQueue` are the two
accesses to the `sync.Map` `Queues`, `addJob` the append and the decision to spawn,
`runStart`, `runPop`, `runExit` the three critical sections of `run`. The content of a
page is the sequence of the writes applied to it; `synced` is how much of it an fsync
has covered. Every system call may fail, and does after `Close`.

**`PageFile`** is what the pager relies on: a request takes effect once, in one step,
between call and reply. `DiskManager!ImplementsPageFile` is the refinement; a request is
"performed" once its `WriteAt` or `ReadAt` has returned.

**`Wal`.** Logs and checkpoints are numbered in the order in which they got their LSN. The wal
file is a sequence of records with the position of each and the place where a page header was
inserted into it. Taking the LSN (`AddLog`) and adding to the buffer (`Add`) are two steps,
as they are under two mutexes. `truncateConfig` and `saveCheckpoint` are the two writes of
the config file. A log may be larger than a page. The next offset then lies behind its page, and `checkLogOverflow` slices a later record out of
range (`OutOfRange`): the conversion of the list that holds it panics, and nothing more is written (`Stopped`).

**`Recovery`** adds `Crash`, which loses memory and any suffix of the wal file behind its first,
synced checkpoint, `Restart` (`loadMaxLSN`, then the checkpoint that the config file names), and
the walk, a step per record. The tree may refuse a log, and `reapplyLog` then panics (`reapplyFails`, mode "failed").
Bytes that are no record lead to the mode "garbage", from which the model does not continue.

**`Clock`** is `EvictWithoutClearing` entry by entry, with the pins and releases of others in
between. `holds` and `refs` count the calls of `unref` still to come, `refs` those of DELETE jobs, whose `reference` ignores marks; `torn` has the
entries that were reset while one of these calls was still to come, whose pins no longer tell their users. **`Shard`** uses the result of the sweep: any entry of the segment that is neither accessed nor marked, or
nil (`FindsNone`) when there is none or when others are at work, since they may have pinned each entry just when the hand
passed it. A job is one step per critical section (hash table access, entry mutex,
W-TinyLFU mutex, frame latch, I/O). The TinyLFU counts decide between two victims in the
code; in the model either may lose. Pages are versions, read and written in one step as
`PageFile` promises. Simplifications: `dead` stands for both `Frame.isDeleted` and the page's dead bit,
which differ only when a DELETE marks an entry that was reset before; the unmapping and the
unpinning of a dead frame by GET are one step.

**`TinyLfu`** has the goroutines that `WTinyLfu.Increment` starts. The doorkeeper is read bit by bit
(`isSet`), its bits are set in one critical section; counting, halving (`reset`) and `Clear` are one each. The hash functions
are the constants `Bit` and `Cell`, of which nothing is assumed but that a key has an index in each row and at least one bit.

**`Logger`** has the linked list under its mutex, the test of `running` after an insertion (`Start`), the
goroutines that this test may start, and the output under the logger's mutex, which is kept while the goroutine sends
on a caller's channel (`Send`). The mode, DEBUG or PRODUCTION, is chosen initially and decides which
logs the handler writes.

**`Pager`** has the ids: in use, in the free list, in the list's file. A flush is a step per
page of the list under the list's mutex. A flush that has timed out holds up its flusher; the
next flush that the code would start beside it behaves like another flusher.

The modules `MC...` are the instances for TLC; they say what the constants in the `.cfg` files
stand for. `MCShard` adds symmetry, `MCBTree` the scripts. The modules `..._proofs` hold the theorems.

## Runs that pass

| Run | Shows | Bounds |
|---|---|---|
| `BTreeMap` | `TreeIsSound`, `DeletionKeepsOtherKeys`, `ReadersAreHonest`, `NoPanicWithoutDeletion`, `ImplementsKVStore`, `EveryCallEnds` | 14 scripts, up to 20 keys and three levels, then 2 calls by 2 clients with 1 failure of the cache, or 3 calls without |
| `DiskManagerPages` | `NoStrandedJob`, `JobConserved`, `FlushedIsDurable`, `ImplementsPageFile`, `EveryRequestAnswered` | 2 requests of every kind, 2 pages, errors, `Close`: enough for two racing creations of a queue, two goroutines on it and one about to exit |
| `WalOrder` | `LsnsDisjoint`, `OffsetInPage`, `ItemsConserved`, `AlignedInOrder`, `RedoBetweenRecords`, `EveryLogWritten` | 2 clients, 5 items, pages of 24 bytes, logs of 7, 9 and 40: page changes, exact fits, split records, a log larger than a page |
| `RecoveryWalk` | `WalkableIsRecovered`, `LsnsContinue` | 5 items of the same sizes, 2 crashes, so that recovery itself is interrupted |
| `ClockSweep` | `VictimIsExclusive`, `NoEligibleMissed`, `SweepEnds` | 2 entries, 2 segments, 2 loops, 2 retries, 2 pins and 1 DELETE job per entry |
| `ShardPins` | `NoPanic`, `MainCountsExact`, `PinsCoverHolders`, `HeldIsStable` | 2 callers, 3 frames, a capacity of 1 per segment, 6 jobs, I/O errors, background writer |
| `ShardWrites` | `NoLostWrite`, `GetReturnsPage` | 1 caller, 6 jobs, 2 writes, 4 pages over 4 frames, a probation segment of 2, so that the shard goes on when one frame is left marked |
| `ShardLiveness` | `EveryJobEnds` | 2 callers, 4 jobs of all three kinds |
| `TinyLfuCounts` | `NeverUnderestimates`, `FirstAccessesBounded`, `SampleBounded`, `ResetsBounded` | 3 goroutines, 7 accesses, 2 colliding keys, a sample of 2 |
| `PagerIds` | `FlushedIdsUnique`, `PageCountExact` | 2 page ids, list pages of one id so that a flush takes several steps, a flusher with timeouts, 1 metadata flush, 1 crash |
| `LoggerQueue` | `QueueIsList`, `WrittenOnce`, `OrderUpToRunners`, `EveryLogWritten`, `EveryCallerAnswered` | 2 callers, 3 logs, of which two are waited for and one is of level Debug, both modes |

Every module also has a type invariant, `TypeOK` (`RecTypeOK` in `Recovery`, `ClockTypeOK` in `Clock`), as the description of its state. The runs do not
list it: in `DiskManager`, `Clock`, `TinyLfu` and `Logger` it is proved, and for the others it holds when it is added to
the configuration.

The scripts of `BTreeMap` are the ways into the branches of the code: no root, a single key, a full leaf as
root, a full root above leaves, a full internal node with a sibling, a leaf that borrows or merges to either
side, internal nodes that borrow from the left or from the right, merge, or have no sibling, a root that collapses. `MCBTree` lists
them. After a script every pair of calls by two clients is tried, in every interleaving; on an empty tree and on a full leaf also
three, so that a reader meets what two overlapping writers do and leave.
The keys of `TinyLfuCounts` share a bit of the doorkeeper and a cell of the sketch; with its sample size
all goroutines can find the sample full at once.

What they leave open:

- The properties of the tree say how far they go, with `harm` and `torn`. Beyond that the code does not
  keep them: two writers that overlap lose updates, a deletion that borrows leaves a parent with a separator too many, a
  reader during a split misses keys, a failure of the cache between two pages of a split leaves it half done. `ReadersAreHonest` has no such condition. `EveryCallEnds` is about calls that meet no lock
  that an earlier return has kept and no page that was emptied under a range.
- `ShardPins` has no DELETE, and `NoLostWrite` and `GetReturnsPage` have one caller and no I/O errors. The code
  does not keep these properties beyond that: see `ShardDelete` and `ShardStale` below, and the
  hazards on two frames for one page and on a failed background write in `PROJECT.json`. `NoLostWrite` excepts a frame that
  an eviction with one victim out of two has left marked: the next GET of its page takes it for a miss and reads the older page from the data file.
- `VictimIsExclusive` says nothing about the pins of an entry once a DELETE job has kept it over a reset.
- `OffsetInPage` promises offsets in their page until an item does not fit one; nothing in the code keeps a larger one out. `EveryLogWritten` ends
  with the panic of the writer.
- `AlignedInOrder`, `RedoBetweenRecords`, `WalkableIsRecovered` and `LsnsContinue` state their conditions: records added
  in LSN order, no exact fit before the last record, no log across a page, or across one behind the first.
  The configurations below show that each condition is needed.
- `FlushedIdsUnique` is about crashes that find everything flushed. `PagerIds` sets the size of a
  list entry to one, so that `flushFreeList` counts its pages correctly; `PagerFreeList` below
  has the code's proportions.

The other bounds (`MaxItems`, `MaxJobs`, `MaxWrites`, `MaxDying`, `MaxMetas`, `MaxCrashes`, `MaxPins`, `MaxRefs`, `MaxAccesses`,
the calls and failures of a script) only
cap counters in guards; at the bound the specification stops, so that most runs do not check
for deadlock. `ClockSweep` and `LoggerQueue` do.

## Fairness

- `BTree`: weak fairness of every goroutine with a call, as the Go scheduler gives; none for beginning a
  call. Locks are held across steps only by calls that have forgotten them.
- `DiskManager`: weak fairness of every goroutine that has started;
  none for making a call, for `ForceFlush` and for `Close`.
- `Wal`: weak fairness of the background writer, which loops for ever, and of completing a
  call that has begun.
- `Clock`: weak fairness of the sweep only.
- `Shard`: weak fairness of the workers and of the background writer once it holds a pin, and
  callers that give back their frames. Jobs are bounded, so that waiting for the
  W-TinyLFU mutex does not need more.
- `Logger`: weak fairness of every goroutine of `run` and of completing `Write`; none for calling it. The logger's
  mutex is released before a goroutine takes the next log, and the logs are finitely many.

## The run that shows a disagreement

`BTreeRoot` checks `RootIsLive`, the reading of "mark old root for deletion"
(`pkg/bptree/bp_tree.go:1645`). When the last separator of the root goes, the only child becomes the root, and
then this child, not the old root, is marked dead and overwritten with the old root's content.

Further configurations reproduce other disagreements between code and comments, and why the
properties above carry conditions; each ends in a
counterexample. They are not listed as runs in `PROJECT.json`.

| Configuration | Module | Property | What happens |
|---|---|---|---|
| `BTreeLimit` | `MCBTree` | `RangeKeepsLimit` | a range returns more items than asked for: its limit is not applied to the first leaf |
| `LoggerOrder` | `MCLogger` | `TotalOrder` | two goroutines of `run` write two logs in the wrong order |
| `WalRedo` | `MCWal` | `RedoAfterLog` | the REDO point of a log across two pages lies inside the log |
| `WalExactFit` | `MCWal` | `LsnIsPosition` | a record that ends with its page is followed by two page headers |
| `WalTwoWriters` | `MCWal` | `LsnIsPosition` | two clients add their logs against the order of the LSNs |
| `RecoverySecondPage` | `MCRecovery` | `RecoverReappliesLogs` | the walk panics at a log that crosses into the third page |
| `RecoveryMaxLsn` | `MCRecovery` | `MaxLsnFromSize` | LSNs are issued twice when records were out of order |
| `RecoveryCheckpoint` | `MCRecovery` | `CheckpointInWal` | the config file is empty or names a checkpoint that is not in the log |
| `ShardStale` | `MCShard` | `GetReturnsPage` | with two callers, a late GET returns a frame that holds another page |
| `ShardReadError` | `MCShard` | `IdlePoolServes` | a failed read leaks a window slot |
| `ShardDelete` | `MCShard` | `HeldIsPinned` | a late DELETE takes another caller's pin |
| `ShardMarks` | `MCShard` | `IdlePoolServes` | an eviction without its second victim leaves the first one marked |
| `DiskManagerOverlap` | `MCDiskManager` | `ConcurrentWritesOnDistinctPages` | two goroutines write the same page at once |
| `PagerReissue` | `MCPager` | `NewPageIdIsNew` | after a crash the id of a stored page is issued again |
| `PagerFreeList` | `MCPager` | `FileHoldsFreeList` | only part of a longer free list is written |

Two comments on the filter say more than the code does, without a property here:
`internal/tinylfu/doorkeeper.go:7` adds 1 to the estimate of a key that is in the doorkeeper, which `CheckItemCount` does not,
and `count-min-sketch.go:10` divides the counters by 2 when the sample is full, which several
goroutines may do for the same sample (`ResetsBounded` says how many).

## What is proved

**`DiskManager_proofs`**, from `KindsAssumption` and `NilAssumption` only, for any
sets `Requests` and `Offsets`:

- `TypeCorrect`: `Spec => []TypeOK`
- `NoJobStranded`: `Spec => [](NoStrandedJob /\ RunningIsDrained)`
- `JobsConserved`: `Spec => []JobConserved`
- `AnsweredFlushIsDurable`: `Spec => []FlushedIsDurable`
- `Implementation`: `Spec => ImplementsPageFile`

The first three rest on the invariant `QueueInv`. `NoStrandedJob` alone is not inductive: when `runExit`
resets `running` although another goroutine still drains the queue, one must know that the
queue was empty at that moment, and when `addJob` spawns nobody, that `running`
implies a goroutine past its first statement (`RunningIsDrained`). That in turn needs the
relation between a call's progress, its queue and its goroutine, and that a job is in
one position only. `FlushInv` adds, for the durability theorem, that a goroutine about to
fsync has its write in the file and that no fsync count exceeds the writes. The refinement uses
both: a request that is held is waiting, and no other goroutine holds it.

**`Wal_proofs`**, from the assumption that a checkpoint fits into a page behind its header, for any sizes of logs and any
number of clients: `LsnsAreDisjoint` (`LsnsDisjoint`), `OffsetsAreInPages` (`OffsetInPage`), `RecordsAligned`
(`AlignedInOrder`), `RedoIsBetween` (`RedoBetweenRecords`) and `NoItemLost` (`ItemsConserved`). The first two need an invariant that relates every
LSN issued to the next one: the record it names ends before the next LSN, also when a page header
lies between them, and bounds its offset as long as the items fit a page (`OffsetInv`). The argument is the page arithmetic of `assignLSN` (`AdvanceStep`). The next two compare it with the
arithmetic of `checkLogOverflow`: `FileInv` says that a record has a header inserted exactly if its LSN range leaves its
page, and that the file ends with the last record. A record without such a header is preceded by one if its offset is
the first of a page, and behind a record that is no exact fit it never is (`NotFirst`).
For `NoItemLost`, `PlaceInv` follows each item through `At`, its place: with its client or the checkpointer, in the buffer, among the items taken, in the file.
Every step moves one item, or the whole buffer, from one place to the next.

**`Recovery_proofs`**, from the same assumption, that a log is longer than its header, and for behaviours in which every item fits a page (`[]AllFit`), for any number of clients and crashes,
whatever part of the file each crash takes: `RestartContinues` (`LsnsContinue`) and `RecoveryReplays` (`WalkableIsRecovered`).
After a crash LSNs are assigned a second time, and what was proved of them in `Wal_proofs` is lost. `LogInv` keeps what
remains: of the file, that its records follow each other, and that as far as they are at their LSNs they do so without a gap (`RecordsInv`); that
an item on its way to the file got its LSN since the restart (`FlightInv`); that the next LSN lies behind the file while the file is in LSN order
(`NextInv`); and that the checkpoints in use are checkpoints (`NamedInv`). A restart re-establishes it with the division of the
file size by the page size (`PageRange`, `EndInPage`). `WalkInv` follows the walk over such a file: behind record `k` it has replayed the
first logs of those it has to, as many as there are up to `k`. `RecordLies` is the geometry of a record, which decides
what `readLogHeader` and `readFullLog` cut out; `NoLogBehind` that the walk does not end before the last log, although
the header it tries to read there can be longer than the record; `NthIs` counts the logs.

**`Pager_proofs`**, for any number of ids, flushers, overlapping deletions, crashes and restarts and any layout of the free list file:
`PageCountIsExact` (`PageCountExact`) and `IdsHaveOneOwner` (`IdsUnique` until the first crash). The count needs the ids: `NewPageId`
does not touch it, and so must not issue the id of a page that is counted. `IdsStayUnique` (`FlushedIdsUnique`) goes over crashes and restarts.
`CleanInv` says what the file holds at every moment: while a flusher has `FreeList.mu`, the pages it has written are those of the list (`FlusherInv`; `Holds`,
`PageOf`); after `Truncate` the file is these pages and no others; after a crash that found everything flushed it is the
pages of a list of free ids. The list can be longer than the file, since `flushFreeList` counts too few pages. `Loaded` shows that `loadFreeList`
reads a prefix of that list, so that ids are lost and none is assigned twice. The lemmas before it
(`Layout`, `PageBounds`, `DivMod`) are the arithmetic of pages.

**`Eviction_proofs`**. The clock, for any number of entries, segments and retries, and at least two loops (`clock.go:18` has two):
`VictimsAreExclusive` (`VictimIsExclusive`) and `NoneMissed` (`NoEligibleMissed`). The first needs the account of all pins (`PinsInv`): an
entry that is not torn has one for each user, one for the owner of a victim and one for the metadata page, so that an entry without pins, as
the sweep takes it, has no users. For the second, `SteadyInv` follows every
entry `k` that stayed eligible: the number of the step plus the distance from the hand to `k` changes only when the hand passes `k`, and then
grows by the number of entries. So it tells how often the hand has passed `k`: once, and `ref` is cleared; a second time would
have returned `k`.
The admission filter, for any tables, hash functions, keys, sample size and finite set of goroutines:
`TypeCorrect`, `SketchNeverUnderestimates`, `DoorkeeperBounded`, `SampleSizeBounded`, `SampleResetsBounded`. The first of the
bounds needs that each row of the sketch, not only their minimum, dominates the counts (`SketchInv`; halving is monotone). `DoorInv` says that a
key with an uncounted access has all its bits set, and that these accesses and the goroutines still on their way to `Add`
are together at most the goroutines: whoever starts to read later finds the bits set. `SampleInv` counts the goroutines that have
seen a full sample and not yet reset it.

**`Logger_proofs`**, for any finite set of logs and any callers: `TypeCorrect`, `ListCorrect` (`QueueIsList`), `OnceCorrect`
(`WrittenOnce`), `OrderCorrect` (`OrderUpToRunners`). The log order needs that the logs taken are a prefix of those added, that
each of them that the mode admits is in the file or held by one goroutine (`TakenInv`, `HeldOnce`, `NoneLost`), so that the older ones missing when a log is
written are each in the hands of another goroutine.

**`Shard_invariant` and `Shard_proofs`**, for any number of callers, pages and frames, any capacities that add up to the frames, with
failed reads and writes and with or without the background writer, as long as no page is deleted (`"delete" \notin Ops`): `NeverPanics` (`NoPanic`), `MainCountsAreExact`
(`MainCountsExact`), `PinsCover` (`PinsCoverHolders`) and `HeldStaysStable` (`HeldIsStable`). The hypothesis is the code's: DELETE pins an entry
without looking at what has become of it, and the properties fail with it (configuration `ShardDelete`). None of the four is
inductive. `PinInv` adds what each job knows at each stage (`JobInv`: which stages hold `WTinyLfu.mu`, which counters they have
looked at), that a job has the victims it has chosen and the frame it fills to itself (`Sole`), and what marks and segments of
these entries are (`FrameInv`); `acc` is true exactly while there are pins, and a used entry has at least as many
pins as holders (`EntryInv`). `GoodStep(w)` and `GoodBgStep` say what a step of a job and of the background writer may do to
the entries, the counters and the lock, and that it leaves its own part of the invariant true; one lemma per action shows that it is such a
step, and `JobKeeps` and `BgKeeps` that such a step keeps the rest: nobody can begin to use an entry that another
job owns, since it is pinned and marked or not occupied. The cardinalities that this needs (`Counting`) are proved at the end, from the
theorems on finite sets. TLC has checked `PinInv` with the constants of `ShardPins`.

Only model-checked: everything about `BTree`, what a page contains in `Shard`, and all liveness
properties (liveness under fairness is beyond this prover). That `BTree` implements `KVStore` needs induction
over the depth of the tree and the chain of leaves, which is beyond it, too.

## What is not modelled, and why

- The dirty page list (`p_dirty.go`): `markFrameDirty` appends to it and nothing reads it; `popDirtyPage` and `removePage`
  have no caller.
- In the tree: LSNs in pages, pins (`RangeSearch` keeps all of its), `Shutdown`, calls with more than one
  key, which no handler makes. Torn pages after a crash.
- In the logger: `Close`, a second `NewLogger`, the rolling of the file (a library).
- Torn records; bytes that recovery misreads.
- The root page id of the pager, the reserved metadata frame, `Close` of the buffer manager, the routing to
  shards. The 32-bit offset of a page. The layout of a page (`page.go`), which is encoding without
  control of its own.
- HTTP, JSON, terminal output, hash functions, the allocator, the workload generator.

## Plan

1. Composition: `Shard` over `Pager` (a page freed twice, ids in use and in frames), with two
   callers missing on one page; the tree over `Shard`, with its pins; the log ahead of the pages (the write-ahead rule).
2. The root page id in `Pager`, offsets with a reduced word size, torn records in `Recovery`.
3. Theorems: `NoLostWrite` and `GetReturnsPage` (`Shard` with one caller).
