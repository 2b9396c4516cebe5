# A verification of go-wallib's write-ahead log

TLA+ modules that model the log of `src/pkg/wal` and `src/internal/segment`, the
TLC runs that check them on small instances, and the theorems that TLAPS proves
about them for every instance.

- `WalStore` and the modules under it model everything that touches the disk:
  commits, rolls, `Truncate`, `CutOffset`, `Close` and the recovery in `Open`,
  with crashes, power losses and failed system calls at any step.
- `WalInvariant` states an inductive invariant of it, which `WalStore_proofs` and
  `Placement_proofs` prove; `Agreement_proofs`, `Durability_proofs` and
  `Refinement_proofs` prove what rests on it: that memory and disk agree, what a
  crash may leave (`WalSurvival`), and that readers can count on it.
- `WalQueue` models the goroutines around the writer: appenders and their bounded
  queue, `Sync`, `Truncate` and `CutOffset`, followers that wait for commits, the
  interval flusher and `Close`. `WalQueue_proofs` proves its safety.
- `SharedLog` is the log as its readers see it, and what `WalStore` implements
  (`WalRefinement`). `WalReader` and `WalFollower` are the Reader and the follower
  that read it while the writer goes on; `ReaderFollower_proofs` proves them.
- `RecordScanner` models the bytes of one segment file: framing, scanning and the
  chopping of a torn tail; `RecordScanner_proofs` proves it.

## The system

One process at a time opens a directory (`Open`). A single goroutine, the writer,
executes everything that changes the log; the API hands it requests over
channels. Readers and followers open the segment files themselves and share only
the segment index and the LSN bounds with the writer, under `w.mu`.

| Part | State | Operations | What is hard | What makes it correct |
|---|---|---|---|---|
| Segment files, `segment.go` | header, records, tracked size; what of it is fsynced | `Create`, `Open`, `Append`, `Sync`, `Scan`, `TruncateTo`, `RewriteFrom` | failed and partial writes; a stop between open, header, fsync and directory fsync; the rename of a rewrite | a named file holds consecutive LSNs from its base; a rewrite keeps exactly the records from the cut on |
| Group commit and roll, `writer.go` | `active`, `segmentBaseLSNs`, `nextLSN`, `firstLSN`, `lastLSN` | `commit`, `writeRecord`, `roll`, `finishBatch`, `syncActive` | one request of a batch fails; the fsync fails after the records are written; a roll half done | acknowledged records are durable as the policy says and stay readable; LSNs are gapless and never reused |
| `Truncate`, `CutOffset`, `writer.go` | the same, and the segments still to delete | `doTruncate`, `doCut`, `cutDeleteBelow`, `cutRewriteBoundary`, `cutEverything` | every prefix of the deletions can be what a crash leaves; a failed deletion leaves the index stale | nothing at or above the bound is lost, nothing below a completed cut comes back |
| Recovery, `wal.go` | the segments collected so far | `recover`, `openAndScanSegments`, `reconcileBoundary`, `truncateTornTail`, `pruneEmptyTrailing`, `installState` | recovery is interrupted too; telling an interrupted cut from corruption; an empty log above LSN 1 | only damage is refused; bounds agree with the disk |
| Queue and writer loop, `writer.go` | `requestCh`, `controlCh`, `truncateCh`, `cutCh`, `subscribeCh`, `closed` | `enqueue`, `gather`, `drain`, `writerLoop`, `flushLoop` | `Close` against callers at every point; contexts that end while a request is queued | every request that was taken is answered, exactly once; `Close` ends |
| Readers, `reader.go` | snapshot of names and last LSN, position | `Next`, `openNext`, `relistAfter`, `accept` | segments deleted and replaced while they are read | no record of the window skipped or yielded twice |
| Followers, `follower.go`, `writer.go` | position, `pendingWaiters` | `Records`, `awaitCommit`, `handleSubscribe`, `wakeFollowers` | a commit between snapshot and subscription; cuts that overtake | every committed record delivered, or `ErrTruncated` |
| Framing and header, `record.go`, `scanner.go`, `header.go`, `dir.go` | none | encode, decode, list | torn and corrupt input | a scan returns the longest valid prefix |
| Options, logging, errors, entries | none | | | |

`PROJECT.json` lists the same parts with the modules that model them, and under
"hazards" each place of the code where one of these difficulties bites, with the
properties that would catch it.

## The modules

| Module | Models | Correspondence |
|---|---|---|
| `SegmentFile` | the contents of one file | `data` are the records, `synced` how many a power loss cannot take, `junk` the undecodable bytes behind them, `hdr` whether the header is there and durable |
| `WalState` | variables, jobs, file deletion | `files`, `dir`, `durableDir`, `temps` are the file system; `active`, `index`, `nextLSN`, `firstLSN`, `lastLSN` are the fields of the `WAL` struct (`index` is `segmentBaseLSNs`); `pc`, `batch`, `job`, `fresh` are where the one active goroutine is and its locals |
| `WalWriter` | the writer's handlers | one action per step that a crash, a failed call or a reader could see: `commit` is `BeginCommit`, `WriteRecord`, `CompleteRequest`, `FinishBatch`; `roll` is `StartRoll`, `Create...`, `InstallRoll`; a cut is `CutInside` or `CutEverything`, `RewriteTemp`, `PublishRewrite`, `PublishSync`, the deletions, and `FinishCut...` |
| `WalRecovery` | `Open` | `OpenDir`, one `ScanSegment` or `Reconcile` per segment, `TruncateTornTail`, the deletions, `InstallState`; `OpenCorrupt` is `ErrCorrupt` |
| `WalStore` | composition, stops, properties | `Close`, `Kill`, `PowerLoss`; `Next`; all properties |
| `WalInvariant` | the inductive invariant `IInv` | |
| `WalQueue` | the goroutines and channels around the writer | `pc[p]` is where goroutine p is: `entering` before `closeMu`, `sending` on `requestCh` with `closeMu` held for reading (`readers`), `submitting` on an unbuffered channel, `waiting` for its result channel (`reply`), `parked` on its `notify` channel. `wpc`, `batch`, `outcome` are the writer's place and the group commit in its hands; `waiters` is `pendingWaiters`; `isClosed`, `closed`, `once` are the flag, the channel and the `sync.Once` of `Close` |
| `SharedLog` | what the writer shows its readers | a file is its base LSN and the LSN after its last record (`segs`); `bases`, `nextLSN`, `firstLSN`, `lastLSN` as in the `WAL` struct; `drop` is the `Truncate` or `CutOffset` under way: the files still to delete, the index and first LSN it will install. Only the steps a reader can see are left of the handlers; recovery is a condition on what `Open` installs (`Opened`) |
| `WalRefinement` | `WalStore` implements `SharedLog` | `SL!Spec` with `segs`, `bases`, `open` and `drop` read off the directory, the index and the job |
| `WalSurvival` | the inductive invariants of the directories a crash may leave: `Survival`, of their records, and `Reopens`, of what `Open` can read | |
| `WalReader` | `NewReader`, `Next`, `Replay`, `Close` | `cursor` is the `Reader`: `step` says whether it opens the next segment of its snapshot, relists the directory, or scans a file; `from`, `end`, `names`, `file` are `fromLSN`, `endLSN`, the segments left and the open one; `seen` is what it has yielded |
| `WalFollower` | `Follower`, `Records`, `scanBatch`, `waitForCommit` | `follower.step` is where the loop is, `HighWater` its position, `Woken` the return of `awaitCommit`, whose channels are in `WalQueue` |
| `ReaderInvariant` | the inductive invariant `FInv` of the two | |
| `RecordScanner` | `Encode`, `Append`, `Scanner.Next`, `truncateTornTail` by sizes | a frame is where it starts, its Length field, the payload bytes it takes and whether its checksum matches; `size` is the length of the file, `offset` and `err` are the scanner's |
| `MCWalStore`, `MCWalQueue` | workloads and symmetry for TLC | |

### Choices

- **Files have an identity of their own.** `dir` maps a base LSN to an inode, so a
  file that is unlinked while the writer still has it open, or replaced by a
  rename, is modelled as it behaves. `durableDir` is the directory as of its last
  fsync; a fsync of the directory makes all of it durable. An inode no directory
  names and no one has open is free again.
- **Two crash models.** A kill keeps the page cache: the disk stays as it is. A
  power loss keeps any subset of the directory changes since the last fsync of
  the directory, and of every file a prefix of the records written since its last
  fsync, possibly with undecodable bytes after it.
- **A record** is its LSN, the incarnation of the process that wrote it (so that
  a record with a reused LSN is told from the original) and its size. The 28
  bytes of the segment header count for no size, and `MaxSegmentSize` is in the
  same units.
- **A request** is a sequence of payload sizes; a group commit, a sequence of
  requests. `commit` leaves out a request whose context is done before it writes
  anything for it, so the batches of the model are what remains. `SyncImmediate`
  and `SyncBatched` differ only in how a batch is gathered, so they behave alike
  here; they differ from `SyncInterval` in `FsyncOnCommit`.
- **Merged steps.** The header, the records and the fsync of a rewrite's temporary
  file are one step: until the rename nothing but its name is visible, and
  recovery removes it whatever it holds. `TruncateTo` is one step when it
  succeeds; its fsync failing after the truncation is a case of
  `TruncateTornTailFails`. In that case the bytes are gone in the model, and a later
  power loss does not bring them back although it could; the states in which they
  are back are those of a truncation that failed itself, and the next `Open`
  truncates them again. The removal of temporary files by `Open`, with the fsync of
  the directory when there were any (`dir.go:113`), is part of `OpenDir`.
- **Failed calls that change nothing and are only reported** (an interval flush or
  `Sync` whose fsync fails, the close of an old segment after a cut is installed,
  a failed `ReadDir`) are not actions. A failed fsync leaves the pages dirty.
- **The queue** sees the log as LSNs: the next one, the last one published and the
  highest one on stable storage. One request is one record; a request that fails
  may or may not have used an LSN. Each arm of a `select` is an action, or a
  disjunct of one, and whichever is ready may be taken. The unbuffered channels
  have no state: `Accept` and `Subscribe` hand the request over. An `RWMutex` keeps
  new readers out while a `Lock` is pending (`LockPending`). The publication of the
  last LSN and the wakeup of the followers are one step, because only the writer,
  which is busy until both are done, takes subscriptions.
- **Readers beside the writer.** A reader opens the files of its snapshot one by
  one, and any number of writer steps come between any two of its own; a file it
  has open stays readable after it is unlinked (`cursor.top` keeps its end). The
  reading of the directory in `relistAfter` is one step. Bytes of a record being
  written, or left by a failed write, end the file for the reader, or fail it
  (`ReadFails`). `RecordsChan` runs the same loop in a goroutine.
- A cut of everything while the active segment is empty deletes the new segment's
  own name (`bug_cut_empty_active`); that case is left out of `SharedLog`, and in
  `store_power`, where no call fails, an empty active segment with older records
  before it does not occur.
- A reader that outlives the `Close` of its log is not modelled; it reads files
  nobody changes then.
- **Bytes.** `RecordScanner` writes a frame byte by byte, so that a stop comes
  between any two. A power loss leaves the file ending anywhere in or after the
  frames that were not synced; it may damage the first of these. What is behind a damaged
  frame is never reached, so nothing is said of it. A damaged Length field is 0;
  larger ones read as a torn record or one above the limit.
- `Segment.lastLSN` is written but never read by the log and is left out.

### History variables

`acked` holds the records whose append returned nil, `promised` those the policy
promises to survive a power loss (all of `acked` with an fsync per commit; those
covered by the last flush, `Sync` or `Close` with `SyncInterval`). A power loss
sets `acked` to `promised`. `floor` is the highest bound given to `Truncate` or
`CutOffset`, below which records may be gone; `cutDone` the highest cut that
returned nil, below which they must be gone. `crashed` records where the process
was at each crash since the last successful `Open`, `corrupt` that some `Open` since
then returned `ErrCorrupt`, `faults` the system calls that failed and where.

## The runs

TLC enumerates every interleaving of the workload with the stops and failures the
run allows. Deadlock is checked in the `store` and `scanner` runs and the `bug` runs of
their modules; in the `queue` runs the callers may simply stop calling, and in `reader`
and `bug_follower` the reader ends.

| Run | Instance | Shows |
|---|---|---|
| `store_power` | fsync per commit; two power losses at any step, recovery included; 5 LSNs | nothing acknowledged is lost (`AckedReadable`), what readers were shown is durable (`PublishedDurable`), sealed segments and names are durable (`SealedDurable`), LSNs are gapless and never reused, the installed bounds and index agree with the disk, a cut is final, no roll, cut or recovery destroys the only copy of a record, and every step is one `SharedLog` allows (`ImplementsSharedLog`) |
| `store_interval` | `SyncInterval`; one close, kill or power loss at any step; 5 LSNs | what the policy promises stays readable, a cut is final, and `Open` refuses a log only after a stop in two windows (`CorruptOnlyInWindows`): between the creation of a segment file and the fsync of its header, and, with this policy and power losses only, in a cut between the publication or creation of the new segment and the last deletion |
| `store_faults` | one failed system call and one stop, at any steps; records of two sizes | the inductive invariant `IInv`, and `FaultsContained`: outside the failures `Debris` names no failed call costs an acknowledged record |
| `reader` | a Reader or a follower (from any LSN, snapshot or follow mode) beside a writer that commits, rolls, truncates and cuts; 3 LSNs | a Reader that ends without an error has skipped nothing that is still on disk and repeats nothing, also where a cut has moved the records into a file its snapshot does not name; a follower leaves no gap over its rounds, raises `ErrTruncated` only for what is gone, and gets every commit (`FollowerDelivers`) |
| `scanner` | three records of three sizes, stops at any byte, power losses, recoveries with two record limits | a scan returns the longest whole prefix, a recovery leaves exactly that, a write cut short is torn and never corrupt, and no series of stops and recoveries takes an fsynced record |
| `queue_batched` | group commits of up to two that linger; three appenders, three appends, a follower, two calls of `Close`; any context may end, any write or fsync fail | no request is lost, written twice or left behind by `drain`; a canceled append has written nothing and can be retried; an acknowledged one is published and durable; no follower parks behind a commit |
| `queue_full` | a queue of two, three appenders, a `Truncate` or `CutOffset`, two calls of `Close` | every queued append is answered, and the cut and both calls of `Close` return, also while an appender holds `closeMu` at the full queue (`CallsReturn`) |
| `queue_interval` | the flusher, one appender with two appends, `Sync`, a follower, `Close` | `Sync` covers what was committed before it and `Close` what was in the queue; both return, wherever the flusher is (`CallsReturn`); the follower gets every commit and its loop ends with the WAL |

The bounds. A segment holds two units, so three records of one unit make two
segments with a roll in a group commit, and five LSNs make the three segments a
cut needs below, at and above its boundary. Five inodes are enough: no state of
these runs needs a sixth (a directory and its durable copy never name more than
four files besides the one under construction; `CreateOpen` and `RewriteTemp`
would be blocked and reported as a deadlock otherwise). Two stops are what an
interrupted recovery takes. One failure is enough for the failures of single
calls; what two failures in a row do is not explored, except by the proofs, which
have no bound.

In `reader` every record may be in a segment of its own or share one: three LSNs
make the snapshot of three files of which one is deleted, one replaced and one
read. The theorems have no such bound. In `scanner` a header is two bytes and
payloads have zero, one and three; under the smaller of the limits the largest
payload is refused by `AppendBatch`, which compares the encoded size, and taken by the
scanner, which compares the payload. Every case of `Next` occurs except a limit
lowered under existing records, which is `bug_lower_limit`.

The runs stop exploring at `MaxLSN`, `MaxFaults` and `MaxRestarts`: the guards that
use them are in `BeginCommit`, `Fault` and `Stop`, and in `Beside` for the writer that
the readers run beside.

The queue runs need three appenders to find an appender blocked at the full queue
of a batch size of one, or a third request for a full group commit of two. Liveness
is checked without symmetry on the smaller instances; calls of `Sync`, `CutOffset`
and of the flusher repeat without a bound, only appends are counted
(`MaxAppends`). `CallsReturn` is split over two of them: the full queue, the cut and
the second `Close` are in `queue_full`, the flusher and `Sync` in `queue_interval`.
No context ends in either, since that only lets a call return earlier;
`queue_batched` has the contexts that end.

Fairness. `WalStore` assumes none: it states safety only. In `WalQueue` every
goroutine that can go on does (weak fairness of its steps), which the Go scheduler
provides: it is preemptive, channel waiters are served first in, first out, and an
`RWMutex` does not starve its `Lock`. The arms of the writer's `select` and the
flusher's exit have strong fairness: `select` picks among the ready arms uniformly
at random, so an arm that is ready again and again is picked eventually. Without it
an endless series of `Sync` calls could keep the writer from ever seeing `closed`.
Of the writer's arm for the flusher it is not assumed: no call depends on it, because
a flusher that is not taken gives up when the WAL closes.
`FairFollower` has weak fairness of the follower's loop while it is not waiting for a
caller, and of what the writer has begun (installing a roll, deleting, installing a
cut); that the wakeup of a waiting follower comes is `WalQueue`'s `NoLostWakeup`
and `CommitsDelivered`. No fairness makes anybody call anything, ends a context, lets
the ticker tick or spares a write its failure.

## Where the code departs from its documentation

Each row is a run in which TLC finds the property violated; the shortest trace is
the scenario of the last column.

| Run | The repository says | What happens |
|---|---|---|
| `bug_roll` | an interrupted roll is reclaimed (`README.md:29`) | a kill between the `O_CREATE` and the header write of `Create` leaves a file without header; `Open` returns `ErrCorrupt` from then on |
| `bug_cut_empty_active` | the new segment is durable before any delete (`writer.go:609`) | with an empty active segment, the name deleted is the new segment's own; the log goes on in an unlinked file |
| `bug_follower` | when records a follower has not consumed are removed, its iterator ends (`README.md:143`) | a cut of everything sets `firstLSN` to 0 (`writer.go:638`), so the comparison in `follower.go:154` does not see it, while `lastLSN` is still ahead of the follower (`writer.go:89`): it goes round its loop without waiting until the next commit |
| `bug_lower_limit` | only a torn record, an incomplete trailing one, is chopped (`wal.go:253`) | opened with a smaller `WithMaxRecordSize`, the scanner stops at a whole record with `ErrTooLarge` (`scanner.go:74`), and it is chopped off with all that follows |

More that the same modules show with other constants (one record per commit is
`SmallBatches`, one of size 1 or 2 is `MixedBatches`), and that no run repeats:

- An interrupted cut leaves an overlap that recovery reconciles (`writer.go:490`);
  with `SyncInterval` the old boundary's unsynced tail is lost in a power failure
  and a gap is left: `ErrCorrupt`. `SmallBatches`, `Drops = {"cut"}`,
  `RestartKinds = {"power"}` violate `InterruptedCutReconciled`.
- A cut that failed partway works until recovery (`writer.go:432`); but appends go
  on to the old segment, which recovery deletes in favour of the replacement.
  `SmallBatches`, `Drops = {"cut"}`, `FaultKinds = {"remove"}`, `RestartKinds =
  {"close"}` violate `FailedCutHarmless`.
- Only the final segment may end in a torn record (`wal.go:173`); a failed write's
  bytes stay behind when the next record rolls: `ErrCorrupt` at the next `Open`.
  `MixedBatches`, `FaultKinds = {"append"}` violate `SealedDecodes`.
- A nil error means durable (`wal.go:407`); a `Create` that failed late leaves
  `seg-<nextLSN>`, a smaller record then takes that LSN in the old segment, and
  recovery deletes the log below the leftover. `MixedBatches`, `FaultKinds =
  {"header"}`, `RestartKinds = {"close"}` violate `AckedReadable`.
- A kill before the directory fsync of `Create`, then an `Open` that finds the file,
  appends and acknowledges, then a power loss: the segment is gone although a nil
  error means durable (`wal.go:407`) and `Create` makes the file durable
  (`segment.go:34`). `RestartKinds = {"kill", "power"}` with two restarts violate
  `AckedReadable`. Where the policy fsyncs no commits, the same two stops also violate
  `CorruptOnlyInWindows`: what the kill left in the page cache, recovery builds on, and
  the power loss takes.
- `LastLSN` is 0 if the log is empty (`wal.go:396`, `doc.go:8`); but a cut of everything
  leaves `lastLSN` as it was (`writer.go:638`), and recovery restores it
  (`wal.go:364`), as `README.md:159` and `cut_test.go:142` have it. `SmallBatches`,
  `Drops = {"cut"}` violate `EmptyLogHasNoLastLSN`; `BoundsMatchRecords` follows the
  code, the README and the test.
- `AppendBatch` with no payloads publishes a first LSN for a log without records,
  although `FirstLSN` documents 0 for it (`wal.go:388`, `writer.go:367`). The
  batch `<<<< >>>>` in `Batches` violates `BoundsMatchRecords`.
- A `CutOffset` after a first commit whose fsync failed returns nil and does
  nothing, because `firstLSN` is still 0; the next commit publishes the record
  (`writer.go:503`). `FaultKinds = {"sync"}` violates `CutIsFinal`.
- After a cut of everything whose last directory fsync fails, the writer goes on in
  the unlinked old segment (`writer.go:626`); the LSNs acknowledged there are given
  out again after a restart. `SmallBatches`, `Drops = {"cut"}`, `FaultKinds =
  {"dirsync"}`, `RestartKinds = {"kill"}` violate `LSNsNeverReused`.
- A snapshot follower whose unconsumed records are removed while it scans ends with a
  nil `Err` when nothing above them is left in its snapshot: `scanBatch` sees a gap
  only at the next record. `SnapshotComplete` therefore speaks of the records still
  on disk.
- `ErrInvalidLSN` is documented (`errors.go:19`) and nothing returns it.

The passing runs keep away from these by what they assume and name: `Debris` in
`FaultsContained`, the windows of `CorruptOnlyInWindows`, no failure together with
the properties above, no kill followed by a power loss. `store_interval` has one stop
only: that `CorruptOnlyInWindows` also holds over stops of recovery itself rests on
the theorem `CorruptOnlyInWindowsHolds`.

## The proofs

`tlapm` checks every step of the eight proof modules. Nothing is assumed but the
named assumptions on the constants: `WalStateAssumption` (the policy is one of the
three, sizes and bounds are natural numbers, batches are sequences of sequences of
sizes, and `Nil` is not a file), `WalQueueAssumption` (the kinds of goroutines are
disjoint, the batch size is positive, the policy one of the three),
`WalReaderAssumption` (the bound is a natural number) and `RecordScannerAssumption`
(sizes and limits are natural numbers, the header is not empty). So the theorems hold
for every set of files, workload, segment size, bound and, unless the last column
says otherwise, every set of failures and stops.

| Theorem | Says | Given |
|---|---|---|
| `TypeCorrectness`, `Control` (`WalStore_proofs`) | `Spec => []TypeOK`, `[]ControlOK` | |
| `Placement`, `Density` (`Placement_proofs`) | `Spec => []IInv`, `[]DenseSegments` | |
| `Monotonicity` (`Placement_proofs`) | `Spec => BoundsMonotone` | |
| `AgreementHolds` (`Agreement_proofs`) | `Spec => []Agreement` | `HarmlessFailures`, `NoEmptyRequests` |
| `GaplessHolds`, `BoundsMatchRecordsHolds` (`Agreement_proofs`) | `Spec => []Gapless`, `[]BoundsMatchRecords` | the same |
| `Implementation` (`Refinement_proofs`) | `Spec => ImplementsSharedLog` | the same |
| `DurabilityHolds` (`Durability_proofs`) | `Spec => []Durable` | the same and `NoKills` |
| `SealedDurableHolds`, `PublishedDurableHolds` (`Durability_proofs`) | `Spec => []SealedDurable`, `[]PublishedDurable` | the same |
| `SurvivalHolds` (`Durability_proofs`) | `Spec => []Survival` | `HarmlessFailures`, `NoEmptyRequests`, `OneKindOfCrash` |
| `AckedReadableHolds`, `CutIsFinalHolds` (`Durability_proofs`) | `Spec => []AckedReadable`, `[]CutIsFinal` | the same |
| `LSNsNeverReusedHolds`, `NoRecordDestroyedHolds` (`Durability_proofs`) | `Spec => LSNsNeverReused`, `NoRecordDestroyed` | the same |
| `ReopensHolds`, `CorruptOnlyInWindowsHolds` (`Durability_proofs`) | `Spec => []Reopens`, `[]CorruptOnlyInWindows` | the same |
| `QueueTypes`, `Conservation`, `CompleteDrain`, `Wakeups` (`WalQueue_proofs`) | `Spec => []` of `TypeOK`, `RequestsConserved`, `DrainIsComplete`, `NoLostWakeup` | |
| `CanceledAppends`, `Acknowledgements`, `SyncIsEnough`, `CloseIsEnough` (`WalQueue_proofs`) | `Spec => []` of `CanceledNotWritten`, `AckedPublished`, `SyncCovers`, `CloseCovers` | |
| `ReadersInvariant` (`ReaderFollower_proofs`) | `FollowerSpec => []FInv` | |
| `FollowerTypes`, `CompleteReads`, `AscendingReads` (`ReaderFollower_proofs`) | `FollowerSpec => []` of `FollowerTypeOK`, `ReaderComplete`, `YieldsAscend` | |
| `ContiguousFollower`, `TruncationIsReal`, `CompleteSnapshots` (`ReaderFollower_proofs`) | `FollowerSpec => []` of `FollowerContiguous`, `TruncatedMeansRemoved`, `SnapshotComplete` | |
| `ScannerInvariant`, `ReadyToAppendHolds` (`RecordScanner_proofs`) | `Spec => []ScannerInv`, `[]ReadyToAppend` | |
| `ScanFindsPrefixHolds`, `KilledIsTornHolds`, `SyncedKeptHolds` (`RecordScanner_proofs`) | `Spec => []` of `ScanFindsPrefix`, `KilledIsTorn`, `SyncedKept` | `LimitsAgree` |

The hypotheses are where the code stops keeping the property, not conveniences of the
proof; the rows and the list of the section before show the state that breaks it
without them.

- `HarmlessFailures`: no system call fails but the writing and renaming of a cut's
  temporary file (`writer.go:570`) and the truncation of a torn tail by `Open`
  (`wal.go:258`), which may fail any number of times. These are the calls after which
  the log is as it was. After a failed deletion, and after a failed fsync of the
  directory in a cut, directory and index disagree until the next recovery
  (`writer.go:432`); after a failed write, fsync, create or close of a segment, records
  of a request that returned an error may lie above `lastLSN`.
- `NoEmptyRequests`: no `AppendBatch` without payloads. It makes `publishLastLSN` set a
  first LSN for a log without records.
- `NoKills`: a process is closed or loses power, and is not killed. A kill leaves names
  and records in the page cache, and recovery fsyncs neither the directory nor the
  records it finds.
- `OneKindOfCrash`: processes are killed or lose power, any number of times, but not
  both in one behaviour. Recovery opens what a killed `Create` has left without the
  fsync of the directory that it still needs, and a power loss then takes the segment
  with the records acknowledged since: the violations of `AckedReadable` and
  `CorruptOnlyInWindows` above.
- `LimitsAgree`: the log is not reopened with a smaller record limit; the scanner takes
  a whole record above its limit for the end of the log (`bug_lower_limit`).

### The store

The argument has seven layers.

1. **Control.** `TypeOK` is not inductive: that `job.names[1]` exists, that the name
   to scan is in the directory, or that `index` is not empty depends on where the
   goroutine is. `ControlOK` adds what holds at each `pc`: which job kinds can be
   under way (`Kinds`), that there is a fresh file exactly where one is under
   construction, that the index is there once the log is open (`StepsOK`), and what
   recovery knows of the segments it has listed, collected and still deletes
   (`RecoveryOK`). `WalStore_proofs` proves that each action preserves it, one lemma
   per action, with the stops last. The module begins with what the proofs need of the
   operators of the model: what `Restrict`, `Link`, `SubSeq`, `Reverse`, the sums and
   the cuts do to types, order and placement.
2. **Placement.** `DenseSegments` (the i-th record of the file named b has LSN
   b + i - 1) is what the arithmetic of recovery and of the readers relies on. It is
   not inductive either: a record goes to the active file, so that file must be
   placed and its next LSN must be `nextLSN` (`ActiveOK`); the active file can be
   unlinked, or be named differently in the directory and its durable copy, so
   every name in either must agree (`NamesOK`); a rewritten file is placed by its
   base before it has a name (`FreshOK`); what a cut or a truncate will install is
   a suffix of the index, or one new base (`PlanOK`); and what pruning will leave
   ends with the last file that has records (`SurvivorsOK`). `PlacementOK` is their
   conjunction, proved relative to `ControlOK`. `BoundsInOrder` says between which bases
   the published bounds lie, which is what `BoundsMonotone` needs. `IInv` is the
   three, holds with any failure, and is itself an invariant of `store_faults`.
3. **Agreement.** While at most harmless calls fail, memory and disk say the same. `LogIndex` is the
   index, or the one that the operation under way will leave: its segments are named
   and each begins where the one before ends (`ChainOK`); beside them the directory holds
   only what is still to be deleted (`DeletionOK`) or scanned (`ScannedOK`), or the
   segment under construction (`NamedOK`); the last of them is the active one, and empty
   only in an empty log or in the middle of a roll (`EndOK`); the bounds are those of the
   records, except for the records of the group commit in hand (`BatchOK`, `BoundsOK`);
   and what a cut has planned still fits (`DropPlanOK`). A crash at any step leaves a
   directory that is a chain, or one with an overlap, and recovery makes a chain of either.
   `Gapless` and `BoundsMatchRecords` follow.
4. **Refinement.** Given `IInv` and `Agreement`, each action maps to an action of
   `SharedLog` or to a stutter (the lemmas `...Shown` and `...Unseen`), with `segs`,
   `bases` and `drop` read off the state (`Segs`, `Range(index)`, `UnderWay`).
   The three hard cases are `PublishRewrite`, where one file becomes two that overlap,
   the finish of a cut, where the index catches up with the directory, and
   `InstallState`, where whatever recovery made of the directory must satisfy
   `Opened`.
5. **Durability.** `Durable` says which names and files may be ahead of the disk: the
   names between a create, rename or unlink and the fsync of the directory that follows
   (`DirAhead`), the records of the active file, and the fresh file until it is fsynced.
   `SealedDurable` and `PublishedDurable` are what is left of it when the writer is
   idle.
6. **Crash consistency.** `Survival` (`WalSurvival`) is about two directories, the one
   in use and the durable one, which differ in at most one name (`OneApart`), so that
   a power loss leaves one of the two. Each record that must stay has its `Home` in
   either: a segment that holds it where its LSN says, of which no later segment
   covers that LSN (`Kept`). In the directory in use these are the acknowledged
   records and those of the batch, on disk; in both, where power may fail, the
   promised ones, on stable storage. Two segments overlap only where a cut has rewritten
   one as the other, whole and on stable storage (`CutOverlaps`), which is why
   recovery may drop the first; a segment is deleted only when its records are below
   the bound or in a later segment, and its LSNs are known to be used by what stays
   (`Dispensable`); nothing lies below the last cut (`CutOff`); and `AcksOK`
   places the acknowledged LSNs below `lastLSN` and those of the batch above. The first
   lemmas speak of any files and any directory: what `Kept` and `Sound` do when files
   grow, when a name is linked, rewritten or unlinked, and when a power loss leaves
   of each file what was fsynced and perhaps more (`Survives`). Then there is one
   lemma per action. The four properties are what `Survival` says when the log is
   open, at the end of a batch (`LSNsNeverReused`) and at a deletion
   (`NoRecordDestroyed`).
7. **Reopening.** `Survival` places the records; whether `Open` can read the directory
   depends on more. `Reopens` adds that, unless a crash fell into one of the windows,
   both directories are `Scannable`: every segment has its header, only the last may
   end in undecodable bytes, and no base lies above the end of the segment before it,
   which is what `openAndScanSegments` checks. A power loss may then take records of the
   last segment only (`TailOnly`), because a roll fsyncs a segment before it leaves it.
   The segment under construction is left out (`Built`), which is the first window; in
   a cut under `SyncInterval` the old boundary may still lose its tail while the
   replacement is named (`TailExposed`), which is the second. `EndsOK` is why no step
   opens a gap: names come and go at the ends of the directory. `CleanOK` says that in
   an open log every file decodes to its end, and `ReadOK` that what recovery has
   collected it could read. A step preserves all this when no file it leaves is worse
   to read than before (`Better`, `Fits`), and the lemmas say so of each operation on
   files and names. `OpenCorrupt` is then enabled only after a crash in a window
   (`CorruptOnlyInWindowsHolds`).

`MCWalStore` extends `WalSurvival`. `INVARIANTS Survival Reopens` hold in
`store_power`, with four LSNs under `SyncInterval` with two power losses or two kills,
and, with all the properties of the theorems, when up to two of the harmless calls fail.

### The queue

1. **`QueueInv`.** To conserve requests, the writer must hold a batch exactly where
   it should and have one result for each of its requests when it answers
   (`BatchOK`), and an answer must go only to a call that waits (`AnswersOK`).
   `Copies` counts the occurrences of a request; four lemmas say what a send, a
   receive and an answer do to the count. `ClosingOK` is the argument of the comment
   on `drain`: `isClosed` is set under the write lock, so when it is set no reader is
   between its check and its send, and the writer sees `closed` only after that.
   `NoLostWakeup` is inductive relative to these.
2. **`Promises`.** What an answer means has to hold from where it is decided to where
   the caller reads it: nothing is written for a request before `commit` comes to it
   (`UnwrittenOK`), the results of the batch say what was written and, once they are
   sent, what is published and durable (`OutcomesOK`), and they keep their meaning on
   the channel and after the return (`MeaningOK`). That no other request of the
   batch is overwritten rests on conservation: an appender has one request in it
   (`BatchApart`).

### The readers

1. **The log.** `LogInv` says of every step of the writer, the middle of a
   `Truncate` or a cut included: the files that will stay (`Survivors`) are there,
   do not overlap and follow each other (`FilesOK`, `SurvivorsOK`), the files to go
   lie below them (`DropOK`), and a name once deleted does not come back (`Known`).
   A step of the writer is then reduced to its `Effect` on the files: which names
   are gone, and that what is left of the records of one is in a file with a higher
   name.
2. **The cursor.** `Leads(S, n)`: whoever opens the files named in S, in order, and
   relists above a name that is gone, comes to the record n. `Covered` is the
   inductive form of `ReaderComplete`: each record of the window that is on disk has been
   yielded or is `Ahead` of the cursor, in the open file or by `Leads`. Each step of
   the writer preserves it by `Effect`, and each step of the reader moves the cursor
   past nothing but what it yields.
3. **The follower.** `FollowerInv` ties the loop to its cursor: within a round the
   cursor's `from` is the follower's position, so `Gap` is a gap in the log.

`FInv` is the conjunction, with the follower's properties. By `Implementation` the log
of these proofs is the one the store provides.

### The bytes of a segment

`ScannerInv`: the frames are chained, each beginning where the one before ends
(`Chained`); the file ends somewhere in the last one (`SizeOK`); only the last can be
damaged, and never one that was fsynced (`SyncedOK`); the scanner stands between two
frames, or has stopped where it would stop again (`ScanOK`). A stop shortens the last
frame or damages it, the truncation drops what lies behind the scanner, and both keep
the chain. With `LimitsAgree` the scanner takes every whole frame, so it stops at the
first one that is not whole and nowhere else.

### Only model-checked

Liveness under fairness, which is out of the prover's reach as are induction over data
and properties of recursive definitions; and, of the invariants, `FaultsContained` of
`WalStore`. For the calls of `HarmlessCalls` `AckedReadableHolds` says more than it does.
For the others its invariant would have to say what each failure leaves behind: a file
without header under the next base, an index of names that are gone, records above
`lastLSN` that a later commit publishes. `Agreement`, on which `Survival` rests, holds in
none of these states; `IInv` does. `DenseSegments` is proved and no longer listed in a
run: `IInv` implies it.

## Plan

Done: the store, the queue, the readers and followers, the abstract log and that the
store implements it, the framing; proofs of every invariant and action property that a
run checks but `FaultsContained`. What is left, in this order:

1. A run that combines a kill with a later power loss: `AckedReadable`,
   `PublishedDurable` and `CorruptOnlyInWindows` do not hold there (see above), and what
   does is not stated yet.
2. Proofs after a harmful failure: an `Agreement` with records above `lastLSN` that no
   commit in hand accounts for would cover failed creates and fsyncs.
3. `SegmentHeader`: the order of the error checks of `DecodeHeader`.

## Not modelled

- The fields of the segment header and the order of their checks, the arithmetic of
  CRCs (a checksum matches or does not), the format of file names, the
  `RecoveryReport`, logging, error wrapping, and the options other than the policy,
  the segment size, the batch size and the record limit. They are formats and plain
  values: no step of one actor depends on when another takes its own.
- Readers of a log that another process has closed or reopened, and two processes
  on one directory: the package leaves the latter to its user.
- Damage to data that was fsynced, a file system that loses pages when an fsync
  fails, and the overflow of 64-bit LSNs.
