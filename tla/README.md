# TLA+ models of the s3x gateway

s3x serves the S3 API from IPFS. It is MinIO with one more gateway,
`src/cmd/gateway/s3x`. This directory holds TLA+ models of that gateway and of
MinIO's distributed lock, the TLC configurations that check them, and proofs
that TLAPS checks. What is
modelled is translated from the Go code; `PROJECT.json` maps definitions to
lines.

## The system and its parts

| Part | Code | State it owns |
|---|---|---|
| Bucket ledger `ledgerStore` | `gateway-s3x-ledger*.go` | cache map `l.Buckets`, entries, root hashes in the datastore |
| Locks `bucketLocker` | `bucket_locker.go` | one `sync.RWMutex` per name: `locker`, `plocker`, `cacheLocker` |
| Multipart uploads | `gateway-s3x-ledger-multipart.go`, `gateway-s3x-multipart.go` | `l.MultipartUploads`, one datastore key per upload |
| Object and bucket handlers | `gateway-s3x-object.go`, `gateway-s3x-bucket.go` | none; sequences of ledger calls and file streams |
| IPFS access | `ipfs.go` | blocks and files, by hash |
| CRDT datastore adapters | `crdt_broadcaster.go`, `crdt_dagsyncer.go` | a pubsub stream, `HasBlock` marks |
| Start, shutdown, info API | `gateway-s3x.go` | connection, datastore, listener, two servers |
| Messages | `s3.proto` | |
| Byte ranges | `src/cmd/httprange.go` | none |
| Distributed locks | `src/pkg/dsync/drwmutex.go`, `src/cmd/local-locker.go`, `src/cmd/lock-rest-*.go` | one locker per node, the locks of each client |
| MinIO | the rest of `src/` | |

A request arrives from MinIO in a goroutine of its own. A handler calls the
ledger once or several times. The ledger takes the lock of the bucket, resolves
the bucket (cache map, then datastore), loads the `Bucket` message lazily from
IPFS (`ensureCache`), changes it in place, saves the new message to IPFS, writes
its hash to the datastore and installs a new cache entry. The datastore is
badger, or a CRDT over badger that replicates through IPFS pubsub.

The rest of MinIO (HTTP front end, erasure-coded and file backends, disk cache,
identity, notifications, other gateways, S3 Select, browser) is upstream code
that shares no state with the gateway. It is listed in `PROJECT.json` and, but
for its distributed lock, not modelled. The distributed lock is included because
it is the part of MinIO whose correctness is a matter of interleavings and lost
messages and of nothing else.

## Modules

| Module | What it is |
|---|---|
| `LedgerTypes` | messages, marshalling, requests, answers |
| `AtomicLedger` | what the ledger promises: each request takes effect at one instant, or fails without effect |
| `Ledger` | the ledger as the code runs it |
| `MCLedger` | symmetry for TLC; instantiated by every `ledger_*.cfg` |
| `LedgerProofs` | the inductive invariants of `Ledger` and what its steps change; its types, readable roots and loads without a panic, proved |
| `LedgerInvariants` | every step preserves the invariants of the locks, the names and the cache |
| `AtomicSteps` | every step of `Ledger` is a step of `AtomicLedger` or leaves it as it is |
| `LedgerTheorems` | what follows: no race, names, creation, coherence, `Ledger` implements `AtomicLedger` |
| `Multipart`, `MCMultipart` | multipart uploads: handlers and ledger functions |
| `MultipartProofs` | acknowledged parts survive, completions join current parts, locks are returned, proved |
| `Streams` | byte ranges and the download loop, as operators |
| `Gateway`, `MCGateway` | the handlers over `AtomicLedger` and `Streams` |
| `GatewayProofs` | whole files, exact ranges and bracketed listings, proved |
| `Replication`, `MCReplication` | the CRDT datastore: broadcaster, DAG syncer, opening and closing |
| `ReplicationProofs` | what `HasBlock` reports, and the release of resources, proved |
| `DSync`, `MCDSync` | the distributed lock, its lockers and their maintenance |
| `DSyncProofs` | exclusion and what the lockers record, proved |

### Ledger

Each process in `Procs` is a goroutine that serves one request after another.
A step is one access to shared state; everything between two accesses belongs
to the step before it.

| Variable | Code |
|---|---|
| `ds` | datastore keys `/b/<bucket>`; the value is the hash of the bucket block |
| `bblocks`, `oblocks` | `Bucket` and `Object` blocks in IPFS |
| `cache` | `ls.l.Buckets`: `Absent` (no key), `Nil` (known to be missing) or an entry |
| `heap` | `LedgerBucketEntry` values by address. Entries are shared by pointer, and an old entry lives on while a goroutine holds it |
| `readers`, `writer` | `ls.locker`. A writer announces itself, which stops new readers, then waits |
| `pc`, `stage`, `nlocks` | where the goroutine is |
| `ent`, `bhash`, `obj`, `names`, `list` | its local variables |

`cacheLocker` needs no variable: it is held for a hash exactly while a goroutine
with an entry of that hash is at `"fetch"`.

| Actions | Code |
|---|---|
| `ReadLock`, `AnnounceWrite`, `WriteLock`, `Return` | `bucketLocker.read`, `.write`, deferred unlocks |
| `Lookup`, `DsGet`, `SetNil`, `Fill` | the four accesses of `getBucketNilable` |
| `Load`, `Fetch` | `ensureCache` |
| `GetBucketInfo`, `GetObjectHash`, `FindObject`, `GetObject`, `GetObjectInfos`, `GetBucketNames` | the getters and the reads of `CopyObject` |
| `SaveObject`, `PutObjectHash`, `RemoveObjects` | `putObject`, `putObjectHash`, `removeObjects` |
| `SaveBucket`, `DsPut`, `Install` | the three accesses of `saveBucket` |
| `Uncache`, `DsDelete` | `DeleteBucket` |
| `BackendFails` | an error from IPFS or the datastore, at the steps in `Failing` |
| `Crash` | the process stops and starts on the same datastore and IPFS |

A hash is modelled by the content it is the hash of, and the blocks actually
stored are kept apart, so a hash whose block is missing can be told. Names are
integers because the code orders them. A prefix is the set of names that have
it. `Collect` frees unreachable entries, as the garbage collector does, so that
a few addresses are enough; `EnoughEntries` says how many.

`NewMultipartUpload` is present here only as what it does to this state: its
bucket lookup without a lock.

### AtomicLedger and the refinement

`AtomicLedger` has the store, the requests in progress and their answers.
`Ledger` implements it (`Atomic == AL!Spec`) with the datastore as the store. A
request takes effect where its answer is settled: at `DsPut` or `DsDelete` for a
writer, at its last read for a reader. `Listing` defines a page independently of
the ledger's own `Page`.

### Multipart

An upload is one `MultipartUpload` message: cached in `l.MultipartUploads`
(`uploads`, an address), shared by pointer (`heap`), and saved whole under one
datastore key (`ds`). `plocker` is `readers` and `writer`; `pmapLocker` needs no
variable, because what it protects is one step. The bucket ledger is `exists`
and `store` with one step per request, which is what `AtomicLedger` promises.
A size is modelled by the contents it is the size of, so that a size of other
data can be told.

| Actions | Code |
|---|---|
| `NewInMap`, `NewInDs` | `NewMultipartUpload` |
| `AssertBucketExits` | the checks of the bucket, up to three in one request |
| `RLock`, `AnnounceWrite`, `WLock`, `Return` | `plocker` and the deferred unlocks |
| `GetMultipart` | `getMultipartLoaded` |
| `SetPart`, `PutPart` | `PutObjectPart`: change in place, save |
| `ListObjectParts` | the handler; without an upload its deferred call of nil panics |
| `BuildNode`, `SetSize`, `CopyInfo`, `PutObject` | `CompleteMultipartUpload` |
| `DeleteMultipartID` | abort, and the end of a completion |
| `CreateBucket`, `DeleteBucket`, `BackendFails`, `Crash` | the environment |

`issued`, `deleted` and `expected` are history: the ids that clients know, those
deleted, and the contents a client may expect of each part.

### Streams and Gateway

`Streams` has the arithmetic: `GetLength` and `GetOffset` of a Range header, what
such a header means (`InRange`, written without reference to them), and what the
loop of `ipfsFileDownload` does with one chunk (`Received`). `Gateway` runs the
handlers. A goroutine is at a step `at` of its handler, has made a request to
the ledger or has its answer (`req`, `res` of `AtomicLedger`), or is in a stream.

| Actions | Code |
|---|---|
| `Reply` | the handlers of one ledger request, `GetHash` of the info API included |
| `DeleteObjects` | the handler, and the loop of its caller over the errors |
| `UploadFile`, `Send`, `CloseAndRecv`, `PutObject` | `PutObject` with `ipfsFileUpload` |
| `GetObjectNInfo`, `GetObject`, `Recv`, `EndOfFile` | the two lookups and `ipfsFileDownload` |
| `ListBuckets`, `GetBucketInfo` | the names, then one request per bucket |
| `LedgerError`, `LedgerFails`, `StreamFails` | error paths |

`always` and `ever` are history: the buckets that existed all the time, and at
some time, since `ListBuckets` was called.

### Replication

Each replica has a badger store (`marks` are the keys that `HasBlock` looks for,
`merged` what the CRDT has merged), the goroutine of `newCrdtBroadcaster`
(`recv`, `resp`), and the CRDT's reader of `Next`. All replicas share the DAG
service and the topic. `life` follows `newCrdtLedgerStore` and
`ledgerStore.Close` step by step. The CRDT library is external: the model has
what can be seen of it in its calls of the two adapters. The topic keeps sets of
messages on their way; `Broadcast` chooses who is reached, and repeated
broadcasts of heads make up for loss and duplicate what arrived.

### DSync

A client is one lock instance: an id, one lock, several attempts. A locker's map
is the number of entries per client (`entries`); the order of a reader's own
entries does not matter, because they carry the same id. `call` has the requests
on their way and the answers in the channel, `late` the requests that arrive
after their caller gave up, `rel` the releases on their way.

| Actions | Code |
|---|---|
| `Lock`, `Grant`, `Refuse`, `Timeout`, `LateGrant`, `Return` | `lock` and its two kinds of goroutines |
| `GiveUp`, `Unlock` | `lockBlocking`, `Unlock`, `RUnlock` |
| `HandleLock`, `HandleRelease` | `localLocker` |
| `GetLongLivedLocks`, `Expired`, `ExpiredFails`, `Purge` | `lockMaintenance` |
| `CallFails`, `AnswerLost`, `LateCall`, `ReleaseLost`, `Restart` | the network and the nodes |

Releases are asynchronous in the model, also where `sendRelease` is called in
line: the code's order is one of those the model allows. Time is in one guard
only, `IsDue`: the maintenance looks at entries older than two minutes, and by
then the attempt that made them is over, since an attempt lasts a second and a
call a minute at most. One drive set is assumed, so that
`globalXLSetDriveCount` is the number of nodes.

## Runs

| Run | Instance | Properties |
|---|---|---|
| `ledger_atomic` | 1 bucket, 2 objects, 2 goroutines, listings with limits 0 and 1, every request but the copy, crashes, failures except at `savebucket` and `dsput` | `CacheCoherent`, `CreatesOnlyIfAbsent`, `Atomic` |
| `ledger_copy` | 2 buckets; create, put, copy; `FairSpec` | `InfoMatchesKey`, `Atomic`, `EveryRequestReturns` |
| `ledger_faults` | 3 goroutines, every failure, crashes, the unlocked lookup | `TypeOK`, `RootsResolve`, `NoPanic`, `NoDataRace` |
| `multipart` | 1 upload, 2 goroutines, 3 part numbers of which one is beyond the limit, an empty part, failures, crashes | `TypeOK`, `PartsSurvive`, `CompletesCurrentParts`, `LocksAreReturned` |
| `gateway` | 2 handlers, 2 buckets, files of 3 and 0 bytes in chunks of up to 2, with and without a range; `FairSpec` | `StoredFilesAreWhole`, `ReadsServeTheRange`, `ListingIsBracketed`, `EveryHandlerReturns` |
| `crdt` | 2 replicas, one of them with 2 updates, one fault of any kind; `FairSpec` | `MarksAreBetween`, `MarkedIsProcessed`, `StoppedIsReleased`, `Replicated`, `CloseReturns` |
| `dsync` | 2 nodes, a writer and a reader that try twice, maintenance on both nodes, one fault | `TypeOK`, `Exclusion`, `HeldIsRecorded`, `NothingIsLeaked` |
| `ledger_failed_write` | failures at `savebucket` and `dsput` | `CacheCoherent` is violated |
| `ledger_unlocked_lookup` | `CreateBucket` with `NewMultipartUpload` | `CreatesOnlyIfAbsent` is violated |
| `multipart_abort` | no failures | `DeletedUploadsStayGone` is violated |
| `multipart_size` | two part lists, no failures | `SizeMatchesData` is violated |
| `gateway_delete` | no failures | `BulkDeletesAreAnswered` is violated |

What the ledger runs show together: without a failure inside `saveBucket` and
without the unlocked lookup, the ledger is linearizable and its cache coherent,
through crashes and all other failures. Two violations delimit that result.

- `ledger_failed_write`: the cached `Bucket` is changed before it is saved. If
  the save fails the client sees an error, and other clients see the change.
- `ledger_unlocked_lookup`: `NewMultipartUpload` reads "not found" from the
  datastore; a `CreateBucket` completes; the late `nil` then hides the bucket,
  and the next `CreateBucket` replaces it.

Uploads keep what they acknowledged, with two exceptions.

- `multipart_abort`: `DeleteMultipartID` takes no upload lock. A `PutObjectPart`
  that already holds the message saves it again afterwards.
- `multipart_size`: two completions with different part lists write the size to
  the `ObjectInfo` they share, under a read lock, and copy it from there.

`ReadsServeTheRange` holds even when the object is replaced between the two
lookups of a read; the bytes are then those of the newer object. When the object
was empty at the first lookup, the download takes the empty range for the whole
file it finds at the second, which the property states as it is.
`gateway_delete`: the handler answers one error per missing object, and the
front end reads one per requested object.

`MarkedIsProcessed` holds as long as badger works and no process ends. It cannot
hold without that: `Get` marks a node before the CRDT merges it. `CloseReturns`
holds although the broadcaster's goroutine may stay blocked on its channel.

`Exclusion` excuses clients that were locking when some node restarted. The
lockers keep nothing on disk, so that a restart may hand a quorum to a second
client.

### Bounds

**Ledger.** Two goroutines are enough for a writer and a reader, two writers, or
two copies in opposite directions; the third in `ledger_faults` lets two readers
load an entry while a writer waits. Two object names make pages and partial
removals differ; one prefix, of both names, is enough of a filter here, because
`PageIsListing` (below) is proved for every prefix. Buckets interact only through
`CopyObject`, so only the run with copies has two. Entries are one more than
buckets plus goroutines, which is the most the code can reach at once. The model
has no counter to cap.

**Multipart.** Uploads interact only through the bucket and through objects of
the same name, so one upload is enough for what is claimed of an upload; two
goroutines give every pair of requests. Part lists have one or two parts.

**Gateway.** A file of three bytes in chunks of one or two has a chunk that ends
before, at, and behind the start of a range; the file of no bytes is the special
case of the download. Two buckets let one be deleted while the other is listed.

**Replication.** Two updates on one replica make a node that links another. One
fault per behaviour: each property's exemption names the faults it is about. The
inductive invariant was also checked with two writers and two faults.

**DSync.** With two nodes a reader's quorum is one of them and a writer's is
both; a second attempt uses the id of the first, so that a node may have two
entries of one id. The instance with three nodes, where a writer too can do
without one, and two attempts of one client passes as well (four million states,
some five minutes). `MaxTries`, `MaxFaults` and `Checkers` bound the instance; the
theorems have no such bound.

Symmetry is over goroutines and, where names are not compared, data values; runs
with a liveness property use none.

### Deadlock

TLC checks for deadlock in every run but `dsync`. An idle goroutine or replica
can always start something, so the check says little; waiting for ever is what
the liveness properties exclude. In `dsync` clients lock once and are done.

### Fairness

`FairSpec` of `Ledger` has weak fairness on every goroutine's steps, because the
Go scheduler runs runnable goroutines, and strong fairness on obtaining a lock:
`sync.RWMutex` lets the waiting readers in when a writer leaves, and
`sync.Mutex` hands the lock to a waiter that starves. Calls to IPFS and to the
datastore are assumed to return, with or without an error. Nothing is assumed
about clients.

`FairSpec` of `Gateway` has weak fairness on the handlers' steps; failures are
possible and never required. `FairSpec` of `Replication` has weak fairness on
the goroutines, on receiving what waits in a stream, and on a broadcast of the
heads that reaches everyone: the CRDT library repeats it with a timer, and a
topic that lost every repetition would carry nothing. `DSync` has no fairness
and no liveness property: an instance that has all faults is too large for
TLC's liveness check.

## Proofs

The theorems are about the specifications with every operation, every kind of
failure, and any constants that satisfy the named assumptions.

| Module | Theorem | States |
|---|---|---|
| `LedgerProofs` | `TypeCorrect` | `Spec => []TypeOK` |
| `LedgerProofs` | `RootsStored` | `Spec => []RootsResolve` |
| `LedgerProofs` | `LoadNeverPanics` | `Spec => []NoPanic` |
| `LedgerTheorems` | `InfosMatchKeys` | `Spec => []InfoMatchesKey` |
| `LedgerTheorems` | `RaceFree` | `Spec => []NoDataRace` |
| `LedgerTheorems` | `CreateIsFresh` | `LockedLookups => (Spec => CreatesOnlyIfAbsent)` |
| `LedgerTheorems` | `CacheIsCoherent` | `LockedLookups /\ SavesSucceed => (Spec => []CacheCoherent)` |
| `LedgerTheorems` | `LedgerIsAtomic` | `LockedLookups /\ SavesSucceed => (Spec => Atomic)` |
| `MultipartProofs` | `TypeCorrect` | `Spec => []TypeOK` |
| `MultipartProofs` | `PartsNeverLost` | `Spec => []PartsSurvive` |
| `MultipartProofs` | `CompletionsAreCurrent` | `Spec => []CompletesCurrentParts` |
| `MultipartProofs` | `LocksComeBack` | `Spec => []LocksAreReturned` |
| `GatewayProofs` | `FilesStayWhole` | `Spec => []StoredFilesAreWhole` |
| `GatewayProofs` | `ReadsAreServed` | `Spec => []ReadsServeTheRange` |
| `GatewayProofs` | `ListingsAreBracketed` | `Spec => []ListingIsBracketed` |
| `DSyncProofs` | `TypeCorrect` | `Spec => []TypeOK` |
| `DSyncProofs` | `LockExcludes` | `Spec => []Exclusion` |
| `DSyncProofs` | `HoldersStayRecorded` | `Spec => []HeldIsRecorded` |
| `DSyncProofs` | `NothingLeaks` | `Spec => []NothingIsLeaked` |
| `ReplicationProofs` | `MarksStayBetween` | `Spec => []MarksAreBetween` |
| `ReplicationProofs` | `MarkedGetsProcessed` | `Spec => []MarkedIsProcessed` |
| `ReplicationProofs` | `StopReleases` | `Spec => []StoppedIsReleased` |

### Ledger

Assumed: names are integers, `Nil` and `Absent` are no other value, there are
enough entries, and, for the refinement, finitely many object names
(`FinitelyManyObjects`: a listing is cut at a number of names) and a `Nil` that
is no answer (`NilIsNoAnswer`). Three theorems are implications from hypotheses
on the constants. `LockedLookups` says that clients start no multipart upload,
whose bucket lookup is unlocked; `SavesSucceed` says that neither the block nor
the root hash that `saveBucket` writes is refused. Neither can be dropped:
`ledger_unlocked_lookup` violates `CreatesOnlyIfAbsent` and `ledger_failed_write`
violates `CacheCoherent`, and on both instances TLC also refutes `Atomic` and
`CacheCoherent`.

`LedgerProofs` begins with what the proofs share: the definitions of the
invariants, and for each variable which steps change it and how (`SameStep`,
`EntryKept`, `EntryNew`, `CacheChange`, `DsChange`, `LookupOutcome`).
`LedgerInvariants` and `AtomicSteps` build on it independently of each other, and
`LedgerTheorems` puts them together.

**TypeCorrect.** `TypeOK` is not inductive: `Fetch` is typed only if the
goroutine's entry exists, `PutObjectHash` only if it is loaded and the request has
an object. `BaseInv` adds `HeapInv` (pointers in the cache and in local variables
lead to allocated entries, which `Collect` keeps) and, per goroutine, `BusyInv`
(which locals are set at which step). The proof of `BaseNext` has one step per
action; `BusyOther` covers the goroutines that do not move, and `BaseChange`,
`BaseResolved` and `BaseDrop` the three ways the heap changes.

**RootsStored.** A root is written from the local `bhash`, which came from a
`Bucket` in the heap, whose objects came from `obj`. `ResolveInv` follows that
chain backwards: stored bucket blocks name only stored objects, entries have
stored hashes and closed object maps, hashes in hand are stored, and a goroutine
on its way to `putObjectHash` has stored its object (`CarryInv`).

**LoadNeverPanics.** `FetchInv` says that a goroutine at `"fetch"` has an
unloaded entry, and that no two such goroutines have entries of the same hash,
hence not the same entry. In-place changes by others concern loaded entries,
and new entries take free addresses.

**InfosMatchKeys.** An object's name is checked nowhere when it is read back, so
`NameInv` says where names come from: the roots, the entries of the heap and
their loaded messages carry one bucket name and objects of that name (`Good`),
the map leads to the entry of its key, and what a goroutine holds belongs to the
bucket it has resolved or is to save. Old entries that only a goroutine still
reaches are included, which is why it speaks of the heap and not of the map.

**RaceFree.** `LockInv` counts: a goroutine has exactly the first `nlocks` locks
of its `LockPlan`, all of them in its body, and a writer that waits has announced
itself. Two goroutines in their bodies therefore never have one bucket's lock in
conflicting modes (`Exclusive`). With `NameInv` an entry in use belongs to the
bucket whose lock its user has, so that two users of one entry are two users of
one bucket. The unlocked lookup does no harm here: it never loads a message.

**CreateIsFresh.** `AbsentInv` says that a `Nil` in the map, or in the hand of a
goroutine that has just read the datastore, is true of the datastore. It rests on
the lock: whoever resolves a bucket keeps its writers away (`ResolverTouches`,
`Alone`).

**CacheIsCoherent.** `CoherentInv` is `CacheCoherent` with, per goroutine, `View`:
what it has read of the datastore on its way to the map is still so, the entry it
uses is the one in the map, and the hash it is to commit is that of the message it
has changed. Between the change in place and `Install` the bucket is
`Committing`, and `CommitStep` shows that the only ways out of that state leave
the two equal again. A failure of `saveBucket` would be a third way out, which is
what `SavesSucceed` removes.

**LedgerIsAtomic.** The refinement maps the store to `ds` and keeps `req` and
`res`. `ServeInv` says that until its answer is settled a request has found what
the datastore holds now: the bucket exists that was asserted, the object to be
copied is that of the source (`CopyFound`), the objects listed so far are those of
the page that are no longer to be read (`Listed`), and the message to be committed
is what the request makes of the stored one (`Prepared`). `ServeOther` shows that
no other goroutine can change this, because the locks of both buckets of a request
are held (`ServerTouches`). One `Serve...` lemma per action then shows that it
either leaves `ds`, `req` and `res` alone or is `Serve`, `Fail` or `Answer` of
`AtomicLedger`. Two facts about data are needed. `PageIsListing` (which the lemmas
of `AtomicSteps` take as the hypothesis `PagesAreListings`): the ledger's `Page`,
which counts the names before a name, is the only set that satisfies the
definition of `Listing`; its proof takes a least and a greatest name of a finite
set. `MadeInv`: a `Bucket` whose map was never allocated has no object, so that
the early return of `removeObjects` answers as a removal of nothing should.

TLC also finds `BaseInv`, `ResolveInv` and `FetchInv` true in every state of the
`ledger_faults` instance, and the invariants of the other five theorems on
instances of `ledger_atomic` and `ledger_copy` under their hypotheses. These
modules, `DSyncProofs` and `GatewayProofs` make Zenon their default prover (`USE
ZenonT(30)`); the leaves that calculate or split a `CASE` cite the SMT solver.

### Multipart

Assumed: parts are put by number and content and completed by sequences of part
numbers (`Requests`), only calls to the backend fail (`BackendSteps`), and `Nil`
is no other value (`NilIsNew`).

`PartsSurvive` compares the datastore with `expected`, what a client may expect of
each part. A save writes the whole message, so that a part could be lost by
saving an older copy of the message. `IInv` excludes such copies: an address
belongs to one upload (`HeapInv`); all messages of an upload in the map, in a
local variable or in the datastore hold contents that may be expected (`Current`);
and while a part is being put, its writer is alone with the upload (`LockInv`,
`Locked`) and the map leads to its message or nowhere (`Putting`), so that after
the acknowledgement, which narrows what may be expected, no copy without the part
is left. `IdInv` keeps a new id apart until it is answered, and `SavedInv` says
that an answered upload is saved. `Completing` follows the contents that
`BuildNode` read to `PutObject`: they stay current because the completion has the
read lock. `QuietStep` and `LocalKept` carry the invariant over the steps that
change one goroutine only.

### Gateway

Assumed: chunks have at least one byte; a file is an identity and a size, a
natural number; a range is one that the parser returns (`Sizes`); calls have the
handlers' parameters (`CallsAreCalls`). `CanFail` is arbitrary.

The invariant `IInv` has, per goroutine, three parts. `HandlerInv` ties the answer
of the ledger to the request of the handler's step, so that an object or a set of
names is what the handler reads from it. For `FilesStayWhole` little more is
needed: the only data that reaches a `PutObject` request is that of an upload that
was read to its end, and `StoreStays` shows that all requests keep files whole.

`ReadInv` follows a download. At `"hash"` the range is valid for the size found by
the first lookup; at `"download"` the file of the second lookup is long enough for
it, and `Downloading` holds: written and remaining bytes add up to the length,
position and bytes to skip to offset and bytes written, and what was written
begins at the offset without a gap. `DownloadGoesOn` shows that a chunk of any
size preserves this or completes the range. Two lemmas on the arithmetic of Range
headers do the rest: the offset and the length of a valid range lie in the file
(`RangeFits`) and delimit the positions that `InRange` defines
(`RangeIsDelimited`). Hence the end of the file is reached early only by a
download without offset and length, which is one of an object that was empty at
the first lookup.

`ListInv` brackets a listing between `always` and `ever`: first the buckets that
exist, then the names that were read, then the names still to do together with
those done. Every `Serve`, of whichever goroutine, shrinks `always` and extends
`ever` of all listings in progress (`ServeStep`); all other steps leave the other
goroutines as they are (`OthersAreQuiet`).

### DSync

Assumed: finitely many nodes, no client both reads and writes, `Nil` is no
client.

`Exclusion` follows from three facts: a holder's granted nodes are a quorum, at
each of them the holder has an entry, and a locker never has a writer's entry
beside another one; two quorums of which one is a writer's have a common node. The
invariant `IInv` makes them inductive. `ClientInv` says where a client is in
`lock`: while it waits, nodes that granted, that refused and that are still to
answer are all the nodes, so that an attempt that ends has a quorum or has given
everything back. `RecordInv` says that a locker has at least the entries that a
client accounts for (`Owed`): a grant in the channel or in `locks`, and one for
each release on its way. `MaintInv` is about an entry that a maintenance has in
hand: either it is one more than its client accounts for, left over from a fault,
and may go; or its client holds the lock, and then every node of the holder that
was asked has been counted, so that the count reaches the purge quorum. This is
needed because entries are removed by id, and all attempts of a client have the
same id. `LeakInv` is the converse of `RecordInv` while there are no faults; it
gives `NothingLeaks`. The lemmas `ClientMoves`, `NodeMoves` and `MaintMoves` each
carry the invariant over a step that changes one client, one node or one check;
every action is one of the three.

### Replication

Assumed: `Nil` is neither a node nor a step of a fetch.

`Inv` has four parts: types; `Ordered` (a node being fetched or added is stored
and marked as far as its step says); `Lifecycle` (what may exist at each step of
opening and closing); and `Working` (until a process ends or badger fails, badger
is open and every mark is followed by its merge). `OneReplica` carries it over
steps that change one replica only.

TLC finds `IInv` true on the `dsync` and `gateway` instances and `Inv` with two
writers and two faults.

### Only model-checked

The liveness properties `EveryRequestReturns`, `EveryHandlerReturns`,
`Replicated` and `CloseReturns`, because liveness under fairness is outside the
prover. Every safety property of a passing run is a theorem.

## Not modelled

- The content of objects and the fields of `ObjectInfo` other than bucket, name
  and size: one value stands for all of them.
- IPFS block loss or garbage collection: the code never removes a block.
- Object names given twice in one `RemoveObjects` call: the MinIO front end
  removes duplicates first.
- 64-bit overflow of offsets: a Range header that parses has bounds below 2^63,
  `GetLength` cuts them to the object, and their sum is at most its size.
- Two ledgers over one replicated datastore. The ledger's cache never learns of
  a root that another replica wrote (`getBucketNilable` looks no further than the
  map), so that nothing stronger than the single-process properties can be
  expected of it.
- `getXObjects`, `NewGatewayLayer` and `Shutdown`: straight-line code that opens
  and closes a connection, a listener and two servers.
- `ObjectData`, which only tests call; `Remove`, `RemoveMany` and `GetMany` of the
  DAG syncer, which the CRDT library does not call on this path.
- Unbounded growth of the cache and locker maps.
- Liveness of the distributed lock. Entries that a dead client left at a quorum
  of nodes confirm each other in `lockMaintenance` and never expire, so that the
  lock may stay taken.
- Bucket policies, `CopyObjectPart` and `ListMultipartUploads`, which return
  "not yet implemented"; generated protobuf code.
- MinIO itself but for its distributed lock. Nine tenths of the lines under
  `src/` are upstream code that this gateway does not run or calls only through
  the object interface: disk formats, erasure coding, S3 Select, identity and
  the other gateways. Modelling them would be a project about MinIO, and a model
  of a part small enough to sit here would say little about it.
