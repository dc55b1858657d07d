# A TLA+ model of file-hosting

`file-hosting` stores files under names, each with an expiry, behind HTTP and
gRPC. This directory models its core, the Redis cache in front of it, and the
process around both: configuration, the two servers, authorization, errors, start
and end. It checks them with TLC, and proves with TLAPS what it can about
scheduled deletions, who owns a name, the cache and the process.

## 1. The system

| component | state | operations | talks to |
|---|---|---|---|
| File hosting service (`internal/service/file_hosting_service_impl.go`) | none of its own; locals of each request, of the consumer | UploadFile, UploadFileWithGenerativeName, RenameFile, DeleteFile, GetFile, GetFileMetadata, GetFiles, handleDeleteFileMessage | storage, RabbitMQ |
| File storage (`internal/storage`, `pkg/s3`) | objects: a file under its name, its metadata under `<name>.metadata` | IsExist, Files, Read, Write, Move, Delete | local directory or S3 bucket |
| Message broker client (`pkg/rabbitmq`) | one connection, one channel | DeclareQueue, Publish, Consume, Close | RabbitMQ |
| Cached service (`internal/service/file_hosting_cached_service.go`) | entries in Redis: `files`, `file:<name>`, `file:<name>:metadata` with a time to live | the same seven operations | the service, Redis |
| HTTP transport (`internal/httptransport`) | the server, its channel of errors | one route per operation, authorization, panic recovery, Shutdown | cached service |
| gRPC transport (`internal/grpctransport`, `pkg/grpcinterceptors`) | the server, its channel of errors | one method per operation, authorization; no panic recovery | cached service |
| Application errors (`internal/app/apperr`) | shared error values that `WithMessage` writes into | From, WithMessage, ToGRPCError | all |
| Application (`internal/app`, `cmd/app`) | the servers, the signal channel | Run | all |
| Configuration (`internal/config`) | read once, validated, never changed | Load, Validate, accessors | application |
| Logging (`pkg/logging`, `pkg/slogfiber`, `pkg/sloggrpc`) | loggers | a middleware per transport, filters | both transports |
| Generated stubs (`pkg/filehosting`) | none | marshalling | gRPC transport |

There is no lock, no transaction and no test in the repository. Everything that
makes it correct lies in the order of the calls to storage and broker:

* A file with a deadline is deleted by a **message**, published before the file
  is written. The one consumer requeues it until it is due, then compares it
  with the metadata it finds (SHA-1 and expiry) and deletes file and metadata by
  two calls. Correct: a file whose deadline lies ahead has its message with the
  broker; a message is neither lost nor settled early; a file goes away after its
  deadline and not before, unless a client asked for it; an old message does not
  hit a newer file.
* An upload to a name in use **moves** the old file and its metadata to a backup
  name. Correct: the upload is acknowledged only with the backup complete and the
  new file in order.
* Files and metadata are **separate objects**, each written by a check and an
  act. Correct: while nothing is at work, a name has both or neither, and metadata
  is never beside bytes it does not describe. A reader has no such promise: GetFile
  reads bytes and metadata by two calls, and when the file is replaced in between it
  answers the old bytes with the new metadata.
* The **cache** is set and dropped by calls that come after the change, one per
  entry, whose failure is only logged, and the consumer knows nothing of it.
  Correct: what Redis serves is what is stored, or at most as old as the time to
  live allows, and never a file that has expired. For entries without a time to live,
  those of permanent files, only the calls that set and drop them keep them right: a
  failed call, or the consumer deleting the file, leaves such an entry for ever.
* **Failures** are answered with error values that all requests share and write
  their message into, translated between HTTP statuses and gRPC codes, and logged
  by a rule of each transport. Correct: a client gets the words of its own failure,
  and client and log agree on whose fault it was.
* **Authorization** is put in front of some routes, and of the unary methods of gRPC;
  the reflection stream the gRPC server also offers is not asked for the key.
  Correct: without the key nobody can do more than add files that expire (or what a
  failed upload leaves behind of one).
* The process **starts** by a sequence of fatal steps, listens in goroutines that
  report to channels, and **ends** by shutting down one server after the other.
  Correct: told to end it ends, a port clash does not go unnoticed, and an orderly
  end cuts off no request. The end depends on clients: there is no timeout, so a
  stream held open, or a request never finished, holds up the shutdown for ever.
* The process may die anywhere (a panic in a gRPC handler is enough),
  and the broker connection may break and is never reopened.

`PROJECT.json` lists every hazard at its line with the properties that cover it.

## 2. The modules

| module | models |
|---|---|
| `FileStorage` | what a store of objects is and what each storage call does to it, for both back ends. Every Read/Write/Move/Delete begins with a stat; the stat is a step of its own wherever the act that follows changes something |
| `RabbitMQ` | the queue as a bag, the delivery at work, the connection; publish, deliver, settle, requeue, break, reconnect. What the broker does is external |
| `DelayedDelivery` | abstract: accepted messages stay pending until their deadline, whatever happens |
| `FileHosting` | the service: any number of workers (requests in progress), the consumer, the clock, crashes and broken connections, all over the two modules above |
| `MCFileHosting` | the requests and names of the TLC instances |
| `FileHostingProofs` | the theorems about scheduled deletions |
| `Ownership` | invariants of `FileHosting` for clients that never reuse a name: what a name was given, who is giving it |
| `OwnershipProofs` | the theorems that rest on them |
| `Replacement` | invariants of `FileHosting` for careful clients that reuse names: which handler uses a name, and what it knows is stored there |
| `ReplacementProofs` | the theorems that rest on them |
| `CachedHosting` | the cached service: each call to Redis a step, the call to the service one step with the outcomes `FileHosting` has for it |
| `MCCachedHosting` | the requests and names of its TLC instances |
| `CachedHostingProofs` | the theorems about what every entry of Redis is |
| `Coherence` | invariants of `CachedHosting` for orderly clients: what is in hand, what a request is about to set or drop |
| `CoherenceProofs` | the theorems that rest on them |
| `FaultyHosting` | `FileHosting` on an S3 bucket whose calls may fail: one more action per kind of call, for the way the code takes then |
| `MCFaultyHosting` | its TLC instance |
| `FaultyHostingProofs` | that the invariant of `FileHosting` survives |
| `AppErrors` | pure: error kinds, both code tables, `From`, `New`, `ToGRPCError`, the error handler of HTTP |
| `Configuration` | pure: settings with their defaults, every `Validate` |
| `AccessLog` | pure: what is logged at which level, the filters of both log middlewares, the parsing of method names |
| `AccessLogProofs` | theorems about these helpers |
| `Application` | the process: the main goroutine, the goroutines that listen, signals, and requests from server to answer, over the three modules above |
| `MCApplication` | its configurations and requests for TLC |
| `ApplicationProofs` | the theorems about it |

### State and code

`data` and `meta` are the objects under `<name>` and `<name>.metadata`. A
*content* stands for bytes and for their SHA-1. `pc[w]`/`job[w]` are where a
handler is and its locals, `reply[w]` what its client was told; `cpc`/`seen` are
the same for the consumer. One action is one call to storage or broker, or one
reading of the clock, and what the code computes until the next call:

| code | actions |
|---|---|
| UploadFile 101-112, 114, 115-126 | Submit; CheckExist; ReadOld, AnswerSame |
| ... 127-166 (and RenameFile 263-308) | ReadOldMeta, ScheduleOld, StatMove, Transfer, RemoveSource, CheckMetaExist, StatOldMeta, RemoveOldMeta, StatBackupMeta, WriteBackupMeta |
| ... 167-207 (and UploadFileWithGenerativeName 236-260) | ScheduleNew, StatData, WriteData, StatMeta, WriteMeta, StatRollback, Rollback |
| UploadFileWithGenerativeName 211-221 | Generate |
| DeleteFile | StatDelete, Delete, StatDeleteMeta, DeleteMeta |
| GetFile, GetFileMetadata, GetFiles | GetData, GetMeta, List, ListMeta |
| handleDeleteFileMessage | TakeDelivery, CheckDue, ReadMeta, CheckExpiry, StatExpired, RemoveExpired, StatExpiredMeta, RemoveExpiredMeta, Acknowledge |

RenameFile and the first half of a replacement are the same calls with another
target, so they share actions; `job[w].req.op` tells them apart where they part.
`Transfer` is one step on the local disk; on S3 it copies, and `RemoveSource`
deletes.

`NeedsDeletion` deserves a word. Permanent files have the expiry
`time.Unix(0, 0)`, recognised by `!=` between `time.Time` structs, which also
compares their location. Read back from JSON the location is the local zone when
that zone has an offset, and UTC when the process runs in UTC (the Docker image
sets no zone): then the comparison says "not permanent". `ZoneIsUTC` selects.

A definition named `X_<mistake>` in front of `X` is a plausible mistake in `X`
(a dropped check, a swapped argument, an early answer). They are used by no
action; each is there to show that a property fails when the code is wrong.

`CachedHosting` has its own, coarser view of the service: `stored` maps a name to
bytes and metadata, each of which may be missing, `scheduled` is the set of deletion
messages published so far, and a call changes both at once. That leaves out what two
changes of one name do to each other inside the service, which is the subject of
`FileHosting`, and keeps what matters to the cache: that the answer is older than the
calls to Redis that follow, that a call may fail after it has changed something
(`CallFails`: a message sent and nothing written, bytes without metadata, a file moved
and not written again), in which case nothing is set or dropped, and that the consumer
deletes behind the back of the cache. `Removable` says what the consumer may delete: a
file whose expiry is in the past, which that of a permanent file always is, with a due
message about its name and bytes. Messages are never taken out of `scheduled`, so the
consumer of this model may delete whenever that of the code may, and sometimes when
its message is gone. `cache` has for each key a value and the end of its life; `pc[w]`/`job[w]`
are where a request is and what the service answered.

| code | actions |
|---|---|
| the seven operations, entry | Submit |
| `rdb.Get` in GetFiles, GetFile, GetFileMetadata | Lookup |
| `s.service.…` in each operation | CallRead, CallUpload, CallGenerate, CallRename, CallDelete; CallFails |
| handleDeleteFileMessage | Expire |
| `rdb.Set` of a read | Fill |
| `rdb.Set` (file, metadata) of an upload | SetFile, SetMeta |
| `rdb.Del` (file, metadata) of a rename or deletion; `rdb.Del` of the listing | DropFile, DropMeta; DropList |
| `ttlOfExpiredAt`, and what go-redis makes of its result | Ttl, EndOf |

`Restart` loses the requests in progress, not what Redis has.

`FaultyHosting` adds actions to those of `FileHosting`. S3's `Exists` takes every
error for absence and every `Read` begins with it, so a look that fails moves a
handler to where an absent object would have: `Unread` for handlers,
`UnreadGenerate` for a name that is in use and looks free, `UnreadByConsumer`. A
call that changes the bucket fails with or without its effect (`Undone`,
`Unwritten`, `UndoneByConsumer`), a listing fails as a whole (`Unlisted`). Each
counts against `MaxErrors`.

`Application` sees the service from outside: `stored` is one file, of which only
its being there, with a deadline, for ever or without metadata (`"bare"`), matters, and
a call does to it what `FileHosting` and `CachedHosting` have for it or fails in one of
their ways (`Leaves`, `LeavesFailing`, `Failures`). The consumer may take any file that
has metadata. `phase` is where the main goroutine is,
`server`/`notify` what the two servers do and have reported, `pc`/`job`/`reply` the
requests, `text` who has worded each of the shared errors last.

| code | actions |
|---|---|
| `main`, `Load`; `NewRabbitMQ`; `s3.New`; storage, queue, consumer | Load; Dial; OpenBucket; OpenQueue |
| `http.Run`, `grpc.Run`; `signal.Notify`; the `select` | RunHTTP, RunGRPC; Watch; Wait |
| deferred `grpc.Shutdown`, `http.Shutdown`; the end of `main` | StopGRPC, DrainGRPC, StopHTTP, DrainHTTP; Return |
| the goroutines in both `Run` | Listen, ServerFails |
| routes, authorization middleware and interceptor, bodies | Arrive, Route |
| the reflection stream, and its client closing it | Route, HangUp |
| `GET /file/:file`; every call of the service | ReadTag; Call, PanicGRPC |
| `WithMessage`; error handler, `ToGRPCError`, log middleware | Word, Murmur; RefuseShared |
| the consumer, signals | Expire, Signal |

`WithMessage` writes the two words of a Go string into a value all requests share,
without a lock, and the error handler reads them later. Between `Word` and
`RefuseShared` others may word the same error; a reader then gets either message,
or a word of each (`"torn"`). `MessageOwn` says that this is the only way a client
is told anything but its own failure.

### What the clients do

The service enforces no discipline on its clients, and some promises need one.
Each is a constant, off unless the table below says so:
`Exclusive` (one changing request per name at a time), `WriteOnce` (a name is
never reused), `FreshContent` (a name is not given bytes whose deletion message
is still around for that name, no file is moved or generated to a name with such a
message, nor moved to one that has a file), `Timely` (no change to a file past its
deadline), `Swift` (no deadline passes while a request that depends on it is running).
`Exclusive` also means that nobody is changing, before it exists, a name the service
is about to draw (`Unguessed`): the draw looks whether the name is free and holds
nothing, so a client that has guessed it could delete the file as it is made.

In `CachedHosting` discipline is not a constant but recorded: `orderly` holds as
long as every request was sent in an `Orderly` way, and `Coherent` and
`ListingCurrent` speak of those behaviours only; all others are explored too. The
service draws a name within `CallGenerate`, and there too the behaviour stays orderly
only if no request in progress is about that name: one that deletes it may find
nothing, or the file just made, and drop its entry before the upload sets it. That
case came out of the proof of `Coherent`; the instance now has such a request. A
behaviour also stops being orderly when a call changes a file the consumer may be
deleting (`Condemned`): the two could end in either order.

## 3. The runs

The runs are instances of `MCFileHosting`; `core` is one of `MCFaultyHosting`,
those whose name begins with `cached` of `MCCachedHosting`, `app` of
`MCApplication`. Every bound is a constant: `MaxTime` (clock), `MaxRequests`,
`MaxCrashes`, `MaxDisconnects`, `MaxFaults` (failed calls to Redis, storage or broker,
and restarts), `MaxErrors`
(failed calls to S3), `MaxEvents` (signals, broken servers, background failures and
requests together). Since these
stop the system in the end, the runs do not look for deadlock.

| run | instance | question and result |
|---|---|---|
| `core` | S3, 2 workers, every operation, 2 requests, 2 failing calls to S3, 1 crash, no discipline | `TypeOK`, `Scheduled`, `HandlersScheduled`, `ConsumerHoldsDue` hold: a deadline ahead has its message with the broker whatever interleaves and fails, and the consumer works on due messages only |
| `write_once` | local disk, 2 workers, all operations but replacing, 3 requests, 1 crash, 1 disconnection; Exclusive, WriteOnce | `RemovedForCause`, `AcknowledgedVisible` hold and `ImplementsScheduler`: the refinement of `DelayedDelivery` |
| `replace` | S3, 1 worker and the consumer, 4 uploads of one name, 1 crash, 1 disconnection; Exclusive, FreshContent, Timely, Swift | `BackupKept`, `AcknowledgedVisible`, `RemovedForCause` hold |
| `liveness` | S3, 1 worker and the consumer, no faults, fair; Exclusive, FreshContent, Timely, Swift | `ExpiredRemoved`, `DueSettled` hold, and `Paired`, `Matched` and `Whole`, the invariant of `ReplacementProofs` |
| `permanent` | delete and upload the same bytes as permanent | `PermanentKept` **fails**: the old message deletes the permanent file |
| `permanent_backup` | replace a permanent file, ZoneIsUTC | `PermanentKept` **fails**: the backup is deleted at once |
| `late_rename` | rename past the deadline (Timely off), fair | `ExpiredRemoved` **fails**: the file is never deleted |
| `interrupted_deletion` | one upload, one crash, fair | `ExpiredRemoved` **fails**: metadata stays, its message circulates for ever |
| `cached` | 2 workers, all operations, two public names and the drawn one, 3 requests, 1 failed call (to Redis, storage or broker) or restart, no discipline | `TypeOK`, `BoundedStaleness` hold whatever happens; `Coherent`, `ListingCurrent` hold for orderly clients while nothing fails, except for what the consumer may have deleted, permanent files included |
| `cached_expired` | an upload whose deadline comes before it is cached | `ExpiredNotServed` **fails**: the time to live is not positive, go-redis sends none, and the deleted file is served for ever |
| `cached_name` | generate a name, upload the same bytes to it again | `RetrievedById` **fails**: the file is cached, and served, under the name it came with, an id nobody was given |
| `app` | five configurations (defaults, two ports, only HTTP, only gRPC on S3, no API key), 2 workers, requests through both transports with and without the key, a reflection stream, 3 events, fair | `TypeOK`, `MessageOwn`, `BlameKept`, `AuthorizedChanges`, `Drained` hold, `ClashNoticed` too, and `EndsWhenTold` for clients that let go of what they hold |

The six failures are listed in `PROJECT.json` under findings, with the lines
they contradict.

**Are the bounds enough?** Two workers and the consumer give every pairwise race
and the races of a pair with the consumer. Two contents are needed to tell old
from new bytes, two times to have a deadline ahead and one passed, four in
`liveness` so that every file of every behaviour reaches its deadline within the
clock. Three requests make a file, disturb it and recreate it; `replace` has four
so that the backup of a backup occurs. One crash and one disconnection can fall
between any two steps. `core` spends its bounds on failing calls: two requests, one
to make a file and one to work on it, and two failures, so that one handler can
fail twice or a handler and the consumer once each; the third request and the
disconnection it leaves to `write_once` and `replace`, and to the proofs of the
same invariants for any number of everything. `cached` has the names a and b
to rename between, times before, at and after a deadline, and room for a change, a
reader beside it and one request after it. Backup names are never reused (they
carry nanoseconds), so as many are given as replacements can happen. In `app`
two requests are what it takes to share an error, and three events allow two
requests and one thing that goes wrong beside them (a signal, a port taken, a
server that breaks, a background failure), in any phase; each configuration
stands for a way the two switches, the ports and `Validate` can come out.

**Fairness.** `FairSpec` assumes that a started request is run on (the Go
scheduler, and calls that return), that the consumer is, that time passes, and
that deliveries do not consist of messages that are not due for ever: the
consumer sets no prefetch limit, so the broker sends all messages, and a requeued
message comes again behind those already sent. No fairness is assumed for
clients, crashes, restarts or disconnections; the liveness properties are checked
without disconnections, since nothing in the code reopens a connection. In
`Application`, `FairSpec` lets every goroutine run on: the main one (`MainStep`),
those that are to listen (`Listen`) and those of requests (`Serve`), which need
not be strong since nothing but their own step disables them for long. What a client
has to do is not owed: `Route` waits for the rest of the request and `HangUp` for the
end of a stream, and no server has a timeout for either. `EndsWhenTold` therefore has
the premise `ClientsLetGo`, that no client stays in one of the two for ever; without it
TLC shows the process waiting in `drainGrpc` for a stream. `ClashNoticed` has no
premise: it says that the main goroutine stops waiting. That a client takes its answer
is assumed. A signal, a failing server, a request or the consumer is never owed.

## 4. The proofs

`FileHostingProofs` proves, for every value of the constants that satisfies the
assumptions of `FileHosting` (disjoint name sets, well-typed requests, positive
default duration, None distinct from everything else):

* `TypeCorrect`: `Spec => []TypeOK`
* `AlwaysScheduled`, `HandlersAlwaysScheduled`, `ConsumerAlwaysDue`: the three
  invariants of `core`
* `SchedulerImplemented`: `Spec => ImplementsScheduler`, the refinement

`Scheduled` alone is not inductive: metadata is written several calls after the
message was published, and in between the message must not vanish. So the
invariant `Inv` adds, for every handler, that it has its message from publishing
to writing (`HandlersScheduled`), and that the consumer settles nothing before
its time (`ConsumerHoldsDue`). The argument then is:

1. a pending message that is not due stays pending in every step
   (`PendingStable`): a step publishes, delivers, requeues, breaks or reopens the
   connection, or forgets a message the consumer holds, which is due
   (`BrokerSteps`);
2. a handler gets into the writing or moving steps only by publishing or with a
   permanent file (`HandlerMoves`), and no step of anybody else disturbs it
   (`OthersAlone`), hence `HandlersStep`;
3. metadata changes only by handlers in those steps (`NewMetadata`), hence
   `ScheduledStep`;
4. for the refinement, what the broker holds or would take back changes only by
   publishing and by settling a due message (`SchedulerStep`).

Type correctness is part of the argument, not a preliminary: a handler that
schedules or moves an old file must have found its metadata.

`FaultyHostingProofs` proves `InvDespiteFaults` (`FaultySpec => []Inv`) and from it
`ScheduledDespiteFaults`. The invariant is the same: a failing call publishes
nothing and settles at most the message the consumer holds, which is due
(`PendingKept`), takes a handler only where the code would have gone with an absent
object (`FaultedMoves`), and writes no metadata but the handler's own
(`FaultMetadata`).

`OwnershipProofs` proves the two properties of `write_once` that are about what
clients see, each from the disciplines it needs and no others:

* `AlwaysRemovedForCause`: `RemovedForCause`, if names are not reused (WriteOnce) and
  the zone is not UTC
* `AlwaysAcknowledgedVisible`: `AcknowledgedVisible`, for WriteOnce and Exclusive

None of them is inductive, nor follows from `Inv`: they compare bytes with metadata
that another call read or wrote, and nothing in a state says that the two belong
together. The invariant `Owned` says it: there is an assignment of metadata to names
(`given`), made once per name, and everything found under a name agrees with it,
the objects, the messages pending or held, and the locals of handlers (`Agree`). A
request that makes a file gives its name when it arrives (or draws it), one that
moves a file gives the new name when it has read the old metadata; two never give
the same (`GivenOnce`). The proof carries `given` through each step: a step that gives
no name keeps the assignment (`Untouched` and the lemmas on kinds of steps before
it), the two that do extend it by one name, and what is written agrees since it is
what was given. A message that reaches a deletion then has the metadata of the file
it deletes, hence its deadline, which is due (`Overdue`); that needs a zone in which
permanent files get no message, `ZoneIsUTC` being what `permanent_backup` shows.

`AcknowledgedVisible` needs more: another request may delete a file that is not
finished. `Apart` (`AlwaysApart`) says that two changes going on share no name, if
clients change a name one at a time, and `MadeUndisturbed` that the bytes of a file
that is being made stay (`AlwaysUndisturbed`): no other change has the name, and the
consumer has not, since it has read metadata under the name it deletes and the file
in the making has none.

`ReplacementProofs` proves the same properties, and those about replacing, for
clients that do reuse names but carefully (`Careful`: Exclusive, FreshContent,
Timely, Swift), in a zone that is not UTC and a process that does not die:

* `AlwaysMatched`: no file is ever beside metadata of other bytes
* `AlwaysPaired`: `Paired`
* `RemovedForCauseWhenCareful`: `RemovedForCause`
* `AcknowledgedVisibleWhenCareful`: `AcknowledgedVisible`
* `BackupAlwaysKept`: `BackupKept`

Here a name has no one metadata for good, so `Owned` is of no use; what handlers know
of their names takes its place. The inductive invariant `Whole` (`AlwaysWhole`), beside
`Inv` and `Apart`, says

* of each handler (`HandlerCareful`) where it can be (`Placed`: it never has to roll
  back), that the deadlines it depends on are ahead (`InTime`), what is stored under the
  names it uses at each of its steps (`Stands`: the file it moves is whole until it is
  moved, the target empty until it is written, the backup made and kept), and that
  pending messages about what it stores are that file's own (`Heard`);
* of the consumer (`ConsumerCareful`), past the comparison of the bytes, that the
  metadata it has read is still there and expired;
* of every name, that a handler uses it, or it has a whole file or none, or the
  consumer is between its two deletions (`Unused`);
* of messages, that one about the bytes stored has their deadline (`MessagesFit`), and
  that every file with a deadline has its message, due or not (`Announced`).

A handler puts and announces something only under names it gives, and changes only
those it uses (`HandlerChanges`, `HandlerPending`), which no other handler uses
(`UsesApart`, from `Apart`) and the consumer is not cleaning (`CleanerAlone`: their
deadlines are ahead, the consumer's is behind). So the others keep what they know
(`StaysCareful`), and what is left is each handler's own step (`Fares`), which leaves
every name it stops using whole or empty. The five results are read off `Whole`.

Each discipline is needed: with two workers and the requests of `liveness`, generation
and a second name, TLC finds `Matched` violated without FreshContent, Timely or Swift,
and `AcknowledgedVisible` without Exclusive. One crash breaks `Matched` too, since an
upload that fails on metadata left behind has written its bytes beside it before it
rolls back. An answer it takes two crashes to spoil: a replacement that dies after the
move leaves the old metadata without its file, an upload that dies after its bytes puts
them beside it, and the same upload sent again is acknowledged with that metadata. The
single crash is what `replace` checks, for one worker.

Only model-checked: liveness under fairness is out of the prover's reach, so
`ExpiredRemoved`, `DueSettled`, `EndsWhenTold` and `ClashNoticed` stay with TLC, and so
do replacements with a crash (`replace`).

`CachedHostingProofs` proves `CacheTyped` (`Spec => []TypeOK`) and
`StalenessBounded` (`Spec => []BoundedStaleness`), for every value of the constants
of `CachedHosting`. Their conjunction is inductive: entries come from `Cached`
only, the value belongs under its key because a request keeps what the service
answered it (`AnsweredType`), and the end of the entry is computed from that very
value and the clock of the same step (`EndBounded`). That also says what the bound
does not cover: entries without a time to live, which is the way `cached_expired`
takes.

`CoherenceProofs` proves `AlwaysCoherent` (`Spec => []Coherent`) and `AlwaysListed`
(`Spec => []ListingCurrent`), for any set of workers, names, contents and requests.
The invariant, `Orderliness`, says that as long as nothing fails and clients are
orderly (`UpToDate`)

* bytes and metadata are stored together (`Whole`), which only a failing call could
  change;
* no two requests are about the same name when one of them changes it, and none
  changes anything while a listing is made (`Alone`), so what a request was sent on
  still holds when it reaches the service (`StillAsSent`);
* what a request has in hand between the answer of the service and its call to Redis
  is as stored, or the consumer may have deleted it (`Removable`; `InHand`): it is the
  only one that may take the file away meanwhile;
* an entry agrees with what is stored, or the consumer may have deleted what it shows,
  or a request on its way is about to set or drop it (`FilesAgree`, `MetasAgree`,
  `ListAgrees`).

A change breaks the third for its name and puts the request itself on the way in the
same step; each call to Redis then repairs one entry and leaves the rest to the
calls that follow. For a name no request is about, or with all requests done, nobody
is on the way, and the entry agrees.

`ApplicationProofs` proves, for any set of workers, configurations, requests and
bounds, `AppTyped`, `FailuresOwn`, `BlameAlwaysKept`, `AlwaysDrained` and
`ChangesAuthorized`: all of `app` but its two liveness properties. The inductive
invariant `AppInv` adds to the types

* about requests: every answer is in order on its own (`RepliesFine`), a request
  that worded a shared error without anybody else doing so finds its own words in it
  (`Worded`), and a request in front of the service has passed the authorization
  (`LetIn`);
* about the end: a server is stopped only once nothing of it is in progress, one
  after the other (`Draining`).

`MessageOwn` is not inductive without `Worded`, which relates the shared value, the
writer's place and the mark of everybody else; `Drained` is not without the order of
the shutdowns, since gRPC is drained two steps before the process ends. `BlameKept`
rests on `SharedMeaning`: over the statuses the service uses, the two code tables are
inverse to each other.

`AccessLogProofs` proves that `parseMethod` finds the method in every full method
name (`MethodParsed`), that accepting and ignoring filters on statuses divide the
requests (`StatusFiltersOpposite`), and that those on suffixes do not
(`SuffixFiltersOverlap`: `AcceptPathSuffix` asks for a prefix). The application
installs one filter only, so the others are translated and proved about, not run.

## 5. What is not modelled, and the plan

Abstractions of the present modules: one process; writing one object is atomic
(a reader may in fact see a half-written local file); calls to the local disk do
not fail (those to S3 do, in `FaultyHosting`); a message is with the broker once
Publish returns; deliveries that were buffered when the connection broke are not
handled any more; `x.metadata` cannot be the name of a file; names contain no
slash (UploadFile refuses them, RenameFile does not ask). JSON, MIME types,
custom metadata and logging are left out. In `CachedHosting`, keys of different
names differ (the code joins them with colons), Redis evicts nothing, and
marshalling does not fail; a call to the service is one step, so no deadline passes
in the middle of it (that is `late_rename` of `FileHosting`), and a look at the storage
that fails and is taken for absence is left to `FaultyHosting`. In `Application` a
server serves all connections or none; a connection whose client has sent nothing, or
part of a request, is a request in `route`; which of two orders of checks reports an
invalid configuration is left out.

1. *(done)* storage, broker, service, consumer; scheduler refinement; its proofs.
2. *(done)* the cached service; its runs and proofs.
3. *(done)* a bucket whose calls fail; the invariants that survive, proved.
4. *(done)* the process: configuration, start, notification, shutdown,
   authorization, requests through both transports; its run and proofs.
5. *(done)* application errors and code tables, log levels and filters.
6. *(done)* ownership for clients that never reuse a name, and two properties
   of `write_once` proved from it; coherence for orderly clients, and the two
   properties of `cached` proved from it.
7. *(done)* what handlers know of their names when clients reuse them with care, and
   from it `BackupKept`, `Paired` and the properties of `replace`, without a crash.
8. *(left)* that `stored` of `CachedHosting` is what `FileHosting` implements for
   clients that are apart; replacements with one crash.

Not modelled:

* a promise that a reader gets bytes and metadata of one file: the model has the two
  reads of GetFile with everything that may happen in between, and the code gives torn
  answers when a file is replaced there;
* a Publish that loses its message: without confirms nothing in the code can
  notice, so a model would only say that `Scheduled` is lost with it;
* the empty deliveries of a closed channel: they are not JSON, so the handler drops
  them, and what matters, that publishing fails from then on, is modelled;
* one name space for `x.metadata` and files, and colons in cache keys: names are
  abstract; both are listed as hazards;
* settings that only parameterise libraries, configuration accessors, headers and
  links of answers, metrics, the attributes and writers of the log, the static page:
  no state, and nothing a property here could tell apart;
* the generated stubs: no logic of the program.
