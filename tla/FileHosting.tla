----------------------------- MODULE FileHosting -----------------------------
(***************************************************************************)
(* FileHostingServiceImpl: the requests HTTP and gRPC handlers run          *)
(* concurrently (workers), the consumer of deletion messages, the storage   *)
(* they share and the broker between them.  One action is one call to the   *)
(* storage or to the broker, or one reading of the clock; what a handler    *)
(* computes between two calls belongs to the step of the first.             *)
(*                                                                         *)
(* A content stands for the bytes and for their SHA-1.  Files and their     *)
(* metadata are two stores over the same names: meta[n] is the object under *)
(* the key n.metadata.                                                      *)
(***************************************************************************)
EXTENDS FiniteSets, FileStorage, RabbitMQ

CONSTANTS
  Worker,            \* requests that can be in progress at once
  Public,            \* names clients choose
  Generated,         \* names generateFileName draws
  Backup,            \* names <name>.<nanoseconds> given to replaced files
  Content,
  Request,           \* the requests clients may send
  DefaultDuration,   \* what parseDuration returns for an unknown duration
  MaxDuration,
  ZoneIsUTC,         \* the process runs in UTC, as in the Docker image
  Exclusive,         \* clients change a name one request at a time
  WriteOnce,         \* and never reuse a name
  FreshContent,      \* or never give a name bytes still due to be deleted there,
                     \* nor move a file to a name that has one, or a message
  Timely,            \* clients change no file whose deadline has passed
  Swift,             \* no deadline passes while a request that depends on it runs
  MaxTime,           \* bound on the clock
  MaxRequests,       \* bound on the number of requests
  MaxCrashes,        \* bound on the process restarts
  MaxDisconnects     \* bound on the broken broker connections

Name == Public \cup Generated \cup Backup
Never == 0           \* time.Unix(0, 0), infiniteTimeStamp
Time == 0..(MaxTime + MaxDuration)

Message == [name : Name, sha1 : Content, expiredAt : Time]

Metadata == [sha1 : Content, expiredAt : Time, backup : Name \cup {None}]

Operation == {"upload", "generate", "rename", "delete",
              "getFile", "getMetadata", "getFiles"}

RequestType == [op : Operation, name : Name, content : Content,
                duration : 0..MaxDuration, newName : Name]

ASSUME NamesAssumption ==
  Public \cap Generated = {} /\ Public \cap Backup = {} /\ Generated \cap Backup = {}
ASSUME RequestAssumption == Request \subseteq RequestType
ASSUME DurationAssumption ==
  /\ MaxDuration \in Nat /\ MaxTime \in Nat \ {0}
  /\ DefaultDuration \in 1..MaxDuration
ASSUME NoneAssumption ==
  None \notin Content \cup Name \cup Metadata /\ NoDelivery \notin Message
ASSUME BoundsAssumption ==
  /\ MaxRequests \in Nat /\ MaxCrashes \in Nat /\ MaxDisconnects \in Nat
  /\ \A b \in {ZoneIsUTC, Exclusive, WriteOnce, FreshContent, Timely, Swift} : b \in BOOLEAN

VARIABLES
  data,          \* the files
  meta,          \* their metadata
  pc, job, reply,   \* of each worker: next step, locals, last answer
  cpc, seen,     \* of the consumer: next step, metadata it has read
  now,           \* the clock
  issued,        \* every name a file has been written or moved to
  requests, crashes, disconnects   \* counters for the bounds

store == <<data, meta>>
workerVars == <<pc, job, reply>>
consumerVars == <<cpc, seen>>
environment == <<now, issued, requests, crashes, disconnects>>
vars == <<store, brokerVars, workerVars, consumerVars, environment>>

(* The locals of a handler.  target is the name a new file is written to,   *)
(* moveTo the name an existing one is moved to, old the metadata read, new  *)
(* the metadata being made, got the bytes read, todo the names still to     *)
(* list.                                                                    *)
Job == [req : Request, target : Name, moveTo : Name,
        old : Metadata \cup {None}, new : Metadata,
        got : Content \cup {None}, todo : SUBSET Name]

(* What a client sees: an answer, an error, the recovered panic of a        *)
(* handler, or nothing because the process died.                            *)
Reply == [status : {"none", "ok", "error", "panic", "lost"},
          content : Content \cup {None}, meta : Metadata \cup {None}]

Answer(status, content, metadata) ==
  [status |-> status, content |-> content, meta |-> metadata]
NoReply == Answer("none", None, None)

RelocationPc == {"statMove", "transfer", "removeSource", "metaExist",
                 "statOldMeta", "removeOldMeta", "statBackupMeta", "writeBackupMeta"}
WritingPc == {"statData", "writeData", "statMeta", "writeMeta"}
WorkerPc == RelocationPc \cup WritingPc \cup
  {"idle", "exist", "readOld", "sameMeta", "readOldMeta", "scheduleOld", "schedule",
   "statRollback", "rollback", "generate", "readRenamed",
   "statDelete", "delete", "statDeleteMeta", "deleteMeta",
   "getData", "getMeta", "list", "listMeta"}
DueConsumerPc == {"readMeta", "checkExpiry", "statData", "removeData",
                  "statMeta", "removeMeta", "ack"}
ConsumerPc == DueConsumerPc \cup {"idle", "checkDue"}

StoreOK ==
  /\ data \in [Name -> Content \cup {None}]
  /\ meta \in [Name -> Metadata \cup {None}]

BrokerOK ==
  /\ queue \in [Message -> Nat]
  /\ held \in Message \cup {NoDelivery}
  /\ connected \in BOOLEAN

(* A handler at work has its locals, and the metadata of the file it moves. *)
WorkersOK ==
  /\ pc \in [Worker -> WorkerPc]
  /\ job \in [Worker -> Job \cup {None}]
  /\ reply \in [Worker -> Reply]
  /\ \A w \in Worker : pc[w] # "idle" => job[w] \in Job
  /\ \A w \in Worker : pc[w] \in RelocationPc \cup {"scheduleOld"} =>
       job[w].old \in Metadata

ConsumerOK == cpc \in ConsumerPc /\ seen \in Metadata \cup {None}

EnvironmentOK ==
  /\ now \in 1..MaxTime /\ issued \subseteq Name
  /\ requests \in 0..MaxRequests
  /\ crashes \in 0..MaxCrashes /\ disconnects \in 0..MaxDisconnects

TypeOK == StoreOK /\ BrokerOK /\ WorkersOK /\ ConsumerOK /\ EnvironmentOK

Init ==
  /\ data = [n \in Name |-> None] /\ meta = [n \in Name |-> None]
  /\ queue = [m \in Message |-> 0] /\ held = NoDelivery /\ connected = TRUE
  /\ pc = [w \in Worker |-> "idle"] /\ job = [w \in Worker |-> None]
  /\ reply = [w \in Worker |-> NoReply]
  /\ cpc = "idle" /\ seen = None
  /\ now = 1 /\ issued = {}
  /\ requests = 0 /\ crashes = 0 /\ disconnects = 0
-----------------------------------------------------------------------------
(* Deadlines.  Here and below, an operator named X_<mistake> in front of X  *)
(* is a plausible mistake in X, used only to see the properties fail.       *)

Due_Early(t) == t <= now + 1

(* !time.Now().Before(t)                                                    *)
Due(t) == t <= now

(* The expiry of a file stored now.  parseDuration gives 0 for "-1", which  *)
(* only UploadFile accepts.                                                 *)
Expiry(op, duration) ==
  IF duration = 0
  THEN IF op = "upload" THEN Never ELSE now + DefaultDuration
  ELSE now + duration

NeedsDeletion_Inverted(metadata) == metadata.expiredAt = Never /\ ~ZoneIsUTC

(* ExpiredAt != infiniteTimeStamp for metadata read back from its JSON: a   *)
(* permanent time compares equal to time.Unix(0, 0) only when decoding      *)
(* gives it the local zone, which it does not when the zone is UTC.         *)
NeedsDeletion(metadata) == metadata.expiredAt # Never \/ ZoneIsUTC

DeletionOf(name, metadata) ==
  [name |-> name, sha1 |-> metadata.sha1, expiredAt |-> metadata.expiredAt]
-----------------------------------------------------------------------------
(* Control of the workers.                                                  *)

Goto(w, label) ==
  /\ pc' = [pc EXCEPT ![w] = label]
  /\ UNCHANGED reply

Proceed(w, label) == Goto(w, label) /\ UNCHANGED job

Finish(w, answer) ==
  /\ pc' = [pc EXCEPT ![w] = "idle"]
  /\ job' = [job EXCEPT ![w] = None]
  /\ reply' = [reply EXCEPT ![w] = answer]

Fail(w) == Finish(w, Answer("error", None, None))
Panic(w) == Finish(w, Answer("panic", None, None))
-----------------------------------------------------------------------------
(* The clients.  Exclusive, WriteOnce, FreshContent, Timely and Swift are   *)
(* disciplines some runs assume; the service enforces none.  FreshContent   *)
(* concerns the name the service draws, too.                                *)

Reads == {"getFile", "getMetadata", "getFiles"}
Changing(w) == pc[w] # "idle" /\ job[w].req.op \notin Reads
NamesOf(w) == {job[w].req.name, job[w].req.newName, job[w].target, job[w].moveTo}

Targets(r) ==
  IF r.op = "upload" THEN {r.name} ELSE IF r.op = "rename" THEN {r.newName} ELSE {}

Alive(t) == t = Never \/ ~Due(t)

Admissible(r) ==
  /\ Exclusive /\ r.op \notin Reads =>
       \A v \in Worker : Changing(v) => NamesOf(v) \cap {r.name, r.newName} = {}
  /\ WriteOnce => Targets(r) \cap issued = {}
  /\ FreshContent =>
       /\ r.op = "rename" => ~IsExist(meta, r.newName)
       /\ \A m \in Message : Pending(m) /\ m.name \in Targets(r) =>
            r.op = "upload" /\ m.sha1 # r.content
  /\ Timely /\ r.op \notin Reads /\ IsExist(meta, r.name) =>
       Alive(meta[r.name].expiredAt)

(* To change a name one request at a time is also not to change, before it  *)
(* exists, the name the service is about to draw.                           *)
Unguessed(w, n) ==
  Exclusive => \A v \in Worker \ {w} : Changing(v) => n \notin NamesOf(v)

(* Every deadline an unfinished request depends on.                         *)
Deadlines(w) ==
  {job[w].new.expiredAt}
    \cup {md.expiredAt : md \in {job[w].old, meta[job[w].req.name]} \ {None}}

FirstStep(op) ==
  CASE op = "upload" -> "exist"
    [] op = "generate" -> "generate"
    [] op = "rename" -> "readRenamed"
    [] op = "delete" -> "statDelete"
    [] op = "getFile" -> "getData"
    [] op = "getMetadata" -> "getMeta"
    [] op = "getFiles" -> "list"

(* A request arrives; UploadFile fixes the expiry at once.                  *)
Submit(w, r) ==
  /\ pc[w] = "idle"
  /\ requests < MaxRequests
  /\ Admissible(r)
  /\ requests' = requests + 1
  /\ issued' = issued \cup Targets(r)
  /\ pc' = [pc EXCEPT ![w] = FirstStep(r.op)]
  /\ job' = [job EXCEPT ![w] =
       [req |-> r, target |-> r.name, moveTo |-> r.newName, old |-> None,
        new |-> [sha1 |-> r.content, backup |-> None,
                 expiredAt |-> IF r.op = "upload" THEN Expiry(r.op, r.duration)
                               ELSE Never],
        got |-> None, todo |-> {}]]
  /\ reply' = [reply EXCEPT ![w] = NoReply]
  /\ UNCHANGED <<store, brokerVars, consumerVars, now, crashes, disconnects>>
-----------------------------------------------------------------------------
(* Steps that touch no store: common UNCHANGED of the workers' actions.     *)
OnlyWorkers == UNCHANGED <<store, brokerVars, consumerVars, environment>>
OnlyData == UNCHANGED <<meta, brokerVars, consumerVars, environment>>
OnlyMeta == UNCHANGED <<data, brokerVars, consumerVars, environment>>
OnlyQueue == UNCHANGED <<store, consumerVars, environment>>

(* UploadFile up to the point where the old file, if any, is out of the way. *)

WriteNew(metadata) == IF metadata.expiredAt = Never THEN "statData" ELSE "schedule"

CheckExist(w) ==
  /\ pc[w] = "exist"
  /\ Proceed(w, IF IsExist(data, job[w].req.name) THEN "readOld"
                ELSE WriteNew(job[w].new))
  /\ OnlyWorkers

(* An unreadable old file counts as a different one.                        *)
ReadOld(w) ==
  /\ pc[w] = "readOld"
  /\ Proceed(w, IF data[job[w].req.name] = job[w].req.content THEN "sameMeta"
                ELSE "readOldMeta")
  /\ OnlyWorkers

(* The same bytes are already there: the answer is the file as it is, and   *)
(* the code dereferences the metadata without looking at the error.         *)
AnswerSame(w) ==
  /\ pc[w] = "sameMeta"
  /\ LET found == meta[job[w].req.name] IN
       IF found = None THEN Panic(w)
       ELSE Finish(w, Answer("ok", job[w].req.content, found))
  /\ OnlyWorkers

(* RenameFile first checks that the old file can be read.                   *)
ReadRenamed(w) ==
  /\ pc[w] = "readRenamed"
  /\ IF IsExist(data, job[w].req.name) THEN Proceed(w, "readOldMeta") ELSE Fail(w)
  /\ OnlyWorkers

(* Where the existing file goes: the new name, or a backup name no file has *)
(* had (the nanosecond clock).                                              *)
MoveTargets(w) ==
  IF job[w].req.op = "rename" THEN {job[w].req.newName}
  ELSE {k \in Backup \ issued : Unguessed(w, k)}

KeepOld_Unchecked(w, found, to) ==
  /\ Goto(w, IF found # None /\ NeedsDeletion(found) THEN "scheduleOld" ELSE "statMove")
  /\ job' = [job EXCEPT ![w].old = found, ![w].moveTo = to]

(* Both handlers ignore the error and use the metadata.                     *)
KeepOld(w, found, to) ==
  IF found = None THEN Panic(w)
  ELSE /\ Goto(w, IF NeedsDeletion(found) THEN "scheduleOld" ELSE "statMove")
       /\ job' = [job EXCEPT ![w].old = found, ![w].moveTo = to]

ReadOldMeta(w) ==
  /\ pc[w] = "readOldMeta"
  /\ \E to \in MoveTargets(w) :
       /\ KeepOld(w, meta[job[w].req.name], to)
       /\ issued' = issued \cup {to}
  /\ UNCHANGED <<store, brokerVars, consumerVars, now, requests, crashes, disconnects>>

(* scheduleDeleteFile: publish, or give the request up.                     *)
Schedule(w, message, label) ==
  \/ Publish(message) /\ Proceed(w, label)
  \/ ~connected /\ Fail(w) /\ UNCHANGED brokerVars

ScheduleOld_OldName(w) ==
  /\ pc[w] = "scheduleOld"
  /\ Schedule(w, DeletionOf(job[w].req.name, job[w].old), "statMove")
  /\ OnlyQueue

ScheduleOld(w) ==
  /\ pc[w] = "scheduleOld"
  /\ Schedule(w, DeletionOf(job[w].moveTo, job[w].old), "statMove")
  /\ OnlyQueue

StatMove(w) ==
  /\ pc[w] = "statMove"
  /\ IF IsExist(data, job[w].req.name) THEN Proceed(w, "transfer") ELSE Fail(w)
  /\ OnlyWorkers

Transfer(w) ==
  /\ pc[w] = "transfer"
  /\ LET from == job[w].req.name IN
       IF TransferSucceeds(data, from, job[w].moveTo)
       THEN /\ data' = Transferred(data, from, job[w].moveTo)
            /\ Proceed(w, IF LeavesSource THEN "removeSource" ELSE "metaExist")
       ELSE Fail(w) /\ UNCHANGED data
  /\ OnlyData

RemoveSource(w) ==
  /\ pc[w] = "removeSource"
  /\ data' = Removed(data, job[w].req.name)
  /\ Proceed(w, "metaExist")
  /\ OnlyData

Relocated_Unscheduled(w) ==
  IF job[w].req.op = "rename" THEN Finish(w, Answer("ok", None, None))
  ELSE /\ Goto(w, "statData")
       /\ job' = [job EXCEPT ![w].new.backup = job[w].moveTo]

(* The old file is out of the way: a rename is done, an upload goes on with *)
(* the backup name in its metadata.                                         *)
Relocated(w) ==
  IF job[w].req.op = "rename" THEN Finish(w, Answer("ok", None, None))
  ELSE /\ Goto(w, WriteNew(job[w].new))
       /\ job' = [job EXCEPT ![w].new.backup = job[w].moveTo]

CheckMetaExist(w) ==
  /\ pc[w] = "metaExist"
  /\ IF IsExist(meta, job[w].req.name) THEN Proceed(w, "statOldMeta") ELSE Relocated(w)
  /\ OnlyWorkers

StatOldMeta(w) ==
  /\ pc[w] = "statOldMeta"
  /\ IF IsExist(meta, job[w].req.name) THEN Proceed(w, "removeOldMeta") ELSE Fail(w)
  /\ OnlyWorkers

RemoveOldMeta(w) ==
  /\ pc[w] = "removeOldMeta"
  /\ meta' = Removed(meta, job[w].req.name)
  /\ IF RemoveSucceeds(meta, job[w].req.name) THEN Proceed(w, "statBackupMeta")
     ELSE Fail(w)
  /\ OnlyMeta

StatBackupMeta(w) ==
  /\ pc[w] = "statBackupMeta"
  /\ IF IsExist(meta, job[w].moveTo) THEN Fail(w) ELSE Proceed(w, "writeBackupMeta")
  /\ OnlyWorkers

WriteBackupMeta_Swapped(w) ==
  /\ pc[w] = "writeBackupMeta"
  /\ meta' = Created(meta, job[w].moveTo, job[w].new)
  /\ Relocated(w)
  /\ OnlyMeta

WriteBackupMeta(w) ==
  /\ pc[w] = "writeBackupMeta"
  /\ meta' = Created(meta, job[w].moveTo, job[w].old)
  /\ Relocated(w)
  /\ OnlyMeta
-----------------------------------------------------------------------------
(* UploadFileWithGenerativeName draws names until one is free, then goes on *)
(* as UploadFile does: message, file, metadata.                             *)
Generate(w) ==
  /\ pc[w] = "generate"
  /\ \E g \in Generated :
       /\ ~IsExist(data, g)
       /\ WriteOnce => g \notin issued
       /\ FreshContent => \A m \in Message : Pending(m) => m.name # g
       /\ Unguessed(w, g)
       /\ issued' = issued \cup {g}
       /\ job' = [job EXCEPT ![w].target = g,
                    ![w].new.expiredAt = Expiry("generate", job[w].req.duration)]
  /\ Goto(w, "schedule")
  /\ UNCHANGED <<store, brokerVars, consumerVars, now, requests, crashes, disconnects>>

ScheduleNew(w) ==
  /\ pc[w] = "schedule"
  /\ Schedule(w, DeletionOf(job[w].target, job[w].new), "statData")
  /\ OnlyQueue

StatData(w) ==
  /\ pc[w] = "statData"
  /\ IF IsExist(data, job[w].target) THEN Fail(w) ELSE Proceed(w, "writeData")
  /\ OnlyWorkers

WriteData_AnswersEarly(w) ==
  /\ pc[w] = "writeData"
  /\ data' = Created(data, job[w].target, job[w].req.content)
  /\ Finish(w, Answer("ok", job[w].req.content, job[w].new))
  /\ OnlyData

WriteData(w) ==
  /\ pc[w] = "writeData"
  /\ data' = Created(data, job[w].target, job[w].req.content)
  /\ Proceed(w, "statMeta")
  /\ OnlyData

StatMeta_ConflictIgnored(w) ==
  /\ pc[w] = "statMeta"
  /\ IF IsExist(meta, job[w].target)
     THEN Finish(w, Answer("ok", job[w].req.content, job[w].new))
     ELSE Proceed(w, "writeMeta")
  /\ OnlyWorkers

StatMeta(w) ==
  /\ pc[w] = "statMeta"
  /\ Proceed(w, IF IsExist(meta, job[w].target) THEN "statRollback" ELSE "writeMeta")
  /\ OnlyWorkers

WriteMeta(w) ==
  /\ pc[w] = "writeMeta"
  /\ meta' = Created(meta, job[w].target, job[w].new)
  /\ Finish(w, Answer("ok", job[w].req.content, job[w].new))
  /\ OnlyMeta

(* The rollback deletes whatever file is there and ignores the outcome.     *)
StatRollback(w) ==
  /\ pc[w] = "statRollback"
  /\ IF IsExist(data, job[w].target) THEN Proceed(w, "rollback") ELSE Fail(w)
  /\ OnlyWorkers

Rollback(w) ==
  /\ pc[w] = "rollback"
  /\ data' = Removed(data, job[w].target)
  /\ Fail(w)
  /\ OnlyData
-----------------------------------------------------------------------------
(* DeleteFile.                                                              *)

StatDelete(w) ==
  /\ pc[w] = "statDelete"
  /\ IF IsExist(data, job[w].req.name) THEN Proceed(w, "delete") ELSE Fail(w)
  /\ OnlyWorkers

Delete(w) ==
  /\ pc[w] = "delete"
  /\ data' = Removed(data, job[w].req.name)
  /\ IF RemoveSucceeds(data, job[w].req.name) THEN Proceed(w, "statDeleteMeta")
     ELSE Fail(w)
  /\ OnlyData

StatDeleteMeta(w) ==
  /\ pc[w] = "statDeleteMeta"
  /\ IF IsExist(meta, job[w].req.name) THEN Proceed(w, "deleteMeta") ELSE Fail(w)
  /\ OnlyWorkers

DeleteMeta(w) ==
  /\ pc[w] = "deleteMeta"
  /\ meta' = Removed(meta, job[w].req.name)
  /\ IF RemoveSucceeds(meta, job[w].req.name) THEN Finish(w, Answer("ok", None, None))
     ELSE Fail(w)
  /\ OnlyMeta
-----------------------------------------------------------------------------
(* GetFile, GetFileMetadata and GetFiles.                                   *)

GetData(w) ==
  /\ pc[w] = "getData"
  /\ IF IsExist(data, job[w].req.name)
     THEN /\ Goto(w, "getMeta")
          /\ job' = [job EXCEPT ![w].got = data[job[w].req.name]]
     ELSE Fail(w)
  /\ OnlyWorkers

GetMeta(w) ==
  /\ pc[w] = "getMeta"
  /\ IF IsExist(meta, job[w].req.name)
     THEN Finish(w, Answer("ok", job[w].got, meta[job[w].req.name]))
     ELSE Fail(w)
  /\ OnlyWorkers

List(w) ==
  /\ pc[w] = "list"
  /\ Goto(w, "listMeta")
  /\ job' = [job EXCEPT ![w].todo = {n \in Name : IsExist(data, n)}]
  /\ OnlyWorkers

(* One file without metadata fails the whole listing.                       *)
ListMeta(w) ==
  /\ pc[w] = "listMeta"
  /\ \/ job[w].todo = {} /\ Finish(w, Answer("ok", None, None))
     \/ \E n \in job[w].todo :
          IF IsExist(meta, n)
          THEN /\ job' = [job EXCEPT ![w].todo = @ \ {n}]
               /\ Goto(w, "listMeta")
          ELSE Fail(w)
  /\ OnlyWorkers

WorkerStep(w) ==
  \/ CheckExist(w) \/ ReadOld(w) \/ AnswerSame(w) \/ ReadRenamed(w) \/ ReadOldMeta(w)
  \/ ScheduleOld(w) \/ StatMove(w) \/ Transfer(w) \/ RemoveSource(w)
  \/ CheckMetaExist(w) \/ StatOldMeta(w) \/ RemoveOldMeta(w)
  \/ StatBackupMeta(w) \/ WriteBackupMeta(w)
  \/ Generate(w) \/ ScheduleNew(w) \/ StatData(w) \/ WriteData(w)
  \/ StatMeta(w) \/ WriteMeta(w) \/ StatRollback(w) \/ Rollback(w)
  \/ StatDelete(w) \/ Delete(w) \/ StatDeleteMeta(w) \/ DeleteMeta(w)
  \/ GetData(w) \/ GetMeta(w) \/ List(w) \/ ListMeta(w)
-----------------------------------------------------------------------------
(* handleDeleteFileMessage.                                                 *)

ConsumerOnly == UNCHANGED <<workerVars, environment>>

TakeDelivery(m) ==
  /\ cpc = "idle"
  /\ Deliver(m)
  /\ cpc' = "checkDue"
  /\ UNCHANGED <<store, seen>> /\ ConsumerOnly

Settle(brokerAction) ==
  /\ brokerAction
  /\ cpc' = "idle" /\ seen' = None

Continue(label) == cpc' = label /\ UNCHANGED <<brokerVars, seen>>

CheckDue_Skipped ==
  /\ cpc = "checkDue"
  /\ Continue("readMeta")
  /\ UNCHANGED store /\ ConsumerOnly

CheckDue_Refuses ==
  /\ cpc = "checkDue"
  /\ IF Due(held.expiredAt) THEN Continue("readMeta") ELSE Settle(Forget)
  /\ UNCHANGED store /\ ConsumerOnly

CheckDue ==
  /\ cpc = "checkDue"
  /\ IF Due(held.expiredAt) THEN Continue("readMeta") ELSE Settle(Requeue)
  /\ UNCHANGED store /\ ConsumerOnly

Compare_AnyBytes(found) ==
  IF found = None THEN Settle(Forget)
  ELSE cpc' = "checkExpiry" /\ seen' = found /\ UNCHANGED brokerVars

Compare_KeepsMissing(found) ==
  IF found = None THEN Settle(Requeue)
  ELSE IF found.sha1 # held.sha1 THEN Settle(Forget)
  ELSE cpc' = "checkExpiry" /\ seen' = found /\ UNCHANGED brokerVars

(* No metadata: acknowledged.  Metadata of other bytes: refused for good.   *)
Compare(found) ==
  IF found = None \/ found.sha1 # held.sha1 THEN Settle(Forget)
  ELSE cpc' = "checkExpiry" /\ seen' = found /\ UNCHANGED brokerVars

ReadMeta ==
  /\ cpc = "readMeta"
  /\ Compare(meta[held.name])
  /\ UNCHANGED store /\ ConsumerOnly

CheckExpiry ==
  /\ cpc = "checkExpiry"
  /\ IF Due(seen.expiredAt) THEN Continue("statData") ELSE Settle(Requeue)
  /\ UNCHANGED store /\ ConsumerOnly

StatExpired ==
  /\ cpc = "statData"
  /\ IF IsExist(data, held.name) THEN Continue("removeData") ELSE Settle(Requeue)
  /\ UNCHANGED store /\ ConsumerOnly

RemoveExpired ==
  /\ cpc = "removeData"
  /\ data' = Removed(data, held.name)
  /\ IF RemoveSucceeds(data, held.name) THEN Continue("statMeta") ELSE Settle(Requeue)
  /\ UNCHANGED meta /\ ConsumerOnly

StatExpiredMeta_Forgets ==
  /\ cpc = "statMeta"
  /\ Continue("ack")
  /\ UNCHANGED store /\ ConsumerOnly

(* A failed deletion of the metadata is logged and forgotten.               *)
StatExpiredMeta ==
  /\ cpc = "statMeta"
  /\ Continue(IF IsExist(meta, held.name) THEN "removeMeta" ELSE "ack")
  /\ UNCHANGED store /\ ConsumerOnly

RemoveExpiredMeta ==
  /\ cpc = "removeMeta"
  /\ meta' = Removed(meta, held.name)
  /\ Continue("ack")
  /\ UNCHANGED data /\ ConsumerOnly

Acknowledge ==
  /\ cpc = "ack"
  /\ Settle(Forget)
  /\ UNCHANGED store /\ ConsumerOnly

ConsumerStep ==
  \/ CheckDue \/ ReadMeta \/ CheckExpiry \/ StatExpired \/ RemoveExpired
  \/ StatExpiredMeta \/ RemoveExpiredMeta \/ Acknowledge
-----------------------------------------------------------------------------
(* The surroundings: time, the broker connection, the process.              *)

Tick ==
  /\ now < MaxTime
  /\ Swift => \A w \in Worker : Changing(w) =>
       \A t \in Deadlines(w) : Due(t) \/ now + 1 < t
  /\ now' = now + 1
  /\ UNCHANGED <<store, brokerVars, workerVars, consumerVars,
                 issued, requests, crashes, disconnects>>

LoseBroker ==
  /\ disconnects < MaxDisconnects
  /\ Disconnect
  /\ disconnects' = disconnects + 1
  /\ UNCHANGED <<store, workerVars, consumerVars, now, issued, requests, crashes>>

(* The process dies - a gRPC handler panics, it is killed, it is deployed   *)
(* anew - and starts again.                                                 *)
Restart ==
  /\ crashes < MaxCrashes
  /\ Reconnect
  /\ crashes' = crashes + 1
  /\ cpc' = "idle" /\ seen' = None
  /\ pc' = [w \in Worker |-> "idle"] /\ job' = [w \in Worker |-> None]
  /\ reply' = [w \in Worker |-> IF pc[w] = "idle" THEN reply[w]
                                ELSE Answer("lost", None, None)]
  /\ UNCHANGED <<store, now, issued, requests, disconnects>>

Next ==
  \/ \E w \in Worker : WorkerStep(w) \/ \E r \in Request : Submit(w, r)
  \/ \E m \in Message : TakeDelivery(m)
  \/ ConsumerStep
  \/ Tick \/ LoseBroker \/ Restart

Spec == Init /\ [][Next]_vars
-----------------------------------------------------------------------------
(* Fairness: the scheduler runs every goroutine, storage and broker calls   *)
(* return, time passes, and the deliveries are not of messages that are not *)
(* due for ever: the consumer sets no prefetch limit, so every unsettled    *)
(* message is sent to it, and a requeued one comes again behind those       *)
(* already sent.                                                            *)
Fairness ==
  /\ \A w \in Worker : WF_vars(WorkerStep(w))
  /\ WF_vars(ConsumerStep)
  /\ SF_vars(\E m \in Message : Due(m.expiredAt) /\ TakeDelivery(m))
  /\ WF_vars(Tick)

FairSpec == Spec /\ Fairness
-----------------------------------------------------------------------------
(* Properties.                                                              *)

(* A file is in order when clients can get it: the bytes, and metadata that *)
(* describes these bytes.                                                   *)
Visible(n) == data[n] # None /\ meta[n] # None /\ meta[n].sha1 = data[n]

(* Its deadline has passed; Never is not a deadline.                        *)
Overdue(n) == meta[n] # None /\ meta[n].expiredAt \in 1..now

(* Whatever requests, crashes and broken connections interleave, a file     *)
(* whose metadata promises a deadline in the future has its deletion        *)
(* message with the broker: scheduling comes first in every handler.        *)
Scheduled ==
  \A n \in Name : meta[n] # None /\ now < meta[n].expiredAt =>
    Pending(DeletionOf(n, meta[n]))

(* What makes Scheduled inductive: a handler that is past its publication   *)
(* and has not written the metadata yet has the message with the broker     *)
(* while the deadline lies ahead.                                           *)
HandlerScheduled(w) ==
  /\ pc[w] \in WritingPc /\ now < job[w].new.expiredAt =>
       Pending(DeletionOf(job[w].target, job[w].new))
  /\ pc[w] \in RelocationPc /\ now < job[w].old.expiredAt =>
       Pending(DeletionOf(job[w].moveTo, job[w].old))

(* Of every handler, whatever the other handlers and the consumer do.       *)
HandlersScheduled == \A w \in Worker : HandlerScheduled(w)

(* Past its first clock check the consumer only works on due messages, and  *)
(* it holds a delivery exactly while it is at work.                         *)
ConsumerHoldsDue ==
  /\ cpc = "idle" <=> held = NoDelivery
  /\ cpc \in DueConsumerPc => held.expiredAt <= now

(* The inductive invariant of FileHostingProofs.                            *)
Inv == TypeOK /\ Scheduled /\ HandlersScheduled /\ ConsumerHoldsDue

(* The abstract scheduler: what the broker holds or would take back is what *)
(* is pending.                                                              *)
Scheduler == INSTANCE DelayedDelivery WITH pending <- TakenBack, clock <- now

(* The queue and its consumer implement a scheduler that never settles a    *)
(* message before its deadline and loses none to a crash.                   *)
ImplementsScheduler == Scheduler!Spec

(* A file in order stops being so only because its deadline has passed or   *)
(* because a client is deleting, renaming or replacing it.                  *)
RemovedForCause ==
  [][\A n \in Name : Visible(n) /\ ~Visible(n)' =>
       \/ Overdue(n)
       \/ \E w \in Worker : /\ Changing(w)
                           /\ job[w].req.op # "generate"
                           /\ job[w].req.name = n]_vars

(* The worker's request, one of these operations, is answered in this step. *)
Answers(w, op) == pc[w] # "idle" /\ job[w].req.op \in op /\ reply'[w].status = "ok"

(* When an upload is answered the file can be got under its name.           *)
AcknowledgedVisible ==
  [][\A w \in Worker :
       \A n \in Name :
         Answers(w, {"upload", "generate"}) /\ job[w].target = n => Visible(n)']_vars

(* Replacing a file keeps the old one: when the upload is answered, the     *)
(* backup its metadata names holds the old bytes and the old metadata,      *)
(* unless the deadline of the old file has passed meanwhile.                *)
BackupKept ==
  [][\A w \in Worker :
       Answers(w, {"upload"}) /\ job[w].old # None /\ job[w].old.expiredAt \notin 1..now =>
         /\ reply'[w].meta.backup = job[w].moveTo
         /\ meta'[job[w].moveTo] = job[w].old
         /\ data'[job[w].moveTo] = job[w].old.sha1]_vars

(* While no request and no deletion is at work, bytes and metadata go       *)
(* together: the listing of GetFiles fails on a file without metadata, and  *)
(* metadata without its file blocks the name for good.                      *)
Paired ==
  (cpc = "idle" /\ \A w \in Worker : ~Changing(w)) =>
    \A n \in Name : IsExist(data, n) <=> IsExist(meta, n)

(* A file whose deadline has passed goes away.                              *)
ExpiredRemoved == \A n \in Name : Overdue(n) ~> ~Overdue(n)

(* A message about the name is due and not settled.                         *)
HasDueMessage(n) ==
  \E m \in Message : m.name = n /\ m.expiredAt <= now /\ Pending(m)

(* Due messages do not go round for ever: a name is rid of its own.         *)
DueSettled == \A n \in Name : HasDueMessage(n) ~> ~HasDueMessage(n)

(* The consumer leaves permanent files alone.                               *)
PermanentKept ==
  [][\A n \in Name : Visible(n) /\ meta[n].expiredAt = Never /\ cpc = "removeData"
       => data'[n] = data[n]]_vars
=============================================================================
