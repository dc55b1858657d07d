---------------------------- MODULE CachedHosting ----------------------------
(***************************************************************************)
(* FileHostingCachedService: Redis in front of the service.  Each call to   *)
(* Redis is a step.  A call to the service is one step too: how it runs     *)
(* inside is FileHosting, of which the outcomes appear here, those of a     *)
(* call that fails midway included.                                         *)
(***************************************************************************)
EXTENDS Integers, FiniteSets

CONSTANTS
  Worker,            \* requests that can be in progress at once
  Public,            \* names clients choose
  Generated,         \* names generateFileName draws
  Backup,            \* names given to replaced files
  Content,
  Request,           \* the requests clients may send
  DefaultDuration,   \* what parseDuration returns for an unknown duration
  DefaultTTL,        \* defaultTTL
  ZoneIsUTC,         \* the process runs in UTC, as in the Docker image
  None,
  MaxDuration,       \* bound on durations
  MaxTime,           \* bound on the clock
  MaxRequests,       \* bound on the number of requests
  MaxFaults          \* bound on failed calls to Redis, storage or broker, and
                     \* on process restarts

Name == Public \cup Generated \cup Backup
Never == 0           \* time.Unix(0, 0)
Time == 0..(MaxTime + MaxDuration)
Forever == -1        \* no time to live

Metadata == [name : Name, sha1 : Content, expiredAt : Time]
File == [content : Content, meta : Metadata]
Stored == [content : Content \cup {None}, meta : Metadata \cup {None}]
Message == [name : Name, sha1 : Content, expiredAt : Time]
Listing == [Name -> Metadata \cup {None}]

ListKey == <<"files", None>>
FileKey(n) == <<"file", n>>
MetaKey(n) == <<"metadata", n>>
Key == {ListKey} \cup {FileKey(n) : n \in Name} \cup {MetaKey(n) : n \in Name}

Value(key) ==
  IF key = ListKey THEN Listing ELSE IF key[1] = "file" THEN File ELSE Metadata

Operation == {"upload", "generate", "rename", "delete",
              "getFile", "getMetadata", "getFiles"}

RequestType == [op : Operation, name : Name, content : Content,
                duration : 0..MaxDuration, newName : Name]

ASSUME CachedNamesAssumption ==
  Public \cap Generated = {} /\ Public \cap Backup = {} /\ Generated \cap Backup = {}
ASSUME RequestAssumption == Request \subseteq RequestType
ASSUME TimesAssumption ==
  /\ MaxDuration \in Nat /\ MaxTime \in Nat \ {0}
  /\ DefaultDuration \in 1..MaxDuration /\ DefaultTTL \in Nat \ {0}
ASSUME CachedNoneAssumption ==
  None \notin Content \cup File \cup Metadata \cup Listing \cup Name
ASSUME CountersAssumption ==
  MaxRequests \in Nat /\ MaxFaults \in Nat /\ ZoneIsUTC \in BOOLEAN

VARIABLES
  stored,     \* what the service has under each name: bytes and metadata
  scheduled,  \* the deletion messages published so far
  cache,      \* Redis: value and end of life of each entry
  pc, job,    \* of each request: next step, locals
  orderly,    \* whether the clients have kept to Orderly so far
  now, requests, faults

vars == <<stored, scheduled, cache, pc, job, orderly, now, requests, faults>>

(* The locals of a request: the name and the value the service answered.    *)
NoJob == [req |-> None, name |-> None, got |-> None]

Reads == {"getFile", "getMetadata", "getFiles"}
Pc == {"idle", "lookup", "call", "fill", "setFile", "setMeta",
       "dropFile", "dropMeta", "dropList"}

Entry(key) == [value : Value(key), until : Int]

Nothing == [content |-> None, meta |-> None]
Has(n) == stored[n].content # None
Described(n) == stored[n].meta # None
Live(key) == cache[key] # None /\ (cache[key].until = Forever \/ now < cache[key].until)
Overdue(meta) == meta.expiredAt \in 1..now

(* The consumer may delete a file with this metadata under the name: a      *)
(* message about the name and the bytes is due (the broker delivers one     *)
(* again until it is settled), and so is the expiry, which for a permanent  *)
(* file lies in 1970.                                                       *)
Removable(n, meta) ==
  /\ meta.expiredAt \in Never..now
  /\ \E m \in scheduled : m.name = n /\ m.sha1 = meta.sha1 /\ m.expiredAt \in Never..now

Condemned(n) == Has(n) /\ Described(n) /\ Removable(n, stored[n].meta)

StoresOK ==
  /\ stored \in [Name -> Stored] /\ scheduled \subseteq Message
  /\ cache = [k \in Key |-> cache[k]]
  /\ \A k \in Key : cache[k] \in Entry(k) \cup {None}

(* The key a read looks up.                                                 *)
ReadKey(r) ==
  IF r.op = "getFiles" THEN ListKey
  ELSE IF r.op = "getFile" THEN FileKey(r.name) ELSE MetaKey(r.name)

RequestsOK ==
  /\ pc \in [Worker -> Pc]
  /\ job = [w \in Worker |-> [req |-> job[w].req, name |-> job[w].name, got |-> job[w].got]]
  /\ \A w \in Worker : pc[w] # "idle" => job[w].req \in Request
  /\ \A w \in Worker : pc[w] = "fill" => job[w].got \in Value(ReadKey(job[w].req))
  /\ \A w \in Worker : pc[w] \in {"setFile", "setMeta"} => job[w].got \in File
  /\ \A w \in Worker :
       pc[w] \in {"setFile", "setMeta", "dropFile", "dropMeta"} => job[w].name \in Name

CountersOK == now \in 1..MaxTime /\ requests \in 0..MaxRequests /\ faults \in 0..MaxFaults

TypeOK == StoresOK /\ RequestsOK /\ CountersOK /\ orderly \in BOOLEAN

Init ==
  /\ stored = [n \in Name |-> Nothing] /\ scheduled = {}
  /\ cache = [k \in Key |-> None]
  /\ pc = [w \in Worker |-> "idle"] /\ job = [w \in Worker |-> NoJob]
  /\ orderly = TRUE /\ now = 1 /\ requests = 0 /\ faults = 0
-----------------------------------------------------------------------------
(* Clients.  The service asks no discipline of them.  The orderly ones do    *)
(* not change a name while another request is about it, nor anything while  *)
(* a listing is made; they rename to free names only, keep to public names, *)
(* repeat an upload under the name it was first given only, do not change,  *)
(* before it exists, the name the service is about to draw, and do not      *)
(* change a file the consumer may be about to delete.                       *)

NamesOf(r) == IF r.op = "generate" THEN {} ELSE {r.name, r.newName}
Concerns(w, n) == pc[w] # "idle" /\ n \in NamesOf(job[w].req) \cup {job[w].name}

Apart(r, w) ==
  \/ pc[w] = "idle"
  \/ r.op \in Reads /\ job[w].req.op \in Reads
  \/ "getFiles" \notin {r.op, job[w].req.op} /\ ~\E n \in NamesOf(r) : Concerns(w, n)

Orderly(r) ==
  /\ \A w \in Worker : Apart(r, w)
  /\ r.op = "rename" => r.newName \in Public /\ ~Has(r.newName)
  /\ r.op = "upload" =>
       /\ r.name \in Public
       /\ (Has(r.name) /\ Described(r.name) /\ stored[r.name].content = r.content)
            => stored[r.name].meta.name = r.name

Unguessed(w, g) ==
  \A v \in Worker \ {w} :
    pc[v] # "idle" /\ job[v].req.op \notin Reads => g \notin NamesOf(job[v].req)

Submit(w, r) ==
  /\ pc[w] = "idle" /\ requests < MaxRequests
  /\ requests' = requests + 1
  /\ orderly' = (orderly /\ Orderly(r))
  /\ pc' = [pc EXCEPT ![w] = IF r.op \in Reads THEN "lookup" ELSE "call"]
  /\ job' = [job EXCEPT ![w] = [req |-> r, name |-> None, got |-> None]]
  /\ UNCHANGED <<stored, scheduled, cache, now, faults>>

Goto(w, label) == pc' = [pc EXCEPT ![w] = label]
Proceed(w, label) == Goto(w, label) /\ UNCHANGED job
Finish(w) == Goto(w, "idle") /\ job' = [job EXCEPT ![w] = NoJob]

(* The service has answered.                                                *)
Answered(w, name, value, label) ==
  /\ Goto(w, label)
  /\ job' = [job EXCEPT ![w] = [req |-> job[w].req, name |-> name, got |-> value]]
-----------------------------------------------------------------------------
(* What the calls to the service do.                                        *)

Expiry(r) ==
  IF r.duration > 0 THEN now + r.duration
  ELSE IF r.op = "upload" THEN Never ELSE now + DefaultDuration

NewFile(r) ==
  [content |-> r.content,
   meta |-> [name |-> r.name, sha1 |-> r.content, expiredAt |-> Expiry(r)]]

(* The messages published for a new file, and for one that is given another *)
(* name: its metadata comes from JSON, where a permanent expiry is not told *)
(* from others when the zone is UTC (NeedsDeletion of FileHosting).         *)
DeletionOf(n, meta) == [name |-> n, sha1 |-> meta.sha1, expiredAt |-> meta.expiredAt]
NewMessage(n, meta) == IF meta.expiredAt = Never THEN {} ELSE {DeletionOf(n, meta)}
OldMessage(n, meta) ==
  IF meta.expiredAt = Never /\ ~ZoneIsUTC THEN {} ELSE {DeletionOf(n, meta)}

Publish(messages) == scheduled' = scheduled \cup messages

Refuse(w) == Finish(w) /\ UNCHANGED <<stored, scheduled>>

(* The names of old files are free, like those of no file ever.             *)
Free(n) == stored[n] = Nothing

(* A repeated upload is answered with the file as it is, and with the name  *)
(* in its metadata, the one it was first given.                             *)
UploadAgain(w, r) ==
  /\ Has(r.name) /\ stored[r.name].content = r.content /\ Described(r.name)
  /\ Answered(w, stored[r.name].meta.name, stored[r.name], "setFile")
  /\ UNCHANGED <<stored, scheduled>>

UploadNew(w, r) ==
  /\ Free(r.name)
  /\ stored' = [stored EXCEPT ![r.name] = NewFile(r)]
  /\ Publish(NewMessage(r.name, NewFile(r).meta))
  /\ Answered(w, r.name, NewFile(r), "setFile")

UploadReplacing(w, r, k) ==
  /\ Has(r.name) /\ stored[r.name].content # r.content /\ Described(r.name) /\ Free(k)
  /\ stored' = [stored EXCEPT ![k] = stored[r.name], ![r.name] = NewFile(r)]
  /\ Publish(OldMessage(k, stored[r.name].meta) \cup NewMessage(r.name, NewFile(r).meta))
  /\ Answered(w, r.name, NewFile(r), "setFile")

(* Bytes without metadata make the handler panic; metadata without bytes    *)
(* refuses the new metadata, and the bytes are taken back.                  *)
CallUpload(w) ==
  /\ pc[w] = "call" /\ job[w].req.op = "upload"
  /\ LET r == job[w].req IN
     /\ orderly' = (orderly /\ ~Condemned(r.name))
     /\ \/ UploadAgain(w, r) \/ UploadNew(w, r)
        \/ \E k \in Backup : UploadReplacing(w, r, k)
        \/ Has(r.name) /\ ~Described(r.name) /\ Refuse(w)
        \/ /\ ~Has(r.name) /\ Described(r.name) /\ Finish(w) /\ UNCHANGED stored
           /\ Publish(NewMessage(r.name, NewFile(r).meta))
  /\ UNCHANGED <<cache, now, requests, faults>>

CallGenerate(w) ==
  /\ pc[w] = "call" /\ job[w].req.op = "generate"
  /\ \E g \in Generated :
       /\ ~Has(g)
       /\ Publish({DeletionOf(g, NewFile(job[w].req).meta)})
       /\ IF Described(g) THEN Finish(w) /\ UNCHANGED stored
          ELSE /\ stored' = [stored EXCEPT ![g] = NewFile(job[w].req)]
               /\ Answered(w, g, NewFile(job[w].req), "setFile")
       /\ orderly' = (orderly /\ Unguessed(w, g))
  /\ UNCHANGED <<cache, now, requests, faults>>

(* Renaming to a name with metadata replaces the bytes there and fails on   *)
(* the metadata; renaming a file to its own name changes nothing, and fails *)
(* or not with the storage.                                                 *)
CallRename(w) ==
  /\ pc[w] = "call" /\ job[w].req.op = "rename"
  /\ LET old == job[w].req.name
         new == job[w].req.newName IN
     /\ orderly' = (orderly /\ ~Condemned(old))
     /\ \/ ~(Has(old) /\ Described(old)) /\ Refuse(w)
        \/ /\ Has(old) /\ Described(old)
           /\ Publish(OldMessage(new, stored[old].meta))
           /\ \/ old = new /\ UNCHANGED stored
                 /\ (Finish(w) \/ Answered(w, old, None, "dropFile"))
              \/ /\ old # new /\ Described(new) /\ Finish(w)
                 /\ stored' = [stored EXCEPT ![new].content = stored[old].content,
                                             ![old] = Nothing]
              \/ /\ old # new /\ ~Described(new) /\ Answered(w, old, None, "dropFile")
                 /\ stored' = [stored EXCEPT ![new] = stored[old], ![old] = Nothing]
  /\ UNCHANGED <<cache, now, requests, faults>>

(* Deletion fails on what is not there, bytes or metadata.                  *)
CallDelete(w) ==
  /\ pc[w] = "call" /\ job[w].req.op = "delete"
  /\ LET n == job[w].req.name IN
     /\ orderly' = (orderly /\ ~Condemned(n))
     /\ stored' = IF Has(n) THEN [stored EXCEPT ![n] = Nothing] ELSE stored
     /\ IF Has(n) /\ Described(n) THEN Answered(w, n, None, "dropFile") ELSE Finish(w)
  /\ UNCHANGED <<scheduled, cache, now, requests, faults>>

(* One file without metadata fails the listing.                             *)
Found(r) ==
  IF r.op = "getFiles" THEN \A n \in Name : Has(n) => Described(n)
  ELSE Described(r.name) /\ (r.op = "getFile" => Has(r.name))

StoredUnder(r) ==
  IF r.op = "getFiles"
  THEN [n \in Name |-> IF Has(n) THEN stored[n].meta ELSE None]
  ELSE IF r.op = "getFile" THEN stored[r.name] ELSE stored[r.name].meta

CallRead_Unchecked(w) ==
  /\ pc[w] = "call" /\ job[w].req.op \in Reads
  /\ Answered(w, job[w].req.name, StoredUnder(job[w].req), "fill")
  /\ UNCHANGED <<stored, scheduled, cache, orderly, now, requests, faults>>

CallRead(w) ==
  /\ pc[w] = "call" /\ job[w].req.op \in Reads
  /\ IF Found(job[w].req)
     THEN Answered(w, job[w].req.name, StoredUnder(job[w].req), "fill")
     ELSE Finish(w)
  /\ UNCHANGED <<stored, scheduled, cache, orderly, now, requests, faults>>
-----------------------------------------------------------------------------
(* Calls to the service that fail midway: the storage or the broker fails,  *)
(* or the client is gone.  The error is passed on, and nothing is set or    *)
(* dropped in Redis.  Some of the messages have been published, and the     *)
(* stores are left as one of the given.                                     *)

Aborted(w, messages, left) ==
  /\ faults < MaxFaults /\ faults' = faults + 1
  /\ Finish(w)
  /\ \E sent \in SUBSET messages : Publish(sent)
  /\ stored' \in left
  /\ UNCHANGED <<cache, orderly, now, requests>>

(* The bytes whose metadata could not be written are taken back, or stay    *)
(* when that fails too.                                                     *)
WithBytes(n, r) == [stored EXCEPT ![n].content = r.content]

(* The steps of a replacement: the copy of S3, the move, the old metadata   *)
(* removed and written under the other name, the new bytes.                 *)
AbortReplacing(w, r, k) ==
  LET old == stored[r.name]
      copied == [stored EXCEPT ![k].content = old.content]
      kept == [stored EXCEPT ![k] = old, ![r.name] = Nothing]
  IN  Aborted(w, OldMessage(k, old.meta) \cup NewMessage(r.name, NewFile(r).meta),
              {copied, [copied EXCEPT ![r.name].content = None],
               [copied EXCEPT ![r.name] = Nothing],
               kept, [kept EXCEPT ![r.name].content = r.content]})

AbortUpload(w, r) ==
  \/ ~Has(r.name) /\ Aborted(w, NewMessage(r.name, NewFile(r).meta), {WithBytes(r.name, r)})
  \/ /\ Has(r.name) /\ Described(r.name) /\ stored[r.name].content # r.content
     /\ \E k \in Backup : Free(k) /\ AbortReplacing(w, r, k)

AbortGenerate(w, r) ==
  \E g \in Generated :
    ~Has(g) /\ Aborted(w, {DeletionOf(g, NewFile(r).meta)}, {WithBytes(g, r)})

AbortRename(w, r) ==
  LET moved == [stored EXCEPT ![r.newName].content = stored[r.name].content]
  IN  /\ Has(r.name) /\ Described(r.name)
      /\ Aborted(w, OldMessage(r.newName, stored[r.name].meta),
                 IF r.name = r.newName THEN {[stored EXCEPT ![r.name].meta = None]}
                 ELSE {moved, [moved EXCEPT ![r.name].content = None],
                       [moved EXCEPT ![r.name] = Nothing]})

AbortDelete(w, r) ==
  /\ Has(r.name)
  /\ Aborted(w, {}, {[stored EXCEPT ![r.name].content = None]})

(* What a change may publish without effect on the stores.                  *)
Announced(r) ==
  IF r.op = "generate"
  THEN {DeletionOf(g, NewFile(r).meta) : g \in {x \in Generated : ~Has(x)}}
  ELSE IF r.op = "upload" THEN NewMessage(r.name, NewFile(r).meta)
  ELSE IF r.op = "rename" /\ Described(r.name)
       THEN OldMessage(r.newName, stored[r.name].meta) ELSE {}

CallFails(w) ==
  /\ pc[w] = "call"
  /\ LET r == job[w].req IN
     \/ Aborted(w, Announced(r), {stored})
     \/ r.op = "upload" /\ AbortUpload(w, r)
     \/ r.op = "generate" /\ AbortGenerate(w, r)
     \/ r.op = "rename" /\ AbortRename(w, r)
     \/ r.op = "delete" /\ AbortDelete(w, r)
-----------------------------------------------------------------------------
(* What the calls to Redis do.                                              *)

(* When the file ends that a value under a key is about.                    *)
DeadlineOf(key, value) ==
  IF key[1] = "file" THEN value.meta.expiredAt ELSE value.expiredAt

Ttl_Longest(key, value) ==
  IF key = ListKey \/ DeadlineOf(key, value) - now < DefaultTTL
  THEN DefaultTTL
  ELSE DeadlineOf(key, value) - now

(* ttlOfExpiredAt: nothing or less for a deadline that has passed, and for  *)
(* a permanent file, whose expiry lies in 1970.                             *)
Ttl(key, value) ==
  IF key = ListKey \/ DeadlineOf(key, value) - now > DefaultTTL
  THEN DefaultTTL
  ELSE DeadlineOf(key, value) - now

(* The client library sends an expiration to Redis only when it is positive. *)
EndOf(key, value) ==
  IF Ttl(key, value) > 0 THEN now + Ttl(key, value) ELSE Forever

Cached(key, value) ==
  [cache EXCEPT ![key] = [value |-> value, until |-> EndOf(key, value)]]

Dropped(key) == [cache EXCEPT ![key] = None]

(* A call to Redis that fails is logged and has no effect.                  *)
RedisCall(newCache) ==
  \/ cache' = newCache /\ UNCHANGED faults
  \/ faults < MaxFaults /\ faults' = faults + 1 /\ UNCHANGED cache

OnlyRedis == UNCHANGED <<stored, scheduled, orderly, now, requests>>

Lookup(w) ==
  /\ pc[w] = "lookup"
  /\ \/ /\ IF Live(ReadKey(job[w].req)) THEN Finish(w) ELSE Proceed(w, "call")
        /\ UNCHANGED faults
     \/ faults < MaxFaults /\ faults' = faults + 1 /\ Finish(w)
  /\ cache' = cache /\ OnlyRedis

Fill(w) ==
  /\ pc[w] = "fill"
  /\ RedisCall(Cached(ReadKey(job[w].req), job[w].got))
  /\ Finish(w)
  /\ OnlyRedis

SetFile(w) ==
  /\ pc[w] = "setFile"
  /\ RedisCall(Cached(FileKey(job[w].name), job[w].got))
  /\ Proceed(w, "setMeta")
  /\ OnlyRedis

SetMeta_Skipped(w) ==
  /\ pc[w] = "setMeta"
  /\ RedisCall(cache)
  /\ Proceed(w, "dropList")
  /\ OnlyRedis

SetMeta(w) ==
  /\ pc[w] = "setMeta"
  /\ RedisCall(Cached(MetaKey(job[w].name), job[w].got.meta))
  /\ Proceed(w, "dropList")
  /\ OnlyRedis

DropFile(w) ==
  /\ pc[w] = "dropFile"
  /\ RedisCall(Dropped(FileKey(job[w].name)))
  /\ Proceed(w, "dropMeta")
  /\ OnlyRedis

DropMeta(w) ==
  /\ pc[w] = "dropMeta"
  /\ RedisCall(Dropped(MetaKey(job[w].name)))
  /\ Proceed(w, "dropList")
  /\ OnlyRedis

DropList_Skipped(w) ==
  /\ pc[w] = "dropList"
  /\ RedisCall(cache)
  /\ Finish(w)
  /\ OnlyRedis

DropList(w) ==
  /\ pc[w] = "dropList"
  /\ RedisCall(Dropped(ListKey))
  /\ Finish(w)
  /\ OnlyRedis

Step(w) ==
  \/ Lookup(w) \/ CallRead(w) \/ Fill(w)
  \/ CallUpload(w) \/ CallGenerate(w) \/ SetFile(w) \/ SetMeta(w)
  \/ CallRename(w) \/ CallDelete(w) \/ CallFails(w) \/ DropFile(w) \/ DropMeta(w) \/ DropList(w)
-----------------------------------------------------------------------------
Tick ==
  /\ now < MaxTime /\ now' = now + 1
  /\ UNCHANGED <<stored, scheduled, cache, pc, job, orderly, requests, faults>>

(* The consumer of deletion messages, which knows nothing of Redis.  It     *)
(* asks neither whose file it is nor whether it has a deadline; metadata it *)
(* fails to delete stays.                                                   *)
Expire(n) ==
  /\ Condemned(n)
  /\ \/ stored' = [stored EXCEPT ![n] = Nothing] /\ UNCHANGED faults
     \/ /\ faults < MaxFaults /\ faults' = faults + 1
        /\ stored' = [stored EXCEPT ![n].content = None]
  /\ UNCHANGED <<scheduled, cache, pc, job, orderly, now, requests>>

(* The process dies and starts again; Redis keeps its entries.              *)
Restart ==
  /\ faults < MaxFaults /\ faults' = faults + 1
  /\ pc' = [w \in Worker |-> "idle"] /\ job' = [w \in Worker |-> NoJob]
  /\ UNCHANGED <<stored, scheduled, cache, orderly, now, requests>>

Next ==
  \/ \E w \in Worker : Step(w) \/ \E r \in Request : Submit(w, r)
  \/ \E n \in Name : Expire(n)
  \/ Tick \/ Restart

Spec == Init /\ [][Next]_vars
-----------------------------------------------------------------------------
(* Properties.                                                              *)

(* Whatever interleaves or fails, an entry with a time to live ends with    *)
(* the file it was made of, and after defaultTTL at the latest.             *)
BoundedStaleness ==
  \A k \in Key : cache[k] # None /\ cache[k].until # Forever =>
    /\ cache[k].until <= now + DefaultTTL
    /\ k # ListKey => cache[k].until <= DeadlineOf(k, cache[k].value)

(* While no call to Redis, storage or broker has failed, nothing died in    *)
(* between and clients have been orderly, a name no request is about is     *)
(* served from Redis as it is stored, except for what the consumer may have *)
(* deleted: a file past its deadline, or a permanent one with the bytes of  *)
(* an earlier file whose message is still about.                            *)
Coherent ==
  faults = 0 /\ orderly =>
    \A n \in Name : (\A w \in Worker : ~Concerns(w, n)) =>
      /\ Live(FileKey(n)) =>
           LET file == cache[FileKey(n)].value
           IN  stored[n] = file \/ Removable(n, file.meta)
      /\ Live(MetaKey(n)) =>
           LET meta == cache[MetaKey(n)].value
           IN  (Has(n) /\ stored[n].meta = meta) \/ Removable(n, meta)

(* Nor is the listing out of date once the requests are done: it shows      *)
(* every file, and else only files the consumer may have deleted.           *)
ListingCurrent ==
  faults = 0 /\ orderly /\ (\A w \in Worker : pc[w] = "idle") /\ Live(ListKey) =>
    \A n \in Name :
      LET listed == cache[ListKey].value[n]
      IN  IF Has(n) THEN stored[n].meta = listed
          ELSE listed # None => Removable(n, listed)

Served(w, n) ==
  pc[w] = "lookup" /\ job[w].req.op = "getFile" /\ job[w].req.name = n
    /\ Live(FileKey(n)) /\ pc'[w] = "idle" /\ faults' = faults

(* A file that has expired and is deleted is not served any more.           *)
ExpiredNotServed ==
  [][\A w \in Worker, n \in Name : Served(w, n) =>
       Has(n) \/ ~Overdue(cache[FileKey(n)].value.meta)]_vars

(* A file is served under the names it has been stored under, only.         *)
RetrievedById ==
  [][\A w \in Worker, n \in Name : Served(w, n) =>
       Has(n) \/ Overdue(cache[FileKey(n)].value.meta)]_vars
=============================================================================
