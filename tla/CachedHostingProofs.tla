------------------------- MODULE CachedHostingProofs -------------------------
(***************************************************************************)
(* Theorems about CachedHosting, for every value of its constants.  An      *)
(* entry of Redis is made by Cached only, from a value of the type the key  *)
(* asks for, and is not touched afterwards but dropped.                     *)
(***************************************************************************)
EXTENDS CachedHosting, TLAPS

USE DEF Never, Forever

-----------------------------------------------------------------------------
(* Redis.                                                                   *)

CacheOK(c) ==
  /\ c = [k \in Key |-> c[k]]
  /\ \A k \in Key : c[k] \in Entry(k) \cup {None}

Bounded(c, t) ==
  \A k \in Key : c[k] # None /\ c[k].until # Forever =>
    /\ c[k].until <= t + DefaultTTL
    /\ k # ListKey => c[k].until <= DeadlineOf(k, c[k].value)

(* What is a key, and what may be kept under it.                            *)
LEMMA Keys ==
  /\ ListKey \in Key /\ Value(ListKey) = Listing
  /\ \A n \in Name : FileKey(n) \in Key /\ Value(FileKey(n)) = File
  /\ \A n \in Name : MetaKey(n) \in Key /\ Value(MetaKey(n)) = Metadata
  BY DEF Key, Value, ListKey, FileKey, MetaKey

(* Every key but the listing's has values with a deadline.                  *)
LEMMA DeadlineType ==
  ASSUME NEW key \in Key, key # ListKey, NEW value \in Value(key)
  PROVE  DeadlineOf(key, value) \in Int
<1>1. CASE \E n \in Name : key = FileKey(n)
  <2>1. value \in File /\ key[1] = "file" BY <1>1, Keys DEF FileKey
  <2>2. QED BY <2>1, TimesAssumption DEF DeadlineOf, File, Metadata, Time
<1>2. CASE \E n \in Name : key = MetaKey(n)
  <2>1. value \in Metadata /\ key[1] # "file" BY <1>2, Keys DEF MetaKey
  <2>2. QED BY <2>1, TimesAssumption DEF DeadlineOf, Metadata, Time
<1>3. QED BY <1>1, <1>2 DEF Key

(* When an entry ends that is made now.                                     *)
LEMMA EndBounded ==
  ASSUME now \in Nat, NEW key \in Key, NEW value \in Value(key)
  PROVE  /\ EndOf(key, value) \in Int
         /\ EndOf(key, value) # Forever =>
              /\ EndOf(key, value) <= now + DefaultTTL
              /\ key # ListKey => EndOf(key, value) <= DeadlineOf(key, value)
<1>1. CASE key = ListKey
  BY <1>1, TimesAssumption DEF EndOf, Ttl
<1>2. CASE key # ListKey
  BY <1>2, DeadlineType, TimesAssumption DEF EndOf, Ttl
<1>3. QED BY <1>1, <1>2

(* An entry set, with a value that belongs under its key.                   *)
LEMMA SetEntry ==
  ASSUME now \in Nat, CacheOK(cache), Bounded(cache, now),
         NEW key \in Key, NEW value \in Value(key)
  PROVE  CacheOK(Cached(key, value)) /\ Bounded(Cached(key, value), now)
<1> DEFINE c == Cached(key, value)
           e == [value |-> value, until |-> EndOf(key, value)]
<1>1. e \in Entry(key) BY EndBounded DEF Entry
<1>2. c = [k \in Key |-> IF k = key THEN e ELSE cache[k]] BY DEF CacheOK, Cached
<1>3. CacheOK(c) BY <1>1, <1>2 DEF CacheOK
<1>4. Bounded(c, now)
  <2> SUFFICES ASSUME NEW k \in Key, c[k] # None, c[k].until # Forever
               PROVE  /\ c[k].until <= now + DefaultTTL
                      /\ k # ListKey => c[k].until <= DeadlineOf(k, c[k].value)
    BY DEF Bounded
  <2>1. CASE k = key
    <3>1. c[k].until = EndOf(key, value) /\ c[k].value = value BY <1>2, <2>1
    <3>2. QED BY <2>1, <3>1, EndBounded
  <2>2. CASE k # key
    <3>1. c[k] = cache[k] BY <1>2, <2>2
    <3>2. QED BY <3>1 DEF Bounded
  <2>3. QED BY <2>1, <2>2
<1>5. QED BY <1>3, <1>4

(* An entry dropped.                                                        *)
LEMMA DropEntry ==
  ASSUME CacheOK(cache), Bounded(cache, now), NEW key \in Key
  PROVE  CacheOK(Dropped(key)) /\ Bounded(Dropped(key), now)
<1>1. Dropped(key) = [k \in Key |-> IF k = key THEN None ELSE cache[k]]
  BY DEF CacheOK, Dropped
<1>2. QED BY <1>1 DEF CacheOK, Bounded

(* A call to Redis, whether it fails or not.                                *)
LEMMA RedisStep ==
  ASSUME CacheOK(cache), Bounded(cache, now), CountersOK,
         NEW c, CacheOK(c), Bounded(c, now), RedisCall(c), OnlyRedis
  PROVE  CacheOK(cache') /\ Bounded(cache', now) /\ CountersOK'
<1>1. CASE cache' = c /\ UNCHANGED faults BY <1>1 DEF CountersOK, OnlyRedis
<1>2. CASE faults < MaxFaults /\ faults' = faults + 1 /\ UNCHANGED cache
  BY <1>2, CountersAssumption DEF CountersOK, OnlyRedis
<1>3. QED BY <1>1, <1>2 DEF RedisCall

-----------------------------------------------------------------------------
(* Requests.                                                                *)

(* Requests have the parts their type says.                                 *)
LEMMA RequestParts ==
  ASSUME NEW r \in Request
  PROVE  /\ r.name \in Name /\ r.newName \in Name /\ r.content \in Content
         /\ r.duration \in 0..MaxDuration /\ ReadKey(r) \in Key
<1>1. r \in RequestType BY RequestAssumption
<1>2. QED BY <1>1, Keys DEF RequestType, ReadKey

(* The file made of a request.                                              *)
LEMMA NewFileType ==
  ASSUME now \in 1..MaxTime, NEW r \in Request
  PROVE  NewFile(r) \in File
<1>1. Expiry(r) \in Time BY RequestParts, TimesAssumption DEF Expiry, Time
<1>2. QED BY <1>1, RequestParts DEF NewFile, File, Metadata

(* The messages about a file.                                               *)
LEMMA MessageType ==
  ASSUME NEW n \in Name, NEW md \in Metadata
  PROVE  /\ DeletionOf(n, md) \in Message
         /\ NewMessage(n, md) \subseteq Message /\ OldMessage(n, md) \subseteq Message
<1>1. DeletionOf(n, md) \in Message BY DEF DeletionOf, Message, Metadata
<1>2. QED BY <1>1 DEF NewMessage, OldMessage

(* What is stored under a name.                                             *)
LEMMA StoredParts ==
  ASSUME stored \in [Name -> Stored], NEW n \in Name
  PROVE  /\ stored[n].content \in Content \cup {None}
         /\ stored[n].meta \in Metadata \cup {None}
         /\ Has(n) => stored[n].content \in Content
         /\ Described(n) => stored[n].meta \in Metadata
         /\ Has(n) /\ Described(n) => stored[n] \in File
         /\ \A f \in File : f \in Stored
         /\ Nothing \in Stored
         /\ \A c \in Content \cup {None} : [stored EXCEPT ![n].content = c] \in [Name -> Stored]
         /\ [stored EXCEPT ![n].meta = None] \in [Name -> Stored]
         /\ \A s \in Stored : [stored EXCEPT ![n] = s] \in [Name -> Stored]
  BY DEF Stored, Has, Described, File, Nothing

(* What the service finds belongs under the key of the request.             *)
LEMMA FoundType ==
  ASSUME stored \in [Name -> Stored], NEW r \in Request, Found(r)
  PROVE  StoredUnder(r) \in Value(ReadKey(r))
<1>1. CASE r.op = "getFiles"
  <2>1. \A n \in Name : stored[n].meta \in Metadata \cup {None} BY StoredParts
  <2>2. StoredUnder(r) \in Listing BY <1>1, <2>1 DEF StoredUnder, Listing
  <2>3. QED BY <1>1, <2>2, Keys DEF ReadKey
<1>2. CASE r.op # "getFiles"
  <2>1. r.name \in Name /\ Described(r.name) BY <1>2, RequestParts DEF Found
  <2>2. CASE r.op = "getFile"
    <3>1. stored[r.name] \in File BY <1>2, <2>1, <2>2, StoredParts DEF Found
    <3>2. QED BY <2>1, <2>2, <3>1, Keys DEF ReadKey, StoredUnder
  <2>3. CASE r.op # "getFile"
    <3>1. stored[r.name].meta \in Metadata BY <2>1, StoredParts
    <3>2. QED BY <1>2, <2>1, <2>3, <3>1, Keys DEF ReadKey, StoredUnder
  <2>4. QED BY <2>2, <2>3
<1>3. QED BY <1>1, <1>2

(* A request that ends.                                                     *)
LEMMA FinishType ==
  ASSUME RequestsOK, NEW w \in Worker, Finish(w)
  PROVE  RequestsOK'
<1>1. pc' \in [Worker -> Pc] BY DEF RequestsOK, Finish, Goto, Pc
<1>2. \A v \in Worker : pc'[v] # "idle" => pc'[v] = pc[v] /\ job'[v] = job[v]
  BY DEF RequestsOK, Finish, Goto
<1>3. job' = [v \in Worker |-> [req |-> job'[v].req, name |-> job'[v].name,
                               got |-> job'[v].got]]
  BY DEF RequestsOK, Finish, NoJob
<1>4. QED BY <1>1, <1>2, <1>3 DEF RequestsOK

(* A request that goes on with what it has.                                 *)
LEMMA ProceedType ==
  ASSUME RequestsOK, NEW w \in Worker, NEW label, Proceed(w, label),
         \/ pc[w] = "lookup" /\ label = "call"
         \/ pc[w] = "setFile" /\ label = "setMeta"
         \/ pc[w] = "dropFile" /\ label = "dropMeta"
         \/ pc[w] \in {"setMeta", "dropMeta"} /\ label = "dropList"
  PROVE  RequestsOK'
<1>1. pc' = [pc EXCEPT ![w] = label] /\ job' = job BY DEF Proceed, Goto
<1>2. label \in Pc BY DEF Pc
<1>3. QED BY <1>1, <1>2 DEF RequestsOK

(* A request the service has answered.                                      *)
LEMMA AnsweredType ==
  ASSUME RequestsOK, NEW w \in Worker, pc[w] # "idle",
         NEW name \in Name, NEW value, NEW label, Answered(w, name, value, label),
         \/ label = "setFile" /\ value \in File
         \/ label = "dropFile"
         \/ label = "fill" /\ value \in Value(ReadKey(job[w].req))
  PROVE  RequestsOK'
<1>1. pc' = [pc EXCEPT ![w] = label] /\ label \in Pc BY DEF Answered, Goto, Pc
<1>2. job' = [v \in Worker |->
               IF v = w THEN [req |-> job[w].req, name |-> name, got |-> value]
               ELSE job[v]]
  BY DEF Answered, RequestsOK
<1>3. job' = [v \in Worker |-> [req |-> job'[v].req, name |-> job'[v].name,
                               got |-> job'[v].got]]
  BY <1>2 DEF RequestsOK
<1>4. \A v \in Worker : v # w => pc'[v] = pc[v] /\ job'[v] = job[v]
  BY <1>1, <1>2 DEF RequestsOK
<1>5. /\ pc'[w] = label /\ job'[w].req = job[w].req
      /\ job'[w].name = name /\ job'[w].got = value
  BY <1>1, <1>2 DEF RequestsOK
<1>6. QED BY <1>1, <1>3, <1>4, <1>5 DEF RequestsOK
-----------------------------------------------------------------------------
(* The invariant, and the steps.                                            *)

Inv == TypeOK /\ BoundedStaleness

(* The invariant is what the lemmas above speak of.                         *)
LEMMA InvParts ==
  Inv <=> /\ stored \in [Name -> Stored] /\ scheduled \subseteq Message /\ CacheOK(cache)
          /\ Bounded(cache, now) /\ RequestsOK /\ CountersOK /\ orderly \in BOOLEAN
  BY DEF Inv, TypeOK, StoresOK, BoundedStaleness, CacheOK, Bounded

(* It holds in the beginning.                                               *)
LEMMA InvInit == Init => Inv
<1> SUFFICES ASSUME Init PROVE Inv OBVIOUS
<1>1. stored \in [Name -> Stored] /\ scheduled \subseteq Message
  BY DEF Init, Stored, Nothing
<1>2. CacheOK(cache) /\ Bounded(cache, now) BY DEF Init, CacheOK, Bounded
<1>3. RequestsOK BY DEF Init, RequestsOK, NoJob, Pc
<1>4. CountersOK /\ orderly \in BOOLEAN
  BY TimesAssumption, CountersAssumption DEF Init, CountersOK
<1>5. QED BY <1>1, <1>2, <1>3, <1>4, InvParts

(* A call to Redis with which a request goes on or ends.                    *)
LEMMA CacheStep ==
  ASSUME Inv, NEW c, CacheOK(c), Bounded(c, now), RedisCall(c), OnlyRedis, RequestsOK'
  PROVE  Inv'
<1>1. CacheOK(cache) /\ Bounded(cache, now) /\ CountersOK BY InvParts
<1>2. CacheOK(cache') /\ Bounded(cache', now) /\ CountersOK' BY <1>1, RedisStep
<1>3. UNCHANGED <<stored, scheduled, orderly, now>> BY DEF OnlyRedis
<1>4. QED BY <1>2, <1>3, InvParts DEF Inv, TypeOK, StoresOK, BoundedStaleness, CacheOK, Bounded

(* A call to the service.                                                   *)
LEMMA StoredStep ==
  ASSUME Inv, stored' \in [Name -> Stored], scheduled' \subseteq Message, RequestsOK',
         CountersOK', orderly' \in BOOLEAN, UNCHANGED <<cache, now>>
  PROVE  Inv'
  BY DEF Inv, TypeOK, StoresOK, BoundedStaleness

(* A call that does not fail midway.                                        *)
LEMMA CallStep ==
  ASSUME Inv, stored' \in [Name -> Stored], scheduled' \subseteq Message, RequestsOK',
         orderly' \in BOOLEAN, UNCHANGED <<cache, now, requests, faults>>
  PROVE  Inv'
<1>1. CountersOK' BY InvParts DEF CountersOK
<1>2. QED BY <1>1, StoredStep

(* Publishing messages.                                                     *)
LEMMA PublishType ==
  ASSUME Inv, NEW messages, messages \subseteq Message, Publish(messages)
  PROVE  scheduled' \subseteq Message
  BY InvParts DEF Publish

(* What a request works with.                                               *)
LEMMA CallParts ==
  ASSUME Inv, NEW w \in Worker, pc[w] = "call"
  PROVE  /\ job[w].req \in Request /\ job[w].req.name \in Name /\ job[w].req.newName \in Name
         /\ job[w].req.content \in Content /\ NewFile(job[w].req) \in File
         /\ NewFile(job[w].req).meta \in Metadata
         /\ NewFile(job[w].req) \in Stored
<1>1. job[w].req \in Request BY InvParts DEF RequestsOK
<1>2. NewFile(job[w].req) \in File BY <1>1, InvParts, NewFileType DEF CountersOK
<1>3. QED BY <1>1, <1>2, RequestParts DEF File, Stored

(* A call that fails midway.                                                *)
LEMMA AbortedStep ==
  ASSUME Inv, NEW w \in Worker, NEW messages, NEW left, Aborted(w, messages, left),
         messages \subseteq Message, left \subseteq [Name -> Stored]
  PROVE  Inv'
<1>1. stored' \in [Name -> Stored] BY DEF Aborted
<1>2. scheduled' \subseteq Message BY InvParts DEF Aborted, Publish
<1>3. RequestsOK' BY InvParts, FinishType DEF Aborted
<1>4. CountersOK' BY InvParts, CountersAssumption DEF Aborted, CountersOK
<1>5. orderly' \in BOOLEAN BY InvParts DEF Aborted
<1>6. QED BY <1>1, <1>2, <1>3, <1>4, <1>5, StoredStep DEF Aborted

(* What it may leave of a replacement.                                      *)
LEMMA ReplacementAborted ==
  ASSUME Inv, NEW w \in Worker, pc[w] = "call", NEW k \in Backup,
         Has(job[w].req.name), Described(job[w].req.name),
         AbortReplacing(w, job[w].req, k)
  PROVE  Inv'
<1> DEFINE r == job[w].req
           old == stored[r.name]
           copied == [stored EXCEPT ![k].content = old.content]
           kept == [stored EXCEPT ![k] = old, ![r.name] = Nothing]
<1>1. /\ stored \in [Name -> Stored] /\ r.name \in Name /\ k \in Name /\ r.content \in Content
      /\ NewFile(r).meta \in Metadata
  BY InvParts, CallParts DEF Name
<1>2. /\ old.content \in Content /\ old.meta \in Metadata /\ old \in Stored /\ Nothing \in Stored
  BY <1>1, StoredParts
<1>3. copied \in [Name -> Stored] BY <1>1, <1>2, StoredParts
<1>4. /\ [copied EXCEPT ![r.name].content = None] \in [Name -> Stored]
      /\ [copied EXCEPT ![r.name] = Nothing] \in [Name -> Stored]
  BY <1>1, <1>2, <1>3 DEF Stored
<1>5. kept \in [Name -> Stored] BY <1>1, <1>2
<1>6. [kept EXCEPT ![r.name].content = r.content] \in [Name -> Stored]
  BY <1>1, <1>5 DEF Stored
<1>7. OldMessage(k, old.meta) \cup NewMessage(r.name, NewFile(r).meta) \subseteq Message
  BY <1>1, <1>2, MessageType
<1> DEFINE left == {copied, [copied EXCEPT ![r.name].content = None],
                   [copied EXCEPT ![r.name] = Nothing],
                   kept, [kept EXCEPT ![r.name].content = r.content]}
           messages == OldMessage(k, old.meta) \cup NewMessage(r.name, NewFile(r).meta)
<1>8. left \subseteq [Name -> Stored] BY <1>3, <1>4, <1>5, <1>6
<1>9. Aborted(w, messages, left) BY DEF AbortReplacing
<1>10. messages \subseteq Message BY <1>7
<1> HIDE DEF left, messages
<1>11. QED BY <1>8, <1>9, <1>10, AbortedStep

(* Whatever call it is.                                                     *)
LEMMA FailsInv ==
  ASSUME Inv, NEW w \in Worker, CallFails(w)
  PROVE  Inv'
<1> DEFINE r == job[w].req
<1>1. pc[w] = "call" BY DEF CallFails
<1>2. /\ stored \in [Name -> Stored] /\ r.name \in Name /\ r.newName \in Name
      /\ r.content \in Content /\ NewFile(r).meta \in Metadata
  BY <1>1, InvParts, CallParts
<1>3. /\ Has(r.name) => stored[r.name].content \in Content
      /\ Described(r.name) => stored[r.name].meta \in Metadata
  BY <1>2, StoredParts
<1>4. \A g \in Generated : g \in Name /\ DeletionOf(g, NewFile(r).meta) \in Message
  BY <1>2, MessageType DEF Name
<1>5. CASE Aborted(w, Announced(r), {stored})
  <2>1. Announced(r) \subseteq Message BY <1>2, <1>3, <1>4, MessageType DEF Announced
  <2>2. QED BY <1>2, <1>5, <2>1, AbortedStep
<1>6. CASE AbortUpload(w, r)
  <2>1. CASE ~Has(r.name) /\ Aborted(w, NewMessage(r.name, NewFile(r).meta), {WithBytes(r.name, r)})
    <3>1. WithBytes(r.name, r) \in [Name -> Stored] BY <1>2, StoredParts DEF WithBytes
    <3>2. QED BY <1>2, <2>1, <3>1, MessageType, AbortedStep
  <2>2. CASE /\ Has(r.name) /\ Described(r.name)
             /\ \E k \in Backup : AbortReplacing(w, r, k)
    BY <1>1, <2>2, ReplacementAborted
  <2>3. QED BY <1>6, <2>1, <2>2 DEF AbortUpload
<1>7. CASE AbortGenerate(w, r)
  <2>1. PICK g \in Generated : Aborted(w, {DeletionOf(g, NewFile(r).meta)}, {WithBytes(g, r)})
    BY <1>7 DEF AbortGenerate
  <2>2. WithBytes(g, r) \in [Name -> Stored] BY <1>2, <1>4, StoredParts DEF WithBytes
  <2>3. {DeletionOf(g, NewFile(r).meta)} \subseteq Message BY <1>4
  <2>4. QED BY <2>1, <2>2, <2>3, AbortedStep
<1>8. CASE AbortRename(w, r)
  <2> DEFINE moved == [stored EXCEPT ![r.newName].content = stored[r.name].content]
             left == IF r.name = r.newName THEN {[stored EXCEPT ![r.name].meta = None]}
                     ELSE {moved, [moved EXCEPT ![r.name].content = None],
                           [moved EXCEPT ![r.name] = Nothing]}
  <2>1. /\ Has(r.name) /\ Described(r.name)
        /\ Aborted(w, OldMessage(r.newName, stored[r.name].meta), left)
    BY <1>8 DEF AbortRename
  <2>2. moved \in [Name -> Stored] BY <1>2, <1>3, <2>1, StoredParts
  <2>3. /\ [moved EXCEPT ![r.name].content = None] \in [Name -> Stored]
        /\ [moved EXCEPT ![r.name] = Nothing] \in [Name -> Stored]
        /\ [stored EXCEPT ![r.name].meta = None] \in [Name -> Stored]
    BY <1>2, <2>2 DEF Stored, Nothing
  <2>4. left \subseteq [Name -> Stored] BY <2>2, <2>3
  <2>5. OldMessage(r.newName, stored[r.name].meta) \subseteq Message
    BY <1>2, <1>3, <2>1, MessageType
  <2> HIDE DEF left
  <2>6. QED BY <2>1, <2>4, <2>5, AbortedStep
<1>9. CASE AbortDelete(w, r)
  <2>1. [stored EXCEPT ![r.name].content = None] \in [Name -> Stored] BY <1>2, StoredParts
  <2>2. QED BY <1>9, <2>1, AbortedStep DEF AbortDelete
<1>10. QED BY <1>5, <1>6, <1>7, <1>8, <1>9 DEF CallFails

(* Every step of a request preserves it.                                    *)
LEMMA StepInv ==
  ASSUME Inv, NEW w \in Worker, Step(w)
  PROVE  Inv'
<1> USE InvParts
<1>1. CASE Lookup(w)
  <2>1. RequestsOK' BY <1>1, FinishType, ProceedType DEF Lookup
  <2>2. CountersOK' BY <1>1, CountersAssumption DEF Lookup, CountersOK, OnlyRedis
  <2>3. UNCHANGED <<stored, scheduled, cache, orderly, now>> BY <1>1 DEF Lookup, OnlyRedis
  <2>4. QED BY <2>1, <2>2, <2>3 DEF Inv, TypeOK, StoresOK, BoundedStaleness
<1>2. CASE CallRead(w)
  <2>1. job[w].req \in Request /\ job[w].req.name \in Name
    BY <1>2, CallParts DEF CallRead
  <2>2. RequestsOK' BY <1>2, <2>1, FoundType, AnsweredType, FinishType DEF CallRead
  <2>3. QED BY <1>2, <2>2, CallStep DEF CallRead
<1>3. CASE Fill(w)
  <2>1. /\ ReadKey(job[w].req) \in Key
        /\ job[w].got \in Value(ReadKey(job[w].req))
    BY <1>3, RequestParts DEF Fill, RequestsOK
  <2>2. RequestsOK' BY <1>3, FinishType DEF Fill
  <2>3. now \in Nat BY DEF CountersOK
  <2>4. QED BY <1>3, <2>1, <2>2, <2>3, SetEntry, CacheStep DEF Fill
<1>4. CASE CallUpload(w)
  <2> DEFINE r == job[w].req
  <2>1. pc[w] = "call" /\ orderly' \in BOOLEAN /\ UNCHANGED <<cache, now, requests, faults>>
    BY <1>4 DEF CallUpload
  <2>2. /\ r.name \in Name /\ NewFile(r) \in File /\ NewFile(r) \in Stored
        /\ NewMessage(r.name, NewFile(r).meta) \subseteq Message
    BY <2>1, CallParts, MessageType
  <2>3. CASE UploadAgain(w, r)
    <3>1. stored[r.name] \in File BY <2>2, <2>3, StoredParts DEF UploadAgain
    <3>2. stored[r.name].meta.name \in Name BY <3>1 DEF File, Metadata
    <3>3. RequestsOK' BY <2>1, <2>3, <3>1, <3>2, AnsweredType DEF UploadAgain
    <3>4. QED BY <2>1, <2>3, <3>3, CallStep DEF UploadAgain
  <2>4. CASE UploadNew(w, r)
    <3>1. RequestsOK' BY <2>1, <2>2, <2>4, AnsweredType DEF UploadNew
    <3>2. stored' \in [Name -> Stored] /\ scheduled' \subseteq Message
      BY <2>2, <2>4, PublishType DEF UploadNew
    <3>3. QED BY <2>1, <3>1, <3>2, CallStep
  <2>5. ASSUME NEW k \in Backup, UploadReplacing(w, r, k) PROVE Inv'
    <3>1. RequestsOK' BY <2>1, <2>2, <2>5, AnsweredType DEF UploadReplacing
    <3>2. k \in Name /\ stored[r.name] \in Stored /\ stored[r.name].meta \in Metadata
      BY <2>2, <2>5, StoredParts DEF UploadReplacing, Name
    <3>3. stored' \in [Name -> Stored] BY <2>2, <2>5, <3>2 DEF UploadReplacing
    <3>4. OldMessage(k, stored[r.name].meta) \subseteq Message BY <3>2, MessageType
    <3>5. scheduled' \subseteq Message BY <2>2, <2>5, <3>4, PublishType DEF UploadReplacing
    <3>6. QED BY <2>1, <3>1, <3>3, <3>5, CallStep
  <2>6. CASE Refuse(w)
    BY <2>1, <2>6, FinishType, CallStep DEF Refuse
  <2>7. CASE Finish(w) /\ UNCHANGED stored /\ Publish(NewMessage(r.name, NewFile(r).meta))
    BY <2>1, <2>2, <2>7, FinishType, PublishType, CallStep
  <2>8. QED BY <1>4, <2>3, <2>4, <2>5, <2>6, <2>7 DEF CallUpload
<1>5. CASE CallGenerate(w)
  <2> DEFINE r == job[w].req
  <2>1. pc[w] = "call" /\ UNCHANGED <<cache, now, requests, faults>>
    BY <1>5 DEF CallGenerate
  <2>2. NewFile(r) \in File /\ NewFile(r) \in Stored /\ NewFile(r).meta \in Metadata
    BY <2>1, CallParts
  <2>3. PICK g \in Generated :
          /\ Publish({DeletionOf(g, NewFile(r).meta)})
          /\ \/ Finish(w) /\ UNCHANGED stored
             \/ /\ stored' = [stored EXCEPT ![g] = NewFile(r)]
                /\ Answered(w, g, NewFile(r), "setFile")
    BY <1>5 DEF CallGenerate
  <2>4. g \in Name BY DEF Name
  <2>5. RequestsOK' BY <2>1, <2>2, <2>3, <2>4, AnsweredType, FinishType
  <2>6. stored' \in [Name -> Stored] BY <2>2, <2>3, <2>4
  <2>7. {DeletionOf(g, NewFile(r).meta)} \subseteq Message BY <2>2, <2>4, MessageType
  <2>8. scheduled' \subseteq Message BY <2>3, <2>7, PublishType
  <2>9. orderly' \in BOOLEAN BY <1>5 DEF CallGenerate
  <2>10. QED BY <2>1, <2>5, <2>6, <2>8, <2>9, CallStep
<1>6. CASE SetFile(w)
  <2>1. job[w].name \in Name /\ job[w].got \in File BY <1>6 DEF SetFile, RequestsOK
  <2>2. RequestsOK' BY <1>6, ProceedType DEF SetFile
  <2>3. now \in Nat BY DEF CountersOK
  <2>4. QED BY <1>6, <2>1, <2>2, <2>3, Keys, SetEntry, CacheStep DEF SetFile
<1>7. CASE SetMeta(w)
  <2>1. job[w].name \in Name /\ job[w].got.meta \in Metadata
    BY <1>7 DEF SetMeta, RequestsOK, File
  <2>2. RequestsOK' BY <1>7, ProceedType DEF SetMeta
  <2>3. now \in Nat BY DEF CountersOK
  <2>4. QED BY <1>7, <2>1, <2>2, <2>3, Keys, SetEntry, CacheStep DEF SetMeta
<1>8. CASE CallRename(w)
  <2> DEFINE old == job[w].req.name
             new == job[w].req.newName
  <2>1. pc[w] = "call" /\ orderly' \in BOOLEAN /\ UNCHANGED <<cache, now, requests, faults>>
    BY <1>8 DEF CallRename
  <2>2. old \in Name /\ new \in Name BY <2>1, CallParts
  <2>3. CASE Refuse(w) BY <2>1, <2>3, FinishType, CallStep DEF Refuse
  <2>4. CASE /\ Has(old) /\ Described(old)
             /\ Publish(OldMessage(new, stored[old].meta))
             /\ Finish(w) \/ Answered(w, old, None, "dropFile")
             /\ \/ UNCHANGED stored
                \/ stored' = [stored EXCEPT ![new].content = stored[old].content, ![old] = Nothing]
                \/ stored' = [stored EXCEPT ![new] = stored[old], ![old] = Nothing]
    <3>1. RequestsOK' BY <2>1, <2>2, <2>4, AnsweredType, FinishType
    <3>2. OldMessage(new, stored[old].meta) \subseteq Message
      BY <2>2, <2>4, StoredParts, MessageType
    <3>3. scheduled' \subseteq Message BY <2>4, <3>2, PublishType
    <3>4. stored[old] \in Stored /\ stored[old].content \in Content /\ Nothing \in Stored
      BY <2>2, <2>4, StoredParts
    <3>5. [stored EXCEPT ![new].content = stored[old].content] \in [Name -> Stored]
      BY <2>2, <3>4, StoredParts
    <3>6. stored' \in [Name -> Stored] BY <2>2, <2>4, <3>4, <3>5
    <3>7. QED BY <2>1, <3>1, <3>3, <3>6, CallStep
  <2>5. QED BY <1>8, <2>3, <2>4 DEF CallRename
<1>9. CASE CallDelete(w)
  <2>1. /\ pc[w] = "call" /\ orderly' \in BOOLEAN
        /\ UNCHANGED <<scheduled, cache, now, requests, faults>>
    BY <1>9 DEF CallDelete
  <2>2. job[w].req.name \in Name BY <2>1, CallParts
  <2>3. RequestsOK' BY <1>9, <2>1, <2>2, AnsweredType, FinishType DEF CallDelete
  <2>4. stored' \in [Name -> Stored] BY <1>9, <2>2, StoredParts DEF CallDelete
  <2>5. QED BY <2>1, <2>3, <2>4, CallStep
<1>10. CASE DropFile(w)
  <2>1. FileKey(job[w].name) \in Key BY <1>10, Keys DEF DropFile, RequestsOK
  <2>2. RequestsOK' BY <1>10, ProceedType DEF DropFile
  <2>3. QED BY <1>10, <2>1, <2>2, DropEntry, CacheStep DEF DropFile
<1>11. CASE DropMeta(w)
  <2>1. MetaKey(job[w].name) \in Key BY <1>11, Keys DEF DropMeta, RequestsOK
  <2>2. RequestsOK' BY <1>11, ProceedType DEF DropMeta
  <2>3. QED BY <1>11, <2>1, <2>2, DropEntry, CacheStep DEF DropMeta
<1>12. CASE DropList(w)
  <2>1. RequestsOK' BY <1>12, FinishType DEF DropList
  <2>2. QED BY <1>12, <2>1, Keys, DropEntry, CacheStep DEF DropList
<1>13. CASE CallFails(w) BY <1>13, FailsInv
<1>14. QED
  BY <1>13, <1>1, <1>2, <1>3, <1>4, <1>5, <1>6, <1>7, <1>8, <1>9, <1>10, <1>11, <1>12 DEF Step

(* So does every step.                                                      *)
LEMMA NextInv == Inv /\ [Next]_vars => Inv'
<1> SUFFICES ASSUME Inv, [Next]_vars PROVE Inv' OBVIOUS
<1> USE InvParts
<1>1. CASE \E w \in Worker : Step(w) BY <1>1, StepInv
<1>2. ASSUME NEW w \in Worker, NEW r \in Request, Submit(w, r) PROVE Inv'
  <2>1. pc' \in [Worker -> Pc] BY <1>2 DEF Submit, RequestsOK, Pc
  <2>2. job' = [v \in Worker |-> IF v = w THEN [req |-> r, name |-> None, got |-> None]
                                ELSE job[v]]
    BY <1>2 DEF Submit, RequestsOK, NoJob
  <2>3. job' = [v \in Worker |-> [req |-> job'[v].req, name |-> job'[v].name,
                                 got |-> job'[v].got]]
    BY <2>2 DEF RequestsOK
  <2>4. pc'[w] \in {"lookup", "call"} /\ job'[w].req = r
    BY <1>2, <2>2 DEF Submit, RequestsOK
  <2>5. \A v \in Worker : v # w => pc'[v] = pc[v] /\ job'[v] = job[v]
    BY <1>2, <2>2 DEF Submit, RequestsOK
  <2>6. RequestsOK' BY <2>1, <2>3, <2>4, <2>5 DEF RequestsOK
  <2>7. CountersOK' BY <1>2, CountersAssumption DEF Submit, CountersOK
  <2>8. orderly' \in BOOLEAN /\ UNCHANGED <<stored, scheduled, cache, now>>
    BY <1>2 DEF Submit
  <2>9. QED BY <2>6, <2>7, <2>8 DEF Inv, TypeOK, StoresOK, BoundedStaleness
<1>3. ASSUME NEW n \in Name, Expire(n) PROVE Inv'
  <2>1. stored' \in [Name -> Stored]
    <3>1. /\ Nothing \in Stored /\ [stored EXCEPT ![n].content = None] \in [Name -> Stored]
          /\ [stored EXCEPT ![n] = Nothing] \in [Name -> Stored]
      BY StoredParts
    <3>2. QED BY <1>3, <3>1 DEF Expire
  <2>2. RequestsOK' BY <1>3 DEF Expire, RequestsOK
  <2>3. CountersOK' BY <1>3, CountersAssumption DEF Expire, CountersOK
  <2>4. QED BY <1>3, <2>1, <2>2, <2>3, StoredStep DEF Expire
<1>4. CASE Tick
  <2>1. now \in Nat /\ now' = now + 1 BY <1>4 DEF Tick, CountersOK
  <2>2. Bounded(cache, now')
    BY <2>1, TimesAssumption DEF Bounded, CacheOK, Entry
  <2>3. CountersOK' BY <1>4, TimesAssumption DEF Tick, CountersOK
  <2>4. RequestsOK' BY <1>4 DEF Tick, RequestsOK
  <2>5. UNCHANGED <<stored, scheduled, cache, orderly>> BY <1>4 DEF Tick
  <2>6. QED BY <2>2, <2>3, <2>4, <2>5
          DEF Inv, TypeOK, StoresOK, BoundedStaleness, Bounded
<1>5. CASE Restart
  <2>1. RequestsOK' BY <1>5 DEF Restart, RequestsOK, NoJob, Pc
  <2>2. CountersOK' BY <1>5, CountersAssumption DEF Restart, CountersOK
  <2>3. UNCHANGED <<stored, scheduled, cache, orderly, now>> BY <1>5 DEF Restart
  <2>4. QED BY <2>1, <2>2, <2>3 DEF Inv, TypeOK, StoresOK, BoundedStaleness
<1>6. CASE UNCHANGED vars
  BY <1>6 DEF vars, Inv, TypeOK, StoresOK, BoundedStaleness, RequestsOK, CountersOK
<1>7. QED BY <1>1, <1>2, <1>3, <1>4, <1>5, <1>6 DEF Next

-----------------------------------------------------------------------------
(* The theorems.                                                            *)

(* Inv, of types and ends of entries, holds in every reachable state.       *)
THEOREM InvAlways == Spec => []Inv
  BY InvInit, NextInv, PTL DEF Spec

(* Redis never holds anything under a key but what belongs there, and no    *)
(* request gets to caching without a value to cache.                        *)
THEOREM CacheTyped == Spec => []TypeOK
<1>1. Inv => TypeOK BY DEF Inv
<1>2. QED BY <1>1, InvAlways, PTL

(* Entries with a time to live end by the file's deadline and after         *)
(* defaultTTL at the latest, whatever requests, failures and restarts do.   *)
THEOREM StalenessBounded == Spec => []BoundedStaleness
<1>1. Inv => BoundedStaleness BY DEF Inv
<1>2. QED BY <1>1, InvAlways, PTL
=============================================================================
