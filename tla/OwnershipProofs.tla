--------------------------- MODULE OwnershipProofs ---------------------------
(***************************************************************************)
(* Theorems about FileHosting for clients that never reuse a name, for      *)
(* every value of the constants.                                            *)
(*                                                                         *)
(* Owned is inductive beside Inv of FileHostingProofs.  Three steps give a  *)
(* name its metadata: a request to upload that arrives, the drawing of a    *)
(* name, and the reading of the metadata of a file to rename.  All others   *)
(* keep what was given, and only take files and metadata away or put there  *)
(* what agrees with it.                                                     *)
(***************************************************************************)
EXTENDS Ownership, FileHostingProofs

-----------------------------------------------------------------------------
(* Places.                                                                  *)

(* Which operation a place belongs to.                                      *)
LEMMA PlaceTells ==
  ASSUME NEW op \in Operation, NEW place \in PlacesOf(op)
  PROVE  /\ place \in MakingPc => op \in {"upload", "generate"}
         /\ place \in MovingPc => op = "rename"
         /\ place = "exist" => op = "upload"
         /\ place = "generate" => op = "generate"
         /\ place \in {"statDelete", "delete", "statDeleteMeta", "deleteMeta"} =>
              op = "delete"
         /\ place = "getMeta" => op \in {"getFile", "getMetadata"}
         /\ place = "getData" => op = "getFile"
         /\ place \in {"list", "listMeta"} => op = "getFiles"
         /\ place \notin {"readOld", "sameMeta", "statRollback", "rollback", "idle"}
<1> USE DEF PlacesOf, MakingPc, MovingPc, WritingPc, RelocationPc
<1>1. CASE op = "upload" BY <1>1
<1>2. CASE op = "generate" BY <1>2
<1>3. CASE op = "rename" BY <1>3
<1>4. CASE op = "delete" BY <1>4
<1>5. CASE op = "getFile" BY <1>5
<1>6. CASE op = "getMetadata" BY <1>6
<1>7. CASE op = "getFiles" BY <1>7
<1>8. QED BY <1>1, <1>2, <1>3, <1>4, <1>5, <1>6, <1>7 DEF Operation

(* The places of the operations that go through several.                    *)
LEMMA PlaceSets ==
  /\ PlacesOf("upload") = MakingPc
  /\ PlacesOf("generate") = {"generate"} \cup (MakingPc \ {"exist"})
  /\ PlacesOf("rename") = MovingPc
  /\ PlacesOf("delete") = {"statDelete", "delete", "statDeleteMeta", "deleteMeta"}
  /\ PlacesOf("getFile") = {"getData", "getMeta"}
  /\ PlacesOf("getMetadata") = {"getMeta"}
  /\ PlacesOf("getFiles") = {"list", "listMeta"}
  /\ MakingPc = {"exist", "schedule", "statData", "writeData", "statMeta", "writeMeta"}
  /\ MovingPc = {"readRenamed", "readOldMeta", "scheduleOld", "statMove", "transfer",
                 "removeSource", "metaExist", "statOldMeta", "removeOldMeta",
                 "statBackupMeta", "writeBackupMeta"}
  BY DEF PlacesOf, MakingPc, MovingPc, WritingPc, RelocationPc

(* A request at work, and what it is at.                                    *)
LEMMA AtWork ==
  ASSUME TypeOK, NEW w \in Worker, pc[w] # "idle", NEW given, HandlerAgrees(given, w)
  PROVE  /\ job[w] \in Job /\ job[w].req \in RequestType
         /\ job[w].req.op \in Operation /\ pc[w] \in PlacesOf(job[w].req.op)
         /\ job[w].req.name \in Name /\ job[w].req.newName \in Name
         /\ job[w].req.content \in Content
         /\ job[w].target \in Name /\ job[w].moveTo \in Name
         /\ job[w].new \in Metadata
         /\ w \in DOMAIN pc /\ w \in DOMAIN job /\ w \in DOMAIN reply
<1>1. job[w].req \in RequestType BY JobFacts
<1>2. job[w].req.op \in Operation BY <1>1 DEF RequestType
<1>3. w \in DOMAIN pc /\ w \in DOMAIN job /\ w \in DOMAIN reply
  BY DEF TypeOK, WorkersOK
<1>4. QED BY <1>1, <1>2, <1>3, JobFacts DEF HandlerAgrees
-----------------------------------------------------------------------------
(* What keeps a handler in agreement.                                       *)

(* A handler that does not move, while nobody puts anything under the name  *)
(* it is giving.                                                            *)
LEMMA StillAgrees ==
  ASSUME NEW given, NEW v \in Worker, HandlerAgrees(given, v),
         pc'[v] = pc[v], job'[v] = job[v], reply'[v] = reply[v],
         \A n \in Giving(v) : data'[n] \in {data[n], None} /\ meta'[n] \in {meta[n], None}
  PROVE  HandlerAgrees(given, v)'
<1>1. CASE pc[v] = "idle" BY <1>1 DEF HandlerAgrees
<1>2. CASE pc[v] # "idle"
  <2>1. pc[v] \in MakingPc => MakerAgrees(given, v)'
    BY <1>2 DEF HandlerAgrees, MakerAgrees, Giving
  <2>2. pc[v] \in MovingPc => MoverAgrees(given, v)'
    BY <1>2 DEF HandlerAgrees, MoverAgrees, NeedsDeletion
  <2>3. QED BY <1>2, <2>1, <2>2 DEF HandlerAgrees
<1>3. QED BY <1>1, <1>2

(* A handler that has answered.                                             *)
LEMMA FinishAgrees ==
  ASSUME TypeOK, NEW w \in Worker, NEW given, NEW answer, Finish(w, answer)
  PROVE  HandlerAgrees(given, w)' /\ Giving(w)' = {}
<1>1. pc'[w] = "idle" BY DEF TypeOK, WorkersOK, Finish
<1>2. "idle" \notin MakingPc \cup MovingPc BY PlaceSets
<1>3. QED BY <1>1, <1>2 DEF HandlerAgrees, Giving

(* A handler that deletes, or has to begin with its reading.                *)
LEMMA ElsewhereAgrees ==
  ASSUME TypeOK, NEW w \in Worker, pc[w] # "idle", NEW given, HandlerAgrees(given, w),
         NEW label \in PlacesOf(job[w].req.op), Proceed(w, label),
         label \notin MakingPc \cup MovingPc
  PROVE  HandlerAgrees(given, w)' /\ Giving(w)' = {}
<1>1. pc'[w] = label /\ job'[w] = job[w] /\ reply'[w] = reply[w]
  BY DEF TypeOK, WorkersOK, Proceed, Goto
<1>2. QED BY <1>1 DEF HandlerAgrees, Giving

(* A handler that goes on making its file.                                  *)
LEMMA MakingAgrees ==
  ASSUME TypeOK, NEW w \in Worker, pc[w] \in MakingPc, NEW given, HandlerAgrees(given, w),
         NEW label \in MakingPc \ {"exist"}, Proceed(w, label),
         meta'[job[w].target] = None,
         label \in {"statMeta", "writeMeta"} \/ data'[job[w].target] = None,
         label = "schedule" => job[w].new.expiredAt # Never
  PROVE  HandlerAgrees(given, w)' /\ Giving(w)' = Giving(w)
<1>1. pc'[w] = label /\ job'[w] = job[w] /\ reply'[w] = reply[w]
  BY DEF TypeOK, WorkersOK, Proceed, Goto
<1>2. pc[w] # "idle" /\ label \notin MovingPc BY PlaceSets
<1>3. label \in PlacesOf(job[w].req.op)
  <2>1. job[w].req.op \in {"upload", "generate"} BY <1>2, AtWork, PlaceTells
  <2>2. QED BY <2>1, PlaceSets
<1>4. MakerAgrees(given, w)' BY <1>1, <1>2 DEF HandlerAgrees, MakerAgrees
<1>5. QED BY <1>1, <1>2, <1>3, <1>4 DEF HandlerAgrees, Giving

(* A handler that goes on moving its file, having read the metadata.        *)
LEMMA MovingAgrees ==
  ASSUME TypeOK, NEW w \in Worker, NEW given, HandlerAgrees(given, w),
         pc[w] \in MovingPc \ {"readRenamed", "readOldMeta"},
         NEW label \in MovingPc \ {"readRenamed", "readOldMeta", "scheduleOld"},
         Proceed(w, label)
  PROVE  HandlerAgrees(given, w)' /\ Giving(w)' = Giving(w)
<1>1. pc'[w] = label /\ job'[w] = job[w] /\ reply'[w] = reply[w]
  BY DEF TypeOK, WorkersOK, Proceed, Goto
<1>2. pc[w] # "idle" /\ label \notin MakingPc /\ pc[w] \notin MakingPc BY PlaceSets
<1>3. label \in PlacesOf(job[w].req.op)
  <2>1. job[w].req.op = "rename" BY <1>2, AtWork, PlaceTells
  <2>2. QED BY <2>1, PlaceSets
<1>4. MoverAgrees(given, w)' BY <1>1, <1>2 DEF HandlerAgrees, MoverAgrees
<1>5. QED BY <1>1, <1>2, <1>3, <1>4 DEF HandlerAgrees, Giving

(* A name that is given its metadata now, by w at most: what was in         *)
(* agreement stays so.                                                      *)
LEMMA GivenNow ==
  ASSUME TypeOK, NEW given \in [Name -> Metadata \cup {None}],
         StoresAgree(given), MessagesAgree(given), \A v \in Worker : HandlerAgrees(given, v),
         NEW n \in Name, given[n] = None, NEW md \in Metadata,
         NEW w \in Worker, \A v \in Worker : v # w => n \notin Giving(v),
         NEW next, next[n] = md, \A x \in Name : x # n => next[x] = given[x]
  PROVE  /\ StoresAgree(next) /\ MessagesAgree(next)
         /\ \A v \in Worker : v # w => HandlerAgrees(next, v)
<1>a. None \notin Metadata /\ md # None BY NoneAssumption
<1>1. /\ next[n] = md /\ \A x \in Name : x # n => next[x] = given[x]
      /\ \A x \in Name : given[x] # None => next[x] = given[x]
  OBVIOUS
<1>3. StoresAgree(next) BY <1>1 DEF StoresAgree
<1>4. MessagesAgree(next)
  <2>1. \A m \in Message : m.name \in Name BY DEF Message
  <2>2. QED BY <1>1, <2>1 DEF MessagesAgree
<1>5. ASSUME NEW v \in Worker, v # w PROVE HandlerAgrees(next, v)
  <2>1. CASE pc[v] = "idle" BY <2>1 DEF HandlerAgrees
  <2>2. CASE pc[v] # "idle"
    <3>1. job[v].target \in Name /\ job[v].moveTo \in Name /\ job[v].req.name \in Name
      BY <2>2, AtWork
    <3>2. n \notin Giving(v) BY <1>5
    <3>3. pc[v] \in MakingPc => MakerAgrees(next, v)
      BY <1>1, <2>2, <3>1, <3>2 DEF HandlerAgrees, MakerAgrees, Giving
    <3>4. pc[v] \in MovingPc => MoverAgrees(next, v)
      <4>1. pc[v] \in MovingPc => pc[v] \notin MakingPc BY PlaceSets
      <4>2. ASSUME pc[v] \in MovingPc
            PROVE  MoverAgrees(given, v) /\ n # job[v].moveTo
        BY <2>2, <3>2, <4>1, <4>2 DEF HandlerAgrees, MoverAgrees, Giving
      <4>3. QED BY <1>a, <1>1, <3>1, <4>2 DEF MoverAgrees
    <3>5. QED BY <1>1, <2>2, <3>1, <3>3, <3>4 DEF HandlerAgrees
  <2>3. QED BY <2>1, <2>2
<1>6. QED BY <1>3, <1>4, <1>5
-----------------------------------------------------------------------------
(* What keeps the stores in agreement.                                      *)

(* The step puts nothing under a name that w is not giving.                 *)
PutsOnlyUnder(w) ==
  \A n \in Name : n \notin Giving(w) =>
    data'[n] \in {data[n], None} /\ meta'[n] \in {meta[n], None}

(* A step that leaves the stores alone,                                     *)
LEMMA StoresKept ==
  ASSUME NEW given, NEW w, StoresAgree(given), UNCHANGED <<data, meta>>
  PROVE  StoresAgree(given)' /\ PutsOnlyUnder(w)
  BY DEF StoresAgree, PutsOnlyUnder

(* one that removes a file or metadata,                                     *)
LEMMA StoresRemoved ==
  ASSUME TypeOK, NEW given, NEW w, StoresAgree(given), NEW n \in Name,
         \/ data' = Removed(data, n) /\ meta' = meta
         \/ meta' = Removed(meta, n) /\ data' = data
  PROVE  StoresAgree(given)' /\ PutsOnlyUnder(w)
<1>1. StoreOK BY DEF TypeOK
<1>2. \A x \in Name : data'[x] \in {data[x], None} /\ meta'[x] \in {meta[x], None}
  BY <1>1 DEF StoreOK, Removed
<1>3. QED BY <1>2 DEF StoresAgree, PutsOnlyUnder

(* one that writes a file,                                                  *)
LEMMA FileWritten ==
  ASSUME TypeOK, NEW given, NEW w, StoresAgree(given), NEW n \in Name, Giving(w) = {n},
         given[n] # None, data' = Created(data, n, given[n].sha1), meta' = meta
  PROVE  StoresAgree(given)' /\ PutsOnlyUnder(w)
<1>1. StoreOK BY DEF TypeOK
<1>2. \A x \in Name : data'[x] = IF x = n THEN given[n].sha1 ELSE data[x]
  BY <1>1 DEF StoreOK, Created
<1>3. QED BY <1>2 DEF StoresAgree, PutsOnlyUnder

(* and one that writes metadata.                                            *)
LEMMA MetadataWritten ==
  ASSUME TypeOK, NEW given, NEW w, StoresAgree(given), NEW n \in Name, Giving(w) = {n},
         given[n] # None, meta' = Created(meta, n, given[n]), data' = data
  PROVE  StoresAgree(given)' /\ PutsOnlyUnder(w)
<1>1. StoreOK BY DEF TypeOK
<1>2. \A x \in Name : meta'[x] = IF x = n THEN given[n] ELSE meta[x]
  BY <1>1 DEF StoreOK, Created
<1>3. QED BY <1>2 DEF StoresAgree, PutsOnlyUnder
-----------------------------------------------------------------------------
(* The steps of handlers that give no name its metadata.                    *)

(* What each of them does as far as its own handler and the stores go.      *)
Agreeing(given, w) ==
  /\ HandlerAgrees(given, w)' /\ Giving(w)' \subseteq Giving(w)
  /\ StoresAgree(given)' /\ PutsOnlyUnder(w)
  /\ issued' = issued

(* Those that make a file.                                                  *)
LEMMA MakingSteps ==
  ASSUME TypeOK, NEW given, StoresAgree(given), NEW w \in Worker, HandlerAgrees(given, w),
         \/ CheckExist(w) \/ ScheduleNew(w) \/ StatData(w) \/ WriteData(w)
         \/ StatMeta(w) \/ WriteMeta(w)
  PROVE  Agreeing(given, w)
<1>a. pc[w] \in MakingPc
  BY PlaceSets DEF CheckExist, ScheduleNew, StatData, WriteData, StatMeta, WriteMeta
<1>b. pc[w] # "idle" BY <1>a, PlaceSets
<1>c. MakerAgrees(given, w) BY <1>a, <1>b DEF HandlerAgrees
<1>d. Giving(w) = {job[w].target} BY <1>a DEF Giving
<1>e. /\ job[w].target \in Name /\ job[w].new \in Metadata
      /\ job[w].new.sha1 = job[w].req.content
  BY <1>b, AtWork DEF HandlerAgrees
<1>f. ASSUME Fail(w) PROVE HandlerAgrees(given, w)' /\ Giving(w)' \subseteq Giving(w)
  BY <1>f, FinishAgrees DEF Fail
<1>g. "schedule" \in MakingPc \ {"exist"} /\ {"statData", "writeData", "statMeta", "writeMeta"}
        \subseteq MakingPc \ {"exist"}
  BY PlaceSets
<1>1. CASE CheckExist(w)
  <2>1. UNCHANGED <<data, meta>> /\ issued' = issued
    BY <1>1 DEF CheckExist, OnlyWorkers, store, environment
  <2>2. data[job[w].target] = None /\ meta[job[w].target] = None
    BY <1>1, <1>c DEF CheckExist, MakerAgrees
  <2>3. job[w].req.name = job[w].target
    <3>1. job[w].req.op = "upload" BY <1>1, <1>b, AtWork, PlaceTells DEF CheckExist
    <3>2. QED BY <1>c, <3>1 DEF MakerAgrees
  <2>4. Proceed(w, WriteNew(job[w].new))
    BY <1>1, <2>2, <2>3 DEF CheckExist, IsExist
  <2>5. HandlerAgrees(given, w)' /\ Giving(w)' = Giving(w)
    BY <1>a, <1>g, <2>1, <2>2, <2>4, MakingAgrees DEF WriteNew
  <2>6. QED BY <2>1, <2>5, StoresKept DEF Agreeing
<1>2. CASE ScheduleNew(w)
  <2>1. UNCHANGED <<data, meta>> /\ issued' = issued
    BY <1>2 DEF ScheduleNew, OnlyQueue, store, environment
  <2>2. data[job[w].target] = None /\ meta[job[w].target] = None
    BY <1>2, <1>c DEF ScheduleNew, MakerAgrees
  <2>3. HandlerAgrees(given, w)' /\ Giving(w)' \subseteq Giving(w)
    BY <1>2, <1>a, <1>f, <1>g, <2>1, <2>2, MakingAgrees DEF ScheduleNew, Schedule
  <2>4. QED BY <2>1, <2>3, StoresKept DEF Agreeing
<1>3. CASE StatData(w)
  <2>1. UNCHANGED <<data, meta>> /\ issued' = issued
    BY <1>3 DEF StatData, OnlyWorkers, store, environment
  <2>2. data[job[w].target] = None /\ meta[job[w].target] = None
    BY <1>3, <1>c DEF StatData, MakerAgrees
  <2>3. HandlerAgrees(given, w)' /\ Giving(w)' \subseteq Giving(w)
    BY <1>3, <1>a, <1>f, <1>g, <2>1, <2>2, MakingAgrees DEF StatData
  <2>4. QED BY <2>1, <2>3, StoresKept DEF Agreeing
<1>4. CASE WriteData(w)
  <2>1. meta' = meta /\ issued' = issued
    BY <1>4 DEF WriteData, OnlyData, environment
  <2>2. meta[job[w].target] = None BY <1>c DEF MakerAgrees
  <2>3. given[job[w].target] = job[w].new /\ job[w].new # None
    BY <1>c, <1>e, NoneAssumption DEF MakerAgrees
  <2>4. StoresAgree(given)' /\ PutsOnlyUnder(w)
    BY <1>4, <1>d, <1>e, <2>1, <2>3, FileWritten DEF WriteData
  <2>5. HandlerAgrees(given, w)' /\ Giving(w)' = Giving(w)
    BY <1>4, <1>a, <1>g, <2>1, <2>2, MakingAgrees DEF WriteData
  <2>6. QED BY <2>1, <2>4, <2>5 DEF Agreeing
<1>5. CASE StatMeta(w)
  <2>1. UNCHANGED <<data, meta>> /\ issued' = issued
    BY <1>5 DEF StatMeta, OnlyWorkers, store, environment
  <2>2. meta[job[w].target] = None BY <1>c DEF MakerAgrees
  <2>3. Proceed(w, "writeMeta") BY <1>5, <2>2 DEF StatMeta, IsExist
  <2>4. HandlerAgrees(given, w)' /\ Giving(w)' = Giving(w)
    BY <1>a, <1>g, <2>1, <2>2, <2>3, MakingAgrees
  <2>5. QED BY <2>1, <2>4, StoresKept DEF Agreeing
<1>6. CASE WriteMeta(w)
  <2>1. data' = data /\ issued' = issued
    BY <1>6 DEF WriteMeta, OnlyMeta, environment
  <2>2. given[job[w].target] = job[w].new /\ job[w].new # None
    BY <1>c, <1>e, NoneAssumption DEF MakerAgrees
  <2>3. StoresAgree(given)' /\ PutsOnlyUnder(w)
    BY <1>6, <1>d, <1>e, <2>1, <2>2, MetadataWritten DEF WriteMeta
  <2>4. HandlerAgrees(given, w)' /\ Giving(w)' = {}
    BY <1>6, FinishAgrees DEF WriteMeta
  <2>5. QED BY <2>1, <2>3, <2>4 DEF Agreeing
<1>7. QED BY <1>1, <1>2, <1>3, <1>4, <1>5, <1>6

(* Those that move one, once its metadata is found.                         *)
LEMMA MovingSteps ==
  ASSUME TypeOK, NEW given, StoresAgree(given), NEW w \in Worker, HandlerAgrees(given, w),
         \/ ScheduleOld(w) \/ StatMove(w) \/ Transfer(w) \/ RemoveSource(w)
         \/ CheckMetaExist(w) \/ StatOldMeta(w) \/ RemoveOldMeta(w)
         \/ StatBackupMeta(w) \/ WriteBackupMeta(w)
  PROVE  Agreeing(given, w)
<1>a. pc[w] \in MovingPc \ {"readRenamed", "readOldMeta"}
  BY PlaceSets DEF ScheduleOld, StatMove, Transfer, RemoveSource, CheckMetaExist,
     StatOldMeta, RemoveOldMeta, StatBackupMeta, WriteBackupMeta
<1>b. pc[w] # "idle" /\ pc[w] \notin MakingPc BY <1>a, PlaceSets
<1>c. MoverAgrees(given, w) BY <1>a, <1>b DEF HandlerAgrees
<1>d. Giving(w) = {job[w].moveTo} BY <1>a, <1>b, <1>c DEF Giving, MoverAgrees
<1>e. /\ job[w].req.name \in Name /\ job[w].moveTo \in Name /\ job[w].req.op = "rename"
  BY <1>a, <1>b, AtWork, PlaceTells
<1>f. /\ given[job[w].moveTo] = job[w].old /\ given[job[w].req.name] = job[w].old
      /\ job[w].old # None
  BY <1>a, <1>c, NoneAssumption DEF MoverAgrees
<1>g. ASSUME NEW answer, Finish(w, answer)
      PROVE  HandlerAgrees(given, w)' /\ Giving(w)' \subseteq Giving(w)
  BY <1>g, FinishAgrees
<1>h. Fail(w) \/ Relocated(w) => HandlerAgrees(given, w)' /\ Giving(w)' \subseteq Giving(w)
  BY <1>e, <1>g DEF Fail, Relocated
<1>i. ASSUME NEW label \in {"statMove", "transfer", "removeSource", "metaExist",
                            "statOldMeta", "removeOldMeta", "statBackupMeta",
                            "writeBackupMeta"},
             Proceed(w, label)
      PROVE  HandlerAgrees(given, w)' /\ Giving(w)' \subseteq Giving(w)
  <2>1. label \in MovingPc \ {"readRenamed", "readOldMeta", "scheduleOld"} BY PlaceSets
  <2>2. QED BY <1>a, <1>i, <2>1, MovingAgrees
<1>1. CASE ScheduleOld(w)
  <2>1. UNCHANGED <<data, meta>> /\ issued' = issued
    BY <1>1 DEF ScheduleOld, OnlyQueue, store, environment
  <2>2. HandlerAgrees(given, w)' /\ Giving(w)' \subseteq Giving(w)
    BY <1>1, <1>h, <1>i DEF ScheduleOld, Schedule
  <2>3. QED BY <2>1, <2>2, StoresKept DEF Agreeing
<1>2. CASE StatMove(w) \/ CheckMetaExist(w) \/ StatOldMeta(w) \/ StatBackupMeta(w)
  <2>1. UNCHANGED <<data, meta>> /\ issued' = issued
    BY <1>2 DEF StatMove, CheckMetaExist, StatOldMeta, StatBackupMeta, OnlyWorkers,
       store, environment
  <2>2. HandlerAgrees(given, w)' /\ Giving(w)' \subseteq Giving(w)
    BY <1>2, <1>h, <1>i DEF StatMove, CheckMetaExist, StatOldMeta, StatBackupMeta
  <2>3. QED BY <2>1, <2>2, StoresKept DEF Agreeing
<1>3. CASE Transfer(w)
  <2>1. meta' = meta /\ issued' = issued BY <1>3 DEF Transfer, OnlyData, environment
  <2>2. HandlerAgrees(given, w)' /\ Giving(w)' \subseteq Giving(w)
    BY <1>3, <1>h, <1>i DEF Transfer
  <2>3. \A n \in Name : n # job[w].moveTo => data'[n] \in {data[n], None}
    BY <1>3, <1>e DEF Transfer, Transferred, TypeOK, StoreOK
  <2>4. data'[job[w].moveTo] \in {data[job[w].moveTo], job[w].old.sha1}
    <3>1. CASE ~TransferSucceeds(data, job[w].req.name, job[w].moveTo)
      BY <1>3, <3>1 DEF Transfer
    <3>2. CASE TransferSucceeds(data, job[w].req.name, job[w].moveTo)
      <4>1. data[job[w].req.name] = job[w].old.sha1
        BY <1>e, <1>f, <3>2 DEF TransferSucceeds, IsExist, StoresAgree
      <4>2. data'[job[w].moveTo] = data[job[w].req.name]
        BY <1>3, <1>e, <3>2 DEF Transfer, Transferred, TypeOK, StoreOK
      <4>3. QED BY <4>1, <4>2
    <3>3. QED BY <3>1, <3>2
  <2>5. StoresAgree(given)' BY <1>e, <1>f, <2>1, <2>3, <2>4 DEF StoresAgree
  <2>6. PutsOnlyUnder(w) BY <1>d, <2>1, <2>3 DEF PutsOnlyUnder
  <2>7. QED BY <2>1, <2>2, <2>5, <2>6 DEF Agreeing
<1>4. CASE RemoveSource(w) \/ RemoveOldMeta(w)
  <2>1. \/ data' = Removed(data, job[w].req.name) /\ meta' = meta
        \/ meta' = Removed(meta, job[w].req.name) /\ data' = data
    BY <1>4 DEF RemoveSource, RemoveOldMeta, OnlyData, OnlyMeta
  <2>2. issued' = issued
    BY <1>4 DEF RemoveSource, RemoveOldMeta, OnlyData, OnlyMeta, environment
  <2>3. HandlerAgrees(given, w)' /\ Giving(w)' \subseteq Giving(w)
    BY <1>4, <1>h, <1>i DEF RemoveSource, RemoveOldMeta
  <2>4. StoresAgree(given)' /\ PutsOnlyUnder(w) BY <1>e, <2>1, StoresRemoved
  <2>5. QED BY <2>2, <2>3, <2>4 DEF Agreeing
<1>5. CASE WriteBackupMeta(w)
  <2>1. data' = data /\ issued' = issued
    BY <1>5 DEF WriteBackupMeta, OnlyMeta, environment
  <2>2. StoresAgree(given)' /\ PutsOnlyUnder(w)
    BY <1>5, <1>d, <1>e, <1>f, <2>1, MetadataWritten DEF WriteBackupMeta
  <2>3. HandlerAgrees(given, w)' /\ Giving(w)' \subseteq Giving(w)
    BY <1>5, <1>h DEF WriteBackupMeta
  <2>4. QED BY <2>1, <2>2, <2>3 DEF Agreeing
<1>6. QED BY <1>1, <1>2, <1>3, <1>4, <1>5

(* Those that delete, and the first of a rename.                            *)
LEMMA RemovingSteps ==
  ASSUME TypeOK, NEW given, StoresAgree(given), NEW w \in Worker, HandlerAgrees(given, w),
         \/ StatDelete(w) \/ Delete(w) \/ StatDeleteMeta(w) \/ DeleteMeta(w)
  PROVE  Agreeing(given, w)
<1>a. pc[w] \in {"statDelete", "delete", "statDeleteMeta", "deleteMeta"}
  BY DEF StatDelete, Delete, StatDeleteMeta, DeleteMeta
<1>b. job[w].req.name \in Name /\ job[w].req.op = "delete"
  BY <1>a, AtWork, PlaceTells
<1>c. ASSUME NEW answer, Finish(w, answer)
      PROVE  HandlerAgrees(given, w)' /\ Giving(w)' \subseteq Giving(w)
  BY <1>c, FinishAgrees
<1>d. ASSUME NEW label \in {"statDelete", "delete", "statDeleteMeta", "deleteMeta"},
             Proceed(w, label)
      PROVE  HandlerAgrees(given, w)' /\ Giving(w)' \subseteq Giving(w)
  <2>1. label \in PlacesOf(job[w].req.op) /\ label \notin MakingPc \cup MovingPc
    BY <1>b, PlaceSets
  <2>2. pc[w] # "idle" BY <1>a
  <2>3. QED BY <1>d, <2>1, <2>2, ElsewhereAgrees
<1>1. HandlerAgrees(given, w)' /\ Giving(w)' \subseteq Giving(w)
  BY <1>c, <1>d DEF StatDelete, Delete, StatDeleteMeta, DeleteMeta, Fail
<1>2. CASE StatDelete(w) \/ StatDeleteMeta(w)
  <2>1. UNCHANGED <<data, meta>> /\ issued' = issued
    BY <1>2 DEF StatDelete, StatDeleteMeta, OnlyWorkers, store, environment
  <2>2. QED BY <1>1, <2>1, StoresKept DEF Agreeing
<1>3. CASE Delete(w) \/ DeleteMeta(w)
  <2>1. \/ data' = Removed(data, job[w].req.name) /\ meta' = meta
        \/ meta' = Removed(meta, job[w].req.name) /\ data' = data
    BY <1>3 DEF Delete, DeleteMeta, OnlyData, OnlyMeta
  <2>2. issued' = issued
    BY <1>3 DEF Delete, DeleteMeta, OnlyData, OnlyMeta, environment
  <2>3. StoresAgree(given)' /\ PutsOnlyUnder(w) BY <1>b, <2>1, StoresRemoved
  <2>4. QED BY <1>1, <2>2, <2>3 DEF Agreeing
<1>4. QED BY <1>2, <1>3

(* Those that read, the first of a rename among them.                       *)
LEMMA ReadingSteps ==
  ASSUME TypeOK, NEW given, StoresAgree(given), NEW w \in Worker, HandlerAgrees(given, w),
         ReadRenamed(w) \/ GetData(w) \/ GetMeta(w) \/ List(w) \/ ListMeta(w)
  PROVE  Agreeing(given, w)
<1>a. pc[w] \in {"readRenamed", "getData", "getMeta", "list", "listMeta"}
  BY DEF ReadRenamed, GetData, GetMeta, List, ListMeta
<1>b. /\ pc[w] # "idle" /\ job[w] \in Job /\ job[w].req.name \in Name
      /\ w \in DOMAIN pc /\ w \in DOMAIN job /\ w \in DOMAIN reply
      /\ pc[w] \in PlacesOf(job[w].req.op) /\ job[w].req.op \in Operation
  BY <1>a, AtWork
<1>c. ASSUME NEW answer, Finish(w, answer)
      PROVE  HandlerAgrees(given, w)' /\ Giving(w)' \subseteq Giving(w)
  BY <1>c, FinishAgrees
<1>d. UNCHANGED <<data, meta>> /\ issued' = issued
  BY DEF ReadRenamed, GetData, GetMeta, List, ListMeta, OnlyWorkers, store, environment
<1>e. SUFFICES HandlerAgrees(given, w)' /\ Giving(w)' \subseteq Giving(w)
  BY <1>d, StoresKept DEF Agreeing
<1>1. CASE ReadRenamed(w)
  <2>1. CASE Fail(w) BY <1>c, <2>1 DEF Fail
  <2>2. CASE Proceed(w, "readOldMeta")
    <3>1. pc'[w] = "readOldMeta" /\ job'[w] = job[w] /\ reply'[w] = reply[w]
      BY <1>b, <2>2 DEF Proceed, Goto
    <3>2. /\ pc[w] = "readRenamed" /\ job[w].req.op = "rename"
          /\ "readOldMeta" \in PlacesOf("rename")
          /\ {"readRenamed", "readOldMeta"} \subseteq MovingPc \ MakingPc
      BY <1>1, <1>b, PlaceTells, PlaceSets DEF ReadRenamed
    <3>3. MoverAgrees(given, w)' BY <3>1, <3>2, <1>b DEF HandlerAgrees, MoverAgrees
    <3>4. QED BY <1>b, <3>1, <3>2, <3>3 DEF HandlerAgrees, Giving
  <2>3. QED BY <1>1, <2>1, <2>2 DEF ReadRenamed
<1>2. CASE GetData(w)
  <2>1. CASE Fail(w) BY <1>c, <2>1 DEF Fail
  <2>2. CASE IsExist(data, job[w].req.name) /\ ~Fail(w)
    <3>1. /\ pc'[w] = "getMeta" /\ reply'[w] = reply[w]
          /\ job'[w] = [job[w] EXCEPT !.got = data[job[w].req.name]]
      BY <1>2, <1>b, <2>2 DEF GetData, Goto
    <3>2. /\ job'[w].req = job[w].req /\ job'[w].new = job[w].new
          /\ job'[w].got = data[job[w].req.name]
      BY <1>b, <3>1 DEF Job
    <3>3. job[w].req.op = "getFile" BY <1>2, <1>b, PlaceTells DEF GetData
    <3>4. "getMeta" \in PlacesOf("getFile") /\ "getMeta" \notin MakingPc \cup MovingPc
      BY PlaceSets
    <3>5. /\ given[job[w].req.name] # None
          /\ data[job[w].req.name] = given[job[w].req.name].sha1
      BY <1>b, <2>2 DEF IsExist, StoresAgree
    <3>6. QED BY <1>b, <3>1, <3>2, <3>3, <3>4, <3>5 DEF HandlerAgrees, Giving
  <2>3. QED BY <1>2, <2>1, <2>2 DEF GetData
<1>3. CASE GetMeta(w) BY <1>3, <1>c DEF GetMeta, Fail
<1>4. CASE List(w) \/ ListMeta(w)
  <2>1. CASE pc'[w] = "idle" BY <2>1, PlaceSets DEF HandlerAgrees, Giving
  <2>2. CASE pc'[w] # "idle"
    <3>1. \/ \E s : job'[w] = [job[w] EXCEPT !.todo = s]
          \/ \E answer : Finish(w, answer)
      BY <1>4, <1>b DEF List, ListMeta, Fail
    <3>2. pc'[w] = "listMeta" /\ reply'[w] = reply[w]
      BY <1>4, <1>b, <2>2 DEF List, ListMeta, Fail, Finish, Goto
    <3>3. /\ job'[w].req = job[w].req /\ job'[w].new = job[w].new
          /\ job'[w].got = job[w].got
      BY <1>b, <2>2, <3>1 DEF Job, Finish
    <3>4. job[w].req.op = "getFiles" BY <1>4, <1>b, PlaceTells DEF List, ListMeta
    <3>5. "listMeta" \in PlacesOf("getFiles") /\ "listMeta" \notin MakingPc \cup MovingPc
      BY PlaceSets
    <3>6. QED BY <1>b, <3>2, <3>3, <3>4, <3>5 DEF HandlerAgrees, Giving
  <2>3. QED BY <2>1, <2>2
<1>5. QED BY <1>1, <1>2, <1>3, <1>4
-----------------------------------------------------------------------------
(* Messages.                                                                *)

(* A handler announces only the metadata its name was given.                *)
LEMMA WorkerMessages ==
  ASSUME TypeOK, NEW given, MessagesAgree(given), NEW w \in Worker,
         HandlerAgrees(given, w), WorkerStep(w)
  PROVE  MessagesAgree(given)'
<1>a. queue \in [Message -> Nat] BY DEF TypeOK, BrokerOK
<1>1. CASE UNCHANGED brokerVars
  BY <1>1 DEF brokerVars, MessagesAgree, Pending
<1>2. ASSUME NEW x \in Message, Publish(x),
             given[x.name] # None, given[x.name].expiredAt = x.expiredAt,
             ZoneIsUTC \/ x.expiredAt # Never
      PROVE  MessagesAgree(given)'
  <2>1. \A m \in Message : (Pending(m) \/ held = m)' => Pending(m) \/ held = m \/ m = x
    BY <1>a, <1>2 DEF Publish, Pending
  <2>2. QED BY <1>2, <2>1 DEF MessagesAgree
<1>3. CASE ScheduleOld(w)
  <2> DEFINE x == DeletionOf(job[w].moveTo, job[w].old)
  <2>1. pc[w] = "scheduleOld" /\ pc[w] # "idle" /\ pc[w] \in MovingPc
    BY <1>3, PlaceSets DEF ScheduleOld
  <2>2. MoverAgrees(given, w) BY <2>1 DEF HandlerAgrees
  <2>3. /\ job[w].old \in Metadata /\ given[job[w].moveTo] = job[w].old
        /\ NeedsDeletion(job[w].old)
    BY <2>1, <2>2 DEF MoverAgrees
  <2>4. x \in Message BY <2>1, <2>3, AtWork, DeletionType
  <2>5. /\ x.name = job[w].moveTo /\ x.expiredAt = job[w].old.expiredAt
        /\ job[w].old # None
    BY <2>3, NoneAssumption DEF DeletionOf
  <2>6. Publish(x) \/ UNCHANGED brokerVars BY <1>3 DEF ScheduleOld, Schedule
  <2> HIDE DEF x
  <2>7. QED BY <1>1, <1>2, <2>3, <2>4, <2>5, <2>6 DEF NeedsDeletion
<1>4. CASE ScheduleNew(w)
  <2> DEFINE x == DeletionOf(job[w].target, job[w].new)
  <2>1. pc[w] = "schedule" /\ pc[w] # "idle" /\ pc[w] \in MakingPc
    BY <1>4, PlaceSets DEF ScheduleNew
  <2>2. MakerAgrees(given, w) BY <2>1 DEF HandlerAgrees
  <2>3. /\ job[w].new \in Metadata /\ given[job[w].target] = job[w].new
        /\ job[w].new.expiredAt # Never
    BY <2>1, <2>2, AtWork DEF MakerAgrees
  <2>4. x \in Message BY <2>1, <2>3, AtWork, DeletionType
  <2>5. /\ x.name = job[w].target /\ x.expiredAt = job[w].new.expiredAt
        /\ job[w].new # None
    BY <2>3, NoneAssumption DEF DeletionOf
  <2>6. Publish(x) \/ UNCHANGED brokerVars BY <1>4 DEF ScheduleNew, Schedule
  <2> HIDE DEF x
  <2>7. QED BY <1>1, <1>2, <2>3, <2>4, <2>5, <2>6
<1>5. CASE ~ScheduleOld(w) /\ ~ScheduleNew(w)
  <2>1. UNCHANGED brokerVars
    BY <1>5
    DEF WorkerStep, OnlyWorkers, OnlyData, OnlyMeta, CheckExist, ReadOld, AnswerSame,
        ReadRenamed, ReadOldMeta, StatMove, Transfer, RemoveSource, CheckMetaExist,
        StatOldMeta, RemoveOldMeta, StatBackupMeta, WriteBackupMeta, Generate, StatData,
        WriteData, StatMeta, WriteMeta, StatRollback, Rollback, StatDelete, Delete,
        StatDeleteMeta, DeleteMeta, GetData, GetMeta, List, ListMeta
  <2>2. QED BY <1>1, <2>1
<1>6. QED BY <1>3, <1>4, <1>5

(* Nobody else announces anything: a message is there only if it was.       *)
LEMMA OtherMessages ==
  ASSUME TypeOK, NEW given, MessagesAgree(given),
         \/ UNCHANGED brokerVars
         \/ \E x \in Message : Deliver(x)
         \/ Forget \/ Requeue \/ Disconnect \/ Reconnect
  PROVE  MessagesAgree(given)'
<1>a. queue \in [Message -> Nat] /\ NoDelivery \notin Message
      /\ held \in Message \cup {NoDelivery}
  BY NoneAssumption DEF TypeOK, BrokerOK
<1>1. SUFFICES ASSUME NEW m \in Message, (Pending(m) \/ held = m)'
               PROVE  Pending(m) \/ held = m
  BY DEF MessagesAgree
<1>2. CASE UNCHANGED brokerVars BY <1>1, <1>2 DEF brokerVars, Pending
<1>3. ASSUME NEW x \in Message, Deliver(x) PROVE Pending(m) \/ held = m
  BY <1>a, <1>1, <1>3 DEF Deliver, Pending
<1>4. CASE Forget BY <1>a, <1>1, <1>4 DEF Forget, Pending
<1>5. CASE queue' = TakenBack /\ held' \in {held, NoDelivery}
  BY <1>a, <1>1, <1>5 DEF TakenBack, Pending
<1>6. QED BY <1>2, <1>3, <1>4, <1>5 DEF Requeue, Disconnect, Reconnect
-----------------------------------------------------------------------------
(* The steps of the handlers.                                               *)

(* The others do not notice what w does with the names it is giving.        *)
LEMMA Together ==
  ASSUME TypeOK, GivenOnce, NEW given, NEW w \in Worker,
         HandlerAgrees(given, w)', PutsOnlyUnder(w),
         issued \subseteq issued', Giving(w)' \subseteq issued',
         \A v \in Worker : v # w =>
           /\ HandlerAgrees(given, v)
           /\ pc'[v] = pc[v] /\ job'[v] = job[v] /\ reply'[v] = reply[v]
           /\ Giving(v) \cap Giving(w)' = {}
  PROVE  GivenOnce' /\ \A v \in Worker : HandlerAgrees(given, v)'
<1>1. ASSUME NEW v \in Worker, v # w
      PROVE  HandlerAgrees(given, v)' /\ Giving(v)' = Giving(v)
  <2>1. \A n \in Giving(v) : n \in Name /\ n \notin Giving(w)
    BY <1>1 DEF GivenOnce, TypeOK, EnvironmentOK
  <2>2. \A n \in Giving(v) : data'[n] \in {data[n], None} /\ meta'[n] \in {meta[n], None}
    BY <2>1 DEF PutsOnlyUnder
  <2>3. HandlerAgrees(given, v)' BY <1>1, <2>2, StillAgrees
  <2>4. QED BY <1>1, <2>3 DEF Giving
<1>2. \A v \in Worker : HandlerAgrees(given, v)' BY <1>1
<1>3. \A v \in Worker : Giving(v)' \subseteq issued' BY <1>1 DEF GivenOnce
<1>4. ASSUME NEW u \in Worker, NEW v \in Worker, u # v
      PROVE  Giving(u)' \cap Giving(v)' = {}
  BY <1>1, <1>4 DEF GivenOnce
<1>5. QED BY <1>2, <1>3, <1>4 DEF GivenOnce

(* The steps that give no name its metadata.                                *)
LEMMA WorkerAgrees ==
  ASSUME TypeOK, GivenOnce, NEW given, Agree(given), NEW w \in Worker,
         WorkerStep(w), ~Generate(w), ~ReadOldMeta(w)
  PROVE  GivenOnce' /\ Agree(given)'
<1>a. StoresAgree(given) /\ MessagesAgree(given)
      /\ \A v \in Worker : HandlerAgrees(given, v)
  BY DEF Agree
<1>1. ~ReadOld(w) /\ ~AnswerSame(w) /\ ~StatRollback(w) /\ ~Rollback(w)
  BY <1>a, AtWork, PlaceTells DEF ReadOld, AnswerSame, StatRollback, Rollback
<1>2. Agreeing(given, w)
  BY <1>a, <1>1, MakingSteps, MovingSteps, RemovingSteps, ReadingSteps DEF WorkerStep
<1>3. MessagesAgree(given)' BY <1>a, WorkerMessages
<1>4. GivenOnce' /\ \A v \in Worker : HandlerAgrees(given, v)'
  <2>1. /\ HandlerAgrees(given, w)' /\ PutsOnlyUnder(w) /\ issued' = issued
        /\ Giving(w)' \subseteq Giving(w) /\ Giving(w) \subseteq issued
    BY <1>2 DEF Agreeing, GivenOnce
  <2>2. \A v \in Worker : v # w => Giving(v) \cap Giving(w)' = {}
    BY <2>1 DEF GivenOnce
  <2>3. QED BY <1>a, <2>1, <2>2, OthersAlone, Together
<1>5. QED BY <1>2, <1>3, <1>4 DEF Agree, Agreeing
(* The name drawn for a file is given its metadata.                         *)
LEMMA GenerateAgrees ==
  ASSUME TypeOK, WriteOnce, GivenOnce, NEW given \in [Name -> Metadata \cup {None}],
         Agree(given), NEW w \in Worker, Generate(w)
  PROVE  GivenOnce' /\ \E next \in [Name -> Metadata \cup {None}] : Agree(next)'
<1>1. /\ StoresAgree(given) /\ MessagesAgree(given)
      /\ \A v \in Worker : HandlerAgrees(given, v)
      /\ \A n \in Name : given[n] # None => n \in issued
  BY DEF Agree
<1>2. /\ pc[w] = "generate" /\ pc[w] # "idle"
      /\ UNCHANGED <<data, meta>> /\ UNCHANGED brokerVars
  BY DEF Generate, store
<1>3. /\ job[w] \in Job /\ job[w].req \in RequestType /\ job[w].req.name \in Name
      /\ job[w].new \in Metadata
      /\ pc[w] \in PlacesOf(job[w].req.op) /\ job[w].req.op \in Operation
      /\ w \in DOMAIN pc /\ w \in DOMAIN job
  BY <1>1, <1>2, AtWork
<1>4. job[w].req.op = "generate" /\ job[w].req.duration \in 0..MaxDuration
  BY <1>2, <1>3, PlaceTells DEF RequestType
<1>5. PICK g \in Generated :
        /\ g \notin issued /\ issued' = issued \cup {g}
        /\ job' = [job EXCEPT ![w].target = g,
                     ![w].new.expiredAt = Expiry("generate", job[w].req.duration)]
  BY DEF Generate
<1> DEFINE t == Expiry("generate", job[w].req.duration)
<1>6. t \in Time /\ t # Never
  <2>1. now \in 1..MaxTime BY DEF TypeOK, EnvironmentOK
  <2>2. t \in Time BY <1>4, <2>1, ExpiryType
  <2>3. t # Never
    <3>1. now \in Int /\ now > 0 /\ DefaultDuration \in Int /\ DefaultDuration > 0
          /\ job[w].req.duration \in Int /\ job[w].req.duration >= 0
      BY <1>4, <2>1, DurationAssumption
    <3>2. t = now + DefaultDuration \/ t = now + job[w].req.duration
      BY DEF Expiry
    <3>3. QED BY <3>1, <3>2 DEF Never
  <2>4. QED BY <2>2, <2>3
<1>7. PICK md : md = [job[w].new EXCEPT !.expiredAt = t] OBVIOUS
<1>8. md \in Metadata /\ md # None /\ md.expiredAt # Never /\ md.sha1 = job[w].new.sha1
  BY <1>3, <1>6, <1>7, NoneAssumption DEF Metadata
<1>9. job'[w] = [[job[w] EXCEPT !.target = g] EXCEPT !.new = md]
  BY <1>3, <1>5, <1>7 DEF Job
<1>10. /\ job'[w].req = job[w].req /\ job'[w].target = g /\ job'[w].new = md
      /\ job'[w].got = job[w].got
  BY <1>3, <1>9 DEF Job
<1> HIDE DEF t
<1>11. PICK next : next = [given EXCEPT ![g] = md] OBVIOUS
<1>12. g \in Name /\ given[g] = None BY <1>1, <1>5 DEF Name
<1>13. \A v \in Worker : g \notin Giving(v) BY <1>5 DEF GivenOnce
<1>14. /\ next \in [Name -> Metadata \cup {None}] /\ next[g] = md
       /\ \A n \in Name : given[n] # None => next[n] = given[n]
       /\ \A n \in Name : n # g => next[n] = given[n]
  BY <1>11, <1>8, <1>12
<1>15. /\ StoresAgree(next) /\ MessagesAgree(next)
      /\ \A v \in Worker : v # w => HandlerAgrees(next, v)
  BY <1>1, <1>8, <1>12, <1>13, <1>14, GivenNow
<1>16. StoresAgree(next)' /\ PutsOnlyUnder(w) BY <1>2, <1>15, StoresKept
<1>17. MessagesAgree(next)' BY <1>2, <1>15, OtherMessages
<1>18. pc'[w] = "schedule" /\ reply' = reply BY <1>3 DEF Generate, Goto
<1>19. HandlerAgrees(next, w)' /\ Giving(w)' = {g}
  <2>1. "schedule" \in MakingPc /\ "schedule" \notin MovingPc
        /\ "schedule" \in PlacesOf("generate")
    BY PlaceSets
  <2>2. data[g] = None /\ meta[g] = None
    BY <1>12, <1>1 DEF StoresAgree
  <2>3. MakerAgrees(next, w)'
    BY <1>2, <1>8, <1>10, <1>4, <1>14, <1>18, <2>2 DEF MakerAgrees
  <2>4. HandlerAgrees(given, w) BY <1>1
  <2>5. QED BY <1>2, <1>3, <1>4, <1>8, <1>10, <1>14, <1>18, <2>1, <2>3, <2>4
            DEF HandlerAgrees, Giving
<1>20. GivenOnce' /\ \A v \in Worker : HandlerAgrees(next, v)'
  <2>1. WorkerStep(w) BY DEF WorkerStep
  <2>2. \A v \in Worker : v # w => Giving(v) \cap Giving(w)' = {} BY <1>13, <1>19
  <2>3. QED BY <1>5, <1>15, <1>16, <1>19, <2>1, <2>2, OthersAlone, Together
<1>21. \A n \in Name : next[n] # None => n \in issued' BY <1>1, <1>5, <1>14
<1>22. QED BY <1>14, <1>16, <1>17, <1>20, <1>21 DEF Agree

(* The new name of a file is given the metadata found under the old.        *)
LEMMA ReadOldMetaAgrees ==
  ASSUME TypeOK, GivenOnce, NEW given \in [Name -> Metadata \cup {None}],
         Agree(given), NEW w \in Worker, ReadOldMeta(w)
  PROVE  GivenOnce' /\ \E next \in [Name -> Metadata \cup {None}] : Agree(next)'
<1>1. /\ StoresAgree(given) /\ MessagesAgree(given)
      /\ \A v \in Worker : HandlerAgrees(given, v)
      /\ \A n \in Name : given[n] # None => n \in issued
  BY DEF Agree
<1>2. /\ pc[w] = "readOldMeta" /\ pc[w] # "idle" /\ pc[w] \in MovingPc \ MakingPc
      /\ UNCHANGED <<data, meta>> /\ UNCHANGED brokerVars
  BY PlaceSets DEF ReadOldMeta, store
<1>3. /\ job[w] \in Job /\ job[w].req.name \in Name /\ job[w].req.newName \in Name
      /\ pc[w] \in PlacesOf(job[w].req.op) /\ job[w].req.op = "rename"
      /\ w \in DOMAIN pc /\ w \in DOMAIN job
  BY <1>1, <1>2, AtWork, PlaceTells
<1>4. MoverAgrees(given, w) /\ HandlerAgrees(given, w)
  BY <1>1, <1>2 DEF HandlerAgrees
<1>5. PICK n : n = job[w].req.newName OBVIOUS
<1>6. PICK found : found = meta[job[w].req.name] OBVIOUS
<1>7. PICK next : next = [given EXCEPT ![n] = found] OBVIOUS
<1>8. given[n] = None /\ job[w].moveTo = n /\ Giving(w) = {n} /\ n \in Name
  BY <1>2, <1>3, <1>4, <1>5 DEF MoverAgrees, Giving
<1>9. n \in issued /\ \A v \in Worker : v # w => n \notin Giving(v)
  BY <1>8 DEF GivenOnce
<1>10. WorkerStep(w) BY DEF WorkerStep
<1>11. issued' = issued /\ KeepOld(w, found, n)
  BY <1>3, <1>9, <1>5, <1>6 DEF ReadOldMeta, MoveTargets
<1>12. CASE found = None
  <2>1. HandlerAgrees(given, w)' /\ Giving(w)' = {}
    BY <1>11, <1>12, FinishAgrees DEF KeepOld, Panic
  <2>2. StoresAgree(given)' /\ PutsOnlyUnder(w) BY <1>1, <1>2, StoresKept
  <2>3. MessagesAgree(given)' BY <1>1, <1>2, OtherMessages
  <2>4. GivenOnce' /\ \A v \in Worker : HandlerAgrees(given, v)'
    BY <1>11, <1>1, <1>10, <2>1, <2>2, OthersAlone, Together
  <2>5. Agree(given)' BY <1>1, <1>11, <2>2, <2>3, <2>4 DEF Agree
  <2>6. QED BY <2>4, <2>5
<1>13. CASE found # None
  <2>1. found \in Metadata /\ given[job[w].req.name] = found
    BY <1>1, <1>3, <1>6, <1>13 DEF StoresAgree, TypeOK, StoreOK
  <2>2. /\ next \in [Name -> Metadata \cup {None}]
        /\ next[n] = found /\ next[job[w].req.name] = found
        /\ \A x \in Name : given[x] # None => next[x] = given[x]
        /\ \A x \in Name : x # n => next[x] = given[x]
    BY <1>7, <1>3, <1>8, <2>1
  <2>3. /\ StoresAgree(next) /\ MessagesAgree(next)
        /\ \A v \in Worker : v # w => HandlerAgrees(next, v)
    BY <1>1, <1>8, <1>9, <2>1, <2>2, GivenNow
  <2>4. StoresAgree(next)' /\ PutsOnlyUnder(w) BY <1>2, <2>3, StoresKept
  <2>5. MessagesAgree(next)' BY <1>2, <2>3, OtherMessages
  <2>6. /\ pc'[w] = (IF NeedsDeletion(found) THEN "scheduleOld" ELSE "statMove")
        /\ reply' = reply
        /\ job'[w] = [[job[w] EXCEPT !.old = found] EXCEPT !.moveTo = n]
    BY <1>3, <1>11, <1>13 DEF KeepOld, Goto, Job
  <2>7. /\ job'[w].req = job[w].req /\ job'[w].new = job[w].new
        /\ job'[w].got = job[w].got /\ job'[w].old = found /\ job'[w].moveTo = n
    BY <1>3, <2>6 DEF Job
  <2>8. pc'[w] \in MovingPc \ (MakingPc \cup {"readRenamed", "readOldMeta"})
        /\ pc'[w] \in PlacesOf("rename")
    BY <2>6, PlaceSets
  <2>9. MoverAgrees(next, w)'
    <3>1. (pc[w] = "scheduleOld")' => NeedsDeletion(found)
      BY <2>6
    <3>2. QED BY <1>5, <2>1, <2>2, <2>7, <2>8, <3>1 DEF MoverAgrees, NeedsDeletion
  <2>10. HandlerAgrees(next, w)' /\ Giving(w)' = {n}
    BY <1>2, <1>3, <1>4, <1>5, <2>2, <2>6, <2>7, <2>8, <2>9 DEF HandlerAgrees, Giving
  <2>11. GivenOnce' /\ \A v \in Worker : HandlerAgrees(next, v)'
    BY <1>11, <1>9, <1>10, <2>3, <2>4, <2>10, OthersAlone, Together
  <2>12. \A x \in Name : next[x] # None => x \in issued'
    <3>1. issued' = issued BY <1>11
    <3>2. TAKE x \in Name
    <3>3. CASE x = n BY <1>9, <3>1, <3>3
    <3>4. CASE x # n
      <4>1. next[x] = given[x] BY <2>2, <3>4
      <4>2. QED BY <1>1, <3>1, <4>1
    <3>5. QED BY <3>3, <3>4
  <2>13. QED BY <2>2, <2>4, <2>5, <2>11, <2>12 DEF Agree
<1>14. QED BY <1>12, <1>13
(* No step of a handler that is at work breaks the agreement.               *)
LEMMA HandlersOwned ==
  ASSUME TypeOK, WriteOnce, Owned, NEW w \in Worker, WorkerStep(w)
  PROVE  Owned'
<1>1. GivenOnce BY DEF Owned
<1>2. PICK given \in [Name -> Metadata \cup {None}] : Agree(given) BY DEF Owned
<1>3. GivenOnce' /\ \E next \in [Name -> Metadata \cup {None}] : Agree(next)'
  BY <1>1, <1>2, WorkerAgrees, GenerateAgrees, ReadOldMetaAgrees
<1>4. QED BY <1>3 DEF Owned
-----------------------------------------------------------------------------
(* A request that arrives.                                                  *)

(* What a request begins with.                                              *)
LEMMA Submitted ==
  ASSUME TypeOK, NEW w \in Worker, NEW r \in Request, Submit(w, r)
  PROVE  /\ r \in RequestType /\ r.op \in Operation /\ r.content \in Content
         /\ r.name \in Name /\ r.newName \in Name
         /\ pc[w] = "idle" /\ pc'[w] = FirstStep(r.op) /\ reply'[w] = NoReply
         /\ job'[w].req = r /\ job'[w].target = r.name /\ job'[w].moveTo = r.newName
         /\ job'[w].got = None /\ job'[w].old = None
         /\ job'[w].new \in Metadata /\ job'[w].new.sha1 = r.content
         /\ UNCHANGED <<data, meta>> /\ UNCHANGED brokerVars
         /\ issued' = issued \cup Targets(r) /\ Targets(r) \subseteq Name
         /\ WriteOnce => Targets(r) \cap issued = {}
         /\ \A v \in Worker : v # w =>
              pc'[v] = pc[v] /\ job'[v] = job[v] /\ reply'[v] = reply[v]
<1>1. r \in RequestType BY RequestAssumption
<1>2. /\ r.op \in Operation /\ r.content \in Content /\ r.name \in Name
      /\ r.newName \in Name
  BY <1>1 DEF RequestType
<1>3. TypeOK' BY SubmitType
<1>4. /\ pc \in [Worker -> WorkerPc] /\ DOMAIN job = Worker /\ DOMAIN reply = Worker
  BY DEF TypeOK, WorkersOK
<1>5. /\ pc'[w] = FirstStep(r.op) /\ pc[w] = "idle" /\ reply'[w] = NoReply
      /\ job'[w].req = r /\ job'[w].target = r.name /\ job'[w].moveTo = r.newName
      /\ job'[w].got = None /\ job'[w].old = None /\ job'[w].new.sha1 = r.content
  BY <1>4 DEF Submit
<1>6. job'[w].new \in Metadata
  <2>1. pc'[w] # "idle" BY <1>2, <1>5 DEF FirstStep, Operation
  <2>2. job'[w] \in Job BY <1>3, <2>1 DEF TypeOK, WorkersOK
  <2>3. QED BY <2>2 DEF Job
<1>7. /\ UNCHANGED <<data, meta>> /\ UNCHANGED brokerVars
      /\ issued' = issued \cup Targets(r)
      /\ WriteOnce => Targets(r) \cap issued = {}
  BY DEF Submit, Admissible, store
<1>8. Targets(r) \subseteq Name BY <1>2 DEF Targets
<1>9. \A v \in Worker : v # w =>
        pc'[v] = pc[v] /\ job'[v] = job[v] /\ reply'[v] = reply[v]
  BY <1>4 DEF Submit
<1>10. QED BY <1>1, <1>2, <1>5, <1>6, <1>7, <1>8, <1>9

(* An upload gives its name the metadata of the file, a rename takes a name *)
(* that nobody has, and no other request gives a name at once.              *)
LEMMA SubmitOwned ==
  ASSUME TypeOK, WriteOnce, Owned, NEW w \in Worker, NEW r \in Request, Submit(w, r)
  PROVE  Owned'
<1>1. GivenOnce BY DEF Owned
<1>2. PICK given \in [Name -> Metadata \cup {None}] : Agree(given) BY DEF Owned
<1>a. /\ StoresAgree(given) /\ MessagesAgree(given)
      /\ \A v \in Worker : HandlerAgrees(given, v)
      /\ \A n \in Name : given[n] # None => n \in issued
  BY <1>2 DEF Agree
<1>b. /\ r.op \in Operation /\ r.content \in Content
      /\ r.name \in Name /\ r.newName \in Name
      /\ pc'[w] = FirstStep(r.op) /\ reply'[w] = NoReply
      /\ job'[w].req = r /\ job'[w].target = r.name /\ job'[w].moveTo = r.newName
      /\ job'[w].got = None /\ job'[w].new \in Metadata /\ job'[w].new.sha1 = r.content
      /\ UNCHANGED <<data, meta>> /\ UNCHANGED brokerVars
      /\ issued' = issued \cup Targets(r) /\ Targets(r) \cap issued = {}
      /\ \A v \in Worker : v # w =>
           pc'[v] = pc[v] /\ job'[v] = job[v] /\ reply'[v] = reply[v]
  BY Submitted
<1>3. ASSUME NEW next \in [Name -> Metadata \cup {None}],
             StoresAgree(next), MessagesAgree(next),
             \A v \in Worker : v # w => HandlerAgrees(next, v),
             \A n \in Name : next[n] # None => n \in issued',
             HandlerAgrees(next, w)', Giving(w)' \subseteq Targets(r)
      PROVE  Owned'
  <2>1. StoresAgree(next)' /\ PutsOnlyUnder(w) BY <1>b, <1>3, StoresKept
  <2>2. MessagesAgree(next)' BY <1>b, <1>3, OtherMessages
  <2>3. issued \subseteq issued' /\ Giving(w)' \subseteq issued' BY <1>b, <1>3
  <2>4. \A v \in Worker : v # w => Giving(v) \cap Giving(w)' = {}
    BY <1>1, <1>b, <1>3 DEF GivenOnce
  <2>5. GivenOnce' /\ \A v \in Worker : HandlerAgrees(next, v)'
    BY <1>1, <1>b, <1>3, <2>1, <2>3, <2>4, Together
  <2>6. Agree(next)' BY <1>3, <2>1, <2>2, <2>5 DEF Agree
  <2>7. QED BY <2>5, <2>6 DEF Owned
<1>4. CASE r.op = "upload"
  <2>1. PICK n : n = r.name OBVIOUS
  <2>2. PICK md : md = job'[w].new OBVIOUS
  <2>3. /\ n \in Name /\ Targets(r) = {n} /\ n \notin issued /\ given[n] = None
        /\ md \in Metadata /\ md # None
    BY <1>a, <1>b, <1>4, <2>1, <2>2, NoneAssumption DEF Targets
  <2>4. PICK next : next = [given EXCEPT ![n] = md] OBVIOUS
  <2>5. /\ next \in [Name -> Metadata \cup {None}] /\ next[n] = md
        /\ \A x \in Name : x # n => next[x] = given[x]
    BY <2>3, <2>4
  <2>6. \A v \in Worker : v # w => n \notin Giving(v)
    BY <1>1, <2>3 DEF GivenOnce
  <2>7. /\ StoresAgree(next) /\ MessagesAgree(next)
        /\ \A v \in Worker : v # w => HandlerAgrees(next, v)
    BY <1>a, <2>3, <2>5, <2>6, GivenNow
  <2>8. /\ pc'[w] = "exist" /\ "exist" \in MakingPc \ MovingPc
        /\ "exist" \in PlacesOf("upload")
    BY <1>b, <1>4, PlaceSets DEF FirstStep
  <2>9. data[n] = None /\ meta[n] = None BY <1>a, <2>3 DEF StoresAgree
  <2>10. MakerAgrees(next, w)'
    BY <1>b, <2>1, <2>2, <2>5, <2>8, <2>9 DEF MakerAgrees
  <2>11. HandlerAgrees(next, w)' BY <1>b, <1>4, <2>8, <2>10 DEF HandlerAgrees
  <2>12. Giving(w)' = {n} BY <1>b, <2>1, <2>8 DEF Giving
  <2>13. \A x \in Name : next[x] # None => x \in issued'
    <3>1. TAKE x \in Name
    <3>2. CASE x = n BY <1>b, <2>3, <3>2
    <3>3. CASE x # n
      <4>1. next[x] = given[x] BY <2>5, <3>3
      <4>2. QED BY <1>a, <1>b, <4>1
    <3>4. QED BY <3>2, <3>3
  <2>14. QED BY <1>3, <2>3, <2>5, <2>7, <2>11, <2>12, <2>13
<1>5. CASE r.op # "upload"
  <2>1. HandlerAgrees(given, w)' /\ Giving(w)' \subseteq Targets(r)
    <3>1. CASE r.op = "rename"
      <4>1. /\ pc'[w] = "readRenamed" /\ "readRenamed" \in MovingPc \ MakingPc
            /\ "readRenamed" \in PlacesOf("rename")
        BY <1>b, <3>1, PlaceSets DEF FirstStep
      <4>2. Targets(r) = {r.newName} BY <3>1 DEF Targets
      <4>3. given[r.newName] = None BY <1>a, <1>b, <4>2
      <4>4. MoverAgrees(given, w)' BY <1>b, <4>1, <4>3 DEF MoverAgrees
      <4>5. QED BY <1>b, <3>1, <4>1, <4>2, <4>4 DEF HandlerAgrees, Giving
    <3>2. CASE r.op # "rename"
      <4>1. /\ pc'[w] \in {"generate", "statDelete", "getData", "getMeta", "list"}
            /\ pc'[w] \in PlacesOf(r.op)
        <5>1. r.op \in {"generate", "delete", "getFile", "getMetadata", "getFiles"}
          BY <1>b, <1>5, <3>2 DEF Operation
        <5>2. QED BY <1>b, <5>1, PlaceSets DEF FirstStep
      <4>2. pc'[w] \notin MakingPc \cup MovingPc BY <4>1, PlaceSets
      <4>3. QED BY <1>b, <4>1, <4>2 DEF HandlerAgrees, Giving
    <3>3. QED BY <3>1, <3>2
  <2>2. QED BY <1>3, <1>a, <1>b, <2>1
<1>6. QED BY <1>4, <1>5
-----------------------------------------------------------------------------
(* The consumer and the surroundings.                                       *)

(* Steps that leave the handlers alone, and remove at most.                 *)
LEMMA Untouched ==
  ASSUME TypeOK, Owned, UNCHANGED workerVars, issued' = issued,
         \A n \in Name : data'[n] \in {data[n], None} /\ meta'[n] \in {meta[n], None},
         \/ UNCHANGED brokerVars
         \/ \E x \in Message : Deliver(x)
         \/ Forget \/ Requeue \/ Disconnect \/ Reconnect
  PROVE  Owned'
<1>1. GivenOnce BY DEF Owned
<1>2. PICK given \in [Name -> Metadata \cup {None}] : Agree(given) BY DEF Owned
<1>a. /\ StoresAgree(given) /\ MessagesAgree(given)
      /\ \A v \in Worker : HandlerAgrees(given, v)
      /\ \A n \in Name : given[n] # None => n \in issued
  BY <1>2 DEF Agree
<1>b. pc' = pc /\ job' = job /\ reply' = reply BY DEF workerVars
<1>3. GivenOnce' BY <1>1, <1>b DEF GivenOnce, Giving
<1>4. StoresAgree(given)' BY <1>a DEF StoresAgree
<1>5. MessagesAgree(given)' BY <1>a, OtherMessages
<1>6. ASSUME NEW v \in Worker PROVE HandlerAgrees(given, v)'
  <2>1. Giving(v) \subseteq Name BY <1>1 DEF GivenOnce, TypeOK, EnvironmentOK
  <2>2. QED BY <1>a, <1>b, <2>1, StillAgrees
<1>7. Agree(given)' BY <1>a, <1>4, <1>5, <1>6 DEF Agree
<1>8. QED BY <1>3, <1>7 DEF Owned

(* What the consumer and the surroundings do to the rest.                   *)
LEMMA OtherSteps ==
  ASSUME TypeOK,
         \/ ConsumerStep \/ (\E m \in Message : TakeDelivery(m))
         \/ Tick \/ LoseBroker \/ Restart \/ UNCHANGED vars
  PROVE  /\ issued' = issued
         /\ UNCHANGED workerVars \/ Restart
         /\ \/ UNCHANGED brokerVars
            \/ \E x \in Message : Deliver(x)
            \/ Forget \/ Requeue \/ Disconnect \/ Reconnect
         /\ \A n \in Name : data'[n] \in {data[n], None} /\ meta'[n] \in {meta[n], None}
<1>a. StoreOK BY DEF TypeOK
<1>1. CASE ConsumerStep
  <2>1. issued' = issued /\ UNCHANGED workerVars
    BY <1>1 DEF ConsumerStep, CheckDue, ReadMeta, CheckExpiry, StatExpired, RemoveExpired,
       StatExpiredMeta, RemoveExpiredMeta, Acknowledge, ConsumerOnly, environment
  <2>2. UNCHANGED brokerVars \/ Forget \/ Requeue
    BY <1>1 DEF ConsumerStep, CheckDue, ReadMeta, Compare, CheckExpiry, StatExpired,
       RemoveExpired, StatExpiredMeta, RemoveExpiredMeta, Acknowledge, Continue, Settle
  <2>3. /\ data' = data \/ data' = Removed(data, held.name)
        /\ meta' = meta \/ meta' = Removed(meta, held.name)
    BY <1>1 DEF ConsumerStep, CheckDue, ReadMeta, CheckExpiry, StatExpired, RemoveExpired,
       StatExpiredMeta, RemoveExpiredMeta, Acknowledge, store
  <2>4. \A n \in Name : data'[n] \in {data[n], None} /\ meta'[n] \in {meta[n], None}
    BY <1>a, <2>3 DEF StoreOK, Removed
  <2>5. QED BY <2>1, <2>2, <2>4
<1>2. ASSUME NEW m \in Message, TakeDelivery(m)
      PROVE  Deliver(m) /\ issued' = issued /\ UNCHANGED workerVars
             /\ UNCHANGED <<data, meta>>
  BY <1>2 DEF TakeDelivery, ConsumerOnly, environment, store
<1>3. CASE Tick BY <1>3 DEF Tick, store
<1>4. CASE LoseBroker BY <1>4 DEF LoseBroker, store
<1>5. CASE Restart BY <1>5 DEF Restart, store
<1>6. CASE UNCHANGED vars BY <1>6 DEF vars, store, environment
<1>7. QED BY <1>1, <1>2, <1>3, <1>4, <1>5, <1>6

(* A restart ends every request.                                            *)
LEMMA RestartOwned ==
  ASSUME TypeOK, Owned, Restart
  PROVE  Owned'
<1>1. PICK given \in [Name -> Metadata \cup {None}] : Agree(given) BY DEF Owned
<1>2. \A w \in Worker : pc'[w] = "idle" BY DEF Restart
<1>3. "idle" \notin MakingPc \cup MovingPc BY PlaceSets
<1>4. \A w \in Worker : HandlerAgrees(given, w)' /\ Giving(w)' = {}
  BY <1>2, <1>3 DEF HandlerAgrees, Giving
<1>5. GivenOnce' BY <1>4 DEF GivenOnce
<1>6. Reconnect /\ UNCHANGED <<data, meta>> /\ issued' = issued BY DEF Restart, store
<1>7. StoresAgree(given)' BY <1>1, <1>6 DEF Agree, StoresAgree
<1>8. MessagesAgree(given)' BY <1>1, <1>6, OtherMessages DEF Agree
<1>9. Agree(given)' BY <1>1, <1>4, <1>6, <1>7, <1>8 DEF Agree
<1>10. QED BY <1>5, <1>9 DEF Owned
-----------------------------------------------------------------------------
(* The invariant of write-once clients.                                     *)

(* Nothing has been given when the service starts for the first time.       *)
LEMMA OwnedInit ==
  ASSUME Init
  PROVE  Owned
<1>1. PICK given : given = [n \in Name |-> None] OBVIOUS
<1>2. \A n \in Name : given[n] = None /\ data[n] = None /\ meta[n] = None
  BY <1>1 DEF Init
<1>3. \A w \in Worker : pc[w] = "idle" BY DEF Init
<1>4. "idle" \notin MakingPc \cup MovingPc BY PlaceSets
<1>5. \A m \in Message : ~(Pending(m) \/ held = m)
  BY NoneAssumption DEF Init, Pending
<1>6. Agree(given)
  BY <1>2, <1>3, <1>5 DEF Agree, StoresAgree, MessagesAgree, HandlerAgrees
<1>7. given \in [Name -> Metadata \cup {None}] BY <1>1
<1>8. GivenOnce BY <1>3, <1>4 DEF GivenOnce, Giving
<1>9. QED BY <1>6, <1>7, <1>8 DEF Owned

(* Owned is inductive for write-once clients.                               *)
LEMMA OwnedStep ==
  ASSUME WriteOnce, TypeOK, Owned, [Next]_vars
  PROVE  Owned'
<1>1. ASSUME NEW w \in Worker, WorkerStep(w) PROVE Owned' BY <1>1, HandlersOwned
<1>2. ASSUME NEW w \in Worker, NEW r \in Request, Submit(w, r) PROVE Owned'
  BY <1>2, SubmitOwned
<1>3. CASE Restart BY <1>3, RestartOwned
<1>4. CASE ConsumerStep \/ (\E m \in Message : TakeDelivery(m)) \/ Tick \/ LoseBroker
           \/ UNCHANGED vars
  BY <1>3, <1>4, OtherSteps, Untouched
<1>5. QED BY <1>1, <1>2, <1>3, <1>4 DEF Next

(* Clients that never reuse a name: every name is given one metadata, once, *)
(* and the stores, the messages and the handlers agree with it, whatever    *)
(* requests interleave, fail or die.                                        *)
THEOREM AlwaysOwned ==
  ASSUME WriteOnce
  PROVE  Spec => []Owned
<1>1. Init => Owned BY OwnedInit
<1>2. Inv /\ Owned /\ [Next]_vars => Owned' BY OwnedStep DEF Inv
<1>3. QED BY <1>1, <1>2, InvAlways, PTL DEF Spec
-----------------------------------------------------------------------------
(* Files go away for a reason.                                              *)

(* The steps that take a file or its metadata away.                         *)
LEMMA RemovingMoves ==
  ASSUME TypeOK, [Next]_vars, NEW n \in Name,
         \/ data[n] # None /\ data'[n] = None
         \/ meta[n] # None /\ meta'[n] = None
  PROVE  \/ /\ n = held.name
            /\ \/ cpc = "removeData" /\ data[n] # None
               \/ cpc = "removeMeta" /\ data' = data
         \/ \E w \in Worker : /\ n = job[w].req.name
                              /\ pc[w] \in {"transfer", "removeSource", "removeOldMeta",
                                            "delete", "deleteMeta"}
         \/ \E w \in Worker : Rollback(w)
<1>a. data \in [Name -> Content \cup {None}] /\ meta \in [Name -> Metadata \cup {None}]
  BY DEF TypeOK, StoreOK
<1>b. \A x : /\ data' = Removed(data, x) /\ data'[n] # data[n] => n = x
             /\ meta' = Removed(meta, x) /\ meta'[n] # meta[n] => n = x
  BY <1>a DEF Removed
<1>1. ASSUME NEW w \in Worker, WorkerStep(w), ~Rollback(w)
      PROVE  /\ n = job[w].req.name
             /\ pc[w] \in {"transfer", "removeSource", "removeOldMeta",
                           "delete", "deleteMeta"}
  <2>1. CASE RemoveSource(w) \/ Delete(w)
    BY <1>b, <2>1 DEF RemoveSource, Delete, OnlyData
  <2>2. CASE RemoveOldMeta(w) \/ DeleteMeta(w)
    BY <1>b, <2>2 DEF RemoveOldMeta, DeleteMeta, OnlyMeta
  <2>3. CASE Transfer(w)
    <3>1. pc[w] = "transfer" /\ meta' = meta /\ data[n] # None /\ data'[n] = None
      BY <2>3 DEF Transfer, OnlyData
    <3>2. /\ data[job[w].req.name] # None
          /\ data' = Transferred(data, job[w].req.name, job[w].moveTo)
      BY <2>3, <3>1 DEF Transfer, TransferSucceeds, IsExist
    <3>3. job[w].req.name \in Name /\ job[w].moveTo \in Name
      BY <3>1, JobFacts
    <3>4. n = job[w].req.name BY <1>a, <3>1, <3>2, <3>3 DEF Transferred
    <3>5. QED BY <3>1, <3>4
  <2>4. CASE WriteData(w)
    <3>1. job[w].req.content # None
      BY <2>4, JobFacts, NoneAssumption DEF WriteData
    <3>2. QED BY <1>a, <2>4, <3>1 DEF WriteData, OnlyData, Created
  <2>5. CASE WriteMeta(w) \/ WriteBackupMeta(w)
    <3>1. \E x, to : x # None /\ meta' = Created(meta, to, x) /\ data' = data
      <4>1. CASE WriteMeta(w)
        <5>1. job[w].new # None BY <4>1, JobFacts, NoneAssumption DEF WriteMeta
        <5>2. QED BY <4>1, <5>1 DEF WriteMeta, OnlyMeta
      <4>2. CASE WriteBackupMeta(w)
        <5>1. job[w].old # None
          BY <4>2, NoneAssumption DEF WriteBackupMeta, RelocationPc, TypeOK, WorkersOK
        <5>2. QED BY <4>2, <5>1 DEF WriteBackupMeta, OnlyMeta
      <4>3. QED BY <2>5, <4>1, <4>2
    <3>2. QED BY <1>a, <3>1 DEF Created
  <2>6. CASE ~(RemoveSource(w) \/ Delete(w) \/ RemoveOldMeta(w) \/ DeleteMeta(w)
               \/ Transfer(w) \/ WriteData(w) \/ WriteMeta(w) \/ WriteBackupMeta(w))
    <3>1. UNCHANGED <<data, meta>>
      BY <1>1, <2>6
      DEF WorkerStep, OnlyWorkers, OnlyQueue, store, CheckExist, ReadOld, AnswerSame,
          ReadRenamed, ReadOldMeta, ScheduleOld, StatMove, CheckMetaExist, StatOldMeta,
          StatBackupMeta, Generate, ScheduleNew, StatData, StatMeta, StatRollback,
          StatDelete, StatDeleteMeta, GetData, GetMeta, List, ListMeta
    <3>2. QED BY <3>1
  <2>7. QED BY <2>1, <2>2, <2>3, <2>4, <2>5, <2>6
<1>2. CASE ConsumerStep
  <2>1. CASE RemoveExpired BY <1>b, <2>1 DEF RemoveExpired
  <2>2. CASE RemoveExpiredMeta BY <1>b, <2>2 DEF RemoveExpiredMeta
  <2>3. CASE ~RemoveExpired /\ ~RemoveExpiredMeta
    BY <1>2, <2>3 DEF ConsumerStep, CheckDue, ReadMeta, CheckExpiry, StatExpired,
       StatExpiredMeta, Acknowledge, store
  <2>4. QED BY <2>1, <2>2, <2>3
<1>3. ASSUME \/ \E w \in Worker, r \in Request : Submit(w, r)
             \/ \E m \in Message : TakeDelivery(m)
             \/ Tick \/ LoseBroker \/ Restart
             \/ UNCHANGED vars
      PROVE  UNCHANGED <<data, meta>>
  BY <1>3 DEF Submit, TakeDelivery, Tick, LoseBroker, Restart, vars, store
<1>4. QED BY <1>1, <1>2, <1>3 DEF Next
(* In agreement, a file in order stops being so only by losing a part.      *)
LEMMA VisibleUntilRemoved ==
  ASSUME Owned', NEW n \in Name, Visible(n), ~Visible(n)'
  PROVE  \/ data[n] # None /\ data'[n] = None
         \/ meta[n] # None /\ meta'[n] = None
<1>1. PICK given \in [Name -> Metadata \cup {None}] : Agree(given)' BY DEF Owned
<1>2. data'[n] # None /\ meta'[n] # None => Visible(n)'
  BY <1>1 DEF Agree, StoresAgree, Visible
<1>3. QED BY <1>2 DEF Visible

(* What the consumer removes is overdue: the message it holds has the       *)
(* deadline the name was given.                                             *)
LEMMA ConsumerRemovesOverdue ==
  ASSUME ~ZoneIsUTC, TypeOK, ConsumerHoldsDue, Owned, cpc \in DueConsumerPc,
         NEW n \in Name, n = held.name, meta[n] # None
  PROVE  Overdue(n)
<1>1. PICK given \in [Name -> Metadata \cup {None}] : Agree(given) BY DEF Owned
<1>2. held \in Message /\ held.expiredAt <= now
  BY DEF ConsumerHoldsDue, DueConsumerPc, TypeOK, BrokerOK
<1>3. given[n].expiredAt = held.expiredAt /\ held.expiredAt # Never
  BY <1>1, <1>2 DEF Agree, MessagesAgree
<1>4. meta[n] = given[n] BY <1>1 DEF Agree, StoresAgree
<1>5. held.expiredAt \in Nat /\ now \in Int
  BY <1>2, DurationAssumption DEF Message, Time, TypeOK, EnvironmentOK
<1>6. held.expiredAt \in 1..now BY <1>2, <1>3, <1>5 DEF Never
<1>7. QED BY <1>3, <1>4, <1>6 DEF Overdue

(* For clients that never reuse a name, in a zone where a permanent file    *)
(* gets no deletion message: a file in order is lost to its deadline, or to *)
(* a client deleting or renaming it, and to nothing else.                   *)
THEOREM AlwaysRemovedForCause ==
  ASSUME WriteOnce, ~ZoneIsUTC
  PROVE  Spec => RemovedForCause
<1>1. ASSUME Inv, Owned, Owned', [Next]_vars, NEW n \in Name, Visible(n), ~Visible(n)'
      PROVE  \/ Overdue(n)
             \/ \E w \in Worker : /\ Changing(w)
                                 /\ job[w].req.op # "generate"
                                 /\ job[w].req.name = n
  <2>a. TypeOK /\ ConsumerHoldsDue BY <1>1 DEF Inv
  <2>b. PICK given \in [Name -> Metadata \cup {None}] : Agree(given)
    BY <1>1 DEF Owned
  <2>c. \A w \in Worker : HandlerAgrees(given, w) BY <2>b DEF Agree
  <2>1. CASE n = held.name /\ cpc \in {"removeData", "removeMeta"}
    <3>1. meta[n] # None /\ cpc \in DueConsumerPc
      BY <1>1, <2>1 DEF Visible, DueConsumerPc
    <3>2. QED BY <1>1, <2>a, <2>1, <3>1, ConsumerRemovesOverdue
  <2>2. ASSUME NEW w \in Worker, n = job[w].req.name,
               pc[w] \in {"transfer", "removeSource", "removeOldMeta", "delete",
                          "deleteMeta"}
        PROVE  Changing(w) /\ job[w].req.op # "generate"
    <3>1. pc[w] # "idle" /\ (pc[w] \in MovingPc \/ pc[w] \in {"delete", "deleteMeta"})
      BY <2>2, PlaceSets
    <3>2. job[w].req.op \in {"rename", "delete"}
      BY <2>a, <2>c, <3>1, AtWork, PlaceTells
    <3>3. QED BY <3>1, <3>2 DEF Changing, Reads
  <2>3. ASSUME NEW w \in Worker PROVE ~Rollback(w)
    BY <2>a, <2>c, AtWork, PlaceTells DEF Rollback
  <2>4. QED BY <1>1, <2>a, <2>1, <2>2, <2>3, VisibleUntilRemoved, RemovingMoves
<1>2. Inv /\ Owned /\ Owned' /\ [Next]_vars =>
        [\A n \in Name : Visible(n) /\ ~Visible(n)' =>
           \/ Overdue(n)
           \/ \E w \in Worker : /\ Changing(w)
                               /\ job[w].req.op # "generate"
                               /\ job[w].req.name = n]_vars
  BY <1>1
<1>3. QED BY <1>2, InvAlways, AlwaysOwned, PTL DEF Spec, RemovedForCause
-----------------------------------------------------------------------------
(* Clients that also change a name one request at a time.                   *)

(* The names a handler can come to work with, beside those it began with.   *)
LEMMA NamesKept ==
  ASSUME TypeOK, NEW w \in Worker, WorkerStep(w)
  PROVE  /\ Changing(w)' => Changing(w)
         /\ \/ pc'[w] = "idle"
            \/ NamesOf(w)' \subseteq NamesOf(w)
            \/ \E n \in Name : NamesOf(w)' \subseteq NamesOf(w) \cup {n} /\ Unguessed(w, n)
<1>a. w \in DOMAIN pc /\ w \in DOMAIN job BY DEF TypeOK, WorkersOK
<1>b. pc[w] # "idle"
  BY DEF WorkerStep, CheckExist, ReadOld, AnswerSame, ReadRenamed, ReadOldMeta,
  ScheduleOld, StatMove, Transfer, RemoveSource, CheckMetaExist, StatOldMeta,
  RemoveOldMeta, StatBackupMeta, WriteBackupMeta, Generate, ScheduleNew, StatData,
  WriteData, StatMeta, WriteMeta, StatRollback, Rollback, StatDelete, Delete,
  StatDeleteMeta, DeleteMeta, GetData, GetMeta, List, ListMeta
<1>c. job[w] \in Job /\ job[w].new \in Metadata /\ job[w].req.newName \in Name
  BY <1>b, JobFacts
<1> DEFINE Kept == /\ job'[w].req = job[w].req /\ job'[w].target = job[w].target
                   /\ job'[w].moveTo = job[w].moveTo
<1>d. \A answer : Finish(w, answer) => pc'[w] = "idle" BY <1>a DEF Finish
<1>e. Fail(w) \/ Panic(w) => pc'[w] = "idle" BY <1>d DEF Fail, Panic
<1>f. \A label : Proceed(w, label) => Kept BY <1>a DEF Proceed
<1>g. Relocated(w) => pc'[w] = "idle" \/ Kept
  <2>1. CASE job[w].req.op = "rename" BY <1>d, <2>1 DEF Relocated
  <2>2. ASSUME job[w].req.op # "rename", Relocated(w) PROVE Kept
    <3>1. job'[w] = [job[w] EXCEPT !.new.backup = job[w].moveTo]
      BY <1>a, <2>2 DEF Relocated
    <3>2. QED BY <1>c, <3>1 DEF Job
  <2>3. QED BY <2>1, <2>2
<1>1. ASSUME pc'[w] = "idle" \/ Kept
      PROVE  /\ Changing(w)' => Changing(w)
             /\ pc'[w] = "idle" \/ NamesOf(w)' \subseteq NamesOf(w)
  BY <1>b, <1>1 DEF Changing, NamesOf
<1> HIDE DEF Kept
<1>2. CASE \/ CheckExist(w) \/ ReadOld(w) \/ AnswerSame(w) \/ ReadRenamed(w)
           \/ ScheduleOld(w) \/ StatMove(w) \/ Transfer(w) \/ RemoveSource(w)
           \/ CheckMetaExist(w) \/ StatOldMeta(w) \/ RemoveOldMeta(w)
           \/ StatBackupMeta(w) \/ WriteBackupMeta(w)
  <2>1. pc'[w] = "idle" \/ Kept
    BY <1>d, <1>e, <1>f, <1>g, <1>2
    DEF CheckExist, ReadOld, AnswerSame, ReadRenamed, ScheduleOld, Schedule, StatMove,
        Transfer, RemoveSource, CheckMetaExist, StatOldMeta, RemoveOldMeta,
        StatBackupMeta, WriteBackupMeta
  <2>2. QED BY <1>1, <2>1
<1>3. CASE \/ ScheduleNew(w) \/ StatData(w) \/ WriteData(w) \/ StatMeta(w)
           \/ WriteMeta(w) \/ StatRollback(w) \/ Rollback(w) \/ StatDelete(w)
           \/ Delete(w) \/ StatDeleteMeta(w) \/ DeleteMeta(w) \/ GetMeta(w)
  <2>1. pc'[w] = "idle" \/ Kept
    BY <1>d, <1>e, <1>f, <1>3
    DEF ScheduleNew, Schedule, StatData, WriteData, StatMeta, WriteMeta, StatRollback,
        Rollback, StatDelete, Delete, StatDeleteMeta, DeleteMeta, GetMeta
  <2>2. QED BY <1>1, <2>1
<1>4. CASE GetData(w) \/ List(w) \/ ListMeta(w)
  <2>1. \/ pc'[w] = "idle"
        \/ \E x : job'[w] = [job[w] EXCEPT !.got = x]
        \/ \E x : job'[w] = [job[w] EXCEPT !.todo = x]
    BY <1>a, <1>d, <1>e, <1>4 DEF GetData, List, ListMeta
  <2>2. pc'[w] = "idle" \/ Kept BY <1>c, <2>1 DEF Job, Kept
  <2>3. QED BY <1>1, <2>2
<1>5. CASE ReadOldMeta(w)
  <2>1. PICK to \in MoveTargets(w) : KeepOld(w, meta[job[w].req.name], to)
    BY <1>5 DEF ReadOldMeta
  <2>2. CASE Panic(w) BY <1>1, <1>e, <2>2
  <2>3. CASE ~Panic(w)
    <3>1. job'[w] = [[job[w] EXCEPT !.old = meta[job[w].req.name]] EXCEPT !.moveTo = to]
      BY <1>a, <1>c, <2>1, <2>3 DEF KeepOld, Job
    <3>2. /\ job'[w].req = job[w].req /\ job'[w].target = job[w].target
          /\ job'[w].moveTo = to
      BY <1>c, <3>1 DEF Job
    <3>3. Changing(w)' => Changing(w) BY <1>b, <3>2 DEF Changing
    <3>4. NamesOf(w)' \subseteq NamesOf(w) \cup {to} BY <3>2 DEF NamesOf
    <3>5. CASE job[w].req.op = "rename"
      <4>1. to = job[w].req.newName BY <2>1, <3>5 DEF MoveTargets
      <4>2. NamesOf(w)' \subseteq NamesOf(w) BY <3>4, <4>1 DEF NamesOf
      <4>3. QED BY <3>3, <4>2
    <3>6. CASE job[w].req.op # "rename"
      <4>1. to \in Name /\ Unguessed(w, to) BY <2>1, <3>6 DEF MoveTargets, Name
      <4>2. QED BY <3>3, <3>4, <4>1
    <3>7. QED BY <3>5, <3>6
  <2>4. QED BY <2>2, <2>3
<1>6. CASE Generate(w)
  <2>1. PICK g \in Generated :
          /\ Unguessed(w, g)
          /\ job' = [job EXCEPT ![w].target = g,
                       ![w].new.expiredAt = Expiry("generate", job[w].req.duration)]
    BY <1>6 DEF Generate
  <2>2. g \in Name BY DEF Name
  <2>3. /\ job'[w].req = job[w].req /\ job'[w].target = g
        /\ job'[w].moveTo = job[w].moveTo
    BY <1>a, <1>c, <2>1 DEF Job
  <2>4. NamesOf(w)' \subseteq NamesOf(w) \cup {g} BY <2>3 DEF NamesOf
  <2>5. Changing(w)' => Changing(w) BY <1>b, <2>3 DEF Changing
  <2>6. QED BY <2>1, <2>2, <2>4, <2>5
<1>7. QED BY <1>2, <1>3, <1>4, <1>5, <1>6 DEF WorkerStep
(* No two changes that are going on name the same file.                     *)
LEMMA ApartStep ==
  ASSUME Exclusive, TypeOK, Apart, [Next]_vars
  PROVE  Apart'
<1>1. SUFFICES ASSUME NEW u \in Worker, NEW v \in Worker, u # v,
                      Changing(u)', Changing(v)'
               PROVE  NamesOf(u)' \cap NamesOf(v)' = {}
  BY DEF Apart
<1>2. CASE UNCHANGED workerVars
  <2>1. pc' = pc /\ job' = job BY <1>2 DEF workerVars
  <2>2. Changing(u) /\ Changing(v) /\ NamesOf(u)' = NamesOf(u) /\ NamesOf(v)' = NamesOf(v)
    BY <1>1, <2>1 DEF Changing, NamesOf
  <2>3. QED BY <1>1, <2>2 DEF Apart
<1>3. ASSUME NEW w \in Worker, NEW x \in Worker, x # w, Changing(w)', Changing(x)',
             WorkerStep(w) \/ (\E r \in Request : Submit(w, r))
      PROVE  NamesOf(w)' \cap NamesOf(x)' = {}
  <2>1. Changing(x) /\ NamesOf(x)' = NamesOf(x)
    <3>1. pc'[x] = pc[x] /\ job'[x] = job[x]
      BY <1>3, OthersAlone DEF Submit, TypeOK, WorkersOK
    <3>2. QED BY <1>3, <3>1 DEF Changing, NamesOf
  <2>2. CASE WorkerStep(w)
    <3>1. Changing(w) /\ pc'[w] # "idle" BY <1>3, <2>2, NamesKept DEF Changing
    <3>2. NamesOf(w) \cap NamesOf(x) = {} BY <1>3, <2>1, <3>1 DEF Apart
    <3>3. CASE NamesOf(w)' \subseteq NamesOf(w) BY <2>1, <3>2, <3>3
    <3>4. ASSUME NEW n \in Name, NamesOf(w)' \subseteq NamesOf(w) \cup {n}, Unguessed(w, n)
          PROVE  NamesOf(w)' \cap NamesOf(x)' = {}
      <4>1. n \notin NamesOf(x) BY <1>3, <2>1, <3>4 DEF Unguessed
      <4>2. QED BY <2>1, <3>2, <3>4, <4>1
    <3>5. QED BY <2>2, <3>1, <3>3, <3>4, NamesKept
  <2>3. ASSUME NEW r \in Request, Submit(w, r) PROVE NamesOf(w)' \cap NamesOf(x)' = {}
    <3>1. job'[w].req = r /\ job'[w].target = r.name /\ job'[w].moveTo = r.newName
      BY <2>3, Submitted
    <3>2. NamesOf(w)' = {r.name, r.newName} BY <3>1 DEF NamesOf
    <3>3. r.op \notin Reads BY <1>3, <3>1 DEF Changing
    <3>4. NamesOf(x) \cap {r.name, r.newName} = {}
      BY <2>1, <2>3, <3>3 DEF Submit, Admissible
    <3>5. QED BY <2>1, <3>2, <3>4
  <2>4. QED BY <1>3, <2>2, <2>3
<1>4. ASSUME NEW w \in Worker, WorkerStep(w) \/ (\E r \in Request : Submit(w, r))
      PROVE  NamesOf(u)' \cap NamesOf(v)' = {}
  <2>1. CASE w = u \/ w = v BY <1>1, <1>3, <1>4, <2>1
  <2>2. CASE w # u /\ w # v
    <3>1. pc'[u] = pc[u] /\ job'[u] = job[u] /\ pc'[v] = pc[v] /\ job'[v] = job[v]
      BY <1>4, <2>2, OthersAlone DEF Submit, TypeOK, WorkersOK
    <3>2. Changing(u) /\ Changing(v) /\ NamesOf(u)' = NamesOf(u)
          /\ NamesOf(v)' = NamesOf(v)
      BY <1>1, <3>1 DEF Changing, NamesOf
    <3>3. QED BY <1>1, <3>2 DEF Apart
  <2>3. QED BY <2>1, <2>2
<1>5. CASE Restart BY <1>1, <1>5 DEF Restart, Changing
<1>6. CASE ConsumerStep \/ (\E m \in Message : TakeDelivery(m)) \/ Tick \/ LoseBroker
           \/ UNCHANGED vars
  BY <1>2, <1>5, <1>6, OtherSteps
<1>7. QED BY <1>4, <1>5, <1>6 DEF Next

(* The way into the making of a file, for a name of its own.                *)
LEMMA MakingMoves ==
  ASSUME TypeOK, NEW given, NEW w \in Worker, HandlerAgrees(given, w), WorkerStep(w),
         pc'[w] \in MakingPc
  PROVE  \/ Generate(w)
         \/ pc[w] \in MakingPc /\ job'[w] = job[w]
<1>a. w \in DOMAIN pc /\ w \in DOMAIN job BY DEF TypeOK, WorkersOK
<1>b. \A answer : ~Finish(w, answer) BY <1>a, PlaceSets DEF Finish
<1>c. ~Fail(w) /\ ~Panic(w) BY <1>b DEF Fail, Panic
<1>d. \A label : Goto(w, label) => label \in MakingPc BY <1>a DEF Goto
<1>e. \A label : Proceed(w, label) => label \in MakingPc /\ job'[w] = job[w]
  BY <1>a, <1>d DEF Proceed
<1>f. pc[w] \in MovingPc => ~Relocated(w)
  <2>1. pc[w] \in MovingPc => job[w].req.op = "rename" BY AtWork, PlaceTells, PlaceSets
  <2>2. QED BY <1>b, <2>1 DEF Relocated
<1>g. {"readOld", "sameMeta", "readOldMeta", "scheduleOld", "statMove", "transfer",
       "removeSource", "metaExist", "statOldMeta", "removeOldMeta", "statBackupMeta",
       "writeBackupMeta", "statRollback", "rollback", "delete", "statDeleteMeta",
       "deleteMeta", "getMeta", "listMeta"} \cap MakingPc = {}
  BY PlaceSets
<1>h. {"exist", "schedule", "statData", "writeData", "statMeta"} \subseteq MakingPc
      /\ {"metaExist", "writeBackupMeta"} \subseteq MovingPc
  BY PlaceSets
<1>1. CASE \/ ReadOld(w) \/ AnswerSame(w) \/ ReadRenamed(w) \/ ReadOldMeta(w)
           \/ ScheduleOld(w) \/ StatMove(w) \/ Transfer(w) \/ RemoveSource(w)
           \/ StatOldMeta(w) \/ RemoveOldMeta(w) \/ StatBackupMeta(w)
  <2>1. FALSE
    BY <1>b, <1>c, <1>d, <1>e, <1>g, <1>1
    DEF ReadOld, AnswerSame, ReadRenamed, ReadOldMeta, KeepOld, ScheduleOld, Schedule,
        StatMove, Transfer, RemoveSource, StatOldMeta, RemoveOldMeta, StatBackupMeta
  <2>2. QED BY <2>1
<1>2. CASE CheckMetaExist(w) \/ WriteBackupMeta(w)
  BY <1>e, <1>f, <1>g, <1>h, <1>2 DEF CheckMetaExist, WriteBackupMeta
<1>3. CASE CheckExist(w) \/ ScheduleNew(w) \/ StatData(w) \/ WriteData(w) \/ StatMeta(w)
  BY <1>c, <1>e, <1>h, <1>3 DEF CheckExist, ScheduleNew, Schedule, StatData, WriteData,
     StatMeta
<1>4. CASE \/ WriteMeta(w) \/ StatRollback(w) \/ Rollback(w) \/ StatDelete(w)
           \/ Delete(w) \/ StatDeleteMeta(w) \/ DeleteMeta(w)
           \/ GetData(w) \/ GetMeta(w) \/ List(w) \/ ListMeta(w)
  <2>1. FALSE
    BY <1>b, <1>c, <1>d, <1>e, <1>g, <1>4
    DEF WriteMeta, StatRollback, Rollback, StatDelete, Delete, StatDeleteMeta, DeleteMeta,
        GetData, GetMeta, List, ListMeta
  <2>2. QED BY <2>1
<1>5. QED BY <1>1, <1>2, <1>3, <1>4 DEF WorkerStep
(* The consumer comes past the metadata of a file only if there is some.    *)
LEMMA ConsumerMoves ==
  ASSUME TypeOK, [Next]_vars, cpc' \in DueConsumerPc \ {"readMeta", "ack"}
  PROVE  /\ held' = held
         /\ \/ cpc \in DueConsumerPc \ {"readMeta", "ack"}
            \/ /\ cpc = "readMeta" /\ meta[held.name] # None
               /\ UNCHANGED workerVars
<1> USE DEF DueConsumerPc
<1>1. CASE ConsumerStep
  <2>1. CASE ReadMeta
    BY <2>1 DEF ReadMeta, Compare, Settle, ConsumerOnly, brokerVars
  <2>2. CASE ~ReadMeta
    BY <1>1, <2>2 DEF ConsumerStep, CheckDue, CheckExpiry, StatExpired, RemoveExpired,
       StatExpiredMeta, RemoveExpiredMeta, Acknowledge, Continue, Settle, brokerVars
  <2>3. QED BY <2>1, <2>2
<1>2. ASSUME NEW w \in Worker, WorkerStep(w) \/ (\E r \in Request : Submit(w, r))
      PROVE  UNCHANGED consumerVars /\ held' = held
  <2>1. CASE WorkerStep(w)
    <3>1. held' = held BY <2>1, WorkerBroker DEF brokerVars, Publish
    <3>2. UNCHANGED consumerVars
      BY <2>1
      DEF WorkerStep, OnlyWorkers, OnlyData, OnlyMeta, OnlyQueue, CheckExist, ReadOld,
          AnswerSame, ReadRenamed, ReadOldMeta, ScheduleOld, StatMove, Transfer,
          RemoveSource, CheckMetaExist, StatOldMeta, RemoveOldMeta, StatBackupMeta,
          WriteBackupMeta, Generate, ScheduleNew, StatData, WriteData, StatMeta,
          WriteMeta, StatRollback, Rollback, StatDelete, Delete, StatDeleteMeta,
          DeleteMeta, GetData, GetMeta, List, ListMeta
    <3>3. QED BY <3>1, <3>2
  <2>2. ASSUME NEW r \in Request, Submit(w, r)
        PROVE  UNCHANGED consumerVars /\ held' = held
    BY <2>2 DEF Submit, brokerVars
  <2>3. QED BY <1>2, <2>1, <2>2
<1>3. ASSUME NEW m \in Message, TakeDelivery(m) PROVE FALSE
  BY <1>3 DEF TakeDelivery
<1>4. CASE Restart BY <1>4 DEF Restart
<1>5. CASE Tick \/ LoseBroker \/ UNCHANGED vars
  BY <1>5 DEF Tick, LoseBroker, Disconnect, vars, consumerVars, brokerVars
<1>6. QED BY <1>1, <1>2, <1>3, <1>4, <1>5 DEF Next, consumerVars

(* A file that is being made stays where it is until its metadata is there. *)
LEMMA MadeStep ==
  ASSUME WriteOnce, Exclusive, Inv, Owned, Apart, MadeUndisturbed, [Next]_vars
  PROVE  MadeUndisturbed'
<1>a. TypeOK /\ ConsumerHoldsDue BY DEF Inv
<1>b. PICK given \in [Name -> Metadata \cup {None}] : Agree(given) BY DEF Owned
<1>c. /\ StoresAgree(given) /\ MessagesAgree(given)
      /\ \A w \in Worker : HandlerAgrees(given, w)
      /\ \A n \in Name : given[n] # None => n \in issued
  BY <1>b DEF Agree
<1>d. PICK next \in [Name -> Metadata \cup {None}] : Agree(next)'
  <2>1. Owned' BY <1>a, OwnedStep
  <2>2. QED BY <2>1 DEF Owned
<1>1. SUFFICES ASSUME NEW w \in Worker, pc'[w] \in MakingPc
               PROVE  /\ pc'[w] \in {"statMeta", "writeMeta"} =>
                           data'[job'[w].target] = job'[w].req.content
                      /\ cpc' \in DueConsumerPc \ {"readMeta", "ack"} =>
                           job'[w].target # held'.name
  BY PlaceSets DEF MadeUndisturbed
<1>e. "idle" \notin MakingPc BY PlaceSets
<1>2. \/ Generate(w) \/ (\E r \in Request : Submit(w, r))
      \/ pc[w] \in MakingPc /\ job'[w] = job[w]
  <2>1. CASE WorkerStep(w) BY <1>a, <1>c, <1>1, <2>1, MakingMoves
  <2>2. ASSUME NEW v \in Worker, v # w, WorkerStep(v) PROVE pc'[w] = pc[w] /\ job'[w] = job[w]
    BY <1>a, <2>2, OthersAlone
  <2>3. ASSUME NEW v \in Worker, v # w, NEW r \in Request, Submit(v, r)
        PROVE  pc'[w] = pc[w] /\ job'[w] = job[w]
    BY <1>a, <2>3, Submitted
  <2>4. ~Restart BY <1>1, <1>e DEF Restart
  <2>5. ASSUME \/ ConsumerStep \/ (\E m \in Message : TakeDelivery(m)) \/ Tick \/ LoseBroker
               \/ UNCHANGED vars
        PROVE  pc'[w] = pc[w] /\ job'[w] = job[w]
    BY <1>a, <2>4, <2>5, OtherSteps DEF workerVars
  <2>6. QED BY <1>1, <2>1, <2>2, <2>3, <2>4, <2>5 DEF Next
<1>3. ASSUME cpc' \in DueConsumerPc \ {"readMeta", "ack"} PROVE job'[w].target # held'.name
  <2>1. /\ held' = held
        /\ \/ cpc \in DueConsumerPc \ {"readMeta", "ack"}
           \/ cpc = "readMeta" /\ meta[held.name] # None /\ UNCHANGED workerVars
    BY <1>a, <1>3, ConsumerMoves
  <2>2. held \in Message /\ held.name \in Name
    BY <1>a, <2>1 DEF ConsumerHoldsDue, DueConsumerPc, TypeOK, BrokerOK, Message
  <2>3. held.name \in issued BY <1>c, <2>2 DEF MessagesAgree
  <2>4. CASE Generate(w)
    <3>1. PICK g : g \notin issued /\ job' = [job EXCEPT ![w].target = g,
                     ![w].new.expiredAt = Expiry("generate", job[w].req.duration)]
      BY <2>4 DEF Generate
    <3>2. job[w] \in Job /\ w \in DOMAIN job
      BY <1>a, <2>4, JobFacts DEF Generate, TypeOK, WorkersOK
    <3>3. job'[w].target = g BY <3>1, <3>2 DEF Job
    <3>4. QED BY <2>1, <2>3, <3>1, <3>3
  <2>5. ASSUME NEW r \in Request, Submit(w, r) PROVE job'[w].target # held'.name
    <3>1. /\ job'[w].target = r.name /\ pc'[w] = FirstStep(r.op) /\ r.op \in Operation
          /\ Targets(r) \cap issued = {}
      BY <1>a, <2>5, Submitted
    <3>2. r.op = "upload" BY <1>1, <3>1, PlaceSets DEF FirstStep, Operation
    <3>3. QED BY <2>1, <2>3, <3>1, <3>2 DEF Targets
  <2>6. CASE pc[w] \in MakingPc /\ job'[w] = job[w]
    <3>1. CASE cpc \in DueConsumerPc \ {"readMeta", "ack"}
      BY <2>1, <2>6, <3>1 DEF MadeUndisturbed
    <3>2. CASE meta[held.name] # None
      <4>1. meta[job[w].target] = None
        BY <1>c, <1>e, <2>6 DEF HandlerAgrees, MakerAgrees
      <4>2. QED BY <2>1, <2>6, <3>2, <4>1
    <3>3. QED BY <2>1, <3>1, <3>2
  <2>7. QED BY <1>2, <2>4, <2>5, <2>6
<1>4. ASSUME pc'[w] \in {"statMeta", "writeMeta"}
      PROVE  data'[job'[w].target] = job'[w].req.content
  <2>1. pc[w] \in MakingPc /\ job'[w] = job[w]
    <3>1. ~Generate(w) BY <1>a, <1>4 DEF Generate, Goto, TypeOK, WorkersOK
    <3>2. ASSUME NEW r \in Request, Submit(w, r) PROVE FALSE
      <4>1. pc'[w] = FirstStep(r.op) /\ r.op \in Operation BY <1>a, <3>2, Submitted
      <4>2. QED BY <1>4, <4>1 DEF FirstStep, Operation
    <3>3. QED BY <1>2, <3>1, <3>2
  <2>2. pc[w] # "idle" /\ job[w].target \in Name /\ job[w].req.content \in Content
    BY <1>a, <1>e, <2>1, JobFacts
  <2>3. PICK t : t = job[w].target OBVIOUS
  <2>4. data'[t] # None
    <3>1. CASE pc[w] \in {"statMeta", "writeMeta"}
      <4>1. data[t] # None
        BY <2>2, <2>3, <3>1, NoneAssumption DEF MadeUndisturbed
      <4>2. Changing(w) /\ t \in NamesOf(w)
        <5>1. job[w].req.op \in {"upload", "generate"}
          BY <1>a, <1>c, <2>1, <2>2, AtWork, PlaceTells
        <5>2. QED BY <2>2, <2>3, <5>1 DEF Changing, Reads, NamesOf
      <4>3. ~(t = held.name /\ cpc = "removeData")
        BY <2>1, <2>3 DEF MadeUndisturbed, DueConsumerPc
      <4>4. ASSUME NEW u \in Worker, t = job[u].req.name,
                   pc[u] \in {"transfer", "removeSource", "removeOldMeta", "delete",
                              "deleteMeta"}
            PROVE  FALSE
        <5>1. u # w /\ pc[u] # "idle"
              /\ (pc[u] \in MovingPc \/ pc[u] \in {"delete", "deleteMeta"})
          BY <3>1, <4>4, PlaceSets
        <5>2. job[u].req.op \in {"rename", "delete"}
          BY <1>a, <1>c, <5>1, AtWork, PlaceTells
        <5>3. Changing(u) /\ t \in NamesOf(u)
          BY <4>4, <5>1, <5>2 DEF Changing, Reads, NamesOf
        <5>4. QED BY <4>2, <5>1, <5>3 DEF Apart
      <4>5. ASSUME NEW u \in Worker PROVE ~Rollback(u)
        BY <1>a, <1>c, AtWork, PlaceTells DEF Rollback
      <4>6. QED BY <1>a, <2>2, <2>3, <4>1, <4>3, <4>4, <4>5, RemovingMoves
    <3>2. CASE pc[w] \notin {"statMeta", "writeMeta"}
      <4>1. WorkerStep(w)
        <5>1. pc'[w] # pc[w] BY <1>4, <3>2
        <5>2. ~Restart BY <1>1, <1>e DEF Restart
        <5>3. ASSUME NEW r \in Request PROVE ~Submit(w, r) BY <2>2 DEF Submit
        <5>4. \A v \in Worker : v # w /\ (WorkerStep(v) \/ \E r \in Request : Submit(v, r))
                => pc'[w] = pc[w]
          BY <1>a, OthersAlone, Submitted
        <5>5. QED BY <1>a, <5>1, <5>2, <5>3, <5>4, OtherSteps DEF Next, workerVars
      <4>2. pc[w] \in {"exist", "schedule", "statData", "writeData"}
        BY <2>1, <3>2, PlaceSets
      <4>3. CheckExist(w) \/ ScheduleNew(w) \/ StatData(w) \/ WriteData(w)
        BY <4>1, <4>2
        DEF WorkerStep, CheckExist, ReadOld, AnswerSame, ReadRenamed, ReadOldMeta,
            ScheduleOld, StatMove, Transfer, RemoveSource, CheckMetaExist, StatOldMeta,
            RemoveOldMeta, StatBackupMeta, WriteBackupMeta, Generate, StatMeta, WriteMeta,
            StatRollback, Rollback, StatDelete, Delete, StatDeleteMeta, DeleteMeta,
            GetData, GetMeta, List, ListMeta
      <4>4. w \in DOMAIN pc BY <1>a DEF TypeOK, WorkersOK
      <4>5. WriteData(w)
        BY <1>4, <4>3, <4>4 DEF CheckExist, ScheduleNew, Schedule, StatData, Proceed, Goto,
           WriteNew, Fail, Finish
      <4>6. QED
        BY <1>a, <2>2, <2>3, <4>5, NoneAssumption DEF WriteData, Created, TypeOK, StoreOK
    <3>3. QED BY <3>1, <3>2
  <2>5. next[t] = job'[w].new /\ job'[w].new.sha1 = job'[w].req.content
    <3>1. HandlerAgrees(next, w)' BY <1>d DEF Agree
    <3>2. QED BY <1>1, <1>e, <2>1, <2>3, <3>1 DEF HandlerAgrees, MakerAgrees
  <2>6. data'[t] = next[t].sha1
    BY <1>d, <2>2, <2>3, <2>4 DEF Agree, StoresAgree
  <2>7. QED BY <2>1, <2>3, <2>5, <2>6
<1>5. QED BY <1>3, <1>4
(* The places from which a handler answers that it has done its work.       *)
LEMMA AnsweringSteps ==
  ASSUME TypeOK, NEW w \in Worker, WorkerStep(w),
         reply'[w] # reply[w], reply'[w].status = "ok"
  PROVE  \/ WriteMeta(w)
         \/ pc[w] \in {"sameMeta", "metaExist", "writeBackupMeta", "deleteMeta", "getMeta",
                       "listMeta"}
<1>a. w \in DOMAIN reply BY DEF TypeOK, WorkersOK
<1>b. Fail(w) \/ Panic(w) => reply'[w].status # "ok"
  BY <1>a DEF Fail, Panic, Finish, Answer
<1>c. \A label : ~Goto(w, label) BY DEF Goto
<1>d. \A label : ~Proceed(w, label) BY <1>c DEF Proceed
<1>1. CASE \/ CheckExist(w) \/ ReadOld(w) \/ ReadRenamed(w) \/ ReadOldMeta(w)
           \/ ScheduleOld(w) \/ StatMove(w) \/ Transfer(w) \/ RemoveSource(w)
           \/ StatOldMeta(w) \/ RemoveOldMeta(w) \/ StatBackupMeta(w)
  BY <1>b, <1>c, <1>d, <1>1
  DEF CheckExist, ReadOld, ReadRenamed, ReadOldMeta, KeepOld, ScheduleOld, Schedule,
      StatMove, Transfer, RemoveSource, StatOldMeta, RemoveOldMeta, StatBackupMeta
<1>2. CASE AnswerSame(w) \/ CheckMetaExist(w) \/ WriteBackupMeta(w) \/ DeleteMeta(w)
           \/ GetMeta(w) \/ ListMeta(w)
  BY <1>2 DEF AnswerSame, CheckMetaExist, WriteBackupMeta, DeleteMeta, GetMeta, ListMeta
<1>3. CASE \/ Generate(w) \/ ScheduleNew(w) \/ StatData(w) \/ WriteData(w)
           \/ StatMeta(w) \/ StatRollback(w) \/ Rollback(w) \/ StatDelete(w)
           \/ Delete(w) \/ StatDeleteMeta(w) \/ GetData(w) \/ List(w)
  BY <1>b, <1>c, <1>d, <1>3
  DEF Generate, ScheduleNew, Schedule, StatData, WriteData, StatMeta, StatRollback,
      Rollback, StatDelete, Delete, StatDeleteMeta, GetData, List
<1>4. QED BY <1>1, <1>2, <1>3 DEF WorkerStep

(* When an upload is answered its file is complete.                         *)
LEMMA AcknowledgeStep ==
  ASSUME Inv, Owned, MadeUndisturbed, [Next]_vars,
         NEW w \in Worker, Answers(w, {"upload", "generate"}),
         NEW n \in Name, job[w].target = n
  PROVE  Visible(n)'
<1>a. TypeOK BY DEF Inv
<1>b. PICK given \in [Name -> Metadata \cup {None}] : Agree(given) BY DEF Owned
<1>c. HandlerAgrees(given, w) BY <1>b DEF Agree
<1>d. /\ pc[w] # "idle" /\ job[w].req.op \in {"upload", "generate"}
      /\ reply'[w].status = "ok" /\ reply[w] = NoReply
  BY <1>c DEF Answers, HandlerAgrees
<1>1. reply'[w] # reply[w] BY <1>d DEF NoReply, Answer
<1>2. WorkerStep(w)
  <2>1. ~Restart BY <1>d DEF Restart, Answer
  <2>2. ASSUME NEW r \in Request PROVE ~Submit(w, r) BY <1>d DEF Submit
  <2>3. \A v \in Worker : v # w /\ (WorkerStep(v) \/ \E r \in Request : Submit(v, r))
          => reply'[w] = reply[w]
    BY <1>a, OthersAlone, Submitted
  <2>4. QED BY <1>a, <1>1, <2>1, <2>2, <2>3, OtherSteps DEF Next, workerVars
<1>3. WriteMeta(w)
  <2>1. pc[w] \notin {"sameMeta", "metaExist", "writeBackupMeta", "deleteMeta", "getMeta",
                      "listMeta"}
    <3>1. {"metaExist", "writeBackupMeta"} \subseteq MovingPc BY PlaceSets
    <3>2. QED BY <1>a, <1>c, <1>d, <3>1, AtWork, PlaceTells
  <2>2. QED BY <1>a, <1>d, <1>1, <1>2, <2>1, AnsweringSteps
<1>4. /\ job[w].new # None /\ job[w].req.content # None
      /\ job[w].new.sha1 = job[w].req.content
  BY <1>a, <1>c, <1>d, JobFacts, NoneAssumption DEF HandlerAgrees
<1>5. data[n] = job[w].req.content BY <1>3 DEF MadeUndisturbed, WriteMeta
<1>6. data' = data /\ meta'[n] = job[w].new
  BY <1>a, <1>3 DEF WriteMeta, OnlyMeta, Created, TypeOK, StoreOK
<1>7. QED BY <1>4, <1>5, <1>6 DEF Visible

(* Clients that change a name one request at a time: no two changes that    *)
(* are going on work with the same name.                                    *)
THEOREM AlwaysApart ==
  ASSUME Exclusive
  PROVE  Spec => []Apart
<1>1. Init => Apart BY DEF Init, Apart, Changing
<1>2. Inv /\ Apart /\ [Next]_vars => Apart' BY ApartStep DEF Inv
<1>3. QED BY <1>1, <1>2, InvAlways, PTL DEF Spec

(* If they never reuse a name either, the bytes a request has written stay  *)
(* where they are until it is answered, whatever expires meanwhile.         *)
THEOREM AlwaysUndisturbed ==
  ASSUME WriteOnce, Exclusive
  PROVE  Spec => []MadeUndisturbed
<1>1. Init => MadeUndisturbed BY PlaceSets DEF Init, MadeUndisturbed
<1>2. Inv /\ Owned /\ Apart /\ MadeUndisturbed /\ [Next]_vars => MadeUndisturbed'
  BY MadeStep
<1>3. QED BY <1>1, <1>2, InvAlways, AlwaysOwned, AlwaysApart, PTL DEF Spec

(* So an acknowledged upload has stored its file: the bytes are there, with *)
(* the metadata that describes them.                                        *)
THEOREM AlwaysAcknowledgedVisible ==
  ASSUME WriteOnce, Exclusive
  PROVE  Spec => AcknowledgedVisible
<1>1. Inv /\ Owned /\ MadeUndisturbed /\ [Next]_vars =>
        [\A w \in Worker :
           \A n \in Name :
             Answers(w, {"upload", "generate"}) /\ job[w].target = n => Visible(n)']_vars
  BY AcknowledgeStep
<1>2. QED
  BY <1>1, InvAlways, AlwaysOwned, AlwaysUndisturbed, PTL DEF Spec, AcknowledgedVisible
=============================================================================
