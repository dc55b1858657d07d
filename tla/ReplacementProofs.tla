-------------------------- MODULE ReplacementProofs --------------------------
(***************************************************************************)
(* Theorems about FileHosting for clients that use names again with care,   *)
(* in a process that does not die, for every value of the constants.        *)
(*                                                                         *)
(* Whole is inductive beside Inv and Apart.  A handler changes and          *)
(* announces only the names it uses, and no other handler uses these; the   *)
(* consumer changes only a name whose deadline has passed, and the names in *)
(* use have theirs ahead.                                                   *)
(***************************************************************************)
EXTENDS Replacement, OwnershipProofs

-----------------------------------------------------------------------------
(* Places.                                                                  *)

(* The places of each operation.                                            *)
LEMMA StepSets ==
  /\ StepsOf("upload") = {"exist", "readOld", "sameMeta", "readOldMeta"} \cup Moving \cup Making
  /\ StepsOf("generate") = {"generate"} \cup Making
  /\ StepsOf("rename") = {"readRenamed", "readOldMeta"} \cup Moving
  /\ StepsOf("delete") = Deleting
  /\ \A op \in Reads : StepsOf(op) = {"getData", "getMeta", "list", "listMeta"}
  /\ Making = {"schedule", "statData", "writeData", "statMeta", "writeMeta"}
  /\ Moving = {"scheduleOld", "statMove", "transfer", "removeSource", "metaExist",
               "statOldMeta", "removeOldMeta", "statBackupMeta", "writeBackupMeta"}
  /\ Deleting = {"statDelete", "delete", "statDeleteMeta", "deleteMeta"}
  BY DEF StepsOf, Reads, Making, Moving, Deleting, WritingPc, RelocationPc

(* Which operation a place belongs to.                                      *)
LEMMA StepTells ==
  ASSUME NEW op \in Operation, NEW place \in StepsOf(op)
  PROVE  /\ place \in {"exist", "readOld", "sameMeta"} => op = "upload"
         /\ place \in {"readOldMeta"} \cup Moving => op \in {"upload", "rename"}
         /\ place \in Making => op \in {"upload", "generate"}
         /\ place = "generate" => op = "generate"
         /\ place = "readRenamed" => op = "rename"
         /\ place \in Deleting => op = "delete"
         /\ place \in {"getData", "getMeta", "list", "listMeta"} => op \in Reads
         /\ place \notin {"statRollback", "rollback", "idle"}
<1> USE StepSets
<1>1. CASE op = "upload" BY <1>1
<1>2. CASE op = "generate" BY <1>2
<1>3. CASE op = "rename" BY <1>3
<1>4. CASE op = "delete" BY <1>4
<1>5. CASE op \in Reads BY <1>5
<1>6. QED BY <1>1, <1>2, <1>3, <1>4, <1>5 DEF Operation, Reads

(* A careful handler at work, and what it is at.                            *)
LEMMA CarefulFacts ==
  ASSUME TypeOK, NEW w \in Worker, pc[w] # "idle", HandlerCareful(w)
  PROVE  /\ job[w] \in Job /\ job[w].req \in RequestType
         /\ job[w].req.op \in Operation /\ pc[w] \in StepsOf(job[w].req.op)
         /\ job[w].req.name \in Name /\ job[w].req.newName \in Name
         /\ job[w].req.content \in Content
         /\ job[w].target \in Name /\ job[w].moveTo \in Name
         /\ job[w].new \in Metadata /\ job[w].old \in Metadata \cup {None}
         /\ Gives(w) \subseteq Uses(w) /\ Uses(w) \subseteq Name
         /\ Uses(w) \subseteq NamesOf(w)
         /\ w \in DOMAIN pc /\ w \in DOMAIN job /\ w \in DOMAIN reply
<1>1. job[w].req \in RequestType BY JobFacts
<1>2. job[w].req.op \in Operation BY <1>1 DEF RequestType
<1>3. w \in DOMAIN pc /\ w \in DOMAIN job /\ w \in DOMAIN reply
  BY DEF TypeOK, WorkersOK
<1>4. job[w] \in Job /\ job[w].old \in Metadata \cup {None} BY JobFacts DEF Job
<1>5. Gives(w) \subseteq Uses(w) /\ Uses(w) \subseteq NamesOf(w)
  BY DEF Gives, Uses, NamesOf
<1>6. NamesOf(w) \subseteq Name BY JobFacts DEF NamesOf
<1>7. QED BY <1>1, <1>2, <1>3, <1>4, <1>5, <1>6, JobFacts DEF HandlerCareful, Placed

(* Who uses what: an upload or a generation its target, a handler that      *)
(* moves or has moved a file the place it moves it to, and all but          *)
(* generations the name of the request.                                     *)
LEMMA UsedNames ==
  ASSUME TypeOK, NEW w \in Worker, pc[w] # "idle", HandlerCareful(w)
  PROVE  /\ pc[w] \in Making => job[w].target \in Gives(w)
         /\ pc[w] \in Moving => job[w].moveTo \in Gives(w) /\ job[w].req.name \in Uses(w)
         /\ pc[w] \in Deleting => job[w].req.name \in Uses(w)
         /\ job[w].old # None => job[w].moveTo \in Gives(w)
         /\ pc[w] \in {"getData", "getMeta", "list", "listMeta"} => Uses(w) = {}
         /\ pc[w] = "generate" => Uses(w) = {}
<1>1. job[w].req.op \in Operation /\ pc[w] \in StepsOf(job[w].req.op)
  BY CarefulFacts
<1>2. Placed(w) BY DEF HandlerCareful
<1>3. pc[w] \in Making => job[w].target \in Gives(w)
  BY <1>1, StepTells, StepSets DEF Gives
<1>4. pc[w] \in Moving => job[w].moveTo \in Gives(w) /\ job[w].req.name \in Uses(w)
  BY <1>1, <1>2, StepTells, StepSets DEF Gives, Uses, Placed
<1>5. pc[w] \in Deleting => job[w].req.name \in Uses(w)
  BY <1>1, StepTells DEF Uses
<1>6. job[w].old # None => job[w].moveTo \in Gives(w) BY DEF Gives
<1>7. pc[w] \in {"getData", "getMeta", "list", "listMeta"} => Uses(w) = {}
  BY <1>1, <1>2, StepTells, StepSets DEF Uses, Gives, Placed, Reads
<1>8. pc[w] = "generate" => Uses(w) = {}
  BY <1>1, <1>2, StepTells, StepSets DEF Uses, Gives, Placed
<1>9. QED BY <1>3, <1>4, <1>5, <1>6, <1>7, <1>8
-----------------------------------------------------------------------------
(* What one handler does to the rest.                                       *)

(* A handler puts something only under names it gives, and changes only     *)
(* what is stored under names it uses.                                      *)
LEMMA HandlerChanges ==
  ASSUME TypeOK, NEW w \in Worker, WorkerStep(w), HandlerCareful(w), NEW n \in Name
  PROVE  /\ n \in Gives(w) \/ (data'[n] \in {data[n], None} /\ meta'[n] \in {meta[n], None})
         /\ n \in Uses(w) \/ (data'[n] = data[n] /\ meta'[n] = meta[n])
<1>a. pc[w] # "idle"
  BY DEF WorkerStep, CheckExist, ReadOld, AnswerSame, ReadRenamed, ReadOldMeta,
     ScheduleOld, StatMove, Transfer, RemoveSource, CheckMetaExist, StatOldMeta,
     RemoveOldMeta, StatBackupMeta, WriteBackupMeta, Generate, ScheduleNew, StatData,
     WriteData, StatMeta, WriteMeta, StatRollback, Rollback, StatDelete, Delete,
     StatDeleteMeta, DeleteMeta, GetData, GetMeta, List, ListMeta
<1>b. data \in [Name -> Content \cup {None}] /\ meta \in [Name -> Metadata \cup {None}]
  BY DEF TypeOK, StoreOK
<1>c. Gives(w) \subseteq Uses(w) BY <1>a, CarefulFacts
<1>1. CASE \/ CheckExist(w) \/ ReadOld(w) \/ AnswerSame(w) \/ ReadRenamed(w)
           \/ ReadOldMeta(w) \/ ScheduleOld(w) \/ StatMove(w) \/ CheckMetaExist(w)
           \/ StatOldMeta(w) \/ StatBackupMeta(w) \/ Generate(w) \/ ScheduleNew(w)
           \/ StatData(w) \/ StatMeta(w) \/ StatRollback(w) \/ StatDelete(w)
           \/ StatDeleteMeta(w) \/ GetData(w) \/ GetMeta(w) \/ List(w) \/ ListMeta(w)
  <2>1. UNCHANGED store
    BY <1>1
    DEF CheckExist, ReadOld, AnswerSame, ReadRenamed, ReadOldMeta, ScheduleOld, StatMove,
        CheckMetaExist, StatOldMeta, StatBackupMeta, Generate, ScheduleNew, StatData,
        StatMeta, StatRollback, StatDelete, StatDeleteMeta, GetData, GetMeta, List,
        ListMeta, OnlyWorkers, OnlyQueue
  <2>2. QED BY <2>1 DEF store
<1>2. CASE Transfer(w)
  <2>1. meta' = meta /\ data' \in {data, Transferred(data, job[w].req.name, job[w].moveTo)}
    BY <1>2 DEF Transfer, OnlyData
  <2>2. job[w].moveTo \in Gives(w) /\ job[w].req.name \in Uses(w)
    BY <1>2, <1>a, UsedNames, StepSets DEF Transfer
  <2>3. n # job[w].moveTo => data'[n] \in {data[n], None}
    BY <1>b, <2>1 DEF Transferred
  <2>4. n # job[w].moveTo /\ n # job[w].req.name => data'[n] = data[n]
    BY <1>b, <2>1 DEF Transferred
  <2>5. QED BY <1>c, <2>1, <2>2, <2>3, <2>4
<1>3. CASE RemoveSource(w) \/ RemoveOldMeta(w) \/ Delete(w) \/ DeleteMeta(w)
  <2>1. /\ data' \in {data, Removed(data, job[w].req.name)}
        /\ meta' \in {meta, Removed(meta, job[w].req.name)}
    BY <1>3 DEF RemoveSource, RemoveOldMeta, Delete, DeleteMeta, OnlyData, OnlyMeta
  <2>2. job[w].req.name \in Uses(w)
    BY <1>3, <1>a, UsedNames, StepSets DEF RemoveSource, RemoveOldMeta, Delete, DeleteMeta
  <2>3. /\ data'[n] \in {data[n], None} /\ meta'[n] \in {meta[n], None}
        /\ n # job[w].req.name => data'[n] = data[n] /\ meta'[n] = meta[n]
    BY <1>b, <2>1 DEF Removed
  <2>4. QED BY <2>2, <2>3
<1>4. CASE WriteBackupMeta(w)
  <2>1. data' = data /\ meta' = Created(meta, job[w].moveTo, job[w].old)
    BY <1>4 DEF WriteBackupMeta, OnlyMeta
  <2>2. job[w].moveTo \in Gives(w)
    BY <1>4, <1>a, UsedNames, StepSets DEF WriteBackupMeta
  <2>3. QED BY <1>b, <1>c, <2>1, <2>2 DEF Created
<1>5. CASE WriteData(w) \/ WriteMeta(w)
  <2>1. /\ data' \in {data, Created(data, job[w].target, job[w].req.content)}
        /\ meta' \in {meta, Created(meta, job[w].target, job[w].new)}
    BY <1>5 DEF WriteData, WriteMeta, OnlyData, OnlyMeta
  <2>2. job[w].target \in Gives(w)
    BY <1>5, <1>a, UsedNames, StepSets DEF WriteData, WriteMeta
  <2>3. n # job[w].target => data'[n] = data[n] /\ meta'[n] = meta[n]
    BY <1>b, <2>1 DEF Created
  <2>4. QED BY <1>c, <2>2, <2>3
<1>6. CASE Rollback(w)
  <2>1. pc[w] # "rollback" BY <1>a, CarefulFacts, StepTells
  <2>2. QED BY <1>6, <2>1 DEF Rollback
<1>7. QED BY <1>1, <1>2, <1>3, <1>4, <1>5, <1>6 DEF WorkerStep

(* Only a handler at work takes a step, and it leaves the consumer, the     *)
(* clock and the names issued before alone.                                 *)
LEMMA HandlerLeaves ==
  ASSUME TypeOK, NEW w \in Worker, WorkerStep(w)
  PROVE  /\ pc[w] # "idle" /\ UNCHANGED consumerVars /\ now' = now
         /\ issued \subseteq issued' /\ held' = held
<1>1. held' = held BY WorkerBroker DEF brokerVars, Publish
<1>2. QED
  BY <1>1
  DEF WorkerStep, CheckExist, ReadOld, AnswerSame, ReadRenamed, ReadOldMeta,
     ScheduleOld, StatMove, Transfer, RemoveSource, CheckMetaExist, StatOldMeta,
     RemoveOldMeta, StatBackupMeta, WriteBackupMeta, Generate, ScheduleNew, StatData,
     WriteData, StatMeta, WriteMeta, StatRollback, Rollback, StatDelete, Delete,
     StatDeleteMeta, DeleteMeta, GetData, GetMeta, List, ListMeta,
     OnlyWorkers, OnlyData, OnlyMeta, OnlyQueue, environment

(* It announces the file it is about to make, or the one it is about to     *)
(* move, under its new name.                                                *)
LEMMA HandlerAnnounces ==
  ASSUME TypeOK, NEW w \in Worker, WorkerStep(w)
  PROVE  \/ UNCHANGED brokerVars
         \/ /\ ScheduleOld(w) /\ job[w].moveTo \in Name /\ job[w].old \in Metadata
            /\ Publish(DeletionOf(job[w].moveTo, job[w].old))
         \/ /\ ScheduleNew(w) /\ job[w].target \in Name /\ job[w].new \in Metadata
            /\ Publish(DeletionOf(job[w].target, job[w].new))
<1>1. CASE ScheduleOld(w) \/ ScheduleNew(w)
  <2>1. /\ pc[w] # "idle" /\ job[w].moveTo \in Name /\ job[w].target \in Name
        /\ job[w].new \in Metadata
    BY HandlerLeaves, JobFacts
  <2>2. ScheduleOld(w) => job[w].old \in Metadata
    BY DEF ScheduleOld, TypeOK, WorkersOK
  <2>3. QED BY <1>1, <2>1, <2>2 DEF ScheduleOld, ScheduleNew, Schedule
<1>2. CASE ~ScheduleOld(w) /\ ~ScheduleNew(w)
  BY <1>2
  DEF WorkerStep, CheckExist, ReadOld, AnswerSame, ReadRenamed, ReadOldMeta, StatMove,
     Transfer, RemoveSource, CheckMetaExist, StatOldMeta, RemoveOldMeta, StatBackupMeta,
     WriteBackupMeta, Generate, StatData, WriteData, StatMeta, WriteMeta, StatRollback,
     Rollback, StatDelete, Delete, StatDeleteMeta, DeleteMeta, GetData, GetMeta, List,
     ListMeta, OnlyWorkers, OnlyData, OnlyMeta
<1>3. QED BY <1>1, <1>2

(* So what becomes pending is about a name it gives, and finds empty.       *)
LEMMA HandlerPending ==
  ASSUME TypeOK, NEW w \in Worker, WorkerStep(w), HandlerCareful(w),
         NEW m \in Message, Pending(m)'
  PROVE  \/ Pending(m)
         \/ /\ m.name \in Gives(w) /\ Empty(m.name) /\ m.expiredAt # Never
            /\ UNCHANGED store
<1>1. CASE UNCHANGED brokerVars BY <1>1 DEF brokerVars, Pending
<1>2. ASSUME NEW x \in Message, Publish(x), m # x PROVE Pending(m)
  BY <1>2 DEF Publish, Pending, TypeOK, BrokerOK
<1>3. CASE /\ ScheduleOld(w) /\ job[w].moveTo \in Name /\ job[w].old \in Metadata
           /\ Publish(DeletionOf(job[w].moveTo, job[w].old))
  <2>1. DeletionOf(job[w].moveTo, job[w].old) \in Message BY <1>3, DeletionType
  <2>2. job[w].moveTo \in Gives(w)
    BY <1>3, HandlerLeaves, UsedNames, StepSets DEF ScheduleOld
  <2>3. Empty(job[w].moveTo) /\ job[w].old.expiredAt # Never
    BY <1>3, HandlerLeaves DEF ScheduleOld, HandlerCareful, Placed, Stands
  <2>4. QED BY <1>2, <1>3, <2>1, <2>2, <2>3 DEF DeletionOf, ScheduleOld, OnlyQueue
<1>4. CASE /\ ScheduleNew(w) /\ job[w].target \in Name /\ job[w].new \in Metadata
           /\ Publish(DeletionOf(job[w].target, job[w].new))
  <2>1. DeletionOf(job[w].target, job[w].new) \in Message BY <1>4, DeletionType
  <2>2. job[w].target \in Gives(w)
    BY <1>4, HandlerLeaves, UsedNames, StepSets DEF ScheduleNew
  <2>3. Empty(job[w].target) /\ job[w].new.expiredAt # Never
    BY <1>4, HandlerLeaves DEF ScheduleNew, HandlerCareful, Placed, Stands
  <2>4. QED BY <1>2, <1>4, <2>1, <2>2, <2>3 DEF DeletionOf, ScheduleNew, OnlyQueue
<1>5. QED BY <1>1, <1>3, <1>4, HandlerAnnounces

(* A message stays pending unless the consumer forgets it.                  *)
LEMMA PendingUnlessForgotten ==
  ASSUME TypeOK, [Next]_vars, NEW m \in Message, Pending(m)
  PROVE  Pending(m)' \/ (Forget /\ held = m /\ cpc \in {"readMeta", "ack"})
<1>1. queue \in [Message -> Nat] BY DEF TypeOK, BrokerOK
<1>2. CASE UNCHANGED brokerVars BY <1>2 DEF brokerVars, Pending
<1>3. CASE \E x \in Message : Publish(x) BY <1>1, <1>3 DEF Publish, Pending
<1>4. CASE \E x \in Message : Deliver(x)
  BY <1>1, <1>4, NoneAssumption DEF Deliver, Pending
<1>5. CASE Requeue \/ Disconnect \/ Reconnect
  BY <1>1, <1>5, TakenBackType, NoneAssumption
  DEF Requeue, Disconnect, Reconnect, TakenBack, Pending, TypeOK, BrokerOK
<1>6. CASE Forget /\ cpc \in {"readMeta", "ack"}
  BY <1>1, <1>6 DEF Forget, Pending
<1>7. QED BY <1>2, <1>3, <1>4, <1>5, <1>6, BrokerSteps
-----------------------------------------------------------------------------
(* What keeps a handler careful.                                            *)

(* A handler that does not move, while nobody touches or announces what it  *)
(* uses.                                                                    *)
LEMMA StaysCareful ==
  ASSUME TypeOK, NEW v \in Worker, HandlerCareful(v),
         pc'[v] = pc[v], job'[v] = job[v], now' = now, issued \subseteq issued',
         \A n \in Uses(v) : data'[n] = data[n] /\ meta'[n] = meta[n],
         \A m \in Message : Pending(m)' => Pending(m) \/ m.name \notin Uses(v)
  PROVE  HandlerCareful(v)' /\ Uses(v)' = Uses(v)
<1>1. Uses(v)' = Uses(v) /\ Gives(v)' = Gives(v) BY DEF Uses, Gives
<1>2. CASE pc[v] = "idle" BY <1>1, <1>2 DEF HandlerCareful
<1>3. CASE pc[v] # "idle"
  <2>a. /\ job[v].req.op \in Operation /\ pc[v] \in StepsOf(job[v].req.op)
        /\ Gives(v) \subseteq Uses(v)
    BY <1>3, CarefulFacts
  <2>b. Placed(v) /\ InTime(v) /\ Stands(v) /\ Heard(v) BY <1>3 DEF HandlerCareful
  <2>1. Placed(v)' BY <1>1, <2>b DEF Placed
  <2>2. InTime(v)'
    <3>1. job[v].req.op \in {"upload", "rename", "delete"} => job[v].req.name \in Uses(v)
      BY DEF Uses
    <3>2. QED BY <2>b, <3>1 DEF InTime, Alive, Due
  <2>3. Kept(v) => Kept(v)' BY <2>a, UsedNames, <1>3 DEF Kept
  <2>4. Stands(v)'
    <3>1. pc[v] \in {"exist", "readOld", "sameMeta", "readOldMeta", "readRenamed"} \cup
            Moving \cup Deleting => job[v].req.name \in Uses(v)
      BY <2>a, StepTells DEF Uses
    <3>2. pc[v] \in Moving \/ job[v].req.op = "rename" => job[v].moveTo \in Uses(v)
      BY <2>a, <1>3, UsedNames DEF Gives
    <3>3. pc[v] \in Making => job[v].target \in Uses(v) BY <2>a, <1>3, UsedNames
    <3>4. QED BY <2>b, <2>3, <3>1, <3>2, <3>3, StepSets DEF Stands, Visible, Empty
  <2>5. Heard(v)'
    <3>1. SUFFICES ASSUME NEW m \in Message, Pending(m)'
                   PROVE  /\ job[v].req.op \in {"upload", "generate"} /\ pc[v] # "generate"
                               /\ m.name = job[v].target /\ m.sha1 = job[v].req.content =>
                               m.expiredAt = job[v].new.expiredAt
                          /\ job[v].req.op = "rename" /\ m.name = job[v].moveTo =>
                               pc[v] \in Moving
                          /\ pc[v] \in Moving /\ m.name = job[v].moveTo =>
                               /\ m.sha1 = job[v].old.sha1
                               /\ m.expiredAt = job[v].old.expiredAt
      BY DEF Heard
    <3>2. CASE Pending(m) BY <2>b, <3>2 DEF Heard
    <3>3. CASE m.name \notin Uses(v)
      <4>1. job[v].req.op \in {"upload", "generate"} /\ pc[v] # "generate" =>
              job[v].target \in Uses(v)
        BY <2>a DEF Gives
      <4>2. pc[v] \in Moving \/ job[v].req.op = "rename" => job[v].moveTo \in Uses(v)
        BY <2>a, <1>3, UsedNames DEF Gives
      <4>3. QED BY <3>3, <4>1, <4>2
    <3>4. QED BY <3>1, <3>2, <3>3
  <2>6. QED BY <1>1, <2>1, <2>2, <2>4, <2>5 DEF HandlerCareful
<1>4. QED BY <1>2, <1>3

(* How a step of a handler should leave it and the names it uses.           *)
Fares(w) ==
  /\ HandlerCareful(w)'
  /\ \A n \in Uses(w) : \/ pc'[w] # "idle" /\ n \in Uses(w)'
                        \/ Visible(n)' \/ Empty(n)'

(* A handler that answers, all files whole.                                 *)
LEMMA EndsWell ==
  ASSUME TypeOK, NEW w \in Worker, NEW answer, Finish(w, answer),
         \A n \in Uses(w) : Visible(n)' \/ Empty(n)'
  PROVE  Fares(w)
<1>1. pc'[w] = "idle" BY DEF TypeOK, WorkersOK, Finish
<1>2. QED BY <1>1 DEF Fares, HandlerCareful

(* One that moves on among the places where it uses the same names.         *)
LEMMA GoesOn ==
  ASSUME TypeOK, NEW w \in Worker, pc[w] \notin {"idle", "generate"}, HandlerCareful(w),
         NEW label \in StepsOf(job[w].req.op) \ {"generate", "scheduleOld"},
         Proceed(w, label),
         label \in Moving => pc[w] \in Moving,
         pc[w] \in Moving \cup Making => label \in Moving \cup Making,
         label = "schedule" => job[w].new.expiredAt # Never,
         now' = now, issued' = issued, meta'[job[w].req.name] \in {meta[job[w].req.name], None},
         Stands(w)', Heard(w)'
  PROVE  Fares(w)
<1>a. /\ job[w].req.op \in Operation /\ pc[w] \in StepsOf(job[w].req.op)
      /\ w \in DOMAIN pc /\ w \in DOMAIN job
  BY CarefulFacts
<1>b. pc'[w] = label /\ job'[w] = job[w] BY <1>a DEF Proceed, Goto
<1>c. label # "idle" BY <1>a, StepTells
<1>1. Uses(w)' = Uses(w) /\ Gives(w)' = Gives(w) BY <1>b DEF Uses, Gives
<1>2. Placed(w) /\ InTime(w) BY DEF HandlerCareful
<1>3. Placed(w)' BY <1>b, <1>1, <1>2 DEF Placed
<1>4. InTime(w)' BY <1>b, <1>2 DEF InTime, Alive, Due
<1>5. QED BY <1>b, <1>c, <1>1, <1>3, <1>4 DEF Fares, HandlerCareful

(* Moving on without publishing changes nothing about messages.             *)
LEMMA StillHeard ==
  ASSUME TypeOK, NEW w \in Worker, pc[w] \notin {"idle", "generate"}, HandlerCareful(w),
         NEW label \in StepsOf(job[w].req.op) \ {"generate"},
         Proceed(w, label),
         label \in Moving => pc[w] \in Moving,
         pc[w] \in Moving \cup Making => label \in Moving \cup Making,
         UNCHANGED brokerVars
  PROVE  Heard(w)'
<1>a. /\ job[w].req.op \in Operation /\ pc[w] \in StepsOf(job[w].req.op)
      /\ w \in DOMAIN pc /\ w \in DOMAIN job
  BY CarefulFacts
<1>b. pc'[w] = label /\ job'[w] = job[w] BY <1>a DEF Proceed, Goto
<1>1. Heard(w) BY DEF HandlerCareful
<1>2. job[w].req.op = "rename" /\ pc[w] \in Moving => label \in Moving
  BY <1>a, StepSets
<1>3. \A m : Pending(m)' <=> Pending(m) BY DEF Pending, brokerVars
<1>4. SUFFICES ASSUME NEW m \in Message, Pending(m)
               PROVE  /\ job[w].req.op \in {"upload", "generate"}
                           /\ m.name = job[w].target /\ m.sha1 = job[w].req.content =>
                           m.expiredAt = job[w].new.expiredAt
                      /\ job[w].req.op = "rename" /\ m.name = job[w].moveTo =>
                           label \in Moving
                      /\ label \in Moving /\ m.name = job[w].moveTo =>
                           /\ m.sha1 = job[w].old.sha1
                           /\ m.expiredAt = job[w].old.expiredAt
  BY <1>b, <1>3 DEF Heard
<1>5. QED BY <1>1, <1>2, <1>4 DEF Heard
-----------------------------------------------------------------------------
(* How the steps of a careful handler leave it.                             *)

(* A look at the stores that sends the handler on.                          *)
LEMMA LooksOn ==
  ASSUME TypeOK, NEW w \in Worker, pc[w] \notin {"idle", "generate"}, HandlerCareful(w),
         NEW label \in StepsOf(job[w].req.op) \ {"generate", "scheduleOld"},
         Proceed(w, label), OnlyWorkers,
         label \in Moving => pc[w] \in Moving,
         pc[w] \in Moving \cup Making => label \in Moving \cup Making,
         label = "schedule" => job[w].new.expiredAt # Never,
         Stands(w)'
  PROVE  Fares(w)
<1>1. UNCHANGED brokerVars /\ now' = now /\ issued' = issued /\ meta' = meta
  BY DEF OnlyWorkers, store, environment
<1>2. Heard(w)' BY <1>1, StillHeard
<1>3. QED BY <1>1, <1>2, GoesOn

(* A handler at work: its facts in one place.                               *)
LEMMA AtHand ==
  ASSUME TypeOK, NEW w \in Worker, WorkerStep(w), HandlerCareful(w)
  PROVE  /\ pc[w] # "idle" /\ Placed(w) /\ InTime(w) /\ Stands(w) /\ Heard(w)
         /\ job[w].req.op \in Operation /\ pc[w] \in StepsOf(job[w].req.op)
         /\ w \in DOMAIN pc /\ w \in DOMAIN job
  BY HandlerLeaves, CarefulFacts DEF HandlerCareful

(* An upload that looks at its name.                                        *)
LEMMA UploadLooks ==
  ASSUME TypeOK, NEW w \in Worker, WorkerStep(w), HandlerCareful(w),
         CheckExist(w) \/ ReadOld(w) \/ AnswerSame(w)
  PROVE  Fares(w)
<1>a. /\ pc[w] # "idle" /\ Placed(w) /\ Stands(w)
      /\ w \in DOMAIN pc /\ w \in DOMAIN job
  BY AtHand
<1>b. job[w].req.op = "upload"
  BY AtHand, StepTells DEF CheckExist, ReadOld, AnswerSame
<1>c. pc[w] \in {"exist", "readOld", "sameMeta"} /\ OnlyWorkers
  BY DEF CheckExist, ReadOld, AnswerSame
<1>d. data' = data /\ meta' = meta BY <1>c DEF OnlyWorkers, store
<1>e. job[w].old = None /\ job[w].target = job[w].req.name
  BY <1>a, <1>b, <1>c, StepSets DEF Placed
<1>f. ASSUME NEW label \in {"readOld", "sameMeta", "readOldMeta", "statData", "schedule"},
             Proceed(w, label),
             label = "schedule" => job[w].new.expiredAt # Never,
             IF label \in {"statData", "schedule"} THEN Empty(job[w].req.name)
             ELSE Visible(job[w].req.name)
      PROVE  Fares(w)
  <2>1. pc'[w] = label /\ job'[w] = job[w] BY <1>a, <1>f DEF Proceed, Goto
  <2>2. Stands(w)'
    BY <1>b, <1>d, <1>e, <1>f, <2>1 DEF Stands, Kept, Visible, Empty
  <2>3. label \in StepsOf(job[w].req.op) /\ label \notin Moving
        /\ pc[w] \notin Moving \cup Making
    BY <1>b, <1>c, <1>f, StepSets
  <2>4. QED BY <1>a, <1>c, <1>f, <2>2, <2>3, LooksOn
<1>1. CASE CheckExist(w)
  <2>1. Visible(job[w].req.name) \/ Empty(job[w].req.name)
    BY <1>a, <1>1 DEF CheckExist, Stands
  <2>2. CASE IsExist(data, job[w].req.name)
    BY <1>1, <1>f, <2>1, <2>2 DEF CheckExist, IsExist, Empty
  <2>3. CASE ~IsExist(data, job[w].req.name)
    BY <1>1, <1>f, <2>1, <2>3 DEF CheckExist, IsExist, Visible, WriteNew
  <2>4. QED BY <2>2, <2>3
<1>2. CASE ReadOld(w)
  BY <1>a, <1>2, <1>f DEF ReadOld, Stands
<1>3. CASE AnswerSame(w)
  <2>1. Visible(job[w].req.name) BY <1>a, <1>3 DEF AnswerSame, Stands
  <2>2. \E answer : Finish(w, answer)
    BY <1>3 DEF AnswerSame, Panic
  <2>3. Uses(w) = {job[w].req.name} BY <1>b, <1>e DEF Uses, Gives
  <2>4. \A n \in Uses(w) : Visible(n)' BY <1>d, <2>1, <2>3 DEF Visible
  <2>5. QED BY <2>2, <2>4, EndsWell
<1>4. QED BY <1>1, <1>2, <1>3

(* A rename or a deletion that looks at its name.                           *)
LEMMA OthersLook ==
  ASSUME TypeOK, NEW w \in Worker, WorkerStep(w), HandlerCareful(w),
         ReadRenamed(w) \/ StatDelete(w) \/ StatDeleteMeta(w)
  PROVE  Fares(w)
<1>a. /\ pc[w] # "idle" /\ Placed(w) /\ Stands(w)
      /\ w \in DOMAIN pc /\ w \in DOMAIN job
  BY AtHand
<1>b. job[w].req.op = (IF pc[w] = "readRenamed" THEN "rename" ELSE "delete")
  BY AtHand, StepTells, StepSets DEF ReadRenamed, StatDelete, StatDeleteMeta
<1>c. pc[w] \in {"readRenamed", "statDelete", "statDeleteMeta"} /\ OnlyWorkers
  BY DEF ReadRenamed, StatDelete, StatDeleteMeta
<1>d. data' = data /\ meta' = meta BY <1>c DEF OnlyWorkers, store
<1>e. job[w].old = None BY <1>a, <1>c, StepSets DEF Placed
<1>f. ASSUME NEW label \in {"readOldMeta", "delete", "deleteMeta"}, Proceed(w, label),
             label = "readOldMeta" <=> pc[w] = "readRenamed",
             label = "readOldMeta" => Empty(job[w].moveTo),
             IF label = "deleteMeta"
             THEN data[job[w].req.name] = None /\ meta[job[w].req.name] # None
             ELSE Visible(job[w].req.name)
      PROVE  Fares(w)
  <2>1. pc'[w] = label /\ job'[w] = job[w] BY <1>a, <1>f DEF Proceed, Goto
  <2>2. Stands(w)' BY <1>d, <1>f, <2>1 DEF Stands, Visible, Empty
  <2>3. label \in StepsOf(job[w].req.op) /\ label \notin Moving
        /\ pc[w] \notin Moving \cup Making
    BY <1>b, <1>c, <1>f, StepSets
  <2>4. QED BY <1>a, <1>c, <1>f, <2>2, <2>3, LooksOn
<1>g. ASSUME Fail(w), \A n \in Uses(w) : Empty(n) PROVE Fares(w)
  BY <1>d, <1>g, EndsWell DEF Fail, Empty
<1>1. CASE ReadRenamed(w)
  <2>1. /\ Visible(job[w].req.name) \/ Empty(job[w].req.name)
        /\ Empty(job[w].moveTo)
    BY <1>a, <1>b, <1>1 DEF ReadRenamed, Stands
  <2>2. CASE IsExist(data, job[w].req.name)
    BY <1>1, <1>f, <2>1, <2>2 DEF ReadRenamed, IsExist, Empty
  <2>3. CASE ~IsExist(data, job[w].req.name)
    <3>1. Uses(w) = {job[w].moveTo, job[w].req.name}
      BY <1>b, <1>1 DEF ReadRenamed, Uses, Gives
    <3>2. Empty(job[w].req.name) BY <2>1, <2>3 DEF IsExist, Visible
    <3>3. QED BY <1>1, <1>g, <2>1, <2>3, <3>1, <3>2 DEF ReadRenamed
  <2>4. QED BY <2>2, <2>3
<1>2. CASE StatDelete(w)
  <2>1. Visible(job[w].req.name) \/ Empty(job[w].req.name)
    BY <1>a, <1>2 DEF StatDelete, Stands
  <2>2. CASE IsExist(data, job[w].req.name)
    BY <1>2, <1>f, <2>1, <2>2 DEF StatDelete, IsExist, Empty
  <2>3. CASE ~IsExist(data, job[w].req.name)
    <3>1. Uses(w) = {job[w].req.name} BY <1>b, <1>e, <1>2 DEF StatDelete, Uses, Gives
    <3>2. Empty(job[w].req.name) BY <2>1, <2>3 DEF IsExist, Visible
    <3>3. QED BY <1>2, <1>g, <2>3, <3>1, <3>2 DEF StatDelete
  <2>4. QED BY <2>2, <2>3
<1>3. CASE StatDeleteMeta(w)
  BY <1>a, <1>3, <1>f DEF StatDeleteMeta, Stands, IsExist
<1>4. QED BY <1>1, <1>2, <1>3

(* A handler that looks at what it moves or where it makes its file always  *)
(* finds what it needs.                                                     *)
LEMMA WorkLooks ==
  ASSUME TypeOK, NEW w \in Worker, WorkerStep(w), HandlerCareful(w),
         \/ StatMove(w) \/ CheckMetaExist(w) \/ StatOldMeta(w) \/ StatBackupMeta(w)
         \/ StatData(w) \/ StatMeta(w)
  PROVE  Fares(w)
<1>a. /\ pc[w] # "idle" /\ Placed(w) /\ Stands(w)
      /\ w \in DOMAIN pc /\ w \in DOMAIN job
  BY AtHand
<1>b. OnlyWorkers
  BY DEF StatMove, CheckMetaExist, StatOldMeta, StatBackupMeta, StatData, StatMeta
<1>d. data' = data /\ meta' = meta BY <1>b DEF OnlyWorkers, store
<1>1. CASE StatMove(w) \/ CheckMetaExist(w) \/ StatOldMeta(w) \/ StatBackupMeta(w)
  <2>1. pc[w] \in {"statMove", "metaExist", "statOldMeta", "statBackupMeta"}
    BY <1>1 DEF StatMove, CheckMetaExist, StatOldMeta, StatBackupMeta
  <2>2. job[w].req.op \in {"upload", "rename"} BY <2>1, AtHand, StepTells, StepSets
  <2>3. job[w].old # None BY <1>a, <2>1, StepSets DEF Placed
  <2>4. PICK label \in {"transfer", "statOldMeta", "removeOldMeta", "writeBackupMeta"} :
          /\ Proceed(w, label)
          /\ label = (CASE pc[w] = "statMove" -> "transfer"
                        [] pc[w] = "metaExist" -> "statOldMeta"
                        [] pc[w] = "statOldMeta" -> "removeOldMeta"
                        [] pc[w] = "statBackupMeta" -> "writeBackupMeta")
    BY <1>a, <1>1, <2>3
    DEF StatMove, CheckMetaExist, StatOldMeta, StatBackupMeta, Stands, Visible, Empty,
        IsExist
  <2>5. pc'[w] = label /\ job'[w] = job[w] BY <1>a, <2>4 DEF Proceed, Goto
  <2>6. Stands(w)' BY <1>a, <1>d, <2>1, <2>4, <2>5 DEF Stands, Visible, Empty
  <2>7. label \in StepsOf(job[w].req.op) /\ label \in Moving /\ pc[w] \in Moving
    BY <2>1, <2>2, <2>4, StepSets
  <2>8. label \notin {"generate", "scheduleOld", "schedule"} /\ pc[w] # "generate"
    BY <2>1, <2>4
  <2>9. QED BY <1>a, <1>b, <2>4, <2>6, <2>7, <2>8, LooksOn
<1>2. CASE StatData(w) \/ StatMeta(w)
  <2>1. pc[w] \in {"statData", "statMeta"} BY <1>2 DEF StatData, StatMeta
  <2>2. job[w].req.op \in {"upload", "generate"} BY <2>1, AtHand, StepTells, StepSets
  <2>4. PICK label \in {"writeData", "writeMeta"} :
          /\ Proceed(w, label)
          /\ label = (IF pc[w] = "statData" THEN "writeData" ELSE "writeMeta")
    BY <1>a, <1>2 DEF StatData, StatMeta, Stands, Empty, IsExist
  <2>5. pc'[w] = label /\ job'[w] = job[w] BY <1>a, <2>4 DEF Proceed, Goto
  <2>6. Stands(w)' BY <1>a, <1>d, <2>1, <2>4, <2>5 DEF Stands, Visible, Empty, Kept
  <2>7. label \in StepsOf(job[w].req.op) /\ label \notin Moving /\ label \in Making
    BY <2>2, <2>4, StepSets
  <2>8. label \notin {"generate", "scheduleOld", "schedule"} /\ pc[w] # "generate"
    BY <2>1, <2>4
  <2>9. QED BY <1>a, <1>b, <2>4, <2>6, <2>7, <2>8, LooksOn
<1>3. QED BY <1>1, <1>2
(* A handler that moves a file, up to the writing of the metadata.          *)
LEMMA MovesOn ==
  ASSUME TypeOK, NEW w \in Worker, WorkerStep(w), HandlerCareful(w),
         Transfer(w) \/ RemoveSource(w) \/ RemoveOldMeta(w)
  PROVE  Fares(w)
<1> DEFINE x == job[w].req.name
           to == job[w].moveTo
           old == job[w].old
<1>a. /\ pc[w] # "idle" /\ Placed(w) /\ Stands(w)
      /\ w \in DOMAIN pc /\ w \in DOMAIN job
  BY AtHand
<1>b. pc[w] \in {"transfer", "removeSource", "removeOldMeta"}
  BY DEF Transfer, RemoveSource, RemoveOldMeta
<1>c. job[w].req.op \in {"upload", "rename"} BY <1>b, AtHand, StepTells, StepSets
<1>d. old # None /\ old \in Metadata
  BY <1>a, <1>b, CarefulFacts, StepSets DEF Placed
<1>e. x \in Name /\ to \in Name /\ x \in DOMAIN data /\ to \in DOMAIN data
      /\ x \in DOMAIN meta /\ to \in DOMAIN meta
  BY <1>a, CarefulFacts DEF TypeOK, StoreOK
<1>f. UNCHANGED brokerVars /\ now' = now /\ issued' = issued
  BY DEF Transfer, RemoveSource, RemoveOldMeta, OnlyData, OnlyMeta, environment
<1>g. ASSUME NEW label \in {"removeSource", "metaExist", "statBackupMeta"},
             Proceed(w, label), meta'[x] \in {meta[x], None},
             pc'[w] = label /\ job'[w] = job[w] => Stands(w)'
      PROVE  Fares(w)
  <2>1. Stands(w)' BY <1>a, <1>g DEF Proceed, Goto
  <2>2. label \in StepsOf(job[w].req.op) /\ label \in Moving /\ pc[w] \in Moving
        /\ label \notin {"generate", "scheduleOld", "schedule"} /\ pc[w] # "generate"
    BY <1>b, <1>c, <1>g, StepSets
  <2>3. Heard(w)' BY <1>a, <1>f, <1>g, <2>2, StillHeard
  <2>4. QED BY <1>a, <1>f, <1>g, <2>1, <2>2, <2>3, GoesOn
<1>1. CASE Transfer(w)
  <2>1. Visible(x) /\ meta[x] = old /\ Empty(to) BY <1>a, <1>1 DEF Transfer, Stands
  <2>2. x # to /\ data[x] # None /\ data[x] = old.sha1 BY <2>1 DEF Visible, Empty
  <2>3. /\ meta' = meta /\ data' = Transferred(data, x, to)
        /\ Proceed(w, IF Backend = "s3" THEN "removeSource" ELSE "metaExist")
    BY <1>1, <2>2 DEF Transfer, OnlyData, TransferSucceeds, IsExist, LeavesSource
  <2>4. data'[to] = data[x] /\ data'[x] = (IF Backend = "basic" THEN None ELSE data[x])
    BY <1>e, <2>2, <2>3 DEF Transferred
  <2>5. CASE Backend = "s3"
    <3>1. pc'[w] = "removeSource" /\ job'[w] = job[w] => Stands(w)'
      BY <2>1, <2>2, <2>3, <2>4, <2>5 DEF Stands, Visible, Empty
    <3>2. QED BY <1>g, <2>3, <2>5, <3>1
  <2>6. CASE Backend = "basic"
    <3>1. pc'[w] = "metaExist" /\ job'[w] = job[w] => Stands(w)'
      BY <2>1, <2>2, <2>3, <2>4, <2>6 DEF Stands, Visible, Empty
    <3>2. QED BY <1>g, <2>3, <2>6, <3>1
  <2>7. QED BY <2>5, <2>6, BackendAssumption
<1>2. CASE RemoveSource(w)
  <2>1. Visible(x) /\ meta[x] = old /\ data[to] = old.sha1 /\ meta[to] = None
    BY <1>a, <1>2 DEF RemoveSource, Stands
  <2>2. x # to BY <1>d, <2>1
  <2>3. meta' = meta /\ data' = Removed(data, x) /\ Proceed(w, "metaExist")
    BY <1>2 DEF RemoveSource, OnlyData
  <2>4. data'[x] = None /\ data'[to] = data[to] BY <1>e, <2>2, <2>3 DEF Removed
  <2>5. pc'[w] = "metaExist" /\ job'[w] = job[w] => Stands(w)'
    BY <2>1, <2>3, <2>4 DEF Stands
  <2>6. QED BY <1>g, <2>3, <2>5
<1>3. CASE RemoveOldMeta(w)
  <2>1. data[x] = None /\ meta[x] = old /\ data[to] = old.sha1 /\ meta[to] = None
    BY <1>a, <1>3 DEF RemoveOldMeta, Stands
  <2>2. x # to BY <1>d, <2>1
  <2>3. data' = data /\ meta' = Removed(meta, x) /\ Proceed(w, "statBackupMeta")
    BY <1>3, <1>d, <2>1 DEF RemoveOldMeta, OnlyMeta, RemoveSucceeds, IsExist
  <2>4. meta'[x] = None /\ meta'[to] = meta[to] BY <1>e, <2>2, <2>3 DEF Removed
  <2>5. pc'[w] = "statBackupMeta" /\ job'[w] = job[w] => Stands(w)'
    BY <2>1, <2>3, <2>4 DEF Stands, Empty
  <2>6. QED BY <1>g, <2>3, <2>4, <2>5
<1>4. QED BY <1>1, <1>2, <1>3

(* A handler that writes the metadata of the file it has moved: a rename is *)
(* done, an upload has its backup.                                          *)
LEMMA Relocates ==
  ASSUME TypeOK, NEW w \in Worker, WorkerStep(w), HandlerCareful(w), WriteBackupMeta(w)
  PROVE  Fares(w)
<1> DEFINE x == job[w].req.name
           to == job[w].moveTo
           old == job[w].old
<1>a. /\ pc[w] # "idle" /\ Placed(w) /\ Stands(w) /\ InTime(w) /\ Heard(w)
      /\ w \in DOMAIN pc /\ w \in DOMAIN job
  BY AtHand
<1>b. pc[w] = "writeBackupMeta" /\ data' = data /\ meta' = Created(meta, to, old)
      /\ UNCHANGED brokerVars /\ now' = now /\ issued' = issued /\ Relocated(w)
  BY DEF WriteBackupMeta, OnlyMeta, environment
<1>c. job[w].req.op \in {"upload", "rename"} BY <1>b, AtHand, StepTells, StepSets
<1>d. old # None /\ old \in Metadata
  BY <1>a, <1>b, CarefulFacts, StepSets DEF Placed
<1>e. Empty(x) /\ data[to] = old.sha1 /\ meta[to] = None BY <1>a, <1>b DEF Stands
<1>f. old.sha1 # None BY <1>d, NoneAssumption DEF Metadata
<1>g. x # to BY <1>e, <1>f DEF Empty
<1>h. x \in DOMAIN meta /\ to \in DOMAIN meta BY <1>a, CarefulFacts DEF TypeOK, StoreOK
<1>i. meta'[to] = old /\ meta'[x] = meta[x] BY <1>b, <1>g, <1>h DEF Created
<1>1. CASE job[w].req.op = "rename"
  <2>1. PICK k : k = to OBVIOUS
  <2>2. PICK n : n = x OBVIOUS
  <2>3. Uses(w) = {k, n} BY <1>1, <1>d, <2>1, <2>2 DEF Uses, Gives
  <2>4. Visible(k)' BY <1>b, <1>d, <1>e, <1>f, <1>i, <2>1 DEF Visible
  <2>5. Empty(n)' BY <1>b, <1>e, <1>i, <2>2 DEF Empty
  <2>6. QED BY <1>1, <1>b, <2>3, <2>4, <2>5, EndsWell DEF Relocated
<1>2. CASE job[w].req.op = "upload"
  <2>1. /\ pc' = [pc EXCEPT ![w] = WriteNew(job[w].new)]
        /\ job' = [job EXCEPT ![w].new.backup = to]
    BY <1>2, <1>b DEF Relocated, Goto
  <2>2. job'[w] = [job[w] EXCEPT !.new = [job[w].new EXCEPT !.backup = to]]
    BY <1>a, <2>1
  <2>3. job[w] \in Job /\ job[w].new \in Metadata BY <1>a, CarefulFacts
  <2>4. /\ job'[w].req = job[w].req /\ job'[w].target = job[w].target
        /\ job'[w].moveTo = to /\ job'[w].old = old
        /\ job'[w].new = [job[w].new EXCEPT !.backup = to]
    BY <2>2, <2>3 DEF Job
  <2>5. /\ job'[w].new.sha1 = job[w].new.sha1 /\ job'[w].new.backup = to
        /\ job'[w].new.expiredAt = job[w].new.expiredAt
    BY <2>3, <2>4 DEF Metadata
  <2>6. /\ pc'[w] \in {"statData", "schedule"}
        /\ pc'[w] = "schedule" => job'[w].new.expiredAt # Never
    BY <1>a, <2>1, <2>5 DEF WriteNew
  <2>7. Uses(w)' = Uses(w) /\ Gives(w)' = Gives(w)
    BY <1>2, <2>4, <2>6, <1>b DEF Uses, Gives
  <2>8. job[w].target = x BY <1>2, <1>a DEF Placed
  <2>9. Placed(w)'
    BY <1>2, <1>a, <1>b, <2>4, <2>5, <2>6, <2>7, StepSets DEF Placed
  <2>10. InTime(w)' BY <1>2, <1>a, <1>b, <1>e, <1>i, <2>4, <2>5 DEF InTime, Alive, Due, Empty
  <2>11. Kept(w)' BY <1>b, <1>e, <1>i, <2>4, <2>5 DEF Kept
  <2>12. Stands(w)' BY <1>b, <1>e, <1>i, <2>4, <2>6, <2>8, <2>11 DEF Stands, Empty
  <2>13. Heard(w)'
    <3>1. \A m : Pending(m)' <=> Pending(m) BY <1>b DEF Pending, brokerVars
    <3>2. pc'[w] \notin Moving BY <2>6, StepSets
    <3>3. QED BY <1>2, <1>a, <1>b, <2>4, <2>5, <3>1, <3>2 DEF Heard
  <2>14. QED BY <2>6, <2>7, <2>9, <2>10, <2>12, <2>13 DEF Fares, HandlerCareful
<1>3. QED BY <1>1, <1>2, <1>c
(* A handler that deletes its file and then its metadata.                   *)
LEMMA Deletes ==
  ASSUME TypeOK, NEW w \in Worker, WorkerStep(w), HandlerCareful(w),
         Delete(w) \/ DeleteMeta(w)
  PROVE  Fares(w)
<1>a. /\ pc[w] # "idle" /\ Placed(w) /\ Stands(w)
      /\ w \in DOMAIN pc /\ w \in DOMAIN job
  BY AtHand
<1>b. job[w].req.op = "delete" BY AtHand, StepTells, StepSets DEF Delete, DeleteMeta
<1>c. job[w].old = None BY <1>a, StepSets DEF Delete, DeleteMeta, Placed
<1>d. PICK x \in Name : x = job[w].req.name BY <1>a, CarefulFacts
<1>e. x \in DOMAIN data /\ x \in DOMAIN meta BY DEF TypeOK, StoreOK
<1>1. CASE Delete(w)
  <2>1. Visible(x) BY <1>a, <1>d, <1>1 DEF Delete, Stands
  <2>2. /\ meta' = meta /\ data' = Removed(data, x) /\ Proceed(w, "statDeleteMeta")
        /\ UNCHANGED brokerVars /\ now' = now /\ issued' = issued
    BY <1>1, <1>d, <2>1
    DEF Delete, OnlyData, RemoveSucceeds, IsExist, Visible, environment
  <2>3. data'[x] = None /\ meta'[x] # None BY <1>e, <2>1, <2>2 DEF Removed, Visible
  <2>4. pc'[w] = "statDeleteMeta" /\ job'[w] = job[w] BY <1>a, <2>2 DEF Proceed, Goto
  <2>5. Stands(w)' BY <1>d, <2>3, <2>4 DEF Stands
  <2>6. "statDeleteMeta" \in StepsOf(job[w].req.op) /\ "statDeleteMeta" \notin Moving
        /\ pc[w] = "delete" /\ pc[w] \notin Moving \cup Making
    BY <1>1, <1>b, StepSets DEF Delete
  <2>7. Heard(w)' BY <1>a, <2>2, <2>6, StillHeard
  <2>8. QED BY <1>a, <2>2, <2>5, <2>6, <2>7, GoesOn
<1>2. CASE DeleteMeta(w)
  <2>1. data[x] = None /\ meta[x] # None BY <1>a, <1>d, <1>2 DEF DeleteMeta, Stands
  <2>2. data' = data /\ meta' = Removed(meta, x) /\ Finish(w, Answer("ok", None, None))
    BY <1>2, <1>d, <2>1 DEF DeleteMeta, OnlyMeta, RemoveSucceeds, IsExist
  <2>3. Empty(x)' BY <1>e, <2>1, <2>2 DEF Removed, Empty
  <2>4. Uses(w) = {x} BY <1>b, <1>c, <1>d DEF Uses, Gives
  <2>5. QED BY <2>2, <2>3, <2>4, EndsWell
<1>3. QED BY <1>1, <1>2

(* A handler that makes its file: the bytes, then the metadata.             *)
LEMMA Makes ==
  ASSUME TypeOK, NEW w \in Worker, WorkerStep(w), HandlerCareful(w),
         WriteData(w) \/ WriteMeta(w)
  PROVE  Fares(w)
<1>a. /\ pc[w] # "idle" /\ Placed(w) /\ Stands(w)
      /\ w \in DOMAIN pc /\ w \in DOMAIN job
  BY AtHand
<1>b. job[w].req.op \in {"upload", "generate"}
  BY AtHand, StepTells, StepSets DEF WriteData, WriteMeta
<1>c. PICK t \in Name : t = job[w].target BY <1>a, CarefulFacts
<1>d. PICK k \in Name : k = job[w].moveTo BY <1>a, CarefulFacts
<1>e. /\ t \in DOMAIN data /\ t \in DOMAIN meta /\ k \in DOMAIN data /\ k \in DOMAIN meta
      /\ job[w].req.content \in Content /\ job[w].new \in Metadata
      /\ job[w].old \in Metadata \cup {None}
  BY <1>a, CarefulFacts DEF TypeOK, StoreOK
<1>f. Kept(w) /\ meta[t] = None BY <1>a, <1>c DEF Stands, WriteData, WriteMeta, Empty
<1>g. job[w].old # None =>
        data[k] = job[w].old.sha1 /\ meta[k] = job[w].old /\ k # t /\ data[k] # None
  BY <1>d, <1>e, <1>f, NoneAssumption DEF Kept, Metadata
<1>1. CASE WriteData(w)
  <2>1. data[t] = None BY <1>a, <1>c, <1>1 DEF WriteData, Stands, Empty
  <2>2. /\ meta' = meta /\ data' = Created(data, t, job[w].req.content)
        /\ Proceed(w, "statMeta")
        /\ UNCHANGED brokerVars /\ now' = now /\ issued' = issued
    BY <1>1, <1>c DEF WriteData, OnlyData, environment
  <2>3. data'[t] = job[w].req.content /\ (k # t => data'[k] = data[k])
    BY <1>e, <2>2 DEF Created
  <2>4. pc'[w] = "statMeta" /\ job'[w] = job[w] BY <1>a, <2>2 DEF Proceed, Goto
  <2>5. Kept(w)' BY <1>d, <1>f, <1>g, <2>2, <2>3, <2>4 DEF Kept
  <2>6. Stands(w)' BY <1>c, <1>f, <2>2, <2>3, <2>4, <2>5 DEF Stands
  <2>7. "statMeta" \in StepsOf(job[w].req.op) /\ "statMeta" \notin Moving
        /\ "statMeta" \in Making /\ pc[w] = "writeData"
    BY <1>1, <1>b, StepSets DEF WriteData
  <2>8. Heard(w)' BY <1>a, <2>2, <2>7, StillHeard
  <2>9. QED BY <1>a, <2>2, <2>6, <2>7, <2>8, GoesOn
<1>2. CASE WriteMeta(w)
  <2>1. data[t] = job[w].req.content /\ job[w].new.sha1 = job[w].req.content
    BY <1>a, <1>c, <1>2 DEF WriteMeta, Stands, Placed
  <2>2. /\ data' = data /\ meta' = Created(meta, t, job[w].new)
        /\ Finish(w, Answer("ok", job[w].req.content, job[w].new))
    BY <1>2, <1>c DEF WriteMeta, OnlyMeta
  <2>3. meta'[t] = job[w].new /\ (k # t => meta'[k] = meta[k])
    BY <1>e, <2>2 DEF Created
  <2>4. Visible(t)' BY <1>e, <2>1, <2>2, <2>3, NoneAssumption DEF Visible
  <2>5. job[w].old # None => Visible(k)'
    BY <1>e, <1>g, <2>2, <2>3 DEF Visible
  <2>6. Uses(w) \subseteq {t} \cup (IF job[w].old # None THEN {k} ELSE {})
    BY <1>a, <1>b, <1>c, <1>d DEF Uses, Gives, Placed
  <2>7. QED BY <2>2, <2>4, <2>5, <2>6, EndsWell
<1>3. QED BY <1>1, <1>2

(* A handler that announces the file it is about to make or to move.        *)
LEMMA Announces ==
  ASSUME TypeOK, NEW w \in Worker, WorkerStep(w), HandlerCareful(w),
         ScheduleOld(w) \/ ScheduleNew(w)
  PROVE  Fares(w)
<1>a. /\ pc[w] # "idle" /\ Placed(w) /\ Stands(w) /\ Heard(w)
      /\ w \in DOMAIN pc /\ w \in DOMAIN job
  BY AtHand
<1>b. PICK t \in Name : t = job[w].target BY <1>a, CarefulFacts
<1>c. PICK k \in Name : k = job[w].moveTo BY <1>a, CarefulFacts
<1>d. PICK x \in Name : x = job[w].req.name BY <1>a, CarefulFacts
<1>e. data' = data /\ meta' = meta /\ now' = now /\ issued' = issued
  BY DEF ScheduleOld, ScheduleNew, OnlyQueue, store, environment
<1>f. queue \in [Message -> Nat] BY DEF TypeOK, BrokerOK
<1>g. job[w].new \in Metadata /\ job[w].old \in Metadata \cup {None}
      /\ job[w].req.op \in Operation /\ pc[w] \in StepsOf(job[w].req.op)
  BY <1>a, CarefulFacts
<1>1. CASE ScheduleOld(w)
  <2>1. Visible(x) /\ meta[x] = job[w].old /\ Empty(k)
    BY <1>a, <1>c, <1>d, <1>1 DEF ScheduleOld, Stands
  <2>2. pc[w] \in Moving /\ pc[w] = "scheduleOld" BY <1>1, StepSets DEF ScheduleOld
  <2>3. job[w].req.op \in {"upload", "rename"} BY <1>g, <2>2, StepTells
  <2>4. job[w].req.op = "upload" => t = x BY <1>a, <1>b, <1>d DEF Placed
  <2>5. x # k BY <2>1 DEF Visible, Empty
  <2>6. CASE Fail(w)
    <3>1. Uses(w) \subseteq {x, k} BY <2>3, <2>4, <1>b, <1>c, <1>d DEF Uses, Gives
    <3>2. Visible(x)' /\ Empty(k)' BY <1>e, <2>1 DEF Visible, Empty
    <3>3. QED BY <2>6, <3>1, <3>2, EndsWell DEF Fail
  <2>7. CASE Publish(DeletionOf(k, job[w].old)) /\ Proceed(w, "statMove")
    <3>1. pc'[w] = "statMove" /\ job'[w] = job[w] BY <1>a, <2>7 DEF Proceed, Goto
    <3>2. Stands(w)' BY <1>c, <1>d, <1>e, <2>1, <3>1 DEF Stands, Visible, Empty
    <3>3. "statMove" \in StepsOf(job[w].req.op) /\ "statMove" \in Moving
      BY <2>3, StepSets
    <3>4. DeletionOf(k, job[w].old) \in Message
      BY <1>a, <1>g, <2>2, DeletionType DEF Placed
    <3>5. Heard(w)'
      <4>1. ASSUME NEW m \in Message, Pending(m)' PROVE Pending(m) \/ m = DeletionOf(k, job[w].old)
        BY <1>f, <2>7, <3>4, <4>1 DEF Publish, Pending
      <4>2. ASSUME NEW m \in Message, m = DeletionOf(k, job[w].old)
            PROVE  /\ m.name = k /\ m.sha1 = job[w].old.sha1
                   /\ m.expiredAt = job[w].old.expiredAt
        BY <4>2 DEF DeletionOf
      <4>3. SUFFICES ASSUME NEW m \in Message, Pending(m)'
                     PROVE  /\ job[w].req.op \in {"upload", "generate"}
                                 /\ m.name = t /\ m.sha1 = job[w].req.content =>
                                 m.expiredAt = job[w].new.expiredAt
                            /\ m.name = k =>
                                 /\ m.sha1 = job[w].old.sha1
                                 /\ m.expiredAt = job[w].old.expiredAt
        BY <1>b, <1>c, <3>1, <3>3 DEF Heard
      <4>4. CASE Pending(m) BY <1>a, <1>b, <1>c, <2>2, <4>4 DEF Heard
      <4>5. CASE m = DeletionOf(k, job[w].old)
        <5>1. /\ m.name = k /\ m.sha1 = job[w].old.sha1
              /\ m.expiredAt = job[w].old.expiredAt
          BY <4>2, <4>5
        <5>2. job[w].req.op \in {"upload", "generate"} => m.name # t
          BY <2>3, <2>4, <2>5, <5>1
        <5>3. QED BY <5>1, <5>2
      <4>6. QED BY <4>1, <4>3, <4>4, <4>5
    <3>6. QED BY <1>a, <1>e, <2>2, <2>7, <3>2, <3>3, <3>5, GoesOn
  <2>8. QED BY <1>1, <1>c, <2>6, <2>7 DEF ScheduleOld, Schedule
<1>2. CASE ScheduleNew(w)
  <2>1. Empty(t) /\ Kept(w) BY <1>a, <1>b, <1>2 DEF ScheduleNew, Stands
  <2>2. pc[w] \in Making /\ pc[w] = "schedule" BY <1>2, StepSets DEF ScheduleNew
  <2>3. job[w].req.op \in {"upload", "generate"} BY <1>g, <2>2, StepTells
  <2>4. job[w].req.op = "upload" => t = x BY <1>a, <1>b, <1>d DEF Placed
  <2>5. CASE Fail(w)
    <3>1. Uses(w) \subseteq {t} \cup (IF job[w].old # None THEN {k} ELSE {})
      BY <2>3, <2>4, <1>b, <1>c, <1>d DEF Uses, Gives
    <3>2. Empty(t)' BY <1>e, <2>1 DEF Empty
    <3>3. job[w].old # None => Visible(k)'
      BY <1>c, <1>e, <1>g, <2>1, NoneAssumption DEF Kept, Visible, Metadata
    <3>4. QED BY <2>5, <3>1, <3>2, <3>3, EndsWell DEF Fail
  <2>6. CASE Publish(DeletionOf(t, job[w].new)) /\ Proceed(w, "statData")
    <3>1. pc'[w] = "statData" /\ job'[w] = job[w] BY <1>a, <2>6 DEF Proceed, Goto
    <3>2. Stands(w)' BY <1>b, <1>e, <2>1, <3>1 DEF Stands, Empty, Kept
    <3>3. "statData" \in StepsOf(job[w].req.op) /\ "statData" \in Making
          /\ "statData" \notin Moving
      BY <2>3, StepSets
    <3>4. DeletionOf(t, job[w].new) \in Message BY <1>g, DeletionType
    <3>5. Heard(w)'
      <4>1. ASSUME NEW m \in Message, Pending(m)' PROVE Pending(m) \/ m = DeletionOf(t, job[w].new)
        BY <1>f, <2>6, <3>4, <4>1 DEF Publish, Pending
      <4>2. SUFFICES ASSUME NEW m \in Message, Pending(m)'
                     PROVE  m.name = t /\ m.sha1 = job[w].req.content =>
                              m.expiredAt = job[w].new.expiredAt
        BY <1>b, <2>3, <3>1, <3>3 DEF Heard
      <4>3. CASE Pending(m) BY <1>a, <1>b, <2>2, <2>3, <4>3 DEF Heard
      <4>4. CASE m = DeletionOf(t, job[w].new) BY <4>4 DEF DeletionOf
      <4>5. QED BY <4>1, <4>2, <4>3, <4>4
    <3>6. QED BY <1>a, <1>e, <2>2, <2>6, <3>2, <3>3, <3>5, GoesOn
  <2>7. QED BY <1>2, <1>b, <2>5, <2>6 DEF ScheduleNew, Schedule
<1>3. QED BY <1>1, <1>2
(* A name no handler uses, and about which no message is pending, is whole  *)
(* or empty; so what is drawn, having no file, is empty.                    *)
LEMMA DrawnEmpty ==
  ASSUME Inv, Apart, Careful, Whole, NEW w \in Worker, Generate(w), NEW g \in Generated,
         ~IsExist(data, g), \A m \in Message : Pending(m) => m.name # g, Unguessed(w, g)
  PROVE  Empty(g)
<1>1. g \in Name BY DEF Name
<1>2. TypeOK /\ ConsumerHoldsDue BY DEF Inv
<1>3. pc[w] = "generate" /\ HandlerCareful(w) BY DEF Generate, Whole
<1>4. ~Used(g)
  <2>1. SUFFICES ASSUME NEW v \in Worker, pc[v] # "idle", g \in Uses(v) PROVE FALSE
    BY DEF Used
  <2>2. HandlerCareful(v) BY DEF Whole
  <2>3. v # w BY <1>2, <1>3, <2>1, UsedNames
  <2>4. g \in NamesOf(v) BY <1>2, <2>1, <2>2, CarefulFacts
  <2>5. Changing(v)
    <3>1. job[v].req.op \in Reads => Uses(v) = {}
      BY <1>2, <2>1, <2>2, CarefulFacts, StepSets, UsedNames
    <3>2. QED BY <2>1, <3>1 DEF Changing
  <2>6. QED BY <2>3, <2>4, <2>5 DEF Unguessed, Careful
<1>5. ~HalfDeleted(g)
  <2>1. SUFFICES ASSUME cpc # "idle", held.name = g PROVE FALSE BY DEF HalfDeleted
  <2>2. held \in Message /\ held # NoDelivery BY <1>2, <2>1, HeldFacts
  <2>3. Pending(held) BY <2>2 DEF Whole, ConsumerCareful
  <2>4. QED BY <2>1, <2>2, <2>3
<1>6. ~Visible(g) BY DEF Visible, IsExist
<1>7. QED BY <1>1, <1>4, <1>5, <1>6 DEF Whole, Unused

(* A handler that draws a name.                                             *)
LEMMA Draws ==
  ASSUME Inv, Apart, Careful, Whole, NEW w \in Worker, WorkerStep(w), Generate(w)
  PROVE  Fares(w)
<1>a. TypeOK /\ HandlerCareful(w) BY DEF Inv, Whole
<1>b. /\ pc[w] # "idle" /\ Placed(w)
      /\ w \in DOMAIN pc /\ w \in DOMAIN job
  BY <1>a, AtHand
<1>c. pc[w] = "generate" /\ job[w].req.op = "generate"
  BY <1>a, AtHand, StepTells DEF Generate
<1>1. PICK g \in Generated :
        /\ ~IsExist(data, g) /\ Unguessed(w, g)
        /\ \A m \in Message : Pending(m) => m.name # g
        /\ issued' = issued \cup {g}
        /\ job' = [job EXCEPT ![w].target = g,
                     ![w].new.expiredAt = Expiry("generate", job[w].req.duration)]
  BY DEF Generate, Careful
<1> DEFINE e == Expiry("generate", job[w].req.duration)
<1>2. /\ pc' = [pc EXCEPT ![w] = "schedule"]
      /\ UNCHANGED store /\ UNCHANGED brokerVars /\ now' = now
  BY DEF Generate, Goto
<1>3. Empty(g) BY <1>1, DrawnEmpty
<1>4. job[w] \in Job /\ job[w].new \in Metadata /\ job[w].req.duration \in 0..MaxDuration
  BY <1>a, <1>b, JobFacts
<1>5. job'[w] = [job[w] EXCEPT !.target = g,
                   !.new = [job[w].new EXCEPT !.expiredAt = e]]
  BY <1>b, <1>1
<1>6. /\ job'[w].req = job[w].req /\ job'[w].target = g /\ job'[w].old = job[w].old
      /\ job'[w].new = [job[w].new EXCEPT !.expiredAt = e]
  BY <1>4, <1>5 DEF Job
<1>7. job'[w].new.sha1 = job[w].new.sha1 /\ job'[w].new.expiredAt = e
  BY <1>4, <1>6 DEF Metadata
<1>8. now \in 1..MaxTime /\ e \in Nat /\ e > now
  BY <1>a, <1>4, DurationAssumption DEF TypeOK, EnvironmentOK, Expiry, Never
<1>9. pc'[w] = "schedule" BY <1>b, <1>2
<1>10. job[w].old = None BY <1>b, <1>c DEF Placed
<1>11. Gives(w)' = {g} BY <1>c, <1>6, <1>9, <1>10 DEF Gives
<1>12. Placed(w)'
  <2>1. "schedule" \in StepsOf("generate") /\ "schedule" \notin Moving BY StepSets
  <2>2. e # Never BY <1>8 DEF Never
  <2>3. QED
    BY <1>b, <1>c, <1>1, <1>6, <1>7, <1>9, <1>10, <1>11, <2>1, <2>2 DEF Placed
<1>13. InTime(w)'
  BY <1>c, <1>2, <1>6, <1>7, <1>8, <1>10 DEF InTime, Alive, Due
<1>14. Stands(w)'
  BY <1>2, <1>3, <1>6, <1>9, <1>10 DEF Stands, Empty, Kept, store
<1>15. Heard(w)'
  <2>1. \A m : Pending(m)' <=> Pending(m) BY <1>2 DEF Pending, brokerVars
  <2>2. "schedule" \notin Moving BY StepSets
  <2>3. QED BY <1>c, <1>1, <1>6, <1>9, <2>1, <2>2 DEF Heard
<1>16. Uses(w) = {} BY <1>a, <1>c, UsedNames
<1>17. QED BY <1>12, <1>13, <1>14, <1>15, <1>16 DEF Fares, HandlerCareful

(* A handler that has read the metadata of the file it is about to move:    *)
(* the name it moves the file to is empty, and no message is about it.      *)
LEMMA KeepsOld ==
  ASSUME Inv, Careful, Whole, NEW w \in Worker, WorkerStep(w), ReadOldMeta(w)
  PROVE  Fares(w)
<1>a. TypeOK /\ HandlerCareful(w) BY DEF Inv, Whole
<1>b. /\ pc[w] # "idle" /\ Placed(w) /\ InTime(w) /\ Stands(w) /\ Heard(w)
      /\ w \in DOMAIN pc /\ w \in DOMAIN job
  BY <1>a, AtHand
<1>c. pc[w] = "readOldMeta" /\ job[w].req.op \in {"upload", "rename"}
  BY <1>a, AtHand, StepTells DEF ReadOldMeta
<1>d. PICK x \in Name : x = job[w].req.name BY <1>a, <1>b, CarefulFacts
<1>e. Visible(x) BY <1>b, <1>c, <1>d DEF Stands
<1>f. PICK found \in Metadata : found = meta[x]
  BY <1>a, <1>e DEF TypeOK, StoreOK, Visible
<1>g. UNCHANGED store /\ UNCHANGED brokerVars /\ now' = now
  BY DEF ReadOldMeta
<1>1. PICK to \in MoveTargets(w) :
        /\ KeepOld(w, meta[job[w].req.name], to)
        /\ issued' = issued \cup {to}
  BY DEF ReadOldMeta
<1>2. /\ Goto(w, IF NeedsDeletion(found) THEN "scheduleOld" ELSE "statMove")
      /\ job' = [job EXCEPT ![w].old = found, ![w].moveTo = to]
  BY <1>1, <1>d, <1>e, <1>f DEF KeepOld, Visible
<1>3. job[w] \in Job BY <1>a, <1>b, JobFacts
<1>4. job'[w] = [job[w] EXCEPT !.old = found, !.moveTo = to] BY <1>b, <1>2
<1>5. /\ job'[w].req = job[w].req /\ job'[w].target = job[w].target
      /\ job'[w].old = found /\ job'[w].moveTo = to /\ job'[w].new = job[w].new
  BY <1>3, <1>4 DEF Job
<1>6. /\ pc'[w] \in {"scheduleOld", "statMove"}
      /\ pc'[w] = "scheduleOld" => found.expiredAt # Never
  BY <1>b, <1>2 DEF Goto, NeedsDeletion, Careful
<1>7. Empty(to) /\ to \in Name /\ \A m \in Message : Pending(m) => m.name # to
  <2>1. CASE job[w].req.op = "rename"
    <3>1. to = job[w].moveTo BY <1>1, <1>b, <2>1 DEF MoveTargets, Placed
    <3>2. Empty(to) BY <1>b, <1>c, <2>1, <3>1 DEF Stands
    <3>3. pc[w] \notin Moving BY <1>c, StepSets
    <3>4. QED BY <1>a, <1>b, <2>1, <3>1, <3>2, <3>3, CarefulFacts DEF Heard
  <2>2. CASE job[w].req.op # "rename"
    <3>1. to \in Backup \ issued BY <1>1, <2>2 DEF MoveTargets
    <3>2. to \in Name BY <3>1 DEF Name
    <3>3. QED BY <3>1, <3>2 DEF Whole, NamesIssued, MessagesFit, Empty
  <2>3. QED BY <2>1, <2>2
<1>8. x # to BY <1>e, <1>7 DEF Visible, Empty
<1>9. found # None BY NoneAssumption
<1>10. pc[w] \notin Moving \cup Making /\ pc'[w] \in Moving /\ pc'[w] \notin Making
       /\ pc'[w] \in StepsOf(job[w].req.op)
  BY <1>c, <1>6, StepSets
<1>11. job[w].old = None BY <1>b, <1>10 DEF Placed
<1>12. job[w].req.op = "rename" => to = job[w].moveTo
  BY <1>1, <1>b DEF MoveTargets, Placed
<1>13. Gives(w)' = Gives(w) \cup {to} /\ Uses(w)' = Uses(w) \cup {to}
  BY <1>c, <1>5, <1>9, <1>11, <1>12 DEF Gives, Uses
<1>14. Placed(w)'
  <2>1. Gives(w)' \subseteq issued' BY <1>b, <1>1, <1>13 DEF Placed
  <2>2. QED BY <1>b, <1>5, <1>6, <1>9, <1>10, <1>12, <1>c, <2>1 DEF Placed
<1>15. InTime(w)'
  BY <1>b, <1>c, <1>d, <1>f, <1>g, <1>5, <1>9 DEF InTime, Alive, Due, store
<1>16. Stands(w)'
  BY <1>d, <1>e, <1>f, <1>g, <1>5, <1>6, <1>7 DEF Stands, Visible, Empty, store
<1>17. Heard(w)'
  <2>1. \A m : Pending(m)' <=> Pending(m) BY <1>g DEF Pending, brokerVars
  <2>2. QED BY <1>b, <1>c, <1>5, <1>7, <1>10, <2>1 DEF Heard
<1>18. QED BY <1>6, <1>13, <1>14, <1>15, <1>16, <1>17 DEF Fares, HandlerCareful

(* A handler that only reads.                                               *)
LEMMA ReadsOn ==
  ASSUME TypeOK, NEW w \in Worker, WorkerStep(w), HandlerCareful(w),
         GetData(w) \/ GetMeta(w) \/ List(w) \/ ListMeta(w)
  PROVE  Fares(w)
<1>a. /\ pc[w] # "idle" /\ Placed(w) /\ InTime(w)
      /\ w \in DOMAIN pc /\ w \in DOMAIN job
  BY AtHand
<1>b. job[w].req.op \in Reads
  BY AtHand, StepTells DEF GetData, GetMeta, List, ListMeta
<1>c. OnlyWorkers BY DEF GetData, GetMeta, List, ListMeta
<1>d. pc[w] \in {"getData", "getMeta", "list", "listMeta"}
  BY DEF GetData, GetMeta, List, ListMeta
<1>e. Uses(w) = {} BY <1>a, <1>d, UsedNames
<1>f. job[w] \in Job BY <1>a, JobFacts
<1>1. ASSUME NEW answer, Finish(w, answer) PROVE Fares(w) BY <1>1, <1>e, EndsWell
<1>2. ASSUME NEW label \in {"getMeta", "listMeta"}, Goto(w, label),
             NEW x, \/ job' = [job EXCEPT ![w].got = x]
                    \/ job' = [job EXCEPT ![w].todo = x]
      PROVE  Fares(w)
  <2>1. /\ job'[w].req = job[w].req /\ job'[w].target = job[w].target
        /\ job'[w].moveTo = job[w].moveTo /\ job'[w].new = job[w].new
        /\ job'[w].old = job[w].old
    <3>1. job'[w] = [job[w] EXCEPT !.got = x] \/ job'[w] = [job[w] EXCEPT !.todo = x]
      BY <1>a, <1>2
    <3>2. QED BY <1>f, <3>1 DEF Job
  <2>2. pc'[w] = label BY <1>a, <1>2 DEF Goto
  <2>3. job[w].old = None BY <1>a, <1>d, StepSets DEF Placed
  <2>4. pc'[w] \in StepsOf(job[w].req.op) /\ pc'[w] \notin Moving \cup Making
    BY <1>b, <1>2, <2>2, StepSets
  <2>5. job[w].req.op \notin {"upload", "generate", "rename", "delete"} BY <1>b DEF Reads
  <2>6. Gives(w)' = {} BY <2>1, <2>3, <2>5 DEF Gives
  <2>7. Placed(w)' BY <1>a, <1>2, <2>1, <2>2, <2>3, <2>4, <2>5, <2>6 DEF Placed
  <2>8. InTime(w)'
    BY <1>a, <1>c, <2>1, <2>5 DEF InTime, Alive, Due, OnlyWorkers, environment
  <2>9. Stands(w)' BY <1>2, <2>2 DEF Stands
  <2>10. Heard(w)' BY <2>1, <2>4, <2>5 DEF Heard
  <2>11. QED BY <1>e, <2>7, <2>8, <2>9, <2>10 DEF Fares, HandlerCareful
<1>3. CASE GetData(w)
  BY <1>1, <1>2, <1>3 DEF GetData, Fail
<1>4. CASE GetMeta(w) BY <1>1, <1>4 DEF GetMeta, Fail
<1>5. CASE List(w) BY <1>2, <1>5 DEF List
<1>6. CASE ListMeta(w)
  <2>1. ASSUME NEW n, job' = [job EXCEPT ![w].todo = @ \ {n}], Goto(w, "listMeta")
        PROVE  Fares(w)
    BY <1>2, <2>1
  <2>2. QED BY <1>1, <1>6, <2>1 DEF ListMeta, Fail
<1>7. QED BY <1>3, <1>4, <1>5, <1>6

(* Every step of a careful handler leaves it careful, and what it stops     *)
(* using whole or empty.                                                    *)
LEMMA HandlerFares ==
  ASSUME Inv, Apart, Careful, Whole, NEW w \in Worker, WorkerStep(w)
  PROVE  Fares(w)
<1>1. TypeOK /\ HandlerCareful(w) BY DEF Inv, Whole
<1>2. ~StatRollback(w) /\ ~Rollback(w)
  <2>1. pc[w] \notin {"statRollback", "rollback"} BY <1>1, AtHand, StepTells
  <2>2. QED BY <2>1 DEF StatRollback, Rollback
<1>3. QED
  BY <1>1, <1>2, UploadLooks, OthersLook, WorkLooks, MovesOn, Relocates, Deletes, Makes,
     Announces, Draws, KeepsOld, ReadsOn
  DEF WorkerStep
-----------------------------------------------------------------------------
(* What is stored, announced and deleted.                                   *)

(* The names in use have no deadline behind them.                           *)
LEMMA UsedAlive ==
  ASSUME TypeOK, NEW w \in Worker, pc[w] # "idle", HandlerCareful(w), NEW n \in Uses(w)
  PROVE  meta[n] = None \/ Alive(meta[n].expiredAt)
<1>a. Placed(w) /\ InTime(w) /\ Stands(w) BY DEF HandlerCareful
<1>b. job[w].req.op \in Operation /\ pc[w] \in StepsOf(job[w].req.op) BY CarefulFacts
<1>1. CASE job[w].req.op \in {"upload", "rename", "delete"} /\ n = job[w].req.name
  BY <1>a, <1>1 DEF InTime
<1>2. CASE job[w].req.op = "generate" /\ pc[w] # "generate" /\ n = job[w].target
  <2>1. pc[w] \in Making BY <1>b, <1>2, StepSets
  <2>2. QED BY <1>a, <1>2, <2>1, StepSets DEF Stands, Empty
<1>3. CASE job[w].req.op = "rename" /\ n = job[w].moveTo
  <2>1. pc[w] \in {"readRenamed", "readOldMeta"} \cup Moving BY <1>b, <1>3, StepSets
  <2>2. QED BY <1>a, <1>3, <2>1, StepSets DEF Stands, Empty
<1>4. CASE job[w].old # None /\ n = job[w].moveTo
  <2>1. pc[w] \in Moving \cup Making BY <1>a, <1>4 DEF Placed
  <2>2. CASE pc[w] \in Moving BY <1>a, <1>4, <2>2, StepSets DEF Stands, Empty
  <2>3. CASE pc[w] \in Making
    <3>1. Kept(w) BY <1>a, <2>3, StepSets DEF Stands
    <3>2. QED BY <1>a, <1>4, <3>1 DEF Kept, InTime
  <2>4. QED BY <2>1, <2>2, <2>3
<1>5. QED BY <1>a, <1>1, <1>2, <1>3, <1>4 DEF Uses, Gives, Placed

(* So the consumer, past the comparison, works on a name nobody uses.       *)
LEMMA CleanerAlone ==
  ASSUME Inv, Whole, cpc \in Cleaning, NEW w \in Worker, pc[w] # "idle"
  PROVE  held.name \notin Uses(w)
<1>1. TypeOK /\ HandlerCareful(w) /\ now \in Nat
  BY DEF Inv, Whole, TypeOK, EnvironmentOK
<1>2. seen # None /\ meta[held.name] = seen /\ seen.expiredAt \in 1..now
  BY DEF Whole, ConsumerCareful
<1>3. ~Alive(seen.expiredAt) BY <1>1, <1>2 DEF Alive, Due, Never
<1>4. QED BY <1>1, <1>2, <1>3, UsedAlive

(* Two handlers use no name in common.                                      *)
LEMMA UsesApart ==
  ASSUME TypeOK, Apart, Whole, NEW v \in Worker, NEW w \in Worker, v # w,
         pc[v] # "idle", pc[w] # "idle"
  PROVE  Uses(v) \cap Uses(w) = {}
<1>1. HandlerCareful(v) /\ HandlerCareful(w) BY DEF Whole
<1>2. ASSUME NEW u \in Worker, pc[u] # "idle", HandlerCareful(u)
      PROVE  Uses(u) = {} \/ (Changing(u) /\ Uses(u) \subseteq NamesOf(u))
  BY <1>2, CarefulFacts, StepSets, UsedNames DEF Changing
<1>3. QED BY <1>1, <1>2 DEF Apart

(* A message pending before is in order with the metadata there after: what *)
(* a handler puts there has the deadline of the message, or other bytes.    *)
LEMMA StillFits ==
  ASSUME Inv, Whole, [Next]_vars, NEW m \in Message, Pending(m),
         meta'[m.name] # None, meta'[m.name].sha1 = m.sha1
  PROVE  meta'[m.name].expiredAt = m.expiredAt
<1>1. TypeOK /\ m.name \in Name BY DEF Inv, Message
<1>2. CASE meta'[m.name] = meta[m.name] BY <1>2 DEF Whole, MessagesFit
<1>3. ASSUME NEW w \in Worker, pc[w] \in WritingPc, m.name = job[w].target,
             meta'[m.name] = job[w].new
      PROVE  meta'[m.name].expiredAt = m.expiredAt
  <2>1. pc[w] \in Making /\ pc[w] \notin {"idle", "generate"}
    BY <1>3 DEF Making, WritingPc
  <2>2. HandlerCareful(w) /\ Heard(w) /\ Placed(w) BY <2>1 DEF Whole, HandlerCareful
  <2>3. job[w].req.op \in {"upload", "generate"}
    BY <1>1, <2>1, <2>2, CarefulFacts, StepTells
  <2>4. job[w].new.sha1 = job[w].req.content BY <2>2 DEF Placed
  <2>5. QED BY <1>3, <2>1, <2>2, <2>3, <2>4 DEF Heard
<1>4. ASSUME NEW w \in Worker, pc[w] \in RelocationPc, m.name = job[w].moveTo,
             meta'[m.name] = job[w].old
      PROVE  meta'[m.name].expiredAt = m.expiredAt
  <2>1. pc[w] \in Moving /\ pc[w] # "idle" BY <1>4, StepSets DEF Moving
  <2>2. Heard(w) BY <2>1 DEF Whole, HandlerCareful
  <2>3. QED BY <1>4, <2>1, <2>2 DEF Heard
<1>5. QED BY <1>1, <1>2, <1>3, <1>4, NewMetadata

(* Metadata that a step puts in place has its deadline ahead.               *)
LEMMA WrittenAlive ==
  ASSUME Inv, Whole, [Next]_vars, NEW n \in Name, meta'[n] # None, meta'[n] # meta[n]
  PROVE  /\ Alive(meta'[n].expiredAt)
         /\ now < meta'[n].expiredAt => Pending(DeletionOf(n, meta'[n]))
<1>1. TypeOK BY DEF Inv
<1>2. ASSUME NEW w \in Worker, pc[w] \in WritingPc, n = job[w].target,
             meta'[n] = job[w].new
      PROVE  /\ Alive(meta'[n].expiredAt)
             /\ now < meta'[n].expiredAt => Pending(DeletionOf(n, meta'[n]))
  <2>1. pc[w] # "idle" /\ pc[w] \in Making BY <1>2 DEF WritingPc, Making
  <2>2. HandlerCareful(w) BY DEF Whole
  <2>3. job[w].req.op \notin Reads
    BY <1>1, <2>1, <2>2, CarefulFacts, StepTells DEF Reads
  <2>4. Alive(job[w].new.expiredAt) BY <2>1, <2>2, <2>3 DEF HandlerCareful, InTime
  <2>5. QED BY <1>2, <2>4 DEF Inv, HandlersScheduled, HandlerScheduled
<1>3. ASSUME NEW w \in Worker, pc[w] \in RelocationPc, n = job[w].moveTo,
             meta'[n] = job[w].old
      PROVE  /\ Alive(meta'[n].expiredAt)
             /\ now < meta'[n].expiredAt => Pending(DeletionOf(n, meta'[n]))
  <2>1. pc[w] # "idle" /\ pc[w] \in Moving BY <1>3, StepSets DEF Moving
  <2>2. Alive(job[w].old.expiredAt)
    BY <2>1 DEF Whole, HandlerCareful, InTime, Placed
  <2>3. QED BY <1>3, <2>2 DEF Inv, HandlersScheduled, HandlerScheduled
<1>4. QED BY <1>1, <1>2, <1>3, NewMetadata

(* The consumer forgets a message at once only if there is no metadata of   *)
(* the bytes it is about.                                                   *)
LEMMA ForgottenUnfit ==
  ASSUME TypeOK, Careful, [Next]_vars, Forget, cpc = "readMeta", held # NoDelivery
  PROVE  meta[held.name] = None \/ meta[held.name].sha1 # held.sha1
<1>1. held' = NoDelivery BY DEF Forget
<1>2. CASE ConsumerStep
  <2>1. ReadMeta
    BY <1>2 DEF ConsumerStep, CheckDue, CheckExpiry, StatExpired, RemoveExpired,
       StatExpiredMeta, RemoveExpiredMeta, Acknowledge
  <2>2. QED BY <1>1, <2>1 DEF ReadMeta, Compare, brokerVars
<1>3. ASSUME NEW w \in Worker, WorkerStep(w) PROVE FALSE
  BY <1>1, <1>3, HandlerLeaves
<1>4. ASSUME NEW w \in Worker, NEW r \in Request, Submit(w, r) PROVE FALSE
  BY <1>1, <1>4 DEF Submit, brokerVars
<1>5. ASSUME NEW m \in Message, TakeDelivery(m) PROVE FALSE BY <1>5 DEF TakeDelivery
<1>6. CASE Tick \/ LoseBroker \/ UNCHANGED vars
  BY <1>1, <1>6 DEF Tick, LoseBroker, Disconnect, vars, brokerVars
<1>7. ~Restart
  BY DEF Restart, Careful, TypeOK, EnvironmentOK
<1>8. QED BY <1>2, <1>3, <1>4, <1>5, <1>6, <1>7 DEF Next

(* Every file with a deadline keeps a message until it is gone.             *)
LEMMA AnnouncedStep ==
  ASSUME Inv, Careful, Whole, [Next]_vars
  PROVE  Announced'
<1>1. SUFFICES ASSUME NEW n \in Name, NEW md, md = meta'[n], md # None,
                      md.expiredAt # Never
               PROVE  Pending(DeletionOf(n, md))'
  BY DEF Announced
<1>2. TypeOK /\ TypeOK' /\ ConsumerHoldsDue BY TypeStep DEF Inv
<1>3. md \in Metadata BY <1>1, <1>2 DEF TypeOK, StoreOK
<1>4. PICK m \in Message : m = DeletionOf(n, md) BY <1>3, DeletionType
<1>5. m.name = n /\ m.sha1 = md.sha1 /\ m.expiredAt = md.expiredAt
  BY <1>4 DEF DeletionOf
<1>6. CASE md = meta[n]
  <2>1. Pending(m) BY <1>1, <1>4, <1>6 DEF Whole, Announced
  <2>2. ASSUME Forget, held = m, cpc \in {"readMeta", "ack"} PROVE FALSE
    <3>1. held # NoDelivery BY <2>2, NoneAssumption
    <3>2. CASE cpc = "readMeta"
      BY <1>1, <1>2, <1>5, <1>6, <2>2, <3>1, <3>2, ForgottenUnfit
    <3>3. CASE cpc = "ack"
      BY <1>1, <1>5, <1>6, <2>2, <3>3 DEF Whole, ConsumerCareful
    <3>4. QED BY <2>2, <3>2, <3>3
  <2>3. Pending(m)' BY <1>2, <2>1, <2>2, PendingUnlessForgotten
  <2>4. QED BY <1>4, <2>3 DEF Pending
<1>7. CASE md # meta[n]
  <2>1. Alive(md.expiredAt) /\ (now < md.expiredAt => Pending(m))
    BY <1>1, <1>4, <1>7, WrittenAlive
  <2>2. now \in Int /\ md.expiredAt \in Int
    BY <1>2, <1>3, DurationAssumption DEF TypeOK, EnvironmentOK, Metadata, Time
  <2>3. now < md.expiredAt BY <1>1, <2>1, <2>2 DEF Alive, Due
  <2>4. Pending(m)' BY <1>2, <1>5, <2>1, <2>3, PendingStable
  <2>5. QED BY <1>4, <2>4 DEF Pending
<1>8. QED BY <1>6, <1>7
-----------------------------------------------------------------------------
(* A step of a handler.                                                     *)

(* The others do not notice.                                                *)
LEMMA OthersFare ==
  ASSUME Inv, Apart, Whole, NEW w \in Worker, WorkerStep(w), NEW v \in Worker, v # w
  PROVE  /\ HandlerCareful(v)' /\ Uses(v)' = Uses(v)
         /\ pc'[v] = pc[v]
<1>1. TypeOK /\ HandlerCareful(v) /\ HandlerCareful(w) BY DEF Inv, Whole
<1>2. pc'[v] = pc[v] /\ job'[v] = job[v] BY <1>1, OthersAlone
<1>3. pc[w] # "idle" /\ now' = now /\ issued \subseteq issued' BY <1>1, HandlerLeaves
<1>4. CASE pc[v] = "idle" BY <1>2, <1>4 DEF HandlerCareful, Uses, Gives
<1>5. CASE pc[v] # "idle"
  <2>1. Uses(v) \subseteq Name /\ Gives(w) \subseteq Uses(w)
    BY <1>1, <1>3, <1>5, CarefulFacts
  <2>2. Uses(v) \cap Uses(w) = {} BY <1>1, <1>3, <1>5, UsesApart
  <2>3. \A n \in Uses(v) : data'[n] = data[n] /\ meta'[n] = meta[n]
    BY <1>1, <2>1, <2>2, HandlerChanges
  <2>4. \A m \in Message : Pending(m)' => Pending(m) \/ m.name \notin Uses(v)
    BY <1>1, <2>1, <2>2, HandlerPending
  <2>5. QED BY <1>1, <1>2, <1>3, <2>3, <2>4, StaysCareful
<1>6. QED BY <1>4, <1>5

(* Nor does the consumer.                                                   *)
LEMMA ConsumerUnmoved ==
  ASSUME Inv, Apart, Whole, NEW w \in Worker, WorkerStep(w)
  PROVE  ConsumerCareful'
<1>1. TypeOK /\ HandlerCareful(w) /\ ConsumerHoldsDue /\ ConsumerCareful
  BY DEF Inv, Whole
<1>2. pc[w] # "idle" /\ now' = now /\ held' = held /\ cpc' = cpc /\ seen' = seen
  BY <1>1, HandlerLeaves DEF consumerVars
<1>3. [Next]_vars BY DEF Next
<1>4. PICK h : h = held OBVIOUS
<1>5. h # NoDelivery => h \in Message BY <1>1, <1>4 DEF TypeOK, BrokerOK
<1>6. h # NoDelivery => Pending(h)'
  <2>1. ~(Forget /\ h # NoDelivery) BY <1>2, <1>4 DEF Forget
  <2>2. h # NoDelivery => Pending(h) BY <1>1, <1>4 DEF ConsumerCareful
  <2>3. QED BY <1>1, <1>3, <1>5, <2>1, <2>2, PendingUnlessForgotten
<1>7. held # NoDelivery => Pending(held)' BY <1>2, <1>4, <1>6 DEF Pending
<1>8. cpc # "idle" => h \in Message /\ h.name \in Name BY <1>1, <1>4, HeldFacts
<1>9. cpc \in Cleaning => data'[h.name] = data[h.name] /\ meta'[h.name] = meta[h.name]
  <2>1. cpc \in Cleaning => cpc # "idle" BY DEF Cleaning
  <2>2. QED BY <1>1, <1>2, <1>4, <1>8, <2>1, CleanerAlone, HandlerChanges
<1>10. ASSUME cpc = "ack", meta'[h.name] # None PROVE meta'[h.name].expiredAt # h.expiredAt
  <2>1. CASE meta'[h.name] = meta[h.name]
    BY <1>1, <1>4, <1>10, <2>1 DEF ConsumerCareful
  <2>2. CASE meta'[h.name] # meta[h.name]
    <3>1. Alive(meta'[h.name].expiredAt)
      BY <1>3, <1>8, <1>10, <2>2, WrittenAlive
    <3>2. h.expiredAt <= now BY <1>1, <1>4, <1>10 DEF ConsumerHoldsDue, DueConsumerPc
    <3>3. h # NoDelivery BY <1>1, <1>4, <1>10 DEF ConsumerHoldsDue
    <3>4. h.expiredAt # Never
      BY <1>1, <1>4, <1>5, <3>3 DEF ConsumerCareful, Whole, MessagesFit
    <3>5. QED BY <3>1, <3>2, <3>4 DEF Alive, Due
  <2>3. QED BY <2>1, <2>2
<1>11. QED
  <2>1. {"statMeta", "removeMeta"} \subseteq Cleaning BY DEF Cleaning
  <2>2. QED BY <1>1, <1>2, <1>4, <1>7, <1>9, <1>10, <2>1 DEF ConsumerCareful

(* A step of a handler keeps everything whole.                              *)
LEMMA HandlerWhole ==
  ASSUME Inv, Apart, Careful, Whole, NEW w \in Worker, WorkerStep(w)
  PROVE  Whole'
<1>1. TypeOK /\ HandlerCareful(w) BY DEF Inv, Whole
<1>2. Fares(w) BY HandlerFares
<1>3. [Next]_vars BY DEF Next
<1>4. /\ pc[w] # "idle" /\ issued \subseteq issued' /\ held' = held /\ cpc' = cpc
  BY <1>1, HandlerLeaves DEF consumerVars
<1>5. \A v \in Worker : HandlerCareful(v)' BY <1>2, OthersFare DEF Fares
<1>6. Unused'
  <2>1. SUFFICES ASSUME NEW n \in Name
                 PROVE  Used(n)' \/ Visible(n)' \/ Empty(n)' \/ HalfDeleted(n)'
    BY DEF Unused
  <2>2. ASSUME NEW v \in Worker, v # w, pc[v] # "idle", n \in Uses(v) PROVE Used(n)'
    BY <2>2, OthersFare DEF Used
  <2>3. CASE n \in Uses(w) BY <1>2, <2>3 DEF Fares, Used
  <2>4. CASE n \notin Uses(w)
    <3>1. data'[n] = data[n] /\ meta'[n] = meta[n] BY <1>1, <2>4, HandlerChanges
    <3>2. Used(n) => Used(n)' BY <2>2, <2>4 DEF Used
    <3>3. QED
      BY <1>4, <3>1, <3>2 DEF Whole, Unused, Visible, Empty, HalfDeleted
  <2>5. QED BY <2>3, <2>4
<1>7. Gives(w) \subseteq issued BY <1>1, <1>4 DEF HandlerCareful, Placed
<1>8. NamesIssued'
  BY <1>1, <1>4, <1>7, HandlerChanges DEF Whole, NamesIssued
<1>9. MessagesFit'
  <2>1. SUFFICES ASSUME NEW m \in Message, Pending(m)'
                 PROVE  /\ m.name \in issued' /\ m.expiredAt # Never
                        /\ meta'[m.name] # None /\ meta'[m.name].sha1 = m.sha1 =>
                             meta'[m.name].expiredAt = m.expiredAt
    BY DEF MessagesFit
  <2>2. CASE Pending(m)
    BY <1>3, <1>4, <2>2, StillFits DEF Whole, MessagesFit
  <2>3. CASE /\ m.name \in Gives(w) /\ Empty(m.name) /\ m.expiredAt # Never
             /\ UNCHANGED store
    BY <1>4, <1>7, <2>3 DEF Empty, store
  <2>4. QED BY <1>1, <2>1, <2>2, <2>3, HandlerPending
<1>10. QED
  BY <1>3, <1>5, <1>6, <1>8, <1>9, AnnouncedStep, ConsumerUnmoved DEF Whole
-----------------------------------------------------------------------------
(* A request arrives.                                                       *)

(* What it finds under the names it will change.                            *)
LEMMA FoundWhole ==
  ASSUME Inv, Careful, Whole, NEW w \in Worker, NEW r \in Request, Submit(w, r),
         r.op \notin Reads
  PROVE  /\ Visible(r.name) \/ Empty(r.name)
         /\ r.op = "rename" => Empty(r.newName)
         /\ meta[r.name] # None => Alive(meta[r.name].expiredAt)
<1>a. TypeOK /\ ConsumerHoldsDue /\ now \in Nat
  BY DEF Inv, TypeOK, EnvironmentOK
<1>b. r.name \in Name /\ r.newName \in Name BY <1>a, Submitted
<1>c. pc[w] = "idle" /\ Admissible(r) BY DEF Submit
<1>1. ASSUME NEW n \in {r.name, r.newName} PROVE ~Used(n)
  <2>1. SUFFICES ASSUME NEW v \in Worker, pc[v] # "idle", n \in Uses(v) PROVE FALSE
    BY DEF Used
  <2>2. HandlerCareful(v) BY DEF Whole
  <2>3. Changing(v) /\ n \in NamesOf(v)
    BY <1>a, <2>1, <2>2, CarefulFacts, StepSets, UsedNames DEF Changing
  <2>4. QED BY <1>1, <1>c, <2>3 DEF Admissible, Careful
<1>2. ASSUME NEW n \in Name, HalfDeleted(n)
      PROVE  meta[n] # None /\ ~Alive(meta[n].expiredAt)
  <2>1. meta[n] # None /\ meta[n].expiredAt \in 1..now
    BY <1>2 DEF HalfDeleted, Whole, ConsumerCareful, Cleaning
  <2>2. QED BY <1>a, <2>1 DEF Alive, Due, Never
<1>3. meta[r.name] # None => Alive(meta[r.name].expiredAt)
  BY <1>c DEF Admissible, Careful, IsExist
<1>4. Visible(r.name) \/ Empty(r.name)
  BY <1>b, <1>1, <1>2, <1>3 DEF Whole, Unused
<1>5. r.op = "rename" => Empty(r.newName)
  <2>1. r.op = "rename" => meta[r.newName] = None
    BY <1>c DEF Admissible, Careful, IsExist
  <2>2. QED BY <1>b, <1>1, <1>2, <2>1 DEF Whole, Unused, Visible
<1>6. QED BY <1>3, <1>4, <1>5

(* A request starts careful.                                                *)
LEMMA StartsCareful ==
  ASSUME Inv, Careful, Whole, NEW w \in Worker, NEW r \in Request, Submit(w, r)
  PROVE  HandlerCareful(w)'
<1>a. TypeOK /\ now \in Nat BY DEF Inv, TypeOK, EnvironmentOK
<1>b. /\ r \in RequestType /\ r.op \in Operation
      /\ pc'[w] = FirstStep(r.op) /\ job'[w].req = r
      /\ job'[w].target = r.name /\ job'[w].moveTo = r.newName /\ job'[w].old = None
      /\ job'[w].new.sha1 = r.content
      /\ data' = data /\ meta' = meta /\ UNCHANGED brokerVars
      /\ issued' = issued \cup Targets(r)
  BY <1>a, Submitted
<1>c. now' = now /\ Admissible(r) /\ w \in DOMAIN job
  BY <1>a DEF Submit, TypeOK, WorkersOK
<1>d. pc'[w] = (CASE r.op = "upload" -> "exist" [] r.op = "generate" -> "generate"
                  [] r.op = "rename" -> "readRenamed" [] r.op = "delete" -> "statDelete"
                  [] r.op = "getFile" -> "getData" [] r.op = "getMetadata" -> "getMeta"
                  [] r.op = "getFiles" -> "list")
  BY <1>b DEF FirstStep
<1>e. /\ pc'[w] \in StepsOf(r.op) /\ pc'[w] \notin Moving \cup Making
      /\ r.op \in {"upload", "generate", "rename", "delete"} \/ r.op \in Reads
      /\ "upload" \notin Reads /\ "generate" \notin Reads /\ "rename" \notin Reads
      /\ "delete" \notin Reads
  BY <1>b, <1>d, StepSets DEF Operation, Reads
<1>1. Gives(w)' = Targets(r)
  BY <1>b, <1>d DEF Gives, Targets
<1>2. Placed(w)' BY <1>b, <1>d, <1>e, <1>1, StepSets DEF Placed
<1>3. Alive(job'[w].new.expiredAt)
  <2>1. job'[w].new.expiredAt =
          (IF r.op = "upload" THEN Expiry(r.op, r.duration) ELSE Never)
    BY <1>c DEF Submit
  <2>2. r.duration \in 0..MaxDuration BY <1>b DEF RequestType
  <2>3. r.op = "upload" =>
          job'[w].new.expiredAt = Never \/ ~(job'[w].new.expiredAt <= now)
    BY <1>a, <2>1, <2>2, DurationAssumption DEF Expiry
  <2>4. QED BY <2>1, <2>3 DEF Alive, Due
<1>4. InTime(w)'
  <2>1. r.op \in {"upload", "rename", "delete"} /\ meta[r.name] # None =>
          Alive(meta[r.name].expiredAt)
    BY <1>e, FoundWhole
  <2>2. QED BY <1>b, <1>c, <1>3, <2>1 DEF InTime, Alive, Due
<1>5. Stands(w)'
  <2>1. pc'[w] \in {"exist", "readRenamed", "statDelete"} =>
          r.op \notin Reads /\ (pc'[w] = "readRenamed" => r.op = "rename")
    BY <1>b, <1>d, <1>e DEF Operation
  <2>2. /\ pc'[w] \in {"exist", "readRenamed", "statDelete"} =>
             Visible(r.name) \/ Empty(r.name)
        /\ pc'[w] = "readRenamed" => Empty(r.newName)
    BY <2>1, FoundWhole
  <2>3. pc'[w] \in {"exist", "generate", "readRenamed", "statDelete", "getData",
                    "getMeta", "list"}
    BY <1>b, <1>d DEF Operation
  <2>4. QED BY <1>b, <2>2, <2>3 DEF Stands, Visible, Empty
<1>6. Heard(w)'
  <2>1. \A m : Pending(m)' <=> Pending(m) BY <1>b DEF Pending, brokerVars
  <2>2. \A m \in Message : Pending(m) /\ m.name \in Targets(r) =>
          r.op = "upload" /\ m.sha1 # r.content
    BY <1>c DEF Admissible, Careful
  <2>3. r.op = "generate" => pc'[w] = "generate" BY <1>d
  <2>4. QED BY <1>b, <1>e, <2>1, <2>2, <2>3 DEF Heard, Targets
<1>7. QED BY <1>2, <1>4, <1>5, <1>6 DEF HandlerCareful

(* It disturbs nobody and nothing.                                          *)
LEMMA SubmitWhole ==
  ASSUME Inv, Careful, Whole, NEW w \in Worker, NEW r \in Request, Submit(w, r)
  PROVE  Whole'
<1>a. TypeOK BY DEF Inv
<1>b. /\ pc[w] = "idle" /\ data' = data /\ meta' = meta /\ UNCHANGED brokerVars
      /\ issued' = issued \cup Targets(r)
      /\ \A v \in Worker : v # w => pc'[v] = pc[v] /\ job'[v] = job[v]
  BY <1>a, Submitted
<1>c. UNCHANGED consumerVars /\ now' = now BY DEF Submit
<1>d. cpc' = cpc /\ seen' = seen /\ held' = held BY <1>b, <1>c DEF consumerVars, brokerVars
<1>e. \A m : Pending(m)' <=> Pending(m) BY <1>b DEF Pending, brokerVars
<1>f. [Next]_vars BY DEF Next
<1>1. ASSUME NEW v \in Worker, v # w PROVE HandlerCareful(v)' /\ Uses(v)' = Uses(v)
  BY <1>a, <1>b, <1>c, <1>e, <1>1, StaysCareful DEF Whole
<1>2. \A v \in Worker : HandlerCareful(v)' BY <1>1, StartsCareful
<1>3. \A n \in Name : Used(n) => Used(n)' BY <1>b, <1>1 DEF Used
<1>4. Unused' BY <1>b, <1>d, <1>3 DEF Whole, Unused, Visible, Empty, HalfDeleted
<1>5. ConsumerCareful'
  <2>1. held # NoDelivery => Pending(held)'
    BY <1>d, <1>e DEF Whole, ConsumerCareful
  <2>2. QED BY <1>b, <1>c, <1>d, <2>1 DEF Whole, ConsumerCareful
<1>6. NamesIssued' BY <1>b DEF Whole, NamesIssued
<1>7. MessagesFit' BY <1>b, <1>e DEF Whole, MessagesFit
<1>8. QED BY <1>f, <1>2, <1>4, <1>5, <1>6, <1>7, AnnouncedStep DEF Whole
-----------------------------------------------------------------------------
(* The consumer and the surroundings.                                       *)

(* None of them announces anything.                                         *)
LEMMA NothingAnnounced ==
  ASSUME TypeOK, ConsumerCareful,
         \/ UNCHANGED brokerVars
         \/ \E x \in Message : Deliver(x)
         \/ Forget \/ Requeue \/ Disconnect \/ Reconnect,
         NEW m \in Message, Pending(m)'
  PROVE  Pending(m)
<1>a. queue \in [Message -> Nat] /\ NoDelivery \notin Message
      /\ held \in Message \cup {NoDelivery}
  BY NoneAssumption DEF TypeOK, BrokerOK
<1>1. CASE UNCHANGED brokerVars BY <1>1 DEF brokerVars, Pending
<1>2. ASSUME NEW x \in Message, Deliver(x) PROVE Pending(m)
  BY <1>a, <1>2 DEF Deliver, Pending
<1>3. CASE Forget BY <1>a, <1>3 DEF Forget, Pending
<1>4. CASE queue' = TakenBack /\ held' \in {held, NoDelivery}
  BY <1>a, <1>4 DEF TakenBack, Pending, ConsumerCareful
<1>5. QED BY <1>1, <1>2, <1>3, <1>4 DEF Requeue, Disconnect, Reconnect

(* As long as the clock stands and they only touch what the consumer is     *)
(* cleaning, handlers stay careful, and only the consumer's own part has to *)
(* be looked at.                                                            *)
LEMMA QuietWhole ==
  ASSUME Inv, Careful, Whole, [Next]_vars,
         \/ ConsumerStep \/ (\E m \in Message : TakeDelivery(m))
         \/ LoseBroker \/ UNCHANGED vars,
         now' = now,
         \A n \in Name : \/ data'[n] = data[n] /\ meta'[n] = meta[n]
                         \/ cpc \in Cleaning /\ held.name = n,
         ConsumerCareful',
         \A n \in Name : ~Used(n) => Visible(n)' \/ Empty(n)' \/ HalfDeleted(n)'
  PROVE  Whole'
<1>a. TypeOK BY DEF Inv
<1>b. ~Restart BY <1>a DEF Restart, Careful, TypeOK, EnvironmentOK
<1>c. pc' = pc /\ job' = job /\ issued' = issued
  BY <1>a, <1>b, OtherSteps DEF workerVars
<1>d. \A m \in Message : Pending(m)' => Pending(m)
  BY <1>a, OtherSteps, NothingAnnounced DEF Whole
<1>1. ASSUME NEW w \in Worker PROVE HandlerCareful(w)' /\ Uses(w)' = Uses(w)
  <2>1. CASE pc[w] = "idle" BY <1>c, <2>1 DEF HandlerCareful, Uses, Gives
  <2>2. CASE pc[w] # "idle"
    <3>1. HandlerCareful(w) /\ Uses(w) \subseteq Name
      BY <1>a, <2>2, CarefulFacts DEF Whole
    <3>2. \A n \in Uses(w) : data'[n] = data[n] /\ meta'[n] = meta[n]
      BY <2>2, <3>1, CleanerAlone
    <3>3. QED BY <1>a, <1>c, <1>d, <3>1, <3>2, StaysCareful
  <2>3. QED BY <2>1, <2>2
<1>2. \A n \in Name : Used(n) => Used(n)' BY <1>c, <1>1 DEF Used
<1>3. Unused' BY <1>2 DEF Unused
<1>4. NamesIssued'
  BY <1>a, <1>c, OtherSteps DEF Whole, NamesIssued
<1>5. MessagesFit'
  <2>1. SUFFICES ASSUME NEW m \in Message, Pending(m)'
                 PROVE  /\ m.name \in issued' /\ m.expiredAt # Never
                        /\ meta'[m.name] # None /\ meta'[m.name].sha1 = m.sha1 =>
                             meta'[m.name].expiredAt = m.expiredAt
    BY DEF MessagesFit
  <2>2. Pending(m) BY <1>d, <2>1
  <2>3. QED BY <1>c, <2>2, StillFits DEF Whole, MessagesFit
<1>6. QED BY <1>1, <1>3, <1>4, <1>5, AnnouncedStep DEF Whole
(* A consumer that goes on in its work, or is done with a message.          *)
LEMMA ConsumerGoesOn ==
  ASSUME Inv, Whole, UNCHANGED brokerVars, now' = now, cpc # "idle",
         cpc' \in Cleaning =>
           /\ seen' # None /\ meta'[held.name] = seen' /\ seen'.expiredAt \in 1..now,
         cpc' \in {"statMeta", "removeMeta"} => data'[held.name] = None,
         cpc' = "ack" => meta'[held.name] = None
  PROVE  ConsumerCareful' /\ held' = held
<1>1. held' = held /\ (Pending(held)' <=> Pending(held)) BY DEF brokerVars, Pending
<1>2. held # NoDelivery => Pending(held)' BY <1>1 DEF Whole, ConsumerCareful
<1>3. QED BY <1>1, <1>2 DEF ConsumerCareful

LEMMA ConsumerSettles ==
  ASSUME NEW brokerAction, Settle(brokerAction), brokerAction => held' = NoDelivery
  PROVE  ConsumerCareful'
<1>1. cpc' = "idle" /\ held' = NoDelivery BY DEF Settle
<1>2. QED BY <1>1 DEF ConsumerCareful, Cleaning

(* What the consumer may do to what is stored, and to what it knows.        *)
LEMMA ConsumerCleans ==
  ASSUME Inv, Whole, ConsumerStep
  PROVE  /\ now' = now
         /\ \A n \in Name : \/ data'[n] = data[n] /\ meta'[n] = meta[n]
                            \/ cpc \in Cleaning /\ held.name = n
         /\ ConsumerCareful'
         /\ \A n \in Name : Visible(n) \/ Empty(n) \/ HalfDeleted(n) =>
              Visible(n)' \/ Empty(n)' \/ HalfDeleted(n)'
<1> DEFINE Kempt ==
      \A n \in Name : Visible(n) \/ Empty(n) \/ HalfDeleted(n) =>
        Visible(n)' \/ Empty(n)' \/ HalfDeleted(n)'
<1>a. TypeOK /\ ConsumerHoldsDue /\ ConsumerCareful BY DEF Inv, Whole
<1>b. now' = now
  BY DEF ConsumerStep, CheckDue, ReadMeta, CheckExpiry, StatExpired, RemoveExpired,
     StatExpiredMeta, RemoveExpiredMeta, Acknowledge, ConsumerOnly, environment
<1>c. cpc # "idle"
  BY DEF ConsumerStep, CheckDue, ReadMeta, CheckExpiry, StatExpired, RemoveExpired,
     StatExpiredMeta, RemoveExpiredMeta, Acknowledge
<1>d. PICK h \in Message : h = held BY <1>a, <1>c, HeldFacts
<1>e. h.name \in Name /\ Pending(h)
  BY <1>a, <1>c, <1>d, HeldFacts DEF ConsumerCareful
<1>f. data \in [Name -> Content \cup {None}] /\ meta \in [Name -> Metadata \cup {None}]
  BY <1>a DEF TypeOK, StoreOK
<1>g. (Forget => held' = NoDelivery) /\ (Requeue => held' = NoDelivery)
  BY DEF Forget, Requeue
<1>h. UNCHANGED store /\ cpc \notin {"statMeta", "removeMeta"} => Kempt
  BY DEF store, Visible, Empty, HalfDeleted
<1>i. cpc \in {"checkExpiry", "statData", "removeData", "statMeta", "removeMeta"} <=>
        cpc \in Cleaning
  BY DEF Cleaning
<1>1. CASE CheckDue
  <2>1. UNCHANGED store /\ cpc = "checkDue" BY <1>1 DEF CheckDue
  <2>2. ASSUME Continue("readMeta") PROVE ConsumerCareful'
    BY <1>b, <1>c, <2>2, ConsumerGoesOn DEF Continue, Cleaning
  <2>3. ASSUME Settle(Requeue) PROVE ConsumerCareful'
    BY <1>g, <2>3, ConsumerSettles
  <2>4. ConsumerCareful' BY <1>1, <2>2, <2>3 DEF CheckDue
  <2>5. QED BY <1>b, <1>h, <2>1, <2>4 DEF store
<1>2. CASE ReadMeta
  <2>1. UNCHANGED store /\ cpc = "readMeta" BY <1>2 DEF ReadMeta
  <2>2. ASSUME Settle(Forget) PROVE ConsumerCareful'
    BY <1>g, <2>2, ConsumerSettles
  <2>3. ASSUME meta[h.name] # None, meta[h.name].sha1 = h.sha1,
               cpc' = "checkExpiry", seen' = meta[h.name], UNCHANGED brokerVars
        PROVE  ConsumerCareful'
    <3>1. meta[h.name].expiredAt = h.expiredAt /\ h.expiredAt # Never
      BY <1>e, <2>3 DEF Whole, MessagesFit
    <3>2. h.expiredAt <= now BY <1>a, <1>d, <2>1 DEF ConsumerHoldsDue, DueConsumerPc
    <3>3. h.expiredAt \in 1..now
      BY <1>a, <1>d, <3>1, <3>2, DurationAssumption
      DEF Message, Time, Never, TypeOK, EnvironmentOK
    <3>4. QED BY <1>b, <1>c, <1>d, <2>1, <2>3, <3>1, <3>3, ConsumerGoesOn DEF store
  <2>4. ConsumerCareful' BY <1>2, <1>d, <2>2, <2>3 DEF ReadMeta, Compare
  <2>5. QED BY <1>b, <1>h, <2>1, <2>4 DEF store
<1>3. CASE CheckExpiry \/ StatExpired
  <2>1. UNCHANGED store /\ cpc \in {"checkExpiry", "statData"}
    BY <1>3 DEF CheckExpiry, StatExpired
  <2>2. ASSUME NEW label \in {"statData", "removeData"}, Continue(label)
        PROVE  ConsumerCareful'
    <3>1. seen # None /\ meta[held.name] = seen /\ seen.expiredAt \in 1..now
      BY <1>a, <1>i, <2>1 DEF ConsumerCareful
    <3>2. UNCHANGED brokerVars /\ seen' = seen /\ cpc' = label BY <2>2 DEF Continue
    <3>3. QED BY <1>b, <1>c, <2>1, <3>1, <3>2, ConsumerGoesOn DEF store
  <2>3. ASSUME Settle(Requeue) PROVE ConsumerCareful'
    BY <1>g, <2>3, ConsumerSettles
  <2>4. ConsumerCareful' BY <1>3, <2>2, <2>3 DEF CheckExpiry, StatExpired
  <2>5. QED BY <1>b, <1>h, <2>1, <2>4 DEF store
<1>4. CASE RemoveExpired
  <2>1. /\ meta' = meta /\ cpc = "removeData" /\ data'[h.name] = None
        /\ \A n \in Name : n # h.name => data'[n] = data[n]
    BY <1>4, <1>d, <1>e, <1>f DEF RemoveExpired, Removed
  <2>2. seen # None /\ meta[h.name] = seen /\ seen.expiredAt \in 1..now
    BY <1>a, <1>d, <1>i, <2>1 DEF ConsumerCareful
  <2>3. CASE Continue("statMeta")
    <3>1. UNCHANGED brokerVars /\ seen' = seen /\ cpc' = "statMeta"
      BY <2>3 DEF Continue
    <3>2. ConsumerCareful' /\ held' = held
      BY <1>b, <1>c, <1>d, <2>1, <2>2, <3>1, ConsumerGoesOn
    <3>3. HalfDeleted(h.name)' BY <1>d, <3>1, <3>2 DEF HalfDeleted
    <3>4. Kempt BY <2>1, <3>3 DEF Visible, Empty, HalfDeleted
    <3>5. QED BY <1>b, <1>d, <1>i, <2>1, <3>2, <3>4
  <2>4. CASE Settle(Requeue) /\ ~RemoveSucceeds(data, h.name)
    <3>1. ConsumerCareful' BY <1>g, <2>4, ConsumerSettles
    <3>2. \A n \in Name : data'[n] = data[n]
      BY <2>1, <2>4 DEF RemoveSucceeds, IsExist
    <3>3. Kempt BY <2>1, <3>2 DEF Visible, Empty, HalfDeleted
    <3>4. QED BY <1>b, <2>1, <3>1, <3>2, <3>3
  <2>5. QED BY <1>4, <1>d, <2>3, <2>4 DEF RemoveExpired
<1>5. CASE StatExpiredMeta
  <2>1. UNCHANGED store /\ cpc = "statMeta" BY <1>5 DEF StatExpiredMeta
  <2>2. /\ seen # None /\ meta[held.name] = seen /\ seen.expiredAt \in 1..now
        /\ data[held.name] = None
    BY <1>a, <1>i, <2>1 DEF ConsumerCareful
  <2>3. UNCHANGED brokerVars /\ seen' = seen /\ cpc' = "removeMeta"
    BY <1>5, <2>2 DEF StatExpiredMeta, Continue, IsExist
  <2>4. ConsumerCareful' /\ held' = held
    BY <1>b, <1>c, <2>1, <2>2, <2>3, ConsumerGoesOn DEF store
  <2>5. Kempt BY <2>1, <2>3, <2>4 DEF store, Visible, Empty, HalfDeleted
  <2>6. QED BY <1>b, <2>1, <2>4, <2>5 DEF store
<1>6. CASE RemoveExpiredMeta
  <2>1. /\ data' = data /\ cpc = "removeMeta" /\ meta'[h.name] = None
        /\ \A n \in Name : n # h.name => meta'[n] = meta[n]
    BY <1>6, <1>d, <1>e, <1>f DEF RemoveExpiredMeta, Removed
  <2>2. data[h.name] = None BY <1>a, <1>d, <2>1 DEF ConsumerCareful
  <2>3. UNCHANGED brokerVars /\ seen' = seen /\ cpc' = "ack"
    BY <1>6 DEF RemoveExpiredMeta, Continue
  <2>4. ConsumerCareful'
    BY <1>b, <1>c, <1>d, <2>1, <2>3, ConsumerGoesOn DEF Cleaning
  <2>5. Kempt BY <1>d, <2>1, <2>2 DEF Visible, Empty, HalfDeleted
  <2>6. QED BY <1>b, <1>d, <1>i, <2>1, <2>4, <2>5
<1>7. CASE Acknowledge
  <2>1. UNCHANGED store /\ cpc = "ack" BY <1>7 DEF Acknowledge
  <2>2. ConsumerCareful' BY <1>7, <1>g, ConsumerSettles DEF Acknowledge
  <2>3. QED BY <1>b, <1>h, <2>1, <2>2 DEF store
<1>8. QED BY <1>1, <1>2, <1>3, <1>4, <1>5, <1>6, <1>7 DEF ConsumerStep

(* A step of the consumer keeps everything whole.                           *)
LEMMA ConsumerWhole ==
  ASSUME Inv, Careful, Whole, ConsumerStep
  PROVE  Whole'
<1>1. [Next]_vars BY DEF Next
<1>2. \A n \in Name : ~Used(n) => Visible(n)' \/ Empty(n)' \/ HalfDeleted(n)'
  BY ConsumerCleans DEF Whole, Unused
<1>3. QED BY <1>1, <1>2, ConsumerCleans, QuietWhole

(* A delivery, a broken connection, or nothing at all.                      *)
LEMMA BrokerWhole ==
  ASSUME Inv, Careful, Whole,
         (\E m \in Message : TakeDelivery(m)) \/ LoseBroker \/ UNCHANGED vars
  PROVE  Whole'
<1>a. TypeOK /\ ConsumerHoldsDue /\ ConsumerCareful BY DEF Inv, Whole
<1>1. [Next]_vars BY DEF Next
<1>2. UNCHANGED store /\ now' = now
  BY DEF TakeDelivery, LoseBroker, vars, environment, ConsumerOnly
<1>3. CASE \E m \in Message : TakeDelivery(m)
  <2>1. PICK m \in Message : TakeDelivery(m) BY <1>3
  <2>2. connected /\ held' = m /\ connected' = connected /\ cpc' = "checkDue" /\ cpc = "idle"
    BY <2>1 DEF TakeDelivery, Deliver
  <2>3. Pending(held)' BY <2>2 DEF Pending
  <2>4. ConsumerCareful' BY <2>2, <2>3 DEF ConsumerCareful, Cleaning
  <2>5. \A n \in Name : ~Used(n) => Visible(n)' \/ Empty(n)'
    BY <1>2, <2>2 DEF Whole, Unused, store, Visible, Empty, HalfDeleted
  <2>6. QED BY <1>1, <1>2, <1>3, <2>4, <2>5, QuietWhole DEF store
<1>4. CASE LoseBroker \/ UNCHANGED vars
  <2>1. UNCHANGED <<store, cpc, seen, held>>
    BY <1>4 DEF LoseBroker, Disconnect, vars, consumerVars, brokerVars
  <2>2. held # NoDelivery => Pending(held)'
    <3>1. PICK h : h = held OBVIOUS
    <3>2. h # NoDelivery => h \in Message /\ Pending(h)
      BY <1>a, <3>1 DEF TypeOK, BrokerOK, ConsumerCareful
    <3>3. ~(Forget /\ h # NoDelivery) BY <2>1, <3>1 DEF Forget
    <3>4. h # NoDelivery => Pending(h)'
      BY <1>a, <1>1, <3>1, <3>2, <3>3, PendingUnlessForgotten
    <3>5. QED BY <2>1, <3>1, <3>4 DEF Pending
  <2>3. ConsumerCareful'
    BY <1>2, <2>1, <2>2 DEF Whole, ConsumerCareful, store
  <2>4. \A n \in Name : ~Used(n) => Visible(n)' \/ Empty(n)' \/ HalfDeleted(n)'
    BY <2>1 DEF Whole, Unused, store, Visible, Empty, HalfDeleted
  <2>5. QED BY <1>1, <1>2, <1>4, <2>3, <2>4, QuietWhole DEF store
<1>5. QED BY <1>3, <1>4
(* Time passes: no deadline of a handler with it, and what has expired      *)
(* stays so.                                                                *)
LEMMA TickInTime ==
  ASSUME Inv, Careful, Tick, NEW w \in Worker, pc[w] # "idle", HandlerCareful(w)
  PROVE  InTime(w)'
<1>a. TypeOK /\ now \in Nat BY DEF Inv, TypeOK, EnvironmentOK
<1>b. /\ now' = now + 1 /\ job' = job /\ meta' = meta
  BY DEF Tick, workerVars, store
<1>c. Placed(w) /\ InTime(w) BY DEF HandlerCareful
<1>1. CASE job[w].req.op \in Reads
  <2>1. job[w].old = None BY <1>a, <1>1, CarefulFacts, <1>c, StepSets DEF Placed
  <2>2. job[w].req.op \notin {"upload", "rename", "delete"} BY <1>1 DEF Reads
  <2>3. QED BY <1>b, <1>1, <2>1, <2>2 DEF InTime
<1>2. CASE job[w].req.op \notin Reads
  <2>1. \A t \in Deadlines(w) : Due(t) \/ now + 1 < t
    BY <1>2 DEF Tick, Careful, Changing
  <2>2. \A t \in Deadlines(w) : t \in Int
    <3>1. /\ job[w].new \in Metadata /\ job[w].old \in Metadata \cup {None}
          /\ meta[job[w].req.name] \in Metadata \cup {None}
      BY <1>a, CarefulFacts DEF TypeOK, StoreOK
    <3>2. QED BY <3>1, DurationAssumption DEF Deadlines, Metadata, Time
  <2>3. ASSUME NEW t \in Deadlines(w), Alive(t) PROVE t = Never \/ ~(t <= now')
    BY <1>a, <1>b, <2>1, <2>2, <2>3 DEF Alive, Due
  <2>4. /\ job[w].new.expiredAt \in Deadlines(w)
        /\ job[w].old # None => job[w].old.expiredAt \in Deadlines(w)
        /\ meta[job[w].req.name] # None =>
             meta[job[w].req.name].expiredAt \in Deadlines(w)
    BY DEF Deadlines
  <2>5. QED BY <1>b, <1>c, <1>2, <2>3, <2>4 DEF InTime, Alive, Due
<1>3. QED BY <1>1, <1>2

LEMMA TickWhole ==
  ASSUME Inv, Careful, Whole, Tick
  PROVE  Whole'
<1>a. now \in Nat BY DEF Inv, TypeOK, EnvironmentOK
<1>b. /\ now' = now + 1 /\ data' = data /\ meta' = meta /\ pc' = pc /\ job' = job
      /\ cpc' = cpc /\ seen' = seen /\ held' = held /\ issued' = issued
      /\ UNCHANGED brokerVars
  BY DEF Tick, workerVars, store, consumerVars, brokerVars
<1>c. \A m : Pending(m)' <=> Pending(m) BY <1>b DEF brokerVars, Pending
<1>1. ASSUME NEW w \in Worker, pc[w] # "idle" PROVE HandlerCareful(w)'
  <2>1. HandlerCareful(w) /\ Placed(w) /\ Stands(w) /\ Heard(w)
    BY <1>1 DEF Whole, HandlerCareful
  <2>2. InTime(w)' BY <1>1, <2>1, TickInTime
  <2>3. Gives(w)' = Gives(w) BY <1>b DEF Gives
  <2>4. Placed(w)' BY <1>b, <2>1, <2>3 DEF Placed
  <2>5. Stands(w)' BY <1>b, <2>1 DEF Stands, Kept, Visible, Empty
  <2>6. Heard(w)' BY <1>b, <1>c, <2>1 DEF Heard
  <2>7. QED BY <2>2, <2>4, <2>5, <2>6 DEF HandlerCareful
<1>2. \A w \in Worker : HandlerCareful(w)' BY <1>b, <1>1 DEF HandlerCareful
<1>3. ConsumerCareful'
  <2>1. held # NoDelivery => Pending(held)' BY <1>b, <1>c DEF Whole, ConsumerCareful
  <2>2. \A t : t \in 1..now => t \in 1..now' BY <1>a, <1>b
  <2>3. QED BY <1>b, <2>1, <2>2 DEF Whole, ConsumerCareful
<1>4. \A n \in Name : Used(n) => Used(n)' BY <1>b DEF Used, Uses, Gives
<1>5. Unused' BY <1>b, <1>4 DEF Whole, Unused, Visible, Empty, HalfDeleted
<1>6. NamesIssued' BY <1>b DEF Whole, NamesIssued
<1>7. MessagesFit' BY <1>b, <1>c DEF Whole, MessagesFit
<1>8. Announced' BY <1>b, <1>c DEF Whole, Announced, DeletionOf
<1>9. QED BY <1>2, <1>3, <1>5, <1>6, <1>7, <1>8 DEF Whole
-----------------------------------------------------------------------------
(* The invariant.                                                           *)

LEMMA WholeInit ==
  ASSUME Init
  PROVE  Whole
<1>1. \A n \in Name : data[n] = None /\ meta[n] = None BY DEF Init
<1>2. \A w \in Worker : pc[w] = "idle" BY DEF Init
<1>3. \A m \in Message : ~Pending(m)
  BY NoneAssumption DEF Init, Pending
<1>4. cpc = "idle" /\ held = NoDelivery BY DEF Init
<1>5. ConsumerCareful BY <1>4 DEF ConsumerCareful, Cleaning
<1>6. QED
  BY <1>1, <1>2, <1>3, <1>5
  DEF Whole, HandlerCareful, Unused, Empty, NamesIssued, MessagesFit, Announced

LEMMA WholeStep ==
  ASSUME Inv, Apart, Careful, Whole, [Next]_vars
  PROVE  Whole'
<1>1. ~Restart BY DEF Restart, Careful, Inv, TypeOK, EnvironmentOK
<1>2. QED
  BY <1>1, HandlerWhole, SubmitWhole, ConsumerWhole, BrokerWhole, TickWhole DEF Next

(* Careful clients of a process that does not die: every name is used by a  *)
(* handler, which knows what is stored there, or has a whole file or none,  *)
(* or the consumer is half way through deleting its file; every pending     *)
(* message about the bytes that are stored has their deadline, and every    *)
(* file with a deadline, due or not, has its message.                       *)
THEOREM AlwaysWhole ==
  ASSUME Careful
  PROVE  Spec => []Whole
<1>1. Init => Whole BY WholeInit
<1>2. Inv /\ Apart /\ Whole /\ [Next]_vars => Whole' BY WholeStep
<1>3. Spec => []Apart BY AlwaysApart DEF Careful
<1>4. QED BY <1>1, <1>2, <1>3, InvAlways, PTL DEF Spec

(* So bytes and metadata go together whenever no request and no deletion is *)
(* at work: no listing fails for good, no name is blocked for good.         *)
THEOREM AlwaysPaired ==
  ASSUME Careful
  PROVE  Spec => []Paired
<1>1. Inv /\ Whole => Paired
  <2>1. SUFFICES ASSUME Inv, Whole, cpc = "idle", \A w \in Worker : ~Changing(w),
                        NEW n \in Name
                 PROVE  IsExist(data, n) <=> IsExist(meta, n)
    BY DEF Paired
  <2>2. ASSUME NEW w \in Worker, pc[w] # "idle" PROVE n \notin Uses(w)
    <3>1. TypeOK /\ HandlerCareful(w) BY <2>1, <2>2 DEF Inv, Whole, HandlerCareful
    <3>2. job[w].req.op \in Reads BY <2>1, <2>2 DEF Changing
    <3>3. QED BY <2>2, <3>1, <3>2, CarefulFacts, UsedNames, StepSets
  <2>3. ~Used(n) BY <2>2 DEF Used
  <2>4. Visible(n) \/ Empty(n) BY <2>1, <2>3 DEF Whole, Unused, HalfDeleted
  <2>5. QED BY <2>4 DEF Visible, Empty, IsExist
<1>2. QED BY <1>1, AlwaysWhole, InvAlways, PTL
(* Bytes and metadata found together belong together, at any time.          *)
LEMMA FoundTogether ==
  ASSUME Inv, Whole, NEW n \in Name, data[n] # None, meta[n] # None
  PROVE  Visible(n)
<1>1. ASSUME NEW w \in Worker, pc[w] # "idle", n \in Uses(w) PROVE Visible(n)
  <2>1. TypeOK /\ HandlerCareful(w) /\ Placed(w) /\ Stands(w)
    BY <1>1 DEF Inv, Whole, HandlerCareful
  <2>2. /\ job[w].req.op \in Operation /\ pc[w] \in StepsOf(job[w].req.op)
    BY <1>1, <2>1, CarefulFacts
  <2>3. CASE job[w].req.op \in {"rename", "delete"} /\ n = job[w].req.name
    BY <2>1, <2>2, <2>3, StepSets DEF Stands, Empty
  <2>4. CASE job[w].req.op = "upload" /\ n = job[w].req.name
    BY <2>1, <2>2, <2>4, StepSets DEF Stands, Empty, Placed
  <2>5. CASE job[w].req.op = "generate" /\ pc[w] # "generate" /\ n = job[w].target
    BY <2>1, <2>2, <2>5, StepSets DEF Stands, Empty
  <2>6. CASE (job[w].req.op = "rename" \/ job[w].old # None) /\ n = job[w].moveTo
    <3>1. CASE pc[w] \in Moving \cup {"readRenamed", "readOldMeta"}
      <4>1. pc[w] = "readRenamed" => job[w].req.op = "rename"
        BY <2>2, StepTells
      <4>2. pc[w] = "readOldMeta" => job[w].req.op = "rename"
        BY <2>1, <2>6, StepSets DEF Placed
      <4>3. QED BY <2>1, <2>6, <3>1, <4>1, <4>2, StepSets DEF Stands, Empty
    <3>2. CASE pc[w] \in Making
      <4>1. job[w].old # None BY <2>2, <2>6, <3>2, StepTells
      <4>2. Kept(w) BY <2>1, <3>2, StepSets DEF Stands
      <4>3. QED BY <2>6, <4>1, <4>2 DEF Kept, Visible
    <3>3. pc[w] \in Moving \cup {"readRenamed", "readOldMeta"} \cup Making
      BY <2>1, <2>2, <2>6, StepSets DEF Placed
    <3>4. QED BY <3>1, <3>2, <3>3
  <2>7. QED BY <1>1, <2>1, <2>3, <2>4, <2>5, <2>6 DEF Uses, Gives, Placed
<1>2. ~HalfDeleted(n) BY DEF HalfDeleted, Whole, ConsumerCareful
<1>3. QED BY <1>1, <1>2 DEF Whole, Unused, Used, Empty

(* No file is ever stored beside metadata that describes other bytes, not   *)
(* even while requests are at work.                                         *)
THEOREM AlwaysMatched ==
  ASSUME Careful
  PROVE  Spec => []Matched
<1>1. Inv /\ Whole => Matched BY FoundTogether DEF Matched
<1>2. QED BY <1>1, InvAlways, AlwaysWhole, PTL

(* A file in order is lost to its deadline, or to a client deleting,        *)
(* renaming or replacing it, and to nothing else, also when names are used  *)
(* again with care.                                                         *)
THEOREM RemovedForCauseWhenCareful ==
  ASSUME Careful
  PROVE  Spec => RemovedForCause
<1>1. ASSUME Inv, Whole, Matched', [Next]_vars,
             NEW n \in Name, Visible(n), ~Visible(n)'
      PROVE  \/ Overdue(n)
             \/ \E w \in Worker : /\ Changing(w)
                                 /\ job[w].req.op # "generate"
                                 /\ job[w].req.name = n
  <2>a. TypeOK BY <1>1 DEF Inv
  <2>b. \A w \in Worker : HandlerCareful(w) BY <1>1 DEF Whole
  <2>1. \/ data[n] # None /\ data'[n] = None
        \/ meta[n] # None /\ meta'[n] = None
    <3>1. data'[n] # None /\ meta'[n] # None => Visible(n)' BY <1>1 DEF Matched
    <3>2. QED BY <1>1, <3>1 DEF Visible
  <2>2. CASE n = held.name /\ cpc \in {"removeData", "removeMeta"}
    BY <1>1, <2>2 DEF Whole, ConsumerCareful, Cleaning, Overdue
  <2>3. ASSUME NEW w \in Worker, n = job[w].req.name,
               pc[w] \in {"transfer", "removeSource", "removeOldMeta", "delete",
                          "deleteMeta"}
        PROVE  Changing(w) /\ job[w].req.op # "generate"
    <3>1. pc[w] # "idle" /\ pc[w] \in Moving \cup Deleting BY <2>3, StepSets
    <3>2. job[w].req.op \in {"upload", "rename", "delete"}
      BY <2>a, <2>b, <3>1, CarefulFacts, StepTells
    <3>3. QED BY <3>1, <3>2 DEF Changing, Reads
  <2>4. ASSUME NEW w \in Worker, Rollback(w) PROVE FALSE
    <3>1. pc[w] = "rollback" BY <2>4 DEF Rollback
    <3>2. QED BY <2>a, <2>b, <3>1, CarefulFacts, StepTells
  <2>5. QED BY <1>1, <2>a, <2>1, <2>2, <2>3, <2>4, RemovingMoves
<1>2. Inv /\ Whole /\ Matched' /\ [Next]_vars =>
        [\A n \in Name : Visible(n) /\ ~Visible(n)' =>
           \/ Overdue(n)
           \/ \E w \in Worker : /\ Changing(w)
                               /\ job[w].req.op # "generate"
                               /\ job[w].req.name = n]_vars
  BY <1>1
<1>3. QED BY <1>2, InvAlways, AlwaysWhole, AlwaysMatched, PTL DEF Spec, RemovedForCause
-----------------------------------------------------------------------------
(* What answers promise.                                                    *)

(* A request at work has not been answered.                                 *)
Unanswered == \A w \in Worker : pc[w] # "idle" => reply[w] = NoReply

LEMMA AnswersLast ==
  ASSUME TypeOK, NEW w \in Worker, WorkerStep(w)
  PROVE  pc'[w] = "idle" \/ reply'[w] = reply[w]
<1>1. \A answer : Finish(w, answer) => pc'[w] = "idle"
  BY DEF Finish, TypeOK, WorkersOK
<1>2. Fail(w) \/ Panic(w) => pc'[w] = "idle" BY <1>1 DEF Fail, Panic
<1>3. \A label : Goto(w, label) => reply'[w] = reply[w] BY DEF Goto
<1>4. \A label : Proceed(w, label) => reply'[w] = reply[w] BY <1>3 DEF Proceed
<1>5. Relocated(w) => pc'[w] = "idle" \/ reply'[w] = reply[w]
  BY <1>1, <1>3 DEF Relocated
<1>6. \A m, label : Schedule(w, m, label) => pc'[w] = "idle" \/ reply'[w] = reply[w]
  BY <1>2, <1>4 DEF Schedule
<1>7. \A found, to : KeepOld(w, found, to) => pc'[w] = "idle" \/ reply'[w] = reply[w]
  BY <1>2, <1>3 DEF KeepOld
<1>8. QED
  BY <1>1, <1>2, <1>3, <1>4, <1>5, <1>6, <1>7
  DEF WorkerStep, CheckExist, ReadOld, AnswerSame, ReadRenamed, ReadOldMeta,
     ScheduleOld, StatMove, Transfer, RemoveSource, CheckMetaExist, StatOldMeta,
     RemoveOldMeta, StatBackupMeta, WriteBackupMeta, Generate, ScheduleNew, StatData,
     WriteData, StatMeta, WriteMeta, StatRollback, Rollback, StatDelete, Delete,
     StatDeleteMeta, DeleteMeta, GetData, GetMeta, List, ListMeta

LEMMA AlwaysUnanswered == Spec => []Unanswered
<1>1. Init => Unanswered BY DEF Init, Unanswered
<1>2. ASSUME Inv, Unanswered, [Next]_vars PROVE Unanswered'
  <2>a. TypeOK BY <1>2 DEF Inv
  <2>1. SUFFICES ASSUME NEW w \in Worker, pc'[w] # "idle" PROVE reply'[w] = NoReply
    BY DEF Unanswered
  <2>2. ASSUME NEW v \in Worker, WorkerStep(v) PROVE reply'[w] = NoReply
    BY <1>2, <2>a, <2>1, <2>2, AnswersLast, OthersAlone, HandlerLeaves DEF Unanswered
  <2>3. ASSUME NEW v \in Worker, NEW r \in Request, Submit(v, r) PROVE reply'[w] = NoReply
    BY <1>2, <2>a, <2>1, <2>3, Submitted DEF Unanswered
  <2>4. CASE Restart BY <2>1, <2>4 DEF Restart
  <2>5. CASE UNCHANGED workerVars BY <1>2, <2>1, <2>5 DEF workerVars, Unanswered
  <2>6. QED BY <1>2, <2>a, <2>2, <2>3, <2>4, <2>5, OtherSteps DEF Next
<1>3. Inv /\ Unanswered /\ [Next]_vars => Unanswered' BY <1>2
<1>4. QED BY <1>1, <1>3, InvAlways, PTL DEF Spec

(* The step in which an upload is answered.                                 *)
LEMMA UploadAnswers ==
  ASSUME Inv, Careful, Whole, Unanswered, [Next]_vars,
         NEW w \in Worker, Answers(w, {"upload", "generate"})
  PROVE  WriteMeta(w) \/ (AnswerSame(w) /\ job[w].req.op = "upload")
<1>a. TypeOK /\ HandlerCareful(w) BY DEF Inv, Whole
<1>d. /\ pc[w] # "idle" /\ job[w].req.op \in {"upload", "generate"}
      /\ reply'[w].status = "ok" /\ reply[w] = NoReply
  BY DEF Answers, Unanswered
<1>1. reply'[w] # reply[w] BY <1>d DEF NoReply, Answer
<1>2. WorkerStep(w)
  <2>1. ~Restart BY DEF Restart, Careful, Inv, TypeOK, EnvironmentOK
  <2>2. ASSUME NEW r \in Request PROVE ~Submit(w, r) BY <1>d DEF Submit
  <2>3. \A v \in Worker : v # w /\ (WorkerStep(v) \/ \E r \in Request : Submit(v, r))
          => reply'[w] = reply[w]
    BY <1>a, OthersAlone, Submitted
  <2>4. QED BY <1>a, <1>1, <2>1, <2>2, <2>3, OtherSteps DEF Next, workerVars
<1>3. pc[w] \notin {"deleteMeta", "getMeta", "listMeta"}
  BY <1>a, <1>d, CarefulFacts, StepTells, StepSets DEF Reads
<1>4. ASSUME pc[w] \in {"metaExist", "writeBackupMeta"} PROVE FALSE
  <2>1. CheckMetaExist(w) \/ WriteBackupMeta(w)
    BY <1>2, <1>4
    DEF WorkerStep, CheckExist, ReadOld, AnswerSame, ReadRenamed, ReadOldMeta,
     ScheduleOld, StatMove, Transfer, RemoveSource, StatOldMeta,
     RemoveOldMeta, StatBackupMeta, Generate, ScheduleNew, StatData,
     WriteData, StatMeta, WriteMeta, StatRollback, Rollback, StatDelete, Delete,
     StatDeleteMeta, DeleteMeta, GetData, GetMeta, List, ListMeta
  <2>2. QED
    BY <1>d, <1>1, <2>1 DEF CheckMetaExist, WriteBackupMeta, Relocated, Proceed, Goto
<1>5. CASE pc[w] = "sameMeta"
  <2>1. AnswerSame(w)
    BY <1>2, <1>5
    DEF WorkerStep, CheckExist, ReadOld, ReadRenamed, ReadOldMeta,
     ScheduleOld, StatMove, Transfer, RemoveSource, CheckMetaExist, StatOldMeta,
     RemoveOldMeta, StatBackupMeta, WriteBackupMeta, Generate, ScheduleNew, StatData,
     WriteData, StatMeta, WriteMeta, StatRollback, Rollback, StatDelete, Delete,
     StatDeleteMeta, DeleteMeta, GetData, GetMeta, List, ListMeta
  <2>2. job[w].req.op = "upload" BY <1>a, <1>d, <1>5, CarefulFacts, StepTells
  <2>3. QED BY <2>1, <2>2
<1>6. QED BY <1>a, <1>d, <1>1, <1>2, <1>3, <1>4, <1>5, AnsweringSteps

(* What the last step of an upload finds and leaves.                        *)
LEMMA WriteMetaLeaves ==
  ASSUME Inv, Whole, NEW w \in Worker, WriteMeta(w)
  PROVE  /\ job[w].target \in Name /\ job[w].moveTo \in Name
         /\ data' = data /\ data[job[w].target] = job[w].new.sha1
         /\ data[job[w].target] # None /\ job[w].new # None
         /\ meta'[job[w].target] = job[w].new
         /\ \A n \in Name : n # job[w].target => meta'[n] = meta[n]
         /\ meta[job[w].target] = None /\ Kept(w)
         /\ reply'[w] = Answer("ok", job[w].req.content, job[w].new)
<1>1. pc[w] = "writeMeta" BY DEF WriteMeta
<1>2. TypeOK /\ HandlerCareful(w) /\ Placed(w) /\ Stands(w)
  BY <1>1 DEF Inv, Whole, HandlerCareful
<1>3. /\ job[w].target \in Name /\ job[w].moveTo \in Name /\ job[w].new \in Metadata
      /\ job[w].req.content \in Content
  BY <1>1, <1>2, CarefulFacts
<1>4. /\ data[job[w].target] = job[w].req.content /\ meta[job[w].target] = None /\ Kept(w)
      /\ job[w].new.sha1 = job[w].req.content
  BY <1>1, <1>2 DEF Stands, Placed
<1>5. job[w].new # None /\ job[w].req.content # None BY <1>3, NoneAssumption
<1>6. meta \in [Name -> Metadata \cup {None}] /\ w \in DOMAIN reply
  BY <1>2 DEF TypeOK, StoreOK, WorkersOK
<1>7. data' = data /\ meta' = [meta EXCEPT ![job[w].target] = job[w].new]
  BY DEF WriteMeta, Created, OnlyMeta
<1>8. reply'[w] = Answer("ok", job[w].req.content, job[w].new)
  BY <1>6 DEF WriteMeta, Finish
<1>9. QED BY <1>3, <1>4, <1>5, <1>6, <1>7, <1>8

(* An acknowledged upload has stored its file, also when it replaces one,   *)
(* or finds the same bytes stored already.                                  *)
THEOREM AcknowledgedVisibleWhenCareful ==
  ASSUME Careful
  PROVE  Spec => AcknowledgedVisible
<1>1. ASSUME Inv, Whole, Unanswered, [Next]_vars, NEW w \in Worker, NEW n \in Name,
             Answers(w, {"upload", "generate"}), job[w].target = n
      PROVE  Visible(n)'
  <2>1. CASE WriteMeta(w) BY <1>1, <2>1, WriteMetaLeaves DEF Visible
  <2>2. CASE AnswerSame(w) /\ job[w].req.op = "upload"
    <3>1. pc[w] = "sameMeta" /\ data' = data /\ meta' = meta
      BY <2>2 DEF AnswerSame, OnlyWorkers, store
    <3>2. HandlerCareful(w) /\ Placed(w) /\ Stands(w)
      BY <1>1, <3>1 DEF Whole, HandlerCareful
    <3>3. Visible(n) BY <1>1, <2>2, <3>1, <3>2 DEF Placed, Stands
    <3>4. QED BY <3>1, <3>3 DEF Visible
  <2>3. QED BY <1>1, <2>1, <2>2, UploadAnswers
<1>2. Inv /\ Whole /\ Unanswered /\ [Next]_vars =>
        [\A w \in Worker :
           \A n \in Name :
             Answers(w, {"upload", "generate"}) /\ job[w].target = n => Visible(n)']_vars
  BY <1>1
<1>3. QED
  BY <1>2, InvAlways, AlwaysWhole, AlwaysUnanswered, PTL DEF Spec, AcknowledgedVisible

(* And it keeps the file it replaces: the backup its metadata names holds   *)
(* the old bytes and the old metadata.                                      *)
THEOREM BackupAlwaysKept ==
  ASSUME Careful
  PROVE  Spec => BackupKept
<1>1. ASSUME Inv, Whole, Unanswered, [Next]_vars, NEW w \in Worker,
             Answers(w, {"upload"}), job[w].old # None
      PROVE  /\ reply'[w].meta.backup = job[w].moveTo
             /\ meta'[job[w].moveTo] = job[w].old
             /\ data'[job[w].moveTo] = job[w].old.sha1
  <2>1. CASE WriteMeta(w)
    <3>1. PICK to \in Name : to = job[w].moveTo BY <1>1, <2>1, WriteMetaLeaves
    <3>2. /\ data[to] = job[w].old.sha1 /\ meta[to] = job[w].old /\ job[w].new.backup = to
          /\ data' = data /\ meta[job[w].target] = None
      BY <1>1, <2>1, <3>1, WriteMetaLeaves DEF Kept
    <3>3. to # job[w].target BY <1>1, <3>2
    <3>4. meta'[to] = job[w].old BY <1>1, <2>1, <3>2, <3>3, WriteMetaLeaves
    <3>5. reply'[w].meta = job[w].new
      <4>1. reply'[w] = Answer("ok", job[w].req.content, job[w].new)
        BY <1>1, <2>1, WriteMetaLeaves
      <4>2. QED BY <4>1 DEF Answer
    <3>6. QED BY <3>1, <3>2, <3>4, <3>5
  <2>2. CASE AnswerSame(w)
    <3>1. pc[w] = "sameMeta" BY <2>2 DEF AnswerSame
    <3>2. HandlerCareful(w) /\ Placed(w) BY <1>1, <3>1 DEF Whole, HandlerCareful
    <3>3. QED BY <1>1, <3>1, <3>2, StepSets DEF Placed
  <2>3. Answers(w, {"upload", "generate"}) BY <1>1 DEF Answers
  <2>4. QED BY <1>1, <2>1, <2>2, <2>3, UploadAnswers
<1>2. Inv /\ Whole /\ Unanswered /\ [Next]_vars =>
        [\A w \in Worker :
           Answers(w, {"upload"}) /\ job[w].old # None /\ job[w].old.expiredAt \notin 1..now =>
             /\ reply'[w].meta.backup = job[w].moveTo
             /\ meta'[job[w].moveTo] = job[w].old
             /\ data'[job[w].moveTo] = job[w].old.sha1]_vars
  BY <1>1
<1>3. QED
  BY <1>2, InvAlways, AlwaysWhole, AlwaysUnanswered, PTL DEF Spec, BackupKept
=============================================================================
