-------------------------- MODULE FileHostingProofs --------------------------
(***************************************************************************)
(* Theorems about FileHosting, for every value of its constants.            *)
(*                                                                         *)
(* Inv is inductive: a step of the system is a step of one worker, of the   *)
(* consumer, or of the surroundings, and each touches the four parts of Inv *)
(* in a few ways only, which the lemmas state once.                         *)
(***************************************************************************)
EXTENDS FileHosting, TLAPS

USE DEF Never

-----------------------------------------------------------------------------
(* Types.                                                                   *)

(* Every deletion message a handler makes from typed metadata is one.       *)
LEMMA DeletionType ==
  ASSUME NEW n \in Name, NEW md \in Metadata
  PROVE  DeletionOf(n, md) \in Message
  BY DEF DeletionOf, Message, Metadata

(* The expiry of a request lies within the times of the model.              *)
LEMMA ExpiryType ==
  ASSUME now \in 1..MaxTime, NEW d \in 0..MaxDuration, NEW op
  PROVE  Expiry(op, d) \in Time
  BY DurationAssumption DEF Expiry, Time

(* A handler that only moves on keeps its locals.                           *)
LEMMA ProceedType ==
  ASSUME WorkersOK, NEW w \in Worker, NEW label \in WorkerPc \ {"idle"},
         pc[w] # "idle", Proceed(w, label),
         label \in RelocationPc \cup {"scheduleOld"} => job[w].old \in Metadata
  PROVE  WorkersOK'
  BY DEF WorkersOK, Proceed, Goto

(* A handler that moves on with other locals.                               *)
LEMMA UpdateType ==
  ASSUME WorkersOK, NEW w \in Worker, NEW label \in WorkerPc, NEW j \in Job,
         Goto(w, label), job' = [job EXCEPT ![w] = j],
         label \in RelocationPc \cup {"scheduleOld"} => j.old \in Metadata
  PROVE  WorkersOK'
  BY DEF WorkersOK, Goto

(* A handler that answers.                                                  *)
LEMMA FinishType ==
  ASSUME WorkersOK, NEW w \in Worker, NEW answer \in Reply, Finish(w, answer)
  PROVE  WorkersOK'
<1>1. pc' \in [Worker -> WorkerPc] BY DEF WorkersOK, Finish, WorkerPc
<1>2. job' \in [Worker -> Job \cup {None}] BY DEF WorkersOK, Finish
<1>3. reply' \in [Worker -> Reply] BY DEF WorkersOK, Finish
<1>4. \A v \in Worker : pc'[v] # "idle" => v # w /\ pc'[v] = pc[v] /\ job'[v] = job[v]
  BY DEF WorkersOK, Finish
<1>5. "idle" \notin RelocationPc \cup {"scheduleOld"} BY DEF RelocationPc
<1>6. QED BY <1>1, <1>2, <1>3, <1>4, <1>5 DEF WorkersOK

(* An answer built from typed parts is one.                                 *)
LEMMA AnswerType ==
  ASSUME NEW status \in {"none", "ok", "error", "panic", "lost"},
         NEW content \in Content \cup {None}, NEW md \in Metadata \cup {None}
  PROVE  Answer(status, content, md) \in Reply
  BY DEF Answer, Reply

(* The two ways a handler gives up.                                         *)
LEMMA FailType ==
  ASSUME WorkersOK, NEW w \in Worker, Fail(w) \/ Panic(w)
  PROVE  WorkersOK'
<1>1. PICK answer \in Reply : Finish(w, answer)
  BY AnswerType DEF Fail, Panic
<1>2. QED BY <1>1, FinishType

(* The two stores keep their types under what the storage does to them.     *)
LEMMA StoreType ==
  ASSUME NEW S, NEW s \in [Name -> S \cup {None}], NEW n \in Name, NEW to \in Name,
         NEW x \in S
  PROVE  /\ Created(s, n, x) \in [Name -> S \cup {None}]
         /\ Removed(s, n) \in [Name -> S \cup {None}]
         /\ Transferred(s, n, to) \in [Name -> S \cup {None}]
  BY DEF Created, Removed, Transferred

(* The broker's variables under its own actions.                            *)
LEMMA PublishType ==
  ASSUME BrokerOK, NEW m \in Message, Publish(m)
  PROVE  BrokerOK'
  BY DEF BrokerOK, Publish

(* Taking a delivery back leaves a bag of messages.                         *)
LEMMA TakenBackType ==
  ASSUME BrokerOK
  PROVE  TakenBack \in [Message -> Nat]
  BY DEF BrokerOK, TakenBack

(* So does settling it, either way.                                         *)
LEMMA SettleType ==
  ASSUME BrokerOK, Forget \/ Requeue
  PROVE  BrokerOK'
  BY TakenBackType DEF BrokerOK, Forget, Requeue
-----------------------------------------------------------------------------
(* The steps of the workers keep the types.                                 *)

(* What a handler at work can count on.                                     *)
LEMMA JobFacts ==
  ASSUME TypeOK, NEW w \in Worker, pc[w] # "idle"
  PROVE  /\ job[w] \in Job
         /\ job[w].req \in RequestType
         /\ job[w].req.name \in Name /\ job[w].req.newName \in Name
         /\ job[w].req.content \in Content
         /\ job[w].req.duration \in 0..MaxDuration
         /\ job[w].target \in Name /\ job[w].moveTo \in Name
         /\ job[w].new \in Metadata
         /\ job[w].got \in Content \cup {None}
<1>1. job[w] \in Job BY DEF TypeOK, WorkersOK
<1>2. job[w].req \in RequestType BY <1>1, RequestAssumption DEF Job
<1>3. QED BY <1>1, <1>2 DEF Job, RequestType

(* A request that arrives gives its worker typed locals.                    *)
LEMMA SubmitType ==
  ASSUME TypeOK, NEW w \in Worker, NEW r \in Request, Submit(w, r)
  PROVE  TypeOK'
<1>1. r \in RequestType BY RequestAssumption
<1>2. r.name \in Name /\ r.newName \in Name /\ r.content \in Content
      /\ r.duration \in 0..MaxDuration /\ r.op \in Operation
  BY <1>1 DEF RequestType
<1> DEFINE deadline == IF r.op = "upload" THEN Expiry(r.op, r.duration) ELSE Never
           fresh == [sha1 |-> r.content, backup |-> None, expiredAt |-> deadline]
           j == [req |-> r, target |-> r.name, moveTo |-> r.newName, old |-> None,
                 new |-> fresh, got |-> None, todo |-> {}]
<1>3. deadline \in Time
  <2>1. now \in 1..MaxTime BY DEF TypeOK, EnvironmentOK
  <2>2. 0 \in Time BY DurationAssumption DEF Time
  <2>3. QED BY <1>2, <2>1, <2>2, ExpiryType
<1>4. fresh \in Metadata BY <1>2, <1>3 DEF Metadata
<1>5. j \in Job BY <1>2, <1>4 DEF Job
<1>6. FirstStep(r.op) \in WorkerPc \ ({"scheduleOld"} \cup RelocationPc)
  BY <1>2 DEF FirstStep, Operation, WorkerPc, RelocationPc
<1>7. WorkersOK'
  <2>1. pc' = [pc EXCEPT ![w] = FirstStep(r.op)] /\ job' = [job EXCEPT ![w] = j]
        /\ reply' = [reply EXCEPT ![w] = NoReply]
    BY DEF Submit
  <2>2. NoReply \in Reply BY AnswerType DEF NoReply
  <2>3. QED BY <1>5, <1>6, <2>1, <2>2 DEF TypeOK, WorkersOK
<1>8. EnvironmentOK'
  BY <1>2, BoundsAssumption DEF TypeOK, EnvironmentOK, Submit, Targets
<1>9. UNCHANGED <<store, brokerVars, consumerVars>> BY DEF Submit
<1>10. QED
  BY <1>7, <1>8, <1>9
  DEF TypeOK, StoreOK, BrokerOK, ConsumerOK, store, brokerVars, consumerVars

(* What is left to show once a step leaves the rest alone.                  *)
LEMMA WorkersFrame ==
  ASSUME TypeOK, WorkersOK', OnlyWorkers
  PROVE  TypeOK'
  BY DEF TypeOK, OnlyWorkers, StoreOK, BrokerOK, ConsumerOK, EnvironmentOK,
         store, brokerVars, consumerVars, environment

(* The same for a step that writes a file,                                  *)
LEMMA DataFrame ==
  ASSUME TypeOK, WorkersOK', OnlyData, data' \in [Name -> Content \cup {None}]
  PROVE  TypeOK'
  BY DEF TypeOK, OnlyData, StoreOK, BrokerOK, ConsumerOK, EnvironmentOK,
         store, brokerVars, consumerVars, environment

(* for one that writes metadata,                                            *)
LEMMA MetaFrame ==
  ASSUME TypeOK, WorkersOK', OnlyMeta, meta' \in [Name -> Metadata \cup {None}]
  PROVE  TypeOK'
  BY DEF TypeOK, OnlyMeta, StoreOK, BrokerOK, ConsumerOK, EnvironmentOK,
         store, brokerVars, consumerVars, environment

(* and for one that publishes.                                              *)
LEMMA QueueFrame ==
  ASSUME TypeOK, WorkersOK', BrokerOK', OnlyQueue
  PROVE  TypeOK'
  BY DEF TypeOK, OnlyQueue, StoreOK, ConsumerOK, EnvironmentOK,
         store, consumerVars, environment

(* Publishing, or giving up when the channel is closed.                     *)
LEMMA ScheduleType ==
  ASSUME TypeOK, NEW w \in Worker, NEW m \in Message, NEW label \in WorkerPc \ {"idle"},
         pc[w] # "idle", Schedule(w, m, label), OnlyQueue,
         label \in RelocationPc \cup {"scheduleOld"} => job[w].old \in Metadata
  PROVE  TypeOK'
<1>1. CASE Publish(m) /\ Proceed(w, label)
  BY <1>1, PublishType, ProceedType, QueueFrame DEF TypeOK
<1>2. CASE Fail(w) /\ UNCHANGED brokerVars
  BY <1>2, FailType, QueueFrame DEF TypeOK, BrokerOK, brokerVars
<1>3. QED BY <1>1, <1>2 DEF Schedule

(* The labels between which a handler moves.                                *)
LEMMA Labels ==
  /\ RelocationPc \subseteq WorkerPc \ {"idle"}
  /\ WritingPc \subseteq WorkerPc \ ({"idle", "scheduleOld"} \cup RelocationPc)
  /\ {"exist", "readOld", "sameMeta", "readOldMeta", "schedule", "statRollback",
      "rollback", "generate", "readRenamed", "statDelete", "delete", "statDeleteMeta",
      "deleteMeta", "getData", "getMeta", "list", "listMeta"}
       \subseteq WorkerPc \ ({"idle", "scheduleOld"} \cup RelocationPc)
  /\ "scheduleOld" \in WorkerPc \ {"idle"}
  BY DEF WorkerPc, RelocationPc, WritingPc

(* Where the writing of a new file starts.                                  *)
LEMMA WriteNewType ==
  ASSUME NEW md
  PROVE  WriteNew(md) \in WorkerPc \ ({"idle", "scheduleOld"} \cup RelocationPc)
  BY DEF WriteNew, WorkerPc, WritingPc, RelocationPc

(* The end of a rename, or of the first half of a replacement.              *)
LEMMA RelocatedType ==
  ASSUME TypeOK, NEW w \in Worker, pc[w] # "idle", Relocated(w)
  PROVE  WorkersOK'
<1>1. job[w] \in Job /\ job[w].new \in Metadata /\ job[w].moveTo \in Name
  BY JobFacts
<1>2. CASE job[w].req.op = "rename"
  <2>1. Finish(w, Answer("ok", None, None)) BY <1>2 DEF Relocated
  <2>2. Answer("ok", None, None) \in Reply BY AnswerType
  <2>3. QED BY <2>1, <2>2, FinishType DEF TypeOK
<1>3. CASE job[w].req.op # "rename"
  <2> DEFINE j == [job[w] EXCEPT !.new.backup = job[w].moveTo]
  <2>1. Goto(w, WriteNew(job[w].new)) /\ job' = [job EXCEPT ![w] = j]
    BY <1>3 DEF Relocated, TypeOK, WorkersOK
  <2>2. j \in Job BY <1>1 DEF Job, Metadata
  <2>3. QED BY <2>1, <2>2, WriteNewType, UpdateType DEF TypeOK
<1>4. QED BY <1>2, <1>3

(* UploadFile and RenameFile up to the end of the relocation.               *)
LEMMA RelocationType ==
  ASSUME TypeOK, NEW w \in Worker,
         \/ CheckExist(w) \/ ReadOld(w) \/ AnswerSame(w) \/ ReadRenamed(w)
         \/ ReadOldMeta(w) \/ ScheduleOld(w) \/ StatMove(w) \/ Transfer(w)
         \/ RemoveSource(w) \/ CheckMetaExist(w) \/ StatOldMeta(w)
         \/ RemoveOldMeta(w) \/ StatBackupMeta(w) \/ WriteBackupMeta(w)
  PROVE  TypeOK'
<1> USE Labels
<1>a. WorkersOK /\ StoreOK BY DEF TypeOK
<1>b. pc[w] \in RelocationPc \cup {"scheduleOld"} => job[w].old \in Metadata
  BY <1>a DEF WorkersOK
<1>1. CASE CheckExist(w)
  <2>1. pc[w] # "idle" BY <1>1 DEF CheckExist
  <2>2. WorkersOK'
    BY <1>a, <1>1, <2>1, WriteNewType, ProceedType DEF CheckExist
  <2>3. QED BY <1>1, <2>2, WorkersFrame DEF CheckExist
<1>2. CASE ReadOld(w)
  <2>1. pc[w] # "idle" BY <1>2 DEF ReadOld
  <2>2. WorkersOK' BY <1>a, <1>2, <2>1, ProceedType DEF ReadOld
  <2>3. QED BY <1>2, <2>2, WorkersFrame DEF ReadOld
<1>3. CASE AnswerSame(w)
  <2> DEFINE found == meta[job[w].req.name]
  <2>1. job[w].req.name \in Name /\ job[w].req.content \in Content
    BY <1>3, JobFacts DEF AnswerSame
  <2>2. found \in Metadata \cup {None} BY <1>a, <2>1 DEF StoreOK
  <2>3. Answer("ok", job[w].req.content, found) \in Reply BY <2>1, <2>2, AnswerType
  <2>4. WorkersOK' BY <1>a, <1>3, <2>3, FailType, FinishType DEF AnswerSame
  <2>5. QED BY <1>3, <2>4, WorkersFrame DEF AnswerSame
<1>4. CASE ReadRenamed(w)
  <2>1. pc[w] # "idle" BY <1>4 DEF ReadRenamed
  <2>2. WorkersOK' BY <1>a, <1>4, <2>1, ProceedType, FailType DEF ReadRenamed
  <2>3. QED BY <1>4, <2>2, WorkersFrame DEF ReadRenamed
<1>5. CASE ReadOldMeta(w)
  <2> DEFINE found == meta[job[w].req.name]
  <2>1. job[w] \in Job /\ job[w].req.name \in Name /\ job[w].req.newName \in Name
    BY <1>5, JobFacts DEF ReadOldMeta
  <2>2. found \in Metadata \cup {None} BY <1>a, <2>1 DEF StoreOK
  <2>3. PICK to \in MoveTargets(w) : KeepOld(w, found, to) /\ issued' = issued \cup {to}
    BY <1>5 DEF ReadOldMeta
  <2>4. to \in Name BY <2>1 DEF MoveTargets, Name
  <2>5. WorkersOK'
    <3>1. CASE found = None BY <1>a, <2>3, <3>1, FailType DEF KeepOld
    <3>2. CASE found # None
      <4> DEFINE j == [job[w] EXCEPT !.old = found, !.moveTo = to]
                 label == IF NeedsDeletion(found) THEN "scheduleOld" ELSE "statMove"
      <4>1. Goto(w, label) /\ job' = [job EXCEPT ![w] = j]
        BY <1>a, <2>3, <3>2 DEF KeepOld, WorkersOK
      <4>2. j \in Job /\ j.old \in Metadata BY <2>1, <2>2, <2>4, <3>2 DEF Job
      <4>3. label \in WorkerPc BY DEF WorkerPc, RelocationPc
      <4>4. QED BY <1>a, <4>1, <4>2, <4>3, UpdateType
    <3>3. QED BY <3>1, <3>2
  <2>6. EnvironmentOK' BY <1>5, <2>3, <2>4 DEF ReadOldMeta, TypeOK, EnvironmentOK
  <2>7. UNCHANGED <<store, brokerVars, consumerVars>> BY <1>5 DEF ReadOldMeta
  <2>8. QED
    BY <2>5, <2>6, <2>7
    DEF TypeOK, StoreOK, BrokerOK, ConsumerOK, store, brokerVars, consumerVars
<1>6. CASE ScheduleOld(w)
  <2>1. job[w].moveTo \in Name /\ job[w].old \in Metadata
    BY <1>6, <1>b, JobFacts DEF ScheduleOld
  <2>2. DeletionOf(job[w].moveTo, job[w].old) \in Message BY <2>1, DeletionType
  <2>3. "statMove" \in WorkerPc \ {"idle"} BY DEF WorkerPc, RelocationPc
  <2>4. pc[w] # "idle" BY <1>6 DEF ScheduleOld
  <2>5. QED BY <1>6, <2>1, <2>2, <2>3, <2>4, ScheduleType DEF ScheduleOld
<1>7. CASE StatMove(w)
  <2>1. pc[w] = "statMove" BY <1>7 DEF StatMove
  <2>2. "transfer" \in RelocationPc /\ "statMove" \in RelocationPc /\ pc[w] # "idle"
    BY <2>1 DEF RelocationPc
  <2>3. WorkersOK' BY <1>a, <1>b, <1>7, <2>1, <2>2, ProceedType, FailType DEF StatMove
  <2>4. QED BY <1>7, <2>3, WorkersFrame DEF StatMove
<1>8. CASE Transfer(w)
  <2>1. pc[w] = "transfer" BY <1>8 DEF Transfer
  <2>2. {"transfer", "removeSource", "metaExist"} \subseteq RelocationPc /\ pc[w] # "idle"
    BY <2>1 DEF RelocationPc
  <2>3. WorkersOK' BY <1>a, <1>b, <1>8, <2>1, <2>2, ProceedType, FailType DEF Transfer
  <2>4. data' \in [Name -> Content \cup {None}]
    BY <1>a, <1>8, <2>2, JobFacts DEF Transfer, StoreOK, Transferred
  <2>5. QED BY <1>8, <2>3, <2>4, DataFrame DEF Transfer
<1>9. CASE RemoveSource(w)
  <2>1. pc[w] = "removeSource" BY <1>9 DEF RemoveSource
  <2>2. {"removeSource", "metaExist"} \subseteq RelocationPc /\ pc[w] # "idle"
    BY <2>1 DEF RelocationPc
  <2>3. WorkersOK' BY <1>a, <1>b, <1>9, <2>1, <2>2, ProceedType DEF RemoveSource
  <2>4. data' \in [Name -> Content \cup {None}]
    BY <1>a, <1>9, <2>2, JobFacts DEF RemoveSource, StoreOK, Removed
  <2>5. QED BY <1>9, <2>3, <2>4, DataFrame DEF RemoveSource
<1>10. CASE CheckMetaExist(w)
  <2>1. pc[w] = "metaExist" BY <1>10 DEF CheckMetaExist
  <2>2. {"metaExist", "statOldMeta"} \subseteq RelocationPc /\ pc[w] # "idle"
    BY <2>1 DEF RelocationPc
  <2>3. WorkersOK'
    BY <1>a, <1>b, <1>10, <2>1, <2>2, ProceedType, RelocatedType DEF CheckMetaExist
  <2>4. QED BY <1>10, <2>3, WorkersFrame DEF CheckMetaExist
<1>11. CASE StatOldMeta(w)
  <2>1. pc[w] = "statOldMeta" BY <1>11 DEF StatOldMeta
  <2>2. {"statOldMeta", "removeOldMeta"} \subseteq RelocationPc /\ pc[w] # "idle"
    BY <2>1 DEF RelocationPc
  <2>3. WorkersOK' BY <1>a, <1>b, <1>11, <2>1, <2>2, ProceedType, FailType DEF StatOldMeta
  <2>4. QED BY <1>11, <2>3, WorkersFrame DEF StatOldMeta
<1>12. CASE RemoveOldMeta(w)
  <2>1. pc[w] = "removeOldMeta" BY <1>12 DEF RemoveOldMeta
  <2>2. {"removeOldMeta", "statBackupMeta"} \subseteq RelocationPc /\ pc[w] # "idle"
    BY <2>1 DEF RelocationPc
  <2>3. WorkersOK' BY <1>a, <1>b, <1>12, <2>1, <2>2, ProceedType, FailType DEF RemoveOldMeta
  <2>4. meta' \in [Name -> Metadata \cup {None}]
    BY <1>a, <1>12, <2>2, JobFacts DEF RemoveOldMeta, StoreOK, Removed
  <2>5. QED BY <1>12, <2>3, <2>4, MetaFrame DEF RemoveOldMeta
<1>13. CASE StatBackupMeta(w)
  <2>1. pc[w] = "statBackupMeta" BY <1>13 DEF StatBackupMeta
  <2>2. {"statBackupMeta", "writeBackupMeta"} \subseteq RelocationPc /\ pc[w] # "idle"
    BY <2>1 DEF RelocationPc
  <2>3. WorkersOK' BY <1>a, <1>b, <1>13, <2>1, <2>2, ProceedType, FailType DEF StatBackupMeta
  <2>4. QED BY <1>13, <2>3, WorkersFrame DEF StatBackupMeta
<1>14. CASE WriteBackupMeta(w)
  <2>1. pc[w] = "writeBackupMeta" BY <1>14 DEF WriteBackupMeta
  <2>2. "writeBackupMeta" \in RelocationPc /\ pc[w] # "idle" BY <2>1 DEF RelocationPc
  <2>3. job[w].old \in Metadata /\ job[w].moveTo \in Name BY <1>b, <2>1, <2>2, JobFacts
  <2>4. WorkersOK' BY <1>14, <2>2, RelocatedType DEF WriteBackupMeta
  <2>5. meta' \in [Name -> Metadata \cup {None}]
    BY <1>a, <1>14, <2>3 DEF WriteBackupMeta, StoreOK, Created
  <2>6. QED BY <1>14, <2>4, <2>5, MetaFrame DEF WriteBackupMeta
<1>15. QED
  BY <1>1, <1>2, <1>3, <1>4, <1>5, <1>6, <1>7, <1>8, <1>9, <1>10, <1>11, <1>12, <1>13, <1>14

(* Writing a new file: both uploads from the generated name or the message  *)
(* to the answer.                                                           *)
LEMMA WritingType ==
  ASSUME TypeOK, NEW w \in Worker,
         \/ Generate(w) \/ ScheduleNew(w) \/ StatData(w) \/ WriteData(w)
         \/ StatMeta(w) \/ WriteMeta(w) \/ StatRollback(w) \/ Rollback(w)
  PROVE  TypeOK'
<1> USE Labels
<1>a. WorkersOK /\ StoreOK BY DEF TypeOK
<1>b. WritingPc = {"statData", "writeData", "statMeta", "writeMeta"} BY DEF WritingPc
<1>1. CASE Generate(w)
  <2>1. job[w] \in Job /\ job[w].new \in Metadata /\ job[w].req.duration \in 0..MaxDuration
    BY <1>1, JobFacts DEF Generate
  <2> DEFINE deadline == Expiry("generate", job[w].req.duration)
  <2>2. deadline \in Time BY <2>1, ExpiryType DEF TypeOK, EnvironmentOK
  <2>3. PICK g \in Generated :
          /\ issued' = issued \cup {g}
          /\ job' = [job EXCEPT ![w].target = g, ![w].new.expiredAt = deadline]
    BY <1>1 DEF Generate
  <2> DEFINE j == [job[w] EXCEPT !.target = g, !.new.expiredAt = deadline]
  <2>4. g \in Name BY DEF Name
  <2>5. j \in Job BY <2>1, <2>2, <2>4 DEF Job, Metadata
  <2>6. job' = [job EXCEPT ![w] = j] BY <1>a, <2>3 DEF WorkersOK
  <2>7. WorkersOK' BY <1>a, <1>1, <2>5, <2>6, UpdateType DEF Generate
  <2>8. EnvironmentOK' BY <1>1, <2>3, <2>4 DEF Generate, TypeOK, EnvironmentOK
  <2>9. UNCHANGED <<store, brokerVars, consumerVars>> BY <1>1 DEF Generate
  <2>10. QED
    BY <2>7, <2>8, <2>9
    DEF TypeOK, StoreOK, BrokerOK, ConsumerOK, store, brokerVars, consumerVars
<1>2. CASE ScheduleNew(w)
  <2>1. job[w].target \in Name /\ job[w].new \in Metadata /\ pc[w] # "idle"
    BY <1>2, JobFacts DEF ScheduleNew
  <2>2. DeletionOf(job[w].target, job[w].new) \in Message BY <2>1, DeletionType
  <2>3. QED BY <1>2, <1>b, <2>1, <2>2, ScheduleType DEF ScheduleNew
<1>3. CASE StatData(w)
  <2>1. pc[w] # "idle" BY <1>3 DEF StatData
  <2>2. WorkersOK' BY <1>a, <1>3, <2>1, <1>b, ProceedType, FailType DEF StatData, WritingPc
  <2>3. QED BY <1>3, <2>2, WorkersFrame DEF StatData
<1>4. CASE WriteData(w)
  <2>1. pc[w] # "idle" BY <1>4 DEF WriteData
  <2>2. WorkersOK' BY <1>a, <1>4, <2>1, <1>b, ProceedType DEF WriteData
  <2>3. data' \in [Name -> Content \cup {None}]
    BY <1>a, <1>4, <2>1, JobFacts DEF WriteData, StoreOK, Created
  <2>4. QED BY <1>4, <2>2, <2>3, DataFrame DEF WriteData
<1>5. CASE StatMeta(w)
  <2>1. pc[w] # "idle" BY <1>5 DEF StatMeta
  <2>2. WorkersOK' BY <1>a, <1>5, <2>1, <1>b, ProceedType DEF StatMeta, WritingPc
  <2>3. QED BY <1>5, <2>2, WorkersFrame DEF StatMeta
<1>6. CASE WriteMeta(w)
  <2>1. /\ pc[w] # "idle" /\ job[w].req.content \in Content
        /\ job[w].target \in Name /\ job[w].new \in Metadata
    BY <1>6, JobFacts DEF WriteMeta
  <2>2. Answer("ok", job[w].req.content, job[w].new) \in Reply BY <2>1, AnswerType
  <2>3. WorkersOK' BY <1>a, <1>6, <2>2, FinishType DEF WriteMeta
  <2>4. meta' \in [Name -> Metadata \cup {None}]
    BY <1>a, <1>6, <2>1 DEF WriteMeta, StoreOK, Created
  <2>5. QED BY <1>6, <2>3, <2>4, MetaFrame DEF WriteMeta
<1>7. CASE StatRollback(w)
  <2>1. pc[w] # "idle" BY <1>7 DEF StatRollback
  <2>2. WorkersOK' BY <1>a, <1>7, <2>1, ProceedType, FailType DEF StatRollback
  <2>3. QED BY <1>7, <2>2, WorkersFrame DEF StatRollback
<1>8. CASE Rollback(w)
  <2>1. pc[w] # "idle" BY <1>8 DEF Rollback
  <2>2. WorkersOK' BY <1>a, <1>8, <2>1, FailType DEF Rollback
  <2>3. data' \in [Name -> Content \cup {None}]
    BY <1>a, <1>8, <2>1, JobFacts DEF Rollback, StoreOK, Removed
  <2>4. QED BY <1>8, <2>2, <2>3, DataFrame DEF Rollback
<1>9. QED BY <1>1, <1>2, <1>3, <1>4, <1>5, <1>6, <1>7, <1>8

(* DeleteFile and the three reads.                                          *)
LEMMA DeletingReadingType ==
  ASSUME TypeOK, NEW w \in Worker,
         \/ StatDelete(w) \/ Delete(w) \/ StatDeleteMeta(w) \/ DeleteMeta(w)
         \/ GetData(w) \/ GetMeta(w) \/ List(w) \/ ListMeta(w)
  PROVE  TypeOK'
<1> USE Labels
<1>a. WorkersOK /\ StoreOK BY DEF TypeOK
<1>b. Answer("ok", None, None) \in Reply BY AnswerType
<1>1. CASE StatDelete(w)
  <2>1. pc[w] # "idle" BY <1>1 DEF StatDelete
  <2>2. WorkersOK' BY <1>a, <1>1, <2>1, ProceedType, FailType DEF StatDelete
  <2>3. QED BY <1>1, <2>2, WorkersFrame DEF StatDelete
<1>2. CASE Delete(w)
  <2>1. pc[w] # "idle" BY <1>2 DEF Delete
  <2>2. WorkersOK' BY <1>a, <1>2, <2>1, ProceedType, FailType DEF Delete
  <2>3. data' \in [Name -> Content \cup {None}]
    BY <1>a, <1>2, <2>1, JobFacts DEF Delete, StoreOK, Removed
  <2>4. QED BY <1>2, <2>2, <2>3, DataFrame DEF Delete
<1>3. CASE StatDeleteMeta(w)
  <2>1. pc[w] # "idle" BY <1>3 DEF StatDeleteMeta
  <2>2. WorkersOK' BY <1>a, <1>3, <2>1, ProceedType, FailType DEF StatDeleteMeta
  <2>3. QED BY <1>3, <2>2, WorkersFrame DEF StatDeleteMeta
<1>4. CASE DeleteMeta(w)
  <2>1. pc[w] # "idle" BY <1>4 DEF DeleteMeta
  <2>2. WorkersOK' BY <1>a, <1>4, <2>1, <1>b, FinishType, FailType DEF DeleteMeta
  <2>3. meta' \in [Name -> Metadata \cup {None}]
    BY <1>a, <1>4, <2>1, JobFacts DEF DeleteMeta, StoreOK, Removed
  <2>4. QED BY <1>4, <2>2, <2>3, MetaFrame DEF DeleteMeta
<1>5. CASE GetData(w)
  <2>1. pc[w] # "idle" /\ job[w] \in Job /\ job[w].req.name \in Name
    BY <1>5, JobFacts DEF GetData
  <2>2. CASE IsExist(data, job[w].req.name)
    <3> DEFINE j == [job[w] EXCEPT !.got = data[job[w].req.name]]
    <3>1. j \in Job BY <1>a, <2>1 DEF StoreOK, Job
    <3>2. Goto(w, "getMeta") /\ job' = [job EXCEPT ![w] = j]
      BY <1>a, <1>5, <2>2 DEF GetData, WorkersOK
    <3>3. WorkersOK' BY <1>a, <3>1, <3>2, UpdateType
    <3>4. QED BY <1>5, <3>3, WorkersFrame DEF GetData
  <2>3. CASE ~IsExist(data, job[w].req.name)
    BY <1>a, <1>5, <2>3, FailType, WorkersFrame DEF GetData
  <2>4. QED BY <2>2, <2>3
<1>6. CASE GetMeta(w)
  <2> DEFINE found == meta[job[w].req.name]
  <2>1. job[w].req.name \in Name /\ job[w].got \in Content \cup {None}
    BY <1>6, JobFacts DEF GetMeta
  <2>2. found \in Metadata \cup {None} BY <1>a, <2>1 DEF StoreOK
  <2>3. Answer("ok", job[w].got, found) \in Reply BY <2>1, <2>2, AnswerType
  <2>4. WorkersOK' BY <1>a, <1>6, <2>3, FailType, FinishType DEF GetMeta
  <2>5. QED BY <1>6, <2>4, WorkersFrame DEF GetMeta
<1>7. CASE List(w)
  <2> DEFINE j == [job[w] EXCEPT !.todo = {n \in Name : IsExist(data, n)}]
  <2>1. job[w] \in Job BY <1>7, JobFacts DEF List
  <2>2. j \in Job BY <2>1 DEF Job
  <2>3. Goto(w, "listMeta") /\ job' = [job EXCEPT ![w] = j]
    BY <1>a, <1>7 DEF List, WorkersOK
  <2>4. WorkersOK' BY <1>a, <2>2, <2>3, UpdateType
  <2>5. QED BY <1>7, <2>4, WorkersFrame DEF List
<1>8. CASE ListMeta(w)
  <2>1. job[w] \in Job BY <1>8, JobFacts DEF ListMeta
  <2>2. WorkersOK'
    <3>1. CASE Finish(w, Answer("ok", None, None)) BY <1>a, <1>b, <3>1, FinishType
    <3>2. CASE Fail(w) BY <1>a, <3>2, FailType
    <3>3. ASSUME NEW n \in job[w].todo, Goto(w, "listMeta"),
                 job' = [job EXCEPT ![w].todo = @ \ {n}]
          PROVE  WorkersOK'
      <4> DEFINE j == [job[w] EXCEPT !.todo = job[w].todo \ {n}]
      <4>1. j \in Job BY <2>1 DEF Job
      <4>2. job' = [job EXCEPT ![w] = j] BY <1>a, <3>3 DEF WorkersOK
      <4>3. QED BY <1>a, <3>3, <4>1, <4>2, UpdateType
    <3>4. QED BY <1>8, <3>1, <3>2, <3>3 DEF ListMeta
  <2>3. QED BY <1>8, <2>2, WorkersFrame DEF ListMeta
<1>9. QED BY <1>1, <1>2, <1>3, <1>4, <1>5, <1>6, <1>7, <1>8

(* No step of a handler breaks a type.                                      *)
LEMMA WorkerStepType ==
  ASSUME TypeOK, NEW w \in Worker, WorkerStep(w)
  PROVE  TypeOK'
  BY RelocationType, WritingType, DeletingReadingType DEF WorkerStep
-----------------------------------------------------------------------------
(* The consumer and the surroundings keep the types and ConsumerHoldsDue.   *)

(* What a busy consumer works on.                                           *)
LEMMA HeldFacts ==
  ASSUME TypeOK, ConsumerHoldsDue, cpc # "idle"
  PROVE  /\ held \in Message /\ held # NoDelivery
         /\ held.name \in Name /\ held.expiredAt \in Time
         /\ meta[held.name] \in Metadata \cup {None}
<1>1. held \in Message /\ held # NoDelivery
  BY DEF TypeOK, BrokerOK, ConsumerHoldsDue
<1>2. held.name \in Name /\ held.expiredAt \in Time BY <1>1 DEF Message
<1>3. QED BY <1>1, <1>2 DEF TypeOK, StoreOK

(* A step of the consumer that leaves the stores alone.                     *)
LEMMA ConsumerFrame ==
  ASSUME TypeOK, ConsumerOnly, StoreOK', BrokerOK', ConsumerOK'
  PROVE  TypeOK'
  BY DEF TypeOK, ConsumerOnly, WorkersOK, EnvironmentOK, workerVars, environment

(* A consumer that goes on with its delivery keeps its part of Inv,         *)
LEMMA ContinueType ==
  ASSUME TypeOK, ConsumerHoldsDue, cpc # "idle", NEW label \in DueConsumerPc,
         Continue(label), now' = now, held.expiredAt <= now
  PROVE  BrokerOK' /\ ConsumerOK' /\ ConsumerHoldsDue'
<1>1. label # "idle" /\ label \in ConsumerPc BY DEF DueConsumerPc, ConsumerPc
<1>2. QED
  BY <1>1 DEF Continue, TypeOK, BrokerOK, ConsumerOK, ConsumerHoldsDue, brokerVars

(* and so does one that settles it.                                         *)
LEMMA SettledType ==
  ASSUME TypeOK, Settle(Forget) \/ Settle(Requeue)
  PROVE  BrokerOK' /\ ConsumerOK' /\ ConsumerHoldsDue'
<1>1. BrokerOK' BY SettleType DEF Settle, TypeOK
<1>2. cpc' = "idle" /\ seen' = None /\ held' = NoDelivery
  BY DEF Settle, Forget, Requeue
<1>3. QED BY <1>1, <1>2 DEF ConsumerOK, ConsumerPc, DueConsumerPc, ConsumerHoldsDue

(* No step of the consumer breaks a type or its part of Inv.                *)
LEMMA ConsumerStepType ==
  ASSUME TypeOK, ConsumerHoldsDue, ConsumerStep
  PROVE  TypeOK' /\ ConsumerHoldsDue'
<1>a. cpc # "idle"
  BY DEF ConsumerStep, CheckDue, ReadMeta, CheckExpiry, StatExpired, RemoveExpired,
         StatExpiredMeta, RemoveExpiredMeta, Acknowledge
<1>b. held \in Message /\ held.name \in Name /\ meta[held.name] \in Metadata \cup {None}
  BY <1>a, HeldFacts
<1>c. ConsumerOnly /\ now' = now
  BY DEF ConsumerStep, CheckDue, ReadMeta, CheckExpiry, StatExpired, RemoveExpired,
         StatExpiredMeta, RemoveExpiredMeta, Acknowledge, ConsumerOnly, environment
<1>d. StoreOK'
  <2>1. StoreOK BY DEF TypeOK
  <2>2. /\ data' = data \/ data' = Removed(data, held.name)
        /\ meta' = meta \/ meta' = Removed(meta, held.name)
    BY DEF ConsumerStep, CheckDue, ReadMeta, CheckExpiry, StatExpired, RemoveExpired,
           StatExpiredMeta, RemoveExpiredMeta, Acknowledge, store
  <2>3. QED BY <1>b, <2>1, <2>2 DEF StoreOK, Removed
<1>e. cpc \in DueConsumerPc => held.expiredAt <= now BY DEF ConsumerHoldsDue
<1>f. BrokerOK' /\ ConsumerOK' /\ ConsumerHoldsDue'
  <2>1. CASE CheckDue
    BY <1>a, <1>c, <2>1, ContinueType, SettledType DEF CheckDue, Due, DueConsumerPc
  <2>2. CASE ReadMeta
    <3>1. CASE Settle(Forget) BY <3>1, SettledType
    <3>2. CASE /\ cpc' = "checkExpiry" /\ seen' = meta[held.name] /\ UNCHANGED brokerVars
      BY <1>a, <1>b, <1>c, <1>e, <2>2, <3>2
      DEF ReadMeta, TypeOK, BrokerOK, ConsumerOK, ConsumerHoldsDue, brokerVars,
          ConsumerPc, DueConsumerPc
    <3>3. QED BY <2>2, <3>1, <3>2 DEF ReadMeta, Compare
  <2>3. CASE CheckExpiry
    BY <1>a, <1>c, <1>e, <2>3, ContinueType, SettledType DEF CheckExpiry, DueConsumerPc
  <2>4. CASE StatExpired
    BY <1>a, <1>c, <1>e, <2>4, ContinueType, SettledType DEF StatExpired, DueConsumerPc
  <2>5. CASE RemoveExpired
    BY <1>a, <1>c, <1>e, <2>5, ContinueType, SettledType DEF RemoveExpired, DueConsumerPc
  <2>6. CASE StatExpiredMeta
    BY <1>a, <1>c, <1>e, <2>6, ContinueType DEF StatExpiredMeta, DueConsumerPc
  <2>7. CASE RemoveExpiredMeta
    BY <1>a, <1>c, <1>e, <2>7, ContinueType DEF RemoveExpiredMeta, DueConsumerPc
  <2>8. CASE Acknowledge
    BY <2>8, SettledType DEF Acknowledge
  <2>9. QED BY <2>1, <2>2, <2>3, <2>4, <2>5, <2>6, <2>7, <2>8 DEF ConsumerStep
<1>g. QED BY <1>c, <1>d, <1>f, ConsumerFrame

(* Nor does a delivery,                                                     *)
LEMMA DeliveryType ==
  ASSUME TypeOK, NEW m \in Message, TakeDelivery(m)
  PROVE  TypeOK' /\ ConsumerHoldsDue'
<1>1. BrokerOK' BY DEF TypeOK, BrokerOK, TakeDelivery, Deliver
<1>2. StoreOK' BY DEF TypeOK, StoreOK, TakeDelivery, store
<1>3. ConsumerOK' BY DEF TypeOK, ConsumerOK, TakeDelivery, ConsumerPc
<1>4. ConsumerOnly BY DEF TakeDelivery
<1>5. ConsumerHoldsDue'
  BY NoneAssumption DEF ConsumerHoldsDue, TakeDelivery, Deliver, DueConsumerPc
<1>6. QED BY <1>1, <1>2, <1>3, <1>4, <1>5, ConsumerFrame

(* nor time, a broken connection or a restart.                              *)
LEMMA SurroundingsType ==
  ASSUME TypeOK, ConsumerHoldsDue, Tick \/ LoseBroker \/ Restart
  PROVE  TypeOK' /\ ConsumerHoldsDue'
<1> USE BoundsAssumption, DurationAssumption
<1>1. CASE Tick
  <2>1. EnvironmentOK' BY <1>1 DEF TypeOK, EnvironmentOK, Tick
  <2>2. UNCHANGED <<store, brokerVars, workerVars, consumerVars>> BY <1>1 DEF Tick
  <2>3. TypeOK'
    BY <2>1, <2>2 DEF TypeOK, StoreOK, BrokerOK, WorkersOK, ConsumerOK, store,
       brokerVars, workerVars, consumerVars
  <2>4. now \in Int /\ now' = now + 1 BY <1>1 DEF Tick, TypeOK, EnvironmentOK
  <2>5. cpc \in DueConsumerPc => held.expiredAt \in Int
    BY HeldFacts DEF DueConsumerPc, Time
  <2>6. QED
    BY <2>2, <2>3, <2>4, <2>5 DEF ConsumerHoldsDue, brokerVars, consumerVars
<1>2. CASE LoseBroker
  <2>1. BrokerOK'
    <3>1. queue' = TakenBack /\ held' = held /\ connected' = FALSE
      BY <1>2 DEF LoseBroker, Disconnect
    <3>2. BrokerOK BY DEF TypeOK
    <3>3. QED BY <3>1, <3>2, TakenBackType DEF BrokerOK
  <2>2. EnvironmentOK' BY <1>2 DEF TypeOK, EnvironmentOK, LoseBroker
  <2>3. UNCHANGED <<store, workerVars, consumerVars, held, now>>
    BY <1>2 DEF LoseBroker, Disconnect
  <2>4. QED
    BY <2>1, <2>2, <2>3 DEF TypeOK, StoreOK, WorkersOK, ConsumerOK, ConsumerHoldsDue,
       store, workerVars, consumerVars
<1>3. CASE Restart
  <2>1. BrokerOK'
    <3>1. queue' = TakenBack /\ held' = NoDelivery /\ connected' = TRUE
      BY <1>3 DEF Restart, Reconnect
    <3>2. BrokerOK BY DEF TypeOK
    <3>3. QED BY <3>1, <3>2, TakenBackType DEF BrokerOK
  <2>2. EnvironmentOK' BY <1>3 DEF TypeOK, EnvironmentOK, Restart
  <2>3. WorkersOK'
    <3>1. Answer("lost", None, None) \in Reply BY AnswerType
    <3>2. QED BY <1>3, <3>1 DEF TypeOK, WorkersOK, Restart, WorkerPc, RelocationPc
  <2>4. /\ UNCHANGED store /\ cpc' = "idle" /\ seen' = None /\ held' = NoDelivery
    BY <1>3 DEF Restart, Reconnect
  <2>5. QED
    BY <2>1, <2>2, <2>3, <2>4 DEF TypeOK, StoreOK, ConsumerOK, ConsumerHoldsDue, store,
       ConsumerPc, DueConsumerPc
<1>4. QED BY <1>1, <1>2, <1>3
-----------------------------------------------------------------------------
(* A message that is not due stays with the broker.                         *)

(* All a handler does to the broker is to publish a message.                *)
LEMMA WorkerBroker ==
  ASSUME TypeOK, NEW w \in Worker, WorkerStep(w)
  PROVE  \/ UNCHANGED brokerVars
         \/ \E x \in Message : Publish(x)
<1>1. CASE ScheduleOld(w)
  <2>1. job[w].moveTo \in Name /\ job[w].old \in Metadata
    BY <1>1, JobFacts DEF ScheduleOld, TypeOK, WorkersOK
  <2>2. DeletionOf(job[w].moveTo, job[w].old) \in Message BY <2>1, DeletionType
  <2>3. QED BY <1>1, <2>2 DEF ScheduleOld, Schedule
<1>2. CASE ScheduleNew(w)
  <2>1. job[w].target \in Name /\ job[w].new \in Metadata
    BY <1>2, JobFacts DEF ScheduleNew
  <2>2. DeletionOf(job[w].target, job[w].new) \in Message BY <2>1, DeletionType
  <2>3. QED BY <1>2, <2>2 DEF ScheduleNew, Schedule
<1>3. CASE ~ScheduleOld(w) /\ ~ScheduleNew(w)
  BY <1>3
  DEF WorkerStep, OnlyWorkers, OnlyData, OnlyMeta, CheckExist, ReadOld, AnswerSame,
      ReadRenamed, ReadOldMeta, StatMove, Transfer, RemoveSource, CheckMetaExist,
      StatOldMeta, RemoveOldMeta, StatBackupMeta, WriteBackupMeta, Generate, StatData,
      WriteData, StatMeta, WriteMeta, StatRollback, Rollback, StatDelete, Delete,
      StatDeleteMeta, DeleteMeta, GetData, GetMeta, List, ListMeta
<1>4. QED BY <1>1, <1>2, <1>3

(* The ways a step of the whole system can treat the broker.                *)
LEMMA BrokerSteps ==
  ASSUME TypeOK, [Next]_vars
  PROVE  \/ UNCHANGED brokerVars
         \/ \E x \in Message : Publish(x) \/ Deliver(x)
         \/ Forget /\ (cpc \in {"readMeta", "ack"})
         \/ Requeue
         \/ Disconnect
         \/ Reconnect
<1>1. ASSUME NEW w \in Worker, WorkerStep(w)
      PROVE  UNCHANGED brokerVars \/ \E x \in Message : Publish(x)
  BY <1>1, WorkerBroker
<1>2. ASSUME NEW w \in Worker, NEW r \in Request, Submit(w, r)
      PROVE  UNCHANGED brokerVars
  BY <1>2 DEF Submit
<1>3. ASSUME NEW m \in Message, TakeDelivery(m) PROVE Deliver(m)
  BY <1>3 DEF TakeDelivery
<1>4. ASSUME ConsumerStep
      PROVE  \/ UNCHANGED brokerVars
             \/ Forget /\ (cpc \in {"readMeta", "ack"})
             \/ Requeue
  BY <1>4
  DEF ConsumerStep, CheckDue, ReadMeta, Compare, CheckExpiry, StatExpired, RemoveExpired,
      StatExpiredMeta, RemoveExpiredMeta, Acknowledge, Continue, Settle
<1>5. CASE Tick BY <1>5 DEF Tick
<1>6. CASE LoseBroker BY <1>6 DEF LoseBroker
<1>7. CASE Restart BY <1>7 DEF Restart
<1>8. CASE UNCHANGED vars BY <1>8 DEF vars
<1>9. QED BY <1>1, <1>2, <1>3, <1>4, <1>5, <1>6, <1>7, <1>8 DEF Next

(* Only a due message can be settled.                                       *)
LEMMA PendingStable ==
  ASSUME TypeOK, ConsumerHoldsDue, [Next]_vars,
         NEW m \in Message, now < m.expiredAt, Pending(m)
  PROVE  Pending(m)'
<1>a. BrokerOK /\ m # NoDelivery BY NoneAssumption DEF TypeOK
<1>1. CASE UNCHANGED brokerVars BY <1>1 DEF Pending, brokerVars
<1>2. ASSUME NEW x \in Message, Publish(x) PROVE Pending(m)'
  BY <1>a, <1>2 DEF Pending, Publish, BrokerOK
<1>3. ASSUME NEW x \in Message, Deliver(x) PROVE Pending(m)'
  BY <1>a, <1>3 DEF Pending, Deliver, BrokerOK
<1>4. CASE Forget /\ cpc \in {"readMeta", "ack"}
  <2>1. held.expiredAt <= now BY <1>4 DEF ConsumerHoldsDue, DueConsumerPc
  <2>2. now \in Int /\ m.expiredAt \in Int
    BY DurationAssumption DEF TypeOK, EnvironmentOK, Message, Time
  <2>3. held # m BY <2>1, <2>2
  <2>4. QED BY <1>4, <2>3 DEF Pending, Forget
<1>5. (queue' = TakenBack) => Pending(m)'
  BY <1>a DEF Pending, TakenBack, BrokerOK
<1>6. QED
  BY <1>1, <1>2, <1>3, <1>4, <1>5, BrokerSteps DEF Requeue, Disconnect, Reconnect
-----------------------------------------------------------------------------
(* The handlers' part of the invariant.                                     *)

(* Only a tick moves the clock, and it leaves the broker alone.             *)
LEMMA ClockSteps ==
  ASSUME [Next]_vars
  PROVE  now' = now \/ (now' = now + 1 /\ UNCHANGED brokerVars)
<1>1. ASSUME NEW w \in Worker, WorkerStep(w) PROVE now' = now
  BY <1>1
  DEF WorkerStep, OnlyWorkers, OnlyData, OnlyMeta, OnlyQueue, environment, CheckExist,
      ReadOld, AnswerSame, ReadRenamed, ReadOldMeta, ScheduleOld, StatMove, Transfer,
      RemoveSource, CheckMetaExist, StatOldMeta, RemoveOldMeta, StatBackupMeta,
      WriteBackupMeta, Generate, ScheduleNew, StatData, WriteData, StatMeta, WriteMeta,
      StatRollback, Rollback, StatDelete, Delete, StatDeleteMeta, DeleteMeta, GetData,
      GetMeta, List, ListMeta
<1>2. ASSUME NEW w \in Worker, NEW r \in Request, Submit(w, r) PROVE now' = now
  BY <1>2 DEF Submit
<1>3. ASSUME NEW m \in Message, TakeDelivery(m) PROVE now' = now
  BY <1>3 DEF TakeDelivery, ConsumerOnly, environment
<1>4. ASSUME ConsumerStep PROVE now' = now
  BY <1>4 DEF ConsumerStep, CheckDue, ReadMeta, CheckExpiry, StatExpired,
     RemoveExpired, StatExpiredMeta, RemoveExpiredMeta, Acknowledge, ConsumerOnly,
     environment
<1>5. ASSUME Tick PROVE now' = now + 1 /\ UNCHANGED brokerVars
  BY <1>5 DEF Tick
<1>6. ASSUME LoseBroker PROVE now' = now BY <1>6 DEF LoseBroker
<1>7. ASSUME Restart PROVE now' = now BY <1>7 DEF Restart
<1>8. CASE UNCHANGED vars BY <1>8 DEF vars, environment
<1>9. CASE Next
  BY <1>1, <1>2, <1>3, <1>4, <1>5, <1>6, <1>7, <1>9 DEF Next
<1>10. QED BY <1>8, <1>9

(* So time never goes back.                                                 *)
LEMMA NowGrows ==
  ASSUME TypeOK, [Next]_vars
  PROVE  now \in Int /\ now' \in Int /\ 1 <= now /\ now <= now'
  BY ClockSteps DEF TypeOK, EnvironmentOK

(* A handler past its publication keeps its message while it writes.        *)
LEMMA WritingKept ==
  ASSUME Inv, [Next]_vars, NEW v \in Worker,
         pc[v] \in WritingPc, pc'[v] \in WritingPc, job'[v] = job[v]
  PROVE  HandlerScheduled(v)'
<1>1. TypeOK /\ ConsumerHoldsDue /\ HandlerScheduled(v)
  BY DEF Inv, HandlersScheduled
<1>2. now \in Int /\ now' \in Int /\ now <= now' BY <1>1, NowGrows
<1>3. pc'[v] \notin RelocationPc BY DEF WritingPc, RelocationPc
<1>4. ASSUME now' < job[v].new.expiredAt
      PROVE  LET m == DeletionOf(job[v].target, job[v].new)
             IN  queue'[m] > 0 \/ (connected' /\ held' = m)
  <2> DEFINE m == DeletionOf(job[v].target, job[v].new)
  <2>1. job[v].target \in Name /\ job[v].new \in Metadata
    BY <1>1, JobFacts DEF WritingPc
  <2>2. m \in Message /\ m.expiredAt = job[v].new.expiredAt
    BY <2>1, DeletionType DEF DeletionOf
  <2>3. job[v].new.expiredAt \in Int BY <2>1, DurationAssumption DEF Metadata, Time
  <2>4. now < m.expiredAt BY <1>2, <1>4, <2>2, <2>3
  <2>5. Pending(m) BY <1>1, <2>2, <2>4 DEF HandlerScheduled
  <2>6. Pending(m)' BY <1>1, <2>2, <2>4, <2>5, PendingStable
  <2>7. QED BY <2>6 DEF Pending
<1>5. QED BY <1>3, <1>4 DEF HandlerScheduled, Pending, DeletionOf

(* And while it moves the old file.                                         *)
LEMMA RelocationKept ==
  ASSUME Inv, [Next]_vars, NEW v \in Worker,
         pc[v] \in RelocationPc, pc'[v] \in RelocationPc, job'[v] = job[v]
  PROVE  HandlerScheduled(v)'
<1>1. TypeOK /\ ConsumerHoldsDue /\ HandlerScheduled(v)
  BY DEF Inv, HandlersScheduled
<1>2. now \in Int /\ now' \in Int /\ now <= now' BY <1>1, NowGrows
<1>3. pc'[v] \notin WritingPc BY DEF WritingPc, RelocationPc
<1>4. ASSUME now' < job[v].old.expiredAt
      PROVE  LET m == DeletionOf(job[v].moveTo, job[v].old)
             IN  queue'[m] > 0 \/ (connected' /\ held' = m)
  <2> DEFINE m == DeletionOf(job[v].moveTo, job[v].old)
  <2>1. job[v].moveTo \in Name /\ job[v].old \in Metadata
    BY <1>1, JobFacts DEF RelocationPc, TypeOK, WorkersOK
  <2>2. m \in Message /\ m.expiredAt = job[v].old.expiredAt
    BY <2>1, DeletionType DEF DeletionOf
  <2>3. job[v].old.expiredAt \in Int BY <2>1, DurationAssumption DEF Metadata, Time
  <2>4. now < m.expiredAt BY <1>2, <1>4, <2>2, <2>3
  <2>5. Pending(m) BY <1>1, <2>2, <2>4 DEF HandlerScheduled
  <2>6. Pending(m)' BY <1>1, <2>2, <2>4, <2>5, PendingStable
  <2>7. QED BY <2>6 DEF Pending
<1>5. QED BY <1>3, <1>4 DEF HandlerScheduled, Pending, DeletionOf

(* And while it does not move at all.                                       *)
LEMMA IdleHandler ==
  ASSUME Inv, [Next]_vars, NEW v \in Worker, pc'[v] = pc[v], job'[v] = job[v]
  PROVE  HandlerScheduled(v)'
<1>1. CASE pc[v] \in WritingPc BY <1>1, WritingKept
<1>2. CASE pc[v] \in RelocationPc BY <1>2, RelocationKept
<1>3. CASE pc[v] \notin WritingPc \cup RelocationPc BY <1>3 DEF HandlerScheduled
<1>4. QED BY <1>1, <1>2, <1>3

(* What publishing achieves.                                                *)
LEMMA PublishedPending ==
  ASSUME BrokerOK, NEW m \in Message, Publish(m)
  PROVE  Pending(m)'
  BY DEF BrokerOK, Publish, Pending

(* The ways a handler can move: out of the steps that need a message,       *)
(* between them, or into them, after publishing or with a permanent file.   *)
LEMMA HandlerMoves ==
  ASSUME TypeOK, NEW w \in Worker, WorkerStep(w)
  PROVE  \/ pc'[w] \notin WritingPc \cup RelocationPc
         \/ pc[w] \in WritingPc /\ pc'[w] \in WritingPc /\ job'[w] = job[w]
         \/ pc[w] \in RelocationPc /\ pc'[w] \in RelocationPc /\ job'[w] = job[w]
         \/ pc'[w] \in WritingPc /\ job'[w].new.expiredAt = Never
         \/ pc'[w] \in RelocationPc /\ job'[w].old.expiredAt = Never
         \/ /\ pc'[w] \in RelocationPc /\ job'[w] = job[w] /\ ScheduleOld(w)
            /\ Publish(DeletionOf(job[w].moveTo, job[w].old))
         \/ /\ pc'[w] \in WritingPc /\ job'[w] = job[w] /\ ScheduleNew(w)
            /\ Publish(DeletionOf(job[w].target, job[w].new))
<1>a. w \in DOMAIN pc /\ w \in DOMAIN job BY DEF TypeOK, WorkersOK
<1>b. WritingPc \cap RelocationPc = {} /\ "idle" \notin WritingPc \cup RelocationPc
  BY DEF WritingPc, RelocationPc
<1>c. Fail(w) \/ Panic(w) => pc'[w] = "idle" BY <1>a DEF Fail, Panic, Finish
<1>d. \A label : Proceed(w, label) => pc'[w] = label /\ job'[w] = job[w]
  BY <1>a DEF Proceed, Goto
<1>e. pc[w] # "idle" BY DEF WorkerStep, CheckExist, ReadOld, AnswerSame, ReadRenamed,
  ReadOldMeta, ScheduleOld, StatMove, Transfer, RemoveSource, CheckMetaExist, StatOldMeta,
  RemoveOldMeta, StatBackupMeta, WriteBackupMeta, Generate, ScheduleNew, StatData,
  WriteData, StatMeta, WriteMeta, StatRollback, Rollback, StatDelete, Delete,
  StatDeleteMeta, DeleteMeta, GetData, GetMeta, List, ListMeta
<1>f. job[w] \in Job BY <1>e, JobFacts
<1>g. Relocated(w) => \/ pc'[w] \in {"idle", "schedule"}
                      \/ pc'[w] = "statData" /\ job'[w].new.expiredAt = Never
  <2>1. CASE job[w].req.op = "rename" BY <1>a, <2>1 DEF Relocated, Finish
  <2>2. ASSUME job[w].req.op # "rename", Relocated(w)
        PROVE  \/ pc'[w] = "schedule"
               \/ pc'[w] = "statData" /\ job'[w].new.expiredAt = Never
    <3>1. pc'[w] = WriteNew(job[w].new) BY <1>a, <2>2 DEF Relocated, Goto
    <3>2. job'[w] = [job[w] EXCEPT !.new.backup = job[w].moveTo]
      BY <1>a, <2>2 DEF Relocated
    <3>3. job'[w].new.expiredAt = job[w].new.expiredAt
      BY <1>f, <3>2 DEF Job, Metadata
    <3>4. QED BY <3>1, <3>3 DEF WriteNew
  <2>3. QED BY <2>1, <2>2
<1>h. "statData" \in WritingPc /\ "schedule" \notin WritingPc \cup RelocationPc
      /\ "statMove" \in RelocationPc
  BY DEF WritingPc, RelocationPc
<1>1. CASE CheckExist(w)
  <2>1. Proceed(w, "readOld") \/ Proceed(w, WriteNew(job[w].new))
    BY <1>1 DEF CheckExist
  <2>2. "readOld" \notin WritingPc \cup RelocationPc BY DEF WritingPc, RelocationPc
  <2>3. QED BY <1>d, <1>h, <2>1, <2>2 DEF WriteNew
<1>2. CASE ReadOldMeta(w)
  <2>1. PICK to : KeepOld(w, meta[job[w].req.name], to) BY <1>2 DEF ReadOldMeta
  <2> DEFINE found == meta[job[w].req.name]
  <2>2. CASE found = None BY <1>b, <1>c, <2>1, <2>2 DEF KeepOld
  <2>3. CASE found # None
    <3>1. pc'[w] = IF NeedsDeletion(found) THEN "scheduleOld" ELSE "statMove"
      BY <1>a, <2>1, <2>3 DEF KeepOld, Goto
    <3>2. job'[w].old = found
      BY <1>a, <1>f, <2>1, <2>3 DEF KeepOld, Job
    <3>3. "scheduleOld" \notin WritingPc \cup RelocationPc
      BY DEF WritingPc, RelocationPc
    <3>4. QED BY <1>h, <3>1, <3>2, <3>3 DEF NeedsDeletion
  <2>4. QED BY <2>2, <2>3
<1>3. CASE ScheduleOld(w)
  BY <1>b, <1>c, <1>d, <1>h, <1>3 DEF ScheduleOld, Schedule
<1>4. CASE ScheduleNew(w)
  BY <1>b, <1>c, <1>d, <1>h, <1>4 DEF ScheduleNew, Schedule
<1>5. CASE StatMove(w) \/ StatOldMeta(w) \/ StatBackupMeta(w) \/ RemoveOldMeta(w)
  BY <1>b, <1>c, <1>d, <1>5
  DEF StatMove, StatOldMeta, StatBackupMeta, RemoveOldMeta, RelocationPc
<1>6. CASE Transfer(w) \/ RemoveSource(w)
  BY <1>b, <1>c, <1>d, <1>6 DEF Transfer, RemoveSource, RelocationPc
<1>7. CASE CheckMetaExist(w) \/ WriteBackupMeta(w)
  <2>1. \/ Proceed(w, "statOldMeta") /\ pc[w] \in RelocationPc
        \/ Relocated(w)
    BY <1>7 DEF CheckMetaExist, WriteBackupMeta, RelocationPc
  <2>2. "statOldMeta" \in RelocationPc BY DEF RelocationPc
  <2>3. QED BY <1>b, <1>d, <1>g, <1>h, <2>1, <2>2
<1>8. CASE StatData(w) \/ WriteData(w) \/ StatMeta(w)
  <2>1. "statRollback" \notin WritingPc \cup RelocationPc
    BY DEF WritingPc, RelocationPc
  <2>2. QED
    BY <1>b, <1>c, <1>d, <1>8, <2>1 DEF StatData, WriteData, StatMeta, WritingPc
<1>9. CASE WriteMeta(w) \/ Rollback(w) \/ AnswerSame(w) \/ GetMeta(w)
  BY <1>a, <1>b, <1>c, <1>9 DEF WriteMeta, Rollback, AnswerSame, GetMeta, Finish
<1>10. CASE \/ ReadOld(w) \/ ReadRenamed(w) \/ Generate(w) \/ StatRollback(w)
            \/ StatDelete(w) \/ Delete(w) \/ StatDeleteMeta(w) \/ DeleteMeta(w)
            \/ GetData(w) \/ List(w) \/ ListMeta(w)
  <2>1. pc'[w] \in {"idle", "sameMeta", "readOldMeta", "schedule", "rollback", "delete",
                    "statDeleteMeta", "deleteMeta", "getMeta", "listMeta"}
    BY <1>a, <1>c, <1>d, <1>10
    DEF ReadOld, ReadRenamed, Generate, StatRollback, StatDelete, Delete,
        StatDeleteMeta, DeleteMeta, GetData, List, ListMeta, Goto, Finish
  <2>2. QED BY <2>1 DEF WritingPc, RelocationPc
<1>11. QED
  BY <1>1, <1>2, <1>3, <1>4, <1>5, <1>6, <1>7, <1>8, <1>9, <1>10 DEF WorkerStep

(* A step of one handler leaves the others where they are.                  *)
LEMMA OthersAlone ==
  ASSUME TypeOK, NEW w \in Worker, WorkerStep(w), NEW v \in Worker, v # w
  PROVE  pc'[v] = pc[v] /\ job'[v] = job[v] /\ reply'[v] = reply[v]
<1>1. v \in DOMAIN pc /\ v \in DOMAIN job /\ v \in DOMAIN reply BY DEF TypeOK, WorkersOK
<1> DEFINE Alone == pc'[v] = pc[v] /\ job'[v] = job[v] /\ reply'[v] = reply[v]
<1>2. ASSUME NEW label, Goto(w, label) PROVE pc'[v] = pc[v] /\ reply'[v] = reply[v]
  BY <1>1, <1>2 DEF Goto
<1>3. ASSUME NEW label, Proceed(w, label) PROVE Alone
  BY <1>2, <1>3 DEF Proceed
<1>4. ASSUME NEW answer, Finish(w, answer) PROVE Alone
  BY <1>1, <1>4 DEF Finish
<1>5. Fail(w) \/ Panic(w) => Alone
  BY <1>4 DEF Fail, Panic
<1>6. Relocated(w) => Alone
  BY <1>1, <1>2, <1>4 DEF Relocated
<1>7. CASE ReadOldMeta(w) \/ Generate(w) \/ GetData(w) \/ List(w)
  BY <1>1, <1>2, <1>5, <1>7 DEF ReadOldMeta, KeepOld, Generate, GetData, List
<1>8. CASE \/ CheckExist(w) \/ ReadOld(w) \/ AnswerSame(w) \/ ReadRenamed(w)
           \/ ScheduleOld(w) \/ StatMove(w) \/ Transfer(w) \/ RemoveSource(w)
           \/ CheckMetaExist(w) \/ StatOldMeta(w) \/ RemoveOldMeta(w)
           \/ StatBackupMeta(w) \/ WriteBackupMeta(w)
  BY <1>3, <1>4, <1>5, <1>6, <1>8
  DEF CheckExist, ReadOld, AnswerSame, ReadRenamed, ScheduleOld, Schedule, StatMove,
      Transfer, RemoveSource, CheckMetaExist, StatOldMeta, RemoveOldMeta,
      StatBackupMeta, WriteBackupMeta
<1>9. CASE \/ ScheduleNew(w) \/ StatData(w) \/ WriteData(w) \/ StatMeta(w)
           \/ WriteMeta(w) \/ StatRollback(w) \/ Rollback(w) \/ StatDelete(w)
           \/ Delete(w) \/ StatDeleteMeta(w) \/ DeleteMeta(w) \/ GetMeta(w)
  BY <1>3, <1>4, <1>5, <1>9
  DEF ScheduleNew, Schedule, StatData, WriteData, StatMeta, WriteMeta, StatRollback,
      Rollback, StatDelete, Delete, StatDeleteMeta, DeleteMeta, GetMeta
<1>10. CASE ListMeta(w)
  BY <1>1, <1>2, <1>4, <1>5, <1>10 DEF ListMeta
<1>11. QED BY <1>7, <1>8, <1>9, <1>10 DEF WorkerStep

(* A handler that comes to write or to move a file has its message first.   *)
LEMMA WorkerHandlers ==
  ASSUME Inv, NEW w \in Worker, WorkerStep(w), NEW v \in Worker
  PROVE  HandlerScheduled(v)'
<1>1. TypeOK /\ [Next]_vars BY DEF Inv, Next
<1>2. now' \in Int /\ 1 <= now'
  BY <1>1, NowGrows
<1>3. CASE v # w BY <1>1, <1>3, OthersAlone, IdleHandler
<1>4. CASE v = w
  <2>1. CASE pc'[w] \notin WritingPc \cup RelocationPc
    BY <1>4, <2>1 DEF HandlerScheduled
  <2>2. CASE pc[w] \in WritingPc /\ pc'[w] \in WritingPc /\ job'[w] = job[w]
    BY <1>1, <1>4, <2>2, WritingKept
  <2>3. CASE pc[w] \in RelocationPc /\ pc'[w] \in RelocationPc /\ job'[w] = job[w]
    BY <1>1, <1>4, <2>3, RelocationKept
  <2>4. CASE pc'[w] \in WritingPc /\ job'[w].new.expiredAt = Never
    <3>1. pc'[w] \notin RelocationPc BY <2>4 DEF WritingPc, RelocationPc
    <3>2. QED BY <1>2, <1>4, <2>4, <3>1 DEF HandlerScheduled
  <2>5. CASE pc'[w] \in RelocationPc /\ job'[w].old.expiredAt = Never
    <3>1. pc'[w] \notin WritingPc BY <2>5 DEF WritingPc, RelocationPc
    <3>2. QED BY <1>2, <1>4, <2>5, <3>1 DEF HandlerScheduled
  <2>6. CASE /\ pc'[w] \in RelocationPc /\ job'[w] = job[w] /\ ScheduleOld(w)
             /\ Publish(DeletionOf(job[w].moveTo, job[w].old))
    <3>1. job[w].moveTo \in Name /\ job[w].old \in Metadata
      BY <1>1, <2>6, JobFacts DEF ScheduleOld, TypeOK, WorkersOK
    <3>2. Pending(DeletionOf(job[w].moveTo, job[w].old))'
      <4> DEFINE m == DeletionOf(job[w].moveTo, job[w].old)
      <4>1. m \in Message BY <3>1, DeletionType
      <4>2. queue'[m] > 0
        BY <1>1, <2>6, <4>1 DEF TypeOK, BrokerOK, Publish
      <4>3. QED BY <2>6, <4>2 DEF Pending, DeletionOf
    <3>3. pc'[w] \notin WritingPc BY <2>6 DEF WritingPc, RelocationPc
    <3>4. QED BY <1>4, <3>2, <3>3 DEF HandlerScheduled
  <2>7. CASE /\ pc'[w] \in WritingPc /\ job'[w] = job[w] /\ ScheduleNew(w)
             /\ Publish(DeletionOf(job[w].target, job[w].new))
    <3>1. job[w].target \in Name /\ job[w].new \in Metadata
      BY <1>1, <2>7, JobFacts DEF ScheduleNew
    <3>2. Pending(DeletionOf(job[w].target, job[w].new))'
      <4> DEFINE m == DeletionOf(job[w].target, job[w].new)
      <4>1. m \in Message BY <3>1, DeletionType
      <4>2. queue'[m] > 0
        BY <1>1, <2>7, <4>1 DEF TypeOK, BrokerOK, Publish
      <4>3. QED BY <2>7, <4>2 DEF Pending, DeletionOf
    <3>3. pc'[w] \notin RelocationPc BY <2>7 DEF WritingPc, RelocationPc
    <3>4. QED BY <1>4, <3>2, <3>3 DEF HandlerScheduled
  <2>8. QED
    BY <1>1, <2>1, <2>2, <2>3, <2>4, <2>5, <2>6, <2>7, HandlerMoves
<1>5. QED BY <1>3, <1>4

(* No step of the system leaves a handler without its message.              *)
LEMMA HandlersStep ==
  ASSUME Inv, [Next]_vars
  PROVE  HandlersScheduled'
<1> SUFFICES ASSUME NEW v \in Worker PROVE HandlerScheduled(v)'
  BY DEF HandlersScheduled
<1>1. TypeOK BY DEF Inv
<1>2. CASE UNCHANGED workerVars BY <1>2, IdleHandler DEF workerVars
<1>3. ASSUME NEW w \in Worker, NEW r \in Request, Submit(w, r)
      PROVE  HandlerScheduled(v)'
  <2>1. CASE v # w
    <3>1. pc'[v] = pc[v] /\ job'[v] = job[v]
      BY <1>1, <1>3, <2>1 DEF Submit, TypeOK, WorkersOK
    <3>2. QED BY <3>1, IdleHandler
  <2>2. CASE v = w
    <3>1. pc'[v] = FirstStep(r.op) /\ r.op \in Operation
      BY <1>1, <1>3, <2>2, RequestAssumption DEF Submit, TypeOK, WorkersOK, RequestType
    <3>2. pc'[v] \notin WritingPc \cup RelocationPc
      BY <3>1 DEF FirstStep, Operation, WritingPc, RelocationPc
    <3>3. QED BY <3>2 DEF HandlerScheduled
  <2>3. QED BY <2>1, <2>2
<1>4. CASE Restart
  <2>1. pc'[v] \notin WritingPc \cup RelocationPc
    BY <1>4 DEF Restart, WritingPc, RelocationPc
  <2>2. QED BY <2>1 DEF HandlerScheduled
<1>5. CASE ConsumerStep
  BY <1>2, <1>5 DEF ConsumerStep, CheckDue, ReadMeta, CheckExpiry, StatExpired,
     RemoveExpired, StatExpiredMeta, RemoveExpiredMeta, Acknowledge, ConsumerOnly
<1>6. ASSUME NEW m \in Message, TakeDelivery(m) PROVE HandlerScheduled(v)'
  BY <1>2, <1>6 DEF TakeDelivery, ConsumerOnly
<1>7. CASE Tick \/ LoseBroker BY <1>2, <1>7 DEF Tick, LoseBroker
<1>8. CASE UNCHANGED vars BY <1>2, <1>8 DEF vars
<1>9. QED
  BY <1>3, <1>4, <1>5, <1>6, <1>7, <1>8, WorkerHandlers DEF Next
-----------------------------------------------------------------------------
(* Metadata and messages.                                                   *)

(* Only two steps give a name new metadata, each that of its own handler.   *)
LEMMA NewMetadata ==
  ASSUME TypeOK, [Next]_vars, NEW n \in Name, meta'[n] # None
  PROVE  \/ meta'[n] = meta[n]
         \/ \E w \in Worker : /\ pc[w] \in WritingPc /\ n = job[w].target
                              /\ meta'[n] = job[w].new
         \/ \E w \in Worker : /\ pc[w] \in RelocationPc /\ n = job[w].moveTo
                              /\ meta'[n] = job[w].old
<1>a. meta \in [Name -> Metadata \cup {None}] BY DEF TypeOK, StoreOK
<1>1. CASE meta' = meta BY <1>1
<1>2. ASSUME NEW m, meta' = Removed(meta, m) PROVE meta'[n] = meta[n]
  BY <1>a, <1>2 DEF Removed
<1>3. ASSUME NEW w \in Worker, WriteMeta(w)
      PROVE  \/ meta'[n] = meta[n]
             \/ /\ pc[w] \in WritingPc /\ n = job[w].target
                /\ meta'[n] = job[w].new
  BY <1>a, <1>3 DEF WriteMeta, Created, WritingPc
<1>4. ASSUME NEW w \in Worker, WriteBackupMeta(w)
      PROVE  \/ meta'[n] = meta[n]
             \/ /\ pc[w] \in RelocationPc /\ n = job[w].moveTo
                /\ meta'[n] = job[w].old
  BY <1>a, <1>4 DEF WriteBackupMeta, Created, RelocationPc
<1>5. ASSUME NEW w \in Worker, WorkerStep(w), ~WriteMeta(w), ~WriteBackupMeta(w)
      PROVE  meta' = meta \/ \E m : meta' = Removed(meta, m)
  BY <1>5
  DEF WorkerStep, OnlyWorkers, OnlyData, OnlyQueue, store, CheckExist, ReadOld,
      AnswerSame, ReadRenamed, ReadOldMeta, ScheduleOld, StatMove, Transfer,
      RemoveSource, CheckMetaExist, StatOldMeta, RemoveOldMeta, StatBackupMeta,
      Generate, ScheduleNew, StatData, WriteData, StatMeta, StatRollback, Rollback,
      StatDelete, Delete, StatDeleteMeta, DeleteMeta, GetData, GetMeta, List, ListMeta
<1>6. ASSUME ConsumerStep PROVE meta' = meta \/ \E m : meta' = Removed(meta, m)
  BY <1>6 DEF ConsumerStep, CheckDue, ReadMeta, CheckExpiry, StatExpired,
     RemoveExpired, StatExpiredMeta, RemoveExpiredMeta, Acknowledge, store
<1>7. ASSUME \/ \E w \in Worker, r \in Request : Submit(w, r)
             \/ \E m \in Message : TakeDelivery(m)
             \/ Tick \/ LoseBroker \/ Restart
             \/ UNCHANGED vars
      PROVE  meta' = meta
  BY <1>7 DEF Submit, TakeDelivery, Tick, LoseBroker, Restart, vars, store
<1>8. QED BY <1>1, <1>2, <1>3, <1>4, <1>5, <1>6, <1>7 DEF Next

(* So no step leaves metadata with a future deadline without its message.   *)
LEMMA ScheduledStep ==
  ASSUME Inv, [Next]_vars
  PROVE  Scheduled'
<1>a. TypeOK /\ ConsumerHoldsDue /\ Scheduled /\ HandlersScheduled BY DEF Inv
<1>b. now \in Int /\ now' \in Int /\ now <= now' BY <1>a, NowGrows
<1>1. SUFFICES ASSUME NEW n \in Name, meta'[n] # None, now' < meta'[n].expiredAt
               PROVE  Pending(DeletionOf(n, meta[n]))'
  BY DEF Scheduled
<1> DEFINE md == meta'[n]
           m == DeletionOf(n, md)
<1>2. md \in Metadata /\ now < md.expiredAt /\ Pending(m)
  <2>1. CASE meta'[n] = meta[n]
    <3>1. meta[n] \in Metadata BY <1>a, <1>1, <2>1 DEF TypeOK, StoreOK
    <3>2. now < meta[n].expiredAt
      BY <1>b, <1>1, <2>1, <3>1, DurationAssumption DEF Metadata, Time
    <3>3. QED BY <1>a, <1>1, <2>1, <3>1, <3>2 DEF Scheduled
  <2>2. ASSUME NEW w \in Worker, pc[w] \in WritingPc, n = job[w].target,
               meta'[n] = job[w].new
        PROVE  md \in Metadata /\ now < md.expiredAt /\ Pending(m)
    <3>1. job[w].new \in Metadata BY <1>a, <2>2, JobFacts DEF WritingPc
    <3>2. now < job[w].new.expiredAt
      BY <1>b, <1>1, <2>2, <3>1, DurationAssumption DEF Metadata, Time
    <3>3. QED
      BY <1>a, <2>2, <3>1, <3>2 DEF HandlersScheduled, HandlerScheduled
  <2>3. ASSUME NEW w \in Worker, pc[w] \in RelocationPc, n = job[w].moveTo,
               meta'[n] = job[w].old
        PROVE  md \in Metadata /\ now < md.expiredAt /\ Pending(m)
    <3>1. job[w].old \in Metadata BY <1>a, <2>3 DEF TypeOK, WorkersOK
    <3>2. now < job[w].old.expiredAt
      BY <1>b, <1>1, <2>3, <3>1, DurationAssumption DEF Metadata, Time
    <3>3. QED
      BY <1>a, <2>3, <3>1, <3>2 DEF HandlersScheduled, HandlerScheduled
  <2>4. QED BY <1>a, <1>1, <2>1, <2>2, <2>3, NewMetadata
<1>3. m \in Message /\ now < m.expiredAt
  BY <1>2, DeletionType DEF DeletionOf
<1>4. \A x \in Message : now < x.expiredAt /\ Pending(x) =>
        queue'[x] > 0 \/ (connected' /\ held' = x)
  BY <1>a, PendingStable DEF Pending
<1>5. QED BY <1>2, <1>3, <1>4 DEF Pending, DeletionOf
-----------------------------------------------------------------------------
(* The invariant.                                                           *)

(* The service starts with empty stores and an empty queue.                 *)
LEMMA InitInv ==
  ASSUME Init
  PROVE  Inv
<1>1. TypeOK
  <2>1. NoReply \in Reply BY AnswerType DEF NoReply
  <2>2. now \in 1..MaxTime BY DurationAssumption DEF Init
  <2>3. QED
    BY <2>1, <2>2, BoundsAssumption DEF Init, TypeOK, StoreOK, BrokerOK, WorkersOK,
       ConsumerOK, EnvironmentOK, WorkerPc, ConsumerPc, RelocationPc
<1>2. Scheduled BY DEF Init, Scheduled
<1>3. HandlersScheduled
  BY DEF Init, HandlersScheduled, HandlerScheduled, WritingPc, RelocationPc
<1>4. ConsumerHoldsDue BY DEF Init, ConsumerHoldsDue, DueConsumerPc
<1>5. QED BY <1>1, <1>2, <1>3, <1>4 DEF Inv

(* Types and the consumer's part, whichever step is taken.                  *)
LEMMA TypeStep ==
  ASSUME TypeOK, ConsumerHoldsDue, [Next]_vars
  PROVE  TypeOK' /\ ConsumerHoldsDue'
<1>1. ASSUME NEW w \in Worker, WorkerStep(w) \/ (\E r \in Request : Submit(w, r))
      PROVE  TypeOK' /\ ConsumerHoldsDue'
  <2>1. TypeOK' BY <1>1, WorkerStepType, SubmitType
  <2>2. UNCHANGED consumerVars /\ held' = held
    <3>1. CASE WorkerStep(w)
      <4>1. held' = held
        BY <3>1, WorkerBroker DEF brokerVars, Publish
      <4>2. UNCHANGED consumerVars
        BY <3>1
        DEF WorkerStep, OnlyWorkers, OnlyData, OnlyMeta, OnlyQueue, CheckExist, ReadOld,
            AnswerSame, ReadRenamed, ReadOldMeta, ScheduleOld, StatMove, Transfer,
            RemoveSource, CheckMetaExist, StatOldMeta, RemoveOldMeta, StatBackupMeta,
            WriteBackupMeta, Generate, ScheduleNew, StatData, WriteData, StatMeta,
            WriteMeta, StatRollback, Rollback, StatDelete, Delete, StatDeleteMeta,
            DeleteMeta, GetData, GetMeta, List, ListMeta
      <4>3. QED BY <4>1, <4>2
    <3>2. ASSUME NEW r \in Request, Submit(w, r)
          PROVE  UNCHANGED consumerVars /\ held' = held
      BY <3>2 DEF Submit, brokerVars
    <3>3. QED BY <1>1, <3>1, <3>2
  <2>3. now \in Int /\ now' \in Int /\ now <= now'
    <3>1. [Next]_vars BY <1>1 DEF Next
    <3>2. QED BY <3>1, NowGrows
  <2>4. cpc \in DueConsumerPc => held.expiredAt \in Int
    BY HeldFacts DEF DueConsumerPc, Time
  <2>5. QED BY <2>1, <2>2, <2>3, <2>4 DEF ConsumerHoldsDue, consumerVars
<1>2. CASE ConsumerStep BY <1>2, ConsumerStepType
<1>3. CASE \E m \in Message : TakeDelivery(m) BY <1>3, DeliveryType
<1>4. CASE Tick \/ LoseBroker \/ Restart BY <1>4, SurroundingsType
<1>5. CASE UNCHANGED vars
  BY <1>5 DEF TypeOK, StoreOK, BrokerOK, WorkersOK, ConsumerOK, EnvironmentOK,
     ConsumerHoldsDue, vars, store, brokerVars, workerVars, consumerVars, environment
<1>6. QED BY <1>1, <1>2, <1>3, <1>4, <1>5 DEF Next

(* Inv is inductive.                                                        *)
LEMMA InvStep ==
  ASSUME Inv, [Next]_vars
  PROVE  Inv'
<1>1. TypeOK' /\ ConsumerHoldsDue' BY TypeStep DEF Inv
<1>2. QED BY <1>1, ScheduledStep, HandlersStep DEF Inv

(* The parts of Inv hold in every state the service can reach.              *)
THEOREM InvAlways == Spec => []Inv
<1>1. Init => Inv BY InitInv
<1>2. Inv /\ [Next]_vars => Inv' BY InvStep
<1>3. QED BY <1>1, <1>2, PTL DEF Spec

(* Type correctness: every handler, the consumer, the stores, the broker    *)
(* and the bounds keep to their types; in particular no handler ever works  *)
(* with metadata it did not find.                                           *)
THEOREM TypeCorrect == Spec => []TypeOK
<1>1. Inv => TypeOK BY DEF Inv
<1>2. QED BY <1>1, InvAlways, PTL

(* Every file whose metadata promises a deadline in the future has its      *)
(* deletion message with the broker, whatever requests interleave, fail or  *)
(* die, however many times.                                                 *)
THEOREM AlwaysScheduled == Spec => []Scheduled
<1>1. Inv => Scheduled BY DEF Inv
<1>2. QED BY <1>1, InvAlways, PTL

(* A handler between its publication and the metadata it promises has the   *)
(* message with the broker.                                                 *)
THEOREM HandlersAlwaysScheduled == Spec => []HandlersScheduled
<1>1. Inv => HandlersScheduled BY DEF Inv
<1>2. QED BY <1>1, InvAlways, PTL

(* The consumer never works on a message before its deadline.               *)
THEOREM ConsumerAlwaysDue == Spec => []ConsumerHoldsDue
<1>1. Inv => ConsumerHoldsDue BY DEF Inv
<1>2. QED BY <1>1, InvAlways, PTL
-----------------------------------------------------------------------------
(* The queue and its consumer implement the scheduler of DelayedDelivery:   *)
(* what the broker would hold after taking back the unacknowledged message  *)
(* is what the scheduler calls pending.                                     *)

(* The message the consumer holds, when it holds one.                       *)
LEMMA HeldMessage ==
  ASSUME Inv
  PROVE  /\ queue \in [Message -> Nat]
         /\ held = NoDelivery \/ held \in Message
         /\ cpc \in {"readMeta", "ack"} => held \in Message /\ held.expiredAt <= now
<1>1. TypeOK /\ ConsumerHoldsDue BY DEF Inv
<1>2. cpc \in {"readMeta", "ack"} => cpc # "idle" /\ cpc \in DueConsumerPc
  BY DEF DueConsumerPc
<1>3. QED BY <1>1, <1>2 DEF TypeOK, BrokerOK, ConsumerHoldsDue

(* Taking a message back, breaking the connection and reopening it change   *)
(* nothing for the scheduler.                                               *)
LEMMA TakenBackStable ==
  ASSUME Requeue \/ Disconnect \/ Reconnect
  PROVE  TakenBack' = TakenBack
<1>1. ASSUME Requeue \/ Reconnect PROVE queue' = TakenBack /\ held' = NoDelivery
  BY <1>1 DEF Requeue, Reconnect
<1>2. ASSUME Disconnect PROVE queue' = TakenBack /\ connected' = FALSE
  BY <1>2 DEF Disconnect
<1>3. QED BY <1>1, <1>2 DEF TakenBack

(* A new message is pending, and delivering it changes nothing.             *)
LEMMA TakenBackSteps ==
  ASSUME Inv, NEW x \in Message
  PROVE  /\ Publish(x) => TakenBack' = [TakenBack EXCEPT ![x] = @ + 1]
         /\ Deliver(x) => TakenBack' = TakenBack
<1>a. queue \in [Message -> Nat] /\ (held = NoDelivery \/ held \in Message)
      /\ x # NoDelivery
  BY HeldMessage, NoneAssumption
<1>1. Publish(x) => TakenBack' = [TakenBack EXCEPT ![x] = @ + 1]
  <2>1. CASE connected /\ held # NoDelivery
    BY <1>a, <2>1 DEF Publish, TakenBack
  <2>2. CASE ~(connected /\ held # NoDelivery)
    BY <1>a, <2>2 DEF Publish, TakenBack
  <2>3. QED BY <2>1, <2>2
<1>2. ASSUME Deliver(x) PROVE TakenBack' = TakenBack
  <2>1. /\ queue' = [queue EXCEPT ![x] = @ - 1] /\ queue[x] \in Int
        /\ held = NoDelivery /\ held' = x /\ connected'
    BY <1>a, <1>2 DEF Deliver
  <2>2. TakenBack = queue /\ TakenBack' = [queue' EXCEPT ![x] = @ + 1]
    BY <1>a, <2>1 DEF TakenBack
  <2>3. queue'[x] + 1 = queue[x] BY <1>a, <2>1
  <2>4. queue = [queue' EXCEPT ![x] = @ + 1] BY <1>a, <2>1, <2>3
  <2>5. QED BY <2>2, <2>4
<1>3. QED BY <1>1, <1>2

(* Forgetting a message settles it, or, on a closed channel, does nothing.  *)
LEMMA ForgetStep ==
  ASSUME Inv, Forget, cpc \in {"readMeta", "ack"}, now' = now
  PROVE  TakenBack' = TakenBack \/ Scheduler!Settle(held)
<1>a. queue \in [Message -> Nat] /\ held \in Message /\ held.expiredAt <= now
  BY HeldMessage
<1>b. queue' = queue /\ held' = NoDelivery /\ connected' = connected
  BY DEF Forget
<1>1. CASE connected
  <2>1. held # NoDelivery BY <1>a, NoneAssumption
  <2>2. TakenBack = [queue EXCEPT ![held] = @ + 1] /\ TakenBack' = queue
    BY <1>1, <1>b, <2>1 DEF TakenBack
  <2>3. TakenBack[held] = queue[held] + 1 /\ queue[held] \in Nat BY <1>a, <2>2
  <2>4. TakenBack[held] > 0 BY <2>3
  <2>5. TakenBack \in [Message -> Nat] /\ TakenBack[held] - 1 = queue[held]
    BY <1>a, <2>2, <2>3
  <2>6. queue = [TakenBack EXCEPT ![held] = @ - 1]
    BY <1>a, <2>2, <2>5
  <2>7. QED BY <1>a, <2>2, <2>4, <2>6 DEF Scheduler!Settle
<1>2. CASE ~connected BY <1>2, <1>b DEF TakenBack
<1>3. QED BY <1>1, <1>2

(* Every step of the service is a step of the scheduler, or none.           *)
LEMMA SchedulerStep ==
  ASSUME Inv, [Next]_vars
  PROVE  [Scheduler!Next]_(Scheduler!vars)
<1>a. TypeOK BY DEF Inv
<1>b. now' = now \/ (now' = now + 1 /\ UNCHANGED brokerVars) BY ClockSteps
<1>1. CASE UNCHANGED brokerVars
  <2>1. TakenBack' = TakenBack BY <1>1 DEF brokerVars, TakenBack
  <2>2. CASE now' = now BY <2>1, <2>2 DEF Scheduler!vars
  <2>3. CASE now' = now + 1
    BY <2>1, <2>3 DEF Scheduler!Next, Scheduler!Advance
  <2>4. QED BY <1>b, <2>2, <2>3
<1>2. CASE now' = now
  <2>1. ASSUME TakenBack' = TakenBack
        PROVE  [Scheduler!Next]_(Scheduler!vars)
    BY <1>2, <2>1 DEF Scheduler!vars
  <2>2. ASSUME NEW x \in Message, Publish(x)
        PROVE  [Scheduler!Next]_(Scheduler!vars)
    <3>1. TakenBack' = [TakenBack EXCEPT ![x] = @ + 1] BY <2>2, TakenBackSteps
    <3>2. Scheduler!Accept(x) BY <1>2, <3>1 DEF Scheduler!Accept
    <3>3. QED BY <3>2 DEF Scheduler!Next
  <2>3. ASSUME NEW x \in Message, Deliver(x)
        PROVE  [Scheduler!Next]_(Scheduler!vars)
    BY <2>1, <2>3, TakenBackSteps
  <2>4. CASE Forget /\ cpc \in {"readMeta", "ack"}
    <3>1. held \in Message BY <2>4, HeldMessage
    <3>2. CASE Scheduler!Settle(held) BY <3>1, <3>2 DEF Scheduler!Next
    <3>3. QED BY <1>2, <2>1, <2>4, <3>2, ForgetStep
  <2>5. CASE Requeue \/ Disconnect \/ Reconnect
    BY <2>1, <2>5, TakenBackStable
  <2>6. QED BY <1>a, <1>1, <2>2, <2>3, <2>4, <2>5, BrokerSteps
<1>3. QED BY <1>b, <1>1, <1>2

(* The service implements the scheduler: a deletion message, once accepted, *)
(* is neither lost to a crash or a broken connection nor settled before its *)
(* deadline.                                                                *)
THEOREM SchedulerImplemented == Spec => ImplementsScheduler
<1>1. Init => Scheduler!Init
  BY DEF Init, Scheduler!Init, TakenBack
<1>2. Inv /\ [Next]_vars => [Scheduler!Next]_(Scheduler!vars)
  BY SchedulerStep
<1>3. QED
  BY <1>1, <1>2, InvAlways, PTL DEF Spec, ImplementsScheduler, Scheduler!Spec
=============================================================================
