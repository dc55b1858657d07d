------------------------- MODULE FaultyHostingProofs -------------------------
(***************************************************************************)
(* The invariant of FileHosting survives a storage that fails.              *)
(*                                                                         *)
(* A failing call leaves the broker alone but for the two ways the consumer *)
(* settles a message, which is due by then; it moves a handler only to      *)
(* where an absent object would have, and writes no metadata but its own.   *)
(***************************************************************************)
EXTENDS FaultyHosting, FileHostingProofs

Faulted(w) ==
  Unread(w) \/ UnreadGenerate(w) \/ Unlisted(w) \/ Undone(w) \/ Unwritten(w)

(* A call that fails was made by a handler at work.                         *)
LEMMA FaultedBusy ==
  ASSUME NEW w \in Worker, Faulted(w)
  PROVE  pc[w] # "idle"
  BY DEF Faulted, Unread, Overlooked, UnreadGenerate, Unlisted, Undone, Unwritten

(* A failed look at the storage moves the handler on, typed.                *)
LEMMA UnreadType ==
  ASSUME TypeOK, NEW w \in Worker, Unread(w)
  PROVE  TypeOK'
<1>a. WorkersOK /\ pc[w] # "idle" BY FaultedBusy DEF Faulted, TypeOK
<1>1. WorkersOK'
  <2>1. CASE pc[w] = "exist" /\ Proceed(w, WriteNew(job[w].new))
    BY <1>a, <2>1, WriteNewType, ProceedType
  <2>2. CASE pc[w] = "readOld" /\ Proceed(w, "readOldMeta")
    BY <1>a, <2>2, Labels, ProceedType
  <2>3. CASE Relocated(w) BY <1>a, <2>3, RelocatedType
  <2>4. CASE pc[w] = "statBackupMeta" /\ Proceed(w, "writeBackupMeta")
    <3>1. job[w].old \in Metadata /\ "writeBackupMeta" \in WorkerPc \ {"idle"}
      BY <1>a, <2>4, Labels DEF WorkersOK, RelocationPc
    <3>2. QED BY <1>a, <2>4, <3>1, ProceedType
  <2>5. CASE Proceed(w, "writeData") \/ Proceed(w, "writeMeta")
    <3>1. {"writeData", "writeMeta"}
            \subseteq WorkerPc \ ({"idle", "scheduleOld"} \cup RelocationPc)
      BY Labels DEF WritingPc
    <3>2. QED BY <1>a, <2>5, <3>1, ProceedType
  <2>6. CASE Fail(w) \/ Panic(w) BY <1>a, <2>6, FailType
  <2>7. QED
    BY <2>1, <2>2, <2>3, <2>4, <2>5, <2>6 DEF Unread, Overlooked
<1>2. QED BY <1>1, WorkersFrame DEF Unread

(* So does a failed look for a free name.                                   *)
LEMMA UnreadGenerateType ==
  ASSUME TypeOK, NEW w \in Worker, UnreadGenerate(w)
  PROVE  TypeOK'
<1>a. pc[w] # "idle" /\ job[w] \in Job /\ job[w].req.duration \in 0..MaxDuration
      /\ job[w].new \in Metadata
  BY JobFacts DEF UnreadGenerate
<1>1. PICK g \in Generated :
        /\ issued' = issued \cup {g}
        /\ job' = [job EXCEPT ![w].target = g,
                     ![w].new.expiredAt = Expiry("generate", job[w].req.duration)]
  BY DEF UnreadGenerate
<1> DEFINE e == Expiry("generate", job[w].req.duration)
           j == [job[w] EXCEPT !.target = g, !.new.expiredAt = e]
<1>2. e \in Time BY <1>a, ExpiryType DEF TypeOK, EnvironmentOK
<1>3. j \in Job
  <2>1. [job[w].new EXCEPT !.expiredAt = e] \in Metadata BY <1>a, <1>2 DEF Metadata
  <2>2. QED BY <1>a, <2>1 DEF Job, Name
<1>4. job' = [job EXCEPT ![w] = j] BY <1>1 DEF TypeOK, WorkersOK
<1>5. WorkersOK'
  BY <1>3, <1>4, Labels, UpdateType DEF UnreadGenerate, TypeOK
<1>6. EnvironmentOK' BY <1>1 DEF UnreadGenerate, TypeOK, EnvironmentOK, Name
<1>7. QED
  BY <1>5, <1>6 DEF UnreadGenerate, TypeOK, StoreOK, BrokerOK, ConsumerOK, store,
     brokerVars, consumerVars

(* And a failed change, whether it had its effect or not.                   *)
LEMMA UndoneType ==
  ASSUME TypeOK, NEW w \in Worker, Undone(w) \/ Unwritten(w)
  PROVE  TypeOK'
<1>a. /\ WorkersOK /\ StoreOK /\ pc[w] # "idle"
      /\ job[w].req.name \in Name /\ job[w].moveTo \in Name /\ job[w].target \in Name
      /\ job[w].req.content \in Content /\ job[w].new \in Metadata
  BY FaultedBusy, JobFacts DEF Faulted, TypeOK
<1>1. WorkersOK'
  <2>1. CASE Undone(w) BY <1>a, <2>1, FailType DEF Undone
  <2>2. CASE Unwritten(w) BY <1>a, <2>2, Labels, ProceedType DEF Unwritten
  <2>3. QED BY <2>1, <2>2
<1>2. pc[w] = "writeBackupMeta" => job[w].old \in Metadata
  BY <1>a DEF WorkersOK, RelocationPc
<1>3. CASE OnlyData
  <2>1. /\ Removed(data, job[w].req.name) \in [Name -> Content \cup {None}]
        /\ Created(data, job[w].target, job[w].req.content)
             \in [Name -> Content \cup {None}]
        /\ Transferred(data, job[w].req.name, job[w].moveTo)
             \in [Name -> Content \cup {None}]
    BY <1>a DEF StoreOK, Removed, Created, Transferred
  <2>2. data' \in [Name -> Content \cup {None}]
    BY <1>a, <1>3, <2>1 DEF Undone, Unwritten, OnlyData, OnlyMeta, StoreOK
  <2>3. QED BY <1>1, <1>3, <2>2, DataFrame
<1>4. CASE OnlyMeta
  <2>1. /\ Removed(meta, job[w].req.name) \in [Name -> Metadata \cup {None}]
        /\ Created(meta, job[w].target, job[w].new) \in [Name -> Metadata \cup {None}]
        /\ pc[w] = "writeBackupMeta" =>
             Created(meta, job[w].moveTo, job[w].old) \in [Name -> Metadata \cup {None}]
    BY <1>a, <1>2 DEF StoreOK, Removed, Created
  <2>2. meta' \in [Name -> Metadata \cup {None}]
    BY <1>a, <1>4, <2>1 DEF Undone, Unwritten, OnlyData, OnlyMeta, StoreOK
  <2>3. QED BY <1>1, <1>4, <2>2, MetaFrame
<1>5. QED BY <1>3, <1>4 DEF Undone, Unwritten

(* What a failing call of a handler leaves alone.                           *)
LEMMA FaultedFrame ==
  ASSUME NEW w \in Worker, Faulted(w)
  PROVE  UNCHANGED <<brokerVars, consumerVars, now>>
  BY DEF Faulted, Unread, UnreadGenerate, Unlisted, Undone, Unwritten, OnlyWorkers,
         OnlyData, OnlyMeta, environment

(* The types and the consumer's part of the invariant.                      *)
LEMMA FaultedType ==
  ASSUME TypeOK, ConsumerHoldsDue, NEW w \in Worker, Faulted(w)
  PROVE  TypeOK' /\ ConsumerHoldsDue'
<1>1. CASE Unlisted(w)
  <2>1. WorkersOK' BY <1>1, FailType DEF Unlisted, TypeOK
  <2>2. QED
    BY <1>1, <2>1, WorkersFrame, FaultedFrame
    DEF Unlisted, ConsumerHoldsDue, consumerVars, brokerVars
<1>2. CASE ~Unlisted(w)
  <2>1. TypeOK' BY <1>2, UnreadType, UnreadGenerateType, UndoneType DEF Faulted
  <2>2. QED
    BY <2>1, FaultedFrame DEF ConsumerHoldsDue, consumerVars, brokerVars
<1>3. QED BY <1>1, <1>2

(* The consumer gives a delivery back, or goes on to the next call; or it   *)
(* forgets the message of a file it cannot see.                             *)
LEMMA ConsumerFaultType ==
  ASSUME TypeOK, ConsumerHoldsDue, UnreadByConsumer \/ UndoneByConsumer
  PROVE  TypeOK' /\ ConsumerHoldsDue'
<1>a. cpc \in DueConsumerPc /\ cpc # "idle"
  BY DEF UnreadByConsumer, UndoneByConsumer, DueConsumerPc
<1>b. held.name \in Name BY <1>a, HeldFacts
<1>c. ConsumerOnly /\ now' = now
  BY DEF UnreadByConsumer, UndoneByConsumer, ConsumerOnly, environment
<1>d. StoreOK'
  BY <1>b DEF UnreadByConsumer, UndoneByConsumer, TypeOK, StoreOK, Removed, store
<1>e. held.expiredAt <= now BY <1>a DEF ConsumerHoldsDue
<1>f. Settle(Forget) \/ Settle(Requeue) \/ Continue("ack")
  BY DEF UnreadByConsumer, UndoneByConsumer, Compare
<1>g. "ack" \in DueConsumerPc BY DEF DueConsumerPc
<1>h. BrokerOK' /\ ConsumerOK' /\ ConsumerHoldsDue'
  BY <1>a, <1>c, <1>e, <1>f, <1>g, ContinueType, SettledType
<1>i. QED BY <1>c, <1>d, <1>h, ConsumerFrame
-----------------------------------------------------------------------------
(* The other parts of the invariant.                                        *)

(* A failing call settles a message only once it is due.                    *)
LEMMA PendingKept ==
  ASSUME TypeOK, ConsumerHoldsDue, Fault,
         NEW m \in Message, now < m.expiredAt, Pending(m)
  PROVE  Pending(m)'
<1>a. BrokerOK /\ m # NoDelivery BY NoneAssumption DEF TypeOK
<1>b. now \in Int /\ m.expiredAt \in Int
  BY DurationAssumption DEF TypeOK, EnvironmentOK, Message, Time
<1>1. CASE UNCHANGED brokerVars BY <1>1 DEF Pending, brokerVars
<1>2. CASE cpc = "readMeta" /\ Forget
  <2>1. held.expiredAt <= now BY <1>2 DEF ConsumerHoldsDue, DueConsumerPc
  <2>2. held # m BY <1>b, <2>1
  <2>3. QED BY <1>2, <2>2 DEF Pending, Forget
<1>3. CASE Requeue BY <1>a, <1>3 DEF Requeue, Pending, TakenBack, BrokerOK
<1>4. ASSUME UnreadByConsumer \/ UndoneByConsumer
      PROVE  UNCHANGED brokerVars \/ (cpc = "readMeta" /\ Forget) \/ Requeue
  BY <1>4 DEF UnreadByConsumer, UndoneByConsumer, Compare, Settle, Continue
<1>5. QED BY <1>1, <1>2, <1>3, <1>4, FaultedFrame DEF Fault, Faulted

(* A failing call is one of a handler, or of the consumer, and the clock    *)
(* stands still.                                                            *)
LEMMA FaultClock ==
  ASSUME Fault
  PROVE  now' = now
  BY FaultedFrame
  DEF Fault, Faulted, UnreadByConsumer, UndoneByConsumer, ConsumerOnly, environment

(* A handler whose place and locals stay keeps its message.                 *)
LEMMA KeptHandler ==
  ASSUME Inv, Fault, NEW v \in Worker, job'[v] = job[v],
         \/ pc'[v] = pc[v]
         \/ pc[v] \in WritingPc /\ pc'[v] \in WritingPc
         \/ pc[v] \in RelocationPc /\ pc'[v] \in RelocationPc
  PROVE  HandlerScheduled(v)'
<1>a. TypeOK /\ ConsumerHoldsDue /\ HandlerScheduled(v)
  BY DEF Inv, HandlersScheduled
<1>b. now' = now BY FaultClock
<1>c. WritingPc \cap RelocationPc = {} BY DEF WritingPc, RelocationPc
<1>d. \A x \in Message : now < x.expiredAt /\ Pending(x) =>
        queue'[x] > 0 \/ (connected' /\ held' = x)
  BY <1>a, PendingKept DEF Pending
<1>1. CASE pc'[v] \in WritingPc
  <2>1. pc[v] \in WritingPc BY <1>c, <1>1
  <2>2. job[v].target \in Name /\ job[v].new \in Metadata
    BY <1>a, <2>1, JobFacts DEF WritingPc
  <2> DEFINE m == DeletionOf(job[v].target, job[v].new)
  <2>3. m \in Message /\ m.expiredAt = job[v].new.expiredAt
    BY <2>2, DeletionType DEF DeletionOf
  <2>4. now < job[v].new.expiredAt => Pending(m) BY <1>a, <2>1 DEF HandlerScheduled
  <2>5. now < job[v].new.expiredAt => queue'[m] > 0 \/ (connected' /\ held' = m)
    BY <1>d, <2>3, <2>4
  <2>6. pc'[v] \notin RelocationPc BY <1>c, <1>1
  <2>7. QED BY <1>b, <2>5, <2>6 DEF HandlerScheduled, Pending, DeletionOf
<1>2. CASE pc'[v] \in RelocationPc
  <2>1. pc[v] \in RelocationPc BY <1>c, <1>2
  <2>2. job[v].moveTo \in Name /\ job[v].old \in Metadata
    BY <1>a, <2>1, JobFacts DEF RelocationPc, TypeOK, WorkersOK
  <2> DEFINE m == DeletionOf(job[v].moveTo, job[v].old)
  <2>3. m \in Message /\ m.expiredAt = job[v].old.expiredAt
    BY <2>2, DeletionType DEF DeletionOf
  <2>4. now < job[v].old.expiredAt => Pending(m) BY <1>a, <2>1 DEF HandlerScheduled
  <2>5. now < job[v].old.expiredAt => queue'[m] > 0 \/ (connected' /\ held' = m)
    BY <1>d, <2>3, <2>4
  <2>6. pc'[v] \notin WritingPc BY <1>c, <1>2
  <2>7. QED BY <1>b, <2>5, <2>6 DEF HandlerScheduled, Pending, DeletionOf
<1>3. CASE pc'[v] \notin WritingPc \cup RelocationPc BY <1>3 DEF HandlerScheduled
<1>4. QED BY <1>1, <1>2, <1>3

(* The ways a failing call moves its handler.                               *)
LEMMA FaultedMoves ==
  ASSUME TypeOK, NEW w \in Worker, Faulted(w)
  PROVE  \/ pc'[w] \notin WritingPc \cup RelocationPc
         \/ pc[w] \in WritingPc /\ pc'[w] \in WritingPc /\ job'[w] = job[w]
         \/ pc[w] \in RelocationPc /\ pc'[w] \in RelocationPc /\ job'[w] = job[w]
         \/ pc'[w] \in WritingPc /\ job'[w].new.expiredAt = Never
<1>a. w \in DOMAIN pc /\ w \in DOMAIN job BY DEF TypeOK, WorkersOK
<1>b. "idle" \notin WritingPc \cup RelocationPc BY DEF WritingPc, RelocationPc
<1>c. Fail(w) \/ Panic(w) => pc'[w] = "idle" BY <1>a DEF Fail, Panic, Finish
<1>d. \A label : Proceed(w, label) => pc'[w] = label /\ job'[w] = job[w]
  BY <1>a DEF Proceed, Goto
<1>e. job[w] \in Job BY FaultedBusy, JobFacts
<1>f. /\ "statData" \in WritingPc
      /\ {"schedule", "readOldMeta", "statRollback"} \cap (WritingPc \cup RelocationPc) = {}
  BY DEF WritingPc, RelocationPc
<1>1. CASE Relocated(w)
  <2>1. CASE job[w].req.op = "rename"
    BY <1>a, <1>b, <1>1, <2>1 DEF Relocated, Finish
  <2>2. CASE job[w].req.op # "rename"
    <3>1. pc'[w] = WriteNew(job[w].new) BY <1>a, <1>1, <2>2 DEF Relocated, Goto
    <3>2. job'[w] = [job[w] EXCEPT !.new.backup = job[w].moveTo]
      BY <1>a, <1>1, <2>2 DEF Relocated
    <3>3. job'[w].new.expiredAt = job[w].new.expiredAt
      BY <1>e, <3>2 DEF Job, Metadata
    <3>4. QED BY <1>f, <3>1, <3>3 DEF WriteNew
  <2>3. QED BY <2>1, <2>2
<1>2. CASE Unread(w) /\ ~Relocated(w)
  <2>1. CASE pc[w] = "exist" /\ Proceed(w, WriteNew(job[w].new))
    BY <1>d, <1>f, <2>1 DEF WriteNew
  <2>2. CASE pc[w] = "readOld" /\ Proceed(w, "readOldMeta") BY <1>d, <1>f, <2>2
  <2>3. CASE pc[w] = "statBackupMeta" /\ Proceed(w, "writeBackupMeta")
    BY <1>d, <2>3 DEF RelocationPc
  <2>4. CASE \/ pc[w] = "statData" /\ Proceed(w, "writeData")
             \/ pc[w] = "statMeta" /\ Proceed(w, "writeMeta")
    BY <1>d, <2>4 DEF WritingPc
  <2>5. CASE Fail(w) \/ Panic(w) BY <1>b, <1>c, <2>5
  <2>6. QED BY <1>2, <2>1, <2>2, <2>3, <2>4, <2>5 DEF Unread, Overlooked
<1>3. CASE UnreadGenerate(w) BY <1>a, <1>f, <1>3 DEF UnreadGenerate, Goto
<1>4. CASE Unlisted(w) \/ Undone(w) BY <1>b, <1>c, <1>4 DEF Unlisted, Undone
<1>5. CASE Unwritten(w) BY <1>d, <1>f, <1>5 DEF Unwritten
<1>6. QED BY <1>1, <1>2, <1>3, <1>4, <1>5 DEF Faulted

(* It moves no other handler.                                               *)
LEMMA FaultedAlone ==
  ASSUME TypeOK, NEW w \in Worker, Faulted(w), NEW v \in Worker, v # w
  PROVE  pc'[v] = pc[v] /\ job'[v] = job[v]
<1>1. v \in DOMAIN pc /\ v \in DOMAIN job BY DEF TypeOK, WorkersOK
<1>2. ASSUME NEW label, Goto(w, label) PROVE pc'[v] = pc[v]
  BY <1>1, <1>2 DEF Goto
<1>3. ASSUME NEW label, Proceed(w, label) PROVE pc'[v] = pc[v] /\ job'[v] = job[v]
  BY <1>2, <1>3 DEF Proceed
<1>4. ASSUME NEW answer, Finish(w, answer) PROVE pc'[v] = pc[v] /\ job'[v] = job[v]
  BY <1>1, <1>4 DEF Finish
<1>5. Fail(w) \/ Panic(w) => pc'[v] = pc[v] /\ job'[v] = job[v]
  BY <1>4 DEF Fail, Panic
<1>6. Relocated(w) => pc'[v] = pc[v] /\ job'[v] = job[v]
  BY <1>1, <1>2, <1>4 DEF Relocated
<1>7. CASE Unread(w) BY <1>3, <1>5, <1>6, <1>7 DEF Unread, Overlooked
<1>8. CASE UnreadGenerate(w) BY <1>1, <1>2, <1>8 DEF UnreadGenerate
<1>9. CASE Unlisted(w) \/ Undone(w) BY <1>5, <1>9 DEF Unlisted, Undone
<1>10. CASE Unwritten(w) BY <1>3, <1>10 DEF Unwritten
<1>11. QED BY <1>7, <1>8, <1>9, <1>10 DEF Faulted

(* No failing call leaves a handler without its message.                    *)
LEMMA FaultHandlers ==
  ASSUME Inv, Fault
  PROVE  HandlersScheduled'
<1> SUFFICES ASSUME NEW v \in Worker PROVE HandlerScheduled(v)'
  BY DEF HandlersScheduled
<1>a. TypeOK BY DEF Inv
<1>b. now' \in Int /\ 1 <= now'
  BY <1>a, FaultClock DEF TypeOK, EnvironmentOK
<1>1. CASE UnreadByConsumer \/ UndoneByConsumer
  BY <1>1, KeptHandler DEF UnreadByConsumer, UndoneByConsumer, ConsumerOnly, workerVars
<1>2. ASSUME NEW w \in Worker, Faulted(w) PROVE HandlerScheduled(v)'
  <2>1. CASE v # w
    <3>1. pc'[v] = pc[v] /\ job'[v] = job[v] BY <1>a, <1>2, <2>1, FaultedAlone
    <3>2. QED BY <3>1, KeptHandler
  <2>2. CASE v = w /\ pc'[w] \notin WritingPc \cup RelocationPc
    BY <2>2 DEF HandlerScheduled
  <2>3. CASE v = w /\ pc'[w] \in WritingPc /\ job'[w].new.expiredAt = Never
    <3>1. pc'[w] \notin RelocationPc BY <2>3 DEF WritingPc, RelocationPc
    <3>2. QED BY <1>b, <2>3, <3>1 DEF HandlerScheduled, Never
  <2>4. CASE /\ v = w /\ job'[w] = job[w]
             /\ \/ pc[w] \in WritingPc /\ pc'[w] \in WritingPc
                \/ pc[w] \in RelocationPc /\ pc'[w] \in RelocationPc
    BY <2>4, KeptHandler
  <2>5. QED BY <1>a, <1>2, <2>1, <2>2, <2>3, <2>4, FaultedMoves
<1>3. QED BY <1>1, <1>2 DEF Fault, Faulted

(* Metadata that a failing call left is of its handler.                     *)
LEMMA FaultMetadata ==
  ASSUME TypeOK, Fault, NEW n \in Name, meta'[n] # None
  PROVE  \/ meta'[n] = meta[n]
         \/ \E w \in Worker : /\ pc[w] \in WritingPc /\ n = job[w].target
                              /\ meta'[n] = job[w].new
         \/ \E w \in Worker : /\ pc[w] \in RelocationPc /\ n = job[w].moveTo
                              /\ meta'[n] = job[w].old
<1>a. meta \in [Name -> Metadata \cup {None}] BY DEF TypeOK, StoreOK
<1>1. CASE meta' = meta BY <1>1
<1>2. ASSUME NEW m, meta' = Removed(meta, m) PROVE meta'[n] = meta[n]
  BY <1>a, <1>2 DEF Removed
<1>3. ASSUME NEW w \in Worker, pc[w] = "writeMeta",
             meta' = Created(meta, job[w].target, job[w].new)
      PROVE  \/ meta'[n] = meta[n]
             \/ pc[w] \in WritingPc /\ n = job[w].target /\ meta'[n] = job[w].new
  BY <1>a, <1>3 DEF Created, WritingPc
<1>4. ASSUME NEW w \in Worker, pc[w] = "writeBackupMeta",
             meta' = Created(meta, job[w].moveTo, job[w].old)
      PROVE  \/ meta'[n] = meta[n]
             \/ pc[w] \in RelocationPc /\ n = job[w].moveTo /\ meta'[n] = job[w].old
  BY <1>a, <1>4 DEF Created, RelocationPc
<1>5. CASE UnreadByConsumer \/ UndoneByConsumer
  BY <1>1, <1>2, <1>5 DEF UnreadByConsumer, UndoneByConsumer, store
<1>6. ASSUME NEW w \in Worker, Faulted(w)
      PROVE  \/ meta' = meta
             \/ \E m : meta' = Removed(meta, m)
             \/ /\ pc[w] = "writeMeta"
                /\ meta' = Created(meta, job[w].target, job[w].new)
             \/ /\ pc[w] = "writeBackupMeta"
                /\ meta' = Created(meta, job[w].moveTo, job[w].old)
  <2>1. CASE Unread(w) \/ UnreadGenerate(w) \/ Unlisted(w)
    BY <2>1 DEF Unread, UnreadGenerate, Unlisted, OnlyWorkers, store
  <2>2. CASE Undone(w) BY <2>2 DEF Undone, OnlyData
  <2>3. CASE Unwritten(w) BY <2>3 DEF Unwritten
  <2>4. QED BY <1>6, <2>1, <2>2, <2>3 DEF Faulted
<1>7. QED BY <1>1, <1>2, <1>3, <1>4, <1>5, <1>6 DEF Fault, Faulted

(* So it has its message.                                                   *)
LEMMA FaultScheduled ==
  ASSUME Inv, Fault
  PROVE  Scheduled'
<1>a. TypeOK /\ ConsumerHoldsDue /\ Scheduled /\ HandlersScheduled /\ now' = now
  BY FaultClock DEF Inv
<1>1. SUFFICES ASSUME NEW n \in Name, meta'[n] # None, now' < meta'[n].expiredAt
               PROVE  Pending(DeletionOf(n, meta[n]))'
  BY DEF Scheduled
<1> DEFINE m == DeletionOf(n, meta'[n])
<1>2. meta'[n] \in Metadata /\ Pending(m)
  <2>1. CASE meta'[n] = meta[n]
    <3>1. meta[n] \in Metadata BY <1>a, <1>1, <2>1 DEF TypeOK, StoreOK
    <3>2. QED BY <1>a, <1>1, <2>1, <3>1 DEF Scheduled
  <2>2. ASSUME NEW w \in Worker, pc[w] \in WritingPc, n = job[w].target,
               meta'[n] = job[w].new
        PROVE  meta'[n] \in Metadata /\ Pending(m)
    <3>1. job[w].new \in Metadata BY <1>a, <2>2, JobFacts DEF WritingPc
    <3>2. QED
      BY <1>a, <1>1, <2>2, <3>1 DEF HandlersScheduled, HandlerScheduled
  <2>3. ASSUME NEW w \in Worker, pc[w] \in RelocationPc, n = job[w].moveTo,
               meta'[n] = job[w].old
        PROVE  meta'[n] \in Metadata /\ Pending(m)
    <3>1. job[w].old \in Metadata BY <1>a, <2>3 DEF TypeOK, WorkersOK
    <3>2. QED
      BY <1>a, <1>1, <2>3, <3>1 DEF HandlersScheduled, HandlerScheduled
  <2>4. QED BY <1>a, <1>1, <2>1, <2>2, <2>3, FaultMetadata
<1>3. m \in Message /\ now < m.expiredAt
  BY <1>a, <1>1, <1>2, DeletionType DEF DeletionOf
<1>4. \A x \in Message : now < x.expiredAt /\ Pending(x) =>
        queue'[x] > 0 \/ (connected' /\ held' = x)
  BY <1>a, PendingKept DEF Pending
<1>5. QED BY <1>2, <1>3, <1>4 DEF Pending, DeletionOf
-----------------------------------------------------------------------------
(* Whatever calls to the storage fail, with or without their effect, in     *)
(* handlers and consumer: a deadline that lies ahead has its message with   *)
(* the broker, and the consumer works on due messages only.                 *)
THEOREM InvDespiteFaults == FaultySpec => []Inv
<1>1. Init => Inv BY InitInv
<1>2. ASSUME Inv, [FaultyNext]_<<vars, errors>>
      PROVE  Inv'
  <2>1. CASE Next \/ UNCHANGED vars
    <3>1. [Next]_vars BY <2>1
    <3>2. QED BY <1>2, <3>1, InvStep
  <2>2. CASE Fault
    <3>1. TypeOK' /\ ConsumerHoldsDue'
      BY <1>2, <2>2, FaultedType, ConsumerFaultType DEF Fault, Faulted, Inv
    <3>2. QED BY <1>2, <2>2, <3>1, FaultHandlers, FaultScheduled DEF Inv
  <2>3. QED BY <1>2, <2>1, <2>2 DEF FaultyNext
<1>3. QED BY <1>1, <1>2, PTL DEF FaultySpec

(* In particular the file a client was promised until a deadline still has  *)
(* its deletion scheduled after any number of failed calls.                 *)
THEOREM ScheduledDespiteFaults == FaultySpec => []Scheduled
<1>1. Inv => Scheduled BY DEF Inv
<1>2. QED BY <1>1, InvDespiteFaults, PTL
=============================================================================
