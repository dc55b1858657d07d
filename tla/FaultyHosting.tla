---------------------------- MODULE FaultyHosting ----------------------------
(***************************************************************************)
(* FileHosting on an S3 bucket that does not always answer.                 *)
(*                                                                         *)
(* The storage takes an error of a stat for absence (pkg/s3 Exists) and     *)
(* every Read begins with one, so a handler or the consumer whose look at   *)
(* the storage fails goes on as if the storage were empty.  A call that     *)
(* changes the storage may fail with or without its effect: the answer of   *)
(* S3, not its work, is what is lost.                                       *)
(***************************************************************************)
EXTENDS FileHosting

CONSTANT MaxErrors   \* bound on the calls to the storage that fail

ASSUME BucketAssumption == Backend = "s3"
ASSUME ErrorsAssumption == MaxErrors \in Nat

VARIABLE errors

(* The steps a handler takes on an absent object, of calls that only look.  *)
Overlooked(w) ==
  \/ pc[w] = "exist" /\ Proceed(w, WriteNew(job[w].new))
  \/ pc[w] = "readOld" /\ Proceed(w, "readOldMeta")
  \/ pc[w] = "metaExist" /\ Relocated(w)
  \/ pc[w] = "statBackupMeta" /\ Proceed(w, "writeBackupMeta")
  \/ pc[w] = "statData" /\ Proceed(w, "writeData")
  \/ pc[w] = "statMeta" /\ Proceed(w, "writeMeta")
  \/ pc[w] \in {"sameMeta", "readOldMeta"} /\ Panic(w)
  \/ /\ pc[w] \in {"readRenamed", "statMove", "statOldMeta", "statRollback",
                   "statDelete", "statDeleteMeta", "getData", "getMeta"}
     /\ Fail(w)

Unread(w) == Overlooked(w) /\ OnlyWorkers

(* A generated name that is in use looks free.                              *)
UnreadGenerate(w) ==
  /\ pc[w] = "generate"
  /\ \E g \in Generated :
       /\ issued' = issued \cup {g}
       /\ job' = [job EXCEPT ![w].target = g,
                    ![w].new.expiredAt = Expiry("generate", job[w].req.duration)]
  /\ Goto(w, "schedule")
  /\ UNCHANGED <<store, brokerVars, consumerVars, now, requests, crashes, disconnects>>

(* The consumer forgets a message whose file it cannot see, and keeps one   *)
(* whose file it could not remove.                                          *)
UnreadByConsumer ==
  /\ \/ cpc = "readMeta" /\ Compare(None)
     \/ cpc = "statData" /\ Settle(Requeue)
     \/ cpc = "statMeta" /\ Continue("ack")
  /\ UNCHANGED store /\ ConsumerOnly

(* A listing fails with the call that lists, or the one that reads one of   *)
(* the files.                                                               *)
Unlisted(w) ==
  /\ pc[w] = "list" \/ (pc[w] = "listMeta" /\ job[w].todo # {})
  /\ Fail(w) /\ OnlyWorkers

(* The call that is to change the files, or their metadata, fails.          *)
Undone(w) ==
  LET name == job[w].req.name IN
  /\ Fail(w)
  /\ \/ /\ pc[w] = "transfer"
        /\ data' \in {data} \cup
             IF TransferSucceeds(data, name, job[w].moveTo)
             THEN {Transferred(data, name, job[w].moveTo)} ELSE {}
        /\ OnlyData
     \/ /\ pc[w] \in {"removeSource", "delete"}
        /\ data' \in {data, Removed(data, name)} /\ OnlyData
     \/ /\ pc[w] = "writeData"
        /\ data' \in {data, Created(data, job[w].target, job[w].req.content)} /\ OnlyData
     \/ pc[w] = "rollback" /\ UNCHANGED data /\ OnlyData
     \/ /\ pc[w] \in {"removeOldMeta", "deleteMeta"}
        /\ meta' \in {meta, Removed(meta, name)} /\ OnlyMeta
     \/ /\ pc[w] = "writeBackupMeta"
        /\ meta' \in {meta, Created(meta, job[w].moveTo, job[w].old)} /\ OnlyMeta

(* The last write of an upload fails, and the file is rolled back.          *)
Unwritten(w) ==
  /\ pc[w] = "writeMeta"
  /\ meta' \in {meta, Created(meta, job[w].target, job[w].new)}
  /\ Proceed(w, "statRollback")
  /\ OnlyMeta

(* The consumer keeps the message when the file may be left, and forgets it *)
(* when only the metadata is.                                               *)
UndoneByConsumer ==
  /\ \/ /\ cpc = "removeData"
        /\ data' \in {data, Removed(data, held.name)} /\ UNCHANGED meta
        /\ Settle(Requeue)
     \/ /\ cpc = "removeMeta"
        /\ meta' \in {meta, Removed(meta, held.name)} /\ UNCHANGED data
        /\ Continue("ack")
  /\ ConsumerOnly

Fault ==
  /\ errors < MaxErrors
  /\ errors' = errors + 1
  /\ \/ \E w \in Worker : \/ Unread(w) \/ UnreadGenerate(w) \/ Unlisted(w)
                         \/ Undone(w) \/ Unwritten(w)
     \/ UnreadByConsumer \/ UndoneByConsumer

FaultyNext == (Next /\ UNCHANGED errors) \/ Fault

FaultySpec == Init /\ errors = 0 /\ [][FaultyNext]_<<vars, errors>>
=============================================================================
