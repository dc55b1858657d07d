------------------------------ MODULE Ownership ------------------------------
(***************************************************************************)
(* Why the promises of FileHosting hold for clients that never reuse a      *)
(* name: every name is given one metadata, once, by the one request that    *)
(* chose the name, and whatever is later found, read, moved or announced    *)
(* under the name agrees with it.  The invariants here are what the         *)
(* theorems of OwnershipProofs rest on.                                     *)
(***************************************************************************)
EXTENDS FileHosting

(* Where a handler makes a new file, and where it moves one.                *)
MakingPc == {"exist", "schedule"} \cup WritingPc
MovingPc == {"readRenamed", "readOldMeta", "scheduleOld"} \cup RelocationPc

(* The places of each operation as long as no name is reused: an upload     *)
(* never finds an older file, and never has to roll back.                   *)
PlacesOf(op) ==
  CASE op = "upload" -> MakingPc
    [] op = "generate" -> {"generate"} \cup (MakingPc \ {"exist"})
    [] op = "rename" -> MovingPc
    [] op = "delete" -> {"statDelete", "delete", "statDeleteMeta", "deleteMeta"}
    [] op = "getFile" -> {"getData", "getMeta"}
    [] op = "getMetadata" -> {"getMeta"}
    [] op = "getFiles" -> {"list", "listMeta"}

(* The name a request is giving.                                            *)
Giving(w) ==
  IF pc[w] \in MakingPc THEN {job[w].target}
  ELSE IF pc[w] \in MovingPc THEN {job[w].req.newName} ELSE {}

(* No name is given twice.                                                  *)
GivenOnce ==
  /\ \A w \in Worker : Giving(w) \subseteq issued
  /\ \A v \in Worker : \A w \in Worker : v # w => Giving(v) \cap Giving(w) = {}

(* given[n] is the metadata the name n was given, None before.  The objects *)
(* and the messages under a name are about that metadata.                   *)
StoresAgree(given) ==
  \A n \in Name :
    /\ data[n] # None => given[n] # None /\ data[n] = given[n].sha1
    /\ meta[n] # None => meta[n] = given[n]

MessagesAgree(given) ==
  \A m \in Message : Pending(m) \/ held = m =>
    /\ given[m.name] # None /\ given[m.name].expiredAt = m.expiredAt
    /\ ZoneIsUTC \/ m.expiredAt # Never

(* A request that makes a file gave its name the metadata it will write.    *)
MakerAgrees(given, w) ==
  /\ job[w].req.op = "upload" => job[w].target = job[w].req.name
  /\ given[job[w].target] = job[w].new
  /\ meta[job[w].target] = None
  /\ pc[w] \notin {"statMeta", "writeMeta"} => data[job[w].target] = None
  /\ pc[w] = "schedule" => job[w].new.expiredAt # Never

(* One that moves a file gives the new name the metadata of the old.        *)
MoverAgrees(given, w) ==
  /\ job[w].moveTo = job[w].req.newName
  /\ IF pc[w] \in {"readRenamed", "readOldMeta"} THEN given[job[w].moveTo] = None
     ELSE /\ job[w].old \in Metadata
          /\ given[job[w].moveTo] = job[w].old /\ given[job[w].req.name] = job[w].old
          /\ pc[w] = "scheduleOld" => NeedsDeletion(job[w].old)

HandlerAgrees(given, w) ==
  pc[w] # "idle" =>
    /\ pc[w] \in PlacesOf(job[w].req.op)
    /\ reply[w] = NoReply
    /\ job[w].new.sha1 = job[w].req.content
    /\ job[w].got # None =>
         given[job[w].req.name] # None /\ job[w].got = given[job[w].req.name].sha1
    /\ pc[w] \in MakingPc => MakerAgrees(given, w)
    /\ pc[w] \in MovingPc => MoverAgrees(given, w)

Agree(given) ==
  /\ \A n \in Name : given[n] # None => n \in issued
  /\ StoresAgree(given) /\ MessagesAgree(given)
  /\ \A w \in Worker : HandlerAgrees(given, w)

(* The invariant of write-once clients.                                     *)
Owned ==
  /\ GivenOnce
  /\ \E given \in [Name -> Metadata \cup {None}] : Agree(given)

(* If they also change a name one request at a time, no two changes name    *)
(* the same file,                                                           *)
Apart ==
  \A v \in Worker : \A w \in Worker : v # w /\ Changing(v) /\ Changing(w) =>
    NamesOf(v) \cap NamesOf(w) = {}

(* and a file that is being made is nobody else's to remove: not another    *)
(* request's, nor the consumer's, which has seen no metadata of it.         *)
MadeUndisturbed ==
  \A w \in Worker :
    /\ pc[w] \in {"statMeta", "writeMeta"} => data[job[w].target] = job[w].req.content
    /\ pc[w] \in MakingPc /\ cpc \in DueConsumerPc \ {"readMeta", "ack"} =>
         job[w].target # held.name
=============================================================================
