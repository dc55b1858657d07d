----------------------------- MODULE Replacement -----------------------------
(***************************************************************************)
(* Why files stay whole, and backups are kept, for clients that use names   *)
(* again but carefully: one change of a name at a time, none of a file near *)
(* its deadline, and never the bytes a pending message is about.  Every     *)
(* name is then used by one handler, which knows what is stored there, or   *)
(* it has a whole file or none, or the consumer is half way through         *)
(* deleting it.  The theorems of ReplacementProofs rest on these            *)
(* invariants.                                                              *)
(***************************************************************************)
EXTENDS Ownership

(* The process must not die either: what a handler leaves behind half done  *)
(* can be taken for a file, once two have.                                  *)
Careful ==
  /\ Exclusive /\ FreshContent /\ Timely /\ Swift /\ ~ZoneIsUTC
  /\ MaxCrashes = 0

Empty(n) == data[n] = None /\ meta[n] = None

(* Where a handler makes a file, moves one or deletes one, and the places   *)
(* of each operation: nothing is ever rolled back.                          *)
Making == {"schedule"} \cup WritingPc
Moving == {"scheduleOld"} \cup RelocationPc
Deleting == {"statDelete", "delete", "statDeleteMeta", "deleteMeta"}

StepsOf(op) ==
  CASE op = "upload" -> {"exist", "readOld", "sameMeta", "readOldMeta"} \cup Moving \cup Making
    [] op = "generate" -> {"generate"} \cup Making
    [] op = "rename" -> {"readRenamed", "readOldMeta"} \cup Moving
    [] op = "delete" -> Deleting
    [] op \in Reads -> {"getData", "getMeta", "list", "listMeta"}

(* The names a request gives to a file, and all whose files it changes.     *)
Gives(w) ==
  (IF job[w].req.op = "upload" \/ (job[w].req.op = "generate" /\ pc[w] # "generate")
   THEN {job[w].target} ELSE {})
  \cup (IF job[w].req.op = "rename" \/ job[w].old # None THEN {job[w].moveTo} ELSE {})

Uses(w) ==
  Gives(w) \cup
  (IF job[w].req.op \in {"upload", "rename", "delete"} THEN {job[w].req.name} ELSE {})

Used(n) == \E w \in Worker : pc[w] # "idle" /\ n \in Uses(w)

(* Where a handler is and what it works with.                               *)
Placed(w) ==
  /\ pc[w] \in StepsOf(job[w].req.op)
  /\ job[w].req.op = "upload" => job[w].target = job[w].req.name
  /\ job[w].req.op = "rename" => job[w].moveTo = job[w].req.newName
  /\ pc[w] \notin Moving \cup Making => job[w].old = None
  /\ job[w].req.op = "generate" => job[w].old = None
  /\ pc[w] \in Moving => job[w].old # None
  /\ job[w].new.sha1 = job[w].req.content
  /\ pc[w] = "scheduleOld" => job[w].old.expiredAt # Never
  /\ pc[w] = "schedule" => job[w].new.expiredAt # Never
  /\ Gives(w) \subseteq issued

(* No deadline it depends on has passed.                                    *)
InTime(w) ==
  /\ job[w].req.op \notin Reads => Alive(job[w].new.expiredAt)
  /\ job[w].old # None => Alive(job[w].old.expiredAt)
  /\ job[w].req.op \in {"upload", "rename", "delete"} /\ meta[job[w].req.name] # None =>
       Alive(meta[job[w].req.name].expiredAt)

(* The backup it has made.                                                  *)
Kept(w) ==
  job[w].old # None =>
    /\ data[job[w].moveTo] = job[w].old.sha1 /\ meta[job[w].moveTo] = job[w].old
    /\ job[w].new.backup = job[w].moveTo

(* What is stored under the names it uses.                                  *)
Stands(w) ==
  LET x == job[w].req.name
      to == job[w].moveTo
      old == job[w].old
      target == job[w].target
  IN
  /\ pc[w] \in {"exist", "readRenamed", "statDelete"} => Visible(x) \/ Empty(x)
  /\ pc[w] \in {"readOld", "sameMeta", "readOldMeta", "delete"} => Visible(x)
  /\ pc[w] \in {"readRenamed", "readOldMeta"} /\ job[w].req.op = "rename" => Empty(to)
  /\ pc[w] \in {"scheduleOld", "statMove", "transfer"} =>
       Visible(x) /\ meta[x] = old /\ Empty(to)
  /\ pc[w] = "removeSource" =>
       Visible(x) /\ meta[x] = old /\ data[to] = old.sha1 /\ meta[to] = None
  /\ pc[w] \in {"metaExist", "statOldMeta", "removeOldMeta"} =>
       data[x] = None /\ meta[x] = old /\ data[to] = old.sha1 /\ meta[to] = None
  /\ pc[w] \in {"statBackupMeta", "writeBackupMeta"} =>
       Empty(x) /\ data[to] = old.sha1 /\ meta[to] = None
  /\ pc[w] \in {"schedule", "statData", "writeData"} => Empty(target) /\ Kept(w)
  /\ pc[w] \in {"statMeta", "writeMeta"} =>
       data[target] = job[w].req.content /\ meta[target] = None /\ Kept(w)
  /\ pc[w] \in {"statDeleteMeta", "deleteMeta"} => data[x] = None /\ meta[x] # None

(* Pending messages that would hit a file it stores are that file's own.    *)
Heard(w) ==
  \A m \in Message : Pending(m) =>
    /\ job[w].req.op \in {"upload", "generate"} /\ pc[w] # "generate"
         /\ m.name = job[w].target /\ m.sha1 = job[w].req.content =>
         m.expiredAt = job[w].new.expiredAt
    /\ job[w].req.op = "rename" /\ m.name = job[w].moveTo => pc[w] \in Moving
    /\ pc[w] \in Moving /\ m.name = job[w].moveTo =>
         m.sha1 = job[w].old.sha1 /\ m.expiredAt = job[w].old.expiredAt

HandlerCareful(w) ==
  pc[w] # "idle" => Placed(w) /\ InTime(w) /\ Stands(w) /\ Heard(w)

(* The consumer past the comparison of bytes deletes what has expired, and  *)
(* what it has finished with is not what its message is about.              *)
Cleaning == {"checkExpiry", "statData", "removeData", "statMeta", "removeMeta"}

ConsumerCareful ==
  /\ held # NoDelivery => Pending(held)
  /\ cpc \in Cleaning =>
       seen # None /\ meta[held.name] = seen /\ seen.expiredAt \in 1..now
  /\ cpc \in {"statMeta", "removeMeta"} => data[held.name] = None
  /\ cpc = "ack" /\ meta[held.name] # None => meta[held.name].expiredAt # held.expiredAt

(* Names no handler uses.                                                   *)
HalfDeleted(n) == cpc \in {"statMeta", "removeMeta"} /\ held.name = n

Unused == \A n \in Name : Used(n) \/ Visible(n) \/ Empty(n) \/ HalfDeleted(n)

(* What is stored was given its name by a request, a pending message about  *)
(* the bytes stored has their deadline, and a file with one has a message,  *)
(* due or not.                                                              *)
NamesIssued == \A n \in Name : data[n] # None \/ meta[n] # None => n \in issued

MessagesFit ==
  \A m \in Message : Pending(m) =>
    /\ m.name \in issued /\ m.expiredAt # Never
    /\ meta[m.name] # None /\ meta[m.name].sha1 = m.sha1 =>
         meta[m.name].expiredAt = m.expiredAt

Announced ==
  \A n \in Name : meta[n] # None /\ meta[n].expiredAt # Never =>
    Pending(DeletionOf(n, meta[n]))

(* The invariant of careful clients,                                        *)
Whole ==
  /\ \A w \in Worker : HandlerCareful(w)
  /\ ConsumerCareful /\ Unused /\ NamesIssued /\ MessagesFit /\ Announced

(* and what it says of bytes and metadata found under one name.             *)
Matched == \A n \in Name : data[n] # None /\ meta[n] # None => Visible(n)
=============================================================================
