------------------------------ MODULE Coherence ------------------------------
(***************************************************************************)
(* Why Redis serves what is stored, as long as nothing fails and clients    *)
(* are orderly: files are stored whole, what a request has in hand between  *)
(* the call to the service and the calls to Redis is what is stored, and    *)
(* what is not, a request still on its way is about to set or drop.  The    *)
(* theorems of CoherenceProofs rest on these invariants.                    *)
(***************************************************************************)
EXTENDS CachedHosting

Busy(w) == pc[w] # "idle"

(* Bytes with metadata, or nothing of either.                               *)
Whole == \A n \in Name : stored[n] \in File \cup {Nothing}

(* A request for a change of the names it gives.                            *)
ChangesNamed(w) == Busy(w) /\ job[w].req.op \in {"upload", "rename", "delete"}
Changes(w) == Busy(w) /\ job[w].req.op \notin Reads

(* A request that changes the names it gives has them to itself, and no     *)
(* request changes anything while a listing is made.                        *)
Alone ==
  \A v, w \in Worker : v # w /\ Busy(w) =>
    /\ Changes(v) => job[w].req.op # "getFiles"
    /\ ChangesNamed(v) => ~\E n \in Name : Concerns(v, n) /\ Concerns(w, n)

(* What is asked of the service tells what is to be done in Redis.          *)
RightPlace(w) ==
  LET op == job[w].req.op IN
  /\ pc[w] \in {"lookup", "fill"} => op \in Reads
  /\ pc[w] \in {"setFile", "setMeta"} => op \in {"upload", "generate"}
  /\ pc[w] \in {"dropFile", "dropMeta", "dropList"} => op \notin Reads

(* A request works on the names it gives, unless the service draws one.     *)
NamesGiven ==
  \A w \in Worker : Busy(w) /\ job[w].req.op # "generate" =>
    job[w].name \in NamesOf(job[w].req) \cup {None}

(* A request in front of the service still finds the names as it did when   *)
(* it was sent.                                                             *)
AsSent(w) ==
  LET r == job[w].req IN
  /\ r.op = "rename" => r.newName \in Public /\ ~Has(r.newName)
  /\ r.op = "upload" =>
       /\ r.name \in Public
       /\ (Has(r.name) /\ Described(r.name) /\ stored[r.name].content = r.content)
            => stored[r.name].meta.name = r.name

StillAsSent == \A w \in Worker : pc[w] = "call" => AsSent(w)

(* Values that are as stored, or of files the consumer may have deleted.    *)
FileAgrees(n, file) == stored[n] = file \/ Removable(n, file.meta)
MetaAgrees(n, meta) == (Has(n) /\ stored[n].meta = meta) \/ Removable(n, meta)
ListingAgrees(listing) ==
  \A n \in Name : IF Has(n) THEN stored[n].meta = listing[n]
                  ELSE listing[n] # None => Removable(n, listing[n])

(* What a request has in hand to cache.                                     *)
InHand(w) ==
  /\ pc[w] \in {"setFile", "setMeta"} => FileAgrees(job[w].name, job[w].got)
  /\ pc[w] = "fill" =>
       LET r == job[w].req IN
       IF r.op = "getFiles" THEN ListingAgrees(job[w].got)
       ELSE IF r.op = "getFile" THEN FileAgrees(r.name, job[w].got)
       ELSE MetaAgrees(r.name, job[w].got)

(* A request is about to set or drop the entry.                             *)
FileUpcoming(n) == \E w \in Worker : pc[w] \in {"setFile", "dropFile"} /\ job[w].name = n
MetaUpcoming(n) ==
  \E w \in Worker :
    pc[w] \in {"setFile", "setMeta", "dropFile", "dropMeta"} /\ job[w].name = n
ListUpcoming ==
  \E w \in Worker : pc[w] \in {"setFile", "setMeta", "dropFile", "dropMeta", "dropList"}

FilesAgree ==
  \A n \in Name : cache[FileKey(n)] # None =>
    FileAgrees(n, cache[FileKey(n)].value) \/ FileUpcoming(n)
MetasAgree ==
  \A n \in Name : cache[MetaKey(n)] # None =>
    MetaAgrees(n, cache[MetaKey(n)].value) \/ MetaUpcoming(n)
ListAgrees ==
  cache[ListKey] # None => ListingAgrees(cache[ListKey].value) \/ ListUpcoming

UpToDate ==
  /\ Whole /\ Alone /\ NamesGiven /\ StillAsSent
  /\ \A w \in Worker : RightPlace(w) /\ InHand(w)
  /\ FilesAgree /\ MetasAgree /\ ListAgrees

(* The invariant of orderly clients.                                        *)
Orderliness == faults = 0 /\ orderly => UpToDate
=============================================================================
