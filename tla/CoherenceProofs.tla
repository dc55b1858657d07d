--------------------------- MODULE CoherenceProofs ---------------------------
(***************************************************************************)
(* Theorems about CachedHosting for orderly clients while nothing fails.    *)
(* A call to the service changes what is stored only under names no other   *)
(* request has in hand, and leaves its own entries for the calls to Redis    *)
(* that follow; these set what is stored.                                   *)
(***************************************************************************)
EXTENDS Coherence, CachedHostingProofs

-----------------------------------------------------------------------------
(* Steps of a request.                                                      *)

Settled == faults = 0 /\ orderly

(* What a request in progress is about.                                     *)
LEMMA InProgress ==
  ASSUME Inv, NEW w \in Worker, pc[w] # "idle"
  PROVE  /\ job[w].req \in Request /\ job[w].req.op \in Operation
         /\ job[w].req.name \in Name /\ job[w].req.newName \in Name
<1>1. job[w].req \in Request BY InvParts DEF RequestsOK
<1>2. job[w].req \in RequestType BY <1>1, RequestAssumption
<1>3. QED BY <1>1, <1>2 DEF RequestType

(* A call to the service that fails ends the request, and is a fault.       *)
LEMMA FailureCounts ==
  ASSUME Inv, NEW w \in Worker, CallFails(w)
  PROVE  /\ pc[w] # "idle" /\ now' = now /\ Finish(w) /\ orderly' = orderly
         /\ faults' = faults + 1 /\ faults' # faults
<1>1. pc[w] = "call" /\ \E messages, left : Aborted(w, messages, left)
  BY DEF CallFails, AbortUpload, AbortReplacing, AbortGenerate, AbortRename, AbortDelete
<1>2. faults \in Nat BY InvParts DEF CountersOK
<1>3. QED BY <1>1, <1>2 DEF Aborted

(* A step is that of one request, which ends or goes on with what it was    *)
(* asked.                                                                   *)
LEMMA OneRequest ==
  ASSUME Inv, NEW w \in Worker, Step(w)
  PROVE  /\ pc[w] # "idle" /\ now' = now
         /\ \A v \in Worker : v # w => pc'[v] = pc[v] /\ job'[v] = job[v]
         /\ pc'[w] # "idle" => job'[w].req = job[w].req
<1>1. /\ pc \in [Worker -> Pc] /\ w \in DOMAIN pc /\ w \in DOMAIN job
      /\ \A v \in Worker : v \in DOMAIN pc /\ v \in DOMAIN job
  BY InvParts DEF RequestsOK
<1>2. CASE \E label : Proceed(w, label) /\ pc[w] # "idle" /\ now' = now
  BY <1>1, <1>2 DEF Proceed, Goto
<1>3. CASE Finish(w) /\ pc[w] # "idle" /\ now' = now
  BY <1>1, <1>3 DEF Finish, Goto
<1>4. CASE \E name, value, label : Answered(w, name, value, label) /\ pc[w] # "idle" /\ now' = now
  BY <1>1, <1>4 DEF Answered, Goto
<1>5. CASE CallFails(w) BY <1>3, <1>5, FailureCounts
<1>6. CASE CallUpload(w) \/ CallGenerate(w) \/ CallRename(w) \/ CallDelete(w) \/ CallRead(w)
  BY <1>3, <1>4, <1>6
     DEF CallRead, CallUpload, UploadAgain, UploadNew, UploadReplacing, Refuse, CallGenerate,
         CallRename, CallDelete
<1>7. CASE \/ Lookup(w) \/ Fill(w) \/ SetFile(w) \/ SetMeta(w)
           \/ DropFile(w) \/ DropMeta(w) \/ DropList(w)
  BY <1>2, <1>3, <1>7
     DEF Lookup, Fill, SetFile, SetMeta, DropFile, DropMeta, DropList, OnlyRedis
<1>8. QED BY <1>5, <1>6, <1>7 DEF Step

(* What a call to the service leaves: it changes what is stored under names *)
(* the request gave, where it goes on to set or drop what was there before, *)
(* and under names nobody knows yet.                                        *)
ChangesUnder(w, n) ==
  \/ /\ ChangesNamed(w) /\ n \in NamesOf(job[w].req)
     /\ Has(n) => pc'[w] \in {"setFile", "dropFile"} /\ job'[w].name = n
  \/ ~Has(n) /\ n \notin Public

OnItsWay(w) == Changes(w) /\ pc'[w] \in {"setFile", "dropFile"}

Called(w) ==
  /\ pc[w] = "call" /\ pc'[w] \in {"idle", "fill", "setFile", "dropFile"}
  /\ cache' = cache /\ scheduled \subseteq scheduled' /\ Whole'
  /\ \A n \in Name : stored'[n] # stored[n] => ChangesUnder(w, n) /\ OnItsWay(w)
  /\ pc'[w] = "setFile" =>
       job[w].req.op \in {"upload", "generate"} /\ stored'[job'[w].name] = job'[w].got
  /\ pc'[w] = "dropFile" => job[w].req.op \notin Reads
  /\ pc'[w] = "fill" =>
       /\ job[w].req.op \in Reads /\ stored' = stored /\ job'[w].got = StoredUnder(job[w].req)
       /\ job[w].req.op = "getFiles" \/ Has(job[w].req.name)
  /\ pc'[w] # "idle" =>
       IF job[w].req.op = "generate" THEN Unguessed(w, job'[w].name)
       ELSE job'[w].name \in NamesOf(job[w].req)

(* What is stored under a name while files are whole.                       *)
LEMMA WholeParts ==
  ASSUME Whole, NEW n \in Name
  PROVE  /\ Has(n) <=> Described(n)
         /\ Has(n) => stored[n] \in File
         /\ ~Has(n) => stored[n] = Nothing
<1>1. stored[n] \in File => Has(n) /\ Described(n)
  BY CachedNoneAssumption DEF File, Has, Described
<1>2. stored[n] = Nothing => ~Has(n) /\ ~Described(n) BY DEF Nothing, Has, Described
<1>3. QED BY <1>1, <1>2 DEF Whole

(* What a request has once the service has answered.                        *)
LEMMA AnsweredParts ==
  ASSUME RequestsOK, NEW w \in Worker, NEW name, NEW value, NEW label,
         Answered(w, name, value, label)
  PROVE  /\ pc'[w] = label /\ job'[w].req = job[w].req
         /\ job'[w].name = name /\ job'[w].got = value
<1>1. pc \in [Worker -> Pc] /\ w \in DOMAIN pc /\ w \in DOMAIN job BY DEF RequestsOK
<1>2. QED BY <1>1 DEF Answered, Goto

(* A request that is finished has nothing left to do.                       *)
LEMMA FinishedParts ==
  ASSUME RequestsOK, NEW w \in Worker, Finish(w)
  PROVE  pc'[w] = "idle"
  BY DEF RequestsOK, Finish, Goto

LEMMA UploadCalled ==
  ASSUME Inv, Whole, NEW w \in Worker, AsSent(w), CallUpload(w)
  PROVE  Called(w)
<1> DEFINE r == job[w].req
<1>1. /\ r.name \in Name /\ stored \in [Name -> Stored] /\ RequestsOK
      /\ pc[w] = "call" /\ r.op = "upload" /\ cache' = cache
      /\ r.name \in NamesOf(r) /\ NewFile(r) \in File
  BY InProgress, InvParts, CallParts DEF CallUpload, NamesOf
<1>2. ChangesNamed(w) /\ Changes(w) BY <1>1 DEF ChangesNamed, Changes, Busy, Reads
<1>3. CASE UploadAgain(w, r)
  <2>1. stored[r.name].meta.name = r.name BY <1>1, <1>3 DEF AsSent, UploadAgain
  <2>2. /\ Answered(w, r.name, stored[r.name], "setFile") /\ stored' = stored
        /\ scheduled' = scheduled
    BY <1>3, <2>1 DEF UploadAgain
  <2>3. pc'[w] = "setFile" /\ job'[w].name = r.name /\ job'[w].got = stored[r.name]
    BY <1>1, <2>2, AnsweredParts
  <2>4. Whole' BY <2>2 DEF Whole
  <2>5. QED BY <1>1, <2>2, <2>3, <2>4 DEF Called
<1>4. ASSUME /\ Answered(w, r.name, NewFile(r), "setFile") /\ scheduled \subseteq scheduled'
             /\ stored'[r.name] = NewFile(r)
             /\ \A n \in Name : n # r.name /\ stored'[n] # stored[n] =>
                  ~Has(n) /\ n \notin Public /\ stored'[n] \in File
      PROVE  Called(w)
  <2>1. pc'[w] = "setFile" /\ job'[w].name = r.name /\ job'[w].got = NewFile(r)
    BY <1>1, <1>4, AnsweredParts
  <2>2. \A n \in Name : stored'[n] # stored[n] => ChangesUnder(w, n) /\ OnItsWay(w)
    BY <1>1, <1>2, <1>4, <2>1 DEF ChangesUnder, OnItsWay
  <2>3. Whole' BY <1>1, <1>4 DEF Whole
  <2>4. QED BY <1>1, <1>4, <2>1, <2>2, <2>3 DEF Called
<1>5. CASE UploadNew(w, r)
  <2>1. /\ Answered(w, r.name, NewFile(r), "setFile") /\ scheduled \subseteq scheduled'
        /\ stored' = [stored EXCEPT ![r.name] = NewFile(r)]
    BY <1>5 DEF UploadNew, Publish
  <2>2. stored'[r.name] = NewFile(r) /\ \A n \in Name : n # r.name => stored'[n] = stored[n]
    BY <1>1, <2>1
  <2>3. QED BY <1>4, <2>1, <2>2
<1>6. CASE \E k \in Backup : UploadReplacing(w, r, k)
  <2>1. PICK k \in Backup : UploadReplacing(w, r, k) BY <1>6
  <2>2. /\ k \in Name /\ k \notin Public /\ ~Has(k) /\ stored[r.name] \in File
    BY <1>1, <2>1, WholeParts, CachedNamesAssumption
       DEF Name, UploadReplacing, Free, Has, Nothing
  <2>3. /\ Answered(w, r.name, NewFile(r), "setFile") /\ scheduled \subseteq scheduled'
        /\ stored' = [stored EXCEPT ![k] = stored[r.name], ![r.name] = NewFile(r)]
    BY <2>1 DEF UploadReplacing, Publish
  <2>4. /\ stored'[r.name] = NewFile(r)
        /\ \A n \in Name : n # r.name /\ n # k => stored'[n] = stored[n]
        /\ k # r.name => stored'[k] = stored[r.name]
    BY <1>1, <2>2, <2>3
  <2>5. QED BY <1>4, <2>2, <2>3, <2>4
<1>7. Has(r.name) <=> Described(r.name) BY <1>1, WholeParts
<1>8. QED BY <1>3, <1>5, <1>6, <1>7 DEF CallUpload

LEMMA GenerateCalled ==
  ASSUME Inv, Whole, NEW w \in Worker, orderly', CallGenerate(w)
  PROVE  Called(w)
<1>1. stored \in [Name -> Stored] /\ RequestsOK BY InvParts
<1>2. pc[w] = "call" /\ job[w].req.op = "generate" /\ cache' = cache BY DEF CallGenerate
<1>3. PICK g \in Generated :
        /\ ~Has(g) /\ Unguessed(w, g) /\ scheduled \subseteq scheduled'
        /\ Described(g) \/ (/\ stored' = [stored EXCEPT ![g] = NewFile(job[w].req)]
                            /\ Answered(w, g, NewFile(job[w].req), "setFile"))
  BY DEF CallGenerate, Publish
<1>4. g \in Name /\ g \notin Public BY CachedNamesAssumption DEF Name
<1>5. /\ stored' = [stored EXCEPT ![g] = NewFile(job[w].req)]
      /\ Answered(w, g, NewFile(job[w].req), "setFile")
  BY <1>3, <1>4, WholeParts
<1>6. /\ pc'[w] = "setFile" /\ job'[w].name = g /\ job'[w].got = NewFile(job[w].req)
  BY <1>1, <1>5, AnsweredParts
<1>7. Changes(w) BY <1>2 DEF Changes, Busy, Reads
<1>8. \A n \in Name : stored'[n] # stored[n] => ChangesUnder(w, n) /\ OnItsWay(w)
  BY <1>1, <1>3, <1>4, <1>5, <1>6, <1>7 DEF ChangesUnder, OnItsWay
<1>9. Whole' BY <1>1, <1>2, <1>5, CallParts DEF Whole
<1>10. QED BY <1>1, <1>2, <1>3, <1>4, <1>5, <1>6, <1>8, <1>9 DEF Called

LEMMA RenameCalled ==
  ASSUME Inv, Whole, NEW w \in Worker, AsSent(w), CallRename(w)
  PROVE  Called(w)
<1> DEFINE old == job[w].req.name
           new == job[w].req.newName
<1>1. /\ old \in Name /\ new \in Name
      /\ stored \in [Name -> Stored] /\ RequestsOK
      /\ pc[w] = "call" /\ job[w].req.op = "rename" /\ cache' = cache
      /\ NamesOf(job[w].req) = {old, new}
  BY InProgress, InvParts DEF CallRename, NamesOf
<1>2. ChangesNamed(w) /\ Changes(w) /\ job[w].req.op \notin Reads
  BY <1>1 DEF ChangesNamed, Changes, Busy, Reads
<1>3. ~Has(new) /\ ~Described(new) BY <1>1, WholeParts DEF AsSent
<1>4. CASE Refuse(w)
  <2>1. pc'[w] = "idle" BY <1>1, <1>4, FinishedParts DEF Refuse
  <2>2. stored' = stored /\ scheduled' = scheduled BY <1>4 DEF Refuse
  <2>3. Whole' BY <2>2 DEF Whole
  <2>4. QED BY <1>1, <2>1, <2>2, <2>3 DEF Called
<1>5. CASE /\ Has(old) /\ scheduled \subseteq scheduled' /\ Answered(w, old, None, "dropFile")
           /\ stored' = [stored EXCEPT ![new] = stored[old], ![old] = Nothing]
  <2>1. pc'[w] = "dropFile" /\ job'[w].name = old
    BY <1>1, <1>5, AnsweredParts
  <2>2. /\ stored'[old] = Nothing /\ stored'[new] = stored[old] /\ stored[old] \in File
        /\ \A n \in Name : n \notin {old, new} => stored'[n] = stored[n]
    BY <1>1, <1>3, <1>5, WholeParts
  <2>3. \A n \in Name : stored'[n] # stored[n] => ChangesUnder(w, n) /\ OnItsWay(w)
    BY <1>1, <1>2, <1>3, <2>1, <2>2 DEF ChangesUnder, OnItsWay
  <2>4. Whole' BY <2>2 DEF Whole, Nothing
  <2>5. QED BY <1>1, <1>2, <1>5, <2>1, <2>3, <2>4 DEF Called
<1>6. QED BY <1>3, <1>4, <1>5 DEF CallRename, Publish

LEMMA DeleteCalled ==
  ASSUME Inv, Whole, NEW w \in Worker, CallDelete(w)
  PROVE  Called(w)
<1> DEFINE n == job[w].req.name
<1>1. /\ n \in Name /\ stored \in [Name -> Stored] /\ RequestsOK
      /\ pc[w] = "call" /\ job[w].req.op = "delete" /\ cache' = cache
      /\ n \in NamesOf(job[w].req) /\ scheduled' = scheduled
  BY InProgress, InvParts DEF CallDelete, NamesOf
<1>2. ChangesNamed(w) /\ Changes(w) /\ job[w].req.op \notin Reads
  BY <1>1 DEF ChangesNamed, Changes, Busy, Reads
<1>3. CASE ~Has(n)
  <2>1. Finish(w) /\ stored' = stored BY <1>3 DEF CallDelete
  <2>2. pc'[w] = "idle" BY <1>1, <2>1, FinishedParts
  <2>3. Whole' BY <2>1 DEF Whole
  <2>4. QED BY <1>1, <2>1, <2>2, <2>3 DEF Called
<1>4. CASE Has(n)
  <2>1. Answered(w, n, None, "dropFile") /\ stored' = [stored EXCEPT ![n] = Nothing]
    BY <1>1, <1>4, WholeParts DEF CallDelete
  <2>2. pc'[w] = "dropFile" /\ job'[w].name = n
    BY <1>1, <2>1, AnsweredParts
  <2>3. \A m \in Name : stored'[m] # stored[m] => ChangesUnder(w, m) /\ OnItsWay(w)
    BY <1>1, <1>2, <2>1, <2>2 DEF ChangesUnder, OnItsWay
  <2>4. Whole' BY <1>1, <2>1 DEF Whole, Nothing
  <2>5. QED BY <1>1, <1>2, <2>2, <2>3, <2>4 DEF Called
<1>5. QED BY <1>3, <1>4

LEMMA ReadCalled ==
  ASSUME Inv, Whole, NEW w \in Worker, CallRead(w)
  PROVE  Called(w)
<1>1. /\ RequestsOK /\ pc[w] = "call" /\ job[w].req.op \in Reads
      /\ cache' = cache /\ stored' = stored /\ scheduled' = scheduled
      /\ job[w].req.name \in NamesOf(job[w].req) /\ job[w].req.op # "generate"
      /\ job[w].req.name \in Name
  BY InvParts, InProgress DEF CallRead, NamesOf, Reads
<1>2. Whole' BY <1>1 DEF Whole
<1>3. CASE Finish(w)
  <2>1. pc'[w] = "idle" BY <1>1, <1>3, FinishedParts
  <2>2. QED BY <1>1, <1>2, <2>1 DEF Called
<1>4. CASE /\ Found(job[w].req)
           /\ Answered(w, job[w].req.name, StoredUnder(job[w].req), "fill")
  <2>1. /\ pc'[w] = "fill" /\ job'[w].name = job[w].req.name
        /\ job'[w].got = StoredUnder(job[w].req)
    BY <1>1, <1>4, AnsweredParts
  <2>2. job[w].req.op = "getFiles" \/ Has(job[w].req.name)
    BY <1>1, <1>4, WholeParts DEF Found
  <2>3. QED BY <1>1, <1>2, <2>1, <2>2 DEF Called
<1>5. QED BY <1>3, <1>4 DEF CallRead

-----------------------------------------------------------------------------
(* The service is called.                                                   *)

(* A name another request has in hand is not changed by the call, unless    *)
(* nothing is stored there.                                                 *)
LEMMA OthersNames ==
  ASSUME Alone, NEW w \in Worker, Called(w), NEW v \in Worker, v # w,
         NEW n \in Name, Concerns(v, n), stored'[n] # stored[n]
  PROVE  ~Has(n) /\ n \notin Public
<1>1. ChangesUnder(w, n) BY DEF Called
<1>2. CASE ChangesNamed(w) /\ n \in NamesOf(job[w].req)
  <2>1. Concerns(w, n) BY <1>2 DEF Concerns, ChangesNamed, Busy
  <2>2. Busy(v) BY DEF Concerns, Busy
  <2>3. QED BY <1>2, <2>1, <2>2 DEF Alone
<1>3. QED BY <1>1, <1>2 DEF ChangesUnder

(* Requests keep to themselves.                                             *)
LEMMA CalledAlone ==
  ASSUME Inv, Alone, NamesGiven, NEW w \in Worker, Step(w), Called(w)
  PROVE  Alone' /\ NamesGiven'
<1>1. /\ Busy(w)
      /\ pc'[w] # "idle" => job'[w].req = job[w].req
      /\ \A v \in Worker : v # w => pc'[v] = pc[v] /\ job'[v] = job[v]
  BY OneRequest DEF Busy
<1>2. \A v \in Worker : /\ Busy(v)' => Busy(v) /\ job'[v].req = job[v].req
                        /\ Changes(v)' => Changes(v)
                        /\ ChangesNamed(v)' => ChangesNamed(v)
  BY <1>1 DEF Busy, Changes, ChangesNamed
<1>3. NamesGiven' BY <1>1, <1>2 DEF NamesGiven, Called, Busy
<1>4. ASSUME NEW v \in Worker, ChangesNamed(v), NEW u \in Worker, Busy(u)', v # u,
             NEW n \in Name, Concerns(v, n)', Concerns(u, n)'
      PROVE  FALSE
  <2>1. ~(Concerns(v, n) /\ Concerns(u, n)) BY <1>2, <1>4 DEF Alone
  <2>2. CASE v = w
    <3>1. Concerns(u, n) BY <1>1, <1>4, <2>2 DEF Concerns
    <3>2. pc'[w] # "idle" /\ job[w].req.op # "generate"
      BY <1>4, <2>2 DEF Concerns, ChangesNamed
    <3>3. job'[w].name \in NamesOf(job[w].req) /\ job'[w].req = job[w].req
      BY <1>1, <3>2 DEF Called
    <3>4. Concerns(w, n) BY <1>1, <1>4, <2>2, <3>3 DEF Concerns, Busy
    <3>5. QED BY <2>1, <2>2, <3>1, <3>4
  <2>3. CASE u = w
    <3>1. Concerns(v, n) BY <1>1, <1>4, <2>3 DEF Concerns
    <3>2. pc'[w] # "idle" /\ job'[w].req = job[w].req BY <1>1, <1>4, <2>3 DEF Busy
    <3>3. CASE job[w].req.op = "generate"
      <4>1. NamesOf(job[w].req) = {} BY <3>3 DEF NamesOf
      <4>2. n = job'[w].name BY <1>4, <2>3, <3>2, <4>1 DEF Concerns
      <4>3. n \notin NamesOf(job[v].req)
        BY <1>4, <2>3, <3>2, <3>3, <4>2 DEF Called, Unguessed, ChangesNamed, Busy, Reads
      <4>4. job[v].name \in NamesOf(job[v].req) \cup {None}
        BY <1>4 DEF NamesGiven, ChangesNamed
      <4>5. QED BY <3>1, <4>3, <4>4, CachedNoneAssumption DEF Concerns
    <3>4. CASE job[w].req.op # "generate"
      <4>1. job'[w].name \in NamesOf(job[w].req) BY <3>2, <3>4 DEF Called
      <4>2. Concerns(w, n) BY <1>1, <1>4, <2>3, <3>2, <4>1 DEF Concerns, Busy
      <4>3. QED BY <2>1, <2>3, <3>1, <4>2
    <3>5. QED BY <3>3, <3>4
  <2>4. CASE v # w /\ u # w BY <1>1, <1>4, <2>1, <2>4 DEF Concerns
  <2>5. QED BY <2>2, <2>3, <2>4
<1>5. Alone'
  <2>1. \A v, u \in Worker : v # u /\ Busy(u)' /\ Changes(v)' => job'[u].req.op # "getFiles"
    BY <1>2 DEF Alone
  <2>2. \A v, u \in Worker : v # u /\ Busy(u)' /\ ChangesNamed(v)' =>
          ~\E n \in Name : Concerns(v, n)' /\ Concerns(u, n)'
    BY <1>2, <1>4
  <2>3. QED BY <2>1, <2>2 DEF Alone
<1>6. QED BY <1>3, <1>5

(* Requests still find what they were sent for, and are in the right place. *)
LEMMA CalledAsSent ==
  ASSUME Inv, UpToDate, NEW w \in Worker, Step(w), Called(w)
  PROVE  StillAsSent' /\ \A v \in Worker : RightPlace(v)'
<1>1. /\ pc'[w] # "idle" => job'[w].req = job[w].req
      /\ \A v \in Worker : v # w => pc'[v] = pc[v] /\ job'[v] = job[v]
  BY OneRequest
<1>2. \A v \in Worker : RightPlace(v)' BY <1>1 DEF RightPlace, Called, UpToDate
<1>3. ASSUME NEW v \in Worker, pc'[v] = "call" PROVE AsSent(v)'
  <2>1. v # w BY <1>3 DEF Called
  <2>2. pc[v] = "call" /\ job'[v] = job[v] /\ AsSent(v)
    BY <1>1, <1>3, <2>1 DEF UpToDate, StillAsSent
  <2>3. \A n \in Name : n \in NamesOf(job[v].req) /\ n \in Public => stored'[n] = stored[n]
    BY <2>1, <2>2, OthersNames DEF UpToDate, Concerns
  <2>4. job[v].req.name \in Name /\ job[v].req.newName \in Name BY <2>2, InProgress
  <2>5. job[v].req.op = "rename" =>
          job[v].req.newName \in Public
            /\ stored'[job[v].req.newName] = stored[job[v].req.newName]
    BY <2>2, <2>3, <2>4 DEF AsSent, NamesOf
  <2>6. job[v].req.op = "upload" => stored'[job[v].req.name] = stored[job[v].req.name]
    BY <2>2, <2>3, <2>4 DEF AsSent, NamesOf
  <2>7. QED BY <2>2, <2>5, <2>6 DEF AsSent, Has, Described
<1>4. QED BY <1>2, <1>3 DEF StillAsSent

(* What the other requests have in hand is still right.                     *)
LEMMA CalledInHand ==
  ASSUME Inv, UpToDate, NEW w \in Worker, Step(w), Called(w), NEW v \in Worker
  PROVE  InHand(v)'
<1>1. /\ pc'[w] # "idle" => job'[w].req = job[w].req
      /\ \A u \in Worker : u # w => pc'[u] = pc[u] /\ job'[u] = job[u]
      /\ now' = now /\ scheduled \subseteq scheduled'
  BY OneRequest DEF Called
<1>2. CASE v = w
  <2>1. CASE pc'[w] = "setFile" BY <1>2, <2>1 DEF InHand, FileAgrees, Called
  <2>2. CASE pc'[w] = "fill"
    <3>1. /\ stored' = stored /\ job'[w].got = StoredUnder(job[w].req)
          /\ job'[w].req = job[w].req /\ job[w].req.op \in Reads
          /\ job[w].req.op = "getFiles" \/ Has(job[w].req.name)
      BY <1>1, <2>2 DEF Called
    <3>2. QED
      BY <1>2, <2>2, <3>1
         DEF InHand, FileAgrees, MetaAgrees, ListingAgrees, StoredUnder, Has
  <2>3. CASE pc'[w] \notin {"setFile", "fill"}
    BY <1>2, <2>3 DEF InHand, Called
  <2>4. QED BY <2>1, <2>2, <2>3
<1>3. CASE v # w
  <2>1. pc'[v] = pc[v] /\ job'[v] = job[v] /\ InHand(v) /\ RightPlace(v)
    BY <1>1, <1>3 DEF UpToDate
  <2>2. \A n \in Name : Concerns(v, n) => stored'[n] = stored[n] \/ ~Has(n)
    BY <1>3, OthersNames DEF UpToDate
  <2>3. CASE pc[v] \in {"setFile", "setMeta"}
    <3>1. job[v].name \in Name BY <2>3, InvParts DEF RequestsOK
    <3>2. job[v].got.content # None
      BY <2>3, InvParts, CachedNoneAssumption DEF RequestsOK, File
    <3>3. stored'[job[v].name] = stored[job[v].name] \/ ~Has(job[v].name)
      BY <2>2, <2>3, <3>1 DEF Concerns
    <3>4. FileAgrees(job[v].name, job[v].got)
      BY <2>1, <2>3 DEF InHand
    <3>5. stored'[job[v].name] = job[v].got \/ Removable(job[v].name, job[v].got.meta)
      BY <3>2, <3>3, <3>4 DEF FileAgrees, Has
    <3>6. FileAgrees(job[v].name, job[v].got)'
      BY <1>1, <2>1, <3>5 DEF FileAgrees, Removable
    <3>7. QED BY <2>1, <2>3, <3>6 DEF InHand
  <2>4. CASE pc[v] = "fill"
    <3>1. /\ job[v].req.op \in Reads /\ job[v].req \in Request
          /\ job[v].req.name \in Name
      BY <2>1, <2>4, InProgress DEF RightPlace
    <3>2. CASE job[v].req.op = "getFiles"
      <4>1. ~Changes(w) BY <1>3, <2>4, <3>2 DEF UpToDate, Alone, Busy
      <4>2. \A n \in Name : stored'[n] = stored[n] BY <4>1 DEF Called, OnItsWay
      <4>3. ListingAgrees(job[v].got)'
        BY <1>1, <2>1, <2>4, <3>2, <4>2 DEF InHand, ListingAgrees, Has, Removable
      <4>4. QED BY <2>1, <2>4, <3>2, <4>3 DEF InHand
    <3>3. CASE job[v].req.op # "getFiles"
      <4>1. stored'[job[v].req.name] = stored[job[v].req.name] \/ ~Has(job[v].req.name)
        BY <2>2, <2>4, <3>1, <3>3 DEF Concerns, NamesOf, Reads
      <4>2. job[v].req.op = "getFile" => job[v].got.content # None
        <5>1. SUFFICES ASSUME job[v].req.op = "getFile" PROVE job[v].got.content # None OBVIOUS
        <5>2. ReadKey(job[v].req) = FileKey(job[v].req.name) BY <5>1 DEF ReadKey
        <5>3. job[v].got \in File BY <2>4, <3>1, <5>2, Keys, InvParts DEF RequestsOK
        <5>4. QED BY <5>3, CachedNoneAssumption DEF File
      <4>3. QED
        BY <1>1, <2>1, <2>4, <3>3, <4>1, <4>2 DEF InHand, FileAgrees, MetaAgrees, Has, Removable
    <3>4. QED BY <3>2, <3>3
  <2>5. CASE pc[v] \notin {"setFile", "setMeta", "fill"} BY <2>1, <2>5 DEF InHand
  <2>6. QED BY <2>3, <2>4, <2>5
<1>4. QED BY <1>2, <1>3

(* The entries still agree, or the request that calls will set or drop them. *)
LEMMA CalledEntries ==
  ASSUME Inv, UpToDate, NEW w \in Worker, Step(w), Called(w)
  PROVE  FilesAgree' /\ MetasAgree' /\ ListAgrees'
<1>1. /\ \A u \in Worker : u # w => pc'[u] = pc[u] /\ job'[u] = job[u]
      /\ now' = now /\ scheduled \subseteq scheduled' /\ cache' = cache /\ pc[w] = "call"
  BY OneRequest DEF Called
<1>2. \A n \in Name : /\ FileUpcoming(n) => FileUpcoming(n)'
                      /\ MetaUpcoming(n) => MetaUpcoming(n)'
  BY <1>1 DEF FileUpcoming, MetaUpcoming
<1>3. ListUpcoming => ListUpcoming' BY <1>1 DEF ListUpcoming
<1>4. \A n \in Name : stored'[n] = stored[n] \/ ~Has(n)
                      \/ (FileUpcoming(n)' /\ MetaUpcoming(n)')
  BY DEF Called, ChangesUnder, FileUpcoming, MetaUpcoming
<1>5. FilesAgree'
  <2> SUFFICES ASSUME NEW n \in Name, cache[FileKey(n)] # None
               PROVE  FileAgrees(n, cache[FileKey(n)].value)' \/ FileUpcoming(n)'
    BY <1>1 DEF FilesAgree
  <2>1. FileAgrees(n, cache[FileKey(n)].value) \/ FileUpcoming(n)
    BY DEF UpToDate, FilesAgree
  <2>2. cache[FileKey(n)].value.content # None
    <3>1. cache[FileKey(n)] \in Entry(FileKey(n)) BY Keys, InvParts DEF CacheOK
    <3>2. cache[FileKey(n)].value \in File BY <3>1, Keys DEF Entry
    <3>3. QED BY <3>2, CachedNoneAssumption DEF File
  <2>3. QED BY <1>1, <1>2, <1>4, <2>1, <2>2 DEF FileAgrees, Has, Removable
<1>6. MetasAgree'
  <2> SUFFICES ASSUME NEW n \in Name, cache[MetaKey(n)] # None
               PROVE  MetaAgrees(n, cache[MetaKey(n)].value)' \/ MetaUpcoming(n)'
    BY <1>1 DEF MetasAgree
  <2>1. MetaAgrees(n, cache[MetaKey(n)].value) \/ MetaUpcoming(n)
    BY DEF UpToDate, MetasAgree
  <2>2. QED BY <1>1, <1>2, <1>4, <2>1 DEF MetaAgrees, Has, Removable
<1>7. ListAgrees'
  <2>1. CASE \E n \in Name : stored'[n] # stored[n]
    BY <2>1 DEF ListAgrees, Called, OnItsWay, ListUpcoming
  <2>2. CASE \A n \in Name : stored'[n] = stored[n]
    <3>1. cache[ListKey] # None => ListingAgrees(cache[ListKey].value) \/ ListUpcoming
      BY DEF UpToDate, ListAgrees
    <3>2. QED BY <1>1, <1>3, <2>2, <3>1 DEF ListAgrees, ListingAgrees, Has, Removable
  <2>3. QED BY <2>1, <2>2
<1>8. QED BY <1>5, <1>6, <1>7

(* So a call to the service preserves all of it.                            *)
LEMMA CalledUpToDate ==
  ASSUME Inv, UpToDate, NEW w \in Worker, Step(w), Called(w)
  PROVE  UpToDate'
<1>1. Whole' BY DEF Called
<1>2. QED BY <1>1, CalledAlone, CalledAsSent, CalledInHand, CalledEntries DEF UpToDate

-----------------------------------------------------------------------------
(* Redis is called.                                                         *)

(* A request that goes on with what it has, or ends, while nothing stored   *)
(* changes.                                                                 *)
GoesOn(w) ==
  /\ pc[w] # "idle" /\ UNCHANGED <<stored, scheduled, now>>
  /\ \A v \in Worker : v # w => pc'[v] = pc[v] /\ job'[v] = job[v]
  /\ \/ pc'[w] = "idle"
     \/ /\ job'[w] = job[w]
        /\ <<pc[w], pc'[w]>> \in {<<"lookup", "call">>, <<"setFile", "setMeta">>,
             <<"setMeta", "dropList">>, <<"dropFile", "dropMeta">>,
             <<"dropMeta", "dropList">>}

LEMMA ProceedGoesOn ==
  ASSUME Inv, NEW w \in Worker, NEW label, Proceed(w, label), UNCHANGED <<stored, scheduled, now>>,
         <<pc[w], label>> \in {<<"lookup", "call">>, <<"setFile", "setMeta">>,
             <<"setMeta", "dropList">>, <<"dropFile", "dropMeta">>,
             <<"dropMeta", "dropList">>}
  PROVE  GoesOn(w) /\ job' = job
<1>1. pc \in [Worker -> Pc] BY InvParts DEF RequestsOK
<1>2. QED BY <1>1 DEF Proceed, Goto, GoesOn

LEMMA FinishGoesOn ==
  ASSUME Inv, NEW w \in Worker, Finish(w), pc[w] # "idle", UNCHANGED <<stored, scheduled, now>>
  PROVE  GoesOn(w) /\ pc'[w] = "idle"
<1>1. /\ pc \in [Worker -> Pc] /\ \A v \in Worker : v \in DOMAIN job
  BY InvParts DEF RequestsOK
<1>2. QED BY <1>1 DEF Finish, Goto, GoesOn

(* Nothing but the entries is disturbed.                                    *)
LEMMA GoesOnRequests ==
  ASSUME Inv, UpToDate, NEW w \in Worker, GoesOn(w)
  PROVE  /\ Whole' /\ Alone' /\ NamesGiven' /\ StillAsSent'
         /\ \A v \in Worker : RightPlace(v)' /\ InHand(v)'
<1>1. \A v \in Worker : pc'[v] # "idle" => job'[v] = job[v] /\ pc[v] # "idle"
  BY DEF GoesOn
<1>2. Alone'
  <2>1. \A v \in Worker : /\ Busy(v)' => Busy(v)
                          /\ Changes(v)' => Changes(v)
                          /\ ChangesNamed(v)' => ChangesNamed(v)
                          /\ \A n \in Name : Concerns(v, n)' => Concerns(v, n)
    BY <1>1 DEF Busy, Changes, ChangesNamed, Concerns
  <2>2. \A v \in Worker : Busy(v)' => job'[v] = job[v] BY <1>1 DEF Busy
  <2>3. QED BY <2>1, <2>2 DEF UpToDate, Alone
<1>3. NamesGiven' BY <1>1 DEF UpToDate, NamesGiven, Busy
<1>4. \A v \in Worker : RightPlace(v)'
  BY <1>1 DEF GoesOn, UpToDate, RightPlace, Reads
<1>5. StillAsSent'
  <2> SUFFICES ASSUME NEW v \in Worker, pc'[v] = "call" PROVE AsSent(v)'
    BY DEF StillAsSent
  <2>1. CASE pc[v] = "call"
    BY <1>1, <2>1 DEF GoesOn, UpToDate, StillAsSent, AsSent, Has, Described
  <2>2. CASE pc[v] # "call"
    <3>1. job[v].req.op \in Reads /\ job'[v] = job[v]
      BY <1>1, <2>2 DEF GoesOn, UpToDate, RightPlace
    <3>2. QED BY <3>1 DEF AsSent, Reads
  <2>3. QED BY <2>1, <2>2
<1>6. ASSUME NEW v \in Worker PROVE InHand(v)'
  <2>1. pc'[v] \in {"setFile", "setMeta", "fill"} =>
          /\ job'[v] = job[v] /\ InHand(v)
          /\ pc[v] = pc'[v] \/ (pc[v] = "setFile" /\ pc'[v] = "setMeta")
    BY <1>1 DEF GoesOn, UpToDate
  <2>2. QED
    BY <2>1 DEF GoesOn, InHand, FileAgrees, MetaAgrees, ListingAgrees, Has, Removable
<1>7. Whole' BY DEF GoesOn, UpToDate, Whole
<1>8. QED BY <1>2, <1>3, <1>4, <1>5, <1>6, <1>7

(* Reading an entry.                                                        *)
LEMMA LookupUpToDate ==
  ASSUME Inv, UpToDate, NEW w \in Worker, Lookup(w)
  PROVE  UpToDate'
<1>1. GoesOn(w) BY ProceedGoesOn, FinishGoesOn DEF Lookup, OnlyRedis
<1>2. /\ \A n \in Name : /\ FileUpcoming(n) => FileUpcoming(n)'
                         /\ MetaUpcoming(n) => MetaUpcoming(n)'
      /\ ListUpcoming => ListUpcoming'
  BY <1>1 DEF Lookup, GoesOn, FileUpcoming, MetaUpcoming, ListUpcoming
<1>3. cache' = cache /\ UNCHANGED <<stored, scheduled, now>> BY <1>1 DEF Lookup, GoesOn
<1>4. FilesAgree' /\ MetasAgree' /\ ListAgrees'
  BY <1>2, <1>3
     DEF UpToDate, FilesAgree, MetasAgree, ListAgrees, FileAgrees, MetaAgrees,
         ListingAgrees, Has, Removable
<1>5. QED BY <1>1, <1>4, GoesOnRequests DEF UpToDate

(* The keys of the entries are all different.                               *)
LEMMA KeysApart ==
  /\ \A n \in Name : ListKey # FileKey(n) /\ ListKey # MetaKey(n)
  /\ \A n, m \in Name : FileKey(n) # MetaKey(m)
  /\ \A n, m \in Name : n # m => FileKey(n) # FileKey(m) /\ MetaKey(n) # MetaKey(m)
  BY DEF ListKey, FileKey, MetaKey

(* A successful call to Redis touches one entry.                            *)
LEMMA OneEntry ==
  ASSUME Inv, NEW key \in Key, NEW value, cache' \in {Cached(key, value), Dropped(key)}
  PROVE  /\ cache' = Cached(key, value) => cache'[key].value = value
         /\ cache' = Dropped(key) => cache'[key] = None
         /\ \A k \in Key : k # key => cache'[k] = cache[k]
<1>1. cache = [k \in Key |-> cache[k]] BY InvParts DEF CacheOK
<1>2. QED BY <1>1 DEF Cached, Dropped

(* What a call to Redis leaves of the entries: one that agrees, none, or    *)
(* the one that was there, unless this was the call that was to replace it. *)
FilesLeft(w) ==
  \A n \in Name :
    \/ cache'[FileKey(n)] = None \/ FileAgrees(n, cache'[FileKey(n)].value)
    \/ /\ cache'[FileKey(n)] = cache[FileKey(n)]
       /\ pc[w] \in {"setFile", "dropFile"} => job[w].name # n
MetasLeft(w) ==
  \A n \in Name :
    \/ cache'[MetaKey(n)] = None \/ MetaAgrees(n, cache'[MetaKey(n)].value)
    \/ /\ cache'[MetaKey(n)] = cache[MetaKey(n)]
       /\ pc[w] \in {"setMeta", "dropMeta"} => job[w].name # n
ListLeft(w) ==
  \/ cache'[ListKey] = None \/ ListingAgrees(cache'[ListKey].value)
  \/ cache'[ListKey] = cache[ListKey] /\ pc[w] # "dropList"

LEMMA LeftUpToDate ==
  ASSUME Inv, UpToDate, NEW w \in Worker, GoesOn(w),
         pc'[w] = "idle" => pc[w] \in {"fill", "dropList"},
         FilesLeft(w), MetasLeft(w), ListLeft(w)
  PROVE  UpToDate'
<1>1. UNCHANGED <<stored, scheduled, now>> BY DEF GoesOn
<1>2. FilesAgree'
  <2> SUFFICES ASSUME NEW n \in Name, cache'[FileKey(n)] # None
               PROVE  FileAgrees(n, cache[FileKey(n)].value)' \/ FileUpcoming(n)'
    BY DEF FilesAgree
  <2>1. CASE FileAgrees(n, cache'[FileKey(n)].value)
    BY <1>1, <2>1 DEF FileAgrees, Removable
  <2>2. CASE /\ cache'[FileKey(n)] = cache[FileKey(n)]
             /\ pc[w] \in {"setFile", "dropFile"} => job[w].name # n
    <3>1. FileAgrees(n, cache[FileKey(n)].value) \/ FileUpcoming(n)
      BY <2>2 DEF UpToDate, FilesAgree
    <3>2. FileUpcoming(n) => FileUpcoming(n)' BY <2>2 DEF GoesOn, FileUpcoming
    <3>3. QED BY <1>1, <2>2, <3>1, <3>2 DEF FileAgrees, Removable
  <2>3. QED BY <2>1, <2>2 DEF FilesLeft
<1>3. MetasAgree'
  <2> SUFFICES ASSUME NEW n \in Name, cache'[MetaKey(n)] # None
               PROVE  MetaAgrees(n, cache[MetaKey(n)].value)' \/ MetaUpcoming(n)'
    BY DEF MetasAgree
  <2>1. CASE MetaAgrees(n, cache'[MetaKey(n)].value)
    BY <1>1, <2>1 DEF MetaAgrees, Has, Removable
  <2>2. CASE /\ cache'[MetaKey(n)] = cache[MetaKey(n)]
             /\ pc[w] \in {"setMeta", "dropMeta"} => job[w].name # n
    <3>1. MetaAgrees(n, cache[MetaKey(n)].value) \/ MetaUpcoming(n)
      BY <2>2 DEF UpToDate, MetasAgree
    <3>2. MetaUpcoming(n) => MetaUpcoming(n)' BY <2>2 DEF GoesOn, MetaUpcoming
    <3>3. QED BY <1>1, <2>2, <3>1, <3>2 DEF MetaAgrees, Has, Removable
  <2>3. QED BY <2>1, <2>2 DEF MetasLeft
<1>4. ListAgrees'
  <2> SUFFICES ASSUME cache'[ListKey] # None
               PROVE  ListingAgrees(cache[ListKey].value)' \/ ListUpcoming'
    BY DEF ListAgrees
  <2>1. CASE ListingAgrees(cache'[ListKey].value)
    BY <1>1, <2>1 DEF ListingAgrees, Has, Removable
  <2>2. CASE cache'[ListKey] = cache[ListKey] /\ pc[w] # "dropList"
    <3>1. ListingAgrees(cache[ListKey].value) \/ ListUpcoming
      BY <2>2 DEF UpToDate, ListAgrees
    <3>2. ListUpcoming => ListUpcoming' BY <2>2 DEF GoesOn, ListUpcoming
    <3>3. QED BY <1>1, <2>2, <3>1, <3>2 DEF ListingAgrees, Has, Removable
  <2>3. QED BY <2>1, <2>2 DEF ListLeft
<1>5. QED BY <1>2, <1>3, <1>4, GoesOnRequests DEF UpToDate

(* A read caches what it was answered.                                      *)
LEMMA FillUpToDate ==
  ASSUME Inv, UpToDate, NEW w \in Worker, Fill(w), faults' = faults
  PROVE  UpToDate'
<1>1. /\ pc[w] = "fill" /\ UNCHANGED <<stored, scheduled, now>>
      /\ cache' = Cached(ReadKey(job[w].req), job[w].got)
  BY InvParts DEF Fill, OnlyRedis, RedisCall, CountersOK
<1>2. GoesOn(w) /\ pc'[w] = "idle" BY <1>1, FinishGoesOn DEF Fill
<1>3. job[w].req.name \in Name /\ ReadKey(job[w].req) \in Key
  BY <1>1, InProgress, RequestParts
<1>4. InHand(w) BY DEF UpToDate
<1>5. /\ cache'[ReadKey(job[w].req)].value = job[w].got
      /\ \A k \in Key : k # ReadKey(job[w].req) => cache'[k] = cache[k]
  BY <1>1, <1>3, OneEntry
<1>6. FilesLeft(w) /\ MetasLeft(w) /\ ListLeft(w)
  <2>1. CASE job[w].req.op = "getFiles"
    <3>1. ReadKey(job[w].req) = ListKey BY <2>1 DEF ReadKey
    <3>2. ListingAgrees(job[w].got) BY <1>1, <1>4, <2>1 DEF InHand
    <3>3. QED BY <1>1, <1>5, <3>1, <3>2, Keys, KeysApart DEF FilesLeft, MetasLeft, ListLeft
  <2>2. CASE job[w].req.op = "getFile"
    <3>1. ReadKey(job[w].req) = FileKey(job[w].req.name) BY <2>2 DEF ReadKey
    <3>2. FileAgrees(job[w].req.name, job[w].got) BY <1>1, <1>4, <2>2 DEF InHand
    <3>3. QED
      BY <1>1, <1>3, <1>5, <3>1, <3>2, Keys, KeysApart DEF FilesLeft, MetasLeft, ListLeft
  <2>3. CASE job[w].req.op \notin {"getFile", "getFiles"}
    <3>1. ReadKey(job[w].req) = MetaKey(job[w].req.name) BY <2>3 DEF ReadKey
    <3>2. MetaAgrees(job[w].req.name, job[w].got) BY <1>1, <1>4, <2>3 DEF InHand
    <3>3. QED
      BY <1>1, <1>3, <1>5, <3>1, <3>2, Keys, KeysApart DEF FilesLeft, MetasLeft, ListLeft
  <2>4. QED BY <2>1, <2>2, <2>3
<1>7. QED BY <1>1, <1>2, <1>6, LeftUpToDate

(* An upload caches the file it was answered,                               *)
LEMMA SetFileUpToDate ==
  ASSUME Inv, UpToDate, NEW w \in Worker, SetFile(w), faults' = faults
  PROVE  UpToDate'
<1>1. /\ pc[w] = "setFile" /\ UNCHANGED <<stored, scheduled, now>>
      /\ cache' = Cached(FileKey(job[w].name), job[w].got)
      /\ Proceed(w, "setMeta")
  BY InvParts DEF SetFile, OnlyRedis, RedisCall, CountersOK
<1>2. GoesOn(w) /\ pc'[w] = "setMeta"
  BY <1>1, ProceedGoesOn, InvParts DEF RequestsOK, Proceed, Goto
<1>3. job[w].name \in Name BY <1>1, InvParts DEF RequestsOK
<1>4. FileAgrees(job[w].name, job[w].got) BY <1>1 DEF UpToDate, InHand
<1>5. /\ cache'[FileKey(job[w].name)].value = job[w].got
      /\ \A k \in Key : k # FileKey(job[w].name) => cache'[k] = cache[k]
  BY <1>1, <1>3, Keys, OneEntry
<1>6. FilesLeft(w) /\ MetasLeft(w) /\ ListLeft(w)
  BY <1>1, <1>3, <1>4, <1>5, Keys, KeysApart DEF FilesLeft, MetasLeft, ListLeft
<1>7. QED BY <1>2, <1>6, LeftUpToDate

(* and its metadata.                                                        *)
LEMMA SetMetaUpToDate ==
  ASSUME Inv, UpToDate, NEW w \in Worker, SetMeta(w), faults' = faults
  PROVE  UpToDate'
<1>1. /\ pc[w] = "setMeta" /\ UNCHANGED <<stored, scheduled, now>>
      /\ cache' = Cached(MetaKey(job[w].name), job[w].got.meta)
      /\ Proceed(w, "dropList")
  BY InvParts DEF SetMeta, OnlyRedis, RedisCall, CountersOK
<1>2. GoesOn(w) /\ pc'[w] = "dropList"
  BY <1>1, ProceedGoesOn, InvParts DEF RequestsOK, Proceed, Goto
<1>3. job[w].name \in Name /\ job[w].got \in File BY <1>1, InvParts DEF RequestsOK
<1>4. MetaAgrees(job[w].name, job[w].got.meta)
  <2>1. FileAgrees(job[w].name, job[w].got) BY <1>1 DEF UpToDate, InHand
  <2>2. QED BY <1>3, <2>1, CachedNoneAssumption DEF FileAgrees, MetaAgrees, Has, File
<1>5. /\ cache'[MetaKey(job[w].name)].value = job[w].got.meta
      /\ \A k \in Key : k # MetaKey(job[w].name) => cache'[k] = cache[k]
  BY <1>1, <1>3, Keys, OneEntry
<1>6. FilesLeft(w) /\ MetasLeft(w) /\ ListLeft(w)
  BY <1>1, <1>3, <1>4, <1>5, Keys, KeysApart DEF FilesLeft, MetasLeft, ListLeft
<1>7. QED BY <1>2, <1>6, LeftUpToDate

(* A rename or deletion drops the entries of the old name,                  *)
LEMMA DropNameUpToDate ==
  ASSUME Inv, UpToDate, NEW w \in Worker, DropFile(w) \/ DropMeta(w), faults' = faults
  PROVE  UpToDate'
<1>1. PICK key \in Key, label \in {"dropMeta", "dropList"} :
        /\ UNCHANGED <<stored, scheduled, now>> /\ cache' = Dropped(key) /\ Proceed(w, label)
        /\ \/ pc[w] = "dropFile" /\ label = "dropMeta" /\ key = FileKey(job[w].name)
           \/ pc[w] = "dropMeta" /\ label = "dropList" /\ key = MetaKey(job[w].name)
  BY InvParts, Keys DEF DropFile, DropMeta, OnlyRedis, RedisCall, CountersOK, RequestsOK
<1>2. GoesOn(w) /\ pc'[w] # "idle"
  BY <1>1, ProceedGoesOn, InvParts DEF RequestsOK, Proceed, Goto
<1>3. job[w].name \in Name BY <1>1, InvParts DEF RequestsOK
<1>4. cache'[key] = None /\ \A k \in Key : k # key => cache'[k] = cache[k]
  BY <1>1, OneEntry
<1>5. FilesLeft(w) /\ MetasLeft(w) /\ ListLeft(w)
  BY <1>1, <1>3, <1>4, Keys, KeysApart DEF FilesLeft, MetasLeft, ListLeft
<1>6. QED BY <1>2, <1>5, LeftUpToDate

(* and every change the listing.                                            *)
LEMMA DropListUpToDate ==
  ASSUME Inv, UpToDate, NEW w \in Worker, DropList(w), faults' = faults
  PROVE  UpToDate'
<1>1. /\ pc[w] = "dropList" /\ UNCHANGED <<stored, scheduled, now>>
      /\ cache' = Dropped(ListKey)
  BY InvParts DEF DropList, OnlyRedis, RedisCall, CountersOK
<1>2. GoesOn(w) BY <1>1, FinishGoesOn DEF DropList
<1>3. cache'[ListKey] = None /\ \A k \in Key : k # ListKey => cache'[k] = cache[k]
  BY <1>1, Keys, OneEntry
<1>4. FilesLeft(w) /\ MetasLeft(w) /\ ListLeft(w)
  BY <1>1, <1>3, Keys, KeysApart DEF FilesLeft, MetasLeft, ListLeft
<1>5. QED BY <1>1, <1>2, <1>4, LeftUpToDate

-----------------------------------------------------------------------------
(* The steps.                                                               *)

(* Every step of a request that does not fail.                              *)
LEMMA StepUpToDate ==
  ASSUME Inv, UpToDate, NEW w \in Worker, Step(w), orderly', faults' = faults
  PROVE  UpToDate'
<1>1. CASE \/ CallUpload(w) \/ CallRename(w) \/ CallGenerate(w)
           \/ CallDelete(w) \/ CallRead(w)
  <2>1. pc[w] = "call"
    BY <1>1 DEF CallUpload, CallRename, CallGenerate, CallDelete, CallRead
  <2>2. AsSent(w) /\ Whole BY <2>1 DEF UpToDate, StillAsSent
  <2>3. Called(w)
    BY <1>1, <2>2, UploadCalled, RenameCalled, GenerateCalled, DeleteCalled, ReadCalled
  <2>4. QED BY <2>3, CalledUpToDate
<1>2. CASE Lookup(w) BY <1>2, LookupUpToDate
<1>3. CASE Fill(w) BY <1>3, FillUpToDate
<1>4. CASE SetFile(w) \/ SetMeta(w) BY <1>4, SetFileUpToDate, SetMetaUpToDate
<1>5. CASE DropFile(w) \/ DropMeta(w) \/ DropList(w)
  BY <1>5, DropNameUpToDate, DropListUpToDate
<1>6. ~CallFails(w) BY FailureCounts
<1>7. QED BY <1>1, <1>2, <1>3, <1>4, <1>5, <1>6 DEF Step

(* Failures do not go away.                                                 *)
LEMMA FaultsStay ==
  ASSUME Inv, [Next]_vars, Settled'
  PROVE  Settled /\ faults' = faults /\ orderly' /\ ~Restart
<1>1. faults \in Nat /\ faults' = 0 /\ orderly' BY InvParts DEF Settled, CountersOK
<1>2. faults' \in {faults, faults + 1}
  <2>1. \A w \in Worker : CallFails(w) => faults' = faults + 1 BY FailureCounts
  <2>2. QED
    BY <2>1
       DEF Next, vars, Step, Submit, Lookup, CallRead, Fill, CallUpload, CallGenerate, SetFile,
           SetMeta, CallRename, CallDelete, DropFile, DropMeta, DropList, RedisCall, Expire,
           Tick, Restart
<1>3. faults' = faults /\ faults = 0 BY <1>1, <1>2
<1>4. orderly
  <2>1. \A w \in Worker : CallFails(w) => orderly' = orderly BY FailureCounts
  <2>2. QED
    BY <1>1, <2>1
       DEF Next, vars, Step, Submit, Lookup, CallRead, Fill, CallUpload, CallGenerate,
           SetFile, SetMeta, CallRename, CallDelete, DropFile, DropMeta, DropList, OnlyRedis,
           Expire, Tick, Restart
<1>5. ~Restart BY <1>3 DEF Restart
<1>6. QED BY <1>1, <1>3, <1>4, <1>5 DEF Settled

(* An orderly request keeps apart from those in progress.                   *)
LEMMA SubmitUpToDate ==
  ASSUME Inv, UpToDate, NEW w \in Worker, NEW r \in Request, Submit(w, r), orderly'
  PROVE  UpToDate'
<1>1. /\ Orderly(r) /\ pc[w] = "idle"
      /\ UNCHANGED <<stored, scheduled, cache, now>>
  BY DEF Submit
<1>2. /\ \A v \in Worker : v # w => pc'[v] = pc[v] /\ job'[v] = job[v]
      /\ pc'[w] = (IF r.op \in Reads THEN "lookup" ELSE "call")
      /\ job'[w] = [req |-> r, name |-> None, got |-> None]
  <2>1. pc \in [Worker -> Pc] /\ \A v \in Worker : v \in DOMAIN job
    BY InvParts DEF RequestsOK
  <2>2. QED BY <2>1 DEF Submit
<1>3. job'[w].req = r /\ job'[w].name = None BY <1>2
<1>4. \A n \in Name : n # None BY CachedNoneAssumption
<1>5. \A v \in Worker : Apart(r, v) BY <1>1 DEF Orderly
<1>6. Alone'
  <2> SUFFICES ASSUME NEW v \in Worker, NEW u \in Worker, v # u, Busy(u)'
               PROVE  /\ Changes(v)' => job'[u].req.op # "getFiles"
                      /\ ChangesNamed(v)' => ~\E n \in Name : Concerns(v, n)' /\ Concerns(u, n)'
    BY DEF Alone
  <2>1. CASE v = w
    <3>1. pc'[u] = pc[u] /\ job'[u] = job[u] /\ pc[u] # "idle"
      BY <1>2, <2>1 DEF Busy
    <3>2. SUFFICES ASSUME r.op \notin Reads
                   PROVE /\ job[u].req.op # "getFiles"
                         /\ ChangesNamed(v)' =>
                              ~\E n \in Name : Concerns(v, n)' /\ Concerns(u, n)'
      BY <1>3, <2>1, <3>1 DEF Changes, ChangesNamed, Reads
    <3>3. job[u].req.op # "getFiles" /\ ~\E n \in NamesOf(r) : Concerns(u, n)
      BY <1>5, <3>1, <3>2 DEF Apart
    <3>4. \A n \in Name : Concerns(v, n)' => n \in NamesOf(r)
      BY <1>3, <1>4, <2>1 DEF Concerns
    <3>5. \A n \in Name : Concerns(u, n)' => Concerns(u, n) BY <3>1 DEF Concerns
    <3>6. QED BY <3>3, <3>4, <3>5
  <2>2. CASE u = w
    <3>1. /\ pc'[v] = pc[v] /\ job'[v] = job[v]
          /\ Changes(v)' => pc[v] # "idle" /\ job[v].req.op \notin Reads
          /\ ChangesNamed(v)' => Changes(v)'
      BY <1>2, <2>2 DEF Changes, ChangesNamed, Busy, Reads
    <3>2. SUFFICES ASSUME Changes(v)'
                   PROVE /\ r.op # "getFiles"
                         /\ ~\E n \in Name : Concerns(v, n)' /\ Concerns(w, n)'
      BY <1>3, <2>2, <3>1
    <3>3. r.op # "getFiles" /\ ~\E n \in NamesOf(r) : Concerns(v, n)
      BY <1>5, <3>1, <3>2 DEF Apart
    <3>4. \A n \in Name : Concerns(w, n)' => n \in NamesOf(r)
      BY <1>3, <1>4 DEF Concerns
    <3>5. \A n \in Name : Concerns(v, n)' => Concerns(v, n) BY <3>1 DEF Concerns
    <3>6. QED BY <3>3, <3>4, <3>5
  <2>3. CASE v # w /\ u # w
    BY <1>2, <2>3 DEF UpToDate, Alone, Changes, ChangesNamed, Concerns, Busy
  <2>4. QED BY <2>1, <2>2, <2>3
<1>7. NamesGiven' BY <1>2, <1>3 DEF UpToDate, NamesGiven, Busy
<1>8. StillAsSent'
  <2> SUFFICES ASSUME NEW v \in Worker, pc'[v] = "call" PROVE AsSent(v)' BY DEF StillAsSent
  <2>1. CASE v = w BY <1>1, <1>3, <2>1 DEF Orderly, AsSent, Has, Described
  <2>2. CASE v # w BY <1>1, <1>2, <2>2 DEF UpToDate, StillAsSent, AsSent, Has, Described
  <2>3. QED BY <2>1, <2>2
<1>9. \A v \in Worker : RightPlace(v)' /\ InHand(v)'
  <2> SUFFICES ASSUME NEW v \in Worker PROVE RightPlace(v)' /\ InHand(v)' OBVIOUS
  <2>1. CASE v = w BY <1>2, <1>3, <2>1 DEF RightPlace, InHand
  <2>2. CASE v # w
    BY <1>1, <1>2, <2>2
       DEF UpToDate, RightPlace, InHand, FileAgrees, MetaAgrees, ListingAgrees, Has, Removable
  <2>3. QED BY <2>1, <2>2
<1>10. /\ \A n \in Name : /\ FileUpcoming(n) => FileUpcoming(n)'
                          /\ MetaUpcoming(n) => MetaUpcoming(n)'
       /\ ListUpcoming => ListUpcoming'
  BY <1>1, <1>2 DEF FileUpcoming, MetaUpcoming, ListUpcoming
<1>11. FilesAgree' /\ MetasAgree' /\ ListAgrees'
  BY <1>1, <1>10
     DEF UpToDate, FilesAgree, MetasAgree, ListAgrees, FileAgrees, MetaAgrees,
         ListingAgrees, Has, Removable
<1>12. Whole' BY <1>1 DEF UpToDate, Whole
<1>13. QED BY <1>6, <1>7, <1>8, <1>9, <1>11, <1>12 DEF UpToDate

(* Time passes, and the consumer deletes: what it deletes it may delete.    *)
LEMMA OthersUpToDate ==
  ASSUME Inv, UpToDate, Tick \/ \E n \in Name : Expire(n), faults' = faults
  PROVE  UpToDate'
<1>1. UNCHANGED <<scheduled, cache, pc, job>> BY DEF Tick, Expire
<1>2. now \in Nat /\ now' \in Nat /\ now <= now'
  BY InvParts DEF CountersOK, Tick, Expire
<1>3. \A t : t \in Never..now => t \in Never..now' BY <1>2
<1>4. \A n \in Name : \/ stored'[n] = stored[n]
                      \/ stored'[n] = Nothing /\ Removable(n, stored[n].meta)
  <2>1. stored \in [Name -> Stored] /\ faults \in Nat BY InvParts DEF CountersOK
  <2>2. CASE Tick BY <2>2 DEF Tick
  <2>3. ASSUME NEW m \in Name, Expire(m)
        PROVE  /\ Removable(m, stored[m].meta)
               /\ stored' = [stored EXCEPT ![m] = Nothing]
    BY <2>1, <2>3 DEF Expire, Condemned
  <2>4. QED BY <2>1, <2>2, <2>3
<1>5. Alone' /\ NamesGiven' /\ \A w \in Worker : RightPlace(w)'
  BY <1>1 DEF UpToDate, Alone, NamesGiven, RightPlace, Busy, Changes, ChangesNamed, Concerns
<1>6. StillAsSent'
  <2> SUFFICES ASSUME NEW v \in Worker, pc[v] = "call" PROVE AsSent(v)'
    BY <1>1 DEF StillAsSent
  <2>1. AsSent(v) /\ job[v].req.name \in Name /\ job[v].req.newName \in Name
    BY InProgress DEF UpToDate, StillAsSent
  <2>2. QED BY <1>1, <1>4, <2>1 DEF AsSent, Has, Described, Nothing
<1>7. ASSUME NEW n \in Name, NEW f
      PROVE  /\ FileAgrees(n, f) => FileAgrees(n, f)'
             /\ MetaAgrees(n, f) => MetaAgrees(n, f)'
  BY <1>1, <1>3, <1>4 DEF FileAgrees, MetaAgrees, Has, Removable, Nothing
<1>8. ASSUME NEW f PROVE ListingAgrees(f) => ListingAgrees(f)'
  BY <1>1, <1>3, <1>4 DEF ListingAgrees, Has, Removable, Nothing
<1>9. \A w \in Worker : InHand(w)'
  <2> SUFFICES ASSUME NEW w \in Worker PROVE InHand(w)' OBVIOUS
  <2>1. PICK f : f = job[w].got OBVIOUS
  <2>2. PICK n : n = job[w].name OBVIOUS
  <2>3. PICK r : r = job[w].req OBVIOUS
  <2>4. InHand(w) /\ job'[w].got = f /\ job'[w].name = n /\ job'[w].req = r /\ pc'[w] = pc[w]
    BY <1>1, <2>1, <2>2, <2>3 DEF UpToDate
  <2>5. CASE pc[w] \in {"setFile", "setMeta"}
    <3>1. n \in Name BY <2>2, <2>5, InvParts DEF RequestsOK
    <3>2. FileAgrees(n, f)' BY <1>7, <2>1, <2>2, <2>4, <2>5, <3>1 DEF InHand
    <3>3. QED BY <2>4, <2>5, <3>2 DEF InHand
  <2>6. CASE pc[w] = "fill"
    <3>1. r.name \in Name BY <2>3, <2>6, InProgress
    <3>2. PICK m \in Name : m = r.name BY <3>1
    <3>3. QED BY <1>7, <1>8, <2>1, <2>3, <2>4, <2>6, <3>2 DEF InHand
  <2>7. CASE pc[w] \notin {"setFile", "setMeta", "fill"} BY <1>1, <2>7 DEF InHand
  <2>8. QED BY <2>5, <2>6, <2>7
<1>10. /\ \A n \in Name : FileUpcoming(n)' = FileUpcoming(n) /\ MetaUpcoming(n)' = MetaUpcoming(n)
       /\ ListUpcoming' = ListUpcoming
  BY <1>1 DEF FileUpcoming, MetaUpcoming, ListUpcoming
<1>11. FilesAgree' /\ MetasAgree'
  <2> SUFFICES ASSUME NEW n \in Name
               PROVE  /\ cache[FileKey(n)] # None =>
                           FileAgrees(n, cache[FileKey(n)].value)' \/ FileUpcoming(n)'
                      /\ cache[MetaKey(n)] # None =>
                           MetaAgrees(n, cache[MetaKey(n)].value)' \/ MetaUpcoming(n)'
    BY <1>1 DEF FilesAgree, MetasAgree
  <2>1. PICK f : f = cache[FileKey(n)].value OBVIOUS
  <2>2. PICK m : m = cache[MetaKey(n)].value OBVIOUS
  <2>3. QED BY <1>1, <1>7, <1>10, <2>1, <2>2 DEF UpToDate, FilesAgree, MetasAgree
<1>12. ListAgrees'
  <2>1. PICK l : l = cache[ListKey].value OBVIOUS
  <2>2. QED BY <1>1, <1>8, <1>10, <2>1 DEF UpToDate, ListAgrees
<1>13. Whole' BY <1>4 DEF UpToDate, Whole
<1>14. QED BY <1>5, <1>6, <1>9, <1>11, <1>12, <1>13 DEF UpToDate

(* Hence every step.                                                        *)
LEMMA OrderlinessStep == Inv /\ Orderliness /\ [Next]_vars => Orderliness'
<1> SUFFICES ASSUME Inv, Orderliness, [Next]_vars, Settled' PROVE UpToDate'
  BY DEF Orderliness, Settled
<1>1. UpToDate /\ faults' = faults /\ orderly' /\ ~Restart
  BY FaultsStay DEF Orderliness, Settled
<1>2. CASE \E w \in Worker : Step(w) BY <1>1, <1>2, StepUpToDate
<1>3. CASE \E w \in Worker : \E r \in Request : Submit(w, r)
  BY <1>1, <1>3, SubmitUpToDate
<1>4. CASE Tick \/ \E n \in Name : Expire(n) BY <1>1, <1>4, OthersUpToDate
<1>5. CASE UNCHANGED vars
  BY <1>1, <1>5
     DEF vars, UpToDate, Whole, Alone, NamesGiven, StillAsSent, AsSent, RightPlace, InHand,
         FilesAgree, MetasAgree, ListAgrees, FileAgrees, MetaAgrees, ListingAgrees,
         FileUpcoming, MetaUpcoming, ListUpcoming, Busy, Changes, ChangesNamed, Concerns,
         Has, Described, Removable
<1>6. QED BY <1>1, <1>2, <1>3, <1>4, <1>5 DEF Next

-----------------------------------------------------------------------------
(* The theorems.                                                            *)

(* As long as nothing fails and clients are orderly, Redis and everything   *)
(* on its way there is what is stored, or a request still on its way is     *)
(* about to set or drop it.                                                 *)
THEOREM AlwaysOrderly == Spec => []Orderliness
<1>1. Init => Orderliness
  BY DEF Init, Orderliness, UpToDate, Whole, Alone, NamesGiven, StillAsSent, RightPlace, InHand,
         FilesAgree, MetasAgree, ListAgrees, Busy, Changes, ChangesNamed, Key, ListKey,
         FileKey, MetaKey
<1>2. QED BY <1>1, OrderlinessStep, InvAlways, PTL DEF Spec

(* So a name no request is about is served from Redis as it is stored,      *)
(* except for what the consumer may have deleted,                           *)
THEOREM AlwaysCoherent == Spec => []Coherent
<1>1. Inv /\ Orderliness => Coherent
  <2> SUFFICES ASSUME Inv, UpToDate, NEW n \in Name, \A w \in Worker : ~Concerns(w, n)
               PROVE  /\ Live(FileKey(n)) => FileAgrees(n, cache[FileKey(n)].value)
                      /\ Live(MetaKey(n)) => MetaAgrees(n, cache[MetaKey(n)].value)
    BY DEF Orderliness, Coherent, FileAgrees, MetaAgrees
  <2>1. ~FileUpcoming(n) /\ ~MetaUpcoming(n) BY DEF FileUpcoming, MetaUpcoming, Concerns
  <2>2. QED BY <2>1 DEF UpToDate, FilesAgree, MetasAgree, Live
<1>2. QED BY <1>1, InvAlways, AlwaysOrderly, PTL

(* and once all requests are done the listing shows every file, and besides *)
(* only files the consumer may have deleted.                                *)
THEOREM AlwaysListed == Spec => []ListingCurrent
<1>1. Inv /\ Orderliness => ListingCurrent
  <2> SUFFICES ASSUME Inv, UpToDate, \A w \in Worker : pc[w] = "idle", Live(ListKey)
               PROVE  ListingAgrees(cache[ListKey].value)
    BY DEF Orderliness, ListingCurrent, ListingAgrees
  <2>1. ~ListUpcoming BY DEF ListUpcoming
  <2>2. QED BY <2>1 DEF UpToDate, ListAgrees, Live
<1>2. QED BY <1>1, InvAlways, AlwaysOrderly, PTL
=============================================================================
