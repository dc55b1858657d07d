-------------------------- MODULE ApplicationProofs --------------------------
(***************************************************************************)
(* Theorems about Application, for every value of its constants.            *)
(***************************************************************************)
EXTENDS Application, TLAPS

-----------------------------------------------------------------------------
(* Errors.                                                                  *)

(* Whatever a failure is, From makes an AppError of it.                     *)
LEMMA FromType ==
  ASSUME NEW err \in Failure
  PROVE  /\ From(err) \in Failure /\ From(err).kind = "app"
         /\ ErrorStatus(err) \in HTTPStatus /\ ToGRPCError(err).code \in GRPCCode
<1>1. \A status \in HTTPStatus : httpToGRPCCode(status) \in GRPCCode
  BY DEF httpToGRPCCode, GRPCCode, HTTPStatus
<1>2. \A code \in GRPCCode : grpcToHTTPCode(code) \in HTTPStatus
  BY DEF grpcToHTTPCode, HTTPStatus
<1>3. /\ err.kind \in {"app", "fiber", "status", "other"}
      /\ err.status \in HTTPStatus /\ err.code \in GRPCCode
  BY DEF Failure
<1>4. ErrorStatus(err) \in HTTPStatus BY <1>3 DEF ErrorStatus, HTTPStatus
<1>5. From(err) \in Failure /\ From(err).kind = "app"
  <2>1. CASE err.kind = "app" BY <2>1 DEF From
  <2>2. CASE err.kind = "fiber"
    BY <1>1, <1>3, <2>2 DEF From, New, AppError, Failure
  <2>3. CASE err.kind = "status"
    BY <1>2, <1>3, <2>3 DEF From, AppError, Failure
  <2>4. CASE err.kind = "other"
    BY <2>4 DEF From, AppError, Failure, HTTPStatus, GRPCCode
  <2>5. QED BY <1>3, <2>1, <2>2, <2>3, <2>4
<1>6. From(err).code \in GRPCCode BY <1>5 DEF Failure
<1>7. QED BY <1>4, <1>5, <1>6 DEF ToGRPCError, StatusError

(* The errors the handlers answer with are errors in their own right.       *)
LEMMA KnownFailures ==
  /\ \A status \in HTTPStatus : FiberError(status) \in Failure /\ Shared(status) \in Failure
  /\ \A code \in GRPCCode : StatusError(code) \in Failure
  /\ OtherError \in Failure
<1>1. \A status \in HTTPStatus : FiberError(status) \in Failure
  BY DEF FiberError, Failure, GRPCCode
<1>3. \A code \in GRPCCode : StatusError(code) \in Failure
  BY DEF StatusError, Failure, HTTPStatus
<1>4. OtherError \in Failure BY DEF OtherError, Failure, HTTPStatus, GRPCCode
<1>5. QED BY <1>1, <1>3, <1>4, FromType DEF Shared

(* What a shared error is to both transports, for every status a request    *)
(* fails with.                                                              *)
LEMMA SharedMeaning ==
  ASSUME NEW status \in Reworded \cup {401}
  PROVE  /\ ErrorStatus(Shared(status)) = status
         /\ grpcToHTTPCode(ToGRPCError(Shared(status)).code) = status
         /\ isServerError(ToGRPCError(Shared(status)).code) <=> status >= 500
<1> DEFINE err == Shared(status)
<1>1. /\ err.kind = "app" /\ err.status = status
      /\ err.code = httpToGRPCCode(status)
  BY DEF Shared, FiberError, From, New, AppError
<1>2. ErrorStatus(err) = status BY <1>1 DEF ErrorStatus
<1>3. ToGRPCError(err).code = httpToGRPCCode(status)
  BY <1>1 DEF ToGRPCError, From, StatusError
<1>4. /\ grpcToHTTPCode(httpToGRPCCode(status)) = status
      /\ isServerError(httpToGRPCCode(status)) <=> status >= 500
  <2>1. CASE status = 400 BY <2>1 DEF httpToGRPCCode, grpcToHTTPCode, isServerError
  <2>2. CASE status = 401 BY <2>2 DEF httpToGRPCCode, grpcToHTTPCode, isServerError
  <2>3. CASE status = 404 BY <2>3 DEF httpToGRPCCode, grpcToHTTPCode, isServerError
  <2>4. CASE status = 409 BY <2>4 DEF httpToGRPCCode, grpcToHTTPCode, isServerError
  <2>5. CASE status = 500 BY <2>5 DEF httpToGRPCCode, grpcToHTTPCode, isServerError
  <2>6. QED BY <2>1, <2>2, <2>3, <2>4, <2>5 DEF Reworded
<1>5. QED BY <1>2, <1>3, <1>4
-----------------------------------------------------------------------------
(* Answers.                                                                 *)

(* What the invariants say about the answer a of worker w.                  *)
Fine(w, a) ==
  /\ a \in Reply
  /\ a.own /\ a.cause # 0 => a.message = IF a.status = 401 THEN "standard" ELSE w
  /\ a.cause # 0 =>
       /\ a.status \in {0, a.cause}
       /\ a.level = "error" <=> a.cause >= 500
       /\ a.status = 0 => grpcToHTTPCode(a.code) = a.cause

RepliesFine == \A w \in Worker : Fine(w, reply[w])

(* Every answer is logged at a level, or not at all.                        *)
LEMMA LevelType ==
  \A passes, x : /\ HTTPLevel(passes, x) \in Level \cup {NotLogged}
                 /\ GRPCLevel(passes, x) \in Level \cup {NotLogged}
BY DEF HTTPLevel, GRPCLevel, Level, NotLogged

(* The empty answer, and that of a request cut off, blame nobody.           *)
LEMMA FineEmpty ==
  ASSUME NEW w \in Worker
  PROVE  Fine(w, NoReply) /\ Fine(w, [NoReply EXCEPT !.lost = TRUE])
<1>1. NoReply \in Reply /\ [NoReply EXCEPT !.lost = TRUE] \in Reply
  BY DEF NoReply, ReplyOf, Reply, GRPCCode, Message, Author, NotLogged
<1>2. NoReply.cause = 0 /\ [NoReply EXCEPT !.lost = TRUE].cause = 0
  BY DEF NoReply, ReplyOf
<1>3. QED BY <1>1, <1>2 DEF Fine

(* The filter of the HTTP log keeps out one path, that nothing serves.      *)
LEMMA DevtoolsIgnored ==
  \A r \in RequestType : Passes(r) <=> r.call # "devtools"
  BY DEF Passes, FiberPathFilter, FiberTest, AnyFits, Fits

(* A success blames nobody.                                                 *)
LEMMA FineSuccess ==
  ASSUME NEW w \in Worker, NEW r \in RequestType, NEW status \in {200, 204, 304}
  PROVE  Fine(w, Success(r, status))
<1>1. Success(r, status) \in Reply
  BY LevelType DEF Success, ReplyOf, Reply, GRPCCode, Message, Author, HTTPStatus
<1>2. Success(r, status).cause = 0 BY DEF Success, ReplyOf
<1>3. QED BY <1>1, <1>2 DEF Fine

(* A refusal made of typed parts is an answer.                              *)
LEMMA RefusalType ==
  ASSUME NEW r \in RequestType, NEW err \in Failure, NEW cause \in HTTPStatus,
         NEW message \in Message, NEW own \in BOOLEAN
  PROVE  Refusal(r, err, cause, message, own) \in Reply
<1>1. /\ ErrorStatus(err) \in HTTPStatus /\ ToGRPCError(err).code \in GRPCCode
      /\ "OK" \in GRPCCode
  BY FromType DEF GRPCCode
<1>2. CASE r.via = "http" BY <1>1, <1>2, LevelType DEF Refusal, ReplyOf, Reply
<1>3. CASE r.via # "http" BY <1>1, <1>3, LevelType DEF Refusal, ReplyOf, Reply
<1>4. QED BY <1>2, <1>3

(* An error that means its cause to the transport it is answered through    *)
(* makes a fine answer.                                                     *)
LEMMA FineRefusal ==
  ASSUME NEW w \in Worker, NEW r \in RequestType, NEW err \in Failure,
         NEW cause \in HTTPStatus, NEW message \in Message, NEW own \in BOOLEAN,
         own => message = IF ErrorStatus(err) = 401 /\ r.via = "http" THEN "standard" ELSE w,
         r.via = "http" => ErrorStatus(err) = cause,
         r.via = "grpc" => /\ grpcToHTTPCode(ToGRPCError(err).code) = cause
                           /\ isServerError(ToGRPCError(err).code) <=> cause >= 500,
         r.call # "devtools" \/ cause < 500
  PROVE  Fine(w, Refusal(r, err, cause, message, own))
<1> DEFINE a == Refusal(r, err, cause, message, own)
<1>1. a \in Reply BY RefusalType
<1>2. r.via \in {"http", "grpc"} BY DEF RequestType, Server
<1>3. CASE r.via = "http"
  <2>1. /\ a.status = cause /\ a.cause = cause /\ a.message = message /\ a.own = own
        /\ a.level = HTTPLevel(Passes(r), cause)
    BY <1>3 DEF Refusal, ReplyOf
  <2>2. a.level = "error" <=> cause >= 500
    BY <2>1, DevtoolsIgnored DEF HTTPLevel, NotLogged, HTTPStatus
  <2>3. a.status # 0 BY <2>1 DEF HTTPStatus
  <2>4. QED BY <1>1, <1>3, <2>1, <2>2, <2>3 DEF Fine
<1>4. CASE r.via = "grpc"
  <2>1. /\ a.status = 0 /\ a.cause = cause /\ a.message = message /\ a.own = own
        /\ a.level = GRPCLevel(Passes(r), ToGRPCError(err).code)
        /\ a.code = ToGRPCError(err).code
    BY <1>4 DEF Refusal, ReplyOf
  <2>2. a.level = "error" <=> cause >= 500
    BY <1>4, <2>1, DevtoolsIgnored DEF GRPCLevel, NotLogged, HTTPStatus
  <2>3. QED BY <1>1, <1>4, <2>1, <2>2 DEF Fine
<1>5. QED BY <1>2, <1>3, <1>4

(* A shared error, in the words of the request, makes a fine answer.        *)
LEMMA FineWorded ==
  ASSUME NEW w \in Worker, NEW r \in RequestType, NEW err \in Failure,
         NEW cause \in HTTPStatus,
         r.via = "http" => ErrorStatus(err) = cause /\ cause # 401,
         r.via = "grpc" => /\ grpcToHTTPCode(ToGRPCError(err).code) = cause
                           /\ isServerError(ToGRPCError(err).code) <=> cause >= 500,
         r.call # "devtools" \/ cause < 500
  PROVE  \A own \in BOOLEAN : Fine(w, Refusal(r, err, cause, w, own))
<1>1. w \in Message BY DEF Message, Author
<1>2. w = IF ErrorStatus(err) = 401 /\ r.via = "http" THEN "standard" ELSE w OBVIOUS
<1>3. QED BY <1>1, <1>2, FineRefusal

(* The failures that are worded for one request, and the refusal of a key.  *)
Unfound(w, r) == Refusal(r, FiberError(404), 404, w, TRUE)
Unkeyed(w, r) ==
  IF r.via = "http" THEN Refusal(r, Shared(401), 401, "standard", TRUE)
  ELSE Refusal(r, StatusError("Unauthenticated"), 401, w, TRUE)
Panicked(w, r) == Refusal(r, OtherError, 500, w, TRUE)

(* So does an error that is made for the request.                           *)
LEMMA FineOwn ==
  ASSUME NEW w \in Worker, NEW r \in RequestType
  PROVE  /\ Fine(w, Unfound(w, r)) /\ Fine(w, Unkeyed(w, r))
         /\ r.via = "http" /\ r.call # "devtools" => Fine(w, Panicked(w, r))
<1>1. w \in Message /\ "standard" \in Message BY DEF Message, Author
<1>2. 404 \in HTTPStatus /\ 401 \in HTTPStatus /\ 500 \in HTTPStatus BY DEF HTTPStatus
<1>3. Fine(w, Refusal(r, FiberError(404), 404, w, TRUE))
  <2>1. ErrorStatus(FiberError(404)) = 404 BY DEF ErrorStatus, FiberError
  <2>2. ToGRPCError(FiberError(404)).code = "NotFound"
    BY DEF ToGRPCError, StatusError, From, FiberError, New, AppError, httpToGRPCCode
  <2>3. grpcToHTTPCode("NotFound") = 404 /\ (isServerError("NotFound") <=> 404 >= 500)
    BY DEF grpcToHTTPCode, isServerError
  <2>4. FiberError(404) \in Failure BY <1>2, KnownFailures
  <2>5. \A own \in BOOLEAN : Fine(w, Refusal(r, FiberError(404), 404, w, own))
    BY <1>2, <2>1, <2>2, <2>3, <2>4, FineWorded
  <2>6. QED BY <2>5, Zenon
<1>4. ASSUME r.via = "http" PROVE Fine(w, Refusal(r, Shared(401), 401, "standard", TRUE))
  <2>1. ErrorStatus(Shared(401)) = 401 BY SharedMeaning
  <2>2. \A own \in BOOLEAN : Fine(w, Refusal(r, Shared(401), 401, "standard", own))
    BY <1>1, <1>2, <1>4, <2>1, FineRefusal, KnownFailures
  <2>3. QED BY <2>2, Zenon
<1>5. ASSUME r.via = "grpc"
      PROVE  Fine(w, Refusal(r, StatusError("Unauthenticated"), 401, w, TRUE))
  <2>1. ToGRPCError(StatusError("Unauthenticated")).code = "Unauthenticated"
    BY DEF ToGRPCError, StatusError, From, AppError
  <2>2. /\ grpcToHTTPCode("Unauthenticated") = 401
        /\ isServerError("Unauthenticated") <=> 401 >= 500
    BY DEF grpcToHTTPCode, isServerError
  <2>3. StatusError("Unauthenticated") \in Failure BY KnownFailures DEF GRPCCode
  <2>4. \A own \in BOOLEAN :
          Fine(w, Refusal(r, StatusError("Unauthenticated"), 401, w, own))
    BY <1>2, <1>5, <2>1, <2>2, <2>3, FineWorded
  <2>5. QED BY <2>4, Zenon
<1>6. ASSUME r.via = "http", r.call # "devtools"
      PROVE  Fine(w, Refusal(r, OtherError, 500, w, TRUE))
  <2>1. ErrorStatus(OtherError) = 500 BY DEF ErrorStatus, OtherError
  <2>2. OtherError \in Failure BY KnownFailures
  <2>3. \A own \in BOOLEAN : Fine(w, Refusal(r, OtherError, 500, w, own))
    BY <1>2, <1>6, <2>1, <2>2, FineWorded
  <2>4. QED BY <2>3, Zenon
<1>7. Fine(w, Unkeyed(w, r))
  <2>1. r.via \in {"http", "grpc"} BY DEF RequestType, Server
  <2>2. CASE r.via = "http" BY <1>4, <2>2 DEF Unkeyed
  <2>3. CASE r.via = "grpc" BY <1>5, <2>3 DEF Unkeyed
  <2>4. QED BY <2>1, <2>2, <2>3
<1>8. Fine(w, Unfound(w, r)) BY <1>3 DEF Unfound
<1>9. QED BY <1>6, <1>7, <1>8 DEF Panicked

(* A shared error, in the words of the request unless somebody muddled it.  *)
LEMMA FineShared ==
  ASSUME NEW w \in Worker, NEW r \in RequestType, NEW status \in Reworded,
         NEW message \in Message, NEW own \in BOOLEAN, own => message = w,
         r.call # "devtools"
  PROVE  Fine(w, Refusal(r, Shared(status), status, message, own))
<1>1. status \in HTTPStatus /\ status # 401 BY DEF Reworded, HTTPStatus
<1>2. /\ ErrorStatus(Shared(status)) = status
      /\ grpcToHTTPCode(ToGRPCError(Shared(status)).code) = status
      /\ isServerError(ToGRPCError(Shared(status)).code) <=> status >= 500
  BY SharedMeaning
<1>3. QED BY <1>1, <1>2, FineRefusal, KnownFailures
-----------------------------------------------------------------------------
(* Requests in progress.                                                    *)

(* A request about to answer with a shared error that nobody else has       *)
(* worded since it did finds its own words in it.                           *)
Worded ==
  \A w \in Worker :
    pc[w] = "refuse" /\ ~job[w].muddled => text[job[w].shared] = w

(* Only a request that may reaches the service.                             *)
LetIn ==
  \A w \in Worker : pc[w] \notin {"idle", "route", "stream"} =>
    /\ job[w].req.call \in ServiceCall
    /\ Protected(job[w].req) => job[w].req.key

WorkerInv == WorkersOK /\ RepliesFine /\ Worded /\ LetIn

(* A request that is answered finely keeps the invariant of the workers.    *)
LEMMA AnswerKeeps ==
  ASSUME WorkerInv, NEW w \in Worker, NEW answer, Fine(w, answer),
         Answer(w, answer), UNCHANGED text
  PROVE  WorkerInv'
<1>1. answer \in Reply BY DEF Fine
<1>2. WorkersOK'
  BY <1>1 DEF WorkerInv, WorkersOK, Answer, WorkerPc, MessagePc
<1>3. RepliesFine'
  BY DEF WorkerInv, WorkersOK, RepliesFine, Answer
<1>4. Worded' BY DEF WorkerInv, WorkersOK, Worded, Answer
<1>5. LetIn' BY DEF WorkerInv, WorkersOK, LetIn, Answer
<1>6. QED BY <1>2, <1>3, <1>4, <1>5 DEF WorkerInv

(* So does one that goes on without a failure,                              *)
LEMMA GotoKeeps ==
  ASSUME WorkerInv, NEW w \in Worker, NEW label \in {"readTag", "call", "stream"},
         pc[w] # "idle",
         label = "stream" \/ /\ job[w].req.call \in ServiceCall
                             /\ Protected(job[w].req) => job[w].req.key,
         Goto(w, label), UNCHANGED text
  PROVE  WorkerInv'
<1>1. WorkersOK' BY DEF WorkerInv, WorkersOK, Goto, WorkerPc, MessagePc
<1>2. RepliesFine' BY DEF WorkerInv, RepliesFine, Goto
<1>3. Worded' BY DEF WorkerInv, WorkersOK, Worded, Goto
<1>4. LetIn' BY DEF WorkerInv, WorkersOK, LetIn, Goto
<1>5. QED BY <1>1, <1>2, <1>3, <1>4 DEF WorkerInv

(* one that begins to word a failure,                                       *)
LEMMA FailKeeps ==
  ASSUME WorkerInv, NEW w \in Worker, NEW status \in Reworded,
         pc[w] # "idle", job[w].req.call \in ServiceCall,
         Protected(job[w].req) => job[w].req.key,
         Fail(w, status), UNCHANGED text
  PROVE  WorkerInv'
<1>1. job[w] \in Job BY DEF WorkerInv, WorkersOK
<1>2. /\ [job[w] EXCEPT !.shared = status] \in Job
      /\ [job[w] EXCEPT !.shared = status].shared = status
      /\ [job[w] EXCEPT !.shared = status].req = job[w].req
  BY <1>1 DEF Job
<1>3. job' = [job EXCEPT ![w] = [job[w] EXCEPT !.shared = status]] BY DEF Fail
<1>4. WorkersOK'
  BY <1>2, <1>3 DEF WorkerInv, WorkersOK, Fail, WorkerPc, MessagePc
<1>5. RepliesFine' BY DEF WorkerInv, RepliesFine, Fail
<1>6. Worded' BY <1>3 DEF WorkerInv, WorkersOK, Worded, Fail
<1>7. LetIn' BY <1>2, <1>3 DEF WorkerInv, WorkersOK, LetIn, Fail
<1>8. QED BY <1>4, <1>5, <1>6, <1>7 DEF WorkerInv

(* Muddling touches no local but the mark.                                  *)
LEMMA MuddleKeeps ==
  ASSUME WorkersOK, NEW author, NEW status
  PROVE  /\ Muddle(author, status) \in [Worker -> Job \cup {None}]
         /\ \A v \in Worker :
              LET j == Muddle(author, status)[v] IN
              /\ pc[v] # "idle" => j \in Job /\ j.req = job[v].req
                                   /\ j.shared = job[v].shared /\ j.late = job[v].late
              /\ ~j.muddled /\ v # author /\ pc[v] \in MessagePc => job[v].shared # status
              /\ ~j.muddled => j = job[v]
<1> DEFINE m == Muddle(author, status)
<1>1. ASSUME NEW v \in Worker
      PROVE  LET j == m[v] IN
             /\ j \in Job \cup {None}
             /\ pc[v] # "idle" => j \in Job /\ j.req = job[v].req
                                  /\ j.shared = job[v].shared /\ j.late = job[v].late
             /\ ~j.muddled /\ v # author /\ pc[v] \in MessagePc => job[v].shared # status
             /\ ~j.muddled => j = job[v]
  <2>1. CASE v # author /\ pc[v] \in MessagePc /\ job[v].shared = status
    <3>1. m[v] = [job[v] EXCEPT !.muddled = TRUE] BY <2>1 DEF Muddle
    <3>2. job[v] \in Job BY <2>1 DEF WorkersOK, MessagePc
    <3>3. /\ m[v] \in Job /\ m[v].req = job[v].req
          /\ m[v].shared = job[v].shared /\ m[v].late = job[v].late /\ m[v].muddled
      BY <3>1, <3>2 DEF Job
    <3>4. QED BY <3>3
  <2>2. CASE ~(v # author /\ pc[v] \in MessagePc /\ job[v].shared = status)
    BY <2>2 DEF Muddle, WorkersOK
  <2>3. QED BY <2>1, <2>2
<1>2. QED BY <1>1 DEF Muddle

(* one that words it, whoever else is wording the same error,               *)
LEMMA WordKeeps ==
  ASSUME WorkerInv, TextOK, NEW w \in Worker, Word(w)
  PROVE  WorkerInv'
<1> DEFINE status == job[w].shared
<1>1. pc[w] = "word" BY DEF Word
<1>2. job' = Muddle(w, status) BY DEF Word
<1>3. WorkersOK' BY <1>1, <1>2, MuddleKeeps DEF WorkerInv, WorkersOK, Word, WorkerPc, MessagePc
<1>4. RepliesFine' BY DEF WorkerInv, RepliesFine, Word
<1>5. Worded'
  <2> SUFFICES ASSUME NEW v \in Worker, pc'[v] = "refuse", ~job'[v].muddled
               PROVE  text'[job'[v].shared] = v
    BY DEF Worded
  <2>1. pc[v] \in MessagePc /\ (v # w => pc[v] = "refuse")
    BY <1>1 DEF Word, WorkerInv, WorkersOK, MessagePc
  <2>2. job'[v] = job[v] BY <1>2, MuddleKeeps DEF WorkerInv
  <2>3. CASE v = w
    BY <2>1, <2>2, <2>3 DEF Word, WorkerInv, WorkersOK, TextOK
  <2>4. CASE v # w
    <3>1. job[v].shared # status BY <1>2, <2>1, <2>4, MuddleKeeps DEF WorkerInv
    <3>2. text'[job[v].shared] = text[job[v].shared] BY <3>1 DEF Word
    <3>3. QED BY <2>1, <2>2, <2>4, <3>2 DEF WorkerInv, Worded
  <2>5. QED BY <2>3, <2>4
<1>6. LetIn'
  BY <1>1, <1>2, MuddleKeeps DEF WorkerInv, WorkersOK, LetIn, Word
<1>7. QED BY <1>3, <1>4, <1>5, <1>6 DEF WorkerInv

(* and a failure in the background.                                         *)
LEMMA MurmurKeeps ==
  ASSUME WorkerInv, NEW status, Murmur(status)
  PROVE  WorkerInv'
<1>1. job' = Muddle("background", status) BY DEF Murmur
<1>2. WorkersOK' BY <1>1, MuddleKeeps DEF WorkerInv, WorkersOK, Murmur, MessagePc
<1>3. RepliesFine' BY DEF WorkerInv, RepliesFine, Murmur
<1>4. Worded'
  <2> SUFFICES ASSUME NEW v \in Worker, pc'[v] = "refuse", ~job'[v].muddled
               PROVE  text'[job'[v].shared] = v
    BY DEF Worded
  <2>1. pc[v] = "refuse" /\ pc[v] \in MessagePc BY DEF Murmur, MessagePc
  <2>2. job'[v] = job[v] BY <1>1, MuddleKeeps DEF WorkerInv
  <2>3. v # "background" BY AppWorkerAssumption
  <2>4. job[v].shared # status BY <1>1, <2>1, <2>3, MuddleKeeps DEF WorkerInv
  <2>5. text'[job[v].shared] = text[job[v].shared] BY <2>4 DEF Murmur
  <2>6. QED BY <2>1, <2>2, <2>5 DEF WorkerInv, Worded
<1>5. LetIn' BY <1>1, MuddleKeeps DEF WorkerInv, LetIn, Murmur
<1>6. QED BY <1>2, <1>3, <1>4, <1>5 DEF WorkerInv

(* At the end nobody is at work.                                            *)
LEMMA EndKeeps ==
  ASSUME WorkerInv, NEW how, End(how)
  PROVE  WorkerInv'
<1>1. \A w \in Worker : Fine(w, reply'[w])
  BY FineEmpty DEF WorkerInv, RepliesFine, End
<1>2. reply' \in [Worker -> Reply] BY <1>1 DEF End, Fine
<1>3. WorkersOK' BY <1>2 DEF WorkersOK, End, WorkerPc, MessagePc
<1>4. Worded' /\ LetIn' BY DEF Worded, LetIn, End
<1>5. QED BY <1>1, <1>3, <1>4 DEF WorkerInv, RepliesFine

(* A request that arrives has its locals and no failure yet.                *)
LEMMA ArriveKeeps ==
  ASSUME WorkerInv, NEW w \in Worker, NEW r \in Request, Arrive(w, r)
  PROVE  WorkerInv'
<1> DEFINE j == [req |-> r, shared |-> None, muddled |-> FALSE, late |-> phase = "return"]
<1>1. j \in Job BY DEF Job
<1>2. /\ job' = [job EXCEPT ![w] = j] /\ pc' = [pc EXCEPT ![w] = "route"]
      /\ reply' = [reply EXCEPT ![w] = NoReply]
  BY DEF Arrive
<1> HIDE DEF j
<1>3. NoReply \in Reply /\ Fine(w, NoReply) BY FineEmpty DEF Fine
<1>4. WorkersOK'
  BY <1>1, <1>2, <1>3 DEF WorkerInv, WorkersOK, WorkerPc, MessagePc
<1>5. RepliesFine' BY <1>3 DEF WorkerInv, WorkersOK, RepliesFine, Arrive
<1>6. Worded' /\ LetIn' BY <1>2 DEF WorkerInv, WorkersOK, Worded, LetIn, Arrive
<1>7. QED BY <1>4, <1>5, <1>6 DEF WorkerInv

(* The request of a worker that is not idle.                                *)
LEMMA InProgressType ==
  ASSUME WorkersOK, NEW w \in Worker, pc[w] # "idle"
  PROVE  /\ job[w] \in Job /\ job[w].req \in Request /\ job[w].req \in RequestType
         /\ job[w].req.via \in Server
<1>1. job[w] \in Job BY DEF WorkersOK
<1>2. job[w].req \in Request BY <1>1 DEF Job
<1>3. QED BY <1>1, <1>2, AppRequestAssumption DEF RequestType

(* Routing refuses, answers, or lets in with the key the route asks for.    *)
LEMMA RouteKeeps ==
  ASSUME WorkerInv, NEW w \in Worker, Route(w)
  PROVE  WorkerInv'
<1> DEFINE r == job[w].req
<1>1. pc[w] = "route" /\ UNCHANGED text BY DEF Route
<1>2. /\ r \in RequestType /\ r.via \in {"http", "grpc"}
  BY <1>1, InProgressType DEF WorkerInv, Server
<1>3. CASE Refuse(w, FiberError(404), 404)
  <2>1. Answer(w, Unfound(w, r)) BY <1>3 DEF Refuse, Unfound
  <2>2. QED BY <1>1, <1>2, <2>1, AnswerKeeps, FineOwn
<1>4. CASE RefuseKey(w)
  <2>1. Answer(w, Unkeyed(w, r)) BY <1>4 DEF RefuseKey, Refuse, Unkeyed
  <2>2. QED BY <1>1, <1>2, <2>1, AnswerKeeps, FineOwn
<1>5. CASE \E status \in {200, 204} : Answer(w, Success(r, status))
  BY <1>1, <1>2, <1>5, AnswerKeeps, FineSuccess
<1>6. CASE /\ Entered(r) /\ r.call \in ServiceCall
           /\ \/ HasBody(r) /\ Fail(w, 400)
              \/ Goto(w, IF r.via = "http" /\ r.call = "getFile" THEN "readTag" ELSE "call")
  <2>1. Protected(r) => r.key BY <1>6 DEF Entered
  <2>2. CASE Fail(w, 400)
    BY <1>1, <1>6, <2>1, <2>2, FailKeeps DEF Reworded
  <2>3. CASE \E label \in {"readTag", "call"} : Goto(w, label)
    BY <1>1, <1>6, <2>1, <2>3, GotoKeeps
  <2>4. QED BY <1>6, <2>2, <2>3
<1>7. CASE Goto(w, "stream") BY <1>1, <1>7, GotoKeeps
<1>8. QED BY <1>3, <1>4, <1>5, <1>6, <1>7 DEF Route

(* A stream that is closed gets no answer of its own.                       *)
LEMMA HangUpKeeps ==
  ASSUME WorkerInv, NEW w \in Worker, HangUp(w)
  PROVE  WorkerInv'
BY AnswerKeeps, FineEmpty DEF HangUp

(* The comparison of tags answers, fails, or goes on.                       *)
LEMMA ReadTagKeeps ==
  ASSUME WorkerInv, NEW w \in Worker, ReadTag(w)
  PROVE  WorkerInv'
<1> DEFINE r == job[w].req
<1>1. pc[w] = "readTag" /\ UNCHANGED text BY DEF ReadTag
<1>2. /\ r \in RequestType /\ r.call \in ServiceCall /\ (Protected(r) => r.key)
  BY <1>1, InProgressType DEF WorkerInv, LetIn
<1>3. CASE \E status \in {404, 500} : Fail(w, status)
  BY <1>1, <1>2, <1>3, FailKeeps DEF Reworded
<1>4. CASE Answer(w, Success(r, 304))
  BY <1>1, <1>2, <1>4, AnswerKeeps, FineSuccess
<1>5. CASE Goto(w, "call") BY <1>1, <1>2, <1>5, GotoKeeps
<1>6. QED BY <1>3, <1>4, <1>5 DEF ReadTag

(* The call succeeds, fails or panics, and each answer is fine.             *)
LEMMA CallKeeps ==
  ASSUME WorkerInv, NEW w \in Worker, Call(w)
  PROVE  WorkerInv'
<1> DEFINE r == job[w].req
<1>1. pc[w] = "call" /\ UNCHANGED text BY DEF Call
<1>2. /\ r \in RequestType /\ r.call \in ServiceCall /\ (Protected(r) => r.key)
      /\ r.call # "devtools"
  BY <1>1, InProgressType DEF WorkerInv, LetIn, ServiceCall
<1>3. CASE Answer(w, Success(r, SuccessStatus(r.call)))
  BY <1>1, <1>2, <1>3, AnswerKeeps, FineSuccess DEF SuccessStatus
<1>4. CASE \E status \in Failures(r.call) : Fail(w, status)
  BY <1>1, <1>2, <1>4, FailKeeps DEF Failures
<1>5. CASE r.via = "http" /\ Refuse(w, OtherError, 500)
  <2>1. Answer(w, Panicked(w, r)) BY <1>5 DEF Refuse, Panicked
  <2>2. QED BY <1>1, <1>2, <1>5, <2>1, AnswerKeeps, FineOwn
<1>6. QED BY <1>3, <1>4, <1>5 DEF Call

(* A worded failure is answered in the words found.                         *)
LEMMA RefuseSharedKeeps ==
  ASSUME WorkerInv, TextOK, NEW w \in Worker, RefuseShared(w)
  PROVE  WorkerInv'
<1> DEFINE r == job[w].req
           status == job[w].shared
<1>1. pc[w] = "refuse" /\ UNCHANGED text BY DEF RefuseShared
<1>2. /\ r \in RequestType /\ r.call # "devtools" /\ status \in Reworded
  BY <1>1, InProgressType DEF WorkerInv, WorkersOK, MessagePc, LetIn, ServiceCall
<1>3. PICK message \in Readable(w) :
        Answer(w, Refusal(r, Shared(status), status, message, ~job[w].muddled))
  BY DEF RefuseShared
<1>4. message \in Message /\ (~job[w].muddled => message = w)
  BY <1>1, <1>2, <1>3 DEF Readable, TextOK, Message, WorkerInv, Worded
<1>5. \A own \in BOOLEAN : (own <=> ~job[w].muddled) =>
        Fine(w, Refusal(r, Shared(status), status, message, own))
  BY <1>2, <1>4, FineShared
<1>6. Fine(w, Refusal(r, Shared(status), status, message, ~job[w].muddled))
  BY <1>5, Zenon
<1>7. QED BY <1>1, <1>3, <1>6, AnswerKeeps
-----------------------------------------------------------------------------
(* The servers and the end.                                                 *)

(* A server is started once, by its own step, and the HTTP server stops     *)
(* last.                                                                    *)
InTurn ==
  /\ phase \in {"load", "dial", "bucket", "queue", "startHttp"} => server["http"] = "off"
  /\ phase \in {"load", "dial", "bucket", "queue", "startHttp", "startGrpc"} =>
       server["grpc"] = "off"
  /\ phase \notin {"drainHttp", "return"} => server["http"] \notin {"stopping", "stopped"}

(* A server that never listened has no requests.                            *)
Heard ==
  \A w \in Worker : pc[w] # "idle" =>
    server[job[w].req.via] \notin {"off", "starting", "refused"}

(* When gRPC is enabled and has stopped it has no requests, and when main   *)
(* returns the only ones are those HTTP took since.                         *)
CutOff ==
  GRPCEnabled(config) =>
    /\ phase \in {"stopHttp", "drainHttp", "return"} =>
         /\ server["grpc"] = "stopped"
         /\ \A w \in Worker : pc[w] # "idle" => job[w].req.via # "grpc"
    /\ phase = "return" => \A w \in Worker : pc[w] # "idle" => job[w].late

Draining == InTurn /\ Heard /\ CutOff

(* Requests that go on are the ones they were.                              *)
Onward ==
  \A v \in Worker : pc'[v] # "idle" =>
    pc[v] # "idle" /\ job'[v].req = job[v].req /\ job'[v].late = job[v].late

(* A step of a request keeps it where the stopping of servers counts it.    *)
LEMMA StepOnward ==
  ASSUME WorkersOK, NEW w \in Worker
  PROVE  /\ \A answer : Answer(w, answer) => Onward
         /\ \A label : pc[w] # "idle" /\ Goto(w, label) => Onward
         /\ \A status : pc[w] # "idle" /\ Fail(w, status) => Onward
<1>1. \A answer : Answer(w, answer) => Onward BY DEF Answer, Onward, WorkersOK
<1>2. \A label : pc[w] # "idle" /\ Goto(w, label) => Onward
  BY DEF Goto, Onward, WorkersOK
<1>3. ASSUME NEW status, pc[w] # "idle", Fail(w, status) PROVE Onward
  <2>1. job[w] \in Job BY <1>3 DEF WorkersOK
  <2>2. /\ [job[w] EXCEPT !.shared = status].req = job[w].req
        /\ [job[w] EXCEPT !.shared = status].late = job[w].late
    BY <2>1 DEF Job
  <2>3. /\ job' = [job EXCEPT ![w] = [job[w] EXCEPT !.shared = status]]
        /\ pc' = [pc EXCEPT ![w] = "word"]
    BY <1>3 DEF Fail
  <2>4. QED BY <1>3, <2>2, <2>3 DEF Onward, WorkersOK
<1>4. QED BY <1>1, <1>2, <1>3

(* No request appears, or changes its server, by a step of a worker.        *)
LEMMA WorkerOnward ==
  ASSUME WorkersOK, NEW w \in Worker, WorkerStep(w)
  PROVE  Onward /\ UNCHANGED <<mainVars, serverVars, requests, events>>
<1>1. ASSUME Route(w) PROVE Onward
  <2>1. pc[w] # "idle" BY <1>1 DEF Route
  <2>2. \/ \E answer : Answer(w, answer)
        \/ \E label : Goto(w, label)
        \/ \E status : Fail(w, status)
    BY <1>1 DEF Route, Refuse, RefuseKey
  <2>3. QED BY <2>1, <2>2, StepOnward
<1>2. ASSUME ReadTag(w) PROVE Onward
  <2>1. pc[w] # "idle" BY <1>2 DEF ReadTag
  <2>2. \/ \E answer : Answer(w, answer)
        \/ \E label : Goto(w, label)
        \/ \E status : Fail(w, status)
    BY <1>2 DEF ReadTag
  <2>3. QED BY <2>1, <2>2, StepOnward
<1>3. ASSUME Call(w) PROVE Onward
  <2>1. pc[w] # "idle" BY <1>3 DEF Call
  <2>2. (\E answer : Answer(w, answer)) \/ (\E status : Fail(w, status))
    BY <1>3 DEF Call, Refuse
  <2>3. QED BY <2>1, <2>2, StepOnward
<1>4. ASSUME Word(w) PROVE Onward
  <2>1. pc[w] # "idle" /\ job' = Muddle(w, job[w].shared)
    BY <1>4 DEF Word
  <2>2. \A v \in Worker : pc'[v] # "idle" => pc[v] # "idle"
    BY <1>4, <2>1 DEF Word, WorkersOK
  <2>3. QED BY <2>1, <2>2, MuddleKeeps DEF Onward
<1>5. ASSUME RefuseShared(w) PROVE Onward
  <2>1. \E answer : Answer(w, answer) BY <1>5 DEF RefuseShared
  <2>2. QED BY <2>1, StepOnward
<1>6. ASSUME HangUp(w) PROVE Onward BY <1>6, StepOnward DEF HangUp
<1>7. UNCHANGED <<mainVars, serverVars, requests, events>>
  BY DEF WorkerStep, Serve, Route, HangUp, ReadTag, Call, Word, RefuseShared, OnlyRequests
<1>8. QED BY <1>1, <1>2, <1>3, <1>4, <1>5, <1>6, <1>7 DEF WorkerStep, Serve

(* So what has been drained stays drained,                                  *)
LEMMA OnwardKeeps ==
  ASSUME Draining, Onward, UNCHANGED <<mainVars, serverVars>>
  PROVE  Draining'
<1>1. config' = config /\ phase' = phase /\ server' = server BY DEF mainVars, serverVars
<1>2. InTurn' BY <1>1 DEF Draining, InTurn
<1>3. Heard' BY <1>1 DEF Draining, Heard, Onward
<1>4. CutOff' BY <1>1 DEF Draining, CutOff, Onward, GRPCEnabled
<1>5. QED BY <1>2, <1>3, <1>4 DEF Draining

(* also when a failure murmurs in the background,                           *)
LEMMA MurmurOnward ==
  ASSUME WorkersOK, NEW status, Murmur(status)
  PROVE  Onward /\ UNCHANGED <<mainVars, serverVars>>
<1>1. job' = Muddle("background", status) /\ pc' = pc BY DEF Murmur
<1>2. Onward BY <1>1, MuddleKeeps DEF Onward
<1>3. QED BY <1>2 DEF Murmur

(* and when a request arrives: at a server that still listens.              *)
LEMMA ArriveDraining ==
  ASSUME WorkersOK, ServersOK, Draining, NEW w \in Worker, NEW r \in Request, Arrive(w, r)
  PROVE  Draining'
<1>1. /\ config' = config /\ phase' = phase /\ server' = server
      /\ server[r.via] = "listening"
  BY DEF Arrive, mainVars, serverVars
<1>2. \A v \in Worker : pc'[v] # "idle" =>
        \/ v # w /\ pc[v] # "idle" /\ job'[v] = job[v]
        \/ v = w /\ job'[v].req = r /\ job'[v].late = (phase = "return")
  BY DEF Arrive, WorkersOK
<1>3. InTurn' BY <1>1 DEF Draining, InTurn
<1>4. Heard' BY <1>1, <1>2 DEF Draining, Heard
<1>5. CutOff' BY <1>1, <1>2 DEF Draining, CutOff, GRPCEnabled
<1>6. QED BY <1>3, <1>4, <1>5 DEF Draining

(* At the end nothing is left to drain.                                     *)
LEMMA EndDraining ==
  ASSUME NEW how \in {"exited", "killed"}, End(how)
  PROVE  Draining' /\ ServersOK' /\ phase' \in Phase /\ text' \in [Reworded -> Author]
<1>1. Draining' BY DEF End, Draining, InTurn, Heard, CutOff, Server
<1>2. ServersOK' BY DEF End, ServersOK, ServerState
<1>3. QED BY <1>1, <1>2 DEF End, Phase, Author

Quiet == UNCHANGED <<workerVars, text>>

(* Main goes on to its next step, the servers being left alone, or one of   *)
(* them being given a new state.                                            *)
LEMMA EnterKeeps ==
  ASSUME ServersOK, WorkersOK, Draining, UNCHANGED config, NEW next \in Phase, Enter(next),
         next \in {"load", "dial", "bucket", "queue", "startHttp"} =>
           phase \in {"load", "dial", "bucket", "queue", "startHttp"},
         next # "startGrpc",
         phase \notin {"drainHttp", "return"},
         next \in {"stopHttp", "drainHttp"} => ~GRPCEnabled(config) \/ phase = "stopHttp",
         next = "return" => ~GRPCEnabled(config) \/ (phase = "stopHttp" /\ InProgress("http") = {})
  PROVE  Quiet /\ Draining' /\ ServersOK' /\ phase' \in Phase
<1>1. /\ Quiet /\ UNCHANGED <<config, server, notify, signal, pc, job>> /\ phase' = next
  BY DEF Enter, Quiet, serverVars, workerVars
<1>2. InTurn' BY <1>1 DEF Draining, InTurn
<1>3. Heard' BY <1>1 DEF Draining, Heard
<1>4. CutOff'
  <2>1. CASE ~GRPCEnabled(config) BY <1>1, <2>1 DEF CutOff, GRPCEnabled
  <2>2. CASE GRPCEnabled(config)
    <3>1. CASE next \notin {"stopHttp", "drainHttp", "return"}
      BY <1>1, <3>1 DEF CutOff, GRPCEnabled
    <3>2. CASE next \in {"stopHttp", "drainHttp"}
      BY <1>1, <2>2, <3>2 DEF Draining, CutOff, GRPCEnabled
    <3>3. CASE next = "return"
      <4>1. phase = "stopHttp" /\ InProgress("http") = {} BY <2>2, <3>3
      <4>2. \A w \in Worker : pc[w] # "idle" => job[w].req.via \in {"http", "grpc"}
        BY InProgressType DEF Server
      <4>3. \A w \in Worker : pc[w] = "idle"
        BY <2>2, <4>1, <4>2 DEF Draining, CutOff, InProgress
      <4>4. server["grpc"] = "stopped" BY <2>2, <4>1 DEF Draining, CutOff
      <4>5. QED BY <1>1, <4>3, <4>4 DEF CutOff
    <3>4. QED BY <3>1, <3>2, <3>3
  <2>3. QED BY <2>1, <2>2
<1>5. QED BY <1>1, <1>2, <1>3, <1>4 DEF Draining, ServersOK

(* A step of the main goroutine that sets a server.                         *)
LEMMA SetKeeps ==
  ASSUME ServersOK, WorkersOK, Draining, UNCHANGED config, NEW next \in Phase,
         NEW s \in Server, NEW state \in ServerState, Set(s, state, next),
         phase # "return" /\ next # "startHttp",
         next = "startGrpc" => s = "http" /\ phase = "startHttp",
         next \in {"load", "dial", "bucket", "queue"} => FALSE,
         state \in {"off", "starting", "refused"} => server[s] = "off",
         s = "http" /\ state \in {"stopping", "stopped"} => next \in {"drainHttp", "return"},
         phase = "drainHttp" => next = "return",
         next = "stopHttp" => s = "grpc" /\ state = "stopped" /\ InProgress("grpc") = {},
         next = "drainHttp" => s = "http" /\ (~GRPCEnabled(config) \/ phase = "stopHttp"),
         next = "return" =>
           s = "http" /\ (~GRPCEnabled(config) \/ (phase = "drainHttp" /\ InProgress("http") = {}))
  PROVE  Quiet /\ Draining' /\ ServersOK' /\ phase' \in Phase
<1>1. /\ Quiet /\ UNCHANGED <<config, notify, signal, pc, job>> /\ phase' = next
      /\ server' = [server EXCEPT ![s] = state]
  BY DEF Set, Quiet, workerVars
<1>2. ServersOK' BY <1>1 DEF ServersOK
<1>3. \A t \in Server : server'[t] = IF t = s THEN state ELSE server[t]
  BY <1>1 DEF ServersOK
<1>4. "http" \in Server /\ "grpc" \in Server /\ (s = "http" \/ s = "grpc") BY DEF Server
<1>5. InTurn' BY <1>1, <1>3, <1>4 DEF Draining, InTurn
<1>6. Heard'
  <2>1. \A w \in Worker : pc[w] # "idle" => job[w].req.via \in Server BY InProgressType
  <2>2. QED BY <1>1, <1>3, <2>1 DEF Draining, Heard
<1>7. CutOff'
  <2>1. CASE ~GRPCEnabled(config) BY <1>1, <2>1 DEF CutOff, GRPCEnabled
  <2>2. CASE GRPCEnabled(config)
    <3>1. CASE next \notin {"stopHttp", "drainHttp", "return"}
      BY <1>1, <3>1 DEF CutOff, GRPCEnabled
    <3>2. CASE next = "stopHttp"
      BY <1>1, <1>3, <1>4, <3>2 DEF CutOff, InProgress
    <3>3. CASE next = "drainHttp"
      BY <1>1, <1>3, <1>4, <2>2, <3>3 DEF Draining, CutOff
    <3>4. CASE next = "return"
      <4>1. /\ server'["grpc"] = "stopped"
            /\ \A w \in Worker : pc[w] # "idle" => job[w].req.via # "grpc"
        BY <1>1, <1>3, <1>4, <2>2, <3>4 DEF Draining, CutOff
      <4>2. \A w \in Worker : pc[w] # "idle" => job[w].req.via # "http"
        BY <2>2, <3>4 DEF InProgress
      <4>3. \A w \in Worker : pc[w] # "idle" => job[w].req.via \in {"http", "grpc"}
        BY InProgressType DEF Server
      <4>4. QED BY <1>1, <4>1, <4>2, <4>3 DEF CutOff
    <3>5. QED BY <3>1, <3>2, <3>3, <3>4
  <2>3. QED BY <2>1, <2>2
<1>8. QED BY <1>1, <1>2, <1>5, <1>6, <1>7 DEF Draining

(* The main goroutine stops one server after the other.                     *)
LEMMA MainKeeps ==
  ASSUME ServersOK, WorkersOK, Draining, MainStep
  PROVE  /\ UNCHANGED <<config, stored, requests, events>>
         /\ \/ \E how \in {"exited", "killed"} : End(how)
            \/ Quiet /\ Draining' /\ ServersOK' /\ phase' \in Phase
<1> DEFINE Goal == \/ \E how \in {"exited", "killed"} : End(how)
                   \/ Quiet /\ Draining' /\ ServersOK' /\ phase' \in Phase
<1> USE DEF Phase, Starting, Stopping
<1>1. UNCHANGED <<config, stored, requests, events>>
  BY DEF MainStep, Load, Dial, OpenBucket, OpenQueue, RunHTTP, RunGRPC, Run, Watch, Wait,
         StopGRPC, DrainGRPC, StopHTTP, DrainHTTP, Return, OnlyMain, Outside
<1>2. "http" \in Server /\ "grpc" \in Server BY DEF Server
<1>3. {"off", "starting", "stopping", "stopped"} \subseteq ServerState BY DEF ServerState
<1>4. CASE Load BY <1>1, <1>4, EnterKeeps DEF Load
<1>5. CASE Dial BY <1>1, <1>5, EnterKeeps DEF Dial
<1>6. CASE OpenBucket BY <1>1, <1>6, EnterKeeps DEF OpenBucket
<1>7. CASE OpenQueue BY <1>1, <1>7, EnterKeeps DEF OpenQueue
<1>8. CASE RunHTTP
  <2>1. server["http"] = "off" BY <1>8 DEF RunHTTP, Draining, InTurn
  <2>2. \E state \in {"off", "starting"} : Set("http", state, "startGrpc")
    BY <1>8 DEF RunHTTP, Run
  <2>3. QED BY <1>1, <1>2, <1>3, <1>8, <2>1, <2>2, SetKeeps DEF RunHTTP
<1>9. CASE RunGRPC
  <2>1. server["grpc"] = "off" BY <1>9 DEF RunGRPC, Draining, InTurn
  <2>2. \E state \in {"off", "starting"} : Set("grpc", state, "watch")
    BY <1>9 DEF RunGRPC, Run
  <2>3. QED BY <1>1, <1>2, <1>3, <1>9, <2>1, <2>2, SetKeeps DEF RunGRPC
<1>10. CASE Watch BY <1>1, <1>10, EnterKeeps DEF Watch
<1>11. CASE Wait BY <1>1, <1>11, EnterKeeps DEF Wait
<1>12. CASE StopGRPC
  <2>1. CASE GRPCEnabled(config)
    <3>1. \E state \in {"stopping", "stopped"} : Set("grpc", state, "drainGrpc")
      BY <1>12, <2>1 DEF StopGRPC
    <3>2. QED BY <1>1, <1>2, <1>3, <1>12, <3>1, SetKeeps DEF StopGRPC
  <2>2. CASE ~GRPCEnabled(config)
    BY <1>1, <1>12, <2>2, EnterKeeps DEF StopGRPC
  <2>3. QED BY <2>1, <2>2
<1>13. CASE DrainGRPC BY <1>1, <1>2, <1>3, <1>13, SetKeeps DEF DrainGRPC
<1>14. CASE StopHTTP
  <2>1. CASE GRPCEnabled(config) /\ server["http"] \in {"listening", "broken"}
    BY <1>1, <1>2, <1>3, <1>14, <2>1, SetKeeps DEF StopHTTP
  <2>2. CASE ~(GRPCEnabled(config) /\ server["http"] \in {"listening", "broken"})
    <3>1. phase = "stopHttp" /\ Enter("return") BY <1>14, <2>2 DEF StopHTTP
    <3>2. server["http"] \in ServerState \ {"stopping", "stopped"}
      BY <1>2, <3>1 DEF Draining, InTurn, ServersOK
    <3>3. GRPCEnabled(config) => InProgress("http") = {}
      BY <2>2, <3>2 DEF InProgress, Draining, Heard, ServerState
    <3>4. QED BY <1>1, <3>1, <3>3, EnterKeeps
  <2>3. QED BY <2>1, <2>2
<1>15. CASE DrainHTTP BY <1>1, <1>2, <1>3, <1>15, SetKeeps DEF DrainHTTP
<1>16. CASE Return BY <1>1, <1>16 DEF Return
<1>17. QED
  BY <1>1, <1>4, <1>5, <1>6, <1>7, <1>8, <1>9, <1>10, <1>11, <1>12, <1>13, <1>14, <1>15,
     <1>16 DEF MainStep

(* A server that begins to listen is not being stopped.                     *)
LEMMA ListenKeeps ==
  ASSUME ServersOK, WorkersOK, Draining, NEW s \in Server, Listen(s) \/ ServerFails(s)
  PROVE  /\ Quiet /\ UNCHANGED <<config, phase, stored, requests>>
         /\ Draining' /\ ServersOK'
<1>1. /\ Quiet /\ UNCHANGED <<config, phase, stored, requests, signal, pc, job>>
      /\ \E told \in BOOLEAN : notify' = [notify EXCEPT ![s] = told]
      /\ \E state \in {"refused", "listening", "broken"} :
           /\ server' = [server EXCEPT ![s] = state]
           /\ server[s] \in {"starting", "listening"}
           /\ state = "refused" => server[s] = "starting"
  BY Zenon DEF Listen, ServerFails, Refused, Broken, OnlyServers, Outside, Quiet, workerVars, PortTaken
<1>2. PICK state \in {"refused", "listening", "broken"} :
        /\ server' = [server EXCEPT ![s] = state]
        /\ server[s] \in {"starting", "listening"}
        /\ state = "refused" => server[s] = "starting"
  BY <1>1
<1>3. ServersOK'
  <2>1. state \in ServerState BY DEF ServerState
  <2>2. server' \in [Server -> ServerState] BY <1>2, <2>1 DEF ServersOK
  <2>3. notify' \in [Server -> BOOLEAN] BY <1>1 DEF ServersOK
  <2>4. QED BY <1>1, <2>2, <2>3 DEF ServersOK
<1>4. \A t \in Server : server'[t] = IF t = s THEN state ELSE server[t]
  BY <1>2 DEF ServersOK
<1>5. "http" \in Server /\ "grpc" \in Server BY DEF Server
<1>6. InTurn' BY <1>1, <1>2, <1>4, <1>5 DEF Draining, InTurn
<1>7. \A w \in Worker : pc[w] # "idle" => job[w].req.via \in Server BY InProgressType
<1>8. Heard' BY <1>1, <1>2, <1>4, <1>7 DEF Draining, Heard
<1>9. CutOff' BY <1>1, <1>2, <1>4, <1>5 DEF Draining, CutOff, GRPCEnabled
<1>10. QED BY <1>1, <1>3, <1>6, <1>8, <1>9 DEF Draining
-----------------------------------------------------------------------------
(* The inductive invariant, and what it gives.                              *)

AppInv == TypeOK /\ WorkerInv /\ Draining

(* The process starts with no server, no request and no failure.            *)
LEMMA InitAppInv == Init => AppInv
<1> SUFFICES ASSUME Init PROVE AppInv OBVIOUS
<1>1. MainOK BY SetupAssumption DEF Init, MainOK, Phase, Starting
<1>2. ServersOK /\ StoredOK
  BY FoundAssumption DEF Init, ServersOK, StoredOK, ServerState
<1>3. \A w \in Worker : Fine(w, reply[w]) /\ reply[w] \in Reply
  BY FineEmpty DEF Init, Fine
<1>4. WorkersOK BY <1>3 DEF Init, WorkersOK, WorkerPc, MessagePc
<1>5. TextOK BY AppBoundsAssumption DEF Init, TextOK, Author
<1>6. Worded /\ LetIn BY DEF Init, Worded, LetIn
<1>7. Draining BY DEF Init, Draining, InTurn, Heard, CutOff, Server
<1>8. QED BY <1>1, <1>2, <1>3, <1>4, <1>5, <1>6, <1>7
          DEF AppInv, TypeOK, WorkerInv, RepliesFine

(* Steps that leave servers and requests alone.                             *)
LEMMA QuietKeeps ==
  ASSUME WorkerInv, Quiet
  PROVE  WorkerInv'
<1>1. pc' = pc /\ job' = job /\ reply' = reply /\ text' = text
  BY DEF Quiet, workerVars
<1>2. WorkersOK' BY <1>1 DEF WorkerInv, WorkersOK
<1>3. RepliesFine' BY <1>1 DEF WorkerInv, RepliesFine
<1>4. Worded' /\ LetIn' BY <1>1 DEF WorkerInv, Worded, LetIn
<1>5. QED BY <1>2, <1>3, <1>4 DEF WorkerInv

(* What a call leaves is one of the states a file can be in.                *)
LEMMA StoredKept ==
  ASSUME StoredOK, NEW w \in Worker, WorkerStep(w)
  PROVE  StoredOK'
BY DEF StoredOK, WorkerStep, Serve, Route, HangUp, ReadTag, Call, Word, RefuseShared, Leaves,
       LeavesFailing, Stored

(* The shared errors and the counters keep their types.                     *)
LEMMA TextKept ==
  ASSUME TextOK, WorkersOK, NEW w \in Worker, WorkerStep(w)
  PROVE  TextOK'
<1>1. requests' = requests /\ events' = events BY WorkerOnward
<1>2. CASE text' = text BY <1>1, <1>2 DEF TextOK
<1>3. CASE Word(w) BY <1>1, <1>3 DEF TextOK, Word, Author
<1>4. QED
  BY <1>2, <1>3 DEF WorkerStep, Serve, Route, HangUp, ReadTag, Call, RefuseShared

(* The invariant is inductive.                                              *)
LEMMA NextAppInv == AppInv /\ [Next]_vars => AppInv'
<1> SUFFICES ASSUME AppInv, [Next]_vars PROVE AppInv'
  OBVIOUS
<1>1. /\ MainOK /\ ServersOK /\ StoredOK /\ WorkersOK /\ TextOK
      /\ WorkerInv /\ Draining
  BY DEF AppInv, TypeOK
<1> DEFINE Others == MainOK' /\ ServersOK' /\ StoredOK' /\ TextOK' /\ Draining'
<1>2. WorkersOK' /\ WorkerInv' /\ Others => AppInv' BY DEF AppInv, TypeOK
<1>3. WorkerInv' => WorkersOK' BY DEF WorkerInv
<1>4. ASSUME NEW how \in {"exited", "killed"}, End(how),
             UNCHANGED <<config, stored, requests>>, events' \in 0..MaxEvents
      PROVE  AppInv'
  <2>1. WorkerInv' BY <1>1, <1>4, EndKeeps
  <2>2. Draining' /\ ServersOK' /\ phase' \in Phase /\ text' \in [Reworded -> Author]
    BY <1>4, EndDraining
  <2>3. MainOK' /\ StoredOK' /\ TextOK'
    BY <1>1, <1>4, <2>2 DEF MainOK, StoredOK, TextOK
  <2>4. QED BY <1>2, <1>3, <2>1, <2>2, <2>3
<1>5. CASE MainStep
  <2>1. UNCHANGED <<config, stored, requests, events>> BY <1>1, <1>5, MainKeeps
  <2>2. CASE \E how \in {"exited", "killed"} : End(how)
    BY <1>1, <1>4, <2>1, <2>2 DEF TextOK
  <2>3. CASE Quiet /\ Draining' /\ ServersOK' /\ phase' \in Phase
    <3>1. WorkerInv' BY <1>1, <2>3, QuietKeeps
    <3>2. MainOK' /\ StoredOK' /\ TextOK'
      BY <1>1, <2>1, <2>3 DEF MainOK, StoredOK, TextOK, Quiet
    <3>3. QED BY <1>2, <1>3, <2>3, <3>1, <3>2
  <2>4. QED BY <1>1, <1>5, <2>2, <2>3, MainKeeps
<1>6. CASE Signal
  <2>1. UNCHANGED <<config, stored, requests>> /\ events' \in 0..MaxEvents
    BY <1>1, <1>6, AppBoundsAssumption DEF Signal, Outside, TextOK
  <2>2. CASE End("killed") BY <1>4, <2>1, <2>2
  <2>3. CASE signal' = TRUE /\ UNCHANGED <<phase, server, notify, workerVars, text>>
    <3>1. /\ Quiet /\ UNCHANGED <<config, phase, server, notify, pc, job>>
          /\ signal' \in BOOLEAN
      BY <2>1, <2>3 DEF Quiet, workerVars
    <3>2. WorkerInv' BY <1>1, <3>1, QuietKeeps
    <3>3. ServersOK' BY <1>1, <3>1 DEF ServersOK
    <3>4. MainOK' /\ StoredOK' /\ TextOK'
      BY <1>1, <2>1, <3>1 DEF MainOK, StoredOK, TextOK, Quiet
    <3>5. Draining'
      BY <1>1, <3>1 DEF Draining, InTurn, Heard, CutOff, GRPCEnabled
    <3>6. QED BY <1>2, <1>3, <3>2, <3>3, <3>4, <3>5
  <2>4. QED BY <1>6, <2>2, <2>3 DEF Signal
<1>7. CASE Expire
  <2>1. /\ Quiet /\ UNCHANGED <<mainVars, serverVars, requests, events>>
        /\ stored' = "none"
    BY <1>7 DEF Expire, Quiet, OnlyRequests
  <2>2. WorkerInv' BY <1>1, <2>1, QuietKeeps
  <2>3. MainOK' /\ StoredOK' /\ TextOK' /\ ServersOK'
    BY <1>1, <2>1 DEF MainOK, StoredOK, TextOK, ServersOK, Quiet, mainVars, serverVars, Stored
  <2>4. Onward BY <2>1 DEF Quiet, workerVars, Onward
  <2>5. Draining' BY <1>1, <2>1, <2>4, OnwardKeeps
  <2>6. QED BY <1>2, <1>3, <2>2, <2>3, <2>5
<1>8. ASSUME NEW s \in Server, Listen(s) \/ ServerFails(s) PROVE AppInv'
  <2>1. /\ Quiet /\ UNCHANGED <<config, phase, stored, requests>>
        /\ Draining' /\ ServersOK'
    BY <1>1, <1>8, ListenKeeps
  <2>2. events' \in 0..MaxEvents
    BY <1>1, <1>8, AppBoundsAssumption DEF Listen, ServerFails, TextOK
  <2>3. WorkerInv' BY <1>1, <2>1, QuietKeeps
  <2>4. MainOK' /\ StoredOK' /\ TextOK'
    BY <1>1, <2>1, <2>2 DEF MainOK, StoredOK, TextOK, Quiet
  <2>5. QED BY <1>2, <1>3, <2>1, <2>3, <2>4
<1>9. ASSUME NEW w \in Worker, WorkerStep(w) PROVE AppInv'
  <2>1. WorkerInv'
    BY <1>1, <1>9, RouteKeeps, HangUpKeeps, ReadTagKeeps, CallKeeps, WordKeeps,
       RefuseSharedKeeps
    DEF WorkerStep, Serve
  <2>2. Onward /\ UNCHANGED <<mainVars, serverVars, requests, events>>
    BY <1>1, <1>9, WorkerOnward
  <2>3. Draining' BY <1>1, <2>2, OnwardKeeps
  <2>4. StoredOK' /\ TextOK' BY <1>1, <1>9, StoredKept, TextKept
  <2>5. MainOK' /\ ServersOK'
    BY <1>1, <2>2 DEF MainOK, ServersOK, mainVars, serverVars
  <2>6. QED BY <1>2, <1>3, <2>1, <2>3, <2>4, <2>5
<1>10. ASSUME NEW w \in Worker, PanicGRPC(w) PROVE AppInv'
  BY <1>1, <1>4, <1>10 DEF PanicGRPC, OnlyMain, Outside, TextOK
<1>11. ASSUME NEW w \in Worker, NEW r \in Request, Arrive(w, r) PROVE AppInv'
  <2>1. WorkerInv' BY <1>1, <1>11, ArriveKeeps
  <2>2. Draining' BY <1>1, <1>11, ArriveDraining
  <2>3. UNCHANGED <<mainVars, serverVars, stored, text>>
    BY <1>11 DEF Arrive
  <2>4. requests' \in 0..MaxRequests /\ events' \in 0..MaxEvents
    BY <1>1, <1>11, AppBoundsAssumption DEF Arrive, TextOK
  <2>5. MainOK' /\ StoredOK' /\ TextOK' /\ ServersOK'
    BY <1>1, <2>3, <2>4 DEF MainOK, StoredOK, TextOK, ServersOK, mainVars, serverVars
  <2>6. QED BY <1>2, <1>3, <2>1, <2>2, <2>5
<1>12. ASSUME NEW status \in {404, 500}, Murmur(status) PROVE AppInv'
  <2>1. WorkerInv' BY <1>1, <1>12, MurmurKeeps
  <2>2. Onward /\ UNCHANGED <<mainVars, serverVars>> BY <1>1, <1>12, MurmurOnward
  <2>3. Draining' BY <1>1, <2>2, OnwardKeeps
  <2>4. UNCHANGED <<stored, requests>> BY <1>12 DEF Murmur
  <2>5. TextOK'
    <3>1. /\ events < MaxEvents /\ events' = events + 1 /\ requests' = requests
          /\ text' = [text EXCEPT ![status] = "background"]
      BY <1>12 DEF Murmur
    <3>2. text' \in [Reworded -> Author] BY <1>1, <3>1 DEF TextOK, Author
    <3>3. events' \in 0..MaxEvents /\ requests' \in 0..MaxRequests
      BY <1>1, <3>1, AppBoundsAssumption DEF TextOK
    <3>4. QED BY <3>2, <3>3 DEF TextOK
  <2>6. MainOK' /\ StoredOK' /\ ServersOK'
    BY <1>1, <2>2, <2>4 DEF MainOK, StoredOK, ServersOK, mainVars, serverVars
  <2>7. QED BY <1>2, <1>3, <2>1, <2>3, <2>5, <2>6
<1>13. CASE UNCHANGED vars
  <2>1. Quiet /\ UNCHANGED <<mainVars, serverVars, stored, requests, events>>
    BY <1>13 DEF vars, Quiet
  <2>2. WorkerInv' BY <1>1, <2>1, QuietKeeps
  <2>3. Onward BY <2>1 DEF Quiet, workerVars, Onward
  <2>4. Draining' BY <1>1, <2>1, <2>3, OnwardKeeps
  <2>5. MainOK' /\ StoredOK' /\ TextOK' /\ ServersOK'
    BY <1>1, <2>1 DEF MainOK, StoredOK, TextOK, ServersOK, mainVars, serverVars, Quiet
  <2>6. QED BY <1>2, <1>3, <2>2, <2>4, <2>5
<1>14. QED
  BY <1>5, <1>6, <1>7, <1>8, <1>9, <1>10, <1>11, <1>12, <1>13 DEF Next

(* So it holds in every state of the application.                           *)
LEMMA AlwaysAppInv == Spec => []AppInv
BY InitAppInv, NextAppInv, PTL DEF Spec

(* Every variable keeps its type, in every step of the application.         *)
THEOREM AppTyped == Spec => []TypeOK
BY AlwaysAppInv, PTL DEF AppInv

(* A failure is answered in its own words unless another request words the  *)
(* same shared error meanwhile.                                             *)
THEOREM FailuresOwn == Spec => []MessageOwn
<1>1. AppInv => MessageOwn
  BY DEF AppInv, WorkerInv, RepliesFine, Fine, MessageOwn
<1>2. QED BY <1>1, AlwaysAppInv, PTL

(* Neither transport blames the client for the server, or the server for    *)
(* the client.                                                              *)
THEOREM BlameAlwaysKept == Spec => []BlameKept
<1>1. AppInv => BlameKept
  BY DEF AppInv, WorkerInv, RepliesFine, Fine, BlameKept
<1>2. QED BY <1>1, AlwaysAppInv, PTL

(* With gRPC enabled an orderly end cuts off no request but a late one.     *)
THEOREM AlwaysDrained == Spec => Drained
<1>1. AppInv /\ [Next]_vars =>
        (phase = "return" /\ phase' = "exited" /\ GRPCEnabled(config) =>
           \A w \in Worker : pc[w] # "idle" => job[w].req.via = "http" /\ job[w].late)
  <2> SUFFICES ASSUME AppInv, phase = "return", GRPCEnabled(config),
                      NEW w \in Worker, pc[w] # "idle"
               PROVE  job[w].req.via = "http" /\ job[w].late
    OBVIOUS
  <2>1. job[w].req.via # "grpc" /\ job[w].late BY DEF AppInv, Draining, CutOff
  <2>2. job[w].req.via \in {"http", "grpc"}
    BY InProgressType DEF AppInv, TypeOK, Server
  <2>3. QED BY <2>1, <2>2
<1>2. QED BY <1>1, AlwaysAppInv, PTL DEF Spec, Drained

(* Without the key nothing is deleted, renamed or replaced: a step that     *)
(* changes the file adds it, is the consumer's deletion, or is a call that  *)
(* came with the key.                                                       *)
THEOREM ChangesAuthorized == Spec => AuthorizedChanges
<1> DEFINE Allowed ==
      stored' # stored =>
        \/ stored = "none" /\ stored' \in {"expiring", "bare"}
        \/ stored' = "none" /\ UNCHANGED pc
        \/ \E w \in Worker : pc[w] = "call" /\ pc'[w] # "call" /\ job[w].req.key
<1>1. AppInv /\ [Next]_vars => Allowed
  <2> SUFFICES ASSUME AppInv, [Next]_vars, stored' # stored PROVE Allowed OBVIOUS
  <2>1. /\ MainOK /\ ServersOK /\ StoredOK /\ WorkersOK /\ TextOK
        /\ WorkerInv /\ Draining
    BY DEF AppInv, TypeOK
  <2>2. CASE Expire BY <2>2 DEF Expire, workerVars
  <2>3. ASSUME NEW w \in Worker, Call(w) PROVE Allowed
    <3>1. pc[w] = "call" BY <2>3 DEF Call
    <3>2. pc'[w] # "call"
      BY <2>1, <2>3 DEF Call, WorkersOK, Answer, Fail, Refuse
    <3>3. job[w].req.call \in ServiceCall /\ (Protected(job[w].req) => job[w].req.key)
      BY <2>1, <3>1, InProgressType DEF WorkerInv, LetIn
    <3>4. CASE job[w].req.key BY <3>1, <3>2, <3>4
    <3>5. CASE ~job[w].req.key
      <4>1. job[w].req.call \notin {"getFiles", "upload", "rename", "delete"}
        BY <3>3, <3>5 DEF Protected
      <4>2. \/ stored' \in Leaves(job[w].req) \/ stored' \in LeavesFailing(job[w].req)
            \/ stored' = stored
        BY <2>3 DEF Call
      <4>3. stored = "none" /\ stored' \in {"expiring", "bare"}
        BY <4>1, <4>2 DEF Leaves, LeavesFailing
      <4>4. QED BY <4>3
    <3>6. QED BY <3>4, <3>5
  <2>4. ASSUME NEW w \in Worker, WorkerStep(w), ~Call(w) PROVE FALSE
    BY <2>4 DEF WorkerStep, Serve, Route, HangUp, ReadTag, Word, RefuseShared
  <2>5. CASE MainStep BY <2>1, <2>5, MainKeeps
  <2>6. CASE Signal BY <2>6 DEF Signal, Outside
  <2>7. ASSUME NEW s \in Server, Listen(s) \/ ServerFails(s) PROVE FALSE
    BY <2>1, <2>7, ListenKeeps
  <2>8. ASSUME NEW w \in Worker, PanicGRPC(w) PROVE FALSE
    BY <2>8 DEF PanicGRPC, OnlyMain, Outside
  <2>9. ASSUME NEW w \in Worker, NEW r \in Request, Arrive(w, r) PROVE FALSE
    BY <2>9 DEF Arrive
  <2>10. ASSUME NEW status \in {404, 500}, Murmur(status) PROVE FALSE
    BY <2>10 DEF Murmur
  <2>11. CASE UNCHANGED vars BY <2>11 DEF vars
  <2>12. QED
    BY <2>2, <2>3, <2>4, <2>5, <2>6, <2>7, <2>8, <2>9, <2>10, <2>11 DEF Next
<1>2. QED BY <1>1, AlwaysAppInv, PTL DEF Spec, AuthorizedChanges
=============================================================================
