----------------------------- MODULE Application -----------------------------
(***************************************************************************)
(* App.Run and the two transports: the start of the process, the servers,   *)
(* what a request meets between a server and the service, the answer it     *)
(* gets, and the way the process ends.                                      *)
(*                                                                         *)
(* The service is seen from outside: a call succeeds or fails in one of the *)
(* ways FileHosting and CachedHosting have for it, and changes the one file *)
(* kept here, of which only its being there, with a deadline, for ever or   *)
(* without metadata, matters.  What the steps below are about is the rest:  *)
(* who is let in, in which words a failure is answered, what stopping the   *)
(* servers cuts off, and what a client that holds on can keep from ending.  *)
(***************************************************************************)
EXTENDS Configuration, AccessLog

CONSTANTS
  None,
  Worker,        \* requests that can be in progress at once
  Setup,         \* what config.yaml and the environment may hold
  Found,         \* what the storage may hold at the start
  Request,       \* the requests clients may send
  MaxRequests,   \* bound on the number of requests
  MaxEvents      \* bound on what else happens to the process: a signal, a broken
                 \* server, a port taken, a failure nobody is told, and requests

Server == {"http", "grpc"}

ServiceCall == {"getFile", "getMetadata", "getFiles", "upload", "generate",
                "rename", "delete"}
(* Routes that call no service; "devtools" is a path nothing answers and    *)
(* the log ignores, "reflection" the stream in which the gRPC server        *)
(* describes itself.                                                        *)
OtherRoute == {"health", "page", "unknown", "devtools", "reflection"}

(* key: the right API key comes with the request; forever: the duration     *)
(* asked for is "-1".                                                       *)
RequestType == [via : Server, call : ServiceCall \cup OtherRoute, key : BOOLEAN,
                forever : BOOLEAN]

(* "bare" is content without metadata, which no service call describes.     *)
Stored == {"none", "expiring", "forever", "bare"}

ASSUME SetupAssumption == \A given \in Setup : newConfig(given) \in Config
ASSUME FoundAssumption == Found \subseteq Stored
ASSUME AppRequestAssumption ==
  /\ Request \subseteq RequestType
  /\ \A r \in Request :
       IF r.via = "grpc" THEN r.call \in (ServiceCall \ {"generate"}) \cup {"reflection"}
       ELSE r.call # "reflection"
ASSUME AppWorkerAssumption == Worker \cap {"standard", "background", "torn"} = {}
ASSUME AppBoundsAssumption == MaxRequests \in Nat /\ MaxEvents \in Nat
ASSUME AppNoneAssumption == None \notin RequestType /\ None \notin SharedStatus

(* The shared error values a message is ever given to.                      *)
Reworded == {400, 404, 409, 500}

(* Who has worded a message: fiber, a request, or someone not answering.  A *)
(* message is a Go string, two words that are written and read without a    *)
(* lock, so a reader may also get a word each of two messages: "torn".      *)
Author == Worker \cup {"standard", "background"}
Message == Author \cup {"torn"}

VARIABLES
  config, phase,          \* of the main goroutine
  server, notify, signal, \* the servers, their channels, the signal's
  stored,                 \* the file, a member of Stored
  pc, job, reply,         \* of each worker: next step, locals, last answer
  text,                   \* who worded each of the shared errors last
  requests, events        \* counters for the bounds

mainVars == <<config, phase>>
serverVars == <<server, notify, signal>>
workerVars == <<pc, job, reply>>
vars == <<mainVars, serverVars, stored, workerVars, text, requests, events>>

Ended == phase \in {"exited", "killed"}
Starting == {"load", "dial", "bucket", "queue", "startHttp", "startGrpc", "watch"}
Stopping == {"stopGrpc", "drainGrpc", "stopHttp", "drainHttp", "return"}
Phase == Starting \cup {"wait"} \cup Stopping \cup {"exited", "killed"}

ServerState == {"off", "starting", "refused", "listening", "broken", "stopping", "stopped"}

MessagePc == {"word", "refuse"}
(* "route" begins with the request's first byte, and "stream" is the stream *)
(* a client holds open.                                                     *)
WorkerPc == {"idle", "route", "stream", "readTag", "call"} \cup MessagePc

(* shared is the status of the shared error a failing request is wording,   *)
(* muddled that somebody else has worded it meanwhile, late that the        *)
(* request came when the main goroutine was done with the servers.          *)
Job == [req : Request, shared : Reworded \cup {None}, muddled : BOOLEAN,
        late : BOOLEAN]

(* status is what HTTP answers (0 over gRPC), code what gRPC answers ("OK"  *)
(* over HTTP), cause the status the failure had where it arose (0 for       *)
(* none); own tells that nobody else was wording the same error, lost that  *)
(* the end of the process cut the request off.                              *)
Reply == [status : HTTPStatus \cup {0}, code : GRPCCode, cause : HTTPStatus \cup {0},
          message : Message, own : BOOLEAN, level : Level \cup {NotLogged},
          lost : BOOLEAN]

ReplyOf(status, code, cause, message, own, level) ==
  [status |-> status, code |-> code, cause |-> cause, message |-> message,
   own |-> own, level |-> level, lost |-> FALSE]

NoReply == ReplyOf(0, "OK", 0, "standard", FALSE, NotLogged)

MainOK == config \in Config /\ phase \in Phase

ServersOK ==
  /\ server \in [Server -> ServerState]
  /\ notify \in [Server -> BOOLEAN]
  /\ signal \in BOOLEAN

StoredOK == stored \in Stored

(* A request that words a failure has its locals, and the error.            *)
WorkersOK ==
  /\ pc \in [Worker -> WorkerPc]
  /\ job \in [Worker -> Job \cup {None}]
  /\ reply \in [Worker -> Reply]
  /\ \A w \in Worker : pc[w] # "idle" => job[w] \in Job
  /\ \A w \in Worker : pc[w] \in MessagePc => job[w].shared \in Reworded

TextOK ==
  /\ text \in [Reworded -> Author]
  /\ requests \in 0..MaxRequests /\ events \in 0..MaxEvents

TypeOK == MainOK /\ ServersOK /\ StoredOK /\ WorkersOK /\ TextOK

Init ==
  /\ config \in {newConfig(given) : given \in Setup}
  /\ phase = "load"
  /\ server = [s \in Server |-> "off"] /\ notify = [s \in Server |-> FALSE]
  /\ signal = FALSE
  /\ stored \in Found
  /\ pc = [w \in Worker |-> "idle"] /\ job = [w \in Worker |-> None]
  /\ reply = [w \in Worker |-> NoReply]
  /\ text = [s \in Reworded |-> "standard"]
  /\ requests = 0 /\ events = 0
-----------------------------------------------------------------------------
(* The main goroutine.                                                      *)

Enabled(s) == IF s = "http" THEN HTTPEnabled(config) ELSE GRPCEnabled(config)
Port(s) == config.number[IF s = "http" THEN "http.port" ELSE "grpc.port"]

(* Both servers are to listen on the same port.                             *)
Clash == (\A s \in Server : Enabled(s)) /\ Port("http") = Port("grpc") /\ Port("http") # 0

InProgress(via) == {w \in Worker : pc[w] # "idle" /\ job[w].req.via = via}

(* The end of the process: requests in progress get no answer, and of what  *)
(* was in memory nothing is left.                                           *)
End(how) ==
  /\ phase' = how
  /\ server' = [s \in Server |-> "off"] /\ notify' = [s \in Server |-> FALSE]
  /\ signal' = FALSE
  /\ pc' = [w \in Worker |-> "idle"] /\ job' = [w \in Worker |-> None]
  /\ reply' = [w \in Worker |-> IF pc[w] = "idle" THEN reply[w]
                                ELSE [NoReply EXCEPT !.lost = TRUE]]
  /\ text' = [s \in Reworded |-> "standard"]

Outside == UNCHANGED <<config, stored, requests>>
OnlyMain == Outside /\ UNCHANGED events
OnlyServers == Outside /\ UNCHANGED <<phase, workerVars, text>>

Enter(next) == phase' = next /\ UNCHANGED <<serverVars, workerVars, text>>

Set(s, state, next) ==
  /\ server' = [server EXCEPT ![s] = state]
  /\ phase' = next
  /\ UNCHANGED <<notify, signal, workerVars, text>>

(* A configuration that is invalid, or cannot be read, is fatal.            *)
Load ==
  /\ phase = "load"
  /\ (Validate(config) /\ Enter("dial")) \/ End("killed")
  /\ OnlyMain

Dial ==
  /\ phase = "dial"
  /\ Enter("bucket") \/ End("killed")
  /\ OnlyMain

(* The bucket is made ready also when the files are kept locally.           *)
OpenBucket ==
  /\ phase = "bucket"
  /\ \/ config.text["s3.endpoint"] /\ config.text["s3.bucket"] /\ Enter("queue")
     \/ End("killed")
  /\ OnlyMain

(* The directory of local files, and the queue; that Consume may fail is    *)
(* not noticed.                                                             *)
OpenQueue ==
  /\ phase = "queue"
  /\ Enter("startHttp") \/ End("killed")
  /\ OnlyMain

Run(s, next) == Set(s, IF Enabled(s) THEN "starting" ELSE "off", next) /\ OnlyMain

RunHTTP == phase = "startHttp" /\ Run("http", "startGrpc")
RunGRPC == phase = "startGrpc" /\ Run("grpc", "watch")

(* signal.Notify                                                            *)
Watch == phase = "watch" /\ Enter("wait") /\ OnlyMain

Wait_HTTPOnly ==
  /\ phase = "wait"
  /\ signal \/ notify["http"]
  /\ Enter("stopGrpc") /\ OnlyMain

Wait ==
  /\ phase = "wait"
  /\ signal \/ \E s \in Server : notify[s]
  /\ Enter("stopGrpc") /\ OnlyMain

(* GracefulStop takes no more requests and waits for those in progress; a   *)
(* server that has not begun to serve will not.                             *)
StopGRPC ==
  /\ phase = "stopGrpc"
  /\ IF GRPCEnabled(config)
     THEN Set("grpc", IF server["grpc"] \in {"listening", "broken"} THEN "stopping"
                      ELSE "stopped", "drainGrpc")
     ELSE Enter("stopHttp")
  /\ OnlyMain

DrainGRPC_Impatient ==
  phase = "drainGrpc" /\ Set("grpc", "stopped", "stopHttp") /\ OnlyMain

DrainGRPC ==
  /\ phase = "drainGrpc"
  /\ InProgress("grpc") = {}
  /\ Set("grpc", "stopped", "stopHttp") /\ OnlyMain

(* Whether the HTTP server is shut down depends on the switch of gRPC.  One *)
(* that does not listen yet is left alone, and may listen a moment later.   *)
StopHTTP ==
  /\ phase = "stopHttp"
  /\ IF GRPCEnabled(config) /\ server["http"] \in {"listening", "broken"}
     THEN Set("http", "stopping", "drainHttp")
     ELSE Enter("return")
  /\ OnlyMain

DrainHTTP ==
  /\ phase = "drainHttp"
  /\ InProgress("http") = {}
  /\ Set("http", "stopped", "return") /\ OnlyMain

(* main returns, and every other goroutine is gone.                         *)
Return == phase = "return" /\ End("exited") /\ OnlyMain

MainStep ==
  \/ Load \/ Dial \/ OpenBucket \/ OpenQueue \/ RunHTTP \/ RunGRPC \/ Watch \/ Wait
  \/ StopGRPC \/ DrainGRPC \/ StopHTTP \/ DrainHTTP \/ Return

(* SIGTERM or an interrupt kills the process that does not watch for it,    *)
(* and is put aside by the one that does; only Wait looks at it.            *)
Signal ==
  /\ ~Ended /\ ~signal /\ events < MaxEvents
  /\ events' = events + 1
  /\ IF phase \in Starting THEN End("killed")
     ELSE signal' = TRUE /\ UNCHANGED <<phase, server, notify, workerVars, text>>
  /\ Outside
-----------------------------------------------------------------------------
(* The goroutines that listen.                                              *)

(* The gRPC server closes its listener when it breaks, fasthttp does not.   *)
Bound(s) == server[s] = "listening" \/ (s = "http" /\ server[s] = "broken")

PortTaken(s) == \E t \in Server \ {s} : Bound(t) /\ Port(t) = Port(s) /\ Port(s) # 0

Listen_Silent(s) ==
  /\ ~Ended /\ server[s] = "starting"
  /\ server' = [server EXCEPT ![s] = IF PortTaken(s) THEN "refused" ELSE "listening"]
  /\ UNCHANGED <<notify, signal>> /\ OnlyServers /\ UNCHANGED events

Listen(s) ==
  /\ ~Ended /\ server[s] = "starting"
  /\ server' = [server EXCEPT ![s] = IF PortTaken(s) THEN "refused" ELSE "listening"]
  /\ notify' = [notify EXCEPT ![s] = PortTaken(s)]
  /\ UNCHANGED signal /\ OnlyServers /\ UNCHANGED events

(* Another process has the port.                                            *)
Refused(s) == server[s] = "starting" /\ server' = [server EXCEPT ![s] = "refused"]

(* Serve returns an error: no new connections, the old ones go on.          *)
Broken(s) == server[s] = "listening" /\ server' = [server EXCEPT ![s] = "broken"]

ServerFails(s) ==
  /\ ~Ended /\ events < MaxEvents
  /\ Refused(s) \/ Broken(s)
  /\ notify' = [notify EXCEPT ![s] = TRUE]
  /\ events' = events + 1
  /\ UNCHANGED signal /\ OnlyServers
-----------------------------------------------------------------------------
(* A request: routing and authorization.                                    *)

OnlyRequests == UNCHANGED <<mainVars, serverVars, requests, events>>

(* The one filter that is installed: HTTP does not log this path.           *)
Passes(r) == FiberPathFilter(FALSE, "is", {"devtools"}, r.call)

(* How a failure is answered and logged.  The error handler of the HTTP     *)
(* server takes any error, a gRPC handler makes it a gRPC status.           *)
Refusal(r, err, cause, message, own) ==
  IF r.via = "http"
  THEN ReplyOf(ErrorStatus(err), "OK", cause, message, own,
               HTTPLevel(Passes(r), ErrorStatus(err)))
  ELSE ReplyOf(0, ToGRPCError(err).code, cause, message, own,
               GRPCLevel(Passes(r), ToGRPCError(err).code))

Success(r, status) ==
  IF r.via = "http"
  THEN ReplyOf(status, "OK", 0, "standard", FALSE, HTTPLevel(Passes(r), status))
  ELSE ReplyOf(0, "OK", 0, "standard", FALSE, GRPCLevel(Passes(r), "OK"))

Answer(w, answer) ==
  /\ pc' = [pc EXCEPT ![w] = "idle"]
  /\ job' = [job EXCEPT ![w] = None]
  /\ reply' = [reply EXCEPT ![w] = answer]

(* A failure in words of its own: they are made for this request.           *)
Refuse(w, err, cause) == Answer(w, Refusal(job[w].req, err, cause, w, TRUE))

Goto(w, label) ==
  /\ pc' = [pc EXCEPT ![w] = label]
  /\ UNCHANGED <<job, reply>>

Fail_Unnamed(w, status) ==
  /\ pc' = [pc EXCEPT ![w] = "word"]
  /\ UNCHANGED <<job, reply>>

(* A failure that begins by wording a shared error.                         *)
Fail(w, status) ==
  /\ pc' = [pc EXCEPT ![w] = "word"]
  /\ job' = [job EXCEPT ![w].shared = status]
  /\ UNCHANGED reply

Arrive(w, r) ==
  /\ ~Ended /\ server[r.via] = "listening"
  /\ pc[w] = "idle" /\ requests < MaxRequests /\ events < MaxEvents
  /\ requests' = requests + 1 /\ events' = events + 1
  /\ pc' = [pc EXCEPT ![w] = "route"]
  /\ job' = [job EXCEPT ![w] = [req |-> r, shared |-> None, muddled |-> FALSE,
                                late |-> phase = "return"]]
  /\ reply' = [reply EXCEPT ![w] = NoReply]
  /\ UNCHANGED <<mainVars, serverVars, stored, text>>

Routed(r) ==
  \/ r.call \in ServiceCall \cup {"health", "reflection"}
  \/ r.call = "page" /\ AllowPage(config)

Protected_ByMethod(r) ==
  \/ r.via = "grpc" /\ r.call # "reflection"
  \/ r.call \in {"getFiles", "rename", "delete"}

(* The middleware guards these routes, the interceptor every unary method   *)
(* of gRPC; no interceptor asks a stream for the key.                       *)
Protected(r) ==
  \/ r.via = "grpc" /\ r.call # "reflection"
  \/ r.call \in {"getFiles", "upload", "rename", "delete"}

(* The body of the request may turn out not to be readable.                 *)
HasBody(r) == r.via = "http" /\ r.call \in {"upload", "generate", "rename"}

Entered(r) == Routed(r) /\ (Protected(r) => r.key)

(* 401 is a shared error as well, but nobody words it.                      *)
RefuseKey(w) ==
  IF job[w].req.via = "http"
  THEN Answer(w, Refusal(job[w].req, Shared(401), 401, "standard", TRUE))
  ELSE Refuse(w, StatusError("Unauthenticated"), 401)

(* It is the client who lets the request be complete, so nothing says when. *)
Route(w) ==
  LET r == job[w].req IN
  /\ pc[w] = "route"
  /\ \/ ~Routed(r) /\ Refuse(w, FiberError(404), 404)
     \/ Routed(r) /\ ~Entered(r) /\ RefuseKey(w)
     \/ Entered(r) /\ r.call = "health" /\ Answer(w, Success(r, 204))
     \/ /\ r.call = "page" /\ Entered(r)
        /\ \/ Answer(w, Success(r, 200))
           \/ Refuse(w, FiberError(404), 404)
     \/ r.call = "reflection" /\ Goto(w, "stream")
     \/ /\ Entered(r) /\ r.call \in ServiceCall
        /\ \/ HasBody(r) /\ Fail(w, 400)
           \/ Goto(w, IF r.via = "http" /\ r.call = "getFile" THEN "readTag" ELSE "call")
  /\ UNCHANGED <<stored, text>> /\ OnlyRequests

(* The client closes the stream, or is gone; no deadline makes it.          *)
HangUp(w) ==
  /\ pc[w] = "stream"
  /\ Answer(w, NoReply)
  /\ UNCHANGED <<stored, text>> /\ OnlyRequests
-----------------------------------------------------------------------------
(* A request: the service.                                                  *)

(* GET /file/:file asks for the metadata first, to compare the tag.         *)
ReadTag(w) ==
  LET r == job[w].req IN
  /\ pc[w] = "readTag"
  /\ \/ \E status \in {404, 500} : Fail(w, status)
     \/ Answer(w, Success(r, 304))
     \/ Goto(w, "call")
  /\ UNCHANGED <<stored, text>> /\ OnlyRequests

SelectedStorage(c) == IF c.switch["s3.enabled"] THEN "s3" ELSE "basic"

(* What Write answers when the file is there.                               *)
TakenStatus == IF SelectedStorage(config) = "s3" THEN 404 ELSE 409

Failures(call) ==
  {status \in Reworded :
     \/ status = 500
     \/ status = 400 /\ call = "upload"
     \/ status = 404 /\ call \notin {"generate", "delete"}
     \/ status = TakenStatus /\ call \in {"upload", "generate", "rename"}}

(* What a successful call leaves.  A file that is uploaded again with the   *)
(* same bytes stays as it is; a rename takes the file away, or brings one.  *)
(* An upload over content without metadata does not succeed.                *)
Leaves(r) ==
  {left \in Stored :
     \/ /\ r.call = "upload" /\ stored # "bare"
        /\ left \in {IF r.forever THEN "forever" ELSE "expiring"} \cup ({stored} \ {"none"})
     \/ r.call = "generate" /\ stored = "none" /\ left = "expiring"
     \/ r.call = "rename"
     \/ r.call = "delete" /\ left = "none"
     \/ r.call \notin {"upload", "delete"} /\ left = stored}

(* A failed upload, rename or deletion may have taken the file away, and    *)
(* any call that writes may have left content without metadata: the error   *)
(* of the rollback is dropped, and a rename has none.                       *)
LeavesFailing(r) ==
  {left \in {stored, "none", "bare"} :
     \/ left = stored
     \/ r.call \in {"upload", "rename"}
     \/ r.call = "generate" /\ stored = "none"
     \/ r.call = "delete" /\ left = "none"}

(* Upload and rename use the metadata of the old file without looking at    *)
(* the error.                                                               *)
MayPanic(r) == r.call \in {"upload", "rename"}

SuccessStatus(call) == IF call \in {"rename", "delete"} THEN 204 ELSE 200

Call(w) ==
  LET r == job[w].req IN
  /\ pc[w] = "call"
  /\ \/ stored' \in Leaves(r) /\ Answer(w, Success(r, SuccessStatus(r.call)))
     \/ /\ stored' \in LeavesFailing(r)
        /\ \E status \in Failures(r.call) : Fail(w, status)
     \/ /\ MayPanic(r) /\ r.via = "http"
        /\ UNCHANGED stored
        /\ Refuse(w, OtherError, 500)
  /\ UNCHANGED text /\ OnlyRequests

(* gRPC recovers from no panic.                                             *)
PanicGRPC(w) ==
  /\ pc[w] = "call" /\ job[w].req.via = "grpc" /\ MayPanic(job[w].req)
  /\ End("killed") /\ OnlyMain

(* The consumer runs from the making of the service to the end.             *)
Consuming == ~Ended /\ phase \notin {"load", "dial", "bucket", "queue"}

(* The consumer deletes the file a due message is about: one past its       *)
(* deadline, or one that was given none after a message about the same      *)
(* bytes.  Without metadata it acknowledges the message and deletes         *)
(* nothing.                                                                 *)
Expire ==
  /\ Consuming /\ stored \in {"expiring", "forever"}
  /\ stored' = "none"
  /\ UNCHANGED <<workerVars, text>> /\ OnlyRequests
-----------------------------------------------------------------------------
(* A request: the words of a failure.  WithMessage writes into the error    *)
(* value all requests share; the error handler, or ToGRPCError, reads it    *)
(* later.                                                                   *)

(* The others that are wording the same error, or have, are marked.         *)
Muddle(author, status) ==
  [v \in Worker |->
     IF v # author /\ pc[v] \in MessagePc /\ job[v].shared = status
     THEN [job[v] EXCEPT !.muddled = TRUE] ELSE job[v]]

Word_Forgotten(w) ==
  /\ pc[w] = "word"
  /\ Goto(w, "refuse")
  /\ UNCHANGED <<stored, text>> /\ OnlyRequests

Word(w) ==
  /\ pc[w] = "word"
  /\ text' = [text EXCEPT ![job[w].shared] = w]
  /\ job' = Muddle(w, job[w].shared)
  /\ pc' = [pc EXCEPT ![w] = "refuse"]
  /\ UNCHANGED <<stored, reply>> /\ OnlyRequests

(* Two writers at once may leave, and a reader meanwhile may get, a word of *)
(* each.                                                                    *)
Readable(w) == {text[job[w].shared]} \cup (IF job[w].muddled THEN {"torn"} ELSE {})

RefuseShared(w) ==
  LET status == job[w].shared IN
  /\ pc[w] = "refuse"
  /\ \E message \in Readable(w) :
       Answer(w, Refusal(job[w].req, Shared(status), status, message, ~job[w].muddled))
  /\ UNCHANGED <<stored, text>> /\ OnlyRequests

(* The consumer, and handlers that drop an error of the storage or of the   *)
(* cache, word it too.                                                      *)
Murmur(status) ==
  /\ Consuming /\ events < MaxEvents
  /\ events' = events + 1
  /\ text' = [text EXCEPT ![status] = "background"]
  /\ job' = Muddle("background", status)
  /\ UNCHANGED <<mainVars, serverVars, stored, pc, reply, requests>>

(* What the server does with a request it has.                              *)
Serve(w) == ReadTag(w) \/ Call(w) \/ Word(w) \/ RefuseShared(w)

WorkerStep(w) == Route(w) \/ HangUp(w) \/ Serve(w)

Next ==
  \/ MainStep \/ Signal \/ Expire
  \/ \E s \in Server : Listen(s) \/ ServerFails(s)
  \/ \E w \in Worker : WorkerStep(w) \/ PanicGRPC(w) \/ \E r \in Request : Arrive(w, r)
  \/ \E status \in {404, 500} : Murmur(status)

Spec == Init /\ [][Next]_vars

(* The scheduler runs every goroutine, and calls return.  What a client has *)
(* to do, send the rest of a request or close a stream, it may never do: no *)
(* server has a timeout for it.                                             *)
FairSpec ==
  /\ Spec
  /\ WF_vars(MainStep)
  /\ \A s \in Server : WF_vars(Listen(s))
  /\ \A w \in Worker : WF_vars(Serve(w))
-----------------------------------------------------------------------------
(* Properties.                                                              *)

(* A failure is answered in the words it was given, whoever fails at the    *)
(* same time - unless somebody else words the very same shared error        *)
(* meanwhile; and the refusal of a key is always the standard one.          *)
MessageOwn ==
  \A w \in Worker :
    reply[w].own /\ reply[w].cause # 0 =>
      reply[w].message = IF reply[w].status = 401 THEN "standard" ELSE w

(* Through either transport the client, and the log, get the blame for what *)
(* the client did and only for that: a failure arises with a status, a 5xx  *)
(* is a 5xx or a server's code for the client and an error in the log.      *)
BlameKept ==
  \A w \in Worker : reply[w].cause # 0 =>
    /\ reply[w].status \in {0, reply[w].cause}
    /\ reply[w].level = "error" <=> reply[w].cause >= 500
    /\ reply[w].status = 0 => grpcToHTTPCode(reply[w].code) = reply[w].cause

(* Who sends no key adds files that expire, or the content a failed upload  *)
(* leaves behind, and no more: every other change is that of a call with    *)
(* the key, or the deletion by the consumer of a file.                      *)
AuthorizedChanges ==
  [][stored' # stored =>
       \/ stored = "none" /\ stored' \in {"expiring", "bare"}
       \/ stored' = "none" /\ UNCHANGED pc
       \/ \E w \in Worker : pc[w] = "call" /\ pc'[w] # "call" /\ job[w].req.key]_vars

(* With gRPC enabled, an orderly end cuts off no request, except one that   *)
(* HTTP took when main was already returning.                               *)
Drained ==
  [][phase = "return" /\ phase' = "exited" /\ GRPCEnabled(config) =>
       \A w \in Worker : pc[w] # "idle" => job[w].req.via = "http" /\ job[w].late]_vars

(* Every client sends the whole of the request it begins, and closes its    *)
(* streams.                                                                 *)
ClientsLetGo == \A w \in Worker : []<>(pc[w] \notin {"route", "stream"})

(* Told to end by a signal or by a server that does not serve, the process  *)
(* ends, unless a client holds on: GracefulStop and the shutdown of HTTP    *)
(* wait without limit for requests in progress.                             *)
EndsWhenTold ==
  ClientsLetGo => ((signal \/ \E s \in Server : notify[s]) ~> Ended)

(* Two servers on one port are not taken for a running application, whoever *)
(* holds on.                                                                *)
ClashNoticed == (phase = "wait" /\ Clash) ~> phase # "wait"
=============================================================================
