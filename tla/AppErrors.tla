------------------------------ MODULE AppErrors ------------------------------
(***************************************************************************)
(* internal/app/apperr: the errors every layer answers with, and what each  *)
(* transport makes of them.  An error is a record of its kind in Go, its    *)
(* HTTP status and its gRPC code; a fiber.Error has no gRPC code, a gRPC    *)
(* status no HTTP status, other errors have neither, and From supplies what *)
(* is missing.  Messages are kept by Application: they are shared.          *)
(***************************************************************************)
EXTENDS Integers

HTTPStatus == 100..599

GRPCCode ==
  {"OK", "Canceled", "Unknown", "InvalidArgument", "DeadlineExceeded", "NotFound",
   "AlreadyExists", "PermissionDenied", "ResourceExhausted", "FailedPrecondition",
   "Aborted", "OutOfRange", "Unimplemented", "Internal", "Unavailable", "DataLoss",
   "Unauthenticated"}

(* The statuses that have a shared value: ErrBadRequest to                  *)
(* ErrNetworkAuthenticationRequired.                                        *)
SharedStatus ==
  (400..418) \cup (421..426) \cup {428, 429, 431, 451} \cup (500..508) \cup {510, 511}

Failure == [kind : {"app", "fiber", "status", "other"},
            status : HTTPStatus, code : GRPCCode]

httpToGRPCCode_Conflict(status) ==
  IF status \in {400, 409} THEN "InvalidArgument"
  ELSE IF status = 401 THEN "Unauthenticated"
  ELSE IF status = 404 THEN "NotFound"
  ELSE "Unknown"

httpToGRPCCode(status) ==
  IF status = 400 THEN "InvalidArgument"
  ELSE IF status = 401 THEN "Unauthenticated"
  ELSE IF status = 403 THEN "PermissionDenied"
  ELSE IF status = 404 THEN "NotFound"
  ELSE IF status = 408 THEN "DeadlineExceeded"
  ELSE IF status = 409 THEN "AlreadyExists"
  ELSE IF status = 429 THEN "ResourceExhausted"
  ELSE IF status = 501 THEN "Unimplemented"
  ELSE IF status = 503 THEN "Unavailable"
  ELSE IF status \in {500, 502, 504} THEN "Internal"
  ELSE "Unknown"

grpcToHTTPCode(code) ==
  IF code \in {"InvalidArgument", "OutOfRange"} THEN 400
  ELSE IF code = "Unauthenticated" THEN 401
  ELSE IF code = "PermissionDenied" THEN 403
  ELSE IF code = "NotFound" THEN 404
  ELSE IF code \in {"Canceled", "DeadlineExceeded"} THEN 408
  ELSE IF code \in {"AlreadyExists", "Aborted"} THEN 409
  ELSE IF code = "FailedPrecondition" THEN 412
  ELSE IF code = "ResourceExhausted" THEN 429
  ELSE IF code = "Unimplemented" THEN 501
  ELSE IF code = "Unavailable" THEN 503
  ELSE 500

AppError(status, code) == [kind |-> "app", status |-> status, code |-> code]

New(status) == AppError(status, httpToGRPCCode(status))

FiberError(status) == [kind |-> "fiber", status |-> status, code |-> "Unknown"]
StatusError(code) == [kind |-> "status", status |-> 500, code |-> code]
OtherError == [kind |-> "other", status |-> 500, code |-> "Unknown"]

From(err) ==
  IF err.kind = "app" THEN err
  ELSE IF err.kind = "fiber" THEN New(err.status)
  ELSE IF err.kind = "status" THEN AppError(grpcToHTTPCode(err.code), err.code)
  ELSE AppError(500, "Internal")

(* The shared values are made from fiber's own shared values, whose message *)
(* they alias.                                                              *)
Shared(status) == From(FiberError(status))

ToGRPCError(err) == StatusError(From(err).code)

(* ErrorHandler of the HTTP transport: whatever is neither an AppError nor  *)
(* a fiber.Error is an internal error.                                      *)
ErrorStatus(err) == IF err.kind \in {"app", "fiber"} THEN err.status ELSE 500
=============================================================================
