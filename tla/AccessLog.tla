------------------------------ MODULE AccessLog ------------------------------
(***************************************************************************)
(* pkg/slogfiber and pkg/sloggrpc: which requests each transport writes to  *)
(* the log, at which level, and the filters that can keep a request out of  *)
(* it.  A path, a host, a gRPC method is a sequence of characters; a        *)
(* regular expression is the set of the texts it matches; what is written   *)
(* about a request is left out.                                             *)
(***************************************************************************)
EXTENDS SequencesExt, AppErrors

Level == {"info", "warn", "error"}
NotLogged == "none"

(* passes: every filter of the middleware accepts the request.  Filters are *)
(* asked, and the status is read, after the handler and the error handler.  *)
HTTPLevel(passes, status) ==
  IF ~passes \/ status = 404 THEN NotLogged
  ELSE IF status >= 500 THEN "error"
  ELSE IF status >= 400 THEN "warn" ELSE "info"

isServerError(code) == code \in {"Internal", "Unknown", "DataLoss", "Unimplemented"}

isClientError(code) == code \notin {"OK", "Canceled"} /\ ~isServerError(code)

GRPCLevel(passes, code) ==
  IF ~passes THEN NotLogged
  ELSE IF isServerError(code) THEN "error"
  ELSE IF isClientError(code) THEN "warn" ELSE "info"
-----------------------------------------------------------------------------
(* The filters.  Every kind comes in two forms, Accept and Ignore (accept   *)
(* TRUE and FALSE), and takes several arguments, of which one must fit.     *)

HasPart(text, part) ==
  \E i \in 0..Len(text) : IsPrefix(part, SubSeq(text, i + 1, Len(text)))

Fits(test, text, arg) ==
  \/ test = "is" /\ text = arg
  \/ test = "contains" /\ HasPart(text, arg)
  \/ test = "prefix" /\ IsPrefix(arg, text)
  \/ test = "suffix" /\ IsSuffix(arg, text)
  \/ test = "match" /\ text \in arg

AnyFits(test, text, args) == \E arg \in args : Fits(test, text, arg)

(* AcceptPathSuffix and AcceptHostSuffix ask for a prefix.                  *)
FiberTest(accept, test) == IF accept /\ test = "suffix" THEN "prefix" ELSE test

FiberPathFilter(accept, test, args, path) ==
  accept = AnyFits(FiberTest(accept, test), path, args)

FiberHostFilter(accept, test, args, host) ==
  accept = AnyFits(FiberTest(accept, test), host, args)

(* A method is a word in some spelling; the comparison folds the case.      *)
FiberMethodFilter(accept, methods, method) ==
  accept = (\E m \in methods : m.word = method.word)

AcceptStatus(test, arg, status) ==
  \/ test = "in" /\ status \in arg
  \/ test = ">" /\ status > arg
  \/ test = ">=" /\ status >= arg
  \/ test = "<" /\ status < arg
  \/ test = "<=" /\ status <= arg

(* Written as the opposite comparison.                                      *)
IgnoreStatus(test, arg, status) ==
  \/ test = "in" /\ status \notin arg
  \/ test = ">" /\ status <= arg
  \/ test = ">=" /\ status < arg
  \/ test = "<" /\ status >= arg
  \/ test = "<=" /\ status > arg

(* A full method is /package.Service/Method.                                *)
Slash == "/"

parseMethod(full) ==
  LET slashes == {i \in 1..Len(full) : full[i] = Slash} IN
  IF slashes = {} THEN full
  ELSE LET last == CHOOSE i \in slashes : \A j \in slashes : j <= i
       IN SubSeq(full, last + 1, Len(full))

parseService(full) ==
  LET rest == IF full # << >> /\ full[1] = Slash THEN Tail(full) ELSE full
      slashes == {i \in 1..Len(rest) : rest[i] = Slash} IN
  IF slashes = {} THEN rest
  ELSE LET first == CHOOSE i \in slashes : \A j \in slashes : i <= j
       IN SubSeq(rest, 1, first - 1)

GRPCMethodFilter(accept, methods, full) == accept = (parseMethod(full) \in methods)

GRPCFullMethodFilter(accept, test, args, full) == accept = AnyFits(test, full, args)

(* Only "is" and "prefix" exist for services.                               *)
GRPCServiceFilter(accept, test, args, full) ==
  accept = AnyFits(test, parseService(full), args)

(* The filters on codes do not see the code of the call: they ask whether   *)
(* its context has ended, which status.FromError calls Unknown.             *)
GRPCStatusFilter(accept, codes, ended) == accept = (ended /\ "Unknown" \in codes)

ClientErrors == {code \in GRPCCode : isClientError(code)}
ServerErrors == {code \in GRPCCode : isServerError(code)}

(* metadata[key] is the set of the values under the key.                    *)
GRPCMetadataFilter(accept, key, values, metadata) ==
  accept = (\E value \in values : value \in metadata[key])

GRPCMetadataExistsFilter(accept, keys, metadata) ==
  accept = (\E key \in keys : metadata[key] # {})
=============================================================================
