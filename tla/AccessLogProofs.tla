--------------------------- MODULE AccessLogProofs ---------------------------
(***************************************************************************)
(* What the helpers of the transports compute, for every input.             *)
(***************************************************************************)
EXTENDS AccessLog, SequenceTheorems, TLAPS

(* A full method as gRPC gives it to the interceptors.                      *)
FullMethod(service, method) == <<Slash>> \o service \o <<Slash>> \o method

(* The last slash of a full method is the one in front of the method.       *)
THEOREM MethodParsed ==
  ASSUME NEW Char, Slash \in Char, NEW service \in Seq(Char), NEW method \in Seq(Char),
         \A i \in 1..Len(method) : method[i] # Slash
  PROVE  parseMethod(FullMethod(service, method)) = method
<1>1. PICK full : full = FullMethod(service, method) OBVIOUS
<1>2. Len(service) \in Nat /\ Len(method) \in Nat OBVIOUS
<1>3. /\ full \in Seq(Char) /\ Len(full) = Len(service) + Len(method) + 2
      /\ full[Len(service) + 2] = Slash
      /\ \A i \in 1..Len(method) : full[Len(service) + 2 + i] = method[i]
  <2>1. ASSUME NEW f, f = FullMethod(service, method)
        PROVE  /\ f \in Seq(Char) /\ Len(f) = Len(service) + Len(method) + 2
               /\ f[Len(service) + 2] = Slash
               /\ \A i \in 1..Len(method) : f[Len(service) + 2 + i] = method[i]
    BY <2>1 DEF FullMethod
  <2>2. QED BY <1>1, <2>1
<1> DEFINE at == Len(service) + 2
<1>4. /\ full \in Seq(Char) /\ Len(full) = Len(service) + Len(method) + 2
      /\ full[at] = Slash
      /\ \A i \in 1..Len(method) : full[at + i] = method[i]
  BY <1>3
<1>5. at \in Nat /\ at > 0 /\ Len(full) = at + Len(method) BY <1>2, <1>4
<1> HIDE DEF at
<1> DEFINE slashes == {i \in 1..Len(full) : full[i] = Slash}
           last == CHOOSE i \in slashes : \A j \in slashes : j <= i
<1>6. at \in slashes
  <2>1. at \in 1..Len(full) BY <1>2, <1>5
  <2>2. QED BY <1>4, <2>1
<1>7. \A j \in slashes : j <= at
  <2>1. ASSUME NEW j \in 1..Len(full), full[j] = Slash, ~(j <= at)
        PROVE  FALSE
    <3>1. j - at \in 1..Len(method) /\ at + (j - at) = j BY <1>2, <1>5, <2>1
    <3>2. full[at + (j - at)] = method[j - at] BY <1>4, <3>1
    <3>3. QED BY <2>1, <3>1, <3>2
  <2>2. QED BY <2>1
<1>8. last = at
  <2>1. last \in slashes /\ \A j \in slashes : j <= last BY <1>6, <1>7
  <2>2. last \in Int BY <2>1
  <2>3. QED BY <1>5, <1>6, <1>7, <2>1, <2>2
<1>9. parseMethod(full) = SubSeq(full, last + 1, Len(full))
  BY <1>6 DEF parseMethod
<1>10. SubSeq(full, at + 1, Len(full)) = method
  <2> DEFINE tail == SubSeq(full, at + 1, Len(full))
  <2>1. at + 1 \in Int /\ Len(full) \in Int /\ \A i \in (at + 1)..Len(full) : full[i] \in Char
    BY <1>2, <1>4, <1>5
  <2>2. /\ tail \in Seq(Char)
        /\ Len(tail) = IF at + 1 <= Len(full) THEN Len(full) - (at + 1) + 1 ELSE 0
        /\ \A i \in 1..(Len(full) - (at + 1) + 1) : tail[i] = full[(at + 1) + i - 1]
    BY <2>1, SubSeqProperties
  <2> HIDE DEF tail
  <2>3. Len(tail) = Len(method) BY <1>2, <1>5, <2>2
  <2>4. ASSUME NEW i \in 1..Len(tail) PROVE tail[i] = method[i]
    <3>1. tail[i] = full[(at + 1) + i - 1] /\ (at + 1) + i - 1 = at + i
      BY <1>2, <1>5, <2>2, <2>3
    <3>2. QED BY <1>4, <2>3, <3>1
  <2>5. tail = method BY <2>2, <2>3, <2>4, SeqEqual
  <2>6. QED BY <2>5 DEF tail
<1>11. QED BY <1>1, <1>8, <1>9, <1>10
-----------------------------------------------------------------------------
(* The two forms of a filter on statuses are written as opposite            *)
(* comparisons: each request passes exactly one of them, whatever the       *)
(* comparison.                                                              *)
THEOREM StatusFiltersOpposite ==
  ASSUME NEW test \in {">", ">=", "<", "<="}, NEW arg \in Int, NEW status \in Int
  PROVE  IgnoreStatus(test, arg, status) <=> ~AcceptStatus(test, arg, status)
BY DEF IgnoreStatus, AcceptStatus

(* A filter on paths that lets only some text pass, and the one that keeps  *)
(* it out, split the requests, except for suffixes, where the accepting     *)
(* form asks for a prefix: a path that begins with the text and does not    *)
(* end with it passes both.                                                 *)
THEOREM SuffixFiltersOverlap ==
  ASSUME NEW part, NEW path, IsPrefix(part, path), ~IsSuffix(part, path)
  PROVE  /\ FiberPathFilter(TRUE, "suffix", {part}, path)
         /\ FiberPathFilter(FALSE, "suffix", {part}, path)
BY DEF FiberPathFilter, FiberTest, AnyFits, Fits
=============================================================================
