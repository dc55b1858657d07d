--------------------------- MODULE MCCachedHosting ---------------------------
(* Instances of CachedHosting for TLC.                                      *)
EXTENDS CachedHosting, TLC

CONSTANTS a, b, g, k, l, c1, c2

Req(op, name, content, duration, newName) ==
  [op |-> op, name |-> name, content |-> content, duration |-> duration,
   newName |-> newName]

Upload(name, content, duration) == Req("upload", name, content, duration, name)
Rename(name, newName) == Req("rename", name, c1, 0, newName)
On(op, name) == Req(op, name, c1, 0, name)

(* Every operation, on one public name and another it may be renamed to.    *)
AllRequests ==
  {Upload(a, c1, 1), Upload(a, c2, 0), Upload(b, c1, 0), Rename(a, b), Rename(a, a),
   Req("generate", a, c1, 0, a), On("delete", a), On("getFile", a),
   On("getMetadata", a), On("getFiles", a), On("delete", g)}

(* The shortest ways to the disagreements listed in the README.             *)
ExpiredRequests == {Upload(a, c1, 1), On("getFile", a)}
RepeatedRequests == {Req("generate", a, c1, 1, a), Upload(g, c1, 1), On("getFile", a)}

Symmetric == Permutations(Worker)
=============================================================================
