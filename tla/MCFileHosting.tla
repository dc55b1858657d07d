---------------------------- MODULE MCFileHosting ----------------------------
(* Instances of FileHosting for TLC.                                        *)
EXTENDS Replacement, TLC

CONSTANTS a, b, g, k, l, c1, c2

Req(op, name, content, duration, newName) ==
  [op |-> op, name |-> name, content |-> content, duration |-> duration,
   newName |-> newName]

Upload(name, content, duration) == Req("upload", name, content, duration, name)
Rename(name, newName) == Req("rename", name, c1, 0, newName)
On(op, name) == Req(op, name, c1, 0, name)

(* Every change, without any discipline of the clients.                     *)
CoreRequests ==
  {Upload(a, c1, 1), Upload(a, c2, 0), Req("generate", g, c1, 0, g),
   Rename(a, g), On("delete", a)}

(* Names are used once; every operation but replacing.                      *)
WriteOnceRequests ==
  {Upload(a, c2, 1), Req("generate", g, c1, 0, g), Upload(b, c1, 0), Rename(a, b),
   On("delete", a), On("getFile", a), On("getFile", b), On("getFiles", a)}

(* One name, written over and over.                                         *)
ReplaceRequests ==
  {Upload(a, c1, 1), Upload(a, c1, 2), Upload(a, c2, 0), On("getMetadata", a)}

(* Files that all reach their deadline within the clock's bound.            *)
LivenessRequests ==
  {Upload(a, c1, 1), Upload(a, c2, 2), Rename(a, b), On("delete", a)}

(* The shortest ways to the disagreements listed in the README.             *)
PermanentRequests == {Upload(a, c1, 1), On("delete", a), Upload(a, c1, 0)}
PermanentBackupRequests == {Upload(a, c1, 0), Upload(a, c2, 0)}
LateRenameRequests == {Upload(a, c1, 1), Rename(a, b)}
InterruptedRequests == {Upload(a, c1, 1)}

Symmetric == Permutations(Worker)
=============================================================================
