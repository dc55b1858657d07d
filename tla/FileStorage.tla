----------------------------- MODULE FileStorage -----------------------------
(***************************************************************************)
(* The storage behind the service: internal/storage with its two           *)
(* implementations, the local directory (Backend = "basic") and the S3      *)
(* bucket (Backend = "s3").  A store is a function from keys to the object  *)
(* kept under the key, None when there is none.  Write, Move and Delete     *)
(* first stat the key and then act, two calls to the file system or to S3   *)
(* with other requests in between, so each is given here as the result of   *)
(* the stat (IsExist) and the outcome of the call that follows it.          *)
(***************************************************************************)
CONSTANTS Backend,   \* which FileStorage the configuration selects
          None       \* no object

ASSUME BackendAssumption == Backend \in {"basic", "s3"}

IsExist(store, file) == store[file] # None

(* os.Create truncates and PutObject replaces: after the stat nothing       *)
(* prevents the overwriting of an object that appeared meanwhile.           *)
Created(store, file, object) == [store EXCEPT ![file] = object]

Removed(store, file) == [store EXCEPT ![file] = None]

(* os.Remove reports a file that is gone; RemoveObject does not.            *)
RemoveSucceeds(store, file) == Backend = "s3" \/ IsExist(store, file)

(* os.Rename replaces the destination; CopyObject too, but it refuses to    *)
(* copy an object onto itself.                                              *)
TransferSucceeds(store, file, newFile) ==
  /\ IsExist(store, file)
  /\ Backend = "basic" \/ file # newFile

(* The rename of a local file is one step.  On S3 the object is first       *)
(* copied, and the source removed by a second call.                         *)
Transferred(store, file, newFile) ==
  [store EXCEPT ![newFile] = store[file],
                ![file] = IF Backend = "basic" /\ file # newFile
                          THEN None ELSE store[file]]

LeavesSource == Backend = "s3"
=============================================================================
