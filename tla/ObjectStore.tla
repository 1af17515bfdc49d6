---------------------------- MODULE ObjectStore ----------------------------
(***************************************************************************)
(* R2 as R2Service (src/src/shared/services/storage/r2.service.ts) uses    *)
(* it: a set of objects under names that the server chooses.  A command is *)
(* one step; one that fails may have reached the store or not.  Downloads, *)
(* metadata and presigned URLs read the store and change nothing.          *)
(***************************************************************************)
CONSTANT Name

VARIABLE objects

\* uploadFile: the name carries a fresh snowflake id.
Upload(k) == objects' = objects \cup {k}

UploadFails(k) == objects' \in {objects, objects \cup {k}}

\* deleteFile: deleting what is not there succeeds as well.
Delete(k) == objects' = objects \ {k}

DeleteFails(k) == objects' \in {objects, objects \ {k}}
=============================================================================
