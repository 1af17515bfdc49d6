---------------------------- MODULE MediaService ----------------------------
(***************************************************************************)
(* Media: the entity service of the files that users upload, as            *)
(* MediaController and MediaService use it (src/src/media), with the files *)
(* themselves in R2.  A file and its row are written one after the other,  *)
(* and most handlers decide on a row that findById may have taken from the *)
(* cache, where it has no key.  The object of an upload has the name of its *)
(* row; an update may give a row any key, of another row's object or of    *)
(* none: names without an object stand for the keys that lead nowhere.     *)
(***************************************************************************)
EXTENDS EntityService

VARIABLES
    objects,  \* R2: the objects stored
    asked,    \* history: media whose deletion went to R2
    given     \* history: keys that an update was asked to give a row that has
              \* another name; Nil is none

Store == INSTANCE ObjectStore WITH Name <- Id, objects <- objects

media     == <<objects, asked, given>>
mediaVars == <<vars, media>>

-----------------------------------------------------------------------------
(* uploadMedia.                                                            *)

UploadMedia(p, s) ==
    /\ kind = "media"
    /\ \A n \in DOMAIN s : Fresh(s[n])
    /\ Enter(p, "create", s, "list", NoPatch, "upload")
    /\ UNCHANGED media

Without(s, n) == SubSeq(s, 1, n - 1) \o SubSeq(s, n + 1, Len(s))

\* Mutant: a file that fails gets a row all the same.
LeftOutNone(p) == [call EXCEPT ![p].at = @ + 1]

\* The files without the one that worker p has come to.
LeftOut(p) == [call EXCEPT ![p].ids = Without(@, call[p].at)]

\* processUploadedFile of the next file: it is stored, or left out, because
\* it is too large or because R2 fails.
ProcessFile(p) ==
    /\ pc[p] = "upload"
    /\ call[p].at <= Len(call[p].ids)
    /\ \/ /\ Store!Upload(This(p))
          /\ call' = [call EXCEPT ![p].at = @ + 1]
       \/ /\ Store!UploadFails(This(p))
          /\ call' = LeftOut(p)
    /\ UNCHANGED <<kind, store, bounds, pc, completed, past, asked, given>>

\* createMany of the files that were stored; without any, 400.
CreateRows(p) ==
    /\ pc[p] = "upload"
    /\ call[p].at > Len(call[p].ids)
    /\ IF call[p].ids = << >> THEN Finish(p)
       ELSE /\ call' = [call EXCEPT ![p].at = 1]
            /\ Goto(p, "write")
    /\ UNCHANGED <<kind, store, bounds, completed, past, media>>

-----------------------------------------------------------------------------
(* The handlers that find their medium first.                              *)

\* activateMedia, deactivateMedia, incrementViewCount (and, alike,
\* incrementDownloadCount), deleteMedia; and getMediaById with the presigned
\* download, stream, metadata and existence of the file, which change nothing.
MediaOp == {"activate", "deactivate", "view", "delete", "file"}

FindMedia(p, o, i) ==
    /\ kind = "media"
    /\ FindById(p, o, i)
    /\ UNCHANGED media

\* UpdateMediaDto lets a client set any column, the key included: to the row's
\* own name, as do all updates of another column, to another name, or to none.
Changes == {[NoPatch EXCEPT !.key = k] : k \in Id \cup {"none"}}

UpdateMedia(p, i, patch) ==
    /\ kind = "media"
    /\ Update(p, <<i>>, patch)
    /\ given' = given \cup ({Given(patch.key)} \ {i})
    /\ UNCHANGED <<objects, asked>>

\* A status that is set already ends the request.
Idempotent(c) ==
    \/ c.op = "activate" /\ c.copy.status = "active"
    \/ c.op = "deactivate" /\ c.copy.status = "inactive"

\* The views after this one, by the copy that was found.
Counted(c) == c.copy.views + 1

PatchOf(c) ==
    CASE c.op = "activate"   -> [NoPatch EXCEPT !.status = "active"]
      [] c.op = "deactivate" -> [NoPatch EXCEPT !.status = "inactive"]
      [] c.op = "delete"     -> [NoPatch EXCEPT !.status = "deleted"]
      [] c.op = "view"       -> [NoPatch EXCEPT !.views = Counted(c)]

\* The handler's own call of update.
Updating(p) ==
    /\ Goto(p, "write")
    /\ call' = [call EXCEPT ![p] = Frame("update", @.ids, "list", PatchOf(@))]

\* deleteMediaFile goes to R2 only for a copy with a key.
HasObject(c) == c.copy.key # Nil

Decide(p) ==
    /\ pc[p] = "found"
    /\ call[p].op \in MediaOp \ {"file"}
    /\ CASE Idempotent(call[p]) -> Finish(p)
         [] call[p].op = "delete" /\ HasObject(call[p]) -> Goto(p, "object") /\ UNCHANGED call
         [] OTHER -> Updating(p)
    /\ UNCHANGED <<kind, store, bounds, completed, past, media>>

\* The object first.  The thumbnail and the preview of an image, which nothing
\* ever creates, are asked to go as well; what becomes of that is ignored.
DeleteObject(p) ==
    /\ pc[p] = "object"
    /\ \/ /\ Store!Delete(call[p].copy.key)
          /\ Updating(p)
       \/ Store!DeleteFails(call[p].copy.key) /\ Finish(p)
    /\ asked' = asked \cup {call[p].key}
    /\ UNCHANGED <<kind, store, bounds, completed, past, given>>

\* getMediaById answers with the copy; the file requests hand its key to R2 and
\* are answered with what is found under it: 404, also where it has no key.
ServeFile(p) ==
    /\ pc[p] = "found"
    /\ call[p].op = "file"
    /\ Finish(p)
    /\ UNCHANGED <<kind, store, bounds, completed, past, media>>

-----------------------------------------------------------------------------
MediaInit ==
    /\ Init
    /\ objects = {i \in Id : rows[i].key # Nil}
    /\ asked = {} /\ given = {}

MediaNext ==
    \/ EntityNext /\ UNCHANGED media
    \/ \E p \in Worker :
          \/ \E s \in Some : UploadMedia(p, s)
          \/ ProcessFile(p) \/ CreateRows(p)
          \/ \E i \in Id : \/ \E o \in MediaOp : FindMedia(p, o, i)
                           \/ \E patch \in Changes : UpdateMedia(p, i, patch)
          \/ Decide(p) \/ DeleteObject(p) \/ ServeFile(p)

Spec == MediaInit /\ [][MediaNext]_mediaVars

-----------------------------------------------------------------------------
\* The file that a row names is there, unless an update was asked to give its
\* name, or none, to some other row, or the row's own deletion went to R2: no
\* failure of an upload or of an insert leaves a row without its object, and a
\* deletion takes an object from another row only where an update had given
\* the name away.
UploadBacked ==
    kind = "media" =>
       \A i \in Id :
          rows[i].life # "new" /\ rows[i].key \notin given /\ i \notin asked =>
             rows[i].key \in objects
=============================================================================
