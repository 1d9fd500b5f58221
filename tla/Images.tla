-------------------------------- MODULE Images --------------------------------
(***************************************************************************)
(* The images of one pattern: rows in pattern_images and bytes in          *)
(* file_blobs, which no transaction and no foreign key ties together.      *)
(*                                                                         *)
(* Uploads and deletions (internal/service/image.go) are sequences of SQL  *)
(* statements that interleave with each other and with the owner's saves,  *)
(* each of which deletes and re-inserts all groups of the pattern and with *)
(* them all image rows, under new ids (patternRepo.Update).  An id is      *)
(* therefore an edition, the number of the save that made the row, with a  *)
(* place among the groups or a storage key: AUTOINCREMENT reuses no id.    *)
(*                                                                         *)
(* A part is what the user sees as one; the program knows it only by its   *)
(* place.  Parts are numbered in the order in which they are added to the  *)
(* form, which lists them by that number.                                  *)
(***************************************************************************)
EXTENDS Integers, FiniteSets, SequencesExt

CONSTANTS
  Forms,             \* the sequences of parts the owner submits
  Requests,          \* slots for uploads and deletions in progress
  MaxImages,         \* maxImagesPerPart
  MaxKeys,           \* bound: images ever uploaded
  MaxSaves           \* bound: times the pattern is saved

ASSUME ImagesAssumptions ==
  /\ \A f \in Forms : /\ f # << >>
                      /\ f \in Seq(Nat)
                      /\ \A i \in DOMAIN f, j \in DOMAIN f : i < j => f[i] < f[j]
  /\ MaxImages \in Nat /\ MaxKeys \in Nat /\ MaxSaves \in Nat

VARIABLES
  parts,    \* the instruction groups in sort order; none once the pattern is deleted
  edition,  \* saves so far
  images,   \* the table pattern_images
  blobs,    \* the storage keys in file_blobs
  issued,   \* storage keys generated so far
  request,  \* what each request in progress knows, and its next step
  strays    \* for checking only: the keys of uploads and deletions that did not
            \* run to their end, and of the images of a deleted pattern

vars == << parts, edition, images, blobs, issued, request, strays >>

\* A row: the key of its bytes, the place of its group, its sort_order and, for
\* checking only, the part it was uploaded to and the parts before that one then.
Image(key, place, order) ==
  [key |-> key, place |-> place, order |-> order, of |-> parts[place],
   before |-> {parts[p] : p \in 1 .. place - 1}]

NoKey == 0

Idle == [step |-> "idle", edition |-> 0, place |-> 0, order |-> 0, key |-> NoKey]

Init ==
  /\ parts \in Forms
  /\ edition = 0
  /\ images = {}
  /\ blobs = {}
  /\ issued = 0
  /\ strays = {}
  /\ request = [r \in Requests |-> Idle]

GoOn(r, step) == request' = [request EXCEPT ![r].step = step]
Answer(r)     == request' = [request EXCEPT ![r] = Idle]

\* A query by a group id or an image id of an older edition finds nothing.
ImagesAt(e, place) == {i \in images : e = edition /\ i.place = place}
ImageWith(e, key)  == {i \in images : e = edition /\ i.key = key}

GroupExists(e, place) == e = edition /\ place \in DOMAIN parts

-----------------------------------------------------------------------------
(***************************************************************************)
(* Upload.                                                                 *)
(***************************************************************************)

\* HandleUpload loads the pattern and resolves the index in the URL.
BeginUpload(r, place) ==
  /\ request[r] = Idle
  /\ request' = [request EXCEPT ![r] =
       [Idle EXCEPT !.step = "count", !.edition = edition, !.place = place]]
  /\ UNCHANGED << parts, edition, images, blobs, issued, strays >>

\* Lets one image too many through.
CountAtMost(r) ==
  LET q == request[r]  count == Cardinality(ImagesAt(q.edition, q.place))
  IN  /\ q.step = "count"
      /\ IF count > MaxImages
           THEN Answer(r)
           ELSE request' = [request EXCEPT ![r].step = "saveFile", ![r].order = count]
      /\ UNCHANGED << parts, edition, images, blobs, issued, strays >>

CountImages(r) ==
  LET q == request[r]  count == Cardinality(ImagesAt(q.edition, q.place))
  IN  /\ q.step = "count"
      /\ IF count >= MaxImages
           THEN Answer(r)
           ELSE request' = [request EXCEPT ![r].step = "saveFile", ![r].order = count]
      /\ UNCHANGED << parts, edition, images, blobs, issued, strays >>

\* The key is 16 random bytes: no two are equal.
SaveFile(r) ==
  /\ request[r].step = "saveFile"
  /\ issued < MaxKeys
  /\ issued' = issued + 1
  /\ blobs' = blobs \cup {issued'}
  /\ request' = [request EXCEPT ![r].step = "createImage", ![r].key = issued']
  /\ UNCHANGED << parts, edition, images, strays >>

\* Inserts the row without the foreign key.
CreateUnreferenced(r) ==
  LET q == request[r]
  IN  /\ q.step = "createImage"
      /\ images' = images \cup
           {[key |-> q.key, place |-> q.place, order |-> q.order, of |-> q.place,
             before |-> {}]}
      /\ Answer(r)
      /\ UNCHANGED << parts, edition, blobs, issued, strays >>

\* Cleans up in every case.
CreateThenCleanUp(r) ==
  LET q == request[r]
  IN  /\ q.step = "createImage"
      /\ images' = IF GroupExists(q.edition, q.place)
                     THEN images \cup {Image(q.key, q.place, q.order)}
                     ELSE images
      /\ GoOn(r, "cleanUp")
      /\ UNCHANGED << parts, edition, blobs, issued, strays >>

\* Does not clean up.
CreateOrFail(r) ==
  LET q == request[r]
  IN  /\ q.step = "createImage"
      /\ images' = IF GroupExists(q.edition, q.place)
                     THEN images \cup {Image(q.key, q.place, q.order)}
                     ELSE images
      /\ Answer(r)
      /\ UNCHANGED << parts, edition, blobs, issued, strays >>

\* The foreign key rejects the row if its group has gone.
CreateImage(r) ==
  LET q == request[r]
  IN  /\ q.step = "createImage"
      /\ IF GroupExists(q.edition, q.place)
           THEN images' = images \cup {Image(q.key, q.place, q.order)} /\ Answer(r)
           ELSE UNCHANGED images /\ GoOn(r, "cleanUp")
      /\ UNCHANGED << parts, edition, blobs, issued, strays >>

\* "Best-effort cleanup of the stored file."
CleanUpFile(r) ==
  /\ request[r].step = "cleanUp"
  /\ blobs' = blobs \ {request[r].key}
  /\ Answer(r)
  /\ UNCHANGED << parts, edition, images, issued, strays >>

-----------------------------------------------------------------------------
(***************************************************************************)
(* Delete.                                                                 *)
(***************************************************************************)

\* GetOwnerUserID finds the image; an unknown id is answered at once.
BeginDelete(r, key) ==
  /\ request[r] = Idle
  /\ request' = [request EXCEPT ![r] =
       [Idle EXCEPT !.step = "getImage", !.edition = edition, !.key = key]]
  /\ UNCHANGED << parts, edition, images, blobs, issued, strays >>

GetImage(r) ==
  LET q == request[r]
  IN  /\ q.step = "getImage"
      /\ IF ImageWith(q.edition, q.key) = {} THEN Answer(r) ELSE GoOn(r, "deleteFile")
      /\ UNCHANGED << parts, edition, images, blobs, issued, strays >>

\* "Delete stored bytes first, then metadata."
DeleteFile(r) ==
  /\ request[r].step = "deleteFile"
  /\ blobs' = blobs \ {request[r].key}
  /\ GoOn(r, "deleteImage")
  /\ UNCHANGED << parts, edition, images, issued, strays >>

\* A row that is gone already, or has a new id by now, is "not found".
DeleteImage(r) ==
  LET q == request[r]
      found == ImageWith(q.edition, q.key)
  IN  /\ q.step = "deleteImage"
      /\ images' = images \ found
      /\ strays' = IF found = {} THEN strays \cup {q.key} ELSE strays
      /\ Answer(r)
      /\ UNCHANGED << parts, edition, blobs, issued >>

-----------------------------------------------------------------------------
(***************************************************************************)
(* Saves and deletion of the pattern, one transaction each.                *)
(***************************************************************************)

\* The form keeps the order of the parts and adds new ones at the end.
CanFollow(form) ==
  \A p \in ToSet(form) \ ToSet(parts), q \in ToSet(parts) : p > q

\* Restores every image to the last group inserted.
RestoredToLast(form) == {[i EXCEPT !.place = Len(form)] : i \in images}

\* Takes places counted from 0 for places counted from 1.
RestoredOffByOne(form) == {i \in images : i.place + 1 \in DOMAIN form}

\* restoreImages: an image goes to the new group at its old group's place.
Restored(form) == {i \in images : i.place \in DOMAIN form}

SavePattern(form) ==
  /\ parts # << >>
  /\ edition < MaxSaves
  /\ CanFollow(form)
  /\ parts' = form
  /\ edition' = edition + 1
  /\ images' = Restored(form)
  /\ blobs' = blobs \ {i.key : i \in {j \in images : j.place \notin DOMAIN form}}
  /\ UNCHANGED << issued, request, strays >>

\* The rows go by cascade, the bytes stay.
DeletePattern ==
  /\ parts # << >>
  /\ parts' = << >>
  /\ images' = {}
  /\ strays' = strays \cup {i.key : i \in images}
  /\ UNCHANGED << edition, blobs, issued, request >>

\* The client disconnects: the next statement fails and none is run after it.
Abort(r) ==
  /\ request[r] # Idle
  /\ strays' = IF request[r].step \in {"createImage", "cleanUp", "deleteImage"}
                 THEN strays \cup {request[r].key}
                 ELSE strays
  /\ Answer(r)
  /\ UNCHANGED << parts, edition, images, blobs, issued >>

-----------------------------------------------------------------------------
Next ==
  \/ \E r \in Requests :
       \/ \E place \in DOMAIN parts : BeginUpload(r, place)
       \/ CountImages(r) \/ SaveFile(r) \/ CreateImage(r) \/ CleanUpFile(r)
       \/ \E i \in images : BeginDelete(r, i.key)
       \/ GetImage(r) \/ DeleteFile(r) \/ DeleteImage(r)
       \/ Abort(r)
  \/ \E form \in Forms : SavePattern(form)
  \/ DeletePattern

Spec == Init /\ [][Next]_vars

-----------------------------------------------------------------------------
Steps == {"idle", "count", "saveFile", "createImage", "cleanUp",
          "getImage", "deleteFile", "deleteImage"}

RequestRecord == [step : Steps, edition : Nat, place : Nat, order : Nat, key : Nat]

\* Every row belongs to a group of the pattern.
TypeOK ==
  /\ parts \in Forms \cup {<< >>}
  /\ edition \in 0 .. MaxSaves
  /\ \A i \in images : /\ i.key \in 1 .. issued
                       /\ i.place \in DOMAIN parts
                       /\ i.order \in Nat
  /\ blobs \subseteq 1 .. issued
  /\ strays \subseteq 1 .. issued
  /\ issued \in 0 .. MaxKeys
  /\ request \in [Requests -> RequestRecord]

\* handler/image.go:100, "max 5 per section": whatever is uploaded, deleted and
\* saved in between, n requests at once exceed the limit by n - 1 images at most,
\* and one at a time keeps it.
LimitHolds ==
  \A place \in DOMAIN parts :
    Cardinality(ImagesAt(edition, place)) <= MaxImages + Cardinality(Requests) - 1

\* image.go:103, "Delete removes an image and its stored bytes": a row is without
\* its bytes only while the request that deletes it is on its way - or for good,
\* if that request is cut off between the two, or a save has overtaken it and
\* given the row a new id.
RowsHaveBytes ==
  \A i \in images : i.key \in blobs \cup strays \/ \E r \in Requests :
    request[r].step = "deleteImage" /\ request[r].key = i.key

Accounted(k) ==
  \/ k \in strays
  \/ \E i \in images : i.key = k
  \/ \E r \in Requests : request[r].step \in {"createImage", "cleanUp"} /\ request[r].key = k

\* image.go:72, "cleanup of the stored file", and pattern.go:731, "Clean it up":
\* bytes are kept only for a row, or for an upload that is about to insert its
\* row or to clean up.  What fills the database for ever are the bytes of
\* uploads that were cut off and of deleted patterns, and nothing else.
NoOrphans == \A k \in blobs : Accounted(k)

\* A form that removes neither the part of an image nor one before it.
LeavesInPlace(form, i) == i.before \cup {i.of} \subseteq ToSet(form)

\* Through any sequence of saves that add and remove parts anywhere, an image is
\* shown with the part it was uploaded to as long as this part and those before
\* it are there; if one of them is removed, it may be shown with a later part,
\* but never with an earlier one.
ImagesStayWithPart ==
  \A i \in images : /\ parts[i.place] >= i.of
                    /\ LeavesInPlace(parts, i) => parts[i.place] = i.of

\* pattern.go:336, "Preserve images across group delete/re-insert": a save keeps
\* every image, and its bytes, whose part it keeps together with the parts before
\* it, whichever others it adds or removes.
SavesKeepImagesInPlace ==
  [][edition' # edition =>
       \A i \in images : LeavesInPlace(parts', i) =>
         /\ i \in images'
         /\ i.key \in blobs => i.key \in blobs']_vars

\* The same of every part that is kept: pattern.go:730 says of the images that
\* are dropped "The group was removed in this edit; the image's blob is orphaned".
SavesKeepImages ==
  [][edition' # edition =>
       \A i \in images : i.of \in ToSet(parts') =>
         /\ \E j \in images' : j.key = i.key
         /\ i.key \in blobs => i.key \in blobs']_vars
=============================================================================
