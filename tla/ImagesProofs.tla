---------------------------- MODULE ImagesProofs ----------------------------
(***************************************************************************)
(* Proofs about Images, for every number of requests, images and saves:    *)
(* the types, that no bytes are lost or orphaned, the limit per part, and  *)
(* that images stay with their parts.                                      *)
(***************************************************************************)
EXTENDS Images, FiniteSetTheorems, TLAPS

\* The types the proof needs.
ImagesTyped ==
  /\ parts \in Seq(Nat)
  /\ edition \in Nat
  /\ issued \in Nat
  /\ IsFiniteSet(images)
  /\ \A i \in images : i.key \in 0 .. issued
  /\ request \in [Requests -> RequestRecord]
  /\ \A r \in Requests : request[r].key <= issued

\* A deletion has removed the bytes before it comes to the row, and no key is
\* issued twice: they do not come back.
OrphanInv ==
  /\ ImagesTyped
  /\ blobs \subseteq 0 .. issued
  /\ \A r \in Requests : request[r].step = "deleteImage" => request[r].key \notin blobs
  /\ NoOrphans

\* An answered request is idle, and idle requests are typed.
LEMMA IdleTyped == Idle \in RequestRecord /\ Idle.key = 0 /\ Idle.step = "idle"
BY DEF Idle, NoKey, RequestRecord, Steps

\* A request that goes on changes its step only.
LEMMA GoOnRecord ==
  ASSUME NEW q \in RequestRecord, NEW step \in Steps
  PROVE  LET p == [q EXCEPT !.step = step]
         IN  p \in RequestRecord /\ p.key = q.key /\ p.step = step
BY DEF RequestRecord

\* A step of one request keeps the requests typed if it leaves a typed record.
LEMMA RequestsTyped ==
  ASSUME ImagesTyped, NEW r \in Requests, NEW q \in RequestRecord,
         request' = [request EXCEPT ![r] = q],
         issued' \in Nat, issued <= issued', q.key <= issued'
  PROVE  /\ request' \in [Requests -> RequestRecord]
         /\ \A s \in Requests : request'[s].key <= issued'
<1>1. request \in [Requests -> RequestRecord] /\ issued \in Nat
  BY DEF ImagesTyped
<1>2. request' \in [Requests -> RequestRecord]
  BY <1>1
<1>3. ASSUME NEW s \in Requests PROVE request'[s].key <= issued'
  <2>1. request[s].key \in Nat /\ request[s].key <= issued
    BY <1>1 DEF ImagesTyped, RequestRecord
  <2>2. request'[s] = IF s = r THEN q ELSE request[s]
    BY <1>1
  <2>3. QED
    BY <1>1, <2>1, <2>2
<1>4. QED
  BY <1>2, <1>3

\* The types hold initially.
LEMMA ImagesTypedInit == Init => ImagesTyped
<1> SUFFICES ASSUME Init PROVE ImagesTyped
  OBVIOUS
<1>1. parts \in Seq(Nat)
  BY ImagesAssumptions DEF Init
<1>2. IsFiniteSet(images)
  BY FS_EmptySet DEF Init
<1>3. QED
  BY <1>1, <1>2, IdleTyped DEF Init, ImagesTyped

-----------------------------------------------------------------------------
\* The steps of an upload keep the types.
LEMMA UploadTyped ==
  ASSUME ImagesTyped, NEW r \in Requests,
         \/ \E place \in DOMAIN parts : BeginUpload(r, place)
         \/ CountImages(r) \/ SaveFile(r) \/ CreateImage(r) \/ CleanUpFile(r)
  PROVE  ImagesTyped'
<1> DEFINE q == request[r]
<1>0. q \in RequestRecord /\ request \in [Requests -> RequestRecord] /\ issued \in Nat
  BY DEF ImagesTyped
<1>1. CASE \E place \in DOMAIN parts : BeginUpload(r, place)
  <2>1. PICK place \in DOMAIN parts : BeginUpload(r, place)
    BY <1>1
  <2>2. place \in Nat /\ edition \in Nat
    BY DEF ImagesTyped
  <2> DEFINE new == [Idle EXCEPT !.step = "count", !.edition = edition, !.place = place]
  <2>3. new \in RequestRecord /\ new.key = 0
    BY <2>2 DEF Idle, NoKey, RequestRecord, Steps
  <2>4. request' = [request EXCEPT ![r] = new] /\ issued' = issued
    BY <2>1 DEF BeginUpload
  <2> HIDE DEF new
  <2>5. issued' \in Nat /\ issued <= issued' /\ new.key <= issued'
    BY <1>0, <2>3, <2>4
  <2>6. /\ request' \in [Requests -> RequestRecord]
        /\ \A s \in Requests : request'[s].key <= issued'
    BY <2>3, <2>4, <2>5, RequestsTyped
  <2>7. QED
    BY <2>1, <2>6 DEF BeginUpload, ImagesTyped
<1>2. CASE CountImages(r)
  <2> DEFINE count == Cardinality(ImagesAt(q.edition, q.place))
             new == [q EXCEPT !.step = "saveFile", !.order = count]
  <2>1. IsFiniteSet(ImagesAt(q.edition, q.place))
    BY FS_Subset DEF ImagesAt, ImagesTyped
  <2>2. count \in Nat
    BY <2>1, FS_CardinalityType
  <2>3. request' = [request EXCEPT ![r] = Idle] \/ request' = [request EXCEPT ![r] = new]
    BY <1>2 DEF CountImages, Answer
  <2> HIDE DEF count
  <2>4. new \in RequestRecord /\ new.key = q.key
    BY <1>0, <2>2 DEF RequestRecord, Steps
  <2> HIDE DEF new
  <2>5. q.key <= issued
    BY DEF ImagesTyped
  <2>6. /\ request' \in [Requests -> RequestRecord]
        /\ \A s \in Requests : request'[s].key <= issued'
    BY <1>0, <1>2, <2>3, <2>4, <2>5, RequestsTyped, IdleTyped DEF CountImages
  <2>7. QED
    BY <1>2, <2>6 DEF CountImages, ImagesTyped
<1>3. CASE SaveFile(r)
  <2> DEFINE k == issued + 1
             new == [q EXCEPT !.step = "createImage", !.key = k]
  <2>1. issued' = k /\ request' = [request EXCEPT ![r] = new]
    BY <1>3 DEF SaveFile
  <2>2. k \in Nat /\ issued <= k
    BY <1>0
  <2> HIDE DEF k
  <2>3. new \in RequestRecord /\ new.key = k
    BY <1>0, <2>2 DEF RequestRecord, Steps
  <2> HIDE DEF new
  <2>4. /\ request' \in [Requests -> RequestRecord]
        /\ \A s \in Requests : request'[s].key <= issued'
    <3>1. issued' \in Nat /\ issued <= issued' /\ new.key <= issued'
      BY <2>1, <2>2, <2>3
    <3>2. QED
      BY <2>1, <2>3, <3>1, RequestsTyped
  <2>5. \A i \in images : i.key \in 0 .. issued'
    BY <1>0, <2>1, <2>2 DEF ImagesTyped
  <2>6. QED
    BY <1>3, <2>1, <2>2, <2>4, <2>5 DEF SaveFile, ImagesTyped
<1>4. CASE CreateImage(r)
  <2> DEFINE new == [q EXCEPT !.step = "cleanUp"]
  <2>1. request' = [request EXCEPT ![r] = Idle] \/ request' = [request EXCEPT ![r] = new]
    BY <1>4 DEF CreateImage, Answer, GoOn
  <2>2. new \in RequestRecord /\ new.key = q.key
    BY <1>0 DEF RequestRecord, Steps
  <2> HIDE DEF new
  <2>3. q.key <= issued
    BY DEF ImagesTyped
  <2>4. /\ request' \in [Requests -> RequestRecord]
        /\ \A s \in Requests : request'[s].key <= issued'
    BY <1>0, <1>4, <2>1, <2>2, <2>3, RequestsTyped, IdleTyped DEF CreateImage
  <2>5. IsFiniteSet(images')
    BY <1>4, FS_AddElement DEF CreateImage, ImagesTyped
  <2>6. q.key \in 0 .. issued
    BY <1>0, <2>3 DEF RequestRecord
  <2>7. \A i \in images' : i.key \in 0 .. issued
    BY <1>4, <2>6 DEF CreateImage, ImagesTyped, Image
  <2>8. QED
    BY <1>4, <2>4, <2>5, <2>7 DEF CreateImage, ImagesTyped
<1>5. CASE CleanUpFile(r)
  BY <1>0, <1>5, RequestsTyped, IdleTyped DEF CleanUpFile, ImagesTyped, Answer
<1>6. QED
  BY <1>1, <1>2, <1>3, <1>4, <1>5

\* So do the steps of a deletion, and a disconnecting client.
LEMMA DeleteTyped ==
  ASSUME ImagesTyped, NEW r \in Requests,
         \/ \E i \in images : BeginDelete(r, i.key)
         \/ GetImage(r) \/ DeleteFile(r) \/ DeleteImage(r) \/ Abort(r)
  PROVE  ImagesTyped'
<1> DEFINE q == request[r]
<1>0. q \in RequestRecord /\ request \in [Requests -> RequestRecord] /\ issued \in Nat
  BY DEF ImagesTyped
<1>a. q.key <= issued
  BY DEF ImagesTyped
<1>1. CASE \E i \in images : BeginDelete(r, i.key)
  <2>1. PICK i \in images : BeginDelete(r, i.key)
    BY <1>1
  <2> DEFINE k == i.key
             new == [Idle EXCEPT !.step = "getImage", !.edition = edition, !.key = k]
  <2>2. k \in Nat /\ k <= issued /\ edition \in Nat
    BY DEF ImagesTyped
  <2>3. request' = [request EXCEPT ![r] = new] /\ issued' = issued
    BY <2>1 DEF BeginDelete
  <2> HIDE DEF k
  <2>4. new \in RequestRecord /\ new.key = k
    BY <2>2 DEF Idle, NoKey, RequestRecord, Steps
  <2> HIDE DEF new
  <2>5. issued' \in Nat /\ issued <= issued' /\ new.key <= issued'
    BY <1>0, <2>2, <2>3, <2>4
  <2>6. /\ request' \in [Requests -> RequestRecord]
        /\ \A s \in Requests : request'[s].key <= issued'
    BY <2>3, <2>4, <2>5, RequestsTyped
  <2>7. QED
    BY <2>1, <2>6 DEF BeginDelete, ImagesTyped
<1>2. CASE GetImage(r)
  <2> DEFINE new == [q EXCEPT !.step = "deleteFile"]
  <2>1. request' = [request EXCEPT ![r] = Idle] \/ request' = [request EXCEPT ![r] = new]
    BY <1>2 DEF GetImage, Answer, GoOn
  <2>2. new \in RequestRecord /\ new.key = q.key
    BY <1>0 DEF RequestRecord, Steps
  <2> HIDE DEF new
  <2>3. /\ request' \in [Requests -> RequestRecord]
        /\ \A s \in Requests : request'[s].key <= issued'
    BY <1>0, <1>a, <1>2, <2>1, <2>2, RequestsTyped, IdleTyped DEF GetImage
  <2>4. QED
    BY <1>2, <2>3 DEF GetImage, ImagesTyped
<1>3. CASE DeleteFile(r)
  <2> DEFINE new == [q EXCEPT !.step = "deleteImage"]
  <2>1. request' = [request EXCEPT ![r] = new]
    BY <1>3 DEF DeleteFile, GoOn
  <2>2. new \in RequestRecord /\ new.key = q.key
    BY <1>0 DEF RequestRecord, Steps
  <2> HIDE DEF new
  <2>3. issued' \in Nat /\ issued <= issued' /\ new.key <= issued'
    BY <1>0, <1>a, <1>3, <2>2 DEF DeleteFile
  <2>4. /\ request' \in [Requests -> RequestRecord]
        /\ \A s \in Requests : request'[s].key <= issued'
    BY <2>1, <2>2, <2>3, RequestsTyped
  <2>5. QED
    BY <1>3, <2>4 DEF DeleteFile, ImagesTyped
<1>4. CASE DeleteImage(r)
  <2>1. images' \subseteq images /\ IsFiniteSet(images')
    BY <1>4, FS_Subset DEF DeleteImage, ImagesTyped
  <2>2. /\ issued' \in Nat /\ issued <= issued' /\ Idle.key <= issued'
        /\ request' = [request EXCEPT ![r] = Idle]
    BY <1>0, <1>4, IdleTyped DEF DeleteImage, Answer
  <2>3. /\ request' \in [Requests -> RequestRecord]
        /\ \A s \in Requests : request'[s].key <= issued'
    BY <2>2, RequestsTyped, IdleTyped
  <2>4. QED
    BY <1>4, <2>1, <2>2, <2>3 DEF DeleteImage, ImagesTyped
<1>5. CASE Abort(r)
  BY <1>0, <1>5, RequestsTyped, IdleTyped DEF Abort, ImagesTyped, Answer
<1>6. QED
  BY <1>1, <1>2, <1>3, <1>4, <1>5

\* And the owner's transactions.
LEMMA SaveTyped ==
  ASSUME ImagesTyped, (\E form \in Forms : SavePattern(form)) \/ DeletePattern
  PROVE  ImagesTyped'
<1>1. CASE \E form \in Forms : SavePattern(form)
  <2>1. PICK form \in Forms : SavePattern(form)
    BY <1>1
  <2>2. images' \subseteq images /\ IsFiniteSet(images')
    BY <2>1, FS_Subset DEF SavePattern, Restored, ImagesTyped
  <2>3. parts' \in Seq(Nat)
    BY <2>1, ImagesAssumptions DEF SavePattern
  <2>4. edition' \in Nat
    BY <2>1 DEF SavePattern, ImagesTyped
  <2>5. QED
    BY <2>1, <2>2, <2>3, <2>4 DEF SavePattern, ImagesTyped
<1>2. CASE DeletePattern
  BY <1>2, FS_EmptySet DEF DeletePattern, ImagesTyped
<1>3. QED
  BY <1>1, <1>2

-----------------------------------------------------------------------------
\* The steps of an upload leave no orphan.
LEMMA UploadLeavesNoOrphan ==
  ASSUME OrphanInv, NEW r \in Requests,
         \/ \E place \in DOMAIN parts : BeginUpload(r, place)
         \/ CountImages(r) \/ SaveFile(r) \/ CreateImage(r) \/ CleanUpFile(r)
  PROVE  OrphanInv'
<1> DEFINE q == request[r]
<1>0. /\ ImagesTyped /\ issued \in Nat /\ blobs \subseteq 0 .. issued
      /\ request \in [Requests -> RequestRecord] /\ q \in RequestRecord
      /\ \A k \in blobs : Accounted(k)
      /\ \A s \in Requests : request[s].step = "deleteImage" => request[s].key \notin blobs
      /\ \A s \in Requests : request[s].key <= issued
  BY DEF OrphanInv, ImagesTyped, NoOrphans, Accounted
<1>a. ImagesTyped'
  BY <1>0, UploadTyped
<1>b. \A s \in Requests : s # r => request'[s] = request[s]
  BY <1>0 DEF BeginUpload, CountImages, SaveFile, CreateImage, CleanUpFile, GoOn, Answer
<1>1. CASE \E place \in DOMAIN parts : BeginUpload(r, place)
  <2>1. request[r].step = "idle" /\ request'[r].step = "count"
    BY <1>0, <1>1, IdleTyped DEF BeginUpload, Idle
  <2>2. UNCHANGED << images, blobs, issued, strays >>
    BY <1>1 DEF BeginUpload
  <2>3. QED
    BY <1>0, <1>a, <1>b, <2>1, <2>2 DEF OrphanInv, NoOrphans, Accounted
<1>2. CASE CountImages(r)
  <2>1. request[r].step = "count" /\ request'[r].step \in {"idle", "saveFile"}
    BY <1>0, <1>2, IdleTyped DEF CountImages, Answer, RequestRecord
  <2>2. UNCHANGED << images, blobs, issued, strays >>
    BY <1>2 DEF CountImages
  <2>3. QED
    BY <1>0, <1>a, <1>b, <2>1, <2>2 DEF OrphanInv, NoOrphans, Accounted
<1>3. CASE SaveFile(r)
  <2>1. /\ request[r].step = "saveFile" /\ request'[r].step = "createImage"
        /\ request'[r].key = issued'
    BY <1>0, <1>3 DEF SaveFile, RequestRecord
  <2>2. /\ images' = images /\ issued' = issued + 1
        /\ blobs' = blobs \cup {issued'} /\ strays' = strays
    BY <1>3 DEF SaveFile
  <2>3. blobs' \subseteq 0 .. issued'
    BY <1>0, <2>2
  <2>4. \A s \in Requests : request'[s].step = "deleteImage" => request'[s].key \notin blobs'
    <3> SUFFICES ASSUME NEW s \in Requests, request'[s].step = "deleteImage"
                 PROVE  request'[s].key \notin blobs'
      OBVIOUS
    <3>1. s # r /\ request'[s] = request[s]
      BY <1>b, <2>1
    <3>2. request[s].key \notin blobs /\ request[s].key <= issued
      BY <1>0, <3>1
    <3>3. request[s].key # issued'
      BY <1>0, <2>2, <3>2
    <3>4. QED
      BY <2>2, <3>1, <3>2, <3>3
  <2>5. NoOrphans'
    BY <1>0, <1>b, <2>1, <2>2 DEF NoOrphans, Accounted
  <2>6. QED
    BY <1>a, <2>3, <2>4, <2>5 DEF OrphanInv
<1>4. CASE CreateImage(r)
  <2>1. request[r].step = "createImage" /\ request'[r].step \in {"idle", "cleanUp"}
    BY <1>0, <1>4, IdleTyped DEF CreateImage, Answer, GoOn, RequestRecord
  <2>2. UNCHANGED << blobs, issued, strays >> /\ images \subseteq images'
    BY <1>4 DEF CreateImage
  <2>3. \/ \E i \in images' : i.key = q.key
        \/ request'[r].step = "cleanUp" /\ request'[r].key = q.key
    <3>1. Image(q.key, q.place, q.order).key = q.key
      BY DEF Image
    <3>2. QED
      BY <1>0, <1>4, <3>1 DEF CreateImage, GoOn, RequestRecord
  <2>4. NoOrphans'
    <3> SUFFICES ASSUME NEW k \in blobs PROVE Accounted(k)'
      BY <2>2 DEF NoOrphans
    <3>1. Accounted(k)
      BY <1>0
    <3>2. CASE k = q.key
      BY <2>3, <3>2 DEF Accounted
    <3>3. CASE k # q.key
      BY <1>b, <2>2, <3>1, <3>3 DEF Accounted
    <3>4. QED
      BY <3>2, <3>3
  <2>5. QED
    BY <1>0, <1>a, <1>b, <2>1, <2>2, <2>4 DEF OrphanInv
<1>5. CASE CleanUpFile(r)
  <2>1. request[r].step = "cleanUp" /\ request'[r].step = "idle"
    BY <1>0, <1>5, IdleTyped DEF CleanUpFile, Answer
  <2>2. images' = images /\ issued' = issued /\ strays' = strays /\ blobs' = blobs \ {q.key}
    BY <1>5 DEF CleanUpFile
  <2>3. NoOrphans'
    BY <1>0, <1>b, <2>1, <2>2 DEF NoOrphans, Accounted
  <2>4. QED
    BY <1>0, <1>a, <1>b, <2>1, <2>2, <2>3 DEF OrphanInv
<1>6. QED
  BY <1>1, <1>2, <1>3, <1>4, <1>5

\* Nor do the steps of a deletion: it removes the bytes before the row.
LEMMA DeleteLeavesNoOrphan ==
  ASSUME OrphanInv, NEW r \in Requests,
         \/ \E i \in images : BeginDelete(r, i.key)
         \/ GetImage(r) \/ DeleteFile(r) \/ DeleteImage(r)
  PROVE  OrphanInv'
<1> DEFINE q == request[r]
<1>0. /\ ImagesTyped /\ issued \in Nat /\ blobs \subseteq 0 .. issued
      /\ request \in [Requests -> RequestRecord] /\ q \in RequestRecord
      /\ \A k \in blobs : Accounted(k)
      /\ \A s \in Requests : request[s].step = "deleteImage" => request[s].key \notin blobs
  BY DEF OrphanInv, ImagesTyped, NoOrphans, Accounted
<1>a. ImagesTyped'
  BY <1>0, DeleteTyped
<1>b. \A s \in Requests : s # r => request'[s] = request[s]
  BY <1>0 DEF BeginDelete, GetImage, DeleteFile, DeleteImage, GoOn, Answer
<1>1. CASE \E i \in images : BeginDelete(r, i.key)
  <2>1. request[r].step = "idle" /\ request'[r].step = "getImage"
    BY <1>0, <1>1, IdleTyped DEF BeginDelete, Idle
  <2>2. UNCHANGED << images, blobs, issued, strays >>
    BY <1>1 DEF BeginDelete
  <2>3. QED
    BY <1>0, <1>a, <1>b, <2>1, <2>2 DEF OrphanInv, NoOrphans, Accounted
<1>2. CASE GetImage(r)
  <2>1. request[r].step = "getImage" /\ request'[r].step \in {"idle", "deleteFile"}
    BY <1>0, <1>2, IdleTyped DEF GetImage, Answer, GoOn, RequestRecord
  <2>2. UNCHANGED << images, blobs, issued, strays >>
    BY <1>2 DEF GetImage
  <2>3. QED
    BY <1>0, <1>a, <1>b, <2>1, <2>2 DEF OrphanInv, NoOrphans, Accounted
<1>3. CASE DeleteFile(r)
  <2>1. /\ request[r].step = "deleteFile" /\ request'[r].step = "deleteImage"
        /\ request'[r].key = q.key
    BY <1>0, <1>3 DEF DeleteFile, GoOn, RequestRecord
  <2>2. images' = images /\ issued' = issued /\ strays' = strays /\ blobs' = blobs \ {q.key}
    BY <1>3 DEF DeleteFile
  <2>3. NoOrphans'
    <3> SUFFICES ASSUME NEW k \in blobs PROVE Accounted(k)'
      BY <2>2 DEF NoOrphans
    <3>1. Accounted(k)
      BY <1>0
    <3>2. QED
      BY <1>b, <2>1, <2>2, <3>1 DEF Accounted
  <2>4. QED
    BY <1>0, <1>a, <1>b, <2>1, <2>2, <2>3 DEF OrphanInv
<1>4. CASE DeleteImage(r)
  <2>1. /\ request[r].step = "deleteImage" /\ request'[r].step = "idle"
        /\ q.key \notin blobs
    BY <1>0, <1>4, IdleTyped DEF DeleteImage, Answer
  <2>2. /\ UNCHANGED << blobs, issued >> /\ strays \subseteq strays'
        /\ \A i \in images : i.key # q.key => i \in images'
    BY <1>4 DEF DeleteImage, ImageWith
  <2>3. NoOrphans'
    <3> SUFFICES ASSUME NEW k \in blobs PROVE Accounted(k)'
      BY <2>2 DEF NoOrphans
    <3>1. Accounted(k) /\ k # q.key
      BY <1>0, <2>1
    <3>2. QED
      BY <1>b, <2>1, <2>2, <3>1 DEF Accounted
  <2>4. QED
    BY <1>0, <1>a, <1>b, <2>1, <2>2, <2>3 DEF OrphanInv
<1>5. QED
  BY <1>1, <1>2, <1>3, <1>4

\* Nor does a save: it removes the bytes of the rows it does not restore.
LEMMA SaveLeavesNoOrphan ==
  ASSUME OrphanInv, NEW form \in Forms, SavePattern(form)
  PROVE  OrphanInv'
<1>1. ImagesTyped'
  BY SaveTyped DEF OrphanInv
<1>2. UNCHANGED << issued, request, strays >> /\ blobs' \subseteq blobs
  BY DEF SavePattern
<1>3. ASSUME NEW k \in blobs', NEW i \in images, i.key = k
      PROVE  i \in images'
  <2>1. i.place \in DOMAIN form
    BY <1>3 DEF SavePattern
  <2>2. QED
    BY <2>1 DEF SavePattern, Restored
<1>4. NoOrphans'
  BY <1>2, <1>3 DEF OrphanInv, NoOrphans, Accounted
<1>5. QED
  BY <1>1, <1>2, <1>4 DEF OrphanInv

\* Nor does a client that disconnects, or the deletion of the pattern, beyond
\* the keys that are counted as strays from then on.
LEMMA CutLeavesNoOrphan ==
  ASSUME OrphanInv, (\E r \in Requests : Abort(r)) \/ DeletePattern
  PROVE  OrphanInv'
<1>0. ImagesTyped
  BY DEF OrphanInv
<1>1. CASE \E r \in Requests : Abort(r)
  <2>1. PICK r \in Requests : Abort(r)
    BY <1>1
  <2>2. ImagesTyped'
    BY <1>0, <2>1, DeleteTyped
  <2>3. /\ request'[r].step = "idle"
        /\ \A s \in Requests : s # r => request'[s] = request[s]
    BY <1>0, <2>1, IdleTyped DEF Abort, Answer, ImagesTyped
  <2>4. /\ UNCHANGED << images, blobs, issued >> /\ strays \subseteq strays'
        /\ request[r].step \in {"createImage", "cleanUp"} => request[r].key \in strays'
    BY <2>1 DEF Abort
  <2>5. NoOrphans'
    BY <2>3, <2>4 DEF OrphanInv, NoOrphans, Accounted
  <2>6. QED
    BY <2>2, <2>3, <2>4, <2>5 DEF OrphanInv
<1>2. CASE DeletePattern
  <2>1. ImagesTyped'
    BY <1>0, <1>2, SaveTyped
  <2>2. /\ UNCHANGED << blobs, issued, request >> /\ strays \subseteq strays'
        /\ \A i \in images : i.key \in strays'
    BY <1>2 DEF DeletePattern
  <2>3. NoOrphans'
    BY <2>2 DEF OrphanInv, NoOrphans, Accounted
  <2>4. QED
    BY <2>1, <2>2, <2>3 DEF OrphanInv
<1>3. QED
  BY <1>1, <1>2

\* The bytes of every image are in the end either shown or removed, unless its
\* upload was cut off or its pattern deleted: uploads, deletions and saves may
\* overlap in any way.
THEOREM NothingIsOrphaned == Spec => []NoOrphans
<1>1. Init => OrphanInv
  BY ImagesTypedInit DEF Init, OrphanInv, NoOrphans, Idle
<1>2. OrphanInv /\ [Next]_vars => OrphanInv'
  <2> SUFFICES ASSUME OrphanInv, [Next]_vars PROVE OrphanInv'
    OBVIOUS
  <2>1. CASE \E r \in Requests :
               \/ \E place \in DOMAIN parts : BeginUpload(r, place)
               \/ CountImages(r) \/ SaveFile(r) \/ CreateImage(r) \/ CleanUpFile(r)
    BY <2>1, UploadLeavesNoOrphan
  <2>2. CASE \E r \in Requests :
               \/ \E i \in images : BeginDelete(r, i.key)
               \/ GetImage(r) \/ DeleteFile(r) \/ DeleteImage(r)
    BY <2>2, DeleteLeavesNoOrphan
  <2>3. CASE \E form \in Forms : SavePattern(form)
    BY <2>3, SaveLeavesNoOrphan
  <2>4. CASE (\E r \in Requests : Abort(r)) \/ DeletePattern
    BY <2>4, CutLeavesNoOrphan
  <2>5. CASE UNCHANGED vars
    BY <2>5 DEF vars, OrphanInv, ImagesTyped, NoOrphans, Accounted
  <2>6. QED
    BY <2>1, <2>2, <2>3, <2>4, <2>5 DEF Next
<1>3. OrphanInv => NoOrphans
  BY DEF OrphanInv
<1>4. QED
  BY <1>1, <1>2, <1>3, PTL DEF Spec

-----------------------------------------------------------------------------
(***************************************************************************)
(* Types, and the bytes of the rows.                                       *)
(***************************************************************************)

\* The steps at which a request has a key.
Keyed == {"createImage", "cleanUp", "getImage", "deleteFile", "deleteImage"}

\* What TypeOK leaves out: no request has an edition that is still to come, and
\* the key a request works with has been issued.
RequestsBelong ==
  \A r \in Requests :
    /\ request[r].edition <= edition
    /\ request[r].step \in Keyed => request[r].key \in 1 .. issued

\* No two rows share a key; and the key of an upload in progress is neither a
\* row's nor another request's, and its bytes are there when the row is inserted.
KeysApart ==
  /\ \A i \in images, j \in images : i.key = j.key => i = j
  /\ \A r \in Requests : request[r].step \in {"createImage", "cleanUp"} =>
       /\ \A i \in images : i.key # request[r].key
       /\ \A s \in Requests : s # r => request[s].key # request[r].key
       /\ request[r].step = "createImage" => request[r].key \in blobs

ImagesInv ==
  /\ ImagesTyped
  /\ TypeOK
  /\ RequestsBelong
  /\ KeysApart
  /\ RowsHaveBytes

\* Every step keeps the types of the proof.
LEMMA ImagesTypedKept == ASSUME ImagesTyped, [Next]_vars PROVE ImagesTyped'
<1>1. CASE \E r \in Requests :
             \/ \E place \in DOMAIN parts : BeginUpload(r, place)
             \/ CountImages(r) \/ SaveFile(r) \/ CreateImage(r) \/ CleanUpFile(r)
  BY <1>1, UploadTyped
<1>2. CASE \E r \in Requests :
             \/ \E i \in images : BeginDelete(r, i.key)
             \/ GetImage(r) \/ DeleteFile(r) \/ DeleteImage(r) \/ Abort(r)
  BY <1>2, DeleteTyped
<1>3. CASE (\E form \in Forms : SavePattern(form)) \/ DeletePattern
  BY <1>3, SaveTyped
<1>4. CASE UNCHANGED vars
  BY <1>4 DEF vars, ImagesTyped
<1>5. QED
  BY <1>1, <1>2, <1>3, <1>4 DEF Next

\* A request whose next step has no key, or that kept the one it had, belongs.
LEMMA RequestsBelongKept ==
  ASSUME ImagesTyped, RequestsBelong, NEW r \in Requests, NEW q,
         request' = [request EXCEPT ![r] = q],
         edition' = edition, issued' \in Nat, issued <= issued',
         q.edition <= edition,
         q.step \in Keyed => q.key \in 1 .. issued'
  PROVE  RequestsBelong'
<1>1. request \in [Requests -> RequestRecord] /\ issued \in Nat
  BY DEF ImagesTyped
<1> SUFFICES ASSUME NEW s \in Requests
             PROVE  /\ request'[s].edition <= edition
                    /\ request'[s].step \in Keyed => request'[s].key \in 1 .. issued'
  BY DEF RequestsBelong
<1>2. CASE s = r
  <2>1. request'[s] = q
    BY <1>1, <1>2
  <2>2. QED
    BY <2>1
<1>3. CASE s # r
  <2>1. request'[s] = request[s]
    BY <1>1, <1>3
  <2>2. /\ request[s].edition <= edition
        /\ request[s].step \in Keyed => request[s].key \in 1 .. issued
    BY DEF RequestsBelong
  <2>3. 1 .. issued \subseteq 1 .. issued'
    BY <1>1
  <2>4. QED
    BY <2>1, <2>2, <2>3
<1>4. QED
  BY <1>2, <1>3

\* Initially.
LEMMA ImagesInvInit == Init => ImagesInv
<1> SUFFICES ASSUME Init PROVE ImagesInv
  OBVIOUS
<1>1. ImagesTyped
  BY ImagesTypedInit
<1>2. TypeOK
  BY <1>1, ImagesAssumptions DEF Init, ImagesTyped, TypeOK
<1>3. \A r \in Requests : request[r] = Idle
  BY DEF Init
<1>4. Idle.edition = 0 /\ Idle.step = "idle"
  BY DEF Idle
<1>5. RequestsBelong
  BY <1>3, <1>4 DEF Init, RequestsBelong, Keyed
<1>6. KeysApart /\ RowsHaveBytes
  BY <1>3, <1>4 DEF Init, KeysApart, RowsHaveBytes
<1>7. QED
  BY <1>1, <1>2, <1>5, <1>6 DEF ImagesInv

\* The steps of an upload.
LEMMA UploadKeepsImagesInv ==
  ASSUME ImagesInv, NEW r \in Requests,
         \/ \E place \in DOMAIN parts : BeginUpload(r, place)
         \/ CountImages(r) \/ SaveFile(r) \/ CreateImage(r) \/ CleanUpFile(r)
  PROVE  ImagesInv'
<1> DEFINE q == request[r]
<1>0. /\ ImagesTyped /\ TypeOK /\ RequestsBelong /\ KeysApart /\ RowsHaveBytes
      /\ issued \in Nat /\ edition \in Nat
      /\ request \in [Requests -> RequestRecord] /\ q \in RequestRecord
  BY DEF ImagesInv, ImagesTyped
<1>a. ImagesTyped'
  BY <1>0, UploadTyped
<1>b. \A s \in Requests : s # r => request'[s] = request[s]
  BY <1>0 DEF BeginUpload, CountImages, SaveFile, CreateImage, CleanUpFile, GoOn, Answer
<1>c. request' \in [Requests -> RequestRecord] /\ request'[r] \in RequestRecord
  BY <1>a DEF ImagesTyped
<1>d. /\ \A s \in Requests : request[s].key \in Nat /\ request[s].key <= issued
      /\ Idle.edition = 0 /\ Idle.step = "idle" /\ Idle.key = 0
  BY <1>0 DEF ImagesTyped, RequestRecord, Idle, NoKey
<1>e. q.edition <= edition /\ (q.step \in Keyed => q.key \in 1 .. issued)
  BY <1>0 DEF RequestsBelong
<1>1. CASE \E place \in DOMAIN parts : BeginUpload(r, place)
  <2>1. PICK place \in DOMAIN parts : BeginUpload(r, place)
    BY <1>1
  <2> DEFINE new == [Idle EXCEPT !.step = "count", !.edition = edition, !.place = place]
  <2>2. new.edition = edition /\ new.step = "count" /\ new.key = 0
    BY DEF Idle, NoKey
  <2>3. /\ request' = [request EXCEPT ![r] = new] /\ request[r] = Idle
        /\ parts' = parts /\ edition' = edition /\ images' = images /\ blobs' = blobs
        /\ issued' = issued /\ strays' = strays
    BY <2>1 DEF BeginUpload
  <2> HIDE DEF new
  <2>4. request'[r] = new
    BY <1>0, <2>3
  <2>5. RequestsBelong'
    <3>1. /\ issued' \in Nat /\ issued <= issued' /\ new.edition <= edition
          /\ new.step \notin Keyed
      BY <1>0, <2>2, <2>3 DEF Keyed
    <3>2. QED
      BY <1>0, <2>3, <3>1, RequestsBelongKept
  <2>6. TypeOK'
    BY <1>0, <1>c, <2>3 DEF TypeOK
  <2>7. KeysApart'
    <3>1. \A k \in Requests : request'[k].step \in {"createImage", "cleanUp"} =>
            k # r /\ request'[k] = request[k] /\ request[k].key # 0
      BY <1>0, <1>b, <2>2, <2>4 DEF RequestsBelong, Keyed
    <3>2. QED
      BY <1>0, <1>b, <2>2, <2>3, <2>4, <3>1 DEF KeysApart
  <2>8. RowsHaveBytes'
    BY <1>0, <1>b, <1>d, <2>3 DEF RowsHaveBytes
  <2>9. QED
    BY <1>a, <2>5, <2>6, <2>7, <2>8 DEF ImagesInv
<1>2. CASE CountImages(r)
  <2> DEFINE count == Cardinality(ImagesAt(q.edition, q.place))
             new == [q EXCEPT !.step = "saveFile", !.order = count]
  <2>1. /\ request' = [request EXCEPT ![r] = Idle] \/ request' = [request EXCEPT ![r] = new]
        /\ q.step = "count"
        /\ parts' = parts /\ edition' = edition /\ images' = images /\ blobs' = blobs
        /\ issued' = issued /\ strays' = strays
    BY <1>2 DEF CountImages, Answer
  <2> HIDE DEF count
  <2>2. new.edition = q.edition /\ new.step = "saveFile" /\ new.key = q.key
    BY <1>0 DEF RequestRecord
  <2> HIDE DEF new
  <2>3. request'[r] = Idle \/ request'[r] = new
    BY <1>0, <2>1
  <2>4. RequestsBelong'
    BY <1>0, <1>d, <1>e, <2>1, <2>2, RequestsBelongKept DEF Keyed
  <2>5. TypeOK'
    BY <1>0, <1>c, <2>1 DEF TypeOK
  <2>6. KeysApart'
    <3>1. \A k \in Requests : request'[k].step \in {"createImage", "cleanUp"} =>
            k # r /\ request'[k] = request[k] /\ request[k].key # 0
      BY <1>0, <1>b, <1>d, <2>2, <2>3 DEF RequestsBelong, Keyed
    <3>2. QED
      BY <1>0, <1>b, <1>d, <2>1, <2>2, <2>3, <3>1 DEF KeysApart
  <2>7. RowsHaveBytes'
    BY <1>0, <1>b, <1>d, <2>1 DEF RowsHaveBytes
  <2>8. QED
    BY <1>a, <2>4, <2>5, <2>6, <2>7 DEF ImagesInv
<1>3. CASE SaveFile(r)
  <2> DEFINE k == issued + 1
             new == [q EXCEPT !.step = "createImage", !.key = k]
  <2>1. /\ request' = [request EXCEPT ![r] = new] /\ q.step = "saveFile"
        /\ issued < MaxKeys /\ issued' = k /\ blobs' = blobs \cup {k}
        /\ parts' = parts /\ edition' = edition /\ images' = images /\ strays' = strays
    BY <1>3 DEF SaveFile
  <2>2. k \in Nat /\ issued <= k /\ k \in 1 .. k /\ ~ (k <= issued)
    BY <1>0
  <2>3. 1 .. issued \subseteq 1 .. k
    BY <1>0
  <2>4. MaxKeys \in Nat => k \in 0 .. MaxKeys
    BY <1>0, <2>1
  <2> HIDE DEF k
  <2>5. new.edition = q.edition /\ new.step = "createImage" /\ new.key = k
    BY <1>0 DEF RequestRecord
  <2> HIDE DEF new
  <2>6. request'[r] = new
    BY <1>0, <2>1
  <2>7. RequestsBelong'
    BY <1>0, <1>e, <2>1, <2>2, <2>5, RequestsBelongKept
  <2>8. TypeOK'
    BY <1>0, <1>c, <2>1, <2>2, <2>3, <2>4, ImagesAssumptions DEF TypeOK
  <2>9. KeysApart'
    <3>1. /\ \A i \in images : i.key # k
          /\ \A s \in Requests : request[s].key # k
      BY <1>0, <1>d, <2>2 DEF TypeOK
    <3>2. QED
      BY <1>0, <1>b, <2>1, <2>5, <2>6, <3>1 DEF KeysApart
  <2>10. RowsHaveBytes'
    BY <1>0, <1>b, <2>1 DEF RowsHaveBytes
  <2>11. QED
    BY <1>a, <2>7, <2>8, <2>9, <2>10 DEF ImagesInv
<1>4. CASE CreateImage(r)
  <2> DEFINE new == [q EXCEPT !.step = "cleanUp"]
             row == Image(q.key, q.place, q.order)
  <2>1. /\ q.step = "createImage" /\ q.key \in 1 .. issued /\ q.key \in blobs
        /\ parts' = parts /\ edition' = edition /\ blobs' = blobs
        /\ issued' = issued /\ strays' = strays
    BY <1>0, <1>4, <1>e DEF CreateImage, KeysApart, Keyed
  <2>2. \/ /\ GroupExists(q.edition, q.place) /\ images' = images \cup {row}
           /\ request' = [request EXCEPT ![r] = Idle]
        \/ images' = images /\ request' = [request EXCEPT ![r] = new]
    BY <1>4 DEF CreateImage, Answer, GoOn
  <2>3. new.edition = q.edition /\ new.step = "cleanUp" /\ new.key = q.key
    BY <1>0 DEF RequestRecord
  <2>4. /\ row.key = q.key /\ row.place = q.place /\ row.order = q.order
        /\ q.order \in Nat
        /\ GroupExists(q.edition, q.place) => q.place \in DOMAIN parts
    BY <1>0 DEF Image, GroupExists, RequestRecord
  <2> HIDE DEF new, row
  <2>5. request'[r] = Idle \/ (request'[r] = new /\ images' = images)
    BY <1>0, <2>2
  <2>6. RequestsBelong'
    BY <1>0, <1>d, <1>e, <2>1, <2>2, <2>3, RequestsBelongKept DEF Keyed
  <2>7. TypeOK'
    BY <1>0, <1>c, <2>1, <2>2, <2>4 DEF TypeOK
  <2>8. \A i \in images : i.key # q.key
    BY <1>0, <2>1 DEF KeysApart
  <2>9. KeysApart'
    <3>1. \A i \in images', j \in images' : i.key = j.key => i = j
      BY <1>0, <2>2, <2>4, <2>8 DEF KeysApart
    <3>2. ASSUME NEW s \in Requests, request'[s].step \in {"createImage", "cleanUp"}
          PROVE  /\ \A i \in images' : i.key # request'[s].key
                 /\ \A t \in Requests : t # s => request'[t].key # request'[s].key
                 /\ request'[s].step = "createImage" => request'[s].key \in blobs'
      <4>1. CASE s = r
        BY <1>0, <1>b, <1>d, <2>1, <2>3, <2>5, <2>8, <3>2, <4>1 DEF KeysApart
      <4>2. CASE s # r
        <5>1. request'[s] = request[s] /\ request[s].key # q.key /\ request[s].key # 0
          BY <1>0, <1>b, <2>1, <3>2, <4>2 DEF KeysApart, RequestsBelong, Keyed
        <5>2. QED
          BY <1>0, <1>b, <1>d, <2>1, <2>2, <2>3, <2>4, <2>5, <3>2, <5>1 DEF KeysApart
      <4>3. QED
        BY <4>1, <4>2
    <3>3. QED
      BY <3>1, <3>2 DEF KeysApart
  <2>10. RowsHaveBytes'
    BY <1>0, <1>b, <2>1, <2>2, <2>4 DEF RowsHaveBytes
  <2>11. QED
    BY <1>a, <2>6, <2>7, <2>9, <2>10 DEF ImagesInv
<1>5. CASE CleanUpFile(r)
  <2>1. /\ q.step = "cleanUp" /\ request' = [request EXCEPT ![r] = Idle]
        /\ blobs' = blobs \ {q.key}
        /\ parts' = parts /\ edition' = edition /\ images' = images
        /\ issued' = issued /\ strays' = strays
    BY <1>5 DEF CleanUpFile, Answer
  <2>2. request'[r] = Idle
    BY <1>0, <2>1
  <2>3. RequestsBelong'
    <3>1. /\ issued' \in Nat /\ issued <= issued' /\ Idle.edition <= edition
          /\ Idle.step \notin Keyed
      BY <1>0, <1>d, <2>1 DEF Keyed
    <3>2. QED
      BY <1>0, <2>1, <3>1, RequestsBelongKept
  <2>4. TypeOK'
    BY <1>0, <1>c, <2>1 DEF TypeOK
  <2>5. /\ \A i \in images : i.key # q.key
        /\ \A s \in Requests : s # r => request[s].key # q.key
    BY <1>0, <2>1 DEF KeysApart
  <2>6. KeysApart'
    <3>1. \A k \in Requests : request'[k].step \in {"createImage", "cleanUp"} =>
            k # r /\ request'[k] = request[k] /\ request[k].key # 0
      BY <1>0, <1>b, <1>d, <2>2 DEF RequestsBelong, Keyed
    <3>2. QED
      BY <1>0, <1>b, <1>d, <2>1, <2>2, <2>5, <3>1 DEF KeysApart
  <2>7. RowsHaveBytes'
    BY <1>0, <1>b, <2>1, <2>5 DEF RowsHaveBytes
  <2>8. QED
    BY <1>a, <2>3, <2>4, <2>6, <2>7 DEF ImagesInv
<1>6. QED
  BY <1>1, <1>2, <1>3, <1>4, <1>5

\* The steps of a deletion, and a client that disconnects.
LEMMA DeleteKeepsImagesInv ==
  ASSUME ImagesInv, NEW r \in Requests,
         \/ \E i \in images : BeginDelete(r, i.key)
         \/ GetImage(r) \/ DeleteFile(r) \/ DeleteImage(r) \/ Abort(r)
  PROVE  ImagesInv'
<1> DEFINE q == request[r]
<1>0. /\ ImagesTyped /\ TypeOK /\ RequestsBelong /\ KeysApart /\ RowsHaveBytes
      /\ issued \in Nat /\ edition \in Nat
      /\ request \in [Requests -> RequestRecord] /\ q \in RequestRecord
  BY DEF ImagesInv, ImagesTyped
<1>a. ImagesTyped'
  BY <1>0, DeleteTyped
<1>b. \A s \in Requests : s # r => request'[s] = request[s]
  BY <1>0 DEF BeginDelete, GetImage, DeleteFile, DeleteImage, Abort, GoOn, Answer
<1>c. request' \in [Requests -> RequestRecord] /\ request'[r] \in RequestRecord
  BY <1>a DEF ImagesTyped
<1>d. Idle.edition = 0 /\ Idle.step = "idle" /\ Idle.key = 0
  BY DEF Idle, NoKey
<1>e. q.edition <= edition /\ (q.step \in Keyed => q.key \in 1 .. issued)
  BY <1>0 DEF RequestsBelong
<1>f. issued <= issued
  BY <1>0
<1>g. /\ Idle.edition <= edition /\ Idle.step \notin Keyed
      /\ \A s \in Requests :
           request[s].step \in {"createImage", "cleanUp"} => request[s].key # 0
  BY <1>0, <1>d DEF RequestsBelong, Keyed
<1>1. CASE \E i \in images : BeginDelete(r, i.key)
  <2>1. PICK i \in images : BeginDelete(r, i.key)
    BY <1>1
  <2> DEFINE k == i.key
             new == [Idle EXCEPT !.step = "getImage", !.edition = edition, !.key = k]
  <2>2. k \in 1 .. issued
    BY <1>0 DEF TypeOK
  <2>3. /\ request' = [request EXCEPT ![r] = new] /\ q = Idle
        /\ parts' = parts /\ edition' = edition /\ images' = images /\ blobs' = blobs
        /\ issued' = issued /\ strays' = strays
    BY <2>1 DEF BeginDelete
  <2>4. \A s \in Requests :
          request[s].step \in {"createImage", "cleanUp"} => request[s].key # k
    BY <1>0, <2>1 DEF KeysApart
  <2> HIDE DEF k
  <2>5. new.edition = edition /\ new.step = "getImage" /\ new.key = k
    BY DEF Idle
  <2> HIDE DEF new
  <2>6. request'[r] = new /\ edition <= edition
    BY <1>0, <2>3
  <2>7. RequestsBelong'
    BY <1>0, <1>f, <2>2, <2>3, <2>5, <2>6, RequestsBelongKept
  <2>8. TypeOK'
    BY <1>0, <1>c, <2>3 DEF TypeOK
  <2>9. KeysApart'
    <3>1. \A s \in Requests : request'[s].step \in {"createImage", "cleanUp"} =>
            s # r /\ request'[s] = request[s] /\ request[s].key # k
      BY <1>b, <2>4, <2>5, <2>6
    <3>2. QED
      BY <1>0, <1>b, <2>3, <2>5, <2>6, <3>1 DEF KeysApart
  <2>10. RowsHaveBytes'
    BY <1>0, <1>b, <1>d, <2>3 DEF RowsHaveBytes
  <2>11. QED
    BY <1>a, <2>7, <2>8, <2>9, <2>10 DEF ImagesInv
<1>2. CASE GetImage(r)
  <2> DEFINE new == [q EXCEPT !.step = "deleteFile"]
  <2>1. /\ request' = [request EXCEPT ![r] = Idle] \/ request' = [request EXCEPT ![r] = new]
        /\ q.step = "getImage"
        /\ parts' = parts /\ edition' = edition /\ images' = images /\ blobs' = blobs
        /\ issued' = issued /\ strays' = strays
    BY <1>2 DEF GetImage, Answer, GoOn
  <2>2. new.edition = q.edition /\ new.step = "deleteFile" /\ new.key = q.key
    BY <1>0 DEF RequestRecord
  <2> HIDE DEF new
  <2>3. request'[r] = Idle \/ request'[r] = new
    BY <1>0, <2>1
  <2>4. RequestsBelong'
    BY <1>0, <1>e, <1>f, <1>g, <2>1, <2>2, RequestsBelongKept DEF Keyed
  <2>5. TypeOK'
    BY <1>0, <1>c, <2>1 DEF TypeOK
  <2>6. KeysApart'
    <3>1. \A s \in Requests : request'[s].step \in {"createImage", "cleanUp"} =>
            s # r /\ request'[s] = request[s] /\ request[s].key # 0
      BY <1>b, <1>d, <1>g, <2>2, <2>3
    <3>2. QED
      BY <1>0, <1>b, <1>d, <2>1, <2>2, <2>3, <3>1 DEF KeysApart
  <2>7. RowsHaveBytes'
    BY <1>0, <1>b, <2>1 DEF RowsHaveBytes
  <2>8. QED
    BY <1>a, <2>4, <2>5, <2>6, <2>7 DEF ImagesInv
<1>3. CASE DeleteFile(r)
  <2> DEFINE new == [q EXCEPT !.step = "deleteImage"]
  <2>1. /\ request' = [request EXCEPT ![r] = new]
        /\ q.step = "deleteFile" /\ blobs' = blobs \ {q.key}
        /\ parts' = parts /\ edition' = edition /\ images' = images
        /\ issued' = issued /\ strays' = strays
    BY <1>3 DEF DeleteFile, GoOn
  <2>2. new.edition = q.edition /\ new.step = "deleteImage" /\ new.key = q.key
    BY <1>0 DEF RequestRecord
  <2> HIDE DEF new
  <2>3. request'[r] = new
    BY <1>0, <2>1
  <2>4. RequestsBelong'
    <3>1. q.key \in 1 .. issued
      BY <1>e, <2>1 DEF Keyed
    <3>2. QED
      BY <1>0, <1>e, <1>f, <2>1, <2>2, <3>1, RequestsBelongKept
  <2>5. TypeOK'
    BY <1>0, <1>c, <2>1 DEF TypeOK
  <2>6. KeysApart'
    <3>1. \A s \in Requests : request'[s].step \in {"createImage", "cleanUp"} =>
            s # r /\ request'[s] = request[s] /\ request[s].key # q.key
      BY <1>0, <1>b, <2>2, <2>3 DEF KeysApart
    <3>2. QED
      BY <1>0, <1>b, <2>1, <2>2, <2>3, <3>1 DEF KeysApart
  <2>7. RowsHaveBytes'
    <3> SUFFICES ASSUME NEW i \in images
                 PROVE  i.key \in blobs' \cup strays \/ \E s \in Requests :
                          request'[s].step = "deleteImage" /\ request'[s].key = i.key
      BY <2>1 DEF RowsHaveBytes
    <3>1. CASE i.key = q.key
      BY <2>2, <2>3, <3>1
    <3>2. CASE i.key # q.key
      BY <1>0, <1>b, <2>1, <3>2 DEF RowsHaveBytes
    <3>3. QED
      BY <3>1, <3>2
  <2>8. QED
    BY <1>a, <2>4, <2>5, <2>6, <2>7 DEF ImagesInv
<1>4. CASE DeleteImage(r)
  <2> DEFINE found == ImageWith(q.edition, q.key)
  <2>1. /\ q.step = "deleteImage" /\ request' = [request EXCEPT ![r] = Idle]
        /\ images' = images \ found
        /\ strays' = IF found = {} THEN strays \cup {q.key} ELSE strays
        /\ parts' = parts /\ edition' = edition /\ blobs' = blobs /\ issued' = issued
    BY <1>4 DEF DeleteImage, Answer
  <2>2. request'[r] = Idle /\ q.key \in 1 .. issued
    BY <1>0, <1>e, <2>1 DEF Keyed
  <2>3. found = {} \/ \A i \in images : i.key = q.key => i \in found
    BY DEF ImageWith
  <2> HIDE DEF found
  <2>4. RequestsBelong'
    BY <1>0, <1>f, <1>g, <2>1, RequestsBelongKept
  <2>5. TypeOK'
    BY <1>0, <1>c, <2>1, <2>2 DEF TypeOK
  <2>6. KeysApart'
    <3>1. \A s \in Requests : request'[s].step \in {"createImage", "cleanUp"} =>
            s # r /\ request'[s] = request[s] /\ request[s].key # 0
      BY <1>b, <1>d, <1>g, <2>2
    <3>2. QED
      BY <1>0, <1>b, <1>d, <2>1, <2>2, <3>1 DEF KeysApart
  <2>7. RowsHaveBytes'
    <3> SUFFICES ASSUME NEW i \in images'
                 PROVE  i.key \in blobs \cup strays' \/ \E s \in Requests :
                          request'[s].step = "deleteImage" /\ request'[s].key = i.key
      BY <2>1 DEF RowsHaveBytes
    <3>1. CASE i.key = q.key
      BY <2>1, <2>3, <3>1
    <3>2. CASE i.key # q.key
      BY <1>0, <1>b, <2>1, <3>2 DEF RowsHaveBytes
    <3>3. QED
      BY <3>1, <3>2
  <2>8. QED
    BY <1>a, <2>4, <2>5, <2>6, <2>7 DEF ImagesInv
<1>5. CASE Abort(r)
  <2>1. /\ request' = [request EXCEPT ![r] = Idle]
        /\ strays' = strays \/ (q.step \in Keyed /\ strays' = strays \cup {q.key})
        /\ q.step = "deleteImage" => q.key \in strays'
        /\ parts' = parts /\ edition' = edition /\ images' = images
        /\ blobs' = blobs /\ issued' = issued
    BY <1>5 DEF Abort, Answer, Keyed
  <2>2. request'[r] = Idle
    BY <1>0, <2>1
  <2>3. RequestsBelong'
    BY <1>0, <1>f, <1>g, <2>1, RequestsBelongKept
  <2>4. TypeOK'
    BY <1>0, <1>c, <1>e, <2>1 DEF TypeOK
  <2>5. KeysApart'
    <3>1. \A s \in Requests : request'[s].step \in {"createImage", "cleanUp"} =>
            s # r /\ request'[s] = request[s] /\ request[s].key # 0
      BY <1>b, <1>d, <1>g, <2>2
    <3>2. QED
      BY <1>0, <1>b, <1>d, <2>1, <2>2, <3>1 DEF KeysApart
  <2>6. RowsHaveBytes'
    BY <1>0, <1>b, <2>1 DEF RowsHaveBytes
  <2>7. QED
    BY <1>a, <2>3, <2>4, <2>5, <2>6 DEF ImagesInv
<1>6. QED
  BY <1>1, <1>2, <1>3, <1>4, <1>5

\* The owner's transactions.  A save keeps the bytes of the rows it keeps, since
\* no row it drops has their key.
LEMMA SaveKeepsImagesInv ==
  ASSUME ImagesInv, (\E form \in Forms : SavePattern(form)) \/ DeletePattern
  PROVE  ImagesInv'
<1>0. /\ ImagesTyped /\ TypeOK /\ RequestsBelong /\ KeysApart /\ RowsHaveBytes
      /\ issued \in Nat /\ edition \in Nat /\ request \in [Requests -> RequestRecord]
  BY DEF ImagesInv, ImagesTyped
<1>a. ImagesTyped'
  BY <1>0, SaveTyped
<1>1. CASE \E form \in Forms : SavePattern(form)
  <2>1. PICK form \in Forms : SavePattern(form)
    BY <1>1
  <2> DEFINE dropped == {j \in images : j.place \notin DOMAIN form}
  <2>2. /\ parts' = form /\ edition < MaxSaves /\ edition' = edition + 1
        /\ images' = {i \in images : i.place \in DOMAIN form}
        /\ blobs' = blobs \ {i.key : i \in dropped}
        /\ issued' = issued /\ request' = request /\ strays' = strays
    BY <2>1 DEF SavePattern, Restored
  <2>3. edition' \in 0 .. MaxSaves
    BY <1>0, <2>2, ImagesAssumptions
  <2>4. TypeOK'
    BY <1>0, <2>2, <2>3 DEF TypeOK
  <2>5. RequestsBelong'
    <3> SUFFICES ASSUME NEW s \in Requests
                 PROVE  request[s].edition <= edition + 1 /\
                        (request[s].step \in Keyed => request[s].key \in 1 .. issued)
      BY <2>2 DEF RequestsBelong
    <3>1. request[s].edition \in Nat /\ request[s].edition <= edition
      BY <1>0 DEF RequestsBelong, RequestRecord
    <3>2. QED
      BY <1>0, <3>1 DEF RequestsBelong
  <2>6. ASSUME NEW k \in blobs, \A i \in images : i.key = k => i \in images'
        PROVE  k \in blobs'
    BY <2>2, <2>6
  <2>7. KeysApart'
    BY <1>0, <2>2, <2>6 DEF KeysApart
  <2>8. RowsHaveBytes'
    <3> SUFFICES ASSUME NEW i \in images', i.key \in blobs
                 PROVE  i.key \in blobs'
      BY <1>0, <2>2 DEF RowsHaveBytes
    <3>1. \A j \in images : j.key = i.key => j \in images'
      BY <1>0, <2>2 DEF KeysApart
    <3>2. QED
      BY <2>6, <3>1
  <2>9. QED
    BY <1>a, <2>4, <2>5, <2>7, <2>8 DEF ImagesInv
<1>2. CASE DeletePattern
  <2>1. /\ parts' = << >> /\ images' = {} /\ strays' = strays \cup {i.key : i \in images}
        /\ edition' = edition /\ blobs' = blobs /\ issued' = issued /\ request' = request
    BY <1>2 DEF DeletePattern
  <2>2. TypeOK'
    BY <1>0, <2>1 DEF TypeOK
  <2>3. RequestsBelong'
    BY <1>0, <2>1 DEF RequestsBelong
  <2>4. KeysApart' /\ RowsHaveBytes'
    BY <1>0, <2>1 DEF KeysApart, RowsHaveBytes
  <2>5. QED
    BY <1>a, <2>2, <2>3, <2>4 DEF ImagesInv
<1>3. QED
  BY <1>1, <1>2

\* The invariant holds in every state that is reached.
THEOREM ImagesInvHolds == Spec => []ImagesInv
<1>1. Init => ImagesInv
  BY ImagesInvInit
<1>2. ImagesInv /\ [Next]_vars => ImagesInv'
  <2> SUFFICES ASSUME ImagesInv, [Next]_vars PROVE ImagesInv'
    OBVIOUS
  <2>1. CASE \E r \in Requests :
               \/ \E place \in DOMAIN parts : BeginUpload(r, place)
               \/ CountImages(r) \/ SaveFile(r) \/ CreateImage(r) \/ CleanUpFile(r)
    BY <2>1, UploadKeepsImagesInv
  <2>2. CASE \E r \in Requests :
               \/ \E i \in images : BeginDelete(r, i.key)
               \/ GetImage(r) \/ DeleteFile(r) \/ DeleteImage(r) \/ Abort(r)
    BY <2>2, DeleteKeepsImagesInv
  <2>3. CASE (\E form \in Forms : SavePattern(form)) \/ DeletePattern
    BY <2>3, SaveKeepsImagesInv
  <2>4. CASE UNCHANGED vars
    BY <2>4 DEF vars, ImagesInv, ImagesTyped, TypeOK, RequestsBelong, KeysApart, RowsHaveBytes
  <2>5. QED
    BY <2>1, <2>2, <2>3, <2>4 DEF Next
<1>3. QED
  BY <1>1, <1>2, PTL DEF Spec

\* Every row is in a group of the pattern, and no key is used before it is issued.
THEOREM ImagesTypeCorrect == Spec => []TypeOK
<1>1. ImagesInv => TypeOK
  BY DEF ImagesInv
<1>2. QED
  BY <1>1, ImagesInvHolds, PTL

\* image.go:103: a row is without its bytes only while it is being deleted, or
\* once its deletion was cut off or overtaken by a save.
THEOREM BytesStayWithRows == Spec => []RowsHaveBytes
<1>1. ImagesInv => RowsHaveBytes
  BY DEF ImagesInv
<1>2. QED
  BY <1>1, ImagesInvHolds, PTL

-----------------------------------------------------------------------------
(***************************************************************************)
(* The limit per part.  A count is out of date when the row is inserted: it *)
(* is the images of a part together with the uploads let through for it     *)
(* that are bounded, since at the count of the last of them all the others  *)
(* were at most the other requests.                                        *)
(***************************************************************************)

\* The uploads to a part that have passed the count and not inserted their row.
LetThrough(place) ==
  {r \in Requests : /\ request[r].step \in {"saveFile", "createImage"}
                    /\ request[r].edition = edition
                    /\ request[r].place = place}

RoomKept ==
  \A place \in DOMAIN parts :
    Cardinality(ImagesAt(edition, place)) + Cardinality(LetThrough(place))
      <= MaxImages + Cardinality(Requests) - 1

LimitInv == ImagesInv /\ RoomKept

\* There are requests, and not infinitely many.
SomeRequests == IsFiniteSet(Requests) /\ Requests # {}

\* The bound is a number.
LEMMA BoundIsNumber ==
  ASSUME SomeRequests
  PROVE  /\ Cardinality(Requests) \in Nat
         /\ MaxImages + Cardinality(Requests) - 1 \in Int
         /\ 0 <= MaxImages + Cardinality(Requests) - 1
<1>1. Cardinality(Requests) \in Nat /\ Cardinality(Requests) # 0
  BY FS_CardinalityType, FS_EmptySet DEF SomeRequests
<1>2. QED
  BY <1>1, ImagesAssumptions

\* The sets that are counted are finite.
LEMMA LimitFinite ==
  ASSUME SomeRequests, ImagesTyped, NEW place
  PROVE  /\ IsFiniteSet(ImagesAt(edition, place))
         /\ Cardinality(ImagesAt(edition, place)) \in Nat
         /\ IsFiniteSet(LetThrough(place))
         /\ Cardinality(LetThrough(place)) \in Nat
         /\ Cardinality(LetThrough(place)) <= Cardinality(Requests)
<1>1. IsFiniteSet(ImagesAt(edition, place))
  BY FS_Subset DEF ImagesAt, ImagesTyped
<1>2. /\ IsFiniteSet(LetThrough(place))
      /\ Cardinality(LetThrough(place)) <= Cardinality(Requests)
  BY FS_Subset DEF LetThrough, SomeRequests
<1>3. QED
  BY <1>1, <1>2, FS_CardinalityType

\* A step that adds neither an image nor an upload to a part leaves room there.
LEMMA RoomLeft ==
  ASSUME SomeRequests, ImagesTyped, NEW place, NEW bound \in Int,
         Cardinality(ImagesAt(edition, place)) + Cardinality(LetThrough(place)) <= bound,
         ImagesAt(edition, place)' \subseteq ImagesAt(edition, place),
         LetThrough(place)' \subseteq LetThrough(place)
  PROVE  Cardinality(ImagesAt(edition, place)') + Cardinality(LetThrough(place)') <= bound
<1> DEFINE A == ImagesAt(edition, place)
           B == LetThrough(place)
           C == ImagesAt(edition, place)'
           D == LetThrough(place)'
<1>1. /\ IsFiniteSet(A) /\ Cardinality(A) \in Nat
      /\ IsFiniteSet(B) /\ Cardinality(B) \in Nat
  BY LimitFinite
<1>2. C \subseteq A /\ D \subseteq B /\ Cardinality(A) + Cardinality(B) <= bound
  OBVIOUS
<1> HIDE DEF A, B, C, D
<1>3. IsFiniteSet(C) /\ Cardinality(C) <= Cardinality(A)
  BY <1>1, <1>2, FS_Subset
<1>4. IsFiniteSet(D) /\ Cardinality(D) <= Cardinality(B)
  BY <1>1, <1>2, FS_Subset
<1>5. Cardinality(C) \in Nat /\ Cardinality(D) \in Nat
  BY <1>3, <1>4, FS_CardinalityType
<1>6. Cardinality(C) + Cardinality(D) <= bound
  BY <1>1, <1>2, <1>3, <1>4, <1>5
<1>7. QED
  BY <1>6 DEF C, D

\* Steps of a request that let no upload through and insert no row.
LEMMA OtherStepsKeepRoom ==
  ASSUME SomeRequests, LimitInv, NEW r \in Requests,
         parts' = parts, edition' = edition, images' \subseteq images,
         request' \in [Requests -> RequestRecord],
         \A s \in Requests : s # r => request'[s] = request[s],
         request'[r].step \in {"saveFile", "createImage"} =>
           /\ request[r].step \in {"saveFile", "createImage"}
           /\ request'[r].edition = request[r].edition
           /\ request'[r].place = request[r].place
  PROVE  RoomKept'
<1>0. ImagesTyped /\ RoomKept
  BY DEF LimitInv, ImagesInv
<1> SUFFICES ASSUME NEW place \in DOMAIN parts
             PROVE  Cardinality(ImagesAt(edition, place)') + Cardinality(LetThrough(place)')
                      <= MaxImages + Cardinality(Requests) - 1
  BY DEF RoomKept
<1>1. ImagesAt(edition, place)' \subseteq ImagesAt(edition, place)
  BY DEF ImagesAt
<1>2. LetThrough(place)' \subseteq LetThrough(place)
  BY DEF LetThrough
<1>3. MaxImages + Cardinality(Requests) - 1 \in Int
  BY BoundIsNumber
<1>4. Cardinality(ImagesAt(edition, place)) + Cardinality(LetThrough(place))
        <= MaxImages + Cardinality(Requests) - 1
  BY <1>0 DEF RoomKept
<1>5. QED
  BY <1>0, <1>1, <1>2, <1>3, <1>4, RoomLeft

\* The count: a full part lets nothing through.
LEMMA CountKeepsRoom ==
  ASSUME SomeRequests, LimitInv, NEW r \in Requests, CountImages(r)
  PROVE  RoomKept'
<1> DEFINE q == request[r]
           count == Cardinality(ImagesAt(q.edition, q.place))
<1>0. /\ ImagesTyped /\ RoomKept /\ edition \in Nat
      /\ request \in [Requests -> RequestRecord] /\ q \in RequestRecord
  BY DEF LimitInv, ImagesInv, ImagesTyped
<1>a. ImagesTyped'
  BY <1>0, UploadTyped
<1>1. parts' = parts /\ edition' = edition /\ images' = images
  BY DEF CountImages
<1>2. CASE count >= MaxImages
  <2>1. request' = [request EXCEPT ![r] = Idle]
    BY <1>2 DEF CountImages, Answer
  <2>2. request'[r].step = "idle"
    BY <1>0, <2>1, IdleTyped
  <2>3. request' \in [Requests -> RequestRecord] /\
        \A s \in Requests : s # r => request'[s] = request[s]
    BY <1>0, <1>a, <2>1 DEF ImagesTyped
  <2>4. QED
    BY <1>1, <2>2, <2>3, OtherStepsKeepRoom
<1>3. CASE ~ (count >= MaxImages)
  <2> DEFINE new == [q EXCEPT !.step = "saveFile", !.order = count]
  <2>1. request' = [request EXCEPT ![r] = new]
    BY <1>3 DEF CountImages
  <2>2. new.edition = q.edition /\ new.place = q.place
    BY <1>0 DEF RequestRecord
  <2> HIDE DEF new
  <2>3. request'[r] = new /\ \A s \in Requests : s # r => request'[s] = request[s]
    BY <1>0, <2>1
  <2> SUFFICES ASSUME NEW place \in DOMAIN parts
               PROVE  Cardinality(ImagesAt(edition, place)') + Cardinality(LetThrough(place)')
                        <= MaxImages + Cardinality(Requests) - 1
    BY <1>1 DEF RoomKept
  <2>4. ImagesAt(edition, place)' = ImagesAt(edition, place)
    BY <1>1 DEF ImagesAt
  <2>5. MaxImages + Cardinality(Requests) - 1 \in Int
    BY BoundIsNumber
  <2>6. CASE q.edition = edition /\ q.place = place
    <3>1. Cardinality(ImagesAt(edition, place)) < MaxImages
      BY <1>0, <1>3, <2>6, LimitFinite, ImagesAssumptions
    <3>2. /\ Cardinality(LetThrough(place)') \in Nat
          /\ Cardinality(LetThrough(place)') <= Cardinality(Requests)
      <4>1. LetThrough(place)' \subseteq Requests
        BY DEF LetThrough
      <4>2. IsFiniteSet(Requests)
        BY DEF SomeRequests
      <4>3. QED
        BY <4>1, <4>2, FS_Subset, FS_CardinalityType
    <3>3. /\ Cardinality(ImagesAt(edition, place)) \in Nat
          /\ Cardinality(Requests) \in Nat
      BY <1>0, LimitFinite, BoundIsNumber
    <3>4. QED
      BY <2>4, <3>1, <3>2, <3>3, ImagesAssumptions
  <2>7. CASE ~ (q.edition = edition /\ q.place = place)
    <3>1. LetThrough(place)' \subseteq LetThrough(place)
      BY <1>1, <2>2, <2>3, <2>7 DEF LetThrough
    <3>2. Cardinality(ImagesAt(edition, place)) + Cardinality(LetThrough(place))
            <= MaxImages + Cardinality(Requests) - 1
      BY <1>0 DEF RoomKept
    <3>3. QED
      BY <1>0, <2>4, <2>5, <3>1, <3>2, RoomLeft
  <2>8. QED
    BY <2>6, <2>7
<1>4. QED
  BY <1>2, <1>3

\* The insertion: the image takes the room of its upload.
LEMMA CreateKeepsRoom ==
  ASSUME SomeRequests, LimitInv, NEW r \in Requests, CreateImage(r)
  PROVE  RoomKept'
<1> DEFINE q == request[r]
           row == Image(q.key, q.place, q.order)
<1>0. /\ ImagesTyped /\ RoomKept /\ edition \in Nat
      /\ request \in [Requests -> RequestRecord] /\ q \in RequestRecord
  BY DEF LimitInv, ImagesInv, ImagesTyped
<1>a. request' \in [Requests -> RequestRecord]
  BY <1>0, UploadTyped DEF ImagesTyped
<1>1. parts' = parts /\ edition' = edition /\ q.step = "createImage"
  BY DEF CreateImage
<1>2. CASE ~ GroupExists(q.edition, q.place)
  <2>1. request' = [request EXCEPT ![r].step = "cleanUp"] /\ images' = images
    BY <1>2 DEF CreateImage, GoOn
  <2>2. request'[r].step = "cleanUp" /\ \A s \in Requests : s # r => request'[s] = request[s]
    BY <1>0, <2>1 DEF RequestRecord
  <2>3. QED
    BY <1>a, <1>1, <2>1, <2>2, OtherStepsKeepRoom
<1>3. CASE GroupExists(q.edition, q.place)
  <2>1. request' = [request EXCEPT ![r] = Idle] /\ images' = images \cup {row}
    BY <1>3 DEF CreateImage, Answer
  <2>2. /\ request'[r].step = "idle"
        /\ \A s \in Requests : s # r => request'[s] = request[s]
    BY <1>0, <2>1, IdleTyped
  <2>3. row.place = q.place /\ q.edition = edition
    BY <1>3 DEF Image, GroupExists
  <2> HIDE DEF row
  <2> SUFFICES ASSUME NEW place \in DOMAIN parts
               PROVE  Cardinality(ImagesAt(edition, place)') + Cardinality(LetThrough(place)')
                        <= MaxImages + Cardinality(Requests) - 1
    BY <1>1 DEF RoomKept
  <2>4. MaxImages + Cardinality(Requests) - 1 \in Int
    BY BoundIsNumber
  <2>5. Cardinality(ImagesAt(edition, place)) + Cardinality(LetThrough(place))
          <= MaxImages + Cardinality(Requests) - 1
    BY <1>0 DEF RoomKept
  <2>6. CASE place = q.place
    <3> DEFINE A == ImagesAt(edition, place)
               B == LetThrough(place)
    <3>1. /\ IsFiniteSet(A) /\ Cardinality(A) \in Nat
          /\ IsFiniteSet(B) /\ Cardinality(B) \in Nat
      BY <1>0, LimitFinite
    <3>2. ImagesAt(edition, place)' = A \cup {row}
      BY <1>1, <2>1, <2>3, <2>6 DEF ImagesAt
    <3>3. LetThrough(place)' = B \ {r} /\ r \in B
      BY <1>1, <2>2, <2>3, <2>6 DEF LetThrough
    <3>4. Cardinality(A) + Cardinality(B) <= MaxImages + Cardinality(Requests) - 1
      BY <2>5
    <3> HIDE DEF A, B
    <3>5. Cardinality(A \cup {row}) \in {Cardinality(A), Cardinality(A) + 1}
      BY <3>1, FS_AddElement
    <3>6. Cardinality(B \ {r}) = Cardinality(B) - 1
      BY <3>1, <3>3, FS_RemoveElement
    <3>7. QED
      BY <2>4, <3>1, <3>2, <3>3, <3>4, <3>5, <3>6
  <2>7. CASE place # q.place
    <3>1. ImagesAt(edition, place)' \subseteq ImagesAt(edition, place)
      BY <1>1, <2>1, <2>3, <2>7 DEF ImagesAt
    <3>2. LetThrough(place)' \subseteq LetThrough(place)
      BY <1>1, <2>2 DEF LetThrough
    <3>3. QED
      BY <1>0, <2>4, <2>5, <3>1, <3>2, RoomLeft
  <2>8. QED
    BY <2>6, <2>7
<1>4. QED
  BY <1>2, <1>3

\* A save: uploads let through before it can insert no row any more.
LEMMA SaveKeepsRoom ==
  ASSUME SomeRequests, LimitInv, NEW form \in Forms, SavePattern(form)
  PROVE  RoomKept'
<1>0. /\ ImagesTyped /\ TypeOK /\ RequestsBelong /\ RoomKept /\ edition \in Nat
      /\ request \in [Requests -> RequestRecord]
  BY DEF LimitInv, ImagesInv, ImagesTyped
<1>1. /\ parts' = form /\ edition' = edition + 1 /\ request' = request
      /\ images' = {i \in images : i.place \in DOMAIN form}
  BY DEF SavePattern, Restored
<1> SUFFICES ASSUME NEW place \in DOMAIN form
             PROVE  Cardinality(ImagesAt(edition, place)') + Cardinality(LetThrough(place)')
                      <= MaxImages + Cardinality(Requests) - 1
  BY <1>1 DEF RoomKept
<1>2. LetThrough(place)' = {}
  <2>1. \A s \in Requests : request[s].edition \in Nat /\ request[s].edition <= edition
    BY <1>0 DEF RequestsBelong, RequestRecord
  <2>2. \A s \in Requests : request[s].edition # edition + 1
    BY <1>0, <2>1
  <2>3. QED
    BY <1>1, <2>2 DEF LetThrough
<1>3. ImagesAt(edition, place)' \subseteq ImagesAt(edition, place)
  BY <1>1 DEF ImagesAt
<1>4. MaxImages + Cardinality(Requests) - 1 \in Int
  BY BoundIsNumber
<1>5. CASE place \in DOMAIN parts
  BY <1>0, <1>2, <1>3, <1>4, <1>5, RoomLeft DEF RoomKept
<1>6. CASE place \notin DOMAIN parts
  <2>1. ImagesAt(edition, place)' = {}
    BY <1>0, <1>3, <1>6 DEF ImagesAt, TypeOK
  <2>2. Cardinality({}) = 0
    BY FS_EmptySet
  <2>3. QED
    BY <1>2, <2>1, <2>2, BoundIsNumber
<1>7. QED
  BY <1>5, <1>6

\* The other steps of one request.
LEMMA RequestStepsKeepRoom ==
  ASSUME SomeRequests, LimitInv, NEW r \in Requests,
         \/ \E place \in DOMAIN parts : BeginUpload(r, place)
         \/ SaveFile(r) \/ CleanUpFile(r)
         \/ \E i \in images : BeginDelete(r, i.key)
         \/ GetImage(r) \/ DeleteFile(r) \/ DeleteImage(r) \/ Abort(r)
  PROVE  RoomKept'
<1>0. ImagesTyped /\ request \in [Requests -> RequestRecord] /\ request[r] \in RequestRecord
  BY DEF LimitInv, ImagesInv, ImagesTyped
<1>1. request' \in [Requests -> RequestRecord]
  BY <1>0, UploadTyped, DeleteTyped DEF ImagesTyped
<1>2. parts' = parts /\ edition' = edition /\ images' \subseteq images
  BY DEF BeginUpload, SaveFile, CleanUpFile, BeginDelete, GetImage, DeleteFile,
         DeleteImage, Abort
<1>3. \A s \in Requests : s # r => request'[s] = request[s]
  BY <1>0 DEF BeginUpload, SaveFile, CleanUpFile, BeginDelete, GetImage, DeleteFile,
              DeleteImage, Abort, GoOn, Answer
<1>4. request'[r].step \in {"saveFile", "createImage"} =>
        /\ request[r].step \in {"saveFile", "createImage"}
        /\ request'[r].edition = request[r].edition
        /\ request'[r].place = request[r].place
  <2>1. CASE SaveFile(r)
    BY <1>0, <2>1 DEF SaveFile, RequestRecord
  <2>2. CASE ~ SaveFile(r)
    <3>1. \/ request' = [request EXCEPT ![r] = Idle]
          \/ \E step \in {"deleteFile", "deleteImage"} :
               request' = [request EXCEPT ![r].step = step]
          \/ \E e, p \in Nat : request' = [request EXCEPT ![r] =
               [Idle EXCEPT !.step = "count", !.edition = e, !.place = p]]
          \/ \E e, k \in Nat : request' = [request EXCEPT ![r] =
               [Idle EXCEPT !.step = "getImage", !.edition = e, !.key = k]]
      <4>1. edition \in Nat /\ parts \in Seq(Nat) /\ \A i \in images : i.key \in Nat
        BY <1>0 DEF ImagesTyped
      <4>2. \A place \in DOMAIN parts : place \in Nat
        BY <4>1
      <4>3. QED
        BY <2>2, <4>1, <4>2 DEF BeginUpload, CleanUpFile, BeginDelete, GetImage, DeleteFile,
                                DeleteImage, Abort, GoOn, Answer
    <3>2. CASE request' = [request EXCEPT ![r] = Idle]
      BY <1>0, <3>2, IdleTyped
    <3>3. CASE \E step \in {"deleteFile", "deleteImage"} :
                 request' = [request EXCEPT ![r].step = step]
      BY <1>0, <3>3 DEF RequestRecord
    <3>4. CASE \E e, p \in Nat : request' = [request EXCEPT ![r] =
                 [Idle EXCEPT !.step = "count", !.edition = e, !.place = p]]
      BY <1>0, <3>4 DEF Idle
    <3>5. CASE \E e, k \in Nat : request' = [request EXCEPT ![r] =
                 [Idle EXCEPT !.step = "getImage", !.edition = e, !.key = k]]
      BY <1>0, <3>5 DEF Idle
    <3>6. QED
      BY <3>1, <3>2, <3>3, <3>4, <3>5
  <2>3. QED
    BY <2>1, <2>2
<1>5. QED
  BY <1>1, <1>2, <1>3, <1>4, OtherStepsKeepRoom

\* image.go:64 and handler/image.go:100, "max 5 per section": n requests at once
\* exceed the limit by n - 1 at most, and one at a time keeps it, whatever is
\* deleted and saved meanwhile.
THEOREM LimitKept == ASSUME SomeRequests PROVE Spec => []LimitHolds
<1>1. Init => LimitInv
  <2> SUFFICES ASSUME Init PROVE LimitInv
    OBVIOUS
  <2>1. ImagesInv /\ ImagesTyped
    BY ImagesInvInit DEF ImagesInv
  <2>2. ASSUME NEW place PROVE ImagesAt(edition, place) = {} /\ LetThrough(place) = {}
    BY IdleTyped DEF Init, ImagesAt, LetThrough
  <2>3. Cardinality({}) = 0
    BY FS_EmptySet
  <2>4. ASSUME NEW place
        PROVE  Cardinality(ImagesAt(edition, place)) = 0 /\ Cardinality(LetThrough(place)) = 0
    BY <2>2, <2>3
  <2>5. RoomKept
    BY <2>4, BoundIsNumber DEF RoomKept
  <2>6. QED
    BY <2>1, <2>5 DEF LimitInv
<1>2. ImagesInv /\ ImagesInv' /\ RoomKept /\ [Next]_vars => RoomKept'
  <2> SUFFICES ASSUME ImagesInv, LimitInv, [Next]_vars PROVE RoomKept'
    BY DEF LimitInv
  <2>1. CASE \E r \in Requests : CountImages(r)
    BY <2>1, CountKeepsRoom
  <2>2. CASE \E r \in Requests : CreateImage(r)
    BY <2>2, CreateKeepsRoom
  <2>3. CASE \E r \in Requests :
               \/ \E place \in DOMAIN parts : BeginUpload(r, place)
               \/ SaveFile(r) \/ CleanUpFile(r)
               \/ \E i \in images : BeginDelete(r, i.key)
               \/ GetImage(r) \/ DeleteFile(r) \/ DeleteImage(r) \/ Abort(r)
    BY <2>3, RequestStepsKeepRoom
  <2>4. CASE \E form \in Forms : SavePattern(form)
    BY <2>4, SaveKeepsRoom
  <2>5. CASE DeletePattern
    BY <2>5 DEF DeletePattern, RoomKept
  <2>6. CASE UNCHANGED vars
    BY <2>6 DEF vars, LimitInv, RoomKept, ImagesAt, LetThrough
  <2>7. QED
    BY <2>1, <2>2, <2>3, <2>4, <2>5, <2>6 DEF Next
<1>3. ImagesInv /\ RoomKept => LimitHolds
  <2> SUFFICES ASSUME ImagesInv, RoomKept, NEW place \in DOMAIN parts
               PROVE  Cardinality(ImagesAt(edition, place))
                        <= MaxImages + Cardinality(Requests) - 1
    BY DEF LimitHolds
  <2>1. /\ Cardinality(ImagesAt(edition, place)) \in Nat
        /\ Cardinality(LetThrough(place)) \in Nat
        /\ Cardinality(Requests) \in Nat
    BY LimitFinite, BoundIsNumber DEF ImagesInv
  <2>2. Cardinality(ImagesAt(edition, place)) + Cardinality(LetThrough(place))
          <= MaxImages + Cardinality(Requests) - 1
    BY DEF RoomKept
  <2>3. QED
    BY <2>1, <2>2, ImagesAssumptions
<1>4. LimitInv => RoomKept
  BY DEF LimitInv
<1>5. QED
  BY <1>1, <1>2, <1>3, <1>4, ImagesInvHolds, PTL DEF Spec

-----------------------------------------------------------------------------
(***************************************************************************)
(* Images and their parts.  The program knows a part by its place only: a  *)
(* part that is removed moves all later ones, and with them what is shown  *)
(* in their places.  What is kept is what lies before it, and this is a    *)
(* count: the first places of the new form hold the first parts of the old *)
(* one exactly if none of them has been removed.                           *)
(***************************************************************************)

\* The parts of a form are numbers in increasing order.
LEMMA FormFacts ==
  ASSUME NEW f \in Forms
  PROVE  /\ f \in Seq(Nat) /\ Len(f) \in Nat /\ DOMAIN f = 1 .. Len(f)
         /\ \A i \in DOMAIN f : f[i] \in Nat
         /\ \A i, j \in DOMAIN f : i < j => f[i] < f[j]
         /\ \A i, j \in DOMAIN f : i <= j => f[i] <= f[j]
<1>1. f \in Seq(Nat) /\ \A i \in DOMAIN f, j \in DOMAIN f : i < j => f[i] < f[j]
  BY ImagesAssumptions
<1>2. Len(f) \in Nat /\ DOMAIN f = 1 .. Len(f) /\ \A i \in DOMAIN f : f[i] \in Nat
  BY <1>1
<1>3. ASSUME NEW i \in DOMAIN f, NEW j \in DOMAIN f, i <= j
      PROVE  f[i] <= f[j]
  <2>1. i \in Nat /\ j \in Nat /\ (i < j \/ i = j)
    BY <1>2, <1>3
  <2>2. QED
    BY <1>1, <1>2, <2>1
<1>4. QED
  BY <1>1, <1>2, <1>3

\* If a form has the first p parts of another, it has p parts at least, and the
\* p-th is no later part than the other's.
LEMMA FirstPartsFit ==
  ASSUME NEW f \in Forms, NEW g \in Forms, NEW p \in DOMAIN f,
         \A j \in 1 .. p : f[j] \in ToSet(g)
  PROVE  p \in DOMAIN g /\ g[p] <= f[p]
<1> SUFFICES ASSUME p \in DOMAIN g => f[p] < g[p]
             PROVE  FALSE
  BY FormFacts
<1> DEFINE h == [j \in 1 .. p |-> CHOOSE k \in DOMAIN g : g[k] = f[j]]
<1>1. p \in Nat /\ p >= 1 /\ \A j \in 1 .. p : j \in DOMAIN f
  BY FormFacts
<1>2. ASSUME NEW j \in 1 .. p
      PROVE  h[j] \in 1 .. p - 1 /\ g[h[j]] = f[j]
  <2>1. \E k \in DOMAIN g : g[k] = f[j]
    BY DEF ToSet
  <2>2. h[j] \in DOMAIN g /\ g[h[j]] = f[j]
    BY <2>1
  <2> HIDE DEF h
  <2>3. f[j] \in Nat /\ f[p] \in Nat /\ f[j] <= f[p]
    BY <1>1, FormFacts
  <2>4. h[j] \in Nat /\ h[j] >= 1 /\ h[j] <= Len(g) /\ Len(g) \in Nat /\ DOMAIN g = 1 .. Len(g)
    BY <2>2, FormFacts
  <2>5. CASE p \notin DOMAIN g
    BY <1>1, <2>2, <2>4, <2>5
  <2>6. CASE p \in DOMAIN g
    <3>1. g[p] \in Nat /\ f[p] < g[p] /\ (p <= h[j] => g[p] <= g[h[j]])
      BY <2>2, <2>6, FormFacts
    <3>2. ~ (p <= h[j])
      BY <2>2, <2>3, <3>1
    <3>3. QED
      BY <1>1, <2>2, <2>4, <3>2
  <2>7. QED
    BY <2>5, <2>6
<1>3. h \in [1 .. p -> 1 .. p - 1]
  BY <1>2
<1>4. \A j \in 1 .. p : g[h[j]] = f[j]
  BY <1>2
<1> HIDE DEF h
<1>5. /\ IsFiniteSet(1 .. p) /\ Cardinality(1 .. p) = p
      /\ IsFiniteSet(1 .. p - 1) /\ Cardinality(1 .. p - 1) = p - 1
  <2>1. 1 \in Int /\ p \in Int /\ p - 1 \in Int
    BY <1>1
  <2>2. /\ IsFiniteSet(1 .. p)
        /\ Cardinality(1 .. p) = IF 1 > p THEN 0 ELSE p - 1 + 1
    BY <2>1, FS_Interval
  <2>3. /\ IsFiniteSet(1 .. p - 1)
        /\ Cardinality(1 .. p - 1) = IF 1 > p - 1 THEN 0 ELSE (p - 1) - 1 + 1
    BY <2>1, FS_Interval
  <2>4. QED
    BY <1>1, <2>2, <2>3
<1>6. PICK x, y \in 1 .. p : x # y /\ h[x] = h[y]
  <2>1. Cardinality(1 .. p - 1) < Cardinality(1 .. p)
    BY <1>1, <1>5
  <2>2. QED
    BY <1>3, <1>5, <2>1, FS_PigeonHole
<1>7. f[x] = f[y] /\ x \in DOMAIN f /\ y \in DOMAIN f
  BY <1>1, <1>4, <1>6
<1>8. x \in Nat /\ y \in Nat /\ f[x] \in Nat /\ (x < y \/ y < x)
  BY <1>6, <1>7, FormFacts
<1>9. QED
  BY <1>7, <1>8, FormFacts

\* Added parts come after all others: what is not later than an old part is old.
LEMMA OldParts ==
  ASSUME NEW form \in Forms, parts \in Forms, CanFollow(form),
         NEW q \in ToSet(form), NEW p \in DOMAIN parts, q <= parts[p]
  PROVE  q \in ToSet(parts)
<1>1. parts[p] \in ToSet(parts) /\ parts[p] \in Nat /\ q \in Nat
  BY FormFacts DEF ToSet
<1>2. QED
  BY <1>1 DEF CanFollow

\* A place never gets an earlier part.
LEMMA PlacesMoveLater ==
  ASSUME NEW form \in Forms, parts \in Forms, CanFollow(form),
         NEW p \in DOMAIN parts, p \in DOMAIN form
  PROVE  parts[p] <= form[p]
<1> SUFFICES ASSUME form[p] < parts[p]
             PROVE  FALSE
  BY FormFacts
<1>1. ASSUME NEW j \in 1 .. p
      PROVE  form[j] \in ToSet(parts)
  <2>1. j \in DOMAIN form /\ j <= p
    BY FormFacts
  <2>2. form[j] \in ToSet(form) /\ form[j] <= form[p]
    BY <2>1, FormFacts DEF ToSet
  <2>3. form[j] \in Nat /\ form[p] \in Nat /\ parts[p] \in Nat
    BY <2>1, FormFacts
  <2>4. form[j] <= parts[p]
    BY <2>2, <2>3
  <2>5. QED
    BY <2>2, <2>4, OldParts
<1>2. parts[p] <= form[p]
  BY <1>1, FirstPartsFit
<1>3. QED
  BY <1>2, FormFacts

\* An image is shown with its part or a later one; and as long as its part and
\* those before it are there, they are the first ones.
StayInv ==
  \A i \in images :
    /\ i.of \in Nat /\ \A q \in i.before : q \in Nat /\ q < i.of
    /\ i.of <= parts[i.place]
    /\ LeavesInPlace(parts, i) =>
         /\ parts[i.place] = i.of
         /\ \A p \in 1 .. i.place : parts[p] \in i.before \cup {i.of}

\* A save that keeps the part of an image and those before it keeps their places.
LEMMA SaveKeepsPlaces ==
  ASSUME ImagesInv, StayInv, NEW form \in Forms, SavePattern(form),
         NEW i \in images, LeavesInPlace(form, i)
  PROVE  /\ i.place \in DOMAIN form /\ form[i.place] = i.of
         /\ \A p \in 1 .. i.place : form[p] \in i.before \cup {i.of}
<1>1. /\ parts \in Forms /\ CanFollow(form) /\ i.place \in DOMAIN parts
      /\ i.of \in Nat /\ \A q \in i.before : q \in Nat /\ q < i.of
      /\ i.of <= parts[i.place]
  BY DEF SavePattern, ImagesInv, TypeOK, StayInv
<1>2. parts[i.place] \in Nat
  BY <1>1, FormFacts
<1>3. LeavesInPlace(parts, i)
  <2> SUFFICES ASSUME NEW q \in i.before \cup {i.of}
               PROVE  q \in ToSet(parts)
    BY DEF LeavesInPlace
  <2>1. q \in ToSet(form) /\ q <= parts[i.place]
    BY <1>1, <1>2 DEF LeavesInPlace
  <2>2. QED
    BY <1>1, <2>1, OldParts
<1>4. /\ parts[i.place] = i.of
      /\ \A p \in 1 .. i.place : parts[p] \in i.before \cup {i.of}
  BY <1>3 DEF StayInv
<1>5. i.place \in DOMAIN form /\ form[i.place] <= parts[i.place]
  <2>1. \A p \in 1 .. i.place : parts[p] \in ToSet(form)
    BY <1>4 DEF LeavesInPlace
  <2>2. QED
    BY <1>1, <2>1, FirstPartsFit
<1>6. form[i.place] = i.of
  <2>1. parts[i.place] <= form[i.place] /\ form[i.place] \in Nat
    BY <1>1, <1>5, PlacesMoveLater, FormFacts
  <2>2. QED
    BY <1>2, <1>4, <1>5, <2>1
<1>7. ASSUME NEW p \in 1 .. i.place
      PROVE  form[p] \in i.before \cup {i.of}
  <2>1. p \in DOMAIN form /\ p <= i.place
    BY <1>5, FormFacts
  <2>2. form[p] \in ToSet(form) /\ form[p] \in Nat /\ form[p] <= parts[i.place]
    BY <1>4, <1>5, <1>6, <2>1, FormFacts DEF ToSet
  <2>3. PICK n \in DOMAIN parts : parts[n] = form[p]
    BY <1>1, <2>2, OldParts DEF ToSet
  <2>4. n <= i.place /\ n \in Nat /\ n >= 1
    <3>1. n \in Nat /\ n >= 1 /\ i.place \in Nat
      BY <1>1, FormFacts
    <3>2. i.place < n => parts[i.place] < parts[n]
      BY <1>1, FormFacts
    <3>3. QED
      BY <1>2, <2>2, <2>3, <3>1, <3>2
  <2>5. n \in 1 .. i.place
    BY <1>1, <2>4, FormFacts
  <2>6. QED
    BY <1>4, <2>3, <2>5
<1>8. QED
  BY <1>5, <1>6, <1>7

\* A new image is with its part, behind those that come before it.
LEMMA CreateKeepsStay ==
  ASSUME ImagesInv, StayInv, NEW r \in Requests, CreateImage(r)
  PROVE  StayInv'
<1> DEFINE q == request[r]
           row == Image(q.key, q.place, q.order)
<1>1. parts' = parts
  BY DEF CreateImage
<1>2. CASE images' = images
  BY <1>1, <1>2 DEF StayInv, LeavesInPlace
<1>3. CASE q.place \in DOMAIN parts /\ images' = images \cup {row}
  <2>1. parts \in Forms
    BY <1>3 DEF ImagesInv, TypeOK
  <2>2. q.place \in Nat /\ parts[q.place] \in Nat
    BY <1>3, <2>1, FormFacts
  <2>3. /\ row.of = parts[q.place] /\ row.place = q.place
        /\ row.before = {parts[p] : p \in 1 .. q.place - 1}
    BY DEF Image
  <2>4. ASSUME NEW p \in 1 .. q.place - 1
        PROVE  parts[p] \in Nat /\ parts[p] < parts[q.place]
    <3>1. p \in DOMAIN parts /\ p < q.place
      BY <1>3, <2>1, <2>2, FormFacts
    <3>2. QED
      BY <1>3, <2>1, <3>1, FormFacts
  <2>5. \A p \in 1 .. q.place : parts[p] \in row.before \cup {row.of}
    <3> SUFFICES ASSUME NEW p \in 1 .. q.place
                 PROVE  parts[p] \in row.before \cup {row.of}
      OBVIOUS
    <3>1. p = q.place \/ p \in 1 .. q.place - 1
      BY <2>2
    <3>2. QED
      BY <2>3, <3>1
  <2>6. /\ row.of \in Nat /\ \A x \in row.before : x \in Nat /\ x < row.of
        /\ row.of <= parts[row.place] /\ parts[row.place] = row.of
        /\ \A p \in 1 .. row.place : parts[p] \in row.before \cup {row.of}
    BY <2>2, <2>3, <2>4, <2>5
  <2> HIDE DEF row
  <2>7. ASSUME NEW i \in images'
        PROVE  /\ i.of \in Nat /\ \A x \in i.before : x \in Nat /\ x < i.of
               /\ i.of <= parts[i.place]
               /\ LeavesInPlace(parts, i) =>
                    /\ parts[i.place] = i.of
                    /\ \A p \in 1 .. i.place : parts[p] \in i.before \cup {i.of}
    BY <1>3, <2>6 DEF StayInv
  <2>8. QED
    BY <1>1, <2>7 DEF StayInv, LeavesInPlace
<1>4. QED
  BY <1>2, <1>3 DEF CreateImage, GroupExists

\* No step shows an image with an earlier part, and none but the removal of its
\* part or of one before it shows it with another.
LEMMA StayInvKept ==
  ASSUME ImagesInv, StayInv, [Next]_vars
  PROVE  StayInv'
<1>1. CASE \E r \in Requests : CreateImage(r)
  BY <1>1, CreateKeepsStay
<1>2. CASE \E form \in Forms : SavePattern(form)
  <2>1. PICK form \in Forms : SavePattern(form)
    BY <1>2
  <2>2. /\ parts' = form /\ images' = {i \in images : i.place \in DOMAIN form}
        /\ parts # << >> /\ CanFollow(form)
    BY <2>1 DEF SavePattern, Restored
  <2>3. ASSUME NEW i \in images'
        PROVE  /\ i.of \in Nat /\ \A q \in i.before : q \in Nat /\ q < i.of
               /\ i.of <= form[i.place]
               /\ LeavesInPlace(form, i) =>
                    /\ form[i.place] = i.of
                    /\ \A p \in 1 .. i.place : form[p] \in i.before \cup {i.of}
    <3>1. /\ i \in images /\ i.place \in DOMAIN form /\ i.place \in DOMAIN parts
          /\ parts \in Forms
      BY <2>2 DEF ImagesInv, TypeOK
    <3>2. /\ i.of \in Nat /\ \A q \in i.before : q \in Nat /\ q < i.of
          /\ i.of <= parts[i.place]
      BY <3>1 DEF StayInv
    <3>3. parts[i.place] <= form[i.place]
      BY <2>2, <3>1, PlacesMoveLater
    <3>4. i.of <= form[i.place]
      BY <3>1, <3>2, <3>3, FormFacts
    <3>5. QED
      BY <2>1, <3>1, <3>2, <3>4, SaveKeepsPlaces
  <2>4. QED
    BY <2>2, <2>3 DEF StayInv, LeavesInPlace
<1>3. CASE \/ \E r \in Requests :
                \/ \E place \in DOMAIN parts : BeginUpload(r, place)
                \/ CountImages(r) \/ SaveFile(r) \/ CleanUpFile(r)
                \/ \E i \in images : BeginDelete(r, i.key)
                \/ GetImage(r) \/ DeleteFile(r) \/ DeleteImage(r) \/ Abort(r)
           \/ UNCHANGED vars
  <2>1. parts' = parts /\ images' \subseteq images
    BY <1>3 DEF BeginUpload, CountImages, SaveFile, CleanUpFile, BeginDelete, GetImage,
                DeleteFile, DeleteImage, Abort, vars
  <2>2. QED
    BY <2>1 DEF StayInv, LeavesInPlace
<1>4. CASE DeletePattern
  BY <1>4 DEF DeletePattern, StayInv
<1>5. QED
  BY <1>1, <1>2, <1>3, <1>4 DEF Next

\* The invariant holds in every state that is reached.
THEOREM StayInvHolds == Spec => []StayInv
<1>1. Init => StayInv
  BY DEF Init, StayInv
<1>2. ImagesInv /\ StayInv /\ [Next]_vars => StayInv'
  BY StayInvKept
<1>3. QED
  BY <1>1, <1>2, ImagesInvHolds, PTL DEF Spec

\* Whatever parts the owner adds and removes, an image is shown with its own
\* part until this part or one before it is removed, and never with an earlier one.
THEOREM PartsKeepTheirImages == Spec => []ImagesStayWithPart
<1>1. ImagesInv /\ StayInv => ImagesStayWithPart
  <2> SUFFICES ASSUME ImagesInv, StayInv, NEW i \in images
               PROVE  /\ parts[i.place] >= i.of
                      /\ LeavesInPlace(parts, i) => parts[i.place] = i.of
    BY DEF ImagesStayWithPart
  <2>1. parts \in Forms /\ i.place \in DOMAIN parts /\ i.of \in Nat /\ i.of <= parts[i.place]
    BY DEF ImagesInv, TypeOK, StayInv
  <2>2. parts[i.place] \in Nat
    BY <2>1, FormFacts
  <2>3. QED
    BY <2>1, <2>2 DEF StayInv
<1>2. QED
  BY <1>1, ImagesInvHolds, StayInvHolds, PTL

\* pattern.go:336: a save keeps every image, and its bytes, whose part it keeps
\* together with the parts before it, whatever else it adds or removes.
THEOREM SavesDropNoImageInPlace == Spec => SavesKeepImagesInPlace
<1> DEFINE Kept == edition' # edition =>
             \A i \in images : LeavesInPlace(parts', i) =>
               /\ i \in images'
               /\ i.key \in blobs => i.key \in blobs'
<1>1. ImagesInv /\ StayInv /\ [Next]_vars => [Kept]_vars
  <2> SUFFICES ASSUME ImagesInv, StayInv, Next, edition' # edition,
                      NEW i \in images, LeavesInPlace(parts', i)
               PROVE  /\ i \in images'
                      /\ i.key \in blobs => i.key \in blobs'
    OBVIOUS
  <2>1. PICK form \in Forms : SavePattern(form)
    BY DEF Next, BeginUpload, CountImages, SaveFile, CreateImage, CleanUpFile, BeginDelete,
           GetImage, DeleteFile, DeleteImage, Abort, DeletePattern
  <2> DEFINE dropped == {j \in images : j.place \notin DOMAIN form}
  <2>2. /\ parts' = form /\ images' = {j \in images : j.place \in DOMAIN form}
        /\ blobs' = blobs \ {j.key : j \in dropped}
    BY <2>1 DEF SavePattern, Restored
  <2>3. i.place \in DOMAIN form
    BY <2>1, <2>2, SaveKeepsPlaces
  <2>4. \A j \in dropped : j.key # i.key
    BY <2>3 DEF ImagesInv, KeysApart
  <2>5. QED
    BY <2>2, <2>3, <2>4
<1>2. QED
  BY <1>1, ImagesInvHolds, StayInvHolds, PTL DEF Spec, SavesKeepImagesInPlace
=============================================================================
