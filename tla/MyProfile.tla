----------------------------- MODULE MyProfile -----------------------------
(***************************************************************************)
(* One user's profile, edited in several tabs: the photos, which are rows  *)
(* of profile_images and objects in S3 (profile_image_usecase.go,          *)
(* components/myprofile/profile-photos.tsx), and PUT /myprofile, which     *)
(* saves the profile and replaces its tags (myprofile_usecase.go).         *)
(*                                                                         *)
(* Nothing spans the two stores, and a request is a transaction only where *)
(* a step below says so.  A tab runs one server action at a time, as       *)
(* Next.js queues them; the upload itself and the fetches of SWR are none. *)
(***************************************************************************)
EXTENDS Naturals, FiniteSets

CONSTANTS Tabs,     \* tabs or devices showing the edit page
          Images,   \* files the user may ever choose; each gets its own S3 key
          Updates,  \* PUT /myprofile requests ever sent; each brings its own tags
          Slots,    \* photos that fit the grid: 9
          MaxRequests \* bound on the uploads and updates together

ASSUME BoundsAssumption == Slots \in Nat \ {0} /\ MaxRequests \in Nat

VARIABLES rows,      \* images with a row in profile_images
          objects,   \* images with an object in S3
          tags,      \* updates whose tags are linked to the profile
          upload,    \* each tab's handleFileChange, between presign and register
          call,      \* each tab's server action, and where the API is with it
          cache,     \* each tab's SWR cache: the photos it shows, if any data is there
          fetch,     \* each tab's GET /api/myprofile: the photos read, if one runs
          used,      \* history: images and updates the tabs have sent
          asked,     \* history: images somebody asked to delete
          restored,  \* history: images whose row came back after its deletion
          added,     \* history: uploads that a tab has been told of
          removed,   \* history: deletions that a tab has been told of
          overlapped \* history: updates that ran while another one did

vars == <<rows, objects, tags, upload, call, cache, fetch,
          used, asked, restored, added, removed, overlapped>>
stores == <<rows, objects, tags>>
history == <<used, asked, restored, added, removed, overlapped>>

CallStates == {"idle", "created", "object", "row", "deleted", "save", "replace", "commit"}

NoData == [data |-> FALSE, images |-> {}]
Data(images) == [data |-> TRUE, images |-> images]
NoUpload == [state |-> "none", images |-> {}]
NoCall == [state |-> "idle", images |-> {}, update |-> {}, seen |-> {}]

Init ==
    /\ rows = {} /\ objects = {} /\ tags = {}
    /\ upload = [t \in Tabs |-> NoUpload]
    /\ call = [t \in Tabs |-> NoCall]
    /\ cache = [t \in Tabs |-> NoData]
    /\ fetch = [t \in Tabs |-> NoData]
    /\ used = {} /\ asked = {} /\ restored = {} /\ overlapped = {}
    /\ added = [t \in Tabs |-> {}]
    /\ removed = [t \in Tabs |-> {}]

Shown(t) == cache[t].images
Idle(t) == call[t].state = "idle"
CallTo(t, state) == call' = [call EXCEPT ![t].state = state]

-----------------------------------------------------------------------------
(* SWR                                                                     *)

\* GET /api/myprofile reads the rows; SWR asks on mount, focus and reconnect.  (A
\* fetch that reads what the cache has changes nothing, or is discarded; left out.)
FetchRead(t) ==
    /\ ~fetch[t].data /\ cache[t] # Data(rows)
    /\ fetch' = [fetch EXCEPT ![t] = Data(rows)]
    /\ UNCHANGED <<stores, upload, call, cache, history>>

FetchEnds(t) ==
    /\ fetch[t].data
    /\ cache' = [cache EXCEPT ![t] = fetch[t]]
    /\ fetch' = [fetch EXCEPT ![t] = NoData]
    /\ UNCHANGED <<stores, upload, call, history>>

FetchFails(t) ==
    /\ fetch[t].data
    /\ fetch' = [fetch EXCEPT ![t] = NoData]
    /\ UNCHANGED <<stores, upload, call, cache, history>>

\* mutate(): the cache becomes shown, unless it has no data; a fetch under way is
\* discarded when it ends.
Mutate(t, shown) ==
    /\ cache' = [cache EXCEPT ![t] = IF @.data THEN Data(shown) ELSE NoData]
    /\ fetch' = [fetch EXCEPT ![t] = NoData]

-----------------------------------------------------------------------------
(* Upload: presign, PUT to S3, register                                    *)

\* The slot to add to is active and no upload is running; presign keeps no state.
PresignUpload(t, i) ==
    /\ upload[t].state = "none" /\ Idle(t)
    /\ Cardinality(Shown(t)) < Slots
    /\ i \notin used /\ Cardinality(used) < MaxRequests
    /\ used' = used \union {i}
    /\ upload' = [upload EXCEPT ![t] =
                    [state |-> "putting", images |-> {i}]]
    /\ UNCHANGED <<stores, call, cache, fetch, asked, restored, added, removed, overlapped>>

\* Mutant: the status of the PUT is not looked at.
PutFailsUnseen(t) ==
    /\ upload[t].state = "putting"
    /\ upload' = [upload EXCEPT ![t].state = "stored"]
    /\ UNCHANGED <<stores, call, cache, fetch, history>>

Put(t) ==
    /\ upload[t].state = "putting"
    /\ objects' = objects \union upload[t].images
    /\ upload' = [upload EXCEPT ![t].state = "stored"]
    /\ UNCHANGED <<rows, tags, call, cache, fetch, history>>

\* The PUT fails: handleFileChange ends.  (An object stored all the same is one
\* that nothing refers to, and left out.)
PutFails(t) ==
    /\ upload[t].state = "putting"
    /\ upload' = [upload EXCEPT ![t] = NoUpload]
    /\ UNCHANGED <<stores, call, cache, fetch, history>>

\* CreateImage: one row.  (The read before it only counts the photos, for
\* sort_order, which is left out.)
CreateImage(t) ==
    /\ upload[t].state = "stored" /\ Idle(t)
    /\ rows' = rows \union upload[t].images
    /\ call' = [call EXCEPT ![t] = [NoCall EXCEPT
                  !.state = "created", !.images = upload[t].images]]
    /\ UNCHANGED <<objects, tags, upload, cache, fetch, history>>

\* CreateImage fails before the insert: the tab shows an error.
CreateImageFails(t) ==
    /\ upload[t].state = "stored" /\ Idle(t)
    /\ upload' = [upload EXCEPT ![t] = NoUpload]
    /\ UNCHANGED <<stores, call, cache, fetch, history>>

\* Mutant: addImageToCache forgets the photos that are there.
CreatedAlone(t) ==
    /\ call[t].state = "created"
    /\ Mutate(t, call[t].images)
    /\ added' = [added EXCEPT ![t] = @ \union call[t].images]
    /\ upload' = [upload EXCEPT ![t] = NoUpload]
    /\ call' = [call EXCEPT ![t] = NoCall]
    /\ UNCHANGED <<stores, used, asked, restored, removed, overlapped>>

\* The tab learns that the photo is registered.
Created(t) ==
    /\ call[t].state = "created"
    /\ Mutate(t, Shown(t) \union call[t].images)
    /\ added' = [added EXCEPT ![t] = @ \union call[t].images]
    /\ upload' = [upload EXCEPT ![t] = NoUpload]
    /\ call' = [call EXCEPT ![t] = NoCall]
    /\ UNCHANGED <<stores, used, asked, restored, removed, overlapped>>

-----------------------------------------------------------------------------
(* Deletion: find the row, delete the object, delete the row               *)

\* 404 if the row is gone; the grid stays as it is.
DeleteImageFinds(t, i) ==
    /\ Idle(t) /\ i \in Shown(t)
    /\ asked' = asked \union {i}
    /\ call' = IF i \in rows
               THEN [call EXCEPT ![t] = [NoCall EXCEPT !.state = "object", !.images = {i}]]
               ELSE call
    /\ UNCHANGED <<stores, upload, cache, fetch, used, restored, added, removed, overlapped>>

DeleteImageObject(t) ==
    /\ call[t].state = "object"
    /\ objects' = objects \ call[t].images
    /\ CallTo(t, "row")
    /\ UNCHANGED <<rows, tags, upload, cache, fetch, history>>

DeleteImageRow(t) ==
    /\ call[t].state = "row"
    /\ rows' = rows \ call[t].images
    /\ CallTo(t, "deleted")
    /\ UNCHANGED <<objects, tags, upload, cache, fetch, history>>

\* The tab learns that the photo is gone.
Deleted(t) ==
    /\ call[t].state = "deleted"
    /\ Mutate(t, Shown(t) \ call[t].images)
    /\ removed' = [removed EXCEPT ![t] = @ \union call[t].images]
    /\ call' = [call EXCEPT ![t] = NoCall]
    /\ UNCHANGED <<stores, upload, used, asked, restored, added, overlapped>>

-----------------------------------------------------------------------------
(* PUT /myprofile: read the profile, save it, replace its tags             *)

\* GetProfileByUserID, with the photos and the tags preloaded: what Save will write.
UpdateReads(t, u) ==
    /\ Idle(t) /\ u \notin used /\ Cardinality(used) < MaxRequests
    /\ used' = used \union {u}
    /\ LET others == UNION {call[s].update : s \in Tabs}
       IN  overlapped' = IF others = {} THEN overlapped
                         ELSE overlapped \union others \union {u}
    /\ call' = [call EXCEPT ![t] = [state |-> "save",
                  images |-> rows, update |-> {u}, seen |-> tags]]
    /\ UNCHANGED <<stores, upload, cache, fetch, asked, restored, added, removed>>

\* Save: the preloaded rows of has-many associations are inserted again where
\* they are missing.
UpdateSaves(t) ==
    /\ call[t].state = "save"
    /\ rows' = rows \union call[t].images
    /\ restored' = restored \union (call[t].images \ rows)
    /\ tags' = tags \union call[t].seen
    /\ CallTo(t, "replace")
    /\ UNCHANGED <<objects, upload, cache, fetch, used, asked, added, removed, overlapped>>

\* ReplaceProfileTags deletes the links its statement sees; until the commit
\* nobody else sees them gone, nor does another delete see the new ones.
UpdateDeletesTags(t) ==
    /\ call[t].state = "replace"
    /\ call' = [call EXCEPT ![t] = [state |-> "commit",
                  images |-> {}, update |-> call[t].update, seen |-> tags]]
    /\ UNCHANGED <<stores, upload, cache, fetch, history>>

\* Mutant: the links are added to those that are there.
UpdateAddsTags(t) ==
    /\ call[t].state = "commit"
    /\ tags' = tags \union call[t].update
    /\ call' = [call EXCEPT ![t] = NoCall]
    /\ UNCHANGED <<rows, objects, upload, cache, fetch, history>>

\* The answer changes nothing: the edit page shows a toast, and touches no cache.
UpdateCommitsTags(t) ==
    /\ call[t].state = "commit"
    /\ tags' = (tags \ call[t].seen) \union call[t].update
    /\ call' = [call EXCEPT ![t] = NoCall]
    /\ UNCHANGED <<rows, objects, upload, cache, fetch, history>>

-----------------------------------------------------------------------------

\* Mutant: a failing S3 does not keep the row from being deleted.
CallFailsAfterObject(t) ==
    /\ ~Idle(t)
    /\ IF call[t].state = "object" THEN CallTo(t, "row") ELSE call' = [call EXCEPT ![t] = NoCall]
    /\ upload' = IF call[t].state = "created" THEN [upload EXCEPT ![t] = NoUpload] ELSE upload
    /\ UNCHANGED <<stores, cache, fetch, history>>

\* A statement fails, or the process ends, or the answer is lost: what has been
\* done stays done, the tab shows an error or its action throws.
CallFails(t) ==
    /\ ~Idle(t)
    /\ upload' = IF call[t].state = "created" THEN [upload EXCEPT ![t] = NoUpload] ELSE upload
    /\ call' = [call EXCEPT ![t] = NoCall]
    /\ UNCHANGED <<stores, cache, fetch, history>>

Upload(t) ==
    \/ \E i \in Images : PresignUpload(t, i)
    \/ Put(t) \/ PutFails(t) \/ CreateImage(t) \/ CreateImageFails(t) \/ Created(t)

Delete(t) ==
    \/ \E i \in Images : DeleteImageFinds(t, i)
    \/ DeleteImageObject(t) \/ DeleteImageRow(t) \/ Deleted(t)

Update(t) ==
    \/ \E u \in Updates : UpdateReads(t, u)
    \/ UpdateSaves(t) \/ UpdateDeletesTags(t) \/ UpdateCommitsTags(t)

Next == \E t \in Tabs :
    \/ FetchRead(t) \/ FetchEnds(t) \/ FetchFails(t)
    \/ Upload(t) \/ Delete(t) \/ Update(t)
    \/ CallFails(t)

Spec == Init /\ [][Next]_vars

-----------------------------------------------------------------------------
(* Properties                                                              *)

\* The types of the state.
TypeOK ==
    /\ rows \subseteq Images /\ objects \subseteq Images /\ tags \subseteq Updates
    /\ upload \in [Tabs -> [state : {"none", "putting", "stored"},
                     images : SUBSET Images]]
    /\ call \in [Tabs -> [state : CallStates, images : SUBSET Images,
                   update : SUBSET Updates, seen : SUBSET Updates]]
    /\ cache \in [Tabs -> [data : BOOLEAN, images : SUBSET Images]]
    /\ fetch \in [Tabs -> [data : BOOLEAN, images : SUBSET Images]]
    /\ used \subseteq Images \union Updates
    /\ asked \subseteq Images /\ restored \subseteq Images /\ overlapped \subseteq Updates
    /\ added \in [Tabs -> SUBSET Images] /\ removed \in [Tabs -> SUBSET Images]

\* A registered photo has its object in S3, unless somebody asked to delete it:
\* whatever fails between S3 and the database, the profile of a user who only
\* adds photos and saves never shows a broken one.
BrokenPhotoWasToGo == rows \ objects \subseteq asked

\* A photo whose deletion has succeeded is not left in S3, even if its row comes
\* back and whoever deletes it at the same time.
DeletedPhotoLeavesNoObject == \A t \in Tabs : removed[t] \intersect objects = {}

\* What a tab has been told, its grid shows, whatever uploads, deletions and
\* fetches overlap: no photo it has seen deleted (that has not come back), and
\* every photo it has uploaded and nobody asked to delete.
GridFollowsAnswers == \A t \in Tabs : cache[t].data =>
    /\ removed[t] \intersect Shown(t) \subseteq restored
    /\ added[t] \ asked \subseteq Shown(t)

\* An update that replaces the tags without another one under way leaves
\* exactly its own, whatever rows its own Save has written back before.
LoneUpdateSetsTags ==
    [][\A t \in Tabs :
        /\ call[t].state = "commit" /\ call'[t].state = "idle" /\ tags' # tags
        /\ call[t].update \intersect overlapped = {}
        => tags' = call[t].update]_vars

\* profile_image_usecase.go:21: DeleteImage deletes the photo.  Once a tab has
\* shown that it is deleted, the profile does not have it.
DeletedStaysDeleted == \A t \in Tabs : removed[t] \intersect rows = {}
=============================================================================
