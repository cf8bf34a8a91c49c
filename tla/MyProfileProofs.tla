--------------------------- MODULE MyProfileProofs ---------------------------
(***************************************************************************)
(* Proofs about MyProfile and ProfileForm, for any number of tabs, files,  *)
(* updates and saves, any grid and any finite set of tags.                 *)
(*                                                                         *)
(* That a registered photo has its object is inductive with what uploads   *)
(* and saves under way are about to register; that a deleted one leaves no *)
(* object also needs that a file a tab is still uploading is nowhere else. *)
(* What the grids show rests on what the table holds, and the tags on who  *)
(* overlaps with whom.                                                     *)
(*                                                                         *)
(* That a form in sync is the profile rests on what a save that runs alone *)
(* deletes: all links there are.  That the tags stay as chosen also needs  *)
(* that every form and every save under way has no more than the limit.    *)
(***************************************************************************)
EXTENDS MyProfile, ProfileForm, FiniteSetTheorems, TLAPS

\* A tab sends a file once, and whatever is registered or removed was sent.
Sent ==
    /\ rows \subseteq used
    /\ \A t \in Tabs : /\ upload[t].images \subseteq used
                       /\ call[t].images \subseteq used
                       /\ removed[t] \subseteq used
OwnFiles == \A s, t \in Tabs : s # t => upload[s].images \intersect upload[t].images = {}

\* A file that is not registered yet is nobody's photo.
Unregistered(t) ==
    \/ upload[t].state = "putting"
    \/ upload[t].state = "stored" /\ call[t].state # "created"
Fresh ==
    \A t \in Tabs : Unregistered(t) =>
        /\ upload[t].images \intersect rows = {}
        /\ \A s \in Tabs : /\ upload[t].images \intersect call[s].images = {}
                           /\ upload[t].images \intersect removed[s] = {}

Files == Sent /\ OwnFiles /\ Fresh

\* What is registered, or about to be, is stored or somebody wants it gone.
Stored ==
    /\ rows \subseteq objects \union asked
    /\ \A t \in Tabs :
        /\ upload[t].state = "stored" => upload[t].images \subseteq objects \union asked
        /\ call[t].state = "save" => call[t].images \subseteq objects \union asked

\* A deletion is asked for, and past its first step there is no object.
Deletions ==
    \A t \in Tabs :
        /\ call[t].state \in {"object", "row", "deleted"} => call[t].images \subseteq asked
        /\ call[t].state \in {"row", "deleted"} => call[t].images \intersect objects = {}
        /\ removed[t] \intersect objects = {}

\* The table agrees with what tabs have been told, or are about to be.
Table ==
    \A t \in Tabs :
        /\ removed[t] \intersect rows \subseteq restored
        /\ added[t] \ asked \subseteq rows
        /\ call[t].state = "deleted" => call[t].images \intersect rows \subseteq restored
        /\ call[t].state = "created" => /\ call[t].images \ asked \subseteq rows
                                        /\ call[t].images \intersect removed[t] = {}

\* So does what a tab shows or has read.
Agrees(t, shown) ==
    /\ removed[t] \intersect shown \subseteq restored
    /\ added[t] \ asked \subseteq shown
Grids ==
    \A t \in Tabs : /\ cache[t].data => Agrees(t, cache[t].images)
                    /\ fetch[t].data => Agrees(t, fetch[t].images)

\* Of two updates under way at once both are noted; one that runs alone sees,
\* when it deletes the links, all there are.
Overlaps ==
    /\ \A s, t \in Tabs : s # t /\ call[s].update # {} /\ call[t].update # {} =>
          call[s].update \subseteq overlapped
    /\ \A t \in Tabs :
        /\ call[t].state \in {"save", "replace", "commit"} => call[t].update # {}
        /\ call[t].state = "commit" /\ call[t].update \intersect overlapped = {} =>
              tags \subseteq call[t].seen

IInv == TypeOK /\ Files /\ Stored /\ Deletions /\ Table /\ Grids /\ Overlaps

-----------------------------------------------------------------------------

Calls == [state : CallStates, images : SUBSET Images, update : SUBSET Updates,
          seen : SUBSET Updates]

\* CallTo changes the state of one tab's call, and nothing else of any.
LEMMA CallToEffect ==
  ASSUME TypeOK, NEW t \in Tabs, NEW state \in CallStates, CallTo(t, state)
  PROVE  /\ call' \in [Tabs -> Calls]
         /\ call'[t].state = state
         /\ call'[t].update = call[t].update /\ call'[t].seen = call[t].seen
         /\ \A s \in Tabs \ {t} : call'[s] = call[s]
  <1>1. call \in [Tabs -> Calls]
    BY DEF TypeOK, Calls
  <1>2. [call[t] EXCEPT !.state = state] =
           [state |-> state, images |-> call[t].images,
            update |-> call[t].update, seen |-> call[t].seen]
    BY <1>1 DEF Calls
  <1>3. call' = [call EXCEPT ![t] = [state |-> state, images |-> call[t].images,
                   update |-> call[t].update, seen |-> call[t].seen]]
    BY <1>2, Zenon DEF CallTo
  <1>4. call' \in [Tabs -> Calls]
    BY <1>1, <1>3 DEF Calls
  <1>5. QED
    BY <1>1, <1>3, <1>4

\* What a tab, or the API for it, may do.
Acts(t) ==
    \/ FetchRead(t) \/ FetchEnds(t) \/ FetchFails(t)
    \/ Upload(t) \/ Delete(t) \/ Update(t)
    \/ CallFails(t)

\* Every step keeps the types.
LEMMA TypesKept ==
  ASSUME IInv, NEW t \in Tabs, Acts(t)
  PROVE  TypeOK'
  <1>1. CASE FetchRead(t)
    BY <1>1 DEF IInv, TypeOK, CallStates, FetchRead, Data, stores, history
  <1>2. CASE FetchEnds(t)
    BY <1>2 DEF IInv, TypeOK, CallStates, FetchEnds, NoData, stores, history
  <1>3. CASE FetchFails(t)
    BY <1>3 DEF IInv, TypeOK, CallStates, FetchFails, NoData, stores, history
  <1>4. ASSUME NEW i \in Images, PresignUpload(t, i) PROVE TypeOK'
    BY <1>4 DEF IInv, TypeOK, CallStates, PresignUpload, stores
  <1>5. CASE Put(t)
    BY <1>5 DEF IInv, TypeOK, CallStates, Put, stores, history
  <1>6. CASE PutFails(t)
    BY <1>6 DEF IInv, TypeOK, CallStates, PutFails, NoUpload, stores, history
  <1>7. CASE CreateImage(t)
    BY <1>7 DEF IInv, TypeOK, CallStates, CreateImage, Idle, NoCall, history
  <1>8. CASE CreateImageFails(t)
    BY <1>8 DEF IInv, TypeOK, CallStates, CreateImageFails, NoUpload, stores,
       history
  <1>9. CASE Created(t)
    BY <1>9 DEF IInv, TypeOK, CallStates, Created, Mutate, Shown, Data, NoData,
       NoUpload, NoCall, stores
  <1>10. ASSUME NEW i \in Images, DeleteImageFinds(t, i) PROVE TypeOK'
    BY <1>10 DEF IInv, TypeOK, CallStates, DeleteImageFinds, Idle, Shown, NoCall,
       stores
  <1>11. CASE DeleteImageObject(t)
    <2>1. call' \in [Tabs -> Calls]
      BY <1>11, CallToEffect DEF IInv, CallStates, DeleteImageObject
    <2>2. QED
      BY <1>11, <2>1 DEF IInv, TypeOK, Calls, DeleteImageObject, history
  <1>12. CASE DeleteImageRow(t)
    <2>1. call' \in [Tabs -> Calls]
      BY <1>12, CallToEffect DEF IInv, CallStates, DeleteImageRow
    <2>2. QED
      BY <1>12, <2>1 DEF IInv, TypeOK, Calls, DeleteImageRow, history
  <1>13. CASE Deleted(t)
    BY <1>13 DEF IInv, TypeOK, CallStates, Deleted, Mutate, Shown, Data, NoData,
       NoCall, stores
  <1>14. ASSUME NEW u \in Updates, UpdateReads(t, u) PROVE TypeOK'
    BY <1>14 DEF IInv, TypeOK, CallStates, UpdateReads, Idle, stores
  <1>15. CASE UpdateSaves(t)
    <2>1. call' \in [Tabs -> Calls]
      BY <1>15, CallToEffect DEF IInv, CallStates, UpdateSaves
    <2>2. QED
      BY <1>15, <2>1 DEF IInv, TypeOK, Calls, UpdateSaves
  <1>16. CASE UpdateDeletesTags(t)
    BY <1>16 DEF IInv, TypeOK, CallStates, UpdateDeletesTags, stores, history
  <1>17. CASE UpdateCommitsTags(t)
    BY <1>17 DEF IInv, TypeOK, CallStates, UpdateCommitsTags, NoCall, history
  <1>18. CASE CallFails(t)
    BY <1>18 DEF IInv, TypeOK, CallStates, CallFails, NoCall, NoUpload, stores,
       history
  <1>19. QED
    BY <1>1, <1>2, <1>3, <1>4, <1>5, <1>6, <1>7, <1>8, <1>9, <1>10, <1>11, <1>12,
       <1>13, <1>14, <1>15, <1>16, <1>17, <1>18 DEF Acts, Upload, Delete, Update

\* A file is presigned once, so one that is not registered stays nobody's photo.
LEMMA FilesKept ==
  ASSUME IInv, NEW t \in Tabs, Acts(t)
  PROVE  Files'
  <1>1. CASE FetchRead(t)
    BY <1>1 DEF IInv, TypeOK, Files, Sent, OwnFiles, Fresh, Unregistered, FetchRead,
       Data, stores, history
  <1>2. CASE FetchEnds(t)
    BY <1>2 DEF IInv, TypeOK, Files, Sent, OwnFiles, Fresh, Unregistered, FetchEnds,
       NoData, stores, history
  <1>3. CASE FetchFails(t)
    BY <1>3 DEF IInv, TypeOK, Files, Sent, OwnFiles, Fresh, Unregistered,
       FetchFails, NoData, stores, history
  <1>4. ASSUME NEW i \in Images, PresignUpload(t, i) PROVE Files'
    BY <1>4 DEF IInv, TypeOK, Files, Sent, OwnFiles, Fresh, Unregistered,
       PresignUpload, stores
  <1>5. CASE Put(t)
    BY <1>5 DEF IInv, TypeOK, Files, Sent, OwnFiles, Fresh, Unregistered, Put,
       stores, history
  <1>6. CASE PutFails(t)
    BY <1>6 DEF IInv, TypeOK, Files, Sent, OwnFiles, Fresh, Unregistered, PutFails,
       NoUpload, stores, history
  <1>7. CASE CreateImage(t)
    BY <1>7 DEF IInv, TypeOK, Files, Sent, OwnFiles, Fresh, Unregistered,
       CreateImage, Idle, NoCall, history
  <1>8. CASE CreateImageFails(t)
    BY <1>8 DEF IInv, TypeOK, Files, Sent, OwnFiles, Fresh, Unregistered,
       CreateImageFails, NoUpload, stores, history
  <1>9. CASE Created(t)
    BY <1>9 DEF IInv, TypeOK, Files, Sent, OwnFiles, Fresh, Unregistered, Created,
       Mutate, Shown, Data, NoData, NoUpload, NoCall, stores
  <1>10. ASSUME NEW i \in Images, DeleteImageFinds(t, i) PROVE Files'
    BY <1>10 DEF IInv, TypeOK, Files, Sent, OwnFiles, Fresh, Unregistered,
       DeleteImageFinds, Idle, Shown, NoCall, stores
  <1>11. CASE DeleteImageObject(t)
    BY <1>11 DEF IInv, TypeOK, Files, Sent, OwnFiles, Fresh, Unregistered,
       DeleteImageObject, CallTo, history
  <1>12. CASE DeleteImageRow(t)
    BY <1>12 DEF IInv, TypeOK, Files, Sent, OwnFiles, Fresh, Unregistered,
       DeleteImageRow, CallTo, history
  <1>13. CASE Deleted(t)
    BY <1>13 DEF IInv, TypeOK, Files, Sent, OwnFiles, Fresh, Unregistered, Deleted,
       Mutate, Shown, Data, NoData, NoCall, stores
  <1>14. ASSUME NEW u \in Updates, UpdateReads(t, u) PROVE Files'
    BY <1>14 DEF IInv, TypeOK, Files, Sent, OwnFiles, Fresh, Unregistered,
       UpdateReads, Idle, stores
  <1>15. CASE UpdateSaves(t)
    BY <1>15 DEF IInv, TypeOK, Files, Sent, OwnFiles, Fresh, Unregistered,
       UpdateSaves, CallTo
  <1>16. CASE UpdateDeletesTags(t)
    BY <1>16 DEF IInv, TypeOK, Files, Sent, OwnFiles, Fresh, Unregistered,
       UpdateDeletesTags, stores, history
  <1>17. CASE UpdateCommitsTags(t)
    BY <1>17 DEF IInv, TypeOK, Files, Sent, OwnFiles, Fresh, Unregistered,
       UpdateCommitsTags, NoCall, history
  <1>18. CASE CallFails(t)
    BY <1>18 DEF IInv, TypeOK, Files, Sent, OwnFiles, Fresh, Unregistered,
       CallFails, NoCall, NoUpload, stores, history
  <1>19. QED
    BY <1>1, <1>2, <1>3, <1>4, <1>5, <1>6, <1>7, <1>8, <1>9, <1>10, <1>11, <1>12,
       <1>13, <1>14, <1>15, <1>16, <1>17, <1>18 DEF Acts, Upload, Delete, Update

\* What comes to be registered was stored, or read from the rows.
LEMMA StoredKept ==
  ASSUME IInv, NEW t \in Tabs, Acts(t)
  PROVE  Stored'
  <1>1. CASE FetchRead(t)
    BY <1>1 DEF IInv, TypeOK, Stored, Deletions, FetchRead, Data, stores, history
  <1>2. CASE FetchEnds(t)
    BY <1>2 DEF IInv, TypeOK, Stored, Deletions, FetchEnds, NoData, stores, history
  <1>3. CASE FetchFails(t)
    BY <1>3 DEF IInv, TypeOK, Stored, Deletions, FetchFails, NoData, stores, history
  <1>4. ASSUME NEW i \in Images, PresignUpload(t, i) PROVE Stored'
    BY <1>4 DEF IInv, TypeOK, Stored, Deletions, PresignUpload, stores
  <1>5. CASE Put(t)
    BY <1>5 DEF IInv, TypeOK, Stored, Deletions, Put, stores, history
  <1>6. CASE PutFails(t)
    BY <1>6 DEF IInv, TypeOK, Stored, Deletions, PutFails, NoUpload, stores, history
  <1>7. CASE CreateImage(t)
    BY <1>7 DEF IInv, TypeOK, Stored, Deletions, CreateImage, Idle, NoCall, history
  <1>8. CASE CreateImageFails(t)
    BY <1>8 DEF IInv, TypeOK, Stored, Deletions, CreateImageFails, NoUpload, stores,
       history
  <1>9. CASE Created(t)
    BY <1>9 DEF IInv, TypeOK, Stored, Deletions, Created, Mutate, Shown, Data,
       NoData, NoUpload, NoCall, stores
  <1>10. ASSUME NEW i \in Images, DeleteImageFinds(t, i) PROVE Stored'
    BY <1>10 DEF IInv, TypeOK, Stored, Deletions, DeleteImageFinds, Idle, Shown,
       NoCall, stores
  <1>11. CASE DeleteImageObject(t)
    BY <1>11 DEF IInv, TypeOK, Stored, Deletions, DeleteImageObject, CallTo, history
  <1>12. CASE DeleteImageRow(t)
    BY <1>12 DEF IInv, TypeOK, Stored, Deletions, DeleteImageRow, CallTo, history
  <1>13. CASE Deleted(t)
    BY <1>13 DEF IInv, TypeOK, Stored, Deletions, Deleted, Mutate, Shown, Data,
       NoData, NoCall, stores
  <1>14. ASSUME NEW u \in Updates, UpdateReads(t, u) PROVE Stored'
    BY <1>14 DEF IInv, TypeOK, Stored, Deletions, UpdateReads, Idle, stores
  <1>15. CASE UpdateSaves(t)
    BY <1>15 DEF IInv, TypeOK, Stored, Deletions, UpdateSaves, CallTo
  <1>16. CASE UpdateDeletesTags(t)
    BY <1>16 DEF IInv, TypeOK, Stored, Deletions, UpdateDeletesTags, stores, history
  <1>17. CASE UpdateCommitsTags(t)
    BY <1>17 DEF IInv, TypeOK, Stored, Deletions, UpdateCommitsTags, NoCall, history
  <1>18. CASE CallFails(t)
    BY <1>18 DEF IInv, TypeOK, Stored, Deletions, CallFails, NoCall, NoUpload,
       stores, history
  <1>19. QED
    BY <1>1, <1>2, <1>3, <1>4, <1>5, <1>6, <1>7, <1>8, <1>9, <1>10, <1>11, <1>12,
       <1>13, <1>14, <1>15, <1>16, <1>17, <1>18 DEF Acts, Upload, Delete, Update

\* An object comes only with a new file, and a deletion only with a request.
LEMMA DeletionsKept ==
  ASSUME IInv, NEW t \in Tabs, Acts(t)
  PROVE  Deletions'
  <1>1. CASE FetchRead(t)
    BY <1>1 DEF IInv, TypeOK, Files, Fresh, Unregistered, Deletions, FetchRead,
       Data, stores, history
  <1>2. CASE FetchEnds(t)
    BY <1>2 DEF IInv, TypeOK, Files, Fresh, Unregistered, Deletions, FetchEnds,
       NoData, stores, history
  <1>3. CASE FetchFails(t)
    BY <1>3 DEF IInv, TypeOK, Files, Fresh, Unregistered, Deletions, FetchFails,
       NoData, stores, history
  <1>4. ASSUME NEW i \in Images, PresignUpload(t, i) PROVE Deletions'
    BY <1>4 DEF IInv, TypeOK, Files, Fresh, Unregistered, Deletions, PresignUpload,
       stores
  <1>5. CASE Put(t)
    BY <1>5 DEF IInv, TypeOK, Files, Fresh, Unregistered, Deletions, Put, stores,
       history
  <1>6. CASE PutFails(t)
    BY <1>6 DEF IInv, TypeOK, Files, Fresh, Unregistered, Deletions, PutFails,
       NoUpload, stores, history
  <1>7. CASE CreateImage(t)
    BY <1>7 DEF IInv, TypeOK, Files, Fresh, Unregistered, Deletions, CreateImage,
       Idle, NoCall, history
  <1>8. CASE CreateImageFails(t)
    BY <1>8 DEF IInv, TypeOK, Files, Fresh, Unregistered, Deletions,
       CreateImageFails, NoUpload, stores, history
  <1>9. CASE Created(t)
    BY <1>9 DEF IInv, TypeOK, Files, Fresh, Unregistered, Deletions, Created,
       Mutate, Shown, Data, NoData, NoUpload, NoCall, stores
  <1>10. ASSUME NEW i \in Images, DeleteImageFinds(t, i) PROVE Deletions'
    BY <1>10 DEF IInv, TypeOK, Files, Fresh, Unregistered, Deletions,
       DeleteImageFinds, Idle, Shown, NoCall, stores
  <1>11. CASE DeleteImageObject(t)
    BY <1>11 DEF IInv, TypeOK, Files, Fresh, Unregistered, Deletions,
       DeleteImageObject, CallTo, history
  <1>12. CASE DeleteImageRow(t)
    BY <1>12 DEF IInv, TypeOK, Files, Fresh, Unregistered, Deletions,
       DeleteImageRow, CallTo, history
  <1>13. CASE Deleted(t)
    BY <1>13 DEF IInv, TypeOK, Files, Fresh, Unregistered, Deletions, Deleted,
       Mutate, Shown, Data, NoData, NoCall, stores
  <1>14. ASSUME NEW u \in Updates, UpdateReads(t, u) PROVE Deletions'
    BY <1>14 DEF IInv, TypeOK, Files, Fresh, Unregistered, Deletions, UpdateReads,
       Idle, stores
  <1>15. CASE UpdateSaves(t)
    BY <1>15 DEF IInv, TypeOK, Files, Fresh, Unregistered, Deletions, UpdateSaves,
       CallTo
  <1>16. CASE UpdateDeletesTags(t)
    BY <1>16 DEF IInv, TypeOK, Files, Fresh, Unregistered, Deletions,
       UpdateDeletesTags, stores, history
  <1>17. CASE UpdateCommitsTags(t)
    BY <1>17 DEF IInv, TypeOK, Files, Fresh, Unregistered, Deletions,
       UpdateCommitsTags, NoCall, history
  <1>18. CASE CallFails(t)
    BY <1>18 DEF IInv, TypeOK, Files, Fresh, Unregistered, Deletions, CallFails,
       NoCall, NoUpload, stores, history
  <1>19. QED
    BY <1>1, <1>2, <1>3, <1>4, <1>5, <1>6, <1>7, <1>8, <1>9, <1>10, <1>11, <1>12,
       <1>13, <1>14, <1>15, <1>16, <1>17, <1>18 DEF Acts, Upload, Delete, Update

\* Rows come back by a save only, which is noted, and go by a deletion only.
LEMMA TableKept ==
  ASSUME IInv, NEW t \in Tabs, Acts(t)
  PROVE  Table'
  <1>1. CASE FetchRead(t)
    BY <1>1 DEF IInv, TypeOK, Files, Fresh, Unregistered, Deletions, Table,
       FetchRead, Data, stores, history
  <1>2. CASE FetchEnds(t)
    BY <1>2 DEF IInv, TypeOK, Files, Fresh, Unregistered, Deletions, Table,
       FetchEnds, NoData, stores, history
  <1>3. CASE FetchFails(t)
    BY <1>3 DEF IInv, TypeOK, Files, Fresh, Unregistered, Deletions, Table,
       FetchFails, NoData, stores, history
  <1>4. ASSUME NEW i \in Images, PresignUpload(t, i) PROVE Table'
    BY <1>4 DEF IInv, TypeOK, Files, Fresh, Unregistered, Deletions, Table,
       PresignUpload, stores
  <1>5. CASE Put(t)
    BY <1>5 DEF IInv, TypeOK, Files, Fresh, Unregistered, Deletions, Table, Put,
       stores, history
  <1>6. CASE PutFails(t)
    BY <1>6 DEF IInv, TypeOK, Files, Fresh, Unregistered, Deletions, Table,
       PutFails, NoUpload, stores, history
  <1>7. CASE CreateImage(t)
    BY <1>7 DEF IInv, TypeOK, Files, Fresh, Unregistered, Deletions, Table,
       CreateImage, Idle, NoCall, history
  <1>8. CASE CreateImageFails(t)
    BY <1>8 DEF IInv, TypeOK, Files, Fresh, Unregistered, Deletions, Table,
       CreateImageFails, NoUpload, stores, history
  <1>9. CASE Created(t)
    BY <1>9 DEF IInv, TypeOK, Files, Fresh, Unregistered, Deletions, Table, Created,
       Mutate, Shown, Data, NoData, NoUpload, NoCall, stores
  <1>10. ASSUME NEW i \in Images, DeleteImageFinds(t, i) PROVE Table'
    BY <1>10 DEF IInv, TypeOK, Files, Fresh, Unregistered, Deletions, Table,
       DeleteImageFinds, Idle, Shown, NoCall, stores
  <1>11. CASE DeleteImageObject(t)
    BY <1>11 DEF IInv, TypeOK, Files, Fresh, Unregistered, Deletions, Table,
       DeleteImageObject, CallTo, history
  <1>12. CASE DeleteImageRow(t)
    BY <1>12 DEF IInv, TypeOK, Files, Fresh, Unregistered, Deletions, Table,
       DeleteImageRow, CallTo, history
  <1>13. CASE Deleted(t)
    BY <1>13 DEF IInv, TypeOK, Files, Fresh, Unregistered, Deletions, Table,
       Deleted, Mutate, Shown, Data, NoData, NoCall, stores
  <1>14. ASSUME NEW u \in Updates, UpdateReads(t, u) PROVE Table'
    BY <1>14 DEF IInv, TypeOK, Files, Fresh, Unregistered, Deletions, Table,
       UpdateReads, Idle, stores
  <1>15. CASE UpdateSaves(t)
    BY <1>15 DEF IInv, TypeOK, Files, Fresh, Unregistered, Deletions, Table,
       UpdateSaves, CallTo
  <1>16. CASE UpdateDeletesTags(t)
    BY <1>16 DEF IInv, TypeOK, Files, Fresh, Unregistered, Deletions, Table,
       UpdateDeletesTags, stores, history
  <1>17. CASE UpdateCommitsTags(t)
    BY <1>17 DEF IInv, TypeOK, Files, Fresh, Unregistered, Deletions, Table,
       UpdateCommitsTags, NoCall, history
  <1>18. CASE CallFails(t)
    BY <1>18 DEF IInv, TypeOK, Files, Fresh, Unregistered, Deletions, Table,
       CallFails, NoCall, NoUpload, stores, history
  <1>19. QED
    BY <1>1, <1>2, <1>3, <1>4, <1>5, <1>6, <1>7, <1>8, <1>9, <1>10, <1>11, <1>12,
       <1>13, <1>14, <1>15, <1>16, <1>17, <1>18 DEF Acts, Upload, Delete, Update

\* mutate() changes a grid as the answer says, and discards what was read before.
LEMMA GridsKept ==
  ASSUME IInv, NEW t \in Tabs, Acts(t)
  PROVE  Grids'
  <1>1. CASE FetchRead(t)
    BY <1>1 DEF IInv, TypeOK, Deletions, Table, Grids, Agrees, FetchRead, Data,
       stores, history
  <1>2. CASE FetchEnds(t)
    BY <1>2 DEF IInv, TypeOK, Deletions, Table, Grids, Agrees, FetchEnds, NoData,
       stores, history
  <1>3. CASE FetchFails(t)
    BY <1>3 DEF IInv, TypeOK, Deletions, Table, Grids, Agrees, FetchFails, NoData,
       stores, history
  <1>4. ASSUME NEW i \in Images, PresignUpload(t, i) PROVE Grids'
    BY <1>4 DEF IInv, TypeOK, Deletions, Table, Grids, Agrees, PresignUpload, stores
  <1>5. CASE Put(t)
    BY <1>5 DEF IInv, TypeOK, Deletions, Table, Grids, Agrees, Put, stores, history
  <1>6. CASE PutFails(t)
    BY <1>6 DEF IInv, TypeOK, Deletions, Table, Grids, Agrees, PutFails, NoUpload,
       stores, history
  <1>7. CASE CreateImage(t)
    BY <1>7 DEF IInv, TypeOK, Deletions, Table, Grids, Agrees, CreateImage, Idle,
       NoCall, history
  <1>8. CASE CreateImageFails(t)
    BY <1>8 DEF IInv, TypeOK, Deletions, Table, Grids, Agrees, CreateImageFails,
       NoUpload, stores, history
  <1>9. CASE Created(t)
    BY <1>9 DEF IInv, TypeOK, Deletions, Table, Grids, Agrees, Created, Mutate,
       Shown, Data, NoData, NoUpload, NoCall, stores
  <1>10. ASSUME NEW i \in Images, DeleteImageFinds(t, i) PROVE Grids'
    BY <1>10 DEF IInv, TypeOK, Deletions, Table, Grids, Agrees, DeleteImageFinds,
       Idle, Shown, NoCall, stores
  <1>11. CASE DeleteImageObject(t)
    BY <1>11 DEF IInv, TypeOK, Deletions, Table, Grids, Agrees, DeleteImageObject,
       CallTo, history
  <1>12. CASE DeleteImageRow(t)
    BY <1>12 DEF IInv, TypeOK, Deletions, Table, Grids, Agrees, DeleteImageRow,
       CallTo, history
  <1>13. CASE Deleted(t)
    BY <1>13 DEF IInv, TypeOK, Deletions, Table, Grids, Agrees, Deleted, Mutate,
       Shown, Data, NoData, NoCall, stores
  <1>14. ASSUME NEW u \in Updates, UpdateReads(t, u) PROVE Grids'
    BY <1>14 DEF IInv, TypeOK, Deletions, Table, Grids, Agrees, UpdateReads, Idle,
       stores
  <1>15. CASE UpdateSaves(t)
    BY <1>15 DEF IInv, TypeOK, Deletions, Table, Grids, Agrees, UpdateSaves, CallTo
  <1>16. CASE UpdateDeletesTags(t)
    BY <1>16 DEF IInv, TypeOK, Deletions, Table, Grids, Agrees, UpdateDeletesTags,
       stores, history
  <1>17. CASE UpdateCommitsTags(t)
    BY <1>17 DEF IInv, TypeOK, Deletions, Table, Grids, Agrees, UpdateCommitsTags,
       NoCall, history
  <1>18. CASE CallFails(t)
    BY <1>18 DEF IInv, TypeOK, Deletions, Table, Grids, Agrees, CallFails, NoCall,
       NoUpload, stores, history
  <1>19. QED
    BY <1>1, <1>2, <1>3, <1>4, <1>5, <1>6, <1>7, <1>8, <1>9, <1>10, <1>11, <1>12,
       <1>13, <1>14, <1>15, <1>16, <1>17, <1>18 DEF Acts, Upload, Delete, Update

\* Updates that overlap are noted when the second begins.
LEMMA OverlapsKept ==
  ASSUME IInv, NEW t \in Tabs, Acts(t)
  PROVE  Overlaps'
  <1>1. CASE FetchRead(t)
    BY <1>1 DEF IInv, TypeOK, Overlaps, FetchRead, Data, stores, history
  <1>2. CASE FetchEnds(t)
    BY <1>2 DEF IInv, TypeOK, Overlaps, FetchEnds, NoData, stores, history
  <1>3. CASE FetchFails(t)
    BY <1>3 DEF IInv, TypeOK, Overlaps, FetchFails, NoData, stores, history
  <1>4. ASSUME NEW i \in Images, PresignUpload(t, i) PROVE Overlaps'
    BY <1>4 DEF IInv, TypeOK, Overlaps, PresignUpload, stores
  <1>5. CASE Put(t)
    BY <1>5 DEF IInv, TypeOK, Overlaps, Put, stores, history
  <1>6. CASE PutFails(t)
    BY <1>6 DEF IInv, TypeOK, Overlaps, PutFails, NoUpload, stores, history
  <1>7. CASE CreateImage(t)
    BY <1>7 DEF IInv, TypeOK, Overlaps, CreateImage, Idle, NoCall, history
  <1>8. CASE CreateImageFails(t)
    BY <1>8 DEF IInv, TypeOK, Overlaps, CreateImageFails, NoUpload, stores, history
  <1>9. CASE Created(t)
    BY <1>9 DEF IInv, TypeOK, Overlaps, Created, Mutate, Shown, Data, NoData,
       NoUpload, NoCall, stores
  <1>10. ASSUME NEW i \in Images, DeleteImageFinds(t, i) PROVE Overlaps'
    BY <1>10 DEF IInv, TypeOK, Overlaps, DeleteImageFinds, Idle, Shown, NoCall,
       stores
  <1>11. CASE DeleteImageObject(t)
    <2>1. \A s \in Tabs : /\ call'[s].update = call[s].update
                          /\ call'[s].state = call[s].state \/ call'[s].state \in {"row", "deleted"}
                          /\ call'[s].seen = call[s].seen
      BY <1>11, CallToEffect DEF IInv, CallStates, DeleteImageObject
    <2>2. QED
      BY <1>11, <2>1 DEF IInv, Overlaps, DeleteImageObject, history
  <1>12. CASE DeleteImageRow(t)
    <2>1. \A s \in Tabs : /\ call'[s].update = call[s].update
                          /\ call'[s].state = call[s].state \/ call'[s].state \in {"row", "deleted"}
                          /\ call'[s].seen = call[s].seen
      BY <1>12, CallToEffect DEF IInv, CallStates, DeleteImageRow
    <2>2. QED
      BY <1>12, <2>1 DEF IInv, Overlaps, DeleteImageRow, history
  <1>13. CASE Deleted(t)
    BY <1>13 DEF IInv, TypeOK, Overlaps, Deleted, Mutate, Shown, Data, NoData,
       NoCall, stores
  <1>14. ASSUME NEW u \in Updates, UpdateReads(t, u) PROVE Overlaps'
    BY <1>14 DEF IInv, TypeOK, Overlaps, UpdateReads, Idle, stores
  <1>15. CASE UpdateSaves(t)
    <2>1. /\ \A s \in Tabs : call'[s].update = call[s].update
          /\ call'[t].state = "replace"
          /\ \A s \in Tabs \ {t} : call'[s] = call[s]
      BY <1>15, CallToEffect DEF IInv, CallStates, UpdateSaves
    <2>2. call[t].update # {} /\ overlapped' = overlapped
      BY <1>15 DEF IInv, Overlaps, UpdateSaves
    <2>3. ASSUME NEW s \in Tabs, call'[s].state = "commit"
          PROVE  call[s].update \subseteq overlapped /\ call[s].update # {}
      BY <2>1, <2>2, <2>3 DEF IInv, Overlaps
    <2>4. QED
      BY <2>1, <2>2, <2>3 DEF IInv, Overlaps
  <1>16. CASE UpdateDeletesTags(t)
    <2>1. /\ call'[t].state = "commit" /\ call'[t].seen = tags
          /\ \A s \in Tabs : call'[s].update = call[s].update
          /\ \A s \in Tabs \ {t} : call'[s] = call[s]
      BY <1>16 DEF IInv, TypeOK, UpdateDeletesTags
    <2>2. call[t].update # {} /\ overlapped' = overlapped /\ tags' = tags
      BY <1>16 DEF IInv, Overlaps, UpdateDeletesTags, stores, history
    <2>3. QED
      BY <2>1, <2>2 DEF IInv, Overlaps
  <1>17. CASE UpdateCommitsTags(t)
    BY <1>17 DEF IInv, TypeOK, Overlaps, UpdateCommitsTags, NoCall, history
  <1>18. CASE CallFails(t)
    BY <1>18 DEF IInv, TypeOK, Overlaps, CallFails, NoCall, NoUpload, stores,
       history
  <1>19. QED
    BY <1>1, <1>2, <1>3, <1>4, <1>5, <1>6, <1>7, <1>8, <1>9, <1>10, <1>11, <1>12,
       <1>13, <1>14, <1>15, <1>16, <1>17, <1>18 DEF Acts, Upload, Delete, Update

\* Every step preserves the invariant.
LEMMA InvStep == IInv /\ [Next]_vars => IInv'
  <1> SUFFICES ASSUME IInv, [Next]_vars PROVE IInv'
    OBVIOUS
  <1>1. CASE Next
    <2>1. PICK t \in Tabs : Acts(t)
      BY <1>1, Zenon DEF Next, Acts
    <2>2. QED
      BY <2>1, TypesKept, FilesKept, StoredKept, DeletionsKept, TableKept,
         GridsKept,
         OverlapsKept DEF IInv
  <1>2. CASE UNCHANGED vars
    <2>1. TypeOK' /\ Files' /\ Stored' /\ Deletions'
      BY <1>2 DEF vars, IInv, TypeOK, Files, Sent, OwnFiles, Fresh, Unregistered,
         Stored,
         Deletions
    <2>2. Table' /\ Grids' /\ Overlaps'
      BY <1>2 DEF vars, IInv, Table, Grids, Agrees, Overlaps
    <2>3. QED
      BY <2>1, <2>2 DEF IInv
  <1>3. QED
    BY <1>1, <1>2

-----------------------------------------------------------------------------
(* The theorems                                                            *)

\* The invariant holds in every reachable state.
THEOREM InvHolds == Spec => []IInv
  <1>1. Init => IInv
    BY DEF Init, IInv, TypeOK, Files, Sent, OwnFiles, Fresh, Unregistered, Stored,
       Deletions, Table, Grids, Overlaps, CallStates, NoUpload, NoCall, NoData
  <1>2. QED
    BY <1>1, InvStep, PTL DEF Spec

\* Rows, objects, tags and the state of the tabs keep their types.
THEOREM MyProfileTypes == Spec => []TypeOK
  <1>1. IInv => TypeOK
    BY DEF IInv
  <1>2. QED
    BY <1>1, InvHolds, PTL

\* CreateImage and the Save of UpdateMyProfile register nothing that is not in
\* S3, unless its deletion has been asked for.
THEOREM RegisteredPhotosAreStored == Spec => []BrokenPhotoWasToGo
  <1>1. IInv => BrokenPhotoWasToGo
    BY DEF IInv, Stored, BrokenPhotoWasToGo
  <1>2. QED
    BY <1>1, InvHolds, PTL

\* DeleteImage that has answered leaves no object, however often its row comes back.
THEOREM DeletedPhotosAreGoneFromS3 == Spec => []DeletedPhotoLeavesNoObject
  <1>1. IInv => DeletedPhotoLeavesNoObject
    BY DEF IInv, Deletions, DeletedPhotoLeavesNoObject
  <1>2. QED
    BY <1>1, InvHolds, PTL

\* profile-photos.tsx: a tab's grid agrees with the answers the tab has got.
THEOREM GridsFollowAnswers == Spec => []GridFollowsAnswers
  <1>1. IInv => GridFollowsAnswers
    BY DEF IInv, Grids, Agrees, GridFollowsAnswers, Shown
  <1>2. QED
    BY <1>1, InvHolds, PTL

\* ReplaceProfileTags of an update that ran alone leaves exactly its tags.
THEOREM LoneUpdatesSetTags == Spec => LoneUpdateSetsTags
  <1>1. IInv /\ [Next]_vars =>
        [\A t \in Tabs :
            /\ call[t].state = "commit" /\ call'[t].state = "idle" /\ tags' # tags
            /\ call[t].update \intersect overlapped = {}
            => tags' = call[t].update]_vars
    <2> SUFFICES ASSUME IInv, Next, NEW t \in Tabs,
                        call[t].state = "commit", call'[t].state = "idle", tags' # tags,
                        call[t].update \intersect overlapped = {}
                 PROVE  tags' = call[t].update
      OBVIOUS
    <2>1. PICK s \in Tabs : UpdateSaves(s) \/ UpdateCommitsTags(s)
      <3>1. PICK s \in Tabs : Acts(s)
        BY Zenon DEF Next, Acts
      <3>2. QED
        BY <3>1 DEF Acts, Upload, Delete, Update, FetchRead, FetchEnds, FetchFails,
           PresignUpload, Put, PutFails, CreateImage, CreateImageFails, Created,
           DeleteImageFinds, DeleteImageObject, DeleteImageRow, Deleted,
           UpdateReads, UpdateDeletesTags, CallFails, stores
    <2>2. s = t
      BY <2>1 DEF IInv, TypeOK, UpdateSaves, UpdateCommitsTags, CallTo
    <2>3. UpdateCommitsTags(t)
      BY <2>1, <2>2 DEF UpdateSaves
    <2>4. tags \subseteq call[t].seen
      BY DEF IInv, Overlaps
    <2>5. QED
      BY <2>3, <2>4 DEF UpdateCommitsTags
  <1>2. QED
    BY <1>1, InvHolds, PTL DEF Spec, LoneUpdateSetsTags
-----------------------------------------------------------------------------
(* The edit page: the invariant                                            *)

Link == [save : Saves, tag : Tags, copy : Nat]
AForm == [attributes : Attributes \union {Blank}, tags : [Tags -> Nat]]
ATab == [step : {"left", "opening", "shown", "login", "error"}, form : AForm,
         saving : BOOLEAN, action : Saves \union {0}, sync : BOOLEAN]
ARequest == [step : Running \union {"unsent", "stored", "refused", "ended"}, form : AForm,
             seen : SUBSET Link, alone : BOOLEAN]

FormTypes ==
    /\ attributes \in Attributes /\ links \subseteq Link /\ IsFiniteSet(links)
    /\ tab \in [EditTabs -> ATab] /\ request \in [Saves -> ARequest] /\ mixed \in BOOLEAN
    /\ \A t \in EditTabs : tab[t].saving => tab[t].action # 0
    /\ \A s \in Saves : /\ IsFiniteSet(request[s].seen)
                        /\ request[s].step \in Running => ValidUpdate(request[s].form)

Profile == Form(attributes, TagIDs(links))

\* A save that runs alone deletes all links there are, and what it stored stays.
RunsAlone(s) == request[s].alone /\ request[s].step \notin {"unsent", "ended"} =>
    /\ \A r \in InAPI : r = s
    /\ request[s].step \in {"replace", "commit"} => attributes = request[s].form.attributes
    /\ request[s].step = "commit" => request[s].seen = links
    /\ request[s].step = "stored" => request[s].form = Profile

\* Nothing is written behind a form in sync.
InSync(t) == tab[t].sync =>
    /\ InAPI = {}
    /\ tab[t].step = "opening" => tab[t].form.attributes = attributes
    /\ tab[t].step = "shown" => tab[t].form = Profile

\* What the form lets choose.
Fits(form) == \A g \in Tags :
    form.tags[g] <= 1 /\ SelectedCount(form, CategoryOf[g]) <= Limit

OneByOne == ~mixed =>
    /\ \A r, s \in InAPI : r = s
    /\ Fits(Profile)
    /\ \A t \in EditTabs : Fits(tab[t].form)
    /\ \A s \in Saves : /\ Fits(request[s].form)
                        /\ request[s].step \in {"save", "commit"} => request[s].seen = links

FormInv ==
    /\ FormTypes /\ OneByOne
    /\ \A s \in Saves : RunsAlone(s)
    /\ \A t \in EditTabs : InSync(t)

-----------------------------------------------------------------------------
(* Forms and counts                                                        *)

\* The links of one save to one tag are as many as it asks for.
Copies(s, g, n) == [save : {s}, tag : {g}, copy : 1..n]

LEMMA CopiesAre == ASSUME NEW s, NEW g, NEW n \in Nat
  PROVE  IsFiniteSet(Copies(s, g, n)) /\ Cardinality(Copies(s, g, n)) = n
  <1> DEFINE C == Copies(s, g, n)
             f == [c \in 1..n |-> [save |-> s, tag |-> g, copy |-> c]]
  <1>1. f \in Bijection(1..n, C)
    <2>1. f \in [1..n -> C] /\ \A c, d \in 1..n : f[c] = f[d] => c = d
      BY DEF Copies
    <2>2. \A l \in C : l.copy \in 1..n /\ f[l.copy] = l
      BY DEF Copies
    <2> HIDE DEF f
    <2>3. IsInjective(f)
      BY <2>1 DEF IsInjective
    <2>4. f \in Injection(1..n, C)
      BY <2>1, <2>3 DEF Injection
    <2>5. f \in Surjection(1..n, C)
      BY <2>1, <2>2 DEF Surjection
    <2> QED  BY <2>4, <2>5 DEF Bijection
  <1>2. ExistsBijection(1..n, C)
    BY <1>1 DEF ExistsBijection
  <1>3. IsFiniteSet(1..n) /\ Cardinality(1..n) = n
    BY FS_Interval
  <1> QED  BY <1>2, <1>3, FS_Bijection

\* CommitProfileTags's links are those of the form.
LEMMA NewLinks ==
  ASSUME NEW s \in Saves, NEW form \in AForm, NEW L,
         L = UNION {[save : {s}, tag : {g}, copy : 1..form.tags[g]] : g \in Tags}
  PROVE  L \subseteq Link /\ IsFiniteSet(L) /\ TagIDs(L) = form.tags
  <1>1. form.tags \in [Tags -> Nat]
    BY DEF AForm
  <1> DEFINE of == [g \in Tags |-> Copies(s, g, form.tags[g])]
  <1>2. \A g \in Tags : of[g] = Copies(s, g, form.tags[g]) /\ form.tags[g] \in Nat
    BY <1>1
  <1>3. ASSUME NEW g \in Tags PROVE IsFiniteSet(of[g]) /\ Cardinality(of[g]) = form.tags[g]
    BY <1>2, CopiesAre
  <1> DEFINE all == {of[g] : g \in Tags}
  <1>4. L = UNION all
    BY DEF Copies
  <1>5. of \in Surjection(Tags, all)
    BY DEF Surjection
  <1>6. \A g \in Tags : \A l \in of[g] : l \in Link /\ l.tag = g
    BY <1>2 DEF Link, Copies
  <1>7. DOMAIN of = Tags
    OBVIOUS
  <1> HIDE DEF of
  <1>8. IsFiniteSet(all) /\ \A K \in all : IsFiniteSet(K)
    BY <1>3, <1>5, TagsAssumption, FS_Surjection
  <1>9. IsFiniteSet(L)
    <2> HIDE DEF all
    <2>1. IsFiniteSet(UNION all)
      BY <1>8, FS_UNION
    <2> QED  BY <1>4, <2>1
  <1>10. ASSUME NEW g \in Tags PROVE {l \in L : l.tag = g} = of[g]
    BY <1>4, <1>6
  <1>11. TagIDs(L) = form.tags
    <2>1. \A g \in Tags : Cardinality({l \in L : l.tag = g}) = form.tags[g]
      BY <1>3, <1>10
    <2> QED  BY <1>1, <2>1 DEF TagIDs
  <1> QED  BY <1>4, <1>6, <1>9, <1>11

LEMMA CountsAreNumbers == ASSUME NEW L, IsFiniteSet(L)
  PROVE  TagIDs(L) \in [Tags -> Nat]
  <1>1. ASSUME NEW g \in Tags PROVE Cardinality({l \in L : l.tag = g}) \in Nat
    <2> DEFINE K == {l \in L : l.tag = g}
    <2>1. K \in SUBSET L
      OBVIOUS
    <2> HIDE DEF K
    <2>2. Cardinality(K) \in Nat
      BY <2>1, FS_Subset, FS_CardinalityType
    <2> QED  BY <2>2 DEF K
  <1> QED  BY <1>1 DEF TagIDs

LEMMA FormIs == ASSUME NEW a, NEW chosen
  PROVE  /\ Form(a, chosen).attributes = a /\ Form(a, chosen).tags = chosen
         /\ a \in Attributes \union {Blank} /\ chosen \in [Tags -> Nat] => Form(a, chosen) \in AForm
  BY DEF Form, AForm

\* Only the tags of a form have to fit.
LEMMA FitsTags == ASSUME NEW f, NEW g, f.tags = g.tags, Fits(f)
  PROVE  Fits(g)
  BY DEF Fits, SelectedCount

LEMMA NoFormFits == NoForm \in AForm /\ Fits(NoForm)
  <1>1. NoForm \in AForm /\ \A g \in Tags : NoForm.tags[g] = 0
    BY DEF NoForm, Form, AForm
  <1>2. \A c : SelectedCount(NoForm, c) = 0
    <2>1. \A c : {g \in Tags : CategoryOf[g] = c /\ NoForm.tags[g] > 0} = {}
      BY <1>1
    <2> QED  BY <2>1, FS_EmptySet DEF SelectedCount
  <1> QED  BY <1>1, <1>2, SavesAssumption DEF Fits

\* What toggling a tag does to the form.
LEMMA Toggled == ASSUME NEW form \in AForm, NEW g \in Tags
  PROVE  [form EXCEPT !.tags[g] = ToggleTag(form, g)] \in AForm
  BY DEF AForm, ToggleTag

\* A toggled form still fits.
LEMMA ToggledFits == ASSUME NEW form \in AForm, Fits(form), NEW g \in Tags, NEW w,
                            w = [form EXCEPT !.tags[g] = ToggleTag(form, g)]
  PROVE  w \in AForm /\ Fits(w)
  <1> DEFINE n == ToggleTag(form, g)
  <1>1. /\ n \in {0, 1}
        /\ n = 1 => form.tags[g] = 0 /\ SelectedCount(form, CategoryOf[g]) < Limit
    <2>1. /\ form.tags[g] \in Nat /\ Limit \in Nat
          /\ \A c : SelectedCount(form, c) \in Nat
      <3>1. ASSUME NEW c PROVE SelectedCount(form, c) \in Nat
        <4> DEFINE K == {h \in Tags : CategoryOf[h] = c /\ form.tags[h] > 0}
        <4>1. K \in SUBSET Tags
          OBVIOUS
        <4> HIDE DEF K
        <4>2. Cardinality(K) \in Nat
          BY <4>1, TagsAssumption, FS_Subset, FS_CardinalityType
        <4> QED  BY <4>2 DEF K, SelectedCount
      <3> QED  BY <3>1, SavesAssumption DEF AForm
    <2> QED  BY <2>1 DEF ToggleTag
  <1> HIDE DEF n
  <1>2. /\ w \in AForm /\ w.tags[g] = n
        /\ \A h \in Tags \ {g} : w.tags[h] = form.tags[h]
    BY <1>1 DEF AForm, n
  <1>3. ASSUME NEW c PROVE SelectedCount(w, c) <= Limit \/ ~\E h \in Tags : CategoryOf[h] = c
    <2> DEFINE S == {h \in Tags : CategoryOf[h] = c /\ form.tags[h] > 0}
               T == {h \in Tags : CategoryOf[h] = c /\ w.tags[h] > 0}
    <2> SUFFICES ASSUME NEW h \in Tags, CategoryOf[h] = c PROVE Cardinality(T) <= Limit
      BY DEF SelectedCount
    <2>1. S \in SUBSET Tags /\ Cardinality(S) <= Limit
      BY DEF Fits, SelectedCount
    <2>2. CASE n = 1 /\ CategoryOf[g] = c
      <3>1. T = S \union {g} /\ Cardinality(S) < Limit
        BY <1>1, <1>2, <2>2 DEF SelectedCount
      <3> HIDE DEF S, T
      <3>2. IsFiniteSet(S) /\ Cardinality(S) \in Nat
        BY <2>1, TagsAssumption, FS_Subset, FS_CardinalityType
      <3>3. Cardinality(T) = IF g \in S THEN Cardinality(S) ELSE Cardinality(S) + 1
        BY <3>1, <3>2, FS_AddElement
      <3> QED  BY <3>1, <3>2, <3>3, SavesAssumption
    <2>3. CASE n = 0 \/ CategoryOf[g] # c
      <3>1. T \in SUBSET S
        BY <1>2, <2>3
      <3> HIDE DEF S, T
      <3>2. IsFiniteSet(S) /\ Cardinality(S) \in Nat
        BY <2>1, TagsAssumption, FS_Subset, FS_CardinalityType
      <3>3. Cardinality(T) <= Cardinality(S) /\ Cardinality(T) \in Nat
        BY <3>1, <3>2, FS_Subset, FS_CardinalityType
      <3> QED  BY <2>1, <3>2, <3>3, SavesAssumption
    <2> QED  BY <1>1, <2>2, <2>3
  <1>4. \A h \in Tags : w.tags[h] <= 1
    BY <1>1, <1>2 DEF Fits
  <1> QED  BY <1>2, <1>3, <1>4 DEF Fits

-----------------------------------------------------------------------------
(* The edit page: the steps of a tab                                       *)

\* A page or a form changes; at most an answer is forgotten in the API.
Answerless(s) == request[s].step \in {"stored", "refused"} /\ request' = [request EXCEPT ![s] = Ended]

LEMMA TabStep ==
  ASSUME FormInv, NEW t \in EditTabs, NEW w \in ATab, tab' = [tab EXCEPT ![t] = w],
         UNCHANGED <<stored, mixed>>, request' = request \/ \E s \in Saves : Answerless(s),
         w.saving => w.action # 0,
         ~mixed => Fits(w.form),
         w.sync => /\ InAPI = {}
                   /\ w.step = "opening" => w.form.attributes = attributes
                   /\ w.step = "shown" => w.form = Profile
  PROVE  FormInv'
  <1>1. attributes' = attributes /\ links' = links /\ mixed' = mixed /\ Profile' = Profile
    BY DEF stored, Profile, TagIDs
  <1>2. /\ tab' \in [EditTabs -> ATab] /\ tab'[t] = w
        /\ \A o \in EditTabs \ {t} : tab'[o] = tab[o]
    BY DEF FormInv, FormTypes
  <1>3. Ended \in ARequest /\ Ended.step = "ended" /\ Ended.seen = {} /\ Ended.form = NoForm
    BY NoFormFits DEF Ended, NoRequest, ARequest
  <1>4. /\ request' \in [Saves -> ARequest]
        /\ \A s \in Saves : \/ request'[s] = request[s]
                            \/ request'[s] = Ended /\ request[s].step \in {"stored", "refused"}
    BY <1>3 DEF FormInv, FormTypes, Answerless
  <1>5. InAPI' = InAPI
    BY <1>3, <1>4 DEF InAPI, Running
  <1>6. FormTypes'
    <2>1. \A s \in Saves : /\ IsFiniteSet(request'[s].seen)
                           /\ request'[s].step \in Running => ValidUpdate(request'[s].form)
      BY <1>3, <1>4, FS_EmptySet DEF FormInv, FormTypes, Running
    <2> QED  BY <1>1, <1>2, <1>4, <2>1 DEF FormInv, FormTypes
  <1>7. OneByOne'
    <2> SUFFICES ASSUME ~mixed
                 PROVE  /\ \A r, s \in InAPI : r = s
                        /\ Fits(Profile)
                        /\ \A o \in EditTabs : Fits(tab'[o].form)
                        /\ \A s \in Saves :
                             /\ Fits(request'[s].form)
                             /\ request'[s].step \in {"save", "commit"} => request'[s].seen = links
      BY <1>1, <1>5 DEF OneByOne
    <2> QED  BY <1>2, <1>3, <1>4, NoFormFits DEF FormInv, OneByOne
  <1>8. ASSUME NEW s \in Saves PROVE RunsAlone(s)'
    BY <1>1, <1>3, <1>4, <1>5 DEF FormInv, RunsAlone
  <1>9. ASSUME NEW o \in EditTabs PROVE InSync(o)'
    BY <1>1, <1>2, <1>5 DEF FormInv, InSync
  <1> QED  BY <1>6, <1>7, <1>8, <1>9 DEF FormInv

LEMMA FreshIs == ASSUME NEW t, tab[t] \in ATab,
                        NEW step \in {"left", "opening", "shown", "login", "error"}
  PROVE  LET w == FreshPage(t, step)
         IN  /\ w \in ATab /\ w.step = step /\ w.form = NoForm /\ w.saving = FALSE
             /\ w.sync = FALSE /\ w.action = tab[t].action
  <1>1. NewPage(step) \in ATab
    BY NoFormFits DEF NewPage, ATab
  <1>2. /\ NewPage(step).step = step /\ NewPage(step).form = NoForm
        /\ NewPage(step).saving = FALSE /\ NewPage(step).sync = FALSE
    BY DEF NewPage
  <1> QED  BY <1>1, <1>2 DEF FreshPage, ATab

LEMMA PageSteps == ASSUME FormInv, NEW t \in EditTabs, Page(t) \/ ProfileFieldsArea(t) \/ TagArea(t)
  PROVE  FormInv'
  <1>1. /\ tab[t] \in ATab /\ (tab[t].saving => tab[t].action # 0) /\ InSync(t)
        /\ attributes \in Attributes /\ IsFiniteSet(links) /\ (~mixed => Fits(tab[t].form))
    BY DEF FormInv, FormTypes, OneByOne
  <1>0. tab[t].form \in AForm
    BY <1>1 DEF ATab
  <1>2. Profile \in AForm /\ Profile.attributes = attributes /\ Profile.tags = TagIDs(links)
    BY <1>1, FormIs, CountsAreNumbers DEF Profile
  <1>3. ASSUME NEW step \in {"left", "login", "error"}, OnlyTab(t, FreshPage(t, step))
        PROVE  FormInv'
    <2> DEFINE w == FreshPage(t, step)
    <2>1. w \in ATab /\ w.saving = FALSE /\ w.sync = FALSE /\ w.form = NoForm
      <3>1. step \in {"left", "opening", "shown", "login", "error"}
        BY <1>3
      <3> QED  BY <1>1, <3>1, FreshIs
    <2>2. tab' = [tab EXCEPT ![t] = w] /\ request' = request /\ UNCHANGED <<stored, mixed>>
      BY <1>3 DEF OnlyTab
    <2> HIDE DEF w
    <2> QED  BY <2>1, <2>2, NoFormFits, TabStep
  <1>4. CASE OpenPage(t)
    <2> DEFINE w == [FreshPage(t, "opening") EXCEPT !.form = Form(attributes, NoForm.tags),
                                                    !.sync = InAPI = {}]
               f == Form(attributes, NoForm.tags)
    <2>1. f \in AForm /\ f.attributes = attributes /\ f.tags = NoForm.tags
      BY <1>1, NoFormFits, FormIs DEF AForm
    <2> HIDE DEF f
    <2>2. /\ w \in ATab /\ ~w.saving /\ (w.sync => InAPI = {}) /\ w.step = "opening"
          /\ w.form = f
      BY <1>1, <2>1, FreshIs DEF ATab, f
    <2>3. tab' = [tab EXCEPT ![t] = w] /\ request' = request /\ UNCHANGED <<stored, mixed>>
      BY <1>4 DEF OnlyTab, OpenPage
    <2>4. Fits(f)
      BY <2>1, NoFormFits, FitsTags
    <2> HIDE DEF w
    <2> QED  BY <2>1, <2>2, <2>3, <2>4, TabStep
  <1>5. CASE PageLoads(t)
    <2> DEFINE w == [tab[t] EXCEPT !.step = EditPage(200, 200), !.form.tags = TagIDs(links)]
    <2>1. TagIDs(links) \in [Tags -> Nat]
      BY <1>1, CountsAreNumbers
    <2>2. tab' = [tab EXCEPT ![t] = w] /\ request' = request /\ UNCHANGED <<stored, mixed>>
      BY <1>5 DEF OnlyTab, PageLoads
    <2>3. /\ w \in ATab /\ w.saving = tab[t].saving /\ w.action = tab[t].action
          /\ w.sync = tab[t].sync /\ w.form.attributes = tab[t].form.attributes
          /\ w.form.tags = TagIDs(links) /\ w.form \in AForm /\ w.step = "shown"
      <3>1. EditPage(200, 200) = "shown"
        BY DEF EditPage
      <3> DEFINE f == [tab[t].form EXCEPT !.tags = TagIDs(links)]
      <3>2. /\ f \in AForm /\ f.attributes = tab[t].form.attributes
            /\ f.tags = TagIDs(links)
        BY <1>0, <2>1 DEF AForm
      <3>3. w = [tab[t] EXCEPT !.step = "shown", !.form = f]
        BY <3>1
      <3> HIDE DEF f, w
      <3> QED  BY <1>1, <3>2, <3>3 DEF ATab
    <2>4. ~mixed => Fits(w.form)
      BY <1>2, <2>3, FitsTags DEF FormInv, OneByOne
    <2>5. w.sync => w.form = Profile
      BY <1>1, <1>2, <1>5, <2>3 DEF InSync, PageLoads, AForm
    <2>6. w.sync => InAPI = {}
      BY <1>1, <2>3 DEF InSync
    <2> HIDE DEF w
    <2> QED  BY <1>1, <2>2, <2>3, <2>4, <2>5, <2>6, TabStep
  <1>6. CASE PageFails(t)
    <2>1. PICK profileRes \in GetMyprofile, tagsRes \in GetTags :
              /\ EditPage(profileRes, tagsRes) # "shown"
              /\ OnlyTab(t, FreshPage(t, EditPage(profileRes, tagsRes)))
      BY <1>6 DEF PageFails
    <2>2. EditPage(profileRes, tagsRes) \in {"login", "error"}
      BY <2>1 DEF EditPage
    <2> QED  BY <1>3, <2>1, <2>2
  <1>7. CASE Leave(t)
    BY <1>3, <1>7 DEF Leave
  <1>8. ASSUME NEW form \in AForm, Edit(t, form), ~mixed => Fits(form)
        PROVE  FormInv'
    <2> DEFINE w == [tab[t] EXCEPT !.form = form, !.sync = FALSE]
    <2>1. /\ w \in ATab /\ w.saving = tab[t].saving /\ w.action = tab[t].action
          /\ ~w.sync /\ w.form = form
      BY <1>1, <1>8 DEF ATab
    <2>2. tab' = [tab EXCEPT ![t] = w] /\ request' = request /\ UNCHANGED <<stored, mixed>>
      BY <1>8 DEF OnlyTab, Edit
    <2> HIDE DEF w
    <2> QED  BY <1>1, <1>8, <2>1, <2>2, TabStep
  <1>10. CASE ProfileFieldsArea(t)
    <2>1. PICK a \in Attributes \union {Blank} : Edit(t, [tab[t].form EXCEPT !.attributes = a])
      BY <1>10 DEF ProfileFieldsArea
    <2> DEFINE f == [tab[t].form EXCEPT !.attributes = a]
    <2>2. f \in AForm /\ f.tags = tab[t].form.tags
      BY <1>0 DEF AForm
    <2> HIDE DEF f
    <2>3. ~mixed => Fits(f)
      BY <1>1, <2>2, FitsTags
    <2>4. Edit(t, f)
      BY <2>1 DEF f
    <2> QED  BY <1>8, <2>2, <2>3, <2>4
  <1>11. CASE TagArea(t)
    <2>1. PICK g \in Tags : Edit(t, [tab[t].form EXCEPT !.tags[g] = ToggleTag(tab[t].form, g)])
      BY <1>11 DEF TagArea
    <2> DEFINE old == tab[t].form
               f == [old EXCEPT !.tags[g] = ToggleTag(old, g)]
    <2>2. Edit(t, f)
      BY <2>1
    <2> HIDE DEF f
    <2>3. f \in AForm
      BY <1>0, Toggled DEF f
    <2>4. ~mixed => Fits(f)
      BY <1>1, <1>0, ToggledFits DEF f
    <2> QED  BY <1>8, <2>2, <2>3, <2>4
  <1> QED  BY <1>4, <1>5, <1>6, <1>7, <1>10, <1>11 DEF Page

-----------------------------------------------------------------------------
(* The edit page: a save                                                   *)

\* No other save runs alone any more, and no form is in sync.
LEMMA SaveSteps == ASSUME FormInv, NEW t \in EditTabs, NEW s \in Saves, HandleSave(t, s)
  PROVE  FormInv'
  <1> DEFINE sent == request'[s]
  <1>1. /\ CanSave(t) /\ request[s].step = "unsent" /\ UNCHANGED stored
        /\ mixed' = (mixed \/ InAPI # {})
        /\ tab' = [o \in EditTabs |->
             IF o # t THEN [tab[o] EXCEPT !.sync = FALSE]
             ELSE [tab[t] EXCEPT !.saving = TRUE, !.action = s, !.sync = FALSE]]
    BY DEF HandleSave
  <1>2. PICK step \in Validated(tab[t].form) :
          request' = [r \in Saves |->
            IF r # s THEN Overtaken(r)
            ELSE [step |-> step, form |-> tab[t].form, seen |-> {}, alone |-> InAPI = {}]]
    BY DEF HandleSave
  <1>3. step \in {"refused", "read"} /\ (step = "read" => ValidUpdate(tab[t].form))
    BY DEF Validated
  <1>4. /\ attributes' = attributes /\ links' = links /\ Profile' = Profile
        /\ tab \in [EditTabs -> ATab] /\ request \in [Saves -> ARequest] /\ mixed \in BOOLEAN
    BY <1>1 DEF stored, Profile, TagIDs, FormInv, FormTypes
  <1>5. \A o \in EditTabs : /\ tab'[o] \in ATab /\ ~tab'[o].sync /\ tab'[o].form = tab[o].form
                            /\ tab'[o].saving => tab'[o].action # 0
    <2>1. ASSUME NEW o \in EditTabs \ {t}
          PROVE  /\ tab'[o] \in ATab /\ ~tab'[o].sync /\ tab'[o].form = tab[o].form
                 /\ tab'[o].saving = tab[o].saving /\ tab'[o].action = tab[o].action
      <3>1. tab'[o] = [tab[o] EXCEPT !.sync = FALSE] /\ tab[o] \in ATab
        BY <1>1, <1>4
      <3> QED  BY <3>1 DEF ATab
    <2>2. /\ tab'[t] \in ATab /\ ~tab'[t].sync /\ tab'[t].form = tab[t].form
          /\ tab'[t].action = s
      <3>1. /\ tab'[t] = [tab[t] EXCEPT !.saving = TRUE, !.action = s, !.sync = FALSE]
            /\ tab[t] \in ATab
        BY <1>1, <1>4
      <3> QED  BY <3>1 DEF ATab
    <2>3. s # 0
      BY DEF Saves
    <2> QED  BY <2>1, <2>2, <2>3 DEF FormInv, FormTypes
  <1>6. tab[t].form \in AForm
    BY <1>4 DEF ATab
  <1>7. /\ sent = [step |-> step, form |-> tab[t].form, seen |-> {}, alone |-> InAPI = {}]
        /\ sent \in ARequest
    BY <1>2, <1>3, <1>6 DEF ARequest, Running
  <1>8. ASSUME NEW r \in Saves \ {s}
        PROVE  /\ request'[r] \in ARequest /\ request'[r].step = request[r].step
               /\ request'[r].form = request[r].form /\ request'[r].seen = request[r].seen
               /\ request'[r].alone => request[r].step \in {"unsent", "ended"}
    <2>1. /\ request[r] \in ARequest
          /\ request'[r] = [request[r] EXCEPT
                              !.alone = @ /\ request[r].step \in {"unsent", "ended"}]
      BY <1>2, <1>4 DEF Overtaken
    <2> QED  BY <2>1 DEF ARequest
  <1> HIDE DEF sent
  <1>9. InAPI' \subseteq InAPI \union {s}
    BY <1>8 DEF InAPI
  <1>10. FormTypes'
    <2>1. request' \in [Saves -> ARequest]
      BY <1>2, <1>7, <1>8 DEF sent
    <2>2. tab' \in [EditTabs -> ATab] /\ mixed' \in BOOLEAN
      BY <1>1, <1>4, <1>5
    <2>3. ASSUME NEW r \in Saves
          PROVE  /\ IsFiniteSet(request'[r].seen)
                 /\ request'[r].step \in Running => ValidUpdate(request'[r].form)
      <3>1. CASE r = s
        BY <1>3, <1>7, <3>1, FS_EmptySet DEF sent, Running
      <3>2. CASE r # s
        BY <1>8, <3>2 DEF FormInv, FormTypes
      <3> QED  BY <3>1, <3>2
    <2> QED  BY <1>4, <1>5, <2>1, <2>2, <2>3 DEF FormInv, FormTypes
  <1>11. OneByOne'
    <2> SUFFICES ASSUME ~mixed, InAPI = {}
                 PROVE  /\ \A p, r \in InAPI' : p = r
                        /\ Fits(Profile')
                        /\ \A o \in EditTabs : Fits(tab'[o].form)
                        /\ \A r \in Saves :
                             /\ Fits(request'[r].form)
                             /\ request'[r].step \in {"save", "commit"} => request'[r].seen = links'
      BY <1>1 DEF OneByOne
    <2>1. Fits(sent.form) /\ sent.step \notin {"save", "commit"}
      BY <1>3, <1>7 DEF FormInv, OneByOne
    <2> QED  BY <1>4, <1>5, <1>8, <1>9, <2>1 DEF FormInv, OneByOne, sent
  <1>12. ASSUME NEW r \in Saves PROVE RunsAlone(r)'
    <2>1. CASE r = s
      <3>1. sent.step = step /\ sent.alone = (InAPI = {})
        BY <1>7
      <3>2. sent.alone => InAPI' \subseteq {s}
        BY <1>9, <3>1
      <3> QED  BY <1>3, <2>1, <3>1, <3>2 DEF RunsAlone, sent
    <2>2. CASE r # s
      BY <1>8, <2>2 DEF RunsAlone
    <2> QED  BY <2>1, <2>2
  <1>13. ASSUME NEW o \in EditTabs PROVE InSync(o)'
    BY <1>5 DEF InSync
  <1> QED  BY <1>10, <1>11, <1>12, <1>13 DEF FormInv

\* A statement of one save.
LEMMA StatementStep ==
  ASSUME FormInv, NEW s \in InAPI, NEW q \in ARequest, request' = [request EXCEPT ![s] = q],
         UNCHANGED <<tab, mixed>>, attributes' \in Attributes, links' \subseteq Link,
         IsFiniteSet(links'), IsFiniteSet(q.seen),
         q.step # "unsent", q.step \in Running => ValidUpdate(q.form),
         q.step # "ended" /\ q.alone =>
           /\ request[s].alone
           /\ q.step \in {"replace", "commit"} => attributes' = q.form.attributes
           /\ q.step = "commit" => q.seen = links'
           /\ q.step = "stored" => q.form = Profile',
         ~mixed => Fits(q.form) /\ Fits(Profile') /\ (q.step \in {"save", "commit"} => q.seen = links')
  PROVE  FormInv'
  <1>1. /\ s \in Saves /\ tab' = tab /\ mixed' = mixed
        /\ request' \in [Saves -> ARequest] /\ request'[s] = q
        /\ \A r \in Saves \ {s} : request'[r] = request[r]
    BY DEF InAPI, FormInv, FormTypes
  <1>2. InAPI' \subseteq InAPI
    BY <1>1 DEF InAPI
  <1>3. FormTypes'
    <2>1. ASSUME NEW r \in Saves
          PROVE  /\ IsFiniteSet(request'[r].seen)
                 /\ request'[r].step \in Running => ValidUpdate(request'[r].form)
      BY <1>1 DEF FormInv, FormTypes
    <2> QED  BY <1>1, <2>1 DEF FormInv, FormTypes
  <1>4. OneByOne'
    <2> SUFFICES ASSUME ~mixed
                 PROVE  /\ \A p, r \in InAPI' : p = r
                        /\ Fits(Profile')
                        /\ \A o \in EditTabs : Fits(tab[o].form)
                        /\ \A r \in Saves :
                             /\ Fits(request'[r].form)
                             /\ request'[r].step \in {"save", "commit"} => request'[r].seen = links'
      BY <1>1 DEF OneByOne
    <2>1. ASSUME NEW r \in Saves \ {s}, request[r].step \in {"save", "commit"} PROVE FALSE
      <3>1. r \in InAPI
        BY <2>1 DEF InAPI, Running
      <3> QED  BY <2>1, <3>1 DEF FormInv, OneByOne
    <2> QED  BY <1>1, <1>2, <2>1 DEF FormInv, OneByOne
  <1>5. ASSUME NEW r \in Saves PROVE RunsAlone(r)'
    <2>1. CASE r = s
      <3> SUFFICES ASSUME q.alone, q.step \notin {"unsent", "ended"} PROVE RunsAlone(s)'
        BY <1>1, <2>1 DEF RunsAlone
      <3>1. \A p \in InAPI : p = s
        <4>1. request[s].alone /\ request[s].step \notin {"unsent", "ended"}
          BY DEF InAPI, Running
        <4> QED  BY <1>1, <4>1 DEF FormInv, RunsAlone
      <3> QED  BY <1>1, <1>2, <3>1 DEF RunsAlone
    <2>2. CASE r # s
      BY <1>1, <1>2, <2>2 DEF FormInv, RunsAlone
    <2> QED  BY <2>1, <2>2
  <1>6. ASSUME NEW o \in EditTabs PROVE InSync(o)'
    BY <1>1 DEF FormInv, InSync
  <1> QED  BY <1>3, <1>4, <1>5, <1>6 DEF FormInv

\* What the API keeps of a save that it answers.
LEMMA AnswersAre == ASSUME FormInv, NEW s \in InAPI, NEW step \in {"stored", "refused"}, Answers(s, step)
  PROVE  \E q \in ARequest :
           /\ request' = [request EXCEPT ![s] = q]
           /\ q.seen = {} /\ q.step \in {step, "ended"}
           /\ q.step = "ended" => q.form = NoForm
           /\ q.step = step => q.form = request[s].form /\ q.alone = request[s].alone
  <1>1. request[s] \in ARequest
    BY DEF FormInv, FormTypes, InAPI
  <1> DEFINE kept == [request[s] EXCEPT !.step = step, !.seen = {}]
  <1>2. /\ kept \in ARequest /\ kept.seen = {} /\ kept.step = step
        /\ kept.form = request[s].form /\ kept.alone = request[s].alone
    BY <1>1 DEF ARequest
  <1>3. Ended \in ARequest /\ Ended.step = "ended" /\ Ended.seen = {} /\ Ended.form = NoForm
    BY NoFormFits DEF Ended, NoRequest, ARequest
  <1>4. request' = [request EXCEPT ![s] = kept] \/ request' = [request EXCEPT ![s] = Ended]
    BY <1>1 DEF Answers, InAPI, FormInv, FormTypes
  <1> HIDE DEF kept
  <1> QED  BY <1>2, <1>3, <1>4

LEMMA ApiSteps == ASSUME FormInv, NEW s \in Saves, UpdateMyProfile(s)
  PROVE  FormInv'
  <1> DEFINE old == request[s]
  <1>1. s \in InAPI
    BY DEF UpdateMyProfile, GetProfileByUserID, UpdateProfile, DeleteProfileTags, CommitProfileTags,
           UpdateFails, At, InAPI, Running
  <1>2. /\ old \in ARequest /\ attributes \in Attributes /\ links \subseteq Link /\ IsFiniteSet(links)
        /\ IsFiniteSet(old.seen) /\ old.step \in Running /\ ValidUpdate(old.form) /\ RunsAlone(s)
    BY <1>1 DEF FormInv, FormTypes, InAPI
  <1>3. /\ old.form \in AForm /\ old.seen \subseteq Link
        /\ old.form.attributes \in Attributes /\ old.form = Form(old.form.attributes, old.form.tags)
    BY <1>2 DEF ARequest, AForm, ValidUpdate, Form
  <1>4. ~mixed => /\ Fits(Profile) /\ Fits(old.form)
                  /\ old.step \in {"save", "commit"} => old.seen = links
    BY DEF FormInv, OneByOne
  <1>5. /\ Profile.tags = TagIDs(links) /\ Profile' = Form(attributes', TagIDs(links'))
        /\ Profile'.tags = TagIDs(links')
    BY FormIs DEF Profile, TagIDs
  <1>6. CASE GetProfileByUserID(s)
    <2> DEFINE q == [old EXCEPT !.step = "save", !.seen = links]
    <2>1. /\ q \in ARequest /\ q.step = "save" /\ q.seen = links /\ q.form = old.form
          /\ q.alone = old.alone
      BY <1>2 DEF ARequest, Running
    <2>2. /\ request' = [request EXCEPT ![s] = q] /\ UNCHANGED <<tab, mixed>>
          /\ attributes' = attributes /\ links' = links
      BY <1>6 DEF GetProfileByUserID, stored
    <2>3. Profile' = Profile
      BY <2>2 DEF Profile, TagIDs
    <2> HIDE DEF q
    <2> QED  BY <1>1, <1>2, <1>4, <2>1, <2>2, <2>3, StatementStep
  <1>7. CASE UpdateProfile(s)
    <2> DEFINE q == [old EXCEPT !.step = "replace", !.seen = {}]
    <2>1. /\ q \in ARequest /\ q.step = "replace" /\ q.seen = {} /\ q.form = old.form
          /\ q.alone = old.alone
      BY <1>2 DEF ARequest, Running
    <2>2. /\ request' = [request EXCEPT ![s] = q] /\ UNCHANGED <<tab, mixed>>
          /\ attributes' = old.form.attributes /\ links' = links \union old.seen
          /\ old.step = "save"
      BY <1>7 DEF UpdateProfile, At
    <2>3. links' \subseteq Link /\ IsFiniteSet(links') /\ IsFiniteSet({})
      BY <1>2, <1>3, <2>2, FS_Union, FS_EmptySet
    <2>4. ~mixed => Fits(Profile')
      <3> SUFFICES ASSUME ~mixed PROVE Fits(Profile')
        OBVIOUS
      <3>1. links' = links
        BY <1>4, <2>2
      <3>2. Profile'.tags = Profile.tags
        BY <1>5, <3>1
      <3> QED  BY <1>4, <3>2, FitsTags
    <2> HIDE DEF q
    <2> QED  BY <1>1, <1>2, <1>3, <1>4, <2>1, <2>2, <2>3, <2>4, StatementStep
  <1>8. CASE DeleteProfileTags(s)
    <2> DEFINE q == [old EXCEPT !.step = "commit", !.seen = links]
    <2>1. /\ q \in ARequest /\ q.step = "commit" /\ q.seen = links /\ q.form = old.form
          /\ q.alone = old.alone
      BY <1>2 DEF ARequest, Running
    <2>2. /\ request' = [request EXCEPT ![s] = q] /\ UNCHANGED <<tab, mixed>>
          /\ attributes' = attributes /\ links' = links /\ old.step = "replace"
      BY <1>8 DEF DeleteProfileTags, stored, At
    <2>3. Profile' = Profile /\ (old.alone => attributes = old.form.attributes)
      BY <1>2, <2>2 DEF Profile, TagIDs, RunsAlone
    <2> HIDE DEF q
    <2> QED  BY <1>1, <1>2, <1>4, <2>1, <2>2, <2>3, StatementStep
  <1>9. CASE CommitProfileTags(s)
    <2> DEFINE L == UNION {[save : {s}, tag : {g}, copy : 1..old.form.tags[g]] : g \in Tags}
    <2>1. L \subseteq Link /\ IsFiniteSet(L) /\ TagIDs(L) = old.form.tags
      BY <1>3, NewLinks
    <2>2. links' = (links \ old.seen) \union L
      BY <1>9 DEF CommitProfileTags, Replaced
    <2> HIDE DEF L
    <2>3. attributes' = attributes /\ UNCHANGED <<tab, mixed>> /\ old.step = "commit"
      BY <1>9 DEF CommitProfileTags, At
    <2>4. links' \subseteq Link /\ IsFiniteSet(links')
      BY <1>2, <2>1, <2>2, FS_Difference, FS_Union
    <2>5. old.seen = links => TagIDs(links') = old.form.tags
      <3>1. old.seen = links => links' = L
        BY <2>2
      <3> QED  BY <2>1, <3>1
    <2>6. ~mixed => Fits(Profile')
      <3> SUFFICES ASSUME ~mixed PROVE Fits(Profile')
        OBVIOUS
      <3>1. Profile'.tags = old.form.tags
        BY <1>4, <1>5, <2>3, <2>5
      <3> QED  BY <1>4, <3>1, FitsTags
    <2>7. old.alone => old.form = Profile'
      BY <1>2, <1>3, <1>5, <2>3, <2>5 DEF RunsAlone
    <2>8. PICK step \in {"stored", "refused"} : Answers(s, step)
      BY <1>9 DEF CommitProfileTags
    <2>9. PICK q \in ARequest :
            /\ request' = [request EXCEPT ![s] = q]
            /\ q.seen = {} /\ q.step \in {step, "ended"}
            /\ q.step = "ended" => q.form = NoForm
            /\ q.step = step => q.form = old.form /\ q.alone = old.alone
      BY <1>1, <2>8, AnswersAre
    <2>10. /\ IsFiniteSet(q.seen) /\ q.step \in {"stored", "refused", "ended"}
           /\ ~mixed => Fits(q.form)
      BY <1>4, <2>9, FS_EmptySet, NoFormFits
    <2> HIDE DEF old
    <2>11. /\ q.step # "unsent" /\ q.step \notin Running /\ q.step \notin {"replace", "commit", "save"}
           /\ q.step # "ended" /\ q.alone => old.alone /\ (q.step = "stored" => q.form = Profile')
      BY <2>7, <2>9, <2>10 DEF Running
    <2> QED  BY <1>1, <1>2, <2>3, <2>4, <2>6, <2>9, <2>10, <2>11, StatementStep DEF old
  <1>10. CASE UpdateFails(s)
    <2>1. Answers(s, "refused") /\ attributes' = attributes /\ links' = links /\ UNCHANGED <<tab, mixed>>
      BY <1>10 DEF UpdateFails, stored
    <2>2. PICK q \in ARequest :
            /\ request' = [request EXCEPT ![s] = q]
            /\ q.seen = {} /\ q.step \in {"refused", "ended"}
            /\ q.step = "ended" => q.form = NoForm
            /\ q.step = "refused" => q.form = old.form /\ q.alone = old.alone
      BY <1>1, <2>1, AnswersAre
    <2>3. IsFiniteSet(q.seen) /\ (~mixed => Fits(q.form)) /\ Profile' = Profile
      BY <1>4, <2>1, <2>2, FS_EmptySet, NoFormFits DEF Profile, TagIDs
    <2>4. q.step \notin Running
      BY <2>2 DEF Running
    <2> QED  BY <1>1, <1>2, <1>4, <2>1, <2>2, <2>3, <2>4, StatementStep
  <1> QED  BY <1>6, <1>7, <1>8, <1>9, <1>10 DEF UpdateMyProfile

-----------------------------------------------------------------------------
(* The edit page: answers                                                  *)

LEMMA AnswerSteps == ASSUME FormInv, NEW t \in EditTabs, Answer(t)
  PROVE  FormInv'
  <1> DEFINE s == tab[t].action
  <1>1. /\ tab[t] \in ATab /\ InSync(t) /\ (~mixed => Fits(tab[t].form)) /\ s # 0
    BY DEF FormInv, FormTypes, OneByOne, Answer, Answered, UpdateMyProfileSucceeds,
           UpdateMyProfileErrors, UpdateMyProfileThrows
  <1>2. s \in Saves /\ RunsAlone(s)
    BY <1>1 DEF ATab, FormInv
  <1>3. ASSUME NEW sync \in BOOLEAN, Ends(t, sync),
               request' = request \/ Answerless(s),
               sync => tab[t].sync \/ (InAPI = {} /\ tab[t].form = Profile)
        PROVE  FormInv'
    <2> DEFINE w == [tab[t] EXCEPT !.action = 0, !.saving = FALSE, !.sync = sync]
    <2>1. /\ w \in ATab /\ ~w.saving /\ w.sync = sync /\ w.form = tab[t].form
          /\ w.step = tab[t].step
      BY <1>1, <1>3 DEF ATab
    <2>2. tab' = [tab EXCEPT ![t] = w] /\ UNCHANGED <<stored, mixed>>
      BY <1>3 DEF Ends, FormInv, FormTypes
    <2>3. Profile.attributes = attributes
      BY FormIs DEF Profile
    <2>4. w.sync => /\ InAPI = {}
                    /\ w.step = "opening" => w.form.attributes = attributes
                    /\ w.step = "shown" => w.form = Profile
      BY <1>1, <1>3, <2>1, <2>3 DEF InSync
    <2> HIDE DEF w
    <2> QED  BY <1>1, <1>2, <1>3, <2>1, <2>2, <2>4, TabStep
  <1>4. CASE UpdateMyProfileSucceeds(t)
    <2> DEFINE sync == tab[t].sync \/ (tab[t].saving /\ request[s].alone
                                       /\ tab[t].form = request[s].form)
    <2>1. Ends(t, sync) /\ request[s].step = "stored" /\ Answerless(s) /\ sync \in BOOLEAN
      BY <1>1, <1>4 DEF UpdateMyProfileSucceeds, Answered, At, Forget, Answerless, ATab
    <2>2. ASSUME request[s].alone PROVE InAPI = {} /\ request[s].form = Profile
      BY <1>2, <2>1, <2>2 DEF RunsAlone, InAPI, Running
    <2>3. sync => tab[t].sync \/ (InAPI = {} /\ tab[t].form = Profile)
      BY <2>2
    <2> HIDE DEF sync
    <2> QED  BY <1>3, <2>1, <2>3
  <1>5. ASSUME Ends(t, tab[t].sync), request' = request \/ Answerless(s)
        PROVE  FormInv'
    BY <1>1, <1>3, <1>5 DEF ATab
  <1>6. CASE UpdateMyProfileErrors(t)
    BY <1>5, <1>6 DEF UpdateMyProfileErrors, Answered, At, Forget, Answerless
  <1>7. CASE UpdateMyProfileThrows(t)
    BY <1>5, <1>7 DEF UpdateMyProfileThrows, At, Forget, Answerless
  <1> QED  BY <1>4, <1>6, <1>7 DEF Answer

LEMMA FormInitHolds == FormInit => FormInv
  <1> SUFFICES ASSUME FormInit PROVE FormInv
    OBVIOUS
  <1>1. /\ attributes \in Attributes /\ links = {} /\ mixed = FALSE
        /\ tab = [t \in EditTabs |-> NewPage("left")] /\ request = [s \in Saves |-> NoRequest]
    BY DEF FormInit
  <1>2. /\ NewPage("left") \in ATab /\ NewPage("left").form = NoForm
        /\ NewPage("left").saving = FALSE /\ NewPage("left").sync = FALSE
    BY NoFormFits DEF NewPage, ATab
  <1>3. /\ NoRequest \in ARequest /\ NoRequest.step = "unsent" /\ NoRequest.seen = {}
        /\ NoRequest.form = NoForm
    BY NoFormFits DEF NoRequest, ARequest
  <1>4. InAPI = {}
    BY <1>1, <1>3 DEF InAPI, Running
  <1>5. Fits(Profile)
    <2>1. \A g \in Tags : {l \in {} : l.tag = g} = {}
      OBVIOUS
    <2>2. Profile.tags = NoForm.tags
      BY <1>1, <2>1, FS_EmptySet, FormIs DEF Profile, TagIDs, NoForm
    <2> QED  BY <2>2, NoFormFits, FitsTags
  <1>6. FormTypes
    BY <1>1, <1>2, <1>3, FS_EmptySet DEF FormTypes, Running
  <1>7. OneByOne
    BY <1>1, <1>2, <1>3, <1>4, <1>5, NoFormFits DEF OneByOne
  <1>8. \A s \in Saves : RunsAlone(s)
    BY <1>1, <1>3 DEF RunsAlone
  <1>9. \A t \in EditTabs : InSync(t)
    BY <1>1, <1>2 DEF InSync
  <1> QED  BY <1>6, <1>7, <1>8, <1>9 DEF FormInv

LEMMA FormStutters == ASSUME FormInv, UNCHANGED formVars PROVE FormInv'
  <1>1. /\ attributes' = attributes /\ links' = links /\ tab' = tab /\ request' = request
        /\ mixed' = mixed
    BY DEF formVars
  <1>2. Profile' = Profile /\ InAPI' = InAPI
    BY <1>1 DEF Profile, TagIDs, InAPI
  <1>3. FormTypes' /\ OneByOne'
    BY <1>1, <1>2 DEF FormInv, FormTypes, OneByOne
  <1>4. \A s \in Saves : RunsAlone(s)'
    BY <1>1, <1>2 DEF FormInv, RunsAlone
  <1>5. \A t \in EditTabs : InSync(t)'
    BY <1>1, <1>2 DEF FormInv, InSync
  <1> QED  BY <1>3, <1>4, <1>5 DEF FormInv

-----------------------------------------------------------------------------
(* The edit page: theorems                                                 *)

\* The inductive invariant of the forms, the saves and the stored profile.
THEOREM FormInvHolds == FormSpec => []FormInv
  <1>1. FormInv /\ [FormNext]_formVars => FormInv'
    BY PageSteps, SaveSteps, ApiSteps, AnswerSteps, FormStutters DEF FormNext
  <1> QED  BY <1>1, FormInitHolds, PTL DEF FormSpec

\* Of every tab, save and link: no profile is left without its nickname, and no Save button
\* is disabled without an answer to come (handleSave, UpdateMyProfile).
THEOREM FormTypesHold == FormSpec => []FormTypeOK
  <1>1. FormInv => FormTypeOK
    BY DEF FormInv, FormTypes, FormTypeOK, ATab, AForm, ARequest, Link
  <1> QED  BY <1>1, FormInvHolds, PTL

\* Whatever other tabs do: a form that is in sync, after loading or after a save that ran
\* alone, is the stored profile (useState of profile-edit-area.tsx, UpdateProfile).
THEOREM FormsShowTheProfile == FormSpec => []FormShowsTheProfile
  <1>1. FormInv => FormShowsTheProfile
    BY DEF FormInv, InSync, Profile, FormShowsTheProfile
  <1> QED  BY <1>1, FormInvHolds, PTL

\* As long as no two saves overlap, no tag is linked twice, and no category has more tags
\* than the limit (toggleTag, ReplaceProfileTags).
THEOREM TagsStayAsChosen == FormSpec => []TagsAreAsChosen
  <1>1. FormInv => TagsAreAsChosen
    BY DEF FormInv, OneByOne, Fits, Profile, TagsAreAsChosen
  <1> QED  BY <1>1, FormInvHolds, PTL
=============================================================================
