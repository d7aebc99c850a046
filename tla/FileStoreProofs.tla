--------------------------- MODULE FileStoreProofs ---------------------------
(***************************************************************************)
(* Proofs about FileStore: for any uploads, deletes, organisations, file    *)
(* names, urls and numbers of faults.                                       *)
(***************************************************************************)
EXTENDS FileStore, TLAPS

USE UploadsAssumption, KeysAssumption, FaultsAssumption DEF UploadsAssumption, KeysAssumption, FaultsAssumption

Same(u, v) == OrgOf[u] = OrgOf[v] /\ ContentOf[u] = ContentOf[v]

Recorded == \A d \in docs : pc[d] = "success"

\* A delete goes through recorded documents of its organisation.
Asked ==
    \A r \in Deletes :
        /\ deletes[r].left \subseteq deletes[r].ids
        /\ deletes[r].at = "documents" => deletes[r].left = {}
        /\ \A d \in deletes[r].ids : pc[d] = "success" /\ OrgOf[d] = deletes[r].org

\* Uploads under way at the same time are known to overlap.
Together ==
    \A u, v \in Uploads :
        u # v /\ pc[u] \in Running /\ pc[v] \in Running => {u, v} \in overlaps

\* An upload that found no duplicate overlaps whatever has its content by now.
Unmatched ==
    \A u \in Uploads, d \in docs :
        pc[u] \in {"put", "create"} /\ u # d /\ Same(u, d) => {u, d} \in overlaps

PutObjects ==
    \A u \in Uploads : pc[u] = "create" /\ OwnKey(u) => objects[NameOf[u]] = ContentOf[u]

\* The owner of an object whose deletion no delete has been through.
Owns(u, k) ==
    /\ NameOf[u] = k
    /\ u \in docs \/ pc[u] = "create"
    /\ \A r \in Deletes : u \in deletes[r].ids => u \in deletes[r].left

Owned == \A k \in Names \ leaked : objects[k] # None => \E u \in Uploads : Owns(u, k)

IInv ==
    /\ TypeOK /\ Recorded /\ Asked
    /\ TempFilesAreDeleted
    /\ Together /\ Unmatched /\ RepeatsAreDetected
    /\ PutObjects /\ DocumentsHaveTheirObject
    /\ Owned

LEMMA InitHolds == Init => IInv
  BY DEF Init, IInv, TypeOK, DeleteStates, Recorded, Asked, TempFilesAreDeleted, Together,
         Unmatched, RepeatsAreDetected, PutObjects, DocumentsHaveTheirObject, Owned, Running,
         Ended, None

(***************************************************************************)
(* What a step changes.                                                     *)
(***************************************************************************)
Places == {"idle"} \cup Running \cup Ended

\* An upload moves from a place it can leave; other uploads and the deletes stay.
LEMMA UploadMoves ==
  ASSUME TypeOK, NEW u \in Uploads, Upload(u)
  PROVE  /\ pc[u] \in {"idle"} \cup Running
         /\ pc'[u] \in Running \cup Ended
         /\ pc' = [pc EXCEPT ![u] = pc'[u]]
         /\ \A v \in Uploads \ {u} : pc'[v] = pc[v]
         /\ UNCHANGED deletes /\ overlaps \subseteq overlaps' /\ leaked \subseteq leaked'
         /\ docs' = docs \/ (Create(u) /\ docs' = docs \cup {u})
<1>1. pc \in [Uploads -> Places]
  BY DEF TypeOK, Places
<1> USE DEF Running, Ended
<1>2. CASE Start(u)
  BY <1>1, <1>2 DEF Start
<1>3. CASE StartRaises(u)
  BY <1>1, <1>3 DEF StartRaises
<1>4. CASE Candidates(u) \/ Lookup(u)
  BY <1>1, <1>4 DEF Candidates, Lookup, Goto, End
<1>5. CASE Put(u)
  BY <1>1, <1>5 DEF Put, Goto, End
<1>6. CASE Create(u)
  BY <1>1, <1>6 DEF Create, End
<1>7. CASE UploadRaises(u)
  BY <1>1, <1>7 DEF UploadRaises, End
<1> QED
  BY <1>2, <1>3, <1>4, <1>5, <1>6, <1>7 DEF Upload

\* A delete leaves the uploads and the other deletes alone.
LEMMA DeleteMoves ==
  ASSUME TypeOK, NEW r \in Deletes, Delete(r)
  PROVE  /\ UNCHANGED <<pc, temp, overlaps>>
         /\ docs' \subseteq docs /\ leaked \subseteq leaked'
         /\ \A s \in Deletes \ {r} : deletes'[s] = deletes[s]
<1>1. deletes \in [Deletes -> DeleteStates]
  BY DEF TypeOK
<1>2. CASE DeleteRead(r)
  BY <1>1, <1>2 DEF DeleteRead
<1>3. CASE DeleteDocuments(r) \/ DeleteStops(r)
  BY <1>1, <1>3 DEF DeleteDocuments, DeleteStops
<1>4. ASSUME NEW d \in deletes[r].left, DeleteObject(r, d) \/ DeleteObjectFails(r, d)
      PROVE  /\ UNCHANGED <<pc, temp, overlaps>>
             /\ docs' \subseteq docs /\ leaked \subseteq leaked'
             /\ \A s \in Deletes \ {r} : deletes'[s] = deletes[s]
  BY <1>1, <1>4 DEF DeleteObject, DeleteObjectFails, Taken
<1> QED
  BY <1>2, <1>3, <1>4 DEF Delete

\* What a delete makes of its own record.
LEMMA DeleteCases ==
  ASSUME TypeOK, NEW r \in Deletes, Delete(r)
  PROVE  \/ /\ deletes[r].at = "idle" /\ UNCHANGED <<docs, objects, leaked>>
            /\ deletes'[r].at = "ended"
            /\ deletes'[r].left = deletes[r].left /\ deletes'[r].ids = deletes[r].ids
            /\ deletes'[r].org = deletes[r].org
         \/ /\ deletes[r].at = "idle" /\ UNCHANGED <<docs, objects, leaked>>
            /\ deletes'[r].at = "objects" /\ deletes'[r].org \in Orgs
            /\ deletes'[r].left = deletes'[r].ids
            /\ deletes'[r].ids \subseteq {d \in docs : OrgOf[d] = deletes'[r].org}
         \/ \E d \in deletes[r].left :
               /\ deletes[r].at = "objects" /\ UNCHANGED docs
               /\ deletes'[r].left = deletes[r].left \ {d}
               /\ deletes'[r].at = IF deletes[r].left = {d} THEN "documents" ELSE "objects"
               /\ deletes'[r].ids = deletes[r].ids /\ deletes'[r].org = deletes[r].org
               /\ DeleteObject(r, d) \/ DeleteObjectFails(r, d)
         \/ /\ DeleteDocuments(r) /\ UNCHANGED <<objects, leaked>>
            /\ deletes'[r] = [deletes[r] EXCEPT !.at = "ended"]
         \/ /\ deletes[r].at \in {"objects", "documents"} /\ UNCHANGED <<docs, objects, leaked>>
            /\ deletes'[r] = [deletes[r] EXCEPT !.at = "stopped"]
<1>1. deletes \in [Deletes -> DeleteStates]
  BY DEF TypeOK
<1>2. CASE DeleteRead(r)
  <2>1. PICK org \in Orgs, ids \in SUBSET Uploads :
            deletes' = [deletes EXCEPT ![r] =
                IF Read(org, ids) = {} THEN [@ EXCEPT !.at = "ended"]
                ELSE [at |-> "objects", org |-> org, left |-> Read(org, ids),
                      ids |-> Read(org, ids)]]
    BY <1>2 DEF DeleteRead
  <2>2. deletes[r].at = "idle" /\ UNCHANGED <<docs, objects, leaked>>
    BY <1>2 DEF DeleteRead
  <2>3. CASE Read(org, ids) = {}
    <3>1. deletes'[r] = [deletes[r] EXCEPT !.at = "ended"]
      BY <1>1, <2>1, <2>3
    <3> QED
      BY <1>1, <2>2, <3>1 DEF DeleteStates
  <2>4. CASE Read(org, ids) # {}
    <3>1. deletes'[r] = [at |-> "objects", org |-> org, left |-> Read(org, ids),
                         ids |-> Read(org, ids)]
      BY <1>1, <2>1, <2>4
    <3>2. Read(org, ids) \subseteq {d \in docs : OrgOf[d] = org}
      BY DEF Read
    <3> QED
      BY <2>2, <3>1, <3>2
  <2> QED
    BY <2>3, <2>4
<1>3. CASE DeleteDocuments(r)
  BY <1>1, <1>3 DEF DeleteDocuments
<1>4. CASE DeleteStops(r)
  BY <1>1, <1>4 DEF DeleteStops
<1>5. ASSUME NEW d \in deletes[r].left, DeleteObject(r, d) \/ DeleteObjectFails(r, d)
      PROVE  /\ deletes[r].at = "objects" /\ UNCHANGED docs
             /\ deletes'[r].left = deletes[r].left \ {d}
             /\ deletes'[r].at = IF deletes[r].left = {d} THEN "documents" ELSE "objects"
             /\ deletes'[r].ids = deletes[r].ids /\ deletes'[r].org = deletes[r].org
  <2>1. deletes[r].at = "objects" /\ UNCHANGED docs /\ deletes' = Taken(r, d)
    BY <1>5 DEF DeleteObject, DeleteObjectFails
  <2>2. deletes'[r] = [deletes[r] EXCEPT !.left = @ \ {d},
                           !.at = IF deletes[r].left = {d} THEN "documents" ELSE @]
    BY <1>1, <2>1 DEF Taken
  <2> QED
    BY <1>1, <2>1, <2>2 DEF DeleteStates
<1> QED
  BY <1>2, <1>3, <1>4, <1>5 DEF Delete

(***************************************************************************)
(* Types.                                                                   *)
(***************************************************************************)
LEMMA TypeUpload ==
  ASSUME TypeOK, NEW u \in Uploads, Upload(u)
  PROVE  TypeOK'
<1>1. pc' \in [Uploads -> {"idle"} \cup Running \cup Ended]
  BY UploadMoves DEF TypeOK
<1>2. docs' \subseteq Uploads /\ deletes' \in [Deletes -> DeleteStates]
  BY UploadMoves DEF TypeOK
<1>3. temp' \subseteq Uploads
  BY DEF TypeOK, Upload, Start, StartRaises, Candidates, Lookup, Put, Create, UploadRaises, Goto, End
<1>4. objects' \in [Names -> Contents \cup {None}]
  <2>1. CASE Put(u)
    BY <2>1 DEF TypeOK, Put
  <2>2. CASE ~Put(u)
    BY <2>2 DEF TypeOK, Upload, Start, StartRaises, Candidates, Lookup, Create, UploadRaises
  <2> QED
    BY <2>1, <2>2
<1>5. overlaps' \subseteq SUBSET Uploads
  <2>1. CASE Start(u)
    <3>1. \A v \in {w \in Uploads : pc[w] \in Running} : {u, v} \in SUBSET Uploads
      OBVIOUS
    <3>2. overlaps' = overlaps \cup {{u, v} : v \in {w \in Uploads : pc[w] \in Running}}
      BY <2>1 DEF Start
    <3> QED
      BY <3>1, <3>2 DEF TypeOK
  <2>2. CASE ~Start(u)
    BY <2>2 DEF TypeOK, Upload, StartRaises, Candidates, Lookup, Put, Create, UploadRaises
  <2> QED
    BY <2>1, <2>2
<1>6. leaked' \subseteq Names
  <2>1. NameOf[u] \in Names /\ leaked \subseteq Names
    BY DEF TypeOK
  <2>2. leaked' = leaked \/ leaked' = leaked \cup {NameOf[u]}
    BY DEF Upload, Start, StartRaises, Candidates, Lookup, Put, Create, UploadRaises
  <2> QED
    BY <2>1, <2>2
<1>7. faults' \in 0..MaxFaults
  <2>1. faults' = faults \/ (faults < MaxFaults /\ faults' = faults + 1)
    BY DEF Upload, Start, StartRaises, Candidates, Lookup, Put, Create, UploadRaises
  <2> QED
    BY <2>1 DEF TypeOK
<1> QED
  BY <1>1, <1>2, <1>3, <1>4, <1>5, <1>6, <1>7 DEF TypeOK

LEMMA TypeDelete ==
  ASSUME TypeOK, NEW r \in Deletes, Delete(r)
  PROVE  TypeOK'
<1>1. pc' \in [Uploads -> {"idle"} \cup Running \cup Ended] /\ temp' \subseteq Uploads
        /\ overlaps' \subseteq SUBSET Uploads /\ docs' \subseteq Uploads
  BY DeleteMoves DEF TypeOK
<1>2. deletes' \in [Deletes -> DeleteStates]
  <2>1. CASE DeleteRead(r)
    <3>1. PICK org \in Orgs, ids \in SUBSET Uploads :
              deletes' = [deletes EXCEPT ![r] =
                  IF Read(org, ids) = {} THEN [@ EXCEPT !.at = "ended"]
                  ELSE [at |-> "objects", org |-> org, left |-> Read(org, ids),
                        ids |-> Read(org, ids)]]
      BY <2>1 DEF DeleteRead
    <3>2. [at |-> "objects", org |-> org, left |-> Read(org, ids), ids |-> Read(org, ids)] \in DeleteStates
      BY DEF Read, DeleteStates, TypeOK
    <3>3. [deletes[r] EXCEPT !.at = "ended"] \in DeleteStates
      BY DEF DeleteStates, TypeOK
    <3>4. deletes' = [deletes EXCEPT ![r] =
                  IF Read(org, ids) = {} THEN [deletes[r] EXCEPT !.at = "ended"]
                  ELSE [at |-> "objects", org |-> org, left |-> Read(org, ids),
                        ids |-> Read(org, ids)]]
      BY <3>1 DEF TypeOK
    <3> QED
      BY <3>2, <3>3, <3>4 DEF TypeOK
  <2>2. ASSUME NEW d \in deletes[r].left, DeleteObject(r, d) \/ DeleteObjectFails(r, d)
        PROVE  deletes' \in [Deletes -> DeleteStates]
    <3>1. deletes' = Taken(r, d)
      BY <2>2 DEF DeleteObject, DeleteObjectFails
    <3>2. [deletes[r] EXCEPT !.left = @ \ {d},
                             !.at = IF deletes[r].left = {d} THEN "documents" ELSE @] \in DeleteStates
      <4>1. deletes[r] \in DeleteStates
        BY DEF TypeOK
      <4>2. ASSUME NEW x \in DeleteStates
            PROVE  [x EXCEPT !.left = x.left \ {d},
                             !.at = IF x.left = {d} THEN "documents" ELSE x.at] \in DeleteStates
        BY DEF DeleteStates
      <4> QED
        BY <4>1, <4>2
    <3>3. deletes' = [deletes EXCEPT ![r] =
              [deletes[r] EXCEPT !.left = @ \ {d},
                                 !.at = IF deletes[r].left = {d} THEN "documents" ELSE @]]
      <4> HIDE DEF DeleteStates
      <4>1. deletes \in [Deletes -> DeleteStates]
        BY DEF TypeOK
      <4>2. deletes'[r] = [deletes[r] EXCEPT !.left = @ \ {d},
                              !.at = IF deletes[r].left = {d} THEN "documents" ELSE @]
        BY <3>1, <4>1 DEF Taken
      <4>3. \A s \in Deletes \ {r} : deletes'[s] = deletes[s]
        BY DeleteMoves
      <4>4. deletes' = [s \in Deletes |-> deletes'[s]]
        BY <3>1, <4>1 DEF Taken
      <4> QED
        BY <4>1, <4>2, <4>3, <4>4
    <3> QED
      BY <3>2, <3>3 DEF TypeOK
  <2>3. CASE DeleteDocuments(r) \/ DeleteStops(r)
    BY <2>3 DEF DeleteDocuments, DeleteStops, TypeOK, DeleteStates
  <2> QED
    BY <2>1, <2>2, <2>3 DEF Delete
<1>3. ASSUME NEW d \in deletes[r].left, DeleteObject(r, d)
      PROVE  objects' \in [Names -> Contents \cup {None}] /\ leaked' \subseteq Names /\ faults' \in 0..MaxFaults
  <2>1. d \in Uploads /\ NameOf[d] \in Names
    BY DEF TypeOK, DeleteStates
  <2> QED
    BY <1>3, <2>1 DEF DeleteObject, TypeOK
<1>4. ASSUME NEW d \in deletes[r].left, DeleteObjectFails(r, d)
      PROVE  objects' \in [Names -> Contents \cup {None}] /\ leaked' \subseteq Names /\ faults' \in 0..MaxFaults
  <2>1. d \in Uploads /\ NameOf[d] \in Names
    BY DEF TypeOK, DeleteStates
  <2> QED
    BY <1>4, <2>1 DEF DeleteObjectFails, TypeOK
<1>5. ASSUME DeleteRead(r) \/ DeleteDocuments(r) \/ DeleteStops(r)
      PROVE  objects' \in [Names -> Contents \cup {None}] /\ leaked' \subseteq Names /\ faults' \in 0..MaxFaults
  <2>1. UNCHANGED <<objects, leaked>>
    BY <1>5 DEF DeleteRead, DeleteDocuments, DeleteStops
  <2>2. faults' = faults \/ (faults < MaxFaults /\ faults' = faults + 1)
    BY <1>5 DEF DeleteRead, DeleteDocuments, DeleteStops
  <2> QED
    BY <2>1, <2>2 DEF TypeOK
<1> QED
  BY <1>1, <1>2, <1>3, <1>4, <1>5 DEF Delete, TypeOK

(***************************************************************************)
(* Documents are recorded uploads, and deletes go through them.             *)
(***************************************************************************)
LEMMA RecordedUpload ==
  ASSUME TypeOK, Recorded, NEW u \in Uploads, Upload(u)
  PROVE  Recorded'
<1>1. u \notin docs
  BY UploadMoves DEF Recorded, Running
<1>2. CASE docs' = docs
  BY <1>1, <1>2, UploadMoves DEF Recorded, TypeOK
<1>3. CASE Create(u)
  BY <1>1, <1>3, UploadMoves DEF Recorded, TypeOK, Create, End
<1> QED
  BY <1>2, <1>3, UploadMoves

LEMMA RecordedDelete ==
  ASSUME TypeOK, Recorded, NEW r \in Deletes, Delete(r)
  PROVE  Recorded'
  BY DeleteMoves DEF Recorded

LEMMA AskedUpload ==
  ASSUME TypeOK, Asked, NEW u \in Uploads, Upload(u)
  PROVE  Asked'
<1> SUFFICES ASSUME NEW r \in Deletes
             PROVE  /\ deletes[r].left \subseteq deletes[r].ids
                    /\ deletes[r].at = "documents" => deletes[r].left = {}
                    /\ \A d \in deletes[r].ids : pc'[d] = "success" /\ OrgOf[d] = deletes[r].org
  BY UploadMoves DEF Asked
<1>1. \A d \in deletes[r].ids : d \in Uploads /\ d # u
  BY UploadMoves DEF Asked, TypeOK, DeleteStates, Running
<1> QED
  BY <1>1, UploadMoves DEF Asked

LEMMA AskedDelete ==
  ASSUME TypeOK, Recorded, Asked, NEW r \in Deletes, Delete(r)
  PROVE  Asked'
<1> SUFFICES ASSUME NEW s \in Deletes
             PROVE  /\ deletes'[s].left \subseteq deletes'[s].ids
                    /\ deletes'[s].at = "documents" => deletes'[s].left = {}
                    /\ \A d \in deletes'[s].ids : pc[d] = "success" /\ OrgOf[d] = deletes'[s].org
  BY DeleteMoves DEF Asked
<1>1. CASE s # r
  BY <1>1, DeleteMoves DEF Asked
<1>2. CASE s = r
  <2>1. deletes[r] \in DeleteStates
    BY DEF TypeOK
  <2>2. CASE /\ deletes'[r].left = deletes[r].left /\ deletes'[r].ids = deletes[r].ids
             /\ deletes'[r].org = deletes[r].org /\ deletes'[r].at \in {"ended", "stopped"}
    BY <1>2, <2>2 DEF Asked
  <2>3. CASE /\ deletes'[r].at = "objects" /\ deletes'[r].left = deletes'[r].ids
             /\ deletes'[r].ids \subseteq {d \in docs : OrgOf[d] = deletes'[r].org}
    BY <1>2, <2>3 DEF Recorded
  <2>4. CASE \E d \in deletes[r].left :
               /\ deletes'[r].left = deletes[r].left \ {d}
               /\ deletes'[r].at = IF deletes[r].left = {d} THEN "documents" ELSE "objects"
               /\ deletes'[r].ids = deletes[r].ids /\ deletes'[r].org = deletes[r].org
    BY <1>2, <2>4 DEF Asked
  <2>5. CASE deletes'[r] = [deletes[r] EXCEPT !.at = "ended"]
             \/ deletes'[r] = [deletes[r] EXCEPT !.at = "stopped"]
    BY <2>1, <2>2, <2>5 DEF DeleteStates
  <2> QED
    BY <2>2, <2>3, <2>4, <2>5, DeleteCases
<1> QED
  BY <1>1, <1>2

(***************************************************************************)
(* Temp files.                                                              *)
(***************************************************************************)
LEMMA TempUpload ==
  ASSUME TypeOK, TempFilesAreDeleted, NEW u \in Uploads, Upload(u)
  PROVE  TempFilesAreDeleted'
<1>1. ASSUME NEW v \in temp', v # u PROVE pc'[v] \in Running \cup {"not copied"}
  <2>1. v \in temp
    BY <1>1 DEF Upload, Start, StartRaises, Candidates, Lookup, Put, Create, UploadRaises, Goto, End
  <2> QED
    BY <1>1, <2>1, UploadMoves DEF TempFilesAreDeleted, TypeOK
<1>2. ASSUME u \in temp' PROVE pc'[u] \in Running \cup {"not copied"}
  <2>1. pc \in [Uploads -> Places] /\ temp \subseteq Uploads
    BY DEF TypeOK, Places
  <2>2. ASSUME NEW where, Goto(u, where), where \in Running PROVE pc'[u] \in Running
    BY <2>1, <2>2 DEF Goto
  <2>3. ASSUME NEW how, End(u, how) PROVE u \notin temp'
    BY <2>3 DEF End
  <2>4. CASE Start(u) \/ StartRaises(u)
    BY <2>1, <2>4 DEF Start, StartRaises, Running
  <2>5. CASE Candidates(u) \/ Lookup(u) \/ Put(u)
    BY <1>2, <2>2, <2>3, <2>5 DEF Candidates, Lookup, Put, Running
  <2>6. CASE Create(u) \/ UploadRaises(u)
    BY <1>2, <2>3, <2>6 DEF Create, UploadRaises
  <2> QED
    BY <2>4, <2>5, <2>6 DEF Upload
<1> QED
  BY <1>1, <1>2 DEF TempFilesAreDeleted

LEMMA TempDelete ==
  ASSUME TempFilesAreDeleted, TypeOK, NEW r \in Deletes, Delete(r)
  PROVE  TempFilesAreDeleted'
  BY DeleteMoves DEF TempFilesAreDeleted

(***************************************************************************)
(* Duplicates.                                                              *)
(***************************************************************************)
LEMMA TogetherUpload ==
  ASSUME TypeOK, Together, NEW u \in Uploads, Upload(u)
  PROVE  Together'
<1>1. ASSUME NEW v \in Uploads \ {u}, pc[v] \in Running, pc'[u] \in Running
      PROVE  {u, v} \in overlaps'
  <2>1. CASE Start(u)
    BY <1>1, <2>1 DEF Start
  <2>2. CASE StartRaises(u)
    BY <1>1, <2>2 DEF StartRaises, TypeOK, Running
  <2>3. CASE ~Start(u) /\ ~StartRaises(u)
    <3>1. pc[u] \in Running
      BY <2>3 DEF Upload, Candidates, Lookup, Put, Create, UploadRaises, Running
    <3> QED
      BY <1>1, <3>1, UploadMoves DEF Together
  <2> QED
    BY <2>1, <2>2, <2>3
<1> SUFFICES ASSUME NEW v \in Uploads, NEW w \in Uploads, v # w,
                    pc'[v] \in Running, pc'[w] \in Running
             PROVE  {v, w} \in overlaps'
  BY DEF Together
<1>2. CASE v = u
  BY <1>1, <1>2, UploadMoves
<1>3. CASE w = u
  <2>1. {v, w} = {u, v}
    BY <1>3
  <2> QED
    BY <1>1, <1>3, <2>1, UploadMoves
<1>4. CASE v # u /\ w # u
  BY <1>4, UploadMoves DEF Together
<1> QED
  BY <1>2, <1>3, <1>4

LEMMA UnmatchedUpload ==
  ASSUME TypeOK, Together, Unmatched, NEW u \in Uploads, Upload(u)
  PROVE  Unmatched'
<1> SUFFICES ASSUME NEW v \in Uploads, NEW d \in docs',
                    pc'[v] \in {"put", "create"}, v # d, Same(v, d)
             PROVE  {v, d} \in overlaps'
  BY DEF Unmatched, Same
<1>1. CASE d \notin docs
  <2>1. Create(u) /\ d = u
    BY <1>1, UploadMoves
  <2>2. pc[u] \in Running /\ pc[v] \in Running
    BY <2>1, UploadMoves DEF Create, Running
  <2> QED
    BY <2>1, <2>2, UploadMoves DEF Together
<1>2. CASE d \in docs /\ v # u
  BY <1>2, UploadMoves DEF Unmatched
<1>3. CASE d \in docs /\ v = u
  <2>1. pc \in [Uploads -> Places]
    BY DEF TypeOK, Places
  <2>2. ASSUME NEW how \in Ended, End(u, how) PROVE FALSE
    BY <1>3, <2>1, <2>2 DEF End, Ended
  <2>3. CASE Candidates(u)
    BY <1>3, <2>1, <2>3 DEF Candidates, Goto, Same
  <2>4. CASE Lookup(u)
    BY <1>3, <2>1, <2>2, <2>4 DEF Lookup, Goto, Matches, Same, Ended
  <2>5. CASE Put(u)
    BY <1>3, <2>5, UploadMoves DEF Put, Unmatched
  <2>6. CASE Start(u) \/ StartRaises(u)
    BY <1>3, <2>1, <2>6 DEF Start, StartRaises
  <2>7. CASE Create(u) \/ UploadRaises(u)
    BY <2>2, <2>7 DEF Create, UploadRaises, Ended
  <2> QED
    BY <2>3, <2>4, <2>5, <2>6, <2>7 DEF Upload
<1> QED
  BY <1>1, <1>2, <1>3

LEMMA RepeatsUpload ==
  ASSUME TypeOK, Unmatched, RepeatsAreDetected, NEW u \in Uploads, Upload(u)
  PROVE  RepeatsAreDetected'
<1> SUFFICES ASSUME NEW d \in docs', NEW e \in docs', d # e, Same(d, e)
             PROVE  {d, e} \in overlaps'
  BY DEF RepeatsAreDetected, Same
<1>1. CASE d \in docs /\ e \in docs
  BY <1>1, UploadMoves DEF RepeatsAreDetected, Same
<1>2. ASSUME d \notin docs \/ e \notin docs
      PROVE  Create(u) /\ docs' = docs \cup {u} /\ (d = u \/ e = u)
  BY <1>2, UploadMoves
<1>3. ASSUME Create(u), NEW x \in docs, x # u, Same(u, x) PROVE {u, x} \in overlaps'
  BY <1>3, UploadMoves DEF Create, Unmatched
<1>4. CASE d \notin docs \/ e \notin docs
  <2>1. CASE d = u
    BY <1>2, <1>3, <1>4, <2>1
  <2>2. CASE e = u
    <3>1. {d, e} = {u, d} /\ Same(u, d)
      BY <2>2 DEF Same
    <3> QED
      BY <1>2, <1>3, <1>4, <2>2, <3>1
  <2> QED
    BY <1>2, <1>4, <2>1, <2>2
<1> QED
  BY <1>1, <1>4

LEMMA DuplicatesDelete ==
  ASSUME TypeOK, Together, Unmatched, RepeatsAreDetected, NEW r \in Deletes, Delete(r)
  PROVE  Together' /\ Unmatched' /\ RepeatsAreDetected'
  BY DeleteMoves DEF Together, Unmatched, RepeatsAreDetected

(***************************************************************************)
(* Objects of the documents.                                                *)
(***************************************************************************)
\* The only object an upload writes is its own, in Put.
LEMMA ObjectsUpload ==
  ASSUME TypeOK, NEW u \in Uploads, Upload(u)
  PROVE  /\ objects' = objects \/ Put(u)
         /\ \A k \in Names : k # NameOf[u] => objects'[k] = objects[k]
<1>1. ASSUME Put(u) PROVE \A k \in Names : k # NameOf[u] => objects'[k] = objects[k]
  BY <1>1 DEF Put, TypeOK
<1>2. objects' = objects \/ Put(u)
  BY DEF Upload, Start, StartRaises, Candidates, Lookup, Create, UploadRaises
<1> QED
  BY <1>1, <1>2

\* The only object a delete removes is at the url of a document it goes through.
LEMMA ObjectsDelete ==
  ASSUME TypeOK, NEW r \in Deletes, Delete(r), NEW k \in Names, objects'[k] # objects[k]
  PROVE  objects'[k] = None
         /\ \E d \in deletes[r].left : DeleteObject(r, d) /\ k = KeyOfUrl[NameOf[d]]
<1>1. objects \in [Names -> Contents \cup {None}]
  BY DEF TypeOK
<1>2. PICK d \in deletes[r].left : DeleteObject(r, d)
  BY DEF Delete, DeleteRead, DeleteDocuments, DeleteStops, DeleteObjectFails
<1>3. objects' = [objects EXCEPT ![KeyOfUrl[NameOf[d]]] = None]
  BY <1>2 DEF DeleteObject
<1> QED
  BY <1>1, <1>2, <1>3

LEMMA PutObjectsUpload ==
  ASSUME TypeOK, PutObjects, NEW u \in Uploads, Upload(u)
  PROVE  PutObjects'
<1> SUFFICES ASSUME NEW v \in Uploads, pc'[v] = "create", OwnKey(v)
             PROVE  objects'[NameOf[v]] = ContentOf[v]
  BY DEF PutObjects, OwnKey
<1>1. CASE v # u
  <2>1. pc[v] = "create" /\ NameOf[v] \in Names
    BY <1>1, UploadMoves
  <2>2. NameOf[v] # NameOf[u]
    BY <1>1 DEF OwnKey
  <2> QED
    BY <2>1, <2>2, ObjectsUpload DEF PutObjects
<1>2. CASE v = u
  <2>1. pc \in [Uploads -> Places]
    BY DEF TypeOK, Places
  <2>2. Put(u)
    BY <1>2, <2>1 DEF Upload, Start, StartRaises, Candidates, Lookup, Create, UploadRaises, Goto, End
  <2>3. objects' = [objects EXCEPT ![NameOf[u]] = ContentOf[u]] /\ NameOf[u] \in Names
    BY <2>2 DEF Put
  <2> QED
    BY <1>2, <2>3 DEF TypeOK
<1> QED
  BY <1>1, <1>2

LEMMA PutObjectsDelete ==
  ASSUME TypeOK, Asked, PutObjects, NEW r \in Deletes, Delete(r)
  PROVE  PutObjects'
<1> SUFFICES ASSUME NEW v \in Uploads, pc[v] = "create", OwnKey(v)
             PROVE  objects'[NameOf[v]] = ContentOf[v]
  BY DeleteMoves DEF PutObjects, OwnKey
<1>1. objects[NameOf[v]] = ContentOf[v] /\ NameOf[v] \in Names
  BY DEF PutObjects
<1>2. ASSUME NEW d \in deletes[r].left PROVE NameOf[v] # KeyOfUrl[NameOf[d]]
  <2>1. d \in Uploads /\ d # v
    BY DEF Asked, TypeOK, DeleteStates
  <2> QED
    BY <2>1 DEF OwnKey
<1> QED
  BY <1>1, <1>2, ObjectsDelete

LEMMA DocumentsUpload ==
  ASSUME TypeOK, Recorded, PutObjects, DocumentsHaveTheirObject, NEW u \in Uploads, Upload(u)
  PROVE  DocumentsHaveTheirObject'
<1> SUFFICES ASSUME NEW d \in docs', OwnKey(d), ~Deleting(d)
             PROVE  objects'[NameOf[d]] = ContentOf[d]
  BY UploadMoves DEF DocumentsHaveTheirObject, OwnKey, Deleting
<1>1. CASE d \in docs
  <2>1. d \in Uploads /\ d # u /\ NameOf[d] \in Names
    BY <1>1, UploadMoves DEF Recorded, TypeOK, Running
  <2>2. NameOf[d] # NameOf[u]
    BY <2>1 DEF OwnKey
  <2> QED
    BY <1>1, <2>1, <2>2, ObjectsUpload DEF DocumentsHaveTheirObject
<1>2. CASE d \notin docs
  <2>1. Create(u) /\ d = u
    BY <1>2, UploadMoves
  <2> QED
    BY <2>1 DEF Create, PutObjects
<1> QED
  BY <1>1, <1>2

LEMMA DocumentsDelete ==
  ASSUME TypeOK, Asked, DocumentsHaveTheirObject, NEW r \in Deletes, Delete(r)
  PROVE  DocumentsHaveTheirObject'
<1> SUFFICES ASSUME NEW d \in docs', OwnKey(d), ~Deleting(d)'
             PROVE  objects'[NameOf[d]] = ContentOf[d]
  BY DEF DocumentsHaveTheirObject, OwnKey
<1> DEFINE Under(s) == d \in deletes[s].ids /\ deletes[s].at \in {"objects", "documents", "stopped"}
<1>1. \A s \in Deletes : ~Under(s)'
  BY DEF Deleting
<1>2. d \in docs /\ d \in Uploads /\ NameOf[d] \in Names /\ deletes[r] \in DeleteStates
  BY DeleteMoves DEF TypeOK
<1>3. ~Under(r)
  <2> SUFFICES ASSUME Under(r) PROVE FALSE
    OBVIOUS
  <2>1. CASE deletes[r].at = "idle"
    BY <2>1
  <2>2. CASE DeleteDocuments(r)
    BY <2>2 DEF DeleteDocuments, Asked
  <2>3. CASE deletes'[r] = [deletes[r] EXCEPT !.at = "stopped"]
    BY <1>1, <1>2, <2>3 DEF DeleteStates
  <2>4. CASE deletes'[r].ids = deletes[r].ids /\ deletes'[r].at \in {"objects", "documents"}
    BY <1>1, <2>4
  <2> QED
    BY <2>1, <2>2, <2>3, <2>4, DeleteCases
<1>4. ~Deleting(d)
  BY <1>1, <1>3, DeleteMoves DEF Deleting
<1>5. objects[NameOf[d]] = ContentOf[d]
  BY <1>2, <1>4 DEF DocumentsHaveTheirObject
<1>6. ASSUME NEW x \in deletes[r].left, DeleteObject(r, x), NameOf[d] = KeyOfUrl[NameOf[x]]
      PROVE  FALSE
  <2>1. x \in Uploads
    BY <1>2 DEF DeleteStates
  <2>2. x = d
    BY <1>6, <2>1 DEF OwnKey
  <2>3. deletes[r].at = "objects" /\ d \in deletes[r].ids
    BY <1>6, <2>2 DEF DeleteObject, Asked
  <2> QED
    BY <1>3, <2>3
<1> QED
  BY <1>2, <1>5, <1>6, ObjectsDelete

(***************************************************************************)
(* Objects without document.                                                *)
(***************************************************************************)
LEMMA OwnedUpload ==
  ASSUME TypeOK, Recorded, Asked, Owned, NEW u \in Uploads, Upload(u)
  PROVE  Owned'
<1> SUFFICES ASSUME NEW k \in Names \ leaked', objects'[k] # None
             PROVE  \E w \in Uploads : Owns(w, k)'
  BY DEF Owned
<1>0. pc \in [Uploads -> Places]
  BY DEF TypeOK, Places
<1>1. CASE Put(u) /\ NameOf[u] = k
  <2>1. pc'[u] = "create"
    BY <1>0, <1>1 DEF Put, Goto
  <2>2. \A r \in Deletes : u \notin deletes[r].ids
    BY <1>1 DEF Put, Asked
  <2>3. Owns(u, k)'
    BY <1>1, <2>1, <2>2, UploadMoves DEF Owns
  <2> QED
    BY <2>3
<1>2. CASE ~(Put(u) /\ NameOf[u] = k)
  <2>1. PICK w \in Uploads : Owns(w, k)
    BY <1>2, ObjectsUpload, UploadMoves DEF Owned
  <2>2. w \in docs' \/ pc'[w] = "create"
    <3>1. CASE w # u
      BY <2>1, <3>1, UploadMoves DEF Owns
    <3>2. CASE w = u
      <4>1. pc[u] = "create"
        BY <2>1, <3>2, UploadMoves DEF Owns, Recorded, Running
      <4>2. CASE Create(u)
        BY <3>2, <4>2 DEF Create
      <4>3. CASE UploadRaises(u)
        BY <2>1, <3>2, <4>1, <4>3 DEF UploadRaises, Owns
      <4> QED
        BY <4>1, <4>2, <4>3 DEF Upload, Start, StartRaises, Candidates, Lookup, Put
    <3> QED
      BY <3>1, <3>2
  <2>3. Owns(w, k)'
    BY <2>1, <2>2, UploadMoves DEF Owns
  <2> QED
    BY <2>3
<1> QED
  BY <1>1, <1>2

LEMMA OwnedDelete ==
  ASSUME TypeOK, Asked, Owned, NEW r \in Deletes, Delete(r)
  PROVE  Owned'
<1> SUFFICES ASSUME NEW k \in Names \ leaked', objects'[k] # None
             PROVE  \E w \in Uploads : Owns(w, k)'
  BY DEF Owned
<1>1. PICK w \in Uploads : Owns(w, k)
  BY ObjectsDelete, DeleteMoves DEF Owned
<1>2. w \in deletes'[r].ids => w \in deletes'[r].left
  <2>1. CASE deletes'[r].left = deletes[r].left /\ deletes'[r].ids = deletes[r].ids
    BY <1>1, <2>1 DEF Owns
  <2>2. CASE deletes'[r].left = deletes'[r].ids
    BY <2>2
  <2>3. ASSUME NEW d \in deletes[r].left, deletes'[r].left = deletes[r].left \ {d},
               deletes'[r].ids = deletes[r].ids, DeleteObject(r, d) \/ DeleteObjectFails(r, d)
        PROVE  w \in deletes'[r].ids => w \in deletes'[r].left
    <3>1. d # w
      <4> SUFFICES ASSUME d = w PROVE FALSE
        OBVIOUS
      <4>1. NameOf[d] = k
        BY <1>1 DEF Owns
      <4>2. CASE DeleteObjectFails(r, d)
        BY <4>1, <4>2 DEF DeleteObjectFails
      <4>3. CASE DeleteObject(r, d) /\ KeyOfUrl[k] # k
        BY <4>1, <4>3 DEF DeleteObject
      <4>4. CASE DeleteObject(r, d) /\ KeyOfUrl[k] = k
        BY <4>1, <4>4 DEF DeleteObject, TypeOK
      <4> QED
        BY <2>3, <4>2, <4>3, <4>4
    <3> QED
      BY <1>1, <2>3, <3>1 DEF Owns
  <2>4. CASE deletes'[r] = [deletes[r] EXCEPT !.at = "ended"]
             \/ deletes'[r] = [deletes[r] EXCEPT !.at = "stopped"]
    <3>1. deletes[r] \in DeleteStates
      BY DEF TypeOK
    <3> QED
      BY <2>1, <2>4, <3>1 DEF DeleteStates
  <2> QED
    BY <2>1, <2>2, <2>3, <2>4, DeleteCases
<1>3. \A s \in Deletes : w \in deletes'[s].ids => w \in deletes'[s].left
  BY <1>1, <1>2, DeleteMoves DEF Owns
<1>4. w \in docs' \/ pc'[w] = "create"
  <2>1. CASE docs' = docs
    BY <1>1, <2>1, DeleteMoves DEF Owns
  <2>2. CASE DeleteDocuments(r)
    BY <1>1, <2>2, DeleteMoves DEF DeleteDocuments, Owns, Asked
  <2> QED
    BY <2>1, <2>2, DeleteCases
<1>5. Owns(w, k)'
  BY <1>1, <1>3, <1>4 DEF Owns
<1> QED
  BY <1>5

(***************************************************************************)
(* The documents of an organisation go; nothing else does.                  *)
(***************************************************************************)
LEMMA PurgeStep ==
  ASSUME IInv, NEW org \in Orgs, OrgDeleted(org)
  PROVE  IInv'
<1> DEFINE purged == {d \in docs : OrgOf[d] = org}
<1>1. /\ docs' = docs \ purged /\ docs \subseteq Uploads
      /\ leaked' = leaked \cup {NameOf[d] : d \in purged}
      /\ UNCHANGED <<objects, temp, pc, deletes, overlaps, faults>>
  BY DEF OrgDeleted, IInv, TypeOK
<1>2. TypeOK'
  BY <1>1 DEF IInv, TypeOK
<1>3. Recorded' /\ Asked' /\ TempFilesAreDeleted' /\ Together'
  BY <1>1 DEF IInv, Recorded, Asked, TempFilesAreDeleted, Together
<1>4. Unmatched' /\ RepeatsAreDetected' /\ PutObjects'
  BY <1>1 DEF IInv, Unmatched, RepeatsAreDetected, PutObjects, OwnKey
<1>5. DocumentsHaveTheirObject'
  BY <1>1 DEF IInv, DocumentsHaveTheirObject, OwnKey, Deleting
<1>6. ASSUME NEW k \in Names \ leaked', objects'[k] # None
      PROVE  \E w \in Uploads : Owns(w, k)'
  <2>1. PICK w \in Uploads : Owns(w, k)
    BY <1>1, <1>6 DEF IInv, Owned
  <2>2. w \notin purged
    BY <1>1, <1>6, <2>1 DEF Owns
  <2>3. Owns(w, k)'
    BY <1>1, <2>1, <2>2 DEF Owns
  <2> QED
    BY <2>3
<1> QED
  BY <1>2, <1>3, <1>4, <1>5, <1>6 DEF IInv, Owned

(***************************************************************************)
(* The inductive invariant and what follows from it.                        *)
(***************************************************************************)
LEMMA Stutter == IInv /\ UNCHANGED vars => IInv'
<1> SUFFICES ASSUME IInv, UNCHANGED vars PROVE IInv'
  OBVIOUS
<1> USE DEF vars
<1>1. TypeOK' /\ Recorded' /\ Asked'
  BY DEF IInv, TypeOK, Recorded, Asked
<1>2. TempFilesAreDeleted' /\ Together' /\ Unmatched' /\ RepeatsAreDetected'
  BY DEF IInv, TempFilesAreDeleted, Together, Unmatched, RepeatsAreDetected
<1>3. PutObjects' /\ DocumentsHaveTheirObject'
  BY DEF IInv, PutObjects, DocumentsHaveTheirObject, Deleting, OwnKey
<1>4. Owned'
  BY DEF IInv, Owned, Owns
<1> QED
  BY <1>1, <1>2, <1>3, <1>4 DEF IInv

\* Every step of an upload, a delete and a purge keeps the strengthened invariant.
THEOREM Inductive == Spec => []IInv
<1>1. IInv /\ [Next]_vars => IInv'
  <2> SUFFICES ASSUME IInv, [Next]_vars PROVE IInv'
    OBVIOUS
  <2>1. ASSUME NEW u \in Uploads, Upload(u) PROVE IInv'
    BY <2>1, TypeUpload, RecordedUpload, AskedUpload, TempUpload, TogetherUpload, UnmatchedUpload,
       RepeatsUpload, PutObjectsUpload, DocumentsUpload, OwnedUpload DEF IInv
  <2>2. ASSUME NEW r \in Deletes, Delete(r) PROVE IInv'
    BY <2>2, TypeDelete, RecordedDelete, AskedDelete, TempDelete, DuplicatesDelete,
       PutObjectsDelete, DocumentsDelete, OwnedDelete DEF IInv
  <2>3. ASSUME NEW org \in Orgs, OrgDeleted(org) PROVE IInv'
    BY <2>3, PurgeStep
  <2>4. CASE UNCHANGED vars
    BY <2>4, Stutter
  <2> QED
    BY <2>1, <2>2, <2>3, <2>4 DEF Next
<1> QED
  BY InitHolds, <1>1, PTL DEF Spec

\* The state of the file service keeps its type.
THEOREM TypeCorrect == Spec => []TypeOK
<1>1. IInv => TypeOK
  BY DEF IInv
<1> QED
  BY Inductive, <1>1, PTL

\* A request to upload_file that ended, whatever raised, left no temp file, but
\* for one that the constructor of FileUtil could not copy.
THEOREM NoTempFileStays == Spec => []TempFilesAreDeleted
<1>1. IInv => TempFilesAreDeleted
  BY DEF IInv
<1> QED
  BY Inductive, <1>1, PTL

\* Two documents of one organisation have the same content only when their
\* uploads overlapped, whatever is deleted meanwhile.
THEOREM DuplicatesOverlap == Spec => []RepeatsAreDetected
<1>1. IInv => RepeatsAreDetected
  BY DEF IInv
<1> QED
  BY Inductive, <1>1, PTL

\* The object of a document whose key no other upload uses is there, unless a
\* delete of the document is under way or stopped half-way.
THEOREM ObjectsStay == Spec => []DocumentsHaveTheirObject
<1>1. IInv => DocumentsHaveTheirObject
  BY DEF IInv
<1> QED
  BY Inductive, <1>1, PTL

\* An object without document has a cause: a preview or a call that raised after
\* the put, a delete_object that failed, a url that leads to another key, or the
\* deletion of its organisation.
THEOREM OrphansHaveACause == Spec => []NoOtherOrphans
<1>1. IInv => NoOtherOrphans
  BY DEF IInv, Owned, Owns, NoOtherOrphans
<1> QED
  BY Inductive, <1>1, PTL
=============================================================================
