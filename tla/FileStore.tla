----------------------------- MODULE FileStore ------------------------------
(***************************************************************************)
(* FileService: files are uploaded through a temp file, detected as         *)
(* duplicates, put to S3 under their own name and then recorded in Mongo;   *)
(* delete removes the object and then the document.  One action per call to *)
(* Mongo or S3, as requests are served by several processes.  The           *)
(* org-deleted webhook removes the documents of an organisation.            *)
(***************************************************************************)
EXTENDS Naturals, FiniteSets

CONSTANTS
    Uploads,   \* requests to upload_file; a document has its upload's name
    Deletes,   \* requests to delete and delete_many
    Orgs, Contents, Names,
    OrgOf, ContentOf, NameOf, \* of every upload
    Readable,  \* the uploads whose preview does not raise
    KeyOfUrl,  \* [Names -> Names]: the path of the url of a key
    MaxFaults

ASSUME UploadsAssumption ==
    /\ OrgOf \in [Uploads -> Orgs]
    /\ ContentOf \in [Uploads -> Contents]
    /\ NameOf \in [Uploads -> Names]
    /\ Readable \subseteq Uploads

ASSUME KeysAssumption == KeyOfUrl \in [Names -> Names]

ASSUME FaultsAssumption == MaxFaults \in Nat

None == "none"

VARIABLES
    docs,     \* File documents, by their upload
    objects,  \* [Names -> Contents or None]: the bucket
    temp,     \* uploads whose temp file exists
    pc,       \* where every upload is
    deletes,  \* per delete: its org, the documents it goes through, how far
    overlaps, \* pairs of uploads that ran at the same time (history)
    leaked,   \* keys whose object may stay without document (history)
    faults

vars == <<docs, objects, temp, pc, deletes, overlaps, leaked, faults>>

Running == {"candidates", "lookup", "put", "create"}
Ended == {"success", "duplicate", "raised", "not copied"}

Init ==
    /\ docs = {}
    /\ objects = [k \in Names |-> None]
    /\ temp = {}
    /\ pc = [u \in Uploads |-> "idle"]
    /\ deletes = [r \in Deletes |-> [at |-> "idle", org |-> None, left |-> {}, ids |-> {}]]
    /\ overlaps = {}
    /\ leaked = {}
    /\ faults = 0

----------------------------------------------------------------------------
(* upload_file *)

\* Mutant: cleanup only on the way out of the try, not in a finally.
EndUnlessRaised(u, how) ==
    /\ pc' = [pc EXCEPT ![u] = how]
    /\ temp' = IF how = "raised" THEN temp ELSE temp \ {u}

\* Mutant: a return in the finally swallows the exception.
EndSwallowing(u, how) ==
    /\ pc' = [pc EXCEPT ![u] = IF how = "raised" THEN None ELSE how]
    /\ temp' = temp \ {u}

\* The finally: however the request ends, FileUtil.cleanup runs.
End(u, how) ==
    /\ pc' = [pc EXCEPT ![u] = how]
    /\ temp' = temp \ {u}

Goto(u, where) ==
    /\ pc' = [pc EXCEPT ![u] = where]
    /\ UNCHANGED temp

\* FileUtil copies the upload to its temp file; its size and md5 are read.
Start(u) ==
    /\ pc[u] = "idle"
    /\ temp' = temp \cup {u}
    /\ pc' = [pc EXCEPT ![u] = "candidates"]
    /\ overlaps' = overlaps \cup {{u, v} : v \in {w \in Uploads : pc[w] \in Running}}
    /\ UNCHANGED <<docs, objects, deletes, leaked, faults>>

\* The copy raises in the constructor, which is outside the try.
StartRaises(u) ==
    /\ pc[u] = "idle"
    /\ faults < MaxFaults
    /\ faults' = faults + 1
    /\ temp' = temp \cup {u}
    /\ pc' = [pc EXCEPT ![u] = "not copied"]
    /\ UNCHANGED <<docs, objects, deletes, overlaps, leaked>>

\* The size window; contents are told apart by more than their size, so it may
\* hold documents of any content, but always those of the same.
Candidates(u) ==
    /\ pc[u] = "candidates"
    /\ \/ /\ \E d \in docs : OrgOf[d] = OrgOf[u]
          /\ Goto(u, "lookup")
       \/ /\ \A d \in docs : OrgOf[d] = OrgOf[u] => ContentOf[d] # ContentOf[u]
          /\ Goto(u, "put")
    /\ UNCHANGED <<docs, objects, deletes, overlaps, leaked, faults>>

\* Mutant: a file is known by its name.
MatchesByName(u) == {d \in docs : OrgOf[d] = OrgOf[u] /\ NameOf[d] = NameOf[u]}

Matches(u) == {d \in docs : OrgOf[d] = OrgOf[u] /\ ContentOf[d] = ContentOf[u]}

Lookup(u) ==
    /\ pc[u] = "lookup"
    /\ IF Matches(u) # {} THEN End(u, "duplicate") ELSE Goto(u, "put")
    /\ UNCHANGED <<docs, objects, deletes, overlaps, leaked, faults>>

\* The key is the user's file name.  The preview is made after the object is
\* there; a broken pdf or workbook raises then and nothing removes the object.
Put(u) ==
    /\ pc[u] = "put"
    /\ objects' = [objects EXCEPT ![NameOf[u]] = ContentOf[u]]
    /\ IF u \in Readable
       THEN Goto(u, "create") /\ UNCHANGED leaked
       ELSE End(u, "raised") /\ leaked' = leaked \cup {NameOf[u]}
    /\ UNCHANGED <<docs, deletes, overlaps, faults>>

Create(u) ==
    /\ pc[u] = "create"
    /\ docs' = docs \cup {u}
    /\ End(u, "success")
    /\ UNCHANGED <<objects, deletes, overlaps, leaked, faults>>

\* A call to Mongo or S3 raises; nothing undoes a put.
UploadRaises(u) ==
    /\ pc[u] \in Running
    /\ faults < MaxFaults
    /\ faults' = faults + 1
    /\ leaked' = IF pc[u] = "create" THEN leaked \cup {NameOf[u]} ELSE leaked
    /\ End(u, "raised")
    /\ UNCHANGED <<docs, objects, deletes, overlaps>>

----------------------------------------------------------------------------
(* delete (one id) and delete_many *)

\* Mutant: the documents are found by their ids alone.
ReadAnyOrg(org, ids) == docs \cap ids

\* get compares the organisation, get_many_by_ids queries by it.
Read(org, ids) == {d \in docs \cap ids : OrgOf[d] = org}

DeleteRead(r) ==
    /\ deletes[r].at = "idle"
    /\ \E org \in Orgs, ids \in SUBSET Uploads \ {{}} :
          deletes' = [deletes EXCEPT ![r] =
              IF Read(org, ids) = {} THEN [@ EXCEPT !.at = "ended"]
              ELSE [at |-> "objects", org |-> org, left |-> Read(org, ids),
                    ids |-> Read(org, ids)]]
    /\ UNCHANGED <<docs, objects, temp, pc, overlaps, leaked, faults>>

\* Mutant: the loop ends after the first object.
TakenFirst(r, d) == [deletes EXCEPT ![r].left = @ \ {d}, ![r].at = "documents"]

Taken(r, d) == [deletes EXCEPT ![r].left = @ \ {d},
                               ![r].at = IF deletes[r].left = {d} THEN "documents" ELSE @]

\* AwsUtil.delete_object(doc.file_url): the key is the path of the url.
DeleteObject(r, d) ==
    /\ deletes[r].at = "objects" /\ d \in deletes[r].left
    /\ objects' = [objects EXCEPT ![KeyOfUrl[NameOf[d]]] = None]
    /\ deletes' = Taken(r, d)
    /\ leaked' = IF KeyOfUrl[NameOf[d]] # NameOf[d] THEN leaked \cup {NameOf[d]} ELSE leaked
    /\ UNCHANGED <<docs, temp, pc, overlaps, faults>>

\* A ClientError is logged and the loop goes on.
DeleteObjectFails(r, d) ==
    /\ deletes[r].at = "objects" /\ d \in deletes[r].left
    /\ faults < MaxFaults
    /\ faults' = faults + 1
    /\ deletes' = Taken(r, d)
    /\ leaked' = leaked \cup {NameOf[d]}
    /\ UNCHANGED <<docs, objects, temp, pc, overlaps>>

DeleteDocuments(r) ==
    /\ deletes[r].at = "documents"
    /\ docs' = {d \in docs : d \notin deletes[r].ids \/ OrgOf[d] # deletes[r].org}
    /\ deletes' = [deletes EXCEPT ![r].at = "ended"]
    /\ UNCHANGED <<objects, temp, pc, overlaps, leaked, faults>>

DeleteStops(r) ==
    /\ deletes[r].at \in {"objects", "documents"}
    /\ faults < MaxFaults
    /\ faults' = faults + 1
    /\ deletes' = [deletes EXCEPT ![r].at = "stopped"]
    /\ UNCHANGED <<docs, objects, temp, pc, overlaps, leaked>>

----------------------------------------------------------------------------
\* The org-deleted webhook takes the documents of an organisation; it does
\* nothing to the bucket, nor to the requests under way.
OrgDeleted(org) ==
    LET purged == {d \in docs : OrgOf[d] = org} IN
    /\ purged # {}
    /\ docs' = docs \ purged
    /\ leaked' = leaked \cup {NameOf[d] : d \in purged}
    /\ UNCHANGED <<objects, temp, pc, deletes, overlaps, faults>>

----------------------------------------------------------------------------
Upload(u) ==
    \/ Start(u) \/ StartRaises(u) \/ Candidates(u) \/ Lookup(u) \/ Put(u) \/ Create(u)
    \/ UploadRaises(u)

Delete(r) ==
    \/ DeleteRead(r) \/ DeleteDocuments(r) \/ DeleteStops(r)
    \/ \E d \in deletes[r].left : DeleteObject(r, d) \/ DeleteObjectFails(r, d)

Next ==
    \/ \E u \in Uploads : Upload(u)
    \/ \E r \in Deletes : Delete(r)
    \/ \E org \in Orgs : OrgDeleted(org)

Spec == Init /\ [][Next]_vars

----------------------------------------------------------------------------
DeleteStates == [at : {"idle", "objects", "documents", "ended", "stopped"},
                 org : Orgs \cup {None}, left : SUBSET Uploads, ids : SUBSET Uploads]

TypeOK ==
    /\ docs \subseteq Uploads
    /\ objects \in [Names -> Contents \cup {None}]
    /\ temp \subseteq Uploads
    /\ pc \in [Uploads -> {"idle"} \cup Running \cup Ended]
    /\ deletes \in [Deletes -> DeleteStates]
    /\ overlaps \subseteq SUBSET Uploads
    /\ leaked \subseteq Names
    /\ faults \in 0..MaxFaults

\* Whatever raises after the copy, a request that ended leaves no temp file behind.
TempFilesAreDeleted == \A u \in temp : pc[u] \in Running \cup {"not copied"}

\* Two documents of one organisation hold the same content only if their
\* uploads ran at the same time: the two phases of detect_duplicate miss no file
\* that was there before, whatever else is uploaded and deleted meanwhile.
RepeatsAreDetected ==
    \A d, e \in docs :
        d # e /\ OrgOf[d] = OrgOf[e] /\ ContentOf[d] = ContentOf[e] => {d, e} \in overlaps

\* The key of d is used by d alone.
OwnKey(d) ==
    \A u \in Uploads \ {d} : NameOf[d] \notin {NameOf[u], KeyOfUrl[NameOf[u]]}

Deleting(d) ==
    \E r \in Deletes : d \in deletes[r].ids /\ deletes[r].at \in {"objects", "documents", "stopped"}

\* A document whose key no other upload uses has its content in the bucket,
\* unless a delete of the document is under way or stopped half-way.
DocumentsHaveTheirObject ==
    \A d \in docs : OwnKey(d) /\ ~Deleting(d) => objects[NameOf[d]] = ContentOf[d]

\* An object belongs to a document or an upload that will record it, unless the
\* preview or a call raised after the put, its url does not lead back to it, or
\* its document went with its organisation.
NoOtherOrphans ==
    \A k \in Names \ leaked :
        objects[k] # None =>
            \E u \in Uploads : NameOf[u] = k /\ (u \in docs \/ pc[u] = "create")
=============================================================================
