------------------------- MODULE ItemLifecycleProofs -------------------------
(***************************************************************************)
(* Proofs about ItemLifecycle: for any number of items, worker slots,       *)
(* requests, redeliveries and faults.                                       *)
(***************************************************************************)
EXTENDS ItemLifecycle, TLAPS

USE ItemAssumption, LimitAssumption, UpdateAssumption

(***************************************************************************)
(* The inductive invariant.                                                 *)
(***************************************************************************)
WithFile == {"processing", "download", "candidates", "lookup", "record",
             "extract", "summarize", "finish"}
Recorded == {"extract", "summarize", "finish"}

\* An execution works on a document that was inserted; past GetById it knows
\* whether there is a file, and past Record the document, if still there, has
\* its hash.
Slots ==
    \A w \in Workers :
        /\ exec[w].at # "idle" =>
              exec[w].item \in Items /\ place[exec[w].item] # "new"
        /\ exec[w].at = "activate" => exec[w].item \notin Uploaded
        /\ exec[w].at \in WithFile => exec[w].item \in Uploaded
        /\ exec[w].at \in Recorded /\ place[exec[w].item] = "stored" =>
              exec[w].item \in hashed

\* Nothing refers to a document that is not inserted yet, and exactly the
\* uploaded items name an object once they are.
Fresh ==
    /\ \A i \in Items : place[i] = "new" =>
          /\ status[i] = "pending"
          /\ queue[i] = 0
          /\ i \notin unpublished
    /\ \A i \in Items : object[i] # None <=> i \in Uploaded /\ place[i] # "new"
    /\ \A r \in Reprocesses :
          /\ \A i \in rep[r].todo : place[i] # "new"
          /\ rep[r].at = "publish" =>
                rep[r].current \in Items /\ place[rep[r].current] # "new"
    /\ \A d \in Deletes : \A i \in del[d].todo \cup del[d].deletable :
          place[i] # "new"

\* Of the items that a request deletes, those that it went through have no
\* object any more, unless delete_object raised.
Deleting ==
    \A d \in Deletes :
        /\ del[d].at = "s3" => del[d].todo \subseteq del[d].deletable
        /\ del[d].at = "db" => del[d].todo = {}
        /\ del[d].at \in {"s3", "db"} =>
              \A i \in Uploaded \cap (del[d].deletable \ del[d].todo) :
                  object[i] \notin s3 \/ object[i] \in unremoved

Objects == Deleting /\ ObjectsFollowDocuments

\* ProcessingIsAwaited, made inductive: an execution that has only to report
\* has written its last status and does not count.
StillAwaited ==
    faults = 0 =>
        \A i \in Stored : status[i] = "processing" =>
            \/ \E w \in Workers :
                  exec[w].item = i /\ exec[w].at \notin {"idle", "report"}
            \/ queue[i] > 0
            \/ \E r \in Reprocesses :
                  rep[r].at = "publish" /\ rep[r].current = i

IInv == TypeOK /\ Slots /\ Fresh

(***************************************************************************)
(* Type correctness.                                                        *)
(***************************************************************************)
\* An idle slot is a slot.
LEMMA IdleType == IdleSlot \in SlotType
  BY DEF IdleSlot, SlotType, SlotPlaces

\* One slot changes.
LEMMA SlotChange ==
  ASSUME TypeOK, NEW w \in Workers, NEW slot \in SlotType,
         exec' = [exec EXCEPT ![w] = slot]
  PROVE  exec' \in [Workers -> SlotType]
  BY DEF TypeOK

\* A slot that goes on to another call stays a slot.
LEMMA GotoType ==
  ASSUME TypeOK, NEW w \in Workers, NEW at \in SlotPlaces, Goto(w, at)
  PROVE  exec' \in [Workers -> SlotType]
<1>1. exec[w] \in SlotType
  BY DEF TypeOK
<1>2. [exec[w] EXCEPT !.at = at] \in SlotType
  BY <1>1 DEF SlotType
<1>3. exec' = [exec EXCEPT ![w] = [exec[w] EXCEPT !.at = at]]
  BY DEF Goto
<1> QED
  BY <1>2, <1>3, SlotChange

\* So does a slot that also notes the original it found.
LEMMA FindType ==
  ASSUME TypeOK, NEW w \in Workers, NEW at \in SlotPlaces,
         NEW found \in Items \cup {None},
         exec' = [exec EXCEPT ![w].at = at, ![w].found = found]
  PROVE  exec' \in [Workers -> SlotType]
<1>1. exec[w] \in SlotType
  BY DEF TypeOK
<1>2. [exec[w] EXCEPT !.at = at, !.found = found] \in SlotType
  BY <1>1 DEF SlotType
<1>3. exec' = [exec EXCEPT ![w] = [exec[w] EXCEPT !.at = at, !.found = found]]
  BY DEF TypeOK
<1> QED
  BY <1>2, <1>3, SlotChange

\* Executions that overlap work on items.
LEMMA OverlapsType ==
  ASSUME TypeOK, Slots, NEW w \in Workers, exec[w].at # "idle", NoteOverlaps(w)
  PROVE  overlaps' \subseteq SUBSET Items
<1>1. exec[w].item \in Items
  BY DEF Slots
<1>2. \A v \in Workers : exec[v].at = "record" => exec[v].item \in Items
  BY DEF Slots
<1>3. \A v \in {v \in Workers : exec[v].at = "record"} :
          {exec[w].item, exec[v].item} \in SUBSET Items
  BY <1>1, <1>2
<1> QED
  BY <1>3 DEF NoteOverlaps, TypeOK

\* One delete request changes.
LEMMA DeleteChange ==
  ASSUME TypeOK, NEW d \in Deletes, NEW new \in DeleteType,
         del' = [del EXCEPT ![d] = new]
  PROVE  del' \in [Deletes -> DeleteType]
  BY DEF TypeOK

\* One reprocess request changes.
LEMMA ReprocessChange ==
  ASSUME TypeOK, NEW r \in Reprocesses, NEW new \in ReprocessType,
         rep' = [rep EXCEPT ![r] = new]
  PROVE  rep' \in [Reprocesses -> ReprocessType]
  BY DEF TypeOK

\* The initial state is well typed.
LEMMA TypeInit == Init => TypeOK
<1> SUFFICES ASSUME Init PROVE TypeOK
  OBVIOUS
<1>1. exec \in [Workers -> SlotType]
  BY IdleType DEF Init
<1>2. del \in [Deletes -> DeleteType]
  BY DEF Init, NewDelete, DeleteType
<1>3. rep \in [Reprocesses -> ReprocessType]
  BY DEF Init, NewReprocess, ReprocessType
<1>4. status \in [Items -> ItemStatus]
  BY DEF Init, ItemStatus
<1>5. redelivered \in 0..MaxRedeliveries /\ faults \in 0..MaxFaults
  BY DEF Init
<1> QED
  BY <1>1, <1>2, <1>3, <1>4, <1>5 DEF Init, TypeOK

\* Every step keeps the types.
LEMMA TypeStep == TypeOK /\ Slots /\ Fresh /\ [Next]_vars => TypeOK'
<1> SUFFICES ASSUME TypeOK, Slots, Fresh, [Next]_vars
             PROVE  TypeOK'
  OBVIOUS
<1> USE DEF ItemStatus, history, documents, requests
<1>1. ASSUME NEW i \in Items, Create(i) PROVE TypeOK'
  BY <1>1 DEF Create, TypeOK, requests
<1>2. ASSUME NEW i \in Items, CreateFromUpload(i) PROVE TypeOK'
  BY <1>2 DEF CreateFromUpload, TypeOK
<1>3. ASSUME NEW i \in Items, Publish(i) PROVE TypeOK'
  BY <1>3 DEF Publish, Fault, TypeOK, documents
<1>4. ASSUME NEW i \in Items, Update(i) PROVE TypeOK'
  BY <1>4 DEF Update, SetStatus, TypeOK, requests
<1>5. ASSUME NEW r \in Reprocesses, ReprocessRead(r) PROVE TypeOK'
  <2>1. PICK ids \in SUBSET Stored \ {{}} :
              rep' = [rep EXCEPT ![r].at = "update", ![r].todo = ids]
    BY <1>5 DEF ReprocessRead
  <2>2. [rep[r] EXCEPT !.at = "update", !.todo = ids] \in ReprocessType
    <3>1. rep[r] \in ReprocessType
      BY DEF TypeOK
    <3> QED
      BY <3>1 DEF ReprocessType, Stored
  <2>3. rep' = [rep EXCEPT ![r] = [rep[r] EXCEPT !.at = "update", !.todo = ids]]
    BY <2>1 DEF TypeOK
  <2> QED
    BY <1>5, <2>2, <2>3, ReprocessChange DEF ReprocessRead, TypeOK, documents
<1>6. ASSUME NEW r \in Reprocesses, NEW i \in Items, ReprocessUpdate(r, i)
      PROVE  TypeOK'
  BY <1>6 DEF ReprocessUpdate, SetStatus, TypeOK, ReprocessType
<1>7. ASSUME NEW r \in Reprocesses, ReprocessPublish(r) PROVE TypeOK'
  <2>1. PICK at \in {"done", "update"} :
              rep' = [rep EXCEPT ![r].current = None, ![r].at = at]
    BY <1>7 DEF ReprocessPublish
  <2>2. [rep[r] EXCEPT !.current = None, !.at = at] \in ReprocessType
    <3>1. rep[r] \in ReprocessType
      BY DEF TypeOK
    <3> QED
      BY <3>1 DEF ReprocessType
  <2>3. rep' = [rep EXCEPT ![r] = [rep[r] EXCEPT !.current = None, !.at = at]]
    BY <2>1 DEF TypeOK
  <2>4. rep[r].current \in Items
    BY <1>7 DEF ReprocessPublish, Fresh
  <2>5. queue' \in [Items -> Nat]
    BY <1>7, <2>4 DEF ReprocessPublish, TypeOK
  <2>6. rep' \in [Reprocesses -> ReprocessType]
    BY <2>2, <2>3, ReprocessChange
  <2> QED
    BY <1>7, <2>5, <2>6 DEF ReprocessPublish, TypeOK
<1>8. ASSUME NEW r \in Reprocesses, ReprocessStops(r) PROVE TypeOK'
  BY <1>8 DEF ReprocessStops, Fault, NewReprocess, TypeOK, documents, ReprocessType
<1>9. ASSUME NEW d \in Deletes, DeleteRead(d) PROVE TypeOK'
  BY <1>9 DEF DeleteRead, Stored, TypeOK, documents, DeleteType
<1>10. ASSUME NEW d \in Deletes, NEW i \in Items, DeleteCheck(d, i) PROVE TypeOK'
  <2>1. PICK deletable \in SUBSET Items, todo \in SUBSET Items,
             at \in {"check", "s3", "done"} :
              del' = [del EXCEPT ![d].deletable = deletable, ![d].todo = todo,
                                 ![d].at = at]
    <3>1. del[d].todo \in SUBSET Items /\ del[d].deletable \in SUBSET Items
      BY DEF TypeOK, DeleteType
    <3> DEFINE more == IF i \notin del[d].dups /\ HasDuplicates(i) THEN {} ELSE {i}
               deletable == del[d].deletable \cup more
               rest == del[d].todo \ {i}
    <3>2. deletable \in SUBSET Items /\ rest \in SUBSET Items
      BY <3>1
    <3> QED
      BY <1>10, <3>2 DEF DeleteCheck
  <2>2. [del[d] EXCEPT !.deletable = deletable, !.todo = todo, !.at = at]
          \in DeleteType
    <3>1. del[d] \in DeleteType
      BY DEF TypeOK
    <3> QED
      BY <3>1 DEF DeleteType
  <2>3. del' = [del EXCEPT ![d] = [del[d] EXCEPT !.deletable = deletable,
                                                 !.todo = todo, !.at = at]]
    BY <2>1 DEF TypeOK
  <2> QED
    <3>1. del' \in [Deletes -> DeleteType]
      BY <2>2, <2>3, DeleteChange
    <3> QED
      BY <1>10, <3>1 DEF DeleteCheck, TypeOK, documents
<1>11. ASSUME NEW d \in Deletes, NEW i \in Items, DeleteObject(d, i) PROVE TypeOK'
  <2>1. PICK at \in {"s3", "db"} :
              del' = [del EXCEPT ![d].todo = @ \ {i}, ![d].at = at]
    BY <1>11 DEF DeleteObject
  <2>2. [del[d] EXCEPT !.todo = @ \ {i}, !.at = at] \in DeleteType
    <3>1. del[d] \in DeleteType
      BY DEF TypeOK
    <3> QED
      BY <3>1 DEF DeleteType
  <2>3. del' = [del EXCEPT ![d] = [del[d] EXCEPT !.todo = @ \ {i}, !.at = at]]
    BY <2>1 DEF TypeOK
  <2> QED
    <3>1. del' \in [Deletes -> DeleteType]
      BY <2>2, <2>3, DeleteChange
    <3>2. i \in Uploaded => object[i] \in Keys
      BY <1>11 DEF DeleteObject, Fresh, TypeOK
    <3> QED
      BY <1>11, <3>1, <3>2 DEF DeleteObject, Fault, TypeOK
<1>12. ASSUME NEW d \in Deletes, DeleteDocuments(d) PROVE TypeOK'
  BY <1>12 DEF DeleteDocuments, NewDelete, TypeOK, DeleteType
<1>13. ASSUME NEW d \in Deletes, DeleteStops(d) PROVE TypeOK'
  <2> DEFINE went == IF del[d].at = "check" THEN {} ELSE del[d].deletable \ del[d].todo
             new == [NewDelete EXCEPT !.at = "stopped", !.deletable = went]
  <2>1. went \in SUBSET Items
    BY DEF TypeOK, DeleteType
  <2>2. new \in DeleteType
    BY <2>1 DEF NewDelete, DeleteType
  <2>3. del' = [del EXCEPT ![d] = new]
    BY <1>13 DEF DeleteStops
  <2> HIDE DEF new
  <2>4. del' \in [Deletes -> DeleteType]
    BY <2>2, <2>3, DeleteChange
  <2> QED
    BY <1>13, <2>4 DEF DeleteStops, Fault, TypeOK
<1>14. ASSUME NEW w \in Workers, NEW i \in Items, Receive(w, i) PROVE TypeOK'
  <2>1. [at |-> "start", item |-> i, found |-> None] \in SlotType
    BY DEF SlotType, SlotPlaces
  <2>2. exec' \in [Workers -> SlotType]
    BY <1>14, <2>1, SlotChange DEF Receive
  <2>3. queue' \in [Items -> Nat] /\ redelivered' \in 0..MaxRedeliveries
    BY <1>14 DEF Receive, TypeOK
  <2> QED
    BY <1>14, <2>2, <2>3 DEF Receive, TypeOK, documents, requests
<1>15. ASSUME NEW w \in Workers, GetById(w) PROVE TypeOK'
  <2>1. PICK at \in {"failed", "activate", "processing"} : Goto(w, at)
    BY <1>15 DEF GetById
  <2> QED
    BY <1>15, <2>1, GotoType DEF GetById, TypeOK, SlotPlaces, documents, requests
<1>16. ASSUME NEW w \in Workers, Activate(w) PROVE TypeOK'
  <2>1. exec' \in [Workers -> SlotType]
    BY <1>16, GotoType DEF Activate, SlotPlaces
  <2> QED
    BY <1>16, <2>1 DEF Activate, SetStatus, TypeOK, requests
<1>17. ASSUME NEW w \in Workers, SetProcessing(w) PROVE TypeOK'
  <2>1. exec' \in [Workers -> SlotType]
    BY <1>17, GotoType DEF SetProcessing, SlotPlaces
  <2> QED
    BY <1>17, <2>1 DEF SetProcessing, SetStatus, TypeOK, requests
<1>18. ASSUME NEW w \in Workers, Download(w) PROVE TypeOK'
  <2>1. exec' \in [Workers -> SlotType]
    BY <1>18, GotoType DEF Download, SlotPlaces
  <2>2. faults' \in 0..MaxFaults
    BY <1>18 DEF Download, Fault, TypeOK
  <2>3. leaked' = leaked \/ leaked' = TRUE
    BY <1>18 DEF Download
  <2> QED
    BY <1>18, <2>1, <2>2, <2>3 DEF Download, TypeOK, documents, requests
<1>19. ASSUME NEW w \in Workers, Candidates(w) PROVE TypeOK'
  <2>1. PICK at \in {"lookup", "record"} : Goto(w, at)
    BY <1>19 DEF Candidates
  <2>2. exec' \in [Workers -> SlotType]
    BY <2>1, GotoType DEF SlotPlaces
  <2>3. overlaps' \subseteq SUBSET Items
    BY <1>19, OverlapsType DEF Candidates, TypeOK
  <2> QED
    BY <1>19, <2>2, <2>3 DEF Candidates, TypeOK
<1>20. ASSUME NEW w \in Workers, Lookup(w) PROVE TypeOK'
  <2>0. overlaps' \subseteq SUBSET Items
    BY <1>20, OverlapsType DEF Lookup
  <2>1. CASE Goto(w, "record")
    <3>1. exec' \in [Workers -> SlotType]
      BY <2>1, GotoType DEF SlotPlaces
    <3> QED
      BY <1>20, <2>0, <3>1 DEF Lookup, TypeOK
  <2>2. CASE ~ Goto(w, "record")
    <3>1. PICK k \in Matches(exec[w].item) :
              exec' = [exec EXCEPT ![w].at = "record",
                           ![w].found = IF k = exec[w].item THEN None ELSE k]
      BY <1>20, <2>2 DEF Lookup
    <3>2. k \in Items
      BY DEF Matches, Stored
    <3>3. PICK found \in Items \cup {None} :
              exec' = [exec EXCEPT ![w].at = "record", ![w].found = found]
      BY <3>1, <3>2
    <3>4. exec' \in [Workers -> SlotType]
      BY <3>3, FindType DEF SlotPlaces
    <3> QED
      BY <1>20, <2>0, <3>4 DEF Lookup, TypeOK
  <2> QED
    BY <2>1, <2>2
<1>21. ASSUME NEW w \in Workers, Record(w) PROVE TypeOK'
  <2>1. exec' \in [Workers -> SlotType]
    BY <1>21, FindType DEF Record, SlotPlaces
  <2>2. exec[w].item \in Uploaded /\ exec[w].found \in Items \cup {None}
    BY <1>21 DEF Record, Slots, WithFile, TypeOK, SlotType
  <2>3. hashed' \subseteq Uploaded /\ original' \in [Items -> Items \cup {None}]
    BY <1>21, <2>2 DEF Record, TypeOK
  <2> QED
    BY <1>21, <2>1, <2>3 DEF Record, TypeOK, requests
<1>22. ASSUME NEW w \in Workers, Extract(w) PROVE TypeOK'
  <2>1. PICK at \in {"summarize", "finish", "failed"} : Goto(w, at)
    BY <1>22 DEF Extract
  <2> QED
    BY <1>22, <2>1, GotoType DEF Extract, TypeOK, SlotPlaces, documents, requests
<1>23. ASSUME NEW w \in Workers, Summarize(w) PROVE TypeOK'
  <2>1. PICK at \in {"finish", "failed"} : Goto(w, at)
    BY <1>23 DEF Summarize
  <2> QED
    BY <1>23, <2>1, GotoType DEF Summarize, TypeOK, SlotPlaces, documents, requests
<1>24. ASSUME NEW w \in Workers, Finish(w) PROVE TypeOK'
  <2>1. exec' \in [Workers -> SlotType]
    BY <1>24, GotoType DEF Finish, SlotPlaces
  <2> QED
    BY <1>24, <2>1 DEF Finish, SetStatus, TypeOK, requests
<1>25. ASSUME NEW w \in Workers, Report(w) PROVE TypeOK'
  BY <1>25, IdleType, SlotChange DEF Report, TypeOK, documents, requests
<1>26. ASSUME NEW w \in Workers, Raises(w) PROVE TypeOK'
  <2>1. exec' \in [Workers -> SlotType]
    BY <1>26, FindType DEF Raises, SlotPlaces
  <2> QED
    BY <1>26, <2>1 DEF Raises, Fault, TypeOK, documents, requests
<1>27. ASSUME NEW w \in Workers, Failed(w) PROVE TypeOK'
  <2>1. exec' \in [Workers -> SlotType]
    BY <1>27, IdleType, SlotChange DEF Failed
  <2>2. exec[w].item \in Items
    BY <1>27 DEF Failed, Slots
  <2>3. status' \in [Items -> ItemStatus] /\ error' \subseteq Items
    BY <1>27, <2>2 DEF Failed, SetStatus, TypeOK
  <2>4. faults' \in 0..MaxFaults
    BY <1>27 DEF Failed, Fault, TypeOK
  <2> QED
    BY <1>27, <2>1, <2>3, <2>4 DEF Failed, TypeOK, requests
<1>28. ASSUME NEW w \in Workers, Crash(w) PROVE TypeOK'
  <2>1. exec' \in [Workers -> SlotType]
    BY <1>28, IdleType, SlotChange DEF Crash
  <2> QED
    BY <1>28, <2>1 DEF Crash, Fault, TypeOK, documents, requests
<1>29. CASE OrgDeleted
  BY <1>29 DEF OrgDeleted, TypeOK, requests
<1>30. CASE UNCHANGED vars
  BY <1>30 DEF vars, documents, requests, history, TypeOK
<1> QED
  BY <1>1, <1>2, <1>3, <1>4, <1>5, <1>6, <1>7, <1>8, <1>9, <1>10, <1>11,
     <1>12, <1>13, <1>14, <1>15, <1>16, <1>17, <1>18, <1>19, <1>20, <1>21,
     <1>22, <1>23, <1>24, <1>25, <1>26, <1>27, <1>28, <1>29, <1>30
  DEF Next, Serve, Work, Clients, Failures

(***************************************************************************)
(* Preservation of the other parts of the invariant.                        *)
(***************************************************************************)
\* Every step keeps what is known of the executions.
LEMMA SlotsStep == TypeOK /\ Slots /\ Fresh /\ [Next]_vars => Slots'
<1> SUFFICES ASSUME TypeOK, Slots, Fresh, [Next]_vars
             PROVE  Slots'
  OBVIOUS
<1>1. ASSUME NEW i \in Items, Create(i) PROVE Slots'
  BY <1>1 DEF Create, TypeOK, Slots, WithFile, Recorded
<1>2. ASSUME NEW i \in Items, CreateFromUpload(i) PROVE Slots'
  BY <1>2 DEF CreateFromUpload, TypeOK, Slots, WithFile, Recorded
<1>3. ASSUME NEW i \in Items, Publish(i) PROVE Slots'
  BY <1>3 DEF Publish, Slots, documents
<1>4. ASSUME NEW i \in Items, Update(i) PROVE Slots'
  BY <1>4 DEF Update, Slots
<1>5. ASSUME NEW r \in Reprocesses, ReprocessRead(r) PROVE Slots'
  BY <1>5 DEF ReprocessRead, Slots, documents
<1>6. ASSUME NEW r \in Reprocesses, NEW i \in Items, ReprocessUpdate(r, i) PROVE Slots'
  BY <1>6 DEF ReprocessUpdate, Slots
<1>7. ASSUME NEW r \in Reprocesses, ReprocessPublish(r) PROVE Slots'
  BY <1>7 DEF ReprocessPublish, Slots, documents
<1>8. ASSUME NEW r \in Reprocesses, ReprocessStops(r) PROVE Slots'
  BY <1>8 DEF ReprocessStops, Slots, documents
<1>9. ASSUME NEW d \in Deletes, DeleteRead(d) PROVE Slots'
  BY <1>9 DEF DeleteRead, Slots, documents
<1>10. ASSUME NEW d \in Deletes, NEW i \in Items, DeleteCheck(d, i) PROVE Slots'
  BY <1>10 DEF DeleteCheck, Slots, documents
<1>11. ASSUME NEW d \in Deletes, NEW i \in Items, DeleteObject(d, i) PROVE Slots'
  BY <1>11 DEF DeleteObject, Slots, documents
<1>12. ASSUME NEW d \in Deletes, DeleteDocuments(d) PROVE Slots'
  BY <1>12 DEF DeleteDocuments, TypeOK, Slots, WithFile, Recorded
<1>13. ASSUME NEW d \in Deletes, DeleteStops(d) PROVE Slots'
  BY <1>13 DEF DeleteStops, Slots, documents
<1>14. ASSUME NEW w \in Workers, NEW i \in Items, Receive(w, i) PROVE Slots'
  BY <1>14 DEF Receive, TypeOK, Slots, Fresh, WithFile, Recorded, documents
<1>15. ASSUME NEW w \in Workers, GetById(w) PROVE Slots'
  BY <1>15 DEF GetById, Goto, TypeOK, Slots, WithFile, Recorded, documents
<1>16. ASSUME NEW w \in Workers, Activate(w) PROVE Slots'
  BY <1>16 DEF Activate, Goto, TypeOK, Slots, WithFile, Recorded
<1>17. ASSUME NEW w \in Workers, SetProcessing(w) PROVE Slots'
  BY <1>17 DEF SetProcessing, Goto, TypeOK, Slots, WithFile, Recorded
<1>18. ASSUME NEW w \in Workers, Download(w) PROVE Slots'
  BY <1>18 DEF Download, Goto, TypeOK, SlotType, Slots, WithFile, Recorded,
       documents
<1>19. ASSUME NEW w \in Workers, Candidates(w) PROVE Slots'
  <2>1. PICK at \in {"lookup", "record"} : Goto(w, at)
    BY <1>19 DEF Candidates
  <2> QED
    BY <1>19, <2>1
    DEF Candidates, Goto, TypeOK, Slots, WithFile, Recorded, documents
<1>20. ASSUME NEW w \in Workers, Lookup(w) PROVE Slots'
  BY <1>20 DEF Lookup, Goto, Matches, TypeOK, SlotType, Slots, WithFile,
       Recorded, documents
<1>21. ASSUME NEW w \in Workers, Record(w) PROVE Slots'
  BY <1>21 DEF Record, TypeOK, Slots, WithFile, Recorded
<1>22. ASSUME NEW w \in Workers, Extract(w) PROVE Slots'
  BY <1>22 DEF Extract, Goto, TypeOK, Slots, WithFile, Recorded, documents
<1>23. ASSUME NEW w \in Workers, Summarize(w) PROVE Slots'
  BY <1>23 DEF Summarize, Goto, TypeOK, Slots, WithFile, Recorded, documents
<1>24. ASSUME NEW w \in Workers, Finish(w) PROVE Slots'
  BY <1>24 DEF Finish, Goto, TypeOK, Slots, WithFile, Recorded
<1>25. ASSUME NEW w \in Workers, Report(w) PROVE Slots'
  BY <1>25 DEF Report, IdleSlot, TypeOK, Slots, WithFile, Recorded,
       documents
<1>26. ASSUME NEW w \in Workers, Raises(w) PROVE Slots'
  BY <1>26 DEF Raises, TypeOK, Slots, WithFile, Recorded, documents
<1>27. ASSUME NEW w \in Workers, Failed(w) PROVE Slots'
  BY <1>27 DEF Failed, SetStatus, Fault, IdleSlot, TypeOK, Slots, WithFile,
       Recorded
<1>28. ASSUME NEW w \in Workers, Crash(w) PROVE Slots'
  BY <1>28 DEF Crash, Fault, IdleSlot, TypeOK, Slots, WithFile, Recorded,
       documents
<1>29. CASE OrgDeleted
  BY <1>29 DEF OrgDeleted, TypeOK, Slots, WithFile, Recorded
<1>30. CASE UNCHANGED vars
  BY <1>30 DEF vars, documents, requests, history, TypeOK, SlotType, Slots, Fresh, WithFile, Recorded
<1> QED
  BY <1>1, <1>2, <1>3, <1>4, <1>5, <1>6, <1>7, <1>8, <1>9, <1>10, <1>11, <1>12, <1>13, <1>14, <1>15, <1>16, <1>17, <1>18, <1>19, <1>20, <1>21, <1>22, <1>23, <1>24, <1>25, <1>26, <1>27, <1>28, <1>29, <1>30
  DEF Next, Serve, Work, Clients, Failures

\* What the check of one item leaves of the request.
LEMMA CheckStep ==
  ASSUME TypeOK, NEW d \in Deletes, NEW i \in Items, DeleteCheck(d, i)
  PROVE  /\ del'[d].todo \cup del'[d].deletable
               \subseteq del[d].todo \cup del[d].deletable
         /\ del'[d].at # "db"
         /\ del'[d].at = "s3" => del'[d].todo = del'[d].deletable
<1> DEFINE kept == IF i \notin del[d].dups /\ HasDuplicates(i) THEN {} ELSE {i}
           deletable == del[d].deletable \cup kept
           todo == del[d].todo \ {i}
<1>1. i \in del[d].todo /\ kept \subseteq {i}
  BY DEF DeleteCheck
<1>2. del[d] \in DeleteType
  BY DEF TypeOK
<1>3. /\ del'[d].deletable = deletable
      /\ del'[d].todo = IF todo = {} THEN deletable ELSE todo
      /\ del'[d].at = CASE todo # {} -> "check"
                        [] todo = {} /\ deletable # {} -> "s3"
                        [] OTHER -> "done"
  <2> DEFINE at == CASE todo # {} -> "check"
                     [] todo = {} /\ deletable # {} -> "s3"
                     [] OTHER -> "done"
             left == IF todo = {} THEN deletable ELSE todo
  <2>1. del' = [del EXCEPT ![d].deletable = deletable, ![d].todo = left, ![d].at = at]
    BY DEF DeleteCheck
  <2> HIDE DEF at, left, deletable
  <2>2. del'[d] = [del[d] EXCEPT !.deletable = deletable, !.todo = left, !.at = at]
    BY <2>1 DEF TypeOK
  <2>3. /\ del'[d].deletable = deletable /\ del'[d].todo = left /\ del'[d].at = at
    BY <1>2, <2>2 DEF DeleteType
  <2> QED
    BY <2>3 DEF at, left
<1> QED
  BY <1>1, <1>3

\* Every step leaves documents that are not inserted alone.
LEMMA FreshStep == TypeOK /\ Slots /\ Fresh /\ [Next]_vars => Fresh'
<1> SUFFICES ASSUME TypeOK, Slots, Fresh, [Next]_vars
             PROVE  Fresh'
  OBVIOUS
<1>1. ASSUME NEW i \in Items, Create(i) PROVE Fresh'
  BY <1>1 DEF Create, TypeOK, DeleteType, ReprocessType, Fresh, requests
<1>2. ASSUME NEW i \in Items, CreateFromUpload(i) PROVE Fresh'
  BY <1>2 DEF CreateFromUpload, TypeOK, DeleteType, ReprocessType, Fresh
<1>3. ASSUME NEW i \in Items, Publish(i) PROVE Fresh'
  BY <1>3 DEF Publish, TypeOK, DeleteType, ReprocessType, Fresh, documents
<1>4. ASSUME NEW i \in Items, Update(i) PROVE Fresh'
  BY <1>4 DEF Update, SetStatus, Fresh, requests
<1>5. ASSUME NEW r \in Reprocesses, ReprocessRead(r) PROVE Fresh'
  BY <1>5 DEF ReprocessRead, TypeOK, DeleteType, ReprocessType, Fresh,
       documents
<1>6. ASSUME NEW r \in Reprocesses, NEW i \in Items, ReprocessUpdate(r, i) PROVE Fresh'
  BY <1>6 DEF ReprocessUpdate, TypeOK, DeleteType, ReprocessType, Fresh
<1>7. ASSUME NEW r \in Reprocesses, ReprocessPublish(r) PROVE Fresh'
  BY <1>7 DEF ReprocessPublish, TypeOK, DeleteType, ReprocessType, Fresh
<1>8. ASSUME NEW r \in Reprocesses, ReprocessStops(r) PROVE Fresh'
  BY <1>8 DEF ReprocessStops, Fault, NewReprocess, Fresh, documents
<1>9. ASSUME NEW d \in Deletes, DeleteRead(d) PROVE Fresh'
  BY <1>9 DEF DeleteRead, Stored, Fresh, documents
<1>10. ASSUME NEW d \in Deletes, NEW i \in Items, DeleteCheck(d, i) PROVE Fresh'
  <2>1. del'[d].todo \cup del'[d].deletable
          \subseteq del[d].todo \cup del[d].deletable
    BY <1>10, CheckStep
  <2>2. \A e \in Deletes : e # d => del'[e] = del[e]
    BY <1>10 DEF DeleteCheck, TypeOK
  <2>3. UNCHANGED <<documents, s3, queue, unpublished, rep>>
    BY <1>10 DEF DeleteCheck
  <2>4. ASSUME NEW e \in Deletes, NEW j \in del'[e].todo \cup del'[e].deletable
        PROVE  place[j] # "new"
    BY <2>1, <2>2 DEF Fresh
  <2> QED
    BY <2>3, <2>4 DEF Fresh, documents
<1>11. ASSUME NEW d \in Deletes, NEW i \in Items, DeleteObject(d, i) PROVE Fresh'
  BY <1>11 DEF DeleteObject, TypeOK, DeleteType, ReprocessType, Fresh,
       documents
<1>12. ASSUME NEW d \in Deletes, DeleteDocuments(d) PROVE Fresh'
  BY <1>12 DEF DeleteDocuments, NewDelete, TypeOK, DeleteType,
       ReprocessType, Fresh
<1>13. ASSUME NEW d \in Deletes, DeleteStops(d) PROVE Fresh'
  BY <1>13 DEF DeleteStops, Fault, NewDelete, Fresh, documents
<1>14. ASSUME NEW w \in Workers, NEW i \in Items, Receive(w, i) PROVE Fresh'
  BY <1>14 DEF Receive, TypeOK, DeleteType, ReprocessType, Fresh, documents,
       requests
<1>15. ASSUME NEW w \in Workers, GetById(w) PROVE Fresh'
  BY <1>15 DEF GetById, Goto, Fresh, documents, requests
<1>16. ASSUME NEW w \in Workers, Activate(w) PROVE Fresh'
  BY <1>16 DEF Activate, SetStatus, Goto, Fresh, requests
<1>17. ASSUME NEW w \in Workers, SetProcessing(w) PROVE Fresh'
  BY <1>17 DEF SetProcessing, SetStatus, Goto, Fresh, requests
<1>18. ASSUME NEW w \in Workers, Download(w) PROVE Fresh'
  BY <1>18 DEF Download, Goto, Fresh, documents, requests
<1>19. ASSUME NEW w \in Workers, Candidates(w) PROVE Fresh'
  BY <1>19 DEF Candidates, Goto, Fresh, documents, requests
<1>20. ASSUME NEW w \in Workers, Lookup(w) PROVE Fresh'
  BY <1>20 DEF Lookup, Goto, Fresh, documents, requests
<1>21. ASSUME NEW w \in Workers, Record(w) PROVE Fresh'
  BY <1>21 DEF Record, Fresh, requests
<1>22. ASSUME NEW w \in Workers, Extract(w) PROVE Fresh'
  BY <1>22 DEF Extract, Goto, Fresh, documents, requests
<1>23. ASSUME NEW w \in Workers, Summarize(w) PROVE Fresh'
  BY <1>23 DEF Summarize, Goto, Fresh, documents, requests
<1>24. ASSUME NEW w \in Workers, Finish(w) PROVE Fresh'
  BY <1>24 DEF Finish, SetStatus, Goto, Fresh, requests
<1>25. ASSUME NEW w \in Workers, Report(w) PROVE Fresh'
  BY <1>25 DEF Report, Fresh, documents, requests
<1>26. ASSUME NEW w \in Workers, Raises(w) PROVE Fresh'
  BY <1>26 DEF Raises, Fresh, documents, requests
<1>27. ASSUME NEW w \in Workers, Failed(w) PROVE Fresh'
  BY <1>27 DEF Failed, SetStatus, Fault, IdleSlot, TypeOK, DeleteType,
       ReprocessType, Fresh, requests
<1>28. ASSUME NEW w \in Workers, Crash(w) PROVE Fresh'
  BY <1>28 DEF Crash, Fresh, documents, requests
<1>29. CASE OrgDeleted
  BY <1>29 DEF OrgDeleted, TypeOK, DeleteType, ReprocessType, Fresh, requests
<1>30. CASE UNCHANGED vars
  BY <1>30 DEF vars, documents, requests, history, TypeOK, SlotType, DeleteType, ReprocessType, Slots, Fresh
<1> QED
  BY <1>1, <1>2, <1>3, <1>4, <1>5, <1>6, <1>7, <1>8, <1>9, <1>10, <1>11, <1>12, <1>13, <1>14, <1>15, <1>16, <1>17, <1>18, <1>19, <1>20, <1>21, <1>22, <1>23, <1>24, <1>25, <1>26, <1>27, <1>28, <1>29, <1>30
  DEF Next, Serve, Work, Clients, Failures

\* Every step keeps active items hashed and without error.
LEMMA CleanStep == "active" \notin StatusUpdates /\ ActiveIsClean /\ TypeOK /\ Slots /\ Fresh /\ [Next]_vars => ActiveIsClean'
<1> SUFFICES ASSUME "active" \notin StatusUpdates, ActiveIsClean, TypeOK, Slots, Fresh, [Next]_vars
             PROVE  ActiveIsClean'
  OBVIOUS
<1>1. ASSUME NEW i \in Items, Create(i) PROVE ActiveIsClean'
  BY <1>1 DEF Create, ActiveIsClean, Stored
<1>2. ASSUME NEW i \in Items, CreateFromUpload(i) PROVE ActiveIsClean'
  BY <1>2 DEF CreateFromUpload, TypeOK, Slots, Fresh, ActiveIsClean, Stored
<1>3. ASSUME NEW i \in Items, Publish(i) PROVE ActiveIsClean'
  BY <1>3 DEF Publish, ActiveIsClean, Stored, documents
<1>4. ASSUME NEW i \in Items, Update(i) PROVE ActiveIsClean'
  BY <1>4 DEF Update, SetStatus, ActiveIsClean, Stored
<1>5. ASSUME NEW r \in Reprocesses, ReprocessRead(r) PROVE ActiveIsClean'
  BY <1>5 DEF ReprocessRead, Stored, ActiveIsClean, documents
<1>6. ASSUME NEW r \in Reprocesses, NEW i \in Items, ReprocessUpdate(r, i) PROVE ActiveIsClean'
  BY <1>6 DEF ReprocessUpdate, SetStatus, ActiveIsClean, Stored
<1>7. ASSUME NEW r \in Reprocesses, ReprocessPublish(r) PROVE ActiveIsClean'
  BY <1>7 DEF ReprocessPublish, ActiveIsClean, Stored, documents
<1>8. ASSUME NEW r \in Reprocesses, ReprocessStops(r) PROVE ActiveIsClean'
  BY <1>8 DEF ReprocessStops, ActiveIsClean, Stored, documents
<1>9. ASSUME NEW d \in Deletes, DeleteRead(d) PROVE ActiveIsClean'
  BY <1>9 DEF DeleteRead, Stored, ActiveIsClean, documents
<1>10. ASSUME NEW d \in Deletes, NEW i \in Items, DeleteCheck(d, i) PROVE ActiveIsClean'
  BY <1>10 DEF DeleteCheck, ActiveIsClean, Stored, documents
<1>11. ASSUME NEW d \in Deletes, NEW i \in Items, DeleteObject(d, i) PROVE ActiveIsClean'
  BY <1>11 DEF DeleteObject, ActiveIsClean, Stored, documents
<1>12. ASSUME NEW d \in Deletes, DeleteDocuments(d) PROVE ActiveIsClean'
  BY <1>12 DEF DeleteDocuments, ActiveIsClean, Stored
<1>13. ASSUME NEW d \in Deletes, DeleteStops(d) PROVE ActiveIsClean'
  BY <1>13 DEF DeleteStops, ActiveIsClean, Stored, documents
<1>14. ASSUME NEW w \in Workers, NEW i \in Items, Receive(w, i) PROVE ActiveIsClean'
  BY <1>14 DEF Receive, ActiveIsClean, Stored, documents
<1>15. ASSUME NEW w \in Workers, GetById(w) PROVE ActiveIsClean'
  BY <1>15 DEF GetById, Goto, ActiveIsClean, Stored, documents
<1>16. ASSUME NEW w \in Workers, Activate(w) PROVE ActiveIsClean'
  BY <1>16 DEF Activate, SetStatus, Goto, TypeOK, Slots, Fresh,
       ActiveIsClean, Stored
<1>17. ASSUME NEW w \in Workers, SetProcessing(w) PROVE ActiveIsClean'
  BY <1>17 DEF SetProcessing, SetStatus, Goto, ActiveIsClean, Stored
<1>18. ASSUME NEW w \in Workers, Download(w) PROVE ActiveIsClean'
  BY <1>18 DEF Download, Goto, ActiveIsClean, Stored, documents
<1>19. ASSUME NEW w \in Workers, Candidates(w) PROVE ActiveIsClean'
  BY <1>19 DEF Candidates, Goto, Stored, ActiveIsClean, documents
<1>20. ASSUME NEW w \in Workers, Lookup(w) PROVE ActiveIsClean'
  BY <1>20 DEF Lookup, Goto, Stored, ActiveIsClean, documents
<1>21. ASSUME NEW w \in Workers, Record(w) PROVE ActiveIsClean'
  BY <1>21 DEF Record, ActiveIsClean, Stored
<1>22. ASSUME NEW w \in Workers, Extract(w) PROVE ActiveIsClean'
  BY <1>22 DEF Extract, Goto, ActiveIsClean, Stored, documents
<1>23. ASSUME NEW w \in Workers, Summarize(w) PROVE ActiveIsClean'
  BY <1>23 DEF Summarize, Goto, ActiveIsClean, Stored, documents
<1>24. ASSUME NEW w \in Workers, Finish(w) PROVE ActiveIsClean'
  BY <1>24 DEF Finish, SetStatus, Goto, TypeOK, Slots, Fresh, WithFile,
       Recorded, ActiveIsClean, Stored
<1>25. ASSUME NEW w \in Workers, Report(w) PROVE ActiveIsClean'
  BY <1>25 DEF Report, ActiveIsClean, Stored, documents
<1>26. ASSUME NEW w \in Workers, Raises(w) PROVE ActiveIsClean'
  BY <1>26 DEF Raises, ActiveIsClean, Stored, documents
<1>27. ASSUME NEW w \in Workers, Failed(w) PROVE ActiveIsClean'
  BY <1>27 DEF Failed, SetStatus, Fault, IdleSlot, TypeOK, ActiveIsClean,
       Stored
<1>28. ASSUME NEW w \in Workers, Crash(w) PROVE ActiveIsClean'
  BY <1>28 DEF Crash, ActiveIsClean, Stored, documents
<1>29. CASE OrgDeleted
  BY <1>29 DEF OrgDeleted, ActiveIsClean, Stored
<1>30. CASE UNCHANGED vars
  BY <1>30 DEF vars, documents, requests, history, TypeOK, Slots, Fresh, WithFile, Recorded, ActiveIsClean, Stored
<1> QED
  BY <1>1, <1>2, <1>3, <1>4, <1>5, <1>6, <1>7, <1>8, <1>9, <1>10, <1>11, <1>12, <1>13, <1>14, <1>15, <1>16, <1>17, <1>18, <1>19, <1>20, <1>21, <1>22, <1>23, <1>24, <1>25, <1>26, <1>27, <1>28, <1>29, <1>30
  DEF Next, Serve, Work, Clients, Failures

\* Steps that take no object and no request further: documents only come, or go
\* with their organisation.
LEMMA ObjectsFrame ==
  ASSUME Objects, TypeOK, UNCHANGED <<object, s3, unremoved, del>>,
         \A i \in Items : \/ place'[i] = place[i]
                          \/ place[i] = "new" /\ place'[i] = "stored"
                          \/ place[i] = "stored" /\ place'[i] = "purged"
  PROVE  Objects'
<1>1. Deleting'
  BY DEF Objects, Deleting
<1>2. ASSUME NEW i \in Uploaded, place'[i] = "deleted"
      PROVE  object[i] \notin s3 \/ object[i] \in unremoved
  BY <1>2 DEF Objects, ObjectsFollowDocuments
<1>3. ASSUME NEW key \in Keys \ s3
      PROVE  \E i \in Uploaded :
               /\ object[i] = key
               /\ \/ place'[i] \in {"deleted", "purged"}
                  \/ \E d \in Deletes : /\ del[d].at \in {"s3", "db", "stopped"}
                                        /\ i \in del[d].deletable \ del[d].todo
  BY DEF Objects, ObjectsFollowDocuments
<1> QED
  BY <1>1, <1>2, <1>3 DEF Objects, ObjectsFollowDocuments

\* A document that comes with its key: nobody knew of it.
LEMMA UploadKeepsObjects ==
  ASSUME Objects, TypeOK, Fresh, NEW i \in Items, CreateFromUpload(i)
  PROVE  Objects'
<1>1. /\ place[i] = "new" /\ place' = [place EXCEPT ![i] = "stored"]
      /\ UNCHANGED <<s3, unremoved, del>>
  BY DEF CreateFromUpload, history
<1>2. PICK key \in Keys : object' = [object EXCEPT ![i] = key]
  BY DEF CreateFromUpload
<1>3. \A k \in Items \ {i} : object'[k] = object[k] /\ place'[k] = place[k]
  BY <1>1, <1>2 DEF TypeOK
<1>4. \A d \in Deletes : del[d].deletable \subseteq Items \ {i}
  BY <1>1 DEF Fresh, TypeOK, DeleteType
<1>5. place'[i] = "stored"
  BY <1>1 DEF TypeOK
<1>6. Deleting'
  BY <1>1, <1>3, <1>4 DEF Objects, Deleting
<1>7. \A k \in Uploaded : place'[k] = "deleted" =>
          object'[k] \notin s3' \/ object'[k] \in unremoved'
  BY <1>1, <1>3, <1>5 DEF Objects, ObjectsFollowDocuments
<1>8. ASSUME NEW lost \in Keys \ s3'
      PROVE  \E k \in Uploaded :
               /\ object'[k] = lost
               /\ \/ place'[k] \in {"deleted", "purged"}
                  \/ \E d \in Deletes : /\ del'[d].at \in {"s3", "db", "stopped"}
                                        /\ k \in del'[d].deletable \ del'[d].todo
  <2>1. PICK k \in Uploaded :
               /\ object[k] = lost
               /\ \/ place[k] \in {"deleted", "purged"}
                  \/ \E d \in Deletes : /\ del[d].at \in {"s3", "db", "stopped"}
                                        /\ k \in del[d].deletable \ del[d].todo
    BY <1>1 DEF Objects, ObjectsFollowDocuments
  <2>2. k # i
    BY <1>1, <1>4, <2>1
  <2> QED
    BY <1>1, <1>3, <2>1, <2>2
<1> QED
  BY <1>6, <1>7, <1>8 DEF Objects, ObjectsFollowDocuments

\* One delete request goes on; what it went through stays.
LEMMA DeleteKeepsObjects ==
  ASSUME Objects, TypeOK, NEW d \in Deletes,
         UNCHANGED <<place, object, s3, unremoved>>,
         \A e \in Deletes : e # d => del'[e] = del[e],
         del'[d].at = "s3" => del'[d].todo = del'[d].deletable,
         del'[d].at # "db",
         del[d].at \in {"s3", "db", "stopped"} =>
            /\ del'[d].at = "stopped"
            /\ del[d].deletable \ del[d].todo
                  \subseteq del'[d].deletable \ del'[d].todo
  PROVE  Objects'
<1>1. ASSUME NEW e \in Deletes
      PROVE  /\ del'[e].at = "s3" => del'[e].todo \subseteq del'[e].deletable
             /\ del'[e].at = "db" => del'[e].todo = {}
             /\ del'[e].at \in {"s3", "db"} =>
                  \A i \in Uploaded \cap (del'[e].deletable \ del'[e].todo) :
                      object[i] \notin s3 \/ object[i] \in unremoved
  <2>1. CASE e = d
    BY <2>1
  <2>2. CASE e # d
    BY <2>2 DEF Objects, Deleting
  <2> QED
    BY <2>1, <2>2
<1>2. Deleting'
  BY <1>1 DEF Deleting
<1>3. ASSUME NEW lost \in Keys \ s3
      PROVE  \E k \in Uploaded :
               /\ object[k] = lost
               /\ \/ place[k] \in {"deleted", "purged"}
                  \/ \E e \in Deletes : /\ del'[e].at \in {"s3", "db", "stopped"}
                                        /\ k \in del'[e].deletable \ del'[e].todo
  <2>1. PICK k \in Uploaded :
               /\ object[k] = lost
               /\ \/ place[k] \in {"deleted", "purged"}
                  \/ \E e \in Deletes : /\ del[e].at \in {"s3", "db", "stopped"}
                                        /\ k \in del[e].deletable \ del[e].todo
    BY DEF Objects, ObjectsFollowDocuments
  <2>2. CASE place[k] \in {"deleted", "purged"}
    BY <2>1, <2>2
  <2>3. ASSUME NEW e \in Deletes, del[e].at \in {"s3", "db", "stopped"},
               k \in del[e].deletable \ del[e].todo
        PROVE  /\ del'[e].at \in {"s3", "db", "stopped"}
               /\ k \in del'[e].deletable \ del'[e].todo
    <3>1. CASE e = d
      BY <2>3, <3>1
    <3>2. CASE e # d
      BY <2>3, <3>2
    <3> QED
      BY <3>1, <3>2
  <2> QED
    BY <2>1, <2>2, <2>3
<1> QED
  BY <1>2, <1>3 DEF Objects, ObjectsFollowDocuments

\* The object of one item is removed, or delete_object raises.
LEMMA RemovalKeepsObjects ==
  ASSUME Objects, TypeOK, Fresh, NEW d \in Deletes, NEW i \in Items,
         DeleteObject(d, i)
  PROVE  Objects'
<1>1. /\ del[d].at = "s3" /\ i \in del[d].todo
      /\ del[d].todo \subseteq del[d].deletable
      /\ UNCHANGED <<place, object>>
  BY DEF DeleteObject, Objects, Deleting, documents
<1>2. /\ del'[d].at = IF del[d].todo = {i} THEN "db" ELSE "s3"
      /\ del'[d].todo = del[d].todo \ {i}
      /\ del'[d].deletable = del[d].deletable
      /\ \A e \in Deletes : e # d => del'[e] = del[e]
  BY DEF DeleteObject, TypeOK, DeleteType
<1>3. /\ s3' \subseteq s3 /\ unremoved \subseteq unremoved'
      /\ s3 \ {object[i]} \subseteq s3'
      /\ i \in Uploaded => object[i] \notin s3' \/ object[i] \in unremoved'
  BY DEF DeleteObject
<1>4. ASSUME NEW k \in Uploaded, object[k] \notin s3 \/ object[k] \in unremoved
      PROVE  object'[k] \notin s3' \/ object'[k] \in unremoved'
  BY <1>1, <1>3, <1>4
<1>5. ASSUME NEW e \in Deletes
      PROVE  /\ del'[e].at = "s3" => del'[e].todo \subseteq del'[e].deletable
             /\ del'[e].at = "db" => del'[e].todo = {}
             /\ del'[e].at \in {"s3", "db"} =>
                  \A k \in Uploaded \cap (del'[e].deletable \ del'[e].todo) :
                      object'[k] \notin s3' \/ object'[k] \in unremoved'
  <2>1. CASE e # d
    BY <1>2, <1>4, <2>1 DEF Objects, Deleting
  <2>2. CASE e = d
    <3>1. ASSUME NEW k \in Uploaded \cap (del[d].deletable \ (del[d].todo \ {i}))
          PROVE  object'[k] \notin s3' \/ object'[k] \in unremoved'
      <4>1. CASE k = i
        BY <1>1, <1>3, <4>1
      <4>2. CASE k # i
        BY <1>1, <1>4, <4>2 DEF Objects, Deleting
      <4> QED
        BY <4>1, <4>2
    <3> QED
      BY <1>1, <1>2, <2>2, <3>1
  <2> QED
    BY <2>1, <2>2
<1>6. Deleting'
  BY <1>5 DEF Deleting
<1>7. \A k \in Uploaded : place'[k] = "deleted" =>
          object'[k] \notin s3' \/ object'[k] \in unremoved'
  BY <1>1, <1>4 DEF Objects, ObjectsFollowDocuments
<1>8. ASSUME NEW lost \in Keys \ s3'
      PROVE  \E k \in Uploaded :
               /\ object'[k] = lost
               /\ \/ place'[k] \in {"deleted", "purged"}
                  \/ \E e \in Deletes : /\ del'[e].at \in {"s3", "db", "stopped"}
                                        /\ k \in del'[e].deletable \ del'[e].todo
  <2>1. CASE lost = object[i]
    <3>1. i \in Uploaded
      BY <2>1, ItemAssumption DEF Fresh
    <3>2. del'[d].at \in {"s3", "db", "stopped"} /\ i \in del'[d].deletable \ del'[d].todo
      BY <1>1, <1>2
    <3> QED
      BY <1>1, <2>1, <3>1, <3>2
  <2>2. CASE lost # object[i]
    <3>1. lost \in Keys \ s3
      BY <1>3, <2>2
    <3>2. PICK k \in Uploaded :
               /\ object[k] = lost
               /\ \/ place[k] \in {"deleted", "purged"}
                  \/ \E e \in Deletes : /\ del[e].at \in {"s3", "db", "stopped"}
                                        /\ k \in del[e].deletable \ del[e].todo
      BY <3>1 DEF Objects, ObjectsFollowDocuments
    <3>3. ASSUME NEW e \in Deletes, del[e].at \in {"s3", "db", "stopped"},
                 k \in del[e].deletable \ del[e].todo
          PROVE  /\ del'[e].at \in {"s3", "db", "stopped"}
                 /\ k \in del'[e].deletable \ del'[e].todo
      <4>1. CASE e = d
        BY <1>2, <3>3, <4>1
      <4>2. CASE e # d
        BY <1>2, <3>3, <4>2
      <4> QED
        BY <4>1, <4>2
    <3> QED
      BY <1>1, <3>2, <3>3
  <2> QED
    BY <2>1, <2>2
<1> QED
  BY <1>6, <1>7, <1>8 DEF Objects, ObjectsFollowDocuments

\* The documents follow their objects.
LEMMA DocumentsKeepObjects ==
  ASSUME Objects, TypeOK, Fresh, NEW d \in Deletes, DeleteDocuments(d)
  PROVE  Objects'
<1>1. /\ del[d].at = "db" /\ del[d].todo = {}
      /\ UNCHANGED <<object, s3, unremoved>>
  BY DEF DeleteDocuments, Objects, Deleting, history
<1>2. \A i \in Items : place'[i] = IF i \in del[d].deletable /\ place[i] = "stored"
                                   THEN "deleted" ELSE place[i]
  BY DEF DeleteDocuments
<1>3. /\ del'[d].at = "done"
      /\ \A e \in Deletes : e # d => del'[e] = del[e]
  BY DEF DeleteDocuments, NewDelete, TypeOK
<1>4. Deleting'
  BY <1>1, <1>3 DEF Objects, Deleting
<1>5. \A i \in Uploaded \cap del[d].deletable : object[i] \notin s3 \/ object[i] \in unremoved
  BY <1>1 DEF Objects, Deleting
<1>6. \A k \in Uploaded : place'[k] = "deleted" =>
          object'[k] \notin s3' \/ object'[k] \in unremoved'
  BY <1>1, <1>2, <1>5 DEF Objects, ObjectsFollowDocuments
<1>7. \A i \in del[d].deletable : place'[i] \in {"deleted", "purged"}
  BY <1>2 DEF Fresh, TypeOK, DeleteType
<1>8. ASSUME NEW lost \in Keys \ s3'
      PROVE  \E k \in Uploaded :
               /\ object'[k] = lost
               /\ \/ place'[k] \in {"deleted", "purged"}
                  \/ \E e \in Deletes : /\ del'[e].at \in {"s3", "db", "stopped"}
                                        /\ k \in del'[e].deletable \ del'[e].todo
  <2>1. PICK k \in Uploaded :
               /\ object[k] = lost
               /\ \/ place[k] \in {"deleted", "purged"}
                  \/ \E e \in Deletes : /\ del[e].at \in {"s3", "db", "stopped"}
                                        /\ k \in del[e].deletable \ del[e].todo
    BY <1>1 DEF Objects, ObjectsFollowDocuments
  <2>2. CASE place[k] \in {"deleted", "purged"}
    BY <1>1, <1>2, <2>1, <2>2
  <2>3. CASE \E e \in Deletes : /\ del[e].at \in {"s3", "db", "stopped"}
                                /\ k \in del[e].deletable \ del[e].todo
    BY <1>1, <1>3, <1>7, <2>1, <2>3
  <2> QED
    BY <2>1, <2>2, <2>3
<1> QED
  BY <1>4, <1>6, <1>8 DEF Objects, ObjectsFollowDocuments

\* Every step keeps objects and documents together.
LEMMA ObjectsStep == Objects /\ TypeOK /\ Slots /\ Fresh /\ [Next]_vars => Objects'
<1> SUFFICES ASSUME Objects, TypeOK, Slots, Fresh, [Next]_vars
             PROVE  Objects'
  OBVIOUS
<1> USE DEF documents, requests, history
<1>1. ASSUME UNCHANGED <<place, object, s3, unremoved, del>> PROVE Objects'
  BY <1>1, ObjectsFrame
<1>2. ASSUME NEW i \in Items, Create(i) PROVE Objects'
  <2>1. /\ place[i] = "new" /\ place' = [place EXCEPT ![i] = "stored"]
        /\ UNCHANGED <<object, s3, unremoved, del>>
    BY <1>2 DEF Create
  <2>2. \A k \in Items : \/ place'[k] = place[k]
                         \/ place[k] = "new" /\ place'[k] = "stored"
    BY <2>1 DEF TypeOK
  <2> QED
    BY <2>1, <2>2, ObjectsFrame
<1>3. ASSUME NEW i \in Items, CreateFromUpload(i) PROVE Objects'
  BY <1>3, UploadKeepsObjects
<1>4. CASE OrgDeleted
  <2>1. /\ \A k \in Items : \/ place'[k] = place[k]
                            \/ place[k] = "stored" /\ place'[k] = "purged"
        /\ UNCHANGED <<object, s3, unremoved, del>>
    BY <1>4 DEF OrgDeleted
  <2> QED
    BY <2>1, ObjectsFrame
<1>5. ASSUME NEW i \in Items, Publish(i) \/ Update(i) PROVE Objects'
  BY <1>1, <1>5 DEF Publish, Update
<1>6. ASSUME NEW r \in Reprocesses,
             \/ ReprocessRead(r)
             \/ \E i \in Items : ReprocessUpdate(r, i)
             \/ ReprocessPublish(r)
             \/ ReprocessStops(r)
      PROVE  Objects'
  BY <1>1, <1>6
  DEF ReprocessRead, ReprocessUpdate, ReprocessPublish, ReprocessStops
<1>7. ASSUME NEW d \in Deletes, DeleteRead(d) PROVE Objects'
  <2>1. /\ del[d].at = "new" /\ del'[d].at = "check"
        /\ \A e \in Deletes : e # d => del'[e] = del[e]
        /\ UNCHANGED <<place, object, s3, unremoved>>
    BY <1>7 DEF DeleteRead, TypeOK
  <2> QED
    BY <2>1, DeleteKeepsObjects
<1>8. ASSUME NEW d \in Deletes, NEW i \in Items, DeleteCheck(d, i) PROVE Objects'
  <2>1. /\ del[d].at = "check"
        /\ \A e \in Deletes : e # d => del'[e] = del[e]
        /\ UNCHANGED <<place, object, s3, unremoved>>
    BY <1>8 DEF DeleteCheck, TypeOK
  <2> QED
    BY <1>8, <2>1, CheckStep, DeleteKeepsObjects
<1>9. ASSUME NEW d \in Deletes, NEW i \in Items, DeleteObject(d, i) PROVE Objects'
  BY <1>9, RemovalKeepsObjects
<1>10. ASSUME NEW d \in Deletes, DeleteDocuments(d) PROVE Objects'
  BY <1>10, DocumentsKeepObjects
<1>11. ASSUME NEW d \in Deletes, DeleteStops(d) PROVE Objects'
  <2>1. /\ del[d].at \in {"check", "s3", "db"}
        /\ del'[d].at = "stopped" /\ del'[d].todo = {}
        /\ del[d].at \in {"s3", "db"} =>
              del'[d].deletable = del[d].deletable \ del[d].todo
        /\ \A e \in Deletes : e # d => del'[e] = del[e]
        /\ UNCHANGED <<place, object, s3, unremoved>>
    BY <1>11 DEF DeleteStops, NewDelete, TypeOK
  <2> QED
    BY <2>1, DeleteKeepsObjects
<1>12. ASSUME NEW w \in Workers,
              \/ \E i \in Items : Receive(w, i)
              \/ GetById(w) \/ Activate(w) \/ SetProcessing(w) \/ Download(w)
              \/ Candidates(w) \/ Lookup(w) \/ Record(w) \/ Extract(w)
              \/ Summarize(w) \/ Finish(w) \/ Report(w) \/ Raises(w)
              \/ Failed(w) \/ Crash(w)
       PROVE  Objects'
  <2>1. UNCHANGED <<place, object, s3, unremoved, del>>
    BY <1>12 DEF Receive, GetById, Activate, SetProcessing, Download, Candidates,
                 Lookup, Record, Extract, Summarize, Finish, Report, Raises,
                 Failed, Crash
  <2> QED
    BY <1>1, <2>1
<1>13. CASE UNCHANGED vars
  BY <1>1, <1>13 DEF vars
<1> QED
  BY <1>2, <1>3, <1>4, <1>5, <1>6, <1>7, <1>8, <1>9, <1>10, <1>11, <1>12, <1>13
  DEF Next, Serve, Work, Clients, Failures

\* An execution that goes on keeps its item.
LEMMA StillGoing ==
  ASSUME TypeOK, NEW w \in Workers, NEW at, Goto(w, at)
  PROVE  /\ exec'[w].item = exec[w].item
         /\ exec'[w].at = at
         /\ \A v \in Workers : v # w => exec'[v] = exec[v]
<1>1. exec[w] \in SlotType
  BY DEF TypeOK
<1> QED
  BY <1>1 DEF Goto, SlotType, TypeOK

\* Every step without fault keeps items that read processing awaited.
LEMMA AwaitedStep == "processing" \notin StatusUpdates /\ StillAwaited /\ TypeOK /\ Slots /\ Fresh /\ [Next]_vars => StillAwaited'
<1> SUFFICES ASSUME "processing" \notin StatusUpdates, StillAwaited, TypeOK, Slots, Fresh, [Next]_vars
             PROVE  StillAwaited'
  OBVIOUS
<1>1. ASSUME NEW i \in Items, Create(i) PROVE StillAwaited'
  BY <1>1 DEF Create, TypeOK, StillAwaited, Stored, requests
<1>2. ASSUME NEW i \in Items, CreateFromUpload(i) PROVE StillAwaited'
  BY <1>2 DEF CreateFromUpload, TypeOK, Slots, Fresh, StillAwaited, Stored
<1>3. ASSUME NEW i \in Items, Publish(i) PROVE StillAwaited'
  BY <1>3 DEF Publish, Fault, TypeOK, StillAwaited, Stored, documents
<1>4. ASSUME NEW i \in Items, Update(i) PROVE StillAwaited'
  BY <1>4 DEF Update, SetStatus, StillAwaited, Stored, requests
<1>5. ASSUME NEW r \in Reprocesses, ReprocessRead(r) PROVE StillAwaited'
  BY <1>5 DEF ReprocessRead, Stored, TypeOK, StillAwaited, documents
<1>6. ASSUME NEW r \in Reprocesses, NEW i \in Items, ReprocessUpdate(r, i) PROVE StillAwaited'
  BY <1>6 DEF ReprocessUpdate, SetStatus, TypeOK, StillAwaited, Stored
<1>7. ASSUME NEW r \in Reprocesses, ReprocessPublish(r) PROVE StillAwaited'
  BY <1>7 DEF ReprocessPublish, TypeOK, StillAwaited, Stored, documents
<1>8. ASSUME NEW r \in Reprocesses, ReprocessStops(r) PROVE StillAwaited'
  BY <1>8 DEF ReprocessStops, Fault, NewReprocess, TypeOK, StillAwaited
<1>9. ASSUME NEW d \in Deletes, DeleteRead(d) PROVE StillAwaited'
  BY <1>9 DEF DeleteRead, Stored, StillAwaited, documents
<1>10. ASSUME NEW d \in Deletes, NEW i \in Items, DeleteCheck(d, i)
       PROVE  StillAwaited'
  <2>1. UNCHANGED <<documents, queue, rep, exec, faults>>
    BY <1>10 DEF DeleteCheck
  <2> QED
    BY <2>1 DEF StillAwaited, Stored, documents
<1>11. ASSUME NEW d \in Deletes, NEW i \in Items, DeleteObject(d, i) PROVE StillAwaited'
  BY <1>11 DEF DeleteObject, Fault, TypeOK, StillAwaited, Stored, documents
<1>12. ASSUME NEW d \in Deletes, DeleteDocuments(d) PROVE StillAwaited'
  BY <1>12 DEF DeleteDocuments, StillAwaited, Stored
<1>13. ASSUME NEW d \in Deletes, DeleteStops(d) PROVE StillAwaited'
  BY <1>13 DEF DeleteStops, Fault, NewDelete, TypeOK, StillAwaited
<1>14. ASSUME NEW w \in Workers, NEW i \in Items, Receive(w, i) PROVE StillAwaited'
  BY <1>14 DEF Receive, TypeOK, StillAwaited, Stored, documents, requests
<1>15. ASSUME NEW w \in Workers, GetById(w) PROVE StillAwaited'
  BY <1>15 DEF GetById, Goto, StillAwaited, Stored, documents, requests
<1>16. ASSUME NEW w \in Workers, Activate(w) PROVE StillAwaited'
  BY <1>16 DEF Activate, SetStatus, Goto, TypeOK, StillAwaited, Stored,
       requests
<1>17. ASSUME NEW w \in Workers, SetProcessing(w) PROVE StillAwaited'
  BY <1>17 DEF SetProcessing, SetStatus, Goto, StillAwaited, Stored,
       requests
<1>18. ASSUME NEW w \in Workers, Download(w) PROVE StillAwaited'
  <2>1. faults' = 0 => faults = 0
    BY <1>18 DEF Download, Fault, TypeOK
  <2>2. PICK at \in {"candidates", "failed"} : Goto(w, at)
    BY <1>18 DEF Download
  <2> QED
    BY <1>18, <2>1, <2>2, StillGoing
    DEF Download, StillAwaited, Stored, documents, requests
<1>19. ASSUME NEW w \in Workers, Candidates(w) PROVE StillAwaited'
  <2>1. PICK at \in {"lookup", "record"} : Goto(w, at)
    BY <1>19 DEF Candidates
  <2> QED
    BY <1>19, <2>1, StillGoing
    DEF Candidates, StillAwaited, Stored, documents, requests
<1>20. ASSUME NEW w \in Workers, Lookup(w) PROVE StillAwaited'
  <2>1. /\ exec'[w].item = exec[w].item
        /\ exec'[w].at = "record"
        /\ \A v \in Workers : v # w => exec'[v] = exec[v]
    <3>1. exec[w] \in SlotType
      BY DEF TypeOK
    <3> QED
      BY <1>20, <3>1 DEF Lookup, Goto, SlotType, TypeOK
  <2> QED
    BY <1>20, <2>1 DEF Lookup, StillAwaited, Stored, documents, requests
<1>21. ASSUME NEW w \in Workers, Record(w) PROVE StillAwaited'
  BY <1>21 DEF Record, TypeOK, StillAwaited, Stored, requests
<1>22. ASSUME NEW w \in Workers, Extract(w) PROVE StillAwaited'
  BY <1>22 DEF Extract, Goto, StillAwaited, Stored, documents, requests
<1>23. ASSUME NEW w \in Workers, Summarize(w) PROVE StillAwaited'
  BY <1>23 DEF Summarize, Goto, StillAwaited, Stored, documents, requests
<1>24. ASSUME NEW w \in Workers, Finish(w) PROVE StillAwaited'
  BY <1>24 DEF Finish, SetStatus, Goto, TypeOK, StillAwaited, Stored,
       requests
<1>25. ASSUME NEW w \in Workers, Report(w) PROVE StillAwaited'
  BY <1>25 DEF Report, StillAwaited, Stored, documents, requests
<1>26. ASSUME NEW w \in Workers, Raises(w) PROVE StillAwaited'
  BY <1>26 DEF Raises, Fault, TypeOK, StillAwaited
<1>27. ASSUME NEW w \in Workers, Failed(w) PROVE StillAwaited'
  BY <1>27 DEF Failed, SetStatus, Fault, IdleSlot, TypeOK, StillAwaited,
       Stored, requests
<1>28. ASSUME NEW w \in Workers, Crash(w) PROVE StillAwaited'
  BY <1>28 DEF Crash, Fault, IdleSlot, TypeOK, StillAwaited
<1>29. CASE OrgDeleted
  BY <1>29 DEF OrgDeleted, StillAwaited, Stored, requests
<1>30. CASE UNCHANGED vars
  BY <1>30 DEF vars, documents, requests, history, TypeOK, Slots, Fresh, WithFile, Recorded, StillAwaited, Stored
<1> QED
  BY <1>1, <1>2, <1>3, <1>4, <1>5, <1>6, <1>7, <1>8, <1>9, <1>10, <1>11, <1>12, <1>13, <1>14, <1>15, <1>16, <1>17, <1>18, <1>19, <1>20, <1>21, <1>22, <1>23, <1>24, <1>25, <1>26, <1>27, <1>28, <1>29, <1>30
  DEF Next, Serve, Work, Clients, Failures

----------------------------------------------------------------------------
(***************************************************************************)
(* The theorems.                                                            *)
(***************************************************************************)
\* The invariant holds initially.
LEMMA IInvInit == Init => IInv
<1> SUFFICES ASSUME Init PROVE IInv
  OBVIOUS
<1>1. Slots
  BY DEF Init, Slots, IdleSlot, WithFile, Recorded
<1>2. Fresh
  BY DEF Init, Fresh, NewReprocess, NewDelete
<1> QED
  BY <1>1, <1>2, TypeInit DEF IInv

\* The invariant is inductive.
LEMMA IInvStep == IInv /\ [Next]_vars => IInv'
  BY TypeStep, SlotsStep, FreshStep DEF IInv

\* References to documents are sound in every reachable state: executions and
\* requests only touch documents that were inserted.
THEOREM Inductive == Spec => []IInv
  BY IInvInit, IInvStep, PTL DEF Spec

\* Every variable keeps its type, for any number of items, slots and requests.
THEOREM TypeCorrect == Spec => []TypeOK
<1>1. IInv => TypeOK
  BY DEF IInv
<1> QED
  BY <1>1, Inductive, PTL

\* An uploaded item that reads "active" has its hash and no error, however many
\* executions of it overlap and whatever raises or stops, unless users set the
\* status "active" themselves.
THEOREM ActiveStaysClean ==
  ASSUME "active" \notin StatusUpdates
  PROVE  Spec => []ActiveIsClean
<1>1. Init => ActiveIsClean
  BY DEF Init, ActiveIsClean, Stored
<1>2. IInv /\ ActiveIsClean /\ [Next]_vars => ActiveIsClean'
  BY CleanStep DEF IInv
<1> QED
  BY <1>1, <1>2, Inductive, PTL DEF Spec

\* Whatever deletes, purges, reprocesses and executions overlap, raise and stop:
\* a request that deletes a document leaves its object only if delete_object
\* raised, and an object goes only with a delete of an item that names it.
THEOREM ObjectsGoWithDocuments == Spec => []ObjectsFollowDocuments
<1>1. Init => Objects
  BY DEF Init, NewDelete, Objects, Deleting, ObjectsFollowDocuments
<1>2. IInv /\ Objects /\ [Next]_vars => Objects'
  BY ObjectsStep DEF IInv
<1>3. Objects => ObjectsFollowDocuments
  BY DEF Objects
<1> QED
  BY <1>1, <1>2, <1>3, Inductive, PTL DEF Spec

\* As long as nothing raises and no process stops, an item that reads
\* "processing" has an execution, a message or a reprocess request on its way,
\* unless users set the status "processing" themselves.
THEOREM ProcessingStaysAwaited ==
  ASSUME "processing" \notin StatusUpdates
  PROVE  Spec => []ProcessingIsAwaited
<1>1. Init => StillAwaited
  BY DEF Init, StillAwaited, Stored
<1>2. IInv /\ StillAwaited /\ [Next]_vars => StillAwaited'
  BY AwaitedStep DEF IInv
<1>3. StillAwaited => ProcessingIsAwaited
  BY DEF StillAwaited, ProcessingIsAwaited, Awaited
<1> QED
  BY <1>1, <1>2, <1>3, Inductive, PTL DEF Spec

----------------------------------------------------------------------------
(***************************************************************************)
(* The clusters of equal files, in any number of worker slots.              *)
(***************************************************************************)
\* An execution of k overlapped with one of another item, or of k itself.
RanInto(k, seen) == \E j \in Items : {j, k} \in seen

\* What executions about to record have found.  An original is one still, or
\* an execution that overlapped made it a duplicate.  If none was found, each
\* original that is there was recorded meanwhile, by an execution that
\* overlapped.  If i is an original that is about to become a duplicate, there
\* were two.
FoundHolds ==
    \A w \in Workers :
        LET i == exec[w].item
            found == exec[w].found
        IN
        /\ exec[w].at # "record" => found = None
        /\ exec[w].at = "record" /\ found # None =>
              /\ found \in hashed \ {i}
              /\ found \in Sized /\ IsDuplicate(found) => RanInto(found, overlaps)
              /\ i \in Stored \cap hashed \cap Sized => IsDuplicate(i) \/ RanInto(i, overlaps)
        /\ exec[w].at = "record" /\ found = None /\ i \in Stored =>
              \A k \in (Stored \cap hashed) \ {i} :
                  Content[k] = Content[i] /\ {i, k} \cap Sized # {} =>
                      IsDuplicate(k) \/ {i, k} \in overlaps

\* Executions that are about to record at the same time overlap.
Together ==
    \A v, w \in Workers :
        v # w /\ exec[v].at = "record" /\ exec[w].at = "record" =>
            {exec[v].item, exec[w].item} \in overlaps

\* Hashes are of inserted documents, and duplicates point at hashed ones.
HashedInserted ==
    /\ \A i \in hashed : place[i] # "new"
    /\ \A i \in Items : IsDuplicate(i) => original[i] \in hashed

\* The two parts of OneOriginalPerContent; the second one is inductive only if
\* documents that are gone count too.
OneOriginal ==
    \A i, k \in Stored \cap hashed :
        i # k /\ Content[i] = Content[k] /\ {i, k} \cap Sized # {} =>
            IsDuplicate(i) \/ IsDuplicate(k) \/ {i, k} \in overlaps

NoChains ==
    \A i \in Items, k \in Sized :
        original[i] = k /\ IsDuplicate(k) => RanInto(k, overlaps)

Clusters == OneOriginal /\ NoChains /\ FoundHolds /\ Together /\ HashedInserted

\* Steps that record nothing and send nobody to "record" keep the clusters:
\* documents only come without a hash, or go.
LEMMA ClustersFrame ==
  ASSUME Clusters, UNCHANGED <<hashed, original>>, overlaps \subseteq overlaps',
         \A i \in Items : /\ i \in hashed /\ place'[i] = "stored" => place[i] = "stored"
                          /\ place[i] # "new" => place'[i] # "new"
                          /\ place[i] # "new" /\ place'[i] = "stored" => place[i] = "stored",
         \A w \in Workers : \/ exec'[w] = exec[w]
                            \/ exec'[w].at # "record" /\ exec'[w].found = None,
         hashed \subseteq Items,
         \A w \in Workers : exec[w].at = "record" => exec[w].item \in Items /\ place[exec[w].item] # "new"
  PROVE  Clusters'
<1>1. Stored' \cap hashed \subseteq Stored \cap hashed
  BY DEF Stored
<1>2. \A i \in Items : IsDuplicate(i)' <=> IsDuplicate(i)
  BY DEF IsDuplicate
<1>3. \A k : RanInto(k, overlaps) => RanInto(k, overlaps')
  BY DEF RanInto
<1>4. OneOriginal'
  BY <1>1 DEF Clusters, OneOriginal, IsDuplicate
<1>5. NoChains'
  BY <1>3 DEF Clusters, NoChains, IsDuplicate
<1>6. HashedInserted'
  BY <1>2 DEF Clusters, HashedInserted
<1>7. ASSUME NEW w \in Workers, exec'[w].at = "record"
      PROVE  /\ exec'[w] = exec[w] /\ exec[w].at = "record"
             /\ exec[w].item \in Stored' => exec[w].item \in Stored
  BY <1>7 DEF Stored
<1>8. Together'
  BY <1>7 DEF Clusters, Together
<1>9. ASSUME NEW w \in Workers, exec'[w].at = "record", exec[w].found # None
      PROVE  /\ exec[w].found \in hashed \ {exec[w].item}
             /\ exec[w].found \in Sized /\ IsDuplicate(exec[w].found)' => RanInto(exec[w].found, overlaps')
             /\ exec[w].item \in Stored' \cap hashed \cap Sized =>
                  IsDuplicate(exec[w].item)' \/ RanInto(exec[w].item, overlaps')
  <2> DEFINE i == exec[w].item
             found == exec[w].found
  <2>1. /\ found \in hashed \ {i}
        /\ found \in Sized /\ IsDuplicate(found) => RanInto(found, overlaps)
        /\ i \in Stored \cap hashed \cap Sized => IsDuplicate(i) \/ RanInto(i, overlaps)
    BY <1>7, <1>9 DEF Clusters, FoundHolds
  <2> QED
    BY <1>3, <1>7, <1>9, <2>1 DEF IsDuplicate, RanInto
<1>10. ASSUME NEW w \in Workers, exec'[w].at = "record", exec[w].found = None,
              exec[w].item \in Stored', NEW k \in (Stored' \cap hashed) \ {exec[w].item},
              Content[k] = Content[exec[w].item], {exec[w].item, k} \cap Sized # {}
       PROVE  IsDuplicate(k)' \/ {exec[w].item, k} \in overlaps'
  <2>1. IsDuplicate(k) \/ {exec[w].item, k} \in overlaps
    BY <1>1, <1>7, <1>10 DEF Clusters, FoundHolds
  <2> QED
    BY <2>1 DEF IsDuplicate
<1>11. ASSUME NEW w \in Workers, exec'[w].at # "record" PROVE exec'[w].found = None
  BY <1>11 DEF Clusters, FoundHolds
<1>12. FoundHolds'
  BY <1>7, <1>9, <1>10, <1>11 DEF FoundHolds
<1> QED
  BY <1>4, <1>5, <1>6, <1>8, <1>12 DEF Clusters

\* A slot goes to Record with an answer that holds now, and notes whom it
\* overlaps: the clusters hold on.
LEMMA AnswerStep ==
  ASSUME Clusters, TypeOK, Slots, NEW w \in Workers, exec[w].at # "record",
         exec[w].at # "idle", NoteOverlaps(w),
         UNCHANGED documents,
         \A v \in Workers \ {w} : exec'[v] = exec[v],
         exec'[w].at = "record", exec'[w].item = exec[w].item,
         NEW i, NEW found, i = exec[w].item, found = exec'[w].found,
         found # None =>
            /\ found \in hashed \ {i}
            /\ ~ IsDuplicate(found)
            /\ i \in Stored \cap hashed \cap Sized => IsDuplicate(i) \/ RanInto(i, overlaps),
         found = None /\ i \in Stored =>
            \A k \in (Stored \cap hashed) \ {i} :
                Content[k] = Content[i] /\ {i, k} \cap Sized # {} =>
                    IsDuplicate(k) \/ {i, k} \in overlaps
  PROVE  Clusters'
<1>1. /\ overlaps \subseteq overlaps'
      /\ \A v \in Workers : exec[v].at = "record" => {i, exec[v].item} \in overlaps'
  BY DEF NoteOverlaps
<1>2. UNCHANGED <<place, hashed, original>> /\ Stored' = Stored
  BY DEF documents, Stored
<1>3. \A k : RanInto(k, overlaps) => RanInto(k, overlaps')
  BY <1>1 DEF RanInto
<1>4. \A k : IsDuplicate(k)' <=> IsDuplicate(k)
  BY <1>2 DEF IsDuplicate
<1>5. OneOriginal'
  BY <1>1, <1>2 DEF Clusters, OneOriginal, IsDuplicate
<1>6. NoChains'
  BY <1>2, <1>3 DEF Clusters, NoChains, IsDuplicate
<1>7. HashedInserted'
  BY <1>2 DEF Clusters, HashedInserted, IsDuplicate
<1>8. Together'
  <2>1. ASSUME NEW u \in Workers, NEW v \in Workers, u # v,
               exec'[u].at = "record", exec'[v].at = "record"
        PROVE  {exec'[u].item, exec'[v].item} \in overlaps'
    <3>1. CASE u = w
      BY <1>1, <2>1, <3>1
    <3>2. CASE v = w
      <4>1. {i, exec[u].item} \in overlaps'
        BY <1>1, <2>1, <3>2
      <4>2. {i, exec[u].item} = {exec'[u].item, exec'[v].item}
        BY <2>1, <3>2
      <4> QED
        BY <4>1, <4>2
    <3>3. CASE u # w /\ v # w
      BY <1>1, <2>1, <3>3 DEF Clusters, Together
    <3> QED
      BY <3>1, <3>2, <3>3
  <2> QED
    BY <2>1 DEF Together
<1>9. ASSUME NEW v \in Workers
      PROVE  /\ exec'[v].at # "record" => exec'[v].found = None
             /\ exec'[v].at = "record" /\ exec'[v].found # None =>
                  /\ exec'[v].found \in hashed \ {exec'[v].item}
                  /\ exec'[v].found \in Sized /\ IsDuplicate(exec'[v].found) => RanInto(exec'[v].found, overlaps')
                  /\ exec'[v].item \in Stored \cap hashed \cap Sized =>
                        IsDuplicate(exec'[v].item) \/ RanInto(exec'[v].item, overlaps')
             /\ exec'[v].at = "record" /\ exec'[v].found = None /\ exec'[v].item \in Stored =>
                  \A k \in (Stored \cap hashed) \ {exec'[v].item} :
                      Content[k] = Content[exec'[v].item] /\ {exec'[v].item, k} \cap Sized # {} =>
                          IsDuplicate(k) \/ {exec'[v].item, k} \in overlaps'
  <2>1. CASE v = w
    BY <1>1, <1>3, <2>1
  <2>2. CASE v # w
    <3>1. exec'[v] = exec[v]
      BY <2>2
    <3>2. PICK e : e = exec[v]
      OBVIOUS
    <3>3. /\ e.at # "record" => e.found = None
          /\ e.at = "record" /\ e.found # None =>
                  /\ e.found \in hashed \ {e.item}
                  /\ e.found \in Sized /\ IsDuplicate(e.found) => RanInto(e.found, overlaps)
                  /\ e.item \in Stored \cap hashed \cap Sized =>
                        IsDuplicate(e.item) \/ RanInto(e.item, overlaps)
          /\ e.at = "record" /\ e.found = None /\ e.item \in Stored =>
                  \A k \in (Stored \cap hashed) \ {e.item} :
                      Content[k] = Content[e.item] /\ {e.item, k} \cap Sized # {} =>
                          IsDuplicate(k) \/ {e.item, k} \in overlaps
      BY <3>2 DEF Clusters, FoundHolds
    <3>4. exec'[v] = e
      BY <3>1, <3>2
    <3>5. /\ RanInto(e.found, overlaps) => RanInto(e.found, overlaps')
          /\ RanInto(e.item, overlaps) => RanInto(e.item, overlaps')
      BY <3>2, <1>1 DEF RanInto
    <3> QED
      BY <1>1, <3>3, <3>4, <3>5
  <2> QED
    BY <2>1, <2>2
<1>10. FoundHolds'
  BY <1>2, <1>9 DEF FoundHolds, IsDuplicate, RanInto
<1> QED
  BY <1>5, <1>6, <1>7, <1>8, <1>10 DEF Clusters

\* A lookup finds an original other than the item itself; if it finds none,
\* every original is the item or overlapped with it.
LEMMA LookupStep ==
  ASSUME Clusters, TypeOK, Slots, NEW w \in Workers, Lookup(w)
  PROVE  Clusters'
<1>0. PICK i : i = exec[w].item
  OBVIOUS
<1> USE <1>0
<1>1. /\ exec[w].at = "lookup" /\ exec[w].found = None
      /\ UNCHANGED documents /\ NoteOverlaps(w)
  BY DEF Lookup, Clusters, FoundHolds
<1>2. exec \in [Workers -> SlotType] /\ hashed \subseteq Items /\ i \in Items
  BY <1>1 DEF TypeOK, Slots
<1>3. \A v \in Workers \ {w} : exec'[v] = exec[v]
  BY <1>2 DEF Lookup, Goto
<1>4. PICK found \in Items \cup {None} :
          /\ exec'[w].at = "record" /\ exec'[w].item = i /\ exec'[w].found = found
          /\ \/ found \in Matches(i) \ {i}
             \/ found = None /\ (Matches(i) = {} \/ i \in Matches(i))
  <2>1. CASE Matches(i) = {} /\ Goto(w, "record")
    BY <1>1, <1>2, <2>1 DEF Goto, SlotType
  <2>2. CASE \E k \in Matches(i) :
               exec' = [exec EXCEPT ![w].at = "record", ![w].found = IF k = i THEN None ELSE k]
    <3>1. PICK k \in Matches(i) :
               exec' = [exec EXCEPT ![w].at = "record", ![w].found = IF k = i THEN None ELSE k]
      BY <2>2
    <3>2. k \in Items
      BY <1>2 DEF Matches
    <3>3. /\ exec'[w].at = "record" /\ exec'[w].item = i
          /\ exec'[w].found = IF k = i THEN None ELSE k
      BY <1>2, <3>1 DEF SlotType
    <3> QED
      BY <3>1, <3>2, <3>3
  <2> QED
    BY <2>1, <2>2 DEF Lookup
<1>5. \A k \in Stored \cap hashed, j \in Stored \cap hashed :
          j # k /\ Content[j] = Content[k] /\ {j, k} \cap Sized # {} =>
              IsDuplicate(j) \/ IsDuplicate(k) \/ {j, k} \in overlaps
  BY DEF Clusters, OneOriginal
<1>6. ASSUME found # None
      PROVE  /\ found \in hashed \ {i} /\ ~ IsDuplicate(found)
             /\ i \in Stored \cap hashed \cap Sized => IsDuplicate(i) \/ RanInto(i, overlaps)
  <2>1. /\ found \in Stored \cap hashed /\ found # i /\ ~ IsDuplicate(found)
        /\ Content[found] = Content[i]
    BY <1>4, <1>6 DEF Matches
  <2>2. ASSUME i \in Stored \cap hashed \cap Sized, ~ IsDuplicate(i)
        PROVE  RanInto(i, overlaps)
    <3>1. {found, i} \cap Sized # {}
      BY <2>2
    <3>2. {found, i} \in overlaps
      BY <1>5, <2>1, <2>2, <3>1
    <3> QED
      BY <1>2, <2>1, <3>2 DEF RanInto
  <2> QED
    BY <2>1, <2>2
<1>7. ASSUME found = None, i \in Stored, NEW k \in (Stored \cap hashed) \ {i},
             Content[k] = Content[i], {i, k} \cap Sized # {}
      PROVE  IsDuplicate(k) \/ {i, k} \in overlaps
  <2>1. CASE Matches(i) = {}
    BY <1>7, <2>1 DEF Matches
  <2>2. CASE i \in Matches(i)
    <3>1. i \in Stored \cap hashed /\ ~ IsDuplicate(i)
      BY <2>2 DEF Matches
    <3> QED
      BY <1>5, <1>7, <3>1
  <2>3. None \notin Matches(i)
    BY ItemAssumption DEF Matches, Stored
  <2>4. Matches(i) = {} \/ i \in Matches(i)
    BY <1>4, <1>7, <2>3
  <2> QED
    BY <2>1, <2>2, <2>4
<1>8. exec[w].at # "record" /\ exec[w].at # "idle"
  BY <1>1
<1>9. exec'[w].item = exec[w].item /\ exec'[w].at = "record" /\ found = exec'[w].found
  BY <1>4
<1>10. found = None /\ i \in Stored =>
         \A k \in (Stored \cap hashed) \ {i} :
                Content[k] = Content[i] /\ {i, k} \cap Sized # {} =>
                    IsDuplicate(k) \/ {i, k} \in overlaps
  BY <1>7
<1> QED
  BY <1>1, <1>3, <1>6, <1>8, <1>9, <1>10, AnswerStep

\* An execution that skips the lookup works on an item that is gone, or no item
\* of known size is there.
LEMMA CandidatesStep ==
  ASSUME Clusters, TypeOK, Slots, NEW w \in Workers, Candidates(w)
  PROVE  Clusters'
<1>0. PICK i : i = exec[w].item
  OBVIOUS
<1> USE <1>0
<1>1. /\ exec[w].at = "candidates" /\ exec[w].found = None
      /\ i \in Items /\ UNCHANGED documents
  BY DEF Candidates, Clusters, FoundHolds, Slots
<1>2. exec \in [Workers -> SlotType]
  BY DEF TypeOK
<1>3. CASE Sized \cap Stored # {}
  <2>1. Goto(w, "lookup") /\ UNCHANGED overlaps
    BY <1>3 DEF Candidates
  <2>2. \A v \in Workers : \/ exec'[v] = exec[v]
                           \/ exec'[v].at # "record" /\ exec'[v].found = None
    BY <1>1, <1>2, <2>1 DEF Goto, SlotType
  <2>3. UNCHANGED <<place, hashed, original>>
    BY <1>1 DEF documents
  <2>4. /\ hashed \subseteq Items
        /\ \A v \in Workers : exec[v].at = "record" =>
              exec[v].item \in Items /\ place[exec[v].item] # "new"
    BY DEF TypeOK, Slots
  <2> QED
    BY <2>1, <2>2, <2>3, <2>4, ClustersFrame
<1>4. CASE Sized \cap Stored = {}
  <2>1. Goto(w, "record") /\ NoteOverlaps(w)
    BY <1>4 DEF Candidates
  <2>2. /\ \A v \in Workers \ {w} : exec'[v] = exec[v]
        /\ exec'[w].at = "record" /\ exec'[w].item = exec[w].item /\ exec'[w].found = None
    BY <1>1, <1>2, <2>1 DEF Goto, SlotType
  <2>3. i \in Stored => \A k \in (Stored \cap hashed) \ {i} : {i, k} \cap Sized = {}
    BY <1>4
  <2>4. exec[w].at # "record" /\ exec[w].at # "idle"
    BY <1>1
  <2> HIDE <1>0
  <2> DEFINE found == None
  <2>5. found = exec'[w].found
    BY <2>2
  <2>6. found # None =>
            /\ found \in hashed \ {i}
            /\ ~ IsDuplicate(found)
            /\ i \in Stored \cap hashed \cap Sized => IsDuplicate(i) \/ RanInto(i, overlaps)
    OBVIOUS
  <2>7. found = None /\ i \in Stored =>
            \A k \in (Stored \cap hashed) \ {i} :
                Content[k] = Content[i] /\ {i, k} \cap Sized # {} =>
                    IsDuplicate(k) \/ {i, k} \in overlaps
    BY <2>3
  <2> HIDE DEF found
  <2> QED
    BY <1>0, <1>1, <2>1, <2>2, <2>4, <2>5, <2>6, <2>7, AnswerStep
<1> QED
  BY <1>3, <1>4

\* Recording an answer that holds keeps the clusters.
LEMMA RecordStep ==
  ASSUME Clusters, TypeOK, Slots, NEW w \in Workers, Record(w)
  PROVE  Clusters'
<1>0. PICK i, found : i = exec[w].item /\ found = exec[w].found
  OBVIOUS
<1> USE <1>0
<1>1. /\ exec[w].at = "record" /\ place' = place /\ overlaps' = overlaps
      /\ i \in Items /\ place[i] # "new"
  BY DEF Record, Slots, history
<1>2. /\ exec \in [Workers -> SlotType] /\ hashed \subseteq Items
      /\ original \in [Items -> Items \cup {None}] /\ found \in Items \cup {None}
  BY DEF TypeOK, SlotType
<1>3. /\ exec'[w].at = "extract" /\ exec'[w].found = None
      /\ \A v \in Workers \ {w} : exec'[v] = exec[v]
  BY <1>2 DEF Record, SlotType
<1>4. CASE place[i] # "stored"
  <2>1. UNCHANGED <<hashed, original>>
    BY <1>4 DEF Record
  <2>2. \A v \in Workers : \/ exec'[v] = exec[v]
                           \/ exec'[v].at # "record" /\ exec'[v].found = None
    BY <1>3
  <2>3. \A v \in Workers : exec[v].at = "record" =>
            exec[v].item \in Items /\ place[exec[v].item] # "new"
    BY DEF Slots
  <2> QED
    BY <1>1, <1>2, <2>1, <2>2, <2>3, ClustersFrame
<1>5. CASE place[i] = "stored"
  <2>1. /\ hashed' = hashed \cup {i} /\ original' = [original EXCEPT ![i] = found]
        /\ Stored' = Stored /\ i \in Stored
    BY <1>1, <1>5 DEF Record, Stored
  <2>2. /\ found # None =>
             /\ found \in hashed \ {i}
             /\ found \in Sized /\ IsDuplicate(found) => RanInto(found, overlaps)
             /\ i \in hashed \cap Sized => IsDuplicate(i) \/ RanInto(i, overlaps)
        /\ found = None =>
             \A k \in (Stored \cap hashed) \ {i} :
                 Content[k] = Content[i] /\ {i, k} \cap Sized # {} =>
                     IsDuplicate(k) \/ {i, k} \in overlaps
    BY <1>1, <2>1 DEF Clusters, FoundHolds
  <2>3. \A j \in Items \ {i} : original'[j] = original[j] /\ (IsDuplicate(j)' <=> IsDuplicate(j))
    BY <1>2, <2>1 DEF IsDuplicate
  <2>4. original'[i] = found /\ (IsDuplicate(i)' <=> found # None)
    BY <1>1, <1>2, <2>1 DEF IsDuplicate
  <2>5. HashedInserted'
    <3>1. \A j \in hashed' : place'[j] # "new"
      BY <1>1, <2>1 DEF Clusters, HashedInserted
    <3>2. ASSUME NEW j \in Items, IsDuplicate(j)' PROVE original'[j] \in hashed'
      BY <2>1, <2>2, <2>3, <2>4, <3>2 DEF Clusters, HashedInserted
    <3> QED
      BY <3>1, <3>2 DEF HashedInserted
  <2>6. ASSUME NEW j \in Stored \cap hashed', NEW k \in Stored \cap hashed',
               j # k, Content[j] = Content[k], {j, k} \cap Sized # {}
        PROVE  IsDuplicate(j)' \/ IsDuplicate(k)' \/ {j, k} \in overlaps
    <3>1. j \in Items /\ k \in Items
      BY DEF Stored
    <3>2. CASE j # i /\ k # i
      BY <2>1, <2>3, <2>6, <3>1, <3>2 DEF Clusters, OneOriginal
    <3>3. CASE j = i
      BY <2>1, <2>2, <2>3, <2>4, <2>6, <3>1, <3>3
    <3>4. CASE k = i
      <4>1. {j, k} = {i, j}
        BY <3>4
      <4> QED
        BY <2>1, <2>2, <2>3, <2>4, <2>6, <3>1, <3>4, <4>1
    <3> QED
      BY <3>2, <3>3, <3>4
  <2>7. OneOriginal'
    BY <1>1, <2>1, <2>6 DEF OneOriginal
  <2>8. ASSUME NEW j \in Items, NEW k \in Sized, original'[j] = k, IsDuplicate(k)'
        PROVE  RanInto(k, overlaps)
    <3>1. k \in Items /\ k # None
      BY ItemAssumption
    <3>2. CASE j = i
      <4>1. found = k /\ k # i
        BY <2>2, <2>4, <2>8, <3>1, <3>2
      <4> QED
        BY <2>2, <2>3, <2>8, <3>1, <4>1
    <3>3. CASE j # i /\ k # i
      BY <2>3, <2>8, <3>1, <3>3 DEF Clusters, NoChains
    <3>4. CASE j # i /\ k = i
      <4>1. original[j] = i /\ IsDuplicate(j)
        BY <2>3, <2>8, <3>1, <3>4 DEF IsDuplicate
      <4>2. i \in hashed
        BY <3>1, <4>1 DEF Clusters, HashedInserted
      <4>3. CASE IsDuplicate(i)
        BY <2>8, <3>4, <4>1, <4>3 DEF Clusters, NoChains
      <4>4. CASE ~ IsDuplicate(i)
        BY <2>2, <2>4, <2>8, <3>4, <4>2, <4>4
      <4> QED
        BY <4>3, <4>4
    <3> QED
      BY <3>2, <3>3, <3>4
  <2>9. NoChains'
    BY <1>1, <2>8 DEF NoChains
  <2>10. ASSUME NEW v \in Workers, v # w, exec[v].at = "record"
         PROVE  /\ {exec[v].item, i} \in overlaps
                /\ exec[v].item \in Items
    BY <1>1, <2>10 DEF Clusters, Together, Slots
  <2>11. Together'
    BY <1>1, <1>3 DEF Clusters, Together
  <2>12. ASSUME NEW v \in Workers, v # w, exec[v].at = "record"
         PROVE  LET k == exec[v].item
                    his == exec[v].found
                IN
                /\ his # None =>
                     /\ his \in hashed' \ {k}
                     /\ his \in Sized /\ IsDuplicate(his)' => RanInto(his, overlaps)
                     /\ k \in Stored \cap hashed' \cap Sized =>
                           IsDuplicate(k)' \/ RanInto(k, overlaps)
                /\ his = None /\ k \in Stored =>
                     \A j \in (Stored \cap hashed') \ {k} :
                         Content[j] = Content[k] /\ {k, j} \cap Sized # {} =>
                             IsDuplicate(j)' \/ {k, j} \in overlaps
    <3>0. PICK k, his : k = exec[v].item /\ his = exec[v].found
      OBVIOUS
    <3>1. k \in Items /\ {k, i} \in overlaps
      BY <2>10, <2>12, <3>0
    <3>2. /\ his # None =>
               /\ his \in hashed \ {k}
               /\ his \in Sized /\ IsDuplicate(his) => RanInto(his, overlaps)
               /\ k \in Stored \cap hashed \cap Sized => IsDuplicate(k) \/ RanInto(k, overlaps)
          /\ his = None /\ k \in Stored =>
               \A j \in (Stored \cap hashed) \ {k} :
                   Content[j] = Content[k] /\ {k, j} \cap Sized # {} =>
                       IsDuplicate(j) \/ {k, j} \in overlaps
      BY <2>12, <3>0 DEF Clusters, FoundHolds
    <3>3. RanInto(i, overlaps)
      BY <3>1 DEF RanInto
    <3>4. ASSUME his # None, his \in Sized, IsDuplicate(his)' PROVE RanInto(his, overlaps)
      <4>1. CASE his = i
        BY <3>3, <4>1
      <4>2. CASE his # i
        BY <1>2, <2>3, <3>2, <3>4, <4>2
      <4> QED
        BY <4>1, <4>2
    <3>5. ASSUME his # None, k \in Stored \cap hashed' \cap Sized
          PROVE  IsDuplicate(k)' \/ RanInto(k, overlaps)
      <4>1. CASE k = i
        BY <3>3, <4>1
      <4>2. CASE k # i
        BY <2>1, <2>3, <3>1, <3>2, <3>5, <4>2
      <4> QED
        BY <4>1, <4>2
    <3>6. ASSUME his = None, k \in Stored, NEW j \in (Stored \cap hashed') \ {k},
                 Content[j] = Content[k], {k, j} \cap Sized # {}
          PROVE  IsDuplicate(j)' \/ {k, j} \in overlaps
      <4>1. CASE j = i
        BY <3>1, <4>1
      <4>2. CASE j # i
        BY <1>2, <2>1, <2>3, <3>2, <3>6, <4>2
      <4> QED
        BY <4>1, <4>2
    <3>7. his # None => his \in hashed' \ {k}
      BY <2>1, <3>2
    <3> QED
      BY <1>3, <2>12, <3>0, <3>4, <3>5, <3>6, <3>7 DEF IsDuplicate
  <2>13. ASSUME NEW v \in Workers, exec'[v].at # "record" PROVE exec'[v].found = None
    BY <1>3, <2>13 DEF Clusters, FoundHolds
  <2>14. ASSUME NEW v \in Workers, exec'[v].at = "record"
         PROVE  v # w /\ exec'[v] = exec[v]
    BY <1>3, <2>14
  <2>15. FoundHolds'
    <3>1. UNCHANGED <<Stored, overlaps>>
      BY <1>1, <2>1
    <3> QED
      BY <2>12, <2>13, <2>14, <3>1 DEF FoundHolds
  <2> QED
    BY <2>5, <2>7, <2>9, <2>11, <2>15 DEF Clusters
<1> QED
  BY <1>4, <1>5

\* Executions that go on to another call than Record note nothing.
LEMMA GotoElsewhere ==
  ASSUME Clusters, TypeOK, NEW w \in Workers, exec[w].at # "record",
         NEW at \in SlotPlaces \ {"record"}, Goto(w, at)
  PROVE  \A v \in Workers : \/ exec'[v] = exec[v]
                            \/ exec'[v].at # "record" /\ exec'[v].found = None
<1>1. exec[w].found = None /\ exec \in [Workers -> SlotType]
  BY DEF Clusters, FoundHolds, TypeOK
<1> QED
  BY <1>1 DEF Goto, SlotType

\* Steps that touch neither hashes nor places, and send nobody to Record.
LEMMA ClustersSlot ==
  ASSUME Clusters, TypeOK, Slots, UNCHANGED <<place, hashed, original, overlaps>>,
         \A w \in Workers : \/ exec'[w] = exec[w]
                            \/ exec'[w].at # "record" /\ exec'[w].found = None
  PROVE  Clusters'
<1>1. hashed \subseteq Items
  BY DEF TypeOK
<1>2. \A w \in Workers : exec[w].at = "record" =>
          exec[w].item \in Items /\ place[exec[w].item] # "new"
  BY DEF Slots
<1> QED
  BY <1>1, <1>2, ClustersFrame

\* Steps of requests, which leave the executions alone.
LEMMA ClustersPlace ==
  ASSUME Clusters, TypeOK, Slots, UNCHANGED <<hashed, original, overlaps, exec>>,
         \A i \in Items : /\ place[i] # "new" => place'[i] # "new"
                          /\ place[i] # "new" /\ place'[i] = "stored" => place[i] = "stored"
  PROVE  Clusters'
<1>1. hashed \subseteq Items
  BY DEF TypeOK
<1>2. \A w \in Workers : exec[w].at = "record" =>
          exec[w].item \in Items /\ place[exec[w].item] # "new"
  BY DEF Slots
<1>3. \A i \in Items : i \in hashed /\ place'[i] = "stored" => place[i] = "stored"
  BY DEF Clusters, HashedInserted
<1> QED
  BY <1>1, <1>2, <1>3, ClustersFrame

\* Every step keeps the clusters and the answers right.
LEMMA ClustersStep == Clusters /\ TypeOK /\ Slots /\ [Next]_vars => Clusters'
<1> SUFFICES ASSUME Clusters, TypeOK, Slots, [Next]_vars
             PROVE  Clusters'
  OBVIOUS
<1> USE DEF documents, history
<1>1. ASSUME NEW i \in Items, Create(i) \/ CreateFromUpload(i) PROVE Clusters'
  <2>1. /\ place[i] = "new" /\ place' = [place EXCEPT ![i] = "stored"]
        /\ UNCHANGED <<hashed, original, overlaps, exec>>
    BY <1>1 DEF Create, CreateFromUpload
  <2>2. \A k \in Items : /\ place[k] # "new" => place'[k] # "new"
                         /\ place[k] # "new" /\ place'[k] = "stored" => place[k] = "stored"
    BY <2>1 DEF TypeOK
  <2> QED
    BY <2>1, <2>2, ClustersPlace
<1>2. ASSUME NEW d \in Deletes, DeleteDocuments(d) PROVE Clusters'
  <2>1. /\ place' = [i \in Items |-> IF i \in del[d].deletable /\ place[i] = "stored"
                                     THEN "deleted" ELSE place[i]]
        /\ UNCHANGED <<hashed, original, overlaps, exec>>
    BY <1>2 DEF DeleteDocuments
  <2>2. \A k \in Items : /\ place[k] # "new" => place'[k] # "new"
                         /\ place[k] # "new" /\ place'[k] = "stored" => place[k] = "stored"
    BY <2>1
  <2> QED
    BY <2>1, <2>2, ClustersPlace
<1>3. ASSUME UNCHANGED <<place, hashed, original, overlaps, exec>> PROVE Clusters'
  BY <1>3, ClustersSlot
<1>4. ASSUME NEW i \in Items, Publish(i) \/ Update(i) PROVE Clusters'
  BY <1>3, <1>4 DEF Publish, Update
<1>5. ASSUME NEW r \in Reprocesses,
             \/ ReprocessRead(r)
             \/ \E i \in Items : ReprocessUpdate(r, i)
             \/ ReprocessPublish(r)
             \/ ReprocessStops(r)
      PROVE  Clusters'
  BY <1>3, <1>5
  DEF ReprocessRead, ReprocessUpdate, ReprocessPublish, ReprocessStops
<1>6. ASSUME NEW d \in Deletes,
             \/ DeleteRead(d)
             \/ \E i \in Items : DeleteCheck(d, i) \/ DeleteObject(d, i)
             \/ DeleteStops(d)
      PROVE  Clusters'
  BY <1>3, <1>6 DEF DeleteRead, DeleteCheck, DeleteObject, DeleteStops
<1>7. ASSUME NEW w \in Workers, NEW new,
             exec' = [exec EXCEPT ![w] = new], new.at # "record", new.found = None,
             UNCHANGED <<place, hashed, original, overlaps>>
      PROVE  Clusters'
  <2>1. \A v \in Workers : \/ exec'[v] = exec[v]
                           \/ exec'[v].at # "record" /\ exec'[v].found = None
    BY <1>7 DEF TypeOK
  <2> QED
    BY <1>7, <2>1, ClustersSlot
<1>8. ASSUME NEW w \in Workers, NEW i \in Items, Receive(w, i) PROVE Clusters'
  <2> DEFINE new == [at |-> "start", item |-> i, found |-> None]
  <2>1. exec' = [exec EXCEPT ![w] = new] /\ UNCHANGED <<place, hashed, original, overlaps>>
    BY <1>8 DEF Receive
  <2>2. new.at # "record" /\ new.found = None
    OBVIOUS
  <2> HIDE DEF new
  <2> QED
    BY <1>7, <2>1, <2>2
<1>9. ASSUME NEW w \in Workers, Report(w) \/ Failed(w) \/ Crash(w) PROVE Clusters'
  <2>1. exec' = [exec EXCEPT ![w] = IdleSlot] /\ UNCHANGED <<place, hashed, original, overlaps>>
    BY <1>9 DEF Report, Failed, Crash
  <2>2. IdleSlot.at # "record" /\ IdleSlot.found = None
    BY DEF IdleSlot
  <2> QED
    BY <1>7, <2>1, <2>2
<1>10. ASSUME NEW w \in Workers, Raises(w) PROVE Clusters'
  <2>1. exec' = [exec EXCEPT ![w] = [exec[w] EXCEPT !.at = "failed", !.found = None]]
    BY <1>10 DEF Raises, TypeOK
  <2>2. /\ [exec[w] EXCEPT !.at = "failed", !.found = None].at = "failed"
        /\ [exec[w] EXCEPT !.at = "failed", !.found = None].found = None
    BY DEF TypeOK, SlotType
  <2>3. UNCHANGED <<place, hashed, original, overlaps>>
    BY <1>10 DEF Raises
  <2> QED
    BY <1>7, <2>1, <2>2, <2>3
<1>11. ASSUME NEW w \in Workers, exec[w].at # "record",
              NEW at \in SlotPlaces \ {"record"}, Goto(w, at),
              UNCHANGED <<place, hashed, original, overlaps>>
       PROVE  Clusters'
  BY <1>11, GotoElsewhere, ClustersSlot
<1>12. ASSUME NEW w \in Workers,
              \/ GetById(w) \/ Activate(w) \/ SetProcessing(w) \/ Download(w)
              \/ Extract(w) \/ Summarize(w) \/ Finish(w)
       PROVE  Clusters'
  <2>1. /\ exec[w].at # "record"
        /\ UNCHANGED <<place, hashed, original, overlaps>>
        /\ \E at \in SlotPlaces \ {"record"} : Goto(w, at)
    BY <1>12 DEF GetById, Activate, SetProcessing, Download, Extract, Summarize,
                 Finish, SlotPlaces
  <2> QED
    BY <1>11, <2>1
<1>13. ASSUME NEW w \in Workers, Candidates(w) \/ Lookup(w) \/ Record(w)
       PROVE  Clusters'
  BY <1>13, CandidatesStep, LookupStep, RecordStep
<1>14. CASE OrgDeleted
  <2>1. UNCHANGED <<hashed, original, overlaps, exec>>
    BY <1>14 DEF OrgDeleted
  <2>2. \A k \in Items : /\ place[k] # "new" => place'[k] # "new"
                         /\ place[k] # "new" /\ place'[k] = "stored" => place[k] = "stored"
    BY <1>14 DEF OrgDeleted
  <2> QED
    BY <2>1, <2>2, ClustersPlace
<1>15. CASE UNCHANGED vars
  BY <1>3, <1>15 DEF vars
<1> QED
  BY <1>1, <1>2, <1>4, <1>5, <1>6, <1>8, <1>9, <1>10, <1>12, <1>13, <1>14,
     <1>15
  DEF Next, Serve, Work, Clients, Failures

\* The items of one content form a cluster around one original, for any number
\* of items, worker slots, requests, redeliveries and faults, but for items of
\* unknown size and those of which an execution looked for an original while
\* another one was about to record what it had found (tasks.py 59-77,
\* item_repository.py 27-40).
THEOREM OneOriginalRemains == Spec => []OneOriginalPerContent
<1>1. Init => Clusters
  BY DEF Init, IdleSlot, Clusters, OneOriginal, NoChains, FoundHolds, Together,
         HashedInserted, IsDuplicate, Stored
<1>2. IInv /\ Clusters /\ [Next]_vars => Clusters'
  BY ClustersStep DEF IInv
<1>3. Clusters => OneOriginalPerContent
  BY DEF Clusters, OneOriginal, NoChains, RanInto, Stored, OneOriginalPerContent
<1> QED
  BY <1>1, <1>2, <1>3, Inductive, PTL DEF Spec
=============================================================================
