---------------------------- MODULE TenancyProofs ----------------------------
(***************************************************************************)
(* Proofs about Tenancy: for any documents, organisations, headers, requests *)
(* and webhooks, any collections and any number of stops.                    *)
(***************************************************************************)
EXTENDS Tenancy, TLAPS

RequestStates ==
    [at : {"idle"} \cup Answers \cup Steps, op : Single \cup Bulk \cup {"create", "none"},
     user : Users \cup {NoUser}, ids : SUBSET Ids, found : SUBSET Ids]

HookStates ==
    [at : 0..Stopped, kind : {"user-deleted", "org-deleted", "none"},
     org : Orgs \cup {"none"}, user : UserIds \cup {"none"},
     to : UserIds \cup {"none"}, before : SUBSET Ids]

\* A request at work has an identified caller and an operation of its kind.
Caller(r) ==
    /\ req[r].at \in Steps => req[r].user \in Users
    /\ req[r].at = "get owned" => req[r].op \in Single /\ \E i \in Ids : req[r].ids = {i}
    /\ req[r].at = "get many" => req[r].op \in Bulk

Callers == \A r \in Requests : Caller(r)

\* What an update by id is about to write belongs to the caller's organisation,
\* if it is still there.
Checked ==
    \A r \in Requests, i \in Ids :
        \/ req[r].at = "update" /\ i \in req[r].ids
        \/ req[r].at = "reprocess" /\ i \in req[r].found
        => i \in used /\ (i \in Live => doc[i].org = req[r].user.org)

Recorded == \A i \in Ids \ used : doc[i] = NoDoc

Events ==
    \A h \in Hooks :
        /\ hook[h].before \subseteq used
        /\ hook[h].at = 0 <=> hook[h].kind = "none" /\ hook[h].at # Refused
        /\ hook[h].kind = "user-deleted" => hook[h].to \in UserIds /\ hook[h].org \in Orgs

\* The collections a webhook is through with.
Passed(h) == {OwnedModels[k] : k \in 1..hook[h].at - 1}

Purged ==
    \A h \in Hooks : hook[h].kind = "org-deleted" /\ hook[h].at \in 1..Done =>
        \A i \in hook[h].before \cap Live :
            doc[i].model \in Passed(h) => doc[i].org # hook[h].org

\* Some event gives its user's documents to the user of h.
Given(h) == \E g \in Hooks : hook[g].kind = "user-deleted" /\ hook[g].to = hook[h].user

Transferred ==
    \A h \in Hooks : hook[h].kind = "user-deleted" /\ hook[h].at \in 1..Done =>
        \A i \in hook[h].before \cap Live :
            /\ doc[i].model \in Passed(h)
            /\ doc[i].org = hook[h].org /\ doc[i].owner = hook[h].user
            => Given(h)

IInv == TypeOK /\ Callers /\ Checked /\ Recorded /\ Events /\ Purged /\ Transferred

----------------------------------------------------------------------------
(***************************************************************************)
(* Types and helpers.                                                       *)
(***************************************************************************)
LEMMA Collections ==
    /\ Len(OwnedModels) \in Nat /\ DOMAIN OwnedModels = 1..Len(OwnedModels)
    /\ \A k \in 1..Len(OwnedModels) : OwnedModels[k] \in Models
    /\ Done = Len(OwnedModels) + 1 /\ Refused = Len(OwnedModels) + 2
    /\ Stopped = Len(OwnedModels) + 3
<1>1. OwnedModels \in Seq(Models)
  BY ModelsAssumption
<1> QED
  BY <1>1 DEF Done, Refused, Stopped

LEMMA People ==
    /\ \A u \in Users : u.org \in Orgs /\ u.id \in UserIds
    /\ \A h \in Headers : Valid(h) => CurrentUser(h) \in Users
    /\ NoDoc \notin Documents
    /\ \A d \in Documents : d # NoDoc
BY OrgsAssumption DEF UserIds, Users, Documents, NoDoc, None

LEMMA Types ==
    ASSUME TypeOK
    PROVE /\ doc \in [Ids -> Documents \cup {NoDoc}]
          /\ req \in [Requests -> RequestStates]
          /\ hook \in [Hooks -> HookStates]
BY DEF TypeOK, RequestStates, HookStates

LEMMA Answered ==
    ASSUME TypeOK, NEW r \in Requests, NEW code \in Answers, Answer(r, code)
    PROVE /\ req' \in [Requests -> RequestStates]
          /\ \A s \in Requests \ {r} : req'[s] = req[s]
          /\ req'[r].at = code /\ code \notin Steps
<1>1. [NoRequest EXCEPT !.at = code] \in RequestStates
  BY DEF NoRequest, RequestStates
<1>2. req' = [req EXCEPT ![r] = [NoRequest EXCEPT !.at = code]]
  BY DEF Answer
<1>3. req \in [Requests -> RequestStates]
  BY Types
<1>4. [NoRequest EXCEPT !.at = code].at = code
  BY DEF NoRequest
<1>5. code \notin Steps
  BY DEF Answers, Steps, Single, Bulk
<1> QED
  BY <1>1, <1>2, <1>3, <1>4, <1>5

LEMMA Went ==
    ASSUME TypeOK, NEW r \in Requests, NEW at \in Steps, Goto(r, at)
    PROVE /\ req' \in [Requests -> RequestStates]
          /\ \A s \in Requests \ {r} : req'[s] = req[s]
          /\ req'[r].at = at /\ req'[r].op = req[r].op /\ req'[r].user = req[r].user
          /\ req'[r].ids = req[r].ids /\ req'[r].found = req[r].found
<1>1. req \in [Requests -> RequestStates]
  BY Types
<1>2. req' = [req EXCEPT ![r] = [req[r] EXCEPT !.at = at]]
  BY <1>1 DEF Goto
<1>3. ASSUME NEW q \in RequestStates
      PROVE  /\ [q EXCEPT !.at = at] \in RequestStates
             /\ [q EXCEPT !.at = at].at = at /\ [q EXCEPT !.at = at].op = q.op
             /\ [q EXCEPT !.at = at].user = q.user /\ [q EXCEPT !.at = at].ids = q.ids
             /\ [q EXCEPT !.at = at].found = q.found
  BY DEF RequestStates
<1>4. req[r] \in RequestStates
  BY <1>1
<1> HIDE DEF RequestStates
<1>5. req'[r] = [req[r] EXCEPT !.at = at] /\ \A s \in Requests \ {r} : req'[s] = req[s]
  BY <1>1, <1>2
<1>6. req' \in [Requests -> RequestStates]
  BY <1>1, <1>2, <1>3, <1>4
<1> QED
  BY <1>3, <1>4, <1>5, <1>6

\* What a write may make of a document: gone, or the same but for its owner and writer.
Kept(i) ==
    \/ doc'[i] = NoDoc
    \/ doc[i] # NoDoc /\ doc'[i].model = doc[i].model /\ doc'[i].org = doc[i].org

LEMMA UpdatedDocs ==
    ASSUME TypeOK, NEW ids, NEW by \in Orgs, doc' = Updated(ids, by)
    PROVE /\ doc' \in [Ids -> Documents \cup {NoDoc}]
          /\ \A i \in Ids : Kept(i) /\ doc'[i].owner = doc[i].owner
          /\ \A i \in Ids \ ids : doc'[i] = doc[i]
<1>1. doc \in [Ids -> Documents \cup {NoDoc}]
  BY Types
<1>2. ASSUME NEW d \in Documents
      PROVE  /\ [d EXCEPT !.by = by] \in Documents
             /\ [d EXCEPT !.by = by].model = d.model /\ [d EXCEPT !.by = by].org = d.org
             /\ [d EXCEPT !.by = by].owner = d.owner
  BY DEF Documents
<1>3. \A i \in Ids : doc'[i] = IF i \in ids /\ doc[i] # NoDoc THEN [doc[i] EXCEPT !.by = by] ELSE doc[i]
  BY DEF Updated, Live
<1>4. doc' = [i \in Ids |-> doc'[i]]
  BY DEF Updated
<1>5. ASSUME NEW i \in Ids
      PROVE  doc'[i] \in Documents \cup {NoDoc} /\ Kept(i) /\ doc'[i].owner = doc[i].owner
             /\ (i \notin ids => doc'[i] = doc[i])
  BY <1>1, <1>2, <1>3 DEF Kept
<1> QED
  BY <1>4, <1>5

LEMMA WithoutDocs ==
    ASSUME TypeOK, NEW ids, doc' = Without(ids)
    PROVE /\ doc' \in [Ids -> Documents \cup {NoDoc}]
          /\ \A i \in Ids : doc'[i] = IF i \in ids THEN NoDoc ELSE doc[i]
          /\ \A i \in Ids : Kept(i)
<1>1. doc \in [Ids -> Documents \cup {NoDoc}]
  BY Types
<1> QED
  BY <1>1 DEF Without, Kept

----------------------------------------------------------------------------
(***************************************************************************)
(* What a request makes of itself.                                          *)
(***************************************************************************)
\* A request that is about to update by id has just checked the documents, or
\* is about to update what is left of those it checked.
Looked(r) ==
    \/ req'[r].at \notin {"update", "reprocess"}
    \/ /\ req'[r].at = "update" /\ UNCHANGED <<doc, used>>
       /\ \A i \in req'[r].ids : i \in Live /\ doc[i].org = req'[r].user.org
    \/ /\ req'[r].at = "reprocess" /\ UNCHANGED <<doc, used>>
       /\ \A i \in req'[r].found : i \in Live /\ doc[i].org = req'[r].user.org
    \/ /\ req'[r].at = "reprocess" /\ req[r].at = "reprocess"
       /\ req'[r].found \subseteq req[r].found /\ req'[r].user = req[r].user

\* A request's step is its own, and leaves it as Callers and Checked want it.
OwnStep(r) ==
    /\ req' \in [Requests -> RequestStates]
    /\ \A s \in Requests \ {r} : req'[s] = req[s]
    /\ Caller(r)' /\ Looked(r)

LEMMA Became ==
    ASSUME TypeOK, NEW r \in Requests, NEW q \in RequestStates, req' = [req EXCEPT ![r] = q]
    PROVE /\ req' \in [Requests -> RequestStates]
          /\ \A s \in Requests \ {r} : req'[s] = req[s]
          /\ req'[r] = q
BY Types

LEMMA RequestAnswered ==
    ASSUME TypeOK, NEW r \in Requests, NEW code \in Answers, Answer(r, code)
    PROVE OwnStep(r)
<1>1. /\ req' \in [Requests -> RequestStates]
      /\ \A s \in Requests \ {r} : req'[s] = req[s]
      /\ req'[r].at \notin Steps
  BY Answered
<1> QED
  BY <1>1 DEF OwnStep, Caller, Looked, Steps, Single, Bulk

LEMMA RequestStep ==
    ASSUME TypeOK, Callers, NEW r \in Requests, Request(r)
    PROVE OwnStep(r) /\ UNCHANGED hook
<1>a. UNCHANGED hook
  BY DEF Request, Unidentified, Call, Insert, GetOwned, Update, GetAgain, Delete, GetMany,
       BulkDelete, RequestRaises, Reprocess
<1> SUFFICES OwnStep(r)
  BY <1>a
<1>0. req \in [Requests -> RequestStates] /\ Caller(r)
  BY Types DEF Callers
<1>1. ASSUME NEW code \in Answers, Answer(r, code) PROVE OwnStep(r)
  BY <1>1, RequestAnswered
<1>2. ASSUME NEW h \in Headers, Unidentified(r, h) PROVE OwnStep(r)
  <2>1. \E code \in Answers : Answer(r, code)
    BY <1>2 DEF Unidentified, Answers
  <2> QED
    BY <1>1, <2>1
<1>3. ASSUME NEW h \in Headers, NEW op \in Single \cup Bulk \cup {"create"},
             NEW ids \in {{Malformed}} \cup SUBSET Ids, Call(r, h, op, ids)
      PROVE  OwnStep(r)
  <2>1. CASE \E code \in Answers : Answer(r, code)
    BY <1>1, <2>1
  <2>2. CASE ~ \E code \in Answers : Answer(r, code)
    <3> DEFINE at == IF op = "create" THEN "insert"
                     ELSE IF op \in Single THEN "get owned" ELSE "get many"
               user == CurrentUser(h)
               new == [NoRequest EXCEPT !.op = op, !.user = user, !.ids = ids \cap Ids, !.at = at]
    <3>1. /\ req' = [req EXCEPT ![r] = new]
          /\ Valid(h) /\ (op \in Single => \E i \in ids : ids = {i})
          /\ ~(op \in Single /\ ids = {Malformed})
      BY <1>3, <2>2 DEF Call, Answers
    <3>2. /\ at = "get owned" => op \in Single /\ \E i \in Ids : ids \cap Ids = {i}
          /\ at = "get many" => op \in Bulk
          /\ at \in Steps \ {"update", "reprocess"}
      BY <3>1 DEF Steps, Single
    <3>3. user \in Users
      BY <3>1, People
    <3> HIDE DEF at, user
    <3>5. /\ new \in RequestStates /\ new.at = at /\ new.op = op /\ new.user = user
          /\ new.ids = ids \cap Ids
      BY <3>2, <3>3 DEF RequestStates, NoRequest
    <3> HIDE DEF new
    <3>6. /\ req' \in [Requests -> RequestStates]
          /\ \A s \in Requests \ {r} : req'[s] = req[s]
          /\ req'[r] = new
      BY <3>1, <3>5, Became
    <3> QED
      BY <3>2, <3>3, <3>5, <3>6 DEF OwnStep, Caller, Looked
  <2> QED
    BY <2>1, <2>2
<1>4. ASSUME NEW i \in Ids, NEW m \in Models, Insert(r, i, m) PROVE OwnStep(r)
  BY <1>1, <1>4 DEF Insert, Answers
<1>5. CASE GetOwned(r)
  <2>1. PICK i \in req[r].ids :
            \/ \E code \in Answers : Answer(r, code)
            \/ i \in Live /\ Owned(r, i) /\ req[r].op # "get" /\ Goto(r, req[r].op)
    BY <1>5 DEF GetOwned, Answers
  <2>2. CASE i \in Live /\ Owned(r, i) /\ req[r].op # "get" /\ Goto(r, req[r].op)
    <3>1. req[r].at = "get owned" /\ UNCHANGED <<doc, used>>
      BY <1>5 DEF GetOwned
    <3>2. req[r].op \in {"update", "delete"} /\ req[r].ids = {i} /\ req[r].user \in Users
      BY <1>0, <2>2, <3>1 DEF Caller, Single, Steps
    <3>3. req[r].op \in Steps
      BY <3>2 DEF Steps, Single
    <3>4. /\ req' \in [Requests -> RequestStates]
          /\ \A s \in Requests \ {r} : req'[s] = req[s]
          /\ req'[r].at = req[r].op /\ req'[r].user = req[r].user /\ req'[r].ids = req[r].ids
      BY <2>2, <3>3, Went
    <3> QED
      BY <2>2, <3>1, <3>2, <3>4 DEF OwnStep, Caller, Looked, Owned
  <2> QED
    BY <1>1, <2>1, <2>2
<1>6. CASE Update(r)
  <2>1. CASE Answer(r, "400")
    BY <1>1, <2>1 DEF Answers
  <2>2. CASE Goto(r, "get again")
    <3>1. req[r].user \in Users
      BY <1>0, <1>6 DEF Update, Caller, Steps, Single
    <3>2. "get again" \in Steps
      BY DEF Steps
    <3>3. /\ req' \in [Requests -> RequestStates]
          /\ \A s \in Requests \ {r} : req'[s] = req[s]
          /\ req'[r].at = "get again" /\ req'[r].user = req[r].user
      BY <2>2, <3>2, Went
    <3> QED
      BY <3>1, <3>3 DEF OwnStep, Caller, Looked
  <2>3. Answer(r, "400") \/ Goto(r, "get again")
    BY <1>6 DEF Update
  <2> QED
    BY <2>1, <2>2, <2>3
<1>7. CASE GetAgain(r) \/ Delete(r) \/ BulkDelete(r) \/ RequestRaises(r)
  <2>1. \E code \in Answers : Answer(r, code)
    BY <1>7 DEF GetAgain, Delete, BulkDelete, RequestRaises, Answers
  <2> QED
    BY <1>1, <2>1
<1>8. CASE GetMany(r)
  <2> DEFINE narrowed(found) == [req EXCEPT ![r].found = found, ![r].at = req[r].op]
  <2>1. PICK found \in SUBSET GetManyByIds(req[r].ids, req[r].user.org) :
            \/ \E code \in Answers : Answer(r, code)
            \/ req' = narrowed(found)
    BY <1>8 DEF GetMany, Answers
  <2>2. CASE req' = narrowed(found)
    <3> DEFINE q == req[r]
               op == req[r].op
               new == [q EXCEPT !.found = found, !.at = op]
    <3>1. req[r].at = "get many" /\ UNCHANGED <<doc, used>>
      BY <1>8 DEF GetMany
    <3>2. /\ op \in Bulk /\ op \in Steps /\ op \notin {"update", "get owned", "get many"}
          /\ q.user \in Users /\ found \subseteq Ids /\ q \in RequestStates
      BY <1>0, <3>1 DEF Caller, Steps, Bulk, GetManyByIds, Live
    <3>3. req' = [req EXCEPT ![r] = new]
      BY <1>0, <2>2
    <3> HIDE DEF q, op
    <3>5. new \in RequestStates /\ new.at = op /\ new.user = q.user /\ new.found = found
      BY <3>2 DEF RequestStates
    <3> HIDE DEF new
    <3>6. /\ req' \in [Requests -> RequestStates]
          /\ \A s \in Requests \ {r} : req'[s] = req[s]
          /\ req'[r] = new
      BY <3>3, <3>5, Became
    <3>7. \A i \in found : i \in Live /\ doc[i].org = q.user.org
      BY DEF GetManyByIds, q
    <3> QED
      BY <3>1, <3>2, <3>5, <3>6, <3>7 DEF OwnStep, Caller, Looked, Bulk
  <2> HIDE DEF narrowed
  <2> QED
    BY <1>1, <2>1, <2>2
<1>9. ASSUME NEW i \in Ids, Reprocess(r, i) PROVE OwnStep(r)
  <2> DEFINE narrowed == [req EXCEPT ![r].found = @ \ {i}]
  <2>1. Answer(r, "200") \/ req' = narrowed
    BY <1>9 DEF Reprocess
  <2>2. CASE Answer(r, "200")
    BY <1>1, <2>2 DEF Answers
  <2>3. CASE req' = narrowed
    <3> DEFINE q == req[r]
               new == [at |-> q.at, op |-> q.op, user |-> q.user, ids |-> q.ids,
                       found |-> q.found \ {i}]
    <3>1. q.at = "reprocess" /\ q.user \in Users /\ q \in RequestStates
      BY <1>0, <1>9 DEF Reprocess, Caller, Steps, Bulk
    <3>2. req' = [req EXCEPT ![r] = [q EXCEPT !.found = q.found \ {i}]]
      BY <1>0, <2>3
    <3> HIDE DEF q
    <3>3. [q EXCEPT !.found = q.found \ {i}] = new
      BY <3>1 DEF RequestStates
    <3>4. /\ new \in RequestStates /\ new.at = q.at /\ new.user = q.user
          /\ new.found \subseteq q.found
      BY <3>1 DEF RequestStates
    <3> HIDE DEF new
    <3>5. /\ req' \in [Requests -> RequestStates]
          /\ \A s \in Requests \ {r} : req'[s] = req[s]
          /\ req'[r] = new
      BY <3>2, <3>3, <3>4, Became
    <3> QED
      BY <3>1, <3>4, <3>5 DEF OwnStep, Caller, Looked, q
  <2> HIDE DEF narrowed
  <2> QED
    BY <2>1, <2>2, <2>3
<1> QED
  BY <1>2, <1>3, <1>4, <1>5, <1>6, <1>7, <1>8, <1>9 DEF Request
----------------------------------------------------------------------------
(***************************************************************************)
(* What a step makes of the documents.                                      *)
(***************************************************************************)
\* Documents are kept or go, ids are not taken back, and only what the step
\* inserts is new.
Evolves ==
    /\ used \subseteq used' /\ used' \subseteq Ids
    /\ doc' \in [Ids -> Documents \cup {NoDoc}]
    /\ \A i \in used : Kept(i)
    /\ \A i \in Ids \ used' : doc'[i] = NoDoc

\* No document gets another owner, and those that change are the caller's.
RequestWrites(r) ==
    /\ Evolves
    /\ \A i \in used : doc'[i] # NoDoc => doc'[i].owner = doc[i].owner
    /\ \A i \in Live : doc'[i] # doc[i] => req[r].user.org = doc[i].org

LEMMA LiveAreUsed ==
    ASSUME TypeOK, Recorded
    PROVE Live \subseteq used /\ used \subseteq Ids
BY DEF Recorded, Live, TypeOK

LEMMA NothingWritten ==
    ASSUME TypeOK, Recorded, UNCHANGED <<doc, used>>
    PROVE /\ Evolves
          /\ \A i \in used : doc'[i].owner = doc[i].owner
          /\ \A i \in Live : doc'[i] = doc[i]
<1>1. doc \in [Ids -> Documents \cup {NoDoc}] /\ used \subseteq Ids
  BY Types, LiveAreUsed
<1> QED
  BY <1>1 DEF Evolves, Kept, Recorded

LEMMA RequestDocs ==
    ASSUME IInv, NEW r \in Requests, Request(r)
    PROVE RequestWrites(r)
<1>1. TypeOK /\ Callers /\ Checked /\ Recorded /\ Live \subseteq used /\ used \subseteq Ids
  BY LiveAreUsed DEF IInv
<1>2. doc \in [Ids -> Documents \cup {NoDoc}] /\ Caller(r)
  BY <1>1, Types DEF Callers
<1>3. ASSUME UNCHANGED <<doc, used>> PROVE RequestWrites(r)
  BY <1>1, <1>3, NothingWritten DEF RequestWrites
<1>4. ASSUME NEW i \in Ids, NEW m \in Models, Insert(r, i, m) PROVE RequestWrites(r)
  <2> DEFINE new == [model |-> m, org |-> req[r].user.org, owner |-> req[r].user.id,
                     by |-> req[r].user.org]
  <2>1. i \notin used /\ used' = used \cup {i} /\ doc' = [doc EXCEPT ![i] = new]
        /\ req[r].user \in Users
    BY <1>2, <1>4 DEF Insert, Caller, Steps
  <2>2. new \in Documents
    BY <2>1, People DEF Documents
  <2> HIDE DEF new
  <2>3. /\ doc' \in [Ids -> Documents \cup {NoDoc}] /\ doc'[i] = new
        /\ \A j \in Ids \ {i} : doc'[j] = doc[j]
    BY <1>2, <2>1, <2>2
  <2>4. \A j \in used : j \in Ids /\ doc'[j] = doc[j]
    BY <1>1, <2>1, <2>3
  <2>5. \A j \in Ids \ used' : doc'[j] = NoDoc
    BY <1>1, <2>1, <2>3 DEF Recorded
  <2>6. \A j \in used : Kept(j)
    BY <2>4 DEF Kept
  <2> QED
    BY <1>1, <2>1, <2>3, <2>4, <2>5, <2>6 DEF RequestWrites, Evolves
<1>5. ASSUME NEW ids, doc' = Without(Deletable(ids, req[r].user.org)), used' = used
      PROVE  RequestWrites(r)
  <2> DEFINE gone == Deletable(ids, req[r].user.org)
  <2>1. /\ doc' \in [Ids -> Documents \cup {NoDoc}]
        /\ \A i \in Ids : doc'[i] = IF i \in gone THEN NoDoc ELSE doc[i]
        /\ \A i \in Ids : Kept(i)
    BY <1>1, <1>5, WithoutDocs
  <2>2. \A i \in gone : doc[i].org = req[r].user.org
    BY DEF Deletable
  <2> HIDE DEF gone
  <2> QED
    BY <1>1, <1>5, <2>1, <2>2 DEF RequestWrites, Evolves, Recorded
<1>6. ASSUME NEW ids \in SUBSET used, req[r].user \in Users,
             doc' = Updated(ids, req[r].user.org), used' = used,
             \A i \in ids : i \in Live => doc[i].org = req[r].user.org
      PROVE  RequestWrites(r)
  <2>1. req[r].user.org \in Orgs
    BY <1>6, People
  <2>2. /\ doc' \in [Ids -> Documents \cup {NoDoc}]
        /\ \A i \in Ids : Kept(i) /\ doc'[i].owner = doc[i].owner
        /\ \A i \in Ids \ ids : doc'[i] = doc[i]
    BY <1>1, <1>6, <2>1, UpdatedDocs
  <2> QED
    BY <1>1, <1>6, <2>2 DEF RequestWrites, Evolves, Recorded
<1>7. ASSUME Update(r) PROVE RequestWrites(r)
  <2>1. CASE UNCHANGED doc
    BY <1>3, <1>7, <2>1 DEF Update
  <2>2. CASE doc' = Updated(req[r].ids, req[r].user.org)
    <3>1. req[r].at = "update" /\ used' = used /\ req[r].user \in Users
      BY <1>2, <1>7 DEF Update, Caller, Steps, Single
    <3>2. \A i \in req[r].ids : i \in used /\ (i \in Live => doc[i].org = req[r].user.org)
      <4>1. req[r].ids \subseteq Ids
        BY <1>1 DEF TypeOK
      <4> QED
        BY <1>1, <3>1, <4>1 DEF Checked
    <3> QED
      BY <1>6, <2>2, <3>1, <3>2
  <2> QED
    BY <1>7, <2>1, <2>2 DEF Update
<1>8. ASSUME NEW i \in Ids, Reprocess(r, i) PROVE RequestWrites(r)
  <2>1. /\ req[r].at = "reprocess" /\ i \in req[r].found /\ used' = used
        /\ doc' = Updated({i}, req[r].user.org) /\ req[r].user \in Users
    BY <1>2, <1>8 DEF Reprocess, Caller, Steps, Bulk
  <2>2. i \in used /\ (i \in Live => doc[i].org = req[r].user.org)
    BY <1>1, <2>1 DEF Checked
  <2> QED
    BY <1>6, <2>1, <2>2
<1>9. ASSUME Delete(r) PROVE RequestWrites(r)
  BY <1>3, <1>5, <1>9 DEF Delete
<1>10. ASSUME BulkDelete(r) PROVE RequestWrites(r)
  BY <1>5, <1>10 DEF BulkDelete
<1>11. CASE \/ \E h \in Headers : Unidentified(r, h)
            \/ \E h \in Headers, op \in Single \cup Bulk \cup {"create"},
                  ids \in {{Malformed}} \cup SUBSET Ids : Call(r, h, op, ids)
            \/ GetOwned(r) \/ GetAgain(r) \/ GetMany(r) \/ RequestRaises(r)
  BY <1>3, <1>11 DEF Unidentified, Call, GetOwned, GetAgain, GetMany, RequestRaises
<1> QED
  BY <1>4, <1>7, <1>8, <1>9, <1>10, <1>11 DEF Request

----------------------------------------------------------------------------
(***************************************************************************)
(* What a webhook makes of itself.                                          *)
(***************************************************************************)
\* An event starts before the first collection.
Starts(h) ==
    /\ hook[h].at = 0 /\ hook'[h].at = 1 /\ hook'[h].before = Live
    /\ hook'[h].kind \in {"user-deleted", "org-deleted"}
    /\ hook'[h].kind = "user-deleted" => hook'[h].to \in UserIds /\ hook'[h].org \in Orgs

SameEvent(h) ==
    /\ hook'[h].kind = hook[h].kind /\ hook'[h].org = hook[h].org /\ hook'[h].user = hook[h].user
    /\ hook'[h].to = hook[h].to /\ hook'[h].before = hook[h].before

\* A refused request or an event that stops half-way.
Ends(h) ==
    /\ SameEvent(h)
    /\ \/ hook[h].at = 0 /\ hook'[h].at = Refused
       \/ /\ hook[h].at # 0 /\ hook'[h].at = Stopped
          /\ hook[h].kind \in {"user-deleted", "org-deleted"}

Passes(h) ==
    /\ SameEvent(h)
    /\ hook[h].at \in 1..Len(OwnedModels) /\ hook'[h].at = hook[h].at + 1
    /\ hook[h].kind \in {"user-deleted", "org-deleted"}

HookMoves(h) ==
    /\ hook' \in [Hooks -> HookStates]
    /\ \A g \in Hooks \ {h} : hook'[g] = hook[g]
    /\ Starts(h) \/ Ends(h) \/ Passes(h)

LEMMA HookWent ==
    ASSUME TypeOK, NEW h \in Hooks, NEW at \in 0..Stopped, hook' = [hook EXCEPT ![h].at = at]
    PROVE /\ hook' \in [Hooks -> HookStates]
          /\ \A g \in Hooks \ {h} : hook'[g] = hook[g]
          /\ hook'[h].at = at /\ SameEvent(h)
<1> DEFINE q == hook[h]
           new == [q EXCEPT !.at = at]
<1>1. hook \in [Hooks -> HookStates] /\ q \in HookStates
  BY Types
<1>2. hook' = [hook EXCEPT ![h] = new]
  BY <1>1
<1> HIDE DEF q
<1>3. /\ new \in HookStates /\ new.at = at
      /\ new.kind = q.kind /\ new.org = q.org /\ new.user = q.user /\ new.to = q.to
      /\ new.before = q.before
  BY <1>1 DEF HookStates
<1> HIDE DEF new
<1>4. /\ hook' \in [Hooks -> HookStates] /\ hook'[h] = new
      /\ \A g \in Hooks \ {h} : hook'[g] = hook[g]
  BY <1>1, <1>2, <1>3
<1> QED
  BY <1>3, <1>4 DEF SameEvent, q

LEMMA EventStep ==
    ASSUME IInv, NEW h \in Hooks, NEW kind \in {"user-deleted", "org-deleted"}, NEW org \in Orgs,
           NEW user \in UserIds \cup {"none"}, NEW to \in UserIds \cup {"none"},
           kind = "user-deleted" => to \in UserIds, Event(h, kind, org, user, to)
    PROVE HookMoves(h) /\ Starts(h)
<1> DEFINE new == [at |-> 1, kind |-> kind, org |-> org, user |-> user, to |-> to, before |-> Live]
<1>1. TypeOK /\ hook \in [Hooks -> HookStates] /\ Live \subseteq Ids /\ 1 \in 0..Stopped
  BY Types, Collections DEF IInv, Live
<1>2. hook' = [hook EXCEPT ![h] = new] /\ hook[h].at = 0
  BY DEF Event
<1>3. /\ new \in HookStates /\ new.at = 1 /\ new.kind = kind /\ new.to = to
      /\ new.org = org /\ new.before = Live
  BY <1>1 DEF HookStates
<1> HIDE DEF new
<1>4. /\ hook' \in [Hooks -> HookStates] /\ hook'[h] = new
      /\ \A g \in Hooks \ {h} : hook'[g] = hook[g]
  BY <1>1, <1>2, <1>3
<1> QED
  BY <1>2, <1>3, <1>4 DEF HookMoves, Starts

LEMMA HookStep ==
    ASSUME IInv, NEW h \in Hooks, Webhook(h)
    PROVE /\ HookMoves(h) /\ UNCHANGED <<req, used>>
          /\ Pass(h) \/ (UNCHANGED doc /\ ~Passes(h))
<1>1. TypeOK /\ hook \in [Hooks -> HookStates]
  BY Types DEF IInv
<1>2. Len(OwnedModels) \in Nat /\ DOMAIN OwnedModels = 1..Len(OwnedModels)
      /\ Refused = Len(OwnedModels) + 2 /\ Stopped = Len(OwnedModels) + 3
  BY Collections
<1>3. ASSUME NEW org \in Orgs, NEW user \in UserIds, NEW to \in UserIds,
             Event(h, "user-deleted", org, user, to)
      PROVE  HookMoves(h) /\ (Starts(h) \/ Ends(h))
  BY <1>3, EventStep
<1>4. ASSUME NEW org \in Orgs, Event(h, "org-deleted", org, "none", "none")
      PROVE  HookMoves(h) /\ (Starts(h) \/ Ends(h))
  BY <1>4, EventStep
<1>5. ASSUME Refuse(h) PROVE HookMoves(h) /\ (Starts(h) \/ Ends(h))
  <2>1. hook[h].at = 0 /\ hook' = [hook EXCEPT ![h].at = Refused] /\ Refused \in 0..Stopped
    BY <1>2, <1>5 DEF Refuse
  <2> QED
    BY <1>1, <2>1, HookWent DEF HookMoves, Ends
<1>6. ASSUME hook[h].at \in DOMAIN OwnedModels
      PROVE  /\ hook[h].at \in 1..Len(OwnedModels) /\ hook[h].at # 0
             /\ hook[h].kind \in {"user-deleted", "org-deleted"}
  <2>1. hook[h].at \in 1..Len(OwnedModels) /\ hook[h].at # 0 /\ hook[h].at # Refused
    BY <1>2, <1>6
  <2>2. hook[h].kind \in {"user-deleted", "org-deleted", "none"}
    BY <1>1 DEF HookStates
  <2> QED
    BY <2>1, <2>2 DEF IInv, Events
<1>7. ASSUME Pass(h) PROVE HookMoves(h)
  <2> DEFINE at == hook[h].at + 1
  <2>1. hook' = [hook EXCEPT ![h].at = at] /\ hook[h].at \in DOMAIN OwnedModels
    BY <1>1, <1>7 DEF Pass
  <2>2. at \in 0..Stopped
    BY <1>2, <1>6, <2>1
  <2> HIDE DEF at
  <2>3. /\ hook' \in [Hooks -> HookStates]
        /\ \A g \in Hooks \ {h} : hook'[g] = hook[g]
        /\ hook'[h].at = at /\ SameEvent(h)
    BY <1>1, <2>1, <2>2, HookWent
  <2> QED
    BY <1>6, <2>1, <2>3 DEF HookMoves, Passes, at
<1>8. ASSUME HookStops(h) PROVE HookMoves(h) /\ (Starts(h) \/ Ends(h))
  <2>1. hook' = [hook EXCEPT ![h].at = Stopped] /\ hook[h].at \in DOMAIN OwnedModels
        /\ Stopped \in 0..Stopped
    BY <1>2, <1>8 DEF HookStops
  <2> QED
    BY <1>1, <1>6, <2>1, HookWent DEF HookMoves, Ends
<1>9. UNCHANGED <<req, used>> /\ (UNCHANGED doc \/ Pass(h))
  BY DEF Webhook, Event, Refuse, Pass, HookStops
<1>10. Starts(h) \/ Ends(h) => ~Passes(h)
  BY <1>2 DEF Starts, Ends, Passes
<1>11. ASSUME ~Pass(h) PROVE Starts(h) \/ Ends(h)
  BY <1>3, <1>4, <1>5, <1>8, <1>11 DEF Webhook
<1> QED
  BY <1>3, <1>4, <1>5, <1>7, <1>8, <1>9, <1>10, <1>11 DEF Webhook

----------------------------------------------------------------------------
(***************************************************************************)
(* What a webhook makes of the documents.                                   *)
(***************************************************************************)
HookWrites(h) ==
    /\ Evolves
    /\ \A i \in Live : doc'[i] # doc[i] => hook[h].org = doc[i].org
    /\ \A i \in used : doc'[i] # NoDoc /\ doc'[i].owner # doc[i].owner =>
           hook[h].kind = "user-deleted" /\ doc'[i].owner = hook[h].to

\* What is left of the collection that a webhook is through with.
Cleared(h) ==
    \A i \in used : doc'[i] # NoDoc /\ i \in Concerns(h, OwnedModels[hook[h].at]) =>
        hook[h].kind = "user-deleted" /\ doc'[i].owner = hook[h].to

LEMMA PassDocs ==
    ASSUME IInv, NEW h \in Hooks, Pass(h), HookMoves(h)
    PROVE HookWrites(h) /\ Cleared(h)
<1> DEFINE concerned == Concerns(h, OwnedModels[hook[h].at])
           to == hook[h].to
<1>1. TypeOK /\ Recorded /\ Live \subseteq used /\ used \subseteq Ids
      /\ doc \in [Ids -> Documents \cup {NoDoc}]
  BY LiveAreUsed, Types DEF IInv
<1>2. \A i \in concerned : i \in Live /\ doc[i].org = hook[h].org
  BY DEF Concerns
<1>3. used' = used /\ hook[h].kind \in {"user-deleted", "org-deleted"}
  <2>1. hook[h].at \in DOMAIN OwnedModels /\ hook[h].at \in 1..Len(OwnedModels) /\ used' = used
    BY Collections DEF Pass
  <2>2. hook[h].at # 0 /\ hook[h].at # Refused
    BY <2>1, Collections
  <2>3. hook[h].kind \in {"user-deleted", "org-deleted", "none"}
    BY <1>1 DEF TypeOK
  <2> QED
    BY <2>1, <2>2, <2>3 DEF IInv, Events
<1>4. CASE hook[h].kind = "org-deleted"
  <2>1. doc' = Without(concerned)
    BY <1>4 DEF Pass
  <2> HIDE DEF concerned
  <2>2. /\ doc' \in [Ids -> Documents \cup {NoDoc}]
        /\ \A i \in Ids : doc'[i] = IF i \in concerned THEN NoDoc ELSE doc[i]
        /\ \A i \in Ids : Kept(i)
    BY <1>1, <2>1, WithoutDocs
  <2> QED
    BY <1>1, <1>2, <1>3, <2>2 DEF HookWrites, Cleared, Evolves, Recorded, concerned
<1>5. CASE hook[h].kind = "user-deleted"
  <2>1. doc' = [i \in Ids |-> IF i \in concerned THEN [doc[i] EXCEPT !.owner = to] ELSE doc[i]]
    BY <1>5 DEF Pass
  <2>2. to \in UserIds
    BY <1>5 DEF IInv, Events
  <2> HIDE DEF concerned, to
  <2>3. ASSUME NEW d \in Documents
        PROVE  /\ [d EXCEPT !.owner = to] \in Documents
               /\ [d EXCEPT !.owner = to].model = d.model /\ [d EXCEPT !.owner = to].org = d.org
               /\ [d EXCEPT !.owner = to].owner = to
    BY <2>2 DEF Documents
  <2>4. \A i \in Ids : doc'[i] = IF i \in concerned THEN [doc[i] EXCEPT !.owner = to] ELSE doc[i]
    BY <2>1
  <2>5. \A i \in concerned : i \in Ids /\ doc[i] \in Documents /\ doc[i] # NoDoc
    BY <1>1, <1>2 DEF Live
  <2>6. ASSUME NEW i \in Ids
        PROVE  /\ doc'[i] \in Documents \cup {NoDoc} /\ Kept(i)
               /\ i \in concerned => doc'[i].owner = to
               /\ i \notin concerned => doc'[i] = doc[i]
    BY <1>1, <2>3, <2>4, <2>5 DEF Kept
  <2>7. doc' \in [Ids -> Documents \cup {NoDoc}]
    BY <2>1, <2>6
  <2>8. Evolves
    <3>1. \A i \in Ids \ used' : doc'[i] = NoDoc
      BY <1>1, <1>2, <1>3, <2>6 DEF Recorded
    <3> QED
      BY <1>1, <1>3, <2>6, <2>7, <3>1 DEF Evolves
  <2> QED
    BY <1>1, <1>2, <1>5, <2>6, <2>8 DEF HookWrites, Cleared, to, concerned
<1> QED
  BY <1>3, <1>4, <1>5

LEMMA HookDocs ==
    ASSUME IInv, NEW h \in Hooks, Webhook(h)
    PROVE HookWrites(h) /\ (Passes(h) => Cleared(h))
<1>1. TypeOK /\ Recorded /\ Live \subseteq used /\ used \subseteq Ids
      /\ doc \in [Ids -> Documents \cup {NoDoc}]
  BY LiveAreUsed, Types DEF IInv
<1>2. CASE Pass(h)
  BY <1>2, HookStep, PassDocs
<1>3. CASE UNCHANGED doc /\ ~Passes(h)
  BY <1>1, <1>3, HookStep, NothingWritten DEF HookWrites
<1> QED
  BY <1>2, <1>3, HookStep

----------------------------------------------------------------------------
(***************************************************************************)
(* The inductive invariant.                                                 *)
(***************************************************************************)
\* Who gets the documents of somebody.
Receivers == {hook[g].to : g \in {f \in Hooks : hook[f].kind = "user-deleted"}}

\* What a step leaves of the webhooks and of the owners.
Proceeds ==
    /\ Evolves
    /\ \A h \in Hooks : hook'[h] = hook[h] \/ Starts(h) \/ Ends(h) \/ (Passes(h) /\ Cleared(h))
    /\ \A i \in used : doc'[i] # NoDoc /\ doc'[i].owner # doc[i].owner => doc'[i].owner \in Receivers

LEMMA RequestProceeds ==
    ASSUME IInv, NEW r \in Requests, Request(r)
    PROVE Proceeds
BY RequestDocs, RequestStep DEF IInv, RequestWrites, Proceeds

LEMMA HookProceeds ==
    ASSUME IInv, NEW h \in Hooks, Webhook(h)
    PROVE Proceeds
BY HookDocs, HookStep DEF HookWrites, HookMoves, Proceeds, Receivers

LEMMA KeepsEvents ==
    ASSUME IInv, Proceeds
    PROVE Events'
<1> SUFFICES ASSUME NEW h \in Hooks
             PROVE  /\ hook'[h].before \subseteq used'
                    /\ hook'[h].at = 0 <=> hook'[h].kind = "none" /\ hook'[h].at # Refused
                    /\ hook'[h].kind = "user-deleted" => hook'[h].to \in UserIds /\ hook'[h].org \in Orgs
  BY DEF Events, Refused, Done
<1>1. Len(OwnedModels) \in Nat /\ Refused = Len(OwnedModels) + 2 /\ Stopped = Len(OwnedModels) + 3
  BY Collections
<1>2. /\ hook[h].before \subseteq used
      /\ hook[h].at = 0 <=> hook[h].kind = "none" /\ hook[h].at # Refused
      /\ hook[h].kind = "user-deleted" => hook[h].to \in UserIds /\ hook[h].org \in Orgs
  BY DEF IInv, Events
<1>3. used \subseteq used' /\ Live \subseteq used
  BY LiveAreUsed DEF IInv, Proceeds, Evolves
<1>4. CASE hook'[h] = hook[h]
  BY <1>2, <1>3, <1>4
<1>5. CASE Starts(h)
  BY <1>1, <1>3, <1>5 DEF Starts
<1>6. CASE Ends(h)
  BY <1>1, <1>2, <1>3, <1>6 DEF Ends, SameEvent
<1>7. CASE Passes(h)
  BY <1>1, <1>2, <1>3, <1>7 DEF Passes, SameEvent
<1> QED
  BY <1>4, <1>5, <1>6, <1>7 DEF Proceeds

\* A webhook at work was at work, or has just started and is through with nothing.
LEMMA AtWork ==
    ASSUME IInv, Proceeds, NEW h \in Hooks, hook'[h].at \in 1..Done
    PROVE \/ Starts(h) /\ Passed(h)' = {}
          \/ hook'[h] = hook[h] /\ Passed(h)' = Passed(h)
          \/ /\ SameEvent(h) /\ hook[h].at \in 1..Done /\ Cleared(h)
             /\ Passed(h)' = Passed(h) \cup {OwnedModels[hook[h].at]}
<1>1. Len(OwnedModels) \in Nat /\ Done = Len(OwnedModels) + 1
      /\ Refused = Len(OwnedModels) + 2 /\ Stopped = Len(OwnedModels) + 3
  BY Collections
<1>2. CASE hook'[h] = hook[h]
  BY <1>2 DEF Passed
<1>3. CASE Starts(h)
  BY <1>3 DEF Starts, Passed
<1>4. CASE Ends(h)
  BY <1>1, <1>4 DEF Ends
<1>5. CASE Passes(h) /\ Cleared(h)
  <2> DEFINE at == hook[h].at
  <2>1. at \in 1..Len(OwnedModels) /\ hook'[h].at = at + 1 /\ SameEvent(h)
    BY <1>5 DEF Passes
  <2> HIDE DEF at
  <2>2. 1..((at + 1) - 1) = (1..(at - 1)) \cup {at}
    BY <1>1, <2>1
  <2>3. Passed(h)' = {OwnedModels[k] : k \in (1..(at - 1)) \cup {at}}
    BY <2>1, <2>2 DEF Passed
  <2>4. Passed(h) = {OwnedModels[k] : k \in 1..(at - 1)}
    BY DEF Passed, at
  <2>5. Passed(h)' = Passed(h) \cup {OwnedModels[at]}
    BY <2>3, <2>4
  <2> QED
    BY <1>1, <1>5, <2>1, <2>5 DEF at
<1> QED
  BY <1>2, <1>3, <1>4, <1>5 DEF Proceeds

LEMMA WasThere ==
    ASSUME IInv, Proceeds, NEW i \in used, doc'[i] # NoDoc
    PROVE i \in Live /\ doc'[i].model = doc[i].model /\ doc'[i].org = doc[i].org
BY LiveAreUsed DEF IInv, Proceeds, Evolves, Kept, Live

LEMMA KeepsPurged ==
    ASSUME IInv, Proceeds
    PROVE Purged'
<1> SUFFICES ASSUME NEW h \in Hooks, hook'[h].kind = "org-deleted", hook'[h].at \in 1..Done,
                    NEW i \in hook'[h].before, i \in Ids, doc'[i] # NoDoc,
                    doc'[i].model \in Passed(h)'
             PROVE  doc'[i].org # hook'[h].org
  BY DEF Purged, Live, Done
<1>1. CASE Passed(h)' = {}
  BY <1>1
<1>2. CASE hook'[h] = hook[h] /\ Passed(h)' = Passed(h)
  <2>1. i \in used
    BY <1>2 DEF IInv, Events
  <2>2. i \in Live /\ doc'[i].model = doc[i].model /\ doc'[i].org = doc[i].org
    BY <2>1, WasThere
  <2> QED
    BY <1>2, <2>2 DEF IInv, Purged
<1>3. CASE /\ SameEvent(h) /\ hook[h].at \in 1..Done /\ Cleared(h)
           /\ Passed(h)' = Passed(h) \cup {OwnedModels[hook[h].at]}
  <2>1. i \in used /\ hook[h].kind = "org-deleted" /\ i \in hook[h].before
    BY <1>3 DEF IInv, Events, SameEvent
  <2>2. i \in Live /\ doc'[i].model = doc[i].model /\ doc'[i].org = doc[i].org
    BY <2>1, WasThere
  <2>3. CASE doc[i].model \in Passed(h)
    BY <1>3, <2>1, <2>2, <2>3 DEF IInv, Purged, SameEvent
  <2>4. CASE doc[i].model = OwnedModels[hook[h].at]
    <3>1. i \notin Concerns(h, OwnedModels[hook[h].at])
      BY <1>3, <2>1 DEF Cleared
    <3> QED
      BY <1>3, <2>1, <2>2, <2>4, <3>1 DEF Concerns, SameEvent
  <2> QED
    BY <1>3, <2>2, <2>3, <2>4
<1> QED
  BY <1>1, <1>2, <1>3, AtWork

LEMMA ReceiversGrow ==
    ASSUME IInv, Proceeds
    PROVE Receivers \subseteq Receivers'
<1> SUFFICES ASSUME NEW g \in Hooks, hook[g].kind = "user-deleted"
             PROVE  hook'[g].kind = "user-deleted" /\ hook'[g].to = hook[g].to
  BY DEF Receivers
<1>1. hook[g].at # 0
  BY DEF IInv, Events
<1> QED
  BY <1>1 DEF Proceeds, Starts, Ends, Passes, SameEvent

LEMMA KeepsTransferred ==
    ASSUME IInv, Proceeds
    PROVE Transferred'
<1> SUFFICES ASSUME NEW h \in Hooks, hook'[h].kind = "user-deleted", hook'[h].at \in 1..Done,
                    NEW i \in hook'[h].before, i \in Ids, doc'[i] # NoDoc,
                    doc'[i].model \in Passed(h)',
                    doc'[i].org = hook'[h].org, doc'[i].owner = hook'[h].user
             PROVE  hook'[h].user \in Receivers'
  BY DEF Transferred, Given, Receivers, Live, Done
<1>0. Receivers \subseteq Receivers'
  BY ReceiversGrow
<1>1. CASE Passed(h)' = {}
  BY <1>1
<1>2. ASSUME i \in used, doc'[i].owner # doc[i].owner PROVE hook'[h].user \in Receivers'
  BY <1>0, <1>2 DEF Proceeds
<1>3. ASSUME SameEvent(h), hook[h].at \in 1..Done, doc[i].model \in Passed(h), i \in used
      PROVE  hook'[h].user \in Receivers'
  <2>1. i \in Live /\ doc'[i].org = doc[i].org
    BY <1>3, WasThere
  <2>2. CASE doc'[i].owner = doc[i].owner
    <3>1. Given(h)
      BY <1>3, <2>1, <2>2 DEF IInv, Transferred, SameEvent
    <3>2. hook[h].user \in Receivers
      BY <3>1 DEF Given, Receivers
    <3> QED
      BY <1>0, <1>3, <3>2 DEF SameEvent
  <2> QED
    BY <1>2, <1>3, <2>2
<1>4. CASE hook'[h] = hook[h] /\ Passed(h)' = Passed(h)
  <2>1. i \in used /\ SameEvent(h) /\ hook[h].at \in 1..Done
    BY <1>4 DEF IInv, Events, SameEvent
  <2>2. doc'[i].model = doc[i].model
    BY <2>1, WasThere
  <2> QED
    BY <1>3, <1>4, <2>1, <2>2
<1>5. CASE /\ SameEvent(h) /\ hook[h].at \in 1..Done /\ Cleared(h)
           /\ Passed(h)' = Passed(h) \cup {OwnedModels[hook[h].at]}
  <2>1. i \in used /\ hook[h].kind = "user-deleted"
    BY <1>5 DEF IInv, Events, SameEvent
  <2>2. i \in Live /\ doc'[i].model = doc[i].model /\ doc'[i].org = doc[i].org
    BY <2>1, WasThere
  <2>3. CASE doc[i].model \in Passed(h)
    BY <1>3, <1>5, <2>1, <2>3
  <2>4. CASE doc[i].model = OwnedModels[hook[h].at]
    <3>1. CASE doc'[i].owner # doc[i].owner
      BY <1>2, <2>1, <3>1
    <3>2. CASE doc'[i].owner = doc[i].owner
      <4>1. i \in Concerns(h, OwnedModels[hook[h].at])
        BY <1>5, <2>2, <2>4, <3>2 DEF Concerns, SameEvent
      <4>2. doc'[i].owner = hook[h].to
        BY <1>5, <2>1, <4>1 DEF Cleared
      <4>3. hook'[h].user = hook[h].to
        BY <4>2
      <4> QED
        BY <1>0, <2>1, <4>3 DEF Receivers
    <3> QED
      BY <3>1, <3>2
  <2> QED
    BY <1>5, <2>2, <2>3, <2>4
<1> QED
  BY <1>1, <1>4, <1>5, AtWork

LEMMA StaysChecked ==
    ASSUME IInv, Evolves, NEW r \in Requests, Looked(r) \/ req'[r] = req[r], NEW i \in Ids,
           \/ req'[r].at = "update" /\ i \in req'[r].ids
           \/ req'[r].at = "reprocess" /\ i \in req'[r].found
    PROVE i \in used' /\ (doc'[i] # NoDoc => doc'[i].org = req'[r].user.org)
<1>1. used \subseteq used' /\ Live \subseteq used
  BY LiveAreUsed DEF IInv, Evolves
<1>2. ASSUME UNCHANGED <<doc, used>>, i \in Live, doc[i].org = req'[r].user.org
      PROVE  i \in used' /\ (doc'[i] # NoDoc => doc'[i].org = req'[r].user.org)
  BY <1>1, <1>2
<1>3. ASSUME i \in used, i \in Live => doc[i].org = req[r].user.org, req'[r].user = req[r].user
      PROVE  i \in used' /\ (doc'[i] # NoDoc => doc'[i].org = req'[r].user.org)
  BY <1>1, <1>3 DEF Evolves, Kept, Live
<1>4. CASE req'[r] = req[r]
  BY <1>3, <1>4 DEF IInv, Checked
<1>5. CASE Looked(r)
  <2>1. CASE req'[r].at = "update"
    BY <1>2, <1>5, <2>1 DEF Looked
  <2>2. CASE req'[r].at = "reprocess"
    <3>1. i \in req'[r].found
      BY <2>2
    <3>2. CASE UNCHANGED <<doc, used>> /\ i \in Live /\ doc[i].org = req'[r].user.org
      BY <1>2, <3>2
    <3>3. CASE req[r].at = "reprocess" /\ i \in req[r].found /\ req'[r].user = req[r].user
      <4>1. i \in used /\ (i \in Live => doc[i].org = req[r].user.org)
        BY <3>3 DEF IInv, Checked
      <4> QED
        BY <1>3, <3>3, <4>1
    <3> QED
      BY <1>5, <2>2, <3>1, <3>2, <3>3 DEF Looked
  <2> QED
    BY <2>1, <2>2
<1> QED
  BY <1>4, <1>5

LEMMA Initially == Init => IInv
<1> SUFFICES ASSUME Init PROVE IInv
  OBVIOUS
<1>0. PICK there \in SUBSET Ids : \E d \in [there -> StoredDocuments] :
          doc = [i \in Ids |-> IF i \in there THEN d[i] ELSE NoDoc] /\ used = there
  BY DEF Init
<1>1. PICK d \in [there -> StoredDocuments] :
          doc = [i \in Ids |-> IF i \in there THEN d[i] ELSE NoDoc] /\ used = there
  BY <1>0
<1>2. \A x \in StoredDocuments : x \in Documents
  BY People DEF StoredDocuments, Documents
<1>3. /\ doc \in [Ids -> Documents \cup {NoDoc}] /\ used \subseteq Ids
      /\ Live \subseteq used /\ Recorded
  BY <1>1, <1>2 DEF Recorded, Live
<1>4. Len(OwnedModels) \in Nat /\ 0 \in 0..Stopped /\ 0 # Refused /\ 0 \notin 1..Done
  BY Collections
<1>5. NoRequest \in RequestStates /\ NoRequest.at = "idle"
  BY DEF NoRequest, RequestStates
<1>6. NoEvent \in HookStates /\ NoEvent.at = 0 /\ NoEvent.kind = "none" /\ NoEvent.before = {}
  BY <1>4 DEF NoEvent, HookStates
<1>7. req \in [Requests -> RequestStates] /\ \A r \in Requests : req[r].at = "idle"
  BY <1>5 DEF Init
<1>8. /\ hook \in [Hooks -> HookStates]
      /\ \A h \in Hooks : hook[h].at = 0 /\ hook[h].kind = "none" /\ hook[h].before = {}
  BY <1>6 DEF Init
<1>9. TypeOK
  BY <1>3, <1>7, <1>8, StopsAssumption DEF TypeOK, RequestStates, HookStates, Init
<1>10. Callers /\ Checked
  BY <1>7 DEF Callers, Caller, Checked, Steps, Single, Bulk
<1>11. Events /\ Purged /\ Transferred
  BY <1>4, <1>8 DEF Events, Purged, Transferred
<1> QED
  BY <1>3, <1>9, <1>10, <1>11 DEF IInv

LEMMA Preserved ==
    ASSUME IInv, [Next]_vars
    PROVE IInv'
<1>0. TypeOK /\ Callers /\ Recorded
  BY DEF IInv
<1>1. stops \in 0..MaxStops /\ MaxStops \in Nat
  BY StopsAssumption DEF IInv, TypeOK
<1>2. CASE UNCHANGED vars
  <2>1. TypeOK' /\ Callers' /\ Checked' /\ Recorded' /\ Events'
    BY <1>2 DEF vars, IInv, TypeOK, Callers, Caller, Checked, Recorded, Events, Live
  <2>2. Purged' /\ Transferred'
    BY <1>2 DEF vars, IInv, Purged, Transferred, Passed, Given, Live
  <2> QED
    BY <2>1, <2>2 DEF IInv
<1>3. ASSUME Proceeds, req' \in [Requests -> RequestStates], hook' \in [Hooks -> HookStates],
             stops' \in 0..MaxStops, Callers',
             \A r \in Requests : Looked(r) \/ req'[r] = req[r]
      PROVE  IInv'
  <2>1. Evolves
    BY <1>3 DEF Proceeds
  <2>2. TypeOK'
    BY <1>3, <2>1 DEF TypeOK, Evolves, RequestStates, HookStates
  <2>3. Checked'
    BY <1>3, <2>1, StaysChecked DEF Checked, Live
  <2>4. Recorded'
    BY <2>1 DEF Evolves, Recorded
  <2> QED
    BY <1>3, <2>2, <2>3, <2>4, KeepsEvents, KeepsPurged, KeepsTransferred DEF IInv
<1>4. ASSUME NEW r \in Requests, Request(r) PROVE IInv'
  <2>1. OwnStep(r) /\ UNCHANGED hook
    BY <1>0, <1>4, RequestStep
  <2>2. Proceeds
    BY <1>4, RequestProceeds
  <2>3. Callers'
    BY <1>0, <2>1 DEF OwnStep, Callers, Caller
  <2>4. stops' \in 0..MaxStops
    <3>1. stops' = stops \/ (stops < MaxStops /\ stops' = stops + 1)
      BY <1>4 DEF Request, Unidentified, Call, Insert, GetOwned, Update,
           GetAgain, Delete, GetMany, BulkDelete, RequestRaises, Reprocess
    <3> QED
      BY <1>1, <3>1
  <2> QED
    BY <1>0, <1>3, <2>1, <2>2, <2>3, <2>4, Types DEF OwnStep
<1>5. ASSUME NEW h \in Hooks, Webhook(h) PROVE IInv'
  <2>1. HookMoves(h) /\ UNCHANGED <<req, used>>
    BY <1>5, HookStep
  <2>2. Proceeds
    BY <1>5, HookProceeds
  <2>3. Callers' /\ \A r \in Requests : req'[r] = req[r]
    BY <1>0, <2>1 DEF Callers, Caller
  <2>4. stops' \in 0..MaxStops
    <3>1. stops' = stops \/ (stops < MaxStops /\ stops' = stops + 1)
      BY <1>5 DEF Webhook, Event, Refuse, Pass, HookStops
    <3> QED
      BY <1>1, <3>1
  <2> QED
    BY <1>0, <1>3, <2>1, <2>2, <2>3, <2>4, Types DEF HookMoves
<1> QED
  BY <1>2, <1>4, <1>5 DEF Next

LEMMA Inductive == Spec => []IInv
BY Initially, Preserved, PTL DEF Spec

----------------------------------------------------------------------------
(***************************************************************************)
(* Theorems.                                                                *)
(***************************************************************************)
\* Documents, requests and webhooks keep their types.
THEOREM TypeCorrect == Spec => []TypeOK
<1>1. IInv => TypeOK
  BY DEF IInv
<1> QED
  BY Inductive, <1>1, PTL

\* A webhook that is through has been through every collection.
LEMMA EveryCollection ==
    ASSUME NEW h, hook[h].at = Done, NEW m \in Models
    PROVE m \in Passed(h)
<1>1. PICK k \in 1..Len(OwnedModels) : OwnedModels[k] = m
  BY Collections, ModelsAssumption
<1>2. k \in 1..(Done - 1)
  BY Collections
<1> QED
  BY <1>1, <1>2 DEF Passed

\* An org-deleted event that ran to its end has removed every document of the
\* organisation that was there when it came, whatever requests and other events
\* did meanwhile, in every registered collection.
THEOREM PurgesAreComplete == Spec => []PurgeIsComplete
<1>1. IInv => PurgeIsComplete
  <2> SUFFICES ASSUME IInv, NEW h \in Hooks, hook[h].kind = "org-deleted", hook[h].at = Done,
                      NEW i \in hook[h].before, doc[i] # NoDoc
               PROVE  doc[i].org # hook[h].org
    BY DEF PurgeIsComplete
  <2>1. i \in Ids /\ doc[i] \in Documents
    BY DEF IInv, TypeOK
  <2>2. doc[i].model \in Passed(h)
    BY <2>1, EveryCollection DEF Documents
  <2>3. Done \in 1..Done
    BY Collections
  <2> QED
    BY <2>1, <2>2, <2>3 DEF IInv, Purged, Live
<1> QED
  BY Inductive, <1>1, PTL

\* A user-deleted event that ran to its end has left the user no document of the
\* organisation that was there when it came, unless an event gave the user some.
THEOREM TransfersAreComplete == Spec => []TransferIsComplete
<1>1. IInv => TransferIsComplete
  <2> SUFFICES ASSUME IInv, NEW h \in Hooks, hook[h].kind = "user-deleted", hook[h].at = Done,
                      NEW i \in hook[h].before,
                      doc[i].org = hook[h].org, doc[i].owner = hook[h].user
               PROVE  Given(h)
    BY DEF TransferIsComplete, Given
  <2>1. i \in Ids /\ doc[i] \in Documents \cup {NoDoc}
    BY DEF IInv, TypeOK
  <2>2. Done \in 1..Done
    BY Collections
  <2>3. CASE doc[i] \in Documents
    <3>1. doc[i].model \in Passed(h) /\ i \in Live
      BY <2>1, <2>3, EveryCollection, People DEF Documents, Live
    <3> QED
      BY <2>2, <3>1 DEF IInv, Transferred
  <2>4. CASE doc[i] = NoDoc
    BY <2>4, OrgsAssumption DEF IInv, Events, NoDoc, None
  <2> QED
    BY <2>1, <2>3, <2>4
<1> QED
  BY Inductive, <1>1, PTL

\* A request changes only documents of its caller's organisation and a webhook
\* only those of its event's, also where the write goes by the id alone that was
\* checked a step earlier, and no write moves a document to another organisation.
THEOREM OnlyOwnOrganisation == Spec => OwnOrgOnly
<1> DEFINE A == \A i \in Live : doc'[i] # doc[i] =>
                    /\ doc'[i] # NoDoc => doc'[i].org = doc[i].org
                    /\ \A r \in Requests : req'[r] # req[r] => req[r].user.org = doc[i].org
                    /\ \A h \in Hooks : hook'[h] # hook[h] => hook[h].org = doc[i].org
<1>1. IInv /\ [Next]_vars => [A]_vars
  <2> SUFFICES ASSUME IInv, [Next]_vars PROVE [A]_vars
    OBVIOUS
  <2>1. Live \subseteq used
    BY LiveAreUsed DEF IInv
  <2>2. ASSUME NEW r \in Requests, Request(r) PROVE A
    <3>1. RequestWrites(r)
      BY <2>2, RequestDocs
    <3>2. hook' = hook /\ \A s \in Requests \ {r} : req'[s] = req[s]
      BY <2>2, RequestStep DEF IInv, OwnStep
    <3> QED
      BY <2>1, <3>1, <3>2 DEF RequestWrites, Evolves, Kept
  <2>3. ASSUME NEW h \in Hooks, Webhook(h) PROVE A
    <3>1. HookWrites(h)
      BY <2>3, HookDocs
    <3>2. req' = req /\ \A g \in Hooks \ {h} : hook'[g] = hook[g]
      BY <2>3, HookStep DEF HookMoves
    <3> QED
      BY <2>1, <3>1, <3>2 DEF HookWrites, Evolves, Kept
  <2> QED
    BY <2>2, <2>3 DEF Next
<1> HIDE DEF A
<1>2. Spec => [][A]_vars
  BY Inductive, <1>1, PTL DEF Spec
<1> QED
  BY <1>2 DEF OwnOrgOnly, A

\* No update, reprocessing or transfer that was under way when a document was
\* deleted brings it back.
THEOREM NothingComesBack == Spec => DeletedStaysDeleted
<1> DEFINE A == \A i \in used \ Live : doc'[i] = NoDoc
<1>1. IInv /\ [Next]_vars => [A]_vars
  <2> SUFFICES ASSUME IInv, [Next]_vars PROVE [A]_vars
    OBVIOUS
  <2>1. used \subseteq Ids
    BY DEF IInv, TypeOK
  <2>2. CASE Next
    <3>1. Proceeds
      BY <2>2, RequestProceeds, HookProceeds DEF Next
    <3> QED
      BY <2>1, <3>1 DEF Proceeds, Evolves, Kept, Live
  <2> QED
    BY <2>2
<1> HIDE DEF A
<1>2. Spec => [][A]_vars
  BY Inductive, <1>1, PTL DEF Spec
<1> QED
  BY <1>2 DEF DeletedStaysDeleted, A
=============================================================================
