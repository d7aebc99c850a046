------------------------------- MODULE Tenancy -------------------------------
(***************************************************************************)
(* The documents of several organisations in one database: requests of      *)
(* their users, one step per query, and the platform's webhooks, which go   *)
(* through the collections of OWNED_MODELS one after the other.  What is    *)
(* written is abstracted to the organisation that wrote last; S3, jobs and  *)
(* duplicates are ItemLifecycle's.                                          *)
(***************************************************************************)
EXTENDS Naturals, Sequences

CONSTANTS
    Ids,       \* ids that documents may get; ObjectIds are never reused
    Malformed, \* a string that is no ObjectId
    Requests, Hooks,
    Headers,   \* x-user-data: absent, garbage or object, and the claims it makes,
               \* each a value, Empty or None
    Orgs, Models,
    OwnedModels, \* OWNED_MODELS, a sequence of Models
    MaxStops   \* requests and webhooks that stop half-way

ASSUME IdsAssumption == Malformed \notin Ids

\* Every tenant-scoped model is registered.
ASSUME ModelsAssumption ==
    /\ OwnedModels \in Seq(Models)
    /\ \A m \in Models : \E k \in DOMAIN OwnedModels : OwnedModels[k] = m

ASSUME StopsAssumption == MaxStops \in Nat

NoDoc == [model |-> "none", org |-> "none", owner |-> "none", by |-> "none"]
NoUser == [id |-> "none", org |-> "none", role |-> "none"]
None == "none"
Empty == ""

----------------------------------------------------------------------------
(* get_current_user *)

Falsy == {None, Empty}
UserId(h) == IF h.user_id \notin Falsy THEN h.user_id ELSE h.id

Roles == {"User", "Admin", "Superadmin"}

\* A user id, an organisation and, if there is one, a role of the enum; an empty
\* string is no id, but a role like any other.
Valid(h) ==
    /\ h.form = "object"
    /\ UserId(h) \notin Falsy /\ h.org_id \notin Falsy
    /\ h.role \in Roles \cup {None}

CurrentUser(h) ==
    [id |-> UserId(h), org |-> h.org_id, role |-> IF h.role = None THEN "User" ELSE h.role]

Users == {CurrentUser(h) : h \in {g \in Headers : Valid(g)}}

ASSUME OrgsAssumption == None \notin Orgs /\ \A u \in Users : u.org \in Orgs

\* access_roles: only bulk_delete asks for a role.
Permitted(op, user) == op = "bulk_delete" => user.role \in {"Admin", "Superadmin"}

----------------------------------------------------------------------------

VARIABLES
    doc,  \* [Ids -> document or NoDoc]
    used, \* ids given out so far
    req,  \* per request: step, operation, caller, ids and what it found
    hook, \* per webhook: event, step, documents there when it came (history)
    stops

vars == <<doc, used, req, hook, stops>>

NoRequest == [at |-> "idle", op |-> "none", user |-> NoUser, ids |-> {}, found |-> {}]
NoEvent == [at |-> 0, kind |-> "none", org |-> "none", user |-> "none", to |-> "none", before |-> {}]

StoredDocuments == {[model |-> m, org |-> u.org, owner |-> u.id, by |-> u.org] : m \in Models, u \in Users}

Init ==
    /\ \E there \in SUBSET Ids : \E d \in [there -> StoredDocuments] :
          /\ doc = [i \in Ids |-> IF i \in there THEN d[i] ELSE NoDoc]
          /\ used = there
    /\ req = [r \in Requests |-> NoRequest]
    /\ hook = [h \in Hooks |-> NoEvent]
    /\ stops = 0

Live == {i \in Ids : doc[i] # NoDoc}

----------------------------------------------------------------------------
(* BaseRepository *)

GetManyByIds(ids, org) == {i \in Live \cap ids : doc[i].org = org}

\* Mutant: update with upsert.
Upserted(ids, by) ==
    LET new == CHOOSE d \in StoredDocuments : d.org = by
    IN [i \in Ids |-> IF i \notin ids THEN doc[i]
                      ELSE IF i \in Live THEN [doc[i] EXCEPT !.by = by] ELSE new]

\* $set by id alone; no document, no change.
Updated(ids, by) == [i \in Ids |-> IF i \in ids \cap Live THEN [doc[i] EXCEPT !.by = by] ELSE doc[i]]

\* delete and delete_many by ids and organisation.
Deletable(ids, org) == {i \in Live \cap ids : doc[i].org = org}
Without(ids) == [i \in Ids |-> IF i \in ids THEN NoDoc ELSE doc[i]]

----------------------------------------------------------------------------
(* The routes and ItemService, FileService *)

Goto(r, at) == req' = [req EXCEPT ![r].at = at]
Answer(r, code) == req' = [req EXCEPT ![r] = [NoRequest EXCEPT !.at = code]]

Single == {"get", "update", "delete"}
Bulk == {"bulk_delete", "reprocess"}
Steps == {"insert", "get owned", "get again", "get many"} \cup Single \cup Bulk

\* FastAPI resolves the caller before the route runs.
Unidentified(r, h) ==
    /\ req[r].at = "idle"
    /\ ~Valid(h)
    /\ Answer(r, IF h.form = "absent" THEN "422" ELSE "400")
    /\ UNCHANGED <<doc, used, hook, stops>>

Call(r, h, op, ids) ==
    /\ req[r].at = "idle"
    /\ Valid(h)
    /\ (op \in Single => \E i \in ids : ids = {i}) /\ (op = "create" <=> ids = {})
    /\ IF ~Permitted(op, CurrentUser(h)) THEN Answer(r, "403")
       ELSE IF op \in Single /\ ids = {Malformed} THEN Answer(r, "400")
       ELSE req' = [req EXCEPT ![r] = [NoRequest EXCEPT !.op = op, !.user = CurrentUser(h),
                        !.ids = ids \cap Ids,
                        !.at = IF op = "create" THEN "insert"
                               ELSE IF op \in Single THEN "get owned" ELSE "get many"]]
    /\ UNCHANGED <<doc, used, hook, stops>>

\* Mutant: user and organisation in each other's place.
InsertSwapped(r, i, model) ==
    /\ req[r].at = "insert" /\ i \notin used
    /\ doc' = [doc EXCEPT ![i] = [model |-> model, org |-> req[r].user.id,
                                  owner |-> req[r].user.org, by |-> req[r].user.org]]
    /\ used' = used \cup {i}
    /\ Answer(r, "200")
    /\ UNCHANGED <<hook, stops>>

Insert(r, i, model) ==
    /\ req[r].at = "insert" /\ i \notin used
    /\ doc' = [doc EXCEPT ![i] = [model |-> model, org |-> req[r].user.org,
                                  owner |-> req[r].user.id, by |-> req[r].user.org]]
    /\ used' = used \cup {i}
    /\ Answer(r, "200")
    /\ UNCHANGED <<hook, stops>>

\* Mutant: the organisation is not compared.
OwnedByAnyone(r, i) == TRUE

Owned(r, i) == doc[i].org = req[r].user.org

\* _get_owned
GetOwned(r) ==
    /\ req[r].at = "get owned"
    /\ \E i \in req[r].ids :
          IF i \notin Live THEN Answer(r, "404")
          ELSE IF ~Owned(r, i) THEN Answer(r, "403")
          ELSE IF req[r].op = "get" THEN Answer(r, "200")
          ELSE Goto(r, req[r].op)
    /\ UNCHANGED <<doc, used, hook, stops>>

\* A request without a field to change is refused.
Update(r) ==
    /\ req[r].at = "update"
    /\ \/ Answer(r, "400") /\ UNCHANGED doc
       \/ Goto(r, "get again") /\ doc' = Updated(req[r].ids, req[r].user.org)
    /\ UNCHANGED <<used, hook, stops>>

\* update answers with the document it reads again; None cannot be serialised.
GetAgain(r) ==
    /\ req[r].at = "get again"
    /\ Answer(r, IF req[r].ids \subseteq Live THEN "200" ELSE "500")
    /\ UNCHANGED <<doc, used, hook, stops>>

\* 409: an original with duplicates.
Delete(r) ==
    /\ req[r].at = "delete"
    /\ \/ Answer(r, "409") /\ UNCHANGED doc
       \/ Answer(r, "200") /\ doc' = Without(Deletable(req[r].ids, req[r].user.org))
    /\ UNCHANGED <<used, hook, stops>>

\* bulk_delete drops the originals that have duplicates from what it found.
GetMany(r) ==
    /\ req[r].at = "get many"
    /\ \E found \in SUBSET GetManyByIds(req[r].ids, req[r].user.org) :
          /\ (req[r].op = "reprocess" => found = GetManyByIds(req[r].ids, req[r].user.org))
          /\ IF found = {} THEN Answer(r, IF req[r].op = "reprocess" THEN "404" ELSE "400")
             ELSE req' = [req EXCEPT ![r].found = found, ![r].at = req[r].op]
    /\ UNCHANGED <<doc, used, hook, stops>>

Reprocess(r, i) ==
    /\ req[r].at = "reprocess" /\ i \in req[r].found
    /\ doc' = Updated({i}, req[r].user.org)
    /\ IF req[r].found = {i} THEN Answer(r, "200") ELSE req' = [req EXCEPT ![r].found = @ \ {i}]
    /\ UNCHANGED <<used, hook, stops>>

BulkDelete(r) ==
    /\ req[r].at = "bulk_delete"
    /\ doc' = Without(Deletable(req[r].found, req[r].user.org))
    /\ Answer(r, "200")
    /\ UNCHANGED <<used, hook, stops>>

\* A query, S3, Redis or NATS raises, and nothing handles it.
RequestRaises(r) ==
    /\ req[r].at \in Steps
    /\ stops < MaxStops
    /\ stops' = stops + 1
    /\ Answer(r, "500")
    /\ UNCHANGED <<doc, used, hook>>

----------------------------------------------------------------------------
(* Webhooks *)

Done == Len(OwnedModels) + 1
Refused == Done + 1
Stopped == Done + 2

\* Mutant: the transfer looks for the new owner's documents.
ConcernsNewOwner(h, m) ==
    {i \in Live : doc[i].model = m /\ doc[i].org = hook[h].org
        /\ (hook[h].kind = "user-deleted" => doc[i].owner = hook[h].to)}

\* Mutant: both webhooks ask for the owner.
ConcernsOwned(h, m) ==
    {i \in Live : doc[i].model = m /\ doc[i].org = hook[h].org /\ doc[i].owner = hook[h].user}

\* The documents of a collection that an event is about.
Concerns(h, m) ==
    {i \in Live : doc[i].model = m /\ doc[i].org = hook[h].org
        /\ (hook[h].kind = "user-deleted" => doc[i].owner = hook[h].user)}

\* A signed event starts with the first collection.  A user's documents go to
\* the first admin or, without one, stay the user's.
Event(h, kind, org, user, to) ==
    /\ hook[h].at = 0
    /\ hook' = [hook EXCEPT ![h] = [at |-> 1, kind |-> kind, org |-> org, user |-> user,
                                    to |-> to, before |-> Live]]
    /\ UNCHANGED <<doc, used, req, stops>>

\* No secret configured, no signature or a wrong one.
Refuse(h) ==
    /\ hook[h].at = 0
    /\ hook' = [hook EXCEPT ![h].at = Refused]
    /\ UNCHANGED <<doc, used, req, stops>>

Pass(h) ==
    /\ hook[h].at \in DOMAIN OwnedModels
    /\ LET concerned == Concerns(h, OwnedModels[hook[h].at])
       IN doc' = IF hook[h].kind = "org-deleted" THEN Without(concerned)
                 ELSE [i \in Ids |-> IF i \in concerned THEN [doc[i] EXCEPT !.owner = hook[h].to]
                                     ELSE doc[i]]
    /\ hook' = [hook EXCEPT ![h].at = @ + 1]
    /\ UNCHANGED <<used, req, stops>>

HookStops(h) ==
    /\ hook[h].at \in DOMAIN OwnedModels
    /\ stops < MaxStops
    /\ stops' = stops + 1
    /\ hook' = [hook EXCEPT ![h].at = Stopped]
    /\ UNCHANGED <<doc, used, req>>

----------------------------------------------------------------------------
Request(r) ==
    \/ \E h \in Headers : Unidentified(r, h)
    \/ \E h \in Headers, op \in Single \cup Bulk \cup {"create"}, ids \in {{Malformed}} \cup SUBSET Ids :
          Call(r, h, op, ids)
    \/ \E i \in Ids, m \in Models : Insert(r, i, m)
    \/ GetOwned(r) \/ Update(r) \/ GetAgain(r) \/ Delete(r) \/ GetMany(r) \/ BulkDelete(r)
    \/ RequestRaises(r) \/ \E i \in Ids : Reprocess(r, i)

UserIds == {u.id : u \in Users}

Webhook(h) ==
    \/ \E org \in Orgs, user, to \in UserIds : Event(h, "user-deleted", org, user, to)
    \/ \E org \in Orgs : Event(h, "org-deleted", org, "none", "none")
    \/ Refuse(h)
    \/ Pass(h) \/ HookStops(h)

Next == (\E r \in Requests : Request(r)) \/ (\E h \in Hooks : Webhook(h))

Spec == Init /\ [][Next]_vars

----------------------------------------------------------------------------
Documents == [model : Models, org : Orgs, owner : UserIds, by : Orgs]
Answers == {"200", "400", "403", "404", "409", "422", "500"}

TypeOK ==
    /\ doc \in [Ids -> Documents \cup {NoDoc}]
    /\ used \subseteq Ids
    /\ req \in [Requests -> [at : {"idle"} \cup Answers \cup Steps, op : Single \cup Bulk \cup {"create", "none"},
                             user : Users \cup {NoUser}, ids : SUBSET Ids, found : SUBSET Ids]]
    /\ hook \in [Hooks -> [at : 0..Stopped, kind : {"user-deleted", "org-deleted", "none"},
                           org : Orgs \cup {"none"}, user : UserIds \cup {"none"},
                           to : UserIds \cup {"none"}, before : SUBSET Ids]]
    /\ stops \in 0..MaxStops

\* A request changes or removes documents of its caller's organisation only and a
\* webhook those of its event's, although updates go by the id that was checked
\* an await earlier; documents never change organisation.
OwnOrgOnly ==
    [][\A i \in Live : doc'[i] # doc[i] =>
           /\ doc'[i] # NoDoc => doc'[i].org = doc[i].org
           /\ \A r \in Requests : req'[r] # req[r] => req[r].user.org = doc[i].org
           /\ \A h \in Hooks : hook'[h] # hook[h] => hook[h].org = doc[i].org]_vars

\* No step that was under way when a document was deleted brings it back.
DeletedStaysDeleted == [][\A i \in used \ Live : doc'[i] = NoDoc]_vars

\* After org-deleted, what is left of the organisation was inserted meanwhile.
PurgeIsComplete ==
    \A h \in Hooks : hook[h].kind = "org-deleted" /\ hook[h].at = Done =>
        \A i \in hook[h].before : doc[i] # NoDoc => doc[i].org # hook[h].org

\* After user-deleted, what the user still owns there was inserted meanwhile, or
\* given to the user by the same or another event.
TransferIsComplete ==
    \A h \in Hooks : hook[h].kind = "user-deleted" /\ hook[h].at = Done =>
        \A i \in hook[h].before :
            doc[i].org = hook[h].org /\ doc[i].owner = hook[h].user =>
                \E g \in Hooks : hook[g].kind = "user-deleted" /\ hook[g].to = hook[h].user
=============================================================================
