------------------------------- MODULE UserApi -------------------------------
(***************************************************************************)
(* The server of sample-projects/user-api: handlers in goroutines of       *)
(* net/http over one UserStore, a map behind a sync.RWMutex.               *)
(*                                                                         *)
(* A handler reads its request, calls the store, and answers.  Each call   *)
(* of the store is a critical section of several steps.  handlePatchUser   *)
(* is two of them: the user is read in one and written in the other, and   *)
(* the body is parsed in between, with no lock held.                       *)
(***************************************************************************)
EXTENDS Naturals, FiniteSets, Sequences

CONSTANTS
  Clients,   \* who sends requests, one at a time each
  Fields,    \* the fields of a User, besides id
  Required,  \* those the schema requires; the others have a default
  Values,    \* the values of a field
  Zero,      \* the zero value
  Default,   \* the defaults of the fields that are not required
  Bad,       \* what the schema of a field refuses
  Bodies,    \* the bodies of POST and PATCH
  Targets,   \* the IDs in the paths of requests
  Seeds,     \* the users that main creates before it listens
  None,      \* not a client
  MaxID      \* bound: no user is created beyond this ID

Profiles == [Fields -> Values]

\* A body: its keys with their values.  The schema knows "id", too, whose
\* value no handler uses; "other" it does not know.
Body == UNION {[S -> Values \cup {Bad}] : S \in SUBSET (Fields \cup {"id", "other"})}

ASSUME UserApiAssumption ==
  /\ Zero \in Values /\ Bad \notin Values
  /\ Required \subseteq Fields /\ Default \in [Fields \ Required -> Values]
  /\ Bodies \subseteq Body /\ Fields \cap {"id", "other"} = {}
  /\ Seeds \in Seq(Profiles) /\ None \notin Clients
  /\ MaxID \in Nat /\ Targets \subseteq Nat

VARIABLES
  users, nextID,    \* the fields of UserStore
  readers, writer,  \* its mutex: who reads, and who writes or waits to
  pc,               \* per client, the step of its handler
  req,              \* its request
  user,             \* the handler's User
  ahead, listing,   \* GetAll: the keys its range has ahead, the users it has
  status,           \* the status of the answer
  stale             \* history: the user was written since the handler read it

store    == <<users, nextID>>
mutex    == <<readers, writer>>
locals   == <<user, ahead, listing>>
vars     == <<store, mutex, pc, req, locals, status, stale>>

User    == [id : Nat, profile : Profiles]
NoUser  == [id |-> 0, profile |-> [f \in Fields |-> Zero]]
NoBody  == [f \in {} |-> Zero]

Plain(methods, ids) == [method : methods, id : ids, body : {NoBody}]

NoRequest == [method |-> "list", id |-> 0, body |-> NoBody]

Requests == Plain({"list"}, {0}) \cup Plain({"get", "delete"}, Targets)
            \cup [method : {"create"}, id : {0}, body : Bodies]
            \cup [method : {"patch"}, id : Targets, body : Bodies]

-----------------------------------------------------------------------------
\* NewServer's schema: strict on unknown keys.
Accepts(body) ==
  /\ Required \subseteq DOMAIN body /\ DOMAIN body \subseteq Fields \cup {"id"}
  /\ \A f \in DOMAIN body : body[f] # Bad

\* The profile a body is parsed to
Parsed(body) == [f \in Fields |-> IF f \in DOMAIN body THEN body[f] ELSE Default[f]]

\* Mutant: defaults count as sent.
MergedDefaults(profile, body) == Parsed(body)

\* The fields that the presence map has as seen replace those of the user.
Merged(profile, body) ==
  [f \in Fields |-> IF f \in DOMAIN body THEN body[f] ELSE profile[f]]

Start(method) ==
  IF method = "create" THEN "parse" ELSE IF method = "delete" THEN "lock" ELSE "rlock"

Goes(c, step)   == pc' = [pc EXCEPT ![c] = step]
Answers(c, code) == Goes(c, "done") /\ status' = [status EXCEPT ![c] = code]
At(c, step, methods) == pc[c] = step /\ req[c].method \in methods

-----------------------------------------------------------------------------
Init ==
  /\ users = [i \in 1..Len(Seeds) |-> [id |-> i, profile |-> Seeds[i]]]
  /\ nextID = Len(Seeds) + 1
  /\ readers = {} /\ writer = None
  /\ pc = [c \in Clients |-> "idle"]
  /\ req = [c \in Clients |-> NoRequest]
  /\ user = [c \in Clients |-> NoUser]
  /\ ahead = [c \in Clients |-> {}] /\ listing = [c \in Clients |-> {}]
  /\ status = [c \in Clients |-> 0]
  /\ stale = [c \in Clients |-> FALSE]

Creating == {c \in Clients : req[c].method = "create" /\ pc[c] \notin {"idle", "done"}}

\* The bound on IDs
Room == nextID + Cardinality(Creating) <= MaxID

Receive(c) ==
  /\ pc[c] = "idle"
  /\ \E r \in Requests :
       /\ r.method = "create" => Room
       /\ req' = [req EXCEPT ![c] = r]
       /\ Goes(c, Start(r.method))
  /\ UNCHANGED <<store, mutex, locals, status, stale>>

\* The ID is not a number (400), or the method is not allowed (405).
Refuse(c) ==
  /\ pc[c] = "idle"
  /\ \E code \in {400, 405} : Answers(c, code)
  /\ UNCHANGED <<store, mutex, req, locals, stale>>

\* A writer that waits keeps new readers out.
RLock(c) ==
  /\ pc[c] = "rlock" /\ writer = None
  /\ readers' = readers \cup {c} /\ Goes(c, "read")
  /\ UNCHANGED <<store, writer, req, locals, status, stale>>

\* Mutant: handlePatchUser keeps its lock until it returns.
RUnlockLate(c) ==
  /\ readers' = (IF req[c].method = "patch" THEN readers ELSE readers \ {c})
  /\ UNCHANGED writer

RUnlock(c) == readers' = readers \ {c} /\ UNCHANGED writer

Found(c) == req[c].id \in DOMAIN users

\* The ID's user, or the zero User
Lookup(c) == IF Found(c) THEN users[req[c].id] ELSE NoUser

GetByID(c) ==
  /\ At(c, "read", {"get", "patch"})
  /\ user' = [user EXCEPT ![c] = Lookup(c)]
  /\ RUnlock(c)
  /\ \/ Found(c) /\ req[c].method = "get" /\ Answers(c, 200)
     \/ Found(c) /\ req[c].method = "patch" /\ Goes(c, "parse") /\ UNCHANGED status
     \/ ~Found(c) /\ Answers(c, 404)
  /\ UNCHANGED <<store, req, ahead, listing, stale>>

GetAll(c) ==
  /\ At(c, "read", {"list"})
  /\ ahead' = [ahead EXCEPT ![c] = DOMAIN users]
  /\ listing' = [listing EXCEPT ![c] = {}]
  /\ Goes(c, "range")
  /\ UNCHANGED <<store, mutex, req, user, status, stale>>

\* A range over a map leaves out what is deleted before it gets there.
Range(c) ==
  /\ pc[c] = "range"
  /\ \E i \in ahead[c] \cap DOMAIN users :
       /\ ahead' = [ahead EXCEPT ![c] = @ \ {i}]
       /\ listing' = [listing EXCEPT ![c] = @ \cup {users[i]}]
  /\ UNCHANGED <<store, mutex, pc, req, user, status, stale>>

GetAllReturns(c) ==
  /\ pc[c] = "range" /\ ahead[c] \cap DOMAIN users = {}
  /\ RUnlock(c)
  /\ Answers(c, 200)
  /\ UNCHANGED <<store, req, locals, stale>>

-----------------------------------------------------------------------------
ParseRefused(c) ==
  /\ pc[c] = "parse" /\ ~Accepts(req[c].body)
  /\ Answers(c, 400)
  /\ UNCHANGED <<store, mutex, req, locals, stale>>

ParseNew(c) ==
  /\ At(c, "parse", {"create"}) /\ Accepts(req[c].body)
  /\ user' = [user EXCEPT ![c].profile = Parsed(req[c].body)]
  /\ Goes(c, "lock")
  /\ UNCHANGED <<store, mutex, req, ahead, listing, status, stale>>

ParsePatch(c) ==
  /\ At(c, "parse", {"patch"}) /\ Accepts(req[c].body)
  /\ user' = [user EXCEPT ![c].profile = Merged(@, req[c].body)]
  /\ Goes(c, "lock")
  /\ UNCHANGED <<store, mutex, req, ahead, listing, status, stale>>

Lock(c) ==
  /\ pc[c] = "lock" /\ writer = None
  /\ writer' = c /\ Goes(c, "locked")
  /\ UNCHANGED <<store, readers, req, locals, status, stale>>

\* Mutant: a writer does not wait for the readers.
AdmittedAtOnce(c) == TRUE

\* The readers that were there have left.
Admitted(c) == readers = {}

Unlock(c) == writer' = None /\ UNCHANGED readers

\* Handlers that have read the user of this ID and are to write it back
Holding(id) == {c \in Clients : /\ req[c].method = "patch" /\ req[c].id = id
                                /\ pc[c] \in {"parse", "lock", "locked"}}

Overtakes(c, id) == stale' = [d \in Clients |-> stale[d] \/ d \in Holding(id) \ {c}]

\* Create: user.ID = s.nextID ...
Number(c) ==
  /\ At(c, "locked", {"create"}) /\ Admitted(c)
  /\ user' = [user EXCEPT ![c].id = nextID]
  /\ Goes(c, "insert")
  /\ UNCHANGED <<store, mutex, req, ahead, listing, status, stale>>

\* Mutant: the ID is the number of users.
InsertCounted(c) ==
  /\ pc[c] = "insert"
  /\ nextID' = Cardinality(DOMAIN users) + 2
  /\ users' = [i \in DOMAIN users \cup {user[c].id} |->
                 IF i = user[c].id THEN user[c] ELSE users[i]]
  /\ Unlock(c)
  /\ Answers(c, 201)
  /\ UNCHANGED <<req, locals, stale>>

\* ... s.nextID++; s.users[user.ID] = user
Insert(c) ==
  /\ pc[c] = "insert"
  /\ nextID' = nextID + 1
  /\ users' = [i \in DOMAIN users \cup {user[c].id} |->
                 IF i = user[c].id THEN user[c] ELSE users[i]]
  /\ Unlock(c)
  /\ Answers(c, 201)
  /\ UNCHANGED <<req, locals, stale>>

\* Mutant: a user that is gone comes back.
UpdateAlways(c) ==
  /\ At(c, "locked", {"patch"}) /\ Admitted(c)
  /\ users' = [i \in DOMAIN users \cup {req[c].id} |->
                 IF i = req[c].id THEN [id |-> i, profile |-> user[c].profile]
                                  ELSE users[i]]
  /\ Overtakes(c, req[c].id)
  /\ Unlock(c)
  /\ Answers(c, 200)
  /\ UNCHANGED <<nextID, req, locals>>

\* handlePatchUser answers 200 whatever Update says.
Update(c) ==
  /\ At(c, "locked", {"patch"}) /\ Admitted(c)
  /\ \/ /\ Found(c)
        /\ users' = [users EXCEPT ![req[c].id] =
                       [id |-> req[c].id, profile |-> user[c].profile]]
        /\ Overtakes(c, req[c].id)
     \/ ~Found(c) /\ UNCHANGED <<users, stale>>
  /\ Unlock(c)
  /\ Answers(c, 200)
  /\ UNCHANGED <<nextID, req, locals>>

Delete(c) ==
  /\ At(c, "locked", {"delete"}) /\ Admitted(c)
  /\ \/ /\ Found(c)
        /\ users' = [i \in DOMAIN users \ {req[c].id} |-> users[i]]
        /\ Overtakes(c, req[c].id)
        /\ Answers(c, 204)
     \/ ~Found(c) /\ UNCHANGED <<users, stale>> /\ Answers(c, 404)
  /\ Unlock(c)
  /\ UNCHANGED <<nextID, req, locals>>

Respond(c) ==
  /\ pc[c] = "done"
  /\ Goes(c, "idle")
  /\ user' = [user EXCEPT ![c] = NoUser]
  /\ listing' = [listing EXCEPT ![c] = {}]
  /\ ahead' = [ahead EXCEPT ![c] = {}]
  /\ status' = [status EXCEPT ![c] = 0]
  /\ stale' = [stale EXCEPT ![c] = FALSE]
  /\ req' = [req EXCEPT ![c] = NoRequest]
  /\ UNCHANGED <<store, mutex>>

Handle(c) ==
  \/ GetByID(c)
  \/ GetAll(c)
  \/ Range(c)
  \/ GetAllReturns(c)
  \/ Number(c)
  \/ Insert(c)
  \/ Update(c)
  \/ Delete(c)
  \/ Respond(c)

Step(c) ==
  \/ Receive(c)
  \/ Refuse(c)
  \/ RLock(c)
  \/ ParseRefused(c)
  \/ ParseNew(c)
  \/ ParsePatch(c)
  \/ Lock(c)
  \/ Handle(c)

Next == \E c \in Clients : Step(c)

(***************************************************************************)
(* The scheduler runs every goroutine that can run.  sync.RWMutex lets no  *)
(* one wait for ever: the readers that waited are let in before the next   *)
(* writer, and writers wait in the order of their coming once one starves. *)
(* No client has to send the body of its request.                          *)
(***************************************************************************)
Fairness ==
  \A c \in Clients : WF_vars(Handle(c)) /\ SF_vars(RLock(c)) /\ SF_vars(Lock(c))

Spec == Init /\ [][Next]_vars

FairSpec == Spec /\ Fairness

-----------------------------------------------------------------------------
TypeOK ==
  /\ nextID \in Nat
  /\ users \in [DOMAIN users -> User] /\ DOMAIN users \subseteq Nat
  /\ readers \subseteq Clients /\ writer \in Clients \cup {None}
  /\ pc \in [Clients -> {"idle", "rlock", "read", "range", "parse", "lock",
                         "locked", "insert", "done"}]
  /\ req \in [Clients -> [method : {"list", "get", "patch", "create", "delete"},
                          id : Nat, body : Bodies \cup {NoBody}]]
  /\ user \in [Clients -> User]
  /\ ahead \in [Clients -> SUBSET Nat] /\ listing \in [Clients -> SUBSET User]
  /\ status \in [Clients -> {0, 200, 201, 204, 400, 404, 405}]
  /\ stale \in [Clients -> BOOLEAN]

\* Who holds the mutex is where the program says it is.
Exclusion ==
  /\ readers = {c \in Clients : pc[c] \in {"read", "range"}}
  /\ \A c \in Clients : pc[c] \in {"locked", "insert"} <=> writer = c
  /\ \A c \in Clients : pc[c] = "insert" => readers = {}

\* A user is found under its own ID, and no ID is used before it is given.
StoredUnderID == \A i \in DOMAIN users : users[i].id = i /\ i < nextID

NumberIsNext == \A c \in Clients : pc[c] = "insert" => user[c].id = nextID

(***************************************************************************)
(* GetAll copies the users one by one: what it has, and what it will still *)
(* meet, is at every moment the store as it is.  No user is listed that    *)
(* has been deleted, none is listed in two versions, none is missing.      *)
(***************************************************************************)
ListingIsSnapshot ==
  \A c \in Clients : pc[c] = "range" =>
    /\ ahead[c] \subseteq DOMAIN users
    /\ listing[c] = {users[i] : i \in DOMAIN users \ ahead[c]}

(***************************************************************************)
(* The store behind its mutex: who is inside a critical section, and what  *)
(* he can rely on there.                                                   *)
(***************************************************************************)
StoreInv == TypeOK /\ Exclusion /\ StoredUnderID /\ NumberIsNext /\ ListingIsSnapshot

(***************************************************************************)
(* A PATCH writes the user as it is, with the fields that were sent in     *)
(* place of the old ones, "only update fields that were present in the     *)
(* request" (main.go:209), unless another write of that user has come in   *)
(* between: that one is undone without a word.                             *)
(***************************************************************************)
PatchIsCurrent ==
  \A c \in Clients : At(c, "locked", {"patch"}) /\ ~stale[c] =>
    /\ Found(c)
    /\ LET sent == DOMAIN req[c].body \cap Fields IN
       /\ \A f \in sent : user[c].profile[f] = req[c].body[f]
       /\ \A f \in Fields \ sent : user[c].profile[f] = users[req[c].id].profile[f]

Created(c) == pc[c] = "done" /\ status[c] = 201

(***************************************************************************)
(* Whoever is told 201 has an ID that nobody else was told, nor any user   *)
(* created before, and that is never given again; what is stored is what   *)
(* was sent, with the defaults.                                            *)
(***************************************************************************)
CreatedApart ==
  \A c \in Clients : Created(c) =>
    /\ user[c].id \in (Len(Seeds) + 1)..(nextID - 1)
    /\ user[c].profile = Parsed(req[c].body)
    /\ \A d \in Clients \ {c} : Created(d) => user[d].id # user[c].id

Directory == INSTANCE UserDirectory
               WITH Profiles <- Profiles, Seeds <- Seeds, users <- users, nextID <- nextID

(***************************************************************************)
(* The critical sections, of several steps each and interleaved with those *)
(* of other handlers, are the single steps of the directory.               *)
(***************************************************************************)
ImplementsDirectory == Directory!DirectorySpec

InStore == {"rlock", "read", "range", "lock", "locked", "insert"}

(***************************************************************************)
(* A call of the store ends, though other clients may never send the rest  *)
(* of their requests: no lock is held while a body is read.                *)
(***************************************************************************)
StoreAnswers == \A c \in Clients : pc[c] \in InStore ~> pc[c] \notin InStore
=============================================================================
