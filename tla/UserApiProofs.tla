---------------------------- MODULE UserApiProofs ----------------------------
(***************************************************************************)
(* The mutex keeps the critical sections of UserApi apart, which makes     *)
(* them the single steps of UserDirectory; a PATCH that nobody overtook    *)
(* changes the fields it was sent; and no ID is given twice.               *)
(***************************************************************************)
EXTENDS UserApi, TLAPS

-----------------------------------------------------------------------------
\* What a body that is accepted is parsed to is a profile.
LEMMA ParsedType ==
  ASSUME NEW body \in Bodies \cup {NoBody}, Accepts(body)
  PROVE  Parsed(body) \in Profiles
<1>1. PICK S : body \in [S -> Values \cup {Bad}]
  BY UserApiAssumption, Zenon DEF Body, NoBody
<1>2. ASSUME NEW f \in Fields
      PROVE  (IF f \in DOMAIN body THEN body[f] ELSE Default[f]) \in Values
  BY <1>1, UserApiAssumption DEF Accepts
<1> QED BY <1>2 DEF Parsed, Profiles

\* So is a profile with an accepted body merged into it.
LEMMA MergedType ==
  ASSUME NEW body \in Bodies \cup {NoBody}, Accepts(body), NEW p \in Profiles
  PROVE  Merged(p, body) \in Profiles
<1>1. PICK S : body \in [S -> Values \cup {Bad}]
  BY UserApiAssumption, Zenon DEF Body, NoBody
<1>2. ASSUME NEW f \in Fields
      PROVE  (IF f \in DOMAIN body THEN body[f] ELSE p[f]) \in Values
  BY <1>1, UserApiAssumption DEF Accepts, Profiles
<1> QED BY <1>2 DEF Merged, Profiles

LEMMA NoUserType == NoUser \in User
  BY UserApiAssumption DEF NoUser, User, Profiles

LEMMA RequestsType ==
  ASSUME NEW r \in Requests
  PROVE  r \in [method : {"list", "get", "patch", "create", "delete"},
                id : Nat, body : Bodies \cup {NoBody}]
<1>1. CASE r \in [method : {"list"}, id : {0}, body : {NoBody}]
  BY <1>1
<1>2. CASE r \in [method : {"get", "delete"}, id : Targets, body : {NoBody}]
  BY <1>2, UserApiAssumption
<1>3. CASE r \in [method : {"create"}, id : {0}, body : Bodies]
  BY <1>3
<1>4. CASE r \in [method : {"patch"}, id : Targets, body : Bodies]
  BY <1>4, UserApiAssumption
<1> QED BY <1>1, <1>2, <1>3, <1>4, Zenon DEF Requests, Plain

\* The history variable stays one.
LEMMA OvertakenType ==
  ASSUME NEW c, NEW id, Overtakes(c, id), stale \in [Clients -> BOOLEAN]
  PROVE  stale' \in [Clients -> BOOLEAN]
<1>1. \A d \in Clients : (stale[d] \/ d \in Holding(id) \ {c}) \in BOOLEAN
  OBVIOUS
<1> QED BY <1>1, Zenon DEF Overtakes

-----------------------------------------------------------------------------
THEOREM TypeCorrect == Spec => []TypeOK
<1>1. Init => TypeOK
  <2> SUFFICES ASSUME Init PROVE TypeOK
    OBVIOUS
  <2>1. nextID \in Nat /\ users \in [1..Len(Seeds) -> User]
    BY UserApiAssumption DEF Init, User
  <2>2. req \in [Clients -> [method : {"list", "get", "patch", "create", "delete"},
                             id : Nat, body : Bodies \cup {NoBody}]]
    BY DEF Init, NoRequest
  <2> QED BY <2>1, <2>2, NoUserType, UserApiAssumption DEF Init, TypeOK
<1>2. TypeOK /\ [Next]_vars => TypeOK'
  <2> SUFFICES ASSUME TypeOK, [Next]_vars PROVE TypeOK'
    OBVIOUS
  <2>1. ASSUME NEW c \in Clients, Receive(c) PROVE TypeOK'
    BY <2>1, RequestsType DEF Receive, TypeOK, store, mutex, locals, Goes, Start
  <2>2. ASSUME NEW c \in Clients, Refuse(c) PROVE TypeOK'
    BY <2>2 DEF Refuse, TypeOK, store, mutex, locals, Goes, Answers
  <2>3. ASSUME NEW c \in Clients, RLock(c) PROVE TypeOK'
    BY <2>3 DEF RLock, TypeOK, store, mutex, locals, Goes
  <2>4. ASSUME NEW c \in Clients, GetByID(c) PROVE TypeOK'
    <3>1. Lookup(c) \in User
      BY NoUserType DEF Lookup, Found, TypeOK
    <3>2. user' \in [Clients -> User] /\ readers' \subseteq Clients /\ writer' = writer
      BY <2>4, <3>1 DEF GetByID, RUnlock, TypeOK
    <3>3. \E step \in {"parse", "done"} : pc' = [pc EXCEPT ![c] = step]
      BY <2>4 DEF GetByID, Goes, Answers
    <3>4. \E code \in {200, 404} : status' \in {status, [status EXCEPT ![c] = code]}
      BY <2>4 DEF GetByID, Answers
    <3>5. UNCHANGED <<users, nextID, req, ahead, listing, stale>>
      BY <2>4 DEF GetByID, store
    <3> QED BY <3>2, <3>3, <3>4, <3>5 DEF TypeOK
  <2>5. ASSUME NEW c \in Clients, GetAll(c) PROVE TypeOK'
    BY <2>5 DEF GetAll, TypeOK, store, mutex, Goes
  <2>6. ASSUME NEW c \in Clients, Range(c) PROVE TypeOK'
    BY <2>6 DEF Range, TypeOK, store, mutex
  <2>7. ASSUME NEW c \in Clients, GetAllReturns(c) PROVE TypeOK'
    BY <2>7 DEF GetAllReturns, RUnlock, TypeOK, store, locals, Goes, Answers
  <2>8. ASSUME NEW c \in Clients, ParseRefused(c) PROVE TypeOK'
    BY <2>8 DEF ParseRefused, TypeOK, store, mutex, locals, Goes, Answers
  <2>9. ASSUME NEW c \in Clients, ParseNew(c) PROVE TypeOK'
    <3>1. Parsed(req[c].body) \in Profiles
      BY <2>9, ParsedType DEF ParseNew, TypeOK
    <3>2. user' \in [Clients -> User]
      BY <2>9, <3>1 DEF ParseNew, TypeOK, User
    <3> QED BY <2>9, <3>2 DEF ParseNew, TypeOK, store, mutex, Goes
  <2>10. ASSUME NEW c \in Clients, ParsePatch(c) PROVE TypeOK'
    <3>1. Merged(user[c].profile, req[c].body) \in Profiles
      BY <2>10, MergedType DEF ParsePatch, TypeOK, User
    <3>2. user' \in [Clients -> User]
      BY <2>10, <3>1 DEF ParsePatch, TypeOK, User
    <3> QED BY <2>10, <3>2 DEF ParsePatch, TypeOK, store, mutex, Goes
  <2>11. ASSUME NEW c \in Clients, Lock(c) PROVE TypeOK'
    BY <2>11 DEF Lock, TypeOK, store, locals, Goes
  <2>12. ASSUME NEW c \in Clients, Number(c) PROVE TypeOK'
    <3>1. user' \in [Clients -> User]
      BY <2>12 DEF Number, TypeOK, User
    <3> QED BY <2>12, <3>1 DEF Number, TypeOK, store, mutex, Goes
  <2>13. ASSUME NEW c \in Clients, Insert(c) PROVE TypeOK'
    <3>1. users' \in [DOMAIN users' -> User] /\ DOMAIN users' \subseteq Nat
      BY <2>13 DEF Insert, TypeOK, User
    <3> QED BY <2>13, <3>1 DEF Insert, Unlock, TypeOK, locals, Goes, Answers
  <2>14. ASSUME NEW c \in Clients, Update(c) PROVE TypeOK'
    <3>1. users' \in [DOMAIN users' -> User] /\ DOMAIN users' \subseteq Nat
      BY <2>14 DEF Update, TypeOK, User, Found
    <3>2. stale' \in [Clients -> BOOLEAN]
      BY <2>14, OvertakenType DEF Update, TypeOK
    <3> QED BY <2>14, <3>1, <3>2 DEF Update, Unlock, TypeOK, locals, Goes, Answers
  <2>15. ASSUME NEW c \in Clients, Delete(c) PROVE TypeOK'
    <3>1. users' \in [DOMAIN users' -> User] /\ DOMAIN users' \subseteq Nat
      BY <2>15 DEF Delete, TypeOK, User, Found
    <3>2. stale' \in [Clients -> BOOLEAN]
      BY <2>15, OvertakenType DEF Delete, TypeOK
    <3>3. /\ pc' = [pc EXCEPT ![c] = "done"]
          /\ \E code \in {204, 404} : status' = [status EXCEPT ![c] = code]
      BY <2>15 DEF Delete, Goes, Answers
    <3>4. UNCHANGED <<nextID, readers, req, user, ahead, listing>> /\ writer' = None
      BY <2>15 DEF Delete, Unlock, locals
    <3> QED BY <3>1, <3>2, <3>3, <3>4 DEF TypeOK
  <2>16. ASSUME NEW c \in Clients, Respond(c) PROVE TypeOK'
    BY <2>16, NoUserType DEF Respond, TypeOK, store, mutex, Goes, NoRequest
  <2>17. CASE UNCHANGED vars
    BY <2>17 DEF vars, store, mutex, locals, TypeOK
  <2> QED BY <2>1, <2>2, <2>3, <2>4, <2>5, <2>6, <2>7, <2>8, <2>9, <2>10, <2>11,
             <2>12, <2>13, <2>14, <2>15, <2>16, <2>17 DEF Next, Step, Handle
<1> QED BY <1>1, <1>2, PTL DEF Spec

-----------------------------------------------------------------------------
(* Each step of a handler takes its client from one place to the next; the *)
(* mutex says who is at the places in between.                             *)

LEMMA ExclusionStep == TypeOK /\ Exclusion /\ [Next]_vars => Exclusion'
<1> SUFFICES ASSUME TypeOK, Exclusion, [Next]_vars PROVE Exclusion'
  OBVIOUS
<1> USE DEF TypeOK, Exclusion
<1>1. ASSUME NEW c \in Clients, NEW step, pc' = [pc EXCEPT ![c] = step],
             pc[c] \notin {"read", "range", "locked", "insert"},
             step \notin {"read", "range", "locked", "insert"}, UNCHANGED mutex
      PROVE  Exclusion'
  BY <1>1 DEF mutex
<1>2. ASSUME NEW c \in Clients,
             \/ Receive(c) \/ Refuse(c) \/ ParseRefused(c) \/ ParseNew(c)
             \/ ParsePatch(c) \/ Respond(c)
      PROVE  Exclusion'
  <2>1. /\ \E step \in {"rlock", "parse", "lock", "done", "idle"} :
              pc' = [pc EXCEPT ![c] = step]
        /\ pc[c] \notin {"read", "range", "locked", "insert"} /\ UNCHANGED mutex
    <3>1. CASE Receive(c)
      <4>1. PICK r \in Requests : Goes(c, Start(r.method))
        BY <3>1 DEF Receive
      <4>2. Start(r.method) \in {"rlock", "parse", "lock"}
        BY DEF Start
      <4> QED BY <3>1, <4>1, <4>2 DEF Receive, Goes
    <3>2. CASE Refuse(c) \/ ParseRefused(c) \/ ParseNew(c) \/ ParsePatch(c) \/ Respond(c)
      BY <3>2 DEF Refuse, ParseRefused, ParseNew, ParsePatch, Respond, At, Goes, Answers
    <3> QED BY <1>2, <3>1, <3>2
  <2>2. PICK step \in {"rlock", "parse", "lock", "done", "idle"} :
          pc' = [pc EXCEPT ![c] = step]
    BY <2>1
  <2>3. step \notin {"read", "range", "locked", "insert"}
    OBVIOUS
  <2> HIDE DEF TypeOK, Exclusion
  <2> QED BY <1>1, <2>1, <2>2, <2>3
<1>3. ASSUME NEW c \in Clients, RLock(c) PROVE Exclusion'
  BY <1>3, UserApiAssumption DEF RLock, Goes
<1>4. ASSUME NEW c \in Clients, GetByID(c) PROVE Exclusion'
  <2>1. \E step \in {"parse", "done"} : pc' = [pc EXCEPT ![c] = step]
    BY <1>4 DEF GetByID, Goes, Answers
  <2> QED BY <1>4, <2>1 DEF GetByID, At, RUnlock
<1>5. ASSUME NEW c \in Clients, GetAll(c) PROVE Exclusion'
  BY <1>5 DEF GetAll, At, Goes, mutex
<1>6. ASSUME NEW c \in Clients, Range(c) PROVE Exclusion'
  BY <1>6 DEF Range, mutex
<1>7. ASSUME NEW c \in Clients, GetAllReturns(c) PROVE Exclusion'
  BY <1>7 DEF GetAllReturns, RUnlock, Goes, Answers
<1>8. ASSUME NEW c \in Clients, Lock(c) PROVE Exclusion'
  BY <1>8, UserApiAssumption DEF Lock, Goes
<1>9. ASSUME NEW c \in Clients, Number(c) PROVE Exclusion'
  BY <1>9, UserApiAssumption DEF Number, At, Admitted, Goes, mutex
<1>10. ASSUME NEW c \in Clients, Insert(c) \/ Update(c) \/ Delete(c) PROVE Exclusion'
  <2>1. /\ pc[c] \in {"locked", "insert"} /\ pc' = [pc EXCEPT ![c] = "done"]
        /\ writer' = None /\ readers' = readers
    BY <1>10 DEF Insert, Update, Delete, At, Unlock, Goes, Answers
  <2> QED BY <2>1, UserApiAssumption
<1>11. CASE UNCHANGED vars
  BY <1>11 DEF vars, mutex
<1> QED BY <1>2, <1>3, <1>4, <1>5, <1>6, <1>7, <1>8, <1>9, <1>10, <1>11
        DEF Next, Step, Handle

-----------------------------------------------------------------------------
(* Inside the mutex: what a writer, or a reader, can rely on.              *)

Inside == StoredUnderID /\ NumberIsNext /\ ListingIsSnapshot

\* What does not touch the store, nor a client that lists or numbers
LEMMA OutsideStep ==
  ASSUME TypeOK, Inside, NEW c \in Clients, UNCHANGED store,
         \A d \in Clients \ {c} : UNCHANGED <<pc[d], user[d], ahead[d], listing[d]>>,
         pc'[c] \notin {"range", "insert"}
  PROVE  Inside'
<1>1. StoredUnderID'
  BY DEF Inside, StoredUnderID, store
<1>2. NumberIsNext'
  BY DEF Inside, NumberIsNext, store
<1>3. ListingIsSnapshot'
  BY DEF Inside, ListingIsSnapshot, store
<1> QED BY <1>1, <1>2, <1>3 DEF Inside

LEMMA InsideStep == TypeOK /\ Exclusion /\ Inside /\ [Next]_vars => Inside'
<1> SUFFICES ASSUME TypeOK, Exclusion, Inside, [Next]_vars PROVE Inside'
  OBVIOUS
<1>1. ASSUME NEW c \in Clients,
             \/ Receive(c) \/ Refuse(c) \/ RLock(c) \/ GetByID(c) \/ GetAllReturns(c)
             \/ ParseRefused(c) \/ ParseNew(c) \/ ParsePatch(c) \/ Lock(c) \/ Respond(c)
      PROVE  Inside'
  <2>1. UNCHANGED store
    BY <1>1 DEF Receive, Refuse, RLock, GetByID, GetAllReturns, ParseRefused, ParseNew,
                ParsePatch, Lock, Respond
  <2>2. /\ \A d \in Clients \ {c} : UNCHANGED <<pc[d], user[d], ahead[d], listing[d]>>
        /\ pc'[c] \notin {"range", "insert"}
    <3>1. CASE Receive(c)
      BY <3>1 DEF Receive, TypeOK, Goes, Start, locals
    <3>2. CASE Refuse(c) \/ RLock(c) \/ GetByID(c) \/ GetAllReturns(c)
      BY <3>2 DEF Refuse, RLock, GetByID, GetAllReturns, TypeOK, Goes, Answers, locals
    <3>3. CASE ParseRefused(c) \/ ParseNew(c) \/ ParsePatch(c)
      BY <3>3 DEF ParseRefused, ParseNew, ParsePatch, TypeOK, Goes, Answers, locals
    <3>4. CASE Lock(c) \/ Respond(c)
      BY <3>4 DEF Lock, Respond, TypeOK, Goes, locals
    <3> QED BY <1>1, <3>1, <3>2, <3>3, <3>4
  <2> QED BY <2>1, <2>2, OutsideStep
<1>2. ASSUME NEW c \in Clients, GetAll(c) PROVE Inside'
  <2> USE <1>2 DEF GetAll, TypeOK, store, Goes, At
  <2>1. StoredUnderID'
    BY DEF Inside, StoredUnderID
  <2>2. NumberIsNext'
    BY DEF Inside, NumberIsNext
  <2>3. ListingIsSnapshot'
    BY DEF Inside, ListingIsSnapshot
  <2> QED BY <2>1, <2>2, <2>3 DEF Inside
<1>3. ASSUME NEW c \in Clients, Range(c) PROVE Inside'
  <2> USE <1>3 DEF Range, TypeOK, store
  <2>1. StoredUnderID' /\ NumberIsNext'
    BY DEF Inside, StoredUnderID, NumberIsNext
  <2>2. ListingIsSnapshot'
    BY DEF Inside, ListingIsSnapshot
  <2> QED BY <2>1, <2>2 DEF Inside
<1>4. ASSUME NEW c \in Clients, Number(c) PROVE Inside'
  <2>1. StoredUnderID'
    BY <1>4 DEF Number, Inside, StoredUnderID, store
  <2>2. user'[c].id = nextID /\ \A d \in Clients \ {c} : user'[d] = user[d]
    BY <1>4 DEF Number, TypeOK, User
  <2>3. NumberIsNext'
    BY <1>4, <2>2 DEF Number, Inside, NumberIsNext, store, TypeOK, Goes
  <2>4. ListingIsSnapshot'
    BY <1>4 DEF Number, Inside, ListingIsSnapshot, store, TypeOK, Goes
  <2> QED BY <2>1, <2>3, <2>4 DEF Inside
<1>5. ASSUME NEW c \in Clients, Insert(c) \/ Update(c) \/ Delete(c) PROVE Inside'
  <2>1. \A d \in Clients : pc'[d] \notin {"range", "insert"}
    <3>1. writer = c /\ readers = {}
      BY <1>5 DEF Insert, Update, Delete, At, Admitted, Exclusion
    <3>2. pc' = [pc EXCEPT ![c] = "done"]
      BY <1>5 DEF Insert, Update, Delete, Goes, Answers
    <3> QED BY <3>1, <3>2 DEF Exclusion, TypeOK
  <2>2. NumberIsNext' /\ ListingIsSnapshot'
    BY <2>1 DEF NumberIsNext, ListingIsSnapshot
  <2>3. CASE Insert(c)
    <3>1. user[c].id = nextID /\ nextID' = nextID + 1
      BY <2>3 DEF Insert, Inside, NumberIsNext
    <3>2. StoredUnderID'
      BY <2>3, <3>1 DEF Insert, Inside, StoredUnderID, TypeOK
    <3> QED BY <2>2, <3>2 DEF Inside
  <2>4. CASE Update(c)
    <3>1. StoredUnderID'
      BY <2>4 DEF Update, Inside, StoredUnderID, TypeOK, Found
    <3> QED BY <2>2, <3>1 DEF Inside
  <2>5. CASE Delete(c)
    <3>1. StoredUnderID'
      BY <2>5 DEF Delete, Inside, StoredUnderID, TypeOK, Found
    <3> QED BY <2>2, <3>1 DEF Inside
  <2> QED BY <1>5, <2>3, <2>4, <2>5
<1>6. CASE UNCHANGED vars
  BY <1>6 DEF vars, store, locals, Inside, StoredUnderID, NumberIsNext, ListingIsSnapshot
<1> QED BY <1>1, <1>2, <1>3, <1>4, <1>5, <1>6 DEF Next, Step, Handle

\* The store is consistent, at every step of every handler.
THEOREM StoreConsistent == Spec => []StoreInv
<1>1. Init => Exclusion /\ Inside
  BY UserApiAssumption DEF Init, Exclusion, Inside, StoredUnderID, NumberIsNext,
                           ListingIsSnapshot
<1>2. TypeOK /\ Exclusion /\ Inside /\ [Next]_vars => (Exclusion /\ Inside)'
  BY ExclusionStep, InsideStep
<1>3. TypeOK /\ Exclusion /\ Inside => StoreInv
  BY DEF StoreInv, Inside
<1> QED BY <1>1, <1>2, <1>3, TypeCorrect, PTL DEF Spec

-----------------------------------------------------------------------------
(* The critical sections are the steps of the directory. *)

THEOREM DirectoryImplemented == Spec => ImplementsDirectory
<1>1. Init => Directory!DirectoryInit
  BY DEF Init, Directory!DirectoryInit
<1>2. StoreInv /\ [Next]_vars => [Directory!DirectoryNext]_<<users, nextID>>
  <2> SUFFICES ASSUME StoreInv, [Next]_vars
               PROVE  Directory!DirectoryNext \/ UNCHANGED store
    BY DEF store
  <2> USE DEF StoreInv
  <2>1. ASSUME NEW c \in Clients, Insert(c) PROVE Directory!DirectoryNext
    <3>1. user[c].id = nextID /\ user[c].profile \in Profiles
          /\ user[c] = [id |-> nextID, profile |-> user[c].profile]
      BY <2>1 DEF Insert, NumberIsNext, TypeOK, User
    <3>2. Directory!Created(user[c].profile)
      BY <2>1, <3>1 DEF Insert, Directory!Created
    <3> QED BY <3>1, <3>2 DEF Directory!DirectoryNext
  <2>2. ASSUME NEW c \in Clients, Update(c)
        PROVE  Directory!DirectoryNext \/ UNCHANGED store
    <3>1. user[c].profile \in Profiles
      BY DEF TypeOK, User
    <3>2. CASE Found(c)
      <4>1. Directory!Replaced(req[c].id, user[c].profile)
        BY <2>2, <3>2 DEF Update, Found, Directory!Replaced
      <4> QED BY <3>1, <3>2, <4>1 DEF Found, Directory!DirectoryNext
    <3> QED BY <2>2, <3>2 DEF Update, store
  <2>3. ASSUME NEW c \in Clients, Delete(c)
        PROVE  Directory!DirectoryNext \/ UNCHANGED store
    <3>1. CASE Found(c)
      <4>1. Directory!Deleted(req[c].id)
        BY <2>3, <3>1 DEF Delete, Found, Directory!Deleted
      <4> QED BY <3>1, <4>1 DEF Found, Directory!DirectoryNext
    <3> QED BY <2>3, <3>1 DEF Delete, store
  <2>4. ASSUME NEW c \in Clients, ~Insert(c), ~Update(c), ~Delete(c), Step(c)
        PROVE  UNCHANGED store
    BY <2>4 DEF Step, Handle, Receive, Refuse, RLock, GetByID, GetAll, Range,
                GetAllReturns, ParseRefused, ParseNew, ParsePatch, Lock, Number, Respond
  <2>5. CASE UNCHANGED vars
    BY <2>5 DEF vars
  <2> QED BY <2>1, <2>2, <2>3, <2>4, <2>5 DEF Next
<1> QED BY <1>1, <1>2, StoreConsistent, PTL
        DEF Spec, ImplementsDirectory, Directory!DirectorySpec, Directory!directory

-----------------------------------------------------------------------------
(* What a PATCH has read stays the store's user until somebody writes it.  *)

Fresh(c) ==
  /\ Found(c)
  /\ user[c].profile = IF pc[c] = "parse" THEN users[req[c].id].profile
                       ELSE Merged(users[req[c].id].profile, req[c].body)

PatchInv == \A c \in Clients : c \in Holding(req[c].id) /\ ~stale[c] => Fresh(c)

\* Steps of other clients that leave a user as it is
LEMMA UndisturbedPatch ==
  ASSUME PatchInv, NEW d \in Clients,
         UNCHANGED <<pc[d], req[d], user[d]>>, stale[d] => stale'[d],
         Found(d) => /\ req[d].id \in DOMAIN users'
                     /\ users'[req[d].id] = users[req[d].id]
  PROVE  d \in Holding(req[d].id)' /\ ~stale'[d] => Fresh(d)'
BY DEF PatchInv, Holding, Fresh, Found

LEMMA PatchStep == StoreInv /\ PatchInv /\ [Next]_vars => PatchInv'
<1> SUFFICES ASSUME StoreInv, PatchInv, [Next]_vars PROVE PatchInv'
  OBVIOUS
<1>t. TypeOK
  BY DEF StoreInv
<1>1. ASSUME NEW c \in Clients, UNCHANGED <<store, stale>>,
             \A d \in Clients \ {c} : UNCHANGED <<pc[d], req[d], user[d]>>,
             c \in Holding(req[c].id)' /\ ~stale'[c] => Fresh(c)'
      PROVE  PatchInv'
  <2>1. ASSUME NEW d \in Clients \ {c}
        PROVE  d \in Holding(req[d].id)' /\ ~stale'[d] => Fresh(d)'
    <3>1. /\ UNCHANGED <<pc[d], req[d], user[d]>> /\ stale'[d] = stale[d]
          /\ Found(d) => /\ req[d].id \in DOMAIN users'
                         /\ users'[req[d].id] = users[req[d].id]
      BY <1>1 DEF store, Found
    <3> QED BY <3>1, UndisturbedPatch
  <2> QED BY <1>1, <2>1 DEF PatchInv
<1>2. ASSUME NEW c \in Clients, Receive(c) \/ Refuse(c) \/ ParseRefused(c) PROVE PatchInv'
  <2>1. CASE Receive(c)
    <3>1. /\ UNCHANGED <<store, stale>> /\ UNCHANGED user
          /\ \A d \in Clients \ {c} : UNCHANGED <<pc[d], req[d], user[d]>>
      BY <2>1, <1>t DEF Receive, TypeOK, Goes, locals
    <3>2. PICK r \in Requests : /\ req' = [req EXCEPT ![c] = r]
                                /\ pc' = [pc EXCEPT ![c] = Start(r.method)]
      BY <2>1 DEF Receive, Goes
    <3>3. req'[c].method = "patch" => pc'[c] = "rlock"
      BY <3>2, <1>t DEF TypeOK, Start
    <3>4. c \notin Holding(req[c].id)'
      BY <3>3 DEF Holding
    <3> QED BY <3>1, <3>4, <1>1
  <2>2. CASE Refuse(c) \/ ParseRefused(c)
    <3>1. /\ UNCHANGED <<store, stale>>
          /\ \A d \in Clients \ {c} : UNCHANGED <<pc[d], req[d], user[d]>>
          /\ pc'[c] = "done"
      BY <2>2, <1>t DEF Refuse, ParseRefused, TypeOK, Goes, Answers, locals
    <3>2. c \notin Holding(req[c].id)'
      BY <3>1 DEF Holding
    <3> QED BY <3>1, <3>2, <1>1
  <2> QED BY <1>2, <2>1, <2>2
<1>3. ASSUME NEW c \in Clients,
             RLock(c) \/ GetAll(c) \/ Range(c) \/ GetAllReturns(c) \/ ParseNew(c) \/ Number(c)
      PROVE  PatchInv'
  <2>1. /\ UNCHANGED <<store, stale, req>>
        /\ \A d \in Clients \ {c} : UNCHANGED <<pc[d], req[d], user[d]>>
    BY <1>3, <1>t DEF RLock, GetAll, Range, GetAllReturns, ParseNew, Number, TypeOK,
                      Goes, Answers, locals
  <2>2. req[c].method # "patch" \/ pc'[c] \notin {"parse", "lock", "locked"}
    BY <1>3, <1>t DEF RLock, GetAll, Range, GetAllReturns, ParseNew, Number, TypeOK,
                      Goes, Answers, At
  <2>3. c \notin Holding(req[c].id)'
    BY <2>1, <2>2 DEF Holding
  <2> QED BY <2>1, <2>3, <1>1
<1>4. ASSUME NEW c \in Clients, GetByID(c) PROVE PatchInv'
  <2>1. /\ UNCHANGED <<store, stale, req>>
        /\ \A d \in Clients \ {c} : UNCHANGED <<pc[d], req[d], user[d]>>
    BY <1>4, <1>t DEF GetByID, TypeOK, Goes, Answers
  <2>2. /\ pc'[c] = "parse" => Found(c)
        /\ pc'[c] \in {"parse", "done"} /\ user'[c] = Lookup(c)
    BY <1>4, <1>t DEF GetByID, TypeOK, Goes, Answers
  <2>3. c \in Holding(req[c].id)' => Fresh(c)'
    BY <2>1, <2>2 DEF Holding, Fresh, Found, Lookup, store
  <2> QED BY <2>1, <2>3, <1>1
<1>5. ASSUME NEW c \in Clients, ParsePatch(c) PROVE PatchInv'
  <2>1. /\ UNCHANGED <<store, stale, req>>
        /\ \A d \in Clients \ {c} : UNCHANGED <<pc[d], req[d], user[d]>>
    BY <1>5, <1>t DEF ParsePatch, TypeOK, Goes, locals
  <2>2. /\ pc[c] = "parse" /\ req[c].method = "patch" /\ pc'[c] = "lock"
        /\ user'[c].profile = Merged(user[c].profile, req[c].body)
    BY <1>5, <1>t DEF ParsePatch, TypeOK, User, Goes, At
  <2>3. ~stale[c] => Fresh(c)
    BY <2>2 DEF PatchInv, Holding
  <2>4. ~stale[c] => Fresh(c)'
    BY <2>1, <2>2, <2>3 DEF Fresh, Found, store
  <2> QED BY <2>1, <2>4, <1>1
<1>6. ASSUME NEW c \in Clients, Lock(c) PROVE PatchInv'
  <2>1. /\ UNCHANGED <<store, stale, req, user>> /\ pc[c] = "lock" /\ pc'[c] = "locked"
        /\ \A d \in Clients \ {c} : UNCHANGED <<pc[d], req[d], user[d]>>
    BY <1>6, <1>t DEF Lock, TypeOK, Goes, locals
  <2>2. c \in Holding(req[c].id)' /\ ~stale'[c] => Fresh(c)'
    BY <2>1 DEF PatchInv, Holding, Fresh, Found, store
  <2> QED BY <2>1, <2>2, <1>1
<1>7. ASSUME NEW c \in Clients, Insert(c) PROVE PatchInv'
  <2>1. /\ UNCHANGED <<stale, req, user>> /\ pc'[c] = "done"
        /\ \A d \in Clients \ {c} : UNCHANGED <<pc[d], req[d], user[d]>>
    BY <1>7, <1>t DEF Insert, TypeOK, Goes, Answers, locals
  <2>2. user[c].id \notin DOMAIN users
    BY <1>7, <1>t DEF Insert, StoreInv, NumberIsNext, StoredUnderID, TypeOK
  <2>3. \A i \in DOMAIN users : i \in DOMAIN users' /\ users'[i] = users[i]
    BY <1>7, <2>2 DEF Insert
  <2>4. ASSUME NEW d \in Clients \ {c}
        PROVE  d \in Holding(req[d].id)' /\ ~stale'[d] => Fresh(d)'
    BY <2>1, <2>3, UndisturbedPatch DEF Found
  <2>5. c \notin Holding(req[c].id)'
    BY <2>1 DEF Holding
  <2> QED BY <2>4, <2>5 DEF PatchInv
<1>8. ASSUME NEW c \in Clients, Update(c) \/ Delete(c) PROVE PatchInv'
  <2>1. /\ UNCHANGED <<req, user>> /\ pc'[c] = "done"
        /\ \A d \in Clients \ {c} : UNCHANGED <<pc[d], req[d], user[d]>>
    BY <1>8, <1>t DEF Update, Delete, TypeOK, Goes, Answers, locals
  <2>2. \/ UNCHANGED <<users, stale>>
        \/ /\ Overtakes(c, req[c].id)
           /\ \A i \in DOMAIN users \ {req[c].id} :
                 i \in DOMAIN users' /\ users'[i] = users[i]
    BY <1>8, <1>t DEF Update, Delete, TypeOK
  <2>3. ASSUME NEW d \in Clients \ {c}
        PROVE  d \in Holding(req[d].id)' /\ ~stale'[d] => Fresh(d)'
    <3>1. stale[d] => stale'[d]
      BY <2>2 DEF Overtakes
    <3>2. CASE UNCHANGED <<users, stale>>
      BY <2>1, <3>1, <3>2, UndisturbedPatch DEF Found
    <3>3. CASE Overtakes(c, req[c].id) /\ req[d].id = req[c].id
      <4>1. d \in Holding(req[d].id)' => d \in Holding(req[c].id)
        BY <2>1, <3>3 DEF Holding
      <4>2. d \in Holding(req[c].id) => stale'[d]
        BY <3>3 DEF Overtakes
      <4> QED BY <4>1, <4>2
    <3>4. CASE /\ req[d].id # req[c].id
               /\ \A i \in DOMAIN users \ {req[c].id} :
                     i \in DOMAIN users' /\ users'[i] = users[i]
      BY <2>1, <3>1, <3>4, UndisturbedPatch DEF Found
    <3> QED BY <2>2, <3>2, <3>3, <3>4
  <2>4. c \notin Holding(req[c].id)'
    BY <2>1 DEF Holding
  <2> QED BY <2>3, <2>4 DEF PatchInv
<1>9. ASSUME NEW c \in Clients, Respond(c) PROVE PatchInv'
  <2>1. /\ UNCHANGED store /\ pc'[c] = "idle"
        /\ \A d \in Clients \ {c} : UNCHANGED <<pc[d], req[d], user[d], stale[d]>>
    BY <1>9, <1>t DEF Respond, TypeOK, Goes
  <2>2. ASSUME NEW d \in Clients \ {c}
        PROVE  d \in Holding(req[d].id)' /\ ~stale'[d] => Fresh(d)'
    BY <2>1, UndisturbedPatch DEF store, Found
  <2>3. c \notin Holding(req[c].id)'
    BY <2>1 DEF Holding
  <2> QED BY <2>2, <2>3 DEF PatchInv
<1>10. CASE UNCHANGED vars
  BY <1>10 DEF vars, store, locals, PatchInv, Holding, Fresh, Found
<1> QED BY <1>2, <1>3, <1>4, <1>5, <1>6, <1>7, <1>8, <1>9, <1>10 DEF Next, Step, Handle

\* A PATCH that nobody has overtaken writes what it was sent, and no more.
THEOREM PatchCurrent == Spec => []PatchIsCurrent
<1>1. Init => PatchInv
  BY DEF Init, PatchInv, Holding
<1>2. StoreInv /\ PatchInv /\ [Next]_vars => PatchInv'
  BY PatchStep
<1>3. PatchInv => PatchIsCurrent
  <2> SUFFICES ASSUME PatchInv, NEW c \in Clients, At(c, "locked", {"patch"}), ~stale[c]
               PROVE  /\ Found(c)
                      /\ LET sent == DOMAIN req[c].body \cap Fields IN
                         /\ \A f \in sent : user[c].profile[f] = req[c].body[f]
                         /\ \A f \in Fields \ sent :
                              user[c].profile[f] = users[req[c].id].profile[f]
    BY DEF PatchIsCurrent
  <2>1. Fresh(c) /\ pc[c] = "locked"
    BY DEF PatchInv, Holding, At
  <2>2. /\ Found(c)
        /\ user[c].profile = Merged(users[req[c].id].profile, req[c].body)
    BY <2>1 DEF Fresh
  <2> QED BY <2>2 DEF Merged
<1> QED BY <1>1, <1>2, <1>3, StoreConsistent, PTL DEF Spec

-----------------------------------------------------------------------------
(* A new user has the profile of its request from the parse to the answer. *)

NewProfile(c) ==
  \/ At(c, "lock", {"create"}) \/ At(c, "locked", {"create"}) \/ pc[c] = "insert"
  \/ Created(c)

CreatedInv ==
  /\ nextID > Len(Seeds)
  /\ \A c \in Clients : NewProfile(c) => user[c].profile = Parsed(req[c].body)
  /\ \A c \in Clients : Created(c) => user[c].id \in (Len(Seeds) + 1)..(nextID - 1)
  /\ \A c, d \in Clients : c # d /\ Created(c) /\ Created(d) => user[c].id # user[d].id

LEMMA CreatedStep == StoreInv /\ CreatedInv /\ [Next]_vars => CreatedInv'
<1> SUFFICES ASSUME StoreInv, CreatedInv, [Next]_vars PROVE CreatedInv'
  OBVIOUS
<1>t. TypeOK /\ Len(Seeds) \in Nat
  BY UserApiAssumption DEF StoreInv
<1>1. ASSUME NEW c \in Clients, UNCHANGED nextID, ~Created(c)',
             \A d \in Clients \ {c} : UNCHANGED <<pc[d], req[d], user[d], status[d]>>,
             NewProfile(c)' => user'[c].profile = Parsed(req'[c].body)
      PROVE  CreatedInv'
  BY <1>1 DEF CreatedInv, NewProfile, Created, At
<1>2. ASSUME NEW c \in Clients, Receive(c) PROVE CreatedInv'
  <2>1. /\ UNCHANGED <<nextID, user, status>> /\ pc'[c] \in {"rlock", "parse", "lock"}
        /\ \A d \in Clients \ {c} : UNCHANGED <<pc[d], req[d]>>
    BY <1>2, <1>t DEF Receive, TypeOK, store, locals, Goes, Start
  <2>2. pc'[c] = "lock" => req'[c].method # "create"
    <3>1. PICK r \in Requests : /\ req' = [req EXCEPT ![c] = r]
                                /\ pc' = [pc EXCEPT ![c] = Start(r.method)]
      BY <1>2 DEF Receive, Goes
    <3> QED BY <3>1, <1>t DEF TypeOK, Start
  <2>3. ~NewProfile(c)' /\ ~Created(c)'
    BY <2>1, <2>2 DEF NewProfile, At, Created
  <2> QED BY <2>1, <2>3, <1>1
<1>3. ASSUME NEW c \in Clients,
             \/ Refuse(c) \/ RLock(c) \/ GetByID(c) \/ GetAll(c) \/ Range(c)
             \/ GetAllReturns(c) \/ ParseRefused(c) \/ ParsePatch(c) \/ Update(c)
             \/ Delete(c) \/ Respond(c)
      PROVE  CreatedInv'
  <2>1. /\ UNCHANGED nextID
        /\ \A d \in Clients \ {c} : UNCHANGED <<pc[d], req[d], user[d], status[d]>>
    <3>1. CASE Refuse(c) \/ RLock(c) \/ GetByID(c) \/ GetAll(c) \/ Range(c)
      BY <3>1, <1>t DEF Refuse, RLock, GetByID, GetAll, Range, TypeOK, store, locals,
                        Goes, Answers
    <3>2. CASE GetAllReturns(c) \/ ParseRefused(c) \/ ParsePatch(c) \/ Update(c)
      BY <3>2, <1>t DEF GetAllReturns, ParseRefused, ParsePatch, Update, TypeOK, store,
                        locals, Goes, Answers
    <3>3. CASE Delete(c) \/ Respond(c)
      BY <3>3, <1>t DEF Delete, Respond, TypeOK, store, locals, Goes, Answers
    <3> QED BY <1>3, <3>1, <3>2, <3>3
  <2>2. /\ pc'[c] = "done" => status'[c] # 201
        /\ pc'[c] = "lock" => req'[c].method = "patch"
        /\ pc'[c] \notin {"locked", "insert"}
    <3>1. CASE Refuse(c) \/ RLock(c) \/ GetByID(c) \/ GetAll(c) \/ Range(c)
      BY <3>1, <1>t DEF Refuse, RLock, GetByID, GetAll, Range, TypeOK, Goes, Answers
    <3>2. CASE GetAllReturns(c) \/ ParseRefused(c) \/ ParsePatch(c) \/ Update(c)
      BY <3>2, <1>t DEF GetAllReturns, ParseRefused, ParsePatch, Update, TypeOK,
                        Goes, Answers, At
    <3>3. CASE Delete(c) \/ Respond(c)
      BY <3>3, <1>t DEF Delete, Respond, TypeOK, Goes, Answers
    <3> QED BY <1>3, <3>1, <3>2, <3>3
  <2>3. ~NewProfile(c)' /\ ~Created(c)'
    BY <2>2 DEF NewProfile, At, Created
  <2> QED BY <2>1, <2>3, <1>1
<1>4. ASSUME NEW c \in Clients, ParseNew(c) \/ Lock(c) \/ Number(c) PROVE CreatedInv'
  <2>1. /\ UNCHANGED <<nextID, req>> /\ pc'[c] # "done"
        /\ \A d \in Clients \ {c} : UNCHANGED <<pc[d], req[d], user[d], status[d]>>
    BY <1>4, <1>t DEF ParseNew, Lock, Number, TypeOK, store, locals, Goes
  <2>2. NewProfile(c)' => user'[c].profile = Parsed(req[c].body)
    <3>1. CASE ParseNew(c)
      BY <3>1, <1>t DEF ParseNew, TypeOK, User
    <3>2. CASE Lock(c)
      BY <3>2, <1>t DEF Lock, TypeOK, locals, Goes, CreatedInv, NewProfile, At, Created
    <3>3. CASE Number(c)
      BY <3>3, <1>t DEF Number, TypeOK, User, CreatedInv, NewProfile, At
    <3> QED BY <1>4, <3>1, <3>2, <3>3
  <2>3. ~Created(c)'
    BY <2>1 DEF Created
  <2> QED BY <2>1, <2>2, <2>3, <1>1
<1>5. ASSUME NEW c \in Clients, Insert(c) PROVE CreatedInv'
  <2>1. /\ UNCHANGED <<user, req>> /\ nextID' = nextID + 1 /\ user[c].id = nextID
        /\ user[c].profile = Parsed(req[c].body)
        /\ \A d \in Clients \ {c} : UNCHANGED <<pc[d], status[d]>>
    BY <1>5, <1>t DEF Insert, TypeOK, StoreInv, NumberIsNext, locals, Goes, Answers,
                      CreatedInv, NewProfile
  <2>2. \A d \in Clients \ {c} :
          /\ Created(d)' => Created(d) /\ user[d].id \in (Len(Seeds) + 1)..(nextID - 1)
          /\ NewProfile(d)' => NewProfile(d)
    BY <2>1 DEF Created, NewProfile, At, CreatedInv
  <2>3. nextID \in Nat /\ nextID > Len(Seeds)
    BY <1>t DEF TypeOK, CreatedInv
  <2>4. \A d \in Clients : Created(d)' => user'[d].id \in (Len(Seeds) + 1)..(nextID' - 1)
    BY <2>1, <2>2, <2>3, <1>t
  <2>5. \A d \in Clients : NewProfile(d)' => user'[d].profile = Parsed(req'[d].body)
    BY <2>1, <2>2 DEF CreatedInv
  <2>6. \A d, e \in Clients :
          d # e /\ Created(d)' /\ Created(e)' => user'[d].id # user'[e].id
    <3> SUFFICES ASSUME NEW d \in Clients, NEW e \in Clients, d # e, Created(d)', Created(e)'
                 PROVE  user[d].id # user[e].id
      BY <2>1
    <3>1. CASE d # c /\ e # c
      BY <3>1, <2>2 DEF CreatedInv
    <3>2. CASE d = c \/ e = c
      BY <3>2, <2>1, <2>2, <2>3, <1>t
    <3> QED BY <3>1, <3>2
  <2>7. nextID' > Len(Seeds)
    BY <2>1, <2>3, <1>t
  <2> QED BY <2>4, <2>5, <2>6, <2>7 DEF CreatedInv
<1>6. CASE UNCHANGED vars
  BY <1>6 DEF vars, store, locals, CreatedInv, NewProfile, At, Created
<1> QED BY <1>2, <1>3, <1>4, <1>5, <1>6 DEF Next, Step, Handle

\* Nobody is told an ID that was told to somebody else.
THEOREM CreatedOnce == Spec => []CreatedApart
<1>1. Init => CreatedInv
  <2> SUFFICES ASSUME Init PROVE CreatedInv
    OBVIOUS
  <2>1. nextID > Len(Seeds) /\ \A c \in Clients : pc[c] = "idle"
    BY UserApiAssumption DEF Init
  <2> QED BY <2>1 DEF CreatedInv, NewProfile, At, Created
<1>2. StoreInv /\ CreatedInv /\ [Next]_vars => CreatedInv'
  BY CreatedStep
<1>3. CreatedInv => CreatedApart
  BY DEF CreatedInv, CreatedApart, NewProfile
<1> QED BY <1>1, <1>2, <1>3, StoreConsistent, PTL DEF Spec
=============================================================================
