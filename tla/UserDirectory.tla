---------------------------- MODULE UserDirectory ----------------------------
(***************************************************************************)
(* What the user store of sample-projects/user-api promises, whoever calls *)
(* it: creating, replacing and deleting a user are single steps, an ID is  *)
(* given once, and a user is found under its own ID.                       *)
(***************************************************************************)
EXTENDS Naturals, Sequences

CONSTANTS
  Profiles,  \* what can be stored of a user, besides its ID
  Seeds      \* the users it starts with

VARIABLES
  users,   \* the users by ID
  nextID   \* the ID of the next user to be created

directory == <<users, nextID>>

User == [id : Nat, profile : Profiles]

DirectoryInit ==
  /\ users = [i \in 1..Len(Seeds) |-> [id |-> i, profile |-> Seeds[i]]]
  /\ nextID = Len(Seeds) + 1

Created(profile) ==
  /\ users' = [i \in DOMAIN users \cup {nextID} |->
                 IF i = nextID THEN [id |-> i, profile |-> profile] ELSE users[i]]
  /\ nextID' = nextID + 1

Replaced(id, profile) ==
  /\ id \in DOMAIN users
  /\ users' = [users EXCEPT ![id] = [id |-> id, profile |-> profile]]
  /\ nextID' = nextID

Deleted(id) ==
  /\ id \in DOMAIN users
  /\ users' = [i \in DOMAIN users \ {id} |-> users[i]]
  /\ nextID' = nextID

DirectoryNext ==
  \/ \E p \in Profiles : Created(p)
  \/ \E id \in DOMAIN users, p \in Profiles : Replaced(id, p)
  \/ \E id \in DOMAIN users : Deleted(id)

DirectorySpec == DirectoryInit /\ [][DirectoryNext]_directory
=============================================================================
