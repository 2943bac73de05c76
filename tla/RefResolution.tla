---------------------------- MODULE RefResolution ----------------------------
(***************************************************************************)
(* resolveRefsInPlace and resolveOne (kubeopenapi/refs.go): the walk of a  *)
(* schema that replaces each local $ref by a copy of its definition.       *)
(*                                                                         *)
(* A schema is a table of nodes; a node is a Go map, a function from the   *)
(* keywords it has.  "props" takes names to the nodes of its properties,   *)
(* "items" is a node, "ref" a $ref.  The recursion is a stack of frames,   *)
(* one per schema that is being walked.  Go ranges over a map in any       *)
(* order: so does the walk over the properties of a node.                  *)
(***************************************************************************)
EXTENDS Naturals, Sequences

CONSTANTS
  DefKeys,  \* the keys of $defs that a reference may name, known or not
  Foreign,  \* the references that are not local
  Tables    \* the schemas: [nodes : a sequence of nodes, hasDefs, defs]

NoKey == "none"

Has(node, keyword) == keyword \in DOMAIN node

\* The schemas a node holds: those of its properties, and of its items.
Slots(node) ==
  (IF Has(node, "props") THEN {"props"} \X DOMAIN node.props ELSE {})
    \cup (IF Has(node, "items") THEN {<<"items", "">>} ELSE {})

Held(node, slot) == IF slot[1] = "items" THEN node.items ELSE node.props[slot[2]]

HeldBy(node) == {Held(node, slot) : slot \in Slots(node)}

\* A Go map and the maps below it, the outermost first
IsTable(t) ==
  /\ t # <<>> /\ t \in Seq({t[i] : i \in DOMAIN t})
  /\ \A i \in DOMAIN t : HeldBy(t[i]) \subseteq DOMAIN t

ASSUME KeysAssumption ==
  /\ NoKey \notin DefKeys \cup Foreign /\ DefKeys \cap Foreign = {}
  /\ \A table \in Tables : DOMAIN table.defs \subseteq DefKeys

ASSUME TablesAssumption ==
  \A table \in Tables :
    IsTable(table.nodes) /\ \A k \in DOMAIN table.defs : IsTable(table.defs[k])

VARIABLES
  heap,     \* the nodes, with the copies made so far
  document, \* the schema as it was given
  stack,    \* the schemas being walked, the innermost last
  visited,  \* the keys being expanded
  warned    \* the warnings, each with the reference it is about

refVars == <<heap, document, stack, visited, warned>>

-----------------------------------------------------------------------------
\* extractDefs
defs == document.defs

\* deepCopyMap: the nodes of a table as they are when n others precede them.
Copied(table, n) ==
  LET moved(node) ==
        [w \in DOMAIN node |->
           CASE w = "props" -> [p \in DOMAIN node.props |-> node.props[p] + n]
             [] w = "items" -> node.items + n
             [] OTHER       -> node[w]]
  IN  [i \in DOMAIN table |-> moved(table[i])]

\* delete(s, "$ref"), then what s lacks is taken over from the copy.
MergedInto(s, copy) ==
  LET kept == DOMAIN s \ {"ref"}
  IN  [w \in kept \cup DOMAIN copy |-> IF w \in kept THEN s[w] ELSE copy[w]]

Frame(at, node, key, into) ==
  [at |-> at, todo |-> Slots(node), key |-> key, into |-> into]

NoFrame == [at |-> 0, todo |-> {}, key |-> NoKey, into |-> 0]
Top     == IF stack = <<>> THEN NoFrame ELSE stack[Len(stack)]
Outer   == SubSeq(stack, 1, Len(stack) - 1)

\* The schema that the walk turns to next.
Turns(slot) == slot \in Top.todo /\ (slot[1] = "items" => Top.todo = {slot})
Child(slot) == Held(heap[Top.at], slot)

Walked(slot) == Append(Outer, [Top EXCEPT !.todo = @ \ {slot}])

-----------------------------------------------------------------------------
\* resolveOne: the reference stays as it is, with a warning.
Objection(ref) ==
  IF ref \in Foreign THEN "not local"
  ELSE IF ref \notin DOMAIN defs THEN "unknown"
  ELSE IF ref \in visited THEN "cyclic" ELSE "none"

\* Mutant: a reference that cannot be expanded now is tried again.
LeaveForLater(slot) ==
  /\ Turns(slot)
  /\ LET s == heap[Child(slot)] IN
     /\ Has(s, "ref") /\ Objection(s.ref) # "none"
     /\ warned' = warned \cup {<<Objection(s.ref), s.ref>>}
  /\ UNCHANGED <<heap, document, stack, visited>>

Leave(slot) ==
  /\ Turns(slot)
  /\ LET s == heap[Child(slot)] IN
     /\ Has(s, "ref") /\ Objection(s.ref) # "none"
     /\ warned' = warned \cup {<<Objection(s.ref), s.ref>>}
  /\ stack' = Walked(slot)
  /\ UNCHANGED <<heap, document, visited>>

\* A copy of the definition is walked, and its key is visited meanwhile.
Expand(slot) ==
  /\ Turns(slot)
  /\ LET s    == heap[Child(slot)]
         root == Len(heap) + 1
         copy == Copied(defs[s.ref], Len(heap))
     IN  /\ Has(s, "ref") /\ Objection(s.ref) = "none"
         /\ heap' = heap \o copy
         /\ visited' = visited \cup {s.ref}
         /\ stack' = Append(Walked(slot), Frame(root, copy[1], s.ref, Child(slot)))
  /\ UNCHANGED <<document, warned>>

Descend(slot) ==
  /\ Turns(slot) /\ ~Has(heap[Child(slot)], "ref")
  /\ stack' = Append(Walked(slot),
                     Frame(Child(slot), heap[Child(slot)], NoKey, 0))
  /\ UNCHANGED <<heap, document, visited, warned>>

\* Mutant: the key of an expansion that is over is still visited.
FinishStillVisited ==
  /\ stack # <<>> /\ Top.todo = {}
  /\ stack' = Outer
  /\ IF Top.key = NoKey
     THEN UNCHANGED heap
     ELSE heap' = [heap EXCEPT ![Top.into] = MergedInto(@, heap[Top.at])]
  /\ UNCHANGED <<document, visited, warned>>

Finish ==
  /\ stack # <<>> /\ Top.todo = {}
  /\ stack' = Outer
  /\ IF Top.key = NoKey
     THEN UNCHANGED <<heap, visited>>
     ELSE /\ heap' = [heap EXCEPT ![Top.into] = MergedInto(@, heap[Top.at])]
          /\ visited' = visited \ {Top.key}
  /\ UNCHANGED <<document, warned>>

-----------------------------------------------------------------------------
\* Without $defs nothing is walked.
RefStart(table) ==
  /\ document = table
  /\ heap  = table.nodes
  /\ stack = IF table.hasDefs THEN <<Frame(1, table.nodes[1], NoKey, 0)>> ELSE <<>>

RefInit ==
  /\ \E table \in Tables : RefStart(table)
  /\ visited = {} /\ warned = {}

Resolve ==
  \/ Finish
  \/ \E slot \in Top.todo : Leave(slot) \/ Expand(slot) \/ Descend(slot)

RefSpec == RefInit /\ [][Resolve]_refVars

-----------------------------------------------------------------------------
Expanding == {i \in DOMAIN stack : stack[i].key # NoKey}

(***************************************************************************)
(* The keys in visited are those of the definitions being expanded, and    *)
(* none is being expanded twice: delete(visited, key) undoes what one call *)
(* has marked, and no other.  So a schema is never deeper in expansions    *)
(* than there are definitions, whatever cycles they form.                  *)
(***************************************************************************)
ExpansionsAreNested ==
  /\ visited = {stack[i].key : i \in Expanding}
  /\ \A i, j \in Expanding : stack[i].key = stack[j].key => i = j

NamedBy(k) == {n.ref : n \in {m \in {defs[k][i] : i \in DOMAIN defs[k]} : Has(m, "ref")}}

LeadsBack(k) ==
  \A S \in SUBSET DOMAIN defs :
    /\ NamedBy(k) \cap DOMAIN defs \subseteq S
    /\ \A j \in S : NamedBy(j) \cap DOMAIN defs \subseteq S
    => k \in S

(***************************************************************************)
(* A warning of a cycle is true: the definition it names leads, reference  *)
(* by reference, back to itself.  In particular two properties with the    *)
(* same $ref, or one behind the other, are no cycle.                       *)
(***************************************************************************)
CyclesAreReal == \A k \in DefKeys : <<"cyclic", k>> \in warned => LeadsBack(k)

\* The nodes of a table that node i holds, at any depth, and i itself.
Below(table, i) ==
  LET whole == {S \in SUBSET DOMAIN table :
                  i \in S /\ \A j \in S : HeldBy(table[j]) \subseteq S}
  IN  {j \in DOMAIN table : \A S \in whole : j \in S}

RefsBelow(table, i) ==
  {table[j].ref : j \in {m \in Below(table, i) \ {i} : Has(table[m], "ref")}}

Aliases == {defs[k][1].ref : k \in {j \in DOMAIN defs : Has(defs[j][1], "ref")}}

Originals == {document.nodes} \cup {defs[k] : k \in DOMAIN defs}

HeldBesideARef ==
  UNION {UNION {RefsBelow(table, i) :
                  i \in {j \in DOMAIN table : Has(table[j], "ref") /\ Slots(table[j]) # {}}} :
           table \in Originals}

(***************************************************************************)
(* Once the walk is over, a reference that is left in the schema has been  *)
(* warned of, except in the two cases the merge of resolveOne leaves: the  *)
(* reference of a definition that is nothing but a reference, and one in a *)
(* schema held by a node that has a $ref too.                              *)
(***************************************************************************)
LeftoversAreReported ==
  stack = <<>> /\ document.hasDefs =>
    RefsBelow(heap, 1) \subseteq
      {w[2] : w \in warned} \cup Aliases \cup HeldBesideARef

\* Of the warnings, both: none is false, and none is missing.
WarningsAreTrue == CyclesAreReal /\ LeftoversAreReported
=============================================================================
