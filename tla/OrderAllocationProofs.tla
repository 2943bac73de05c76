------------------------- MODULE OrderAllocationProofs -------------------------
(***************************************************************************)
(* Whatever the orders do at once, the inventory is accounted for, no order *)
(* is turned away for a shortage that there is not, and the orders are     *)
(* served as OrderLedger has it: for any number of orders and any stock.   *)
(*                                                                         *)
(* A sum over a finite set is a fold, a recursive function over subsets.   *)
(* What there is to know of it comes from a minimal counterexample: of the *)
(* sets for which a statement fails, one that contains no other.           *)
(***************************************************************************)
EXTENDS OrderAllocation, FiniteSetTheorems, SequenceTheorems, TLAPS

-----------------------------------------------------------------------------
(* Sums *)

\* A collection of finite sets has one that contains no other.
LEMMA MinimalSet ==
  ASSUME NEW C, C # {}, \A S \in C : IsFiniteSet(S)
  PROVE  \E S \in C : \A T \in C : ~(T \subseteq S /\ T # S)
<1> DEFINE U == UNION C
           R == StrictSubsetOrdering(U)
<1>1. C \subseteq FiniteSubsetsOf(U)
  BY DEF FiniteSubsetsOf
<1>2. IsWellFoundedOn(R, FiniteSubsetsOf(U))
  BY FS_StrictSubsetOrderingWellFounded
<1> HIDE DEF R
<1>3. PICK S \in C : \A T \in C : ~(<<T, S>> \in R)
  BY <1>1, <1>2, WFMin
<1>4. ASSUME NEW T \in C
      PROVE  ~(T \subseteq S /\ T # S)
  <2>1. <<T, S>> \in (SUBSET U) \X (SUBSET U)
    OBVIOUS
  <2>2. <<T, S>> \notin R
    BY <1>3
  <2> QED BY <2>1, <2>2 DEF R, StrictSubsetOrdering
<1> QED BY <1>4

Chosen(S) == CHOOSE x \in S : TRUE

Less(S) == S \ {Chosen(S)}

LEMMA ChosenFacts ==
  ASSUME NEW S, S # {}
  PROVE  Chosen(S) \in S /\ Less(S) \subseteq S /\ Less(S) # S
<1>1. Chosen(S) \in S
  BY DEF Chosen
<1> QED BY <1>1 DEF Less

\* g holds the sums of f over the subsets of S.
IsSum(g, f, S) ==
  g = [T \in SUBSET S |-> IF T = {} THEN 0 ELSE f[Chosen(T)] + g[Less(T)]]

\* The sums over a set do not depend on the set they are taken in.
LEMMA SumsAgree ==
  ASSUME NEW f, NEW S, NEW T, IsFiniteSet(S), NEW g, NEW h, IsSum(g, f, S), IsSum(h, f, T)
  PROVE  \A U : U \subseteq S /\ U \subseteq T => g[U] = h[U]
<1> DEFINE C == {U \in SUBSET S : U \subseteq T /\ g[U] # h[U]}
<1> SUFFICES ASSUME C # {} PROVE FALSE
  OBVIOUS
<1>0. \A U \in C : IsFiniteSet(U)
  BY FS_Subset
<1>1. PICK U \in C : \A V \in C : ~(V \subseteq U /\ V # U)
  <2> HIDE DEF C
  <2> QED BY <1>0, MinimalSet
<1>2. U \in SUBSET S /\ U \in SUBSET T
  OBVIOUS
<1>3. /\ g[U] = IF U = {} THEN 0 ELSE f[Chosen(U)] + g[Less(U)]
      /\ h[U] = IF U = {} THEN 0 ELSE f[Chosen(U)] + h[Less(U)]
  BY <1>2 DEF IsSum
<1>4. U # {}
  BY <1>3
<1>5. Less(U) \notin C
  BY <1>1, <1>4, ChosenFacts
<1>6. g[Less(U)] = h[Less(U)]
  BY <1>2, <1>4, <1>5, ChosenFacts
<1> QED BY <1>3, <1>6

LEMMA SumsExist ==
  ASSUME NEW f, NEW S, IsFiniteSet(S)
  PROVE  \E g : IsSum(g, f, S)
<1> DEFINE C == {T \in SUBSET S : ~ \E g : IsSum(g, f, T)}
<1> SUFFICES ASSUME C # {} PROVE FALSE
  OBVIOUS
<1>0. \A T \in C : IsFiniteSet(T)
  BY FS_Subset
<1>1. PICK T \in C : \A V \in C : ~(V \subseteq T /\ V # T)
  <2> HIDE DEF C
  <2> QED BY <1>0, MinimalSet
<1> DEFINE G(V) == CHOOSE g : IsSum(g, f, V)
           val(V) == IF V = {} THEN 0 ELSE f[Chosen(V)] + G(Less(V))[Less(V)]
           h == [V \in SUBSET T |-> val(V)]
<1>2. ASSUME NEW V \in SUBSET T, V # T
      PROVE  IsSum(G(V), f, V)
  <2>1. V \in SUBSET S /\ V \notin C
    BY <1>1, <1>2
  <2>2. \E g : IsSum(g, f, V)
    BY <2>1
  <2> QED BY <2>2
<1> HIDE DEF G
<1>3. ASSUME NEW V \in SUBSET T, V # T
      PROVE  G(V)[V] = val(V)
  <2>1. G(V)[V] = IF V = {} THEN 0 ELSE f[Chosen(V)] + G(V)[Less(V)]
    BY <1>2, <1>3 DEF IsSum
  <2>2. CASE V # {}
    <3>1. Less(V) \in SUBSET T /\ Less(V) # T /\ Less(V) \subseteq V
      BY <1>3, <2>2, ChosenFacts
    <3>2. IsSum(G(V), f, V) /\ IsSum(G(Less(V)), f, Less(V)) /\ IsFiniteSet(V)
      BY <1>2, <1>3, <3>1, FS_Subset
    <3>3. G(V)[Less(V)] = G(Less(V))[Less(V)]
      BY <3>1, <3>2, SumsAgree
    <3> QED BY <2>1, <2>2, <3>3
  <2> QED BY <2>1, <2>2
<1>4. ASSUME NEW V \in SUBSET T, V # {}
      PROVE  h[Less(V)] = G(Less(V))[Less(V)]
  <2>1. Less(V) \in SUBSET T /\ Less(V) # T
    BY <1>4, ChosenFacts
  <2> QED BY <1>3, <2>1
<1>5. \A V \in SUBSET T : h[V] = IF V = {} THEN 0 ELSE f[Chosen(V)] + h[Less(V)]
  BY <1>4
<1>6. IsSum(h, f, T)
  BY <1>5 DEF IsSum
<1> QED BY <1>1, <1>6

LEMMA SumIs ==
  ASSUME NEW f, NEW S, IsFiniteSet(S)
  PROVE  \E g : IsSum(g, f, S) /\ SumFunctionOnSet(f, S) = g[S]
<1> DEFINE g == CHOOSE g : IsSum(g, f, S)
<1>1. IsSum(g, f, S)
  BY SumsExist
<1>2. SumFunctionOnSet(f, S) = g[S]
  BY DEF SumFunctionOnSet, FoldFunctionOnSet, MapThenFoldSet, IsSum, Chosen, Less
<1> QED BY <1>1, <1>2

LEMMA SumStep ==
  ASSUME NEW f, NEW S, IsFiniteSet(S)
  PROVE  SumFunctionOnSet(f, S) = IF S = {} THEN 0 ELSE f[Chosen(S)] + SumFunctionOnSet(f, Less(S))
<1>1. PICK g : IsSum(g, f, S) /\ SumFunctionOnSet(f, S) = g[S]
  BY SumIs
<1>2. SumFunctionOnSet(f, S) = IF S = {} THEN 0 ELSE f[Chosen(S)] + g[Less(S)]
  BY <1>1 DEF IsSum
<1>3. CASE S # {}
  <2>1. Less(S) \subseteq S /\ IsFiniteSet(Less(S))
    BY <1>3, ChosenFacts, FS_Subset
  <2>2. PICK h : IsSum(h, f, Less(S)) /\ SumFunctionOnSet(f, Less(S)) = h[Less(S)]
    BY <2>1, SumIs
  <2>3. g[Less(S)] = h[Less(S)]
    BY <1>1, <2>1, <2>2, SumsAgree
  <2> QED BY <1>2, <1>3, <2>2, <2>3
<1> QED BY <1>2, <1>3

LEMMA SumType ==
  ASSUME NEW f, NEW S, IsFiniteSet(S), \A x \in S : f[x] \in Int
  PROVE  SumFunctionOnSet(f, S) \in Int
<1> DEFINE C == {T \in SUBSET S : SumFunctionOnSet(f, T) \notin Int}
<1> SUFFICES ASSUME C # {} PROVE FALSE
  OBVIOUS
<1>0. \A T \in C : IsFiniteSet(T)
  BY FS_Subset
<1>1. PICK T \in C : \A V \in C : ~(V \subseteq T /\ V # T)
  <2> HIDE DEF C
  <2> QED BY <1>0, MinimalSet
<1>2. T # {} /\ SumFunctionOnSet(f, T) = f[Chosen(T)] + SumFunctionOnSet(f, Less(T))
  <2>1. SumFunctionOnSet(f, T) = IF T = {} THEN 0 ELSE f[Chosen(T)] + SumFunctionOnSet(f, Less(T))
    BY <1>0, SumStep
  <2>2. SumFunctionOnSet(f, T) \notin Int
    OBVIOUS
  <2> QED BY <2>1, <2>2
<1>3. Chosen(T) \in S /\ SumFunctionOnSet(f, Less(T)) \in Int
  BY <1>1, <1>2, ChosenFacts
<1> QED BY <1>2, <1>3

\* Any element can be taken out of a sum.
LEMMA SumWithout ==
  ASSUME NEW f, NEW S, IsFiniteSet(S), \A x \in S : f[x] \in Int, NEW a \in S
  PROVE  SumFunctionOnSet(f, S) = f[a] + SumFunctionOnSet(f, S \ {a})
<1> DEFINE C == {T \in SUBSET S : \E x \in T : SumFunctionOnSet(f, T) # f[x] + SumFunctionOnSet(f, T \ {x})}
<1> SUFFICES ASSUME C # {} PROVE FALSE
  OBVIOUS
<1>0. \A T \in SUBSET S : IsFiniteSet(T) /\ SumFunctionOnSet(f, T) \in Int
  BY FS_Subset, SumType
<1>1. PICK T \in C : \A V \in C : ~(V \subseteq T /\ V # T)
  <2>1. \A T \in C : IsFiniteSet(T)
    BY <1>0
  <2> HIDE DEF C
  <2> QED BY <2>1, MinimalSet
<1>2. PICK x \in T : SumFunctionOnSet(f, T) # f[x] + SumFunctionOnSet(f, T \ {x})
  OBVIOUS
<1> DEFINE c == Chosen(T)
<1>3. c \in T /\ c # x /\ SumFunctionOnSet(f, T) = f[c] + SumFunctionOnSet(f, T \ {c})
  BY <1>0, <1>2, SumStep, ChosenFacts DEF Less
<1> HIDE DEF c
<1>4. \A V \in SUBSET T : V # T => \A y \in V : SumFunctionOnSet(f, V) = f[y] + SumFunctionOnSet(f, V \ {y})
  BY <1>1
<1>5. /\ SumFunctionOnSet(f, T \ {c}) = f[x] + SumFunctionOnSet(f, (T \ {c}) \ {x})
      /\ SumFunctionOnSet(f, T \ {x}) = f[c] + SumFunctionOnSet(f, (T \ {x}) \ {c})
  BY <1>2, <1>3, <1>4
<1>6. (T \ {c}) \ {x} = (T \ {x}) \ {c}
  OBVIOUS
<1>7. f[x] \in Int /\ f[c] \in Int /\ SumFunctionOnSet(f, (T \ {x}) \ {c}) \in Int
  BY <1>0, <1>3
<1> DEFINE rest == SumFunctionOnSet(f, (T \ {x}) \ {c})
<1>8. /\ SumFunctionOnSet(f, T) = f[c] + (f[x] + rest) /\ SumFunctionOnSet(f, T \ {x}) = f[c] + rest
      /\ f[x] \in Int /\ f[c] \in Int /\ rest \in Int
  BY <1>3, <1>5, <1>6, <1>7
<1> HIDE DEF rest
<1>9. f[c] + (f[x] + rest) = f[x] + (f[c] + rest)
  BY <1>8
<1> QED BY <1>2, <1>8, <1>9

LEMMA SumOfNone ==
  ASSUME NEW f
  PROVE  SumFunctionOnSet(f, {}) = 0
BY SumStep, FS_EmptySet

LEMMA SumSame ==
  ASSUME NEW f, NEW g, NEW S, IsFiniteSet(S), \A x \in S : f[x] = g[x]
  PROVE  SumFunctionOnSet(f, S) = SumFunctionOnSet(g, S)
<1> DEFINE C == {T \in SUBSET S : SumFunctionOnSet(f, T) # SumFunctionOnSet(g, T)}
<1> SUFFICES ASSUME C # {} PROVE FALSE
  OBVIOUS
<1>0. \A T \in C : IsFiniteSet(T)
  BY FS_Subset
<1>1. PICK T \in C : \A V \in C : ~(V \subseteq T /\ V # T)
  <2> HIDE DEF C
  <2> QED BY <1>0, MinimalSet
<1>2. /\ SumFunctionOnSet(f, T) = IF T = {} THEN 0 ELSE f[Chosen(T)] + SumFunctionOnSet(f, Less(T))
      /\ SumFunctionOnSet(g, T) = IF T = {} THEN 0 ELSE g[Chosen(T)] + SumFunctionOnSet(g, Less(T))
  BY <1>0, SumStep
<1>3. T # {} /\ Less(T) \notin C
  BY <1>1, <1>2, ChosenFacts
<1>4. SumFunctionOnSet(f, Less(T)) = SumFunctionOnSet(g, Less(T)) /\ f[Chosen(T)] = g[Chosen(T)]
  BY <1>3, ChosenFacts
<1> QED BY <1>2, <1>4

\* What is left out of a sum makes no difference if it is zero, and makes it
\* no greater if it is not negative.
LEMMA SumOfMore ==
  ASSUME NEW f, NEW T, IsFiniteSet(T), \A x \in T : f[x] \in Int, NEW S \in SUBSET T,
         \A x \in T \ S : f[x] >= 0
  PROVE  /\ SumFunctionOnSet(f, S) <= SumFunctionOnSet(f, T)
         /\ (\A x \in T \ S : f[x] = 0) => SumFunctionOnSet(f, S) = SumFunctionOnSet(f, T)
<1> DEFINE C == {U \in SUBSET T : S \subseteq U /\
                   ~(/\ SumFunctionOnSet(f, S) <= SumFunctionOnSet(f, U)
                     /\ (\A x \in T \ S : f[x] = 0) => SumFunctionOnSet(f, S) = SumFunctionOnSet(f, U))}
<1> SUFFICES ASSUME C # {} PROVE FALSE
  OBVIOUS
<1>0. \A U \in SUBSET T : IsFiniteSet(U) /\ SumFunctionOnSet(f, U) \in Int
  BY FS_Subset, SumType
<1>1. PICK U \in C : \A V \in C : ~(V \subseteq U /\ V # U)
  <2>1. \A U \in C : IsFiniteSet(U)
    BY <1>0
  <2> HIDE DEF C
  <2> QED BY <2>1, MinimalSet
<1>2. U # S
  BY <1>0
<1>3. PICK a \in U : a \notin S
  BY <1>2
<1>4. SumFunctionOnSet(f, U) = f[a] + SumFunctionOnSet(f, U \ {a})
  BY <1>0, SumWithout
<1>5. /\ SumFunctionOnSet(f, S) <= SumFunctionOnSet(f, U \ {a})
      /\ (\A x \in T \ S : f[x] = 0) => SumFunctionOnSet(f, S) = SumFunctionOnSet(f, U \ {a})
  BY <1>1, <1>3
<1>6. /\ f[a] \in Int /\ f[a] >= 0
      /\ (\A x \in T \ S : f[x] = 0) => f[a] = 0
  BY <1>3
<1>7. SumFunctionOnSet(f, S) \in Int /\ SumFunctionOnSet(f, U) \in Int /\ SumFunctionOnSet(f, U \ {a}) \in Int
  BY <1>0
<1> QED BY <1>4, <1>5, <1>6, <1>7

LEMMA SumWith ==
  ASSUME NEW f, NEW S, IsFiniteSet(S), NEW a, a \notin S, \A x \in S \cup {a} : f[x] \in Int
  PROVE  SumFunctionOnSet(f, S \cup {a}) = f[a] + SumFunctionOnSet(f, S)
<1>1. IsFiniteSet(S \cup {a}) /\ (S \cup {a}) \ {a} = S
  BY FS_AddElement
<1> QED BY <1>1, SumWithout

\* A finite set of integers has a smallest.
LEMMA MinIsThere ==
  ASSUME NEW S \in SUBSET Int, IsFiniteSet(S), S # {}
  PROVE  Min(S) \in S
<1> DEFINE C == {T \in SUBSET S : T # {} /\ ~ \E x \in T : \A y \in T : x <= y}
<1>1. SUFFICES ASSUME C # {} PROVE FALSE
  BY DEF Min
<1>2. \A T \in C : IsFiniteSet(T)
  BY FS_Subset
<1>3. PICK T \in C : \A V \in C : ~(V \subseteq T /\ V # T)
  <2> HIDE DEF C
  <2> QED BY <1>1, <1>2, MinimalSet
<1>4. PICK a \in T : TRUE
  OBVIOUS
<1>5. T # {a}
  BY <1>4
<1>6. PICK m \in T \ {a} : \A y \in T \ {a} : m <= y
  <2>1. T \ {a} \in SUBSET S /\ T \ {a} # {} /\ T \ {a} # T
    BY <1>4, <1>5
  <2>2. T \ {a} \notin C
    BY <1>3, <2>1
  <2> QED BY <2>1, <2>2
<1>7. a \in Int /\ m \in Int /\ \A y \in T : y \in Int
  BY <1>4, <1>6
<1>8. CASE a <= m
  BY <1>4, <1>6, <1>7, <1>8
<1>9. CASE m <= a
  BY <1>4, <1>6, <1>7, <1>9
<1> QED BY <1>7, <1>8, <1>9

-----------------------------------------------------------------------------
(* What an order demands *)

LEMMA CartFacts ==
  ASSUME NEW o, cart[o] \in Seq(Item)
  PROVE  /\ Articles(o) \subseteq SKUs /\ IsFiniteSet(Articles(o))
         /\ cart[o] # <<>> => Articles(o) # {}
         /\ IsFiniteSet(DOMAIN cart[o])
         /\ \A i \in DOMAIN cart[o] : cart[o][i].sku \in SKUs /\ cart[o][i].qty \in Int
<1> DEFINE items == cart[o]
<1>1. Len(items) \in Nat /\ DOMAIN items = 1..Len(items)
  BY LenProperties
<1>2. IsFiniteSet(DOMAIN items)
  BY <1>1, FS_Interval
<1>3. \A i \in DOMAIN items : items[i].sku \in SKUs /\ items[i].qty \in Int
  <2>1. \A i \in DOMAIN items : items[i] \in Item
    BY <1>1, ElementOfSeq
  <2> QED BY <2>1 DEF Item
<1>4. IsFiniteSet(Articles(o))
  <2> DEFINE f == [i \in DOMAIN items |-> items[i].sku]
  <2>1. f \in Surjection(DOMAIN items, Articles(o))
    BY DEF Surjection, Articles
  <2> QED BY <1>2, <2>1, FS_Surjection
<1>5. items # <<>> => Articles(o) # {}
  <2> SUFFICES ASSUME items # <<>> PROVE 1 \in DOMAIN items
    BY DEF Articles
  <2> QED BY <1>1, EmptySeq
<1> QED BY <1>2, <1>3, <1>4, <1>5 DEF Articles

LEMMA QuantityFacts ==
  ASSUME NEW items \in Seq(Item), NEW s
  PROVE  /\ Quantity(items, s) \in Int
         /\ ~(\E i \in DOMAIN items : items[i].sku = s) => Quantity(items, s) = 0
         /\ ~Malformed(items) =>
              /\ Quantity(items, s) >= 0
              /\ (\E i \in DOMAIN items : items[i].sku = s) => Quantity(items, s) > 0
<1> DEFINE q == [i \in DOMAIN items |-> items[i].qty]
           S == {i \in DOMAIN items : items[i].sku = s}
<1>0. IsFiniteSet(DOMAIN items) /\ \A i \in DOMAIN items : items[i].qty \in Int
  <2>1. Len(items) \in Nat /\ DOMAIN items = 1..Len(items)
    BY LenProperties
  <2>2. \A i \in DOMAIN items : items[i] \in Item
    BY <2>1, ElementOfSeq
  <2>3. \A i \in DOMAIN items : items[i].qty \in Int
    BY <2>2 DEF Item
  <2>4. IsFiniteSet(DOMAIN items)
    BY <2>1, FS_Interval
  <2> QED BY <2>3, <2>4
<1>1. Quantity(items, s) = SumFunctionOnSet(q, S)
  BY DEF Quantity
<1>2. IsFiniteSet(S) /\ \A i \in S : q[i] \in Int
  BY <1>0, FS_Subset
<1>3. ~(\E i \in DOMAIN items : items[i].sku = s) => S = {}
  OBVIOUS
<1>4. (\E i \in DOMAIN items : items[i].sku = s) => S # {}
  OBVIOUS
<1>5. ~Malformed(items) => \A i \in S : q[i] > 0
  BY <1>0 DEF Malformed
<1> HIDE DEF q, S
<1>6. \A T \in SUBSET S : IsFiniteSet(T) /\ SumFunctionOnSet(q, T) \in Int
  BY <1>2, FS_Subset, SumType
<1>7. ASSUME \A i \in S : q[i] > 0, NEW T \in SUBSET S
      PROVE  SumFunctionOnSet(q, T) >= 0
  <2>1. \A i \in T \ {} : q[i] >= 0
    BY <1>2, <1>7
  <2>2. SumFunctionOnSet(q, {}) <= SumFunctionOnSet(q, T)
    BY <1>2, <1>6, <2>1, SumOfMore
  <2> QED BY <1>6, <2>2, SumOfNone
<1>8. ASSUME \A i \in S : q[i] > 0, NEW i \in S
      PROVE  SumFunctionOnSet(q, S) > 0
  <2>1. SumFunctionOnSet(q, S) = q[i] + SumFunctionOnSet(q, S \ {i})
    BY <1>2, SumWithout
  <2>2. SumFunctionOnSet(q, S \ {i}) >= 0 /\ SumFunctionOnSet(q, S \ {i}) \in Int
    BY <1>6, <1>7, <1>8
  <2>3. q[i] \in Int /\ q[i] > 0
    BY <1>2, <1>8
  <2> QED BY <2>1, <2>2, <2>3
<1> QED BY <1>1, <1>3, <1>4, <1>5, <1>6, <1>7, <1>8, SumOfNone

LEMMA DemandFacts ==
  ASSUME NEW o, cart[o] \in Seq(Item), NEW s
  PROVE  /\ Demand(o, s) \in Int
         /\ s \notin Articles(o) => Demand(o, s) = 0
         /\ ~Malformed(cart[o]) => Demand(o, s) >= 0 /\ (s \in Articles(o) => Demand(o, s) > 0)
<1>1. s \in Articles(o) <=> \E i \in DOMAIN cart[o] : cart[o][i].sku = s
  BY DEF Articles
<1> QED BY <1>1, QuantityFacts DEF Demand

-----------------------------------------------------------------------------
(* The inductive invariant *)

Steps == {"idle", "rules", "sufficient", "check", "reserve", "rollback",
          "allocated", "failed", "invalid"}

Shapes ==
  /\ pc \in [Orders -> Steps] /\ cart \in [Orders -> Seq(Item)]
  /\ todo \in [Orders -> SUBSET SKUs] /\ reserved \in [Orders -> SUBSET SKUs]
  /\ released \in [Orders -> SUBSET SKUs] /\ issues \in [Orders -> SUBSET {"unknown", "short"}]
  /\ cause \in [Orders -> {"none", "malformed", "unknown", "short", "outage"}]

\* What an order has reserved and released, at each of its steps
OrderHolds(o) ==
  /\ cart[o] \in Carts[o] \cup {<<>>} /\ todo[o] \subseteq Articles(o)
  /\ released[o] \subseteq reserved[o] /\ reserved[o] \subseteq Articles(o)
  /\ pc[o] = "idle" => cart[o] = <<>>
  /\ pc[o] \in {"idle", "rules", "sufficient", "check", "invalid"} => reserved[o] = {}
  /\ pc[o] \in Steps \ {"idle", "rules", "invalid"} => ~Malformed(cart[o])
  /\ pc[o] \in {"sufficient", "check", "reserve", "rollback"} => todo[o] # {}
  /\ pc[o] \in {"reserve", "allocated"} => released[o] = {}
  /\ pc[o] = "reserve" => reserved[o] = Articles(o) \ todo[o]
  /\ pc[o] = "allocated" => reserved[o] = Articles(o)
  /\ pc[o] = "rollback" => todo[o] \subseteq Held(o) /\ (Fails("Release") \/ Held(o) = todo[o])
  /\ pc[o] = "failed" => Held(o) = {} \/ Fails("Release")

Accounted == stock \in [SKUs -> Nat] /\ \A s \in SKUs : stock[s] + HeldOf(s) = Stock[s]

\* More is demanded of the article than there is.
Overbooked(s) == SumFunctionOnSet(DemandsOf(s), Contending) > Stock[s]

ToldShort(o) == "short" \in issues[o] \/ cause[o] = "short"

ShortagesReal == (\E o \in Orders : ToldShort(o)) => \E s \in SKUs : Overbooked(s)

OrderInv == Shapes /\ (\A o \in Orders : OrderHolds(o)) /\ Accounted /\ ShortagesReal

-----------------------------------------------------------------------------
(* The steps of an order *)

Same(o) ==
  /\ pc'[o] = pc[o] /\ cart'[o] = cart[o] /\ todo'[o] = todo[o] /\ issues'[o] = issues[o]
  /\ reserved'[o] = reserved[o] /\ released'[o] = released[o] /\ cause'[o] = cause[o]

\* A step of the order o is one of no other, and goes on from where o is.
StepOf(o) ==
  /\ Shapes' /\ OrderHolds(o)' /\ \A p \in Orders \ {o} : Same(p)
  /\ pc'[o] # "idle" /\ (pc[o] = "idle" \/ cart'[o] = cart[o])

\* What the step of o tells of a shortage is so.
TellsTruly(o) ==
  ToldShort(o)' => ToldShort(o) \/
    \E s \in Articles(o) : Short(o, s) /\ s \notin Held(o) /\ ~Malformed(cart[o]) /\ pc[o] # "idle"

LEMMA SubmitStep ==
  ASSUME OrderInv, NEW o \in Orders, Submit(o)
  PROVE  StepOf(o) /\ TellsTruly(o) /\ reserved'[o] = {} /\ reserved[o] = {}
<1>1. /\ pc[o] = "idle" /\ pc' = [pc EXCEPT ![o] = "rules"]
      /\ UNCHANGED <<stock, todo, issues, reserved, released, cause>>
      /\ Shapes /\ OrderHolds(o)
  BY DEF Submit, Goes, OrderInv
<1>2. PICK c \in Carts[o] : cart' = [cart EXCEPT ![o] = c]
  BY DEF Submit
<1>3. c \in Seq(Item)
  BY OrdersAssumption
<1>4. Shapes'
  BY <1>1, <1>2, <1>3 DEF Shapes, Steps
<1>5. pc'[o] = "rules" /\ cart'[o] = c /\ \A p \in Orders \ {o} : Same(p)
  BY <1>1, <1>2 DEF Shapes, Same
<1>6. reserved[o] = {} /\ released[o] = {} /\ todo[o] = {}
  <2>1. reserved[o] = {} /\ released[o] = {}
    BY <1>1 DEF OrderHolds
  <2>2. todo[o] = {}
    BY <1>1 DEF OrderHolds, Articles
  <2> QED BY <2>1, <2>2
<1>7. OrderHolds(o)'
  BY <1>1, <1>5, <1>6 DEF OrderHolds, Shapes, Steps
<1> QED BY <1>1, <1>4, <1>5, <1>6, <1>7 DEF StepOf, TellsTruly, ToldShort

\* What a step finds, of the order that takes it
LEMMA OrderFacts ==
  ASSUME OrderInv, NEW o \in Orders
  PROVE  /\ Shapes /\ OrderHolds(o) /\ pc[o] \in Steps /\ cart[o] \in Seq(Item)
         /\ todo[o] \subseteq SKUs /\ IsFiniteSet(todo[o])
         /\ Articles(o) \subseteq SKUs /\ IsFiniteSet(Articles(o))
         /\ cart[o] # <<>> => Articles(o) # {}
<1>1. Shapes /\ OrderHolds(o) /\ pc[o] \in Steps /\ cart[o] \in Seq(Item)
  BY DEF OrderInv, Shapes
<1>2. /\ Articles(o) \subseteq SKUs /\ IsFiniteSet(Articles(o))
      /\ cart[o] # <<>> => Articles(o) # {}
  BY <1>1, CartFacts
<1>3. todo[o] \subseteq SKUs /\ IsFiniteSet(todo[o])
  BY <1>1, <1>2, FS_Subset DEF OrderHolds
<1> QED BY <1>1, <1>2, <1>3

LEMMA RulesStep ==
  ASSUME OrderInv, NEW o \in Orders, Rules(o)
  PROVE  StepOf(o) /\ TellsTruly(o) /\ UNCHANGED <<reserved, released>>
<1>1. /\ pc[o] = "rules" /\ UNCHANGED <<stock, cart, reserved, released>>
      /\ Shapes /\ OrderHolds(o) /\ reserved[o] = {} /\ released[o] = {}
      /\ Articles(o) \subseteq SKUs /\ (cart[o] # <<>> => Articles(o) # {})
      /\ Articles(o)' = Articles(o)
  <2>1. pc[o] = "rules" /\ UNCHANGED <<stock, cart, reserved, released>>
    BY DEF Rules
  <2> QED BY <2>1, OrderFacts DEF OrderHolds, Articles
<1>2. CASE Malformed(cart[o])
  <2>1. /\ pc' = [pc EXCEPT ![o] = "invalid"] /\ cause' = [cause EXCEPT ![o] = "malformed"]
        /\ UNCHANGED <<todo, issues>>
    BY <1>2 DEF Rules, Ends, Goes
  <2>2. Shapes'
    BY <1>1, <2>1 DEF Shapes, Steps
  <2>3. pc'[o] = "invalid" /\ cause'[o] = "malformed" /\ \A p \in Orders \ {o} : Same(p)
    BY <1>1, <2>1 DEF Shapes, Same
  <2>4. OrderHolds(o)'
    BY <1>1, <2>1, <2>3 DEF OrderHolds, Steps
  <2> QED BY <1>1, <2>1, <2>2, <2>3, <2>4 DEF StepOf, TellsTruly, ToldShort
<1>3. CASE ~Malformed(cart[o])
  <2>1. /\ pc' = [pc EXCEPT ![o] = "sufficient"] /\ todo' = [todo EXCEPT ![o] = Articles(o)]
        /\ issues' = [issues EXCEPT ![o] = IF Articles(o) \subseteq Catalog THEN {} ELSE {"unknown"}]
        /\ UNCHANGED cause
    BY <1>3 DEF Rules, Over, Goes
  <2>2. Shapes'
    BY <1>1, <2>1 DEF Shapes, Steps
  <2>3. /\ pc'[o] = "sufficient" /\ todo'[o] = Articles(o) /\ issues'[o] \subseteq {"unknown"}
        /\ \A p \in Orders \ {o} : Same(p)
    BY <1>1, <2>1 DEF Shapes, Same
  <2>4. Articles(o) # {}
    BY <1>1, <1>3 DEF Malformed
  <2>5. OrderHolds(o)'
    BY <1>1, <1>3, <2>1, <2>3, <2>4 DEF OrderHolds, Steps
  <2> QED BY <1>1, <2>1, <2>2, <2>3, <2>5 DEF StepOf, TellsTruly, ToldShort
<1> QED BY <1>2, <1>3

LEMMA SufficientStep ==
  ASSUME OrderInv, NEW o \in Orders, InventorySufficient(o)
  PROVE  StepOf(o) /\ TellsTruly(o) /\ UNCHANGED <<reserved, released>>
<1> DEFINE s == Min(todo[o])
           found == IF Short(o, s) THEN issues[o] \cup {"short"} ELSE issues[o]
<1>1. /\ pc[o] = "sufficient" /\ UNCHANGED <<stock, cart, reserved, released>>
      /\ issues' = [issues EXCEPT ![o] = found]
      /\ Shapes /\ OrderHolds(o) /\ reserved[o] = {} /\ released[o] = {} /\ ~Malformed(cart[o])
      /\ todo[o] \subseteq Articles(o) /\ todo[o] # {} /\ Articles(o) \subseteq SKUs
      /\ Articles(o)' = Articles(o)
  BY OrderFacts DEF InventorySufficient, OrderHolds, Articles, Steps
<1>2. s \in todo[o]
  <2>1. todo[o] \subseteq Int /\ IsFiniteSet(todo[o]) /\ todo[o] # {}
    BY <1>1, OrderFacts, OrdersAssumption
  <2> QED BY <2>1, MinIsThere
<1>3. IF todo[o] = {s} THEN Verdict(o, found) ELSE Done(o, s) /\ UNCHANGED <<pc, cause>>
  BY DEF InventorySufficient, Last
<1>4. found \subseteq {"unknown", "short"} /\ ("short" \in found => "short" \in issues[o] \/ Short(o, s))
  BY <1>1 DEF Shapes
<1> HIDE DEF s, found
<1>5. issues'[o] = found
  BY <1>1 DEF Shapes
<1>6. TellsTruly(o)
  <2>1. cause'[o] = "short" => cause[o] = "short" \/ "short" \in found
    BY <1>1, <1>3, <1>4 DEF Verdict, Ends, Goes, Shapes
  <2>2. ToldShort(o)' => ToldShort(o) \/ Short(o, s)
    BY <1>4, <1>5, <2>1 DEF ToldShort
  <2> QED BY <1>1, <1>2, <2>2 DEF TellsTruly, Held
<1>7. CASE todo[o] # {s}
  <2>1. todo' = [todo EXCEPT ![o] = todo[o] \ {s}] /\ UNCHANGED <<pc, cause>>
    BY <1>3, <1>7 DEF Done, Over
  <2>2. Shapes'
    BY <1>1, <1>4, <2>1 DEF Shapes
  <2>3. todo'[o] = todo[o] \ {s} /\ \A p \in Orders \ {o} : Same(p)
    BY <1>1, <2>1 DEF Shapes, Same
  <2>4. OrderHolds(o)'
    BY <1>1, <1>2, <1>7, <2>1, <2>3 DEF OrderHolds, Steps
  <2> QED BY <1>1, <1>6, <2>1, <2>2, <2>3, <2>4 DEF StepOf
<1>8. CASE todo[o] = {s} /\ found = {}
  <2>1. /\ pc' = [pc EXCEPT ![o] = "check"] /\ todo' = [todo EXCEPT ![o] = Articles(o)]
        /\ UNCHANGED cause
    BY <1>3, <1>8 DEF Verdict, Goes, Over
  <2>2. Shapes'
    BY <1>1, <1>4, <2>1 DEF Shapes, Steps
  <2>3. pc'[o] = "check" /\ todo'[o] = Articles(o) /\ \A p \in Orders \ {o} : Same(p)
    BY <1>1, <2>1 DEF Shapes, Same
  <2>4. OrderHolds(o)'
    BY <1>1, <2>1, <2>3 DEF OrderHolds, Steps
  <2> QED BY <1>1, <1>6, <2>2, <2>3, <2>4 DEF StepOf
<1>9. CASE todo[o] = {s} /\ found # {}
  <2>1. /\ pc' = [pc EXCEPT ![o] = "invalid"] /\ todo' = [todo EXCEPT ![o] = {}]
        /\ cause' = [cause EXCEPT ![o] = IF "unknown" \in found THEN "unknown" ELSE "short"]
    BY <1>3, <1>9 DEF Verdict, Ends, Goes, Over
  <2>2. Shapes'
    BY <1>1, <1>4, <2>1 DEF Shapes, Steps
  <2>3. pc'[o] = "invalid" /\ todo'[o] = {} /\ \A p \in Orders \ {o} : Same(p)
    BY <1>1, <2>1 DEF Shapes, Same
  <2>4. OrderHolds(o)'
    BY <1>1, <2>1, <2>3 DEF OrderHolds, Steps
  <2> QED BY <1>1, <1>6, <2>2, <2>3, <2>4 DEF StepOf
<1> QED BY <1>7, <1>8, <1>9

LEMMA CheckStep ==
  ASSUME OrderInv, NEW o \in Orders, NEW s, Check(o, s)
  PROVE  StepOf(o) /\ TellsTruly(o) /\ UNCHANGED <<reserved, released>>
<1>1. /\ pc[o] = "check" /\ UNCHANGED <<stock, cart, issues, reserved, released>> /\ s \in todo[o]
      /\ Shapes /\ OrderHolds(o) /\ reserved[o] = {} /\ released[o] = {} /\ ~Malformed(cart[o])
      /\ todo[o] \subseteq Articles(o) /\ todo[o] # {} /\ Articles(o) \subseteq SKUs
      /\ Articles(o)' = Articles(o)
  <2>1. pc[o] = "check" /\ UNCHANGED <<stock, cart, issues, reserved, released>> /\ s \in todo[o]
    BY DEF Check
  <2> QED BY <2>1, OrderFacts DEF OrderHolds, Articles, Steps
<1>2. CASE Short(o, s)
  <2>1. /\ pc' = [pc EXCEPT ![o] = "failed"] /\ cause' = [cause EXCEPT ![o] = "short"]
        /\ UNCHANGED todo
    BY <1>2 DEF Check, Ends, Goes
  <2>2. Shapes'
    BY <1>1, <2>1 DEF Shapes, Steps
  <2>3. pc'[o] = "failed" /\ \A p \in Orders \ {o} : Same(p)
    BY <1>1, <2>1 DEF Shapes, Same
  <2>4. OrderHolds(o)'
    BY <1>1, <2>1, <2>3 DEF OrderHolds, Steps, Held
  <2>5. TellsTruly(o)
    BY <1>1, <1>2 DEF TellsTruly, Held
  <2> QED BY <1>1, <2>2, <2>3, <2>4, <2>5 DEF StepOf
<1>3. CASE ~Short(o, s) /\ todo[o] = {s}
  <2>1. /\ pc' = [pc EXCEPT ![o] = "reserve"] /\ todo' = [todo EXCEPT ![o] = Articles(o)]
        /\ UNCHANGED cause
    BY <1>3 DEF Check, Last, Over, Goes
  <2>2. Shapes'
    BY <1>1, <2>1 DEF Shapes, Steps
  <2>3. pc'[o] = "reserve" /\ todo'[o] = Articles(o) /\ \A p \in Orders \ {o} : Same(p)
    BY <1>1, <2>1 DEF Shapes, Same
  <2>4. OrderHolds(o)'
    BY <1>1, <2>1, <2>3 DEF OrderHolds, Steps
  <2> QED BY <1>1, <2>1, <2>2, <2>3, <2>4 DEF StepOf, TellsTruly, ToldShort
<1>4. CASE ~Short(o, s) /\ todo[o] # {s}
  <2>1. todo' = [todo EXCEPT ![o] = todo[o] \ {s}] /\ UNCHANGED <<pc, cause>>
    BY <1>4 DEF Check, Last, Done, Over
  <2>2. Shapes'
    BY <1>1, <2>1 DEF Shapes
  <2>3. todo'[o] = todo[o] \ {s} /\ \A p \in Orders \ {o} : Same(p)
    BY <1>1, <2>1 DEF Shapes, Same
  <2>4. OrderHolds(o)'
    BY <1>1, <1>4, <2>1, <2>3 DEF OrderHolds, Steps
  <2> QED BY <1>1, <2>1, <2>2, <2>3, <2>4 DEF StepOf, TellsTruly, ToldShort
<1> QED BY <1>2, <1>3, <1>4

\* An outage of Available turns the order away.
LEMMA AvailableFails ==
  ASSUME OrderInv, NEW o \in Orders, RuleFails(o) \/ CheckFails(o)
  PROVE  StepOf(o) /\ TellsTruly(o) /\ UNCHANGED <<stock, reserved, released>>
<1>1. PICK step \in {"invalid", "failed"} :
         /\ pc[o] \in {"sufficient", "check"}
         /\ pc' = [pc EXCEPT ![o] = step] /\ cause' = [cause EXCEPT ![o] = "outage"]
         /\ UNCHANGED <<stock, cart, todo, issues, reserved, released>>
  BY DEF RuleFails, CheckFails, Ends, Goes
<1>2. /\ Shapes /\ OrderHolds(o) /\ reserved[o] = {} /\ released[o] = {} /\ ~Malformed(cart[o])
      /\ Articles(o)' = Articles(o)
  BY <1>1, OrderFacts DEF OrderHolds, Articles, Steps
<1>3. Shapes'
  BY <1>1, <1>2 DEF Shapes, Steps
<1>4. pc'[o] = step /\ cause'[o] = "outage" /\ \A p \in Orders \ {o} : Same(p)
  BY <1>1, <1>2 DEF Shapes, Same
<1>5. OrderHolds(o)'
  BY <1>1, <1>2, <1>4 DEF OrderHolds, Steps, Held
<1> QED BY <1>1, <1>3, <1>4, <1>5 DEF StepOf, TellsTruly, ToldShort

LEMMA ReserveStep ==
  ASSUME OrderInv, NEW o \in Orders, NEW s, Reserve(o, s)
  PROVE  /\ StepOf(o) /\ TellsTruly(o) /\ s \in SKUs /\ s \notin Held(o) /\ ~Malformed(cart[o])
         /\ Held(o)' = Held(o) \cup {s} /\ pc[o] # "idle"
         /\ stock[s] >= Demand(o, s) /\ stock' = [stock EXCEPT ![s] = @ - Demand(o, s)]
         /\ pc'[o] \in {"reserve", "allocated"}
<1>1. /\ pc[o] = "reserve" /\ s \in todo[o] /\ stock[s] >= Demand(o, s)
      /\ stock' = [stock EXCEPT ![s] = @ - Demand(o, s)]
      /\ reserved' = [reserved EXCEPT ![o] = reserved[o] \cup {s}]
      /\ todo' = [todo EXCEPT ![o] = todo[o] \ {s}]
      /\ pc' = IF todo[o] = {s} THEN [pc EXCEPT ![o] = "allocated"] ELSE pc
      /\ UNCHANGED <<cart, issues, released, cause>>
  BY DEF Reserve, Grants, Done, Over, Last, Goes
<1>2. /\ Shapes /\ OrderHolds(o) /\ reserved[o] = Articles(o) \ todo[o] /\ released[o] = {}
      /\ ~Malformed(cart[o]) /\ todo[o] \subseteq Articles(o) /\ Articles(o) \subseteq SKUs
      /\ Articles(o)' = Articles(o)
  BY <1>1, OrderFacts DEF OrderHolds, Articles, Steps
<1>3. Shapes'
  BY <1>1, <1>2 DEF Shapes, Steps
<1>4. /\ pc'[o] = IF todo[o] = {s} THEN "allocated" ELSE "reserve"
      /\ reserved'[o] = reserved[o] \cup {s} /\ todo'[o] = todo[o] \ {s}
      /\ \A p \in Orders \ {o} : Same(p)
  BY <1>1, <1>2 DEF Shapes, Same
<1>5. OrderHolds(o)'
  BY <1>1, <1>2, <1>4 DEF OrderHolds, Steps
<1>6. StepOf(o) /\ TellsTruly(o)
  BY <1>1, <1>3, <1>4, <1>5 DEF StepOf, TellsTruly, ToldShort
<1>7. Held(o)' = Held(o) \cup {s} /\ s \notin Held(o)
  BY <1>1, <1>2, <1>4 DEF Held
<1> QED BY <1>1, <1>2, <1>4, <1>6, <1>7

\* An order that Reserve has refused, or not answered, releases what it has.
LEMMA RollsBackStep ==
  ASSUME OrderInv, NEW o \in Orders, (\E s : ReserveRefused(o, s)) \/ ReserveFails(o)
  PROVE  StepOf(o) /\ TellsTruly(o) /\ UNCHANGED <<stock, reserved, released>>
<1>1. PICK why \in {"short", "outage"} : pc[o] = "reserve" /\ RollsBack(o, why)
  BY DEF ReserveRefused, ReserveFails
<1> DEFINE step == IF reserved[o] = {} THEN "failed" ELSE "rollback"
<1>2. /\ todo' = [todo EXCEPT ![o] = reserved[o]] /\ pc' = [pc EXCEPT ![o] = step]
      /\ cause' = [cause EXCEPT ![o] = why]
      /\ UNCHANGED <<stock, cart, issues, reserved, released>>
  BY <1>1 DEF RollsBack, Over, Ends, Goes
<1>3. /\ Shapes /\ OrderHolds(o) /\ reserved[o] = Articles(o) \ todo[o] /\ released[o] = {}
      /\ ~Malformed(cart[o]) /\ todo[o] \subseteq Articles(o) /\ cart[o] \in Seq(Item)
      /\ Articles(o)' = Articles(o)
  BY <1>1, <1>2, OrderFacts DEF OrderHolds, Articles, Steps
<1>4. Shapes'
  BY <1>2, <1>3 DEF Shapes, Steps
<1>5. /\ pc'[o] = step /\ todo'[o] = reserved[o] /\ cause'[o] = why
      /\ \A p \in Orders \ {o} : Same(p)
  BY <1>2, <1>3 DEF Shapes, Same
<1>6. OrderHolds(o)'
  BY <1>2, <1>3, <1>5 DEF OrderHolds, Steps, Held
<1>7. TellsTruly(o)
  <2>1. CASE \E s : ReserveRefused(o, s)
    <3>1. PICK s : s \in todo[o] /\ ~(Demand(o, s) > 0 /\ stock[s] >= Demand(o, s))
      BY <2>1 DEF ReserveRefused, Grants
    <3>2. Demand(o, s) > 0 /\ Demand(o, s) \in Int /\ s \in SKUs
      BY <1>3, <3>1, DemandFacts, OrderFacts
    <3>3. stock[s] \in Nat
      BY <3>2 DEF OrderInv, Accounted
    <3>4. Short(o, s) /\ s \in Articles(o) /\ s \notin Held(o)
      BY <1>3, <3>1, <3>2, <3>3 DEF Short, Held
    <3> QED BY <1>1, <1>3, <3>4 DEF TellsTruly
  <2>2. CASE ReserveFails(o)
    <3>1. cause' = [cause EXCEPT ![o] = "outage"] /\ UNCHANGED issues
      BY <2>2 DEF ReserveFails, RollsBack, Ends
    <3> QED BY <1>3, <3>1 DEF TellsTruly, ToldShort, Shapes
  <2> QED BY <2>1, <2>2
<1> QED BY <1>1, <1>2, <1>4, <1>5, <1>6, <1>7 DEF StepOf

\* Both ends of a call of Release
LEMMA ReleaseOrder ==
  ASSUME OrderInv, NEW o \in Orders, NEW s, pc[o] = "rollback", s \in todo[o], Releases(o, s),
         UNCHANGED <<cart, issues, reserved, cause>>,
         released' = [released EXCEPT ![o] = @ \cup {s}] \/ (UNCHANGED released /\ Fails("Release"))
  PROVE  /\ StepOf(o) /\ TellsTruly(o) /\ s \in SKUs /\ s \in Held(o) /\ ~Malformed(cart[o])
         /\ pc'[o] # "allocated"
<1>1. /\ todo' = [todo EXCEPT ![o] = todo[o] \ {s}]
      /\ pc' = IF todo[o] = {s} THEN [pc EXCEPT ![o] = "failed"] ELSE pc
  BY DEF Releases, Done, Over, Last, Goes
<1>2. /\ Shapes /\ OrderHolds(o) /\ todo[o] \subseteq reserved[o] \ released[o]
      /\ Fails("Release") \/ reserved[o] \ released[o] = todo[o]
      /\ released[o] \subseteq reserved[o]
      /\ ~Malformed(cart[o]) /\ reserved[o] \subseteq Articles(o) /\ Articles(o) \subseteq SKUs
      /\ Articles(o)' = Articles(o)
  BY OrderFacts DEF OrderHolds, Articles, Steps, Held
<1>3. Shapes'
  <2>1. released' \in [Orders -> SUBSET SKUs]
    BY <1>2 DEF Shapes
  <2>2. pc' \in [Orders -> Steps] /\ todo' \in [Orders -> SUBSET SKUs]
    BY <1>1, <1>2 DEF Shapes, Steps
  <2> QED BY <1>2, <2>1, <2>2 DEF Shapes
<1>4. /\ pc'[o] = IF todo[o] = {s} THEN "failed" ELSE "rollback"
      /\ todo'[o] = todo[o] \ {s}
      /\ released'[o] = released[o] \cup {s} \/ (released'[o] = released[o] /\ Fails("Release"))
      /\ \A p \in Orders \ {o} : Same(p)
  BY <1>1, <1>2 DEF Shapes, Same
<1>5. OrderHolds(o)'
  BY <1>2, <1>4 DEF OrderHolds, Steps, Held
<1> QED BY <1>2, <1>3, <1>4, <1>5 DEF StepOf, TellsTruly, ToldShort, Held

-----------------------------------------------------------------------------
(* What a step of one order leaves of the others, and of the sums over all *)

LEMMA SameOrder ==
  ASSUME NEW p, Same(p)
  PROVE  /\ Held(p)' = Held(p) /\ Articles(p)' = Articles(p) /\ OrderHolds(p)' = OrderHolds(p)
         /\ \A s : Demand(p, s)' = Demand(p, s)
         /\ ToldShort(p)' = ToldShort(p)
<1>1. Held(p)' = Held(p) /\ Articles(p)' = Articles(p) /\ (\A s : Demand(p, s)' = Demand(p, s))
  BY DEF Same, Held, Articles, Demand
<1>2. OrderHolds(p)' = OrderHolds(p)
  BY <1>1 DEF Same, OrderHolds
<1>3. ToldShort(p)' = ToldShort(p)
  BY DEF Same, ToldShort
<1> QED BY <1>1, <1>2, <1>3

HoldersOf(s) == {p \in Orders : s \in Held(p)}

\* Every sum that is taken over orders is one of integers, of none below zero
\* but those of the orders whose rules have yet to run.
LEMMA SumFacts ==
  ASSUME OrderInv, NEW s
  PROVE  /\ HeldOf(s) = SumFunctionOnSet(DemandsOf(s), HoldersOf(s))
         /\ \A p \in Orders : DemandsOf(s)[p] = Demand(p, s) /\ DemandsOf(s)[p] \in Int
         /\ \A P \in SUBSET Orders : IsFiniteSet(P) /\ SumFunctionOnSet(DemandsOf(s), P) \in Int
         /\ \A p \in Contending : DemandsOf(s)[p] >= 0
         /\ HoldersOf(s) \subseteq Contending /\ Contending \subseteq Orders
<1>1. HeldOf(s) = SumFunctionOnSet(DemandsOf(s), HoldersOf(s))
  BY DEF HeldOf, HoldersOf
<1>2. \A p \in Orders : DemandsOf(s)[p] = Demand(p, s) /\ DemandsOf(s)[p] \in Int
  BY OrderFacts, DemandFacts DEF DemandsOf
<1>3. \A P \in SUBSET Orders : IsFiniteSet(P)
  BY OrdersAssumption, FS_Subset
<1>4. \A P \in SUBSET Orders : SumFunctionOnSet(DemandsOf(s), P) \in Int
  BY <1>2, <1>3, SumType
<1>5. \A p \in Contending : DemandsOf(s)[p] >= 0
  BY <1>2, OrderFacts, DemandFacts DEF Contending
<1>6. HoldersOf(s) \subseteq Contending
  BY OrderFacts DEF HoldersOf, Contending, Held, OrderHolds, Steps
<1> QED BY <1>1, <1>2, <1>3, <1>4, <1>5, <1>6 DEF Contending

\* The demand of an order that is on its way stays what it is.
LEMMA SameDemands ==
  ASSUME OrderInv, NEW o \in Orders, StepOf(o), NEW s
  PROVE  /\ \A p \in Orders \ {o} : Same(p) /\ DemandsOf(s)'[p] = DemandsOf(s)[p]
         /\ pc[o] # "idle" => DemandsOf(s)'[o] = DemandsOf(s)[o]
         /\ \A p \in Orders : DemandsOf(s)'[p] \in Int
         /\ Contending \subseteq Contending'
         /\ \A p \in Contending : DemandsOf(s)'[p] = DemandsOf(s)[p]
         /\ \A p \in Contending' : DemandsOf(s)'[p] >= 0
<1>1. \A p \in Orders \ {o} : Same(p)
  BY DEF StepOf
<1>2. \A p \in Orders : DemandsOf(s)[p] = Demand(p, s) /\ DemandsOf(s)'[p] = Demand(p, s)'
  BY DEF DemandsOf
<1>3. \A p \in Orders \ {o} : DemandsOf(s)'[p] = DemandsOf(s)[p]
  BY <1>1, <1>2, SameOrder
<1>4. pc[o] # "idle" => DemandsOf(s)'[o] = DemandsOf(s)[o]
  BY <1>2 DEF StepOf, Demand
<1>5. Contending \subseteq Contending'
  BY <1>1 DEF Contending, StepOf, Same
<1>6. \A p \in Orders : cart'[p] \in Seq(Item) /\ DemandsOf(s)'[p] = Quantity(cart'[p], s)
  BY <1>2 DEF StepOf, Shapes, Demand
<1>7. \A p \in Contending : DemandsOf(s)'[p] = DemandsOf(s)[p]
  BY <1>3, <1>4 DEF Contending
<1>8. \A p \in Contending' : DemandsOf(s)'[p] >= 0
  BY <1>6, QuantityFacts DEF Contending
<1> QED BY <1>1, <1>3, <1>4, <1>5, <1>6, <1>7, <1>8, QuantityFacts

LEMMA HoldingsKept ==
  ASSUME OrderInv, NEW o \in Orders, StepOf(o), UNCHANGED <<stock, reserved, released>>
  PROVE  Accounted'
<1>1. \A p \in Orders : Held(p)' = Held(p)
  BY DEF Held
<1>2. SUFFICES ASSUME NEW s \in SKUs PROVE HeldOf(s)' = HeldOf(s)
  BY DEF Accounted, OrderInv
<1>3. HeldOf(s)' = SumFunctionOnSet(DemandsOf(s)', HoldersOf(s))
  BY <1>1 DEF HeldOf, HoldersOf
<1>4. \A p \in HoldersOf(s) : DemandsOf(s)'[p] = DemandsOf(s)[p]
  BY SumFacts, SameDemands
<1>5. IsFiniteSet(HoldersOf(s))
  BY SumFacts
<1> HIDE DEF HoldersOf
<1>6. SumFunctionOnSet(DemandsOf(s)', HoldersOf(s)) = SumFunctionOnSet(DemandsOf(s), HoldersOf(s))
  BY <1>4, <1>5, SumSame
<1> QED BY <1>3, <1>6, SumFacts

\* The inventory gives what the order is given, and gets what is given back.
LEMMA HoldingsChange ==
  ASSUME OrderInv, NEW o \in Orders, StepOf(o), o \in Contending, NEW s \in SKUs,
         \/ s \notin Held(o) /\ Held(o)' = Held(o) \cup {s} /\ stock[s] >= Demand(o, s)
            /\ stock' = [stock EXCEPT ![s] = @ - Demand(o, s)]
         \/ s \in Held(o) /\ Held(o)' = Held(o) \ {s}
            /\ stock' = [stock EXCEPT ![s] = @ + Demand(o, s)]
  PROVE  Accounted'
<1>1. \A p \in Orders \ {o} : Held(p)' = Held(p)
  BY SameOrder DEF StepOf
<1>2. stock \in [SKUs -> Nat] /\ \A t \in SKUs : stock[t] + HeldOf(t) = Stock[t]
  BY DEF OrderInv, Accounted
<1>3. \A t \in SKUs : HeldOf(t)' = SumFunctionOnSet(DemandsOf(t), HoldersOf(t)')
  <2> SUFFICES ASSUME NEW t \in SKUs PROVE HeldOf(t)' = SumFunctionOnSet(DemandsOf(t), HoldersOf(t)')
    OBVIOUS
  <2>1. HeldOf(t)' = SumFunctionOnSet(DemandsOf(t)', HoldersOf(t)')
    BY DEF HeldOf, HoldersOf
  <2>2. \A p \in Orders : DemandsOf(t)'[p] = DemandsOf(t)[p]
    BY SameDemands
  <2>3. HoldersOf(t)' \subseteq Orders
    BY DEF HoldersOf
  <2>4. IsFiniteSet(HoldersOf(t)')
    BY <2>3, SumFacts
  <2> QED BY <2>1, <2>2, <2>3, <2>4, SumSame
<1>4. \A t \in SKUs \ {s} : HoldersOf(t)' = HoldersOf(t)
  BY <1>1 DEF HoldersOf
<1>5. /\ Demand(o, s) = DemandsOf(s)[o] /\ Demand(o, s) \in Int /\ Demand(o, s) >= 0
      /\ HoldersOf(s) \subseteq Orders /\ HeldOf(s) = SumFunctionOnSet(DemandsOf(s), HoldersOf(s))
      /\ HeldOf(s) \in Int
  BY SumFacts
<1>6. \A t \in SKUs \ {s} : stock'[t] = stock[t] /\ HeldOf(t)' = HeldOf(t)
  <2> SUFFICES ASSUME NEW t \in SKUs \ {s} PROVE stock'[t] = stock[t] /\ HeldOf(t)' = HeldOf(t)
    OBVIOUS
  <2>1. stock'[t] = stock[t]
    BY <1>2
  <2>2. HeldOf(t)' = HeldOf(t)
    BY <1>3, <1>4, SumFacts
  <2> QED BY <2>1, <2>2
<1>7. CASE /\ s \notin Held(o) /\ Held(o)' = Held(o) \cup {s} /\ stock[s] >= Demand(o, s)
           /\ stock' = [stock EXCEPT ![s] = @ - Demand(o, s)]
  <2>1. HoldersOf(s)' = HoldersOf(s) \cup {o} /\ o \notin HoldersOf(s)
    BY <1>1, <1>7 DEF HoldersOf
  <2>2. HeldOf(s)' = Demand(o, s) + HeldOf(s)
    BY <1>3, <1>5, <2>1, SumFacts, SumWith
  <2>3. stock'[s] = stock[s] - Demand(o, s)
    BY <1>2, <1>7
  <2> HIDE DEF HoldersOf
  <2>4. stock'[s] + HeldOf(s)' = Stock[s]
    BY <1>2, <1>5, <2>2, <2>3
  <2>5. stock' \in [SKUs -> Nat]
    BY <1>2, <1>5, <1>7
  <2> QED BY <1>2, <1>6, <2>4, <2>5 DEF Accounted
<1>8. CASE /\ s \in Held(o) /\ Held(o)' = Held(o) \ {s}
           /\ stock' = [stock EXCEPT ![s] = @ + Demand(o, s)]
  <2>1. HoldersOf(s)' = HoldersOf(s) \ {o} /\ o \in HoldersOf(s)
    BY <1>1, <1>8 DEF HoldersOf
  <2>2. HeldOf(s) = Demand(o, s) + HeldOf(s)'
    BY <1>3, <1>5, <2>1, SumFacts, SumWithout
  <2>3. stock'[s] = stock[s] + Demand(o, s)
    BY <1>2, <1>8
  <2>4. HeldOf(s)' \in Int
    BY <1>3, <1>5, <2>1, SumFacts
  <2>5. stock'[s] + HeldOf(s)' = Stock[s]
    BY <1>2, <1>5, <2>2, <2>3, <2>4
  <2>6. stock' \in [SKUs -> Nat]
    BY <1>2, <1>5, <1>8
  <2> QED BY <1>2, <1>6, <2>5, <2>6 DEF Accounted
<1> QED BY <1>7, <1>8

\* An article that is overbooked stays so: no order is ever withdrawn.
LEMMA OverbookedStays ==
  ASSUME OrderInv, NEW o \in Orders, StepOf(o), NEW s \in SKUs, Overbooked(s)
  PROVE  Overbooked(s)'
<1> DEFINE d == DemandsOf(s)
           e == DemandsOf(s)'
<1>1. /\ Contending \subseteq Contending' /\ Contending' \subseteq Orders
      /\ \A p \in Contending : e[p] = d[p]
      /\ \A p \in Contending' : e[p] \in Int /\ e[p] >= 0
  BY SameDemands DEF Contending
<1>2. /\ IsFiniteSet(Contending) /\ IsFiniteSet(Contending')
      /\ SumFunctionOnSet(d, Contending) \in Int /\ Stock[s] \in Int
  BY <1>1, SumFacts, OrdersAssumption
<1>3. SumFunctionOnSet(d, Contending) > Stock[s]
  BY DEF Overbooked
<1> HIDE DEF d, e
<1>4. SumFunctionOnSet(d, Contending) = SumFunctionOnSet(e, Contending)
  BY <1>1, <1>2, SumSame
<1>5. SumFunctionOnSet(e, Contending) <= SumFunctionOnSet(e, Contending')
  BY <1>1, <1>2, SumOfMore
<1>6. SumFunctionOnSet(e, Contending') \in Int
  BY <1>1, <1>2, SumType
<1>7. SumFunctionOnSet(e, Contending') > Stock[s]
  BY <1>2, <1>3, <1>4, <1>5, <1>6
<1> QED BY <1>7 DEF Overbooked, e

\* An order that finds an article short, of which it holds none itself, and
\* those that hold some ask for more of it than there is.
LEMMA ShortIsReal ==
  ASSUME OrderInv, NEW o \in Contending, NEW s \in SKUs, Short(o, s), s \notin Held(o)
  PROVE  Overbooked(s)
<1> DEFINE d == DemandsOf(s)
           H == HoldersOf(s)
<1>1. /\ HeldOf(s) = SumFunctionOnSet(d, H) /\ o \notin H /\ H \cup {o} \subseteq Contending
      /\ stock[s] \in Nat /\ stock[s] + HeldOf(s) = Stock[s] /\ stock[s] < d[o] /\ o \in Orders
  BY SumFacts DEF OrderInv, Accounted, Short, HoldersOf, Contending
<1>2. /\ IsFiniteSet(Contending) /\ IsFiniteSet(H) /\ Stock[s] \in Int
      /\ \A p \in Contending : d[p] \in Int /\ d[p] >= 0
      /\ SumFunctionOnSet(d, Contending) \in Int /\ SumFunctionOnSet(d, H) \in Int
  BY <1>1, SumFacts, OrdersAssumption
<1>3. \A p \in H \cup {o} : d[p] \in Int
  BY <1>1, <1>2
<1> HIDE DEF d, H
<1>4. SumFunctionOnSet(d, H \cup {o}) = d[o] + SumFunctionOnSet(d, H)
  BY <1>1, <1>2, <1>3, SumWith
<1>5. SumFunctionOnSet(d, H \cup {o}) <= SumFunctionOnSet(d, Contending)
  BY <1>1, <1>2, SumOfMore
<1>6. SumFunctionOnSet(d, Contending) > Stock[s]
  BY <1>1, <1>2, <1>3, <1>4, <1>5
<1> QED BY <1>6 DEF Overbooked, d

LEMMA ShortagesStayReal ==
  ASSUME OrderInv, NEW o \in Orders, StepOf(o), TellsTruly(o)
  PROVE  ShortagesReal'
<1>1. SUFFICES ASSUME NEW p \in Orders, ToldShort(p)' PROVE \E s \in SKUs : Overbooked(s)
  BY OverbookedStays DEF ShortagesReal
<1>2. CASE \E q \in Orders : ToldShort(q)
  BY <1>2 DEF OrderInv, ShortagesReal
<1>3. CASE ~ \E q \in Orders : ToldShort(q)
  <2>1. p = o
    BY <1>1, <1>3, SameOrder DEF StepOf
  <2>2. PICK s \in Articles(o) : Short(o, s) /\ s \notin Held(o) /\ ~Malformed(cart[o]) /\ pc[o] # "idle"
    BY <1>1, <1>3, <2>1 DEF TellsTruly
  <2>3. s \in SKUs /\ o \in Contending
    BY <2>2, OrderFacts DEF Contending
  <2> QED BY <2>2, <2>3, ShortIsReal
<1> QED BY <1>2, <1>3

-----------------------------------------------------------------------------
(* The invariant holds. *)

LEMMA InitInv ==
  ASSUME Init
  PROVE  OrderInv
<1>1. Shapes
  <2>1. <<>> \in Seq(Item)
    OBVIOUS
  <2> QED BY <2>1 DEF Init, Shapes, Steps
<1>2. \A o \in Orders : OrderHolds(o)
  BY DEF Init, OrderHolds, Articles, Held, Steps
<1>3. Accounted
  <2>1. \A s : {o \in Orders : s \in Held(o)} = {}
    BY DEF Init, Held
  <2>2. \A s : HeldOf(s) = 0
    BY <2>1, SumOfNone DEF HeldOf
  <2> QED BY <2>2, OrdersAssumption DEF Init, Accounted
<1>4. ShortagesReal
  BY DEF Init, ShortagesReal, ToldShort
<1> QED BY <1>1, <1>2, <1>3, <1>4 DEF OrderInv

\* Every step is one of an order, and leaves the inventory accounted for.
LEMMA EveryStep ==
  ASSUME OrderInv, NEW o \in Orders, Submit(o) \/ Call(o) \/ Outage(o)
  PROVE  StepOf(o) /\ TellsTruly(o) /\ Accounted'
<1>1. CASE Submit(o)
  BY <1>1, SubmitStep, HoldingsKept DEF Submit
<1>2. CASE Rules(o)
  BY <1>2, RulesStep, HoldingsKept DEF Rules
<1>3. CASE InventorySufficient(o)
  BY <1>3, SufficientStep, HoldingsKept DEF InventorySufficient
<1>4. ASSUME NEW s \in SKUs, Check(o, s)
      PROVE  StepOf(o) /\ TellsTruly(o) /\ Accounted'
  BY <1>4, CheckStep, HoldingsKept DEF Check
<1>5. ASSUME NEW s \in SKUs, Reserve(o, s)
      PROVE  StepOf(o) /\ TellsTruly(o) /\ Accounted'
  <2>1. StepOf(o) /\ TellsTruly(o) /\ o \in Contending
    BY <1>5, ReserveStep DEF Contending
  <2>2. /\ s \notin Held(o) /\ Held(o)' = Held(o) \cup {s} /\ stock[s] >= Demand(o, s)
        /\ stock' = [stock EXCEPT ![s] = @ - Demand(o, s)]
    BY <1>5, ReserveStep
  <2> QED BY <2>1, <2>2, HoldingsChange
<1>6. CASE (\E s \in SKUs : ReserveRefused(o, s)) \/ ReserveFails(o)
  BY <1>6, RollsBackStep, HoldingsKept
<1>7. ASSUME NEW s \in SKUs, Release(o, s)
      PROVE  StepOf(o) /\ TellsTruly(o) /\ Accounted'
  <2>1. /\ pc[o] = "rollback" /\ s \in todo[o] /\ Releases(o, s)
        /\ UNCHANGED <<cart, issues, reserved, cause>>
        /\ released' = [released EXCEPT ![o] = @ \cup {s}]
        /\ stock' = [stock EXCEPT ![s] = @ + Demand(o, s)]
    BY <1>7 DEF Release
  <2>2. StepOf(o) /\ TellsTruly(o) /\ s \in Held(o) /\ o \in Contending
    BY <2>1, ReleaseOrder DEF Contending
  <2>3. Held(o)' = Held(o) \ {s}
    BY <2>1 DEF OrderInv, Shapes, Held
  <2> QED BY <2>1, <2>2, <2>3, HoldingsChange
<1>8. ASSUME NEW s \in SKUs, ReleaseFails(o, s)
      PROVE  StepOf(o) /\ TellsTruly(o) /\ Accounted'
  <2>1. /\ pc[o] = "rollback" /\ s \in todo[o] /\ Releases(o, s) /\ Fails("Release")
        /\ UNCHANGED <<stock, cart, issues, reserved, released, cause>>
    BY <1>8 DEF ReleaseFails
  <2>2. StepOf(o) /\ TellsTruly(o)
    BY <2>1, ReleaseOrder
  <2> QED BY <2>1, <2>2, HoldingsKept
<1>9. CASE RuleFails(o) \/ CheckFails(o)
  BY <1>9, AvailableFails, HoldingsKept
<1> QED BY <1>1, <1>2, <1>3, <1>4, <1>5, <1>6, <1>7, <1>8, <1>9 DEF Call, Outage

LEMMA NextInv ==
  ASSUME OrderInv, Next
  PROVE  OrderInv'
<1>1. PICK o \in Orders : Submit(o) \/ Call(o) \/ Outage(o)
  BY DEF Next
<1>2. StepOf(o) /\ TellsTruly(o) /\ Accounted'
  BY <1>1, EveryStep
<1>3. \A p \in Orders : OrderHolds(p)'
  <2> SUFFICES ASSUME NEW p \in Orders \ {o} PROVE OrderHolds(p)'
    BY <1>2 DEF StepOf
  <2>1. Same(p) /\ OrderHolds(p)
    BY <1>2 DEF StepOf, OrderInv
  <2> QED BY <2>1, SameOrder
<1>4. ShortagesReal'
  BY <1>2, ShortagesStayReal
<1> QED BY <1>2, <1>3, <1>4 DEF OrderInv, StepOf

LEMMA SameState ==
  ASSUME OrderInv, UNCHANGED vars
  PROVE  OrderInv'
<1>1. UNCHANGED <<stock, pc, cart, todo, issues, reserved, released, cause>>
  BY DEF vars, flow
<1>2. Shapes' /\ \A p \in Orders : Same(p)
  BY <1>1 DEF Shapes, OrderInv, Same
<1>3. \A p \in Orders : OrderHolds(p)'
  BY <1>2, SameOrder DEF OrderInv
<1>4. \A s : DemandsOf(s)' = DemandsOf(s)
  BY <1>1 DEF DemandsOf, Demand
<1>5. \A s : HoldersOf(s)' = HoldersOf(s) /\ HeldOf(s)' = HeldOf(s)
  BY <1>1, <1>4 DEF HoldersOf, HeldOf, Held
<1>6. Accounted'
  BY <1>1, <1>5 DEF Accounted, OrderInv
<1>7. \A s : Overbooked(s)' <=> Overbooked(s)
  BY <1>1, <1>4 DEF Overbooked, Contending
<1>8. ShortagesReal'
  BY <1>1, <1>7 DEF ShortagesReal, ToldShort, OrderInv
<1> QED BY <1>2, <1>3, <1>6, <1>8 DEF OrderInv

LEMMA AlwaysInv == Spec => []OrderInv
<1>1. OrderInv /\ [Next]_vars => OrderInv'
  BY NextInv, SameState
<1> QED BY <1>1, InitInv, PTL DEF Spec

\* Whatever the orders do in between each other's calls, and whatever of the
\* service fails, what the orders hold and what the inventory has is what it
\* had; who has been allocated holds all of his order, and who has failed none.
THEOREM StockKept == Spec => []StockAccounted
<1>1. OrderInv => StockAccounted
  <2> SUFFICES ASSUME OrderInv PROVE StockAccounted
    OBVIOUS
  <2>1. OrdersTypeOK
    BY DEF OrdersTypeOK, OrderInv, Shapes, Accounted, OrderHolds
  <2>2. ASSUME NEW o \in Orders
        PROVE  /\ pc[o] = "allocated" => Held(o) = Articles(o)
               /\ pc[o] \notin {"reserve", "rollback", "allocated"} /\ Held(o) # {} =>
                    pc[o] = "failed" /\ Fails("Release")
    BY OrderFacts DEF OrderHolds, Held, Steps
  <2> QED BY <2>1, <2>2 DEF StockAccounted, OrderInv, Accounted
<1> QED BY <1>1, AlwaysInv, PTL

\* Where there is enough for all the orders at once, no rule and no step of
\* allocateOrder turns one away for a shortage, however they interleave.
THEOREM NoFalseShortage == Spec => []EnoughForAll
<1>1. OrderInv => EnoughForAll
  <2> SUFFICES ASSUME OrderInv, NEW o \in Orders, cause[o] = "short"
               PROVE  \E s \in SKUs : ~(SumFunctionOnSet(DemandsOf(s), Contending) <= Stock[s])
    BY DEF EnoughForAll
  <2>1. PICK s \in SKUs : SumFunctionOnSet(DemandsOf(s), Contending) > Stock[s]
    BY DEF OrderInv, ShortagesReal, ToldShort, Overbooked
  <2>2. SumFunctionOnSet(DemandsOf(s), Contending) \in Int /\ Stock[s] \in Int
    BY SumFacts, OrdersAssumption
  <2> QED BY <2>1, <2>2
<1> QED BY <1>1, AlwaysInv, PTL

-----------------------------------------------------------------------------
(* The orders are served as OrderLedger has it. *)

Open == {"rules", "sufficient", "check", "reserve", "rollback"}

Answered == {"allocated", "failed", "invalid"}

\* Where a step takes its order
LEMMA Moves ==
  ASSUME OrderInv, NEW o \in Orders, Submit(o) \/ Call(o) \/ Outage(o)
  PROVE  \/ pc[o] = "idle" /\ pc'[o] \in Open
         \/ pc[o] \in Open /\ pc'[o] \in Open \cup Answered
<1>1. pc[o] = "idle" => pc'[o] \in Open
  <2> SUFFICES ASSUME pc[o] = "idle" PROVE pc'[o] \in Open
    OBVIOUS
  <2>1. Submit(o)
    BY DEF Call, Outage, Rules, InventorySufficient, RuleFails, Check, CheckFails, Reserve,
           ReserveRefused, ReserveFails, Release, ReleaseFails
  <2> QED BY <2>1 DEF Submit, Goes, OrderInv, Shapes, Open
<1>2. pc[o] # "idle" => pc[o] \in Open
  BY DEF Submit, Call, Outage, Rules, InventorySufficient, RuleFails, Check, CheckFails, Reserve,
         ReserveRefused, ReserveFails, Release, ReleaseFails, Open
<1>3. pc'[o] \in Open \cup Answered
  <2>1. StepOf(o)
    BY EveryStep
  <2> QED BY <2>1 DEF StepOf, Shapes, Steps, Open, Answered
<1> QED BY <1>1, <1>2, <1>3

\* What has been given to the orders that are served was there.
Fits == \A s \in SKUs : SumFunctionOnSet(DemandsOf(s), Served) <= Stock[s]

LEMMA ServedFit ==
  ASSUME OrderInv
  PROVE  Fits
<1> SUFFICES ASSUME NEW s \in SKUs PROVE SumFunctionOnSet(DemandsOf(s), Served) <= Stock[s]
  BY DEF Fits
<1> DEFINE d == DemandsOf(s)
           H == HoldersOf(s)
<1>1. \A p \in Served \ H : d[p] = 0
  <2> SUFFICES ASSUME NEW p \in Served \ H PROVE d[p] = 0
    OBVIOUS
  <2>1. p \in Orders /\ OrderHolds(p) /\ pc[p] = "allocated" /\ s \notin Held(p) /\ cart[p] \in Seq(Item)
    BY OrderFacts DEF Served, HoldersOf
  <2>2. s \notin Articles(p)
    BY <2>1 DEF OrderHolds, Held
  <2> QED BY <2>1, <2>2, DemandFacts, SumFacts
<1>2. /\ Served \subseteq Contending /\ H \subseteq Contending /\ Contending \subseteq Orders
      /\ \A p \in Contending : d[p] \in Int /\ d[p] >= 0
      /\ \A P \in SUBSET Contending : IsFiniteSet(P) /\ SumFunctionOnSet(d, P) \in Int
      /\ HeldOf(s) = SumFunctionOnSet(d, H)
  <2>1. Served \subseteq Contending
    BY OrderFacts DEF Served, Contending, OrderHolds, Steps
  <2> QED BY <2>1, SumFacts
<1>3. stock[s] \in Nat /\ Stock[s] \in Int /\ stock[s] + HeldOf(s) = Stock[s]
  BY OrdersAssumption DEF OrderInv, Accounted
<1> HIDE DEF d, H
<1> DEFINE B == Served \cap H
<1>4. B \in SUBSET Served /\ B \in SUBSET H /\ Served \ B = Served \ H
  OBVIOUS
<1>5. SumFunctionOnSet(d, B) = SumFunctionOnSet(d, Served)
  <2>1. IsFiniteSet(Served) /\ (\A p \in Served : d[p] \in Int) /\ \A p \in Served \ B : d[p] >= 0
    BY <1>2
  <2> HIDE DEF B
  <2> QED BY <1>1, <1>4, <2>1, SumOfMore
<1>6. SumFunctionOnSet(d, B) <= SumFunctionOnSet(d, H)
  <2>1. IsFiniteSet(H) /\ (\A p \in H : d[p] \in Int) /\ \A p \in H \ B : d[p] >= 0
    BY <1>2
  <2> HIDE DEF B
  <2> QED BY <1>4, <2>1, SumOfMore
<1>7. SumFunctionOnSet(d, Served) \in Int /\ SumFunctionOnSet(d, H) \in Int
  BY <1>2
<1> HIDE DEF B
<1>8. SumFunctionOnSet(d, Served) <= Stock[s]
  BY <1>2, <1>3, <1>5, <1>6, <1>7
<1> QED BY <1>8 DEF d

Need == [o \in Orders |-> [s \in SKUs |-> Demand(o, s)]]

Fates == [o \in Orders |-> Fate(o)]

Left == [s \in SKUs |-> LeftOf(s)]

LEMMA LedgerStarts ==
  ASSUME Init
  PROVE  Ledger!LedgerInit
<1>1. \A o \in Orders, s \in SKUs : Demand(o, s) = 0
  <2>1. OrderInv
    BY InitInv
  <2> SUFFICES ASSUME NEW o \in Orders, NEW s \in SKUs PROVE Demand(o, s) = 0
    OBVIOUS
  <2>2. s \notin Articles(o)
    BY DEF Init, Articles
  <2> QED BY <2>1, <2>2, OrderFacts, DemandFacts
<1>2. \A o \in Orders : Fate(o) = "none"
  BY DEF Init, Fate
<1>3. \A s \in SKUs : LeftOf(s) = Stock[s]
  <2>1. Served = {}
    BY DEF Init, Served
  <2> QED BY <2>1, SumOfNone, OrdersAssumption DEF LeftOf
<1>4. Left = Stock
  BY <1>3, OrdersAssumption DEF Left
<1> QED BY <1>1, <1>2, <1>4 DEF Ledger!LedgerInit, Left

\* An order that is served or not, of a step that serves none or one
LEMMA LeftStep ==
  ASSUME OrderInv, NEW o \in Orders, StepOf(o), o \notin Served, NEW s \in SKUs
  PROVE  /\ pc'[o] # "allocated" => LeftOf(s)' = LeftOf(s)
         /\ pc'[o] = "allocated" /\ pc[o] # "idle" =>
              /\ LeftOf(s)' = LeftOf(s) - Demand(o, s)
              /\ LeftOf(s)' = Stock[s] - SumFunctionOnSet(DemandsOf(s), Served)'
              /\ LeftOf(s) \in Int /\ Demand(o, s) \in Int
<1> DEFINE d == DemandsOf(s)
           e == DemandsOf(s)'
<1>1. /\ \A p \in Orders \ {o} : Same(p) /\ e[p] = d[p]
      /\ pc[o] # "idle" => e[o] = d[o]
      /\ \A p \in Orders : e[p] \in Int
  BY SameDemands
<1>2. /\ Served \subseteq Orders /\ \A p \in Orders : d[p] = Demand(o, s) \/ p # o
      /\ \A p \in Orders : d[p] \in Int
      /\ \A P \in SUBSET Orders : IsFiniteSet(P) /\ SumFunctionOnSet(d, P) \in Int
      /\ Stock[s] \in Int
  BY SumFacts, OrdersAssumption DEF Served
<1>3. LeftOf(s) = Stock[s] - SumFunctionOnSet(d, Served) /\ LeftOf(s)' = Stock[s] - SumFunctionOnSet(e, Served')
  BY DEF LeftOf
<1>4. \A p \in Served : e[p] = d[p]
  BY <1>1 DEF Served
<1>5. Served' = IF pc'[o] = "allocated" THEN Served \cup {o} ELSE Served
  BY <1>1 DEF Served, Same
<1>6. SumFunctionOnSet(DemandsOf(s), Served)' = SumFunctionOnSet(e, Served')
  OBVIOUS
<1> HIDE DEF d, e
<1>7. SumFunctionOnSet(e, Served) = SumFunctionOnSet(d, Served)
  BY <1>2, <1>4, SumSame
<1>8. CASE pc'[o] # "allocated"
  BY <1>3, <1>5, <1>7, <1>8
<1>9. CASE pc'[o] = "allocated" /\ pc[o] # "idle"
  <2>1. SumFunctionOnSet(e, Served \cup {o}) = e[o] + SumFunctionOnSet(e, Served)
    BY <1>1, <1>2, SumWith
  <2>2. e[o] = Demand(o, s) /\ Demand(o, s) \in Int
    BY <1>1, <1>2, <1>9
  <2>3. SumFunctionOnSet(d, Served) \in Int
    BY <1>2
  <2> QED BY <1>2, <1>3, <1>5, <1>6, <1>7, <1>9, <2>1, <2>2, <2>3
<1> QED BY <1>8, <1>9

LEMMA LedgerStep ==
  ASSUME OrderInv, Fits', NEW o \in Orders, Submit(o) \/ Call(o) \/ Outage(o)
  PROVE  Ledger!LedgerNext \/ UNCHANGED <<Need, Fates, Left>>
<1>1. /\ StepOf(o) /\ o \notin Served
      /\ \/ pc[o] = "idle" /\ pc'[o] \in Open
         \/ pc[o] \in Open /\ pc'[o] \in Open \cup Answered
  <2>1. o \notin Served
    BY Moves DEF Served, Open
  <2> QED BY <2>1, EveryStep, Moves
<1>2. \A p \in Orders \ {o} : Fate(p)' = Fate(p) /\ \A s \in SKUs : Demand(p, s)' = Demand(p, s)
  BY <1>1, SameOrder DEF StepOf, Same, Fate
<1>3. \A p \in Orders \ {o} : Need'[p] = Need[p]
  BY <1>2 DEF Need
<1>4. Fates' = [Fates EXCEPT ![o] = Fate(o)']
  BY <1>2 DEF Fates
<1>5. pc'[o] # "allocated" => UNCHANGED Left
  BY <1>1, LeftStep DEF Left
<1>6. pc[o] # "idle" => UNCHANGED Need
  <2> SUFFICES ASSUME pc[o] # "idle" PROVE UNCHANGED Need
    OBVIOUS
  <2>1. \A s \in SKUs : Demand(o, s)' = Demand(o, s)
    BY <1>1 DEF StepOf, Demand
  <2> QED BY <1>2, <2>1 DEF Need
<1>7. CASE pc[o] = "idle"
  <2>1. Fates[o] = "none" /\ Fate(o)' = "open"
    BY <1>1, <1>7 DEF Fates, Fate, Open
  <2>2. Need' \in [Orders -> [SKUs -> Int]]
    <3>1. \A p \in Orders, s \in SKUs : Demand(p, s)' \in Int
      BY <1>1, QuantityFacts DEF StepOf, Shapes, Demand
    <3> QED BY <3>1 DEF Need
  <2>3. Ledger!Placed(o)
    BY <1>1, <1>3, <1>4, <1>5, <1>7, <2>1, <2>2
       DEF Ledger!Placed, Ledger!Becomes, Need, Fates, Left, Open
  <2> QED BY <2>3 DEF Ledger!LedgerNext
<1>8. CASE pc[o] \in Open /\ pc'[o] = "allocated"
  <2>1. Fates[o] = "open" /\ Fate(o)' = "served" /\ UNCHANGED Need /\ pc[o] # "idle"
    BY <1>6, <1>8 DEF Fates, Fate, Open
  <2>2. \A s \in SKUs : LeftOf(s)' = LeftOf(s) - Demand(o, s)
    BY <1>1, <1>8, <2>1, LeftStep
  <2>3. \A s \in SKUs : Demand(o, s) <= LeftOf(s)
    <3> SUFFICES ASSUME NEW s \in SKUs PROVE Demand(o, s) <= LeftOf(s)
      OBVIOUS
    <3>1. /\ LeftOf(s)' = LeftOf(s) - Demand(o, s) /\ LeftOf(s) \in Int /\ Demand(o, s) \in Int
          /\ LeftOf(s)' = Stock[s] - SumFunctionOnSet(DemandsOf(s), Served)'
      BY <1>1, <1>8, <2>1, LeftStep
    <3>2. SumFunctionOnSet(DemandsOf(s), Served)' <= Stock[s]
      BY DEF Fits
    <3>3. Stock[s] \in Int /\ SumFunctionOnSet(DemandsOf(s), Served)' \in Int
      <4>1. Served' \subseteq Orders /\ \A p \in Orders : DemandsOf(s)'[p] \in Int
        BY <1>1, SameDemands DEF Served
      <4>2. IsFiniteSet(Served')
        BY <4>1, OrdersAssumption, FS_Subset
      <4> QED BY <4>1, <4>2, SumType, OrdersAssumption
    <3> QED BY <3>1, <3>2, <3>3
  <2>4. Left' = [s \in SKUs |-> Left[s] - Need[o][s]] /\ \A s \in SKUs : Need[o][s] <= Left[s]
    BY <2>2, <2>3 DEF Left, Need
  <2>5. Ledger!Served(o)
    BY <1>4, <2>1, <2>4 DEF Ledger!Served, Ledger!Becomes, Need, Fates, Left
  <2> QED BY <2>5 DEF Ledger!LedgerNext
<1>9. CASE pc[o] \in Open /\ pc'[o] \in {"failed", "invalid"}
  <2>1. /\ Fates[o] = "open" /\ Fate(o)' = "turned away"
        /\ UNCHANGED <<Need, Left>>
    BY <1>5, <1>6, <1>9 DEF Fates, Fate, Open
  <2>2. Ledger!TurnedAway(o)
    BY <1>4, <2>1 DEF Ledger!TurnedAway, Ledger!Becomes, Need, Fates, Left
  <2> QED BY <2>2 DEF Ledger!LedgerNext
<1>10. CASE pc[o] \in Open /\ pc'[o] \in Open
  <2>1. Fates[o] = "open" /\ Fate(o)' = "open" /\ UNCHANGED <<Need, Left>>
    BY <1>5, <1>6, <1>10 DEF Fates, Fate, Open
  <2>2. Fates' = Fates
    BY <1>4, <2>1 DEF Fates
  <2> QED BY <2>1, <2>2
<1> QED BY <1>1, <1>7, <1>8, <1>9, <1>10 DEF Answered

\* Whatever the orders check, reserve and roll back in between, each is served
\* as if in one step, with all that it asks for, out of what those before it
\* have left; or it gets nothing, and that is final.
THEOREM LedgerImplemented == Spec => ImplementsLedger
<1>1. Init => Ledger!LedgerInit
  BY LedgerStarts
<1>2. OrderInv => Fits
  BY ServedFit
<1>3. OrderInv /\ Fits' /\ [Next]_vars => [Ledger!LedgerNext]_(Ledger!ledger)
  <2> SUFFICES ASSUME OrderInv, Fits', [Next]_vars
               PROVE  Ledger!LedgerNext \/ UNCHANGED <<Need, Fates, Left>>
    BY DEF Ledger!ledger, Need, Fates, Left
  <2>1. CASE Next
    BY <2>1, LedgerStep DEF Next
  <2>2. CASE UNCHANGED vars
    <3>1. UNCHANGED <<pc, cart>>
      BY <2>2 DEF vars, flow
    <3>2. UNCHANGED <<Need, Fates, Left>>
      BY <3>1 DEF Need, Fates, Left, Demand, Fate, LeftOf, DemandsOf, Served
    <3> QED BY <3>2
  <2> QED BY <2>1, <2>2
<1> QED BY <1>1, <1>2, <1>3, AlwaysInv, PTL DEF Spec, ImplementsLedger, Ledger!LedgerSpec
=============================================================================
