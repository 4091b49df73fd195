------------------------------ MODULE StimulusProofs ------------------------------
(***************************************************************************)
(* Theorems about Stimulus, for any finite document, any identifiers and   *)
(* any number of modules and records: the contexts are those of the        *)
(* router's scopes, the counts of the scopes are right, and once every     *)
(* record has been handed over the scopes, the bindings, the targets and   *)
(* the controllers that an event reaches are those of the document.        *)
(*                                                                         *)
(* The order is: the tree and its changes, the counts, what one observer   *)
(* knows and what a change or a record does to it, types and counts in     *)
(* every step, all the observers in every step, and the theorems.          *)
(***************************************************************************)
EXTENDS Stimulus, FiniteSetTheorems, FunctionTheorems, SequenceTheorems, TLAPS

-----------------------------------------------------------------------------
(* Induction, in terms of sets.                                            *)

LEMMA LeastOf ==
  ASSUME NEW T \in SUBSET Nat, T # {}
  PROVE  \E n \in T : \A m \in T : n <= m
  <1> DEFINE R == OpToRel(<, Nat)
  <1>1. IsWellFoundedOn(R, Nat)
    BY NatLessThanWellFounded
  <1>2. \A x, y \in Nat : <<y, x>> \in R <=> y < x
    BY DEF OpToRel
  <1> HIDE DEF R
  <1>3. PICK x \in T : \A y \in T : ~(<<y, x>> \in R)
    BY <1>1, WFMin, Zenon
  <1>4. ASSUME NEW y \in T PROVE x <= y
    <2>1. ~(y < x)
      BY <1>2, <1>3
    <2> QED
      BY <2>1
  <1> QED
    BY <1>4

LEMMA Induction ==
  ASSUME NEW S, 0 \in S, \A n \in Nat : n \in S => n + 1 \in S
  PROVE  Nat \subseteq S
  <1> SUFFICES ASSUME Nat \ S # {} PROVE FALSE
    OBVIOUS
  <1>1. PICK n \in Nat \ S : \A m \in Nat \ S : n <= m
    BY LeastOf
  <1>2. n # 0 /\ n - 1 \in Nat /\ n - 1 \in S
    BY <1>1
  <1> QED
    BY <1>1, <1>2

-----------------------------------------------------------------------------
(* The tree.                                                               *)

Trees == [Element -> Node \cup {None}]

(* S holds the parents of its elements. *)
ClosedUp(tree, S) == \A y \in S \cap Element : tree[y] = None \/ tree[y] \in S

(* The sets that Above goes through. *)
Rises(tree, x, up) ==
  up = [n \in 0 .. Cardinality(Element) |->
          IF n = 0 THEN {x}
          ELSE up[n - 1] \cup {tree[y] : y \in up[n - 1] \cap Element}]

RisesTo(tree, x, up, n) ==
  /\ up \in [0 .. n -> SUBSET (Node \cup {None})]
  /\ up[0] = {x}
  /\ \A k \in 1 .. n : up[k] = up[k - 1] \cup {tree[y] : y \in up[k - 1] \cap Element}

LEMMA RisesExist ==
  ASSUME NEW tree \in Trees, NEW x \in Node, NEW size \in Nat
  PROVE  \E up : RisesTo(tree, x, up, size)
  <1> DEFINE S == {n \in Nat : \E up : RisesTo(tree, x, up, n)}
  <1>1. 0 \in S
    <2>1. RisesTo(tree, x, [k \in 0 .. 0 |-> {x}], 0)
      BY DEF RisesTo
    <2> QED
      BY <2>1
  <1>2. ASSUME NEW n \in Nat, n \in S PROVE n + 1 \in S
    <2>1. PICK up : RisesTo(tree, x, up, n)
      BY <1>2
    <2> DEFINE next == up[n] \cup {tree[y] : y \in up[n] \cap Element}
               higher == [k \in 0 .. n + 1 |-> IF k = n + 1 THEN next ELSE up[k]]
    <2>2. up[n] \in SUBSET (Node \cup {None})
      BY <2>1 DEF RisesTo
    <2>3. next \in SUBSET (Node \cup {None})
      BY <2>2 DEF Trees
    <2> HIDE DEF next
    <2>4. higher \in [0 .. n + 1 -> SUBSET (Node \cup {None})] /\ higher[0] = {x}
      BY <2>1, <2>3 DEF RisesTo
    <2>5. ASSUME NEW k \in 1 .. n + 1
          PROVE  higher[k] = higher[k - 1] \cup {tree[y] : y \in higher[k - 1] \cap Element}
      <3>1. CASE k = n + 1
        <4>1. higher[k] = next /\ higher[k - 1] = up[n]
          BY <3>1
        <4> QED
          BY <4>1 DEF next
      <3>2. CASE k # n + 1
        <4>1. k \in 1 .. n /\ k - 1 \in 0 .. n /\ k - 1 # n + 1
          BY <3>2
        <4>2. higher[k] = up[k] /\ higher[k - 1] = up[k - 1]
          BY <3>2, <4>1
        <4> QED
          BY <2>1, <4>1, <4>2 DEF RisesTo
      <3> QED
        BY <3>1, <3>2
    <2> HIDE DEF higher
    <2>6. RisesTo(tree, x, higher, n + 1)
      BY <2>4, <2>5 DEF RisesTo
    <2> QED
      BY <2>6
  <1> HIDE DEF S
  <1>3. Nat \subseteq S
    BY <1>1, <1>2, Induction
  <1> QED
    BY <1>3 DEF S

LEMMA AboveRises ==
  ASSUME NEW tree \in Trees, NEW x \in Node
  PROVE  \E up : /\ RisesTo(tree, x, up, Cardinality(Element))
                 /\ Above(tree, x) = up[Cardinality(Element)] \ {None}
  <1> DEFINE size == Cardinality(Element)
             risen == CHOOSE up : Rises(tree, x, up)
  <1>1. size \in Nat
    BY NodeAssumption, FS_CardinalityType
  <1>2. PICK up : RisesTo(tree, x, up, size)
    BY <1>1, RisesExist
  <1>3. Rises(tree, x, up)
    <2>1. ASSUME NEW n \in 0 .. size
          PROVE  up[n] = IF n = 0 THEN {x}
                         ELSE up[n - 1] \cup {tree[y] : y \in up[n - 1] \cap Element}
      <3>1. n # 0 => n \in 1 .. size
        BY <1>1
      <3> QED
        BY <1>2, <3>1 DEF RisesTo
    <2>2. up \in [0 .. size -> SUBSET (Node \cup {None})]
      BY <1>2 DEF RisesTo
    <2> QED
      BY <2>1, <2>2 DEF Rises
  <1>4. Rises(tree, x, risen)
    <2> HIDE DEF risen
    <2> QED
      BY <1>3, Zenon DEF risen
  <1>5. Above(tree, x) = risen[size] \ {None}
    BY DEF Above, Rises
  <1> HIDE DEF risen
  <1> DEFINE T == {n \in Nat : n <= size => risen[n] = up[n]}
  <1>6. 0 \in T
    BY <1>1, <1>2, <1>4 DEF Rises, RisesTo
  <1>7. ASSUME NEW n \in Nat, n \in T PROVE n + 1 \in T
    <2> SUFFICES ASSUME n + 1 <= size PROVE risen[n + 1] = up[n + 1]
      OBVIOUS
    <2>1. n + 1 \in 1 .. size /\ (n + 1) - 1 = n /\ n + 1 \in 0 .. size /\ n + 1 # 0
      BY <1>1
    <2> HIDE DEF size
    <2>2. risen[n + 1] = risen[n] \cup {tree[y] : y \in risen[n] \cap Element}
      BY <1>4, <2>1 DEF Rises, size
    <2>3. risen[n] = up[n]
      BY <1>7, <2>1, <1>1
    <2>4. up[n + 1] = up[n] \cup {tree[y] : y \in up[n] \cap Element}
      BY <1>2, <2>1 DEF RisesTo
    <2> QED
      BY <2>2, <2>3, <2>4
  <1> HIDE DEF T
  <1>8. Nat \subseteq T
    BY <1>6, <1>7, Induction
  <1>9. risen[size] = up[size]
    BY <1>1, <1>8 DEF T
  <1> QED
    BY <1>2, <1>5, <1>9

(* Either the elements risen to are all there are above x, or there are    *)
(* more with each step: so they are all after as many steps as elements.   *)
LEMMA RisesEnd ==
  ASSUME NEW tree \in Trees, NEW x \in Node, NEW up,
         RisesTo(tree, x, up, Cardinality(Element))
  PROVE  ClosedUp(tree, up[Cardinality(Element)])
  <1> DEFINE size == Cardinality(Element)
             own(n) == up[n] \cap Element
  <1>1. size \in Nat
    BY NodeAssumption, FS_CardinalityType
  <1>2. \A n \in 0 .. size : IsFiniteSet(own(n)) /\ Cardinality(own(n)) \in Nat
                             /\ Cardinality(own(n)) <= size
    <2>1. ASSUME NEW n \in 0 .. size
          PROVE  IsFiniteSet(own(n)) /\ Cardinality(own(n)) <= size
      <3>1. own(n) \in SUBSET Element
        OBVIOUS
      <3> HIDE DEF own
      <3> QED
        BY <3>1, NodeAssumption, FS_Subset
    <2> HIDE DEF own
    <2> QED
      BY <2>1, FS_CardinalityType
  <1>3. \A n \in 0 .. size - 1 : up[n + 1] = up[n] \cup {tree[y] : y \in own(n)}
    <2>1. ASSUME NEW n \in 0 .. size - 1
          PROVE  up[n + 1] = up[n] \cup {tree[y] : y \in own(n)}
      <3>1. n + 1 \in 1 .. size /\ (n + 1) - 1 = n
        BY <1>1
      <3> QED
        BY <3>1 DEF RisesTo
    <2> QED
      BY <2>1
  <1> HIDE DEF size
  <1> DEFINE T == {n \in Nat : n <= size => \/ ClosedUp(tree, up[n])
                                            \/ Cardinality(own(n)) > n}
  <1>4. 0 \in T
    <2>1. up[0] = {x}
      BY DEF RisesTo
    <2>2. CASE x \in Element
      <3>1. own(0) = {x}
        BY <2>1, <2>2
      <3>2. Cardinality(own(0)) = 1
        BY <3>1, FS_Singleton
      <3> QED
        BY <3>2
    <2>3. CASE x \notin Element
      BY <2>1, <2>3 DEF ClosedUp
    <2> QED
      BY <2>2, <2>3
  <1>5. ASSUME NEW n \in Nat, n \in T PROVE n + 1 \in T
    <2> SUFFICES ASSUME n + 1 <= size
                 PROVE  ClosedUp(tree, up[n + 1]) \/ Cardinality(own(n + 1)) > n + 1
      OBVIOUS
    <2>1. n \in 0 .. size - 1 /\ n <= size /\ n \in 0 .. size /\ n + 1 \in 0 .. size
      BY <1>1
    <2>2. up[n + 1] = up[n] \cup {tree[y] : y \in own(n)}
      BY <1>3, <2>1
    <2>3. CASE own(n + 1) = own(n)
      <3>1. ASSUME NEW y \in up[n + 1] \cap Element
            PROVE  tree[y] \in up[n + 1]
        BY <2>2, <2>3
      <3> QED
        BY <3>1 DEF ClosedUp
    <2>4. CASE own(n + 1) # own(n)
      <3>1. own(n) \in SUBSET own(n + 1)
        BY <2>2
      <3>2. ~ClosedUp(tree, up[n])
        <4>1. PICK e \in own(n + 1) : e \notin own(n)
          BY <2>4, <3>1
        <4>2. e \in Element /\ e # None
          BY NodeAssumption DEF Node
        <4> QED
          BY <2>2, <4>1, <4>2 DEF ClosedUp
      <3>3. Cardinality(own(n)) > n
        BY <1>5, <2>1, <3>2
      <3> HIDE DEF own
      <3>4. Cardinality(own(n)) <= Cardinality(own(n + 1))
            /\ Cardinality(own(n)) # Cardinality(own(n + 1))
        BY <1>2, <2>1, <2>4, <3>1, FS_Subset
      <3>5. Cardinality(own(n)) \in Nat /\ Cardinality(own(n + 1)) \in Nat
        BY <1>2, <2>1
      <3> QED
        BY <3>3, <3>4, <3>5
    <2> QED
      BY <2>3, <2>4
  <1>6. Nat \subseteq T
    <2> HIDE DEF T
    <2> QED
      BY <1>4, <1>5, Induction
  <1>7. ClosedUp(tree, up[size]) \/ Cardinality(own(size)) > size
    BY <1>1, <1>6
  <1>8. Cardinality(own(size)) \in Nat /\ Cardinality(own(size)) <= size
    BY <1>1, <1>2
  <1> HIDE DEF own
  <1> QED
    BY <1>1, <1>7, <1>8 DEF size

(* What is above x is the least set that holds x and the parents of its    *)
(* elements.                                                               *)
LEMMA AboveLeast ==
  ASSUME NEW tree \in Trees, NEW x \in Node
  PROVE  /\ Above(tree, x) \subseteq Node
         /\ x \in Above(tree, x)
         /\ ClosedUp(tree, Above(tree, x))
         /\ \A S : x \in S /\ ClosedUp(tree, S) => Above(tree, x) \subseteq S
  <1> DEFINE size == Cardinality(Element)
  <1>1. PICK up : RisesTo(tree, x, up, size) /\ Above(tree, x) = up[size] \ {None}
    BY AboveRises
  <1>2. size \in Nat
    BY NodeAssumption, FS_CardinalityType
  <1>3. ClosedUp(tree, up[size])
    BY <1>1, RisesEnd
  <1> HIDE DEF size
  <1>4. x # None /\ None \notin Element
    BY NodeAssumption DEF Node
  <1> DEFINE T == {n \in Nat : n <= size => x \in up[n]}
  <1>5. 0 \in T
    BY <1>1 DEF RisesTo
  <1>6. ASSUME NEW n \in Nat, n \in T PROVE n + 1 \in T
    <2> SUFFICES ASSUME n + 1 <= size PROVE x \in up[n + 1]
      OBVIOUS
    <2>1. n + 1 \in 1 .. size /\ (n + 1) - 1 = n /\ n <= size
      BY <1>2
    <2>2. up[n] \subseteq up[n + 1]
      BY <1>1, <2>1 DEF RisesTo
    <2> QED
      BY <1>6, <2>1, <2>2
  <1>7. x \in up[size]
    <2>1. Nat \subseteq T
      <3> HIDE DEF T
      <3> QED
        BY <1>5, <1>6, Induction
    <2> QED
      BY <1>2, <2>1
  <1>8. ASSUME NEW S, x \in S, ClosedUp(tree, S) PROVE up[size] \ {None} \subseteq S
    <2> DEFINE U == {n \in Nat : n <= size => up[n] \ {None} \subseteq S}
    <2>1. 0 \in U
      BY <1>1, <1>8 DEF RisesTo
    <2>2. ASSUME NEW n \in Nat, n \in U PROVE n + 1 \in U
      <3> SUFFICES ASSUME n + 1 <= size PROVE up[n + 1] \ {None} \subseteq S
        OBVIOUS
      <3>1. n + 1 \in 1 .. size /\ (n + 1) - 1 = n /\ n <= size
        BY <1>2
      <3>2. up[n + 1] = up[n] \cup {tree[y] : y \in up[n] \cap Element}
        BY <1>1, <3>1 DEF RisesTo
      <3>3. up[n] \ {None} \subseteq S
        BY <2>2, <3>1
      <3>4. \A y \in up[n] \cap Element : tree[y] = None \/ tree[y] \in S
        BY <1>4, <1>8, <3>3 DEF ClosedUp
      <3> QED
        BY <3>2, <3>3, <3>4
    <2> HIDE DEF U
    <2>3. Nat \subseteq U
      BY <2>1, <2>2, Induction
    <2> QED
      BY <1>2, <2>3 DEF U
  <1>9. up[size] \subseteq Node \cup {None}
    BY <1>1, <1>2 DEF RisesTo
  <1>10. ClosedUp(tree, Above(tree, x))
    BY <1>1, <1>3, <1>4 DEF ClosedUp
  <1> QED
    BY <1>1, <1>4, <1>7, <1>8, <1>9, <1>10

LEMMA AboveNode ==
  ASSUME NEW tree \in Trees, NEW x \in Node, NEW y \in Above(tree, x)
  PROVE  /\ y \in Node
         /\ Above(tree, y) \subseteq Above(tree, x)
  BY AboveLeast

LEMMA AboveParent ==
  ASSUME NEW tree \in Trees, NEW x \in Element, tree[x] # None
  PROVE  tree[x] \in Node /\ Above(tree, x) = {x} \cup Above(tree, tree[x])
  <1>1. x \in Node /\ tree[x] \in Node
    BY DEF Trees, Node
  <1>2. x \in Above(tree, x) /\ tree[x] \in Above(tree, x)
    BY <1>1, AboveLeast DEF ClosedUp
  <1>3. Above(tree, tree[x]) \subseteq Above(tree, x)
    BY <1>1, <1>2, AboveNode
  <1>4. ClosedUp(tree, {x} \cup Above(tree, tree[x]))
    BY <1>1, AboveLeast DEF ClosedUp
  <1>5. Above(tree, x) \subseteq {x} \cup Above(tree, tree[x])
    BY <1>1, <1>4, AboveLeast
  <1> QED
    BY <1>1, <1>2, <1>3, <1>5

LEMMA AboveTop ==
  ASSUME NEW tree \in Trees, NEW x \in Node, x \in Element => tree[x] = None
  PROVE  Above(tree, x) = {x}
  <1>1. ClosedUp(tree, {x})
    BY DEF ClosedUp
  <1> QED
    BY <1>1, AboveLeast

(* Of two nodes above x one is above the other. *)
LEMMA AboveLinear ==
  ASSUME NEW tree \in Trees, NEW x \in Node,
         NEW a \in Above(tree, x), NEW b \in Above(tree, x)
  PROVE  a \in Above(tree, b) \/ b \in Above(tree, a)
  <1> DEFINE S == {y \in Above(tree, x) : y \in Above(tree, a) \/ a \in Above(tree, y)}
  <1>1. x \in S
    BY AboveLeast
  <1>2. a \in Node
    BY AboveNode
  <1>3. ASSUME NEW y \in S \cap Element, tree[y] # None PROVE tree[y] \in S
    <2>1. y \in Node /\ tree[y] \in Above(tree, x)
      BY <1>3, AboveLeast DEF ClosedUp, Node
    <2>2. CASE y \in Above(tree, a)
      BY <1>2, <1>3, <2>1, <2>2, AboveLeast DEF ClosedUp
    <2>3. CASE y \notin Above(tree, a)
      <3>1. a \in Above(tree, y) /\ a # y
        BY <1>2, <2>3, AboveLeast
      <3>2. a \in Above(tree, tree[y])
        BY <1>3, <3>1, AboveParent
      <3> QED
        BY <2>1, <3>2
    <2> QED
      BY <2>2, <2>3
  <1>4. ClosedUp(tree, S)
    BY <1>3 DEF ClosedUp
  <1>5. Above(tree, x) \subseteq S
    BY <1>1, <1>4, AboveLeast
  <1> QED
    BY <1>5

-----------------------------------------------------------------------------
(* Changes of the tree.                                                    *)

(* Nothing is above its own parent. *)
Acyclic(tree) == \A e \in Element : tree[e] # None => e \notin Above(tree, tree[e])

(* What is not below the element that moves stays where it is. *)
LEMMA MoveElsewhere ==
  ASSUME NEW tree \in Trees, NEW e \in Element, NEW p \in Node \cup {None}, NEW x \in Node,
         e \notin Above(tree, x)
  PROVE  /\ [tree EXCEPT ![e] = p] \in Trees
         /\ Above([tree EXCEPT ![e] = p], x) = Above(tree, x)
  <1> DEFINE moved == [tree EXCEPT ![e] = p]
  <1>1. moved \in Trees /\ \A y \in Element : y # e => moved[y] = tree[y]
    BY DEF Trees
  <1> HIDE DEF moved
  <1>2. ClosedUp(moved, Above(tree, x))
    BY <1>1, AboveLeast DEF ClosedUp
  <1>3. Above(moved, x) \subseteq Above(tree, x)
    BY <1>1, <1>2, AboveLeast
  <1>4. ClosedUp(tree, Above(moved, x))
    <2>1. e \notin Above(moved, x)
      BY <1>3
    <2> QED
      BY <1>1, <2>1, AboveLeast DEF ClosedUp
  <1>5. Above(tree, x) \subseteq Above(moved, x)
    BY <1>1, <1>4, AboveLeast
  <1> QED
    BY <1>1, <1>3, <1>5 DEF moved

(* What is below it stays below it, with what is in between, and gets      *)
(* below wherever it moves to.                                             *)
LEMMA MoveAlong ==
  ASSUME NEW tree \in Trees, Acyclic(tree), NEW e \in Element, NEW p \in Node \cup {None},
         NEW x \in Node, e \in Above(tree, x)
  PROVE  /\ \A a \in Above(tree, x) : e \in Above(tree, a) => a \in Above([tree EXCEPT ![e] = p], x)
         /\ p # None => Above([tree EXCEPT ![e] = p], p) \subseteq Above([tree EXCEPT ![e] = p], x)
         /\ \A a \in Above([tree EXCEPT ![e] = p], x) :
              \/ a \in Above(tree, x) /\ e \in Above(tree, a)
              \/ p # None /\ a \in Above([tree EXCEPT ![e] = p], p)
  <1> DEFINE moved == [tree EXCEPT ![e] = p]
             between == {a \in Above(tree, x) : e \in Above(tree, a)}
             higher == IF p = None THEN {} ELSE Above(moved, p)
  <1>1. /\ moved \in Trees /\ moved[e] = p /\ e \in Node
        /\ \A y \in Element : y # e => moved[y] = tree[y]
    BY DEF Trees, Node
  <1> HIDE DEF moved
  <1>2. ASSUME NEW y \in between \cap Element, y # e
        PROVE  tree[y] \in between
    <2>1. tree[y] # None
      <3>1. y \in Node
        BY DEF Node
      <3>2. tree[y] = None => Above(tree, y) = {y}
        BY <3>1, AboveTop
      <3> QED
        BY <1>2, <3>2
    <2>2. e \in Above(tree, tree[y])
      BY <1>2, <2>1, AboveParent
    <2>3. tree[y] \in Above(tree, x)
      BY <2>1, AboveLeast DEF ClosedUp
    <2> QED
      BY <2>2, <2>3
  <1>3. Above(moved, x) \subseteq between \cup higher
    <2>1. x \in between
      BY AboveLeast
    <2>2. ASSUME NEW y \in (between \cup higher) \cap Element, moved[y] # None
          PROVE  moved[y] \in between \cup higher
      <3>1. CASE y = e
        BY <1>1, <2>2, <3>1, AboveLeast
      <3>2. CASE y # e /\ y \in between
        BY <1>1, <1>2, <3>2
      <3>3. CASE y \in higher
        <4>1. p \in Node /\ y \in Above(moved, p)
          BY <3>3
        <4>2. moved[y] \in Above(moved, p)
          BY <1>1, <2>2, <4>1, AboveLeast DEF ClosedUp
        <4> QED
          BY <3>3, <4>2
      <3> QED
        BY <3>1, <3>2, <3>3
    <2>3. ClosedUp(moved, between \cup higher)
      BY <2>2 DEF ClosedUp
    <2> QED
      BY <1>1, <2>1, <2>3, AboveLeast
  <1>4. between \subseteq Above(moved, x)
    <2> DEFINE S == {y \in Above(tree, x) : y \in Above(moved, x) \/ e \notin Above(tree, y)}
    <2>1. x \in S
      BY <1>1, AboveLeast
    <2>2. ASSUME NEW y \in S \cap Element, tree[y] # None PROVE tree[y] \in S
      <3>1. tree[y] \in Above(tree, x)
        BY <2>2, AboveLeast DEF ClosedUp
      <3>2. SUFFICES ASSUME e \in Above(tree, tree[y]) PROVE tree[y] \in Above(moved, x)
        BY <3>1
      <3>3. e \in Above(tree, y) /\ y # e
        BY <2>2, <3>2, AboveParent DEF Acyclic
      <3>4. y \in Above(moved, x) /\ moved[y] = tree[y]
        BY <1>1, <2>2, <3>3
      <3> QED
        BY <1>1, <2>2, <3>4, AboveLeast DEF ClosedUp
    <2>3. ClosedUp(tree, S)
      BY <2>2 DEF ClosedUp
    <2>4. Above(tree, x) \subseteq S
      BY <2>1, <2>3, AboveLeast
    <2> QED
      BY <2>4
  <1>5. p # None => Above(moved, p) \subseteq Above(moved, x)
    <2>1. e \in Above(moved, x)
      BY <1>1, <1>4, AboveLeast
    <2>2. p # None => p \in Above(moved, x)
      BY <1>1, <2>1, AboveLeast DEF ClosedUp
    <2> QED
      BY <1>1, <2>2, AboveNode
  <1> QED
    BY <1>3, <1>4, <1>5 DEF moved

(* A tree without cycles stays one. *)
LEMMA MoveAcyclic ==
  ASSUME NEW tree \in Trees, Acyclic(tree), NEW e \in Element, NEW p \in Node \cup {None},
         p # None => e \notin Above(tree, p)
  PROVE  Acyclic([tree EXCEPT ![e] = p])
  <1> DEFINE moved == [tree EXCEPT ![e] = p]
  <1>1. moved \in Trees /\ moved[e] = p /\ \A y \in Element : y # e => moved[y] = tree[y]
    BY DEF Trees
  <1>2. p # None => Above(moved, p) = Above(tree, p)
    BY MoveElsewhere
  <1>3. ASSUME NEW y \in Element, moved[y] # None PROVE y \notin Above(moved, moved[y])
    <2>1. CASE y = e
      BY <1>1, <1>2, <1>3, <2>1
    <2>2. CASE y # e
      <3>1. /\ tree[y] # None /\ tree[y] \in Node /\ moved[y] = tree[y]
            /\ y \notin Above(tree, tree[y])
            /\ Above(tree, y) = {y} \cup Above(tree, tree[y])
        BY <1>1, <1>3, <2>2, AboveParent DEF Acyclic
      <3>2. CASE e \notin Above(tree, tree[y])
        BY <3>1, <3>2, MoveElsewhere
      <3>3. CASE e \in Above(tree, tree[y])
        <4>1. SUFFICES ASSUME y \in Above(moved, tree[y]) PROVE FALSE
          BY <3>1
        <4>2. \/ y \in Above(tree, tree[y])
              \/ p # None /\ y \in Above(moved, p)
          BY <3>1, <3>3, <4>1, MoveAlong
        <4>3. p # None /\ y \in Above(tree, p)
          BY <1>2, <3>1, <4>2
        <4>4. e \in Above(tree, y)
          BY <3>1, <3>3
        <4>5. Above(tree, y) \subseteq Above(tree, p)
          BY <4>3, AboveNode
        <4> QED
          BY <4>3, <4>4, <4>5
      <3> QED
        BY <3>2, <3>3
    <2> QED
      BY <2>1, <2>2
  <1> QED
    BY <1>3 DEF Acyclic

-----------------------------------------------------------------------------
(* Tokens.                                                                 *)

LEMMA CommonPrefixLength ==
  ASSUME NEW f \in Seq(Identifier), NEW g \in Seq(Identifier)
  PROVE  LET n == Len(LongestCommonPrefix({f, g}))
         IN n \in 0 .. Len(f) /\ n <= Len(g) /\ \A k \in 1 .. n : f[k] = g[k]
  <1> DEFINE CP == CommonPrefixes({f, g})
             longest == LongestCommonPrefix({f, g})
  <1>1. Len(f) \in Nat /\ Len(g) \in Nat
    OBVIOUS
  <1>2. ASSUME NEW p \in CP
        PROVE  /\ Len(p) \in Nat /\ Len(p) <= Len(f) /\ Len(p) <= Len(g)
               /\ SubSeq(p, 1, Len(p)) = SubSeq(f, 1, Len(p))
               /\ SubSeq(p, 1, Len(p)) = SubSeq(g, 1, Len(p))
    <2>1. IsPrefix(p, f) /\ IsPrefix(p, g)
      BY DEF CommonPrefixes
    <2>2. PICK s \in {f, g} : \E l \in 0 .. Len(s) : p = SubSeq(s, 1, l)
      BY DEF CommonPrefixes, Prefixes
    <2>3. PICK l \in 0 .. Len(s) : p = SubSeq(s, 1, l)
      BY <2>2
    <2>4. p \in Seq(Identifier)
      BY <2>3
    <2> QED
      BY <2>1, <2>4 DEF IsPrefix
  <1>3. CP # {}
    <2>1. SubSeq(f, 1, 0) = <<>> /\ <<>> \in Prefixes(f)
      <3>1. 0 \in 0 .. Len(f) /\ SubSeq(f, 1, 0) = <<>>
        BY <1>1, SubSeqEmpty
      <3> QED
        BY <3>1 DEF Prefixes
    <2>2. IsPrefix(<<>>, f) /\ IsPrefix(<<>>, g)
      <3>1. /\ Len(<<>>) = 0 /\ SubSeq(<<>>, 1, 0) = <<>>
            /\ SubSeq(f, 1, 0) = <<>> /\ SubSeq(g, 1, 0) = <<>>
        BY SubSeqEmpty
      <3> QED
        BY <1>1, <3>1 DEF IsPrefix
    <2> QED
      BY <2>1, <2>2 DEF CommonPrefixes
  <1>4. \E p \in CP : \A other \in CP : Len(other) <= Len(p)
    <2> DEFINE T == {Len(f) - Len(p) : p \in CP}
    <2>1. T \in SUBSET Nat /\ T # {}
      <3>1. \A p \in CP : Len(f) - Len(p) \in Nat
        <4> HIDE DEF CP
        <4> QED
          BY <1>1, <1>2
      <3> QED
        BY <1>3, <3>1
    <2>2. PICK t \in T : \A u \in T : t <= u
      BY <2>1, LeastOf
    <2>3. PICK p \in CP : t = Len(f) - Len(p)
      BY <2>2
    <2>4. ASSUME NEW other \in CP PROVE Len(other) <= Len(p)
      <3>1. t <= Len(f) - Len(other)
        BY <2>2
      <3> QED
        BY <1>1, <1>2, <2>3, <3>1
    <2> QED
      BY <2>4
  <1>5. longest \in CP
    <2> HIDE DEF CP
    <2>1. longest = CHOOSE p \in CP : \A other \in CP : Len(other) <= Len(p)
      BY DEF LongestCommonPrefix, CP
    <2> HIDE DEF longest
    <2> QED
      BY <1>4, <2>1
  <1> DEFINE n == Len(longest)
  <1>6. n \in 0 .. Len(f) /\ n <= Len(g) /\ SubSeq(f, 1, n) = SubSeq(g, 1, n)
    <2> HIDE DEF CP, longest
    <2> QED
      BY <1>1, <1>2, <1>5
  <1> HIDE DEF longest, n
  <1>7. ASSUME NEW k \in 1 .. n PROVE f[k] = g[k]
    <2>1. \A i \in 1 .. n : f[i] \in Identifier /\ g[i] \in Identifier
      BY <1>1, <1>6
    <2>2. n \in Int /\ k \in 1 .. n - 1 + 1 /\ 1 + k - 1 = k
      BY <1>1, <1>6
    <2>3. SubSeq(f, 1, n)[k] = f[1 + k - 1] /\ SubSeq(g, 1, n)[k] = g[1 + k - 1]
      BY <2>1, <2>2, SubSeqProperties
    <2> QED
      BY <1>6, <2>2, <2>3
  <1> QED
    BY <1>6, <1>7 DEF n, longest

(* The tokens of a sequence are those of its beginning and those of its end. *)
LEMMA OccurrencesSplit ==
  ASSUME NEW s \in Seq(Identifier), NEW n \in 0 .. Len(s), NEW i
  PROVE  /\ Cardinality({k \in 1 .. n : s[k] = i}) \in Nat
         /\ Occurrences(SubSeq(s, n + 1, Len(s)), i) \in Nat
         /\ Occurrences(s, i) = Cardinality({k \in 1 .. n : s[k] = i})
                                  + Occurrences(SubSeq(s, n + 1, Len(s)), i)
  <1> DEFINE len   == Len(s)
             rest  == SubSeq(s, n + 1, Len(s))
             all   == {k \in 1 .. len : s[k] = i}
             begin == {k \in 1 .. n : s[k] = i}
             end   == {k \in n + 1 .. len : s[k] = i}
             moved == {k \in 1 .. len - n : rest[k] = i}
             f     == [k \in end |-> k - n]
  <1>1. len \in Nat /\ n \in Nat /\ n <= len /\ DOMAIN s = 1 .. len
    OBVIOUS
  <1>2. /\ rest \in Seq(Identifier) /\ Len(rest) = len - n
        /\ \A k \in 1 .. len - n : rest[k] = s[k + n]
    <2>1. \A k \in n + 1 .. len : s[k] \in Identifier
      BY <1>1
    <2>2. n + 1 \in Int /\ len \in Int
      BY <1>1
    <2>3. /\ rest \in Seq(Identifier)
          /\ Len(rest) = (IF n + 1 <= len THEN len - (n + 1) + 1 ELSE 0)
          /\ \A k \in 1 .. len - (n + 1) + 1 : rest[k] = s[n + 1 + k - 1]
      BY <2>1, <2>2, SubSeqProperties
    <2>4. \A k \in 1 .. len - n : k \in 1 .. len - (n + 1) + 1 /\ n + 1 + k - 1 = k + n
      BY <1>1
    <2>5. Len(rest) = len - n
      <3> HIDE DEF len, rest
      <3>1. CASE n + 1 <= len
        BY <1>1, <2>3, <3>1
      <3>2. CASE ~(n + 1 <= len)
        <4>1. len - n = 0
          BY <1>1, <3>2
        <4> QED
          BY <2>3, <3>2, <4>1
      <3> QED
        BY <3>1, <3>2
    <2> HIDE DEF len, rest
    <2> QED
      BY <2>3, <2>4, <2>5
  <1> HIDE DEF rest
  <1>3. Occurrences(s, i) = Cardinality(all) /\ Occurrences(rest, i) = Cardinality(moved)
    <2>1. DOMAIN rest = 1 .. len - n
      BY <1>2
    <2> QED
      BY <1>1, <2>1 DEF Occurrences
  <1> HIDE DEF len
  <1>4. IsFiniteSet(begin) /\ IsFiniteSet(end)
    <2>1. IsFiniteSet(1 .. n) /\ IsFiniteSet(n + 1 .. len)
      BY <1>1, FS_Interval
    <2>2. begin \in SUBSET (1 .. n) /\ end \in SUBSET (n + 1 .. len)
      OBVIOUS
    <2> HIDE DEF begin, end
    <2> QED
      BY <2>1, <2>2, FS_Subset
  <1>5. all = begin \cup end /\ begin \cap end = {}
    BY <1>1
  <1>6. f \in Bijection(end, moved)
    <2>1. \A k \in end : k - n \in moved /\ k \in Int
      BY <1>1, <1>2
    <2>2. f \in [end -> moved]
      BY <2>1
    <2>3. \A a, b \in end : f[a] = f[b] => a = b
      BY <1>1
    <2>4. ASSUME NEW k \in moved PROVE \E a \in end : f[a] = k
      <3>1. k + n \in end /\ f[k + n] = k
        BY <1>1, <1>2
      <3> QED
        BY <3>1
    <2> HIDE DEF f, end, moved
    <2> QED
      BY <2>2, <2>3, <2>4, Fun_IsBij
  <1>7. IsFiniteSet(moved) /\ Cardinality(moved) = Cardinality(end)
    <2> HIDE DEF f, end, moved
    <2>1. ExistsBijection(end, moved)
      BY <1>6, Fun_ExistsBij
    <2> QED
      BY <1>4, <2>1, FS_Bijection
  <1> HIDE DEF begin, end, moved, all, f
  <1>8. Cardinality(all) = Cardinality(begin) + Cardinality(end)
    <2>1. Cardinality(begin \cup end) =
            Cardinality(begin) + Cardinality(end) - Cardinality(begin \cap end)
      BY <1>4, FS_Union
    <2>2. Cardinality(begin \cap end) = 0
      BY <1>5, FS_EmptySet
    <2>3. Cardinality(begin) \in Nat /\ Cardinality(end) \in Nat
      BY <1>4, FS_CardinalityType
    <2> QED
      BY <1>5, <2>1, <2>2, <2>3
  <1>9. Cardinality(begin) \in Nat /\ Cardinality(moved) \in Nat
    BY <1>4, <1>7, FS_CardinalityType
  <1> QED
    BY <1>3, <1>7, <1>8, <1>9 DEF begin, rest

(* What is counted down and up again when tokens change is the change of   *)
(* the count.                                                              *)
LEMMA OccurrencesChange ==
  ASSUME NEW f \in Seq(Identifier), NEW g \in Seq(Identifier), NEW i
  PROVE  /\ Occurrences(f, i) \in Nat /\ Occurrences(g, i) \in Nat
         /\ Occurrences(Changed(f, g), i) \in Nat
         /\ Occurrences(Changed(f, g), i) <= Occurrences(f, i)
         /\ Occurrences(f, i) - Occurrences(Changed(f, g), i)
              + Occurrences(Changed(g, f), i) = Occurrences(g, i)
  <1> DEFINE n == Len(LongestCommonPrefix({f, g}))
             common == {k \in 1 .. n : f[k] = i}
  <1>1. n \in 0 .. Len(f) /\ n \in 0 .. Len(g) /\ \A k \in 1 .. n : f[k] = g[k]
    <2>1. n \in 0 .. Len(f) /\ n <= Len(g) /\ \A k \in 1 .. n : f[k] = g[k]
      BY CommonPrefixLength
    <2>2. Len(f) \in Nat /\ Len(g) \in Nat
      OBVIOUS
    <2> HIDE DEF n
    <2> QED
      BY <2>1, <2>2
  <1>2. {f, g} = {g, f}
    OBVIOUS
  <1>3. /\ Changed(f, g) = SubSeq(f, n + 1, Len(f))
        /\ Changed(g, f) = SubSeq(g, n + 1, Len(g))
    BY <1>2 DEF Changed
  <1> HIDE DEF n
  <1>4. {k \in 1 .. n : g[k] = i} = common
    BY <1>1
  <1>5. /\ Cardinality(common) \in Nat
        /\ Occurrences(Changed(f, g), i) \in Nat
        /\ Occurrences(f, i) = Cardinality(common) + Occurrences(Changed(f, g), i)
    BY <1>1, <1>3, OccurrencesSplit
  <1>6. /\ Occurrences(Changed(g, f), i) \in Nat
        /\ Occurrences(g, i) = Cardinality(common) + Occurrences(Changed(g, f), i)
    BY <1>1, <1>3, <1>4, OccurrencesSplit
  <1> QED
    BY <1>5, <1>6

-----------------------------------------------------------------------------
(* Types.                                                                  *)

(* The attributes and the tree are of their types. *)
DomOK == /\ parent \in Trees
         /\ attribute \in [Attributes -> [Element -> Seq(Identifier) \cup {None}]]

LEMMA NameType ==
  ASSUME NEW o
  PROVE  Name(o) \in Attributes /\ Name(o) # "removed" /\ Name(o) # "added"
  BY DEF Name, Attributes

LEMMA ScopeObserverIs == Watched(ScopeObserver) = Root /\ Name(ScopeObserver) = "controller"
  BY DEF ScopeObserver, Watched, Name

LEMMA ContextIs ==
  ASSUME NEW c \in Element \X Identifier \X Nat
  PROVE  /\ c # ScopeObserver /\ Watched(c) = c[1] /\ c[1] \in Element /\ c[1] \in Node
         /\ Name(c) = "action"
  <1>1. c = <<c[1], c[2], c[3]>> /\ c[1] \in Element
    OBVIOUS
  <1>2. c # ScopeObserver
    BY <1>1 DEF ScopeObserver
  <1> QED
    BY <1>1, <1>2 DEF Watched, Name, Node

LEMMA TokensType ==
  ASSUME DomOK, NEW o, NEW S \in SUBSET {x \in Element : HasAttribute(Name(o), x)}
  PROVE  /\ Tokens(o, S) \in [S -> Seq(Identifier)]
         /\ Tokens(o, S) \in Seen
  <1>1. \A x \in S : attribute[Name(o)][x] \in Seq(Identifier)
    BY NameType DEF DomOK, HasAttribute
  <1>2. Tokens(o, S) \in [S -> Seq(Identifier)]
    BY <1>1 DEF Tokens
  <1> QED
    BY <1>2 DEF Seen

LEMMA FreshType ==
  ASSUME DomOK, NEW o
  PROVE  Fresh(o) \in ObserverState
  <1>1. MatchesInTree(o, Watched(o)) \in SUBSET {x \in Element : HasAttribute(Name(o), x)}
    BY DEF MatchesInTree
  <1>2. <<>> \in Seq(Record)
    OBVIOUS
  <1> QED
    BY <1>1, <1>2, TokensType DEF Fresh, ObserverState

LEMMA SeenType ==
  ASSUME NEW seen \in Seen
  PROVE  /\ DOMAIN seen \in SUBSET Element
         /\ \A x \in DOMAIN seen : seen[x] \in Seq(Identifier)
         /\ seen \in [DOMAIN seen -> Seq(Identifier)]
  BY DEF Seen

LEMMA LessSeen ==
  ASSUME NEW seen \in Seen, NEW S \in SUBSET DOMAIN seen
  PROVE  [y \in S |-> seen[y]] \in Seen
  <1>1. [y \in S |-> seen[y]] \in [S -> Seq(Identifier)]
    BY SeenType
  <1>2. S \in SUBSET Element
    BY SeenType
  <1> QED
    BY <1>1, <1>2 DEF Seen

LEMMA MoreSeen ==
  ASSUME DomOK, NEW o, NEW seen \in Seen,
         NEW S \in SUBSET {y \in Element : HasAttribute(Name(o), y)}
  PROVE  /\ Reading(o, seen, S) \in Seen
         /\ DOMAIN Reading(o, seen, S) = S \cup DOMAIN seen
         /\ \A x \in S : Reading(o, seen, S)[x] = attribute[Name(o)][x]
         /\ \A x \in DOMAIN seen : x \notin S => Reading(o, seen, S)[x] = seen[x]
  <1>1. \A x \in S : attribute[Name(o)][x] \in Seq(Identifier)
    BY NameType DEF DomOK, HasAttribute
  <1>2. \A x \in S \cup DOMAIN seen :
          (IF x \in S THEN attribute[Name(o)][x] ELSE seen[x]) \in Seq(Identifier)
    BY <1>1, SeenType
  <1>3. Reading(o, seen, S) \in [S \cup DOMAIN seen -> Seq(Identifier)]
    BY <1>2 DEF Reading
  <1>4. S \cup DOMAIN seen \in SUBSET Element
    BY SeenType
  <1>5. Reading(o, seen, S) \in Seen
    BY <1>3, <1>4 DEF Seen
  <1> QED
    BY <1>5 DEF Reading

LEMMA MoreSeenOne ==
  ASSUME DomOK, NEW o, NEW seen \in Seen, NEW x \in Element, HasAttribute(Name(o), x)
  PROVE  /\ Reading(o, seen, {x}) \in Seen
         /\ DOMAIN Reading(o, seen, {x}) = {x} \cup DOMAIN seen
         /\ Reading(o, seen, {x})[x] = attribute[Name(o)][x]
         /\ \A z \in DOMAIN seen : z # x => Reading(o, seen, {x})[z] = seen[z]
  <1> DEFINE S == {x}
  <1>1. S \in SUBSET {y \in Element : HasAttribute(Name(o), y)} /\ x \in S
    OBVIOUS
  <1> HIDE DEF S
  <1>2. /\ Reading(o, seen, S) \in Seen
        /\ DOMAIN Reading(o, seen, S) = S \cup DOMAIN seen
        /\ \A z \in S : Reading(o, seen, S)[z] = attribute[Name(o)][z]
        /\ \A z \in DOMAIN seen : z \notin S => Reading(o, seen, S)[z] = seen[z]
    <2>1. Reading(o, seen, S) \in Seen
      BY <1>1, MoreSeen
    <2>2. DOMAIN Reading(o, seen, S) = S \cup DOMAIN seen
      BY <1>1, MoreSeen
    <2>3. \A z \in S : Reading(o, seen, S)[z] = attribute[Name(o)][z]
      BY <1>1, MoreSeen
    <2>4. \A z \in DOMAIN seen : z \notin S => Reading(o, seen, S)[z] = seen[z]
      BY DEF Reading
    <2> QED
      BY <2>1, <2>2, <2>3, <2>4
  <1>3. Reading(o, seen, S)[x] = attribute[Name(o)][x]
    BY <1>1, <1>2
  <1> QED
    BY <1>2, <1>3 DEF S

(* What processMutation does to element y. *)
After(o, r, seen, new, y) ==
  LET below == Around(parent, r.element, y) /\ HasAttribute(Name(o), y)
  IN /\ r.kind = "removed" =>
          /\ y \in DOMAIN new <=> y \in DOMAIN seen /\ ~below
          /\ y \in DOMAIN new => new[y] = seen[y]
     /\ r.kind = "added" =>
          /\ y \in DOMAIN new <=>
               \/ y \in DOMAIN seen
               \/ below /\ ElementIsActive(o, r.element) /\ ElementIsActive(o, y)
          /\ y \in DOMAIN seen => new[y] = seen[y]
          /\ y \in DOMAIN new \ DOMAIN seen => new[y] = attribute[Name(o)][y]
     /\ r.kind \in Attributes =>
          /\ y # r.element => /\ y \in DOMAIN new <=> y \in DOMAIN seen
                              /\ y \in DOMAIN new => new[y] = seen[y]
          /\ y = r.element => /\ y \in DOMAIN new <=>
                                   /\ HasAttribute(Name(o), y)
                                   /\ y \in DOMAIN seen \/ ElementIsActive(o, y)
                              /\ y \in DOMAIN new =>
                                   \/ new[y] = attribute[Name(o)][y]
                                   \/ r.kind # Name(o) /\ y \in DOMAIN seen /\ new[y] = seen[y]

LEMMA ProcessedIs ==
  ASSUME DomOK, NEW o, NEW seen \in Seen, NEW r \in Record, NEW y \in Element
  PROVE  /\ Processed(o, seen, r) \in Seen
         /\ After(o, r, seen, Processed(o, seen, r), y)
  <1> DEFINE new  == Processed(o, seen, r)
             x    == r.element
             tree == MatchesInTree(o, x)
             add  == {z \in tree \ DOMAIN seen : ElementIsActive(o, x) /\ ElementIsActive(o, z)}
  <1>1. /\ \A z : z \in tree <=> z \in Element /\ Around(parent, x, z) /\ HasAttribute(Name(o), z)
        /\ add \in SUBSET {z \in Element : HasAttribute(Name(o), z)}
        /\ x \in Element
    BY DEF MatchesInTree, Record
  <1>2. CASE r.kind = "removed"
    <2>1. new = [z \in DOMAIN seen \ tree |-> seen[z]]
      BY <1>2 DEF Processed
    <2>2. new \in Seen
      <3> HIDE DEF new, tree
      <3> QED
        BY <2>1, LessSeen
    <2>3. r.kind # "added" /\ r.kind \notin Attributes
      BY <1>2 DEF Attributes
    <2> HIDE DEF new, tree, add
    <2> QED
      BY <1>1, <2>1, <2>2, <2>3 DEF After, new, x
  <1>3. CASE r.kind = "added"
    <2>1. new = Reading(o, seen, add)
      BY <1>3 DEF Processed
    <2>2. r.kind # "removed" /\ r.kind \notin Attributes
      BY <1>3 DEF Attributes
    <2>3. /\ new \in Seen /\ DOMAIN new = add \cup DOMAIN seen
          /\ \A z \in add : new[z] = attribute[Name(o)][z]
          /\ \A z \in DOMAIN seen \ add : new[z] = seen[z]
      <3> HIDE DEF new, tree, add
      <3> QED
        BY <1>1, <2>1, MoreSeen
    <2>4. y \in add <=> /\ y \notin DOMAIN seen
                        /\ Around(parent, x, y) /\ HasAttribute(Name(o), y)
                        /\ ElementIsActive(o, x) /\ ElementIsActive(o, y)
      BY <1>1
    <2> HIDE DEF new, tree, add
    <2> QED
      BY <1>3, <2>2, <2>3, <2>4 DEF After, new, x
  <1>4. CASE r.kind \in Attributes
    <2>1. r.kind # "added" /\ r.kind # "removed"
      BY <1>4 DEF Attributes
    <2>2. new = IF ~HasAttribute(Name(o), x)
                THEN [z \in DOMAIN seen \ {x} |-> seen[z]]
                ELSE IF x \notin DOMAIN seen
                THEN IF ElementIsActive(o, x) THEN Reading(o, seen, {x}) ELSE seen
                ELSE IF r.kind = Name(o) THEN Reading(o, seen, {x}) ELSE seen
      BY <2>1 DEF Processed
    <2>3. [z \in DOMAIN seen \ {x} |-> seen[z]] \in Seen
      BY LessSeen
    <2>4. HasAttribute(Name(o), x) =>
            /\ Reading(o, seen, {x}) \in Seen
            /\ DOMAIN Reading(o, seen, {x}) = {x} \cup DOMAIN seen
            /\ Reading(o, seen, {x})[x] = attribute[Name(o)][x]
            /\ \A z \in DOMAIN seen : z # x => Reading(o, seen, {x})[z] = seen[z]
      <3>1. ASSUME HasAttribute(Name(o), x)
            PROVE  /\ Reading(o, seen, {x}) \in Seen
                   /\ DOMAIN Reading(o, seen, {x}) = {x} \cup DOMAIN seen
                   /\ Reading(o, seen, {x})[x] = attribute[Name(o)][x]
                   /\ \A z \in DOMAIN seen : z # x => Reading(o, seen, {x})[z] = seen[z]
        <4>1. \A z \in DOMAIN seen : z # x => Reading(o, seen, {x})[z] = seen[z]
          BY DEF Reading
        <4> HIDE DEF new, x, tree, add
        <4> QED
          BY <1>1, <3>1, <4>1, MoreSeenOne
      <3> QED
        BY <3>1
    <2> HIDE DEF new, tree, add
    <2>5. new \in Seen
      BY <2>2, <2>3, <2>4
    <2>6. CASE y # x
      <3>1. (y \in DOMAIN new <=> y \in DOMAIN seen) /\ (y \in DOMAIN new => new[y] = seen[y])
        BY <2>2, <2>4, <2>6
      <3> QED
        BY <1>4, <2>1, <2>5, <2>6, <3>1 DEF After, new, x
    <2>7. CASE y = x
      <3>1. y \in DOMAIN new <=> HasAttribute(Name(o), y) /\ (y \in DOMAIN seen \/ ElementIsActive(o, y))
        BY <2>2, <2>4, <2>7
      <3>2. y \in DOMAIN new => \/ new[y] = attribute[Name(o)][y]
                                \/ r.kind # Name(o) /\ y \in DOMAIN seen /\ new[y] = seen[y]
        BY <2>2, <2>4, <2>7
      <3> QED
        BY <1>4, <2>1, <2>5, <2>7, <3>1, <3>2 DEF After, new, x
    <2> QED
      BY <2>6, <2>7
  <1>5. r.kind \in {"removed", "added"} \cup Attributes
    BY DEF Record
  <1> QED
    BY <1>2, <1>3, <1>4, <1>5

-----------------------------------------------------------------------------
(* An element that was in no tree is put at p, or leaves its parent.       *)

LEMMA AboveAfterArrival ==
  ASSUME NEW tree \in Trees, Acyclic(tree), NEW e \in Element, tree[e] = None,
         NEW p \in Node, e \notin Above(tree, p), NEW x \in Node
  PROVE  LET moved == [tree EXCEPT ![e] = p]
         IN /\ moved \in Trees
            /\ e \notin Above(tree, x) => Above(moved, x) = Above(tree, x)
            /\ e \in Above(tree, x) => Above(moved, x) = Above(tree, x) \cup Above(tree, p)
  <1> DEFINE moved == [tree EXCEPT ![e] = p]
  <1>1. moved \in Trees /\ Above(moved, p) = Above(tree, p)
    BY MoveElsewhere
  <1>2. e \notin Above(tree, x) => Above(moved, x) = Above(tree, x)
    BY MoveElsewhere
  <1>3. ASSUME e \in Above(tree, x)
        PROVE  Above(moved, x) = Above(tree, x) \cup Above(tree, p)
    <2>1. p # None /\ e \in Node
      BY NodeAssumption DEF Node
    <2>2. Above(tree, e) = {e}
      BY <2>1, AboveTop
    <2>3. \A a \in Above(tree, x) : e \in Above(tree, a)
      BY <1>3, <2>2, AboveLinear, AboveLeast, AboveNode
    <2>4. /\ \A a \in Above(tree, x) : a \in Above(moved, x)
          /\ Above(moved, p) \subseteq Above(moved, x)
          /\ \A a \in Above(moved, x) : a \in Above(tree, x) \/ a \in Above(moved, p)
      BY <1>3, <2>1, <2>3, MoveAlong
    <2> HIDE DEF moved
    <2> QED
      BY <1>1, <2>4
  <1> QED
    BY <1>1, <1>2, <1>3

LEMMA AboveAfterRemoval ==
  ASSUME NEW tree \in Trees, Acyclic(tree), NEW e \in Element, tree[e] # None, NEW x \in Node
  PROVE  LET moved == [tree EXCEPT ![e] = None]
         IN /\ moved \in Trees
            /\ e \notin Above(tree, x) => Above(moved, x) = Above(tree, x)
            /\ e \in Above(tree, x) =>
                 \A a \in Above(tree, x) : a \in Above(moved, x) <=> e \in Above(tree, a)
            /\ \A a \in Above(moved, x) : a \in Above(tree, x)
            /\ e \in Above(tree, x) =>
                 \A a \in Above(tree, x) : e \notin Above(tree, a) => a \in Above(tree, tree[e])
  <1> DEFINE moved == [tree EXCEPT ![e] = None]
  <1>1. moved \in Trees
    BY DEF Trees
  <1>2. e \notin Above(tree, x) => Above(moved, x) = Above(tree, x)
    BY MoveElsewhere
  <1>3. ASSUME e \in Above(tree, x)
        PROVE  /\ \A a \in Above(tree, x) : e \in Above(tree, a) => a \in Above(moved, x)
               /\ \A a \in Above(moved, x) : a \in Above(tree, x) /\ e \in Above(tree, a)
    BY <1>3, MoveAlong
  <1>4. ASSUME e \in Above(tree, x), NEW a \in Above(tree, x), e \notin Above(tree, a)
        PROVE  a \in Above(tree, tree[e])
    <2>1. a \in Above(tree, e)
      BY <1>4, AboveLinear
    <2>2. a # e
      BY <1>4, AboveLeast, AboveNode
    <2>3. Above(tree, e) = {e} \cup Above(tree, tree[e])
      BY AboveParent
    <2> QED
      BY <2>1, <2>2, <2>3
  <1> HIDE DEF moved
  <1>5. e \in Above(tree, x) =>
          \A a \in Above(tree, x) : a \in Above(moved, x) <=> e \in Above(tree, a)
    BY <1>3
  <1>6. \A a \in Above(moved, x) : a \in Above(tree, x)
    BY <1>2, <1>3
  <1> QED
    BY <1>1, <1>2, <1>4, <1>5, <1>6 DEF moved

-----------------------------------------------------------------------------
(* What an observer has to know.                                           *)

Removal(tree, r, x)    == r.kind = "removed" /\ x \in Node /\ Around(tree, r.element, x)
Arrival(tree, w, r, x) == /\ r.kind = "added"
                          /\ Around(tree, w, r.element) /\ Around(tree, r.element, x)
Rereads(name, r, x)    == r.kind = name /\ r.element = x

(* An element above x was removed, and the record is pending. *)
Removed(tree, queue, x) == \E k \in DOMAIN queue : Removal(tree, queue[k], x)

RemovedIn(queue) == {queue[k].element : k \in {l \in DOMAIN queue : queue[l].kind = "removed"}}

(* An element seen that reads otherwise has a record. *)
Stale(values, name, s) ==
  \A x \in DOMAIN s.seen :
    (values[x] = None \/ values[x] # s.seen[x]) =>
      \E k \in DOMAIN s.queue : Rereads(name, s.queue[k], x)

(* So does one that was seen and is not inside w. *)
Gone(tree, values, w, s, midway) ==
  \A x \in DOMAIN s.seen :
    (~midway \/ values[x] # None) => Around(tree, w, x) \/ Removed(tree, s.queue, x)

(* And one inside w that was not seen. *)
Missing(tree, values, name, w, s) ==
  \A x \in Element :
    (Around(tree, w, x) /\ values[x] # None /\ x \notin DOMAIN s.seen) =>
      \E k \in DOMAIN s.queue : \/ Arrival(tree, w, s.queue[k], x)
                                \/ Rereads(name, s.queue[k], x)

(* What is inside w and was removed has come back later. *)
Returned(tree, w, s) ==
  \A x \in Element : \A k \in DOMAIN s.queue :
    (Around(tree, w, x) /\ Removal(tree, s.queue[k], x)) =>
      \E l \in DOMAIN s.queue : l > k /\ Arrival(tree, w, s.queue[l], x)

Watch(tree, values, name, w, s, midway) ==
  /\ Stale(values, name, s)
  /\ Gone(tree, values, w, s, midway)
  /\ Missing(tree, values, name, w, s)
  /\ Returned(tree, w, s)

(* s becomes t when a record is queued, or is not heard of. *)
Given(s, t, r) == t.seen = s.seen /\ t.queue = Append(s.queue, r)
Unheard(s, t)  == t.seen = s.seen /\ t.queue = s.queue

LEMMA GivenQueue ==
  ASSUME NEW s \in ObserverState, NEW t, NEW r, Given(s, t, r)
  PROVE  /\ Len(s.queue) \in Nat
         /\ DOMAIN s.queue = 1 .. Len(s.queue)
         /\ DOMAIN t.queue = 1 .. Len(s.queue) + 1
         /\ \A k \in DOMAIN s.queue : k \in DOMAIN t.queue /\ t.queue[k] = s.queue[k]
         /\ \A k \in DOMAIN t.queue : k \in DOMAIN s.queue \/ k = Len(s.queue) + 1
         /\ Len(s.queue) + 1 \in DOMAIN t.queue /\ t.queue[Len(s.queue) + 1] = r
         /\ \A k \in DOMAIN s.queue : s.queue[k] \in Record /\ Len(s.queue) + 1 > k
  <1> DEFINE q == s.queue
  <1>1. q \in Seq(Record)
    BY DEF ObserverState
  <1>2. t.queue = Append(q, r)
    BY DEF Given
  <1> HIDE DEF q
  <1>3. /\ Len(q) \in Nat /\ DOMAIN q = 1 .. Len(q)
        /\ DOMAIN t.queue = 1 .. Len(q) + 1
        /\ \A k \in 1 .. Len(q) : t.queue[k] = q[k] /\ q[k] \in Record
        /\ t.queue[Len(q) + 1] = r
    BY <1>1, <1>2
  <1> QED
    BY <1>3 DEF q

-----------------------------------------------------------------------------
(* Changes of the tree or of an attribute, and one observer.               *)

(* More is around each element than was, so what is removed stays so. *)
LEMMA AttachRemoved ==
  ASSUME NEW tree \in Trees, Acyclic(tree), NEW e \in Element, tree[e] = None,
         NEW p \in Node, e \notin Above(tree, p),
         NEW s \in ObserverState, NEW t,
         \/ Given(s, t, [kind |-> "added", element |-> e])
         \/ Unheard(s, t),
         NEW x, Removed(tree, s.queue, x)
  PROVE  Removed([tree EXCEPT ![e] = p], t.queue, x)
  <1> DEFINE moved == [tree EXCEPT ![e] = p]
  <1>1. PICK k \in DOMAIN s.queue : Removal(tree, s.queue[k], x)
    BY DEF Removed
  <1>2. k \in DOMAIN t.queue /\ t.queue[k] = s.queue[k]
    <2>1. CASE Given(s, t, [kind |-> "added", element |-> e])
      BY <2>1, GivenQueue
    <2>2. CASE Unheard(s, t)
      BY <2>2 DEF Unheard
    <2> QED
      BY <2>1, <2>2
  <1>3. x \in Node
    BY <1>1 DEF Removal
  <1>4. Above(tree, x) \subseteq Above(moved, x)
    BY <1>3, AboveAfterArrival
  <1> HIDE DEF moved
  <1>5. Removal(moved, t.queue[k], x)
    BY <1>1, <1>2, <1>4 DEF Removal, Around
  <1> QED
    BY <1>2, <1>5 DEF Removed, moved

LEMMA AttachWatch ==
  ASSUME NEW tree \in Trees, Acyclic(tree), NEW e \in Element, tree[e] = None,
         NEW p \in Node, e \notin Above(tree, p),
         NEW values, NEW name, name # "added", NEW w \in Node, e \notin Above(tree, w),
         NEW s \in ObserverState, NEW t,
         \/ Given(s, t, [kind |-> "added", element |-> e])
         \/ /\ Unheard(s, t)
            /\ w \notin Above(tree, p),
         Watch(tree, values, name, w, s, FALSE)
  PROVE  Watch([tree EXCEPT ![e] = p], values, name, w, t, FALSE)
  <1> DEFINE moved == [tree EXCEPT ![e] = p]
             r == [kind |-> "added", element |-> e]
             last == Len(s.queue) + 1
  <1>1. /\ \A x \in Node : e \notin Above(tree, x) => Above(moved, x) = Above(tree, x)
        /\ \A x \in Node : e \in Above(tree, x) =>
                             Above(moved, x) = Above(tree, x) \cup Above(tree, p)
    <2>1. ASSUME NEW x \in Node, e \notin Above(tree, x)
          PROVE  Above(moved, x) = Above(tree, x)
      BY <2>1, AboveAfterArrival
    <2>2. ASSUME NEW x \in Node, e \in Above(tree, x)
          PROVE  Above(moved, x) = Above(tree, x) \cup Above(tree, p)
      BY <2>2, AboveAfterArrival
    <2> HIDE DEF moved
    <2> QED
      BY <2>1, <2>2
  <1>2. e \in Node /\ \A x : x \in Element => x \in Node
    BY DEF Node
  <1>3. e \in Above(tree, e)
    BY <1>2, AboveLeast
  <1>4. t.seen = s.seen
    BY DEF Given, Unheard
  <1>5. \A k \in DOMAIN s.queue : k \in DOMAIN t.queue /\ t.queue[k] = s.queue[k]
    BY GivenQueue DEF Unheard
  <1>6. \A k \in DOMAIN t.queue :
          \/ k \in DOMAIN s.queue
          \/ Given(s, t, r) /\ k = last /\ t.queue[k] = r
    BY GivenQueue DEF Unheard
  <1>7. Given(s, t, r) => last \in DOMAIN t.queue /\ t.queue[last] = r
                          /\ \A k \in DOMAIN s.queue : last > k
    BY GivenQueue
  <1>8. r.kind = "added" /\ r.element = e
    OBVIOUS
  (* What comes to be around x was around p, and is told. *)
  <1>9. ASSUME NEW x \in Element, w \in Above(tree, x)
        PROVE  /\ e \notin Above(tree, x) /\ w \in Above(moved, x)
               /\ Above(moved, x) = Above(tree, x)
    <2>1. e \notin Above(tree, x)
      <3>1. SUFFICES ASSUME e \in Above(tree, x) PROVE FALSE
        OBVIOUS
      <3>2. w \in Above(tree, e)
        BY <1>2, <1>9, <3>1, AboveLinear
      <3>3. e # None /\ Above(tree, e) = {e}
        BY <1>2, AboveTop, NodeAssumption
      <3>4. w = e
        BY <3>2, <3>3
      <3> QED
        BY <1>3, <3>4
    <2> HIDE DEF moved
    <2> QED
      BY <1>1, <1>2, <1>9, <2>1
  <1>10. ASSUME NEW x \in Element, w \in Above(moved, x), w \notin Above(tree, x)
         PROVE  Given(s, t, r) /\ Arrival(moved, w, r, x)
    <2> HIDE DEF moved, r
    <2>1. e \in Above(tree, x) /\ w \in Above(tree, p)
      BY <1>1, <1>2, <1>10
    <2>2. e \in Above(moved, x) /\ w \in Above(moved, e)
      BY <1>1, <1>2, <1>3, <2>1
    <2> QED
      BY <1>8, <2>1, <2>2 DEF Arrival, Around, r
  <1>11. ASSUME NEW x \in Element, NEW q \in Record,
                w \in Above(tree, x), Arrival(tree, w, q, x)
         PROVE  Arrival(moved, w, q, x)
    <2>1. q.element \in Element
      BY DEF Record
    <2> HIDE DEF moved
    <2>2. q.element \in Above(moved, x) /\ w \in Above(moved, q.element)
      BY <1>9, <1>11, <2>1 DEF Arrival, Around
    <2> QED
      BY <1>11, <2>2 DEF Arrival, Around
  <1>12. \A k \in DOMAIN s.queue : s.queue[k] \in Record
    <2>1. s.queue \in Seq(Record)
      BY DEF ObserverState
    <2> QED
      BY <2>1
  <1> HIDE DEF moved, r, last
  <1>13. Stale(values, name, t)
    <2>1. Stale(values, name, s)
      BY DEF Watch
    <2> QED
      BY <1>4, <1>5, <2>1 DEF Stale
  <1>14. Gone(moved, values, w, t, FALSE)
    <2> SUFFICES ASSUME NEW x \in DOMAIN t.seen
                 PROVE  Around(moved, w, x) \/ Removed(moved, t.queue, x)
      BY DEF Gone
    <2>1. x \in Element
      BY <1>4, SeenType DEF ObserverState
    <2>2. Around(tree, w, x) \/ Removed(tree, s.queue, x)
      BY <1>4 DEF Watch, Gone
    <2>3. CASE Around(tree, w, x)
      BY <1>9, <2>1, <2>3 DEF Around
    <2>4. CASE Removed(tree, s.queue, x)
      <3>1. \/ Given(s, t, [kind |-> "added", element |-> e])
            \/ Unheard(s, t)
        OBVIOUS
      <3> QED
        BY <2>4, <3>1, AttachRemoved DEF moved
    <2> QED
      BY <2>2, <2>3, <2>4
  <1>15. Missing(moved, values, name, w, t)
    <2> SUFFICES ASSUME NEW x \in Element, Around(moved, w, x),
                        values[x] # None, x \notin DOMAIN t.seen
                 PROVE  \E k \in DOMAIN t.queue : \/ Arrival(moved, w, t.queue[k], x)
                                                  \/ Rereads(name, t.queue[k], x)
      BY DEF Missing
    <2>1. CASE w \notin Above(tree, x)
      BY <1>7, <1>10, <2>1 DEF Around
    <2>2. CASE w \in Above(tree, x)
      <3>1. PICK k \in DOMAIN s.queue : \/ Arrival(tree, w, s.queue[k], x)
                                        \/ Rereads(name, s.queue[k], x)
        BY <1>4, <2>2 DEF Watch, Missing, Around
      <3> QED
        BY <1>5, <1>11, <1>12, <2>2, <3>1
    <2> QED
      BY <2>1, <2>2
  <1>16. Returned(moved, w, t)
    <2> SUFFICES ASSUME NEW x \in Element, NEW k \in DOMAIN t.queue,
                        Around(moved, w, x), Removal(moved, t.queue[k], x)
                 PROVE  \E l \in DOMAIN t.queue : l > k /\ Arrival(moved, w, t.queue[l], x)
      BY DEF Returned
    <2>1. k \in DOMAIN s.queue
      BY <1>6, <1>8 DEF Removal
    <2>2. CASE w \notin Above(tree, x)
      BY <1>7, <1>10, <2>1, <2>2 DEF Around
    <2>3. CASE w \in Above(tree, x)
      <3>1. Removal(tree, s.queue[k], x)
        BY <1>5, <1>9, <2>1, <2>3 DEF Removal, Around
      <3>2. PICK l \in DOMAIN s.queue : l > k /\ Arrival(tree, w, s.queue[l], x)
        BY <2>1, <2>3, <3>1 DEF Watch, Returned, Around
      <3> QED
        BY <1>5, <1>11, <1>12, <2>3, <3>2
    <2> QED
      BY <2>2, <2>3
  <1> QED
    BY <1>13, <1>14, <1>15, <1>16 DEF Watch, moved

(* What was removed from is heard of below it, as long as it is told. *)
LEMMA DetachRemoved ==
  ASSUME NEW tree \in Trees, Acyclic(tree), NEW e \in Element, tree[e] # None,
         NEW s \in ObserverState, NEW t,
         \/ Given(s, t, [kind |-> "removed", element |-> e])
         \/ /\ Unheard(s, t)
            /\ Above(tree, tree[e]) \cap RemovedIn(s.queue) = {},
         NEW x, Removed(tree, s.queue, x)
  PROVE  Removed([tree EXCEPT ![e] = None], t.queue, x)
  <1> DEFINE moved == [tree EXCEPT ![e] = None]
             r == [kind |-> "removed", element |-> e]
             last == Len(s.queue) + 1
  <1>1. PICK k \in DOMAIN s.queue : Removal(tree, s.queue[k], x)
    BY DEF Removed
  <1>2. x \in Node /\ s.queue[k].element \in Above(tree, x) /\ s.queue[k].kind = "removed"
    BY <1>1 DEF Removal, Around
  <1>3. s.queue[k].element \in RemovedIn(s.queue)
    BY <1>2 DEF RemovedIn
  <1>4. k \in DOMAIN t.queue /\ t.queue[k] = s.queue[k]
    <2>1. CASE Given(s, t, r)
      BY <2>1, GivenQueue
    <2>2. CASE Unheard(s, t)
      BY <2>2 DEF Unheard
    <2> QED
      BY <2>1, <2>2
  <1>5. CASE s.queue[k].element \in Above(moved, x)
    BY <1>1, <1>4, <1>5 DEF Removed, Removal, Around
  <1>6. CASE s.queue[k].element \notin Above(moved, x)
    <2>1. e \in Above(tree, x) /\ e \notin Above(tree, s.queue[k].element)
      BY <1>2, <1>6, AboveAfterRemoval
    <2>2. s.queue[k].element \in Above(tree, tree[e])
      <3>1. \A a \in Above(tree, x) : e \notin Above(tree, a) => a \in Above(tree, tree[e])
        BY <1>2, <2>1, AboveAfterRemoval
      <3> QED
        BY <1>2, <2>1, <3>1
    <2>3. Given(s, t, r)
      BY <1>3, <2>2
    <2>4. last \in DOMAIN t.queue /\ t.queue[last] = r
      BY <2>3, GivenQueue
    <2>5. e \in Node /\ e \in Above(tree, e)
      BY AboveLeast DEF Node
    <2>6. e \in Above(moved, x)
      BY <1>2, <2>1, <2>5, AboveAfterRemoval
    <2>7. Removal(moved, r, x)
      BY <1>2, <2>6 DEF Removal, Around
    <2> HIDE DEF moved, r, last
    <2> QED
      BY <2>4, <2>7 DEF Removed, moved
  <1> QED
    BY <1>5, <1>6

LEMMA DetachWatch ==
  ASSUME NEW tree \in Trees, Acyclic(tree), NEW e \in Element, tree[e] # None,
         NEW values, NEW name, name # "removed", NEW w \in Node, e \notin Above(tree, w),
         NEW s \in ObserverState, NEW t,
         \/ Given(s, t, [kind |-> "removed", element |-> e])
         \/ /\ Unheard(s, t)
            /\ Above(tree, tree[e]) \cap RemovedIn(s.queue) = {}
            /\ w \notin Above(tree, tree[e]),
         Watch(tree, values, name, w, s, FALSE)
  PROVE  Watch([tree EXCEPT ![e] = None], values, name, w, t, FALSE)
  <1> DEFINE moved == [tree EXCEPT ![e] = None]
             r == [kind |-> "removed", element |-> e]
             last == Len(s.queue) + 1
  <1>1. e \in Node /\ \A x : x \in Element => x \in Node
    BY DEF Node
  <1>2. e \in Above(tree, e)
    BY <1>1, AboveLeast
  <1>3. t.seen = s.seen
    BY DEF Given, Unheard
  <1>4. \A k \in DOMAIN s.queue : k \in DOMAIN t.queue /\ t.queue[k] = s.queue[k]
    BY GivenQueue DEF Unheard
  <1>5. \A k \in DOMAIN t.queue :
          \/ k \in DOMAIN s.queue
          \/ Given(s, t, r) /\ k = last /\ t.queue[k] = r
    BY GivenQueue DEF Unheard
  <1>6. Given(s, t, r) => last \in DOMAIN t.queue /\ t.queue[last] = r
    BY GivenQueue
  <1>7. r.kind = "removed" /\ r.element = e
    OBVIOUS
  (* What is still inside w has not moved. *)
  <1>8. ASSUME NEW x \in Element, w \in Above(moved, x)
        PROVE  /\ e \notin Above(tree, x) /\ w \in Above(tree, x)
               /\ Above(moved, x) = Above(tree, x)
    <2>1. w \in Above(tree, x)
      BY <1>1, <1>8, AboveAfterRemoval
    <2>2. e \notin Above(tree, x)
      BY <1>1, <1>8, <2>1, AboveAfterRemoval
    <2>3. Above(moved, x) = Above(tree, x)
      BY <1>1, <2>2, AboveAfterRemoval
    <2> QED
      BY <2>1, <2>2, <2>3
  <1>9. ASSUME NEW x \in Element, w \in Above(tree, x), e \notin Above(tree, x)
        PROVE  w \in Above(moved, x)
    <2>1. Above(moved, x) = Above(tree, x)
      BY <1>1, <1>9, AboveAfterRemoval
    <2> QED
      BY <1>9, <2>1
  <1>10. ASSUME NEW x \in Element, NEW q \in Record,
                w \in Above(moved, x), Arrival(tree, w, q, x)
         PROVE  Arrival(moved, w, q, x)
    <2>1. q.element \in Element /\ x \in Node
      BY <1>1 DEF Record
    <2>2. q.element \in Above(tree, x) /\ w \in Above(tree, q.element) /\ q.kind = "added"
      BY <1>10 DEF Arrival, Around
    <2>3. e \notin Above(tree, x) /\ Above(moved, x) = Above(tree, x)
      BY <1>8, <1>10
    <2>4. Above(tree, q.element) \subseteq Above(tree, x)
      BY <2>1, <2>2, AboveNode
    <2>5. w \in Above(moved, q.element)
      BY <1>9, <2>1, <2>2, <2>3, <2>4
    <2> HIDE DEF moved
    <2> QED
      BY <2>2, <2>3, <2>5 DEF Arrival, Around
  <1>11. \A k \in DOMAIN s.queue : s.queue[k] \in Record
    <2>1. s.queue \in Seq(Record)
      BY DEF ObserverState
    <2> QED
      BY <2>1
  <1>12. ASSUME NEW x \in Element, w \in Above(tree, x), e \in Above(tree, x)
         PROVE  Removed(moved, t.queue, x)
    <2>1. w \in Above(tree, tree[e])
      BY <1>1, <1>12, AboveAfterRemoval
    <2>2. e \in Above(moved, x)
      BY <1>1, <1>2, <1>12, AboveAfterRemoval
    <2>3. last \in DOMAIN t.queue /\ t.queue[last] = r
      BY <1>6, <2>1
    <2> HIDE DEF moved, r, last
    <2> QED
      BY <1>1, <1>7, <2>2, <2>3 DEF Removed, Removal, Around
  <1> HIDE DEF moved, r, last
  <1>13. Stale(values, name, t)
    <2>1. Stale(values, name, s)
      BY DEF Watch
    <2> QED
      BY <1>3, <1>4, <2>1 DEF Stale
  <1>14. Gone(moved, values, w, t, FALSE)
    <2> SUFFICES ASSUME NEW x \in DOMAIN t.seen
                 PROVE  Around(moved, w, x) \/ Removed(moved, t.queue, x)
      BY DEF Gone
    <2>1. x \in Element
      BY <1>3, SeenType DEF ObserverState
    <2>2. Around(tree, w, x) \/ Removed(tree, s.queue, x)
      BY <1>3 DEF Watch, Gone
    <2>3. CASE Around(tree, w, x)
      BY <1>9, <1>12, <2>1, <2>3 DEF Around
    <2>4. CASE Removed(tree, s.queue, x)
      <3>1. \/ Given(s, t, [kind |-> "removed", element |-> e])
            \/ /\ Unheard(s, t)
               /\ Above(tree, tree[e]) \cap RemovedIn(s.queue) = {}
        OBVIOUS
      <3> QED
        BY <2>4, <3>1, DetachRemoved DEF moved
    <2> QED
      BY <2>2, <2>3, <2>4
  <1>15. Missing(moved, values, name, w, t)
    <2> SUFFICES ASSUME NEW x \in Element, Around(moved, w, x),
                        values[x] # None, x \notin DOMAIN t.seen
                 PROVE  \E k \in DOMAIN t.queue : \/ Arrival(moved, w, t.queue[k], x)
                                                  \/ Rereads(name, t.queue[k], x)
      BY DEF Missing
    <2>1. w \in Above(moved, x) /\ w \in Above(tree, x)
      BY <1>8 DEF Around
    <2>2. PICK k \in DOMAIN s.queue : \/ Arrival(tree, w, s.queue[k], x)
                                      \/ Rereads(name, s.queue[k], x)
      BY <1>3, <2>1 DEF Watch, Missing, Around
    <2> QED
      BY <1>4, <1>10, <1>11, <2>1, <2>2
  <1>16. Returned(moved, w, t)
    <2> SUFFICES ASSUME NEW x \in Element, NEW k \in DOMAIN t.queue,
                        Around(moved, w, x), Removal(moved, t.queue[k], x)
                 PROVE  \E l \in DOMAIN t.queue : l > k /\ Arrival(moved, w, t.queue[l], x)
      BY DEF Returned
    <2>1. /\ w \in Above(moved, x) /\ w \in Above(tree, x)
          /\ Above(moved, x) = Above(tree, x) /\ e \notin Above(moved, x)
      BY <1>8 DEF Around
    <2>2. k \in DOMAIN s.queue
      BY <1>5, <1>7, <2>1 DEF Removal, Around
    <2>3. Removal(tree, s.queue[k], x)
      BY <1>4, <2>1, <2>2 DEF Removal, Around
    <2>4. PICK l \in DOMAIN s.queue : l > k /\ Arrival(tree, w, s.queue[l], x)
      BY <2>1, <2>2, <2>3 DEF Watch, Returned, Around
    <2> QED
      BY <1>4, <1>10, <1>11, <2>1, <2>4
  <1> QED
    BY <1>13, <1>14, <1>15, <1>16 DEF Watch, moved

LEMMA AttributeRemoved ==
  ASSUME NEW tree \in Trees, NEW e \in Element, NEW kind, NEW s \in ObserverState, NEW t,
         Given(s, t, [kind |-> kind, element |-> e]) \/ Unheard(s, t),
         NEW x, Removed(tree, s.queue, x)
  PROVE  Removed(tree, t.queue, x)
  <1>1. \A k \in DOMAIN s.queue : k \in DOMAIN t.queue /\ t.queue[k] = s.queue[k]
    BY GivenQueue DEF Unheard
  <1> QED
    BY <1>1 DEF Removed

(* read is values, except for the attribute that is set. *)
Sets(kind, e, name, values, read) ==
  \A x : (x # e \/ kind # name) => read[x] = values[x]

LEMMA AttributeWatch ==
  ASSUME NEW tree \in Trees, NEW e \in Element, NEW kind, kind # "removed",
         NEW values, NEW read, NEW name, Sets(kind, e, name, values, read),
         NEW w \in Node, NEW s \in ObserverState, NEW t,
         \/ Given(s, t, [kind |-> kind, element |-> e])
         \/ /\ Unheard(s, t)
            /\ w \notin Above(tree, e)
            /\ Above(tree, e) \cap RemovedIn(s.queue) = {},
         Watch(tree, values, name, w, s, FALSE)
  PROVE  Watch(tree, read, name, w, t, FALSE)
  <1> DEFINE r == [kind |-> kind, element |-> e]
             last == Len(s.queue) + 1
  <1>1. t.seen = s.seen
    BY DEF Given, Unheard
  <1>2. \A k \in DOMAIN s.queue : k \in DOMAIN t.queue /\ t.queue[k] = s.queue[k]
    BY GivenQueue DEF Unheard
  <1>3. \A k \in DOMAIN t.queue : k \in DOMAIN s.queue \/ t.queue[k] = r
    BY GivenQueue DEF Unheard
  <1>4. Given(s, t, r) => last \in DOMAIN t.queue /\ t.queue[last] = r
    BY GivenQueue
  <1>5. r.kind = kind /\ r.element = e
    OBVIOUS
  <1>6. ASSUME ~Given(s, t, r)
        PROVE  ~Around(tree, w, e) /\ ~Removed(tree, s.queue, e)
    <2>1. w \notin Above(tree, e) /\ Above(tree, e) \cap RemovedIn(s.queue) = {}
      BY <1>6
    <2>2. \A k \in DOMAIN s.queue :
            s.queue[k].kind = "removed" => s.queue[k].element \in RemovedIn(s.queue)
      BY DEF RemovedIn
    <2> QED
      BY <2>1, <2>2 DEF Removed, Removal, Around
  <1> HIDE DEF r, last
  <1>7. Stale(read, name, t)
    <2> SUFFICES ASSUME NEW x \in DOMAIN t.seen, read[x] = None \/ read[x] # t.seen[x]
                 PROVE  \E k \in DOMAIN t.queue : Rereads(name, t.queue[k], x)
      BY DEF Stale
    <2>1. CASE x # e \/ kind # name
      <3>1. PICK k \in DOMAIN s.queue : Rereads(name, s.queue[k], x)
        BY <1>1, <2>1 DEF Watch, Stale, Sets
      <3> QED
        BY <1>2, <3>1
    <2>2. CASE x = e /\ kind = name
      <3>1. Around(tree, w, x) \/ Removed(tree, s.queue, x)
        BY <1>1 DEF Watch, Gone
      <3> QED
        BY <1>4, <1>5, <1>6, <2>2, <3>1 DEF Rereads
    <2> QED
      BY <2>1, <2>2
  <1>8. Gone(tree, read, w, t, FALSE)
    <2>1. \A x : Removed(tree, s.queue, x) => Removed(tree, t.queue, x)
      BY <1>2 DEF Removed
    <2> QED
      BY <1>1, <2>1 DEF Watch, Gone
  <1>9. Missing(tree, read, name, w, t)
    <2> SUFFICES ASSUME NEW x \in Element, Around(tree, w, x),
                        read[x] # None, x \notin DOMAIN t.seen
                 PROVE  \E k \in DOMAIN t.queue : \/ Arrival(tree, w, t.queue[k], x)
                                                  \/ Rereads(name, t.queue[k], x)
      BY DEF Missing
    <2>1. CASE x # e \/ kind # name
      <3>1. PICK k \in DOMAIN s.queue : \/ Arrival(tree, w, s.queue[k], x)
                                        \/ Rereads(name, s.queue[k], x)
        BY <1>1, <2>1 DEF Watch, Missing, Sets
      <3> QED
        BY <1>2, <3>1
    <2>2. CASE x = e /\ kind = name
      BY <1>4, <1>5, <1>6, <2>2 DEF Rereads
    <2> QED
      BY <2>1, <2>2
  <1>10. Returned(tree, w, t)
    <2> SUFFICES ASSUME NEW x \in Element, NEW k \in DOMAIN t.queue,
                        Around(tree, w, x), Removal(tree, t.queue[k], x)
                 PROVE  \E l \in DOMAIN t.queue : l > k /\ Arrival(tree, w, t.queue[l], x)
      BY DEF Returned
    <2>1. k \in DOMAIN s.queue
      BY <1>3, <1>5 DEF Removal
    <2>2. PICK l \in DOMAIN s.queue : l > k /\ Arrival(tree, w, s.queue[l], x)
      BY <1>2, <2>1 DEF Watch, Returned
    <2> QED
      BY <1>2, <2>2
  <1> QED
    BY <1>7, <1>8, <1>9, <1>10 DEF Watch

(* What has just been read needs no record. *)
LEMMA FreshWatch ==
  ASSUME DomOK, NEW o
  PROVE  /\ Watch(parent, attribute[Name(o)], Name(o), Watched(o), Fresh(o), FALSE)
         /\ Fresh(o).queue = <<>> /\ Fresh(o).transient = {}
  <1> DEFINE S == MatchesInTree(o, Watched(o))
  <1>1. /\ Fresh(o).seen = Tokens(o, S)
        /\ Fresh(o).queue = <<>> /\ Fresh(o).transient = {}
    BY DEF Fresh
  <1>2. DOMAIN Tokens(o, S) = S /\ \A x \in S : Tokens(o, S)[x] = attribute[Name(o)][x]
    BY DEF Tokens
  <1>3. \A x : x \in S <=> /\ x \in Element /\ Around(parent, Watched(o), x)
                           /\ attribute[Name(o)][x] # None
    BY DEF MatchesInTree, HasAttribute
  <1> HIDE DEF S
  <1>4. Stale(attribute[Name(o)], Name(o), Fresh(o))
    BY <1>1, <1>2, <1>3 DEF Stale
  <1>5. Gone(parent, attribute[Name(o)], Watched(o), Fresh(o), FALSE)
    BY <1>1, <1>2, <1>3 DEF Gone
  <1>6. Missing(parent, attribute[Name(o)], Name(o), Watched(o), Fresh(o))
    BY <1>1, <1>2, <1>3 DEF Missing
  <1>7. Returned(parent, Watched(o), Fresh(o))
    <2>1. DOMAIN Fresh(o).queue = {}
      BY <1>1
    <2> QED
      BY <2>1 DEF Returned
  <1> QED
    BY <1>1, <1>4, <1>5, <1>6, <1>7 DEF Watch

(* Midway through the records, and when all have been handed over. *)
LEMMA WatchMidway ==
  ASSUME NEW tree, NEW values, NEW name, NEW w, NEW s, NEW midway \in BOOLEAN,
         NEW later \in BOOLEAN, Watch(tree, values, name, w, s, midway),
         ~later => ~midway \/ s.queue = <<>>
  PROVE  Watch(tree, values, name, w, s, later)
  <1>1. CASE later \/ ~midway
    BY <1>1 DEF Watch, Gone
  <1>2. CASE s.queue = <<>>
    <2>1. DOMAIN s.queue = {}
      BY <1>2
    <2>2. \A x \in DOMAIN s.seen : values[x] # None
      BY <2>1 DEF Watch, Stale
    <2> QED
      BY <2>2 DEF Watch, Gone
  <1> QED
    BY <1>1, <1>2

-----------------------------------------------------------------------------
(* One record, and the observer it is handed to.                           *)

LEMMA TailQueue ==
  ASSUME NEW q \in Seq(Record), q # <<>>
  PROVE  /\ 1 \in DOMAIN q /\ Head(q) = q[1] /\ Head(q) \in Record
         /\ Tail(q) \in Seq(Record)
         /\ \A k \in DOMAIN q : k \in Nat /\ q[k] \in Record
         /\ \A k \in DOMAIN q : k = 1 \/ (k - 1 \in DOMAIN Tail(q) /\ Tail(q)[k - 1] = q[k])
         /\ \A k \in DOMAIN Tail(q) : k + 1 \in DOMAIN q /\ Tail(q)[k] = q[k + 1] /\ k \in Nat /\ k + 1 # 1
  OBVIOUS

(* What is known of each element once it has been handed over. *)
LEMMA ProcessWatch ==
  ASSUME DomOK, NEW o, NEW s \in ObserverState, s.queue # <<>>, NEW midway \in BOOLEAN,
         Watch(parent, attribute[Name(o)], Name(o), Watched(o), s, midway),
         NEW t, t.seen = Processed(o, s.seen, Head(s.queue)), t.queue = Tail(s.queue)
  PROVE  Watch(parent, attribute[Name(o)], Name(o), Watched(o), t, TRUE)
  <1> DEFINE q == s.queue
             r == Head(s.queue)
             w == Watched(o)
             name == Name(o)
             values == attribute[Name(o)]
  <1>1. q \in Seq(Record) /\ q # <<>> /\ s.seen \in Seen
    BY DEF ObserverState
  <1>2. r \in Record /\ q[1] = r /\ t.queue = Tail(q) /\ r = Head(q)
    BY <1>1, TailQueue
  <1>3. \A k \in DOMAIN q : \/ k = 1
                            \/ k - 1 \in DOMAIN t.queue /\ t.queue[k - 1] = q[k]
    BY <1>1, <1>2, TailQueue
  <1>4. \A k \in DOMAIN t.queue : k + 1 \in DOMAIN q /\ t.queue[k] = q[k + 1] /\ k \in Nat
    BY <1>1, <1>2, TailQueue
  <1>5. \A x \in Element : HasAttribute(name, x) <=> values[x] # None
    BY DEF HasAttribute
  <1>6. \A x : ElementIsActive(o, x) <=> Around(parent, w, x)
    BY DEF ElementIsActive
  <1>7. /\ name # "removed" /\ name # "added"
        /\ r.kind \in {"removed", "added"} \/ r.kind \in Attributes
        /\ r.element \in Element
    BY <1>2, NameType DEF Record
  <1>8. DOMAIN s.seen \subseteq Element
    BY <1>1, SeenType
  <1>9. \A x \in Element : x \in Node
    BY DEF Node
  <1>10. ASSUME NEW x \in Element
         PROVE  t.seen \in Seen /\ After(o, r, s.seen, t.seen, x)
    <2>1. s.seen \in Seen /\ r \in Record /\ t.seen = Processed(o, s.seen, r)
      BY <1>1, <1>2
    <2> HIDE DEF r, q, w, name, values
    <2> QED
      BY <2>1, ProcessedIs
  <1>11. DOMAIN t.seen \subseteq Element
    <2>1. r.element \in Element => t.seen \in Seen
      BY <1>10 DEF After, name, values
    <2> QED
      BY <1>7, <2>1, SeenType
  <1> HIDE DEF q, r, w, name, values
  <1>12. Stale(values, name, t)
    <2> SUFFICES ASSUME NEW x \in DOMAIN t.seen, values[x] = None \/ values[x] # t.seen[x]
                 PROVE  \E k \in DOMAIN t.queue : Rereads(name, t.queue[k], x)
      BY DEF Stale
    <2>1. x \in Element
      BY <1>11
    <2>2. /\ x \in DOMAIN s.seen /\ t.seen[x] = s.seen[x]
          /\ x # r.element \/ r.kind # name
      <3>1. CASE r.kind = "removed"
        BY <1>7, <1>10, <2>1, <3>1 DEF After, name, values
      <3>2. CASE r.kind = "added"
        BY <1>5, <1>7, <1>10, <2>1, <3>2 DEF After, name, values
      <3>3. CASE r.kind \in Attributes
        BY <1>5, <1>7, <1>10, <2>1, <3>3 DEF After, name, values
      <3> QED
        BY <1>7, <3>1, <3>2, <3>3
    <2>3. PICK k \in DOMAIN q : Rereads(name, q[k], x)
      BY <2>2 DEF Watch, Stale, q, name, values
    <2>4. k # 1
      BY <1>2, <2>2, <2>3 DEF Rereads
    <2> QED
      BY <1>3, <2>3, <2>4
  <1>13. Gone(parent, values, w, t, TRUE)
    <2> SUFFICES ASSUME NEW x \in DOMAIN t.seen, values[x] # None
                 PROVE  Around(parent, w, x) \/ Removed(parent, t.queue, x)
      BY DEF Gone
    <2>1. x \in Element /\ x \in Node
      BY <1>9, <1>11
    <2>2. CASE x \notin DOMAIN s.seen
      <3>1. CASE r.kind = "removed"
        BY <1>10, <2>1, <2>2, <3>1 DEF After, name, values
      <3>2. CASE r.kind = "added"
        BY <1>6, <1>10, <2>1, <2>2, <3>2 DEF After, name, values
      <3>3. CASE r.kind \in Attributes
        BY <1>6, <1>10, <2>1, <2>2, <3>3 DEF After, name, values
      <3> QED
        BY <1>7, <3>1, <3>2, <3>3
    <2>3. CASE x \in DOMAIN s.seen
      <3>1. Around(parent, w, x) \/ Removed(parent, q, x)
        BY <2>3 DEF Watch, Gone, q, w, values
      <3>2. ~Removal(parent, r, x)
        BY <1>5, <1>10, <2>1 DEF After, name, values, Removal
      <3>3. ASSUME Removed(parent, q, x)
            PROVE  Removed(parent, t.queue, x)
        <4>1. PICK k \in DOMAIN q : Removal(parent, q[k], x)
          BY <3>3 DEF Removed
        <4>2. k # 1
          BY <1>2, <3>2, <4>1
        <4> QED
          BY <1>3, <4>1, <4>2 DEF Removed
      <3> QED
        BY <3>1, <3>3
    <2> QED
      BY <2>2, <2>3
  <1>14. Missing(parent, values, name, w, t)
    <2> SUFFICES ASSUME NEW x \in Element, Around(parent, w, x),
                        values[x] # None, x \notin DOMAIN t.seen
                 PROVE  \E k \in DOMAIN t.queue : \/ Arrival(parent, w, t.queue[k], x)
                                                  \/ Rereads(name, t.queue[k], x)
      BY DEF Missing
    <2>1. HasAttribute(name, x) /\ ElementIsActive(o, x) /\ x \in Node
      BY <1>5, <1>6, <1>9
    <2>2. CASE x \in DOMAIN s.seen
      <3>1. Removal(parent, r, x)
        <4>1. r.kind = "removed"
          BY <1>7, <1>10, <2>1, <2>2 DEF After, name, values
        <4> QED
          BY <1>10, <2>1, <2>2, <4>1 DEF After, name, values, Removal
      <3>2. PICK l \in DOMAIN q : l > 1 /\ Arrival(parent, w, q[l], x)
        <4>1. 1 \in DOMAIN q
          BY <1>1, TailQueue
        <4> QED
          BY <1>2, <3>1, <4>1 DEF Watch, Returned, q, w
      <3>3. l # 1
        BY <1>1, <3>2, TailQueue
      <3> QED
        BY <1>3, <3>2, <3>3
    <2>3. CASE x \notin DOMAIN s.seen
      <3>1. PICK k \in DOMAIN q : Arrival(parent, w, q[k], x) \/ Rereads(name, q[k], x)
        BY <2>3 DEF Watch, Missing, q, w, name, values
      <3>2. ~Arrival(parent, w, r, x)
        BY <1>6, <1>10, <2>1 DEF After, name, values, Arrival
      <3>3. ~Rereads(name, r, x)
        <4> SUFFICES ASSUME r.kind = name, r.element = x PROVE FALSE
          BY DEF Rereads
        <4>1. r.kind \in Attributes
          BY <1>7
        <4> QED
          BY <1>10, <2>1, <4>1 DEF After, name, values
      <3>4. k # 1
        BY <1>2, <3>1, <3>2, <3>3
      <3> QED
        BY <1>3, <3>1, <3>4
    <2> QED
      BY <2>2, <2>3
  <1>15. Returned(parent, w, t)
    <2> SUFFICES ASSUME NEW x \in Element, NEW k \in DOMAIN t.queue,
                        Around(parent, w, x), Removal(parent, t.queue[k], x)
                 PROVE  \E l \in DOMAIN t.queue : l > k /\ Arrival(parent, w, t.queue[l], x)
      BY DEF Returned
    <2>1. k + 1 \in DOMAIN q /\ Removal(parent, q[k + 1], x) /\ k \in Nat
      BY <1>4
    <2>2. PICK l \in DOMAIN q : l > k + 1 /\ Arrival(parent, w, q[l], x)
      BY <2>1 DEF Watch, Returned, q, w
    <2>3. l \in Nat
      BY <1>1, TailQueue
    <2>4. l - 1 > k /\ l # 1
      BY <2>1, <2>2, <2>3
    <2> QED
      BY <1>3, <2>2, <2>4
  <1> QED
    BY <1>12, <1>13, <1>14, <1>15 DEF Watch, w, name, values

-----------------------------------------------------------------------------
(***************************************************************************)
(* The inductive invariant: the router knows no scope before it starts,    *)
(* when there is no scope observer to be kept.                             *)
(***************************************************************************)
IInv == /\ ContextsOfScopes
        /\ scopes \subseteq Scope
        /\ ~Started => scopes = {}

-----------------------------------------------------------------------------
(* Contexts of sets of scopes.                                             *)

LEMMA NotScopeObserver ==
  ASSUME NEW a, NEW b, NEW c
  PROVE  <<a, b, c>> # ScopeObserver
  BY DEF ScopeObserver

LEMMA ContextsAreContexts ==
  ASSUME NEW ss, NEW loaded
  PROVE  ScopeObserver \notin ContextsFor(ss, loaded)
  BY NotScopeObserver DEF ContextsFor

(* A context belongs to one scope: so what is taken from a set of scopes   *)
(* is taken from their contexts.                                           *)
LEMMA ContextsMinus ==
  ASSUME NEW ss \in SUBSET Scope, NEW tt \in SUBSET Scope, NEW loaded
  PROVE  ContextsFor(ss \ tt, loaded) = ContextsFor(ss, loaded) \ ContextsFor(tt, loaded)
  <1>1. ASSUME NEW s \in Scope, NEW t \in Scope,
               <<s[1], s[2], loaded[s[2]]>> = <<t[1], t[2], loaded[t[2]]>>
        PROVE  s = t
    BY <1>1 DEF Scope
  <1> QED
    BY <1>1 DEF ContextsFor

LEMMA ContextsPlus ==
  ASSUME NEW ss, NEW tt, NEW loaded
  PROVE  ContextsFor(ss \cup tt, loaded) = ContextsFor(ss, loaded) \cup ContextsFor(tt, loaded)
  BY DEF ContextsFor

(* Contexts of an identifier depend on its module only. *)
LEMMA ContextsOfIdentifier ==
  ASSUME NEW ss, NEW f, NEW g, \A s \in ss : f[s[2]] = g[s[2]]
  PROVE  ContextsFor(ss, f) = ContextsFor(ss, g)
  BY DEF ContextsFor

-----------------------------------------------------------------------------
(* Actions.                                                                *)

LEMMA SameContexts ==
  ASSUME IInv, DOMAIN observers' = DOMAIN observers, scopes' = scopes, modules' = modules
  PROVE  IInv'
  BY DEF IInv, ContextsOfScopes, Contexts, Started

LEMMA NotifiedDomain ==
  ASSUME NEW tree, NEW obs, NEW target, NEW kind, NEW e
  PROVE  DOMAIN Notified(tree, obs, target, kind, e) = DOMAIN obs
  BY DEF Notified

LEMMA DetachedDomain ==
  ASSUME NEW e
  PROVE  DOMAIN Detached(e) = DOMAIN observers
  BY NotifiedDomain DEF Detached

LEMMA InsertOK ==
  ASSUME IInv, NEW e \in Element, NEW p, Insert(e, p)
  PROVE  IInv'
  <1>1. DOMAIN observers' = DOMAIN observers
    BY NotifiedDomain, DetachedDomain DEF Insert
  <1> QED
    BY <1>1, SameContexts DEF Insert, router

LEMMA DetachOK ==
  ASSUME IInv, NEW e \in Element, Detach(e)
  PROVE  IInv'
  <1>1. DOMAIN observers' = DOMAIN observers
    BY DetachedDomain DEF Detach
  <1> QED
    BY <1>1, SameContexts DEF Detach, router

LEMMA SetAttributeOK ==
  ASSUME IInv, NEW name, NEW e \in Element, NEW value, SetAttribute(name, e, value)
  PROVE  IInv'
  <1>1. DOMAIN observers' = DOMAIN observers
    BY NotifiedDomain DEF SetAttribute
  <1> QED
    BY <1>1, SameContexts DEF SetAttribute, router

(* The scopes are what they were, except for those that went and came; so  *)
(* are the contexts.                                                       *)
LEMMA RescopeOK ==
  ASSUME NEW old, NEW new, NEW obs, Rescope(old, new, obs), modules' = modules,
         scopes \subseteq Scope, ScopeObserver \in DOMAIN obs,
         DOMAIN obs \ {ScopeObserver} = ContextsFor(scopes, modules)
  PROVE  IInv'
  <1> DEFINE left == AfterUnmatched(old, new)
             all  == AfterMatched(left, old, new)
             gone == {s \in Scope : references[s] > 0 /\ left[s] = 0}
             came == {s \in Scope : left[s] = 0 /\ all[s] > 0}
  <1>1. scopes' = (scopes \ gone) \cup came /\ gone \subseteq Scope /\ came \subseteq Scope
    BY DEF Rescope
  <1>2. observers' = Reconnect(obs, ContextsFor(gone, modules), ContextsFor(came, modules))
    BY DEF Rescope
  <1> HIDE DEF left, all, gone, came
  <1>3. DOMAIN observers' =
          (DOMAIN obs \ ContextsFor(gone, modules)) \cup ContextsFor(came, modules)
    <2> DEFINE away == ContextsFor(gone, modules)
               in   == ContextsFor(came, modules)
    <2>1. observers' = Reconnect(obs, away, in)
      BY <1>2
    <2> HIDE DEF away, in
    <2>2. DOMAIN observers' = (DOMAIN obs \ away) \cup in
      BY <2>1 DEF Reconnect
    <2> QED
      BY <2>2 DEF away, in
  <1>4. /\ ScopeObserver \notin ContextsFor(gone, modules)
        /\ ScopeObserver \notin ContextsFor(came, modules)
    BY ContextsAreContexts
  <1>5. DOMAIN observers' \ {ScopeObserver} =
          (ContextsFor(scopes, modules) \ ContextsFor(gone, modules))
             \cup ContextsFor(came, modules)
    BY <1>3, <1>4
  <1>6. ContextsFor((scopes \ gone) \cup came, modules) =
          (ContextsFor(scopes, modules) \ ContextsFor(gone, modules))
             \cup ContextsFor(came, modules)
    <2>1. ContextsFor((scopes \ gone) \cup came, modules) =
            ContextsFor(scopes \ gone, modules) \cup ContextsFor(came, modules)
      BY ContextsPlus
    <2>2. ContextsFor(scopes \ gone, modules) =
            ContextsFor(scopes, modules) \ ContextsFor(gone, modules)
      BY <1>1, ContextsMinus
    <2> QED
      BY <2>1, <2>2
  <1>7. Contexts' = ContextsFor(scopes', modules')
    BY <1>1, <1>5, <1>6 DEF Contexts
  <1>8. scopes' \subseteq Scope
    BY <1>1
  <1>9. ScopeObserver \in DOMAIN observers'
    BY <1>3, <1>4
  <1> QED
    BY <1>7, <1>8, <1>9 DEF IInv, ContextsOfScopes, Started

LEMMA StartOK ==
  ASSUME IInv, Start
  PROVE  IInv'
  <1> DEFINE obs == [o \in {ScopeObserver} |-> Fresh(o)]
  <1>1. scopes = {} /\ modules' = modules
    BY DEF IInv, Start
  <1>2. DOMAIN obs = {ScopeObserver}
    OBVIOUS
  <1>3. ContextsFor(scopes, modules) = {}
    BY <1>1 DEF ContextsFor
  <1>4. Rescope(<<>>, Fresh(ScopeObserver).seen, obs)
    BY DEF Start
  <1> HIDE DEF obs
  <1> QED
    BY <1>1, <1>2, <1>3, <1>4, RescopeOK

(* When one identifier gets another module, or none. *)
LEMMA ReloadedOK ==
  ASSUME IInv, NEW i \in Identifier, NEW m, modules' = [modules EXCEPT ![i] = m],
         scopes' = scopes, observers' = Reloaded(i, modules')
  PROVE  IInv'
  <1> DEFINE mine == {s \in scopes : s[2] = i}
             rest == scopes \ mine
  <1>1. scopes \subseteq Scope /\ mine \subseteq scopes
    BY DEF IInv
  <1>2. observers' = Reconnect(observers, ContextsFor(mine, modules), ContextsFor(mine, modules'))
    BY DEF Reloaded
  <1>3. \A s \in rest : modules[s[2]] = modules'[s[2]]
    OBVIOUS
  <1>4. scopes = rest \cup mine
    BY <1>1
  <1> HIDE DEF mine, rest
  <1>5. ContextsFor(rest, modules') = ContextsFor(rest, modules)
    BY <1>3, ContextsOfIdentifier
  <1>6. ContextsFor(rest, modules) = ContextsFor(scopes, modules) \ ContextsFor(mine, modules)
    BY <1>1, ContextsMinus DEF rest
  <1>7. ContextsFor(scopes, modules') = ContextsFor(rest, modules') \cup ContextsFor(mine, modules')
    BY <1>4, ContextsPlus
  <1>8. DOMAIN observers' =
          (DOMAIN observers \ ContextsFor(mine, modules)) \cup ContextsFor(mine, modules')
    <2> DEFINE gone == ContextsFor(mine, modules)
               came == ContextsFor(mine, modules')
    <2>1. observers' = Reconnect(observers, gone, came)
      BY <1>2
    <2> HIDE DEF gone, came
    <2>2. DOMAIN observers' = (DOMAIN observers \ gone) \cup came
      BY <2>1 DEF Reconnect
    <2> QED
      BY <2>2 DEF gone, came
  <1>9. DOMAIN observers \ {ScopeObserver} = ContextsFor(scopes, modules)
    BY DEF IInv, ContextsOfScopes, Contexts
  <1>10. /\ ScopeObserver \notin ContextsFor(mine, modules')
         /\ ScopeObserver \notin ContextsFor(mine, modules)
    BY ContextsAreContexts
  <1>11. Contexts' = ContextsFor(scopes', modules')
    BY <1>5, <1>6, <1>7, <1>8, <1>9, <1>10 DEF Contexts
  <1>12. Started => Started'
    BY <1>8, <1>10 DEF Started
  <1> QED
    BY <1>1, <1>11, <1>12 DEF IInv, ContextsOfScopes

LEMMA DeliverOK ==
  ASSUME IInv, NEW o \in DOMAIN observers, Deliver(o)
  PROVE  IInv'
  <1> DEFINE old  == observers[o].seen
             new  == Processed(o, old, Head(observers[o].queue))
             rest == [seen |-> new, queue |-> Tail(observers[o].queue), transient |-> {}]
             obs  == [observers EXCEPT ![o] = rest]
  <1>1. /\ IF o = ScopeObserver THEN Rescope(old, new, obs) ELSE observers' = obs /\ UNCHANGED router
        /\ modules' = modules
    BY DEF Deliver
  <1>2. DOMAIN obs = DOMAIN observers
    OBVIOUS
  <1> HIDE DEF old, new, rest, obs
  <1>3. CASE o = ScopeObserver
    BY <1>1, <1>2, <1>3, RescopeOK DEF IInv, ContextsOfScopes, Contexts
  <1>4. CASE o # ScopeObserver
    BY <1>1, <1>2, <1>4, SameContexts DEF router
  <1> QED
    BY <1>3, <1>4

-----------------------------------------------------------------------------
LEMMA InitIInv == Init => IInv
  BY DEF Init, IInv, ContextsOfScopes, Contexts, ContextsFor

LEMMA StepIInv == IInv /\ [Next]_vars => IInv'
  <1>1. ASSUME IInv, NEW i \in Identifier, Register(i)
        PROVE  IInv'
    BY <1>1, ReloadedOK DEF Register, router
  <1>2. ASSUME IInv, NEW i \in Identifier, Unload(i)
        PROVE  IInv'
    BY <1>2, ReloadedOK DEF Unload, router
  <1>3. ASSUME IInv, UNCHANGED vars
        PROVE  IInv'
    BY <1>3, SameContexts DEF vars, router
  <1> QED
    BY <1>1, <1>2, <1>3, InsertOK, DetachOK, SetAttributeOK, StartOK, DeliverOK DEF Next

(***************************************************************************)
(* Whatever is registered, replaced or unloaded, and whenever scopes come  *)
(* and go, no context of a replaced module is left and none is missing.    *)
(***************************************************************************)
THEOREM ContextsExact == Spec => []ContextsOfScopes
  <1>1. IInv => ContextsOfScopes
    BY DEF IInv
  <1> QED
    BY <1>1, InitIInv, StepIInv, PTL DEF Spec

-----------------------------------------------------------------------------
(* Records.                                                                *)

RecordKinds == {"removed", "added"} \cup Attributes

Observed(obs) == obs \in [DOMAIN obs -> ObserverState]

(* s becomes t when o is told of r, whose target has these ancestors. *)
Informed(o, above, r, s, t) ==
  /\ s \in ObserverState /\ t \in ObserverState
  /\ \/ Given(s, t, r)
     \/ /\ Unheard(s, t)
        /\ Watched(o) \notin above
        /\ above \cap s.transient = {}
  /\ s.transient = RemovedIn(s.queue) => t.transient = RemovedIn(t.queue)

LEMMA NotifiedIs ==
  ASSUME NEW tree, NEW obs, Observed(obs), NEW target, NEW kind \in RecordKinds,
         NEW e \in Element, NEW o \in DOMAIN obs
  PROVE  Informed(o, Above(tree, target), [kind |-> kind, element |-> e],
                  obs[o], Notified(tree, obs, target, kind, e)[o])
  <1> DEFINE s == obs[o]
             t == Notified(tree, obs, target, kind, e)[o]
             r == [kind |-> kind, element |-> e]
             above == Above(tree, target)
             queue == Append(s.queue, r)
             transient == IF kind = "removed" THEN s.transient \cup {e} ELSE s.transient
  <1>1. s \in ObserverState /\ s = [seen |-> s.seen, queue |-> s.queue, transient |-> s.transient]
    BY DEF Observed, ObserverState
  <1>2. r \in Record /\ r.kind = kind /\ r.element = e
    BY DEF Record, RecordKinds
  <1>3. t = IF ~Hears(o, s.transient, above) THEN s
            ELSE [s EXCEPT !.queue = Append(@, r),
                           !.transient = IF kind = "removed" THEN @ \cup {e} ELSE @]
    BY DEF Notified
  <1> HIDE DEF s, t, r, above
  <1>4. /\ s.queue \in Seq(Record) /\ s.seen \in Seen /\ s.transient \in SUBSET Element
    BY <1>1 DEF ObserverState
  <1>5. CASE ~Hears(o, s.transient, above)
    <2>1. t = s
      BY <1>3, <1>5
    <2>2. Watched(o) \notin above /\ above \cap s.transient = {}
      BY <1>5 DEF Hears
    <2> QED
      BY <1>1, <2>1, <2>2 DEF Informed, Unheard, s, t, r, above
  <1>6. CASE Hears(o, s.transient, above)
    <2>1. t.seen = s.seen /\ t.queue = queue /\ t.transient = transient
          /\ t = [seen |-> s.seen, queue |-> queue, transient |-> transient]
      BY <1>1, <1>3, <1>6
    <2>2. queue \in Seq(Record) /\ transient \in SUBSET Element
      BY <1>2, <1>4
    <2>3. t \in ObserverState
      BY <1>4, <2>1, <2>2 DEF ObserverState
    <2>4. Given(s, t, r)
      BY <2>1 DEF Given
    <2>6. ASSUME s.transient = RemovedIn(s.queue)
          PROVE  t.transient = RemovedIn(t.queue)
      <3>1. \A k \in DOMAIN t.queue :
              k \in DOMAIN s.queue \/ t.queue[k] = r
        BY <1>1, <2>4, GivenQueue
      <3>2. \A k \in DOMAIN s.queue : k \in DOMAIN t.queue /\ t.queue[k] = s.queue[k]
        BY <1>1, <2>4, GivenQueue
      <3>3. \E k \in DOMAIN t.queue : t.queue[k] = r
        BY <1>1, <2>4, GivenQueue
      <3>4. RemovedIn(t.queue) =
              IF kind = "removed" THEN RemovedIn(s.queue) \cup {e} ELSE RemovedIn(s.queue)
        <4>1. \A x : x \in RemovedIn(t.queue) <=>
                       \E k \in DOMAIN t.queue : t.queue[k].kind = "removed" /\ t.queue[k].element = x
          BY DEF RemovedIn
        <4>2. \A x : x \in RemovedIn(s.queue) <=>
                       \E k \in DOMAIN s.queue : s.queue[k].kind = "removed" /\ s.queue[k].element = x
          BY DEF RemovedIn
        <4> HIDE DEF queue, transient
        <4>3. ASSUME NEW x \in RemovedIn(t.queue)
              PROVE  x \in RemovedIn(s.queue) \/ (kind = "removed" /\ x = e)
          BY <1>2, <3>1, <3>2, <4>1, <4>2
        <4>4. ASSUME NEW x \in RemovedIn(s.queue)
              PROVE  x \in RemovedIn(t.queue)
          BY <3>2, <4>1, <4>2
        <4>5. kind = "removed" => e \in RemovedIn(t.queue)
          BY <1>2, <3>3, <4>1
        <4> QED
          BY <4>3, <4>4, <4>5
      <3> QED
        BY <2>1, <2>6, <3>4
    <2> HIDE DEF queue, transient
    <2> QED
      BY <1>1, <2>3, <2>4, <2>6 DEF Informed, s, t, r, above
  <1> QED
    BY <1>5, <1>6

LEMMA NotifiedObserved ==
  ASSUME NEW tree, NEW obs, Observed(obs), NEW target, NEW kind \in RecordKinds,
         NEW e \in Element
  PROVE  /\ Observed(Notified(tree, obs, target, kind, e))
         /\ DOMAIN Notified(tree, obs, target, kind, e) = DOMAIN obs
  <1> DEFINE notified == Notified(tree, obs, target, kind, e)
  <1>1. /\ DOMAIN notified = DOMAIN obs
        /\ notified = [o \in DOMAIN obs |-> notified[o]]
    BY DEF Notified
  <1>2. ASSUME NEW o \in DOMAIN obs PROVE notified[o] \in ObserverState
    BY NotifiedIs DEF Informed
  <1> HIDE DEF notified
  <1>3. notified \in [DOMAIN obs -> ObserverState]
    BY <1>1, <1>2
  <1> QED
    BY <1>1, <1>3 DEF notified, Observed

-----------------------------------------------------------------------------
(* The scopes and their counts.                                            *)

LEMMA SeenOfType ==
  ASSUME NEW seen \in Seen, NEW x
  PROVE  SeenOf(seen, x) \in Seq(Identifier)
  BY SeenType DEF SeenOf

LEMMA NothingSeen == <<>> \in Seen /\ \A x : SeenOf(<<>>, x) = <<>>
  <1>1. <<>> \in [{} -> Seq(Identifier)]
    OBVIOUS
  <1> QED
    BY <1>1 DEF Seen, SeenOf

LEMMA NoOccurrences ==
  ASSUME NEW i
  PROVE  Occurrences(<<>>, i) = 0
  <1>1. {k \in DOMAIN <<>> : <<>>[k] = i} = {}
    OBVIOUS
  <1> QED
    BY <1>1, FS_EmptySet DEF Occurrences

(* The count of each scope is that of its tokens, and goes with them. *)
Counted(count, seen) ==
  \A s \in Scope : count[s] = Occurrences(SeenOf(seen, s[1]), s[2])

LEMMA RescopeCounted ==
  ASSUME NEW old \in Seen, NEW new \in Seen, NEW obs, Rescope(old, new, obs),
         Counted(references, old), scopes = {s \in Scope : references[s] > 0}
  PROVE  /\ references' \in [Scope -> Nat]
         /\ Counted(references', new)
         /\ scopes' = {s \in Scope : references'[s] > 0}
  <1> DEFINE left == AfterUnmatched(old, new)
             all  == AfterMatched(left, old, new)
             gone == {s \in Scope : references[s] > 0 /\ left[s] = 0}
             came == {s \in Scope : left[s] = 0 /\ all[s] > 0}
             minus(s) == Occurrences(Changed(SeenOf(old, s[1]), SeenOf(new, s[1])), s[2])
             plus(s)  == Occurrences(Changed(SeenOf(new, s[1]), SeenOf(old, s[1])), s[2])
  <1>1. references' = all /\ scopes' = (scopes \ gone) \cup came
    BY DEF Rescope
  <1>2. \A s \in Scope : left[s] = IF minus(s) >= references[s] THEN 0 ELSE references[s] - minus(s)
    BY DEF AfterUnmatched
  <1>3. all = [s \in Scope |-> left[s] + plus(s)]
    BY DEF AfterMatched
  <1>4. ASSUME NEW s \in Scope
        PROVE  /\ minus(s) \in Nat /\ plus(s) \in Nat /\ references[s] \in Nat
               /\ minus(s) <= references[s]
               /\ references[s] - minus(s) + plus(s) = Occurrences(SeenOf(new, s[1]), s[2])
    <2> DEFINE f == SeenOf(old, s[1])
               g == SeenOf(new, s[1])
               i == s[2]
    <2>1. f \in Seq(Identifier) /\ g \in Seq(Identifier)
      BY SeenOfType
    <2>2. references[s] = Occurrences(f, i)
      BY DEF Counted
    <2> HIDE DEF f, g, i
    <2>3. /\ Occurrences(f, i) \in Nat /\ Occurrences(Changed(f, g), i) \in Nat
          /\ Occurrences(Changed(f, g), i) <= Occurrences(f, i)
          /\ Occurrences(f, i) - Occurrences(Changed(f, g), i)
               + Occurrences(Changed(g, f), i) = Occurrences(g, i)
      BY <2>1, OccurrencesChange
    <2>4. Occurrences(Changed(g, f), i) \in Nat
      BY <2>1, OccurrencesChange
    <2> QED
      BY <2>2, <2>3, <2>4 DEF f, g, i
  <1> HIDE DEF left, all, gone, came, minus, plus
  <1>5. ASSUME NEW s \in Scope
        PROVE  /\ left[s] \in Nat /\ left[s] = references[s] - minus(s)
               /\ all[s] = left[s] + plus(s) /\ all[s] \in Nat
    <2>1. left[s] = references[s] - minus(s) /\ left[s] \in Nat
      BY <1>2, <1>4
    <2>2. all[s] = left[s] + plus(s)
      BY <1>3
    <2> QED
      BY <1>4, <2>1, <2>2
  <1>6. all \in [Scope -> Nat]
    BY <1>3, <1>5
  <1>7. ASSUME NEW s \in Scope
        PROVE  all[s] = Occurrences(SeenOf(new, s[1]), s[2])
    BY <1>4, <1>5
  <1>8. ASSUME NEW s \in Scope
        PROVE  (s \in (scopes \ gone) \cup came) <=> all[s] > 0
    <2>1. s \in scopes <=> references[s] > 0
      OBVIOUS
    <2>2. s \in gone <=> references[s] > 0 /\ left[s] = 0
      BY DEF gone
    <2>3. s \in came <=> left[s] = 0 /\ all[s] > 0
      BY DEF came
    <2> QED
      BY <1>4, <1>5, <2>1, <2>2, <2>3
  <1>9. (scopes \ gone) \cup came \subseteq Scope
    BY DEF came
  <1> QED
    BY <1>1, <1>6, <1>7, <1>8, <1>9 DEF Counted

-----------------------------------------------------------------------------
(* Types, with the counts they depend on.                                  *)

(* The document is a forest, and what is counted is what was seen. *)
Shape == TypeOK /\ Acyclic(parent) /\ ReferencesCounted

LEMMA ContextsTyped ==
  ASSUME NEW obs, NEW ss \in SUBSET Scope, NEW m \in Nat, NEW loaded \in [Identifier -> 0 .. m],
         DOMAIN obs \ {ScopeObserver} = ContextsFor(ss, loaded)
  PROVE  DOMAIN obs \subseteq {ScopeObserver} \cup (Element \X Identifier \X (1 .. m))
  <1>1. ASSUME NEW s \in Scope, loaded[s[2]] # 0
        PROVE  <<s[1], s[2], loaded[s[2]]>> \in Element \X Identifier \X (1 .. m)
    <2>1. s[1] \in Element /\ s[2] \in Identifier
      BY DEF Scope
    <2>2. loaded[s[2]] \in 1 .. m
      BY <1>1, <2>1
    <2> QED
      BY <2>1, <2>2
  <1> QED
    BY <1>1 DEF ContextsFor

LEMMA ReconnectIs ==
  ASSUME DomOK, NEW obs, Observed(obs), NEW gone, NEW came,
         NEW all, all = Reconnect(obs, gone, came)
  PROVE  /\ Observed(all)
         /\ DOMAIN all = (DOMAIN obs \ gone) \cup came
         /\ \A o \in DOMAIN all :
              \/ all[o] = Fresh(o)
              \/ o \in DOMAIN obs /\ o \notin gone /\ all[o] = obs[o]
         /\ \A o \in DOMAIN obs : o \notin gone /\ o \notin came => all[o] = obs[o]
  <1>1. all = [o \in (DOMAIN obs \ gone) \cup came |-> IF o \in came THEN Fresh(o) ELSE obs[o]]
    BY DEF Reconnect
  <1>2. ASSUME NEW o \in (DOMAIN obs \ gone) \cup came
        PROVE  all[o] \in ObserverState
    <2>1. CASE o \in came
      BY <1>1, <2>1, FreshType
    <2>2. CASE o \notin came
      <3>1. o \in DOMAIN obs /\ all[o] = obs[o]
        BY <1>1, <2>2
      <3> QED
        BY <3>1 DEF Observed
    <2> QED
      BY <2>1, <2>2
  <1>3. DOMAIN all = (DOMAIN obs \ gone) \cup came
    BY <1>1
  <1>4. all \in [DOMAIN all -> ObserverState]
    BY <1>1, <1>2, <1>3
  <1>5. \A o \in DOMAIN all :
          \/ all[o] = Fresh(o)
          \/ o \in DOMAIN obs /\ o \notin gone /\ all[o] = obs[o]
    BY <1>1, <1>3
  <1>6. \A o \in DOMAIN obs : o \notin gone /\ o \notin came => all[o] = obs[o]
    BY <1>1
  <1> QED
    BY <1>3, <1>4, <1>5, <1>6 DEF Observed

LEMMA TypesOf ==
  ASSUME TypeOK
  PROVE  DomOK /\ Observed(observers) /\ made \in Nat
  BY BoundAssumption DEF TypeOK, DomOK, Observed, Trees

(* Notified observers have seen what they had. *)
LEMMA NotifiedCounted ==
  ASSUME Shape, NEW tree, NEW obs, Observed(obs), NEW target, NEW kind \in RecordKinds,
         NEW e \in Element
  PROVE  LET all == Notified(tree, obs, target, kind, e)
         IN Observed(all) /\ DOMAIN all = DOMAIN obs /\ \A o \in DOMAIN obs : all[o].seen = obs[o].seen
  <1>1. ASSUME NEW o \in DOMAIN obs
        PROVE  Notified(tree, obs, target, kind, e)[o].seen = obs[o].seen
    <2> DEFINE t == Notified(tree, obs, target, kind, e)[o]
    <2>1. Informed(o, Above(tree, target), [kind |-> kind, element |-> e], obs[o], t)
      BY NotifiedIs
    <2> HIDE DEF t
    <2>2. t.seen = obs[o].seen
      BY <2>1 DEF Informed, Given, Unheard
    <2> QED
      BY <2>2 DEF t
  <1> QED
    BY <1>1, NotifiedObserved

LEMMA DetachedCounted ==
  ASSUME Shape, NEW e \in Element
  PROVE  /\ Observed(Detached(e)) /\ DOMAIN Detached(e) = DOMAIN observers
         /\ \A o \in DOMAIN observers : Detached(e)[o].seen = observers[o].seen
  <1>1. Observed(observers) /\ "removed" \in RecordKinds
    BY TypesOf DEF Shape, RecordKinds
  <1> QED
    BY <1>1, NotifiedCounted DEF Detached

(* What every change of the document leaves alone. *)
LEMMA ShapeKept ==
  ASSUME Shape, IInv', Observed(observers'), DOMAIN observers' = DOMAIN observers,
         \A o \in DOMAIN observers : observers'[o].seen = observers[o].seen,
         parent' \in Trees, Acyclic(parent'),
         attribute' \in [Attributes -> [Element -> Seq(Identifier) \cup {None}]],
         UNCHANGED <<router, modules, made>>, delivering' \in BOOLEAN
  PROVE  Shape'
  <1>1. /\ references' = references /\ scopes' = scopes /\ modules' = modules /\ made' = made
    BY DEF router
  <1>2. DOMAIN observers' \subseteq {ScopeObserver} \cup (Element \X Identifier \X (1 .. made'))
    BY <1>1 DEF Shape, TypeOK
  <1>3. TypeOK'
    BY <1>1, <1>2 DEF Shape, TypeOK, Observed, Trees
  <1>4. ReferencesCounted'
    <2>1. Started' => Started /\ observers'[ScopeObserver].seen = observers[ScopeObserver].seen
      BY DEF Started
    <2> QED
      BY <1>1, <2>1 DEF Shape, ReferencesCounted
  <1> QED
    BY <1>3, <1>4 DEF Shape

LEMMA InsertShape ==
  ASSUME Shape, IInv, NEW e \in Element, NEW p \in Places[e], Insert(e, p)
  PROVE  Shape'
  <1>1. IInv'
    BY InsertOK
  <1>2. p \in Node
    BY PlacesAssumption
  <1>3. parent \in Trees /\ Acyclic(parent) /\ e \notin Above(parent, p)
        /\ parent' = [parent EXCEPT ![e] = p]
    BY TypesOf DEF Shape, DomOK, Insert, Around
  <1>4. Acyclic(parent')
    BY <1>2, <1>3, MoveAcyclic
  <1>5. parent' \in Trees
    BY <1>2, <1>3 DEF Trees
  <1>6. "added" \in RecordKinds
    BY DEF RecordKinds
  <1>7. /\ Observed(observers') /\ DOMAIN observers' = DOMAIN observers
        /\ \A o \in DOMAIN observers : observers'[o].seen = observers[o].seen
    <2>1. /\ Observed(Detached(e)) /\ DOMAIN Detached(e) = DOMAIN observers
          /\ \A o \in DOMAIN observers : Detached(e)[o].seen = observers[o].seen
      BY DetachedCounted
    <2>2. observers' = Notified([parent EXCEPT ![e] = None], Detached(e), p, "added", e)
      BY DEF Insert
    <2>3. /\ Observed(observers') /\ DOMAIN observers' = DOMAIN Detached(e)
          /\ \A o \in DOMAIN Detached(e) : observers'[o].seen = Detached(e)[o].seen
      BY <1>6, <2>1, <2>2, NotifiedCounted
    <2> QED
      BY <2>1, <2>3
  <1>8. /\ UNCHANGED <<attribute, router, modules, made>>
        /\ attribute \in [Attributes -> [Element -> Seq(Identifier) \cup {None}]]
        /\ delivering' \in BOOLEAN
    BY DEF Insert, Shape, TypeOK
  <1> QED
    BY <1>1, <1>4, <1>5, <1>7, <1>8, ShapeKept

LEMMA DetachShape ==
  ASSUME Shape, IInv, NEW e \in Element, Detach(e)
  PROVE  Shape'
  <1>1. IInv'
    BY DetachOK
  <1>2. parent \in Trees /\ Acyclic(parent) /\ parent' = [parent EXCEPT ![e] = None]
    BY TypesOf DEF Shape, DomOK, Detach
  <1>3. Acyclic(parent')
    BY <1>2, MoveAcyclic
  <1>4. parent' \in Trees
    BY <1>2 DEF Trees
  <1>5. /\ Observed(observers') /\ DOMAIN observers' = DOMAIN observers
        /\ \A o \in DOMAIN observers : observers'[o].seen = observers[o].seen
    BY DetachedCounted DEF Detach
  <1>6. /\ UNCHANGED <<attribute, router, modules, made>>
        /\ attribute \in [Attributes -> [Element -> Seq(Identifier) \cup {None}]]
        /\ delivering' \in BOOLEAN
    BY DEF Detach, Shape, TypeOK
  <1> QED
    BY <1>1, <1>3, <1>4, <1>5, <1>6, ShapeKept

LEMMA SetAttributeShape ==
  ASSUME Shape, IInv, NEW name \in Attributes, NEW e \in Element,
         NEW value \in Seq(Identifier) \cup {None}, SetAttribute(name, e, value)
  PROVE  Shape'
  <1>1. IInv'
    BY SetAttributeOK
  <1>2. parent \in Trees /\ Acyclic(parent) /\ parent' = parent
    BY TypesOf DEF Shape, DomOK, SetAttribute
  <1>3. /\ Observed(observers') /\ DOMAIN observers' = DOMAIN observers
        /\ \A o \in DOMAIN observers : observers'[o].seen = observers[o].seen
    <2>1. name \in RecordKinds /\ Observed(observers)
      BY TypesOf DEF RecordKinds, Shape
    <2> QED
      BY <2>1, NotifiedCounted DEF SetAttribute
  <1>4. /\ UNCHANGED <<router, modules, made>>
        /\ attribute' \in [Attributes -> [Element -> Seq(Identifier) \cup {None}]]
        /\ delivering' \in BOOLEAN
    BY DEF SetAttribute, Shape, TypeOK
  <1> QED
    BY <1>1, <1>2, <1>3, <1>4, ShapeKept

(* The scope observer is never among the contexts that connect. *)
LEMMA RescopeIs ==
  ASSUME DomOK, NEW old, NEW new, NEW obs, Observed(obs), Rescope(old, new, obs)
  PROVE  /\ Observed(observers')
         /\ \A o \in DOMAIN observers' : \/ observers'[o] = Fresh(o)
                                         \/ o \in DOMAIN obs /\ observers'[o] = obs[o]
         /\ ScopeObserver \in DOMAIN obs =>
              /\ ScopeObserver \in DOMAIN observers'
              /\ observers'[ScopeObserver] = obs[ScopeObserver]
  <1>1. PICK gone, came :
          observers' = Reconnect(obs, ContextsFor(gone, modules), ContextsFor(came, modules))
    <2> DEFINE left == AfterUnmatched(old, new)
               all  == AfterMatched(left, old, new)
               gone == {s \in Scope : references[s] > 0 /\ left[s] = 0}
               came == {s \in Scope : left[s] = 0 /\ all[s] > 0}
    <2>1. observers' = Reconnect(obs, ContextsFor(gone, modules), ContextsFor(came, modules))
      BY DEF Rescope
    <2> HIDE DEF left, all, gone, came
    <2> QED
      BY <2>1
  <1>2. /\ ScopeObserver \notin ContextsFor(gone, modules)
        /\ ScopeObserver \notin ContextsFor(came, modules)
    BY ContextsAreContexts
  <1> DEFINE away == ContextsFor(gone, modules)
             in   == ContextsFor(came, modules)
  <1>3. observers' = Reconnect(obs, away, in) /\ ScopeObserver \notin away /\ ScopeObserver \notin in
    BY <1>1, <1>2
  <1> HIDE DEF away, in
  <1>4. /\ Observed(observers')
        /\ DOMAIN observers' = (DOMAIN obs \ away) \cup in
        /\ \A o \in DOMAIN observers' :
             \/ observers'[o] = Fresh(o)
             \/ o \in DOMAIN obs /\ o \notin away /\ observers'[o] = obs[o]
        /\ \A o \in DOMAIN obs : o \notin away /\ o \notin in => observers'[o] = obs[o]
    <2>1. observers' = Reconnect(obs, away, in)
      BY <1>3
    <2>2. Observed(observers')
      BY <2>1, ReconnectIs
    <2>3. DOMAIN observers' = (DOMAIN obs \ away) \cup in
      BY <2>1 DEF Reconnect
    <2>4. \A o \in DOMAIN observers' :
            \/ observers'[o] = Fresh(o)
            \/ o \in DOMAIN obs /\ o \notin away /\ observers'[o] = obs[o]
      BY <2>1 DEF Reconnect
    <2>5. \A o \in DOMAIN obs : o \notin away /\ o \notin in => observers'[o] = obs[o]
      BY <2>1 DEF Reconnect
    <2> QED
      BY <2>2, <2>3, <2>4, <2>5
  <1> QED
    BY <1>3, <1>4

LEMMA RescopeShape ==
  ASSUME Shape, IInv', NEW old \in Seen, NEW new \in Seen, NEW obs, Observed(obs),
         ScopeObserver \in DOMAIN obs, obs[ScopeObserver].seen = new,
         Counted(references, old), Rescope(old, new, obs),
         UNCHANGED <<dom, modules, made>>, delivering' \in BOOLEAN
  PROVE  Shape'
  <1>1. DomOK /\ made \in Nat /\ modules \in [Identifier -> 0 .. made]
    BY TypesOf DEF Shape, TypeOK
  <1>2. parent' = parent /\ attribute' = attribute /\ modules' = modules /\ made' = made
    BY DEF dom
  <1>3. /\ Observed(observers') /\ ScopeObserver \in DOMAIN observers'
        /\ observers'[ScopeObserver].seen = new
    BY <1>1, RescopeIs
  <1>4. /\ references' \in [Scope -> Nat] /\ Counted(references', new)
        /\ scopes' = {s \in Scope : references'[s] > 0}
    <2>1. scopes = {s \in Scope : references[s] > 0}
      BY DEF Shape, ReferencesCounted
    <2> QED
      BY <2>1, RescopeCounted
  <1>5. DOMAIN observers' \subseteq {ScopeObserver} \cup (Element \X Identifier \X (1 .. made'))
    <2>1. DOMAIN observers' \ {ScopeObserver} = ContextsFor(scopes', modules') /\ scopes' \subseteq Scope
      BY DEF IInv, ContextsOfScopes, Contexts
    <2> QED
      BY <1>1, <1>2, <2>1, ContextsTyped
  <1>6. scopes' \subseteq Scope
    BY <1>4
  <1>7. TypeOK'
    BY <1>2, <1>3, <1>4, <1>5, <1>6 DEF Shape, TypeOK, Observed
  <1>8. ReferencesCounted'
    BY <1>3, <1>4 DEF ReferencesCounted, Counted
  <1> QED
    BY <1>2, <1>7, <1>8 DEF Shape

LEMMA FreshSeen ==
  ASSUME DomOK
  PROVE  /\ Observed([o \in {ScopeObserver} |-> Fresh(o)])
         /\ Fresh(ScopeObserver).seen \in Seen
  <1>1. Fresh(ScopeObserver) \in ObserverState
    BY FreshType
  <1>2. Fresh(ScopeObserver).seen \in Seen
    BY <1>1 DEF ObserverState
  <1> QED
    BY <1>1, <1>2 DEF Observed

LEMMA StartShape ==
  ASSUME Shape, IInv, Start
  PROVE  Shape'
  <1>1. IInv' /\ DomOK
    BY StartOK, TypesOf DEF Shape
  <1> DEFINE obs == [o \in {ScopeObserver} |-> Fresh(o)]
             new == Fresh(ScopeObserver).seen
  <1>2. Observed(obs) /\ new \in Seen /\ ScopeObserver \in DOMAIN obs
        /\ obs[ScopeObserver].seen = new
    BY <1>1, FreshSeen
  <1>3. Counted(references, <<>>)
    <2>1. scopes = {} /\ scopes = {s \in Scope : references[s] > 0} /\ references \in [Scope -> Nat]
      BY DEF IInv, Start, Shape, ReferencesCounted, TypeOK
    <2>2. \A s \in Scope : references[s] = 0
      BY <2>1
    <2> QED
      BY <2>2, NothingSeen, NoOccurrences DEF Counted
  <1>4. Rescope(<<>>, new, obs) /\ UNCHANGED <<dom, modules, made>> /\ delivering' \in BOOLEAN
    BY DEF Start, Shape, TypeOK
  <1> HIDE DEF obs, new
  <1> QED
    BY <1>1, <1>2, <1>3, <1>4, NothingSeen, RescopeShape

LEMMA ReloadedIs ==
  ASSUME DomOK, Observed(observers), NEW i, NEW loaded, observers' = Reloaded(i, loaded)
  PROVE  /\ Observed(observers')
         /\ \A o \in DOMAIN observers' : \/ observers'[o] = Fresh(o)
                                         \/ o \in DOMAIN observers /\ observers'[o] = observers[o]
         /\ ScopeObserver \in DOMAIN observers' <=> ScopeObserver \in DOMAIN observers
         /\ ScopeObserver \in DOMAIN observers => observers'[ScopeObserver] = observers[ScopeObserver]
  <1> DEFINE mine == {s \in scopes : s[2] = i}
             away == ContextsFor(mine, modules)
             in   == ContextsFor(mine, loaded)
  <1>1. observers' = Reconnect(observers, away, in)
    BY DEF Reloaded
  <1>2. ScopeObserver \notin away /\ ScopeObserver \notin in
    BY ContextsAreContexts
  <1> HIDE DEF away, in
  <1>3. /\ Observed(observers')
        /\ DOMAIN observers' = (DOMAIN observers \ away) \cup in
        /\ \A o \in DOMAIN observers' :
             \/ observers'[o] = Fresh(o)
             \/ o \in DOMAIN observers /\ o \notin away /\ observers'[o] = observers[o]
        /\ \A o \in DOMAIN observers :
             o \notin away /\ o \notin in => observers'[o] = observers[o]
    BY <1>1, ReconnectIs
  <1> QED
    BY <1>2, <1>3

LEMMA ReloadedShape ==
  ASSUME Shape, IInv', NEW i \in Identifier, observers' = Reloaded(i, modules'),
         modules' \in [Identifier -> 0 .. made'], made' \in 0 .. MaxModules,
         UNCHANGED <<dom, router, delivering>>
  PROVE  Shape'
  <1>1. DomOK /\ Observed(observers)
    BY TypesOf DEF Shape
  <1>2. /\ parent' = parent /\ attribute' = attribute /\ references' = references
        /\ scopes' = scopes /\ delivering' = delivering
    BY DEF dom, router
  <1>3. /\ Observed(observers')
        /\ ScopeObserver \in DOMAIN observers' <=> ScopeObserver \in DOMAIN observers
        /\ ScopeObserver \in DOMAIN observers => observers'[ScopeObserver] = observers[ScopeObserver]
    BY <1>1, ReloadedIs
  <1>4. DOMAIN observers' \subseteq {ScopeObserver} \cup (Element \X Identifier \X (1 .. made'))
    <2>1. DOMAIN observers' \ {ScopeObserver} = ContextsFor(scopes', modules') /\ scopes' \subseteq Scope
      BY DEF IInv, ContextsOfScopes, Contexts
    <2>2. made' \in Nat
      BY BoundAssumption
    <2> QED
      BY <2>1, <2>2, ContextsTyped
  <1>5. TypeOK'
    BY <1>2, <1>3, <1>4 DEF Shape, TypeOK, Observed
  <1>6. ReferencesCounted'
    BY <1>2, <1>3 DEF Shape, ReferencesCounted, Started
  <1> QED
    BY <1>2, <1>5, <1>6 DEF Shape

LEMMA RegisterShape ==
  ASSUME Shape, IInv, NEW i \in Identifier, Register(i)
  PROVE  Shape'
  <1>1. IInv'
    BY ReloadedOK DEF Register, router
  <1>2. modules \in [Identifier -> 0 .. made] /\ made \in 0 .. MaxModules /\ MaxModules \in Nat
    BY BoundAssumption DEF Shape, TypeOK
  <1>3. made' \in 0 .. MaxModules /\ made' = made + 1 /\ modules' = [modules EXCEPT ![i] = made + 1]
    BY <1>2 DEF Register
  <1>4. modules' \in [Identifier -> 0 .. made']
    BY <1>2, <1>3
  <1> QED
    BY <1>1, <1>3, <1>4, ReloadedShape DEF Register

LEMMA UnloadShape ==
  ASSUME Shape, IInv, NEW i \in Identifier, Unload(i)
  PROVE  Shape'
  <1>1. IInv'
    BY ReloadedOK DEF Unload, router
  <1>2. modules \in [Identifier -> 0 .. made] /\ made \in 0 .. MaxModules /\ MaxModules \in Nat
    BY BoundAssumption DEF Shape, TypeOK
  <1>3. modules' \in [Identifier -> 0 .. made'] /\ made' = made
    BY <1>2 DEF Unload
  <1> QED
    BY <1>1, <1>2, <1>3, ReloadedShape DEF Unload

(* One record is taken by observer o. *)
Taken(o) ==
  [seen      |-> Processed(o, observers[o].seen, Head(observers[o].queue)),
   queue     |-> Tail(observers[o].queue),
   transient |-> {}]

LEMMA TakenIs ==
  ASSUME DomOK, Observed(observers), NEW o \in DOMAIN observers, observers[o].queue # <<>>
  PROVE  /\ observers[o].seen \in Seen
         /\ Taken(o).seen \in Seen /\ Taken(o) \in ObserverState
         /\ Taken(o).seen = Processed(o, observers[o].seen, Head(observers[o].queue))
         /\ Taken(o).queue = Tail(observers[o].queue) /\ Taken(o).transient = {}
         /\ Observed([observers EXCEPT ![o] = Taken(o)])
         /\ Head(observers[o].queue) \in Record
  <1>1. /\ observers[o] \in ObserverState
        /\ observers[o].queue \in Seq(Record) /\ observers[o].seen \in Seen
    BY DEF Observed, ObserverState
  <1>2. Head(observers[o].queue) \in Record /\ Tail(observers[o].queue) \in Seq(Record)
    BY <1>1, TailQueue
  <1>3. Head(observers[o].queue).element \in Element
    BY <1>2 DEF Record
  <1>4. Processed(o, observers[o].seen, Head(observers[o].queue)) \in Seen
    BY <1>1, <1>2, <1>3, ProcessedIs
  <1>5. /\ Taken(o).seen = Processed(o, observers[o].seen, Head(observers[o].queue))
        /\ Taken(o).queue = Tail(observers[o].queue) /\ Taken(o).transient = {}
    BY DEF Taken
  <1>6. Taken(o) \in ObserverState
    BY <1>2, <1>4 DEF Taken, ObserverState
  <1>7. Observed([observers EXCEPT ![o] = Taken(o)])
    BY <1>6 DEF Observed
  <1> QED
    BY <1>1, <1>2, <1>4, <1>5, <1>6, <1>7

LEMMA DeliverIs ==
  ASSUME NEW o \in DOMAIN observers, Deliver(o)
  PROVE  /\ observers[o].queue # <<>>
         /\ o = ScopeObserver \/ observers[ScopeObserver].queue = <<>>
         /\ o = ScopeObserver => Rescope(observers[o].seen, Taken(o).seen,
                                         [observers EXCEPT ![o] = Taken(o)])
         /\ o # ScopeObserver => /\ observers' = [observers EXCEPT ![o] = Taken(o)]
                                 /\ UNCHANGED router
         /\ delivering' = (Pending(observers') # {})
         /\ UNCHANGED <<dom, modules, made>>
  <1>1. Taken(o).seen = Processed(o, observers[o].seen, Head(observers[o].queue))
    BY DEF Taken
  <1> QED
    BY <1>1 DEF Deliver, Taken

LEMMA DeliverShape ==
  ASSUME Shape, IInv, NEW o \in DOMAIN observers, Deliver(o)
  PROVE  Shape'
  <1> DEFINE obs == [observers EXCEPT ![o] = Taken(o)]
  <1>1. IInv' /\ DomOK /\ Observed(observers)
    BY DeliverOK, TypesOf DEF Shape
  <1>2. observers[o].queue # <<>> /\ UNCHANGED <<dom, modules, made>> /\ delivering' \in BOOLEAN
    BY DeliverIs
  <1>3. /\ observers[o].seen \in Seen /\ Taken(o).seen \in Seen /\ Observed(obs)
        /\ DOMAIN obs = DOMAIN observers /\ obs[o] = Taken(o)
        /\ \A x \in DOMAIN observers : x # o => obs[x] = observers[x]
    BY <1>1, <1>2, TakenIs
  <1>4. CASE o = ScopeObserver
    <2>1. Rescope(observers[o].seen, Taken(o).seen, obs)
      BY <1>4, DeliverIs
    <2>2. Counted(references, observers[o].seen)
      BY <1>4 DEF Shape, ReferencesCounted, Started, Counted
    <2> HIDE DEF obs
    <2> QED
      BY <1>1, <1>2, <1>3, <1>4, <2>1, <2>2, RescopeShape
  <1>5. CASE o # ScopeObserver
    <2>1. observers' = obs /\ UNCHANGED router
      BY <1>5, DeliverIs
    <2> HIDE DEF obs
    <2>2. /\ parent' = parent /\ attribute' = attribute /\ references' = references
          /\ scopes' = scopes /\ modules' = modules /\ made' = made
      BY <1>2, <2>1 DEF dom, router
    <2>3. TypeOK'
      BY <1>2, <1>3, <2>1, <2>2 DEF Shape, TypeOK, Observed
    <2>4. ReferencesCounted'
      BY <1>3, <1>5, <2>1, <2>2 DEF Shape, ReferencesCounted, Started
    <2> QED
      BY <2>2, <2>3, <2>4 DEF Shape
  <1> QED
    BY <1>4, <1>5

LEMMA InitShape == Init => Shape
  <1> SUFFICES ASSUME Init PROVE Shape
    OBVIOUS
  <1>1. parent \in Trees /\ Acyclic(parent)
    BY DEF Init, Trees, Acyclic, Around
  <1>2. attribute \in [Attributes -> [Element -> Seq(Identifier) \cup {None}]]
    <2>1. PICK c \in [Element -> UNION {ControllerValues[e] : e \in Element}],
               a \in [Element -> UNION {ActionValues[e] : e \in Element}] :
            /\ attribute = [controller |-> c, action |-> a]
            /\ \A e \in Element : c[e] \in ControllerValues[e] /\ a[e] \in ActionValues[e]
      BY DEF Init
    <2>2. \A e \in Element : /\ ControllerValues[e] \subseteq Seq(Identifier) \cup {None}
                             /\ ActionValues[e] \subseteq Seq(Identifier) \cup {None}
      BY ValuesAssumption
    <2>3. c \in [Element -> Seq(Identifier) \cup {None}] /\ a \in [Element -> Seq(Identifier) \cup {None}]
      BY <2>1, <2>2
    <2> QED
      BY <2>1, <2>3 DEF Attributes
  <1>3. /\ observers = <<>> /\ references = [s \in Scope |-> 0] /\ scopes = {}
        /\ modules = [i \in Identifier |-> 0] /\ made = 0 /\ delivering = FALSE
    BY DEF Init
  <1>4. observers \in [DOMAIN observers -> ObserverState] /\ DOMAIN observers = {}
    BY <1>3
  <1>5. TypeOK
    <2>1. references \in [Scope -> Nat] /\ scopes \subseteq Scope
      BY <1>3
    <2>2. made \in 0 .. MaxModules /\ modules \in [Identifier -> 0 .. made]
      BY <1>3, BoundAssumption
    <2>3. /\ DOMAIN observers \subseteq {ScopeObserver} \cup (Element \X Identifier \X (1 .. made))
          /\ observers \in [DOMAIN observers -> ObserverState]
      BY <1>4
    <2>4. delivering \in BOOLEAN
      BY <1>3
    <2> QED
      BY <1>1, <1>2, <2>1, <2>2, <2>3, <2>4 DEF TypeOK, Trees
  <1>6. ReferencesCounted
    BY <1>3, <1>4 DEF ReferencesCounted, Started
  <1> QED
    BY <1>1, <1>5, <1>6 DEF Shape

LEMMA StepShape == Shape /\ IInv /\ [Next]_vars => Shape'
  <1> SUFFICES ASSUME Shape, IInv, [Next]_vars PROVE Shape'
    OBVIOUS
  <1>1. \A e \in Element : /\ ControllerValues[e] \subseteq Seq(Identifier) \cup {None}
                           /\ ActionValues[e] \subseteq Seq(Identifier) \cup {None}
    BY ValuesAssumption
  <1>2. ASSUME NEW e \in Element, NEW v \in ControllerValues[e], SetAttribute("controller", e, v)
        PROVE  Shape'
    BY <1>1, <1>2, SetAttributeShape DEF Attributes
  <1>3. ASSUME NEW e \in Element, NEW v \in ActionValues[e], SetAttribute("action", e, v)
        PROVE  Shape'
    BY <1>1, <1>3, SetAttributeShape DEF Attributes
  <1>4. CASE UNCHANGED vars
    BY <1>4 DEF vars, Shape, TypeOK, Acyclic, ReferencesCounted, Started, ObserverState, Seen
  <1> QED
    BY <1>2, <1>3, <1>4, InsertShape, DetachShape, StartShape, RegisterShape, UnloadShape,
       DeliverShape DEF Next

(***************************************************************************)
(* What observers have read and what they have yet to hear keeps its type, *)
(* whatever the document and the order of delivery, and no observer is of a *)
(* module that was not made.                                               *)
(***************************************************************************)
THEOREM TypeCorrect == Spec => []TypeOK
  <1>1. Shape => TypeOK
    BY DEF Shape
  <1> QED
    BY <1>1, InitIInv, StepIInv, InitShape, StepShape, PTL DEF Spec

(***************************************************************************)
(* The router's count of a scope is the number of tokens the observer has  *)
(* seen for it, and it knows the scope while there is one.                 *)
(***************************************************************************)
THEOREM References == Spec => []ReferencesCounted
  <1>1. Shape => ReferencesCounted
    BY DEF Shape
  <1> QED
    BY <1>1, InitIInv, StepIInv, InitShape, StepShape, PTL DEF Spec

-----------------------------------------------------------------------------
(* All observers, while no record is being handed over.                    *)

(* Each context's element has been seen by the scope observer. *)
Held(obs) ==
  /\ Observed(obs) /\ ScopeObserver \in DOMAIN obs
  /\ \A c \in DOMAIN obs \ {ScopeObserver} :
       c \in Element \X Identifier \X Nat /\ c[1] \in DOMAIN obs[ScopeObserver].seen

(* No record of a removal will have the context of o disconnected. *)
Stays(tree, obs, o) ==
  o = ScopeObserver \/ ~Removed(tree, obs[ScopeObserver].queue, o[1])

Kept(tree, read, obs) ==
  \A o \in DOMAIN obs :
    /\ obs[o].transient = RemovedIn(obs[o].queue)
    /\ Stays(tree, obs, o) => Watch(tree, read[Name(o)], Name(o), Watched(o), obs[o], FALSE)

LEMMA HeldIs == Shape /\ IInv /\ Started => Held(observers)
  <1> SUFFICES ASSUME Shape, IInv, Started PROVE Held(observers)
    OBVIOUS
  <1>1. Observed(observers) /\ ScopeObserver \in DOMAIN observers /\ made \in Nat
    BY TypesOf DEF Shape, Started
  <1>2. ASSUME NEW c \in DOMAIN observers \ {ScopeObserver}
        PROVE  c \in Element \X Identifier \X Nat /\ c[1] \in DOMAIN observers[ScopeObserver].seen
    <2>1. c \in Element \X Identifier \X (1 .. made)
      BY DEF Shape, TypeOK
    <2>2. c \in Element \X Identifier \X Nat
      <3>1. c[1] \in Element /\ c[2] \in Identifier /\ c[3] \in Nat /\ c = <<c[1], c[2], c[3]>>
        BY <1>1, <2>1
      <3> QED
        BY <3>1
    <2>3. c \in ContextsFor(scopes, modules)
      BY DEF IInv, ContextsOfScopes, Contexts
    <2>4. PICK s \in scopes : c = <<s[1], s[2], modules[s[2]]>>
      BY <2>3 DEF ContextsFor
    <2>5. s \in Scope /\ references[s] > 0 /\ c[1] = s[1]
      BY <2>4 DEF Shape, ReferencesCounted
    <2>6. references[s] = Occurrences(SeenOf(observers[ScopeObserver].seen, s[1]), s[2])
      BY <1>1, <2>5 DEF Shape, ReferencesCounted, Started
    <2>7. CASE c[1] \notin DOMAIN observers[ScopeObserver].seen
      <3>1. SeenOf(observers[ScopeObserver].seen, s[1]) = <<>>
        BY <2>5, <2>7 DEF SeenOf
      <3>2. references[s] = 0
        BY <2>6, <3>1, NoOccurrences
      <3> QED
        BY <2>5, <3>2
    <2> QED
      BY <2>2, <2>7
  <1> QED
    BY <1>1, <1>2 DEF Held

LEMMA HeldWatched ==
  ASSUME NEW obs, Held(obs), NEW o \in DOMAIN obs
  PROVE  /\ Watched(o) \in Node /\ obs[o] \in ObserverState
         /\ o = ScopeObserver => Watched(o) = Root
         /\ o # ScopeObserver => Watched(o) = o[1] /\ o[1] \in Element
  <1>1. obs[o] \in ObserverState
    BY DEF Held, Observed
  <1>2. CASE o = ScopeObserver
    BY <1>1, <1>2, ScopeObserverIs DEF Node
  <1>3. CASE o # ScopeObserver
    <2>1. o \in Element \X Identifier \X Nat
      BY <1>3 DEF Held
    <2> QED
      BY <1>1, <1>3, <2>1, ContextIs
  <1> QED
    BY <1>2, <1>3

LEMMA RootAlone ==
  ASSUME NEW tree \in Trees
  PROVE  Root \in Node /\ Above(tree, Root) = {Root} /\ \A e \in Element : e \notin Above(tree, Root)
  <1>1. Root \in Node /\ Root \notin Element
    BY NodeAssumption DEF Node
  <1> QED
    BY <1>1, AboveTop

(* A context that stays is in the document. *)
LEMMA Anchored ==
  ASSUME NEW tree \in Trees, NEW obs, NEW read, Held(obs), Kept(tree, read, obs),
         NEW c \in DOMAIN obs, Stays(tree, obs, c)
  PROVE  Root \in Above(tree, Watched(c))
  <1>1. CASE c = ScopeObserver
    BY <1>1, RootAlone, ScopeObserverIs
  <1>2. CASE c # ScopeObserver
    <2> DEFINE s == obs[ScopeObserver]
    <2>1. c[1] \in DOMAIN s.seen /\ Watched(c) = c[1] /\ ~Removed(tree, s.queue, c[1])
      BY <1>2, HeldWatched DEF Held, Stays
    <2>2. Watch(tree, read["controller"], "controller", Root, s, FALSE)
      BY ScopeObserverIs DEF Held, Kept, Stays
    <2>3. Around(tree, Root, c[1]) \/ Removed(tree, s.queue, c[1])
      BY <2>1, <2>2 DEF Watch, Gone
    <2> QED
      BY <2>1, <2>3 DEF Around
  <1> QED
    BY <1>1, <1>2

LEMMA AttachKept ==
  ASSUME NEW tree \in Trees, Acyclic(tree), NEW e \in Element, tree[e] = None,
         NEW p \in Node, e \notin Above(tree, p),
         NEW obs, NEW read, Held(obs), Kept(tree, read, obs),
         NEW all, all = Notified(tree, obs, p, "added", e)
  PROVE  Kept([tree EXCEPT ![e] = p], read, all)
  <1> DEFINE moved == [tree EXCEPT ![e] = p]
             r == [kind |-> "added", element |-> e]
  <1>1. "added" \in RecordKinds /\ Observed(obs) /\ ScopeObserver \in DOMAIN obs
    BY DEF RecordKinds, Held
  <1>2. DOMAIN all = DOMAIN obs
    BY <1>1, NotifiedObserved
  <1>3. ASSUME NEW o \in DOMAIN obs
        PROVE  /\ obs[o] \in ObserverState
               /\ \/ Given(obs[o], all[o], r)
                  \/ Unheard(obs[o], all[o]) /\ Watched(o) \notin Above(tree, p)
               /\ all[o].transient = RemovedIn(all[o].queue)
    <2>1. obs[o].transient = RemovedIn(obs[o].queue)
      BY DEF Kept
    <2>2. Informed(o, Above(tree, p), r, obs[o], all[o])
      BY <1>1, NotifiedIs
    <2> HIDE DEF r
    <2> QED
      BY <2>1, <2>2 DEF Informed
  <1>4. ASSUME NEW o \in DOMAIN obs, Stays(moved, all, o)
        PROVE  Stays(tree, obs, o)
    <2> SUFFICES ASSUME o # ScopeObserver, Removed(tree, obs[ScopeObserver].queue, o[1]) PROVE FALSE
      BY DEF Stays
    <2>1. \/ Given(obs[ScopeObserver], all[ScopeObserver], r)
          \/ Unheard(obs[ScopeObserver], all[ScopeObserver])
      BY <1>1, <1>3
    <2>2. obs[ScopeObserver] \in ObserverState
      BY <1>1, <1>3
    <2>3. Removed(moved, all[ScopeObserver].queue, o[1])
      BY <2>1, <2>2, AttachRemoved
    <2> HIDE DEF moved, r
    <2> QED
      BY <1>4, <2>3 DEF Stays
  <1>5. ASSUME NEW o \in DOMAIN obs, Stays(moved, all, o)
        PROVE  Watch(moved, read[Name(o)], Name(o), Watched(o), all[o], FALSE)
    <2>1. Stays(tree, obs, o)
      BY <1>4, <1>5
    <2>2. Watch(tree, read[Name(o)], Name(o), Watched(o), obs[o], FALSE)
      BY <2>1 DEF Kept
    <2>3. Watched(o) \in Node /\ Root \in Above(tree, Watched(o)) /\ Name(o) # "added"
      BY <2>1, HeldWatched, Anchored, NameType
    <2>4. e \notin Above(tree, Watched(o))
      <3>1. SUFFICES ASSUME e \in Above(tree, Watched(o)) PROVE FALSE
        OBVIOUS
      <3>2. e \in Above(tree, Root) \/ Root \in Above(tree, e)
        BY <2>3, <3>1, AboveLinear
      <3>3. e \in Node /\ e # None /\ Above(tree, e) = {e} /\ Root # e
        BY AboveTop, NodeAssumption DEF Node
      <3> QED
        BY <3>2, <3>3, RootAlone
    <2>5. \/ Given(obs[o], all[o], [kind |-> "added", element |-> e])
          \/ /\ Unheard(obs[o], all[o])
             /\ Watched(o) \notin Above(tree, p)
      BY <1>3
    <2>6. obs[o] \in ObserverState
      BY <1>3
    <2> DEFINE w == Watched(o)
               name == Name(o)
               values == read[Name(o)]
    <2> HIDE DEF w, name, values, moved, r
    <2>7. Watch([tree EXCEPT ![e] = p], values, name, w, all[o], FALSE)
      <3>1. /\ name # "added" /\ w \in Node /\ e \notin Above(tree, w)
            /\ Watch(tree, values, name, w, obs[o], FALSE)
        BY <2>2, <2>3, <2>4 DEF w, name, values
      <3>2. \/ Given(obs[o], all[o], [kind |-> "added", element |-> e])
            \/ /\ Unheard(obs[o], all[o])
               /\ w \notin Above(tree, p)
        BY <2>5 DEF w
      <3> QED
        BY <2>6, <3>1, <3>2, AttachWatch
    <2> QED
      BY <2>7 DEF w, name, values, moved
  <1> HIDE DEF moved, r
  <1> QED
    BY <1>2, <1>3, <1>5 DEF Kept, moved

LEMMA DetachKept ==
  ASSUME NEW tree \in Trees, Acyclic(tree), NEW e \in Element, tree[e] # None,
         NEW obs, NEW read, Held(obs), Kept(tree, read, obs),
         NEW all, all = Notified(tree, obs, tree[e], "removed", e)
  PROVE  Kept([tree EXCEPT ![e] = None], read, all)
  <1> DEFINE moved == [tree EXCEPT ![e] = None]
             r == [kind |-> "removed", element |-> e]
  <1>1. "removed" \in RecordKinds /\ Observed(obs) /\ ScopeObserver \in DOMAIN obs
    BY DEF RecordKinds, Held
  <1>2. DOMAIN all = DOMAIN obs
    BY <1>1, NotifiedObserved
  <1>3. ASSUME NEW o \in DOMAIN obs
        PROVE  /\ obs[o] \in ObserverState
               /\ \/ Given(obs[o], all[o], r)
                  \/ /\ Unheard(obs[o], all[o])
                     /\ Above(tree, tree[e]) \cap RemovedIn(obs[o].queue) = {}
                     /\ Watched(o) \notin Above(tree, tree[e])
               /\ all[o].transient = RemovedIn(all[o].queue)
    <2>1. obs[o].transient = RemovedIn(obs[o].queue)
      BY DEF Kept
    <2>2. Informed(o, Above(tree, tree[e]), r, obs[o], all[o])
      BY <1>1, NotifiedIs
    <2> HIDE DEF r
    <2> QED
      BY <2>1, <2>2 DEF Informed
  <1>4. ASSUME NEW o \in DOMAIN obs, Stays(moved, all, o)
        PROVE  Stays(tree, obs, o)
    <2> SUFFICES ASSUME o # ScopeObserver, Removed(tree, obs[ScopeObserver].queue, o[1]) PROVE FALSE
      BY DEF Stays
    <2>1. \/ Given(obs[ScopeObserver], all[ScopeObserver], r)
          \/ /\ Unheard(obs[ScopeObserver], all[ScopeObserver])
             /\ Above(tree, tree[e]) \cap RemovedIn(obs[ScopeObserver].queue) = {}
      BY <1>1, <1>3
    <2>2. obs[ScopeObserver] \in ObserverState
      BY <1>1, <1>3
    <2>3. Removed(moved, all[ScopeObserver].queue, o[1])
      BY <2>1, <2>2, DetachRemoved
    <2> HIDE DEF moved, r
    <2> QED
      BY <1>4, <2>3 DEF Stays
  <1>5. ASSUME NEW o \in DOMAIN obs, Stays(moved, all, o)
        PROVE  Watch(moved, read[Name(o)], Name(o), Watched(o), all[o], FALSE)
    <2>1. Stays(tree, obs, o)
      BY <1>4, <1>5
    <2>2. Watch(tree, read[Name(o)], Name(o), Watched(o), obs[o], FALSE)
      BY <2>1 DEF Kept
    <2>3. Watched(o) \in Node /\ Root \in Above(tree, Watched(o)) /\ Name(o) # "removed"
      BY <2>1, HeldWatched, Anchored, NameType
    (* Otherwise the scope observer hears that e is removed. *)
    <2>4. e \notin Above(tree, Watched(o))
      <3>1. SUFFICES ASSUME e \in Above(tree, Watched(o)) PROVE FALSE
        OBVIOUS
      <3>2. o # ScopeObserver
        BY <3>1, RootAlone, ScopeObserverIs
      <3>3. Watched(o) = o[1]
        BY <3>2, HeldWatched
      <3>4. e \notin Above(tree, Root) /\ e \in Node
        BY RootAlone DEF Node
      <3>5. Root \in Above(tree, tree[e])
        <4>1. \A a \in Above(tree, Watched(o)) :
                e \notin Above(tree, a) => a \in Above(tree, tree[e])
          BY <2>3, <3>1, AboveAfterRemoval
        <4> QED
          BY <2>3, <3>4, <4>1
      <3>6. Given(obs[ScopeObserver], all[ScopeObserver], r)
        BY <1>1, <1>3, <3>5, ScopeObserverIs
      <3>7. /\ Len(obs[ScopeObserver].queue) + 1 \in DOMAIN all[ScopeObserver].queue
            /\ all[ScopeObserver].queue[Len(obs[ScopeObserver].queue) + 1] = r
        BY <1>1, <1>3, <3>6, GivenQueue
      <3>8. e \in Above(moved, Watched(o))
        BY <2>3, <3>1, <3>4, AboveLeast, AboveAfterRemoval
      <3>9. Removal(moved, r, Watched(o))
        BY <2>3, <3>8 DEF Removal, Around
      <3> HIDE DEF moved, r
      <3> QED
        BY <1>5, <3>2, <3>3, <3>7, <3>9 DEF Stays, Removed
    <2>5. \/ Given(obs[o], all[o], [kind |-> "removed", element |-> e])
          \/ /\ Unheard(obs[o], all[o])
             /\ Above(tree, tree[e]) \cap RemovedIn(obs[o].queue) = {}
             /\ Watched(o) \notin Above(tree, tree[e])
      BY <1>3
    <2>6. obs[o] \in ObserverState
      BY <1>3
    <2> DEFINE w == Watched(o)
               name == Name(o)
               values == read[Name(o)]
    <2> HIDE DEF w, name, values, moved, r
    <2>7. Watch([tree EXCEPT ![e] = None], values, name, w, all[o], FALSE)
      <3>1. /\ name # "removed" /\ w \in Node /\ e \notin Above(tree, w)
            /\ Watch(tree, values, name, w, obs[o], FALSE)
        BY <2>2, <2>3, <2>4 DEF w, name, values
      <3>2. \/ Given(obs[o], all[o], [kind |-> "removed", element |-> e])
            \/ /\ Unheard(obs[o], all[o])
               /\ Above(tree, tree[e]) \cap RemovedIn(obs[o].queue) = {}
               /\ w \notin Above(tree, tree[e])
        BY <2>5 DEF w
      <3> QED
        BY <2>6, <3>1, <3>2, DetachWatch
    <2> QED
      BY <2>7 DEF w, name, values, moved
  <1> HIDE DEF moved, r
  <1> QED
    BY <1>2, <1>3, <1>5 DEF Kept, moved

LEMMA AttributeKept ==
  ASSUME NEW tree \in Trees, NEW e \in Element, NEW kind \in Attributes,
         NEW obs, NEW old, NEW read, Held(obs), Kept(tree, old, obs),
         \A name : Sets(kind, e, name, old[name], read[name]),
         NEW all, all = Notified(tree, obs, e, kind, e)
  PROVE  Kept(tree, read, all)
  <1> DEFINE r == [kind |-> kind, element |-> e]
  <1>1. /\ kind \in RecordKinds /\ kind # "removed"
        /\ Observed(obs) /\ ScopeObserver \in DOMAIN obs
    BY DEF RecordKinds, Attributes, Held
  <1>2. DOMAIN all = DOMAIN obs
    BY <1>1, NotifiedObserved
  <1>3. ASSUME NEW o \in DOMAIN obs
        PROVE  /\ obs[o] \in ObserverState
               /\ \/ Given(obs[o], all[o], r)
                  \/ /\ Unheard(obs[o], all[o])
                     /\ Watched(o) \notin Above(tree, e)
                     /\ Above(tree, e) \cap RemovedIn(obs[o].queue) = {}
               /\ all[o].transient = RemovedIn(all[o].queue)
    <2>1. obs[o].transient = RemovedIn(obs[o].queue)
      BY DEF Kept
    <2>2. Informed(o, Above(tree, e), r, obs[o], all[o])
      BY <1>1, NotifiedIs
    <2> HIDE DEF r
    <2> QED
      BY <2>1, <2>2 DEF Informed
  <1>4. ASSUME NEW o \in DOMAIN obs, Stays(tree, all, o)
        PROVE  Stays(tree, obs, o)
    <2> SUFFICES ASSUME o # ScopeObserver, Removed(tree, obs[ScopeObserver].queue, o[1]) PROVE FALSE
      BY DEF Stays
    <2>1. Given(obs[ScopeObserver], all[ScopeObserver], r) \/ Unheard(obs[ScopeObserver], all[ScopeObserver])
      BY <1>1, <1>3
    <2>2. obs[ScopeObserver] \in ObserverState
      BY <1>1, <1>3
    <2>3. Removed(tree, all[ScopeObserver].queue, o[1])
      BY <2>1, <2>2, AttributeRemoved
    <2> HIDE DEF r
    <2> QED
      BY <1>4, <2>3 DEF Stays
  <1>5. ASSUME NEW o \in DOMAIN obs, Stays(tree, all, o)
        PROVE  Watch(tree, read[Name(o)], Name(o), Watched(o), all[o], FALSE)
    <2>1. Stays(tree, obs, o)
      BY <1>4, <1>5
    <2>2. Watch(tree, old[Name(o)], Name(o), Watched(o), obs[o], FALSE)
      BY <2>1 DEF Kept
    <2>3. Watched(o) \in Node
      BY HeldWatched
    <2>4. \/ Given(obs[o], all[o], [kind |-> kind, element |-> e])
          \/ /\ Unheard(obs[o], all[o])
             /\ Watched(o) \notin Above(tree, e)
             /\ Above(tree, e) \cap RemovedIn(obs[o].queue) = {}
      BY <1>3
    <2>5. obs[o] \in ObserverState
      BY <1>3
    <2> DEFINE w == Watched(o)
               name == Name(o)
               values == old[Name(o)]
               next == read[Name(o)]
    <2>6. Sets(kind, e, name, values, next)
      OBVIOUS
    <2> HIDE DEF w, name, values, next, r
    <2>7. Watch(tree, next, name, w, all[o], FALSE)
      <3>1. w \in Node /\ Watch(tree, values, name, w, obs[o], FALSE)
        BY <2>2, <2>3 DEF w, name, values
      <3>2. \/ Given(obs[o], all[o], [kind |-> kind, element |-> e])
            \/ /\ Unheard(obs[o], all[o])
               /\ w \notin Above(tree, e)
               /\ Above(tree, e) \cap RemovedIn(obs[o].queue) = {}
        BY <2>4 DEF w
      <3> QED
        BY <1>1, <2>5, <2>6, <3>1, <3>2, AttributeWatch
    <2> QED
      BY <2>7 DEF w, name, next
  <1> HIDE DEF r
  <1> QED
    BY <1>2, <1>3, <1>5 DEF Kept

-----------------------------------------------------------------------------
(* All observers, in every state.                                          *)

(* The context c is to be disconnected: the records that wait say so, or,  *)
(* while they are handed over, its element has no controller any more.     *)
Doomed(c) == \/ Removed(parent, observers[ScopeObserver].queue, c[1])
             \/ delivering /\ attribute["controller"][c[1]] = None

Lasts(o) == o = ScopeObserver \/ ~Doomed(o)

Watches(o) == Watch(parent, attribute[Name(o)], Name(o), Watched(o), observers[o], delivering)

(* Elements removed since the last delivery are those of its records. *)
Hearing(o) == /\ observers[o].queue = <<>> => observers[o].transient = {}
              /\ ~delivering => observers[o].transient = RemovedIn(observers[o].queue)

(* Whatever an observer has not seen as it is now, it has a record of,     *)
(* unless its context will not see it any more.                            *)
WInv == /\ \A o \in DOMAIN observers : Hearing(o) /\ (Lasts(o) => Watches(o))
        /\ delivering => Pending(observers) # {}

LEMMA NothingRemoved == RemovedIn(<<>>) = {}
  <1>1. DOMAIN <<>> = {}
    OBVIOUS
  <1> QED
    BY <1>1 DEF RemovedIn

LEMMA NobodyBefore ==
  ASSUME IInv, ~Started
  PROVE  DOMAIN observers = {}
  <1>1. ContextsFor({}, modules) = {}
    BY DEF ContextsFor
  <1> QED
    BY <1>1 DEF IInv, ContextsOfScopes, Contexts, Started

LEMMA KeptIs ==
  ASSUME WInv, ~delivering
  PROVE  Kept(parent, attribute, observers)
  <1> SUFFICES ASSUME NEW o \in DOMAIN observers
               PROVE  /\ observers[o].transient = RemovedIn(observers[o].queue)
                      /\ Stays(parent, observers, o) =>
                           Watch(parent, attribute[Name(o)], Name(o), Watched(o), observers[o], FALSE)
    BY DEF Kept
  <1>1. observers[o].transient = RemovedIn(observers[o].queue) /\ (Lasts(o) => Watches(o))
    BY DEF WInv, Hearing
  <1>2. Stays(parent, observers, o) => Lasts(o)
    BY DEF Stays, Lasts, Doomed
  <1>3. delivering = FALSE \/ ~(delivering \in BOOLEAN)
    OBVIOUS
  <1>4. Watches(o) => Watch(parent, attribute[Name(o)], Name(o), Watched(o), observers[o], FALSE)
    BY DEF Watches, Watch, Gone
  <1> QED
    BY <1>1, <1>2, <1>4

LEMMA KeptSuffices ==
  ASSUME Kept(parent', attribute', observers'), ~delivering'
  PROVE  WInv'
  <1>1. ASSUME NEW o \in DOMAIN observers'
        PROVE  Hearing(o)' /\ (Lasts(o)' => Watches(o)')
    <2>1. /\ observers'[o].transient = RemovedIn(observers'[o].queue)
          /\ Stays(parent', observers', o) =>
               Watch(parent', attribute'[Name(o)], Name(o), Watched(o), observers'[o], FALSE)
      BY DEF Kept
    <2>2. Hearing(o)'
      BY <2>1, NothingRemoved DEF Hearing
    <2>3. Lasts(o)' => Stays(parent', observers', o)
      BY DEF Stays, Lasts, Doomed
    <2>4. Watch(parent', attribute'[Name(o)], Name(o), Watched(o), observers'[o], FALSE) => Watches(o)'
      BY DEF Watches, Watch, Gone
    <2> QED
      BY <2>1, <2>2, <2>3, <2>4
  <1> QED
    BY <1>1 DEF WInv

LEMMA DetachWInv ==
  ASSUME Shape, IInv, WInv, NEW e \in Element, Detach(e)
  PROVE  WInv'
  <1>1. /\ parent \in Trees /\ Acyclic(parent) /\ parent[e] # None /\ ~delivering /\ ~delivering'
        /\ parent' = [parent EXCEPT ![e] = None] /\ attribute' = attribute
        /\ observers' = Notified(parent, observers, parent[e], "removed", e)
    BY TypesOf DEF Shape, DomOK, Detach, Detached
  <1>2. CASE Started
    <2>1. Held(observers) /\ Kept(parent, attribute, observers)
      BY <1>1, <1>2, HeldIs, KeptIs
    <2>2. Kept([parent EXCEPT ![e] = None], attribute, observers')
      BY <1>1, <2>1, DetachKept
    <2> QED
      BY <1>1, <2>2, KeptSuffices
  <1>3. CASE ~Started
    <2>1. DOMAIN observers' = {}
      BY <1>1, <1>3, NobodyBefore, NotifiedDomain
    <2> QED
      BY <1>1, <2>1 DEF WInv
  <1> QED
    BY <1>2, <1>3

LEMMA SetAttributeWInv ==
  ASSUME Shape, IInv, WInv, NEW name \in Attributes, NEW e \in Element, NEW value,
         SetAttribute(name, e, value)
  PROVE  WInv'
  <1>1. /\ parent \in Trees /\ ~delivering /\ ~delivering'
        /\ parent' = parent /\ attribute' = [attribute EXCEPT ![name][e] = value]
        /\ observers' = Notified(parent, observers, e, name, e)
    BY TypesOf DEF Shape, DomOK, SetAttribute
  <1>2. \A n : Sets(name, e, n, attribute[n], attribute'[n])
    BY <1>1 DEF Sets, Shape, TypeOK
  <1>3. CASE Started
    <2>1. Held(observers) /\ Kept(parent, attribute, observers)
      BY <1>1, <1>3, HeldIs, KeptIs
    <2>2. Kept(parent, attribute', observers')
      BY <1>1, <1>2, <2>1, AttributeKept
    <2> QED
      BY <1>1, <2>2, KeptSuffices
  <1>4. CASE ~Started
    <2>1. DOMAIN observers' = {}
      BY <1>1, <1>4, NobodyBefore, NotifiedDomain
    <2> QED
      BY <1>1, <2>1 DEF WInv
  <1> QED
    BY <1>3, <1>4

(* An element that is inserted is first taken out of its place. *)
LEMMA InsertWInv ==
  ASSUME Shape, IInv, WInv, NEW e \in Element, NEW p \in Places[e], Insert(e, p)
  PROVE  WInv'
  <1> DEFINE out == [parent EXCEPT ![e] = None]
             obs == Detached(e)
  <1>1. /\ parent \in Trees /\ Acyclic(parent) /\ ~delivering /\ ~delivering'
        /\ parent' = [parent EXCEPT ![e] = p] /\ attribute' = attribute
        /\ observers' = Notified(out, obs, p, "added", e)
        /\ e \notin Above(parent, p) /\ p \in Node
    BY TypesOf, PlacesAssumption DEF Shape, DomOK, Insert, Around
  <1>2. /\ out \in Trees /\ Acyclic(out) /\ out[e] = None /\ e \notin Above(out, p)
        /\ parent' = [out EXCEPT ![e] = p]
    <2>1. Above(out, p) = Above(parent, p) /\ out \in Trees
      BY <1>1, MoveElsewhere
    <2>2. Acyclic(out)
      BY <1>1, MoveAcyclic
    <2>3. out[e] = None /\ parent' = [out EXCEPT ![e] = p]
      BY <1>1 DEF Trees
    <2> QED
      BY <1>1, <2>1, <2>2, <2>3
  <1>3. DOMAIN obs = DOMAIN observers /\ DOMAIN observers' = DOMAIN observers
    BY <1>1, DetachedDomain, NotifiedDomain
  <1>4. CASE Started
    <2>1. Held(observers) /\ Kept(parent, attribute, observers)
      BY <1>1, <1>4, HeldIs, KeptIs
    <2>2. Kept(out, attribute, obs)
      <3>1. CASE parent[e] = None
        <4>1. out = parent /\ obs = observers
          BY <1>1, <3>1 DEF Detached, Trees
        <4> QED
          BY <2>1, <4>1
      <3>2. CASE parent[e] # None
        <4>1. obs = Notified(parent, observers, parent[e], "removed", e)
          BY <3>2 DEF Detached
        <4> HIDE DEF obs
        <4> QED
          BY <1>1, <2>1, <3>2, <4>1, DetachKept
      <3> QED
        BY <3>1, <3>2
    <2>3. Held(obs)
      <3>1. /\ Observed(obs) /\ \A o \in DOMAIN observers : obs[o].seen = observers[o].seen
        BY DetachedCounted
      <3> HIDE DEF obs
      <3> QED
        BY <1>3, <2>1, <3>1 DEF Held
    <2> HIDE DEF out, obs
    <2>4. Kept([out EXCEPT ![e] = p], attribute, observers')
      BY <1>1, <1>2, <2>2, <2>3, AttachKept
    <2> QED
      BY <1>1, <1>2, <2>4, KeptSuffices
  <1>5. CASE ~Started
    <2>1. DOMAIN observers' = {}
      BY <1>3, <1>5, NobodyBefore
    <2> QED
      BY <1>1, <2>1 DEF WInv
  <1> QED
    BY <1>4, <1>5

(* Observers that have just been connected, others as they were. *)
LEMMA RenewedWInv ==
  ASSUME DomOK, WInv, UNCHANGED dom, ~delivering, ~delivering',
         \A o \in DOMAIN observers' :
           \/ observers'[o] = Fresh(o)
           \/ /\ o \in DOMAIN observers /\ observers'[o] = observers[o]
              /\ observers'[ScopeObserver] = observers[ScopeObserver]
  PROVE  WInv'
  <1>1. parent' = parent /\ attribute' = attribute
    BY DEF dom
  <1>2. ASSUME NEW o \in DOMAIN observers', observers'[o] = Fresh(o)
        PROVE  Hearing(o)' /\ Watches(o)'
    <2> DEFINE s == Fresh(o)
    <2>1. /\ Watch(parent, attribute[Name(o)], Name(o), Watched(o), s, FALSE)
          /\ s.queue = <<>> /\ s.transient = {}
      BY FreshWatch
    <2> HIDE DEF s
    <2>2. observers'[o] = s
      BY <1>2 DEF s
    <2>3. Hearing(o)'
      BY <2>1, <2>2, NothingRemoved DEF Hearing
    <2>4. Watches(o)'
      BY <1>1, <2>1, <2>2 DEF Watches, Watch, Gone
    <2> QED
      BY <2>3, <2>4
  <1>3. ASSUME NEW o \in DOMAIN observers', o \in DOMAIN observers, observers'[o] = observers[o],
               observers'[ScopeObserver] = observers[ScopeObserver]
        PROVE  Hearing(o)' /\ (Lasts(o)' => Watches(o)')
    <2>1. Hearing(o) /\ (Lasts(o) => Watches(o))
      BY <1>3 DEF WInv
    <2>2. Hearing(o)'
      BY <1>3, <2>1 DEF Hearing
    <2>3. Lasts(o)' => Lasts(o)
      BY <1>1, <1>3 DEF Lasts, Doomed
    <2>4. Watches(o) => Watches(o)'
      BY <1>1, <1>3 DEF Watches, Watch, Gone
    <2> QED
      BY <2>1, <2>2, <2>3, <2>4
  <1> QED
    BY <1>2, <1>3 DEF WInv

LEMMA StartWInv ==
  ASSUME Shape, IInv, WInv, Start
  PROVE  WInv'
  <1> DEFINE obs == [o \in {ScopeObserver} |-> Fresh(o)]
             new == Fresh(ScopeObserver).seen
  <1>1. DomOK /\ Observed(obs) /\ ~delivering /\ ~delivering' /\ UNCHANGED dom
    BY TypesOf, FreshSeen DEF Shape, Start
  <1>2. Rescope(<<>>, new, obs)
    BY DEF Start
  <1>3. \A o \in DOMAIN obs : obs[o] = Fresh(o)
    OBVIOUS
  <1> HIDE DEF obs, new
  <1>4. \A o \in DOMAIN observers' : observers'[o] = Fresh(o)
    BY <1>1, <1>2, <1>3, RescopeIs
  <1> QED
    BY <1>1, <1>4, RenewedWInv

LEMMA ReloadedWInv ==
  ASSUME Shape, IInv, WInv, NEW i, NEW loaded, observers' = Reloaded(i, loaded),
         UNCHANGED <<dom, delivering>>, ~delivering
  PROVE  WInv'
  <1>1. DomOK /\ Observed(observers)
    BY TypesOf DEF Shape
  <1>2. /\ \A o \in DOMAIN observers' : \/ observers'[o] = Fresh(o)
                                        \/ o \in DOMAIN observers /\ observers'[o] = observers[o]
        /\ ScopeObserver \in DOMAIN observers => observers'[ScopeObserver] = observers[ScopeObserver]
    BY <1>1, ReloadedIs
  <1>3. DOMAIN observers # {} => ScopeObserver \in DOMAIN observers
    BY NobodyBefore DEF Started
  <1> QED
    BY <1>1, <1>2, <1>3, RenewedWInv

LEMMA DeliverWInv ==
  ASSUME Shape, IInv, WInv, NEW o \in DOMAIN observers, Deliver(o)
  PROVE  WInv'
  <1> DEFINE S == ScopeObserver
             obs == [observers EXCEPT ![o] = Taken(o)]
  <1>1. /\ DomOK /\ Observed(observers) /\ Shape' /\ IInv'
        /\ delivering \in BOOLEAN /\ delivering' \in BOOLEAN
    BY TypesOf, DeliverShape, DeliverOK, DeliverIs DEF Shape, TypeOK
  <1>2. parent' = parent /\ attribute' = attribute
    BY DeliverIs DEF dom
  <1>3. observers[o].queue # <<>> /\ (o = S \/ observers[S].queue = <<>>)
    BY DeliverIs
  <1>4. /\ observers[o].seen \in Seen /\ Taken(o).seen \in Seen
        /\ Taken(o).seen = Processed(o, observers[o].seen, Head(observers[o].queue))
        /\ Taken(o).queue = Tail(observers[o].queue) /\ Taken(o).transient = {}
        /\ Observed(obs) /\ Head(observers[o].queue) \in Record
        /\ DOMAIN obs = DOMAIN observers /\ obs[o] = Taken(o)
        /\ \A x \in DOMAIN observers : x # o => obs[x] = observers[x]
    BY <1>1, <1>3, TakenIs
  <1>5. S \in DOMAIN observers /\ Started /\ observers[S] \in ObserverState
    BY <1>1, NobodyBefore DEF Started, Observed
  <1>6. /\ \A x \in DOMAIN observers' :
             observers'[x] = Fresh(x) \/ (x \in DOMAIN obs /\ observers'[x] = obs[x])
        /\ S \in DOMAIN observers' /\ observers'[S] = obs[S]
    <2>1. CASE o = S
      <3>1. Rescope(observers[o].seen, Taken(o).seen, obs)
        BY <2>1, DeliverIs
      <3> HIDE DEF obs
      <3> QED
        BY <1>1, <1>4, <1>5, <3>1, RescopeIs
    <2>2. CASE o # S
      BY <1>4, <1>5, <2>2, DeliverIs
    <2> QED
      BY <2>1, <2>2
  <1>7. ~delivering' => \A x \in DOMAIN observers' : observers'[x].queue = <<>>
    BY DeliverIs DEF Pending
  <1>8. Held(observers')
    <2>1. (Shape /\ IInv /\ Started => Held(observers))'
      BY HeldIs, PTL
    <2> QED
      BY <1>1, <1>6, <2>1 DEF Started
  <1>9. o \in DOMAIN observers' /\ observers'[o] = Taken(o)
    <2>1. o # S => observers' = obs
      BY DeliverIs
    <2> QED
      BY <1>4, <1>6, <2>1
  <1> HIDE DEF obs, S
  (* Whoever gets a record looks at what it is about. *)
  <1>10. ASSUME Watches(o)
        PROVE  Watch(parent, attribute[Name(o)], Name(o), Watched(o), Taken(o), delivering')
    <2>1. Watch(parent, attribute[Name(o)], Name(o), Watched(o), Taken(o), TRUE)
      <3> DEFINE s == observers[o]
                 t == Taken(o)
      <3>1. /\ s \in ObserverState /\ s.queue # <<>>
            /\ t.seen = Processed(o, s.seen, Head(s.queue)) /\ t.queue = Tail(s.queue)
            /\ Watch(parent, attribute[Name(o)], Name(o), Watched(o), s, delivering)
        BY <1>1, <1>3, <1>4, <1>10 DEF Watches, Observed
      <3> HIDE DEF s, t
      <3>2. Watch(parent, attribute[Name(o)], Name(o), Watched(o), t, TRUE)
        BY <1>1, <3>1, ProcessWatch
      <3> QED
        BY <3>2 DEF t
    <2>2. ~delivering' => Taken(o).queue = <<>>
      BY <1>7, <1>9
    <2> QED
      BY <1>1, <2>1, <2>2, WatchMidway
  <1>11. S = o => Watches(S)'
    <2>1. S = o => Watches(o)
      BY <1>5 DEF WInv, Lasts, S
    <2> QED
      BY <1>2, <1>9, <1>10, <2>1 DEF Watches
  <1>12. S # o => Watches(S)'
    <2>1. Watches(S)
      BY <1>5 DEF WInv, Lasts, S
    <2>2. S # o => observers'[S] = observers[S]
      BY <1>4, <1>5, <1>6
    <2>3. S # o => Watch(parent, attribute[Name(S)], Name(S), Watched(S), observers[S], delivering')
      <3>1. ~delivering' /\ S # o => observers[S].queue = <<>>
        BY <1>6, <1>7, <2>2
      <3> QED
        BY <1>1, <2>1, <3>1, WatchMidway DEF Watches
    <2> QED
      BY <1>2, <2>2, <2>3 DEF Watches
  (* No context is connected to an element without a controller, in the end. *)
  <1>13. ASSUME NEW c \in DOMAIN observers', c # S, attribute["controller"][c[1]] = None
         PROVE  delivering'
    <2> SUFFICES ASSUME ~delivering' PROVE FALSE
      OBVIOUS
    <2>1. Watches(S)'
      BY <1>11, <1>12
    <2>2. c[1] \in DOMAIN observers'[S].seen
      BY <1>8, <1>13 DEF Held, S
    <2>3. observers'[S].queue = <<>>
      BY <1>6, <1>7
    <2>4. DOMAIN observers'[S].queue = {}
      BY <2>3
    <2>5. Stale(attribute["controller"], "controller", observers'[S])
      BY <1>2, <2>1, ScopeObserverIs DEF Watches, Watch, S
    <2> QED
      BY <1>13, <2>2, <2>4, <2>5 DEF Stale
  <1>14. ASSUME NEW c \in DOMAIN observers', c # S, Doomed(c)
         PROVE  Doomed(c)'
    <2>1. CASE Removed(parent, observers[S].queue, c[1])
      <3>1. PICK k \in DOMAIN observers[S].queue : Removal(parent, observers[S].queue[k], c[1])
        BY <2>1 DEF Removed
      <3>2. observers[S].queue # <<>> /\ o = S
        BY <1>3, <3>1
      <3> DEFINE q == observers[S].queue
      <3>3. q \in Seq(Record) /\ observers'[S].queue = Tail(q) /\ q # <<>>
        BY <1>4, <1>5, <1>6, <3>2 DEF ObserverState
      <3>4. CASE k # 1
        <4>1. k - 1 \in DOMAIN Tail(q) /\ Tail(q)[k - 1] = q[k]
          BY <3>1, <3>3, <3>4, TailQueue
        <4> QED
          BY <1>2, <3>1, <3>3, <4>1 DEF Doomed, Removed, S
      <3>5. CASE k = 1
        <4> DEFINE r == Head(q)
        <4>1. r \in Record /\ Removal(parent, r, c[1])
          BY <3>1, <3>3, <3>5, TailQueue
        <4>2. c[1] \in Element /\ c[1] \in DOMAIN Taken(S).seen
          <5>1. observers'[S] = Taken(S)
            BY <1>9, <3>2
          <5>2. c[1] \in DOMAIN observers'[S].seen
            BY <1>8, <1>14 DEF Held, S
          <5>3. c[1] \in Element
            BY <1>8, <1>14, HeldWatched DEF S
          <5> QED
            BY <5>1, <5>2, <5>3
        <4>3. After(S, r, observers[S].seen, Taken(S).seen, c[1])
          <5>1. observers[S].seen \in Seen /\ Taken(S).seen = Processed(S, observers[S].seen, r)
            BY <1>4, <3>2
          <5> HIDE DEF r, q
          <5> QED
            BY <1>1, <4>1, <4>2, <5>1, ProcessedIs
        <4>4. ~HasAttribute("controller", c[1])
          BY <4>1, <4>2, <4>3, ScopeObserverIs DEF After, Removal, S
        <4>5. attribute["controller"][c[1]] = None
          BY <4>2, <4>4 DEF HasAttribute
        <4> QED
          BY <1>2, <1>13, <1>14, <4>5 DEF Doomed
      <3> QED
        BY <3>4, <3>5
    <2>2. CASE attribute["controller"][c[1]] = None
      BY <1>2, <1>13, <1>14, <2>2 DEF Doomed
    <2> QED
      BY <1>14, <2>1, <2>2 DEF Doomed, S
  <1>15. ASSUME NEW x \in DOMAIN observers', Lasts(x)', x \in DOMAIN observers
         PROVE  Watches(x)
    <2>1. Lasts(x)
      BY <1>14, <1>15 DEF Lasts, S
    <2> QED
      BY <1>15, <2>1 DEF WInv
  <1>16. ASSUME NEW x \in DOMAIN observers'
         PROVE  Hearing(x)' /\ (Lasts(x)' => Watches(x)')
    <2>1. CASE observers'[x] = Fresh(x)
      <3> DEFINE s == Fresh(x)
      <3>1. /\ Watch(parent, attribute[Name(x)], Name(x), Watched(x), s, FALSE)
            /\ s.queue = <<>> /\ s.transient = {}
        BY <1>1, FreshWatch
      <3> HIDE DEF s
      <3>2. observers'[x] = s
        BY <2>1 DEF s
      <3>3. Hearing(x)'
        BY <3>1, <3>2, NothingRemoved DEF Hearing
      <3>4. Watches(x)'
        BY <1>2, <3>1, <3>2 DEF Watches, Watch, Gone
      <3> QED
        BY <3>3, <3>4
    <2>2. CASE x = o
      <3>1. Hearing(x)'
        BY <1>4, <1>7, <1>9, <1>16, <2>2, NothingRemoved DEF Hearing
      <3>2. Lasts(x)' => Watches(x)'
        BY <1>2, <1>9, <1>10, <1>15, <1>16, <2>2 DEF Watches
      <3> QED
        BY <3>1, <3>2
    <2>3. CASE x # o /\ x \in DOMAIN observers /\ observers'[x] = observers[x]
      <3>1. Hearing(x)'
        <4>1. Hearing(x)
          BY <2>3 DEF WInv
        <4> QED
          BY <1>7, <1>16, <2>3, <4>1, NothingRemoved DEF Hearing
      <3>2. Lasts(x)' => Watches(x)'
        <4>1. Lasts(x)' => Watch(parent, attribute[Name(x)], Name(x), Watched(x),
                                 observers[x], delivering')
          <5>1. ~delivering' => observers[x].queue = <<>>
            BY <1>7, <1>16, <2>3
          <5> QED
            BY <1>1, <1>15, <1>16, <2>3, <5>1, WatchMidway DEF Watches
        <4> QED
          BY <1>2, <2>3, <4>1 DEF Watches
      <3> QED
        BY <3>1, <3>2
    <2> QED
      BY <1>4, <1>6, <2>1, <2>2, <2>3
  <1>17. delivering' => Pending(observers') # {}
    BY DeliverIs
  <1> QED
    BY <1>16, <1>17 DEF WInv

-----------------------------------------------------------------------------
LEMMA InitWInv == Init => WInv
  <1> SUFFICES ASSUME Init PROVE WInv
    OBVIOUS
  <1>1. DOMAIN observers = {} /\ delivering = FALSE
    BY DEF Init
  <1> QED
    BY <1>1 DEF WInv

LEMMA StepWInv == Shape /\ IInv /\ WInv /\ [Next]_vars => WInv'
  <1> SUFFICES ASSUME Shape, IInv, WInv, [Next]_vars PROVE WInv'
    OBVIOUS
  <1>1. ASSUME NEW i \in Identifier, Register(i)
        PROVE  WInv'
    BY <1>1, ReloadedWInv DEF Register
  <1>2. ASSUME NEW i \in Identifier, Unload(i)
        PROVE  WInv'
    BY <1>2, ReloadedWInv DEF Unload
  <1>3. ASSUME NEW e \in Element, NEW v, SetAttribute("controller", e, v)
        PROVE  WInv'
    BY <1>3, SetAttributeWInv DEF Attributes
  <1>4. ASSUME NEW e \in Element, NEW v, SetAttribute("action", e, v)
        PROVE  WInv'
    BY <1>4, SetAttributeWInv DEF Attributes
  <1>5. CASE UNCHANGED vars
    BY <1>5 DEF vars, WInv, Hearing, Lasts, Doomed, Watches, Pending
  <1> QED
    BY <1>1, <1>2, <1>3, <1>4, <1>5, InsertWInv, DetachWInv, StartWInv, DeliverWInv DEF Next

(* With nothing to hand over, everybody has seen what there is. *)
LEMMA SettledSeen ==
  ASSUME Shape, IInv, WInv, Settled, NEW o \in DOMAIN observers
  PROVE  observers[o].seen = Tokens(o, MatchesInTree(o, Watched(o)))
  <1>1. ~delivering /\ \A x \in DOMAIN observers : DOMAIN observers[x].queue = {}
    <2>1. \A x \in DOMAIN observers : observers[x].queue = <<>>
      BY DEF Settled, Pending
    <2>2. Pending(observers) = {}
      BY DEF Settled
    <2> QED
      BY <2>1, <2>2 DEF WInv
  <1>2. ScopeObserver \in DOMAIN observers
    BY DEF Settled, Started
  <1>3. Lasts(o)
    BY <1>1, <1>2 DEF Lasts, Doomed, Removed
  <1>4. Watches(o)
    BY <1>3 DEF WInv
  <1>5. observers[o].seen \in Seen
    BY TypesOf DEF Shape, Observed, ObserverState
  <1> DEFINE seen == observers[o].seen
             S == MatchesInTree(o, Watched(o))
  <1>6. /\ \A x \in DOMAIN seen : attribute[Name(o)][x] # None /\ attribute[Name(o)][x] = seen[x]
        /\ \A x \in DOMAIN seen : Around(parent, Watched(o), x)
        /\ \A x \in Element :
             Around(parent, Watched(o), x) /\ attribute[Name(o)][x] # None => x \in DOMAIN seen
    <2>1. DOMAIN observers[o].queue = {}
      BY <1>1
    <2>2. Stale(attribute[Name(o)], Name(o), observers[o])
      BY <1>4 DEF Watches, Watch
    <2>3. Gone(parent, attribute[Name(o)], Watched(o), observers[o], delivering)
      BY <1>4 DEF Watches, Watch
    <2>4. Missing(parent, attribute[Name(o)], Name(o), Watched(o), observers[o])
      BY <1>4 DEF Watches, Watch
    <2>5. \A x \in DOMAIN seen : attribute[Name(o)][x] # None /\ attribute[Name(o)][x] = seen[x]
      BY <2>1, <2>2 DEF Stale
    <2>6. \A x \in DOMAIN seen : Around(parent, Watched(o), x)
      BY <1>1, <2>1, <2>3 DEF Gone, Removed
    <2>7. \A x \in Element :
            Around(parent, Watched(o), x) /\ attribute[Name(o)][x] # None => x \in DOMAIN seen
      BY <2>1, <2>4 DEF Missing
    <2> QED
      BY <2>5, <2>6, <2>7
  <1>7. \A x : x \in S <=> /\ x \in Element /\ Around(parent, Watched(o), x)
                           /\ attribute[Name(o)][x] # None
    BY DEF MatchesInTree, HasAttribute
  <1>8. DOMAIN seen \subseteq Element /\ seen = [x \in DOMAIN seen |-> seen[x]]
    BY <1>5, SeenType
  <1> HIDE DEF seen, S
  <1>9. DOMAIN seen = S
    BY <1>6, <1>7, <1>8
  <1>10. \A x \in S : seen[x] = attribute[Name(o)][x]
    BY <1>6, <1>9
  <1> QED
    BY <1>8, <1>9, <1>10 DEF Tokens, seen, S

LEMMA OccurrencesPositive ==
  ASSUME NEW s \in Seq(Identifier), NEW i
  PROVE  Occurrences(s, i) > 0 <=> i \in Range(s)
  <1> DEFINE at == {k \in DOMAIN s : s[k] = i}
  <1>1. IsFiniteSet(at)
    <2>1. DOMAIN s = 1 .. Len(s) /\ Len(s) \in Nat
      OBVIOUS
    <2>2. IsFiniteSet(1 .. Len(s))
      BY <2>1, FS_Interval
    <2> QED
      BY <2>1, <2>2, FS_Subset
  <1>2. Cardinality(at) \in Nat /\ (Cardinality(at) = 0 <=> at = {})
    BY <1>1, FS_CardinalityType, FS_EmptySet
  <1>3. at # {} <=> i \in Range(s)
    BY DEF Range
  <1> QED
    BY <1>2, <1>3 DEF Occurrences

LEMMA SettledScopes ==
  ASSUME Shape, IInv, WInv, Settled
  PROVE  scopes = {s \in Scope : /\ Around(parent, Root, s[1])
                                 /\ HasAttribute("controller", s[1])
                                 /\ s[2] \in Range(attribute["controller"][s[1]])}
  <1> DEFINE seen == observers[ScopeObserver].seen
             S == MatchesInTree(ScopeObserver, Root)
  <1>1. Started /\ ScopeObserver \in DOMAIN observers
    BY DEF Settled, Started
  <1>2. seen = Tokens(ScopeObserver, S)
    BY <1>1, SettledSeen, ScopeObserverIs
  <1>3. seen \in Seen
    BY <1>1, TypesOf DEF Shape, Observed, ObserverState
  <1>4. \A x : x \in S <=> x \in Element /\ Around(parent, Root, x) /\ HasAttribute("controller", x)
    BY ScopeObserverIs DEF MatchesInTree
  <1>5. DOMAIN seen = S /\ \A x \in S : seen[x] = attribute["controller"][x]
    BY <1>2, ScopeObserverIs DEF Tokens
  <1>6. \A s \in Scope : s \in scopes <=> Occurrences(SeenOf(seen, s[1]), s[2]) > 0
    BY <1>1 DEF Shape, ReferencesCounted
  <1>7. scopes \subseteq Scope
    BY DEF IInv
  <1> HIDE DEF seen, S
  <1>8. ASSUME NEW s \in Scope
        PROVE  s \in scopes <=> /\ Around(parent, Root, s[1])
                                /\ HasAttribute("controller", s[1])
                                /\ s[2] \in Range(attribute["controller"][s[1]])
    <2>1. s[1] \in Element
      BY DEF Scope
    <2>2. CASE s[1] \in S
      <3>1. SeenOf(seen, s[1]) = attribute["controller"][s[1]]
        BY <1>5, <2>2 DEF SeenOf
      <3>2. SeenOf(seen, s[1]) \in Seq(Identifier)
        BY <1>3, SeenOfType
      <3> QED
        BY <1>4, <1>6, <2>1, <2>2, <3>1, <3>2, OccurrencesPositive
    <2>3. CASE s[1] \notin S
      <3>1. SeenOf(seen, s[1]) = <<>>
        BY <1>5, <2>3 DEF SeenOf
      <3>2. ~(Occurrences(SeenOf(seen, s[1]), s[2]) > 0)
        BY <3>1, NoOccurrences
      <3> QED
        BY <1>4, <1>6, <2>1, <2>3, <3>2
    <2> QED
      BY <2>2, <2>3
  <1> QED
    BY <1>7, <1>8

LEMMA Invariants == Spec => [](Shape /\ IInv /\ WInv)
  BY InitIInv, StepIInv, InitShape, StepShape, InitWInv, StepWInv, PTL DEF Spec

(***************************************************************************)
(* Whatever was moved, removed or renamed in between and in whatever       *)
(* order, the scopes are the controllers of the document once every        *)
(* record has been handed over.                                            *)
(***************************************************************************)
THEOREM ScopesFollow == Spec => []ScopesMatchDocument
  <1>1. Shape /\ IInv /\ WInv => ScopesMatchDocument
    BY SettledScopes DEF ScopesMatchDocument
  <1> QED
    BY <1>1, Invariants, PTL

(***************************************************************************)
(* And each context knows the actions inside its element, as they read.    *)
(***************************************************************************)
THEOREM BindingsFollow == Spec => []BindingsMatchDocument
  <1>1. Shape /\ IInv /\ WInv => BindingsMatchDocument
    BY SettledSeen DEF BindingsMatchDocument, Contexts, Watched
  <1> QED
    BY <1>1, Invariants, PTL

-----------------------------------------------------------------------------
(* Events and targets.                                                     *)

LEMMA AboveAntisymmetric ==
  ASSUME NEW tree \in Trees, Acyclic(tree), NEW a \in Node, NEW b \in Node,
         a \in Above(tree, b), b \in Above(tree, a)
  PROVE  a = b
  <1>1. SUFFICES ASSUME a # b PROVE FALSE
    OBVIOUS
  <1>2. b \in Element /\ tree[b] # None
    BY <1>1, AboveTop
  <1>3. tree[b] \in Node /\ Above(tree, b) = {b} \cup Above(tree, tree[b])
    BY <1>2, AboveParent
  <1>4. a \in Above(tree, tree[b])
    BY <1>1, <1>3
  <1>5. b \in Above(tree, tree[b])
    BY <1>3, <1>4, AboveNode
  <1> QED
    BY <1>2, <1>5 DEF Acyclic

(* An element with a controller of that name. *)
Controls(y, i) == /\ y \in Element /\ HasAttribute("controller", y)
                  /\ i \in Range(attribute["controller"][y])

LEMMA ClosestIs ==
  ASSUME NEW x, NEW i, NEW y
  PROVE  y \in Closest(x, i) <=>
           /\ y \in Above(parent, x) /\ Controls(y, i)
           /\ \A z \in Above(parent, x) : Controls(z, i) => z \in Above(parent, y)
  BY DEF Closest, Controls, Around

LEMMA ClosestUnique ==
  ASSUME DomOK, Acyclic(parent), NEW x \in Node, NEW i, NEW y \in Closest(x, i)
  PROVE  Closest(x, i) = {y}
  <1> SUFFICES ASSUME NEW z \in Closest(x, i) PROVE z = y
    OBVIOUS
  <1>1. y \in Above(parent, z) /\ z \in Above(parent, y)
    BY ClosestIs
  <1>2. y \in Node /\ z \in Node
    BY ClosestIs DEF Controls, Node
  <1> QED
    BY <1>1, <1>2, AboveAntisymmetric DEF DomOK

(* Nothing is closer to an element than itself. *)
LEMMA ClosestOwn ==
  ASSUME DomOK, NEW i, NEW x, Controls(x, i)
  PROVE  x \in Closest(x, i)
  <1>1. x \in Node
    BY DEF Controls, Node
  <1>2. x \in Above(parent, x)
    BY <1>1, AboveLeast DEF DomOK
  <1> QED
    BY <1>2, ClosestIs

LEMMA SettledContexts ==
  ASSUME Shape, IInv, WInv, Settled
  PROVE  /\ \A c \in Contexts : /\ c = <<c[1], c[2], modules[c[2]]>> /\ modules[c[2]] # 0
                                /\ Controls(c[1], c[2]) /\ Around(parent, Root, c[1])
         /\ \A e, i : (i \in Identifier /\ Controls(e, i) /\ Around(parent, Root, e) /\ modules[i] # 0) =>
                        <<e, i, modules[i]>> \in Contexts
  <1>1. Contexts = {<<s[1], s[2], modules[s[2]]>> : s \in {t \in scopes : modules[t[2]] # 0}}
    BY DEF IInv, ContextsOfScopes, ContextsFor
  <1>2. \A s \in Scope : s \in scopes <=> Around(parent, Root, s[1]) /\ Controls(s[1], s[2])
    <2>1. \A s \in Scope : s[1] \in Element
      BY DEF Scope
    <2> QED
      BY <2>1, SettledScopes DEF Controls
  <1>3. scopes \subseteq Scope
    BY DEF IInv
  <1>4. ASSUME NEW c \in Contexts
        PROVE  /\ c = <<c[1], c[2], modules[c[2]]>> /\ modules[c[2]] # 0
               /\ Controls(c[1], c[2]) /\ Around(parent, Root, c[1])
    <2>1. PICK s \in scopes : c = <<s[1], s[2], modules[s[2]]>> /\ modules[s[2]] # 0
      BY <1>1
    <2>2. c[1] = s[1] /\ c[2] = s[2]
      BY <2>1
    <2> QED
      BY <1>2, <1>3, <2>1, <2>2
  <1>5. ASSUME NEW e, NEW i \in Identifier, Controls(e, i), Around(parent, Root, e), modules[i] # 0
        PROVE  <<e, i, modules[i]>> \in Contexts
    <2> DEFINE s == <<e, i>>
    <2>1. s \in Scope /\ s[1] = e /\ s[2] = i
      BY <1>5 DEF Controls, Scope
    <2> HIDE DEF s
    <2>2. s \in scopes
      BY <1>2, <1>5, <2>1
    <2> QED
      BY <1>1, <1>5, <2>1, <2>2
  <1> QED
    BY <1>4, <1>5

LEMMA SettledTargets ==
  ASSUME Shape, IInv, WInv, Settled, NEW x \in Element, NEW i \in TargetFor[x]
  PROVE  {c \in Contexts : c[2] = i /\ x \in Targets(c)} = ContextOf(Closest(x, i), i)
  <1>1. DomOK /\ Acyclic(parent) /\ x \in Node /\ i \in Identifier
    BY TypesOf, TargetAssumption DEF Shape, Node
  <1>2. \A c : c \in ContextOf(Closest(x, i), i) <=>
                 /\ modules[i] # 0
                 /\ \E e \in Closest(x, i) : Around(parent, Root, e) /\ c = <<e, i, modules[i]>>
    BY DEF ContextOf
  <1>3. ASSUME NEW c \in Contexts, c[2] = i, x \in Targets(c)
        PROVE  c \in ContextOf(Closest(x, i), i)
    <2>1. /\ c = <<c[1], i, modules[i]>> /\ modules[i] # 0
          /\ Controls(c[1], i) /\ Around(parent, Root, c[1])
      BY <1>3, SettledContexts
    <2>2. x = c[1] \/ Closest(x, i) = {c[1]}
      BY <1>3 DEF Targets, ContainsElement
    <2>3. c[1] \in Closest(x, i)
      BY <1>1, <2>1, <2>2, ClosestOwn
    <2> QED
      BY <1>2, <2>1, <2>3
  <1>4. ASSUME NEW c \in ContextOf(Closest(x, i), i)
        PROVE  c \in Contexts /\ c[2] = i /\ x \in Targets(c)
    <2>1. PICK e \in Closest(x, i) : Around(parent, Root, e) /\ c = <<e, i, modules[i]>>
      BY <1>2
    <2>2. modules[i] # 0 /\ c[1] = e /\ c[2] = i
      BY <1>2, <2>1
    <2>3. e \in Above(parent, x) /\ Controls(e, i)
      BY ClosestIs
    <2>4. c \in Contexts
      BY <1>1, <2>1, <2>2, <2>3, SettledContexts
    <2>5. Closest(x, i) = {e}
      BY <1>1, ClosestUnique
    <2> QED
      BY <2>2, <2>3, <2>4, <2>5 DEF Targets, ContainsElement, Around
  <1> QED
    BY <1>3, <1>4

LEMMA SettledClicks ==
  ASSUME Shape, IInv, WInv, Settled, NEW target \in Element,
         NEW a \in Above(parent, target) \cap Element, HasAttribute("action", a)
  PROVE  LET tokens == attribute["action"][a]
         IN Invoked(target, a) =
              UNION {{[context |-> c, action |-> a, index |-> k] :
                        c \in ContextOf({x \in Closest(target, tokens[k]) : Around(parent, x, a)},
                                       tokens[k])} : k \in DOMAIN tokens}
  <1> DEFINE tokens == attribute["action"][a]
             chosen(k) == ContextOf({x \in Closest(target, tokens[k]) : Around(parent, x, a)}, tokens[k])
             binding(c, k) == [context |-> c, action |-> a, index |-> k]
  <1>1. /\ DomOK /\ Acyclic(parent) /\ target \in Node /\ a \in Node
        /\ tokens \in Seq(Identifier) /\ \A k \in DOMAIN tokens : tokens[k] \in Identifier
    <2>1. attribute["action"][a] \in Seq(Identifier)
      BY DEF Shape, TypeOK, HasAttribute, Attributes
    <2> QED
      BY <2>1, TypesOf DEF Shape, Node
  (* The bindings of a, in each context. *)
  <1>2. ASSUME NEW c \in Contexts
        PROVE  /\ a \in DOMAIN observers[c].seen <=> c[1] \in Above(parent, a)
               /\ a \in DOMAIN observers[c].seen => observers[c].seen[a] = tokens
    <2>1. c \in DOMAIN observers /\ c # ScopeObserver
      BY DEF Contexts
    <2>2. observers[c].seen = Tokens(c, MatchesInTree(c, Watched(c)))
      BY <2>1, SettledSeen
    <2>3. Name(c) = "action" /\ Watched(c) = c[1]
      BY <2>1 DEF Name, Watched
    <2> QED
      BY <2>2, <2>3 DEF Tokens, MatchesInTree, Around
  <1>3. \A b : b \in EventListener(a) <=>
                 \E c \in Contexts : \E k \in DOMAIN tokens :
                   /\ c[1] \in Above(parent, a) /\ tokens[k] = c[2] /\ b = binding(c, k)
    <2>1. ASSUME NEW c, NEW b
          PROVE  b \in Bindings(c) <=>
                   \E y \in DOMAIN observers[c].seen : \E k \in DOMAIN observers[c].seen[y] :
                     /\ observers[c].seen[y][k] = c[2]
                     /\ b = [context |-> c, action |-> y, index |-> k]
      BY DEF Bindings
    <2>2. ASSUME NEW b
          PROVE  b \in EventListener(a) <=> b.action = a /\ \E c \in Contexts : b \in Bindings(c)
      BY DEF EventListener
    <2>3. ASSUME NEW c \in Contexts, NEW b
          PROVE  (b.action = a /\ b \in Bindings(c)) <=>
                   \E k \in DOMAIN tokens :
                     /\ c[1] \in Above(parent, a) /\ tokens[k] = c[2] /\ b = binding(c, k)
      <3>1. ASSUME b.action = a, b \in Bindings(c)
            PROVE  \E k \in DOMAIN tokens :
                     /\ c[1] \in Above(parent, a) /\ tokens[k] = c[2] /\ b = binding(c, k)
        <4>1. PICK y \in DOMAIN observers[c].seen :
                \E k \in DOMAIN observers[c].seen[y] :
                  /\ observers[c].seen[y][k] = c[2]
                  /\ b = [context |-> c, action |-> y, index |-> k]
          BY <2>1, <3>1
        <4>2. y = a
          BY <3>1, <4>1
        <4> QED
          BY <1>2, <4>1, <4>2
      <3>2. ASSUME NEW k \in DOMAIN tokens, c[1] \in Above(parent, a), tokens[k] = c[2], b = binding(c, k)
            PROVE  b.action = a /\ b \in Bindings(c)
        <4>1. a \in DOMAIN observers[c].seen /\ observers[c].seen[a] = tokens
          BY <1>2, <3>2
        <4> QED
          BY <2>1, <3>2, <4>1
      <3> QED
        BY <3>1, <3>2
    <2> HIDE DEF tokens, binding
    <2> QED
      BY <2>2, <2>3
  <1>4. ASSUME NEW c \in Contexts, NEW k \in DOMAIN tokens, c[1] \in Above(parent, a), tokens[k] = c[2]
        PROVE  WillBeInvoked(binding(c, k), target) <=> c[1] = target \/ Closest(target, c[2]) = {c[1]}
    <2>1. c[1] \in Above(parent, target)
      BY <1>1, <1>4, AboveNode DEF DomOK
    <2>2. binding(c, k).context = c /\ binding(c, k).action = a
      OBVIOUS
    <2> HIDE DEF binding
    <2> QED
      BY <2>1, <2>2 DEF WillBeInvoked, ContainsElement, Around
  <1>5. ASSUME NEW k \in DOMAIN tokens, NEW c
        PROVE  c \in chosen(k) <=>
                 /\ modules[tokens[k]] # 0
                 /\ \E e \in Closest(target, tokens[k]) :
                      /\ Around(parent, e, a) /\ Around(parent, Root, e)
                      /\ c = <<e, tokens[k], modules[tokens[k]]>>
    BY DEF ContextOf
  <1> HIDE DEF tokens, chosen, binding
  <1>6. ASSUME NEW c \in Contexts, NEW k \in DOMAIN tokens, c[1] \in Above(parent, a), tokens[k] = c[2],
               WillBeInvoked(binding(c, k), target)
        PROVE  c \in chosen(k)
    <2>1. /\ c = <<c[1], c[2], modules[c[2]]>> /\ modules[c[2]] # 0
          /\ Controls(c[1], c[2]) /\ Around(parent, Root, c[1])
      BY SettledContexts
    <2>2. c[1] = target \/ Closest(target, c[2]) = {c[1]}
      BY <1>4, <1>6
    <2>3. c[1] \in Closest(target, c[2])
      BY <1>1, <2>1, <2>2, ClosestOwn
    <2> QED
      BY <1>5, <1>6, <2>1, <2>3 DEF Around
  <1>7. ASSUME NEW k \in DOMAIN tokens, NEW c \in chosen(k)
        PROVE  /\ c \in Contexts /\ c[1] \in Above(parent, a) /\ tokens[k] = c[2]
               /\ WillBeInvoked(binding(c, k), target)
    <2>1. PICK e \in Closest(target, tokens[k]) :
            /\ Around(parent, e, a) /\ Around(parent, Root, e)
            /\ c = <<e, tokens[k], modules[tokens[k]]>>
      BY <1>5
    <2>2. modules[tokens[k]] # 0 /\ c[1] = e /\ c[2] = tokens[k]
      BY <1>5, <2>1
    <2>3. Controls(e, tokens[k]) /\ tokens[k] \in Identifier
      BY <1>1, ClosestIs
    <2>4. c \in Contexts
      BY <2>1, <2>2, <2>3, SettledContexts
    <2>5. Closest(target, tokens[k]) = {e}
      BY <1>1, ClosestUnique
    <2> QED
      BY <1>4, <2>1, <2>2, <2>4, <2>5 DEF Around
  <1>8. \A b : b \in Invoked(target, a) <=>
                 \E k \in DOMAIN tokens : \E c \in chosen(k) : b = binding(c, k)
    <2>1. \A b : b \in Invoked(target, a) <=> b \in EventListener(a) /\ WillBeInvoked(b, target)
      BY DEF Invoked
    <2>2. ASSUME NEW b \in Invoked(target, a)
          PROVE  \E k \in DOMAIN tokens : \E c \in chosen(k) : b = binding(c, k)
      BY <1>3, <1>6, <2>1
    <2>3. ASSUME NEW k \in DOMAIN tokens, NEW c \in chosen(k)
          PROVE  binding(c, k) \in Invoked(target, a)
      BY <1>3, <1>7, <2>1
    <2> QED
      BY <2>2, <2>3
  <1>9. Invoked(target, a) = UNION {{binding(c, k) : c \in chosen(k)} : k \in DOMAIN tokens}
    BY <1>8
  <1> QED
    BY <1>9 DEF tokens, chosen, binding

(***************************************************************************)
(* Each target is found by the closest controller of its name, and by no   *)
(* other, however the controllers of that name are nested.                 *)
(***************************************************************************)
THEOREM TargetsFound == Spec => []TargetsFoundOnce
  <1>1. Shape /\ IInv /\ WInv => TargetsFoundOnce
    BY SettledTargets DEF TargetsFoundOnce
  <1> QED
    BY <1>1, Invariants, PTL

(***************************************************************************)
(* Each action is handled once, by the closest controller of its name      *)
(* around the element that the event came from.                            *)
(***************************************************************************)
THEOREM ClicksReach == Spec => []ClickReachesClosest
  <1>1. Shape /\ IInv /\ WInv => ClickReachesClosest
    BY SettledClicks DEF ClickReachesClosest
  <1> QED
    BY <1>1, Invariants, PTL
=============================================================================
