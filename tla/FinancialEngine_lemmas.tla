------------------------ MODULE FinancialEngine_lemmas ------------------------
(***************************************************************************)
(* What the proofs about the Financial Engine need of sums of amounts and  *)
(* of the calendar: that a sum does not depend on the order in which it is *)
(* made, what an element adds to it, and in which order the days come.     *)
(* Induction is by a least counterexample, in the order of the numbers or  *)
(* of the subsets of a finite set.                                         *)
(***************************************************************************)
EXTENDS FinancialEngine, FiniteSetTheorems, SequenceTheorems, WellFoundedInduction, TLAPS

LEMMA LeastNumber ==
    ASSUME NEW T \in SUBSET Nat, T # {}
    PROVE  \E n \in T : \A m \in T : n <= m
<1>1. PICK x \in T : \A y \in T : <<y, x>> \notin OpToRel(<, Nat)
  BY NatLessThanWellFounded, WFMin
<1>2. \A y \in T : ~(y < x)
  BY <1>1 DEF OpToRel
<1> QED
  BY <1>2

LEMMA LeastSubset ==
    ASSUME NEW S, IsFiniteSet(S), NEW T \in SUBSET SUBSET S, T # {}
    PROVE  \E s \in T : \A t \in T : ~(t \subseteq s /\ t # s)
<1>1. T \subseteq FiniteSubsetsOf(S)
  BY FS_Subset DEF FiniteSubsetsOf
<1>2. IsWellFoundedOn(StrictSubsetOrdering(S), FiniteSubsetsOf(S))
  BY FS_StrictSubsetOrderingWellFounded
<1>3. PICK x \in T : \A y \in T : <<y, x>> \notin StrictSubsetOrdering(S)
  BY <1>1, <1>2, WFMin
<1> QED
  BY <1>3 DEF StrictSubsetOrdering

-----------------------------------------------------------------------------
(* Sums over a finite set *)

Total(v, S) == MapThenSumSet(LAMBDA i : v[i], S)

\* The element a sum begins with.
AnyOf(s) == CHOOSE x \in s : TRUE

Recurs(v, S, iter) ==
    iter = [s \in SUBSET S |->
              IF s = {} THEN 0 ELSE v[AnyOf(s)] + iter[s \ {AnyOf(s)}]]

LEMMA AnyOfIn == ASSUME NEW s, s # {} PROVE AnyOf(s) \in s
BY DEF AnyOf

\* The sum of a subset is the same within every set that holds it.
LEMMA RecursUnique ==
    ASSUME NEW S, IsFiniteSet(S), NEW A \in SUBSET S, NEW v, NEW f, NEW g,
           Recurs(v, S, f), Recurs(v, A, g)
    PROVE  \A s \in SUBSET A : f[s] = g[s]
<1> DEFINE Bad == {s \in SUBSET A : f[s] # g[s]}
<1> SUFFICES ASSUME Bad # {} PROVE FALSE
  OBVIOUS
<1>1. IsFiniteSet(A) /\ Bad \in SUBSET SUBSET A
  BY FS_Subset
<1>2. PICK s \in Bad : \A t \in Bad : ~(t \subseteq s /\ t # s)
  <2> HIDE DEF Bad
  <2> QED
    BY <1>1, LeastSubset
<1>3. s \in SUBSET A /\ s \in SUBSET S /\ f[s] # g[s]
  OBVIOUS
<1>4. CASE s = {}
  <2>1. f[s] = 0 /\ g[s] = 0
    BY <1>3, <1>4 DEF Recurs
  <2> QED
    BY <1>3, <2>1
<1>5. CASE s # {}
  <2>1. PICK x \in s : x = AnyOf(s)
    BY <1>5, AnyOfIn
  <2>2. s \ {x} \in SUBSET A /\ s \ {x} \subseteq s /\ s \ {x} # s
    BY <1>3
  <2>3. f[s \ {x}] = g[s \ {x}]
    BY <1>2, <2>2
  <2>4. f[s] = v[x] + f[s \ {x}]
    BY <1>3, <1>5, <2>1 DEF Recurs
  <2>5. g[s] = v[x] + g[s \ {x}]
    BY <1>3, <1>5, <2>1 DEF Recurs
  <2> QED
    BY <1>3, <2>3, <2>4, <2>5
<1> QED
  BY <1>4, <1>5

LEMMA RecursExists ==
    ASSUME NEW S, IsFiniteSet(S), NEW v
    PROVE  \E iter : Recurs(v, S, iter)
<1> DEFINE Bad == {A \in SUBSET S : ~ \E iter : Recurs(v, A, iter)}
<1> SUFFICES ASSUME Bad # {} PROVE FALSE
  OBVIOUS
<1>1. PICK A \in Bad : \A t \in Bad : ~(t \subseteq A /\ t # A)
  <2>1. Bad \in SUBSET SUBSET S
    OBVIOUS
  <2> HIDE DEF Bad
  <2> QED
    BY <2>1, LeastSubset
<1> DEFINE It(B) == CHOOSE iter : Recurs(v, B, iter)
           g == [s \in SUBSET A |->
                   IF s = {} THEN 0
                   ELSE v[AnyOf(s)] + It(s \ {AnyOf(s)})[s \ {AnyOf(s)}]]
<1>2. A \in SUBSET S /\ ~ \E iter : Recurs(v, A, iter)
  OBVIOUS
<1>3. ASSUME NEW B \in SUBSET A, B # A
      PROVE  Recurs(v, B, It(B))
  <2>1. B \in SUBSET S /\ B \notin Bad
    BY <1>1, <1>2, <1>3
  <2>2. \E iter : Recurs(v, B, iter)
    BY <2>1
  <2> QED
    BY <2>2
<1>4. ASSUME NEW t \in SUBSET A, t # A
      PROVE  g[t] = It(t)[t]
  <2>1. Recurs(v, t, It(t))
    BY <1>3, <1>4
  <2>2. CASE t = {}
    BY <2>1, <2>2 DEF Recurs
  <2>3. CASE t # {}
    <3>1. PICK x \in t : x = AnyOf(t)
      BY <2>3, AnyOfIn
    <3>2. t \ {x} \in SUBSET A /\ t \ {x} # A /\ t \ {x} \in SUBSET t
      BY <1>4
    <3>3. Recurs(v, t \ {x}, It(t \ {x}))
      BY <1>3, <3>2
    <3>4. IsFiniteSet(t)
      BY <1>2, FS_Subset
    <3>5. It(t)[t \ {x}] = It(t \ {x})[t \ {x}]
      BY <2>1, <3>2, <3>3, <3>4, RecursUnique
    <3>6. It(t)[t] = v[x] + It(t)[t \ {x}]
      BY <2>1, <2>3, <3>1 DEF Recurs
    <3>7. g[t] = v[x] + It(t \ {x})[t \ {x}]
      BY <2>3, <3>1
    <3> QED
      BY <3>5, <3>6, <3>7
  <2> QED
    BY <2>2, <2>3
<1>5. ASSUME NEW s \in SUBSET A
      PROVE  g[s] = IF s = {} THEN 0 ELSE v[AnyOf(s)] + g[s \ {AnyOf(s)}]
  <2>1. CASE s = {}
    BY <2>1
  <2>2. CASE s # {}
    <3>1. PICK x \in s : x = AnyOf(s)
      BY <2>2, AnyOfIn
    <3>2. s \ {x} \in SUBSET A /\ s \ {x} # A
      OBVIOUS
    <3>3. g[s \ {x}] = It(s \ {x})[s \ {x}]
      BY <1>4, <3>2
    <3>4. g[s] = v[x] + It(s \ {x})[s \ {x}]
      BY <2>2, <3>1
    <3> QED
      BY <2>2, <3>1, <3>3, <3>4
  <2> QED
    BY <2>1, <2>2
<1>6. g = [s \in DOMAIN g |-> g[s]] /\ DOMAIN g = SUBSET A
  OBVIOUS
<1> HIDE DEF g
<1>7. Recurs(v, A, g)
  BY <1>5, <1>6 DEF Recurs
<1> QED
  BY <1>2, <1>7

LEMMA TotalDef ==
    ASSUME NEW S, NEW v
    PROVE  Total(v, S) = (CHOOSE iter : Recurs(v, S, iter))[S]
BY DEF Total, MapThenSumSet, MapThenFoldSet, Recurs, AnyOf

LEMMA TotalRecurs ==
    ASSUME NEW S, IsFiniteSet(S), NEW v
    PROVE  \E iter : Recurs(v, S, iter) /\ \A s \in SUBSET S : iter[s] = Total(v, s)
<1> DEFINE It(B) == CHOOSE iter : Recurs(v, B, iter)
<1>1. ASSUME NEW B \in SUBSET S
      PROVE  Recurs(v, B, It(B)) /\ Total(v, B) = It(B)[B]
  <2>1. IsFiniteSet(B)
    BY FS_Subset
  <2>2. \E iter : Recurs(v, B, iter)
    BY <2>1, RecursExists
  <2> QED
    BY <2>2, TotalDef
<1>2. ASSUME NEW B \in SUBSET S
      PROVE  It(S)[B] = Total(v, B)
  <2>1. Recurs(v, S, It(S)) /\ Recurs(v, B, It(B)) /\ Total(v, B) = It(B)[B]
    BY <1>1
  <2> HIDE DEF It
  <2> QED
    BY <2>1, RecursUnique
<1>3. Recurs(v, S, It(S))
  BY <1>1
<1> HIDE DEF It
<1> QED
  BY <1>2, <1>3

LEMMA TotalUnfold ==
    ASSUME NEW S, IsFiniteSet(S), NEW v
    PROVE  Total(v, S) = IF S = {} THEN 0 ELSE v[AnyOf(S)] + Total(v, S \ {AnyOf(S)})
<1>1. PICK iter : Recurs(v, S, iter) /\ \A s \in SUBSET S : iter[s] = Total(v, s)
  BY TotalRecurs
<1>2. S \in SUBSET S /\ S \ {AnyOf(S)} \in SUBSET S
  OBVIOUS
<1>3. iter[S] = IF S = {} THEN 0 ELSE v[AnyOf(S)] + iter[S \ {AnyOf(S)}]
  BY <1>1, <1>2 DEF Recurs
<1> QED
  BY <1>1, <1>2, <1>3

LEMMA TotalEmpty == ASSUME NEW v PROVE Total(v, {}) = 0
BY TotalUnfold, FS_EmptySet

LEMMA TotalType ==
    ASSUME NEW S, IsFiniteSet(S), NEW v, \A x \in S : v[x] \in Int
    PROVE  Total(v, S) \in Int
<1> DEFINE Bad == {A \in SUBSET S : Total(v, A) \notin Int}
<1> SUFFICES ASSUME Bad # {} PROVE FALSE
  OBVIOUS
<1>1. Bad \in SUBSET SUBSET S
  OBVIOUS
<1>2. PICK A \in Bad : \A t \in Bad : ~(t \subseteq A /\ t # A)
  <2> HIDE DEF Bad
  <2> QED
    BY <1>1, LeastSubset
<1>3. A \in SUBSET S /\ Total(v, A) \notin Int
  OBVIOUS
<1>4. IsFiniteSet(A)
  BY <1>3, FS_Subset
<1>5. A # {}
  BY <1>3, TotalEmpty
<1>6. PICK x \in A : x = AnyOf(A)
  BY <1>5, AnyOfIn
<1>7. Total(v, A) = v[x] + Total(v, A \ {x})
  BY <1>4, <1>5, <1>6, TotalUnfold
<1>8. Total(v, A \ {x}) \in Int
  BY <1>2, <1>3
<1> QED
  BY <1>3, <1>7, <1>8

\* A sum may begin with any of its elements.
LEMMA TotalRemove ==
    ASSUME NEW S, IsFiniteSet(S), NEW v, \A x \in S : v[x] \in Int
    PROVE  \A y \in S : Total(v, S) = v[y] + Total(v, S \ {y})
<1> DEFINE Any(A) == \A z \in A : Total(v, A) = v[z] + Total(v, A \ {z})
           Bad == {A \in SUBSET S : ~Any(A)}
<1> SUFFICES ASSUME Bad # {} PROVE FALSE
  OBVIOUS
<1>1. Bad \in SUBSET SUBSET S
  OBVIOUS
<1>2. PICK A \in Bad : \A t \in Bad : ~(t \subseteq A /\ t # A)
  <2> HIDE DEF Bad
  <2> QED
    BY <1>1, LeastSubset
<1>3. A \in SUBSET S /\ ~Any(A)
  OBVIOUS
<1>4. ASSUME NEW t \in SUBSET A, t # A PROVE Any(t)
  BY <1>2, <1>3, <1>4
<1>5. PICK y \in A : Total(v, A) # v[y] + Total(v, A \ {y})
  BY <1>3
<1>6. IsFiniteSet(A) /\ IsFiniteSet(A \ {y})
  BY <1>3, FS_Subset
<1>7. PICK x \in A : x = AnyOf(A)
  BY <1>5, AnyOfIn
<1>8. Total(v, A) = v[x] + Total(v, A \ {x})
  BY <1>5, <1>6, <1>7, TotalUnfold
<1>9. x # y
  BY <1>5, <1>8
<1>10. Total(v, A \ {x}) = v[y] + Total(v, (A \ {x}) \ {y})
  <2>1. Any(A \ {x}) /\ y \in A \ {x}
    BY <1>4, <1>9
  <2> QED
    BY <2>1
<1>11. Total(v, A \ {y}) = v[x] + Total(v, (A \ {y}) \ {x})
  <2>1. Any(A \ {y}) /\ x \in A \ {y}
    BY <1>4, <1>9
  <2> QED
    BY <2>1
<1>12. (A \ {y}) \ {x} = (A \ {x}) \ {y}
  OBVIOUS
<1>13. PICK t \in Int : t = Total(v, (A \ {x}) \ {y})
  <2>1. IsFiniteSet((A \ {x}) \ {y})
    BY <1>3, FS_Subset
  <2> QED
    BY <1>3, <2>1, TotalType
<1>14. v[x] \in Int /\ v[y] \in Int
  BY <1>3
<1>15. Total(v, A \ {x}) = v[y] + t /\ Total(v, A \ {y}) = v[x] + t
  BY <1>10, <1>11, <1>12, <1>13
<1> HIDE DEF Bad, Any
<1> QED
  BY <1>5, <1>8, <1>13, <1>14, <1>15

LEMMA TotalAdd ==
    ASSUME NEW S, IsFiniteSet(S), NEW v, NEW y, y \notin S,
           \A x \in S \cup {y} : v[x] \in Int
    PROVE  Total(v, S \cup {y}) = v[y] + Total(v, S)
<1>1. IsFiniteSet(S \cup {y}) /\ y \in S \cup {y} /\ (S \cup {y}) \ {y} = S
  BY FS_AddElement
<1> QED
  BY <1>1, TotalRemove

LEMMA TotalSingle ==
    ASSUME NEW v, NEW y, v[y] \in Int
    PROVE  Total(v, {y}) = v[y]
<1>1. Total(v, {} \cup {y}) = v[y] + Total(v, {})
  BY TotalAdd, FS_EmptySet
<1>2. {} \cup {y} = {y}
  OBVIOUS
<1> QED
  BY <1>1, <1>2, TotalEmpty

\* Two sums of the same numbers, whatever they are taken from.
LEMMA TotalSame ==
    ASSUME NEW S, IsFiniteSet(S), NEW T, NEW v, NEW w, NEW f,
           \A x, y \in S : f[x] = f[y] => x = y,
           \A x \in S : f[x] \in T,
           \A y \in T : \E x \in S : f[x] = y,
           \A x \in S : w[x] \in Int /\ w[x] = v[f[x]]
    PROVE  Total(w, S) = Total(v, T)
<1> DEFINE Image(A) == {f[x] : x \in A}
           Bad == {A \in SUBSET S : Total(w, A) # Total(v, Image(A))}
<1> SUFFICES ASSUME Bad # {} PROVE FALSE
  <2>1. T = Image(S)
    OBVIOUS
  <2> HIDE DEF Image
  <2> QED
    BY <2>1
<1>1. Bad \in SUBSET SUBSET S
  OBVIOUS
<1>2. PICK A \in Bad : \A t \in Bad : ~(t \subseteq A /\ t # A)
  <2> HIDE DEF Bad
  <2> QED
    BY <1>1, LeastSubset
<1>3. A \in SUBSET S /\ Total(w, A) # Total(v, Image(A))
  OBVIOUS
<1>4. A # {}
  <2>1. Image({}) = {}
    OBVIOUS
  <2> QED
    BY <1>3, <2>1, TotalEmpty
<1>5. PICK x \in A : TRUE
  BY <1>4
<1>6. IsFiniteSet(A) /\ IsFiniteSet(A \ {x})
  BY <1>3, FS_Subset
<1>7. Total(w, A) = w[x] + Total(w, A \ {x})
  BY <1>3, <1>6, TotalRemove
<1>8. Total(w, A \ {x}) = Total(v, Image(A \ {x}))
  BY <1>2, <1>3
<1>9. IsFiniteSet(Image(A \ {x}))
  <2>1. PICK g : g = [y \in A \ {x} |-> f[y]]
    OBVIOUS
  <2>2. g \in Surjection(A \ {x}, Image(A \ {x}))
    BY <2>1 DEF Surjection
  <2> QED
    BY <1>6, <2>2, FS_Surjection
<1>10. f[x] \notin Image(A \ {x}) /\ Image(A \ {x}) \cup {f[x]} = Image(A)
  BY <1>3
<1>11. \A y \in Image(A \ {x}) \cup {f[x]} : v[y] \in Int
  BY <1>3
<1> HIDE DEF Image
<1>12. Total(v, Image(A \ {x}) \cup {f[x]}) = v[f[x]] + Total(v, Image(A \ {x}))
  BY <1>9, <1>10, <1>11, TotalAdd
<1>13. w[x] = v[f[x]]
  BY <1>3
<1> QED
  BY <1>3, <1>7, <1>8, <1>10, <1>12, <1>13

LEMMA TotalEqual ==
    ASSUME NEW S, IsFiniteSet(S), NEW v, NEW w, \A x \in S : w[x] \in Int /\ v[x] = w[x]
    PROVE  Total(v, S) = Total(w, S)
<1>1. PICK f : f = [x \in S |-> x]
  OBVIOUS
<1>2. /\ \A x, y \in S : f[x] = f[y] => x = y
      /\ \A x \in S : f[x] \in S
      /\ \A y \in S : \E x \in S : f[x] = y
      /\ \A x \in S : w[x] \in Int /\ w[x] = v[f[x]]
  BY <1>1
<1> QED
  BY <1>2, TotalSame

\* The whole is the sum of its two parts.
LEMMA TotalParts ==
    ASSUME NEW S, IsFiniteSet(S), NEW v, \A x \in S : v[x] \in Int, NEW A \in SUBSET S
    PROVE  Total(v, S) = Total(v, A) + Total(v, S \ A)
<1> DEFINE Rest == S \ A
           Bad == {B \in SUBSET A : Total(v, Rest \cup B) # Total(v, B) + Total(v, Rest)}
<1> SUFFICES ASSUME Bad # {} PROVE FALSE
  <2>1. Rest \cup A = S
    OBVIOUS
  <2> QED
    BY <2>1
<1>1. IsFiniteSet(A) /\ IsFiniteSet(Rest) /\ Total(v, Rest) \in Int /\ Bad \in SUBSET SUBSET A
  BY FS_Subset, TotalType
<1>2. PICK B \in Bad : \A t \in Bad : ~(t \subseteq B /\ t # B)
  <2> HIDE DEF Bad
  <2> QED
    BY <1>1, LeastSubset
<1>3. B \in SUBSET A /\ Total(v, Rest \cup B) # Total(v, B) + Total(v, Rest)
  OBVIOUS
<1>4. B # {}
  <2>1. Rest \cup {} = Rest
    OBVIOUS
  <2> HIDE DEF Rest
  <2> QED
    BY <1>1, <1>3, <2>1, TotalEmpty
<1>5. PICK x \in B : TRUE
  BY <1>4
<1>6. Total(v, Rest \cup (B \ {x})) = Total(v, B \ {x}) + Total(v, Rest)
  <2>1. B \ {x} \in SUBSET A /\ B \ {x} \notin Bad
    BY <1>2, <1>3, <1>5
  <2> HIDE DEF Rest
  <2> QED
    BY <2>1
<1>7. Total(v, B) = v[x] + Total(v, B \ {x})
  <2>1. IsFiniteSet(B)
    BY <1>1, <1>3, FS_Subset
  <2> QED
    BY <1>3, <2>1, TotalRemove
<1>8. Total(v, Rest \cup B) = v[x] + Total(v, Rest \cup (B \ {x}))
  <2>1. Rest \cup B \in SUBSET S /\ x \in Rest \cup B /\ (Rest \cup B) \ {x} = Rest \cup (B \ {x})
    BY <1>3
  <2>2. IsFiniteSet(Rest \cup B)
    BY <2>1, FS_Subset
  <2> QED
    BY <2>1, <2>2, TotalRemove
<1>9. v[x] \in Int /\ Total(v, B \ {x}) \in Int
  <2>1. B \ {x} \in SUBSET S
    BY <1>3
  <2>2. IsFiniteSet(B \ {x})
    BY <2>1, FS_Subset
  <2> QED
    BY <1>3, <2>1, <2>2, TotalType
<1> HIDE DEF Rest, Bad
<1> QED
  BY <1>1, <1>3, <1>6, <1>7, <1>8, <1>9

\* A sum of numbers that are not negative.
LEMMA TotalNat ==
    ASSUME NEW S, IsFiniteSet(S), NEW v, \A x \in S : v[x] \in Nat
    PROVE  /\ Total(v, S) \in Nat
           /\ \A x \in S : v[x] <= Total(v, S)
           /\ \A A \in SUBSET S : Total(v, A) <= Total(v, S)
<1>1. ASSUME NEW U \in SUBSET S PROVE Total(v, U) \in Nat
  <2> DEFINE Bad == {A \in SUBSET U : Total(v, A) \notin Nat}
  <2> SUFFICES ASSUME Bad # {} PROVE FALSE
    OBVIOUS
  <2>1. Bad \in SUBSET SUBSET U /\ IsFiniteSet(U)
    BY FS_Subset
  <2>2. PICK A \in Bad : \A t \in Bad : ~(t \subseteq A /\ t # A)
    <3> HIDE DEF Bad
    <3> QED
      BY <2>1, LeastSubset
  <2>3. A \in SUBSET U /\ Total(v, A) \notin Nat /\ A \in SUBSET S
    OBVIOUS
  <2>4. PICK x \in A : TRUE
    BY <2>3, TotalEmpty
  <2>5. IsFiniteSet(A)
    BY <2>3, FS_Subset
  <2>6. Total(v, A) = v[x] + Total(v, A \ {x})
    BY <2>3, <2>5, TotalRemove
  <2>7. Total(v, A \ {x}) \in Nat
    BY <2>2, <2>3
  <2> QED
    BY <2>3, <2>6, <2>7
<1>2. ASSUME NEW A \in SUBSET S PROVE Total(v, A) <= Total(v, S)
  <2>1. Total(v, S) = Total(v, A) + Total(v, S \ A)
    BY TotalParts
  <2>2. Total(v, A) \in Nat /\ Total(v, S \ A) \in Nat
    BY <1>1
  <2> QED
    BY <2>1, <2>2
<1>3. ASSUME NEW x \in S PROVE v[x] <= Total(v, S)
  <2>1. Total(v, {x}) <= Total(v, S) /\ v[x] \in Int
    BY <1>2
  <2> QED
    BY <2>1, TotalSingle
<1> QED
  BY <1>1, <1>2, <1>3

-----------------------------------------------------------------------------
(* Amounts of events and of transactions *)

LEMMA AmountDef ==
    ASSUME NEW S, NEW e
    PROVE  Amount(e, S) =
             (CHOOSE iter : iter =
                [s \in SUBSET S |->
                   IF s = {} THEN 0 ELSE e[AnyOf(s)].amount + iter[s \ {AnyOf(s)}]])[S]
BY DEF Amount, MapThenSumSet, MapThenFoldSet, AnyOf

LEMMA AmountTotal ==
    ASSUME NEW S, IsFiniteSet(S), NEW e, NEW v, \A i \in S : v[i] = e[i].amount
    PROVE  Amount(e, S) = Total(v, S)
<1> DEFINE Of(iter) == iter = [s \in SUBSET S |->
                   IF s = {} THEN 0 ELSE e[AnyOf(s)].amount + iter[s \ {AnyOf(s)}]]
<1>1. ASSUME NEW iter PROVE Of(iter) <=> Recurs(v, S, iter)
  <2>1. \A s \in SUBSET S : s # {} => v[AnyOf(s)] = e[AnyOf(s)].amount
    BY AnyOfIn
  <2>2. \A s \in SUBSET S :
           (IF s = {} THEN 0 ELSE v[AnyOf(s)] + iter[s \ {AnyOf(s)}])
           = (IF s = {} THEN 0 ELSE e[AnyOf(s)].amount + iter[s \ {AnyOf(s)}])
    BY <2>1
  <2> QED
    BY <2>2 DEF Recurs
<1>2. \E iter : Of(iter)
  BY <1>1, RecursExists
<1>3. Of(CHOOSE iter : Of(iter))
  BY <1>2
<1>4. Recurs(v, S, CHOOSE iter : Of(iter))
  BY <1>1, <1>3
<1>5. Recurs(v, S, CHOOSE iter : Recurs(v, S, iter))
  BY RecursExists
<1>6. S \in SUBSET S
  OBVIOUS
<1>7. (CHOOSE iter : Of(iter))[S] = (CHOOSE iter : Recurs(v, S, iter))[S]
  BY <1>4, <1>5, <1>6, RecursUnique
<1> QED
  BY <1>7, AmountDef, TotalDef

\* The amounts of a sequence of records.
Amounts(e) == [i \in DOMAIN e |-> e[i].amount]

LEMMA AmountIsTotal ==
    ASSUME NEW e, NEW S \in SUBSET DOMAIN e, IsFiniteSet(S)
    PROVE  Amount(e, S) = Total(Amounts(e), S)
<1>1. \A i \in S : Amounts(e)[i] = e[i].amount
  BY DEF Amounts
<1> QED
  BY <1>1, AmountTotal

-----------------------------------------------------------------------------
(* The days of the calendar *)

LEMMA MonthLengthFacts ==
    \A year, month : MonthLength(year, month) \in {28, 29, 30, 31}
BY DEF MonthLength

LeapDays(y) == y \div 4 - y \div 100 + y \div 400

LEMMA LeapDaysFacts ==
    ASSUME NEW y \in Nat
    PROVE  /\ LeapDays(y) \in Int /\ LeapDays(y - 1) \in Int
           /\ LeapDays(y) = LeapDays(y - 1) + (IF Leap(y) THEN 1 ELSE 0)
<1>1. /\ y \div 4 \in Int /\ (y - 1) \div 4 \in Int
      /\ y \div 4 = (y - 1) \div 4 + (IF y % 4 = 0 THEN 1 ELSE 0)
  OBVIOUS
<1>2. /\ y \div 100 \in Int /\ (y - 1) \div 100 \in Int
      /\ y \div 100 = (y - 1) \div 100 + (IF y % 100 = 0 THEN 1 ELSE 0)
  OBVIOUS
<1>3. /\ y \div 400 \in Int /\ (y - 1) \div 400 \in Int
      /\ y \div 400 = (y - 1) \div 400 + (IF y % 400 = 0 THEN 1 ELSE 0)
  OBVIOUS
<1>4. (y % 400 = 0 => y % 100 = 0) /\ (y % 100 = 0 => y % 4 = 0)
  OBVIOUS
<1>5. PICK a \in Int, b \in Int, c \in Int :
         a = (y - 1) \div 4 /\ b = (y - 1) \div 100 /\ c = (y - 1) \div 400
  BY <1>1, <1>2, <1>3
<1>6. LeapDays(y - 1) = a - b + c
  BY <1>5 DEF LeapDays
<1>7. LeapDays(y) = (a + (IF y % 4 = 0 THEN 1 ELSE 0)) - (b + (IF y % 100 = 0 THEN 1 ELSE 0))
                    + (c + (IF y % 400 = 0 THEN 1 ELSE 0))
  BY <1>1, <1>2, <1>3, <1>5 DEF LeapDays
<1> QED
  BY <1>4, <1>5, <1>6, <1>7 DEF Leap

\* The days before the month.
Start(year, month) ==
    365 * (year - 1) + LeapDays(year - 1) + DaysBefore[month]
    + (IF month > 2 /\ Leap(year) THEN 1 ELSE 0)

LEMMA StartType ==
    ASSUME NEW year \in Nat, NEW month \in 1..12
    PROVE  Start(year, month) \in Int
<1>1. DaysBefore[month] \in Int
  BY DEF DaysBefore
<1>2. LeapDays(year - 1) \in Int
  BY LeapDaysFacts
<1> QED
  BY <1>1, <1>2 DEF Start

LEMMA OrdinalStart ==
    ASSUME NEW d \in Dates
    PROVE  /\ Start(d.year, d.month) \in Int
           /\ Ordinal(d) = Start(d.year, d.month) + d.day
           /\ Ordinal(d) \in Int
<1>1. d.year \in Nat /\ d.month \in 1..12 /\ d.day \in 1..31
  BY DEF Dates
<1>2. DaysBefore[d.month] \in Int
  BY <1>1 DEF DaysBefore
<1>3. /\ (d.year - 1) \div 4 \in Int
      /\ (d.year - 1) \div 100 \in Int
      /\ (d.year - 1) \div 400 \in Int
  BY <1>1
<1>4. PICK leap \in Int : leap = IF d.month > 2 /\ Leap(d.year) THEN 1 ELSE 0
  OBVIOUS
<1>5. Ordinal(d) = 365 * (d.year - 1) + ((d.year - 1) \div 4) - ((d.year - 1) \div 100)
                   + ((d.year - 1) \div 400) + DaysBefore[d.month] + leap + d.day
  BY <1>4 DEF Ordinal
<1>6. Start(d.year, d.month)
        = 365 * (d.year - 1) + (((d.year - 1) \div 4) - ((d.year - 1) \div 100)
                   + ((d.year - 1) \div 400)) + DaysBefore[d.month] + leap
  BY <1>4 DEF Start, LeapDays
<1>7. PICK a \in Int, b \in Int, c \in Int, e \in Int :
         /\ a = (d.year - 1) \div 4 /\ b = (d.year - 1) \div 100
         /\ c = (d.year - 1) \div 400 /\ e = DaysBefore[d.month]
  BY <1>2, <1>3
<1>8. Ordinal(d) = 365 * (d.year - 1) + a - b + c + e + leap + d.day
  BY <1>5, <1>7
<1>9. Start(d.year, d.month) = 365 * (d.year - 1) + (a - b + c) + e + leap
  BY <1>6, <1>7
<1> QED
  BY <1>1, <1>8, <1>9

LEMMA OrdinalType == ASSUME NEW d \in Dates PROVE Ordinal(d) \in Int
BY OrdinalStart

\* A month begins where the one before ends.
LEMMA NextStart ==
    ASSUME NEW year \in Nat, NEW month \in 1..12
    PROVE  IF month = 12 THEN Start(year + 1, 1) = Start(year, 12) + MonthLength(year, 12)
           ELSE Start(year, month + 1) = Start(year, month) + MonthLength(year, month)
<1>0. PICK p \in Int : p = LeapDays(year - 1)
  BY LeapDaysFacts
<1>1. ASSUME NEW m \in 1..11, month = m
      PROVE  Start(year, m + 1) = Start(year, m) + MonthLength(year, m)
  <2>1. Start(year, m) = 365 * (year - 1) + p + DaysBefore[m]
                         + (IF m > 2 /\ Leap(year) THEN 1 ELSE 0)
    BY <1>0 DEF Start
  <2>2. Start(year, m + 1) = 365 * (year - 1) + p + DaysBefore[m + 1]
                             + (IF m + 1 > 2 /\ Leap(year) THEN 1 ELSE 0)
    BY <1>0 DEF Start
  <2>3. DaysBefore[m] \in Int /\ DaysBefore[m + 1] \in Int
    BY DEF DaysBefore
  <2>4. CASE m = 2
    <3>1. DaysBefore[2] = 31 /\ DaysBefore[3] = 59
      BY DEF DaysBefore
    <3>2. MonthLength(year, 2) = IF Leap(year) THEN 29 ELSE 28
      BY DEF MonthLength
    <3> QED
      BY <2>1, <2>2, <2>4, <3>1, <3>2
  <2>5. CASE m # 2
    <3>1. MonthLength(year, m) = IF m \in {4, 6, 9, 11} THEN 30 ELSE 31
      BY <2>5 DEF MonthLength
    <3>2. DaysBefore[m + 1] = DaysBefore[m] + MonthLength(year, m)
      BY <2>5, <3>1 DEF DaysBefore
    <3>3. MonthLength(year, m) \in Int
      BY <3>1
    <3>4. (m + 1 > 2) <=> (m > 2)
      BY <2>5
    <3> QED
      BY <2>1, <2>2, <2>3, <3>2, <3>3, <3>4
  <2> QED
    BY <2>4, <2>5
<1>2. Start(year + 1, 1) = Start(year, 12) + MonthLength(year, 12)
  <2>1. PICK q \in Int : q = LeapDays(year) /\ q = p + (IF Leap(year) THEN 1 ELSE 0)
    BY <1>0, LeapDaysFacts
  <2>2. DaysBefore[1] = 0 /\ DaysBefore[12] = 334
    BY DEF DaysBefore
  <2>3. (year + 1) - 1 = year
    OBVIOUS
  <2>4. Start(year + 1, 1) = 365 * year + q
    <3>1. Start(year + 1, 1) = 365 * ((year + 1) - 1) + LeapDays((year + 1) - 1) + DaysBefore[1]
                               + (IF 1 > 2 /\ Leap(year + 1) THEN 1 ELSE 0)
      BY DEF Start
    <3>2. (IF 1 > 2 /\ Leap(year + 1) THEN 1 ELSE 0) = 0
      OBVIOUS
    <3>3. Start(year + 1, 1) = 365 * year + LeapDays(year) + 0 + 0
      BY <2>2, <2>3, <3>1, <3>2
    <3> QED
      BY <2>1, <3>3
  <2>5. Start(year, 12) = 365 * (year - 1) + p + 334 + (IF Leap(year) THEN 1 ELSE 0)
    BY <1>0, <2>2 DEF Start
  <2>6. MonthLength(year, 12) = 31
    BY DEF MonthLength
  <2> QED
    BY <2>1, <2>4, <2>5, <2>6
<1> QED
  BY <1>1, <1>2

LEMMA TomorrowFacts ==
    ASSUME NEW d, InCalendar(d)
    PROVE  /\ InCalendar(Tomorrow(d))
           /\ Ordinal(Tomorrow(d)) = Ordinal(d) + 1
           /\ Period(d) <= Period(Tomorrow(d))
           /\ Period(d) \in Int /\ Period(Tomorrow(d)) \in Int
<1>1. d \in Dates /\ d.year \in Nat /\ d.month \in 1..12 /\ d.day \in 1..31
      /\ d.day <= MonthLength(d.year, d.month)
  BY DEF InCalendar, Dates
<1>2. MonthLength(d.year, d.month) \in {28, 29, 30, 31}
  BY MonthLengthFacts
<1>3. CASE d.day < MonthLength(d.year, d.month)
  <2>1. PICK e : e = [d EXCEPT !.day = d.day + 1]
    OBVIOUS
  <2>2. e \in Dates /\ e.year = d.year /\ e.month = d.month /\ e.day = d.day + 1
    BY <1>1, <1>2, <1>3, <2>1 DEF Dates
  <2>3. Tomorrow(d) = e
    BY <1>3, <2>1 DEF Tomorrow
  <2>4. InCalendar(e)
    BY <1>1, <1>2, <1>3, <2>2 DEF InCalendar
  <2>5. Ordinal(e) = Ordinal(d) + 1
    BY <1>1, <2>2, OrdinalStart
  <2> QED
    BY <1>1, <2>2, <2>3, <2>4, <2>5 DEF Period
<1>4. CASE d.day = MonthLength(d.year, d.month)
  <2>1. PICK e : e = Tomorrow(d)
    OBVIOUS
  <2>2. /\ e = [year |-> e.year, month |-> e.month, day |-> e.day]
        /\ e.day = 1
        /\ IF d.month = 12 THEN e.year = d.year + 1 /\ e.month = 1
           ELSE e.year = d.year /\ e.month = d.month + 1
    BY <1>1, <1>2, <1>4, <2>1 DEF Tomorrow, Date
  <2>3. e \in Dates
    BY <1>1, <2>2 DEF Dates
  <2>4. MonthLength(e.year, e.month) \in {28, 29, 30, 31}
    BY MonthLengthFacts
  <2>5. Start(e.year, e.month) = Start(d.year, d.month) + MonthLength(d.year, d.month)
    BY <1>1, <2>2, NextStart
  <2>6. Ordinal(e) = Ordinal(d) + 1
    BY <1>1, <1>4, <2>2, <2>3, <2>5, OrdinalStart
  <2>7. InCalendar(e)
    BY <2>2, <2>3, <2>4 DEF InCalendar
  <2>8. Period(d) <= Period(e) /\ Period(d) \in Int /\ Period(e) \in Int
    BY <1>1, <2>2 DEF Period
  <2> QED
    BY <2>1, <2>6, <2>7, <2>8
<1> QED
  BY <1>1, <1>2, <1>3, <1>4

-----------------------------------------------------------------------------
(* The transactions *)

Entries == [on : Int, period : Int, category : Debits \cup {"SALARY", "TRANSFER"},
            amount : Nat \ {0}]

\* Transactions in the order of their dates, the last of them on d or before.
Ordered(log, d) ==
    /\ log \in Seq(Entries)
    /\ \A i, j \in 1..Len(log) :
          i <= j => log[i].on <= log[j].on /\ log[i].period <= log[j].period
    /\ \A i \in 1..Len(log) : log[i].on <= Ordinal(d) /\ log[i].period <= Period(d)

LEMMA PeriodType == ASSUME NEW d \in Dates PROVE Period(d) \in Int
BY DEF Period, Dates

\* What happens on a later day comes last.
LEMMA OrderedGrows ==
    ASSUME NEW log, NEW d \in Dates, NEW e \in Dates, Ordered(log, d),
           Ordinal(d) <= Ordinal(e), Period(d) <= Period(e),
           NEW rows \in Seq(Entries),
           \A i \in 1..Len(rows) : rows[i].on = Ordinal(e) /\ rows[i].period = Period(e)
    PROVE  Ordered(log \o rows, e)
<1>1. /\ Ordinal(d) \in Int /\ Ordinal(e) \in Int
      /\ Period(d) \in Int /\ Period(e) \in Int
  BY OrdinalType, PeriodType
<1>2. log \in Seq(Entries) /\ Len(log) \in Nat /\ Len(rows) \in Nat
  BY LenProperties DEF Ordered
<1> DEFINE all == log \o rows
<1>3. /\ all \in Seq(Entries) /\ Len(all) = Len(log) + Len(rows)
      /\ \A i \in 1..Len(all) : all[i] = IF i <= Len(log) THEN log[i] ELSE rows[i - Len(log)]
  BY <1>2, ConcatProperties
<1> HIDE DEF all
<1>4. ASSUME NEW i \in 1..Len(all)
      PROVE  /\ all[i].on \in Int /\ all[i].period \in Int
             /\ all[i].on <= Ordinal(e) /\ all[i].period <= Period(e)
             /\ i > Len(log) => all[i].on = Ordinal(e) /\ all[i].period = Period(e)
  <2>1. all[i] \in Entries
    BY <1>3, ElementOfSeq
  <2>2. all[i].on \in Int /\ all[i].period \in Int
    BY <2>1 DEF Entries
  <2>3. CASE i <= Len(log)
    <3>1. all[i] = log[i] /\ i \in 1..Len(log)
      BY <1>2, <1>3, <2>3
    <3>2. log[i].on <= Ordinal(d) /\ log[i].period <= Period(d)
      BY <3>1 DEF Ordered
    <3> QED
      BY <1>1, <1>2, <2>2, <2>3, <3>1, <3>2
  <2>4. CASE i > Len(log)
    <3>1. all[i] = rows[i - Len(log)] /\ i - Len(log) \in 1..Len(rows)
      BY <1>2, <1>3, <2>4
    <3> QED
      BY <1>1, <2>2, <3>1
  <2> QED
    BY <1>2, <2>3, <2>4
<1>5. ASSUME NEW i \in 1..Len(all), NEW j \in 1..Len(all), i <= j
      PROVE  all[i].on <= all[j].on /\ all[i].period <= all[j].period
  <2>1. CASE j <= Len(log)
    <3>1. i \in 1..Len(log) /\ j \in 1..Len(log) /\ all[i] = log[i] /\ all[j] = log[j]
      BY <1>2, <1>3, <1>5, <2>1
    <3> QED
      BY <1>5, <3>1 DEF Ordered
  <2>2. CASE j > Len(log)
    BY <1>4, <2>2
  <2> QED
    BY <1>2, <2>1, <2>2
<1> QED
  BY <1>3, <1>4, <1>5 DEF Ordered, all

\* The sequence that Core Banking returns holds the last transactions.
LEMMA ContextFacts ==
    ASSUME NEW log \in Seq(Entries)
    PROVE  \E n \in 0..Len(log) :
             /\ n = (IF Len(log) <= ContextLimit THEN 0 ELSE Len(log) - ContextLimit)
             /\ Context(log) \in Seq(Entries)
             /\ Len(Context(log)) = Len(log) - n
             /\ \A i \in 1..Len(Context(log)) : Context(log)[i] = log[n + i]
<1>1. ContextLimit \in Nat \ {0} /\ Len(log) \in Nat
  BY ConstantsAssumption, LenProperties
<1>2. CASE Len(log) <= ContextLimit
  <2>1. Context(log) = log
    BY <1>2 DEF Context
  <2>2. \A i \in 1..Len(log) : log[0 + i] = log[i]
    OBVIOUS
  <2> QED
    BY <1>1, <1>2, <2>1, <2>2
<1>3. CASE Len(log) > ContextLimit
  <2>a. PICK m \in Nat, k \in Nat \ {0} : m = Len(log) /\ k = ContextLimit
    BY <1>1
  <2>b. m - k \in 1..m
    BY <1>3, <2>a
  <2>1. PICK n \in 1..Len(log) : n = Len(log) - ContextLimit
    BY <2>a, <2>b
  <2>2. Context(log) = SubSeq(log, n + 1, Len(log))
    BY <1>1, <1>3, <2>1 DEF Context
  <2>3. \A i \in (n + 1)..Len(log) : log[i] \in Entries
    BY <1>1, <2>1, ElementOfSeq
  <2>4. /\ Context(log) \in Seq(Entries)
        /\ Len(Context(log)) = IF n + 1 <= Len(log) THEN Len(log) - (n + 1) + 1 ELSE 0
        /\ \A i \in 1..(Len(log) - (n + 1) + 1) : Context(log)[i] = log[(n + 1) + i - 1]
    BY <1>1, <2>1, <2>2, <2>3, SubSeqProperties
  <2>5. Len(Context(log)) = Len(log) - n
    BY <1>1, <2>1, <2>4
  <2>6. ASSUME NEW i \in 1..Len(Context(log)) PROVE Context(log)[i] = log[n + i]
    <3>1. i \in 1..(Len(log) - (n + 1) + 1) /\ (n + 1) + i - 1 = n + i
      BY <1>1, <2>1, <2>5
    <3> QED
      BY <2>4, <3>1
  <2>7. ~(Len(log) <= ContextLimit) /\ n \in 0..Len(log)
    BY <1>1, <1>3, <2>1
  <2> QED
    BY <2>1, <2>4, <2>5, <2>6, <2>7
<1> QED
  BY <1>1, <1>2, <1>3

LEMMA EntryFacts ==
    ASSUME NEW log \in Seq(Entries), NEW i \in 1..Len(log)
    PROVE  log[i].amount \in Nat \ {0} /\ log[i].period \in Int /\ log[i].on \in Int
<1>1. log[i] \in Entries
  BY ElementOfSeq
<1> QED
  BY <1>1 DEF Entries

LEMMA SpendingFacts ==
    ASSUME NEW log \in Seq(Entries), NEW category, NEW period
    PROVE  LET S == Spending(log, category, period)
           IN /\ S \subseteq 1..Len(log) /\ IsFiniteSet(S)
              /\ Amount(log, S) = Total(Amounts(log), S)
              /\ \A i \in S : Amounts(log)[i] \in Nat \ {0}
              /\ Amount(log, S) \in Nat
              /\ Amount(log, S) = 0 <=> S = {}
<1> DEFINE S == Spending(log, category, period)
<1>1. DOMAIN log = 1..Len(log) /\ Len(log) \in Nat
  BY LenProperties
<1>2. S \subseteq 1..Len(log)
  BY <1>1 DEF Spending
<1>3. IsFiniteSet(S)
  <2>1. IsFiniteSet(1..Len(log))
    BY <1>1, FS_Interval
  <2> HIDE DEF S
  <2> QED
    BY <1>2, <2>1, FS_Subset
<1>4. \A i \in S : Amounts(log)[i] \in Nat \ {0}
  <2>1. ASSUME NEW i \in S PROVE log[i].amount \in Nat \ {0}
    <3>1. i \in 1..Len(log)
      BY <1>2
    <3> HIDE DEF S
    <3> QED
      BY <3>1, EntryFacts
  <2>2. S \subseteq DOMAIN log
    BY <1>1, <1>2
  <2> HIDE DEF S
  <2> QED
    BY <2>1, <2>2 DEF Amounts
<1>5. Amount(log, S) = Total(Amounts(log), S)
  BY <1>1, <1>2, <1>3, AmountIsTotal
<1> HIDE DEF S
<1>6. /\ Total(Amounts(log), S) \in Nat
      /\ \A i \in S : Amounts(log)[i] <= Total(Amounts(log), S)
  BY <1>3, <1>4, TotalNat
<1>7. S = {} => Total(Amounts(log), S) = 0
  BY TotalEmpty
<1>8. ASSUME NEW i \in S PROVE Total(Amounts(log), S) # 0
  BY <1>4, <1>6
<1>9. Amount(log, S) = 0 <=> S = {}
  BY <1>5, <1>7, <1>8
<1> QED
  BY <1>2, <1>3, <1>4, <1>5, <1>6, <1>9 DEF S

\* A month that the returned transactions reach back to has the same spending
\* in them as in all transactions.
LEMMA ContextSpending ==
    ASSUME NEW log, NEW d \in Dates, Ordered(log, d), NEW category, NEW period \in Int,
           LET dropped == Len(log) - ContextLimit
           IN dropped <= 0 \/ log[dropped].period < period
    PROVE  LET S == Spending(log, category, period)
               R == Spending(Context(log), category, period)
           IN /\ Amount(Context(log), R) = Amount(log, S)
              /\ R = {} <=> S = {}
<1> DEFINE S == Spending(log, category, period)
           R == Spending(Context(log), category, period)
<1>1. log \in Seq(Entries) /\ Len(log) \in Nat /\ DOMAIN log = 1..Len(log)
      /\ ContextLimit \in Nat
  BY ConstantsAssumption, LenProperties DEF Ordered
<1>2. PICK n \in 0..Len(log) :
         /\ n = (IF Len(log) <= ContextLimit THEN 0 ELSE Len(log) - ContextLimit)
         /\ Context(log) \in Seq(Entries)
         /\ Len(Context(log)) = Len(log) - n
         /\ \A i \in 1..Len(Context(log)) : Context(log)[i] = log[n + i]
  BY <1>1, ContextFacts
<1>3. DOMAIN Context(log) = 1..(Len(log) - n)
  BY <1>2, LenProperties
<1>4. \A i \in 1..Len(log) : log[i].period \in Int
  BY <1>1, EntryFacts
<1>z. S \subseteq 1..Len(log) /\ \A i \in S : log[i].period = period
  BY <1>1 DEF Spending
<1>m. PICK m \in Nat, k \in Nat : m = Len(log) /\ k = ContextLimit
  BY <1>1
<1>n. n \in Int /\ 0 <= n /\ n <= m /\ n = IF m <= k THEN 0 ELSE m - k
  BY <1>m, <1>2
<1>5. \A i \in S : i > n
  <2> HIDE DEF S
  <2> SUFFICES ASSUME NEW i \in S, i <= n PROVE FALSE
    BY <1>m, <1>n, <1>z
  <2>1. i \in 1..Len(log) /\ log[i].period = period /\ n \in 1..Len(log)
    BY <1>m, <1>n, <1>z
  <2>2. n = m - k /\ ~(m - k <= 0)
    BY <1>m, <1>n, <2>1
  <2>3. log[n].period < period
    BY <1>m, <2>2
  <2>4. log[i].period <= log[n].period
    BY <2>1 DEF Ordered
  <2> QED
    BY <1>4, <2>1, <2>3, <2>4
<1>6. PICK f : f = [i \in R |-> n + i]
  OBVIOUS
<1>7. R \subseteq 1..(Len(log) - n) /\ IsFiniteSet(R)
  BY <1>2, SpendingFacts
<1>8. \A x, y \in R : f[x] = f[y] => x = y
  BY <1>2, <1>6, <1>7
<1>9. ASSUME NEW x \in R PROVE f[x] \in 1..Len(log) /\ Context(log)[x] = log[f[x]]
  <2>1. f[x] = n + x /\ x \in 1..(Len(log) - n)
    BY <1>6, <1>7
  <2> HIDE DEF R
  <2> QED
    BY <1>m, <1>2, <1>n, <2>1
<1>10. (\A x \in R : f[x] \in S) /\ (\A y \in S : \E x \in R : f[x] = y)
  <2>1. ASSUME NEW x \in R PROVE f[x] \in S
    BY <1>1, <1>9 DEF Spending
  <2>2. ASSUME NEW i \in S PROVE \E x \in R : f[x] = i
    <3>1. i \in 1..Len(log) /\ i - n \in 1..(Len(log) - n) /\ n + (i - n) = i
      <4> HIDE DEF S
      <4> QED
        BY <1>m, <1>n, <1>z, <1>5
    <3>2. Context(log)[i - n] = log[i]
      BY <1>2, <3>1
    <3>3. i - n \in R
      BY <1>3, <3>1, <3>2 DEF Spending
    <3> QED
      BY <1>6, <3>1, <3>3
  <2> HIDE DEF S, R
  <2> QED
    BY <2>1, <2>2
<1>11. \A x \in R : /\ Amounts(Context(log))[x] \in Int
                     /\ Amounts(Context(log))[x] = Amounts(log)[f[x]]
  <2>1. \A x \in R : Amounts(Context(log))[x] \in Nat \ {0}
    BY <1>2, SpendingFacts
  <2>2. \A x \in R : x \in DOMAIN Context(log) /\ f[x] \in DOMAIN log
    BY <1>1, <1>3, <1>7, <1>9
  <2> HIDE DEF R
  <2> QED
    BY <1>9, <2>1, <2>2 DEF Amounts
<1>12. /\ Amount(Context(log), R) = Total(Amounts(Context(log)), R)
       /\ Amount(log, S) = Total(Amounts(log), S)
  BY <1>1, <1>2, SpendingFacts
<1> HIDE DEF S, R
<1>13. Total(Amounts(Context(log)), R) = Total(Amounts(log), S)
  <2>1. IsFiniteSet(R)
    BY <1>7
  <2> QED
    BY <1>8, <1>10, <1>11, <2>1, TotalSame
<1>14. R = {} <=> S = {}
  BY <1>10
<1> QED
  BY <1>10, <1>12, <1>13, <1>14 DEF S, R

\* The sum of the months of the baseline.
LEMMA BaselineTotal ==
    ASSUME NEW log, NEW c, NEW d, NEW w,
           \A month \in 1..BaselineMonths : w[month] = Spent(log, c, Period(d) - month)
    PROVE  SpentBefore(log, c, d) = Total(w, 1..BaselineMonths)
<1> DEFINE S == 1..BaselineMonths
           Of(iter) == iter = [s \in SUBSET S |->
                         IF s = {} THEN 0
                         ELSE Spent(log, c, Period(d) - AnyOf(s)) + iter[s \ {AnyOf(s)}]]
<1>0. IsFiniteSet(S)
  BY ConstantsAssumption, FS_Interval
<1>1. ASSUME NEW iter PROVE Of(iter) <=> Recurs(w, S, iter)
  <2>1. \A s \in SUBSET S : s # {} => w[AnyOf(s)] = Spent(log, c, Period(d) - AnyOf(s))
    BY AnyOfIn
  <2>2. \A s \in SUBSET S :
           (IF s = {} THEN 0 ELSE w[AnyOf(s)] + iter[s \ {AnyOf(s)}])
           = (IF s = {} THEN 0
              ELSE Spent(log, c, Period(d) - AnyOf(s)) + iter[s \ {AnyOf(s)}])
    BY <2>1
  <2> QED
    BY <2>2 DEF Recurs
<1>2. SpentBefore(log, c, d) = (CHOOSE iter : Of(iter))[S]
  BY DEF SpentBefore, MapThenSumSet, MapThenFoldSet, AnyOf
<1>3. \E iter : Recurs(w, S, iter)
  BY <1>0, RecursExists
<1>4. Recurs(w, S, CHOOSE iter : Recurs(w, S, iter))
  BY <1>3
<1>5. Of(CHOOSE iter : Of(iter))
  BY <1>1, <1>3
<1>6. Recurs(w, S, CHOOSE iter : Of(iter))
  BY <1>1, <1>5
<1>7. S \in SUBSET S
  OBVIOUS
<1>8. (CHOOSE iter : Of(iter))[S] = (CHOOSE iter : Recurs(w, S, iter))[S]
  <2> HIDE DEF S, Of
  <2> QED
    BY <1>0, <1>4, <1>6, <1>7, RecursUnique
<1> HIDE DEF Of
<1> QED
  BY <1>2, <1>8, TotalDef

LEMMA Euclid ==
    ASSUME NEW a \in Int, NEW b \in Nat \ {0}
    PROVE  /\ a \div b \in Int
           /\ a % b \in 0..(b - 1)
           /\ a = b * (a \div b) + (a % b)
OBVIOUS

LEMMA QuotientAtLeast ==
    ASSUME NEW a \in Int, NEW b \in Nat \ {0}, NEW k \in Int
    PROVE  a \div b >= k <=> a >= b * k
<1>1. PICK q \in Int, r \in 0..(b - 1) : q = a \div b /\ a = b * q + r
  BY Euclid
<1>2. ASSUME q >= k PROVE a >= b * k
  <2>1. q - k \in Nat /\ b * (q - k) >= 0
    BY <1>1, <1>2
  <2>2. b * q = b * k + b * (q - k)
    BY <1>1
  <2> QED
    BY <1>1, <2>1, <2>2
<1>3. ASSUME q < k PROVE a < b * k
  <2>1. k - q - 1 \in Nat /\ b * (k - q - 1) >= 0
    BY <1>1, <1>3
  <2>2. b * k = b * q + b * (k - q - 1) + b
    BY <1>1
  <2> QED
    BY <1>1, <2>1, <2>2
<1> QED
  BY <1>1, <1>2, <1>3

\* ratio() gives the fifth or more from half of its last digit below a fifth.
LEMMA FifthAbove ==
    ASSUME NEW t \in Int, NEW s \in Nat \ {0}
    PROVE  Rounded(10000 * (t - s), s) >= 2000 <=> 20000 * t >= 23999 * s
<1>1. 2 * (10000 * (t - s)) + s \in Int /\ 2 * s \in Nat \ {0}
  OBVIOUS
<1>2. Rounded(10000 * (t - s), s) >= 2000
        <=> 2 * (10000 * (t - s)) + s >= (2 * s) * 2000
  BY <1>1, QuotientAtLeast DEF Rounded
<1> QED
  BY <1>2

\* The spending of the month is a fifth above the average of those before.
Rises(log, c, d) ==
    /\ \A month \in 1..BaselineMonths : Spent(log, c, Period(d) - month) > 0
    /\ 20000 * BaselineMonths * Spent(log, c, Period(d)) >= 23999 * SpentBefore(log, c, d)

\* The anomalies that are found in the last transactions.
LEMMA AnomaliesInContext ==
    ASSUME NEW log, NEW d \in Dates, Ordered(log, d), NEW c \in Debits \ {"RENT"},
           LET dropped == Len(log) - ContextLimit
           IN dropped <= 0 \/ log[dropped].period < Period(d) - BaselineMonths
    PROVE  Anomalous(Context(log), c, d) <=> Rises(log, c, d)
<1> DEFINE p == Period(d)
           B == BaselineMonths
           recent == Context(log)
           total(month) == Spent(log, c, p - month)
           found(month) == Spent(recent, c, p - month)
<1>1. B \in Nat \ {0} /\ p \in Int /\ log \in Seq(Entries)
  BY ConstantsAssumption, PeriodType DEF Ordered
<1>2. ASSUME NEW month \in 0..B
      PROVE  /\ found(month) = total(month) /\ total(month) \in Nat
             /\ total(month) = 0 <=> Spending(recent, c, p - month) = {}
  <2>1. LET dropped == Len(log) - ContextLimit
        IN dropped <= 0 \/ log[dropped].period < p - month
    <3>1. CASE Len(log) - ContextLimit <= 0
      BY <3>1
    <3>2. CASE ~(Len(log) - ContextLimit <= 0)
      <4>1. log[Len(log) - ContextLimit].period < p - B
        BY <3>2
      <4>2. PICK n \in 1..Len(log) : n = Len(log) - ContextLimit
        <5>1. PICK m \in Nat, k \in Nat \ {0} : m = Len(log) /\ k = ContextLimit
          BY <1>1, ConstantsAssumption, LenProperties
        <5>2. m - k \in 1..m
          BY <3>2, <5>1
        <5> QED
          BY <5>1, <5>2
      <4>3. log[n].period \in Int
        BY <1>1, EntryFacts
      <4> HIDE DEF p
      <4>4. log[n].period < p - month
        BY <1>1, <4>1, <4>2, <4>3
      <4> QED
        BY <4>2, <4>4
    <3> QED
      BY <3>1, <3>2
  <2>2. p - month \in Int
    BY <1>1
  <2> HIDE DEF p
  <2>3. /\ found(month) = total(month)
        /\ Spending(recent, c, p - month) = {} <=> Spending(log, c, p - month) = {}
    BY <2>1, <2>2, ContextSpending DEF Spent
  <2>4. total(month) \in Nat /\ (total(month) = 0 <=> Spending(log, c, p - month) = {})
    BY <1>1, SpendingFacts DEF Spent
  <2> QED
    BY <2>3, <2>4
<1>3. found(0) = Spent(recent, c, p) /\ p - 0 = p /\ total(0) = Spent(log, c, p)
  BY <1>1
<1>4. PICK w : w = [month \in 1..B |-> total(month)]
  OBVIOUS
<1>5. \A month \in 1..B : w[month] = total(month) /\ w[month] = found(month)
                          /\ w[month] \in Nat
  <2> HIDE DEF total, found
  <2> QED
    BY <1>1, <1>2, <1>4
<1>6. SpentBefore(log, c, d) = Total(w, 1..B)
  BY <1>5, BaselineTotal
<1>7. SpentBefore(recent, c, d) = Total(w, 1..B)
  <2>1. \A month \in 1..B : w[month] = Spent(recent, c, p - month)
    BY <1>5
  <2> HIDE DEF recent
  <2> QED
    BY <2>1, BaselineTotal
<1>8. Evaluated(recent, c, d) <=> \A month \in 1..B : w[month] # 0
  <2>1. \A month \in 1..B : month \in 0..B
    BY <1>1
  <2>2. \A month \in 1..B : w[month] # 0 <=> Spending(recent, c, p - month) # {}
    BY <1>2, <1>5, <2>1
  <2> QED
    BY <2>2 DEF Evaluated
<1>9. (\A month \in 1..B : total(month) > 0) <=> \A month \in 1..B : w[month] # 0
  <2> HIDE DEF total, B
  <2> QED
    BY <1>5
<1>10. (\A month \in 1..B : w[month] # 0) => Total(w, 1..B) \in Nat \ {0}
  <2>1. IsFiniteSet(1..B) /\ 1 \in 1..B /\ \A month \in 1..B : w[month] \in Nat
    BY <1>1, <1>5, FS_Interval
  <2>2. Total(w, 1..B) \in Nat /\ w[1] <= Total(w, 1..B)
    BY <2>1, TotalNat
  <2> QED
    BY <2>1, <2>2
<1>11. Anomalous(recent, c, d) <=>
         /\ Evaluated(recent, c, d)
         /\ Rounded(10000 * (B * total(0) - Total(w, 1..B)), Total(w, 1..B)) >= 2000
  <2>1. found(0) = total(0)
    BY <1>1, <1>2
  <2>2. c \notin {"RENT", "TRANSFER", "SALARY"}
    BY DEF Debits
  <2> QED
    BY <1>3, <1>7, <2>1, <2>2 DEF Anomalous
<1>12. total(0) \in Nat
  BY <1>1, <1>2
<1>13. Anomalous(recent, c, d) <=>
         /\ \A month \in 1..B : w[month] # 0
         /\ 20000 * (B * total(0)) >= 23999 * Total(w, 1..B)
  <2> HIDE DEF total, found, recent, p, B
  <2>1. B * total(0) \in Int
    BY <1>1, <1>12
  <2> QED
    BY <1>8, <1>10, <1>11, <2>1, FifthAbove
<1>14. 20000 * (B * total(0)) = 20000 * B * Spent(log, c, p)
  <2>1. PICK t \in Nat : t = Spent(log, c, p) /\ t = total(0)
    BY <1>3, <1>12
  <2> HIDE DEF total, B
  <2> QED
    BY <1>1, <2>1
<1> QED
  BY <1>6, <1>9, <1>13, <1>14 DEF Rises

-----------------------------------------------------------------------------
(* The order of the days *)

\* Months counted from the first one.
YearOf(p) == (p - 1) \div 12
MonthOf(p) == ((p - 1) % 12) + 1
StartOf(p) == Start(YearOf(p), MonthOf(p))
LengthOf(p) == MonthLength(YearOf(p), MonthOf(p))

LEMMA PeriodFacts ==
    ASSUME NEW d \in Dates
    PROVE  /\ Period(d) \in Nat \ {0}
           /\ YearOf(Period(d)) = d.year /\ MonthOf(Period(d)) = d.month
           /\ Ordinal(d) = StartOf(Period(d)) + d.day
           /\ LengthOf(Period(d)) = MonthLength(d.year, d.month)
<1>1. d.year \in Nat /\ d.month \in 1..12
  BY DEF Dates
<1>2. Period(d) = 12 * d.year + d.month
  BY DEF Period
<1>3. YearOf(Period(d)) = d.year /\ MonthOf(Period(d)) = d.month
  BY <1>1, <1>2 DEF YearOf, MonthOf
<1> QED
  BY <1>1, <1>2, <1>3, OrdinalStart DEF StartOf, LengthOf

LEMMA StartOfNext ==
    ASSUME NEW p \in Nat \ {0}
    PROVE  /\ YearOf(p) \in Nat /\ MonthOf(p) \in 1..12
           /\ StartOf(p) \in Int /\ LengthOf(p) \in 28..31
           /\ IF MonthOf(p) = 12 THEN YearOf(p + 1) = YearOf(p) + 1 /\ MonthOf(p + 1) = 1
              ELSE YearOf(p + 1) = YearOf(p) /\ MonthOf(p + 1) = MonthOf(p) + 1
           /\ StartOf(p + 1) = StartOf(p) + LengthOf(p)
<1>1. YearOf(p) \in Nat /\ MonthOf(p) \in 1..12
  BY DEF YearOf, MonthOf
<1>2. IF MonthOf(p) = 12 THEN YearOf(p + 1) = YearOf(p) + 1 /\ MonthOf(p + 1) = 1
      ELSE YearOf(p + 1) = YearOf(p) /\ MonthOf(p + 1) = MonthOf(p) + 1
  BY DEF YearOf, MonthOf
<1>3. StartOf(p) \in Int
  BY <1>1, StartType DEF StartOf
<1>4. LengthOf(p) \in 28..31
  BY MonthLengthFacts DEF LengthOf
<1>5. StartOf(p + 1) = StartOf(p) + LengthOf(p)
  BY <1>1, <1>2, NextStart DEF StartOf, LengthOf
<1> QED
  BY <1>1, <1>2, <1>3, <1>4, <1>5

\* A month has 28 days at least.
LEMMA StartsApart ==
    ASSUME NEW p \in Nat \ {0}
    PROVE  \A n \in Nat : /\ StartOf(p + n) \in Int
                          /\ StartOf(p + n) >= StartOf(p) + 28 * n
<1> DEFINE Bad == {n \in Nat : StartOf(p + n) < StartOf(p) + 28 * n}
<1>0. \A n \in Nat : StartOf(p + n) \in Int
  BY StartOfNext
<1>1. ASSUME Bad # {} PROVE FALSE
  <2>1. Bad \in SUBSET Nat
    OBVIOUS
  <2>2. PICK n \in Bad : \A m \in Bad : n <= m
    <3> HIDE DEF Bad
    <3> QED
      BY <1>1, <2>1, LeastNumber
  <2>3. n \in Nat /\ StartOf(p + n) < StartOf(p) + 28 * n
    OBVIOUS
  <2>4. n # 0
    BY <1>0, <2>3
  <2>5. n - 1 \in Nat /\ ~(StartOf(p + (n - 1)) < StartOf(p) + 28 * (n - 1))
    BY <2>2, <2>3, <2>4
  <2>6. PICK q \in Nat \ {0} : q = p + (n - 1) /\ q + 1 = p + n
    BY <2>3, <2>4
  <2>7. StartOf(q + 1) >= StartOf(q) + 28 /\ StartOf(q + 1) \in Int /\ StartOf(q) \in Int
        /\ StartOf(p) \in Int
    BY StartOfNext
  <2> HIDE DEF Bad
  <2> QED
    BY <2>3, <2>5, <2>6, <2>7
<1>2. \A n \in Nat : StartOf(p) \in Int /\ 28 * n \in Int
  BY StartOfNext
<1>3. ASSUME NEW n \in Nat PROVE StartOf(p + n) >= StartOf(p) + 28 * n
  <2>1. ~(StartOf(p + n) < StartOf(p) + 28 * n)
    BY <1>1
  <2>2. StartOf(p + n) \in Int /\ StartOf(p) \in Int /\ 28 * n \in Int
    BY <1>0, <1>2
  <2> HIDE DEF Bad
  <2> QED
    BY <2>1, <2>2
<1> QED
  BY <1>0, <1>3

\* The days of a month come before those of a later one.
LEMMA MonthOrder ==
    ASSUME NEW d \in Dates, NEW e \in Dates, InCalendar(d), Period(d) < Period(e)
    PROVE  Ordinal(d) < Ordinal(e)
<1>1. PICK p \in Nat \ {0}, q \in Nat \ {0} : p = Period(d) /\ q = Period(e)
  BY PeriodFacts
<1>2. q - p - 1 \in Nat /\ (p + 1) + (q - p - 1) = q /\ p + 1 \in Nat \ {0}
  BY <1>1
<1>3. StartOf(q) >= StartOf(p + 1) /\ StartOf(q) \in Int /\ StartOf(p + 1) \in Int
  <2>1. /\ StartOf((p + 1) + (q - p - 1)) >= StartOf(p + 1) + 28 * (q - p - 1)
        /\ StartOf((p + 1) + (q - p - 1)) \in Int
    BY <1>2, StartsApart
  <2>2. StartOf(p + 1) \in Int
    BY <1>2, StartOfNext
  <2>3. 28 * (q - p - 1) >= 0 /\ 28 * (q - p - 1) \in Int
    BY <1>2
  <2> QED
    BY <1>2, <2>1, <2>2, <2>3
<1>4. StartOf(p + 1) = StartOf(p) + LengthOf(p) /\ StartOf(p) \in Int /\ LengthOf(p) \in Int
  BY StartOfNext
<1>5. d.day <= LengthOf(p) /\ d.day \in 1..31 /\ e.day \in 1..31
  BY <1>1, PeriodFacts DEF InCalendar, Dates
<1>6. Ordinal(d) = StartOf(p) + d.day /\ Ordinal(e) = StartOf(q) + e.day
  BY <1>1, PeriodFacts
<1> QED
  BY <1>3, <1>4, <1>5, <1>6

\* Every day has its number, and its number tells the day.
LEMMA OrdinalInjective ==
    ASSUME NEW d \in Dates, NEW e \in Dates, InCalendar(d), InCalendar(e),
           Ordinal(d) = Ordinal(e)
    PROVE  d = e
<1>1. Period(d) \in Int /\ Period(e) \in Int /\ Ordinal(d) \in Int /\ Ordinal(e) \in Int
  BY PeriodType, OrdinalType
<1>2. ~(Period(d) < Period(e)) /\ ~(Period(e) < Period(d))
  BY <1>1, MonthOrder
<1>3. Period(d) = Period(e)
  BY <1>1, <1>2
<1>4. d.year = e.year /\ d.month = e.month
  BY <1>3, PeriodFacts
<1>5. d.day = e.day
  <2>1. StartOf(Period(d)) \in Int
    BY PeriodFacts, StartOfNext
  <2>2. d.day \in Int /\ e.day \in Int
    BY DEF Dates
  <2> QED
    BY <1>3, <2>1, <2>2, PeriodFacts
<1> QED
  BY <1>4, <1>5 DEF Dates

-----------------------------------------------------------------------------
(* Days later *)

Counts(d, n, later) == later = [k \in 0..n |-> IF k = 0 THEN d ELSE Tomorrow(later[k - 1])]

LEMMA CountsUnique ==
    ASSUME NEW d, NEW n \in Nat, NEW m \in Nat, NEW f, NEW g, Counts(d, n, f), Counts(d, m, g)
    PROVE  \A k \in 0..n : k <= m => f[k] = g[k]
<1> DEFINE Bad == {k \in Nat : k <= n /\ k <= m /\ f[k] # g[k]}
<1>1. ASSUME Bad # {} PROVE FALSE
  <2>1. Bad \in SUBSET Nat
    OBVIOUS
  <2>2. PICK k \in Bad : \A j \in Bad : k <= j
    <3> HIDE DEF Bad
    <3> QED
      BY <1>1, <2>1, LeastNumber
  <2>3. k \in 0..n /\ k \in 0..m /\ f[k] # g[k]
    OBVIOUS
  <2>4. k # 0
    BY <2>3 DEF Counts
  <2>5. k - 1 \in Nat /\ f[k - 1] = g[k - 1]
    BY <2>2, <2>3, <2>4
  <2>6. f[k] = Tomorrow(f[k - 1]) /\ g[k] = Tomorrow(g[k - 1])
    BY <2>3, <2>4 DEF Counts
  <2> QED
    BY <2>3, <2>5, <2>6
<1> QED
  BY <1>1

LEMMA CountsExists == ASSUME NEW d, NEW n \in Nat PROVE \E later : Counts(d, n, later)
<1> DEFINE Bad == {k \in Nat : ~ \E later : Counts(d, k, later)}
<1>1. ASSUME Bad # {} PROVE FALSE
  <2>1. Bad \in SUBSET Nat
    OBVIOUS
  <2>2. PICK k \in Bad : \A j \in Bad : k <= j
    <3> HIDE DEF Bad
    <3> QED
      BY <1>1, <2>1, LeastNumber
  <2>3. k \in Nat /\ ~ \E later : Counts(d, k, later)
    OBVIOUS
  <2>4. CASE k = 0
    <3>1. PICK f : f = [j \in 0..0 |-> d]
      OBVIOUS
    <3>2. \A j \in 0..0 : j = 0
      OBVIOUS
    <3>3. Counts(d, 0, f)
      BY <3>1, <3>2 DEF Counts
    <3> QED
      BY <2>3, <2>4, <3>3
  <2>5. CASE k # 0
    <3>1. k - 1 \in Nat /\ k - 1 \notin Bad
      BY <2>2, <2>3, <2>5
    <3>2. PICK f : Counts(d, k - 1, f)
      BY <3>1
    <3>3. PICK g : g = [j \in 0..k |-> IF j = 0 THEN d ELSE Tomorrow(f[j - 1])]
      OBVIOUS
    <3>4. ASSUME NEW j \in 0..(k - 1) PROVE g[j] = f[j]
      <4>1. f[j] = IF j = 0 THEN d ELSE Tomorrow(f[j - 1])
        BY <3>2 DEF Counts
      <4>2. j \in 0..k
        BY <2>3
      <4> QED
        BY <3>3, <4>1, <4>2
    <3>5. ASSUME NEW j \in 0..k
          PROVE  (IF j = 0 THEN d ELSE Tomorrow(f[j - 1]))
                 = (IF j = 0 THEN d ELSE Tomorrow(g[j - 1]))
      <4>1. CASE j = 0
        BY <4>1
      <4>2. CASE j # 0
        <5>1. j - 1 \in 0..(k - 1)
          BY <2>3, <4>2
        <5> QED
          BY <3>4, <4>2, <5>1
      <4> QED
        BY <4>1, <4>2
    <3>6. Counts(d, k, g)
      BY <3>3, <3>5 DEF Counts
    <3> QED
      BY <2>3, <3>6
  <2> QED
    BY <2>4, <2>5
<1> QED
  BY <1>1

LEMMA PlusUnfold ==
    ASSUME NEW d, NEW n \in Nat
    PROVE  Plus(d, 0) = d /\ Plus(d, n + 1) = Tomorrow(Plus(d, n))
<1> DEFINE It(m) == CHOOSE later : Counts(d, m, later)
<1>1. ASSUME NEW m \in Nat PROVE Counts(d, m, It(m)) /\ Plus(d, m) = It(m)[m]
  <2>1. Counts(d, m, It(m))
    BY CountsExists
  <2>2. Plus(d, m) = It(m)[m]
    BY DEF Plus, Counts
  <2> QED
    BY <2>1, <2>2
<1> HIDE DEF It
<1>2. Plus(d, 0) = d
  <2>1. Counts(d, 0, It(0)) /\ Plus(d, 0) = It(0)[0] /\ 0 \in 0..0
    BY <1>1
  <2> QED
    BY <2>1 DEF Counts
<1>3. Plus(d, n + 1) = Tomorrow(Plus(d, n))
  <2>1. /\ Counts(d, n + 1, It(n + 1)) /\ Plus(d, n + 1) = It(n + 1)[n + 1]
        /\ Counts(d, n, It(n)) /\ Plus(d, n) = It(n)[n]
    BY <1>1
  <2>2. n + 1 \in 0..(n + 1) /\ n \in 0..(n + 1) /\ n \in 0..n /\ n <= n + 1 /\ n <= n
        /\ n + 1 # 0 /\ (n + 1) - 1 = n
    OBVIOUS
  <2>3. It(n + 1)[n + 1] = Tomorrow(It(n + 1)[n])
    BY <2>1, <2>2 DEF Counts
  <2>4. It(n)[n] = It(n + 1)[n]
    BY <2>1, <2>2, CountsUnique
  <2> QED
    BY <2>1, <2>3, <2>4
<1> QED
  BY <1>2, <1>3

LEMMA PlusFacts ==
    ASSUME NEW d, InCalendar(d)
    PROVE  \A n \in Nat : InCalendar(Plus(d, n)) /\ Ordinal(Plus(d, n)) = Ordinal(d) + n
<1> DEFINE Good(n) == InCalendar(Plus(d, n)) /\ Ordinal(Plus(d, n)) = Ordinal(d) + n
           Bad == {n \in Nat : ~Good(n)}
<1>0. Ordinal(d) \in Int
  BY OrdinalType DEF InCalendar
<1>1. ASSUME Bad # {} PROVE FALSE
  <2>1. Bad \in SUBSET Nat
    OBVIOUS
  <2>2. PICK n \in Bad : \A j \in Bad : n <= j
    <3> HIDE DEF Bad
    <3> QED
      BY <1>1, <2>1, LeastNumber
  <2>3. n \in Nat /\ ~Good(n)
    OBVIOUS
  <2>4. n # 0
    <3>1. Plus(d, 0) = d
      BY PlusUnfold
    <3> QED
      BY <1>0, <2>3, <3>1
  <2>5. PICK m \in Nat : n = m + 1 /\ m \notin Bad
    <3>1. n - 1 \in Nat /\ n = (n - 1) + 1 /\ ~(n <= n - 1)
      BY <2>3, <2>4
    <3> QED
      BY <2>2, <3>1
  <2>6. Good(m)
    BY <2>5
  <2>7. Plus(d, n) = Tomorrow(Plus(d, m))
    BY <2>5, PlusUnfold
  <2> QED
    BY <1>0, <2>3, <2>5, <2>6, <2>7, TomorrowFacts
<1> QED
  BY <1>1

LEMMA OnDayFacts ==
    ASSUME NEW d \in Dates, NEW day \in 1..31
    PROVE  /\ InCalendar(OnDay(d, day)) /\ OnDay(d, day) \in Dates
           /\ OnDay(d, day).year = d.year /\ OnDay(d, day).month = d.month
           /\ OnDay(d, day).day = Least(day, MonthLength(d.year, d.month))
           /\ Period(OnDay(d, day)) = Period(d)
<1>1. d.year \in Nat /\ d.month \in 1..12
  BY DEF Dates
<1>2. PICK n \in 28..31 : n = MonthLength(d.year, d.month)
  BY MonthLengthFacts
<1>3. PICK x \in 1..31 : x = Least(day, n) /\ x <= n
  BY <1>2 DEF Least
<1>4. OnDay(d, day) = [year |-> d.year, month |-> d.month, day |-> x]
  BY <1>2, <1>3 DEF OnDay, Date
<1>5. OnDay(d, day) \in Dates
  BY <1>1, <1>4 DEF Dates
<1> QED
  BY <1>2, <1>3, <1>4, <1>5 DEF InCalendar, Period

\* The 28th and four days are in the next month, and then it is its first day.
LEMMA NextMonthFacts ==
    ASSUME NEW d \in Dates
    PROVE  /\ InCalendar(NextMonth(d)) /\ NextMonth(d) \in Dates
           /\ Period(NextMonth(d)) = Period(d) + 1
           /\ NextMonth(d).day = 1
<1>1. d.year \in Nat /\ d.month \in 1..12 /\ d.day \in 1..31
  BY DEF Dates
<1>2. PICK e : e = [d EXCEPT !.day = 28]
  OBVIOUS
<1>3. e \in Dates /\ e.year = d.year /\ e.month = d.month /\ e.day = 28
  BY <1>1, <1>2 DEF Dates
<1>4. InCalendar(e)
  BY <1>3, MonthLengthFacts DEF InCalendar
<1>5. PICK f : f = Plus(e, 4)
  OBVIOUS
<1>6. InCalendar(f) /\ f \in Dates /\ Ordinal(f) = Ordinal(e) + 4
  BY <1>4, <1>5, PlusFacts DEF InCalendar
<1>7. PICK p \in Nat \ {0}, q \in Nat \ {0} :
         p = Period(e) /\ p = Period(d) /\ q = Period(f)
  BY <1>3, <1>6, PeriodFacts DEF Period
<1>8. /\ Ordinal(e) = StartOf(p) + 28 /\ Ordinal(f) = StartOf(q) + f.day
      /\ f.day \in 1..31 /\ f.day <= LengthOf(q)
  BY <1>3, <1>6, <1>7, PeriodFacts DEF InCalendar, Dates
<1>9. /\ StartOf(p + 1) = StartOf(p) + LengthOf(p) /\ LengthOf(p) \in 28..31
      /\ StartOf(q + 1) = StartOf(q) + LengthOf(q) /\ LengthOf(q) \in 28..31
      /\ StartOf(p) \in Int /\ StartOf(q) \in Int
  BY StartOfNext
<1>10. ASSUME q <= p PROVE FALSE
  <2>1. PICK n \in Nat : n = p - q /\ p = q + n
    BY <1>10
  <2>2. StartOf(p) >= StartOf(q) + 28 * n
    BY <2>1, StartsApart
  <2>3. CASE n = 0
    BY <1>6, <1>8, <1>9, <2>1, <2>3
  <2>4. CASE n # 0
    BY <1>6, <1>8, <1>9, <2>2, <2>4
  <2> QED
    BY <2>3, <2>4
<1>11. ASSUME q > p + 1 PROVE FALSE
  <2>1. PICK n \in Nat : n = q - (p + 1) /\ q = (p + 1) + n /\ n >= 1
    BY <1>11
  <2>2. PICK r \in Nat \ {0} : r = p + 1 /\ q = r + n
    BY <2>1
  <2>3. StartOf(q) >= StartOf(r) + 28 * n
    BY <2>1, <2>2, StartsApart
  <2>4. StartOf(r) = StartOf(p) + LengthOf(p)
    BY <1>9, <2>2
  <2> QED
    BY <1>6, <1>8, <1>9, <2>1, <2>3, <2>4
<1>12. q = p + 1
  BY <1>10, <1>11
<1>13. NextMonth(d) = [f EXCEPT !.day = 1]
  BY <1>2, <1>5 DEF NextMonth
<1>14. PICK g : g = [f EXCEPT !.day = 1]
  OBVIOUS
<1>15. g \in Dates /\ g.year = f.year /\ g.month = f.month /\ g.day = 1
  BY <1>6, <1>14 DEF Dates
<1>16. InCalendar(g) /\ Period(g) = q
  BY <1>7, <1>15, MonthLengthFacts DEF InCalendar, Period
<1> QED
  BY <1>7, <1>12, <1>13, <1>14, <1>15, <1>16

LEMMA YearOrder ==
    ASSUME NEW d \in Dates, NEW e \in Dates, InCalendar(e), Ordinal(d) <= Ordinal(e)
    PROVE  d.year <= e.year
<1>1. d.year \in Nat /\ e.year \in Nat /\ d.month \in 1..12 /\ e.month \in 1..12
  BY DEF Dates
<1>2. ASSUME d.year > e.year PROVE FALSE
  <2>1. Period(e) < Period(d)
    BY <1>1, <1>2 DEF Period
  <2>2. Ordinal(e) < Ordinal(d)
    BY <2>1, MonthOrder
  <2> QED
    BY <2>2, OrdinalType
<1> QED
  BY <1>1, <1>2

LEMMA NextMonthYear ==
    ASSUME NEW d \in Dates, NEW e \in Dates, Period(e) <= Period(d) + 1
    PROVE  e.year <= d.year + 1
BY DEF Dates, Period

\* The days that the engine looks ahead end in the next year at the latest.
LEMMA HorizonYear ==
    ASSUME NEW d \in Dates, InCalendar(d), NEW n \in 0..90
    PROVE  Plus(d, n) \in Dates /\ InCalendar(Plus(d, n)) /\ Plus(d, n).year <= d.year + 1
<1>1. PICK e : e = Plus(d, n)
  OBVIOUS
<1>2. e \in Dates /\ InCalendar(e) /\ Ordinal(e) = Ordinal(d) + n
  BY <1>1, PlusFacts DEF InCalendar
<1>3. PICK p \in Nat \ {0}, q \in Nat \ {0} : p = Period(d) /\ q = Period(e)
  BY <1>2, PeriodFacts
<1>4. Ordinal(d) = StartOf(p) + d.day /\ Ordinal(e) = StartOf(q) + e.day
      /\ d.day \in 1..31 /\ e.day \in 1..31 /\ StartOf(p) \in Int
  BY <1>2, <1>3, PeriodFacts, StartOfNext DEF Dates
<1>5. ASSUME e.year >= d.year + 2 PROVE FALSE
  <2>1. q >= p + 13
    BY <1>2, <1>3, <1>5 DEF Period, Dates
  <2>2. PICK k \in Nat : q = p + k /\ k >= 13
    <3>1. q - p \in Nat /\ q = p + (q - p) /\ q - p >= 13
      BY <2>1
    <3> QED
      BY <3>1
  <2>3. StartOf(p + k) \in Int /\ StartOf(p + k) >= StartOf(p) + 28 * k
    BY StartsApart
  <2>4. StartOf(q) \in Int /\ StartOf(q) >= StartOf(p) + 28 * k
    BY <2>2, <2>3
  <2>5. PICK s \in Int : s = StartOf(p)
    BY <1>4
  <2>6. Ordinal(e) >= s + 28 * k + 1 /\ Ordinal(e) <= s + 31 + n
    <3>1. PICK x \in Int, y \in 1..31, z \in 1..31 :
             x = StartOf(q) /\ y = d.day /\ z = e.day
      BY <1>4, <2>4
    <3> QED
      BY <1>2, <1>4, <2>4, <2>5, <3>1
  <2>7. PICK o \in Int : o = Ordinal(e)
    BY <1>4, <2>4
  <2>8. o >= s + 28 * k + 1 /\ o <= s + 31 + n /\ k >= 13 /\ n <= 90
    BY <2>2, <2>6, <2>7
  <2> QED
    BY <2>8
<1>6. e.year \in Nat /\ d.year \in Nat
  BY <1>2 DEF Dates
<1> QED
  BY <1>1, <1>2, <1>5, <1>6

\* An event of a day of the month is due on d.
DueOn(d, day) == d.day = Least(day, MonthLength(d.year, d.month))

\* The next occurrence is the first day, from as_of on, that the event is due.
LEMMA NextOccurrenceFacts ==
    ASSUME NEW d \in Dates, InCalendar(d), NEW day \in 1..31
    PROVE  LET n == NextOccurrence(d, day)
           IN /\ n \in Dates /\ InCalendar(n) /\ DueOn(n, day)
              /\ Ordinal(n) >= Ordinal(d)
              /\ \A e \in Dates :
                    /\ InCalendar(e) /\ DueOn(e, day)
                    /\ Ordinal(d) <= Ordinal(e)
                    => Ordinal(n) <= Ordinal(e)
<1>1. PICK a : a = OnDay(d, day)
  OBVIOUS
<1>2. /\ a \in Dates /\ InCalendar(a) /\ DueOn(a, day) /\ Period(a) = Period(d)
      /\ Ordinal(a) \in Int /\ Ordinal(d) \in Int
  BY <1>1, OnDayFacts, OrdinalType DEF DueOn
<1>m. PICK m \in Dates : m = NextMonth(d) /\ Period(m) = Period(d) + 1
  BY NextMonthFacts
<1>3. PICK b : b = OnDay(NextMonth(d), day)
  OBVIOUS
<1>4. /\ b \in Dates /\ InCalendar(b) /\ DueOn(b, day) /\ Period(b) = Period(d) + 1
      /\ Ordinal(b) \in Int
  BY <1>m, <1>3, OnDayFacts, OrdinalType DEF DueOn
<1>5. Period(d) \in Int
  BY PeriodType
<1>6. ASSUME NEW e \in Dates, NEW g \in Dates, InCalendar(e), DueOn(e, day),
             InCalendar(g), DueOn(g, day), Period(g) <= Period(e)
      PROVE  Ordinal(g) <= Ordinal(e)
  <2>1. Period(g) \in Int /\ Period(e) \in Int /\ Ordinal(g) \in Int /\ Ordinal(e) \in Int
    BY PeriodType, OrdinalType
  <2>2. CASE Period(g) < Period(e)
    BY <1>6, <2>1, <2>2, MonthOrder
  <2>3. CASE Period(g) = Period(e)
    <3>1. g.year = e.year /\ g.month = e.month
      BY <2>3, PeriodFacts
    <3>2. g.day = e.day
      BY <1>6, <3>1 DEF DueOn
    <3>3. Ordinal(g) = Ordinal(e)
      BY <2>3, <3>2, PeriodFacts
    <3> QED
      BY <2>1, <3>3
  <2> QED
    BY <1>6, <2>1, <2>2, <2>3
<1>7. ASSUME NEW e \in Dates, InCalendar(e), Ordinal(d) <= Ordinal(e)
      PROVE  Period(d) <= Period(e)
  <2>1. Period(e) \in Int /\ Ordinal(e) \in Int
    BY PeriodType, OrdinalType
  <2> QED
    BY <1>2, <1>5, <1>7, <2>1, MonthOrder
<1>8. CASE Ordinal(a) >= Ordinal(d)
  <2>1. NextOccurrence(d, day) = a
    BY <1>1, <1>8 DEF NextOccurrence
  <2> QED
    BY <1>2, <1>6, <1>7, <1>8, <2>1
<1>9. CASE ~(Ordinal(a) >= Ordinal(d))
  <2>1. NextOccurrence(d, day) = b
    BY <1>1, <1>3, <1>9 DEF NextOccurrence
  <2>2. Ordinal(b) >= Ordinal(d)
    <3>1. Ordinal(d) < Ordinal(b)
      BY <1>4, <1>5, MonthOrder
    <3> QED
      BY <1>2, <1>4, <3>1
  <2>3. ASSUME NEW e \in Dates, InCalendar(e), DueOn(e, day), Ordinal(d) <= Ordinal(e)
        PROVE  Ordinal(b) <= Ordinal(e)
    <3>1. Period(d) <= Period(e) /\ Period(e) \in Int /\ Ordinal(e) \in Int
      BY <1>7, <2>3, PeriodType, OrdinalType
    <3>2. Period(e) # Period(d)
      <4>1. ASSUME Period(e) = Period(d) PROVE FALSE
        <5>1. Ordinal(e) <= Ordinal(a)
          BY <1>2, <1>5, <1>6, <2>3, <4>1
        <5> QED
          BY <1>2, <1>9, <2>3, <3>1, <5>1
      <4> QED
        BY <4>1
    <3>3. Period(b) <= Period(e)
      BY <1>4, <1>5, <3>1, <3>2
    <3> QED
      BY <1>4, <1>6, <2>3, <3>3
  <2> QED
    BY <1>4, <2>1, <2>2, <2>3
<1> QED
  BY <1>8, <1>9

\* An event is due on days that are four weeks apart at least.
LEMMA FourWeeksApart ==
    ASSUME NEW d \in Dates, NEW e \in Dates, NEW day \in 1..31, InCalendar(d), InCalendar(e),
           DueOn(d, day), DueOn(e, day), Ordinal(d) < Ordinal(e)
    PROVE  Ordinal(e) >= Ordinal(d) + 28
<1>1. PICK p \in Nat \ {0}, q \in Nat \ {0} : p = Period(d) /\ q = Period(e)
  BY PeriodFacts
<1>2. /\ Ordinal(d) = StartOf(p) + d.day /\ Ordinal(e) = StartOf(q) + e.day
      /\ d.day = Least(day, LengthOf(p)) /\ e.day = Least(day, LengthOf(q))
  BY <1>1, PeriodFacts DEF DueOn
<1>3. /\ StartOf(p + 1) = StartOf(p) + LengthOf(p) /\ LengthOf(p) \in 28..31
      /\ StartOf(p) \in Int /\ LengthOf(q) \in 28..31
      /\ \A n \in Nat : StartOf((p + 1) + n) \in Int /\ StartOf((p + 1) + n) >= StartOf(p + 1) + 28 * n
  BY StartOfNext, StartsApart
<1>4. p < q
  <2>1. CASE q < p
    <3>1. Ordinal(e) < Ordinal(d)
      BY <1>1, <2>1, MonthOrder
    <3> QED
      BY <3>1, OrdinalType
  <2>2. CASE q = p
    <3>1. Ordinal(d) = Ordinal(e)
      BY <1>2, <2>2
    <3> QED
      BY <3>1, OrdinalType
  <2> QED
    BY <2>1, <2>2
<1>5. d.day <= LengthOf(p) /\ d.day \in 1..31 /\ e.day \in 1..31
  BY <1>1, PeriodFacts DEF InCalendar, Dates
<1>6. PICK n \in Nat : q = (p + 1) + n
  <2>1. q - (p + 1) \in Nat /\ q = (p + 1) + (q - (p + 1))
    BY <1>4
  <2> QED
    BY <2>1
<1>7. CASE n = 0
  <2>1. Ordinal(e) = StartOf(p) + LengthOf(p) + e.day
    BY <1>2, <1>3, <1>6, <1>7
  <2>2. LengthOf(p) + e.day >= d.day + 28
    BY <1>2, <1>3, <1>5 DEF Least
  <2> QED
    BY <1>2, <1>3, <1>5, <2>1, <2>2
<1>8. CASE n # 0
  <2>1. StartOf(q) >= StartOf(p + 1) + 28 * n /\ StartOf(q) \in Int
    BY <1>3, <1>6
  <2>2. StartOf(q) >= StartOf(p) + LengthOf(p) + 28
    BY <1>3, <1>8, <2>1
  <2> QED
    BY <1>2, <1>3, <1>5, <2>1, <2>2
<1> QED
  BY <1>7, <1>8

-----------------------------------------------------------------------------
(* The customer and the events *)

LEMMA CustomerFacts ==
    ASSUME NEW c \in Customers
    PROVE  /\ InCalendar(c.first) /\ c.first \in Dates
           /\ InCalendar(c.last) /\ c.last \in Dates /\ c.last.year < MaxYear
           /\ Ordinal(c.first) <= Ordinal(c.last)
           /\ c.income \in Nat /\ c.salaryDay \in 1..31 /\ c.balance \in Int
           /\ c.rates \subseteq Nat /\ c.every \in Nat \ {0}
           /\ c.events \in Seq(Events) /\ c.facilities \in Seq(Facilities)
           /\ \A g \in c.goals : g = NoGoal \/ Acceptable(g, c.first)
BY ConstantsAssumption DEF InCalendar

LEMMA EventFacts ==
    ASSUME NEW e \in Seq(Events), NEW i \in DOMAIN e
    PROVE  e[i].day \in 1..31 /\ e[i].amount \in Nat \ {0} /\ e[i].category \in Debits
<1>1. e[i] \in Events
  BY LenProperties, ElementOfSeq
<1> QED
  BY <1>1 DEF Events

LEMMA EventAmounts ==
    ASSUME NEW e \in Seq(Events), NEW S \in SUBSET DOMAIN e
    PROVE  /\ IsFiniteSet(S) /\ S \subseteq Nat
           /\ \A i \in S : Amounts(e)[i] \in Nat \ {0} /\ Amounts(e)[i] = e[i].amount
           /\ Amount(e, S) = Total(Amounts(e), S)
           /\ Amount(e, S) \in Nat
<1>1. Len(e) \in Nat /\ DOMAIN e = 1..Len(e)
  BY LenProperties
<1>2. IsFiniteSet(S)
  <2>1. IsFiniteSet(1..Len(e))
    BY <1>1, FS_Interval
  <2> QED
    BY <1>1, <2>1, FS_Subset
<1>3. S \subseteq Nat
  BY <1>1
<1>4. \A i \in S : Amounts(e)[i] \in Nat \ {0} /\ Amounts(e)[i] = e[i].amount
  BY EventFacts DEF Amounts
<1>5. Amount(e, S) = Total(Amounts(e), S)
  BY <1>2, AmountIsTotal
<1>6. Total(Amounts(e), S) \in Nat
  BY <1>2, <1>4, TotalNat
<1> QED
  BY <1>2, <1>3, <1>4, <1>5, <1>6

LEMMA OccurrenceType ==
    ASSUME NEW e \in Seq(Events), NEW i \in DOMAIN e, NEW d \in Dates, InCalendar(d)
    PROVE  LET n == NextOccurrence(d, e[i].day)
           IN /\ n \in Dates /\ Ordinal(n) \in Int
              /\ Ordinal(d) \in Int /\ Ordinal(n) - Ordinal(d) \in Nat
<1>1. PICK day \in 1..31 : day = e[i].day
  BY EventFacts
<1>2. PICK n \in Dates : n = NextOccurrence(d, day) /\ Ordinal(n) >= Ordinal(d)
  BY NextOccurrenceFacts
<1>3. Ordinal(n) \in Int /\ Ordinal(d) \in Int
  BY OrdinalType
<1>4. Ordinal(n) - Ordinal(d) \in Nat
  BY <1>2, <1>3
<1> QED
  BY <1>1, <1>2, <1>3, <1>4

\* There is a first one of the upcoming events.
LEMMA FirstFacts ==
    ASSUME customer \in Customers, InCalendar(today), Upcoming(today) # {}
    PROVE  /\ First \in Upcoming(today) /\ First \in DOMAIN customer.events
           /\ \A i \in Upcoming(today) :
                 Ordinal(NextOccurrence(today, customer.events[First].day))
                 <= Ordinal(NextOccurrence(today, customer.events[i].day))
<1> DEFINE due(i) == Ordinal(NextOccurrence(today, customer.events[i].day))
           now == Ordinal(today)
           U == Upcoming(today)
           Comes(i) == \A j \in U : due(i) < due(j) \/ (due(i) = due(j) /\ i <= j)
<1>1. customer.events \in Seq(Events) /\ today \in Dates
  BY CustomerFacts DEF InCalendar
<1>2. U \subseteq DOMAIN customer.events /\ U \subseteq Nat
  <2>1. U \subseteq DOMAIN customer.events
    BY DEF Upcoming
  <2> QED
    BY <1>1, <2>1, EventAmounts
<1>3. now \in Int /\ \A i \in U : due(i) \in Int /\ due(i) - now \in Nat
  BY <1>1, <1>2, OccurrenceType, OrdinalType
<1>u. U # {}
  OBVIOUS
<1> HIDE DEF U, due, now
<1>4. PICK i \in U : \A j \in U : due(i) <= due(j)
  <2> DEFINE D == {due(i) - now : i \in U}
  <2>1. D \in SUBSET Nat /\ D # {}
    BY <1>3, <1>u
  <2>2. PICK n \in D : \A m \in D : n <= m
    <3> HIDE DEF D
    <3> QED
      BY <2>1, LeastNumber
  <2>3. PICK i \in U : n = due(i) - now
    OBVIOUS
  <2>4. \A j \in U : n <= due(j) - now
    BY <2>2
  <2>5. \A j \in U : due(i) <= due(j)
    BY <1>3, <2>3, <2>4
  <2> QED
    BY <2>5
<1>5. PICK k \in U : due(k) = due(i) /\ \A j \in U : due(j) = due(i) => k <= j
  <2> DEFINE D == {j \in U : due(j) = due(i)}
  <2>1. D \in SUBSET Nat /\ D # {}
    BY <1>2
  <2>2. PICK n \in D : \A m \in D : n <= m
    <3> HIDE DEF D
    <3> QED
      BY <2>1, LeastNumber
  <2> QED
    BY <2>2
<1>6. Comes(k)
  <2> SUFFICES ASSUME NEW j \in U PROVE due(k) < due(j) \/ (due(k) = due(j) /\ k <= j)
    OBVIOUS
  <2>1. due(k) <= due(j) /\ due(k) \in Int /\ due(j) \in Int
    BY <1>3, <1>4, <1>5
  <2> QED
    BY <1>5, <2>1
<1>7. First = CHOOSE j \in U : Comes(j)
  BY DEF First, U, due
<1> HIDE DEF Comes
<1>8. First \in U /\ Comes(First)
  BY <1>6, <1>7
<1>9. \A j \in U : due(First) <= due(j)
  <2> SUFFICES ASSUME NEW j \in U PROVE due(First) <= due(j)
    OBVIOUS
  <2>1. due(First) \in Int /\ due(j) \in Int
    BY <1>3, <1>8
  <2>2. due(First) < due(j) \/ due(First) = due(j)
    BY <1>8 DEF Comes
  <2> QED
    BY <2>1, <2>2
<1> QED
  BY <1>2, <1>8, <1>9 DEF U, due

\* The numbers of a finite set can be counted.
LEMMA Ranks ==
    ASSUME NEW S, S \subseteq Nat, IsFiniteSet(S)
    PROVE  \A i \in 1..Cardinality(S) : \E j \in S : Cardinality({k \in S : k <= j}) = i
<1> DEFINE Ranked(A) ==
             \A i \in 1..Cardinality(A) : \E j \in A : Cardinality({k \in A : k <= j}) = i
           Bad == {n \in Nat : \E A \in SUBSET S : Cardinality(A) = n /\ ~Ranked(A)}
<1>0. ASSUME NEW A \in SUBSET S PROVE IsFiniteSet(A) /\ Cardinality(A) \in Nat
  BY FS_Subset, FS_CardinalityType
<1> SUFFICES ASSUME Bad # {} PROVE FALSE
  <2>1. S \in SUBSET S
    OBVIOUS
  <2> HIDE DEF Ranked
  <2>2. Ranked(S)
    BY <1>0, <2>1
  <2> QED
    BY <2>2 DEF Ranked
<1>1. Bad \in SUBSET Nat
  OBVIOUS
<1>2. PICK n \in Bad : \A m \in Bad : n <= m
  <2> HIDE DEF Bad
  <2> QED
    BY <1>1, LeastNumber
<1>3. PICK A \in SUBSET S : Cardinality(A) = n /\ ~Ranked(A)
  <2> HIDE DEF Ranked
  <2> QED
    OBVIOUS
<1>b. IsFiniteSet(A) /\ A \in SUBSET Nat /\ n \in Nat /\ n = Cardinality(A)
  BY <1>0, <1>3
<1>4. PICK i \in 1..Cardinality(A) : \A j \in A : Cardinality({k \in A : k <= j}) # i
  BY <1>3
<1>5. Cardinality(A) \in Nat /\ A # {}
  <2>1. Cardinality(A) \in Nat
    BY <1>b, FS_CardinalityType
  <2>2. A # {}
    BY <1>4, <1>b, <2>1, FS_EmptySet
  <2> QED
    BY <2>1, <2>2
<1>6. PICK x \in A : \A y \in A : x <= y
  BY <1>b, <1>5, LeastNumber
<1>7. i # 1
  <2>0. ASSUME NEW k \in A, k <= x PROVE k = x
    <3>1. k \in Nat /\ x \in Nat /\ x <= k
      BY <1>b, <1>6
    <3> QED
      BY <2>0, <3>1
  <2>a. x \in A /\ x <= x
    BY <1>b, <1>6
  <2>1. {k \in A : k <= x} = {x}
    BY <2>a, <2>0, Zenon
  <2>2. Cardinality({x}) = 1
    BY FS_Singleton
  <2> QED
    BY <1>4, <2>1, <2>2
<1> DEFINE B == A \ {x}
<1>8. IsFiniteSet(B) /\ Cardinality(B) = Cardinality(A) - 1
  BY <1>b, FS_RemoveElement
<1>9. Ranked(B)
  <2>1. B \in SUBSET S
    BY <1>3
  <2>2. Cardinality(B) \in Nat /\ ~(n <= Cardinality(B))
    BY <1>b, <1>5, <1>8
  <2>3. Cardinality(B) \notin Bad
    BY <1>2, <2>2
  <2> HIDE DEF B, Ranked
  <2> QED
    BY <2>1, <2>2, <2>3
<1>10. PICK j \in B : Cardinality({k \in B : k <= j}) = i - 1
  <2>1. i - 1 \in 1..Cardinality(B)
    BY <1>5, <1>7, <1>8
  <2> HIDE DEF B
  <2> QED
    BY <1>9, <2>1
<1>11. {k \in A : k <= j} = {k \in B : k <= j} \cup {x}
  BY <1>b, <1>6
<1>12. Cardinality({k \in B : k <= j} \cup {x}) = (i - 1) + 1
  <2>1. IsFiniteSet({k \in B : k <= j}) /\ x \notin {k \in B : k <= j}
    BY <1>8, FS_Subset
  <2> HIDE DEF B
  <2> QED
    BY <1>10, <2>1, FS_AddElement
<1> QED
  BY <1>4, <1>10, <1>11, <1>12

-----------------------------------------------------------------------------
(* The days of the salary *)

FirstDay(p) == Date(YearOf(p), MonthOf(p), 1)

LEMMA FirstDayFacts ==
    ASSUME NEW d \in Dates, d.day = 1
    PROVE  d = FirstDay(Period(d))
<1>1. YearOf(Period(d)) = d.year /\ MonthOf(Period(d)) = d.month
  BY PeriodFacts
<1>2. d = [year |-> d.year, month |-> d.month, day |-> d.day]
  BY DEF Dates
<1> QED
  BY <1>1, <1>2 DEF FirstDay, Date

\* The first days of the months that _salary_dates goes through.
LEMMA CursorFacts ==
    ASSUME NEW d \in Dates, NEW n \in Nat, NEW f,
           f = [k \in 0..n |-> IF k = 0 THEN OnDay(d, 1) ELSE NextMonth(f[k - 1])]
    PROVE  \A k \in 0..n : f[k] \in Dates /\ f[k].day = 1 /\ Period(f[k]) = Period(d) + k
<1> DEFINE Good(k) == f[k] \in Dates /\ f[k].day = 1 /\ Period(f[k]) = Period(d) + k
           Bad == {k \in Nat : k <= n /\ ~Good(k)}
<1>0. Period(d) \in Int /\ 1 \in 1..31
  BY PeriodType
<1>1. ASSUME Bad # {} PROVE FALSE
  <2>1. Bad \in SUBSET Nat
    OBVIOUS
  <2>2. PICK k \in Bad : \A j \in Bad : k <= j
    <3> HIDE DEF Bad
    <3> QED
      BY <1>1, <2>1, LeastNumber
  <2>3. k \in 0..n /\ ~Good(k)
    OBVIOUS
  <2>4. CASE k = 0
    <3>1. f[k] = OnDay(d, 1)
      BY <2>3, <2>4
    <3>2. /\ OnDay(d, 1) \in Dates /\ Period(OnDay(d, 1)) = Period(d)
          /\ OnDay(d, 1).day = Least(1, MonthLength(d.year, d.month))
      BY <1>0, OnDayFacts
    <3>3. Least(1, MonthLength(d.year, d.month)) = 1
      BY MonthLengthFacts DEF Least
    <3> QED
      BY <1>0, <2>3, <2>4, <3>1, <3>2, <3>3
  <2>5. CASE k # 0
    <3>1. k - 1 \in 0..n /\ ~(k <= k - 1)
      BY <2>3, <2>5
    <3>2. k - 1 \notin Bad
      <4> HIDE DEF Bad
      <4> QED
        BY <2>2, <3>1
    <3>3. Good(k - 1)
      BY <3>1, <3>2
    <3>4. f[k] = NextMonth(f[k - 1])
      BY <2>3, <2>5
    <3>5. /\ f[k] \in Dates /\ f[k].day = 1
          /\ Period(f[k]) = Period(f[k - 1]) + 1
      BY <3>3, <3>4, NextMonthFacts
    <3> QED
      BY <1>0, <2>3, <3>3, <3>5
  <2> QED
    BY <2>4, <2>5
<1>2. \A k \in 0..n : Good(k)
  <2> HIDE DEF Good
  <2> QED
    BY <1>1
<1> QED
  BY <1>2

LEMMA CursorExists ==
    ASSUME NEW d \in Dates, NEW n \in Nat
    PROVE  \E f : f = [k \in 0..n |-> IF k = 0 THEN OnDay(d, 1) ELSE NextMonth(f[k - 1])]
<1>0. PICK p \in Nat : p = Period(d) /\ p >= 13
  BY DEF Period, Dates
<1>1. PICK f : f = [k \in 0..n |-> FirstDay(p + k)]
  OBVIOUS
<1>2. FirstDay(p) = OnDay(d, 1)
  <2>1. OnDay(d, 1) \in Dates /\ Period(OnDay(d, 1)) = p
        /\ OnDay(d, 1).day = Least(1, MonthLength(d.year, d.month))
    BY <1>0, OnDayFacts
  <2>2. Least(1, MonthLength(d.year, d.month)) = 1
    BY MonthLengthFacts DEF Least
  <2> QED
    BY <2>1, <2>2, FirstDayFacts
<1>3. ASSUME NEW q \in Nat, q >= 13 PROVE FirstDay(q + 1) = NextMonth(FirstDay(q))
  <2>1. /\ YearOf(q) \in Nat \ {0} /\ MonthOf(q) \in 1..12
        /\ 12 * YearOf(q) + MonthOf(q) = q
    BY <1>3 DEF YearOf, MonthOf
  <2>2. PICK e : e = FirstDay(q) /\ e = [year |-> YearOf(q), month |-> MonthOf(q), day |-> 1]
    BY DEF FirstDay, Date
  <2>3. e \in Dates /\ Period(e) = q
    BY <2>1, <2>2 DEF Dates, Period
  <2>4. NextMonth(e) \in Dates /\ NextMonth(e).day = 1 /\ Period(NextMonth(e)) = q + 1
    BY <2>3, NextMonthFacts
  <2> QED
    BY <2>2, <2>4, FirstDayFacts
<1>4. ASSUME NEW k \in 0..n
      PROVE  FirstDay(p + k) = IF k = 0 THEN OnDay(d, 1) ELSE NextMonth(f[k - 1])
  <2>1. CASE k = 0
    BY <1>0, <1>2, <2>1
  <2>2. CASE k # 0
    <3>1. k - 1 \in 0..n /\ f[k - 1] = FirstDay(p + (k - 1))
      BY <1>1, <2>2
    <3>2. PICK q \in Nat : q = p + (k - 1) /\ q >= 13 /\ q + 1 = p + k
      BY <1>0, <2>2
    <3>3. FirstDay(q + 1) = NextMonth(FirstDay(q))
      BY <1>3, <3>2
    <3> QED
      BY <2>2, <3>1, <3>2, <3>3
  <2> QED
    BY <2>1, <2>2
<1>5. f = [k \in 0..n |-> IF k = 0 THEN OnDay(d, 1) ELSE NextMonth(f[k - 1])]
  BY <1>1, <1>4
<1> QED
  BY <1>5

PayDates(from, until, day) ==
    {e \in Dates : InCalendar(e) /\ DueOn(e, day)
                   /\ Ordinal(from) < Ordinal(e) /\ Ordinal(e) <= Ordinal(until)}

\* The loop over the months finds every day of a salary, and no other.
LEMMA SalaryDatesFacts ==
    ASSUME NEW d \in Dates, InCalendar(d), NEW until \in Dates, InCalendar(until),
           Ordinal(d) <= Ordinal(until), NEW day \in 1..31
    PROVE  SalaryDates(d, until, day) = PayDates(d, until, day)
<1> DEFINE n == (until.year - d.year) * 12 + until.month - d.month
           Steps(f) == f = [k \in 0..n |-> IF k = 0 THEN OnDay(d, 1) ELSE NextMonth(f[k - 1])]
           cursor == CHOOSE f : Steps(f)
<1>0. PICK p \in Int, u \in Int : p = Period(d) /\ u = Period(until)
  BY PeriodType
<1>1. n = u - p
  BY <1>0 DEF Period, Dates
<1>2. n \in Nat
  <2>1. ~(Period(until) < Period(d))
    <3>1. Ordinal(d) \in Int /\ Ordinal(until) \in Int
      BY OrdinalType
    <3> QED
      BY <3>1, MonthOrder
  <2> HIDE DEF n
  <2> QED
    BY <1>0, <1>1, <2>1
<1>3. SalaryDates(d, until, day)
        = {e \in {OnDay(cursor[k], day) : k \in 0..n} :
             Ordinal(d) < Ordinal(e) /\ Ordinal(e) <= Ordinal(until)}
  BY DEF SalaryDates
<1> HIDE DEF n
<1>4. Steps(cursor)
  <2>1. \E f : Steps(f)
    BY <1>2, CursorExists
  <2> HIDE DEF Steps
  <2> QED
    BY <2>1
<1> HIDE DEF cursor
<1>5. \A k \in 0..n : cursor[k] \in Dates /\ cursor[k].day = 1 /\ Period(cursor[k]) = p + k
  <2>1. cursor = [k \in 0..n |-> IF k = 0 THEN OnDay(d, 1) ELSE NextMonth(cursor[k - 1])]
    BY <1>4
  <2> HIDE DEF Steps
  <2>2. \A k \in 0..n : cursor[k] \in Dates /\ cursor[k].day = 1
                        /\ Period(cursor[k]) = Period(d) + k
    BY <1>2, <2>1, CursorFacts
  <2> QED
    BY <1>0, <2>2
<1>6. ASSUME NEW k \in 0..n
      PROVE  /\ OnDay(cursor[k], day) \in Dates /\ InCalendar(OnDay(cursor[k], day))
             /\ DueOn(OnDay(cursor[k], day), day)
  <2>1. PICK c \in Dates : c = cursor[k]
    BY <1>5
  <2> QED
    BY <2>1, OnDayFacts DEF DueOn
<1>7. ASSUME NEW e \in PayDates(d, until, day)
      PROVE  \E k \in 0..n : e = OnDay(cursor[k], day)
  <2>1. /\ e \in Dates /\ InCalendar(e) /\ e.day = Least(day, MonthLength(e.year, e.month))
        /\ Ordinal(d) < Ordinal(e) /\ Ordinal(e) <= Ordinal(until)
    BY DEF PayDates, DueOn
  <2>2. PICK q \in Int : q = Period(e)
    BY <2>1, PeriodType
  <2>3. /\ Ordinal(d) \in Int /\ Ordinal(e) \in Int /\ Ordinal(until) \in Int
    BY <2>1, OrdinalType
  <2>4. p <= q /\ q <= u
    BY <1>0, <2>1, <2>2, <2>3, MonthOrder
  <2>5. PICK k \in 0..n : p + k = q
    <3>1. q - p \in 0..n /\ p + (q - p) = q
      BY <1>1, <2>4
    <3> QED
      BY <3>1
  <2>6. PICK c \in Dates : c = cursor[k] /\ Period(c) = q
    BY <1>5, <2>5
  <2>7. c.year = e.year /\ c.month = e.month
    BY <2>1, <2>2, <2>6, PeriodFacts
  <2>8. OnDay(c, day) = [year |-> e.year, month |-> e.month, day |-> e.day]
    BY <2>1, <2>7 DEF OnDay, Date
  <2>9. e = [year |-> e.year, month |-> e.month, day |-> e.day]
    BY <2>1 DEF Dates
  <2> QED
    BY <2>5, <2>6, <2>8, <2>9
<1>8. SalaryDates(d, until, day) \subseteq PayDates(d, until, day)
  BY <1>3, <1>6 DEF PayDates
<1>9. PayDates(d, until, day) \subseteq SalaryDates(d, until, day)
  <2>1. \A e \in PayDates(d, until, day) :
           Ordinal(d) < Ordinal(e) /\ Ordinal(e) <= Ordinal(until)
    BY DEF PayDates
  <2> QED
    BY <1>3, <1>7, <2>1
<1> QED
  BY <1>8, <1>9

PaidBetween(day, from, until) ==
    {n \in from..until : \E d \in Dates : InCalendar(d) /\ Ordinal(d) = n /\ DueOn(d, day)}

LEMMA PaidBetweenFacts ==
    ASSUME NEW day, NEW from \in Int, NEW until \in Int
    PROVE  /\ IsFiniteSet(PaidBetween(day, from, until))
           /\ Cardinality(PaidBetween(day, from, until)) \in Nat
<1>1. IsFiniteSet(from..until)
  BY FS_Interval
<1>2. PaidBetween(day, from, until) \subseteq from..until
  BY DEF PaidBetween
<1> QED
  BY <1>1, <1>2, FS_Subset, FS_CardinalityType

\* As many salaries as days on which one is paid.
LEMMA SalaryCount ==
    ASSUME NEW d \in Dates, InCalendar(d), NEW n \in Nat, NEW day \in 1..31
    PROVE  Cardinality(SalaryDates(d, Plus(d, n), day))
             = Cardinality(PaidBetween(day, Ordinal(d) + 1, Ordinal(d) + n))
<1>1. PICK until \in Dates : until = Plus(d, n) /\ InCalendar(until)
                              /\ Ordinal(until) = Ordinal(d) + n
  BY PlusFacts DEF InCalendar
<1>2. PICK o \in Int : o = Ordinal(d)
  BY OrdinalType
<1> DEFINE S == PayDates(d, until, day)
           T == PaidBetween(day, o + 1, o + n)
<1>3. SalaryDates(d, until, day) = S
  BY <1>1, <1>2, SalaryDatesFacts
<1>4. ASSUME NEW m \in T PROVE \E e \in S : Ordinal(e) = m
  <2>1. PICK e \in Dates : InCalendar(e) /\ Ordinal(e) = m /\ DueOn(e, day)
    BY DEF PaidBetween
  <2>2. m \in Int /\ o < m /\ m <= o + n
    BY <1>2 DEF PaidBetween
  <2>3. e \in S
    BY <1>1, <1>2, <2>1, <2>2 DEF PayDates
  <2> HIDE DEF S
  <2> QED
    BY <2>1, <2>3
<1>5. ASSUME NEW e \in S PROVE Ordinal(e) \in T
  <2>1. e \in Dates /\ InCalendar(e) /\ DueOn(e, day) /\ o < Ordinal(e) /\ Ordinal(e) <= o + n
    BY <1>1, <1>2 DEF PayDates
  <2>2. PICK m \in Int : m = Ordinal(e)
    BY <2>1, OrdinalType
  <2>3. m \in (o + 1)..(o + n)
    BY <1>2, <2>1, <2>2
  <2> HIDE DEF S
  <2> QED
    BY <2>1, <2>2, <2>3 DEF PaidBetween
<1>6. ASSUME NEW e \in S, NEW g \in S, Ordinal(e) = Ordinal(g) PROVE e = g
  <2>1. e \in Dates /\ InCalendar(e) /\ g \in Dates /\ InCalendar(g)
    BY DEF PayDates
  <2> QED
    BY <1>6, <2>1, OrdinalInjective
<1> HIDE DEF S, T
<1>7. PICK at : at = [m \in T |-> CHOOSE e \in S : Ordinal(e) = m]
  OBVIOUS
<1>8. at \in [T -> S] /\ \A m \in T : at[m] \in S /\ Ordinal(at[m]) = m
  BY <1>4, <1>7
<1>9. at \in Injection(T, S)
  BY <1>8 DEF Injection, IsInjective
<1>10. at \in Surjection(T, S)
  <2>1. ASSUME NEW e \in S PROVE \E m \in T : at[m] = e
    <3>1. Ordinal(e) \in T
      BY <1>5
    <3>2. at[Ordinal(e)] \in S /\ Ordinal(at[Ordinal(e)]) = Ordinal(e)
      BY <1>8, <3>1
    <3> QED
      BY <1>6, <3>1, <3>2
  <2> QED
    BY <1>8, <2>1 DEF Surjection
<1>11. IsFiniteSet(T)
  BY <1>2, PaidBetweenFacts DEF T
<1>12. Cardinality(S) = Cardinality(T)
  BY <1>9, <1>10, <1>11, FS_Bijection DEF Bijection, ExistsBijection
<1> QED
  BY <1>1, <1>2, <1>3, <1>12 DEF T

-----------------------------------------------------------------------------
(* The spending of the lookback days *)

\* The sum of one number for each element.
LEMMA TotalConstant ==
    ASSUME NEW S, IsFiniteSet(S), NEW c \in Int, NEW v, \A x \in S : v[x] = c
    PROVE  Total(v, S) = c * Cardinality(S)
<1> DEFINE Bad == {A \in SUBSET S : Total(v, A) # c * Cardinality(A)}
<1> SUFFICES ASSUME Bad # {} PROVE FALSE
  OBVIOUS
<1>1. Bad \in SUBSET SUBSET S
  OBVIOUS
<1>2. PICK A \in Bad : \A t \in Bad : ~(t \subseteq A /\ t # A)
  <2> HIDE DEF Bad
  <2> QED
    BY <1>1, LeastSubset
<1>3. A \in SUBSET S /\ Total(v, A) # c * Cardinality(A)
  OBVIOUS
<1>4. IsFiniteSet(A) /\ Cardinality(A) \in Nat
  BY <1>3, FS_Subset, FS_CardinalityType
<1>5. PICK x \in A : TRUE
  <2>1. Total(v, {}) = 0 /\ Cardinality({}) = 0
    BY TotalEmpty, FS_EmptySet
  <2>2. Total(v, {}) = c * Cardinality({})
    BY <2>1
  <2>3. A # {}
    BY <1>3, <2>2
  <2> QED
    BY <2>3
<1>6. Total(v, A) = v[x] + Total(v, A \ {x})
  BY <1>3, <1>4, TotalRemove
<1>7. Total(v, A \ {x}) = c * Cardinality(A \ {x})
  BY <1>2, <1>3
<1>8. Cardinality(A \ {x}) = Cardinality(A) - 1 /\ v[x] = c
  BY <1>3, <1>4, FS_RemoveElement
<1>9. PICK n \in Nat : n = Cardinality(A)
  BY <1>4
<1>10. Total(v, A) = c + c * (n - 1)
  BY <1>6, <1>7, <1>8, <1>9
<1>11. c + c * (n - 1) = c * n
  OBVIOUS
<1> QED
  BY <1>3, <1>9, <1>10, <1>11

Spends(row) == row.category \notin {"SALARY", "RENT", "UTILITY", "TRANSFER"}

LEMMA DiscretionaryFacts ==
    ASSUME NEW log \in Seq(Entries), NEW d
    PROVE  LET S == Discretionary(log, d)
           IN /\ S \subseteq 1..Len(log) /\ IsFiniteSet(S)
              /\ Amount(log, S) = Total(Amounts(log), S)
              /\ \A i \in S : Amounts(log)[i] \in Nat /\ Amounts(log)[i] = log[i].amount
              /\ Amount(log, S) \in Nat
              /\ \A i \in 1..Len(log) :
                    i \in S <=> /\ Spends(log[i]) /\ log[i].on < Ordinal(d)
                                /\ log[i].on >= Ordinal(d) - Lookback
<1> DEFINE S == Discretionary(log, d)
<1>1. DOMAIN log = 1..Len(log) /\ Len(log) \in Nat
  BY LenProperties
<1>2. /\ S \subseteq 1..Len(log)
      /\ \A i \in 1..Len(log) : i \in S <=> /\ Spends(log[i]) /\ log[i].on < Ordinal(d)
                                            /\ log[i].on >= Ordinal(d) - Lookback
  BY <1>1 DEF Discretionary, Spends
<1> HIDE DEF S
<1>3. IsFiniteSet(S)
  <2>1. IsFiniteSet(1..Len(log))
    BY <1>1, FS_Interval
  <2> QED
    BY <1>2, <2>1, FS_Subset
<1>4. \A i \in S : Amounts(log)[i] \in Nat /\ Amounts(log)[i] = log[i].amount
  BY <1>1, <1>2, EntryFacts DEF Amounts
<1>5. Amount(log, S) = Total(Amounts(log), S)
  BY <1>1, <1>2, <1>3, AmountIsTotal
<1>6. Total(Amounts(log), S) \in Nat
  BY <1>3, <1>4, TotalNat
<1> QED
  BY <1>2, <1>3, <1>4, <1>5, <1>6 DEF S

\* Of the days that the context covers, it has all spending.
LEMMA ContextDiscretionary ==
    ASSUME NEW log, NEW d \in Dates, Ordered(log, d),
           LET dropped == Len(log) - ContextLimit
           IN dropped <= 0 \/ log[dropped].on < Ordinal(d) - Lookback
    PROVE  Amount(Context(log), Discretionary(Context(log), d))
             = Amount(log, Discretionary(log, d))
<1> DEFINE S == Discretionary(log, d)
           recent == Context(log)
           R == Discretionary(recent, d)
<1>1. log \in Seq(Entries) /\ Len(log) \in Nat /\ ContextLimit \in Nat /\ Lookback \in Nat
  BY ConstantsAssumption, LenProperties DEF Ordered
<1>2. PICK n \in 0..Len(log) :
         /\ n = (IF Len(log) <= ContextLimit THEN 0 ELSE Len(log) - ContextLimit)
         /\ recent \in Seq(Entries)
         /\ Len(recent) = Len(log) - n
         /\ \A i \in 1..Len(recent) : recent[i] = log[n + i]
  BY <1>1, ContextFacts
<1>3. PICK m \in Nat, k \in Nat, o \in Int :
         m = Len(log) /\ k = ContextLimit /\ o = Ordinal(d) - Lookback
  <2>1. Ordinal(d) \in Int /\ Ordinal(d) - Lookback \in Int
    BY <1>1, OrdinalType
  <2> QED
    BY <1>1, <2>1
<1>4. n \in 0..m /\ n = IF m <= k THEN 0 ELSE m - k
  <2>1. n = IF Len(log) <= ContextLimit THEN 0 ELSE Len(log) - ContextLimit
    BY <1>2
  <2> QED
    BY <1>3, <2>1
<1>5. /\ S \subseteq 1..m
      /\ Amount(log, S) = Total(Amounts(log), S)
      /\ \A i \in S : Amounts(log)[i] = log[i].amount
      /\ \A i \in 1..m : i \in S <=> /\ Spends(log[i]) /\ log[i].on < Ordinal(d)
                                     /\ log[i].on >= o
  BY <1>1, <1>3, DiscretionaryFacts
<1>6. /\ R \subseteq 1..(m - n) /\ IsFiniteSet(R)
      /\ Amount(recent, R) = Total(Amounts(recent), R)
      /\ \A i \in R : Amounts(recent)[i] \in Nat /\ Amounts(recent)[i] = recent[i].amount
      /\ \A i \in 1..(m - n) : i \in R <=> /\ Spends(recent[i]) /\ recent[i].on < Ordinal(d)
                                           /\ recent[i].on >= o
  BY <1>2, <1>3, DiscretionaryFacts
<1>7. \A i \in 1..(m - n) : recent[i] = log[n + i] /\ n + i \in 1..m
  BY <1>2, <1>3, <1>4
<1> HIDE DEF S, R, recent
<1>8. ASSUME NEW i \in S PROVE i > n
  <2> SUFFICES ASSUME i <= n PROVE FALSE
    BY <1>4, <1>5
  <2>1. i \in 1..m /\ n \in 1..m /\ log[i].on >= o
    BY <1>4, <1>5
  <2>2. n = m - k /\ ~(m - k <= 0)
    BY <1>4, <2>1
  <2>3. log[n].on < o
    BY <1>3, <2>2
  <2>4. log[i].on <= log[n].on
    BY <1>3, <2>1 DEF Ordered
  <2>5. log[i].on \in Int /\ log[n].on \in Int
    BY <1>1, <1>3, <2>1, EntryFacts
  <2> QED
    BY <2>1, <2>3, <2>4, <2>5
<1>9. PICK f : f = [i \in R |-> n + i]
  OBVIOUS
<1>10. \A x, y \in R : f[x] = f[y] => x = y
  BY <1>4, <1>6, <1>9
<1>11. ASSUME NEW x \in R
       PROVE  f[x] \in S /\ recent[x] = log[f[x]]
  <2>1. x \in 1..(m - n) /\ f[x] = n + x /\ recent[x] = log[n + x] /\ n + x \in 1..m
    BY <1>6, <1>7, <1>9
  <2> QED
    BY <1>5, <1>6, <2>1
<1>12. ASSUME NEW i \in S PROVE \E x \in R : f[x] = i
  <2>1. i \in 1..m /\ i - n \in 1..(m - n) /\ n + (i - n) = i
    BY <1>4, <1>5, <1>8
  <2>2. recent[i - n] = log[i]
    BY <1>7, <2>1
  <2>3. i - n \in R
    BY <1>5, <1>6, <2>1, <2>2
  <2> QED
    BY <1>9, <2>1, <2>3
<1>13. \A x \in R : /\ Amounts(recent)[x] \in Int
                    /\ Amounts(recent)[x] = Amounts(log)[f[x]]
  <2> SUFFICES ASSUME NEW x \in R
               PROVE  /\ Amounts(recent)[x] \in Int
                      /\ Amounts(recent)[x] = Amounts(log)[f[x]]
    OBVIOUS
  <2>1. f[x] \in S /\ recent[x] = log[f[x]]
    BY <1>11
  <2>2. Amounts(recent)[x] \in Nat /\ Amounts(recent)[x] = recent[x].amount
    BY <1>6
  <2>3. Amounts(log)[f[x]] = log[f[x]].amount
    BY <1>5, <2>1
  <2> QED
    BY <2>1, <2>2, <2>3
<1>14. Total(Amounts(recent), R) = Total(Amounts(log), S)
  <2>1. \A x \in R : f[x] \in S
    BY <1>11
  <2>2. \A i \in S : \E x \in R : f[x] = i
    BY <1>12
  <2>3. IsFiniteSet(R)
    BY <1>6
  <2>4. PICK v, w : v = Amounts(log) /\ w = Amounts(recent)
    OBVIOUS
  <2>5. \A x \in R : w[x] \in Int /\ w[x] = v[f[x]]
    BY <1>13, <2>4
  <2>6. Total(w, R) = Total(v, S)
    BY <1>10, <2>1, <2>2, <2>3, <2>5, TotalSame
  <2> QED
    BY <2>4, <2>6
<1> QED
  BY <1>5, <1>6, <1>14 DEF S, R, recent

\* A purchase of the amount on each of the days.
Daily(log, from, until, amount) ==
    \A n \in from..until : \E i \in 1..Len(log) :
        Spends(log[i]) /\ log[i].on = n /\ log[i].amount = amount

\* No other spending: what there is has the amount, and there is one of a day.
Sole(log, amount) ==
    \A i \in 1..Len(log) : Spends(log[i]) =>
        /\ log[i].amount = amount
        /\ \A j \in 1..Len(log) : Spends(log[j]) /\ log[j].on = log[i].on => j = i

LEMMA LookbackAmount ==
    ASSUME NEW log \in Seq(Entries), NEW d \in Dates, NEW amount \in Nat
    PROVE  LET daily == amount > 0 =>
                          Daily(log, Ordinal(d) - Lookback, Ordinal(d) - 1, amount)
               spent == Amount(log, Discretionary(log, d))
           IN /\ daily => spent >= Lookback * amount
              /\ daily /\ Sole(log, amount) => spent = Lookback * amount
<1> DEFINE S == Discretionary(log, d)
           v == Amounts(log)
           o == Ordinal(d)
           W == (o - Lookback)..(o - 1)
<1>1. o \in Int /\ Lookback \in Nat \ {0} /\ Lookback * amount \in Nat
  BY OrdinalType, ConstantsAssumption
<1>2. IsFiniteSet(W) /\ Cardinality(W) = Lookback
  <2>1. o - Lookback \in Int /\ o - 1 \in Int
    BY <1>1
  <2>2. ~(o - Lookback > o - 1) /\ (o - 1) - (o - Lookback) + 1 = Lookback
    BY <1>1
  <2> HIDE DEF o
  <2> QED
    BY <2>1, <2>2, FS_Interval
<1>3. /\ S \subseteq 1..Len(log) /\ IsFiniteSet(S)
      /\ Amount(log, S) = Total(v, S) /\ Total(v, S) \in Nat
      /\ \A i \in S : v[i] \in Nat /\ v[i] = log[i].amount
      /\ \A i \in 1..Len(log) :
            i \in S <=> Spends(log[i]) /\ log[i].on < o /\ log[i].on >= o - Lookback
  BY DiscretionaryFacts
<1>4. \A i \in 1..Len(log) : log[i].on \in Int /\ log[i].amount \in Nat \ {0}
  BY EntryFacts
<1>5. \A i \in 1..Len(log) : i \in S <=> Spends(log[i]) /\ log[i].on \in W
  <2>1. \A n \in Int : n \in W <=> n < o /\ n >= o - Lookback
    BY <1>1
  <2> HIDE DEF W, o, S
  <2> QED
    BY <1>3, <1>4, <2>1
<1> HIDE DEF S, v, W
<1>6. PICK w : w = [n \in W |-> amount]
  OBVIOUS
<1>7. Total(w, W) = Lookback * amount
  <2>1. Total(w, W) = amount * Cardinality(W)
    BY <1>2, <1>6, TotalConstant
  <2> QED
    BY <1>1, <1>2, <2>1
<1>8. ASSUME amount > 0, Daily(log, o - Lookback, o - 1, amount)
      PROVE  \A n \in W : \E i \in S : log[i].on = n /\ log[i].amount = amount
  BY <1>5, <1>8 DEF Daily, W
<1>9. ASSUME amount > 0, Daily(log, o - Lookback, o - 1, amount)
      PROVE  Total(v, S) >= Lookback * amount
  <2>1. PICK at : at = [n \in W |-> CHOOSE i \in S : log[i].on = n /\ log[i].amount = amount]
    OBVIOUS
  <2>2. ASSUME NEW n \in W PROVE at[n] \in S /\ log[at[n]].on = n /\ log[at[n]].amount = amount
    BY <1>8, <1>9, <2>1
  <2>3. PICK T : T = {at[n] : n \in W}
    OBVIOUS
  <2>4. T \in SUBSET S
    BY <2>2, <2>3
  <2>5. \A n, m \in W : at[n] = at[m] => n = m
    BY <2>2
  <2>6. \A n \in W : at[n] \in T
    BY <2>3
  <2>7. \A i \in T : \E n \in W : at[n] = i
    BY <2>3
  <2>8. \A n \in W : w[n] \in Int /\ w[n] = v[at[n]]
    <3> SUFFICES ASSUME NEW n \in W PROVE w[n] \in Int /\ w[n] = v[at[n]]
      OBVIOUS
    <3>1. v[at[n]] = log[at[n]].amount
      BY <1>3, <2>2
    <3> QED
      BY <1>6, <2>2, <3>1
  <2>9. Total(w, W) = Total(v, T)
    BY <1>2, <2>5, <2>6, <2>7, <2>8, TotalSame
  <2>10. Total(v, T) <= Total(v, S)
    BY <1>3, <2>4, TotalNat
  <2> QED
    BY <1>1, <1>3, <1>7, <2>9, <2>10
<1>10. ASSUME amount > 0, Daily(log, o - Lookback, o - 1, amount), Sole(log, amount)
       PROVE  Total(v, S) = Lookback * amount
  <2>1. PICK f : f = [i \in S |-> log[i].on]
    OBVIOUS
  <2>2. \A i, j \in S : f[i] = f[j] => i = j
    BY <1>3, <1>5, <1>10, <2>1 DEF Sole
  <2>3. \A i \in S : f[i] \in W
    BY <1>3, <1>5, <2>1
  <2>4. \A n \in W : \E i \in S : f[i] = n
    BY <1>8, <1>10, <2>1
  <2>5. \A i \in S : v[i] \in Int /\ v[i] = w[f[i]]
    <3>1. \A i \in S : log[i].amount = amount
      BY <1>3, <1>5, <1>10 DEF Sole
    <3> QED
      BY <1>3, <1>6, <2>3, <3>1
  <2>6. Total(v, S) = Total(w, W)
    <3>1. IsFiniteSet(S)
      BY <1>3
    <3> QED
      BY <2>2, <2>3, <2>4, <2>5, <3>1, TotalSame
  <2> QED
    BY <1>7, <2>6
<1>11. ASSUME amount = 0, Sole(log, amount) PROVE Total(v, S) = Lookback * amount
  <2>1. S = {}
    BY <1>3, <1>4, <1>5, <1>11 DEF Sole
  <2>2. Lookback * amount = 0
    BY <1>1, <1>11
  <2> QED
    BY <2>1, <2>2, TotalEmpty
<1>12. amount = 0 => Total(v, S) >= Lookback * amount
  BY <1>1, <1>3
<1> QED
  BY <1>3, <1>9, <1>10, <1>11, <1>12 DEF S, o
=============================================================================
