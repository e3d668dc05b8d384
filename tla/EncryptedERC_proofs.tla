------------------------ MODULE EncryptedERC_proofs ------------------------
(***************************************************************************)
(* Proofs about EncryptedERC and the gift escrows on it, for any users,    *)
(* tokens, keys, amounts and gifts, and about the array behind the         *)
(* token's histories (UserHistoryDeletion), for arrays of any length.      *)
(*                                                                         *)
(* That a spend is covered is local to one balance: a credit raises every  *)
(* valid snapshot's cover, a spend is covered by the snapshot it verified  *)
(* and leaves one snapshot, its own result.  So lemmas about what the      *)
(* operators of EncryptedUserBalances write and preserve come first, then  *)
(* one step per action.  What the contract owes, what a history adds up to *)
(* and what an escrow holds are sums; the lemmas about finite sums come    *)
(* before everything else.                                                 *)
(***************************************************************************)
EXTENDS GiftEscrows, UserHistoryDeletion, FiniteSetTheorems, TLAPS

-----------------------------------------------------------------------------
(* Finite sums.  MapThenSumSet takes the elements in the order CHOOSE      *)
(* gives them; what a sum is does not depend on it.  The induction is by a *)
(* smallest counterexample.                                                *)

LEMMA LeastOf ==
    ASSUME NEW T \in SUBSET Nat, T # {}
    PROVE  \E m \in T : \A n \in T : m <= n
<1>1. PICK m \in T : \A n \in T : ~ (<<n, m>> \in OpToRel(<, Nat))
  BY NatLessThanWellFounded, WFMin
<1>2. \A n \in T : ~ (n < m)
  BY <1>1 DEF OpToRel
<1>3. QED
  BY <1>2

(* What the empty set has and an element more never costs, S has.          *)
LEMMA FiniteInduction ==
    ASSUME NEW S, IsFiniteSet(S), NEW P, {} \in P,
           \A T \in SUBSET S, x \in S : T \in P /\ x \notin T => T \cup {x} \in P
    PROVE  S \in P
<1> SUFFICES ASSUME S \notin P PROVE FALSE
  OBVIOUS
<1> DEFINE Bad == {n \in Nat : \E T \in SUBSET S : T \notin P /\ Cardinality(T) = n}
<1>1. Bad # {}
  <2>1. Cardinality(S) \in Nat
    BY FS_CardinalityType
  <2>2. QED
    BY <2>1
<1>2. PICK n \in Bad : \A k \in Bad : n <= k
  BY <1>1, LeastOf
<1>3. PICK T \in SUBSET S : T \notin P /\ Cardinality(T) = n
  BY <1>2
<1>4. PICK x : x \in T
  BY <1>3
<1>5. IsFiniteSet(T) /\ n \in Nat
  BY <1>2, FS_Subset
<1>6. Cardinality(T \ {x}) = n - 1 /\ Cardinality(T \ {x}) \in Nat
  BY <1>3, <1>4, <1>5, FS_RemoveElement, FS_CardinalityType
<1>7. T \ {x} \notin P
  <2>1. (T \ {x}) \cup {x} = T
    BY <1>4
  <2>2. x \in S /\ x \notin T \ {x} /\ T \ {x} \in SUBSET S
    BY <1>4
  <2>3. QED
    BY <1>3, <2>1, <2>2
<1>8. n - 1 \in Bad
  BY <1>6, <1>7
<1>9. QED
  BY <1>2, <1>5, <1>8

Some(s) == CHOOSE x \in s : TRUE

LEMMA SomeIn == ASSUME NEW s, s # {} PROVE Some(s) \in s
BY DEF Some

(* The function MapThenSumSet evaluates.                                   *)
SumOf(s, f, g) == IF s = {} THEN 0 ELSE f[Some(s)] + g[s \ {Some(s)}]

IsSum(g, f, S) == g = [s \in SUBSET S |-> SumOf(s, f, g)]

Numbers(f, S) == \A x \in S : f[x] \in Int

(* There is one, built from smaller subsets to larger ones.                *)
LEMMA SumExists ==
    ASSUME NEW S, IsFiniteSet(S), NEW f
    PROVE  \E g : IsSum(g, f, S)
<1> DEFINE Small(n) == {s \in SUBSET S : Cardinality(s) <= n}
           UpTo(n, g) == g = [s \in Small(n) |-> SumOf(s, f, g)]
           Bad == {n \in Nat : ~ \E g : UpTo(n, g)}
<1>1. \A s \in SUBSET S : IsFiniteSet(s) /\ Cardinality(s) \in Nat
  BY FS_Subset, FS_CardinalityType
<1>2. Bad = {}
  <2> SUFFICES ASSUME Bad # {} PROVE FALSE
    OBVIOUS
  <2>1. PICK n \in Bad : \A k \in Bad : n <= k
    BY LeastOf
  <2>2. CASE n = 0
    <3> DEFINE g == [s \in Small(0) |-> 0]
    <3>1. \A s \in Small(0) : s = {}
      BY <1>1, FS_EmptySet
    <3>2. g = [s \in Small(0) |-> SumOf(s, f, g)]
      BY <3>1 DEF SumOf
    <3>3. QED
      BY <2>1, <2>2, <3>2
  <2>3. CASE n # 0
    <3>1. n - 1 \in Nat /\ n - 1 \notin Bad
      <4>1. n \in Nat
        BY <2>1
      <4> HIDE DEF Bad
      <4>2. QED
        BY <2>1, <2>3, <4>1
    <3>2. PICK g : UpTo(n - 1, g)
      BY <3>1
    <3> DEFINE h == [s \in Small(n) |-> SumOf(s, f, g)]
    <3>3. \A s \in Small(n - 1) : h[s] = g[s]
      <4>1. Small(n - 1) \subseteq Small(n)
        BY <1>1, <3>1
      <4> HIDE DEF Small
      <4>2. QED
        BY <3>2, <4>1
    <3>4. ASSUME NEW s \in Small(n) PROVE SumOf(s, f, g) = SumOf(s, f, h)
      <4>1. CASE s = {}
        BY <4>1 DEF SumOf
      <4>2. CASE s # {}
        <5>1. s \in SUBSET S /\ Some(s) \in s
          BY <4>2, SomeIn
        <5>2. Cardinality(s \ {Some(s)}) = Cardinality(s) - 1
          BY <1>1, <5>1, FS_RemoveElement
        <5>3. s \ {Some(s)} \in Small(n - 1)
          BY <1>1, <5>1, <5>2, <3>1
        <5> HIDE DEF h
        <5>4. QED
          BY <3>3, <5>3 DEF SumOf
      <4>3. QED
        BY <4>1, <4>2
    <3> HIDE DEF Small
    <3>5. h = [s \in Small(n) |-> SumOf(s, f, h)]
      BY <3>4
    <3>6. QED
      BY <2>1, <3>5
  <2>4. QED
    BY <2>2, <2>3
<1>3. Small(Cardinality(S)) = SUBSET S /\ Cardinality(S) \in Nat
  BY <1>1, FS_Subset
<1>4. PICK g : UpTo(Cardinality(S), g)
  BY <1>2, <1>3
<1>5. g = [s \in SUBSET S |-> SumOf(s, f, g)]
  BY <1>3, <1>4
<1>6. QED
  BY <1>5 DEF IsSum

LEMMA SumStep ==
    ASSUME NEW S, NEW f, NEW g, IsSum(g, f, S), NEW T \in SUBSET S
    PROVE  /\ T = {} => g[T] = 0
           /\ T # {} => Some(T) \in T /\ g[T] = f[Some(T)] + g[T \ {Some(T)}]
<1>1. g[T] = SumOf(T, f, g)
  <2>1. g = [s \in SUBSET S |-> SumOf(s, f, g)]
    BY DEF IsSum
  <2> DEFINE h == [s \in SUBSET S |-> SumOf(s, f, g)]
  <2>2. h[T] = SumOf(T, f, g)
    OBVIOUS
  <2>3. QED
    BY <2>1, <2>2
<1>2. QED
  BY <1>1, SomeIn DEF SumOf

LEMMA SumNone == ASSUME NEW S, NEW f, NEW g, IsSum(g, f, S) PROVE g[{}] = 0
<1> DEFINE none == {}
<1>1. none \in SUBSET S /\ none = {}
  OBVIOUS
<1> HIDE DEF none
<1>2. g[none] = 0
  BY <1>1, SumStep
<1>3. QED
  BY <1>1, <1>2

LEMMA SumNumber ==
    ASSUME NEW S, IsFiniteSet(S), NEW f, Numbers(f, S), NEW g, IsSum(g, f, S),
           NEW T \in SUBSET S
    PROVE  g[T] \in Int
<1> SUFFICES ASSUME g[T] \notin Int PROVE FALSE
  OBVIOUS
<1> DEFINE Bad == {n \in Nat : \E U \in SUBSET S : g[U] \notin Int /\ Cardinality(U) = n}
<1>1. \A s \in SUBSET S : IsFiniteSet(s) /\ Cardinality(s) \in Nat
  BY FS_Subset, FS_CardinalityType
<1>2. PICK n \in Bad : \A k \in Bad : n <= k
  <2>1. Bad # {}
    BY <1>1
  <2>2. QED
    BY <2>1, LeastOf
<1>3. PICK U \in SUBSET S : g[U] \notin Int /\ Cardinality(U) = n
  BY <1>2
<1>4. U # {}
  BY <1>3, SumNone
<1>5. Some(U) \in U /\ g[U] = f[Some(U)] + g[U \ {Some(U)}]
  BY <1>4, SumStep
<1>6. Cardinality(U \ {Some(U)}) = n - 1 /\ Cardinality(U \ {Some(U)}) \in Nat
  BY <1>1, <1>3, <1>5, FS_RemoveElement
<1>7. g[U \ {Some(U)}] \in Int
  <2>1. n \in Nat /\ n - 1 \in Nat
    BY <1>1, <1>3, <1>6
  <2>2. n - 1 \notin Bad
    <3> HIDE DEF Bad
    <3>1. QED
      BY <1>2, <2>1
  <2>3. QED
    BY <1>6, <2>1, <2>2
<1>8. f[Some(U)] \in Int
  BY <1>5 DEF Numbers
<1>9. QED
  BY <1>3, <1>5, <1>7, <1>8

(* Any element may be taken first.                                         *)
LEMMA SumTakes ==
    ASSUME NEW S, IsFiniteSet(S), NEW f, Numbers(f, S), NEW g, IsSum(g, f, S),
           NEW T \in SUBSET S, NEW x \in T
    PROVE  g[T] = f[x] + g[T \ {x}]
<1> DEFINE Fails(U) == \E y \in U : g[U] # f[y] + g[U \ {y}]
           Bad == {n \in Nat : \E U \in SUBSET S : Fails(U) /\ Cardinality(U) = n}
<1> SUFFICES ASSUME Fails(T) PROVE FALSE
  OBVIOUS
<1>1. \A s \in SUBSET S : IsFiniteSet(s) /\ Cardinality(s) \in Nat
  BY FS_Subset, FS_CardinalityType
<1>2. PICK n \in Bad : \A k \in Bad : n <= k
  <2>1. Bad # {}
    BY <1>1
  <2>2. QED
    BY <2>1, LeastOf
<1>3. PICK U \in SUBSET S : Fails(U) /\ Cardinality(U) = n
  BY <1>2
<1>4. PICK y \in U : g[U] # f[y] + g[U \ {y}]
  BY <1>3
<1> DEFINE z == Some(U)
<1>5. z \in U /\ g[U] = f[z] + g[U \ {z}]
  BY <1>4, SumStep
<1> HIDE DEF z
<1>6. y # z
  BY <1>4, <1>5
<1>7. ASSUME NEW w \in U, NEW v \in U \ {w}
      PROVE  g[U \ {w}] = f[v] + g[(U \ {w}) \ {v}]
  <2>1. Cardinality(U \ {w}) = n - 1 /\ Cardinality(U \ {w}) \in Nat
    BY <1>1, <1>3, FS_RemoveElement
  <2>2. n \in Nat /\ n - 1 \in Nat
    BY <1>1, <1>3, <2>1
  <2>3. n - 1 \notin Bad
    <3> HIDE DEF Bad
    <3>1. QED
      BY <1>2, <2>2
  <2>4. ~Fails(U \ {w})
    <3> HIDE DEF Fails
    <3>1. QED
      BY <2>1, <2>2, <2>3
  <2>5. QED
    BY <2>4
<1>8. g[U \ {z}] = f[y] + g[(U \ {z}) \ {y}]
  BY <1>5, <1>6, <1>7
<1>9. g[U \ {y}] = f[z] + g[(U \ {y}) \ {z}]
  BY <1>5, <1>6, <1>7
<1>10. (U \ {z}) \ {y} = (U \ {y}) \ {z}
  OBVIOUS
<1>11. f[y] \in Int /\ f[z] \in Int
  BY <1>5 DEF Numbers
<1>12. g[(U \ {y}) \ {z}] \in Int
  BY SumNumber
<1>13. g[U] = f[z] + (f[y] + g[(U \ {y}) \ {z}])
  BY <1>5, <1>8, <1>10
<1>14. g[U] = f[y] + (f[z] + g[(U \ {y}) \ {z}])
  BY <1>11, <1>12, <1>13
<1>15. QED
  BY <1>4, <1>9, <1>14

(* Two sums agree where they add the same numbers.                         *)
LEMMA SumsAgree ==
    ASSUME NEW S, IsFiniteSet(S), NEW f, Numbers(f, S), NEW g, IsSum(g, f, S),
           NEW R, IsFiniteSet(R), NEW e, Numbers(e, R), NEW h, IsSum(h, e, R),
           NEW T, T \subseteq S, T \subseteq R, \A x \in T : f[x] = e[x]
    PROVE  g[T] = h[T]
<1> DEFINE P == {U \in SUBSET T : g[U] = h[U]}
<1>1. {} \in P
  BY SumNone
<1>2. ASSUME NEW U \in SUBSET T, NEW x \in T, U \in P, x \notin U
      PROVE  U \cup {x} \in P
  <2>1. U \cup {x} \in SUBSET S /\ U \cup {x} \in SUBSET R /\ (U \cup {x}) \ {x} = U
    BY <1>2
  <2>2. g[U \cup {x}] = f[x] + g[(U \cup {x}) \ {x}]
    BY <2>1, SumTakes
  <2>3. h[U \cup {x}] = e[x] + h[(U \cup {x}) \ {x}]
    BY <2>1, SumTakes
  <2>4. QED
    BY <1>2, <2>1, <2>2, <2>3
<1>3. IsFiniteSet(T)
  BY FS_Subset
<1> HIDE DEF P
<1>4. T \in P
  BY <1>1, <1>2, <1>3, FiniteInduction
<1>5. QED
  BY <1>4 DEF P
-----------------------------------------------------------------------------
(* The sum of a function's values, for the sums of the model.              *)
SumOver(f, S) == MapThenSumSet(LAMBDA x : f[x], S)

LEMMA SumOverIs ==
    ASSUME NEW S, IsFiniteSet(S), NEW f
    PROVE  \E g : IsSum(g, f, S) /\ SumOver(f, S) = g[S]
<1> DEFINE h == CHOOSE h : h = [s \in SUBSET S |->
                    IF s = {} THEN 0
                    ELSE f[CHOOSE x \in s : TRUE] + h[s \ {CHOOSE x \in s : TRUE}]]
<1>1. h = [s \in SUBSET S |->
              IF s = {} THEN 0 ELSE f[CHOOSE x \in s : TRUE] + h[s \ {CHOOSE x \in s : TRUE}]]
  <2>1. PICK g : IsSum(g, f, S)
    BY SumExists
  <2>2. g = [s \in SUBSET S |->
                IF s = {} THEN 0 ELSE f[CHOOSE x \in s : TRUE] + g[s \ {CHOOSE x \in s : TRUE}]]
    BY <2>1 DEF IsSum, SumOf, Some
  <2>3. QED
    BY <2>2
<1>2. SumOver(f, S) = h[S]
  BY DEF SumOver, MapThenSumSet, MapThenFoldSet
<1> HIDE DEF h
<1>3. IsSum(h, f, S)
  BY <1>1 DEF IsSum, SumOf, Some
<1>4. QED
  BY <1>2, <1>3

LEMMA SumEmpty == ASSUME NEW f PROVE SumOver(f, {}) = 0
<1>1. PICK g : IsSum(g, f, {}) /\ SumOver(f, {}) = g[{}]
  BY SumOverIs, FS_EmptySet
<1>2. QED
  BY <1>1, SumNone

LEMMA SumInt ==
    ASSUME NEW S, IsFiniteSet(S), NEW f, Numbers(f, S)
    PROVE  SumOver(f, S) \in Int
<1>1. PICK g : IsSum(g, f, S) /\ SumOver(f, S) = g[S]
  BY SumOverIs
<1>2. S \in SUBSET S
  OBVIOUS
<1>3. QED
  BY <1>1, <1>2, SumNumber

LEMMA SumSame ==
    ASSUME NEW S, IsFiniteSet(S), NEW f, Numbers(f, S), NEW e, \A x \in S : f[x] = e[x]
    PROVE  SumOver(f, S) = SumOver(e, S)
<1>1. PICK g : IsSum(g, f, S) /\ SumOver(f, S) = g[S]
  BY SumOverIs
<1>2. PICK h : IsSum(h, e, S) /\ SumOver(e, S) = h[S]
  BY SumOverIs
<1>3. Numbers(e, S)
  BY DEF Numbers
<1>4. QED
  BY <1>1, <1>2, <1>3, SumsAgree

LEMMA SumPick ==
    ASSUME NEW S, IsFiniteSet(S), NEW f, Numbers(f, S), NEW x \in S
    PROVE  SumOver(f, S) = f[x] + SumOver(f, S \ {x})
<1>1. PICK g : IsSum(g, f, S) /\ SumOver(f, S) = g[S]
  BY SumOverIs
<1>2. IsFiniteSet(S \ {x}) /\ Numbers(f, S \ {x}) /\ S \ {x} \subseteq S /\ S \in SUBSET S
  BY FS_RemoveElement DEF Numbers
<1>3. PICK h : IsSum(h, f, S \ {x}) /\ SumOver(f, S \ {x}) = h[S \ {x}]
  BY <1>2, SumOverIs
<1>4. g[S] = f[x] + g[S \ {x}]
  BY <1>1, <1>2, SumTakes
<1>5. g[S \ {x}] = h[S \ {x}]
  BY <1>1, <1>2, <1>3, SumsAgree
<1>6. QED
  BY <1>1, <1>3, <1>4, <1>5

LEMMA SumAdd ==
    ASSUME NEW S, IsFiniteSet(S), NEW f, NEW x, x \notin S, Numbers(f, S \cup {x})
    PROVE  SumOver(f, S \cup {x}) = f[x] + SumOver(f, S)
<1> DEFINE R == S \cup {x}
<1>1. IsFiniteSet(R) /\ x \in R /\ R \ {x} = S
  BY FS_AddElement
<1> HIDE DEF R
<1>2. Numbers(f, R)
  BY DEF R
<1>3. SumOver(f, R) = f[x] + SumOver(f, R \ {x})
  BY <1>1, <1>2, SumPick
<1>4. QED
  BY <1>1, <1>3 DEF R

LEMMA SumUpdate ==
    ASSUME NEW S, IsFiniteSet(S), NEW f, Numbers(f, S), NEW e, NEW x \in S, e[x] \in Int,
           \A y \in S \ {x} : e[y] = f[y]
    PROVE  SumOver(e, S) = SumOver(f, S) + (e[x] - f[x])
<1>1. IsFiniteSet(S \ {x}) /\ Numbers(f, S \ {x}) /\ Numbers(e, S) /\ f[x] \in Int
  BY FS_RemoveElement DEF Numbers
<1>2. SumOver(f, S \ {x}) = SumOver(e, S \ {x}) /\ SumOver(f, S \ {x}) \in Int
  BY <1>1, SumSame, SumInt
<1>3. SumOver(f, S) = f[x] + SumOver(f, S \ {x})
  BY SumPick
<1>4. SumOver(e, S) = e[x] + SumOver(e, S \ {x})
  BY <1>1, SumPick
<1>5. QED
  BY <1>1, <1>2, <1>3, <1>4

LEMMA SumZero ==
    ASSUME NEW S, IsFiniteSet(S), NEW f, \A x \in S : f[x] = 0
    PROVE  SumOver(f, S) = 0
<1> DEFINE P == {T \in SUBSET S : SumOver(f, T) = 0}
<1>1. {} \in P
  BY SumEmpty
<1>2. ASSUME NEW T \in SUBSET S, NEW x \in S, T \in P, x \notin T
      PROVE  T \cup {x} \in P
  <2>1. IsFiniteSet(T) /\ Numbers(f, T \cup {x})
    BY FS_Subset DEF Numbers
  <2>2. SumOver(f, T \cup {x}) = f[x] + SumOver(f, T)
    BY <1>2, <2>1, SumAdd
  <2>3. QED
    BY <1>2, <2>2
<1> HIDE DEF P
<1>3. S \in P
  BY <1>1, <1>2, FiniteInduction
<1>4. QED
  BY <1>3 DEF P

LEMMA SumNat ==
    ASSUME NEW S, IsFiniteSet(S), NEW f, \A x \in S : f[x] \in Nat
    PROVE  SumOver(f, S) \in Nat
<1> DEFINE P == {T \in SUBSET S : SumOver(f, T) \in Nat}
<1>1. {} \in P
  BY SumEmpty
<1>2. ASSUME NEW T \in SUBSET S, NEW x \in S, T \in P, x \notin T
      PROVE  T \cup {x} \in P
  <2>1. IsFiniteSet(T) /\ Numbers(f, T \cup {x})
    BY FS_Subset DEF Numbers
  <2>2. SumOver(f, T \cup {x}) = f[x] + SumOver(f, T)
    BY <1>2, <2>1, SumAdd
  <2>3. QED
    BY <1>2, <2>2
<1> HIDE DEF P
<1>3. S \in P
  BY <1>1, <1>2, FiniteInduction
<1>4. QED
  BY <1>3 DEF P

LEMMA SumSplit ==
    ASSUME NEW S, IsFiniteSet(S), NEW f, Numbers(f, S), NEW A \in SUBSET S
    PROVE  SumOver(f, S) = SumOver(f, A) + SumOver(f, S \ A)
<1> DEFINE P == {T \in SUBSET A : SumOver(f, S) = SumOver(f, T) + SumOver(f, S \ T)}
<1>1. {} \in P
  <2>1. S \ {} = S /\ SumOver(f, S) \in Int
    BY SumInt
  <2>2. SumOver(f, {}) = 0
    BY SumEmpty
  <2>3. QED
    BY <2>1, <2>2
<1>2. ASSUME NEW T \in SUBSET A, NEW x \in A, T \in P, x \notin T
      PROVE  T \cup {x} \in P
  <2>1. IsFiniteSet(T) /\ Numbers(f, T) /\ Numbers(f, T \cup {x})
        /\ IsFiniteSet(S \ T) /\ Numbers(f, S \ T) /\ x \in S \ T
    BY <1>2, FS_Subset DEF Numbers
  <2>2. SumOver(f, T \cup {x}) = f[x] + SumOver(f, T)
    BY <1>2, <2>1, SumAdd
  <2>3. SumOver(f, S \ T) = f[x] + SumOver(f, (S \ T) \ {x})
    BY <2>1, SumPick
  <2>4. (S \ T) \ {x} = S \ (T \cup {x})
    OBVIOUS
  <2>5. SumOver(f, T) \in Int /\ f[x] \in Int
    BY <2>1, SumInt DEF Numbers
  <2>6. IsFiniteSet(S \ (T \cup {x})) /\ Numbers(f, S \ (T \cup {x}))
    BY FS_Subset DEF Numbers
  <2>7. SumOver(f, S \ (T \cup {x})) \in Int
    BY <2>6, SumInt
  <2>8. SumOver(f, S) = SumOver(f, T) + (f[x] + SumOver(f, S \ (T \cup {x})))
    BY <1>2, <2>3, <2>4
  <2>9. SumOver(f, S) = SumOver(f, T \cup {x}) + SumOver(f, S \ (T \cup {x}))
    BY <2>2, <2>5, <2>7, <2>8
  <2>10. QED
    BY <2>9
<1>3. IsFiniteSet(A)
  BY FS_Subset
<1> HIDE DEF P
<1>4. A \in P
  BY <1>1, <1>2, <1>3, FiniteInduction
<1>5. QED
  BY <1>4 DEF P
-----------------------------------------------------------------------------
(* One write: it stays in its type and leaves the other fields alone.      *)

LEMMA SetHistoryType ==
    ASSUME NEW list \in SUBSET BalanceHistory, NEW ct \in Ciphertext,
           NEW nonce \in Nat, NEW index \in Nat
    PROVE  SetHistory(list, ct, nonce, index) \in SUBSET BalanceHistory
BY DEF SetHistory, BalanceHistory

LEMMA MarkValidWrites ==
    ASSUME NEW b \in Balance
    PROVE  /\ MarkValid(b) \in Balance
           /\ MarkValid(b).eGCT = b.eGCT
           /\ MarkValid(b).nonce = b.nonce
           /\ MarkValid(b).amountPCTs = b.amountPCTs
           /\ MarkValid(b).transactionIndex = b.transactionIndex
           /\ MarkValid(b).balanceList =
                  SetHistory(b.balanceList, b.eGCT, b.nonce, b.transactionIndex)
<1>1. SetHistory(b.balanceList, b.eGCT, b.nonce, b.transactionIndex) \in SUBSET BalanceHistory
  BY SetHistoryType DEF Balance
<1>2. QED
  BY <1>1 DEF Balance, MarkValid

LEMMA RecordAmountWrites ==
    ASSUME NEW b \in Balance, NEW amountPCT \in Int
    PROVE  /\ RecordAmount(b, amountPCT) \in Balance
           /\ RecordAmount(b, amountPCT).eGCT = b.eGCT
           /\ RecordAmount(b, amountPCT).nonce = b.nonce
           /\ RecordAmount(b, amountPCT).amountPCTs = b.amountPCTs \cup {[pct |-> amountPCT, index |-> b.transactionIndex]}
           /\ RecordAmount(b, amountPCT).transactionIndex = b.transactionIndex
           /\ RecordAmount(b, amountPCT).balanceList = b.balanceList
<1>1. b.amountPCTs \cup {[pct |-> amountPCT, index |-> b.transactionIndex]} \in SUBSET AmountPCT
  BY DEF Balance, AmountPCT
<1>2. QED
  BY <1>1 DEF Balance, RecordAmount

LEMMA AdvanceIndexWrites ==
    ASSUME NEW b \in Balance
    PROVE  /\ AdvanceIndex(b) \in Balance
           /\ AdvanceIndex(b).eGCT = b.eGCT
           /\ AdvanceIndex(b).nonce = b.nonce
           /\ AdvanceIndex(b).amountPCTs = b.amountPCTs
           /\ AdvanceIndex(b).transactionIndex = b.transactionIndex + 1
           /\ AdvanceIndex(b).balanceList = b.balanceList
BY DEF Balance, AdvanceIndex

LEMMA DropAmountsWrites ==
    ASSUME NEW b \in Balance, NEW index \in Nat
    PROVE  /\ DropAmounts(b, index) \in Balance
           /\ DropAmounts(b, index).eGCT = b.eGCT
           /\ DropAmounts(b, index).nonce = b.nonce
           /\ DropAmounts(b, index).amountPCTs = {p \in b.amountPCTs : p.index > index}
           /\ DropAmounts(b, index).transactionIndex = b.transactionIndex
           /\ DropAmounts(b, index).balanceList = b.balanceList
<1>1. {p \in b.amountPCTs : p.index > index} \in SUBSET AmountPCT
  BY DEF Balance
<1>2. QED
  BY <1>1 DEF Balance, DropAmounts

LEMMA NextNonceWrites ==
    ASSUME NEW b \in Balance
    PROVE  /\ NextNonce(b) \in Balance
           /\ NextNonce(b).eGCT = b.eGCT
           /\ NextNonce(b).nonce = b.nonce + 1
           /\ NextNonce(b).amountPCTs = b.amountPCTs
           /\ NextNonce(b).transactionIndex = b.transactionIndex
           /\ NextNonce(b).balanceList = b.balanceList
BY DEF Balance, NextNonce

LEMMA SetBalancePCTWrites ==
    ASSUME NEW b \in Balance, NEW balancePCT \in Int
    PROVE  /\ SetBalancePCT(b, balancePCT) \in Balance
           /\ SetBalancePCT(b, balancePCT).eGCT = b.eGCT
           /\ SetBalancePCT(b, balancePCT).nonce = b.nonce
           /\ SetBalancePCT(b, balancePCT).amountPCTs = b.amountPCTs
           /\ SetBalancePCT(b, balancePCT).transactionIndex = b.transactionIndex
           /\ SetBalancePCT(b, balancePCT).balanceList = b.balanceList
BY DEF Balance, SetBalancePCT

LEMMA AddToCiphertextWrites ==
    ASSUME NEW b \in Balance, NEW ct \in Ciphertext
    PROVE  /\ AddToCiphertext(b, ct) \in Balance
           /\ AddToCiphertext(b, ct).eGCT.v = b.eGCT.v + ct.v
           /\ AddToCiphertext(b, ct).nonce = b.nonce
           /\ AddToCiphertext(b, ct).amountPCTs = b.amountPCTs
           /\ AddToCiphertext(b, ct).transactionIndex = b.transactionIndex
           /\ AddToCiphertext(b, ct).balanceList = b.balanceList
<1> DEFINE sum == IF b.eGCT = NoCiphertext THEN ct ELSE Add(b.eGCT, ct)
<1>1. sum \in Ciphertext /\ sum.v = b.eGCT.v + ct.v
  BY DEF Balance, Ciphertext, NoCiphertext, Add, SumKey
<1>2. AddToCiphertext(b, ct) = [b EXCEPT !.eGCT = sum]
  BY DEF AddToCiphertext, Balance
<1> HIDE DEF sum
<1>3. QED
  BY <1>1, <1>2 DEF Balance

LEMMA SubFromCiphertextWrites ==
    ASSUME NEW b \in Balance, NEW ct \in Ciphertext
    PROVE  /\ SubFromCiphertext(b, ct) \in Balance
           /\ SubFromCiphertext(b, ct).eGCT.v = b.eGCT.v - ct.v
           /\ SubFromCiphertext(b, ct).nonce = b.nonce
           /\ SubFromCiphertext(b, ct).amountPCTs = b.amountPCTs
           /\ SubFromCiphertext(b, ct).transactionIndex = b.transactionIndex
           /\ SubFromCiphertext(b, ct).balanceList = b.balanceList
<1>1. Sub(b.eGCT, ct) \in Ciphertext /\ Sub(b.eGCT, ct).v = b.eGCT.v - ct.v
  BY DEF Balance, Ciphertext, Sub, SumKey
<1>2. QED
  BY <1>1 DEF Balance, SubFromCiphertext
-----------------------------------------------------------------------------
(* The inductive invariant of one balance.                                 *)

(* The value is no overdraft, and no snapshot is from a later nonce, which *)
(* the next spend could revive.                                            *)
Sound(b) ==
    /\ b \in Balance
    /\ b.eGCT.v >= 0
    /\ \A h \in b.balanceList : h.nonce <= b.nonce

Covered(b) == \A h \in ValidHistory(b) : h.ct.v <= b.eGCT.v

BalanceInv(b) == Sound(b) /\ Covered(b)

LEMMA EmptyBalanceInv == BalanceInv(EmptyBalance)
BY DEF BalanceInv, Sound, Covered, ValidHistory, EmptyBalance, Balance, NoCiphertext, Ciphertext

LEMMA MarkValidInv ==
    ASSUME NEW b, BalanceInv(b)
    PROVE  BalanceInv(MarkValid(b))
<1> DEFINE new == [ct |-> b.eGCT, nonce |-> b.nonce, index |-> b.transactionIndex]
<1>1. b \in Balance
  BY DEF BalanceInv, Sound
<1>2. \A h \in MarkValid(b).balanceList : h \in b.balanceList \/ h = new
  BY <1>1, MarkValidWrites DEF SetHistory
<1>3. new.nonce = b.nonce /\ new.ct.v = b.eGCT.v /\ b.eGCT.v \in Int /\ b.nonce \in Nat
  BY <1>1 DEF Balance, Ciphertext
<1>4. Sound(MarkValid(b))
  BY <1>1, <1>2, <1>3, MarkValidWrites DEF BalanceInv, Sound
<1>5. Covered(MarkValid(b))
  BY <1>1, <1>2, <1>3, MarkValidWrites DEF BalanceInv, Covered, ValidHistory
<1>6. QED
  BY <1>4, <1>5 DEF BalanceInv

(* A write that leaves ciphertext, nonce and snapshots alone.              *)
LEMMA OtherWriteInv ==
    ASSUME NEW b, BalanceInv(b), NEW c \in Balance,
           c.eGCT = b.eGCT, c.nonce = b.nonce, c.balanceList = b.balanceList
    PROVE  BalanceInv(c)
BY DEF BalanceInv, Sound, Covered, ValidHistory

LEMMA AddToCiphertextInv ==
    ASSUME NEW b, BalanceInv(b), NEW ct \in Ciphertext, ct.v >= 0
    PROVE  BalanceInv(AddToCiphertext(b, ct))
<1>1. b \in Balance /\ b.eGCT.v \in Int /\ ct.v \in Int
  BY DEF BalanceInv, Sound, Balance, Ciphertext
<1>2. \A h \in b.balanceList : h.ct.v \in Int
  BY <1>1 DEF Balance, BalanceHistory, Ciphertext
<1>3. QED
  BY <1>1, <1>2, AddToCiphertextWrites DEF BalanceInv, Sound, Covered, ValidHistory

(* After the nonce moved on, no old snapshot is valid.                     *)
LEMMA NextNonceInv ==
    ASSUME NEW b, Sound(b)
    PROVE  BalanceInv(NextNonce(b)) /\ ValidHistory(NextNonce(b)) = {}
<1>1. b \in Balance /\ b.nonce \in Nat
  BY DEF Sound, Balance
<1>2. \A h \in b.balanceList : h.nonce \in Nat /\ h.nonce < b.nonce + 1
  BY <1>1 DEF Sound, Balance, BalanceHistory
<1>3. ValidHistory(NextNonce(b)) = {}
  BY <1>1, <1>2, NextNonceWrites DEF ValidHistory
<1>4. Sound(NextNonce(b))
  BY <1>1, <1>2, NextNonceWrites DEF Sound
<1>5. QED
  BY <1>3, <1>4 DEF BalanceInv, Covered
-----------------------------------------------------------------------------
(* The credits and the spend of EncryptedUserBalances.                     *)

LEMMA CommitInv ==
    ASSUME NEW b, BalanceInv(b)
    PROVE  /\ BalanceInv(CommitUserBalance(b))
           /\ CommitUserBalance(b).eGCT = b.eGCT
<1>1. b \in Balance
  BY DEF BalanceInv, Sound
<1>2. BalanceInv(MarkValid(b)) /\ MarkValid(b) \in Balance
  BY <1>1, MarkValidInv, MarkValidWrites
<1>3. BalanceInv(AdvanceIndex(MarkValid(b)))
  BY <1>2, AdvanceIndexWrites, OtherWriteInv
<1>4. AdvanceIndex(MarkValid(b)).eGCT = b.eGCT
  BY <1>1, <1>2, AdvanceIndexWrites, MarkValidWrites
<1>5. QED
  BY <1>3, <1>4 DEF CommitUserBalance

LEMMA AddToUserBalanceInv ==
    ASSUME NEW b, BalanceInv(b), NEW ct \in Ciphertext, ct.v >= 0, NEW amountPCT \in Int
    PROVE  /\ BalanceInv(AddToUserBalance(b, ct, amountPCT))
           /\ AddToUserBalance(b, ct, amountPCT).eGCT.v = b.eGCT.v + ct.v
<1> DEFINE added == AddToCiphertext(b, ct)
           marked == MarkValid(added)
           recorded == RecordAmount(marked, amountPCT)
<1>1. b \in Balance
  BY DEF BalanceInv, Sound
<1>2. BalanceInv(added) /\ added \in Balance /\ added.eGCT.v = b.eGCT.v + ct.v
  BY <1>1, AddToCiphertextInv, AddToCiphertextWrites
<1>3. BalanceInv(marked) /\ marked \in Balance /\ marked.eGCT = added.eGCT
  BY <1>2, MarkValidInv, MarkValidWrites
<1>4. BalanceInv(recorded) /\ recorded \in Balance /\ recorded.eGCT = marked.eGCT
  BY <1>3, RecordAmountWrites, OtherWriteInv
<1>5. BalanceInv(AdvanceIndex(recorded)) /\ AdvanceIndex(recorded).eGCT = recorded.eGCT
  BY <1>4, AdvanceIndexWrites, OtherWriteInv
<1>6. QED
  BY <1>2, <1>3, <1>4, <1>5 DEF AddToUserBalance, AddToUserHistory

(* A spend of at most what a valid snapshot shows.                         *)
LEMMA PrivateBurnInv ==
    ASSUME NEW b, BalanceInv(b), NEW provided, IsBalanceValid(b, provided),
           NEW ct \in Ciphertext, ct.v >= 0, ct.v <= provided.v, NEW balancePCT \in Int
    PROVE  /\ BalanceInv(PrivateBurnBalance(b, provided, ct, balancePCT))
           /\ PrivateBurnBalance(b, provided, ct, balancePCT).eGCT.v = b.eGCT.v - ct.v
           /\ ct.v <= b.eGCT.v
<1> DEFINE index == VerifiedIndex(b, provided)
           less == SubFromCiphertext(b, ct)
           dropped == DropAmounts(less, index)
           next == NextNonce(dropped)
           committed == CommitUserBalance(next)
<1>1. b \in Balance /\ b.eGCT.v \in Int /\ ct.v \in Int
  BY DEF BalanceInv, Sound, Balance, Ciphertext
<1>2. PICK h \in ValidHistory(b) : h.ct = provided
  BY DEF IsBalanceValid
<1>3. provided.v \in Int /\ provided.v <= b.eGCT.v
  BY <1>1, <1>2 DEF BalanceInv, Covered, ValidHistory, Balance, BalanceHistory, Ciphertext
<1>4. ct.v <= b.eGCT.v
  BY <1>1, <1>3
<1>5. index \in Nat
  BY <1>1, <1>2 DEF VerifiedIndex, ValidHistory, Balance, BalanceHistory
<1> HIDE DEF index
<1>6. Sound(less) /\ less \in Balance /\ less.eGCT.v = b.eGCT.v - ct.v
  BY <1>1, <1>4, SubFromCiphertextWrites DEF BalanceInv, Sound
<1>7. Sound(dropped) /\ dropped \in Balance /\ dropped.eGCT = less.eGCT
  BY <1>5, <1>6, DropAmountsWrites DEF Sound
<1>8. BalanceInv(next) /\ next.eGCT = dropped.eGCT
  BY <1>7, NextNonceInv, NextNonceWrites
<1>9. BalanceInv(committed) /\ committed \in Balance /\ committed.eGCT = next.eGCT
  BY <1>8, CommitInv DEF BalanceInv, Sound
<1>10. BalanceInv(SetBalancePCT(committed, balancePCT))
       /\ SetBalancePCT(committed, balancePCT).eGCT = committed.eGCT
  BY <1>9, SetBalancePCTWrites, OtherWriteInv
<1>11. QED
  BY <1>4, <1>6, <1>7, <1>8, <1>9, <1>10
     DEF PrivateBurnBalance, SubtractFromUserBalance, DeleteUserHistory, index
-----------------------------------------------------------------------------
(* The amount PCTs and the transaction index after a credit and a spend.   *)

LEMMA AddToUserBalanceWrites ==
    ASSUME NEW b \in Balance, NEW ct \in Ciphertext, NEW amountPCT \in Int
    PROVE  /\ AddToUserBalance(b, ct, amountPCT) \in Balance
           /\ AddToUserBalance(b, ct, amountPCT).amountPCTs =
                  b.amountPCTs \cup {[pct |-> amountPCT, index |-> b.transactionIndex]}
           /\ AddToUserBalance(b, ct, amountPCT).transactionIndex = b.transactionIndex + 1
<1> DEFINE added == AddToCiphertext(b, ct)
           marked == MarkValid(added)
           recorded == RecordAmount(marked, amountPCT)
<1>1. added \in Balance /\ added.amountPCTs = b.amountPCTs
      /\ added.transactionIndex = b.transactionIndex
  BY AddToCiphertextWrites
<1>2. marked \in Balance /\ marked.amountPCTs = added.amountPCTs
      /\ marked.transactionIndex = added.transactionIndex
  BY <1>1, MarkValidWrites
<1>3. recorded \in Balance /\ recorded.transactionIndex = marked.transactionIndex
      /\ recorded.amountPCTs =
             marked.amountPCTs \cup {[pct |-> amountPCT, index |-> marked.transactionIndex]}
  BY <1>2, RecordAmountWrites
<1>4. AddToUserBalance(b, ct, amountPCT) = AdvanceIndex(recorded)
  BY DEF AddToUserBalance, AddToUserHistory
<1> HIDE DEF recorded
<1>5. QED
  BY <1>1, <1>2, <1>3, <1>4, AdvanceIndexWrites

LEMMA DeleteUserHistoryWrites ==
    ASSUME NEW b \in Balance, NEW index \in Nat
    PROVE  /\ DeleteUserHistory(b, index) \in Balance
           /\ DeleteUserHistory(b, index).amountPCTs = {p \in b.amountPCTs : p.index > index}
           /\ DeleteUserHistory(b, index).transactionIndex = b.transactionIndex + 1
<1> DEFINE dropped == DropAmounts(b, index)
           next == NextNonce(dropped)
           marked == MarkValid(next)
<1>1. dropped \in Balance /\ dropped.transactionIndex = b.transactionIndex
      /\ dropped.amountPCTs = {p \in b.amountPCTs : p.index > index}
  BY DropAmountsWrites
<1>2. next \in Balance /\ next.amountPCTs = dropped.amountPCTs
      /\ next.transactionIndex = dropped.transactionIndex
  BY <1>1, NextNonceWrites
<1>3. marked \in Balance /\ marked.amountPCTs = next.amountPCTs
      /\ marked.transactionIndex = next.transactionIndex
  BY <1>2, MarkValidWrites
<1>4. DeleteUserHistory(b, index) = AdvanceIndex(marked)
  BY DEF DeleteUserHistory, CommitUserBalance
<1> HIDE DEF marked
<1>5. QED
  BY <1>1, <1>2, <1>3, <1>4, AdvanceIndexWrites
-----------------------------------------------------------------------------
(* Which snapshots are valid after a spend and after a credit.             *)

OnlyAt(b, index) == \A h \in ValidHistory(b) : h.index = index

(* A spend leaves one valid snapshot, its own: it is of the transaction    *)
(* index the balance had.                                                  *)
LEMMA SpendRevokesHistory ==
    ASSUME NEW b, BalanceInv(b), NEW provided, IsBalanceValid(b, provided),
           NEW ct \in Ciphertext, NEW balancePCT \in Int
    PROVE  OnlyAt(PrivateBurnBalance(b, provided, ct, balancePCT), b.transactionIndex)
<1> DEFINE index == VerifiedIndex(b, provided)
           less == SubFromCiphertext(b, ct)
           dropped == DropAmounts(less, index)
           next == NextNonce(dropped)
           marked == MarkValid(next)
           committed == AdvanceIndex(marked)
           spent == SetBalancePCT(committed, balancePCT)
<1>1. b \in Balance /\ \A h \in b.balanceList : h.nonce <= b.nonce
  BY DEF BalanceInv, Sound
<1>2. index \in Nat
  BY <1>1 DEF IsBalanceValid, VerifiedIndex, ValidHistory, Balance, BalanceHistory
<1> HIDE DEF index
<1>3. /\ less \in Balance /\ less.nonce = b.nonce /\ less.balanceList = b.balanceList
      /\ less.transactionIndex = b.transactionIndex
  BY <1>1, SubFromCiphertextWrites
<1>4. /\ dropped \in Balance /\ dropped.nonce = b.nonce /\ dropped.balanceList = b.balanceList
      /\ dropped.transactionIndex = b.transactionIndex
  BY <1>2, <1>3, DropAmountsWrites
<1>5. /\ next \in Balance /\ next.nonce = b.nonce + 1 /\ next.balanceList = b.balanceList
      /\ next.transactionIndex = b.transactionIndex
  BY <1>4, NextNonceWrites
<1>6. /\ marked \in Balance /\ marked.nonce = b.nonce + 1
      /\ \A h \in marked.balanceList :
             h \in b.balanceList \/ h.index = b.transactionIndex
  BY <1>5, MarkValidWrites DEF SetHistory
<1>7. committed \in Balance /\ committed.nonce = b.nonce + 1
      /\ committed.balanceList = marked.balanceList
  BY <1>6, AdvanceIndexWrites
<1>8. spent.nonce = b.nonce + 1 /\ spent.balanceList = marked.balanceList
  BY <1>7, SetBalancePCTWrites
<1>9. b.nonce \in Nat /\ \A h \in b.balanceList : h.nonce # b.nonce + 1
  BY <1>1 DEF Balance, BalanceHistory
<1>10. OnlyAt(spent, b.transactionIndex)
  BY <1>6, <1>8, <1>9 DEF OnlyAt, ValidHistory
<1>11. PrivateBurnBalance(b, provided, ct, balancePCT) = spent
  BY DEF PrivateBurnBalance, SubtractFromUserBalance, DeleteUserHistory, CommitUserBalance, index
<1>12. QED
  BY <1>10, <1>11

(* The ciphertexts that b accepts, c accepts too.                          *)
Keeps(b, c) ==
    /\ c.nonce = b.nonce
    /\ \A ct : IsBalanceValid(b, ct) => IsBalanceValid(c, ct)

LEMMA SameHistoryKeeps ==
    ASSUME NEW b, NEW c, c.nonce = b.nonce, c.balanceList = b.balanceList
    PROVE  Keeps(b, c)
BY DEF Keeps, IsBalanceValid, ValidHistory

(* The entry that is replaced has the ciphertext of the new one.           *)
LEMMA MarkValidKeeps == ASSUME NEW b \in Balance PROVE Keeps(b, MarkValid(b))
<1> DEFINE new == [ct |-> b.eGCT, nonce |-> b.nonce, index |-> b.transactionIndex]
<1>1. new \in MarkValid(b).balanceList /\ MarkValid(b).nonce = b.nonce
  BY MarkValidWrites DEF SetHistory
<1>2. \A h \in b.balanceList :
          h \in MarkValid(b).balanceList \/ h.ct = b.eGCT
  BY MarkValidWrites DEF SetHistory
<1>3. new.ct = b.eGCT /\ new.nonce = b.nonce
  OBVIOUS
<1> HIDE DEF new
<1>4. QED
  BY <1>1, <1>2, <1>3 DEF Keeps, IsBalanceValid, ValidHistory

LEMMA CommitKeeps == ASSUME NEW b \in Balance PROVE Keeps(b, CommitUserBalance(b))
<1>1. Keeps(b, MarkValid(b)) /\ MarkValid(b) \in Balance
  BY MarkValidKeeps, MarkValidWrites
<1>2. Keeps(MarkValid(b), AdvanceIndex(MarkValid(b)))
  BY <1>1, AdvanceIndexWrites, SameHistoryKeeps
<1>3. QED
  BY <1>1, <1>2 DEF Keeps, CommitUserBalance

LEMMA AddToUserBalanceKeeps ==
    ASSUME NEW b \in Balance, NEW ct \in Ciphertext, NEW amountPCT \in Int
    PROVE  Keeps(b, AddToUserBalance(b, ct, amountPCT))
<1> DEFINE added == AddToCiphertext(b, ct)
           marked == MarkValid(added)
           recorded == RecordAmount(marked, amountPCT)
<1>1. added \in Balance /\ Keeps(b, added)
  BY AddToCiphertextWrites, SameHistoryKeeps
<1>2. marked \in Balance /\ Keeps(added, marked)
  BY <1>1, MarkValidKeeps, MarkValidWrites
<1>3. recorded \in Balance /\ Keeps(marked, recorded)
  BY <1>2, RecordAmountWrites, SameHistoryKeeps
<1>4. Keeps(recorded, AdvanceIndex(recorded))
  BY <1>3, AdvanceIndexWrites, SameHistoryKeeps
<1>5. AddToUserBalance(b, ct, amountPCT) = AdvanceIndex(recorded)
  BY DEF AddToUserBalance, AddToUserHistory
<1> HIDE DEF recorded
<1>6. QED
  BY <1>1, <1>2, <1>3, <1>4, <1>5 DEF Keeps

-----------------------------------------------------------------------------
(* The token: one step per action.                                         *)

LEMMA ConvertCreditInv ==
    ASSUME NEW b, BalanceInv(b), NEW key \in Keys, NEW value \in Nat, NEW amountPCT \in Int
    PROVE  /\ BalanceInv(ConvertCredit(b, key, value, amountPCT))
           /\ ConvertCredit(b, key, value, amountPCT).eGCT.v = b.eGCT.v + value
<1> DEFINE ct == Encrypt(key, value)
           added == AddToCiphertext(b, ct)
           recorded == RecordAmount(added, amountPCT)
           advanced == AdvanceIndex(recorded)
<1>1. ct \in Ciphertext /\ ct.v = value /\ ct.v >= 0
  BY DEF Encrypt, Ciphertext
<1> HIDE DEF ct
<1>2. b \in Balance
  BY DEF BalanceInv, Sound
<1>3. BalanceInv(added) /\ added \in Balance /\ added.eGCT.v = b.eGCT.v + value
  BY <1>1, <1>2, AddToCiphertextInv, AddToCiphertextWrites
<1>4. BalanceInv(recorded) /\ recorded \in Balance /\ recorded.eGCT = added.eGCT
  BY <1>3, RecordAmountWrites, OtherWriteInv
<1>5. BalanceInv(advanced) /\ advanced \in Balance /\ advanced.eGCT = recorded.eGCT
  BY <1>4, AdvanceIndexWrites, OtherWriteInv
<1>6. BalanceInv(CommitUserBalance(advanced)) /\ CommitUserBalance(advanced).eGCT = advanced.eGCT
  BY <1>5, CommitInv
<1>7. QED
  BY <1>3, <1>4, <1>5, <1>6 DEF ConvertCredit, ct

LEMMA ConvertCreditKeeps ==
    ASSUME NEW b \in Balance, NEW key \in Keys, NEW value \in Nat, NEW amountPCT \in Int
    PROVE  Keeps(b, ConvertCredit(b, key, value, amountPCT))
<1> DEFINE ct == Encrypt(key, value)
           added == AddToCiphertext(b, ct)
           recorded == RecordAmount(added, amountPCT)
           advanced == AdvanceIndex(recorded)
<1>1. ct \in Ciphertext
  BY DEF Encrypt, Ciphertext
<1> HIDE DEF ct
<1>2. added \in Balance /\ Keeps(b, added)
  BY <1>1, AddToCiphertextWrites, SameHistoryKeeps
<1>3. recorded \in Balance /\ Keeps(added, recorded)
  BY <1>2, RecordAmountWrites, SameHistoryKeeps
<1>4. advanced \in Balance /\ Keeps(recorded, advanced)
  BY <1>3, AdvanceIndexWrites, SameHistoryKeeps
<1>5. Keeps(advanced, CommitUserBalance(advanced))
  BY <1>4, CommitKeeps
<1>6. ConvertCredit(b, key, value, amountPCT) = CommitUserBalance(advanced)
  BY DEF ConvertCredit, ct
<1> HIDE DEF advanced
<1>7. QED
  BY <1>2, <1>3, <1>4, <1>5, <1>6 DEF Keeps
-----------------------------------------------------------------------------
(* The inductive invariant of the token.                                   *)

AllBalancesInv(bs) ==
    /\ bs \in [Users -> [TokenIds -> Balance]]
    /\ \A u \in Users, id \in TokenIds : BalanceInv(bs[u][id])

(* As many tokens are known as ids were given out, so an id is never       *)
(* beyond the tokens there are.                                            *)
KnownTokens(ids) == {t \in Tokens : ids[t] # 0}

TokensCounted == Cardinality(KnownTokens(tokenIds)) = nextTokenId - 1

(* What the circuits established when the proof was built.                 *)
ProofInv(p) ==
    /\ p \in Spend =>
           /\ p.senderAmount.v = p.amount
           /\ p.amount <= p.providedBalance.v
           /\ p.kind = "transfer" => p.receiverAmount.v = p.amount
    /\ p \in Mint => p.receiverAmount.v = p.amount

ProofsInv == \A p \in proofs : ProofInv(p)

IInv ==
    /\ TokenTypes
    /\ AllBalancesInv(balances)
    /\ TokensCounted
    /\ ProofsInv
    /\ IsFiniteSet(proofs)

LEMMA SetOneBalance ==
    ASSUME NEW bs, AllBalancesInv(bs), NEW u \in Users, NEW id \in TokenIds,
           NEW c, BalanceInv(c)
    PROVE  AllBalancesInv([bs EXCEPT ![u][id] = c])
<1>1. c \in Balance
  BY DEF BalanceInv, Sound
<1>2. QED
  BY <1>1 DEF AllBalancesInv

(* A known proof of a spending kind is a Spend, any other a Mint.          *)
LEMMA ProofKinds ==
    ASSUME NEW p \in Proof
    PROVE  /\ p.kind \in {"transfer", "withdraw", "burn"} => p \in Spend
           /\ p.kind = "mint" => p \in Mint
BY DEF Proof, Spend, Mint

(* An accepted spend is covered by the balance it is taken from.           *)
LEMMA AcceptedSpend ==
    ASSUME IInv, NEW kind \in {"transfer", "withdraw", "burn"}, NEW from \in Users,
           NEW id \in TokenIds, NEW p, AcceptSpend(kind, from, id, p)
    PROVE  /\ p \in Spend /\ p.kind = kind /\ p.amount \in Nat
           /\ BalanceInv(SpendBalance(from, id, p))
           /\ SpendBalance(from, id, p).eGCT.v = balances[from][id].eGCT.v - p.amount
           /\ p.amount <= balances[from][id].eGCT.v
           /\ OnlyAt(SpendBalance(from, id, p), balances[from][id].transactionIndex)
<1>1. p \in proofs /\ p.kind = kind /\ p \in Spend
  BY ProofKinds DEF IInv, TokenTypes, AcceptSpend
<1>2. /\ p.senderAmount \in Ciphertext /\ p.balancePCT \in Int /\ p.amount \in Nat
      /\ p.senderAmount.v = p.amount /\ p.amount <= p.providedBalance.v
  BY <1>1 DEF IInv, ProofsInv, ProofInv, Spend
<1>3. BalanceInv(balances[from][id]) /\ IsBalanceValid(balances[from][id], p.providedBalance)
  BY DEF IInv, AllBalancesInv, AcceptSpend
<1>4. QED
  BY <1>1, <1>2, <1>3, PrivateBurnInv, SpendRevokesHistory DEF SpendBalance

(* Amounts converted between token units and encrypted units.              *)
LEMMA Conversions ==
    ASSUME NEW t \in Tokens, NEW amount \in Nat
    PROVE  /\ ConvertIn(t, amount) \in Nat
           /\ ConvertOut(t, amount) \in Nat
           /\ Dust(t, amount) \in Nat
           /\ Dust(t, amount) <= amount
<1>1. DownScale[t] \in Nat \ {0} /\ UpScale[t] \in Nat \ {0}
  BY TokensAssumption
<1>2. \A a, b \in Nat : a * b \in Nat
  OBVIOUS
<1>3. \A a \in Nat, d \in Nat \ {0} : a \div d \in Nat /\ a % d \in Nat /\ a % d <= a
  OBVIOUS
<1>4. QED
  BY <1>1, <1>2, <1>3 DEF ConvertIn, ConvertOut, Dust

(* The id a token has or gets is one of TokenIds.                          *)
LEMMA AddTokenInv ==
    ASSUME TokenTypes, TokensCounted, NEW t \in Tokens, AddTokenIfNew(t)
    PROVE  /\ tokenIds' \in [Tokens -> TokenIds]
           /\ tokenAddresses' \in [TokenIds -> Tokens \cup {NoAddress}]
           /\ nextTokenId' \in 1 .. Cardinality(Tokens) + 1
           /\ TokensCounted'
<1> DEFINE known == KnownTokens(tokenIds)
<1>1. known \in SUBSET Tokens /\ IsFiniteSet(known) /\ IsFiniteSet(Tokens)
      /\ Cardinality(known) \in Nat /\ Cardinality(Tokens) \in Nat
  BY TokensAssumption, FS_Subset, FS_CardinalityType DEF KnownTokens
<1>2. CASE tokenIds[t] # 0
  BY <1>2 DEF AddTokenIfNew, TokenTypes, TokensCounted, KnownTokens, trackerVars
<1>3. CASE tokenIds[t] = 0
  <2>1. t \notin known
    BY <1>3 DEF KnownTokens
  <2>2. IsFiniteSet(known \cup {t}) /\ Cardinality(known \cup {t}) = Cardinality(known) + 1
    BY <1>1, <2>1, FS_AddElement
  <2>3. Cardinality(known \cup {t}) <= Cardinality(Tokens)
    BY <1>1, FS_Subset
  <2>4. nextTokenId \in 1 .. Cardinality(Tokens)
    BY <1>1, <2>2, <2>3 DEF TokensCounted, TokenTypes
  <2>5. /\ tokenIds' = [tokenIds EXCEPT ![t] = nextTokenId]
        /\ tokenAddresses' = [tokenAddresses EXCEPT ![nextTokenId] = t]
        /\ nextTokenId' = nextTokenId + 1
    BY <1>3 DEF AddTokenIfNew
  <2>6. KnownTokens(tokenIds') = known \cup {t}
    BY <2>4, <2>5 DEF KnownTokens, TokenTypes
  <2>7. TokensCounted'
    <3>1. Cardinality(KnownTokens(tokenIds')) = Cardinality(known) + 1
      BY <2>2, <2>6
    <3>2. Cardinality(known) = nextTokenId - 1
      BY DEF TokensCounted
    <3>3. Cardinality(KnownTokens(tokenIds')) = nextTokenId' - 1
      BY <2>4, <2>5, <3>1, <3>2
    <3>4. QED
      BY <3>3 DEF TokensCounted, KnownTokens
  <2>8. QED
    BY <1>1, <2>4, <2>5, <2>7 DEF TokenTypes, TokenIds
<1>4. QED
  BY <1>2, <1>3
-----------------------------------------------------------------------------
(* One step.                                                               *)

LEMMA InitInv == Init => IInv
<1> SUFFICES ASSUME Init PROVE IInv
  OBVIOUS
<1>1. Cardinality(Tokens) \in Nat /\ 0 \in TokenIds
  BY TokensAssumption, FS_CardinalityType DEF TokenIds
<1>2. AllBalancesInv(balances)
  BY EmptyBalanceInv DEF Init, AllBalancesInv, BalanceInv, Sound
<1>3. TokensCounted
  <2>1. KnownTokens(tokenIds) = {}
    BY DEF Init, KnownTokens
  <2>2. nextTokenId = 1
    BY DEF Init
  <2>3. QED
    BY <2>1, <2>2, FS_EmptySet DEF TokensCounted
<1>4. TokenTypes
  <2>1. wallet \in [Payers -> [Tokens -> Nat]]
    BY TokensAssumption DEF Init, Payers
  <2>2. QED
    BY <1>1, <1>2, <2>1 DEF Init, TokenTypes, AllBalancesInv, NoAuditor
<1>5. ProofsInv /\ IsFiniteSet(proofs)
  BY FS_EmptySet DEF Init, ProofsInv
<1>6. QED
  BY <1>2, <1>3, <1>4, <1>5 DEF IInv

LEMMA UnchangedInv == IInv /\ UNCHANGED vars => IInv'
BY DEF IInv, TokenTypes, TokensCounted, ProofsInv, vars

LEMMA RegistrarInv ==
    ASSUME IInv, NEW u \in Users, NEW key \in Keys,
           Register(u, key) \/ SetAuditorPublicKey(u)
    PROVE  IInv'
<1>1. TokenTypes'
  <2>1. CASE Register(u, key)
    BY <2>1 DEF IInv, TokenTypes, Register, adminVars, trackerVars, moneyVars
  <2>2. CASE SetAuditorPublicKey(u)
    BY <2>2 DEF IInv, TokenTypes, SetAuditorPublicKey, IsUserRegistered, registrarVars, trackerVars,
               moneyVars
  <2>3. QED
    BY <2>1, <2>2
<1>2. QED
  BY <1>1 DEF IInv, Register, SetAuditorPublicKey, TokensCounted, ProofsInv, trackerVars

LEMMA AdminInv ==
    ASSUME IInv,
           \/ \E t \in Tokens, blacklisted \in BOOLEAN : SetTokenBlacklist(t, blacklisted)
           \/ \E d, authorized : SetAuthorizedDepositor(d, authorized)
    PROVE  IInv'
<1>1. TokenTypes'
  BY DEF IInv, TokenTypes, SetTokenBlacklist, SetAuthorizedDepositor, registrarVars, trackerVars,
         moneyVars
<1>2. QED
  BY <1>1 DEF IInv, SetTokenBlacklist, SetAuthorizedDepositor, TokensCounted, ProofsInv,
              trackerVars

(* A deposit credits one balance by its converted amount, or none.         *)
LEMMA DepositCredits ==
    ASSUME IInv, NEW to \in Users, IsUserRegistered(to), NEW t \in Tokens,
           NEW amount \in Nat, NEW amountPCT \in Int, ConvertFrom(to, t, amount, amountPCT)
    PROVE  /\ AllBalancesInv(balances')
           /\ \/ balances' = balances
              \/ \E id \in TokenIds, c \in Balance :
                    /\ balances' = [balances EXCEPT ![to][id] = c]
                    /\ c.eGCT.v = balances[to][id].eGCT.v + ConvertIn(t, amount)
                    /\ Keeps(balances[to][id], c)
<1>1. CASE ConvertIn(t, amount) = 0
  BY <1>1 DEF ConvertFrom, IInv
<1>2. CASE ConvertIn(t, amount) # 0
  <2> DEFINE id == tokenIds'[t]
             c == ConvertCredit(balances[to][id], publicKey[to], ConvertIn(t, amount), amountPCT)
  <2>1. id \in TokenIds
    BY AddTokenInv DEF ConvertFrom, IInv
  <2>2. BalanceInv(balances[to][id]) /\ publicKey[to] \in Keys /\ ConvertIn(t, amount) \in Nat
    BY <2>1, Conversions DEF IInv, AllBalancesInv, IsUserRegistered, TokenTypes
  <2>3. BalanceInv(c) /\ c \in Balance
        /\ c.eGCT.v = balances[to][id].eGCT.v + ConvertIn(t, amount)
        /\ Keeps(balances[to][id], c)
    BY <2>2, ConvertCreditInv, ConvertCreditKeeps DEF BalanceInv, Sound
  <2>4. balances' = [balances EXCEPT ![to][id] = c]
    BY <1>2, <2>1 DEF ConvertFrom, IInv, AllBalancesInv
  <2>5. AllBalancesInv(balances')
    BY <2>1, <2>3, <2>4, SetOneBalance DEF IInv
  <2>6. QED
    BY <2>1, <2>3, <2>4, <2>5
<1>3. QED
  BY <1>1, <1>2

LEMMA ConvertInv ==
    ASSUME IInv, NEW to \in Users, IsUserRegistered(to), NEW t \in Tokens,
           NEW amount \in Nat, NEW amountPCT \in Int, ConvertFrom(to, t, amount, amountPCT),
           reserve' = [reserve EXCEPT ![t] = @ + (amount - Dust(t, amount))],
           wallet' \in [Payers -> [Tokens -> Nat]],
           UNCHANGED <<publicKey, isRegistered, isConverter, auditor, blacklistedTokens,
                       alreadyMinted, proofs, audited>>
    PROVE  IInv'
<1> DEFINE kept == amount - Dust(t, amount)
<1>1. kept \in Nat
  BY Conversions
<1>2. reserve' = [reserve EXCEPT ![t] = @ + kept]
  OBVIOUS
<1> HIDE DEF kept
<1>3. reserve' \in [Tokens -> Nat]
  BY <1>1, <1>2 DEF IInv, TokenTypes
<1>4. AllBalancesInv(balances')
  BY DepositCredits
<1>5. /\ tokenIds' \in [Tokens -> TokenIds]
      /\ tokenAddresses' \in [TokenIds -> Tokens \cup {NoAddress}]
      /\ nextTokenId' \in 1 .. Cardinality(Tokens) + 1
      /\ TokensCounted'
  BY AddTokenInv DEF ConvertFrom, IInv
<1>6. TokenTypes'
  BY <1>3, <1>4, <1>5 DEF IInv, TokenTypes, AllBalancesInv
<1>7. ProofsInv' /\ IsFiniteSet(proofs)'
  BY DEF IInv, ProofsInv
<1>8. QED
  BY <1>4, <1>5, <1>6, <1>7 DEF IInv

LEMMA DepositInv ==
    ASSUME IInv, NEW payer \in Payers, NEW to \in Users, IsUserRegistered(to),
           NEW t \in Tokens, NEW amount \in Nat, NEW amountPCT \in Int,
           ExecuteDepositFrom(payer, to, t, amount, amountPCT)
    PROVE  IInv'
<1> DEFINE kept == amount - Dust(t, amount)
<1>1. kept \in Nat /\ kept <= amount
  BY Conversions
<1>2. /\ ConvertFrom(to, t, amount, amountPCT)
      /\ wallet[payer][t] >= amount
      /\ wallet' = [wallet EXCEPT ![payer][t] = @ - kept]
      /\ reserve' = [reserve EXCEPT ![t] = @ + kept]
      /\ UNCHANGED <<registrarVars, adminVars, alreadyMinted, proofs, audited>>
  BY DEF ExecuteDepositFrom
<1> HIDE DEF kept
<1>3. wallet' \in [Payers -> [Tokens -> Nat]]
  <2>1. wallet[payer][t] - kept \in Nat
    BY <1>1, <1>2 DEF IInv, TokenTypes
  <2>2. QED
    BY <1>2, <2>1 DEF IInv, TokenTypes
<1>4. QED
  BY <1>2, <1>3, ConvertInv DEF registrarVars, adminVars, kept

(* A client that could read its balance proves a true statement about it.  *)
LEMMA ProveSpendInv ==
    ASSUME IInv, NEW kind \in {"transfer", "withdraw", "burn"}, NEW u \in Users,
           NEW id \in TokenIds, NEW value \in Nat,
           NEW senderAmount \in Ciphertext, senderAmount.v = value,
           NEW receiverAmount \in Ciphertext,
           kind = "transfer" => receiverAmount.v = value,
           ProveSpend(kind, u, id, value, senderAmount, receiverAmount)
    PROVE  IInv'
<1> DEFINE b == balances[u][id]
           p == [kind |-> kind, senderKey |-> publicKey[u],
                 providedBalance |-> b.eGCT, senderAmount |-> senderAmount,
                 amount |-> value, balancePCT |-> TotalBalance(b) - value,
                 receiverAmount |-> receiverAmount, auditorKey |-> auditor.key]
<1>1. /\ AuditorSet /\ IsUserRegistered(u) /\ CanDecryptBalance(b) /\ SenderStatement(u, b, value)
      /\ proofs' = proofs \cup {p}
      /\ UNCHANGED <<registrarVars, adminVars, trackerVars, balances, alreadyMinted,
                     moneyVars, audited>>
  BY DEF ProveSpend
<1>2. publicKey[u] \in Keys /\ auditor.key \in Keys
  BY <1>1 DEF IInv, TokenTypes, AuditorSet, IsUserRegistered
<1>3. b.eGCT \in Ciphertext /\ b.eGCT.v \in Int
  BY DEF IInv, TokenTypes, Balance, Ciphertext
<1>4. b.eGCT.key = publicKey[u] /\ value <= b.eGCT.v
  BY <1>1 DEF SenderStatement
<1>5. TotalBalance(b) = b.eGCT.v
  BY <1>1, <1>2, <1>4, KeysAssumption DEF CanDecryptBalance, NoCiphertext
<1>6. p \in Spend /\ p \notin Mint
  <2> HIDE DEF b
  <2>1. TotalBalance(b) - value \in Int
    BY <1>3, <1>5
  <2>2. QED
    BY <2>1, <1>2, <1>3 DEF Spend, Mint
<1>7. ProofInv(p)
  BY <1>4, <1>6 DEF ProofInv
<1> HIDE DEF p
<1>8. TokenTypes'
  BY <1>1, <1>6 DEF IInv, TokenTypes, Proof, registrarVars, adminVars, trackerVars, moneyVars
<1>9. ProofsInv' /\ IsFiniteSet(proofs)'
  BY <1>1, <1>7, FS_AddElement DEF IInv, ProofsInv
<1>10. QED
  BY <1>1, <1>8, <1>9 DEF IInv, TokensCounted, trackerVars

LEMMA ProveTransferInv ==
    ASSUME IInv, NEW from \in Users, NEW to \in Users, NEW id \in TokenIds,
           NEW value \in Amounts, NEW r \in Randomness, ProveTransfer(from, to, id, value, r)
    PROVE  IInv'
<1>1. value \in Nat /\ r \in Int
  BY NumbersAssumption
<1>2. publicKey[from] \in Keys /\ publicKey[to] \in Keys
  BY DEF ProveTransfer, IsUserRegistered, IInv, TokenTypes
<1>3. /\ [key |-> publicKey[from], v |-> value, r |-> r] \in Ciphertext
      /\ [key |-> publicKey[to], v |-> value, r |-> r] \in Ciphertext
  BY <1>1, <1>2 DEF Ciphertext
<1>4. QED
  BY <1>1, <1>3, ProveSpendInv DEF ProveTransfer

LEMMA ProveWithdrawInv ==
    ASSUME IInv, NEW from \in Users, NEW id \in TokenIds, NEW value \in Amounts,
           ProveWithdraw(from, id, value)
    PROVE  IInv'
<1>1. value \in Nat
  BY NumbersAssumption
<1>2. publicKey[from] \in Keys
  BY DEF ProveWithdraw, ProveSpend, IsUserRegistered, IInv, TokenTypes
<1>3. /\ Encrypt(publicKey[from], value) \in Ciphertext
      /\ Encrypt(publicKey[from], value).v = value
      /\ NoCiphertext \in Ciphertext
  BY <1>1, <1>2 DEF Ciphertext, Encrypt, NoCiphertext
<1>4. QED
  BY <1>1, <1>3, ProveSpendInv DEF ProveWithdraw

LEMMA ProveBurnInv ==
    ASSUME IInv, NEW from \in Users, NEW value \in Amounts, NEW r \in Randomness,
           ProveBurn(from, value, r)
    PROVE  IInv'
<1>1. value \in Nat /\ r \in Int /\ 0 \in TokenIds
  BY NumbersAssumption, TokensAssumption, FS_CardinalityType DEF TokenIds
<1>2. publicKey[from] \in Keys
  BY DEF ProveBurn, ProveSpend, IsUserRegistered, IInv, TokenTypes
<1>3. /\ [key |-> publicKey[from], v |-> value, r |-> r] \in Ciphertext
      /\ NoCiphertext \in Ciphertext
  BY <1>1, <1>2 DEF Ciphertext, NoCiphertext
<1>4. QED
  BY <1>1, <1>3, ProveSpendInv DEF ProveBurn

LEMMA ProveMintInv ==
    ASSUME IInv, NEW to \in Users, NEW value \in Amounts, NEW r \in Randomness,
           ProveMint(to, value, r)
    PROVE  IInv'
<1> DEFINE p == [kind |-> "mint", amount |-> value, auditorKey |-> auditor.key,
                 receiverAmount |-> [key |-> publicKey[to], v |-> value, r |-> r],
                 nullifier |-> Cardinality(proofs)]
<1>1. value \in Nat /\ r \in Int /\ Cardinality(proofs) \in Nat
  BY NumbersAssumption, FS_CardinalityType DEF IInv
<1>2. /\ AuditorSet /\ IsUserRegistered(to)
      /\ proofs' = proofs \cup {p}
      /\ UNCHANGED <<registrarVars, adminVars, trackerVars, balances, alreadyMinted,
                     moneyVars, audited>>
  BY DEF ProveMint
<1>3. publicKey[to] \in Keys /\ auditor.key \in Keys
  BY <1>2 DEF IInv, TokenTypes, AuditorSet, IsUserRegistered
<1>4. p \in Mint /\ p \notin Spend
  BY <1>1, <1>3 DEF Mint, Spend, Ciphertext
<1>5. ProofInv(p)
  BY <1>4 DEF ProofInv
<1> HIDE DEF p
<1>6. TokenTypes'
  BY <1>2, <1>4 DEF IInv, TokenTypes, Proof, registrarVars, adminVars, trackerVars, moneyVars
<1>7. ProofsInv' /\ IsFiniteSet(proofs)'
  BY <1>2, <1>5, FS_AddElement DEF IInv, ProofsInv
<1>8. QED
  BY <1>2, <1>6, <1>7 DEF IInv, TokensCounted, trackerVars

(* burn, then add, possibly to one and the same balance.                   *)
LEMMA TransferBalances ==
    ASSUME IInv, NEW from \in Users, NEW to \in Users, NEW id \in TokenIds, NEW p,
           Transfer(from, to, id, p)
    PROVE  \E burned, sent, received :
              /\ AllBalancesInv(burned) /\ BalanceInv(sent) /\ BalanceInv(received)
              /\ burned = [balances EXCEPT ![from][id] = sent]
              /\ balances' = [burned EXCEPT ![to][id] = received]
              /\ p.amount \in Nat
              /\ p.amount <= balances[from][id].eGCT.v
              /\ sent.eGCT.v = balances[from][id].eGCT.v - p.amount
              /\ received.eGCT.v = burned[to][id].eGCT.v + p.amount
              /\ Keeps(burned[to][id], received)
              /\ OnlyAt(sent, balances[from][id].transactionIndex)
<1> DEFINE sent == SpendBalance(from, id, p)
           burned == [balances EXCEPT ![from][id] = sent]
           received == AddToUserBalance(burned[to][id], p.receiverAmount, p.amount)
<1>1. AcceptSpend("transfer", from, id, p) /\ balances' = [burned EXCEPT ![to][id] = received]
  BY DEF Transfer, IInv, AllBalancesInv
<1>2. /\ p \in Spend /\ p.kind = "transfer" /\ p.amount \in Nat /\ BalanceInv(sent)
      /\ sent.eGCT.v = balances[from][id].eGCT.v - p.amount
      /\ p.amount <= balances[from][id].eGCT.v
      /\ OnlyAt(sent, balances[from][id].transactionIndex)
  BY <1>1, AcceptedSpend
<1>3. p.receiverAmount \in Ciphertext /\ p.receiverAmount.v = p.amount
  BY <1>1, <1>2 DEF AcceptSpend, IInv, ProofsInv, ProofInv, Spend
<1> HIDE DEF sent
<1>4. AllBalancesInv(burned)
  BY <1>2, SetOneBalance DEF IInv
<1> HIDE DEF burned
<1>5. BalanceInv(received) /\ received.eGCT.v = burned[to][id].eGCT.v + p.amount
      /\ Keeps(burned[to][id], received)
  BY <1>2, <1>3, <1>4, AddToUserBalanceInv, AddToUserBalanceKeeps DEF AllBalancesInv
<1>6. burned = [balances EXCEPT ![from][id] = sent]
  BY DEF burned
<1> HIDE DEF received
<1>7. QED
  BY <1>1, <1>2, <1>4, <1>5, <1>6

(* The event of an accepted proof is under the auditor's key.              *)
LEMMA EmitType ==
    ASSUME IInv, NEW p \in proofs, AuditorSet, EmitPrivate(p)
    PROVE  audited' \subseteq [auditor : Users, key : Keys]
<1>1. p.auditorKey \in Keys
  BY DEF IInv, TokenTypes, Proof, Spend, Mint
<1>2. auditor.user \in Users
  BY DEF IInv, TokenTypes, AuditorSet
<1>3. QED
  BY <1>1, <1>2 DEF EmitPrivate, IInv, TokenTypes

LEMMA TransferInv ==
    ASSUME IInv, NEW from \in Users, NEW to \in Users, NEW id \in TokenIds, NEW p \in proofs,
           Transfer(from, to, id, p)
    PROVE  IInv'
<1>1. AllBalancesInv(balances')
  BY TransferBalances, SetOneBalance
<1>2. audited' \subseteq [auditor : Users, key : Keys]
  BY EmitType DEF Transfer, AcceptSpend
<1>3. UNCHANGED <<registrarVars, adminVars, trackerVars, alreadyMinted, moneyVars, proofs>>
  BY DEF Transfer
<1>4. TokenTypes'
  BY <1>1, <1>2, <1>3 DEF IInv, TokenTypes, AllBalancesInv, registrarVars, adminVars, trackerVars,
                          moneyVars
<1>5. QED
  BY <1>1, <1>3, <1>4 DEF IInv, TokensCounted, ProofsInv, trackerVars

(* The balance an accepted withdrawal or burn leaves.                      *)
LEMMA SpendBalances ==
    ASSUME IInv, NEW kind \in {"withdraw", "burn"}, NEW from \in Users, NEW id \in TokenIds,
           NEW p, AcceptSpend(kind, from, id, p),
           balances' = [balances EXCEPT ![from][id] = SpendBalance(from, id, p)]
    PROVE  AllBalancesInv(balances')
<1>1. BalanceInv(SpendBalance(from, id, p))
  BY AcceptedSpend
<1>2. QED
  BY <1>1, SetOneBalance DEF IInv

LEMMA WithdrawInv ==
    ASSUME IInv, NEW from \in Users, NEW id \in TokenIds, NEW p \in proofs, Withdraw(from, id, p)
    PROVE  IInv'
<1> DEFINE t == tokenAddresses[id]
           out == ConvertOut(t, p.amount)
<1>1. /\ AcceptSpend("withdraw", from, id, p)
      /\ t # NoAddress
      /\ reserve[t] >= out
      /\ balances' = [balances EXCEPT ![from][id] = SpendBalance(from, id, p)]
      /\ wallet' = [wallet EXCEPT ![from][t] = @ + out]
      /\ reserve' = [reserve EXCEPT ![t] = @ - out]
      /\ EmitPrivate(p)
      /\ UNCHANGED <<registrarVars, adminVars, trackerVars, alreadyMinted, proofs>>
  BY DEF Withdraw
<1>2. t \in Tokens /\ p.amount \in Nat
  BY <1>1, AcceptedSpend DEF IInv, TokenTypes
<1>3. out \in Nat
  BY <1>2, Conversions
<1> HIDE DEF t, out
<1>4. AllBalancesInv(balances')
  BY <1>1, SpendBalances
<1>5. reserve' \in [Tokens -> Nat]
  <2>1. reserve[t] - out \in Nat
    BY <1>1, <1>2, <1>3 DEF IInv, TokenTypes
  <2>2. QED
    BY <1>1, <2>1 DEF IInv, TokenTypes
<1>6. wallet' \in [Payers -> [Tokens -> Nat]]
  BY <1>1, <1>2, <1>3 DEF IInv, TokenTypes, Payers
<1>7. audited' \subseteq [auditor : Users, key : Keys]
  BY <1>1, EmitType DEF AcceptSpend
<1>8. TokenTypes'
  BY <1>1, <1>4, <1>5, <1>6, <1>7 DEF IInv, TokenTypes, AllBalancesInv, registrarVars, adminVars,
                                      trackerVars
<1>9. QED
  BY <1>1, <1>4, <1>8 DEF IInv, TokensCounted, ProofsInv, trackerVars

LEMMA PrivateBurnStepInv ==
    ASSUME IInv, NEW from \in Users, NEW p \in proofs, PrivateBurn(from, p)
    PROVE  IInv'
<1>1. 0 \in TokenIds
  BY TokensAssumption, FS_CardinalityType DEF TokenIds
<1>2. AllBalancesInv(balances')
  BY <1>1, SpendBalances DEF PrivateBurn
<1>3. audited' \subseteq [auditor : Users, key : Keys]
  BY EmitType DEF PrivateBurn, AcceptSpend
<1>4. UNCHANGED <<registrarVars, adminVars, trackerVars, alreadyMinted, moneyVars, proofs>>
  BY DEF PrivateBurn
<1>5. TokenTypes'
  BY <1>2, <1>3, <1>4 DEF IInv, TokenTypes, AllBalancesInv, registrarVars, adminVars, trackerVars,
                          moneyVars
<1>6. QED
  BY <1>2, <1>4, <1>5 DEF IInv, TokensCounted, ProofsInv, trackerVars

LEMMA MintBalance ==
    ASSUME IInv, NEW to \in Users, NEW p \in proofs, PrivateMint(to, p)
    PROVE  \E c \in Balance :
              /\ BalanceInv(c) /\ p \in Mint
              /\ balances' = [balances EXCEPT ![to][0] = c]
              /\ c.eGCT.v = balances[to][0].eGCT.v + p.amount
              /\ Keeps(balances[to][0], c)
<1> DEFINE c == AddToUserBalance(balances[to][0], p.receiverAmount, p.amount)
<1>1. p \in Mint
  BY ProofKinds DEF PrivateMint, IInv, TokenTypes
<1>2. p.receiverAmount \in Ciphertext /\ p.receiverAmount.v = p.amount /\ p.amount \in Nat
  BY <1>1 DEF IInv, ProofsInv, ProofInv, Mint
<1>3. 0 \in TokenIds
  BY TokensAssumption, FS_CardinalityType DEF TokenIds
<1>4. BalanceInv(c) /\ c.eGCT.v = balances[to][0].eGCT.v + p.amount
      /\ Keeps(balances[to][0], c)
  BY <1>2, <1>3, AddToUserBalanceInv, AddToUserBalanceKeeps DEF IInv, AllBalancesInv
<1>5. balances' = [balances EXCEPT ![to][0] = c]
  BY <1>3 DEF PrivateMint, IInv, AllBalancesInv
<1>6. QED
  BY <1>1, <1>4, <1>5 DEF BalanceInv, Sound

LEMMA PrivateMintInv ==
    ASSUME IInv, NEW to \in Users, NEW p \in proofs, PrivateMint(to, p)
    PROVE  IInv'
<1>1. 0 \in TokenIds
  BY TokensAssumption, FS_CardinalityType DEF TokenIds
<1>2. AllBalancesInv(balances') /\ p \in Mint
  BY <1>1, MintBalance, SetOneBalance DEF IInv
<1>3. alreadyMinted' \subseteq Nat
  BY <1>2 DEF PrivateMint, IInv, TokenTypes, Mint
<1>4. audited' \subseteq [auditor : Users, key : Keys]
  BY EmitType DEF PrivateMint
<1>5. UNCHANGED <<registrarVars, adminVars, trackerVars, moneyVars, proofs>>
  BY DEF PrivateMint
<1>6. TokenTypes'
  BY <1>2, <1>3, <1>4, <1>5 DEF IInv, TokenTypes, AllBalancesInv, registrarVars, adminVars,
                                trackerVars, moneyVars
<1>7. QED
  BY <1>2, <1>5, <1>6 DEF IInv, TokensCounted, ProofsInv, trackerVars

LEMMA NextInv == IInv /\ [Next]_vars => IInv'
<1> SUFFICES ASSUME IInv, Next PROVE IInv'
  BY UnchangedInv
<1>1. CASE \E u \in Users, key \in Keys : Register(u, key)
  BY <1>1, RegistrarInv
<1>2. CASE \E u \in Users : SetAuditorPublicKey(u)
  <2>1. PICK u \in Users : SetAuditorPublicKey(u)
    BY <1>2
  <2>2. publicKey[u] \in Keys
    BY <2>1 DEF SetAuditorPublicKey, IsUserRegistered, IInv, TokenTypes
  <2>3. QED
    BY <2>1, <2>2, RegistrarInv
<1>3. CASE \/ \E t \in Tokens, blacklisted \in BOOLEAN : SetTokenBlacklist(t, blacklisted)
           \/ \E d \in Depositors, authorized \in BOOLEAN : SetAuthorizedDepositor(d, authorized)
  BY <1>3, AdminInv
<1>4. CASE \E u \in Users, t \in Tokens, amount \in Amounts : Deposit(u, t, amount)
  <2>1. PICK u \in Users, t \in Tokens, amount \in Amounts : Deposit(u, t, amount)
    BY <1>4
  <2>2. amount \in Nat /\ ConvertIn(t, amount) \in Int /\ u \in Payers
    BY NumbersAssumption, Conversions DEF Payers
  <2>3. QED
    BY <2>1, <2>2, DepositInv DEF Deposit
<1>5. CASE \E d \in Depositors, to \in Users, t \in Tokens, amount \in Amounts :
              \E amountPCT \in DepositorPCTs(t, amount) : DepositFor(d, to, t, amount, amountPCT)
  <2>1. PICK d \in Depositors, to \in Users, t \in Tokens, amount \in Amounts :
            \E amountPCT \in DepositorPCTs(t, amount) : DepositFor(d, to, t, amount, amountPCT)
    BY <1>5
  <2>2. PICK amountPCT \in DepositorPCTs(t, amount) : DepositFor(d, to, t, amount, amountPCT)
    BY <2>1
  <2>3. amount \in Nat /\ Amounts \subseteq Int /\ d \in Payers
    BY NumbersAssumption DEF Payers
  <2>4. ConvertIn(t, amount) \in Int
    BY <2>3, Conversions
  <2>5. amountPCT \in Int
    BY <2>3, <2>4 DEF DepositorPCTs
  <2>6. QED
    BY <2>2, <2>3, <2>5, DepositInv DEF DepositFor
<1>6. CASE \E from, to \in Users, id \in TokenIds, value \in Amounts, r \in Randomness :
              ProveTransfer(from, to, id, value, r)
  BY <1>6, ProveTransferInv
<1>7. CASE \E from \in Users, id \in TokenIds, value \in Amounts : ProveWithdraw(from, id, value)
  BY <1>7, ProveWithdrawInv
<1>8. CASE \E from \in Users, value \in Amounts, r \in Randomness : ProveBurn(from, value, r)
  BY <1>8, ProveBurnInv
<1>9. CASE \E to \in Users, value \in Amounts, r \in Randomness : ProveMint(to, value, r)
  BY <1>9, ProveMintInv
<1>10. CASE \E from, to \in Users, id \in TokenIds, p \in proofs : Transfer(from, to, id, p)
  BY <1>10, TransferInv
<1>11. CASE \E from \in Users, id \in TokenIds, p \in proofs : Withdraw(from, id, p)
  BY <1>11, WithdrawInv
<1>12. CASE \E from \in Users, p \in proofs : PrivateBurn(from, p)
  BY <1>12, PrivateBurnStepInv
<1>13. CASE \E to \in Users, p \in proofs : PrivateMint(to, p)
  BY <1>13, PrivateMintInv
<1>14. QED
  BY <1>1, <1>2, <1>3, <1>4, <1>5, <1>6, <1>7, <1>8, <1>9, <1>10, <1>11, <1>12, <1>13 DEF Next
-----------------------------------------------------------------------------
(* Theorems.                                                               *)

(* Only the owner's call authorizes a depositor.                           *)
LEMMA StepAuthorizes ==
    ASSUME Next
    PROVE  \/ UNCHANGED authorizedDepositors
           \/ \E d \in Depositors, authorized \in BOOLEAN : SetAuthorizedDepositor(d, authorized)
<1>1. ASSUME NEW kind, NEW u, NEW id, NEW value, NEW senderAmount, NEW receiverAmount,
             ProveSpend(kind, u, id, value, senderAmount, receiverAmount)
      PROVE  UNCHANGED authorizedDepositors
  BY <1>1 DEF ProveSpend, adminVars
<1>2. ASSUME NEW payer, NEW to, NEW t, NEW amount, NEW amountPCT,
             ExecuteDepositFrom(payer, to, t, amount, amountPCT)
      PROVE  UNCHANGED authorizedDepositors
  BY <1>2 DEF ExecuteDepositFrom, adminVars
<1>3. ASSUME NEW u, NEW key, Register(u, key) \/ SetAuditorPublicKey(u) \/ SetTokenBlacklist(u, key)
      PROVE  UNCHANGED authorizedDepositors
  BY <1>3 DEF Register, SetAuditorPublicKey, SetTokenBlacklist, adminVars
<1>4. ASSUME NEW from, NEW to, NEW id, NEW p,
             Transfer(from, to, id, p) \/ Withdraw(from, id, p) \/ PrivateBurn(from, p)
                 \/ PrivateMint(to, p)
      PROVE  UNCHANGED authorizedDepositors
  BY <1>4 DEF Transfer, Withdraw, PrivateBurn, PrivateMint, adminVars
<1>5. ASSUME NEW from, NEW value, NEW r, ProveMint(from, value, r)
      PROVE  UNCHANGED authorizedDepositors
  BY <1>5 DEF ProveMint, adminVars
<1>6. QED
  BY <1>1, <1>2, <1>3, <1>4, <1>5
     DEF Next, Deposit, DepositFor, ProveTransfer, ProveWithdraw, ProveBurn

LEMMA Invariance == Spec => []IInv
<1>1. Init => IInv
  BY InitInv
<1>2. IInv /\ [Next]_vars => IInv'
  BY NextInv
<1>3. QED
  BY <1>1, <1>2, PTL DEF Spec

(* Every variable keeps its type; ERC20 balances never go negative.        *)
THEOREM TypeCorrect == Spec => []TypeOK
<1> DEFINE Known == authorizedDepositors \subseteq Depositors
<1>1. Init => Known
  BY DEF Init
<1>2. Known /\ [Next]_vars => Known'
  <2> SUFFICES ASSUME Known, [Next]_vars PROVE Known'
    OBVIOUS
  <2>1. CASE UNCHANGED vars
    BY <2>1 DEF vars
  <2>2. CASE Next
    BY <2>2, StepAuthorizes DEF SetAuthorizedDepositor
  <2>3. QED
    BY <2>1, <2>2
<1>3. IInv /\ Known => TypeOK
  BY DEF IInv, TypeOK
<1>4. QED
  BY <1>1, <1>2, <1>3, Invariance, PTL DEF Spec

(* Whatever stale proofs are submitted, in whatever order and between      *)
(* whatever credits, every snapshot the contract accepts is covered by the *)
(* balance.                                                                *)
THEOREM SnapshotsAreCovered == Spec => []SnapshotCovered
<1>1. IInv => SnapshotCovered
  BY DEF IInv, AllBalancesInv, BalanceInv, Covered, SnapshotCovered
<1>2. QED
  BY <1>1, Invariance, PTL

(* No encrypted balance is ever overdrawn.                                 *)
THEOREM BalancesNotOverdrawn == Spec => []NoOverdraft
<1>1. IInv => NoOverdraft
  BY DEF IInv, AllBalancesInv, BalanceInv, Sound, NoOverdraft
<1>2. QED
  BY <1>1, Invariance, PTL
-----------------------------------------------------------------------------
(* What a step does to one balance: it credits it, which every snapshot    *)
(* survives, or its owner spends, which none survives.                     *)

Credited(u, id) ==
    /\ Keeps(balances[u][id], balances'[u][id])
    /\ balances[u][id].eGCT.v <= balances'[u][id].eGCT.v

Revoked(u, id) == OnlyAt(balances'[u][id], balances[u][id].transactionIndex)

SpentOrMore(u, id) ==
    \/ balances[u][id].eGCT.v <= balances'[u][id].eGCT.v
    \/ Revoked(u, id)

Changed(u, id) == Credited(u, id) \/ (Spends(u) /\ SpentOrMore(u, id))

LEMMA KeptChanges ==
    ASSUME IInv, NEW u \in Users, NEW id \in TokenIds, balances'[u][id] = balances[u][id]
    PROVE  Credited(u, id)
<1>1. balances[u][id].eGCT.v \in Int
  BY DEF IInv, TokenTypes, Balance, Ciphertext
<1>2. QED
  BY <1>1 DEF Credited, Keeps

LEMMA CreditChanges ==
    ASSUME IInv, NEW to \in Users, NEW tid \in TokenIds, NEW c \in Balance, NEW value \in Nat,
           balances' = [balances EXCEPT ![to][tid] = c],
           c.eGCT.v = balances[to][tid].eGCT.v + value, Keeps(balances[to][tid], c),
           NEW u \in Users, NEW id \in TokenIds
    PROVE  Credited(u, id)
<1>1. CASE u = to /\ id = tid
  <2>1. balances[u][id].eGCT.v \in Int /\ balances'[u][id] = c
    BY <1>1 DEF IInv, TokenTypes, Balance, Ciphertext
  <2>2. QED
    BY <1>1, <2>1 DEF Credited
<1>2. CASE u # to \/ id # tid
  BY <1>2, KeptChanges DEF IInv, TokenTypes
<1>3. QED
  BY <1>1, <1>2

LEMMA TransferChanges ==
    ASSUME IInv, NEW from \in Users, NEW to \in Users, NEW tid \in TokenIds, NEW p \in proofs,
           Transfer(from, to, tid, p), NEW u \in Users, NEW id \in TokenIds
    PROVE  Changed(u, id)
<1>1. PICK burned, sent, received :
         /\ AllBalancesInv(burned) /\ BalanceInv(sent) /\ BalanceInv(received)
         /\ burned = [balances EXCEPT ![from][tid] = sent]
         /\ balances' = [burned EXCEPT ![to][tid] = received]
         /\ p.amount \in Nat
         /\ p.amount <= balances[from][tid].eGCT.v
         /\ sent.eGCT.v = balances[from][tid].eGCT.v - p.amount
         /\ received.eGCT.v = burned[to][tid].eGCT.v + p.amount
         /\ Keeps(burned[to][tid], received)
         /\ OnlyAt(sent, balances[from][tid].transactionIndex)
  BY TransferBalances
<1>2. Spends(from)
  BY DEF Spends
<1>3. /\ balances \in [Users -> [TokenIds -> Balance]]
      /\ \A v \in Users, k \in TokenIds : balances[v][k].eGCT.v \in Int
  BY DEF IInv, TokenTypes, Balance, Ciphertext
<1>4. CASE u = from /\ id = tid /\ u = to
  <2>1. balances'[u][id] = received /\ burned[to][tid] = sent
    BY <1>1, <1>3, <1>4
  <2>2. balances'[u][id].eGCT.v = balances[u][id].eGCT.v
    BY <1>1, <1>3, <1>4, <2>1
  <2>3. QED
    BY <1>2, <1>3, <1>4, <2>2 DEF Changed, SpentOrMore
<1>5. CASE u = from /\ id = tid /\ u # to
  <2>1. balances'[u][id] = sent
    BY <1>1, <1>3, <1>5
  <2>2. QED
    BY <1>1, <1>2, <1>5, <2>1 DEF Changed, SpentOrMore, Revoked
<1>6. CASE u = to /\ id = tid /\ u # from
  <2>1. balances'[u][id] = received /\ burned[to][tid] = balances[u][id]
    BY <1>1, <1>3, <1>6
  <2>2. balances[u][id].eGCT.v <= received.eGCT.v
    BY <1>1, <1>3, <2>1
  <2>3. QED
    BY <1>1, <2>1, <2>2 DEF Changed, Credited
<1>7. CASE id # tid \/ (u # from /\ u # to)
  <2>1. balances'[u][id] = balances[u][id]
    BY <1>1, <1>3, <1>7
  <2>2. QED
    BY <2>1, KeptChanges DEF Changed
<1>8. QED
  BY <1>4, <1>5, <1>6, <1>7

LEMMA SpendChanges ==
    ASSUME IInv, NEW kind \in {"withdraw", "burn"}, NEW from \in Users, NEW tid \in TokenIds,
           NEW p, AcceptSpend(kind, from, tid, p), Spends(from),
           balances' = [balances EXCEPT ![from][tid] = SpendBalance(from, tid, p)],
           NEW u \in Users, NEW id \in TokenIds
    PROVE  Changed(u, id)
<1>1. CASE u = from /\ id = tid
  <2>1. balances'[u][id] = SpendBalance(from, tid, p)
    BY <1>1 DEF IInv, TokenTypes
  <2>2. Revoked(u, id)
    BY <1>1, <2>1, AcceptedSpend DEF Revoked
  <2>3. QED
    BY <1>1, <2>2 DEF Changed, SpentOrMore
<1>2. CASE u # from \/ id # tid
  <2>1. balances'[u][id] = balances[u][id]
    BY <1>2 DEF IInv, TokenTypes
  <2>2. QED
    BY <2>1, KeptChanges DEF Changed
<1>3. QED
  BY <1>1, <1>2

LEMMA DepositChanges ==
    ASSUME IInv, NEW to \in Users, IsUserRegistered(to), NEW t \in Tokens, NEW amount \in Nat,
           NEW amountPCT \in Int, ConvertFrom(to, t, amount, amountPCT),
           NEW u \in Users, NEW id \in TokenIds
    PROVE  Credited(u, id)
<1>1. CASE balances' = balances
  BY <1>1, KeptChanges
<1>2. CASE \E tid \in TokenIds, c \in Balance :
              /\ balances' = [balances EXCEPT ![to][tid] = c]
              /\ c.eGCT.v = balances[to][tid].eGCT.v + ConvertIn(t, amount)
              /\ Keeps(balances[to][tid], c)
  BY <1>2, CreditChanges, Conversions
<1>3. QED
  BY <1>1, <1>2, DepositCredits

LEMMA StepChanges ==
    ASSUME IInv, Next, NEW u \in Users, NEW id \in TokenIds
    PROVE  Changed(u, id)
<1>1. CASE UNCHANGED balances
  BY <1>1, KeptChanges DEF Changed
<1>2. ASSUME NEW to \in Users, NEW t \in Tokens, NEW amount \in Amounts,
             Deposit(to, t, amount)
      PROVE  Changed(u, id)
  <2>1. amount \in Nat /\ ConvertIn(t, amount) \in Int
    BY NumbersAssumption, Conversions
  <2>2. QED
    BY <1>2, <2>1, DepositChanges DEF Deposit, ExecuteDepositFrom, Changed
<1>3. ASSUME NEW d \in Depositors, NEW to \in Users, NEW t \in Tokens, NEW amount \in Amounts,
             NEW amountPCT \in DepositorPCTs(t, amount), DepositFor(d, to, t, amount, amountPCT)
      PROVE  Changed(u, id)
  <2>1. amount \in Nat /\ ConvertIn(t, amount) \in Int
    BY NumbersAssumption, Conversions
  <2>2. amountPCT \in Int
    BY <2>1 DEF DepositorPCTs
  <2>3. QED
    BY <1>3, <2>1, <2>2, DepositChanges DEF DepositFor, ExecuteDepositFrom, Changed
<1>4. ASSUME NEW from \in Users, NEW to \in Users, NEW tid \in TokenIds, NEW p \in proofs,
             Transfer(from, to, tid, p)
      PROVE  Changed(u, id)
  BY <1>4, TransferChanges
<1>5. ASSUME NEW from \in Users, NEW tid \in TokenIds, NEW p \in proofs, Withdraw(from, tid, p)
      PROVE  Changed(u, id)
  <2>1. Spends(from)
    BY <1>5 DEF Spends
  <2>2. QED
    BY <1>5, <2>1, SpendChanges DEF Withdraw
<1>6. ASSUME NEW from \in Users, NEW p \in proofs, PrivateBurn(from, p)
      PROVE  Changed(u, id)
  <2>1. Spends(from) /\ 0 \in TokenIds
    BY <1>6, TokensAssumption, FS_CardinalityType DEF Spends, TokenIds
  <2>2. QED
    BY <1>6, <2>1, SpendChanges DEF PrivateBurn
<1>7. ASSUME NEW to \in Users, NEW p \in proofs, PrivateMint(to, p)
      PROVE  Changed(u, id)
  <2>1. PICK c \in Balance :
            /\ BalanceInv(c) /\ p \in Mint
            /\ balances' = [balances EXCEPT ![to][0] = c]
            /\ c.eGCT.v = balances[to][0].eGCT.v + p.amount
            /\ Keeps(balances[to][0], c)
    BY <1>7, MintBalance
  <2>2. 0 \in TokenIds /\ p.amount \in Nat
    BY <2>1, TokensAssumption, FS_CardinalityType DEF TokenIds, Mint
  <2>3. QED
    BY <2>1, <2>2, CreditChanges DEF Changed
<1>8. CASE \/ \E v \in Users, key \in Keys : Register(v, key)
           \/ \E v \in Users : SetAuditorPublicKey(v)
           \/ \E t \in Tokens, blacklisted \in BOOLEAN : SetTokenBlacklist(t, blacklisted)
           \/ \E d \in Depositors, authorized \in BOOLEAN : SetAuthorizedDepositor(d, authorized)
           \/ \E to \in Users, value \in Amounts, r \in Randomness : ProveMint(to, value, r)
  BY <1>1, <1>8 DEF Register, SetAuditorPublicKey, SetTokenBlacklist, SetAuthorizedDepositor,
                    ProveMint
<1>9. CASE \/ \E from, to \in Users, tid \in TokenIds, value \in Amounts, r \in Randomness :
                  ProveTransfer(from, to, tid, value, r)
           \/ \E from \in Users, tid \in TokenIds, value \in Amounts : ProveWithdraw(from, tid, value)
           \/ \E from \in Users, value \in Amounts, r \in Randomness : ProveBurn(from, value, r)
  <2>1. ASSUME NEW kind, NEW v, NEW tid, NEW value, NEW senderAmount, NEW receiverAmount,
               ProveSpend(kind, v, tid, value, senderAmount, receiverAmount)
        PROVE  UNCHANGED balances
    BY <2>1 DEF ProveSpend
  <2>2. QED
    BY <1>1, <1>9, <2>1 DEF ProveTransfer, ProveWithdraw, ProveBurn
<1>10. QED
  BY <1>2, <1>3, <1>4, <1>5, <1>6, <1>7, <1>8, <1>9 DEF Next

LEMMA RevokesStep ==
    ASSUME IInv, Next, NEW u \in Users, NEW id \in TokenIds,
           balances'[u][id].eGCT.v < balances[u][id].eGCT.v
    PROVE  \A h \in ValidHistory(balances'[u][id]) : h.index >= balances[u][id].transactionIndex
<1>1. balances[u][id].eGCT.v \in Int /\ balances[u][id].transactionIndex \in Nat
  BY DEF IInv, TokenTypes, Balance, Ciphertext
<1>2. IInv'
  BY NextInv
<1>3. balances'[u][id].eGCT.v \in Int
  BY <1>2 DEF IInv, TokenTypes, Balance, Ciphertext
<1>4. Revoked(u, id)
  BY <1>1, <1>3, StepChanges DEF Changed, Credited, SpentOrMore
<1>5. QED
  BY <1>1, <1>4 DEF Revoked, OnlyAt

(* Two proofs of one balance never both spend it: a spend, whichever of    *)
(* the proofs in flight gets through, leaves no older snapshot valid.      *)
THEOREM SpendsRevoke == Spec => SpendRevokes
<1> DEFINE Revokes ==
        \A u \in Users, id \in TokenIds :
            balances'[u][id].eGCT.v < balances[u][id].eGCT.v =>
                \A h \in ValidHistory(balances'[u][id]) :
                    h.index >= balances[u][id].transactionIndex
<1>1. IInv /\ [Next]_vars => [Revokes]_vars
  BY RevokesStep
<1>2. QED
  BY <1>1, Invariance, PTL DEF Spec, SpendRevokes

(* Keys of registered users stay, proofs stay.                             *)
LEMMA SenderKept ==
    ASSUME IInv, Next, NEW u \in Users, IsUserRegistered(u)
    PROVE  publicKey'[u] = publicKey[u] /\ proofs \subseteq proofs'
<1>1. CASE UNCHANGED <<publicKey, proofs>>
  BY <1>1
<1>2. ASSUME NEW v \in Users, NEW key \in Keys, Register(v, key)
      PROVE  publicKey'[u] = publicKey[u] /\ proofs \subseteq proofs'
  BY <1>2 DEF Register, IsUserRegistered, IInv, TokenTypes
<1>3. CASE UNCHANGED publicKey /\ proofs \subseteq proofs'
  BY <1>3
<1>4. CASE \/ \E from, to \in Users, tid \in TokenIds, value \in Amounts, r \in Randomness :
                  ProveTransfer(from, to, tid, value, r)
           \/ \E from \in Users, tid \in TokenIds, value \in Amounts : ProveWithdraw(from, tid, value)
           \/ \E from \in Users, value \in Amounts, r \in Randomness : ProveBurn(from, value, r)
           \/ \E to \in Users, value \in Amounts, r \in Randomness : ProveMint(to, value, r)
  <2>1. ASSUME NEW kind, NEW v, NEW tid, NEW value, NEW senderAmount, NEW receiverAmount,
               ProveSpend(kind, v, tid, value, senderAmount, receiverAmount)
        PROVE  UNCHANGED publicKey /\ proofs \subseteq proofs'
    BY <2>1 DEF ProveSpend, registrarVars
  <2>2. ASSUME NEW to, NEW value, NEW r, ProveMint(to, value, r)
        PROVE  UNCHANGED publicKey /\ proofs \subseteq proofs'
    BY <2>2 DEF ProveMint, registrarVars
  <2>3. QED
    BY <1>3, <1>4, <2>1, <2>2 DEF ProveTransfer, ProveWithdraw, ProveBurn
<1>5. CASE \/ \E v \in Users : SetAuditorPublicKey(v)
           \/ \E t \in Tokens, blacklisted \in BOOLEAN : SetTokenBlacklist(t, blacklisted)
           \/ \E d \in Depositors, authorized \in BOOLEAN : SetAuthorizedDepositor(d, authorized)
  BY <1>1, <1>5 DEF SetAuditorPublicKey, SetTokenBlacklist, SetAuthorizedDepositor, registrarVars
<1>6. CASE \/ \E v \in Users, t \in Tokens, amount \in Amounts : Deposit(v, t, amount)
           \/ \E d \in Depositors, to \in Users, t \in Tokens, amount \in Amounts :
                  \E amountPCT \in DepositorPCTs(t, amount) : DepositFor(d, to, t, amount, amountPCT)
  BY <1>1, <1>6 DEF Deposit, DepositFor, ExecuteDepositFrom, registrarVars
<1>7. CASE \/ \E from, to \in Users, tid \in TokenIds, p \in proofs : Transfer(from, to, tid, p)
           \/ \E from \in Users, tid \in TokenIds, p \in proofs : Withdraw(from, tid, p)
           \/ \E from \in Users, p \in proofs : PrivateBurn(from, p)
           \/ \E to \in Users, p \in proofs : PrivateMint(to, p)
  <2>1. ASSUME NEW from, NEW to, NEW tid, NEW p, Transfer(from, to, tid, p)
        PROVE  UNCHANGED <<publicKey, proofs>>
    BY <2>1 DEF Transfer, registrarVars
  <2>2. ASSUME NEW from, NEW tid, NEW p, Withdraw(from, tid, p)
        PROVE  UNCHANGED <<publicKey, proofs>>
    BY <2>2 DEF Withdraw, registrarVars
  <2>3. ASSUME NEW v, NEW p, PrivateBurn(v, p) \/ PrivateMint(v, p)
        PROVE  UNCHANGED <<publicKey, proofs>>
    BY <2>3 DEF PrivateBurn, PrivateMint, registrarVars
  <2>4. QED
    BY <1>1, <1>7, <2>1, <2>2, <2>3
<1>8. QED
  BY <1>2, <1>4, <1>5, <1>6, <1>7 DEF Next

LEMMA OutlivesStep ==
    ASSUME IInv, Next, NEW u \in Users, NEW id \in TokenIds, ~Spends(u),
           auditor'.key = auditor.key, NEW p \in proofs, AcceptSpend(p.kind, u, id, p)
    PROVE  AcceptSpend(p.kind, u, id, p)'
<1>1. publicKey'[u] = publicKey[u] /\ p \in proofs'
  BY SenderKept DEF AcceptSpend
<1>2. IsBalanceValid(balances[u][id], p.providedBalance)
  BY DEF AcceptSpend
<1>3. IsBalanceValid(balances'[u][id], p.providedBalance)
  BY <1>2, StepChanges DEF Changed, Credited, Keeps
<1>4. auditor' # NoAuditor
  BY KeysAssumption DEF AcceptSpend, AuditorSet, IInv, TokenTypes, NoAuditor
<1>5. QED
  BY <1>1, <1>3, <1>4
     DEF AcceptSpend, AuditorSet, IsUserRegistered, ValidatePublicKey, ValidateAuditorPublicKey

(* Nobody but the sender can make a proof in flight worthless, whatever    *)
(* credits arrive in its account: only the owner can, by another auditor.  *)
THEOREM CreditsKeepProofs == Spec => ProofsOutliveCredits
<1> DEFINE Outlives ==
        \A u \in Users, id \in TokenIds :
            ~Spends(u) /\ auditor'.key = auditor.key =>
                \A p \in {q \in proofs : q.kind # "mint"} :
                    AcceptSpend(p.kind, u, id, p) => AcceptSpend(p.kind, u, id, p)'
<1>1. IInv /\ [Next]_vars => [Outlives]_vars
  BY OutlivesStep
<1>2. QED
  BY <1>1, Invariance, PTL DEF Spec, ProofsOutliveCredits
-----------------------------------------------------------------------------
(* The plaintext ledger.                                                   *)

(* For any number of users, tokens and proofs in flight: balances and the  *)
(* acceptable snapshots are covered by the money there is.                 *)
THEOREM BalancesAreCovered == Spec => []BalancesCovered
BY TypeCorrect, SnapshotsAreCovered, BalancesNotOverdrawn, PTL DEF BalancesCovered


LEMMA PlainWrite ==
    ASSUME IInv, NEW u \in Users, NEW id \in TokenIds, NEW c \in Balance,
           balances' = [balances EXCEPT ![u][id] = c]
    PROVE  Plain' = [Plain EXCEPT ![u][id] = c.eGCT.v]
BY DEF IInv, TokenTypes, Plain

(* A credit is an entry into the ledger.                                   *)
LEMMA CreditEnters ==
    ASSUME IInv, NEW u \in Users, NEW id \in TokenIds, NEW c \in Balance, NEW value \in Nat,
           balances' = [balances EXCEPT ![u][id] = c],
           c.eGCT.v = balances[u][id].eGCT.v + value
    PROVE  Ledger!Next
<1>1. Plain[u][id] = balances[u][id].eGCT.v /\ Plain[u][id] \in Int
      /\ Plain \in [Users -> [TokenIds -> Int]]
  BY DEF Plain, IInv, TokenTypes, Balance, Ciphertext
<1>2. Plain' = [Plain EXCEPT ![u][id] = Plain[u][id] + value]
  BY <1>1, PlainWrite
<1>3. Ledger!Gain(u, id) = value
  BY <1>1, <1>2 DEF Ledger!Gain
<1>4. Ledger!Enter(u, id, Ledger!Gain(u, id))
  BY <1>1, <1>2, <1>3 DEF Ledger!Enter
<1>5. QED
  BY <1>3, <1>4 DEF Ledger!Next

(* A covered spend with no receiver leaves the ledger.                     *)
LEMMA SpendLeaves ==
    ASSUME IInv, NEW kind \in {"withdraw", "burn"}, NEW from \in Users, NEW id \in TokenIds,
           NEW p, AcceptSpend(kind, from, id, p),
           balances' = [balances EXCEPT ![from][id] = SpendBalance(from, id, p)]
    PROVE  Ledger!Next
<1> DEFINE c == SpendBalance(from, id, p)
<1>1. /\ c \in Balance /\ p.amount \in Nat
      /\ c.eGCT.v = balances[from][id].eGCT.v - p.amount
      /\ p.amount <= balances[from][id].eGCT.v
  BY AcceptedSpend DEF BalanceInv, Sound
<1>2. Plain[from][id] = balances[from][id].eGCT.v /\ Plain \in [Users -> [TokenIds -> Int]]
  BY DEF Plain, IInv, TokenTypes, Balance, Ciphertext
<1>3. Plain' = [Plain EXCEPT ![from][id] = Plain[from][id] - p.amount]
  BY <1>1, <1>2, PlainWrite
<1>4. -Ledger!Gain(from, id) = p.amount
  BY <1>1, <1>2, <1>3 DEF Ledger!Gain
<1>5. Ledger!Leave(from, id, -Ledger!Gain(from, id))
  BY <1>1, <1>2, <1>3, <1>4 DEF Ledger!Leave
<1>6. QED
  BY <1>1, <1>4, <1>5 DEF Ledger!Next

(* A transfer moves its amount, or nothing when it is to oneself.          *)
LEMMA TransferMoves ==
    ASSUME IInv, NEW from \in Users, NEW to \in Users, NEW id \in TokenIds, NEW p,
           Transfer(from, to, id, p)
    PROVE  Ledger!Next \/ UNCHANGED Plain
<1>1. PICK burned, sent, received :
         /\ AllBalancesInv(burned) /\ BalanceInv(sent) /\ BalanceInv(received)
         /\ burned = [balances EXCEPT ![from][id] = sent]
         /\ balances' = [burned EXCEPT ![to][id] = received]
         /\ p.amount \in Nat
         /\ p.amount <= balances[from][id].eGCT.v
         /\ sent.eGCT.v = balances[from][id].eGCT.v - p.amount
         /\ received.eGCT.v = burned[to][id].eGCT.v + p.amount
  BY TransferBalances
<1>2. /\ balances \in [Users -> [TokenIds -> Balance]]
      /\ \A u \in Users, tid \in TokenIds : balances[u][tid].eGCT.v \in Int
  BY DEF IInv, TokenTypes, Balance, Ciphertext
<1>3. Plain \in [Users -> [TokenIds -> Int]]
      /\ \A u \in Users, tid \in TokenIds : Plain[u][tid] = balances[u][tid].eGCT.v
  BY <1>2 DEF Plain
<1>4. Plain' \in [Users -> [TokenIds -> Int]]
      /\ \A u \in Users, tid \in TokenIds : Plain'[u][tid] = balances'[u][tid].eGCT.v
  <2>1. AllBalancesInv(balances')
    BY <1>1, SetOneBalance
  <2>2. QED
    BY <2>1 DEF Plain, AllBalancesInv, Balance, Ciphertext
<1>5. CASE from = to
  <2>1. balances' = [balances EXCEPT ![from][id] = received]
    BY <1>1, <1>2, <1>5
  <2>2. received.eGCT.v = balances[from][id].eGCT.v
    BY <1>1, <1>2, <1>5
  <2>3. \A u \in Users, tid \in TokenIds : Plain'[u][tid] = Plain[u][tid]
    BY <1>2, <1>3, <1>4, <2>1, <2>2
  <2>4. QED
    BY <1>3, <1>4, <2>3
<1>6. CASE from # to
  <2>1. Plain'[from][id] = Plain[from][id] - p.amount
    BY <1>1, <1>2, <1>3, <1>4, <1>6
  <2>2. Plain'[to][id] = Plain[to][id] + p.amount
    BY <1>1, <1>2, <1>3, <1>4, <1>6
  <2>3. \A u \in Users, tid \in TokenIds :
            <<u, tid>> # <<from, id>> /\ <<u, tid>> # <<to, id>> => Plain'[u][tid] = Plain[u][tid]
    BY <1>1, <1>2, <1>3, <1>4
  <2>4. -Ledger!Gain(from, id) = p.amount
    BY <1>1, <1>3, <2>1 DEF Ledger!Gain
  <2>5. Plain' = [[Plain EXCEPT ![from][id] = @ - p.amount] EXCEPT ![to][id] = @ + p.amount]
    BY <1>3, <1>4, <1>6, <2>1, <2>2, <2>3
  <2>6. Ledger!Move(from, to, id, -Ledger!Gain(from, id))
    BY <1>1, <1>3, <2>4, <2>5 DEF Ledger!Move
  <2>7. QED
    BY <1>1, <1>6, <2>4, <2>6 DEF Ledger!Next
<1>7. QED
  BY <1>5, <1>6

LEMMA StepMaps == IInv /\ [Next]_vars => [Ledger!Next]_Plain
<1> SUFFICES ASSUME IInv, [Next]_vars PROVE Ledger!Next \/ UNCHANGED Plain
  OBVIOUS
<1>1. CASE UNCHANGED balances
  BY <1>1 DEF Plain
<1>2. CASE \E u \in Users, t \in Tokens, amount \in Nat, amountPCT \in Int :
              IsUserRegistered(u) /\ ConvertFrom(u, t, amount, amountPCT)
  <2>1. PICK u \in Users, t \in Tokens, amount \in Nat, amountPCT \in Int :
            IsUserRegistered(u) /\ ConvertFrom(u, t, amount, amountPCT)
    BY <1>2
  <2>2. CASE balances' = balances
    BY <2>2, <1>1
  <2>3. CASE \E id \in TokenIds, c \in Balance :
                /\ balances' = [balances EXCEPT ![u][id] = c]
                /\ c.eGCT.v = balances[u][id].eGCT.v + ConvertIn(t, amount)
    BY <2>1, <2>3, CreditEnters, Conversions
  <2>4. QED
    BY <2>1, <2>2, <2>3, DepositCredits
<1>3. CASE \E from, to \in Users, id \in TokenIds, p \in proofs : Transfer(from, to, id, p)
  BY <1>3, TransferMoves
<1>4. CASE \E from \in Users, id \in TokenIds, p \in proofs : Withdraw(from, id, p)
  BY <1>4, SpendLeaves DEF Withdraw
<1>5. CASE \E from \in Users, p \in proofs : PrivateBurn(from, p)
  <2>1. 0 \in TokenIds
    BY TokensAssumption, FS_CardinalityType DEF TokenIds
  <2>2. QED
    BY <1>5, <2>1, SpendLeaves DEF PrivateBurn
<1>6. CASE \E to \in Users, p \in proofs : PrivateMint(to, p)
  <2>1. PICK to \in Users, p \in proofs : PrivateMint(to, p)
    BY <1>6
  <2>2. PICK c \in Balance :
            /\ BalanceInv(c) /\ p \in Mint
            /\ balances' = [balances EXCEPT ![to][0] = c]
            /\ c.eGCT.v = balances[to][0].eGCT.v + p.amount
    BY <2>1, MintBalance
  <2>3. 0 \in TokenIds /\ p.amount \in Nat
    BY <2>2, TokensAssumption, FS_CardinalityType DEF TokenIds, Mint
  <2>4. QED
    BY <2>1, <2>2, <2>3, CreditEnters
<1>7. CASE \/ \E u \in Users, t \in Tokens, amount \in Amounts : Deposit(u, t, amount)
           \/ \E d \in Depositors, to \in Users, t \in Tokens, amount \in Amounts :
                  \E amountPCT \in DepositorPCTs(t, amount) : DepositFor(d, to, t, amount, amountPCT)
  <2>1. CASE \E u \in Users, t \in Tokens, amount \in Amounts : Deposit(u, t, amount)
    <3>1. PICK u \in Users, t \in Tokens, amount \in Amounts : Deposit(u, t, amount)
      BY <2>1
    <3>2. amount \in Nat /\ ConvertIn(t, amount) \in Int
      BY NumbersAssumption, Conversions
    <3>3. IsUserRegistered(u) /\ ConvertFrom(u, t, amount, ConvertIn(t, amount))
      BY <3>1 DEF Deposit, ExecuteDepositFrom
    <3>4. QED
      BY <3>2, <3>3, <1>2
  <2>2. CASE \E d \in Depositors, to \in Users, t \in Tokens, amount \in Amounts :
                \E amountPCT \in DepositorPCTs(t, amount) : DepositFor(d, to, t, amount, amountPCT)
    <3>1. PICK d \in Depositors, to \in Users, t \in Tokens, amount \in Amounts :
              \E amountPCT \in DepositorPCTs(t, amount) : DepositFor(d, to, t, amount, amountPCT)
      BY <2>2
    <3>2. PICK amountPCT \in DepositorPCTs(t, amount) : DepositFor(d, to, t, amount, amountPCT)
      BY <3>1
    <3>3. amount \in Nat /\ Amounts \subseteq Int /\ ConvertIn(t, amount) \in Int
      BY NumbersAssumption, Conversions
    <3>4. amountPCT \in Int
      BY <3>3 DEF DepositorPCTs
    <3>5. IsUserRegistered(to) /\ ConvertFrom(to, t, amount, amountPCT)
      BY <3>2 DEF DepositFor, ExecuteDepositFrom
    <3>6. QED
      BY <3>3, <3>4, <3>5, <1>2
  <2>3. QED
    BY <1>7, <2>1, <2>2
<1>8. CASE \/ \E u \in Users, key \in Keys : Register(u, key)
           \/ \E u \in Users : SetAuditorPublicKey(u)
           \/ \E t \in Tokens, blacklisted \in BOOLEAN : SetTokenBlacklist(t, blacklisted)
           \/ \E d \in Depositors, authorized \in BOOLEAN : SetAuthorizedDepositor(d, authorized)
           \/ \E from, to \in Users, id \in TokenIds, value \in Amounts, r \in Randomness :
                  ProveTransfer(from, to, id, value, r)
           \/ \E from \in Users, id \in TokenIds, value \in Amounts : ProveWithdraw(from, id, value)
           \/ \E from \in Users, value \in Amounts, r \in Randomness : ProveBurn(from, value, r)
           \/ \E to \in Users, value \in Amounts, r \in Randomness : ProveMint(to, value, r)
           \/ UNCHANGED vars
  <2>1. ASSUME NEW kind, NEW u, NEW id, NEW value, NEW senderAmount, NEW receiverAmount,
               ProveSpend(kind, u, id, value, senderAmount, receiverAmount)
        PROVE  UNCHANGED balances
    BY <2>1 DEF ProveSpend
  <2>2. CASE \/ \E from, to \in Users, id \in TokenIds, value \in Amounts, r \in Randomness :
                     ProveTransfer(from, to, id, value, r)
             \/ \E from \in Users, id \in TokenIds, value \in Amounts :
                     ProveWithdraw(from, id, value)
             \/ \E from \in Users, value \in Amounts, r \in Randomness : ProveBurn(from, value, r)
    BY <1>1, <2>1, <2>2 DEF ProveTransfer, ProveWithdraw, ProveBurn
  <2>3. CASE \E to \in Users, value \in Amounts, r \in Randomness : ProveMint(to, value, r)
    BY <1>1, <2>3 DEF ProveMint
  <2>4. CASE \/ \E u \in Users, key \in Keys : Register(u, key)
             \/ \E u \in Users : SetAuditorPublicKey(u)
             \/ \E t \in Tokens, blacklisted \in BOOLEAN : SetTokenBlacklist(t, blacklisted)
             \/ \E d \in Depositors, authorized \in BOOLEAN : SetAuthorizedDepositor(d, authorized)
             \/ UNCHANGED vars
    BY <1>1, <2>4 DEF Register, SetAuditorPublicKey, SetTokenBlacklist, SetAuthorizedDepositor, vars
  <2>5. QED
    BY <1>8, <2>2, <2>3, <2>4
<1>9. QED
  BY <1>3, <1>4, <1>5, <1>6, <1>7, <1>8 DEF Next

(* The encrypted token implements the plaintext ledger.                    *)
THEOREM TokenImplementsLedger == Spec => ImplementsLedger
<1>1. Init => Ledger!Init
  BY DEF Init, Ledger!Init, Plain, EmptyBalance, NoCiphertext
<1>2. IInv /\ [Next]_vars => [Ledger!Next]_Plain
  BY StepMaps
<1>3. QED
  BY <1>1, <1>2, Invariance, PTL DEF Spec, ImplementsLedger, Ledger!Spec

-----------------------------------------------------------------------------
(* What a credit and a spend make of a balance, field by field.            *)

After(b, c, ct, nonce, index) ==
    /\ c \in Balance
    /\ c.eGCT = ct
    /\ c.nonce = nonce
    /\ c.balanceList = SetHistory(b.balanceList, ct, nonce, index)

LEMMA ConvertCreditIs ==
    ASSUME NEW b \in Balance, NEW key \in Keys, NEW value \in Nat, NEW amountPCT \in Int
    PROVE  LET c == ConvertCredit(b, key, value, amountPCT)
           IN  /\ After(b, c, AddToCiphertext(b, Encrypt(key, value)).eGCT, b.nonce,
                        b.transactionIndex + 1)
               /\ c.transactionIndex = b.transactionIndex + 2
               /\ c.amountPCTs = b.amountPCTs \cup {[pct |-> amountPCT, index |-> b.transactionIndex]}
               /\ c.balancePCT = b.balancePCT
<1> DEFINE ct == Encrypt(key, value)
           added == AddToCiphertext(b, ct)
           recorded == RecordAmount(added, amountPCT)
           advanced == AdvanceIndex(recorded)
           marked == MarkValid(advanced)
           c == AdvanceIndex(marked)
<1>1. ct \in Ciphertext
  BY DEF Encrypt, Ciphertext
<1>2. /\ added \in Balance /\ added.nonce = b.nonce /\ added.amountPCTs = b.amountPCTs
      /\ added.transactionIndex = b.transactionIndex /\ added.balanceList = b.balanceList
  BY <1>1, AddToCiphertextWrites
<1>3. added.balancePCT = b.balancePCT
  BY DEF AddToCiphertext, Balance
<1> HIDE DEF added
<1>4. /\ recorded \in Balance /\ recorded.nonce = b.nonce /\ recorded.eGCT = added.eGCT
      /\ recorded.transactionIndex = b.transactionIndex /\ recorded.balanceList = b.balanceList
      /\ recorded.amountPCTs = b.amountPCTs \cup {[pct |-> amountPCT, index |-> b.transactionIndex]}
  BY <1>2, RecordAmountWrites
<1>5. recorded.balancePCT = b.balancePCT
  BY <1>2, <1>3 DEF RecordAmount, Balance
<1> HIDE DEF recorded
<1>6. /\ advanced \in Balance /\ advanced.nonce = b.nonce /\ advanced.eGCT = added.eGCT
      /\ advanced.transactionIndex = b.transactionIndex + 1 /\ advanced.balanceList = b.balanceList
      /\ advanced.amountPCTs = recorded.amountPCTs
  BY <1>4, AdvanceIndexWrites
<1>7. advanced.balancePCT = b.balancePCT
  BY <1>4, <1>5 DEF AdvanceIndex, Balance
<1> HIDE DEF advanced
<1>8. /\ marked \in Balance /\ marked.nonce = b.nonce /\ marked.eGCT = added.eGCT
      /\ marked.transactionIndex = b.transactionIndex + 1
      /\ marked.amountPCTs = recorded.amountPCTs
      /\ marked.balanceList = SetHistory(b.balanceList, added.eGCT, b.nonce, b.transactionIndex + 1)
  BY <1>6, MarkValidWrites
<1>9. marked.balancePCT = b.balancePCT
  BY <1>6, <1>7 DEF MarkValid, Balance
<1> HIDE DEF marked
<1>10. /\ c \in Balance /\ c.nonce = b.nonce /\ c.eGCT = added.eGCT
       /\ c.transactionIndex = (b.transactionIndex + 1) + 1
       /\ c.amountPCTs = recorded.amountPCTs
       /\ c.balanceList = marked.balanceList
  BY <1>8, AdvanceIndexWrites
<1>11. c.balancePCT = b.balancePCT
  BY <1>8, <1>9 DEF AdvanceIndex, Balance
<1>12. ConvertCredit(b, key, value, amountPCT) = c
  BY DEF ConvertCredit, CommitUserBalance, marked, advanced, recorded, added, ct
<1> HIDE DEF c
<1>13. b.transactionIndex \in Nat
  BY DEF Balance
<1>14. QED
  BY <1>4, <1>8, <1>10, <1>11, <1>12, <1>13 DEF After, added, ct

LEMMA AddToUserBalanceIs ==
    ASSUME NEW b \in Balance, NEW ct \in Ciphertext, NEW amountPCT \in Int
    PROVE  LET c == AddToUserBalance(b, ct, amountPCT)
           IN  /\ After(b, c, AddToCiphertext(b, ct).eGCT, b.nonce, b.transactionIndex)
               /\ c.transactionIndex = b.transactionIndex + 1
               /\ c.amountPCTs = b.amountPCTs \cup {[pct |-> amountPCT, index |-> b.transactionIndex]}
               /\ c.balancePCT = b.balancePCT
<1> DEFINE added == AddToCiphertext(b, ct)
           marked == MarkValid(added)
           recorded == RecordAmount(marked, amountPCT)
           c == AdvanceIndex(recorded)
<1>1. /\ added \in Balance /\ added.nonce = b.nonce /\ added.amountPCTs = b.amountPCTs
      /\ added.transactionIndex = b.transactionIndex /\ added.balanceList = b.balanceList
  BY AddToCiphertextWrites
<1>2. added.balancePCT = b.balancePCT
  BY DEF AddToCiphertext, Balance
<1> HIDE DEF added
<1>3. /\ marked \in Balance /\ marked.nonce = b.nonce /\ marked.eGCT = added.eGCT
      /\ marked.transactionIndex = b.transactionIndex
      /\ marked.amountPCTs = b.amountPCTs
      /\ marked.balanceList = SetHistory(b.balanceList, added.eGCT, b.nonce, b.transactionIndex)
  BY <1>1, MarkValidWrites
<1>4. marked.balancePCT = b.balancePCT
  BY <1>1, <1>2 DEF MarkValid, Balance
<1> HIDE DEF marked
<1>5. /\ recorded \in Balance /\ recorded.nonce = b.nonce /\ recorded.eGCT = added.eGCT
      /\ recorded.transactionIndex = b.transactionIndex /\ recorded.balanceList = marked.balanceList
      /\ recorded.amountPCTs = b.amountPCTs \cup {[pct |-> amountPCT, index |-> b.transactionIndex]}
  BY <1>3, RecordAmountWrites
<1>6. recorded.balancePCT = b.balancePCT
  BY <1>3, <1>4 DEF RecordAmount, Balance
<1> HIDE DEF recorded
<1>7. /\ c \in Balance /\ c.nonce = b.nonce /\ c.eGCT = added.eGCT
      /\ c.transactionIndex = b.transactionIndex + 1
      /\ c.amountPCTs = recorded.amountPCTs
      /\ c.balanceList = marked.balanceList
  BY <1>5, AdvanceIndexWrites
<1>8. c.balancePCT = b.balancePCT
  BY <1>5, <1>6 DEF AdvanceIndex, Balance
<1>9. AddToUserBalance(b, ct, amountPCT) = c
  BY DEF AddToUserBalance, AddToUserHistory, marked, recorded, added
<1> HIDE DEF c
<1>10. QED
  BY <1>3, <1>5, <1>7, <1>8, <1>9 DEF After, added

(* The index a spend is verified at is that of a valid snapshot with the   *)
(* provided ciphertext.                                                    *)
LEMMA VerifiedSnapshot ==
    ASSUME NEW b \in Balance, NEW provided, IsBalanceValid(b, provided)
    PROVE  \E h \in ValidHistory(b) : h.ct = provided /\ h.index = VerifiedIndex(b, provided)
BY DEF IsBalanceValid, VerifiedIndex

LEMMA PrivateBurnIs ==
    ASSUME NEW b \in Balance, NEW provided, IsBalanceValid(b, provided),
           NEW ct \in Ciphertext, NEW balancePCT \in Int
    PROVE  LET c == PrivateBurnBalance(b, provided, ct, balancePCT)
           IN  /\ After(b, c, Sub(b.eGCT, ct), b.nonce + 1, b.transactionIndex)
               /\ c.transactionIndex = b.transactionIndex + 1
               /\ c.amountPCTs = {p \in b.amountPCTs : p.index > VerifiedIndex(b, provided)}
               /\ c.balancePCT = balancePCT
<1> DEFINE index == VerifiedIndex(b, provided)
           less == SubFromCiphertext(b, ct)
           dropped == DropAmounts(less, index)
           next == NextNonce(dropped)
           marked == MarkValid(next)
           committed == AdvanceIndex(marked)
           c == SetBalancePCT(committed, balancePCT)
<1>1. index \in Nat
  BY VerifiedSnapshot DEF ValidHistory, Balance, BalanceHistory
<1>2. PrivateBurnBalance(b, provided, ct, balancePCT) = c
  BY DEF PrivateBurnBalance, SubtractFromUserBalance, DeleteUserHistory, CommitUserBalance
<1> HIDE DEF index
<1>3. /\ less \in Balance /\ less.nonce = b.nonce /\ less.balanceList = b.balanceList
      /\ less.transactionIndex = b.transactionIndex /\ less.amountPCTs = b.amountPCTs
  BY SubFromCiphertextWrites
<1>4. less.eGCT = Sub(b.eGCT, ct)
  BY DEF SubFromCiphertext, Balance
<1> HIDE DEF less
<1>5. /\ dropped \in Balance /\ dropped.nonce = b.nonce /\ dropped.balanceList = b.balanceList
      /\ dropped.transactionIndex = b.transactionIndex /\ dropped.eGCT = less.eGCT
      /\ dropped.amountPCTs = {p \in b.amountPCTs : p.index > index}
  BY <1>1, <1>3, DropAmountsWrites
<1> HIDE DEF dropped
<1>6. /\ next \in Balance /\ next.nonce = b.nonce + 1 /\ next.balanceList = b.balanceList
      /\ next.transactionIndex = b.transactionIndex /\ next.eGCT = less.eGCT
      /\ next.amountPCTs = dropped.amountPCTs
  BY <1>5, NextNonceWrites
<1> HIDE DEF next
<1>7. /\ marked \in Balance /\ marked.nonce = b.nonce + 1 /\ marked.eGCT = less.eGCT
      /\ marked.transactionIndex = b.transactionIndex /\ marked.amountPCTs = dropped.amountPCTs
      /\ marked.balanceList = SetHistory(b.balanceList, less.eGCT, b.nonce + 1, b.transactionIndex)
  BY <1>6, MarkValidWrites
<1> HIDE DEF marked
<1>8. /\ committed \in Balance /\ committed.nonce = b.nonce + 1 /\ committed.eGCT = less.eGCT
      /\ committed.transactionIndex = b.transactionIndex + 1
      /\ committed.amountPCTs = dropped.amountPCTs /\ committed.balanceList = marked.balanceList
  BY <1>7, AdvanceIndexWrites
<1> HIDE DEF committed
<1>9. /\ c \in Balance /\ c.nonce = b.nonce + 1 /\ c.eGCT = less.eGCT
      /\ c.transactionIndex = b.transactionIndex + 1
      /\ c.amountPCTs = dropped.amountPCTs /\ c.balanceList = marked.balanceList
  BY <1>8, SetBalancePCTWrites
<1>10. c.balancePCT = balancePCT
  BY <1>8 DEF SetBalancePCT, Balance
<1> HIDE DEF c
<1>11. QED
  BY <1>2, <1>4, <1>5, <1>7, <1>9, <1>10 DEF After, index
-----------------------------------------------------------------------------
(* Keys.                                                                   *)

(* A balance that was ever credited is under the key, and what was never   *)
(* credited has no snapshot to spend against.                              *)
KeyedTo(b, key) ==
    /\ b.eGCT # NoCiphertext => key # NoKey /\ b.eGCT.key = key
    /\ b.balanceList # {} => b.eGCT # NoCiphertext

LEMMA AfterKeyed ==
    ASSUME NEW b, NEW c, NEW ct, NEW nonce, NEW index, After(b, c, ct, nonce, index),
           NEW key, key # NoKey, ct.key = key
    PROVE  KeyedTo(c, key)
BY DEF KeyedTo, After, NoCiphertext

LEMMA CreditKeyed ==
    ASSUME NEW b \in Balance, NEW ct, NEW key \in Keys, ct.key = key, KeyedTo(b, key)
    PROVE  AddToCiphertext(b, ct).eGCT.key = key
<1>1. AddToCiphertext(b, ct).eGCT = IF b.eGCT = NoCiphertext THEN ct ELSE Add(b.eGCT, ct)
  BY DEF AddToCiphertext, Balance
<1>2. QED
  BY <1>1 DEF KeyedTo, Add, SumKey

LEMMA ConvertCreditKeyed ==
    ASSUME NEW b \in Balance, NEW key \in Keys, KeyedTo(b, key), NEW value \in Nat,
           NEW amountPCT \in Int
    PROVE  KeyedTo(ConvertCredit(b, key, value, amountPCT), key)
<1>1. After(b, ConvertCredit(b, key, value, amountPCT),
            AddToCiphertext(b, Encrypt(key, value)).eGCT, b.nonce, b.transactionIndex + 1)
  BY ConvertCreditIs
<1>2. AddToCiphertext(b, Encrypt(key, value)).eGCT.key = key
  BY CreditKeyed DEF Encrypt
<1>3. QED
  BY <1>1, <1>2, AfterKeyed, KeysAssumption

LEMMA AddToUserBalanceKeyed ==
    ASSUME NEW b \in Balance, NEW key \in Keys, KeyedTo(b, key), NEW ct \in Ciphertext,
           ct.key = key, NEW amountPCT \in Int
    PROVE  KeyedTo(AddToUserBalance(b, ct, amountPCT), key)
<1>1. After(b, AddToUserBalance(b, ct, amountPCT), AddToCiphertext(b, ct).eGCT, b.nonce,
            b.transactionIndex)
  BY AddToUserBalanceIs
<1>2. AddToCiphertext(b, ct).eGCT.key = key
  BY CreditKeyed
<1>3. QED
  BY <1>1, <1>2, AfterKeyed, KeysAssumption

LEMMA PrivateBurnKeyed ==
    ASSUME NEW b \in Balance, NEW key \in Keys, KeyedTo(b, key), NEW provided,
           IsBalanceValid(b, provided), NEW ct \in Ciphertext, ct.key = key, NEW balancePCT \in Int
    PROVE  /\ KeyedTo(PrivateBurnBalance(b, provided, ct, balancePCT), key)
           /\ b.eGCT # NoCiphertext
<1>1. b.eGCT.key = key /\ b.eGCT # NoCiphertext
  BY DEF IsBalanceValid, ValidHistory, KeyedTo
<1>2. After(b, PrivateBurnBalance(b, provided, ct, balancePCT), Sub(b.eGCT, ct), b.nonce + 1,
            b.transactionIndex)
  BY PrivateBurnIs
<1>3. Sub(b.eGCT, ct).key = key
  BY <1>1 DEF Sub, SumKey
<1>4. QED
  BY <1>1, <1>2, <1>3, AfterKeyed, KeysAssumption
-----------------------------------------------------------------------------
(* The encrypted supply of a token id as a sum.                            *)

Supply(bs, id) == MapThenSumSet(LAMBDA u : bs[u][id].eGCT.v, Users)

Values(bs, id) == [u \in Users |-> bs[u][id].eGCT.v]

LEMMA SumUnique ==
    ASSUME NEW S, IsFiniteSet(S), NEW f, Numbers(f, S), NEW h, IsSum(h, f, S)
    PROVE  SumOver(f, S) = h[S]
<1>1. PICK g : IsSum(g, f, S) /\ SumOver(f, S) = g[S]
  BY SumOverIs
<1>2. QED
  BY <1>1, SumsAgree

LEMMA SupplyIs ==
    ASSUME NEW bs, NEW id, Numbers(Values(bs, id), Users)
    PROVE  Supply(bs, id) = SumOver(Values(bs, id), Users)
<1> DEFINE h == CHOOSE h : h = [s \in SUBSET Users |->
                    IF s = {} THEN 0
                    ELSE bs[CHOOSE x \in s : TRUE][id].eGCT.v + h[s \ {CHOOSE x \in s : TRUE}]]
           f == Values(bs, id)
<1>1. \A s \in SUBSET Users : s # {} => f[Some(s)] = bs[Some(s)][id].eGCT.v
  BY SomeIn DEF Values
<1>2. h = [s \in SUBSET Users |->
              IF s = {} THEN 0
              ELSE bs[CHOOSE x \in s : TRUE][id].eGCT.v + h[s \ {CHOOSE x \in s : TRUE}]]
  <2>1. PICK g : IsSum(g, f, Users)
    BY SumExists, UsersAssumption
  <2>2. g = [s \in SUBSET Users |->
                IF s = {} THEN 0
                ELSE bs[CHOOSE x \in s : TRUE][id].eGCT.v + g[s \ {CHOOSE x \in s : TRUE}]]
    BY <2>1, <1>1 DEF IsSum, SumOf, Some
  <2>3. QED
    BY <2>2
<1>3. Supply(bs, id) = h[Users]
  BY DEF Supply, MapThenSumSet, MapThenFoldSet
<1> HIDE DEF h
<1>4. IsSum(h, f, Users)
  BY <1>1, <1>2 DEF IsSum, SumOf, Some
<1>5. QED
  BY <1>3, <1>4, SumUnique, UsersAssumption

LEMMA SupplyInt ==
    ASSUME NEW bs, AllBalancesInv(bs), NEW id \in TokenIds
    PROVE  /\ Numbers(Values(bs, id), Users)
           /\ Supply(bs, id) = SumOver(Values(bs, id), Users)
           /\ Supply(bs, id) \in Int
<1>1. Numbers(Values(bs, id), Users)
  BY DEF AllBalancesInv, Balance, Ciphertext, Numbers, Values
<1>2. QED
  BY <1>1, SupplyIs, SumInt, UsersAssumption

LEMMA SupplyWrite ==
    ASSUME NEW bs, AllBalancesInv(bs), NEW new, AllBalancesInv(new),
           NEW u \in Users, NEW id \in TokenIds,
           \A v \in Users, k \in TokenIds : v # u \/ k # id => new[v][k] = bs[v][k]
    PROVE  /\ Supply(new, id) = Supply(bs, id) + (new[u][id].eGCT.v - bs[u][id].eGCT.v)
           /\ \A k \in TokenIds \ {id} : Supply(new, k) = Supply(bs, k)
<1>1. ASSUME NEW k \in TokenIds
      PROVE  /\ Values(new, k)[u] = new[u][k].eGCT.v
             /\ Values(bs, k)[u] = bs[u][k].eGCT.v
             /\ \A v \in Users \ {u} : Values(new, k)[v] = Values(bs, k)[v]
  BY DEF AllBalancesInv, Values
<1>2. new[u][id].eGCT.v \in Int
  BY DEF AllBalancesInv, Balance, Ciphertext
<1>3. Supply(new, id) = Supply(bs, id) + (new[u][id].eGCT.v - bs[u][id].eGCT.v)
  <2>1. SumOver(Values(new, id), Users)
            = SumOver(Values(bs, id), Users) + (Values(new, id)[u] - Values(bs, id)[u])
    <3> DEFINE f == Values(bs, id)
               e == Values(new, id)
    <3>1. /\ IsFiniteSet(Users) /\ Numbers(f, Users) /\ e[u] \in Int
          /\ \A v \in Users \ {u} : e[v] = f[v]
      BY <1>1, <1>2, SupplyInt, UsersAssumption
    <3> HIDE DEF f, e
    <3>2. SumOver(e, Users) = SumOver(f, Users) + (e[u] - f[u])
      BY <3>1, SumUpdate
    <3>3. QED
      BY <3>2 DEF f, e
  <2>2. QED
    BY <1>1, <1>2, <2>1, SupplyInt
<1>4. ASSUME NEW k \in TokenIds \ {id} PROVE Supply(new, k) = Supply(bs, k)
  <2>1. \A v \in Users : Values(new, k)[v] = Values(bs, k)[v]
    BY DEF AllBalancesInv, Values
  <2>2. SumOver(Values(bs, k), Users) = SumOver(Values(new, k), Users)
    BY <2>1, SupplyInt, SumSame, UsersAssumption
  <2>3. QED
    BY <2>2, SupplyInt
<1>5. QED
  BY <1>3, <1>4

LEMMA NoSupply ==
    ASSUME NEW bs, AllBalancesInv(bs), NEW id \in TokenIds,
           \A u \in Users : bs[u][id].eGCT = NoCiphertext
    PROVE  Supply(bs, id) = 0
<1>1. \A u \in Users : Values(bs, id)[u] = 0
  BY DEF Values, NoCiphertext
<1>2. QED
  BY <1>1, SupplyInt, SumZero, UsersAssumption
-----------------------------------------------------------------------------
(* Rounding never favours the holder.                                      *)

LEMMA Division ==
    ASSUME NEW n \in Nat, NEW d \in Nat \ {0}
    PROVE  n \div d \in Nat /\ n % d \in Nat /\ n = d * (n \div d) + (n % d)
OBVIOUS

LEMMA DepositBacks ==
    ASSUME NEW t \in Tokens, NEW amount \in Nat, NEW s \in Int, NEW r \in Nat,
           s * DownScale[t] <= r * UpScale[t]
    PROVE  (s + ConvertIn(t, amount)) * DownScale[t]
               <= (r + (amount - Dust(t, amount))) * UpScale[t]
<1> DEFINE d == DownScale[t]
           w == UpScale[t]
           q == amount \div d
<1>1. d \in Nat \ {0} /\ w \in Nat \ {0}
  BY TokensAssumption
<1>2. q \in Nat /\ amount = d * q + (amount % d) /\ amount % d \in Nat
  BY <1>1, Division
<1>3. ConvertIn(t, amount) = q * w /\ amount - Dust(t, amount) = d * q
  BY <1>1, <1>2 DEF ConvertIn, Dust
<1> HIDE DEF d, w, q
<1>4. (s + q * w) * d = s * d + q * w * d
  BY <1>1, <1>2
<1>5. (r + d * q) * w = r * w + q * w * d
  BY <1>1, <1>2
<1>6. s * d <= r * w /\ s * d \in Int /\ r * w \in Int /\ q * w * d \in Int
  BY <1>1, <1>2 DEF d, w
<1>7. QED
  BY <1>3, <1>4, <1>5, <1>6 DEF d, w

LEMMA WithdrawBacks ==
    ASSUME NEW t \in Tokens, NEW value \in Nat, NEW s \in Int, NEW r \in Nat,
           s * DownScale[t] <= r * UpScale[t]
    PROVE  (s - value) * DownScale[t] <= (r - ConvertOut(t, value)) * UpScale[t]
<1> DEFINE d == DownScale[t]
           w == UpScale[t]
           q == (value * d) \div w
<1>1. d \in Nat \ {0} /\ w \in Nat \ {0}
  BY TokensAssumption
<1>2. value * d \in Nat
  BY <1>1
<1>3. q \in Nat /\ q * w <= value * d
  <2> DEFINE n == value * d
  <2>1. n \in Nat
    BY <1>2
  <2> HIDE DEF n, w
  <2>2. n \div w \in Nat /\ n = w * (n \div w) + (n % w) /\ n % w \in Nat
    BY <1>1, <2>1, Division
  <2>3. QED
    BY <1>1, <2>1, <2>2 DEF n
<1>4. ConvertOut(t, value) = q
  BY DEF ConvertOut
<1> HIDE DEF d, w, q
<1>5. (s - value) * d = s * d - value * d
  BY <1>1
<1>6. (r - q) * w = r * w - q * w
  BY <1>1, <1>3
<1>7. s * d <= r * w /\ s * d \in Int /\ r * w \in Int /\ q * w \in Int
  BY <1>1, <1>3 DEF d, w
<1>8. QED
  BY <1>2, <1>3, <1>4, <1>5, <1>6, <1>7 DEF d, w
-----------------------------------------------------------------------------
(* Who can read what, which id is whose, and what backs it.                *)

BalancesKeyed(bs, keys) == \A u \in Users, id \in TokenIds : KeyedTo(bs[u][id], keys[u])

(* A proof spends under the key of its sender; the auditor's key is the    *)
(* registered one, and so is that of every event.                          *)
KeysInv ==
    /\ BalancesKeyed(balances, publicKey)
    /\ \A p \in proofs : p \in Spend => p.senderAmount.key = p.senderKey
    /\ AuditorSet => auditor.key = publicKey[auditor.user]
    /\ AuditorReadable

(* Ids and addresses lead to one another, ids were given out in order, and *)
(* nobody has money under an id not given out.                             *)
KnownIds ==
    /\ \A t \in Tokens : tokenIds[t] # 0 =>
           tokenAddresses[tokenIds[t]] = t /\ tokenIds[t] < nextTokenId
    /\ \A id \in TokenIds : tokenAddresses[id] # NoAddress =>
           id # 0 /\ tokenAddresses[id] \in Tokens /\ tokenIds[tokenAddresses[id]] = id

IdsInv ==
    /\ KnownIds
    /\ isConverter =>
           \A u \in Users, id \in TokenIds :
               balances[u][id].eGCT # NoCiphertext => id # 0 /\ \E t \in Tokens : tokenIds[t] = id

Backed(t) == Supply(balances, tokenIds[t]) * DownScale[t] <= reserve[t] * UpScale[t]

BackingInv == \A t \in Tokens : tokenIds[t] # 0 => Backed(t)

(* Mint nullifiers are numbers of earlier proofs, each proof has its own,  *)
(* and a used one is that of a proof.                                      *)
MintProofs == {p \in proofs : p.kind = "mint"}

MintedProofs == {p \in MintProofs : p.nullifier \in alreadyMinted}

AmountOf == [p \in Proof |-> p.amount]

NullifiersInv ==
    /\ \A p \in MintProofs : p.nullifier < Cardinality(proofs)
    /\ \A p, q \in MintProofs : p.nullifier = q.nullifier => p = q
    /\ \A n \in alreadyMinted : \E p \in MintProofs : p.nullifier = n

MintInv ==
    /\ NullifiersInv
    /\ ~isConverter => Supply(balances, 0) <= SumOver(AmountOf, MintedProofs)

MoreInv == KeysInv /\ IdsInv /\ BackingInv /\ MintInv
-----------------------------------------------------------------------------
(* A conversion into the token.                                            *)

LEMMA AddTokenIds ==
    ASSUME IInv, IdsInv, NEW t \in Tokens, AddTokenIfNew(t)
    PROVE  /\ KnownIds'
           /\ tokenIds'[t] \in TokenIds \ {0}
           /\ tokenIds[t] = 0 => \A s \in Tokens : tokenIds[s] # tokenIds'[t]
           /\ \A s \in Tokens \ {t} : tokenIds'[s] = tokenIds[s] /\ tokenIds[s] # tokenIds'[t]
           /\ tokenIds[t] # 0 => tokenIds'[t] = tokenIds[t]
<1>1. /\ tokenIds \in [Tokens -> TokenIds] /\ tokenAddresses \in [TokenIds -> Tokens \cup {NoAddress}]
      /\ tokenIds' \in [Tokens -> TokenIds] /\ nextTokenId \in Nat \ {0} /\ KnownIds
      /\ TokenIds \subseteq Nat
  BY AddTokenInv DEF IInv, TokenTypes, IdsInv, TokenIds
<1>2. CASE tokenIds[t] # 0
  <2>1. UNCHANGED <<tokenIds, tokenAddresses, nextTokenId>>
    BY <1>2 DEF AddTokenIfNew, trackerVars
  <2>2. QED
    BY <1>1, <1>2, <2>1 DEF KnownIds
<1>3. CASE tokenIds[t] = 0
  <2>1. /\ tokenIds' = [tokenIds EXCEPT ![t] = nextTokenId]
        /\ tokenAddresses' = [tokenAddresses EXCEPT ![nextTokenId] = t]
        /\ nextTokenId' = nextTokenId + 1
    BY <1>3 DEF AddTokenIfNew
  <2>2. tokenIds'[t] = nextTokenId /\ nextTokenId \in TokenIds
    BY <1>1, <2>1
  <2>3. \A s \in Tokens : tokenIds[s] < nextTokenId
    BY <1>1 DEF KnownIds
  <2>4. \A s \in Tokens \ {t} : tokenIds'[s] = tokenIds[s]
    BY <1>1, <2>1
  <2>5. tokenAddresses'[nextTokenId] = t
        /\ \A id \in TokenIds \ {nextTokenId} : tokenAddresses'[id] = tokenAddresses[id]
    BY <1>1, <2>1, <2>2
  <2>6. ASSUME NEW s \in Tokens PROVE tokenIds[s] \in Nat /\ tokenIds[s] # nextTokenId
    <3>1. tokenIds[s] \in Nat /\ tokenIds[s] < nextTokenId
      BY <1>1, <2>3
    <3>2. QED
      BY <1>1, <3>1
  <2>7. ASSUME NEW s \in Tokens, tokenIds'[s] # 0
        PROVE  tokenAddresses'[tokenIds'[s]] = s /\ tokenIds'[s] < nextTokenId'
    <3>1. CASE s = t
      BY <1>1, <2>1, <2>2, <2>5, <3>1
    <3>2. CASE s # t
      <4>1. tokenIds'[s] = tokenIds[s] /\ tokenIds[s] # nextTokenId /\ tokenIds[s] \in TokenIds
        BY <1>1, <2>4, <2>6, <3>2
      <4>2. tokenAddresses[tokenIds[s]] = s
        BY <1>1, <2>7, <4>1 DEF KnownIds
      <4>3. QED
        BY <1>1, <2>1, <2>3, <2>5, <2>6, <4>1, <4>2
    <3>3. QED
      BY <3>1, <3>2
  <2>8. ASSUME NEW id \in TokenIds, tokenAddresses'[id] # NoAddress
        PROVE  id # 0 /\ tokenAddresses'[id] \in Tokens /\ tokenIds'[tokenAddresses'[id]] = id
    <3>1. CASE id = nextTokenId
      BY <1>1, <2>2, <2>5, <3>1
    <3>2. CASE id # nextTokenId
      <4>1. tokenAddresses'[id] = tokenAddresses[id]
        BY <2>5, <3>2
      <4>2. id # 0 /\ tokenAddresses[id] \in Tokens /\ tokenIds[tokenAddresses[id]] = id
        BY <1>1, <2>8, <4>1 DEF KnownIds
      <4>3. tokenAddresses[id] # t
        BY <1>3, <4>2
      <4>4. QED
        BY <2>4, <4>1, <4>2, <4>3
    <3>3. QED
      BY <3>1, <3>2
  <2>9. KnownIds'
    BY <2>7, <2>8 DEF KnownIds
  <2>10. QED
    BY <1>1, <1>3, <2>2, <2>4, <2>6, <2>9
<1>4. QED
  BY <1>2, <1>3

(* The balance a conversion credits, if the amount does not scale to zero. *)
LEMMA ConvertWrites ==
    ASSUME IInv, IdsInv, NEW to \in Users, IsUserRegistered(to), NEW t \in Tokens,
           NEW amount \in Nat, NEW amountPCT \in Int, ConvertFrom(to, t, amount, amountPCT)
    PROVE  LET id == tokenIds'[t]
               c == ConvertCredit(balances[to][id], publicKey[to], ConvertIn(t, amount), amountPCT)
           IN  \/ ConvertIn(t, amount) = 0 /\ balances' = balances
               \/ /\ ConvertIn(t, amount) # 0
                  /\ balances' = [balances EXCEPT ![to][id] = c]
                  /\ c \in Balance
                  /\ c.eGCT.v = balances[to][id].eGCT.v + ConvertIn(t, amount)
<1> DEFINE id == tokenIds'[t]
           c == ConvertCredit(balances[to][id], publicKey[to], ConvertIn(t, amount), amountPCT)
<1>1. id \in TokenIds
  BY AddTokenIds DEF ConvertFrom
<1>2. BalanceInv(balances[to][id]) /\ publicKey[to] \in Keys /\ ConvertIn(t, amount) \in Nat
  BY <1>1, Conversions DEF IInv, AllBalancesInv, IsUserRegistered, TokenTypes
<1>3. BalanceInv(c) /\ c \in Balance /\ c.eGCT.v = balances[to][id].eGCT.v + ConvertIn(t, amount)
  BY <1>2, ConvertCreditInv DEF BalanceInv, Sound
<1>4. CASE ConvertIn(t, amount) = 0
  BY <1>4 DEF ConvertFrom
<1>5. CASE ConvertIn(t, amount) # 0
  <2>1. balances' = [balances EXCEPT ![to][id] = c]
    BY <1>1, <1>5 DEF ConvertFrom, IInv, AllBalancesInv
  <2>2. QED
    BY <1>3, <1>5, <2>1
<1>6. QED
  BY <1>4, <1>5

LEMMA WriteKeyed ==
    ASSUME NEW bs, AllBalancesInv(bs), NEW keys, BalancesKeyed(bs, keys),
           NEW u \in Users, NEW id \in TokenIds, NEW c, KeyedTo(c, keys[u])
    PROVE  BalancesKeyed([bs EXCEPT ![u][id] = c], keys)
BY DEF BalancesKeyed, AllBalancesInv

LEMMA ConvertKeyed ==
    ASSUME IInv, IdsInv, BalancesKeyed(balances, publicKey), NEW to \in Users, IsUserRegistered(to),
           NEW t \in Tokens, NEW amount \in Nat, NEW amountPCT \in Int,
           ConvertFrom(to, t, amount, amountPCT)
    PROVE  BalancesKeyed(balances', publicKey)
<1> DEFINE id == tokenIds'[t]
           c == ConvertCredit(balances[to][id], publicKey[to], ConvertIn(t, amount), amountPCT)
<1>1. id \in TokenIds /\ publicKey[to] \in Keys /\ ConvertIn(t, amount) \in Nat
  BY AddTokenIds, Conversions DEF ConvertFrom, IInv, IsUserRegistered, TokenTypes
<1>2. balances[to][id] \in Balance /\ KeyedTo(balances[to][id], publicKey[to])
  BY <1>1 DEF IInv, AllBalancesInv, BalancesKeyed
<1>3. KeyedTo(c, publicKey[to])
  BY <1>1, <1>2, ConvertCreditKeyed
<1>4. balances' = balances \/ balances' = [balances EXCEPT ![to][id] = c]
  BY ConvertWrites
<1> HIDE DEF c
<1>5. QED
  BY <1>1, <1>3, <1>4, WriteKeyed DEF IInv

LEMMA ConvertIds ==
    ASSUME IInv, IdsInv, isConverter, isConverter' = isConverter, NEW to \in Users,
           IsUserRegistered(to), NEW t \in Tokens, NEW amount \in Nat, NEW amountPCT \in Int,
           ConvertFrom(to, t, amount, amountPCT)
    PROVE  IdsInv'
<1> DEFINE id == tokenIds'[t]
           c == ConvertCredit(balances[to][id], publicKey[to], ConvertIn(t, amount), amountPCT)
<1>1. /\ KnownIds' /\ id \in TokenIds \ {0}
      /\ \A s \in Tokens : tokenIds[s] # 0 => tokenIds'[s] = tokenIds[s]
  BY AddTokenIds DEF ConvertFrom
<1>2. balances \in [Users -> [TokenIds -> Balance]]
  BY DEF IInv, AllBalancesInv
<1>3. balances' = balances \/ balances' = [balances EXCEPT ![to][id] = c]
  BY ConvertWrites
<1> HIDE DEF c
<1>4. ASSUME NEW u \in Users, NEW k \in TokenIds, balances'[u][k].eGCT # NoCiphertext
      PROVE  k # 0 /\ \E s \in Tokens : tokenIds'[s] = k
  <2>1. CASE k = id
    BY <1>1, <2>1
  <2>2. CASE k # id
    <3>1. balances'[u][k] = balances[u][k]
      BY <1>2, <1>3, <2>2
    <3>2. k # 0 /\ \E s \in Tokens : tokenIds[s] = k
      BY <1>4, <3>1 DEF IdsInv
    <3>3. QED
      BY <1>1, <3>2
  <2>3. QED
    BY <2>1, <2>2
<1>5. QED
  BY <1>1, <1>4 DEF IdsInv

(* The supply grows by what was credited, the reserve by what was kept.    *)
LEMMA ConvertBacking ==
    ASSUME IInv, IdsInv, BackingInv, isConverter, NEW to \in Users, IsUserRegistered(to),
           NEW t \in Tokens, NEW amount \in Nat, NEW amountPCT \in Int,
           ConvertFrom(to, t, amount, amountPCT),
           reserve' = [reserve EXCEPT ![t] = @ + (amount - Dust(t, amount))]
    PROVE  BackingInv'
<1> DEFINE id == tokenIds'[t]
           value == ConvertIn(t, amount)
           c == ConvertCredit(balances[to][id], publicKey[to], value, amountPCT)
<1>1. /\ id \in TokenIds \ {0}
      /\ tokenIds[t] = 0 => \A s \in Tokens : tokenIds[s] # id
      /\ \A s \in Tokens \ {t} : tokenIds'[s] = tokenIds[s] /\ tokenIds[s] # id
      /\ tokenIds[t] # 0 => id = tokenIds[t]
  BY AddTokenIds DEF ConvertFrom
<1>2. AllBalancesInv(balances) /\ AllBalancesInv(balances') /\ reserve \in [Tokens -> Nat]
      /\ tokenIds \in [Tokens -> TokenIds]
  BY DepositCredits DEF IInv, TokenTypes
<1>3. \/ value = 0 /\ balances' = balances
      \/ /\ balances' = [balances EXCEPT ![to][id] = c] /\ c \in Balance
         /\ c.eGCT.v = balances[to][id].eGCT.v + value
  BY ConvertWrites
<1> HIDE DEF c
<1>4. value \in Nat /\ Supply(balances, id) \in Int /\ balances[to][id].eGCT.v \in Int
  <2>1. value \in Nat
    BY Conversions
  <2>2. id \in TokenIds
    BY <1>1
  <2> HIDE DEF value, id
  <2>3. Supply(balances, id) \in Int
    BY <1>2, <2>2, SupplyInt
  <2>4. balances[to][id] \in Balance
    BY <1>2, <2>2 DEF AllBalancesInv
  <2>5. QED
    BY <2>1, <2>3, <2>4 DEF Balance, Ciphertext
<1> HIDE DEF value, id
<1>5. /\ Supply(balances', id) = Supply(balances, id) + value
      /\ \A k \in TokenIds \ {id} : Supply(balances', k) = Supply(balances, k)
  <2>1. CASE value = 0 /\ balances' = balances
    BY <1>4, <2>1
  <2>2. CASE /\ balances' = [balances EXCEPT ![to][id] = c] /\ c \in Balance
             /\ c.eGCT.v = balances[to][id].eGCT.v + value
    <3>1. /\ Supply(balances', id) = Supply(balances, id) + (c.eGCT.v - balances[to][id].eGCT.v)
          /\ \A k \in TokenIds \ {id} : Supply(balances', k) = Supply(balances, k)
      <4> DEFINE new == balances'
      <4>1. /\ id \in TokenIds /\ AllBalancesInv(new) /\ new[to][id] = c
            /\ \A v \in Users, k \in TokenIds : v # to \/ k # id => new[v][k] = balances[v][k]
        BY <1>1, <1>2, <2>2 DEF AllBalancesInv
      <4> HIDE DEF new
      <4>2. /\ Supply(new, id) = Supply(balances, id) + (new[to][id].eGCT.v - balances[to][id].eGCT.v)
            /\ \A k \in TokenIds \ {id} : Supply(new, k) = Supply(balances, k)
        BY <1>2, <4>1, SupplyWrite
      <4>3. QED
        BY <4>1, <4>2 DEF new
    <3>2. c.eGCT.v - balances[to][id].eGCT.v = value
      BY <1>4, <2>2
    <3>3. QED
      BY <3>1, <3>2
  <2>3. QED
    BY <1>3, <2>1, <2>2
<1>6. reserve[t] \in Nat /\ Supply(balances, id) * DownScale[t] <= reserve[t] * UpScale[t]
  <2>1. CASE tokenIds[t] # 0
    BY <1>1, <1>2, <2>1 DEF BackingInv, Backed
  <2>2. CASE tokenIds[t] = 0
    <3>1. \A u \in Users : balances[u][id].eGCT = NoCiphertext
      BY <1>1, <2>2 DEF IdsInv
    <3>2. Supply(balances, id) = 0
      BY <1>1, <1>2, <3>1, NoSupply
    <3>3. DownScale[t] \in Nat /\ UpScale[t] \in Nat /\ reserve[t] \in Nat
      BY <1>2, TokensAssumption
    <3>4. reserve[t] * UpScale[t] \in Nat
      BY <3>3
    <3>5. QED
      BY <3>2, <3>3, <3>4
  <2>3. QED
    BY <2>1, <2>2
<1>7. (Supply(balances, id) + value) * DownScale[t]
          <= (reserve[t] + (amount - Dust(t, amount))) * UpScale[t]
  BY <1>4, <1>6, DepositBacks DEF value
<1>8. reserve'[t] = reserve[t] + (amount - Dust(t, amount))
      /\ \A s \in Tokens \ {t} : reserve'[s] = reserve[s]
  BY <1>2
<1>9. ASSUME NEW s \in Tokens, tokenIds'[s] # 0
      PROVE  Supply(balances', tokenIds'[s]) * DownScale[s] <= reserve'[s] * UpScale[s]
  <2>1. CASE s = t
    BY <1>5, <1>7, <1>8, <2>1 DEF id
  <2>2. CASE s # t
    <3>1. tokenIds'[s] = tokenIds[s] /\ tokenIds[s] # id /\ tokenIds[s] \in TokenIds
      BY <1>1, <1>2, <2>2
    <3>2. Supply(balances', tokenIds[s]) = Supply(balances, tokenIds[s])
      BY <1>5, <3>1
    <3>3. Backed(s)
      BY <1>9, <3>1 DEF BackingInv
    <3>4. QED
      BY <1>8, <2>2, <3>1, <3>2, <3>3 DEF Backed
  <2>3. QED
    BY <2>1, <2>2
<1>10. QED
  BY <1>9 DEF BackingInv, Backed
-----------------------------------------------------------------------------
(* Steps that leave an invariant's variables alone.                        *)

LEMMA KeysKept ==
    ASSUME KeysInv, UNCHANGED <<balances, publicKey, proofs, auditor, audited>>
    PROVE  KeysInv'
BY DEF KeysInv, AuditorSet, AuditorReadable

LEMMA IdsKept ==
    ASSUME IdsInv, UNCHANGED <<balances, isConverter, tokenIds, tokenAddresses, nextTokenId>>
    PROVE  IdsInv'
BY DEF IdsInv, KnownIds

LEMMA BackingKept ==
    ASSUME BackingInv, UNCHANGED <<tokenIds, reserve>>,
           \A t \in Tokens : tokenIds[t] # 0 =>
               Supply(balances', tokenIds[t]) = Supply(balances, tokenIds[t])
    PROVE  BackingInv'
BY DEF BackingInv, Backed

LEMMA MintKept ==
    ASSUME MintInv, UNCHANGED <<proofs, alreadyMinted, isConverter>>,
           ~isConverter => Supply(balances', 0) = Supply(balances, 0)
    PROVE  MintInv'
<1>1. NullifiersInv' /\ MintedProofs' = MintedProofs
  BY DEF MintInv, NullifiersInv, MintProofs, MintedProofs
<1>2. QED
  BY <1>1 DEF MintInv
-----------------------------------------------------------------------------
(* Keys.                                                                   *)

(* A new key is of an account that had none: it has no balance, is no      *)
(* auditor, and no event is for it.                                        *)
LEMMA RegisterKeys ==
    ASSUME IInv, KeysInv, NEW u \in Users, NEW key \in Keys, Register(u, key)
    PROVE  KeysInv'
<1>1. /\ publicKey[u] = NoKey /\ publicKey' = [publicKey EXCEPT ![u] = key]
      /\ UNCHANGED <<balances, proofs, auditor, audited>>
  BY DEF Register, IsUserRegistered, adminVars
<1>2. \A v \in Users : publicKey[v] # NoKey => publicKey'[v] = publicKey[v]
  BY <1>1 DEF IInv, TokenTypes
<1>3. \A v \in Users, id \in TokenIds : KeyedTo(balances[v][id], publicKey'[v])
  BY <1>1, <1>2 DEF KeysInv, BalancesKeyed, KeyedTo
<1>4. AuditorSet => auditor.user \in Users /\ auditor.key \in Keys
  BY DEF AuditorSet, IInv, TokenTypes
<1>5. AuditorSet => auditor.key = publicKey'[auditor.user]
  BY <1>2, <1>4, KeysAssumption DEF KeysInv
<1>6. \A e \in audited : e.key = publicKey'[e.auditor]
  <2> TAKE e \in audited
  <2>1. e.auditor \in Users /\ e.key \in Keys /\ e.key = publicKey[e.auditor]
    BY DEF IInv, TokenTypes, KeysInv, AuditorReadable
  <2>2. QED
    BY <1>2, <2>1, KeysAssumption
<1>7. QED
  BY <1>1, <1>3, <1>5, <1>6 DEF KeysInv, BalancesKeyed, AuditorSet, AuditorReadable

LEMMA AuditorKeys ==
    ASSUME IInv, KeysInv, NEW u \in Users, SetAuditorPublicKey(u)
    PROVE  KeysInv'
BY DEF SetAuditorPublicKey, registrarVars, KeysInv, AuditorSet, AuditorReadable

LEMMA ProveKeys ==
    ASSUME IInv, KeysInv, NEW p, p \in Spend => p.senderAmount.key = p.senderKey,
           proofs' = proofs \cup {p}, UNCHANGED <<balances, publicKey, auditor, audited>>
    PROVE  KeysInv'
BY DEF KeysInv, AuditorSet, AuditorReadable

(* The event is under the key of the auditor in office.                    *)
LEMMA EmitReadable ==
    ASSUME IInv, KeysInv, NEW p, AuditorSet, ValidateAuditorPublicKey(p.auditorKey),
           EmitPrivate(p), publicKey' = publicKey
    PROVE  AuditorReadable'
BY DEF KeysInv, AuditorReadable, EmitPrivate, ValidateAuditorPublicKey

(* What an accepted spend leaves stays under the sender's key.             *)
LEMMA SpendKeyed ==
    ASSUME IInv, KeysInv, NEW kind \in {"transfer", "withdraw", "burn"}, NEW from \in Users,
           NEW id \in TokenIds, NEW p, AcceptSpend(kind, from, id, p)
    PROVE  /\ KeyedTo(SpendBalance(from, id, p), publicKey[from])
           /\ balances[from][id].eGCT # NoCiphertext
           /\ p \in Spend /\ SpendBalance(from, id, p) \in Balance
<1>1. p \in Spend /\ SpendBalance(from, id, p) \in Balance /\ p \in proofs
  BY AcceptedSpend DEF BalanceInv, Sound, AcceptSpend
<1>2. /\ p.senderAmount.key = publicKey[from] /\ publicKey[from] \in Keys
      /\ p.senderAmount \in Ciphertext /\ p.balancePCT \in Int
  BY <1>1 DEF AcceptSpend, ValidatePublicKey, IsUserRegistered, KeysInv, IInv, TokenTypes, Spend
<1>3. /\ balances[from][id] \in Balance /\ KeyedTo(balances[from][id], publicKey[from])
      /\ IsBalanceValid(balances[from][id], p.providedBalance)
  BY DEF AcceptSpend, IInv, AllBalancesInv, KeysInv, BalancesKeyed
<1>4. QED
  BY <1>1, <1>2, <1>3, PrivateBurnKeyed DEF SpendBalance

LEMMA TransferKeyed ==
    ASSUME IInv, KeysInv, NEW from \in Users, NEW to \in Users, NEW id \in TokenIds, NEW p,
           Transfer(from, to, id, p)
    PROVE  BalancesKeyed(balances', publicKey)
<1> DEFINE sent == SpendBalance(from, id, p)
           burned == [balances EXCEPT ![from][id] = sent]
           received == AddToUserBalance(burned[to][id], p.receiverAmount, p.amount)
<1>1. /\ AcceptSpend("transfer", from, id, p) /\ balances' = [burned EXCEPT ![to][id] = received]
      /\ IsUserRegistered(to) /\ ValidatePublicKey(to, p.receiverAmount.key)
  BY DEF Transfer, IInv, AllBalancesInv
<1>2. KeyedTo(sent, publicKey[from]) /\ BalanceInv(sent) /\ p \in Spend
  BY <1>1, SpendKeyed, AcceptedSpend
<1>3. /\ p.receiverAmount \in Ciphertext /\ p.amount \in Int /\ publicKey[to] \in Keys
      /\ p.receiverAmount.key = publicKey[to]
  BY <1>1, <1>2 DEF Spend, ValidatePublicKey, IsUserRegistered, IInv, TokenTypes
<1> HIDE DEF sent
<1>4. AllBalancesInv(burned) /\ BalancesKeyed(burned, publicKey)
  BY <1>2, SetOneBalance, WriteKeyed DEF IInv, KeysInv
<1> HIDE DEF burned
<1>5. KeyedTo(received, publicKey[to])
  BY <1>3, <1>4, AddToUserBalanceKeyed DEF AllBalancesInv, BalancesKeyed
<1> HIDE DEF received
<1>6. QED
  BY <1>1, <1>4, <1>5, WriteKeyed

LEMMA MintKeyed ==
    ASSUME IInv, KeysInv, NEW to \in Users, NEW p \in proofs, PrivateMint(to, p)
    PROVE  BalancesKeyed(balances', publicKey)
<1> DEFINE c == AddToUserBalance(balances[to][0], p.receiverAmount, p.amount)
<1>1. p \in Mint /\ 0 \in TokenIds
  BY MintBalance, TokensAssumption, FS_CardinalityType DEF TokenIds
<1>2. /\ p.receiverAmount \in Ciphertext /\ p.amount \in Int /\ publicKey[to] \in Keys
      /\ p.receiverAmount.key = publicKey[to]
  BY <1>1 DEF PrivateMint, Mint, ValidatePublicKey, IsUserRegistered, IInv, TokenTypes
<1>3. KeyedTo(c, publicKey[to])
  BY <1>1, <1>2, AddToUserBalanceKeyed DEF IInv, AllBalancesInv, KeysInv, BalancesKeyed
<1>4. balances' = [balances EXCEPT ![to][0] = c]
  BY <1>1 DEF PrivateMint, IInv, AllBalancesInv
<1> HIDE DEF c
<1>5. QED
  BY <1>1, <1>3, <1>4, WriteKeyed DEF IInv, KeysInv
-----------------------------------------------------------------------------
(* Ids: only ids that were credited are credited or spent from.            *)

LEMMA TransferIds ==
    ASSUME IInv, KeysInv, IdsInv, NEW from \in Users, NEW to \in Users, NEW id \in TokenIds, NEW p,
           Transfer(from, to, id, p)
    PROVE  IdsInv'
<1>1. PICK burned, sent, received :
         /\ AllBalancesInv(burned) /\ BalanceInv(sent) /\ BalanceInv(received)
         /\ burned = [balances EXCEPT ![from][id] = sent]
         /\ balances' = [burned EXCEPT ![to][id] = received]
  BY TransferBalances
<1>2. balances[from][id].eGCT # NoCiphertext
  BY SpendKeyed DEF Transfer
<1>3. \A u \in Users, k \in TokenIds : k # id => balances'[u][k] = balances[u][k]
  BY <1>1 DEF IInv, AllBalancesInv
<1>4. UNCHANGED <<isConverter, tokenIds, tokenAddresses, nextTokenId>>
  BY DEF Transfer, adminVars, trackerVars
<1>5. isConverter =>
          \A u \in Users, k \in TokenIds :
              balances'[u][k].eGCT # NoCiphertext => k # 0 /\ \E t \in Tokens : tokenIds[t] = k
  BY <1>2, <1>3 DEF IdsInv
<1>6. QED
  BY <1>4, <1>5 DEF IdsInv, KnownIds

LEMMA SpendIds ==
    ASSUME IInv, KeysInv, IdsInv, NEW kind \in {"withdraw", "burn"}, NEW from \in Users,
           NEW id \in TokenIds, NEW p, AcceptSpend(kind, from, id, p),
           balances' = [balances EXCEPT ![from][id] = SpendBalance(from, id, p)],
           UNCHANGED <<isConverter, tokenIds, tokenAddresses, nextTokenId>>
    PROVE  IdsInv'
<1>1. balances[from][id].eGCT # NoCiphertext
  BY SpendKeyed
<1>2. \A u \in Users, k \in TokenIds : k # id => balances'[u][k] = balances[u][k]
  BY DEF IInv, AllBalancesInv
<1>3. isConverter =>
          \A u \in Users, k \in TokenIds :
              balances'[u][k].eGCT # NoCiphertext => k # 0 /\ \E t \in Tokens : tokenIds[t] = k
  BY <1>1, <1>2 DEF IdsInv
<1>4. QED
  BY <1>3 DEF IdsInv, KnownIds
-----------------------------------------------------------------------------
(* Supplies.                                                               *)

LEMMA TransferSupply ==
    ASSUME IInv, NEW from \in Users, NEW to \in Users, NEW id \in TokenIds, NEW p,
           Transfer(from, to, id, p)
    PROVE  \A k \in TokenIds : Supply(balances', k) = Supply(balances, k)
<1>1. PICK burned, sent, received :
         /\ AllBalancesInv(burned) /\ BalanceInv(sent) /\ BalanceInv(received)
         /\ burned = [balances EXCEPT ![from][id] = sent]
         /\ balances' = [burned EXCEPT ![to][id] = received]
         /\ p.amount \in Nat
         /\ p.amount <= balances[from][id].eGCT.v
         /\ sent.eGCT.v = balances[from][id].eGCT.v - p.amount
         /\ received.eGCT.v = burned[to][id].eGCT.v + p.amount
  BY TransferBalances
<1> DEFINE new == balances'
<1>2. AllBalancesInv(balances) /\ AllBalancesInv(new)
  BY <1>1, SetOneBalance DEF IInv
<1>3. /\ burned[from][id] = sent /\ new[to][id] = received
      /\ \A v \in Users, k \in TokenIds : v # from \/ k # id => burned[v][k] = balances[v][k]
      /\ \A v \in Users, k \in TokenIds : v # to \/ k # id => new[v][k] = burned[v][k]
  BY <1>1, <1>2 DEF AllBalancesInv
<1> HIDE DEF new
<1>3a. AllBalancesInv(burned)
  BY <1>1
<1>4. /\ Supply(burned, id) = Supply(balances, id) + (burned[from][id].eGCT.v - balances[from][id].eGCT.v)
      /\ \A k \in TokenIds \ {id} : Supply(burned, k) = Supply(balances, k)
  BY <1>2, <1>3, <1>3a, SupplyWrite
<1>5. /\ Supply(new, id) = Supply(burned, id) + (new[to][id].eGCT.v - burned[to][id].eGCT.v)
      /\ \A k \in TokenIds \ {id} : Supply(new, k) = Supply(burned, k)
  BY <1>2, <1>3, <1>3a, SupplyWrite
<1>6. /\ balances[from][id].eGCT.v \in Int /\ burned[to][id].eGCT.v \in Int
      /\ Supply(balances, id) \in Int
  <2>1. balances[from][id] \in Balance /\ burned[to][id] \in Balance
    BY <1>2, <1>3a DEF AllBalancesInv
  <2>2. Supply(balances, id) \in Int
    BY <1>2, SupplyInt
  <2>3. QED
    BY <2>1, <2>2 DEF Balance, Ciphertext
<1>7. burned[from][id].eGCT.v - balances[from][id].eGCT.v = -p.amount
  BY <1>1, <1>3, <1>6
<1>8. new[to][id].eGCT.v - burned[to][id].eGCT.v = p.amount
  BY <1>1, <1>3, <1>6
<1>9. Supply(new, id) = Supply(balances, id)
  BY <1>1, <1>4, <1>5, <1>6, <1>7, <1>8
<1>10. \A k \in TokenIds : Supply(new, k) = Supply(balances, k)
  BY <1>4, <1>5, <1>9
<1>11. QED
  BY <1>10 DEF new

LEMMA SpendSupply ==
    ASSUME IInv, NEW kind \in {"withdraw", "burn"}, NEW from \in Users, NEW id \in TokenIds,
           NEW p, AcceptSpend(kind, from, id, p),
           balances' = [balances EXCEPT ![from][id] = SpendBalance(from, id, p)]
    PROVE  /\ Supply(balances', id) = Supply(balances, id) - p.amount
           /\ \A k \in TokenIds \ {id} : Supply(balances', k) = Supply(balances, k)
           /\ Supply(balances, id) \in Int /\ p.amount \in Nat
<1> DEFINE new == balances'
<1>1. /\ BalanceInv(SpendBalance(from, id, p)) /\ p.amount \in Nat
      /\ SpendBalance(from, id, p).eGCT.v = balances[from][id].eGCT.v - p.amount
  BY AcceptedSpend
<1>2. AllBalancesInv(balances) /\ AllBalancesInv(new)
  BY <1>1, SetOneBalance DEF IInv
<1>3. /\ new[from][id] = SpendBalance(from, id, p)
      /\ \A v \in Users, k \in TokenIds : v # from \/ k # id => new[v][k] = balances[v][k]
  BY <1>2 DEF AllBalancesInv
<1> HIDE DEF new
<1>4. /\ Supply(new, id) = Supply(balances, id) + (new[from][id].eGCT.v - balances[from][id].eGCT.v)
      /\ \A k \in TokenIds \ {id} : Supply(new, k) = Supply(balances, k)
  BY <1>2, <1>3, SupplyWrite
<1>5. balances[from][id].eGCT.v \in Int /\ Supply(balances, id) \in Int
  BY <1>2, SupplyInt DEF AllBalancesInv, Balance, Ciphertext
<1>6. new[from][id].eGCT.v - balances[from][id].eGCT.v = -p.amount
  BY <1>1, <1>3, <1>5
<1>7. Supply(new, id) = Supply(balances, id) - p.amount
  BY <1>1, <1>4, <1>5, <1>6
<1>8. QED
  BY <1>1, <1>4, <1>5, <1>7 DEF new

LEMMA MintSupply ==
    ASSUME IInv, NEW to \in Users, NEW p \in proofs, PrivateMint(to, p)
    PROVE  /\ Supply(balances', 0) = Supply(balances, 0) + p.amount
           /\ \A k \in TokenIds \ {0} : Supply(balances', k) = Supply(balances, k)
           /\ Supply(balances, 0) \in Int /\ p.amount \in Nat
<1> DEFINE new == balances'
<1>1. PICK c \in Balance :
         /\ BalanceInv(c) /\ p \in Mint
         /\ balances' = [balances EXCEPT ![to][0] = c]
         /\ c.eGCT.v = balances[to][0].eGCT.v + p.amount
  BY MintBalance
<1>2. 0 \in TokenIds /\ p.amount \in Nat
  BY <1>1, TokensAssumption, FS_CardinalityType DEF TokenIds, Mint
<1>3. AllBalancesInv(balances) /\ AllBalancesInv(new)
  BY <1>1, <1>2, SetOneBalance DEF IInv
<1>4. /\ new[to][0] = c
      /\ \A v \in Users, k \in TokenIds : v # to \/ k # 0 => new[v][k] = balances[v][k]
  BY <1>1, <1>2, <1>3 DEF AllBalancesInv
<1> HIDE DEF new
<1>5. /\ Supply(new, 0) = Supply(balances, 0) + (new[to][0].eGCT.v - balances[to][0].eGCT.v)
      /\ \A k \in TokenIds \ {0} : Supply(new, k) = Supply(balances, k)
  BY <1>2, <1>3, <1>4, SupplyWrite
<1>6. balances[to][0].eGCT.v \in Int /\ Supply(balances, 0) \in Int
  <2>1. balances[to][0] \in Balance
    BY <1>2, <1>3 DEF AllBalancesInv
  <2>2. Supply(balances, 0) \in Int
    BY <1>2, <1>3, SupplyInt
  <2>3. QED
    BY <2>1, <2>2 DEF Balance, Ciphertext
<1>7. new[to][0].eGCT.v - balances[to][0].eGCT.v = p.amount
  BY <1>1, <1>2, <1>4, <1>6
<1>8. Supply(new, 0) = Supply(balances, 0) + p.amount
  BY <1>2, <1>5, <1>6, <1>7
<1>9. QED
  BY <1>2, <1>5, <1>6, <1>8 DEF new
-----------------------------------------------------------------------------
(* The steps, one by one.                                                  *)

LEMMA ConvertMore ==
    ASSUME IInv, MoreInv, isConverter, NEW to \in Users, IsUserRegistered(to), NEW t \in Tokens,
           NEW amount \in Nat, NEW amountPCT \in Int, ConvertFrom(to, t, amount, amountPCT),
           reserve' = [reserve EXCEPT ![t] = @ + (amount - Dust(t, amount))],
           UNCHANGED <<publicKey, isConverter, auditor, alreadyMinted, proofs, audited>>
    PROVE  MoreInv'
<1>1. BalancesKeyed(balances', publicKey')
  BY ConvertKeyed DEF MoreInv, KeysInv
<1>2. KeysInv'
  BY <1>1 DEF MoreInv, KeysInv, AuditorSet, AuditorReadable
<1>3. IdsInv'
  BY ConvertIds DEF MoreInv
<1>4. BackingInv'
  BY ConvertBacking DEF MoreInv
<1>5. MintInv'
  BY MintKept DEF MoreInv
<1>6. QED
  BY <1>2, <1>3, <1>4, <1>5 DEF MoreInv

LEMMA DepositMore ==
    ASSUME IInv, MoreInv, isConverter, NEW payer \in Payers, NEW to \in Users,
           IsUserRegistered(to), NEW t \in Tokens, NEW amount \in Nat, NEW amountPCT \in Int,
           ExecuteDepositFrom(payer, to, t, amount, amountPCT)
    PROVE  MoreInv'
BY ConvertMore DEF ExecuteDepositFrom, registrarVars, adminVars

LEMMA SettingsMore ==
    ASSUME IInv, MoreInv,
           \/ \E u \in Users, key \in Keys : Register(u, key)
           \/ \E u \in Users : SetAuditorPublicKey(u)
           \/ \E t, blacklisted : SetTokenBlacklist(t, blacklisted)
           \/ \E d, authorized : SetAuthorizedDepositor(d, authorized)
    PROVE  MoreInv'
<1>1. UNCHANGED <<isConverter, trackerVars, balances, alreadyMinted, moneyVars, proofs>>
  BY DEF Register, SetAuditorPublicKey, SetTokenBlacklist, SetAuthorizedDepositor, adminVars
<1>2. KeysInv'
  <2>1. CASE \E u \in Users, key \in Keys : Register(u, key)
    BY <2>1, RegisterKeys DEF MoreInv
  <2>2. CASE \E u \in Users : SetAuditorPublicKey(u)
    BY <2>2, AuditorKeys DEF MoreInv
  <2>3. CASE \/ \E t, blacklisted : SetTokenBlacklist(t, blacklisted)
             \/ \E d, authorized : SetAuthorizedDepositor(d, authorized)
    <3>1. UNCHANGED <<balances, publicKey, proofs, auditor, audited>>
      BY <2>3 DEF SetTokenBlacklist, SetAuthorizedDepositor, registrarVars
    <3>2. QED
      BY <3>1, KeysKept DEF MoreInv
  <2>4. QED
    BY <2>1, <2>2, <2>3
<1>3. IdsInv'
  BY <1>1, IdsKept DEF MoreInv, trackerVars
<1>4. BackingInv'
  BY <1>1, BackingKept DEF MoreInv, trackerVars, moneyVars
<1>5. MintInv'
  BY <1>1, MintKept DEF MoreInv
<1>6. QED
  BY <1>2, <1>3, <1>4, <1>5 DEF MoreInv

(* A new proof has a nullifier of its own, and no nullifier is used yet    *)
(* that no proof has.                                                      *)
LEMMA ProofMore ==
    ASSUME IInv, MoreInv, NEW p \in Proof, proofs' = proofs \cup {p},
           p \in Spend => p.senderAmount.key = p.senderKey,
           p.kind = "mint" => p.nullifier = Cardinality(proofs),
           UNCHANGED <<registrarVars, adminVars, trackerVars, balances, alreadyMinted,
                       moneyVars, audited>>
    PROVE  MoreInv'
<1>1. KeysInv'
  BY ProveKeys DEF MoreInv, registrarVars, adminVars
<1>2. IdsInv'
  BY IdsKept DEF MoreInv, adminVars, trackerVars
<1>3. BackingInv'
  BY BackingKept DEF MoreInv, trackerVars, moneyVars
<1>4. IsFiniteSet(proofs) /\ Cardinality(proofs) \in Nat
  BY FS_CardinalityType DEF IInv
<1>5. Cardinality(proofs') = IF p \in proofs THEN Cardinality(proofs) ELSE Cardinality(proofs) + 1
  BY <1>4, FS_AddElement
<1>6. \A q \in MintProofs : q.nullifier \in Nat /\ q.nullifier < Cardinality(proofs)
  BY ProofKinds DEF MoreInv, MintInv, NullifiersInv, MintProofs, IInv, TokenTypes, Mint
<1>7. \A n \in alreadyMinted : n \in Nat /\ n < Cardinality(proofs)
  BY <1>6 DEF MoreInv, MintInv, NullifiersInv
<1>8. CASE p.kind # "mint"
  <2>1. MintProofs' = MintProofs
    BY <1>8 DEF MintProofs
  <2>2. \A q \in MintProofs : q.nullifier < Cardinality(proofs')
    BY <1>4, <1>5, <1>6
  <2>3. NullifiersInv' /\ MintedProofs' = MintedProofs
    BY <2>1, <2>2 DEF NullifiersInv, MintedProofs, MoreInv, MintInv
  <2>4. MintInv'
    BY <2>3 DEF MintInv, MoreInv, adminVars
  <2>5. QED
    BY <1>1, <1>2, <1>3, <2>4 DEF MoreInv
<1>9. CASE p.kind = "mint"
  <2>1. p.nullifier = Cardinality(proofs) /\ p \notin proofs /\ p \notin MintProofs
    BY <1>4, <1>6, <1>9 DEF MintProofs
  <2>2. MintProofs' = MintProofs \cup {p} /\ Cardinality(proofs') = Cardinality(proofs) + 1
    BY <1>5, <1>9, <2>1 DEF MintProofs
  <2>3. \A q \in MintProofs \cup {p} : q.nullifier < Cardinality(proofs')
    BY <1>4, <1>6, <2>1, <2>2
  <2>4. \A q, s \in MintProofs \cup {p} : q.nullifier = s.nullifier => q = s
    BY <1>4, <1>6, <2>1 DEF MoreInv, MintInv, NullifiersInv
  <2>5. NullifiersInv'
    BY <2>2, <2>3, <2>4 DEF NullifiersInv, MoreInv, MintInv
  <2>6. MintedProofs' = MintedProofs
    BY <1>4, <1>7, <2>1, <2>2 DEF MintedProofs
  <2>7. MintInv'
    BY <2>5, <2>6 DEF MintInv, MoreInv, adminVars
  <2>8. QED
    BY <1>1, <1>2, <1>3, <2>7 DEF MoreInv
<1>10. QED
  BY <1>8, <1>9

LEMMA ProveSpendMore ==
    ASSUME IInv, MoreInv, NEW kind \in {"transfer", "withdraw", "burn"}, NEW u \in Users,
           NEW id \in TokenIds, NEW value \in Nat,
           NEW senderAmount \in Ciphertext, senderAmount.key = publicKey[u],
           NEW receiverAmount \in Ciphertext,
           ProveSpend(kind, u, id, value, senderAmount, receiverAmount)
    PROVE  MoreInv'
<1> DEFINE b == balances[u][id]
           p == [kind |-> kind, senderKey |-> publicKey[u],
                 providedBalance |-> b.eGCT, senderAmount |-> senderAmount,
                 amount |-> value, balancePCT |-> TotalBalance(b) - value,
                 receiverAmount |-> receiverAmount, auditorKey |-> auditor.key]
<1>1. /\ AuditorSet /\ IsUserRegistered(u) /\ CanDecryptBalance(b) /\ SenderStatement(u, b, value)
      /\ proofs' = proofs \cup {p}
      /\ UNCHANGED <<registrarVars, adminVars, trackerVars, balances, alreadyMinted,
                     moneyVars, audited>>
  BY DEF ProveSpend
<1>2. publicKey[u] \in Keys /\ auditor.key \in Keys
  BY <1>1 DEF IInv, TokenTypes, AuditorSet, IsUserRegistered
<1>3. b.eGCT \in Ciphertext /\ b.eGCT.v \in Int
  BY DEF IInv, TokenTypes, Balance, Ciphertext
<1>4. b.eGCT.key = publicKey[u]
  BY <1>1 DEF SenderStatement
<1>5. TotalBalance(b) = b.eGCT.v
  BY <1>1, <1>2, <1>4, KeysAssumption DEF CanDecryptBalance, NoCiphertext
<1>6. p \in Spend
  <2> HIDE DEF b
  <2>1. TotalBalance(b) - value \in Int
    BY <1>3, <1>5
  <2>2. QED
    BY <2>1, <1>2, <1>3 DEF Spend
<1>7. p.senderAmount.key = p.senderKey /\ p.kind # "mint"
  OBVIOUS
<1> HIDE DEF p
<1>8. QED
  BY <1>1, <1>6, <1>7, ProofMore DEF Proof

LEMMA ProveMore ==
    ASSUME IInv, MoreInv, NEW from \in Users, NEW to \in Users, NEW id \in TokenIds,
           NEW value \in Amounts, NEW r \in Nat,
           \/ ProveTransfer(from, to, id, value, r)
           \/ ProveWithdraw(from, id, value)
           \/ ProveBurn(from, value, r)
    PROVE  MoreInv'
<1>1. value \in Nat /\ r \in Int /\ 0 \in TokenIds
  BY NumbersAssumption, TokensAssumption, FS_CardinalityType DEF TokenIds
<1>2. publicKey[from] \in Keys
  BY DEF ProveTransfer, ProveWithdraw, ProveBurn, ProveSpend, IsUserRegistered, IInv, TokenTypes
<1>3. /\ [key |-> publicKey[from], v |-> value, r |-> r] \in Ciphertext
      /\ Encrypt(publicKey[from], value) \in Ciphertext
      /\ Encrypt(publicKey[from], value).key = publicKey[from]
      /\ NoCiphertext \in Ciphertext
  BY <1>1, <1>2 DEF Ciphertext, Encrypt, NoCiphertext
<1>4. CASE ProveTransfer(from, to, id, value, r)
  <2>1. publicKey[to] \in Keys
    BY <1>4 DEF ProveTransfer, IsUserRegistered, IInv, TokenTypes
  <2>2. [key |-> publicKey[to], v |-> value, r |-> r] \in Ciphertext
    BY <1>1, <2>1 DEF Ciphertext
  <2>3. QED
    BY <1>1, <1>3, <1>4, <2>2, ProveSpendMore DEF ProveTransfer
<1>5. CASE ProveWithdraw(from, id, value)
  BY <1>1, <1>3, <1>5, ProveSpendMore DEF ProveWithdraw
<1>6. CASE ProveBurn(from, value, r)
  BY <1>1, <1>3, <1>6, ProveSpendMore DEF ProveBurn
<1>7. QED
  BY <1>4, <1>5, <1>6

LEMMA ProveMintMore ==
    ASSUME IInv, MoreInv, NEW to \in Users, NEW value \in Amounts, NEW r \in Randomness,
           ProveMint(to, value, r)
    PROVE  MoreInv'
<1> DEFINE p == [kind |-> "mint", amount |-> value, auditorKey |-> auditor.key,
                 receiverAmount |-> [key |-> publicKey[to], v |-> value, r |-> r],
                 nullifier |-> Cardinality(proofs)]
<1>1. value \in Nat /\ r \in Int /\ Cardinality(proofs) \in Nat
  BY NumbersAssumption, FS_CardinalityType DEF IInv
<1>2. /\ AuditorSet /\ IsUserRegistered(to)
      /\ proofs' = proofs \cup {p}
      /\ UNCHANGED <<registrarVars, adminVars, trackerVars, balances, alreadyMinted,
                     moneyVars, audited>>
  BY DEF ProveMint
<1>3. publicKey[to] \in Keys /\ auditor.key \in Keys
  BY <1>2 DEF IInv, TokenTypes, AuditorSet, IsUserRegistered
<1>4. p \in Mint /\ p \notin Spend /\ p.nullifier = Cardinality(proofs)
  BY <1>1, <1>3 DEF Mint, Spend, Ciphertext
<1> HIDE DEF p
<1>5. QED
  BY <1>2, <1>4, ProofMore DEF Proof
-----------------------------------------------------------------------------
LEMMA TransferMore ==
    ASSUME IInv, MoreInv, NEW from \in Users, NEW to \in Users, NEW id \in TokenIds,
           NEW p \in proofs, Transfer(from, to, id, p)
    PROVE  MoreInv'
<1>1. /\ AuditorSet /\ ValidateAuditorPublicKey(p.auditorKey) /\ EmitPrivate(p)
      /\ UNCHANGED <<registrarVars, adminVars, trackerVars, alreadyMinted, moneyVars, proofs>>
  BY DEF Transfer, AcceptSpend
<1>2. BalancesKeyed(balances', publicKey') /\ AuditorReadable'
  <2>1. publicKey' = publicKey
    BY <1>1 DEF registrarVars
  <2>2. BalancesKeyed(balances', publicKey)
    BY TransferKeyed DEF MoreInv
  <2>3. AuditorReadable'
    BY <1>1, <2>1, EmitReadable DEF MoreInv
  <2>4. QED
    BY <2>1, <2>2, <2>3
<1>3. KeysInv'
  BY <1>1, <1>2 DEF MoreInv, KeysInv, AuditorSet, registrarVars, adminVars
<1>4. IdsInv'
  BY TransferIds DEF MoreInv
<1>5. \A k \in TokenIds : Supply(balances', k) = Supply(balances, k)
  BY TransferSupply
<1>6. tokenIds \in [Tokens -> TokenIds] /\ 0 \in TokenIds
  BY TokensAssumption, FS_CardinalityType DEF TokenIds, IInv, TokenTypes
<1>7. BackingInv'
  BY <1>1, <1>5, <1>6, BackingKept DEF MoreInv, trackerVars, moneyVars
<1>8. MintInv'
  BY <1>1, <1>5, <1>6, MintKept DEF MoreInv, adminVars
<1>9. QED
  BY <1>3, <1>4, <1>7, <1>8 DEF MoreInv

(* The keys after a withdrawal or burn.                                    *)
LEMMA SpendKeys ==
    ASSUME IInv, MoreInv, NEW kind \in {"withdraw", "burn"}, NEW from \in Users,
           NEW id \in TokenIds, NEW p, AcceptSpend(kind, from, id, p),
           balances' = [balances EXCEPT ![from][id] = SpendBalance(from, id, p)],
           EmitPrivate(p), UNCHANGED <<publicKey, auditor, proofs>>
    PROVE  KeysInv'
<1>1. KeyedTo(SpendBalance(from, id, p), publicKey[from])
  BY SpendKeyed DEF MoreInv
<1>2. BalancesKeyed(balances', publicKey)
  BY <1>1, WriteKeyed DEF MoreInv, KeysInv, IInv
<1>3. AuditorReadable'
  BY EmitReadable DEF MoreInv, AcceptSpend
<1>4. QED
  BY <1>2, <1>3 DEF MoreInv, KeysInv, AuditorSet

LEMMA WithdrawMore ==
    ASSUME IInv, MoreInv, NEW from \in Users, NEW id \in TokenIds, NEW p \in proofs,
           Withdraw(from, id, p)
    PROVE  MoreInv'
<1> DEFINE t == tokenAddresses[id]
           out == ConvertOut(t, p.amount)
<1>1. /\ isConverter
      /\ AcceptSpend("withdraw", from, id, p)
      /\ t # NoAddress
      /\ reserve[t] >= out
      /\ balances' = [balances EXCEPT ![from][id] = SpendBalance(from, id, p)]
      /\ reserve' = [reserve EXCEPT ![t] = @ - out]
      /\ EmitPrivate(p)
      /\ UNCHANGED <<registrarVars, adminVars, trackerVars, alreadyMinted, proofs>>
  BY DEF Withdraw
<1>2. /\ t \in Tokens /\ id # 0 /\ tokenIds[t] = id
      /\ reserve \in [Tokens -> Nat] /\ tokenIds \in [Tokens -> TokenIds]
      /\ \A s \in Tokens : tokenIds[s] # 0 => tokenAddresses[tokenIds[s]] = s
  BY <1>1 DEF IInv, TokenTypes, MoreInv, IdsInv, KnownIds
<1>3. KeysInv'
  BY <1>1, SpendKeys DEF registrarVars, adminVars
<1>4. IdsInv'
  BY <1>1, SpendIds DEF MoreInv, adminVars, trackerVars
<1>5. MintInv'
  BY <1>1, MintKept DEF MoreInv, adminVars
<1>6. /\ Supply(balances', id) = Supply(balances, id) - p.amount
      /\ \A k \in TokenIds \ {id} : Supply(balances', k) = Supply(balances, k)
      /\ Supply(balances, id) \in Int /\ p.amount \in Nat
  BY <1>1, SpendSupply
<1>7. Supply(balances, id) * DownScale[t] <= reserve[t] * UpScale[t]
  BY <1>2 DEF MoreInv, BackingInv, Backed
<1>8. (Supply(balances, id) - p.amount) * DownScale[t] <= (reserve[t] - out) * UpScale[t]
  BY <1>2, <1>6, <1>7, WithdrawBacks
<1> HIDE DEF t, out
<1>9. reserve'[t] = reserve[t] - out /\ \A s \in Tokens \ {t} : reserve'[s] = reserve[s]
  BY <1>1, <1>2
<1>10. ASSUME NEW s \in Tokens, tokenIds[s] # 0
       PROVE  Supply(balances', tokenIds[s]) * DownScale[s] <= reserve'[s] * UpScale[s]
  <2>1. CASE s = t
    BY <1>2, <1>6, <1>8, <1>9, <2>1
  <2>2. CASE s # t
    <3>1. tokenIds[s] \in TokenIds \ {id}
      BY <1>2, <1>10, <2>2
    <3>2. Backed(s)
      BY <1>10 DEF MoreInv, BackingInv
    <3>3. QED
      BY <1>6, <1>9, <2>2, <3>1, <3>2 DEF Backed
  <2>3. QED
    BY <2>1, <2>2
<1>11. BackingInv'
  BY <1>1, <1>10 DEF BackingInv, Backed, trackerVars
<1>12. QED
  BY <1>3, <1>4, <1>5, <1>11 DEF MoreInv

LEMMA BurnMore ==
    ASSUME IInv, MoreInv, NEW from \in Users, NEW p \in proofs, PrivateBurn(from, p)
    PROVE  MoreInv'
<1>1. /\ ~isConverter
      /\ AcceptSpend("burn", from, 0, p)
      /\ balances' = [balances EXCEPT ![from][0] = SpendBalance(from, 0, p)]
      /\ EmitPrivate(p)
      /\ UNCHANGED <<registrarVars, adminVars, trackerVars, alreadyMinted, moneyVars, proofs>>
  BY DEF PrivateBurn
<1>2. 0 \in TokenIds /\ tokenIds \in [Tokens -> TokenIds]
  BY TokensAssumption, FS_CardinalityType DEF TokenIds, IInv, TokenTypes
<1>3. KeysInv'
  BY <1>1, <1>2, SpendKeys DEF registrarVars, adminVars
<1>4. IdsInv'
  BY <1>1, <1>2, SpendIds DEF MoreInv, adminVars, trackerVars
<1>5. /\ Supply(balances', 0) = Supply(balances, 0) - p.amount
      /\ \A k \in TokenIds \ {0} : Supply(balances', k) = Supply(balances, k)
      /\ Supply(balances, 0) \in Int /\ p.amount \in Nat
  BY <1>1, <1>2, SpendSupply
<1>6. BackingInv'
  BY <1>1, <1>2, <1>5, BackingKept DEF MoreInv, trackerVars, moneyVars
<1>7. NullifiersInv' /\ MintedProofs' = MintedProofs
  BY <1>1 DEF MoreInv, MintInv, NullifiersInv, MintProofs, MintedProofs
<1>8. SumOver(AmountOf, MintedProofs) \in Int /\ Supply(balances, 0) <= SumOver(AmountOf, MintedProofs)
  <2>1. IsFiniteSet(MintedProofs) /\ Numbers(AmountOf, MintedProofs)
    <3>1. MintedProofs \subseteq proofs /\ proofs \subseteq Proof
      BY DEF MintedProofs, MintProofs, IInv, TokenTypes
    <3>2. \A q \in Proof : q.amount \in Nat
      BY DEF Proof, Spend, Mint
    <3>3. QED
      BY <3>1, <3>2, FS_Subset DEF IInv, Numbers, AmountOf
  <2>2. QED
    BY <1>1, <2>1, SumInt DEF MoreInv, MintInv
<1>9. Supply(balances', 0) <= SumOver(AmountOf, MintedProofs)
  BY <1>5, <1>8
<1>10. MintInv'
  BY <1>7, <1>9 DEF MintInv
<1>11. QED
  BY <1>3, <1>4, <1>6, <1>10 DEF MoreInv

LEMMA MintMore ==
    ASSUME IInv, MoreInv, NEW to \in Users, NEW p \in proofs, PrivateMint(to, p)
    PROVE  MoreInv'
<1>1. /\ ~isConverter /\ AuditorSet /\ ValidateAuditorPublicKey(p.auditorKey)
      /\ EmitPrivate(p) /\ p.kind = "mint" /\ p.nullifier \notin alreadyMinted
      /\ alreadyMinted' = alreadyMinted \cup {p.nullifier}
      /\ UNCHANGED <<registrarVars, adminVars, trackerVars, moneyVars, proofs>>
  BY DEF PrivateMint
<1>2. 0 \in TokenIds /\ tokenIds \in [Tokens -> TokenIds]
  BY TokensAssumption, FS_CardinalityType DEF TokenIds, IInv, TokenTypes
<1>3. KeysInv'
  <2>1. publicKey' = publicKey
    BY <1>1 DEF registrarVars
  <2>2. BalancesKeyed(balances', publicKey)
    BY MintKeyed DEF MoreInv
  <2>3. AuditorReadable'
    BY <1>1, <2>1, EmitReadable DEF MoreInv
  <2>4. QED
    BY <1>1, <2>1, <2>2, <2>3 DEF MoreInv, KeysInv, AuditorSet, adminVars
<1>4. IdsInv'
  BY <1>1 DEF MoreInv, IdsInv, KnownIds, adminVars, trackerVars
<1>5. /\ Supply(balances', 0) = Supply(balances, 0) + p.amount
      /\ \A k \in TokenIds \ {0} : Supply(balances', k) = Supply(balances, k)
      /\ Supply(balances, 0) \in Int /\ p.amount \in Nat
  BY MintSupply
<1>6. BackingInv'
  BY <1>1, <1>2, <1>5, BackingKept DEF MoreInv, trackerVars, moneyVars
<1>7. /\ p \in MintProofs /\ p \notin MintedProofs
      /\ MintProofs' = MintProofs /\ MintedProofs' = MintedProofs \cup {p}
  <2>1. p \in MintProofs /\ p \notin MintedProofs /\ MintProofs' = MintProofs
    BY <1>1 DEF MintProofs, MintedProofs
  <2>2. \A q \in MintProofs : q.nullifier = p.nullifier => q = p
    BY <2>1 DEF MoreInv, MintInv, NullifiersInv
  <2>3. QED
    BY <1>1, <2>1, <2>2 DEF MintedProofs
<1>8. NullifiersInv'
  BY <1>1, <1>7 DEF MoreInv, MintInv, NullifiersInv
<1>9. /\ IsFiniteSet(MintedProofs) /\ Numbers(AmountOf, MintedProofs \cup {p})
      /\ Numbers(AmountOf, MintedProofs) /\ AmountOf[p] = p.amount
  <2>1. MintedProofs \cup {p} \subseteq proofs /\ proofs \subseteq Proof
    BY DEF MintedProofs, MintProofs, IInv, TokenTypes
  <2>2. \A q \in Proof : q.amount \in Nat
    BY DEF Proof, Spend, Mint
  <2>3. QED
    BY <2>1, <2>2, FS_Subset DEF IInv, Numbers, AmountOf
<1>10. /\ SumOver(AmountOf, MintedProofs \cup {p}) = p.amount + SumOver(AmountOf, MintedProofs)
       /\ SumOver(AmountOf, MintedProofs) \in Int
  BY <1>7, <1>9, SumAdd, SumInt
<1>11. Supply(balances, 0) <= SumOver(AmountOf, MintedProofs)
  BY <1>1 DEF MoreInv, MintInv
<1>12. Supply(balances', 0) <= SumOver(AmountOf, MintedProofs \cup {p})
  BY <1>5, <1>10, <1>11
<1>13. MintInv'
  BY <1>7, <1>8, <1>12 DEF MintInv
<1>14. QED
  BY <1>3, <1>4, <1>6, <1>13 DEF MoreInv
-----------------------------------------------------------------------------
LEMMA MoreInit == Init => MoreInv
<1> SUFFICES ASSUME Init PROVE MoreInv
  OBVIOUS
<1>1. /\ balances = [u \in Users |-> [id \in TokenIds |-> EmptyBalance]]
      /\ tokenIds = [t \in Tokens |-> 0] /\ tokenAddresses = [id \in TokenIds |-> NoAddress]
      /\ auditor = NoAuditor /\ proofs = {} /\ audited = {} /\ alreadyMinted = {}
  BY DEF Init
<1>2. \A u \in Users, id \in TokenIds : balances[u][id] = EmptyBalance
  BY <1>1
<1>3. KeysInv
  <2>1. \A key : KeyedTo(EmptyBalance, key)
    BY DEF EmptyBalance, KeyedTo
  <2>2. BalancesKeyed(balances, publicKey)
    BY <1>2, <2>1 DEF BalancesKeyed
  <2>3. QED
    BY <1>1, <2>2 DEF KeysInv, AuditorSet, AuditorReadable
<1>4. IdsInv
  <2>1. \A u \in Users, id \in TokenIds : balances[u][id].eGCT = NoCiphertext
    BY <1>2 DEF EmptyBalance
  <2>2. QED
    BY <1>1, <2>1 DEF IdsInv, KnownIds
<1>5. BackingInv
  BY <1>1 DEF BackingInv
<1>6. MintProofs = {} /\ MintedProofs = {}
  BY <1>1 DEF MintProofs, MintedProofs
<1>7. SumOver(AmountOf, MintedProofs) = 0
  BY <1>6, SumEmpty
<1>8. Supply(balances, 0) = 0
  <2>1. 0 \in TokenIds /\ AllBalancesInv(balances)
    BY InitInv, TokensAssumption, FS_CardinalityType DEF TokenIds, IInv
  <2>2. \A u \in Users : balances[u][0].eGCT = NoCiphertext
    BY <1>2, <2>1 DEF EmptyBalance
  <2>3. QED
    BY <2>1, <2>2, NoSupply
<1>9. MintInv
  BY <1>1, <1>6, <1>7, <1>8 DEF MintInv, NullifiersInv
<1>10. QED
  BY <1>3, <1>4, <1>5, <1>9 DEF MoreInv

LEMMA UnchangedMore ==
    ASSUME MoreInv,
           UNCHANGED <<isConverter, publicKey, auditor, tokenIds, tokenAddresses, nextTokenId,
                       balances, alreadyMinted, reserve, proofs, audited>>
    PROVE  MoreInv'
<1>1. KeysInv' /\ IdsInv'
  BY KeysKept, IdsKept DEF MoreInv
<1>2. BackingInv' /\ MintInv'
  BY BackingKept, MintKept DEF MoreInv
<1>3. QED
  BY <1>1, <1>2 DEF MoreInv

LEMMA StepMore == IInv /\ MoreInv /\ Next => MoreInv'
<1> SUFFICES ASSUME IInv, MoreInv, Next PROVE MoreInv'
  OBVIOUS
<1>1. CASE \/ \E u \in Users, key \in Keys : Register(u, key)
           \/ \E u \in Users : SetAuditorPublicKey(u)
           \/ \E t \in Tokens, blacklisted \in BOOLEAN : SetTokenBlacklist(t, blacklisted)
           \/ \E d \in Depositors, authorized \in BOOLEAN : SetAuthorizedDepositor(d, authorized)
  BY <1>1, SettingsMore
<1>2. CASE \E u \in Users, t \in Tokens, amount \in Amounts : Deposit(u, t, amount)
  <2>1. PICK u \in Users, t \in Tokens, amount \in Amounts : Deposit(u, t, amount)
    BY <1>2
  <2>2. amount \in Nat /\ ConvertIn(t, amount) \in Int /\ u \in Payers
    BY NumbersAssumption, Conversions DEF Payers
  <2>3. QED
    BY <2>1, <2>2, DepositMore DEF Deposit
<1>3. CASE \E d \in Depositors, to \in Users, t \in Tokens, amount \in Amounts :
              \E amountPCT \in DepositorPCTs(t, amount) : DepositFor(d, to, t, amount, amountPCT)
  <2>1. PICK d \in Depositors, to \in Users, t \in Tokens, amount \in Amounts :
            \E amountPCT \in DepositorPCTs(t, amount) : DepositFor(d, to, t, amount, amountPCT)
    BY <1>3
  <2>2. PICK amountPCT \in DepositorPCTs(t, amount) : DepositFor(d, to, t, amount, amountPCT)
    BY <2>1
  <2>3. amount \in Nat /\ d \in Payers
    BY NumbersAssumption DEF Payers
  <2>4. ConvertIn(t, amount) \in Int
    BY <2>3, Conversions
  <2>5. amountPCT \in Int
    BY <2>3, <2>4 DEF DepositorPCTs
  <2>6. QED
    BY <2>2, <2>3, <2>5, DepositMore DEF DepositFor
<1>4. CASE \E from, to \in Users, id \in TokenIds, value \in Amounts, r \in Randomness :
              ProveTransfer(from, to, id, value, r)
  BY <1>4, NumbersAssumption, ProveMore
<1>5. CASE \E from \in Users, id \in TokenIds, value \in Amounts : ProveWithdraw(from, id, value)
  <2>1. 0 \in Nat
    OBVIOUS
  <2>2. QED
    BY <1>5, <2>1, ProveMore
<1>6. CASE \E from \in Users, value \in Amounts, r \in Randomness : ProveBurn(from, value, r)
  <2>1. 0 \in TokenIds
    BY TokensAssumption, FS_CardinalityType DEF TokenIds
  <2>2. QED
    BY <1>6, <2>1, NumbersAssumption, ProveMore
<1>7. CASE \E to \in Users, value \in Amounts, r \in Randomness : ProveMint(to, value, r)
  BY <1>7, ProveMintMore
<1>8. CASE \E from, to \in Users, id \in TokenIds, p \in proofs : Transfer(from, to, id, p)
  BY <1>8, TransferMore
<1>9. CASE \E from \in Users, id \in TokenIds, p \in proofs : Withdraw(from, id, p)
  BY <1>9, WithdrawMore
<1>10. CASE \E from \in Users, p \in proofs : PrivateBurn(from, p)
  BY <1>10, BurnMore
<1>11. CASE \E to \in Users, p \in proofs : PrivateMint(to, p)
  BY <1>11, MintMore
<1>12. QED
  BY <1>1, <1>2, <1>3, <1>4, <1>5, <1>6, <1>7, <1>8, <1>9, <1>10, <1>11 DEF Next

LEMMA MoreInvariance == Spec => [](IInv /\ MoreInv)
<1>1. Init => IInv /\ MoreInv
  BY InitInv, MoreInit
<1>2. (IInv /\ MoreInv) /\ [Next]_vars => (IInv /\ MoreInv)'
  <2> SUFFICES ASSUME IInv, MoreInv, [Next]_vars PROVE IInv' /\ MoreInv'
    OBVIOUS
  <2>1. IInv'
    BY NextInv
  <2>2. CASE Next
    BY <2>1, <2>2, StepMore
  <2>3. CASE UNCHANGED vars
    BY <2>1, <2>3, UnchangedMore DEF vars
  <2>4. QED
    BY <2>2, <2>3
<1>3. QED
  BY <1>1, <1>2, PTL DEF Spec
-----------------------------------------------------------------------------
(* Whoever is to read a ciphertext can.                                    *)
LEMMA KeysFollow == MoreInv => KeysReadable
BY DEF MoreInv, KeysInv, BalancesKeyed, KeyedTo, KeysReadable, CiphertextKey

LEMMA AmountsAre ==
    ASSUME NEW S \in SUBSET Proof, IsFiniteSet(S)
    PROVE  MapThenSumSet(LAMBDA p : p.amount, S) = SumOver(AmountOf, S)
<1> DEFINE h == CHOOSE h : h = [s \in SUBSET S |->
                    IF s = {} THEN 0
                    ELSE (CHOOSE x \in s : TRUE).amount + h[s \ {CHOOSE x \in s : TRUE}]]
           f == AmountOf
<1>1. \A s \in SUBSET S : s # {} => f[Some(s)] = Some(s).amount
  BY SomeIn DEF AmountOf
<1>2. h = [s \in SUBSET S |->
              IF s = {} THEN 0
              ELSE (CHOOSE x \in s : TRUE).amount + h[s \ {CHOOSE x \in s : TRUE}]]
  <2>1. PICK g : IsSum(g, f, S)
    BY SumExists
  <2>2. g = [s \in SUBSET S |->
                IF s = {} THEN 0
                ELSE (CHOOSE x \in s : TRUE).amount + g[s \ {CHOOSE x \in s : TRUE}]]
    BY <2>1, <1>1 DEF IsSum, SumOf, Some
  <2>3. QED
    BY <2>2
<1>3. MapThenSumSet(LAMBDA p : p.amount, S) = h[S]
  BY DEF MapThenSumSet, MapThenFoldSet
<1> HIDE DEF h
<1>4. IsSum(h, f, S)
  BY <1>1, <1>2 DEF IsSum, SumOf, Some
<1>5. Numbers(f, S)
  <2>1. \A q \in Proof : q.amount \in Nat
    BY DEF Proof, Spend, Mint
  <2>2. QED
    BY <2>1 DEF Numbers, AmountOf
<1>6. QED
  BY <1>3, <1>4, <1>5, SumUnique

LEMMA RedeemableFollows == IInv /\ MoreInv => Redeemable
<1> SUFFICES ASSUME IInv, MoreInv PROVE Redeemable
  OBVIOUS
<1>1. Solvency
  BY DEF MoreInv, BackingInv, Backed, Solvency, EncryptedSupply, Supply
<1>2. BalanceRedeemable
  BY DEF MoreInv, IdsInv, KnownIds, BalanceRedeemable
<1>3. MintedSupply
  <2> SUFFICES ASSUME ~isConverter
               PROVE  Supply(balances, 0) <= MapThenSumSet(LAMBDA p : p.amount, MintProofs)
    BY DEF MintedSupply, EncryptedSupply, Supply, MintProofs
  <2>1. MintProofs \in SUBSET Proof /\ MintedProofs \in SUBSET MintProofs
    BY DEF MintProofs, MintedProofs, IInv, TokenTypes
  <2>2. IsFiniteSet(MintProofs) /\ \A q \in Proof : q.amount \in Nat
    BY FS_Subset DEF MintProofs, IInv, Proof, Spend, Mint
  <2>3. /\ Numbers(AmountOf, MintProofs) /\ Numbers(AmountOf, MintedProofs)
        /\ \A q \in MintProofs \ MintedProofs : AmountOf[q] \in Nat
    BY <2>1, <2>2 DEF Numbers, AmountOf
  <2>4. SumOver(AmountOf, MintProofs)
            = SumOver(AmountOf, MintedProofs) + SumOver(AmountOf, MintProofs \ MintedProofs)
    BY <2>1, <2>2, <2>3, SumSplit
  <2>5. IsFiniteSet(MintedProofs) /\ IsFiniteSet(MintProofs \ MintedProofs)
    BY <2>1, <2>2, FS_Subset
  <2>6. SumOver(AmountOf, MintedProofs) \in Int
    BY <2>3, <2>5, SumInt
  <2>7. SumOver(AmountOf, MintProofs \ MintedProofs) \in Nat
    BY <2>3, <2>5, SumNat
  <2>8. 0 \in TokenIds
    BY TokensAssumption, FS_CardinalityType DEF TokenIds
  <2>9. Supply(balances, 0) \in Int
    BY <2>8, SupplyInt DEF IInv
  <2>10. Supply(balances, 0) <= SumOver(AmountOf, MintedProofs)
    BY DEF MoreInv, MintInv
  <2>11. Supply(balances, 0) <= SumOver(AmountOf, MintProofs)
    BY <2>4, <2>6, <2>7, <2>9, <2>10
  <2>12. QED
    BY <2>1, <2>2, <2>11, AmountsAre
<1>4. QED
  BY <1>1, <1>2, <1>3 DEF Redeemable

(* Every balance is under its owner's registered key, and every event's    *)
(* auditor can open it: registration never replaces a key, and a proof in  *)
(* flight does not survive a rotation of the auditor.                      *)
THEOREM CiphertextsReadable == Spec => []KeysReadable
<1>1. IInv /\ MoreInv => KeysReadable
  BY KeysFollow
<1>2. QED
  BY <1>1, MoreInvariance, PTL

(* Encrypted balances are backed: per token by the reserve, whatever its   *)
(* decimals, or by mints each paid out once; and a balance's id leads to   *)
(* the token it can be taken out as.                                       *)
THEOREM BalancesRedeemable == Spec => []Redeemable
<1>1. IInv /\ MoreInv => Redeemable
  BY RedeemableFollows
<1>2. QED
  BY <1>1, MoreInvariance, PTL
-----------------------------------------------------------------------------
(* What is kept of a balance's history adds up.                            *)

PctOf == [p \in AmountPCT |-> p.pct]

UpTo(pcts, index) == {p \in pcts : p.index <= index}

(* PCTs and snapshots are of earlier indices, so that no credit gets among *)
(* what a snapshot already covers.                                         *)
AddsUp(b) ==
    /\ IsFiniteSet(b.amountPCTs)
    /\ \A p \in b.amountPCTs : p.index < b.transactionIndex
    /\ \A h \in ValidHistory(b) :
           /\ h.index < b.transactionIndex
           /\ h.ct.v = b.balancePCT + SumOver(PctOf, UpTo(b.amountPCTs, h.index))
    /\ b.eGCT.v = b.balancePCT + SumOver(PctOf, b.amountPCTs)

LEMMA PctNumbers ==
    ASSUME NEW S \in SUBSET AmountPCT, IsFiniteSet(S)
    PROVE  Numbers(PctOf, S) /\ SumOver(PctOf, S) \in Int
<1>1. Numbers(PctOf, S)
  BY DEF Numbers, PctOf, AmountPCT
<1>2. QED
  BY <1>1, SumInt

LEMMA PctsAre ==
    ASSUME NEW S \in SUBSET AmountPCT, IsFiniteSet(S)
    PROVE  SumPCTs(S) = SumOver(PctOf, S)
<1> DEFINE h == CHOOSE h : h = [s \in SUBSET S |->
                    IF s = {} THEN 0
                    ELSE (CHOOSE x \in s : TRUE).pct + h[s \ {CHOOSE x \in s : TRUE}]]
           f == PctOf
<1>1. \A s \in SUBSET S : s # {} => f[Some(s)] = Some(s).pct
  BY SomeIn DEF PctOf
<1>2. h = [s \in SUBSET S |->
              IF s = {} THEN 0
              ELSE (CHOOSE x \in s : TRUE).pct + h[s \ {CHOOSE x \in s : TRUE}]]
  <2>1. PICK g : IsSum(g, f, S)
    BY SumExists
  <2>2. g = [s \in SUBSET S |->
                IF s = {} THEN 0
                ELSE (CHOOSE x \in s : TRUE).pct + g[s \ {CHOOSE x \in s : TRUE}]]
    BY <2>1, <1>1 DEF IsSum, SumOf, Some
  <2>3. QED
    BY <2>2
<1>3. SumPCTs(S) = h[S]
  BY DEF SumPCTs, MapThenSumSet, MapThenFoldSet
<1> HIDE DEF h
<1>4. IsSum(h, f, S)
  BY <1>1, <1>2 DEF IsSum, SumOf, Some
<1>5. QED
  BY <1>3, <1>4, PctNumbers, SumUnique

LEMMA EmptyAddsUp == AddsUp(EmptyBalance)
<1>1. /\ EmptyBalance.amountPCTs = {} /\ ValidHistory(EmptyBalance) = {}
      /\ EmptyBalance.eGCT.v = 0 /\ EmptyBalance.balancePCT = 0
  BY DEF EmptyBalance, ValidHistory, NoCiphertext
<1>2. SumOver(PctOf, {}) = 0
  BY SumEmpty
<1>3. QED
  BY <1>1, <1>2, FS_EmptySet DEF AddsUp

(* A credit with the right PCT: one index or two later.                    *)
LEMMA CreditAddsUp ==
    ASSUME NEW b, BalanceInv(b), AddsUp(b), NEW c, NEW ct, NEW index \in Nat, NEW pct \in Int,
           After(b, c, ct, b.nonce, index), ct.v = b.eGCT.v + pct,
           index >= b.transactionIndex, c.transactionIndex = index + 1,
           c.amountPCTs = b.amountPCTs \cup {[pct |-> pct, index |-> b.transactionIndex]},
           c.balancePCT = b.balancePCT
    PROVE  AddsUp(c)
<1> DEFINE p == [pct |-> pct, index |-> b.transactionIndex]
           S == b.amountPCTs
<1>1. /\ b \in Balance /\ b.transactionIndex \in Nat /\ S \in SUBSET AmountPCT
      /\ b.balancePCT \in Int /\ IsFiniteSet(S)
      /\ \A q \in S : q.index \in Nat /\ q.index < b.transactionIndex
      /\ b.eGCT.v \in Int
  BY DEF AddsUp, BalanceInv, Sound, Balance, AmountPCT, Ciphertext
<1>2. p \in AmountPCT /\ p.index = b.transactionIndex /\ p \notin S /\ PctOf[p] = pct
  BY <1>1 DEF AmountPCT, PctOf
<1> HIDE DEF p
<1>3. S \cup {p} \in SUBSET AmountPCT /\ IsFiniteSet(S \cup {p}) /\ c.amountPCTs = S \cup {p}
  BY <1>1, <1>2, FS_AddElement DEF p
<1>3a. b.eGCT.v = b.balancePCT + SumOver(PctOf, S)
  BY DEF AddsUp
<1>3b. c.eGCT = ct /\ c.nonce = b.nonce /\ c.balanceList = SetHistory(b.balanceList, ct, b.nonce, index)
  BY DEF After
<1> HIDE DEF S
<1>4. SumOver(PctOf, S) \in Int /\ SumOver(PctOf, S \cup {p}) = pct + SumOver(PctOf, S)
  BY <1>1, <1>2, <1>3, PctNumbers, SumAdd
<1>5. c.eGCT.v = c.balancePCT + SumOver(PctOf, c.amountPCTs)
  <2>1. ct.v = b.balancePCT + (pct + SumOver(PctOf, S))
    BY <1>1, <1>3a, <1>4
  <2>2. QED
    BY <1>3, <1>3b, <1>4, <2>1
<1>6. \A q \in c.amountPCTs : q.index < c.transactionIndex
  BY <1>1, <1>2, <1>3
<1>7. ASSUME NEW h \in ValidHistory(c)
      PROVE  /\ h.index < c.transactionIndex
             /\ h.ct.v = c.balancePCT + SumOver(PctOf, UpTo(c.amountPCTs, h.index))
  <2>2. \/ h \in ValidHistory(b)
        \/ h.ct = ct /\ h.index = index
    BY <1>3b DEF ValidHistory, SetHistory
  <2>3. CASE h \in ValidHistory(b)
    <3>1. h.index < b.transactionIndex /\ h.index \in Nat
          /\ h.ct.v = b.balancePCT + SumOver(PctOf, UpTo(S, h.index))
      BY <1>1, <2>3 DEF AddsUp, ValidHistory, Balance, BalanceHistory, S
    <3>2. UpTo(S \cup {p}, h.index) = UpTo(S, h.index)
      BY <1>1, <1>2, <3>1 DEF UpTo
    <3>3. h.index < c.transactionIndex
      BY <1>1, <3>1
    <3>4. h.ct.v = c.balancePCT + SumOver(PctOf, UpTo(c.amountPCTs, h.index))
      BY <1>3, <3>1, <3>2
    <3>5. QED
      BY <3>3, <3>4
  <2>4. CASE h.ct = ct /\ h.index = index
    <3>1. UpTo(S \cup {p}, index) = S \cup {p}
      BY <1>1, <1>2 DEF UpTo, S
    <3>2. h.index < c.transactionIndex
      BY <2>4
    <3>3. h.ct.v = c.balancePCT + SumOver(PctOf, UpTo(c.amountPCTs, h.index))
      BY <1>3, <1>3b, <1>5, <2>4, <3>1
    <3>4. QED
      BY <3>2, <3>3
  <2>5. QED
    BY <2>2, <2>3, <2>4
<1>8. QED
  BY <1>3, <1>5, <1>6, <1>7 DEF AddsUp

LEMMA CreditValue ==
    ASSUME NEW b \in Balance, NEW ct \in Ciphertext
    PROVE  AddToCiphertext(b, ct).eGCT.v = b.eGCT.v + ct.v
<1>1. AddToCiphertext(b, ct).eGCT = IF b.eGCT = NoCiphertext THEN ct ELSE Add(b.eGCT, ct)
  BY DEF AddToCiphertext, Balance
<1>2. QED
  BY <1>1 DEF Add, NoCiphertext, Ciphertext

LEMMA ConvertCreditAddsUp ==
    ASSUME NEW b, BalanceInv(b), AddsUp(b), NEW key \in Keys, NEW value \in Nat
    PROVE  AddsUp(ConvertCredit(b, key, value, value))
<1> DEFINE c == ConvertCredit(b, key, value, value)
           ct == AddToCiphertext(b, Encrypt(key, value)).eGCT
<1>1. b \in Balance /\ b.transactionIndex \in Nat /\ Encrypt(key, value) \in Ciphertext
  BY DEF BalanceInv, Sound, Balance, Encrypt, Ciphertext
<1>2. /\ After(b, c, ct, b.nonce, b.transactionIndex + 1)
      /\ c.transactionIndex = b.transactionIndex + 2
      /\ c.amountPCTs = b.amountPCTs \cup {[pct |-> value, index |-> b.transactionIndex]}
      /\ c.balancePCT = b.balancePCT
  BY <1>1, ConvertCreditIs
<1>3. ct.v = b.eGCT.v + value
  BY <1>1, CreditValue DEF Encrypt
<1> HIDE DEF c, ct
<1>4. b.transactionIndex + 1 \in Nat /\ b.transactionIndex + 1 >= b.transactionIndex
      /\ c.transactionIndex = (b.transactionIndex + 1) + 1
  BY <1>1, <1>2
<1>5. AddsUp(c)
  BY <1>2, <1>3, <1>4, CreditAddsUp
<1>6. QED
  BY <1>5 DEF c

LEMMA AddToUserBalanceAddsUp ==
    ASSUME NEW b, BalanceInv(b), AddsUp(b), NEW ct \in Ciphertext
    PROVE  AddsUp(AddToUserBalance(b, ct, ct.v))
<1> DEFINE c == AddToUserBalance(b, ct, ct.v)
           sum == AddToCiphertext(b, ct).eGCT
<1>1. b \in Balance /\ b.transactionIndex \in Nat /\ ct.v \in Int
  BY DEF BalanceInv, Sound, Balance, Ciphertext
<1>2. /\ After(b, c, sum, b.nonce, b.transactionIndex)
      /\ c.transactionIndex = b.transactionIndex + 1
      /\ c.amountPCTs = b.amountPCTs \cup {[pct |-> ct.v, index |-> b.transactionIndex]}
      /\ c.balancePCT = b.balancePCT
  BY <1>1, AddToUserBalanceIs
<1>3. sum.v = b.eGCT.v + ct.v
  BY <1>1, CreditValue
<1> HIDE DEF c, sum
<1>4. AddsUp(c)
  BY <1>1, <1>2, <1>3, CreditAddsUp
<1>5. QED
  BY <1>4 DEF c

(* A spend against any valid snapshot: the PCTs up to it go, and the new   *)
(* balance PCT is what the snapshot leaves.                                *)
LEMMA SpendAddsUp ==
    ASSUME NEW b, BalanceInv(b), AddsUp(b), NEW provided, IsBalanceValid(b, provided),
           NEW ct \in Ciphertext, NEW pct \in Int, pct = provided.v - ct.v
    PROVE  AddsUp(PrivateBurnBalance(b, provided, ct, pct))
<1> DEFINE c == PrivateBurnBalance(b, provided, ct, pct)
           at == VerifiedIndex(b, provided)
           S == b.amountPCTs
           kept == {p \in S : p.index > at}
<1>1. /\ b \in Balance /\ b.transactionIndex \in Nat /\ S \in SUBSET AmountPCT
      /\ b.balancePCT \in Int /\ IsFiniteSet(S)
      /\ \A q \in S : q.index \in Nat /\ q.index < b.transactionIndex
      /\ b.eGCT.v \in Int /\ ct.v \in Int
      /\ \A h \in b.balanceList : h.nonce \in Nat /\ h.nonce <= b.nonce
      /\ b.nonce \in Nat
  BY DEF AddsUp, BalanceInv, Sound, Balance, AmountPCT, Ciphertext, BalanceHistory
<1>2. PICK h \in ValidHistory(b) : h.ct = provided /\ h.index = at
  BY <1>1, VerifiedSnapshot
<1>3. at \in Nat /\ provided.v = b.balancePCT + SumOver(PctOf, UpTo(S, at))
  BY <1>1, <1>2 DEF AddsUp, ValidHistory, Balance, BalanceHistory
<1>4. /\ After(b, c, Sub(b.eGCT, ct), b.nonce + 1, b.transactionIndex)
      /\ c.transactionIndex = b.transactionIndex + 1
      /\ c.amountPCTs = kept
      /\ c.balancePCT = pct
  BY <1>1, PrivateBurnIs
<1>5. OnlyAt(c, b.transactionIndex)
  BY SpendRevokesHistory
<1> HIDE DEF c, at
<1>6. kept = S \ UpTo(S, at) /\ kept \subseteq S /\ UpTo(S, at) \subseteq S
  BY <1>1, <1>3 DEF UpTo
<1>7. /\ SumOver(PctOf, S) = SumOver(PctOf, UpTo(S, at)) + SumOver(PctOf, kept)
      /\ SumOver(PctOf, UpTo(S, at)) \in Int /\ SumOver(PctOf, kept) \in Int
      /\ IsFiniteSet(kept)
  <2>1. IsFiniteSet(kept) /\ IsFiniteSet(UpTo(S, at))
    BY <1>1, <1>6, FS_Subset
  <2>2. Numbers(PctOf, S)
    BY <1>1, PctNumbers
  <2>3. SumOver(PctOf, UpTo(S, at)) \in Int /\ SumOver(PctOf, kept) \in Int
    BY <1>1, <1>6, <2>1, PctNumbers
  <2>4. SumOver(PctOf, S) = SumOver(PctOf, UpTo(S, at)) + SumOver(PctOf, kept)
    BY <1>1, <1>6, <2>2, SumSplit
  <2>5. QED
    BY <2>1, <2>3, <2>4
<1>8. c.eGCT = Sub(b.eGCT, ct) /\ c.eGCT.v = b.eGCT.v - ct.v
  BY <1>4 DEF After, Sub
<1>9. b.eGCT.v = b.balancePCT + SumOver(PctOf, S)
  BY DEF AddsUp
<1> HIDE DEF S, kept
<1>10. c.eGCT.v = c.balancePCT + SumOver(PctOf, c.amountPCTs)
  BY <1>1, <1>3, <1>4, <1>7, <1>8, <1>9
<1>11. \A q \in kept : q.index \in Nat /\ q.index < b.transactionIndex
  BY <1>1 DEF kept
<1>12. ASSUME NEW g \in ValidHistory(c)
       PROVE  /\ g.index < c.transactionIndex
              /\ g.ct.v = c.balancePCT + SumOver(PctOf, UpTo(c.amountPCTs, g.index))
  <2>1. g.index = b.transactionIndex
    BY <1>5 DEF OnlyAt
  <2>2. c.nonce = b.nonce + 1
        /\ c.balanceList = SetHistory(b.balanceList, c.eGCT, b.nonce + 1, b.transactionIndex)
    BY <1>4, <1>8 DEF After
  <2>3. g.nonce = b.nonce + 1 /\ g \in c.balanceList
    BY <2>2 DEF ValidHistory
  <2>4. g \notin b.balanceList
    BY <1>1, <2>3
  <2>5. g.ct = c.eGCT
    BY <2>2, <2>3, <2>4 DEF SetHistory
  <2>6. UpTo(c.amountPCTs, g.index) = c.amountPCTs
    BY <1>1, <1>4, <1>11, <2>1 DEF UpTo
  <2>7. QED
    BY <1>1, <1>4, <1>10, <2>1, <2>5, <2>6
<1>13. \A q \in c.amountPCTs : q.index < c.transactionIndex
  BY <1>1, <1>4, <1>11
<1>14. AddsUp(c)
  BY <1>4, <1>7, <1>10, <1>12, <1>13 DEF AddsUp
<1>15. QED
  BY <1>14 DEF c
-----------------------------------------------------------------------------
(* The history of every balance, with the proofs that will be spent.       *)

AllAddUp(bs) == \A u \in Users, id \in TokenIds : AddsUp(bs[u][id])

(* The balance PCT a proof installs is what its snapshot leaves.           *)
LeavesRest(p) == p \in Spend => p.balancePCT = p.providedBalance.v - p.amount

HistoryInv ==
    Depositors = {} =>
        /\ AllAddUp(balances)
        /\ \A p \in proofs : LeavesRest(p)

LEMMA WriteAddsUp ==
    ASSUME NEW bs, AllBalancesInv(bs), AllAddUp(bs), NEW u \in Users, NEW id \in TokenIds,
           NEW c, AddsUp(c)
    PROVE  AllAddUp([bs EXCEPT ![u][id] = c])
BY DEF AllAddUp, AllBalancesInv

LEMMA DepositHistory ==
    ASSUME IInv, IdsInv, HistoryInv, NEW to \in Users, IsUserRegistered(to), NEW t \in Tokens,
           NEW amount \in Nat, ConvertFrom(to, t, amount, ConvertIn(t, amount)), proofs' = proofs
    PROVE  HistoryInv'
<1> SUFFICES ASSUME Depositors = {} PROVE AllAddUp(balances')
  BY DEF HistoryInv
<1> DEFINE id == tokenIds'[t]
           value == ConvertIn(t, amount)
           c == ConvertCredit(balances[to][id], publicKey[to], value, value)
<1>1. id \in TokenIds /\ publicKey[to] \in Keys /\ value \in Nat
  BY AddTokenIds, Conversions DEF ConvertFrom, IInv, IsUserRegistered, TokenTypes
<1>2. BalanceInv(balances[to][id]) /\ AddsUp(balances[to][id])
  BY <1>1 DEF IInv, AllBalancesInv, HistoryInv, AllAddUp
<1>3. AddsUp(c)
  BY <1>1, <1>2, ConvertCreditAddsUp
<1>4. balances' = balances \/ balances' = [balances EXCEPT ![to][id] = c]
  BY <1>1, ConvertWrites
<1> HIDE DEF c, id
<1>5. QED
  BY <1>1, <1>3, <1>4, WriteAddsUp DEF IInv, HistoryInv

LEMMA ProofHistory ==
    ASSUME HistoryInv, NEW p, LeavesRest(p), proofs' = proofs \cup {p}, balances' = balances
    PROVE  HistoryInv'
BY DEF HistoryInv

(* The client reads the balance from the PCTs, and the circuit holds it to *)
(* the ciphertext.                                                         *)
LEMMA ProveSpendHistory ==
    ASSUME IInv, HistoryInv, NEW kind, NEW u \in Users, NEW id \in TokenIds, NEW value,
           NEW senderAmount, NEW receiverAmount,
           ProveSpend(kind, u, id, value, senderAmount, receiverAmount)
    PROVE  HistoryInv'
<1> DEFINE b == balances[u][id]
           p == [kind |-> kind, senderKey |-> publicKey[u],
                 providedBalance |-> b.eGCT, senderAmount |-> senderAmount,
                 amount |-> value, balancePCT |-> TotalBalance(b) - value,
                 receiverAmount |-> receiverAmount, auditorKey |-> auditor.key]
<1>1. /\ IsUserRegistered(u) /\ CanDecryptBalance(b) /\ b.eGCT.key = publicKey[u]
      /\ proofs' = proofs \cup {p} /\ balances' = balances
  BY DEF ProveSpend, SenderStatement
<1>2. TotalBalance(b) = b.eGCT.v
  BY <1>1, KeysAssumption DEF CanDecryptBalance, NoCiphertext, IsUserRegistered
<1>3. LeavesRest(p)
  BY <1>2 DEF LeavesRest
<1> HIDE DEF p
<1>4. QED
  BY <1>1, <1>3, ProofHistory

LEMMA SpendHistory ==
    ASSUME IInv, HistoryInv, Depositors = {}, NEW kind \in {"transfer", "withdraw", "burn"},
           NEW from \in Users, NEW id \in TokenIds, NEW p, AcceptSpend(kind, from, id, p)
    PROVE  AddsUp(SpendBalance(from, id, p))
<1>1. p \in Spend /\ p \in proofs
  BY AcceptedSpend DEF AcceptSpend
<1>2. /\ p.senderAmount \in Ciphertext /\ p.balancePCT \in Int
      /\ p.balancePCT = p.providedBalance.v - p.senderAmount.v
  BY <1>1 DEF Spend, IInv, ProofsInv, ProofInv, HistoryInv, LeavesRest
<1>3. /\ BalanceInv(balances[from][id]) /\ AddsUp(balances[from][id])
      /\ IsBalanceValid(balances[from][id], p.providedBalance)
  BY DEF AcceptSpend, IInv, AllBalancesInv, HistoryInv, AllAddUp
<1>4. QED
  BY <1>2, <1>3, SpendAddsUp DEF SpendBalance

LEMMA TransferHistory ==
    ASSUME IInv, HistoryInv, Depositors = {}, NEW from \in Users, NEW to \in Users,
           NEW id \in TokenIds, NEW p, Transfer(from, to, id, p)
    PROVE  AllAddUp(balances')
<1> DEFINE sent == SpendBalance(from, id, p)
           burned == [balances EXCEPT ![from][id] = sent]
           received == AddToUserBalance(burned[to][id], p.receiverAmount, p.amount)
<1>1. AcceptSpend("transfer", from, id, p) /\ balances' = [burned EXCEPT ![to][id] = received]
  BY DEF Transfer, IInv, AllBalancesInv
<1>2. AddsUp(sent) /\ BalanceInv(sent) /\ p \in Spend /\ p \in proofs /\ p.kind = "transfer"
  BY <1>1, SpendHistory, AcceptedSpend DEF AcceptSpend
<1>3. p.receiverAmount \in Ciphertext /\ p.amount = p.receiverAmount.v
  BY <1>2 DEF Spend, IInv, ProofsInv, ProofInv
<1> HIDE DEF sent
<1>4. AllBalancesInv(burned) /\ AllAddUp(burned)
  BY <1>2, SetOneBalance, WriteAddsUp DEF IInv, HistoryInv
<1> HIDE DEF burned
<1>5. AddsUp(received)
  <2>1. BalanceInv(burned[to][id]) /\ AddsUp(burned[to][id])
    BY <1>4 DEF AllBalancesInv, AllAddUp
  <2>2. AddsUp(AddToUserBalance(burned[to][id], p.receiverAmount, p.receiverAmount.v))
    BY <1>3, <2>1, AddToUserBalanceAddsUp
  <2>3. QED
    BY <1>3, <2>2
<1> HIDE DEF received
<1>6. QED
  BY <1>1, <1>4, <1>5, WriteAddsUp

LEMMA MintHistory ==
    ASSUME IInv, HistoryInv, Depositors = {}, NEW to \in Users, NEW p \in proofs,
           PrivateMint(to, p)
    PROVE  AllAddUp(balances')
<1> DEFINE c == AddToUserBalance(balances[to][0], p.receiverAmount, p.amount)
<1>1. p \in Mint /\ 0 \in TokenIds
  BY MintBalance, TokensAssumption, FS_CardinalityType DEF TokenIds
<1>2. p.receiverAmount \in Ciphertext /\ p.amount = p.receiverAmount.v
  BY <1>1 DEF Mint, IInv, ProofsInv, ProofInv
<1>3. BalanceInv(balances[to][0]) /\ AddsUp(balances[to][0])
  BY <1>1 DEF IInv, AllBalancesInv, HistoryInv, AllAddUp
<1>4. AddsUp(c)
  <2>1. AddsUp(AddToUserBalance(balances[to][0], p.receiverAmount, p.receiverAmount.v))
    BY <1>2, <1>3, AddToUserBalanceAddsUp
  <2>2. QED
    BY <1>2, <2>1
<1>5. balances' = [balances EXCEPT ![to][0] = c]
  BY <1>1 DEF PrivateMint, IInv, AllBalancesInv
<1> HIDE DEF c
<1>6. QED
  BY <1>1, <1>4, <1>5, WriteAddsUp DEF IInv, HistoryInv

LEMMA StepHistory == IInv /\ MoreInv /\ HistoryInv /\ Next => HistoryInv'
<1> SUFFICES ASSUME IInv, MoreInv, HistoryInv, Next PROVE HistoryInv'
  OBVIOUS
<1>0. 0 \in TokenIds
  BY TokensAssumption, FS_CardinalityType DEF TokenIds
<1>1. CASE UNCHANGED <<balances, proofs>>
  BY <1>1 DEF HistoryInv
<1>2. CASE \/ \E u \in Users, key \in Keys : Register(u, key)
           \/ \E u \in Users : SetAuditorPublicKey(u)
           \/ \E t \in Tokens, blacklisted \in BOOLEAN : SetTokenBlacklist(t, blacklisted)
           \/ \E d \in Depositors, authorized \in BOOLEAN : SetAuthorizedDepositor(d, authorized)
  <2>1. UNCHANGED <<balances, proofs>>
    BY <1>2 DEF Register, SetAuditorPublicKey, SetTokenBlacklist, SetAuthorizedDepositor
  <2>2. QED
    BY <1>1, <2>1
<1>3. CASE \E u \in Users, t \in Tokens, amount \in Amounts : Deposit(u, t, amount)
  <2>1. PICK u \in Users, t \in Tokens, amount \in Amounts : Deposit(u, t, amount)
    BY <1>3
  <2>2. /\ amount \in Nat /\ IsUserRegistered(u) /\ ConvertFrom(u, t, amount, ConvertIn(t, amount))
        /\ proofs' = proofs
    BY <2>1, NumbersAssumption DEF Deposit, ExecuteDepositFrom
  <2>3. QED
    BY <2>2, DepositHistory DEF MoreInv
<1>4. CASE \E d \in Depositors, to \in Users, t \in Tokens, amount \in Amounts :
              \E amountPCT \in DepositorPCTs(t, amount) : DepositFor(d, to, t, amount, amountPCT)
  BY <1>4 DEF HistoryInv
<1>5. CASE \/ \E from, to \in Users, id \in TokenIds, value \in Amounts, r \in Randomness :
                  ProveTransfer(from, to, id, value, r)
           \/ \E from \in Users, id \in TokenIds, value \in Amounts : ProveWithdraw(from, id, value)
           \/ \E from \in Users, value \in Amounts, r \in Randomness : ProveBurn(from, value, r)
  BY <1>0, <1>5, ProveSpendHistory DEF ProveTransfer, ProveWithdraw, ProveBurn
<1>6. CASE \E to \in Users, value \in Amounts, r \in Randomness : ProveMint(to, value, r)
  <2>1. PICK to \in Users, value \in Amounts, r \in Randomness : ProveMint(to, value, r)
    BY <1>6
  <2> DEFINE p == [kind |-> "mint", amount |-> value, auditorKey |-> auditor.key,
                   receiverAmount |-> [key |-> publicKey[to], v |-> value, r |-> r],
                   nullifier |-> Cardinality(proofs)]
  <2>2. proofs' = proofs \cup {p} /\ balances' = balances
    BY <2>1 DEF ProveMint
  <2>3. LeavesRest(p)
    BY DEF LeavesRest, Spend
  <2> HIDE DEF p
  <2>4. QED
    BY <2>2, <2>3, ProofHistory
<1>7. CASE \E from, to \in Users, id \in TokenIds, p \in proofs : Transfer(from, to, id, p)
  <2>1. PICK from \in Users, to \in Users, id \in TokenIds, p \in proofs : Transfer(from, to, id, p)
    BY <1>7
  <2>2. proofs' = proofs
    BY <2>1 DEF Transfer
  <2>3. QED
    BY <2>1, <2>2, TransferHistory DEF HistoryInv
<1>8. ASSUME NEW kind \in {"withdraw", "burn"}, NEW from \in Users, NEW id \in TokenIds,
             NEW p \in proofs, AcceptSpend(kind, from, id, p), proofs' = proofs,
             balances' = [balances EXCEPT ![from][id] = SpendBalance(from, id, p)]
      PROVE  HistoryInv'
  <2> SUFFICES ASSUME Depositors = {} PROVE AllAddUp(balances')
    BY <1>8 DEF HistoryInv
  <2>1. AddsUp(SpendBalance(from, id, p))
    BY <1>8, SpendHistory
  <2>2. QED
    BY <1>8, <2>1, WriteAddsUp DEF IInv, HistoryInv
<1>9. CASE \E from \in Users, id \in TokenIds, p \in proofs : Withdraw(from, id, p)
  BY <1>8, <1>9 DEF Withdraw
<1>10. CASE \E from \in Users, p \in proofs : PrivateBurn(from, p)
  BY <1>0, <1>8, <1>10 DEF PrivateBurn
<1>11. CASE \E to \in Users, p \in proofs : PrivateMint(to, p)
  <2>1. PICK to \in Users, p \in proofs : PrivateMint(to, p)
    BY <1>11
  <2>2. proofs' = proofs
    BY <2>1 DEF PrivateMint
  <2>3. QED
    BY <2>1, <2>2, MintHistory DEF HistoryInv
<1>12. QED
  BY <1>2, <1>3, <1>4, <1>5, <1>6, <1>7, <1>9, <1>10, <1>11 DEF Next

LEMMA HistoryFollows == IInv /\ HistoryInv => HistoryAddsUp
<1> SUFFICES ASSUME IInv, HistoryInv, Depositors = {}
             PROVE  SnapshotsConsistent /\ ClientReadsBalance
  BY DEF HistoryAddsUp
<1> SUFFICES ASSUME NEW u \in Users, NEW id \in TokenIds
             PROVE  LET b == balances[u][id] IN
                    /\ \A h \in ValidHistory(b) :
                           h.ct.v = b.balancePCT + SumPCTs({p \in b.amountPCTs : p.index <= h.index})
                    /\ CanDecryptBalance(b)
  BY DEF SnapshotsConsistent, ClientReadsBalance
<1> DEFINE b == balances[u][id]
<1>1. AddsUp(b) /\ b.amountPCTs \in SUBSET AmountPCT /\ IsFiniteSet(b.amountPCTs)
  BY DEF HistoryInv, AllAddUp, IInv, AllBalancesInv, Balance, AddsUp
<1> HIDE DEF b
<1>2. CanDecryptBalance(b)
  <2>1. SumPCTs(b.amountPCTs) = SumOver(PctOf, b.amountPCTs)
    BY <1>1, PctsAre
  <2>2. QED
    BY <1>1, <2>1 DEF CanDecryptBalance, TotalBalance, AddsUp
<1>3. ASSUME NEW h \in ValidHistory(b)
      PROVE  h.ct.v = b.balancePCT + SumPCTs({p \in b.amountPCTs : p.index <= h.index})
  <2> DEFINE S == {p \in b.amountPCTs : p.index <= h.index}
  <2>1. S \in SUBSET AmountPCT /\ IsFiniteSet(S) /\ S = UpTo(b.amountPCTs, h.index)
    BY <1>1, FS_Subset DEF UpTo
  <2> HIDE DEF S
  <2>2. SumPCTs(S) = SumOver(PctOf, S)
    BY <2>1, PctsAre
  <2>3. QED
    BY <1>1, <2>1, <2>2 DEF AddsUp, S
<1>4. QED
  BY <1>2, <1>3 DEF b

(* Without depositors on behalf, an account's history adds up: each        *)
(* snapshot that can be spent against decrypts to the balance PCT and the  *)
(* amount PCTs up to it, and all of them to the balance, so that the owner *)
(* can always read and spend it.                                           *)
THEOREM HistoriesAddUp == Spec => []HistoryAddsUp
<1>1. Init => IInv /\ MoreInv /\ HistoryInv
  <2> SUFFICES ASSUME Init PROVE HistoryInv
    BY InitInv, MoreInit
  <2>1. \A u \in Users, id \in TokenIds : balances[u][id] = EmptyBalance
    BY DEF Init
  <2>2. QED
    BY <2>1, EmptyAddsUp DEF Init, HistoryInv, AllAddUp
<1>2. (IInv /\ MoreInv /\ HistoryInv) /\ [Next]_vars => (IInv /\ MoreInv /\ HistoryInv)'
  <2> SUFFICES ASSUME IInv, MoreInv, HistoryInv, [Next]_vars
               PROVE  IInv' /\ MoreInv' /\ HistoryInv'
    OBVIOUS
  <2>1. IInv'
    BY NextInv
  <2>2. CASE Next
    BY <2>1, <2>2, StepMore, StepHistory
  <2>3. CASE UNCHANGED vars
    BY <2>1, <2>3, UnchangedMore DEF vars, HistoryInv
  <2>4. QED
    BY <2>2, <2>3
<1>3. IInv /\ HistoryInv => HistoryAddsUp
  BY HistoryFollows
<1>4. QED
  BY <1>1, <1>2, <1>3, PTL DEF Spec
-----------------------------------------------------------------------------
(* Gifts.                                                                  *)

(* A private gift is of a token the eERC knows, and keeps its id.          *)
GiftInv ==
    /\ gifts \in [Escrows -> Seq(GiftRecords)]
    /\ held \in [Escrows -> [Tokens -> Nat]]
    /\ plan.gifts \in Nat
    /\ \A n \in 1 .. Len(gifts["private"]) : tokenIds[gifts["private"][n].token] # 0

LEMMA GiftIs ==
    ASSUME GiftInv, NEW g \in Gifts
    PROVE  /\ g[1] \in Escrows /\ g[2] \in 1 .. Len(gifts[g[1]]) /\ g = <<g[1], g[2]>>
           /\ g[2] \in 1 .. plan.gifts
           /\ Gift(g) \in GiftRecords
<1>1. g \in Escrows \X (1 .. plan.gifts) /\ g[2] <= Len(gifts[g[1]])
  BY DEF Gifts
<1>2. g[1] \in Escrows /\ g[2] \in 1 .. plan.gifts /\ g = <<g[1], g[2]>>
  BY <1>1
<1>3. gifts[g[1]] \in Seq(GiftRecords)
  BY <1>2 DEF GiftInv
<1>4. Len(gifts[g[1]]) \in Nat
  BY <1>3
<1>5. g[2] \in 1 .. Len(gifts[g[1]])
  BY <1>1, <1>2, <1>4 DEF GiftInv
<1>6. QED
  BY <1>2, <1>3, <1>5 DEF Gift

LEMMA SetOneOfSeq ==
    ASSUME NEW S, NEW s \in Seq(S), NEW n \in 1 .. Len(s), NEW x \in S
    PROVE  /\ [s EXCEPT ![n] = x] \in Seq(S)
           /\ Len([s EXCEPT ![n] = x]) = Len(s)
           /\ [s EXCEPT ![n] = x][n] = x
           /\ \A k \in 1 .. Len(s) : k # n => [s EXCEPT ![n] = x][k] = s[k]
OBVIOUS

(* Settling changes one gift's status and recipient and nothing else.      *)
LEMMA SettleIs ==
    ASSUME GiftInv, NEW g \in Gifts, NEW status \in {"Claimed", "Refunded"},
           NEW recipient \in Users \cup {NoAddress}, Settle(g, status, recipient)
    PROVE  /\ gifts' \in [Escrows -> Seq(GiftRecords)]
           /\ \A e \in Escrows : Len(gifts'[e]) = Len(gifts[e])
           /\ gifts'[g[1]][g[2]] = [Gift(g) EXCEPT !.status = status, !.recipient = recipient]
           /\ gifts'[g[1]][g[2]].status = status
           /\ \A e \in Escrows : \A n \in 1 .. Len(gifts[e]) :
                  e # g[1] \/ n # g[2] => gifts'[e][n] = gifts[e][n]
           /\ \A e \in Escrows : \A n \in 1 .. Len(gifts[e]) :
                  gifts'[e][n].token = gifts[e][n].token
<1> DEFINE e == g[1]
           n == g[2]
           r == [Gift(g) EXCEPT !.status = status, !.recipient = recipient]
           s == [gifts[e] EXCEPT ![n] = r]
<1>1. e \in Escrows /\ n \in 1 .. Len(gifts[e]) /\ gifts[e][n] \in GiftRecords
      /\ gifts \in [Escrows -> Seq(GiftRecords)]
  BY GiftIs DEF Gift, GiftInv
<1>2. r \in GiftRecords /\ r.token = gifts[e][n].token /\ r.status = status
  BY <1>1 DEF GiftRecords, Gift
<1>3. gifts' = [gifts EXCEPT ![e] = s]
  BY <1>1 DEF Settle, Gift, GiftRecords
<1> HIDE DEF r
<1>4. /\ s \in Seq(GiftRecords) /\ Len(s) = Len(gifts[e]) /\ s[n] = r
      /\ \A k \in 1 .. Len(gifts[e]) : k # n => s[k] = gifts[e][k]
  BY <1>1, <1>2, SetOneOfSeq
<1> HIDE DEF s
<1>5. gifts'[e] = s /\ \A f \in Escrows : f # e => gifts'[f] = gifts[f]
  BY <1>1, <1>3
<1>6. gifts' \in [Escrows -> Seq(GiftRecords)]
  BY <1>1, <1>3, <1>4
<1>7. \A f \in Escrows : Len(gifts'[f]) = Len(gifts[f])
  BY <1>4, <1>5
<1>8. \A f \in Escrows : \A k \in 1 .. Len(gifts[f]) :
          f # e \/ k # n => gifts'[f][k] = gifts[f][k]
  BY <1>4, <1>5
<1>9. gifts'[e][n] = r
  BY <1>4, <1>5
<1>10. \A f \in Escrows : \A k \in 1 .. Len(gifts[f]) : gifts'[f][k].token = gifts[f][k].token
  BY <1>2, <1>8, <1>9
<1>11. gifts'[e][n].status = status
  BY <1>2, <1>9
<1>12. QED
  BY <1>6, <1>7, <1>8, <1>9, <1>10, <1>11 DEF r

(* A new gift is the last of its escrow.                                   *)
LEMMA CreateIs ==
    ASSUME GiftInv, NEW e \in Escrows, NEW sender \in Users, NEW claimAddress \in LinkKeys,
           NEW t \in Tokens, NEW amount \in Nat, NEW expiry \in Int,
           CreateGift(e, sender, claimAddress, t, amount, expiry)
    PROVE  /\ gifts' \in [Escrows -> Seq(GiftRecords)]
           /\ Len(gifts'[e]) = Len(gifts[e]) + 1
           /\ \A f \in Escrows : f # e => gifts'[f] = gifts[f]
           /\ \A n \in 1 .. Len(gifts[e]) : gifts'[e][n] = gifts[e][n]
           /\ gifts'[e][Len(gifts[e]) + 1] =
                  [sender |-> sender, claimAddress |-> claimAddress, token |-> t,
                   recipient |-> NoAddress, amount |-> amount, expiry |-> expiry,
                   status |-> "Created"]
<1> DEFINE r == [sender |-> sender, claimAddress |-> claimAddress, token |-> t,
                 recipient |-> NoAddress, amount |-> amount, expiry |-> expiry,
                 status |-> "Created"]
<1>1. gifts \in [Escrows -> Seq(GiftRecords)] /\ gifts[e] \in Seq(GiftRecords)
  BY DEF GiftInv
<1>2. r \in GiftRecords
  BY DEF GiftRecords
<1>3. gifts' = [gifts EXCEPT ![e] = Append(gifts[e], r)]
  BY DEF CreateGift
<1> HIDE DEF r
<1>4. /\ Append(gifts[e], r) \in Seq(GiftRecords)
      /\ Len(Append(gifts[e], r)) = Len(gifts[e]) + 1
      /\ Append(gifts[e], r)[Len(gifts[e]) + 1] = r
      /\ \A n \in 1 .. Len(gifts[e]) : Append(gifts[e], r)[n] = gifts[e][n]
  BY <1>1, <1>2
<1>5. gifts'[e] = Append(gifts[e], r) /\ \A f \in Escrows : f # e => gifts'[f] = gifts[f]
  BY <1>1, <1>3
<1>6. gifts' \in [Escrows -> Seq(GiftRecords)]
  BY <1>1, <1>3, <1>4
<1>7. QED
  BY <1>4, <1>5, <1>6 DEF r

(* No token loses its id.                                                  *)
LEMMA StepIds ==
    ASSUME IInv, IdsInv, Next, NEW t \in Tokens, tokenIds[t] # 0
    PROVE  tokenIds'[t] # 0
<1>1. ASSUME NEW s \in Tokens, AddTokenIfNew(s) PROVE tokenIds'[t] # 0
  BY <1>1, AddTokenIds
<1>2. ASSUME NEW payer, NEW to, NEW s \in Tokens, NEW amount, NEW amountPCT,
             ExecuteDepositFrom(payer, to, s, amount, amountPCT)
      PROVE  tokenIds'[t] # 0
  BY <1>1, <1>2 DEF ExecuteDepositFrom, ConvertFrom
<1>3. UNCHANGED tokenIds => tokenIds'[t] # 0
  OBVIOUS
<1>4. CASE \/ \E u \in Users, s \in Tokens, amount \in Amounts : Deposit(u, s, amount)
           \/ \E d \in Depositors, to \in Users, s \in Tokens, amount \in Amounts :
                  \E amountPCT \in DepositorPCTs(s, amount) : DepositFor(d, to, s, amount, amountPCT)
  BY <1>2, <1>4 DEF Deposit, DepositFor
<1>5. CASE \/ \E u \in Users, key \in Keys : Register(u, key)
           \/ \E u \in Users : SetAuditorPublicKey(u)
           \/ \E s \in Tokens, blacklisted \in BOOLEAN : SetTokenBlacklist(s, blacklisted)
           \/ \E d \in Depositors, authorized \in BOOLEAN : SetAuthorizedDepositor(d, authorized)
  BY <1>3, <1>5 DEF Register, SetAuditorPublicKey, SetTokenBlacklist, SetAuthorizedDepositor,
                    trackerVars
<1>6. CASE \/ \E from, to \in Users, id \in TokenIds, value \in Amounts, r \in Randomness :
                  ProveTransfer(from, to, id, value, r)
           \/ \E from \in Users, id \in TokenIds, value \in Amounts : ProveWithdraw(from, id, value)
           \/ \E from \in Users, value \in Amounts, r \in Randomness : ProveBurn(from, value, r)
           \/ \E to \in Users, value \in Amounts, r \in Randomness : ProveMint(to, value, r)
  <2>1. ASSUME NEW kind, NEW u, NEW id, NEW value, NEW senderAmount, NEW receiverAmount,
               ProveSpend(kind, u, id, value, senderAmount, receiverAmount)
        PROVE  UNCHANGED tokenIds
    BY <2>1 DEF ProveSpend, trackerVars
  <2>2. ASSUME NEW to, NEW value, NEW r, ProveMint(to, value, r) PROVE UNCHANGED tokenIds
    BY <2>2 DEF ProveMint, trackerVars
  <2>3. QED
    BY <1>3, <1>6, <2>1, <2>2 DEF ProveTransfer, ProveWithdraw, ProveBurn
<1>7. CASE \/ \E from, to \in Users, id \in TokenIds, p \in proofs : Transfer(from, to, id, p)
           \/ \E from \in Users, id \in TokenIds, p \in proofs : Withdraw(from, id, p)
           \/ \E from \in Users, p \in proofs : PrivateBurn(from, p)
           \/ \E to \in Users, p \in proofs : PrivateMint(to, p)
  BY <1>3, <1>7 DEF Transfer, Withdraw, PrivateBurn, PrivateMint, trackerVars
<1>8. QED
  BY <1>4, <1>5, <1>6, <1>7 DEF Next
-----------------------------------------------------------------------------
(* A gift's money moves between wallets, the escrow and the reserve.       *)

GiftedInv == IInv /\ MoreInv /\ GiftInv

(* Steps of a gift that only move plain tokens.                            *)
LEMMA WalletSteps ==
    ASSUME GiftedInv, wallet' \in [Payers -> [Tokens -> Nat]],
           UNCHANGED <<tokenOnlyVars, trackerVars, balances, reserve>>
    PROVE  IInv' /\ MoreInv'
<1>1. UNCHANGED <<isConverter, publicKey, isRegistered, auditor, tokenIds, tokenAddresses,
                  nextTokenId, blacklistedTokens, balances, alreadyMinted, reserve, proofs, audited>>
  BY DEF tokenOnlyVars, registrarVars, trackerVars
<1>2. IInv'
  BY <1>1 DEF GiftedInv, IInv, TokenTypes, TokensCounted, ProofsInv, AllBalancesInv
<1>3. MoreInv'
  BY <1>1, UnchangedMore DEF GiftedInv
<1>4. QED
  BY <1>2, <1>3

LEMMA CreateGifted ==
    ASSUME GiftedInv, plan' = plan, NEW e \in Escrows, NEW sender \in Users,
           NEW claimAddress \in LinkKeys,
           NEW t \in Tokens, NEW amount \in Nat, NEW expiry \in Int,
           CreateGift(e, sender, claimAddress, t, amount, expiry)
    PROVE  GiftedInv'
<1>1. /\ IF e = "public" THEN t = GiftToken ELSE tokenIds[t] # 0
      /\ wallet[sender][t] >= amount
      /\ wallet' = [wallet EXCEPT ![sender][t] = @ - amount]
      /\ held' = [held EXCEPT ![e][t] = @ + amount]
      /\ UNCHANGED <<tokenOnlyVars, trackerVars, balances, reserve>>
  BY DEF CreateGift
<1>2. wallet \in [Payers -> [Tokens -> Nat]] /\ sender \in Payers
  BY DEF GiftedInv, IInv, TokenTypes, Payers
<1>3. wallet' \in [Payers -> [Tokens -> Nat]]
  <2>1. wallet[sender][t] - amount \in Nat
    BY <1>1, <1>2
  <2>2. QED
    BY <1>1, <1>2, <2>1
<1>4. IInv' /\ MoreInv'
  BY <1>1, <1>3, WalletSteps
<1>5. /\ gifts' \in [Escrows -> Seq(GiftRecords)]
      /\ Len(gifts'[e]) = Len(gifts[e]) + 1
      /\ \A f \in Escrows : f # e => gifts'[f] = gifts[f]
      /\ \A n \in 1 .. Len(gifts[e]) : gifts'[e][n] = gifts[e][n]
      /\ gifts'[e][Len(gifts[e]) + 1].token = t
  <2>1. GiftInv
    BY DEF GiftedInv
  <2>2. gifts'[e][Len(gifts[e]) + 1] =
            [sender |-> sender, claimAddress |-> claimAddress, token |-> t,
             recipient |-> NoAddress, amount |-> amount, expiry |-> expiry, status |-> "Created"]
    BY <2>1, CreateIs
  <2>3. gifts'[e][Len(gifts[e]) + 1].token = t
    BY <2>2
  <2>4. QED
    BY <2>1, <2>3, CreateIs
<1>6. held' \in [Escrows -> [Tokens -> Nat]]
  BY <1>1 DEF GiftedInv, GiftInv
<1>7. tokenIds' = tokenIds /\ "private" \in Escrows /\ gifts["private"] \in Seq(GiftRecords)
      /\ \A n \in 1 .. Len(gifts["private"]) : tokenIds[gifts["private"][n].token] # 0
  BY <1>1 DEF trackerVars, Escrows, GiftedInv, GiftInv
<1>8. \A n \in 1 .. Len(gifts'["private"]) : tokenIds[gifts'["private"][n].token] # 0
  <2>1. CASE e = "private"
    <3>1. \A n \in 1 .. Len(gifts'["private"]) :
              n \in 1 .. Len(gifts["private"]) \/ n = Len(gifts["private"]) + 1
      BY <1>5, <1>7, <2>1
    <3>2. QED
      BY <1>1, <1>5, <1>7, <2>1, <3>1
  <2>2. CASE e # "private"
    BY <1>5, <1>7, <2>2
  <2>3. QED
    BY <2>1, <2>2
<1>9. QED
  BY <1>4, <1>5, <1>6, <1>7, <1>8 DEF GiftedInv, GiftInv

(* What is paid out of an escrow was in it.                                *)
LEMMA SettleGifted ==
    ASSUME GiftedInv, plan' = plan, NEW g \in Gifts, NEW status \in {"Claimed", "Refunded"},
           NEW recipient \in Users \cup {NoAddress}, Settle(g, status, recipient),
           \A n \in 1 .. Len(gifts["private"]) : tokenIds'[gifts["private"][n].token] # 0,
           held' \in [Escrows -> [Tokens -> Nat]]
    PROVE  GiftInv'
<1>1. /\ gifts' \in [Escrows -> Seq(GiftRecords)]
      /\ \A e \in Escrows : Len(gifts'[e]) = Len(gifts[e])
      /\ \A e \in Escrows : \A n \in 1 .. Len(gifts[e]) : gifts'[e][n].token = gifts[e][n].token
  BY SettleIs DEF GiftedInv
<1>2. "private" \in Escrows
  BY DEF Escrows
<1>3. \A n \in 1 .. Len(gifts'["private"]) : tokenIds'[gifts'["private"][n].token] # 0
  BY <1>1, <1>2
<1>4. QED
  BY <1>1, <1>3 DEF GiftedInv, GiftInv

LEMMA TakeHeld ==
    ASSUME GiftInv, NEW e \in Escrows, NEW t \in Tokens, NEW amount \in Nat, held[e][t] >= amount,
           held' = [held EXCEPT ![e][t] = @ - amount]
    PROVE  held' \in [Escrows -> [Tokens -> Nat]]
<1>1. held[e][t] - amount \in Nat
  BY DEF GiftInv
<1>2. QED
  BY <1>1 DEF GiftInv

LEMMA PayWallet ==
    ASSUME IInv, NEW u \in Users, NEW t \in Tokens, NEW amount \in Nat,
           wallet' = [wallet EXCEPT ![u][t] = @ + amount]
    PROVE  wallet' \in [Payers -> [Tokens -> Nat]]
BY DEF IInv, TokenTypes, Payers

LEMMA ClaimPublicGifted ==
    ASSUME GiftedInv, plan' = plan, NEW g \in Gifts, NEW recipient \in Users, NEW s,
           ClaimPublic(g, recipient, s)
    PROVE  GiftedInv'
<1> DEFINE t == Gift(g).token
           amount == Gift(g).amount
<1>1. /\ Settle(g, "Claimed", recipient)
      /\ held["public"][t] >= amount
      /\ held' = [held EXCEPT !["public"][t] = @ - amount]
      /\ wallet' = [wallet EXCEPT ![recipient][t] = @ + amount]
      /\ UNCHANGED <<tokenOnlyVars, trackerVars, balances, reserve>>
  BY DEF ClaimPublic, Claimable, InEscrow
<1>2. t \in Tokens /\ amount \in Nat /\ "public" \in Escrows
  BY GiftIs DEF GiftedInv, GiftRecords, Escrows
<1> HIDE DEF t, amount
<1>3. IInv' /\ MoreInv'
  <2>1. wallet' \in [Payers -> [Tokens -> Nat]]
    BY <1>1, <1>2, PayWallet DEF GiftedInv
  <2>2. QED
    BY <1>1, <2>1, WalletSteps
<1>4. GiftInv'
  <2>1. held' \in [Escrows -> [Tokens -> Nat]]
    BY <1>1, <1>2, TakeHeld DEF GiftedInv
  <2>2. \A n \in 1 .. Len(gifts["private"]) : tokenIds'[gifts["private"][n].token] # 0
    BY <1>1 DEF GiftedInv, GiftInv, trackerVars
  <2>3. QED
    BY <1>1, <2>1, <2>2, SettleGifted
<1>5. QED
  BY <1>3, <1>4 DEF GiftedInv

LEMMA RefundGifted ==
    ASSUME GiftedInv, plan' = plan, NEW g \in Gifts, Refund(g)
    PROVE  GiftedInv'
<1> DEFINE t == Gift(g).token
           amount == Gift(g).amount
           sender == Gift(g).sender
<1>1. /\ Settle(g, "Refunded", Gift(g).recipient)
      /\ held[g[1]][t] >= amount
      /\ held' = [held EXCEPT ![g[1]][t] = @ - amount]
      /\ wallet' = [wallet EXCEPT ![sender][t] = @ + amount]
      /\ UNCHANGED <<tokenOnlyVars, trackerVars, balances, reserve>>
  BY DEF Refund, Refundable, InEscrow
<1>2. /\ t \in Tokens /\ amount \in Nat /\ sender \in Users /\ g[1] \in Escrows
      /\ Gift(g).recipient \in Users \cup {NoAddress}
  BY GiftIs DEF GiftedInv, GiftRecords
<1> HIDE DEF t, amount, sender
<1>3. IInv' /\ MoreInv'
  <2>1. wallet' \in [Payers -> [Tokens -> Nat]]
    BY <1>1, <1>2, PayWallet DEF GiftedInv
  <2>2. QED
    BY <1>1, <2>1, WalletSteps
<1>4. GiftInv'
  <2>1. held' \in [Escrows -> [Tokens -> Nat]]
    BY <1>1, <1>2, TakeHeld DEF GiftedInv
  <2>2. \A n \in 1 .. Len(gifts["private"]) : tokenIds'[gifts["private"][n].token] # 0
    BY <1>1 DEF GiftedInv, GiftInv, trackerVars
  <2>3. QED
    BY <1>1, <1>2, <2>1, <2>2, SettleGifted
<1>5. QED
  BY <1>3, <1>4 DEF GiftedInv

(* What goes into the history is a number.                                 *)
LEMMA PCTIsNumber ==
    ASSUME GiftInv, NEW g \in Gifts, NEW amountPCT \in ClaimPCTs(g)
    PROVE  amountPCT \in Int
<1>1. Gift(g).token \in Tokens /\ Gift(g).amount \in Nat
  BY GiftIs DEF GiftRecords
<1>2. ConvertIn(Gift(g).token, Gift(g).amount) \in Nat
  BY <1>1, Conversions
<1>3. QED
  BY <1>2 DEF ClaimPCTs, DepositorPCTs

LEMMA ClaimPrivateGifted ==
    ASSUME GiftedInv, plan' = plan, NEW g \in Gifts, NEW recipient \in Users, NEW s,
           NEW amountPCT \in ClaimPCTs(g), ClaimPrivate(g, recipient, amountPCT, s)
    PROVE  GiftedInv'
<1> DEFINE t == Gift(g).token
           amount == Gift(g).amount
           sender == Gift(g).sender
           dust == Dust(t, amount)
<1>1. /\ Settle(g, "Claimed", recipient)
      /\ isConverter /\ IsUserRegistered(recipient)
      /\ held["private"][t] >= amount
      /\ ConvertFrom(recipient, t, amount, amountPCT)
      /\ reserve' = [reserve EXCEPT ![t] = @ + (amount - dust)]
      /\ held' = [held EXCEPT !["private"][t] = @ - (amount - dust) - dust]
      /\ wallet' = [wallet EXCEPT ![sender][t] = @ + dust]
      /\ UNCHANGED tokenOnlyVars
  BY DEF ClaimPrivate, Claimable, InEscrow, DepositAccepted, ReturnDust
<1>2. /\ t \in Tokens /\ amount \in Nat /\ sender \in Users /\ "private" \in Escrows
      /\ amountPCT \in Int
  BY GiftIs, PCTIsNumber DEF GiftedInv, GiftRecords, Escrows
<1>3. dust \in Nat /\ dust <= amount
  BY <1>2, Conversions
<1>4. wallet' \in [Payers -> [Tokens -> Nat]]
  <2> HIDE DEF t, amount, sender, dust
  <2>1. QED
    BY <1>1, <1>2, <1>3, PayWallet DEF GiftedInv
<1>5. UNCHANGED <<publicKey, isRegistered, isConverter, auditor, blacklistedTokens,
                  alreadyMinted, proofs, audited>>
  BY <1>1 DEF tokenOnlyVars, registrarVars
<1>6. IInv' /\ MoreInv'
  <2> HIDE DEF t, amount, sender
  <2>1. IInv'
    BY <1>1, <1>2, <1>4, <1>5, ConvertInv DEF GiftedInv
  <2>2. MoreInv'
    BY <1>1, <1>2, <1>5, ConvertMore DEF GiftedInv
  <2>3. QED
    BY <2>1, <2>2
<1>7. held' \in [Escrows -> [Tokens -> Nat]]
  <2> HIDE DEF t, amount, sender, dust
  <2>1. held[ "private"][t] \in Nat /\ held[ "private"][t] - (amount - dust) - dust \in Nat
    BY <1>1, <1>2, <1>3 DEF GiftedInv, GiftInv
  <2>2. QED
    BY <1>1, <1>2, <2>1 DEF GiftedInv, GiftInv
<1>8. \A n \in 1 .. Len(gifts["private"]) : tokenIds'[gifts["private"][n].token] # 0
  <2>1. AddTokenIfNew(t) /\ IInv /\ IdsInv
    BY <1>1 DEF ConvertFrom, GiftedInv, MoreInv
  <2> HIDE DEF t
  <2>2. \A k \in Tokens : tokenIds[k] # 0 => tokenIds'[k] # 0
    BY <1>2, <2>1, AddTokenIds
  <2>3. "private" \in Escrows /\ gifts["private"] \in Seq(GiftRecords)
    BY DEF GiftedInv, GiftInv, Escrows
  <2>4. \A n \in 1 .. Len(gifts["private"]) : gifts["private"][n] \in GiftRecords
    BY <2>3
  <2>5. \A n \in 1 .. Len(gifts["private"]) : gifts["private"][n].token \in Tokens
    BY <2>4 DEF GiftRecords
  <2>6. QED
    BY <2>2, <2>5 DEF GiftedInv, GiftInv
<1>9. GiftInv'
  BY <1>1, <1>7, <1>8, SettleGifted
<1>10. QED
  BY <1>6, <1>9 DEF GiftedInv
-----------------------------------------------------------------------------
LEMMA GiftedInit == GiftInit => GiftedInv
<1> SUFFICES ASSUME GiftInit PROVE GiftedInv
  OBVIOUS
<1>1. IInv /\ MoreInv
  BY InitInv, MoreInit DEF GiftInit
<1>2. /\ gifts = [e \in Escrows |-> <<>>] /\ held = [e \in Escrows |-> [t \in Tokens |-> 0]]
      /\ plan.gifts \in Nat
  BY GiftAssumption DEF GiftInit
<1>3. gifts["private"] = <<>>
  BY <1>2 DEF Escrows
<1>4. GiftInv
  BY <1>2, <1>3 DEF GiftInv
<1>5. QED
  BY <1>1, <1>4 DEF GiftedInv

LEMMA QuietGifted ==
    ASSUME GiftedInv, UNCHANGED <<vars, gifts, held, plan>>
    PROVE  GiftedInv'
<1>1. IInv'
  BY UnchangedInv DEF GiftedInv
<1>2. MoreInv'
  BY UnchangedMore DEF GiftedInv, vars
<1>3. GiftInv'
  BY DEF GiftedInv, GiftInv, vars
<1>4. QED
  BY <1>1, <1>2, <1>3 DEF GiftedInv

LEMMA TokenGifted ==
    ASSUME GiftedInv, plan' = plan, TokenStep
    PROVE  GiftedInv'
<1>1. gifts' = gifts /\ held' = held
  BY DEF TokenStep, giftVars
<1>2. CASE Next
  <2>1. IInv' /\ MoreInv'
    BY <1>2, NextInv, StepMore DEF GiftedInv
  <2>2. "private" \in Escrows /\ gifts["private"] \in Seq(GiftRecords)
    BY DEF GiftedInv, GiftInv, Escrows
  <2>3. \A n \in 1 .. Len(gifts["private"]) : gifts["private"][n] \in GiftRecords
    BY <2>2
  <2>4. \A n \in 1 .. Len(gifts["private"]) : tokenIds'[gifts["private"][n].token] # 0
    BY <1>2, <2>3, StepIds DEF GiftedInv, GiftInv, MoreInv, GiftRecords
  <2>5. GiftInv'
    BY <1>1, <2>4 DEF GiftedInv, GiftInv
  <2>6. QED
    BY <2>1, <2>5 DEF GiftedInv
<1>3. CASE \E authorized \in BOOLEAN : SetAuthorizedDepositor(PrivateEscrow, authorized)
  <2>1. IInv' /\ MoreInv'
    BY <1>3, AdminInv, SettingsMore DEF GiftedInv
  <2>2. tokenIds' = tokenIds
    BY <1>3 DEF SetAuthorizedDepositor, trackerVars
  <2>3. GiftInv'
    BY <1>1, <2>2 DEF GiftedInv, GiftInv
  <2>4. QED
    BY <2>1, <2>3 DEF GiftedInv
<1>4. QED
  BY <1>2, <1>3 DEF TokenStep

LEMMA GiftedStep == GiftedInv /\ [GiftNext]_allVars => GiftedInv'
<1> SUFFICES ASSUME GiftedInv, [GiftNext]_allVars PROVE GiftedInv'
  OBVIOUS
<1>1. CASE UNCHANGED allVars
  BY <1>1, QuietGifted DEF allVars, giftVars
<1>2. CASE plan' = plan /\ TokenStep
  BY <1>2, TokenGifted
<1>3. ASSUME plan' = plan, GiftStep PROVE GiftedInv'
  <2>1. CASE \E e \in Escrows, sender \in Users, key \in LinkKeys, t \in Tokens, amount \in Amounts :
                 \E expiry \in 1 .. MaxTime : CreateGift(e, sender, key, t, amount, expiry)
    <3>1. Amounts \subseteq Nat /\ \A expiry \in 1 .. MaxTime : expiry \in Int
      BY NumbersAssumption
    <3>2. QED
      BY <1>3, <2>1, <3>1, CreateGifted
  <2>2. CASE \E g \in Gifts, recipient \in Users : \E amountPCT \in ClaimPCTs(g) :
                 SignClaim(g, recipient, amountPCT)
    BY <1>3, <2>2, QuietGifted DEF SignClaim
  <2>3. CASE \E g \in Gifts, recipient \in Users : \E s \in signed : ClaimPublic(g, recipient, s)
    BY <1>3, <2>3, ClaimPublicGifted
  <2>4. CASE \E g \in Gifts, recipient \in Users : \E s \in signed, amountPCT \in ClaimPCTs(g) :
                 ClaimPrivate(g, recipient, amountPCT, s)
    BY <1>3, <2>4, ClaimPrivateGifted
  <2>5. CASE \E g \in Gifts : Refund(g)
    BY <1>3, <2>5, RefundGifted
  <2>6. CASE Tick
    BY <1>3, <2>6, QuietGifted DEF Tick
  <2>7. QED
    BY <1>3, <2>1, <2>2, <2>3, <2>4, <2>5, <2>6 DEF GiftStep
<1>4. QED
  BY <1>1, <1>2, <1>3 DEF GiftNext

LEMMA GiftedInvariance == GiftSpec => []GiftedInv
<1>1. GiftInit => GiftedInv
  BY GiftedInit
<1>2. GiftedInv /\ [GiftNext]_allVars => GiftedInv'
  BY GiftedStep
<1>3. QED
  BY <1>1, <1>2, PTL DEF GiftSpec

(* The same with gifts going in and out of the token.                      *)
THEOREM GiftsKeepTokenSound == GiftSpec => [](KeysReadable /\ Redeemable)
<1>1. GiftedInv => KeysReadable /\ Redeemable
  BY KeysFollow, RedeemableFollows DEF GiftedInv
<1>2. QED
  BY <1>1, GiftedInvariance, PTL
-----------------------------------------------------------------------------
(* Claims.                                                                 *)

(* A gift becomes claimed only by a claim of that gift.                    *)
ClaimedAsSigned(g) ==
    LET claimed == gifts'[g[1]][g[2]] IN
    claimed.status = "Claimed" =>
        \E s \in signed :
            /\ s.of = g /\ s.key = claimed.claimAddress
            /\ s.recipient = claimed.recipient
            /\ g[1] = "private" =>
                  LET id == tokenIds[claimed.token]
                      b == balances[claimed.recipient][id] IN
                  balances'[claimed.recipient][id].amountPCTs = b.amountPCTs \cup
                      {[pct |-> s.amountPCT, index |-> b.transactionIndex]}

LEMMA AcceptedClaim ==
    ASSUME GiftInv, NEW g \in Gifts, NEW recipient \in Users, NEW amountPCT, NEW s,
           Claimable(g, recipient, amountPCT, s), Settle(g, "Claimed", recipient)
    PROVE  /\ s \in signed /\ s.of = g /\ s.recipient = recipient /\ s.amountPCT = amountPCT
           /\ gifts'[g[1]][g[2]].recipient = recipient
           /\ gifts'[g[1]][g[2]].claimAddress = s.key
           /\ gifts'[g[1]][g[2]].token = Gift(g).token
<1>1. s \in signed /\ s.of = g /\ s.recipient = recipient /\ s.amountPCT = amountPCT
      /\ s.key = Gift(g).claimAddress
  BY DEF Claimable, claimDigest
<1>2. gifts'[g[1]][g[2]] = [Gift(g) EXCEPT !.status = "Claimed", !.recipient = recipient]
  BY SettleIs
<1>3. Gift(g) \in GiftRecords
  BY GiftIs
<1>4. QED
  BY <1>1, <1>2, <1>3 DEF GiftRecords

(* The credit of a claim records the PCT that was signed.                  *)
LEMMA ClaimRecords ==
    ASSUME GiftedInv, NEW g \in Gifts, NEW recipient \in Users, NEW s,
           NEW amountPCT \in ClaimPCTs(g), ClaimPrivate(g, recipient, amountPCT, s)
    PROVE  LET id == tokenIds[Gift(g).token]
               b == balances[recipient][id]
           IN  balances'[recipient][id].amountPCTs = b.amountPCTs \cup
                   {[pct |-> amountPCT, index |-> b.transactionIndex]}
<1> DEFINE t == Gift(g).token
           amount == Gift(g).amount
           id == tokenIds'[t]
           b == balances[recipient][id]
           value == ConvertIn(t, amount)
           c == ConvertCredit(b, publicKey[recipient], value, amountPCT)
<1>1. /\ IsUserRegistered(recipient) /\ ConvertFrom(recipient, t, amount, amountPCT)
      /\ amount # Dust(t, amount) /\ g[1] = "private"
  BY DEF ClaimPrivate, Claimable, DepositAccepted, ReturnDust
<1>2. /\ t \in Tokens /\ amount \in Nat /\ amountPCT \in Int /\ tokenIds[t] # 0
      /\ IInv /\ IdsInv
  BY <1>1, GiftIs, PCTIsNumber DEF GiftedInv, MoreInv, GiftRecords, GiftInv, Gift
<1>3. id = tokenIds[t] /\ id \in TokenIds
  BY <1>1, <1>2, AddTokenIds DEF ConvertFrom
<1>4. value # 0 /\ value \in Nat
  <2>1. DownScale[t] \in Nat \ {0} /\ UpScale[t] \in Nat \ {0}
    BY <1>2, TokensAssumption
  <2> DEFINE q == amount \div DownScale[t]
             w == UpScale[t]
             d == DownScale[t]
  <2>2. q \in Nat /\ amount % d \in Nat /\ amount = d * q + (amount % d)
    BY <1>2, <2>1, Division
  <2>3. q # 0
    <3>1. amount # amount % d
      BY <1>1 DEF Dust
    <3>2. CASE q = 0
      BY <1>2, <2>1, <2>2, <3>1, <3>2
    <3>3. QED
      BY <3>2
  <2>4. value = q * w
    BY DEF ConvertIn
  <2> HIDE DEF q, w, value
  <2>5. w \in Nat \ {0}
    BY <2>1 DEF w
  <2>6. QED
    BY <2>2, <2>3, <2>4, <2>5
<1>5. b \in Balance /\ publicKey[recipient] \in Keys
      /\ balances \in [Users -> [TokenIds -> Balance]]
  BY <1>1, <1>2, <1>3 DEF IInv, AllBalancesInv, IsUserRegistered, TokenTypes
<1>6. c.amountPCTs = b.amountPCTs \cup {[pct |-> amountPCT, index |-> b.transactionIndex]}
  <2> HIDE DEF b, value
  <2>1. QED
    BY <1>2, <1>4, <1>5, ConvertCreditIs
<1>7. balances' = [balances EXCEPT ![recipient][id] = c]
  <2>1. balances' = [balances EXCEPT ![recipient][id] =
                        ConvertCredit(balances[recipient][id], publicKey[recipient],
                                      ConvertIn(t, amount), amountPCT)]
    <3> HIDE DEF t, amount
    <3>1. ConvertIn(t, amount) # 0
      BY <1>4
    <3>2. QED
      BY <1>1, <1>2, <3>1, ConvertWrites
  <2>2. QED
    BY <2>1
<1> HIDE DEF c
<1>8. balances'[recipient][id] = c
  BY <1>3, <1>5, <1>7
<1>9. QED
  BY <1>3, <1>6, <1>8 DEF b

LEMMA OpenKept ==
    ASSUME GiftInv, NEW g \in Open, gifts'[g[1]][g[2]] = gifts[g[1]][g[2]]
    PROVE  ClaimedAsSigned(g)
BY DEF ClaimedAsSigned, Open, Gift

(* Of two gifts, settling one leaves the other.                            *)
LEMMA OthersKept ==
    ASSUME GiftInv, NEW g \in Open, NEW f \in Gifts, f # g,
           NEW status \in {"Claimed", "Refunded"}, NEW recipient \in Users \cup {NoAddress},
           Settle(f, status, recipient)
    PROVE  ClaimedAsSigned(g)
<1>1. /\ g \in Gifts /\ g[1] \in Escrows /\ g[2] \in 1 .. Len(gifts[g[1]]) /\ g = <<g[1], g[2]>>
      /\ f = <<f[1], f[2]>>
  BY GiftIs DEF Open
<1>2. g[1] # f[1] \/ g[2] # f[2]
  BY <1>1
<1>3. \A e \in Escrows : \A n \in 1 .. Len(gifts[e]) :
          e # f[1] \/ n # f[2] => gifts'[e][n] = gifts[e][n]
  BY SettleIs
<1>4. gifts'[g[1]][g[2]] = gifts[g[1]][g[2]]
  BY <1>1, <1>2, <1>3
<1>5. QED
  BY <1>4, OpenKept

LEMMA ClaimsStep ==
    ASSUME GiftedInv, [GiftNext]_allVars, NEW g \in Open
    PROVE  ClaimedAsSigned(g)
<1>0. GiftInv /\ g \in Gifts /\ Gift(g).recipient \in Users \cup {NoAddress}
  BY GiftIs DEF GiftedInv, Open, GiftRecords
<1>1. CASE gifts' = gifts
  BY <1>0, <1>1, OpenKept
<1>2. CASE UNCHANGED allVars \/ TokenStep
  BY <1>1, <1>2 DEF allVars, giftVars, TokenStep
<1>3. CASE Tick \/ \E f \in Gifts, recipient \in Users : \E amountPCT \in ClaimPCTs(f) :
                       SignClaim(f, recipient, amountPCT)
  BY <1>1, <1>3 DEF Tick, SignClaim
<1>4. CASE \E e \in Escrows, sender \in Users, key \in LinkKeys, t \in Tokens, amount \in Amounts :
               \E expiry \in 1 .. MaxTime : CreateGift(e, sender, key, t, amount, expiry)
  <2>1. PICK e \in Escrows, sender \in Users, key \in LinkKeys, t \in Tokens, amount \in Amounts :
            \E expiry \in 1 .. MaxTime : CreateGift(e, sender, key, t, amount, expiry)
    BY <1>4
  <2>2. PICK expiry \in 1 .. MaxTime : CreateGift(e, sender, key, t, amount, expiry)
    BY <2>1
  <2>3. amount \in Nat /\ expiry \in Int
    BY NumbersAssumption
  <2>4. /\ \A f \in Escrows : f # e => gifts'[f] = gifts[f]
        /\ \A n \in 1 .. Len(gifts[e]) : gifts'[e][n] = gifts[e][n]
    BY <1>0, <2>2, <2>3, CreateIs
  <2>5. g[1] \in Escrows /\ g[2] \in 1 .. Len(gifts[g[1]])
    BY <1>0, GiftIs
  <2>6. gifts'[g[1]][g[2]] = gifts[g[1]][g[2]]
    BY <2>4, <2>5
  <2>7. QED
    BY <1>0, <2>6, OpenKept
<1>5. CASE \E f \in Gifts : Refund(f)
  <2>1. PICK f \in Gifts : Refund(f)
    BY <1>5
  <2>2. Settle(f, "Refunded", Gift(f).recipient) /\ Gift(f).recipient \in Users \cup {NoAddress}
    BY <1>0, <2>1, GiftIs DEF Refund, GiftRecords
  <2>3. CASE f # g
    BY <1>0, <2>2, <2>3, OthersKept
  <2>4. CASE f = g
    <3>1. gifts'[g[1]][g[2]] =
              [Gift(g) EXCEPT !.status = "Refunded", !.recipient = Gift(f).recipient]
          /\ Gift(g) \in GiftRecords
      BY <1>0, <2>2, <2>4, SettleIs, GiftIs
    <3>2. gifts'[g[1]][g[2]].status = "Refunded"
      BY <3>1 DEF GiftRecords
    <3>3. QED
      BY <3>2 DEF ClaimedAsSigned
  <2>5. QED
    BY <2>3, <2>4
<1>6. CASE \E f \in Gifts, recipient \in Users : \E s \in signed : ClaimPublic(f, recipient, s)
  <2>1. PICK f \in Gifts, recipient \in Users : \E s \in signed : ClaimPublic(f, recipient, s)
    BY <1>6
  <2>2. PICK s \in signed : ClaimPublic(f, recipient, s)
    BY <2>1
  <2>3. f[1] = "public" /\ Claimable(f, recipient, 0, s) /\ Settle(f, "Claimed", recipient)
    BY <2>2 DEF ClaimPublic
  <2>4. CASE f # g
    BY <1>0, <2>3, <2>4, OthersKept
  <2>5. CASE f = g
    <3>1. /\ s.of = g /\ s.recipient = gifts'[g[1]][g[2]].recipient
          /\ gifts'[g[1]][g[2]].claimAddress = s.key
      BY <1>0, <2>3, <2>5, AcceptedClaim
    <3>2. g[1] # "private"
      BY <2>3, <2>5
    <3>3. QED
      BY <3>1, <3>2 DEF ClaimedAsSigned
  <2>6. QED
    BY <2>4, <2>5
<1>7. CASE \E f \in Gifts, recipient \in Users : \E s \in signed, amountPCT \in ClaimPCTs(f) :
               ClaimPrivate(f, recipient, amountPCT, s)
  <2>1. PICK f \in Gifts, recipient \in Users : \E s \in signed, amountPCT \in ClaimPCTs(f) :
            ClaimPrivate(f, recipient, amountPCT, s)
    BY <1>7
  <2>2. PICK s \in signed, amountPCT \in ClaimPCTs(f) : ClaimPrivate(f, recipient, amountPCT, s)
    BY <2>1
  <2>3. Claimable(f, recipient, amountPCT, s) /\ Settle(f, "Claimed", recipient)
    BY <2>2 DEF ClaimPrivate
  <2>4. CASE f # g
    BY <1>0, <2>3, <2>4, OthersKept
  <2>5. CASE f = g
    <3> DEFINE claimed == gifts'[g[1]][g[2]]
    <3>1. /\ s \in signed /\ s.of = g /\ s.recipient = recipient /\ s.amountPCT = amountPCT
          /\ claimed.recipient = recipient /\ claimed.claimAddress = s.key
          /\ claimed.token = Gift(g).token
      BY <1>0, <2>3, <2>5, AcceptedClaim
    <3>2. balances'[recipient][tokenIds[Gift(g).token]].amountPCTs =
              balances[recipient][tokenIds[Gift(g).token]].amountPCTs \cup
                  {[pct |-> amountPCT,
                    index |-> balances[recipient][tokenIds[Gift(g).token]].transactionIndex]}
      BY <1>0, <2>2, <2>5, ClaimRecords
    <3> HIDE DEF claimed
    <3>3. /\ s.of = g /\ s.key = claimed.claimAddress /\ s.recipient = claimed.recipient
          /\ balances'[claimed.recipient][tokenIds[claimed.token]].amountPCTs =
                 balances[claimed.recipient][tokenIds[claimed.token]].amountPCTs \cup
                     {[pct |-> s.amountPCT,
                       index |-> balances[claimed.recipient][tokenIds[claimed.token]].transactionIndex]}
      BY <3>1, <3>2
    <3>4. QED
      BY <3>1, <3>3 DEF ClaimedAsSigned, claimed
  <2>6. QED
    BY <2>4, <2>5
<1>8. QED
  BY <1>2, <1>3, <1>4, <1>5, <1>6, <1>7 DEF GiftNext, GiftStep

(* A gift goes to the recipient its link's holder signed for that gift of  *)
(* that escrow, with the history entry that was signed.                    *)
THEOREM ClaimsGoWhereSigned == GiftSpec => ClaimsAsSigned
<1>1. GiftedInv /\ [GiftNext]_allVars => \A g \in Open : ClaimedAsSigned(g)
  BY ClaimsStep
<1>2. QED
  BY <1>1, GiftedInvariance, PTL DEF GiftSpec, ClaimsAsSigned, ClaimedAsSigned
-----------------------------------------------------------------------------
(* What an escrow holds.                                                   *)

GiftLists == [Escrows -> Seq(GiftRecords)]

OpenOf(gs, n, e, t) ==
    {g \in Escrows \X (1 .. n) :
        /\ g[2] <= Len(gs[g[1]])
        /\ gs[g[1]][g[2]].status = "Created"
        /\ g[1] = e /\ gs[g[1]][g[2]].token = t}

AmountIn(gs) == [g \in Escrows \X Nat |-> gs[g[1]][g[2]].amount]

Holds(gs, n, e, t) == SumOver(AmountIn(gs), OpenOf(gs, n, e, t))

HeldInv ==
    /\ \A e \in Escrows : Len(gifts[e]) <= plan.gifts
    /\ \A e \in Escrows, t \in Tokens : held[e][t] = Holds(gifts, plan.gifts, e, t)

LEMMA OpenOfIs ==
    ASSUME NEW gs \in GiftLists, NEW n \in Nat, NEW e, NEW t, NEW g \in OpenOf(gs, n, e, t)
    PROVE  /\ g[1] = e /\ e \in Escrows /\ g[2] \in 1 .. n /\ g[2] \in 1 .. Len(gs[e])
           /\ g = <<e, g[2]>> /\ g \in Escrows \X Nat
           /\ gs[e][g[2]] \in GiftRecords /\ gs[e][g[2]].status = "Created"
           /\ gs[e][g[2]].token = t
           /\ AmountIn(gs)[g] = gs[e][g[2]].amount
<1>1. g \in Escrows \X (1 .. n) /\ g[2] <= Len(gs[g[1]]) /\ g[1] = e
      /\ gs[g[1]][g[2]].status = "Created" /\ gs[g[1]][g[2]].token = t
  BY DEF OpenOf
<1>2. e \in Escrows /\ g[2] \in 1 .. n /\ g = <<e, g[2]>> /\ g \in Escrows \X Nat
  BY <1>1
<1>3. gs[e] \in Seq(GiftRecords)
  BY <1>2 DEF GiftLists
<1>4. Len(gs[e]) \in Nat
  BY <1>3
<1>5. g[2] \in 1 .. Len(gs[e])
  BY <1>1, <1>2, <1>4
<1>6. AmountIn(gs)[g] = gs[e][g[2]].amount
  BY <1>1, <1>2 DEF AmountIn
<1>7. QED
  BY <1>1, <1>2, <1>3, <1>5, <1>6

LEMMA OpenOfNumbers ==
    ASSUME NEW gs \in GiftLists, NEW n \in Nat, NEW e, NEW t
    PROVE  IsFiniteSet(OpenOf(gs, n, e, t)) /\ Numbers(AmountIn(gs), OpenOf(gs, n, e, t))
<1>1. IsFiniteSet(OpenOf(gs, n, e, t))
  <2>1. IsFiniteSet(Escrows) /\ IsFiniteSet(1 .. n)
    <3>1. IsFiniteSet({"public"}) /\ Escrows = {"public"} \cup {"private"}
      BY FS_Singleton DEF Escrows
    <3>2. IsFiniteSet(Escrows)
      BY <3>1, FS_AddElement
    <3>3. QED
      BY <3>2, FS_Interval
  <2>2. IsFiniteSet(Escrows \X (1 .. n))
    BY <2>1, FS_Product
  <2>3. OpenOf(gs, n, e, t) \in SUBSET (Escrows \X (1 .. n))
    BY DEF OpenOf
  <2>4. QED
    BY <2>2, <2>3, FS_Subset
<1>2. \A g \in OpenOf(gs, n, e, t) : AmountIn(gs)[g] \in Int
  <2> TAKE g \in OpenOf(gs, n, e, t)
  <2>1. AmountIn(gs)[g] = gs[e][g[2]].amount /\ gs[e][g[2]] \in GiftRecords
    BY OpenOfIs
  <2>2. QED
    BY <2>1 DEF GiftRecords
<1>3. QED
  BY <1>1, <1>2 DEF Numbers

LEMMA HoldsKept ==
    ASSUME NEW gs \in GiftLists, NEW new \in GiftLists, NEW n \in Nat, NEW e, NEW t,
           OpenOf(new, n, e, t) = OpenOf(gs, n, e, t)
    PROVE  (\A g \in OpenOf(gs, n, e, t) : new[e][g[2]] = gs[e][g[2]])
               => Holds(new, n, e, t) = Holds(gs, n, e, t)
<1> SUFFICES ASSUME \A g \in OpenOf(gs, n, e, t) : new[e][g[2]] = gs[e][g[2]]
             PROVE  Holds(new, n, e, t) = Holds(gs, n, e, t)
  OBVIOUS
<1> DEFINE S == OpenOf(gs, n, e, t)
<1>1. ASSUME NEW g \in S PROVE AmountIn(gs)[g] = AmountIn(new)[g]
  BY OpenOfIs
<1>2. IsFiniteSet(S) /\ Numbers(AmountIn(gs), S)
  BY OpenOfNumbers
<1> HIDE DEF S
<1>3. SumOver(AmountIn(gs), S) = SumOver(AmountIn(new), S)
  BY <1>1, <1>2, SumSame
<1>4. QED
  BY <1>3 DEF Holds, S

(* A gift more at the end.                                                 *)
LEMMA HoldsAppended ==
    ASSUME NEW gs \in GiftLists, NEW new \in GiftLists, NEW n \in Nat, NEW e \in Escrows,
           Len(new[e]) = Len(gs[e]) + 1, Len(new[e]) <= n,
           \A f \in Escrows : f # e => new[f] = gs[f],
           \A k \in 1 .. Len(gs[e]) : new[e][k] = gs[e][k],
           new[e][Len(gs[e]) + 1].status = "Created"
    PROVE  LET r == new[e][Len(gs[e]) + 1] IN
           /\ Holds(new, n, e, r.token) = r.amount + Holds(gs, n, e, r.token)
           /\ \A f \in Escrows, t \in Tokens :
                  f # e \/ t # r.token => Holds(new, n, f, t) = Holds(gs, n, f, t)
<1> DEFINE r == new[e][Len(gs[e]) + 1]
           last == <<e, Len(gs[e]) + 1>>
<1>1. gs[e] \in Seq(GiftRecords) /\ Len(gs[e]) \in Nat /\ Len(gs[e]) + 1 \in 1 .. n
  <2>1. gs[e] \in Seq(GiftRecords)
    BY DEF GiftLists
  <2>2. Len(gs[e]) \in Nat
    BY <2>1
  <2>3. QED
    BY <2>1, <2>2
<1>2. \A f \in Escrows : Len(gs[f]) \in Nat /\ Len(new[f]) \in Nat
  <2> TAKE f \in Escrows
  <2>1. gs[f] \in Seq(GiftRecords) /\ new[f] \in Seq(GiftRecords)
    BY DEF GiftLists
  <2>2. QED
    BY <2>1
<1>3. ASSUME NEW f \in Escrows, NEW t
      PROVE  OpenOf(new, n, f, t) =
                 OpenOf(gs, n, f, t) \cup (IF f = e /\ t = r.token THEN {last} ELSE {})
  <2>1. ASSUME NEW g \in Escrows \X (1 .. n)
        PROVE  g \in OpenOf(new, n, f, t) <=>
                   g \in OpenOf(gs, n, f, t) \/ (f = e /\ t = r.token /\ g = last)
    <3>1. g[1] \in Escrows /\ g[2] \in 1 .. n /\ g = <<g[1], g[2]>>
      OBVIOUS
    <3>2. CASE g = last
      <4>1. g[1] = e /\ g[2] = Len(gs[e]) + 1 /\ ~(g[2] <= Len(gs[g[1]])) /\ g[2] <= Len(new[g[1]])
        BY <1>1, <3>2
      <4>2. g \notin OpenOf(gs, n, f, t)
        BY <4>1 DEF OpenOf
      <4>3. g \in OpenOf(new, n, f, t) <=> e = f /\ r.token = t
        BY <4>1 DEF OpenOf
      <4>4. QED
        BY <3>2, <4>2, <4>3
    <3>3. CASE g # last
      <4>1. g[1] # e \/ g[2] # Len(gs[e]) + 1
        BY <3>1, <3>3
      <4>2. g[2] <= Len(new[g[1]]) <=> g[2] <= Len(gs[g[1]])
        BY <1>1, <1>2, <3>1, <4>1
      <4>3. g[2] <= Len(gs[g[1]]) => new[g[1]][g[2]] = gs[g[1]][g[2]]
        BY <1>2, <3>1
      <4>4. QED
        BY <3>3, <4>2, <4>3 DEF OpenOf
    <3>4. QED
      BY <3>2, <3>3
  <2>2. last \in Escrows \X (1 .. n)
    BY <1>1
  <2>3. OpenOf(new, n, f, t) \subseteq Escrows \X (1 .. n)
        /\ OpenOf(gs, n, f, t) \subseteq Escrows \X (1 .. n)
    BY DEF OpenOf
  <2> HIDE DEF last, r
  <2>4. QED
    BY <2>1, <2>2, <2>3
<1>4. ASSUME NEW f \in Escrows, NEW t, NEW g \in OpenOf(gs, n, f, t)
      PROVE  new[f][g[2]] = gs[f][g[2]]
  <2>1. g[2] \in 1 .. Len(gs[f])
    BY OpenOfIs
  <2>2. QED
    BY <2>1
<1>5. ASSUME NEW f \in Escrows, NEW t \in Tokens, f # e \/ t # r.token
      PROVE  Holds(new, n, f, t) = Holds(gs, n, f, t)
  <2>0. OpenOf(new, n, f, t) =
            OpenOf(gs, n, f, t) \cup (IF f = e /\ t = r.token THEN {last} ELSE {})
    BY <1>3
  <2> HIDE DEF last, r
  <2>1. OpenOf(new, n, f, t) = OpenOf(gs, n, f, t)
    BY <1>5, <2>0
  <2>2. \A g \in OpenOf(gs, n, f, t) : new[f][g[2]] = gs[f][g[2]]
    BY <1>4
  <2>3. QED
    BY <2>1, <2>2, HoldsKept
<1>6. Holds(new, n, e, r.token) = r.amount + Holds(gs, n, e, r.token)
  <2> DEFINE t == r.token
             S == OpenOf(gs, n, e, t)
             f == AmountIn(new)
  <2>1. OpenOf(new, n, e, t) = S \cup {last}
    BY <1>3
  <2>2. IsFiniteSet(S) /\ Numbers(f, S \cup {last})
    BY <2>1, OpenOfNumbers
  <2>3. last \notin S
    BY <1>1 DEF OpenOf
  <2>4. f[last] = r.amount
    BY <1>1 DEF AmountIn
  <2>5. \A g \in S : AmountIn(gs)[g] = f[g]
    <3> TAKE g \in S
    <3>1. new[e][g[2]] = gs[e][g[2]]
      BY <1>4
    <3>2. AmountIn(gs)[g] = gs[e][g[2]].amount
      BY OpenOfIs
    <3>3. g \in OpenOf(new, n, e, t)
      BY <2>1
    <3>4. f[g] = new[e][g[2]].amount
      BY <3>3, OpenOfIs
    <3>5. QED
      BY <3>1, <3>2, <3>4
  <2>6. Numbers(AmountIn(gs), S)
    BY OpenOfNumbers
  <2> HIDE DEF S, f, last, t
  <2>7. SumOver(f, S \cup {last}) = f[last] + SumOver(f, S)
    BY <2>2, <2>3, SumAdd
  <2>8. SumOver(AmountIn(gs), S) = SumOver(f, S)
    BY <2>2, <2>5, <2>6, SumSame
  <2>9. Holds(new, n, e, t) = SumOver(f, S \cup {last}) /\ Holds(gs, n, e, t) = SumOver(AmountIn(gs), S)
    BY <2>1 DEF Holds, f, S
  <2>10. QED
    BY <2>4, <2>7, <2>8, <2>9 DEF t
<1>7. QED
  BY <1>5, <1>6

(* A gift fewer.                                                           *)
LEMMA HoldsSettled ==
    ASSUME NEW gs \in GiftLists, NEW new \in GiftLists, NEW n \in Nat, NEW e \in Escrows,
           NEW k \in 1 .. Len(gs[e]), k \in 1 .. n, gs[e][k].status = "Created",
           new[e][k].status # "Created",
           \A f \in Escrows : Len(new[f]) = Len(gs[f]),
           \A f \in Escrows : \A j \in 1 .. Len(gs[f]) :
               f # e \/ j # k => new[f][j] = gs[f][j]
    PROVE  LET r == gs[e][k] IN
           /\ Holds(gs, n, e, r.token) = r.amount + Holds(new, n, e, r.token)
           /\ \A f \in Escrows, t \in Tokens :
                  f # e \/ t # r.token => Holds(new, n, f, t) = Holds(gs, n, f, t)
<1> DEFINE r == gs[e][k]
           this == <<e, k>>
<1>2. \A f \in Escrows : Len(gs[f]) \in Nat
  <2> TAKE f \in Escrows
  <2>1. gs[f] \in Seq(GiftRecords)
    BY DEF GiftLists
  <2>2. QED
    BY <2>1
<1>3. ASSUME NEW f \in Escrows, NEW t
      PROVE  /\ OpenOf(new, n, f, t) = OpenOf(gs, n, f, t) \ {this}
             /\ this \in OpenOf(gs, n, f, t) <=> f = e /\ t = r.token
  <2>1. ASSUME NEW g \in Escrows \X (1 .. n)
        PROVE  g \in OpenOf(new, n, f, t) <=> g \in OpenOf(gs, n, f, t) /\ g # this
    <3>1. g[1] \in Escrows /\ g[2] \in 1 .. n /\ g = <<g[1], g[2]>>
      OBVIOUS
    <3>2. CASE g = this
      <4>1. g[1] = e /\ g[2] = k
        BY <3>2
      <4>2. QED
        BY <3>2, <4>1 DEF OpenOf
    <3>3. CASE g # this
      <4>1. g[1] # e \/ g[2] # k
        BY <3>1, <3>3
      <4>2. g[2] <= Len(new[g[1]]) <=> g[2] <= Len(gs[g[1]])
        BY <3>1
      <4>3. g[2] <= Len(gs[g[1]]) => new[g[1]][g[2]] = gs[g[1]][g[2]]
        BY <1>2, <3>1, <4>1
      <4>4. QED
        BY <3>3, <4>2, <4>3 DEF OpenOf
    <3>4. QED
      BY <3>2, <3>3
  <2>2. this \in OpenOf(gs, n, f, t) <=> f = e /\ t = r.token
    BY DEF OpenOf
  <2>3. OpenOf(new, n, f, t) \subseteq Escrows \X (1 .. n)
        /\ OpenOf(gs, n, f, t) \subseteq Escrows \X (1 .. n)
    BY DEF OpenOf
  <2> HIDE DEF this, r
  <2>4. QED
    BY <2>1, <2>2, <2>3
<1>4. ASSUME NEW f \in Escrows, NEW t, NEW g \in OpenOf(new, n, f, t)
      PROVE  new[f][g[2]] = gs[f][g[2]]
  <2>1. g[2] \in 1 .. Len(gs[f]) /\ g = <<f, g[2]>> /\ g # this
    BY <1>3, OpenOfIs
  <2>2. f # e \/ g[2] # k
    BY <2>1
  <2>3. QED
    BY <2>1, <2>2
<1>5. ASSUME NEW f \in Escrows, NEW t \in Tokens, f # e \/ t # r.token
      PROVE  Holds(new, n, f, t) = Holds(gs, n, f, t)
  <2>0. /\ OpenOf(new, n, f, t) = OpenOf(gs, n, f, t) \ {this}
        /\ this \in OpenOf(gs, n, f, t) <=> f = e /\ t = r.token
    BY <1>3
  <2> HIDE DEF this, r
  <2>1. OpenOf(new, n, f, t) = OpenOf(gs, n, f, t)
    BY <1>5, <2>0
  <2>2. \A g \in OpenOf(gs, n, f, t) : new[f][g[2]] = gs[f][g[2]]
    BY <1>4, <2>1
  <2>3. QED
    BY <2>1, <2>2, HoldsKept
<1>6. Holds(gs, n, e, r.token) = r.amount + Holds(new, n, e, r.token)
  <2> DEFINE t == r.token
             S == OpenOf(gs, n, e, t)
             f == AmountIn(gs)
  <2>1. OpenOf(new, n, e, t) = S \ {this} /\ this \in S
    BY <1>3
  <2>2. IsFiniteSet(S) /\ Numbers(f, S) /\ Numbers(AmountIn(new), S \ {this})
        /\ IsFiniteSet(S \ {this})
    <3>1. IsFiniteSet(S) /\ Numbers(f, S)
      BY OpenOfNumbers
    <3>2. Numbers(AmountIn(new), OpenOf(new, n, e, t)) /\ IsFiniteSet(OpenOf(new, n, e, t))
      BY OpenOfNumbers
    <3> HIDE DEF S, this, f
    <3>3. QED
      BY <2>1, <3>1, <3>2
  <2>3. f[this] = r.amount
    BY DEF AmountIn
  <2>4. \A g \in S \ {this} : AmountIn(new)[g] = f[g]
    <3> TAKE g \in S \ {this}
    <3>1. g \in OpenOf(new, n, e, t)
      BY <2>1
    <3>2. new[e][g[2]] = gs[e][g[2]] /\ AmountIn(new)[g] = new[e][g[2]].amount
      BY <1>4, <3>1, OpenOfIs
    <3>3. g \in OpenOf(gs, n, e, t)
      OBVIOUS
    <3>4. f[g] = gs[e][g[2]].amount
      BY <3>3, OpenOfIs
    <3>5. QED
      BY <3>2, <3>4
  <2> HIDE DEF S, f, this, t
  <2>5. SumOver(f, S) = f[this] + SumOver(f, S \ {this})
    BY <2>1, <2>2, SumPick
  <2>6. SumOver(AmountIn(new), S \ {this}) = SumOver(f, S \ {this})
    BY <2>2, <2>4, SumSame
  <2>7. Holds(gs, n, e, t) = SumOver(f, S) /\ Holds(new, n, e, t) = SumOver(AmountIn(new), S \ {this})
    BY <2>1 DEF Holds, f, S
  <2>8. QED
    BY <2>3, <2>5, <2>6, <2>7 DEF t
<1>7. QED
  BY <1>5, <1>6
-----------------------------------------------------------------------------
(* There is room for a gift in its escrow while there are fewer gifts than *)
(* the bound.                                                              *)
LEMMA RoomForGift ==
    ASSUME GiftInv, NEW e \in Escrows, Len(gifts[e]) <= plan.gifts,
           Cardinality(Gifts) < plan.gifts
    PROVE  Len(gifts[e]) + 1 <= plan.gifts
<1> DEFINE n == plan.gifts
           all == {e} \X (1 .. n)
<1>1. n \in Nat /\ gifts[e] \in Seq(GiftRecords)
  BY DEF GiftInv
<1>2. Len(gifts[e]) \in Nat
  BY <1>1
<1>3. Gifts \subseteq Escrows \X (1 .. n) /\ IsFiniteSet(Gifts)
  <2>1. IsFiniteSet({"public"}) /\ Escrows = {"public"} \cup {"private"}
    BY FS_Singleton DEF Escrows
  <2>2. IsFiniteSet(Escrows)
    BY <2>1, FS_AddElement
  <2>3. Gifts \in SUBSET (Escrows \X (1 .. n))
    BY DEF Gifts
  <2> HIDE DEF n
  <2>4. IsFiniteSet(1 .. n)
    BY <1>1, FS_Interval
  <2>5. IsFiniteSet(Escrows \X (1 .. n))
    BY <2>2, <2>4, FS_Product
  <2>6. QED
    BY <2>3, <2>5, FS_Subset
<1>4. Cardinality(all) = n
  <2>1. IsFiniteSet({e}) /\ Cardinality({e}) = 1
    BY FS_Singleton
  <2> HIDE DEF n
  <2>2. IsFiniteSet(1 .. n) /\ Cardinality(1 .. n) = n
    BY <1>1, FS_Interval
  <2> DEFINE N == 1 .. n
             E == {e}
  <2>3. IsFiniteSet(E) /\ IsFiniteSet(N) /\ Cardinality(E) = 1 /\ Cardinality(N) = n
        /\ all = E \X N
    BY <2>1, <2>2
  <2> HIDE DEF N, E, all
  <2>4. Cardinality(E \X N) = Cardinality(E) * Cardinality(N)
    BY <2>3, FS_Product
  <2>5. QED
    BY <1>1, <2>3, <2>4
<1>5. CASE Len(gifts[e]) = n
  <2>1. all \in SUBSET Gifts
    BY <1>5 DEF Gifts
  <2>2. Cardinality(all) <= Cardinality(Gifts)
    BY <1>3, <2>1, FS_Subset
  <2>3. Cardinality(Gifts) \in Nat
    BY <1>3, FS_CardinalityType
  <2>4. QED
    BY <1>1, <1>4, <2>2, <2>3
<1>6. CASE Len(gifts[e]) # n
  BY <1>1, <1>2, <1>6
<1>7. QED
  BY <1>5, <1>6

LEMMA CreateHeld ==
    ASSUME GiftedInv, GiftInv', HeldInv, plan' = plan, NEW e \in Escrows, NEW sender \in Users,
           NEW claimAddress \in LinkKeys, NEW t \in Tokens, NEW amount \in Nat, NEW expiry \in Int,
           CreateGift(e, sender, claimAddress, t, amount, expiry)
    PROVE  HeldInv'
<1> DEFINE new == gifts'
           n == plan.gifts
           r == new[e][Len(gifts[e]) + 1]
<1>1. gifts \in GiftLists /\ new \in GiftLists /\ n \in Nat /\ held \in [Escrows -> [Tokens -> Nat]]
  BY DEF GiftedInv, GiftInv, GiftLists
<1>2. held' = [held EXCEPT ![e][t] = @ + amount] /\ Cardinality(Gifts) < n
  BY DEF CreateGift
<1>3. /\ Len(new[e]) = Len(gifts[e]) + 1
      /\ \A f \in Escrows : f # e => new[f] = gifts[f]
      /\ \A k \in 1 .. Len(gifts[e]) : new[e][k] = gifts[e][k]
      /\ r = [sender |-> sender, claimAddress |-> claimAddress, token |-> t,
              recipient |-> NoAddress, amount |-> amount, expiry |-> expiry,
              status |-> "Created"]
  BY CreateIs DEF GiftedInv
<1>4. r.token = t /\ r.amount = amount /\ r.status = "Created"
  BY <1>3
<1>5. Len(gifts[e]) + 1 <= n
  BY <1>2, RoomForGift DEF GiftedInv, HeldInv
<1> HIDE DEF new, n
<1>6. /\ Holds(new, n, e, r.token) = r.amount + Holds(gifts, n, e, r.token)
      /\ \A f \in Escrows, s \in Tokens :
             f # e \/ s # r.token => Holds(new, n, f, s) = Holds(gifts, n, f, s)
  BY <1>1, <1>3, <1>4, <1>5, HoldsAppended
<1> HIDE DEF r
<1>7. \A f \in Escrows, s \in Tokens : held[f][s] = Holds(gifts, n, f, s)
  BY DEF HeldInv, n
<1>8. ASSUME NEW f \in Escrows, NEW s \in Tokens PROVE held'[f][s] = Holds(new, n, f, s)
  <2>1. CASE f = e /\ s = t
    <3>1. held[e][t] = Holds(gifts, n, e, t) /\ held[e][t] \in Nat
      BY <1>1, <1>7
    <3>2. held'[e][t] = held[e][t] + amount
      BY <1>1, <1>2
    <3>3. Holds(new, n, e, t) = amount + held[e][t]
      BY <1>4, <1>6, <3>1
    <3>4. QED
      BY <2>1, <3>1, <3>2, <3>3
  <2>2. CASE ~(f = e /\ s = t)
    <3>1. held'[f][s] = held[f][s]
      BY <1>1, <1>2, <2>2
    <3>2. QED
      BY <1>4, <1>6, <1>7, <2>2, <3>1
  <2>3. QED
    BY <2>1, <2>2
<1>9. \A f \in Escrows : Len(new[f]) <= n
  BY <1>3, <1>5 DEF HeldInv, n
<1>10. QED
  BY <1>8, <1>9 DEF HeldInv, new, n

LEMMA SettleHeld ==
    ASSUME GiftedInv, GiftInv', HeldInv, plan' = plan, NEW g \in Gifts,
           NEW status \in {"Claimed", "Refunded"}, NEW recipient \in Users \cup {NoAddress},
           Settle(g, status, recipient),
           held' \in [Escrows -> [Tokens -> Nat]],
           held'[g[1]][Gift(g).token] = held[g[1]][Gift(g).token] - Gift(g).amount,
           \A e \in Escrows, t \in Tokens :
               e # g[1] \/ t # Gift(g).token => held'[e][t] = held[e][t]
    PROVE  HeldInv'
<1>0. /\ \A f \in Escrows : Len(gifts'[f]) = Len(gifts[f])
      /\ gifts'[g[1]][g[2]].status = status
      /\ \A f \in Escrows : \A j \in 1 .. Len(gifts[f]) :
             f # g[1] \/ j # g[2] => gifts'[f][j] = gifts[f][j]
  <2>1. GiftInv /\ Settle(g, status, recipient)
    BY DEF GiftedInv
  <2>2. \A f \in Escrows : Len(gifts'[f]) = Len(gifts[f])
    BY <2>1, SettleIs
  <2>3. gifts'[g[1]][g[2]].status = status
    BY <2>1, SettleIs
  <2>4. \A f \in Escrows : \A j \in 1 .. Len(gifts[f]) :
            f # g[1] \/ j # g[2] => gifts'[f][j] = gifts[f][j]
    BY <2>1, SettleIs
  <2>5. QED
    BY <2>2, <2>3, <2>4
<1> DEFINE new == gifts'
           n == plan.gifts
           e == g[1]
           k == g[2]
           r == gifts[e][k]
<1>1. gifts \in GiftLists /\ new \in GiftLists /\ n \in Nat /\ held \in [Escrows -> [Tokens -> Nat]]
  BY DEF GiftedInv, GiftInv, GiftLists
<1>2. /\ e \in Escrows /\ k \in 1 .. Len(gifts[e]) /\ k \in 1 .. n /\ r \in GiftRecords
      /\ r = Gift(g) /\ r.status = "Created"
  BY GiftIs DEF GiftedInv, Gift, Settle
<1>3. /\ \A f \in Escrows : Len(new[f]) = Len(gifts[f])
      /\ \A f \in Escrows : \A j \in 1 .. Len(gifts[f]) :
             f # e \/ j # k => new[f][j] = gifts[f][j]
      /\ new[e][k].status = status
  BY <1>2, <1>0
<1>4. new[e][k].status # "Created"
  BY <1>3
<1>5. /\ r.token \in Tokens /\ r.amount \in Nat
      /\ held'[e][r.token] = held[e][r.token] - r.amount
      /\ \A f \in Escrows, t \in Tokens : f # e \/ t # r.token => held'[f][t] = held[f][t]
  BY <1>2 DEF GiftRecords
<1>open. gifts[e][k].status = "Created" /\ r = gifts[e][k]
  BY <1>2
<1> HIDE DEF new, n, e, k, r
<1>6. /\ Holds(gifts, n, e, r.token) = r.amount + Holds(new, n, e, r.token)
      /\ \A f \in Escrows, t \in Tokens :
             f # e \/ t # r.token => Holds(new, n, f, t) = Holds(gifts, n, f, t)
  <2>1. e \in Escrows /\ k \in 1 .. Len(gifts[e]) /\ k \in 1 .. n
    BY <1>2
  <2>2. /\ \A f \in Escrows : Len(new[f]) = Len(gifts[f])
        /\ \A f \in Escrows : \A j \in 1 .. Len(gifts[f]) :
             f # e \/ j # k => new[f][j] = gifts[f][j]
    BY <1>3
  <2>3. /\ Holds(gifts, n, e, gifts[e][k].token)
               = gifts[e][k].amount + Holds(new, n, e, gifts[e][k].token)
        /\ \A f \in Escrows, t \in Tokens :
               f # e \/ t # gifts[e][k].token => Holds(new, n, f, t) = Holds(gifts, n, f, t)
    BY <1>1, <1>4, <1>open, <2>1, <2>2, HoldsSettled
  <2>4. QED
    BY <1>open, <2>3
<1>7. \A f \in Escrows, t \in Tokens : held[f][t] = Holds(gifts, n, f, t)
  BY DEF HeldInv, n
<1>8. Holds(new, n, e, r.token) \in Int
  <2>1. IsFiniteSet(OpenOf(new, n, e, r.token)) /\ Numbers(AmountIn(new), OpenOf(new, n, e, r.token))
    BY <1>1, OpenOfNumbers
  <2>2. QED
    BY <2>1, SumInt DEF Holds
<1>9. ASSUME NEW f \in Escrows, NEW t \in Tokens PROVE held'[f][t] = Holds(new, n, f, t)
  <2>1. CASE f = e /\ t = r.token
    <3>1. held[e][r.token] = r.amount + Holds(new, n, e, r.token)
      BY <1>2, <1>5, <1>6, <1>7
    <3>2. QED
      BY <1>5, <1>8, <2>1, <3>1
  <2>2. CASE ~(f = e /\ t = r.token)
    BY <1>5, <1>6, <1>7, <2>2
  <2>3. QED
    BY <2>1, <2>2
<1>10. \A f \in Escrows : Len(new[f]) <= n
  BY <1>3 DEF HeldInv, n
<1>11. QED
  BY <1>9, <1>10 DEF HeldInv, new, n

LEMMA HeldStep == GiftedInv /\ GiftedInv' /\ HeldInv /\ [GiftNext]_allVars => HeldInv'
<1> SUFFICES ASSUME GiftedInv, GiftedInv', HeldInv, [GiftNext]_allVars PROVE HeldInv'
  OBVIOUS
<1>1. GiftInv' /\ plan' = plan /\ held' \in [Escrows -> [Tokens -> Nat]]
      /\ held \in [Escrows -> [Tokens -> Nat]]
  BY DEF GiftedInv, GiftInv, GiftNext, allVars
<1>2. CASE UNCHANGED <<gifts, held>>
  BY <1>1, <1>2 DEF HeldInv
<1>3. CASE UNCHANGED allVars \/ TokenStep
  BY <1>2, <1>3 DEF allVars, giftVars, TokenStep
<1>4. CASE Tick \/ \E f \in Gifts, recipient \in Users : \E amountPCT \in ClaimPCTs(f) :
                       SignClaim(f, recipient, amountPCT)
  BY <1>2, <1>4 DEF Tick, SignClaim
<1>5. CASE \E e \in Escrows, sender \in Users, key \in LinkKeys, t \in Tokens, amount \in Amounts :
               \E expiry \in 1 .. MaxTime : CreateGift(e, sender, key, t, amount, expiry)
  <2>1. Amounts \subseteq Nat /\ \A expiry \in 1 .. MaxTime : expiry \in Int
    BY NumbersAssumption
  <2>2. QED
    BY <1>1, <1>5, <2>1, CreateHeld
<1>6. ASSUME NEW g \in Gifts
      PROVE  g[1] \in Escrows /\ Gift(g).token \in Tokens /\ Gift(g).amount \in Nat
             /\ Gift(g).recipient \in Users \cup {NoAddress}
             /\ held[g[1]][Gift(g).token] \in Nat
  <2>1. GiftInv
    BY DEF GiftedInv
  <2>2. g[1] \in Escrows /\ Gift(g) \in GiftRecords
    BY <2>1, GiftIs
  <2>3. QED
    BY <1>1, <2>2 DEF GiftRecords
<1>7. CASE \E g \in Gifts : Refund(g)
  <2>1. PICK g \in Gifts : Refund(g)
    BY <1>7
  <2>2. /\ Settle(g, "Refunded", Gift(g).recipient)
        /\ held' = [held EXCEPT ![g[1]][Gift(g).token] = @ - Gift(g).amount]
    BY <2>1 DEF Refund
  <2>3. /\ g[1] \in Escrows /\ Gift(g).token \in Tokens
        /\ Gift(g).recipient \in Users \cup {NoAddress}
    BY <1>6
  <2>4. held'[g[1]][Gift(g).token] = held[g[1]][Gift(g).token] - Gift(g).amount
    BY <1>1, <2>2, <2>3
  <2>5. ASSUME NEW f \in Escrows, NEW t \in Tokens
        PROVE  f # g[1] \/ t # Gift(g).token => held'[f][t] = held[f][t]
    BY <1>1, <2>2, <2>3
  <2>6. QED
    BY <1>1, <2>2, <2>3, <2>4, <2>5, SettleHeld
<1>8. CASE \E g \in Gifts, recipient \in Users : \E s \in signed : ClaimPublic(g, recipient, s)
  <2>1. PICK g \in Gifts, recipient \in Users : \E s \in signed : ClaimPublic(g, recipient, s)
    BY <1>8
  <2>2. /\ Settle(g, "Claimed", recipient) /\ g[1] = "public"
        /\ held' = [held EXCEPT !["public"][Gift(g).token] = @ - Gift(g).amount]
    BY <2>1 DEF ClaimPublic
  <2>3. g[1] \in Escrows /\ Gift(g).token \in Tokens
    BY <1>6
  <2>4. held'[g[1]][Gift(g).token] = held[g[1]][Gift(g).token] - Gift(g).amount
    BY <1>1, <2>2, <2>3
  <2>5. ASSUME NEW f \in Escrows, NEW t \in Tokens
        PROVE  f # g[1] \/ t # Gift(g).token => held'[f][t] = held[f][t]
    BY <1>1, <2>2, <2>3
  <2>6. QED
    BY <1>1, <2>2, <2>4, <2>5, SettleHeld
<1>9. CASE \E g \in Gifts, recipient \in Users : \E s \in signed, amountPCT \in ClaimPCTs(g) :
               ClaimPrivate(g, recipient, amountPCT, s)
  <2>1. PICK g \in Gifts, recipient \in Users : \E s \in signed, amountPCT \in ClaimPCTs(g) :
            ClaimPrivate(g, recipient, amountPCT, s)
    BY <1>9
  <2> DEFINE dust == Dust(Gift(g).token, Gift(g).amount)
  <2>2. /\ Settle(g, "Claimed", recipient) /\ g[1] = "private"
        /\ held' = [held EXCEPT !["private"][Gift(g).token] = @ - (Gift(g).amount - dust) - dust]
    BY <2>1 DEF ClaimPrivate, ReturnDust
  <2>3. /\ g[1] \in Escrows /\ Gift(g).token \in Tokens /\ Gift(g).amount \in Nat
        /\ held[g[1]][Gift(g).token] \in Nat
    BY <1>6
  <2>4. dust \in Nat
    BY <2>3, Conversions
  <2> HIDE DEF dust
  <2>5. held'[g[1]][Gift(g).token] = (held[g[1]][Gift(g).token] - (Gift(g).amount - dust)) - dust
    BY <1>1, <2>2, <2>3
  <2>6. held'[g[1]][Gift(g).token] = held[g[1]][Gift(g).token] - Gift(g).amount
    BY <2>3, <2>4, <2>5
  <2>7. ASSUME NEW f \in Escrows, NEW t \in Tokens
        PROVE  f # g[1] \/ t # Gift(g).token => held'[f][t] = held[f][t]
    BY <1>1, <2>2, <2>3
  <2>8. QED
    BY <1>1, <2>2, <2>6, <2>7, SettleHeld
<1>10. QED
  BY <1>3, <1>4, <1>5, <1>7, <1>8, <1>9 DEF GiftNext, GiftStep

LEMMA HeldInit == GiftInit => HeldInv
<1> SUFFICES ASSUME GiftInit PROVE HeldInv
  OBVIOUS
<1>1. /\ gifts = [e \in Escrows |-> <<>>] /\ held = [e \in Escrows |-> [t \in Tokens |-> 0]]
      /\ plan.gifts \in Nat
  BY GiftAssumption DEF GiftInit
<1>2. ASSUME NEW e \in Escrows, NEW t \in Tokens PROVE Holds(gifts, plan.gifts, e, t) = 0
  <2>1. OpenOf(gifts, plan.gifts, e, t) = {}
    BY <1>1 DEF OpenOf
  <2>2. QED
    BY <2>1, SumEmpty DEF Holds
<1>3. QED
  BY <1>1, <1>2 DEF HeldInv

LEMMA HoldsIs ==
    ASSUME GiftInv, NEW e \in Escrows, NEW t \in Tokens
    PROVE  MapThenSumSet(LAMBDA g : Gift(g).amount,
                         {g \in Open : g[1] = e /\ Gift(g).token = t})
               = Holds(gifts, plan.gifts, e, t)
<1> DEFINE S == {g \in Open : g[1] = e /\ Gift(g).token = t}
           f == AmountIn(gifts)
           h == CHOOSE h : h = [s \in SUBSET S |->
                    IF s = {} THEN 0
                    ELSE Gift(CHOOSE x \in s : TRUE).amount + h[s \ {CHOOSE x \in s : TRUE}]]
<1>1. S = OpenOf(gifts, plan.gifts, e, t)
  BY DEF Open, Gifts, Gift, OpenOf
<1>2. IsFiniteSet(S) /\ Numbers(f, S)
  BY <1>1, OpenOfNumbers DEF GiftInv, GiftLists
<1>3. \A g \in S : f[g] = Gift(g).amount
  BY <1>1, OpenOfIs DEF GiftInv, GiftLists, Gift
<1>4. MapThenSumSet(LAMBDA g : Gift(g).amount, S) = h[S]
  BY DEF MapThenSumSet, MapThenFoldSet
<1> HIDE DEF S, f
<1>5. \A s \in SUBSET S : s # {} => f[Some(s)] = Gift(Some(s)).amount
  BY <1>3, SomeIn
<1>6. h = [s \in SUBSET S |->
              IF s = {} THEN 0
              ELSE Gift(CHOOSE x \in s : TRUE).amount + h[s \ {CHOOSE x \in s : TRUE}]]
  <2>1. PICK k : IsSum(k, f, S)
    BY <1>2, SumExists
  <2>2. k = [s \in SUBSET S |->
                IF s = {} THEN 0
                ELSE Gift(CHOOSE x \in s : TRUE).amount + k[s \ {CHOOSE x \in s : TRUE}]]
    BY <2>1, <1>5 DEF IsSum, SumOf, Some
  <2>3. QED
    BY <2>2
<1> HIDE DEF h
<1>7. IsSum(h, f, S)
  BY <1>5, <1>6 DEF IsSum, SumOf, Some
<1>8. SumOver(f, S) = h[S]
  BY <1>2, <1>7, SumUnique
<1>9. QED
  BY <1>1, <1>4, <1>8 DEF Holds, f, S

(* An escrow holds exactly what its open gifts come to: none is paid out   *)
(* twice and no dust stays behind.                                         *)
THEOREM EscrowsHoldOpenGifts == GiftSpec => []EscrowsHoldGifts
<1>1. GiftInit => GiftedInv /\ HeldInv
  BY GiftedInit, HeldInit
<1>2. (GiftedInv /\ HeldInv) /\ [GiftNext]_allVars => (GiftedInv /\ HeldInv)'
  BY GiftedStep, HeldStep
<1>3. GiftedInv /\ HeldInv => EscrowsHoldGifts
  BY HoldsIs DEF GiftedInv, HeldInv, EscrowsHoldGifts
<1>4. QED
  BY <1>1, <1>2, <1>3, PTL DEF GiftSpec
(* So no open gift lacks the tokens it is to be refunded or claimed with.  *)
GiftsCovered == \A g \in Open : InEscrow(g)

LEMMA CoveredFollows == GiftedInv /\ HeldInv => GiftsCovered
<1>1. ASSUME GiftedInv, HeldInv, NEW g \in Open
      PROVE  InEscrow(g)
  <2> DEFINE S == OpenOf(gifts, plan.gifts, g[1], Gift(g).token)
             f == AmountIn(gifts)
  <2>1. /\ GiftInv /\ g[1] \in Escrows /\ g = <<g[1], g[2]>> /\ Gift(g) \in GiftRecords
        /\ g \in Gifts /\ g[2] \in 1 .. plan.gifts
    BY <1>1, GiftIs DEF GiftedInv, Open
  <2>2. gifts \in GiftLists /\ plan.gifts \in Nat /\ Gift(g).token \in Tokens
        /\ Gift(g).amount \in Nat
    BY <2>1 DEF GiftInv, GiftLists, GiftRecords
  <2>3. g \in S
    BY <2>1 DEF OpenOf, Open, Gifts, Gift
  <2>4. f[g] = Gift(g).amount
    BY <2>1, <2>2, <2>3, OpenOfIs DEF Gift
  <2>5. IsFiniteSet(S) /\ Numbers(f, S)
    BY <2>2, OpenOfNumbers
  <2>6. \A x \in S : f[x] \in Nat
    <3>1. SUFFICES ASSUME NEW x \in S PROVE f[x] \in Nat
      OBVIOUS
    <3>2. f[x] = gifts[g[1]][x[2]].amount /\ gifts[g[1]][x[2]] \in GiftRecords
      BY <2>2, OpenOfIs
    <3>3. QED
      BY <3>2 DEF GiftRecords
  <2>7. held[g[1]][Gift(g).token] = Holds(gifts, plan.gifts, g[1], Gift(g).token)
    BY <1>1, <2>1, <2>2 DEF HeldInv
  <2>8. held[g[1]][Gift(g).token] = SumOver(f, S)
    BY <2>7 DEF Holds
  <2> HIDE DEF S, f
  <2>9. SumOver(f, S) = f[g] + SumOver(f, S \ {g})
    BY <2>3, <2>5, SumPick
  <2>10. IsFiniteSet(S \ {g}) /\ \A x \in S \ {g} : f[x] \in Nat
    BY <2>5, <2>6, FS_RemoveElement
  <2>11. SumOver(f, S \ {g}) \in Nat
    BY <2>10, SumNat
  <2>12. QED
    BY <2>2, <2>4, <2>8, <2>9, <2>11 DEF InEscrow
<1>2. QED
  BY <1>1 DEF GiftsCovered

THEOREM OpenGiftsAreCovered == GiftSpec => []GiftsCovered
<1>1. GiftInit => GiftedInv /\ HeldInv
  BY GiftedInit, HeldInit
<1>2. (GiftedInv /\ HeldInv) /\ [GiftNext]_allVars => (GiftedInv /\ HeldInv)'
  BY GiftedStep, HeldStep
<1>3. QED
  BY <1>1, <1>2, CoveredFollows, PTL DEF GiftSpec
-----------------------------------------------------------------------------
(* One way out.                                                            *)

(* A signature is of a gift there is, by that gift's key, and its history  *)
(* entry is one for that gift: what it is of does not change afterwards.   *)
SignedFor(s) ==
    /\ s \in [key : LinkKeys, of : Gifts, recipient : Users, amountPCT : Nat]
    /\ s.key = Gift(s.of).claimAddress
    /\ s.amountPCT \in ClaimPCTs(s.of)

SignedInv ==
    /\ plan \in Plans /\ now \in Nat
    /\ \A s \in signed : SignedFor(s)

(* No operation takes a gift away or changes its key, token or amount.     *)
Stays(g) ==
    /\ g[2] <= Len(gifts'[g[1]])
    /\ gifts'[g[1]][g[2]].claimAddress = Gift(g).claimAddress
    /\ gifts'[g[1]][g[2]].token = Gift(g).token
    /\ gifts'[g[1]][g[2]].amount = Gift(g).amount

LEMMA SettledStays ==
    ASSUME GiftInv, NEW f \in Gifts, NEW status \in {"Claimed", "Refunded"},
           NEW recipient \in Users \cup {NoAddress}, Settle(f, status, recipient),
           NEW g \in Gifts
    PROVE  Stays(g)
<1>1. /\ g[1] \in Escrows /\ g[2] \in 1 .. Len(gifts[g[1]]) /\ g = <<g[1], g[2]>>
      /\ Gift(g) \in GiftRecords /\ f = <<f[1], f[2]>>
  BY GiftIs
<1>2. g[2] <= Len(gifts'[g[1]])
  <2>1. \A e \in Escrows : Len(gifts'[e]) = Len(gifts[e])
    BY SettleIs
  <2>2. g[2] <= Len(gifts[g[1]])
    BY DEF Gifts
  <2>3. QED
    BY <1>1, <2>1, <2>2
<1>3. CASE g = f
  <2>0. gifts'[f[1]][f[2]] = [Gift(f) EXCEPT !.status = status, !.recipient = recipient]
    <3>1. CASE status = "Claimed"
      <4>1. Settle(f, "Claimed", recipient)
        BY <3>1
      <4>2. gifts'[f[1]][f[2]] = [Gift(f) EXCEPT !.status = "Claimed", !.recipient = recipient]
        BY <4>1, SettleIs
      <4>3. QED
        BY <3>1, <4>2
    <3>2. CASE status = "Refunded"
      <4>1. Settle(f, "Refunded", recipient)
        BY <3>2
      <4>2. gifts'[f[1]][f[2]] = [Gift(f) EXCEPT !.status = "Refunded", !.recipient = recipient]
        BY <4>1, SettleIs
      <4>3. QED
        BY <3>2, <4>2
    <3>3. QED
      BY <3>1, <3>2
  <2>1. gifts'[g[1]][g[2]] = [Gift(g) EXCEPT !.status = status, !.recipient = recipient]
    BY <1>3, <2>0
  <2>2. QED
    BY <1>1, <1>2, <2>1 DEF Stays, GiftRecords
<1>4. CASE g # f
  <2>1. g[1] # f[1] \/ g[2] # f[2]
    BY <1>1, <1>4
  <2>2. \A e \in Escrows : \A n \in 1 .. Len(gifts[e]) :
            e # f[1] \/ n # f[2] => gifts'[e][n] = gifts[e][n]
    BY SettleIs
  <2>3. gifts'[g[1]][g[2]] = Gift(g)
    BY <1>1, <2>1, <2>2 DEF Gift
  <2>4. QED
    BY <1>2, <2>3 DEF Stays
<1>5. QED
  BY <1>3, <1>4

LEMMA GiftsStay ==
    ASSUME GiftedInv, [GiftNext]_allVars, NEW g \in Gifts
    PROVE  Stays(g)
<1>0. /\ GiftInv /\ g[1] \in Escrows /\ g[2] \in 1 .. Len(gifts[g[1]])
      /\ Len(gifts[g[1]]) \in Nat
  BY GiftIs DEF GiftedInv, GiftInv
<1>1. CASE gifts' = gifts
  BY <1>0, <1>1 DEF Stays, Gift
<1>2. CASE UNCHANGED allVars \/ TokenStep
  BY <1>1, <1>2 DEF allVars, giftVars, TokenStep
<1>3. CASE Tick \/ \E f \in Gifts, recipient \in Users : \E amountPCT \in ClaimPCTs(f) :
                       SignClaim(f, recipient, amountPCT)
  BY <1>1, <1>3 DEF Tick, SignClaim
<1>4. CASE \E e \in Escrows, sender \in Users, key \in LinkKeys, t \in Tokens, amount \in Amounts :
               \E expiry \in 1 .. MaxTime : CreateGift(e, sender, key, t, amount, expiry)
  <2>1. PICK e \in Escrows, sender \in Users, key \in LinkKeys, t \in Tokens, amount \in Amounts :
            \E expiry \in 1 .. MaxTime : CreateGift(e, sender, key, t, amount, expiry)
    BY <1>4
  <2>2. PICK expiry \in 1 .. MaxTime : CreateGift(e, sender, key, t, amount, expiry)
    BY <2>1
  <2>3. amount \in Nat /\ expiry \in Int
    BY NumbersAssumption
  <2>4. /\ \A f \in Escrows : f # e => gifts'[f] = gifts[f]
        /\ \A n \in 1 .. Len(gifts[e]) : gifts'[e][n] = gifts[e][n]
        /\ Len(gifts'[e]) = Len(gifts[e]) + 1
    BY <1>0, <2>2, <2>3, CreateIs
  <2>5. gifts'[g[1]][g[2]] = gifts[g[1]][g[2]]
    BY <1>0, <2>4
  <2>6. g[2] <= Len(gifts'[g[1]])
    <3>1. CASE g[1] = e
      BY <1>0, <2>4, <3>1
    <3>2. CASE g[1] # e
      BY <1>0, <2>4, <3>2
    <3>3. QED
      BY <3>1, <3>2
  <2>7. QED
    BY <2>5, <2>6 DEF Stays, Gift
<1>5. CASE \E f \in Gifts : Refund(f)
  <2>1. PICK f \in Gifts : Refund(f)
    BY <1>5
  <2>2. Settle(f, "Refunded", Gift(f).recipient) /\ Gift(f).recipient \in Users \cup {NoAddress}
    BY <1>0, <2>1, GiftIs DEF Refund, GiftRecords
  <2>3. QED
    BY <1>0, <2>2, SettledStays
<1>6. CASE \E f \in Gifts, recipient \in Users : \E s \in signed :
               \/ ClaimPublic(f, recipient, s)
               \/ \E amountPCT \in ClaimPCTs(f) : ClaimPrivate(f, recipient, amountPCT, s)
  <2>1. PICK f \in Gifts, recipient \in Users : Settle(f, "Claimed", recipient)
    BY <1>6 DEF ClaimPublic, ClaimPrivate
  <2>2. QED
    BY <1>0, <2>1, SettledStays
<1>7. QED
  BY <1>2, <1>3, <1>4, <1>5, <1>6 DEF GiftNext, GiftStep

LEMMA SignatureStays ==
    ASSUME GiftedInv, [GiftNext]_allVars, NEW s, SignedFor(s)
    PROVE  SignedFor(s)'
<1>1. s.of \in Gifts /\ s \in [key : LinkKeys, of : Gifts, recipient : Users, amountPCT : Nat]
  BY DEF SignedFor
<1>2. PICK g \in Gifts : g = s.of
  BY <1>1
<1>3. Stays(g) /\ plan' = plan
  BY GiftsStay DEF GiftNext, allVars
<1>4. g \in Gifts'
  BY <1>3 DEF Stays, Gifts
<1>5. /\ Gift(g)'.claimAddress = Gift(g).claimAddress /\ Gift(g)'.token = Gift(g).token
      /\ Gift(g)'.amount = Gift(g).amount
  BY <1>3 DEF Stays, Gift
<1>6. ClaimPCTs(g)' = ClaimPCTs(g)
  BY <1>5 DEF ClaimPCTs
<1>7. s.key = Gift(g).claimAddress /\ s.amountPCT \in ClaimPCTs(g)
  BY <1>2 DEF SignedFor
<1>8. s \in [key : LinkKeys, of : Gifts', recipient : Users, amountPCT : Nat]
  BY <1>1, <1>2, <1>4
<1>9. s.key = Gift(g)'.claimAddress /\ s.amountPCT \in ClaimPCTs(g)'
  BY <1>5, <1>6, <1>7
<1>10. QED
  BY <1>2, <1>8, <1>9 DEF SignedFor

LEMMA PCTsAreNat ==
    ASSUME GiftInv, NEW g \in Gifts
    PROVE  ClaimPCTs(g) \subseteq Nat
<1>1. Gift(g).token \in Tokens /\ Gift(g).amount \in Nat
  BY GiftIs DEF GiftRecords
<1>2. ConvertIn(Gift(g).token, Gift(g).amount) \in Nat
  BY <1>1, Conversions
<1>3. QED
  BY <1>2 DEF ClaimPCTs, DepositorPCTs

LEMMA OthersNeitherTickNorSign ==
    ASSUME GiftStep
    PROVE  \/ Tick
           \/ \E g \in Gifts, recipient \in Users : \E amountPCT \in ClaimPCTs(g) :
                  SignClaim(g, recipient, amountPCT)
           \/ now' = now /\ signed' = signed
<1>1. CASE \E e \in Escrows, sender \in Users, key \in LinkKeys, t \in Tokens, amount \in Amounts :
               \E expiry \in 1 .. MaxTime : CreateGift(e, sender, key, t, amount, expiry)
  BY <1>1 DEF CreateGift
<1>2. CASE \E g \in Gifts, recipient \in Users : \E s \in signed : ClaimPublic(g, recipient, s)
  BY <1>2 DEF ClaimPublic
<1>3. CASE \E g \in Gifts, recipient \in Users : \E s \in signed, amountPCT \in ClaimPCTs(g) :
               ClaimPrivate(g, recipient, amountPCT, s)
  BY <1>3 DEF ClaimPrivate
<1>4. CASE \E g \in Gifts : Refund(g)
  BY <1>4 DEF Refund
<1>5. QED
  BY <1>1, <1>2, <1>3, <1>4 DEF GiftStep

LEMMA SignedStep == GiftedInv /\ SignedInv /\ [GiftNext]_allVars => SignedInv'
<1> SUFFICES ASSUME GiftedInv, SignedInv, [GiftNext]_allVars PROVE SignedInv'
  OBVIOUS
<1>1. plan' = plan
  BY DEF GiftNext, allVars
<1>2. now' \in Nat
  <2>1. now \in Nat
    BY DEF SignedInv
  <2>2. CASE Tick
    BY <2>1, <2>2 DEF Tick
  <2>3. CASE now' = now
    BY <2>1, <2>3
  <2>4. CASE \E g \in Gifts, recipient \in Users : \E amountPCT \in ClaimPCTs(g) :
                 SignClaim(g, recipient, amountPCT)
    BY <2>3, <2>4 DEF SignClaim
  <2>5. CASE TokenStep
    BY <2>3, <2>5 DEF TokenStep, giftVars
  <2>6. QED
    BY <2>2, <2>3, <2>4, <2>5, OthersNeitherTickNorSign DEF GiftNext, allVars, giftVars
<1>3. ASSUME NEW s \in signed PROVE SignedFor(s)'
  BY SignatureStays DEF SignedInv
<1>4. CASE signed' = signed
  BY <1>1, <1>2, <1>3, <1>4 DEF SignedInv
<1>5. CASE \E g \in Gifts, recipient \in Users : \E amountPCT \in ClaimPCTs(g) :
               SignClaim(g, recipient, amountPCT)
  <2>1. PICK g \in Gifts, recipient \in Users : \E amountPCT \in ClaimPCTs(g) :
            SignClaim(g, recipient, amountPCT)
    BY <1>5
  <2>2. PICK amountPCT \in ClaimPCTs(g) : SignClaim(g, recipient, amountPCT)
    BY <2>1
  <2> DEFINE s == [key |-> Gift(g).claimAddress, of |-> g, recipient |-> recipient,
                   amountPCT |-> amountPCT]
  <2>3. signed' = signed \cup {s}
    BY <2>2 DEF SignClaim
  <2>4. SignedFor(s)
    <3>1. Gift(g).claimAddress \in LinkKeys /\ amountPCT \in Nat
      BY GiftIs, PCTsAreNat DEF GiftedInv, GiftRecords
    <3>2. QED
      BY <3>1 DEF SignedFor
  <2> HIDE DEF s
  <2>5. PICK t : t = s
    OBVIOUS
  <2>6. SignedFor(t)'
    BY <2>4, <2>5, SignatureStays
  <2>7. QED
    BY <1>1, <1>2, <1>3, <2>3, <2>5, <2>6 DEF SignedInv
<1>6. CASE TokenStep \/ UNCHANGED allVars
  BY <1>4, <1>6 DEF TokenStep, giftVars, allVars
<1>7. CASE Tick
  BY <1>4, <1>7 DEF Tick
<1>8. QED
  BY <1>4, <1>5, <1>6, <1>7, OthersNeitherTickNorSign DEF GiftNext

LEMMA SignedInit == GiftInit => SignedInv
BY DEF GiftInit, SignedInv

(* The expiry decides which way out is open, never both, and the escrow    *)
(* has the tokens for it; before it, what was signed can be submitted.     *)
LEMMA WayOutFollows == GiftedInv /\ HeldInv /\ SignedInv => OneWayOut
<1> SUFFICES ASSUME GiftedInv, HeldInv, SignedInv, NEW g \in Open
             PROVE  /\ now >= Gift(g).expiry => Refundable(g)
                    /\ \A s \in signed, recipient \in Users, amountPCT \in ClaimPCTs(g) :
                           ~(Claimable(g, recipient, amountPCT, s) /\ Refundable(g))
                    /\ now < Gift(g).expiry =>
                           \A s \in signed :
                               s.of = g /\ (g[1] = "private" => DepositAccepted(g, s.recipient))
                                   => s.amountPCT \in ClaimPCTs(g)
                                      /\ Claimable(g, s.recipient, s.amountPCT, s)
  BY DEF OneWayOut
<1>1. g \in Gifts /\ Gift(g).expiry \in Int /\ now \in Int
  BY GiftIs DEF Open, GiftedInv, GiftRecords, SignedInv
<1>2. InEscrow(g)
  BY CoveredFollows DEF GiftsCovered
<1>3. now >= Gift(g).expiry => Refundable(g)
  BY <1>2 DEF Refundable, RefundOpen
<1>4. ASSUME NEW s \in signed, NEW recipient \in Users, NEW amountPCT \in ClaimPCTs(g)
      PROVE  ~(Claimable(g, recipient, amountPCT, s) /\ Refundable(g))
  BY <1>1 DEF Claimable, ClaimOpen, Refundable, RefundOpen
<1>5. ASSUME now < Gift(g).expiry, NEW s \in signed, s.of = g,
             g[1] = "private" => DepositAccepted(g, s.recipient)
      PROVE  s.amountPCT \in ClaimPCTs(g) /\ Claimable(g, s.recipient, s.amountPCT, s)
  <2>1. s.key = Gift(g).claimAddress /\ s.amountPCT \in ClaimPCTs(g)
    BY <1>5 DEF SignedInv, SignedFor
  <2>2. claimDigest(g, s.recipient, s.amountPCT) = claimDigest(s.of, s.recipient, s.amountPCT)
    BY <1>5
  <2>3. QED
    BY <1>2, <1>5, <2>1, <2>2 DEF Claimable, ClaimOpen
<1>6. QED
  BY <1>3, <1>4, <1>5

(* Any number of gifts: each can be redeemed, and in one way at a time,    *)
(* whatever the token's owner did since it was created.                    *)
THEOREM EveryGiftHasOneWayOut == GiftSpec => []GiftsRedeemable
<1> DEFINE AllGiftsInv == GiftedInv /\ HeldInv /\ SignedInv
<1>1. GiftInit => AllGiftsInv
  BY GiftedInit, HeldInit, SignedInit
<1>2. AllGiftsInv /\ [GiftNext]_allVars => AllGiftsInv'
  BY GiftedStep, HeldStep, SignedStep
<1>3. AllGiftsInv => GiftsRedeemable
  <2> SUFFICES ASSUME AllGiftsInv PROVE GiftsRedeemable
    OBVIOUS
  <2>1. GiftTypes
    BY DEF GiftedInv, GiftInv, SignedInv, SignedFor, GiftTypes
  <2>2. EscrowsHoldGifts
    BY HoldsIs DEF GiftedInv, HeldInv, EscrowsHoldGifts
  <2>3. QED
    BY <2>1, <2>2, WayOutFollows DEF GiftsRedeemable
<1> HIDE DEF AllGiftsInv
<1>4. QED
  BY <1>1, <1>2, <1>3, PTL DEF GiftSpec
-----------------------------------------------------------------------------
(* The swap-and-pop loop of _deleteUserHistory keeps exactly what it must. *)

(* What one write does to an array without duplicates.                     *)

Injective(s) == \A j, k \in 1 .. Len(s) : s[j] = s[k] => j = k

LEMMA AppendNew ==
    ASSUME NEW s \in Seq(AmountPCT), Injective(s), NEW p \in AmountPCT, p \notin Elements(s)
    PROVE  /\ Append(s, p) \in Seq(AmountPCT)
           /\ Elements(Append(s, p)) = Elements(s) \cup {p}
           /\ Injective(Append(s, p))
<1> DEFINE t == Append(s, p)
<1>1. /\ t \in Seq(AmountPCT) /\ Len(t) = Len(s) + 1 /\ Len(s) \in Nat
      /\ t[Len(s) + 1] = p
      /\ \A j \in 1 .. Len(s) : t[j] = s[j]
  OBVIOUS
<1> HIDE DEF t
<1>2. Elements(t) = Elements(s) \cup {p}
  BY <1>1 DEF Elements
<1>3. Injective(t)
  BY <1>1 DEF Elements, Injective
<1>4. QED
  BY <1>1, <1>2, <1>3 DEF t

LEMMA SwapAndPopRemoves ==
    ASSUME NEW s \in Seq(AmountPCT), Injective(s), NEW j \in 1 .. Len(s)
    PROVE  /\ SwapAndPop(s, j) \in Seq(AmountPCT)
           /\ Len(SwapAndPop(s, j)) = Len(s) - 1
           /\ Elements(SwapAndPop(s, j)) = Elements(s) \ {s[j]}
           /\ Injective(SwapAndPop(s, j))
<1> DEFINE t == SwapAndPop(s, j)
<1>1. Len(s) \in Nat /\ Len(s) - 1 \in Nat /\ \A k \in 1 .. Len(s) : s[k] \in AmountPCT
  OBVIOUS
<1>2. t \in Seq(AmountPCT) /\ Len(t) = Len(s) - 1
  BY <1>1 DEF SwapAndPop
<1>3. \A k \in 1 .. Len(s) - 1 : t[k] = IF k = j THEN s[Len(s)] ELSE s[k]
  BY DEF SwapAndPop
<1> HIDE DEF t
<1>4. Elements(t) \subseteq Elements(s) \ {s[j]}
  BY <1>1, <1>2, <1>3 DEF Elements, Injective
<1>5. ASSUME NEW k \in 1 .. Len(s), k # j
      PROVE  s[k] \in Elements(t)
  <2>1. CASE k = Len(s)
    BY <1>1, <1>2, <1>3, <1>5, <2>1 DEF Elements
  <2>2. CASE k # Len(s)
    BY <1>1, <1>2, <1>3, <1>5, <2>2 DEF Elements
  <2>3. QED
    BY <2>1, <2>2
<1>6. Elements(t) = Elements(s) \ {s[j]}
  BY <1>4, <1>5 DEF Elements
<1>7. Injective(t)
  BY <1>1, <1>2, <1>3 DEF Injective
<1>8. QED
  BY <1>2, <1>6, <1>7 DEF t

-----------------------------------------------------------------------------
(* The inductive invariant: between credits and spends the array is the    *)
(* set; in the loop everything recent is still in the array and the part   *)
(* from i on holds nothing else.                                           *)

ArrayIs(set) == Elements(amountPCTs) = set /\ Injective(amountPCTs)

LoopInv ==
    /\ Injective(amountPCTs)
    /\ i <= Len(amountPCTs)
    /\ Elements(amountPCTs) \subseteq balance.amountPCTs
    /\ {p \in balance.amountPCTs : p.index > transactionIndex} \subseteq Elements(amountPCTs)
    /\ \A j \in 1 .. Len(amountPCTs) : j > i => amountPCTs[j].index > transactionIndex

(* The next index is beyond every one in use, so a credit is never a       *)
(* duplicate.                                                              *)
IndexIsFresh == \A p \in balance.amountPCTs : p.index < balance.transactionIndex

DeletionInv ==
    /\ DeletionTypeOK
    /\ IndexIsFresh
    /\ ~deleting => ArrayIs(balance.amountPCTs)
    /\ deleting => LoopInv

LEMMA DeletionInitInv == DeletionInit => DeletionInv
<1>1. EmptyBalance \in Balance
  BY DEF EmptyBalance, Balance, NoCiphertext, Ciphertext
<1>2. EmptyBalance.amountPCTs = {}
  BY DEF EmptyBalance
<1>3. ASSUME DeletionInit PROVE DeletionInv
  <2>1. /\ balance = EmptyBalance /\ amountPCTs = <<>> /\ Len(amountPCTs) = 0
        /\ i = 0 /\ transactionIndex = 0 /\ deleting = FALSE
    BY <1>3 DEF DeletionInit
  <2>2. DeletionTypeOK
    <3>1. <<>> \in Seq(AmountPCT)
      OBVIOUS
    <3>2. QED
      BY <1>1, <2>1, <3>1 DEF DeletionTypeOK
  <2>3. Elements(<<>>) = {} /\ Injective(<<>>)
    BY DEF Elements, Injective
  <2>4. QED
    BY <1>2, <2>1, <2>2, <2>3 DEF DeletionInv, ArrayIs, IndexIsFresh
<1>4. QED
  BY <1>3

LEMMA CreditInv ==
    ASSUME DeletionAssumption, DeletionInv, NEW pct \in PCTs, Credit(pct)
    PROVE  DeletionInv'
<1> DEFINE p == [pct |-> pct, index |-> balance.transactionIndex]
           ct == Encrypt(PublicKey, pct)
<1>1. ct \in Ciphertext /\ pct \in Int /\ balance \in Balance
  BY DEF DeletionAssumption, Encrypt, Ciphertext, DeletionInv, DeletionTypeOK
<1>2. p \in AmountPCT /\ p.index = balance.transactionIndex /\ balance.transactionIndex \in Nat
      /\ balance.amountPCTs \subseteq AmountPCT
  BY <1>1 DEF Balance, AmountPCT
<1>3. balance' = AddToUserBalance(balance, ct, pct) /\ amountPCTs' = Append(amountPCTs, p)
      /\ ~deleting /\ UNCHANGED <<i, transactionIndex, deleting>>
  BY DEF Credit
<1> HIDE DEF ct
<1>4. /\ balance' \in Balance
      /\ balance'.amountPCTs = balance.amountPCTs \cup {p}
      /\ balance'.transactionIndex = balance.transactionIndex + 1
  BY <1>1, <1>3, AddToUserBalanceWrites
<1> HIDE DEF p
<1>5. ArrayIs(balance.amountPCTs) /\ amountPCTs \in Seq(AmountPCT)
  BY <1>3 DEF DeletionInv, DeletionTypeOK
<1>6. p \notin balance.amountPCTs
  BY <1>2 DEF DeletionInv, IndexIsFresh, AmountPCT
<1>7. amountPCTs' \in Seq(AmountPCT) /\ ArrayIs(balance.amountPCTs)'
  BY <1>2, <1>3, <1>4, <1>5, <1>6, AppendNew DEF ArrayIs
<1>8. IndexIsFresh'
  BY <1>2, <1>4 DEF DeletionInv, IndexIsFresh, AmountPCT
<1>9. QED
  BY <1>3, <1>4, <1>7, <1>8 DEF DeletionInv, DeletionTypeOK

LEMMA StartDeletionInv ==
    ASSUME DeletionInv, NEW h \in ValidHistory(balance), StartDeletion(h)
    PROVE  DeletionInv'
<1>1. balance \in Balance /\ amountPCTs \in Seq(AmountPCT) /\ ArrayIs(balance.amountPCTs)
  BY DEF DeletionInv, DeletionTypeOK, StartDeletion
<1>2. h.index \in Nat
  BY <1>1 DEF ValidHistory, Balance, BalanceHistory
<1>3. deleting' = TRUE /\ i' = Len(amountPCTs) /\ i' \in Nat /\ transactionIndex' = h.index
      /\ UNCHANGED <<balance, amountPCTs>>
  BY <1>1 DEF StartDeletion
<1>4. LoopInv'
  BY <1>1, <1>3 DEF LoopInv, ArrayIs
<1>5. QED
  BY <1>1, <1>2, <1>3, <1>4 DEF DeletionInv, DeletionTypeOK, IndexIsFresh

LEMMA VisitInv ==
    ASSUME DeletionInv, Visit
    PROVE  DeletionInv'
<1>1. /\ LoopInv /\ amountPCTs \in Seq(AmountPCT) /\ i \in Nat /\ i > 0
      /\ i' = i - 1 /\ deleting' = TRUE /\ transactionIndex \in Nat
      /\ UNCHANGED <<balance, transactionIndex>>
  BY DEF DeletionInv, DeletionTypeOK, Visit
<1>2. i \in 1 .. Len(amountPCTs) /\ Injective(amountPCTs)
      /\ \A j \in 1 .. Len(amountPCTs) : amountPCTs[j].index \in Nat
  <2>1. Len(amountPCTs) \in Nat /\ \A j \in 1 .. Len(amountPCTs) : amountPCTs[j] \in AmountPCT
    BY <1>1
  <2>2. \A j \in 1 .. Len(amountPCTs) : amountPCTs[j].index \in Nat
    BY <2>1 DEF AmountPCT
  <2>3. QED
    BY <1>1, <2>1, <2>2 DEF LoopInv
<1>3. amountPCTs' \in Seq(AmountPCT) /\ LoopInv'
  <2>1. CASE IsCovered(i)
    <3> DEFINE t == SwapAndPop(amountPCTs, i)
    <3>1. amountPCTs' = t /\ amountPCTs[i].index <= transactionIndex
      BY <2>1 DEF Visit, IsCovered
    <3>2. /\ t \in Seq(AmountPCT) /\ Len(t) = Len(amountPCTs) - 1 /\ Injective(t)
          /\ Elements(t) = Elements(amountPCTs) \ {amountPCTs[i]}
      BY <1>1, <1>2, SwapAndPopRemoves
    <3>3. \A k \in 1 .. Len(amountPCTs) - 1 :
              t[k] = IF k = i THEN amountPCTs[Len(amountPCTs)] ELSE amountPCTs[k]
      BY DEF SwapAndPop
    <3> HIDE DEF t
    <3>4. \A j \in 1 .. Len(t) : j > i - 1 => t[j].index > transactionIndex
      <4> SUFFICES ASSUME NEW j \in 1 .. Len(t), j > i - 1
                   PROVE  t[j].index > transactionIndex
        OBVIOUS
      <4>1. Len(amountPCTs) \in Nat /\ Len(amountPCTs) > i /\ j < Len(amountPCTs)
            /\ j \in 1 .. Len(amountPCTs) /\ j \in 1 .. Len(amountPCTs) - 1
        BY <1>1, <1>2, <3>2
      <4>2. CASE j = i
        BY <1>1, <3>3, <4>1, <4>2 DEF LoopInv
      <4>3. CASE j # i
        BY <1>1, <3>3, <4>1, <4>3 DEF LoopInv
      <4>4. QED
        BY <4>2, <4>3
    <3>5. i - 1 <= Len(t)
      BY <1>1, <1>2, <3>2
    <3>6. {p \in balance.amountPCTs : p.index > transactionIndex} \subseteq Elements(t)
      BY <1>1, <1>2, <3>1, <3>2 DEF LoopInv
    <3>7. QED
      BY <1>1, <3>1, <3>2, <3>4, <3>5, <3>6 DEF LoopInv
  <2>2. CASE ~IsCovered(i)
    <3>1. amountPCTs' = amountPCTs /\ amountPCTs[i].index > transactionIndex
      BY <1>1, <1>2, <2>2 DEF Visit, IsCovered
    <3>2. \A j \in 1 .. Len(amountPCTs) : j > i - 1 => amountPCTs[j].index > transactionIndex
      BY <1>1, <1>2, <3>1 DEF LoopInv
    <3>3. i - 1 <= Len(amountPCTs)
      BY <1>1, <1>2
    <3>4. QED
      BY <1>1, <3>1, <3>2, <3>3 DEF LoopInv
  <2>3. QED
    BY <2>1, <2>2
<1>4. QED
  BY <1>1, <1>3 DEF DeletionInv, DeletionTypeOK, IndexIsFresh

LEMMA FinishDeletionInv ==
    ASSUME DeletionInv, FinishDeletion
    PROVE  DeletionInv'
<1>1. /\ LoopInv /\ amountPCTs \in Seq(AmountPCT) /\ i = 0 /\ transactionIndex \in Nat
      /\ balance \in Balance /\ balance' = DeleteUserHistory(balance, transactionIndex)
      /\ deleting' = FALSE /\ UNCHANGED <<amountPCTs, i, transactionIndex>>
  BY DEF DeletionInv, DeletionTypeOK, FinishDeletion
<1>2. /\ balance' \in Balance
      /\ balance'.amountPCTs = {p \in balance.amountPCTs : p.index > transactionIndex}
      /\ balance'.transactionIndex = balance.transactionIndex + 1
  BY <1>1, DeleteUserHistoryWrites
<1>3. Elements(amountPCTs) = balance'.amountPCTs
  BY <1>1, <1>2 DEF LoopInv, Elements
<1>4. ArrayIs(balance.amountPCTs)'
  BY <1>1, <1>3 DEF ArrayIs, LoopInv
<1>5. balance.transactionIndex \in Nat /\ balance.amountPCTs \subseteq AmountPCT
  BY <1>1 DEF Balance
<1>6. IndexIsFresh'
  BY <1>2, <1>5 DEF DeletionInv, IndexIsFresh, AmountPCT
<1>7. QED
  BY <1>1, <1>2, <1>4, <1>6 DEF DeletionInv, DeletionTypeOK

LEMMA DeletionInvariance ==
    ASSUME DeletionAssumption
    PROVE  DeletionSpec => []DeletionInv
<1>1. DeletionInv /\ [DeletionNext]_deletionVars => DeletionInv'
  <2> SUFFICES ASSUME DeletionInv, [DeletionNext]_deletionVars PROVE DeletionInv'
    OBVIOUS
  <2>1. CASE UNCHANGED deletionVars
    BY <2>1 DEF deletionVars, DeletionInv, DeletionTypeOK, IndexIsFresh, ArrayIs, LoopInv
  <2>2. CASE DeletionNext
    BY <2>2, CreditInv, StartDeletionInv, VisitInv, FinishDeletionInv DEF DeletionNext
  <2>3. QED
    BY <2>1, <2>2
<1>2. QED
  BY DeletionInitInv, <1>1, PTL DEF DeletionSpec
-----------------------------------------------------------------------------
(* Theorems.                                                               *)

(* The array of amount PCTs is the set it stands for whenever no deletion  *)
(* runs, whatever credits and spends came before: the set in               *)
(* EncryptedUserBalances is a faithful abstraction of the contract's array.*)
THEOREM ArrayImplementsSet ==
    ASSUME DeletionAssumption
    PROVE  DeletionSpec => []ArrayHoldsTheSet
<1>1. DeletionInv => ArrayHoldsTheSet
  BY DEF DeletionInv, ArrayIs, Injective, ArrayHoldsTheSet
<1>2. QED
  BY DeletionInvariance, <1>1, PTL

(* In the middle of the loop no amount that must stay is missing and no    *)
(* visited place holds one that must go.                                   *)
THEOREM LoopLosesNothing ==
    ASSUME DeletionAssumption
    PROVE  DeletionSpec => []NothingLostSoFar
<1>1. ASSUME DeletionInv PROVE NothingLostSoFar
  <2>1. CASE deleting
    <3>1. balance \in Balance /\ LoopInv /\ transactionIndex \in Nat
          /\ amountPCTs \in Seq(AmountPCT)
      BY <1>1, <2>1 DEF DeletionInv, DeletionTypeOK
    <3>2. DropAmounts(balance, transactionIndex).amountPCTs \subseteq Elements(amountPCTs)
      BY <3>1, DropAmountsWrites DEF LoopInv
    <3>3. \A j \in 1 .. Len(amountPCTs) : amountPCTs[j] \in AmountPCT
      BY <3>1
    <3>4. \A j \in 1 .. Len(amountPCTs) : amountPCTs[j].index \in Nat
      BY <3>3 DEF AmountPCT
    <3>5. \A j \in 1 .. Len(amountPCTs) : j > i => ~IsCovered(j)
      BY <3>1, <3>4 DEF LoopInv, IsCovered
    <3>6. QED
      BY <3>2, <3>5 DEF NothingLostSoFar
  <2>2. QED
    BY <2>1 DEF NothingLostSoFar
<1>2. QED
  BY DeletionInvariance, <1>1, PTL

(* The loop stays within the array, so the deletion never reverts.         *)
THEOREM LoopStaysInBounds ==
    ASSUME DeletionAssumption
    PROVE  DeletionSpec => []IndexInBounds
<1>1. DeletionInv => IndexInBounds
  BY DEF DeletionInv, LoopInv, IndexInBounds
<1>2. QED
  BY DeletionInvariance, <1>1, PTL

(* The array and the loop are faithful to the set for arrays of any length.*)
THEOREM DeletionIsFaithful ==
    ASSUME DeletionAssumption
    PROVE  DeletionSpec => []DeletionFaithful
<1>1. DeletionInv => DeletionTypeOK
  BY DEF DeletionInv
<1>2. QED
  BY <1>1, DeletionInvariance, ArrayImplementsSet, LoopLosesNothing, LoopStaysInBounds, PTL
     DEF DeletionFaithful
=============================================================================
