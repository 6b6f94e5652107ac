------------------------------ MODULE HookProofs ------------------------------
(* For any knowledge bases, limits and length of a conversation: what the hook
   puts out (Hook), and how it and the recall function rank (Recall). *)
EXTENDS Hook, FiniteSetTheorems, FunctionTheorems, TLAPS

(***************************************************************************)
(* The k-th element of a set in an order                                   *)
(***************************************************************************)
Below(S, R, x) == {y \in S : <<y, x>> \in R}

Linear(S, R) ==
  /\ \A x \in S : <<x, x>> \notin R
  /\ \A x, y \in S : x = y \/ <<x, y>> \in R \/ <<y, x>> \in R
  /\ \A x, y, z \in S : <<x, y>> \in R /\ <<y, z>> \in R => <<x, z>> \in R

LEMMA BelowGrows ==
  ASSUME NEW S, IsFiniteSet(S), NEW R, Linear(S, R), NEW x \in S
  PROVE  /\ IsFiniteSet(Below(S, R, x))
         /\ Cardinality(Below(S, R, x)) \in 0..(Cardinality(S) - 1)
         /\ \A y \in S : <<x, y>> \in R =>
              Cardinality(Below(S, R, x)) < Cardinality(Below(S, R, y))
<1>1. Cardinality(S) \in Nat
  BY FS_CardinalityType
<1>2. \A y \in S : IsFiniteSet(Below(S, R, y)) /\ Cardinality(Below(S, R, y)) \in Nat
  <2> TAKE y \in S
  <2>1. Below(S, R, y) \in SUBSET S
    BY DEF Below
  <2> QED BY <2>1, FS_Subset, FS_CardinalityType
<1>3. Cardinality(Below(S, R, x)) <= Cardinality(S) - 1
  <2>1. Below(S, R, x) \in SUBSET (S \ {x})
    BY DEF Below, Linear
  <2>2. IsFiniteSet(S \ {x}) /\ Cardinality(S \ {x}) = Cardinality(S) - 1
    BY FS_RemoveElement
  <2> QED BY <2>1, <2>2, FS_Subset
<1>4. ASSUME NEW y \in S, <<x, y>> \in R
      PROVE  Cardinality(Below(S, R, x)) < Cardinality(Below(S, R, y))
  <2> DEFINE T == Below(S, R, y) \ {x}
  <2>1. x \in Below(S, R, y) /\ IsFiniteSet(Below(S, R, y))
    BY <1>2, <1>4 DEF Below
  <2>2. IsFiniteSet(T) /\ Cardinality(T) = Cardinality(Below(S, R, y)) - 1
    BY <2>1, FS_RemoveElement
  <2>3. Below(S, R, x) \in SUBSET T
    BY <1>4 DEF Below, Linear
  <2>4. Cardinality(Below(S, R, x)) <= Cardinality(T)
    <3> HIDE DEF T
    <3> QED BY <2>2, <2>3, FS_Subset
  <2> QED BY <1>2, <2>2, <2>4
<1> QED BY <1>1, <1>2, <1>3, <1>4

(* Every rank is that of an element *)
LEMMA Ranks ==
  ASSUME NEW S, IsFiniteSet(S), NEW R, Linear(S, R),
         NEW k \in 1..Cardinality(S)
  PROVE  \E x \in S : Cardinality(Below(S, R, x)) = k - 1
<1> DEFINE n == Cardinality(S)
           f == [x \in S |-> Cardinality(Below(S, R, x))]
<1>1. n \in Nat
  BY FS_CardinalityType
<1>2. IsFiniteSet(0..(n - 1)) /\ Cardinality(0..(n - 1)) = n
  <2>1. 0 \in Int /\ n - 1 \in Int
    BY <1>1
  <2>2. /\ IsFiniteSet(0..(n - 1))
        /\ Cardinality(0..(n - 1)) = IF 0 > n - 1 THEN 0 ELSE (n - 1) - 0 + 1
    <3> HIDE DEF n
    <3> QED BY <2>1, FS_Interval
  <2> QED BY <1>1, <2>2
<1>3. f \in Injection(S, 0..(n - 1))
  <2>1. f \in [S -> 0..(n - 1)]
    BY BelowGrows
  <2>2. ASSUME NEW x \in S, NEW y \in S, f[x] = f[y] PROVE x = y
    <3>1. f[x] \in Nat /\ f[y] \in Nat
      BY <1>1, <2>1
    <3>2. <<x, y>> \in R => f[x] < f[y]
      BY BelowGrows
    <3>3. <<y, x>> \in R => f[y] < f[x]
      BY BelowGrows
    <3>4. x = y \/ <<x, y>> \in R \/ <<y, x>> \in R
      BY DEF Linear
    <3> QED BY <2>2, <3>1, <3>2, <3>3, <3>4
  <2> HIDE DEF f, n
  <2> QED BY <2>1, <2>2 DEF Injection, IsInjective
<1>4. f \in Surjection(S, 0..(n - 1))
  <2> HIDE DEF f
  <2> QED BY <1>2, <1>3, FS_Injection
<1>5. k - 1 \in 0..(n - 1)
  BY <1>1
<1>6. \E x \in S : f[x] = k - 1
  <2> HIDE DEF f, n
  <2> QED BY <1>4, <1>5 DEF Surjection
<1> QED BY <1>6

(* A set that is not empty has a first element *)
LEMMA First ==
  ASSUME NEW S, IsFiniteSet(S), NEW R, Linear(S, R), S # {}
  PROVE  \E x \in S : \A y \in S : x = y \/ <<x, y>> \in R
<1>1. Cardinality(S) \in Nat /\ Cardinality(S) # 0
  BY FS_CardinalityType, FS_EmptySet
<1>2. PICK x \in S : Cardinality(Below(S, R, x)) = 1 - 1
  BY <1>1, Ranks
<1>3. IsFiniteSet(Below(S, R, x)) /\ Cardinality(Below(S, R, x)) = 0
  BY <1>2, BelowGrows
<1>4. Below(S, R, x) = {}
  BY <1>3, FS_EmptySet
<1> QED BY <1>4 DEF Below, Linear

(* The ranks are in the order of the elements *)
LEMMA RankOrders ==
  ASSUME NEW S, IsFiniteSet(S), NEW R, Linear(S, R), NEW x \in S, NEW y \in S
  PROVE  /\ Cardinality(Below(S, R, x)) < Cardinality(Below(S, R, y)) => <<x, y>> \in R
         /\ Cardinality(Below(S, R, x)) = Cardinality(Below(S, R, y)) => x = y
<1>0. Cardinality(S) \in Nat
  BY FS_CardinalityType
<1>1. /\ Cardinality(Below(S, R, x)) \in Int
      /\ <<x, y>> \in R => Cardinality(Below(S, R, x)) < Cardinality(Below(S, R, y))
  BY <1>0, BelowGrows
<1>2. /\ Cardinality(Below(S, R, y)) \in Int
      /\ <<y, x>> \in R => Cardinality(Below(S, R, y)) < Cardinality(Below(S, R, x))
  BY <1>0, BelowGrows
<1>3. x = y \/ <<x, y>> \in R \/ <<y, x>> \in R
  BY DEF Linear
<1> QED BY <1>1, <1>2, <1>3

-----------------------------------------------------------------------------
(***************************************************************************)
(* The turns of the lists of several knowledge bases                       *)
(***************************************************************************)
Lists == Seq(Seq(Result))

Turning(ls) == {p \in Turns(ls) \X Turns(ls) : Before(p[1], p[2])}

(* The position in the order of the turns *)
Place(ls, t) == Cardinality(Below(Fresh(ls), Turning(ls), t))

LEMMA TurnTypes ==
  ASSUME NEW ls \in Lists, NEW t \in Turns(ls)
  PROVE  /\ t.list \in DOMAIN ls /\ t.list \in Nat
         /\ t.rank \in DOMAIN ls[t.list] /\ t.rank \in Nat
         /\ t = [list |-> t.list, rank |-> t.rank]
         /\ At(ls, t) \in Result
<1>1. PICK l \in DOMAIN ls : \E r \in DOMAIN ls[l] : t = [list |-> l, rank |-> r]
  BY DEF Turns
<1>2. PICK r \in DOMAIN ls[l] : t = [list |-> l, rank |-> r]
  BY <1>1
<1>3. l \in 1..Len(ls) /\ ls[l] \in Seq(Result)
  BY DEF Lists
<1>4. r \in 1..Len(ls[l]) /\ ls[l][r] \in Result
  BY <1>3
<1> QED BY <1>2, <1>3, <1>4 DEF At

LEMMA IsTurn ==
  ASSUME NEW ls, NEW l \in DOMAIN ls, NEW r \in DOMAIN ls[l]
  PROVE  [list |-> l, rank |-> r] \in Turns(ls)
BY DEF Turns

LEMMA TurnsFinite ==
  ASSUME NEW ls \in Lists
  PROVE  IsFiniteSet(Turns(ls))
<1> DEFINE Row(l) == {[list |-> l, rank |-> r] : r \in DOMAIN ls[l]}
           Rows == {Row(l) : l \in DOMAIN ls}
<1>1. ASSUME NEW l \in DOMAIN ls PROVE IsFiniteSet(Row(l))
  <2> DEFINE f == [r \in DOMAIN ls[l] |-> [list |-> l, rank |-> r]]
  <2>1. ls[l] \in Seq(Result)
    BY DEF Lists
  <2>2. DOMAIN ls[l] = 1..Len(ls[l]) /\ Len(ls[l]) \in Nat
    BY <2>1
  <2>3. IsFiniteSet(DOMAIN ls[l])
    BY <2>2, FS_Interval
  <2>4. f \in Surjection(DOMAIN ls[l], Row(l))
    BY DEF Surjection
  <2> HIDE DEF f, Row
  <2> QED BY <2>3, <2>4, FS_Surjection
<1>2. IsFiniteSet(Rows)
  <2> DEFINE f == [l \in DOMAIN ls |-> Row(l)]
  <2>1. DOMAIN ls = 1..Len(ls) /\ Len(ls) \in Nat
    BY DEF Lists
  <2>2. IsFiniteSet(DOMAIN ls)
    BY <2>1, FS_Interval
  <2>3. f \in Surjection(DOMAIN ls, Rows)
    <3> HIDE DEF Row
    <3> QED BY DEF Surjection
  <2> HIDE DEF f, Rows
  <2> QED BY <2>2, <2>3, FS_Surjection
<1>3. IsFiniteSet(UNION Rows)
  <2>1. \A T \in Rows : IsFiniteSet(T)
    BY <1>1
  <2> HIDE DEF Rows
  <2> QED BY <1>2, <2>1, FS_UNION
<1> QED BY <1>3 DEF Turns

LEMMA TurnsLinear ==
  ASSUME NEW ls \in Lists, NEW S \in SUBSET Turns(ls)
  PROVE  IsFiniteSet(S) /\ Linear(S, Turning(ls))
<1>1. IsFiniteSet(S)
  BY TurnsFinite, FS_Subset
<1>2. \A t \in S : /\ t.list \in Nat /\ t.rank \in Nat
                   /\ t = [list |-> t.list, rank |-> t.rank]
  BY TurnTypes
<1>3. \A s, t \in S : <<s, t>> \in Turning(ls) <=> Before(s, t)
  BY DEF Turning
<1>4. \A s \in S : ~Before(s, s)
  BY <1>2 DEF Before
<1>5. \A s, t \in S : s = t \/ Before(s, t) \/ Before(t, s)
  <2> TAKE s \in S, t \in S
  <2>1. s.list = t.list /\ s.rank = t.rank => s = t
    BY <1>2, Zenon
  <2> QED BY <1>2, <2>1 DEF Before
<1>6. \A s, t, u \in S : Before(s, t) /\ Before(t, u) => Before(s, u)
  BY <1>2 DEF Before
<1>7. Linear(S, Turning(ls))
  BY <1>3, <1>4, <1>5, <1>6 DEF Linear
<1> QED BY <1>1, <1>7

LEMMA FreshTurns ==
  ASSUME NEW ls \in Lists
  PROVE  /\ Fresh(ls) \in SUBSET Turns(ls)
         /\ IsFiniteSet(Fresh(ls)) /\ Linear(Fresh(ls), Turning(ls))
         /\ Cardinality(Fresh(ls)) \in Nat
<1>1. Fresh(ls) \in SUBSET Turns(ls)
  BY DEF Fresh
<1> QED BY <1>1, TurnsLinear, FS_CardinalityType

(* What Nth chooses *)
LEMMA NthPlaced ==
  ASSUME NEW ls \in Lists, NEW k \in 1..Cardinality(Fresh(ls))
  PROVE  Nth(ls, k) \in Fresh(ls) /\ Place(ls, Nth(ls, k)) = k - 1
<1>1. Fresh(ls) \in SUBSET Turns(ls)
  BY FreshTurns
<1>2. \A t \in Fresh(ls) :
        {s \in Fresh(ls) : Before(s, t)} = Below(Fresh(ls), Turning(ls), t)
  BY <1>1 DEF Below, Turning
<1>3. \E t \in Fresh(ls) : Cardinality(Below(Fresh(ls), Turning(ls), t)) = k - 1
  BY FreshTurns, Ranks
<1>4. \E t \in Fresh(ls) : Cardinality({s \in Fresh(ls) : Before(s, t)}) = k - 1
  BY <1>2, <1>3
<1>5. /\ Nth(ls, k) \in Fresh(ls)
      /\ Cardinality({s \in Fresh(ls) : Before(s, Nth(ls, k))}) = k - 1
  BY <1>4 DEF Nth
<1> QED BY <1>2, <1>5 DEF Place

LEMMA NthReaches ==
  ASSUME NEW ls \in Lists, NEW t \in Fresh(ls)
  PROVE  /\ Place(ls, t) + 1 \in 1..Cardinality(Fresh(ls))
         /\ Nth(ls, Place(ls, t) + 1) = t
<1>1. Place(ls, t) \in 0..(Cardinality(Fresh(ls)) - 1)
  BY FreshTurns, BelowGrows DEF Place
<1>2. Place(ls, t) + 1 \in 1..Cardinality(Fresh(ls))
  BY <1>1, FreshTurns
<1>3. /\ Nth(ls, Place(ls, t) + 1) \in Fresh(ls)
      /\ Place(ls, Nth(ls, Place(ls, t) + 1)) = (Place(ls, t) + 1) - 1
  BY <1>2, NthPlaced
<1>4. Place(ls, Nth(ls, Place(ls, t) + 1)) = Place(ls, t)
  BY <1>1, <1>3
<1>5. Nth(ls, Place(ls, t) + 1) = t
  BY <1>3, <1>4, FreshTurns, RankOrders DEF Place
<1> QED BY <1>2, <1>5

LEMMA NthInOrder ==
  ASSUME NEW ls \in Lists, NEW s \in Fresh(ls), NEW t \in Fresh(ls),
         Place(ls, s) < Place(ls, t)
  PROVE  Before(s, t)
<1>1. <<s, t>> \in Turning(ls)
  BY FreshTurns, RankOrders DEF Place
<1> QED BY <1>1 DEF Turning

-----------------------------------------------------------------------------
(***************************************************************************)
(* What is put out                                                         *)
(***************************************************************************)
LEMMA OutTypes ==
  ASSUME NEW ls \in Lists
  PROVE  /\ InterleaveResults(ls) \in Seq(Result)
         /\ Len(InterleaveResults(ls)) = Lesser(MaxResults, Cardinality(Fresh(ls)))
         /\ Len(InterleaveResults(ls)) <= MaxResults
         /\ \A k \in DOMAIN InterleaveResults(ls) :
              /\ k \in 1..Cardinality(Fresh(ls))
              /\ InterleaveResults(ls)[k] = At(ls, Nth(ls, k))
<1> DEFINE n == Lesser(MaxResults, Cardinality(Fresh(ls)))
<1>1. n \in Nat /\ n <= MaxResults /\ n <= Cardinality(Fresh(ls))
  BY RecallAssumption, FreshTurns DEF Lesser
<1>2. \A k \in 1..n : k \in 1..Cardinality(Fresh(ls))
  BY <1>1, FreshTurns
<1>3. \A k \in 1..n : At(ls, Nth(ls, k)) \in Result
  BY <1>2, NthPlaced, FreshTurns, TurnTypes
<1>4. InterleaveResults(ls) = [k \in 1..n |-> At(ls, Nth(ls, k))]
  BY DEF InterleaveResults
<1> HIDE DEF n
<1>5. InterleaveResults(ls) \in [1..n -> Result]
  BY <1>3, <1>4
<1>6. InterleaveResults(ls) \in Seq(Result) /\ Len(InterleaveResults(ls)) = n
  BY <1>1, <1>5
<1> QED BY <1>1, <1>2, <1>4, <1>6 DEF n

LEMMA OutOnce ==
  ASSUME NEW ls \in Lists,
         NEW i \in DOMAIN InterleaveResults(ls), NEW j \in DOMAIN InterleaveResults(ls),
         InterleaveResults(ls)[i].uid = InterleaveResults(ls)[j].uid
  PROVE  i = j
<1>1. ASSUME NEW a \in DOMAIN InterleaveResults(ls), NEW b \in DOMAIN InterleaveResults(ls),
             a < b
      PROVE  InterleaveResults(ls)[a].uid # InterleaveResults(ls)[b].uid
  <2>1. a \in 1..Cardinality(Fresh(ls)) /\ b \in 1..Cardinality(Fresh(ls))
    BY OutTypes
  <2>2. Nth(ls, a) \in Fresh(ls) /\ Place(ls, Nth(ls, a)) = a - 1
    BY <2>1, NthPlaced
  <2>3. Nth(ls, b) \in Fresh(ls) /\ Place(ls, Nth(ls, b)) = b - 1
    BY <2>1, NthPlaced
  <2>4. Place(ls, Nth(ls, a)) < Place(ls, Nth(ls, b))
    BY <1>1, <2>1, <2>2, <2>3
  <2>5. Before(Nth(ls, a), Nth(ls, b))
    BY <2>2, <2>3, <2>4, NthInOrder
  <2>6. At(ls, Nth(ls, a)).uid # At(ls, Nth(ls, b)).uid
    BY <2>2, <2>3, <2>5 DEF Fresh, Unseen
  <2> QED BY <2>6, OutTypes
<1>2. i \in Int /\ j \in Int
  BY OutTypes, FreshTurns
<1> QED BY <1>1, <1>2

(* The first turn of a note is fresh *)
LEMMA FreshFirst ==
  ASSUME NEW ls \in Lists, NEW t \in Turns(ls)
  PROVE  \E s \in Fresh(ls) : At(ls, s).uid = At(ls, t).uid /\ s.rank <= t.rank
<1> DEFINE T == {s \in Turns(ls) : At(ls, s).uid = At(ls, t).uid}
<1>1. T \in SUBSET Turns(ls) /\ t \in T
  OBVIOUS
<1>2. IsFiniteSet(T) /\ Linear(T, Turning(ls))
  <2> HIDE DEF T
  <2> QED BY <1>1, TurnsLinear
<1>3. PICK s \in T : \A u \in T : s = u \/ <<s, u>> \in Turning(ls)
  <2> HIDE DEF T
  <2> QED BY <1>1, <1>2, First
<1>4. \A u \in T : s = u \/ Before(s, u)
  BY <1>3 DEF Turning
<1>5. \A u \in Turns(ls) : u.list \in Nat /\ u.rank \in Nat
  BY TurnTypes
<1>6. ASSUME NEW u \in Turns(ls), Before(u, s) PROVE At(ls, u).uid # At(ls, s).uid
  <2>1. SUFFICES ASSUME u \in T PROVE FALSE
    OBVIOUS
  <2> QED BY <1>3, <1>4, <1>5, <1>6, <2>1 DEF Before
<1>7. s \in Fresh(ls)
  BY <1>3, <1>6 DEF Fresh, Unseen
<1>8. s.rank <= t.rank
  BY <1>1, <1>3, <1>4, <1>5 DEF Before
<1> QED BY <1>3, <1>7, <1>8

LEMMA OutFair ==
  ASSUME NEW ls \in Lists, NEW l \in DOMAIN ls, NEW i \in DOMAIN ls[l]
  PROVE  LET out == InterleaveResults(ls) IN
           \/ ls[l][i].uid \in Uids(out)
           \/ /\ Len(out) = MaxResults
              /\ \A k \in DOMAIN out :
                   \E m \in DOMAIN ls : \E r \in DOMAIN ls[m] :
                     r <= i /\ ls[m][r].uid = out[k].uid
<1> DEFINE out == InterleaveResults(ls)
           t == [list |-> l, rank |-> i]
<1>1. t \in Turns(ls) /\ At(ls, t) = ls[l][i] /\ t.rank = i
  BY IsTurn DEF At
<1> HIDE DEF t
<1>2. PICK s \in Fresh(ls) : At(ls, s).uid = At(ls, t).uid /\ s.rank <= t.rank
  BY <1>1, FreshFirst
<1> DEFINE p == Place(ls, s) + 1
<1>3. p \in 1..Cardinality(Fresh(ls)) /\ Nth(ls, p) = s
  BY NthReaches
<1>4. Cardinality(Fresh(ls)) \in Nat /\ MaxResults \in Nat
  BY FreshTurns, RecallAssumption
<1>5. /\ out \in Seq(Result) /\ Len(out) = Lesser(MaxResults, Cardinality(Fresh(ls)))
      /\ \A k \in DOMAIN out : k \in 1..Cardinality(Fresh(ls)) /\ out[k] = At(ls, Nth(ls, k))
  BY OutTypes
<1>6. DOMAIN out = 1..Len(out)
  BY <1>5
<1>7. CASE p <= MaxResults
  <2>1. p \in DOMAIN out
    BY <1>3, <1>4, <1>5, <1>6, <1>7 DEF Lesser
  <2>2. out[p].uid = ls[l][i].uid
    BY <1>1, <1>2, <1>3, <1>5, <2>1
  <2> HIDE DEF out
  <2>3. ls[l][i].uid \in Uids(out)
    BY <2>1, <2>2 DEF Uids
  <2> QED BY <2>3 DEF out
<1>8. CASE ~(p <= MaxResults)
  <2>1. Len(out) = MaxResults
    BY <1>3, <1>4, <1>5, <1>8 DEF Lesser
  <2>2. ASSUME NEW k \in DOMAIN out
        PROVE  \E m \in DOMAIN ls : \E r \in DOMAIN ls[m] :
                 r <= i /\ ls[m][r].uid = out[k].uid
    <3>1. k \in 1..Cardinality(Fresh(ls)) /\ out[k] = At(ls, Nth(ls, k)) /\ k \in 1..MaxResults
      BY <1>5, <1>6, <2>1
    <3> DEFINE u == Nth(ls, k)
    <3>2. u \in Fresh(ls) /\ Place(ls, u) = k - 1
      BY <3>1, NthPlaced
    <3>3. Place(ls, u) < Place(ls, s)
      <4>1. Place(ls, s) \in Int
        BY FreshTurns, BelowGrows, <1>4 DEF Place
      <4> QED BY <1>3, <1>4, <1>8, <3>1, <3>2, <4>1
    <3> HIDE DEF u
    <3>4. Before(u, s)
      BY <3>2, <3>3, NthInOrder
    <3>5. u \in Turns(ls) /\ s \in Turns(ls) /\ t \in Turns(ls)
      BY <1>1, <3>2, FreshTurns
    <3>6. /\ u.list \in DOMAIN ls /\ u.rank \in DOMAIN ls[u.list] /\ u.rank \in Nat
          /\ s.rank \in Nat /\ t.rank \in Nat
      BY <3>5, TurnTypes
    <3>7. u.rank <= i
      BY <1>1, <1>2, <3>4, <3>6 DEF Before
    <3>8. ls[u.list][u.rank].uid = out[k].uid
      BY <3>1 DEF u, At
    <3> HIDE DEF out
    <3> QED BY <3>6, <3>7, <3>8
  <2> HIDE DEF out
  <2> QED BY <2>1, <2>2 DEF out
<1> QED BY <1>7, <1>8

-----------------------------------------------------------------------------
(***************************************************************************)
(* The recall function                                                     *)
(***************************************************************************)
ByHigher(s, kept) == {p \in kept \X kept : Higher(s, p[1], p[2])}

Rank(s, kept, i) == Cardinality(Below(kept, ByHigher(s, kept), i))

LEMMA RetrievalTypes ==
  ASSUME NEW s \in Retrievals
  PROVE  s \in Seq(Hit) /\ Len(s) \in Nat /\ DOMAIN s = 1..Len(s)
<1>1. Limit \in Nat
  BY RecallAssumption
<1>2. PICK n \in 0..Limit : s \in [1..n -> Hit]
  BY DEF Retrievals
<1> QED BY <1>1, <1>2

LEMMA HitTypes ==
  ASSUME NEW h \in Hit
  PROVE  h.uid \in RemoteUid /\ h.score \in Nat
BY RecallAssumption DEF Hit

LEMMA HigherLinear ==
  ASSUME NEW s \in Seq(Hit), NEW kept \in SUBSET DOMAIN s
  PROVE  /\ IsFiniteSet(kept) /\ Linear(kept, ByHigher(s, kept))
         /\ Cardinality(kept) \in Nat
<1>1. DOMAIN s = 1..Len(s) /\ Len(s) \in Nat
  OBVIOUS
<1>2. IsFiniteSet(kept)
  <2>1. IsFiniteSet(1..Len(s))
    BY <1>1, FS_Interval
  <2> QED BY <1>1, <2>1, FS_Subset
<1>3. \A i \in kept : i \in Nat /\ s[i].score \in Nat
  BY <1>1, HitTypes
<1>4. \A i, j \in kept : <<i, j>> \in ByHigher(s, kept) <=> Higher(s, i, j)
  BY DEF ByHigher
<1>5. /\ \A i \in kept : ~Higher(s, i, i)
      /\ \A i, j \in kept : i = j \/ Higher(s, i, j) \/ Higher(s, j, i)
      /\ \A i, j, k \in kept : Higher(s, i, j) /\ Higher(s, j, k) => Higher(s, i, k)
  BY <1>3 DEF Higher
<1>6. Linear(kept, ByHigher(s, kept))
  BY <1>4, <1>5 DEF Linear
<1> QED BY <1>2, <1>6, FS_CardinalityType

(* What the sorted sequence has at a place *)
LEMMA Sorted ==
  ASSUME NEW s \in Seq(Hit), NEW kept \in SUBSET DOMAIN s
  PROVE  /\ ByScore(s, kept) \in Seq(Hit)
         /\ Len(ByScore(s, kept)) = Cardinality(kept)
         /\ \A k \in 1..Cardinality(kept) :
              \E i \in kept : Rank(s, kept, i) = k - 1 /\ ByScore(s, kept)[k] = s[i]
<1> DEFINE nth(k) == CHOOSE i \in kept : Cardinality({j \in kept : Higher(s, j, i)}) = k - 1
<1>1. IsFiniteSet(kept) /\ Linear(kept, ByHigher(s, kept)) /\ Cardinality(kept) \in Nat
  BY HigherLinear
<1>2. ASSUME NEW k \in 1..Cardinality(kept)
      PROVE  nth(k) \in kept /\ Rank(s, kept, nth(k)) = k - 1
  <2>1. \A i \in kept : {j \in kept : Higher(s, j, i)} = Below(kept, ByHigher(s, kept), i)
    BY DEF Below, ByHigher
  <2>2. \E i \in kept : Cardinality(Below(kept, ByHigher(s, kept), i)) = k - 1
    BY <1>1, Ranks
  <2>3. \E i \in kept : Cardinality({j \in kept : Higher(s, j, i)}) = k - 1
    BY <2>1, <2>2
  <2>4. nth(k) \in kept /\ Cardinality({j \in kept : Higher(s, j, nth(k))}) = k - 1
    BY <2>3
  <2> HIDE DEF nth
  <2> QED BY <2>1, <2>4 DEF Rank
<1>3. ByScore(s, kept) = [k \in 1..Cardinality(kept) |-> s[nth(k)]]
  BY DEF ByScore
<1> HIDE DEF nth
<1>4. \A k \in 1..Cardinality(kept) : s[nth(k)] \in Hit
  BY <1>2
<1>5. ByScore(s, kept) \in [1..Cardinality(kept) -> Hit]
  BY <1>3, <1>4
<1>6. ByScore(s, kept) \in Seq(Hit) /\ Len(ByScore(s, kept)) = Cardinality(kept)
  BY <1>1, <1>5
<1> QED BY <1>2, <1>3, <1>6

LEMMA SortedHas ==
  ASSUME NEW s \in Seq(Hit), NEW kept \in SUBSET DOMAIN s, NEW i \in kept
  PROVE  /\ Rank(s, kept, i) + 1 \in 1..Cardinality(kept)
         /\ ByScore(s, kept)[Rank(s, kept, i) + 1] = s[i]
<1>1. IsFiniteSet(kept) /\ Linear(kept, ByHigher(s, kept)) /\ Cardinality(kept) \in Nat
  BY HigherLinear
<1>2. Rank(s, kept, i) \in 0..(Cardinality(kept) - 1)
  BY <1>1, BelowGrows DEF Rank
<1>3. Rank(s, kept, i) + 1 \in 1..Cardinality(kept)
  BY <1>1, <1>2
<1>4. PICK j \in kept : /\ Rank(s, kept, j) = (Rank(s, kept, i) + 1) - 1
                        /\ ByScore(s, kept)[Rank(s, kept, i) + 1] = s[j]
  BY <1>3, Sorted
<1>5. Rank(s, kept, j) = Rank(s, kept, i)
  BY <1>2, <1>4
<1>6. j = i
  BY <1>1, <1>5, RankOrders DEF Rank
<1> QED BY <1>3, <1>4, <1>6

LEMMA CombinedTypes ==
  ASSUME NEW first \in Seq(Hit), NEW more \in Seq(Hit)
  PROVE  LET kept   == Joined(first, more)
             sorted == ByScore(first \o more, kept)
             all    == Combined(first, more)
         IN /\ all \in Seq(Hit)
            /\ Len(all) = Lesser(Limit, Cardinality(kept))
            /\ \A k \in 1..Len(all) : k \in 1..Cardinality(kept) /\ all[k] = sorted[k]
<1> DEFINE kept   == Joined(first, more)
           sorted == ByScore(first \o more, kept)
           n      == Lesser(Limit, Cardinality(kept))
           all    == Combined(first, more)
<1>1. first \o more \in Seq(Hit) /\ kept \in SUBSET DOMAIN (first \o more)
  BY DEF Joined
<1>2. Cardinality(kept) \in Nat
  <2> HIDE DEF kept
  <2> QED BY <1>1, HigherLinear
<1>3. sorted \in Seq(Hit) /\ Len(sorted) = Cardinality(kept)
  <2> HIDE DEF kept
  <2> QED BY <1>1, Sorted
<1>4. all = SubSeq(sorted, 1, n)
  BY <1>3 DEF Combined
<1>5. n \in Nat /\ n <= Cardinality(kept)
  <2> HIDE DEF kept
  <2> QED BY <1>2, RecallAssumption DEF Lesser
<1> HIDE DEF kept, sorted, n, all
<1>6. /\ all \in Seq(Hit) /\ Len(all) = n
      /\ \A k \in 1..n : k \in 1..Cardinality(kept) /\ all[k] = sorted[k]
  BY <1>2, <1>3, <1>4, <1>5
<1> QED BY <1>6 DEF kept, sorted, n, all

LEMMA FollowUp ==
  ASSUME NEW first \in Retrievals, NEW more \in Retrievals,
         NEW i \in DOMAIN more, more[i].uid \notin Uids(first)
  PROVE  LET all == Combined(first, more) IN
           \/ \E k \in DOMAIN all : all[k] = more[i]
           \/ Len(all) = Limit /\ \A k \in DOMAIN all : all[k].score >= more[i].score
<1> DEFINE both   == first \o more
           kept   == Joined(first, more)
           sorted == ByScore(both, kept)
           all    == Combined(first, more)
           p      == Len(first) + i
           q      == Rank(both, kept, p) + 1
<1>1. first \in Seq(Hit) /\ more \in Seq(Hit) /\ i \in 1..Len(more)
  BY RetrievalTypes
<1>2. both \in Seq(Hit) /\ kept \in SUBSET DOMAIN both
  BY <1>1 DEF Joined
<1>3. p \in DOMAIN both /\ both[p] = more[i]
  BY <1>1
<1>4. p \in kept
  BY <1>1, <1>3 DEF Joined
<1>5. /\ all \in Seq(Hit)
      /\ Len(all) = Lesser(Limit, Cardinality(kept))
      /\ \A k \in 1..Len(all) : k \in 1..Cardinality(kept) /\ all[k] = sorted[k]
  BY <1>1, CombinedTypes
<1> HIDE DEF both, kept, sorted, all, p
<1>6. q \in 1..Cardinality(kept) /\ sorted[q] = both[p]
  BY <1>2, <1>4, SortedHas DEF sorted
<1>7. /\ IsFiniteSet(kept) /\ Linear(kept, ByHigher(both, kept))
      /\ Cardinality(kept) \in Nat /\ Limit \in Nat
  BY <1>2, HigherLinear, RecallAssumption
<1>8. DOMAIN all = 1..Len(all)
  BY <1>5
<1>9. CASE q <= Limit
  <2> HIDE DEF q
  <2>1. q \in DOMAIN all
    BY <1>5, <1>6, <1>7, <1>8, <1>9 DEF Lesser
  <2>2. all[q] = more[i]
    BY <1>3, <1>5, <1>6, <1>8, <2>1
  <2> QED BY <2>1, <2>2 DEF all
<1>10. CASE ~(q <= Limit)
  <2>1. Len(all) = Limit
    <3> HIDE DEF q
    <3> QED BY <1>5, <1>6, <1>7, <1>10 DEF Lesser
  <2>2. ASSUME NEW k \in DOMAIN all PROVE all[k].score >= more[i].score
    <3>1. k \in 1..Limit /\ k \in 1..Cardinality(kept) /\ all[k] = sorted[k]
      BY <1>5, <1>8, <2>1
    <3>2. PICK j \in kept : Rank(both, kept, j) = k - 1 /\ sorted[k] = both[j]
      BY <1>2, <3>1, Sorted DEF sorted
    <3>3. Rank(both, kept, p) \in Int
      BY <1>4, <1>7, BelowGrows DEF Rank
    <3>4. Rank(both, kept, j) < Rank(both, kept, p)
      BY <1>7, <1>10, <3>1, <3>2, <3>3
    <3>5. <<j, p>> \in ByHigher(both, kept)
      BY <1>4, <1>7, <3>4, RankOrders DEF Rank
    <3>6. Higher(both, j, p)
      BY <3>5 DEF ByHigher
    <3>7. both[j].score \in Nat /\ both[p].score \in Nat
      BY <1>2, <1>3, HitTypes
    <3> QED BY <1>3, <3>1, <3>2, <3>6, <3>7 DEF Higher
  <2> QED BY <2>1, <2>2 DEF all
<1> QED BY <1>9, <1>10

(* The notes of an answer *)
LEMMA AnswerTypes ==
  /\ \A s \in LocalLists : s \in Seq(LocalUid)
  /\ \A s \in RemoteLists : s \in Seq(RemoteUid)
<1>1. ASSUME NEW s \in LocalLists PROVE s \in Seq(LocalUid)
  <2>1. PICK active \in SUBSET LocalUid, count \in [LocalUid -> Scores] :
          s \in GrepNotes(active, count)
    BY DEF LocalLists
  <2> DEFINE S == {u \in active : count[u] > 0}
  <2>2. Cardinality(S) \in Nat
    BY RecallAssumption, FS_Subset, FS_CardinalityType
  <2>3. s \in [1..Cardinality(S) -> S] /\ S \in SUBSET LocalUid
    BY <2>1 DEF GrepNotes, SetToSeqs
  <2> HIDE DEF S
  <2> QED BY <2>2, <2>3
<1>2. ASSUME NEW t \in RemoteLists PROVE t \in Seq(RemoteUid)
  <2>1. PICK first \in Retrievals, more \in Retrievals, gap \in Assessments :
          LET s == Served(first, more, gap) IN t = [i \in DOMAIN s |-> s[i].uid]
    BY DEF RemoteLists
  <2> DEFINE s == Served(first, more, gap)
  <2>2. s \in Seq(Hit)
    BY RetrievalTypes, CombinedTypes DEF Served
  <2> HIDE DEF s
  <2>3. t = [i \in DOMAIN s |-> s[i].uid] /\ DOMAIN s = 1..Len(s) /\ Len(s) \in Nat
    BY <2>1, <2>2 DEF s
  <2>4. \A i \in 1..Len(s) : s[i].uid \in RemoteUid
    BY <2>2, HitTypes
  <2> QED BY <2>3, <2>4
<1> QED BY <1>1, <1>2

-----------------------------------------------------------------------------
(***************************************************************************)
(* The hook                                                                *)
(***************************************************************************)
(* A prompt is being handled while there is room for its line; each knowledge
   base is still asked or has had its answer, and what is printed is what the
   answers make. *)
Flow ==
  /\ pc # "idle" => line # "none" /\ Len(transcript) < MaxLines
  /\ pc \in {"idle", "keywords"} => lists = <<>> /\ waiting = {}
  /\ Len(lists) + Cardinality(waiting) <= Cardinality(KB)
  /\ printed = IF pc = "print" THEN InterleaveResults(lists) ELSE <<>>
  /\ blocks <= Len(transcript)

HInv == TypeOK /\ Flow

(* A conversation whose notes were put out has the line of a prompt, unless
   the scanner cannot read on *)
Prompted ==
  /\ pc # "idle" => ~NotFirst(transcript)
  /\ blocks > 0 => \E i \in DOMAIN transcript : transcript[i] \in {"user", "long"}
  /\ InjectedOnce

LEMMA Appended ==
  ASSUME NEW S, NEW s \in Seq(S), NEW e \in S
  PROVE  Append(s, e) \in Seq(S) /\ Len(Append(s, e)) = Len(s) + 1 /\ Len(s) \in Nat
OBVIOUS

LEMMA KBFinite == IsFiniteSet(KB) /\ Cardinality(KB) \in Nat
BY HookAssumption, FS_Union, FS_CardinalityType DEF KB

LEMMA WaitingFinite ==
  ASSUME NEW W \in SUBSET KB
  PROVE  /\ Cardinality(W) \in Nat /\ Cardinality(W) <= Cardinality(KB)
         /\ \A kb \in W : Cardinality(W \ {kb}) = Cardinality(W) - 1
<1>1. IsFiniteSet(W) /\ Cardinality(W) <= Cardinality(KB)
  BY KBFinite, FS_Subset
<1>2. Cardinality(W) \in Nat
  BY <1>1, FS_CardinalityType
<1>3. \A kb \in W : Cardinality(W \ {kb}) = Cardinality(W) - 1
  BY <1>1, FS_RemoveElement
<1> QED BY <1>1, <1>2, <1>3

LEMMA HookInit == Init => HInv
<1> SUFFICES ASSUME Init PROVE HInv
  OBVIOUS
<1> USE HookAssumption, RecallAssumption DEF Init
<1>1. Cardinality(waiting) = 0
  BY FS_EmptySet
<1>2. /\ lists \in Seq(Seq(Result)) /\ Len(lists) = 0
      /\ printed \in Seq(Result) /\ Len(printed) = 0
  OBVIOUS
<1>3. transcript \in Seq({"user", "other", "long"}) /\ Len(transcript) = 0
  OBVIOUS
<1>4. TypeOK
  <2>1. /\ Len(transcript) <= MaxLines /\ Len(lists) <= Cardinality(KB)
        /\ Len(printed) <= MaxResults /\ blocks \in 0..(MaxLines + 1)
    BY <1>2, <1>3, KBFinite
  <2> QED BY <1>2, <1>3, <2>1 DEF TypeOK
<1>5. Flow
  BY <1>1, <1>2, <1>3, KBFinite DEF Flow
<1> QED BY <1>4, <1>5 DEF HInv

(* The answer of a knowledge base is one of the lists *)
LEMMA AnswerKeeps ==
  ASSUME HInv, NEW kb \in KB, NEW uids \in Seq(LocalUid \cup RemoteUid), Answer(kb, uids)
  PROVE  HInv'
<1> USE DEF HInv
<1> DEFINE new == [i \in DOMAIN uids |-> [uid |-> uids[i], kb |-> kb]]
<1>1. /\ waiting \in SUBSET KB /\ waiting' = waiting \ {kb}
      /\ Cardinality(waiting) \in Nat /\ Cardinality(waiting') = Cardinality(waiting) - 1
  BY WaitingFinite DEF TypeOK, Answer
<1>2. new \in Seq(Result)
  <2>1. DOMAIN uids = 1..Len(uids) /\ Len(uids) \in Nat
    OBVIOUS
  <2>2. \A i \in 1..Len(uids) : [uid |-> uids[i], kb |-> kb] \in Result
    BY DEF Result
  <2>3. new \in [1..Len(uids) -> Result]
    BY <2>1, <2>2
  <2> QED BY <2>1, <2>3
<1> HIDE DEF new
<1>3. lists \in Seq(Seq(Result)) /\ Len(lists) \in Nat
  BY DEF TypeOK
<1>4. lists' \in Seq(Seq(Result)) /\ Len(lists') <= Len(lists) + 1 /\ Len(lists') \in Nat
  <2>1. lists' = lists \/ lists' = Append(lists, new)
    BY DEF Answer, new
  <2>2. /\ Append(lists, new) \in Seq(Seq(Result))
        /\ Len(Append(lists, new)) = Len(lists) + 1
    <3> DEFINE Rs == Seq(Result)
    <3>1. new \in Rs /\ lists \in Seq(Rs)
      BY <1>2, <1>3
    <3> HIDE DEF Rs
    <3>2. Append(lists, new) \in Seq(Rs) /\ Len(Append(lists, new)) = Len(lists) + 1
      BY <3>1, Appended
    <3> QED BY <3>2 DEF Rs
  <2>3. CASE lists' = lists
    BY <1>3, <2>3
  <2>4. CASE lists' = Append(lists, new)
    <3>1. lists' \in Seq(Seq(Result)) /\ Len(lists') = Len(lists) + 1
      BY <2>2, <2>4, Zenon
    <3> QED BY <1>3, <3>1
  <2> QED BY <2>1, <2>3, <2>4
<1>5. Len(lists') + Cardinality(waiting') <= Cardinality(KB) /\ Len(lists') <= Cardinality(KB)
  <2>1. Cardinality(waiting') \in Nat
    BY <1>1, WaitingFinite
  <2> QED BY <1>1, <1>3, <1>4, <2>1, KBFinite DEF Flow
<1>6. TypeOK'
  BY <1>1, <1>4, <1>5 DEF TypeOK, Answer
<1>7. Flow'
  BY <1>5 DEF Flow, Answer
<1> QED BY <1>6, <1>7

LEMMA FailKeeps ==
  ASSUME HInv, NEW kb \in KB, Fails(kb)
  PROVE  HInv'
<1> USE DEF HInv
<1>1. /\ waiting \in SUBSET KB /\ waiting' = waiting \ {kb}
      /\ Cardinality(waiting) \in Nat /\ Cardinality(waiting') = Cardinality(waiting) - 1
  BY WaitingFinite DEF TypeOK, Fails
<1>2. lists' = lists /\ Len(lists) \in Nat
  BY DEF TypeOK, Fails
<1>3. Len(lists') + Cardinality(waiting') <= Cardinality(KB)
  BY <1>1, <1>2, KBFinite DEF Flow
<1>4. TypeOK'
  BY <1>1, <1>2 DEF TypeOK, Fails
<1>5. Flow'
  BY <1>2, <1>3 DEF Flow, Fails
<1> QED BY <1>4, <1>5

LEMMA AnswersKeep ==
  ASSUME HInv, NEW kb \in KB, AnswersIn(kb)
  PROVE  HInv'
<1>1. ASSUME NEW uids \in LocalLists, Answer(kb, uids) PROVE HInv'
  <2>1. uids \in Seq(LocalUid)
    BY AnswerTypes
  <2>2. uids \in Seq(LocalUid \cup RemoteUid)
    BY <2>1
  <2> QED BY <1>1, <2>2, AnswerKeeps
<1>2. ASSUME NEW uids \in RemoteLists, Answer(kb, uids) PROVE HInv'
  <2>1. uids \in Seq(RemoteUid)
    BY AnswerTypes
  <2>2. uids \in Seq(LocalUid \cup RemoteUid)
    BY <2>1
  <2> QED BY <1>2, <2>2, AnswerKeeps
<1>3. ASSUME Answer(kb, <<>>) PROVE HInv'
  <2>1. <<>> \in Seq(LocalUid \cup RemoteUid)
    OBVIOUS
  <2> QED BY <1>3, <2>1, AnswerKeeps
<1>4. Fails(kb) => HInv'
  BY FailKeeps
<1> QED
  BY <1>1, <1>2, <1>3, <1>4
  DEF AnswersIn, LocalAnswers, LocalFails, RemoteAnswers, RemoteFails, TimesOut, Refused

(* The line is written when the hook has ended *)
LEMMA EndKeeps ==
  ASSUME HInv, End, pc # "idle", blocks' \in {blocks, blocks + 1}
  PROVE  HInv'
<1> USE DEF HInv
<1>1. transcript \in Seq({"user", "other", "long"}) /\ line \in {"user", "long"}
  BY DEF TypeOK, Flow
<1>2. /\ transcript' \in Seq({"user", "other", "long"})
      /\ Len(transcript') = Len(transcript) + 1 /\ Len(transcript) \in Nat
  BY <1>1 DEF End
<1>3. MaxLines \in Nat /\ Len(transcript) < MaxLines
  BY HookAssumption DEF Flow
<1>4. blocks \in Nat /\ blocks <= Len(transcript)
  BY <1>3 DEF TypeOK, Flow
<1>5. blocks' \in 0..(MaxLines + 1) /\ blocks' <= Len(transcript')
  BY <1>2, <1>3, <1>4
<1>6. /\ lists' = <<>> /\ printed' = <<>> /\ waiting' = {} /\ errors' = {}
      /\ Cardinality(waiting') = 0
  BY FS_EmptySet DEF End
<1>7. lists' \in Seq(Seq(Result)) /\ Len(lists') = 0
  BY <1>6
<1>8. printed' \in Seq(Result) /\ Len(printed') = 0
  BY <1>6
<1>9. TypeOK'
  <2>1. /\ Len(transcript') <= MaxLines /\ Len(lists') <= Cardinality(KB)
        /\ Len(printed') <= MaxResults
    BY <1>2, <1>3, <1>7, <1>8, KBFinite, RecallAssumption
  <2> QED BY <1>2, <1>5, <1>6, <1>7, <1>8, <2>1 DEF TypeOK, End
<1>10. Flow'
  BY <1>5, <1>6, <1>7, KBFinite DEF Flow, End
<1> QED BY <1>9, <1>10

LEMMA HookStep == HInv /\ [Next]_vars => HInv'
<1> SUFFICES ASSUME HInv, [Next]_vars PROVE HInv'
  OBVIOUS
<1> USE DEF HInv
<1>0. MaxLines \in Nat
  BY HookAssumption
<1>1. ASSUME NEW l \in {"user", "long"}, Prompt(l) PROVE HInv'
  <2>1. TypeOK'
    <3>1. transcript' \in Seq({"user", "other", "long"}) /\ Len(transcript') <= MaxLines
      <4>1. transcript \in Seq({"user", "other", "long"}) /\ l \in {"user", "other", "long"}
        BY DEF TypeOK
      <4>2. /\ Append(transcript, l) \in Seq({"user", "other", "long"})
            /\ Len(Append(transcript, l)) = Len(transcript) + 1 /\ Len(transcript) \in Nat
        BY <4>1, Appended
      <4> QED BY <1>0, <1>1, <4>1, <4>2 DEF Prompt
    <3>2. line' \in {"none", "user", "long"} /\ pc' \in {"idle", "keywords", "query", "print"}
      BY <1>1 DEF TypeOK, Prompt
    <3> QED BY <1>1, <3>1, <3>2 DEF TypeOK, Prompt, inject
  <2>2. CASE NotFirst(transcript)
    <3>1. Len(transcript') = Len(transcript) + 1 /\ Len(transcript) \in Nat /\ blocks \in Nat
      BY <1>0, <1>1, <2>2 DEF TypeOK, Prompt
    <3> QED BY <1>1, <2>1, <2>2, <3>1 DEF Flow, Prompt, inject
  <2>3. CASE ~NotFirst(transcript)
    BY <1>1, <2>1, <2>3 DEF Flow, Prompt, inject
  <2> QED BY <2>2, <2>3
<1>2. ASSUME NEW l \in {"other", "long"}, Other(l) PROVE HInv'
  <2>1. TypeOK'
    BY <1>0, <1>2 DEF TypeOK, Other, inject
  <2>2. Len(transcript') = Len(transcript) + 1 /\ Len(transcript) \in Nat /\ blocks \in Nat
    BY <1>0, <1>2 DEF TypeOK, Other
  <2> QED BY <1>2, <2>1, <2>2 DEF Flow, Other, inject
<1>3. CASE Expire
  BY <1>3 DEF Expire, TypeOK, Flow
<1>4. CASE NoTargets
  <2>1. End /\ pc # "idle" /\ blocks' = blocks
    BY <1>4 DEF NoTargets
  <2> QED BY <2>1, EndKeeps
<1>5. ASSUME NEW targets \in SUBSET (KB \cup Unknown), Ask(targets) PROVE HInv'
  <2>1. waiting' \in SUBSET KB /\ lists' = <<>>
    BY <1>5 DEF Ask, Flow
  <2>2. Len(lists') + Cardinality(waiting') <= Cardinality(KB)
    <3>1. Cardinality(waiting') \in Nat /\ Cardinality(waiting') <= Cardinality(KB)
      BY <2>1, WaitingFinite
    <3>2. Len(lists') = 0
      BY <2>1
    <3> QED BY <3>1, <3>2, KBFinite
  <2>3. TypeOK'
    BY <1>5, <2>1 DEF Ask, Derived, TypeOK
  <2>4. Flow'
    BY <1>5, <2>2 DEF Ask, Flow
  <2> QED BY <2>3, <2>4
<1>6. CASE Merge
  <2>1. lists \in Lists
    BY DEF TypeOK, Lists
  <2>2. printed' \in Seq(Result) /\ Len(printed') <= MaxResults
    BY <1>6, <2>1, OutTypes DEF Merge
  <2>3. TypeOK'
    BY <1>6, <2>2 DEF TypeOK, Merge, inject
  <2>4. Flow'
    BY <1>6 DEF Flow, Merge, inject
  <2> QED BY <2>3, <2>4
<1>7. CASE PutOut
  <2>1. End /\ pc # "idle" /\ blocks' \in {blocks, blocks + 1}
    BY <1>7 DEF PutOut
  <2> QED BY <2>1, EndKeeps
<1>8. ASSUME NEW kb \in KB, AnswersIn(kb) PROVE HInv'
  BY <1>8, AnswersKeep
<1>9. CASE UNCHANGED vars
  BY <1>9 DEF vars, inject, TypeOK, Flow
<1> QED BY <1>1, <1>2, <1>3, <1>4, <1>5, <1>6, <1>7, <1>8, <1>9 DEF Next

LEMMA HookInvariant == Spec => []HInv
<1> QED BY HookInit, HookStep, PTL DEF Spec

(* Type correctness, for any knowledge bases: no more lists than knowledge
   bases, and no more results than MaxResults are ever printed
   (hook/inject.go:144). *)
THEOREM HookTypes == Spec => []TypeOK
<1>1. HInv => TypeOK
  BY DEF HInv
<1> QED BY <1>1, HookInvariant, PTL

(* No note is put out twice, whatever the lists and the order in which they
   arrive (merge.go:33). *)
THEOREM NoteOnce == Spec => []NothingTwice
<1>1. HInv => NothingTwice
  <2> SUFFICES ASSUME HInv, NEW i \in DOMAIN printed, NEW j \in DOMAIN printed,
                      printed[i].uid = printed[j].uid
               PROVE  i = j
    BY DEF NothingTwice
  <2>1. lists \in Lists
    BY DEF HInv, TypeOK, Lists
  <2>2. CASE pc = "print"
    <3>1. printed = InterleaveResults(lists)
      BY <2>2 DEF HInv, Flow
    <3> QED BY <2>1, <3>1, OutOnce
  <2>3. CASE pc # "print"
    <3>1. printed = <<>>
      BY <2>3 DEF HInv, Flow
    <3> QED BY <3>1
  <2> QED BY <2>2, <2>3
<1> QED BY <1>1, HookInvariant, PTL

(* A result is left out only for its note's first occurrence or for want of
   room, and then each that is put out was ranked at least as high by a list
   (merge.go:29). *)
THEOREM FairRanking == Spec => []RankedFairly
<1>1. HInv => RankedFairly
  <2> SUFFICES ASSUME HInv, pc = "print", NEW l \in DOMAIN lists, NEW i \in DOMAIN lists[l]
               PROVE  \/ lists[l][i].uid \in Uids(printed)
                      \/ /\ Len(printed) = MaxResults
                         /\ \A k \in DOMAIN printed :
                              \E m \in DOMAIN lists : \E r \in DOMAIN lists[m] :
                                r <= i /\ lists[m][r].uid = printed[k].uid
    BY DEF RankedFairly
  <2>1. lists \in Lists
    BY DEF HInv, TypeOK, Lists
  <2>2. printed = InterleaveResults(lists)
    BY DEF HInv, Flow
  <2> QED BY <2>1, <2>2, OutFair
<1> QED BY <1>1, HookInvariant, PTL

(* What a follow-up of the recall function finds competes with what the first
   retrieval found, for every two retrievals, limit and scores
   (recall/index.ts:190). *)
THEOREM FollowUps == Spec => []FollowUpCompetes
<1>1. FollowUpCompetes
  BY FollowUp DEF FollowUpCompetes
<1> QED BY <1>1, PTL

-----------------------------------------------------------------------------
LEMMA OnceInit == Init => Prompted
<1> SUFFICES ASSUME Init PROVE Prompted
  OBVIOUS
<1> QED BY DEF Init, Prompted, InjectedOnce

(* A conversation whose notes were put out is not at its first prompt *)
LEMMA SeenPrompt ==
  ASSUME NEW t \in Seq({"user", "other", "long"}),
         \E i \in DOMAIN t : t[i] \in {"user", "long"}, ~NotFirst(t)
  PROVE  \E i \in DOMAIN t : t[i] = "long"
<1>1. SUFFICES ASSUME \A i \in DOMAIN t : t[i] # "long" PROVE FALSE
  OBVIOUS
<1>2. PICK i \in DOMAIN t : t[i] = "user"
  BY <1>1
<1>3. \A j \in 1..i : j \in DOMAIN t
  BY <1>2
<1> QED BY <1>1, <1>2, <1>3 DEF NotFirst

(* The lines are only added to *)
LEMMA OnceAppend ==
  ASSUME TypeOK, Prompted, NEW l \in {"user", "other", "long"},
         transcript' = Append(transcript, l), pc' = "idle", blocks' = blocks
  PROVE  Prompted'
<1>1. /\ \A i \in DOMAIN transcript :
           i \in DOMAIN transcript' /\ transcript'[i] = transcript[i]
  BY DEF TypeOK
<1> QED BY <1>1 DEF Prompted, InjectedOnce

LEMMA OnceStep == HInv /\ Prompted /\ [Next]_vars => Prompted'
<1> SUFFICES ASSUME HInv, Prompted, [Next]_vars PROVE Prompted'
  OBVIOUS
<1>0. TypeOK /\ Flow
  BY DEF HInv
<1>1. ASSUME NEW l \in {"user", "long"}, Prompt(l) PROVE Prompted'
  <2>1. CASE NotFirst(transcript)
    <3>1. transcript' = Append(transcript, l) /\ pc' = "idle" /\ blocks' = blocks
      BY <1>1, <2>1 DEF Prompt
    <3> QED BY <1>0, <3>1, OnceAppend
  <2>2. CASE ~NotFirst(transcript)
    BY <1>1, <2>2 DEF Prompt, Prompted, InjectedOnce, NotFirst
  <2> QED BY <2>1, <2>2
<1>2. ASSUME NEW l \in {"other", "long"}, Other(l) PROVE Prompted'
  <2>1. transcript' = Append(transcript, l) /\ pc' = "idle" /\ blocks' = blocks
    BY <1>2 DEF Other
  <2> QED BY <1>0, <2>1, OnceAppend
<1>3. CASE NoTargets
  <2>1. transcript' = Append(transcript, line) /\ pc' = "idle" /\ blocks' = blocks
    BY <1>3 DEF NoTargets, End
  <2>2. line \in {"user", "other", "long"}
    BY <1>0, <1>3 DEF TypeOK, Flow, NoTargets
  <2> QED BY <1>0, <2>1, <2>2, OnceAppend
<1>4. CASE PutOut
  <2>1. /\ transcript' = Append(transcript, line) /\ pc' = "idle"
        /\ blocks' \in {blocks, blocks + 1} /\ pc # "idle"
    BY <1>4 DEF PutOut, End
  <2>2. transcript \in Seq({"user", "other", "long"}) /\ line \in {"user", "long"}
    BY <1>0, <2>1 DEF TypeOK, Flow
  <2>3. /\ \A i \in DOMAIN transcript :
             i \in DOMAIN transcript' /\ transcript'[i] = transcript[i]
        /\ Len(transcript) + 1 \in DOMAIN transcript'
        /\ transcript'[Len(transcript) + 1] = line
    BY <2>1, <2>2
  <2>4. \E i \in DOMAIN transcript' : transcript'[i] \in {"user", "long"}
    BY <2>2, <2>3
  <2>5. ASSUME blocks' > 1 PROVE \E i \in DOMAIN transcript' : transcript'[i] = "long"
    <3>1. blocks > 0
      <4>1. blocks \in Int
        BY <1>0, HookAssumption DEF TypeOK
      <4> QED BY <2>1, <2>5, <4>1
    <3>2. \E i \in DOMAIN transcript : transcript[i] = "long"
      BY <2>1, <2>2, <3>1, SeenPrompt DEF Prompted
    <3> QED BY <2>3, <3>2
  <2> QED BY <2>1, <2>4, <2>5 DEF Prompted, InjectedOnce
<1>5. ASSUME UNCHANGED <<transcript, blocks>>, pc # "idle" \/ pc' = "idle" PROVE Prompted'
  BY <1>5 DEF Prompted, InjectedOnce, NotFirst
<1>6. CASE Expire
  BY <1>5, <1>6 DEF Expire
<1>7. ASSUME NEW targets \in SUBSET (KB \cup Unknown), Ask(targets) PROVE Prompted'
  BY <1>5, <1>7 DEF Ask
<1>8. CASE Merge
  BY <1>5, <1>8 DEF Merge
<1>9. ASSUME NEW kb \in KB, AnswersIn(kb) PROVE Prompted'
  <2>1. (\E uids : Answer(kb, uids)) \/ Fails(kb)
    BY <1>9
    DEF AnswersIn, LocalAnswers, LocalFails, RemoteAnswers, RemoteFails, TimesOut, Refused
  <2> QED BY <1>5, <2>1 DEF Answer, Fails
<1>10. CASE UNCHANGED vars
  BY <1>5, <1>10 DEF vars
<1> QED BY <1>1, <1>2, <1>3, <1>4, <1>6, <1>7, <1>8, <1>9, <1>10 DEF Next

(* Notes are put out once in a conversation of any length, unless a line of it
   was too long for the scanner (cmd/hook.go:76). *)
THEOREM NotesOnce == Spec => []InjectedOnce
<1>1. Prompted => InjectedOnce
  BY DEF Prompted
<1> QED BY <1>1, HookInvariant, OnceInit, OnceStep, PTL DEF Spec
=============================================================================
