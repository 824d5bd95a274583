----------------------------- MODULE AnswerProofs -----------------------------
(***************************************************************************)
(* What is answered to a reader: the search and the listing of Retrieval,  *)
(* and the chat request of ChatLoop, which searches through its tool.      *)
(***************************************************************************)
EXTENDS Retrieval, ChatLoop, FiniteSetTheorems, WellFoundedInduction, TLAPS

\* Induction over the naturals, as a fact about a set of them.
LEMMA AllNaturals ==
    ASSUME NEW S, 0 \in S, \A n \in Nat : n \in S => n + 1 \in S
    PROVE  Nat \subseteq S
<1> DEFINE R == OpToRel(<, Nat)
           T == Nat \ S
<1>1. IsWellFoundedOn(R, Nat)
  BY NatLessThanWellFounded
<1>2. \A i, j \in Nat : i < j => <<i, j>> \in R
  BY DEF OpToRel
<1> HIDE DEF R
<1> SUFFICES ASSUME T # {} PROVE FALSE
  OBVIOUS
<1>3. PICK x \in T : \A y \in T : <<y, x>> \notin R
  BY <1>1, WFMin
<1>4. x - 1 \in Nat /\ x - 1 < x /\ (x - 1) + 1 = x
  BY <1>3
<1>5. x - 1 \in S
  BY <1>2, <1>3, <1>4
<1>6. (x - 1) + 1 \in S
  BY <1>4, <1>5
<1> QED
  BY <1>3, <1>4, <1>6

\* A set of naturals has a least member.
LEMMA LeastNatural ==
    ASSUME NEW S \in SUBSET Nat, S # {}
    PROVE  \E m \in S : \A n \in S : m <= n
<1> DEFINE R == OpToRel(<, Nat)
<1>1. IsWellFoundedOn(R, Nat)
  BY NatLessThanWellFounded
<1>2. \A i, j \in Nat : i < j => <<i, j>> \in R
  BY DEF OpToRel
<1> HIDE DEF R
<1>3. PICK m \in S : \A n \in S : <<n, m>> \notin R
  BY <1>1, WFMin
<1>4. ASSUME NEW n \in S PROVE m <= n
  <2>1. m \in Nat /\ n \in Nat /\ <<n, m>> \notin R
    BY <1>3
  <2>2. ~(n < m)
    BY <1>2, <2>1
  <2> QED
    BY <2>1, <2>2
<1> QED
  BY <1>4

-----------------------------------------------------------------------------
(* Scores. *)

\* f[n] is the product of the first n denominators, up to m.
Multiplies(f, m) ==
    f = [n \in 0..m |-> IF n = 0 THEN 1 ELSE f[n - 1] * (n - 1 + Constant)]

LEMMA ProductExists == \A m \in Nat : \E f : Multiplies(f, m)
<1> DEFINE S == {m \in Nat : \E f : Multiplies(f, m)}
<1>1. 0 \in S
  <2> DEFINE f == [n \in 0..0 |-> 1]
  <2>1. Multiplies(f, 0)
    BY DEF Multiplies
  <2> QED
    BY <2>1
<1>2. ASSUME NEW m \in Nat, m \in S PROVE m + 1 \in S
  <2>1. PICK f : Multiplies(f, m)
    BY <1>2
  <2> DEFINE g == [n \in 0..(m + 1) |->
                     IF n = m + 1 THEN f[m] * (m + Constant) ELSE f[n]]
  <2>2. ASSUME NEW n \in 0..(m + 1)
        PROVE  g[n] = IF n = 0 THEN 1 ELSE g[n - 1] * (n - 1 + Constant)
    <3>1. CASE n = m + 1
      <4>1. n # 0 /\ n - 1 = m /\ g[n] = f[m] * (m + Constant) /\ g[n - 1] = f[m]
        BY <3>1
      <4> QED
        BY <4>1
    <3>2. CASE n # m + 1
      <4>1. n \in 0..m /\ g[n] = f[n] /\ (n # 0 => g[n - 1] = f[n - 1])
        BY <3>2
      <4> HIDE DEF g
      <4> QED
        BY <2>1, <4>1 DEF Multiplies
    <3> QED
      BY <3>1, <3>2
  <2>3. g = [n \in 0..(m + 1) |-> g[n]]
    OBVIOUS
  <2> HIDE DEF g
  <2>4. Multiplies(g, m + 1)
    BY <2>2, <2>3 DEF Multiplies
  <2> QED
    BY <2>4
<1> HIDE DEF S
<1>3. Nat \subseteq S
  BY <1>1, <1>2, AllNaturals
<1> QED
  BY <1>3 DEF S

LEMMA UnitIs == \E f : Multiplies(f, TopK) /\ Unit = f[TopK]
<1> DEFINE product[n \in 0..TopK] ==
             IF n = 0 THEN 1 ELSE product[n - 1] * (n - 1 + Constant)
<1>1. Unit = product[TopK]
  BY DEF Unit
<1>2. PICK f : Multiplies(f, TopK)
  BY ProductExists, RetrievalAssumption
<1>3. Multiplies(product, TopK)
  BY <1>2 DEF Multiplies
<1> HIDE DEF product
<1> QED
  BY <1>1, <1>3

LEMMA Regroup ==
    ASSUME NEW k \in Nat \ {0}, NEW a \in Nat \ {0}, NEW b \in Nat \ {0}
    PROVE  k * b \in Nat \ {0} /\ (k * a) * b = (k * b) * a
OBVIOUS

LEMMA Divides ==
    ASSUME NEW k \in Nat, NEW a \in Nat \ {0}
    PROVE  (k * a) \div a = k
OBVIOUS

\* Of two ways to write the same product, the smaller factor has the larger share.
LEMMA SharesDiffer ==
    ASSUME NEW k \in Nat \ {0}, NEW a \in Nat \ {0},
           NEW l \in Nat \ {0}, NEW b \in Nat \ {0},
           k * a = l * b, a < b
    PROVE  k > l
<1> SUFFICES ASSUME k <= l PROVE FALSE
  OBVIOUS
<1>1. k * a <= l * a
  OBVIOUS
<1>2. l * a < l * b
  OBVIOUS
<1>3. k * a \in Int /\ l * a \in Int /\ l * b \in Int
  OBVIOUS
<1> QED
  BY <1>1, <1>2, <1>3

\* Every denominator divides the unit.
LEMMA UnitDivisible ==
    /\ Unit \in Nat \ {0}
    /\ \A i \in 1..TopK : \E k \in Nat \ {0} : Unit = k * (i - 1 + Constant)
<1>1. PICK f : Multiplies(f, TopK) /\ Unit = f[TopK]
  BY UnitIs
<1> DEFINE Good(n) ==
             /\ f[n] \in Nat \ {0}
             /\ \A i \in 1..n : \E k \in Nat \ {0} : f[n] = k * (i - 1 + Constant)
           S == {n \in Nat : n <= TopK => Good(n)}
<1> USE RetrievalAssumption
<1>2. 0 \in S
  BY <1>1 DEF Multiplies
<1>3. ASSUME NEW n \in Nat, n \in S PROVE n + 1 \in S
  <2> HIDE DEF Good
  <2> SUFFICES ASSUME n + 1 <= TopK PROVE Good(n + 1)
    OBVIOUS
  <2>0. Good(n)
    BY <1>3
  <2>1. /\ f[n] \in Nat \ {0} /\ n + 1 \in 0..TopK /\ n + 1 # 0
        /\ (n + 1) - 1 = n
    BY <2>0 DEF Good
  <2>6. \A i \in 1..n : \E k \in Nat \ {0} : f[n] = k * (i - 1 + Constant)
    BY <2>0 DEF Good
  <2>2. f[n + 1] = f[n] * (n + Constant)
    BY <1>1, <2>1 DEF Multiplies
  <2>3. n + Constant \in Nat \ {0}
    OBVIOUS
  <2>4. f[n + 1] \in Nat \ {0}
    BY <2>1, <2>2, <2>3
  <2>5. ASSUME NEW i \in 1..(n + 1)
        PROVE  \E k \in Nat \ {0} : f[n + 1] = k * (i - 1 + Constant)
    <3>1. CASE i = n + 1
      BY <2>1, <2>2, <3>1
    <3>2. CASE i # n + 1
      <4>0. i \in 1..n
        BY <3>2
      <4>1. PICK k \in Nat \ {0} : f[n] = k * (i - 1 + Constant)
        BY <2>6, <4>0
      <4>2. i - 1 + Constant \in Nat \ {0}
        OBVIOUS
      <4>3. /\ k * (n + Constant) \in Nat \ {0}
            /\ (k * (i - 1 + Constant)) * (n + Constant) =
                 (k * (n + Constant)) * (i - 1 + Constant)
        BY <2>3, <4>2, Regroup
      <4> QED
        BY <2>2, <4>1, <4>3
    <3> QED
      BY <3>1, <3>2
  <2> QED
    BY <2>4, <2>5 DEF Good
<1> HIDE DEF Good
<1>4. Nat \subseteq S
  <2> HIDE DEF S
  <2> QED
    BY <1>2, <1>3, AllNaturals
<1>5. Good(TopK)
  BY <1>4
<1> QED
  BY <1>1, <1>5 DEF Good

\* What a document scores for the i-th place.
Share(i) == Unit \div (i - 1 + Constant)

LEMMA SharesFall ==
    /\ \A i \in 1..TopK : Share(i) \in Nat \ {0}
    /\ \A i, j \in 1..TopK : i < j => Share(i) > Share(j)
<1> USE RetrievalAssumption
<1>1. ASSUME NEW i \in 1..TopK
      PROVE  Share(i) \in Nat \ {0} /\ Unit = Share(i) * (i - 1 + Constant)
  <2>1. PICK k \in Nat \ {0} : Unit = k * (i - 1 + Constant)
    BY UnitDivisible
  <2>2. i - 1 + Constant \in Nat \ {0}
    OBVIOUS
  <2>3. Share(i) = k
    BY <2>1, <2>2, Divides DEF Share
  <2> QED
    BY <2>1, <2>3
<1>2. ASSUME NEW i \in 1..TopK, NEW j \in 1..TopK, i < j
      PROVE  Share(i) > Share(j)
  <2>1. PICK a \in Nat \ {0}, b \in Nat \ {0} :
          a = i - 1 + Constant /\ b = j - 1 + Constant /\ a < b
    BY <1>2
  <2>2. PICK k \in Nat \ {0}, l \in Nat \ {0} :
          k = Share(i) /\ l = Share(j) /\ k * a = l * b
    BY <1>1, <2>1
  <2> QED
    BY <2>1, <2>2, SharesDiffer
<1> QED
  BY <1>1, <1>2

-----------------------------------------------------------------------------
(* Rankings and their weights. *)

LEMMA RankingIs ==
    ASSUME NEW S, NEW s \in Rankings(S)
    PROVE  /\ s \in Seq(S) /\ Len(s) \in 0..TopK /\ DOMAIN s = 1..Len(s)
           /\ \A i, j \in 1..Len(s) : s[i] = s[j] => i = j
           /\ Elements(s) \subseteq S
           /\ \A d : d \in Elements(s) <=> \E i \in 1..Len(s) : s[i] = d
<1>1. PICK n \in 0..TopK : /\ s \in [1..n -> S]
                           /\ \A i, j \in 1..n : s[i] = s[j] => i = j
  BY DEF Rankings
<1>2. s \in Seq(S) /\ Len(s) = n
  BY <1>1, RetrievalAssumption
<1> QED
  BY <1>1, <1>2 DEF Elements

LEMMA RankingsGrow ==
    ASSUME NEW S, NEW T, S \subseteq T
    PROVE  Rankings(S) \subseteq Rankings(T)
BY DEF Rankings

LEMMA WeightIs ==
    ASSUME NEW S, NEW list \in Rankings(S), NEW d
    PROVE  /\ Weight(d, list) \in Nat
           /\ d \notin Elements(list) => Weight(d, list) = 0
           /\ \A i \in 1..Len(list) : list[i] = d =>
                i \in 1..TopK /\ Weight(d, list) = Share(i)
<1>1. CASE d \notin Elements(list)
  BY <1>1, RankingIs DEF Weight
<1>2. CASE d \in Elements(list)
  <2>1. PICK i \in 1..Len(list) : list[i] = d
    BY <1>2, RankingIs
  <2>2. \A j \in DOMAIN list : list[j] = d => j = i
    BY <2>1, RankingIs
  <2>3. i \in DOMAIN list /\ i \in 1..TopK
    BY <2>1, RankingIs, RetrievalAssumption
  <2>4. (CHOOSE j \in DOMAIN list : list[j] = d) = i
    BY <2>1, <2>2, <2>3
  <2>5. Weight(d, list) = Share(i)
    BY <1>2, <2>4 DEF Weight, Share
  <2>6. Share(i) \in Nat
    BY <2>3, SharesFall
  <2> QED
    BY <1>2, <2>1, <2>2, <2>3, <2>5, <2>6, RankingIs
<1> QED
  BY <1>1, <1>2

\* A document that is before another in a list weighs more there.
LEMMA WeighsMore ==
    ASSUME NEW S, NEW list \in Rankings(S), NEW d, NEW e, d # e,
           \A j \in DOMAIN list : list[j] = e => \E i \in 1..j : list[i] = d
    PROVE  /\ Weight(d, list) >= Weight(e, list)
           /\ e \in Elements(list) =>
                d \in Elements(list) /\ Weight(d, list) > Weight(e, list)
<1>1. CASE e \notin Elements(list)
  BY <1>1, WeightIs
<1>2. CASE e \in Elements(list)
  <2>1. PICK j \in 1..Len(list) : list[j] = e
    BY <1>2, RankingIs
  <2>2. j \in DOMAIN list /\ Len(list) \in Nat
    BY <2>1, RankingIs, RetrievalAssumption
  <2>3. PICK i \in 1..j : list[i] = d
    BY <2>1, <2>2
  <2>4. i < j /\ i \in 1..Len(list)
    BY <2>1, <2>2, <2>3
  <2>5. i \in 1..TopK /\ j \in 1..TopK
        /\ Weight(d, list) = Share(i) /\ Weight(e, list) = Share(j)
    BY <2>1, <2>3, <2>4, WeightIs
  <2>6. Share(i) > Share(j) /\ Share(i) \in Nat /\ Share(j) \in Nat
    BY <2>4, <2>5, SharesFall
  <2>7. d \in Elements(list)
    BY <2>3, <2>4, RankingIs
  <2> QED
    BY <2>5, <2>6, <2>7
<1> QED
  BY <1>1, <1>2

-----------------------------------------------------------------------------
(* The order of the hits. *)

Pairs == {lists \in Seq(Rankings(Docs)) : Len(lists) = 2}

\* The place at which the dict meets a document.
FirstMet(x, lists) ==
    LET order == lists[1] \o lists[2]
    IN  CHOOSE i \in DOMAIN order :
            order[i] = x /\ \A j \in 1..(i - 1) : order[j] # x

LEMMA FirstMetIs ==
    ASSUME NEW a \in Seq(Docs), NEW b \in Seq(Docs),
           NEW x \in Elements(a) \cup Elements(b)
    PROVE  /\ FirstMet(x, <<a, b>>) \in Nat \ {0}
           /\ (a \o b)[FirstMet(x, <<a, b>>)] = x
           /\ \A i \in 1..Len(a) : a[i] = x => FirstMet(x, <<a, b>>) <= i
<1> DEFINE order == a \o b
           places == {i \in DOMAIN order : order[i] = x}
           First(i) == order[i] = x /\ \A j \in 1..(i - 1) : order[j] # x
<1>1. /\ DOMAIN order = 1..(Len(a) + Len(b))
      /\ \A i \in 1..Len(a) : i \in DOMAIN order /\ order[i] = a[i]
      /\ \A i \in 1..Len(b) : /\ Len(a) + i \in DOMAIN order
                              /\ order[Len(a) + i] = b[i]
      /\ DOMAIN a = 1..Len(a) /\ DOMAIN b = 1..Len(b)
      /\ Len(a) \in Nat /\ Len(b) \in Nat
  OBVIOUS
<1> HIDE DEF order
<1>2. places # {}
  <2>1. CASE x \in Elements(a)
    BY <1>1, <2>1 DEF Elements
  <2>2. CASE x \in Elements(b)
    BY <1>1, <2>2 DEF Elements
  <2> QED
    BY <2>1, <2>2
<1>3. places \subseteq Nat \ {0}
  BY <1>1
<1>4. PICK m \in places : \A n \in places : m <= n
  BY <1>2, <1>3, LeastNatural
<1>5. m \in DOMAIN order /\ First(m)
  <2>1. ASSUME NEW j \in 1..(m - 1) PROVE order[j] # x
    <3>1. m \in Nat \ {0} /\ m \in DOMAIN order
      BY <1>3, <1>4
    <3>2. j \in DOMAIN order /\ j < m /\ j \in Nat
      BY <1>1, <3>1
    <3> QED
      BY <1>4, <3>1, <3>2
  <2> QED
    BY <1>4, <2>1
<1>6. FirstMet(x, <<a, b>>) = CHOOSE i \in DOMAIN order : First(i)
  BY DEF FirstMet, order
<1> HIDE DEF First
<1>7. PICK i \in DOMAIN order : First(i) /\ FirstMet(x, <<a, b>>) = i
  BY <1>5, <1>6
<1> USE DEF First
<1>8. i \in Nat \ {0} /\ order[i] = x
  BY <1>1, <1>7
<1>9. ASSUME NEW k \in 1..Len(a), a[k] = x PROVE i <= k
  <2>1. order[k] = x /\ k \in Nat \ {0}
    BY <1>1, <1>9
  <2>2. k \notin 1..(i - 1)
    BY <1>7, <2>1
  <2> QED
    BY <1>8, <2>1, <2>2
<1> QED
  BY <1>7, <1>8, <1>9 DEF order

LEMMA BeforeIs ==
    ASSUME NEW lists, NEW d, NEW e
    PROVE  Before(d, e, lists) <=>
             \/ Score(d, lists) > Score(e, lists)
             \/ /\ Score(d, lists) = Score(e, lists)
                /\ FirstMet(d, lists) < FirstMet(e, lists)
BY DEF Before, MetFirst, FirstMet

LEMMA ScoreIs ==
    ASSUME NEW a \in Rankings(Docs), NEW b \in Rankings(Docs), NEW d
    PROVE  /\ Score(d, <<a, b>>) = Weight(d, a) + Weight(d, b)
           /\ Score(d, <<a, b>>) \in Nat
BY WeightIs DEF Score

\* The sort puts all hits in one order.
LEMMA OneOrder ==
    ASSUME NEW a \in Rankings(Docs), NEW b \in Rankings(Docs)
    PROVE  LET lists == <<a, b>>
           IN  \A d, e, f \in Hits(lists) :
                 /\ ~Before(d, d, lists)
                 /\ Before(d, e, lists) /\ Before(e, f, lists) => Before(d, f, lists)
                 /\ d # e => Before(d, e, lists) \/ Before(e, d, lists)
<1> DEFINE lists == <<a, b>>
<1>1. a \in Seq(Docs) /\ b \in Seq(Docs) /\ Hits(lists) = Elements(a) \cup Elements(b)
  BY RankingIs DEF Hits
<1>2. \A d \in Hits(lists) : /\ FirstMet(d, lists) \in Nat
                             /\ (a \o b)[FirstMet(d, lists)] = d
  <2>0. a \in Seq(Docs) /\ b \in Seq(Docs)
    BY <1>1
  <2>1. ASSUME NEW d \in Elements(a) \cup Elements(b)
        PROVE  /\ FirstMet(d, <<a, b>>) \in Nat
               /\ (a \o b)[FirstMet(d, <<a, b>>)] = d
    <3>1. /\ FirstMet(d, <<a, b>>) \in Nat \ {0}
          /\ (a \o b)[FirstMet(d, <<a, b>>)] = d
          /\ \A i \in 1..Len(a) : a[i] = d => FirstMet(d, <<a, b>>) <= i
      BY <2>0, FirstMetIs, Zenon
    <3> QED
      BY <3>1
  <2> QED
    BY <1>1, <2>1
<1>3. \A d : Score(d, lists) \in Nat
  BY ScoreIs
<1> HIDE DEF lists
<1> SUFFICES ASSUME NEW d \in Hits(lists), NEW e \in Hits(lists),
                    NEW f \in Hits(lists)
             PROVE  /\ ~Before(d, d, lists)
                    /\ Before(d, e, lists) /\ Before(e, f, lists) => Before(d, f, lists)
                    /\ d # e => Before(d, e, lists) \/ Before(e, d, lists)
  BY DEF lists
<1>4. /\ Score(d, lists) \in Nat /\ Score(e, lists) \in Nat /\ Score(f, lists) \in Nat
      /\ FirstMet(d, lists) \in Nat /\ FirstMet(e, lists) \in Nat
      /\ FirstMet(f, lists) \in Nat
  BY <1>2, <1>3
<1>5. d # e => FirstMet(d, lists) # FirstMet(e, lists)
  BY <1>2
<1> QED
  BY <1>4, <1>5, BeforeIs

-----------------------------------------------------------------------------
(* The place of a hit is the number of hits before it. *)

Ahead(d, lists) == {e \in Hits(lists) : Before(e, d, lists)}
Rank(d, lists) == Cardinality(Ahead(d, lists))

LEMMA HitsFinite ==
    ASSUME NEW a \in Rankings(Docs), NEW b \in Rankings(Docs)
    PROVE  /\ IsFiniteSet(Hits(<<a, b>>)) /\ Hits(<<a, b>>) \subseteq Docs
           /\ Hits(<<a, b>>) = Elements(a) \cup Elements(b)
           /\ Cardinality(Hits(<<a, b>>)) \in Nat
<1>1. Hits(<<a, b>>) = Elements(a) \cup Elements(b)
  BY DEF Hits
<1>2. Hits(<<a, b>>) \subseteq Docs
  BY <1>1, RankingIs
<1>3. IsFiniteSet(Hits(<<a, b>>))
  BY <1>2, FS_Subset, RetrievalAssumption
<1> QED
  BY <1>1, <1>2, <1>3, FS_CardinalityType

LEMMA StrictSubset ==
    ASSUME NEW T, IsFiniteSet(T), NEW S, S \subseteq T, NEW x \in T \ S
    PROVE  /\ IsFiniteSet(S) /\ Cardinality(S) \in Nat /\ Cardinality(T) \in Nat
           /\ Cardinality(S) < Cardinality(T)
<1>1. IsFiniteSet(S) /\ Cardinality(S) <= Cardinality(T)
      /\ (Cardinality(S) = Cardinality(T) => S = T)
  BY FS_Subset
<1>2. Cardinality(S) \in Nat /\ Cardinality(T) \in Nat
  BY <1>1, FS_CardinalityType
<1> QED
  BY <1>1, <1>2

LEMMA RankIs ==
    ASSUME NEW a \in Rankings(Docs), NEW b \in Rankings(Docs)
    PROVE  LET lists == <<a, b>>
               n == Cardinality(Hits(lists))
           IN  /\ \A d \in Hits(lists) : Rank(d, lists) \in 0..(n - 1)
               /\ \A d, e \in Hits(lists) :
                    Before(d, e, lists) => Rank(d, lists) < Rank(e, lists)
               /\ \A d, e \in Hits(lists) :
                    Rank(d, lists) = Rank(e, lists) => d = e
<1> DEFINE lists == <<a, b>>
           n == Cardinality(Hits(lists))
<1>1. IsFiniteSet(Hits(lists)) /\ n \in Nat
  BY HitsFinite
<1>2. \A d, e, f \in Hits(lists) :
        /\ ~Before(d, d, lists)
        /\ Before(d, e, lists) /\ Before(e, f, lists) => Before(d, f, lists)
        /\ d # e => Before(d, e, lists) \/ Before(e, d, lists)
  BY OneOrder
<1> HIDE DEF lists
<1>3. ASSUME NEW d \in Hits(lists) PROVE Rank(d, lists) \in 0..(n - 1)
  <2>1. Ahead(d, lists) \subseteq Hits(lists) /\ d \in Hits(lists) \ Ahead(d, lists)
    BY <1>2 DEF Ahead
  <2>2. Rank(d, lists) \in Nat /\ Rank(d, lists) < n
    BY <1>1, <2>1, StrictSubset DEF Rank
  <2> QED
    BY <1>1, <2>2
<1>4. ASSUME NEW d \in Hits(lists), NEW e \in Hits(lists), Before(d, e, lists)
      PROVE  Rank(d, lists) < Rank(e, lists)
  <2>1. /\ Ahead(d, lists) \subseteq Ahead(e, lists)
        /\ d \in Ahead(e, lists) \ Ahead(d, lists)
    BY <1>2, <1>4 DEF Ahead
  <2>2. IsFiniteSet(Ahead(e, lists))
    BY <1>1, FS_Subset DEF Ahead
  <2> QED
    BY <2>1, <2>2, StrictSubset DEF Rank
<1>5. ASSUME NEW d \in Hits(lists), NEW e \in Hits(lists),
             Rank(d, lists) = Rank(e, lists)
      PROVE  d = e
  <2>1. Rank(d, lists) \in Nat /\ Rank(e, lists) \in Nat
    BY <1>1, <1>3
  <2> QED
    BY <1>2, <1>4, <1>5, <2>1
<1> QED
  BY <1>3, <1>4, <1>5 DEF lists

\* Numbers below the size of a set that tell its members apart are all taken.
LEMMA AllTaken ==
    ASSUME NEW S, IsFiniteSet(S), NEW f \in [S -> 0..(Cardinality(S) - 1)],
           \A x, y \in S : f[x] = f[y] => x = y,
           NEW k \in 0..(Cardinality(S) - 1)
    PROVE  \E x \in S : f[x] = k
<1> DEFINE n == Cardinality(S)
           R == {f[x] : x \in S}
<1>1. n \in Nat
  BY FS_CardinalityType
<1>2. f \in Bijection(S, R)
  BY DEF Bijection, Injection, Surjection, IsInjective
<1> HIDE DEF R
<1>3. IsFiniteSet(R) /\ Cardinality(R) = n
  <2>1. ExistsBijection(S, R)
    BY <1>2 DEF ExistsBijection
  <2> QED
    BY <2>1, FS_Bijection
<1>4. IsFiniteSet(0..(n - 1)) /\ Cardinality(0..(n - 1)) = n
  BY <1>1, FS_Interval
<1>5. R \subseteq 0..(n - 1)
  BY DEF R
<1>6. R = 0..(n - 1)
  BY <1>3, <1>4, <1>5, FS_Subset
<1> QED
  BY <1>6 DEF R

\* reciprocal_rank_fusion: the hits with the first ranks, each at its rank.
LEMMA FusionIs ==
    ASSUME NEW a \in Rankings(Docs), NEW b \in Rankings(Docs)
    PROVE  LET lists == <<a, b>>
               m == Smaller(TopK, Cardinality(Hits(lists)))
           IN  /\ m \in Nat /\ m <= TopK /\ m <= Cardinality(Hits(lists))
               /\ Fusion(lists) \in Seq(Hits(lists)) /\ Len(Fusion(lists)) = m
               /\ \A i \in 1..m : /\ Fusion(lists)[i] \in Hits(lists)
                                  /\ Rank(Fusion(lists)[i], lists) = i - 1
               /\ \A d \in Hits(lists) : Rank(d, lists) < TopK =>
                    /\ Rank(d, lists) + 1 \in 1..m
                    /\ Fusion(lists)[Rank(d, lists) + 1] = d
<1> DEFINE lists == <<a, b>>
           hits == Hits(lists)
           n == Cardinality(hits)
           m == Smaller(TopK, n)
           rank == [d \in hits |-> Rank(d, lists)]
           fusion == [i \in 1..m |-> CHOOSE d \in hits : Rank(d, lists) = i - 1]
<1>1. IsFiniteSet(hits) /\ n \in Nat
  BY HitsFinite
<1>2. /\ \A d \in hits : Rank(d, lists) \in 0..(n - 1)
      /\ \A d, e \in hits : Rank(d, lists) = Rank(e, lists) => d = e
  BY RankIs
<1>3. Fusion(lists) = fusion
  BY DEF Fusion, Rank, Ahead
<1> HIDE DEF lists, hits
<1>4. rank \in [hits -> 0..(n - 1)] /\ \A d, e \in hits : rank[d] = rank[e] => d = e
  BY <1>2
<1>5. \A k \in 0..(n - 1) : \E d \in hits : rank[d] = k
  <2> HIDE DEF rank
  <2> QED
    BY <1>1, <1>4, AllTaken
<1>6. m \in Nat /\ m <= TopK /\ m <= n /\ (m = TopK \/ m = n)
  BY <1>1, RetrievalAssumption DEF Smaller
<1> HIDE DEF m, n
<1>7. ASSUME NEW i \in 1..m PROVE fusion[i] \in hits /\ Rank(fusion[i], lists) = i - 1
  <2>1. i - 1 \in 0..(n - 1)
    BY <1>1, <1>6
  <2>2. \E d \in hits : Rank(d, lists) = i - 1
    BY <1>5, <2>1
  <2> QED
    BY <2>2
<1>8. fusion \in Seq(hits) /\ Len(fusion) = m
  <2>1. fusion \in [1..m -> hits]
    BY <1>7
  <2> HIDE DEF fusion
  <2> QED
    BY <1>6, <2>1
<1>9. ASSUME NEW d \in hits, Rank(d, lists) < TopK
      PROVE  Rank(d, lists) + 1 \in 1..m /\ fusion[Rank(d, lists) + 1] = d
  <2>1. Rank(d, lists) \in 0..(n - 1)
    BY <1>2
  <2>2. Rank(d, lists) + 1 \in 1..m /\ (Rank(d, lists) + 1) - 1 = Rank(d, lists)
    BY <1>1, <1>6, <1>9, <2>1
  <2>3. /\ fusion[Rank(d, lists) + 1] \in hits
        /\ Rank(fusion[Rank(d, lists) + 1], lists) = Rank(d, lists)
    BY <1>7, <2>2
  <2> QED
    BY <1>2, <2>2, <2>3
<1> HIDE DEF fusion
<1> QED
  BY <1>3, <1>6, <1>7, <1>8, <1>9 DEF lists, hits, m, n

-----------------------------------------------------------------------------
(* The invariant: what was found was in the store at a query. *)

ReadInv ==
    /\ docs \subseteq Docs /\ seen \subseteq Docs
    /\ pc = "text" => semantic \in Rankings(seen)
    /\ pc = "keys" => backend = "redis"
    /\ pc = "answered" =>
         /\ semantic \in Rankings(seen) /\ text \in Rankings(seen)
         /\ result = Fusion(<<semantic, text>>)
    /\ pc = "listed" =>
         /\ Elements(result) \subseteq seen
         /\ backend = "postgres" => result \in Rankings(seen)

LEMMA InitReadInv == Init => ReadInv
BY DEF Init, ReadInv

LEMMA StepReadInv == ReadInv /\ [Next]_vars => ReadInv'
<1> SUFFICES ASSUME ReadInv, [Next]_vars PROVE ReadInv'
  OBVIOUS
<1> USE DEF ReadInv, store, reader
<1>1. CASE Begins
  BY <1>1 DEF Begins
<1>2. CASE SemanticSearch
  BY <1>2 DEF SemanticSearch
<1>3. CASE FullTextSearch
  <2>1. /\ semantic' = semantic /\ semantic \in Rankings(seen)
        /\ text' \in Rankings(docs) /\ seen' = seen \cup docs
        /\ result' = Fusion(<<semantic, text'>>) /\ pc' = "answered" /\ docs' = docs
    BY <1>3 DEF FullTextSearch
  <2>2. Rankings(seen) \subseteq Rankings(seen') /\ Rankings(docs) \subseteq Rankings(seen')
    BY <2>1, RankingsGrow
  <2> QED
    BY <2>1, <2>2
<1>4. CASE ListsRows
  <2>1. /\ result' \in Rankings(docs) /\ seen' = docs /\ pc' = "listed"
        /\ UNCHANGED <<backend, docs>>
    BY <1>4 DEF ListsRows
  <2>2. Elements(result') \subseteq docs
    BY <2>1, RankingIs
  <2> QED
    BY <2>1, <2>2
<1>5. CASE ScansKeys
  BY <1>5 DEF ScansKeys
<1>6. CASE ReadsHashes
  BY <1>6 DEF ReadsHashes
<1>7. CASE ReadFails
  BY <1>7 DEF ReadFails
<1>8. CASE Adds \/ Removes \/ MetadataChanges
  BY <1>8 DEF Adds, Removes, MetadataChanges
<1>9. CASE UNCHANGED vars
  BY <1>9 DEF vars
<1> QED
  BY <1>1, <1>2, <1>3, <1>4, <1>5, <1>6, <1>7, <1>8, <1>9 DEF Next

LEMMA AlwaysReadInv == Spec => []ReadInv
BY InitReadInv, StepReadInv, PTL DEF Spec

\* What the invariant says of an answer, with the facts about the fusion.
LEMMA Answered ==
    ASSUME ReadInv, pc = "answered"
    PROVE  LET hits == Hits(<<semantic, text>>)
               rank(d) == Rank(d, <<semantic, text>>)
               m == Smaller(TopK, Cardinality(hits))
           IN  /\ semantic \in Rankings(Docs) /\ text \in Rankings(Docs)
               /\ hits = Elements(semantic) \cup Elements(text)
               /\ hits \subseteq seen /\ hits \subseteq Docs
               /\ m \in Nat /\ m <= TopK /\ m <= Cardinality(hits)
               /\ result \in Seq(hits) /\ Len(result) = m
               /\ \A i \in 1..m : result[i] \in hits /\ rank(result[i]) = i - 1
               /\ \A d \in hits : rank(d) < TopK =>
                    rank(d) + 1 \in 1..m /\ result[rank(d) + 1] = d
<1>1. /\ semantic \in Rankings(seen) /\ text \in Rankings(seen) /\ seen \subseteq Docs
      /\ result = Fusion(<<semantic, text>>)
  BY DEF ReadInv
<1>2. semantic \in Rankings(Docs) /\ text \in Rankings(Docs)
  BY <1>1, RankingsGrow
<1>3. Elements(semantic) \subseteq seen /\ Elements(text) \subseteq seen
  BY <1>1, RankingIs
<1>4. Hits(<<semantic, text>>) = Elements(semantic) \cup Elements(text)
  BY <1>2, HitsFinite
<1> QED
  BY <1>1, <1>2, <1>3, <1>4, FusionIs

\* A sequence without repetitions has as many elements as places.
LEMMA CountElements ==
    ASSUME NEW n \in Nat, NEW s, DOMAIN s = 1..n,
           \A i, j \in 1..n : s[i] = s[j] => i = j
    PROVE  Cardinality(Elements(s)) = n
<1> DEFINE f == [i \in 1..n |-> s[i]]
<1>1. f \in Bijection(1..n, Elements(s))
  BY DEF Bijection, Injection, Surjection, IsInjective, Elements
<1>2. ExistsBijection(1..n, Elements(s))
  BY <1>1 DEF ExistsBijection
<1>3. IsFiniteSet(1..n) /\ Cardinality(1..n) = n
  BY FS_Interval
<1> QED
  BY <1>2, <1>3, FS_Bijection

\* However the store changes between the queries, a search answers as many
\* documents as were found and asked for, each found and none twice; a page of
\* the listing was in the store as a whole.
THEOREM FoundOnce == Spec => []ResultsWereFound
<1>1. ReadInv => ResultsWereFound
  <2> SUFFICES ASSUME ReadInv PROVE ResultsWereFound
    OBVIOUS
  <2>1. CASE pc = "answered"
    <3> DEFINE hits == Hits(<<semantic, text>>)
               m == Smaller(TopK, Cardinality(hits))
    <3>1. /\ hits \subseteq seen /\ m \in Nat
          /\ result \in Seq(hits) /\ Len(result) = m
          /\ \A i \in 1..m : Rank(result[i], <<semantic, text>>) = i - 1
      BY <2>1, Answered
    <3> HIDE DEF hits, m
    <3>2. DOMAIN result = 1..m /\ Elements(result) \subseteq seen
      BY <3>1 DEF Elements
    <3>3. \A i, j \in 1..m : result[i] = result[j] => i = j
      BY <3>1
    <3>4. Cardinality(Elements(result)) = m
      BY <3>1, <3>2, <3>3, CountElements
    <3> QED
      BY <2>1, <3>1, <3>2, <3>4 DEF ResultsWereFound, hits, m
  <2>2. CASE pc = "listed"
    <3>1. Elements(result) \subseteq seen
      BY <2>2 DEF ReadInv
    <3>2. ASSUME backend = "postgres" PROVE Cardinality(Elements(result)) = Len(result)
      <4>1. result \in Rankings(seen)
        BY <2>2, <3>2 DEF ReadInv
      <4>2. /\ Len(result) \in Nat /\ DOMAIN result = 1..Len(result)
            /\ \A i, j \in 1..Len(result) : result[i] = result[j] => i = j
        BY <4>1, RankingIs, RetrievalAssumption
      <4> QED
        BY <4>2, CountElements
    <3> QED
      BY <2>2, <3>1, <3>2 DEF ResultsWereFound
  <2> QED
    BY <2>1, <2>2 DEF ResultsWereFound
<1> QED
  BY AlwaysReadInv, <1>1, PTL

\* What is at least as good in both lists comes first.
LEMMA AgreedIsBefore ==
    ASSUME semantic \in Rankings(Docs), text \in Rankings(Docs), NEW d, NEW e, d # e,
           e \in Elements(semantic) \cup Elements(text), AtLeastAsGood(d, e)
    PROVE  /\ d \in Elements(semantic) \cup Elements(text)
           /\ Before(d, e, <<semantic, text>>)
<1>1. \A list \in {semantic, text} :
        /\ Weight(d, list) >= Weight(e, list)
        /\ e \in Elements(list) =>
             d \in Elements(list) /\ Weight(d, list) > Weight(e, list)
  <2> SUFFICES ASSUME NEW list \in {semantic, text}
               PROVE  /\ Weight(d, list) >= Weight(e, list)
                      /\ e \in Elements(list) =>
                           d \in Elements(list) /\ Weight(d, list) > Weight(e, list)
    OBVIOUS
  <2>1. \A j \in DOMAIN list : list[j] = e => \E i \in 1..j : list[i] = d
    BY DEF AtLeastAsGood
  <2> QED
    BY <2>1, WeighsMore
<1>2. \A list \in {semantic, text} : Weight(d, list) \in Nat /\ Weight(e, list) \in Nat
  BY WeightIs
<1>3. Score(d, <<semantic, text>>) > Score(e, <<semantic, text>>)
  BY <1>1, <1>2, ScoreIs
<1> QED
  BY <1>1, <1>3, BeforeIs

\* The fusion keeps every order both queries agree on, with any lists, TopK and
\* constant of the scores.
THEOREM FusionKeepsOrder == Spec => []AgreedOrder
<1>1. ReadInv => AgreedOrder
  <2> SUFFICES ASSUME ReadInv, pc = "answered", NEW e \in Elements(result),
                      NEW d \in Docs \ {e}, AtLeastAsGood(d, e)
               PROVE  d \in Elements(result) /\ Position(d) < Position(e)
    BY DEF AgreedOrder
  <2> DEFINE lists == <<semantic, text>>
             hits == Hits(lists)
             m == Smaller(TopK, Cardinality(hits))
             rank(x) == Rank(x, lists)
  <2>1. /\ semantic \in Rankings(Docs) /\ text \in Rankings(Docs)
        /\ hits = Elements(semantic) \cup Elements(text)
        /\ m \in Nat /\ m <= TopK
        /\ result \in Seq(hits) /\ Len(result) = m
        /\ \A i \in 1..m : result[i] \in hits /\ rank(result[i]) = i - 1
        /\ \A x \in hits : rank(x) < TopK =>
             rank(x) + 1 \in 1..m /\ result[rank(x) + 1] = x
    BY Answered
  <2>2. DOMAIN result = 1..m
    BY <2>1
  <2>3. PICK i \in 1..m : result[i] = e
    BY <2>2 DEF Elements
  <2>4. e \in hits /\ rank(e) = i - 1
    BY <2>1, <2>3
  <2>5. d \in hits /\ Before(d, e, lists)
    BY <2>1, <2>4, AgreedIsBefore
  <2>6. rank(d) < rank(e) /\ rank(d) \in Nat
    BY <2>1, <2>4, <2>5, RankIs
  <2> HIDE DEF hits, lists, m, rank
  <2>7. rank(d) < TopK /\ rank(d) + 1 < i
    BY <2>1, <2>4, <2>6, RetrievalAssumption
  <2>8. rank(d) + 1 \in 1..m /\ result[rank(d) + 1] = d
    BY <2>1, <2>5, <2>7
  <2>9. \A j, k \in 1..m : result[j] = result[k] => j = k
    BY <2>1
  <2>10. Position(e) = i /\ Position(d) = rank(d) + 1
    BY <2>2, <2>3, <2>8, <2>9 DEF Position
  <2> QED
    BY <2>2, <2>7, <2>8, <2>10 DEF Elements
<1> QED
  BY AlwaysReadInv, <1>1, PTL

\* Only a document both queries found can come before the first one of the
\* semantic query.
LEMMA BeforeFirst ==
    ASSUME NEW a \in Rankings(Docs), NEW b \in Rankings(Docs), a # <<>>,
           NEW e \in Elements(a) \cup Elements(b), Before(e, a[1], <<a, b>>)
    PROVE  e \in Elements(a) /\ e # a[1]
<1> DEFINE first == a[1]
           lists == <<a, b>>
<1>1. /\ a \in Seq(Docs) /\ b \in Seq(Docs) /\ Len(a) \in 0..TopK /\ Len(b) \in 0..TopK
      /\ TopK \in Nat \ {0}
  BY RankingIs, RetrievalAssumption
<1>2. 1 \in 1..Len(a) /\ Len(a) \in Nat /\ first \in Elements(a) \cup Elements(b)
  <2>1. Len(a) # 0
    BY <1>1
  <2>2. 1 \in 1..Len(a) /\ Len(a) \in Nat
    BY <1>1, <2>1
  <2> QED
    BY <2>2, RankingIs
<1>3. FirstMet(first, lists) <= 1 /\ FirstMet(first, lists) \in Nat \ {0}
  BY <1>1, <1>2, FirstMetIs
<1>4. FirstMet(e, lists) \in Nat \ {0}
  BY <1>1, FirstMetIs
<1>5. Weight(first, a) = Share(1) /\ Weight(first, b) \in Nat /\ Share(1) \in Nat
  BY <1>1, <1>2, WeightIs, SharesFall
<1>6. Score(first, lists) >= Share(1) /\ Score(first, lists) \in Nat
  BY <1>5, ScoreIs
<1>7. e # first
  BY <1>3, <1>6, BeforeIs
<1>8. ASSUME e \notin Elements(a) PROVE FALSE
  <2>1. e \in Elements(b) /\ Weight(e, a) = 0
    BY <1>8, WeightIs
  <2>2. PICK i \in 1..Len(b) : b[i] = e
    BY <2>1, RankingIs
  <2>3. i \in 1..TopK /\ Weight(e, b) = Share(i)
    BY <2>2, WeightIs
  <2>4. Share(i) <= Share(1) /\ Share(i) \in Nat
    BY <1>1, <1>5, <2>3, SharesFall
  <2>5. Score(e, lists) <= Share(1) /\ Score(e, lists) \in Nat
    BY <1>5, <2>1, <2>3, <2>4, ScoreIs
  <2>6. ~(Score(e, lists) > Score(first, lists))
    BY <1>5, <1>6, <2>5
  <2>7. FirstMet(e, lists) < FirstMet(first, lists)
    BY <2>6, BeforeIs
  <2> QED
    BY <1>3, <1>4, <2>7
<1> QED
  BY <1>7, <1>8

\* The first document of the semantic query is always answered: fewer than
\* TopK others can be in both lists.
THEOREM FirstHitAnswered == Spec => []FirstHitKept
<1>1. ReadInv => FirstHitKept
  <2> SUFFICES ASSUME ReadInv, pc = "answered", semantic # <<>>
               PROVE  semantic[1] \in Elements(result)
    BY DEF FirstHitKept
  <2> DEFINE lists == <<semantic, text>>
             hits == Hits(lists)
             m == Smaller(TopK, Cardinality(hits))
             first == semantic[1]
             near == Elements(semantic)
  <2>1. /\ semantic \in Rankings(Docs) /\ text \in Rankings(Docs)
        /\ hits = Elements(semantic) \cup Elements(text)
        /\ result \in Seq(hits) /\ Len(result) = m /\ m \in Nat
        /\ \A x \in hits : Rank(x, lists) < TopK =>
             Rank(x, lists) + 1 \in 1..m /\ result[Rank(x, lists) + 1] = x
    BY Answered
  <2>2. /\ semantic \in Seq(Docs) /\ Len(semantic) \in 0..TopK
        /\ DOMAIN semantic = 1..Len(semantic)
        /\ \A i, j \in 1..Len(semantic) : semantic[i] = semantic[j] => i = j
        /\ near \subseteq Docs
    BY <2>1, RankingIs
  <2>3. Cardinality(near) = Len(semantic) /\ Len(semantic) \in Nat
    BY <2>2, CountElements, RetrievalAssumption
  <2>4. IsFiniteSet(near)
    BY <2>2, FS_Subset, RetrievalAssumption
  <2>5. first \in near
    <3>1. Len(semantic) # 0
      BY <2>2
    <3>2. 1 \in DOMAIN semantic
      BY <2>2, <2>3, <3>1
    <3> QED
      BY <3>2 DEF Elements
  <2>6. Ahead(first, lists) \subseteq near /\ first \in near \ Ahead(first, lists)
    BY <2>1, <2>5, BeforeFirst DEF Ahead
  <2>7. Rank(first, lists) < Len(semantic) /\ Rank(first, lists) \in Nat
    BY <2>3, <2>4, <2>6, StrictSubset DEF Rank
  <2>8. Rank(first, lists) < TopK /\ first \in hits
    BY <2>1, <2>2, <2>5, <2>7, RetrievalAssumption
  <2> HIDE DEF m, hits, lists
  <2>9. Rank(first, lists) + 1 \in 1..m /\ result[Rank(first, lists) + 1] = first
    BY <2>1, <2>8
  <2>10. DOMAIN result = 1..m
    BY <2>1
  <2> QED
    BY <2>9, <2>10 DEF Elements
<1> QED
  BY AlwaysReadInv, <1>1, PTL

-----------------------------------------------------------------------------
(* What the entries of a conversation carry. *)

CallNames == Sources \cup {Malformed}
Whats == CallNames \cup Nat
Entries == [kind : {"said", "call", "output"}, what : Whats]

\* f[n] is what the first n entries carry of one kind, up to m.
Carries(f, kind, entries, m) ==
    f = [n \in 0..m |-> IF n = 0 THEN <<>>
                        ELSE IF entries[n].kind = kind
                          THEN Append(f[n - 1], entries[n].what)
                        ELSE f[n - 1]]

LEMMA CarriesExists ==
    ASSUME NEW kind, NEW entries
    PROVE  \A m \in Nat : \E f : Carries(f, kind, entries, m)
<1> DEFINE S == {m \in Nat : \E f : Carries(f, kind, entries, m)}
<1>1. 0 \in S
  <2> DEFINE f == [n \in 0..0 |-> <<>>]
  <2>1. Carries(f, kind, entries, 0)
    BY DEF Carries
  <2> QED
    BY <2>1
<1>2. ASSUME NEW m \in Nat, m \in S PROVE m + 1 \in S
  <2>1. PICK f : Carries(f, kind, entries, m)
    BY <1>2
  <2> DEFINE last == IF entries[m + 1].kind = kind
                       THEN Append(f[m], entries[m + 1].what) ELSE f[m]
             g == [n \in 0..(m + 1) |-> IF n = m + 1 THEN last ELSE f[n]]
  <2>2. ASSUME NEW n \in 0..(m + 1)
        PROVE  g[n] = IF n = 0 THEN <<>>
                      ELSE IF entries[n].kind = kind
                        THEN Append(g[n - 1], entries[n].what)
                      ELSE g[n - 1]
    <3>1. CASE n = m + 1
      BY <3>1
    <3>2. CASE n # m + 1
      <4>1. n \in 0..m /\ g[n] = f[n] /\ (n # 0 => g[n - 1] = f[n - 1])
        BY <3>2
      <4> HIDE DEF g
      <4> QED
        BY <2>1, <4>1 DEF Carries
    <3> QED
      BY <3>1, <3>2
  <2>3. g = [n \in 0..(m + 1) |-> g[n]]
    OBVIOUS
  <2> HIDE DEF g
  <2>4. Carries(g, kind, entries, m + 1)
    BY <2>2, <2>3 DEF Carries
  <2> QED
    BY <2>4
<1> HIDE DEF S
<1>3. Nat \subseteq S
  BY <1>1, <1>2, AllNaturals
<1> QED
  BY <1>3 DEF S

LEMMA CarriedIs ==
    ASSUME NEW kind, NEW entries \in Seq(Entries)
    PROVE  \E f : /\ Carries(f, kind, entries, Len(entries))
                  /\ Carried(kind, entries) = f[Len(entries)]
<1> DEFINE what[n \in 0..Len(entries)] ==
             IF n = 0 THEN <<>>
             ELSE IF entries[n].kind = kind
               THEN Append(what[n - 1], entries[n].what)
             ELSE what[n - 1]
<1>1. Carries(what, kind, entries, Len(entries))
  <2>0. Len(entries) \in Nat
    OBVIOUS
  <2> HIDE DEF what
  <2>1. PICK f : Carries(f, kind, entries, Len(entries))
    BY <2>0, CarriesExists
  <2> QED
    BY <2>1 DEF Carries, what
<1>2. Carried(kind, entries) = what[Len(entries)]
  BY DEF Carried
<1> HIDE DEF what
<1> QED
  BY <1>1, <1>2

LEMMA CarriedNothing ==
    ASSUME NEW kind
    PROVE  Carried(kind, <<>>) = <<>>
<1>1. <<>> \in Seq(Entries) /\ Len(<<>>) = 0
  OBVIOUS
<1>2. PICK f : Carries(f, kind, <<>>, 0) /\ Carried(kind, <<>>) = f[0]
  BY <1>1, CarriedIs
<1> QED
  BY <1>2 DEF Carries

LEMMA CarriedType ==
    ASSUME NEW kind, NEW entries \in Seq(Entries)
    PROVE  Carried(kind, entries) \in Seq(Whats)
<1> DEFINE L == Len(entries)
<1>1. PICK f : Carries(f, kind, entries, L) /\ Carried(kind, entries) = f[L]
  BY CarriedIs
<1> DEFINE S == {n \in Nat : n <= L => f[n] \in Seq(Whats)}
<1>2. 0 \in S
  BY <1>1 DEF Carries
<1>3. ASSUME NEW n \in Nat, n \in S PROVE n + 1 \in S
  <2> SUFFICES ASSUME n + 1 <= L PROVE f[n + 1] \in Seq(Whats)
    OBVIOUS
  <2>0. entries[n + 1] \in Entries
    OBVIOUS
  <2>1. f[n] \in Seq(Whats) /\ n + 1 \in 0..L /\ n + 1 # 0 /\ (n + 1) - 1 = n
    BY <1>3
  <2>3. entries[n + 1].what \in Whats
    BY <2>0 DEF Entries
  <2>2. f[n + 1] = IF entries[n + 1].kind = kind
                     THEN Append(f[n], entries[n + 1].what) ELSE f[n]
    BY <1>1, <2>1 DEF Carries
  <2> QED
    BY <2>1, <2>2, <2>3
<1>4. Nat \subseteq S
  <2> HIDE DEF S
  <2> QED
    BY <1>2, <1>3, AllNaturals
<1> QED
  BY <1>1, <1>4

\* One more entry.
LEMMA CarriedOneMore ==
    ASSUME NEW kind, NEW entries \in Seq(Entries), NEW e \in Entries
    PROVE  Carried(kind, Append(entries, e)) =
             IF e.kind = kind THEN Append(Carried(kind, entries), e.what)
             ELSE Carried(kind, entries)
<1> DEFINE L == Len(entries)
           more == Append(entries, e)
<1>1. /\ more \in Seq(Entries) /\ Len(more) = L + 1 /\ more[L + 1] = e
      /\ \A n \in 1..L : more[n] = entries[n]
      /\ L \in Nat
  OBVIOUS
<1> HIDE DEF more
<1>2. PICK f : Carries(f, kind, entries, L) /\ Carried(kind, entries) = f[L]
  BY CarriedIs
<1>3. PICK g : Carries(g, kind, more, L + 1) /\ Carried(kind, more) = g[L + 1]
  BY <1>1, CarriedIs
<1> HIDE DEF L
<1> DEFINE S == {n \in Nat : n <= L => g[n] = f[n]}
<1>4. 0 \in S
  BY <1>1, <1>2, <1>3 DEF Carries
<1>5. ASSUME NEW n \in Nat, n \in S PROVE n + 1 \in S
  <2> SUFFICES ASSUME n + 1 <= L PROVE g[n + 1] = f[n + 1]
    OBVIOUS
  <2>1. /\ g[n] = f[n] /\ n + 1 \in 0..L /\ n + 1 \in 0..(L + 1) /\ n + 1 # 0
        /\ (n + 1) - 1 = n /\ more[n + 1] = entries[n + 1]
    BY <1>1, <1>5
  <2>2. f[n + 1] = IF entries[n + 1].kind = kind
                     THEN Append(f[n], entries[n + 1].what) ELSE f[n]
    BY <1>2, <2>1 DEF Carries
  <2>3. g[n + 1] = IF more[n + 1].kind = kind
                     THEN Append(g[n], more[n + 1].what) ELSE g[n]
    BY <1>3, <2>1 DEF Carries
  <2> QED
    BY <2>1, <2>2, <2>3
<1>6. Nat \subseteq S
  <2> HIDE DEF S
  <2> QED
    BY <1>4, <1>5, AllNaturals
<1>7. g[L] = f[L]
  BY <1>1, <1>6
<1>8. L + 1 \in 0..(L + 1) /\ L + 1 # 0 /\ (L + 1) - 1 = L
  BY <1>1
<1>9. g[L + 1] = IF more[L + 1].kind = kind
                   THEN Append(g[L], more[L + 1].what) ELSE g[L]
  BY <1>3, <1>8 DEF Carries
<1> QED
  BY <1>1, <1>2, <1>3, <1>7, <1>9 DEF more

LEMMA AppendLast ==
    ASSUME NEW T, NEW s \in Seq(T), NEW t \in Seq(T), NEW e \in T
    PROVE  s \o Append(t, e) = Append(s \o t, e)
OBVIOUS

\* Entries that are all of one kind.
LEMMA CarriedAlike ==
    ASSUME NEW kind, NEW other \in {"said", "call", "output"},
           NEW entries \in Seq(Entries), NEW s \in Seq(Whats)
    PROVE  LET added == [i \in 1..Len(s) |-> [kind |-> other, what |-> s[i]]]
           IN  /\ entries \o added \in Seq(Entries)
               /\ Carried(kind, entries \o added) =
                    IF other = kind THEN Carried(kind, entries) \o s
                    ELSE Carried(kind, entries)
<1> DEFINE entry(i) == [kind |-> other, what |-> s[i]]
           added(n) == [i \in 1..n |-> entry(i)]
           base == Carried(kind, entries)
           grown(n) == IF other = kind THEN base \o SubSeq(s, 1, n) ELSE base
           Good(n) == /\ entries \o added(n) \in Seq(Entries)
                      /\ Carried(kind, entries \o added(n)) = grown(n)
           S == {n \in Nat : n <= Len(s) => Good(n)}
<1>1. \A i \in 1..Len(s) : /\ entry(i) \in Entries /\ s[i] \in Whats
                            /\ entry(i).kind = other /\ entry(i).what = s[i]
  BY DEF Entries
<1>2. base \in Seq(Whats)
  BY CarriedType
<1> HIDE DEF base
<1>3. 0 \in S
  <2>1. added(0) = <<>> /\ SubSeq(s, 1, 0) = <<>>
    OBVIOUS
  <2>2. entries \o <<>> = entries /\ base \o <<>> = base
    BY <1>2
  <2>3. entries \o added(0) = entries /\ grown(0) = base
    BY <2>1, <2>2
  <2> QED
    BY <2>3 DEF base
<1>4. ASSUME NEW n \in Nat, n \in S PROVE n + 1 \in S
  <2> SUFFICES ASSUME n + 1 <= Len(s) PROVE Good(n + 1)
    OBVIOUS
  <2>1. Good(n)
    BY <1>4
  <2> DEFINE e == entry(n + 1)
  <2>2. /\ e \in Entries /\ e.kind = other /\ e.what = s[n + 1]
        /\ s[n + 1] \in Whats
    BY <1>1
  <2>3. entries \o added(n + 1) = Append(entries \o added(n), e)
    <3>1. added(n) \in Seq(Entries) /\ Len(added(n)) = n
      BY <1>1
    <3>2. added(n + 1) = Append(added(n), e)
      BY <3>1
    <3> HIDE DEF e
    <3> HIDE DEF added
    <3>3. PICK t : t = added(n)
      OBVIOUS
    <3>4. t \in Seq(Entries)
      BY <3>1, <3>3
    <3>5. entries \o Append(t, e) = Append(entries \o t, e)
      BY <2>2, <3>4, AppendLast
    <3> QED
      BY <3>2, <3>3, <3>5
  <2>4. SubSeq(s, 1, n + 1) = Append(SubSeq(s, 1, n), s[n + 1])
        /\ SubSeq(s, 1, n) \in Seq(Whats)
    OBVIOUS
  <2>5. base \o SubSeq(s, 1, n + 1) = Append(base \o SubSeq(s, 1, n), s[n + 1])
    BY <1>2, <2>2, <2>4, AppendLast
  <2>6. grown(n + 1) = IF other = kind THEN Append(grown(n), s[n + 1]) ELSE grown(n)
    BY <2>5
  <2> HIDE DEF e
  <2> HIDE DEF entry, grown
  <2> HIDE DEF added
  <2>7. /\ entries \o added(n) \in Seq(Entries)
        /\ Carried(kind, entries \o added(n)) = grown(n)
    BY <2>1
  <2>8. Carried(kind, Append(entries \o added(n), e)) =
             IF e.kind = kind THEN Append(grown(n), e.what) ELSE grown(n)
    <3>1. PICK t : t = entries \o added(n)
      OBVIOUS
    <3>2. t \in Seq(Entries) /\ Carried(kind, t) = grown(n)
      BY <2>7, <3>1
    <3>3. PICK c : c = grown(n)
      OBVIOUS
    <3>4. Carried(kind, Append(t, e)) =
            IF e.kind = kind THEN Append(c, e.what) ELSE c
      BY <2>2, <3>2, <3>3, CarriedOneMore
    <3> QED
      BY <3>1, <3>3, <3>4
  <2>9. Append(entries \o added(n), e) \in Seq(Entries)
    BY <2>2, <2>7
  <2> QED
    BY <2>2, <2>3, <2>6, <2>8, <2>9
<1> HIDE DEF Good
<1>5. Nat \subseteq S
  <2> HIDE DEF S
  <2> QED
    BY <1>3, <1>4, AllNaturals
<1>6. Good(Len(s))
  BY <1>5
<1>7. SubSeq(s, 1, Len(s)) = s
  OBVIOUS
<1> QED
  BY <1>6, <1>7 DEF Good, base

-----------------------------------------------------------------------------
(* The invariant. *)

ChatTypes ==
    /\ settings \in [responses : BOOLEAN, metadata : {"postgres", "redis"}]
    /\ messages \in Seq(Nat) \ {<<>>}
    /\ input \in Seq(Entries)
    /\ chained \in Seq(CallNames)
    /\ calls \in Seq(CallNames)
    /\ asked \in Nat

\* The calls the next request answers.
Made == IF UseResponses THEN chained ELSE Carried("call", input)

\* Before the conversation there is nothing.
Fresh ==
    at \in {"list", "validate"} =>
        /\ asked = 0
        /\ input = <<>> /\ chained = <<>> /\ calls = <<>>

\* The answers so far, and the calls still to be executed, are the calls made.
Answering ==
    /\ at \in {"ask", "model"} => calls = <<>>
    /\ at = "tool_list" => calls # <<>>
    /\ at \in {"ask", "model", "tools", "tool_list"} =>
         Carried("output", input) \o calls = Made

\* The first request carries the window and nothing takes it back.
Remembers ==
    at \in {"ask", "model", "tools", "tool_list"} /\ chained = <<>> =>
        Carried("said", input) = Window(messages, HistoryLimit)

\* PostgreSQL has read the rows when it answers: there is nothing to look up.
ListedAtOnce ==
    at = "tool_list" /\ settings.metadata # "redis" => unchecked = {}

ChatInv == ChatTypes /\ Fresh /\ Answering /\ Remembers /\ ListedAtOnce

LEMMA AppendIs ==
    ASSUME NEW T, NEW s \in Seq(T), NEW e \in T, NEW n \in Nat, Len(s) = n
    PROVE  /\ Append(s, e) \in Seq(T) /\ Len(Append(s, e)) = n + 1
           /\ \A i \in 1..n : Append(s, e)[i] = s[i]
           /\ Append(s, e)[n + 1] = e
OBVIOUS

\* What a sequence ends with, put together as the window is.
LEMMA TailOf ==
    ASSUME NEW s \in Seq(Nat), NEW first \in 1..Len(s)
    PROVE  LET end == Append(SubSeq(s, first, Len(s) - 1), s[Len(s)])
           IN  /\ end \in Seq(Nat)
               /\ Len(end) = Len(s) - first + 1
               /\ \A i \in 1..Len(end) : end[i] = s[first + i - 1]
<1> DEFINE n == Len(s)
           most == SubSeq(s, first, n - 1)
           end == Append(most, s[n])
<1>1. n \in Nat \ {0} /\ first \in Int /\ s[n] \in Nat
  OBVIOUS
<1>2. /\ most \in Seq(Nat) /\ Len(most) = n - first
      /\ \A i \in 1..(n - first) : most[i] = s[first + i - 1]
  BY <1>1
<1> HIDE DEF most
<1>0. n - first \in Nat
  BY <1>1
<1> HIDE DEF n
<1>3. /\ end \in Seq(Nat) /\ Len(end) = n - first + 1
      /\ \A i \in 1..(n - first) : end[i] = most[i]
      /\ end[n - first + 1] = s[n]
  <2>1. PICK m \in Nat : m = n - first
    BY <1>0
  <2>2. PICK e \in Nat : e = s[n]
    BY <1>1
  <2>3. Len(most) = m
    BY <1>2, <2>1
  <2>4. /\ Append(most, e) \in Seq(Nat) /\ Len(Append(most, e)) = m + 1
        /\ \A i \in 1..m : Append(most, e)[i] = most[i]
        /\ Append(most, e)[m + 1] = e
    BY <1>2, <2>3, AppendIs
  <2> QED
    BY <2>1, <2>2, <2>4
<1> HIDE DEF end
<1>4. ASSUME NEW i \in 1..Len(end) PROVE end[i] = s[first + i - 1]
  <2>1. CASE i = n - first + 1
    <3>1. first + i - 1 = n
      BY <1>1, <2>1
    <3> QED
      BY <1>3, <2>1, <3>1
  <2>2. CASE i # n - first + 1
    BY <1>1, <1>2, <1>3, <2>2
  <2> QED
    BY <2>1, <2>2
<1> QED
  BY <1>3, <1>4 DEF end, most, n

\* The window is the last messages, as many as the limit allows.
LEMMA WindowIs ==
    ASSUME NEW s \in Seq(Nat) \ {<<>>}
    PROVE  LET window == Window(s, HistoryLimit)
               size == IF HistoryLimit = 0 \/ Len(s) < HistoryLimit
                         THEN Len(s) ELSE HistoryLimit
           IN  /\ window \in Seq(Nat) \ {<<>>}
               /\ Len(window) = size
               /\ \A i \in 1..size : window[i] = s[Len(s) - size + i]
<1> DEFINE n == Len(s)
           first == IF HistoryLimit = 0 THEN 1
                    ELSE IF n > HistoryLimit THEN n - HistoryLimit + 1 ELSE 1
           size == IF HistoryLimit = 0 \/ n < HistoryLimit THEN n ELSE HistoryLimit
           window == Window(s, HistoryLimit)
           end == Append(SubSeq(s, first, n - 1), s[n])
<1>1. n \in Nat \ {0}
  OBVIOUS
<1>2. window = end
  BY DEF Window
<1>7. HistoryLimit \in Nat
  BY LimitAssumption
<1> HIDE DEF n
<1>3. first \in 1..n /\ size \in 1..n /\ first = n - size + 1
  BY <1>1, <1>7
<1> USE DEF n
<1> HIDE DEF first, size, window
<1>4. /\ end \in Seq(Nat) /\ Len(end) = n - first + 1
      /\ \A i \in 1..Len(end) : end[i] = s[first + i - 1]
  BY <1>3, TailOf
<1> HIDE DEF end
<1>5. Len(window) = size /\ window \in Seq(Nat) \ {<<>>}
  BY <1>1, <1>2, <1>3, <1>4
<1>6. ASSUME NEW i \in 1..size PROVE window[i] = s[n - size + i]
  <2>1. first + i - 1 = n - size + i /\ i \in 1..Len(end)
    BY <1>1, <1>3, <1>4
  <2> QED
    BY <1>2, <1>4, <2>1
<1> QED
  BY <1>5, <1>6 DEF window, size

LEMMA WindowType ==
    ASSUME NEW s \in Seq(Nat) \ {<<>>}
    PROVE  Window(s, HistoryLimit) \in Seq(Nat) \ {<<>>}
BY WindowIs

\* A conversation is opened by what was said, and nothing else.
LEMMA OnlySaid ==
    ASSUME NEW kind, NEW s \in Seq(Nat)
    PROVE  LET said == [k \in DOMAIN s |-> Said(s[k])]
           IN  /\ said \in Seq(Entries)
               /\ Carried(kind, said) = IF kind = "said" THEN s ELSE <<>>
<1> DEFINE said == [k \in DOMAIN s |-> Said(s[k])]
           added == [i \in 1..Len(s) |-> [kind |-> "said", what |-> s[i]]]
<1>1. said = added
  BY DEF Said
<1>2. s \in Seq(Whats) /\ <<>> \in Seq(Entries)
  BY DEF Whats
<1>3. /\ <<>> \o added \in Seq(Entries)
      /\ Carried(kind, <<>> \o added) =
           IF "said" = kind THEN Carried(kind, <<>>) \o s
           ELSE Carried(kind, <<>>)
  BY <1>2, CarriedAlike
<1>4. \A i \in 1..Len(s) : [kind |-> "said", what |-> s[i]] \in Entries
  BY DEF Entries, Whats
<1>5. added \in Seq(Entries)
  BY <1>4
<1> HIDE DEF added
<1>6. <<>> \o added = added /\ <<>> \o s = s
  BY <1>5
<1> QED
  BY <1>1, <1>3, <1>6, CarriedNothing

\* The calls of one message of the model join the input.
LEMMA OnlyCalled ==
    ASSUME NEW kind, NEW entries \in Seq(Entries), NEW n \in Nat,
           NEW made \in [1..n -> CallNames]
    PROVE  LET called == [k \in 1..n |-> Called(made[k])]
           IN  /\ entries \o called \in Seq(Entries)
               /\ Carried(kind, entries \o called) =
                    IF kind = "call" THEN Carried(kind, entries) \o made
                    ELSE Carried(kind, entries)
<1>1. made \in Seq(Whats) /\ Len(made) = n
  BY DEF Whats
<1> QED
  BY <1>1, CarriedAlike DEF Called

\* An answer joins the input.
LEMMA OneOutput ==
    ASSUME NEW kind, NEW entries \in Seq(Entries), NEW call \in CallNames
    PROVE  /\ Append(entries, Output(call)) \in Seq(Entries)
           /\ Carried(kind, Append(entries, Output(call))) =
                IF kind = "output" THEN Append(Carried(kind, entries), call)
                ELSE Carried(kind, entries)
<1>1. /\ Output(call) \in Entries
      /\ Output(call).kind = "output" /\ Output(call).what = call
  BY DEF Output, Entries, Whats
<1> QED
  BY <1>1, CarriedOneMore

\* An answered call leaves the calls and becomes the last answer.
LEMMA MovesOver ==
    ASSUME NEW T, NEW s \in Seq(T), NEW t \in Seq(T), t # <<>>
    PROVE  Append(s, Head(t)) \o Tail(t) = s \o t
OBVIOUS

LEMMA InitChatInv == ChatInit => ChatInv
<1> SUFFICES ASSUME ChatInit PROVE ChatInv
  OBVIOUS
<1>1. PICK n \in 1..MaxMessages : messages = [k \in 1..n |-> k]
  BY DEF ChatInit
<1>2. messages \in Seq(Nat) \ {<<>>}
  BY <1>1
<1> QED
  BY <1>2 DEF ChatInit, ChatInv, ChatTypes, Fresh, Answering, Remembers,
              ListedAtOnce

\* A step that ends the request.
LEMMA EndsChatInv ==
    ASSUME ChatInv, NEW outcome \in Outcomes, Ends(outcome)
    PROVE  ChatInv'
BY DEF ChatInv, ChatTypes, Fresh, Answering, Remembers, ListedAtOnce, Ends,
       Outcomes

\* A call is answered.
LEMMA AnswersCall ==
    ASSUME ChatInv, at \in {"tools", "tool_list"}, calls # <<>>,
           at' = "tools",
           input' = Append(input, Output(Head(calls))), calls' = Tail(calls),
           UNCHANGED <<settings, messages, chained, asked>>
    PROVE  ChatInv'
<1> USE DEF ChatInv, ChatTypes
<1>1. Head(calls) \in CallNames /\ Tail(calls) \in Seq(CallNames)
  OBVIOUS
<1>2. ChatTypes'
  BY <1>1, OneOutput
<1>3. /\ Carried("output", input') =
           Append(Carried("output", input), Head(calls))
      /\ Carried("call", input') = Carried("call", input)
      /\ Carried("said", input') = Carried("said", input)
  BY <1>1, OneOutput
<1>4. Carried("output", input) \in Seq(Whats) /\ calls \in Seq(Whats)
  BY CarriedType DEF Whats
<1>5. Append(Carried("output", input), Head(calls)) \o Tail(calls)
        = Carried("output", input) \o calls
  BY <1>4, MovesOver
<1>6. Carried("output", input') \o calls' = Made'
  BY <1>3, <1>5 DEF Answering, Made, UseResponses
<1> QED
  BY <1>2, <1>3, <1>6 DEF Fresh, Answering, Remembers, ListedAtOnce

LEMMA StepChatInv ==
    ChatInv /\ [ChatNext]_chatVars => ChatInv'
<1> SUFFICES ASSUME ChatInv, [ChatNext]_chatVars
             PROVE  ChatInv'
  OBVIOUS
<1> USE DEF ChatInv, ChatTypes
<1>1. CASE ListsSources
  <2>1. CASE existing = {}
    BY <1>1, <2>1, EndsChatInv DEF ListsSources, Outcomes
  <2>2. CASE existing # {}
    BY <1>1, <2>2 DEF ListsSources, Fresh, Answering, Remembers,
                      ListedAtOnce
  <2> QED
    BY <2>1, <2>2
<1>2. ASSUME NEW s \in Sources, LooksUp(s) PROVE ChatInv'
  <2>1. CASE s \in existing
    <3>1. /\ unchecked' = unchecked \ {s}
          /\ UNCHANGED <<settings, messages, input, chained, calls, asked, at>>
      BY <1>2, <2>1 DEF LooksUp
    <3> QED
      BY <3>1 DEF Fresh, Answering, Remembers, ListedAtOnce, Made,
                  UseResponses
  <2>2. CASE s \notin existing
    BY <1>2, <2>2, EndsChatInv DEF LooksUp, Outcomes
  <2> QED
    BY <2>1, <2>2
<1>3. CASE Prepares
  <2> DEFINE recent == Window(messages, HistoryLimit)
  <2>1. recent \in Seq(Nat)
    BY WindowType
  <2>2. /\ input' = [k \in DOMAIN recent |-> Said(recent[k])] /\ at' = "ask"
        /\ UNCHANGED <<settings, messages, chained, calls, asked>>
        /\ chained = <<>> /\ calls = <<>>
    BY <1>3 DEF Prepares, Fresh
  <2>9. recent' = recent
    BY <2>2
  <2> HIDE DEF recent
  <2>3. /\ input' \in Seq(Entries) /\ Carried("said", input') = recent
        /\ Carried("output", input') = <<>> /\ Carried("call", input') = <<>>
    BY <2>1, <2>2, OnlySaid
  <2>4. Carried("output", input') \o calls' = Made'
    BY <2>2, <2>3 DEF Made, UseResponses
  <2> QED
    BY <2>2, <2>3, <2>4, <2>9 DEF Fresh, Answering, Remembers, ListedAtOnce,
                                  recent
<1>4. CASE Asks
  <2>1. CASE asked < MaxIterations
    BY <1>4, <2>1 DEF Asks, Fresh, Answering, Remembers, ListedAtOnce,
                      Made,
                      UseResponses
  <2>2. CASE ~(asked < MaxIterations)
    BY <1>4, <2>2, EndsChatInv DEF Asks, Outcomes
  <2> QED
    BY <2>1, <2>2
<1>5. CASE ModelAnswers \/ ModelSaysNothing \/ ModelFails
  BY <1>5, EndsChatInv DEF ModelAnswers, ModelSaysNothing,
                           ModelFails, Outcomes
<1>6. CASE ModelCalls
  <2>0. PICK n \in 1..MaxCalls : \E made \in [1..n -> CallNames] :
          /\ calls' = made
          /\ IF UseResponses
               THEN chained' = made /\ input' = <<>>
               ELSE /\ input' = input \o [k \in 1..n |-> Called(made[k])]
                    /\ UNCHANGED chained
    BY <1>6 DEF ModelCalls, CallNames
  <2>1. PICK made \in [1..n -> CallNames] :
          /\ calls' = made
          /\ IF UseResponses
               THEN chained' = made /\ input' = <<>>
               ELSE /\ input' = input \o [k \in 1..n |-> Called(made[k])]
                    /\ UNCHANGED chained
    BY <2>0
  <2>2. /\ at = "model" /\ at' = "tools"
        /\ UNCHANGED <<settings, messages, asked>>
    BY <1>6 DEF ModelCalls
  <2>3. made \in Seq(CallNames) /\ made # <<>> /\ n \in Nat
    OBVIOUS
  <2>4. CASE UseResponses
    <3>1. chained' = made /\ input' = <<>> /\ calls' = made
      BY <2>1, <2>4
    <3>2. Carried("output", input') = <<>>
      BY <3>1, CarriedNothing
    <3>3. Made' = made
      BY <2>2, <2>4, <3>1 DEF Made, UseResponses
    <3>4. <<>> \o made = made
      BY <2>3
    <3>5. Carried("output", input') \o calls' = Made'
      BY <3>1, <3>2, <3>3, <3>4
    <3>6. ChatTypes'
      BY <2>2, <2>3, <3>1
    <3>7. Answering'
      BY <2>2, <3>5 DEF Answering
    <3> QED
      BY <2>2, <2>3, <3>1, <3>6, <3>7 DEF Fresh, Remembers, ListedAtOnce
  <2>5. CASE ~UseResponses
    <3>1. /\ input' \in Seq(Entries)
          /\ Carried("output", input') = Carried("output", input)
          /\ Carried("said", input') = Carried("said", input)
          /\ Carried("call", input') = Carried("call", input) \o made
      <4> DEFINE called == [k \in 1..n |-> Called(made[k])]
      <4>1. input' = input \o called
        BY <2>1, <2>5
      <4>2. \A kind : /\ input \o called \in Seq(Entries)
                      /\ Carried(kind, input \o called) =
                            IF kind = "call" THEN Carried(kind, input) \o made
                            ELSE Carried(kind, input)
        BY <2>3, OnlyCalled
      <4> HIDE DEF called
      <4> QED
        BY <4>1, <4>2
    <3>2. Carried("output", input) = Carried("call", input)
      <4>1. Carried("output", input) \in Seq(Whats)
        BY CarriedType
      <4>2. /\ calls = <<>>
            /\ Carried("output", input) \o calls = Carried("call", input)
        BY <2>2, <2>5 DEF Answering, Made
      <4> QED
        BY <4>1, <4>2
    <3>3. Carried("output", input') \o calls' = Made'
      BY <2>1, <2>2, <2>5, <3>1, <3>2 DEF Made, UseResponses
    <3> QED
      BY <2>1, <2>2, <2>3, <2>5, <3>1, <3>3
         DEF Fresh, Answering, Remembers, ListedAtOnce
  <2> QED
    BY <2>4, <2>5
<1>7. CASE RunsTool
  <2>1. CASE Head(calls) = Malformed
    BY <1>7, <2>1, EndsChatInv DEF RunsTool, Outcomes
  <2>2. CASE Head(calls) # Malformed /\ Head(calls) \in existing
    BY <1>7, <2>2, AnswersCall DEF RunsTool
  <2>3. CASE Head(calls) # Malformed /\ Head(calls) \notin existing
    BY <1>7, <2>3 DEF RunsTool, Listed, Fresh, Answering, Remembers,
                      ListedAtOnce, Made, UseResponses
  <2> QED
    BY <2>1, <2>2, <2>3
<1>8. CASE ReportsMissing
  BY <1>8, AnswersCall DEF ReportsMissing, Answering
<1>9. CASE ToolsDone
  BY <1>9 DEF ToolsDone, Fresh, Answering, Remembers, ListedAtOnce, Made,
              UseResponses
<1>10. ASSUME NEW s \in Sources, SourceComesOrGoes(s) PROVE ChatInv'
  BY <1>10 DEF SourceComesOrGoes, Fresh, Answering, Remembers,
               ListedAtOnce,
               Made, UseResponses
<1>11. CASE UNCHANGED chatVars
  BY <1>11 DEF chatVars, Fresh, Answering, Remembers, ListedAtOnce, Made,
               UseResponses
<1> QED
  BY <1>1, <1>2, <1>3, <1>4, <1>5, <1>6, <1>7, <1>8, <1>9, <1>10, <1>11
     DEF ChatNext, Handler

LEMMA AlwaysChatInv == ChatSpec => []ChatInv
BY InitChatInv, StepChatInv, PTL DEF ChatSpec

-----------------------------------------------------------------------------
(* The theorems. *)

\* Whatever the model calls and whatever becomes of the sources, no request
\* reaches the model with a call unanswered, answered twice or out of order.
THEOREM NoCallLeftOpen == ChatSpec => []CallsAnswered
<1>1. ChatInv => CallsAnswered
  <2> SUFFICES ASSUME ChatInv, at = "model"
               PROVE  Carried("output", input) = Made
    BY DEF CallsAnswered, Made
  <2>1. calls = <<>> /\ Carried("output", input) \o calls = Made
    BY DEF ChatInv, Answering
  <2>2. Carried("output", input) \in Seq(Whats)
    BY CarriedType DEF ChatInv, ChatTypes
  <2> QED
    BY <2>1, <2>2
<1> QED
  BY AlwaysChatInv, <1>1, PTL

LEMMA WindowIsSuffix ==
    ASSUME NEW s \in Seq(Nat) \ {<<>>}, HistoryLimit > 0
    PROVE  /\ IsSuffix(Window(s, HistoryLimit), s)
           /\ Len(Window(s, HistoryLimit)) =
                IF Len(s) < HistoryLimit THEN Len(s) ELSE HistoryLimit
<1> DEFINE n == Len(s)
           window == Window(s, HistoryLimit)
           size == IF n < HistoryLimit THEN n ELSE HistoryLimit
           back == Reverse(window)
           all == Reverse(s)
<1>1. n \in Nat \ {0} /\ size \in 1..n
  BY LimitAssumption
<1>2. /\ window \in Seq(Nat) /\ Len(window) = size
      /\ \A i \in 1..size : window[i] = s[n - size + i]
  <2>1. HistoryLimit # 0
    OBVIOUS
  <2> QED
    BY <2>1, WindowIs
<1> HIDE DEF window, size
<1>3. /\ back = [i \in 1..size |-> window[(size - i) + 1]]
      /\ all = [i \in 1..n |-> s[(n - i) + 1]]
  BY <1>2 DEF Reverse
<1>4. ASSUME NEW i \in 1..size PROVE i \in 1..n /\ back[i] = all[i]
  <2>1. (size - i) + 1 \in 1..size /\ n - size + ((size - i) + 1) = (n - i) + 1
        /\ i \in 1..n
    BY <1>1
  <2>2. window[(size - i) + 1] = s[(n - i) + 1]
    BY <1>2, <2>1
  <2> QED
    BY <1>3, <2>1, <2>2
<1>5. \A i \in 1..size : (size - i) + 1 \in 1..size /\ window[(size - i) + 1] \in Nat
  BY <1>1, <1>2
<1>6. \A i \in 1..n : (n - i) + 1 \in 1..n /\ s[(n - i) + 1] \in Nat
  BY <1>1
<1>7. back \in Seq(Nat) /\ Len(back) = size
  BY <1>1, <1>3, <1>5
<1>8. all \in Seq(Nat) /\ Len(all) = n
  BY <1>1, <1>3, <1>6
<1> HIDE DEF back, all
<1>9. SubSeq(back, 1, Len(back)) = SubSeq(all, 1, Len(back))
  BY <1>1, <1>4, <1>7, <1>8
<1>10. IsPrefix(back, all)
  BY <1>1, <1>7, <1>8, <1>9 DEF IsPrefix
<1> QED
  BY <1>2, <1>10 DEF IsSuffix, back, all, window, size

\* However long the conversation is and whatever its limit, the model reads
\* the last messages of it, the newest last, until a response is chained to.
THEOREM NewestMessagesSent == ChatSpec => []RecentMessages
<1>1. ChatInv => RecentMessages
  BY WindowIsSuffix DEF ChatInv, ChatTypes, Remembers, RecentMessages
<1> QED
  BY AlwaysChatInv, <1>1, PTL

\* A source that disappears during the conversation never becomes a 404 of the
\* request, but for Redis while the sources are listed for the model.
THEOREM NotFoundOnlyEarly == ChatSpec => NotFoundEarly
<1>1. ChatInv /\ [ChatNext]_chatVars =>
        (at' = "not_found" /\ at # "not_found" =>
            asked = 0 \/ (at = "tool_list" /\ settings.metadata = "redis"))
  <2> SUFFICES ASSUME ChatInv, [ChatNext]_chatVars,
                      at' = "not_found", at # "not_found"
               PROVE  asked = 0 \/ (at = "tool_list" /\ settings.metadata = "redis")
    OBVIOUS
  <2>1. PICK s \in Sources : LooksUp(s)
    BY DEF ChatNext, Handler, ListsSources, Prepares,
           Asks, ModelAnswers, ModelSaysNothing,
           ModelFails, ModelCalls, RunsTool,
           ReportsMissing, ToolsDone, SourceComesOrGoes,
           Ends, chatVars
  <2>2. at \in {"validate", "tool_list"} /\ unchecked # {}
    BY <2>1 DEF LooksUp
  <2> QED
    BY <2>2 DEF ChatInv, ChatTypes, Fresh, ListedAtOnce
<1> QED
  BY AlwaysChatInv, <1>1, PTL DEF ChatSpec, NotFoundEarly

=============================================================================
