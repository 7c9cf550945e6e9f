------------------------ MODULE SemanticLayer_proofs ------------------------
(* What the semantic layer keeps, for any graphs, paths, summarizers and    *)
(* sources, and any number of writes.                                       *)
EXTENDS SemanticLayer, FiniteSetTheorems, WellFoundedInduction, TLAPS

-----------------------------------------------------------------------------
(* The larger and the smaller of two numbers                                *)

(* The choice that Max({a, b}) makes is the larger one.                     *)
LEMMA MaxOfTwo ==
  ASSUME NEW a \in Int, NEW b \in Int
  PROVE  Max({a, b}) = IF a >= b THEN a ELSE b
<1> DEFINE m == IF a >= b THEN a ELSE b
<1>1. m \in {a, b} /\ \A y \in {a, b} : m >= y
  OBVIOUS
<1>2. \A x \in {a, b} : (\A y \in {a, b} : x >= y) => x = m
  OBVIOUS
<1> QED
  BY <1>1, <1>2 DEF Max

(* The choice that Min({a, b}) makes is the smaller one.                    *)
LEMMA MinOfTwo ==
  ASSUME NEW a \in Int, NEW b \in Int
  PROVE  Min({a, b}) = IF a <= b THEN a ELSE b
<1> DEFINE m == IF a <= b THEN a ELSE b
<1>1. m \in {a, b} /\ \A y \in {a, b} : m <= y
  OBVIOUS
<1>2. \A x \in {a, b} : (\A y \in {a, b} : x <= y) => x = m
  OBVIOUS
<1> QED
  BY <1>1, <1>2 DEF Min

(* The lowest rank in use is one of those in use.                           *)
LEMMA LowestRank == Min(NodeRanks) \in NodeRanks
<1>0. \A r \in NodeRanks : r \in {0, 1, 2, 3, 4}
  BY IndexAssumption
<1>1. \E r \in NodeRanks : \A y \in NodeRanks : r <= y
  <2>1. CASE 0 \in NodeRanks
    BY <1>0, <2>1
  <2>2. CASE 0 \notin NodeRanks /\ 1 \in NodeRanks
    BY <1>0, <2>2
  <2>3. CASE 0 \notin NodeRanks /\ 1 \notin NodeRanks /\ 2 \in NodeRanks
    BY <1>0, <2>3
  <2>4. CASE 0 \notin NodeRanks /\ 1 \notin NodeRanks /\ 2 \notin NodeRanks
             /\ 3 \in NodeRanks
    BY <1>0, <2>4
  <2>5. CASE \A y \in NodeRanks : y = 4
    <3>1. PICK r \in NodeRanks : TRUE
      BY IndexAssumption
    <3>2. r <= r /\ \A y \in NodeRanks : r = y
      BY <2>5, <1>0
    <3> QED
      BY <3>1, <3>2
  <2> QED
    BY <1>0, <2>1, <2>2, <2>3, <2>4, <2>5
<1> QED
  BY <1>1 DEF Min

-----------------------------------------------------------------------------
(* Balls: what breadth-first search computes                                *)

\* The concepts that a link joins to one of some.
Around(some, edges) ==
  {c \in Concepts : \E b \in some : <<b, c>> \in edges \/ <<c, b>> \in edges}

\* The function that Ball chooses.
Rounds(ball, seeds, edges, k) ==
  ball = [n \in 0..k |-> IF n = 0 THEN seeds
                         ELSE ball[n - 1] \cup Around(ball[n - 1], edges)]

(* A set of naturals that is not empty has a least member.                  *)
LEMMA LeastNatural ==
  ASSUME NEW S \in SUBSET Nat, S # {}
  PROVE  \E n \in S : \A m \in Nat : m < n => m \notin S
<1> DEFINE R == OpToRel(<, Nat)
<1>1. IsWellFoundedOn(R, Nat)
  BY NatLessThanWellFounded
<1>2. \A x, y \in Nat : <<y, x>> \in R <=> y < x
  BY DEF OpToRel
<1> HIDE DEF R
<1>3. PICK n \in S : \A m \in S : ~(<<m, n>> \in R)
  BY <1>1, WFMin
<1>4. \A m \in Nat : m < n => m \notin S
  BY <1>2, <1>3
<1> QED
  BY <1>4

(* There is such a function for every number of rounds.                     *)
LEMMA SomeRounds ==
  ASSUME NEW seeds, NEW edges, NEW k \in Nat
  PROVE  \E ball : Rounds(ball, seeds, edges, k)
<1> DEFINE Bad == {n \in Nat : ~ \E ball : Rounds(ball, seeds, edges, n)}
<1> SUFFICES ASSUME Bad # {} PROVE FALSE
  OBVIOUS
<1>1. PICK n \in Bad : \A m \in Nat : m < n => m \notin Bad
  <2>1. Bad \in SUBSET Nat
    OBVIOUS
  <2> HIDE DEF Bad
  <2> QED
    BY <2>1, LeastNatural
<1>2. CASE n = 0
  <2>1. Rounds([m \in 0..0 |-> seeds], seeds, edges, 0)
    BY DEF Rounds
  <2> QED
    BY <1>2, <2>1
<1>3. CASE n # 0
  <2>1. n \in Nat /\ n - 1 \in Nat /\ n - 1 < n
    BY <1>3
  <2>2. PICK before : Rounds(before, seeds, edges, n - 1)
    BY <1>1, <2>1
  <2> DEFINE ball == [m \in 0..n |-> IF m = n
                        THEN before[n - 1] \cup Around(before[n - 1], edges)
                        ELSE before[m]]
  <2>3. \A m \in 0..n - 1 : /\ m \in 0..n /\ m # n
                            /\ m # 0 => m - 1 \in 0..n - 1
    BY <2>1
  <2>4. \A m \in 0..n : m \in 0..n - 1 \/ m = n
    BY <2>1
  <2>5. \A m \in 0..n - 1 : ball[m] = before[m]
    BY <2>3
  <2>6. \A m \in 0..n - 1 : before[m] =
          IF m = 0 THEN seeds
          ELSE before[m - 1] \cup Around(before[m - 1], edges)
    BY <2>2 DEF Rounds
  <2>7. ball[n] = before[n - 1] \cup Around(before[n - 1], edges)
    BY <2>1
  <2>8. n - 1 \in 0..n - 1
    BY <2>1
  <2>9. \A m \in 0..n : ball[m] =
          IF m = 0 THEN seeds
          ELSE ball[m - 1] \cup Around(ball[m - 1], edges)
    <3> SUFFICES ASSUME NEW m \in 0..n
                 PROVE  ball[m] = IF m = 0 THEN seeds
                                  ELSE ball[m - 1] \cup Around(ball[m - 1], edges)
      OBVIOUS
    <3> HIDE DEF ball
    <3>1. CASE m = n
      BY <1>3, <2>5, <2>7, <2>8, <3>1
    <3>2. CASE m \in 0..n - 1
      BY <2>3, <2>5, <2>6, <3>2
    <3> QED
      BY <2>4, <3>1, <3>2
  <2>10. ball = [m \in 0..n |-> ball[m]]
    OBVIOUS
  <2> HIDE DEF ball
  <2>11. Rounds(ball, seeds, edges, n)
    BY <2>9, <2>10 DEF Rounds
  <2> QED
    BY <2>11
<1> QED
  BY <1>2, <1>3

(* Two such functions agree as far as both go.                              *)
LEMMA RoundsAgree ==
  ASSUME NEW seeds, NEW edges, NEW j \in Nat, NEW k \in Nat, j <= k,
         NEW f, NEW g, Rounds(f, seeds, edges, j), Rounds(g, seeds, edges, k)
  PROVE  f[j] = g[j]
<1> DEFINE Bad == {n \in 0..j : f[n] # g[n]}
<1> SUFFICES ASSUME Bad # {} PROVE FALSE
  OBVIOUS
<1>1. PICK n \in Bad : \A m \in Nat : m < n => m \notin Bad
  <2>1. Bad \in SUBSET Nat
    OBVIOUS
  <2> HIDE DEF Bad
  <2> QED
    BY <2>1, LeastNatural
<1>2. n \in 0..j /\ n \in 0..k
  OBVIOUS
<1>3. /\ f[n] = IF n = 0 THEN seeds ELSE f[n - 1] \cup Around(f[n - 1], edges)
      /\ g[n] = IF n = 0 THEN seeds ELSE g[n - 1] \cup Around(g[n - 1], edges)
  BY <1>2 DEF Rounds
<1>4. n # 0 => n - 1 \in 0..j /\ n - 1 \in Nat /\ n - 1 < n
  BY <1>2
<1>5. n # 0 => f[n - 1] = g[n - 1]
  BY <1>1, <1>4
<1> QED
  BY <1>3, <1>5

(* Ball is one of these functions at its last round.                        *)
LEMMA BallIsRounds ==
  ASSUME NEW seeds, NEW edges, NEW k \in Nat
  PROVE  \E ball : Rounds(ball, seeds, edges, k) /\ Ball(seeds, edges, k) = ball[k]
<1> DEFINE Chosen(ball) == ball = [n \in 0..k |->
        IF n = 0 THEN seeds
        ELSE ball[n - 1] \cup
             {c \in Concepts : \E b \in ball[n - 1] :
                                 <<b, c>> \in edges \/ <<c, b>> \in edges}]
           chosen == CHOOSE ball : Chosen(ball)
<1>1. \A ball : Chosen(ball) <=> Rounds(ball, seeds, edges, k)
  BY DEF Rounds, Around
<1>2. \E ball : Chosen(ball)
  <2> HIDE DEF Chosen
  <2> QED
    BY <1>1, SomeRounds
<1>3. Chosen(chosen)
  <2> HIDE DEF Chosen
  <2> QED
    BY <1>2
<1>4. Ball(seeds, edges, k) = chosen[k]
  BY DEF Ball
<1>5. Rounds(chosen, seeds, edges, k)
  <2> HIDE DEF Chosen, chosen
  <2> QED
    BY <1>1, <1>3
<1> HIDE DEF chosen
<1> QED
  BY <1>4, <1>5

(* A ball starts as the seeds and grows by what is around it.               *)
LEMMA BallFacts ==
  ASSUME NEW seeds, NEW edges
  PROVE  /\ Ball(seeds, edges, 0) = seeds
         /\ \A k \in Nat : Ball(seeds, edges, k + 1) =
              Ball(seeds, edges, k) \cup Around(Ball(seeds, edges, k), edges)
<1>1. Ball(seeds, edges, 0) = seeds
  <2>1. PICK ball : Rounds(ball, seeds, edges, 0) /\ Ball(seeds, edges, 0) = ball[0]
    BY BallIsRounds
  <2> QED
    BY <2>1 DEF Rounds
<1>2. ASSUME NEW k \in Nat
      PROVE  Ball(seeds, edges, k + 1) =
               Ball(seeds, edges, k) \cup Around(Ball(seeds, edges, k), edges)
  <2>1. PICK f : Rounds(f, seeds, edges, k) /\ Ball(seeds, edges, k) = f[k]
    BY BallIsRounds
  <2>2. PICK g : Rounds(g, seeds, edges, k + 1) /\ Ball(seeds, edges, k + 1) = g[k + 1]
    BY BallIsRounds
  <2>3. f[k] = g[k]
    BY <2>1, <2>2, RoundsAgree
  <2>4. k + 1 \in 0..k + 1 /\ k + 1 # 0 /\ (k + 1) - 1 = k
    OBVIOUS
  <2>5. g[k + 1] = g[k] \cup Around(g[k], edges)
    BY <2>2, <2>4 DEF Rounds
  <2> QED
    BY <2>1, <2>2, <2>3, <2>5
<1> QED
  BY <1>1, <1>2

(* More seeds and more links make no ball smaller.                          *)
LEMMA BallGrows ==
  ASSUME NEW seeds, NEW edges, NEW seeds2, NEW edges2,
         seeds \subseteq seeds2, edges \subseteq edges2, NEW k \in Nat
  PROVE  Ball(seeds, edges, k) \subseteq Ball(seeds2, edges2, k)
<1> DEFINE Bad == {n \in Nat : ~(Ball(seeds, edges, n) \subseteq Ball(seeds2, edges2, n))}
<1> SUFFICES ASSUME Bad # {} PROVE FALSE
  OBVIOUS
<1>1. PICK n \in Bad : \A m \in Nat : m < n => m \notin Bad
  <2>1. Bad \in SUBSET Nat
    OBVIOUS
  <2> HIDE DEF Bad
  <2> QED
    BY <2>1, LeastNatural
<1>2. n # 0
  BY BallFacts
<1>3. n - 1 \in Nat /\ n - 1 < n /\ (n - 1) + 1 = n
  BY <1>2
<1>4. Ball(seeds, edges, n - 1) \subseteq Ball(seeds2, edges2, n - 1)
  BY <1>1, <1>3
<1> HIDE DEF Bad
<1>5. /\ Ball(seeds, edges, n) = Ball(seeds, edges, n - 1)
                                 \cup Around(Ball(seeds, edges, n - 1), edges)
      /\ Ball(seeds2, edges2, n) = Ball(seeds2, edges2, n - 1)
                                   \cup Around(Ball(seeds2, edges2, n - 1), edges2)
  <2>1. \A j \in Nat : Ball(seeds, edges, j + 1) =
          Ball(seeds, edges, j) \cup Around(Ball(seeds, edges, j), edges)
    BY BallFacts
  <2>2. \A j \in Nat : Ball(seeds2, edges2, j + 1) =
          Ball(seeds2, edges2, j) \cup Around(Ball(seeds2, edges2, j), edges2)
    BY BallFacts
  <2> QED
    BY <1>3, <2>1, <2>2
<1> USE DEF Bad
<1>6. Around(Ball(seeds, edges, n - 1), edges)
        \subseteq Around(Ball(seeds2, edges2, n - 1), edges2)
  BY <1>4 DEF Around
<1> QED
  BY <1>4, <1>5, <1>6

(* More hops make no ball smaller.                                          *)
LEMMA BallsAreNested ==
  ASSUME NEW seeds, NEW edges, NEW j \in Nat, NEW k \in Nat, j <= k
  PROVE  Ball(seeds, edges, j) \subseteq Ball(seeds, edges, k)
<1> DEFINE Bad == {n \in Nat : j <= n /\ ~(Ball(seeds, edges, j) \subseteq Ball(seeds, edges, n))}
<1> SUFFICES ASSUME Bad # {} PROVE FALSE
  OBVIOUS
<1>1. PICK n \in Bad : \A m \in Nat : m < n => m \notin Bad
  <2>1. Bad \in SUBSET Nat
    OBVIOUS
  <2> HIDE DEF Bad
  <2> QED
    BY <2>1, LeastNatural
<1>2. n # j
  OBVIOUS
<1>3. n - 1 \in Nat /\ n - 1 < n /\ (n - 1) + 1 = n /\ j <= n - 1
  BY <1>2
<1>4. Ball(seeds, edges, j) \subseteq Ball(seeds, edges, n - 1)
  BY <1>1, <1>3
<1>5. Ball(seeds, edges, n) = Ball(seeds, edges, n - 1)
                                 \cup Around(Ball(seeds, edges, n - 1), edges)
  BY <1>3, BallFacts
<1> QED
  BY <1>4, <1>5

(* No ball leaves a set that no link leaves.                                *)
LEMMA BallsStayInside ==
  ASSUME NEW seeds, NEW edges, NEW X, seeds \subseteq X, Around(X, edges) \subseteq X,
         NEW k \in Nat
  PROVE  Ball(seeds, edges, k) \subseteq X
<1> DEFINE Bad == {n \in Nat : ~(Ball(seeds, edges, n) \subseteq X)}
<1> SUFFICES ASSUME Bad # {} PROVE FALSE
  OBVIOUS
<1>1. PICK n \in Bad : \A m \in Nat : m < n => m \notin Bad
  <2>1. Bad \in SUBSET Nat
    OBVIOUS
  <2> HIDE DEF Bad
  <2> QED
    BY <2>1, LeastNatural
<1>2. n # 0
  BY BallFacts
<1>3. n - 1 \in Nat /\ n - 1 < n /\ (n - 1) + 1 = n
  BY <1>2
<1>4. Ball(seeds, edges, n - 1) \subseteq X
  BY <1>1, <1>3
<1>5. Ball(seeds, edges, n) = Ball(seeds, edges, n - 1)
                                 \cup Around(Ball(seeds, edges, n - 1), edges)
  <2>1. \A j \in Nat : Ball(seeds, edges, j + 1) =
          Ball(seeds, edges, j) \cup Around(Ball(seeds, edges, j), edges)
    BY BallFacts
  <2> HIDE DEF Bad
  <2> QED
    BY <1>3, <2>1
<1>6. Around(Ball(seeds, edges, n - 1), edges) \subseteq Around(X, edges)
  BY <1>4 DEF Around
<1> QED
  BY <1>4, <1>5, <1>6

\* Concepts that a link joins, in either direction.
Joined(b, c, edges) == <<b, c>> \in edges \/ <<c, b>> \in edges

\* The concepts at the end of a path of n links from a seed.
Ends(seeds, edges, n) ==
  {c \in Concepts : \E path \in [0..n -> Concepts] :
     /\ path[0] \in seeds /\ path[n] = c
     /\ \A i \in 0..n - 1 : Joined(path[i], path[i + 1], edges)}

(* One more link makes a path longer.                                       *)
LEMMA PathsGrow ==
  ASSUME NEW seeds, NEW edges, NEW n \in Nat, NEW b \in Ends(seeds, edges, n),
         NEW c \in Concepts, Joined(b, c, edges)
  PROVE  c \in Ends(seeds, edges, n + 1)
<1>1. PICK path \in [0..n -> Concepts] :
        /\ path[0] \in seeds /\ path[n] = b
        /\ \A i \in 0..n - 1 : Joined(path[i], path[i + 1], edges)
  BY DEF Ends
<1> DEFINE longer == [i \in 0..n + 1 |-> IF i = n + 1 THEN c ELSE path[i]]
<1>2. /\ n + 1 \in 0..n + 1 /\ 0 \in 0..n + 1 /\ 0 # n + 1 /\ 0 \in 0..n /\ n \in 0..n
      /\ \A i \in 0..n + 1 : i # n + 1 => i \in 0..n
      /\ \A i \in 0..n : i \in 0..n + 1 /\ i # n + 1
      /\ \A i \in 0..(n + 1) - 1 : i \in 0..n /\ i + 1 \in 0..n + 1
      /\ \A i \in 0..(n + 1) - 1 : i # n => i \in 0..n - 1 /\ i + 1 \in 0..n
  OBVIOUS
<1>3. longer \in [0..n + 1 -> Concepts]
  BY <1>2
<1>4. longer[n + 1] = c /\ \A i \in 0..n : longer[i] = path[i]
  BY <1>2
<1> HIDE DEF longer
<1>5. ASSUME NEW i \in 0..(n + 1) - 1
      PROVE  Joined(longer[i], longer[i + 1], edges)
  <2>1. CASE i = n
    BY <1>1, <1>2, <1>4, <2>1
  <2>2. CASE i # n
    BY <1>1, <1>2, <1>4, <2>2
  <2> QED
    BY <2>1, <2>2
<1> QED
  BY <1>1, <1>2, <1>3, <1>4, <1>5 DEF Ends

(* Ball is what the paths of a graph say: the concepts at the end of a path *)
(* of at most k links from a seed.                                          *)
THEOREM BallIsPaths ==
  ASSUME NEW seeds \in SUBSET Concepts, NEW edges, NEW k \in Nat
  PROVE  Ball(seeds, edges, k) = UNION {Ends(seeds, edges, n) : n \in 0..k}
<1>1. ASSUME NEW n \in 0..k, NEW c \in Ends(seeds, edges, n)
      PROVE  c \in Ball(seeds, edges, k)
  <2>1. PICK path \in [0..n -> Concepts] :
          /\ path[0] \in seeds /\ path[n] = c
          /\ \A i \in 0..n - 1 : Joined(path[i], path[i + 1], edges)
    BY DEF Ends
  <2> DEFINE Bad == {i \in 0..n : path[i] \notin Ball(seeds, edges, i)}
  <2>2. Bad = {}
    <3> SUFFICES ASSUME Bad # {} PROVE FALSE
      OBVIOUS
    <3>1. PICK i \in Bad : \A m \in Nat : m < i => m \notin Bad
      <4>1. Bad \in SUBSET Nat
        OBVIOUS
      <4> HIDE DEF Bad
      <4> QED
        BY <4>1, LeastNatural
    <3>2. i \in 0..n /\ path[i] \notin Ball(seeds, edges, i)
      OBVIOUS
    <3>3. i # 0
      BY <2>1, <3>2, BallFacts
    <3>4. /\ i - 1 \in Nat /\ i - 1 < i /\ (i - 1) + 1 = i
          /\ i - 1 \in 0..n /\ i - 1 \in 0..n - 1
      BY <3>2, <3>3
    <3>5. path[i - 1] \in Ball(seeds, edges, i - 1)
      BY <3>1, <3>4
    <3>6. Joined(path[i - 1], path[i], edges)
      BY <2>1, <3>4
    <3>7. \A m \in Nat : Ball(seeds, edges, m + 1) =
            Ball(seeds, edges, m) \cup Around(Ball(seeds, edges, m), edges)
      BY BallFacts
    <3>8. path[i] \in Concepts
      BY <3>2
    <3> HIDE DEF Bad
    <3>9. path[i] \in Around(Ball(seeds, edges, i - 1), edges)
      BY <3>5, <3>6, <3>8 DEF Around, Joined
    <3> QED
      BY <3>2, <3>4, <3>7, <3>9
  <2>3. n \in 0..n /\ n \in Nat /\ n <= k
    OBVIOUS
  <2>4. c \in Ball(seeds, edges, n)
    BY <2>1, <2>2, <2>3
  <2> HIDE DEF Bad
  <2> QED
    BY <2>3, <2>4, BallsAreNested
<1>2. ASSUME NEW c \in Ball(seeds, edges, k)
      PROVE  \E n \in 0..k : c \in Ends(seeds, edges, n)
  <2> DEFINE Reached(m) == \A b \in Ball(seeds, edges, m) :
                             \E n \in 0..m : b \in Ends(seeds, edges, n)
             Bad == {m \in Nat : ~Reached(m)}
  <2>1. Bad = {}
    <3> SUFFICES ASSUME Bad # {} PROVE FALSE
      OBVIOUS
    <3>1. PICK m \in Bad : \A i \in Nat : i < m => i \notin Bad
      <4>1. Bad \in SUBSET Nat
        OBVIOUS
      <4> HIDE DEF Bad
      <4> QED
        BY <4>1, LeastNatural
    <3>2. m \in Nat /\ ~Reached(m)
      OBVIOUS
    <3>3. m # 0
      <4>1. ASSUME NEW b \in seeds PROVE b \in Ends(seeds, edges, 0)
        <5>1. [i \in 0..0 |-> b] \in [0..0 -> Concepts]
          OBVIOUS
        <5>2. [i \in 0..0 |-> b][0] = b /\ 0..0 - 1 = {}
          OBVIOUS
        <5> QED
          BY <5>1, <5>2 DEF Ends
      <4>2. Reached(0)
        BY <4>1, BallFacts
      <4> QED
        BY <3>2, <4>2
    <3>4. m - 1 \in Nat /\ m - 1 < m /\ (m - 1) + 1 = m
      BY <3>2, <3>3
    <3>5. Reached(m - 1)
      <4> HIDE DEF Reached
      <4> QED
        BY <3>1, <3>4
    <3>6. \A i \in Nat : Ball(seeds, edges, i + 1) =
            Ball(seeds, edges, i) \cup Around(Ball(seeds, edges, i), edges)
      BY BallFacts
    <3> HIDE DEF Bad
    <3>7. Ball(seeds, edges, m) =
            Ball(seeds, edges, m - 1) \cup Around(Ball(seeds, edges, m - 1), edges)
      BY <3>4, <3>6
    <3>8. ASSUME NEW b \in Ball(seeds, edges, m)
          PROVE  \E n \in 0..m : b \in Ends(seeds, edges, n)
      <4>1. CASE b \in Ball(seeds, edges, m - 1)
        <5>1. \A n \in 0..m - 1 : n \in 0..m
          BY <3>2
        <5> QED
          BY <3>5, <4>1, <5>1
      <4>2. CASE b \in Around(Ball(seeds, edges, m - 1), edges)
        <5>1. PICK a \in Ball(seeds, edges, m - 1) : Joined(a, b, edges)
          BY <4>2 DEF Around, Joined
        <5>2. PICK n \in 0..m - 1 : a \in Ends(seeds, edges, n)
          BY <3>5, <5>1
        <5>3. n \in Nat /\ n + 1 \in 0..m
          BY <3>4, <5>2
        <5>4. b \in Concepts
          BY <4>2 DEF Around
        <5>5. b \in Ends(seeds, edges, n + 1)
          BY <5>1, <5>2, <5>3, <5>4, PathsGrow
        <5> QED
          BY <5>3, <5>5
      <4> QED
        BY <3>7, <4>1, <4>2
    <3> QED
      BY <3>2, <3>8
  <2> HIDE DEF Reached
  <2>2. Reached(k)
    BY <2>1
  <2> QED
    BY <2>2 DEF Reached
<1> QED
  BY <1>1, <1>2

-----------------------------------------------------------------------------
(* A set in some order                                                      *)

(* SetToSeq names each member of a finite set once, and nothing else.       *)
LEMMA SetToSeqFacts ==
  ASSUME NEW S, IsFiniteSet(S)
  PROVE  /\ SetToSeq(S) \in Seq(S)
         /\ Len(SetToSeq(S)) = Cardinality(S)
         /\ IsInjective(SetToSeq(S))
         /\ ToSet(SetToSeq(S)) = S
<1> DEFINE n == Cardinality(S)
           Orders(f) == f \in [1..n -> S] /\ IsInjective(f)
           f == CHOOSE g : Orders(g)
           s == CHOOSE g \in [1..n -> S] : IsInjective(g)
<1>1. n \in Nat /\ ExistsBijection(1..n, S)
  BY FS_CardinalityType
<1>2. \E g \in [1..n -> S] : IsInjective(g)
  BY <1>1 DEF ExistsBijection, Bijection, Injection
<1>3. s \in [1..n -> S] /\ IsInjective(s)
  <2> HIDE DEF n
  <2> QED
    BY <1>2
<1>4. SetToSeq(S) = s
  BY DEF SetToSeq
<1> HIDE DEF s
<1>5. s \in Injection(1..n, S)
  BY <1>3 DEF Injection
<1>6. Cardinality(1..n) = n
  <2>1. 1 \in Int /\ n \in Int
    BY <1>1
  <2>2. Cardinality(1..n) = IF 1 > n THEN 0 ELSE n - 1 + 1
    BY <2>1, FS_Interval
  <2> QED
    BY <1>1, <2>2
<1>7. s \in Surjection(1..n, S)
  BY <1>5, <1>6, FS_Injection
<1>8. ToSet(s) = S
  BY <1>3, <1>7 DEF Surjection, ToSet
<1>9. s \in Seq(S) /\ Len(s) = n
  BY <1>1, <1>3
<1> QED
  BY <1>3, <1>4, <1>8, <1>9

(* What a walk adds to its answer.                                          *)
LEMMA AnswerGrows ==
  ASSUME NEW s \in Seq(Concepts), IsInjective(s),
         NEW taken \in SUBSET Concepts, ToSet(s) \cap taken = {}
  PROVE  LET t == s \o SetToSeq(taken)
         IN  /\ t \in Seq(Concepts)
             /\ Len(t) = Len(s) + Cardinality(taken)
             /\ Cardinality(taken) \in Nat
             /\ IsInjective(t)
             /\ ToSet(t) = ToSet(s) \cup taken
<1> DEFINE u == SetToSeq(taken)
           t == s \o u
           n == Len(s)
           m == Len(u)
<1>1. IsFiniteSet(taken)
  BY KnowledgeAssumption, FS_Subset
<1>2. /\ u \in Seq(taken) /\ Len(u) = Cardinality(taken)
      /\ IsInjective(u) /\ ToSet(u) = taken /\ Cardinality(taken) \in Nat
  BY <1>1, SetToSeqFacts, FS_CardinalityType
<1> HIDE DEF u
<1>3. u \in Seq(Concepts)
  BY <1>2
<1>4. /\ t \in Seq(Concepts)
      /\ DOMAIN t = 1..n + m /\ Len(t) = n + m
      /\ \A i \in 1..n + m : t[i] = IF i <= n THEN s[i] ELSE u[i - n]
      /\ DOMAIN s = 1..n /\ n \in Nat
      /\ DOMAIN u = 1..m /\ m \in Nat
  BY <1>3
<1> HIDE DEF t, n, m
<1>5. \A i \in 1..n + m : i <= n => i \in 1..n
  BY <1>4
<1>6. \A i \in 1..n + m : ~(i <= n) => i - n \in 1..m
  BY <1>4
<1>7. \A i, j \in 1..n + m : i - n = j - n => i = j
  BY <1>4
<1>8. \A i \in 1..n, j \in 1..m : s[i] # u[j]
  BY <1>2, <1>4 DEF ToSet
<1>9. IsInjective(t)
  <2> SUFFICES ASSUME NEW i \in 1..n + m, NEW j \in 1..n + m, t[i] = t[j]
               PROVE  i = j
    BY <1>4 DEF IsInjective
  <2>1. CASE i <= n /\ j <= n
    BY <1>4, <1>5, <2>1 DEF IsInjective
  <2>2. CASE ~(i <= n) /\ ~(j <= n)
    <3>1. u[i - n] = u[j - n]
      BY <1>4, <2>2
    <3>2. i - n = j - n
      BY <1>2, <1>4, <1>6, <2>2, <3>1 DEF IsInjective
    <3> QED
      BY <1>7, <3>2
  <2>3. CASE i <= n /\ ~(j <= n)
    BY <1>4, <1>5, <1>6, <1>8, <2>3
  <2>4. CASE ~(i <= n) /\ j <= n
    BY <1>4, <1>5, <1>6, <1>8, <2>4
  <2> QED
    BY <2>1, <2>2, <2>3, <2>4
<1>10. ToSet(t) \subseteq ToSet(s) \cup ToSet(u)
  BY <1>4, <1>5, <1>6 DEF ToSet
<1>11. ASSUME NEW i \in DOMAIN s PROVE s[i] \in ToSet(t)
  <2>1. i \in 1..n + m /\ t[i] = s[i]
    BY <1>4
  <2> QED
    BY <1>4, <2>1 DEF ToSet
<1>12. ASSUME NEW i \in DOMAIN u PROVE u[i] \in ToSet(t)
  <2>1. n + i \in 1..n + m /\ ~(n + i <= n) /\ (n + i) - n = i
    BY <1>4
  <2>2. t[n + i] = u[i]
    BY <1>4, <2>1
  <2> QED
    BY <1>4, <2>1, <2>2 DEF ToSet
<1>13. ToSet(t) = ToSet(s) \cup ToSet(u)
  BY <1>10, <1>11, <1>12 DEF ToSet
<1> QED
  BY <1>2, <1>4, <1>9, <1>13 DEF t, n, m, u

-----------------------------------------------------------------------------
(* Concepts                                                                 *)

(* The walk is a record, whatever its stage.                                *)
KnowledgeOK ==
  /\ concepts \in [Concepts -> Concept \cup {NoConcept}]
  /\ \A l \in links : /\ l \in Known \X Known
                      /\ l[1] # l[2]
                      /\ ScopeOf[l[1]] = ScopeOf[l[2]]
  /\ walk = [f \in DOMAIN walk |-> walk[f]]
  /\ "stage" \in DOMAIN walk
  /\ walk.stage \in {"none", "load", "edges", "answered"}

(* What a caller claims is a row.                                           *)
LEMMA ClaimsAreConcepts == Claims \subseteq Concept
<1> SUFFICES ASSUME NEW claim \in Claims PROVE claim \in Concept
  OBVIOUS
<1>1. claim \in [rank: 0..4, sources: SUBSET Memories]
  BY LayerAssumption
<1>2. claim.sources \in SUBSET UNION {c.sources : c \in Claims}
  OBVIOUS
<1> QED
  BY <1>1, <1>2 DEF Concept

(* A merged row is a row, no less restricted and with no fewer sources.     *)
LEMMA MergedFacts ==
  ASSUME NEW row \in Concept, NEW claim \in Concept
  PROVE  /\ Merged(row, claim) \in Concept
         /\ Merged(row, claim).rank >= row.rank
         /\ row.sources \subseteq Merged(row, claim).sources
<1>1. row.rank \in 0..4 /\ claim.rank \in 0..4
  BY DEF Concept
<1>2. Max({row.rank, claim.rank}) \in 0..4
      /\ Max({row.rank, claim.rank}) >= row.rank
  BY <1>1, MaxOfTwo
<1> QED
  BY <1>2 DEF Merged, Concept

(* An upsert keeps every concept, its rank and its sources.                 *)
LEMMA UpsertKeeps ==
  ASSUME KnowledgeOK, NEW c \in Concepts, NEW claim \in Claims,
         UpsertConcept(c, claim)
  PROVE  /\ concepts' \in [Concepts -> Concept \cup {NoConcept}]
         /\ \A d \in Known : /\ d \in Known'
                             /\ concepts'[d].rank >= concepts[d].rank
                             /\ concepts[d].sources \subseteq concepts'[d].sources
<1>0. \A d \in Known : concepts[d] \in Concept /\ concepts[d].rank \in Int
  BY DEF KnowledgeOK, Known, Concept
<1>1. claim \in Concept
  BY ClaimsAreConcepts
<1>2. CASE concepts[c] = NoConcept
  BY <1>0, <1>1, <1>2 DEF UpsertConcept, KnowledgeOK, Known
<1>3. CASE concepts[c] # NoConcept
  <2> DEFINE row == Merged(concepts[c], claim)
  <2>1. concepts' = [concepts EXCEPT ![c] = row]
    BY <1>3 DEF UpsertConcept
  <2>2. /\ row \in Concept
        /\ row.rank >= concepts[c].rank
        /\ concepts[c].sources \subseteq row.sources
    BY <1>0, <1>1, <1>3, MergedFacts DEF Known
  <2> HIDE DEF row
  <2> QED
    BY <1>0, <2>1, <2>2, KnowledgeAssumption DEF KnowledgeOK, Known
<1> QED
  BY <1>2, <1>3

(* The links stay right as long as concepts are only added.                 *)
LEMMA KnowledgeWriteOK ==
  ASSUME KnowledgeOK, KnowledgeWrite
  PROVE  /\ KnowledgeOK'
         /\ links \subseteq links'
         /\ \A d \in Known : /\ d \in Known'
                             /\ concepts'[d].rank >= concepts[d].rank
                             /\ concepts[d].sources \subseteq concepts'[d].sources
<1>1. ASSUME NEW c \in Concepts, NEW claim \in Claims, UpsertConcept(c, claim)
      PROVE  /\ KnowledgeOK'
             /\ links \subseteq links'
             /\ \A d \in Known : /\ d \in Known'
                                 /\ concepts'[d].rank >= concepts[d].rank
                                 /\ concepts[d].sources \subseteq concepts'[d].sources
  <2>1. UNCHANGED <<links, walk>>
    BY <1>1 DEF UpsertConcept
  <2> QED
    BY <1>1, <2>1, UpsertKeeps DEF KnowledgeOK
<1>2. ASSUME NEW c \in Concepts, NEW d \in Concepts, LinkConcepts(ScopeOf[c], c, d)
      PROVE  /\ KnowledgeOK'
             /\ links \subseteq links'
             /\ \A e \in Known : /\ e \in Known'
                                 /\ concepts'[e].rank >= concepts[e].rank
                                 /\ concepts[e].sources \subseteq concepts'[e].sources
  <2>1. \A e \in Known : concepts[e].rank \in Int
    BY DEF KnowledgeOK, Known, Concept
  <2>2. /\ UNCHANGED <<concepts, walk>>
        /\ links' = links \cup {<<c, d>>}
        /\ c # d /\ c \in Known /\ d \in Known /\ ScopeOf[d] = ScopeOf[c]
    BY <1>2 DEF LinkConcepts
  <2> QED
    BY <2>1, <2>2 DEF KnowledgeOK, Known
<1> QED
  BY <1>1, <1>2 DEF KnowledgeWrite

(* A reader writes nothing.                                                 *)
LEMMA KnowledgeReadOK ==
  ASSUME KnowledgeOK, KnowledgeRead
  PROVE  KnowledgeOK' /\ UNCHANGED <<concepts, links>>
<1> DEFINE Typed(w)  == /\ w = [f \in DOMAIN w |-> w[f]]
                        /\ "stage" \in DOMAIN w
                        /\ w.stage \in {"none", "load", "edges", "answered"}
<1>1. UNCHANGED <<concepts, links>>
  BY DEF KnowledgeRead, StartWalk, LoadFrontier, ReadLinks, Answer
<1>2. Typed(walk')
  <2>1. Typed(walk)
    BY DEF KnowledgeOK
  <2>2. ASSUME NEW c \in Concepts, NEW seeds \in Seeds, NEW hops \in Hops,
               NEW limit \in Limits, StartWalk(ScopeOf[c], seeds, hops, limit)
        PROVE  Typed(walk')
    BY <2>2 DEF StartWalk
  <2>3. CASE Answer
    BY <2>3 DEF Answer, NoWalk
  <2>4. CASE ReadLinks
    BY <2>1, <2>4 DEF ReadLinks
  <2>5. CASE LoadFrontier
    <3>1. CASE Ended
      BY <2>1, <2>5, <3>1 DEF LoadFrontier
    <3>2. CASE ~Ended
      <4>1. PICK taken : walk' = [walk EXCEPT
                  !.visited = @ \cup Fresh,
                  !.frontier = Fresh,
                  !.answer = @ \o SetToSeq(taken),
                  !.stage = IF Cardinality(taken) = walk.limit - Len(walk.answer)
                            THEN "answered" ELSE "edges"]
        BY <2>5, <3>2 DEF LoadFrontier
      <4> QED
        BY <2>1, <4>1
    <3> QED
      BY <3>1, <3>2
  <2> QED
    BY <2>2, <2>3, <2>4, <2>5 DEF KnowledgeRead
<1> QED
  BY <1>1, <1>2 DEF KnowledgeOK, Known

-----------------------------------------------------------------------------
(* The context index                                                        *)

(* Marked(p) in a given table of nodes.                                     *)
MarkedIn(table, p) == IF table[p] = Nothing THEN 0 ELSE table[p].marked

(* The types, and what a summarizer saw: no more than was marked since.     *)
IndexOK ==
  /\ nodes \in [Paths -> Node \cup {Nothing}]
  /\ summaries \in [Summarizers -> Summary \cup {Nothing}]
  /\ stored \subseteq Memories
  /\ context_links \subseteq {l \in stored \X Paths : nodes[l[2]] # Nothing}
  /\ sources \in [Memories \X Origins -> Digests \cup {Nothing}]
  /\ \A k \in DOMAIN sources : sources[k] # Nothing => k[1] \in stored
  /\ \A s \in Summarizers : summaries[s] # Nothing =>
       summaries[s].seen <= MarkedIn(nodes, summaries[s].path)

(* What a step keeps of the context index: ProvenanceIsKept's part of it.   *)
IndexKept ==
  /\ \A p \in Paths : nodes[p] # Nothing =>
       nodes'[p] # Nothing /\ nodes'[p].rank >= nodes[p].rank
  /\ \A l \in context_links : l \in context_links' \/ l[1] \notin stored'
  /\ \A k \in DOMAIN sources :
       sources[k] # Nothing /\ k[1] \in stored' => sources'[k] # Nothing

(* Ranks are numbers, and rows are no marks of missing rows.                *)
LEMMA IndexFacts ==
  /\ \A n \in Node : /\ n # Nothing /\ n.rank \in NodeRanks /\ n.rank \in Int
                     /\ n.dirty \in Nat /\ n.dirty <= MaxDirty
                     /\ n.marked \in Nat /\ n.covered \in Nat
                     /\ n.raced \in BOOLEAN
  /\ \A s \in Summary : s # Nothing /\ s.path \in Paths /\ s.seen \in Nat
  /\ \A d \in Digests : d # Nothing
  /\ NodeRanks \subseteq Int
  /\ MaxDirty \in Nat
  /\ Deltas \subseteq Nat
<1>1. \A d \in 0..MaxDirty : d \in Nat /\ d <= MaxDirty
  BY IndexAssumption
<1>2. NodeRanks \subseteq Int
  BY IndexAssumption
<1>3. \A n \in Node : n # Nothing
  BY IndexAssumption
<1>4. \A s \in Summary : s # Nothing
  BY IndexAssumption
<1>5. \A d \in Digests : d # Nothing
  BY IndexAssumption
<1>6. \A n \in Node : /\ n.rank \in NodeRanks /\ n.dirty \in 0..MaxDirty
                     /\ n.marked \in Nat /\ n.covered \in Nat
                     /\ n.raced \in BOOLEAN
  BY DEF Node
<1>7. \A s \in Summary : s.path \in Paths /\ s.seen \in Nat
  BY DEF Summary
<1> QED
  BY <1>1, <1>2, <1>3, <1>4, <1>5, <1>6, <1>7, IndexAssumption

(* The row that an upsert leaves is at least as restricted as before.       *)
LEMMA StricterRankFacts ==
  ASSUME IndexOK, NEW p \in Paths, NEW rank \in NodeRanks
  PROVE  /\ StricterRank(p, rank) \in NodeRanks
         /\ nodes[p] # Nothing => StricterRank(p, rank) >= nodes[p].rank
<1>1. CASE nodes[p] = Nothing
  BY <1>1 DEF StricterRank
<1>2. CASE nodes[p] # Nothing
  <2>1. nodes[p].rank \in NodeRanks /\ nodes[p].rank \in Int /\ rank \in Int
    BY <1>2, IndexFacts DEF IndexOK
  <2>2. Max({nodes[p].rank, rank}) = IF nodes[p].rank >= rank
                                     THEN nodes[p].rank ELSE rank
    BY <2>1, MaxOfTwo
  <2> QED
    BY <1>2, <2>1, <2>2 DEF StricterRank
<1> QED
  BY <1>1, <1>2

(* A count that saturates stays in its range.                               *)
LEMMA SaturatedFacts ==
  ASSUME NEW dirty \in 0..MaxDirty, NEW delta \in Deltas
  PROVE  /\ Saturated(dirty, delta) = IF MaxDirty <= dirty + delta
                                      THEN MaxDirty ELSE dirty + delta
         /\ Saturated(dirty, delta) \in 0..MaxDirty
<1>1. dirty + delta \in Nat /\ MaxDirty \in Nat
  BY IndexFacts
<1>2. Min({MaxDirty, dirty + delta}) = IF MaxDirty <= dirty + delta
                                       THEN MaxDirty ELSE dirty + delta
  BY <1>1, MinOfTwo
<1> QED
  BY <1>1, <1>2 DEF Saturated

(* An upsert of the summary of node p.                                      *)
LEMMA UpsertNodeOK ==
  ASSUME IndexOK, DirtyCountsAreExact,
         NEW s \in Summarizers, NEW rank \in NodeRanks, UpsertContextNode(s, rank)
  PROVE  IndexOK' /\ DirtyCountsAreExact' /\ IndexKept
<1> DEFINE p    == summaries[s].path
           seen == summaries[s].seen
           row  == [dirty |-> 0, rank |-> StricterRank(p, rank),
                    marked |-> Marked(p), covered |-> seen,
                    raced |-> seen # Marked(p)]
<1>1. /\ summaries[s] # Nothing
      /\ nodes' = [nodes EXCEPT ![p] = row]
      /\ summaries' = [summaries EXCEPT ![s] = Nothing]
      /\ UNCHANGED <<stored, context_links, sources>>
  BY DEF UpsertContextNode
<1>2. p \in Paths /\ seen \in Nat /\ seen <= Marked(p)
  BY <1>1, IndexFacts DEF IndexOK, Marked, MarkedIn
<1>3. Marked(p) \in Nat
  BY <1>2, IndexFacts DEF Marked, IndexOK
<1>4. /\ StricterRank(p, rank) \in NodeRanks
      /\ nodes[p] # Nothing => StricterRank(p, rank) >= nodes[p].rank
  BY <1>2, StricterRankFacts
<1>5. row \in Node
  BY <1>2, <1>3, <1>4, IndexAssumption DEF Node
<1>6. /\ row # Nothing /\ row.marked = Marked(p) /\ row.covered = seen
      /\ row.dirty = 0 /\ row.raced = (seen # Marked(p))
      /\ row.rank = StricterRank(p, rank)
  BY <1>5, IndexFacts
<1>7. Min({MaxDirty, 0}) = 0
  BY MinOfTwo, IndexFacts
<1> HIDE DEF p, seen, row
<1>8. \A q \in Paths : /\ nodes'[q] = IF q = p THEN row ELSE nodes[q]
                      /\ MarkedIn(nodes', q) = MarkedIn(nodes, q)
  BY <1>1, <1>2, <1>6 DEF IndexOK, Marked, MarkedIn
<1>9. DirtyCountsAreExact'
  <2>1. ~row.raced => seen = Marked(p)
    BY <1>6, Zenon
  <2>2. /\ row.marked - row.covered >= 0
        /\ row.dirty <= row.marked - row.covered
        /\ ~row.raced => row.dirty = Min({MaxDirty, row.marked - row.covered})
    <3>1. ~row.raced => row.marked - row.covered = 0
      BY <1>3, <1>6, <2>1
    <3> QED
      BY <1>2, <1>3, <1>6, <1>7, <3>1
  <2> QED
    BY <1>8, <2>2 DEF DirtyCountsAreExact
<1>10. IndexKept
  <2>1. \A q \in Paths : nodes[q] # Nothing => nodes[q].rank \in Int
    BY IndexFacts DEF IndexOK
  <2> QED
    BY <1>1, <1>4, <1>6, <1>8, <2>1 DEF IndexKept
<1>11. IndexOK'
  <2>1. nodes' \in [Paths -> Node \cup {Nothing}]
    BY <1>1, <1>5 DEF IndexOK
  <2>2. \A q \in Paths : nodes[q] # Nothing => nodes'[q] # Nothing
    BY <1>6, <1>8
  <2>3. /\ summaries' \in [Summarizers -> Summary \cup {Nothing}]
        /\ \A t \in Summarizers : summaries'[t] # Nothing =>
              summaries'[t] = summaries[t] /\ summaries[t].path \in Paths
    BY <1>1, IndexFacts DEF IndexOK
  <2>4. \A t \in Summarizers : summaries'[t] # Nothing =>
          summaries'[t].seen <= MarkedIn(nodes', summaries'[t].path)
    BY <1>8, <2>3 DEF IndexOK
  <2> QED
    BY <1>1, <2>1, <2>2, <2>3, <2>4 DEF IndexOK
<1> QED
  BY <1>9, <1>10, <1>11

(* A mark on node p.                                                        *)
LEMMA MarkOK ==
  ASSUME IndexOK, DirtyCountsAreExact,
         NEW p \in Paths, NEW delta \in Deltas, MarkContextDirty(p, delta)
  PROVE  IndexOK' /\ DirtyCountsAreExact' /\ IndexKept
<1> DEFINE old == nodes[p]
           new == nodes'[p]
<1>1. /\ old # Nothing
      /\ nodes' = [nodes EXCEPT ![p].dirty = Saturated(@, delta),
                                ![p].marked = @ + delta]
      /\ UNCHANGED <<stored, summaries, context_links, sources>>
  BY DEF MarkContextDirty
<1>2. old \in Node /\ delta \in Nat
  BY <1>1, IndexFacts DEF IndexOK
<1>3. old.dirty \in 0..MaxDirty /\ old.marked \in Nat /\ old.covered \in Nat
      /\ old.raced \in BOOLEAN /\ old.rank \in NodeRanks /\ old.rank \in Int
  BY <1>2, IndexFacts
<1>4. /\ Saturated(old.dirty, delta) = IF MaxDirty <= old.dirty + delta
                                       THEN MaxDirty ELSE old.dirty + delta
      /\ Saturated(old.dirty, delta) \in 0..MaxDirty
  BY <1>3, SaturatedFacts
<1>5. /\ nodes' = [nodes EXCEPT ![p] = new]
      /\ new = [old EXCEPT !.dirty = Saturated(@, delta), !.marked = @ + delta]
  BY <1>1 DEF IndexOK
<1> HIDE DEF old, new
<1>6. /\ new \in Node
      /\ new.dirty = Saturated(old.dirty, delta)
      /\ new.marked = old.marked + delta
      /\ new.covered = old.covered
      /\ new.raced = old.raced
      /\ new.rank = old.rank
  <2> DEFINE d == Saturated(old.dirty, delta)
             m == old.marked + delta
  <2>1. d \in 0..MaxDirty /\ m \in Nat
    BY <1>2, <1>3, <1>4
  <2>2. new = [old EXCEPT !.dirty = d, !.marked = m]
    BY <1>5
  <2> HIDE DEF d, m
  <2>3. new = [dirty |-> d, rank |-> old.rank, marked |-> m,
               covered |-> old.covered, raced |-> old.raced]
    BY <1>2, <2>2 DEF Node
  <2>4. new \in Node
    BY <1>3, <2>1, <2>3 DEF Node
  <2> QED
    BY <2>3, <2>4 DEF d, m
<1>7. new # Nothing
  BY <1>6, IndexFacts
<1>8. \A q \in Paths : nodes'[q] = IF q = p THEN new ELSE nodes[q]
  BY <1>5 DEF IndexOK
<1>9. \A q \in Paths : /\ MarkedIn(nodes, q) \in Nat
                      /\ MarkedIn(nodes', q) \in Nat
                      /\ MarkedIn(nodes', q) >= MarkedIn(nodes, q)
  <2>1. \A q \in Paths : MarkedIn(nodes, q) \in Nat
    BY IndexFacts DEF IndexOK, MarkedIn
  <2>2. MarkedIn(nodes, p) = old.marked /\ MarkedIn(nodes', p) = new.marked
    BY <1>1, <1>7, <1>8 DEF MarkedIn, old
  <2>3. \A q \in Paths : q # p => MarkedIn(nodes', q) = MarkedIn(nodes, q)
    BY <1>8 DEF MarkedIn
  <2> QED
    BY <1>2, <1>3, <1>6, <2>1, <2>2, <2>3
<1>10. DirtyCountsAreExact'
  <2> DEFINE missed == old.marked - old.covered
             M == MaxDirty
  <2>1. /\ missed >= 0 /\ missed \in Int
        /\ ~old.raced => old.dirty = Min({MaxDirty, missed})
        /\ old.dirty <= missed
    BY <1>1, <1>3 DEF DirtyCountsAreExact, old
  <2>2. Min({MaxDirty, missed}) = IF MaxDirty <= missed THEN MaxDirty ELSE missed
    BY <2>1, MinOfTwo, IndexFacts
  <2>3. Min({MaxDirty, missed + delta}) =
          IF MaxDirty <= missed + delta THEN MaxDirty ELSE missed + delta
    BY <1>2, <2>1, MinOfTwo, IndexFacts
  <2>4. new.marked - new.covered = missed + delta
    BY <1>2, <1>3, <1>6
  <2>5. MaxDirty \in Nat /\ old.dirty \in Nat /\ old.dirty <= MaxDirty
    BY <1>3, IndexFacts
  <2> HIDE DEF missed
  <2>6. /\ missed + delta >= 0
        /\ ~new.raced => new.dirty = Min({MaxDirty, missed + delta})
        /\ new.dirty <= missed + delta
    BY <1>2, <1>4, <1>6, <2>1, <2>2, <2>3, <2>5
  <2> QED
    BY <1>8, <2>4, <2>6 DEF DirtyCountsAreExact
<1>11. IndexKept
  <2>1. \A q \in Paths : nodes[q] # Nothing => nodes[q].rank \in Int
    BY IndexFacts DEF IndexOK
  <2>2. \A q \in Paths : nodes[q] # Nothing =>
          nodes'[q] # Nothing /\ nodes'[q].rank >= nodes[q].rank
    BY <1>3, <1>6, <1>7, <1>8, <2>1 DEF old
  <2> QED
    BY <1>1, <2>2 DEF IndexKept
<1>12. IndexOK'
  <2>1. nodes' \in [Paths -> Node \cup {Nothing}]
    BY <1>5, <1>6 DEF IndexOK
  <2>2. \A q \in Paths : nodes[q] # Nothing => nodes'[q] # Nothing
    BY <1>7, <1>8
  <2>3. \A t \in Summarizers : summaries[t] # Nothing =>
          /\ summaries[t].path \in Paths /\ summaries[t].seen \in Nat
          /\ summaries[t].seen <= MarkedIn(nodes', summaries[t].path)
    <3> SUFFICES ASSUME NEW t \in Summarizers, summaries[t] # Nothing
                 PROVE  /\ summaries[t].path \in Paths
                        /\ summaries[t].seen \in Nat
                        /\ summaries[t].seen <= MarkedIn(nodes', summaries[t].path)
      OBVIOUS
    <3>1. summaries[t].path \in Paths /\ summaries[t].seen \in Nat
          /\ summaries[t].seen <= MarkedIn(nodes, summaries[t].path)
      BY IndexFacts DEF IndexOK
    <3> QED
      BY <1>9, <3>1
  <2> QED
    BY <1>1, <2>1, <2>2, <2>3 DEF IndexOK
<1> QED
  BY <1>10, <1>11, <1>12

(* What leaves the nodes and the summaries alone.                           *)
LEMMA RowsOfMemoriesOK ==
  ASSUME IndexOK, DirtyCountsAreExact,
         UNCHANGED <<nodes, summaries>>,
         stored' \subseteq stored,
         context_links' \subseteq {l \in stored' \X Paths : nodes[l[2]] # Nothing},
         \A l \in context_links : l \in context_links' \/ l[1] \notin stored',
         sources' \in [Memories \X Origins -> Digests \cup {Nothing}],
         \A k \in Memories \X Origins :
           /\ sources'[k] # Nothing => k[1] \in stored'
           /\ sources[k] # Nothing /\ k[1] \in stored' => sources'[k] # Nothing
  PROVE  IndexOK' /\ DirtyCountsAreExact' /\ IndexKept
<1>1. DirtyCountsAreExact'
  BY DEF DirtyCountsAreExact
<1>2. DOMAIN sources = Memories \X Origins /\ DOMAIN sources' = Memories \X Origins
  BY DEF IndexOK
<1>3. \A q \in Paths : nodes[q] # Nothing => nodes[q].rank \in Int
  BY IndexFacts DEF IndexOK
<1>4. IndexKept
  BY <1>2, <1>3 DEF IndexKept
<1> QED
  BY <1>1, <1>2, <1>4 DEF IndexOK

(* A write to the context index.                                            *)
LEMMA IndexWriteOK ==
  ASSUME IndexOK, DirtyCountsAreExact, IndexWrite
  PROVE  IndexOK' /\ DirtyCountsAreExact' /\ IndexKept
<1>0. DOMAIN sources = Memories \X Origins
  BY DEF IndexOK
<1>1. ASSUME NEW s \in Summarizers, NEW rank \in NodeRanks, UpsertContextNode(s, rank)
      PROVE  IndexOK' /\ DirtyCountsAreExact' /\ IndexKept
  BY <1>1, UpsertNodeOK
<1>2. ASSUME NEW p \in Paths, NEW delta \in Deltas, MarkContextDirty(p, delta)
      PROVE  IndexOK' /\ DirtyCountsAreExact' /\ IndexKept
  BY <1>2, MarkOK
<1>3. ASSUME NEW m \in Memories, NEW p \in Paths, LinkMemoryContext(m, p)
      PROVE  IndexOK' /\ DirtyCountsAreExact' /\ IndexKept
  <2>1. /\ m \in stored /\ nodes[p] # Nothing
        /\ context_links' = context_links \cup {<<m, p>>}
        /\ UNCHANGED <<stored, nodes, summaries, sources>>
    BY <1>3 DEF LinkMemoryContext
  <2>2. context_links' \subseteq {l \in stored' \X Paths : nodes[l[2]] # Nothing}
    BY <2>1 DEF IndexOK
  <2> QED
    BY <1>0, <2>1, <2>2, RowsOfMemoriesOK DEF IndexOK
<1>4. ASSUME NEW m \in Memories, NEW o \in Origins, NEW d \in Digests,
             RecordSource(m, o, d)
      PROVE  IndexOK' /\ DirtyCountsAreExact' /\ IndexKept
  <2>1. /\ m \in stored
        /\ sources' = [sources EXCEPT ![<<m, o>>] = d]
        /\ UNCHANGED <<stored, nodes, summaries, context_links>>
    BY <1>4 DEF RecordSource
  <2>2. d # Nothing /\ <<m, o>>[1] = m
    BY IndexFacts
  <2>3. sources' \in [Memories \X Origins -> Digests \cup {Nothing}]
    BY <2>1 DEF IndexOK
  <2>4. \A k \in Memories \X Origins :
           /\ sources'[k] # Nothing => k[1] \in stored'
           /\ sources[k] # Nothing /\ k[1] \in stored' => sources'[k] # Nothing
    BY <1>0, <2>1, <2>2 DEF IndexOK
  <2>5. context_links' \subseteq {l \in stored' \X Paths : nodes[l[2]] # Nothing}
    BY <2>1 DEF IndexOK
  <2> QED
    BY <2>1, <2>3, <2>4, <2>5, RowsOfMemoriesOK
<1>5. ASSUME NEW m \in Memories, EraseMemory(m)
      PROVE  IndexOK' /\ DirtyCountsAreExact' /\ IndexKept
  <2>1. /\ stored' = stored \ {m}
        /\ context_links' = {l \in context_links : l[1] # m}
        /\ sources' = [k \in Memories \X Origins |->
                         IF k[1] = m THEN Nothing ELSE sources[k]]
        /\ UNCHANGED <<nodes, summaries>>
    BY <1>0, <1>5 DEF EraseMemory, SourcesWithout
  <2>2. sources' \in [Memories \X Origins -> Digests \cup {Nothing}]
    BY <2>1 DEF IndexOK
  <2>3. \A k \in Memories \X Origins :
           /\ sources'[k] # Nothing => k[1] \in stored'
           /\ sources[k] # Nothing /\ k[1] \in stored' => sources'[k] # Nothing
    BY <1>0, <2>1 DEF IndexOK
  <2>4. context_links' \subseteq {l \in stored' \X Paths : nodes[l[2]] # Nothing}
    BY <2>1 DEF IndexOK
  <2>5. \A l \in context_links : l \in context_links' \/ l[1] \notin stored'
    BY <2>1
  <2> QED
    BY <2>1, <2>2, <2>3, <2>4, <2>5, RowsOfMemoriesOK
<1> QED
  BY <1>1, <1>2, <1>3, <1>4, <1>5 DEF IndexWrite

(* A summary is begun with what was marked until then, and may be abandoned. *)
LEMMA IndexReadOK ==
  ASSUME IndexOK, DirtyCountsAreExact, IndexRead
  PROVE  IndexOK' /\ DirtyCountsAreExact' /\ IndexKept
<1>1. UNCHANGED <<stored, nodes, context_links, sources>>
  BY DEF IndexRead, BeginSummary, AbandonSummary
<1>2. \A q \in Paths : /\ Marked(q) = MarkedIn(nodes, q)
                      /\ Marked(q) \in Nat
                      /\ Marked(q) <= MarkedIn(nodes, q)
  BY IndexFacts DEF IndexOK, Marked, MarkedIn
<1> DEFINE Right(table) ==
             /\ table \in [Summarizers -> Summary \cup {Nothing}]
             /\ \A s \in Summarizers : table[s] # Nothing =>
                  table[s].seen <= MarkedIn(nodes, table[s].path)
<1>3. Right(summaries')
  <2>1. ASSUME NEW s \in Summarizers, NEW p \in Paths, BeginSummary(s, p)
        PROVE  Right(summaries')
    <3> DEFINE new == [path |-> p, seen |-> Marked(p)]
    <3>1. summaries' = [summaries EXCEPT ![s] = new]
      BY <2>1 DEF BeginSummary
    <3>2. new \in Summary /\ new.seen <= MarkedIn(nodes, new.path)
      BY <1>2 DEF Summary
    <3> HIDE DEF new
    <3> QED
      BY <3>1, <3>2 DEF IndexOK
  <2>2. ASSUME NEW s \in Summarizers, AbandonSummary(s)
        PROVE  Right(summaries')
    BY <2>2 DEF AbandonSummary, IndexOK
  <2> QED
    BY <2>1, <2>2 DEF IndexRead
<1>4. \A q \in Paths : nodes[q] # Nothing => nodes[q].rank \in Int
  BY IndexFacts DEF IndexOK
<1>5. DirtyCountsAreExact'
  BY <1>1 DEF DirtyCountsAreExact
<1>6. IndexKept
  BY <1>1, <1>4 DEF IndexKept
<1> QED
  BY <1>1, <1>3, <1>5, <1>6 DEF IndexOK

-----------------------------------------------------------------------------
(* The layer                                                                *)

LayerOK == KnowledgeOK /\ IndexOK /\ DirtyCountsAreExact

(* A reopened store has fresh nodes and links between known concepts.       *)
LEMMA LayerOKInit == Init => LayerOK
<1> SUFFICES ASSUME Init PROVE LayerOK
  OBVIOUS
<1>1. KnowledgeOK
  <2>1. [rank |-> 1, sources |-> {}] \in Concept
    BY DEF Concept
  <2>2. [rank |-> 1, sources |-> {}] # NoConcept
    BY <2>1, KnowledgeAssumption
  <2>3. \A l \in links : /\ l \in Concepts \X Concepts
                        /\ l[1] # l[2] /\ ScopeOf[l[1]] = ScopeOf[l[2]]
    BY LayerAssumption DEF Init
  <2>4. \A l \in links : concepts[l[1]] # NoConcept /\ concepts[l[2]] # NoConcept
    BY <2>2, <2>3 DEF Init
  <2>5. concepts \in [Concepts -> Concept \cup {NoConcept}]
    BY <2>1 DEF Init
  <2>6. walk = NoWalk
    BY DEF Init
  <2>7. \A l \in links : l \in Known \X Known
    BY <2>3, <2>4 DEF Known
  <2> QED
    BY <2>3, <2>5, <2>6, <2>7 DEF KnowledgeOK, NoWalk
<1> DEFINE fresh == [dirty |-> 0, rank |-> Min(NodeRanks), marked |-> 0,
                     covered |-> 0, raced |-> FALSE]
<1>2. fresh \in Node
  BY LowestRank, IndexAssumption DEF Node
<1>3. /\ fresh.dirty = 0 /\ fresh.marked = 0 /\ fresh.covered = 0
  OBVIOUS
<1>4. /\ nodes \in [Paths -> {Nothing, fresh}]
      /\ stored = Memories
      /\ summaries = [s \in Summarizers |-> Nothing]
      /\ context_links = {}
      /\ sources = [k \in Memories \X Origins |-> Nothing]
  BY DEF Init, IndexInit
<1> HIDE DEF fresh
<1>5. Min({MaxDirty, 0}) = 0
  BY MinOfTwo, IndexFacts
<1>6. DirtyCountsAreExact
  <2> SUFFICES ASSUME NEW p \in Paths, nodes[p] # Nothing
               PROVE  LET missed == nodes[p].marked - nodes[p].covered
                      IN  /\ missed >= 0
                          /\ ~nodes[p].raced =>
                               nodes[p].dirty = Min({MaxDirty, missed})
                          /\ nodes[p].dirty <= missed
    BY DEF DirtyCountsAreExact
  <2>1. nodes[p] = fresh
    BY <1>4
  <2>2. nodes[p].marked - nodes[p].covered = 0 /\ nodes[p].dirty = 0
    BY <1>3, <2>1
  <2> QED
    BY <1>5, <2>2
<1>7. IndexOK
  BY <1>2, <1>4 DEF IndexOK
<1> QED
  BY <1>1, <1>6, <1>7 DEF LayerOK

(* What every step keeps: ProvenanceIsKept.                                 *)
Kept ==
  /\ \A c \in Known : /\ c \in Known'
                      /\ concepts'[c].rank >= concepts[c].rank
                       /\ concepts[c].sources \subseteq concepts'[c].sources
  /\ links \subseteq links'
  /\ IndexKept

(* Clients of one half of the layer leave the other half alone.             *)
LEMMA LayerOKNext == LayerOK /\ [Next]_vars => LayerOK' /\ Kept
<1> SUFFICES ASSUME LayerOK, [Next]_vars PROVE LayerOK' /\ Kept
  OBVIOUS
<1>1. ASSUME UNCHANGED index
      PROVE  IndexOK' /\ DirtyCountsAreExact' /\ IndexKept
  <2>1. \A q \in Paths : nodes[q] # Nothing => nodes[q].rank \in Int
    BY IndexFacts DEF LayerOK, IndexOK
  <2> QED
    BY <1>1, <2>1 DEF index, LayerOK, IndexOK, DirtyCountsAreExact, IndexKept
<1>2. ASSUME UNCHANGED <<concepts, links>>
      PROVE  /\ \A c \in Known : /\ c \in Known'
                      /\ concepts'[c].rank >= concepts[c].rank
                                 /\ concepts[c].sources \subseteq concepts'[c].sources
             /\ links \subseteq links'
  <2>1. \A c \in Known : concepts[c].rank \in Int
    BY DEF LayerOK, KnowledgeOK, Known, Concept
  <2> QED
    BY <1>2, <2>1 DEF Known
<1>3. ASSUME UNCHANGED knowledge
      PROVE  KnowledgeOK'
  BY <1>3 DEF knowledge, LayerOK, KnowledgeOK, Known
<1>4. UNCHANGED knowledge => UNCHANGED <<concepts, links>>
  BY DEF knowledge
<1>5. CASE KnowledgeWrite /\ UNCHANGED index
  BY <1>1, <1>5, KnowledgeWriteOK DEF LayerOK, Kept
<1>6. CASE IndexWrite /\ UNCHANGED knowledge
  BY <1>2, <1>3, <1>4, <1>6, IndexWriteOK DEF LayerOK, Kept
<1>7. CASE KnowledgeRead /\ UNCHANGED <<index, writes>>
  BY <1>1, <1>2, <1>7, KnowledgeReadOK DEF LayerOK, Kept
<1>8. CASE IndexRead /\ UNCHANGED <<knowledge, writes>>
  BY <1>2, <1>3, <1>4, <1>8, IndexReadOK DEF LayerOK, Kept
<1>9. CASE UNCHANGED vars
  <2>1. UNCHANGED index /\ UNCHANGED knowledge
    BY <1>9 DEF vars
  <2> QED
    BY <1>1, <1>2, <1>3, <1>4, <2>1 DEF LayerOK, Kept
<1> QED
  BY <1>5, <1>6, <1>7, <1>8, <1>9 DEF Next

-----------------------------------------------------------------------------
(* Walks                                                                    *)

\* A walk under way, or answered.
Walks == [stage: {"load", "edges", "answered"},
          scope: {ScopeOf[c] : c \in Concepts},
          limit: Nat \ {0}, hops: Nat, round: Nat,
          seeds: SUBSET Concepts, frontier: SUBSET Concepts,
          visited: SUBSET Concepts, answer: Seq(Concepts),
          known: SUBSET Concepts, links: SUBSET (Concepts \X Concepts)]

\* The concepts of the scope of walk w.
InScope(w) == {c \in Concepts : ScopeOf[c] = w.scope}

\* What walk w reaches in k hops where these concepts and links are known.
Reach(w, known, edges, k) ==
  Ball({c \in w.seeds \cap known : ScopeOf[c] = w.scope}, edges, k)

\* A graph: its links join known concepts of one scope.
Graph(known, edges) ==
  /\ known \subseteq Concepts
  /\ \A l \in edges : l \in known \X known /\ ScopeOf[l[1]] = ScopeOf[l[2]]

\* The graph has only grown since walk w began.
Began(w, known, edges) ==
  /\ Graph(w.known, w.links)
  /\ w.known \subseteq known /\ w.links \subseteq edges

\* The answer so far is what was visited and known: it names concepts once,
\* and the frontier is within the rounds done.
UnderWay(w, known, edges) ==
  /\ IsInjective(w.answer) /\ Len(w.answer) < w.limit
  /\ ToSet(w.answer) \subseteq w.visited
  /\ w.visited \cap w.known \cap InScope(w) \subseteq ToSet(w.answer)
  /\ \A c \in w.frontier : \/ c \in Reach(w, known, edges, w.round)
                           \/ w.round = 0 /\ c \in w.seeds

\* Before the concepts of a round are read.
Loading(w, known, edges) ==
  /\ w.round = 0 => w.visited = {}
  /\ w.round > 0 =>
       /\ w.round - 1 <= w.hops
       /\ ToSet(w.answer) \subseteq Reach(w, known, edges, w.round - 1)
       /\ Reach(w, w.known, w.links, w.round - 1) \subseteq w.visited
  /\ Reach(w, w.known, w.links, w.round) \subseteq w.visited \cup w.frontier
  /\ Around(w.visited, LinksIn(w.scope, w.links)) \subseteq w.visited \cup w.frontier

\* Before the links of a round are read.
Following(w, known, edges) ==
  /\ w.round <= w.hops /\ w.frontier \subseteq w.visited
  /\ ToSet(w.answer) \subseteq Reach(w, known, edges, w.round)
  /\ Reach(w, w.known, w.links, w.round) \subseteq w.visited
  /\ Around(w.visited \ w.frontier, LinksIn(w.scope, w.links)) \subseteq w.visited

\* What ExpansionsAreExact says of an answer.
Exact(w, known, edges) ==
  /\ IsInjective(w.answer)
  /\ Len(w.answer) <= w.limit
  /\ ToSet(w.answer) \subseteq Reach(w, known, edges, w.hops)
  /\ Len(w.answer) < w.limit => Reach(w, w.known, w.links, w.hops) \subseteq ToSet(w.answer)
  /\ \A k \in 0..w.hops - 1 : \/ ToSet(w.answer) \subseteq Reach(w, known, edges, k)
                              \/ Reach(w, w.known, w.links, k) \subseteq ToSet(w.answer)

\* A walk at each of its stages.
OnCourse(w, known, edges) ==
  /\ w \in Walks /\ Began(w, known, edges)
  /\ \/ w.stage = "load" /\ UnderWay(w, known, edges) /\ Loading(w, known, edges)
     \/ w.stage = "edges" /\ UnderWay(w, known, edges) /\ Following(w, known, edges)
     \/ w.stage = "answered" /\ Exact(w, known, edges)

WalkOK == walk = NoWalk \/ OnCourse(walk, Known, links)

\* Walk w after a step.
Moved(w, stage, round, frontier, visited, answer) ==
  [stage |-> stage, scope |-> w.scope, limit |-> w.limit, hops |-> w.hops,
   round |-> round, seeds |-> w.seeds, frontier |-> frontier,
   visited |-> visited, answer |-> answer, known |-> w.known, links |-> w.links]

\* Two walks that were asked the same of the same graph.
SameAsked(w, v) ==
  /\ v.scope = w.scope /\ v.limit = w.limit /\ v.hops = w.hops
  /\ v.seeds = w.seeds /\ v.known = w.known /\ v.links = w.links

(* A step changes where a walk is, and not what it was asked.               *)
LEMMA MovedFacts ==
  ASSUME NEW w \in Walks, NEW stage \in {"load", "edges", "answered"}, NEW round \in Nat,
         NEW frontier \in SUBSET Concepts, NEW visited \in SUBSET Concepts,
         NEW answer \in Seq(Concepts),
         NEW v, v = Moved(w, stage, round, frontier, visited, answer)
  PROVE  /\ v \in Walks /\ SameAsked(w, v)
         /\ v.stage = stage /\ v.round = round /\ v.frontier = frontier
         /\ v.visited = visited /\ v.answer = answer
BY DEF Moved, Walks, SameAsked

(* Such walks reach the same.                                               *)
LEMMA SameReach ==
  ASSUME NEW w, NEW v, SameAsked(w, v)
  PROVE  /\ \A some, joins, k : Reach(v, some, joins, k) = Reach(w, some, joins, k)
         /\ InScope(v) = InScope(w)
         /\ \A some, joins : Began(w, some, joins) => Began(v, some, joins)
BY DEF SameAsked, Reach, InScope, Began

(* What a walk reaches, by the number of hops.                              *)
LEMMA ReachFacts ==
  ASSUME NEW w \in Walks, NEW known, NEW edges
  PROVE  /\ Reach(w, known, edges, 0) = {c \in w.seeds \cap known : ScopeOf[c] = w.scope}
         /\ \A k \in Nat : Reach(w, known, edges, k + 1) =
              Reach(w, known, edges, k) \cup Around(Reach(w, known, edges, k), edges)
         /\ \A j, k \in Nat : j <= k =>
              Reach(w, known, edges, j) \subseteq Reach(w, known, edges, k)
<1> DEFINE seeds == {c \in w.seeds \cap known : ScopeOf[c] = w.scope}
<1>1. \A k : Reach(w, known, edges, k) = Ball(seeds, edges, k)
  BY DEF Reach
<1>2. seeds = {c \in w.seeds \cap known : ScopeOf[c] = w.scope}
  OBVIOUS
<1> HIDE DEF seeds
<1>3. Reach(w, known, edges, 0) = seeds
  BY <1>1, BallFacts
<1>4. \A k \in Nat : Reach(w, known, edges, k + 1) =
        Reach(w, known, edges, k) \cup Around(Reach(w, known, edges, k), edges)
  <2>1. \A k \in Nat : Ball(seeds, edges, k + 1) =
          Ball(seeds, edges, k) \cup Around(Ball(seeds, edges, k), edges)
    BY BallFacts
  <2> QED
    BY <1>1, <2>1
<1>5. ASSUME NEW j \in Nat, NEW k \in Nat, j <= k
      PROVE  Reach(w, known, edges, j) \subseteq Reach(w, known, edges, k)
  <2>1. Ball(seeds, edges, j) \subseteq Ball(seeds, edges, k)
    BY <1>5, BallsAreNested
  <2> QED
    BY <1>1, <2>1
<1> QED
  BY <1>2, <1>3, <1>4, <1>5

(* In a graph that grew a walk reaches no less.                             *)
LEMMA ReachGrows ==
  ASSUME NEW w \in Walks, NEW known, NEW edges, NEW known2, NEW edges2,
         known \subseteq known2, edges \subseteq edges2, NEW k \in Nat
  PROVE  Reach(w, known, edges, k) \subseteq Reach(w, known2, edges2, k)
<1> DEFINE seeds  == {c \in w.seeds \cap known : ScopeOf[c] = w.scope}
           seeds2 == {c \in w.seeds \cap known2 : ScopeOf[c] = w.scope}
<1>1. seeds \subseteq seeds2
  OBVIOUS
<1>2. Ball(seeds, edges, k) \subseteq Ball(seeds2, edges2, k)
  <2> HIDE DEF seeds, seeds2
  <2> QED
    BY <1>1, BallGrows
<1> QED
  BY <1>2 DEF Reach

(* A walk stays in its scope and among known concepts, and in every set     *)
(* that holds its seeds and that no link of the scope leaves.               *)
LEMMA ReachStays ==
  ASSUME NEW w \in Walks, NEW known, NEW edges, Graph(known, edges), NEW k \in Nat,
         NEW X, {c \in w.seeds \cap known : ScopeOf[c] = w.scope} \subseteq X,
         Around(X, LinksIn(w.scope, edges)) \subseteq X
  PROVE  Reach(w, known, edges, k) \subseteq X \cap known \cap InScope(w)
<1> DEFINE seeds == {c \in w.seeds \cap known : ScopeOf[c] = w.scope}
           Y == X \cap known \cap InScope(w)
<1>1. seeds \subseteq Y
  BY DEF Walks, InScope
<1>2. Around(Y, edges) \subseteq Y
  <2> SUFFICES ASSUME NEW c \in Concepts, NEW b \in Y,
                      <<b, c>> \in edges \/ <<c, b>> \in edges
               PROVE  c \in Y
    BY DEF Around
  <2>1. PICK l \in edges : l = <<b, c>> \/ l = <<c, b>>
    OBVIOUS
  <2>2. /\ l \in known \X known /\ ScopeOf[l[1]] = ScopeOf[l[2]]
        /\ {l[1], l[2]} = {b, c}
    BY <2>1 DEF Graph
  <2>3. c \in known /\ ScopeOf[c] = w.scope /\ ScopeOf[b] = w.scope
    BY <2>2 DEF InScope
  <2>4. l \in LinksIn(w.scope, edges)
    BY <2>1, <2>2, <2>3 DEF LinksIn
  <2>5. c \in Around(X, LinksIn(w.scope, edges))
    BY <2>1, <2>4 DEF Around
  <2> QED
    BY <2>3, <2>5 DEF InScope
<1> HIDE DEF seeds, Y
<1>3. Ball(seeds, edges, k) \subseteq Y
  BY <1>1, <1>2, BallsStayInside
<1> QED
  BY <1>3 DEF Reach, seeds, Y

(* What a walk reaches is known and in its scope.                           *)
LEMMA ReachInScope ==
  ASSUME NEW w \in Walks, NEW known, NEW edges, Graph(known, edges), NEW k \in Nat
  PROVE  Reach(w, known, edges, k) \subseteq known \cap InScope(w)
<1>1. {c \in w.seeds \cap known : ScopeOf[c] = w.scope} \subseteq Concepts
      /\ Around(Concepts, LinksIn(w.scope, edges)) \subseteq Concepts
  BY DEF Walks, Around
<1> QED
  BY <1>1, ReachStays

(* Ending changes nothing but the stage.                                    *)
LEMMA AnsweredRight ==
  ASSUME NEW w \in Walks, NEW known, NEW edges, Began(w, known, edges),
         Exact(w, known, edges), NEW v \in Walks, SameAsked(w, v),
         v.stage = "answered", v.answer = w.answer
  PROVE  OnCourse(v, known, edges)
<1>1. /\ \A some, joins, k : Reach(v, some, joins, k) = Reach(w, some, joins, k)
      /\ Began(v, known, edges)
  BY SameReach
<1>2. Exact(v, known, edges)
  BY <1>1 DEF Exact, SameAsked
<1> QED
  BY <1>1, <1>2 DEF OnCourse

(* While the graph grows, a walk stays right.                               *)
LEMMA GrowthOK ==
  ASSUME NEW w, NEW known, NEW edges, NEW known2, NEW edges2,
         OnCourse(w, known, edges), known \subseteq known2, edges \subseteq edges2
  PROVE  OnCourse(w, known2, edges2)
<1>1. w \in Walks /\ Began(w, known, edges) /\ w.round \in Nat /\ w.hops \in Nat
  BY DEF OnCourse, Walks
<1>2. \A k \in Nat : Reach(w, known, edges, k) \subseteq Reach(w, known2, edges2, k)
  BY <1>1, ReachGrows
<1>3. Began(w, known2, edges2)
  BY <1>1 DEF Began
<1>4. UnderWay(w, known, edges) => UnderWay(w, known2, edges2)
  BY <1>1, <1>2 DEF UnderWay
<1>5. Loading(w, known, edges) => Loading(w, known2, edges2)
  <2>1. w.round > 0 => w.round - 1 \in Nat
    BY <1>1
  <2> QED
    BY <1>1, <1>2, <2>1 DEF Loading
<1>6. Following(w, known, edges) => Following(w, known2, edges2)
  BY <1>1, <1>2 DEF Following
<1>7. Exact(w, known, edges) => Exact(w, known2, edges2)
  <2>1. \A k \in 0..w.hops - 1 : k \in Nat
    OBVIOUS
  <2> QED
    BY <1>1, <1>2, <2>1 DEF Exact
<1> QED
  BY <1>1, <1>3, <1>4, <1>5, <1>6, <1>7 DEF OnCourse

(* A walk that has just begun.                                              *)
LEMMA StartRight ==
  ASSUME NEW known, NEW edges, Graph(known, edges),
         NEW c \in Concepts, NEW seeds \in Seeds, NEW hops \in Hops, NEW limit \in Limits
  PROVE  OnCourse([stage |-> "load", scope |-> ScopeOf[c], limit |-> limit,
                hops |-> hops, seeds |-> seeds, round |-> 0,
                frontier |-> seeds, visited |-> {}, answer |-> <<>>,
                known |-> known, links |-> edges], known, edges)
<1> DEFINE w == [stage |-> "load", scope |-> ScopeOf[c], limit |-> limit,
                 hops |-> hops, seeds |-> seeds, round |-> 0,
                 frontier |-> seeds, visited |-> {}, answer |-> <<>>,
                 known |-> known, links |-> edges]
<1>1. /\ seeds \in SUBSET Concepts /\ hops \in Nat /\ limit \in Nat /\ limit > 0
      /\ known \in SUBSET Concepts /\ edges \in SUBSET (Concepts \X Concepts)
  BY KnowledgeAssumption DEF Graph
<1>2. w \in Walks
  BY <1>1 DEF Walks
<1>3. /\ w.stage = "load" /\ w.round = 0 /\ w.frontier = seeds /\ w.seeds = seeds
      /\ w.visited = {} /\ w.answer = <<>> /\ w.known = known /\ w.links = edges
      /\ w.limit = limit
  OBVIOUS
<1> HIDE DEF w
<1>4. Began(w, known, edges)
  BY <1>3 DEF Began
<1>5. ToSet(w.answer) = {} /\ IsInjective(w.answer) /\ Len(w.answer) = 0
  BY <1>3 DEF ToSet, IsInjective
<1>6. UnderWay(w, known, edges)
  BY <1>1, <1>3, <1>5 DEF UnderWay
<1>7. Loading(w, known, edges)
  <2>1. Reach(w, known, edges, 0) \subseteq w.frontier
    BY <1>2, <1>3, ReachFacts
  <2>2. Around({}, LinksIn(w.scope, w.links)) = {}
    BY DEF Around
  <2> QED
    BY <1>3, <2>1, <2>2 DEF Loading
<1>8. OnCourse(w, known, edges)
  BY <1>2, <1>3, <1>4, <1>6, <1>7 DEF OnCourse
<1> QED
  BY <1>8 DEF w

(* A walk that ends before it reads concepts has an exact answer: its hops  *)
(* are done, or nothing was left to visit.                                  *)
LEMMA EndRight ==
  ASSUME NEW w \in Walks, NEW known, NEW edges, Began(w, known, edges),
         UnderWay(w, known, edges), Loading(w, known, edges),
         w.round > w.hops \/ w.frontier \subseteq w.visited
  PROVE  Exact(w, known, edges)
<1> DEFINE named   == ToSet(w.answer)
           Then(k) == Reach(w, w.known, w.links, k)
           Now(k)  == Reach(w, known, edges, k)
<1>1. w.round \in Nat /\ w.hops \in Nat
  BY DEF Walks
<1>2. \A j, k \in Nat : j <= k => Then(j) \subseteq Then(k) /\ Now(j) \subseteq Now(k)
  BY ReachFacts
<1>3. \A k \in Nat : Then(k) \subseteq w.known \cap InScope(w)
  BY ReachInScope DEF Began
<1>4. named \subseteq Now(w.hops)
  <2>1. CASE w.round = 0
    BY <2>1 DEF UnderWay, Loading
  <2>2. CASE w.round > 0
    <3>1. w.round - 1 \in Nat /\ w.round - 1 <= w.hops
      BY <1>1, <2>2 DEF Loading
    <3> QED
      BY <1>1, <1>2, <2>2, <3>1 DEF Loading
  <2> QED
    BY <1>1, <2>1, <2>2
<1>5. Then(w.hops) \subseteq named
  <2>1. CASE w.round > w.hops
    <3>1. w.round - 1 = w.hops /\ w.round > 0
      BY <1>1, <2>1 DEF Loading
    <3>2. Then(w.hops) \subseteq w.visited
      BY <3>1 DEF Loading
    <3> QED
      BY <1>1, <1>3, <3>2 DEF UnderWay
  <2>2. CASE w.frontier \subseteq w.visited
    <3>1. Then(w.round) \subseteq w.visited
      BY <2>2 DEF Loading
    <3>2. Then(0) \subseteq Then(w.round)
      BY <1>1, <1>2
    <3>3. {c \in w.seeds \cap w.known : ScopeOf[c] = w.scope} \subseteq w.visited
      BY <3>1, <3>2, ReachFacts
    <3>4. Around(w.visited, LinksIn(w.scope, w.links)) \subseteq w.visited
      BY <2>2 DEF Loading
    <3>5. Then(w.hops) \subseteq w.visited \cap w.known \cap InScope(w)
      <4>1. Graph(w.known, w.links)
        BY DEF Began
      <4> QED
        BY <1>1, <3>3, <3>4, <4>1, ReachStays
    <3> QED
      BY <3>5 DEF UnderWay
  <2> QED
    BY <2>1, <2>2
<1>6. \A k \in 0..w.hops - 1 : Then(k) \subseteq named
  <2>1. \A k \in 0..w.hops - 1 : k \in Nat /\ k <= w.hops
    BY <1>1
  <2> QED
    BY <1>1, <1>2, <1>5, <2>1
<1>7. Len(w.answer) <= w.limit
  BY DEF UnderWay, Walks
<1> QED
  BY <1>4, <1>5, <1>6, <1>7 DEF Exact, UnderWay

(* Reading links brings in what the links of the visited concepts join to   *)
(* them, those of the beginning and those of now.                           *)
LEMMA LinksRight ==
  ASSUME NEW w \in Walks, NEW known, NEW edges, Began(w, known, edges),
         Graph(known, edges), UnderWay(w, known, edges), Following(w, known, edges),
         NEW near, near = NeighboursOf(w.frontier, LinksIn(w.scope, edges)),
         NEW v \in Walks, SameAsked(w, v), v.stage = "load",
         v.round = w.round + 1, v.frontier = near \ w.visited,
         v.visited = w.visited, v.answer = w.answer
  PROVE  OnCourse(v, known, edges)
<1>1. w.round \in Nat /\ w.hops \in Nat
  BY DEF Walks
<1>2. \A l \in edges : l = <<l[1], l[2]>> /\ l[1] \in known /\ l[2] \in known
                       /\ ScopeOf[l[1]] = ScopeOf[l[2]] /\ known \subseteq Concepts
  BY DEF Graph
<1>3. \A l \in w.links : l \in edges
  BY DEF Began
<1>4. near = Around(w.frontier, LinksIn(w.scope, edges))
  <2> DEFINE in == LinksIn(w.scope, edges)
  <2>1. \A l \in in : l = <<l[1], l[2]>> /\ l[1] \in Concepts /\ l[2] \in Concepts
    BY <1>2 DEF LinksIn
  <2> HIDE DEF in
  <2>2. ASSUME NEW c \in near PROVE c \in Around(w.frontier, in)
    <3>1. PICK l \in in : \/ l[1] \in w.frontier /\ c = l[2]
                          \/ l[2] \in w.frontier /\ c = l[1]
      BY DEF NeighboursOf, in
    <3> QED
      BY <2>1, <3>1 DEF Around
  <2>3. ASSUME NEW c \in Around(w.frontier, in) PROVE c \in near
    <3>1. PICK b \in w.frontier : <<b, c>> \in in \/ <<c, b>> \in in
      BY DEF Around
    <3>2. PICK l \in in : \/ l[1] \in w.frontier /\ c = l[2]
                          \/ l[2] \in w.frontier /\ c = l[1]
      BY <3>1
    <3> QED
      BY <3>2 DEF NeighboursOf, in
  <2> QED
    BY <2>2, <2>3 DEF in
<1>5. near \subseteq Concepts
  BY <1>4 DEF Around
<1>8. /\ v.scope = w.scope /\ v.limit = w.limit /\ v.hops = w.hops
      /\ v.seeds = w.seeds /\ v.known = w.known /\ v.links = w.links
  BY DEF SameAsked
<1>9. /\ \A some, joins, k : Reach(v, some, joins, k) = Reach(w, some, joins, k)
      /\ InScope(v) = InScope(w) /\ Began(v, known, edges)
  BY SameReach
<1>10. ASSUME NEW some, NEW joins
       PROVE  Reach(w, some, joins, w.round + 1) =
           Reach(w, some, joins, w.round) \cup Around(Reach(w, some, joins, w.round), joins)
  <2>1. \A k \in Nat : Reach(w, some, joins, k + 1) =
          Reach(w, some, joins, k) \cup Around(Reach(w, some, joins, k), joins)
    BY ReachFacts
  <2> QED
    BY <1>1, <2>1
<1>11. Around(w.visited, LinksIn(w.scope, w.links)) \subseteq w.visited \cup near
  BY <1>3, <1>4 DEF Following, Around, LinksIn
<1>12. Reach(w, w.known, w.links, w.round + 1) \subseteq w.visited \cup near
  <2> DEFINE reached == Reach(w, w.known, w.links, w.round)
  <2>1. reached \subseteq w.visited /\ reached \subseteq InScope(w)
    BY <1>1, ReachInScope DEF Following, Began
  <2> HIDE DEF reached
  <2>2. Around(reached, w.links) \subseteq Around(w.visited, LinksIn(w.scope, w.links))
    <3> SUFFICES ASSUME NEW c \in Concepts, NEW b \in reached,
                        <<b, c>> \in w.links \/ <<c, b>> \in w.links
                 PROVE  c \in Around(w.visited, LinksIn(w.scope, w.links))
      BY DEF Around
    <3>1. ScopeOf[b] = w.scope /\ b \in w.visited
      BY <2>1 DEF InScope
    <3>2. PICK l \in w.links : l = <<b, c>> \/ l = <<c, b>>
      OBVIOUS
    <3>3. ScopeOf[l[1]] = w.scope
      BY <1>2, <1>3, <3>1, <3>2
    <3>4. l \in LinksIn(w.scope, w.links)
      BY <3>3 DEF LinksIn
    <3> QED
      BY <3>1, <3>2, <3>4 DEF Around
  <2> QED
    <3>1. Reach(w, w.known, w.links, w.round + 1) = reached \cup Around(reached, w.links)
      BY <1>10, Zenon DEF reached
    <3> QED
      BY <1>11, <2>1, <2>2, <3>1
<1>13. near \subseteq Reach(w, known, edges, w.round + 1)
  <2> SUFFICES ASSUME NEW c \in near PROVE c \in Reach(w, known, edges, w.round + 1)
    OBVIOUS
  <2>1. PICK b \in w.frontier : \/ <<b, c>> \in LinksIn(w.scope, edges)
                                \/ <<c, b>> \in LinksIn(w.scope, edges)
    BY <1>4 DEF Around
  <2>2. /\ <<b, c>> \in edges \/ <<c, b>> \in edges
        /\ b \in known /\ ScopeOf[b] = w.scope
    BY <1>2, <2>1 DEF LinksIn
  <2>3. b \in Reach(w, known, edges, w.round)
    <3>1. CASE w.round = 0 /\ b \in w.seeds
      BY <2>2, <3>1, ReachFacts
    <3> QED
      BY <3>1 DEF UnderWay
  <2> QED
    BY <1>5, <1>10, <2>2, <2>3 DEF Around
<1>14. UnderWay(v, known, edges)
  BY <1>8, <1>9, <1>13 DEF UnderWay
<1>15. Loading(v, known, edges)
  <2>1. v.round # 0 /\ v.round > 0 /\ v.round - 1 = w.round /\ v.round - 1 <= v.hops
    BY <1>1, <1>8 DEF Following
  <2>2. /\ Reach(v, v.known, v.links, v.round) \subseteq v.visited \cup v.frontier
        /\ Around(v.visited, LinksIn(v.scope, v.links)) \subseteq v.visited \cup v.frontier
    BY <1>8, <1>9, <1>11, <1>12
  <2>3. /\ ToSet(v.answer) \subseteq Reach(v, known, edges, v.round - 1)
        /\ Reach(v, v.known, v.links, v.round - 1) \subseteq v.visited
    BY <1>8, <1>9, <2>1 DEF Following
  <2> QED
    BY <2>1, <2>2, <2>3 DEF Loading
<1> QED
  BY <1>9, <1>14, <1>15 DEF OnCourse

(* Reading concepts names rows of the frontier, until the limit cuts.       *)
LEMMA LoadRight ==
  ASSUME NEW w \in Walks, NEW known, NEW edges, Began(w, known, edges),
         known \subseteq Concepts,
         UnderWay(w, known, edges), Loading(w, known, edges), w.round <= w.hops,
         NEW fresh, fresh = w.frontier \ w.visited,
         NEW rows, rows = {c \in fresh \cap known : ScopeOf[c] = w.scope},
         NEW wanted, wanted = w.limit - Len(w.answer),
         NEW taken \in kSubset(Min({wanted, Cardinality(rows)}), rows),
         NEW v \in Walks, SameAsked(w, v), v.round = w.round,
         v.visited = w.visited \cup fresh, v.frontier = fresh,
         v.answer = w.answer \o SetToSeq(taken),
         v.stage = IF Cardinality(taken) = wanted THEN "answered" ELSE "edges"
  PROVE  OnCourse(v, known, edges)
<1> DEFINE visited == v.visited
           answer  == v.answer
           Then(k) == Reach(w, w.known, w.links, k)
           Now(k)  == Reach(w, known, edges, k)
<1>1. /\ w.round \in Nat /\ w.hops \in Nat /\ w.limit \in Nat
      /\ w.answer \in Seq(Concepts) /\ Len(w.answer) \in Nat
      /\ Len(w.answer) < w.limit /\ wanted \in Nat
  BY DEF Walks, UnderWay
<1>2. /\ fresh \in SUBSET Concepts /\ visited \in SUBSET Concepts
      /\ rows \in SUBSET Concepts /\ IsFiniteSet(rows) /\ Cardinality(rows) \in Nat
  <2>1. rows \in SUBSET Concepts /\ fresh \in SUBSET Concepts /\ visited \in SUBSET Concepts
    BY DEF Walks
  <2> QED
    BY <2>1, KnowledgeAssumption, FS_Subset, FS_CardinalityType
<1>3. /\ taken \in SUBSET rows
      /\ Cardinality(taken) = IF wanted <= Cardinality(rows) THEN wanted ELSE Cardinality(rows)
  <2>1. Min({wanted, Cardinality(rows)}) = IF wanted <= Cardinality(rows)
                                           THEN wanted ELSE Cardinality(rows)
    BY <1>1, <1>2, MinOfTwo
  <2> QED
    BY <2>1 DEF kSubset
<1>4. Cardinality(taken) = wanted \/ taken = rows
  BY <1>2, <1>3, FS_Subset
<1>5. taken \in SUBSET Concepts /\ taken \in SUBSET fresh /\ ToSet(w.answer) \cap taken = {}
  BY <1>2, <1>3 DEF UnderWay
<1>6. /\ answer \in Seq(Concepts)
      /\ Len(answer) = Len(w.answer) + Cardinality(taken) /\ Cardinality(taken) \in Nat
      /\ IsInjective(answer)
      /\ ToSet(answer) = ToSet(w.answer) \cup taken
  <2> DEFINE s == w.answer
             t == s \o SetToSeq(taken)
  <2>1. s \in Seq(Concepts) /\ IsInjective(s) /\ ToSet(s) \cap taken = {}
    BY <1>1, <1>5 DEF UnderWay
  <2>2. answer = t
    OBVIOUS
  <2> HIDE DEF s, answer
  <2>3. /\ t \in Seq(Concepts) /\ IsInjective(t)
        /\ Len(t) = Len(s) + Cardinality(taken) /\ Cardinality(taken) \in Nat
        /\ ToSet(t) = ToSet(s) \cup taken
    BY <1>5, <2>1, AnswerGrows
  <2> HIDE DEF t
  <2> QED
    BY <2>2, <2>3 DEF s
<1>8. /\ visited = w.visited \cup fresh /\ fresh = w.frontier \ w.visited
      /\ rows = {c \in fresh \cap known : ScopeOf[c] = w.scope}
  OBVIOUS
<1>9. /\ v.round = w.round /\ v.frontier = fresh /\ v.visited = visited
      /\ v.answer = answer /\ v.scope = w.scope /\ v.limit = w.limit
      /\ v.hops = w.hops /\ v.seeds = w.seeds /\ v.known = w.known /\ v.links = w.links
  BY DEF SameAsked
<1> HIDE DEF visited, answer
<1>10. /\ \A some, joins, k : Reach(v, some, joins, k) = Reach(w, some, joins, k)
       /\ InScope(v) = InScope(w) /\ Began(v, known, edges)
  BY SameReach
<1>11. Reach(v, v.known, v.links, v.round) = Then(w.round)
       /\ Reach(v, known, edges, v.round) = Now(w.round)
  BY <1>9, <1>10
<1>15. \A j, k \in Nat : j <= k => Then(j) \subseteq Then(k) /\ Now(j) \subseteq Now(k)
  BY ReachFacts
<1>16. \A c \in fresh : \/ c \in Now(w.round)
                        \/ w.round = 0 /\ c \in w.seeds
  BY <1>8 DEF UnderWay
<1>17. ToSet(answer) \subseteq Now(w.round)
  <2>1. taken \subseteq Now(w.round)
    <3> SUFFICES ASSUME NEW c \in taken PROVE c \in Now(w.round)
      OBVIOUS
    <3>1. c \in fresh /\ c \in known /\ ScopeOf[c] = w.scope
      BY <1>3, <1>8
    <3>2. CASE w.round = 0 /\ c \in w.seeds
      BY <3>1, <3>2, ReachFacts
    <3> QED
      BY <1>16, <3>1, <3>2
  <2>2. ToSet(w.answer) \subseteq Now(w.round)
    <3>1. CASE w.round = 0
      BY <3>1 DEF UnderWay, Loading
    <3>2. CASE w.round > 0
      <4>1. w.round - 1 \in Nat /\ w.round - 1 <= w.round
        BY <1>1, <3>2
      <4> QED
        BY <1>1, <1>15, <3>2, <4>1 DEF Loading
    <3> QED
      BY <1>1, <3>1, <3>2
  <2> QED
    BY <1>6, <2>1, <2>2
<1>18. CASE Cardinality(taken) = wanted
  <2>1. Len(answer) = w.limit
    BY <1>1, <1>6, <1>18
  <2>2. ToSet(answer) \subseteq Now(w.hops)
    BY <1>1, <1>15, <1>17
  <2>3. ASSUME NEW k \in 0..w.hops - 1
        PROVE  ToSet(answer) \subseteq Now(k) \/ Then(k) \subseteq ToSet(answer)
    <3>1. k \in Nat
      OBVIOUS
    <3>2. CASE k >= w.round
      BY <1>1, <1>15, <1>17, <3>1, <3>2
    <3>3. CASE k < w.round
      <4>1. w.round > 0 /\ w.round - 1 \in Nat /\ k <= w.round - 1
        BY <1>1, <3>1, <3>3
      <4>2. Then(k) \subseteq w.visited
        BY <1>15, <3>1, <4>1 DEF Loading
      <4>3. Then(k) \subseteq w.known \cap InScope(w)
        BY <3>1, ReachInScope DEF Began
      <4> QED
        BY <1>6, <4>2, <4>3 DEF UnderWay
    <3> QED
      BY <1>1, <3>1, <3>2, <3>3
  <2>4. Exact(v, known, edges)
    <3>1. Len(v.answer) <= v.limit /\ ~(Len(v.answer) < v.limit)
      BY <1>1, <1>9, <2>1
    <3>2. IsInjective(v.answer) /\ ToSet(v.answer) \subseteq Reach(v, known, edges, v.hops)
      BY <1>6, <1>9, <1>10, <2>2
    <3>3. ASSUME NEW k \in 0..v.hops - 1
          PROVE  \/ ToSet(v.answer) \subseteq Reach(v, known, edges, k)
                 \/ Reach(v, v.known, v.links, k) \subseteq ToSet(v.answer)
      BY <1>9, <1>10, <2>3
    <3> QED
      BY <3>1, <3>2, <3>3 DEF Exact
  <2> QED
    BY <1>10, <1>18, <2>4 DEF OnCourse
<1>19. CASE Cardinality(taken) # wanted
  <2>1. taken = rows /\ Len(answer) < w.limit
    BY <1>1, <1>2, <1>3, <1>4, <1>6, <1>19
  <2>2. visited \cap w.known \cap InScope(w) \subseteq ToSet(answer)
    BY <1>6, <1>8, <2>1 DEF UnderWay, Began, InScope
  <2>3. ToSet(answer) \subseteq visited /\ fresh \subseteq visited
    BY <1>5, <1>6, <1>8 DEF UnderWay
  <2>4. UnderWay(v, known, edges)
    <3>1. \A c \in v.frontier : \/ c \in Reach(v, known, edges, v.round)
                                \/ v.round = 0 /\ c \in v.seeds
      BY <1>9, <1>11, <1>16
    <3>2. v.visited \cap v.known \cap InScope(v) \subseteq ToSet(v.answer)
      BY <1>9, <1>10, <2>2
    <3> QED
      BY <1>6, <1>9, <2>1, <2>3, <3>1, <3>2 DEF UnderWay
  <2>5. visited = w.visited \cup w.frontier /\ visited \ fresh = w.visited
    BY <1>8
  <2>6. Following(v, known, edges)
    <3>1. Then(w.round) \subseteq visited
      BY <2>5 DEF Loading
    <3>2. Around(visited \ fresh, LinksIn(w.scope, w.links)) \subseteq visited
      BY <2>5 DEF Loading
    <3> HIDE DEF Then, Now
    <3> QED
      BY <1>9, <1>11, <1>17, <2>3, <3>1, <3>2 DEF Following
  <2> QED
    BY <1>10, <1>19, <2>4, <2>6 DEF OnCourse
<1> QED
  BY <1>18, <1>19

(* The walk is right at the start, and stays so.                            *)
LEMMA WalkOKInit == Init => WalkOK
BY DEF Init, WalkOK

(* The walk of a reader goes on as it should.                               *)
LEMMA WalkGoesOn == LayerOK /\ WalkOK /\ KnowledgeRead => WalkOK'
<1> SUFFICES ASSUME LayerOK, WalkOK, KnowledgeRead PROVE WalkOK'
  OBVIOUS
<1>1. Known' = Known /\ links' = links
  BY KnowledgeReadOK DEF LayerOK, Known
<1>2. Graph(Known, links)
  BY DEF LayerOK, KnowledgeOK, Graph, Known
<1> SUFFICES walk' = NoWalk \/ OnCourse(walk', Known, links)
  BY <1>1 DEF WalkOK
<1>3. walk.stage # "none" => OnCourse(walk, Known, links)
  BY DEF WalkOK, NoWalk
<1>4. ASSUME NEW c \in Concepts, NEW seeds \in Seeds, NEW hops \in Hops,
             NEW limit \in Limits, StartWalk(ScopeOf[c], seeds, hops, limit)
      PROVE  OnCourse(walk', Known, links)
  BY <1>2, <1>4, StartRight DEF StartWalk
<1>5. CASE LoadFrontier
  <2>1. /\ walk.stage = "load" /\ walk \in Walks /\ Began(walk, Known, links)
        /\ UnderWay(walk, Known, links) /\ Loading(walk, Known, links)
    BY <1>3, <1>5 DEF LoadFrontier, OnCourse
  <2>2. walk.round \in Nat /\ walk.hops \in Nat
    BY <2>1 DEF Walks
  <2>3. CASE Ended
    <3>1. walk' = [walk EXCEPT !.stage = "answered"]
      BY <1>5, <2>3 DEF LoadFrontier
    <3>2. walk.round > walk.hops \/ walk.frontier \subseteq walk.visited
      BY <2>1, <2>3 DEF Ended, LastRoundDone, Fresh, UnderWay, Walks
    <3>3. Exact(walk, Known, links)
      BY <2>1, <3>2, EndRight
    <3>4. walk' = Moved(walk, "answered", walk.round, walk.frontier, walk.visited,
                        walk.answer)
      BY <2>1, <3>1 DEF Walks, Moved
    <3>5. /\ walk.frontier \in SUBSET Concepts /\ walk.visited \in SUBSET Concepts
          /\ walk.answer \in Seq(Concepts)
      BY <2>1 DEF Walks
    <3>6. /\ walk' \in Walks /\ SameAsked(walk, walk')
          /\ walk'.stage = "answered" /\ walk'.answer = walk.answer
      BY <2>1, <2>2, <3>4, <3>5, MovedFacts
    <3> QED
      BY <2>1, <3>3, <3>6, AnsweredRight
  <2>4. CASE ~Ended
    <3> DEFINE rows   == {c \in Fresh \cap Known : ScopeOf[c] = walk.scope}
               wanted == walk.limit - Len(walk.answer)
    <3>1. PICK taken \in kSubset(Min({wanted, Cardinality(rows)}), rows) :
            walk' = [walk EXCEPT
                  !.visited = @ \cup Fresh,
                  !.frontier = Fresh,
                  !.answer = @ \o SetToSeq(taken),
                  !.stage = IF Cardinality(taken) = wanted
                            THEN "answered" ELSE "edges"]
      BY <1>5, <2>4 DEF LoadFrontier
    <3>2. walk.round <= walk.hops /\ Known \subseteq Concepts
      BY <2>2, <2>4 DEF Ended, LastRoundDone, Known
    <3>3. Fresh = walk.frontier \ walk.visited
      BY DEF Fresh
    <3> DEFINE answer  == walk.answer \o SetToSeq(taken)
               visited == walk.visited \cup Fresh
               stage   == IF Cardinality(taken) = wanted THEN "answered" ELSE "edges"
    <3>4. walk' = [walk EXCEPT !.visited = visited, !.frontier = Fresh,
                               !.answer = answer, !.stage = stage]
      BY <3>1
    <3>5. /\ Fresh \in SUBSET Concepts /\ visited \in SUBSET Concepts
          /\ walk.answer \in Seq(Concepts)
      BY <2>1, <3>3 DEF Walks
    <3>6. taken \in SUBSET Concepts
      BY <3>5 DEF kSubset
    <3>7. SetToSeq(taken) \in Seq(Concepts)
      <4>1. IsFiniteSet(taken)
        BY <3>6, KnowledgeAssumption, FS_Subset
      <4>2. SetToSeq(taken) \in Seq(taken)
        BY <4>1, SetToSeqFacts
      <4> QED
        BY <3>6, <4>2
    <3>8. answer \in Seq(Concepts)
      BY <3>5, <3>7
    <3>9. stage \in {"load", "edges", "answered"}
      OBVIOUS
    <3>10. /\ answer = walk.answer \o SetToSeq(taken)
           /\ visited = walk.visited \cup Fresh
           /\ stage = IF Cardinality(taken) = wanted THEN "answered" ELSE "edges"
      OBVIOUS
    <3> HIDE DEF answer, visited, stage
    <3>11. walk' = Moved(walk, stage, walk.round, Fresh, visited, answer)
      BY <2>1, <3>4 DEF Walks, Moved
    <3>12. /\ walk' \in Walks /\ SameAsked(walk, walk')
           /\ walk'.stage = stage /\ walk'.round = walk.round /\ walk'.frontier = Fresh
           /\ walk'.visited = visited /\ walk'.answer = answer
      BY <2>1, <2>2, <3>5, <3>8, <3>9, <3>11, MovedFacts
    <3> HIDE DEF rows, wanted
    <3>13. /\ rows = {c \in Fresh \cap Known : ScopeOf[c] = walk.scope}
           /\ wanted = walk.limit - Len(walk.answer)
      BY DEF rows, wanted
    <3>14. taken \in kSubset(Min({wanted, Cardinality(rows)}), rows)
      BY <3>1
    <3>15. /\ walk'.visited = walk.visited \cup Fresh
           /\ walk'.answer = walk.answer \o SetToSeq(taken)
           /\ walk'.stage = IF Cardinality(taken) = wanted THEN "answered" ELSE "edges"
      BY <3>10, <3>12
    <3> QED
      BY <2>1, <3>2, <3>3, <3>12, <3>13, <3>14, <3>15, LoadRight
  <2> QED
    BY <2>3, <2>4
<1>6. CASE ReadLinks
  <2>1. /\ walk.stage = "edges" /\ walk \in Walks /\ Began(walk, Known, links)
        /\ UnderWay(walk, Known, links) /\ Following(walk, Known, links)
    BY <1>3, <1>6 DEF ReadLinks, OnCourse
  <2>2. walk' = [walk EXCEPT !.stage = "load", !.round = @ + 1,
                  !.frontier = NeighboursOf(@, LinksIn(walk.scope, links))
                                 \ walk.visited]
    BY <1>6 DEF ReadLinks
  <2> DEFINE near     == NeighboursOf(walk.frontier, LinksIn(walk.scope, links))
             frontier == near \ walk.visited
             round    == walk.round + 1
  <2>3. round \in Nat /\ walk.visited \in SUBSET Concepts /\ walk.answer \in Seq(Concepts)
    BY <2>1 DEF Walks
  <2>4. frontier \in SUBSET Concepts
    BY <1>2 DEF NeighboursOf, LinksIn, Graph
  <2>5. walk' = [walk EXCEPT !.stage = "load", !.round = round, !.frontier = frontier]
    BY <2>2
  <2>6. /\ frontier = near \ walk.visited /\ round = walk.round + 1
        /\ near = NeighboursOf(walk.frontier, LinksIn(walk.scope, links))
    OBVIOUS
  <2> HIDE DEF near, frontier, round
  <2>7. walk' = Moved(walk, "load", round, frontier, walk.visited, walk.answer)
    BY <2>1, <2>5 DEF Walks, Moved
  <2>8. /\ walk' \in Walks /\ SameAsked(walk, walk')
        /\ walk'.stage = "load" /\ walk'.round = round /\ walk'.frontier = frontier
        /\ walk'.visited = walk.visited /\ walk'.answer = walk.answer
    BY <2>1, <2>3, <2>4, <2>7, MovedFacts
  <2> QED
    BY <1>2, <2>1, <2>6, <2>8, LinksRight
<1>7. CASE Answer
  BY <1>7 DEF Answer
<1> QED
  BY <1>4, <1>5, <1>6, <1>7 DEF KnowledgeRead

(* The walk is right after every step, one of a reader or of a writer.      *)
LEMMA WalkOKNext == LayerOK /\ WalkOK /\ [Next]_vars => WalkOK'
<1> SUFFICES ASSUME LayerOK, WalkOK, [Next]_vars PROVE WalkOK'
  OBVIOUS
<1>1. ASSUME UNCHANGED walk, Known \subseteq Known', links \subseteq links'
      PROVE  WalkOK'
  BY <1>1, GrowthOK DEF WalkOK
<1>2. Known \subseteq Known' /\ links \subseteq links'
  BY LayerOKNext DEF Kept
<1>3. CASE KnowledgeRead
  BY <1>3, WalkGoesOn
<1>4. CASE UNCHANGED walk
  BY <1>1, <1>2, <1>4
<1>5. KnowledgeWrite => UNCHANGED walk
  BY DEF KnowledgeWrite, UpsertConcept, LinkConcepts
<1> QED
  BY <1>3, <1>4, <1>5 DEF Next, vars, knowledge

-----------------------------------------------------------------------------
(* The theorems                                                             *)

(* TypeOK for any graph and any number of clients: every link joins two     *)
(* known concepts of one scope, and nothing is kept of an erased memory.    *)
THEOREM LayerTypeCorrect == Spec => []TypeOK
<1>1. LayerOK => TypeOK
  BY DEF LayerOK, KnowledgeOK, IndexOK, TypeOK
<1> QED
  BY <1>1, LayerOKInit, LayerOKNext, PTL DEF Spec

(* DirtyCountsAreExact for any number of summarizers, marks and bounds.     *)
THEOREM DirtyCountsCorrect == Spec => []DirtyCountsAreExact
<1>1. LayerOK => DirtyCountsAreExact
  BY DEF LayerOK
<1> QED
  BY <1>1, LayerOKInit, LayerOKNext, PTL DEF Spec

(* ProvenanceIsKept for any number of writes by any number of clients.      *)
THEOREM ProvenanceCorrect == Spec => ProvenanceIsKept
<1>1. LayerOK /\ [Next]_vars => LayerOK' /\ KeepsProvenance
  BY LayerOKNext DEF Kept, IndexKept, KeepsProvenance
<1> QED
  BY <1>1, LayerOKInit, PTL DEF Spec, ProvenanceIsKept

(* ExpansionsAreExact for any graph, seeds, hops, limit and writes: the     *)
(* walk of expand_concepts answers with what breadth-first search would,    *)
(* although the graph grows between its SELECTs.                            *)
THEOREM ExpansionsCorrect == Spec => []ExpansionsAreExact
<1>1. WalkOK => ExpansionsAreExact
  BY DEF WalkOK, NoWalk, OnCourse, Exact, Reach, ExpansionsAreExact
<1> QED
  BY <1>1, LayerOKInit, LayerOKNext, WalkOKInit, WalkOKNext, PTL DEF Spec
=============================================================================
