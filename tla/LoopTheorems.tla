---------------------------- MODULE LoopTheorems ---------------------------
(***************************************************************************)
(* What the loop of Loops.tla returns.  The library states induction for   *)
(* an operator, which the provers here cannot instantiate; LeastNumber and *)
(* SetInduction state it for a set of numbers.                             *)
(***************************************************************************)
EXTENDS Loops, WellFoundedInduction, TLAPS

(* Leaves are for Zenon unless they name another prover.                   *)
USE ZenonT(20)

(* Sequences with the same elements are the same.                          *)
LEMMA SameElements ==
    ASSUME NEW S, NEW p \in Seq(S), NEW q \in Seq(S),
           Len(p) = Len(q), \A i \in 1..Len(p) : p[i] = q[i]
    PROVE  p = q
BY SMT

(* The elements of a concatenation.                                        *)
LEMMA Concatenation ==
    ASSUME NEW S, NEW p \in Seq(S), NEW q \in Seq(S)
    PROVE  /\ p \o q \in Seq(S) /\ Len(p \o q) = Len(p) + Len(q)
           /\ \A i \in 1..(Len(p) + Len(q)) :
                (p \o q)[i] = IF i <= Len(p) THEN p[i] ELSE q[i - Len(p)]
BY SMT

(* The elements of a piece of a sequence.                                  *)
LEMMA Piece ==
    ASSUME NEW S, NEW p, NEW a \in Int, NEW b \in Int, \A i \in a..b : p[i] \in S
    PROVE  /\ SubSeq(p, a, b) \in Seq(S)
           /\ Len(SubSeq(p, a, b)) = IF a <= b THEN b - a + 1 ELSE 0
           /\ \A i \in 1..(b - a + 1) : SubSeq(p, a, b)[i] = p[a + i - 1]
BY SMT

(* Every nonempty set of numbers has a least one.                          *)
LEMMA LeastNumber ==
    ASSUME NEW T \in SUBSET Nat, T # {}
    PROVE  \E m \in T : \A k \in T : m <= k
<1>. DEFINE R == OpToRel(<, Nat)
<1>1. R = {ss \in Nat \X Nat : ss[1] < ss[2]}
  BY DEF OpToRel
<1>2. IsWellFoundedOn(R, Nat)
  BY NatLessThanWellFounded
<1>. HIDE DEF R
<1>3. PICK m \in T : \A k \in T : ~ (<<k, m>> \in R)
  BY <1>2, WFMin
<1>4. ASSUME NEW k \in T PROVE m <= k
  <2>1. k \in Nat /\ m \in Nat /\ ~ (<<k, m>> \in R)
    BY <1>3
  <2>2. k < m => <<k, m>> \in R
    BY <1>1, <2>1
  <2>. QED BY SMT, <2>1, <2>2
<1>. QED BY <1>4

(* Induction, with a set of numbers in the place of a predicate.           *)
LEMMA SetInduction ==
    ASSUME NEW n \in Nat, NEW T, 0 \in T, \A i \in 1..n : i - 1 \in T => i \in T
    PROVE  \A i \in 0..n : i \in T
<1>. SUFFICES ASSUME NEW j \in 0..n, j \notin T PROVE FALSE
  OBVIOUS
<1>. DEFINE U == {i \in 0..n : i \notin T}
<1>1. U \in SUBSET Nat /\ U # {}
  BY SMT
<1>2. PICK m \in U : \A k \in U : m <= k
  BY <1>1, LeastNumber
<1>3. m \in 1..n /\ m - 1 \in 0..n /\ m - 1 \notin U
  BY SMT, <1>2
<1>. QED BY <1>2, <1>3

(* The states a loop of n rounds passes through.                           *)
IsRun(f, n, S, start, body) ==
    /\ f \in [0..n -> S]
    /\ f[0] = start
    /\ \A i \in 1..n : f[i] = body[i][f[i - 1]]

(* A loop that runs n times has a function from its rounds to its states.  *)
LEMMA LoopRuns ==
    ASSUME NEW n \in Nat, NEW S, NEW start \in S, NEW body \in [1..n -> [S -> S]]
    PROVE  \E f : IsRun(f, n, S, start, body)
<1>. DEFINE T == {m \in 0..n : \E f : IsRun(f, m, S, start, body)}
<1>1. 0 \in T
  <2>. DEFINE g == [i \in 0..0 |-> start]
  <2>1. g \in [0..0 -> S] /\ g[0] = start
    BY SMT
  <2>. HIDE DEF g
  <2>2. IsRun(g, 0, S, start, body)
    BY SMT, <2>1 DEF IsRun
  <2>. QED BY SMT, <2>2
<1>2. ASSUME NEW m \in 1..n, m - 1 \in T PROVE m \in T
  <2>1. PICK f : IsRun(f, m - 1, S, start, body)
    BY <1>2
  <2>. DEFINE g == [i \in 0..m |-> IF i = m THEN body[m][f[m - 1]] ELSE f[i]]
  <2>2. f \in [0..(m - 1) -> S] /\ f[0] = start
        /\ \A i \in 1..(m - 1) : f[i] = body[i][f[i - 1]]
    BY <2>1 DEF IsRun
  <2>3. body[m] \in [S -> S] /\ f[m - 1] \in S
    BY SMT, <2>2
  <2>4. g \in [0..m -> S] /\ g[0] = start
    BY SMT, <2>2, <2>3
  <2>5. ASSUME NEW i \in 1..m PROVE g[i] = body[i][g[i - 1]]
    <3>1. CASE i = m
      BY SMT, <3>1
    <3>2. CASE i # m
      BY SMT, <2>2, <3>2
    <3>. QED BY <3>1, <3>2
  <2>. HIDE DEF g
  <2>6. IsRun(g, m, S, start, body)
    BY <2>4, <2>5 DEF IsRun
  <2>. QED BY SMT, <2>6
<1>. HIDE DEF T
<1>3. \A i \in 0..n : i \in T
  BY <1>1, <1>2, SetInduction
<1>4. n \in T
  BY SMT, <1>3
<1>. QED BY <1>4 DEF T

(* A function that is defined by a loop's equation is the loop's run, if   *)
(* the loop's body is as the equation says wherever the loop comes.        *)
LEMMA LoopDefines ==
    ASSUME NEW n \in Nat, NEW S, NEW start \in S, NEW body \in [1..n -> [S -> S]],
           NEW k, k = [i \in 0..n |-> k[i]], k[0] = start,
           \A i \in 1..n : k[i - 1] \in S => k[i] = body[i][k[i - 1]]
    PROVE  IsRun(k, n, S, start, body)
<1>. DEFINE T == {i \in 0..n : k[i] \in S}
<1>1. 0 \in T
  BY SMT
<1>2. ASSUME NEW i \in 1..n, i - 1 \in T PROVE i \in T
  <2>1. k[i] = body[i][k[i - 1]] /\ k[i - 1] \in S
    BY <1>2
  <2>2. i \in 0..n
    BY SMT
  <2>3. body[i] \in [S -> S]
    OBVIOUS
  <2>4. k[i] \in S
    BY <2>1, <2>3
  <2>. QED BY <2>2, <2>4
<1>. HIDE DEF T
<1>3. \A i \in 0..n : i \in T
  BY <1>1, <1>2, SetInduction
<1>4. \A i \in 0..n : k[i] \in S
  BY <1>3 DEF T
<1>5. k \in [0..n -> S]
  BY <1>4
<1>6. \A i \in 1..n : i - 1 \in 0..n
  BY SMT
<1>. QED BY <1>4, <1>5, <1>6 DEF IsRun

(* f holds what Subsequence has kept after each round.                     *)
IsSelection(f, seq, S, A) ==
    /\ f \in [0..Len(seq) -> Seq(S)]
    /\ f[0] = << >>
    /\ \A i \in 1..Len(seq) :
         f[i] = IF seq[i] \in A THEN Append(f[i - 1], seq[i]) ELSE f[i - 1]
    /\ Subsequence(seq, A) = f[Len(seq)]

(* The rounds of Subsequence satisfy the equations it is written with.     *)
LEMMA SubsequenceLoop ==
    ASSUME NEW S, NEW seq \in Seq(S), NEW A
    PROVE  \E f : IsSelection(f, seq, S, A)
<1>. DEFINE n == Len(seq)
            round(f) == [i \in 0..n |->
                           IF i = 0 THEN << >>
                           ELSE IF seq[i] \in A THEN Append(f[i - 1], seq[i]) ELSE f[i - 1]]
            body == [i \in 1..n |-> [s \in Seq(S) |-> IF seq[i] \in A THEN Append(s, seq[i]) ELSE s]]
<1>1. n \in Nat /\ << >> \in Seq(S)
  BY SMT
<1>2. body \in [1..n -> [Seq(S) -> Seq(S)]]
  <2>1. ASSUME NEW i \in 1..n, NEW s \in Seq(S)
        PROVE  (IF seq[i] \in A THEN Append(s, seq[i]) ELSE s) \in Seq(S)
    BY SMT
  <2>. QED BY <2>1
<1>. HIDE DEF body
<1>3. PICK f : IsRun(f, n, Seq(S), << >>, body)
  BY <1>1, <1>2, LoopRuns
<1>4. f \in [0..n -> Seq(S)] /\ f[0] = << >>
  BY <1>3 DEF IsRun
<1>5. ASSUME NEW i \in 1..n
      PROVE  f[i] = IF seq[i] \in A THEN Append(f[i - 1], seq[i]) ELSE f[i - 1]
  <2>1. f[i - 1] \in Seq(S)
    BY SMT, <1>1, <1>4
  <2>2. f[i] = body[i][f[i - 1]]
    BY <1>3 DEF IsRun
  <2>. QED BY <2>1, <2>2 DEF body
<1>6. f = round(f)
  <2>1. f = [i \in 0..n |-> f[i]]
    BY <1>4
  <2>2. ASSUME NEW i \in 0..n
        PROVE  f[i] = IF i = 0 THEN << >>
                      ELSE IF seq[i] \in A THEN Append(f[i - 1], seq[i]) ELSE f[i - 1]
    <3>1. CASE i = 0
      BY <1>4, <3>1
    <3>2. CASE i # 0
      <4>1. i \in 1..n
        BY SMT, <3>2
      <4>. QED BY <1>5, <3>2, <4>1
    <3>. QED BY <3>1, <3>2
  <2>. QED BY <2>1, <2>2
<1>. DEFINE k == CHOOSE g : g = round(g)
<1>7. k = round(k)
  BY <1>6
<1>8. Subsequence(seq, A) = k[n]
  BY DEF Subsequence
<1>. HIDE DEF k
<1>9. k[0] = << >>
  BY SMT, <1>1, <1>7
<1>10. ASSUME NEW i \in 1..n
       PROVE  k[i] = IF seq[i] \in A THEN Append(k[i - 1], seq[i]) ELSE k[i - 1]
  <2>1. i \in 0..n /\ i # 0
    BY SMT, <1>1
  <2>. QED BY <1>7, <2>1
<1>11. k \in [0..n -> Seq(S)]
  <2>. DEFINE Q == Seq(S)
              T == {i \in 0..n : k[i] \in Q}
  <2>1. 0 \in T
    <3>1. << >> \in Q
      BY <1>1
    <3>. HIDE DEF Q
    <3>. QED BY SMT, <1>1, <1>9, <3>1
  <2>2. ASSUME NEW i \in 1..n, i - 1 \in T PROVE i \in T
    <3>1. \A s \in Q : Append(s, seq[i]) \in Q
      BY SMT
    <3>. HIDE DEF Q
    <3>2. k[i - 1] \in Q
      BY <2>2
    <3>3. k[i] \in Q
      BY <1>10, <3>1, <3>2
    <3>. QED BY SMT, <3>3
  <2>. HIDE DEF T
  <2>3. \A i \in 0..n : i \in T
    BY <1>1, <2>1, <2>2, SetInduction
  <2>4. \A i \in 0..n : k[i] \in Seq(S)
    BY <2>3 DEF T
  <2>5. k = [i \in 0..n |-> k[i]]
    BY <1>7
  <2>. QED BY <2>4, <2>5
<1>12. IsSelection(k, seq, S, A)
  BY <1>8, <1>9, <1>10, <1>11 DEF IsSelection
<1>. QED BY <1>12

(* What the loop keeps are elements of the sequence that satisfy the test. *)
LEMMA SubsequenceKeeps ==
    ASSUME NEW S, NEW seq \in Seq(S), NEW A
    PROVE  Subsequence(seq, A) \in Seq(S \cap A)
<1>. DEFINE n == Len(seq)
<1>1. n \in Nat
  BY SMT
<1>0. PICK f : IsSelection(f, seq, S, A)
  BY SubsequenceLoop
<1>2. /\ f \in [0..n -> Seq(S)]
      /\ f[0] = << >>
      /\ \A i \in 1..n : f[i] = IF seq[i] \in A THEN Append(f[i - 1], seq[i]) ELSE f[i - 1]
      /\ Subsequence(seq, A) = f[n]
  BY <1>0 DEF IsSelection
<1>. DEFINE Q == Seq(S \cap A)
            T == {i \in 0..n : f[i] \in Q}
<1>3. 0 \in T
  <2>1. << >> \in Q
    BY SMT
  <2>. HIDE DEF Q
  <2>. QED BY SMT, <1>1, <1>2, <2>1
<1>4. ASSUME NEW i \in 1..n, i - 1 \in T PROVE i \in T
  <2>1. seq[i] \in A => \A s \in Q : Append(s, seq[i]) \in Q
    BY SMT
  <2>. HIDE DEF Q
  <2>2. f[i - 1] \in Q
    BY <1>4
  <2>3. f[i] \in Q
    BY <1>2, <2>1, <2>2
  <2>. QED BY SMT, <2>3
<1>. HIDE DEF T
<1>5. \A i \in 0..n : i \in T
  BY <1>1, <1>3, <1>4, SetInduction
<1>6. f[n] \in Q
  BY SMT, <1>1, <1>5 DEF T
<1>. QED BY <1>2, <1>6

(* When every element satisfies the test, the loop keeps the sequence.     *)
LEMMA SubsequenceWhole ==
    ASSUME NEW S, NEW seq \in Seq(S), NEW A, \A i \in 1..Len(seq) : seq[i] \in A
    PROVE  Subsequence(seq, A) = seq
<1>. DEFINE n == Len(seq)
<1>1. n \in Nat
  BY SMT
<1>0. PICK f : IsSelection(f, seq, S, A)
  BY SubsequenceLoop
<1>2. /\ f \in [0..n -> Seq(S)]
      /\ f[0] = << >>
      /\ \A i \in 1..n : f[i] = IF seq[i] \in A THEN Append(f[i - 1], seq[i]) ELSE f[i - 1]
      /\ Subsequence(seq, A) = f[n]
  BY <1>0 DEF IsSelection
<1>. DEFINE T == {i \in 0..n : Len(f[i]) = i /\ \A j \in 1..i : f[i][j] = seq[j]}
<1>3. 0 \in T
  BY SMT, <1>1, <1>2
<1>4. ASSUME NEW i \in 1..n, i - 1 \in T PROVE i \in T
  <2>1. f[i - 1] \in Seq(S) /\ seq[i] \in S /\ Len(f[i - 1]) = i - 1
        /\ \A j \in 1..(i - 1) : f[i - 1][j] = seq[j]
    BY SMT, <1>1, <1>2, <1>4
  <2>2. f[i] = Append(f[i - 1], seq[i])
    BY <1>2
  <2>3. Len(f[i]) = i
    BY SMT, <2>1, <2>2
  <2>4. ASSUME NEW j \in 1..i PROVE f[i][j] = seq[j]
    <3>1. CASE j = i
      BY SMT, <2>1, <2>2, <3>1
    <3>2. CASE j # i
      BY SMT, <2>1, <2>2, <3>2
    <3>. QED BY <3>1, <3>2
  <2>. QED BY SMT, <2>3, <2>4
<1>. HIDE DEF T
<1>5. \A i \in 0..n : i \in T
  BY <1>1, <1>3, <1>4, SetInduction
<1>6. f[n] \in Seq(S) /\ Len(f[n]) = n /\ \A j \in 1..n : f[n][j] = seq[j]
  BY SMT, <1>1, <1>2, <1>5 DEF T
<1>. QED BY SMT, <1>2, <1>6
=============================================================================
