------------------------------ MODULE CsvProofs ------------------------------
(***************************************************************************)
(* Proofs about CsvFile: the types, and what is read from a file whose     *)
(* text is appended to, cut, and appended to again.                        *)
(*                                                                         *)
(* Text is a sequence that grows token by token, so the lemmas say what    *)
(* one more element does to a flattened, a filtered and a split sequence.  *)
(***************************************************************************)
EXTENDS CsvFile, Integers, SumLemmas, SequenceTheorems

-----------------------------------------------------------------------------
(* Recursion over the natural numbers up to a bound. *)

IsStep(F, a, N, S) ==
  a \in S /\ N \in Nat /\ F \in [1 .. N -> [S -> S]]
Follows(G, F, a, N, S) ==
  /\ G \in [0 .. N -> S]
  /\ G[0] = a
  /\ \A n \in 1 .. N : G[n] = F[n][G[n - 1]]

LEMMA Recursion ==
  ASSUME NEW F, NEW a, NEW N, NEW S, IsStep(F, a, N, S)
  PROVE  \E G : Follows(G, F, a, N, S)
<1> USE DEF IsStep
<1> DEFINE Solves(G, n) == G[0] = a /\ \A i \in 1 .. n : G[i] = F[i][G[i - 1]]
           Ns == {n \in Nat : n <= N => \E G \in [0 .. n -> S] : Solves(G, n)}
<1>1. 0 \in Ns
  <2>1. [i \in 0 .. 0 |-> a] \in [0 .. 0 -> S] /\ Solves([i \in 0 .. 0 |-> a], 0)
    OBVIOUS
  <2> QED
    BY <2>1
<1>2. ASSUME NEW n \in Nat, n \in Ns PROVE n + 1 \in Ns
  <2> SUFFICES ASSUME n + 1 <= N PROVE \E G \in [0 .. n + 1 -> S] : Solves(G, n + 1)
    OBVIOUS
  <2>1. PICK G \in [0 .. n -> S] : Solves(G, n)
    BY <1>2
  <2> DEFINE H == [i \in 0 .. n + 1 |-> IF i <= n THEN G[i] ELSE F[n + 1][G[n]]]
  <2>2. n + 1 \in 1 .. N /\ G[n] \in S
    OBVIOUS
  <2>3. F[n + 1][G[n]] \in S
    BY <2>2
  <2>4. H \in [0 .. n + 1 -> S]
    BY <2>3
  <2>5. \A i \in 0 .. n : H[i] = G[i]
    OBVIOUS
  <2>6. H[n + 1] = F[n + 1][H[n]]
    OBVIOUS
  <2>7. ASSUME NEW i \in 1 .. n + 1 PROVE H[i] = F[i][H[i - 1]]
    <3>1. CASE i = n + 1
      BY <2>6, <3>1
    <3>2. CASE i \in 1 .. n
      <4>1. i \in 0 .. n /\ i - 1 \in 0 .. n
        BY <3>2
      <4> HIDE DEF H
      <4> QED
        BY <2>1, <2>5, <3>2, <4>1
    <3> QED
      BY <3>1, <3>2
  <2>8. H[0] = a
    BY <2>1, <2>5
  <2> QED
    BY <2>4, <2>7, <2>8
<1>3. N \in Ns
  <2> HIDE DEF Ns
  <2> QED
    BY <1>1, <1>2, Induction
<1> QED
  BY <1>3 DEF Follows

(* Two recursions that take the same steps give the same values. *)
SameSteps(G, H, n) ==
  G[0] = H[0] /\ \A i \in 1 .. n : G[i - 1] = H[i - 1] => G[i] = H[i]

LEMMA SameRecursion ==
  ASSUME NEW n \in Nat, NEW G, NEW H, SameSteps(G, H, n)
  PROVE  \A i \in 0 .. n : G[i] = H[i]
<1> DEFINE Ns == {i \in Nat : i <= n => G[i] = H[i]}
<1>1. 0 \in Ns
  BY DEF SameSteps
<1>2. ASSUME NEW i \in Nat, i \in Ns PROVE i + 1 \in Ns
  <2> SUFFICES ASSUME i + 1 <= n PROVE G[i + 1] = H[i + 1]
    OBVIOUS
  <2>1. i + 1 \in 1 .. n /\ (i + 1) - 1 = i
    OBVIOUS
  <2>2. G[i] = H[i]
    BY <1>2
  <2> QED
    BY <2>1, <2>2 DEF SameSteps
<1>3. Nat \subseteq Ns
  <2> HIDE DEF Ns
  <2> QED
    BY <1>1, <1>2, Induction
<1> QED
  BY <1>3

(* What holds of the empty sequence, and of a sequence with one element    *)
(* more, holds of all sequences.                                           *)
LEMMA SeqInduction ==
  ASSUME NEW S, NEW Good, << >> \in Good,
         \A s \in Seq(S), x \in S : s \in Good => Append(s, x) \in Good
  PROVE  Seq(S) \subseteq Good
<1> DEFINE Ns == {n \in Nat : \A s \in Seq(S) : Len(s) = n => s \in Good}
<1>1. 0 \in Ns
  <2>1. \A s \in Seq(S) : Len(s) = 0 => s = << >>
    OBVIOUS
  <2> QED
    BY <2>1
<1>2. ASSUME NEW n \in Nat, n \in Ns PROVE n + 1 \in Ns
  <2> SUFFICES ASSUME NEW s \in Seq(S), Len(s) = n + 1 PROVE s \in Good
    OBVIOUS
  <2> DEFINE r == SubSeq(s, 1, n)
  <2>1. r \in Seq(S) /\ Len(r) = n /\ s[n + 1] \in S
    OBVIOUS
  <2>2. s = Append(r, s[n + 1])
    OBVIOUS
  <2>3. r \in Good
    BY <1>2, <2>1
  <2> HIDE DEF r
  <2> QED
    BY <2>1, <2>2, <2>3
<1>3. Nat \subseteq Ns
  <2> HIDE DEF Ns
  <2> QED
    BY <1>1, <1>2, Induction
<1> QED
  BY <1>3

-----------------------------------------------------------------------------
(* Filtered sequences. *)

Keeps(G, s, P) ==
  G = [n \in 0 .. Len(s) |->
         IF n = 0 THEN << >>
         ELSE IF n \in P THEN Append(G[n - 1], s[n])
         ELSE G[n - 1]]

KeepSteps(G, s, P) ==
  /\ G[0] = << >>
  /\ \A n \in 1 .. Len(s) : n \in P => G[n] = Append(G[n - 1], s[n])
  /\ \A n \in 1 .. Len(s) : n \notin P => G[n] = G[n - 1]

LEMMA KeepsIff ==
  ASSUME NEW s, Len(s) \in Nat, NEW P, NEW G
  PROVE  Keeps(G, s, P) <=> G = [n \in 0 .. Len(s) |-> G[n]] /\ KeepSteps(G, s, P)
<1> DEFINE k == Len(s)
           H == [n \in 0 .. k |->
                   IF n = 0 THEN << >>
                   ELSE IF n \in P THEN Append(G[n - 1], s[n])
                   ELSE G[n - 1]]
<1>1. Keeps(G, s, P) <=> G = H
  BY Zenon DEF Keeps
<1>2. /\ H[0] = << >>
      /\ \A n \in 1 .. k : n \in P => H[n] = Append(G[n - 1], s[n])
      /\ \A n \in 1 .. k : n \notin P => H[n] = G[n - 1]
      /\ H = [n \in 0 .. k |-> H[n]]
  <2>1. k \in Nat
    OBVIOUS
  <2> HIDE DEF k
  <2> QED
    BY <2>1
<1>3. ASSUME G = H PROVE G = [n \in 0 .. k |-> G[n]] /\ KeepSteps(G, s, P)
  <2> HIDE DEF H
  <2>1. G = [n \in 0 .. k |-> G[n]]
    BY <1>2, <1>3, Zenon
  <2>2. KeepSteps(G, s, P)
    BY <1>2, <1>3, Zenon DEF KeepSteps
  <2> QED
    BY <2>1, <2>2
<1>4. ASSUME G = [n \in 0 .. k |-> G[n]], KeepSteps(G, s, P) PROVE G = H
  <2>1. ASSUME NEW n \in 0 .. k PROVE G[n] = H[n]
    <3> HIDE DEF H
    <3>1. CASE n = 0
      BY <1>2, <1>4, <3>1 DEF KeepSteps
    <3>2. CASE n \in 1 .. k /\ n \in P
      BY <1>2, <1>4, <3>2, Zenon DEF KeepSteps
    <3>3. CASE n \in 1 .. k /\ n \notin P
      BY <1>2, <1>4, <3>3, Zenon DEF KeepSteps
    <3> QED
      BY <3>1, <3>2, <3>3
  <2> HIDE DEF H
  <2> QED
    BY <1>2, <1>4, <2>1
<1> QED
  BY <1>1, <1>3, <1>4

(* Kept takes one solution of its recursion. *)
LEMMA KeptSolves ==
  ASSUME NEW S, NEW s \in Seq(S), NEW P
  PROVE  \E G : /\ KeepSteps(G, s, P)
                /\ G \in [0 .. Len(s) -> Seq(S)]
                /\ Kept(s, P) = G[Len(s)]
<1> DEFINE k == Len(s)
           Step(n, r) == IF n \in P THEN Append(r, s[n]) ELSE r
           F == [n \in 1 .. k |-> [r \in Seq(S) |-> Step(n, r)]]
<1>1. k \in Nat /\ << >> \in Seq(S)
  OBVIOUS
<1>2. \A n \in 1 .. k, r \in Seq(S) : Step(n, r) \in Seq(S)
  OBVIOUS
<1>3. F \in [1 .. k -> [Seq(S) -> Seq(S)]]
  <2> HIDE DEF Step, k
  <2> QED
    BY <1>2
<1>4. \A n \in 1 .. k, r \in Seq(S) : F[n][r] = Step(n, r)
  <2> HIDE DEF Step, k
  <2> QED
    OBVIOUS
<1>5. IsStep(F, << >>, k, Seq(S))
  BY <1>1, <1>3, Zenon DEF IsStep
<1> HIDE DEF F
<1>6. PICK G : Follows(G, F, << >>, k, Seq(S))
  BY <1>5, Recursion
<1>7. G \in [0 .. k -> Seq(S)] /\ G[0] = << >>
  BY <1>6, Zenon DEF Follows
<1>8. ASSUME NEW n \in 1 .. k PROVE G[n] = Step(n, G[n - 1])
  <2>1. n - 1 \in 0 .. k
    BY <1>1
  <2>2. G[n - 1] \in Seq(S)
    BY <1>7, <2>1
  <2>3. G[n] = F[n][G[n - 1]]
    BY <1>6, Zenon DEF Follows
  <2> QED
    BY <1>4, <2>2, <2>3, Zenon
<1>9. KeepSteps(G, s, P)
  BY <1>7, <1>8, Zenon DEF KeepSteps
<1>10. G = [n \in 0 .. k |-> G[n]]
  BY <1>7
<1>11. Keeps(G, s, P)
  BY <1>1, <1>9, <1>10, KeepsIff, Zenon
<1> DEFINE K == CHOOSE H : Keeps(H, s, P)
<1>12. Keeps(K, s, P)
  BY <1>11, Zenon
<1>13. Kept(s, P) = K[k]
  BY Zenon DEF Kept, Keeps
<1> HIDE DEF K, Step, k
<1>14. KeepSteps(K, s, P)
  BY <1>1, <1>12, KeepsIff, Zenon DEF k
<1>15. SameSteps(K, G, k)
  BY <1>9, <1>14, Zenon DEF SameSteps, KeepSteps, k
<1>16. \A n \in 0 .. k : K[n] = G[n]
  BY <1>1, <1>15, SameRecursion
<1>17. K[k] = G[k]
  BY <1>1, <1>16
<1> QED
  BY <1>7, <1>9, <1>13, <1>17, Zenon DEF k

LEMMA KeptType ==
  ASSUME NEW S, NEW s \in Seq(S), NEW P
  PROVE  Kept(s, P) \in Seq(S)
<1>1. PICK G : /\ KeepSteps(G, s, P)
               /\ G \in [0 .. Len(s) -> Seq(S)]
               /\ Kept(s, P) = G[Len(s)]
  BY KeptSolves
<1> QED
  BY <1>1

LEMMA KeptNothing ==
  ASSUME NEW P
  PROVE  Kept(<< >>, P) = << >>
<1>1. << >> \in Seq({}) /\ Len(<< >>) = 0
  OBVIOUS
<1>2. PICK G : KeepSteps(G, << >>, P) /\ Kept(<< >>, P) = G[Len(<< >>)]
  BY <1>1, KeptSolves
<1>3. G[0] = << >>
  BY <1>2, Zenon DEF KeepSteps
<1> QED
  BY <1>1, <1>2, <1>3, Zenon

(* One more element is kept or not; the others are as they were. *)
SamePositions(P, Q, k) == \A n \in 1 .. k : n \in P <=> n \in Q

LEMMA KeptAppend ==
  ASSUME NEW S, NEW s \in Seq(S), NEW x \in S, NEW P, NEW Q,
         SamePositions(P, Q, Len(s))
  PROVE  /\ Len(s) + 1 \in Q => Kept(Append(s, x), Q) = Append(Kept(s, P), x)
         /\ Len(s) + 1 \notin Q => Kept(Append(s, x), Q) = Kept(s, P)
<1> DEFINE t == Append(s, x)
           k == Len(s)
<1>1. t \in Seq(S) /\ Len(t) = k + 1 /\ k \in Nat /\ t[k + 1] = x
  OBVIOUS
<1>2. \A n \in 1 .. k : t[n] = s[n] /\ n \in 1 .. k + 1
  OBVIOUS
<1>3. k + 1 \in 1 .. k + 1 /\ (k + 1) - 1 = k
  OBVIOUS
<1>4. \A n \in 1 .. k : n \in P <=> n \in Q
  BY Zenon DEF SamePositions
<1>5. PICK G : KeepSteps(G, s, P) /\ Kept(s, P) = G[Len(s)]
  BY KeptSolves
<1> HIDE DEF t
<1>6. PICK H : KeepSteps(H, t, Q) /\ Kept(t, Q) = H[Len(t)]
  BY <1>1, KeptSolves
<1>7. KeepSteps(G, s, P) /\ Kept(s, P) = G[k]
  BY <1>5
<1> HIDE DEF k
<1>8. /\ H[0] = << >>
      /\ \A n \in 1 .. k + 1 : n \in Q => H[n] = Append(H[n - 1], t[n])
      /\ \A n \in 1 .. k + 1 : n \notin Q => H[n] = H[n - 1]
  BY <1>1, <1>6, Zenon DEF KeepSteps
<1>9. /\ G[0] = << >>
      /\ \A n \in 1 .. k : n \in P => G[n] = Append(G[n - 1], s[n])
      /\ \A n \in 1 .. k : n \notin P => G[n] = G[n - 1]
  BY <1>7, Zenon DEF KeepSteps, k
<1>10. SameSteps(H, G, k)
  <2>1. ASSUME NEW n \in 1 .. k, H[n - 1] = G[n - 1] PROVE H[n] = G[n]
    <3>1. CASE n \in P
      BY <1>2, <1>4, <1>8, <1>9, <2>1, <3>1, Zenon
    <3>2. CASE n \notin P
      BY <1>2, <1>4, <1>8, <1>9, <2>1, <3>2, Zenon
    <3> QED
      BY <3>1, <3>2
  <2> QED
    BY <1>8, <1>9, <2>1, Zenon DEF SameSteps
<1>11. \A n \in 0 .. k : H[n] = G[n]
  BY <1>1, <1>10, SameRecursion
<1>12. H[k] = G[k]
  BY <1>1, <1>11
<1>13. /\ k + 1 \in Q => H[k + 1] = Append(H[k], x)
       /\ k + 1 \notin Q => H[k + 1] = H[k]
  BY <1>1, <1>3, <1>8, Zenon
<1>14. Kept(t, Q) = H[k + 1]
  BY <1>1, <1>6, Zenon
<1>15. /\ k + 1 \in Q => Kept(t, Q) = Append(Kept(s, P), x)
       /\ k + 1 \notin Q => Kept(t, Q) = Kept(s, P)
  BY <1>7, <1>12, <1>13, <1>14, Zenon
<1> QED
  BY <1>15, Zenon DEF t, k

-----------------------------------------------------------------------------
(* Split texts. *)

Pieces(T) == Seq(Seq(T)) \ {<< >>}

(* The last piece with one token more. *)
Longer(pieces, x) == Append(Front(pieces), Append(Last(pieces), x))

LEMMA PieceTypes ==
  ASSUME NEW T, NEW pieces \in Pieces(T), NEW x \in T
  PROVE  /\ Append(pieces, << >>) \in Pieces(T)
         /\ Longer(pieces, x) \in Pieces(T)
         /\ Front(pieces) \in Seq(Seq(T))
         /\ Last(pieces) \in Seq(T)
         /\ pieces = Append(Front(pieces), Last(pieces))
<1>1. pieces \in Seq(Seq(T)) /\ pieces # << >>
  BY Zenon DEF Pieces
<1> DEFINE S == Seq(T)
<1>2. << >> \in S
  OBVIOUS
<1>3. pieces \in Seq(S) /\ pieces # << >>
  BY <1>1
<1>4. \A r \in S : Append(r, x) \in S
  OBVIOUS
<1> HIDE DEF S
<1>5. Len(pieces) \in Nat /\ Len(pieces) > 0
  BY <1>3
<1>6. Front(pieces) \in Seq(S) /\ Last(pieces) \in S
  BY <1>3, <1>5 DEF Front, Last
<1>7. pieces = Append(Front(pieces), Last(pieces))
  BY <1>3, <1>5 DEF Front, Last
<1>8. \A q \in Seq(S), r \in S : Append(q, r) \in Seq(S) /\ Append(q, r) # << >>
  <2> SUFFICES ASSUME NEW q \in Seq(S), NEW r \in S
               PROVE  Append(q, r) \in Seq(S) /\ Append(q, r) # << >>
    OBVIOUS
  <2>1. Append(q, r) \in Seq(S) /\ Len(Append(q, r)) = Len(q) + 1 /\ Len(q) \in Nat
    OBVIOUS
  <2> QED
    BY <2>1
<1>9. Append(pieces, << >>) \in Seq(S) /\ Append(pieces, << >>) # << >>
  BY <1>2, <1>3, <1>8, Zenon
<1>10. Longer(pieces, x) \in Seq(S) /\ Longer(pieces, x) # << >>
  BY <1>4, <1>6, <1>8, Zenon DEF Longer
<1> QED
  BY <1>6, <1>7, <1>9, <1>10, Zenon DEF Pieces, S

Splits(G, t, sep) ==
  G = [n \in 0 .. Len(t) |->
         IF n = 0 THEN << << >> >>
         ELSE LET before == G[n - 1] IN
           IF t[n] = sep THEN Append(before, << >>)
           ELSE Append(Front(before), Append(Last(before), t[n]))]

SplitSteps(G, t, sep) ==
  /\ G[0] = << << >> >>
  /\ \A n \in 1 .. Len(t) : t[n] = sep => G[n] = Append(G[n - 1], << >>)
  /\ \A n \in 1 .. Len(t) : t[n] # sep => G[n] = Longer(G[n - 1], t[n])

LEMMA SplitsIff ==
  ASSUME NEW t, Len(t) \in Nat, NEW sep, NEW G
  PROVE  Splits(G, t, sep) <=> G = [n \in 0 .. Len(t) |-> G[n]] /\ SplitSteps(G, t, sep)
<1> DEFINE k == Len(t)
           More(p, x) == Append(Front(p), Append(Last(p), x))
           H == [n \in 0 .. k |->
                   IF n = 0 THEN << << >> >>
                   ELSE IF t[n] = sep THEN Append(G[n - 1], << >>)
                   ELSE More(G[n - 1], t[n])]
<1>1. Splits(G, t, sep) <=> G = H
  BY Zenon DEF Splits
<1> HIDE DEF More
<1>2. /\ H[0] = << << >> >>
      /\ \A n \in 1 .. k : t[n] = sep => H[n] = Append(G[n - 1], << >>)
      /\ \A n \in 1 .. k : t[n] # sep => H[n] = More(G[n - 1], t[n])
      /\ H = [n \in 0 .. k |-> H[n]]
  <2>1. k \in Nat
    OBVIOUS
  <2> HIDE DEF k
  <2> QED
    BY <2>1
<1>3. \A p, x : More(p, x) = Longer(p, x)
  BY Zenon DEF More, Longer
<1>4. ASSUME G = H PROVE G = [n \in 0 .. k |-> G[n]] /\ SplitSteps(G, t, sep)
  <2> HIDE DEF H
  <2>1. G = [n \in 0 .. k |-> G[n]]
    BY <1>2, <1>4, Zenon
  <2>2. SplitSteps(G, t, sep)
    BY <1>2, <1>3, <1>4, Zenon DEF SplitSteps
  <2> QED
    BY <2>1, <2>2
<1>5. ASSUME G = [n \in 0 .. k |-> G[n]], SplitSteps(G, t, sep) PROVE G = H
  <2>1. ASSUME NEW n \in 0 .. k PROVE G[n] = H[n]
    <3> HIDE DEF H
    <3>1. CASE n = 0
      BY <1>2, <1>5, <3>1, Zenon DEF SplitSteps
    <3>2. CASE n \in 1 .. k /\ t[n] = sep
      BY <1>2, <1>5, <3>2, Zenon DEF SplitSteps
    <3>3. CASE n \in 1 .. k /\ t[n] # sep
      BY <1>2, <1>3, <1>5, <3>3, Zenon DEF SplitSteps
    <3> QED
      BY <3>1, <3>2, <3>3
  <2> HIDE DEF H
  <2> QED
    BY <1>2, <1>5, <2>1
<1> QED
  BY <1>1, <1>4, <1>5

(* Split takes one solution of its recursion. *)
LEMMA SplitSolves ==
  ASSUME NEW T, NEW t \in Seq(T), NEW sep
  PROVE  \E G : /\ SplitSteps(G, t, sep)
                /\ G \in [0 .. Len(t) -> Pieces(T)]
                /\ Split(t, sep) = G[Len(t)]
<1> DEFINE k == Len(t)
           Step(n, p) == IF t[n] = sep THEN Append(p, << >>) ELSE Longer(p, t[n])
           F == [n \in 1 .. k |-> [p \in Pieces(T) |-> Step(n, p)]]
           first == << << >> >>
<1>1. k \in Nat /\ \A n \in 1 .. k : t[n] \in T
  OBVIOUS
<1>2. first \in Pieces(T)
  <2>1. << >> \in Seq(T)
    OBVIOUS
  <2> DEFINE S == Seq(T)
  <2>2. << >> \in S
    BY <2>1
  <2> HIDE DEF S
  <2>3. first \in Seq(S) /\ first # << >>
    BY <2>2
  <2> QED
    BY <2>3, Zenon DEF Pieces, S
<1>3. \A n \in 1 .. k, p \in Pieces(T) : Step(n, p) \in Pieces(T)
  BY <1>1, PieceTypes, Zenon
<1>4. F \in [1 .. k -> [Pieces(T) -> Pieces(T)]]
  <2> HIDE DEF Step, k
  <2> QED
    BY <1>3
<1>5. \A n \in 1 .. k, p \in Pieces(T) : F[n][p] = Step(n, p)
  <2> HIDE DEF Step, k
  <2> QED
    OBVIOUS
<1>6. IsStep(F, first, k, Pieces(T))
  BY <1>1, <1>2, <1>4, Zenon DEF IsStep
<1> HIDE DEF F
<1>7. PICK G : Follows(G, F, first, k, Pieces(T))
  BY <1>6, Recursion
<1>8. G \in [0 .. k -> Pieces(T)] /\ G[0] = first
  BY <1>7, Zenon DEF Follows
<1>9. ASSUME NEW n \in 1 .. k PROVE G[n] = Step(n, G[n - 1])
  <2>1. n - 1 \in 0 .. k
    BY <1>1
  <2>2. G[n - 1] \in Pieces(T)
    <3> HIDE DEF k
    <3> QED
      BY <1>8, <2>1
  <2>3. G[n] = F[n][G[n - 1]]
    BY <1>7, Zenon DEF Follows
  <2> QED
    BY <1>5, <2>2, <2>3, Zenon
<1>10. SplitSteps(G, t, sep)
  BY <1>8, <1>9, Zenon DEF SplitSteps
<1>11. G = [n \in 0 .. k |-> G[n]]
  BY <1>8
<1>12. Splits(G, t, sep)
  BY <1>1, <1>10, <1>11, SplitsIff, Zenon
<1> DEFINE K == CHOOSE H : Splits(H, t, sep)
<1>13. Splits(K, t, sep)
  BY <1>12, Zenon
<1>14. Split(t, sep) = K[k]
  BY Zenon DEF Split, Splits
<1> HIDE DEF K, Step, k, first
<1>15. SplitSteps(K, t, sep)
  BY <1>1, <1>13, SplitsIff, Zenon DEF k
<1>16. SameSteps(K, G, k)
  BY <1>10, <1>15, Zenon DEF SameSteps, SplitSteps, k
<1>17. \A n \in 0 .. k : K[n] = G[n]
  BY <1>1, <1>16, SameRecursion
<1>18. K[k] = G[k]
  BY <1>1, <1>17
<1> QED
  BY <1>8, <1>10, <1>14, <1>18, Zenon DEF k

LEMMA SplitType ==
  ASSUME NEW T, NEW t \in Seq(T), NEW sep
  PROVE  Split(t, sep) \in Pieces(T)
<1>1. PICK G : /\ SplitSteps(G, t, sep)
               /\ G \in [0 .. Len(t) -> Pieces(T)]
               /\ Split(t, sep) = G[Len(t)]
  BY SplitSolves
<1>2. Len(t) \in 0 .. Len(t)
  OBVIOUS
<1>3. G[Len(t)] \in Pieces(T)
  BY <1>1, <1>2
<1> QED
  BY <1>1, <1>3, Zenon

LEMMA SplitNothing ==
  ASSUME NEW sep
  PROVE  Split(<< >>, sep) = << << >> >>
<1>1. << >> \in Seq({}) /\ Len(<< >>) = 0
  OBVIOUS
<1>2. PICK G : SplitSteps(G, << >>, sep) /\ Split(<< >>, sep) = G[Len(<< >>)]
  BY <1>1, SplitSolves
<1> QED
  BY <1>1, <1>2, Zenon DEF SplitSteps

(* A separator opens a new piece, another token joins the last one. *)
LEMMA SplitAppend ==
  ASSUME NEW T, NEW t \in Seq(T), NEW x \in T, NEW sep
  PROVE  /\ x = sep => Split(Append(t, x), sep) = Append(Split(t, sep), << >>)
         /\ x # sep => Split(Append(t, x), sep) = Longer(Split(t, sep), x)
<1> DEFINE u == Append(t, x)
           k == Len(t)
<1>1. u \in Seq(T) /\ Len(u) = k + 1 /\ k \in Nat /\ u[k + 1] = x
  OBVIOUS
<1>2. \A n \in 1 .. k : u[n] = t[n] /\ n \in 1 .. k + 1
  OBVIOUS
<1>3. k + 1 \in 1 .. k + 1 /\ (k + 1) - 1 = k
  OBVIOUS
<1>4. PICK G : SplitSteps(G, t, sep) /\ Split(t, sep) = G[Len(t)]
  BY SplitSolves
<1> HIDE DEF u
<1>5. PICK H : SplitSteps(H, u, sep) /\ Split(u, sep) = H[Len(u)]
  BY <1>1, SplitSolves
<1>6. Split(t, sep) = G[k]
  BY <1>4
<1> HIDE DEF k
<1>7. /\ H[0] = << << >> >>
      /\ \A n \in 1 .. k + 1 : u[n] = sep => H[n] = Append(H[n - 1], << >>)
      /\ \A n \in 1 .. k + 1 : u[n] # sep => H[n] = Longer(H[n - 1], u[n])
  BY <1>1, <1>5, Zenon DEF SplitSteps
<1>8. /\ G[0] = << << >> >>
      /\ \A n \in 1 .. k : t[n] = sep => G[n] = Append(G[n - 1], << >>)
      /\ \A n \in 1 .. k : t[n] # sep => G[n] = Longer(G[n - 1], t[n])
  BY <1>4, Zenon DEF SplitSteps, k
<1>9. SameSteps(H, G, k)
  <2>1. ASSUME NEW n \in 1 .. k, H[n - 1] = G[n - 1] PROVE H[n] = G[n]
    <3>1. CASE t[n] = sep
      BY <1>2, <1>7, <1>8, <2>1, <3>1, Zenon
    <3>2. CASE t[n] # sep
      BY <1>2, <1>7, <1>8, <2>1, <3>2, Zenon
    <3> QED
      BY <3>1, <3>2
  <2> QED
    BY <1>7, <1>8, <2>1, Zenon DEF SameSteps
<1>10. \A n \in 0 .. k : H[n] = G[n]
  BY <1>1, <1>9, SameRecursion
<1>11. H[k] = G[k]
  BY <1>1, <1>10
<1>12. /\ x = sep => H[k + 1] = Append(H[k], << >>)
       /\ x # sep => H[k + 1] = Longer(H[k], x)
  BY <1>1, <1>3, <1>7, Zenon
<1>13. Split(u, sep) = H[k + 1]
  BY <1>1, <1>5, Zenon
<1>14. /\ x = sep => Split(u, sep) = Append(Split(t, sep), << >>)
       /\ x # sep => Split(u, sep) = Longer(Split(t, sep), x)
  BY <1>6, <1>11, <1>12, <1>13, Zenon
<1> QED
  BY <1>14, Zenon DEF u, k

-----------------------------------------------------------------------------
(* Flattened sequences. *)

Flattens(G, ss) ==
  G = [i \in 1 .. Len(ss) |-> IF i = 1 THEN ss[i] ELSE G[i - 1] \o ss[i]]

FlatSteps(G, ss) ==
  /\ G[0] = << >>
  /\ \A n \in 1 .. Len(ss) : G[n] = G[n - 1] \o ss[n]

LEMMA FlattenSolves ==
  ASSUME NEW S, NEW ss \in Seq(Seq(S))
  PROVE  \E G : /\ FlatSteps(G, ss)
                /\ G \in [0 .. Len(ss) -> Seq(S)]
                /\ FlattenSeq(ss) = G[Len(ss)]
<1> DEFINE T == Seq(S)
           k == Len(ss)
           F == [n \in 1 .. k |-> [r \in T |-> r \o ss[n]]]
<1>1. k \in Nat /\ << >> \in T
  OBVIOUS
<1>2. \A n \in 1 .. k : ss[n] \in T
  <2>1. ss \in Seq(T)
    OBVIOUS
  <2> HIDE DEF T
  <2> QED
    BY <2>1
<1>3. \A q \in T, r \in T : q \o r \in T
  OBVIOUS
<1>4. \A r \in T : << >> \o r = r
  OBVIOUS
<1>5. k = 0 => ss = << >>
  OBVIOUS
<1> HIDE DEF T, k
<1>6. F \in [1 .. k -> [T -> T]]
  BY <1>2, <1>3
<1>7. \A n \in 1 .. k, r \in T : F[n][r] = r \o ss[n]
  OBVIOUS
<1>8. IsStep(F, << >>, k, T)
  BY <1>1, <1>6, Zenon DEF IsStep
<1> HIDE DEF F
<1>9. PICK G : Follows(G, F, << >>, k, T)
  BY <1>8, Recursion
<1>10. G \in [0 .. k -> T] /\ G[0] = << >>
  BY <1>9, Zenon DEF Follows
<1>11. ASSUME NEW n \in 1 .. k PROVE G[n] = G[n - 1] \o ss[n]
  <2>1. n - 1 \in 0 .. k
    BY <1>1
  <2>2. G[n - 1] \in T
    BY <1>10, <2>1
  <2>3. G[n] = F[n][G[n - 1]]
    BY <1>9, Zenon DEF Follows
  <2> QED
    BY <1>7, <2>2, <2>3, Zenon
<1>12. FlatSteps(G, ss)
  BY <1>10, <1>11, Zenon DEF FlatSteps, k
<1>13. FlattenSeq(ss) = G[k]
  <2>1. CASE k = 0
    <3>1. FlattenSeq(ss) = ss
      BY <2>1, Zenon DEF FlattenSeq, k
    <3> QED
      BY <1>5, <1>10, <2>1, <3>1, Zenon
  <2>2. CASE k # 0
    <3> DEFINE M == [i \in 1 .. k |-> G[i]]
               Body(H) == [i \in 1 .. k |-> IF i = 1 THEN ss[i] ELSE H[i - 1] \o ss[i]]
               K == CHOOSE H : H = Body(H)
    <3>1. M = Body(M)
      <4>1. ASSUME NEW i \in 1 .. k PROVE M[i] = Body(M)[i]
        <5>1. CASE i = 1
          <6>0. 1 \in 1 .. k /\ 1 - 1 = 0
            BY <5>1
          <6>1. G[1] = G[0] \o ss[1]
            BY <1>11, <6>0, Zenon
          <6>2. ss[1] \in T
            BY <1>2, <5>1
          <6>3. G[1] = ss[1]
            BY <1>4, <1>10, <6>1, <6>2, Zenon
          <6> QED
            BY <5>1, <6>3
        <5>2. CASE i # 1
          <6>1. i - 1 \in 1 .. k
            BY <1>1, <5>2
          <6>2. M[i - 1] = G[i - 1] /\ M[i] = G[i]
            BY <6>1
          <6>3. Body(M)[i] = M[i - 1] \o ss[i]
            BY <5>2
          <6> QED
            BY <1>11, <6>2, <6>3, Zenon
        <5> QED
          BY <5>1, <5>2
      <4>2. DOMAIN M = 1 .. k /\ DOMAIN Body(M) = 1 .. k
        OBVIOUS
      <4>3. M = [i \in 1 .. k |-> M[i]] /\ Body(M) = [i \in 1 .. k |-> Body(M)[i]]
        BY <4>2
      <4> HIDE DEF M, Body
      <4> QED
        BY <4>1, <4>3
    <3>2. K = Body(K)
      <4> HIDE DEF Body, M
      <4> QED
        BY <3>1, Zenon
    <3>3. FlattenSeq(ss) = K[k]
      BY <2>2, Zenon DEF FlattenSeq, k
    <3> HIDE DEF K
    <3>4. \A i \in 1 .. k : K[i] = IF i = 1 THEN ss[i] ELSE K[i - 1] \o ss[i]
      <4>1. \A i \in 1 .. k : Body(K)[i] = IF i = 1 THEN ss[i] ELSE K[i - 1] \o ss[i]
        OBVIOUS
      <4> HIDE DEF Body
      <4> QED
        BY <3>2, <4>1, Zenon
    <3> HIDE DEF Body, M
    <3> DEFINE L == [i \in 0 .. k |-> IF i = 0 THEN << >> ELSE K[i]]
    <3>5. L[0] = << >> /\ \A i \in 1 .. k : L[i] = K[i]
      BY <1>1
    <3> HIDE DEF L
    <3>6. ASSUME NEW i \in 1 .. k, L[i - 1] = G[i - 1] PROVE L[i] = G[i]
      <4>1. CASE i = 1
        <5>0. 1 \in 1 .. k /\ 1 - 1 = 0
          BY <4>1
        <5>1. ss[1] \in T /\ G[1] = G[0] \o ss[1]
          BY <1>2, <1>11, <5>0, Zenon
        <5>2. G[1] = ss[1]
          BY <1>4, <1>10, <5>1, Zenon
        <5>3. L[1] = ss[1]
          BY <3>4, <3>5, <4>1
        <5> QED
          BY <4>1, <5>2, <5>3
      <4>2. CASE i # 1
        <5>1. i - 1 \in 1 .. k
          BY <1>1, <4>2
        <5>2. L[i - 1] = K[i - 1]
          BY <3>5, <5>1, Zenon
        <5>3. L[i] = K[i - 1] \o ss[i]
          BY <3>4, <3>5, <4>2, Zenon
        <5> QED
          BY <1>11, <3>6, <5>2, <5>3, Zenon
      <4> QED
        BY <4>1, <4>2
    <3>7. SameSteps(L, G, k)
      BY <1>10, <3>5, <3>6, Zenon DEF SameSteps
    <3>8. \A i \in 0 .. k : L[i] = G[i]
      BY <1>1, <3>7, SameRecursion
    <3>9. k \in 0 .. k /\ k \in 1 .. k
      BY <1>1, <2>2
    <3> QED
      BY <3>3, <3>5, <3>8, <3>9, Zenon
  <2> QED
    BY <2>1, <2>2
<1> QED
  BY <1>10, <1>12, <1>13, Zenon DEF T, k

LEMMA FlattenType ==
  ASSUME NEW S, NEW ss \in Seq(Seq(S))
  PROVE  FlattenSeq(ss) \in Seq(S)
<1>1. PICK G : /\ FlatSteps(G, ss)
               /\ G \in [0 .. Len(ss) -> Seq(S)]
               /\ FlattenSeq(ss) = G[Len(ss)]
  BY FlattenSolves
<1>2. Len(ss) \in 0 .. Len(ss)
  OBVIOUS
<1>3. G[Len(ss)] \in Seq(S)
  BY <1>1, <1>2
<1> QED
  BY <1>1, <1>3, Zenon

LEMMA FlattenAppend ==
  ASSUME NEW S, NEW ss \in Seq(Seq(S)), NEW s \in Seq(S)
  PROVE  FlattenSeq(Append(ss, s)) = FlattenSeq(ss) \o s
<1> DEFINE T == Seq(S)
           u == Append(ss, s)
           k == Len(ss)
<1>1. u \in Seq(T) /\ Len(u) = k + 1 /\ k \in Nat /\ u[k + 1] = s
  <2>1. ss \in Seq(T) /\ s \in T
    OBVIOUS
  <2> HIDE DEF T
  <2> QED
    BY <2>1
<1>2. \A n \in 1 .. k : u[n] = ss[n] /\ n \in 1 .. k + 1
  <2>1. ss \in Seq(T)
    OBVIOUS
  <2> HIDE DEF T
  <2> QED
    BY <2>1
<1>3. k + 1 \in 1 .. k + 1 /\ (k + 1) - 1 = k
  BY <1>1
<1>4. PICK G : FlatSteps(G, ss) /\ FlattenSeq(ss) = G[Len(ss)]
  BY FlattenSolves
<1> HIDE DEF u
<1>5. PICK H : FlatSteps(H, u) /\ FlattenSeq(u) = H[Len(u)]
  BY <1>1, FlattenSolves
<1>6. FlattenSeq(ss) = G[k]
  BY <1>4
<1> HIDE DEF k
<1>7. H[0] = << >> /\ \A n \in 1 .. k + 1 : H[n] = H[n - 1] \o u[n]
  BY <1>1, <1>5, Zenon DEF FlatSteps
<1>8. G[0] = << >> /\ \A n \in 1 .. k : G[n] = G[n - 1] \o ss[n]
  BY <1>4, Zenon DEF FlatSteps, k
<1>9. SameSteps(H, G, k)
  BY <1>2, <1>7, <1>8, Zenon DEF SameSteps
<1>10. \A n \in 0 .. k : H[n] = G[n]
  BY <1>1, <1>9, SameRecursion
<1>11. H[k] = G[k]
  BY <1>1, <1>10
<1>12. H[k + 1] = H[k] \o s
  BY <1>1, <1>3, <1>7, Zenon
<1>13. FlattenSeq(u) = H[k + 1]
  BY <1>1, <1>5, Zenon
<1> QED
  BY <1>6, <1>11, <1>12, <1>13, Zenon DEF u

LEMMA FlattenNothing == FlattenSeq(<< >>) = << >>
<1>1. Len(<< >>) = 0
  OBVIOUS
<1> QED
  BY <1>1, Zenon DEF FlattenSeq

-----------------------------------------------------------------------------
(* The texts that are written. *)

Names == Range(Columns)
Cells == Values \cup Names

LEMMA Parameters ==
  /\ Columns \in Seq(Names)
  /\ Empty \in Values
  /\ Garbled \notin Cells
  /\ MaxFlushes \in Nat
  /\ Batches \subseteq Seq(RowSpace)
  /\ << >> \notin Batches
  BY CellAssumption, BatchAssumption DEF Cells, Names

LEMMA HeadingType ==
  ASSUME NEW names
  PROVE  Heading(names) \in Seq(Names)
<1>1. Columns \in Seq(Names)
  BY Parameters
<1> QED
  BY <1>1, KeptType, Zenon DEF Heading

LEMMA TokenFacts ==
  /\ Comma \in Tokens /\ Newline \in Tokens /\ Comma # Newline
  /\ \A v \in Cells, i \in {1, 2} :
       <<v, i>> \in Tokens /\ <<v, i>> # Comma /\ <<v, i>> # Newline
<1>1. Comma \in Tokens /\ Newline \in Tokens
  BY Zenon DEF Tokens
<1>2. Comma # Newline
  BY DEF Comma, Newline
<1>3. ASSUME NEW v \in Cells, NEW i \in {1, 2}
      PROVE  <<v, i>> \in Tokens /\ <<v, i>> # Comma /\ <<v, i>> # Newline
  <2>1. <<v, i>> \in Tokens
    BY DEF Tokens, Cells, Names
  <2>2. <<v, i>>[2] = i /\ Comma[2] = 0 /\ Newline[2] = 0 /\ i # 0
    BY DEF Comma, Newline
  <2> QED
    BY <2>1, <2>2, Zenon
<1> QED
  BY <1>1, <1>2, <1>3

LEMMA CellTextType ==
  ASSUME NEW v \in Cells
  PROVE  CellText(v) \in Seq(Tokens)
<1>1. <<v, 1>> \in Tokens /\ <<v, 2>> \in Tokens
  BY TokenFacts
<1>2. << >> \in Seq(Tokens) /\ <<<<v, 1>>, <<v, 2>>>> \in Seq(Tokens)
  BY <1>1
<1> QED
  BY <1>2, Zenon DEF CellText

(* A cell as write_record writes it, before another cell or at the end. *)
Inner(v) == CellText(v) \o <<Comma>>
Outer(v) == CellText(v) \o <<Newline>>

LEMMA ClosedTypes ==
  ASSUME NEW v \in Cells
  PROVE  Inner(v) \in Seq(Tokens) /\ Outer(v) \in Seq(Tokens)
<1>1. \A s \in Seq(Tokens), x \in Tokens : s \o <<x>> \in Seq(Tokens)
  OBVIOUS
<1> QED
  BY <1>1, CellTextType, TokenFacts, Zenon DEF Inner, Outer

(* The cells of a record but the last, each with its comma. *)
Fields(cells) == FlattenSeq([i \in DOMAIN cells |-> Inner(cells[i])])

LEMMA FieldsType ==
  ASSUME NEW cells \in Seq(Cells)
  PROVE  /\ [i \in DOMAIN cells |-> Inner(cells[i])] \in Seq(Seq(Tokens))
         /\ Fields(cells) \in Seq(Tokens)
<1> DEFINE T == Seq(Tokens)
           f == [i \in DOMAIN cells |-> Inner(cells[i])]
<1>1. \A i \in DOMAIN cells : Inner(cells[i]) \in T
  <2>1. \A i \in DOMAIN cells : cells[i] \in Cells
    OBVIOUS
  <2> QED
    BY <2>1, ClosedTypes, Zenon
<1>2. DOMAIN cells = 1 .. Len(cells) /\ Len(cells) \in Nat
  OBVIOUS
<1>3. f \in Seq(T)
  <2> HIDE DEF T
  <2> QED
    BY <1>1, <1>2
<1>4. FlattenSeq(f) \in Seq(Tokens)
  <2> HIDE DEF f
  <2> QED
    BY <1>3, FlattenType
<1> QED
  BY <1>3, <1>4 DEF Fields

LEMMA FieldsAppend ==
  ASSUME NEW cells \in Seq(Cells), NEW v \in Cells
  PROVE  Fields(Append(cells, v)) = Fields(cells) \o Inner(v)
<1> DEFINE more == Append(cells, v)
           f == [i \in DOMAIN cells |-> Inner(cells[i])]
           g == [i \in DOMAIN more |-> Inner(more[i])]
           T == Seq(Tokens)
<1>1. f \in Seq(T) /\ Inner(v) \in T
  BY FieldsType, ClosedTypes
<1>2. g = Append(f, Inner(v))
  <2> DEFINE k == Len(cells)
  <2>1. DOMAIN cells = 1 .. k /\ DOMAIN more = 1 .. k + 1 /\ k \in Nat
    OBVIOUS
  <2>2. Len(f) = k
    BY <2>1
  <2>3. \A i \in 1 .. k : more[i] = cells[i]
    OBVIOUS
  <2>4. more[k + 1] = v
    OBVIOUS
  <2> HIDE DEF more
  <2>5. \A i \in 1 .. k : f[i] = Inner(cells[i])
    BY <2>1
  <2>6. \A i \in 1 .. k + 1 : g[i] = Inner(more[i])
    BY <2>1
  <2>7. DOMAIN g = 1 .. k + 1 /\ g = [i \in DOMAIN g |-> g[i]]
    BY <2>1
  <2> HIDE DEF f, g, T, k
  <2>8. ASSUME NEW i \in 1 .. k + 1 PROVE g[i] = Append(f, Inner(v))[i]
    <3>1. CASE i = k + 1
      <4>1. Append(f, Inner(v))[k + 1] = Inner(v)
        BY <1>1, <2>2
      <4>2. g[k + 1] = Inner(v)
        BY <2>4, <2>6, <3>1, Zenon
      <4> QED
        BY <3>1, <4>1, <4>2
    <3>2. CASE i \in 1 .. k
      <4>1. Append(f, Inner(v))[i] = f[i]
        BY <1>1, <2>2, <3>2
      <4>2. g[i] = Inner(more[i])
        BY <2>6, Zenon
      <4> QED
        BY <2>3, <2>5, <3>2, <4>1, <4>2, Zenon
    <3>3. k \in Nat
      BY <2>1, Zenon
    <3>4. i = k + 1 \/ i \in 1 .. k
      BY <3>3
    <3> QED
      BY <3>1, <3>2, <3>4, Zenon
  <2>9. DOMAIN Append(f, Inner(v)) = 1 .. k + 1
    BY <1>1, <2>1, <2>2
  <2>10. Append(f, Inner(v)) = [i \in 1 .. k + 1 |-> Append(f, Inner(v))[i]]
    <3> DEFINE w == Append(f, Inner(v))
    <3>1. w \in Seq(T)
      BY <1>1
    <3>2. DOMAIN w = 1 .. k + 1
      BY <2>9
    <3> HIDE DEF w
    <3>3. w = [i \in 1 .. k + 1 |-> w[i]]
      BY <3>1, <3>2
    <3> QED
      BY <3>3 DEF w
  <2> QED
    BY <2>7, <2>8, <2>10
<1> HIDE DEF f, g, more
<1>3. FlattenSeq(g) = FlattenSeq(f) \o Inner(v)
  BY <1>1, <1>2, FlattenAppend
<1> QED
  BY <1>3, Zenon DEF Fields, f, g, more

LEMMA FieldsNothing == Fields(<< >>) = << >>
<1>1. [i \in DOMAIN << >> |-> Inner(<< >>[i])] = << >>
  OBVIOUS
<1> QED
  BY <1>1, FlattenNothing, Zenon DEF Fields

(* A record is its cells with a comma, then the last with a newline. *)
LEMMA RecordText ==
  ASSUME NEW cells \in Seq(Cells), NEW v \in Cells
  PROVE  write_record(Append(cells, v)) = Fields(cells) \o Outer(v)
<1> DEFINE more == Append(cells, v)
           f == [i \in DOMAIN cells |-> Inner(cells[i])]
           End(i) == IF i < Len(more) THEN <<Comma>> ELSE <<Newline>>
           g == [i \in DOMAIN more |-> CellText(more[i]) \o End(i)]
           k == Len(cells)
           T == Seq(Tokens)
<1>1. f \in Seq(T) /\ Outer(v) \in T
  BY FieldsType, ClosedTypes
<1>2. DOMAIN cells = 1 .. k /\ DOMAIN more = 1 .. k + 1 /\ k \in Nat /\ Len(more) = k + 1
  OBVIOUS
<1>3. \A i \in 1 .. k : more[i] = cells[i]
  OBVIOUS
<1>4. more[k + 1] = v
  OBVIOUS
<1>5. Len(f) = k
  BY <1>2
<1>6. \A i \in 1 .. k : End(i) = <<Comma>>
  BY <1>2
<1>7. End(k + 1) = <<Newline>>
  BY <1>2
<1>8. write_record(more) = FlattenSeq(g)
  BY Zenon DEF write_record
<1> HIDE DEF more, End
<1>9. \A i \in 1 .. k : f[i] = Inner(cells[i])
  BY <1>2
<1>10. \A i \in 1 .. k + 1 : g[i] = CellText(more[i]) \o End(i)
  BY <1>2
<1>11. DOMAIN g = 1 .. k + 1 /\ g = [i \in DOMAIN g |-> g[i]]
  BY <1>2
<1> HIDE DEF f, g, T, k
<1> DEFINE w == Append(f, Outer(v))
<1>12. w \in Seq(T) /\ DOMAIN w = 1 .. k + 1
  BY <1>1, <1>2, <1>5
<1>13. w[k + 1] = Outer(v) /\ \A i \in 1 .. k : w[i] = f[i]
  BY <1>1, <1>2, <1>5
<1> HIDE DEF w
<1>14. ASSUME NEW i \in 1 .. k + 1 PROVE g[i] = w[i]
  <2>1. CASE i = k + 1
    BY <1>4, <1>7, <1>10, <1>13, <2>1, Zenon DEF Outer
  <2>2. CASE i \in 1 .. k
    BY <1>3, <1>6, <1>9, <1>10, <1>13, <2>2, Zenon DEF Inner
  <2>3. k \in Nat
    BY <1>2, Zenon
  <2>4. i = k + 1 \/ i \in 1 .. k
    BY <2>3
  <2> QED
    BY <2>1, <2>2, <2>4, Zenon
<1>15. w = [i \in 1 .. k + 1 |-> w[i]]
  BY <1>12
<1>16. g = w
  BY <1>11, <1>14, <1>15
<1>17. FlattenSeq(w) = FlattenSeq(f) \o Outer(v)
  BY <1>1, FlattenAppend DEF w, T
<1>18. FlattenSeq(f) = Fields(cells)
  BY Zenon DEF Fields, f
<1> QED
  BY <1>8, <1>16, <1>17, <1>18, Zenon DEF more

LEMMA RecordTextType ==
  ASSUME NEW cells \in Seq(Cells)
  PROVE  write_record(cells) \in Seq(Tokens)
<1>1. CASE cells = << >>
  <2>1. write_record(cells) = << >>
    <3>1. [i \in DOMAIN << >> |-> CellText(<< >>[i]) \o
             (IF i < Len(<< >>) THEN <<Comma>> ELSE <<Newline>>)] = << >>
      OBVIOUS
    <3> QED
      BY <1>1, <3>1, FlattenNothing, Zenon DEF write_record
  <2> QED
    BY <2>1
<1>2. CASE cells # << >>
  <2>1. PICK c \in Seq(Cells), v \in Cells : cells = Append(c, v)
    <3> DEFINE c == SubSeq(cells, 1, Len(cells) - 1)
               v == cells[Len(cells)]
    <3>1. c \in Seq(Cells) /\ v \in Cells /\ cells = Append(c, v)
      BY <1>2
    <3> QED
      BY <3>1
  <2>2. write_record(cells) = Fields(c) \o Outer(v)
    BY <2>1, RecordText
  <2>3. Fields(c) \in Seq(Tokens) /\ Outer(v) \in Seq(Tokens)
    BY FieldsType, ClosedTypes
  <2> QED
    BY <2>2, <2>3
<1> QED
  BY <1>1, <1>2

(* The cells of a row under a header. *)
LEMMA ValuesType ==
  ASSUME NEW row \in RowSpace, NEW hs \in Seq(Names)
  PROVE  /\ values(row, hs) \in Seq(Cells)
         /\ Len(values(row, hs)) = Len(hs)
<1> DEFINE f == [i \in DOMAIN hs |-> IF hs[i] \in DOMAIN row THEN row[hs[i]] ELSE Empty]
<1>1. \A c \in DOMAIN row : row[c] \in Values
  BY DEF RowSpace
<1>2. Empty \in Values
  BY Parameters
<1>3. \A i \in DOMAIN hs : f[i] \in Values
  BY <1>1, <1>2
<1>4. DOMAIN hs = 1 .. Len(hs) /\ Len(hs) \in Nat
  OBVIOUS
<1>5. f = [i \in 1 .. Len(hs) |-> f[i]]
  BY <1>4
<1>6. values(row, hs) = f
  BY Zenon DEF values
<1> HIDE DEF f
<1>7. \A i \in 1 .. Len(hs) : f[i] \in Cells
  BY <1>3, <1>4 DEF Cells
<1>8. f \in Seq(Cells) /\ Len(f) = Len(hs)
  BY <1>4, <1>5, <1>7
<1> QED
  BY <1>6, <1>8, Zenon

(* The rows of a batch as text. *)
RowsText(batch, hs) ==
  FlattenSeq([i \in DOMAIN batch |-> write_record(values(batch[i], hs))])

LEMMA RowsTextType ==
  ASSUME NEW batch \in Seq(RowSpace), NEW hs \in Seq(Names)
  PROVE  /\ [i \in DOMAIN batch |-> write_record(values(batch[i], hs))] \in Seq(Seq(Tokens))
         /\ RowsText(batch, hs) \in Seq(Tokens)
<1> DEFINE T == Seq(Tokens)
           Line(row) == write_record(values(row, hs))
           f == [i \in DOMAIN batch |-> Line(batch[i])]
<1>1. \A i \in DOMAIN batch : Line(batch[i]) \in T
  <2>1. \A i \in DOMAIN batch : batch[i] \in RowSpace
    OBVIOUS
  <2> QED
    BY <2>1, ValuesType, RecordTextType, Zenon
<1>2. DOMAIN batch = 1 .. Len(batch) /\ Len(batch) \in Nat
  OBVIOUS
<1>3. f \in Seq(T)
  <2> HIDE DEF T, Line
  <2> QED
    BY <1>1, <1>2
<1>4. FlattenSeq(f) \in Seq(Tokens)
  <2> HIDE DEF f
  <2> QED
    BY <1>3, FlattenType
<1> QED
  BY <1>3, <1>4, Zenon DEF RowsText

LEMMA HeadersType ==
  ASSUME NEW batch \in Seq(RowSpace), batch # << >>
  PROVE  headers(batch) \in Headers /\ headers(batch) \in Seq(Names)
<1>1. Head(batch) \in RowSpace
  OBVIOUS
<1>2. DOMAIN Head(batch) \in SUBSET Range(Columns)
  BY <1>1 DEF RowSpace
<1> QED
  BY <1>2, HeadingType, Zenon DEF headers, Headers

LEMMA HeadersAreNames == Headers \subseteq Seq(Names)
  BY HeadingType, Zenon DEF Headers

LEMMA BatchTextType ==
  ASSUME NEW batch \in Seq(RowSpace), batch # << >>
  PROVE  BatchText(batch) \in Seq(Tokens)
<1>1. headers(batch) \in Seq(Names)
  BY HeadersType
<1>2. RowsText(batch, headers(batch)) \in Seq(Tokens)
  BY <1>1, RowsTextType
<1>3. headers(batch) \in Seq(Cells)
  BY <1>1 DEF Cells
<1>4. write_record(headers(batch)) \in Seq(Tokens)
  BY <1>3, RecordTextType
<1>5. HeaderText(batch) \in Seq(Tokens)
  <2>1. << >> \in Seq(Tokens)
    OBVIOUS
  <2> QED
    BY <1>4, <2>1, Zenon DEF HeaderText
<1>6. BatchText(batch) = HeaderText(batch) \o RowsText(batch, headers(batch))
  BY Zenon DEF BatchText, RowsText
<1> QED
  BY <1>2, <1>5, <1>6

-----------------------------------------------------------------------------
(* Types. *)

(* Only a flush that was started can be cut. *)
TypeInv ==
  /\ TypeOK
  /\ mode = "write_data_csv" => cuts < flushes

(* What is written of a batch. *)
Entered(batch) == [i \in DOMAIN batch |-> [row |-> batch[i], hs |-> headers(batch)]]

LEMMA EnteredType ==
  ASSUME NEW batch \in Seq(RowSpace)
  PROVE  Entered(batch) \in Seq(Entries) /\ Len(Entered(batch)) = Len(batch)
<1> DEFINE E(i) == [row |-> batch[i], hs |-> headers(batch)]
           f == [i \in DOMAIN batch |-> E(i)]
<1>1. ASSUME NEW i \in DOMAIN batch PROVE E(i) \in Entries
  <2>1. batch # << >> /\ batch[i] \in RowSpace
    OBVIOUS
  <2>2. headers(batch) \in Headers
    BY <2>1, HeadersType
  <2> QED
    BY <2>1, <2>2 DEF Entries
<1>2. DOMAIN batch = 1 .. Len(batch) /\ Len(batch) \in Nat
  OBVIOUS
<1>3. f \in Seq(Entries) /\ Len(f) = Len(batch)
  <2> HIDE DEF E
  <2> QED
    BY <1>1, <1>2
<1> QED
  BY <1>3, Zenon DEF Entered

LEMMA TypesInit == Init => TypeInv
<1> SUFFICES ASSUME Init PROVE TypeInv
  OBVIOUS
<1> USE DEF Init
<1>1. \A S : << >> \in Seq(S)
  OBVIOUS
<1>2. << >> \in Headers
  <2>1. Heading({}) = << >>
    <3> DEFINE Ps == {i \in DOMAIN Columns : Columns[i] \in {}}
               Good == {s \in Seq(Names) : Kept(s, {}) = << >>}
    <3>1. Ps = {}
      OBVIOUS
    <3>2. << >> \in Good
      BY <1>1, KeptNothing
    <3>3. ASSUME NEW s \in Seq(Names), NEW x \in Names, s \in Good
          PROVE  Append(s, x) \in Good
      <4>1. Append(s, x) \in Seq(Names)
        OBVIOUS
      <4>2. SamePositions({}, {}, Len(s))
        BY DEF SamePositions
      <4>3. Kept(Append(s, x), {}) = Kept(s, {})
        BY <4>2, KeptAppend
      <4> QED
        BY <3>3, <4>1, <4>3
    <3> HIDE DEF Good
    <3>4. Seq(Names) \subseteq Good
      BY <3>2, <3>3, SeqInduction
    <3>5. Kept(Columns, {}) = << >>
      BY <3>4, Parameters DEF Good
    <3> QED
      BY <3>1, <3>5, Zenon DEF Heading
  <2>2. {} \in SUBSET Range(Columns)
    OBVIOUS
  <2> QED
    BY <2>1, <2>2, Zenon DEF Headers
<1>3. MaxFlushes \in Nat
  BY Parameters
<1>4. 0 \in 0 .. 0 /\ 0 \in 0 .. MaxFlushes
  BY <1>3
<1> QED
  BY <1>1, <1>2, <1>4, Zenon DEF TypeInv, TypeOK

LEMMA StartFlushTypes ==
  ASSUME TypeInv, NEW batch \in Seq(RowSpace), batch # << >>, StartFlush(batch),
         logged' \in Seq(RowSpace)
  PROVE  TypeInv'
<1> USE DEF TypeInv, TypeOK, StartFlush
<1>1. buffer' \in Seq(Tokens) /\ header' \in Headers
  BY BatchTextType, HeadersType
<1>2. flushes' \in 0 .. MaxFlushes /\ cuts' \in 0 .. flushes' /\ cuts' < flushes'
  BY Parameters
<1>3. /\ exists' \in BOOLEAN /\ text' \in Seq(Tokens) /\ rows' \in Seq(RowSpace)
      /\ written' \in Seq(Entries) /\ mode' = "write_data_csv"
  OBVIOUS
<1> QED
  BY <1>1, <1>2, <1>3

LEMMA TypesStep ==
  ASSUME TypeInv, [Next]_vars
  PROVE  TypeInv'
<1> USE DEF TypeInv, TypeOK
<1>1. ASSUME NEW batch \in Batches, Flush(batch) PROVE TypeInv'
  <2>1. batch \in Seq(RowSpace) /\ batch # << >>
    BY Parameters
  <2>2. logged' \in Seq(RowSpace)
    BY <1>1, <2>1 DEF Flush
  <2> QED
    BY <1>1, <2>1, <2>2, StartFlushTypes DEF Flush
<1>2. CASE Replay
  <2>1. CASE logged # << >> /\ StartFlush(logged)
    BY <1>2, <2>1, StartFlushTypes DEF Replay
  <2>2. CASE logged = << >> /\ mode' = "idle" /\
             UNCHANGED <<exists, text, rows, buffer, written, header, cuts, flushes>>
    BY <1>2, <2>2 DEF Replay
  <2> QED
    BY <1>2, <2>1, <2>2 DEF Replay
<1>3. ASSUME NEW n \in 1 .. Len(buffer), Spill(n) PROVE TypeInv'
  <2>1. SubSeq(buffer, 1, n) \in Seq(Tokens) /\ SubSeq(buffer, n + 1, Len(buffer)) \in Seq(Tokens)
    OBVIOUS
  <2>2. text' \in Seq(Tokens) /\ buffer' \in Seq(Tokens)
    BY <1>3, <2>1 DEF Spill
  <2> QED
    BY <1>3, <2>2 DEF Spill
<1>4. CASE FinishFlush
  <2>1. written' = written \o Entered(rows)
    BY <1>4, Zenon DEF FinishFlush, Entered
  <2>2. written' \in Seq(Entries)
    BY <2>1, EnteredType
  <2> QED
    BY <1>4, <2>2 DEF FinishFlush
<1>5. CASE DropLog
  BY <1>5 DEF DropLog
<1>6. CASE Interrupt
  <2>1. cuts' \in 0 .. flushes'
    BY <1>6 DEF Interrupt
  <2> QED
    BY <1>6, <2>1 DEF Interrupt
<1>7. CASE UNCHANGED vars
  BY <1>7 DEF vars
<1> QED
  BY <1>1, <1>2, <1>3, <1>4, <1>5, <1>6, <1>7 DEF Next

(* Every reachable state has the types of the file, the log and the flush  *)
(* in progress, for any columns, cells and batches.                        *)
THEOREM CsvTypes == Spec => []TypeOK
<1>1. TypeInv => TypeOK
  BY DEF TypeInv
<1> QED
  BY <1>1, TypesInit, TypesStep, PTL DEF Spec

-----------------------------------------------------------------------------
(* Records, as the text grows by a token. *)

RecordSpace == {RecordOf(line) : line \in Seq(Tokens)}

LEMMA RecordsNothing == RecordsOf(<< >>) = << >>
<1> DEFINE full == Kept(<< >>, {i \in DOMAIN << >> : << >>[i] # << >>})
<1>1. full = << >>
  BY KeptNothing
<1>2. [i \in DOMAIN << >> |-> RecordOf(<< >>[i])] = << >>
  OBVIOUS
<1>3. RecordsOf(<< >>) = [i \in DOMAIN full |-> RecordOf(full[i])]
  BY Zenon DEF RecordsOf
<1> HIDE DEF full
<1> QED
  BY <1>1, <1>2, <1>3, Zenon

LEMMA RecordsType ==
  ASSUME NEW lines \in Seq(Seq(Tokens))
  PROVE  RecordsOf(lines) \in Seq(RecordSpace)
<1> DEFINE T == Seq(Tokens)
           full == Kept(lines, {i \in DOMAIN lines : lines[i] # << >>})
           f == [i \in DOMAIN full |-> RecordOf(full[i])]
<1>1. full \in Seq(T)
  <2>1. lines \in Seq(T)
    OBVIOUS
  <2> HIDE DEF T
  <2> QED
    BY <2>1, KeptType, Zenon
<1> HIDE DEF full, T
<1>2. DOMAIN full = 1 .. Len(full) /\ Len(full) \in Nat /\ \A i \in DOMAIN full : full[i] \in T
  BY <1>1
<1>3. \A i \in DOMAIN full : RecordOf(full[i]) \in RecordSpace
  BY <1>2, Zenon DEF RecordSpace, T
<1>4. f \in Seq(RecordSpace)
  BY <1>2, <1>3
<1> QED
  BY <1>4, Zenon DEF RecordsOf, full

(* A blank line gives no record, another line gives its own. *)
LEMMA RecordsAppend ==
  ASSUME NEW lines \in Seq(Seq(Tokens)), NEW line \in Seq(Tokens)
  PROVE  /\ line = << >> => RecordsOf(Append(lines, line)) = RecordsOf(lines)
         /\ line # << >> =>
              RecordsOf(Append(lines, line)) = Append(RecordsOf(lines), RecordOf(line))
<1> DEFINE T == Seq(Tokens)
           more == Append(lines, line)
           P == {i \in DOMAIN lines : lines[i] # << >>}
           Q == {i \in DOMAIN more : more[i] # << >>}
           a == Kept(lines, P)
           b == Kept(more, Q)
           k == Len(lines)
<1>1. lines \in Seq(T) /\ line \in T
  OBVIOUS
<1> HIDE DEF T
<1>2. DOMAIN lines = 1 .. k /\ DOMAIN more = 1 .. k + 1 /\ k \in Nat
  BY <1>1
<1>3. more[k + 1] = line /\ \A i \in 1 .. k : more[i] = lines[i]
  BY <1>1
<1> HIDE DEF more
<1>4. SamePositions(P, Q, k)
  BY <1>2, <1>3 DEF SamePositions
<1>5. k + 1 \in Q <=> line # << >>
  BY <1>2, <1>3
<1>6. RecordsOf(lines) = [i \in DOMAIN a |-> RecordOf(a[i])]
  BY Zenon DEF RecordsOf
<1>7. RecordsOf(more) = [i \in DOMAIN b |-> RecordOf(b[i])]
  BY Zenon DEF RecordsOf
<1> HIDE DEF P, Q
<1>8. a \in Seq(T)
  BY <1>1, KeptType, Zenon
<1>9. /\ k + 1 \in Q => b = Append(a, line)
      /\ k + 1 \notin Q => b = a
  <2>1. /\ Len(lines) + 1 \in Q => Kept(Append(lines, line), Q) = Append(Kept(lines, P), line)
        /\ Len(lines) + 1 \notin Q => Kept(Append(lines, line), Q) = Kept(lines, P)
    <3>1. SamePositions(P, Q, Len(lines))
      BY <1>4
    <3> QED
      BY <1>1, <3>1, KeptAppend
  <2> QED
    BY <2>1, Zenon DEF more
<1> HIDE DEF a, b, k
<1>10. ASSUME line = << >> PROVE RecordsOf(more) = RecordsOf(lines)
  BY <1>5, <1>6, <1>7, <1>9, <1>10, Zenon
<1>11. ASSUME line # << >> PROVE RecordsOf(more) = Append(RecordsOf(lines), RecordOf(line))
  <2>1. b = Append(a, line)
    BY <1>5, <1>9, <1>11, Zenon
  <2> DEFINE m == Len(a)
             R(l) == RecordOf(l)
             f == [i \in DOMAIN a |-> R(a[i])]
             g == [i \in DOMAIN b |-> R(b[i])]
             w == Append(f, R(line))
  <2>2. DOMAIN a = 1 .. m /\ DOMAIN b = 1 .. m + 1 /\ m \in Nat
    BY <1>1, <1>8, <2>1
  <2>3. b[m + 1] = line /\ \A i \in 1 .. m : b[i] = a[i]
    BY <1>1, <1>8, <2>1
  <2> HIDE DEF R
  <2>4. f \in Seq({R(l) : l \in T}) /\ Len(f) = m
    <3>1. \A i \in 1 .. m : a[i] \in T
      BY <1>8
    <3> HIDE DEF m
    <3> QED
      BY <2>2, <3>1
  <2>5. \A i \in 1 .. m : f[i] = R(a[i])
    BY <2>2
  <2>6. \A i \in 1 .. m + 1 : g[i] = R(b[i])
    BY <2>2
  <2>7. g = [i \in 1 .. m + 1 |-> g[i]]
    BY <2>2
  <2> HIDE DEF f, g
  <2>8. w \in Seq({R(l) : l \in T}) /\ DOMAIN w = 1 .. m + 1
    BY <1>1, <2>2, <2>4
  <2>9. w[m + 1] = R(line) /\ \A i \in 1 .. m : w[i] = f[i]
    BY <1>1, <2>2, <2>4
  <2> HIDE DEF w
  <2>10. w = [i \in 1 .. m + 1 |-> w[i]]
    BY <2>8
  <2> HIDE DEF m
  <2>11. ASSUME NEW i \in 1 .. m + 1 PROVE g[i] = w[i]
    <3>1. CASE i = m + 1
      BY <2>3, <2>6, <2>9, <3>1, Zenon
    <3>2. CASE i \in 1 .. m
      <4>1. g[i] = R(b[i])
        BY <2>6, Zenon
      <4> QED
        BY <2>3, <2>5, <2>9, <3>2, <4>1, Zenon
    <3>3. m \in Nat
      BY <2>2, Zenon
    <3>4. i = m + 1 \/ i \in 1 .. m
      BY <3>3
    <3> QED
      BY <3>1, <3>2, <3>4, Zenon
  <2>12. g = w
    BY <2>7, <2>10, <2>11
  <2>13. RecordsOf(lines) = f /\ RecordsOf(more) = g
    BY <1>6, <1>7, Zenon DEF f, g, R
  <2> QED
    BY <2>12, <2>13, Zenon DEF w, R
<1> QED
  BY <1>10, <1>11, Zenon DEF more

(* The line that has no newline yet. *)
Rest(t) == Last(Split(t, Newline))

LEMMA LineTypes ==
  ASSUME NEW t \in Seq(Tokens)
  PROVE  /\ Split(t, Newline) \in Pieces(Tokens)
         /\ Front(Split(t, Newline)) \in Seq(Seq(Tokens))
         /\ Rest(t) \in Seq(Tokens)
         /\ Split(t, Newline) = Append(Front(Split(t, Newline)), Rest(t))
         /\ CompleteRecords(t) \in Seq(RecordSpace)
         /\ Records(t) \in Seq(RecordSpace)
<1> DEFINE p == Split(t, Newline)
<1>1. p \in Pieces(Tokens)
  BY SplitType
<1>2. Newline \in Tokens
  BY TokenFacts
<1> HIDE DEF p
<1>3. Front(p) \in Seq(Seq(Tokens)) /\ Last(p) \in Seq(Tokens) /\ p = Append(Front(p), Last(p))
  BY <1>1, <1>2, PieceTypes, Zenon
<1>4. p \in Seq(Seq(Tokens))
  BY <1>1, Zenon DEF Pieces
<1> QED
  BY <1>1, <1>3, <1>4, RecordsType, Zenon DEF p, Rest, CompleteRecords, Records

LEMMA NoText ==
  /\ CompleteRecords(<< >>) = << >>
  /\ Rest(<< >>) = << >>
<1> DEFINE p == << << >> >>
<1>1. Split(<< >>, Newline) = p
  BY SplitNothing
<1>2. Front(p) = << >> /\ Last(p) = << >>
  BY DEF Front, Last
<1> QED
  BY <1>1, <1>2, RecordsNothing, Zenon DEF CompleteRecords, Rest

(* At the end of the file the last line counts without its newline. *)
LEMMA RecordsAtEnd ==
  ASSUME NEW t \in Seq(Tokens)
  PROVE  /\ Rest(t) = << >> => Records(t) = CompleteRecords(t)
         /\ Rest(t) # << >> => Records(t) = Append(CompleteRecords(t), RecordOf(Rest(t)))
<1> DEFINE a == Front(Split(t, Newline))
           b == Rest(t)
<1>1. a \in Seq(Seq(Tokens)) /\ b \in Seq(Tokens)
  BY LineTypes
<1>2. Records(t) = RecordsOf(Append(a, b))
  BY LineTypes, Zenon DEF Records
<1>3. CompleteRecords(t) = RecordsOf(a)
  BY Zenon DEF CompleteRecords
<1> HIDE DEF a, b
<1>4. /\ b = << >> => RecordsOf(Append(a, b)) = RecordsOf(a)
      /\ b # << >> => RecordsOf(Append(a, b)) = Append(RecordsOf(a), RecordOf(b))
  BY <1>1, RecordsAppend
<1> QED
  BY <1>2, <1>3, <1>4, Zenon DEF b

LEMMA AfterNewline ==
  ASSUME NEW t \in Seq(Tokens)
  PROVE  /\ CompleteRecords(Append(t, Newline)) = Records(t)
         /\ Rest(Append(t, Newline)) = << >>
<1> DEFINE p == Split(t, Newline)
           q == Append(p, << >>)
<1>1. Split(Append(t, Newline), Newline) = q
  BY TokenFacts, SplitAppend
<1>2. p \in Seq(Seq(Tokens))
  BY LineTypes, Zenon DEF Pieces
<1> DEFINE T == Seq(Tokens)
<1>3. p \in Seq(T) /\ << >> \in T
  BY <1>2
<1> HIDE DEF p, T
<1>4. Front(q) = p /\ Last(q) = << >>
  BY <1>3 DEF Front, Last
<1> QED
  BY <1>1, <1>4, Zenon DEF CompleteRecords, Records, Rest, p

LEMMA AfterToken ==
  ASSUME NEW t \in Seq(Tokens), NEW x \in Tokens, x # Newline
  PROVE  /\ CompleteRecords(Append(t, x)) = CompleteRecords(t)
         /\ Rest(Append(t, x)) = Append(Rest(t), x)
<1> DEFINE p == Split(t, Newline)
           T == Seq(Tokens)
<1>1. Split(Append(t, x), Newline) = Longer(p, x)
  BY SplitAppend
<1>2. Front(p) \in Seq(T) /\ Last(p) \in T
  BY LineTypes, Zenon DEF Rest
<1>3. Append(Last(p), x) \in T
  BY <1>2
<1> HIDE DEF p, T
<1>4. \A a \in Seq(T), b \in T : Front(Append(a, b)) = a /\ Last(Append(a, b)) = b
  BY DEF Front, Last
<1>5. Front(Longer(p, x)) = Front(p) /\ Last(Longer(p, x)) = Append(Last(p), x)
  BY <1>2, <1>3, <1>4, Zenon DEF Longer
<1> QED
  BY <1>1, <1>5, Zenon DEF CompleteRecords, Rest, p

-----------------------------------------------------------------------------
(* What is appended never changes what was read from complete records.     *)

LEMMA PrefixIff ==
  ASSUME NEW S, NEW s \in Seq(S), NEW t \in Seq(S)
  PROVE  IsPrefix(s, t) <=> Len(s) <= Len(t) /\ \A i \in 1 .. Len(s) : s[i] = t[i]
<1>1. ASSUME Len(s) <= Len(t)
      PROVE  SubSeq(s, 1, Len(s)) = SubSeq(t, 1, Len(s)) <=> \A i \in 1 .. Len(s) : s[i] = t[i]
  <2> DEFINE a == SubSeq(s, 1, Len(s))
             b == SubSeq(t, 1, Len(s))
             k == Len(s)
  <2>1. k \in Nat /\ a \in Seq(S) /\ b \in Seq(S) /\ DOMAIN a = 1 .. k /\ DOMAIN b = 1 .. k
    BY <1>1
  <2>2. \A i \in 1 .. k : a[i] = s[i] /\ b[i] = t[i]
    BY <1>1
  <2> HIDE DEF a, b, k
  <2>3. a = [i \in 1 .. k |-> a[i]] /\ b = [i \in 1 .. k |-> b[i]]
    BY <2>1
  <2>4. a = b <=> \A i \in 1 .. k : s[i] = t[i]
    BY <2>2, <2>3
  <2> QED
    BY <2>4 DEF a, b, k
<1> QED
  BY <1>1 DEF IsPrefix

LEMMA PrefixFacts ==
  ASSUME NEW S, NEW s \in Seq(S)
  PROVE  /\ IsPrefix(s, s)
         /\ \A x \in S : IsPrefix(s, Append(s, x))
         /\ \A t \in Seq(S), u \in Seq(S) : IsPrefix(s, t) /\ IsPrefix(t, u) => IsPrefix(s, u)
<1>1. IsPrefix(s, s)
  BY PrefixIff
<1>2. ASSUME NEW x \in S PROVE IsPrefix(s, Append(s, x))
  <2>1. Append(s, x) \in Seq(S) /\ Len(s) <= Len(Append(s, x))
    OBVIOUS
  <2>2. \A i \in 1 .. Len(s) : s[i] = Append(s, x)[i]
    OBVIOUS
  <2> QED
    BY <2>1, <2>2, PrefixIff
<1>3. ASSUME NEW t \in Seq(S), NEW u \in Seq(S), IsPrefix(s, t), IsPrefix(t, u)
      PROVE  IsPrefix(s, u)
  <2>1. Len(s) <= Len(t) /\ \A i \in 1 .. Len(s) : s[i] = t[i]
    BY <1>3, PrefixIff
  <2>2. Len(t) <= Len(u) /\ \A i \in 1 .. Len(t) : t[i] = u[i]
    BY <1>3, PrefixIff
  <2>3. Len(s) \in Nat /\ Len(t) \in Nat /\ Len(u) \in Nat
    OBVIOUS
  <2>4. Len(s) <= Len(u) /\ \A i \in 1 .. Len(s) : s[i] = u[i]
    BY <2>1, <2>2, <2>3
  <2> QED
    BY <2>4, PrefixIff
<1> QED
  BY <1>1, <1>2, <1>3

LEMMA RecordsGrow ==
  ASSUME NEW t \in Seq(Tokens), NEW u \in Seq(Tokens)
  PROVE  IsPrefix(CompleteRecords(t), CompleteRecords(t \o u))
<1> DEFINE Good == {v \in Seq(Tokens) : IsPrefix(CompleteRecords(t), CompleteRecords(t \o v))}
<1>1. << >> \in Good
  <2>1. t \o << >> = t /\ << >> \in Seq(Tokens)
    OBVIOUS
  <2>2. IsPrefix(CompleteRecords(t), CompleteRecords(t))
    BY LineTypes, PrefixFacts
  <2> QED
    BY <2>1, <2>2
<1>2. ASSUME NEW v \in Seq(Tokens), NEW x \in Tokens, v \in Good
      PROVE  Append(v, x) \in Good
  <2> DEFINE w == t \o v
  <2>1. t \o Append(v, x) = Append(w, x) /\ w \in Seq(Tokens) /\ Append(v, x) \in Seq(Tokens)
    OBVIOUS
  <2>2. IsPrefix(CompleteRecords(t), CompleteRecords(w))
    BY <1>2
  <2> HIDE DEF w
  <2>3. Append(w, x) \in Seq(Tokens)
    BY <2>1
  <2>4. IsPrefix(CompleteRecords(w), CompleteRecords(Append(w, x)))
    <3> DEFINE c == CompleteRecords(w)
    <3>1. c \in Seq(RecordSpace) /\ Rest(w) \in Seq(Tokens)
      BY <2>1, LineTypes
    <3>2. RecordOf(Rest(w)) \in RecordSpace
      BY <3>1, Zenon DEF RecordSpace
    <3>3. IsPrefix(c, c) /\ IsPrefix(c, Append(c, RecordOf(Rest(w))))
      BY <3>1, <3>2, PrefixFacts
    <3>4. \/ CompleteRecords(Append(w, x)) = c
          \/ CompleteRecords(Append(w, x)) = Append(c, RecordOf(Rest(w)))
      BY <2>1, AfterNewline, AfterToken, RecordsAtEnd, Zenon
    <3> QED
      BY <3>3, <3>4, Zenon
  <2>5. IsPrefix(CompleteRecords(t), CompleteRecords(Append(w, x)))
    <3> DEFINE a == CompleteRecords(t)
               b == CompleteRecords(w)
               c == CompleteRecords(Append(w, x))
    <3>1. a \in Seq(RecordSpace) /\ b \in Seq(RecordSpace) /\ c \in Seq(RecordSpace)
      BY <2>1, <2>3, LineTypes
    <3>2. IsPrefix(a, b) /\ IsPrefix(b, c)
      BY <2>2, <2>4
    <3> HIDE DEF a, b, c
    <3>3. IsPrefix(a, c)
      BY <3>1, <3>2, PrefixFacts
    <3> QED
      BY <3>3 DEF a, c
  <2> HIDE DEF Good
  <2>6. IsPrefix(CompleteRecords(t), CompleteRecords(t \o Append(v, x)))
    BY <2>1, <2>5, Zenon
  <2> QED
    BY <2>1, <2>6 DEF Good
<1>3. Seq(Tokens) \subseteq Good
  <2> HIDE DEF Good
  <2> QED
    BY <1>1, <1>2, SeqInduction
<1> QED
  BY <1>3

(* Rows as they are read. *)
ReadSpace == {RecordRow(hs, cells) : hs \in RecordSpace, cells \in RecordSpace}

LEMMA RowsUnderFacts ==
  ASSUME NEW records \in Seq(RecordSpace)
  PROVE  /\ RowsUnder(records) \in Seq(ReadSpace)
         /\ records = << >> => RowsUnder(records) = << >>
         /\ records # << >> =>
              /\ Len(RowsUnder(records)) = Len(records) - 1
              /\ \A i \in 1 .. Len(records) - 1 :
                   RowsUnder(records)[i] = RecordRow(records[1], records[i + 1])
<1>1. CASE records = << >>
  <2>1. RowsUnder(records) = << >>
    BY <1>1, Zenon DEF RowsUnder
  <2>2. << >> \in Seq(ReadSpace)
    OBVIOUS
  <2> QED
    BY <1>1, <2>1, <2>2, Zenon
<1>2. CASE records # << >>
  <2> DEFINE k == Len(records) - 1
             R(i) == RecordRow(records[1], records[i + 1])
             f == [i \in 1 .. k |-> R(i)]
  <2>1. k \in Nat /\ records[1] \in RecordSpace /\ \A i \in 1 .. k : records[i + 1] \in RecordSpace
    BY <1>2
  <2>2. \A i \in 1 .. k : R(i) \in ReadSpace
    BY <2>1 DEF ReadSpace
  <2>3. f \in Seq(ReadSpace) /\ Len(f) = k /\ \A i \in 1 .. k : f[i] = R(i)
    <3> HIDE DEF R, k
    <3> QED
      BY <2>1, <2>2
  <2>4. RowsUnder(records) = f
    BY <1>2, Zenon DEF RowsUnder
  <2> HIDE DEF f
  <2> QED
    BY <1>2, <2>3, <2>4, Zenon
<1> QED
  BY <1>1, <1>2

LEMMA RowsGrow ==
  ASSUME NEW a \in Seq(RecordSpace), NEW b \in Seq(RecordSpace), IsPrefix(a, b)
  PROVE  IsPrefix(RowsUnder(a), RowsUnder(b))
<1>1. Len(a) <= Len(b) /\ \A i \in 1 .. Len(a) : a[i] = b[i]
  BY PrefixIff
<1>2. Len(a) \in Nat /\ Len(b) \in Nat
  OBVIOUS
<1>3. RowsUnder(a) \in Seq(ReadSpace) /\ RowsUnder(b) \in Seq(ReadSpace)
  BY RowsUnderFacts
<1>4. CASE a = << >>
  <2>1. RowsUnder(a) = << >>
    BY <1>4, RowsUnderFacts
  <2>2. Len(RowsUnder(a)) = 0
    BY <2>1
  <2>3. Len(RowsUnder(b)) \in Nat
    BY <1>3
  <2>4. Len(RowsUnder(a)) <= Len(RowsUnder(b))
    BY <2>2, <2>3
  <2>5. \A i \in 1 .. Len(RowsUnder(a)) : RowsUnder(a)[i] = RowsUnder(b)[i]
    BY <2>2
  <2> QED
    BY <1>3, <2>4, <2>5, PrefixIff
<1>5. CASE a # << >>
  <2>1. Len(a) > 0 /\ Len(b) > 0 /\ b # << >>
    BY <1>1, <1>2, <1>5
  <2>2. /\ Len(RowsUnder(a)) = Len(a) - 1
        /\ \A i \in 1 .. Len(a) - 1 : RowsUnder(a)[i] = RecordRow(a[1], a[i + 1])
    BY <1>5, RowsUnderFacts
  <2>3. /\ Len(RowsUnder(b)) = Len(b) - 1
        /\ \A i \in 1 .. Len(b) - 1 : RowsUnder(b)[i] = RecordRow(b[1], b[i + 1])
    BY <2>1, RowsUnderFacts
  <2>4. ASSUME NEW i \in 1 .. Len(a) - 1 PROVE RowsUnder(a)[i] = RowsUnder(b)[i]
    <3>1. i + 1 \in 1 .. Len(a) /\ 1 \in 1 .. Len(a) /\ i \in 1 .. Len(b) - 1
      BY <1>1, <1>2, <2>1
    <3>2. a[1] = b[1] /\ a[i + 1] = b[i + 1]
      BY <1>1, <3>1, Zenon
    <3>3. RowsUnder(a)[i] = RecordRow(a[1], a[i + 1])
      BY <2>2, Zenon
    <3>4. RowsUnder(b)[i] = RecordRow(b[1], b[i + 1])
      BY <2>3, <3>1, Zenon
    <3> QED
      BY <3>2, <3>3, <3>4, Zenon
  <2>5. Len(RowsUnder(a)) <= Len(RowsUnder(b))
    BY <1>1, <1>2, <2>2, <2>3
  <2>6. \A i \in 1 .. Len(RowsUnder(a)) : RowsUnder(a)[i] = RowsUnder(b)[i]
    BY <2>2, <2>4, Zenon
  <2> QED
    BY <1>3, <2>5, <2>6, PrefixIff
<1> QED
  BY <1>4, <1>5

(* No step takes text away. *)
LEMMA TextGrows ==
  ASSUME TypeInv, [Next]_vars
  PROVE  \E u \in Seq(Tokens) : text' = text \o u
<1> USE DEF TypeInv, TypeOK
<1>1. CASE text' = text
  <2>1. text' = text \o << >> /\ << >> \in Seq(Tokens)
    BY <1>1
  <2> QED
    BY <2>1
<1>2. ASSUME NEW n \in 1 .. Len(buffer), Spill(n)
      PROVE  \E u \in Seq(Tokens) : text' = text \o u
  <2>1. SubSeq(buffer, 1, n) \in Seq(Tokens)
    OBVIOUS
  <2> QED
    BY <1>2, <2>1 DEF Spill
<1>3. \A batch \in Batches : Flush(batch) => text' = text
  BY DEF Flush, StartFlush
<1>4. Replay => text' = text
  BY DEF Replay, StartFlush
<1>5. FinishFlush \/ DropLog \/ Interrupt \/ UNCHANGED vars => text' = text
  BY DEF FinishFlush, DropLog, Interrupt, vars
<1> QED
  BY <1>1, <1>2, <1>3, <1>4, <1>5 DEF Next

(* The records of a text are its complete ones and perhaps a last one. *)
LEMMA RecordsContinue ==
  ASSUME NEW t \in Seq(Tokens)
  PROVE  IsPrefix(CompleteRecords(t), Records(t))
<1> DEFINE cs == CompleteRecords(t)
           last == RecordOf(Rest(t))
<1>1. cs \in Seq(RecordSpace) /\ Rest(t) \in Seq(Tokens)
  BY LineTypes
<1>2. last \in RecordSpace
  BY <1>1, Zenon DEF RecordSpace
<1>3. Records(t) = cs \/ Records(t) = Append(cs, last)
  BY RecordsAtEnd, Zenon
<1> HIDE DEF cs, last
<1>4. IsPrefix(cs, cs) /\ IsPrefix(cs, Append(cs, last))
  BY <1>1, <1>2, PrefixFacts
<1> QED
  BY <1>3, <1>4, Zenon DEF cs

LEMMA FailsGrow ==
  ASSUME NEW a \in Seq(RecordSpace), NEW b \in Seq(RecordSpace), IsPrefix(a, b), Fails(a)
  PROVE  Fails(b)
<1>1. Len(a) <= Len(b) /\ \A i \in 1 .. Len(a) : a[i] = b[i]
  BY PrefixIff
<1>2. DOMAIN a = 1 .. Len(a) /\ DOMAIN b = 1 .. Len(b) /\ Len(a) \in Nat /\ Len(b) \in Nat
  OBVIOUS
<1>3. PICK i \in DOMAIN a : Garbled \in Range(a[i])
  BY Zenon DEF Fails, Range
<1>4. i \in DOMAIN b /\ a[i] = b[i]
  BY <1>1, <1>2, <1>3
<1> QED
  BY <1>3, <1>4, Zenon DEF Fails, Range

(* Whatever is flushed, cut and replayed, and whatever its columns are:    *)
(* later queries that do not fail read what complete records have given,   *)
(* in the same order, and a complete record that fails the read stays.     *)
THEOREM CsvOnlyGrows == Spec => ReadsOnlyGrow
<1>1. ASSUME TypeInv, [Next]_vars
      PROVE  /\ IsPrefix(CompleteRows(text), CompleteRows(text'))
             /\ Fails(CompleteRecords(text)) => Fails(Records(text'))
  <2>1. text \in Seq(Tokens)
    BY <1>1 DEF TypeInv, TypeOK
  <2>2. PICK u \in Seq(Tokens) : text' = text \o u
    BY <1>1, TextGrows
  <2>3. IsPrefix(CompleteRecords(text), CompleteRecords(text \o u))
    BY <2>1, RecordsGrow
  <2>4. text \o u \in Seq(Tokens)
    BY <2>1
  <2>5. IsPrefix(RowsUnder(CompleteRecords(text)), RowsUnder(CompleteRecords(text \o u)))
    BY <2>1, <2>3, <2>4, LineTypes, RowsGrow
  <2>6. IsPrefix(CompleteRows(text), CompleteRows(text'))
    BY <2>2, <2>5, Zenon DEF CompleteRows
  <2>7. Fails(CompleteRecords(text)) => Fails(Records(text'))
    <3> DEFINE a == CompleteRecords(text)
               b == CompleteRecords(text \o u)
               c == Records(text \o u)
    <3>1. a \in Seq(RecordSpace) /\ b \in Seq(RecordSpace) /\ c \in Seq(RecordSpace)
      BY <2>1, <2>4, LineTypes
    <3>2. IsPrefix(a, b) /\ IsPrefix(b, c)
      BY <2>3, <2>4, RecordsContinue
    <3> HIDE DEF a, b, c
    <3>3. IsPrefix(a, c)
      BY <3>1, <3>2, PrefixFacts
    <3>4. Fails(a) => Fails(c)
      BY <3>1, <3>3, FailsGrow
    <3> QED
      BY <2>2, <3>4, Zenon DEF a, c
  <2> QED
    BY <2>6, <2>7
<1> QED
  BY <1>1, TypesInit, TypesStep, PTL DEF Spec, ReadsOnlyGrow

-----------------------------------------------------------------------------
(* Invariants.  A flush is judged by the text there will be when its       *)
(* buffer has been spilled: StartFlush fixes it, and Spill keeps it.       *)

Final == text \o buffer

Several(row) == Cardinality(DOMAIN row) > 1

(* Before there is a file nothing was written; replay has rows to write.   *)
FileInv ==
  /\ \A i \in DOMAIN logged : Several(logged[i])
  /\ ~exists => text = << >> /\ written = << >> /\ mode # "write_data_csv"

(* The record of an entry. *)
RecordFor(entry) == values(entry.row, entry.hs)

(* Records: a header, then those of the entries. *)
Match(records, hs, entries) ==
  /\ Len(records) = Len(entries) + 1
  /\ records[1] = hs
  /\ \A i \in 1 .. Len(entries) : records[i + 1] = RecordFor(entries[i])

(* Without interruptions the file has the header and one record per entry. *)
ExactInv ==
  cuts = 0 =>
    /\ Rest(Final) = << >>
    /\ exists => Match(CompleteRecords(Final), header, InOrder)

(* The record of an entry follows the first one. *)
Follow(entry, records) ==
  \E k \in 2 .. Len(records) : records[k] = RecordFor(entry)

(* Entries of a file's columns that cannot be read back from a text. *)
Damaged(hs, entries, t) ==
  {w \in entries : w.hs = hs /\ ~Follow(w, CompleteRecords(t))}

(* What is appended next joins a cut line, or becomes the first record. *)
Cut(t) == Rest(t) # << >> \/ CompleteRecords(t) = << >>

(* Every interruption damages at most one entry, the one that is appended  *)
(* to what it has cut; until there is one, it has damaged none.            *)
DamageInv ==
  /\ Cardinality(Damaged(header, Range(written), text)) <= cuts
  /\ mode # "write_data_csv" /\ exists /\ Cut(text) =>
       Cardinality(Damaged(header, Range(written), text)) + 1 <= cuts
  /\ mode = "write_data_csv" =>
       ~Cut(Final) /\ Cardinality(Damaged(header, Range(InOrder), Final)) <= cuts

-----------------------------------------------------------------------------
(* What is written reads back.                                             *)

Plain == Tokens \ {Newline}

LEMMA PlainTypes ==
  /\ Seq(Plain) \subseteq Seq(Tokens)
  /\ \A v \in Cells : CellText(v) \in Seq(Plain) /\ Inner(v) \in Seq(Plain)
<1>1. Plain \subseteq Tokens
  BY Zenon DEF Plain
<1>2. Seq(Plain) \subseteq Seq(Tokens)
  BY <1>1
<1>3. ASSUME NEW v \in Cells PROVE CellText(v) \in Seq(Plain) /\ Inner(v) \in Seq(Plain)
  <2>1. <<v, 1>> \in Plain /\ <<v, 2>> \in Plain /\ Comma \in Plain
    BY TokenFacts DEF Plain
  <2>2. << >> \in Seq(Plain) /\ <<<<v, 1>>, <<v, 2>>>> \in Seq(Plain)
    BY <2>1
  <2>3. CellText(v) \in Seq(Plain)
    BY <2>2, Zenon DEF CellText
  <2>4. \A s \in Seq(Plain) : s \o <<Comma>> \in Seq(Plain)
    BY <2>1
  <2> QED
    BY <2>3, <2>4, Zenon DEF Inner
<1> QED
  BY <1>2, <1>3

LEMMA FieldsPlain ==
  ASSUME NEW cells \in Seq(Cells)
  PROVE  Fields(cells) \in Seq(Plain)
<1> DEFINE Good == {c \in Seq(Cells) : Fields(c) \in Seq(Plain)}
<1>1. << >> \in Good
  <2>1. << >> \in Seq(Cells) /\ << >> \in Seq(Plain)
    OBVIOUS
  <2> QED
    BY <2>1, FieldsNothing
<1>2. ASSUME NEW c \in Seq(Cells), NEW v \in Cells, c \in Good PROVE Append(c, v) \in Good
  <2>1. Fields(Append(c, v)) = Fields(c) \o Inner(v)
    BY FieldsAppend
  <2>2. Fields(c) \in Seq(Plain) /\ Inner(v) \in Seq(Plain)
    BY <1>2, PlainTypes
  <2>3. \A p \in Seq(Plain), q \in Seq(Plain) : p \o q \in Seq(Plain)
    OBVIOUS
  <2>4. Fields(Append(c, v)) \in Seq(Plain)
    BY <2>1, <2>2, <2>3, Zenon
  <2>5. Append(c, v) \in Seq(Cells)
    OBVIOUS
  <2> QED
    BY <2>4, <2>5
<1>3. Seq(Cells) \subseteq Good
  <2> HIDE DEF Good
  <2> QED
    BY <1>1, <1>2, SeqInduction
<1> QED
  BY <1>3

LEMMA TwoTokens ==
  ASSUME NEW a, NEW b
  PROVE  Append(<<a>>, b) = <<a, b>>
<1> DEFINE w == Append(<<a>>, b)
           z == <<a, b>>
<1>1. <<a>> \in Seq({a, b}) /\ b \in {a, b} /\ Len(<<a>>) = 1 /\ <<a>>[1] = a
  OBVIOUS
<1>2. z \in Seq({a, b}) /\ Len(z) = 2 /\ z[1] = a /\ z[2] = b
  OBVIOUS
<1>3. w \in Seq({a, b}) /\ Len(w) = 2 /\ w[1] = a /\ w[2] = b
  BY <1>1
<1> HIDE DEF w, z
<1>4. w = [i \in 1 .. 2 |-> w[i]] /\ z = [i \in 1 .. 2 |-> z[i]]
  BY <1>2, <1>3
<1>5. \A i \in 1 .. 2 : w[i] = z[i]
  BY <1>2, <1>3
<1>6. w = z
  BY <1>4, <1>5
<1> QED
  BY <1>6 DEF w, z

(* The text of a cell goes into the piece that was opened for it. *)
LEMMA SplitCell ==
  ASSUME NEW t \in Seq(Tokens), NEW X \in Seq(Seq(Tokens)),
         Split(t, Comma) = Append(X, << >>), NEW v \in Cells
  PROVE  /\ Split(t \o CellText(v), Comma) = Append(X, CellText(v))
         /\ Split(t \o Inner(v), Comma) = Append(Append(X, CellText(v)), << >>)
<1> DEFINE T == Seq(Tokens)
           a == <<v, 1>>
           b == <<v, 2>>
<1>1. a \in Tokens /\ b \in Tokens /\ a # Comma /\ b # Comma /\ Comma \in Tokens
  BY TokenFacts
<1> HIDE DEF a, b
<1>2. X \in Seq(T) /\ << >> \in T /\ <<a>> \in T /\ <<a, b>> \in T
  BY <1>1
<1>3. CellText(v) \in T
  BY CellTextType
<1>4. Append(<< >>, a) = <<a>> /\ Append(<<a>>, b) = <<a, b>>
  <2>1. Append(<< >>, a) = <<a>>
    BY <1>1
  <2>2. Append(<<a>>, b) = <<a, b>>
    BY TwoTokens
  <2> QED
    BY <2>1, <2>2
<1> HIDE DEF T
<1>5. \A r \in T : Front(Append(X, r)) = X /\ Last(Append(X, r)) = r
  BY <1>2 DEF Front, Last
<1>6. Split(t \o CellText(v), Comma) = Append(X, CellText(v))
  <2>1. CASE v = Empty
    <3>1. CellText(v) = << >>
      BY <2>1, Zenon DEF CellText
    <3>2. t \o << >> = t
      OBVIOUS
    <3> QED
      BY <3>1, <3>2, Zenon
  <2>2. CASE v # Empty
    <3>1. CellText(v) = <<a, b>>
      BY <2>2, Zenon DEF CellText, a, b
    <3> DEFINE u == Append(t, a)
    <3>2. t \o <<a, b>> = Append(u, b) /\ u \in Seq(Tokens)
      BY <1>1
    <3>3. Split(u, Comma) = Longer(Split(t, Comma), a)
      BY <1>1, SplitAppend
    <3> HIDE DEF u
    <3>4. Split(Append(u, b), Comma) = Longer(Split(u, Comma), b)
      BY <1>1, <3>2, SplitAppend
    <3>5. Longer(Append(X, << >>), a) = Append(X, <<a>>)
      BY <1>2, <1>4, <1>5, Zenon DEF Longer
    <3>6. Longer(Append(X, <<a>>), b) = Append(X, <<a, b>>)
      BY <1>2, <1>4, <1>5, Zenon DEF Longer
    <3> QED
      BY <3>1, <3>2, <3>3, <3>4, <3>5, <3>6, Zenon
  <2> QED
    BY <2>1, <2>2
<1>7. Split(t \o Inner(v), Comma) = Append(Append(X, CellText(v)), << >>)
  <2> DEFINE u == t \o CellText(v)
  <2>1. u \in Seq(Tokens) /\ t \o Inner(v) = Append(u, Comma)
    <3> DEFINE c == CellText(v)
    <3>1. c \in Seq(Tokens)
      BY CellTextType
    <3> HIDE DEF c
    <3>2. t \o c \in Seq(Tokens) /\ t \o (c \o <<Comma>>) = Append(t \o c, Comma)
      BY <1>1, <3>1
    <3> QED
      BY <3>2, Zenon DEF Inner, c
  <2> HIDE DEF u
  <2>2. Split(Append(u, Comma), Comma) = Append(Split(u, Comma), << >>)
    BY <1>1, <2>1, SplitAppend
  <2> QED
    BY <1>6, <2>1, <2>2, Zenon DEF u
<1> QED
  BY <1>6, <1>7

Texts(cells) == [i \in DOMAIN cells |-> CellText(cells[i])]

LEMMA TextsType ==
  ASSUME NEW cells \in Seq(Cells)
  PROVE  /\ Texts(cells) \in Seq(Seq(Tokens))
         /\ Len(Texts(cells)) = Len(cells)
         /\ \A i \in 1 .. Len(cells) : Texts(cells)[i] = CellText(cells[i])
<1> DEFINE T == Seq(Tokens)
           f == [i \in DOMAIN cells |-> CellText(cells[i])]
<1>1. \A i \in DOMAIN cells : CellText(cells[i]) \in T
  <2>1. \A i \in DOMAIN cells : cells[i] \in Cells
    OBVIOUS
  <2> QED
    BY <2>1, CellTextType, Zenon
<1>2. DOMAIN cells = 1 .. Len(cells) /\ Len(cells) \in Nat
  OBVIOUS
<1>3. f \in Seq(T) /\ Len(f) = Len(cells) /\ \A i \in 1 .. Len(cells) : f[i] = CellText(cells[i])
  <2> HIDE DEF T
  <2> QED
    BY <1>1, <1>2
<1> QED
  BY <1>3, Zenon DEF Texts

LEMMA TextsAppend ==
  ASSUME NEW cells \in Seq(Cells), NEW v \in Cells
  PROVE  Texts(Append(cells, v)) = Append(Texts(cells), CellText(v))
<1> DEFINE T == Seq(Tokens)
           more == Append(cells, v)
           k == Len(cells)
           f == Texts(cells)
           g == Texts(more)
           w == Append(f, CellText(v))
<1>1. more \in Seq(Cells) /\ Len(more) = k + 1 /\ k \in Nat
  OBVIOUS
<1>2. more[k + 1] = v /\ \A i \in 1 .. k : more[i] = cells[i]
  OBVIOUS
<1>3. f \in Seq(T) /\ Len(f) = k /\ \A i \in 1 .. k : f[i] = CellText(cells[i])
  BY TextsType
<1> HIDE DEF more
<1>4. g \in Seq(T) /\ Len(g) = k + 1 /\ \A i \in 1 .. k + 1 : g[i] = CellText(more[i])
  <2> DEFINE m == Len(more)
  <2>1. g \in Seq(T) /\ Len(g) = m /\ \A i \in 1 .. m : g[i] = CellText(more[i])
    BY <1>1, TextsType
  <2> QED
    BY <1>1, <2>1, Zenon
<1>5. CellText(v) \in T
  BY CellTextType
<1> HIDE DEF f, g, T, k
<1>6. w \in Seq(T) /\ Len(w) = k + 1 /\ w[k + 1] = CellText(v) /\ \A i \in 1 .. k : w[i] = f[i]
  BY <1>1, <1>3, <1>5
<1> HIDE DEF w
<1>7. ASSUME NEW i \in 1 .. k + 1 PROVE g[i] = w[i]
  <2>1. g[i] = CellText(more[i])
    BY <1>4, Zenon
  <2>2. CASE i = k + 1
    BY <1>2, <1>6, <2>1, <2>2, Zenon
  <2>3. CASE i \in 1 .. k
    BY <1>2, <1>3, <1>6, <2>1, <2>3, Zenon
  <2>4. i = k + 1 \/ i \in 1 .. k
    BY <1>1
  <2> QED
    BY <2>2, <2>3, <2>4, Zenon
<1>8. g = w
  <2>1. g = [i \in 1 .. k + 1 |-> g[i]]
    BY <1>1, <1>4
  <2>2. w = [i \in 1 .. k + 1 |-> w[i]]
    BY <1>1, <1>6
  <2> QED
    BY <1>7, <2>1, <2>2
<1> QED
  BY <1>8, Zenon DEF g, w, f, more

LEMMA SplitFields ==
  ASSUME NEW cells \in Seq(Cells)
  PROVE  Split(Fields(cells), Comma) = Append(Texts(cells), << >>)
<1> DEFINE Good == {c \in Seq(Cells) : Split(Fields(c), Comma) = Append(Texts(c), << >>)}
<1>1. << >> \in Good
  <2>1. Texts(<< >>) = << >>
    <3>1. [i \in DOMAIN << >> |-> CellText(<< >>[i])] = << >>
      OBVIOUS
    <3> QED
      BY <3>1, Zenon DEF Texts
  <2>2. Append(<< >>, << >>) = << << >> >> /\ << >> \in Seq(Cells)
    OBVIOUS
  <2>3. Split(<< >>, Comma) = << << >> >>
    BY SplitNothing
  <2>4. Split(Fields(<< >>), Comma) = Append(Texts(<< >>), << >>)
    BY <2>1, <2>2, <2>3, FieldsNothing, Zenon
  <2> QED
    BY <2>2, <2>4
<1>2. ASSUME NEW c \in Seq(Cells), NEW v \in Cells, c \in Good PROVE Append(c, v) \in Good
  <2>1. Split(Fields(c), Comma) = Append(Texts(c), << >>)
    BY <1>2
  <2>2. Fields(c) \in Seq(Tokens) /\ Texts(c) \in Seq(Seq(Tokens))
    BY FieldsType, TextsType
  <2>3. Split(Fields(c) \o Inner(v), Comma) = Append(Append(Texts(c), CellText(v)), << >>)
    BY <2>1, <2>2, SplitCell
  <2>4. Append(c, v) \in Seq(Cells)
    OBVIOUS
  <2>5. Split(Fields(Append(c, v)), Comma) = Append(Texts(Append(c, v)), << >>)
    BY <2>3, FieldsAppend, TextsAppend, Zenon
  <2> QED
    BY <2>4, <2>5
<1>3. Seq(Cells) \subseteq Good
  <2> HIDE DEF Good
  <2> QED
    BY <1>1, <1>2, SeqInduction
<1> QED
  BY <1>3

LEMMA CellReadsBack ==
  ASSUME NEW v \in Cells
  PROVE  CellValue(CellText(v)) = v
<1>1. CASE v = Empty
  <2>1. CellText(v) = << >>
    BY <1>1, Zenon DEF CellText
  <2> QED
    BY <1>1, <2>1, Zenon DEF CellValue
<1>2. CASE v # Empty
  <2> DEFINE c == <<<<v, 1>>, <<v, 2>>>>
  <2>1. CellText(v) = c
    BY <1>2, Zenon DEF CellText
  <2>2. c # << >> /\ Len(c) = 2 /\ c[1][1] = v
    OBVIOUS
  <2> HIDE DEF c
  <2>3. c = CellText(c[1][1])
    BY <2>1, <2>2, Zenon
  <2>4. CellValue(c) = c[1][1]
    BY <2>2, <2>3, Zenon DEF CellValue
  <2> QED
    BY <2>1, <2>2, <2>4, Zenon
<1> QED
  BY <1>1, <1>2

(* The line of a record, before its newline. *)
LEMMA LineReadsBack ==
  ASSUME NEW cells \in Seq(Cells), NEW v \in Cells
  PROVE  RecordOf(Fields(cells) \o CellText(v)) = Append(cells, v)
<1> DEFINE more == Append(cells, v)
           line == Fields(cells) \o CellText(v)
           p == Split(line, Comma)
           f == [j \in DOMAIN p |-> CellValue(p[j])]
           k == Len(more)
<1>1. more \in Seq(Cells)
  OBVIOUS
<1>2. p = Texts(more)
  <2>1. Fields(cells) \in Seq(Tokens) /\ Texts(cells) \in Seq(Seq(Tokens))
    BY FieldsType, TextsType
  <2>2. Split(Fields(cells), Comma) = Append(Texts(cells), << >>)
    BY SplitFields
  <2>3. p = Append(Texts(cells), CellText(v))
    BY <2>1, <2>2, SplitCell
  <2> QED
    BY <2>3, TextsAppend, Zenon
<1>3. RecordOf(line) = f
  BY Zenon DEF RecordOf
<1> HIDE DEF p, line, more
<1>4. p \in Seq(Seq(Tokens)) /\ Len(p) = k /\ \A i \in 1 .. k : p[i] = CellText(more[i])
  <2> DEFINE tx == Texts(more)
  <2>1. tx \in Seq(Seq(Tokens)) /\ Len(tx) = k /\ \A i \in 1 .. k : tx[i] = CellText(more[i])
    BY <1>1, TextsType
  <2> QED
    BY <1>2, <2>1, Zenon
<1>5. k \in Nat /\ \A i \in 1 .. k : more[i] \in Cells
  BY <1>1
<1>6. \A i \in 1 .. k : CellValue(p[i]) = more[i]
  BY <1>4, <1>5, CellReadsBack, Zenon
<1>7. DOMAIN p = 1 .. k
  BY <1>4
<1>8. f = [i \in 1 .. k |-> more[i]]
  <2> HIDE DEF k
  <2> QED
    BY <1>6, <1>7
<1>9. more = [i \in 1 .. k |-> more[i]]
  BY <1>1
<1> QED
  BY <1>3, <1>8, <1>9, Zenon DEF line, more

-----------------------------------------------------------------------------
(* What a record, and a batch, adds to the records of a text.              *)

LEMMA PlainJoins ==
  ASSUME NEW t \in Seq(Tokens), NEW b \in Seq(Plain)
  PROVE  /\ CompleteRecords(t \o b) = CompleteRecords(t)
         /\ Rest(t \o b) = Rest(t) \o b
<1> DEFINE Joins(c) == /\ CompleteRecords(t \o c) = CompleteRecords(t)
                       /\ Rest(t \o c) = Rest(t) \o c
           Good == {c \in Seq(Plain) : Joins(c)}
<1>1. << >> \in Good
  <2>1. << >> \in Seq(Plain) /\ t \o << >> = t
    OBVIOUS
  <2>2. Rest(t) \in Seq(Tokens)
    BY LineTypes
  <2>3. Rest(t) \o << >> = Rest(t)
    BY <2>2
  <2> QED
    BY <2>1, <2>3
<1>2. ASSUME NEW c \in Seq(Plain), NEW x \in Plain, c \in Good PROVE Append(c, x) \in Good
  <2> DEFINE u == t \o c
             r == Rest(t)
  <2>1. c \in Seq(Tokens) /\ x \in Tokens /\ x # Newline
    BY PlainTypes DEF Plain
  <2>2. u \in Seq(Tokens) /\ t \o Append(c, x) = Append(u, x)
    BY <2>1
  <2>3. r \in Seq(Tokens)
    BY LineTypes
  <2>4. CompleteRecords(u) = CompleteRecords(t) /\ Rest(u) = r \o c
    BY <1>2
  <2> HIDE DEF u, r
  <2>5. (CompleteRecords(Append(u, x)) = CompleteRecords(u)) /\ Rest(Append(u, x)) = Append(Rest(u), x)
    BY <2>1, <2>2, AfterToken
  <2>6. r \o Append(c, x) = Append(r \o c, x)
    BY <2>1, <2>3
  <2>7. Joins(Append(c, x))
    BY <2>2, <2>4, <2>5, <2>6, Zenon DEF r
  <2>8. Append(c, x) \in Seq(Plain)
    OBVIOUS
  <2> HIDE DEF Joins
  <2> QED
    BY <2>7, <2>8
<1>3. Seq(Plain) \subseteq Good
  <2> HIDE DEF Good
  <2> QED
    BY <1>1, <1>2, SeqInduction
<1> QED
  BY <1>3

(* The text u is t with one more line, which holds these cells unless it   *)
(* began with what was left of another one.                                *)
AddsLine(t, u, cells) ==
  /\ Rest(u) = << >>
  /\ \E r \in RecordSpace :
       /\ CompleteRecords(u) = Append(CompleteRecords(t), r)
       /\ Rest(t) = << >> => r = cells

LEMMA RecordAdds ==
  ASSUME NEW t \in Seq(Tokens), NEW cells \in Seq(Cells), Len(cells) > 1
  PROVE  AddsLine(t, t \o write_record(cells), cells)
<1>1. PICK c \in Seq(Cells), v \in Cells : cells = Append(c, v) /\ c # << >>
  <2> DEFINE c == SubSeq(cells, 1, Len(cells) - 1)
             v == cells[Len(cells)]
  <2>1. c \in Seq(Cells) /\ v \in Cells /\ cells = Append(c, v) /\ Len(c) > 0
    OBVIOUS
  <2>2. c # << >>
    BY <2>1
  <2> QED
    BY <2>1, <2>2
<1> DEFINE line == Fields(c) \o CellText(v)
           r == Rest(t) \o line
           u == t \o line
<1>2. Fields(c) \in Seq(Plain) /\ CellText(v) \in Seq(Plain)
  BY FieldsPlain, PlainTypes
<1>3. line \in Seq(Plain)
  BY <1>2
<1>4. line # << >>
  <2>1. Fields(c) # << >>
    <3>1. PICK d \in Seq(Cells), w \in Cells : c = Append(d, w)
      <4> DEFINE d == SubSeq(c, 1, Len(c) - 1)
                 w == c[Len(c)]
      <4>1. d \in Seq(Cells) /\ w \in Cells /\ c = Append(d, w)
        BY <1>1
      <4> QED
        BY <4>1
    <3>2. Fields(c) = Fields(d) \o (CellText(w) \o <<Comma>>)
      BY <3>1, FieldsAppend, Zenon DEF Inner
    <3> DEFINE a == Fields(d)
               b == CellText(w)
    <3>3. a \in Seq(Tokens) /\ b \in Seq(Tokens) /\ Comma \in Tokens
      BY FieldsType, CellTextType, TokenFacts
    <3> HIDE DEF a, b
    <3>4. Len(a \o (b \o <<Comma>>)) = Len(a) + Len(b) + 1 /\ Len(a) \in Nat /\ Len(b) \in Nat
      BY <3>3
    <3>5. a \o (b \o <<Comma>>) # << >>
      BY <3>4
    <3> QED
      BY <3>2, <3>5 DEF a, b
  <2>2. \A p \in Seq(Plain), q \in Seq(Plain) : p # << >> => p \o q # << >>
    OBVIOUS
  <2> QED
    BY <1>2, <2>1, <2>2, Zenon
<1>5. write_record(cells) = line \o <<Newline>>
  <2> DEFINE a == Fields(c)
             b == CellText(v)
  <2>1. write_record(cells) = a \o (b \o <<Newline>>)
    BY <1>1, RecordText, Zenon DEF Outer
  <2>2. a \in Seq(Tokens) /\ b \in Seq(Tokens) /\ Newline \in Tokens
    BY FieldsType, CellTextType, TokenFacts
  <2> HIDE DEF a, b
  <2>3. a \o (b \o <<Newline>>) = (a \o b) \o <<Newline>>
    BY <2>2
  <2> QED
    BY <2>1, <2>3, Zenon DEF a, b
<1>6. RecordOf(line) = cells
  BY <1>1, LineReadsBack, Zenon
<1> HIDE DEF line
<1>7. line \in Seq(Tokens) /\ Newline \in Tokens
  BY <1>3, PlainTypes, TokenFacts
<1>8. u \in Seq(Tokens) /\ t \o (line \o <<Newline>>) = Append(u, Newline)
  BY <1>7
<1>9. CompleteRecords(u) = CompleteRecords(t) /\ Rest(u) = r
  BY <1>3, PlainJoins, Zenon
<1>10. Rest(t) \in Seq(Tokens)
  BY LineTypes
<1>11. r \in Seq(Tokens) /\ r # << >> /\ (Rest(t) = << >> => r = line)
  <2> DEFINE s == Rest(t)
  <2> HIDE DEF s
  <2>1. s \in Seq(Tokens)
    BY <1>10 DEF s
  <2>2. Len(s \o line) = Len(s) + Len(line) /\ Len(line) \in Nat /\ Len(s) \in Nat /\ Len(line) # 0
    BY <1>4, <1>7, <2>1
  <2>3. s \o line \in Seq(Tokens) /\ s \o line # << >>
    BY <1>7, <2>1, <2>2
  <2>4. << >> \o line = line
    BY <1>7
  <2> QED
    BY <2>3, <2>4 DEF s
<1>12. RecordOf(r) \in RecordSpace
  BY <1>11, Zenon DEF RecordSpace
<1> HIDE DEF u, r
<1>13. Records(u) = Append(CompleteRecords(u), RecordOf(Rest(u)))
  BY <1>8, <1>9, <1>11, RecordsAtEnd
<1>14. CompleteRecords(Append(u, Newline)) = Records(u) /\ Rest(Append(u, Newline)) = << >>
  BY <1>8, AfterNewline
<1>15. CompleteRecords(Append(u, Newline)) = Append(CompleteRecords(t), RecordOf(r))
  BY <1>9, <1>13, <1>14, Zenon
<1>16. Rest(t) = << >> => RecordOf(r) = cells
  BY <1>6, <1>11, Zenon
<1>17. AddsLine(t, Append(u, Newline), cells)
  BY <1>12, <1>14, <1>15, <1>16, Zenon DEF AddsLine
<1> QED
  BY <1>5, <1>8, <1>17, Zenon

LEMMA RowsTextNothing ==
  ASSUME NEW hs
  PROVE  RowsText(<< >>, hs) = << >>
<1>1. [i \in DOMAIN << >> |-> write_record(values(<< >>[i], hs))] = << >>
  OBVIOUS
<1> QED
  BY <1>1, FlattenNothing, Zenon DEF RowsText

LEMMA RowsTextAppend ==
  ASSUME NEW batch \in Seq(RowSpace), NEW row \in RowSpace, NEW hs \in Seq(Names)
  PROVE  RowsText(Append(batch, row), hs) =
           RowsText(batch, hs) \o write_record(values(row, hs))
<1> DEFINE T == Seq(Tokens)
           more == Append(batch, row)
           Line(x) == write_record(values(x, hs))
           k == Len(batch)
           f == [i \in DOMAIN batch |-> Line(batch[i])]
           g == [i \in DOMAIN more |-> Line(more[i])]
           w == Append(f, Line(row))
<1>1. more \in Seq(RowSpace) /\ DOMAIN more = 1 .. k + 1 /\ DOMAIN batch = 1 .. k /\ k \in Nat
  OBVIOUS
<1>2. more[k + 1] = row /\ \A i \in 1 .. k : more[i] = batch[i]
  OBVIOUS
<1>3. f \in Seq(T)
  BY RowsTextType
<1>4. Line(row) \in T
  BY ValuesType, RecordTextType, Zenon
<1> HIDE DEF more, T, Line
<1>5. Len(f) = k /\ \A i \in 1 .. k : f[i] = Line(batch[i])
  BY <1>1
<1>6. g = [i \in 1 .. k + 1 |-> g[i]] /\ \A i \in 1 .. k + 1 : g[i] = Line(more[i])
  BY <1>1
<1> HIDE DEF f, g, k
<1>7. w \in Seq(T) /\ Len(w) = k + 1 /\ w[k + 1] = Line(row) /\ \A i \in 1 .. k : w[i] = f[i]
  BY <1>1, <1>3, <1>4, <1>5
<1> HIDE DEF w
<1>8. ASSUME NEW i \in 1 .. k + 1 PROVE g[i] = w[i]
  <2>1. g[i] = Line(more[i])
    BY <1>6, Zenon
  <2>2. CASE i = k + 1
    BY <1>2, <1>7, <2>1, <2>2, Zenon
  <2>3. CASE i \in 1 .. k
    BY <1>2, <1>5, <1>7, <2>1, <2>3, Zenon
  <2>4. i = k + 1 \/ i \in 1 .. k
    BY <1>1
  <2> QED
    BY <2>2, <2>3, <2>4, Zenon
<1>9. w = [i \in 1 .. k + 1 |-> w[i]]
  BY <1>1, <1>7
<1>10. g = w
  BY <1>6, <1>8, <1>9
<1>11. FlattenSeq(w) = FlattenSeq(f) \o Line(row)
  BY <1>3, <1>4, FlattenAppend DEF w, T
<1> QED
  BY <1>10, <1>11, Zenon DEF RowsText, f, g, more, Line

(* The text u is t with the rows of a batch: one record each, which is the *)
(* row's unless it is the first and joined what was left of another line.  *)
RowsAdded(t, u, batch, hs, R) ==
  /\ R \in Seq(RecordSpace)
  /\ Len(R) = Len(batch)
  /\ CompleteRecords(u) = CompleteRecords(t) \o R
  /\ Rest(t) = << >> \/ batch # << >> => Rest(u) = << >>
  /\ \A i \in 1 .. Len(batch) :
       i > 1 \/ Rest(t) = << >> => R[i] = values(batch[i], hs)

LEMMA RowsAddedNothing ==
  ASSUME NEW t \in Seq(Tokens), NEW hs
  PROVE  RowsAdded(t, t \o RowsText(<< >>, hs), << >>, hs, << >>)
<1>1. t \o << >> = t
  OBVIOUS
<1>2. CompleteRecords(t) \in Seq(RecordSpace)
  BY LineTypes
<1>3. CompleteRecords(t) \o << >> = CompleteRecords(t)
  BY <1>2
<1>4. << >> \in Seq(RecordSpace) /\ Len(<< >>) = 0 /\ \A i \in 1 .. Len(<< >>) : FALSE
  OBVIOUS
<1> QED
  BY <1>1, <1>3, <1>4, RowsTextNothing, Zenon DEF RowsAdded

LEMMA RowsAddedMore ==
  ASSUME NEW t \in Seq(Tokens), NEW u \in Seq(Tokens), NEW v \in Seq(Tokens),
         NEW batch \in Seq(RowSpace), NEW row \in RowSpace, NEW hs,
         NEW R, RowsAdded(t, u, batch, hs, R), AddsLine(u, v, values(row, hs))
  PROVE  \E Q : RowsAdded(t, v, Append(batch, row), hs, Q)
<1>1. PICK r \in RecordSpace :
        /\ CompleteRecords(v) = Append(CompleteRecords(u), r)
        /\ Rest(u) = << >> => r = values(row, hs)
  BY Zenon DEF AddsLine
<1>2. Rest(v) = << >>
  BY Zenon DEF AddsLine
<1> DEFINE C == CompleteRecords(t)
           Q == Append(R, r)
           more == Append(batch, row)
           k == Len(batch)
<1>3. R \in Seq(RecordSpace) /\ Len(R) = k /\ CompleteRecords(u) = C \o R
  BY Zenon DEF RowsAdded
<1>4. C \in Seq(RecordSpace)
  BY LineTypes
<1>5. k \in Nat /\ Len(more) = k + 1 /\ more[k + 1] = row /\ \A i \in 1 .. k : more[i] = batch[i]
  OBVIOUS
<1>6. k = 0 <=> batch = << >>
  OBVIOUS
<1>7. \A i \in 1 .. k : i > 1 \/ Rest(t) = << >> => R[i] = values(batch[i], hs)
  BY Zenon DEF RowsAdded
<1> HIDE DEF C, more, k
<1>8. Q \in Seq(RecordSpace) /\ Len(Q) = k + 1 /\ Q[k + 1] = r /\ \A i \in 1 .. k : Q[i] = R[i]
  BY <1>1, <1>3
<1>9. CompleteRecords(v) = C \o Q
  <2>1. C \o Append(R, r) = Append(C \o R, r)
    BY <1>3, <1>4
  <2> QED
    BY <1>1, <1>3, <2>1, Zenon
<1> HIDE DEF Q
<1>10. ASSUME NEW i \in 1 .. k + 1, i > 1 \/ Rest(t) = << >> PROVE Q[i] = values(more[i], hs)
  <2>1. CASE i = k + 1
    <3>1. batch # << >> \/ Rest(t) = << >>
      BY <1>5, <1>6, <1>10, <2>1
    <3>2. Rest(u) = << >>
      BY <3>1, Zenon DEF RowsAdded
    <3> QED
      BY <1>1, <1>5, <1>8, <2>1, <3>2, Zenon
  <2>2. CASE i \in 1 .. k
    BY <1>5, <1>7, <1>8, <1>10, <2>2, Zenon
  <2>3. i = k + 1 \/ i \in 1 .. k
    BY <1>5
  <2> QED
    BY <2>1, <2>2, <2>3, Zenon
<1>11. RowsAdded(t, v, more, hs, Q)
  BY <1>2, <1>5, <1>8, <1>9, <1>10, Zenon DEF RowsAdded, C
<1> QED
  BY <1>11, Zenon DEF more

(* Texts are joined in any order. *)
Together(s, t, u) == (s \o t) \o u = s \o (t \o u)

LEMMA Associate ==
  ASSUME NEW s \in Seq(Tokens), NEW t \in Seq(Tokens), NEW u \in Seq(Tokens)
  PROVE  Together(s, t, u)
<1>1. (s \o t) \o u = s \o (t \o u)
  <2> DEFINE T == Tokens
  <2> HIDE DEF T
  <2>1. s \in Seq(T) /\ t \in Seq(T) /\ u \in Seq(T)
    BY DEF T
  <2> QED
    BY <2>1
<1> QED
  BY <1>1, Zenon DEF Together

LEMMA RowsAdd ==
  ASSUME NEW t \in Seq(Tokens), NEW batch \in Seq(RowSpace),
         NEW hs \in Seq(Names), Len(hs) > 1
  PROVE  \E R : RowsAdded(t, t \o RowsText(batch, hs), batch, hs, R)
<1> DEFINE Good == {b \in Seq(RowSpace) : \E R : RowsAdded(t, t \o RowsText(b, hs), b, hs, R)}
<1>1. << >> \in Good
  <2>1. << >> \in Seq(RowSpace)
    OBVIOUS
  <2> QED
    BY <2>1, RowsAddedNothing
<1>2. ASSUME NEW b \in Seq(RowSpace), NEW row \in RowSpace, b \in Good
      PROVE  Append(b, row) \in Good
  <2> DEFINE a == RowsText(b, hs)
             c == write_record(values(row, hs))
             u == t \o a
  <2>1. PICK R : RowsAdded(t, u, b, hs, R)
    BY <1>2
  <2>2. a \in Seq(Tokens)
    BY RowsTextType
  <2>3. values(row, hs) \in Seq(Cells) /\ Len(values(row, hs)) > 1
    BY ValuesType
  <2>4. c \in Seq(Tokens)
    BY <2>3, RecordTextType
  <2>5. RowsText(Append(b, row), hs) = a \o c
    BY RowsTextAppend
  <2> HIDE DEF a
  <2>6. u \in Seq(Tokens)
    BY <2>2
  <2> HIDE DEF u
  <2>7. AddsLine(u, u \o c, values(row, hs))
    BY <2>3, <2>6, RecordAdds
  <2> HIDE DEF c
  <2>8. u \o c \in Seq(Tokens)
    BY <2>4, <2>6
  <2>9. PICK Q : RowsAdded(t, u \o c, Append(b, row), hs, Q)
    BY <2>1, <2>6, <2>7, <2>8, RowsAddedMore
  <2>10. t \o (a \o c) = u \o c
    <3>1. Together(t, a, c)
      BY <2>2, <2>4, Associate
    <3> QED
      BY <3>1, Zenon DEF Together, u
  <2>11. RowsAdded(t, t \o RowsText(Append(b, row), hs), Append(b, row), hs, Q)
    BY <2>5, <2>9, <2>10, Zenon
  <2>12. Append(b, row) \in Seq(RowSpace)
    OBVIOUS
  <2> QED
    BY <2>11, <2>12
<1>3. Seq(RowSpace) \subseteq Good
  <2> HIDE DEF Good
  <2> QED
    BY <1>1, <1>2, SeqInduction
<1> QED
  BY <1>3

-----------------------------------------------------------------------------
(* Headers. *)

LEMMA KeptRange ==
  ASSUME NEW S, NEW s \in Seq(S), NEW P
  PROVE  \A x : x \in Range(Kept(s, P)) <=> \E i \in DOMAIN s : i \in P /\ s[i] = x
<1> DEFINE Elements(q) == \A x : x \in Range(Kept(q, P)) <=> \E i \in DOMAIN q : i \in P /\ q[i] = x
           Good == {q \in Seq(S) : Elements(q)}
<1>1. << >> \in Good
  <2>1. Kept(<< >>, P) = << >> /\ << >> \in Seq(S)
    BY KeptNothing
  <2>2. Range(<< >>) = {} /\ DOMAIN << >> = {}
    BY DEF Range
  <2>3. Elements(<< >>)
    BY <2>1, <2>2
  <2> HIDE DEF Elements
  <2> QED
    BY <2>1, <2>3
<1>2. ASSUME NEW q \in Seq(S), NEW y \in S, q \in Good PROVE Append(q, y) \in Good
  <2> DEFINE m == Append(q, y)
             k == Len(q)
             K == Kept(q, P)
             M == Kept(m, P)
  <2>1. m \in Seq(S) /\ DOMAIN m = 1 .. k + 1 /\ DOMAIN q = 1 .. k /\ k \in Nat
    OBVIOUS
  <2>2. m[k + 1] = y /\ \A i \in 1 .. k : m[i] = q[i]
    OBVIOUS
  <2>3. /\ k + 1 \in P => M = Append(K, y)
        /\ k + 1 \notin P => M = K
    <3>1. SamePositions(P, P, Len(q))
      BY DEF SamePositions
    <3> QED
      BY <3>1, KeptAppend
  <2>4. K \in Seq(S)
    BY KeptType
  <2>5. \A x : x \in Range(K) <=> \E i \in 1 .. k : i \in P /\ q[i] = x
    BY <1>2, <2>1
  <2> HIDE DEF m, k, K, M, Good
  <2>6. Range(Append(K, y)) = Range(K) \cup {y}
    <3> DEFINE A == Append(K, y)
               n == Len(K)
    <3>1. DOMAIN A = 1 .. n + 1 /\ DOMAIN K = 1 .. n /\ n \in Nat
      BY <2>4
    <3>2. A[n + 1] = y /\ \A i \in 1 .. n : A[i] = K[i]
      BY <2>4
    <3> HIDE DEF A, n
    <3>3. Range(A) = Range(K) \cup {y}
      BY <3>1, <3>2 DEF Range
    <3> QED
      BY <3>3 DEF A
  <2>7. ASSUME NEW x
        PROVE  x \in Range(M) <=> \E i \in DOMAIN m : i \in P /\ m[i] = x
    <3>1. (\E i \in 1 .. k + 1 : i \in P /\ m[i] = x)
            <=> (k + 1 \in P /\ y = x) \/ \E i \in 1 .. k : i \in P /\ q[i] = x
      BY <2>1, <2>2
    <3>2. CASE k + 1 \in P
      BY <2>1, <2>3, <2>5, <2>6, <3>1, <3>2
    <3>3. CASE k + 1 \notin P
      BY <2>1, <2>3, <2>5, <3>1, <3>3
    <3> QED
      BY <3>2, <3>3
  <2> QED
    BY <2>1, <2>7 DEF Good, M, m
<1>3. Seq(S) \subseteq Good
  <2> HIDE DEF Good
  <2> QED
    BY <1>1, <1>2, SeqInduction
<1> QED
  BY <1>3

LEMMA HeadersLong ==
  ASSUME NEW batch \in Seq(RowSpace), batch # << >>, Several(Head(batch))
  PROVE  Len(headers(batch)) > 1
<1> DEFINE row == Head(batch)
           hs == headers(batch)
<1>1. row \in RowSpace
  OBVIOUS
<1>2. DOMAIN row \subseteq Names
  BY <1>1 DEF RowSpace, Names
<1>3. hs \in Seq(Names)
  BY HeadersType
<1>4. DOMAIN row \subseteq Range(hs)
  <2> SUFFICES ASSUME NEW c \in DOMAIN row PROVE c \in Range(hs)
    OBVIOUS
  <2>1. PICK i \in DOMAIN Columns : Columns[i] = c
    BY <1>2 DEF Names, Range
  <2> DEFINE P == {j \in DOMAIN Columns : Columns[j] \in DOMAIN row}
  <2>2. hs = Kept(Columns, P)
    BY Zenon DEF headers, Heading
  <2>3. i \in P
    BY <2>1
  <2>4. Columns \in Seq(Names)
    BY Parameters
  <2> HIDE DEF P
  <2>5. c \in Range(Kept(Columns, P)) <=> \E j \in DOMAIN Columns : j \in P /\ Columns[j] = c
    BY <2>4, KeptRange
  <2> QED
    BY <2>1, <2>2, <2>3, <2>5, Zenon
<1> HIDE DEF hs, row
<1>5. ASSUME Len(hs) <= 1 PROVE FALSE
  <2>1. \E c : DOMAIN row \subseteq {c}
    <3>1. Range(hs) \subseteq {hs[1]}
      BY <1>3, <1>5 DEF Range
    <3> QED
      BY <1>4, <3>1
  <2>2. PICK c : DOMAIN row \subseteq {c}
    BY <2>1
  <2>3. DOMAIN row = {} \/ DOMAIN row = {c}
    BY <2>2
  <2>4. Cardinality(DOMAIN row) = 0 \/ Cardinality(DOMAIN row) = 1
    BY <2>3, FS_EmptySet, FS_Singleton
  <2>5. Cardinality(DOMAIN row) > 1
    BY DEF row, Several
  <2> QED
    BY <2>4, <2>5
<1>6. Len(hs) \in Nat
  BY <1>3
<1> QED
  BY <1>5, <1>6 DEF hs

-----------------------------------------------------------------------------
(* The steps of the writer. *)

IsBatch(batch) == batch \in Seq(RowSpace) /\ batch # << >> /\ Several(Head(batch))

LEMMA BatchesAreBatches ==
  /\ \A batch \in Batches : IsBatch(batch)
  /\ \A batch \in Batches : \A i \in DOMAIN batch : Several(batch[i])
<1> SUFFICES ASSUME NEW batch \in Batches
             PROVE  IsBatch(batch) /\ \A i \in DOMAIN batch : Several(batch[i])
  OBVIOUS
<1>1. batch \in Seq(RowSpace) /\ batch # << >>
  BY Parameters
<1>2. \A i \in DOMAIN batch : Several(batch[i])
  BY BatchAssumption DEF Several
<1>3. Head(batch) = batch[1] /\ 1 \in DOMAIN batch
  BY <1>1
<1> QED
  BY <1>1, <1>2, <1>3 DEF IsBatch

(* Every step but these leaves the text, its buffer and the entries alone, *)
(* as far as the invariants tell.                                          *)
LEMMA StepKinds ==
  ASSUME TypeInv, FileInv, [Next]_vars
  PROVE  \/ \E batch \in Seq(RowSpace) :
              IsBatch(batch) /\ mode # "write_data_csv" /\ StartFlush(batch)
         \/ \E n \in 1 .. Len(buffer) : Spill(n)
         \/ FinishFlush
         \/ Interrupt
         \/ /\ UNCHANGED <<exists, text, rows, buffer, written, header, cuts>>
            /\ mode # "write_data_csv" <=> mode' # "write_data_csv"
<1> DEFINE Starts == \E batch \in Seq(RowSpace) :
              IsBatch(batch) /\ mode # "write_data_csv" /\ StartFlush(batch)
           Stays == /\ UNCHANGED <<exists, text, rows, buffer, written, header, cuts>>
                    /\ mode # "write_data_csv" <=> mode' # "write_data_csv"
<1>1. ASSUME NEW batch \in Batches, Flush(batch) PROVE Starts
  <2>1. IsBatch(batch) /\ batch \in Seq(RowSpace)
    BY BatchesAreBatches DEF IsBatch
  <2>2. mode # "write_data_csv" /\ StartFlush(batch)
    BY <1>1 DEF Flush
  <2> QED
    BY <2>1, <2>2
<1>2. ASSUME Replay PROVE Starts \/ Stays
  <2>1. CASE logged # << >> /\ StartFlush(logged)
    <3>1. logged \in Seq(RowSpace)
      BY DEF TypeInv, TypeOK
    <3>2. Head(logged) = logged[1] /\ 1 \in DOMAIN logged
      BY <2>1, <3>1
    <3>3. IsBatch(logged)
      BY <2>1, <3>1, <3>2 DEF FileInv, IsBatch
    <3>4. mode # "write_data_csv"
      BY <1>2 DEF Replay
    <3> QED
      BY <2>1, <3>1, <3>3, <3>4
  <2>2. CASE mode' = "idle" /\
             UNCHANGED <<exists, text, rows, buffer, written, header, cuts, flushes>>
    BY <1>2, <2>2 DEF Replay
  <2> QED
    BY <1>2, <2>1, <2>2 DEF Replay
<1>3. DropLog => Stays
  BY DEF DropLog
<1>4. UNCHANGED vars => Stays
  BY DEF vars
<1> HIDE DEF Starts, Stays
<1>5. \/ Starts
      \/ \E n \in 1 .. Len(buffer) : Spill(n)
      \/ FinishFlush
      \/ Interrupt
      \/ Stays
  BY <1>1, <1>2, <1>3, <1>4 DEF Next
<1> QED
  BY <1>5 DEF Starts, Stays

LEMMA FileInit == Init => FileInv
  BY DEF Init, FileInv

LEMMA FileStep ==
  ASSUME TypeInv, FileInv, [Next]_vars
  PROVE  FileInv'
<1> USE DEF FileInv
<1>1. \A i \in DOMAIN logged' : Several(logged'[i])
  <2>1. CASE \E batch \in Batches : Flush(batch)
    <3>1. PICK batch \in Batches : Flush(batch)
      BY <2>1
    <3>2. batch \in Seq(RowSpace) /\ \A i \in DOMAIN batch : Several(batch[i])
      BY BatchesAreBatches DEF IsBatch
    <3>3. logged \in Seq(RowSpace) /\ logged' = logged \o batch
      BY <3>1 DEF Flush, TypeInv, TypeOK
    <3>4. ASSUME NEW i \in DOMAIN logged' PROVE Several(logged'[i])
      <4>1. \/ i \in DOMAIN logged /\ logged'[i] = logged[i]
            \/ i - Len(logged) \in DOMAIN batch /\ logged'[i] = batch[i - Len(logged)]
        BY <3>2, <3>3
      <4> QED
        BY <3>2, <4>1
    <3> QED
      BY <3>4
  <2>2. CASE logged' = logged
    BY <2>2
  <2>3. CASE logged' = << >>
    BY <2>3
  <2> QED
    BY <2>1, <2>2, <2>3
       DEF Next, Replay, Spill, FinishFlush, DropLog, Interrupt, vars
<1>2. ~exists' => text' = << >> /\ written' = << >> /\ mode' # "write_data_csv"
  <2>1. CASE \E batch \in Seq(RowSpace) : StartFlush(batch)
    BY <2>1 DEF StartFlush
  <2>2. CASE \E n \in 1 .. Len(buffer) : Spill(n)
    BY <2>2 DEF Spill
  <2>3. CASE FinishFlush
    BY <2>3 DEF FinishFlush
  <2>4. CASE Interrupt
    BY <2>4 DEF Interrupt
  <2>5. CASE /\ UNCHANGED <<exists, text, rows, buffer, written, header, cuts>>
             /\ mode # "write_data_csv" <=> mode' # "write_data_csv"
    BY <2>5
  <2> QED
    BY <2>1, <2>2, <2>3, <2>4, <2>5, StepKinds
<1> QED
  BY <1>1, <1>2

(* A flush that starts appends its rows to the text there is, or to the    *)
(* line of its header.                                                     *)
Base(t, batch) ==
  IF exists THEN t = text
  ELSE Rest(t) = << >> /\ CompleteRecords(t) = <<headers(batch)>>

LEMMA FlushAdds ==
  ASSUME TypeInv, FileInv, NEW batch, IsBatch(batch), StartFlush(batch)
  PROVE  \E t \in Seq(Tokens), R \in Seq(RecordSpace) :
           Base(t, batch) /\ RowsAdded(t, Final', batch, headers(batch), R)
<1> DEFINE hs == headers(batch)
           rt == RowsText(batch, hs)
<1>1. batch \in Seq(RowSpace) /\ batch # << >> /\ Several(Head(batch))
  BY DEF IsBatch
<1>2. hs \in Seq(Names) /\ Len(hs) > 1
  BY <1>1, HeadersType, HeadersLong
<1>3. rt \in Seq(Tokens)
  BY <1>1, <1>2, RowsTextType
<1>4. BatchText(batch) = HeaderText(batch) \o rt
  BY Zenon DEF BatchText, RowsText
<1>5. Final' = text \o BatchText(batch)
  BY DEF StartFlush, Final
<1>6. text \in Seq(Tokens)
  BY DEF TypeInv, TypeOK
<1>7. CASE exists
  <2>1. HeaderText(batch) = << >>
    BY <1>7, Zenon DEF HeaderText
  <2>2. << >> \o rt = rt
    BY <1>3
  <2>3. PICK R : RowsAdded(text, text \o rt, batch, hs, R)
    BY <1>1, <1>2, <1>6, RowsAdd
  <2>4. RowsAdded(text, Final', batch, hs, R)
    BY <1>4, <1>5, <2>1, <2>2, <2>3, Zenon
  <2>5. Base(text, batch)
    BY <1>7, Zenon DEF Base
  <2>6. R \in Seq(RecordSpace)
    BY <2>3, Zenon DEF RowsAdded
  <2> QED
    BY <1>6, <2>4, <2>5, <2>6
<1>8. CASE ~exists
  <2> DEFINE t == write_record(hs)
  <2>1. hs \in Seq(Cells)
    BY <1>2 DEF Cells
  <2>2. t \in Seq(Tokens)
    BY <2>1, RecordTextType
  <2>3. text = << >> /\ HeaderText(batch) = t
    BY <1>8, Zenon DEF FileInv, HeaderText
  <2>4. AddsLine(<< >>, << >> \o t, hs)
    <3>1. << >> \in Seq(Tokens)
      OBVIOUS
    <3> QED
      BY <1>2, <2>1, <3>1, RecordAdds
  <2> HIDE DEF t
  <2>5. << >> \o t = t /\ << >> \o (t \o rt) = t \o rt
    BY <1>3, <2>2
  <2>6. Rest(t) = << >> /\ CompleteRecords(t) = Append(<< >>, hs)
    BY <2>4, <2>5, NoText, Zenon DEF AddsLine
  <2>7. Append(<< >>, hs) = <<hs>>
    OBVIOUS
  <2>8. PICK R : RowsAdded(t, t \o rt, batch, hs, R)
    BY <1>1, <1>2, <2>2, RowsAdd
  <2>9. RowsAdded(t, Final', batch, hs, R)
    BY <1>4, <1>5, <2>3, <2>5, <2>8, Zenon
  <2>10. Base(t, batch)
    BY <1>8, <2>6, <2>7, Zenon DEF Base
  <2>11. R \in Seq(RecordSpace)
    BY <2>8, Zenon DEF RowsAdded
  <2> QED
    BY <2>2, <2>9, <2>10, <2>11
<1> QED
  BY <1>7, <1>8

-----------------------------------------------------------------------------
(* Without interruptions. *)

LEMMA EnteredRecords ==
  ASSUME NEW batch \in Seq(RowSpace)
  PROVE  /\ Entered(batch) \in Seq(Entries)
         /\ Len(Entered(batch)) = Len(batch)
         /\ \A i \in 1 .. Len(batch) :
              /\ Entered(batch)[i].hs = headers(batch)
              /\ RecordFor(Entered(batch)[i]) = values(batch[i], headers(batch))
<1>1. DOMAIN batch = 1 .. Len(batch)
  OBVIOUS
<1>2. ASSUME NEW i \in 1 .. Len(batch)
      PROVE  /\ Entered(batch)[i].hs = headers(batch)
             /\ RecordFor(Entered(batch)[i]) = values(batch[i], headers(batch))
  <2>1. Entered(batch)[i] = [row |-> batch[i], hs |-> headers(batch)]
    BY <1>1, Zenon DEF Entered
  <2>2. Entered(batch)[i].row = batch[i] /\ Entered(batch)[i].hs = headers(batch)
    BY <2>1
  <2> QED
    BY <2>2, Zenon DEF RecordFor
<1> QED
  BY <1>2, EnteredType

LEMMA Joined ==
  ASSUME NEW S, NEW s \in Seq(S), NEW t \in Seq(S)
  PROVE  /\ s \o t \in Seq(S)
         /\ Len(s \o t) = Len(s) + Len(t)
         /\ \A i \in 1 .. Len(s) : (s \o t)[i] = s[i]
         /\ \A i \in 1 .. Len(t) : (s \o t)[Len(s) + i] = t[i]
OBVIOUS

LEMMA MatchMore ==
  ASSUME NEW B \in Seq(RecordSpace), NEW W \in Seq(Entries), NEW hs, Match(B, hs, W),
         NEW R \in Seq(RecordSpace), NEW E \in Seq(Entries), Len(R) = Len(E),
         \A i \in 1 .. Len(E) : R[i] = RecordFor(E[i])
  PROVE  Match(B \o R, hs, W \o E)
<1> DEFINE b == Len(B)
           w == Len(W)
           e == Len(E)
           C == B \o R
           V == W \o E
<1>1. b \in Nat /\ w \in Nat /\ e \in Nat /\ b = w + 1 /\ B[1] = hs
  BY DEF Match
<1>2. \A i \in 1 .. w : B[i + 1] = RecordFor(W[i])
  BY DEF Match
<1>3. /\ Len(C) = b + e /\ Len(V) = w + e
      /\ \A i \in 1 .. b : C[i] = B[i]
      /\ \A i \in 1 .. e : C[b + i] = R[i]
      /\ \A i \in 1 .. w : V[i] = W[i]
      /\ \A i \in 1 .. e : V[w + i] = E[i]
  <2>1. /\ Len(C) = b + e
        /\ \A i \in 1 .. b : C[i] = B[i]
        /\ \A i \in 1 .. e : C[b + i] = R[i]
    BY Joined
  <2>2. /\ Len(V) = w + e
        /\ \A i \in 1 .. w : V[i] = W[i]
        /\ \A i \in 1 .. e : V[w + i] = E[i]
    BY Joined
  <2> QED
    BY <2>1, <2>2
<1> HIDE DEF b, w, e, C, V
<1>4. ASSUME NEW i \in 1 .. w + e PROVE C[i + 1] = RecordFor(V[i])
  <2>1. CASE i \in 1 .. w
    <3>1. i + 1 \in 1 .. b
      BY <1>1, <2>1
    <3> QED
      BY <1>2, <1>3, <2>1, <3>1, Zenon
  <2>2. CASE i > w
    <3>1. PICK j \in 1 .. e : i = w + j /\ i + 1 = b + j
      <4>1. i - w \in 1 .. e /\ i = w + (i - w) /\ i + 1 = b + (i - w)
        BY <1>1, <2>2
      <4> QED
        BY <4>1
    <3>2. R[j] = RecordFor(E[j])
      BY DEF e
    <3> QED
      BY <1>3, <3>1, <3>2, Zenon
  <2>3. i \in 1 .. w \/ i > w
    BY <1>1
  <2> QED
    BY <2>1, <2>2, <2>3
<1>5. Len(C) = Len(V) + 1 /\ C[1] = hs
  BY <1>1, <1>3
<1> QED
  BY <1>3, <1>4, <1>5 DEF Match, C, V

(* The rows of a batch, after a text that ends a line. *)
LEMMA FlushMatches ==
  ASSUME NEW t \in Seq(Tokens), NEW u, NEW batch, NEW R, NEW W \in Seq(Entries), NEW hs,
         IsBatch(batch), RowsAdded(t, u, batch, headers(batch), R),
         Rest(t) = << >>, Match(CompleteRecords(t), hs, W)
  PROVE  /\ Rest(u) = << >>
         /\ Match(CompleteRecords(u), hs, W \o Entered(batch))
<1> DEFINE E == Entered(batch)
<1>1. batch \in Seq(RowSpace)
  BY DEF IsBatch
<1>2. R \in Seq(RecordSpace) /\ Len(R) = Len(E)
  BY <1>1, EnteredRecords DEF RowsAdded
<1>3. E \in Seq(Entries)
  BY <1>1, EnteredRecords
<1>4. ASSUME NEW i \in 1 .. Len(E) PROVE R[i] = RecordFor(E[i])
  <2>1. i \in 1 .. Len(batch)
    BY <1>1, EnteredRecords
  <2>2. R[i] = values(batch[i], headers(batch))
    BY <2>1, Zenon DEF RowsAdded
  <2> QED
    BY <1>1, <2>1, <2>2, EnteredRecords
<1>5. CompleteRecords(t) \in Seq(RecordSpace)
  BY LineTypes
<1> HIDE DEF E
<1>6. Match(CompleteRecords(t) \o R, hs, W \o E)
  BY <1>2, <1>3, <1>4, <1>5, MatchMore
<1> QED
  BY <1>6, Zenon DEF RowsAdded, E

LEMMA IdleFacts ==
  ASSUME TypeInv, mode # "write_data_csv"
  PROVE  Final = text /\ InOrder = written
<1>1. buffer = << >> /\ rows = << >> /\ text \in Seq(Tokens) /\ written \in Seq(Entries)
  BY DEF TypeInv, TypeOK
<1>2. InOrder = written \o Entered(rows)
  BY Zenon DEF InOrder, Entered
<1>3. Entered(<< >>) = << >>
  <2>1. << >> \in Seq(RowSpace) /\ Len(<< >>) = 0
    OBVIOUS
  <2>2. Entered(<< >>) \in Seq(Entries) /\ Len(Entered(<< >>)) = 0
    BY <2>1, EnteredType
  <2> QED
    BY <2>2
<1>4. text \o << >> = text /\ written \o << >> = written
  BY <1>1
<1> QED
  BY <1>1, <1>2, <1>3, <1>4, Zenon DEF Final

LEMMA ExactInit == Init => ExactInv
<1> SUFFICES ASSUME Init PROVE ExactInv
  OBVIOUS
<1>1. ~exists /\ Final = << >> \o << >>
  BY DEF Init, Final
<1>2. << >> \o << >> = << >>
  OBVIOUS
<1> QED
  BY <1>1, <1>2, NoText, Zenon DEF ExactInv

LEMMA SpillKeeps ==
  ASSUME TypeInv, NEW n \in 1 .. Len(buffer), Spill(n)
  PROVE  Final' = Final /\ InOrder' = InOrder
<1>1. text \in Seq(Tokens) /\ buffer \in Seq(Tokens)
  BY DEF TypeInv, TypeOK
<1> DEFINE a == SubSeq(buffer, 1, n)
           b == SubSeq(buffer, n + 1, Len(buffer))
<1>2. Final' = (text \o a) \o b
  BY DEF Spill, Final
<1>3. a \o b = buffer
  BY <1>1
<1>4. a \in Seq(Tokens) /\ b \in Seq(Tokens)
  BY <1>1
<1> HIDE DEF a, b
<1>5. (text \o a) \o b = text \o (a \o b)
  <2>1. Together(text, a, b)
    BY <1>1, <1>4, Associate
  <2> QED
    BY <2>1, Zenon DEF Together
<1>6. InOrder' = InOrder
  BY DEF Spill, InOrder
<1> QED
  BY <1>2, <1>3, <1>5, <1>6, Zenon DEF Final

LEMMA FinishKeeps ==
  ASSUME TypeInv, TypeInv', FinishFlush
  PROVE  /\ Final' = Final /\ Final = text /\ text' = text
         /\ InOrder' = InOrder /\ written' = InOrder
<1>1. text \in Seq(Tokens)
  BY DEF TypeInv, TypeOK
<1>2. text \o << >> = text
  BY <1>1
<1>3. Final' = Final /\ Final = text /\ text' = text
  BY <1>2 DEF FinishFlush, Final
<1>4. written' = InOrder
  BY Zenon DEF FinishFlush, InOrder
<1>5. mode' # "write_data_csv"
  BY DEF FinishFlush
<1>6. rows' = << >> /\ written' \in Seq(Entries)
  BY <1>5 DEF TypeInv, TypeOK
<1>7. InOrder' = written' \o Entered(rows')
  BY Zenon DEF InOrder, Entered
<1>8. Entered(<< >>) = << >>
  <2>1. << >> \in Seq(RowSpace) /\ Len(<< >>) = 0
    OBVIOUS
  <2>2. Entered(<< >>) \in Seq(Entries) /\ Len(Entered(<< >>)) = 0
    BY <2>1, EnteredType
  <2> QED
    BY <2>2
<1>9. written' \o << >> = written'
  BY <1>6
<1> QED
  BY <1>3, <1>4, <1>6, <1>7, <1>8, <1>9, Zenon

LEMMA StartEnters ==
  ASSUME TypeInv, NEW batch, StartFlush(batch)
  PROVE  InOrder' = written \o Entered(batch)
BY Zenon DEF StartFlush, InOrder, Entered

LEMMA ExactStep ==
  ASSUME TypeInv, TypeInv', FileInv, ExactInv, [Next]_vars
  PROVE  ExactInv'
<1>1. ASSUME NEW batch \in Seq(RowSpace), IsBatch(batch), mode # "write_data_csv",
             StartFlush(batch), cuts = 0
      PROVE  ExactInv'
  <2> DEFINE hs == headers(batch)
  <2>1. exists' /\ header' = (IF exists THEN header ELSE hs)
    BY <1>1, Zenon DEF StartFlush
  <2>2. PICK t \in Seq(Tokens), R \in Seq(RecordSpace) :
             Base(t, batch) /\ RowsAdded(t, Final', batch, hs, R)
    BY <1>1, FlushAdds
  <2>3. written \in Seq(Entries)
    BY DEF TypeInv, TypeOK
  <2>4. InOrder' = written \o Entered(batch)
    BY <1>1, StartEnters
  <2>5. /\ Rest(t) = << >>
        /\ Match(CompleteRecords(t), header', written)
    <3>1. CASE exists
      <4>1. t = text /\ Final = text /\ InOrder = written
        BY <1>1, <2>2, <3>1, IdleFacts DEF Base
      <4> QED
        BY <1>1, <2>1, <3>1, <4>1, Zenon DEF ExactInv
    <3>2. CASE ~exists
      <4>1. Rest(t) = << >> /\ CompleteRecords(t) = <<hs>> /\ written = << >>
        BY <2>2, <3>2, Zenon DEF Base, FileInv
      <4>2. Len(<<hs>>) = Len(<< >>) + 1 /\ <<hs>>[1] = hs /\ \A i \in 1 .. Len(<< >>) : FALSE
        OBVIOUS
      <4> QED
        BY <2>1, <3>2, <4>1, <4>2, Zenon DEF Match
    <3> QED
      BY <3>1, <3>2
  <2>6. Rest(Final') = << >> /\ Match(CompleteRecords(Final'), header', written \o Entered(batch))
    BY <1>1, <2>2, <2>3, <2>5, FlushMatches
  <2> QED
    BY <2>4, <2>5, <2>6, Zenon DEF ExactInv
<1>2. ASSUME NEW n \in 1 .. Len(buffer), Spill(n) PROVE ExactInv'
  <2>1. Final' = Final /\ InOrder' = InOrder
    BY <1>2, SpillKeeps
  <2>2. exists' = exists /\ header' = header /\ cuts' = cuts
    BY <1>2 DEF Spill
  <2> QED
    BY <2>1, <2>2, Zenon DEF ExactInv
<1>3. ASSUME FinishFlush PROVE ExactInv'
  <2>1. Final' = Final /\ InOrder' = InOrder
    BY <1>3, FinishKeeps
  <2>2. exists' = exists /\ header' = header /\ cuts' = cuts
    BY <1>3 DEF FinishFlush
  <2> QED
    BY <2>1, <2>2, Zenon DEF ExactInv
<1>4. ASSUME Interrupt, cuts' = 0 PROVE ExactInv'
  <2>1. mode # "write_data_csv" /\ mode' # "write_data_csv"
    BY <1>4 DEF Interrupt, TypeInv, TypeOK
  <2>2. UNCHANGED <<exists, text, written, header, cuts>>
    BY <1>4, <2>1 DEF Interrupt
  <2>3. Final = text /\ InOrder = written
    BY <2>1, IdleFacts
  <2>4. Final' = text' /\ InOrder' = written'
    <3>1. buffer' = << >> /\ rows' = << >> /\ text' \in Seq(Tokens)
      BY <1>4 DEF Interrupt, TypeInv, TypeOK
    <3>2. buffer = << >> /\ rows = << >>
      BY <2>1 DEF TypeInv, TypeOK
    <3>3. Final' = Final /\ InOrder' = InOrder
      BY <2>2, <3>1, <3>2 DEF Final, InOrder
    <3> QED
      BY <2>2, <2>3, <3>3
  <2> QED
    BY <2>2, <2>3, <2>4, Zenon DEF ExactInv
<1>5. ASSUME UNCHANGED <<exists, text, rows, buffer, written, header, cuts>> PROVE ExactInv'
  <2>1. Final' = Final /\ InOrder' = InOrder
    BY <1>5 DEF Final, InOrder
  <2>2. exists' = exists /\ header' = header /\ cuts' = cuts
    BY <1>5
  <2> QED
    BY <2>1, <2>2, Zenon DEF ExactInv
<1>6. \A batch : StartFlush(batch) => cuts' = cuts
  BY DEF StartFlush
<1>7. cuts' # 0 => ExactInv'
  BY Zenon DEF ExactInv
<1> QED
  BY <1>1, <1>2, <1>3, <1>4, <1>5, <1>6, <1>7, StepKinds, Zenon

(* A record under the header of its entry is what the row is stored as. *)
LEMMA MaxIsIn ==
  ASSUME NEW n \in Nat, NEW P, P # {}, P \subseteq 1 .. n
  PROVE  Max(P) \in P
<1> DEFINE Above == {u \in Nat : \A j \in P : j <= u}
<1>1. n \in Above
  OBVIOUS
<1>2. PICK u \in Above : \A w \in Above : u <= w
  <2>1. Above \in SUBSET Nat /\ Above # {}
    BY <1>1
  <2> HIDE DEF Above
  <2> QED
    BY <2>1, NatLeast
<1>3. u \in P
  <2> SUFFICES ASSUME u \notin P PROVE FALSE
    OBVIOUS
  <2>1. \A j \in P : j <= u - 1
    BY <1>2
  <2>2. u > 0
    <3>1. PICK j \in P : j \in 1 .. n
      OBVIOUS
    <3> QED
      BY <1>2, <3>1
  <2>3. u - 1 \in Above
    BY <1>2, <2>1, <2>2
  <2> QED
    BY <1>2, <2>3
<1>4. \E x \in P : \A y \in P : x >= y
  BY <1>2, <1>3
<1> QED
  BY <1>4, Zenon DEF Max

LEMMA StoredReadsBack ==
  ASSUME NEW entry \in Entries
  PROVE  RecordRow(entry.hs, RecordFor(entry)) = AsStored(entry)
<1> DEFINE hs == entry.hs
           row == entry.row
           cells == values(row, hs)
           Cell(c) == IF c \in DOMAIN row THEN row[c] ELSE Empty
           Places(c) == {i \in DOMAIN hs : hs[i] = c}
<1>1. row \in RowSpace /\ hs \in Seq(Names)
  BY HeadersAreNames DEF Entries
<1>2. cells = [i \in DOMAIN hs |-> Cell(hs[i])]
  BY Zenon DEF values
<1>3. DOMAIN hs = 1 .. Len(hs) /\ Len(hs) \in Nat
  BY <1>1
<1>4. AsStored(entry) = [c \in Range(hs) |-> Cell(c)]
  BY Zenon DEF AsStored
<1>5. RecordFor(entry) = cells
  BY Zenon DEF RecordFor
<1> HIDE DEF cells, hs, row, Cell
<1>6. DOMAIN hs \cap DOMAIN cells = DOMAIN hs
  BY <1>2
<1>7. RecordRow(hs, cells) = [c \in {hs[i] : i \in DOMAIN hs} |-> cells[Max(Places(c))]]
  BY <1>6, Zenon DEF RecordRow
<1>8. {hs[i] : i \in DOMAIN hs} = Range(hs)
  BY DEF Range
<1>9. ASSUME NEW c \in Range(hs) PROVE cells[Max(Places(c))] = Cell(c)
  <2>1. Places(c) # {} /\ Places(c) \subseteq 1 .. Len(hs)
    BY <1>3 DEF Range
  <2>2. Max(Places(c)) \in Places(c)
    <3> HIDE DEF Places
    <3> QED
      BY <1>3, <2>1, MaxIsIn
  <2>3. Max(Places(c)) \in DOMAIN hs /\ hs[Max(Places(c))] = c
    BY <2>2
  <2> QED
    BY <1>2, <2>3, Zenon
<1> HIDE DEF Places
<1>10. [c \in {hs[i] : i \in DOMAIN hs} |-> cells[Max(Places(c))]] = [c \in Range(hs) |-> Cell(c)]
  BY <1>8, <1>9
<1> QED
  BY <1>4, <1>5, <1>7, <1>10, Zenon DEF hs

LEMMA AppendLong ==
  ASSUME NEW S, NEW s \in Seq(S), NEW x \in S
  PROVE  Append(s, x) # << >>
<1>1. Len(Append(s, x)) = Len(s) + 1 /\ Len(s) \in Nat
  OBVIOUS
<1> QED
  BY <1>1

(* A line that has begun becomes a record when it ends. *)
LEMMA LineEnds ==
  ASSUME NEW t \in Seq(Tokens), NEW u \in Seq(Tokens), Rest(t) # << >>, Rest(t \o u) = << >>
  PROVE  Len(CompleteRecords(t)) + 1 <= Len(CompleteRecords(t \o u))
<1> DEFINE n == Len(CompleteRecords(t))
           Open(w) == Rest(w) # << >> /\ Len(CompleteRecords(w)) = n
           Ended(w) == Len(CompleteRecords(w)) >= n + 1
           Good == {v \in Seq(Tokens) : Open(t \o v) \/ Ended(t \o v)}
<1>1. n \in Nat
  BY LineTypes
<1>2. << >> \in Good
  <2>1. t \o << >> = t /\ << >> \in Seq(Tokens)
    OBVIOUS
  <2>2. Open(t)
    OBVIOUS
  <2> QED
    BY <2>1, <2>2
<1>3. ASSUME NEW w \in Seq(Tokens), NEW x \in Tokens, Open(w) \/ Ended(w)
      PROVE  Open(Append(w, x)) \/ Ended(Append(w, x))
  <2> DEFINE c == CompleteRecords(w)
             r == RecordOf(Rest(w))
  <2>1. c \in Seq(RecordSpace) /\ Rest(w) \in Seq(Tokens)
    BY LineTypes
  <2>2. r \in RecordSpace
    BY <2>1, Zenon DEF RecordSpace
  <2>3. Len(Append(c, r)) = Len(c) + 1 /\ Len(c) \in Nat
    BY <2>1, <2>2
  <2>4. CASE x = Newline
    <3>1. /\ Rest(w) = << >> => CompleteRecords(Append(w, x)) = c
          /\ Rest(w) # << >> => CompleteRecords(Append(w, x)) = Append(c, r)
      BY <2>4, AfterNewline, RecordsAtEnd, Zenon
    <3> HIDE DEF c, r
    <3>2. CASE Rest(w) # << >>
      BY <1>1, <1>3, <2>3, <3>1, <3>2 DEF c
    <3>3. CASE Rest(w) = << >>
      BY <1>3, <3>1, <3>3 DEF c
    <3> QED
      BY <3>2, <3>3
  <2>5. CASE x # Newline
    <3>1. CompleteRecords(Append(w, x)) = c /\ Rest(Append(w, x)) = Append(Rest(w), x)
      BY <2>5, AfterToken
    <3>2. Append(Rest(w), x) # << >>
      <4>1. Rest(w) \in Seq(Tokens)
        BY <2>1
      <4> QED
        BY <4>1, AppendLong
    <3> QED
      BY <1>3, <3>1, <3>2
  <2> QED
    BY <2>4, <2>5
<1>4. ASSUME NEW v \in Seq(Tokens), NEW x \in Tokens, v \in Good
      PROVE  Append(v, x) \in Good
  <2>1. t \o v \in Seq(Tokens) /\ t \o Append(v, x) = Append(t \o v, x) /\ Append(v, x) \in Seq(Tokens)
    OBVIOUS
  <2>2. Open(t \o v) \/ Ended(t \o v)
    BY <1>4
  <2> HIDE DEF Open, Ended
  <2>3. Open(Append(t \o v, x)) \/ Ended(Append(t \o v, x))
    BY <1>3, <2>1, <2>2
  <2> QED
    BY <2>1, <2>3
<1>5. Seq(Tokens) \subseteq Good
  <2> HIDE DEF Good
  <2> QED
    BY <1>2, <1>4, SeqInduction
<1>6. ~Open(t \o u)
  OBVIOUS
<1> HIDE DEF Open
<1>7. Ended(t \o u)
  BY <1>5, <1>6
<1> QED
  BY <1>7

LEMMA RecordsNow ==
  ASSUME TypeInv
  PROVE  /\ Final \in Seq(Tokens)
         /\ InOrder \in Seq(Entries)
         /\ Records(text) \in Seq(RecordSpace)
         /\ CompleteRecords(text) \in Seq(RecordSpace)
         /\ CompleteRecords(Final) \in Seq(RecordSpace)
         /\ IsPrefix(CompleteRecords(text), Records(text))
         /\ IsPrefix(CompleteRecords(text), CompleteRecords(Final))
         /\ Rest(Final) = << >> => Len(Records(text)) <= Len(CompleteRecords(Final))
<1> DEFINE rs == Records(text)
           cs == CompleteRecords(text)
           fs == CompleteRecords(Final)
           last == RecordOf(Rest(text))
<1>1. text \in Seq(Tokens) /\ buffer \in Seq(Tokens)
  BY DEF TypeInv, TypeOK
<1>2. Final \in Seq(Tokens)
  BY <1>1 DEF Final
<1>3. InOrder \in Seq(Entries)
  <2>1. written \in Seq(Entries) /\ Entered(rows) \in Seq(Entries)
    BY EnteredType DEF TypeInv, TypeOK
  <2>2. InOrder = written \o Entered(rows)
    BY Zenon DEF InOrder, Entered
  <2> QED
    BY <2>1, <2>2
<1>4. /\ rs \in Seq(RecordSpace) /\ cs \in Seq(RecordSpace) /\ fs \in Seq(RecordSpace)
      /\ Rest(text) \in Seq(Tokens)
  BY <1>1, <1>2, LineTypes
<1>5. IsPrefix(cs, fs)
  BY <1>1, RecordsGrow, Zenon DEF Final
<1>6. last \in RecordSpace
  BY <1>4, Zenon DEF RecordSpace
<1>7. /\ Rest(text) = << >> => rs = cs
      /\ Rest(text) # << >> => rs = Append(cs, last)
  BY <1>1, RecordsAtEnd
<1>8. Rest(text) # << >> /\ Rest(Final) = << >> => Len(cs) + 1 <= Len(fs)
  BY <1>1, LineEnds DEF Final
<1> HIDE DEF rs, cs, fs, last
<1>9. IsPrefix(cs, cs) /\ IsPrefix(cs, Append(cs, last))
  BY <1>4, <1>6, PrefixFacts
<1>10. IsPrefix(cs, rs)
  BY <1>7, <1>9
<1>11. Len(cs) <= Len(fs)
  BY <1>4, <1>5, PrefixIff
<1>12. Len(Append(cs, last)) = Len(cs) + 1
  BY <1>4, <1>6
<1>13. Rest(Final) = << >> => Len(rs) <= Len(fs)
  BY <1>7, <1>8, <1>11, <1>12
<1> QED
  BY <1>2, <1>3, <1>4, <1>5, <1>10, <1>13 DEF rs, cs, fs

(* What was written is UTF-8. *)
LEMMA NeverGarbled ==
  /\ \A hs \in Headers : Garbled \notin Range(hs)
  /\ \A e \in Entries : Garbled \notin Range(RecordFor(e))
<1>1. Garbled \notin Cells
  BY Parameters
<1>2. \A s \in Seq(Cells) : Garbled \notin Range(s)
  BY <1>1 DEF Range
<1>3. Headers \subseteq Seq(Cells)
  <2>1. Headers \subseteq Seq(Names)
    BY HeadersAreNames
  <2>2. Names \subseteq Cells
    BY DEF Cells
  <2> QED
    BY <2>1, <2>2
<1>4. ASSUME NEW e \in Entries PROVE RecordFor(e) \in Seq(Cells)
  <2>1. e.row \in RowSpace /\ e.hs \in Headers
    BY <1>4 DEF Entries
  <2>2. e.hs \in Seq(Names)
    BY <2>1, HeadersAreNames
  <2>3. values(e.row, e.hs) \in Seq(Cells)
    BY <2>1, <2>2, ValuesType
  <2> QED
    BY <2>3, Zenon DEF RecordFor
<1> QED
  BY <1>2, <1>3, <1>4

LEMMA ExactReads ==
  ASSUME TypeInv, FileInv, ExactInv, cuts = 0
  PROVE  /\ \A i \in DOMAIN read_csv_file :
              /\ i <= Len(InOrder)
              /\ (i + 1 \in DOMAIN CompleteRecords(text) /\ InOrder[i].hs = header)
                   => read_csv_file[i] = AsStored(InOrder[i])
         /\ mode # "write_data_csv" => ~ReadFails /\ Len(read_csv_file) = Len(written)
<1> DEFINE rs == Records(text)
           cs == CompleteRecords(text)
           fs == CompleteRecords(Final)
           es == InOrder
           read == RowsUnder(rs)
<1>1. /\ es \in Seq(Entries) /\ rs \in Seq(RecordSpace)
      /\ cs \in Seq(RecordSpace) /\ fs \in Seq(RecordSpace)
      /\ IsPrefix(cs, rs) /\ IsPrefix(cs, fs)
      /\ Len(rs) <= Len(fs)
  BY RecordsNow DEF ExactInv
<1>2. read = RowsUnder(rs) /\ read_csv_file = IF ReadFails THEN << >> ELSE read
  BY Zenon DEF read_csv_file
<1>3. mode # "write_data_csv" => es = written /\ rs = fs
  <2> SUFFICES ASSUME mode # "write_data_csv" PROVE es = written /\ rs = fs
    OBVIOUS
  <2>1. Final = text /\ InOrder = written
    BY IdleFacts
  <2>2. text \in Seq(Tokens) /\ Rest(text) = << >>
    BY <2>1 DEF TypeInv, TypeOK, ExactInv
  <2> QED
    BY <2>1, <2>2, RecordsAtEnd, Zenon
<1>4. exists => Match(fs, header, es)
  BY Zenon DEF ExactInv
<1>5. ~exists => rs = << >> /\ written = << >> /\ mode # "write_data_csv"
  BY NoText, RecordsAtEnd DEF FileInv, TypeInv, TypeOK
<1>9. ReadFails <=> Fails(rs)
  BY Zenon DEF ReadFails
<1>10. header \in Headers
  BY DEF TypeInv, TypeOK
<1> HIDE DEF rs, cs, fs, es, read
<1>6. /\ rs = << >> => read = << >>
      /\ rs # << >> => /\ DOMAIN read = 1 .. Len(rs) - 1 /\ Len(read) = Len(rs) - 1
                       /\ \A i \in 1 .. Len(rs) - 1 : read[i] = RecordRow(rs[1], rs[i + 1])
  <2>1. read \in Seq(ReadSpace)
    BY <1>1, <1>2, RowsUnderFacts
  <2>2. DOMAIN read = 1 .. Len(read)
    BY <2>1
  <2> QED
    BY <1>1, <1>2, <2>2, RowsUnderFacts
<1>7. CASE ~exists
  <2>1. DOMAIN read = {} /\ Len(read) = 0 /\ Len(written) = 0
    BY <1>5, <1>6, <1>7
  <2>2. DOMAIN rs = {}
    BY <1>5, <1>7
  <2>3. ~Fails(rs)
    BY <2>2, Zenon DEF Fails, Range
  <2> QED
    BY <1>2, <1>9, <2>1, <2>3
<1>8. CASE exists
  <2>1. Len(fs) = Len(es) + 1 /\ fs[1] = header
        /\ \A i \in 1 .. Len(es) : fs[i + 1] = RecordFor(es[i])
    BY <1>4, <1>8 DEF Match
  <2>2. Len(rs) \in Nat /\ Len(cs) \in Nat /\ Len(fs) \in Nat /\ Len(es) \in Nat
        /\ DOMAIN cs = 1 .. Len(cs)
    BY <1>1
  <2>3. /\ Len(cs) <= Len(rs) /\ \A i \in 1 .. Len(cs) : cs[i] = rs[i]
        /\ Len(cs) <= Len(fs) /\ \A i \in 1 .. Len(cs) : cs[i] = fs[i]
    BY <1>1, PrefixIff
  <2>4. ASSUME NEW i \in DOMAIN read PROVE i \in 1 .. Len(rs) - 1 /\ i <= Len(es)
    <3>1. rs # << >>
      BY <1>6
    <3>2. i \in 1 .. Len(rs) - 1
      BY <1>6, <3>1
    <3> QED
      BY <1>1, <2>1, <2>2, <3>2
  <2>5. ASSUME NEW i \in DOMAIN read, i + 1 \in DOMAIN cs, es[i].hs = header
        PROVE  read[i] = AsStored(es[i])
    <3>1. i \in 1 .. Len(rs) - 1 /\ i \in 1 .. Len(es) /\ rs # << >>
      BY <1>6, <2>2, <2>4
    <3>2. 1 \in 1 .. Len(cs) /\ i + 1 \in 1 .. Len(cs)
      BY <2>2, <2>5, <3>1
    <3>3. rs[1] = header /\ rs[i + 1] = RecordFor(es[i])
      BY <2>1, <2>3, <3>1, <3>2
    <3>4. read[i] = RecordRow(rs[1], rs[i + 1])
      BY <1>6, <3>1
    <3>5. es[i] \in Entries
      BY <1>1, <3>1
    <3> QED
      BY <2>5, <3>3, <3>4, <3>5, StoredReadsBack, Zenon
  <2>6. mode # "write_data_csv" => Len(read) = Len(written)
    <3>1. rs = fs => rs # << >>
      BY <2>1, <2>2
    <3> QED
      BY <1>3, <1>6, <2>1, <2>2, <3>1
  <2>7. mode # "write_data_csv" => ~Fails(rs)
    <3> SUFFICES ASSUME mode # "write_data_csv", NEW i \in DOMAIN rs, Garbled \in Range(rs[i])
                 PROVE  FALSE
      BY Zenon DEF Fails, Range
    <3>1. DOMAIN rs = 1 .. Len(rs) /\ rs = fs
      BY <1>1, <1>3
    <3>2. CASE i = 1
      <4>1. rs[i] = header
        BY <2>1, <3>1, <3>2
      <4> QED
        BY <1>10, <4>1, NeverGarbled
    <3>3. CASE i # 1
      <4>1. i - 1 \in 1 .. Len(es) /\ (i - 1) + 1 = i
        BY <2>1, <2>2, <3>1, <3>3
      <4>2. rs[i] = RecordFor(es[i - 1])
        BY <2>1, <3>1, <4>1
      <4>3. es[i - 1] \in Entries
        BY <1>1, <4>1
      <4> QED
        BY <4>2, <4>3, NeverGarbled
    <3> QED
      BY <3>2, <3>3
  <2>8. DOMAIN << >> = {}
    OBVIOUS
  <2>9. \A i \in DOMAIN read_csv_file : i \in DOMAIN read /\ read_csv_file[i] = read[i]
    BY <1>2, <2>8, Zenon
  <2>10. mode # "write_data_csv" => ~ReadFails /\ Len(read_csv_file) = Len(written)
    BY <1>2, <1>9, <2>6, <2>7, Zenon
  <2> QED
    BY <2>4, <2>5, <2>9, <2>10 DEF es, cs
<1> QED
  BY <1>7, <1>8

(* Without an interrupted flush no query between flushes fails, and one    *)
(* that does not fail reads every row of the file's columns as it was      *)
(* written: for any columns, values and batches, and whatever other        *)
(* columns are flushed in between.                                         *)
THEOREM CsvReadsExact == Spec => []ReadsExact
<1>1. Init => TypeInv /\ FileInv /\ ExactInv
  BY TypesInit, FileInit, ExactInit
<1>2. TypeInv /\ FileInv /\ ExactInv /\ [Next]_vars => (TypeInv /\ FileInv /\ ExactInv)'
  BY TypesStep, FileStep, ExactStep
<1>3. TypeInv /\ FileInv /\ ExactInv => ReadsExact
  BY ExactReads, Zenon DEF ReadsExact
<1> QED
  BY <1>1, <1>2, <1>3, PTL DEF Spec

-----------------------------------------------------------------------------
(* With interruptions. *)

LEMMA RangeFinite ==
  ASSUME NEW S, NEW s \in Seq(S)
  PROVE  IsFiniteSet(Range(s))
<1>1. s \in Surjection(1 .. Len(s), Range(s))
  BY DEF Surjection, Range
<1>2. IsFiniteSet(1 .. Len(s))
  BY FS_Interval
<1> QED
  BY <1>1, <1>2, FS_Surjection

LEMMA DamagedFinite ==
  ASSUME NEW W \in Seq(Entries), NEW hs, NEW t
  PROVE  /\ IsFiniteSet(Damaged(hs, Range(W), t))
         /\ Cardinality(Damaged(hs, Range(W), t)) \in Nat
<1>1. IsFiniteSet(Range(W))
  BY RangeFinite
<1>2. Damaged(hs, Range(W), t) \in SUBSET Range(W)
  BY Zenon DEF Damaged
<1> QED
  BY <1>1, <1>2, FS_Subset, FS_CardinalityType, Zenon

LEMMA NoneDamaged ==
  ASSUME NEW hs, NEW t
  PROVE  Cardinality(Damaged(hs, Range(<< >>), t)) = 0
<1>1. Range(<< >>) = {}
  BY DEF Range
<1>2. Damaged(hs, {}, t) = {}
  BY Zenon DEF Damaged
<1> QED
  BY <1>1, <1>2, FS_EmptySet, Zenon

LEMMA FollowGrows ==
  ASSUME NEW a \in Seq(RecordSpace), NEW b \in Seq(RecordSpace), IsPrefix(a, b),
         NEW w, Follow(w, a)
  PROVE  Follow(w, b)
<1>1. PICK k \in 2 .. Len(a) : a[k] = RecordFor(w)
  BY DEF Follow
<1>2. Len(a) <= Len(b) /\ \A i \in 1 .. Len(a) : a[i] = b[i]
  BY PrefixIff
<1>3. Len(a) \in Nat /\ Len(b) \in Nat
  OBVIOUS
<1>4. k \in 1 .. Len(a) /\ k \in 2 .. Len(b)
  BY <1>2, <1>3
<1>5. b[k] = RecordFor(w)
  BY <1>1, <1>2, <1>4
<1> QED
  BY <1>4, <1>5, Zenon DEF Follow

(* More text damages nothing that could be read. *)
LEMMA DamagedShrinks ==
  ASSUME NEW t \in Seq(Tokens), NEW u \in Seq(Tokens), NEW hs, NEW W \in Seq(Entries)
  PROVE  Cardinality(Damaged(hs, Range(W), t \o u)) <= Cardinality(Damaged(hs, Range(W), t))
<1> DEFINE a == CompleteRecords(t)
           b == CompleteRecords(t \o u)
<1>1. t \o u \in Seq(Tokens)
  OBVIOUS
<1>2. a \in Seq(RecordSpace) /\ b \in Seq(RecordSpace) /\ IsPrefix(a, b)
  BY <1>1, LineTypes, RecordsGrow
<1> HIDE DEF a, b
<1>3. \A w : Follow(w, a) => Follow(w, b)
  BY <1>2, FollowGrows
<1>4. Damaged(hs, Range(W), t \o u) \in SUBSET Damaged(hs, Range(W), t)
  BY <1>3 DEF Damaged, a, b
<1>5. IsFiniteSet(Damaged(hs, Range(W), t))
  BY DamagedFinite
<1> QED
  BY <1>4, <1>5, FS_Subset

(* A batch can only lose the row that joins a cut line, or that became the *)
(* first record.                                                           *)
LEMMA FlushDamages ==
  ASSUME NEW t \in Seq(Tokens), NEW u, NEW batch, NEW R, NEW W \in Seq(Entries), NEW hs,
         IsBatch(batch), RowsAdded(t, u, batch, headers(batch), R)
  PROVE  /\ ~Cut(u)
         /\ \E x : Damaged(hs, Range(W \o Entered(batch)), u)
                     \subseteq Damaged(hs, Range(W), t) \cup {x}
         /\ ~Cut(t) => Damaged(hs, Range(W \o Entered(batch)), u)
                         \subseteq Damaged(hs, Range(W), t)
<1> DEFINE E == Entered(batch)
           V == W \o E
           a == CompleteRecords(t)
           b == CompleteRecords(u)
           k == Len(a)
           n == Len(batch)
<1>1. batch \in Seq(RowSpace) /\ batch # << >>
  BY DEF IsBatch
<1>2. n \in Nat /\ n > 0
  BY <1>1
<1>3. E \in Seq(Entries) /\ Len(E) = n
  BY <1>1, EnteredRecords
<1>4. R \in Seq(RecordSpace) /\ Len(R) = n /\ b = a \o R
  BY Zenon DEF RowsAdded
<1>5. Rest(u) = << >>
  BY <1>1, Zenon DEF RowsAdded
<1>6. a \in Seq(RecordSpace)
  BY LineTypes
<1>7. ASSUME NEW i \in 1 .. n, i > 1 \/ Rest(t) = << >> PROVE R[i] = RecordFor(E[i])
  <2>1. R[i] = values(batch[i], headers(batch))
    BY <1>7, Zenon DEF RowsAdded
  <2> QED
    BY <1>1, <2>1, EnteredRecords
<1>8. Cut(t) <=> Rest(t) # << >> \/ a = << >>
  BY Zenon DEF Cut
<1>9. Cut(u) <=> Rest(u) # << >> \/ b = << >>
  BY Zenon DEF Cut
<1> HIDE DEF E, V, a, b, k, n
<1>10. /\ b \in Seq(RecordSpace) /\ Len(b) = k + n /\ k \in Nat
       /\ \A i \in 1 .. k : b[i] = a[i]
       /\ \A i \in 1 .. n : b[k + i] = R[i]
  <2> DEFINE c == a \o R
  <2>1. R \in Seq(RecordSpace) /\ Len(a) \in Nat
    BY <1>4, <1>6
  <2>2. /\ c \in Seq(RecordSpace) /\ Len(c) = Len(a) + Len(R)
        /\ \A i \in 1 .. Len(a) : c[i] = a[i]
        /\ \A i \in 1 .. Len(R) : c[Len(a) + i] = R[i]
    BY <1>6, <2>1, Joined
  <2> HIDE DEF c
  <2>3. b = c /\ Len(R) = n
    BY <1>4 DEF c
  <2> QED
    BY <2>1, <2>2, <2>3 DEF k
<1>11. ~Cut(u)
  BY <1>2, <1>5, <1>9, <1>10
<1>12. IsPrefix(a, b)
  BY <1>2, <1>6, <1>10, PrefixIff DEF k
<1>13. ASSUME NEW i \in 1 .. n, i > 1 \/ ~Cut(t) PROVE Follow(E[i], b)
  <2>1. R[i] = RecordFor(E[i])
    BY <1>7, <1>8, <1>13
  <2>2. i = 1 => k > 0
    BY <1>6, <1>8, <1>13 DEF k
  <2>3. k + i \in 2 .. Len(b)
    BY <1>2, <1>10, <2>2
  <2>4. b[k + i] = RecordFor(E[i])
    BY <1>10, <2>1
  <2> QED
    BY <2>3, <2>4, Zenon DEF Follow
<1>14. \A w \in Range(V) : w \in Range(W) \/ \E i \in 1 .. n : w = E[i]
  <2>1. /\ Len(V) = Len(W) + n
        /\ \A i \in 1 .. Len(W) : V[i] = W[i]
        /\ \A i \in 1 .. n : V[Len(W) + i] = E[i]
    BY <1>3, Joined DEF V
  <2>2. V \in Seq(Entries) /\ Len(W) \in Nat
    BY <1>3 DEF V
  <2>3. DOMAIN V = 1 .. Len(V) /\ DOMAIN W = 1 .. Len(W)
    BY <2>2
  <2>4. ASSUME NEW j \in DOMAIN V PROVE V[j] \in Range(W) \/ \E i \in 1 .. n : V[j] = E[i]
    <3>1. CASE j \in 1 .. Len(W)
      BY <2>1, <2>3, <3>1 DEF Range
    <3>2. CASE j > Len(W)
      <4>1. j - Len(W) \in 1 .. n /\ j = Len(W) + (j - Len(W))
        BY <1>2, <2>1, <2>2, <2>3, <3>2
      <4> QED
        BY <2>1, <4>1
    <3> QED
      BY <2>2, <2>3, <3>1, <3>2
  <2> QED
    BY <2>4 DEF Range
<1>15. \A w : Follow(w, a) => Follow(w, b)
  BY <1>6, <1>10, <1>12, FollowGrows
<1>16. ASSUME NEW w \in Damaged(hs, Range(V), u), w # E[1] \/ ~Cut(t)
       PROVE  w \in Damaged(hs, Range(W), t)
  <2>1. w \in Range(V) /\ w.hs = hs /\ ~Follow(w, b)
    BY Zenon DEF Damaged, b
  <2>2. ~ \E i \in 1 .. n : w = E[i]
    <3> SUFFICES ASSUME NEW i \in 1 .. n, w = E[i] PROVE FALSE
      OBVIOUS
    <3>1. i > 1 \/ ~Cut(t)
      BY <1>16
    <3> QED
      BY <1>13, <2>1, <3>1
  <2>3. w \in Range(W) /\ ~Follow(w, a)
    BY <1>14, <1>15, <2>1, <2>2, Zenon
  <2> QED
    BY <2>1, <2>3, Zenon DEF Damaged, a
<1>17. Damaged(hs, Range(V), u) \subseteq Damaged(hs, Range(W), t) \cup {E[1]}
  BY <1>16
<1>18. ~Cut(t) => Damaged(hs, Range(V), u) \subseteq Damaged(hs, Range(W), t)
  BY <1>16
<1> QED
  BY <1>11, <1>17, <1>18, Zenon DEF V, E

LEMMA DamageInit == Init => DamageInv
<1> SUFFICES ASSUME Init PROVE DamageInv
  OBVIOUS
<1>1. Cardinality(Damaged(header, Range(<< >>), text)) = 0
  BY NoneDamaged
<1>2. mode # "write_data_csv" /\ ~exists /\ cuts = 0 /\ written = << >>
  BY DEF Init
<1> QED
  BY <1>1, <1>2 DEF DamageInv

LEMMA StartDamages ==
  ASSUME TypeInv, FileInv, DamageInv, NEW batch, IsBatch(batch),
         mode # "write_data_csv", StartFlush(batch)
  PROVE  /\ Cardinality(Damaged(header', Range(written), text)) <= cuts
         /\ ~Cut(Final')
         /\ Cardinality(Damaged(header', Range(InOrder'), Final')) <= cuts
<1> DEFINE hs == headers(batch)
           All == written \o Entered(batch)
<1>1. header' = (IF exists THEN header ELSE hs)
  BY Zenon DEF StartFlush
<1>2. PICK t \in Seq(Tokens), R \in Seq(RecordSpace) :
             Base(t, batch) /\ RowsAdded(t, Final', batch, hs, R)
  BY FlushAdds
<1>3. written \in Seq(Entries) /\ cuts \in Nat
  BY DEF TypeInv, TypeOK
<1>4. InOrder' = All
  BY StartEnters
<1>5. batch \in Seq(RowSpace)
  BY DEF IsBatch
<1>6. All \in Seq(Entries)
  <2>1. Entered(batch) \in Seq(Entries)
    BY <1>5, EnteredType
  <2> QED
    BY <1>3, <2>1
<1> DEFINE before == Damaged(header', Range(written), t)
           after == Damaged(header', Range(All), Final')
<1>7. /\ ~Cut(Final')
      /\ \E x : after \subseteq before \cup {x}
      /\ ~Cut(t) => after \subseteq before
  BY <1>2, <1>3, FlushDamages
<1>8. IsFiniteSet(before) /\ Cardinality(before) \in Nat
  BY <1>3, DamagedFinite
<1>9. /\ Cardinality(Damaged(header', Range(written), text)) <= cuts
      /\ Cardinality(before) <= cuts
      /\ Cut(t) => Cardinality(before) + 1 <= cuts
  <2>1. CASE exists
    <3>1. t = text /\ header' = header
      BY <1>1, <1>2, <2>1 DEF Base
    <3> QED
      BY <2>1, <3>1 DEF DamageInv
  <2>2. CASE ~exists
    <3>1. written = << >>
      BY <2>2 DEF FileInv
    <3>2. Rest(t) = << >> /\ CompleteRecords(t) = <<hs>>
      BY <1>2, <2>2, Zenon DEF Base
    <3>3. <<hs>> # << >>
      OBVIOUS
    <3>4. ~Cut(t)
      BY <3>2, <3>3, Zenon DEF Cut
    <3>5. /\ Cardinality(Damaged(header', Range(<< >>), text)) = 0
          /\ Cardinality(Damaged(header', Range(<< >>), t)) = 0
      BY NoneDamaged
    <3> QED
      BY <1>3, <3>1, <3>4, <3>5
  <2> QED
    BY <2>1, <2>2
<1> HIDE DEF before, after
<1>10. Cardinality(after) <= cuts
  <2>1. CASE Cut(t)
    <3>1. PICK x : after \subseteq before \cup {x}
      BY <1>7
    <3>2. IsFiniteSet(before \cup {x}) /\ Cardinality(before \cup {x}) <= Cardinality(before) + 1
      <4>1. /\ IsFiniteSet(before \cup {x})
            /\ Cardinality(before \cup {x}) =
                 IF x \in before THEN Cardinality(before) ELSE Cardinality(before) + 1
        BY <1>8, FS_AddElement, Zenon
      <4> QED
        BY <1>8, <4>1
    <3>3. Cardinality(after) <= Cardinality(before \cup {x})
      BY <3>1, <3>2, FS_Subset
    <3>4. Cardinality(after) \in Nat /\ Cardinality(before \cup {x}) \in Nat
      BY <3>1, <3>2, FS_Subset, FS_CardinalityType
    <3> QED
      BY <1>3, <1>8, <1>9, <2>1, <3>2, <3>3, <3>4
  <2>2. CASE ~Cut(t)
    <3>1. after \subseteq before
      BY <1>7, <2>2
    <3>2. Cardinality(after) <= Cardinality(before) /\ Cardinality(after) \in Nat
      BY <1>8, <3>1, FS_Subset, FS_CardinalityType
    <3> QED
      BY <1>3, <1>8, <1>9, <3>2
  <2> QED
    BY <2>1, <2>2
<1> QED
  BY <1>4, <1>7, <1>9, <1>10, Zenon DEF after

LEMMA DamageStep ==
  ASSUME TypeInv, TypeInv', FileInv, DamageInv, [Next]_vars
  PROVE  DamageInv'
<1> DEFINE D == Cardinality(Damaged(header, Range(written), text))
           F == Cardinality(Damaged(header, Range(InOrder), Final))
<1>1. D \in Nat /\ cuts \in Nat
  <2>1. written \in Seq(Entries)
    BY DEF TypeInv, TypeOK
  <2> QED
    BY <2>1, DamagedFinite DEF TypeInv, TypeOK
<1>2. /\ D <= cuts
      /\ mode # "write_data_csv" /\ exists /\ Cut(text) => D + 1 <= cuts
      /\ mode = "write_data_csv" => ~Cut(Final) /\ F <= cuts
  BY Zenon DEF DamageInv
<1>3. DamageInv' <=>
        /\ D' <= cuts'
        /\ mode' # "write_data_csv" /\ exists' /\ Cut(text') => D' + 1 <= cuts'
        /\ mode' = "write_data_csv" => ~Cut(Final') /\ F' <= cuts'
  BY Zenon DEF DamageInv
<1>4. ASSUME NEW batch \in Seq(RowSpace), IsBatch(batch), mode # "write_data_csv",
             StartFlush(batch)
      PROVE  DamageInv'
  <2>1. mode' = "write_data_csv" /\ UNCHANGED <<text, written, cuts>>
    BY <1>4 DEF StartFlush
  <2>2. /\ Cardinality(Damaged(header', Range(written), text)) <= cuts
        /\ ~Cut(Final')
        /\ Cardinality(Damaged(header', Range(InOrder'), Final')) <= cuts
    BY <1>4, StartDamages
  <2>3. D' <= cuts' /\ F' <= cuts'
    BY <2>1, <2>2, Zenon
  <2> HIDE DEF D, F
  <2> QED
    BY <1>3, <2>1, <2>2, <2>3
<1>5. ASSUME NEW n \in 1 .. Len(buffer), Spill(n) PROVE DamageInv'
  <2>1. Final' = Final /\ InOrder' = InOrder
    BY <1>5, SpillKeeps
  <2>2. UNCHANGED <<exists, mode, written, header, cuts>> /\ mode = "write_data_csv"
    BY <1>5 DEF Spill
  <2>3. D' <= D
    <3>1. text' = text \o SubSeq(buffer, 1, n)
      BY <1>5 DEF Spill
    <3>2. text \in Seq(Tokens) /\ written \in Seq(Entries) /\ SubSeq(buffer, 1, n) \in Seq(Tokens)
      BY DEF TypeInv, TypeOK
    <3>3. Cardinality(Damaged(header, Range(written), text \o SubSeq(buffer, 1, n))) <= D
      BY <3>2, DamagedShrinks
    <3> QED
      BY <2>2, <3>1, <3>3, Zenon
  <2>4. F' = F
    BY <2>1, <2>2, Zenon
  <2>5. D' \in Nat
    <3>1. written' \in Seq(Entries)
      BY DEF TypeInv, TypeOK
    <3> QED
      BY <3>1, DamagedFinite
  <2> HIDE DEF D, F
  <2>6. D' <= cuts'
    BY <1>1, <1>2, <2>2, <2>3, <2>5
  <2> QED
    BY <1>2, <1>3, <2>1, <2>2, <2>4, <2>6
<1>6. ASSUME FinishFlush PROVE DamageInv'
  <2>1. /\ Final = text /\ text' = text /\ written' = InOrder
        /\ mode = "write_data_csv" /\ mode' # "write_data_csv"
        /\ header' = header /\ cuts' = cuts
    BY <1>6, FinishKeeps DEF FinishFlush
  <2>2. D' = F
    BY <2>1, Zenon
  <2> HIDE DEF D, F
  <2> QED
    BY <1>2, <1>3, <2>1, <2>2
<1>7. ASSUME Interrupt PROVE DamageInv'
  <2>1. UNCHANGED <<exists, text, written, header>> /\ mode' # "write_data_csv"
        /\ cuts' = (IF mode = "write_data_csv" THEN cuts + 1 ELSE cuts)
    BY <1>7 DEF Interrupt
  <2>2. D' = D
    BY <2>1, Zenon
  <2> HIDE DEF D, F
  <2> QED
    BY <1>1, <1>2, <1>3, <2>1, <2>2
<1>8. ASSUME UNCHANGED <<exists, text, rows, buffer, written, header, cuts>>,
             mode # "write_data_csv" <=> mode' # "write_data_csv"
      PROVE  DamageInv'
  <2>1. Final' = Final /\ InOrder' = InOrder
    BY <1>8 DEF Final, InOrder
  <2>2. D' = D /\ F' = F
    BY <1>8, <2>1, Zenon
  <2> HIDE DEF D, F
  <2> QED
    BY <1>2, <1>3, <1>8, <2>1, <2>2
<1> HIDE DEF D, F
<1> QED
  BY <1>4, <1>5, <1>6, <1>7, <1>8, StepKinds, Zenon

LEMMA DamageBounds ==
  ASSUME TypeInv, DamageInv, HeaderWhole, ~ReadFails
  PROVE  Cardinality({w \in Range(written) :
                        w.hs = header /\ AsStored(w) \notin Range(read_csv_file)}) <= cuts
<1> DEFINE rs == Records(text)
           cs == CompleteRecords(text)
           read == read_csv_file
           Lost == {w \in Range(written) : w.hs = header /\ AsStored(w) \notin Range(read)}
           D == Damaged(header, Range(written), text)
<1>1. rs \in Seq(RecordSpace) /\ cs \in Seq(RecordSpace) /\ IsPrefix(cs, rs)
  BY RecordsNow
<1>2. written \in Seq(Entries)
  BY DEF TypeInv, TypeOK
<1>3. rs # << >> /\ rs[1] = header
  BY DEF HeaderWhole
<1>4. D = {w \in Range(written) : w.hs = header /\ ~Follow(w, cs)}
  BY Zenon DEF Damaged
<1>5. Cardinality(D) <= cuts /\ IsFiniteSet(D) /\ cuts \in Nat
  BY <1>2, DamagedFinite DEF DamageInv, TypeInv, TypeOK
<1>6. read = RowsUnder(rs)
  BY Zenon DEF read_csv_file
<1> HIDE DEF rs, cs, read, D
<1>7. /\ DOMAIN read = 1 .. Len(rs) - 1
      /\ \A i \in 1 .. Len(rs) - 1 : read[i] = RecordRow(rs[1], rs[i + 1])
  <2>1. read \in Seq(ReadSpace)
    BY <1>1, <1>6, RowsUnderFacts
  <2>2. DOMAIN read = 1 .. Len(read)
    BY <2>1
  <2> QED
    BY <1>1, <1>3, <1>6, <2>2, RowsUnderFacts
<1>8. ASSUME NEW w \in Range(written), w.hs = header, Follow(w, cs)
      PROVE  AsStored(w) \in Range(read)
  <2>1. w \in Entries
    BY <1>2 DEF Range
  <2>2. PICK k \in 2 .. Len(cs) : cs[k] = RecordFor(w)
    BY <1>8 DEF Follow
  <2>3. /\ Len(cs) <= Len(rs) /\ \A i \in 1 .. Len(cs) : cs[i] = rs[i]
    BY <1>1, PrefixIff
  <2>4. Len(cs) \in Nat /\ Len(rs) \in Nat
    BY <1>1
  <2>5. k \in 1 .. Len(cs) /\ k - 1 \in 1 .. Len(rs) - 1 /\ (k - 1) + 1 = k
    BY <2>3, <2>4
  <2>6. read[k - 1] = RecordRow(header, RecordFor(w))
    BY <1>3, <1>7, <2>2, <2>3, <2>5
  <2>7. read[k - 1] = AsStored(w)
    BY <1>8, <2>1, <2>6, StoredReadsBack, Zenon
  <2> QED
    BY <1>7, <2>5, <2>7 DEF Range
<1>9. Lost \in SUBSET D
  BY <1>4, <1>8
<1>10. Cardinality(Lost) <= Cardinality(D)
       /\ Cardinality(Lost) \in Nat /\ Cardinality(D) \in Nat
  <2> HIDE DEF Lost
  <2> QED
    BY <1>5, <1>9, FS_Subset, FS_CardinalityType
<1>11. Cardinality(Lost) <= cuts
  BY <1>5, <1>10
<1> QED
  BY <1>11 DEF read

(* A crash or an error in a flush damages at most one flushed row, however *)
(* often flushes are cut, and replayed, and cut again, while the file can  *)
(* be read at all.                                                         *)
THEOREM CsvDamageBounded == Spec => []DamageBounded
<1>1. Init => TypeInv /\ FileInv /\ DamageInv
  BY TypesInit, FileInit, DamageInit
<1>2. TypeInv /\ FileInv /\ DamageInv /\ [Next]_vars => (TypeInv /\ FileInv /\ DamageInv)'
  BY TypesStep, FileStep, DamageStep
<1>3. TypeInv /\ FileInv /\ DamageInv => DamageBounded
  BY DamageBounds DEF DamageBounded
<1> QED
  BY <1>1, <1>2, <1>3, PTL DEF Spec

=============================================================================
