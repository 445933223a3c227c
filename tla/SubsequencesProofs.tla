------------------------- MODULE SubsequencesProofs -------------------------
(***************************************************************************)
(* What the operators of Subsequences do to every sequence.  The library's  *)
(* induction theorems take an operator as a parameter, which no prover here *)
(* can give a value; a well-founded order has minimal elements, though, and *)
(* that is stated of sets: induction over the numbers, and with it over the *)
(* sequences, is proved from it for a set, and used with the set of what    *)
(* satisfies the formula.  At the end: runs of a numbered line, of which the *)
(* proofs about the frames on a stream speak.                               *)
(***************************************************************************)
EXTENDS Subsequences, WellFoundedInduction, TLAPS

----------------------------------------------------------------------------
\* A set of numbers that has 0 and, with each number, the next one has them all: its complement has
\* no least element.
LEMMA NumberInduction ==
  ASSUME NEW S, 0 \in S, \A n \in Nat : n \in S => n + 1 \in S
  PROVE  Nat \subseteq S
<1> DEFINE T == Nat \ S
<1>1. SUFFICES ASSUME T # {} PROVE FALSE OBVIOUS
<1>2. PICK x \in T : \A y \in T : ~ (<<y, x>> \in OpToRel(<,Nat))
  <2>1. T \subseteq Nat OBVIOUS
  <2> DEFINE R == OpToRel(<,Nat)
  <2>2. IsWellFoundedOn(R, Nat) BY NatLessThanWellFounded, Zenon
  <2> HIDE DEF T, R
  <2>3. \E x \in T : \A y \in T : ~ (<<y, x>> \in R) BY WFMin, <1>1, <2>1, <2>2, Zenon
  <2> QED BY <2>3, Zenon DEF R
<1>3. x # 0 /\ x - 1 \in Nat /\ x - 1 < x OBVIOUS
<1>4. x - 1 \notin S
  <2>1. CASE x - 1 \in S
    <3>1. (x - 1) + 1 \in S BY <1>3, <2>1
    <3>2. (x - 1) + 1 = x OBVIOUS
    <3> QED BY <3>1, <3>2
  <2> QED BY <2>1
<1>5. <<x - 1, x>> \in OpToRel(<,Nat) BY <1>3 DEF OpToRel
<1> QED BY <1>2, <1>3, <1>4, <1>5

\* A sequence is its front and its last item.
LEMMA FrontAndLast ==
  ASSUME NEW T, NEW s \in Seq(T), Len(s) > 0
  PROVE  \E t \in Seq(T), x \in T : s = Append(t, x) /\ Len(t) = Len(s) - 1
<1>1. PICK n \in Nat : Len(s) = n + 1
  <2>1. Len(s) - 1 \in Nat /\ Len(s) = (Len(s) - 1) + 1 OBVIOUS
  <2> QED BY <2>1
<1> DEFINE t == [i \in 1..n |-> s[i]]
<1>2. \A i \in 1..(n + 1) : s[i] \in T BY <1>1
<1>3. t \in Seq(T) /\ Len(t) = n /\ \A i \in 1..n : t[i] = s[i] BY <1>1, <1>2
<1> HIDE DEF t
<1>4. s = Append(t, s[n + 1])
  <2> DEFINE u == Append(t, s[n + 1])
  <2>1. u \in Seq(T) /\ Len(u) = n + 1 BY <1>2, <1>3, <1>1
  <2>2. u[n + 1] = s[n + 1] BY <1>3
  <2>3. \A i \in 1..n : u[i] = t[i] BY <1>3
  <2>4. \A i \in 1..(n + 1) : u[i] = s[i] BY <1>3, <2>2, <2>3
  <2> HIDE DEF u
  <2> QED BY <1>1, <2>1, <2>4 DEF u
<1>5. s[n + 1] \in T /\ Len(t) = Len(s) - 1 BY <1>1, <1>2, <1>3
<1> QED BY <1>3, <1>4, <1>5

\* Induction over sequences: what holds of the empty one, and of a longer one if
\* it holds of its front, holds of all.
LEMMA ListInduction ==
  ASSUME NEW T, NEW P, <<>> \in P, \A s \in Seq(T), x \in T : s \in P => Append(s, x) \in P
  PROVE  Seq(T) \subseteq P
<1> DEFINE S == {n \in Nat : \A s \in Seq(T) : Len(s) = n => s \in P}
<1>1. 0 \in S
  <2>1. \A s \in Seq(T) : Len(s) = 0 => s = <<>> OBVIOUS
  <2> QED BY <2>1
<1>2. ASSUME NEW n \in Nat, n \in S PROVE n + 1 \in S
  <2> SUFFICES ASSUME NEW s \in Seq(T), Len(s) = n + 1 PROVE s \in P OBVIOUS
  <2>1. PICK t \in Seq(T), x \in T : s = Append(t, x) /\ Len(t) = Len(s) - 1 BY FrontAndLast
  <2>2. t \in P BY <1>2, <2>1
  <2> QED BY <2>1, <2>2
<1>3. Nat \subseteq S
  <2> HIDE DEF S
  <2> QED BY <1>1, <1>2, NumberInduction
<1> QED BY <1>3

----------------------------------------------------------------------------
\* Kept is what its recursive function says: there is one such function, and on
\* a longer sequence it goes on from where it was.
IsKeptSoFar(k, s, S) ==
  k = [i \in 0..Len(s) |-> IF i = 0 THEN <<>> ELSE (IF s[i] \in S THEN Append(k[i - 1], s[i]) ELSE k[i - 1])]

\* A table of kept items goes on when the sequence does.
LEMMA KeptSoFarExtended ==
  ASSUME NEW T, NEW s \in Seq(T), NEW x \in T, NEW S, NEW k, IsKeptSoFar(k, s, S)
  PROVE  \E m : IsKeptSoFar(m, Append(s, x), S)
<1> DEFINE t == Append(s, x)
           last == (IF x \in S THEN Append(k[Len(s)], x) ELSE k[Len(s)])
           m == [i \in 0..(Len(s) + 1) |-> IF i = Len(s) + 1 THEN last ELSE k[i]]
<1>1. Len(s) \in Nat /\ Len(t) = Len(s) + 1 /\ t[Len(s) + 1] = x /\ \A i \in 1..Len(s) : t[i] = s[i]
  OBVIOUS
<1>2. ASSUME NEW i \in 0..(Len(s) + 1)
      PROVE  m[i] = IF i = 0 THEN <<>> ELSE (IF t[i] \in S THEN Append(m[i - 1], t[i]) ELSE m[i - 1])
  <2>1. CASE i = 0 BY <1>1, <2>1 DEF IsKeptSoFar
  <2>2. CASE i \in 1..Len(s)
    <3>1. i \in 0..Len(s) /\ i - 1 \in 0..Len(s) /\ i # 0 /\ i # Len(s) + 1 /\ i - 1 # Len(s) + 1 BY <1>1, <2>2
    <3>2. m[i] = k[i] /\ m[i - 1] = k[i - 1] BY <3>1, <1>1
    <3>3. k[i] = (IF s[i] \in S THEN Append(k[i - 1], s[i]) ELSE k[i - 1]) BY <3>1 DEF IsKeptSoFar
    <3> HIDE DEF m, t
    <3> QED BY <1>1, <2>2, <3>1, <3>2, <3>3
  <2>3. CASE i = Len(s) + 1
    <3>1. m[i] = last /\ m[i - 1] = k[Len(s)] /\ i # 0 BY <1>1, <2>3
    <3> HIDE DEF m, t
    <3> QED BY <1>1, <2>3, <3>1
  <2> QED BY <1>1, <2>1, <2>2, <2>3
<1>3. m = [i \in 0..Len(t) |-> IF i = 0 THEN <<>> ELSE (IF t[i] \in S THEN Append(m[i - 1], t[i]) ELSE m[i - 1])]
  <2>1. m = [i \in 0..(Len(s) + 1) |-> m[i]] OBVIOUS
  <2> HIDE DEF m, t, last
  <2> QED BY <1>1, <1>2, <2>1
<1> HIDE DEF m, t
<1> QED BY <1>3 DEF IsKeptSoFar, t

\* The recursion of KeptSoFar has a solution for every sequence.
LEMMA KeptSoFarExists ==
  ASSUME NEW T, NEW s \in Seq(T), NEW S
  PROVE  IsKeptSoFar(KeptSoFar(s, S), s, S)
<1> DEFINE P == {u \in Seq(T) : \E k : IsKeptSoFar(k, u, S)}
<1>1. <<>> \in P
  <2> DEFINE k == [i \in 0..0 |-> <<>>]
  <2>1. IsKeptSoFar(k, <<>>, S) BY DEF IsKeptSoFar
  <2> HIDE DEF k
  <2> QED BY <2>1
<1>2. ASSUME NEW u \in Seq(T), NEW x \in T, u \in P PROVE Append(u, x) \in P
  BY <1>2, KeptSoFarExtended
<1>3. s \in P
  <2> HIDE DEF P
  <2> QED BY <1>1, <1>2, ListInduction
<1>4. PICK k : IsKeptSoFar(k, s, S) BY <1>3
<1>5. KeptSoFar(s, S) = CHOOSE f : f = [i \in 0..Len(s) |-> IF i = 0 THEN <<>> ELSE (IF s[i] \in S THEN Append(f[i - 1], s[i]) ELSE f[i - 1])]
  BY DEF KeptSoFar
<1>6. \E f : f = [i \in 0..Len(s) |-> IF i = 0 THEN <<>> ELSE (IF s[i] \in S THEN Append(f[i - 1], s[i]) ELSE f[i - 1])]
  BY <1>4 DEF IsKeptSoFar
<1> QED BY <1>5, <1>6, Zenon DEF IsKeptSoFar

\* A table for s and one for s with x appended agree as far as both go.
LEMMA KeptSoFarGoesOn ==
  ASSUME NEW T, NEW s \in Seq(T), NEW x \in T, NEW S, NEW k, NEW m,
         IsKeptSoFar(k, s, S), IsKeptSoFar(m, Append(s, x), S)
  PROVE  m[Len(s)] = k[Len(s)]
<1> DEFINE Q == {i \in Nat : i <= Len(s) => m[i] = k[i]}
           t == Append(s, x)
<1>1. Len(s) \in Nat /\ Len(t) = Len(s) + 1 /\ \A i \in 1..Len(s) : t[i] = s[i] OBVIOUS
<1> HIDE DEF t
<1>2. /\ m[0] = <<>> /\ k[0] = <<>>
      /\ \A i \in 1..Len(s) : /\ k[i] = (IF s[i] \in S THEN Append(k[i - 1], s[i]) ELSE k[i - 1])
                            /\ m[i] = (IF t[i] \in S THEN Append(m[i - 1], t[i]) ELSE m[i - 1])
  <2>1. k[0] = <<>> /\ m[0] = <<>>
    <3>1. 0 \in 0..Len(s) /\ 0 \in 0..Len(t) BY <1>1
    <3> QED BY <3>1 DEF IsKeptSoFar, t
  <2>2. \A i \in 1..Len(s) : i \in 0..Len(s) /\ i \in 0..Len(t) /\ i # 0 BY <1>1
  <2> QED BY <2>1, <2>2 DEF IsKeptSoFar, t
<1>3. 0 \in Q BY <1>2
<1>4. ASSUME NEW n \in Nat, n \in Q PROVE n + 1 \in Q
  <2> SUFFICES ASSUME n + 1 <= Len(s) PROVE m[n + 1] = k[n + 1] OBVIOUS
  <2>1. n + 1 \in 1..Len(s) /\ (n + 1) - 1 = n /\ m[n] = k[n] BY <1>1, <1>4
  <2> QED BY <1>1, <1>2, <2>1
<1>5. Nat \subseteq Q
  <2> HIDE DEF Q
  <2> QED BY <1>3, <1>4, NumberInduction
<1> QED BY <1>1, <1>5

\* What is kept of a sequence when an item is appended.
LEMMA KeptAppend ==
  ASSUME NEW T, NEW s \in Seq(T), NEW x \in T, NEW S
  PROVE  /\ Kept(<<>>, S) = <<>>
         /\ Kept(Append(s, x), S) = (IF x \in S THEN Append(Kept(s, S), x) ELSE Kept(s, S))
<1> DEFINE k == KeptSoFar(s, S)
           m == KeptSoFar(Append(s, x), S)
           e == KeptSoFar(<<>>, S)
<1>1. IsKeptSoFar(k, s, S) /\ IsKeptSoFar(m, Append(s, x), S) /\ IsKeptSoFar(e, <<>>, S)
  <2>1. Append(s, x) \in Seq(T) /\ <<>> \in Seq(T) OBVIOUS
  <2> QED BY <2>1, KeptSoFarExists
<1> HIDE DEF k, m, e
<1>2. m[Len(s)] = k[Len(s)] BY <1>1, KeptSoFarGoesOn
<1>3. Len(Append(s, x)) = Len(s) + 1 /\ Append(s, x)[Len(s) + 1] = x /\ Len(s) \in Nat OBVIOUS
<1>4. m[Len(s) + 1] = (IF x \in S THEN Append(m[Len(s)], x) ELSE m[Len(s)])
  <2>1. Len(s) + 1 \in 0..Len(Append(s, x)) /\ Len(s) + 1 # 0 /\ (Len(s) + 1) - 1 = Len(s) BY <1>3
  <2> QED BY <1>1, <1>3, <2>1 DEF IsKeptSoFar
<1>5. e[0] = <<>> BY <1>1 DEF IsKeptSoFar
<1> QED BY <1>2, <1>3, <1>4, <1>5 DEF Kept, k, m, e

----------------------------------------------------------------------------
\* Total is what its recursive function says: there is one such function, and on
\* a longer sequence it goes on from where it was.
IsTotalSoFar(k, s, w) ==
  k = [i \in 0..Len(s) |-> IF i = 0 THEN 0 ELSE k[i - 1] + w[s[i]]]

\* A table of sums goes on when the sequence does.
LEMMA TotalSoFarExtended ==
  ASSUME NEW T, NEW s \in Seq(T), NEW x \in T, NEW w, NEW k, IsTotalSoFar(k, s, w)
  PROVE  \E m : IsTotalSoFar(m, Append(s, x), w)
<1> DEFINE t == Append(s, x)
           last == k[Len(s)] + w[x]
           m == [i \in 0..(Len(s) + 1) |-> IF i = Len(s) + 1 THEN last ELSE k[i]]
<1>1. Len(s) \in Nat /\ Len(t) = Len(s) + 1 /\ t[Len(s) + 1] = x /\ \A i \in 1..Len(s) : t[i] = s[i]
  OBVIOUS
<1>2. ASSUME NEW i \in 0..(Len(s) + 1)
      PROVE  m[i] = IF i = 0 THEN 0 ELSE m[i - 1] + w[t[i]]
  <2>1. CASE i = 0 BY <1>1, <2>1 DEF IsTotalSoFar
  <2>2. CASE i \in 1..Len(s)
    <3>1. i \in 0..Len(s) /\ i - 1 \in 0..Len(s) /\ i # 0 /\ i # Len(s) + 1 /\ i - 1 # Len(s) + 1 BY <1>1, <2>2
    <3>2. m[i] = k[i] /\ m[i - 1] = k[i - 1] BY <3>1, <1>1
    <3>3. k[i] = k[i - 1] + w[s[i]] BY <3>1 DEF IsTotalSoFar
    <3> HIDE DEF m, t
    <3> QED BY <1>1, <2>2, <3>1, <3>2, <3>3
  <2>3. CASE i = Len(s) + 1
    <3>1. m[i] = last /\ m[i - 1] = k[Len(s)] /\ i # 0 BY <1>1, <2>3
    <3> HIDE DEF m, t
    <3> QED BY <1>1, <2>3, <3>1
  <2> QED BY <1>1, <2>1, <2>2, <2>3
<1>3. m = [i \in 0..Len(t) |-> IF i = 0 THEN 0 ELSE m[i - 1] + w[t[i]]]
  <2>1. m = [i \in 0..(Len(s) + 1) |-> m[i]] OBVIOUS
  <2> HIDE DEF m, t, last
  <2> QED BY <1>1, <1>2, <2>1
<1> HIDE DEF m, t
<1> QED BY <1>3 DEF IsTotalSoFar, t

\* The recursion of TotalSoFar has a solution for every sequence.
LEMMA TotalSoFarExists ==
  ASSUME NEW T, NEW s \in Seq(T), NEW w
  PROVE  IsTotalSoFar(TotalSoFar(s, w), s, w)
<1> DEFINE P == {u \in Seq(T) : \E k : IsTotalSoFar(k, u, w)}
<1>1. <<>> \in P
  <2> DEFINE k == [i \in 0..0 |-> 0]
  <2>1. IsTotalSoFar(k, <<>>, w) BY DEF IsTotalSoFar
  <2> HIDE DEF k
  <2> QED BY <2>1
<1>2. ASSUME NEW u \in Seq(T), NEW x \in T, u \in P PROVE Append(u, x) \in P
  BY <1>2, TotalSoFarExtended
<1>3. s \in P
  <2> HIDE DEF P
  <2> QED BY <1>1, <1>2, ListInduction
<1>4. PICK k : IsTotalSoFar(k, s, w) BY <1>3
<1>5. TotalSoFar(s, w) = CHOOSE f : f = [i \in 0..Len(s) |-> IF i = 0 THEN 0 ELSE f[i - 1] + w[s[i]]]
  BY DEF TotalSoFar
<1>6. \E f : f = [i \in 0..Len(s) |-> IF i = 0 THEN 0 ELSE f[i - 1] + w[s[i]]]
  BY <1>4 DEF IsTotalSoFar
<1> QED BY <1>5, <1>6, Zenon DEF IsTotalSoFar

\* A table for s and one for s with x appended agree as far as both go.
LEMMA TotalSoFarGoesOn ==
  ASSUME NEW T, NEW s \in Seq(T), NEW x \in T, NEW w, NEW k, NEW m,
         IsTotalSoFar(k, s, w), IsTotalSoFar(m, Append(s, x), w)
  PROVE  m[Len(s)] = k[Len(s)]
<1> DEFINE Q == {i \in Nat : i <= Len(s) => m[i] = k[i]}
           t == Append(s, x)
<1>1. Len(s) \in Nat /\ Len(t) = Len(s) + 1 /\ \A i \in 1..Len(s) : t[i] = s[i] OBVIOUS
<1> HIDE DEF t
<1>2. /\ m[0] = 0 /\ k[0] = 0
      /\ \A i \in 1..Len(s) : /\ k[i] = k[i - 1] + w[s[i]]
                            /\ m[i] = m[i - 1] + w[t[i]]
  <2>1. k[0] = 0 /\ m[0] = 0
    <3>1. 0 \in 0..Len(s) /\ 0 \in 0..Len(t) BY <1>1
    <3> QED BY <3>1 DEF IsTotalSoFar, t
  <2>2. \A i \in 1..Len(s) : i \in 0..Len(s) /\ i \in 0..Len(t) /\ i # 0 BY <1>1
  <2> QED BY <2>1, <2>2 DEF IsTotalSoFar, t
<1>3. 0 \in Q BY <1>2
<1>4. ASSUME NEW n \in Nat, n \in Q PROVE n + 1 \in Q
  <2> SUFFICES ASSUME n + 1 <= Len(s) PROVE m[n + 1] = k[n + 1] OBVIOUS
  <2>1. n + 1 \in 1..Len(s) /\ (n + 1) - 1 = n /\ m[n] = k[n] BY <1>1, <1>4
  <2> QED BY <1>1, <1>2, <2>1
<1>5. Nat \subseteq Q
  <2> HIDE DEF Q
  <2> QED BY <1>3, <1>4, NumberInduction
<1> QED BY <1>1, <1>5

\* The sum of the weights when an item is appended.
LEMMA TotalAppend ==
  ASSUME NEW T, NEW s \in Seq(T), NEW x \in T, NEW w
  PROVE  /\ Total(<<>>, w) = 0
         /\ Total(Append(s, x), w) = Total(s, w) + w[x]
<1> DEFINE k == TotalSoFar(s, w)
           m == TotalSoFar(Append(s, x), w)
           e == TotalSoFar(<<>>, w)
<1>1. IsTotalSoFar(k, s, w) /\ IsTotalSoFar(m, Append(s, x), w) /\ IsTotalSoFar(e, <<>>, w)
  <2>1. Append(s, x) \in Seq(T) /\ <<>> \in Seq(T) OBVIOUS
  <2> QED BY <2>1, TotalSoFarExists
<1> HIDE DEF k, m, e
<1>2. m[Len(s)] = k[Len(s)] BY <1>1, TotalSoFarGoesOn
<1>3. Len(Append(s, x)) = Len(s) + 1 /\ Append(s, x)[Len(s) + 1] = x /\ Len(s) \in Nat OBVIOUS
<1>4. m[Len(s) + 1] = m[Len(s)] + w[x]
  <2>1. Len(s) + 1 \in 0..Len(Append(s, x)) /\ Len(s) + 1 # 0 /\ (Len(s) + 1) - 1 = Len(s) BY <1>3
  <2> QED BY <1>1, <1>3, <2>1 DEF IsTotalSoFar
<1>5. e[0] = 0 BY <1>1 DEF IsTotalSoFar
<1> QED BY <1>2, <1>3, <1>4, <1>5 DEF Total, k, m, e

----------------------------------------------------------------------------
\* Sequences and their items.
LEMMA AppendShape ==
  ASSUME NEW T, NEW s \in Seq(T), NEW x \in T
  PROVE  /\ Append(s, x) \in Seq(T) /\ Len(s) \in Nat /\ Len(Append(s, x)) = Len(s) + 1
         /\ Append(s, x)[Len(s) + 1] = x
         /\ \A i \in 1..Len(s) : Append(s, x)[i] = s[i]
OBVIOUS

\* The items of a sequence when one is appended.
LEMMA AppendItems ==
  ASSUME NEW T, NEW s \in Seq(T), NEW x \in T
  PROVE  /\ Items(<<>>) = {} /\ Items(s) \subseteq T
         /\ Items(Append(s, x)) = Items(s) \cup {x}
         /\ Distinct(Append(s, x)) <=> Distinct(s) /\ x \notin Items(s)
<1> DEFINE t == Append(s, x)
<1>1. Len(s) \in Nat /\ Len(t) = Len(s) + 1 /\ t[Len(s) + 1] = x /\ \A i \in 1..Len(s) : t[i] = s[i]
  OBVIOUS
<1> HIDE DEF t
<1>2. 1..Len(t) = 1..Len(s) \cup {Len(s) + 1} BY <1>1
<1>3. Items(t) = Items(s) \cup {x} BY <1>1, <1>2 DEF Items
<1>4. Items(<<>>) = {} /\ Items(s) \subseteq T BY DEF Items
<1>5. Distinct(t) => Distinct(s) /\ x \notin Items(s)
  <2> SUFFICES ASSUME Distinct(t) PROVE Distinct(s) /\ x \notin Items(s) OBVIOUS
  <2>1. Distinct(s) BY <1>1, <1>2 DEF Distinct
  <2>2. ASSUME NEW i \in 1..Len(s), s[i] = x PROVE FALSE
    <3>1. t[i] = t[Len(s) + 1] /\ i \in 1..Len(t) /\ Len(s) + 1 \in 1..Len(t) /\ i # Len(s) + 1 BY <1>1, <1>2, <2>2
    <3> QED BY <3>1 DEF Distinct
  <2> QED BY <2>1, <2>2 DEF Items
<1>6. ASSUME Distinct(s), x \notin Items(s) PROVE Distinct(t)
  <2> SUFFICES ASSUME NEW i \in 1..Len(t), NEW j \in 1..Len(t), t[i] = t[j] PROVE i = j BY DEF Distinct
  <2>1. CASE i \in 1..Len(s) /\ j \in 1..Len(s) BY <1>1, <1>6, <2>1 DEF Distinct
  <2>2. CASE i \in 1..Len(s) /\ j = Len(s) + 1 BY <1>1, <1>6, <2>2 DEF Items
  <2>3. CASE i = Len(s) + 1 /\ j \in 1..Len(s) BY <1>1, <1>6, <2>3 DEF Items
  <2> QED BY <1>2, <2>1, <2>2, <2>3
<1> QED BY <1>3, <1>4, <1>5, <1>6 DEF t

\* A sequence without items is empty.
LEMMA NoItems ==
  ASSUME NEW T, NEW s \in Seq(T), Items(s) = {}
  PROVE  s = <<>>
<1>1. Len(s) \in Nat OBVIOUS
<1>2. ASSUME Len(s) # 0 PROVE FALSE
  <2>1. 1 \in 1..Len(s) BY <1>1, <1>2
  <2> QED BY <2>1 DEF Items
<1> QED BY <1>2

\* A sequence whose items are all in U is a sequence of U.
LEMMA ItemsType ==
  ASSUME NEW T, NEW s \in Seq(T), NEW U, Items(s) \subseteq U
  PROVE  s \in Seq(U)
<1>1. \A i \in 1..Len(s) : s[i] \in U BY DEF Items
<1> QED BY <1>1

\* A sequence is its head and its tail.
LEMMA HeadAndTail ==
  ASSUME NEW T, NEW s \in Seq(T), s # <<>>
  PROVE  /\ Head(s) \in T /\ Tail(s) \in Seq(T) /\ Len(Tail(s)) = Len(s) - 1
         /\ s = <<Head(s)>> \o Tail(s)
         /\ Items(s) = {Head(s)} \cup Items(Tail(s))
         /\ Distinct(s) => Head(s) \notin Items(Tail(s)) /\ Distinct(Tail(s))
<1> DEFINE t == Tail(s)
<1>1. /\ Len(s) \in Nat \ {0} /\ Len(t) = Len(s) - 1 /\ Head(s) = s[1] /\ \A i \in 1..Len(t) : t[i] = s[i + 1]
      /\ Head(s) \in T /\ t \in Seq(T)
  OBVIOUS
<1> HIDE DEF t
<1>2. s = <<Head(s)>> \o t
  <2> DEFINE u == <<Head(s)>> \o t
  <2>1. u \in Seq(T) /\ Len(u) = Len(s) BY <1>1
  <2>2. u[1] = Head(s) BY <1>1
  <2>3. \A i \in 2..Len(s) : u[i] = t[i - 1] BY <1>1
  <2>4. \A i \in 1..Len(s) : u[i] = s[i]
    <3> SUFFICES ASSUME NEW i \in 1..Len(s) PROVE u[i] = s[i] OBVIOUS
    <3>1. CASE i = 1 BY <1>1, <2>2, <3>1
    <3>2. CASE i \in 2..Len(s)
      <4>1. i - 1 \in 1..Len(t) /\ (i - 1) + 1 = i BY <1>1, <3>2
      <4> HIDE DEF u
      <4> QED BY <1>1, <2>3, <3>2, <4>1
    <3> QED BY <1>1, <3>1, <3>2
  <2> HIDE DEF u
  <2>5. s = u BY <2>1, <2>4
  <2> QED BY <2>5 DEF u
<1>3. \A i \in 1..Len(s) : i = 1 \/ (i - 1 \in 1..Len(t) /\ s[i] = t[i - 1])
  <2> SUFFICES ASSUME NEW i \in 1..Len(s), i # 1 PROVE i - 1 \in 1..Len(t) /\ s[i] = t[i - 1] OBVIOUS
  <2>1. i - 1 \in 1..Len(t) /\ (i - 1) + 1 = i BY <1>1
  <2> QED BY <1>1, <2>1
<1>4. \A i \in 1..Len(t) : i + 1 \in 1..Len(s) /\ i + 1 # 1 BY <1>1
<1>5. Items(s) = {Head(s)} \cup Items(t)
  <2>1. ASSUME NEW i \in 1..Len(s) PROVE s[i] \in {Head(s)} \cup Items(t)
    <3>1. CASE i = 1 BY <1>1, <3>1
    <3>2. CASE i - 1 \in 1..Len(t) /\ s[i] = t[i - 1] BY <3>2 DEF Items
    <3> QED BY <1>3, <3>1, <3>2
  <2>4. Items(s) \subseteq {Head(s)} \cup Items(t) BY <2>1 DEF Items
  <2>2. {Head(s)} \subseteq Items(s) BY <1>1 DEF Items
  <2>3. Items(t) \subseteq Items(s) BY <1>1, <1>4 DEF Items
  <2> QED BY <2>2, <2>3, <2>4
<1>6. ASSUME Distinct(s) PROVE Head(s) \notin Items(t) /\ Distinct(t)
  <2>1. ASSUME NEW i \in 1..Len(t), t[i] = Head(s) PROVE FALSE
    <3>1. s[i + 1] = s[1] /\ 1 \in 1..Len(s) BY <1>1, <2>1
    <3> QED BY <1>4, <1>6, <3>1 DEF Distinct
  <2>2. ASSUME NEW i \in 1..Len(t), NEW j \in 1..Len(t), t[i] = t[j] PROVE i = j
    <3>1. s[i + 1] = s[j + 1] BY <1>1, <2>2
    <3>2. i + 1 = j + 1 BY <1>4, <1>6, <3>1 DEF Distinct
    <3> QED BY <3>2
  <2> QED BY <2>1, <2>2 DEF Items, Distinct
<1> QED BY <1>1, <1>2, <1>5, <1>6 DEF t

\* What two sequences joined hold.
LEMMA ConcatItems ==
  ASSUME NEW T, NEW s \in Seq(T), NEW t \in Seq(T)
  PROVE  /\ Items(s \o t) = Items(s) \cup Items(t)
         /\ Distinct(s) /\ Distinct(t) /\ Items(s) \cap Items(t) = {} => Distinct(s \o t)
<1> DEFINE a == s \o t
<1>1. /\ Len(s) \in Nat /\ Len(t) \in Nat /\ Len(a) = Len(s) + Len(t)
      /\ \A i \in 1..Len(s) : a[i] = s[i]
      /\ \A i \in 1..Len(t) : a[i + Len(s)] = t[i]
  OBVIOUS
<1> HIDE DEF a
<1>2. \A i \in 1..Len(a) : i \in 1..Len(s) \/ (i - Len(s) \in 1..Len(t) /\ a[i] = t[i - Len(s)])
  <2> SUFFICES ASSUME NEW i \in 1..Len(a), i \notin 1..Len(s)
               PROVE  i - Len(s) \in 1..Len(t) /\ a[i] = t[i - Len(s)]
    OBVIOUS
  <2>1. i - Len(s) \in 1..Len(t) /\ (i - Len(s)) + Len(s) = i BY <1>1
  <2> QED BY <1>1, <2>1
<1>3. (\A i \in 1..Len(s) : i \in 1..Len(a)) /\ (\A i \in 1..Len(t) : i + Len(s) \in 1..Len(a)) BY <1>1
<1>4. Items(a) = Items(s) \cup Items(t)
  <2>1. ASSUME NEW i \in 1..Len(a) PROVE a[i] \in Items(s) \cup Items(t)
    <3>1. CASE i \in 1..Len(s) BY <1>1, <3>1 DEF Items
    <3>2. CASE i - Len(s) \in 1..Len(t) /\ a[i] = t[i - Len(s)] BY <3>2 DEF Items
    <3> QED BY <1>2, <3>1, <3>2
  <2>2. Items(a) \subseteq Items(s) \cup Items(t) BY <2>1 DEF Items
  <2>3. Items(s) \subseteq Items(a) BY <1>1, <1>3 DEF Items
  <2>4. Items(t) \subseteq Items(a) BY <1>1, <1>3 DEF Items
  <2> QED BY <2>2, <2>3, <2>4
<1>5. ASSUME Distinct(s), Distinct(t), Items(s) \cap Items(t) = {} PROVE Distinct(a)
  <2> SUFFICES ASSUME NEW i \in 1..Len(a), NEW j \in 1..Len(a), a[i] = a[j] PROVE i = j BY DEF Distinct
  <2>1. \A m \in 1..Len(s), n \in 1..Len(t) : s[m] # t[n] BY <1>5 DEF Items
  <2>2. CASE i \in 1..Len(s) /\ j \in 1..Len(s) BY <1>1, <1>5, <2>2 DEF Distinct
  <2>3. CASE i \in 1..Len(s) /\ j \notin 1..Len(s)
    <3>1. j - Len(s) \in 1..Len(t) /\ a[j] = t[j - Len(s)] BY <1>2, <2>3
    <3> QED BY <1>1, <2>1, <2>3, <3>1
  <2>4. CASE i \notin 1..Len(s) /\ j \in 1..Len(s)
    <3>1. i - Len(s) \in 1..Len(t) /\ a[i] = t[i - Len(s)] BY <1>2, <2>4
    <3> QED BY <1>1, <2>1, <2>4, <3>1
  <2>5. CASE i \notin 1..Len(s) /\ j \notin 1..Len(s)
    <3>1. i - Len(s) \in 1..Len(t) /\ a[i] = t[i - Len(s)] BY <1>2, <2>5
    <3>2. j - Len(s) \in 1..Len(t) /\ a[j] = t[j - Len(s)] BY <1>2, <2>5
    <3>3. i - Len(s) = j - Len(s) BY <1>5, <3>1, <3>2 DEF Distinct
    <3> QED BY <1>1, <3>3
  <2> QED BY <2>2, <2>3, <2>4, <2>5
<1> QED BY <1>4, <1>5 DEF a

----------------------------------------------------------------------------
\* What is kept.
LEMMA KeptItems ==
  ASSUME NEW T, NEW s \in Seq(T), NEW S
  PROVE  /\ Kept(s, S) \in Seq(T) /\ Len(Kept(s, S)) <= Len(s)
         /\ Items(Kept(s, S)) = Items(s) \cap S
         /\ Distinct(s) => Distinct(Kept(s, S))
<1> DEFINE G(u) == /\ Kept(u, S) \in Seq(T) /\ Len(Kept(u, S)) <= Len(u)
                   /\ Items(Kept(u, S)) = Items(u) \cap S
                   /\ Distinct(u) => Distinct(Kept(u, S))
           P == {u \in Seq(T) : G(u)}
<1>1. <<>> \in P
  <2>1. Kept(<<>>, S) = <<>>
    <3>1. CASE T = {}
      <4>1. <<>> \in Seq({0}) OBVIOUS
      <4> QED BY <4>1, KeptAppend
    <3>2. CASE T # {} BY <3>2, KeptAppend
    <3> QED BY <3>1, <3>2
  <2>2. Items(<<>>) = {} /\ Distinct(<<>>) BY DEF Items, Distinct
  <2>3. <<>> \in Seq(T) /\ Len(<<>>) <= Len(<<>>) OBVIOUS
  <2>4. G(<<>>) BY <2>1, <2>2, <2>3
  <2> HIDE DEF G
  <2> QED BY <2>3, <2>4
<1>2. ASSUME NEW u \in Seq(T), NEW x \in T, u \in P PROVE Append(u, x) \in P
  <2> DEFINE v == Append(u, x)
             k == Kept(u, S)
  <2>0. G(u)
    <3> HIDE DEF G
    <3> QED BY <1>2
  <2>1. /\ k \in Seq(T) /\ Len(k) <= Len(u) /\ Items(k) = Items(u) \cap S /\ (Distinct(u) => Distinct(k))
    BY <2>0
  <2>2. Kept(v, S) = IF x \in S THEN Append(k, x) ELSE k BY KeptAppend
  <2>3. v \in Seq(T) /\ Len(v) = Len(u) + 1 /\ Items(v) = Items(u) \cup {x}
        /\ (Distinct(v) <=> Distinct(u) /\ x \notin Items(u))
    BY AppendItems
  <2> HIDE DEF v, k
  <2>4. CASE x \in S
    <3>1. Append(k, x) \in Seq(T) /\ Len(Append(k, x)) = Len(k) + 1 BY <2>1
    <3>2. Items(Append(k, x)) = Items(k) \cup {x} /\ (Distinct(Append(k, x)) <=> Distinct(k) /\ x \notin Items(k))
      BY <2>1, AppendItems
    <3>3. Kept(v, S) = Append(k, x) BY <2>2, <2>4
    <3>4. Len(Append(k, x)) <= Len(v)
      <4>1. Len(k) \in Nat /\ Len(u) \in Nat BY <2>1
      <4> QED BY <2>1, <2>3, <3>1, <4>1
    <3>5. Items(Append(k, x)) = Items(v) \cap S BY <2>1, <2>3, <2>4, <3>2
    <3> QED BY <2>1, <2>3, <3>1, <3>2, <3>3, <3>4, <3>5 DEF v
  <2>5. CASE x \notin S
    <3>1. Kept(v, S) = k BY <2>2, <2>5
    <3>2. Len(k) <= Len(v)
      <4>1. Len(k) \in Nat /\ Len(u) \in Nat BY <2>1
      <4> QED BY <2>1, <2>3, <4>1
    <3> QED BY <2>1, <2>3, <2>5, <3>1, <3>2 DEF v
  <2> QED BY <2>4, <2>5
<1>3. s \in P
  <2> HIDE DEF P
  <2> QED BY <1>1, <1>2, ListInduction
<1>4. G(s)
  <2> HIDE DEF G
  <2> QED BY <1>3
<1> QED BY <1>4

\* Nothing is kept of the empty sequence.
LEMMA KeptEmpty ==
  ASSUME NEW S
  PROVE  Kept(<<>>, S) = <<>>
<1>1. <<>> \in Seq({0}) OBVIOUS
<1> QED BY <1>1, KeptAppend

\* Everything, or nothing.
LEMMA KeptAllOrNone ==
  ASSUME NEW T, NEW s \in Seq(T), NEW S
  PROVE  /\ Items(s) \subseteq S => Kept(s, S) = s
         /\ Items(s) \cap S = {} => Kept(s, S) = <<>>
<1> DEFINE G(u) == /\ Items(u) \subseteq S => Kept(u, S) = u
                   /\ Items(u) \cap S = {} => Kept(u, S) = <<>>
           P == {u \in Seq(T) : G(u)}
<1>1. <<>> \in P BY KeptEmpty
<1>2. ASSUME NEW u \in Seq(T), NEW x \in T, u \in P PROVE Append(u, x) \in P
  <2>1. Items(Append(u, x)) = Items(u) \cup {x} BY AppendItems
  <2>2. Kept(Append(u, x), S) = IF x \in S THEN Append(Kept(u, S), x) ELSE Kept(u, S) BY KeptAppend
  <2>3. (Items(u) \subseteq S => Kept(u, S) = u) /\ (Items(u) \cap S = {} => Kept(u, S) = <<>>)
    <3>1. G(u)
      <4> HIDE DEF G
      <4> QED BY <1>2
    <3> QED BY <3>1
  <2>4. CASE x \in S
    <3>2. Items(Append(u, x)) \subseteq S => Kept(Append(u, x), S) = Append(u, x) BY <2>1, <2>2, <2>3, <2>4
    <3>3. Items(Append(u, x)) \cap S # {} BY <2>1, <2>4
    <3>4. Append(u, x) \in Seq(T) OBVIOUS
    <3> QED BY <3>2, <3>3, <3>4, Zenon
  <2>5. CASE x \notin S
    <3>1. ~(Items(Append(u, x)) \subseteq S) BY <2>1, <2>5
    <3>2. Items(Append(u, x)) \cap S = {} => Kept(Append(u, x), S) = <<>> BY <2>1, <2>2, <2>3, <2>5
    <3>3. Append(u, x) \in Seq(T) OBVIOUS
    <3> QED BY <3>1, <3>2, <3>3, Zenon
  <2> QED BY <2>4, <2>5
<1>3. s \in P
  <2> HIDE DEF P
  <2> QED BY <1>1, <1>2, ListInduction
<1>4. G(s)
  <2> HIDE DEF G
  <2> QED BY <1>3
<1> QED BY <1>4

\* Keeping twice is keeping what is in both sets.
LEMMA KeptTwice ==
  ASSUME NEW T, NEW s \in Seq(T), NEW A, NEW B
  PROVE  Kept(Kept(s, A), B) = Kept(s, A \cap B)
<1> DEFINE P == {u \in Seq(T) : Kept(Kept(u, A), B) = Kept(u, A \cap B)}
<1>1. <<>> \in P BY KeptEmpty
<1>2. ASSUME NEW u \in Seq(T), NEW x \in T, u \in P PROVE Append(u, x) \in P
  <2>1. Kept(u, A) \in Seq(T) BY KeptItems
  <2>2. Kept(Append(u, x), A) = IF x \in A THEN Append(Kept(u, A), x) ELSE Kept(u, A) BY KeptAppend
  <2>3. Kept(Append(Kept(u, A), x), B) = IF x \in B THEN Append(Kept(Kept(u, A), B), x) ELSE Kept(Kept(u, A), B)
    BY <2>1, KeptAppend
  <2>4. Kept(Append(u, x), A \cap B) = IF x \in A \cap B THEN Append(Kept(u, A \cap B), x) ELSE Kept(u, A \cap B)
    BY KeptAppend
  <2>5. Kept(Kept(u, A), B) = Kept(u, A \cap B) BY <1>2
  <2>6. Kept(Kept(Append(u, x), A), B) = Kept(Append(u, x), A \cap B)
    <3>1. CASE x \in A /\ x \in B BY <2>2, <2>3, <2>4, <2>5, <3>1
    <3>2. CASE x \in A /\ x \notin B BY <2>2, <2>3, <2>4, <2>5, <3>2
    <3>3. CASE x \notin A BY <2>2, <2>4, <2>5, <3>3
    <3> QED BY <3>1, <3>2, <3>3
  <2> QED BY <2>6
<1>3. s \in P
  <2> HIDE DEF P
  <2> QED BY <1>1, <1>2, ListInduction
<1> QED BY <1>3

\* Append after a concatenation appends to its second part.
LEMMA ConcatAppend ==
  ASSUME NEW T, NEW s \in Seq(T), NEW t \in Seq(T), NEW x \in T
  PROVE  s \o Append(t, x) = Append(s \o t, x) /\ s \o t \in Seq(T) /\ s \o <<>> = s
<1> DEFINE a == s \o Append(t, x)
           b == Append(s \o t, x)
<1>1. Len(s) \in Nat /\ Len(t) \in Nat OBVIOUS
<1>2. a \in Seq(T) /\ b \in Seq(T) /\ Len(a) = Len(s) + Len(t) + 1 /\ Len(b) = Len(s) + Len(t) + 1 OBVIOUS
<1>3. \A i \in 1..(Len(s) + Len(t) + 1) : a[i] = b[i] OBVIOUS
<1>4. a = b
  <2> HIDE DEF a, b
  <2> QED BY <1>1, <1>2, <1>3
<1> QED BY <1>4

\* Joining is associative, and appending is joining a sequence of one item.
LEMMA ConcatAssociative ==
  ASSUME NEW T, NEW s \in Seq(T), NEW t \in Seq(T), NEW u \in Seq(T)
  PROVE  (s \o t) \o u = s \o (t \o u)
<1> DEFINE a == (s \o t) \o u
           b == s \o (t \o u)
<1>1. Len(s) \in Nat /\ Len(t) \in Nat /\ Len(u) \in Nat OBVIOUS
<1>2. s \o t \in Seq(T) /\ t \o u \in Seq(T) /\ Len(s \o t) = Len(s) + Len(t) /\ Len(t \o u) = Len(t) + Len(u)
  OBVIOUS
<1>3. a \in Seq(T) /\ b \in Seq(T) /\ Len(a) = Len(s) + Len(t) + Len(u) /\ Len(b) = Len(s) + Len(t) + Len(u)
  BY <1>1, <1>2
<1>4. ASSUME NEW i \in 1..(Len(s) + Len(t) + Len(u)) PROVE a[i] = b[i]
  <2>1. CASE i <= Len(s)
    <3>1. i \in 1..Len(s) /\ i \in 1..Len(s \o t) BY <1>1, <1>2, <2>1
    <3>2. a[i] = (s \o t)[i] BY <1>2, <3>1
    <3> QED BY <1>2, <3>1, <3>2
  <2>2. CASE i > Len(s) /\ i <= Len(s) + Len(t)
    <3> DEFINE j == i - Len(s)
    <3>1. j \in 1..Len(t) /\ j \in 1..Len(t \o u) /\ i = Len(s) + j /\ i \in 1..Len(s \o t) BY <1>1, <1>2, <2>2
    <3>2. a[i] = (s \o t)[i] BY <1>2, <3>1
    <3>3. (s \o t)[i] = t[j] BY <1>1, <2>2, <3>1
    <3>4. b[i] = (t \o u)[j] BY <1>1, <1>2, <2>2, <3>1
    <3>5. (t \o u)[j] = t[j] BY <3>1
    <3> QED BY <3>2, <3>3, <3>4, <3>5
  <2>3. CASE i > Len(s) + Len(t)
    <3> DEFINE j == i - (Len(s) + Len(t))
               k == i - Len(s)
    <3>1. j \in 1..Len(u) /\ k \in 1..Len(t \o u) /\ i \notin 1..Len(s \o t) /\ k \notin 1..Len(t) /\ i \notin 1..Len(s)
          /\ k - Len(t) = j /\ i - Len(s \o t) = j
      BY <1>1, <1>2, <2>3
    <3>2. a[i] = u[i - Len(s \o t)] BY <1>1, <1>2, <1>3, <2>3, <3>1
    <3>3. b[i] = (t \o u)[k] BY <1>1, <1>2, <1>3, <2>3, <3>1
    <3>4. (t \o u)[k] = u[k - Len(t)] BY <1>1, <1>2, <3>1
    <3> QED BY <3>1, <3>2, <3>3, <3>4
  <2> QED BY <1>1, <2>1, <2>2, <2>3
<1>5. a = b
  <2> HIDE DEF a, b
  <2> QED BY <1>1, <1>3, <1>4
<1> QED BY <1>5

\* Append is concatenation with a sequence of one item.
LEMMA AppendIsConcat ==
  ASSUME NEW T, NEW s \in Seq(T), NEW x \in T
  PROVE  Append(s, x) = s \o <<x>>
<1>1. <<x>> = Append(<<>>, x) /\ <<>> \in Seq(T) /\ s \o <<>> = s OBVIOUS
<1>2. s \o Append(<<>>, x) = Append(s \o <<>>, x) BY <1>1, ConcatAppend
<1> QED BY <1>1, <1>2

\* The kept items of a concatenation: those of the first part, then those of the second.
LEMMA KeptConcat ==
  ASSUME NEW T, NEW s \in Seq(T), NEW t \in Seq(T), NEW S
  PROVE  Kept(s \o t, S) = Kept(s, S) \o Kept(t, S)
<1> DEFINE P == {u \in Seq(T) : Kept(s \o u, S) = Kept(s, S) \o Kept(u, S)}
<1>0. Kept(s, S) \in Seq(T) BY KeptItems
<1>1. <<>> \in P BY <1>0, KeptEmpty
<1>2. ASSUME NEW u \in Seq(T), NEW x \in T, u \in P PROVE Append(u, x) \in P
  <2>1. s \o Append(u, x) = Append(s \o u, x) /\ s \o u \in Seq(T) BY ConcatAppend
  <2>2. Kept(u, S) \in Seq(T) BY KeptItems
  <2>3. Kept(s, S) \o Append(Kept(u, S), x) = Append(Kept(s, S) \o Kept(u, S), x) BY <1>0, <2>2, ConcatAppend
  <2>4. Kept(Append(u, x), S) = IF x \in S THEN Append(Kept(u, S), x) ELSE Kept(u, S) BY KeptAppend
  <2>5. Kept(Append(s \o u, x), S) = IF x \in S THEN Append(Kept(s \o u, S), x) ELSE Kept(s \o u, S)
    BY <2>1, KeptAppend
  <2>6. Kept(s \o u, S) = Kept(s, S) \o Kept(u, S) BY <1>2
  <2>7. Kept(s \o Append(u, x), S) = Kept(s, S) \o Kept(Append(u, x), S)
    <3>1. CASE x \in S BY <2>1, <2>3, <2>4, <2>5, <2>6, <3>1
    <3>2. CASE x \notin S BY <2>1, <2>4, <2>5, <2>6, <3>2
    <3> QED BY <3>1, <3>2
  <2> QED BY <2>7
<1>3. t \in P
  <2> HIDE DEF P
  <2> QED BY <1>1, <1>2, ListInduction
<1> QED BY <1>3

\* What is kept of a sequence, by whether its head is.
LEMMA KeptHead ==
  ASSUME NEW T, NEW s \in Seq(T), s # <<>>, NEW S
  PROVE  Kept(s, S) = (IF Head(s) \in S THEN <<Head(s)>> ELSE <<>>) \o Kept(Tail(s), S)
<1> DEFINE h == Head(s)
           t == Tail(s)
<1>1. h \in T /\ t \in Seq(T) /\ s = <<h>> \o t BY HeadAndTail
<1> HIDE DEF h, t
<1>2. <<h>> \in Seq(T) /\ <<h>> = Append(<<>>, h) /\ <<>> \in Seq(T) BY <1>1
<1>3. Kept(<<h>>, S) = IF h \in S THEN <<h>> ELSE <<>>
  <2>1. Kept(Append(<<>>, h), S) = IF h \in S THEN Append(Kept(<<>>, S), h) ELSE Kept(<<>>, S)
    BY <1>1, <1>2, KeptAppend, Zenon
  <2>2. Kept(<<>>, S) = <<>> BY KeptEmpty
  <2> QED BY <1>2, <2>1, <2>2
<1>4. Kept(<<h>> \o t, S) = Kept(<<h>>, S) \o Kept(t, S)
  <2> DEFINE a == <<h>>
  <2>1. a \in Seq(T) BY <1>2
  <2> HIDE DEF a
  <2>2. Kept(a \o t, S) = Kept(a, S) \o Kept(t, S) BY <1>1, <2>1, KeptConcat
  <2> QED BY <2>2 DEF a
<1>5. Kept(s, S) = Kept(<<h>>, S) \o Kept(t, S) BY <1>1, <1>4, Zenon
<1> QED BY <1>3, <1>5, Zenon DEF h, t

----------------------------------------------------------------------------
\* Totals.
LEMMA TotalEmpty ==
  ASSUME NEW w
  PROVE  Total(<<>>, w) = 0
<1>1. <<>> \in Seq({0}) OBVIOUS
<1> QED BY <1>1, TotalAppend

\* A sum of natural weights is natural.
LEMMA TotalType ==
  ASSUME NEW T, NEW w \in [T -> Nat], NEW s \in Seq(T)
  PROVE  Total(s, w) \in Nat
<1> DEFINE P == {u \in Seq(T) : Total(u, w) \in Nat}
<1>1. <<>> \in P BY TotalEmpty
<1>2. ASSUME NEW u \in Seq(T), NEW x \in T, u \in P PROVE Append(u, x) \in P
  <2>1. Total(Append(u, x), w) = Total(u, w) + w[x] BY TotalAppend
  <2> QED BY <1>2, <2>1
<1>3. s \in P
  <2> HIDE DEF P
  <2> QED BY <1>1, <1>2, ListInduction
<1> QED BY <1>3

\* The weight of a concatenation is the sum of the weights.
LEMMA TotalConcat ==
  ASSUME NEW T, NEW w \in [T -> Nat], NEW s \in Seq(T), NEW t \in Seq(T)
  PROVE  Total(s \o t, w) = Total(s, w) + Total(t, w)
<1> DEFINE P == {u \in Seq(T) : Total(s \o u, w) = Total(s, w) + Total(u, w)}
<1>1. <<>> \in P
  <2>1. Total(s, w) \in Nat /\ Total(<<>>, w) = 0 /\ s \o <<>> = s BY TotalType, TotalEmpty
  <2> QED BY <2>1
<1>2. ASSUME NEW u \in Seq(T), NEW x \in T, u \in P PROVE Append(u, x) \in P
  <2>1. s \o Append(u, x) = Append(s \o u, x) /\ s \o u \in Seq(T) BY ConcatAppend
  <2>2. Total(Append(u, x), w) = Total(u, w) + w[x] BY TotalAppend
  <2>3. Total(Append(s \o u, x), w) = Total(s \o u, w) + w[x] BY <2>1, TotalAppend
  <2>4. Total(s, w) \in Nat /\ Total(u, w) \in Nat /\ w[x] \in Nat BY TotalType
  <2>5. Total(s \o u, w) = Total(s, w) + Total(u, w) BY <1>2
  <2>6. Total(s \o Append(u, x), w) = Total(s, w) + Total(Append(u, x), w) BY <2>1, <2>2, <2>3, <2>4, <2>5
  <2> QED BY <2>6
<1>3. t \in P
  <2> HIDE DEF P
  <2> QED BY <1>1, <1>2, ListInduction
<1> QED BY <1>3

\* The weight of the head and that of the tail.
LEMMA TotalHead ==
  ASSUME NEW T, NEW w \in [T -> Nat], NEW s \in Seq(T), s # <<>>
  PROVE  Total(s, w) = w[Head(s)] + Total(Tail(s), w)
<1>1. Head(s) \in T /\ Tail(s) \in Seq(T) /\ s = <<Head(s)>> \o Tail(s) BY HeadAndTail
<1>2. <<Head(s)>> \in Seq(T) /\ <<Head(s)>> = Append(<<>>, Head(s)) BY <1>1
<1>3. Total(<<Head(s)>>, w) = w[Head(s)]
  <2>1. <<>> \in Seq(T) OBVIOUS
  <2>2. Total(Append(<<>>, Head(s)), w) = Total(<<>>, w) + w[Head(s)] BY <1>1, <2>1, TotalAppend
  <2>3. w[Head(s)] \in Nat BY <1>1
  <2>4. Total(<<>>, w) = 0 BY TotalEmpty
  <2> QED BY <1>2, <2>2, <2>3, <2>4
<1>4. Total(<<Head(s)>> \o Tail(s), w) = Total(<<Head(s)>>, w) + Total(Tail(s), w) BY <1>1, <1>2, TotalConcat
<1>5. Total(s, w) = Total(<<Head(s)>>, w) + Total(Tail(s), w) BY <1>1, <1>4, Zenon
<1> QED BY <1>3, <1>5, Zenon

\* What is kept and what is not make up the whole.
LEMMA KeptTotals ==
  ASSUME NEW T, NEW w \in [T -> Nat], NEW s \in Seq(T), NEW A, NEW B, T \subseteq A \cup B, A \cap B = {}
  PROVE  /\ Total(Kept(s, A), w) + Total(Kept(s, B), w) = Total(s, w)
         /\ Len(Kept(s, A)) + Len(Kept(s, B)) = Len(s)
<1> DEFINE P == {u \in Seq(T) : /\ Total(Kept(u, A), w) + Total(Kept(u, B), w) = Total(u, w)
                               /\ Len(Kept(u, A)) + Len(Kept(u, B)) = Len(u)}
<1>1. <<>> \in P BY KeptEmpty, TotalEmpty
<1>2. ASSUME NEW u \in Seq(T), NEW x \in T, u \in P PROVE Append(u, x) \in P
  <2> DEFINE v == Append(u, x)
             a == Kept(u, A)
             b == Kept(u, B)
  <2>1. a \in Seq(T) /\ b \in Seq(T) BY KeptItems
  <2> HIDE DEF a, b
  <2>21. Total(a, w) \in Nat BY <2>1, TotalType
  <2>22. Total(b, w) \in Nat BY <2>1, TotalType
  <2>23. Total(u, w) \in Nat BY TotalType
  <2>2. /\ Total(a, w) \in Nat /\ Total(b, w) \in Nat /\ Total(u, w) \in Nat /\ w[x] \in Nat
        /\ Len(a) \in Nat /\ Len(b) \in Nat /\ Len(u) \in Nat
    BY <2>1, <2>21, <2>22, <2>23
  <2>3. /\ Kept(v, A) = (IF x \in A THEN Append(a, x) ELSE a)
        /\ Kept(v, B) = (IF x \in B THEN Append(b, x) ELSE b)
    BY KeptAppend DEF a, b
  <2>4. /\ Total(Append(a, x), w) = Total(a, w) + w[x] /\ Total(Append(b, x), w) = Total(b, w) + w[x]
        /\ Total(v, w) = Total(u, w) + w[x]
    BY <2>1, TotalAppend
  <2>5. Len(Append(a, x)) = Len(a) + 1 /\ Len(Append(b, x)) = Len(b) + 1 /\ Len(v) = Len(u) + 1 /\ v \in Seq(T)
    BY <2>1
  <2>6. Total(a, w) + Total(b, w) = Total(u, w) /\ Len(a) + Len(b) = Len(u) BY <1>2, Zenon DEF a, b
  <2> HIDE DEF v
  <2>7. CASE x \in A /\ x \notin B
    <3>1. Kept(v, A) = Append(a, x) /\ Kept(v, B) = b BY <2>3, <2>7
    <3>2. Total(Append(a, x), w) + Total(b, w) = Total(v, w) BY <2>2, <2>4, <2>6
    <3>3. Len(Append(a, x)) + Len(b) = Len(v) BY <2>2, <2>5, <2>6
    <3> HIDE DEF P
    <3> QED BY <2>5, <3>1, <3>2, <3>3, Zenon DEF P, v
  <2>8. CASE x \notin A /\ x \in B
    <3>1. Kept(v, A) = a /\ Kept(v, B) = Append(b, x) BY <2>3, <2>8
    <3>2. Total(a, w) + Total(Append(b, x), w) = Total(v, w) BY <2>2, <2>4, <2>6
    <3>3. Len(a) + Len(Append(b, x)) = Len(v) BY <2>2, <2>5, <2>6
    <3> HIDE DEF P
    <3> QED BY <2>5, <3>1, <3>2, <3>3, Zenon DEF P, v
  <2> QED BY <2>7, <2>8
<1>3. s \in P
  <2> HIDE DEF P
  <2> QED BY <1>1, <1>2, ListInduction
<1> QED BY <1>3

----------------------------------------------------------------------------
\* Runs of a numbered line: s holds the items of f from the one after i to j.
IsRun(s, f, i, j) == Len(s) = j - i /\ \A x \in 1..Len(s) : s[x] = f[i + x]

\* The first item of a run is the next one of the line.
LEMMA RunHead ==
  ASSUME NEW T, NEW s \in Seq(T), NEW f, NEW i \in Nat, NEW j \in Nat, IsRun(s, f, i, j), s # <<>>
  PROVE  /\ i + 1 <= j /\ Head(s) = f[i + 1] /\ Head(s) \in T
         /\ Tail(s) \in Seq(T) /\ IsRun(Tail(s), f, i + 1, j)
<1> DEFINE t == Tail(s)
<1>1. /\ Len(s) \in Nat \ {0} /\ t \in Seq(T) /\ Len(t) = Len(s) - 1 /\ Head(s) = s[1] /\ Head(s) \in T
      /\ \A x \in 1..Len(t) : t[x] = s[x + 1]
  OBVIOUS
<1> HIDE DEF t
<1>2. Len(s) = j - i /\ \A x \in 1..Len(s) : s[x] = f[i + x] BY DEF IsRun
<1>3. 1 \in 1..Len(s) BY <1>1
<1>4. ASSUME NEW x \in 1..Len(t) PROVE t[x] = f[(i + 1) + x]
  <2>1. x + 1 \in 1..Len(s) /\ i + (x + 1) = (i + 1) + x BY <1>1
  <2> QED BY <1>1, <1>2, <2>1
<1>5. Len(t) = j - (i + 1) /\ i + 1 <= j BY <1>1, <1>2
<1> QED BY <1>1, <1>2, <1>3, <1>4, <1>5 DEF IsRun, t

\* A run goes on with the next item of the line.
LEMMA RunAppend ==
  ASSUME NEW T, NEW s \in Seq(T), NEW f, NEW i \in Nat, NEW j \in Nat, IsRun(s, f, i, j),
         NEW y \in T, y = f[j + 1]
  PROVE  Append(s, y) \in Seq(T) /\ IsRun(Append(s, y), f, i, j + 1)
<1> DEFINE t == Append(s, y)
<1>1. /\ t \in Seq(T) /\ Len(s) \in Nat /\ Len(t) = Len(s) + 1 /\ t[Len(s) + 1] = y
      /\ \A x \in 1..Len(s) : t[x] = s[x]
  BY AppendShape
<1> HIDE DEF t
<1>2. Len(s) = j - i /\ \A x \in 1..Len(s) : s[x] = f[i + x] BY DEF IsRun
<1>3. ASSUME NEW x \in 1..Len(t) PROVE t[x] = f[i + x]
  <2>1. CASE x \in 1..Len(s) BY <1>1, <1>2, <2>1
  <2>2. CASE x = Len(s) + 1
    <3>1. i + x = j + 1 BY <1>1, <1>2, <2>2
    <3> QED BY <1>1, <2>2, <3>1
  <2> QED BY <1>1, <2>1, <2>2
<1>4. Len(t) = (j + 1) - i BY <1>1, <1>2
<1> QED BY <1>1, <1>3, <1>4 DEF IsRun, t

\* A run without its last item.
LEMMA RunCut ==
  ASSUME NEW T, NEW s \in Seq(T), NEW f, NEW i \in Nat, NEW j \in Nat, IsRun(s, f, i, j), s # <<>>
  PROVE  /\ i <= j - 1 /\ SubSeq(s, 1, Len(s) - 1) \in Seq(T)
         /\ IsRun(SubSeq(s, 1, Len(s) - 1), f, i, j - 1)
<1> DEFINE t == SubSeq(s, 1, Len(s) - 1)
<1>1. Len(s) \in Nat \ {0} OBVIOUS
<1>2. t \in Seq(T) /\ Len(t) = Len(s) - 1 /\ \A x \in 1..Len(t) : t[x] = s[x]
  <2>1. t \in Seq(T) OBVIOUS
  <2>2. Len(t) = Len(s) - 1
    <3>1. PICK n \in Nat : n = Len(s) - 1 BY <1>1
    <3>2. Len(SubSeq(s, 1, n)) = n
      <4>1. CASE n = 0 BY <4>1
      <4>2. CASE n > 0 BY <3>1, <4>2
      <4> QED BY <4>1, <4>2
    <3> QED BY <3>1, <3>2
  <2>3. ASSUME NEW x \in 1..(Len(s) - 1) PROVE t[x] = s[x]
    <3>1. x \in Nat /\ 1 <= x /\ x <= Len(s) - 1 /\ 1 + x - 1 = x BY <1>1
    <3> QED BY <1>1, <3>1
  <2> QED BY <2>1, <2>2, <2>3
<1> HIDE DEF t
<1>3. Len(s) = j - i /\ \A x \in 1..Len(s) : s[x] = f[i + x] BY DEF IsRun
<1> QED BY <1>1, <1>2, <1>3 DEF IsRun, t

\* Only the items of a run matter to it.
LEMMA RunSame ==
  ASSUME NEW T, NEW s \in Seq(T), NEW f, NEW g, NEW i \in Nat, NEW j \in Nat, IsRun(s, f, i, j),
         \A x \in Nat : x <= j => g[x] = f[x]
  PROVE  IsRun(s, g, i, j)
<1>1. Len(s) = j - i /\ Len(s) \in Nat /\ \A x \in 1..Len(s) : s[x] = f[i + x] BY DEF IsRun
<1>2. \A x \in 1..Len(s) : i + x \in Nat /\ i + x <= j BY <1>1
<1> QED BY <1>1, <1>2 DEF IsRun

\* A run has as many items as there are positions.
LEMMA RunBounds ==
  ASSUME NEW T, NEW s \in Seq(T), NEW f, NEW i \in Nat, NEW j \in Nat, IsRun(s, f, i, j)
  PROVE  i <= j /\ (s = <<>> <=> i = j)
<1>1. Len(s) \in Nat /\ (s = <<>> <=> Len(s) = 0) OBVIOUS
<1> QED BY <1>1 DEF IsRun

\* Two items at the end.
LEMMA AppendTwo ==
  ASSUME NEW T, NEW s \in Seq(T), NEW x \in T, NEW y \in T
  PROVE  s \o <<x, y>> = Append(Append(s, x), y)
<1> DEFINE t == Append(Append(s, x), y)
           u == s \o <<x, y>>
<1>1. Len(s) \in Nat /\ t \in Seq(T) /\ u \in Seq(T) /\ Len(t) = Len(s) + 2 /\ Len(u) = Len(s) + 2 OBVIOUS
<1>2. ASSUME NEW i \in 1..(Len(s) + 2) PROVE t[i] = u[i]
  <2>1. CASE i \in 1..Len(s) BY <2>1
  <2>2. CASE i = Len(s) + 1 BY <2>2
  <2>3. CASE i = Len(s) + 2 BY <2>3
  <2> QED BY <1>1, <2>1, <2>2, <2>3
<1> HIDE DEF t, u
<1>3. t = u BY <1>1, <1>2
<1> QED BY <1>3 DEF t, u
=============================================================================
