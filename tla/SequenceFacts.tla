---------------------------- MODULE SequenceFacts ----------------------------
(***************************************************************************)
(* What the operators on sequences that the modules share do: Tail, Append *)
(* and \o to the indices of a sequence and, when no element occurs twice,  *)
(* to the set of its elements; FlattenSeq; sorting; and the sums of folds. *)
(* The recursive functions of the last three are reasoned about with        *)
(* induction on the natural numbers.                                       *)
(***************************************************************************)
EXTENDS Naturals, SequencesExt, FiniteSetTheorems, TLAPS

\* An element taken from the front and one put at the back, as the indices see it.
LEMMA TailIndices ==
  ASSUME NEW D, NEW q \in Seq(D), q # <<>>
  PROVE  /\ Tail(q) \in Seq(D) /\ Len(Tail(q)) = Len(q) - 1
         /\ 1 \in DOMAIN q /\ Head(q) = q[1]
         /\ \A i \in DOMAIN Tail(q) : i + 1 \in DOMAIN q /\ Tail(q)[i] = q[i + 1]
         /\ \A j \in DOMAIN q : j # 1 => j - 1 \in DOMAIN Tail(q) /\ Tail(q)[j - 1] = q[j]
<1>1. Len(q) \in Nat /\ Len(q) # 0 /\ DOMAIN q = 1 .. Len(q)
  OBVIOUS
<1>2. Tail(q) \in Seq(D) /\ Len(Tail(q)) = Len(q) - 1
  OBVIOUS
<1>3. DOMAIN Tail(q) = 1 .. Len(q) - 1
  BY <1>2
<1>4. \A i \in 1 .. Len(q) - 1 : Tail(q)[i] = q[i + 1]
  BY <1>1
<1>. QED BY <1>1, <1>2, <1>3, <1>4

\* The places of the elements of two sequences in the joined one
LEMMA JoinIndices ==
  ASSUME NEW D, NEW q \in Seq(D), NEW r \in Seq(D), NEW s, s = q \o r
  PROVE  /\ Len(s) = Len(q) + Len(r)
         /\ \A p \in 1 .. Len(q) : s[p] = q[p]
         /\ \A j \in 1 .. Len(r) : s[Len(q) + j] = r[j]
OBVIOUS

\* An element appended, as the indices see it.
LEMMA AppendIndices ==
  ASSUME NEW D, NEW q \in Seq(D), NEW x
  PROVE  /\ DOMAIN Append(q, x) = DOMAIN q \union {Len(q) + 1}
         /\ Append(q, x)[Len(q) + 1] = x
         /\ \A i \in DOMAIN q : i <= Len(q) /\ Append(q, x)[i] = q[i]
<1>1. Len(q) \in Nat /\ DOMAIN q = 1 .. Len(q)
  OBVIOUS
<1>. QED BY <1>1

-----------------------------------------------------------------------------

(* The same for a sequence without duplicates and its set of elements *)

\* Taking the first element leaves the others.
LEMMA TailElements ==
  ASSUME NEW D, NEW q \in Seq(D), q # <<>>
  PROVE  /\ Tail(q) \in Seq(D)
         /\ Head(q) \in Range(q) /\ Head(q) \in D
         /\ Range(q) = Range(Tail(q)) \union {Head(q)}
         /\ IsInjective(q) => IsInjective(Tail(q)) /\ Head(q) \notin Range(Tail(q))
<1>1. 1 \in DOMAIN q /\ Head(q) = q[1] /\ \A i \in DOMAIN q : q[i] \in D
  BY TailIndices
<1>2. Range(q) = Range(Tail(q)) \union {Head(q)}
  <2>1. ASSUME NEW i \in DOMAIN q, i # 1
        PROVE  q[i] \in Range(Tail(q))
    <3>1. i - 1 \in DOMAIN Tail(q) /\ Tail(q)[i - 1] = q[i]
      BY <2>1, TailIndices
    <3>. QED BY <3>1 DEF Range
  <2>2. ASSUME NEW i \in DOMAIN Tail(q)
        PROVE  Tail(q)[i] \in Range(q)
    BY TailIndices DEF Range
  <2>3. Range(q) \subseteq Range(Tail(q)) \union {Head(q)}
    BY <1>1, <2>1 DEF Range
  <2>4. Range(Tail(q)) \union {Head(q)} \subseteq Range(q)
    BY <1>1, <2>2 DEF Range
  <2>. QED BY <2>3, <2>4
<1>3. ASSUME IsInjective(q)
      PROVE  IsInjective(Tail(q)) /\ Head(q) \notin Range(Tail(q))
  <2>1. \A i \in DOMAIN Tail(q) : i \in Nat /\ i > 0
    BY TailIndices
  <2>. QED BY <1>1, <1>3, <2>1, TailIndices DEF IsInjective, Range
<1>. QED BY <1>1, <1>2, <1>3, TailIndices DEF Range

\* Appending an element adds it.
LEMMA AppendElements ==
  ASSUME NEW D, NEW q \in Seq(D), NEW x \in D
  PROVE  /\ Append(q, x) \in Seq(D)
         /\ Range(Append(q, x)) = Range(q) \union {x}
         /\ IsInjective(q) /\ x \notin Range(q) => IsInjective(Append(q, x))
<1>1. Append(q, x) \in Seq(D) /\ Len(q) \in Nat
  OBVIOUS
<1>. QED BY <1>1, AppendIndices DEF Range, IsInjective

\* Joining two sequences joins what is in them.
LEMMA JoinElements ==
  ASSUME NEW D, NEW q \in Seq(D), NEW r \in Seq(D)
  PROVE  /\ q \o r \in Seq(D)
         /\ Range(q \o r) = Range(q) \union Range(r)
         /\ IsInjective(q) /\ IsInjective(r) /\ Range(q) \intersect Range(r) = {}
              => IsInjective(q \o r)
<1>1. /\ Len(q) \in Nat /\ DOMAIN q = 1 .. Len(q)
      /\ Len(r) \in Nat /\ DOMAIN r = 1 .. Len(r)
  OBVIOUS
<1>2. /\ q \o r \in Seq(D) /\ DOMAIN (q \o r) = 1 .. Len(q) + Len(r)
      /\ \A i \in DOMAIN q : (q \o r)[i] = q[i]
      /\ \A i \in DOMAIN r : (q \o r)[Len(q) + i] = r[i]
  OBVIOUS
<1>3. \A i \in DOMAIN (q \o r) :
          i \in DOMAIN q \/ (i - Len(q) \in DOMAIN r /\ i = Len(q) + (i - Len(q)))
  BY <1>1, <1>2
<1>4. \A i \in DOMAIN (q \o r) :
          i \notin DOMAIN q => i - Len(q) \in DOMAIN r /\ (q \o r)[i] = r[i - Len(q)]
  BY <1>2, <1>3
<1>5. Range(q \o r) = Range(q) \union Range(r)
  <2>1. Range(q \o r) \subseteq Range(q) \union Range(r)
    BY <1>2, <1>4 DEF Range
  <2>2. \A i \in DOMAIN q : i \in DOMAIN (q \o r)
    BY <1>1, <1>2
  <2>3. \A i \in DOMAIN r : Len(q) + i \in DOMAIN (q \o r)
    BY <1>1, <1>2
  <2>. QED BY <1>2, <2>1, <2>2, <2>3 DEF Range
<1>6. ASSUME IsInjective(q), IsInjective(r), Range(q) \intersect Range(r) = {}
      PROVE  IsInjective(q \o r)
  <2>. SUFFICES ASSUME NEW a \in DOMAIN (q \o r), NEW b \in DOMAIN (q \o r),
                       (q \o r)[a] = (q \o r)[b]
                PROVE  a = b
    BY DEF IsInjective
  <2>1. CASE a \in DOMAIN q /\ b \in DOMAIN q
    BY <1>2, <1>6, <2>1 DEF IsInjective
  <2>2. CASE a \notin DOMAIN q /\ b \notin DOMAIN q
    <3>1. r[a - Len(q)] = r[b - Len(q)] /\ a - Len(q) = b - Len(q)
      BY <1>4, <1>6, <2>2 DEF IsInjective
    <3>. QED BY <1>1, <1>2, <3>1
  <2>3. \A i \in DOMAIN (q \o r) :
            IF i \in DOMAIN q THEN (q \o r)[i] \in Range(q) ELSE (q \o r)[i] \in Range(r)
    BY <1>2, <1>4 DEF Range
  <2>4. a \in DOMAIN q <=> b \in DOMAIN q
    BY <1>6, <2>3
  <2>. QED BY <2>1, <2>2, <2>4
<1>. QED BY <1>2, <1>5, <1>6

\* Without duplicates there are as many elements as places.
LEMMA ElementsCounted ==
  ASSUME NEW D, NEW q \in Seq(D), IsInjective(q)
  PROVE  IsFiniteSet(Range(q)) /\ Cardinality(Range(q)) = Len(q)
<1>1. Len(q) \in Nat /\ DOMAIN q = 1 .. Len(q)
  OBVIOUS
<1>2. q \in [1 .. Len(q) -> Range(q)]
  BY <1>1 DEF Range
<1>3. q \in Bijection(1 .. Len(q), Range(q))
  BY <1>1, <1>2 DEF Bijection, Injection, Surjection, Range, IsInjective
<1>4. ExistsBijection(1 .. Len(q), Range(q))
  BY <1>3 DEF ExistsBijection
<1>. QED BY <1>1, <1>4, FS_CountingElements, FS_NatBijection

-----------------------------------------------------------------------------

(* Induction *)

\* A set that holds 0 and the successor of each of its numbers holds every number.
LEMMA InductionOnNat ==
  ASSUME NEW S, 0 \in S, \A n \in Nat : n \in S => n + 1 \in S
  PROVE  \A n \in Nat : n \in S
<1>. DEFINE R == OpToRel(<, Nat)
            T == Nat \ S
<1>. SUFFICES ASSUME T # {} PROVE FALSE
  OBVIOUS
<1>1. PICK m \in T : \A n \in T : <<n, m>> \notin R
  <2>1. IsWellFoundedOn(R, Nat)
    BY NatLessThanWellFounded
  <2>2. T \subseteq Nat
    OBVIOUS
  <2>. HIDE DEF R, T
  <2>. QED BY <2>1, <2>2, WFMin
<1>2. m # 0 /\ m - 1 \in Nat
  OBVIOUS
<1>3. <<m - 1, m>> \in R
  BY <1>2 DEF OpToRel
<1>4. m - 1 \in S
  BY <1>1, <1>2, <1>3
<1>. QED BY <1>2, <1>4

\* The same from 1 to N
LEMMA InductionFromOne ==
  ASSUME NEW N \in Nat, NEW S, 1 \in S, \A n \in 2 .. N : n - 1 \in S => n \in S
  PROVE  \A n \in 1 .. N : n \in S
<1>. DEFINE T == {n \in Nat : n + 1 <= N => n + 1 \in S}
<1>1. 0 \in T
  OBVIOUS
<1>2. ASSUME NEW n \in Nat, n \in T PROVE n + 1 \in T
  <2>1. n + 1 + 1 <= N => n + 1 + 1 \in 2 .. N /\ n + 1 + 1 - 1 = n + 1
    OBVIOUS
  <2>. QED BY <1>2, <2>1
<1>3. \A n \in Nat : n \in T
  <2>. HIDE DEF T
  <2>. QED BY <1>1, <1>2, InductionOnNat
<1>4. ASSUME NEW n \in 1 .. N PROVE n \in S
  <2>1. n - 1 \in Nat /\ (n - 1) + 1 = n
    OBVIOUS
  <2>2. n - 1 \in T
    BY <1>3, <2>1
  <2>. QED BY <2>1, <2>2
<1>. QED BY <1>4

-----------------------------------------------------------------------------

(* Sequences joined one after the other *)

\* Where the sequences that are joined one after the other begin
Places(at, len, n) ==
  /\ at \in [0 .. n -> Nat] /\ at[0] = 0
  /\ \A i \in 1 .. n : at[i] = at[i - 1] + len[i]

\* Sequences of any lengths have such places.
LEMMA PlacesExist ==
  ASSUME NEW N \in Nat, NEW len \in [1 .. N -> Nat]
  PROVE  \E at : Places(at, len, N)
<1>. DEFINE S == {n \in Nat : n <= N => \E at : Places(at, len, n)}
<1>1. 0 \in S
  <2>. DEFINE at == [i \in 0 .. 0 |-> 0]
  <2>1. Places(at, len, 0)
    BY DEF Places
  <2>. QED BY <2>1
<1>2. ASSUME NEW n \in Nat, n \in S PROVE n + 1 \in S
  <2>. SUFFICES ASSUME n + 1 <= N PROVE \E at : Places(at, len, n + 1)
    OBVIOUS
  <2>1. PICK at : Places(at, len, n)
    BY <1>2
  <2>2. len[n + 1] \in Nat
    OBVIOUS
  <2>. DEFINE more == [i \in 0 .. n + 1 |-> IF i = n + 1 THEN at[n] + len[n + 1] ELSE at[i]]
  <2>3. more \in [0 .. n + 1 -> Nat] /\ more[0] = 0
    BY <2>1, <2>2 DEF Places
  <2>4. ASSUME NEW i \in 1 .. n + 1 PROVE more[i] = more[i - 1] + len[i]
    <3>1. CASE i = n + 1
      BY <3>1
    <3>2. CASE i # n + 1
      <4>1. i \in 1 .. n /\ i - 1 \in 0 .. n /\ i \in 0 .. n + 1 /\ i - 1 \in 0 .. n + 1 /\ i - 1 # n + 1
        BY <3>2
      <4>. QED BY <2>1, <3>2, <4>1 DEF Places
    <3>. QED BY <3>1, <3>2
  <2>. HIDE DEF more
  <2>5. Places(more, len, n + 1)
    BY <2>3, <2>4 DEF Places
  <2>. QED BY <2>5
<1>3. N \in S
  <2>. HIDE DEF S
  <2>. QED BY <1>1, <1>2, InductionOnNat
<1>. QED BY <1>3

\* FlattenSeq is what its recursive definition says: each sequence is joined to those
\* before it.
LEMMA FlattenRecursion ==
  ASSUME NEW D, NEW seqs \in Seq(Seq(D)), seqs # <<>>
  PROVE  \E f \in [1 .. Len(seqs) -> Seq(D)] :
            /\ f[1] = seqs[1]
            /\ \A i \in 2 .. Len(seqs) : f[i] = f[i - 1] \o seqs[i]
            /\ FlattenSeq(seqs) = f[Len(seqs)]
<1>. DEFINE N == Len(seqs)
            Joined(g) == [i \in 1 .. N |-> IF i = 1 THEN seqs[i] ELSE g[i - 1] \o seqs[i]]
            Joins(n, g) == /\ g \in [1 .. n -> Seq(D)]
                           /\ \A i \in 1 .. n : g[i] = IF i = 1 THEN seqs[i] ELSE g[i - 1] \o seqs[i]
            S == {n \in Nat : n <= N => \E g : Joins(n, g)}
<1>0. N \in Nat /\ N >= 1 /\ \A i \in 1 .. N : seqs[i] \in Seq(D)
  OBVIOUS
<1>1. 0 \in S
  <2>1. Joins(0, [i \in 1 .. 0 |-> <<>>])
    OBVIOUS
  <2>. HIDE DEF Joins
  <2>. QED BY <2>1
<1>2. ASSUME NEW n \in Nat, n \in S PROVE n + 1 \in S
  <2>. SUFFICES ASSUME n + 1 <= N PROVE \E g : Joins(n + 1, g)
    OBVIOUS
  <2>1. PICK f : Joins(n, f)
    <3>. HIDE DEF Joins
    <3>. QED BY <1>2
  <2>2. seqs[n + 1] \in Seq(D) /\ seqs[1] \in Seq(D) /\ (n # 0 => f[n] \in Seq(D))
    BY <1>0, <2>1
  <2>. DEFINE last == IF n = 0 THEN seqs[1] ELSE f[n] \o seqs[n + 1]
              g == [i \in 1 .. n + 1 |-> IF i = n + 1 THEN last ELSE f[i]]
  <2>3. last \in Seq(D)
    BY <2>2
  <2>4. g \in [1 .. n + 1 -> Seq(D)]
    <3>. HIDE DEF last
    <3>. QED BY <2>1, <2>3
  <2>5. ASSUME NEW i \in 1 .. n + 1 PROVE g[i] = IF i = 1 THEN seqs[i] ELSE g[i - 1] \o seqs[i]
    <3>1. CASE i = n + 1
      BY <3>1
    <3>2. CASE i # n + 1
      <4>1. i \in 1 .. n /\ (i # 1 => i - 1 \in 1 .. n + 1 /\ i - 1 # n + 1)
        BY <3>2
      <4>. QED BY <2>1, <3>2, <4>1
    <3>. QED BY <3>1, <3>2
  <2>. HIDE DEF g
  <2>6. Joins(n + 1, g)
    BY <2>4, <2>5
  <2>. QED BY <2>6
<1>3. N \in S
  <2>. HIDE DEF S, N
  <2>. QED BY <1>0, <1>1, <1>2, InductionOnNat
<1>4. PICK f : Joins(N, f)
  BY <1>3
<1>5. f = Joined(f)
  BY <1>4
<1>. DEFINE h == CHOOSE g : g = Joined(g)
<1>6. h = Joined(h)
  BY <1>5
<1>7. FlattenSeq(seqs) = h[N]
  BY <1>0 DEF FlattenSeq
<1>. HIDE DEF h
<1>8. \A i \in 1 .. N : h[i] = IF i = 1 THEN seqs[i] ELSE h[i - 1] \o seqs[i]
  BY <1>6
<1>9. \A i \in 1 .. N : h[i] \in Seq(D)
  <2>. DEFINE U == {n \in Nat : \A i \in 1 .. N : i <= n => h[i] \in Seq(D)}
  <2>1. 0 \in U
    OBVIOUS
  <2>2. ASSUME NEW n \in Nat, n \in U PROVE n + 1 \in U
    <3>1. ASSUME NEW i \in 1 .. N, i = n + 1 PROVE h[i] \in Seq(D)
      <4>1. i # 1 => h[i - 1] \in Seq(D)
        BY <2>2, <3>1
      <4>2. seqs[i] \in Seq(D)
        BY <1>0
      <4>3. h[i] = IF i = 1 THEN seqs[i] ELSE h[i - 1] \o seqs[i]
        BY <1>8
      <4>. HIDE DEF N
      <4>. QED BY <4>1, <4>2, <4>3
    <3>. QED BY <2>2, <3>1
  <2>3. N \in U
    <3>. HIDE DEF U, N
    <3>. QED BY <1>0, <2>1, <2>2, InductionOnNat
  <2>. QED BY <2>3
<1>10. h \in [1 .. N -> Seq(D)]
  BY <1>6, <1>9
<1>11. h[1] = seqs[1]
  BY <1>0, <1>8
<1>12. ASSUME NEW i \in 2 .. N PROVE h[i] = h[i - 1] \o seqs[i]
  <2>1. i \in 1 .. N /\ i # 1
    BY <1>0
  <2>. HIDE DEF N
  <2>. QED BY <1>8, <2>1
<1>. QED BY <1>7, <1>10, <1>11, <1>12

Lengths(seqs) == [i \in 1 .. Len(seqs) |-> Len(seqs[i])]

\* The sequences lie in `all' one after the other.
LaidOut(seqs, at, all) ==
  /\ Len(all) = at[Len(seqs)]
  /\ \A i \in 1 .. Len(seqs) : \A j \in 1 .. Len(seqs[i]) :
        at[i - 1] + j \in 1 .. at[Len(seqs)] /\ all[at[i - 1] + j] = seqs[i][j]
  /\ \A p \in 1 .. at[Len(seqs)] :
        \E i \in 1 .. Len(seqs) : \E j \in 1 .. Len(seqs[i]) : p = at[i - 1] + j

\* FlattenSeq puts the sequences at their places.
LEMMA FlattenPlaces ==
  ASSUME NEW D, NEW seqs \in Seq(Seq(D)), NEW at, Places(at, Lengths(seqs), Len(seqs))
  PROVE  FlattenSeq(seqs) \in Seq(D) /\ LaidOut(seqs, at, FlattenSeq(seqs))
<1>. DEFINE N == Len(seqs)
<1>1. N \in Nat /\ \A i \in 1 .. N : seqs[i] \in Seq(D) /\ Len(seqs[i]) \in Nat
  OBVIOUS
<1>2. CASE seqs = <<>>
  <2>1. FlattenSeq(seqs) = <<>> /\ Len(seqs) = 0
    BY <1>2 DEF FlattenSeq
  <2>2. at[0] = 0
    BY DEF Places
  <2>3. <<>> \in Seq(D) /\ Len(<<>>) = 0
    OBVIOUS
  <2>4. \A i \in 1 .. 0 : FALSE
    OBVIOUS
  <2>. QED BY <2>1, <2>2, <2>3, <2>4 DEF LaidOut
<1>3. CASE seqs # <<>>
  <2>1. PICK f \in [1 .. N -> Seq(D)] :
           /\ f[1] = seqs[1]
           /\ \A i \in 2 .. N : f[i] = f[i - 1] \o seqs[i]
           /\ FlattenSeq(seqs) = f[N]
    BY <1>3, FlattenRecursion
  <2>2. /\ at \in [0 .. N -> Nat] /\ at[0] = 0
        /\ \A i \in 1 .. N : at[i] = at[i - 1] + Len(seqs[i])
    BY <1>1 DEF Places, Lengths
  <2>3. N >= 1
    BY <1>1, <1>3
  <2>. DEFINE Block(n, i, j) ==
                 at[i - 1] + j \in 1 .. at[n] /\ f[n][at[i - 1] + j] = seqs[i][j]
              Covered(n, p) == \E i \in 1 .. n : \E j \in 1 .. Len(seqs[i]) : p = at[i - 1] + j
              Joined(n) == /\ Len(f[n]) = at[n]
                           /\ \A i \in 1 .. n : \A j \in 1 .. Len(seqs[i]) : Block(n, i, j)
                           /\ \A p \in 1 .. at[n] : Covered(n, p)
              S == {n \in 1 .. N : Joined(n)}
  <2>. HIDE DEF N, Block, Covered, Joined, S
  <2>4. 1 \in S
    <3>1. at[1] = Len(seqs[1]) /\ f[1] = seqs[1] /\ Len(seqs[1]) \in Nat
      BY <1>1, <2>1, <2>2, <2>3
    <3>2. \A j \in 1 .. Len(seqs[1]) : Block(1, 1, j)
      BY <2>2, <3>1 DEF Block
    <3>3. \A p \in 1 .. at[1] : p \in 1 .. Len(seqs[1]) /\ p = at[1 - 1] + p
      BY <2>2, <3>1
    <3>4. \A p \in 1 .. at[1] : Covered(1, p)
      BY <3>3 DEF Covered
    <3>. QED BY <1>1, <2>3, <3>1, <3>2, <3>4 DEF S, Joined
  <2>5. ASSUME NEW n \in 2 .. N, n - 1 \in S PROVE n \in S
    <3>1. Joined(n - 1) /\ n - 1 \in 1 .. N /\ n \in 1 .. N /\ n - 1 \in 0 .. N
      BY <1>1, <2>5 DEF S
    <3>2. /\ at[n] = at[n - 1] + Len(seqs[n]) /\ at[n - 1] \in Nat /\ Len(seqs[n]) \in Nat
          /\ f[n] = f[n - 1] \o seqs[n]
          /\ f[n - 1] \in Seq(D) /\ seqs[n] \in Seq(D)
      BY <1>1, <2>1, <2>2, <3>1
    <3>3. /\ Len(f[n]) = at[n]
          /\ \A p \in 1 .. at[n - 1] : f[n][p] = f[n - 1][p]
          /\ \A j \in 1 .. Len(seqs[n]) : f[n][at[n - 1] + j] = seqs[n][j]
      <4>1. Len(f[n - 1]) = at[n - 1]
        BY <3>1 DEF Joined
      <4>2. PICK before \in Seq(D), last \in Seq(D) : before = f[n - 1] /\ last = seqs[n]
        BY <3>2
      <4>3. f[n] = before \o last
        BY <3>2, <4>2
      <4>4. /\ Len(f[n]) = Len(before) + Len(last)
            /\ \A p \in 1 .. Len(before) : f[n][p] = before[p]
            /\ \A j \in 1 .. Len(last) : f[n][Len(before) + j] = last[j]
        BY <4>3, JoinIndices
      <4>. QED BY <3>2, <4>1, <4>2, <4>4
    <3>4. ASSUME NEW i \in 1 .. n, NEW j \in 1 .. Len(seqs[i]) PROVE Block(n, i, j)
      <4>1. CASE i = n
        <5>1. j \in 1 .. Len(seqs[n])
          BY <4>1
        <5>2. at[n - 1] + j \in 1 .. at[n]
          BY <3>2, <5>1
        <5>. QED BY <3>3, <4>1, <5>1, <5>2 DEF Block
      <4>2. CASE i # n
        <5>1. i \in 1 .. n - 1
          BY <4>2
        <5>2. Block(n - 1, i, j)
          BY <3>1, <5>1 DEF Joined
        <5>3. at[i - 1] + j \in 1 .. at[n - 1] /\ f[n - 1][at[i - 1] + j] = seqs[i][j]
          BY <5>2 DEF Block
        <5>4. at[n - 1] <= at[n] /\ at[n - 1] \in Nat /\ at[n] \in Nat
          BY <3>2
        <5>5. at[i - 1] + j \in 1 .. at[n]
          BY <5>3, <5>4
        <5>. QED BY <3>3, <5>3, <5>5 DEF Block
      <4>. QED BY <4>1, <4>2
    <3>5. ASSUME NEW p \in 1 .. at[n] PROVE Covered(n, p)
      <4>1. CASE p <= at[n - 1]
        <5>1. p \in 1 .. at[n - 1]
          BY <3>2, <4>1
        <5>2. Covered(n - 1, p)
          BY <3>1, <5>1 DEF Joined
        <5>3. \A i \in 1 .. n - 1 : i \in 1 .. n
          OBVIOUS
        <5>. QED BY <5>2, <5>3 DEF Covered
      <4>2. CASE p > at[n - 1]
        <5>1. p - at[n - 1] \in 1 .. Len(seqs[n]) /\ p = at[n - 1] + (p - at[n - 1])
          BY <3>2, <4>2
        <5>. QED BY <5>1 DEF Covered
      <4>. QED BY <3>2, <4>1, <4>2
    <3>. QED BY <3>1, <3>3, <3>4, <3>5 DEF S, Joined
  <2>6. Joined(N)
    <3>1. \A n \in 1 .. N : n \in S
      BY <1>1, <2>4, <2>5, InductionFromOne
    <3>2. N \in S
      BY <1>1, <2>3, <3>1
    <3>. QED BY <3>2 DEF S
  <2>7. /\ f[N] \in Seq(D) /\ Len(f[N]) = at[N]
        /\ \A i \in 1 .. N : \A j \in 1 .. Len(seqs[i]) :
              at[i - 1] + j \in 1 .. at[N] /\ f[N][at[i - 1] + j] = seqs[i][j]
        /\ \A p \in 1 .. at[N] : \E i \in 1 .. N : \E j \in 1 .. Len(seqs[i]) : p = at[i - 1] + j
    BY <1>1, <2>1, <2>3, <2>6 DEF Joined, Block, Covered
  <2>. QED BY <2>1, <2>7 DEF N, LaidOut
<1>. QED BY <1>2, <1>3

\* The places that sequences get when they are joined
LEMMA PlacesOf ==
  ASSUME NEW D, NEW seqs \in Seq(Seq(D))
  PROVE  /\ Len(seqs) \in Nat /\ \A i \in 1 .. Len(seqs) : seqs[i] \in Seq(D) /\ Len(seqs[i]) \in Nat
         /\ \E at : Places(at, Lengths(seqs), Len(seqs))
<1>1. Len(seqs) \in Nat /\ \A i \in 1 .. Len(seqs) : seqs[i] \in Seq(D) /\ Len(seqs[i]) \in Nat
  OBVIOUS
<1>2. Lengths(seqs) \in [1 .. Len(seqs) -> Nat]
  BY <1>1 DEF Lengths
<1>. QED BY <1>1, <1>2, PlacesExist

\* What is in the joined sequence, and when nothing is in it twice
LEMMA FlattenElements ==
  ASSUME NEW D, NEW seqs \in Seq(Seq(D))
  PROVE  /\ FlattenSeq(seqs) \in Seq(D)
         /\ Range(FlattenSeq(seqs)) = UNION {Range(seqs[i]) : i \in 1 .. Len(seqs)}
         /\ /\ \A i \in 1 .. Len(seqs) : IsInjective(seqs[i])
            /\ \A i, k \in 1 .. Len(seqs) : i # k => Range(seqs[i]) \intersect Range(seqs[k]) = {}
            => IsInjective(FlattenSeq(seqs))
<1>. DEFINE N == Len(seqs)
<1>1. PICK at : Places(at, Lengths(seqs), N)
  BY PlacesOf
<1>2. PICK all \in Seq(D) : all = FlattenSeq(seqs)
  BY <1>1, FlattenPlaces
<1>3. /\ Len(all) = at[N] /\ DOMAIN all = 1 .. at[N]
      /\ \A i \in 1 .. N : \A j \in 1 .. Len(seqs[i]) :
            at[i - 1] + j \in 1 .. at[N] /\ all[at[i - 1] + j] = seqs[i][j]
      /\ \A p \in 1 .. at[N] : \E i \in 1 .. N : \E j \in 1 .. Len(seqs[i]) : p = at[i - 1] + j
  <2>1. LaidOut(seqs, at, all)
    BY <1>1, <1>2, FlattenPlaces
  <2>2. Len(all) = at[N]
    BY <2>1 DEF LaidOut
  <2>3. DOMAIN all = 1 .. at[N]
    BY <2>2
  <2>. QED BY <2>1, <2>3 DEF LaidOut
<1>4. \A i \in 1 .. N : DOMAIN seqs[i] = 1 .. Len(seqs[i])
  OBVIOUS
<1>. HIDE DEF N
<1>5. Range(all) = UNION {Range(seqs[i]) : i \in 1 .. N}
  <2>1. ASSUME NEW p \in DOMAIN all PROVE \E i \in 1 .. N : all[p] \in Range(seqs[i])
    <3>0. PICK i \in 1 .. N : \E j \in 1 .. Len(seqs[i]) : p = at[i - 1] + j
      BY <1>3
    <3>1. PICK j \in 1 .. Len(seqs[i]) : p = at[i - 1] + j
      BY <3>0
    <3>2. all[p] = seqs[i][j]
      BY <1>3, <3>1
    <3>. QED BY <1>4, <3>2 DEF Range
  <2>2. ASSUME NEW i \in 1 .. N, NEW j \in DOMAIN seqs[i] PROVE seqs[i][j] \in Range(all)
    <3>1. j \in 1 .. Len(seqs[i])
      BY <1>4
    <3>2. at[i - 1] + j \in DOMAIN all /\ all[at[i - 1] + j] = seqs[i][j]
      BY <1>3, <3>1
    <3>. QED BY <3>2 DEF Range
  <2>3. Range(all) \subseteq UNION {Range(seqs[i]) : i \in 1 .. N}
    BY <2>1 DEF Range
  <2>4. UNION {Range(seqs[i]) : i \in 1 .. N} \subseteq Range(all)
    BY <2>2 DEF Range
  <2>. QED BY <2>3, <2>4
<1>6. ASSUME \A i \in 1 .. N : IsInjective(seqs[i]),
             \A i, k \in 1 .. N : i # k => Range(seqs[i]) \intersect Range(seqs[k]) = {}
      PROVE  IsInjective(all)
  <2>. SUFFICES ASSUME NEW p \in DOMAIN all, NEW q \in DOMAIN all, all[p] = all[q] PROVE p = q
    BY DEF IsInjective
  <2>0. PICK i \in 1 .. N : \E j \in 1 .. Len(seqs[i]) : p = at[i - 1] + j
    BY <1>3
  <2>1. PICK j \in 1 .. Len(seqs[i]) : p = at[i - 1] + j
    BY <2>0
  <2>6. PICK k \in 1 .. N : \E l \in 1 .. Len(seqs[k]) : q = at[k - 1] + l
    BY <1>3
  <2>2. PICK l \in 1 .. Len(seqs[k]) : q = at[k - 1] + l
    BY <2>6
  <2>3. seqs[i][j] = seqs[k][l] /\ j \in DOMAIN seqs[i] /\ l \in DOMAIN seqs[k]
    BY <1>3, <1>4, <2>1, <2>2
  <2>4. i = k
    BY <1>6, <2>3 DEF Range
  <2>5. j = l
    BY <1>6, <2>3, <2>4 DEF IsInjective
  <2>. QED BY <2>1, <2>2, <2>4, <2>5
<1>. QED BY <1>2, <1>5, <1>6 DEF N

\* A sequence that is joined later begins after those before it.
LEMMA PlacesGrow ==
  ASSUME NEW N \in Nat, NEW len \in [1 .. N -> Nat], NEW at, Places(at, len, N),
         NEW i \in 0 .. N, NEW k \in i .. N
  PROVE  at[i] <= at[k]
<1>. DEFINE S == {n \in Nat : i + n <= N => at[i] <= at[i + n]}
<1>1. 0 \in S
  BY DEF Places
<1>2. ASSUME NEW n \in Nat, n \in S PROVE n + 1 \in S
  <2> SUFFICES ASSUME i + (n + 1) <= N PROVE at[i] <= at[i + (n + 1)]
    OBVIOUS
  <2>1. i + (n + 1) \in 1 .. N /\ (i + (n + 1)) - 1 = i + n /\ i + n \in 0 .. N
    OBVIOUS
  <2>2. at[i] <= at[i + n]
    BY <1>2, <2>1
  <2>3. at[i + (n + 1)] = at[i + n] + len[i + (n + 1)]
    BY <2>1 DEF Places
  <2>4. at[i] \in Nat /\ at[i + n] \in Nat /\ len[i + (n + 1)] \in Nat
    BY <2>1 DEF Places
  <2>. QED BY <2>2, <2>3, <2>4
<1>3. k - i \in S
  <2>1. k - i \in Nat
    OBVIOUS
  <2>. HIDE DEF S
  <2>. QED BY <1>1, <1>2, <2>1, InductionOnNat
<1>. QED BY <1>3

\* If nothing is twice in the joined sequence, no two of the sequences
\* have an element in common.
LEMMA FlattenApart ==
  ASSUME NEW D, NEW seqs \in Seq(Seq(D)), IsInjective(FlattenSeq(seqs)),
         NEW i \in 1 .. Len(seqs), NEW k \in 1 .. Len(seqs), i < k
  PROVE  Range(seqs[i]) \intersect Range(seqs[k]) = {}
<1>. DEFINE N == Len(seqs)
<1>1. PICK at : Places(at, Lengths(seqs), N)
  BY PlacesOf
<1>2. PICK all \in Seq(D) : all = FlattenSeq(seqs)
  BY <1>1, FlattenPlaces
<1>3. /\ DOMAIN all = 1 .. at[N]
      /\ \A a \in 1 .. N : \A j \in 1 .. Len(seqs[a]) :
            at[a - 1] + j \in 1 .. at[N] /\ all[at[a - 1] + j] = seqs[a][j]
  <2>1. LaidOut(seqs, at, all)
    BY <1>1, <1>2, FlattenPlaces
  <2>2. Len(all) = at[N]
    BY <2>1 DEF LaidOut
  <2>3. DOMAIN all = 1 .. at[N]
    BY <2>2
  <2>. QED BY <2>1, <2>3 DEF LaidOut
<1>4. \A a \in 1 .. N : DOMAIN seqs[a] = 1 .. Len(seqs[a]) /\ Len(seqs[a]) \in Nat
  OBVIOUS
<1>5. N \in Nat /\ Lengths(seqs) \in [1 .. N -> Nat]
  BY <1>4 DEF Lengths
<1>6. at[i] <= at[k - 1] /\ at[i] = at[i - 1] + Len(seqs[i])
  <2>1. i \in 0 .. N /\ k - 1 \in i .. N
    BY <1>5
  <2>2. at[i] <= at[k - 1]
    BY <1>1, <1>5, <2>1, PlacesGrow
  <2>3. at[i] = at[i - 1] + Lengths(seqs)[i]
    BY <1>1 DEF Places
  <2>. QED BY <2>2, <2>3 DEF Lengths
<1>7. at[i - 1] \in Nat /\ at[k - 1] \in Nat /\ at[i] \in Nat
  <2>1. i - 1 \in 0 .. N /\ k - 1 \in 0 .. N /\ i \in 0 .. N
    BY <1>5
  <2>2. at \in [0 .. N -> Nat]
    BY <1>1 DEF Places
  <2>. QED BY <2>1, <2>2
<1>8. ASSUME NEW x \in DOMAIN seqs[i], NEW y \in DOMAIN seqs[k], seqs[i][x] = seqs[k][y] PROVE FALSE
  <2>1. x \in 1 .. Len(seqs[i]) /\ y \in 1 .. Len(seqs[k])
    BY <1>4
  <2>2. all[at[i - 1] + x] = all[at[k - 1] + y] /\ at[i - 1] + x \in DOMAIN all /\ at[k - 1] + y \in DOMAIN all
    BY <1>3, <1>8, <2>1
  <2>3. at[i - 1] + x = at[k - 1] + y
    BY <1>2, <2>2 DEF IsInjective
  <2>4. PICK a \in Nat, b \in Nat, c \in Nat, l \in Nat :
          a = at[i - 1] /\ b = at[k - 1] /\ c = at[i] /\ l = Len(seqs[i])
    BY <1>4, <1>7
  <2>5. c <= b /\ c = a + l /\ a + x = b + y /\ x \in 1 .. l /\ y \in Nat /\ y >= 1
    BY <1>4, <1>6, <2>1, <2>3, <2>4
  <2>. QED BY <2>5
<1>. QED BY <1>8 DEF Range

\* A function applied to the elements of a sequence, and to those of sequences
Applied(g, all) == [p \in DOMAIN all |-> g[all[p]]]

Mapped(g, seqs) == [i \in 1 .. Len(seqs) |-> [j \in DOMAIN seqs[i] |-> g[seqs[i][j]]]]

\* Joining and applying a function to the elements commute.
LEMMA FlattenMapped ==
  ASSUME NEW D, NEW E, NEW g \in [D -> E], NEW seqs \in Seq(Seq(D))
  PROVE  FlattenSeq(Mapped(g, seqs)) = Applied(g, FlattenSeq(seqs))
<1>. DEFINE N == Len(seqs)
            mapped == [i \in 1 .. N |-> [j \in DOMAIN seqs[i] |-> g[seqs[i][j]]]]
<1>1. N \in Nat /\ \A i \in 1 .. N : seqs[i] \in Seq(D) /\ DOMAIN seqs[i] = 1 .. Len(seqs[i]) /\ Len(seqs[i]) \in Nat
  OBVIOUS
<1>2. ASSUME NEW i \in 1 .. N PROVE mapped[i] \in Seq(E) /\ Len(mapped[i]) = Len(seqs[i])
  <2>1. \A j \in 1 .. Len(seqs[i]) : g[seqs[i][j]] \in E
    BY <1>1
  <2>2. mapped[i] = [j \in 1 .. Len(seqs[i]) |-> g[seqs[i][j]]]
    BY <1>1
  <2>3. mapped[i] \in [1 .. Len(seqs[i]) -> E]
    BY <2>1, <2>2
  <2>4. PICK n \in Nat : n = Len(seqs[i])
    BY <1>1
  <2>5. PICK m \in [1 .. n -> E] : m = mapped[i]
    BY <2>3, <2>4
  <2>6. m \in Seq(E) /\ Len(m) = n
    OBVIOUS
  <2>. HIDE DEF mapped
  <2>. QED BY <2>4, <2>5, <2>6
<1>3. mapped \in Seq(Seq(E)) /\ Len(mapped) = N
  BY <1>1, <1>2
<1>. HIDE DEF mapped
<1>4. PICK outs \in Seq(Seq(E)) : outs = mapped
  BY <1>3
<1>5. PICK at : Places(at, Lengths(seqs), N)
  BY PlacesOf
<1>6. Lengths(seqs) = Lengths(outs) /\ Len(outs) = N
  BY <1>2, <1>3, <1>4 DEF Lengths
<1>7. PICK all \in Seq(D) : all = FlattenSeq(seqs) /\ LaidOut(seqs, at, all)
  BY <1>5, FlattenPlaces
<1>8. Places(at, Lengths(outs), Len(outs))
  BY <1>5, <1>6
<1>9. PICK result \in Seq(E) : result = FlattenSeq(outs) /\ LaidOut(outs, at, result)
  BY <1>8, FlattenPlaces
<1>10. Len(all) = at[N] /\ Len(result) = at[N]
  BY <1>6, <1>7, <1>9 DEF LaidOut
<1>14. /\ \A i \in 1 .. N : \A j \in 1 .. Len(seqs[i]) : all[at[i - 1] + j] = seqs[i][j]
      /\ \A p \in 1 .. at[N] : \E i \in 1 .. N : \E j \in 1 .. Len(seqs[i]) : p = at[i - 1] + j
  BY <1>7 DEF LaidOut
<1>15. \A i \in 1 .. Len(outs) : \A j \in 1 .. Len(outs[i]) : result[at[i - 1] + j] = outs[i][j]
  BY <1>9 DEF LaidOut
<1>11. DOMAIN all = 1 .. at[N] /\ DOMAIN result = 1 .. at[N]
  BY <1>10
<1>12. ASSUME NEW p \in 1 .. at[N] PROVE result[p] = g[all[p]]
  <2>0. PICK i \in 1 .. N : \E j \in 1 .. Len(seqs[i]) : p = at[i - 1] + j
    BY <1>14
  <2>1. PICK j \in 1 .. Len(seqs[i]) : p = at[i - 1] + j
    BY <2>0
  <2>2. all[p] = seqs[i][j]
    BY <1>14, <2>1
  <2>3. i \in 1 .. Len(outs) /\ j \in 1 .. Len(outs[i])
    BY <1>2, <1>3, <1>4, <2>1
  <2>4. result[p] = outs[i][j]
    BY <1>15, <2>1, <2>3
  <2>5. outs[i][j] = g[seqs[i][j]]
    BY <1>1, <1>4 DEF mapped
  <2>. QED BY <2>2, <2>4, <2>5
<1>13. result = [p \in DOMAIN all |-> g[all[p]]]
  BY <1>11, <1>12
<1>. QED BY <1>4, <1>7, <1>9, <1>13 DEF mapped, Mapped, Applied

\* Sequences of one length
LEMMA EqualBlocks ==
  ASSUME NEW D, NEW L \in Nat, NEW seqs \in Seq(Seq(D)),
         \A i \in 1 .. Len(seqs) : Len(seqs[i]) = L
  PROVE  /\ Len(FlattenSeq(seqs)) = Len(seqs) * L
         /\ \A i \in 1 .. Len(seqs) : \A j \in 1 .. L :
               /\ (i - 1) * L + j \in 1 .. Len(seqs) * L
               /\ FlattenSeq(seqs)[(i - 1) * L + j] = seqs[i][j]
<1>. DEFINE at == [i \in 0 .. Len(seqs) |-> i * L]
<1>1. Len(seqs) \in Nat
  OBVIOUS
<1>2. \A i \in Int : i * L = (i - 1) * L + L
  OBVIOUS
<1>3. \A i \in 0 .. Len(seqs) : i * L \in Nat
  OBVIOUS
<1>4. Places(at, Lengths(seqs), Len(seqs))
  <2>1. at \in [0 .. Len(seqs) -> Nat] /\ at[0] = 0
    BY <1>1, <1>3
  <2>2. ASSUME NEW i \in 1 .. Len(seqs) PROVE at[i] = at[i - 1] + Len(seqs[i])
    <3>1. at[i] = i * L /\ at[i - 1] = (i - 1) * L /\ i \in Int
      BY <1>1
    <3>. QED BY <1>2, <3>1
  <2>. HIDE DEF at
  <2>3. \A i \in 1 .. Len(seqs) : Lengths(seqs)[i] = Len(seqs[i])
    BY DEF Lengths
  <2>. QED BY <2>1, <2>2, <2>3 DEF Places
<1>5. at[Len(seqs)] = Len(seqs) * L /\ \A i \in 1 .. Len(seqs) : at[i - 1] = (i - 1) * L
  BY <1>1
<1>. HIDE DEF at
<1>6. /\ Len(FlattenSeq(seqs)) = at[Len(seqs)]
      /\ \A i \in 1 .. Len(seqs) : \A j \in 1 .. Len(seqs[i]) :
               /\ at[i - 1] + j \in 1 .. at[Len(seqs)]
               /\ FlattenSeq(seqs)[at[i - 1] + j] = seqs[i][j]
  BY <1>4, FlattenPlaces DEF LaidOut
<1>. QED BY <1>5, <1>6

\* R holds the pairs of an element of S and one that comes after it.
StrictTotalOrder(R, S) ==
  /\ \A x \in S : <<x, x>> \notin R
  /\ \A x, y \in S : x # y => <<x, y>> \in R \/ <<y, x>> \in R
  /\ \A x, y, z \in S : <<x, y>> \in R /\ <<y, z>> \in R => <<x, z>> \in R

\* In a strict total order an element comes after as many as are below it.
LEMMA Ranks ==
  ASSUME NEW S, IsFiniteSet(S), NEW R, StrictTotalOrder(R, S)
  PROVE  LET rank == [x \in S |-> Cardinality({y \in S : <<y, x>> \in R})]
         IN  /\ rank \in Bijection(S, 0 .. Cardinality(S) - 1)
             /\ \A x, y \in S : <<x, y>> \in R <=> rank[x] < rank[y]
<1>. DEFINE Below(x) == {y \in S : <<y, x>> \in R}
            rank == [x \in S |-> Cardinality(Below(x))]
<1>1. ASSUME NEW x \in S
      PROVE IsFiniteSet(Below(x)) /\ Cardinality(Below(x)) \in 0 .. Cardinality(S) - 1
  <2>1. x \notin Below(x) /\ Below(x) \subseteq S
    BY DEF StrictTotalOrder
  <2>. HIDE DEF Below
  <2>2. IsFiniteSet(Below(x)) /\ Cardinality(Below(x)) <= Cardinality(S)
    BY <2>1, FS_Subset
  <2>3. Cardinality(S) # Cardinality(Below(x))
    BY <2>1, FS_Subset
  <2>4. Cardinality(S) \in Nat /\ Cardinality(Below(x)) \in Nat
    BY <2>2, FS_CardinalityType
  <2>. QED BY <2>2, <2>3, <2>4
<1>2. ASSUME NEW x \in S, NEW y \in S, <<x, y>> \in R
      PROVE  Cardinality(Below(x)) < Cardinality(Below(y))
  <2>1. Below(x) \subseteq Below(y) /\ x \in Below(y) /\ x \notin Below(x)
    BY <1>2 DEF StrictTotalOrder
  <2>2. Cardinality(Below(x)) \in Nat /\ Cardinality(Below(y)) \in Nat /\ IsFiniteSet(Below(y))
    BY <1>1, FS_CardinalityType
  <2>. HIDE DEF Below
  <2>3. Cardinality(Below(x)) <= Cardinality(Below(y)) /\ Cardinality(Below(x)) # Cardinality(Below(y))
    BY <2>1, <2>2, FS_Subset
  <2>. QED BY <2>2, <2>3
<1>3. rank \in [S -> 0 .. Cardinality(S) - 1]
  BY <1>1
<1>4. \A x, y \in S : <<x, y>> \in R => rank[x] < rank[y]
  BY <1>2
<1>. HIDE DEF rank
<1>5. \A x, y \in S : rank[x] \in Int /\ rank[y] \in Int
  BY <1>3
<1>6. ASSUME NEW x \in S, NEW y \in S, rank[x] < rank[y] PROVE <<x, y>> \in R
  <2>1. x # y /\ <<y, x>> \notin R
    BY <1>4, <1>5, <1>6
  <2>. QED BY <2>1 DEF StrictTotalOrder
<1>7. rank \in Injection(S, 0 .. Cardinality(S) - 1)
  <2>1. ASSUME NEW x \in S, NEW y \in S, rank[x] = rank[y] PROVE x = y
    <3>1. <<x, y>> \notin R /\ <<y, x>> \notin R
      BY <1>4, <1>5, <2>1
    <3>. QED BY <3>1 DEF StrictTotalOrder
  <2>. QED BY <1>3, <2>1 DEF Injection, IsInjective
<1>8. rank \in Surjection(S, 0 .. Cardinality(S) - 1)
  <2>1. Cardinality(S) \in Nat
    BY FS_CardinalityType
  <2>2. IsFiniteSet(0 .. Cardinality(S) - 1) /\ Cardinality(0 .. Cardinality(S) - 1) = Cardinality(S)
    <3>1. 0 \in Int /\ Cardinality(S) - 1 \in Int
      BY <2>1
    <3>. QED BY <2>1, <3>1, FS_Interval
  <2>. QED BY <1>7, <2>2, FS_Injection
<1>. QED BY <1>4, <1>6, <1>7, <1>8 DEF rank, Bijection

-----------------------------------------------------------------------------

(* Orders and sums *)

\* The place from which each number comes when they are put in order
PlacesInOrder(R, n) ==
  [m \in 1 .. n |-> CHOOSE i \in 1 .. n : Cardinality({j \in 1 .. n : <<j, i>> \in R}) = m - 1]

\* Each number comes from one place, and comes before those it is below.
LEMMA OrderedPlaces ==
  ASSUME NEW n \in Nat, NEW R, StrictTotalOrder(R, 1 .. n)
  PROVE  /\ PlacesInOrder(R, n) \in Bijection(1 .. n, 1 .. n)
         /\ \A l, m \in 1 .. n : l < m => <<PlacesInOrder(R, n)[l], PlacesInOrder(R, n)[m]>> \in R
<1>. DEFINE S == 1 .. n
            rank == [x \in S |-> Cardinality({y \in S : <<y, x>> \in R})]
            p == [m \in S |-> CHOOSE i \in S : Cardinality({j \in S : <<j, i>> \in R}) = m - 1]
<1>1. IsFiniteSet(S) /\ Cardinality(S) = n
  BY FS_Interval
<1>. HIDE DEF S
<1>2. /\ rank \in Bijection(S, 0 .. n - 1)
      /\ \A x, y \in S : <<x, y>> \in R <=> rank[x] < rank[y]
  BY <1>1, Ranks DEF S
<1>3. /\ rank \in [S -> 0 .. n - 1]
      /\ \A x, y \in S : rank[x] = rank[y] => x = y
      /\ \A m \in 0 .. n - 1 : \E i \in S : rank[i] = m
  BY <1>2 DEF Bijection, Injection, Surjection, IsInjective
<1>. HIDE DEF rank
<1>4. \A m \in S : m - 1 \in 0 .. n - 1
  BY DEF S
<1>5. \A m \in S : p[m] \in S /\ rank[p[m]] = m - 1
  BY <1>3, <1>4 DEF rank
<1>6. p \in [S -> S]
  BY <1>5
<1>. HIDE DEF p
<1>7. \A i \in S : rank[i] + 1 \in S /\ p[rank[i] + 1] = i
  <2>. SUFFICES ASSUME NEW i \in S PROVE rank[i] + 1 \in S /\ p[rank[i] + 1] = i
    OBVIOUS
  <2>1. rank[i] \in 0 .. n - 1
    BY <1>3
  <2>2. rank[i] + 1 \in S /\ (rank[i] + 1) - 1 = rank[i]
    BY <2>1 DEF S
  <2>3. p[rank[i] + 1] \in S /\ rank[p[rank[i] + 1]] = rank[i]
    BY <1>5, <2>2
  <2>. QED BY <1>3, <2>2, <2>3
<1>8. ASSUME NEW l \in S, NEW m \in S, p[l] = p[m] PROVE l = m
  <2>1. l - 1 = m - 1
    BY <1>5, <1>8
  <2>. QED BY <2>1 DEF S
<1>9. p \in Bijection(S, S)
  BY <1>6, <1>7, <1>8 DEF Bijection, Injection, Surjection, IsInjective
<1>10. ASSUME NEW l \in S, NEW m \in S, l < m PROVE <<p[l], p[m]>> \in R
  <2>1. rank[p[l]] < rank[p[m]]
    <3>1. rank[p[l]] = l - 1 /\ rank[p[m]] = m - 1
      BY <1>5
    <3>. QED BY <1>10, <3>1 DEF S
  <2>. QED BY <1>2, <1>6, <2>1
<1>. QED BY <1>9, <1>10 DEF PlacesInOrder, p, S

\* One element comes after all others.
LEMMA LastExists ==
  ASSUME NEW S, IsFiniteSet(S), S # {}, NEW R, StrictTotalOrder(R, S)
  PROVE  \E x \in S : \A y \in S \ {x} : <<y, x>> \in R
<1>. DEFINE rank == [x \in S |-> Cardinality({y \in S : <<y, x>> \in R})]
<1>1. /\ rank \in Bijection(S, 0 .. Cardinality(S) - 1)
      /\ \A x, y \in S : <<x, y>> \in R <=> rank[x] < rank[y]
  BY Ranks
<1>2. Cardinality(S) \in Nat /\ Cardinality(S) # 0
  BY FS_CardinalityType, FS_EmptySet
<1>. HIDE DEF rank
<1>3. /\ rank \in [S -> 0 .. Cardinality(S) - 1]
      /\ \A x, y \in S : rank[x] = rank[y] => x = y
      /\ \A m \in 0 .. Cardinality(S) - 1 : \E i \in S : rank[i] = m
  BY <1>1 DEF Bijection, Injection, Surjection, IsInjective
<1>4. PICK x \in S : rank[x] = Cardinality(S) - 1
  BY <1>2, <1>3
<1>5. ASSUME NEW y \in S, y # x PROVE rank[y] < rank[x]
  <2>1. rank[y] \in 0 .. Cardinality(S) - 1 /\ rank[y] # rank[x]
    BY <1>3, <1>5
  <2>. QED BY <1>2, <1>4, <2>1
<1>. QED BY <1>1, <1>5

\* The same elements at other places
LEMMA Rearranged ==
  ASSUME NEW D, NEW q \in Seq(D), NEW p \in Bijection(1 .. Len(q), 1 .. Len(q)),
         NEW r, r = [m \in 1 .. Len(q) |-> q[p[m]]]
  PROVE  /\ r \in Seq(D) /\ Len(r) = Len(q) /\ Range(r) = Range(q)
         /\ IsInjective(q) => IsInjective(r)
<1>. DEFINE n == Len(q)
<1>1. n \in Nat /\ q \in [1 .. n -> D]
  OBVIOUS
<1>2. /\ p \in [1 .. n -> 1 .. n]
      /\ \A l, m \in 1 .. n : p[l] = p[m] => l = m
      /\ \A i \in 1 .. n : \E m \in 1 .. n : p[m] = i
  BY DEF Bijection, Injection, Surjection, IsInjective
<1>. HIDE DEF n
<1>3. r = [m \in 1 .. n |-> q[p[m]]]
  BY DEF n
<1>4. r \in [1 .. n -> D] /\ DOMAIN r = 1 .. n /\ DOMAIN q = 1 .. n
  <2>1. \A m \in 1 .. n : q[p[m]] \in D
    BY <1>1, <1>2
  <2>2. DOMAIN q = 1 .. n
    BY <1>1
  <2>. QED BY <1>3, <2>1, <2>2
<1>9. \A m \in 1 .. n : r[m] = q[p[m]] /\ p[m] \in 1 .. n
  BY <1>2, <1>3
<1>5. Range(r) = Range(q)
  <2>1. Range(r) \subseteq Range(q)
    BY <1>4, <1>9 DEF Range
  <2>2. ASSUME NEW i \in 1 .. n PROVE q[i] \in Range(r)
    <3>1. PICK m \in 1 .. n : p[m] = i
      BY <1>2
    <3>. QED BY <1>4, <1>9, <3>1 DEF Range
  <2>. QED BY <1>4, <2>1, <2>2 DEF Range
<1>6. ASSUME IsInjective(q) PROVE IsInjective(r)
  <2>. SUFFICES ASSUME NEW a \in DOMAIN r, NEW b \in DOMAIN r, r[a] = r[b] PROVE a = b
    BY DEF IsInjective
  <2>1. a \in 1 .. n /\ b \in 1 .. n
    BY <1>4
  <2>2. p[a] = p[b]
    BY <1>4, <1>6, <1>9, <2>1 DEF IsInjective
  <2>. QED BY <1>2, <2>1, <2>2
<1>7. PICK t \in [1 .. n -> D] : t = r
  BY <1>4
<1>8. t \in Seq(D) /\ Len(t) = n
  BY <1>1
<1>. QED BY <1>5, <1>6, <1>7, <1>8 DEF n

\* The sums that FoldFunction computes
SumsOf(val, S) ==
  CHOOSE g : g = [s \in SUBSET S |->
                    IF s = {} THEN 0
                    ELSE LET x == CHOOSE x \in s : TRUE IN g[s \ {x}] + val[x]]

\* A sum of positive numbers over a set that is not empty is positive.
LEMMA SumPositive ==
  ASSUME NEW S, IsFiniteSet(S), NEW val \in [S -> Nat \ {0}], S # {}
  PROVE  SumsOf(val, S)[S] \in Nat \ {0}
<1>. DEFINE Some(s) == CHOOSE x \in s : TRUE
            Upto(n) == {s \in SUBSET S : Cardinality(s) <= n}
            Sums(g, n) == /\ g \in [Upto(n) -> Nat]
                          /\ \A s \in Upto(n) :
                               g[s] = IF s = {} THEN 0 ELSE g[s \ {Some(s)}] + val[Some(s)]
            T == {n \in Nat : \E g : Sums(g, n)}
<1>1. \A s \in SUBSET S : IsFiniteSet(s) /\ Cardinality(s) \in Nat
  BY FS_Subset, FS_CardinalityType
<1>2. ASSUME NEW s \in SUBSET S, s # {}
      PROVE  /\ Some(s) \in s /\ s \ {Some(s)} \in SUBSET S
             /\ Cardinality(s \ {Some(s)}) = Cardinality(s) - 1 /\ Cardinality(s) # 0
  <2>1. Some(s) \in s
    BY <1>2
  <2>. HIDE DEF Some
  <2>. QED BY <1>1, <1>2, <2>1, FS_RemoveElement, FS_EmptySet
<1>. HIDE DEF Some
<1>16. ASSUME NEW s \in Upto(0) PROVE s = {}
  <2>1. Cardinality(s) \in Nat /\ Cardinality(s) <= 0
    BY <1>1
  <2>2. Cardinality(s) = 0
    BY <2>1
  <2>. QED BY <1>2, <2>2
<1>3. 0 \in T
  <2>1. \A s \in Upto(0) : s = {}
    BY <1>16
  <2>2. Sums([s \in Upto(0) |-> 0], 0)
    BY <2>1
  <2>. HIDE DEF Sums
  <2>. QED BY <2>2
<1>4. ASSUME NEW n \in Nat, n \in T PROVE n + 1 \in T
  <2>1. PICK g : Sums(g, n)
    BY <1>4
  <2>. DEFINE h == [s \in Upto(n + 1) |-> IF s = {} THEN 0 ELSE g[s \ {Some(s)}] + val[Some(s)]]
  <2>2. ASSUME NEW s \in Upto(n + 1), s # {}
        PROVE  s \ {Some(s)} \in Upto(n) /\ s \ {Some(s)} \in Upto(n + 1)
    BY <1>1, <1>2, <2>2
  <2>3. ASSUME NEW s \in Upto(n + 1), s # {} PROVE g[s \ {Some(s)}] + val[Some(s)] \in Nat
    <3>1. g[s \ {Some(s)}] \in Nat /\ val[Some(s)] \in Nat
      BY <1>2, <2>1, <2>2, <2>3
    <3>. QED BY <3>1
  <2>4. h \in [Upto(n + 1) -> Nat]
    BY <2>3
  <2>5. ASSUME NEW s \in Upto(n) PROVE h[s] = g[s]
    <3>1. s \in Upto(n + 1)
      BY <1>1
    <3>. QED BY <2>1, <3>1
  <2>6. ASSUME NEW s \in Upto(n + 1)
        PROVE  h[s] = IF s = {} THEN 0 ELSE h[s \ {Some(s)}] + val[Some(s)]
    BY <2>2, <2>5
  <2>. HIDE DEF h
  <2>7. Sums(h, n + 1)
    BY <2>4, <2>6
  <2>. HIDE DEF Sums
  <2>. QED BY <2>7
<1>5. \A n \in Nat : n \in T
  <2>. HIDE DEF T
  <2>. QED BY <1>3, <1>4, InductionOnNat
<1>6. PICK g : Sums(g, Cardinality(S))
  <2>. HIDE DEF Sums
  <2>. QED BY <1>1, <1>5
<1>7. Upto(Cardinality(S)) = SUBSET S
  BY FS_Subset
<1>. DEFINE Step(f) == [s \in SUBSET S |-> IF s = {} THEN 0 ELSE f[s \ {Some(s)}] + val[Some(s)]]
<1>8. g = Step(g)
  BY <1>6, <1>7
<1>9. SumsOf(val, S) = CHOOSE f : f = Step(f)
  BY DEF SumsOf, Some
<1>. DEFINE sums == SumsOf(val, S)
<1>10. sums = Step(sums)
  BY <1>8, <1>9
<1>. HIDE DEF sums
<1>11. \A s \in SUBSET S : sums[s] = IF s = {} THEN 0 ELSE sums[s \ {Some(s)}] + val[Some(s)]
  BY <1>10
<1>. DEFINE U == {n \in Nat : \A s \in Upto(n) : sums[s] \in Nat /\ (s # {} => sums[s] # 0)}
<1>12. 0 \in U
  <2>1. \A s \in Upto(0) : s = {} /\ s \in SUBSET S
    BY <1>16
  <2>. QED BY <1>11, <2>1
<1>13. ASSUME NEW n \in Nat, n \in U PROVE n + 1 \in U
  <2>. SUFFICES ASSUME NEW s \in Upto(n + 1) PROVE sums[s] \in Nat /\ (s # {} => sums[s] # 0)
    OBVIOUS
  <2>1. CASE s = {}
    BY <1>11, <2>1
  <2>2. CASE s # {}
    <3>1. s \ {Some(s)} \in Upto(n) /\ Some(s) \in S
      BY <1>1, <1>2, <2>2
    <3>2. sums[s \ {Some(s)}] \in Nat /\ val[Some(s)] \in Nat \ {0}
      BY <1>13, <3>1
    <3>3. sums[s] = sums[s \ {Some(s)}] + val[Some(s)]
      BY <1>11, <2>2
    <3>. QED BY <3>2, <3>3
  <2>. QED BY <2>1, <2>2
<1>14. Cardinality(S) \in U
  <2>1. \A n \in Nat : n \in U
    <3>. HIDE DEF U
    <3>. QED BY <1>12, <1>13, InductionOnNat
  <2>. QED BY <1>1, <2>1
<1>15. S \in Upto(Cardinality(S))
  BY <1>1
<1>. QED BY <1>14, <1>15 DEF sums

\* A set of natural numbers that is not empty has a smallest one.
LEMMA FirstExists ==
  ASSUME NEW S \in SUBSET Nat, S # {}
  PROVE  \E m \in S : \A n \in S : m <= n
<1>. DEFINE R == OpToRel(<, Nat)
<1>1. PICK m \in S : \A n \in S : <<n, m>> \notin R
  <2>1. IsWellFoundedOn(R, Nat)
    BY NatLessThanWellFounded
  <2>. HIDE DEF R
  <2>. QED BY <2>1, WFMin
<1>2. ASSUME NEW n \in S, n < m PROVE FALSE
  BY <1>1, <1>2 DEF OpToRel
<1>. QED BY <1>2

\* Reversing a sequence puts the same elements at other places.
LEMMA ReversedElements ==
  ASSUME NEW D, NEW q \in Seq(D)
  PROVE  /\ Reverse(q) \in Seq(D) /\ Len(Reverse(q)) = Len(q) /\ Range(Reverse(q)) = Range(q)
         /\ IsInjective(q) => IsInjective(Reverse(q))
<1>. DEFINE p == [i \in 1 .. Len(q) |-> (Len(q) - i) + 1]
            r == [i \in 1 .. Len(q) |-> q[p[i]]]
<1>1. Len(q) \in Nat
  OBVIOUS
<1>2. p \in Bijection(1 .. Len(q), 1 .. Len(q))
  <2>1. p \in [1 .. Len(q) -> 1 .. Len(q)]
    BY <1>1
  <2>2. \A i, j \in 1 .. Len(q) : p[i] = p[j] => i = j
    BY <1>1
  <2>3. ASSUME NEW j \in 1 .. Len(q) PROVE \E i \in 1 .. Len(q) : p[i] = j
    <3>1. p[Len(q) - j + 1] = j /\ Len(q) - j + 1 \in 1 .. Len(q)
      BY <1>1
    <3>. QED BY <3>1
  <2>. HIDE DEF p
  <2>. QED BY <2>1, <2>2, <2>3 DEF Bijection, Injection, Surjection, IsInjective
<1>3. Reverse(q) = r
  BY <1>1 DEF Reverse
<1>. HIDE DEF p
<1>. QED BY <1>2, <1>3, Rearranged

\* A sequence in an order of its places
InOrder(R, q) == [m \in 1 .. Len(q) |-> q[PlacesInOrder(R, Len(q))[m]]]

\* It has the same elements, at other places.
LEMMA SortedElements ==
  ASSUME NEW D, NEW q \in Seq(D), NEW R, StrictTotalOrder(R, 1 .. Len(q))
  PROVE  /\ InOrder(R, q) \in Seq(D) /\ Len(InOrder(R, q)) = Len(q)
         /\ Range(InOrder(R, q)) = Range(q)
         /\ IsInjective(q) => IsInjective(InOrder(R, q))
<1>1. Len(q) \in Nat
  OBVIOUS
<1>2. PlacesInOrder(R, Len(q)) \in Bijection(1 .. Len(q), 1 .. Len(q))
  BY <1>1, OrderedPlaces
<1>3. PICK r : r = InOrder(R, q)
  OBVIOUS
<1>4. r = [m \in 1 .. Len(q) |-> q[PlacesInOrder(R, Len(q))[m]]]
  BY <1>3 DEF InOrder
<1>. QED BY <1>2, <1>3, <1>4, Rearranged

\* A sequence sorted by an order of its elements
SortedBy(Q, q) ==
  [m \in DOMAIN q |->
     q[CHOOSE i \in DOMAIN q : Cardinality({j \in DOMAIN q : <<q[j], q[i]>> \in Q}) = m - 1]]

\* Sorting distinct elements puts them at other places.
LEMMA SortedDistinct ==
  ASSUME NEW D, NEW q \in Seq(D), IsInjective(q), NEW Q, StrictTotalOrder(Q, Range(q))
  PROVE  /\ SortedBy(Q, q) \in Seq(D) /\ Len(SortedBy(Q, q)) = Len(q)
         /\ Range(SortedBy(Q, q)) = Range(q) /\ IsInjective(SortedBy(Q, q))
<1>. DEFINE S == DOMAIN q
            R == {pair \in S \X S : <<q[pair[1]], q[pair[2]]>> \in Q}
<1>1. S = 1 .. Len(q)
  OBVIOUS
<1>2. \A i, j \in S : q[i] \in Range(q) /\ (q[i] = q[j] => i = j)
  BY DEF Range, IsInjective
<1>3. SortedBy(Q, q) = [m \in S |->
                q[CHOOSE i \in S : Cardinality({j \in S : <<q[j], q[i]>> \in Q}) = m - 1]]
  BY DEF SortedBy
<1>. HIDE DEF S
<1>4. \A i, j \in S : <<j, i>> \in R <=> <<q[j], q[i]>> \in Q
  OBVIOUS
<1>. HIDE DEF R
<1>5. StrictTotalOrder(R, S)
  BY <1>2, <1>4 DEF StrictTotalOrder
<1>6. ASSUME NEW i \in S PROVE {j \in S : <<q[j], q[i]>> \in Q} = {j \in S : <<j, i>> \in R}
  BY <1>4
<1>7. SortedBy(Q, q) = [m \in S |-> q[PlacesInOrder(R, Len(q))[m]]]
  <2>1. ASSUME NEW m \in S
        PROVE  (CHOOSE i \in S : Cardinality({j \in S : <<q[j], q[i]>> \in Q}) = m - 1)
                 = CHOOSE i \in S : Cardinality({j \in S : <<j, i>> \in R}) = m - 1
    <3>1. \A i : i \in S /\ Cardinality({j \in S : <<q[j], q[i]>> \in Q}) = m - 1 <=>
                 i \in S /\ Cardinality({j \in S : <<j, i>> \in R}) = m - 1
      BY <1>6
    <3>. QED BY <3>1
  <2>2. ASSUME NEW m \in S
        PROVE  PlacesInOrder(R, Len(q))[m] = CHOOSE i \in S : Cardinality({j \in S : <<j, i>> \in R}) = m - 1
    BY <1>1 DEF PlacesInOrder
  <2>3. ASSUME NEW m \in S
        PROVE  q[CHOOSE i \in S : Cardinality({j \in S : <<q[j], q[i]>> \in Q}) = m - 1]
                 = q[PlacesInOrder(R, Len(q))[m]]
    BY <2>1, <2>2, Zenon
  <2>. QED BY <1>3, <2>3, Zenon
<1>8. StrictTotalOrder(R, 1 .. Len(q)) /\ SortedBy(Q, q) = InOrder(R, q)
  BY <1>1, <1>5, <1>7 DEF InOrder
<1>. QED BY <1>8, SortedElements

\* sort(q, <)
Ascending(q) ==
  [m \in DOMAIN q |->
     q[CHOOSE i \in DOMAIN q : Cardinality({j \in DOMAIN q : q[j] < q[i]}) = m - 1]]

\* Each row of a partition of distinct rows is in the sorted one.
LEMMA SortedItems ==
  ASSUME NEW D \in SUBSET Nat, NEW q \in Seq(D), IsInjective(q)
  PROVE  /\ Ascending(q) \in Seq(D) /\ Len(Ascending(q)) = Len(q)
         /\ Range(Ascending(q)) = Range(q) /\ IsInjective(Ascending(q))
<1>. DEFINE Q == {pair \in D \X D : pair[1] < pair[2]}
<1>1. Range(q) \in SUBSET D /\ \A i \in DOMAIN q : q[i] \in D
  BY DEF Range
<1>2. \A x, y \in D : x \in Int /\ (<<x, y>> \in Q <=> x < y)
  OBVIOUS
<1>. HIDE DEF Q
<1>3. StrictTotalOrder(Q, Range(q))
  <2>1. \A x, y \in Range(q) : x \in Int /\ (<<x, y>> \in Q <=> x < y)
    BY <1>1, <1>2
  <2>2. \A x \in Range(q) : <<x, x>> \notin Q
    BY <2>1
  <2>3. \A x, y \in Range(q) : x # y => <<x, y>> \in Q \/ <<y, x>> \in Q
    BY <2>1
  <2>4. ASSUME NEW x \in Range(q), NEW y \in Range(q), NEW z \in Range(q), <<x, y>> \in Q, <<y, z>> \in Q
        PROVE  <<x, z>> \in Q
    <3>1. x \in Int /\ y \in Int /\ z \in Int /\ x < y /\ y < z
      BY <2>1, <2>4
    <3>2. x < z
      BY <3>1
    <3>. QED BY <2>1, <3>2
  <2>. QED BY <2>2, <2>3, <2>4 DEF StrictTotalOrder
<1>4. ASSUME NEW i \in DOMAIN q
      PROVE  {j \in DOMAIN q : <<q[j], q[i]>> \in Q} = {j \in DOMAIN q : q[j] < q[i]}
  BY <1>1, <1>2
<1>5. Ascending(q) = SortedBy(Q, q)
  <2>1. ASSUME NEW m \in DOMAIN q
        PROVE  (CHOOSE i \in DOMAIN q : Cardinality({j \in DOMAIN q : <<q[j], q[i]>> \in Q}) = m - 1)
                 = CHOOSE i \in DOMAIN q : Cardinality({j \in DOMAIN q : q[j] < q[i]}) = m - 1
    <3>1. \A i : i \in DOMAIN q /\ Cardinality({j \in DOMAIN q : <<q[j], q[i]>> \in Q}) = m - 1 <=>
                 i \in DOMAIN q /\ Cardinality({j \in DOMAIN q : q[j] < q[i]}) = m - 1
      BY <1>4
    <3>. QED BY <3>1
  <2>2. ASSUME NEW m \in DOMAIN q
        PROVE  q[CHOOSE i \in DOMAIN q : Cardinality({j \in DOMAIN q : <<q[j], q[i]>> \in Q}) = m - 1]
                 = q[CHOOSE i \in DOMAIN q : Cardinality({j \in DOMAIN q : q[j] < q[i]}) = m - 1]
    BY <2>1, Zenon
  <2>. QED BY <2>2, Zenon DEF Ascending, SortedBy
<1>. QED BY <1>3, <1>5, SortedDistinct

\* Division of natural numbers: the quotient of successive numbers
LEMMA Quotients ==
  ASSUME NEW s \in Nat \ {0}
  PROVE  /\ \A a \in Nat : a \div s \in Nat /\ a % s \in 0 .. s - 1 /\ a = s * (a \div s) + (a % s)
         /\ \A q \in Nat : \A r \in 0 .. s - 1 : (s * q + r) \div s = q /\ (s * q + r) % s = r
         /\ \A a \in Nat \ {0} :
              IF a % s = 0 THEN a \div s = (a - 1) \div s + 1 ELSE a \div s = (a - 1) \div s
<1>1. ASSUME NEW a \in Nat
      PROVE  a \div s \in Nat /\ a % s \in 0 .. s - 1 /\ a = s * (a \div s) + (a % s)
  OBVIOUS
<1>2. ASSUME NEW q \in Nat, NEW r \in 0 .. s - 1, NEW a, a = s * q + r
      PROVE  a \div s = q /\ a % s = r
  <2>1. a \in Nat
    BY <1>2
  <2>2. PICK d \in Nat, m \in 0 .. s - 1 : d = a \div s /\ m = a % s /\ a = s * d + m
    BY <1>1, <2>1
  <2>3. s * (q - d) = m - r
    BY <1>2, <2>2
  <2>4. ~(q - d >= 1)
    <3>1. q - d >= 1 => s * (q - d) >= s
      OBVIOUS
    <3>. QED BY <2>3, <3>1
  <2>5. ~(q - d <= -1)
    <3>1. q - d <= -1 => s * (q - d) <= -s
      OBVIOUS
    <3>. QED BY <2>3, <3>1
  <2>6. q = d
    BY <2>4, <2>5
  <2>. QED BY <2>2, <2>3, <2>6
<1>3. ASSUME NEW a \in Nat \ {0}
      PROVE  IF a % s = 0 THEN a \div s = (a - 1) \div s + 1 ELSE a \div s = (a - 1) \div s
  <2>1. PICK d \in Nat, m \in 0 .. s - 1 : d = a \div s /\ m = a % s /\ a = s * d + m
    BY <1>1
  <2>2. CASE m = 0
    <3>1. d # 0
      BY <2>1, <2>2
    <3>2. a - 1 = s * (d - 1) + (s - 1) /\ d - 1 \in Nat /\ s - 1 \in 0 .. s - 1
      BY <2>1, <2>2, <3>1
    <3>3. (a - 1) \div s = d - 1
      BY <1>2, <3>2
    <3>. QED BY <2>1, <2>2, <3>3
  <2>3. CASE m # 0
    <3>1. a - 1 = s * d + (m - 1) /\ m - 1 \in 0 .. s - 1
      BY <2>1, <2>3
    <3>2. (a - 1) \div s = d
      BY <1>2, <3>1
    <3>. QED BY <2>1, <2>3, <3>2
  <2>. QED BY <2>2, <2>3
<1>. QED BY <1>1, <1>2, <1>3

\* The sum of amounts of the elements of a sequence, as FoldSeq computes it
SumOver(amount, q) ==
  (CHOOSE g : g = [s \in SUBSET DOMAIN q |->
                     IF s = {} THEN 0
                     ELSE LET x == CHOOSE x \in s : TRUE IN g[s \ {x}] + amount[q[x]]])[DOMAIN q]

\* Adding up positive numbers over the elements of a sequence that is not empty gives
\* a positive number.
LEMMA FoldedSumPositive ==
  ASSUME NEW D, NEW q \in Seq(D), q # <<>>, NEW amount \in [D -> Nat \ {0}]
  PROVE  SumOver(amount, q) \in Nat \ {0}
<1>. DEFINE S == DOMAIN q
            val == [i \in S |-> amount[q[i]]]
            Some(s) == CHOOSE x \in s : TRUE
            one(g, s) == IF s = {} THEN 0 ELSE g[s \ {Some(s)}] + val[Some(s)]
            two(g, s) == IF s = {} THEN 0 ELSE g[s \ {Some(s)}] + amount[q[Some(s)]]
<1>1. S = 1 .. Len(q) /\ S # {} /\ IsFiniteSet(S)
  <2>1. S = 1 .. Len(q) /\ Len(q) \in Nat /\ Len(q) # 0
    OBVIOUS
  <2>2. 1 \in S
    BY <2>1
  <2>3. IsFiniteSet(1 .. Len(q))
    BY <2>1, FS_Interval
  <2>. QED BY <2>1, <2>2, <2>3
<1>2. val \in [S -> Nat \ {0}]
  OBVIOUS
<1>3. SumsOf(val, S)[S] \in Nat \ {0}
  BY <1>1, <1>2, SumPositive
<1>4. SumOver(amount, q) = (CHOOSE g : g = [s \in SUBSET S |-> two(g, s)])[S]
  BY DEF SumOver
<1>5. SumsOf(val, S) = CHOOSE g : g = [s \in SUBSET S |-> one(g, s)]
  BY DEF SumsOf
<1>6. \A g : \A s \in SUBSET S : one(g, s) = two(g, s)
  <2>1. \A s \in SUBSET S : s # {} => Some(s) \in S
    OBVIOUS
  <2>2. \A i \in S : val[i] = amount[q[i]]
    OBVIOUS
  <2>. HIDE DEF Some, val
  <2>. QED BY <2>1, <2>2
<1>. HIDE DEF one, two
<1>7. \A g : [s \in SUBSET S |-> one(g, s)] = [s \in SUBSET S |-> two(g, s)]
  BY <1>6
<1>8. (CHOOSE g : g = [s \in SUBSET S |-> one(g, s)]) = CHOOSE g : g = [s \in SUBSET S |-> two(g, s)]
  <2>1. \A g : g = [s \in SUBSET S |-> one(g, s)] <=> g = [s \in SUBSET S |-> two(g, s)]
    BY <1>7
  <2>. QED BY <2>1
<1>. QED BY <1>3, <1>4, <1>5, <1>8
=============================================================================
