---------------------------- MODULE DataInduction ----------------------------
(***************************************************************************)
(* Induction over the natural numbers, without operator parameters: a      *)
(* statement is given as the set of the numbers it is true of, a step as a *)
(* function.  And what follows by it of the recursion in the operators of  *)
(* the models: the iteration of a function, a flattened sequence of        *)
(* sequences, and the climb of Resolve.                                    *)
(***************************************************************************)
EXTENDS Resolver, WellFoundedInduction, FiniteSetTheorems, TLAPS

\* A set of numbers has a least member: of the intervals from 0 to one of its members,
\* all of them subsets of the finite one to b, one has no smaller one.
LEMMA Least ==
    ASSUME NEW T \in SUBSET Nat, T # {}
    PROVE  \E n \in T : \A m \in T : n <= m
<1>1. PICK b \in T : TRUE
  OBVIOUS
<1> DEFINE Down(m) == 0..m
           U == {Down(m) : m \in {k \in T : k <= b}}
<1>2. IsFiniteSet(0..b)
  BY FS_Interval
<1>3. U # {} /\ U \subseteq SUBSET (0..b)
  BY <1>1
<1>4. IsWellFoundedOn(StrictSubsetOrdering(0..b), SUBSET (0..b))
  <2>1. IsWellFoundedOn(StrictSubsetOrdering(0..b), FiniteSubsetsOf(0..b))
    BY <1>2, FS_StrictSubsetOrderingWellFounded
  <2> QED
    BY <1>2, <2>1, FS_FiniteSubsetsOfFinite
<1> HIDE DEF U
<1>5. PICK x \in U : \A y \in U : ~(<<y, x>> \in StrictSubsetOrdering(0..b))
  BY <1>3, <1>4, WFMin
<1> USE DEF U
<1>6. PICK n \in T : n <= b /\ x = Down(n)
  BY <1>5
<1>7. ASSUME NEW m \in T, m < n PROVE FALSE
  <2>1. Down(m) \in U
    BY <1>6, <1>7
  <2>2. Down(m) \subseteq Down(n) /\ Down(m) # Down(n)
    <3>1. n \in Down(n) /\ n \notin Down(m)
      BY <1>7
    <3> QED
      BY <3>1, <1>7
  <2>3. <<Down(m), Down(n)>> \in StrictSubsetOrdering(0..b)
    BY <2>1, <2>2, <1>3, <1>6 DEF StrictSubsetOrdering
  <2> QED
    BY <2>1, <2>3, <1>5, <1>6
<1> QED
  BY <1>6, <1>7

\* A set of numbers that holds 0 and the successor of each of its members holds them all.
LEMMA Induction ==
    ASSUME NEW T \in SUBSET Nat, 0 \in T, \A n \in T : n + 1 \in T
    PROVE  T = Nat
<1> DEFINE Left == Nat \ T
<1>1. SUFFICES ASSUME Left # {} PROVE FALSE
  OBVIOUS
<1>2. PICK n \in Left : \A m \in Left : n <= m
  BY <1>1, Least
<1>3. n - 1 \in Nat /\ n - 1 \notin Left
  BY <1>2
<1> QED
  BY <1>3

\* A function can be iterated: up to every number there is a table of its iterates, and
\* any two tables agree as far as both go.
LEMMA IterationExists ==
    ASSUME NEW S, NEW a \in S, NEW step \in [S -> S]
    PROVE  \E g \in [Nat -> S] : g[0] = a /\ \A k \in Nat : g[k + 1] = step[g[k]]
<1> DEFINE Part(m, f) == /\ f \in [0..m -> S]
                         /\ f[0] = a
                         /\ \A k \in 0..(m - 1) : f[k + 1] = step[f[k]]
           Reached == {m \in Nat : \E f : Part(m, f)}
<1>1. Reached = Nat
  <2>1. 0 \in Reached
    <3>1. Part(0, [i \in 0..0 |-> a])
      OBVIOUS
    <3> QED
      BY <3>1
  <2>2. ASSUME NEW m \in Reached PROVE m + 1 \in Reached
    <3>0. m \in Nat /\ m + 1 \in Nat
      OBVIOUS
    <3>1. PICK f : Part(m, f)
      OBVIOUS
    <3> DEFINE h == [i \in 0..(m + 1) |-> IF i <= m THEN f[i] ELSE step[f[m]]]
    <3>2. \A i \in 0..m : h[i] = f[i] /\ i \in 0..(m + 1)
      OBVIOUS
    <3>3. h[m + 1] = step[f[m]] /\ f[m] \in S
      BY <3>1
    <3>4. h \in [0..(m + 1) -> S]
      BY <3>1, <3>3
    <3>5. ASSUME NEW k \in 0..m PROVE h[k + 1] = step[h[k]]
      <4>1. CASE k = m
        BY <3>2, <3>3, <4>1
      <4>2. CASE k # m
        <5>1. k \in 0..(m - 1) /\ k + 1 \in 0..m
          BY <4>2
        <5> QED
          BY <3>1, <3>2, <5>1
      <4> QED
        BY <4>1, <4>2
    <3>6. Part(m + 1, h)
      <4> HIDE DEF h
      <4> QED
        BY <3>1, <3>2, <3>4, <3>5
    <3> HIDE DEF h, Part
    <3> QED
      BY <3>0, <3>6
  <2> HIDE DEF Reached
  <2> QED
    BY <2>1, <2>2, Induction DEF Reached
<1> DEFINE pick == [m \in Nat |-> CHOOSE f : Part(m, f)]
<1>2. \A m \in Nat : Part(m, pick[m])
  BY <1>1
<1> DEFINE Agreed == {k \in Nat : \A m \in Nat, l \in Nat :
                         k <= m /\ k <= l => pick[m][k] = pick[l][k]}
<1> HIDE DEF pick
<1>3. Agreed = Nat
  <2>1. 0 \in Agreed
    BY <1>2
  <2>2. ASSUME NEW k \in Agreed PROVE k + 1 \in Agreed
    <3>1. SUFFICES ASSUME NEW m \in Nat, NEW l \in Nat, k + 1 <= m, k + 1 <= l
                   PROVE  pick[m][k + 1] = pick[l][k + 1]
      OBVIOUS
    <3>0. k \in Nat
      OBVIOUS
    <3>2. k \in 0..(m - 1) /\ k \in 0..(l - 1)
      BY <3>0, <3>1
    <3>3. pick[m][k] = pick[l][k]
      BY <3>2
    <3>4. pick[m][k + 1] = step[pick[m][k]] /\ pick[l][k + 1] = step[pick[l][k]]
      BY <1>2, <3>2
    <3> QED
      BY <3>3, <3>4
  <2> HIDE DEF Agreed
  <2> QED
    BY <2>1, <2>2, Induction DEF Agreed
<1> DEFINE g == [m \in Nat |-> pick[m][m]]
<1>4. g[0] = a
  BY <1>2
<1>5. ASSUME NEW k \in Nat PROVE g[k + 1] = step[g[k]]
  <2>1. pick[k + 1][k + 1] = step[pick[k + 1][k]]
    <3>1. k \in 0..((k + 1) - 1) /\ k + 1 \in Nat
      OBVIOUS
    <3> QED
      BY <1>2, <3>1
  <2>2. pick[k + 1][k] = pick[k][k]
    <3>1. k \in Agreed /\ k + 1 \in Nat /\ k <= k + 1 /\ k <= k
      BY <1>3
    <3> QED
      BY <3>1
  <2> QED
    BY <2>1, <2>2
<1>6. g \in [Nat -> S]
  <2>1. \A m \in Nat : m \in 0..m /\ pick[m] \in [0..m -> S]
    BY <1>2
  <2> QED
    BY <2>1
<1> HIDE DEF g
<1> QED
  BY <1>4, <1>5, <1>6

-----------------------------------------------------------------------------
(***************************************************************************)
(* Sequences as functions.                                                 *)
(***************************************************************************)
\* The value is a sequence.
IsTuple(q) == Len(q) \in Nat /\ q = [i \in 1..Len(q) |-> q[i]]

\* A sequence and then another.
LEMMA Joined ==
    ASSUME NEW p, NEW q, IsTuple(p), IsTuple(q)
    PROVE  /\ IsTuple(p \o q)
           /\ Len(p \o q) = Len(p) + Len(q)
           /\ \A i \in 1..Len(p) : (p \o q)[i] = p[i]
           /\ \A i \in 1..Len(q) : (p \o q)[Len(p) + i] = q[i]
<1> DEFINE S == {p[i] : i \in 1..Len(p)} \cup {q[i] : i \in 1..Len(q)}
<1>1. p \in Seq(S) /\ q \in Seq(S)
  BY DEF IsTuple
<1> HIDE DEF S
<1>2. /\ p \o q \in Seq(S)
      /\ Len(p \o q) = Len(p) + Len(q)
      /\ \A i \in 1..Len(p) : (p \o q)[i] = p[i]
      /\ \A i \in 1..Len(q) : (p \o q)[Len(p) + i] = q[i]
  BY <1>1
<1> DEFINE joined == p \o q
<1>3. joined \in Seq(S)
  BY <1>2
<1> HIDE DEF joined
<1>4. IsTuple(joined)
  BY <1>3 DEF IsTuple
<1> QED
  BY <1>2, <1>4 DEF joined

\* One element more.
LEMMA AppendIs ==
    ASSUME NEW Q, NEW q \in Seq(Q), NEW x \in Q
    PROVE  Append(q, x) = [i \in 1..(Len(q) + 1) |-> IF i = Len(q) + 1 THEN x ELSE q[i]]
<1> DEFINE more == Append(q, x)
<1>1. /\ more \in Seq(Q) /\ Len(more) = Len(q) + 1 /\ Len(q) \in Nat
      /\ \A i \in 1..(Len(q) + 1) : more[i] = IF i = Len(q) + 1 THEN x ELSE q[i]
  OBVIOUS
<1> HIDE DEF more
<1>2. more = [i \in 1..Len(more) |-> more[i]]
  BY <1>1
<1>3. more = [i \in 1..(Len(q) + 1) |-> IF i = Len(q) + 1 THEN x ELSE q[i]]
  BY <1>1, <1>2
<1> QED
  BY <1>3 DEF more

-----------------------------------------------------------------------------
(***************************************************************************)
(* Flattening, one sequence at a time.  FlattenSeq takes the value at the  *)
(* end of a table of prefixes; there is one such table and no other.       *)
(***************************************************************************)
IsFlattening(f, seqs) ==
    f = [i \in 1..Len(seqs) |-> IF i = 1 THEN seqs[i] ELSE f[i - 1] \o seqs[i]]

\* There is one way to flatten a sequence.
LEMMA FlatteningUnique ==
    ASSUME NEW seqs, Len(seqs) \in Nat, NEW f, NEW g,
           IsFlattening(f, seqs), IsFlattening(g, seqs)
    PROVE  f = g
<1> DEFINE Same == {n \in Nat : n + 1 \in 1..Len(seqs) => f[n + 1] = g[n + 1]}
<1>1. 0 \in Same
  BY DEF IsFlattening
<1>2. ASSUME NEW n \in Same PROVE n + 1 \in Same
  <2>1. n \in Nat
    OBVIOUS
  <2>2. SUFFICES ASSUME n + 2 \in 1..Len(seqs) PROVE f[n + 2] = g[n + 2]
    BY <2>1
  <2>3. f[n + 1] = g[n + 1]
    BY <2>1, <2>2
  <2>4. n + 2 # 1 /\ (n + 2) - 1 = n + 1
    BY <2>1
  <2>5. f[n + 2] = f[n + 1] \o seqs[n + 2] /\ g[n + 2] = g[n + 1] \o seqs[n + 2]
    BY <2>2, <2>4 DEF IsFlattening
  <2> QED
    BY <2>3, <2>5
<1>3. Same = Nat
  <2> HIDE DEF Same
  <2>1. Same \in SUBSET Nat
    BY DEF Same
  <2> QED
    BY <1>1, <1>2, <2>1, Induction
<1>4. ASSUME NEW i \in 1..Len(seqs) PROVE f[i] = g[i]
  <2>1. i - 1 \in Nat /\ (i - 1) + 1 = i
    OBVIOUS
  <2>2. i - 1 + 1 \in 1..Len(seqs) => f[i - 1 + 1] = g[i - 1 + 1]
    BY <1>3, <2>1
  <2> QED
    BY <2>1, <2>2
<1>5. f = [i \in 1..Len(seqs) |-> f[i]] /\ g = [i \in 1..Len(seqs) |-> g[i]]
  BY DEF IsFlattening
<1> QED
  BY <1>4, <1>5

\* The table of one more sequence.
Extended(f, seqs, s) ==
    [i \in 1..(Len(seqs) + 1) |->
        IF i <= Len(seqs) THEN f[i] ELSE IF i = 1 THEN s ELSE f[i - 1] \o s]

\* A sequence more is flattened by joining it.
LEMMA FlatteningExtends ==
    ASSUME NEW S, NEW seqs \in Seq(S), NEW s \in S, NEW f, IsFlattening(f, seqs)
    PROVE  IsFlattening(Extended(f, seqs, s), Append(seqs, s))
<1> DEFINE n == Len(seqs)
           more == Append(seqs, s)
           g == Extended(f, seqs, s)
<1>1. n \in Nat /\ Len(more) = n + 1 /\ more[n + 1] = s /\ \A i \in 1..n : more[i] = seqs[i]
  OBVIOUS
<1>2. \A i \in 1..n : g[i] = f[i] /\ i \in 1..(n + 1)
  BY <1>1 DEF Extended
<1>3. \A i \in 1..n : g[i] = IF i = 1 THEN more[i] ELSE g[i - 1] \o more[i]
  <2> SUFFICES ASSUME NEW i \in 1..n
               PROVE  g[i] = IF i = 1 THEN more[i] ELSE g[i - 1] \o more[i]
    OBVIOUS
  <2>1. f[i] = IF i = 1 THEN seqs[i] ELSE f[i - 1] \o seqs[i]
    BY DEF IsFlattening
  <2>2. i # 1 => i - 1 \in 1..n
    BY <1>1
  <2> QED
    BY <1>1, <1>2, <2>1, <2>2
<1>4. g[n + 1] = IF n + 1 = 1 THEN more[n + 1] ELSE g[(n + 1) - 1] \o more[n + 1]
  <2>1. CASE n = 0
    BY <1>1, <2>1 DEF Extended
  <2>2. CASE n # 0
    <3>1. n \in 1..n /\ (n + 1) - 1 = n /\ n + 1 # 1 /\ ~(n + 1 <= n) /\ n + 1 \in 1..(n + 1)
      BY <1>1, <2>2
    <3>2. g[n + 1] = f[n] \o s
      BY <3>1 DEF Extended
    <3> QED
      BY <1>1, <1>2, <3>1, <3>2
  <2> QED
    BY <2>1, <2>2
<1>5. g = [i \in 1..(n + 1) |-> g[i]]
  BY DEF Extended
<1>6. \A i \in 1..(n + 1) : i \in 1..n \/ i = n + 1
  BY <1>1
<1> HIDE DEF g, more, n
<1>7. g = [i \in 1..Len(more) |-> IF i = 1 THEN more[i] ELSE g[i - 1] \o more[i]]
  BY <1>1, <1>3, <1>4, <1>5, <1>6
<1> QED
  BY <1>7 DEF IsFlattening, g, more

\* Every sequence of sequences can be flattened.
LEMMA FlatteningExists ==
    ASSUME NEW S, NEW seqs \in Seq(S)
    PROVE  \E f : IsFlattening(f, seqs)
<1> DEFINE Reached == {n \in Nat : n <= Len(seqs) => \E f : IsFlattening(f, SubSeq(seqs, 1, n))}
<1>1. 0 \in Reached
  <2>1. Len(SubSeq(seqs, 1, 0)) = 0
    OBVIOUS
  <2>2. IsFlattening(<< >>, SubSeq(seqs, 1, 0))
    BY <2>1 DEF IsFlattening
  <2> QED
    BY <2>2
<1>2. ASSUME NEW n \in Reached PROVE n + 1 \in Reached
  <2>1. n \in Nat /\ n + 1 \in Nat
    OBVIOUS
  <2>2. SUFFICES ASSUME n + 1 <= Len(seqs)
                 PROVE  \E f : IsFlattening(f, SubSeq(seqs, 1, n + 1))
    BY <2>1
  <2>3. PICK f : IsFlattening(f, SubSeq(seqs, 1, n))
    BY <2>1, <2>2
  <2>4. SubSeq(seqs, 1, n) \in Seq(S) /\ seqs[n + 1] \in S
    BY <2>1, <2>2
  <2>5. SubSeq(seqs, 1, n + 1) = Append(SubSeq(seqs, 1, n), seqs[n + 1])
    BY <2>1, <2>2
  <2> QED
    BY <2>3, <2>4, <2>5, FlatteningExtends
<1>3. Reached = Nat
  <2> HIDE DEF Reached
  <2>1. Reached \in SUBSET Nat
    BY DEF Reached
  <2> QED
    BY <1>1, <1>2, <2>1, Induction
<1>4. Len(seqs) \in Nat /\ Len(seqs) <= Len(seqs) /\ SubSeq(seqs, 1, Len(seqs)) = seqs
  OBVIOUS
<1>5. Len(seqs) <= Len(seqs) => \E f : IsFlattening(f, SubSeq(seqs, 1, Len(seqs)))
  BY <1>3, <1>4
<1> QED
  BY <1>4, <1>5

\* What FlattenSeq is: the last entry of the table.
LEMMA FlattenIs ==
    ASSUME NEW seqs, Len(seqs) \in Nat, Len(seqs) # 0, NEW f, IsFlattening(f, seqs)
    PROVE  FlattenSeq(seqs) = f[Len(seqs)]
<1>1. FlattenSeq(seqs) = (CHOOSE g : IsFlattening(g, seqs))[Len(seqs)]
  BY DEF FlattenSeq, IsFlattening
<1>2. IsFlattening(CHOOSE g : IsFlattening(g, seqs), seqs)
  OBVIOUS
<1> QED
  BY <1>1, <1>2, FlatteningUnique

\* One more sequence comes behind the others.
LEMMA FlattenAppend ==
    ASSUME NEW S, NEW seqs \in Seq(Seq(S)), NEW s \in Seq(S)
    PROVE  FlattenSeq(Append(seqs, s)) = FlattenSeq(seqs) \o s
<1>1. PICK f : IsFlattening(f, seqs)
  BY FlatteningExists
<1>2. IsFlattening(Extended(f, seqs, s), Append(seqs, s))
  BY <1>1, FlatteningExtends
<1>3. Len(seqs) \in Nat /\ Len(Append(seqs, s)) = Len(seqs) + 1
  OBVIOUS
<1>4. FlattenSeq(Append(seqs, s)) = Extended(f, seqs, s)[Len(seqs) + 1]
  <2> DEFINE more == Append(seqs, s)
             g == Extended(f, seqs, s)
  <2>1. Len(more) \in Nat /\ Len(more) # 0 /\ IsFlattening(g, more)
    BY <1>2, <1>3
  <2> HIDE DEF more, g
  <2>2. FlattenSeq(more) = g[Len(more)]
    BY <2>1, FlattenIs
  <2> QED
    BY <1>3, <2>2 DEF more, g
<1>5. CASE Len(seqs) = 0
  <2>1. seqs = << >>
    BY <1>5
  <2>2. FlattenSeq(seqs) = << >>
    BY <2>1 DEF FlattenSeq
  <2>3. << >> \o s = s
    OBVIOUS
  <2>4. Extended(f, seqs, s)[Len(seqs) + 1] = s
    BY <1>5 DEF Extended
  <2> QED
    BY <1>4, <2>2, <2>3, <2>4
<1>6. CASE Len(seqs) # 0
  <2>1. FlattenSeq(seqs) = f[Len(seqs)]
    BY <1>1, <1>3, <1>6, FlattenIs
  <2>2. Extended(f, seqs, s)[Len(seqs) + 1] = f[Len(seqs)] \o s
    BY <1>3, <1>6 DEF Extended
  <2> QED
    BY <1>4, <2>1, <2>2
<1> QED
  BY <1>5, <1>6

\* Flattening gives a sequence of what the sequences hold.
LEMMA FlattenTyped ==
    ASSUME NEW S, NEW seqs \in Seq(Seq(S))
    PROVE  FlattenSeq(seqs) \in Seq(S)
<1>1. PICK f : IsFlattening(f, seqs)
  BY FlatteningExists
<1>2. Len(seqs) \in Nat
  OBVIOUS
<1> DEFINE In == {n \in Nat : n + 1 \in 1..Len(seqs) => f[n + 1] \in Seq(S)}
<1>3. 0 \in In
  BY <1>1 DEF IsFlattening
<1>4. ASSUME NEW n \in In PROVE n + 1 \in In
  <2>1. n \in Nat
    OBVIOUS
  <2>2. SUFFICES ASSUME n + 2 \in 1..Len(seqs) PROVE f[n + 2] \in Seq(S)
    BY <2>1
  <2>3. f[n + 1] \in Seq(S) /\ seqs[n + 2] \in Seq(S)
    BY <1>2, <2>1, <2>2
  <2>4. n + 2 # 1 /\ (n + 2) - 1 = n + 1
    BY <2>1
  <2>5. f[n + 2] = f[n + 1] \o seqs[n + 2]
    BY <1>1, <2>2, <2>4 DEF IsFlattening
  <2> QED
    BY <2>3, <2>5
<1>5. In = Nat
  <2> HIDE DEF In
  <2>1. In \in SUBSET Nat
    BY DEF In
  <2> QED
    BY <1>3, <1>4, <2>1, Induction
<1>6. CASE Len(seqs) = 0
  <2>1. seqs = << >>
    BY <1>6
  <2> QED
    BY <2>1 DEF FlattenSeq
<1>7. CASE Len(seqs) # 0
  <2>1. PICK m \in Nat : m + 1 = Len(seqs)
    <3>1. Len(seqs) - 1 \in Nat /\ (Len(seqs) - 1) + 1 = Len(seqs)
      BY <1>2, <1>7
    <3> QED
      BY <3>1
  <2>2. m + 1 \in 1..Len(seqs) => f[m + 1] \in Seq(S)
    BY <1>5, <2>1
  <2>3. f[Len(seqs)] \in Seq(S)
    BY <2>1, <2>2
  <2> QED
    BY <1>1, <1>2, <1>7, <2>3, FlattenIs
<1> QED
  BY <1>6, <1>7

\* Two lists of sequences, one behind the other.
LEMMA FlattenJoined ==
    ASSUME NEW S, NEW a \in Seq(Seq(S)), NEW b \in Seq(Seq(S))
    PROVE  FlattenSeq(a \o b) = FlattenSeq(a) \o FlattenSeq(b)
<1> DEFINE First(m) == SubSeq(b, 1, m)
           T == {m \in Nat : m <= Len(b) =>
                    FlattenSeq(a \o First(m)) = FlattenSeq(a) \o FlattenSeq(First(m))}
<1>1. 0 \in T
  <2>1. First(0) = << >> /\ a \o << >> = a
    OBVIOUS
  <2>2. FlattenSeq(<< >>) = << >>
    BY DEF FlattenSeq
  <2>3. FlattenSeq(a) \in Seq(S)
    BY FlattenTyped
  <2>4. FlattenSeq(a) \o << >> = FlattenSeq(a)
    BY <2>3
  <2> QED
    BY <2>1, <2>2, <2>4
<1>2. ASSUME NEW m \in T PROVE m + 1 \in T
  <2>1. m \in Nat
    OBVIOUS
  <2>2. SUFFICES ASSUME m + 1 <= Len(b)
                 PROVE  FlattenSeq(a \o First(m + 1)) = FlattenSeq(a) \o FlattenSeq(First(m + 1))
    BY <2>1
  <2> DEFINE c == First(m)
             s == b[m + 1]
  <2>3. c \in Seq(Seq(S)) /\ s \in Seq(S) /\ First(m + 1) = Append(c, s)
    BY <2>1, <2>2
  <2>4. FlattenSeq(a \o c) = FlattenSeq(a) \o FlattenSeq(c)
    BY <2>1, <2>2
  <2> HIDE DEF First, c, s
  <2>5. a \o c \in Seq(Seq(S)) /\ a \o Append(c, s) = Append(a \o c, s)
    BY <2>3
  <2>6. /\ FlattenSeq(Append(a \o c, s)) = FlattenSeq(a \o c) \o s
        /\ FlattenSeq(Append(c, s)) = FlattenSeq(c) \o s
    BY <2>3, <2>5, FlattenAppend
  <2>7. FlattenSeq(a) \in Seq(S) /\ FlattenSeq(c) \in Seq(S)
    BY <2>3, FlattenTyped
  <2>8. \A p \in Seq(S), q \in Seq(S), r \in Seq(S) : (p \o q) \o r = p \o (q \o r)
    OBVIOUS
  <2>9. FlattenSeq(a \o First(m + 1)) = (FlattenSeq(a) \o FlattenSeq(c)) \o s
    BY <2>3, <2>4, <2>5, <2>6
  <2>10. FlattenSeq(a) \o FlattenSeq(First(m + 1)) = FlattenSeq(a) \o (FlattenSeq(c) \o s)
    BY <2>3, <2>6
  <2> QED
    BY <2>3, <2>7, <2>8, <2>9, <2>10
<1>3. T = Nat
  <2> HIDE DEF T
  <2>1. T \in SUBSET Nat
    BY DEF T
  <2> QED
    BY <1>1, <1>2, <2>1, Induction
<1>4. Len(b) \in Nat /\ First(Len(b)) = b
  OBVIOUS
<1>5. Len(b) \in T
  BY <1>3, <1>4
<1> HIDE DEF First
<1> QED
  BY <1>4, <1>5

\* Sequences of one element each, and sequences without any.
LEMMA FlattenPieces ==
    ASSUME NEW S, NEW q \in Seq(S)
    PROVE  /\ FlattenSeq([i \in 1..Len(q) |-> <<q[i]>>]) = q
           /\ FlattenSeq([i \in 1..Len(q) |-> << >>]) = << >>
<1> DEFINE One(m) == [i \in 1..m |-> <<q[i]>>]
           None(m) == [i \in 1..m |-> << >>]
           Right(m) == FlattenSeq(One(m)) = SubSeq(q, 1, m) /\ FlattenSeq(None(m)) = << >>
           T == {m \in Nat : m <= Len(q) => Right(m)}
<1>1. 0 \in T
  <2>1. One(0) = << >> /\ None(0) = << >> /\ SubSeq(q, 1, 0) = << >>
    OBVIOUS
  <2>2. FlattenSeq(<< >>) = << >>
    BY DEF FlattenSeq
  <2> HIDE DEF One, None
  <2> QED
    BY <2>1, <2>2
<1>2. ASSUME NEW m \in T PROVE m + 1 \in T
  <2> HIDE DEF Right
  <2>1. m \in Nat /\ (m <= Len(q) => Right(m))
    OBVIOUS
  <2>2. SUFFICES ASSUME m + 1 <= Len(q) PROVE Right(m + 1)
    BY <2>1
  <2>3. \A i \in 1..(m + 1) : q[i] \in S /\ <<q[i]>> \in Seq(S)
    BY <2>1, <2>2
  <2>4. << >> \in Seq(S) /\ <<q[m + 1]>> \in Seq(S)
    BY <2>1, <2>3
  <2>5. One(m) \in Seq(Seq(S)) /\ None(m) \in Seq(Seq(S)) /\ Len(One(m)) = m /\ Len(None(m)) = m
    BY <2>1, <2>3, <2>4
  <2>6. One(m + 1) = Append(One(m), <<q[m + 1]>>)
    BY <2>1, <2>3, <2>5
  <2>7. None(m + 1) = Append(None(m), << >>)
    BY <2>1, <2>5
  <2>8. FlattenSeq(One(m)) = SubSeq(q, 1, m) /\ FlattenSeq(None(m)) = << >>
    <3>1. m <= Len(q)
      BY <2>1, <2>2
    <3>2. Right(m)
      BY <2>1, <3>1
    <3> QED
      BY <3>2 DEF Right
  <2>9. SubSeq(q, 1, m + 1) = SubSeq(q, 1, m) \o <<q[m + 1]>>
    BY <2>1, <2>2
  <2>10. << >> \o << >> = << >>
    OBVIOUS
  <2> HIDE DEF One, None
  <2>11. /\ FlattenSeq(Append(One(m), <<q[m + 1]>>)) = FlattenSeq(One(m)) \o <<q[m + 1]>>
         /\ FlattenSeq(Append(None(m), << >>)) = FlattenSeq(None(m)) \o << >>
    BY <2>4, <2>5, FlattenAppend
  <2> QED
    BY <2>6, <2>7, <2>8, <2>9, <2>10, <2>11 DEF Right
<1>3. T = Nat
  <2> HIDE DEF T
  <2>1. T \in SUBSET Nat
    BY DEF T
  <2> QED
    BY <1>1, <1>2, <2>1, Induction
<1>4. Len(q) \in Nat /\ SubSeq(q, 1, Len(q)) = q
  OBVIOUS
<1>5. Len(q) \in T
  BY <1>3, <1>4
<1> QED
  BY <1>4, <1>5

-----------------------------------------------------------------------------
(***************************************************************************)
(* The function in Resolve.  Its recursion ends because each turn          *)
(* lengthens what has been visited, up to the bound; that there is such a  *)
(* function is shown by induction on how far from the bound it is defined. *)
(***************************************************************************)
\* One turn of the loop, with f for the turns that follow.
Turn(ix, md, f, v) ==
    LET up == ix[Last(v)].parent_entry
    IN  CASE AtRoot(ix, v) -> CleanPath(ix, v)
          [] ~AtRoot(ix, v) /\ OutOfBounds(ix, v, md) -> CyclePath(ix, v)
          [] OTHER ->
                IF ParentUsable(ix, v) THEN f[Append(v, up)] ELSE OrphanPath(ix, up, v)

IsClimb(ix, md, f) == f = [v \in Seq(Nat) |-> Turn(ix, md, f, v)]

\* What a turn needs of the turns that follow is the result for one more entry.
LEMMA TurnAgrees ==
    ASSUME NEW ix, DOMAIN ix \subseteq Nat, NEW md \in Nat, NEW f, NEW g, NEW v \in Seq(Nat),
           \A w \in Seq(Nat) : Len(w) = Len(v) + 1 /\ Len(v) < md => f[w] = g[w]
    PROVE  Turn(ix, md, f, v) = Turn(ix, md, g, v)
<1> DEFINE up == ix[Last(v)].parent_entry
<1>1. CASE AtRoot(ix, v)
  BY <1>1 DEF Turn
<1>2. CASE ~AtRoot(ix, v) /\ OutOfBounds(ix, v, md)
  BY <1>2 DEF Turn
<1>3. CASE ~AtRoot(ix, v) /\ ~OutOfBounds(ix, v, md) /\ ~ParentUsable(ix, v)
  BY <1>3 DEF Turn
<1>4. CASE ~AtRoot(ix, v) /\ ~OutOfBounds(ix, v, md) /\ ParentUsable(ix, v)
  <2>1. Len(v) < md
    BY <1>4 DEF OutOfBounds
  <2>2. up \in Nat
    BY <1>4 DEF ParentUsable
  <2>3. Append(v, up) \in Seq(Nat) /\ Len(Append(v, up)) = Len(v) + 1
    BY <2>2
  <2>4. f[Append(v, up)] = g[Append(v, up)]
    BY <2>1, <2>3
  <2> QED
    BY <1>4, <2>4 DEF Turn
<1> QED
  BY <1>1, <1>2, <1>3, <1>4

\* There is such a function: from the bound down, one turn at a time.
LEMMA ClimbExists ==
    ASSUME NEW ix, DOMAIN ix \subseteq Nat, NEW md \in Nat
    PROVE  \E f : IsClimb(ix, md, f)
<1> DEFINE Near(f, k) == \A v \in Seq(Nat) : Len(v) + k >= md => f[v] = Turn(ix, md, f, v)
           IsTable(f) == f = [v \in Seq(Nat) |-> f[v]]
           After(f) == [v \in Seq(Nat) |-> Turn(ix, md, f, v)]
           T == {k \in Nat : \E f : Near(f, k)}
<1>0. \A v \in Seq(Nat) : Len(v) \in Nat
  OBVIOUS
<1>1. 0 \in T
  <2>1. ASSUME NEW v \in Seq(Nat), Len(v) + 0 >= md
        PROVE  Turn(ix, md, After(<< >>), v) = Turn(ix, md, << >>, v)
    <3>1. ~(Len(v) < md)
      BY <1>0, <2>1
    <3> HIDE DEF After
    <3> QED
      BY <3>1, TurnAgrees
  <2>2. Near(After(<< >>), 0)
    BY <2>1
  <2> QED
    BY <2>2
<1>2. ASSUME NEW k \in T PROVE k + 1 \in T
  <2>0. k \in Nat
    OBVIOUS
  <2>1. PICK f : Near(f, k)
    OBVIOUS
  <2> DEFINE g == After(f)
  <2>2. \A w \in Seq(Nat) : g[w] = Turn(ix, md, f, w)
    OBVIOUS
  <2> HIDE DEF g
  <2>3. ASSUME NEW v \in Seq(Nat), Len(v) + (k + 1) >= md
        PROVE  g[v] = Turn(ix, md, g, v)
    <3>1. \A w \in Seq(Nat) : Len(w) = Len(v) + 1 /\ Len(v) < md => f[w] = g[w]
      <4>1. ASSUME NEW w \in Seq(Nat), Len(w) = Len(v) + 1 PROVE f[w] = g[w]
        <5>1. Len(w) + k >= md
          BY <1>0, <2>0, <2>3, <4>1
        <5> QED
          BY <2>1, <2>2, <5>1
      <4> QED
        BY <4>1
    <3>2. Turn(ix, md, f, v) = Turn(ix, md, g, v)
      BY <3>1, TurnAgrees
    <3> QED
      BY <2>2, <3>2
  <2>4. Near(g, k + 1)
    BY <2>3
  <2> QED
    BY <2>0, <2>4
<1>3. T = Nat
  <2> HIDE DEF T
  <2>1. T \in SUBSET Nat
    BY DEF T
  <2> QED
    BY <1>1, <1>2, <2>1, Induction
<1>4. PICK f : Near(f, md)
  <2>1. md \in T
    BY <1>3
  <2> QED
    BY <2>1
<1> DEFINE g == After(f)
<1>5. \A v \in Seq(Nat) : f[v] = Turn(ix, md, f, v) /\ g[v] = Turn(ix, md, f, v)
  BY <1>0, <1>4
<1>6. g = [v \in Seq(Nat) |-> g[v]]
  OBVIOUS
<1> HIDE DEF g
<1>7. ASSUME NEW v \in Seq(Nat) PROVE Turn(ix, md, f, v) = Turn(ix, md, g, v)
  <2>1. \A w \in Seq(Nat) : f[w] = g[w]
    BY <1>5
  <2> QED
    BY <2>1, TurnAgrees
<1>8. g = [v \in Seq(Nat) |-> Turn(ix, md, g, v)]
  BY <1>5, <1>6, <1>7
<1> QED
  BY <1>8 DEF IsClimb

Climbed(ix, md) == CHOOSE f : IsClimb(ix, md, f)

\* And it is what one turn makes of it.
LEMMA ClimbedIs ==
    ASSUME NEW ix, DOMAIN ix \subseteq Nat, NEW md \in Nat, NEW v \in Seq(Nat)
    PROVE  Climbed(ix, md)[v] = Turn(ix, md, Climbed(ix, md), v)
<1>1. IsClimb(ix, md, Climbed(ix, md))
  BY ClimbExists DEF Climbed
<1> DEFINE f == Climbed(ix, md)
<1> HIDE DEF f
<1>2. f = [w \in Seq(Nat) |-> Turn(ix, md, f, w)]
  BY <1>1 DEF IsClimb, f
<1>3. f[v] = Turn(ix, md, f, v)
  BY <1>2
<1> QED
  BY <1>3 DEF f

\* Resolve is that function, but for the entries it does not climb from.
LEMMA ResolveIs ==
    ASSUME NEW ix, NEW e, NEW md
    PROVE  Resolve(ix, e, md) =
              IF e \notin DOMAIN ix THEN OrphanPath(ix, e, << >>)
              ELSE IF e = ROOT_ENTRY THEN CleanPath(ix, <<e>>)
              ELSE Climbed(ix, md)[<<e>>]
<1> QED
  BY DEF Resolve, Climbed, IsClimb, Turn

\* The ways a turn ends or goes on, and with what.
LEMMA TurnEnds ==
    ASSUME NEW ix, DOMAIN ix \subseteq Nat, NEW md \in Nat, NEW v \in Seq(Nat), v # << >>
    PROVE  LET f == Climbed(ix, md)
               up == ix[Last(v)].parent_entry
           IN  \/ AtRoot(ix, v) /\ f[v] = CleanPath(ix, v)
               \/ f[v].end # "clean"
               \/ /\ ~AtRoot(ix, v) /\ ~OutOfBounds(ix, v, md) /\ ParentUsable(ix, v)
                  /\ Append(v, up) \in Seq(Nat) /\ Len(Append(v, up)) = Len(v) + 1
                  /\ Len(v) < md /\ f[v] = f[Append(v, up)]
<1> DEFINE f == Climbed(ix, md)
           up == ix[Last(v)].parent_entry
<1>1. f[v] = Turn(ix, md, f, v)
  BY ClimbedIs
<1> SUFFICES \/ AtRoot(ix, v) /\ f[v] = CleanPath(ix, v)
             \/ f[v].end # "clean"
             \/ /\ ~AtRoot(ix, v) /\ ~OutOfBounds(ix, v, md) /\ ParentUsable(ix, v)
                /\ Append(v, up) \in Seq(Nat) /\ Len(Append(v, up)) = Len(v) + 1
                /\ Len(v) < md /\ f[v] = f[Append(v, up)]
  OBVIOUS
<1> HIDE DEF f
<1>2. CASE AtRoot(ix, v)
  BY <1>1, <1>2 DEF Turn
<1>3. CASE ~AtRoot(ix, v) /\ OutOfBounds(ix, v, md)
  BY <1>1, <1>3 DEF Turn, CyclePath
<1>4. CASE ~AtRoot(ix, v) /\ ~OutOfBounds(ix, v, md) /\ ~ParentUsable(ix, v)
  BY <1>1, <1>4 DEF Turn, OrphanPath
<1>5. CASE ~AtRoot(ix, v) /\ ~OutOfBounds(ix, v, md) /\ ParentUsable(ix, v)
  <2>1. f[v] = f[Append(v, up)]
    BY <1>1, <1>5 DEF Turn
  <2>2. up \in Nat /\ Len(v) < md
    BY <1>5 DEF ParentUsable, OutOfBounds
  <2>3. Append(v, up) \in Seq(Nat) /\ Len(Append(v, up)) = Len(v) + 1
    BY <2>2
  <2> QED
    BY <1>5, <2>1, <2>2, <2>3
<1> QED
  BY <1>2, <1>3, <1>4, <1>5

\* The last component of a clean path is the name of the entry where the climb began.
LEMMA ResolveEndsInName ==
    ASSUME NEW ix, DOMAIN ix \subseteq Nat, NEW md \in Nat, NEW e, e # ROOT_ENTRY,
           Resolve(ix, e, md).end = "clean"
    PROVE  e \in DOMAIN ix /\ Last(Resolve(ix, e, md).components) = ix[e].name
<1> DEFINE f == Climbed(ix, md)
           Named(v) == f[v].end = "clean" => Last(f[v].components) = ix[v[1]].name
           T == {k \in Nat : \A v \in Seq(Nat) : v # << >> /\ Len(v) + k >= md => Named(v)}
<1>1. ASSUME NEW v \in Seq(Nat), v # << >>, f[v] = CleanPath(ix, v)
      PROVE  Named(v)
  <2> DEFINE q == [i \in 1..Len(v) |-> ix[v[i]].name]
  <2>1. Len(v) \in Nat /\ Len(v) >= 1
    BY <1>1
  <2>2. Len(q) = Len(v) /\ q[1] = ix[v[1]].name
    BY <2>1
  <2> HIDE DEF q
  <2>3. Last(Reverse(q)) = q[1]
    BY <2>1, <2>2 DEF Last, Reverse
  <2>4. f[v].components = Reverse(q)
    BY <1>1 DEF CleanPath, Components, q
  <2> QED
    BY <2>2, <2>3, <2>4
<1> HIDE DEF f
<1>2. 0 \in T
  <2>1. ASSUME NEW v \in Seq(Nat), v # << >>, Len(v) + 0 >= md PROVE Named(v)
    <3>1. ~(Len(v) < md)
      BY <2>1
    <3>2. f[v] = CleanPath(ix, v) \/ f[v].end # "clean"
      BY <2>1, <3>1, TurnEnds DEF f
    <3> QED
      BY <1>1, <2>1, <3>2
  <2> QED
    BY <2>1
<1>3. ASSUME NEW k \in T PROVE k + 1 \in T
  <2>1. k \in Nat
    OBVIOUS
  <2>2. ASSUME NEW v \in Seq(Nat), v # << >>, Len(v) + (k + 1) >= md PROVE Named(v)
    <3> DEFINE w == Append(v, ix[Last(v)].parent_entry)
    <3>1. CASE f[v] = CleanPath(ix, v)
      BY <1>1, <2>2, <3>1
    <3>2. CASE f[v].end # "clean"
      BY <3>2
    <3>3. CASE w \in Seq(Nat) /\ Len(w) = Len(v) + 1 /\ f[v] = f[w]
      <4>1. Len(v) \in Nat /\ Len(v) >= 1
        BY <2>2
      <4>2. w[1] = v[1]
        BY <3>3, <4>1
      <4> HIDE DEF w
      <4>3. w # << >> /\ Len(w) + k >= md
        BY <2>1, <2>2, <3>3, <4>1
      <4>4. Named(w)
        BY <3>3, <4>3
      <4> QED
        BY <3>3, <4>2, <4>4
    <3> QED
      BY <2>2, <3>1, <3>2, <3>3, TurnEnds DEF f
  <2> QED
    BY <2>1, <2>2
<1>4. T = Nat
  <2> HIDE DEF T
  <2>1. T \in SUBSET Nat
    BY DEF T
  <2> QED
    BY <1>2, <1>3, <2>1, Induction
<1>5. e \in DOMAIN ix /\ Resolve(ix, e, md) = f[<<e>>]
  BY ResolveIs DEF OrphanPath, f
<1>6. <<e>> \in Seq(Nat) /\ <<e>> # << >> /\ Len(<<e>>) + md >= md /\ <<e>>[1] = e
  BY <1>5
<1>7. Named(<<e>>)
  <2>1. md \in T
    BY <1>4
  <2> QED
    BY <1>6, <2>1
<1> QED
  BY <1>5, <1>6, <1>7

\* Two indexes that say the same wherever the first says anything.
Extends(full, sub) ==
    /\ DOMAIN full \subseteq Nat
    /\ DOMAIN sub \subseteq DOMAIN full
    /\ \A e \in DOMAIN sub : full[e] = sub[e]

\* What is clean by the smaller index is the same path by the larger one.
LEMMA CleanPathStays ==
    ASSUME NEW full, NEW sub, Extends(full, sub), NEW md \in Nat, NEW e \in DOMAIN sub,
           Resolve(sub, e, md).end = "clean"
    PROVE  Resolve(full, e, md) = Resolve(sub, e, md)
<1> DEFINE f == Climbed(full, md)
           g == Climbed(sub, md)
           Within(v) == v # << >> /\ \A i \in 1..Len(v) : v[i] \in DOMAIN sub
           Same(v) == g[v].end = "clean" => f[v] = g[v]
           T == {k \in Nat : \A v \in Seq(Nat) : Within(v) /\ Len(v) + k >= md => Same(v)}
<1>0. DOMAIN full \subseteq Nat /\ DOMAIN sub \subseteq Nat
  BY DEF Extends
<1>1. ASSUME NEW v \in Seq(Nat), Within(v)
      PROVE  /\ full[Last(v)] = sub[Last(v)]
             /\ AtRoot(sub, v) => AtRoot(full, v) /\ CleanPath(full, v) = CleanPath(sub, v)
             /\ ~AtRoot(sub, v) /\ ~OutOfBounds(sub, v, md) /\ ParentUsable(sub, v) =>
                   /\ ~AtRoot(full, v) /\ ~OutOfBounds(full, v, md) /\ ParentUsable(full, v)
                   /\ Within(Append(v, sub[Last(v)].parent_entry))
  <2>1. Len(v) \in 1..Len(v) /\ Len(v) \in Nat
    BY <1>1
  <2>2. Last(v) \in DOMAIN sub /\ full[Last(v)] = sub[Last(v)]
    BY <1>1, <2>1 DEF Last, Extends
  <2>3. Components(full, v) = Components(sub, v)
    <3>1. \A i \in 1..Len(v) : full[v[i]].name = sub[v[i]].name
      BY <1>1 DEF Extends
    <3>2. [i \in 1..Len(v) |-> full[v[i]].name] = [i \in 1..Len(v) |-> sub[v[i]].name]
      BY <3>1
    <3> QED
      BY <3>2 DEF Components
  <2>4. ASSUME ParentUsable(sub, v)
        PROVE  ParentUsable(full, v) /\ Within(Append(v, sub[Last(v)].parent_entry))
    <3> DEFINE up == sub[Last(v)].parent_entry
    <3>1. up \in DOMAIN sub /\ up \in DOMAIN full /\ full[up] = sub[up] /\ up \in Nat
      BY <1>0, <2>4 DEF ParentUsable, Extends
    <3>2. ParentUsable(full, v)
      BY <2>2, <2>4, <3>1 DEF ParentUsable
    <3> HIDE DEF up
    <3>3. /\ Len(Append(v, up)) = Len(v) + 1 /\ Append(v, up) # << >>
          /\ \A i \in 1..(Len(v) + 1) : Append(v, up)[i] = IF i = Len(v) + 1 THEN up ELSE v[i]
      BY <3>1
    <3>4. Within(Append(v, up))
      BY <1>1, <2>1, <3>1, <3>3
    <3> QED
      BY <3>2, <3>4 DEF up
  <2> QED
    BY <2>2, <2>3, <2>4 DEF AtRoot, OutOfBounds, CleanPath
<1>2. ASSUME NEW v \in Seq(Nat), Within(v), g[v].end = "clean"
      PROVE  \/ f[v] = g[v]
             \/ LET w == Append(v, sub[Last(v)].parent_entry)
                IN  /\ w \in Seq(Nat) /\ Len(w) = Len(v) + 1 /\ Len(v) < md /\ Within(w)
                    /\ g[v] = g[w] /\ f[v] = f[w]
  <2> DEFINE up == sub[Last(v)].parent_entry
  <2>1. v # << >>
    BY <1>2
  <2>2. CASE AtRoot(sub, v) /\ g[v] = CleanPath(sub, v)
    <3>1. AtRoot(full, v) /\ CleanPath(full, v) = CleanPath(sub, v)
      BY <1>1, <1>2, <2>2
    <3>2. f[v] = Turn(full, md, f, v)
      BY <1>0, ClimbedIs
    <3> HIDE DEF f, g
    <3>3. f[v] = CleanPath(full, v)
      BY <3>1, <3>2 DEF Turn
    <3> QED
      BY <2>2, <3>1, <3>3
  <2>3. CASE /\ ~AtRoot(sub, v) /\ ~OutOfBounds(sub, v, md) /\ ParentUsable(sub, v)
             /\ Append(v, up) \in Seq(Nat) /\ Len(Append(v, up)) = Len(v) + 1
             /\ Len(v) < md /\ g[v] = g[Append(v, up)]
    <3>1. /\ ~AtRoot(full, v) /\ ~OutOfBounds(full, v, md) /\ ParentUsable(full, v)
          /\ Within(Append(v, up)) /\ full[Last(v)] = sub[Last(v)]
      BY <1>1, <1>2, <2>3
    <3>2. f[v] = Turn(full, md, f, v)
      BY <1>0, ClimbedIs
    <3> HIDE DEF f, g
    <3>3. f[v] = f[Append(v, up)]
      BY <3>1, <3>2 DEF Turn
    <3> QED
      BY <2>3, <3>1, <3>3
  <2> QED
    BY <1>0, <1>2, <2>1, <2>2, <2>3, TurnEnds
<1> HIDE DEF f, g, Within
<1>3. 0 \in T
  <2>1. ASSUME NEW v \in Seq(Nat), Within(v), Len(v) + 0 >= md PROVE Same(v)
    <3>1. ~(Len(v) < md)
      BY <2>1
    <3> QED
      BY <1>2, <2>1, <3>1
  <2> QED
    BY <2>1
<1>4. ASSUME NEW k \in T PROVE k + 1 \in T
  <2>1. k \in Nat
    OBVIOUS
  <2>2. ASSUME NEW v \in Seq(Nat), Within(v), Len(v) + (k + 1) >= md PROVE Same(v)
    <3> DEFINE w == Append(v, sub[Last(v)].parent_entry)
    <3> SUFFICES ASSUME g[v].end = "clean", f[v] # g[v] PROVE FALSE
      OBVIOUS
    <3>1. w \in Seq(Nat) /\ Len(w) = Len(v) + 1 /\ Within(w) /\ g[v] = g[w] /\ f[v] = f[w]
      BY <1>2, <2>2
    <3> HIDE DEF w
    <3>2. Len(w) + k >= md
      BY <2>1, <2>2, <3>1
    <3>3. Same(w)
      BY <3>1, <3>2
    <3> QED
      BY <3>1, <3>3
  <2> QED
    BY <2>1, <2>2
<1>5. T = Nat
  <2> HIDE DEF T
  <2>1. T \in SUBSET Nat
    BY DEF T
  <2> QED
    BY <1>3, <1>4, <2>1, Induction
<1>6. e \in DOMAIN full /\ full[e] = sub[e] /\ e \in Nat
  BY <1>0 DEF Extends
<1>7. CASE e = ROOT_ENTRY
  <2>1. /\ Resolve(full, e, md) = CleanPath(full, <<e>>)
        /\ Resolve(sub, e, md) = CleanPath(sub, <<e>>)
    BY <1>6, <1>7, ResolveIs
  <2>2. [i \in 1..Len(<<e>>) |-> full[<<e>>[i]].name] = [i \in 1..Len(<<e>>) |-> sub[<<e>>[i]].name]
    BY <1>6
  <2> QED
    BY <2>1, <2>2 DEF CleanPath, Components
<1>8. CASE e # ROOT_ENTRY
  <2>1. Resolve(full, e, md) = f[<<e>>] /\ Resolve(sub, e, md) = g[<<e>>]
    BY <1>6, <1>8, ResolveIs DEF f, g
  <2>2. <<e>> \in Seq(Nat) /\ Within(<<e>>) /\ Len(<<e>>) + md >= md
    BY <1>6 DEF Within
  <2>3. Same(<<e>>)
    <3>1. md \in T
      BY <1>5
    <3> QED
      BY <2>2, <3>1
  <2> QED
    BY <2>1, <2>3
<1> QED
  BY <1>7, <1>8
=============================================================================
