--------------------------- MODULE SequenceInduction ---------------------------
(***************************************************************************)
(* Facts about recursion over sequences, for the wires: the induction they *)
(* rest on, stated for a set so that first-order provers can use it, and   *)
(* the laws of flattening, of reading a sequence part by part, and of      *)
(* folding with an operator Op.                                            *)
(***************************************************************************)
EXTENDS Integers, Sequences, SequencesExt, SequenceTheorems, WellFoundedInduction, TLAPS

CONSTANTS
    Op(_, _),    \* what is folded: a state and an element give a state
    Part(_, _)   \* what an element contributes to the reading called key

-----------------------------------------------------------------------------
(* Induction                                                               *)

\* Induction over the naturals, for a set.
LEMMA NaturalsByStep ==
    ASSUME NEW N, 0 \in N, \A n \in Nat : n \in N => n + 1 \in N
    PROVE  Nat \subseteq N
<1> SUFFICES ASSUME Nat \ N # {} PROVE FALSE
  OBVIOUS
<1>1. PICK m \in Nat \ N : \A y \in Nat \ N : ~(<<y, m>> \in OpToRel(<, Nat))
  BY NatLessThanWellFounded, WFMin
<1>2. m \in Nat /\ m \notin N
  BY Zenon
<1>3. m # 0 /\ m - 1 \in Nat /\ m - 1 < m /\ (m - 1) + 1 = m
  BY <1>2
<1>4. <<m - 1, m>> \in OpToRel(<, Nat)
  BY <1>2, <1>3 DEF OpToRel
<1>5. m - 1 \in N
  BY <1>1, <1>3, <1>4
<1>6. (m - 1) + 1 \in N
  BY <1>3, <1>5
<1> QED
  BY <1>2, <1>3, <1>6

\* Induction over sequences, by their last element, for a set.
LEMMA SequencesByAppend ==
    ASSUME NEW S, NEW N, <<>> \in N,
           \A s \in Seq(S), e \in S : s \in N => Append(s, e) \in N
    PROVE  Seq(S) \subseteq N
<1> DEFINE M == {n \in Nat : \A s \in Seq(S) : Len(s) = n => s \in N}
<1>1. 0 \in M
  <2>1. \A s \in Seq(S) : Len(s) = 0 => s = <<>>
    BY EmptySeq
  <2> QED
    BY <2>1
<1>2. ASSUME NEW n \in Nat, n \in M
      PROVE  n + 1 \in M
  <2> SUFFICES ASSUME NEW s \in Seq(S), Len(s) = n + 1
               PROVE  s \in N
    OBVIOUS
  <2>1. s # <<>>
    BY EmptySeq
  <2>2. PICK t \in Seq(S), e \in S : s = Append(t, e)
    BY <2>1, SequenceEmptyOrAppend
  <2>3. Len(t) = n
    BY <2>2, AppendProperties, LenProperties
  <2>4. t \in N
    BY <1>2, <2>3
  <2> QED
    BY <2>2, <2>4
<1>3. Nat \subseteq M
  <2> HIDE DEF M
  <2> QED
    BY <1>1, <1>2, NaturalsByStep
<1>4. ASSUME NEW s \in Seq(S)
      PROVE  s \in N
  <2>1. Len(s) \in M
    BY <1>3, LenProperties
  <2> QED
    BY <2>1
<1> QED
  BY <1>4

-----------------------------------------------------------------------------
(* Flattening                                                              *)

\* The function by which FlattenSeq is defined.
Flattens(F, ss) ==
    F = [i \in 1..Len(ss) |-> IF i = 1 THEN ss[i] ELSE F[i - 1] \o ss[i]]

\* A sequence of sequences is flattened by the function the library chooses.
LEMMA FlattenChooses ==
    ASSUME NEW ss, Len(ss) # 0
    PROVE  FlattenSeq(ss) = (CHOOSE F : Flattens(F, ss))[Len(ss)]
BY Zenon DEF FlattenSeq, Flattens

\* Such a function for a sequence gives one for a longer sequence.
LEMMA FlattenExtends ==
    ASSUME NEW S, NEW ss \in Seq(Seq(S)), NEW e \in Seq(S), NEW F,
           ss # <<>> => Flattens(F, ss)
    PROVE  \E E : /\ Flattens(E, Append(ss, e))
                  /\ E[Len(ss) + 1] = IF ss = <<>> THEN e ELSE F[Len(ss)] \o e
<1> DEFINE t == Append(ss, e)
           n == Len(ss)
           E == [i \in 1 .. n + 1 |-> IF i = n + 1
                                      THEN IF n = 0 THEN e ELSE F[n] \o e
                                      ELSE F[i]]
<1>1. n \in Nat /\ Len(t) = n + 1 /\ t[n + 1] = e /\ \A i \in 1 .. n : t[i] = ss[i]
  BY AppendProperties, LenProperties
<1>2. ss = <<>> <=> n = 0
  BY EmptySeq
<1> HIDE DEF t, n
<1>3. ASSUME NEW i \in 1 .. n + 1
      PROVE  E[i] = IF i = 1 THEN t[i] ELSE E[i - 1] \o t[i]
  <2>1. CASE i = n + 1
    BY <1>1, <2>1
  <2>2. CASE i # n + 1
    <3>1. i \in 1 .. n /\ n # 0
      BY <1>1, <2>2
    <3>2. F[i] = IF i = 1 THEN ss[i] ELSE F[i - 1] \o ss[i]
      BY <1>2, <3>1 DEF Flattens, n
    <3>3. i # 1 => i - 1 \in 1 .. n + 1 /\ i - 1 # n + 1
      BY <1>1, <3>1
    <3> QED
      BY <1>1, <3>1, <3>2, <3>3
  <2> QED
    BY <2>1, <2>2
<1>4. Flattens(E, t)
  BY <1>1, <1>3 DEF Flattens
<1>5. E[n + 1] = IF ss = <<>> THEN e ELSE F[n] \o e
  BY <1>1, <1>2
<1> QED
  BY <1>4, <1>5 DEF t, n

\* It exists, and its values are sequences.
LEMMA FlattenExists ==
    ASSUME NEW S, NEW ss \in Seq(Seq(S)), ss # <<>>
    PROVE  Flattens(CHOOSE F : Flattens(F, ss), ss)
<1> DEFINE N == {tt \in Seq(Seq(S)) : tt # <<>> => \E F : Flattens(F, tt)}
<1>1. <<>> \in N
  BY EmptySeq
<1>2. ASSUME NEW tt \in Seq(Seq(S)), NEW e \in Seq(S), tt \in N
      PROVE  Append(tt, e) \in N
  <2>1. PICK F : tt # <<>> => Flattens(F, tt)
    BY <1>2
  <2>2. \E E : Flattens(E, Append(tt, e))
    BY <2>1, FlattenExtends
  <2> QED
    BY <2>2, AppendProperties
<1>3. Seq(Seq(S)) \subseteq N
  <2> HIDE DEF N
  <2> QED
    BY <1>1, <1>2, SequencesByAppend
<1>4. \E F : Flattens(F, ss)
  BY <1>3
<1> QED
  BY <1>4, Zenon

\* It is determined, and by the sequence's own beginning.
LEMMA FlattenUnique ==
    ASSUME NEW S, NEW ss \in Seq(Seq(S)), NEW tt \in Seq(Seq(S)),
           Len(ss) <= Len(tt), \A i \in 1 .. Len(ss) : ss[i] = tt[i],
           NEW F, Flattens(F, ss), NEW E, Flattens(E, tt)
    PROVE  \A i \in 1 .. Len(ss) : F[i] = E[i] /\ F[i] \in Seq(S)
<1> DEFINE N == {i \in Nat : i \in 1 .. Len(ss) => F[i] = E[i] /\ F[i] \in Seq(S)}
<1>1. /\ Len(ss) \in Nat /\ Len(tt) \in Nat
      /\ \A i \in 1 .. Len(ss) : ss[i] \in Seq(S)
  BY LenProperties
<1>2. 0 \in N
  BY <1>1
<1>3. ASSUME NEW i \in Nat, i \in N
      PROVE  i + 1 \in N
  <2> SUFFICES ASSUME i + 1 \in 1 .. Len(ss)
               PROVE  F[i + 1] = E[i + 1] /\ F[i + 1] \in Seq(S)
    OBVIOUS
  <2> DEFINE k == i + 1
  <2>0. k \in 1 .. Len(ss) /\ k \in 1 .. Len(tt)
    BY <1>1
  <2> HIDE DEF k
  <2>1. /\ F[k] = IF k = 1 THEN ss[k] ELSE F[k - 1] \o ss[k]
        /\ E[k] = IF k = 1 THEN tt[k] ELSE E[k - 1] \o tt[k]
    BY <2>0, Zenon DEF Flattens
  <2>2. ss[k] = tt[k] /\ ss[k] \in Seq(S)
    BY <1>1, <2>0
  <2>3. CASE i = 0
    BY <2>1, <2>2, <2>3 DEF k
  <2>4. CASE i # 0
    <3>1. i \in 1 .. Len(ss) /\ k - 1 = i /\ k # 1
      BY <1>1, <2>4 DEF k
    <3>2. F[i] = E[i] /\ F[i] \in Seq(S)
      BY <1>3, <3>1
    <3> QED
      <4>1. F[i] \o ss[k] \in Seq(S)
        BY <2>2, <3>2, ConcatProperties
      <4>2. F[k] = F[i] \o ss[k] /\ E[k] = E[i] \o tt[k]
        BY <2>1, <3>1
      <4> QED
        BY <2>2, <3>2, <4>1, <4>2 DEF k
  <2> QED
    BY <2>3, <2>4
<1>4. Nat \subseteq N
  <2> HIDE DEF N
  <2> QED
    BY <1>2, <1>3, NaturalsByStep
<1> QED
  BY <1>1, <1>4

\* Nothing flattens to nothing.
LEMMA FlattenEmpty == FlattenSeq(<<>>) = <<>>
BY DEF FlattenSeq

\* One sequence more is added at the end.
LEMMA FlattenAppend ==
    ASSUME NEW S, NEW ss \in Seq(Seq(S)), NEW e \in Seq(S)
    PROVE  /\ FlattenSeq(ss) \in Seq(S)
           /\ FlattenSeq(Append(ss, e)) = FlattenSeq(ss) \o e
<1> DEFINE t == Append(ss, e)
           n == Len(ss)
           F == CHOOSE G : Flattens(G, ss)
           H == CHOOSE G : Flattens(G, t)
<1>1. /\ n \in Nat /\ Len(t) = n + 1 /\ t[n + 1] = e /\ t \in Seq(Seq(S)) /\ t # <<>>
      /\ \A i \in 1 .. n : t[i] = ss[i]
  BY AppendProperties, LenProperties
<1>2. ss = <<>> <=> n = 0
  BY EmptySeq
<1>3. Flattens(H, t) /\ FlattenSeq(t) = H[n + 1]
  <2> HIDE DEF t
  <2>1. Flattens(H, t)
    BY <1>1, FlattenExists
  <2>2. FlattenSeq(t) = (CHOOSE G : Flattens(G, t))[Len(t)]
    BY <1>1, FlattenChooses
  <2> QED
    BY <1>1, <2>1, <2>2
<1> HIDE DEF H, t
<1>4. H[n + 1] = IF n = 0 THEN e ELSE H[n] \o e
  <2> HIDE DEF n
  <2> DEFINE k == n + 1
  <2>1. k \in 1 .. Len(t) /\ k - 1 = n /\ (k = 1 <=> n = 0)
    BY <1>1
  <2> HIDE DEF k
  <2>2. H[k] = IF k = 1 THEN t[k] ELSE H[k - 1] \o t[k]
    BY <1>3, <2>1, Zenon DEF Flattens
  <2> QED
    BY <1>1, <2>1, <2>2 DEF k
<1>5. CASE ss = <<>>
  <2>1. FlattenSeq(ss) = <<>>
    BY <1>5, FlattenEmpty
  <2> QED
    BY <1>1, <1>2, <1>3, <1>4, <1>5, <2>1, ConcatEmptySeq, EmptySeq DEF t
<1>6. CASE ss # <<>>
  <2>1. Flattens(F, ss) /\ FlattenSeq(ss) = F[n]
    BY <1>2, <1>6, FlattenExists, FlattenChooses
  <2> HIDE DEF F, n
  <2>2. n \in 1 .. n /\ n # 0 /\ n <= Len(t)
    BY <1>1, <1>2, <1>6
  <2>3. F[n] = H[n] /\ F[n] \in Seq(S)
    BY <1>1, <1>3, <2>1, <2>2, FlattenUnique DEF n
  <2> QED
    BY <1>1, <1>3, <1>4, <2>1, <2>2, <2>3 DEF t
<1> QED
  BY <1>5, <1>6

\* Flattening is done part by part.
LEMMA FlattenConcat ==
    ASSUME NEW S, NEW ss \in Seq(Seq(S)), NEW tt \in Seq(Seq(S))
    PROVE  FlattenSeq(ss \o tt) = FlattenSeq(ss) \o FlattenSeq(tt)
<1> DEFINE N == {us \in Seq(Seq(S)) : FlattenSeq(ss \o us) = FlattenSeq(ss) \o FlattenSeq(us)}
<1>1. <<>> \in N
  BY FlattenEmpty, FlattenAppend, ConcatEmptySeq, EmptySeq
<1>2. ASSUME NEW us \in Seq(Seq(S)), NEW e \in Seq(S), us \in N
      PROVE  Append(us, e) \in N
  <2>1. ss \o Append(us, e) = Append(ss \o us, e) /\ ss \o us \in Seq(Seq(S))
    OBVIOUS
  <2>2. FlattenSeq(Append(ss \o us, e)) = FlattenSeq(ss \o us) \o e
    BY <2>1, FlattenAppend
  <2>3. /\ FlattenSeq(Append(us, e)) = FlattenSeq(us) \o e
        /\ FlattenSeq(us) \in Seq(S) /\ FlattenSeq(ss) \in Seq(S)
    BY FlattenAppend
  <2>4. FlattenSeq(ss \o us) = FlattenSeq(ss) \o FlattenSeq(us)
    BY <1>2
  <2>5. (FlattenSeq(ss) \o FlattenSeq(us)) \o e = FlattenSeq(ss) \o (FlattenSeq(us) \o e)
    BY <2>3, ConcatAssociative, SMTT(30)
  <2> QED
    BY <2>1, <2>2, <2>3, <2>4, <2>5, AppendProperties
<1>3. Seq(Seq(S)) \subseteq N
  <2> HIDE DEF N
  <2> QED
    BY <1>1, <1>2, SequencesByAppend
<1> QED
  BY <1>3


-----------------------------------------------------------------------------
(* Reading                                                                 *)

\* What all the elements contribute, in order.
Parts(key, ss) == FlattenSeq([k \in DOMAIN ss |-> Part(key, ss[k])])

\* What the elements of S contribute are sequences over T.
Reads(key, S, T) == \A e \in S : Part(key, e) \in Seq(T)

PartList(key, ss) == [k \in DOMAIN ss |-> Part(key, ss[k])]

\* The contributions are a sequence of sequences, one longer for every element.
LEMMA PartListAppend ==
    ASSUME NEW S, NEW T, NEW key, Reads(key, S, T),
           NEW ss \in Seq(S), NEW e \in S
    PROVE  /\ PartList(key, ss) \in Seq(Seq(T)) /\ Part(key, e) \in Seq(T)
           /\ PartList(key, Append(ss, e)) = Append(PartList(key, ss), Part(key, e))
<1> DEFINE t == Append(ss, e)
           n == Len(ss)
           P(u) == [k \in 1 .. Len(u) |-> Part(key, u[k])]
<1>1. /\ n \in Nat /\ DOMAIN ss = 1 .. n /\ \A k \in 1 .. n : ss[k] \in S
      /\ t \in Seq(S) /\ Len(t) = n + 1 /\ DOMAIN t = 1 .. n + 1
      /\ t[n + 1] = e /\ \A k \in 1 .. n : t[k] = ss[k]
  BY AppendProperties, LenProperties
<1> HIDE DEF t
<1>2. PartList(key, ss) = P(ss) /\ PartList(key, t) = P(t)
  BY <1>1 DEF PartList
<1>0. \A x \in S : Part(key, x) \in Seq(T)
  BY DEF Reads
<1>3. \A k \in 1 .. n : Part(key, ss[k]) \in Seq(T)
  BY <1>0, <1>1
<1>4. P(ss) \in Seq(Seq(T)) /\ Len(P(ss)) = n /\ \A k \in 1 .. n : P(ss)[k] = Part(key, ss[k])
  BY <1>1, <1>3
<1>5. \A k \in 1 .. n + 1 : Part(key, t[k]) \in Seq(T)
  BY <1>0, <1>1, <1>3
<1>6. /\ P(t) \in Seq(Seq(T)) /\ Len(P(t)) = n + 1
      /\ \A k \in 1 .. n + 1 : P(t)[k] = Part(key, t[k])
  BY <1>1, <1>5
<1> HIDE DEF P
<1>7. /\ Append(P(ss), Part(key, e)) \in Seq(Seq(T)) /\ Len(Append(P(ss), Part(key, e))) = n + 1
      /\ Append(P(ss), Part(key, e))[n + 1] = Part(key, e)
      /\ \A k \in 1 .. n : Append(P(ss), Part(key, e))[k] = P(ss)[k]
  <2>1. P(ss) \in Seq(Seq(T)) /\ Part(key, e) \in Seq(T)
    BY <1>0, <1>4
  <2> QED
    BY <1>4, <2>1, AppendProperties
<1>8. \A k \in 1 .. n + 1 : Append(P(ss), Part(key, e))[k] = P(t)[k]
  BY <1>1, <1>4, <1>6, <1>7
<1>9. P(t) = Append(P(ss), Part(key, e))
  BY <1>1, <1>6, <1>7, <1>8, SeqEqual
<1> QED
  BY <1>0, <1>2, <1>4, <1>9 DEF t

\* Nothing is read of nothing.
LEMMA PartsEmpty == \A key : Parts(key, <<>>) = <<>>
<1> DEFINE none == <<>>
<1>1. DOMAIN none = {}
  OBVIOUS
<1> HIDE DEF none
<1>2. \A key : [k \in DOMAIN none |-> Part(key, none[k])] = <<>>
  BY <1>1
<1> QED
  BY <1>2, FlattenEmpty DEF Parts, none

\* One element more is read at the end.
LEMMA PartsAppend ==
    ASSUME NEW S, NEW T, NEW key, Reads(key, S, T),
           NEW ss \in Seq(S), NEW e \in S
    PROVE  /\ Parts(key, ss) \in Seq(T) /\ Part(key, e) \in Seq(T)
           /\ Parts(key, Append(ss, e)) = Parts(key, ss) \o Part(key, e)
<1>1. \A uu : Parts(key, uu) = FlattenSeq(PartList(key, uu))
  BY DEF Parts, PartList
<1>2. /\ PartList(key, ss) \in Seq(Seq(T)) /\ Part(key, e) \in Seq(T)
      /\ PartList(key, Append(ss, e)) = Append(PartList(key, ss), Part(key, e))
  BY PartListAppend
<1> DEFINE u == PartList(key, ss)
           p == Part(key, e)
<1> HIDE DEF u, p
<1>3. u \in Seq(Seq(T)) /\ p \in Seq(T)
  BY <1>2 DEF u, p
<1>4. FlattenSeq(u) \in Seq(T) /\ FlattenSeq(Append(u, p)) = FlattenSeq(u) \o p
  BY <1>3, FlattenAppend
<1> QED
  BY <1>1, <1>2, <1>3, <1>4 DEF u, p

\* Every sequence of elements can be read.
LEMMA PartsAreSeqs ==
    ASSUME NEW S, NEW T, NEW key, Reads(key, S, T), NEW ss \in Seq(S)
    PROVE  Parts(key, ss) \in Seq(T)
<1>1. CASE ss = <<>>
  <2>1. <<>> \in Seq(T)
    OBVIOUS
  <2> QED
    BY <1>1, <2>1, PartsEmpty
<1>2. CASE ss # <<>>
  <2>1. PICK tt \in Seq(S), e \in S : ss = Append(tt, e)
    BY <1>2, SequenceEmptyOrAppend
  <2>2. S # {}
    BY <2>1
  <2> QED
    BY PartsAppend, <2>1
<1> QED
  BY <1>1, <1>2

\* Two sequences in a row are read one after the other.
LEMMA PartsConcat ==
    ASSUME NEW S, NEW T, NEW key, Reads(key, S, T),
           NEW ss \in Seq(S), NEW tt \in Seq(S)
    PROVE  Parts(key, ss \o tt) = Parts(key, ss) \o Parts(key, tt)
<1> DEFINE N == {us \in Seq(S) : Parts(key, ss \o us) = Parts(key, ss) \o Parts(key, us)}
<1>0. ASSUME NEW vs \in Seq(S), NEW e \in S
      PROVE  Parts(key, Append(vs, e)) = Parts(key, vs) \o Part(key, e)
  BY PartsAppend
<1>1. <<>> \in N
  BY PartsEmpty, PartsAreSeqs, ConcatEmptySeq, EmptySeq
<1>2. ASSUME NEW us \in Seq(S), NEW e \in S, us \in N
      PROVE  Append(us, e) \in N
  <2>1. ss \o Append(us, e) = Append(ss \o us, e) /\ ss \o us \in Seq(S)
    OBVIOUS
  <2> DEFINE s == Parts(key, ss)
             u == Parts(key, us)
             p == Part(key, e)
             su == ss \o us
  <2>2. s \in Seq(T) /\ u \in Seq(T) /\ p \in Seq(T)
    BY PartsAreSeqs DEF Reads
  <2>3. Parts(key, Append(us, e)) = u \o p
    BY PartsAppend
  <2>4. Parts(key, su) = s \o u /\ su \in Seq(S)
    BY <1>2, <2>1
  <2> HIDE DEF N, su, s, u, p
  <2>5. Parts(key, Append(su, e)) = Parts(key, su) \o p
    BY <1>0, <2>4, Zenon DEF p
  <2>6. (s \o u) \o p = s \o (u \o p)
    BY <2>2, ConcatAssociative
  <2>7. Parts(key, ss \o Append(us, e)) = s \o Parts(key, Append(us, e))
    BY <2>1, <2>3, <2>4, <2>5, <2>6 DEF su
  <2> QED
    BY <2>7, AppendProperties DEF N, s
<1>3. Seq(S) \subseteq N
  <2> HIDE DEF N
  <2> QED
    BY <1>1, <1>2, SequencesByAppend
<1> QED
  BY <1>3

-----------------------------------------------------------------------------
(* Folding                                                                 *)

\* The last of a set of positions.
LEMMA MaxOfPositions ==
    ASSUME NEW n \in Nat, NEW P \in SUBSET (1 .. n), P # {}
    PROVE  Max(P) \in P /\ \A y \in P : Max(P) >= y
<1> DEFINE N == {k \in Nat : \A Q \in SUBSET (1 .. k) :
                    Q # {} => \E x \in Q : \A y \in Q : x >= y}
<1>1. 0 \in N
  <2>1. 1 .. 0 = {}
    OBVIOUS
  <2> QED
    BY <2>1
<1>2. ASSUME NEW k \in Nat, k \in N
      PROVE  k + 1 \in N
  <2> SUFFICES ASSUME NEW Q \in SUBSET (1 .. k + 1), Q # {}
               PROVE  \E x \in Q : \A y \in Q : x >= y
    OBVIOUS
  <2>1. CASE k + 1 \in Q
    BY <2>1
  <2>2. CASE k + 1 \notin Q
    <3>1. Q \in SUBSET (1 .. k)
      BY <2>2
    <3> QED
      BY <1>2, <3>1
  <2> QED
    BY <2>1, <2>2
<1>3. Nat \subseteq N
  <2> HIDE DEF N
  <2> QED
    BY <1>1, <1>2, NaturalsByStep
<1>4. \E x \in P : \A y \in P : x >= y
  BY <1>3
<1> QED
  BY <1>4, Zenon DEF Max

\* The function by which FoldLeft is defined, and its value.
Folds(F, b, ss) ==
    F = [P \in SUBSET DOMAIN ss |-> IF P = {} THEN b ELSE Op(F[P \ {Max(P)}], ss[Max(P)])]

Fold(b, ss) == FoldLeft(Op, b, ss)

\* It folds by the function the library chooses.
LEMMA FoldChooses ==
    ASSUME NEW b, NEW ss
    PROVE  Fold(b, ss) = (CHOOSE F : Folds(F, b, ss))[DOMAIN ss]
BY Zenon DEF Fold, FoldLeft, MapThenFoldSet, Folds

\* Such a function for a sequence gives one for a longer sequence.
LEMMA FoldExtends ==
    ASSUME NEW S, NEW ss \in Seq(S), NEW e \in S, NEW b, NEW F, Folds(F, b, ss)
    PROVE  \E E : /\ Folds(E, b, Append(ss, e))
                  /\ E[DOMAIN Append(ss, e)] = Op(F[DOMAIN ss], e)
<1> DEFINE t == Append(ss, e)
           n == Len(ss)
           E == [P \in SUBSET DOMAIN t |-> IF n + 1 \in P THEN Op(F[P \ {n + 1}], e) ELSE F[P]]
<1>1. /\ n \in Nat /\ DOMAIN ss = 1 .. n /\ DOMAIN t = 1 .. n + 1 /\ t[n + 1] = e
      /\ \A i \in 1 .. n : t[i] = ss[i]
  BY AppendProperties, LenProperties
<1> HIDE DEF t, n
<1>2. ASSUME NEW P \in SUBSET DOMAIN t
      PROVE  E[P] = IF P = {} THEN b ELSE Op(E[P \ {Max(P)}], t[Max(P)])
  <2>1. CASE P = {}
    <3>1. E[P] = F[{}] /\ {} \in SUBSET DOMAIN ss
      BY <2>1
    <3>2. F[{}] = b
      BY <3>1, Zenon DEF Folds
    <3> QED
      BY <2>1, <3>1, <3>2
  <2>2. CASE P # {} /\ n + 1 \in P
    <3>0. n + 1 \in Nat /\ P \in SUBSET (1 .. n + 1)
      BY <1>1
    <3>1. Max(P) \in P /\ \A y \in P : Max(P) >= y
      BY <2>2, <3>0, MaxOfPositions
    <3>2. Max(P) = n + 1
      BY <1>1, <2>2, <3>0, <3>1
    <3>3. P \ {n + 1} \in SUBSET DOMAIN t /\ n + 1 \notin P \ {n + 1}
      BY <1>1
    <3> QED
      BY <1>1, <2>2, <3>2, <3>3, Zenon
  <2>3. CASE P # {} /\ n + 1 \notin P
    <3>1. P \in SUBSET (1 .. n) /\ P \in SUBSET DOMAIN ss
      BY <1>1, <2>3
    <3>2. Max(P) \in P
      BY <1>1, <2>3, <3>1, MaxOfPositions
    <3>3. /\ P \ {Max(P)} \in SUBSET DOMAIN t /\ n + 1 \notin P \ {Max(P)}
          /\ t[Max(P)] = ss[Max(P)]
      BY <1>1, <2>3, <3>1, <3>2
    <3>4. F[P] = IF P = {} THEN b ELSE Op(F[P \ {Max(P)}], ss[Max(P)])
      BY <3>1, Zenon DEF Folds
    <3> QED
      BY <2>3, <3>3, <3>4, Zenon
  <2> QED
    BY <2>1, <2>2, <2>3
<1>3. Folds(E, b, t)
  BY <1>2, Zenon DEF Folds
<1>4. E[DOMAIN t] = Op(F[DOMAIN ss], e)
  <2>1. n + 1 \in DOMAIN t /\ DOMAIN t \ {n + 1} = DOMAIN ss
    BY <1>1
  <2> QED
    BY <2>1, Zenon
<1> QED
  BY <1>3, <1>4 DEF t


\* So there is one for every sequence.
LEMMA FoldExists ==
    ASSUME NEW S, NEW ss \in Seq(S), NEW b
    PROVE  Folds(CHOOSE F : Folds(F, b, ss), b, ss)
<1> DEFINE N == {tt \in Seq(S) : \E F : Folds(F, b, tt)}
<1>1. <<>> \in N
  <2> DEFINE none == <<>>
             E    == [P \in SUBSET DOMAIN none |-> b]
  <2>1. DOMAIN none = {}
    OBVIOUS
  <2> HIDE DEF none
  <2>2. \A P \in SUBSET DOMAIN none : P = {}
    BY <2>1
  <2>3. Folds(E, b, none)
    BY <2>2, Zenon DEF Folds
  <2>4. none \in Seq(S)
    BY DEF none
  <2>5. \E F : Folds(F, b, none)
    BY <2>3
  <2> QED
    BY <2>4, <2>5 DEF none
<1>2. ASSUME NEW tt \in Seq(S), NEW e \in S, tt \in N
      PROVE  Append(tt, e) \in N
  <2>1. PICK F : Folds(F, b, tt)
    BY <1>2
  <2>2. \E E : Folds(E, b, Append(tt, e))
    BY <2>1, FoldExtends
  <2> QED
    BY <2>2, AppendProperties
<1>3. Seq(S) \subseteq N
  <2> HIDE DEF N
  <2> QED
    BY <1>1, <1>2, SequencesByAppend
<1>4. \E F : Folds(F, b, ss)
  BY <1>3
<1> QED
  BY <1>4, Zenon

\* Its values on a sequence's beginnings depend on nothing else.
LEMMA FoldUnique ==
    ASSUME NEW S, NEW ss \in Seq(S), NEW tt \in Seq(S), NEW b,
           Len(ss) <= Len(tt), \A i \in 1 .. Len(ss) : ss[i] = tt[i],
           NEW F, Folds(F, b, ss), NEW E, Folds(E, b, tt)
    PROVE  F[DOMAIN ss] = E[DOMAIN ss]
<1> DEFINE N == {k \in Nat : k <= Len(ss) => F[1 .. k] = E[1 .. k]}
<1>1. /\ Len(ss) \in Nat /\ Len(tt) \in Nat
      /\ DOMAIN ss = 1 .. Len(ss) /\ DOMAIN tt = 1 .. Len(tt)
  BY LenProperties
<1>2. 0 \in N
  <2>1. 1 .. 0 = {} /\ {} \in SUBSET DOMAIN ss /\ {} \in SUBSET DOMAIN tt
    OBVIOUS
  <2>2. F[{}] = b /\ E[{}] = b
    BY <2>1, Zenon DEF Folds
  <2> QED
    BY <2>1, <2>2
<1>3. ASSUME NEW k \in Nat, k \in N
      PROVE  k + 1 \in N
  <2> SUFFICES ASSUME k + 1 <= Len(ss)
               PROVE  F[1 .. k + 1] = E[1 .. k + 1]
    OBVIOUS
  <2> DEFINE P == 1 .. k + 1
  <2>0. k + 1 \in P /\ k + 1 \in Nat /\ P \ {k + 1} = 1 .. k
    BY <1>1
  <2>1. P \in SUBSET DOMAIN ss /\ P \in SUBSET DOMAIN tt /\ P # {}
    <3>1. P \subseteq 1 .. Len(ss) /\ P \subseteq 1 .. Len(tt)
      BY <1>1
    <3> QED
      BY <1>1, <2>0, <3>1
  <2>2. Max(P) = k + 1
    <3>1. Max(P) \in P /\ \A y \in P : Max(P) >= y
      BY <2>0, <2>1, MaxOfPositions
    <3> QED
      BY <2>0, <3>1
  <2> HIDE DEF P
  <2>3. F[P] = Op(F[P \ {Max(P)}], ss[Max(P)]) /\ E[P] = Op(E[P \ {Max(P)}], tt[Max(P)])
    BY <2>1, Zenon DEF Folds
  <2>4. F[1 .. k] = E[1 .. k] /\ ss[k + 1] = tt[k + 1]
    BY <1>1, <1>3
  <2>5. F[P] = E[P]
    BY <2>0, <2>2, <2>3, <2>4, Zenon
  <2> QED
    BY <2>5 DEF P
<1>4. Nat \subseteq N
  <2> HIDE DEF N
  <2> QED
    BY <1>2, <1>3, NaturalsByStep
<1> QED
  BY <1>1, <1>4

\* One element more is one more application of the operator.
LEMMA FoldAppend ==
    ASSUME NEW S, NEW ss \in Seq(S), NEW e \in S, NEW b
    PROVE  Fold(b, Append(ss, e)) = Op(Fold(b, ss), e)
<1> DEFINE t == Append(ss, e)
           F == CHOOSE G : Folds(G, b, ss)
           H == CHOOSE G : Folds(G, b, t)
<1>1. /\ Len(ss) <= Len(t) /\ \A i \in 1 .. Len(ss) : ss[i] = t[i]
      /\ t \in Seq(S)
  BY AppendProperties, LenProperties
<1>2. Folds(F, b, ss) /\ Fold(b, ss) = F[DOMAIN ss]
  BY FoldExists, FoldChooses
<1> HIDE DEF t
<1>3. Folds(H, b, t) /\ Fold(b, t) = H[DOMAIN t]
  BY <1>1, FoldExists, FoldChooses
<1> HIDE DEF F, H
<1>4. PICK E : Folds(E, b, t) /\ E[DOMAIN t] = Op(F[DOMAIN ss], e)
  BY <1>2, FoldExtends DEF t
<1>5. E[DOMAIN t] = H[DOMAIN t]
  BY <1>1, <1>3, <1>4, FoldUnique
<1>6. Fold(b, t) = Op(F[DOMAIN ss], e)
  BY <1>3, <1>4, <1>5
<1> QED
  BY <1>2, <1>6, Zenon DEF t

\* Folding nothing leaves the state it starts from.
LEMMA FoldEmpty == \A b : Fold(b, <<>>) = b
<1> SUFFICES ASSUME NEW b PROVE Fold(b, <<>>) = b
  OBVIOUS
<1> DEFINE none == <<>>
           F == CHOOSE G : Folds(G, b, none)
<1>1. none \in Seq({}) /\ DOMAIN none = {}
  OBVIOUS
<1> HIDE DEF none
<1>2. Folds(F, b, none) /\ Fold(b, none) = F[DOMAIN none]
  BY <1>1, FoldExists, FoldChooses
<1> HIDE DEF F
<1>3. {} \in SUBSET DOMAIN none
  OBVIOUS
<1>4. F[{}] = b
  BY <1>2, <1>3, Zenon DEF Folds
<1> QED
  BY <1>1, <1>2, <1>4 DEF none

===============================================================================
