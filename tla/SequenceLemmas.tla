---------------------------- MODULE SequenceLemmas ----------------------------
(***************************************************************************)
(* Facts about sequences used as queues, sequences of sequences and the    *)
(* least of a set of numbers, for the proofs of the other modules.         *)
(***************************************************************************)
EXTENDS Integers, Sequences, SequencesExt, SequenceTheorems, NaturalsInduction, WellFoundedInduction, TLAPS

\* Appending to a concatenation appends to its second part.
LEMMA AppendConcat ==
    ASSUME NEW S, NEW s \in Seq(S), NEW t \in Seq(S), NEW f \in S
    PROVE  s \o Append(t, f) = Append(s \o t, f)
  <1>1. s \o Append(t, f) \in Seq(S) /\ Append(s \o t, f) \in Seq(S)
    BY ConcatProperties, AppendProperties
  <1>2. Len(s \o Append(t, f)) = Len(Append(s \o t, f))
    BY ConcatProperties, AppendProperties
  <1>3. ASSUME NEW i \in 1 .. Len(s \o Append(t, f))
        PROVE  (s \o Append(t, f))[i] = Append(s \o t, f)[i]
    <2>1. /\ Len(s) \in Nat /\ Len(t) \in Nat
          /\ Append(t, f) \in Seq(S) /\ Len(Append(t, f)) = Len(t) + 1
          /\ s \o t \in Seq(S) /\ Len(s \o t) = Len(s) + Len(t)
      BY ConcatProperties, AppendProperties, LenProperties
    <2>2. i \in 1 .. Len(s) + (Len(t) + 1)
      BY <2>1, ConcatProperties
    <2>3. (s \o Append(t, f))[i] = IF i <= Len(s) THEN s[i] ELSE Append(t, f)[i - Len(s)]
      <3>1. \A u \in Seq(S) : \A j \in 1 .. Len(s) + Len(u) :
               (s \o u)[j] = IF j <= Len(s) THEN s[j] ELSE u[j - Len(s)]
        BY ConcatProperties
      <3> QED
        BY <2>1, <2>2, <3>1
    <2>4. CASE i = Len(s) + Len(t) + 1
      <3>1. Append(t, f)[i - Len(s)] = f
        BY <2>1, <2>4, AppendProperties
      <3>2. Append(s \o t, f)[i] = f
        BY <2>1, <2>4, AppendProperties
      <3> QED
        BY <2>1, <2>3, <2>4, <3>1, <3>2
    <2>5. CASE i \in 1 .. Len(s) + Len(t)
      <3>1. Append(s \o t, f)[i] = (s \o t)[i]
        BY <2>1, <2>5, AppendProperties
      <3>2. (s \o t)[i] = IF i <= Len(s) THEN s[i] ELSE t[i - Len(s)]
        BY <2>1, <2>5, ConcatProperties
      <3>3. i > Len(s) => Append(t, f)[i - Len(s)] = t[i - Len(s)]
        BY <2>1, <2>5, AppendProperties
      <3> QED
        BY <2>1, <2>3, <2>5, <3>1, <3>2, <3>3
    <2> QED
      BY <2>1, <2>2, <2>4, <2>5
  <1> QED
    BY <1>1, <1>2, <1>3, SeqEqual

\* Concatenation is associative, under a name that is easily instantiated.
Associates(s, t, u) == (s \o t) \o u = s \o (t \o u)

LEMMA ConcatAssociates ==
    ASSUME NEW S, NEW s \in Seq(S), NEW t \in Seq(S), NEW u \in Seq(S)
    PROVE  Associates(s, t, u)
  BY ConcatAssociative DEF Associates

\* The tail of a concatenation is taken from its first part, if that has one.
LEMMA TailConcat ==
    ASSUME NEW S, NEW s \in Seq(S), s # <<>>, NEW t \in Seq(S)
    PROVE  s \o t # <<>> /\ Tail(s) \o t = Tail(s \o t)
  <1>1. Len(s) \in Nat \ {0} /\ Len(s \o t) = Len(s) + Len(t) /\ Len(t) \in Nat
    BY EmptySeq, ConcatProperties, LenProperties
  <1>2. s \o t # <<>> /\ s \o t \in Seq(S)
    BY <1>1, EmptySeq, ConcatProperties
  <1>3. Tail(s) \o t \in Seq(S) /\ Tail(s \o t) \in Seq(S)
    BY <1>2, ConcatProperties, HeadTailProperties
  <1>4. Len(Tail(s) \o t) = Len(Tail(s \o t))
    BY <1>1, <1>2, ConcatProperties, HeadTailProperties
  <1>5. ASSUME NEW i \in 1 .. Len(Tail(s) \o t)
        PROVE  (Tail(s) \o t)[i] = Tail(s \o t)[i]
    <2>1. Tail(s) \in Seq(S) /\ Len(Tail(s)) = Len(s) - 1
      BY HeadTailProperties
    <2>2. i \in 1 .. Len(s) + Len(t) - 1
      BY <1>1, <2>1, ConcatProperties
    <2>3. (Tail(s) \o t)[i] = IF i <= Len(s) - 1 THEN Tail(s)[i] ELSE t[i - (Len(s) - 1)]
      BY <1>1, <2>1, <2>2, ConcatProperties
    <2>4. Tail(s \o t)[i] = (s \o t)[i + 1]
      BY <1>1, <1>2, <2>2, HeadTailProperties
    <2>5. (s \o t)[i + 1] = IF i + 1 <= Len(s) THEN s[i + 1] ELSE t[i + 1 - Len(s)]
      BY <1>1, <2>2, ConcatProperties
    <2>6. i <= Len(s) - 1 => Tail(s)[i] = s[i + 1]
      BY <1>1, <2>1, <2>2, HeadTailProperties
    <2> QED
      BY <1>1, <2>2, <2>3, <2>4, <2>5, <2>6
  <1> QED
    BY <1>2, <1>3, <1>4, <1>5, SeqEqual

\* Moving the head of one queue to the end of another keeps the concatenation.
LEMMA MoveHead ==
    ASSUME NEW S, NEW s \in Seq(S), NEW t \in Seq(S), t # <<>>
    PROVE  Append(s, Head(t)) \o Tail(t) = s \o t
  <1>1. Head(t) \in S /\ Tail(t) \in Seq(S) /\ <<Head(t)>> \in Seq(S)
    BY HeadTailProperties
  <1>2. Append(s, Head(t)) \o Tail(t) = (s \o <<Head(t)>>) \o Tail(t)
    BY <1>1, AppendIsConcat
  <1>3. (s \o <<Head(t)>>) \o Tail(t) = s \o (<<Head(t)>> \o Tail(t))
    BY <1>1, ConcatAssociative
  <1>4. t = <<Head(t)>> \o Tail(t)
    <2>1. Len(t) \in Nat \ {0} /\ SubSeq(t, 1, Len(t)) = t
      BY EmptySeq, SubSeqFull
    <2>2. t = <<t[1]>> \o SubSeq(t, 2, Len(t))
      BY <2>1, SubSeqRecursiveFirst
    <2> QED
      BY <2>1, <2>2, TailIsSubSeq
  <1> QED
    BY <1>2, <1>3, <1>4

------------------------------------------------------------------------------
(* The elements of a sequence, and sequences without repetition.           *)

Elements(s) == {s[i] : i \in 1 .. Len(s)}

Distinct(s) == \A i, j \in 1 .. Len(s) : s[i] = s[j] => i = j

LEMMA EmptyElements ==
    Elements(<<>>) = {} /\ Distinct(<<>>)
  BY DEF Elements, Distinct

LEMMA ElementsType ==
    ASSUME NEW S, NEW s \in Seq(S)
    PROVE  Elements(s) \subseteq S
  BY DEF Elements

LEMMA AppendElements ==
    ASSUME NEW S, NEW s \in Seq(S), NEW e \in S
    PROVE  /\ Elements(Append(s, e)) = Elements(s) \cup {e}
           /\ Distinct(s) /\ e \notin Elements(s) => Distinct(Append(s, e))
  <1> DEFINE t == Append(s, e)
  <1>1. /\ Len(s) \in Nat /\ Len(t) = Len(s) + 1 /\ t[Len(s) + 1] = e
        /\ \A i \in 1 .. Len(s) : t[i] = s[i]
    BY AppendProperties, LenProperties
  <1> HIDE DEF t
  <1>2. \A i \in 1 .. Len(t) : i \in 1 .. Len(s) \/ i = Len(s) + 1
    BY <1>1
  <1>3. (\A i \in 1 .. Len(s) : i \in 1 .. Len(t)) /\ Len(s) + 1 \in 1 .. Len(t)
    BY <1>1
  <1>4. Elements(t) = Elements(s) \cup {e}
    BY <1>1, <1>2, <1>3 DEF Elements
  <1>5. Distinct(s) /\ e \notin Elements(s) => Distinct(t)
    BY <1>1, <1>2 DEF Distinct, Elements
  <1> QED
    BY <1>4, <1>5 DEF t

LEMMA TailElements ==
    ASSUME NEW S, NEW s \in Seq(S), s # <<>>
    PROVE  /\ Elements(s) = {Head(s)} \cup Elements(Tail(s))
           /\ Distinct(s) => Distinct(Tail(s)) /\ Head(s) \notin Elements(Tail(s))
  <1> DEFINE t == Tail(s)
  <1>1. /\ Len(s) \in Nat \ {0} /\ Len(t) = Len(s) - 1 /\ Head(s) = s[1]
        /\ \A i \in 1 .. Len(t) : t[i] = s[i + 1]
    BY HeadTailProperties, EmptySeq, LenProperties
  <1> HIDE DEF t
  <1>2. \A i \in 1 .. Len(s) : i = 1 \/ (i - 1 \in 1 .. Len(t) /\ s[i] = t[i - 1])
    <2> SUFFICES ASSUME NEW i \in 1 .. Len(s), i # 1
                 PROVE  i - 1 \in 1 .. Len(t) /\ s[i] = t[i - 1]
      OBVIOUS
    <2>1. i - 1 \in 1 .. Len(t) /\ (i - 1) + 1 = i
      BY <1>1
    <2> QED
      BY <1>1, <2>1
  <1>3. 1 \in 1 .. Len(s) /\ \A i \in 1 .. Len(t) : i + 1 \in 1 .. Len(s) /\ i + 1 # 1
    BY <1>1
  <1>4. Elements(s) = {Head(s)} \cup Elements(t)
    BY <1>1, <1>2, <1>3 DEF Elements
  <1>5. Distinct(s) => Distinct(t)
    BY <1>1, <1>3 DEF Distinct
  <1>6. Distinct(s) => Head(s) \notin Elements(t)
    BY <1>1, <1>3 DEF Distinct, Elements
  <1> QED
    BY <1>4, <1>5, <1>6 DEF t

LEMMA ConcatElements ==
    ASSUME NEW S, NEW s \in Seq(S), NEW t \in Seq(S)
    PROVE  /\ Elements(s \o t) = Elements(s) \cup Elements(t)
           /\ Distinct(s) /\ Distinct(t) /\ Elements(s) \cap Elements(t) = {}
                 => Distinct(s \o t)
           /\ Distinct(s \o t) => Elements(s) \cap Elements(t) = {}
  <1> DEFINE c == s \o t
  <1>1. /\ Len(s) \in Nat /\ Len(t) \in Nat /\ Len(c) = Len(s) + Len(t)
        /\ \A i \in 1 .. Len(s) + Len(t) : c[i] = IF i <= Len(s) THEN s[i] ELSE t[i - Len(s)]
    BY ConcatProperties, LenProperties
  <1> HIDE DEF c
  <1>2. \A i \in 1 .. Len(c) : \/ i \in 1 .. Len(s) /\ c[i] = s[i]
                               \/ i - Len(s) \in 1 .. Len(t) /\ c[i] = t[i - Len(s)]
    BY <1>1
  <1>3. \A i \in 1 .. Len(s) : i \in 1 .. Len(c) /\ c[i] = s[i]
    BY <1>1
  <1>4. \A i \in 1 .. Len(t) : /\ i + Len(s) \in 1 .. Len(c) /\ i + Len(s) \notin 1 .. Len(s)
                               /\ c[i + Len(s)] = t[i]
    <2> TAKE i \in 1 .. Len(t)
    <2>1. i + Len(s) \in 1 .. Len(s) + Len(t) /\ ~(i + Len(s) <= Len(s)) /\ (i + Len(s)) - Len(s) = i
      BY <1>1
    <2> QED
      BY <1>1, <2>1
  <1>5. Elements(c) = Elements(s) \cup Elements(t)
    <2>1. Elements(c) \subseteq Elements(s) \cup Elements(t)
      BY <1>2, Zenon DEF Elements
    <2>2. Elements(s) \subseteq Elements(c)
      BY <1>3, Zenon DEF Elements
    <2>3. Elements(t) \subseteq Elements(c)
      BY <1>4, Zenon DEF Elements
    <2> QED
      BY <2>1, <2>2, <2>3, Zenon
  <1>6. Distinct(s) /\ Distinct(t) /\ Elements(s) \cap Elements(t) = {} => Distinct(c)
    <2> SUFFICES ASSUME Distinct(s), Distinct(t), Elements(s) \cap Elements(t) = {},
                        NEW i \in 1 .. Len(c), NEW j \in 1 .. Len(c), c[i] = c[j]
                 PROVE  i = j
      BY DEF Distinct
    <2>1. CASE i \in 1 .. Len(s) /\ j \in 1 .. Len(s)
      BY <1>3, <2>1 DEF Distinct
    <2>2. CASE i - Len(s) \in 1 .. Len(t) /\ j - Len(s) \in 1 .. Len(t)
      <3>1. i \in Int /\ j \in Int /\ i \notin 1 .. Len(s) /\ j \notin 1 .. Len(s)
        BY <1>1, <2>2
      <3>2. t[i - Len(s)] = t[j - Len(s)]
        BY <1>2, <3>1
      <3>3. i - Len(s) = j - Len(s)
        BY <2>2, <3>2 DEF Distinct
      <3> QED
        BY <1>1, <3>1, <3>3
    <2> QED
      BY <1>2, <2>1, <2>2 DEF Elements
  <1>7. Distinct(c) => Elements(s) \cap Elements(t) = {}
    <2> SUFFICES ASSUME Distinct(c), NEW i \in 1 .. Len(s), NEW j \in 1 .. Len(t), s[i] = t[j]
                 PROVE  FALSE
      BY DEF Elements
    <2> QED
      BY <1>3, <1>4 DEF Distinct
  <1> QED
    BY <1>5, <1>6, <1>7 DEF c

------------------------------------------------------------------------------
(* The natural numbers are well ordered.  A property of all of them is      *)
(* proved by induction as the absence of a least counterexample.            *)

LEMMA LeastNatural ==
    ASSUME NEW T \in SUBSET Nat, T # {}
    PROVE  \E m \in T : \A n \in T : m <= n
  <1> DEFINE R == {p \in Nat \X Nat : p[1] < p[2]}
  <1>1. IsWellFoundedOn(R, Nat)
    BY NatLessThanWellFounded DEF OpToRel
  <1>2. PICK m \in T : \A n \in T : <<n, m>> \notin R
    <2> HIDE DEF R
    <2> QED
      BY <1>1, WFMin
  <1>3. ASSUME NEW n \in T, ~(m <= n) PROVE FALSE
    <2>1. <<n, m>> \in Nat \X Nat /\ n < m
      BY <1>3
    <2>2. <<n, m>>[1] = n /\ <<n, m>>[2] = m
      OBVIOUS
    <2>3. <<n, m>> \in R
      BY <2>1, <2>2
    <2> QED
      BY <1>2, <2>3
  <1> QED
    BY <1>3
------------------------------------------------------------------------------
(* A sequence of sequences in one.  FlattenSeq is a recursive function; f    *)
(* gives its values for the first n of them.                                *)

Flattens(s, n, f) ==
    f = [i \in 1 .. n |-> IF i = 1 THEN s[i] ELSE f[i - 1] \o s[i]]

LEMMA FlattensExists ==
    ASSUME NEW s
    PROVE  \A n \in Nat : \E f : Flattens(s, n, f)
  <1> DEFINE T == {n \in Nat : ~\E f : Flattens(s, n, f)}
  <1> SUFFICES ASSUME T # {} PROVE FALSE
    OBVIOUS
  <1>1. PICK m \in T : \A n \in T : m <= n
    <2>1. T \in SUBSET Nat
      OBVIOUS
    <2> HIDE DEF T
    <2> QED
      BY <2>1, LeastNatural
  <1>2. m \in Nat /\ ~\E f : Flattens(s, m, f)
    OBVIOUS
  <1>3. m # 0
    <2> DEFINE f == [i \in 1 .. 0 |-> s[i]]
    <2>1. Flattens(s, 0, f)
      BY DEF Flattens
    <2> QED
      BY <1>2, <2>1
  <1>4. PICK f : Flattens(s, m - 1, f)
    <2>1. m - 1 \in Nat /\ ~(m <= m - 1)
      BY <1>2, <1>3
    <2>2. m - 1 \notin T
      <3> HIDE DEF T
      <3> QED
        BY <1>1, <2>1
    <2> QED
      BY <2>1, <2>2
  <1> DEFINE g == [i \in 1 .. m |-> IF i = 1 THEN s[i] ELSE f[i - 1] \o s[i]]
  <1>5. \A i \in 1 .. m : i # 1 => i - 1 \in 1 .. m /\ i - 1 \in 1 .. m - 1
    BY <1>2, <1>3
  <1>6. \A i \in 1 .. m - 1 : g[i] = f[i] /\ i \in 1 .. m
    <2>1. \A i \in 1 .. m - 1 : i \in 1 .. m
      BY <1>2, <1>3
    <2> QED
      BY <1>4, <2>1 DEF Flattens
  <1>7. \A i \in 1 .. m : g[i] = IF i = 1 THEN s[i] ELSE g[i - 1] \o s[i]
    BY <1>5, <1>6
  <1>8. g = [i \in 1 .. m |-> g[i]]
    OBVIOUS
  <1> HIDE DEF g
  <1>9. Flattens(s, m, g)
    BY <1>7, <1>8 DEF Flattens
  <1> QED
    BY <1>2, <1>9

SameUpTo(s, t, n) == \A i \in 1 .. n : s[i] = t[i]

\* The values for the first n are the same whatever comes after them.
LEMMA FlattensAgree ==
    ASSUME NEW s, NEW t, NEW n \in Nat, NEW k \in Nat, n <= k,
           SameUpTo(s, t, n),
           NEW f, Flattens(s, n, f), NEW g, Flattens(t, k, g)
    PROVE  SameUpTo(f, g, n)
  <1> DEFINE T == {i \in 1 .. n : f[i] # g[i]}
  <1> SUFFICES ASSUME T # {} PROVE FALSE
    BY DEF SameUpTo
  <1>1. PICK m \in T : \A i \in T : m <= i
    <2>1. T \in SUBSET Nat
      OBVIOUS
    <2> HIDE DEF T
    <2> QED
      BY <2>1, LeastNatural
  <1>2. m \in 1 .. n /\ m \in 1 .. k /\ f[m] # g[m]
    OBVIOUS
  <1>3. m = 1 => f[m] = s[m] /\ g[m] = t[m]
    BY <1>2 DEF Flattens
  <1>4. m # 1 => f[m] = f[m - 1] \o s[m] /\ g[m] = g[m - 1] \o t[m]
    BY <1>2 DEF Flattens
  <1>5. m # 1 => m - 1 \in 1 .. n /\ m - 1 \notin T
    <2>1. m # 1 => m - 1 \in 1 .. n /\ ~(m <= m - 1)
      BY <1>2
    <2> HIDE DEF T
    <2> QED
      BY <1>1, <2>1
  <1>6. m # 1 => f[m - 1] = g[m - 1]
    BY <1>5
  <1>7. s[m] = t[m]
    BY <1>2 DEF SameUpTo
  <1>8. f[m] = g[m]
    <2>1. CASE m = 1
      BY <1>3, <1>7, <2>1
    <2>2. CASE m # 1
      BY <1>4, <1>6, <1>7, <2>2
    <2> QED
      BY <2>1, <2>2
  <1> QED
    BY <1>2, <1>8

LEMMA FlattensType ==
    ASSUME NEW S, NEW s \in Seq(Seq(S)), NEW f, Flattens(s, Len(s), f)
    PROVE  \A i \in 1 .. Len(s) : f[i] \in Seq(S)
  <1> DEFINE T == {i \in 1 .. Len(s) : f[i] \notin Seq(S)}
  <1> SUFFICES ASSUME T # {} PROVE FALSE
    OBVIOUS
  <1>0. Len(s) \in Nat
    BY LenProperties
  <1>1. PICK m \in T : \A i \in T : m <= i
    <2>1. T \in SUBSET Nat
      BY <1>0
    <2> HIDE DEF T
    <2> QED
      BY <2>1, LeastNatural
  <1>2. m \in 1 .. Len(s) /\ f[m] \notin Seq(S) /\ s[m] \in Seq(S)
    BY ElementOfSeq
  <1>3. f[m] = IF m = 1 THEN s[m] ELSE f[m - 1] \o s[m]
    BY <1>2 DEF Flattens
  <1>4. m # 1 => m - 1 \in 1 .. Len(s) /\ m - 1 \notin T
    <2>1. m # 1 => m - 1 \in 1 .. Len(s) /\ ~(m <= m - 1)
      BY <1>0, <1>2
    <2> HIDE DEF T
    <2> QED
      BY <1>1, <2>1
  <1>5. m # 1 => f[m - 1] \in Seq(S)
    BY <1>4
  <1> QED
    BY <1>2, <1>3, <1>5, ConcatProperties

LEMMA FlattenEmpty == FlattenSeq(<<>>) = <<>>
  BY EmptySeq DEF FlattenSeq

LEMMA FlattenIs ==
    ASSUME NEW S, NEW s \in Seq(S), s # <<>>
    PROVE  \E f : Flattens(s, Len(s), f) /\ FlattenSeq(s) = f[Len(s)]
  <1> DEFINE F == CHOOSE f : f = [i \in 1 .. Len(s) |-> IF i = 1 THEN s[i] ELSE f[i - 1] \o s[i]]
  <1>1. Len(s) # 0 /\ Len(s) \in Nat
    BY EmptySeq, LenProperties
  <1>2. Flattens(s, Len(s), F)
    BY <1>1, FlattensExists DEF Flattens
  <1>3. FlattenSeq(s) = F[Len(s)]
    BY <1>1 DEF FlattenSeq
  <1> QED
    BY <1>2, <1>3

LEMMA FlattenType ==
    ASSUME NEW S, NEW s \in Seq(Seq(S))
    PROVE  FlattenSeq(s) \in Seq(S)
  <1>1. CASE s = <<>>
    BY <1>1, FlattenEmpty, EmptySeq
  <1>2. CASE s # <<>>
    <2>1. PICK f : Flattens(s, Len(s), f) /\ FlattenSeq(s) = f[Len(s)]
      BY <1>2, FlattenIs
    <2>2. Len(s) \in 1 .. Len(s)
      BY <1>2, EmptySeq, LenProperties
    <2> QED
      BY <2>1, <2>2, FlattensType
  <1> QED
    BY <1>1, <1>2

\* One more sequence.
LEMMA FlattenAppend ==
    ASSUME NEW S, NEW s \in Seq(Seq(S)), NEW x \in Seq(S)
    PROVE  FlattenSeq(Append(s, x)) = FlattenSeq(s) \o x
  <1> DEFINE t == Append(s, x)
             n == Len(s)
             k == Len(t)
  <1>1. n \in Nat /\ k \in Nat /\ k = n + 1 /\ t \in Seq(Seq(S)) /\ t # <<>>
    BY AppendProperties, LenProperties, EmptySeq
  <1>2. t[k] = x /\ SameUpTo(s, t, n)
    BY AppendProperties DEF SameUpTo
  <1> HIDE DEF t, n, k
  <1>3. PICK g : Flattens(t, k, g) /\ FlattenSeq(t) = g[k]
    BY <1>1, FlattenIs DEF k
  <1>4. g[k] = IF k = 1 THEN x ELSE g[k - 1] \o x
    <2>1. k \in 1 .. k
      BY <1>1
    <2>2. g[k] = IF k = 1 THEN t[k] ELSE g[k - 1] \o t[k]
      BY <1>3, <2>1, Zenon DEF Flattens
    <2> QED
      BY <1>2, <2>2
  <1>5. CASE s = <<>>
    <2>1. k = 1
      BY <1>1, <1>5, EmptySeq DEF n
    <2> QED
      BY <1>3, <1>4, <1>5, <2>1, FlattenEmpty, ConcatEmptySeq DEF t
  <1>6. CASE s # <<>>
    <2>1. PICK f : Flattens(s, n, f) /\ FlattenSeq(s) = f[n]
      BY <1>6, FlattenIs DEF n
    <2>2. k # 1 /\ k - 1 = n /\ n \in 1 .. n /\ n <= k
      BY <1>1, <1>6, EmptySeq DEF n
    <2>4. SameUpTo(f, g, n)
      BY <1>1, <1>2, <1>3, <2>1, <2>2, FlattensAgree
    <2>3. f[n] = g[n]
      BY <2>2, <2>4 DEF SameUpTo
    <2> QED
      BY <1>3, <1>4, <2>1, <2>2, <2>3 DEF t
  <1> QED
    BY <1>5, <1>6

\* One sequence after none.
LEMMA FlattenOne ==
    ASSUME NEW S, NEW x \in Seq(S)
    PROVE  FlattenSeq(<<x>>) = x
  <1>1. <<>> \in Seq(Seq(S)) /\ Append(<<>>, x) = <<x>>
    BY EmptySeq
  <1>2. FlattenSeq(<<x>>) = FlattenSeq(<<>>) \o x
    BY <1>1, FlattenAppend
  <1> QED
    BY <1>2, FlattenEmpty, ConcatEmptySeq

\* More sequences, by induction on how many.
LEMMA FlattenConcat ==
    ASSUME NEW S, NEW s \in Seq(Seq(S)), NEW t \in Seq(Seq(S))
    PROVE  FlattenSeq(s \o t) = FlattenSeq(s) \o FlattenSeq(t)
  <1> DEFINE Fails(u) == FlattenSeq(s \o u) # FlattenSeq(s) \o FlattenSeq(u)
             T == {n \in Nat : \E u \in Seq(Seq(S)) : Len(u) = n /\ Fails(u)}
  <1> SUFFICES ASSUME T # {} PROVE FALSE
    BY LenProperties
  <1>1. PICK m \in T : \A n \in T : m <= n
    <2>1. T \in SUBSET Nat
      OBVIOUS
    <2> HIDE DEF T
    <2> QED
      BY <2>1, LeastNatural
  <1>2. PICK u \in Seq(Seq(S)) : Len(u) = m /\ Fails(u)
    OBVIOUS
  <1>3. u # <<>>
    <2> SUFFICES ASSUME u = <<>> PROVE FALSE
      OBVIOUS
    <2>1. FlattenSeq(s) \in Seq(S)
      BY FlattenType
    <2>2. s \o u = s
      BY ConcatEmptySeq
    <2>3. FlattenSeq(s) \o FlattenSeq(u) = FlattenSeq(s)
      BY <2>1, FlattenEmpty, ConcatEmptySeq
    <2> QED
      BY <1>2, <2>2, <2>3
  <1>4. PICK v \in Seq(Seq(S)), x \in Seq(S) : u = Append(v, x)
    BY <1>3, SequenceEmptyOrAppend
  <1>5. ~Fails(v)
    <2>1. Len(v) \in Nat /\ m \in Nat /\ m = Len(v) + 1
      BY <1>2, <1>4, AppendProperties, LenProperties
    <2>2. ~(m <= Len(v))
      BY <2>1
    <2>3. Len(v) \notin T
      <3> HIDE DEF T
      <3> QED
        BY <1>1, <2>2
    <2> HIDE DEF Fails
    <2> QED
      BY <2>1, <2>3
  <1>6. s \o v \in Seq(Seq(S)) /\ FlattenSeq(s) \in Seq(S) /\ FlattenSeq(v) \in Seq(S)
    BY ConcatProperties, FlattenType
  <1> HIDE DEF T, Fails
  <1>7. FlattenSeq(s \o u) = FlattenSeq(s \o v) \o x
    <2>1. s \o Append(v, x) = Append(s \o v, x)
      BY AppendConcat
    <2> QED
      BY <1>4, <1>6, <2>1, FlattenAppend
  <1>8. FlattenSeq(s \o v) \o x = FlattenSeq(s) \o (FlattenSeq(v) \o x)
    <2> DEFINE fs == FlattenSeq(s)
               fv == FlattenSeq(v)
    <2>1. FlattenSeq(s \o v) = fs \o fv
      BY <1>5 DEF Fails
    <2>2. Associates(fs, fv, x)
      <3> HIDE DEF fs, fv
      <3>1. fs \in Seq(S) /\ fv \in Seq(S)
        BY <1>6 DEF fs, fv
      <3> QED
        BY <3>1, ConcatAssociates, Zenon
    <2> QED
      BY <2>1, <2>2 DEF Associates
  <1>9. FlattenSeq(u) = FlattenSeq(v) \o x
    BY <1>4, FlattenAppend
  <1> QED
    BY <1>2, <1>7, <1>8, <1>9 DEF Fails
=============================================================================
