--------------------------- MODULE Logging_proofs ---------------------------
(***************************************************************************)
(* Proofs about logging: AsyncLogging, for any threads, lines, sizes of a  *)
(* buffer and failures of the log file, and LogStream, for any texts and   *)
(* numbers.                                                                *)
(***************************************************************************)
EXTENDS AsyncLogging, LogStream, SequenceLemmas, FiniteSetTheorems

------------------------------------------------------------------------------
(* Lines that go from one sequence to another and keep their order.        *)

\* The lines of s are lines of t, in the same order.
InOrder(s, t) ==
    \A i, j \in 1 .. Len(s) : i < j =>
        \E p, q \in 1 .. Len(t) : p < q /\ t[p] = s[i] /\ t[q] = s[j]

\* The lines of the whole, without those that are gone, are in the log in order.
Intact(log, whole, gone) ==
    /\ Distinct(whole)
    /\ gone \subseteq Elements(whole)
    /\ Elements(log) = Elements(whole) \ gone
    /\ InOrder(log, whole)

LEMMA IntactAppend ==
    ASSUME NEW S, NEW log \in Seq(S), NEW whole \in Seq(S), NEW gone, NEW line \in S,
           Intact(log, whole, gone), line \notin Elements(whole)
    PROVE  Intact(Append(log, line), Append(whole, line), gone)
  <1> DEFINE l == Append(log, line)
             g == Append(whole, line)
  <1>1. Elements(l) = Elements(log) \cup {line} /\ Elements(g) = Elements(whole) \cup {line}
    BY AppendElements
  <1>2. Distinct(g)
    BY AppendElements DEF Intact
  <1>3. gone \subseteq Elements(g) /\ Elements(l) = Elements(g) \ gone
    BY <1>1 DEF Intact
  <1>4. /\ Len(log) \in Nat /\ Len(l) = Len(log) + 1 /\ l[Len(log) + 1] = line
        /\ \A i \in 1 .. Len(log) : l[i] = log[i]
    BY AppendProperties, LenProperties
  <1>5. /\ Len(whole) \in Nat /\ Len(g) = Len(whole) + 1 /\ g[Len(whole) + 1] = line
        /\ \A i \in 1 .. Len(whole) : g[i] = whole[i]
    BY AppendProperties, LenProperties
  <1> HIDE DEF l, g
  <1>6. /\ Len(whole) + 1 \in 1 .. Len(g)
        /\ \A p \in 1 .. Len(whole) : p \in 1 .. Len(g) /\ p < Len(whole) + 1
    BY <1>5
  <1>7. \A i, j \in 1 .. Len(l) : i < j =>
           i \in 1 .. Len(log) /\ (j \in 1 .. Len(log) \/ j = Len(log) + 1)
    BY <1>4
  <1>8. ASSUME NEW i \in 1 .. Len(l), NEW j \in 1 .. Len(l), i < j
        PROVE  \E p, q \in 1 .. Len(g) : p < q /\ g[p] = l[i] /\ g[q] = l[j]
    <2>1. i \in 1 .. Len(log) /\ l[i] = log[i]
      BY <1>4, <1>7, <1>8
    <2>2. CASE j \in 1 .. Len(log)
      <3>1. PICK p, q \in 1 .. Len(whole) : p < q /\ whole[p] = log[i] /\ whole[q] = log[j]
        BY <1>8, <2>1, <2>2, Zenon DEF Intact, InOrder
      <3> QED
        BY <1>4, <1>5, <1>6, <2>1, <2>2, <3>1, Zenon
    <2>3. CASE j = Len(log) + 1
      <3>1. log[i] \in Elements(whole)
        BY <2>1 DEF Intact, Elements
      <3>2. PICK p \in 1 .. Len(whole) : whole[p] = log[i]
        BY <3>1, Zenon DEF Elements
      <3> QED
        BY <1>4, <1>5, <1>6, <2>1, <2>3, <3>2, Zenon
    <2> QED
      BY <1>7, <1>8, <2>2, <2>3
  <1> QED
    BY <1>2, <1>3, <1>8 DEF Intact, InOrder, l, g

LEMMA IntactSkip ==
    ASSUME NEW S, NEW log \in Seq(S), NEW whole \in Seq(S), NEW gone, NEW line \in S,
           Intact(log, whole, gone), line \notin Elements(whole)
    PROVE  Intact(log, Append(whole, line), gone \cup {line})
  <1> DEFINE g == Append(whole, line)
  <1>1. Elements(g) = Elements(whole) \cup {line} /\ Distinct(g)
    BY AppendElements DEF Intact
  <1>2. gone \cup {line} \subseteq Elements(g) /\ Elements(log) = Elements(g) \ (gone \cup {line})
    BY <1>1 DEF Intact
  <1>3. /\ Len(whole) \in Nat /\ Len(g) = Len(whole) + 1
        /\ \A i \in 1 .. Len(whole) : g[i] = whole[i]
    BY AppendProperties, LenProperties
  <1> HIDE DEF g
  <1>4. \A p \in 1 .. Len(whole) : p \in 1 .. Len(g)
    BY <1>3
  <1>5. InOrder(log, g)
    <2> SUFFICES ASSUME NEW i \in 1 .. Len(log), NEW j \in 1 .. Len(log), i < j
                 PROVE  \E p, q \in 1 .. Len(g) : p < q /\ g[p] = log[i] /\ g[q] = log[j]
      BY DEF InOrder
    <2>1. PICK p, q \in 1 .. Len(whole) : p < q /\ whole[p] = log[i] /\ whole[q] = log[j]
      BY Zenon DEF Intact, InOrder
    <2> QED
      BY <1>3, <1>4, <2>1, Zenon
  <1> QED
    BY <1>1, <1>2, <1>5 DEF Intact, g

\* What is in order after something without repetition does not repeat itself.
LEMMA IntactDistinct ==
    ASSUME NEW S, NEW log \in Seq(S), NEW whole, NEW gone, Intact(log, whole, gone)
    PROVE  Distinct(log)
  <1> SUFFICES ASSUME NEW i \in 1 .. Len(log), NEW j \in 1 .. Len(log), log[i] = log[j], i # j
               PROVE  FALSE
    BY DEF Distinct
  <1>1. \A a, b \in 1 .. Len(log) : a < b => log[a] # log[b]
    <2> SUFFICES ASSUME NEW a \in 1 .. Len(log), NEW b \in 1 .. Len(log), a < b, log[a] = log[b]
                 PROVE  FALSE
      OBVIOUS
    <2>1. PICK p, q \in 1 .. Len(whole) : p < q /\ whole[p] = log[a] /\ whole[q] = log[b]
      BY Zenon DEF Intact, InOrder
    <2>2. p = q
      BY <2>1, Zenon DEF Intact, Distinct
    <2> QED
      BY <2>1, <2>2
  <1>2. i < j \/ j < i
    BY LenProperties
  <1> QED
    BY <1>1, <1>2

\* A part of the log is dropped.
LEMMA IntactDrop ==
    ASSUME NEW S, NEW a \in Seq(S), NEW x \in Seq(S), NEW b \in Seq(S),
           NEW whole \in Seq(S), NEW gone,
           Intact(a \o (x \o b), whole, gone)
    PROVE  Intact(a \o b, whole, gone \cup Elements(x))
  <1> DEFINE c == a \o (x \o b)
             d == a \o b
  <1>1. x \o b \in Seq(S) /\ c \in Seq(S) /\ d \in Seq(S)
    BY ConcatProperties
  <1>2. Distinct(c)
    BY <1>1, IntactDistinct
  <1>3. /\ Elements(x \o b) = Elements(x) \cup Elements(b)
        /\ Elements(c) = Elements(a) \cup Elements(x \o b)
        /\ Elements(d) = Elements(a) \cup Elements(b)
    BY <1>1, ConcatElements
  <1>4. Elements(a) \cap Elements(x \o b) = {}
    BY <1>1, <1>2, ConcatElements
  <1>6. /\ Len(a) \in Nat /\ Len(x) \in Nat /\ Len(b) \in Nat
        /\ Len(x \o b) = Len(x) + Len(b) /\ Len(c) = Len(a) + Len(x \o b) /\ Len(d) = Len(a) + Len(b)
    BY <1>1, ConcatProperties, LenProperties
  <1>7. \A i \in 1 .. Len(a) + Len(b) : d[i] = IF i <= Len(a) THEN a[i] ELSE b[i - Len(a)]
    BY ConcatProperties
  <1>8. \A i \in 1 .. Len(x) + Len(b) : (x \o b)[i] = IF i <= Len(x) THEN x[i] ELSE b[i - Len(x)]
    BY ConcatProperties
  <1>9. \A i \in 1 .. Len(a) + Len(x \o b) : c[i] = IF i <= Len(a) THEN a[i] ELSE (x \o b)[i - Len(a)]
    BY <1>1, ConcatProperties
  <1> DEFINE y == x \o b
             k(i) == IF i <= Len(a) THEN i ELSE i + Len(x)
  <1> HIDE DEF c, d
  <1>10. \A i \in 1 .. Len(d) : k(i) \in 1 .. Len(c) /\ d[i] = c[k(i)]
    <2> HIDE DEF y
    <2> TAKE i \in 1 .. Len(d)
    <2>1. CASE i <= Len(a)
      BY <1>6, <1>7, <1>9, <2>1, SMTT(20) DEF y
    <2>2. CASE ~(i <= Len(a))
      <3>1. i + Len(x) \in 1 .. Len(c) /\ ~(i + Len(x) <= Len(a)) /\ (i + Len(x)) - Len(a) \in 1 .. Len(x) + Len(b)
            /\ ~((i + Len(x)) - Len(a) <= Len(x)) /\ ((i + Len(x)) - Len(a)) - Len(x) = i - Len(a)
            /\ i \in 1 .. Len(a) + Len(b)
        BY <1>6, <2>2
      <3>2. d[i] = b[i - Len(a)]
        BY <1>7, <2>2, <3>1
      <3>3. (x \o b)[(i + Len(x)) - Len(a)] = b[i - Len(a)]
        BY <1>8, <3>1
      <3>4. c[i + Len(x)] = (x \o b)[(i + Len(x)) - Len(a)]
        BY <1>6, <1>9, <3>1
      <3> QED
        BY <2>2, <3>1, <3>2, <3>3, <3>4
    <2> QED
      BY <2>1, <2>2
  <1>11. \A i, j \in 1 .. Len(d) : i < j => k(i) < k(j)
    BY <1>6
  <1> HIDE DEF k, y
  <1>12. InOrder(d, whole)
    <2> SUFFICES ASSUME NEW i \in 1 .. Len(d), NEW j \in 1 .. Len(d), i < j
                 PROVE  \E p, q \in 1 .. Len(whole) : p < q /\ whole[p] = d[i] /\ whole[q] = d[j]
      BY DEF InOrder
    <2>1. k(i) \in 1 .. Len(c) /\ k(j) \in 1 .. Len(c) /\ k(i) < k(j)
      BY <1>10, <1>11, Zenon
    <2>2. PICK p, q \in 1 .. Len(whole) : p < q /\ whole[p] = c[k(i)] /\ whole[q] = c[k(j)]
      BY <2>1, Zenon DEF Intact, InOrder, c
    <2> QED
      BY <1>10, <2>2, Zenon
  <1>13. Elements(x) \cap Elements(b) = {}
    <2> SUFFICES ASSUME NEW i \in 1 .. Len(x), NEW j \in 1 .. Len(b), x[i] = b[j]
                 PROVE  FALSE
      BY DEF Elements
    <2>1. /\ i + Len(a) \in 1 .. Len(c) /\ ~(i + Len(a) <= Len(a)) /\ (i + Len(a)) - Len(a) = i
          /\ i \in 1 .. Len(x) + Len(b) /\ i <= Len(x)
      BY <1>6
    <2>2. c[i + Len(a)] = x[i]
      BY <1>6, <1>8, <1>9, <2>1
    <2>3. /\ (j + Len(x)) + Len(a) \in 1 .. Len(c) /\ ~((j + Len(x)) + Len(a) <= Len(a))
          /\ ((j + Len(x)) + Len(a)) - Len(a) = j + Len(x)
          /\ j + Len(x) \in 1 .. Len(x) + Len(b) /\ ~(j + Len(x) <= Len(x)) /\ (j + Len(x)) - Len(x) = j
      BY <1>6
    <2>4. c[(j + Len(x)) + Len(a)] = b[j]
      BY <1>6, <1>8, <1>9, <2>3
    <2>5. i + Len(a) = (j + Len(x)) + Len(a)
      BY <1>2, <2>1, <2>2, <2>3, <2>4 DEF Distinct
    <2> QED
      BY <1>6, <2>1, <2>5
  <1>14. /\ gone \cup Elements(x) \subseteq Elements(whole)
         /\ Elements(d) = Elements(whole) \ (gone \cup Elements(x))
    <2>1. gone \subseteq Elements(whole) /\ Elements(c) = Elements(whole) \ gone
      BY DEF Intact, c
    <2> QED
      BY <1>3, <1>4, <1>13, <2>1, Zenon DEF c
  <1> QED
    BY <1>12, <1>14 DEF Intact, d

------------------------------------------------------------------------------
(* The lines on their way, from the file back to the current buffer.       *)

\* The buffers the log thread has still to write.
Pending == IF pc = "write" THEN SubSeq(buffersToWrite, written + 1, Len(buffersToWrite)) ELSE <<>>

\* Log, with p for Pending.
LogOf(f, d, p, bs, cb) == f \o d \o (FlattenSeq(p) \o FlattenSeq(bs) \o cb)

LEMMA LogIs == Log = LogOf(file, stdio, Pending, buffers, currentBuffer)
  BY DEF Log, Unwritten, LogOf, Pending

LEMMA LogOfType ==
    ASSUME NEW f \in Seq(Lines), NEW d \in Seq(Lines), NEW p \in Seq(Seq(Lines)), NEW bs \in Seq(Seq(Lines)),
           NEW cb \in Seq(Lines)
    PROVE  LogOf(f, d, p, bs, cb) \in Seq(Lines)
  <1>1. FlattenSeq(p) \in Seq(Lines) /\ FlattenSeq(bs) \in Seq(Lines)
    BY FlattenType
  <1>2. FlattenSeq(p) \o FlattenSeq(bs) \in Seq(Lines) /\ f \o d \in Seq(Lines)
    BY <1>1, ConcatProperties
  <1>3. FlattenSeq(p) \o FlattenSeq(bs) \o cb \in Seq(Lines)
    BY <1>2, ConcatProperties
  <1> QED
    BY <1>2, <1>3, ConcatProperties DEF LogOf

\* A line comes to the end of the log.
Appends(f, d, p, bs, cb, line) ==
    LogOf(f, d, p, bs, Append(cb, line)) = Append(LogOf(f, d, p, bs, cb), line)

LEMMA LogOfAppend ==
    ASSUME NEW f \in Seq(Lines), NEW d \in Seq(Lines), NEW p \in Seq(Seq(Lines)), NEW bs \in Seq(Seq(Lines)),
           NEW cb \in Seq(Lines), NEW line \in Lines
    PROVE  Appends(f, d, p, bs, cb, line)
  <1> DEFINE a == f \o d
             b == FlattenSeq(p) \o FlattenSeq(bs)
  <1>1. a \in Seq(Lines) /\ b \in Seq(Lines)
    <2>1. FlattenSeq(p) \in Seq(Lines) /\ FlattenSeq(bs) \in Seq(Lines)
      BY FlattenType
    <2> QED
      BY <2>1, ConcatProperties
  <1> HIDE DEF a, b
  <1> DEFINE c == b \o cb
  <1>2. c \in Seq(Lines)
    BY <1>1, ConcatProperties
  <1>3. b \o Append(cb, line) = Append(c, line)
    BY <1>1, AppendConcat, SMTT(20)
  <1> HIDE DEF c
  <1>4. a \o Append(c, line) = Append(a \o c, line)
    BY <1>1, <1>2, AppendConcat, SMTT(20)
  <1> QED
    BY <1>3, <1>4 DEF Appends, LogOf, a, b, c

\* A buffer that is put aside stays where it was.
LEMMA LogOfPutAside ==
    ASSUME NEW f \in Seq(Lines), NEW d \in Seq(Lines), NEW p \in Seq(Seq(Lines)), NEW bs \in Seq(Seq(Lines)),
           NEW cb \in Seq(Lines)
    PROVE  LogOf(f, d, p, Append(bs, cb), <<>>) = LogOf(f, d, p, bs, cb)
  <1> DEFINE x == FlattenSeq(p)
             y == FlattenSeq(bs)
  <1>1. x \in Seq(Lines) /\ y \in Seq(Lines)
    BY FlattenType
  <1>2. FlattenSeq(Append(bs, cb)) = y \o cb
    BY FlattenAppend
  <1> HIDE DEF x, y
  <1>3. y \o cb \in Seq(Lines) /\ x \o (y \o cb) \in Seq(Lines)
    <2>1. y \o cb \in Seq(Lines)
      BY <1>1, ConcatProperties
    <2> QED
      BY <1>1, <2>1, ConcatProperties
  <1>4. x \o (y \o cb) \o <<>> = x \o (y \o cb)
    BY <1>3, ConcatEmptySeq
  <1>5. Associates(x, y, cb)
    BY <1>1, ConcatAssociates, Zenon
  <1> QED
    BY <1>2, <1>4, <1>5 DEF Associates, LogOf, x, y

\* So does one that the log thread takes.
LEMMA LogOfTake ==
    ASSUME NEW f \in Seq(Lines), NEW d \in Seq(Lines), NEW bs \in Seq(Seq(Lines)), NEW cb \in Seq(Lines)
    PROVE  LogOf(f, d, Append(bs, cb), <<>>, <<>>) = LogOf(f, d, <<>>, bs, cb)
  <1> DEFINE y == FlattenSeq(bs)
  <1>1. y \in Seq(Lines) /\ <<>> \in Seq(Lines)
    BY FlattenType, EmptySeq
  <1>2. FlattenSeq(Append(bs, cb)) = y \o cb
    BY FlattenAppend
  <1> HIDE DEF y
  <1>3. y \o cb \in Seq(Lines)
    BY <1>1, ConcatProperties
  <1>4. (y \o cb) \o <<>> = y \o cb /\ <<>> \o y = y
    BY <1>1, <1>3, ConcatEmptySeq
  <1> QED
    BY <1>2, <1>4, FlattenEmpty DEF LogOf, y

\* One log is the other without the lines of x.
Without(shorter, log, x) ==
    \E a, b \in Seq(Lines) : log = a \o (x \o b) /\ shorter = a \o b

\* Of the buffers to write the last ones are dropped.
LEMMA LogOfDrop ==
    ASSUME NEW f \in Seq(Lines), NEW d \in Seq(Lines), NEW p \in Seq(Seq(Lines)), NEW q \in Seq(Seq(Lines)),
           NEW bs \in Seq(Seq(Lines)), NEW cb \in Seq(Lines)
    PROVE  Without(LogOf(f, d, p, bs, cb), LogOf(f, d, p \o q, bs, cb), FlattenSeq(q))
  <1> DEFINE e == f \o d
             x == FlattenSeq(p)
             z == FlattenSeq(q)
             y == FlattenSeq(bs)
  <1>1. e \in Seq(Lines) /\ x \in Seq(Lines) /\ y \in Seq(Lines) /\ z \in Seq(Lines)
    BY FlattenType, ConcatProperties
  <1>2. FlattenSeq(p \o q) = x \o z
    BY FlattenConcat
  <1>3. /\ LogOf(f, d, p \o q, bs, cb) = e \o (((x \o z) \o y) \o cb)
        /\ LogOf(f, d, p, bs, cb) = e \o ((x \o y) \o cb)
    BY <1>2 DEF LogOf
  <1> HIDE DEF e, x, y, z
  <1> DEFINE w == y \o cb
             v == z \o w
             a == e \o x
  <1>4. w \in Seq(Lines) /\ a \in Seq(Lines) /\ x \o z \in Seq(Lines)
    BY <1>1, ConcatProperties
  <1>5. v \in Seq(Lines)
    <2> HIDE DEF w
    <2> QED
      BY <1>1, <1>4, ConcatProperties
  <1>6. Associates(x \o z, y, cb) /\ Associates(x, y, cb)
    BY <1>1, <1>4, ConcatAssociates, Zenon
  <1>7. Associates(x, z, w) /\ Associates(e, x, w) /\ Associates(e, x, v)
    <2> HIDE DEF w, v
    <2> QED
      BY <1>1, <1>4, <1>5, ConcatAssociates, Zenon
  <1>8. LogOf(f, d, p \o q, bs, cb) = a \o v /\ LogOf(f, d, p, bs, cb) = a \o w
    BY <1>3, <1>6, <1>7, Zenon DEF Associates
  <1> HIDE DEF a, v, w
  <1> QED
    BY <1>4, <1>8, Zenon DEF Without, v, z

\* The first buffer is written, only its first lines reach the file.
LEMMA LogOfWrite ==
    ASSUME NEW f \in Seq(Lines), NEW d \in Seq(Lines), NEW p \in Seq(Seq(Lines)),
           NEW bs \in Seq(Seq(Lines)), NEW cb \in Seq(Lines), NEW head \in Seq(Lines), NEW rest \in Seq(Lines),
           NEW f2, NEW d2, f2 \o d2 = f \o (d \o head)
    PROVE  Without(LogOf(f2, d2, p, bs, cb), LogOf(f, d, <<head \o rest>> \o p, bs, cb), rest)
  <1> DEFINE x == FlattenSeq(p)
             y == FlattenSeq(bs)
             data == head \o rest
  <1>1. x \in Seq(Lines) /\ y \in Seq(Lines) /\ data \in Seq(Lines) /\ d \o head \in Seq(Lines) /\ f \o d \in Seq(Lines)
    BY FlattenType, ConcatProperties
  <1>2. FlattenSeq(<<data>> \o p) = data \o x
    <2> HIDE DEF data
    <2>1. FlattenSeq(<<data>>) = data
      BY <1>1, FlattenOne
    <2>2. <<data>> \in Seq(Seq(Lines))
      BY <1>1
    <2>3. FlattenSeq(<<data>> \o p) = FlattenSeq(<<data>>) \o FlattenSeq(p)
      BY <2>2, FlattenConcat
    <2> QED
      BY <2>1, <2>3
  <1>3. /\ LogOf(f, d, <<data>> \o p, bs, cb) = (f \o d) \o ((((head \o rest) \o x) \o y) \o cb)
        /\ LogOf(f2, d2, p, bs, cb) = (f \o (d \o head)) \o ((x \o y) \o cb)
    BY <1>2 DEF LogOf
  <1> DEFINE w == x \o y
             b == w \o cb
             v == rest \o b
             a == f \o (d \o head)
  <1> HIDE DEF x, y
  <1>4. w \in Seq(Lines) /\ a \in Seq(Lines)
    BY <1>1, ConcatProperties
  <1>5. b \in Seq(Lines)
    <2> HIDE DEF w
    <2> QED
      BY <1>4, ConcatProperties
  <1>6. v \in Seq(Lines)
    <2> HIDE DEF b
    <2> QED
      BY <1>5, ConcatProperties
  <1>7. /\ Associates(head \o rest, x, y) /\ Associates(f, d, head)
    BY <1>1, ConcatAssociates, Zenon
  <1>8. Associates(head \o rest, w, cb)
    <2> HIDE DEF w
    <2> QED
      BY <1>1, <1>4, ConcatAssociates, Zenon
  <1>9. Associates(head, rest, b)
    <2> HIDE DEF b
    <2> QED
      BY <1>5, ConcatAssociates, Zenon
  <1>10. Associates(f \o d, head, v)
    <2> HIDE DEF v
    <2> QED
      BY <1>1, <1>6, ConcatAssociates, Zenon
  <1>11. (((head \o rest) \o x) \o y) \o cb = head \o v
    BY <1>7, <1>8, <1>9, Zenon DEF Associates
  <1>12. (f \o d) \o (head \o v) = a \o v
    <2> HIDE DEF v
    <2> QED
      BY <1>7, <1>10, Zenon DEF Associates
  <1>13. LogOf(f, d, <<data>> \o p, bs, cb) = a \o v /\ LogOf(f2, d2, p, bs, cb) = a \o b
    BY <1>3, <1>11, <1>12, Zenon
  <1> HIDE DEF a, b, v
  <1> QED
    BY <1>4, <1>5, <1>13, Zenon DEF Without, v

------------------------------------------------------------------------------
(* The types of the variables, and the spare buffers.                      *)

USE ThreadsAssumption, ProgramAssumption, OnceAssumption, NoBufferAssumption,
    StopsAssumption, RoomAssumption, BacklogAssumption, FaultAssumption, FlushAssumption

\* The log thread is created by the first LOG only.
NotBegun == once = "new" => pc = "none"

\* Before and while the log thread waits it has both spare buffers.
SparesThere ==
    /\ pc \in {"none", "begin", "top", "lock", "waiting"} => buffersToWrite = <<>>
    /\ pc \in {"top", "lock", "waiting"} => newBuffer1 = <<>> /\ newBuffer2 = <<>>

\* nextBuffer_ is used only after a buffer was put aside, so the log thread has
\* as many buffers to write as it has given spare ones away.
SparesUsed ==
    /\ nextBuffer = NoBuffer => buffers # <<>>
    /\ pc \in {"write", "refill"} =>
          /\ newBuffer1 = NoBuffer /\ newBuffer2 \in {<<>>, NoBuffer}
          /\ Len(buffersToWrite) >= 1
          /\ newBuffer2 = NoBuffer => Len(buffersToWrite) >= 2

SpareInv == TypeOK /\ NotBegun /\ SparesThere /\ SparesUsed

LEMMA InitSpares == Init => SpareInv
  <1> SUFFICES ASSUME Init PROVE SpareInv
    OBVIOUS
  <1>0. /\ <<>> \in Seq(Lines) /\ <<>> \in Seq(Seq(Lines)) /\ Len(<<>>) = 0
        /\ <<>> # NoBuffer
    BY EmptySeq
  <1>1. /\ running \in BOOLEAN /\ latch \in Nat /\ once \in {"new", "running", "done"}
        /\ caller \in [Loggers -> {"log", "latch", "asleep", "logged"}]
        /\ todo \in [Appenders -> Seq(Lines)]
        /\ stopper \in {"none", "joining", "stopped"}
    BY DEF Init
  <1>2. /\ currentBuffer \in Buffer
        /\ nextBuffer \in Buffer \cup {NoBuffer}
        /\ buffers \in Seq(Buffer)
        /\ pc = "none"
        /\ newBuffer1 \in Buffer \cup {NoBuffer} /\ newBuffer2 \in Buffer \cup {NoBuffer}
        /\ buffersToWrite \in Seq(Buffer)
    BY <1>0 DEF Init, Buffer
  <1>3. /\ written \in 0 .. Len(buffersToWrite)
        /\ count \in 0 .. FlushEveryN - 1
        /\ failures \in 0 .. MaxFailures
    BY <1>0 DEF Init
  <1>4. /\ stdio \in Buffer /\ file \in Buffer /\ appended \in Buffer /\ lost \subseteq Lines
    BY <1>0 DEF Init, Buffer
  <1>5. TypeOK
    BY <1>1, <1>2, <1>3, <1>4 DEF TypeOK
  <1>6. NotBegun /\ SparesThere /\ SparesUsed
    BY <1>0 DEF Init, NotBegun, SparesThere, SparesUsed
  <1> QED
    BY <1>5, <1>6 DEF SpareInv

\* A part of the buffers to write.
LEMMA PartType ==
    ASSUME NEW S, NEW s \in Seq(S), NEW m \in 1 .. Len(s) + 1, NEW n \in m - 1 .. Len(s)
    PROVE  /\ SubSeq(s, m, n) \in Seq(S)
           /\ Len(SubSeq(s, m, n)) = n - m + 1
  <1>1. Len(s) \in Nat
    BY LenProperties
  <1>2. \A i \in m .. n : s[i] \in S
    BY <1>1
  <1>3. SubSeq(s, m, n) \in Seq(S) /\ Len(SubSeq(s, m, n)) = IF m <= n THEN n - m + 1 ELSE 0
    BY <1>1, <1>2, SubSeqProperties
  <1> QED
    BY <1>1, <1>3

\* A sequence of two parts.
LEMMA TwoParts ==
    ASSUME NEW S, NEW s \in Seq(S), NEW n \in 0 .. Len(s)
    PROVE  /\ SubSeq(s, 1, n) \in Seq(S) /\ SubSeq(s, n + 1, Len(s)) \in Seq(S)
           /\ s = SubSeq(s, 1, n) \o SubSeq(s, n + 1, Len(s))
  <1>1. Len(s) \in Nat
    BY LenProperties
  <1>2. /\ 1 \in 1 .. Len(s) + 1 /\ n \in 1 - 1 .. Len(s) /\ Len(s) \in n .. Len(s)
        /\ n + 1 \in 1 .. Len(s) + 1 /\ Len(s) \in (n + 1) - 1 .. Len(s)
    BY <1>1
  <1>3. SubSeq(s, 1, n) \o SubSeq(s, n + 1, Len(s)) = SubSeq(s, 1, Len(s))
    BY <1>2, ConcatAdjacentSubSeq
  <1>4. SubSeq(s, 1, Len(s)) = s
    BY SubSeqFull
  <1> QED
    BY <1>2, <1>3, <1>4, PartType

\* fflush() moves lines from the FILE to the file.
LEMMA FlushKeeps ==
    ASSUME NEW lines \in Seq(Lines), NEW b \in BOOLEAN, Flush(lines, b), file \in Seq(Lines)
    PROVE  /\ file' \in Seq(Lines) /\ stdio' \in Seq(Lines)
           /\ file' \o stdio' = file \o lines
  <1>1. Len(lines) \in Nat
    BY LenProperties
  <1>2. PICK n \in 0 .. Len(lines) : /\ file' = file \o SubSeq(lines, 1, n)
                                     /\ stdio' = SubSeq(lines, n + 1, Len(lines))
    <2>1. (IF b THEN 0 .. Len(lines) ELSE {Len(lines)}) \subseteq 0 .. Len(lines)
      BY <1>1
    <2> QED
      BY <2>1, Zenon DEF Flush
  <1> DEFINE head == SubSeq(lines, 1, n)
             rest == SubSeq(lines, n + 1, Len(lines))
  <1>3. head \in Seq(Lines) /\ rest \in Seq(Lines) /\ lines = head \o rest
    BY TwoParts
  <1>4. file' = file \o head /\ stdio' = rest
    BY <1>2
  <1> HIDE DEF head, rest
  <1>5. Associates(file, head, rest)
    BY <1>3, ConcatAssociates, Zenon
  <1>6. file \o head \in Seq(Lines)
    BY <1>3, ConcatProperties
  <1> QED
    BY <1>3, <1>4, <1>5, <1>6, Zenon DEF Associates

LEMMA BrokenType ==
    ASSUME NEW b \in BOOLEAN, Broken(b), failures \in 0 .. MaxFailures
    PROVE  failures' \in 0 .. MaxFailures
  <1>1. CASE b
    BY <1>1 DEF Broken
  <1>2. CASE ~b
    BY <1>2 DEF Broken
  <1> QED
    BY <1>1, <1>2

LEMMA CallerSpares ==
    ASSUME SpareInv,
           \/ \E th \in Loggers : LogStarts(th) \/ LatchWait(th) \/ SpuriousWakeup(th)
           \/ Stop
           \/ Stopped \/ JoinFails
    PROVE  SpareInv'
  <1> USE DEF SpareInv, shared, locals, output, history
  <1>1. ASSUME NEW th \in Loggers, LogStarts(th) PROVE SpareInv'
    <2>1. TypeOK'
      BY <1>1 DEF LogStarts, TypeOK, NotBegun
    <2> QED
      BY <1>1, <2>1 DEF LogStarts, NotBegun, SparesThere, SparesUsed
  <1>2. ASSUME NEW th \in Loggers, LatchWait(th) PROVE SpareInv'
    <2>1. TypeOK'
      BY <1>2 DEF LatchWait, TypeOK
    <2> QED
      BY <1>2, <2>1 DEF LatchWait, NotBegun, SparesThere, SparesUsed
  <1>3. ASSUME NEW th \in Loggers, SpuriousWakeup(th) PROVE SpareInv'
    <2>1. TypeOK'
      BY <1>3 DEF SpuriousWakeup, TypeOK
    <2> QED
      BY <1>3, <2>1 DEF SpuriousWakeup, NotBegun, SparesThere, SparesUsed
  <1>4. ASSUME Stop PROVE SpareInv'
    <2>1. TypeOK'
      BY <1>4 DEF Stop, ClearRunning, TypeOK
    <2> QED
      BY <1>4, <2>1 DEF Stop, NotBegun, SparesThere, SparesUsed
  <1>5. ASSUME Stopped PROVE SpareInv'
    <2>1. TypeOK'
      BY <1>5 DEF Stopped, TypeOK
    <2> QED
      BY <1>5, <2>1 DEF Stopped, NotBegun, SparesThere, SparesUsed
  <1>6. ASSUME JoinFails PROVE SpareInv'
    <2>1. TypeOK'
      BY <1>6 DEF JoinFails, callers, TypeOK
    <2> QED
      BY <1>6, <2>1 DEF JoinFails, callers, NotBegun, SparesThere, SparesUsed
  <1> QED
    BY <1>1, <1>2, <1>3, <1>4, <1>5, <1>6

LEMMA AppendSpares ==
    ASSUME SpareInv, NEW th \in Appenders, AppendLine(th)
    PROVE  SpareInv'
  <1> USE DEF SpareInv, shared, locals, output, history, callers
  <1> DEFINE line == Head(todo[th])
  <1>1. todo[th] \in Seq(Lines) /\ todo[th] # <<>>
    BY DEF AppendLine, TypeOK
  <1>2. line \in Lines /\ Tail(todo[th]) \in Seq(Lines)
    BY <1>1, HeadTailProperties
  <1>3. todo' \in [Appenders -> Seq(Lines)]
    BY <1>2 DEF AppendLine, TypeOK
  <1>4. appended' \in Buffer /\ lost' \subseteq Lines
    <2>1. appended' = Append(appended, line) /\ lost' \subseteq lost \cup {line}
      BY DEF AppendLine
    <2> HIDE DEF line
    <2> QED
      BY <1>2, <2>1, AppendProperties DEF TypeOK, Buffer
  <1>5. /\ currentBuffer' \in Buffer /\ nextBuffer' \in Buffer \cup {NoBuffer}
        /\ buffers' \in Seq(Buffer)
        /\ nextBuffer' = NoBuffer => buffers' # <<>>
    <2> DEFINE Room1 == line \notin TooLong /\ Len(currentBuffer) < Room
    <2>0. currentBuffer \in Buffer /\ nextBuffer \in Buffer \cup {NoBuffer} /\ buffers \in Seq(Buffer)
      BY DEF TypeOK
    <2>1. CASE Room1
      <3>1. currentBuffer' = Append(currentBuffer, line) /\ nextBuffer' = nextBuffer /\ buffers' = buffers
        BY <2>1 DEF AppendLine
      <3> HIDE DEF line, Room1
      <3> QED
        BY <1>2, <2>0, <3>1, AppendProperties DEF SparesUsed, Buffer
    <2>2. CASE ~Room1
      <3>1. /\ currentBuffer' \in {<<line>>, <<>>} /\ nextBuffer' = NoBuffer
            /\ buffers' = Append(buffers, currentBuffer)
        BY <2>2 DEF AppendLine, PutAside
      <3> HIDE DEF line, Room1
      <3>2. <<line>> \in Seq(Lines) /\ <<>> \in Seq(Lines)
        BY <1>2, EmptySeq
      <3>3. buffers' \in Seq(Buffer) /\ buffers' # <<>>
        BY <2>0, <3>1, AppendProperties
      <3> QED
        BY <3>1, <3>2, <3>3 DEF Buffer
    <2> QED
      BY <2>1, <2>2
  <1>6. UNCHANGED <<running, callers, pc, locals, output>>
    BY DEF AppendLine
  <1>7. TypeOK'
    BY <1>3, <1>4, <1>5, <1>6 DEF TypeOK
  <1>8. NotBegun' /\ SparesThere' /\ SparesUsed'
    BY <1>5, <1>6 DEF NotBegun, SparesThere, SparesUsed
  <1> QED
    BY <1>7, <1>8

LEMMA StepSpares ==
    ASSUME SpareInv, Begin \/ Top \/ Wait
    PROVE  SpareInv'
  <1> USE DEF SpareInv
  <1>0. /\ <<>> \in Seq(Lines) /\ stdio \in Seq(Lines) /\ file \in Seq(Lines)
        /\ failures \in 0 .. MaxFailures
    BY EmptySeq DEF TypeOK, Buffer
  <1>1. ASSUME Begin PROVE SpareInv'
    <2>1. /\ pc' \in {"top", "aborted"} /\ failures' \in 0 .. MaxFailures
          /\ newBuffer1' = <<>> /\ newBuffer2' = <<>>
      BY <1>0, <1>1, BrokenType DEF Begin
    <2>2. /\ UNCHANGED <<running, callers, todo, shared, buffersToWrite, written, history>>
          /\ UNCHANGED <<count, stdio, file>> /\ pc = "begin"
      BY <1>1 DEF Begin
    <2>3. TypeOK'
      BY <1>0, <2>1, <2>2 DEF TypeOK, Buffer, callers, shared, history
    <2> QED
      BY <2>1, <2>2, <2>3 DEF NotBegun, SparesThere, SparesUsed, callers, shared
  <1>2. ASSUME Top PROVE SpareInv'
    <2>1. UNCHANGED <<running, callers, todo, shared, locals, history>> /\ pc = "top"
      BY <1>2 DEF Top
    <2>2. /\ pc' \in {"lock", "exited"} /\ count' = count
          /\ failures' \in 0 .. MaxFailures /\ file' \in Seq(Lines) /\ stdio' \in Seq(Lines)
      <3>1. CASE running
        BY <1>0, <1>2, <3>1 DEF Top, output
      <3>2. CASE ~running
        <4>1. PICK b \in BOOLEAN : Broken(b) /\ Flush(stdio, b)
          BY <1>2, <3>2 DEF Top
        <4>2. pc' = "exited" /\ count' = count
          BY <1>2, <3>2 DEF Top
        <4> QED
          BY <1>0, <4>1, <4>2, BrokenType, FlushKeeps
      <3> QED
        BY <3>1, <3>2
    <2>3. TypeOK'
      BY <2>1, <2>2 DEF TypeOK, Buffer, callers, shared, history, locals
    <2> QED
      BY <2>1, <2>2, <2>3 DEF NotBegun, SparesThere, SparesUsed, callers, shared, locals
  <1>3. ASSUME Wait PROVE SpareInv'
    <2>1. /\ UNCHANGED <<running, callers, todo, shared, locals, output, history>>
          /\ pc = "lock" /\ pc' = "waiting"
      BY <1>3 DEF Wait
    <2>3. TypeOK'
      BY <2>1 DEF TypeOK, Buffer, callers, shared, history, locals, output
    <2> QED
      BY <2>1, <2>3 DEF NotBegun, SparesThere, SparesUsed, callers, shared, locals
  <1> QED
    BY <1>1, <1>2, <1>3

LEMMA TakeSpares ==
    ASSUME SpareInv, TakeBuffers
    PROVE  SpareInv'
  <1> USE DEF SpareInv
  <1>1. /\ newBuffer1 = <<>> /\ newBuffer2 = <<>> /\ buffersToWrite = <<>>
        /\ <<>> # NoBuffer /\ <<>> \in Seq(Lines) /\ <<>> \in Seq(Seq(Lines))
    BY EmptySeq DEF TakeBuffers, WaitEnds, SparesThere
  <1>2. /\ buffersToWrite' = Append(buffers, currentBuffer) /\ buffers' = <<>>
        /\ currentBuffer' = <<>> /\ newBuffer1' = NoBuffer
        /\ written' = 0 /\ pc' = "write" /\ pc \in {"lock", "waiting"}
        /\ UNCHANGED <<running, callers, todo, output, history>>
    BY <1>1 DEF TakeBuffers, WaitEnds, GiveBack
  <1>3. /\ nextBuffer' # NoBuffer /\ nextBuffer' \in Buffer
        /\ newBuffer2' \in {<<>>, NoBuffer}
        /\ newBuffer2' = NoBuffer => nextBuffer = NoBuffer
    <2>0. nextBuffer \in Buffer \cup {NoBuffer}
      BY DEF TypeOK
    <2>1. CASE nextBuffer = NoBuffer
      BY <1>1, <2>1 DEF TakeBuffers, GiveBack, Buffer
    <2>2. CASE nextBuffer # NoBuffer
      BY <1>1, <2>0, <2>2 DEF TakeBuffers, GiveBack, Buffer
    <2> QED
      BY <2>1, <2>2
  <1>4. /\ buffersToWrite' \in Seq(Buffer) /\ Len(buffersToWrite') >= 1
        /\ newBuffer2' = NoBuffer => Len(buffersToWrite') >= 2
    <2>1. buffers \in Seq(Buffer) /\ currentBuffer \in Buffer
      BY DEF TypeOK
    <2>2. /\ buffersToWrite' \in Seq(Buffer) /\ Len(buffersToWrite') = Len(buffers) + 1
          /\ Len(buffers) \in Nat
      BY <1>2, <2>1, AppendProperties, LenProperties
    <2>3. newBuffer2' = NoBuffer => Len(buffers) \in Nat \ {0}
      BY <1>3, <2>1, EmptySeq DEF SparesUsed
    <2> QED
      BY <2>2, <2>3
  <1>5. TypeOK'
    <2>1. /\ currentBuffer' \in Buffer /\ buffers' \in Seq(Buffer)
          /\ newBuffer1' \in Buffer \cup {NoBuffer} /\ newBuffer2' \in Buffer \cup {NoBuffer}
      BY <1>1, <1>2, <1>3 DEF Buffer
    <2>2. written' \in 0 .. Len(buffersToWrite')
      BY <1>2, <1>4, LenProperties
    <2>3. pc' \in {"none", "failed", "begin", "top", "lock", "waiting", "write", "refill",
                         "exited", "aborted"}
      BY <1>2
    <2> QED
      BY <1>2, <1>3, <1>4, <2>1, <2>2, <2>3 DEF TypeOK, callers, output, history
  <1>6. NotBegun'
    BY <1>2 DEF NotBegun, callers
  <1>7. SparesThere' /\ SparesUsed'
    BY <1>2, <1>3, <1>4 DEF SparesThere, SparesUsed
  <1> QED
    BY <1>5, <1>6, <1>7

LEMMA DropSpares ==
    ASSUME SpareInv, Drop
    PROVE  /\ SpareInv'
           /\ SubSeq(buffersToWrite, Kept + 1, Len(buffersToWrite)) \in Seq(Buffer)
  <1> USE DEF SpareInv
  <1>1. buffersToWrite \in Seq(Buffer) /\ Len(buffersToWrite) \in Nat /\ Len(buffersToWrite) > 2
    BY LenProperties DEF TypeOK, Drop
  <1>2. /\ buffersToWrite' \in Seq(Buffer) /\ Len(buffersToWrite') = 2
        /\ SubSeq(buffersToWrite, Kept + 1, Len(buffersToWrite)) \in Seq(Buffer)
    <2>1. /\ 1 \in 1 .. Len(buffersToWrite) + 1 /\ 2 \in 1 - 1 .. Len(buffersToWrite)
          /\ Kept + 1 \in 1 .. Len(buffersToWrite) + 1
          /\ Len(buffersToWrite) \in (Kept + 1) - 1 .. Len(buffersToWrite)
          /\ (2 - 1) + 1 = 2
      BY <1>1
    <2>2. buffersToWrite' = SubSeq(buffersToWrite, 1, 2)
      BY DEF Drop
    <2> QED
      BY <1>1, <2>1, <2>2, PartType
  <1>3. lost' \subseteq Lines
    <2>1. LinesOf(SubSeq(buffersToWrite, Kept + 1, Len(buffersToWrite))) \subseteq Lines
      <3>1. FlattenSeq(SubSeq(buffersToWrite, Kept + 1, Len(buffersToWrite))) \in Seq(Lines)
        BY <1>2, FlattenType DEF Buffer
      <3> QED
        BY <3>1, LenProperties DEF LinesOf, ToSet
    <2> QED
      BY <2>1 DEF Drop, TypeOK
  <1>4. /\ UNCHANGED <<running, callers, todo, shared, pc, newBuffer1, newBuffer2, written, output, appended>>
        /\ pc = "write" /\ written = 0
    BY DEF Drop
  <1>5. TypeOK'
    <2>1. written' \in 0 .. Len(buffersToWrite')
      BY <1>2, <1>4
    <2> QED
      BY <1>2, <1>3, <1>4, <2>1 DEF TypeOK, callers, shared, output
  <1>6. NotBegun' /\ SparesThere' /\ SparesUsed'
    BY <1>2, <1>4 DEF NotBegun, SparesThere, SparesUsed, callers, shared
  <1> QED
    BY <1>2, <1>5, <1>6

\* What WriteBuffer() does with the lines of one buffer, the first n of which the
\* file takes.
Writes(data, n, b) ==
    /\ Broken(b) /\ AppendFile(data, n, b)
    /\ Flush(stdio \o SubSeq(data, 1, n), b \/ ~MustFlush)

LEMMA WritesData ==
    ASSUME SpareInv, WriteBuffer
    PROVE  \E b \in BOOLEAN, n \in 0 .. Len(buffersToWrite[written + 1]) :
              Writes(buffersToWrite[written + 1], n, b)
  BY Zenon DEF WriteBuffer, Writes

LEMMA WriteSpares ==
    ASSUME SpareInv, WriteBuffer
    PROVE  SpareInv'
  <1> USE DEF SpareInv
  <1> DEFINE data == buffersToWrite[written + 1]
  <1>1. /\ buffersToWrite \in Seq(Buffer) /\ Len(buffersToWrite) \in Nat
        /\ pc = "write" /\ written \in 0 .. Len(buffersToWrite) - 1
        /\ written + 1 \in 1 .. Len(buffersToWrite)
    <2>1. buffersToWrite \in Seq(Buffer) /\ Len(buffersToWrite) \in Nat
      BY LenProperties DEF TypeOK
    <2>2. pc = "write" /\ written < Len(buffersToWrite) /\ written \in 0 .. Len(buffersToWrite)
      BY DEF WriteBuffer, TypeOK
    <2> QED
      BY <2>1, <2>2
  <1>2. data \in Seq(Lines) /\ Len(data) \in Nat
    BY <1>1, ElementOfSeq, LenProperties DEF Buffer
  <1>3. PICK b \in BOOLEAN, n \in 0 .. Len(data) : Writes(data, n, b)
    BY WritesData
  <1>4. /\ UNCHANGED <<running, callers, todo, shared, pc, newBuffer1, newBuffer2, buffersToWrite, appended>>
        /\ written' = written + 1
        /\ count' = IF MustFlush THEN 0 ELSE count + 1
    BY DEF WriteBuffer
  <1> HIDE DEF data
  <1>5. SubSeq(data, 1, n) \in Seq(Lines) /\ SubSeq(data, n + 1, Len(data)) \in Seq(Lines)
    <2>1. /\ 1 \in 1 .. Len(data) + 1 /\ n \in 1 - 1 .. Len(data)
          /\ n + 1 \in 1 .. Len(data) + 1 /\ Len(data) \in (n + 1) - 1 .. Len(data)
      BY <1>2
    <2> QED
      BY <1>2, <2>1, PartType
  <1>6. failures' \in 0 .. MaxFailures /\ file' \in Seq(Lines) /\ stdio' \in Seq(Lines)
    <2>1. file \in Seq(Lines) /\ stdio \in Seq(Lines) /\ failures \in 0 .. MaxFailures
      BY DEF TypeOK, Buffer
    <2>2. stdio \o SubSeq(data, 1, n) \in Seq(Lines)
      BY <1>5, <2>1, ConcatProperties
    <2>3. Broken(b) /\ Flush(stdio \o SubSeq(data, 1, n), b \/ ~MustFlush) /\ (b \/ ~MustFlush) \in BOOLEAN
      BY <1>3 DEF Writes
    <2> QED
      BY <2>1, <2>2, <2>3, BrokenType, FlushKeeps
  <1>7. lost' \subseteq Lines
    <2>1. ToSet(SubSeq(data, n + 1, Len(data))) \subseteq Lines
      BY <1>5, LenProperties DEF ToSet
    <2> QED
      BY <1>3, <2>1 DEF Writes, AppendFile, TypeOK
  <1>8. count' \in 0 .. FlushEveryN - 1
    <2>1. count \in 0 .. FlushEveryN - 1 /\ FlushEveryN \in Nat \ {0}
      BY DEF TypeOK
    <2> QED
      BY <1>4, <2>1 DEF MustFlush
  <1>9. TypeOK'
    <2>1. written' \in 0 .. Len(buffersToWrite')
      BY <1>1, <1>4
    <2> QED
      BY <1>4, <1>6, <1>7, <1>8, <2>1, SMTT(20) DEF TypeOK, Buffer, callers, shared
  <1>10. NotBegun' /\ SparesThere' /\ SparesUsed'
    BY <1>4 DEF NotBegun, SparesThere, SparesUsed, callers, shared
  <1> QED
    BY <1>9, <1>10

LEMMA EndSpares ==
    ASSUME SpareInv, AllWritten \/ Refill
    PROVE  SpareInv'
  <1> USE DEF SpareInv
  <1>0. buffersToWrite \in Seq(Buffer) /\ Len(buffersToWrite) \in Nat
    BY LenProperties DEF TypeOK
  <1>1. ASSUME AllWritten PROVE SpareInv'
    <2>1. /\ UNCHANGED <<running, callers, todo, shared, newBuffer1, newBuffer2, written, output, history>>
          /\ pc = "write" /\ pc' = "refill"
          /\ buffersToWrite' = IF Len(buffersToWrite) > 2 THEN SubSeq(buffersToWrite, 1, 2) ELSE buffersToWrite
      BY <1>1 DEF AllWritten
    <2>2. /\ buffersToWrite' \in Seq(Buffer)
          /\ Len(buffersToWrite') = IF Len(buffersToWrite) > 2 THEN 2 ELSE Len(buffersToWrite)
      <3>1. CASE Len(buffersToWrite) > 2
        <4>1. 1 \in 1 .. Len(buffersToWrite) + 1 /\ 2 \in 1 - 1 .. Len(buffersToWrite) /\ (2 - 1) + 1 = 2
          BY <1>0, <3>1
        <4> QED
          BY <1>0, <2>1, <3>1, <4>1, PartType
      <3>2. CASE ~(Len(buffersToWrite) > 2)
        BY <1>0, <2>1, <3>2
      <3> QED
        BY <3>1, <3>2
    <2>3. TypeOK'
      BY <2>1, <2>2 DEF TypeOK, callers, shared, output, history
    <2>4. SparesUsed'
      BY <1>0, <2>1, <2>2 DEF SparesUsed, shared
    <2> QED
      BY <2>1, <2>3, <2>4 DEF NotBegun, SparesThere, callers
  <1>2. ASSUME Refill PROVE SpareInv'
    <2>0. /\ <<>> \in Seq(Lines) /\ <<>> \in Seq(Seq(Lines)) /\ Len(<<>>) = 0
          /\ <<>> # NoBuffer
      BY EmptySeq
    <2>1. /\ UNCHANGED <<running, callers, todo, shared, count, history>>
          /\ buffersToWrite' = <<>> /\ written' = 0 /\ pc = "refill" /\ pc' = "top"
      BY <1>2 DEF Refill
    <2>2. newBuffer1' = <<>> /\ newBuffer2' = <<>>
      <3>1. newBuffer1 = NoBuffer /\ newBuffer2 \in {<<>>, NoBuffer}
        BY <2>1 DEF SparesUsed
      <3>2. 1 \in Missing /\ (2 \in Missing <=> newBuffer2 = NoBuffer)
        BY <3>1 DEF Missing
      <3> QED
        BY <1>2, <3>1, <3>2 DEF Refill
    <2>3. failures' \in 0 .. MaxFailures /\ file' \in Seq(Lines) /\ stdio' \in Seq(Lines)
      <3>1. PICK b \in BOOLEAN : Broken(b) /\ Flush(stdio, b)
        BY <1>2 DEF Refill
      <3> QED
        BY <3>1, BrokenType, FlushKeeps DEF TypeOK, Buffer
    <2>4. TypeOK'
      BY <2>0, <2>1, <2>2, <2>3 DEF TypeOK, Buffer, callers, shared, history
    <2> QED
      BY <2>1, <2>2, <2>4 DEF NotBegun, SparesThere, SparesUsed, callers, shared
  <1> QED
    BY <1>1, <1>2

LEMMA NextSpares ==
    ASSUME SpareInv, [Next]_vars
    PROVE  SpareInv'
  <1>1. CASE \/ \E th \in Loggers : LogStarts(th) \/ LatchWait(th) \/ SpuriousWakeup(th)
             \/ Stop
             \/ Stopped \/ JoinFails
    BY <1>1, CallerSpares
  <1>2. CASE \E th \in Appenders : AppendLine(th)
    BY <1>2, AppendSpares
  <1>3. CASE LogThread
    BY <1>3, StepSpares, TakeSpares, DropSpares, WriteSpares, EndSpares DEF LogThread
  <1>4. CASE UNCHANGED vars
    BY <1>4 DEF vars, callers, shared, locals, output, history, SpareInv, TypeOK,
                NotBegun, SparesThere, SparesUsed
  <1> QED
    BY <1>1, <1>2, <1>3, <1>4 DEF Next

LEMMA SparesAlways == Spec => []SpareInv
  <1>1. Init => SpareInv
    BY InitSpares
  <1>2. SpareInv /\ [Next]_vars => SpareInv'
    BY NextSpares
  <1> QED
    BY <1>1, <1>2, PTL DEF Spec

\* The members of AsyncLogging, the locals of threadFunc() and what LogFile keeps
\* have their types.
THEOREM TypeCorrect == Spec => []TypeOK
  <1>1. SpareInv => TypeOK
    BY DEF SpareInv
  <1> QED
    BY <1>1, SparesAlways, PTL

LEMMA PairCardinality == Cardinality({1} \cup {2}) = 2
  <1> DEFINE one == {1}
  <1>1. IsFiniteSet(one) /\ Cardinality(one) = 1
    BY FS_Singleton, Zenon
  <1>2. 2 \notin one
    OBVIOUS
  <1> HIDE DEF one
  <1>3. Cardinality(one \cup {2}) = Cardinality(one) + 1
    BY <1>1, <1>2, FS_AddElement, Zenon
  <1> DEFINE c == Cardinality(one)
             d == Cardinality(one \cup {2})
  <1>4. c = 1 /\ d = c + 1
    BY <1>1, <1>3
  <1> HIDE DEF c, d
  <1>5. d = 2
    BY <1>4
  <1> QED
    BY <1>5, Zenon DEF d, one

\* The assertions of threadFunc() hold: both spare buffers are there and empty
\* when the log thread begins a turn, and after it has written there are as many
\* buffers left as spare ones are missing.
THEOREM SpareBuffersReturnHolds == Spec => []SpareBuffersReturn
  <1>1. ASSUME SpareInv PROVE SpareBuffersReturn
    <2>1. pc \in {"top", "lock", "waiting"} =>
             newBuffer1 = <<>> /\ newBuffer2 = <<>> /\ buffersToWrite = <<>>
      BY <1>1 DEF SpareInv, SparesThere
    <2>2. pc = "write" => buffersToWrite # <<>>
      BY <1>1, EmptySeq DEF SpareInv, SparesUsed, TypeOK
    <2>3. ASSUME pc = "refill" PROVE Cardinality(Missing) <= Len(buffersToWrite)
      <3>1. /\ newBuffer1 = NoBuffer /\ newBuffer2 \in {<<>>, NoBuffer}
            /\ Len(buffersToWrite) >= 1 /\ Len(buffersToWrite) \in Nat
            /\ newBuffer2 = NoBuffer => Len(buffersToWrite) >= 2
        BY <1>1, <2>3, LenProperties DEF SpareInv, SparesUsed, TypeOK
      <3>2. CASE newBuffer2 = NoBuffer
        <4>1. Missing = {1} \cup {2}
          BY <3>1, <3>2 DEF Missing
        <4>2. Cardinality({1} \cup {2}) = 2
          BY PairCardinality, Zenon
        <4> QED
          BY <3>1, <3>2, <4>1, <4>2
      <3>3. CASE newBuffer2 # NoBuffer
        <4>1. Missing = {1}
          BY <3>1, <3>3 DEF Missing
        <4>2. Cardinality({1}) = 1
          BY FS_Singleton, Zenon
        <4> QED
          BY <3>1, <4>1, <4>2
      <3> QED
        BY <3>2, <3>3
    <2> QED
      BY <2>1, <2>2, <2>3 DEF SpareBuffersReturn
  <1> QED
    BY <1>1, SparesAlways, PTL

------------------------------------------------------------------------------
(* What is in the log is what was appended.                                *)

\* Each line is still to be appended by one thread, or it was appended once.
ToAppend ==
    \A th \in Appenders :
        /\ Distinct(todo[th])
        /\ Elements(todo[th]) \cap Elements(appended) = {}
        /\ \A other \in Appenders \ {th} : Elements(todo[th]) \cap Elements(todo[other]) = {}

LogInv == ToAppend /\ Intact(Log, appended, lost)

LEMMA SetOfElements ==
    ASSUME NEW S, NEW s \in Seq(S)
    PROVE  ToSet(s) = Elements(s)
  BY LenProperties DEF ToSet, Elements

LEMMA PendingType ==
    ASSUME TypeOK
    PROVE  Pending \in Seq(Seq(Lines))
  <1>1. buffersToWrite \in Seq(Seq(Lines)) /\ <<>> \in Seq(Seq(Lines))
    BY EmptySeq DEF TypeOK, Buffer
  <1>2. ASSUME pc = "write"
        PROVE  SubSeq(buffersToWrite, written + 1, Len(buffersToWrite)) \in Seq(Seq(Lines))
    <2>1. Len(buffersToWrite) \in Nat /\ written \in 0 .. Len(buffersToWrite)
      BY <1>1, <1>2, LenProperties DEF TypeOK
    <2>2. /\ written + 1 \in 1 .. Len(buffersToWrite) + 1
          /\ Len(buffersToWrite) \in (written + 1) - 1 .. Len(buffersToWrite)
      BY <2>1
    <2> QED
      BY <1>1, <2>2, PartType
  <1> QED
    BY <1>1, <1>2 DEF Pending

LEMMA InitLog == Init => LogInv
  <1> SUFFICES ASSUME Init PROVE LogInv
    OBVIOUS
  <1>1. ToAppend
    <2> SUFFICES ASSUME NEW th \in Appenders
                 PROVE  /\ Distinct(Program[th])
                        /\ \A other \in Appenders \ {th} :
                              Elements(Program[th]) \cap Elements(Program[other]) = {}
      BY EmptyElements DEF Init, ToAppend
    <2> QED
      BY DEF Distinct, Elements
  <1>2. Log = <<>>
    <2>1. /\ file = <<>> /\ stdio = <<>> /\ Pending = <<>> /\ buffers = <<>> /\ currentBuffer = <<>>
      BY DEF Init, Pending
    <2>2. <<>> \o <<>> = <<>>
      BY EmptySeq, ConcatEmptySeq
    <2> QED
      BY <2>1, <2>2, LogIs, FlattenEmpty DEF LogOf
  <1>3. Intact(<<>>, <<>>, {})
    <2>1. InOrder(<<>>, <<>>)
      BY DEF InOrder
    <2> QED
      BY <2>1, EmptyElements DEF Intact
  <1> QED
    BY <1>1, <1>2, <1>3 DEF Init, LogInv

\* The steps that do not move a line.
LEMMA SameLog ==
    ASSUME LogInv, Pending' = Pending, file' \o stdio' = file \o stdio,
           UNCHANGED <<todo, buffers, currentBuffer, appended, lost>>
    PROVE  LogInv'
  <1>1. Log' = Log
    BY LogIs DEF LogOf, Log, Unwritten, Pending
  <1>2. ToAppend'
    BY DEF LogInv, ToAppend
  <1> QED
    BY <1>1, <1>2 DEF LogInv

LEMMA CallerLog ==
    ASSUME SpareInv, LogInv,
           \/ \E th \in Loggers : LogStarts(th) \/ LatchWait(th) \/ SpuriousWakeup(th)
           \/ Stop
           \/ Stopped \/ JoinFails
    PROVE  LogInv'
  <1>1. /\ UNCHANGED <<todo, buffers, currentBuffer, appended, lost, file, stdio, buffersToWrite, written>>
        /\ pc' = pc \/ (pc # "write" /\ pc' # "write")
    BY DEF LogStarts, LatchWait, SpuriousWakeup, Stop, Stopped, JoinFails, shared, locals, output, history,
           SpareInv, NotBegun
  <1>2. Pending' = Pending
    BY <1>1 DEF Pending
  <1> QED
    BY <1>1, <1>2, SameLog

LEMMA StepLog ==
    ASSUME SpareInv, LogInv, Begin \/ Top \/ Wait \/ AllWritten \/ Refill
    PROVE  LogInv'
  <1>1. UNCHANGED <<todo, buffers, currentBuffer, appended, lost>>
    BY DEF Begin, Top, Wait, AllWritten, Refill, shared, history
  <1>2. Pending' = Pending
    <2>1. CASE Begin \/ Top \/ Wait \/ Refill
      BY <2>1 DEF Begin, Top, Wait, Refill, Pending
    <2>2. CASE AllWritten
      <3>1. pc = "write" /\ pc' = "refill" /\ written = Len(buffersToWrite)
        BY <2>2 DEF AllWritten
      <3>2. Len(buffersToWrite) \in Nat
        BY LenProperties DEF SpareInv, TypeOK
      <3>3. SubSeq(buffersToWrite, written + 1, Len(buffersToWrite)) = <<>>
        BY <3>1, <3>2, SubSeqEmpty
      <3> QED
        BY <3>1, <3>3 DEF Pending
    <2> QED
      BY <2>1, <2>2
  <1>3. file' \o stdio' = file \o stdio
    <2>0. stdio \in Seq(Lines) /\ file \in Seq(Lines)
      BY DEF SpareInv, TypeOK, Buffer
    <2>1. \/ UNCHANGED <<file, stdio>>
          \/ \E b \in BOOLEAN : Flush(stdio, b)
      BY DEF Begin, Top, Wait, AllWritten, Refill, output
    <2> QED
      BY <2>0, <2>1, FlushKeeps
  <1> QED
    BY <1>1, <1>2, <1>3, SameLog

LEMMA TakeLog ==
    ASSUME SpareInv, SpareInv', LogInv, TakeBuffers
    PROVE  LogInv'
  <1>1. /\ newBuffer1 = <<>> /\ buffersToWrite = <<>> /\ pc # "write"
    BY DEF SpareInv, SparesThere, TakeBuffers, WaitEnds
  <1>2. /\ buffersToWrite' = Append(buffers, currentBuffer) /\ buffers' = <<>>
        /\ currentBuffer' = <<>> /\ written' = 0 /\ pc' = "write"
        /\ UNCHANGED <<todo, file, stdio, appended, lost>>
    BY <1>1 DEF TakeBuffers, GiveBack, output, history
  <1>3. Pending = <<>> /\ Pending' = Append(buffers, currentBuffer)
    <2>1. SubSeq(buffersToWrite', 1, Len(buffersToWrite')) = buffersToWrite'
      BY SubSeqFull DEF SpareInv, TypeOK
    <2>2. 0 + 1 = 1
      OBVIOUS
    <2> QED
      BY <1>1, <1>2, <2>1, <2>2 DEF Pending
  <1>4. Log' = Log
    <2>1. /\ file \in Seq(Lines) /\ stdio \in Seq(Lines) /\ buffers \in Seq(Seq(Lines))
          /\ currentBuffer \in Seq(Lines)
      BY DEF SpareInv, TypeOK, Buffer
    <2>2. Log' = LogOf(file', stdio', Pending', buffers', currentBuffer')
      BY DEF Log, Unwritten, LogOf, Pending
    <2> QED
      BY <1>2, <1>3, <2>1, <2>2, LogIs, LogOfTake
  <1>5. ToAppend'
    BY <1>2 DEF LogInv, ToAppend
  <1> QED
    BY <1>2, <1>4, <1>5 DEF LogInv

\* The next line of a thread has not been appended, nor is it another thread's.
LEMMA NextLine ==
    ASSUME SpareInv, ToAppend, NEW th \in Appenders, AppendLine(th)
    PROVE  /\ Head(todo[th]) \in Lines /\ Head(todo[th]) \notin Elements(appended)
           /\ appended' = Append(appended, Head(todo[th]))
           /\ ToAppend'
  <1> DEFINE line == Head(todo[th])
             rest == Tail(todo[th])
  <1>1. todo[th] \in Seq(Lines) /\ todo[th] # <<>> /\ todo \in [Appenders -> Seq(Lines)]
    BY DEF AppendLine, SpareInv, TypeOK
  <1>2. /\ appended' = Append(appended, line)
        /\ todo' = [todo EXCEPT ![th] = rest]
    BY DEF AppendLine
  <1>3. /\ line \in Lines
        /\ Elements(todo[th]) = {line} \cup Elements(rest)
        /\ Distinct(rest) /\ line \notin Elements(rest)
    BY <1>1, HeadTailProperties, TailElements DEF ToAppend
  <1>4. line \notin Elements(appended)
    BY <1>3 DEF ToAppend
  <1>5. Elements(appended') = Elements(appended) \cup {line}
    BY <1>2, <1>3, AppendElements DEF SpareInv, TypeOK, Buffer
  <1> HIDE DEF line, rest
  <1>6. todo'[th] = rest /\ \A other \in Appenders \ {th} : todo'[other] = todo[other]
    BY <1>1, <1>2
  <1>7. \A other \in Appenders : Elements(todo'[other]) \subseteq Elements(todo[other])
    BY <1>3, <1>6
  <1>8. ASSUME NEW other \in Appenders
        PROVE  /\ Distinct(todo'[other])
               /\ Elements(todo'[other]) \cap Elements(appended') = {}
               /\ \A third \in Appenders \ {other} :
                     Elements(todo'[other]) \cap Elements(todo'[third]) = {}
    <2>1. Distinct(todo'[other])
      BY <1>3, <1>6 DEF ToAppend
    <2>2. line \notin Elements(todo'[other])
      BY <1>3, <1>6 DEF ToAppend
    <2>3. Elements(todo'[other]) \cap Elements(appended') = {}
      <3>1. Elements(todo[other]) \cap Elements(appended) = {}
        BY DEF ToAppend
      <3>2. Elements(todo'[other]) \subseteq Elements(todo[other])
        BY <1>7
      <3> QED
        BY <1>5, <2>2, <3>1, <3>2, Zenon
    <2>4. \A third \in Appenders \ {other} :
             Elements(todo'[other]) \cap Elements(todo'[third]) = {}
      BY <1>7, Zenon DEF ToAppend
    <2> QED
      BY <2>1, <2>3, <2>4
  <1>9. ToAppend'
    BY <1>8 DEF ToAppend
  <1> QED
    BY <1>2, <1>3, <1>4, <1>9 DEF line

LEMMA AppendLog ==
    ASSUME SpareInv, LogInv, NEW th \in Appenders, AppendLine(th)
    PROVE  LogInv'
  <1> DEFINE line == Head(todo[th])
             fits == line \notin TooLong
  <1>1. /\ line \in Lines /\ line \notin Elements(appended)
        /\ appended' = Append(appended, line) /\ ToAppend'
    BY NextLine DEF LogInv
  <1>2. /\ lost' = IF fits THEN lost ELSE lost \cup {line}
        /\ IF fits /\ Len(currentBuffer) < Room
           THEN /\ currentBuffer' = Append(currentBuffer, line)
                /\ buffers' = buffers
           ELSE /\ buffers' = Append(buffers, currentBuffer)
                /\ currentBuffer' = IF fits THEN <<line>> ELSE <<>>
        /\ file' = file /\ stdio' = stdio /\ Pending' = Pending
    BY DEF AppendLine, PutAside, Pending, locals, output
  <1>3. /\ file \in Seq(Lines) /\ stdio \in Seq(Lines) /\ buffers \in Seq(Seq(Lines))
        /\ currentBuffer \in Seq(Lines) /\ appended \in Seq(Lines) /\ <<>> \in Seq(Lines)
    BY EmptySeq DEF SpareInv, TypeOK, Buffer
  <1>4. Pending \in Seq(Seq(Lines))
    BY PendingType DEF SpareInv
  <1> DEFINE LogWith(bs, cb) == LogOf(file, stdio, Pending, bs, cb)
  <1>5. Log = LogWith(buffers, currentBuffer) /\ Log' = LogWith(buffers', currentBuffer')
    <2>1. Log' = LogOf(file', stdio', Pending', buffers', currentBuffer')
      BY DEF Log, Unwritten, LogOf, Pending
    <2> QED
      BY <1>2, <2>1, LogIs
  <1>6. Log \in Seq(Lines)
    BY <1>3, <1>4, <1>5, LogOfType
  <1>7. LogWith(Append(buffers, currentBuffer), <<>>) = Log
    BY <1>3, <1>4, <1>5, LogOfPutAside
  <1>8. LogWith(Append(buffers, currentBuffer), <<line>>) = Append(Log, line)
    <2> DEFINE bs == Append(buffers, currentBuffer)
    <2>1. bs \in Seq(Seq(Lines)) /\ Append(<<>>, line) = <<line>>
      BY <1>3, AppendProperties
    <2> HIDE DEF bs, line
    <2>2. Appends(file, stdio, Pending, bs, <<>>, line)
      BY <1>1, <1>3, <1>4, <2>1, LogOfAppend, Zenon
    <2> QED
      BY <1>7, <2>1, <2>2 DEF Appends, bs
  <1>9. LogWith(buffers, Append(currentBuffer, line)) = Append(Log, line)
    <2> HIDE DEF line
    <2>1. Appends(file, stdio, Pending, buffers, currentBuffer, line)
      BY <1>1, <1>3, <1>4, LogOfAppend, Zenon
    <2> QED
      BY <1>5, <2>1 DEF Appends
  <1> HIDE DEF line, LogWith
  <1>10. Intact(Log, appended, lost)
    BY DEF LogInv
  <1>11. CASE fits
    <2>1. Log' = Append(Log, line) /\ lost' = lost
      BY <1>2, <1>5, <1>8, <1>9, <1>11
    <2>2. Intact(Append(Log, line), Append(appended, line), lost)
      BY <1>1, <1>3, <1>6, <1>10, IntactAppend
    <2> QED
      BY <1>1, <2>1, <2>2 DEF LogInv
  <1>12. CASE ~fits
    <2>1. Log' = Log /\ lost' = lost \cup {line}
      BY <1>2, <1>5, <1>7, <1>12
    <2>2. Intact(Log, Append(appended, line), lost \cup {line})
      BY <1>1, <1>3, <1>6, <1>10, IntactSkip
    <2> QED
      BY <1>1, <2>1, <2>2 DEF LogInv
  <1> QED
    BY <1>11, <1>12

LEMMA DropLog ==
    ASSUME SpareInv, LogInv, Drop
    PROVE  LogInv'
  <1> DEFINE n == Len(buffersToWrite)
             kept == SubSeq(buffersToWrite, 1, Kept)
             rest == SubSeq(buffersToWrite, Kept + 1, n)
  <1>1. /\ pc = "write" /\ written = 0 /\ n > MaxBacklog
        /\ buffersToWrite' = kept /\ lost' = lost \cup LinesOf(rest)
        /\ UNCHANGED <<pc, written, todo, file, stdio, buffers, currentBuffer, appended>>
    BY DEF Drop, shared, output
  <1>2. buffersToWrite \in Seq(Seq(Lines)) /\ n \in Nat /\ n > 2
    BY <1>1, LenProperties DEF SpareInv, TypeOK, Buffer
  <1>3. kept \in Seq(Seq(Lines)) /\ rest \in Seq(Seq(Lines))
    <2>1. /\ 1 \in 1 .. n + 1 /\ Kept \in 1 - 1 .. n
          /\ Kept + 1 \in 1 .. n + 1 /\ n \in (Kept + 1) - 1 .. n
      BY <1>2
    <2> QED
      BY <1>2, <2>1, PartType
  <1>4. Pending = kept \o rest
    <2>1. 1 \in 1 .. n + 1 /\ Kept \in 1 - 1 .. n /\ n \in Kept .. n /\ 0 + 1 = 1
      BY <1>2
    <2>2. kept \o rest = SubSeq(buffersToWrite, 1, n)
      BY <1>2, <2>1, ConcatAdjacentSubSeq
    <2> QED
      BY <1>1, <2>1, <2>2 DEF Pending
  <1>5. Pending' = kept
    <2>1. SubSeq(kept, 1, Len(kept)) = kept /\ 0 + 1 = 1
      <3> HIDE DEF kept
      <3> QED
        BY <1>3, SubSeqFull
    <2> QED
      BY <1>1, <2>1 DEF Pending
  <1>6. /\ file \in Seq(Lines) /\ stdio \in Seq(Lines) /\ buffers \in Seq(Seq(Lines))
        /\ currentBuffer \in Seq(Lines) /\ appended \in Seq(Lines)
    BY DEF SpareInv, TypeOK, Buffer
  <1> HIDE DEF n, kept, rest
  <1>7. /\ Log = LogOf(file, stdio, kept \o rest, buffers, currentBuffer)
        /\ Log' = LogOf(file, stdio, kept, buffers, currentBuffer)
    <2>1. Log' = LogOf(file', stdio', Pending', buffers', currentBuffer')
      BY DEF Log, Unwritten, LogOf, Pending
    <2> QED
      BY <1>1, <1>4, <1>5, <2>1, LogIs
  <1>8. PICK a, b \in Seq(Lines) : Log = a \o (FlattenSeq(rest) \o b) /\ Log' = a \o b
    <2>1. Without(LogOf(file, stdio, kept, buffers, currentBuffer),
                  LogOf(file, stdio, kept \o rest, buffers, currentBuffer), FlattenSeq(rest))
      BY <1>3, <1>6, LogOfDrop, Zenon
    <2> QED
      BY <1>7, <2>1, Zenon DEF Without
  <1>9. FlattenSeq(rest) \in Seq(Lines)
    BY <1>3, FlattenType
  <1>10. LinesOf(rest) = Elements(FlattenSeq(rest))
    BY <1>9, SetOfElements DEF LinesOf
  <1>11. Intact(a \o b, appended, lost \cup Elements(FlattenSeq(rest)))
    <2>1. Intact(a \o (FlattenSeq(rest) \o b), appended, lost)
      BY <1>8 DEF LogInv
    <2> QED
      BY <1>6, <1>9, <2>1, IntactDrop, Zenon
  <1>12. ToAppend'
    BY <1>1 DEF LogInv, ToAppend
  <1> QED
    BY <1>1, <1>8, <1>10, <1>11, <1>12 DEF LogInv

LEMMA WriteLog ==
    ASSUME SpareInv, LogInv, WriteBuffer
    PROVE  LogInv'
  <1> DEFINE k == Len(buffersToWrite)
             data == buffersToWrite[written + 1]
             others == SubSeq(buffersToWrite, written + 2, k)
  <1>1. /\ pc = "write" /\ written < k /\ written' = written + 1
        /\ UNCHANGED <<pc, todo, buffersToWrite, buffers, currentBuffer, appended>>
    BY DEF WriteBuffer, shared
  <1>2. /\ buffersToWrite \in Seq(Seq(Lines)) /\ k \in Nat
        /\ written \in Nat /\ written + 1 \in 1 .. k
    <2>1. buffersToWrite \in Seq(Seq(Lines)) /\ k \in Nat /\ written \in 0 .. k
      BY <1>1, LenProperties DEF SpareInv, TypeOK, Buffer
    <2> QED
      BY <1>1, <2>1
  <1>3. data \in Seq(Lines) /\ Len(data) \in Nat
    BY <1>2, ElementOfSeq, LenProperties
  <1>4. others \in Seq(Seq(Lines))
    <2>1. written + 2 \in 1 .. k + 1 /\ k \in (written + 2) - 1 .. k
      BY <1>2
    <2> QED
      BY <1>2, <2>1, PartType
  <1>5. Pending = <<data>> \o others /\ Pending' = others
    <2>1. k \in written + 1 .. k /\ (written + 1) + 1 = written + 2
      BY <1>2
    <2>2. SubSeq(buffersToWrite, written + 1, k) = <<data>> \o others
      BY <1>2, <2>1, SubSeqRecursiveFirst
    <2> QED
      BY <1>1, <2>1, <2>2 DEF Pending
  <1>6. PICK b \in BOOLEAN, n \in 0 .. Len(data) : Writes(data, n, b)
    BY WritesData
  <1> DEFINE head == SubSeq(data, 1, n)
             rest == SubSeq(data, n + 1, Len(data))
  <1>7. head \in Seq(Lines) /\ rest \in Seq(Lines) /\ data = head \o rest
    <2> HIDE DEF data
    <2> QED
      BY <1>3, TwoParts
  <1>8. /\ file \in Seq(Lines) /\ stdio \in Seq(Lines) /\ buffers \in Seq(Seq(Lines))
        /\ currentBuffer \in Seq(Lines) /\ appended \in Seq(Lines)
    BY DEF SpareInv, TypeOK, Buffer
  <1>9. Flush(stdio \o head, b \/ ~MustFlush) /\ lost' = lost \cup ToSet(rest)
    BY <1>6 DEF Writes, AppendFile
  <1> HIDE DEF k, data, others, head, rest
  <1>10. file' \o stdio' = file \o (stdio \o head)
    <2>1. stdio \o head \in Seq(Lines) /\ (b \/ ~MustFlush) \in BOOLEAN
      BY <1>7, <1>8, ConcatProperties
    <2> QED
      BY <1>8, <1>9, <2>1, FlushKeeps
  <1>11. /\ Log = LogOf(file, stdio, <<head \o rest>> \o others, buffers, currentBuffer)
         /\ Log' = LogOf(file', stdio', others, buffers, currentBuffer)
    <2>1. Log' = LogOf(file', stdio', Pending', buffers', currentBuffer')
      BY DEF Log, Unwritten, LogOf, Pending
    <2> QED
      BY <1>1, <1>5, <1>7, <2>1, LogIs
  <1>12. PICK u, v \in Seq(Lines) : Log = u \o (rest \o v) /\ Log' = u \o v
    <2>1. Without(LogOf(file', stdio', others, buffers, currentBuffer),
                  LogOf(file, stdio, <<head \o rest>> \o others, buffers, currentBuffer), rest)
      BY <1>4, <1>7, <1>8, <1>10, LogOfWrite, Zenon
    <2> QED
      BY <1>11, <2>1, Zenon DEF Without
  <1>13. ToSet(rest) = Elements(rest)
    BY <1>7, SetOfElements
  <1>14. Intact(u \o v, appended, lost \cup Elements(rest))
    <2>1. Intact(u \o (rest \o v), appended, lost)
      BY <1>12 DEF LogInv
    <2> QED
      BY <1>7, <1>8, <2>1, IntactDrop, Zenon
  <1>15. ToAppend'
    BY <1>1 DEF LogInv, ToAppend
  <1> QED
    BY <1>1, <1>9, <1>12, <1>13, <1>14, <1>15 DEF LogInv

LEMMA NextLog ==
    ASSUME SpareInv, SpareInv', LogInv, [Next]_vars
    PROVE  LogInv'
  <1>1. CASE \/ \E th \in Loggers : LogStarts(th) \/ LatchWait(th) \/ SpuriousWakeup(th)
             \/ Stop
             \/ Stopped \/ JoinFails
    BY <1>1, CallerLog
  <1>2. CASE \E th \in Appenders : AppendLine(th)
    BY <1>2, AppendLog
  <1>3. CASE LogThread
    BY <1>3, StepLog, TakeLog, DropLog, WriteLog DEF LogThread
  <1>4. CASE UNCHANGED vars
    BY <1>4, SameLog DEF vars, callers, shared, locals, output, history, Pending
  <1> QED
    BY <1>1, <1>2, <1>3, <1>4 DEF Next

\* On the way from append() to the file no line is repeated, none overtakes
\* another, and none gets lost but those that threadFunc() drops with a backlog,
\* those that a failing file does not take and those too long for a buffer.
THEOREM LogIntactHolds == Spec => []LogIntact
  <1>1. Init => SpareInv /\ LogInv
    BY InitSpares, InitLog
  <1>2. SpareInv /\ LogInv /\ [Next]_vars => SpareInv' /\ LogInv'
    BY NextSpares, NextLog
  <1>3. ASSUME SpareInv, LogInv PROVE LogIntact
    <2>1. TypeOK /\ appended \in Seq(Lines)
      BY <1>3 DEF SpareInv, TypeOK, Buffer
    <2>2. Log \in Seq(Lines)
      <3>1. /\ file \in Seq(Lines) /\ stdio \in Seq(Lines) /\ buffers \in Seq(Seq(Lines))
            /\ currentBuffer \in Seq(Lines)
        BY <2>1 DEF TypeOK, Buffer
      <3> QED
        BY <2>1, <3>1, LogIs, PendingType, LogOfType
    <2>3. ToSet(Log) = Elements(Log) /\ ToSet(appended) = Elements(appended)
      BY <2>1, <2>2, SetOfElements
    <2> QED
      BY <1>3, <2>1, <2>3, Zenon DEF LogInv, Intact, InOrder, LogIntact
  <1> QED
    BY <1>1, <1>2, <1>3, PTL DEF Spec

------------------------------------------------------------------------------
(* The digits of an integer.  Reversed is a recursive function: it is the  *)
(* one whose values for the integers nearer to zero than n, for every n,   *)
(* follow from each other.                                                 *)

Nearer(n) == {v \in Int : -n < v /\ v < n}
FirstDigits(f, v) ==
    <<Magnitude(LastDigit(v))>> \o (IF Tenth(v) = 0 THEN <<>> ELSE f[Tenth(v)])
GivesDigits(n, f) == f = [v \in Nearer(n) |-> FirstDigits(f, v)]

\* C's quotient and remainder by ten, of either sign, and that a tenth is nearer to 0.
LEMMA TenthIs ==
    ASSUME NEW v \in Int
    PROVE  /\ Tenth(v) \in Int /\ LastDigit(v) \in Int /\ v = 10 * Tenth(v) + LastDigit(v)
           /\ LastDigit(v) \in -9 .. 9
           /\ v < 0 => LastDigit(v) <= 0 /\ Tenth(v) <= 0
           /\ v >= 0 => LastDigit(v) >= 0 /\ Tenth(v) >= 0
           /\ \A n \in Int : v \in Nearer(n + 1) => Tenth(v) = 0 \/ Tenth(v) \in Nearer(n)
  <1> DEFINE q == v \div 10
             r == v % 10
             t == Tenth(v)
             d == LastDigit(v)
  <1>1. q \in Int /\ r \in 0 .. 9 /\ v = 10 * q + r
    OBVIOUS
  <1>2. t = IF v < 0 /\ r # 0 THEN q + 1 ELSE q
    BY DEF Tenth
  <1>3. d = v - 10 * t
    BY DEF LastDigit
  <1> HIDE DEF q, r, t, d
  <1>4. t \in Int /\ d \in Int /\ v = 10 * t + d
    BY <1>1, <1>2, <1>3
  <1>5. v < 0 => d \in -9 .. 0 /\ t <= 0
    BY <1>1, <1>2, <1>3
  <1>6. v >= 0 => d \in 0 .. 9 /\ t >= 0
    BY <1>1, <1>2, <1>3
  <1>7. ASSUME NEW n \in Int, v \in Nearer(n + 1), t # 0
        PROVE  t \in Nearer(n)
    <2>1. -(n + 1) < v /\ v < n + 1
      BY <1>7 DEF Nearer
    <2>2. -n < t /\ t < n
      <3>1. CASE v < 0
        BY <1>4, <1>5, <1>7, <2>1, <3>1
      <3>2. CASE v >= 0
        BY <1>4, <1>6, <1>7, <2>1, <3>2
      <3> QED
        BY <3>1, <3>2
    <2> QED
      BY <1>4, <2>2 DEF Nearer
  <1> QED
    BY <1>4, <1>5, <1>6, <1>7 DEF t, d

\* The equation of Reversed has a solution for the numbers nearer to 0 than any n,
LEMMA DigitsExist == \A n \in Nat : \E f : GivesDigits(n, f)
  <1> DEFINE T == {n \in Nat : ~\E f : GivesDigits(n, f)}
  <1> SUFFICES ASSUME T # {} PROVE FALSE
    OBVIOUS
  <1>1. PICK m \in T : \A n \in T : m <= n
    <2>1. T \in SUBSET Nat
      OBVIOUS
    <2> HIDE DEF T
    <2> QED
      BY <2>1, LeastNatural
  <1>2. m \in Nat /\ ~\E f : GivesDigits(m, f)
    OBVIOUS
  <1>3. m # 0
    <2> DEFINE f == [v \in Nearer(0) |-> 0]
    <2>1. Nearer(0) = {}
      BY DEF Nearer
    <2>2. GivesDigits(0, f)
      BY <2>1 DEF GivesDigits
    <2> QED
      BY <1>2, <2>2
  <1>4. PICK f : GivesDigits(m - 1, f)
    <2>1. m - 1 \in Nat /\ ~(m <= m - 1)
      BY <1>2, <1>3
    <2>2. m - 1 \notin T
      <3> HIDE DEF T
      <3> QED
        BY <1>1, <2>1
    <2> QED
      BY <2>1, <2>2
  <1> DEFINE g == [v \in Nearer(m) |-> FirstDigits(f, v)]
  <1>5. \A v \in Nearer(m - 1) : g[v] = f[v] /\ v \in Nearer(m)
    <2>1. \A v \in Nearer(m - 1) : v \in Nearer(m)
      BY <1>2 DEF Nearer
    <2>2. \A v \in Nearer(m - 1) : f[v] = FirstDigits(f, v)
      <3> DEFINE h == [v \in Nearer(m - 1) |-> FirstDigits(f, v)]
      <3>1. f = h
        BY <1>4 DEF GivesDigits
      <3>2. \A v \in Nearer(m - 1) : h[v] = FirstDigits(f, v)
        OBVIOUS
      <3> HIDE DEF h
      <3> QED
        BY <3>1, <3>2, Zenon
    <2> QED
      BY <2>1, <2>2
  <1>6. \A v \in Nearer(m) : FirstDigits(f, v) = FirstDigits(g, v)
    <2> SUFFICES ASSUME NEW v \in Nearer(m) PROVE FirstDigits(f, v) = FirstDigits(g, v)
      OBVIOUS
    <2>1. v \in Int /\ m - 1 \in Int /\ (m - 1) + 1 = m
      BY <1>2 DEF Nearer
    <2>2. Tenth(v) = 0 \/ Tenth(v) \in Nearer(m - 1)
      <3> DEFINE n == m - 1
      <3>1. n \in Int /\ n + 1 = m
        BY <2>1
      <3> HIDE DEF n
      <3>2. v \in Nearer(n + 1)
        BY <3>1
      <3>3. Tenth(v) = 0 \/ Tenth(v) \in Nearer(n)
        BY <2>1, <3>1, <3>2, TenthIs
      <3> QED
        BY <3>3 DEF n
    <2> HIDE DEF g
    <2> QED
      BY <1>5, <2>2 DEF FirstDigits
  <1>7. g = [v \in Nearer(m) |-> FirstDigits(g, v)]
    BY <1>6
  <1> HIDE DEF g
  <1> QED
    BY <1>2, <1>7 DEF GivesDigits

LEMMA DigitsAre ==
    ASSUME NEW n \in Nat, NEW f, GivesDigits(n, f), NEW v \in Nearer(n)
    PROVE  f[v] = FirstDigits(f, v)
  <1> DEFINE h == [x \in Nearer(n) |-> FirstDigits(f, x)]
  <1>1. f = h
    BY DEF GivesDigits
  <1>2. h[v] = FirstDigits(f, v)
    OBVIOUS
  <1> HIDE DEF h
  <1> QED
    BY <1>1, <1>2, Zenon

AgreeOn(f, g, n) == \A v \in Nearer(n) : f[v] = g[v]

\* and any two solutions agree where both are defined.
LEMMA DigitsAgree ==
    ASSUME NEW n \in Nat, NEW k \in Nat, NEW f, NEW g, GivesDigits(n, f), GivesDigits(k, g)
    PROVE  \A m \in Nat : m <= n /\ m <= k => AgreeOn(f, g, m)
  <1> DEFINE T == {m \in Nat : m <= n /\ m <= k /\ ~AgreeOn(f, g, m)}
  <1> SUFFICES ASSUME T # {} PROVE FALSE
    OBVIOUS
  <1>1. PICK m \in T : \A i \in T : m <= i
    <2>1. T \in SUBSET Nat
      OBVIOUS
    <2> HIDE DEF T
    <2> QED
      BY <2>1, LeastNatural
  <1>2. m \in Nat /\ m <= n /\ m <= k /\ ~AgreeOn(f, g, m)
    OBVIOUS
  <1>3. PICK v \in Nearer(m) : f[v] # g[v]
    BY <1>2 DEF AgreeOn
  <1> DEFINE p == m - 1
  <1>4. v \in Int /\ p \in Nat /\ p + 1 = m /\ p <= n /\ p <= k /\ ~(m <= p)
    BY <1>2, <1>3 DEF Nearer
  <1>5. p \notin T
    <2> HIDE DEF T, p
    <2> QED
      BY <1>1, <1>4
  <1>6. AgreeOn(f, g, p)
    BY <1>4, <1>5
  <1> HIDE DEF T, p
  <1>7. v \in Nearer(n) /\ v \in Nearer(k)
    BY <1>2, <1>3 DEF Nearer
  <1>8. f[v] = FirstDigits(f, v) /\ g[v] = FirstDigits(g, v)
    BY <1>7, DigitsAre
  <1>9. Tenth(v) = 0 \/ Tenth(v) \in Nearer(p)
    <2>1. v \in Nearer(p + 1) /\ p \in Int
      BY <1>3, <1>4
    <2> QED
      BY <1>4, <2>1, TenthIs
  <1>10. FirstDigits(f, v) = FirstDigits(g, v)
    BY <1>6, <1>9 DEF FirstDigits, AgreeOn
  <1> QED
    BY <1>3, <1>8, <1>10

\* The numbers nearer to zero than Size(v) are as near as v, or nearer.
Size(v) == IF v < 0 THEN 1 - v ELSE v + 1

\* So the recursive function Reversed satisfies its equation.
LEMMA ReversedIs == \A v \in Int : Reversed[v] = FirstDigits(Reversed, v)
  <1> DEFINE F(n) == CHOOSE f : GivesDigits(n, f)
             R == [v \in Int |-> F(Size(v))[v]]
  <1>1. \A n \in Nat : GivesDigits(n, F(n))
    BY DigitsExist, Zenon
  <1> HIDE DEF F
  <1>2. ASSUME NEW v \in Int
        PROVE  R[v] = FirstDigits(R, v)
    <2> DEFINE n == Size(v)
               t == Tenth(v)
    <2>1. n \in Nat /\ v \in Nearer(n) /\ n - 1 \in Nat
      BY DEF Size, Nearer
    <2>2. R[v] = FirstDigits(F(n), v)
      <3>1. R[v] = F(n)[v]
        OBVIOUS
      <3> HIDE DEF n, R
      <3> QED
        BY <1>1, <2>1, <3>1, DigitsAre
    <2>3. t # 0 => F(n)[t] = R[t]
      <3> SUFFICES ASSUME t # 0 PROVE F(n)[t] = R[t]
        OBVIOUS
      <3> DEFINE k == Size(t)
      <3>1. t \in Int
        BY TenthIs
      <3>2. t \in Nearer(n - 1)
        <4> DEFINE p == n - 1
        <4>1. p \in Int /\ p + 1 = n
          BY <2>1
        <4> HIDE DEF p, n
        <4>2. v \in Nearer(p + 1)
          BY <2>1, <4>1
        <4>3. t \in Nearer(p)
          BY <4>1, <4>2, TenthIs
        <4> QED
          BY <4>3 DEF p
      <3>3. k \in Nat /\ t \in Nearer(k)
        BY <3>1 DEF Size, Nearer
      <3>4. k <= n
        <4> HIDE DEF n, t
        <4> QED
          BY <2>1, <3>1, <3>2 DEF Size, Nearer
      <3>5. R[t] = F(k)[t]
        BY <3>1
      <3>6. GivesDigits(n, F(n)) /\ GivesDigits(k, F(k))
        BY <1>1, <2>1, <3>3
      <3>7. AgreeOn(F(n), F(k), k)
        <4> HIDE DEF n, k
        <4>1. k <= n /\ k <= k
          BY <2>1, <3>3, <3>4
        <4> QED
          BY <2>1, <3>3, <3>6, <4>1, DigitsAgree, Zenon
      <3> QED
        BY <3>3, <3>5, <3>7 DEF AgreeOn
    <2> HIDE DEF R, n
    <2> QED
      BY <2>2, <2>3 DEF FirstDigits
  <1>3. R = [v \in Int |-> FirstDigits(R, v)]
    <2> DEFINE h == [v \in Int |-> FirstDigits(R, v)]
    <2>1. \A v \in Int : R[v] = h[v]
      BY <1>2
    <2> QED
      BY <2>1
  <1> HIDE DEF R
  <1> DEFINE Is(f) == f = [v \in Int |-> FirstDigits(f, v)]
  <1>4. Is(Reversed)
    <2>1. Is(R)
      BY <1>3
    <2>2. Reversed = CHOOSE f : Is(f)
      BY DEF Reversed, FirstDigits
    <2> HIDE DEF Is
    <2> QED
      BY <2>1, <2>2, Zenon
  <1>5. Reversed = [v \in Int |-> FirstDigits(Reversed, v)]
    BY <1>4
  <1> DEFINE h == [v \in Int |-> FirstDigits(Reversed, v)]
  <1>6. \A v \in Int : h[v] = FirstDigits(Reversed, v)
    OBVIOUS
  <1>7. Reversed = h
    BY <1>5
  <1> HIDE DEF h, Is
  <1> QED
    BY <1>6, <1>7, Zenon

------------------------------------------------------------------------------
(* convert() puts the digits in order: those of a tenth, and the last.      *)

\* Digits are numbers, and there is at least one.
LEMMA ReversedType == \A v \in Int : Reversed[v] \in Seq(Int) /\ Reversed[v] # <<>>
  <1> DEFINE Bad == {v \in Int : ~(Reversed[v] \in Seq(Int) /\ Reversed[v] # <<>>)}
             T == {n \in Nat : \E v \in Bad : n = Size(v)}
  <1> SUFFICES ASSUME NEW x \in Bad PROVE FALSE
    OBVIOUS
  <1>1. \A v \in Int : Size(v) \in Nat
    BY DEF Size
  <1>2. PICK n \in T : \A i \in T : n <= i
    <2>1. T \in SUBSET Nat /\ Size(x) \in T
      BY <1>1
    <2> HIDE DEF T
    <2> QED
      BY <2>1, LeastNatural
  <1>3. PICK v \in Bad : n = Size(v)
    OBVIOUS
  <1>4. v \in Int /\ ~(Reversed[v] \in Seq(Int) /\ Reversed[v] # <<>>)
    OBVIOUS
  <1>0. v \in Int
    BY <1>4
  <1> DEFINE t == Tenth(v)
             m == Magnitude(LastDigit(v))
  <1>5. t # 0 => t \notin Bad
    <2> SUFFICES ASSUME t # 0 PROVE t \notin Bad
      OBVIOUS
    <2> HIDE DEF Bad, T
    <2>1. t \in Int /\ v \in Nearer(Size(v)) /\ Size(v) - 1 \in Int
      <3>1. t \in Int
        BY <1>0, TenthIs
      <3>2. Size(v) \in Int /\ -Size(v) < v /\ v < Size(v)
        BY <1>0 DEF Size
      <3> QED
        BY <1>0, <3>1, <3>2 DEF Nearer
    <2>2. t \in Nearer(Size(v) - 1)
      <3> DEFINE p == Size(v) - 1
      <3>1. p \in Int /\ p + 1 = Size(v)
        <4>1. Size(v) \in Int
          BY <1>0 DEF Size
        <4> QED
          BY <4>1
      <3> HIDE DEF p
      <3>2. v \in Nearer(p + 1)
        BY <2>1, <3>1
      <3>3. t \in Nearer(p)
        BY <1>0, <3>1, <3>2, TenthIs
      <3> QED
        BY <3>3 DEF p
    <2>3. ~(n <= Size(t)) /\ Size(t) \in Nat
      <3> HIDE DEF t
      <3> QED
        BY <1>0, <1>3, <2>1, <2>2 DEF Nearer, Size
    <2>4. Size(t) \notin T
      <3> HIDE DEF t
      <3> QED
        BY <1>2, <2>3
    <2> USE DEF T
    <2> QED
      BY <2>3, <2>4
  <1>6. m \in Int
    <2> DEFINE d == LastDigit(v)
    <2>1. d \in Int
      BY <1>0, TenthIs
    <2> HIDE DEF d
    <2>2. Magnitude(d) \in Int
      BY <2>1 DEF Magnitude
    <2> QED
      BY <2>2 DEF d
  <1> DEFINE rest == IF t = 0 THEN <<>> ELSE Reversed[t]
  <1>7. rest \in Seq(Int)
    <2>1. t \in Int
      BY <1>4, TenthIs
    <2>2. t # 0 => Reversed[t] \in Seq(Int)
      BY <1>5, <2>1
    <2>3. <<>> \in Seq(Int)
      OBVIOUS
    <2> HIDE DEF t
    <2> QED
      BY <2>2, <2>3
  <1>8. Reversed[v] = <<m>> \o rest
    <2>1. Reversed[v] = FirstDigits(Reversed, v)
      BY <1>4, ReversedIs
    <2> QED
      BY <2>1 DEF FirstDigits
  <1> HIDE DEF m, rest
  <1>9. <<m>> \in Seq(Int) /\ Len(<<m>>) = 1
    BY <1>6
  <1>10. <<m>> \o rest \in Seq(Int) /\ Len(<<m>> \o rest) = 1 + Len(rest) /\ Len(rest) \in Nat
    BY <1>7, <1>9, ConcatProperties, LenProperties
  <1>11. <<m>> \o rest # <<>>
    BY <1>10, EmptySeq
  <1> QED
    BY <1>4, <1>8, <1>10, <1>11

\* The elements of a concatenation.
ConcatAt(s, t) ==
    \A i \in 1 .. Len(s) + Len(t) : (s \o t)[i] = IF i <= Len(s) THEN s[i] ELSE t[i - Len(s)]

LEMMA ConcatIs ==
    ASSUME NEW S, NEW s \in Seq(S), NEW t \in Seq(S)
    PROVE  ConcatAt(s, t)
  BY ConcatProperties DEF ConcatAt

Backwards(p) == [i \in DOMAIN p |-> p[(Len(p) + 1) - i]]

\* The first element becomes the last.
LEMMA BackwardsCons ==
    ASSUME NEW m \in Int, NEW p \in Seq(Int)
    PROVE  Backwards(<<m>> \o p) = Append(Backwards(p), m) /\ Backwards(p) \in Seq(Int)
               /\ Len(Backwards(p)) = Len(p)
  <1> DEFINE n == Len(p)
             q == <<m>> \o p
             b == Backwards(p)
             c == Backwards(q)
             a == Append(b, m)
  <1>1. n \in Nat /\ DOMAIN p = 1 .. n /\ \A i \in 1 .. n : p[i] \in Int
    BY LenProperties, ElementOfSeq
  <1>2. <<m>> \in Seq(Int) /\ Len(<<m>>) = 1 /\ <<m>>[1] = m
    OBVIOUS
  <1>3. q \in Seq(Int) /\ Len(q) = n + 1 /\ DOMAIN q = 1 .. n + 1
    BY <1>1, <1>2, ConcatProperties, LenProperties
  <1>4. q[1] = m /\ \A i \in 1 .. n : q[i + 1] = p[i]
    <2>1. \A i \in 1 .. 1 + n : q[i] = IF i <= 1 THEN <<m>>[i] ELSE p[i - 1]
      <3> DEFINE u == <<m>>
      <3>1. u \in Seq(Int) /\ Len(u) = 1
        BY <1>2
      <3> HIDE DEF u
      <3>2. \A i \in 1 .. Len(u) + Len(p) : (u \o p)[i] = IF i <= Len(u) THEN u[i] ELSE p[i - Len(u)]
        <4>1. ConcatAt(u, p)
          BY <3>1, ConcatIs, Zenon
        <4> QED
          BY <4>1, Zenon DEF ConcatAt
      <3>3. \A i \in 1 .. 1 + n : (u \o p)[i] = IF i <= 1 THEN u[i] ELSE p[i - 1]
        BY <3>1, <3>2
      <3> QED
        BY <3>3 DEF u
    <2> HIDE DEF q
    <2>2. 1 \in 1 .. 1 + n /\ \A i \in 1 .. n : i + 1 \in 1 .. 1 + n /\ ~(i + 1 <= 1) /\ (i + 1) - 1 = i
      BY <1>1
    <2> QED
      BY <1>2, <2>1, <2>2, SMTT(30)
  <1>5. \A i \in 1 .. n : (n + 1) - i \in 1 .. n
    BY <1>1
  <1>6. b = [i \in 1 .. n |-> p[(n + 1) - i]]
    BY <1>1 DEF Backwards
  <1>7. b \in [1 .. n -> Int]
    BY <1>1, <1>5, <1>6
  <1>9. \A i \in 1 .. n : b[i] = p[(n + 1) - i]
    BY <1>6
  <1>8. b \in Seq(Int) /\ Len(b) = n
    <2> HIDE DEF b, n, q, c, a
    <2>1. DOMAIN b = 1 .. n
      BY <1>7
    <2>2. b \in Seq(Int)
      BY <1>1, <1>7
    <2> QED
      BY <1>1, <2>1, <2>2, LenProperties
  <1>10. c = [i \in 1 .. n + 1 |-> q[(n + 2) - i]]
    <2>1. (n + 1) + 1 = n + 2
      BY <1>1
    <2> HIDE DEF q
    <2> QED
      BY <1>3, <2>1 DEF Backwards
  <1> HIDE DEF q, b, c
  <1>11. /\ a \in Seq(Int) /\ Len(a) = n + 1 /\ a[n + 1] = m
         /\ \A i \in 1 .. n : a[i] = b[i]
    BY <1>8, AppendProperties
  <1>12. ASSUME NEW i \in 1 .. n + 1
         PROVE  q[(n + 2) - i] = a[i]
    <2>1. CASE i = n + 1
      <3>1. (n + 2) - i = 1
        BY <1>1, <2>1
      <3> QED
        BY <1>4, <1>11, <2>1, <3>1
    <2>2. CASE i # n + 1
      <3> DEFINE j == (n + 1) - i
      <3>1. i \in 1 .. n /\ j \in 1 .. n /\ (n + 2) - i = j + 1
        BY <1>1, <2>2
      <3>2. b[i] = p[j]
        BY <1>9, <3>1
      <3> HIDE DEF j, a
      <3> QED
        BY <1>4, <1>11, <3>1, <3>2
    <2> QED
      BY <2>1, <2>2
  <1> HIDE DEF a
  <1>13. a = [i \in 1 .. n + 1 |-> a[i]]
    <2>1. DOMAIN a = 1 .. n + 1
      BY <1>11, LenProperties
    <2>2. a \in [1 .. n + 1 -> Int]
      BY <1>11, <2>1, ElementOfSeq
    <2> QED
      BY <2>2
  <1>14. c = a
    BY <1>10, <1>12, <1>13
  <1> QED
    BY <1>8, <1>14 DEF q, b, c, a

LEMMA AppendPair ==
    ASSUME NEW a \in Int, NEW b \in Int
    PROVE  Append(<<a>>, b) = <<a, b>>
  <1> DEFINE s == Append(<<a>>, b)
             t == <<a, b>>
  <1>1. <<a>> \in Seq(Int) /\ Len(<<a>>) = 1 /\ <<a>>[1] = a
    OBVIOUS
  <1>2. s \in Seq(Int) /\ Len(s) = 2 /\ s[2] = b /\ s[1] = a
    BY <1>1, AppendProperties
  <1>3. t \in Seq(Int) /\ Len(t) = 2 /\ t[2] = b /\ t[1] = a
    OBVIOUS
  <1> HIDE DEF s, t
  <1>4. \A i \in 1 .. 2 : s[i] = t[i]
    BY <1>2, <1>3
  <1>5. s = t
    BY <1>2, <1>3, <1>4, SeqEqual
  <1> QED
    BY <1>5 DEF s, t

Digit(v) == Magnitude(LastDigit(v))

\* A digit is one, and a number is ten times its tenth and the digit.
LEMMA DigitRange ==
    ASSUME NEW v \in Int
    PROVE  /\ Digit(v) \in 0 .. 9
           /\ v = IF v < 0 THEN 10 * Tenth(v) - Digit(v) ELSE 10 * Tenth(v) + Digit(v)
  <1> DEFINE d == LastDigit(v)
             t == Tenth(v)
  <1>1. /\ t \in Int /\ v = 10 * t + d /\ d \in -9 .. 9
        /\ v < 0 => d <= 0
        /\ v >= 0 => d >= 0
    BY TenthIs
  <1>2. Digit(v) = IF d < 0 THEN -d ELSE d
    BY DEF Digit, Magnitude
  <1> HIDE DEF d, t
  <1>3. Digit(v) \in 0 .. 9
    BY <1>1, <1>2
  <1>4. v = IF v < 0 THEN 10 * t - Digit(v) ELSE 10 * t + Digit(v)
    BY <1>1, <1>2
  <1> QED
    BY <1>3, <1>4 DEF t

ConvertStep(v) ==
    /\ convert(v) \in Seq(Int) /\ Len(convert(v)) \in Nat
    /\ Tenth(v) = 0 => convert(v) = IF v < 0 THEN <<Minus, Digit(v)>> ELSE <<Digit(v)>>
    /\ Tenth(v) # 0 => convert(v) = Append(convert(Tenth(v)), Digit(v))

\* The digits of a number are those of its tenth and one more (LogStream.cc:15-34).
LEMMA ConvertSteps ==
    ASSUME NEW v \in Int
    PROVE  ConvertStep(v)
  <1> DEFINE t == Tenth(v)
             m == Digit(v)
             sign == IF v < 0 THEN <<Minus>> ELSE <<>>
             rest == IF t = 0 THEN <<>> ELSE Reversed[t]
  <1>1. t \in Int /\ m \in Int /\ (v < 0 => t <= 0) /\ (v >= 0 => t >= 0)
    <2>1. t \in Int /\ (v < 0 => t <= 0) /\ (v >= 0 => t >= 0)
      BY TenthIs
    <2>2. m \in 0 .. 9
      BY DigitRange
    <2> HIDE DEF t, m
    <2> QED
      BY <2>1, <2>2
  <1>2. Reversed[v] = <<m>> \o rest
    BY ReversedIs DEF FirstDigits, Digit
  <1>3. sign \in Seq(Int) /\ <<m>> \in Seq(Int)
    <2>1. <<Minus>> \in Seq(Int) /\ <<>> \in Seq(Int)
      BY DEF Minus
    <2> HIDE DEF m
    <2> QED
      BY <1>1, <2>1
  <1>4. rest \in Seq(Int)
    <2> HIDE DEF t
    <2> QED
      BY <1>1, ReversedType
  <1>5. convert(v) = Backwards(Reversed[v] \o sign)
    BY DEF convert, Backwards
  <1> HIDE DEF m, sign, rest
  <1> DEFINE tail == rest \o sign
  <1>6. Reversed[v] \o sign = <<m>> \o tail
    <2>1. Associates(<<m>>, rest, sign)
      BY <1>3, <1>4, ConcatAssociates
    <2> QED
      BY <1>2, <2>1 DEF Associates
  <1>7. tail \in Seq(Int)
    BY <1>3, <1>4, ConcatProperties
  <1> HIDE DEF tail
  <1>8. /\ convert(v) = Append(Backwards(tail), m)
        /\ Backwards(tail) \in Seq(Int)
    BY <1>1, <1>5, <1>6, <1>7, BackwardsCons
  <1>9. convert(v) \in Seq(Int) /\ Len(convert(v)) \in Nat
    <2> DEFINE b == Backwards(tail)
    <2>1. b \in Seq(Int) /\ convert(v) = Append(b, m)
      BY <1>8
    <2> HIDE DEF b
    <2> QED
      BY <1>1, <2>1, AppendProperties, LenProperties
  <1>10. t # 0 => convert(v) = Append(convert(t), m)
    <2> SUFFICES ASSUME t # 0 PROVE convert(v) = Append(convert(t), m)
      OBVIOUS
    <2>1. (v < 0) <=> (t < 0)
      <3> HIDE DEF t
      <3> QED
        BY <1>1
    <2>2. tail = Reversed[t] \o (IF t < 0 THEN <<Minus>> ELSE <<>>)
      BY <2>1 DEF tail, rest, sign
    <2>3. convert(t) = Backwards(tail)
      <3> HIDE DEF t
      <3> QED
        BY <2>2 DEF convert, Backwards
    <2> QED
      BY <1>8, <2>3
  <1>11. t = 0 => convert(v) = IF v < 0 THEN <<Minus, m>> ELSE <<m>>
    <2> SUFFICES ASSUME t = 0 PROVE convert(v) = IF v < 0 THEN <<Minus, m>> ELSE <<m>>
      OBVIOUS
    <2>1. rest = <<>> /\ tail = sign
      <3>1. rest = <<>>
        BY DEF rest
      <3>2. <<>> \o sign = sign
        BY <1>3, ConcatEmptySeq
      <3> QED
        BY <3>1, <3>2 DEF tail
    <2>2. CASE v < 0
      <3>1. tail = <<Minus>>
        BY <2>1, <2>2 DEF sign
      <3>2. Backwards(<<Minus>>) = <<Minus>>
        BY DEF Backwards
      <3>3. Append(<<Minus>>, m) = <<Minus, m>>
        BY <1>1, AppendPair DEF Minus
      <3> QED
        BY <1>8, <2>2, <3>1, <3>2, <3>3
    <2>3. CASE ~(v < 0)
      <3>1. tail = <<>>
        BY <2>1, <2>3 DEF sign
      <3>2. Backwards(<<>>) = <<>>
        BY DEF Backwards
      <3>3. Append(<<>>, m) = <<m>>
        OBVIOUS
      <3> QED
        BY <1>8, <2>3, <3>1, <3>2, <3>3
    <2> QED
      BY <2>2, <2>3
  <1> QED
    BY <1>9, <1>10, <1>11 DEF ConvertStep, m

------------------------------------------------------------------------------
(* What digits stand for: ValueOf reads them from the first to the last.    *)

Begins(p, q, n) == \A i \in 1 .. n : p[i] = q[i]
SameValues(f, g, n) == \A i \in 0 .. n : f[i] = g[i]

HornerStep(p, f, i) ==
    IF i = 0 \/ (i = 1 /\ p[1] = Minus) THEN 0
    ELSE 10 * f[i - 1] + (IF p[1] = Minus THEN -p[i] ELSE p[i])

Values(p, n, f) == f = [i \in 0 .. n |-> HornerStep(p, f, i)]

\* The equation of ValueOf has a solution for every prefix.
LEMMA ValuesExist ==
    ASSUME NEW p \in Seq(Int)
    PROVE  \A n \in Nat : n <= Len(p) => \E f \in [0 .. n -> Int] : Values(p, n, f)
  <1> DEFINE T == {n \in Nat : n <= Len(p) /\ ~\E f \in [0 .. n -> Int] : Values(p, n, f)}
  <1> SUFFICES ASSUME T # {} PROVE FALSE
    OBVIOUS
  <1>1. PICK m \in T : \A n \in T : m <= n
    <2>1. T \in SUBSET Nat
      OBVIOUS
    <2> HIDE DEF T
    <2> QED
      BY <2>1, LeastNatural
  <1>2. m \in Nat /\ m <= Len(p) /\ ~\E f \in [0 .. m -> Int] : Values(p, m, f)
    OBVIOUS
  <1>3. m # 0
    <2> DEFINE f == [i \in 0 .. 0 |-> 0]
    <2>1. \A i \in 0 .. 0 : i = 0
      OBVIOUS
    <2>2. f = [i \in 0 .. 0 |-> HornerStep(p, f, i)] /\ f \in [0 .. 0 -> Int]
      BY <2>1 DEF HornerStep
    <2> HIDE DEF f
    <2>3. Values(p, 0, f)
      BY <2>2 DEF Values
    <2> QED
      BY <1>2, <2>2, <2>3
  <1> DEFINE k == m - 1
  <1>4. k \in Nat /\ k + 1 = m /\ k <= Len(p) /\ ~(m <= k) /\ Len(p) \in Nat
    BY <1>2, <1>3, LenProperties
  <1>5. k \notin T
    <2> HIDE DEF T, k
    <2> QED
      BY <1>1, <1>4
  <1>6. PICK f \in [0 .. k -> Int] : Values(p, k, f)
    BY <1>4, <1>5
  <1> HIDE DEF T, k
  <1> DEFINE g == [i \in 0 .. m |-> HornerStep(p, f, i)]
  <1>7. \A i \in 0 .. k : f[i] = HornerStep(p, f, i) /\ g[i] = f[i]
    <2> DEFINE h == [i \in 0 .. k |-> HornerStep(p, f, i)]
    <2>1. f = h
      BY <1>6 DEF Values
    <2>2. \A i \in 0 .. k : h[i] = HornerStep(p, f, i) /\ i \in 0 .. m
      BY <1>2, <1>4
    <2>3. \A i \in 0 .. k : g[i] = HornerStep(p, f, i)
      BY <2>2
    <2> HIDE DEF h, g
    <2> QED
      BY <2>1, <2>2, <2>3, Zenon
  <1>8. \A i \in 0 .. m : HornerStep(p, f, i) = HornerStep(p, g, i) /\ HornerStep(p, f, i) \in Int
    <2> SUFFICES ASSUME NEW i \in 0 .. m
                 PROVE  HornerStep(p, f, i) = HornerStep(p, g, i) /\ HornerStep(p, f, i) \in Int
      OBVIOUS
    <2> HIDE DEF g
    <2>1. CASE i = 0
      BY <2>1 DEF HornerStep
    <2>2. CASE i # 0
      <3>1. i - 1 \in 0 .. k /\ i \in 1 .. Len(p)
        BY <1>2, <1>4, <2>2
      <3>2. f[i - 1] \in Int /\ g[i - 1] = f[i - 1]
        BY <1>6, <1>7, <3>1
      <3>3. p[i] \in Int
        BY <3>1, ElementOfSeq, SMTT(30)
      <3> QED
        BY <3>2, <3>3 DEF HornerStep
    <2> QED
      BY <2>1, <2>2
  <1>9. g = [i \in 0 .. m |-> HornerStep(p, g, i)] /\ g \in [0 .. m -> Int]
    BY <1>8
  <1> HIDE DEF g
  <1> QED
    BY <1>2, <1>9 DEF Values

ValueAt(p, f, i) == f[i] = HornerStep(p, f, i)

LEMMA ValuesAre ==
    ASSUME NEW p, NEW n \in Nat, NEW f, Values(p, n, f), NEW i \in 0 .. n
    PROVE  ValueAt(p, f, i)
  <1> DEFINE h == [j \in 0 .. n |-> HornerStep(p, f, j)]
  <1>1. f = h
    BY DEF Values
  <1>2. h[i] = HornerStep(p, f, i)
    OBVIOUS
  <1> HIDE DEF h
  <1> QED
    BY <1>1, <1>2, Zenon DEF ValueAt

\* The values for a sequence and for one that goes on after it are the same.
LEMMA ValuesAgree ==
    ASSUME NEW p, NEW q, NEW n \in Nat, NEW k \in Nat, n <= k, NEW f, NEW g,
           Values(p, n, f), Values(q, k, g), Begins(p, q, n)
    PROVE  SameValues(f, g, n)
  <1> DEFINE T == {i \in 0 .. n : f[i] # g[i]}
  <1> SUFFICES ASSUME T # {} PROVE FALSE
    BY DEF SameValues
  <1>1. PICK m \in T : \A i \in T : m <= i
    <2>1. T \in SUBSET Nat
      OBVIOUS
    <2> HIDE DEF T
    <2> QED
      BY <2>1, LeastNatural
  <1>2. m \in 0 .. n /\ f[m] # g[m]
    OBVIOUS
  <1>3. f[m] = HornerStep(p, f, m) /\ g[m] = HornerStep(q, g, m)
    <2>1. m \in 0 .. k
      BY <1>2
    <2> QED
      BY <1>2, <2>1, ValuesAre DEF ValueAt
  <1>4. m # 0
    BY <1>2, <1>3 DEF HornerStep
  <1> DEFINE j == m - 1
  <1>5. j \in 0 .. n /\ ~(m <= j) /\ m \in 1 .. n /\ 1 \in 1 .. n
    BY <1>2, <1>4
  <1>6. f[j] = g[j]
    <2>1. j \notin T
      <3> HIDE DEF T, j
      <3> QED
        BY <1>1, <1>5
    <2> QED
      BY <1>5, <2>1
  <1>7. p[m] = q[m] /\ p[1] = q[1]
    BY <1>5 DEF Begins
  <1>8. HornerStep(p, f, m) = HornerStep(q, g, m)
    BY <1>6, <1>7 DEF HornerStep
  <1> QED
    BY <1>2, <1>3, <1>8

HasValue(p) == \E f \in [0 .. Len(p) -> Int] : Values(p, Len(p), f) /\ ValueOf(p) = f[Len(p)]

\* So ValueOf is the last value of one.
LEMMA ValueOfIs ==
    ASSUME NEW p \in Seq(Int)
    PROVE  HasValue(p)
  <1> DEFINE n == Len(p)
             F == CHOOSE f : Values(p, n, f)
  <1>1. n \in Nat /\ n <= n
    BY LenProperties
  <1>2. PICK e \in [0 .. n -> Int] : Values(p, n, e)
    BY <1>1, ValuesExist
  <1>3. Values(p, n, F)
    BY <1>2, Zenon
  <1>4. ValueOf(p) = F[n]
    BY DEF ValueOf, Values, HornerStep
  <1> HIDE DEF F, n
  <1>5. SameValues(e, F, n)
    <2>1. Begins(p, p, n)
      BY DEF Begins
    <2> QED
      BY <1>1, <1>2, <1>3, <2>1, ValuesAgree, Zenon
  <1>6. n \in 0 .. n
    BY <1>1
  <1> QED
    BY <1>2, <1>4, <1>5, <1>6 DEF n, SameValues, HasValue

ReadsOn(p, x) ==
    ValueOf(Append(p, x)) = 10 * ValueOf(p) + (IF p[1] = Minus THEN -x ELSE x)

\* One more digit makes ten times the number and the digit.
LEMMA ValueOfAppend ==
    ASSUME NEW p \in Seq(Int), p # <<>>, NEW x \in Int
    PROVE  ReadsOn(p, x)
  <1> DEFINE n == Len(p)
             q == Append(p, x)
  <1>1. n \in Nat /\ n # 0 /\ n + 1 \in Nat /\ n <= n + 1 /\ n \in 0 .. n
    BY LenProperties, EmptySeq
  <1>2. /\ q \in Seq(Int) /\ Len(q) = n + 1 /\ q[n + 1] = x
        /\ \A i \in 1 .. n : q[i] = p[i]
    BY AppendProperties
  <1> HIDE DEF q
  <1>3. PICK f \in [0 .. n -> Int] : Values(p, n, f) /\ ValueOf(p) = f[n]
    <2>1. HasValue(p)
      BY ValueOfIs, Zenon
    <2> QED
      BY <2>1 DEF HasValue
  <1>4. PICK g \in [0 .. n + 1 -> Int] : Values(q, n + 1, g) /\ ValueOf(q) = g[n + 1]
    <2>1. HasValue(q)
      BY <1>2, ValueOfIs, Zenon
    <2> QED
      BY <1>2, <2>1 DEF HasValue
  <1> HIDE DEF n
  <1>5. f[n] = g[n]
    <2>1. Begins(p, q, n)
      BY <1>2 DEF Begins
    <2> DEFINE k == n + 1
    <2>2. k \in Nat /\ n <= k /\ Values(q, k, g) /\ Values(p, n, f)
      BY <1>1, <1>3, <1>4
    <2> HIDE DEF k
    <2>3. SameValues(f, g, n)
      BY <1>1, <2>1, <2>2, ValuesAgree, Zenon
    <2> USE DEF SameValues
    <2> QED
      BY <1>1, <2>3
  <1>6. g[n + 1] = HornerStep(q, g, n + 1)
    <2>1. n + 1 \in 0 .. n + 1
      BY <1>1
    <2>2. ValueAt(q, g, n + 1)
      BY <1>1, <1>4, <2>1, ValuesAre, Zenon
    <2> QED
      BY <2>2, Zenon DEF ValueAt
  <1>7. n + 1 # 0 /\ n + 1 # 1 /\ (n + 1) - 1 = n /\ q[1] = p[1]
    BY <1>1, <1>2
  <1>8. HornerStep(q, g, n + 1) = 10 * g[n] + (IF p[1] = Minus THEN -x ELSE x)
    BY <1>2, <1>7 DEF HornerStep
  <1> QED
    BY <1>3, <1>4, <1>5, <1>6, <1>8 DEF ReadsOn, q

\* One digit is the number, or its opposite behind a sign.
LEMMA ValueOfFirst ==
    ASSUME NEW m \in 0 .. 9
    PROVE  ValueOf(<<m>>) = m /\ ValueOf(<<Minus, m>>) = -m
  <1> DEFINE p == <<m>>
             q == <<Minus>>
  <1>0. m \in Int /\ m # Minus /\ Minus \in Int
    BY DEF Minus
  <1>1. p \in Seq(Int) /\ Len(p) = 1 /\ p[1] = m
    BY <1>0
  <1>2. q \in Seq(Int) /\ Len(q) = 1 /\ q[1] = Minus /\ q # <<>>
    BY <1>0
  <1>3. 0 \in 0 .. 1 /\ 1 \in 0 .. 1 /\ 1 \in Nat
    OBVIOUS
  <1> HIDE DEF p, q
  <1>4. PICK f \in [0 .. 1 -> Int] : Values(p, 1, f) /\ ValueOf(p) = f[1]
    <2>1. HasValue(p)
      BY <1>1, ValueOfIs, Zenon
    <2> QED
      BY <1>1, <2>1 DEF HasValue
  <1>5. f[0] = HornerStep(p, f, 0) /\ f[1] = HornerStep(p, f, 1)
    <2>1. ValueAt(p, f, 0) /\ ValueAt(p, f, 1)
      BY <1>3, <1>4, ValuesAre, Zenon
    <2> QED
      BY <2>1, Zenon DEF ValueAt
  <1>6. f[0] = 0 /\ f[1] = 10 * f[0] + m
    BY <1>0, <1>1, <1>5 DEF HornerStep
  <1>7. ValueOf(p) = m
    BY <1>0, <1>4, <1>6
  <1>8. PICK g \in [0 .. 1 -> Int] : Values(q, 1, g) /\ ValueOf(q) = g[1]
    <2>1. HasValue(q)
      BY <1>2, ValueOfIs, Zenon
    <2> QED
      BY <1>2, <2>1 DEF HasValue
  <1>9. g[1] = HornerStep(q, g, 1)
    <2>1. ValueAt(q, g, 1)
      BY <1>3, <1>8, ValuesAre, Zenon
    <2> QED
      BY <2>1, Zenon DEF ValueAt
  <1>10. ValueOf(q) = 0
    BY <1>2, <1>8, <1>9 DEF HornerStep
  <1>11. ReadsOn(q, m)
    BY <1>0, <1>2, ValueOfAppend
  <1>12. ValueOf(Append(q, m)) = -m
    BY <1>0, <1>2, <1>10, <1>11 DEF ReadsOn
  <1>13. Append(q, m) = <<Minus, m>>
    BY <1>0, AppendPair DEF q
  <1> QED
    BY <1>7, <1>12, <1>13 DEF p

------------------------------------------------------------------------------
(* The length of pieces is the sum of theirs.                               *)

SumStep(p, f, i) == IF i = 0 THEN 0 ELSE f[i - 1] + p[i].length

\* Whatever has a length.
Pieced(p) == \A i \in 1 .. Len(p) : p[i].length \in Int

Sums(p, n, f) == f = [i \in 0 .. n |-> SumStep(p, f, i)]

\* The equation of LengthOf has a solution for every prefix.
LEMMA SumsExist ==
    ASSUME NEW S, NEW p \in Seq(S), Pieced(p)
    PROVE  \A n \in Nat : n <= Len(p) => \E f \in [0 .. n -> Int] : Sums(p, n, f)
  <1> DEFINE T == {n \in Nat : n <= Len(p) /\ ~\E f \in [0 .. n -> Int] : Sums(p, n, f)}
  <1> SUFFICES ASSUME T # {} PROVE FALSE
    OBVIOUS
  <1>1. PICK m \in T : \A n \in T : m <= n
    <2>1. T \in SUBSET Nat
      OBVIOUS
    <2> HIDE DEF T
    <2> QED
      BY <2>1, LeastNatural
  <1>2. m \in Nat /\ m <= Len(p) /\ ~\E f \in [0 .. m -> Int] : Sums(p, m, f)
    OBVIOUS
  <1>3. m # 0
    <2> DEFINE f == [i \in 0 .. 0 |-> 0]
    <2>1. \A i \in 0 .. 0 : i = 0
      OBVIOUS
    <2>2. f = [i \in 0 .. 0 |-> SumStep(p, f, i)] /\ f \in [0 .. 0 -> Int]
      BY <2>1 DEF SumStep
    <2> HIDE DEF f
    <2>3. Sums(p, 0, f)
      BY <2>2 DEF Sums
    <2> QED
      BY <1>2, <2>2, <2>3
  <1> DEFINE k == m - 1
  <1>4. k \in Nat /\ k + 1 = m /\ k <= Len(p) /\ ~(m <= k) /\ Len(p) \in Nat
    BY <1>2, <1>3, LenProperties
  <1>5. k \notin T
    <2> HIDE DEF T, k
    <2> QED
      BY <1>1, <1>4
  <1>6. PICK f \in [0 .. k -> Int] : Sums(p, k, f)
    BY <1>4, <1>5
  <1> HIDE DEF T, k
  <1> DEFINE g == [i \in 0 .. m |-> SumStep(p, f, i)]
  <1>7. \A i \in 0 .. k : f[i] = SumStep(p, f, i) /\ g[i] = f[i]
    <2> DEFINE h == [i \in 0 .. k |-> SumStep(p, f, i)]
    <2>1. f = h
      BY <1>6 DEF Sums
    <2>2. \A i \in 0 .. k : h[i] = SumStep(p, f, i) /\ i \in 0 .. m
      BY <1>2, <1>4
    <2>3. \A i \in 0 .. k : g[i] = SumStep(p, f, i)
      BY <2>2
    <2> HIDE DEF h, g
    <2> QED
      BY <2>1, <2>2, <2>3, Zenon
  <1>8. \A i \in 0 .. m : SumStep(p, f, i) = SumStep(p, g, i) /\ SumStep(p, f, i) \in Int
    <2> SUFFICES ASSUME NEW i \in 0 .. m
                 PROVE  SumStep(p, f, i) = SumStep(p, g, i) /\ SumStep(p, f, i) \in Int
      OBVIOUS
    <2> HIDE DEF g
    <2>1. CASE i = 0
      BY <2>1 DEF SumStep
    <2>2. CASE i # 0
      <3>1. i - 1 \in 0 .. k /\ i \in 1 .. Len(p)
        BY <1>2, <1>4, <2>2
      <3>2. f[i - 1] \in Int /\ g[i - 1] = f[i - 1]
        BY <1>6, <1>7, <3>1
      <3>3. p[i].length \in Int
        BY <3>1 DEF Pieced
      <3> QED
        BY <3>2, <3>3 DEF SumStep
    <2> QED
      BY <2>1, <2>2
  <1>9. g = [i \in 0 .. m |-> SumStep(p, g, i)] /\ g \in [0 .. m -> Int]
    BY <1>8
  <1> HIDE DEF g
  <1> QED
    BY <1>2, <1>9 DEF Sums

SumAt(p, f, i) == f[i] = SumStep(p, f, i)

LEMMA SumsAre ==
    ASSUME NEW p, NEW n \in Nat, NEW f, Sums(p, n, f), NEW i \in 0 .. n
    PROVE  SumAt(p, f, i)
  <1> DEFINE h == [j \in 0 .. n |-> SumStep(p, f, j)]
  <1>1. f = h
    BY DEF Sums
  <1>2. h[i] = SumStep(p, f, i)
    OBVIOUS
  <1> HIDE DEF h
  <1> QED
    BY <1>1, <1>2, Zenon DEF SumAt

\* The values for a sequence and for one that goes on after it are the same.
LEMMA SumsAgree ==
    ASSUME NEW p, NEW q, NEW n \in Nat, NEW k \in Nat, n <= k, NEW f, NEW g,
           Sums(p, n, f), Sums(q, k, g), Begins(p, q, n)
    PROVE  SameValues(f, g, n)
  <1> DEFINE T == {i \in 0 .. n : f[i] # g[i]}
  <1> SUFFICES ASSUME T # {} PROVE FALSE
    BY DEF SameValues
  <1>1. PICK m \in T : \A i \in T : m <= i
    <2>1. T \in SUBSET Nat
      OBVIOUS
    <2> HIDE DEF T
    <2> QED
      BY <2>1, LeastNatural
  <1>2. m \in 0 .. n /\ f[m] # g[m]
    OBVIOUS
  <1>3. f[m] = SumStep(p, f, m) /\ g[m] = SumStep(q, g, m)
    <2>1. m \in 0 .. k
      BY <1>2
    <2> QED
      BY <1>2, <2>1, SumsAre DEF SumAt
  <1>4. m # 0
    BY <1>2, <1>3 DEF SumStep
  <1> DEFINE j == m - 1
  <1>5. j \in 0 .. n /\ ~(m <= j) /\ m \in 1 .. n /\ 1 \in 1 .. n
    BY <1>2, <1>4
  <1>6. f[j] = g[j]
    <2>1. j \notin T
      <3> HIDE DEF T, j
      <3> QED
        BY <1>1, <1>5
    <2> QED
      BY <1>5, <2>1
  <1>7. p[m] = q[m] /\ p[1] = q[1]
    BY <1>5 DEF Begins
  <1>8. SumStep(p, f, m) = SumStep(q, g, m)
    BY <1>6, <1>7 DEF SumStep
  <1> QED
    BY <1>2, <1>3, <1>8

HasLength(p) == \E f \in [0 .. Len(p) -> Int] : Sums(p, Len(p), f) /\ LengthOf(p) = f[Len(p)]

\* So LengthOf is the last value of one.
LEMMA LengthOfIs ==
    ASSUME NEW S, NEW p \in Seq(S), Pieced(p)
    PROVE  HasLength(p)
  <1> DEFINE n == Len(p)
             F == CHOOSE f : Sums(p, n, f)
  <1>1. n \in Nat /\ n <= n
    BY LenProperties
  <1>2. PICK e \in [0 .. n -> Int] : Sums(p, n, e)
    BY <1>1, SumsExist
  <1>3. Sums(p, n, F)
    BY <1>2, Zenon
  <1>4. LengthOf(p) = F[n]
    BY DEF LengthOf, Sums, SumStep
  <1> HIDE DEF F, n
  <1>5. SameValues(e, F, n)
    <2>1. Begins(p, p, n)
      BY DEF Begins
    <2> QED
      BY <1>1, <1>2, <1>3, <2>1, SumsAgree, Zenon
  <1>6. n \in 0 .. n
    BY <1>1
  <1> QED
    BY <1>2, <1>4, <1>5, <1>6 DEF n, SameValues, HasLength

\* One more piece adds its length.
LEMMA LengthOfAppend ==
    ASSUME NEW S, NEW p \in Seq(S), Pieced(p), NEW x \in S, x.length \in Int
    PROVE  /\ Pieced(Append(p, x)) /\ LengthOf(p) \in Int
           /\ LengthOf(Append(p, x)) = LengthOf(p) + x.length
  <1> DEFINE n == Len(p)
             q == Append(p, x)
  <1>1. n \in Nat /\ n + 1 \in Nat /\ n <= n + 1 /\ n \in 0 .. n
    BY LenProperties
  <1>2. /\ q \in Seq(S) /\ Len(q) = n + 1 /\ q[n + 1] = x
        /\ \A i \in 1 .. n : q[i] = p[i]
    BY AppendProperties
  <1> HIDE DEF q
  <1>3. Pieced(q)
    <2>1. \A i \in 1 .. n + 1 : i = n + 1 \/ i \in 1 .. n
      BY <1>1
    <2> QED
      BY <1>2, <2>1 DEF Pieced
  <1>4. PICK f \in [0 .. n -> Int] : Sums(p, n, f) /\ LengthOf(p) = f[n]
    <2>1. HasLength(p)
      BY LengthOfIs, Zenon
    <2> QED
      BY <2>1 DEF HasLength
  <1>5. PICK g \in [0 .. n + 1 -> Int] : Sums(q, n + 1, g) /\ LengthOf(q) = g[n + 1]
    <2>1. HasLength(q)
      BY <1>2, <1>3, LengthOfIs, Zenon
    <2> QED
      BY <1>2, <1>3, <2>1 DEF HasLength
  <1> HIDE DEF n
  <1>6. f[n] = g[n] /\ f[n] \in Int
    <2>1. Begins(p, q, n)
      BY <1>2 DEF Begins
    <2> DEFINE k == n + 1
    <2>2. k \in Nat /\ n <= k /\ Sums(q, k, g) /\ Sums(p, n, f)
      BY <1>1, <1>4, <1>5
    <2> HIDE DEF k
    <2>3. SameValues(f, g, n)
      BY <1>1, <2>1, <2>2, SumsAgree, Zenon
    <2> USE DEF SameValues
    <2> QED
      BY <1>1, <1>4, <2>3
  <1>7. g[n + 1] = SumStep(q, g, n + 1)
    <2>1. n + 1 \in 0 .. n + 1
      BY <1>1
    <2>2. SumAt(q, g, n + 1)
      BY <1>1, <1>5, <2>1, SumsAre, Zenon
    <2> QED
      BY <2>2, Zenon DEF SumAt
  <1>8. SumStep(q, g, n + 1) = g[n] + x.length
    <2>1. n + 1 # 0 /\ (n + 1) - 1 = n
      BY <1>1
    <2> QED
      BY <1>2, <2>1 DEF SumStep
  <1> QED
    BY <1>3, <1>4, <1>5, <1>6, <1>7, <1>8 DEF q

LEMMA LengthOfEmpty == LengthOf(<<>>) = 0 /\ Pieced(<<>>)
  <1>1. <<>> \in Seq(Int) /\ Len(<<>>) = 0
    OBVIOUS
  <1>2. Pieced(<<>>)
    BY DEF Pieced
  <1>3. PICK f \in [0 .. 0 -> Int] : Sums(<<>>, 0, f) /\ LengthOf(<<>>) = f[0]
    <2>1. HasLength(<<>>)
      BY <1>1, <1>2, LengthOfIs, Zenon
    <2> QED
      BY <1>1, <1>2, <2>1 DEF HasLength
  <1>4. f[0] = SumStep(<<>>, f, 0)
    <2>1. 0 \in 0 .. 0 /\ 0 \in Nat
      OBVIOUS
    <2>2. SumAt(<<>>, f, 0)
      BY <1>3, <2>1, SumsAre, Zenon
    <2> QED
      BY <2>2, Zenon DEF SumAt
  <1> QED
    BY <1>2, <1>3, <1>4 DEF SumStep

------------------------------------------------------------------------------
(* convert() loses nothing: by induction over the tenths.                   *)

LEMMA TenthIsNearer ==
    ASSUME NEW v \in Int, Tenth(v) # 0
    PROVE  Tenth(v) \in Int /\ Size(Tenth(v)) \in Nat /\ Size(v) \in Nat /\ ~(Size(v) <= Size(Tenth(v)))
  <1> DEFINE t == Tenth(v)
             p == Size(v) - 1
  <1>1. t \in Int
    BY TenthIs
  <1>2. Size(v) \in Nat /\ -Size(v) < v /\ v < Size(v)
    BY DEF Size
  <1>3. p \in Int /\ p + 1 = Size(v)
    BY <1>2
  <1>4. v \in Nearer(Size(v))
    BY <1>2 DEF Nearer
  <1> HIDE DEF p
  <1>5. t \in Nearer(p)
    <2>1. v \in Nearer(p + 1)
      BY <1>3, <1>4
    <2> QED
      BY <1>3, <2>1, TenthIs
  <1> HIDE DEF t
  <1>6. -p < t /\ t < p
    BY <1>5 DEF Nearer
  <1>7. Size(t) \in Nat /\ ~(Size(v) <= Size(t))
    <2> DEFINE n == Size(v)
    <2> HIDE DEF n
    <2> QED
      BY <1>1, <1>2, <1>3, <1>6 DEF Size, n
  <1> QED
    BY <1>1, <1>2, <1>7 DEF t

\* convert(v) is the number v, with a sign if it is negative and no zeros before it.
ReadBack(v) ==
    /\ convert(v) # <<>> /\ ValueOf(convert(v)) = v
    /\ convert(v)[1] = Minus <=> v < 0
    /\ v < 0 => Len(convert(v)) > 1 /\ convert(v)[2] # 0
    /\ v > 0 => convert(v)[1] # 0
    /\ v = 0 => Len(convert(v)) = 1

\* A number of one digit reads back.
LEMMA ReadBackFirst ==
    ASSUME NEW v \in Int, Tenth(v) = 0
    PROVE  ReadBack(v)
  <1> DEFINE m == Digit(v)
             p == convert(v)
  <1>1. m \in 0 .. 9 /\ v = IF v < 0 THEN -m ELSE m
    <2>1. m \in 0 .. 9 /\ v = IF v < 0 THEN 10 * 0 - m ELSE 10 * 0 + m
      BY DigitRange
    <2> HIDE DEF m
    <2> QED
      BY <2>1
  <1>2. p = IF v < 0 THEN <<Minus, m>> ELSE <<m>>
    BY ConvertSteps DEF ConvertStep
  <1> HIDE DEF m, p
  <1>3. ValueOf(<<m>>) = m /\ ValueOf(<<Minus, m>>) = -m
    BY <1>1, ValueOfFirst
  <1>4. m \in Int /\ m # Minus /\ Minus \in Int
    BY <1>1 DEF Minus
  <1>5. CASE v < 0
    <2>1. p = <<Minus, m>> /\ v = -m /\ m # 0
      BY <1>1, <1>2, <1>5
    <2>2. p # <<>> /\ Len(p) = 2 /\ p[1] = Minus /\ p[2] = m
      BY <1>4, <2>1
    <2> QED
      BY <1>3, <1>5, <2>1, <2>2 DEF ReadBack, p
  <1>6. CASE ~(v < 0)
    <2>1. p = <<m>> /\ v = m
      BY <1>1, <1>2, <1>6
    <2>2. p # <<>> /\ Len(p) = 1 /\ p[1] = m
      BY <1>4, <2>1
    <2> QED
      BY <1>3, <1>4, <1>6, <2>1, <2>2 DEF ReadBack, p
  <1> QED
    BY <1>5, <1>6

\* A number reads back if its tenth does.
LEMMA ReadBackNext ==
    ASSUME NEW v \in Int, Tenth(v) # 0, ReadBack(Tenth(v))
    PROVE  ReadBack(v)
  <1> DEFINE t == Tenth(v)
             m == Digit(v)
             s == convert(t)
             p == convert(v)
  <1>1. /\ m \in 0 .. 9 /\ v = IF v < 0 THEN 10 * t - m ELSE 10 * t + m
        /\ t \in Int /\ t # 0 /\ (v < 0 => t <= 0) /\ (v >= 0 => t >= 0)
    BY DigitRange, TenthIs
  <1>2. s \in Seq(Int)
    BY <1>1, ConvertSteps DEF ConvertStep
  <1>3. p = Append(s, m)
    BY ConvertSteps DEF ConvertStep
  <1>4. /\ s # <<>> /\ ValueOf(s) = t
        /\ s[1] = Minus <=> t < 0
        /\ t < 0 => Len(s) > 1 /\ s[2] # 0
        /\ t > 0 => s[1] # 0
    BY DEF ReadBack
  <1> HIDE DEF t, m, s, p
  <1>5. (v < 0 <=> t < 0) /\ v # 0 /\ (v > 0 <=> t > 0) /\ m \in Int
    BY <1>1
  <1>6. ReadsOn(s, m)
    BY <1>2, <1>4, <1>5, ValueOfAppend
  <1>7. ValueOf(p) = v
    <2>1. ValueOf(p) = 10 * t + (IF t < 0 THEN -m ELSE m)
      BY <1>3, <1>4, <1>6 DEF ReadsOn
    <2> QED
      BY <1>1, <1>5, <2>1
  <1>8. /\ Len(s) \in Nat /\ Len(s) # 0 /\ Len(p) = Len(s) + 1 /\ p \in Seq(Int)
        /\ \A i \in 1 .. Len(s) : p[i] = s[i]
    BY <1>2, <1>3, <1>4, <1>5, AppendProperties, LenProperties, EmptySeq
  <1>9. p # <<>> /\ p[1] = s[1] /\ (t < 0 => Len(p) > 1 /\ p[2] = s[2])
    <2>1. Len(p) # 0 /\ 1 \in 1 .. Len(s)
      BY <1>8
    <2>2. t < 0 => Len(p) > 1 /\ 2 \in 1 .. Len(s)
      BY <1>4, <1>8
    <2> QED
      BY <1>8, <2>1, <2>2, EmptySeq
  <1> QED
    BY <1>4, <1>5, <1>7, <1>9 DEF ReadBack, p

\* Every integer reads back: there is none nearest to 0 that does not.
LEMMA ReadsBack == \A v \in Int : ReadBack(v)
  <1> DEFINE Bad == {v \in Int : ~ReadBack(v)}
             T == {n \in Nat : \E v \in Bad : n = Size(v)}
  <1> SUFFICES ASSUME NEW x \in Bad PROVE FALSE
    OBVIOUS
  <1>1. \A v \in Int : Size(v) \in Nat
    BY DEF Size
  <1>2. PICK n \in T : \A i \in T : n <= i
    <2>1. T \in SUBSET Nat /\ Size(x) \in T
      BY <1>1
    <2> HIDE DEF T
    <2> QED
      BY <2>1, LeastNatural
  <1>3. PICK v \in Bad : n = Size(v)
    OBVIOUS
  <1>4. v \in Int /\ ~ReadBack(v)
    OBVIOUS
  <1> DEFINE t == Tenth(v)
  <1>5. t # 0 => ReadBack(t)
    <2> SUFFICES ASSUME t # 0 PROVE ReadBack(t)
      OBVIOUS
    <2>1. t \in Int /\ Size(t) \in Nat /\ ~(Size(v) <= Size(t))
      BY <1>4, TenthIsNearer
    <2>2. Size(t) \notin T
      <3> HIDE DEF T, t
      <3> QED
        BY <1>2, <1>3, <2>1
    <2> QED
      BY <2>1, <2>2
  <1> QED
    BY <1>4, <1>5, ReadBackFirst, ReadBackNext

------------------------------------------------------------------------------
(* An int has at most ten digits and a sign.                                *)

Fits(k, b) == \A v \in Int : -b < v /\ v < b => Len(convert(v)) <= k + 1

\* Ten times the range needs one more character.
LEMMA OneMoreDigit ==
    ASSUME NEW k \in Nat, NEW b \in Nat, Fits(k, b)
    PROVE  Fits(k + 1, 10 * b)
  <1> SUFFICES ASSUME NEW v \in Int, -(10 * b) < v, v < 10 * b
               PROVE  Len(convert(v)) <= (k + 1) + 1
    BY DEF Fits
  <1> DEFINE t == Tenth(v)
             m == Digit(v)
             s == convert(t)
             p == convert(v)
  <1>1. /\ m \in 0 .. 9 /\ v = IF v < 0 THEN 10 * t - m ELSE 10 * t + m
        /\ t \in Int /\ (v < 0 => t <= 0) /\ (v >= 0 => t >= 0)
    BY DigitRange, TenthIs
  <1>2. /\ s \in Seq(Int) /\ (t # 0 => p = Append(s, m))
        /\ t = 0 => p = IF v < 0 THEN <<Minus, m>> ELSE <<m>>
    BY <1>1, ConvertSteps DEF ConvertStep
  <1> HIDE DEF t, m, s, p
  <1>3. -b < t /\ t < b
    <2>1. CASE v < 0
      BY <1>1, <2>1
    <2>2. CASE v >= 0
      BY <1>1, <2>2
    <2> QED
      BY <2>1, <2>2
  <1>4. Len(s) <= k + 1
    BY <1>1, <1>3 DEF Fits, s
  <1>5. t # 0 => Len(p) = Len(s) + 1
    BY <1>1, <1>2, AppendProperties
  <1>6. t = 0 => Len(p) \in 1 .. 2
    <2>1. Len(<<Minus, m>>) = 2 /\ Len(<<m>>) = 1
      OBVIOUS
    <2> QED
      BY <1>2, <2>1
  <1>7. Len(s) \in Nat
    BY <1>2, LenProperties
  <1>8. Len(p) <= (k + 1) + 1
    <2> DEFINE lp == Len(p)
               ls == Len(s)
    <2>1. /\ ls \in Nat /\ ls <= k + 1
          /\ t # 0 => lp = ls + 1
          /\ t = 0 => lp \in 1 .. 2
      BY <1>4, <1>5, <1>6, <1>7
    <2> HIDE DEF lp, ls
    <2>2. lp <= (k + 1) + 1
      BY <2>1
    <2> QED
      BY <2>2 DEF lp
  <1> QED
    BY <1>8 DEF p

\* An int is put in at most eleven characters, fewer than kMaxNumericSize.
LEMMA NumbersAreShort == \A v \in Int32 : Len(convert(v)) \in 0 .. 11
  <1>0. Fits(0, 1)
    <2> SUFFICES ASSUME NEW v \in Int, -1 < v, v < 1 PROVE Len(convert(v)) <= 0 + 1
      BY DEF Fits
    <2>1. v = 0
      OBVIOUS
    <2>2. Len(convert(v)) = 1
      BY <2>1, ReadsBack DEF ReadBack
    <2> QED
      BY <2>2
  <1>1. Fits(1, 10)
    <2>1. Fits(0 + 1, 10 * 1)
      BY <1>0, OneMoreDigit
    <2> QED
      BY <2>1
  <1>2. Fits(2, 100)
    <2>1. 1 \in Nat /\ 10 \in Nat /\ 1 + 1 = 2 /\ 10 * 10 = 100
      BY SMT
    <2> QED
      BY <1>1, <2>1, OneMoreDigit, SMT
  <1>3. Fits(3, 1000)
    <2>1. 2 \in Nat /\ 100 \in Nat /\ 2 + 1 = 3 /\ 10 * 100 = 1000
      BY SMT
    <2> QED
      BY <1>2, <2>1, OneMoreDigit, SMT
  <1>4. Fits(4, 10000)
    <2>1. 3 \in Nat /\ 1000 \in Nat /\ 3 + 1 = 4 /\ 10 * 1000 = 10000
      BY SMT
    <2> QED
      BY <1>3, <2>1, OneMoreDigit, SMT
  <1>5. Fits(5, 100000)
    <2>1. 4 \in Nat /\ 10000 \in Nat /\ 4 + 1 = 5 /\ 10 * 10000 = 100000
      BY SMT
    <2> QED
      BY <1>4, <2>1, OneMoreDigit, SMT
  <1>6. Fits(6, 1000000)
    <2>1. 5 \in Nat /\ 100000 \in Nat /\ 5 + 1 = 6 /\ 10 * 100000 = 1000000
      BY SMT
    <2> QED
      BY <1>5, <2>1, OneMoreDigit, SMT
  <1>7. Fits(7, 10000000)
    <2>1. 6 \in Nat /\ 1000000 \in Nat /\ 6 + 1 = 7 /\ 10 * 1000000 = 10000000
      BY SMT
    <2> QED
      BY <1>6, <2>1, OneMoreDigit, SMT
  <1>8. Fits(8, 100000000)
    <2>1. 7 \in Nat /\ 10000000 \in Nat /\ 7 + 1 = 8 /\ 10 * 10000000 = 100000000
      BY SMT
    <2> QED
      BY <1>7, <2>1, OneMoreDigit, SMT
  <1>9. Fits(9, 1000000000)
    <2>1. 8 \in Nat /\ 100000000 \in Nat /\ 8 + 1 = 9 /\ 10 * 100000000 = 1000000000
      BY SMT
    <2> QED
      BY <1>8, <2>1, OneMoreDigit, SMT
  <1>10. Fits(10, 10000000000)
    <2>1. 9 \in Nat /\ 1000000000 \in Nat /\ 9 + 1 = 10 /\ 10 * 1000000000 = 10000000000
      BY SMT
    <2> QED
      BY <1>9, <2>1, OneMoreDigit, SMT
  <1> QED
    <2> SUFFICES ASSUME NEW v \in Int32 PROVE Len(convert(v)) \in 0 .. 11
      OBVIOUS
    <2>1. v \in Int /\ -2147483649 < v /\ v < 2147483648
      BY SMT DEF Int32
    <2>2. Len(convert(v)) <= 10 + 1
      BY <1>10, <2>1, SMT DEF Fits
    <2>3. Len(convert(v)) \in Nat
      BY <2>1, ConvertSteps, SMT DEF ConvertStep
    <2> DEFINE l == Len(convert(v))
    <2>4. l \in Nat /\ l <= 10 + 1
      BY <2>2, <2>3
    <2> HIDE DEF l
    <2>5. l \in 0 .. 11
      BY <2>4
    <2> QED
      BY <2>5 DEF l

------------------------------------------------------------------------------
(* The invariant of a statement, and what putting one piece keeps of it.    *)

AllPieces == {Text(n) : n \in Nat} \cup {Integer(v) : v \in Int32}
                \cup {Double(n) : n \in DoubleLengths}

PieceShape(x) ==
    /\ x.length \in Nat
    /\ x.kind = "integer" => x.value \in Int32
    /\ x.kind # "text" => x.length + 1 <= kMaxNumericSize

\* A piece has a length, and a number has room for its '\0'.
LEMMA PieceType ==
    ASSUME NEW x \in AllPieces
    PROVE  PieceShape(x)
  <1>0. kMaxNumericSize \in Nat /\ kMaxNumericSize > 11 /\ DoubleLengths \subseteq 1 .. kMaxNumericSize - 1
    BY StreamAssumption
  <1>1. CASE x \in {Text(n) : n \in Nat}
    BY <1>1 DEF Text, PieceShape
  <1>2. CASE x \in {Integer(v) : v \in Int32}
    <2>1. PICK v \in Int32 : x = Integer(v)
      BY <1>2
    <2> DEFINE l == Len(convert(v))
    <2>2. l \in 0 .. 11
      BY NumbersAreShort
    <2>3. x.length = l /\ x.value = v /\ x.kind = "integer"
      BY <2>1 DEF Integer
    <2> HIDE DEF l
    <2>4. l \in Nat /\ l + 1 <= kMaxNumericSize
      BY <1>0, <2>2
    <2> QED
      BY <2>3, <2>4 DEF PieceShape
  <1>3. CASE x \in {Double(n) : n \in DoubleLengths}
    <2>1. PICK n \in DoubleLengths : x = Double(n)
      BY <1>3
    <2>2. x.length = n /\ x.kind = "double"
      BY <2>1 DEF Double
    <2>3. n \in Nat /\ n + 1 <= kMaxNumericSize
      BY <1>0
    <2> QED
      BY <2>2, <2>3 DEF PieceShape
  <1> QED
    BY <1>1, <1>2, <1>3 DEF AllPieces

Streams == [cur : Nat, pieces : Seq(AllPieces), top : Nat]

Good(s, g) ==
    /\ s \in Streams /\ g \in Seq(AllPieces)
    /\ s.top <= kSmallBuffer /\ s.cur <= kSmallBuffer
    /\ s.cur = LengthOf(s.pieces)
    /\ LengthOf(g) \in Nat
    /\ LengthOf(g) <= kSmallBuffer - kMaxNumericSize => s.pieces = g

StreamInv == Good(stream, given) /\ (statement = "begin" => stream = NewStream)

LEMMA NewStreamGood == Good(NewStream, <<>>)
  <1>1. <<>> \in Seq(AllPieces)
    OBVIOUS
  <1>2. LengthOf(<<>>) = 0
    BY LengthOfEmpty
  <1>3. kSmallBuffer \in Nat
    BY StreamAssumption
  <1> QED
    BY <1>1, <1>2, <1>3 DEF Good, NewStream, Streams

\* Pieces have lengths.
LEMMA PiecesAreLong ==
    ASSUME NEW p \in Seq(AllPieces)
    PROVE  Pieced(p)
  <1>1. \A i \in 1 .. Len(p) : p[i] \in AllPieces
    BY ElementOfSeq
  <1>2. \A x \in AllPieces : x.length \in Int
    <2> SUFFICES ASSUME NEW x \in AllPieces PROVE x.length \in Int
      OBVIOUS
    <2>1. PieceShape(x)
      BY PieceType
    <2> QED
      BY <2>1 DEF PieceShape
  <1> QED
    BY <1>1, <1>2 DEF Pieced

LengthOfStep(p, x) == LengthOf(Append(p, x)) = LengthOf(p) + x.length

LEMMA PieceLength ==
    ASSUME NEW p \in Seq(AllPieces), NEW x \in AllPieces
    PROVE  LengthOfStep(p, x)
  <1>1. Pieced(p) /\ x.length \in Int
    <2>1. Pieced(p) /\ PieceShape(x)
      BY PiecesAreLong, PieceType, Zenon
    <2> QED
      BY <2>1 DEF PieceShape
  <1> QED
    BY <1>1, LengthOfAppend DEF LengthOfStep

\* A piece is written where its bytes, and those behind it, are free, or not at all.
LEMMA PutGood ==
    ASSUME NEW s, NEW g, Good(s, g), NEW x \in AllPieces
    PROVE  Good(Put(s, x), Append(g, x))
  <1> DEFINE K == kSmallBuffer
             M == kMaxNumericSize
             n == x.length
             c == s.cur
             top == s.top
             b == IF x.kind = "text" THEN n ELSE n + 1
             fits == IF x.kind = "text" THEN K - c > n ELSE K - c >= M
             L == LengthOf(g)
             P == Append(s.pieces, x)
             G == Append(g, x)
             w == add(s, x, b)
  <1>1. K \in Nat /\ M \in Nat /\ M > 11
    BY StreamAssumption
  <1>2. n \in Nat /\ (x.kind # "text" => n + 1 <= M)
    <2>1. PieceShape(x)
      BY PieceType
    <2> QED
      BY <2>1 DEF PieceShape
  <1>3. /\ c \in Nat /\ top \in Nat /\ top <= K /\ c <= K
        /\ s.pieces \in Seq(AllPieces) /\ g \in Seq(AllPieces) /\ s \in Streams
        /\ c = LengthOf(s.pieces) /\ L \in Nat
        /\ L <= K - M => s.pieces = g
    BY DEF Good, Streams
  <1>4. LengthOf(P) = c + n /\ LengthOf(G) = L + n
    <2>1. LengthOfStep(s.pieces, x) /\ LengthOfStep(g, x)
      BY <1>3, PieceLength
    <2> QED
      BY <1>3, <2>1 DEF LengthOfStep
  <1>5. P \in Seq(AllPieces) /\ G \in Seq(AllPieces)
    BY <1>3, AppendProperties
  <1>6. Put(s, x) = IF fits THEN w ELSE s
    BY DEF Put, appendText, format, avail
  <1>7. w = [cur |-> c + n, pieces |-> P, top |-> IF c + b > top THEN c + b ELSE top]
    BY DEF add
  <1> HIDE DEF K, M, n, c, top, L, P, G, w
  <1>8. L + n \in Nat
    BY <1>2, <1>3
  <1>9. CASE fits
    <2>1. c + n \in Nat /\ c + b \in Nat /\ c + n <= K /\ c + b <= K
      BY <1>1, <1>2, <1>3, <1>9
    <2>2. L + n <= K - M => P = G
      <3>1. L + n <= K - M => L <= K - M
        BY <1>1, <1>2, <1>3
      <3> QED
        BY <1>3, <3>1 DEF P, G
    <2> DEFINE e == c + b
               T == IF e > top THEN e ELSE top
    <2>3. T \in Nat /\ T <= K
      <3> HIDE DEF e
      <3> QED
        BY <1>1, <1>3, <2>1 DEF e
    <2>4. w = [cur |-> c + n, pieces |-> P, top |-> T]
      BY <1>7
    <2> HIDE DEF e, T, fits
    <2>5. /\ w \in Streams
          /\ w.cur = c + n /\ w.pieces = P /\ w.top = T
      BY <1>5, <2>1, <2>3, <2>4 DEF Streams
    <2>6. Put(s, x) = w
      BY <1>6, <1>9
    <2> QED
      BY <1>4, <1>5, <1>8, <2>1, <2>2, <2>3, <2>5, <2>6 DEF Good, G, K, M
  <1>10. CASE ~fits
    <2>1. ~(L + n <= K - M)
      <3> SUFFICES ASSUME L + n <= K - M PROVE FALSE
        OBVIOUS
      <3>1. L <= K - M
        BY <1>1, <1>2, <1>3
      <3>2. c = L
        BY <1>3, <3>1 DEF L
      <3>3. K - c > n /\ K - c >= M
        BY <1>1, <1>2, <1>3, <3>1, <3>2
      <3> QED
        BY <1>10, <3>3
    <2>2. Put(s, x) = s
      BY <1>6, <1>10
    <2> HIDE DEF fits
    <2> QED
      BY <1>3, <1>4, <1>5, <1>8, <2>1, <2>2 DEF Good, G, K, M, c, top
  <1> QED
    BY <1>9, <1>10

\* Five appended pieces are a sequence of five appended.
FiveAppended(g, a, b, c, d, e) ==
    g \o <<a, b, c, d, e>> = Append(Append(Append(Append(Append(g, a), b), c), d), e)

LEMMA AppendFive ==
    ASSUME NEW S, NEW g \in Seq(S), NEW a \in S, NEW b \in S, NEW c \in S, NEW d \in S, NEW e \in S
    PROVE  FiveAppended(g, a, b, c, d, e)
  <1> DEFINE p1 == <<a>>
             p2 == <<a, b>>
             p3 == <<a, b, c>>
             p4 == <<a, b, c, d>>
             p5 == <<a, b, c, d, e>>
  <1>1. p1 \in Seq(S) /\ p2 \in Seq(S) /\ p3 \in Seq(S) /\ p4 \in Seq(S) /\ p5 \in Seq(S)
    OBVIOUS
  <1>2. p2 = Append(p1, b)
    <2>1. Append(p1, b) \in Seq(S) /\ Len(p1) = 1
      OBVIOUS
    <2> QED
      OBVIOUS
  <1>3. p3 = Append(p2, c)
    OBVIOUS
  <1>4. p4 = Append(p3, d)
    OBVIOUS
  <1>5. p5 = Append(p4, e)
    OBVIOUS
  <1>6. g \o p1 = Append(g, a)
    BY AppendIsConcat
  <1> HIDE DEF p1, p2, p3, p4, p5
  <1>7. g \o p2 = Append(g \o p1, b)
    BY <1>1, <1>2, AppendConcat
  <1>8. g \o p3 = Append(g \o p2, c)
    BY <1>1, <1>3, AppendConcat
  <1>9. g \o p4 = Append(g \o p3, d)
    BY <1>1, <1>4, AppendConcat
  <1>10. g \o p5 = Append(g \o p4, e)
    BY <1>1, <1>5, AppendConcat
  <1> QED
    BY <1>6, <1>7, <1>8, <1>9, <1>10, Zenon DEF p5, FiveAppended

\* The invariant of a statement holds when it begins,
LEMMA StreamInvInit == StreamInit => StreamInv
  BY NewStreamGood DEF StreamInit, StreamInv

\* every piece and the place at the end keep it,
LEMMA StreamInvStep == StreamInv /\ [StreamNext]_streamVars => StreamInv'
  <1> SUFFICES ASSUME StreamInv, [StreamNext]_streamVars PROVE StreamInv'
    OBVIOUS
  <1>1. CASE formatTime
    <2>1. Text(TimeLength) \in AllPieces
      BY DEF AllPieces, TimeLength
    <2>2. <<Text(TimeLength)>> = Append(<<>>, Text(TimeLength))
      OBVIOUS
    <2>3. Good(Put(NewStream, Text(TimeLength)), Append(<<>>, Text(TimeLength)))
      BY <2>1, NewStreamGood, PutGood, Zenon
    <2> QED
      BY <1>1, <2>2, <2>3 DEF formatTime, StreamInv
  <1>2. CASE Stream
    <2>1. PICK x \in Pieces : stream' = Put(stream, x) /\ given' = Append(given, x)
      BY <1>2 DEF Stream
    <2>2. x \in AllPieces
      <3>1. TextLengths \subseteq Nat /\ Integers32 \subseteq Int32
        BY StreamAssumption
      <3> QED
        BY <3>1 DEF Pieces, AllPieces
    <2>3. Good(stream, given)
      BY DEF StreamInv
    <2>4. Good(Put(stream, x), Append(given, x))
      BY <2>2, <2>3, PutGood, Zenon
    <2>5. statement' # "begin"
      BY <1>2 DEF Stream
    <2> QED
      BY <2>1, <2>4, <2>5 DEF StreamInv
  <1>3. CASE Output
    <2> DEFINE a == Text(4)
               b == Text(8)
               c == Text(1)
               d == Integer(59)
               s1 == Put(stream, a)
               s2 == Put(s1, b)
               s3 == Put(s2, c)
               s4 == Put(s3, d)
               s5 == Put(s4, c)
               g1 == Append(given, a)
               g2 == Append(g1, b)
               g3 == Append(g2, c)
               g4 == Append(g3, d)
               g5 == Append(g4, c)
    <2>1. stream' = s5 /\ given' = given \o <<a, b, c, d, c>> /\ statement' = "output"
      BY <1>3 DEF Output, Place
    <2>2. a \in AllPieces /\ b \in AllPieces /\ c \in AllPieces /\ d \in AllPieces
      <3>1. 4 \in Nat /\ 8 \in Nat /\ 1 \in Nat /\ 59 \in Int32
        BY SMT DEF Int32
      <3> QED
        BY <3>1 DEF AllPieces
    <2>3. Good(stream, given) /\ given \in Seq(AllPieces)
      BY DEF StreamInv, Good
    <2> HIDE DEF a, b, c, d
    <2>9. given' = g5
      <3>1. given \o <<a, b, c, d, c>> = g5
        <4>1. FiveAppended(given, a, b, c, d, c)
          BY <2>2, <2>3, AppendFive, Zenon
        <4> QED
          BY <4>1, Zenon DEF FiveAppended
      <3> QED
        BY <2>1, <3>1, Zenon
    <2>4. Good(s1, g1)
      BY <2>2, <2>3, PutGood, Zenon
    <2> HIDE DEF s1, g1
    <2>5. Good(s2, g2)
      BY <2>2, <2>4, PutGood, Zenon
    <2> HIDE DEF s2, g2
    <2>6. Good(s3, g3)
      BY <2>2, <2>5, PutGood, Zenon
    <2> HIDE DEF s3, g3
    <2>7. Good(s4, g4)
      BY <2>2, <2>6, PutGood, Zenon
    <2> HIDE DEF s4, g4
    <2>8. Good(s5, g5)
      BY <2>2, <2>7, PutGood, Zenon
    <2> HIDE DEF s5
    <2> HIDE DEF g5
    <2> QED
      BY <2>1, <2>8, <2>9 DEF StreamInv
  <1>4. CASE UNCHANGED streamVars
    BY <1>4 DEF streamVars, StreamInv
  <1> QED
    BY <1>1, <1>2, <1>3, <1>4 DEF StreamNext

\* and it says what StatementsFit says.
LEMMA StreamInvFits == StreamInv => StatementsFit
  <1> SUFFICES ASSUME StreamInv PROVE StatementsFit
    OBVIOUS
  <1>1. Good(stream, given)
    BY DEF StreamInv
  <1>2. NoOverrun /\ NothingLost /\ stream.cur = LengthOf(stream.pieces)
    BY <1>1 DEF Good, NoOverrun, NothingLost
  <1>3. stream.pieces \in Seq(AllPieces)
    BY <1>1 DEF Good, Streams
  <1>4. ASSUME NEW i \in DOMAIN stream.pieces, stream.pieces[i].kind = "integer"
        PROVE  LET v == stream.pieces[i].value
                   p == convert(v)
                   first == IF v < 0 THEN 2 ELSE 1
               IN  ValueOf(p) = v /\ (p[first] = 0 => Len(p) = 1)
    <2> DEFINE v == stream.pieces[i].value
    <2>1. v \in Int
      <3>1. stream.pieces[i] \in AllPieces
        <4>1. i \in 1 .. Len(stream.pieces)
          BY <1>3, LenProperties
        <4> QED
          BY <1>3, <4>1, ElementOfSeq
      <3>2. v \in Int32
        <4>1. PieceShape(stream.pieces[i])
          BY <3>1, PieceType, Zenon
        <4> QED
          BY <1>4, <4>1 DEF PieceShape
      <3> HIDE DEF v
      <3> QED
        BY <3>2, SMT DEF Int32
    <2> HIDE DEF v
    <2>2. ReadBack(v)
      BY <2>1, ReadsBack
    <2>3. ValueOf(convert(v)) = v /\ (convert(v)[IF v < 0 THEN 2 ELSE 1] = 0 => Len(convert(v)) = 1)
      BY <2>1, <2>2 DEF ReadBack
    <2> QED
      BY <2>3 DEF v
  <1>5. NumbersRead
    BY <1>4 DEF NumbersRead
  <1> QED
    BY <1>2, <1>5 DEF StatementsFit

(* Whatever an application streams, the buffer of a statement is not        *)
(* written past its end, a statement that is short enough is put whole,     *)
(* and every int reads back: append, formatInteger and convert.             *)
THEOREM StatementsFitHolds == StreamSpec => []StatementsFit
  <1>1. StreamInv => StatementsFit
    BY StreamInvFits
  <1> QED
    BY StreamInvInit, StreamInvStep, <1>1, PTL DEF StreamSpec
=============================================================================
