--------------------------- MODULE PodLogsProofs ---------------------------
(* The theorems about PodLogs. *)
EXTENDS PodLogs, FiniteSetTheorems, SequenceTheorems, TLAPS

-----------------------------------------------------------------------------
(* Induction over numbers *)

(* A set of numbers that is not empty has a least element: otherwise the      *)
(* successor would map its lower bounds up to one of its elements into those  *)
(* above 0, which are fewer.                                                  *)
LEMMA LeastElement ==
  ASSUME NEW S \in SUBSET Nat, S # {}
  PROVE  Min(S) \in S /\ \A k \in S : Min(S) <= k
<1>1. SUFFICES ASSUME \A k \in S : \E j \in S : j < k PROVE FALSE
  <2>1. \E k \in S : \A j \in S : k <= j
    BY <1>1
  <2> QED
    BY <2>1 DEF Min
<1>2. PICK n \in S : TRUE
  OBVIOUS
<1> DEFINE L == {k \in 0..n : \A j \in S : k <= j}
           F == [k \in L |-> k + 1]
<1>3. IsFiniteSet(L) /\ IsFiniteSet(L \ {0})
  <2>1. IsFiniteSet(0..n) /\ L \in SUBSET (0..n)
    BY <1>2, FS_Interval
  <2>2. IsFiniteSet(L)
    BY <2>1, FS_Subset
  <2> QED
    BY <2>2, FS_RemoveElement
<1>4. 0 \in L
  BY <1>2
<1>5. \A k \in L : k + 1 \in L \ {0}
  <2>1. SUFFICES ASSUME NEW k \in L PROVE k + 1 \in L \ {0}
    OBVIOUS
  <2>2. k \notin S
    BY <1>1
  <2>3. \A j \in S : k + 1 <= j
    BY <2>2
  <2> QED
    BY <1>2, <2>3
<1>6. F \in Injection(L, L \ {0})
  BY <1>5 DEF Injection, IsInjective
<1>7. Cardinality(L) <= Cardinality(L \ {0})
  <2> HIDE DEF L, F
  <2> QED
    BY <1>3, <1>6, FS_Injection
<1>8. Cardinality(L) \in Nat /\ Cardinality(L \ {0}) = Cardinality(L) - 1
  <2> HIDE DEF L
  <2> QED
    BY <1>3, <1>4, FS_RemoveElement, FS_CardinalityType
<1> QED
  BY <1>7, <1>8

(* Induction, about sets of numbers: the library's theorem is about operators, *)
(* for which the provers cannot find one.                                    *)
LEMMA NumbersInduction ==
  ASSUME NEW S, 0 \in S, \A n \in Nat : n \in S => n + 1 \in S
  PROVE  \A n \in Nat : n \in S
<1>1. SUFFICES ASSUME NEW n \in Nat, n \notin S PROVE FALSE
  OBVIOUS
<1> DEFINE R == {k \in Nat : k \notin S}
<1>2. \E m \in R : \A k \in R : m <= k
  <2>1. R \in SUBSET Nat /\ R # {}
    BY <1>1
  <2> HIDE DEF R
  <2> QED
    BY <2>1, LeastElement
<1> QED
  BY <1>2

-----------------------------------------------------------------------------
(* Concatenation of a sequence of sequences *)

(* What FlattenSeq computes, for any function that meets its recursion. *)
Flattens(f, s) ==
  f = [i \in 1..Len(s) |-> IF i = 1 THEN s[i] ELSE f[i - 1] \o s[i]]

(* There is such a function. *)
LEMMA FlattensExists ==
  ASSUME NEW T, NEW s \in Seq(Seq(T)), Len(s) # 0
  PROVE  \E f : Flattens(f, s) /\ f \in [1..Len(s) -> Seq(T)]
<1> DEFINE Upto(n) == \E f \in [1..n -> Seq(T)] :
                        \A i \in 1..n : f[i] = IF i = 1 THEN s[i] ELSE f[i - 1] \o s[i]
           S == {n \in Nat : n <= Len(s) => Upto(n)}
<1>1. 0 \in S
  <2>1. Upto(0)
    <3>1. PICK f : f = [i \in 1..0 |-> s]
      OBVIOUS
    <3>2. f \in [1..0 -> Seq(T)] /\ 1..0 = {}
      BY <3>1
    <3> QED
      BY <3>2
  <2> QED
    BY <2>1
<1>2. ASSUME NEW n \in Nat, n \in S PROVE n + 1 \in S
  <2>1. SUFFICES ASSUME n + 1 <= Len(s) PROVE Upto(n + 1)
    OBVIOUS
  <2>2. n \in Nat /\ Upto(n)
    <3>1. n <= Len(s) => Upto(n)
      BY <1>2
    <3> HIDE DEF Upto
    <3> QED
      BY <2>1, <3>1, LenProperties
  <2>3. PICK f \in [1..n -> Seq(T)] :
               \A i \in 1..n : f[i] = IF i = 1 THEN s[i] ELSE f[i - 1] \o s[i]
    BY <2>2
  <2>4. s[n + 1] \in Seq(T)
    BY <2>1, <2>2
  <2> DEFINE x == IF n = 0 THEN s[1] ELSE f[n] \o s[n + 1]
             g == [i \in 1..n + 1 |-> IF i = n + 1 THEN x ELSE f[i]]
  <2>5. x \in Seq(T)
    <3>1. CASE n = 0
      BY <2>4, <3>1
    <3>2. CASE n # 0
      <4>1. f[n] \in Seq(T)
        BY <2>2, <2>3, <3>2
      <4>2. f[n] \o s[n + 1] \in Seq(T)
        BY <2>4, <4>1, ConcatProperties
      <4> QED
        BY <3>2, <4>2
    <3> QED
      BY <3>1, <3>2
  <2>6. x = IF n = 0 THEN s[1] ELSE f[n] \o s[n + 1]
    OBVIOUS
  <2> HIDE DEF x
  <2>7. g \in [1..n + 1 -> Seq(T)]
    BY <2>2, <2>3, <2>5
  <2>8. ASSUME NEW i \in 1..n + 1 PROVE g[i] = IF i = 1 THEN s[i] ELSE g[i - 1] \o s[i]
    <3>1. CASE i = n + 1
      <4>1. g[i] = x /\ (i # 1 => g[i - 1] = f[n])
        BY <2>2, <3>1
      <4> HIDE DEF g
      <4> QED
        BY <2>2, <2>6, <3>1, <4>1
    <3>2. CASE i # n + 1
      <4>1. i \in 1..n /\ g[i] = f[i] /\ (i # 1 => g[i - 1] = f[i - 1])
        BY <2>2, <3>2
      <4> HIDE DEF g
      <4> QED
        BY <2>3, <4>1
    <3> QED
      BY <3>1, <3>2
  <2> HIDE DEF g
  <2> QED
    BY <2>7, <2>8
<1>3. \A n \in Nat : n \in S
  <2>1. \A n \in Nat : n \in S => n + 1 \in S
    BY <1>2
  <2> HIDE DEF S
  <2> QED
    BY <1>1, <2>1, NumbersInduction
<1>4. Upto(Len(s))
  <2> HIDE DEF Upto
  <2> QED
    BY <1>3, LenProperties
<1>5. PICK f \in [1..Len(s) -> Seq(T)] :
        \A i \in 1..Len(s) : f[i] = IF i = 1 THEN s[i] ELSE f[i - 1] \o s[i]
  BY <1>4
<1>6. Flattens(f, s)
  BY <1>5 DEF Flattens
<1> QED
  BY <1>5, <1>6

(* FlattenSeq has the function's last value. *)
LEMMA FlattenLast ==
  ASSUME NEW T, NEW s \in Seq(Seq(T)), Len(s) # 0
  PROVE  \E f : Flattens(f, s) /\ FlattenSeq(s) = f[Len(s)]
<1> DEFINE f == CHOOSE g : Flattens(g, s)
<1>1. Flattens(f, s)
  BY FlattensExists
<1>2. FlattenSeq(s) = f[Len(s)]
  BY DEF FlattenSeq, Flattens
<1> QED
  BY <1>1, <1>2

(* One step of it. *)
LEMMA FlattensStep ==
  ASSUME NEW f, NEW s, Flattens(f, s), NEW n \in 1..Len(s)
  PROVE  f[n] = IF n = 1 THEN s[n] ELSE f[n - 1] \o s[n]
<1> DEFINE g(i) == IF i = 1 THEN s[i] ELSE f[i - 1] \o s[i]
<1>1. f = [i \in 1..Len(s) |-> g(i)]
  BY DEF Flattens
<1> HIDE DEF g
<1>2. f[n] = g(n)
  BY <1>1
<1> QED
  BY <1>2 DEF g

(* Two such functions agree as far as their sequences do. *)
LEMMA FlattensAgree ==
  ASSUME NEW T, NEW s \in Seq(Seq(T)), NEW t \in Seq(Seq(T)), NEW n \in Nat,
         n <= Len(s), n <= Len(t), \A i \in 1..n : s[i] = t[i],
         NEW f, Flattens(f, s), NEW g, Flattens(g, t)
  PROVE  \A i \in 1..n : f[i] = g[i]
<1> DEFINE S == {k \in Nat : 0 < k /\ k <= n => f[k] = g[k]}
<1>1. \A i \in 1..n : /\ f[i] = IF i = 1 THEN s[i] ELSE f[i - 1] \o s[i]
                      /\ g[i] = IF i = 1 THEN s[i] ELSE g[i - 1] \o s[i]
  <2>1. SUFFICES ASSUME NEW i \in 1..n
                 PROVE  /\ f[i] = IF i = 1 THEN s[i] ELSE f[i - 1] \o s[i]
                        /\ g[i] = IF i = 1 THEN s[i] ELSE g[i - 1] \o s[i]
    OBVIOUS
  <2>2. i \in 1..Len(s) /\ i \in 1..Len(t)
    BY LenProperties
  <2>3. f[i] = IF i = 1 THEN s[i] ELSE f[i - 1] \o s[i]
    BY <2>2, FlattensStep
  <2>4. g[i] = IF i = 1 THEN t[i] ELSE g[i - 1] \o t[i]
    BY <2>2, FlattensStep
  <2> QED
    BY <2>3, <2>4
<1>2. 0 \in S
  OBVIOUS
<1>3. ASSUME NEW k \in Nat, k \in S PROVE k + 1 \in S
  <2>1. SUFFICES ASSUME k + 1 <= n PROVE f[k + 1] = g[k + 1]
    OBVIOUS
  <2>2. /\ f[k + 1] = IF k + 1 = 1 THEN s[k + 1] ELSE f[k + 1 - 1] \o s[k + 1]
        /\ g[k + 1] = IF k + 1 = 1 THEN s[k + 1] ELSE g[k + 1 - 1] \o s[k + 1]
    <3>1. k + 1 \in 1..n
      BY <2>1
    <3> QED
      BY <1>1, <3>1
  <2>3. k # 0 => f[k] = g[k]
    BY <1>3, <2>1
  <2>4. k + 1 - 1 = k /\ (k + 1 = 1 <=> k = 0)
    OBVIOUS
  <2> QED
    BY <2>2, <2>3, <2>4
<1>4. \A k \in Nat : k \in S
  <2>1. \A k \in Nat : k \in S => k + 1 \in S
    BY <1>3
  <2> HIDE DEF S
  <2> QED
    BY <1>2, <2>1, NumbersInduction
<1> QED
  BY <1>4

(* FlattenSeq, as equations. *)
LEMMA FlattenEmpty == FlattenSeq(<<>>) = <<>>
<1>1. Len(<<>>) = 0
  OBVIOUS
<1> QED
  BY <1>1 DEF FlattenSeq

(* Flattening sequences of bytes gives bytes.                                *)
LEMMA FlattenType ==
  ASSUME NEW T, NEW s \in Seq(Seq(T))
  PROVE  FlattenSeq(s) \in Seq(T)
<1>1. CASE Len(s) = 0
  <2>1. s = <<>>
    BY <1>1, EmptySeq
  <2>2. <<>> \in Seq(T)
    OBVIOUS
  <2> QED
    BY <2>1, <2>2, FlattenEmpty
<1>2. CASE Len(s) # 0
  <2>1. PICK f : Flattens(f, s) /\ FlattenSeq(s) = f[Len(s)]
    BY <1>2, FlattenLast
  <2>2. PICK g : Flattens(g, s) /\ g \in [1..Len(s) -> Seq(T)]
    BY <1>2, FlattensExists
  <2>3. Len(s) \in 1..Len(s) /\ Len(s) \in Nat
    BY <1>2, LenProperties
  <2>4. f[Len(s)] = g[Len(s)]
    <3>1. \A i \in 1..Len(s) : s[i] = s[i]
      OBVIOUS
    <3>2. \A i \in 1..Len(s) : f[i] = g[i]
      BY <2>1, <2>2, <2>3, <3>1, FlattensAgree
    <3> QED
      BY <2>3, <3>2
  <2> QED
    BY <2>1, <2>2, <2>3, <2>4
<1> QED
  BY <1>1, <1>2

(* One more sequence is joined at the end.                                   *)
LEMMA FlattenAppend ==
  ASSUME NEW T, NEW s \in Seq(Seq(T)), NEW x \in Seq(T)
  PROVE  FlattenSeq(Append(s, x)) = FlattenSeq(s) \o x
<1> DEFINE t == Append(s, x)
           n == Len(s)
<1>1. /\ t \in Seq(Seq(T)) /\ Len(t) = n + 1 /\ n \in Nat
      /\ \A i \in 1..n : t[i] = s[i]
      /\ t[n + 1] = x
  BY AppendProperties, LenProperties
<1> HIDE DEF t
<1>2. PICK g : Flattens(g, t) /\ FlattenSeq(t) = g[n + 1]
  <2>1. Len(t) # 0
    BY <1>1
  <2> HIDE DEF n
  <2> QED
    BY <1>1, <2>1, FlattenLast
<1>3. g[n + 1] = IF n + 1 = 1 THEN t[n + 1] ELSE g[n] \o x
  <2>1. n + 1 \in 1..Len(t) /\ n + 1 - 1 = n
    BY <1>1
  <2> QED
    BY <1>1, <1>2, <2>1, FlattensStep
<1>4. CASE n = 0
  <2>1. s = <<>>
    BY <1>4, EmptySeq
  <2>2. FlattenSeq(s) \o x = x
    BY <2>1, FlattenEmpty, ConcatEmptySeq
  <2>3. FlattenSeq(t) = x
    BY <1>1, <1>2, <1>3, <1>4
  <2> QED
    BY <2>2, <2>3 DEF t
<1>5. CASE n # 0
  <2>1. PICK f : Flattens(f, s) /\ FlattenSeq(s) = f[n]
    BY <1>5, FlattenLast
  <2>2. n \in 1..n /\ n <= Len(t) /\ n <= Len(s)
    BY <1>1, <1>5
  <2>3. \A i \in 1..n : s[i] = t[i]
    BY <1>1
  <2>4. f[n] = g[n]
    <3> HIDE DEF n
    <3> QED
    BY <1>1, <1>2, <2>1, <2>2, <2>3, FlattensAgree
  <2>5. FlattenSeq(t) = g[n] \o x
    BY <1>1, <1>2, <1>3, <1>5
  <2> QED
    BY <2>1, <2>4, <2>5 DEF t
<1> QED
  BY <1>4, <1>5

-----------------------------------------------------------------------------
(* The content of chunks *)

(* The bytes of a log's chunks, chunk by chunk: what Content flattens.       *)
BytesOf(log) == [i \in DOMAIN log |-> log[i].bytes]

(* They are as many as the chunks.                                           *)
LEMMA BytesOfType ==
  ASSUME NEW log \in Seq(ChunkRows)
  PROVE  /\ BytesOf(log) \in Seq(Seq(Bytes)) /\ Len(BytesOf(log)) = Len(log)
         /\ \A i \in 1..Len(log) : BytesOf(log)[i] = log[i].bytes
         /\ Content(log) = FlattenSeq(BytesOf(log))
<1>1. Len(log) \in Nat /\ DOMAIN log = 1..Len(log)
  BY LenProperties
<1>2. \A i \in 1..Len(log) : log[i].bytes \in Seq(Bytes)
  <2>1. \A i \in 1..Len(log) : log[i] \in ChunkRows
    BY LenProperties
  <2> QED
    BY <2>1 DEF ChunkRows
<1>3. BytesOf(log) = [i \in 1..Len(log) |-> log[i].bytes]
  BY <1>1 DEF BytesOf
<1>4. BytesOf(log) \in [1..Len(log) -> Seq(Bytes)]
  BY <1>2, <1>3
<1>5. ASSUME NEW n \in Nat, NEW s \in [1..n -> Seq(Bytes)]
      PROVE  s \in Seq(Seq(Bytes)) /\ Len(s) = n
  BY <1>5
<1>6. BytesOf(log) \in Seq(Seq(Bytes)) /\ Len(BytesOf(log)) = Len(log)
  BY <1>1, <1>4, <1>5
<1>7. \A i \in 1..Len(log) : BytesOf(log)[i] = log[i].bytes
  BY <1>3
<1>8. Content(log) = FlattenSeq(BytesOf(log))
  BY DEF Content, BytesOf
<1> QED
  BY <1>6, <1>7, <1>8

(* Content, as equations. *)
LEMMA ContentType ==
  ASSUME NEW log \in Seq(ChunkRows)
  PROVE  Content(log) \in Seq(Bytes) /\ Len(Content(log)) \in Nat
BY BytesOfType, FlattenType, LenProperties

(* The content of no chunks.                                                 *)
LEMMA ContentEmpty == Content(<<>>) = <<>>
<1>1. <<>> \in Seq(ChunkRows) /\ Len(<<>>) = 0
  BY EmptySeq
<1>2. BytesOf(<<>>) \in Seq(Seq(Bytes)) /\ Len(BytesOf(<<>>)) = 0
  BY <1>1, BytesOfType
<1>3. BytesOf(<<>>) = <<>>
  BY <1>2, EmptySeq
<1> QED
  BY <1>1, <1>3, BytesOfType, FlattenEmpty

(* The content of one more chunk follows that of the others.                 *)
LEMMA ContentAppend ==
  ASSUME NEW log \in Seq(ChunkRows), NEW c \in ChunkRows
  PROVE  Content(Append(log, c)) = Content(log) \o c.bytes
<1> DEFINE more == Append(log, c)
<1>1. /\ more \in Seq(ChunkRows) /\ Len(more) = Len(log) + 1 /\ Len(log) \in Nat
      /\ \A i \in 1..Len(log) : more[i] = log[i]
      /\ more[Len(log) + 1] = c
  BY AppendProperties, LenProperties
<1>2. c.bytes \in Seq(Bytes)
  BY DEF ChunkRows
<1> HIDE DEF more
<1>3. BytesOf(more) = Append(BytesOf(log), c.bytes)
  <2> DEFINE s == BytesOf(more)
             t == Append(BytesOf(log), c.bytes)
  <2>1. /\ s \in Seq(Seq(Bytes)) /\ Len(s) = Len(log) + 1
        /\ \A i \in 1..Len(log) + 1 : s[i] = more[i].bytes
    BY <1>1, BytesOfType
  <2>2. /\ BytesOf(log) \in Seq(Seq(Bytes)) /\ Len(BytesOf(log)) = Len(log)
        /\ \A i \in 1..Len(log) : BytesOf(log)[i] = log[i].bytes
    BY BytesOfType
  <2>3. /\ t \in Seq(Seq(Bytes)) /\ Len(t) = Len(log) + 1
        /\ \A i \in 1..Len(log) : t[i] = BytesOf(log)[i]
        /\ t[Len(log) + 1] = c.bytes
    BY <1>2, <2>2, AppendProperties
  <2> HIDE DEF s, t
  <2>4. \A i \in 1..Len(log) + 1 : s[i] = t[i]
    <3>1. SUFFICES ASSUME NEW i \in 1..Len(log) + 1 PROVE s[i] = t[i]
      OBVIOUS
    <3>2. CASE i = Len(log) + 1
      BY <1>1, <2>1, <2>3, <3>2
    <3>3. CASE i # Len(log) + 1
      <4>1. i \in 1..Len(log)
        BY <1>1, <3>3
      <4> QED
        BY <1>1, <2>1, <2>2, <2>3, <4>1
    <3> QED
      BY <3>2, <3>3
  <2>5. s = t
    BY <2>1, <2>3, <2>4, SeqEqual
  <2> QED
    BY <2>5 DEF s, t
<1>4. FlattenSeq(Append(BytesOf(log), c.bytes)) = FlattenSeq(BytesOf(log)) \o c.bytes
  BY <1>2, BytesOfType, FlattenAppend
<1>5. Content(more) = FlattenSeq(BytesOf(more)) /\ Content(log) = FlattenSeq(BytesOf(log))
  BY <1>1, BytesOfType
<1> QED
  BY <1>3, <1>4, <1>5 DEF more

(* Concatenation of chunks, and of bytes, is associative.                   *)
LEMMA ChunksAssociate == \A a, b, d \in Seq(ChunkRows) : (a \o b) \o d = a \o (b \o d)
BY ConcatAssociative

(* The same of bytes.                                                       *)
LEMMA BytesAssociate == \A a, b, d \in Seq(Bytes) : (a \o b) \o d = a \o (b \o d)
BY ConcatAssociative

(* The content of one log after another is one content after the other.     *)
LEMMA ContentConcat ==
  ASSUME NEW log \in Seq(ChunkRows), NEW more \in Seq(ChunkRows)
  PROVE  Content(log \o more) = Content(log) \o Content(more)
<1> DEFINE S == {n \in Nat : \A s \in Seq(ChunkRows) :
                                Len(s) = n => Content(log \o s) = Content(log) \o Content(s)}
<1>1. 0 \in S
  <2>1. SUFFICES ASSUME NEW s \in Seq(ChunkRows), Len(s) = 0
                 PROVE  Content(log \o s) = Content(log) \o Content(s)
    OBVIOUS
  <2>2. s = <<>>
    BY <2>1, EmptySeq
  <2>3. log \o <<>> = log /\ Content(log) \o <<>> = Content(log)
    BY ContentType, ConcatEmptySeq
  <2> QED
    BY <2>2, <2>3, ContentEmpty
<1>2. ASSUME NEW n \in Nat, n \in S PROVE n + 1 \in S
  <2>1. SUFFICES ASSUME NEW s \in Seq(ChunkRows), Len(s) = n + 1
                 PROVE  Content(log \o s) = Content(log) \o Content(s)
    OBVIOUS
  <2>2. s # <<>>
    BY <2>1, EmptySeq
  <2>3. PICK t \in Seq(ChunkRows), c \in ChunkRows : s = Append(t, c)
    BY <2>2, SequenceEmptyOrAppend
  <2>4. Len(t) = n
    <3>1. Len(s) = Len(t) + 1 /\ Len(t) \in Nat
      BY <2>3, AppendProperties, LenProperties
    <3> QED
      BY <2>1, <3>1
  <2>5. Content(log \o t) = Content(log) \o Content(t)
    BY <1>2, <2>4
  <2>6. log \o t \in Seq(ChunkRows) /\ log \o Append(t, c) = Append(log \o t, c)
    <3>1. log \o t \in Seq(ChunkRows)
      BY ConcatProperties
    <3>2. <<c>> \in Seq(ChunkRows)
      OBVIOUS
    <3>3. Append(t, c) = t \o <<c>> /\ Append(log \o t, c) = (log \o t) \o <<c>>
      BY <3>1, AppendIsConcat
    <3>4. (log \o t) \o <<c>> = log \o (t \o <<c>>)
      BY <2>3, <3>1, <3>2, ChunksAssociate
    <3> QED
      BY <3>1, <3>3, <3>4
  <2>7. Content(log \o s) = (Content(log) \o Content(t)) \o c.bytes
    BY <2>3, <2>5, <2>6, ContentAppend
  <2>8. Content(s) = Content(t) \o c.bytes
    BY <2>3, ContentAppend
  <2>9. (Content(log) \o Content(t)) \o c.bytes = Content(log) \o (Content(t) \o c.bytes)
    <3>1. c.bytes \in Seq(Bytes)
      BY DEF ChunkRows
    <3>2. Content(log) \in Seq(Bytes) /\ Content(t) \in Seq(Bytes)
      BY ContentType
    <3>3. \A a, b, d \in Seq(Bytes) : (a \o b) \o d = a \o (b \o d)
      BY BytesAssociate
    <3> QED
      BY <3>1, <3>2, <3>3, Zenon
  <2> QED
    BY <2>7, <2>8, <2>9
<1>3. \A n \in Nat : n \in S
  <2>1. \A n \in Nat : n \in S => n + 1 \in S
    BY <1>2
  <2> HIDE DEF S
  <2> QED
    BY <1>1, <2>1, NumbersInduction
<1>4. Len(more) \in Nat
  BY LenProperties
<1>5. Len(more) \in S
  BY <1>3, <1>4
<1> QED
  BY <1>5


-----------------------------------------------------------------------------
(* Sequences, subsequences and sets of positions *)

(* A set of positions that is closed downwards is an initial segment. *)
LEMMA InitialSegment ==
  ASSUME NEW N \in Nat, NEW D \in SUBSET (1..N),
         \A i \in D : \A j \in 1..i : j \in D
  PROVE  Cardinality(D) \in 0..N /\ D = 1..Cardinality(D)
<1> DEFINE R == {k \in 1..N + 1 : k \notin D}
<1>1. N + 1 \in R
  OBVIOUS
<1>2. R \in SUBSET Nat /\ R # {}
  BY <1>1
<1>3. PICK m \in R : \A k \in R : m <= k
  <2> HIDE DEF R
  <2> QED
    BY <1>2, LeastElement
<1>4. m \in 1..N + 1 /\ m \notin D
  BY <1>3
<1>5. \A k \in 1..m - 1 : k \in D
  BY <1>3, <1>4
<1>6. \A k \in D : k <= m - 1
  BY <1>4
<1>7. D = 1..m - 1
  <2>1. \A k : k \in D => k \in 1..m - 1
    BY <1>6
  <2>2. \A k : k \in 1..m - 1 => k \in D
    BY <1>5
  <2> QED
    BY <2>1, <2>2
<1>8. Cardinality(1..m - 1) = m - 1
  <2>1. 1 \in Int /\ m - 1 \in Int
    BY <1>4
  <2>2. Cardinality(1..m - 1) = IF 1 > m - 1 THEN 0 ELSE m - 1 - 1 + 1
    BY <2>1, FS_Interval
  <2> QED
    BY <1>4, <2>2
<1> QED
  BY <1>4, <1>7, <1>8

(* Initial and final parts of a sequence. *)
LEMMA PartTypes ==
  ASSUME NEW T, NEW s \in Seq(T), NEW m \in 1..Len(s) + 1, NEW n \in m - 1..Len(s)
  PROVE  /\ SubSeq(s, m, n) \in Seq(T) /\ Len(SubSeq(s, m, n)) = n - m + 1
         /\ \A i \in 1..n - m + 1 : SubSeq(s, m, n)[i] = s[m + i - 1]
<1>1. Len(s) \in Nat /\ m \in Int /\ n \in Int
  BY LenProperties
<1>2. \A i \in m..n : s[i] \in T
  BY <1>1, ElementOfSeq
<1>3. /\ SubSeq(s, m, n) \in Seq(T)
      /\ Len(SubSeq(s, m, n)) = IF m <= n THEN n - m + 1 ELSE 0
      /\ \A i \in 1..n - m + 1 : SubSeq(s, m, n)[i] = s[m + i - 1]
  BY <1>1, <1>2, SubSeqProperties
<1> QED
  BY <1>1, <1>3

(* The content of a range of chunks is that of its two parts.                *)
LEMMA ContentSplit ==
  ASSUME NEW log \in Seq(ChunkRows), NEW m \in 1..Len(log) + 1, NEW k \in m - 1..Len(log),
         NEW n \in k..Len(log)
  PROVE  Content(SubSeq(log, m, n)) = Content(SubSeq(log, m, k)) \o Content(SubSeq(log, k + 1, n))
<1>1. Len(log) \in Nat /\ k \in m - 1..Len(log) /\ n \in m - 1..Len(log) /\ k + 1 \in 1..Len(log) + 1
  BY LenProperties
<1>2. SubSeq(log, m, k) \in Seq(ChunkRows) /\ SubSeq(log, k + 1, n) \in Seq(ChunkRows)
  BY <1>1, PartTypes
<1>3. SubSeq(log, m, k) \o SubSeq(log, k + 1, n) = SubSeq(log, m, n)
  BY <1>1, ConcatAdjacentSubSeq
<1> QED
  BY <1>2, <1>3, ContentConcat

(* Chunks are numbered from 1; this is what their readers rely on. *)
Numbered(log) == \A i \in 1..Len(log) : log[i].sequence = i

(* LastSequence of a log numbered from 1 is its length.                      *)
LEMMA LastOfNumbered ==
  ASSUME NEW log \in Seq(ChunkRows), Numbered(log)
  PROVE  LastSequence(log) = Len(log)
<1>1. CASE log = <<>>
  BY <1>1 DEF LastSequence
<1>2. CASE log # <<>>
  <2>1. Len(log) \in Nat \ {0}
    BY <1>2, EmptySeq
  <2>2. LastSequence(log) = log[Len(log)].sequence
    BY <1>2 DEF LastSequence, Last
  <2> QED
    BY <2>1, <2>2 DEF Numbered
<1> QED
  BY <1>1, <1>2

(* What ReadLogChunksAfter answers for it: the chunks behind the position.   *)
LEMMA AfterOfNumbered ==
  ASSUME NEW log \in Seq(ChunkRows), Numbered(log), NEW s \in 0..Len(log)
  PROVE  After(log, s) = SubSeq(log, s + 1, Len(log))
<1> DEFINE D == {i \in DOMAIN log : log[i].sequence <= s}
<1>1. Len(log) \in Nat /\ DOMAIN log = 1..Len(log)
  BY LenProperties
<1>2. D = 1..s
  BY <1>1 DEF Numbered
<1>3. Cardinality(1..s) = s
  BY <1>1, FS_Interval
<1> QED
  BY <1>2, <1>3 DEF After

-----------------------------------------------------------------------------
(* The operators of appendLogBytesTx and trimLogTailTx *)

(* The marker, a line and a fragment are bytes.                              *)
LEMMA BytesTypes ==
  /\ Marker \in Seq(Bytes) /\ Len(Marker) = MarkerBytes
  /\ \A p \in Pods, i, n \in Nat : LineBytes(p, i, n) \in Seq(Bytes) /\ Len(LineBytes(p, i, n)) = n
  /\ \A p \in Pods : Fragment(p) \in Seq(Bytes)
<1>1. ASSUME NEW n \in Nat, NEW s \in [1..n -> Bytes]
      PROVE  s \in Seq(Bytes) /\ Len(s) = n
  BY <1>1
<1>2. Marker \in [1..MarkerBytes -> Bytes] /\ MarkerBytes \in Nat
  BY PodLogsAssumption DEF Marker, Bytes
<1>3. ASSUME NEW p \in Pods, NEW i \in Nat, NEW n \in Nat
      PROVE  LineBytes(p, i, n) \in [1..n -> Bytes]
  BY DEF LineBytes, Bytes
<1>4. ASSUME NEW p \in Pods PROVE Fragment(p) \in Seq(Bytes)
  <2>1. <<p, 0>> \in Bytes
    BY DEF Bytes
  <2> QED
    BY <2>1 DEF Fragment
<1>5. ASSUME NEW p \in Pods, NEW i \in Nat, NEW n \in Nat
      PROVE  LineBytes(p, i, n) \in Seq(Bytes) /\ Len(LineBytes(p, i, n)) = n
  BY <1>1, <1>3
<1>6. Marker \in Seq(Bytes) /\ Len(Marker) = MarkerBytes
  BY <1>1, <1>2
<1> QED
  BY <1>4, <1>5, <1>6

(* How many chunks hold l bytes, and where the k-th of them ends. *)
Count(l) == (l + ChunkBytes - 1) \div ChunkBytes
(* Where the k-th of these chunks ends.                                      *)
Upper(l, k) == IF k = Count(l) THEN l ELSE k * ChunkBytes

(* Each chunk ends where the next one begins, the last one at the end of     *)
(* the bytes.                                                                *)
LEMMA Pieces ==
  ASSUME NEW l \in Nat
  PROVE  /\ Count(l) \in Nat /\ Upper(l, Count(l)) = l /\ Upper(l, 0) = 0
         /\ \A k \in 1..Count(l) : /\ Upper(l, k - 1) = (k - 1) * ChunkBytes
                                   /\ Upper(l, k - 1) \in 0..l /\ Upper(l, k) \in Upper(l, k - 1)..l
<1>1. ChunkBytes \in Nat /\ ChunkBytes > 0
  BY PodLogsAssumption
<1> DEFINE q == Count(l)
<1>2. q \in Nat /\ q * ChunkBytes <= l + ChunkBytes - 1 /\ l + ChunkBytes - 1 < (q + 1) * ChunkBytes
  BY <1>1 DEF Count
<1>3. l <= q * ChunkBytes /\ (q = 0 => l = 0)
  BY <1>1, <1>2
<1>4. ASSUME NEW k \in 1..q PROVE (k - 1) * ChunkBytes \in 0..l /\ (k # q => k * ChunkBytes \in (k - 1) * ChunkBytes..l)
  <2>1. (q - 1) * ChunkBytes <= l
    BY <1>1, <1>2
  <2>2. (k - 1) * ChunkBytes <= (q - 1) * ChunkBytes /\ 0 <= (k - 1) * ChunkBytes
    BY <1>1, <1>2
  <2>3. k # q => k * ChunkBytes <= (q - 1) * ChunkBytes
    BY <1>1, <1>2
  <2>4. (k - 1) * ChunkBytes \in Nat /\ k * ChunkBytes \in Nat /\ (k - 1) * ChunkBytes <= k * ChunkBytes
    BY <1>1, <1>2
  <2>5. \A a, b \in Int : a <= b /\ b <= l => a <= l
    OBVIOUS
  <2>6. (q - 1) * ChunkBytes \in Int /\ (k - 1) * ChunkBytes \in Int /\ k * ChunkBytes \in Int
    BY <1>1, <1>2
  <2>7. (k - 1) * ChunkBytes <= l
    BY <2>1, <2>2, <2>5, <2>6, Zenon
  <2>8. k # q => k * ChunkBytes <= l
    BY <2>1, <2>3, <2>5, <2>6, Zenon
  <2> QED
    BY <2>4, <2>7, <2>8
<1>5. Upper(l, q) = l /\ Upper(l, 0) = 0
  BY <1>1, <1>3 DEF Upper
<1>6. ASSUME NEW k \in 1..q
      PROVE  /\ Upper(l, k - 1) = (k - 1) * ChunkBytes
             /\ Upper(l, k - 1) \in 0..l /\ Upper(l, k) \in Upper(l, k - 1)..l
  <2>1. k - 1 # q
    BY <1>2
  <2>2. Upper(l, k - 1) = (k - 1) * ChunkBytes
    BY <2>1 DEF Upper
  <2>3. Upper(l, k) = IF k = q THEN l ELSE k * ChunkBytes
    BY DEF Upper
  <2> HIDE DEF q
  <2> QED
    BY <1>4, <2>2, <2>3
<1> QED
  BY <1>2, <1>5, <1>6

(* appendLogBytesTx adds the bytes, in chunks numbered on. *)
ChunksOf(last, bytes) ==
  [k \in 1..Count(Len(bytes)) |->
     [sequence |-> last + k,
      bytes |-> SubSeq(bytes, (k - 1) * ChunkBytes + 1, Upper(Len(bytes), k))]]

(* These chunks are rows of log_chunks, numbered on and cut at those         *)
(* bounds.                                                                   *)
LEMMA ChunksOfType ==
  ASSUME NEW last \in Nat, NEW bytes \in Seq(Bytes)
  PROVE  /\ ChunksOf(last, bytes) \in Seq(ChunkRows) /\ Len(ChunksOf(last, bytes)) = Count(Len(bytes))
         /\ \A k \in 1..Count(Len(bytes)) :
              /\ ChunksOf(last, bytes)[k].sequence = last + k
              /\ ChunksOf(last, bytes)[k].bytes = SubSeq(bytes, Upper(Len(bytes), k - 1) + 1, Upper(Len(bytes), k))
<1>1. Len(bytes) \in Nat /\ Count(Len(bytes)) \in Nat
  BY LenProperties, Pieces
<1>2. ASSUME NEW k \in 1..Count(Len(bytes))
      PROVE  /\ Upper(Len(bytes), k - 1) = (k - 1) * ChunkBytes
             /\ SubSeq(bytes, (k - 1) * ChunkBytes + 1, Upper(Len(bytes), k)) \in Seq(Bytes)
  <2>1. /\ Upper(Len(bytes), k - 1) = (k - 1) * ChunkBytes
        /\ Upper(Len(bytes), k - 1) \in 0..Len(bytes)
        /\ Upper(Len(bytes), k) \in Upper(Len(bytes), k - 1)..Len(bytes)
    BY <1>1, Pieces
  <2>2. ASSUME NEW a \in 0..Len(bytes), NEW b \in a..Len(bytes) PROVE SubSeq(bytes, a + 1, b) \in Seq(Bytes)
    <3>1. a + 1 \in 1..Len(bytes) + 1 /\ b \in a + 1 - 1..Len(bytes)
      BY <1>1
    <3> QED
      BY <3>1, PartTypes
  <2>3. SubSeq(bytes, Upper(Len(bytes), k - 1) + 1, Upper(Len(bytes), k)) \in Seq(Bytes)
    BY <2>1, <2>2
  <2> QED
    BY <2>1, <2>3
<1> DEFINE row(k) == [sequence |-> last + k,
                      bytes |-> SubSeq(bytes, (k - 1) * ChunkBytes + 1, Upper(Len(bytes), k))]
<1>3. \A k \in 1..Count(Len(bytes)) : row(k) \in ChunkRows
  BY <1>2 DEF ChunkRows
<1>4. ChunksOf(last, bytes) = [k \in 1..Count(Len(bytes)) |-> row(k)]
  BY DEF ChunksOf
<1>5. ASSUME NEW n \in Nat, NEW s \in [1..n -> ChunkRows] PROVE s \in Seq(ChunkRows) /\ Len(s) = n
  BY <1>5
<1>6. \A k \in 1..Count(Len(bytes)) :
        /\ row(k).sequence = last + k
        /\ row(k).bytes = SubSeq(bytes, Upper(Len(bytes), k - 1) + 1, Upper(Len(bytes), k))
  BY <1>2
<1> HIDE DEF row
<1>7. /\ ChunksOf(last, bytes) \in [1..Count(Len(bytes)) -> ChunkRows]
      /\ \A k \in 1..Count(Len(bytes)) : ChunksOf(last, bytes)[k] = row(k)
  BY <1>3, <1>4
<1>8. ChunksOf(last, bytes) \in Seq(ChunkRows) /\ Len(ChunksOf(last, bytes)) = Count(Len(bytes))
  BY <1>1, <1>5, <1>7
<1> QED
  BY <1>6, <1>7, <1>8

(* Together they hold the bytes: by induction over the chunks.               *)
LEMMA ChunksOfContent ==
  ASSUME NEW last \in Nat, NEW bytes \in Seq(Bytes)
  PROVE  Content(ChunksOf(last, bytes)) = bytes
<1> DEFINE c == ChunksOf(last, bytes)
           q == Count(Len(bytes))
           u(k) == Upper(Len(bytes), k)
           S == {k \in Nat : k <= q => Content(SubSeq(c, 1, k)) = SubSeq(bytes, 1, u(k))}
<1>1. /\ Len(bytes) \in Nat /\ q \in Nat /\ u(q) = Len(bytes) /\ u(0) = 0
      /\ \A k \in 1..q : u(k - 1) \in 0..Len(bytes) /\ u(k) \in u(k - 1)..Len(bytes)
  BY LenProperties, Pieces
<1>2. /\ c \in Seq(ChunkRows) /\ Len(c) = q
      /\ \A k \in 1..q : c[k].bytes = SubSeq(bytes, u(k - 1) + 1, u(k))
  BY ChunksOfType
<1> HIDE DEF c, q, u
<1>3. 0 \in S
  <2>1. SubSeq(c, 1, 0) = <<>> /\ SubSeq(bytes, 1, 0) = <<>>
    BY SubSeqEmpty
  <2> QED
    BY <1>1, <2>1, ContentEmpty
<1>4. ASSUME NEW k \in Nat, k \in S PROVE k + 1 \in S
  <2>1. SUFFICES ASSUME k + 1 <= q
                 PROVE  Content(SubSeq(c, 1, k + 1)) = SubSeq(bytes, 1, u(k + 1))
    OBVIOUS
  <2>2. k + 1 \in 1..q /\ k + 1 - 1 = k /\ Content(SubSeq(c, 1, k)) = SubSeq(bytes, 1, u(k))
    BY <1>1, <1>4, <2>1
  <2>3. u(k) \in 0..Len(bytes) /\ u(k + 1) \in u(k)..Len(bytes) /\ c[k + 1].bytes = SubSeq(bytes, u(k) + 1, u(k + 1))
    <3>1. \A j \in 1..q : /\ u(j - 1) \in 0..Len(bytes) /\ u(j) \in u(j - 1)..Len(bytes)
                          /\ c[j].bytes = SubSeq(bytes, u(j - 1) + 1, u(j))
      BY <1>1, <1>2
    <3> QED
      BY <2>2, <3>1
  <2>4. SubSeq(c, 1, k) \in Seq(ChunkRows) /\ c[k + 1] \in ChunkRows
        /\ SubSeq(c, 1, k + 1) = Append(SubSeq(c, 1, k), c[k + 1])
    <3>1. k \in 0..Len(c) /\ k + 1 \in 1..Len(c) /\ 1 \in 1..Len(c)
      BY <1>1, <1>2, <2>2
    <3>2. SubSeq(c, 1, k) \in Seq(ChunkRows) /\ c[k + 1] \in ChunkRows
      BY <1>2, <3>1, PartTypes, ElementOfSeq
    <3>3. SubSeq(c, 1, k + 1) = SubSeq(c, 1, k + 1 - 1) \o <<c[k + 1]>>
      BY <1>2, <2>2, <3>1, SubSeqRecursiveSecond
    <3> QED
      BY <2>2, <3>2, <3>3, AppendIsConcat
  <2>5. Content(SubSeq(c, 1, k + 1)) = SubSeq(bytes, 1, u(k)) \o SubSeq(bytes, u(k) + 1, u(k + 1))
    BY <2>2, <2>3, <2>4, ContentAppend
  <2>6. ASSUME NEW a \in 0..Len(bytes), NEW b \in a..Len(bytes)
        PROVE  SubSeq(bytes, 1, a) \o SubSeq(bytes, a + 1, b) = SubSeq(bytes, 1, b)
    <3>1. 1 \in 1..Len(bytes) + 1 /\ a \in 1 - 1..Len(bytes)
      BY <1>1
    <3> QED
      BY <3>1, ConcatAdjacentSubSeq
  <2> QED
    BY <2>3, <2>5, <2>6
<1>5. \A k \in Nat : k \in S
  <2>1. \A k \in Nat : k \in S => k + 1 \in S
    BY <1>4
  <2> HIDE DEF S
  <2> QED
    BY <1>3, <2>1, NumbersInduction
<1>6. Content(SubSeq(c, 1, q)) = SubSeq(bytes, 1, u(q))
  BY <1>1, <1>5
<1>7. SubSeq(c, 1, q) = c /\ SubSeq(bytes, 1, Len(bytes)) = bytes
  BY <1>2, SubSeqFull
<1>8. Content(c) = bytes
  BY <1>1, <1>6, <1>7
<1> QED
  BY <1>8 DEF c

(* appendLogBytesTx keeps the numbering and the chunks there are, and adds   *)
(* the bytes.                                                                *)
LEMMA ChunkedFacts ==
  ASSUME NEW log \in Seq(ChunkRows), NEW bytes \in Seq(Bytes), Numbered(log)
  PROVE  /\ Chunked(log, bytes) \in Seq(ChunkRows) /\ Numbered(Chunked(log, bytes))
         /\ Content(Chunked(log, bytes)) = Content(log) \o bytes
         /\ Len(Chunked(log, bytes)) >= Len(log)
         /\ \A i \in 1..Len(log) : Chunked(log, bytes)[i] = log[i]
<1> DEFINE more == ChunksOf(Len(log), bytes)
           q == Count(Len(bytes))
<1>1. Len(log) \in Nat /\ Len(bytes) \in Nat /\ q \in Nat
  BY LenProperties, Pieces
<1>2. Chunked(log, bytes) = log \o more
  BY LastOfNumbered DEF Chunked, ChunksOf, Upper, Count
<1>3. more \in Seq(ChunkRows) /\ Len(more) = q /\ \A k \in 1..q : more[k].sequence = Len(log) + k
  BY <1>1, ChunksOfType
<1>4. Content(more) = bytes
  BY <1>1, ChunksOfContent
<1> HIDE DEF more, q
<1>5. /\ log \o more \in Seq(ChunkRows) /\ Len(log \o more) = Len(log) + q
      /\ \A i \in 1..Len(log) + q : (log \o more)[i] = IF i <= Len(log) THEN log[i] ELSE more[i - Len(log)]
  BY <1>3, ConcatProperties
<1>6. Numbered(log \o more)
  <2>1. SUFFICES ASSUME NEW i \in 1..Len(log) + q PROVE (log \o more)[i].sequence = i
    BY <1>5 DEF Numbered
  <2>2. CASE i \in 1..Len(log)
    <3>1. (log \o more)[i] = log[i]
      BY <1>1, <1>5, <2>2
    <3> QED
      BY <2>2, <3>1 DEF Numbered
  <2>3. CASE i \notin 1..Len(log)
    <3>1. i - Len(log) \in 1..q /\ (log \o more)[i] = more[i - Len(log)] /\ Len(log) + (i - Len(log)) = i
      BY <1>1, <1>5, <2>3
    <3> QED
      BY <1>3, <3>1
  <2> QED
    BY <2>2, <2>3
<1>7. Content(log \o more) = Content(log) \o bytes
  BY <1>3, <1>4, ContentConcat
<1>8. Len(log \o more) >= Len(log) /\ \A i \in 1..Len(log) : (log \o more)[i] = log[i]
  BY <1>1, <1>5
<1> QED
  BY <1>2, <1>5, <1>6, <1>7, <1>8

(* Cutting a concatenation within its second part. *)
LEMMA CutConcat ==
  ASSUME NEW T, NEW a \in Seq(T), NEW b \in Seq(T), NEW d \in Seq(T), NEW k \in 0..Len(b)
  PROVE  SubSeq((a \o b) \o d, 1, Len(a) + k) = a \o SubSeq(b, 1, k)
<1> DEFINE s == (a \o b) \o d
           t == SubSeq(s, 1, Len(a) + k)
           u == SubSeq(b, 1, k)
           v == a \o u
<1>1. Len(a) \in Nat /\ Len(b) \in Nat /\ Len(d) \in Nat
  BY LenProperties
<1>2. /\ a \o b \in Seq(T) /\ Len(a \o b) = Len(a) + Len(b)
      /\ \A i \in 1..Len(a) + Len(b) : (a \o b)[i] = IF i <= Len(a) THEN a[i] ELSE b[i - Len(a)]
  BY ConcatProperties
<1>3. /\ s \in Seq(T) /\ Len(s) = Len(a) + Len(b) + Len(d)
      /\ \A i \in 1..Len(a) + Len(b) : s[i] = (a \o b)[i]
  <2>1. /\ s \in Seq(T) /\ Len(s) = Len(a \o b) + Len(d)
        /\ \A i \in 1..Len(a \o b) + Len(d) : s[i] = IF i <= Len(a \o b) THEN (a \o b)[i] ELSE d[i - Len(a \o b)]
    BY <1>2, ConcatProperties
  <2> HIDE DEF s
  <2> QED
    BY <1>1, <1>2, <2>1
<1> HIDE DEF s
<1>4. t \in Seq(T) /\ Len(t) = Len(a) + k /\ \A i \in 1..Len(a) + k : t[i] = s[i]
  <2>1. 1 \in 1..Len(s) + 1 /\ Len(a) + k \in 1 - 1..Len(s)
    BY <1>1, <1>3
  <2>2. /\ t \in Seq(T) /\ Len(t) = Len(a) + k - 1 + 1
        /\ \A i \in 1..Len(a) + k - 1 + 1 : t[i] = s[1 + i - 1]
    BY <1>3, <2>1, PartTypes
  <2> HIDE DEF t
  <2> QED
    BY <1>1, <2>2
<1>5. u \in Seq(T) /\ Len(u) = k /\ \A i \in 1..k : u[i] = b[i]
  <2>1. 1 \in 1..Len(b) + 1 /\ k \in 1 - 1..Len(b)
    BY <1>1
  <2>2. u \in Seq(T) /\ Len(u) = k - 1 + 1 /\ \A i \in 1..k - 1 + 1 : u[i] = b[1 + i - 1]
    BY <2>1, PartTypes
  <2> HIDE DEF u
  <2> QED
    BY <1>1, <2>2
<1> HIDE DEF t, u
<1>6. /\ v \in Seq(T) /\ Len(v) = Len(a) + k
      /\ \A i \in 1..Len(a) + k : v[i] = IF i <= Len(a) THEN a[i] ELSE u[i - Len(a)]
  BY <1>5, ConcatProperties
<1> HIDE DEF v
<1>7. ASSUME NEW i \in 1..Len(a) + k PROVE t[i] = v[i]
  <2>0. i \in 1..Len(a) + Len(b)
    BY <1>1
  <2>1. t[i] = IF i <= Len(a) THEN a[i] ELSE b[i - Len(a)]
    BY <1>2, <1>3, <1>4, <2>0
  <2>2. i > Len(a) => u[i - Len(a)] = b[i - Len(a)]
    BY <1>1, <1>5
  <2>3. i \in Int /\ Len(a) \in Int
    BY <1>1
  <2> QED
    BY <1>6, <2>1, <2>2, <2>3
<1>8. t = v
  BY <1>4, <1>6, <1>7, SeqEqual
<1> QED
  BY <1>8 DEF t, v, s, u

(* The same of bytes, for any of them.                                      *)
LEMMA BytesCut ==
  \A b, c, d \in Seq(Bytes) : \A k \in 0..Len(c) :
    SubSeq((b \o c) \o d, 1, Len(b) + k) = b \o SubSeq(c, 1, k)
<1> SUFFICES ASSUME NEW b \in Seq(Bytes), NEW c \in Seq(Bytes), NEW d \in Seq(Bytes),
                    NEW k \in 0..Len(c)
             PROVE  SubSeq((b \o c) \o d, 1, Len(b) + k) = b \o SubSeq(c, 1, k)
  OBVIOUS
<1> QED
  BY CutConcat

(* trimLogTailTx takes the newest n bytes away and renumbers nothing. *)
LEMMA TrimmedFacts ==
  ASSUME NEW log \in Seq(ChunkRows), Numbered(log), NEW n \in 0..Len(Content(log))
  PROVE  /\ Trimmed(log, n) \in Seq(ChunkRows) /\ Numbered(Trimmed(log, n))
         /\ Content(Trimmed(log, n)) = SubSeq(Content(log), 1, Len(Content(log)) - n)
<1> DEFINE len(i) == Len(Content(SubSeq(log, 1, i)))
           total == Len(Content(log))
           left(i) == total - n - len(i - 1)
           cut(i) == IF left(i) >= Len(log[i].bytes) THEN log[i]
                     ELSE [log[i] EXCEPT !.bytes = SubSeq(@, 1, left(i))]
           D == {i \in DOMAIN log : left(i) > 0}
           m == Cardinality(D)
           r == [i \in 1..m |-> cut(i)]
<1>1. Len(log) \in Nat /\ DOMAIN log = 1..Len(log) /\ total \in Nat
  BY LenProperties, ContentType
<1>2. ASSUME NEW i \in 0..Len(log), NEW j \in 0..i
      PROVE  /\ SubSeq(log, 1, i) \in Seq(ChunkRows) /\ Content(SubSeq(log, 1, i)) \in Seq(Bytes)
             /\ len(i) \in Nat /\ len(j) \in Nat /\ len(j) <= len(i)
  <2>1. 1 \in 1..Len(log) + 1 /\ j \in 1 - 1..Len(log) /\ i \in j..Len(log) /\ i \in 1 - 1..Len(log)
        /\ j + 1 \in 1..Len(log) + 1 /\ i \in j + 1 - 1..Len(log)
    BY <1>1
  <2>2. SubSeq(log, 1, i) \in Seq(ChunkRows) /\ SubSeq(log, 1, j) \in Seq(ChunkRows) /\ SubSeq(log, j + 1, i) \in Seq(ChunkRows)
    BY <2>1, PartTypes
  <2>3. Content(SubSeq(log, 1, i)) = Content(SubSeq(log, 1, j)) \o Content(SubSeq(log, j + 1, i))
    BY <2>1, ContentSplit
  <2>4. Content(SubSeq(log, 1, i)) \in Seq(Bytes) /\ Content(SubSeq(log, 1, j)) \in Seq(Bytes) /\ Content(SubSeq(log, j + 1, i)) \in Seq(Bytes)
    BY <2>2, ContentType
  <2>5. len(i) \in Nat /\ len(j) \in Nat /\ Len(Content(SubSeq(log, j + 1, i))) \in Nat
    BY <2>4, LenProperties
  <2>6. len(i) = len(j) + Len(Content(SubSeq(log, j + 1, i)))
    BY <2>3, <2>4, ConcatProperties
  <2> QED
    BY <2>2, <2>4, <2>5, <2>6
<1>3. ASSUME NEW i \in 1..Len(log)
      PROVE  /\ log[i] \in ChunkRows /\ log[i].bytes \in Seq(Bytes) /\ Len(log[i].bytes) \in Nat
             /\ Content(SubSeq(log, 1, i)) = Content(SubSeq(log, 1, i - 1)) \o log[i].bytes
             /\ len(i) = len(i - 1) + Len(log[i].bytes)
  <2>1. 1 \in 1..Len(log) /\ i \in 1..Len(log) /\ i - 1 \in 0..Len(log) /\ i - 1 \in 0..i - 1
    BY <1>1
  <2>2. log[i] \in ChunkRows /\ SubSeq(log, 1, i - 1) \in Seq(ChunkRows) /\ Content(SubSeq(log, 1, i - 1)) \in Seq(Bytes)
    BY <1>2, <2>1, ElementOfSeq
  <2>3. log[i].bytes \in Seq(Bytes) /\ Len(log[i].bytes) \in Nat
    BY <2>2, LenProperties DEF ChunkRows
  <2>4. SubSeq(log, 1, i) = SubSeq(log, 1, i - 1) \o <<log[i]>>
    BY <2>1, SubSeqRecursiveSecond
  <2>5. SubSeq(log, 1, i) = Append(SubSeq(log, 1, i - 1), log[i])
    BY <2>2, <2>4, AppendIsConcat
  <2>6. Content(SubSeq(log, 1, i)) = Content(SubSeq(log, 1, i - 1)) \o log[i].bytes
    BY <2>2, <2>5, ContentAppend
  <2>7. len(i) = len(i - 1) + Len(log[i].bytes)
    BY <2>2, <2>3, <2>6, ConcatProperties
  <2> QED
    BY <2>2, <2>3, <2>6, <2>7
<1>4. len(Len(log)) = total /\ len(0) = 0 /\ Content(SubSeq(log, 1, 0)) = <<>>
  <2>1. SubSeq(log, 1, Len(log)) = log
    BY SubSeqFull
  <2>2. SubSeq(log, 1, 0) = <<>>
    BY SubSeqEmpty
  <2>3. Len(<<>>) = 0
    OBVIOUS
  <2> QED
    BY <2>1, <2>2, <2>3, ContentEmpty
<1>5. Trimmed(log, n) = r
  BY DEF Trimmed
<1> HIDE DEF len, total
<1>6. m \in 0..Len(log) /\ D = 1..m
  <2>1. D \in SUBSET (1..Len(log))
    BY <1>1
  <2>2. ASSUME NEW i \in D, NEW j \in 1..i PROVE j \in D
    <3>1. i \in 1..Len(log) /\ left(i) > 0 /\ j \in DOMAIN log
      BY <1>1
    <3>2. i - 1 \in 0..Len(log) /\ j - 1 \in 0..i - 1
      BY <1>1, <3>1
    <3>3. len(i - 1) \in Nat /\ len(j - 1) \in Nat /\ len(j - 1) <= len(i - 1)
      BY <1>2, <3>2
    <3>4. left(j) > 0
      BY <1>1, <3>1, <3>3
    <3> QED
      BY <3>1, <3>4
  <2> HIDE DEF D
  <2> QED
    BY <1>1, <2>1, <2>2, InitialSegment
<1>61. \A i \in 1..Len(log) : i <= m <=> left(i) > 0
  <2>1. \A i \in 1..Len(log) : i \in D <=> left(i) > 0
    BY <1>1
  <2> HIDE DEF m, left, D
  <2> QED
    BY <1>1, <1>6, <2>1
<1>62. ASSUME NEW i \in 1..Len(log) PROVE left(i + 1) = total - n - len(i)
  <2>1. i + 1 - 1 = i
    BY <1>1
  <2> QED
    BY <2>1
<1> HIDE DEF D, m
<1>7. CASE m = 0
  <2>1. r = <<>>
    <3>1. r \in [1..0 -> ChunkRows]
      BY <1>7
    <3> HIDE DEF r
    <3>2. r \in Seq(ChunkRows) /\ Len(r) = 0
      BY <3>1
    <3> QED
      BY <3>2, EmptySeq
  <2>2. total - n = 0
    <3>1. CASE Len(log) = 0
      BY <1>1, <1>4, <3>1 DEF total
    <3>2. CASE Len(log) # 0
      <4>1. 1 \in 1..Len(log) /\ ~(1 <= m)
        BY <1>1, <1>7, <3>2
      <4>2. ~(left(1) > 0)
        BY <1>61, <4>1
      <4>3. left(1) = total - n - len(0) /\ n \in 0..total
        BY DEF total
      <4> QED
        BY <1>1, <1>4, <4>2, <4>3
    <3> QED
      BY <3>1, <3>2
  <2>3. SubSeq(Content(log), 1, total - n) = <<>>
    BY <2>2, SubSeqEmpty
  <2>4. <<>> \in Seq(ChunkRows) /\ Numbered(<<>>)
    BY DEF Numbered
  <2> QED
    BY <1>5, <2>1, <2>3, <2>4, ContentEmpty DEF total
<1>8. CASE m # 0
  <2> DEFINE a == SubSeq(log, 1, m - 1)
             x == cut(m)
  <2>1. m \in 1..Len(log) /\ m - 1 \in 0..Len(log)
    BY <1>1, <1>6, <1>8
  <2>2. /\ left(m) \in 1..Len(log[m].bytes)
        /\ \A i \in 1..m - 1 : left(i) >= Len(log[i].bytes)
    <3>1. ASSUME NEW i \in 1..Len(log)
          PROVE  left(i) \in Int /\ left(i + 1) \in Int /\ left(i + 1) = left(i) - Len(log[i].bytes) /\ Len(log[i].bytes) \in Nat
      <4>1. len(i - 1) \in Nat /\ len(i) \in Nat
        <5>1. i - 1 \in 0..i /\ i \in 0..Len(log)
          BY <1>1
        <5> QED
          BY <1>2, <5>1
      <4>2. len(i) = len(i - 1) + Len(log[i].bytes) /\ Len(log[i].bytes) \in Nat
        BY <1>3
      <4>3. i + 1 - 1 = i /\ n \in Int /\ total \in Int
        BY <1>1 DEF total
      <4> QED
        BY <4>1, <4>2, <4>3
    <3>2. left(m) > 0
      <4>1. m <= m
        BY <2>1
      <4> HIDE DEF left
      <4> QED
        BY <1>61, <2>1, <4>1
    <3>3. left(m + 1) <= 0
      <4>1. CASE m = Len(log)
        <5>0. n \in Nat
          BY <1>1 DEF total
        <5>1. m + 1 - 1 = m /\ len(m) = total
          <6>1. m + 1 - 1 = m
            BY <1>1, <2>1
          <6>2. len(m) = total
            BY <1>4, <4>1, Zenon
          <6> QED
            BY <6>1, <6>2
        <5>2. left(m + 1) = total - n - len(m)
          BY <1>62, <2>1
        <5> HIDE DEF left
        <5> QED
          BY <1>1, <5>0, <5>1, <5>2
      <4>2. CASE m # Len(log)
        <5>1. m + 1 \in 1..Len(log) /\ ~(m + 1 <= m)
          <6>1. \A k, j \in Nat : k \in 1..j /\ k # j => k + 1 \in 1..j /\ ~(k + 1 <= k)
            OBVIOUS
          <6>2. m \in Nat
            BY <1>1, <2>1
          <6> QED
            BY <1>1, <2>1, <4>2, <6>1, <6>2, Zenon
        <5>2. left(m + 1) \in Int
          BY <2>1, <3>1
        <5> HIDE DEF left
        <5>3. ~(left(m + 1) > 0)
          BY <1>61, <5>1
        <5> QED
          BY <5>2, <5>3
      <4> QED
        BY <4>1, <4>2
    <3>4. ASSUME NEW i \in 1..m - 1 PROVE left(i) >= Len(log[i].bytes)
      <4>1. i \in 1..Len(log) /\ i + 1 \in 1..Len(log) /\ i + 1 <= m
        BY <1>1, <2>1
      <4> HIDE DEF left
      <4>2. left(i + 1) > 0
        BY <1>61, <4>1
      <4> QED
        BY <3>1, <4>1, <4>2
    <3>5. left(m) \in 1..Len(log[m].bytes)
      <4> HIDE DEF left, m
      <4> QED
        BY <2>1, <3>1, <3>2, <3>3
    <3> QED
      BY <3>4, <3>5
  <2>3. /\ log[m] \in ChunkRows /\ log[m].bytes \in Seq(Bytes)
        /\ Content(SubSeq(log, 1, m)) = Content(a) \o log[m].bytes
        /\ a \in Seq(ChunkRows) /\ Content(a) \in Seq(Bytes) /\ Len(Content(a)) \in Nat
        /\ Len(a) = m - 1 /\ \A i \in 1..m - 1 : a[i] = log[i]
    <3>1. /\ log[m] \in ChunkRows /\ log[m].bytes \in Seq(Bytes)
          /\ Content(SubSeq(log, 1, m)) = Content(a) \o log[m].bytes
      BY <1>3, <2>1
    <3>2. 1 \in 1..Len(log) + 1 /\ m - 1 \in 1 - 1..Len(log)
      BY <1>1, <2>1
    <3>3. a \in Seq(ChunkRows) /\ Len(a) = m - 1 - 1 + 1 /\ \A i \in 1..m - 1 - 1 + 1 : a[i] = log[1 + i - 1]
      BY <3>2, PartTypes
    <3>4. Content(a) \in Seq(Bytes) /\ Len(Content(a)) \in Nat
      BY <3>3, ContentType
    <3> HIDE DEF a, m
    <3>5. Len(a) = m - 1 /\ \A i \in 1..m - 1 : a[i] = log[i]
      BY <2>1, <3>3
    <3> QED
      BY <3>1, <3>3, <3>4, <3>5
  <2>4. x \in ChunkRows /\ x.bytes = SubSeq(log[m].bytes, 1, left(m)) /\ x.sequence = log[m].sequence
    <3> DEFINE b == log[m].bytes
    <3>1. Len(b) \in Nat /\ 1 \in 1..Len(b) + 1 /\ left(m) \in 1 - 1..Len(b)
      BY <2>2, <2>3, LenProperties
    <3>2. SubSeq(b, 1, left(m)) \in Seq(Bytes)
      BY <2>3, <3>1, PartTypes
    <3>3. left(m) >= Len(b) => SubSeq(b, 1, left(m)) = b
      <4>1. left(m) >= Len(b) => left(m) = Len(b)
        BY <3>1
      <4>2. SubSeq(b, 1, Len(b)) = b
        BY <2>3, SubSeqFull
      <4> QED
        BY <4>1, <4>2
    <3>4. log[m] \in [sequence : Nat \ {0}, bytes : Seq(Bytes)]
      BY <2>3 DEF ChunkRows
    <3>5. CASE left(m) >= Len(b)
      <4>1. x = log[m]
        BY <3>5
      <4> QED
        BY <2>3, <3>3, <3>5, <4>1
    <3>6. CASE ~(left(m) >= Len(b))
      <4>1. x = [log[m] EXCEPT !.bytes = SubSeq(b, 1, left(m))]
        BY <3>6
      <4> HIDE DEF x, left, m, b
      <4>2. x \in [sequence : Nat \ {0}, bytes : Seq(Bytes)] /\ x.bytes = SubSeq(b, 1, left(m)) /\ x.sequence = log[m].sequence
        BY <3>2, <3>4, <4>1
      <4> QED
        BY <4>2 DEF ChunkRows, b
    <3> QED
      BY <3>5, <3>6
  <2>5. r = Append(a, x)
    <3>1. /\ Append(a, x) \in Seq(ChunkRows) /\ Len(Append(a, x)) = m
          /\ \A i \in 1..m - 1 : Append(a, x)[i] = log[i]
          /\ Append(a, x)[m] = x
      <4> HIDE DEF x, a, m
      <4>1. /\ Append(a, x) \in Seq(ChunkRows) /\ Len(Append(a, x)) = Len(a) + 1
            /\ \A i \in 1..Len(a) : Append(a, x)[i] = a[i]
            /\ Append(a, x)[Len(a) + 1] = x
        BY <2>3, <2>4, AppendProperties
      <4> QED
        BY <2>1, <2>3, <4>1
    <3>2. \A i \in 1..m - 1 : cut(i) = log[i]
      <4>1. \A i \in 1..m - 1 : left(i) >= Len(log[i].bytes)
        BY <2>2
      <4> HIDE DEF left, m
      <4> QED
        BY <4>1
    <3>3. \A i \in 1..m : cut(i) = Append(a, x)[i]
      <4>1. cut(m) = Append(a, x)[m]
        BY <3>1
      <4> HIDE DEF cut, a, x, m
      <4> QED
        BY <2>1, <3>1, <3>2, <4>1
    <3>4. \A i \in 1..m : cut(i) \in ChunkRows
      <4> HIDE DEF cut, a, x, m
      <4> QED
        BY <3>1, <3>3, ElementOfSeq
    <3> HIDE DEF cut, a, x, m
    <3>5. r \in Seq(ChunkRows) /\ Len(r) = m
      <4>1. r \in [1..m -> ChunkRows] /\ m \in Nat
        BY <2>1, <3>4
      <4> HIDE DEF r
      <4> QED
        BY <4>1
    <3>6. \A i \in 1..m : r[i] = cut(i)
      OBVIOUS
    <3> HIDE DEF r
    <3> QED
      BY <3>1, <3>3, <3>5, <3>6, SeqEqual
  <2>6. Numbered(Append(a, x))
    <3> HIDE DEF a, x, m
    <3>1. /\ Len(Append(a, x)) = Len(a) + 1
          /\ \A i \in 1..Len(a) : Append(a, x)[i] = a[i]
          /\ Append(a, x)[Len(a) + 1] = x
      BY <2>3, <2>4, AppendProperties
    <3>2. \A i \in 1..m : log[i].sequence = i
      BY <1>1, <2>1 DEF Numbered
    <3>3. SUFFICES ASSUME NEW i \in 1..m PROVE Append(a, x)[i].sequence = i
      BY <2>1, <2>3, <3>1 DEF Numbered
    <3>4. CASE i = m
      BY <2>1, <2>3, <2>4, <3>1, <3>2, <3>4
    <3>5. CASE i # m
      <4>1. i \in 1..m - 1
        BY <2>1, <3>5
      <4> QED
        BY <2>3, <3>1, <3>2, <4>1
    <3> QED
      BY <3>4, <3>5
  <2>7. Content(Append(a, x)) = Content(a) \o SubSeq(log[m].bytes, 1, left(m))
    <3> HIDE DEF a, x, m, left
    <3> QED
      BY <2>3, <2>4, ContentAppend
  <2>8. Content(log) = (Content(a) \o log[m].bytes) \o Content(SubSeq(log, m + 1, Len(log)))
        /\ Content(SubSeq(log, m + 1, Len(log))) \in Seq(Bytes)
    <3>1. /\ 1 \in 1..Len(log) + 1 /\ m \in 1 - 1..Len(log) /\ Len(log) \in m..Len(log)
          /\ m + 1 \in 1..Len(log) + 1 /\ Len(log) \in m + 1 - 1..Len(log)
      BY <1>1, <2>1
    <3>2. Content(SubSeq(log, 1, Len(log))) = Content(SubSeq(log, 1, m)) \o Content(SubSeq(log, m + 1, Len(log)))
      BY <3>1, ContentSplit
    <3>3. SubSeq(log, 1, Len(log)) = log
      BY SubSeqFull
    <3>4. SubSeq(log, m + 1, Len(log)) \in Seq(ChunkRows)
      BY <3>1, PartTypes
    <3> QED
      BY <2>3, <3>2, <3>3, <3>4, ContentType
  <2>9. Len(Content(a)) + left(m) = total - n
    <3>1. Len(Content(a)) = len(m - 1)
      BY DEF len
    <3> QED
      BY <1>1, <2>3, <3>1
  <2>10. SubSeq(Content(log), 1, total - n) = Content(a) \o SubSeq(log[m].bytes, 1, left(m))
    <3>1. left(m) \in 0..Len(log[m].bytes)
      BY <2>2
    <3>2. \A b, c, d \in Seq(Bytes) : \A k \in 0..Len(c) :
            SubSeq((b \o c) \o d, 1, Len(b) + k) = b \o SubSeq(c, 1, k)
      BY BytesCut
    <3> HIDE DEF a, left
    <3>3. SubSeq((Content(a) \o log[m].bytes) \o Content(SubSeq(log, m + 1, Len(log))), 1, Len(Content(a)) + left(m))
            = Content(a) \o SubSeq(log[m].bytes, 1, left(m))
      BY <2>3, <2>8, <3>1, <3>2, Zenon
    <3>4. SubSeq(Content(log), 1, Len(Content(a)) + left(m)) = Content(a) \o SubSeq(log[m].bytes, 1, left(m))
      BY <2>8, <3>3, Zenon
    <3> QED
      BY <2>9, <3>4, Zenon
  <2>11. Append(a, x) \in Seq(ChunkRows)
    <3> HIDE DEF a, x
    <3> QED
      BY <2>3, <2>4, AppendProperties
  <2>12. Content(Append(a, x)) = SubSeq(Content(log), 1, Len(Content(log)) - n)
    BY <2>7, <2>10 DEF total
  <2> HIDE DEF a, x, r
  <2> QED
    BY <1>5, <2>5, <2>6, <2>11, <2>12
<1> QED
  BY <1>7, <1>8

(* The second part of a concatenation. *)
LEMMA SecondPart ==
  ASSUME NEW T, NEW s \in Seq(T), NEW t \in Seq(T)
  PROVE  SubSeq(s \o t, Len(s) + 1, Len(s) + Len(t)) = t
<1> DEFINE u == SubSeq(s \o t, Len(s) + 1, Len(s) + Len(t))
<1>1. Len(s) \in Nat /\ Len(t) \in Nat
  BY LenProperties
<1>2. /\ s \o t \in Seq(T) /\ Len(s \o t) = Len(s) + Len(t)
      /\ \A i \in 1..Len(s) + Len(t) : (s \o t)[i] = IF i <= Len(s) THEN s[i] ELSE t[i - Len(s)]
  BY ConcatProperties
<1>3. Len(s) + 1 \in 1..Len(s \o t) + 1 /\ Len(s) + Len(t) \in Len(s) + 1 - 1..Len(s \o t)
  BY <1>1, <1>2
<1>4. /\ u \in Seq(T) /\ Len(u) = Len(s) + Len(t) - (Len(s) + 1) + 1
      /\ \A i \in 1..Len(s) + Len(t) - (Len(s) + 1) + 1 : u[i] = (s \o t)[Len(s) + 1 + i - 1]
  BY <1>2, <1>3, PartTypes
<1> HIDE DEF u
<1>5. Len(u) = Len(t) /\ \A i \in 1..Len(t) : u[i] = (s \o t)[Len(s) + i]
  <2>1. Len(s) + Len(t) - (Len(s) + 1) + 1 = Len(t)
    BY <1>1
  <2>2. \A i \in 1..Len(t) : Len(s) + 1 + i - 1 = Len(s) + i
    BY <1>1
  <2> QED
    BY <1>4, <2>1, <2>2
<1>6. ASSUME NEW i \in 1..Len(t) PROVE u[i] = t[i]
  <2>1. Len(s) + i \in 1..Len(s) + Len(t) /\ ~(Len(s) + i <= Len(s)) /\ Len(s) + i - Len(s) = i
    BY <1>1
  <2> QED
    BY <1>2, <1>5, <2>1
<1>7. u = t
  BY <1>4, <1>5, <1>6, SeqEqual
<1> QED
  BY <1>7 DEF u

-----------------------------------------------------------------------------
(* The quota *)

(* How much of a log stays when it is cut.                                   *)
Kept == MaxBytes - MarkerBytes

(* What storing bytes does to the log and its bookkeeping: it grows by them,  *)
(* or it is cut once, with the oldest bytes and the marker, and never changes *)
(* again.                                                                     *)
LEMMA StoreBytesFacts ==
  ASSUME chunks \in Seq(ChunkRows), usage \in [total : Nat, truncated : BOOLEAN],
         Numbered(chunks), QuotaHolds, NEW bytes \in Seq(Bytes), StoreBytes(bytes)
  PROVE  /\ chunks' \in Seq(ChunkRows) /\ usage' \in [total : Nat, truncated : BOOLEAN]
         /\ Numbered(chunks') /\ QuotaHolds'
         /\ usage.truncated => usage'.truncated /\ UNCHANGED chunks
         /\ ~usage'.truncated =>
              /\ Content(chunks') = Content(chunks) \o bytes
              /\ Len(chunks') >= Len(chunks)
              /\ \A i \in 1..Len(chunks) : chunks'[i] = chunks[i]
         /\ usage'.truncated /\ ~usage.truncated =>
              /\ Kept \in 0..Len(Content(chunks) \o bytes)
              /\ Content(chunks') = SubSeq(Content(chunks) \o bytes, 1, Kept) \o Marker
<1> DEFINE content == Content(chunks)
<1>1. /\ content \in Seq(Bytes) /\ Len(content) \in Nat /\ Len(bytes) \in Nat
      /\ content \o bytes \in Seq(Bytes) /\ Len(content \o bytes) = Len(content) + Len(bytes)
  BY ContentType, LenProperties, ConcatProperties
<1>2. usage.total = Len(content) /\ usage.total <= MaxBytes /\ usage.total \in Nat
  BY <1>1 DEF QuotaHolds
<1>3. Kept \in Nat /\ MaxBytes = Kept + MarkerBytes /\ MarkerBytes \in Nat /\ MaxBytes \in Nat
  BY PodLogsAssumption DEF Kept
<1>4. Marker \in Seq(Bytes) /\ Len(Marker) = MarkerBytes
  BY BytesTypes
<1> HIDE DEF content
<1>5. CASE usage.truncated
  <2>1. chunks' = chunks /\ usage' = usage
    BY <1>5 DEF StoreBytes
  <2> QED
    BY <1>5, <2>1 DEF QuotaHolds
<1>6. CASE ~usage.truncated /\ usage.total + Len(bytes) <= MaxBytes
  <2>1. chunks' = Chunked(chunks, bytes) /\ usage' = [usage EXCEPT !.total = @ + Len(bytes)]
    BY <1>6 DEF StoreBytes
  <2>2. /\ chunks' \in Seq(ChunkRows) /\ Numbered(chunks') /\ Content(chunks') = content \o bytes
        /\ Len(chunks') >= Len(chunks) /\ \A i \in 1..Len(chunks) : chunks'[i] = chunks[i]
    BY <2>1, ChunkedFacts DEF content
  <2>3. /\ usage' \in [total : Nat, truncated : BOOLEAN]
        /\ usage'.total = usage.total + Len(bytes) /\ ~usage'.truncated
    BY <1>1, <1>2, <1>6, <2>1
  <2>4. usage'.total = Len(Content(chunks')) /\ usage'.total <= MaxBytes
    BY <1>1, <1>2, <1>6, <2>2, <2>3
  <2>5. QuotaHolds'
    BY <2>3, <2>4 DEF QuotaHolds
  <2> QED
    BY <1>6, <2>2, <2>3, <2>5 DEF content
<1>7. CASE ~usage.truncated /\ ~(usage.total + Len(bytes) <= MaxBytes)
  <2> DEFINE kept == IF Room < 0 THEN <<>> ELSE SubSeq(bytes, 1, Room)
             log == IF Room < 0 THEN Trimmed(chunks, -Room) ELSE chunks
             x == SubSeq(content \o bytes, 1, Kept)
  <2>1. chunks' = Chunked(log, kept \o Marker) /\ usage' = [total |-> MaxBytes, truncated |-> TRUE]
    BY <1>7 DEF StoreBytes
  <2>2. Room = Kept - Len(content) /\ Room \in Int /\ Kept \in 0..Len(content) + Len(bytes)
    BY <1>1, <1>2, <1>3, <1>7 DEF Room, Kept
  <2>3. x \in Seq(Bytes) /\ Len(x) = Kept
    <3>1. 1 \in 1..Len(content \o bytes) + 1 /\ Kept \in 1 - 1..Len(content \o bytes)
      BY <1>1, <2>2
    <3>2. x \in Seq(Bytes) /\ Len(x) = Kept - 1 + 1
      BY <1>1, <3>1, PartTypes
    <3>3. Kept - 1 + 1 = Kept
      BY <1>3
    <3> HIDE DEF x
    <3> QED
      BY <3>2, <3>3, Zenon
  <2>4. /\ log \in Seq(ChunkRows) /\ Numbered(log) /\ kept \in Seq(Bytes)
        /\ Content(log) \in Seq(Bytes) /\ Content(log) \o kept = x
    <3>1. CASE Room < 0
      <4>1. log = Trimmed(chunks, -Room) /\ kept = <<>>
        BY <3>1
      <4>2. -Room \in 0..Len(content) /\ Len(content) - (-Room) = Kept /\ Kept \in 0..Len(content)
        BY <1>1, <1>3, <2>2, <3>1
      <4>3. log \in Seq(ChunkRows) /\ Numbered(log) /\ Content(log) = SubSeq(content, 1, Len(content) - (-Room))
        BY <4>1, <4>2, TrimmedFacts DEF content
      <4>4. <<>> \in Seq(Bytes) /\ Len(<<>>) = 0 /\ <<>> \o content = content
        BY <1>1, ConcatEmptySeq
      <4>5. SubSeq((<<>> \o content) \o bytes, 1, Len(<<>>) + Kept) = <<>> \o SubSeq(content, 1, Kept)
        BY <1>1, <4>2, <4>4, CutConcat
      <4>6. Len(<<>>) + Kept = Kept
        BY <1>3, <4>4
      <4>7. Content(log) = SubSeq(content, 1, Kept) /\ Content(log) \in Seq(Bytes)
        BY <4>2, <4>3, ContentType
      <4>8. <<>> \o Content(log) = Content(log) /\ Content(log) \o <<>> = Content(log)
        BY <4>7, ConcatEmptySeq
      <4>9. SubSeq(content \o bytes, 1, Kept) = Content(log)
        BY <4>4, <4>5, <4>6, <4>7, <4>8
      <4> QED
        BY <4>1, <4>3, <4>4, <4>7, <4>8, <4>9
    <3>2. CASE ~(Room < 0)
      <4>1. log = chunks /\ kept = SubSeq(bytes, 1, Room)
        BY <3>2
      <4>2. Room \in 0..Len(bytes) /\ Len(content) + Room = Kept
        BY <1>1, <1>3, <2>2, <3>2
      <4>3. kept \in Seq(Bytes)
        <5>1. 1 \in 1..Len(bytes) + 1 /\ Room \in 1 - 1..Len(bytes)
          BY <1>1, <4>2
        <5> QED
          BY <4>1, <5>1, PartTypes
      <4>4. <<>> \in Seq(Bytes) /\ (content \o bytes) \o <<>> = content \o bytes
        BY <1>1, ConcatEmptySeq
      <4>5. SubSeq((content \o bytes) \o <<>>, 1, Len(content) + Room) = content \o SubSeq(bytes, 1, Room)
        BY <1>1, <4>2, <4>4, CutConcat
      <4>6. x = content \o kept
        BY <4>1, <4>2, <4>4, <4>5
      <4>7. Content(log) = content
        BY <4>1 DEF content
      <4> HIDE DEF log, kept, x
      <4> QED
        BY <1>1, <4>1, <4>3, <4>6, <4>7
    <3> QED
      BY <3>1, <3>2
  <2> HIDE DEF log, kept, x
  <2>5. kept \o Marker \in Seq(Bytes)
    BY <1>4, <2>4, ConcatProperties
  <2>6. chunks' \in Seq(ChunkRows) /\ Numbered(chunks') /\ Content(chunks') = Content(log) \o (kept \o Marker)
    BY <2>1, <2>4, <2>5, ChunkedFacts
  <2>7. Content(chunks') = x \o Marker
    <3>1. \A a, b, d \in Seq(Bytes) : (a \o b) \o d = a \o (b \o d)
      BY BytesAssociate
    <3>2. (Content(log) \o kept) \o Marker = Content(log) \o (kept \o Marker)
      BY <1>4, <2>4, <3>1, Zenon
    <3> QED
      BY <2>4, <2>6, <3>2
  <2>8. usage'.total = MaxBytes /\ usage'.truncated /\ usage' \in [total : Nat, truncated : BOOLEAN]
    BY <1>3, <2>1
  <2>9. Len(Content(chunks')) = MaxBytes
    <3>1. Len(x \o Marker) = Len(x) + Len(Marker)
      BY <1>4, <2>3, ConcatProperties
    <3> QED
      BY <1>3, <1>4, <2>3, <2>7, <3>1
  <2>10. SubSeq(Content(chunks'), MaxBytes - MarkerBytes + 1, MaxBytes) = Marker
    <3>1. SubSeq(x \o Marker, Len(x) + 1, Len(x) + Len(Marker)) = Marker
      BY <1>4, <2>3, SecondPart
    <3>2. Len(x) + 1 = MaxBytes - MarkerBytes + 1 /\ Len(x) + Len(Marker) = MaxBytes
      BY <1>3, <1>4, <2>3
    <3> QED
      BY <2>7, <3>1, <3>2
  <2>11. QuotaHolds'
    <3>1. usage'.total = Len(Content(chunks')) /\ usage'.total <= MaxBytes
      BY <1>3, <2>8, <2>9
    <3> QED
      BY <2>8, <2>10, <3>1 DEF QuotaHolds
  <2>12. Kept \in 0..Len(content \o bytes) /\ Content(chunks') = SubSeq(content \o bytes, 1, Kept) \o Marker
    BY <1>1, <2>2, <2>7 DEF x
  <2> QED
    BY <1>7, <2>6, <2>8, <2>11, <2>12 DEF content
<1> QED
  BY <1>5, <1>6, <1>7

-----------------------------------------------------------------------------
(* Types, and what an append leaves alone *)

(* The rows of pod_log_state, of worker_log_events, the collectors and the   *)
(* followers.                                                                *)
Cursors == [at : Nat, ordinal : Nat, plain : Nat, exhausted : BOOLEAN]
Rows == [id : Nat \X Nat, line : Nat \ {0}]
Readers == [pc : {"idle", "recover", "reading", "eof", "barrier", "mark"}, from : Nat, next : Nat]
Followers == [pc : {"away", "polling", "asking", "served"}, since : Nat, cursor : Nat, got : Seq(Bytes)]

(* LogsTypeOK with those names: what does not change stays in its type. *)
Typed ==
  /\ printed \in [Pods -> PodOutputs] /\ stopped \in [Pods -> BOOLEAN]
  /\ cursor \in [Pods -> Cursors]
  /\ chunks \in Seq(ChunkRows)
  /\ usage \in [total : Nat, truncated : BOOLEAN]
  /\ inbox \in [Pods -> Seq(Rows)]
  /\ done \in [Pods -> Nat] /\ \A p \in Pods : done[p] <= Len(inbox[p])
  /\ exhausted \in BOOLEAN
  /\ reader \in [Pods -> Readers]
  /\ follower \in Followers

(* Typed is the checked type invariant.                                      *)
LEMMA TypedIsTypeOK == Typed <=> LogsTypeOK
BY DEF Typed, LogsTypeOK, Cursors, Rows, Readers, Followers

(* A collector that reads is at a line. *)
Started == \A p \in Pods : ReaderAt(p, "reading") => reader[p].next # 0

(* The inductive invariant of the stored log: types, chunks numbered from 1  *)
(* without a gap, the quota, and collectors that have begun at a line.       *)
StoreInv == Typed /\ Numbered(chunks) /\ QuotaHolds /\ Started

(* A Pod's lines. *)
LEMMA OutputLines ==
  ASSUME NEW log \in PodOutputs
  PROVE  /\ Len(log) \in Nat /\ DOMAIN log = 1..Len(log)
         /\ \A i \in 1..Len(log) : /\ log[i].at \in Nat /\ log[i].at # 0
                                   /\ log[i].size \in Nat /\ log[i].event \in BOOLEAN
         /\ \A i, j \in 1..Len(log) : i <= j => log[i].at <= log[j].at
<1>1. PICK n \in 0..MaxLines : log \in [1..n -> Lines]
  BY DEF PodOutputs
<1>2. n \in Nat
  BY PodLogsAssumption
<1>3. log \in Seq(Lines) /\ Len(log) = n /\ DOMAIN log = 1..n
  BY <1>1, <1>2
<1>4. \A i \in 1..n : /\ log[i].at \in Nat /\ log[i].at # 0
                      /\ log[i].size \in Nat /\ log[i].event \in BOOLEAN
  <2>1. \A i \in 1..n : log[i] \in Lines
    BY <1>1
  <2> QED
    BY <2>1, PodLogsAssumption DEF Lines
<1>5. \A i, j \in 1..n : i < j => log[i].at <= log[j].at
  BY <1>3 DEF PodOutputs
<1>6. \A i, j \in 1..n : i <= j => log[i].at <= log[j].at
  <2>1. SUFFICES ASSUME NEW i \in 1..n, NEW j \in 1..n, i <= j PROVE log[i].at <= log[j].at
    OBVIOUS
  <2>2. CASE i = j
    BY <1>4, <2>2
  <2>3. CASE i # j
    <3>1. i < j
      BY <1>2, <2>1, <2>3
    <3> QED
      BY <1>5, <3>1
  <2> QED
    BY <2>2, <2>3
<1> QED
  BY <1>2, <1>3, <1>4, <1>6

(* A collector's step changes its own pc only.                               *)
LEMMA MoveFacts ==
  ASSUME reader \in [Pods -> Readers], NEW p \in Pods, NEW pc, Move(p, pc),
         pc \in {"idle", "recover", "reading", "eof", "barrier", "mark"}
  PROVE  /\ reader' \in [Pods -> Readers]
         /\ reader'[p].pc = pc /\ reader'[p].from = reader[p].from /\ reader'[p].next = reader[p].next
         /\ \A q \in Pods \ {p} : reader'[q] = reader[q]
<1>1. reader[p] \in Readers
  OBVIOUS
<1>2. [reader[p] EXCEPT !.pc = pc] \in Readers
  BY <1>1 DEF Readers
<1>3. reader' = [reader EXCEPT ![p] = [reader[p] EXCEPT !.pc = pc]]
  BY DEF Move
<1>4. reader' \in [Pods -> Readers] /\ reader'[p] = [reader[p] EXCEPT !.pc = pc]
      /\ \A q \in Pods \ {p} : reader'[q] = reader[q]
  BY <1>2, <1>3
<1>5. /\ [reader[p] EXCEPT !.pc = pc].pc = pc /\ [reader[p] EXCEPT !.pc = pc].from = reader[p].from
      /\ [reader[p] EXCEPT !.pc = pc].next = reader[p].next
  BY <1>1 DEF Readers
<1> QED
  BY <1>4, <1>5

(* The next line of a collector's stream.                                    *)
LEMMA NextLineFacts ==
  ASSUME reader \in [Pods -> Readers], NEW p \in Pods,
         reader' = [reader EXCEPT ![p].next = @ + 1]
  PROVE  /\ reader' \in [Pods -> Readers]
         /\ reader'[p].pc = reader[p].pc /\ reader'[p].from = reader[p].from
         /\ reader'[p].next = reader[p].next + 1
         /\ \A q \in Pods \ {p} : reader'[q] = reader[q]
<1>1. reader[p] \in Readers
  OBVIOUS
<1> DEFINE r == [reader[p] EXCEPT !.next = reader[p].next + 1]
<1>2. /\ r \in Readers /\ r.pc = reader[p].pc /\ r.from = reader[p].from
      /\ r.next = reader[p].next + 1
  BY <1>1 DEF Readers
<1>3. reader' = [reader EXCEPT ![p] = r]
  OBVIOUS
<1> HIDE DEF r
<1>4. reader' \in [Pods -> Readers] /\ reader'[p] = r /\ \A q \in Pods \ {p} : reader'[q] = reader[q]
  BY <1>2, <1>3
<1> QED
  BY <1>2, <1>4

(* A log that is not cut keeps its chunks. *)
Grows ==
  ~usage'.truncated => /\ ~usage.truncated /\ Len(chunks') >= Len(chunks)
                       /\ \A i \in 1..Len(chunks) : chunks'[i] = chunks[i]

(* AppendPodLog as a whole. *)
LEMMA AppendFacts ==
  ASSUME StoreInv, NEW p \in Pods, NEW at \in Nat, NEW ordinal \in Nat, NEW plain \in Nat,
         NEW bytes \in Seq(Bytes), NEW line \in Nat, AppendPodLog(p, at, ordinal, plain, bytes, line)
  PROVE  /\ cursor' \in [Pods -> Cursors] /\ chunks' \in Seq(ChunkRows)
         /\ usage' \in [total : Nat, truncated : BOOLEAN]
         /\ inbox' \in [Pods -> Seq(Rows)] /\ \A q \in Pods : Len(inbox'[q]) >= Len(inbox[q])
         /\ Numbered(chunks') /\ QuotaHolds' /\ ~exhausted /\ UNCHANGED <<done, exhausted>>
         /\ cursor'[p].exhausted = cursor[p].exhausted
         /\ \A q \in Pods \ {p} : cursor'[q] = cursor[q] /\ inbox'[q] = inbox[q]
         /\ Grows
<1>1. /\ cursor \in [Pods -> Cursors] /\ inbox \in [Pods -> Seq(Rows)]
      /\ chunks \in Seq(ChunkRows) /\ usage \in [total : Nat, truncated : BOOLEAN]
      /\ Numbered(chunks) /\ QuotaHolds
  BY DEF StoreInv, Typed
<1>2. ~exhausted /\ UNCHANGED <<done, exhausted>>
  BY DEF AppendPodLog
<1>3. cursor[p] \in Cursors /\ inbox[p] \in Seq(Rows) /\ \A q \in Pods : Len(inbox[q]) \in Nat
  BY <1>1, LenProperties
<1>4. CASE Duplicate(cursor[p], at, ordinal, plain)
  <2>1. UNCHANGED <<cursor, chunks, usage, inbox>>
    BY <1>4 DEF AppendPodLog
  <2>2. QuotaHolds'
    BY <1>1, <2>1 DEF QuotaHolds
  <2>3. Grows
    <3>1. Len(chunks) \in Nat
      BY <1>1, LenProperties
    <3> QED
      BY <2>1, <3>1 DEF Grows
  <2> QED
    BY <1>1, <1>2, <1>3, <2>1, <2>2, <2>3
<1>5. CASE ~Duplicate(cursor[p], at, ordinal, plain)
  <2> DEFINE c == IF at # 0 THEN [cursor[p] EXCEPT !.at = at, !.ordinal = ordinal]
                            ELSE [cursor[p] EXCEPT !.plain = plain]
             row == [id |-> <<at, ordinal>>, line |-> line]
  <2>1. StoreBytes(bytes)
    BY <1>5 DEF AppendPodLog
  <2>2. /\ chunks' \in Seq(ChunkRows) /\ usage' \in [total : Nat, truncated : BOOLEAN]
        /\ Numbered(chunks') /\ QuotaHolds'
    BY <1>1, <2>1, StoreBytesFacts
  <2>8. Grows
    BY <1>1, <2>1, <2>2, StoreBytesFacts DEF Grows
  <2>3. cursor' = [cursor EXCEPT ![p] = c]
    BY <1>5 DEF AppendPodLog
  <2>4. c \in Cursors /\ c.exhausted = cursor[p].exhausted
    BY <1>3 DEF Cursors
  <2> HIDE DEF c
  <2>5. /\ cursor' \in [Pods -> Cursors] /\ cursor'[p].exhausted = cursor[p].exhausted
        /\ \A q \in Pods \ {p} : cursor'[q] = cursor[q]
    BY <1>1, <2>3, <2>4
  <2>6. UNCHANGED inbox \/ (line # 0 /\ inbox' = [inbox EXCEPT ![p] = Append(inbox[p], row)])
    BY <1>5 DEF AppendPodLog, QueueEvent
  <2>7. /\ inbox' \in [Pods -> Seq(Rows)] /\ \A q \in Pods : Len(inbox'[q]) >= Len(inbox[q])
        /\ \A q \in Pods \ {p} : inbox'[q] = inbox[q]
    <3>1. CASE UNCHANGED inbox
      BY <1>1, <1>3, <3>1
    <3>2. CASE line # 0 /\ inbox' = [inbox EXCEPT ![p] = Append(inbox[p], row)]
      <4>1. row \in Rows
        BY <3>2 DEF Rows
      <4> HIDE DEF row
      <4>2. Append(inbox[p], row) \in Seq(Rows) /\ Len(Append(inbox[p], row)) = Len(inbox[p]) + 1
        BY <1>3, <4>1, AppendProperties
      <4>3. inbox' \in [Pods -> Seq(Rows)] /\ inbox'[p] = Append(inbox[p], row) /\ \A q \in Pods \ {p} : inbox'[q] = inbox[q]
        BY <1>1, <3>2, <4>2
      <4> QED
        BY <1>3, <4>2, <4>3
    <3> QED
      BY <2>6, <3>1, <3>2
  <2> QED
    BY <1>2, <2>2, <2>5, <2>7, <2>8
<1> QED
  BY <1>4, <1>5

(* Reading a line, whole or torn, is such an append. *)
LEMMA OrdinalType ==
  ASSUME NEW p \in Pods, reader[p].from \in Nat, NEW i \in Nat
  PROVE  Ordinal(p, i) \in Nat
<1>1. IsFiniteSet(reader[p].from..i)
  BY FS_Interval
<1>2. {j \in reader[p].from..i : printed[p][j].at = printed[p][i].at} \in SUBSET (reader[p].from..i)
  OBVIOUS
<1> QED
  BY <1>1, <1>2, FS_Subset, FS_CardinalityType DEF Ordinal

(* What a follower holds is typed: the last chunk has a number, and content   *)
(* joined to content is content.                                            *)
LEMMA FollowerType ==
  ASSUME Typed, Numbered(chunks), Follow \/ Poll \/ AskComplete \/ Unfollow
  PROVE  follower' \in Followers
<1>1. follower \in Followers /\ chunks \in Seq(ChunkRows) /\ Len(chunks) \in Nat
  BY LenProperties DEF Typed
<1>2. Content(chunks) \in Seq(Bytes) /\ <<>> \in Seq(Bytes)
  BY <1>1, ContentType
<1>3. LastSequence(chunks) \in Nat
  BY <1>1, LastOfNumbered
<1>4. CASE Follow
  BY <1>2, <1>3, <1>4 DEF Follow, TailCursor, Followers
<1>5. CASE Poll
  <2> DEFINE new == After(chunks, follower.cursor)
  <2>1. new \in Seq(ChunkRows)
    <3> DEFINE D == {i \in DOMAIN chunks : chunks[i].sequence <= follower.cursor}
               n == Cardinality(D)
    <3>1. DOMAIN chunks = 1..Len(chunks) /\ follower.cursor \in Nat
      BY <1>1, LenProperties DEF Followers
    <3>2. D \in SUBSET (1..Len(chunks)) /\ \A i \in D : \A j \in 1..i : j \in D
      BY <1>1, <3>1 DEF Numbered
    <3>3. n \in 0..Len(chunks)
      <4> HIDE DEF D
      <4> QED
        BY <1>1, <3>2, InitialSegment
    <3>4. new = SubSeq(chunks, n + 1, Len(chunks))
      BY DEF After
    <3> HIDE DEF n, new
    <3>5. n + 1 \in 1..Len(chunks) + 1 /\ Len(chunks) \in n + 1 - 1..Len(chunks)
      BY <1>1, <3>3
    <3> QED
      BY <1>1, <3>4, <3>5, PartTypes
  <2>2. follower' = IF new = <<>> THEN [follower EXCEPT !.pc = "asking"]
                    ELSE [follower EXCEPT !.cursor = Last(new).sequence, !.got = @ \o Content(new)]
    BY <1>5 DEF Poll
  <2> HIDE DEF new
  <2>3. CASE new = <<>>
    BY <1>1, <2>2, <2>3 DEF Followers
  <2>4. CASE new # <<>>
    <3>1. Last(new).sequence \in Nat
      <4>1. Len(new) \in 1..Len(new)
        BY <2>1, <2>4, EmptySeq
      <4>2. new[Len(new)] \in ChunkRows
        BY <2>1, <4>1, ElementOfSeq
      <4> QED
        BY <4>2 DEF Last, ChunkRows
    <3>2. follower.got \in Seq(Bytes)
      BY <1>1 DEF Followers
    <3>3. follower.got \o Content(new) \in Seq(Bytes)
      BY <2>1, <3>2, ContentType, ConcatProperties
    <3>4. follower' = [follower EXCEPT !.cursor = Last(new).sequence, !.got = follower.got \o Content(new)]
      BY <2>2, <2>4
    <3> QED
      BY <1>1, <3>1, <3>3, <3>4 DEF Followers
  <2> QED
    BY <2>3, <2>4
<1>6. CASE AskComplete
  BY <1>1, <1>6 DEF AskComplete, Followers
<1>7. CASE Unfollow
  BY <1>2, <1>7 DEF Unfollow, NoFollower, Followers
<1> QED
  BY <1>4, <1>5, <1>6, <1>7

(* The two ways to read a line append to the log; a whole line moves on. *)
Appends(p) ==
  \E at, ordinal, plain, line \in Nat, bytes \in Seq(Bytes) : AppendPodLog(p, at, ordinal, plain, bytes, line)

(* Reading a line appends it.                                                *)
LEMMA ReadLineAppends ==
  ASSUME StoreInv, NEW p \in Pods, ReadLine(p)
  PROVE  /\ Appends(p)
         /\ reader' = [reader EXCEPT ![p].next = @ + 1]
         /\ UNCHANGED <<printed, stopped, follower>> /\ Pending(p) = 0 /\ ReaderAt(p, "reading")
<1>1. /\ printed[p] \in PodOutputs /\ reader[p] \in Readers /\ cursor[p] \in Cursors
      /\ reader[p].pc = "reading" /\ reader[p].next # 0 /\ reader[p].next <= Len(printed[p])
  BY DEF StoreInv, Typed, Started, ReadLine, CanRead, ReaderAt
<1> DEFINE i == reader[p].next
           l == printed[p][i]
<1>2. i \in 1..Len(printed[p]) /\ i \in Nat /\ reader[p].from \in Nat /\ cursor[p].plain \in Nat
  <2>1. i \in Nat /\ reader[p].from \in Nat /\ cursor[p].plain \in Nat
    BY <1>1 DEF Readers, Cursors
  <2>2. Len(printed[p]) \in Nat
    BY <1>1, OutputLines
  <2> QED
    BY <1>1, <2>1, <2>2
<1>3. l.at \in Nat /\ l.size \in Nat
  BY <1>1, <1>2, OutputLines
<1>4. Ordinal(p, i) \in Nat /\ LineBytes(p, i, l.size) \in Seq(Bytes)
  BY <1>2, <1>3, OrdinalType, BytesTypes
<1>5. AppendPodLog(p, l.at, Ordinal(p, i), cursor[p].plain, LineBytes(p, i, l.size), IF l.event THEN i ELSE 0)
  BY DEF ReadLine
<1>6. (IF l.event THEN i ELSE 0) \in Nat
  BY <1>2
<1> HIDE DEF i, l
<1>7. Appends(p)
  BY <1>2, <1>3, <1>4, <1>5, <1>6 DEF Appends
<1> QED
  BY <1>7 DEF ReadLine, CanRead, KeepButReader, podVars

(* So does reading a line that is cut.                                       *)
LEMMA ReadTornLineAppends ==
  ASSUME StoreInv, NEW p \in Pods, ReadTornLine(p)
  PROVE  /\ Appends(p)
         /\ Move(p, "idle")
         /\ UNCHANGED <<printed, stopped, follower>> /\ Pending(p) = 0 /\ ReaderAt(p, "reading")
<1>1. /\ printed[p] \in PodOutputs /\ reader[p] \in Readers /\ cursor[p] \in Cursors
      /\ reader[p].pc = "reading" /\ reader[p].next # 0 /\ reader[p].next <= Len(printed[p])
  BY DEF StoreInv, Typed, Started, ReadTornLine, CanRead, ReaderAt
<1> DEFINE i == reader[p].next
           l == printed[p][i]
<1>2. i \in 1..Len(printed[p]) /\ i \in Nat /\ reader[p].from \in Nat /\ cursor[p].plain \in Nat
  <2>1. i \in Nat /\ reader[p].from \in Nat /\ cursor[p].plain \in Nat
    BY <1>1 DEF Readers, Cursors
  <2>2. Len(printed[p]) \in Nat
    BY <1>1, OutputLines
  <2> QED
    BY <1>1, <2>1, <2>2
<1>3. l.at \in Nat
  BY <1>1, <1>2, OutputLines
<1>4. Ordinal(p, i) \in Nat /\ Fragment(p) \in Seq(Bytes) /\ 0 \in Nat /\ cursor[p].plain + 1 \in Nat
  <2>1. cursor[p].plain + 1 \in Nat /\ 0 \in Nat
    BY <1>2
  <2>2. Ordinal(p, i) \in Nat
    BY <1>2, OrdinalType
  <2>3. Fragment(p) \in Seq(Bytes)
    BY BytesTypes
  <2> QED
    BY <2>1, <2>2, <2>3
<1>5. \/ AppendPodLog(p, 0, 0, cursor[p].plain + 1, Fragment(p), 0)
      \/ AppendPodLog(p, l.at, Ordinal(p, i), cursor[p].plain, Fragment(p), 0)
  BY DEF ReadTornLine
<1> HIDE DEF i, l
<1>6. Appends(p)
  BY <1>2, <1>3, <1>4, <1>5 DEF Appends
<1> QED
  BY <1>6 DEF ReadTornLine, CanRead, KeepButReader, podVars

(* A stream begins at a line.                                                *)
LEMMA SinceType ==
  ASSUME Typed, NEW p \in Pods
  PROVE  Since(p) \in Nat /\ Since(p) # 0
<1> DEFINE D == {i \in DOMAIN printed[p] : Second(printed[p][i].at) < Second(cursor[p].at)}
<1>1. printed[p] \in PodOutputs
  BY DEF Typed
<1>2. Len(printed[p]) \in Nat /\ DOMAIN printed[p] = 1..Len(printed[p])
  BY <1>1, OutputLines
<1>3. IsFiniteSet(1..Len(printed[p])) /\ D \in SUBSET (1..Len(printed[p]))
  BY <1>2, FS_Interval
<1>4. Cardinality(D) \in Nat
  <2> HIDE DEF D
  <2> QED
    BY <1>3, FS_Subset, FS_CardinalityType
<1>5. Since(p) = IF cursor[p].at = 0 THEN 1 ELSE 1 + Cardinality(D)
  BY DEF Since
<1> HIDE DEF D
<1> QED
  BY <1>4, <1>5

-----------------------------------------------------------------------------
(* Preservation of the invariant of the stored log *)

(* An empty log satisfies the invariant.                                     *)
LEMMA StoreInit == LogsInit => StoreInv
<1> SUFFICES ASSUME LogsInit PROVE StoreInv
  OBVIOUS
<1>1. NoCursor \in Cursors /\ NoReader \in Readers /\ NoReader.pc = "idle"
  BY DEF NoCursor, Cursors, NoReader, Readers
<1>2. NoFollower \in Followers
  <2>1. <<>> \in Seq(Bytes)
    OBVIOUS
  <2> QED
    BY <2>1 DEF NoFollower, Followers
<1>3. chunks \in Seq(ChunkRows) /\ Numbered(chunks) /\ Len(Content(chunks)) = 0
  <2>1. chunks = <<>>
    BY DEF LogsInit
  <2>2. <<>> \in Seq(ChunkRows) /\ Len(<<>>) = 0 /\ Numbered(<<>>)
    BY DEF Numbered
  <2> QED
    BY <2>1, <2>2, ContentEmpty
<1>4. Typed
  <2>1. usage \in [total : Nat, truncated : BOOLEAN]
    BY DEF LogsInit
  <2>2. inbox \in [Pods -> Seq(Rows)] /\ done \in [Pods -> Nat] /\ \A p \in Pods : done[p] <= Len(inbox[p])
    BY DEF LogsInit
  <2>3. cursor \in [Pods -> Cursors] /\ reader \in [Pods -> Readers]
    BY <1>1 DEF LogsInit
  <2>4. printed \in [Pods -> PodOutputs] /\ stopped \in [Pods -> BOOLEAN] /\ exhausted \in BOOLEAN
    BY DEF LogsInit
  <2>5. follower \in Followers
    BY <1>2 DEF LogsInit
  <2> QED
    BY <1>3, <2>1, <2>2, <2>3, <2>4, <2>5 DEF Typed
<1>5. QuotaHolds
  <2>1. usage.total = 0 /\ usage.truncated = FALSE
    BY DEF LogsInit
  <2>2. MaxBytes >= 0
    BY PodLogsAssumption
  <2> QED
    BY <1>3, <2>1, <2>2 DEF QuotaHolds
<1>6. Started
  BY <1>1 DEF Started, ReaderAt, LogsInit
<1> QED
  BY <1>3, <1>4, <1>5, <1>6 DEF StoreInv

(* Steps that leave the chunks, the usage and their types alone.             *)
LEMMA StoreKept ==
  ASSUME StoreInv, UNCHANGED <<chunks, usage>>
  PROVE  /\ chunks' \in Seq(ChunkRows) /\ usage' \in [total : Nat, truncated : BOOLEAN]
         /\ Numbered(chunks') /\ QuotaHolds'
<1>1. /\ chunks \in Seq(ChunkRows) /\ usage \in [total : Nat, truncated : BOOLEAN]
      /\ Numbered(chunks) /\ QuotaHolds
  BY DEF StoreInv, Typed
<1>2. QuotaHolds'
  BY <1>1 DEF QuotaHolds
<1> QED
  BY <1>1, <1>2

(* Steps of a collector that append nothing. *)
LEMMA StoreMove ==
  ASSUME StoreInv, NEW p \in Pods, NEW pc \in {"idle", "recover", "eof", "barrier", "mark"}, Move(p, pc),
         UNCHANGED <<printed, stopped, chunks, usage, inbox, done, follower>>,
         cursor' \in [Pods -> Cursors], exhausted' \in BOOLEAN
  PROVE  StoreInv'
<1>1. Typed /\ Started
  BY DEF StoreInv
<1>2. pc # "reading" /\ pc \in {"idle", "recover", "reading", "eof", "barrier", "mark"}
  OBVIOUS
<1>3. /\ reader' \in [Pods -> Readers] /\ reader'[p].pc = pc
      /\ \A q \in Pods \ {p} : reader'[q] = reader[q]
  BY <1>1, <1>2, MoveFacts DEF Typed
<1>4. Started'
  BY <1>1, <1>2, <1>3 DEF Started, ReaderAt
<1>5. /\ chunks' \in Seq(ChunkRows) /\ usage' \in [total : Nat, truncated : BOOLEAN]
      /\ Numbered(chunks') /\ QuotaHolds'
  BY StoreKept
<1>6. Typed'
  BY <1>1, <1>3, <1>5 DEF Typed
<1> QED
  BY <1>4, <1>5, <1>6 DEF StoreInv

(* Every step keeps the invariant of the stored log.                         *)
LEMMA StoreStep ==
  ASSUME StoreInv, [LogsNext]_logVars
  PROVE  StoreInv'
<1>1. Typed /\ Started
  BY DEF StoreInv
<1>2. CASE UNCHANGED logVars
  <2>1. /\ UNCHANGED <<printed, stopped, cursor, chunks, usage, inbox, done, exhausted>>
        /\ UNCHANGED <<reader, follower>>
    BY <1>2 DEF logVars, podVars, storeVars
  <2>2. Numbered(chunks') /\ QuotaHolds' /\ Typed' /\ Started'
    BY <1>1, <2>1, StoreKept DEF Typed, Started, ReaderAt
  <2> QED
    BY <2>2 DEF StoreInv
<1>3. ASSUME NEW p \in Pods, PodStops(p) PROVE StoreInv'
  <2>1. UNCHANGED <<cursor, chunks, usage, inbox, done, exhausted, printed, reader, follower>>
        /\ stopped' \in [Pods -> BOOLEAN]
    BY <1>1, <1>3 DEF PodStops, storeVars, Typed
  <2>2. Numbered(chunks') /\ QuotaHolds' /\ Typed' /\ Started'
    BY <1>1, <2>1, StoreKept DEF Typed, Started, ReaderAt
  <2> QED
    BY <2>2 DEF StoreInv
<1>4. ASSUME NEW p \in Pods, ProcessEvent(p) PROVE StoreInv'
  <2>1. UNCHANGED <<cursor, chunks, usage, inbox, exhausted, printed, stopped, reader, follower>>
    BY <1>4 DEF ProcessEvent, KeepButReader, podVars
  <2>2. done' \in [Pods -> Nat] /\ \A q \in Pods : done'[q] <= Len(inbox[q])
    <3>1. done' = [done EXCEPT ![p] = @ + 1] /\ Len(inbox[p]) - done[p] > 0
      BY <1>4 DEF ProcessEvent, Pending
    <3>2. done \in [Pods -> Nat] /\ Len(inbox[p]) \in Nat /\ \A q \in Pods : done[q] <= Len(inbox[q])
      BY <1>1, LenProperties DEF Typed
    <3> QED
      BY <3>1, <3>2
  <2>3. Numbered(chunks') /\ QuotaHolds' /\ Typed' /\ Started'
    BY <1>1, <2>1, <2>2, StoreKept DEF Typed, Started, ReaderAt
  <2> QED
    BY <2>3 DEF StoreInv
<1>5. ASSUME NEW p \in Pods, Appends(p), UNCHANGED <<printed, stopped, follower>>,
             reader' \in [Pods -> Readers], Started'
      PROVE  StoreInv'
  <2>1. /\ cursor' \in [Pods -> Cursors] /\ chunks' \in Seq(ChunkRows)
        /\ usage' \in [total : Nat, truncated : BOOLEAN]
        /\ inbox' \in [Pods -> Seq(Rows)] /\ \A q \in Pods : Len(inbox'[q]) >= Len(inbox[q])
        /\ Numbered(chunks') /\ QuotaHolds' /\ UNCHANGED <<done, exhausted>>
    BY <1>5, AppendFacts DEF Appends
  <2>2. \A q \in Pods : done'[q] <= Len(inbox'[q])
    <3>1. SUFFICES ASSUME NEW q \in Pods PROVE done'[q] <= Len(inbox'[q])
      OBVIOUS
    <3>2. Len(inbox[q]) \in Nat /\ Len(inbox'[q]) \in Nat /\ Len(inbox'[q]) >= Len(inbox[q])
      <4>1. inbox[q] \in Seq(Rows) /\ inbox'[q] \in Seq(Rows)
        BY <1>1, <2>1 DEF Typed
      <4> QED
        BY <2>1, <4>1, LenProperties
    <3>3. done'[q] = done[q] /\ done[q] \in Nat /\ done[q] <= Len(inbox[q])
      BY <1>1, <2>1 DEF Typed
    <3> QED
      BY <3>2, <3>3
  <2>3. Typed'
    BY <1>1, <1>5, <2>1, <2>2 DEF Typed
  <2> QED
    BY <1>5, <2>1, <2>3 DEF StoreInv
<1>6. ASSUME NEW p \in Pods, ReadLine(p) PROVE StoreInv'
  <2>1. Appends(p) /\ UNCHANGED <<printed, stopped, follower>> /\ reader' = [reader EXCEPT ![p].next = @ + 1]
    BY <1>6, ReadLineAppends
  <2>2. /\ reader' \in [Pods -> Readers] /\ reader'[p].next = reader[p].next + 1
        /\ \A q \in Pods \ {p} : reader'[q] = reader[q]
    BY <1>1, <2>1, NextLineFacts DEF Typed
  <2>3. reader[p].next \in Nat
    BY <1>1 DEF Typed, Readers
  <2>4. Started'
    BY <1>1, <2>2, <2>3 DEF Started, ReaderAt
  <2> QED
    BY <1>5, <2>1, <2>2, <2>4
<1>7. ASSUME NEW p \in Pods, ReadTornLine(p) PROVE StoreInv'
  <2>1. Appends(p) /\ UNCHANGED <<printed, stopped, follower>> /\ Move(p, "idle")
    BY <1>7, ReadTornLineAppends
  <2>2. /\ reader' \in [Pods -> Readers] /\ reader'[p].pc = "idle"
        /\ \A q \in Pods \ {p} : reader'[q] = reader[q]
    BY <1>1, <2>1, MoveFacts DEF Typed
  <2>3. Started'
    BY <1>1, <2>2 DEF Started, ReaderAt
  <2> QED
    BY <1>5, <2>1, <2>2, <2>3
<1>8. ASSUME NEW p \in Pods, OpenStream(p) PROVE StoreInv'
  <2>1. /\ UNCHANGED <<cursor, chunks, usage, inbox, done, exhausted, printed, stopped, follower>>
        /\ reader' = [reader EXCEPT ![p] = [pc |-> "reading", from |-> Since(p), next |-> Since(p)]]
    BY <1>8 DEF OpenStream, KeepStore, storeVars, KeepButReader, podVars
  <2>2. Since(p) \in Nat /\ Since(p) # 0
    BY <1>1, SinceType
  <2>3. /\ reader' \in [Pods -> Readers] /\ reader'[p].next # 0
        /\ \A q \in Pods \ {p} : reader'[q] = reader[q]
    BY <1>1, <2>1, <2>2 DEF Typed, Readers
  <2>4. Numbered(chunks') /\ QuotaHolds' /\ Typed' /\ Started'
    BY <1>1, <2>1, <2>3, StoreKept DEF Typed, Started, ReaderAt
  <2> QED
    BY <2>4 DEF StoreInv
<1>9. ASSUME NEW p \in Pods, Collect(p) \/ StreamFails(p) \/ StreamEnds(p) \/ CheckTerminal(p)
      PROVE  StoreInv'
  <2>1. UNCHANGED <<cursor, chunks, usage, inbox, done, exhausted, printed, stopped, follower>>
    BY <1>9 DEF Collect, StreamFails, StreamEnds, CheckTerminal, KeepStore, storeVars, KeepButReader, podVars
  <2>2. \E pc \in {"idle", "recover", "eof", "barrier", "mark"} : Move(p, pc)
    BY <1>9 DEF Collect, StreamFails, StreamEnds, CheckTerminal
  <2>3. cursor' \in [Pods -> Cursors] /\ exhausted' \in BOOLEAN
    BY <1>1, <2>1 DEF Typed
  <2> QED
    BY <2>1, <2>2, <2>3, StoreMove
<1>10. ASSUME NEW p \in Pods, RecoverExhausted(p) \/ ClosePod(p) PROVE StoreInv'
  <2>1. /\ UNCHANGED <<chunks, usage, inbox, done, exhausted, printed, stopped, follower>>
        /\ Move(p, "idle") /\ cursor' = [cursor EXCEPT ![p].exhausted = TRUE]
    BY <1>10 DEF RecoverExhausted, ClosePod, KeepButReader, podVars
  <2>2. cursor' \in [Pods -> Cursors]
    <3>1. cursor \in [Pods -> Cursors]
      BY <1>1 DEF Typed
    <3> QED
      BY <2>1, <3>1 DEF Cursors
  <2>3. exhausted' \in BOOLEAN
    BY <1>1, <2>1 DEF Typed
  <2> QED
    BY <2>1, <2>2, <2>3, StoreMove
<1>11. ASSUME NEW p \in Pods, CloseAttempt(p) PROVE StoreInv'
  <2>1. /\ UNCHANGED <<cursor, chunks, usage, inbox, done, printed, stopped, follower>>
        /\ Move(p, "mark") /\ exhausted' = TRUE
    BY <1>11 DEF CloseAttempt, KeepButReader, podVars
  <2>2. cursor' \in [Pods -> Cursors] /\ exhausted' \in BOOLEAN
    BY <1>1, <2>1 DEF Typed
  <2> QED
    BY <2>1, <2>2, StoreMove
<1>12. CASE MarkLogsExhausted
  <2>1. /\ UNCHANGED <<cursor, chunks, usage, inbox, done, printed, stopped, reader, follower>>
        /\ exhausted' \in BOOLEAN
    BY <1>12 DEF MarkLogsExhausted, podVars
  <2>2. Numbered(chunks') /\ QuotaHolds' /\ Typed' /\ Started'
    BY <1>1, <2>1, StoreKept DEF Typed, Started, ReaderAt
  <2> QED
    BY <2>2 DEF StoreInv
<1>13. CASE Follow \/ Poll \/ AskComplete \/ Unfollow
  <2>1. UNCHANGED <<cursor, chunks, usage, inbox, done, exhausted, printed, stopped, reader>>
    BY <1>13 DEF Follow, Poll, AskComplete, Unfollow, KeepButFollower, podVars, storeVars
  <2>2. follower' \in Followers
    BY <1>13, FollowerType DEF StoreInv
  <2>3. Numbered(chunks') /\ QuotaHolds' /\ Typed' /\ Started'
    BY <1>1, <2>1, <2>2, StoreKept DEF Typed, Started, ReaderAt
  <2> QED
    BY <2>3 DEF StoreInv
<1> QED
  BY <1>2, <1>3, <1>4, <1>6, <1>7, <1>8, <1>9, <1>10, <1>11, <1>12, <1>13 DEF LogsNext, CollectorNext

-----------------------------------------------------------------------------
(* Theorems about the stored log *)

(* What holds of every state of the collectors, the store and the follower. *)
THEOREM StoreInvariant == LogsSpec => []StoreInv
<1>1. StoreInv /\ [LogsNext]_logVars => StoreInv'
  BY StoreStep
<1> QED
  BY StoreInit, <1>1, PTL DEF LogsSpec

(* Type correctness, with the bound of the processed events of a Pod by the   *)
(* queued ones (drainWorkerEvents).                                           *)
THEOREM LogsTypeCorrect == LogsSpec => []LogsTypeOK
<1>1. StoreInv => LogsTypeOK
  BY TypedIsTypeOK DEF StoreInv
<1> QED
  BY StoreInvariant, <1>1, PTL

(* attempt_log_state counts the stored bytes exactly, they never exceed the   *)
(* quota, and a cut log ends with the marker, for any quota, chunk size and    *)
(* lines, and any number of Pods that append to the attempt.                   *)
THEOREM QuotaIsKept == LogsSpec => []QuotaHolds
<1>1. StoreInv => QuotaHolds
  BY DEF StoreInv
<1> QED
  BY StoreInvariant, <1>1, PTL

-----------------------------------------------------------------------------
(* Closed Pods *)

(* The inductive form: a closed Pod's collector is gone for good, so nothing   *)
(* is queued any more, and a collector on its way to close it has drained.     *)
DrainedInv ==
  \A p \in Pods : /\ cursor[p].exhausted => ReaderAt(p, "idle") /\ Pending(p) = 0
                  /\ ReaderAt(p, "mark") => Pending(p) = 0

(* Steps of others keep it.                                                  *)
LEMMA DrainedKept ==
  ASSUME DrainedInv, UNCHANGED <<cursor, inbox, done, reader>>
  PROVE  DrainedInv'
BY DEF DrainedInv, ReaderAt, Pending

(* A collector's step, other than to the mark.                               *)
LEMMA DrainedMove ==
  ASSUME Typed, DrainedInv, NEW p \in Pods, NEW pc \in {"idle", "recover", "eof", "barrier"}, Move(p, pc),
         UNCHANGED <<cursor, inbox, done>>, ~cursor[p].exhausted
  PROVE  DrainedInv'
<1>1. reader'[p].pc = pc /\ \A q \in Pods \ {p} : reader'[q] = reader[q]
  BY MoveFacts DEF Typed
<1>2. ~ReaderAt(p, "mark")'
  BY <1>1 DEF ReaderAt
<1> QED
  BY <1>1, <1>2 DEF DrainedInv, ReaderAt, Pending

(* Every step keeps the drained Pods.                                        *)
LEMMA DrainedStep ==
  ASSUME StoreInv, DrainedInv, [LogsNext]_logVars
  PROVE  DrainedInv'
<1>1. Typed /\ reader \in [Pods -> Readers]
  BY DEF StoreInv, Typed
<1>2. CASE UNCHANGED logVars
  BY <1>2, DrainedKept DEF logVars, podVars, storeVars
<1>3. ASSUME NEW p \in Pods, PodStops(p) PROVE DrainedInv'
  BY <1>3, DrainedKept DEF PodStops, storeVars
<1>4. ASSUME NEW p \in Pods, ProcessEvent(p) PROVE DrainedInv'
  <2>1. UNCHANGED <<cursor, inbox, reader>> /\ done' = [done EXCEPT ![p] = @ + 1] /\ Pending(p) > 0
    BY <1>4 DEF ProcessEvent
  <2>2. ~cursor[p].exhausted /\ ~ReaderAt(p, "mark")
    BY <2>1 DEF DrainedInv
  <2>3. \A q \in Pods \ {p} : done'[q] = done[q]
    BY <1>1, <2>1 DEF Typed
  <2> QED
    BY <2>1, <2>2, <2>3 DEF DrainedInv, ReaderAt, Pending
<1>5. ASSUME NEW p \in Pods, Appends(p), ReaderAt(p, "reading"),
             reader'[p].pc \in {"reading", "idle"}, \A q \in Pods \ {p} : reader'[q] = reader[q]
      PROVE  DrainedInv'
  <2>1. /\ UNCHANGED done /\ cursor'[p].exhausted = cursor[p].exhausted
        /\ \A q \in Pods \ {p} : cursor'[q] = cursor[q] /\ inbox'[q] = inbox[q]
    BY <1>5, AppendFacts DEF Appends
  <2>2. ~cursor'[p].exhausted /\ ~ReaderAt(p, "mark")'
    BY <1>5, <2>1 DEF DrainedInv, ReaderAt
  <2> QED
    BY <1>5, <2>1, <2>2 DEF DrainedInv, ReaderAt, Pending
<1>6. ASSUME NEW p \in Pods, ReadLine(p) PROVE DrainedInv'
  <2>1. Appends(p) /\ reader' = [reader EXCEPT ![p].next = @ + 1] /\ ReaderAt(p, "reading")
    BY <1>6, ReadLineAppends
  <2>2. reader'[p].pc = reader[p].pc /\ \A q \in Pods \ {p} : reader'[q] = reader[q]
    BY <1>1, <2>1, NextLineFacts
  <2> QED
    BY <1>5, <2>1, <2>2 DEF ReaderAt
<1>7. ASSUME NEW p \in Pods, ReadTornLine(p) PROVE DrainedInv'
  <2>1. Appends(p) /\ Move(p, "idle") /\ ReaderAt(p, "reading")
    BY <1>7, ReadTornLineAppends
  <2>2. reader'[p].pc = "idle" /\ \A q \in Pods \ {p} : reader'[q] = reader[q]
    BY <1>1, <2>1, MoveFacts
  <2> QED
    BY <1>5, <2>1, <2>2
<1>8. ASSUME NEW p \in Pods, OpenStream(p) PROVE DrainedInv'
  <2>1. /\ UNCHANGED <<cursor, inbox, done>> /\ ReaderAt(p, "recover")
        /\ reader' = [reader EXCEPT ![p] = [pc |-> "reading", from |-> Since(p), next |-> Since(p)]]
    BY <1>8 DEF OpenStream, KeepStore, storeVars
  <2>2. reader'[p].pc = "reading" /\ \A q \in Pods \ {p} : reader'[q] = reader[q]
    BY <1>1, <2>1
  <2>3. ~cursor[p].exhausted
    BY <2>1 DEF DrainedInv, ReaderAt
  <2> QED
    BY <2>1, <2>2, <2>3 DEF DrainedInv, ReaderAt, Pending
<1>9. ASSUME NEW p \in Pods, Collect(p) \/ StreamFails(p) \/ StreamEnds(p) \/ CheckTerminal(p)
      PROVE  DrainedInv'
  <2>1. UNCHANGED <<cursor, inbox, done>>
    BY <1>9 DEF Collect, StreamFails, StreamEnds, CheckTerminal, KeepStore, storeVars
  <2>2. \E pc \in {"idle", "recover", "eof", "barrier"} : Move(p, pc)
    BY <1>9 DEF Collect, StreamFails, StreamEnds, CheckTerminal
  <2>3. ~cursor[p].exhausted
    BY <1>9 DEF DrainedInv, Collect, StreamFails, StreamEnds, CheckTerminal, ReaderAt
  <2> QED
    BY <1>1, <2>1, <2>2, <2>3, DrainedMove
<1>10. ASSUME NEW p \in Pods, RecoverExhausted(p) \/ ClosePod(p) PROVE DrainedInv'
  <2>1. /\ UNCHANGED <<inbox, done>> /\ Move(p, "idle") /\ Pending(p) = 0
        /\ cursor' = [cursor EXCEPT ![p].exhausted = TRUE]
    BY <1>10 DEF RecoverExhausted, ClosePod, DrainedInv
  <2>2. reader'[p].pc = "idle" /\ \A q \in Pods \ {p} : reader'[q] = reader[q]
    BY <1>1, <2>1, MoveFacts
  <2>3. \A q \in Pods \ {p} : cursor'[q] = cursor[q]
    BY <1>1, <2>1 DEF Typed
  <2> QED
    BY <2>1, <2>2, <2>3 DEF DrainedInv, ReaderAt, Pending
<1>11. ASSUME NEW p \in Pods, CloseAttempt(p) PROVE DrainedInv'
  <2>1. /\ UNCHANGED <<cursor, inbox, done>> /\ Move(p, "mark") /\ Pending(p) = 0 /\ ReaderAt(p, "barrier")
    BY <1>11 DEF CloseAttempt
  <2>2. reader'[p].pc = "mark" /\ \A q \in Pods \ {p} : reader'[q] = reader[q]
    BY <1>1, <2>1, MoveFacts
  <2>3. ~cursor[p].exhausted
    BY <2>1 DEF DrainedInv, ReaderAt
  <2> QED
    BY <2>1, <2>2, <2>3 DEF DrainedInv, ReaderAt, Pending
<1>12. CASE MarkLogsExhausted
  BY <1>12, DrainedKept DEF MarkLogsExhausted
<1>13. CASE Follow \/ Poll \/ AskComplete \/ Unfollow
  <2>1. UNCHANGED <<cursor, inbox, done, reader>>
    BY <1>13 DEF Follow, Poll, AskComplete, Unfollow, KeepButFollower, podVars, storeVars
  <2> QED
    BY <2>1, DrainedKept
<1> QED
  BY <1>2, <1>3, <1>4, <1>6, <1>7, <1>8, <1>9, <1>10, <1>11, <1>12, <1>13 DEF LogsNext, CollectorNext

(* CollectPodLogs closes a Pod's log only when all of its events are processed,*)
(* whoever closed the attempt, and none is queued afterwards.                   *)
THEOREM ClosedPodsStayDrained == LogsSpec => []ClosedPodsAreDrained
<1>1. LogsInit => DrainedInv
  BY DEF LogsInit, DrainedInv, NoCursor, NoReader, ReaderAt, Pending
<1>2. StoreInv /\ DrainedInv /\ [LogsNext]_logVars => DrainedInv'
  BY DrainedStep
<1>3. DrainedInv => ClosedPodsAreDrained
  BY DEF DrainedInv, ClosedPodsAreDrained
<1> QED
  BY <1>1, <1>2, <1>3, StoreInvariant, PTL DEF LogsSpec

-----------------------------------------------------------------------------
(* The follower *)

(* While the log is uncut, the follower holds the chunks between the position  *)
(* it began at and its cursor.                                                 *)
FollowerInv ==
  follower.pc # "away" /\ ~usage.truncated =>
    /\ follower.since <= follower.cursor /\ follower.cursor <= Len(chunks)
    /\ follower.got = Content(SubSeq(chunks, follower.since + 1, follower.cursor))

(* Parts of sequences that agree. *)
LEMMA SamePart ==
  ASSUME NEW T, NEW s \in Seq(T), NEW t \in Seq(T), NEW a \in Nat, NEW b \in Nat,
         a <= b, b <= Len(s), Len(s) <= Len(t), \A i \in 1..Len(s) : t[i] = s[i]
  PROVE  SubSeq(t, a + 1, b) = SubSeq(s, a + 1, b)
<1> DEFINE u == SubSeq(s, a + 1, b)
           v == SubSeq(t, a + 1, b)
<1>1. Len(s) \in Nat /\ Len(t) \in Nat
  BY LenProperties
<1>2. a + 1 \in 1..Len(s) + 1 /\ b \in a + 1 - 1..Len(s) /\ a + 1 \in 1..Len(t) + 1 /\ b \in a + 1 - 1..Len(t)
  BY <1>1
<1>3. u \in Seq(T) /\ Len(u) = b - (a + 1) + 1 /\ \A i \in 1..b - (a + 1) + 1 : u[i] = s[a + 1 + i - 1]
  BY <1>2, PartTypes
<1>4. v \in Seq(T) /\ Len(v) = b - (a + 1) + 1 /\ \A i \in 1..b - (a + 1) + 1 : v[i] = t[a + 1 + i - 1]
  BY <1>2, PartTypes
<1> HIDE DEF u, v
<1>5. ASSUME NEW i \in 1..Len(u) PROVE v[i] = u[i]
  <2>1. a + 1 + i - 1 \in 1..Len(s)
    BY <1>1, <1>3
  <2> QED
    BY <1>3, <1>4, <2>1
<1>6. u = v
  BY <1>3, <1>4, <1>5, SeqEqual
<1> QED
  BY <1>6 DEF u, v

(* Content up to a position and from there on.                               *)
LEMMA TailSplit ==
  ASSUME NEW log \in Seq(ChunkRows), NEW a \in Nat, NEW b \in Nat, a <= b, b <= Len(log)
  PROVE  Content(SubSeq(log, a + 1, Len(log)))
           = Content(SubSeq(log, a + 1, b)) \o Content(SubSeq(log, b + 1, Len(log)))
<1>1. Len(log) \in Nat
  BY LenProperties
<1> DEFINE m == a + 1
<1>2. m \in 1..Len(log) + 1 /\ b \in m - 1..Len(log) /\ Len(log) \in b..Len(log)
  BY <1>1
<1> HIDE DEF m
<1>3. Content(SubSeq(log, m, Len(log))) = Content(SubSeq(log, m, b)) \o Content(SubSeq(log, b + 1, Len(log)))
  BY <1>2, ContentSplit
<1> QED
  BY <1>3 DEF m

(* Steps that leave the follower and the log alone.                          *)
LEMMA FollowerKept ==
  ASSUME FollowerInv, UNCHANGED <<chunks, usage, follower>>
  PROVE  FollowerInv'
BY DEF FollowerInv

(* Appended chunks lie behind the follower's cursor.                         *)
LEMMA FollowerAppend ==
  ASSUME StoreInv, FollowerInv, NEW p \in Pods, Appends(p), UNCHANGED follower
  PROVE  FollowerInv'
<1>1. SUFFICES ASSUME follower.pc # "away", ~usage'.truncated
               PROVE  /\ follower.since <= follower.cursor /\ follower.cursor <= Len(chunks')
                      /\ follower.got = Content(SubSeq(chunks', follower.since + 1, follower.cursor))
  BY DEF FollowerInv
<1>2. Grows /\ chunks' \in Seq(ChunkRows) /\ chunks \in Seq(ChunkRows)
  BY AppendFacts DEF Appends, StoreInv, Typed
<1>3. /\ ~usage.truncated /\ Len(chunks') >= Len(chunks)
      /\ \A i \in 1..Len(chunks) : chunks'[i] = chunks[i]
  BY <1>1, <1>2 DEF Grows
<1>4. /\ follower.since <= follower.cursor /\ follower.cursor <= Len(chunks)
      /\ follower.got = Content(SubSeq(chunks, follower.since + 1, follower.cursor))
  BY <1>1, <1>3 DEF FollowerInv
<1>5. follower.since \in Nat /\ follower.cursor \in Nat /\ Len(chunks) \in Nat /\ Len(chunks') \in Nat
  <2>1. follower \in Followers
    BY DEF StoreInv, Typed
  <2> QED
    BY <1>2, <2>1, LenProperties DEF Followers
<1>6. SubSeq(chunks', follower.since + 1, follower.cursor) = SubSeq(chunks, follower.since + 1, follower.cursor)
  <2>1. \A s, t \in Seq(ChunkRows) : \A a, b \in Nat :
          a <= b /\ b <= Len(s) /\ Len(s) <= Len(t) /\ (\A i \in 1..Len(s) : t[i] = s[i])
            => SubSeq(t, a + 1, b) = SubSeq(s, a + 1, b)
    BY SamePart
  <2>2. Len(chunks) <= Len(chunks')
    BY <1>3, <1>5
  <2> QED
    BY <1>2, <1>3, <1>4, <1>5, <2>1, <2>2, Zenon
<1>7. follower.cursor <= Len(chunks')
  BY <1>3, <1>4, <1>5
<1> QED
  BY <1>4, <1>6, <1>7

(* A tail begins at its cursor and a poll moves on by what it read.          *)
LEMMA FollowerServed ==
  ASSUME StoreInv, FollowerInv, Follow \/ Poll \/ AskComplete \/ Unfollow
  PROVE  FollowerInv'
<1>1. /\ chunks \in Seq(ChunkRows) /\ Len(chunks) \in Nat /\ follower \in Followers /\ Numbered(chunks)
      /\ UNCHANGED <<chunks, usage>>
  <2>1. UNCHANGED <<chunks, usage>>
    BY DEF Follow, Poll, AskComplete, Unfollow, KeepButFollower, storeVars
  <2> QED
    BY <2>1, LenProperties DEF StoreInv, Typed
<1>2. LastSequence(chunks) = Len(chunks)
  BY <1>1, LastOfNumbered
<1>3. CASE Follow
  <2>1. PICK whole \in BOOLEAN : follower' = TailCursor(whole)
    BY <1>3 DEF Follow
  <2>2. SubSeq(chunks, 1, Len(chunks)) = chunks /\ SubSeq(chunks, Len(chunks) + 1, Len(chunks)) = <<>>
    BY <1>1, SubSeqFull, SubSeqEmpty
  <2>3. CASE whole
    <3>1. follower'.since = 0 /\ follower'.cursor = Len(chunks) /\ follower'.got = Content(chunks)
      BY <1>2, <2>1, <2>3 DEF TailCursor
    <3>2. 0 + 1 = 1
      OBVIOUS
    <3>3. follower'.since <= follower'.cursor /\ follower'.cursor <= Len(chunks)
      BY <1>1, <3>1
    <3>4. follower'.got = Content(SubSeq(chunks, follower'.since + 1, follower'.cursor))
      BY <2>2, <3>1, <3>2
    <3> QED
      BY <1>1, <3>3, <3>4 DEF FollowerInv
  <2>4. CASE ~whole
    <3>1. follower'.since = Len(chunks) /\ follower'.cursor = Len(chunks) /\ follower'.got = <<>>
      BY <1>2, <2>1, <2>4 DEF TailCursor
    <3>2. follower'.since <= follower'.cursor /\ follower'.cursor <= Len(chunks)
      BY <1>1, <3>1
    <3>3. follower'.got = Content(SubSeq(chunks, follower'.since + 1, follower'.cursor))
      BY <2>2, <3>1, ContentEmpty
    <3> QED
      BY <1>1, <3>2, <3>3 DEF FollowerInv
  <2> QED
    BY <2>3, <2>4
<1>4. CASE Poll
  <2>1. SUFFICES ASSUME ~usage.truncated, follower'.pc # "away"
                 PROVE  /\ follower'.since <= follower'.cursor /\ follower'.cursor <= Len(chunks)
                        /\ follower'.got = Content(SubSeq(chunks, follower'.since + 1, follower'.cursor))
    BY <1>1 DEF FollowerInv
  <2>2. /\ follower.since <= follower.cursor /\ follower.cursor <= Len(chunks)
        /\ follower.got = Content(SubSeq(chunks, follower.since + 1, follower.cursor))
        /\ follower.since \in Nat /\ follower.cursor \in Nat
    <3>1. follower.pc = "polling"
      BY <1>4 DEF Poll
    <3> QED
      BY <1>1, <2>1, <3>1 DEF FollowerInv, Followers
  <2> DEFINE new == SubSeq(chunks, follower.cursor + 1, Len(chunks))
  <2>3. After(chunks, follower.cursor) = new
    BY <1>1, <2>2, AfterOfNumbered
  <2>4. follower' = IF new = <<>> THEN [follower EXCEPT !.pc = "asking"]
                    ELSE [follower EXCEPT !.cursor = Last(new).sequence, !.got = @ \o Content(new)]
    BY <1>4, <2>3 DEF Poll
  <2>5. CASE new = <<>>
    <3> HIDE DEF new
    <3>1. follower' = [follower EXCEPT !.pc = "asking"]
      BY <2>4, <2>5
    <3>2. follower'.since = follower.since /\ follower'.cursor = follower.cursor /\ follower'.got = follower.got
      BY <1>1, <3>1 DEF Followers
    <3> QED
      BY <2>2, <3>2
  <2>6. CASE new # <<>>
    <3>1. /\ new \in Seq(ChunkRows) /\ Len(new) = Len(chunks) - (follower.cursor + 1) + 1
          /\ \A i \in 1..Len(chunks) - (follower.cursor + 1) + 1 : new[i] = chunks[follower.cursor + 1 + i - 1]
      <4>1. follower.cursor + 1 \in 1..Len(chunks) + 1 /\ Len(chunks) \in follower.cursor + 1 - 1..Len(chunks)
        BY <1>1, <2>2
      <4> QED
        BY <1>1, <4>1, PartTypes
    <3>2. Last(new).sequence = Len(chunks)
      <4> HIDE DEF new
      <4>1. Len(new) \in Nat \ {0}
        BY <2>6, <3>1, EmptySeq
      <4>2. new[Len(new)] = chunks[follower.cursor + 1 + Len(new) - 1] /\ follower.cursor + 1 + Len(new) - 1 = Len(chunks)
        <5>1. Len(new) \in 1..Len(chunks) - (follower.cursor + 1) + 1
          BY <1>1, <2>2, <3>1, <4>1
        <5>2. follower.cursor + 1 + Len(new) - 1 = Len(chunks)
          BY <1>1, <2>2, <3>1
        <5>3. new[Len(new)] = chunks[follower.cursor + 1 + Len(new) - 1]
          BY <3>1, <5>1
        <5> QED
          BY <5>2, <5>3
      <4>3. Len(chunks) \in 1..Len(chunks)
        BY <1>1, <2>2, <3>1, <4>1
      <4> QED
        BY <1>1, <4>2, <4>3 DEF Last, Numbered
    <3> DEFINE got == follower.got \o Content(new)
    <3>3. follower' = [follower EXCEPT !.cursor = Len(chunks), !.got = got]
      <4> HIDE DEF new
      <4> QED
        BY <2>4, <2>6, <3>2
    <3>4. got = Content(SubSeq(chunks, follower.since + 1, Len(chunks)))
      <4>1. \A a, b \in Nat : a <= b /\ b <= Len(chunks) =>
              Content(SubSeq(chunks, a + 1, Len(chunks)))
                = Content(SubSeq(chunks, a + 1, b)) \o Content(SubSeq(chunks, b + 1, Len(chunks)))
        BY <1>1, TailSplit
      <4> QED
        BY <2>2, <4>1, Zenon
    <3> HIDE DEF got, new
    <3>5. follower'.since = follower.since /\ follower'.cursor = Len(chunks) /\ follower'.got = got
      BY <1>1, <3>3 DEF Followers
    <3>6. follower.since <= Len(chunks) /\ Len(chunks) <= Len(chunks)
      BY <1>1, <2>2
    <3> QED
      BY <3>4, <3>5, <3>6
  <2> QED
    BY <2>5, <2>6
<1>5. CASE AskComplete
  <2>1. /\ follower.pc = "asking" /\ follower'.since = follower.since
        /\ follower'.cursor = follower.cursor /\ follower'.got = follower.got
    BY <1>1, <1>5 DEF AskComplete, Followers
  <2>2. follower.pc # "away"
    BY <2>1
  <2> QED
    BY <1>1, <2>1, <2>2 DEF FollowerInv
<1>6. CASE Unfollow
  BY <1>6 DEF Unfollow, NoFollower, FollowerInv
<1> QED
  BY <1>3, <1>4, <1>5, <1>6

(* Every step keeps what the follower holds.                                 *)
LEMMA FollowerStep ==
  ASSUME StoreInv, FollowerInv, [LogsNext]_logVars
  PROVE  FollowerInv'
<1>1. ASSUME NEW p \in Pods, ReadLine(p) \/ ReadTornLine(p) PROVE FollowerInv'
  BY <1>1, ReadLineAppends, ReadTornLineAppends, FollowerAppend
<1>2. CASE Follow \/ Poll \/ AskComplete \/ Unfollow
  BY <1>2, FollowerServed
<1>3. ASSUME NEW p \in Pods,
             \/ PodStops(p) \/ ProcessEvent(p) \/ Collect(p) \/ RecoverExhausted(p) \/ OpenStream(p)
             \/ StreamFails(p) \/ StreamEnds(p) \/ CheckTerminal(p) \/ CloseAttempt(p) \/ ClosePod(p)
      PROVE  FollowerInv'
  <2>1. UNCHANGED <<chunks, usage, follower>>
    BY <1>3 DEF PodStops, ProcessEvent, Collect, RecoverExhausted, OpenStream, StreamFails, StreamEnds,
      CheckTerminal, CloseAttempt, ClosePod, KeepStore, KeepButReader, storeVars
  <2> QED
    BY <2>1, FollowerKept
<1>4. CASE MarkLogsExhausted \/ UNCHANGED logVars
  <2>1. UNCHANGED <<chunks, usage, follower>>
    BY <1>4 DEF MarkLogsExhausted, logVars, storeVars
  <2> QED
    BY <2>1, FollowerKept
<1> QED
  BY <1>1, <1>2, <1>3, <1>4 DEF LogsNext, CollectorNext

(* Between ReadLogTailCursor, the chunks a follower polls and the appends in    *)
(* between nothing is missed and nothing sent twice while the log is uncut.     *)
THEOREM FollowersMissNothing == LogsSpec => []FollowerHasNoGap
<1>1. LogsInit => FollowerInv
  BY DEF LogsInit, NoFollower, FollowerInv
<1>2. StoreInv /\ FollowerInv /\ [LogsNext]_logVars => FollowerInv'
  BY FollowerStep
<1>3. ASSUME StoreInv, FollowerInv PROVE FollowerHasNoGap
  <2>1. SUFFICES ASSUME follower.pc # "away", ~usage.truncated
                 PROVE  Content(After(chunks, follower.since))
                          = follower.got \o Content(After(chunks, follower.cursor))
    BY DEF FollowerHasNoGap
  <2>2. /\ follower.since <= follower.cursor /\ follower.cursor <= Len(chunks)
        /\ follower.got = Content(SubSeq(chunks, follower.since + 1, follower.cursor))
    BY <1>3, <2>1 DEF FollowerInv
  <2>3. /\ chunks \in Seq(ChunkRows) /\ Numbered(chunks) /\ Len(chunks) \in Nat
        /\ follower.since \in Nat /\ follower.cursor \in Nat
    BY <1>3, LenProperties DEF StoreInv, Typed, Followers
  <2>4. follower.since \in 0..Len(chunks) /\ follower.cursor \in 0..Len(chunks)
    BY <2>2, <2>3
  <2>5. /\ After(chunks, follower.since) = SubSeq(chunks, follower.since + 1, Len(chunks))
        /\ After(chunks, follower.cursor) = SubSeq(chunks, follower.cursor + 1, Len(chunks))
    BY <2>3, <2>4, AfterOfNumbered
  <2>6. Content(SubSeq(chunks, follower.since + 1, Len(chunks)))
          = Content(SubSeq(chunks, follower.since + 1, follower.cursor))
            \o Content(SubSeq(chunks, follower.cursor + 1, Len(chunks)))
    <3>1. \A a, b \in Nat : a <= b /\ b <= Len(chunks) =>
            Content(SubSeq(chunks, a + 1, Len(chunks)))
              = Content(SubSeq(chunks, a + 1, b)) \o Content(SubSeq(chunks, b + 1, Len(chunks)))
      BY <2>3, TailSplit
    <3> QED
      BY <2>2, <2>3, <3>1, Zenon
  <2> QED
    BY <2>2, <2>5, <2>6
<1> QED
  BY <1>1, <1>2, <1>3, StoreInvariant, PTL DEF LogsSpec

-----------------------------------------------------------------------------
(* Lines and the cursor *)

(* The place of a line among those of its timestamp: what the ordinal of the  *)
(* cursor counts.                                                              *)
Rank(log, i) == Cardinality({j \in 1..i : log[j].at = log[i].at})

(* Later lines of the same timestamp have a higher place.                    *)
LEMMA RankFacts ==
  ASSUME NEW log \in PodOutputs
  PROVE  /\ \A i \in 1..Len(log) : Rank(log, i) \in Nat
         /\ \A i, j \in 1..Len(log) : i < j /\ log[i].at = log[j].at => Rank(log, i) < Rank(log, j)
<1> DEFINE same(i) == {j \in 1..i : log[j].at = log[i].at}
<1>1. Len(log) \in Nat
  BY OutputLines
<1>2. ASSUME NEW i \in 1..Len(log) PROVE IsFiniteSet(same(i)) /\ Cardinality(same(i)) \in Nat
  <2>1. IsFiniteSet(1..i) /\ same(i) \in SUBSET (1..i)
    BY <1>1, FS_Interval
  <2> HIDE DEF same
  <2> QED
    BY <2>1, FS_Subset, FS_CardinalityType
<1>3. \A i \in 1..Len(log) : Rank(log, i) = Cardinality(same(i))
  BY DEF Rank
<1>4. ASSUME NEW i \in 1..Len(log), NEW j \in 1..Len(log), i < j, log[i].at = log[j].at
      PROVE  Cardinality(same(i)) < Cardinality(same(j))
  <2>1. same(i) \in SUBSET (same(j) \ {j}) /\ j \in same(j)
    BY <1>1, <1>4
  <2> HIDE DEF same
  <2>2. IsFiniteSet(same(j) \ {j}) /\ Cardinality(same(j) \ {j}) = Cardinality(same(j)) - 1
    BY <1>2, <2>1, FS_RemoveElement
  <2>3. Cardinality(same(i)) <= Cardinality(same(j) \ {j})
    BY <2>1, <2>2, FS_Subset
  <2> QED
    BY <1>2, <2>2, <2>3
<1> HIDE DEF same
<1>5. \A i \in 1..Len(log) : Rank(log, i) \in Nat
  BY <1>2, <1>3
<1>6. \A i, j \in 1..Len(log) : i < j /\ log[i].at = log[j].at => Rank(log, i) < Rank(log, j)
  BY <1>3, <1>4
<1> QED
  BY <1>5, <1>6

(* A cursor at the n-th line, and the lines that AppendPodLog takes for       *)
(* duplicates then: the first n.                                               *)
AtLine(c, log, n) ==
  IF n = 0 THEN c.at = 0 ELSE c.at = log[n].at /\ c.ordinal = Rank(log, n)

(* The first n lines are those up to the cursor at the n-th.                 *)
LEMMA LinesBefore ==
  ASSUME NEW log \in PodOutputs, NEW n \in 0..Len(log), NEW c \in Cursors, AtLine(c, log, n),
         NEW i \in 1..Len(log)
  PROVE  (log[i].at < c.at \/ (log[i].at = c.at /\ Rank(log, i) <= c.ordinal)) <=> i <= n
<1>1. /\ Len(log) \in Nat /\ log[i].at \in Nat /\ log[i].at # 0 /\ Rank(log, i) \in Nat
      /\ c.at \in Nat
  BY OutputLines, RankFacts DEF Cursors
<1>2. CASE n = 0
  BY <1>1, <1>2 DEF AtLine
<1>3. CASE n # 0
  <2>1. n \in 1..Len(log) /\ c.at = log[n].at /\ c.ordinal = Rank(log, n)
    BY <1>1, <1>3 DEF AtLine
  <2>2. log[n].at \in Nat /\ Rank(log, n) \in Nat
    BY <2>1, OutputLines, RankFacts
  <2>3. CASE i <= n
    <3>1. log[i].at <= log[n].at
      BY <2>1, <2>3, OutputLines
    <3>2. log[i].at = log[n].at => Rank(log, i) <= Rank(log, n)
      <4>1. CASE i = n
        BY <2>2, <4>1
      <4>2. CASE i # n
        <5>1. i < n
          BY <1>1, <2>1, <2>3, <4>2
        <5> QED
          BY <1>1, <2>1, <2>2, <5>1, RankFacts
      <4> QED
        BY <4>1, <4>2
    <3> QED
      BY <1>1, <2>1, <2>2, <2>3, <3>1, <3>2
  <2>4. CASE ~(i <= n)
    <3>1. n <= i /\ n < i
      BY <1>1, <2>1, <2>4
    <3>2. log[n].at <= log[i].at
      BY <2>1, <3>1, OutputLines
    <3>3. log[i].at = log[n].at => Rank(log, n) < Rank(log, i)
      BY <2>1, <3>1, RankFacts
    <3> QED
      BY <1>1, <2>1, <2>2, <2>4, <3>2, <3>3
  <2> QED
    BY <2>3, <2>4
<1> QED
  BY <1>2, <1>3

(* A collector whose stream began where no later line shares a timestamp with *)
(* an earlier one, and that has skipped none.                                  *)
InOrder(r, log, n) ==
  r.pc = "reading" =>
    /\ r.from \in 1..r.next /\ r.next \in 1..n + 1
    /\ \A j \in 1..r.from - 1 : \A i \in r.from..Len(log) : log[j].at # log[i].at

(* sinceTime has whole seconds, so all lines of a timestamp are repeated.      *)
LEMMA SinceFacts ==
  ASSUME Typed, NEW p \in Pods, NEW n \in 0..Len(printed[p]), AtLine(cursor[p], printed[p], n)
  PROVE  /\ Since(p) \in 1..n + 1
         /\ \A j \in 1..Since(p) - 1 : \A i \in Since(p)..Len(printed[p]) : printed[p][j].at # printed[p][i].at
<1> DEFINE log == printed[p]
           at == cursor[p].at
           D == {i \in DOMAIN log : Second(log[i].at) < Second(at)}
           m == Cardinality(D)
<1>1. log \in PodOutputs /\ at \in Nat
  BY DEF Typed, Cursors
<1> HIDE DEF at, log
<1>2. /\ Len(log) \in Nat /\ DOMAIN log = 1..Len(log)
      /\ \A i \in 1..Len(log) : log[i].at \in Nat /\ log[i].at # 0
      /\ \A i, j \in 1..Len(log) : i <= j => log[i].at <= log[j].at
  BY <1>1, OutputLines
<1>3. n \in 0..Len(log) /\ (n = 0 => at = 0) /\ (n # 0 => at = log[n].at)
  BY DEF AtLine, at, log
<1>4. Since(p) = IF at = 0 THEN 1 ELSE 1 + m
  BY DEF Since, at, log
<1>5. CASE n = 0
  <2>1. Since(p) = 1
    BY <1>3, <1>4, <1>5
  <2> QED
    BY <1>2, <1>5, <2>1
<1>6. CASE n # 0
  <2>1. n \in 1..Len(log) /\ at = log[n].at /\ at # 0
    BY <1>2, <1>3, <1>6
  <2>2. m \in 0..Len(log) /\ D = 1..m
    <3>1. D \in SUBSET (1..Len(log))
      BY <1>2
    <3>2. ASSUME NEW i \in D, NEW j \in 1..i PROVE j \in D
      <4>1. i \in 1..Len(log) /\ j \in 1..Len(log) /\ j <= i
        BY <1>2
      <4>2. log[j].at <= log[i].at /\ log[j].at \in Nat /\ log[i].at \in Nat
        BY <1>2, <4>1
      <4>3. Second(log[j].at) <= Second(log[i].at) /\ Second(log[j].at) \in Int /\ Second(log[i].at) \in Int /\ Second(at) \in Int
        BY <1>1, <4>2 DEF Second
      <4>4. Second(log[i].at) < Second(at)
        OBVIOUS
      <4> QED
        BY <1>2, <4>1, <4>3, <4>4
    <3> HIDE DEF D
    <3> QED
      BY <1>2, <3>1, <3>2, InitialSegment
  <2>3. \A i \in 1..Len(log) : i <= m <=> Second(log[i].at) < Second(at)
    <3>1. \A i \in 1..Len(log) : i \in D <=> Second(log[i].at) < Second(at)
      BY <1>2
    <3> HIDE DEF D, m
    <3> QED
      BY <1>2, <2>2, <3>1
  <2> HIDE DEF D, m
  <2>4. ~(n <= m)
    <3>1. ~(Second(at) < Second(at))
      BY <1>1 DEF Second
    <3> QED
      BY <2>1, <2>3, <3>1
  <2>5. Since(p) = 1 + m /\ Since(p) \in 1..n + 1
    BY <1>2, <1>4, <2>1, <2>2, <2>4
  <2>6. ASSUME NEW j \in 1..Since(p) - 1, NEW i \in Since(p)..Len(log) PROVE log[j].at # log[i].at
    <3>1. j \in 1..Len(log) /\ i \in 1..Len(log) /\ j <= m /\ ~(i <= m)
      BY <1>2, <2>2, <2>5
    <3>2. Second(log[j].at) < Second(at) /\ ~(Second(log[i].at) < Second(at))
      BY <2>3, <3>1
    <3> QED
      BY <3>2
  <2> QED
    BY <2>5, <2>6 DEF log
<1> QED
  BY <1>5, <1>6

(* A collector in order gives a line the ordinal of its place.                 *)
LEMMA OrdinalIsRank ==
  ASSUME NEW p \in Pods, printed[p] \in PodOutputs, NEW n \in Nat, reader[p].pc = "reading",
         InOrder(reader[p], printed[p], n), reader[p].next <= Len(printed[p])
  PROVE  Ordinal(p, reader[p].next) = Rank(printed[p], reader[p].next)
<1> DEFINE log == printed[p]
           f == reader[p].from
           i == reader[p].next
<1>1. f \in 1..i /\ i \in 1..n + 1 /\ \A j \in 1..f - 1 : \A k \in f..Len(log) : log[j].at # log[k].at
  BY DEF InOrder
<1>2. Len(log) \in Nat
  BY OutputLines
<1>3. Ordinal(p, i) = Cardinality({j \in f..i : log[j].at = log[i].at})
  BY DEF Ordinal
<1>4. i <= Len(log)
  OBVIOUS
<1> HIDE DEF f, i, log
<1>5. \A j \in 1..i : log[j].at = log[i].at => j \in f..i
  BY <1>1, <1>2, <1>4
<1>6. {j \in f..i : log[j].at = log[i].at} = {j \in 1..i : log[j].at = log[i].at}
  BY <1>1, <1>5
<1>7. Ordinal(p, i) = Rank(log, i)
  BY <1>3, <1>6 DEF Rank
<1> QED
  BY <1>7 DEF i, log

-----------------------------------------------------------------------------
(* The events *)

(* The events of the first n lines are queued, in order and under their        *)
(* timestamps and ordinals.                                                     *)
Queued(log, box, n) ==
  /\ Len(box) = Cardinality({i \in 1..n : log[i].event})
  /\ \A k \in 1..Len(box) : /\ box[k].line \in 1..n /\ log[box[k].line].event
                            /\ box[k].id = <<log[box[k].line].at, Rank(log, box[k].line)>>
  /\ \A j, k \in 1..Len(box) : j < k => box[j].line < box[k].line

(* The event of the next line has an id that is not queued yet, and comes    *)
(* last.                                                                     *)
LEMMA QueuedNext ==
  ASSUME NEW log \in PodOutputs, NEW n \in Nat, n + 1 <= Len(log), NEW box \in Seq(Rows),
         Queued(log, box, n), NEW row \in Rows,
         row.id = <<log[n + 1].at, Rank(log, n + 1)>>, row.line = n + 1
  PROVE  /\ \A k \in 1..Len(box) : box[k].id # row.id
         /\ log[n + 1].event => Queued(log, Append(box, row), n + 1)
         /\ ~log[n + 1].event => Queued(log, box, n + 1)
<1> DEFINE due(k) == {i \in 1..k : log[i].event}
<1>1. Len(log) \in Nat /\ Len(box) \in Nat /\ n + 1 \in 1..Len(log) /\ log[n + 1].event \in BOOLEAN
  <2>1. Len(log) \in Nat /\ Len(box) \in Nat
    BY OutputLines, LenProperties
  <2>2. n + 1 \in 1..Len(log)
    BY <2>1
  <2> QED
    BY <2>1, <2>2, OutputLines
<1>2. /\ Len(box) = Cardinality(due(n))
      /\ \A k \in 1..Len(box) : /\ box[k].line \in 1..n /\ log[box[k].line].event
                                /\ box[k].id = <<log[box[k].line].at, Rank(log, box[k].line)>>
      /\ \A j, k \in 1..Len(box) : j < k => box[j].line < box[k].line
  BY DEF Queued
<1>3. ASSUME NEW k \in 1..Len(box) PROVE box[k].id # row.id
  <2> DEFINE l == box[k].line
  <2>1. l \in 1..n /\ box[k].id = <<log[l].at, Rank(log, l)>>
    BY <1>2
  <2> HIDE DEF l
  <2>2. l \in 1..Len(log) /\ l < n + 1
    BY <1>1, <2>1
  <2>3. log[l].at = log[n + 1].at => Rank(log, l) < Rank(log, n + 1)
    BY <1>1, <2>2, RankFacts
  <2>4. Rank(log, l) \in Nat /\ Rank(log, n + 1) \in Nat
    BY <1>1, <2>2, RankFacts
  <2>5. log[l].at = log[n + 1].at => Rank(log, l) # Rank(log, n + 1)
    BY <2>3, <2>4
  <2> QED
    BY <2>1, <2>5
<1>4. IsFiniteSet(due(n)) /\ n + 1 \notin due(n)
  <2>1. IsFiniteSet(1..n) /\ due(n) \in SUBSET (1..n)
    BY FS_Interval
  <2>2. n + 1 \notin due(n)
    BY <2>1
  <2> HIDE DEF due
  <2> QED
    BY <2>1, <2>2, FS_Subset
<1>5. ASSUME log[n + 1].event PROVE Queued(log, Append(box, row), n + 1)
  <2> DEFINE more == Append(box, row)
             m == Len(box)
  <2>1. due(n + 1) = due(n) \cup {n + 1}
    BY <1>5
  <2>2. Cardinality(due(n + 1)) = m + 1
    <3> HIDE DEF due
    <3> QED
      BY <1>2, <1>4, <2>1, FS_AddElement
  <2>3. /\ Len(more) = m + 1 /\ \A k \in 1..m : more[k] = box[k]
        /\ more[m + 1] = row
    BY AppendProperties
  <2> HIDE DEF more
  <2>4. ASSUME NEW k \in 1..m + 1
        PROVE  /\ more[k].line \in 1..n + 1 /\ log[more[k].line].event
               /\ more[k].id = <<log[more[k].line].at, Rank(log, more[k].line)>>
    <3>1. CASE k = m + 1
      BY <1>1, <1>5, <2>3, <3>1
    <3>2. CASE k # m + 1
      <4>1. k \in 1..m
        BY <1>1, <3>2
      <4>2. more[k] = box[k] /\ box[k].line \in 1..n + 1
        BY <1>2, <2>3, <4>1
      <4> QED
        BY <1>2, <4>1, <4>2
    <3> QED
      BY <3>1, <3>2
  <2>5. ASSUME NEW j \in 1..m + 1, NEW k \in 1..m + 1, j < k PROVE more[j].line < more[k].line
    <3>1. j \in 1..m /\ more[j] = box[j] /\ box[j].line \in 1..n
      <4>1. j \in 1..m
        BY <1>1, <2>5
      <4> QED
        BY <1>2, <2>3, <4>1
    <3>2. CASE k = m + 1
      <4>1. more[k].line = n + 1
        BY <2>3, <3>2
      <4> QED
        BY <3>1, <4>1
    <3>3. CASE k # m + 1
      <4>1. k \in 1..m
        BY <1>1, <3>3
      <4>2. more[k] = box[k]
        BY <2>3, <4>1
      <4> QED
        BY <1>2, <2>5, <3>1, <4>1, <4>2
    <3> QED
      BY <3>2, <3>3
  <2>6. Queued(log, more, n + 1)
    BY <2>2, <2>3, <2>4, <2>5 DEF Queued
  <2> QED
    BY <2>6 DEF more
<1>6. ASSUME ~log[n + 1].event PROVE Queued(log, box, n + 1)
  <2>1. due(n + 1) = due(n)
    BY <1>6
  <2>2. \A k \in 1..Len(box) : box[k].line \in 1..n + 1
    BY <1>2
  <2> QED
    BY <1>2, <2>1, <2>2 DEF Queued
<1> QED
  BY <1>3, <1>5, <1>6

(* The inductive invariant: a Pod's cursor is at one of its lines, its         *)
(* collector is in order, and the events up to the cursor are queued.          *)
EventsUpTo(p, n) ==
  /\ AtLine(cursor[p], printed[p], n)
  /\ InOrder(reader[p], printed[p], n)
  /\ Queued(printed[p], inbox[p], n)
(* Every Pod has such a line.                                                *)
EventsInv == \A p \in Pods : \E n \in 0..Len(printed[p]) : EventsUpTo(p, n)

(* Steps that leave a Pod's cursor and inbox alone and do not reopen its     *)
(* stream.                                                                   *)
LEMMA EventsKept ==
  ASSUME EventsInv, NEW p \in Pods, printed' = printed,
         cursor'[p].at = cursor[p].at, cursor'[p].ordinal = cursor[p].ordinal, inbox'[p] = inbox[p],
         reader'[p].pc # "reading" \/ reader'[p] = reader[p]
  PROVE  \E n \in 0..Len(printed'[p]) : EventsUpTo(p, n)'
<1>1. PICK n \in 0..Len(printed[p]) : EventsUpTo(p, n)
  BY DEF EventsInv
<1>2. AtLine(cursor'[p], printed[p], n)
  BY <1>1 DEF EventsUpTo, AtLine
<1>3. InOrder(reader'[p], printed[p], n)
  BY <1>1 DEF EventsUpTo, InOrder
<1>4. EventsUpTo(p, n)'
  BY <1>1, <1>2, <1>3 DEF EventsUpTo
<1> QED
  BY <1>1, <1>4

(* Reading the next line. *)
LEMMA EventsRead ==
  ASSUME StoreInv, EventsInv, NEW p \in Pods, ReadLine(p)
  PROVE  \E n \in 0..Len(printed'[p]) : EventsUpTo(p, n)'
<1> DEFINE log == printed[p]
           i == reader[p].next
           l == log[i]
           c == cursor[p]
<1>1. /\ log \in PodOutputs /\ reader \in [Pods -> Readers] /\ reader[p] \in Readers /\ c \in Cursors
      /\ inbox \in [Pods -> Seq(Rows)] /\ cursor \in [Pods -> Cursors] /\ inbox[p] \in Seq(Rows)
      /\ reader[p].pc = "reading" /\ i # 0 /\ i <= Len(log)
  BY DEF StoreInv, Typed, Started, ReadLine, CanRead, ReaderAt
<1>2. PICK n \in 0..Len(log) : EventsUpTo(p, n)
  BY DEF EventsInv
<1>3. AtLine(c, log, n) /\ InOrder(reader[p], log, n) /\ Queued(log, inbox[p], n)
  BY <1>2 DEF EventsUpTo
<1>4. /\ Len(log) \in Nat /\ n \in Nat /\ i \in 1..Len(log) /\ i \in 1..n + 1
      /\ reader[p].from \in 1..i
      /\ \A j \in 1..reader[p].from - 1 : \A k \in reader[p].from..Len(log) : log[j].at # log[k].at
  <2>1. Len(log) \in Nat /\ i \in Nat /\ n \in Nat
    BY <1>1, OutputLines DEF Readers
  <2> QED
    BY <1>1, <1>3, <2>1 DEF InOrder
<1>5. Ordinal(p, i) = Rank(log, i)
  BY <1>1, <1>3, <1>4, OrdinalIsRank
<1>6. l.at \in Nat /\ l.at # 0 /\ l.event \in BOOLEAN /\ Rank(log, i) \in Nat
  BY <1>1, <1>4, OutputLines, RankFacts
<1>7. Duplicate(c, l.at, Rank(log, i), c.plain) <=> i <= n
  BY <1>1, <1>3, <1>4, <1>6, LinesBefore DEF Duplicate
<1>8. /\ printed' = printed /\ reader'[p].pc = "reading" /\ reader'[p].from = reader[p].from
      /\ reader'[p].next = i + 1
  BY <1>1, ReadLineAppends, NextLineFacts
<1>9. AppendPodLog(p, l.at, Rank(log, i), c.plain, LineBytes(p, i, l.size), IF l.event THEN i ELSE 0)
  BY <1>5 DEF ReadLine
<1>10. \A k \in Nat : i <= k => InOrder(reader'[p], log, k)
  <2>1. SUFFICES ASSUME NEW k \in Nat, i <= k PROVE InOrder(reader'[p], log, k)
    OBVIOUS
  <2>2. reader[p].from \in 1..i + 1 /\ i + 1 \in 1..k + 1
    BY <1>4, <2>1
  <2> QED
    BY <1>4, <1>8, <2>2 DEF InOrder
<1> HIDE DEF log, i, l, c
<1>11. CASE i <= n
  <2>1. UNCHANGED <<cursor, inbox>>
    BY <1>7, <1>9, <1>11 DEF AppendPodLog, c
  <2>2. InOrder(reader'[p], log, n)
    BY <1>4, <1>10, <1>11
  <2>3. EventsUpTo(p, n)'
    BY <1>3, <1>8, <2>1, <2>2 DEF EventsUpTo, log, c
  <2> QED
    BY <1>8, <2>3 DEF log
<1>12. CASE ~(i <= n)
  <2>1. i = n + 1 /\ n + 1 <= Len(log) /\ i \in 0..Len(log)
    BY <1>4, <1>12
  <2> DEFINE new == [c EXCEPT !.at = l.at, !.ordinal = Rank(log, i)]
             row == [id |-> <<l.at, Rank(log, i)>>, line |-> i]
  <2>2. cursor' = [cursor EXCEPT ![p] = new]
    BY <1>6, <1>7, <1>9, <1>12 DEF AppendPodLog, c
  <2>3. cursor'[p].at = l.at /\ cursor'[p].ordinal = Rank(log, i)
    <3>1. new.at = l.at /\ new.ordinal = Rank(log, i)
      BY <1>1 DEF Cursors
    <3> HIDE DEF new
    <3> QED
      BY <1>1, <2>2, <3>1
  <2>4. AtLine(cursor'[p], log, i)
    BY <1>4, <2>3 DEF AtLine, l
  <2>5. InOrder(reader'[p], log, i)
    BY <1>4, <1>10
  <2>6. row \in Rows /\ row.id = <<log[n + 1].at, Rank(log, n + 1)>> /\ row.line = n + 1
    BY <1>4, <1>6, <2>1 DEF Rows, l
  <2>7. /\ \A k \in 1..Len(inbox[p]) : inbox[p][k].id # <<l.at, Rank(log, i)>>
        /\ l.event => Queued(log, Append(inbox[p], row), i)
        /\ ~l.event => Queued(log, inbox[p], i)
    <3>1. row.id = <<l.at, Rank(log, i)>>
      OBVIOUS
    <3> HIDE DEF row
    <3>2. n \in Nat /\ n + 1 <= Len(log) /\ inbox[p] \in Seq(Rows) /\ Queued(log, inbox[p], n)
      BY <1>1, <1>3, <1>4, <2>1
    <3>3. i = n + 1 /\ l = log[n + 1]
      BY <2>1 DEF l
    <3>4. /\ \A k \in 1..Len(inbox[p]) : inbox[p][k].id # row.id
          /\ log[n + 1].event => Queued(log, Append(inbox[p], row), n + 1)
          /\ ~log[n + 1].event => Queued(log, inbox[p], n + 1)
      BY <1>1, <2>6, <3>2, QueuedNext
    <3> QED
      BY <3>1, <3>3, <3>4
  <2>8. Queued(log, inbox'[p], i)
    <3>1. CASE l.event
      <4>1. QueueEvent(p, <<l.at, Rank(log, i)>>, i)
        BY <1>4, <1>7, <1>9, <1>12, <3>1 DEF AppendPodLog, c
      <4>2. ~\E k \in DOMAIN inbox[p] : inbox[p][k].id = <<l.at, Rank(log, i)>>
        BY <1>1, <2>7, LenProperties
      <4>3. inbox' = [inbox EXCEPT ![p] = Append(inbox[p], row)]
        BY <4>1, <4>2 DEF QueueEvent
      <4>4. inbox'[p] = Append(inbox[p], row)
        BY <1>1, <4>3
      <4> QED
        BY <2>7, <3>1, <4>4
    <3>2. CASE ~l.event
      <4>1. inbox' = inbox
        BY <1>7, <1>9, <1>12, <3>2 DEF AppendPodLog, c
      <4> QED
        BY <2>7, <3>2, <4>1
    <3> QED
      BY <3>1, <3>2
  <2>9. /\ AtLine(cursor'[p], printed'[p], n + 1) /\ InOrder(reader'[p], printed'[p], n + 1)
        /\ Queued(printed'[p], inbox'[p], n + 1)
    BY <1>8, <2>1, <2>4, <2>5, <2>8 DEF log
  <2>10. n + 1 \in 0..Len(printed'[p])
    BY <1>4, <1>8, <2>1 DEF log
  <2> QED
    BY <2>9, <2>10 DEF EventsUpTo
<1> QED
  BY <1>11, <1>12

(* Every step keeps the queued events, where only timestamps are torn.       *)
LEMMA EventsStep ==
  ASSUME "content" \notin Tears, StoreInv, EventsInv, [LogsNext]_logVars
  PROVE  EventsInv'
<1>1. /\ cursor \in [Pods -> Cursors] /\ inbox \in [Pods -> Seq(Rows)]
      /\ reader \in [Pods -> Readers] /\ Typed
  BY DEF StoreInv, Typed
<1>2. CASE UNCHANGED logVars
  <2>1. printed' = printed /\ cursor' = cursor /\ inbox' = inbox /\ reader' = reader
    BY <1>2 DEF logVars, podVars, storeVars
  <2> QED
    BY <2>1, EventsKept DEF EventsInv
<1>3. CASE MarkLogsExhausted \/ Follow \/ Poll \/ AskComplete \/ Unfollow
  <2>1. printed' = printed /\ cursor' = cursor /\ inbox' = inbox /\ reader' = reader
    BY <1>3 DEF MarkLogsExhausted, Follow, Poll, AskComplete, Unfollow, KeepButFollower, podVars, storeVars
  <2> QED
    BY <2>1, EventsKept DEF EventsInv
<1>4. ASSUME NEW p \in Pods, PodStops(p) \/ ProcessEvent(p)
      PROVE  EventsInv'
  <2>1. printed' = printed /\ cursor' = cursor /\ inbox' = inbox /\ reader' = reader
    BY <1>4 DEF PodStops, ProcessEvent, KeepButReader, podVars, storeVars
  <2> QED
    BY <2>1, EventsKept DEF EventsInv
<1>5. ASSUME NEW p \in Pods, printed' = printed,
             \E n \in 0..Len(printed'[p]) : EventsUpTo(p, n)',
             \A q \in Pods \ {p} : cursor'[q] = cursor[q] /\ inbox'[q] = inbox[q] /\ reader'[q] = reader[q]
      PROVE  EventsInv'
  <2>1. SUFFICES ASSUME NEW q \in Pods PROVE \E n \in 0..Len(printed'[q]) : EventsUpTo(q, n)'
    BY DEF EventsInv
  <2>2. CASE q = p
    BY <1>5, <2>2
  <2>3. CASE q # p
    <3>1. cursor'[q] = cursor[q] /\ inbox'[q] = inbox[q] /\ reader'[q] = reader[q]
      BY <1>5, <2>3
    <3> QED
      BY <1>5, <3>1, EventsKept
  <2> QED
    BY <2>2, <2>3
<1>6. ASSUME NEW p \in Pods, ReadLine(p) PROVE EventsInv'
  <2>1. Appends(p) /\ printed' = printed /\ reader' = [reader EXCEPT ![p].next = @ + 1]
    BY <1>6, ReadLineAppends
  <2>2. \A q \in Pods \ {p} : cursor'[q] = cursor[q] /\ inbox'[q] = inbox[q] /\ reader'[q] = reader[q]
    BY <1>1, <2>1, AppendFacts, NextLineFacts DEF Appends
  <2> QED
    BY <1>5, <1>6, <2>1, <2>2, EventsRead
<1>7. ASSUME NEW p \in Pods, ReadTornLine(p) PROVE EventsInv'
  <2>1. Appends(p) /\ printed' = printed /\ Move(p, "idle")
    BY <1>7, ReadTornLineAppends
  <2>2. /\ reader'[p].pc = "idle"
        /\ \A q \in Pods \ {p} : cursor'[q] = cursor[q] /\ inbox'[q] = inbox[q] /\ reader'[q] = reader[q]
    BY <1>1, <2>1, AppendFacts, MoveFacts DEF Appends
  <2>3. AppendPodLog(p, 0, 0, cursor[p].plain + 1, Fragment(p), 0)
    BY <1>7 DEF ReadTornLine
  <2>4. /\ inbox' = inbox
        /\ cursor' = cursor \/ cursor' = [cursor EXCEPT ![p] = [@ EXCEPT !.plain = cursor[p].plain + 1]]
    BY <2>3 DEF AppendPodLog
  <2>5. cursor'[p].at = cursor[p].at /\ cursor'[p].ordinal = cursor[p].ordinal
    <3> DEFINE c == [cursor[p] EXCEPT !.plain = cursor[p].plain + 1]
    <3>1. c.at = cursor[p].at /\ c.ordinal = cursor[p].ordinal
      BY <1>1 DEF Cursors
    <3>2. cursor' = cursor \/ cursor' = [cursor EXCEPT ![p] = c]
      BY <2>4
    <3> HIDE DEF c
    <3> QED
      BY <1>1, <3>1, <3>2
  <2>6. \E n \in 0..Len(printed'[p]) : EventsUpTo(p, n)'
    BY <2>1, <2>2, <2>4, <2>5, EventsKept
  <2> QED
    BY <1>5, <2>1, <2>2, <2>6
<1>8. ASSUME NEW p \in Pods, OpenStream(p) PROVE EventsInv'
  <2>1. /\ printed' = printed /\ cursor' = cursor /\ inbox' = inbox
        /\ reader' = [reader EXCEPT ![p] = [pc |-> "reading", from |-> Since(p), next |-> Since(p)]]
    BY <1>8 DEF OpenStream, KeepStore, KeepButReader, storeVars, podVars
  <2>2. /\ reader'[p].pc = "reading" /\ reader'[p].from = Since(p) /\ reader'[p].next = Since(p)
        /\ \A q \in Pods \ {p} : reader'[q] = reader[q]
    BY <1>1, <2>1
  <2>3. PICK n \in 0..Len(printed[p]) : EventsUpTo(p, n)
    BY DEF EventsInv
  <2>4. /\ Since(p) \in 1..n + 1
        /\ \A j \in 1..Since(p) - 1 : \A i \in Since(p)..Len(printed[p]) : printed[p][j].at # printed[p][i].at
    BY <1>1, <2>3, SinceFacts DEF EventsUpTo
  <2>5. InOrder(reader'[p], printed[p], n)
    <3>1. Since(p) \in 1..Since(p)
      BY <2>4
    <3> QED
      BY <2>2, <2>4, <3>1 DEF InOrder
  <2>6. EventsUpTo(p, n)'
    BY <2>1, <2>3, <2>5 DEF EventsUpTo
  <2> QED
    BY <1>5, <2>1, <2>2, <2>3, <2>6
<1>9. ASSUME NEW p \in Pods, NEW pc \in {"idle", "recover", "eof", "barrier", "mark"}, Move(p, pc),
             printed' = printed, inbox' = inbox,
             cursor' = cursor \/ cursor' = [cursor EXCEPT ![p].exhausted = TRUE]
      PROVE  EventsInv'
  <2>1. reader'[p].pc = pc /\ \A q \in Pods \ {p} : reader'[q] = reader[q]
    BY <1>1, <1>9, MoveFacts
  <2>2. /\ cursor'[p].at = cursor[p].at /\ cursor'[p].ordinal = cursor[p].ordinal
        /\ \A q \in Pods \ {p} : cursor'[q] = cursor[q]
    <3> DEFINE c == [cursor[p] EXCEPT !.exhausted = TRUE]
    <3>1. c.at = cursor[p].at /\ c.ordinal = cursor[p].ordinal
      BY <1>1 DEF Cursors
    <3>2. cursor' = cursor \/ cursor' = [cursor EXCEPT ![p] = c]
      BY <1>9
    <3> HIDE DEF c
    <3> QED
      BY <1>1, <3>1, <3>2
  <2>3. \E n \in 0..Len(printed'[p]) : EventsUpTo(p, n)'
    BY <1>9, <2>1, <2>2, EventsKept
  <2> QED
    BY <1>5, <1>9, <2>1, <2>2, <2>3
<1>10. ASSUME NEW p \in Pods,
              \/ Collect(p) \/ StreamFails(p) \/ StreamEnds(p) \/ CheckTerminal(p)
              \/ CloseAttempt(p) \/ RecoverExhausted(p) \/ ClosePod(p)
       PROVE  EventsInv'
  <2>1. printed' = printed /\ inbox' = inbox
    BY <1>10 DEF Collect, StreamFails, StreamEnds, CheckTerminal, CloseAttempt, RecoverExhausted, ClosePod,
      KeepStore, storeVars, KeepButReader, podVars
  <2>2. cursor' = cursor \/ cursor' = [cursor EXCEPT ![p].exhausted = TRUE]
    BY <1>10 DEF Collect, StreamFails, StreamEnds, CheckTerminal, CloseAttempt, RecoverExhausted, ClosePod,
      KeepStore, storeVars
  <2>3. \E pc \in {"idle", "recover", "eof", "barrier", "mark"} : Move(p, pc)
    BY <1>10 DEF Collect, StreamFails, StreamEnds, CheckTerminal, CloseAttempt, RecoverExhausted, ClosePod
  <2> QED
    BY <1>9, <2>1, <2>2, <2>3
<1> QED
  BY <1>2, <1>3, <1>4, <1>6, <1>7, <1>8, <1>10 DEF LogsNext, CollectorNext

(* Nothing is read or queued at first.                                       *)
LEMMA EventsInit == LogsInit => EventsInv
<1> SUFFICES ASSUME LogsInit, NEW p \in Pods
             PROVE  \E n \in 0..Len(printed[p]) : EventsUpTo(p, n)
  BY DEF EventsInv
<1>1. cursor[p] = NoCursor /\ reader[p] = NoReader /\ inbox[p] = <<>> /\ printed[p] \in PodOutputs
  BY DEF LogsInit
<1>2. 0 \in 0..Len(printed[p])
  BY <1>1, OutputLines
<1>3. Queued(printed[p], <<>>, 0)
  <2>1. {i \in 1..0 : printed[p][i].event} = {} /\ Len(<<>>) = 0
    OBVIOUS
  <2> QED
    BY <2>1, FS_EmptySet DEF Queued
<1>4. EventsUpTo(p, 0)
  BY <1>1, <1>3 DEF EventsUpTo, AtLine, InOrder, NoCursor, NoReader
<1> QED
  BY <1>2, <1>4

(* The events queued are those that the property names.                      *)
LEMMA EventsAreThose ==
  ASSUME StoreInv, EventsInv
  PROVE  EventsAreQueued
<1>1. SUFFICES ASSUME NEW p \in Pods
               PROVE  LET due == {i \in DOMAIN printed[p] : printed[p][i].event /\ Passed(p, i)}
                      IN /\ Len(inbox[p]) = Cardinality(due)
                         /\ \A k \in DOMAIN inbox[p] : /\ inbox[p][k].line \in due
                                                       /\ \A j \in 1..k - 1 : inbox[p][j].line < inbox[p][k].line
  BY DEF EventsAreQueued
<1> DEFINE log == printed[p]
           due == {i \in DOMAIN log : log[i].event /\ Passed(p, i)}
<1>2. log \in PodOutputs /\ cursor[p] \in Cursors /\ inbox[p] \in Seq(Rows)
  BY DEF StoreInv, Typed
<1>3. PICK n \in 0..Len(log) : EventsUpTo(p, n)
  BY DEF EventsInv
<1>4. Len(log) \in Nat /\ DOMAIN log = 1..Len(log) /\ Len(inbox[p]) \in Nat /\ DOMAIN inbox[p] = 1..Len(inbox[p])
  BY <1>2, OutputLines, LenProperties
<1>5. ASSUME NEW i \in 1..Len(log) PROVE Passed(p, i) <=> i <= n
  <2>1. Passed(p, i) <=> (log[i].at < cursor[p].at \/ (log[i].at = cursor[p].at /\ Rank(log, i) <= cursor[p].ordinal))
    BY DEF Passed, Rank
  <2>2. AtLine(cursor[p], log, n)
    BY <1>3 DEF EventsUpTo
  <2> HIDE DEF log
  <2> QED
    BY <1>2, <2>1, <2>2, LinesBefore
<1>6. due = {i \in 1..n : log[i].event}
  <2>1. \A i : i \in due <=> i \in 1..n /\ log[i].event
    BY <1>4, <1>5
  <2> QED
    BY <2>1
<1>7. Queued(log, inbox[p], n)
  BY <1>3 DEF EventsUpTo
<1> HIDE DEF due
<1>8. Len(inbox[p]) = Cardinality(due)
  BY <1>6, <1>7 DEF Queued
<1>9. ASSUME NEW k \in DOMAIN inbox[p]
      PROVE  inbox[p][k].line \in due /\ \A j \in 1..k - 1 : inbox[p][j].line < inbox[p][k].line
  <2>1. k \in 1..Len(inbox[p]) /\ \A j \in 1..k - 1 : j \in 1..Len(inbox[p]) /\ j < k
    BY <1>4
  <2> QED
    BY <1>6, <1>7, <2>1 DEF Queued
<1> QED
  BY <1>8, <1>9 DEF due

(* AppendPodLog queues the events of the lines up to a Pod's cursor, each once *)
(* and in order, through reopened streams, lost process memory, fragments      *)
(* without a timestamp and past the quota.  Where a stream may break within a   *)
(* line's content that does not hold (finding torn_line), so such breaks are    *)
(* excluded here.                                                               *)
THEOREM EventsQueuedOnce == "content" \notin Tears => (LogsSpec => []EventsAreQueued)
<1> SUFFICES ASSUME "content" \notin Tears PROVE LogsSpec => []EventsAreQueued
  OBVIOUS
<1>1. StoreInv /\ EventsInv /\ [LogsNext]_logVars => EventsInv'
  BY EventsStep
<1>2. StoreInv /\ EventsInv => EventsAreQueued
  BY EventsAreThose
<1> QED
  BY EventsInit, <1>1, <1>2, StoreInvariant, PTL DEF LogsSpec

-----------------------------------------------------------------------------
(* The stored bytes of a Pod *)

(* The positions of s whose elements are in W.                               *)
Selected(s, W) == {k \in DOMAIN s : s[k] \in W}

(* The elements of s that are in W are, in order, the first ones of b.         *)
IsSelection(s, W, b) ==
  \A k \in Selected(s, W) : LET n == Cardinality(Selected(s, W) \cap 1..k)
                            IN n <= Len(b) /\ s[k] = b[n]

(* It stays so where a sequence is cut, or other elements follow.              *)
LEMMA SelectionCut ==
  ASSUME NEW s \in Seq(Bytes), NEW t \in Seq(Bytes), NEW W, NEW b, NEW m \in 0..Len(s), m <= Len(t),
         \A i \in 1..m : t[i] = s[i], \A i \in m + 1..Len(t) : t[i] \notin W,
         IsSelection(s, W, b)
  PROVE  /\ IsSelection(t, W, b)
         /\ m = Len(s) => Selected(t, W) = Selected(s, W)
<1>1. Len(s) \in Nat /\ Len(t) \in Nat /\ DOMAIN s = 1..Len(s) /\ DOMAIN t = 1..Len(t)
  BY LenProperties
<1>2. \A i \in 1..m : i \in Selected(t, W) <=> i \in Selected(s, W)
  BY <1>1 DEF Selected
<1>3. \A i \in Selected(t, W) : i \in 1..m
  <2>1. SUFFICES ASSUME NEW i \in Selected(t, W), i \notin 1..m PROVE FALSE
    OBVIOUS
  <2>2. i \in 1..Len(t) /\ t[i] \in W
    BY <1>1 DEF Selected
  <2>3. i \in m + 1..Len(t)
    BY <1>1, <2>1, <2>2
  <2> QED
    BY <2>2, <2>3
<1>4. ASSUME NEW k \in Selected(t, W)
      PROVE  k \in Selected(s, W) /\ Selected(t, W) \cap 1..k = Selected(s, W) \cap 1..k /\ t[k] = s[k]
  <2>1. k \in 1..m /\ \A i \in 1..k : i \in 1..m
    BY <1>1, <1>3
  <2> QED
    BY <1>2, <2>1
<1>5. IsSelection(t, W, b)
  BY <1>4 DEF IsSelection
<1>6. m = Len(s) => Selected(t, W) = Selected(s, W)
  <2>1. \A i \in Selected(s, W) : i \in 1..Len(s)
    BY <1>1 DEF Selected
  <2> QED
    BY <1>2, <1>3, <2>1
<1> QED
  BY <1>5, <1>6

(* And where the next elements of b follow.                                    *)
LEMMA SelectionGrows ==
  ASSUME NEW s \in Seq(Bytes), NEW u \in Seq(Bytes), NEW W, NEW b \in Seq(Bytes),
         IsSelection(s, W, b), \A j \in 1..Len(u) : u[j] \in W,
         Cardinality(Selected(s, W)) + Len(u) <= Len(b),
         \A j \in 1..Len(u) : b[Cardinality(Selected(s, W)) + j] = u[j]
  PROVE  /\ IsSelection(s \o u, W, b)
         /\ Cardinality(Selected(s \o u, W)) = Cardinality(Selected(s, W)) + Len(u)
<1> DEFINE t == s \o u
           A == Selected(s, W)
           o == Cardinality(A)
           N(j) == Len(s) + 1..Len(s) + j
<1>1. /\ Len(s) \in Nat /\ Len(u) \in Nat /\ Len(b) \in Nat /\ DOMAIN s = 1..Len(s)
      /\ t \in Seq(Bytes) /\ Len(t) = Len(s) + Len(u) /\ DOMAIN t = 1..Len(s) + Len(u)
      /\ \A i \in 1..Len(s) + Len(u) : t[i] = IF i <= Len(s) THEN s[i] ELSE u[i - Len(s)]
  <2>1. Len(s) \in Nat /\ Len(u) \in Nat /\ Len(b) \in Nat /\ DOMAIN s = 1..Len(s)
    BY LenProperties
  <2>2. /\ t \in Seq(Bytes) /\ Len(t) = Len(s) + Len(u)
        /\ \A i \in 1..Len(s) + Len(u) : t[i] = IF i <= Len(s) THEN s[i] ELSE u[i - Len(s)]
    BY ConcatProperties
  <2> HIDE DEF t
  <2> QED
    BY <2>1, <2>2, LenProperties
<1> HIDE DEF t
<1>2. A \in SUBSET (1..Len(s)) /\ IsFiniteSet(A) /\ o \in Nat
  <2>1. IsFiniteSet(1..Len(s))
    BY <1>1, FS_Interval
  <2>2. A \in SUBSET (1..Len(s))
    BY <1>1 DEF Selected
  <2> HIDE DEF A
  <2> QED
    BY <2>1, <2>2, FS_Subset, FS_CardinalityType
<1>3. ASSUME NEW j \in 0..Len(u) PROVE Cardinality(A \cup N(j)) = o + j
  <2>1. IsFiniteSet(N(j)) /\ Cardinality(N(j)) = j
    <3> DEFINE first == Len(s) + 1
               last == Len(s) + j
    <3>1. first \in Int /\ last \in Int /\ (first > last => j = 0) /\ last - first + 1 = j
      BY <1>1
    <3>2. N(j) = first..last
      OBVIOUS
    <3> HIDE DEF N, first, last
    <3>3. IsFiniteSet(N(j)) /\ Cardinality(N(j)) = IF first > last THEN 0 ELSE last - first + 1
      BY <3>1, <3>2, FS_Interval
    <3> QED
      BY <3>1, <3>3
  <2>2. A \cap N(j) = {}
    <3>1. \A i : ~(i \in A /\ i \in N(j))
      BY <1>1, <1>2
    <3> QED
      BY <3>1
  <2> HIDE DEF A, N
  <2>3. Cardinality(A \cup N(j)) = Cardinality(A) + Cardinality(N(j)) - Cardinality(A \cap N(j))
    BY <1>2, <2>1, FS_Union
  <2>4. Cardinality(A \cap N(j)) = 0
    BY <2>2, FS_EmptySet
  <2>5. j \in Int
    BY <1>1
  <2> QED
    BY <1>2, <2>1, <2>3, <2>4, <2>5
<1>4. \A i \in 1..Len(s) : t[i] = s[i] /\ (i \in Selected(t, W) <=> i \in A)
  BY <1>1 DEF Selected
<1>5. ASSUME NEW j \in 1..Len(u)
      PROVE  t[Len(s) + j] = u[j] /\ Len(s) + j \in Selected(t, W)
  <2>1. Len(s) + j \in 1..Len(s) + Len(u) /\ ~(Len(s) + j <= Len(s)) /\ Len(s) + j - Len(s) = j
    BY <1>1
  <2>2. t[Len(s) + j] = u[j] /\ u[j] \in W
    BY <1>1, <2>1
  <2> QED
    BY <1>1, <2>1, <2>2 DEF Selected
<1>6. ASSUME NEW k \in Selected(t, W) PROVE k \in A \/ \E j \in 1..Len(u) : k = Len(s) + j
  <2>1. k \in 1..Len(s) + Len(u)
    BY <1>1 DEF Selected
  <2>2. CASE k \in 1..Len(s)
    BY <1>4, <2>2
  <2>3. CASE k \notin 1..Len(s)
    <3>1. k - Len(s) \in 1..Len(u) /\ k = Len(s) + (k - Len(s))
      BY <1>1, <2>1, <2>3
    <3> QED
      BY <3>1
  <2> QED
    BY <2>2, <2>3
<1>7. ASSUME NEW j \in 1..Len(u) PROVE Selected(t, W) \cap 1..Len(s) + j = A \cup N(j)
  <2>1. ASSUME NEW i \in Selected(t, W), i \in 1..Len(s) + j PROVE i \in A \/ i \in N(j)
    <3>1. CASE i \in A
      BY <3>1
    <3>2. CASE \E l \in 1..Len(u) : i = Len(s) + l
      BY <1>1, <2>1, <3>2
    <3> QED
      BY <1>6, <3>1, <3>2
  <2>2. ASSUME NEW i \in A PROVE i \in Selected(t, W) /\ i \in 1..Len(s) + j
    <3>1. i \in 1..Len(s)
      BY <1>2
    <3> QED
      BY <1>1, <1>4, <3>1
  <2>3. ASSUME NEW i \in N(j) PROVE i \in Selected(t, W) /\ i \in 1..Len(s) + j
    <3>1. i - Len(s) \in 1..Len(u) /\ i = Len(s) + (i - Len(s)) /\ i \in 1..Len(s) + j
      BY <1>1
    <3>2. Len(s) + (i - Len(s)) \in Selected(t, W)
      BY <1>5, <3>1
    <3> QED
      BY <3>1, <3>2
  <2> HIDE DEF A, N
  <2> QED
    BY <2>1, <2>2, <2>3
<1>8. IsSelection(t, W, b)
  <2>1. SUFFICES ASSUME NEW k \in Selected(t, W)
                 PROVE  /\ Cardinality(Selected(t, W) \cap 1..k) <= Len(b)
                        /\ t[k] = b[Cardinality(Selected(t, W) \cap 1..k)]
    BY DEF IsSelection
  <2>2. CASE k \in A
    <3>1. k \in 1..Len(s) /\ \A i \in 1..k : i \in 1..Len(s)
      BY <1>1, <1>2, <2>2
    <3>2. Selected(t, W) \cap 1..k = A \cap 1..k /\ t[k] = s[k]
      BY <1>4, <3>1
    <3>3. Cardinality(A \cap 1..k) <= Len(b) /\ s[k] = b[Cardinality(A \cap 1..k)]
      BY <2>2 DEF IsSelection
    <3> QED
      BY <3>2, <3>3
  <2>3. CASE \E j \in 1..Len(u) : k = Len(s) + j
    <3>1. PICK j \in 1..Len(u) : k = Len(s) + j
      BY <2>3
    <3>2. j \in 0..Len(u)
      BY <1>1
    <3>3. Cardinality(Selected(t, W) \cap 1..k) = o + j
      BY <1>3, <1>7, <3>1, <3>2
    <3>4. o + j <= Len(b)
      BY <1>1, <1>2
    <3>5. t[k] = u[j] /\ b[o + j] = u[j]
      BY <1>5, <3>1
    <3> QED
      BY <3>3, <3>4, <3>5
  <2> QED
    BY <1>6, <2>2, <2>3
<1>9. Cardinality(Selected(t, W)) = o + Len(u)
  <2>1. CASE Len(u) = 0
    <3>1. Selected(t, W) = A
      <4>1. \A i \in A : i \in Selected(t, W)
        BY <1>2, <1>4
      <4>2. \A i \in Selected(t, W) : i \in A
        BY <1>6, <2>1
      <4> QED
        BY <4>1, <4>2
    <3> QED
      BY <1>2, <2>1, <3>1
  <2>2. CASE Len(u) # 0
    <3>1. Len(u) \in 1..Len(u) /\ Len(u) \in 0..Len(u)
      BY <1>1, <2>2
    <3>2. Selected(t, W) \cap 1..Len(s) + Len(u) = Selected(t, W)
      BY <1>1 DEF Selected
    <3> QED
      BY <1>3, <1>7, <3>1, <3>2
  <2> QED
    BY <2>1, <2>2
<1> QED
  BY <1>8, <1>9 DEF t

(* What a Pod prints, line by line.                                            *)
PrintedRows(p) ==
  [i \in DOMAIN printed[p] |-> [sequence |-> i, bytes |-> LineBytes(p, i, printed[p][i].size)]]
(* How many bytes the first n lines have.                                    *)
Offset(p, n) == Len(Content(SubSeq(PrintedRows(p), 1, n)))

(* The bytes of the next line follow those of the lines before it.           *)
LEMMA PrintedFacts ==
  ASSUME NEW p \in Pods, printed[p] \in PodOutputs
  PROVE  /\ PrintedBytes(p) \in Seq(Bytes) /\ Offset(p, 0) = 0
         /\ \A n \in Nat : n + 1 <= Len(printed[p]) =>
              LET u == LineBytes(p, n + 1, printed[p][n + 1].size)
              IN /\ u \in Seq(Bytes) /\ Offset(p, n + 1) = Offset(p, n) + Len(u)
                 /\ Offset(p, n) + Len(u) <= Len(PrintedBytes(p))
                 /\ \A j \in 1..Len(u) : PrintedBytes(p)[Offset(p, n) + j] = u[j]
<1> DEFINE log == printed[p]
           rows == PrintedRows(p)
           b == PrintedBytes(p)
<1>1. /\ Len(log) \in Nat /\ DOMAIN log = 1..Len(log)
      /\ \A i \in 1..Len(log) : log[i].size \in Nat
  BY OutputLines
<1>2. \A i \in 1..Len(log) : LineBytes(p, i, log[i].size) \in Seq(Bytes)
  <2>1. SUFFICES ASSUME NEW i \in 1..Len(log) PROVE LineBytes(p, i, log[i].size) \in Seq(Bytes)
    OBVIOUS
  <2> DEFINE n == log[i].size
  <2>2. i \in Nat /\ n \in Nat
    BY <1>1
  <2> HIDE DEF n, log
  <2>3. LineBytes(p, i, n) \in Seq(Bytes)
    BY <2>2, BytesTypes
  <2> QED
    BY <2>3 DEF n
<1> DEFINE row(i) == [sequence |-> i, bytes |-> LineBytes(p, i, log[i].size)]
<1>3. \A i \in 1..Len(log) : row(i) \in ChunkRows /\ row(i).bytes = LineBytes(p, i, log[i].size)
  BY <1>1, <1>2 DEF ChunkRows
<1>4. rows = [i \in 1..Len(log) |-> row(i)]
  BY <1>1 DEF PrintedRows
<1>5. rows \in Seq(ChunkRows) /\ Len(rows) = Len(log) /\ \A i \in 1..Len(log) : rows[i].bytes = LineBytes(p, i, log[i].size)
  <2> HIDE DEF row, rows, log
  <2>1. rows \in [1..Len(log) -> ChunkRows] /\ \A i \in 1..Len(log) : rows[i] = row(i)
    BY <1>3, <1>4
  <2>2. rows \in Seq(ChunkRows) /\ Len(rows) = Len(log)
    BY <1>1, <2>1
  <2> QED
    BY <1>3, <2>1, <2>2
<1>6. b = Content(rows)
  <2> DEFINE s == [i \in DOMAIN log |-> LineBytes(p, i, log[i].size)]
             t == [i \in DOMAIN rows |-> rows[i].bytes]
  <2>1. DOMAIN rows = 1..Len(log) /\ DOMAIN log = 1..Len(log)
    BY <1>1, <1>5, LenProperties
  <2>2. s = [i \in 1..Len(log) |-> LineBytes(p, i, log[i].size)] /\ t = [i \in 1..Len(log) |-> rows[i].bytes]
    BY <2>1
  <2> HIDE DEF rows, log
  <2>3. s = t
    BY <1>5, <2>2
  <2>4. b = FlattenSeq(s) /\ Content(rows) = FlattenSeq(t)
    BY DEF PrintedBytes, Content, log
  <2> QED
    BY <2>3, <2>4
<1>7. b \in Seq(Bytes)
  BY <1>5, <1>6, ContentType
<1>8. Offset(p, 0) = 0
  <2>1. SubSeq(rows, 1, 0) = <<>> /\ Len(<<>>) = 0
    BY SubSeqEmpty
  <2> QED
    BY <2>1, ContentEmpty DEF Offset
<1>9. ASSUME NEW n \in Nat, n + 1 <= Len(log)
      PROVE  LET u == LineBytes(p, n + 1, log[n + 1].size)
             IN /\ u \in Seq(Bytes) /\ Offset(p, n + 1) = Offset(p, n) + Len(u)
                /\ Offset(p, n) + Len(u) <= Len(b)
                /\ \A j \in 1..Len(u) : b[Offset(p, n) + j] = u[j]
  <2> DEFINE u == LineBytes(p, n + 1, log[n + 1].size)
             a == Content(SubSeq(rows, 1, n))
             d == Content(SubSeq(rows, n + 1 + 1, Len(rows)))
  <2>0. n + 1 \in 1..Len(log)
    BY <1>1, <1>9
  <2>1. u \in Seq(Bytes)
    BY <1>2, <2>0
  <2>2. rows[n + 1].bytes = u /\ rows[n + 1] \in ChunkRows
    BY <1>5, <2>0, ElementOfSeq
  <2> HIDE DEF rows, log, u
  <2>3. /\ SubSeq(rows, 1, n) \in Seq(ChunkRows)
        /\ Content(SubSeq(rows, 1, n + 1)) = a \o u
    <3>1. 1 \in 1..Len(rows) + 1 /\ n \in 1 - 1..Len(rows) /\ 1 \in 1..Len(rows) /\ n + 1 \in 1..Len(rows)
      BY <1>1, <1>5, <2>0
    <3>2. SubSeq(rows, 1, n) \in Seq(ChunkRows)
      BY <1>5, <3>1, PartTypes
    <3>3. SubSeq(rows, 1, n + 1) = SubSeq(rows, 1, n + 1 - 1) \o <<rows[n + 1]>> /\ n + 1 - 1 = n
      BY <1>5, <3>1, SubSeqRecursiveSecond
    <3>4. SubSeq(rows, 1, n + 1) = Append(SubSeq(rows, 1, n), rows[n + 1])
      BY <2>2, <3>2, <3>3, AppendIsConcat
    <3>5. Content(SubSeq(rows, 1, n + 1)) = a \o rows[n + 1].bytes
      BY <2>2, <3>2, <3>4, ContentAppend
    <3> QED
      BY <2>2, <3>2, <3>5
  <2>4. a \in Seq(Bytes) /\ Len(a) \in Nat /\ Len(u) \in Nat
    BY <2>1, <2>3, ContentType, LenProperties
  <2>5. b = (a \o u) \o d /\ d \in Seq(Bytes)
    <3>1. /\ 1 \in 1..Len(rows) + 1 /\ n + 1 \in 1 - 1..Len(rows) /\ Len(rows) \in n + 1..Len(rows)
          /\ n + 1 + 1 \in 1..Len(rows) + 1 /\ Len(rows) \in n + 1 + 1 - 1..Len(rows)
      BY <1>1, <1>5, <2>0
    <3>2. Content(SubSeq(rows, 1, Len(rows))) = Content(SubSeq(rows, 1, n + 1)) \o d
      <4> DEFINE k == n + 1
      <4>1. 1 \in 1..Len(rows) + 1 /\ k \in 1 - 1..Len(rows) /\ Len(rows) \in k..Len(rows)
        BY <3>1
      <4> HIDE DEF k
      <4>2. Content(SubSeq(rows, 1, Len(rows))) = Content(SubSeq(rows, 1, k)) \o Content(SubSeq(rows, k + 1, Len(rows)))
        BY <1>5, <4>1, ContentSplit
      <4> QED
        BY <4>2 DEF k
    <3>3. SubSeq(rows, 1, Len(rows)) = rows
      BY <1>5, SubSeqFull
    <3>4. SubSeq(rows, n + 1 + 1, Len(rows)) \in Seq(ChunkRows)
      BY <1>5, <3>1, PartTypes
    <3> QED
      BY <1>6, <2>3, <3>2, <3>3, <3>4, ContentType
  <2>6. Offset(p, n) = Len(a) /\ Offset(p, n + 1) = Len(a \o u)
    BY <2>3 DEF Offset, rows
  <2> HIDE DEF a, d, b
  <2>7. /\ a \o u \in Seq(Bytes) /\ Len(a \o u) = Len(a) + Len(u)
        /\ \A i \in 1..Len(a) + Len(u) : (a \o u)[i] = IF i <= Len(a) THEN a[i] ELSE u[i - Len(a)]
    BY <2>1, <2>4, ConcatProperties
  <2>8. /\ Len(b) = Len(a) + Len(u) + Len(d) /\ Len(d) \in Nat
        /\ \A i \in 1..Len(a) + Len(u) : b[i] = (a \o u)[i]
    <3>1. /\ Len(b) = Len(a \o u) + Len(d)
          /\ \A i \in 1..Len(a \o u) + Len(d) : b[i] = IF i <= Len(a \o u) THEN (a \o u)[i] ELSE d[i - Len(a \o u)]
      BY <2>5, <2>7, ConcatProperties
    <3>2. Len(d) \in Nat
      BY <2>5, LenProperties
    <3> QED
      BY <2>4, <2>7, <3>1, <3>2
  <2>9. ASSUME NEW j \in 1..Len(u) PROVE b[Len(a) + j] = u[j]
    <3>1. Len(a) + j \in 1..Len(a) + Len(u) /\ ~(Len(a) + j <= Len(a)) /\ Len(a) + j - Len(a) = j
      BY <2>4
    <3> QED
      BY <2>7, <2>8, <3>1
  <2>10. Len(a) + Len(u) <= Len(b)
    BY <2>4, <2>8
  <2>11. /\ u \in Seq(Bytes) /\ Offset(p, n + 1) = Offset(p, n) + Len(u)
         /\ Offset(p, n) + Len(u) <= Len(b)
         /\ \A j \in 1..Len(u) : b[Offset(p, n) + j] = u[j]
    BY <2>1, <2>6, <2>7, <2>9, <2>10
  <2> QED
    BY <2>11 DEF u
<1> QED
  BY <1>7, <1>8, <1>9

(* The cursor is at one line only. *)
LEMMA AtOneLine ==
  ASSUME NEW log \in PodOutputs, NEW c \in Cursors, NEW n \in 0..Len(log), NEW m \in 0..Len(log),
         AtLine(c, log, n), AtLine(c, log, m)
  PROVE  n = m
<1>1. Len(log) \in Nat
  BY OutputLines
<1>2. \A i \in 1..Len(log) : i <= n <=> i <= m
  <2>1. SUFFICES ASSUME NEW i \in 1..Len(log) PROVE i <= n <=> i <= m
    OBVIOUS
  <2>2. (log[i].at < c.at \/ (log[i].at = c.at /\ Rank(log, i) <= c.ordinal)) <=> i <= n
    BY LinesBefore
  <2>3. (log[i].at < c.at \/ (log[i].at = c.at /\ Rank(log, i) <= c.ordinal)) <=> i <= m
    BY LinesBefore
  <2> QED
    BY <2>2, <2>3
<1>3. (n # 0 => n <= m) /\ (m # 0 => m <= n)
  <2>1. (n # 0 => n \in 1..Len(log) /\ n <= n) /\ (m # 0 => m \in 1..Len(log) /\ m <= m)
    BY <1>1
  <2> QED
    BY <1>2, <2>1
<1> QED
  BY <1>1, <1>3

(* The bytes of a Pod's lines. *)
LinesOf(p) == {p} \X DOMAIN printed[p]

(* The stored bytes of a Pod's lines are the first it printed, and until     *)
(* the log is cut all of the lines up to the n-th.                           *)
PrefixUpTo(p, n) ==
  /\ IsSelection(Content(chunks), LinesOf(p), PrintedBytes(p))
  /\ ~usage.truncated => Cardinality(Selected(Content(chunks), LinesOf(p))) = Offset(p, n)

(* The inductive invariant: that holds for the line the cursor is at.        *)
PrefixInv == \A p \in Pods : \A n \in 0..Len(printed[p]) : AtLine(cursor[p], printed[p], n) => PrefixUpTo(p, n)

(* Steps that leave the log and the positions of the cursors alone.          *)
LEMMA PrefixKept ==
  ASSUME PrefixInv, UNCHANGED <<printed, chunks, usage>>,
         \A p \in Pods : cursor'[p].at = cursor[p].at /\ cursor'[p].ordinal = cursor[p].ordinal
  PROVE  PrefixInv'
<1> SUFFICES ASSUME NEW p \in Pods, NEW n \in 0..Len(printed[p]), AtLine(cursor'[p], printed[p], n)
             PROVE  PrefixUpTo(p, n)'
  BY DEF PrefixInv
<1>1. AtLine(cursor[p], printed[p], n)
  BY DEF AtLine
<1>2. PrefixUpTo(p, n)
  BY <1>1 DEF PrefixInv
<1>3. LinesOf(p)' = LinesOf(p) /\ PrintedBytes(p)' = PrintedBytes(p) /\ Offset(p, n)' = Offset(p, n)
  BY DEF LinesOf, PrintedBytes, Offset, PrintedRows
<1>4. chunks' = chunks /\ usage' = usage
  OBVIOUS
<1> QED
  BY <1>2, <1>3, <1>4 DEF PrefixUpTo

(* Storing bytes keeps the selection, where joining them does: the marker is    *)
(* nobody's line.                                                               *)
LEMMA SelectionStored ==
  ASSUME StoreInv, NEW bytes \in Seq(Bytes), StoreBytes(bytes), NEW p \in Pods, NEW D, NEW b,
         IsSelection(Content(chunks), {p} \X D, b), IsSelection(Content(chunks) \o bytes, {p} \X D, b)
  PROVE  IsSelection(Content(chunks'), {p} \X D, b)
<1> DEFINE content == Content(chunks)
           all == content \o bytes
           W == {p} \X D
           x == SubSeq(all, 1, Kept)
<1>1. /\ chunks \in Seq(ChunkRows) /\ usage \in [total : Nat, truncated : BOOLEAN]
      /\ Numbered(chunks) /\ QuotaHolds
  BY DEF StoreInv, Typed
<1>2. /\ usage' \in [total : Nat, truncated : BOOLEAN]
      /\ usage.truncated => UNCHANGED chunks
      /\ ~usage'.truncated => Content(chunks') = all
      /\ usage'.truncated /\ ~usage.truncated =>
           Kept \in 0..Len(all) /\ Content(chunks') = x \o Marker
  BY <1>1, StoreBytesFacts
<1>3. CASE usage.truncated
  BY <1>2, <1>3
<1>4. CASE ~usage'.truncated
  BY <1>2, <1>4
<1>5. CASE usage'.truncated /\ ~usage.truncated
  <2>1. content \in Seq(Bytes) /\ all \in Seq(Bytes) /\ Len(all) \in Nat
    BY <1>1, ContentType, ConcatProperties, LenProperties
  <2>2. Kept \in 0..Len(all) /\ Content(chunks') = x \o Marker
    BY <1>2, <1>5
  <2> HIDE DEF all
  <2>3. x \in Seq(Bytes) /\ Len(x) = Kept /\ \A i \in 1..Kept : x[i] = all[i]
    <3>1. 1 \in 1..Len(all) + 1 /\ Kept \in 1 - 1..Len(all)
      BY <2>1, <2>2
    <3>2. x \in Seq(Bytes) /\ Len(x) = Kept - 1 + 1 /\ \A i \in 1..Kept - 1 + 1 : x[i] = all[1 + i - 1]
      BY <2>1, <3>1, PartTypes
    <3>3. Kept - 1 + 1 = Kept /\ \A i \in 1..Kept : 1 + i - 1 = i
      BY <2>1, <2>2
    <3> HIDE DEF x
    <3> QED
      BY <3>2, <3>3
  <2> HIDE DEF x
  <2>4. Marker \in Seq(Bytes) /\ Len(Marker) \in Nat
    BY BytesTypes, LenProperties
  <2> DEFINE t == x \o Marker
  <2>5. /\ t \in Seq(Bytes) /\ Len(t) = Kept + Len(Marker)
        /\ \A i \in 1..Kept + Len(Marker) : t[i] = IF i <= Kept THEN x[i] ELSE Marker[i - Kept]
    BY <2>3, <2>4, ConcatProperties
  <2> HIDE DEF t
  <2>6. \A i \in 1..Kept : t[i] = all[i]
    BY <2>1, <2>2, <2>3, <2>4, <2>5
  <2>7. \A i \in Kept + 1..Len(t) : t[i] \notin W
    <3>1. SUFFICES ASSUME NEW i \in Kept + 1..Len(t) PROVE t[i] \notin W
      OBVIOUS
    <3>2. i - Kept \in 1..Len(Marker) /\ t[i] = Marker[i - Kept]
      BY <2>1, <2>2, <2>4, <2>5
    <3>3. \A k \in 1..MarkerBytes : Marker[k] = <<"marker", k>>
      BY DEF Marker
    <3>4. Len(Marker) = MarkerBytes
      BY BytesTypes
    <3>5. t[i] = <<"marker", i - Kept>>
      BY <3>2, <3>3, <3>4
    <3>6. p # "marker"
      BY PodLogsAssumption
    <3> QED
      BY <3>5, <3>6
  <2>8. Kept <= Len(t)
    BY <2>1, <2>2, <2>4, <2>5
  <2>9. IsSelection(all, W, b)
    BY DEF all
  <2> HIDE DEF W
  <2>10. IsSelection(t, W, b)
    BY <2>1, <2>2, <2>5, <2>6, <2>7, <2>8, <2>9, SelectionCut
  <2> QED
    BY <2>2, <2>10 DEF t, W
<1> QED
  BY <1>2, <1>3, <1>4, <1>5

(* Bytes of no line of a Pod.                                                   *)
LEMMA ForeignBytes ==
  ASSUME NEW s \in Seq(Bytes), NEW u \in Seq(Bytes), NEW W, NEW b, IsSelection(s, W, b),
         \A j \in 1..Len(u) : u[j] \notin W
  PROVE  IsSelection(s \o u, W, b) /\ Selected(s \o u, W) = Selected(s, W)
<1> DEFINE t == s \o u
<1>1. Len(s) \in Nat /\ Len(u) \in Nat
  BY LenProperties
<1>2. /\ t \in Seq(Bytes) /\ Len(t) = Len(s) + Len(u)
      /\ \A i \in 1..Len(s) + Len(u) : t[i] = IF i <= Len(s) THEN s[i] ELSE u[i - Len(s)]
  BY ConcatProperties
<1> HIDE DEF t
<1>3. \A i \in 1..Len(s) : t[i] = s[i]
  BY <1>1, <1>2
<1>4. ASSUME NEW i \in Len(s) + 1..Len(t) PROVE t[i] \notin W
  <2>1. i - Len(s) \in 1..Len(u) /\ t[i] = u[i - Len(s)]
    BY <1>1, <1>2
  <2> QED
    BY <2>1
<1>5. Len(s) \in 0..Len(s) /\ Len(s) <= Len(t)
  BY <1>1, <1>2
<1>6. IsSelection(t, W, b) /\ Selected(t, W) = Selected(s, W)
  BY <1>2, <1>3, <1>4, <1>5, SelectionCut
<1> QED
  BY <1>6 DEF t

(* A line that is read is a duplicate, of which nothing is stored, or the next  *)
(* one of its Pod.                                                              *)
LEMMA LineRead ==
  ASSUME StoreInv, EventsInv, NEW p \in Pods, ReadLine(p)
  PROVE  \E n \in 0..Len(printed[p]) :
           /\ AtLine(cursor[p], printed[p], n)
           /\ \/ UNCHANGED <<cursor, chunks, usage>>
              \/ /\ n + 1 <= Len(printed[p])
                 /\ StoreBytes(LineBytes(p, n + 1, printed[p][n + 1].size))
                 /\ AtLine(cursor'[p], printed[p], n + 1)
<1> DEFINE log == printed[p]
           i == reader[p].next
           l == log[i]
           c == cursor[p]
<1>1. /\ log \in PodOutputs /\ reader[p] \in Readers /\ c \in Cursors /\ cursor \in [Pods -> Cursors]
      /\ reader[p].pc = "reading" /\ i # 0 /\ i <= Len(log)
  BY DEF StoreInv, Typed, Started, ReadLine, CanRead, ReaderAt
<1>2. PICK n \in 0..Len(log) : EventsUpTo(p, n)
  BY DEF EventsInv
<1>3. AtLine(c, log, n) /\ InOrder(reader[p], log, n)
  BY <1>2 DEF EventsUpTo
<1>4. Len(log) \in Nat /\ n \in Nat /\ i \in 1..Len(log) /\ i \in 1..n + 1
  <2>1. Len(log) \in Nat /\ i \in Nat /\ n \in Nat
    BY <1>1, OutputLines DEF Readers
  <2> QED
    BY <1>1, <1>3, <2>1 DEF InOrder
<1>5. Ordinal(p, i) = Rank(log, i)
  BY <1>1, <1>3, <1>4, OrdinalIsRank
<1>6. l.at \in Nat /\ l.at # 0
  BY <1>1, <1>4, OutputLines
<1>7. Duplicate(c, l.at, Rank(log, i), c.plain) <=> i <= n
  BY <1>1, <1>3, <1>4, <1>6, LinesBefore DEF Duplicate
<1>8. AppendPodLog(p, l.at, Rank(log, i), c.plain, LineBytes(p, i, l.size), IF l.event THEN i ELSE 0)
  BY <1>5 DEF ReadLine
<1> HIDE DEF log, i, l, c
<1>9. CASE i <= n
  <2>1. UNCHANGED <<cursor, chunks, usage>>
    BY <1>7, <1>8, <1>9 DEF AppendPodLog, c
  <2> QED
    BY <1>3, <2>1 DEF log, c
<1>10. CASE ~(i <= n)
  <2>1. i = n + 1 /\ n + 1 <= Len(log)
    BY <1>4, <1>10
  <2> DEFINE new == [c EXCEPT !.at = l.at, !.ordinal = Rank(log, i)]
  <2>2. cursor' = [cursor EXCEPT ![p] = new] /\ StoreBytes(LineBytes(p, i, l.size))
    BY <1>6, <1>7, <1>8, <1>10 DEF AppendPodLog, c
  <2>3. cursor'[p].at = l.at /\ cursor'[p].ordinal = Rank(log, i)
    <3>1. new.at = l.at /\ new.ordinal = Rank(log, i)
      BY <1>1 DEF Cursors
    <3> HIDE DEF new
    <3> QED
      BY <1>1, <2>2, <3>1
  <2>4. AtLine(cursor'[p], log, n + 1)
    BY <1>4, <2>1, <2>3 DEF AtLine, l
  <2>5. StoreBytes(LineBytes(p, n + 1, log[n + 1].size))
    BY <2>1, <2>2 DEF l
  <2> QED
    BY <1>3, <2>1, <2>4, <2>5 DEF log, c
<1> QED
  BY <1>9, <1>10

(* Storing bytes that continue a Pod's lines up to the m-th one.                *)
LEMMA PrefixStored ==
  ASSUME StoreInv, NEW bytes \in Seq(Bytes), StoreBytes(bytes), printed' = printed,
         NEW p \in Pods, NEW n, NEW m, PrefixUpTo(p, n),
         ~usage.truncated =>
           /\ IsSelection(Content(chunks) \o bytes, LinesOf(p), PrintedBytes(p))
           /\ Cardinality(Selected(Content(chunks) \o bytes, LinesOf(p))) = Offset(p, m)
  PROVE  PrefixUpTo(p, m)'
<1>1. /\ chunks \in Seq(ChunkRows) /\ usage \in [total : Nat, truncated : BOOLEAN]
      /\ Numbered(chunks) /\ QuotaHolds
  BY DEF StoreInv, Typed
<1>2. LinesOf(p)' = LinesOf(p) /\ PrintedBytes(p)' = PrintedBytes(p) /\ Offset(p, m)' = Offset(p, m)
  BY DEF LinesOf, PrintedBytes, Offset, PrintedRows
<1>3. /\ usage.truncated => usage'.truncated /\ UNCHANGED chunks
      /\ ~usage'.truncated => Content(chunks') = Content(chunks) \o bytes
  BY <1>1, StoreBytesFacts
<1>4. IsSelection(Content(chunks'), LinesOf(p), PrintedBytes(p))
  <2>1. CASE usage.truncated
    BY <1>3, <2>1 DEF PrefixUpTo
  <2>2. CASE ~usage.truncated
    BY <2>2, SelectionStored DEF PrefixUpTo, LinesOf
  <2> QED
    BY <2>1, <2>2
<1>5. ~usage'.truncated => Cardinality(Selected(Content(chunks'), LinesOf(p))) = Offset(p, m)
  BY <1>3
<1> QED
  BY <1>2, <1>4, <1>5 DEF PrefixUpTo

(* Storing bytes of no line of the Pod. *)
LEMMA ForeignStored ==
  ASSUME StoreInv, NEW bytes \in Seq(Bytes), StoreBytes(bytes), printed' = printed,
         NEW p \in Pods, NEW n, PrefixUpTo(p, n), \A j \in 1..Len(bytes) : bytes[j] \notin LinesOf(p)
  PROVE  PrefixUpTo(p, n)'
<1>1. Content(chunks) \in Seq(Bytes)
  BY ContentType DEF StoreInv, Typed
<1>2. /\ IsSelection(Content(chunks) \o bytes, LinesOf(p), PrintedBytes(p))
      /\ Selected(Content(chunks) \o bytes, LinesOf(p)) = Selected(Content(chunks), LinesOf(p))
  BY <1>1, ForeignBytes DEF PrefixUpTo
<1>3. ~usage.truncated => Cardinality(Selected(Content(chunks) \o bytes, LinesOf(p))) = Offset(p, n)
  BY <1>2 DEF PrefixUpTo
<1> QED
  BY <1>2, <1>3, PrefixStored

(* Reading the next line continues its Pod's bytes and is foreign to the     *)
(* other Pods.                                                               *)
LEMMA PrefixRead ==
  ASSUME StoreInv, EventsInv, PrefixInv, NEW p \in Pods, ReadLine(p)
  PROVE  PrefixInv'
<1> DEFINE log == printed[p]
<1>1. /\ printed' = printed /\ cursor \in [Pods -> Cursors] /\ log \in PodOutputs /\ chunks \in Seq(ChunkRows)
      /\ Appends(p) /\ Len(log) \in Nat
  BY ReadLineAppends, OutputLines DEF StoreInv, Typed
<1>2. cursor' \in [Pods -> Cursors] /\ \A q \in Pods \ {p} : cursor'[q] = cursor[q]
  BY <1>1, AppendFacts DEF Appends
<1>3. PICK n \in 0..Len(log) :
        /\ AtLine(cursor[p], log, n)
        /\ \/ UNCHANGED <<cursor, chunks, usage>>
           \/ /\ n + 1 <= Len(log)
              /\ StoreBytes(LineBytes(p, n + 1, log[n + 1].size))
              /\ AtLine(cursor'[p], log, n + 1)
  BY LineRead
<1>4. CASE UNCHANGED <<cursor, chunks, usage>>
  BY <1>1, <1>4, PrefixKept
<1>5. CASE ~UNCHANGED <<cursor, chunks, usage>>
  <2> DEFINE u == LineBytes(p, n + 1, log[n + 1].size)
  <2>1. n \in Nat /\ n + 1 \in 1..Len(log) /\ n + 1 \in 0..Len(log) /\ n + 1 <= Len(log)
    BY <1>1, <1>3, <1>5
  <2>2. StoreBytes(u) /\ AtLine(cursor'[p], log, n + 1)
    BY <1>3, <1>5
  <2>3. /\ PrintedBytes(p) \in Seq(Bytes) /\ u \in Seq(Bytes)
        /\ Offset(p, n + 1) = Offset(p, n) + Len(u) /\ Offset(p, n) + Len(u) <= Len(PrintedBytes(p))
        /\ \A j \in 1..Len(u) : PrintedBytes(p)[Offset(p, n) + j] = u[j]
    BY <1>1, <2>1, PrintedFacts
  <2>4. \A j \in 1..Len(u) : u[j] = <<p, n + 1>>
    <3> DEFINE size == log[n + 1].size
    <3>1. size \in Nat
      BY <1>1, <2>1, OutputLines
    <3> HIDE DEF size
    <3>2. Len(LineBytes(p, n + 1, size)) = size
      BY <2>1, <3>1, BytesTypes
    <3>3. \A j \in 1..size : LineBytes(p, n + 1, size)[j] = <<p, n + 1>>
      BY DEF LineBytes
    <3> QED
      BY <3>2, <3>3 DEF size
  <2>5. DOMAIN log = 1..Len(log)
    BY <1>1, OutputLines
  <2> HIDE DEF u
  <2>6. PrefixUpTo(p, n + 1)'
    <3>1. PrefixUpTo(p, n)
      BY <1>3 DEF PrefixInv
    <3>2. \A j \in 1..Len(u) : u[j] \in LinesOf(p)
      <4>1. n + 1 \in DOMAIN log
        BY <2>1, <2>5
      <4>2. <<p, n + 1>> \in LinesOf(p)
        BY <4>1 DEF LinesOf
      <4> QED
        BY <2>4, <4>2
    <3>3. Content(chunks) \in Seq(Bytes)
      BY <1>1, ContentType
    <3>4. ~usage.truncated =>
            /\ IsSelection(Content(chunks) \o u, LinesOf(p), PrintedBytes(p))
            /\ Cardinality(Selected(Content(chunks) \o u, LinesOf(p))) = Offset(p, n + 1)
      <4>1. SUFFICES ASSUME ~usage.truncated
                     PROVE  /\ IsSelection(Content(chunks) \o u, LinesOf(p), PrintedBytes(p))
                            /\ Cardinality(Selected(Content(chunks) \o u, LinesOf(p))) = Offset(p, n + 1)
        OBVIOUS
      <4>2. /\ IsSelection(Content(chunks), LinesOf(p), PrintedBytes(p))
            /\ Cardinality(Selected(Content(chunks), LinesOf(p))) = Offset(p, n)
        BY <3>1, <4>1 DEF PrefixUpTo
      <4> QED
        BY <2>3, <3>2, <3>3, <4>2, SelectionGrows
    <3> QED
      BY <1>1, <2>2, <2>3, <3>1, <3>4, PrefixStored
  <2>7. ASSUME NEW q \in Pods \ {p}, NEW m, PrefixUpTo(q, m) PROVE PrefixUpTo(q, m)'
    <3>1. \A j \in 1..Len(u) : u[j] \notin LinesOf(q)
      BY <2>4 DEF LinesOf
    <3> QED
      BY <1>1, <2>2, <2>3, <2>7, <3>1, ForeignStored
  <2>8. SUFFICES ASSUME NEW q \in Pods, NEW m \in 0..Len(printed[q]), AtLine(cursor'[q], printed[q], m)
                 PROVE  PrefixUpTo(q, m)'
    BY <1>1 DEF PrefixInv
  <2>9. CASE q = p
    <3>1. m = n + 1
      BY <1>1, <1>2, <2>1, <2>2, <2>8, <2>9, AtOneLine
    <3> QED
      BY <2>6, <2>9, <3>1
  <2>10. CASE q # p
    <3>1. AtLine(cursor[q], printed[q], m)
      BY <1>2, <2>8, <2>10
    <3>2. PrefixUpTo(q, m)
      BY <3>1 DEF PrefixInv
    <3> QED
      BY <2>7, <2>10, <3>2
  <2> QED
    BY <2>9, <2>10
<1> QED
  BY <1>4, <1>5

(* A fragment is no byte of a line, and only the cursor of the lines without    *)
(* timestamp moves.                                                             *)
LEMMA PrefixTorn ==
  ASSUME "content" \notin Tears, StoreInv, PrefixInv, NEW p \in Pods, ReadTornLine(p)
  PROVE  PrefixInv'
<1>1. /\ printed' = printed /\ cursor \in [Pods -> Cursors] /\ cursor[p] \in Cursors
      /\ \A q \in Pods : printed[q] \in PodOutputs
  BY ReadTornLineAppends DEF StoreInv, Typed
<1>2. AppendPodLog(p, 0, 0, cursor[p].plain + 1, Fragment(p), 0)
  BY DEF ReadTornLine
<1>3. \A q \in Pods : cursor'[q].at = cursor[q].at /\ cursor'[q].ordinal = cursor[q].ordinal
  <2> DEFINE c == [cursor[p] EXCEPT !.plain = cursor[p].plain + 1]
  <2>1. c.at = cursor[p].at /\ c.ordinal = cursor[p].ordinal
    BY <1>1 DEF Cursors
  <2>2. cursor' = cursor \/ cursor' = [cursor EXCEPT ![p] = c]
    BY <1>2 DEF AppendPodLog
  <2> HIDE DEF c
  <2> QED
    BY <1>1, <2>1, <2>2
<1>4. CASE UNCHANGED <<chunks, usage>>
  BY <1>1, <1>3, <1>4, PrefixKept
<1>5. CASE StoreBytes(Fragment(p))
  <2>1. SUFFICES ASSUME NEW q \in Pods, NEW m \in 0..Len(printed[q]), AtLine(cursor'[q], printed[q], m)
                 PROVE  PrefixUpTo(q, m)'
    BY <1>1 DEF PrefixInv
  <2>2. AtLine(cursor[q], printed[q], m)
    BY <1>3, <2>1 DEF AtLine
  <2>3. PrefixUpTo(q, m)
    BY <2>2 DEF PrefixInv
  <2>4. \A j \in 1..Len(Fragment(p)) : Fragment(p)[j] \notin LinesOf(q)
    <3>1. DOMAIN printed[q] = 1..Len(printed[q]) /\ 0 \notin 1..Len(printed[q])
      BY <1>1, OutputLines
    <3>2. \A j \in 1..Len(Fragment(p)) : Fragment(p)[j] = <<p, 0>>
      BY DEF Fragment
    <3> QED
      BY <3>1, <3>2 DEF LinesOf
  <2>5. Fragment(p) \in Seq(Bytes)
    BY BytesTypes
  <2> QED
    BY <1>1, <1>5, <2>3, <2>4, <2>5, ForeignStored
<1> QED
  BY <1>2, <1>4, <1>5 DEF AppendPodLog

(* Every step keeps the stored prefixes, where only timestamps are torn.     *)
LEMMA PrefixStep ==
  ASSUME "content" \notin Tears, StoreInv, EventsInv, PrefixInv, [LogsNext]_logVars
  PROVE  PrefixInv'
<1>1. cursor \in [Pods -> Cursors]
  BY DEF StoreInv, Typed
<1>2. CASE UNCHANGED logVars
  <2>1. UNCHANGED <<printed, chunks, usage, cursor>>
    BY <1>2 DEF logVars, podVars, storeVars
  <2> QED
    BY <2>1, PrefixKept
<1>3. CASE MarkLogsExhausted \/ Follow \/ Poll \/ AskComplete \/ Unfollow
  <2>1. UNCHANGED <<printed, chunks, usage, cursor>>
    BY <1>3 DEF MarkLogsExhausted, Follow, Poll, AskComplete, Unfollow, KeepButFollower, podVars, storeVars
  <2> QED
    BY <2>1, PrefixKept
<1>4. ASSUME NEW p \in Pods,
             \/ PodStops(p) \/ ProcessEvent(p) \/ Collect(p) \/ OpenStream(p) \/ StreamFails(p)
             \/ StreamEnds(p) \/ CheckTerminal(p) \/ CloseAttempt(p)
      PROVE  PrefixInv'
  <2>1. UNCHANGED <<printed, chunks, usage, cursor>>
    BY <1>4 DEF PodStops, ProcessEvent, Collect, OpenStream, StreamFails, StreamEnds, CheckTerminal, CloseAttempt,
      KeepStore, storeVars, KeepButReader, podVars
  <2> QED
    BY <2>1, PrefixKept
<1>5. ASSUME NEW p \in Pods, RecoverExhausted(p) \/ ClosePod(p)
      PROVE  PrefixInv'
  <2>1. UNCHANGED <<printed, chunks, usage>> /\ cursor' = [cursor EXCEPT ![p].exhausted = TRUE]
    BY <1>5 DEF RecoverExhausted, ClosePod, KeepButReader, podVars
  <2>2. \A q \in Pods : cursor'[q].at = cursor[q].at /\ cursor'[q].ordinal = cursor[q].ordinal
    <3> DEFINE c == [cursor[p] EXCEPT !.exhausted = TRUE]
    <3>1. c.at = cursor[p].at /\ c.ordinal = cursor[p].ordinal
      BY <1>1 DEF Cursors
    <3>2. cursor' = [cursor EXCEPT ![p] = c]
      BY <2>1
    <3> HIDE DEF c
    <3> QED
      BY <1>1, <3>1, <3>2
  <2> QED
    BY <2>1, <2>2, PrefixKept
<1> QED
  BY <1>2, <1>3, <1>4, <1>5, PrefixRead, PrefixTorn DEF LogsNext, CollectorNext

(* Nothing is stored at first.                                               *)
LEMMA PrefixInit == LogsInit => PrefixInv
<1> SUFFICES ASSUME LogsInit, NEW p \in Pods, NEW n \in 0..Len(printed[p]), AtLine(cursor[p], printed[p], n)
             PROVE  PrefixUpTo(p, n)
  BY DEF PrefixInv
<1>1. cursor[p] = NoCursor /\ chunks = <<>> /\ printed[p] \in PodOutputs
  BY DEF LogsInit
<1>2. Len(printed[p]) \in Nat /\ 0 \in 0..Len(printed[p]) /\ NoCursor \in Cursors
  BY <1>1, OutputLines DEF NoCursor, Cursors
<1>3. AtLine(cursor[p], printed[p], 0)
  BY <1>1 DEF AtLine, NoCursor
<1>4. n = 0
  BY <1>1, <1>2, <1>3, AtOneLine
<1>5. Content(chunks) = <<>> /\ Selected(<<>>, LinesOf(p)) = {}
  BY <1>1, ContentEmpty DEF Selected
<1>6. Cardinality({}) = 0 /\ Offset(p, 0) = 0
  BY <1>1, FS_EmptySet, PrintedFacts
<1> QED
  BY <1>4, <1>5, <1>6 DEF PrefixUpTo, IsSelection

(* The stored prefixes are those the property names: every Pod's cursor is   *)
(* at a line.                                                                *)
LEMMA PrefixIsStored ==
  ASSUME EventsInv, PrefixInv
  PROVE  LogIsPrefix
<1>1. SUFFICES ASSUME NEW p \in Pods
               PROVE  \A k \in StoredOf(p, Content(chunks)) :
                        LET n == Cardinality(StoredOf(p, Content(chunks)) \cap 1..k)
                        IN n <= Len(PrintedBytes(p)) /\ Content(chunks)[k] = PrintedBytes(p)[n]
  BY DEF LogIsPrefix
<1>2. PICK n \in 0..Len(printed[p]) : EventsUpTo(p, n)
  BY DEF EventsInv
<1>3. IsSelection(Content(chunks), LinesOf(p), PrintedBytes(p))
  BY <1>2 DEF PrefixInv, PrefixUpTo, EventsUpTo
<1>4. StoredOf(p, Content(chunks)) = Selected(Content(chunks), LinesOf(p))
  BY DEF StoredOf, Selected, LinesOf
<1> QED
  BY <1>3, <1>4 DEF IsSelection

(* What the attempt stores of a Pod's lines is, byte for byte and in order, the *)
(* beginning of what the Pod printed: no line is repeated, left out or moved by *)
(* reopened streams, lost process memory, other Pods or fragments without a     *)
(* timestamp, before and after the log is cut.  Breaks within a line's content  *)
(* are excluded as in EventsQueuedOnce.                                         *)
THEOREM StoredLinesAreAPrefix == "content" \notin Tears => (LogsSpec => []LogIsPrefix)
<1> SUFFICES ASSUME "content" \notin Tears PROVE LogsSpec => []LogIsPrefix
  OBVIOUS
<1>1. StoreInv /\ EventsInv /\ [LogsNext]_logVars => EventsInv'
  BY EventsStep
<1>2. StoreInv /\ EventsInv /\ PrefixInv /\ [LogsNext]_logVars => PrefixInv'
  BY PrefixStep
<1>3. EventsInv /\ PrefixInv => LogIsPrefix
  BY PrefixIsStored
<1> QED
  BY EventsInit, PrefixInit, <1>1, <1>2, <1>3, StoreInvariant, PTL DEF LogsSpec
=============================================================================
