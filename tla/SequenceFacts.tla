--------------------------- MODULE SequenceFacts ---------------------------
(* Facts about sequences without repetition, such as the buffer of a        *)
(* channel and its parked senders.                                          *)
EXTENDS Integers, SequencesExt, SequenceTheorems, WellFoundedInduction, TLAPS

(* A set of natural numbers that is not empty has a least element. *)
LEMMA LeastNat ==
    ASSUME NEW T \in SUBSET Nat, T # {}
    PROVE  \E n \in T : \A k \in T : n <= k
<1>1. PICK n \in T : \A k \in T : <<k, n>> \notin OpToRel(<, Nat)
  BY WFMin, NatLessThanWellFounded, Zenon
<1>2. \A k \in T : ~(k < n)
  BY <1>1, Zenon DEF OpToRel
<1> QED
  BY <1>2

(* Induction on the natural numbers, for a set instead of an operator. *)
LEMMA SetInduction ==
    ASSUME NEW T \in SUBSET Nat, 0 \in T, \A n \in T : n + 1 \in T
    PROVE  T = Nat
<1> SUFFICES ASSUME Nat \ T # {} PROVE FALSE
  OBVIOUS
<1>1. PICK n \in Nat \ T : \A k \in Nat \ T : n <= k
  BY LeastNat
<1>2. n - 1 \in T /\ (n - 1) + 1 = n
  BY <1>1
<1> QED
  BY <1>1, <1>2

(* Induction on sequences that grow by Append, for a set instead of an      *)
(* operator.                                                                *)
LEMMA AppendInduction ==
    ASSUME NEW S, NEW T, <<>> \in T,
           \A s \in Seq(S) : s \in T => \A x \in S : Append(s, x) \in T
    PROVE  Seq(S) \subseteq T
<1> DEFINE Holds == {n \in Nat : \A s \in Seq(S) : Len(s) = n => s \in T}
<1>1. 0 \in Holds
  <2>1. \A s \in Seq(S) : Len(s) = 0 => s = <<>>
    BY EmptySeq
  <2> QED
    BY <2>1
<1>2. ASSUME NEW n \in Holds PROVE n + 1 \in Holds
  <2> SUFFICES ASSUME NEW s \in Seq(S), Len(s) = n + 1 PROVE s \in T
    OBVIOUS
  <2>1. n \in Nat /\ \A r \in Seq(S) : Len(r) = n => r \in T
    OBVIOUS
  <2>2. s # <<>>
    BY <2>1
  <2>3. PICK r \in Seq(S), x \in S : s = Append(r, x)
    BY <2>2, SequenceEmptyOrAppend
  <2>4. Len(s) = Len(r) + 1 /\ Len(r) \in Nat
    BY <2>3, AppendProperties, LenProperties
  <2>5. Len(r) = n
    BY <2>1, <2>4
  <2> QED
    BY <2>1, <2>3, <2>5
<1>3. Holds = Nat
  <2> HIDE DEF Holds
  <2>1. Holds \in SUBSET Nat
    BY DEF Holds
  <2> QED
    BY <1>1, <1>2, <2>1, SetInduction
<1>4. \A s \in Seq(S) : Len(s) \in Nat
  BY LenProperties
<1> QED
  BY <1>3, <1>4

(* Removing the head of a sequence without repetition removes that element. *)
LEMMA TailInjective ==
    ASSUME NEW S, NEW q \in Seq(S), q # <<>>, IsInjective(q)
    PROVE  /\ Tail(q) \in Seq(S)
           /\ Len(Tail(q)) = Len(q) - 1
           /\ IsInjective(Tail(q))
           /\ Head(q) \in S
           /\ Head(q) \in ToSet(q)
           /\ ToSet(Tail(q)) = ToSet(q) \ {Head(q)}
<1> DEFINE n == Len(q)
<1>1. n \in Nat \ {0} /\ DOMAIN q = 1 .. n /\ Head(q) = q[1]
  BY EmptySeq, HeadTailProperties, LenProperties
<1>2. /\ Tail(q) \in Seq(S) /\ Len(Tail(q)) = n - 1
      /\ \A i \in 1 .. n - 1 : Tail(q)[i] = q[i + 1]
  BY HeadTailProperties
<1>3. DOMAIN Tail(q) = 1 .. n - 1
  BY <1>2, LenProperties
<1>4. IsInjective(Tail(q))
  BY <1>1, <1>2, <1>3 DEF IsInjective
<1>5. Head(q) \in S /\ Head(q) \in ToSet(q)
  BY <1>1, ElementOfSeq DEF ToSet
<1>6. ToSet(Tail(q)) = ToSet(q) \ {Head(q)}
  <2>1. \A x \in ToSet(Tail(q)) : x \in ToSet(q) \ {Head(q)}
    BY <1>1, <1>2, <1>3 DEF ToSet, IsInjective
  <2>2. ASSUME NEW x \in ToSet(q) \ {Head(q)} PROVE x \in ToSet(Tail(q))
    <3>1. PICK i \in 1 .. n : q[i] = x
      BY <1>1 DEF ToSet
    <3>2. i # 1 /\ i - 1 \in 1 .. n - 1 /\ (i - 1) + 1 = i
      BY <1>1, <3>1
    <3> QED
      BY <1>2, <1>3, <3>1, <3>2 DEF ToSet
  <2> QED
    BY <2>1, <2>2
<1> QED
  BY <1>2, <1>4, <1>5, <1>6

(* Appending a new element keeps a sequence without repetition. *)
LEMMA AppendNewInjective ==
    ASSUME NEW S, NEW q \in Seq(S), NEW e \in S, IsInjective(q), e \notin ToSet(q)
    PROVE  /\ Append(q, e) \in Seq(S)
           /\ Len(Append(q, e)) = Len(q) + 1
           /\ IsInjective(Append(q, e))
           /\ ToSet(Append(q, e)) = ToSet(q) \cup {e}
<1> DEFINE n == Len(q)
           a == Append(q, e)
<1>1. n \in Nat /\ DOMAIN q = 1 .. n
  BY LenProperties
<1>2. /\ a \in Seq(S) /\ Len(a) = n + 1
      /\ \A i \in 1 .. n : a[i] = q[i]
      /\ a[n + 1] = e
  BY AppendProperties
<1>3. DOMAIN a = 1 .. n + 1
  BY <1>2, LenProperties
<1> HIDE DEF a
<1>4. IsInjective(a)
  BY <1>1, <1>2, <1>3 DEF IsInjective, ToSet
<1>5. ToSet(a) = ToSet(q) \cup {e}
  BY <1>1, <1>2, <1>3 DEF ToSet
<1> QED
  BY <1>2, <1>4, <1>5 DEF a

(* Removing a position of a sequence without repetition removes its element. *)
LEMMA RemoveAtInjective ==
    ASSUME NEW S, NEW q \in Seq(S), NEW k \in 1 .. Len(q), IsInjective(q)
    PROVE  /\ RemoveAt(q, k) \in Seq(S)
           /\ Len(RemoveAt(q, k)) = Len(q) - 1
           /\ \A i \in 1 .. Len(q) - 1 : RemoveAt(q, k)[i] = IF i < k THEN q[i] ELSE q[i + 1]
           /\ IsInjective(RemoveAt(q, k))
           /\ ToSet(RemoveAt(q, k)) = ToSet(q) \ {q[k]}
<1> DEFINE n == Len(q)
           r == RemoveAt(q, k)
           front == SubSeq(q, 1, k - 1)
           back == SubSeq(q, k + 1, n)
<1>1. n \in Nat /\ DOMAIN q = 1 .. n /\ k \in 1 .. n
  BY LenProperties
<1>2. /\ front \in Seq(S) /\ Len(front) = k - 1
      /\ \A i \in 1 .. k - 1 : front[i] = q[i]
  BY <1>1, SubSeqProperties
<1>3. /\ back \in Seq(S) /\ Len(back) = n - k
      /\ \A i \in 1 .. n - k : back[i] = q[k + i]
  <2>1. k + 1 \in Int /\ n \in Int /\ \A i \in (k + 1) .. n : i \in 1 .. Len(q)
    BY <1>1
  <2>2. /\ back \in Seq(S)
        /\ Len(back) = IF k + 1 <= n THEN n - (k + 1) + 1 ELSE 0
        /\ \A i \in 1 .. n - (k + 1) + 1 : back[i] = q[(k + 1) + i - 1]
    BY <2>1, SubSeqProperties
  <2> HIDE DEF back, n
  <2>3. Len(back) = n - k
    BY <1>1, <2>2
  <2>4. ASSUME NEW i \in 1 .. n - k PROVE back[i] = q[k + i]
    <3>1. i \in 1 .. n - (k + 1) + 1 /\ (k + 1) + i - 1 = k + i
      BY <1>1
    <3> QED
      BY <2>2, <3>1
  <2> QED
    BY <2>2, <2>3, <2>4
<1>4. r = front \o back
  BY DEF RemoveAt
<1>5. r \in Seq(S) /\ Len(r) = n - 1
  <2> HIDE DEF front, back, r
  <2>1. front \o back \in Seq(S) /\ Len(front \o back) = (k - 1) + (n - k)
    <3>1. front \in Seq(S) /\ back \in Seq(S)
      BY <1>2, <1>3
    <3>2. front \o back \in Seq(S) /\ Len(front \o back) = Len(front) + Len(back)
      BY <3>1, ConcatProperties
    <3> QED
      BY <1>2, <1>3, <3>2
  <2> QED
    BY <1>1, <1>4, <2>1
<1>6. \A i \in 1 .. n - 1 : r[i] = IF i < k THEN q[i] ELSE q[i + 1]
  <2> SUFFICES ASSUME NEW i \in 1 .. n - 1
               PROVE  r[i] = IF i < k THEN q[i] ELSE q[i + 1]
    OBVIOUS
  <2> HIDE DEF front, back, r
  <2>1. CASE i < k
    BY <1>1, <1>2, <1>3, <1>4, <2>1, ConcatProperties
  <2>2. CASE ~(i < k)
    <3>1. r[i] = back[i - (k - 1)]
      BY <1>1, <1>2, <1>3, <1>4, <2>2, ConcatProperties
    <3>2. i - (k - 1) \in 1 .. n - k /\ k + (i - (k - 1)) = i + 1
      BY <1>1, <2>2
    <3> QED
      BY <1>3, <2>2, <3>1, <3>2
  <2> QED
    BY <2>1, <2>2
<1>7. DOMAIN r = 1 .. n - 1
  BY <1>5, LenProperties
<1> HIDE DEF r
<1>8. IsInjective(r)
  <2> DEFINE from(i) == IF i < k THEN i ELSE i + 1
  <2>1. \A i \in 1 .. n - 1 : from(i) \in 1 .. n /\ r[i] = q[from(i)]
    BY <1>1, <1>6
  <2>2. \A i, j \in 1 .. n - 1 : from(i) = from(j) => i = j
    BY <1>1
  <2>3. \A i, j \in 1 .. n : q[i] = q[j] => i = j
    BY <1>1 DEF IsInjective
  <2> HIDE DEF from
  <2>4. \A i, j \in 1 .. n - 1 : r[i] = r[j] => i = j
    BY <2>1, <2>2, <2>3
  <2> QED
    BY <1>7, <2>4 DEF IsInjective
<1>9. ToSet(r) = ToSet(q) \ {q[k]}
  <2>1. \A x \in ToSet(r) : x \in ToSet(q) \ {q[k]}
    BY <1>1, <1>6, <1>7 DEF ToSet, IsInjective
  <2>2. ASSUME NEW x \in ToSet(q) \ {q[k]} PROVE x \in ToSet(r)
    <3>1. PICK i \in 1 .. n : q[i] = x /\ i # k
      BY <1>1 DEF ToSet
    <3>2. CASE i < k
      BY <1>1, <1>6, <1>7, <3>1, <3>2 DEF ToSet
    <3>3. CASE i > k
      <4>1. i - 1 \in 1 .. n - 1 /\ ~(i - 1 < k) /\ (i - 1) + 1 = i
        BY <1>1, <3>1, <3>3
      <4> QED
        BY <1>6, <1>7, <3>1, <4>1 DEF ToSet
    <3> QED
      BY <1>1, <3>1, <3>2, <3>3
  <2> QED
    BY <2>1, <2>2
<1> QED
  BY <1>5, <1>6, <1>8, <1>9 DEF r

(* The elements of two sequences in a row. *)
LEMMA ConcatSet ==
    ASSUME NEW S, NEW a \in Seq(S), NEW b \in Seq(S)
    PROVE  ToSet(a \o b) = ToSet(a) \cup ToSet(b)
<1>1. /\ a \o b \in Seq(S) /\ Len(a \o b) = Len(a) + Len(b)
      /\ Len(a) \in Nat /\ Len(b) \in Nat
  BY ConcatProperties, LenProperties
<1>2. /\ DOMAIN (a \o b) = 1 .. Len(a) + Len(b)
      /\ DOMAIN a = 1 .. Len(a) /\ DOMAIN b = 1 .. Len(b)
  BY <1>1, LenProperties
<1>3. \A i \in 1 .. Len(a) : (a \o b)[i] = a[i]
  BY <1>1, ConcatProperties
<1>4. \A i \in 1 .. Len(b) : (a \o b)[Len(a) + i] = b[i]
  <2> SUFFICES ASSUME NEW i \in 1 .. Len(b) PROVE (a \o b)[Len(a) + i] = b[i]
    OBVIOUS
  <2>1. /\ Len(a) + i \in 1 .. Len(a) + Len(b) /\ ~(Len(a) + i <= Len(a))
        /\ (Len(a) + i) - Len(a) = i
    BY <1>1
  <2> QED
    BY <2>1, ConcatProperties
<1> DEFINE c == a \o b
<1> HIDE DEF c
<1>5. ASSUME NEW x \in ToSet(c) PROVE x \in ToSet(a) \cup ToSet(b)
  <2>1. PICK i \in 1 .. Len(a) + Len(b) : c[i] = x
    BY <1>2 DEF ToSet, c
  <2>2. CASE i <= Len(a)
    BY <1>1, <1>2, <1>3, <2>1, <2>2 DEF ToSet, c
  <2>3. CASE ~(i <= Len(a))
    <3>1. i - Len(a) \in 1 .. Len(b) /\ Len(a) + (i - Len(a)) = i
      BY <1>1, <2>3
    <3> QED
      BY <1>2, <1>4, <2>1, <3>1 DEF ToSet, c
  <2> QED
    BY <2>2, <2>3
<1>6. ASSUME NEW x \in ToSet(a) PROVE x \in ToSet(c)
  <2>1. PICK i \in 1 .. Len(a) : a[i] = x
    BY <1>2 DEF ToSet
  <2>2. i \in 1 .. Len(a) + Len(b)
    BY <1>1
  <2> QED
    BY <1>2, <1>3, <2>1, <2>2 DEF ToSet, c
<1>7. ASSUME NEW x \in ToSet(b) PROVE x \in ToSet(c)
  <2>1. PICK i \in 1 .. Len(b) : b[i] = x
    BY <1>2 DEF ToSet
  <2>2. Len(a) + i \in 1 .. Len(a) + Len(b)
    BY <1>1
  <2> QED
    BY <1>2, <1>4, <2>1, <2>2 DEF ToSet, c
<1> QED
  BY <1>5, <1>6, <1>7 DEF c

(* Appending to the second of two sequences appends to both in a row. *)
LEMMA AppendToSecond ==
    ASSUME NEW S, NEW a \in Seq(S), NEW b \in Seq(S), NEW e \in S
    PROVE  a \o Append(b, e) = Append(a \o b, e)
<1>1. a \o b \in Seq(S) /\ <<e>> \in Seq(S)
  BY ConcatProperties
<1>2. Append(b, e) = b \o <<e>> /\ Append(a \o b, e) = (a \o b) \o <<e>>
  BY <1>1, AppendIsConcat
<1> QED
  BY <1>1, <1>2, ConcatAssociative

(* The first element of the second sequence may move to the end of the first. *)
LEMMA HeadMoves ==
    ASSUME NEW S, NEW a \in Seq(S), NEW b \in Seq(S), b # <<>>
    PROVE  Append(a, Head(b)) \o Tail(b) = a \o b
<1>1. /\ Head(b) \in S /\ Tail(b) \in Seq(S) /\ Len(Tail(b)) = Len(b) - 1
      /\ \A i \in 1 .. Len(Tail(b)) : Tail(b)[i] = b[i + 1]
      /\ Len(b) \in Nat \ {0}
  BY HeadTailProperties, LenProperties, EmptySeq
<1>2. <<Head(b)>> \in Seq(S) /\ Len(<<Head(b)>>) = 1 /\ <<Head(b)>>[1] = b[1]
  BY <1>1
<1> DEFINE h == <<Head(b)>>
           r == Tail(b)
<1>3. h \in Seq(S) /\ r \in Seq(S) /\ Len(h) = 1 /\ Len(r) = Len(b) - 1
      /\ h[1] = b[1] /\ \A i \in 1 .. Len(r) : r[i] = b[i + 1]
  BY <1>1, <1>2
<1>4. Append(a, Head(b)) = a \o h
  BY <1>1, AppendIsConcat
<1> HIDE DEF h, r
<1>s. h \in Seq(S) /\ r \in Seq(S)
  BY <1>3
<1>5. h \o r = b
  <2>1. /\ h \o r \in Seq(S) /\ Len(h \o r) = Len(h) + Len(r)
        /\ \A i \in 1 .. Len(h) + Len(r) : (h \o r)[i] = IF i <= Len(h) THEN h[i] ELSE r[i - Len(h)]
    BY <1>s, ConcatProperties
  <2>2. Len(h \o r) = Len(b)
    BY <1>1, <1>3, <2>1
  <2>3. ASSUME NEW i \in 1 .. Len(b) PROVE (h \o r)[i] = b[i]
    <3>1. CASE i = 1
      BY <1>1, <1>3, <2>1, <3>1
    <3>2. CASE i # 1
      <4>1. i - 1 \in 1 .. Len(r) /\ (i - 1) + 1 = i /\ ~(i <= 1) /\ i \in 1 .. Len(h) + Len(r)
        BY <1>1, <1>3, <3>2
      <4> QED
        BY <1>3, <2>1, <4>1
    <3> QED
      BY <3>1, <3>2
  <2> QED
    BY <2>1, <2>2, <2>3, SeqEqual
<1>6. (a \o h) \o r = a \o (h \o r)
  BY <1>s, ConcatAssociative
<1> QED
  BY <1>4, <1>5, <1>6 DEF r

(* The head and the tail of two sequences in a row, the first not empty. *)
LEMMA TailOfFirst ==
    ASSUME NEW S, NEW a \in Seq(S), NEW b \in Seq(S), a # <<>>
    PROVE  /\ a \o b # <<>>
           /\ Head(a \o b) = Head(a)
           /\ Tail(a \o b) = Tail(a) \o b
<1> DEFINE c == a \o b
           r == Tail(a)
<1>1. /\ c \in Seq(S) /\ Len(c) = Len(a) + Len(b) /\ Len(a) \in Nat \ {0} /\ Len(b) \in Nat
      /\ \A i \in 1 .. Len(c) : c[i] = IF i <= Len(a) THEN a[i] ELSE b[i - Len(a)]
  BY ConcatProperties, LenProperties, EmptySeq
<1>2. /\ r \in Seq(S) /\ Len(r) = Len(a) - 1 /\ \A i \in 1 .. Len(r) : r[i] = a[i + 1]
  BY HeadTailProperties
<1>3. Head(a) = a[1]
  OBVIOUS
<1> HIDE DEF c, r
<1>4. c # <<>>
  BY <1>1, EmptySeq
<1>5. Head(c) = a[1]
  BY <1>1, <1>4
<1>6. /\ Tail(c) \in Seq(S) /\ Len(Tail(c)) = Len(c) - 1
      /\ \A i \in 1 .. Len(Tail(c)) : Tail(c)[i] = c[i + 1]
  BY <1>1, <1>4, HeadTailProperties
<1>7. /\ r \o b \in Seq(S) /\ Len(r \o b) = Len(r) + Len(b)
      /\ \A i \in 1 .. Len(r) + Len(b) : (r \o b)[i] = IF i <= Len(r) THEN r[i] ELSE b[i - Len(r)]
  BY <1>1, <1>2, ConcatProperties
<1>8. Tail(c) = r \o b
  <2> DEFINE t == Tail(c)
             d == r \o b
  <2>1. Len(t) = Len(d)
    BY <1>1, <1>2, <1>6, <1>7
  <2>2. ASSUME NEW i \in 1 .. Len(t) PROVE t[i] = d[i]
    <3>1. /\ i + 1 \in 1 .. Len(c) /\ i \in 1 .. Len(r) + Len(b)
          /\ (i + 1) - Len(a) = i - Len(r)
          /\ (i + 1 <= Len(a)) <=> (i <= Len(r))
      BY <1>1, <1>2, <1>6
    <3>2. t[i] = c[i + 1]
      BY <1>6
    <3>3. CASE i <= Len(r)
      BY <1>1, <1>2, <1>7, <3>1, <3>2, <3>3
    <3>4. CASE ~(i <= Len(r))
      BY <1>1, <1>7, <3>1, <3>2, <3>4
    <3> QED
      BY <3>3, <3>4
  <2>3. t \in Seq(S) /\ d \in Seq(S)
    BY <1>6, <1>7
  <2> HIDE DEF t, d
  <2>4. t = d
    BY <2>1, <2>2, <2>3, SeqEqual
  <2> QED
    BY <2>4 DEF t, d
<1> QED
  BY <1>3, <1>4, <1>5, <1>8 DEF c, r

(* Two sequences in a row can be cut apart again. *)
LEMMA CutApart ==
    ASSUME NEW S, NEW a \in Seq(S), NEW b \in Seq(S)
    PROVE  /\ SubSeq(a \o b, 1, Len(a)) = a
           /\ SubSeq(a \o b, Len(a) + 1, Len(a \o b)) = b
<1> DEFINE c == a \o b
           n == Len(a)
           m == Len(b)
<1>1. /\ c \in Seq(S) /\ Len(c) = n + m /\ n \in Nat /\ m \in Nat
      /\ \A i \in 1 .. n + m : c[i] = IF i <= n THEN a[i] ELSE b[i - n]
  BY ConcatProperties, LenProperties
<1> HIDE DEF c
<1> DEFINE front == SubSeq(c, 1, n)
           back == SubSeq(c, n + 1, Len(c))
<1>2. front = a
  <2>1. 1 \in Int /\ n \in Int /\ \A i \in 1 .. n : i \in 1 .. Len(c)
    BY <1>1
  <2>2. /\ front \in Seq(S) /\ Len(front) = IF 1 <= n THEN n - 1 + 1 ELSE 0
        /\ \A i \in 1 .. n - 1 + 1 : front[i] = c[1 + i - 1]
    BY <1>1, <2>1, SubSeqProperties
  <2> HIDE DEF front
  <2>3. Len(front) = n
    BY <1>1, <2>2
  <2>4. ASSUME NEW i \in 1 .. n PROVE front[i] = a[i]
    <3>1. i \in 1 .. n - 1 + 1 /\ 1 + i - 1 = i /\ i \in 1 .. n + m /\ i <= n
      BY <1>1
    <3> QED
      BY <1>1, <2>2, <3>1
  <2> QED
    BY <2>2, <2>3, <2>4, SeqEqual
<1>3. back = b
  <2>1. n + 1 \in Int /\ Len(c) \in Int /\ \A i \in (n + 1) .. Len(c) : i \in 1 .. Len(c)
    BY <1>1
  <2>2. /\ back \in Seq(S)
        /\ Len(back) = IF n + 1 <= Len(c) THEN Len(c) - (n + 1) + 1 ELSE 0
        /\ \A i \in 1 .. Len(c) - (n + 1) + 1 : back[i] = c[(n + 1) + i - 1]
    BY <1>1, <2>1, SubSeqProperties
  <2> HIDE DEF back
  <2>3. Len(back) = m
    BY <1>1, <2>2
  <2>4. ASSUME NEW i \in 1 .. m PROVE back[i] = b[i]
    <3>1. /\ i \in 1 .. Len(c) - (n + 1) + 1 /\ (n + 1) + i - 1 = n + i
          /\ n + i \in 1 .. n + m /\ ~(n + i <= n) /\ (n + i) - n = i
      BY <1>1
    <3> QED
      BY <1>1, <2>2, <3>1
  <2> QED
    BY <2>2, <2>3, <2>4, SeqEqual
<1> QED
  BY <1>2, <1>3 DEF c

(* Removing a position of the second of two sequences in a row. *)
LEMMA RemoveFromSecond ==
    ASSUME NEW S, NEW a \in Seq(S), NEW b \in Seq(S), NEW i \in 1 .. Len(b)
    PROVE  /\ Len(a) + i \in 1 .. Len(a \o b)
           /\ (a \o b)[Len(a) + i] = b[i]
           /\ RemoveAt(a \o b, Len(a) + i) = a \o RemoveAt(b, i)
<1> DEFINE c == a \o b
           n == Len(a)
           m == Len(b)
<1>1. /\ c \in Seq(S) /\ Len(c) = n + m /\ n \in Nat /\ m \in Nat /\ i \in 1 .. m
      /\ \A k \in 1 .. n + m : c[k] = IF k <= n THEN a[k] ELSE b[k - n]
  BY ConcatProperties, LenProperties
<1> HIDE DEF c
<1>2. n + i \in 1 .. n + m /\ ~(n + i <= n) /\ (n + i) - n = i
  BY <1>1
<1>3. c[n + i] = b[i]
  BY <1>1, <1>2
<1>4. RemoveAt(c, n + i) = SubSeq(c, 1, (n + i) - 1) \o SubSeq(c, n + i + 1, n + m)
  <2>1. RemoveAt(c, n + i) = SubSeq(c, 1, (n + i) - 1) \o SubSeq(c, n + i + 1, Len(c))
    BY DEF RemoveAt
  <2> QED
    BY <1>1, <2>1
<1> DEFINE f == SubSeq(b, 1, i - 1)
           g == SubSeq(b, i + 1, m)
           F == SubSeq(c, 1, (n + i) - 1)
           G == SubSeq(c, n + i + 1, n + m)
<1>5. /\ f \in Seq(S) /\ Len(f) = i - 1 /\ \A k \in 1 .. i - 1 : f[k] = b[k]
  BY <1>1, SubSeqProperties
<1>6. /\ g \in Seq(S) /\ Len(g) = m - i /\ \A k \in 1 .. m - i : g[k] = b[i + k]
  <2>1. i + 1 \in Int /\ m \in Int /\ \A k \in (i + 1) .. m : k \in 1 .. Len(b)
    BY <1>1
  <2>2. /\ g \in Seq(S) /\ Len(g) = IF i + 1 <= m THEN m - (i + 1) + 1 ELSE 0
        /\ \A k \in 1 .. m - (i + 1) + 1 : g[k] = b[(i + 1) + k - 1]
    BY <2>1, SubSeqProperties
  <2> HIDE DEF g, m
  <2>3. Len(g) = m - i
    BY <1>1, <2>2
  <2>4. ASSUME NEW k \in 1 .. m - i PROVE g[k] = b[i + k]
    <3>1. k \in 1 .. m - (i + 1) + 1 /\ (i + 1) + k - 1 = i + k
      BY <1>1
    <3> QED
      BY <2>2, <3>1
  <2> QED
    BY <2>2, <2>3, <2>4
<1>7. /\ F \in Seq(S) /\ Len(F) = (n + i) - 1 /\ \A k \in 1 .. (n + i) - 1 : F[k] = c[k]
  <2>1. 1 \in Int /\ (n + i) - 1 \in Int /\ \A k \in 1 .. (n + i) - 1 : k \in 1 .. Len(c)
    BY <1>1
  <2>2. /\ F \in Seq(S) /\ Len(F) = IF 1 <= (n + i) - 1 THEN ((n + i) - 1) - 1 + 1 ELSE 0
        /\ \A k \in 1 .. ((n + i) - 1) - 1 + 1 : F[k] = c[1 + k - 1]
    BY <1>1, <2>1, SubSeqProperties
  <2> HIDE DEF F, n
  <2>3. Len(F) = (n + i) - 1
    BY <1>1, <2>2
  <2>4. ASSUME NEW k \in 1 .. (n + i) - 1 PROVE F[k] = c[k]
    <3>1. k \in 1 .. ((n + i) - 1) - 1 + 1 /\ 1 + k - 1 = k
      BY <1>1
    <3> QED
      BY <2>2, <3>1
  <2> QED
    BY <2>2, <2>3, <2>4
<1>8. /\ G \in Seq(S) /\ Len(G) = m - i /\ \A k \in 1 .. m - i : G[k] = c[n + i + k]
  <2>1. n + i + 1 \in Int /\ n + m \in Int /\ \A k \in (n + i + 1) .. (n + m) : k \in 1 .. Len(c)
    BY <1>1
  <2>2. /\ G \in Seq(S) /\ Len(G) = IF n + i + 1 <= n + m THEN (n + m) - (n + i + 1) + 1 ELSE 0
        /\ \A k \in 1 .. (n + m) - (n + i + 1) + 1 : G[k] = c[(n + i + 1) + k - 1]
    BY <1>1, <2>1, SubSeqProperties
  <2> HIDE DEF G, n, m
  <2>3. Len(G) = m - i
    BY <1>1, <2>2
  <2>4. ASSUME NEW k \in 1 .. m - i PROVE G[k] = c[n + i + k]
    <3>1. k \in 1 .. (n + m) - (n + i + 1) + 1 /\ (n + i + 1) + k - 1 = n + i + k
      BY <1>1
    <3> QED
      BY <2>2, <3>1
  <2> QED
    BY <2>2, <2>3, <2>4
<1>s. f \in Seq(S) /\ g \in Seq(S)
  BY <1>5, <1>6
<1>9. RemoveAt(b, i) = f \o g
  BY DEF RemoveAt
<1> HIDE DEF f, g, F, G
<1>13. a \o (f \o g) = (a \o f) \o g
  BY <1>s, ConcatAssociative
<1>10. a \o f = F
  <2>1. /\ a \o f \in Seq(S) /\ Len(a \o f) = n + (i - 1)
        /\ \A k \in 1 .. n + (i - 1) : (a \o f)[k] = IF k <= n THEN a[k] ELSE f[k - n]
    <3>1. /\ a \o f \in Seq(S) /\ Len(a \o f) = Len(a) + Len(f)
          /\ \A k \in 1 .. Len(a) + Len(f) : (a \o f)[k] = IF k <= Len(a) THEN a[k] ELSE f[k - Len(a)]
      BY <1>s, ConcatProperties
    <3> QED
      BY <1>5, <3>1
  <2>2. Len(F) = n + (i - 1)
    BY <1>1, <1>7
  <2>3. ASSUME NEW k \in 1 .. n + (i - 1) PROVE (a \o f)[k] = F[k]
    <3>1. k \in 1 .. (n + i) - 1 /\ k \in 1 .. n + m
      BY <1>1
    <3>2. CASE k <= n
      BY <1>1, <1>7, <2>1, <3>1, <3>2
    <3>3. CASE ~(k <= n)
      <4>1. k - n \in 1 .. i - 1
        BY <1>1, <3>3
      <4> QED
        BY <1>1, <1>5, <1>7, <2>1, <3>1, <3>3, <4>1
    <3> QED
      BY <3>2, <3>3
  <2> QED
    BY <1>7, <2>1, <2>2, <2>3, SeqEqual
<1>11. g = G
  <2>1. ASSUME NEW k \in 1 .. m - i PROVE g[k] = G[k]
    <3>1. /\ n + i + k \in 1 .. n + m /\ ~(n + i + k <= n) /\ (n + i + k) - n = i + k
      BY <1>1
    <3> QED
      BY <1>1, <1>6, <1>8, <3>1
  <2> QED
    BY <1>6, <1>8, <2>1, SeqEqual
<1>12. RemoveAt(c, n + i) = F \o G
  BY <1>4 DEF F, G
<1> QED
  BY <1>1, <1>2, <1>3, <1>9, <1>10, <1>11, <1>12, <1>13 DEF c
=============================================================================
