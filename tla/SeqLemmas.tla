------------------------------ MODULE SeqLemmas ------------------------------
(***************************************************************************)
(* Facts about removing, appending and concatenating that the proofs of    *)
(* the queues in this project rest on.                                     *)
(***************************************************************************)
EXTENDS Integers, Sequences, SequencesExt, SequenceTheorems, TLAPS

\* RemoveAt takes one element out and keeps the order of the others.
LEMMA RemoveAtProperties ==
    ASSUME NEW S, NEW s \in Seq(S), NEW i \in 1..Len(s)
    PROVE  /\ RemoveAt(s, i) \in Seq(S)
           /\ Len(RemoveAt(s, i)) = Len(s) - 1
           /\ \A j \in 1..(Len(s) - 1) :
                RemoveAt(s, i)[j] = IF j < i THEN s[j] ELSE s[j+1]
<1> DEFINE a == SubSeq(s, 1, i-1)
           b == SubSeq(s, i+1, Len(s))
<1>0. Len(s) \in Nat /\ \A j \in 1..Len(s) : s[j] \in S
  BY LenProperties, ElementOfSeq
<1>1. /\ a \in Seq(S) /\ Len(a) = i - 1
      /\ \A j \in 1..(i-1) : a[j] = s[j]
  <2>1. \A j \in 1..(i-1) : s[j] \in S
    BY <1>0
  <2> QED BY <2>1, <1>0, SubSeqProperties, Z3
<1>2. /\ b \in Seq(S) /\ Len(b) = Len(s) - i
      /\ \A j \in 1..(Len(s)-i) : b[j] = s[i+j]
  <2>1. \A j \in (i+1)..Len(s) : s[j] \in S
    BY <1>0
  <2> QED BY <2>1, <1>0, SubSeqProperties, Z3
<1>3. /\ a \o b \in Seq(S)
      /\ Len(a \o b) = Len(a) + Len(b)
      /\ \A j \in 1..(Len(a) + Len(b)) :
            (a \o b)[j] = IF j <= Len(a) THEN a[j] ELSE b[j - Len(a)]
  BY <1>1, <1>2, ConcatProperties
<1>4. RemoveAt(s, i) = a \o b
  BY DEF RemoveAt
<1> HIDE DEF a, b
<1>5. ASSUME NEW j \in 1..(Len(s) - 1)
      PROVE  RemoveAt(s, i)[j] = IF j < i THEN s[j] ELSE s[j+1]
  <2>1. CASE j < i
    <3>1. j \in 1..(i-1) /\ j \in 1..(Len(a) + Len(b)) /\ j <= Len(a)
      BY <2>1, <1>0, <1>1, <1>2
    <3> QED BY <3>1, <2>1, <1>1, <1>3, <1>4
  <2>2. CASE ~(j < i)
    <3>1. j \in 1..(Len(a) + Len(b)) /\ ~(j <= Len(a))
      BY <2>2, <1>0, <1>1, <1>2
    <3>2. j - Len(a) \in 1..(Len(s) - i) /\ i + (j - Len(a)) = j + 1
      BY <2>2, <1>0, <1>1, <1>2
    <3> QED BY <3>1, <3>2, <2>2, <1>2, <1>3, <1>4
  <2> QED BY <2>1, <2>2
<1>6. Len(a) + Len(b) = Len(s) - 1
  BY <1>0, <1>1, <1>2
<1> QED BY <1>3, <1>4, <1>5, <1>6

\* The elements of a sequence, and of what is made of it.
LEMMA ToSetProperties ==
    ASSUME NEW S, NEW s \in Seq(S)
    PROVE  /\ ToSet(s) \subseteq S
           /\ \A e : e \in ToSet(s) <=> \E i \in 1..Len(s) : s[i] = e
           /\ ToSet(s) = {} <=> s = <<>>
<1>1. DOMAIN s = 1..Len(s) /\ Len(s) \in Nat
  BY LenProperties
<1>2. ToSet(s) = {s[i] : i \in 1..Len(s)}
  BY <1>1 DEF ToSet
<1>3. \A i \in 1..Len(s) : s[i] \in S
  BY ElementOfSeq
<1>4. s # <<>> => 1 \in 1..Len(s)
  BY <1>1, EmptySeq
<1>5. s = <<>> => 1..Len(s) = {}
  BY EmptySeq
<1> QED BY <1>2, <1>3, <1>4, <1>5

\* What is appended is an element.
LEMMA ToSetAppend ==
    ASSUME NEW S, NEW s \in Seq(S), NEW e \in S
    PROVE  ToSet(Append(s, e)) = ToSet(s) \cup {e}
<1>0. Len(s) \in Nat
  BY LenProperties
<1>1. /\ Append(s, e) \in Seq(S)
      /\ Len(Append(s, e)) = Len(s) + 1
      /\ \A i \in 1..Len(s) : Append(s, e)[i] = s[i]
      /\ Append(s, e)[Len(s) + 1] = e
  BY AppendProperties
<1>2. 1..(Len(s) + 1) = 1..Len(s) \cup {Len(s) + 1}
  BY <1>0
<1>3. \A x : x \in ToSet(Append(s, e)) <=>
                \E i \in 1..(Len(s) + 1) : Append(s, e)[i] = x
  BY <1>1, ToSetProperties
<1>4. \A x : x \in ToSet(s) <=> \E i \in 1..Len(s) : s[i] = x
  BY ToSetProperties
<1> QED BY <1>1, <1>2, <1>3, <1>4

\* A concatenation has the elements of both parts.
LEMMA ToSetConcat ==
    ASSUME NEW S, NEW s \in Seq(S), NEW t \in Seq(S)
    PROVE  ToSet(s \o t) = ToSet(s) \cup ToSet(t)
<1>0. Len(s) \in Nat /\ Len(t) \in Nat
  BY LenProperties
<1>1. /\ s \o t \in Seq(S)
      /\ Len(s \o t) = Len(s) + Len(t)
      /\ \A i \in 1..(Len(s) + Len(t)) :
            (s \o t)[i] = IF i <= Len(s) THEN s[i] ELSE t[i - Len(s)]
  BY ConcatProperties
<1>2. \A x : x \in ToSet(s \o t) <=>
                \E i \in 1..(Len(s) + Len(t)) : (s \o t)[i] = x
  BY <1>1, ToSetProperties
<1>3. /\ \A x : x \in ToSet(s) <=> \E i \in 1..Len(s) : s[i] = x
      /\ \A x : x \in ToSet(t) <=> \E i \in 1..Len(t) : t[i] = x
  BY ToSetProperties
<1>4. ASSUME NEW x \in ToSet(s \o t)
      PROVE  x \in ToSet(s) \cup ToSet(t)
  <2>1. PICK i \in 1..(Len(s) + Len(t)) : (s \o t)[i] = x
    BY <1>2, <1>4
  <2>2. CASE i <= Len(s)
    BY <2>1, <2>2, <1>0, <1>1, <1>3
  <2>3. CASE ~(i <= Len(s))
    <3>1. i - Len(s) \in 1..Len(t) /\ t[i - Len(s)] = x
      BY <2>1, <2>3, <1>0, <1>1
    <3> QED BY <3>1, <1>3
  <2> QED BY <2>2, <2>3
<1>5. ASSUME NEW x \in ToSet(s)
      PROVE  x \in ToSet(s \o t)
  <2>1. PICK i \in 1..Len(s) : s[i] = x
    BY <1>3, <1>5
  <2>2. i \in 1..(Len(s) + Len(t)) /\ (s \o t)[i] = x
    BY <2>1, <1>0, <1>1
  <2> QED BY <2>2, <1>2
<1>6. ASSUME NEW x \in ToSet(t)
      PROVE  x \in ToSet(s \o t)
  <2>1. PICK i \in 1..Len(t) : t[i] = x
    BY <1>3, <1>6
  <2>2. Len(s) + i \in 1..(Len(s) + Len(t)) /\ (s \o t)[Len(s) + i] = x
    <3>1. Len(s) + i \in 1..(Len(s) + Len(t)) /\ ~(Len(s) + i <= Len(s))
             /\ Len(s) + i - Len(s) = i
      BY <1>0
    <3> QED BY <3>1, <2>1, <1>1
  <2> QED BY <2>2, <1>2
<1> QED BY <1>4, <1>5, <1>6

\* No element twice: removing keeps it, and takes out exactly one element.
LEMMA RemoveAtInjective ==
    ASSUME NEW S, NEW s \in Seq(S), NEW i \in 1..Len(s), IsInjective(s)
    PROVE  /\ IsInjective(RemoveAt(s, i))
           /\ ToSet(RemoveAt(s, i)) = ToSet(s) \ {s[i]}
<1> DEFINE r == RemoveAt(s, i)
<1>0. Len(s) \in Nat /\ DOMAIN s = 1..Len(s)
  BY LenProperties
<1>1. /\ r \in Seq(S) /\ Len(r) = Len(s) - 1
      /\ \A j \in 1..(Len(s) - 1) : r[j] = IF j < i THEN s[j] ELSE s[j+1]
  BY RemoveAtProperties
<1>2. DOMAIN r = 1..(Len(s) - 1)
  BY <1>1, LenProperties
<1>3. \A j, k \in 1..Len(s) : s[j] = s[k] => j = k
  BY <1>0 DEF IsInjective
<1> HIDE DEF r
<1>4. \A x : /\ x \in ToSet(s) <=> \E j \in 1..Len(s) : s[j] = x
             /\ x \in ToSet(r) <=> \E j \in 1..(Len(s) - 1) : r[j] = x
  BY <1>1, ToSetProperties
<1>5. ASSUME NEW j \in 1..(Len(s) - 1)
      PROVE  \E k \in 1..Len(s) : r[j] = s[k] /\ k # i /\ k = IF j < i THEN j ELSE j + 1
  BY <1>0, <1>1
<1>6. ASSUME NEW j \in 1..(Len(s) - 1), NEW k \in 1..(Len(s) - 1), r[j] = r[k]
      PROVE  j = k
  <2>1. PICK j1 \in 1..Len(s) : r[j] = s[j1] /\ j1 = IF j < i THEN j ELSE j + 1
    BY <1>5
  <2>2. PICK k1 \in 1..Len(s) : r[k] = s[k1] /\ k1 = IF k < i THEN k ELSE k + 1
    BY <1>5
  <2>3. j1 = k1
    BY <2>1, <2>2, <1>3, <1>6
  <2> QED BY <2>1, <2>2, <2>3
<1>7. IsInjective(r)
  BY <1>2, <1>6 DEF IsInjective
<1>8. ASSUME NEW x \in ToSet(r)
      PROVE  x \in ToSet(s) \ {s[i]}
  BY <1>3, <1>4, <1>5, <1>8
<1>9. ASSUME NEW x \in ToSet(s) \ {s[i]}
      PROVE  x \in ToSet(r)
  <2>1. PICK j \in 1..Len(s) : s[j] = x /\ j # i
    BY <1>4, <1>9
  <2>2. CASE j < i
    BY <2>1, <2>2, <1>0, <1>1, <1>4
  <2>3. CASE ~(j < i)
    <3>1. j - 1 \in 1..(Len(s) - 1) /\ ~(j - 1 < i) /\ (j - 1) + 1 = j
      BY <2>1, <2>3, <1>0
    <3>2. r[j - 1] = x
      BY <3>1, <2>1, <1>1
    <3> QED BY <3>1, <3>2, <1>4
  <2> QED BY <2>2, <2>3
<1> QED BY <1>7, <1>8, <1>9 DEF r

\* Appending a new element makes no doublet.
LEMMA AppendIsInjective ==
    ASSUME NEW S, NEW s \in Seq(S), NEW e \in S, IsInjective(s), e \notin ToSet(s)
    PROVE  IsInjective(Append(s, e))
<1> DEFINE r == Append(s, e)
<1>0. Len(s) \in Nat /\ DOMAIN s = 1..Len(s)
  BY LenProperties
<1>1. /\ r \in Seq(S) /\ Len(r) = Len(s) + 1
      /\ \A j \in 1..Len(s) : r[j] = s[j]
      /\ r[Len(s) + 1] = e
  BY AppendProperties
<1>2. DOMAIN r = 1..(Len(s) + 1)
  BY <1>1, LenProperties
<1>3. \A j, k \in 1..Len(s) : s[j] = s[k] => j = k
  BY <1>0 DEF IsInjective
<1>4. \A j \in 1..Len(s) : s[j] # e
  BY ToSetProperties
<1> HIDE DEF r
<1>5. 1..(Len(s) + 1) = 1..Len(s) \cup {Len(s) + 1}
  BY <1>0
<1>6. \A j, k \in 1..(Len(s) + 1) : r[j] = r[k] => j = k
  BY <1>1, <1>3, <1>4, <1>5
<1>7. IsInjective(r)
  BY <1>2, <1>6 DEF IsInjective
<1> QED BY <1>7 DEF r

\* Removing from the first half of a concatenation.
LEMMA RemoveAtLeft ==
    ASSUME NEW S, NEW p \in Seq(S), NEW q \in Seq(S), NEW i \in 1..Len(p)
    PROVE  RemoveAt(p \o q, i) = RemoveAt(p, i) \o q
<1> DEFINE a == RemoveAt(p \o q, i)
           b == RemoveAt(p, i) \o q
<1>0. Len(p) \in Nat /\ Len(q) \in Nat
  BY LenProperties
<1>1. /\ p \o q \in Seq(S) /\ Len(p \o q) = Len(p) + Len(q)
      /\ \A j \in 1..(Len(p) + Len(q)) :
            (p \o q)[j] = IF j <= Len(p) THEN p[j] ELSE q[j - Len(p)]
  BY ConcatProperties
<1>2. i \in 1..Len(p \o q)
  BY <1>0, <1>1
<1>3. /\ a \in Seq(S) /\ Len(a) = Len(p) + Len(q) - 1
      /\ \A j \in 1..(Len(p) + Len(q) - 1) :
            a[j] = IF j < i THEN (p \o q)[j] ELSE (p \o q)[j+1]
  <2> DEFINE s == p \o q
  <2>1. s \in Seq(S) /\ i \in 1..Len(s)
    BY <1>1, <1>2
  <2> HIDE DEF s
  <2>2. /\ RemoveAt(s, i) \in Seq(S) /\ Len(RemoveAt(s, i)) = Len(s) - 1
        /\ \A j \in 1..(Len(s) - 1) :
              RemoveAt(s, i)[j] = IF j < i THEN s[j] ELSE s[j+1]
    BY <2>1, RemoveAtProperties
  <2>3. Len(s) = Len(p) + Len(q)
    BY <1>1 DEF s
  <2> QED BY <2>2, <2>3 DEF s
<1>4. /\ RemoveAt(p, i) \in Seq(S) /\ Len(RemoveAt(p, i)) = Len(p) - 1
      /\ \A j \in 1..(Len(p) - 1) :
            RemoveAt(p, i)[j] = IF j < i THEN p[j] ELSE p[j+1]
  BY RemoveAtProperties
<1>5. /\ b \in Seq(S) /\ Len(b) = Len(p) - 1 + Len(q)
      /\ \A j \in 1..(Len(p) - 1 + Len(q)) :
            b[j] = IF j <= Len(p) - 1 THEN RemoveAt(p, i)[j] ELSE q[j - (Len(p) - 1)]
  BY <1>4, ConcatProperties
<1> HIDE DEF a, b
<1>6. ASSUME NEW j \in 1..(Len(p) + Len(q) - 1)
      PROVE  a[j] = b[j]
  <2>1. CASE j < i
    <3>1. j \in 1..(Len(p) + Len(q)) /\ j <= Len(p) /\ j <= Len(p) - 1 /\ j \in 1..(Len(p) - 1)
             /\ j \in 1..(Len(p) - 1 + Len(q))
      BY <2>1, <1>0
    <3> QED BY <3>1, <2>1, <1>1, <1>3, <1>4, <1>5
  <2>2. CASE ~(j < i) /\ j + 1 <= Len(p)
    <3>1. j + 1 \in 1..(Len(p) + Len(q)) /\ j <= Len(p) - 1 /\ j \in 1..(Len(p) - 1)
             /\ j \in 1..(Len(p) - 1 + Len(q))
      BY <2>2, <1>0
    <3> QED BY <3>1, <2>2, <1>1, <1>3, <1>4, <1>5
  <2>3. CASE ~(j < i) /\ ~(j + 1 <= Len(p))
    <3>1. j + 1 \in 1..(Len(p) + Len(q)) /\ ~(j <= Len(p) - 1)
             /\ j \in 1..(Len(p) - 1 + Len(q))
             /\ (j + 1) - Len(p) = j - (Len(p) - 1)
      BY <2>3, <1>0
    <3> QED BY <3>1, <2>3, <1>1, <1>3, <1>5
  <2> QED BY <2>1, <2>2, <2>3
<1>7. Len(a) = Len(b) /\ \A j \in 1..Len(a) : a[j] = b[j]
  BY <1>0, <1>3, <1>5, <1>6
<1>8. a = b
  BY <1>3, <1>5, <1>7, SeqEqual
<1> QED BY <1>8 DEF a, b

\* Removing from the second half of a concatenation.
LEMMA RemoveAtRight ==
    ASSUME NEW S, NEW p \in Seq(S), NEW q \in Seq(S), NEW i \in 1..Len(q)
    PROVE  RemoveAt(p \o q, Len(p) + i) = p \o RemoveAt(q, i)
<1> DEFINE a == RemoveAt(p \o q, Len(p) + i)
           b == p \o RemoveAt(q, i)
<1>0. Len(p) \in Nat /\ Len(q) \in Nat
  BY LenProperties
<1>1. /\ p \o q \in Seq(S) /\ Len(p \o q) = Len(p) + Len(q)
      /\ \A j \in 1..(Len(p) + Len(q)) :
            (p \o q)[j] = IF j <= Len(p) THEN p[j] ELSE q[j - Len(p)]
  BY ConcatProperties
<1>2. Len(p) + i \in 1..Len(p \o q)
  BY <1>0, <1>1
<1>3. /\ a \in Seq(S) /\ Len(a) = Len(p) + Len(q) - 1
      /\ \A j \in 1..(Len(p) + Len(q) - 1) :
            a[j] = IF j < Len(p) + i THEN (p \o q)[j] ELSE (p \o q)[j+1]
  <2> DEFINE s == p \o q
  <2>1. s \in Seq(S) /\ Len(p) + i \in 1..Len(s)
    BY <1>1, <1>2
  <2> HIDE DEF s
  <2>2. /\ RemoveAt(s, Len(p) + i) \in Seq(S) /\ Len(RemoveAt(s, Len(p) + i)) = Len(s) - 1
        /\ \A j \in 1..(Len(s) - 1) :
              RemoveAt(s, Len(p) + i)[j] = IF j < Len(p) + i THEN s[j] ELSE s[j+1]
    BY <2>1, RemoveAtProperties
  <2>3. Len(s) = Len(p) + Len(q)
    BY <1>1 DEF s
  <2> QED BY <2>2, <2>3 DEF s
<1>4. /\ RemoveAt(q, i) \in Seq(S) /\ Len(RemoveAt(q, i)) = Len(q) - 1
      /\ \A j \in 1..(Len(q) - 1) :
            RemoveAt(q, i)[j] = IF j < i THEN q[j] ELSE q[j+1]
  BY RemoveAtProperties
<1>5. /\ b \in Seq(S) /\ Len(b) = Len(p) + (Len(q) - 1)
      /\ \A j \in 1..(Len(p) + (Len(q) - 1)) :
            b[j] = IF j <= Len(p) THEN p[j] ELSE RemoveAt(q, i)[j - Len(p)]
  <2> DEFINE t == RemoveAt(q, i)
  <2>1. t \in Seq(S) /\ Len(t) = Len(q) - 1
    BY <1>4
  <2> HIDE DEF t
  <2>2. /\ p \o t \in Seq(S) /\ Len(p \o t) = Len(p) + Len(t)
        /\ \A j \in 1..(Len(p) + Len(t)) :
              (p \o t)[j] = IF j <= Len(p) THEN p[j] ELSE t[j - Len(p)]
    BY <2>1, ConcatProperties
  <2> QED BY <2>1, <2>2 DEF t
<1> HIDE DEF a, b
<1>6. ASSUME NEW j \in 1..(Len(p) + Len(q) - 1)
      PROVE  a[j] = b[j]
  <2>0. j \in 1..(Len(p) + (Len(q) - 1)) /\ j \in 1..(Len(p) + Len(q))
           /\ j + 1 \in 1..(Len(p) + Len(q))
    BY <1>0
  <2>1. CASE j <= Len(p)
    <3>1. j < Len(p) + i
      BY <2>1, <1>0
    <3> QED BY <3>1, <2>0, <2>1, <1>1, <1>3, <1>5
  <2>2. CASE ~(j <= Len(p)) /\ j < Len(p) + i
    <3>1. j - Len(p) \in 1..(Len(q) - 1) /\ j - Len(p) < i
      BY <2>2, <1>0
    <3> QED BY <3>1, <2>0, <2>2, <1>1, <1>3, <1>4, <1>5
  <2>3. CASE ~(j <= Len(p)) /\ ~(j < Len(p) + i)
    <3>1. /\ j - Len(p) \in 1..(Len(q) - 1) /\ ~(j - Len(p) < i)
          /\ ~(j + 1 <= Len(p)) /\ (j + 1) - Len(p) = (j - Len(p)) + 1
      BY <2>3, <1>0
    <3> QED BY <3>1, <2>0, <2>3, <1>1, <1>3, <1>4, <1>5
  <2> QED BY <2>1, <2>2, <2>3
<1>7. Len(a) = Len(b) /\ \A j \in 1..Len(a) : a[j] = b[j]
  BY <1>0, <1>3, <1>5, <1>6
<1>8. a = b
  BY <1>3, <1>5, <1>7, SeqEqual
<1> QED BY <1>8 DEF a, b

\* Moving the head of the second half to the end of the first one changes
\* nothing of the whole.
LEMMA MoveHead ==
    ASSUME NEW S, NEW p \in Seq(S), NEW q \in Seq(S), q # <<>>
    PROVE  Append(p, Head(q)) \o Tail(q) = p \o q
<1>1. Head(q) \in S /\ Tail(q) \in Seq(S) /\ q[1] = Head(q) /\ <<Head(q)>> \in Seq(S)
  BY HeadTailProperties
<1>2. Append(p, Head(q)) = p \o <<Head(q)>>
  BY <1>1, AppendIsConcat
<1>3. (p \o <<Head(q)>>) \o Tail(q) = p \o (<<Head(q)>> \o Tail(q))
  BY <1>1, ConcatAssociative
<1>4. <<Head(q)>> \o Tail(q) = q
  <2> DEFINE r == <<Head(q)>> \o Tail(q)
  <2>0. Len(q) \in Nat \ {0}
    BY EmptySeq
  <2>1. /\ Len(Tail(q)) = Len(q) - 1
        /\ \A i \in 1..Len(Tail(q)) : Tail(q)[i] = q[i+1]
    BY HeadTailProperties
  <2>2. /\ r \in Seq(S) /\ Len(r) = 1 + Len(Tail(q))
        /\ \A i \in 1..(1 + Len(Tail(q))) :
              r[i] = IF i <= 1 THEN <<Head(q)>>[i] ELSE Tail(q)[i - 1]
    <3>1. Len(<<Head(q)>>) = 1
      OBVIOUS
    <3> QED BY <3>1, <1>1, ConcatProperties
  <2> HIDE DEF r
  <2>3. ASSUME NEW i \in 1..Len(q)
        PROVE  r[i] = q[i]
    <3>1. CASE i = 1
      BY <3>1, <2>0, <2>1, <2>2, <1>1
    <3>2. CASE i # 1
      <4>1. i \in 1..(1 + Len(Tail(q))) /\ ~(i <= 1) /\ i - 1 \in 1..Len(Tail(q)) /\ (i - 1) + 1 = i
        BY <3>2, <2>0, <2>1
      <4> QED BY <4>1, <2>1, <2>2
    <3> QED BY <3>1, <3>2
  <2>4. Len(r) = Len(q) /\ \A i \in 1..Len(r) : r[i] = q[i]
    BY <2>0, <2>1, <2>2, <2>3
  <2>5. r = q
    BY <2>2, <2>4, SeqEqual
  <2> QED BY <2>5 DEF r
<1> QED BY <1>2, <1>3, <1>4

\* Appending to the second half appends to the whole.
LEMMA AppendRight ==
    ASSUME NEW S, NEW p \in Seq(S), NEW q \in Seq(S), NEW e \in S
    PROVE  p \o Append(q, e) = Append(p \o q, e)
<1>1. <<e>> \in Seq(S) /\ p \o q \in Seq(S)
  BY ConcatProperties
<1>2. Append(q, e) = q \o <<e>> /\ Append(p \o q, e) = (p \o q) \o <<e>>
  BY <1>1, AppendIsConcat
<1> QED BY <1>1, <1>2, ConcatAssociative

\* A part of a sequence without doublets has none.
LEMMA InjectiveLeft ==
    ASSUME NEW S, NEW p \in Seq(S), NEW q \in Seq(S), IsInjective(p \o q)
    PROVE  IsInjective(p)
<1>1. /\ Len(p) \in Nat /\ Len(q) \in Nat /\ DOMAIN p = 1..Len(p)
      /\ p \o q \in Seq(S) /\ Len(p \o q) = Len(p) + Len(q)
      /\ \A i \in 1..(Len(p) + Len(q)) :
            (p \o q)[i] = IF i <= Len(p) THEN p[i] ELSE q[i - Len(p)]
  BY LenProperties, ConcatProperties
<1>2. DOMAIN (p \o q) = 1..(Len(p) + Len(q))
  BY <1>1, LenProperties
<1>3. \A i \in 1..Len(p) : i \in DOMAIN (p \o q) /\ (p \o q)[i] = p[i]
  BY <1>1, <1>2
<1> QED BY <1>1, <1>3 DEF IsInjective

\* The first element of a concatenation is the one of its first half.
LEMMA TailLeft ==
    ASSUME NEW S, NEW p \in Seq(S), NEW q \in Seq(S), p # <<>>
    PROVE  /\ p \o q \in Seq(S) /\ p \o q # <<>>
           /\ Head(p \o q) = Head(p) /\ Tail(p \o q) = Tail(p) \o q
<1> PICK s : s = p \o q
  OBVIOUS
<1>0. Len(p) \in Nat \ {0} /\ Len(q) \in Nat
  BY EmptySeq, LenProperties
<1>1. /\ s \in Seq(S) /\ Len(s) = Len(p) + Len(q)
      /\ \A i \in 1..(Len(p) + Len(q)) : s[i] = IF i <= Len(p) THEN p[i] ELSE q[i - Len(p)]
  BY ConcatProperties
<1>2. s # <<>>
  BY <1>0, <1>1, EmptySeq
<1>3. Head(s) = s[1] /\ Head(p) = p[1] /\ s[1] = p[1]
  <2>1. 1 \in 1..(Len(p) + Len(q)) /\ 1 <= Len(p)
    BY <1>0
  <2> QED BY <2>1, <1>1, <1>2, HeadTailProperties
<1> PICK t : t = Tail(p)
  OBVIOUS
<1> PICK u : u = t \o q
  OBVIOUS
<1> PICK r : r = Tail(s)
  OBVIOUS
<1>4. t \in Seq(S) /\ Len(t) = Len(p) - 1 /\ \A i \in 1..Len(t) : t[i] = p[i+1]
  BY HeadTailProperties
<1>5. /\ u \in Seq(S) /\ Len(u) = Len(t) + Len(q)
      /\ \A i \in 1..(Len(t) + Len(q)) : u[i] = IF i <= Len(t) THEN t[i] ELSE q[i - Len(t)]
  BY <1>4, ConcatProperties
<1>6. r \in Seq(S) /\ Len(r) = Len(s) - 1 /\ \A i \in 1..Len(r) : r[i] = s[i+1]
  BY <1>1, <1>2, HeadTailProperties
<1>7. ASSUME NEW i \in 1..Len(r)
      PROVE  r[i] = u[i]
  <2>0. i \in 1..(Len(t) + Len(q)) /\ i + 1 \in 1..(Len(p) + Len(q))
    BY <1>0, <1>1, <1>4, <1>6
  <2>1. CASE i <= Len(t)
    <3>1. i \in 1..Len(t) /\ i + 1 <= Len(p)
      BY <2>1, <2>0, <1>0, <1>4
    <3> QED BY <3>1, <2>0, <2>1, <1>1, <1>4, <1>5, <1>6
  <2>2. CASE ~(i <= Len(t))
    <3>1. ~(i + 1 <= Len(p)) /\ (i + 1) - Len(p) = i - Len(t)
      BY <2>2, <2>0, <1>0, <1>4
    <3> QED BY <3>1, <2>0, <2>2, <1>1, <1>5, <1>6
  <2> QED BY <2>1, <2>2
<1>8. Len(r) = Len(u)
  BY <1>0, <1>1, <1>4, <1>5, <1>6
<1>9. r = u
  BY <1>5, <1>6, <1>7, <1>8, SeqEqual
<1> QED BY <1>1, <1>2, <1>3, <1>9

=============================================================================
