---------------------------- MODULE QueueLemmas ----------------------------
(***************************************************************************)
(* Facts about sequences without repetition, and about the queue operators *)
(* of SequencesExt, that the proofs about the music queue and the message  *)
(* cache rest on.                                                          *)
(***************************************************************************)
EXTENDS Integers, FiniteSets, SequencesExt, SequenceTheorems, FiniteSetTheorems, TLAPS

\* Taking the head off leaves exactly the other elements.
LEMMA TailElements ==
  ASSUME NEW S, NEW s \in Seq(S), s # << >>
  PROVE  /\ Tail(s) \in Seq(S)
         /\ Head(s) \in S
         /\ ToSet(s) = {Head(s)} \cup ToSet(Tail(s))
         /\ IsInjective(s) => IsInjective(Tail(s)) /\ Head(s) \notin ToSet(Tail(s))
<1>1. /\ Head(s) = s[1] /\ Head(s) \in S
      /\ Tail(s) \in Seq(S) /\ Len(Tail(s)) = Len(s) - 1
      /\ \A i \in 1..Len(Tail(s)) : Tail(s)[i] = s[i+1]
  BY HeadTailProperties
<1>2. Len(s) \in Nat \ {0} /\ DOMAIN s = 1..Len(s) /\ DOMAIN Tail(s) = 1..(Len(s)-1)
  BY <1>1, EmptySeq, LenProperties
<1>3. ToSet(s) = {Head(s)} \cup ToSet(Tail(s))
  <2>1. ASSUME NEW i \in 1..Len(s) PROVE s[i] \in {Head(s)} \cup ToSet(Tail(s))
    <3>1. CASE i = 1  BY <3>1, <1>1
    <3>2. CASE i # 1
      <4>1. i - 1 \in 1..(Len(s)-1)  BY <3>2, <1>2
      <4>2. Tail(s)[i-1] = s[i]  BY <4>1, <1>1, <1>2
      <4>. QED  BY <4>1, <4>2, <1>2 DEF ToSet
    <3>. QED  BY <3>1, <3>2
  <2>2. ASSUME NEW i \in 1..(Len(s)-1) PROVE Tail(s)[i] \in ToSet(s)
    BY <1>1, <1>2 DEF ToSet
  <2>3. Head(s) \in ToSet(s)  BY <1>1, <1>2 DEF ToSet
  <2>. QED  BY <2>1, <2>2, <2>3, <1>2 DEF ToSet
<1>4. ASSUME IsInjective(s)
      PROVE  IsInjective(Tail(s)) /\ Head(s) \notin ToSet(Tail(s))
  <2>1. \A i, j \in 1..Len(s) : s[i] = s[j] => i = j
    BY <1>4, <1>2 DEF IsInjective
  <2>2. ASSUME NEW i \in 1..(Len(s)-1), NEW j \in 1..(Len(s)-1), Tail(s)[i] = Tail(s)[j]
        PROVE  i = j
    <3>1. s[i+1] = s[j+1] /\ i+1 \in 1..Len(s) /\ j+1 \in 1..Len(s)
      BY <2>2, <1>1, <1>2
    <3>. QED  BY <3>1, <2>1
  <2>3. ASSUME NEW i \in 1..(Len(s)-1) PROVE Tail(s)[i] # Head(s)
    <3>1. Tail(s)[i] = s[i+1] /\ i+1 \in 1..Len(s) /\ i+1 # 1 /\ 1 \in 1..Len(s)
      BY <1>1, <1>2
    <3>. QED  BY <3>1, <2>1, <1>1
  <2>. QED  BY <2>2, <2>3, <1>2 DEF IsInjective, ToSet
<1>. QED  BY <1>1, <1>3, <1>4

\* Two queues joined hold the elements of both, each once if the two share none.
LEMMA ConcatElements ==
  ASSUME NEW S, NEW s \in Seq(S), NEW t \in Seq(S)
  PROVE  /\ s \o t \in Seq(S)
         /\ ToSet(s \o t) = ToSet(s) \cup ToSet(t)
         /\ IsInjective(s) /\ IsInjective(t) /\ ToSet(s) \cap ToSet(t) = {}
              => IsInjective(s \o t)
<1>1. /\ s \o t \in Seq(S) /\ Len(s \o t) = Len(s) + Len(t)
      /\ \A i \in 1..(Len(s) + Len(t)) :
           (s \o t)[i] = IF i <= Len(s) THEN s[i] ELSE t[i - Len(s)]
  BY ConcatProperties
<1>2. /\ Len(s) \in Nat /\ Len(t) \in Nat
      /\ DOMAIN s = 1..Len(s) /\ DOMAIN t = 1..Len(t)
      /\ DOMAIN (s \o t) = 1..(Len(s) + Len(t))
  BY <1>1, LenProperties
<1>3. ToSet(s \o t) = ToSet(s) \cup ToSet(t)
  <2>1. ASSUME NEW i \in 1..(Len(s) + Len(t))
        PROVE  (s \o t)[i] \in ToSet(s) \cup ToSet(t)
    <3>1. CASE i <= Len(s)  BY <3>1, <1>1, <1>2 DEF ToSet
    <3>2. CASE ~(i <= Len(s))
      <4>1. i - Len(s) \in 1..Len(t)  BY <3>2, <1>2
      <4>. QED  BY <3>2, <4>1, <1>1, <1>2 DEF ToSet
    <3>. QED  BY <3>1, <3>2
  <2>2. ASSUME NEW i \in 1..Len(s) PROVE s[i] \in ToSet(s \o t)
    <3>1. i \in 1..(Len(s) + Len(t)) /\ (s \o t)[i] = s[i]  BY <1>1, <1>2
    <3>. QED  BY <3>1, <1>2 DEF ToSet
  <2>3. ASSUME NEW i \in 1..Len(t) PROVE t[i] \in ToSet(s \o t)
    <3>1. /\ i + Len(s) \in 1..(Len(s) + Len(t)) /\ ~(i + Len(s) <= Len(s))
          /\ (i + Len(s)) - Len(s) = i
      BY <1>2
    <3>2. (s \o t)[i + Len(s)] = t[i]  BY <3>1, <1>1
    <3>. QED  BY <3>1, <3>2, <1>2 DEF ToSet
  <2>. QED  BY <2>1, <2>2, <2>3, <1>2 DEF ToSet
<1>4. ASSUME IsInjective(s), IsInjective(t), ToSet(s) \cap ToSet(t) = {}
      PROVE  IsInjective(s \o t)
  <2>1. \A i, j \in 1..Len(s) : s[i] = s[j] => i = j  BY <1>4, <1>2 DEF IsInjective
  <2>2. \A i, j \in 1..Len(t) : t[i] = t[j] => i = j  BY <1>4, <1>2 DEF IsInjective
  <2>3. \A i \in 1..Len(s), j \in 1..Len(t) : s[i] # t[j]  BY <1>4, <1>2 DEF ToSet
  <2>4. ASSUME NEW i \in 1..(Len(s) + Len(t)), NEW j \in 1..(Len(s) + Len(t)),
               (s \o t)[i] = (s \o t)[j]
        PROVE  i = j
    <3>1. CASE i <= Len(s) /\ j <= Len(s)
      BY <2>4, <3>1, <1>1, <1>2, <2>1
    <3>2. CASE i <= Len(s) /\ ~(j <= Len(s))
      <4>1. i \in 1..Len(s) /\ j - Len(s) \in 1..Len(t)  BY <3>2, <1>2
      <4>. QED  BY <2>4, <3>2, <4>1, <1>1, <2>3
    <3>3. CASE ~(i <= Len(s)) /\ j <= Len(s)
      <4>1. j \in 1..Len(s) /\ i - Len(s) \in 1..Len(t)  BY <3>3, <1>2
      <4>. QED  BY <2>4, <3>3, <4>1, <1>1, <2>3
    <3>4. CASE ~(i <= Len(s)) /\ ~(j <= Len(s))
      <4>1. i - Len(s) \in 1..Len(t) /\ j - Len(s) \in 1..Len(t)  BY <3>4, <1>2
      <4>2. i - Len(s) = j - Len(s)  BY <2>4, <3>4, <4>1, <1>1, <2>2
      <4>. QED  BY <4>2, <1>2
    <3>. QED  BY <3>1, <3>2, <3>3, <3>4
  <2>. QED  BY <2>4, <1>2 DEF IsInjective
<1>. QED  BY <1>1, <1>3, <1>4

\* Two queues with no entry in common join into one that holds no entry twice.
LEMMA DisjointConcat ==
  ASSUME NEW S, NEW s \in Seq(S), NEW t \in Seq(S),
         IsInjective(s), IsInjective(t), ToSet(s) \cap ToSet(t) = {}
  PROVE  /\ s \o t \in Seq(S)
         /\ ToSet(s \o t) = ToSet(s) \cup ToSet(t)
         /\ IsInjective(s \o t)
BY ConcatElements, Zenon

\* A slice holds the elements at its positions.
LEMMA SubSeqElements ==
  ASSUME NEW S, NEW s \in Seq(S), NEW m \in Nat \ {0}, NEW n \in 0..Len(s)
  PROVE  /\ SubSeq(s, m, n) \in Seq(S)
         /\ ToSet(SubSeq(s, m, n)) = {s[k] : k \in m..n}
         /\ IsInjective(s) => IsInjective(SubSeq(s, m, n))
<1>1. Len(s) \in Nat /\ DOMAIN s = 1..Len(s) /\ \A k \in 1..Len(s) : s[k] \in S
  BY LenProperties
<1>2. \A k \in m..n : s[k] \in S /\ k \in 1..Len(s)  BY <1>1
<1>3. /\ SubSeq(s, m, n) \in Seq(S)
      /\ Len(SubSeq(s, m, n)) = IF m <= n THEN n-m+1 ELSE 0
      /\ \A i \in 1..(n-m+1) : SubSeq(s, m, n)[i] = s[m+i-1]
  <2>1. m \in Int /\ n \in Int /\ \A k \in m..n : s[k] \in S  BY <1>1, <1>2
  <2>. QED  BY <2>1, SubSeqProperties
<1>4. DOMAIN SubSeq(s, m, n) = 1..(n-m+1)
  BY <1>1, <1>3, LenProperties
<1>5. ToSet(SubSeq(s, m, n)) = {s[k] : k \in m..n}
  <2>1. ASSUME NEW i \in 1..(n-m+1) PROVE SubSeq(s, m, n)[i] \in {s[k] : k \in m..n}
    <3>1. m+i-1 \in m..n  BY <1>1
    <3>. QED  BY <3>1, <1>3
  <2>2. ASSUME NEW k \in m..n PROVE s[k] \in ToSet(SubSeq(s, m, n))
    <3>1. k-m+1 \in 1..(n-m+1) /\ m+(k-m+1)-1 = k  BY <1>1
    <3>2. SubSeq(s, m, n)[k-m+1] = s[k]  BY <3>1, <1>3
    <3>. QED  BY <3>1, <3>2, <1>4 DEF ToSet
  <2>. QED  BY <2>1, <2>2, <1>4 DEF ToSet
<1>6. ASSUME IsInjective(s) PROVE IsInjective(SubSeq(s, m, n))
  <2>1. \A i, j \in 1..Len(s) : s[i] = s[j] => i = j  BY <1>6, <1>1 DEF IsInjective
  <2>2. ASSUME NEW i \in 1..(n-m+1), NEW j \in 1..(n-m+1),
               SubSeq(s, m, n)[i] = SubSeq(s, m, n)[j]
        PROVE  i = j
    <3>1. s[m+i-1] = s[m+j-1]  BY <2>2, <1>3
    <3>2. m+i-1 \in 1..Len(s) /\ m+j-1 \in 1..Len(s)  BY <1>1
    <3>3. m+i-1 = m+j-1  BY <3>1, <3>2, <2>1
    <3>. QED  BY <3>3
  <2>. QED  BY <2>2, <1>4 DEF IsInjective
<1>. QED  BY <1>3, <1>5, <1>6

\* RemoveAt takes out the element at the position and no other.
LEMMA RemoveAtElements ==
  ASSUME NEW S, NEW s \in Seq(S), IsInjective(s), NEW i \in DOMAIN s
  PROVE  /\ RemoveAt(s, i) \in Seq(S)
         /\ Len(RemoveAt(s, i)) = Len(s) - 1
         /\ IsInjective(RemoveAt(s, i))
         /\ ToSet(RemoveAt(s, i)) = ToSet(s) \ {s[i]}
<1> DEFINE l == SubSeq(s, 1, i-1)
           r == SubSeq(s, i+1, Len(s))
<1>1. Len(s) \in Nat /\ DOMAIN s = 1..Len(s) /\ i \in 1..Len(s)
  BY LenProperties
<1>2. \A j, k \in 1..Len(s) : s[j] = s[k] => j = k  BY <1>1 DEF IsInjective
<1>3. /\ l \in Seq(S) /\ IsInjective(l) /\ ToSet(l) = {s[k] : k \in 1..(i-1)}
  <2>1. i-1 \in 0..Len(s)  BY <1>1
  <2>. QED  BY <2>1, SubSeqElements
<1>4. /\ r \in Seq(S) /\ IsInjective(r) /\ ToSet(r) = {s[k] : k \in (i+1)..Len(s)}
  <2>1. i+1 \in Nat \ {0} /\ Len(s) \in 0..Len(s)  BY <1>1
  <2>. QED  BY <2>1, SubSeqElements
<1>5. ToSet(l) \cap ToSet(r) = {}
  <2>1. \A j \in 1..(i-1), k \in (i+1)..Len(s) :
          j \in 1..Len(s) /\ k \in 1..Len(s) /\ j # k
    BY <1>1
  <2>. QED  BY <2>1, <1>2, <1>3, <1>4
<1>6. ToSet(l) \cup ToSet(r) = ToSet(s) \ {s[i]}
  <2>1. ToSet(s) = {s[k] : k \in 1..Len(s)}  BY <1>1 DEF ToSet
  <2>2. 1..Len(s) = (1..(i-1)) \cup {i} \cup ((i+1)..Len(s))  BY <1>1
  <2>3. \A k \in 1..(i-1) : s[k] # s[i]
    <3>1. \A k \in 1..(i-1) : k \in 1..Len(s) /\ k # i  BY <1>1
    <3>. QED  BY <3>1, <1>1, <1>2
  <2>4. \A k \in (i+1)..Len(s) : s[k] # s[i]
    <3>1. \A k \in (i+1)..Len(s) : k \in 1..Len(s) /\ k # i  BY <1>1
    <3>. QED  BY <3>1, <1>1, <1>2
  <2>. QED  BY <2>1, <2>2, <2>3, <2>4, <1>3, <1>4
<1>7. Len(l) = i-1 /\ Len(r) = Len(s) - i
  <2>1. \A k \in 1..Len(s) : s[k] \in S  BY ElementOfSeq
  <2>2. \A k \in 1..(i-1) : s[k] \in S  BY <2>1, <1>1
  <2>3. \A k \in (i+1)..Len(s) : s[k] \in S  BY <2>1, <1>1
  <2>4. Len(l) = IF 1 <= i-1 THEN (i-1)-1+1 ELSE 0
    <3>. HIDE DEF l
    <3>1. 1 \in Int /\ i-1 \in Int  BY <1>1
    <3>. QED  BY <3>1, <2>2, SubSeqProperties DEF l
  <2>5. Len(r) = IF i+1 <= Len(s) THEN Len(s)-(i+1)+1 ELSE 0
    <3>. HIDE DEF r
    <3>1. i+1 \in Int /\ Len(s) \in Int  BY <1>1
    <3>. QED  BY <3>1, <2>3, SubSeqProperties DEF r
  <2>. HIDE DEF l, r
  <2>. QED  BY <2>4, <2>5, <1>1
<1>8. RemoveAt(s, i) = l \o r  BY DEF RemoveAt
<1>. HIDE DEF l, r
<1>9. Len(l \o r) = Len(l) + Len(r)  BY <1>3, <1>4, ConcatProperties
<1>10. l \o r \in Seq(S) /\ ToSet(l \o r) = ToSet(l) \cup ToSet(r) /\ IsInjective(l \o r)
  BY <1>3, <1>4, <1>5, ConcatElements, Zenon
<1>. QED  BY <1>1, <1>6, <1>7, <1>8, <1>9, <1>10

\* InsertAt adds the element and keeps the others.
LEMMA InsertAtElements ==
  ASSUME NEW S, NEW s \in Seq(S), IsInjective(s),
         NEW i \in 1..(Len(s) + 1), NEW e \in S, e \notin ToSet(s)
  PROVE  /\ InsertAt(s, i, e) \in Seq(S)
         /\ IsInjective(InsertAt(s, i, e))
         /\ ToSet(InsertAt(s, i, e)) = ToSet(s) \cup {e}
<1> DEFINE l == SubSeq(s, 1, i-1)
           r == SubSeq(s, i, Len(s))
<1>1. Len(s) \in Nat /\ DOMAIN s = 1..Len(s)
  BY LenProperties
<1>2. \A j, k \in 1..Len(s) : s[j] = s[k] => j = k  BY <1>1 DEF IsInjective
<1>3. /\ l \in Seq(S) /\ IsInjective(l) /\ ToSet(l) = {s[k] : k \in 1..(i-1)}
  <2>1. i-1 \in 0..Len(s)  BY <1>1
  <2>. QED  BY <2>1, SubSeqElements
<1>4. /\ r \in Seq(S) /\ IsInjective(r) /\ ToSet(r) = {s[k] : k \in i..Len(s)}
  <2>1. i \in Nat \ {0} /\ Len(s) \in 0..Len(s)  BY <1>1
  <2>. QED  BY <2>1, SubSeqElements
<1>5. ToSet(l) \cap ToSet(r) = {}
  <2>1. \A j \in 1..(i-1), k \in i..Len(s) :
          j \in 1..Len(s) /\ k \in 1..Len(s) /\ j # k
    BY <1>1
  <2>. QED  BY <2>1, <1>2, <1>3, <1>4
<1>6. ToSet(l) \cup ToSet(r) = ToSet(s)
  <2>1. ToSet(s) = {s[k] : k \in 1..Len(s)}  BY <1>1 DEF ToSet
  <2>2. 1..Len(s) = (1..(i-1)) \cup (i..Len(s))  BY <1>1
  <2>. QED  BY <2>1, <2>2, <1>3, <1>4
<1>7. InsertAt(s, i, e) = (l \o <<e>>) \o r  BY DEF InsertAt
<1>. HIDE DEF l, r
<1>8. <<e>> \in Seq(S) /\ ToSet(<<e>>) = {e} /\ IsInjective(<<e>>)
  BY DEF ToSet, IsInjective
<1>9. e \notin ToSet(l) /\ e \notin ToSet(r)  BY <1>6
<1>10. /\ l \o <<e>> \in Seq(S) /\ ToSet(l \o <<e>>) = ToSet(l) \cup {e}
       /\ IsInjective(l \o <<e>>)
  <2>1. ToSet(l) \cap ToSet(<<e>>) = {}  BY <1>8, <1>9
  <2>2. ToSet(l) \cup ToSet(<<e>>) = ToSet(l) \cup {e}  BY <1>8
  <2>. QED  BY <2>1, <2>2, <1>3, <1>8, DisjointConcat
<1>11. ToSet(l \o <<e>>) \cap ToSet(r) = {}  BY <1>5, <1>9, <1>10
<1>. DEFINE le == l \o <<e>>
<1>12. le \in Seq(S) /\ ToSet(le) = ToSet(l) \cup {e} /\ IsInjective(le)
  BY <1>10
<1>13. InsertAt(s, i, e) = le \o r /\ ToSet(le) \cap ToSet(r) = {}  BY <1>7, <1>11
<1>. HIDE DEF le
<1>14. /\ le \o r \in Seq(S) /\ IsInjective(le \o r)
       /\ ToSet(le \o r) = ToSet(le) \cup ToSet(r)
  <2>1. r \in Seq(S) /\ IsInjective(r)  BY <1>4
  <2>2. le \in Seq(S) /\ IsInjective(le)  BY <1>12
  <2>3. ToSet(le) \cap ToSet(r) = {}  BY <1>13
  <2>. QED  BY <2>1, <2>2, <2>3, DisjointConcat
<1>. QED  BY <1>6, <1>12, <1>13, <1>14

\* A queue holds at most as many different elements as it is long.
LEMMA ElementsBounded ==
  ASSUME NEW S, NEW s \in Seq(S)
  PROVE  IsFiniteSet(ToSet(s)) /\ Cardinality(ToSet(s)) <= Len(s)
<1>1. Len(s) \in Nat /\ DOMAIN s = 1..Len(s) /\ s \in [1..Len(s) -> S]
  BY LenProperties
<1>2. IsFiniteSet(1..Len(s)) /\ Cardinality(1..Len(s)) = Len(s)
  BY <1>1, FS_Interval
<1>3. s \in Surjection(1..Len(s), ToSet(s))
  BY <1>1 DEF Surjection, ToSet
<1>. QED  BY <1>2, <1>3, FS_Surjection

\* Appending adds the new element at the end.
LEMMA AppendElements ==
  ASSUME NEW S, NEW s \in Seq(S), NEW e \in S
  PROVE  /\ Append(s, e) \in Seq(S)
         /\ Len(Append(s, e)) = Len(s) + 1
         /\ Append(s, e) # << >>
         /\ ToSet(Append(s, e)) = ToSet(s) \cup {e}
<1>1. /\ Append(s, e) \in Seq(S) /\ Len(Append(s, e)) = Len(s) + 1
      /\ \A i \in 1..Len(s) : Append(s, e)[i] = s[i]
      /\ Append(s, e)[Len(s) + 1] = e
  BY AppendProperties
<1>2. /\ Len(s) \in Nat /\ DOMAIN s = 1..Len(s)
      /\ DOMAIN Append(s, e) = 1..(Len(s) + 1)
  BY <1>1, LenProperties
<1>3. Append(s, e) # << >>  BY <1>1, <1>2, EmptySeq
<1>4. 1..(Len(s) + 1) = (1..Len(s)) \cup {Len(s) + 1}  BY <1>2
<1>5. ToSet(Append(s, e)) = ToSet(s) \cup {e}
  BY <1>1, <1>2, <1>4 DEF ToSet
<1>. QED  BY <1>1, <1>3, <1>5
=============================================================================
