----------------------------- MODULE QueueFacts -----------------------------
(***************************************************************************)
(* Facts about sequences that are queues, for the proofs about             *)
(* SqlTransactions, MainThreadQueue, Worker and MessagePort: what is in    *)
(* one, and that it is there once, after an element or a part is added or  *)
(* taken.                                                                  *)
(***************************************************************************)
EXTENDS Integers, Sequences, TLAPS, SequenceTheorems

\* The elements of a sequence, and that each occurs once.
In(s) == {s[i] : i \in 1..Len(s)}
Once(s) == \A i, j \in 1..Len(s) : s[i] = s[j] => i = j

LEMMA EmptyIn == In(<<>>) = {} /\ Once(<<>>)
  BY DEF In, Once

LEMMA AppendIn ==
    ASSUME NEW S, NEW s \in Seq(S), NEW e \in S
    PROVE  /\ Append(s, e) \in Seq(S)
           /\ In(Append(s, e)) = In(s) \cup {e}
           /\ Once(s) /\ e \notin In(s) => Once(Append(s, e))
<1> DEFINE r == Append(s, e)
<1>1. /\ r \in Seq(S) /\ Len(r) = Len(s) + 1 /\ Len(s) \in Nat
      /\ \A i \in 1..Len(s) : r[i] = s[i]
      /\ r[Len(s) + 1] = e
  BY AppendProperties
<1> HIDE DEF r
<1>2. In(r) = In(s) \cup {e}
  BY <1>1 DEF In
<1>3. Once(s) /\ e \notin In(s) => Once(r)
  BY <1>1 DEF In, Once
<1> QED
  BY <1>1, <1>2, <1>3 DEF r

LEMMA HeadTailIn ==
    ASSUME NEW S, NEW s \in Seq(S), s # <<>>
    PROVE  /\ Head(s) \in In(s) /\ Head(s) \in S
           /\ Tail(s) \in Seq(S)
           /\ In(Tail(s)) \subseteq In(s)
           /\ Once(s) => Once(Tail(s)) /\ In(Tail(s)) = In(s) \ {Head(s)}
<1> DEFINE r == Tail(s)
<1>1. /\ r \in Seq(S) /\ Len(r) = Len(s) - 1 /\ Len(s) \in Nat \ {0}
      /\ \A i \in 1..Len(r) : r[i] = s[i + 1]
      /\ Head(s) = s[1] /\ Head(s) \in S
  BY HeadTailProperties, EmptySeq
<1> HIDE DEF r
<1>2. Head(s) \in In(s)
  BY <1>1 DEF In
<1>3. In(r) \subseteq In(s)
  BY <1>1 DEF In
<1>4. ASSUME Once(s)
      PROVE  Once(r) /\ In(r) = In(s) \ {Head(s)}
  <2>1. Once(r)
    BY <1>1, <1>4 DEF Once
  <2>2. \A i \in 1..Len(r) : r[i] # Head(s)
    BY <1>1, <1>4 DEF Once
  <2>3. ASSUME NEW x \in In(s) \ {Head(s)}
        PROVE  x \in In(r)
    <3>1. PICK i \in 1..Len(s) : x = s[i]
      BY DEF In
    <3>2. i - 1 \in 1..Len(r) /\ r[i - 1] = s[i]
      BY <1>1, <2>3, <3>1
    <3> QED
      BY <3>1, <3>2 DEF In
  <2> QED
    BY <1>3, <2>1, <2>2, <2>3 DEF In
<1> QED
  BY <1>1, <1>2, <1>3, <1>4 DEF r

LEMMA ConcatIn ==
    ASSUME NEW S, NEW s \in Seq(S), NEW t \in Seq(S)
    PROVE  /\ s \o t \in Seq(S)
           /\ In(s \o t) = In(s) \cup In(t)
           /\ Once(s) /\ Once(t) /\ In(s) \cap In(t) = {} => Once(s \o t)
<1> DEFINE r == s \o t
<1>1. /\ r \in Seq(S) /\ Len(r) = Len(s) + Len(t) /\ Len(s) \in Nat /\ Len(t) \in Nat
      /\ \A i \in 1..Len(s) : r[i] = s[i]
      /\ \A i \in 1..Len(t) : r[Len(s) + i] = t[i]
      /\ \A i \in (Len(s) + 1)..Len(r) : r[i] = t[i - Len(s)] /\ i - Len(s) \in 1..Len(t)
  BY ConcatProperties
<1> HIDE DEF r
<1>2. In(r) \subseteq In(s) \cup In(t)
  <2> SUFFICES ASSUME NEW i \in 1..Len(r)
               PROVE  r[i] \in In(s) \cup In(t)
    BY DEF In
  <2>1. i \in 1..Len(s) \/ i \in (Len(s) + 1)..Len(r)
    BY <1>1
  <2>2. CASE i \in 1..Len(s)
    BY <1>1, <2>2 DEF In
  <2>3. CASE i \in (Len(s) + 1)..Len(r)
    BY <1>1, <2>3 DEF In
  <2> QED
    BY <2>1, <2>2, <2>3
<1>3. In(s) \subseteq In(r)
  BY <1>1 DEF In
<1>4. In(t) \subseteq In(r)
  <2>1. \A i \in 1..Len(t) : Len(s) + i \in 1..Len(r)
    BY <1>1
  <2>2. \A i \in 1..Len(t) : r[Len(s) + i] = t[i]
    <3>1. \A i \in 1..Len(t) : Len(s) + i \in (Len(s) + 1)..Len(r) /\ (Len(s) + i) - Len(s) = i
      BY <1>1
    <3> QED
      BY <1>1, <3>1
  <2> QED
    BY <2>1, <2>2, Zenon DEF In
<1>5. ASSUME Once(s), Once(t), In(s) \cap In(t) = {}
      PROVE  Once(r)
  <2> SUFFICES ASSUME NEW i \in 1..Len(r), NEW j \in 1..Len(r), r[i] = r[j]
               PROVE  i = j
    BY DEF Once
  <2> DEFINE k == i - Len(s)
             l == j - Len(s)
  <2>0. /\ i \in 1..Len(s) => r[i] = s[i] /\ s[i] \in In(s)
        /\ j \in 1..Len(s) => r[j] = s[j] /\ s[j] \in In(s)
        /\ i \notin 1..Len(s) => k \in 1..Len(t) /\ r[i] = t[k]
        /\ j \notin 1..Len(s) => l \in 1..Len(t) /\ r[j] = t[l]
    <3>1. ASSUME NEW x \in 1..Len(r), x \notin 1..Len(s)
          PROVE  x - Len(s) \in 1..Len(t) /\ r[x] = t[x - Len(s)]
      <4>1. x \in (Len(s) + 1)..Len(r)
        BY <1>1, <3>1
      <4> QED
        BY <1>1, <4>1
    <3>2. ASSUME NEW x \in 1..Len(s)
          PROVE  r[x] = s[x] /\ s[x] \in In(s)
      BY <1>1 DEF In
    <3> QED
      BY <3>1, <3>2
  <2>1. CASE i \in 1..Len(s) /\ j \in 1..Len(s)
    BY <1>5, <2>0, <2>1 DEF Once
  <2>2. CASE i \notin 1..Len(s) /\ j \notin 1..Len(s)
    <3>1. k \in 1..Len(t) /\ l \in 1..Len(t) /\ t[k] = t[l]
      BY <2>0, <2>2
    <3>2. k = l
      BY <1>5, <3>1 DEF Once
    <3> QED
      BY <1>1, <3>2
  <2>3. CASE i \in 1..Len(s) /\ j \notin 1..Len(s)
    <3>1. r[j] \in In(t)
      BY <2>0, <2>3 DEF In
    <3> QED
      BY <1>5, <2>0, <2>3, <3>1
  <2>4. CASE i \notin 1..Len(s) /\ j \in 1..Len(s)
    <3>1. r[i] \in In(t)
      BY <2>0, <2>4 DEF In
    <3> QED
      BY <1>5, <2>0, <2>4, <3>1
  <2> QED
    BY <2>1, <2>2, <2>3, <2>4
<1> QED
  BY <1>1, <1>2, <1>3, <1>4, <1>5 DEF r

LEMMA PrependIn ==
    ASSUME NEW S, NEW s \in Seq(S), NEW e \in S
    PROVE  /\ <<e>> \o s \in Seq(S)
           /\ In(<<e>> \o s) = In(s) \cup {e}
           /\ Once(s) /\ e \notin In(s) => Once(<<e>> \o s)
<1>1. <<e>> \in Seq(S) /\ In(<<e>>) = {e} /\ Once(<<e>>)
  BY DEF In, Once
<1>2. e \notin In(s) => In(<<e>>) \cap In(s) = {}
  BY <1>1
<1>3. /\ <<e>> \o s \in Seq(S)
      /\ In(<<e>> \o s) = In(<<e>>) \cup In(s)
      /\ Once(<<e>>) /\ Once(s) /\ In(<<e>>) \cap In(s) = {} => Once(<<e>> \o s)
  BY <1>1, ConcatIn
<1> QED
  BY <1>1, <1>2, <1>3

\* The first n elements of s go, and the others stay.
LEMMA SplitIn ==
    ASSUME NEW S, NEW s \in Seq(S), NEW n \in 0..Len(s)
    PROVE  /\ SubSeq(s, n + 1, Len(s)) \in Seq(S)
           /\ In(SubSeq(s, n + 1, Len(s))) \cup {s[i] : i \in 1..n} = In(s)
           /\ Once(s) => /\ Once(SubSeq(s, n + 1, Len(s)))
                         /\ In(SubSeq(s, n + 1, Len(s))) \cap {s[i] : i \in 1..n} = {}
<1> DEFINE r == SubSeq(s, n + 1, Len(s))
<1>1. Len(s) \in Nat /\ \A i \in (n + 1)..Len(s) : s[i] \in S
  BY ElementOfSeq, LenProperties
<1>2. /\ r \in Seq(S) /\ Len(r) = Len(s) - n
      /\ \A i \in 1..(Len(s) - n) : r[i] = s[n + i]
  BY <1>1, SubSeqProperties
<1> HIDE DEF r
<1>3. In(r) = {s[i] : i \in (n + 1)..Len(s)}
  <2>1. \A i \in (n + 1)..Len(s) : i - n \in 1..Len(r) /\ r[i - n] = s[i]
    BY <1>1, <1>2
  <2>2. \A i \in 1..Len(r) : n + i \in (n + 1)..Len(s)
    BY <1>1, <1>2
  <2>3. In(r) \subseteq {s[i] : i \in (n + 1)..Len(s)}
    <3>1. \A i \in 1..Len(r) : r[i] = s[n + i]
      BY <1>2
    <3> QED
      BY <2>2, <3>1, Zenon DEF In
  <2>4. {s[i] : i \in (n + 1)..Len(s)} \subseteq In(r)
    BY <2>1, Zenon DEF In
  <2> QED
    BY <2>3, <2>4
<1>4. In(r) \cup {s[i] : i \in 1..n} = In(s)
  <2>1. 1..Len(s) = (1..n) \cup ((n + 1)..Len(s))
    BY <1>1
  <2> QED
    BY <1>3, <2>1, Zenon DEF In
<1>5. ASSUME Once(s)
      PROVE  Once(r) /\ In(r) \cap {s[i] : i \in 1..n} = {}
  <2>1. Once(r)
    <3> SUFFICES ASSUME NEW i \in 1..Len(r), NEW j \in 1..Len(r), r[i] = r[j]
                 PROVE  i = j
      BY DEF Once
    <3>1. n + i \in 1..Len(s) /\ n + j \in 1..Len(s) /\ s[n + i] = s[n + j]
      BY <1>1, <1>2
    <3>2. n + i = n + j
      BY <1>5, <3>1 DEF Once
    <3> QED
      BY <1>1, <1>2, <3>2
  <2>2. ASSUME NEW i \in (n + 1)..Len(s), NEW j \in 1..n
        PROVE  s[i] # s[j]
    BY <1>1, <1>5 DEF Once
  <2> QED
    BY <1>3, <2>1, <2>2
<1> QED
  BY <1>2, <1>4, <1>5 DEF r

\* The element at i goes, and the others stay.
LEMMA RemoveIn ==
    ASSUME NEW S, NEW s \in Seq(S), NEW i \in 1..Len(s)
    PROVE  LET r == SubSeq(s, 1, i - 1) \o SubSeq(s, i + 1, Len(s)) IN
           /\ r \in Seq(S)
           /\ Once(s) => Once(r) /\ In(r) = In(s) \ {s[i]}
<1> DEFINE p == SubSeq(s, 1, i - 1)
           q == SubSeq(s, i + 1, Len(s))
<1>1. Len(s) \in Nat /\ \A k \in 1..Len(s) : s[k] \in S
  BY ElementOfSeq, LenProperties
<1>2. p \in Seq(S) /\ Len(p) = i - 1 /\ \A k \in 1..(i - 1) : p[k] = s[k]
  BY <1>1, SubSeqProperties
<1>3. /\ q \in Seq(S)
      /\ In(q) \cup {s[k] : k \in 1..i} = In(s)
      /\ Once(s) => Once(q) /\ In(q) \cap {s[k] : k \in 1..i} = {}
  BY <1>1, SplitIn
<1> HIDE DEF p, q
<1>4. p \o q \in Seq(S)
  BY <1>2, <1>3, ConcatIn
<1>5. ASSUME Once(s)
      PROVE  Once(p \o q) /\ In(p \o q) = In(s) \ {s[i]}
  <2>1. Once(p) /\ In(p) = {s[k] : k \in 1..(i - 1)}
    <3>1. In(p) = {s[k] : k \in 1..(i - 1)}
      BY <1>2 DEF In
    <3>2. Once(p)
      <4>1. \A k \in 1..Len(p) : k \in 1..Len(s) /\ p[k] = s[k]
        BY <1>1, <1>2
      <4> QED
        BY <1>5, <4>1 DEF Once
    <3> QED
      BY <3>1, <3>2
  <2>2. In(p) \cap In(q) = {}
    BY <1>1, <1>3, <1>5, <2>1
  <2>3. Once(p \o q) /\ In(p \o q) = In(p) \cup In(q)
    BY <1>2, <1>3, <1>5, <2>1, <2>2, ConcatIn
  <2>4. {s[k] : k \in 1..i} = In(p) \cup {s[i]}
    BY <1>1, <2>1
  <2>5. s[i] \notin In(p)
    BY <1>1, <1>5, <2>1 DEF Once
  <2>6. s[i] \notin In(q)
    BY <1>3, <1>5, <2>4
  <2> QED
    BY <1>3, <2>3, <2>4, <2>5, <2>6
<1> QED
  BY <1>4, <1>5 DEF p, q

=============================================================================
