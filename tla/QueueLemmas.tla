---------------------------- MODULE QueueLemmas -----------------------------
(* Facts about queues that the proofs of the components cite.              *)
EXTENDS Queues, WellFoundedInduction, TLAPS

(* Appending a new element keeps a queue free of duplicates.               *)
LEMMA QueueAppend ==
    ASSUME NEW S, NEW s \in Seq(S), NEW e \in S
    PROVE  /\ Append(s, e) \in Seq(S)
           /\ Len(Append(s, e)) = Len(s) + 1
           /\ Append(s, e) # <<>>
           /\ Elements(Append(s, e)) = Elements(s) \cup {e}
           /\ Distinct(s) /\ e \notin Elements(s) => Distinct(Append(s, e))
<1>1. /\ Append(s, e) \in Seq(S)
      /\ Len(Append(s, e)) = Len(s) + 1
      /\ Append(s, e) # <<>>
  <2>1. Append(s, e) \in Seq(S) /\ Len(Append(s, e)) = Len(s) + 1 /\ Len(s) \in Nat
    OBVIOUS
  <2>2. Len(<<>>) = 0
    OBVIOUS
  <2>3. Len(s) + 1 # 0
    BY <2>1
  <2>4. Append(s, e) # <<>>
    BY <2>1, <2>2, <2>3, Zenon
  <2> QED  BY <2>1, <2>4
<1>2. /\ DOMAIN s = 1..Len(s)
      /\ DOMAIN Append(s, e) = 1..(Len(s) + 1)
      /\ Len(s) \in Nat
  BY <1>1
<1>3. /\ \A i \in 1..Len(s) : Append(s, e)[i] = s[i]
      /\ Append(s, e)[Len(s) + 1] = e
  OBVIOUS
<1>4. \A i \in 1..(Len(s) + 1) : i \in 1..Len(s) \/ i = Len(s) + 1
  BY <1>2
<1>5. Elements(Append(s, e)) = Elements(s) \cup {e}
  <2>1. ASSUME NEW x \in Elements(Append(s, e)) PROVE x \in Elements(s) \cup {e}
    <3>1. PICK i \in 1..(Len(s) + 1) : x = Append(s, e)[i]
      BY <1>2 DEF Elements
    <3> QED  BY <3>1, <1>2, <1>3, <1>4 DEF Elements
  <2>2. ASSUME NEW x \in Elements(s) PROVE x \in Elements(Append(s, e))
    <3>1. PICK i \in 1..Len(s) : x = s[i]
      BY <1>2 DEF Elements
    <3>2. i \in 1..(Len(s) + 1)  BY <1>2
    <3> QED  BY <3>1, <3>2, <1>2, <1>3 DEF Elements
  <2>3. e \in Elements(Append(s, e))
    <3>1. Len(s) + 1 \in 1..(Len(s) + 1)  BY <1>2
    <3> QED  BY <3>1, <1>2, <1>3 DEF Elements
  <2> QED  BY <2>1, <2>2, <2>3
<1>6. ASSUME Distinct(s), e \notin Elements(s)
      PROVE  Distinct(Append(s, e))
  <2>1. \A i \in 1..Len(s) : s[i] # e
    BY <1>2, <1>6 DEF Elements
  <2> QED  BY <2>1, <1>2, <1>3, <1>4, <1>6 DEF Distinct
<1> QED  BY <1>1, <1>5, <1>6

(* Popping the head of a queue without duplicates removes it.              *)
LEMMA QueuePop ==
    ASSUME NEW S, NEW s \in Seq(S), s # <<>>, Distinct(s)
    PROVE  /\ Tail(s) \in Seq(S)
           /\ Len(Tail(s)) = Len(s) - 1
           /\ Len(s) \in Nat \ {0}
           /\ Head(s) \in Elements(s)
           /\ Head(s) \in S
           /\ Elements(Tail(s)) = Elements(s) \ {Head(s)}
           /\ Distinct(Tail(s))
           /\ Tail(s) # <<>> <=> Len(s) > 1
<1>1. /\ Tail(s) \in Seq(S)
      /\ Len(Tail(s)) = Len(s) - 1
      /\ Head(s) \in S
      /\ \A i \in 1..Len(Tail(s)) : Tail(s)[i] = s[i + 1]
  OBVIOUS
<1>2. Len(s) \in Nat \ {0}
  OBVIOUS
<1>3. /\ DOMAIN s = 1..Len(s)
      /\ DOMAIN Tail(s) = 1..(Len(s) - 1)
  BY <1>1
<1>4. Head(s) = s[1]  OBVIOUS
<1>5. Head(s) \in Elements(s)
  BY <1>2, <1>3, <1>4 DEF Elements
<1>6. Elements(Tail(s)) = Elements(s) \ {Head(s)}
  <2>1. ASSUME NEW x \in Elements(Tail(s)) PROVE x \in Elements(s) \ {Head(s)}
    <3>1. PICK i \in 1..(Len(s) - 1) : x = s[i + 1]
      BY <1>1, <1>3 DEF Elements
    <3>2. i + 1 \in 1..Len(s) /\ 1 \in 1..Len(s) /\ i + 1 # 1
      BY <1>2
    <3>3. s[i + 1] # s[1]
      BY <3>2, <1>3 DEF Distinct
    <3> QED  BY <3>1, <3>2, <3>3, <1>3, <1>4 DEF Elements
  <2>2. ASSUME NEW x \in Elements(s) \ {Head(s)} PROVE x \in Elements(Tail(s))
    <3>1. PICK i \in 1..Len(s) : x = s[i]
      BY <1>3 DEF Elements
    <3>2. i # 1  BY <3>1, <1>4
    <3>3. i - 1 \in 1..(Len(s) - 1) /\ (i - 1) + 1 = i
      BY <3>2, <1>2
    <3>4. Tail(s)[i - 1] = s[i]
      BY <3>3, <1>1
    <3>5. x = Tail(s)[i - 1] /\ i - 1 \in DOMAIN Tail(s)
      BY <3>1, <3>3, <3>4, <1>3
    <3> QED  BY <3>5, Zenon DEF Elements
  <2> QED  BY <2>1, <2>2
<1>7. Distinct(Tail(s))
  <2> SUFFICES ASSUME NEW i \in 1..(Len(s) - 1), NEW j \in 1..(Len(s) - 1),
                      Tail(s)[i] = Tail(s)[j]
               PROVE  i = j
    BY <1>3 DEF Distinct
  <2>1. i + 1 \in 1..Len(s) /\ j + 1 \in 1..Len(s)
    BY <1>2
  <2>2. s[i + 1] = s[j + 1]
    BY <1>1
  <2>3. i + 1 = j + 1
    BY <2>1, <2>2, <1>3 DEF Distinct
  <2> QED  BY <2>3
<1>8. Tail(s) # <<>> <=> Len(s) > 1
  <2>1. CASE Tail(s) = <<>>
    <3>1. Len(<<>>) = 0  OBVIOUS
    <3>2. Len(Tail(s)) = 0  BY <2>1, <3>1, Zenon
    <3>3. Len(s) = 1  BY <3>2, <1>1, <1>2
    <3> QED  BY <2>1, <3>3
  <2>2. CASE Tail(s) # <<>>
    <3>1. Len(Tail(s)) \in Nat \ {0}  BY <2>2, <1>1
    <3>2. Len(s) > 1  BY <3>1, <1>1, <1>2
    <3> QED  BY <2>2, <3>2
  <2> QED  BY <2>1, <2>2
<1> QED  BY <1>1, <1>2, <1>5, <1>6, <1>7, <1>8

(* The empty queue.                                                        *)
LEMMA QueueEmpty ==
    /\ Elements(<<>>) = {}
    /\ Distinct(<<>>)
    /\ Len(<<>>) = 0
    /\ \A U : DistinctIn(<<>>, U)
BY DEF Elements, Distinct, DistinctIn

(* The elements in U, where only those are without duplicates, after an    *)
(* append and after a pop.                                                 *)
LEMMA QueueAppendIn ==
    ASSUME NEW S, NEW U, NEW s \in Seq(S), NEW e \in S, DistinctIn(s, U),
           e \in U => e \notin Elements(s)
    PROVE  DistinctIn(Append(s, e), U)
<1>1. /\ DOMAIN s = 1..Len(s)
      /\ DOMAIN Append(s, e) = 1..(Len(s) + 1)
      /\ Len(s) \in Nat
  BY QueueAppend
<1>2. /\ \A i \in 1..Len(s) : Append(s, e)[i] = s[i]
      /\ Append(s, e)[Len(s) + 1] = e
  OBVIOUS
<1>3. \A i \in 1..(Len(s) + 1) : i \in 1..Len(s) \/ i = Len(s) + 1
  BY <1>1
<1>4. e \in U => \A i \in 1..Len(s) : s[i] # e
  BY <1>1 DEF Elements
<1> QED  BY <1>1, <1>2, <1>3, <1>4 DEF DistinctIn

(* Taking the first element keeps the others in the queue.                 *)
LEMMA QueuePopIn ==
    ASSUME NEW S, NEW U, NEW s \in Seq(S), s # <<>>, DistinctIn(s, U)
    PROVE  /\ Tail(s) \in Seq(S)
           /\ Head(s) \in S /\ Head(s) \in Elements(s)
           /\ Elements(Tail(s)) \subseteq Elements(s)
           /\ \A x \in U : x \in Elements(Tail(s))
                             <=> (x \in Elements(s) /\ x # Head(s))
           /\ DistinctIn(Tail(s), U)
<1>1. /\ Tail(s) \in Seq(S)
      /\ Len(Tail(s)) = Len(s) - 1
      /\ Head(s) \in S
      /\ \A i \in 1..Len(Tail(s)) : Tail(s)[i] = s[i + 1]
  OBVIOUS
<1>2. Len(s) \in Nat \ {0}
  OBVIOUS
<1>3. /\ DOMAIN s = 1..Len(s)
      /\ DOMAIN Tail(s) = 1..(Len(s) - 1)
  BY <1>1
<1>4. Head(s) = s[1] /\ 1 \in 1..Len(s)
  BY <1>2
<1>5. Head(s) \in Elements(s)
  BY <1>3, <1>4 DEF Elements
<1>6. ASSUME NEW x \in Elements(Tail(s))
      PROVE  x \in Elements(s) /\ (x \in U => x # Head(s))
  <2>1. PICK i \in 1..(Len(s) - 1) : x = s[i + 1]
    BY <1>1, <1>3 DEF Elements
  <2>2. i + 1 \in 1..Len(s) /\ i + 1 # 1
    BY <1>2
  <2>3. x \in U => s[i + 1] # s[1]
    BY <2>1, <2>2, <1>3, <1>4 DEF DistinctIn
  <2> QED  BY <2>1, <2>2, <2>3, <1>3, <1>4 DEF Elements
<1>7. ASSUME NEW x \in Elements(s), x # Head(s) PROVE x \in Elements(Tail(s))
  <2>1. PICK i \in 1..Len(s) : x = s[i]
    BY <1>3 DEF Elements
  <2>2. i # 1  BY <2>1, <1>4, <1>7
  <2>3. i - 1 \in 1..(Len(s) - 1) /\ (i - 1) + 1 = i
    BY <2>2, <1>2
  <2>4. Tail(s)[i - 1] = s[i]
    BY <2>3, <1>1
  <2> QED  BY <2>1, <2>3, <2>4, <1>3 DEF Elements
<1>8. DistinctIn(Tail(s), U)
  <2> SUFFICES ASSUME NEW i \in 1..(Len(s) - 1), NEW j \in 1..(Len(s) - 1),
                      Tail(s)[i] \in U, Tail(s)[i] = Tail(s)[j]
               PROVE  i = j
    BY <1>3 DEF DistinctIn
  <2>1. i + 1 \in 1..Len(s) /\ j + 1 \in 1..Len(s)
    BY <1>2
  <2>2. s[i + 1] = s[j + 1] /\ s[i + 1] \in U
    BY <1>1
  <2>3. i + 1 = j + 1
    BY <2>1, <2>2, <1>3 DEF DistinctIn
  <2> QED  BY <2>3
<1> QED  BY <1>1, <1>5, <1>6, <1>7, <1>8

(* A non-empty set of naturals has a least element.                        *)
LEMMA LeastNat ==
    ASSUME NEW U \in SUBSET Nat, U # {}
    PROVE  \E m \in U : \A k \in U : m <= k
<1>1. PICK R : R = OpToRel(<, Nat)
  BY Zenon
<1>2. R = {ss \in Nat \X Nat : ss[1] < ss[2]}
  BY <1>1, Zenon DEF OpToRel
<1>3. PICK m \in U : \A k \in U : <<k, m>> \notin R
  BY <1>1, NatLessThanWellFounded, WFMin, Zenon
<1>4. ASSUME NEW k \in U PROVE m <= k
  <2>1. m \in Nat /\ k \in Nat
    OBVIOUS
  <2>2. ~(k < m)
    BY <1>2, <1>3, <2>1, Zenon
  <2> QED  BY <2>1, <2>2
<1> QED  BY <1>4, Zenon

-----------------------------------------------------------------------------
(*                        Joining sequences                               *)

(* Concatenation, kept folded in the proofs below.                         *)
Cat(s, t) == s \o t

(* g joins the sequences ss one after the other.                           *)
Joins(ss, g, S) ==
    /\ g \in [0..Len(ss) -> Seq(S)] /\ g[0] = <<>>
    /\ \A i \in 1..Len(ss) : g[i] = Cat(g[i - 1], ss[i])

(* What is known of a sequence over a set.                                 *)
LEMMA LenProperties ==
    ASSUME NEW S, NEW seq \in Seq(S)
    PROVE  Len(seq) \in Nat /\ seq \in [1..Len(seq) -> S] /\ DOMAIN seq = 1..Len(seq)
OBVIOUS

(* Its elements ...                                                        *)
LEMMA ElementOfSeq ==
    ASSUME NEW S, NEW seq \in Seq(S), NEW n \in 1..Len(seq)
    PROVE  seq[n] \in S
OBVIOUS

(* ... of which only the empty one has none.                               *)
LEMMA EmptySeq ==
    ASSUME NEW S
    PROVE  /\ <<>> \in Seq(S) /\ Len(<<>>) = 0
           /\ \A seq \in Seq(S) : seq # <<>> => Len(seq) \in Nat \ {0}
OBVIOUS

(* Sequences with the same elements are the same.                          *)
LEMMA SeqEqual ==
    ASSUME NEW S, NEW s \in Seq(S), NEW t \in Seq(S),
           Len(s) = Len(t), \A i \in 1..Len(s) : s[i] = t[i]
    PROVE  s = t
OBVIOUS

(* Concatenation of sequences over a set.                                  *)
LEMMA CatType ==
    ASSUME NEW S, NEW s \in Seq(S), NEW t \in Seq(S)
    PROVE  /\ Cat(s, t) \in Seq(S) /\ Len(Cat(s, t)) = Len(s) + Len(t)
           /\ Cat(<<>>, s) = s /\ Cat(s, <<>>) = s
BY DEF Cat

(* Concatenation is associative.                                           *)
LEMMA CatAssociative ==
    ASSUME NEW S
    PROVE  \A s, t, u \in Seq(S) : Cat(Cat(s, t), u) = Cat(s, Cat(t, u))
BY DEF Cat

(* The elements of a concatenation, and a sequence that has them.          *)
LEMMA CatElements ==
    ASSUME NEW S, NEW s \in Seq(S), NEW t \in Seq(S)
    PROVE  /\ \A i \in 1..Len(s) : Cat(s, t)[i] = s[i]
           /\ \A i \in 1..Len(t) : Cat(s, t)[Len(s) + i] = t[i]
BY DEF Cat

(* A sequence with the elements of s and then those of t joins them.       *)
LEMMA CatEqual ==
    ASSUME NEW S, NEW s \in Seq(S), NEW t \in Seq(S), NEW u \in Seq(S),
           Len(u) = Len(s) + Len(t),
           \A i \in 1..Len(s) : u[i] = s[i],
           \A i \in 1..Len(t) : u[Len(s) + i] = t[i]
    PROVE  Cat(s, t) = u
<1>1. PICK v \in Seq(S) : v = Cat(s, t)
  BY CatType, Zenon
<1>2. PICK n \in Nat : n = Len(s)
  BY LenProperties, Zenon
<1>3. PICK m \in Nat : m = Len(t)
  BY LenProperties, Zenon
<1>4. Len(v) = n + m /\ Len(u) = n + m
  BY <1>1, <1>2, <1>3, CatType, Zenon
<1>5. /\ \A i \in 1..n : v[i] = s[i] /\ u[i] = s[i]
      /\ \A i \in 1..m : v[n + i] = t[i] /\ u[n + i] = t[i]
  <2>1. /\ \A i \in 1..Len(s) : Cat(s, t)[i] = s[i]
        /\ \A i \in 1..Len(t) : Cat(s, t)[Len(s) + i] = t[i]
    BY CatElements
  <2> QED  BY <1>1, <1>2, <1>3, <2>1
<1>6. ASSUME NEW i \in 1..(n + m) PROVE v[i] = u[i]
  <2>1. CASE i \in 1..n
    BY <1>5, <2>1, Zenon
  <2>2. CASE i \notin 1..n
    <3>1. i - n \in 1..m /\ i = n + (i - n)
      BY <1>2, <1>3, <2>2
    <3> QED  BY <1>5, <3>1, Zenon
  <2> QED  BY <2>1, <2>2, Zenon
<1>7. v = u
  BY <1>4, <1>6, SeqEqual, Zenon
<1> QED  BY <1>1, <1>7, Zenon

(* Sequences can be joined ...                                             *)
LEMMA JoinsExists ==
    ASSUME NEW S, NEW ss \in Seq(Seq(S))
    PROVE  \E g : Joins(ss, g, S)
<1>1. PICK n : n = Len(ss)
  BY Zenon
<1>2. n \in Nat /\ \A i \in 1..n : ss[i] \in Seq(S)
  BY <1>1
<1> DEFINE Up(k) == \E g \in [0..k -> Seq(S)] :
                       g[0] = <<>> /\ \A i \in 1..k : g[i] = Cat(g[i - 1], ss[i])
<1>3. Up(0)
  <2>1. PICK g : g = [i \in 0..0 |-> <<>>]
    BY Zenon
  <2>2. g \in [0..0 -> Seq(S)] /\ g[0] = <<>>
    BY <2>1
  <2>3. \A i \in 1..0 : FALSE
    OBVIOUS
  <2> QED  BY <2>2, <2>3, Zenon
<1>4. ASSUME NEW k \in 0..n, k # n, Up(k) PROVE Up(k + 1)
  <2>1. PICK g \in [0..k -> Seq(S)] :
               g[0] = <<>> /\ \A i \in 1..k : g[i] = Cat(g[i - 1], ss[i])
    BY <1>4, Zenon
  <2>2. k \in Nat /\ k + 1 \in 1..n /\ k \in 0..k
    BY <1>2, <1>4
  <2>3. PICK c \in Seq(S) : c = Cat(g[k], ss[k + 1])
    BY <1>2, <2>1, <2>2, CatType, Zenon
  <2>4. PICK h : h = [i \in 0..(k + 1) |-> IF i = k + 1 THEN c ELSE g[i]]
    BY Zenon
  <2>5. h \in [0..(k + 1) -> Seq(S)] /\ h[0] = <<>>
    BY <2>1, <2>2, <2>3, <2>4
  <2>6. ASSUME NEW i \in 1..(k + 1) PROVE h[i] = Cat(h[i - 1], ss[i])
    <3>1. CASE i = k + 1
      <4>1. h[i] = c /\ h[i - 1] = g[k]
        BY <2>1, <2>2, <2>4, <3>1
      <4> QED  BY <2>3, <3>1, <4>1, Zenon
    <3>2. CASE i # k + 1
      <4>1. i \in 1..k /\ h[i] = g[i] /\ h[i - 1] = g[i - 1]
        BY <2>1, <2>2, <2>4, <3>2
      <4> QED  BY <2>1, <4>1, Zenon
    <3> QED  BY <3>1, <3>2, Zenon
  <2> QED  BY <2>5, <2>6, Zenon
<1> HIDE DEF Up
<1>5. Up(n)
  <2> SUFFICES ASSUME ~Up(n) PROVE FALSE
    OBVIOUS
  <2>1. PICK U : U = {k \in 0..n : ~Up(k)}
    BY Zenon
  <2>2. U \in SUBSET Nat /\ U # {}
    BY <1>2, <2>1
  <2>3. PICK m \in U : \A k \in U : m <= k
    BY <2>2, LeastNat, Zenon
  <2>4. m \in 0..n /\ ~Up(m)
    BY <2>1, Zenon
  <2>5. m # 0
    BY <1>3, <2>4, Zenon
  <2>6. m - 1 \in 0..n /\ m - 1 # n /\ ~(m <= m - 1) /\ m = (m - 1) + 1
    BY <1>2, <2>4, <2>5
  <2>7. Up(m - 1)
    BY <2>1, <2>3, <2>6, Zenon
  <2>8. Up((m - 1) + 1)
    BY <1>4, <2>6, <2>7, Zenon
  <2> QED  BY <2>4, <2>6, <2>8, Zenon
<1> QED  BY <1>1, <1>5, Zenon DEF Joins, Up

(* ... and Joined is what they are joined to.                          *)
LEMMA JoinedIs ==
    ASSUME NEW S, NEW ss \in Seq(Seq(S)), NEW g, Joins(ss, g, S)
    PROVE  Joined(ss) = g[Len(ss)]
<1>1. PICK n \in Nat : n = Len(ss)
  BY LenProperties, Zenon
<1>2. /\ g \in [0..n -> Seq(S)] /\ g[0] = <<>>
      /\ \A i \in 1..n : g[i] = Cat(g[i - 1], ss[i])
  BY <1>1, Zenon DEF Joins
<1> DEFINE Step(h) == [i \in 0..n |-> IF i = 0 THEN <<>> ELSE Cat(h[i - 1], ss[i])]
<1>3. \A i \in 0..n : i = 0 \/ (i \in 1..n /\ i - 1 \in 0..n)
  BY <1>1
<1>4. g = Step(g)
  <2>1. \A i \in 0..n : g[i] = IF i = 0 THEN <<>> ELSE Cat(g[i - 1], ss[i])
    BY <1>2, <1>3, Zenon
  <2>2. g = [i \in 0..n |-> g[i]]
    BY <1>2, Zenon
  <2> QED  BY <2>1, <2>2, Zenon
<1>5. PICK f : f = CHOOSE h : h = Step(h)
  BY Zenon
<1>6. Joined(ss) = f[n]
  BY <1>1, <1>5, Zenon DEF Joined, Cat
<1>7. f = Step(f)
  BY <1>4, <1>5, Zenon
<1>8. \A i \in 0..n : f[i] = IF i = 0 THEN <<>> ELSE Cat(f[i - 1], ss[i])
  BY <1>7, Zenon
<1> HIDE DEF Step
<1>9. \A i \in 0..n : f[i] = g[i]
  <2> SUFFICES ASSUME NEW j \in 0..n, f[j] # g[j] PROVE FALSE
    OBVIOUS
  <2>1. PICK U : U = {k \in 0..n : f[k] # g[k]}
    BY Zenon
  <2>2. U \in SUBSET Nat /\ U # {}
    <3>1. j \in U
      BY <2>1, Zenon
    <3>2. U \subseteq 0..n
      BY <2>1, Zenon
    <3>3. 0..n \subseteq Nat
      OBVIOUS
    <3> QED  BY <3>1, <3>2, <3>3
  <2>3. PICK m \in U : \A k \in U : m <= k
    BY <2>2, LeastNat, Zenon
  <2>4. m \in 0..n /\ f[m] # g[m]
    BY <2>1, Zenon
  <2>5. m # 0
    BY <1>2, <1>8, <2>4, Zenon
  <2>6. m \in 1..n /\ m - 1 \in 0..n /\ ~(m <= m - 1)
    BY <1>1, <2>4, <2>5
  <2>7. f[m - 1] = g[m - 1]
    BY <2>1, <2>3, <2>6, Zenon
  <2>8. f[m] = Cat(f[m - 1], ss[m]) /\ g[m] = Cat(g[m - 1], ss[m])
    BY <1>2, <1>8, <2>4, <2>5, <2>6, Zenon
  <2> QED  BY <2>4, <2>7, <2>8, Zenon
<1>10. n \in 0..n
  BY <1>1
<1> QED  BY <1>1, <1>6, <1>9, <1>10, Zenon

(* Joining gives a sequence over the same set.                          *)
LEMMA JoinedType ==
    ASSUME NEW S, NEW ss \in Seq(Seq(S))
    PROVE  Joined(ss) \in Seq(S)
<1>1. PICK g : Joins(ss, g, S)
  BY JoinsExists, Zenon
<1>2. Len(ss) \in 0..Len(ss)
  OBVIOUS
<1>3. g \in [0..Len(ss) -> Seq(S)]
  BY <1>1, Zenon DEF Joins
<1>4. Joined(ss) = g[Len(ss)]
  BY <1>1, JoinedIs, Zenon
<1> QED  BY <1>2, <1>3, <1>4, Zenon

(* Nothing joins to nothing.                                            *)
LEMMA JoinedEmpty == Joined(<<>>) = <<>>
<1>1. PICK g : g = [i \in 0..0 |-> <<>>]
  BY Zenon
<1>2. g \in [0..0 -> Seq({})] /\ g[0] = <<>>
  BY <1>1
<1>3. <<>> \in Seq(Seq({})) /\ Len(<<>>) = 0 /\ \A i \in 1..0 : FALSE
  OBVIOUS
<1>4. Joins(<<>>, g, {})
  BY <1>2, <1>3, Zenon DEF Joins
<1> QED  BY <1>2, <1>3, <1>4, JoinedIs, Zenon

(* One sequence is joined to itself.                                       *)
LEMMA JoinedOne ==
    ASSUME NEW S, NEW s \in Seq(S)
    PROVE  Joined(<<s>>) = s
<1>1. PICK ss : ss = <<s>>
  BY Zenon
<1>2. ss \in Seq(Seq(S)) /\ Len(ss) = 1 /\ ss[1] = s
  BY <1>1
<1>3. PICK g : g = [i \in 0..1 |-> IF i = 0 THEN <<>> ELSE s]
  BY Zenon
<1>4. <<>> \in Seq(S) /\ Cat(<<>>, s) = s
  BY CatType, EmptySeq, Zenon
<1>5. g \in [0..1 -> Seq(S)] /\ g[0] = <<>> /\ g[1] = s
  <2>1. g \in [0..1 -> Seq(S)]
    BY <1>3, <1>4, Zenon
  <2>2. 0 \in 0..1 /\ 1 \in 0..1 /\ 1 # 0
    OBVIOUS
  <2> QED  BY <1>3, <2>1, <2>2, Zenon
<1>6. \A i \in 1..1 : g[i] = Cat(g[i - 1], ss[i])
  <2>1. \A i \in 1..1 : i = 1 /\ i - 1 = 0
    OBVIOUS
  <2> QED  BY <1>2, <1>4, <1>5, <2>1, Zenon
<1>7. Joins(ss, g, S)
  BY <1>2, <1>5, <1>6, Zenon DEF Joins
<1> QED  BY <1>1, <1>2, <1>5, <1>7, JoinedIs, Zenon

(* Joining distributes over concatenation.                              *)
LEMMA JoinedConcat ==
    ASSUME NEW S, NEW ss \in Seq(Seq(S)), NEW tt \in Seq(Seq(S))
    PROVE  Joined(ss \o tt) = Joined(ss) \o Joined(tt)
<1>0. \A s, t, u \in Seq(S) : Cat(Cat(s, t), u) = Cat(s, Cat(t, u))
  BY CatAssociative, SMT
<1>1. PICK g : Joins(ss, g, S)
  BY JoinsExists, Zenon
<1>2. PICK h : Joins(tt, h, S)
  BY JoinsExists, Zenon
<1>3. PICK n : n = Len(ss)
  BY Zenon
<1>4. PICK m : m = Len(tt)
  BY Zenon
<1>5. PICK uu \in Seq(Seq(S)) : uu = ss \o tt
  BY CatType, Zenon DEF Cat
<1>6. /\ n \in Nat /\ m \in Nat /\ Len(uu) = n + m
      /\ \A i \in 1..n : uu[i] = ss[i]
      /\ \A i \in 1..m : uu[n + i] = tt[i]
  BY <1>3, <1>4, <1>5
<1>7. /\ g \in [0..n -> Seq(S)] /\ g[0] = <<>>
      /\ \A i \in 1..n : g[i] = Cat(g[i - 1], ss[i])
  BY <1>1, <1>3, Zenon DEF Joins
<1>8. /\ h \in [0..m -> Seq(S)] /\ h[0] = <<>>
      /\ \A i \in 1..m : h[i] = Cat(h[i - 1], tt[i])
  BY <1>2, <1>4, Zenon DEF Joins
<1>9. PICK last \in Seq(S) : last = g[n]
  <2>1. n \in 0..n
    BY <1>6
  <2> QED  BY <1>7, <2>1, Zenon
<1>10. PICK k : k = [i \in 0..(n + m) |-> IF i <= n THEN g[i] ELSE Cat(last, h[i - n])]
  BY Zenon
<1>11. \A i \in 0..(n + m) : i \in 0..n => k[i] = g[i]
  BY <1>6, <1>10
<1>12. ASSUME NEW i \in 0..m PROVE n + i \in 0..(n + m) /\ k[n + i] = Cat(last, h[i])
  <2>1. n + i \in 0..(n + m) /\ (n + i <= n <=> i = 0) /\ (n + i) - n = i
    BY <1>6
  <2>2. CASE i = 0
    <3>1. n + i = n /\ n \in 0..n
      BY <1>6, <2>2
    <3> QED  BY <1>8, <1>9, <1>11, <2>1, <2>2, <3>1, CatType, Zenon
  <2> QED  BY <1>10, <2>1, <2>2, Zenon
<1>13. k \in [0..(n + m) -> Seq(S)]
  <2> SUFFICES ASSUME NEW i \in 0..(n + m) PROVE k[i] \in Seq(S)
    BY <1>10, Zenon
  <2>1. i \in 0..n \/ (i - n \in 0..m /\ n + (i - n) = i)
    BY <1>6
  <2>2. CASE i \in 0..n
    BY <1>7, <1>11, <2>2, Zenon
  <2>3. CASE i - n \in 0..m /\ n + (i - n) = i
    <3>1. k[i] = Cat(last, h[i - n]) /\ h[i - n] \in Seq(S)
      BY <1>8, <1>12, <2>3, Zenon
    <3> QED  BY <3>1, CatType, Zenon
  <2> QED  BY <2>1, <2>2, <2>3, Zenon
<1>14. ASSUME NEW i \in 1..(n + m) PROVE k[i] = Cat(k[i - 1], uu[i])
  <2>1. CASE i \in 1..n
    <3>1. {i, i - 1} \subseteq 0..n /\ {i, i - 1} \subseteq 0..(n + m)
      BY <1>6, <2>1
    <3>2. k[i] = g[i] /\ k[i - 1] = g[i - 1]
      BY <1>11, <3>1, Zenon
    <3> QED  BY <1>6, <1>7, <2>1, <3>2, Zenon
  <2>2. CASE i \notin 1..n
    <3>1. PICK j \in 1..m : i = n + j
      BY <1>6, <2>2
    <3>2. j \in 0..m /\ j - 1 \in 0..m /\ i - 1 = n + (j - 1)
      BY <1>6, <3>1
    <3>3. k[i] = Cat(last, h[j]) /\ k[i - 1] = Cat(last, h[j - 1]) /\ uu[i] = tt[j]
      BY <1>6, <1>12, <3>1, <3>2, Zenon
    <3>4. h[j] = Cat(h[j - 1], tt[j]) /\ h[j - 1] \in Seq(S)
      BY <1>8, <3>2, Zenon
    <3>5. tt[j] \in Seq(S)
      BY <1>4, <3>1
    <3>6. Cat(Cat(last, h[j - 1]), tt[j]) = Cat(last, Cat(h[j - 1], tt[j]))
      BY <1>0, <1>9, <3>4, <3>5, Zenon
    <3> QED  BY <3>3, <3>4, <3>6, Zenon
  <2> QED  BY <2>1, <2>2, Zenon
<1>15. k[0] = <<>>
  <2>1. 0 \in 0..n /\ 0 \in 0..(n + m)
    BY <1>6
  <2> QED  BY <1>7, <1>11, <2>1, Zenon
<1>16. Joins(uu, k, S)
  BY <1>6, <1>13, <1>14, <1>15, Zenon DEF Joins
<1>17. Joined(uu) = k[n + m]
  BY <1>6, <1>16, JoinedIs, Zenon
<1>18. m \in 0..m
  BY <1>6
<1>19. k[n + m] = Cat(last, h[m])
  BY <1>12, <1>18, Zenon
<1>20. Joined(ss) = last /\ Joined(tt) = h[m]
  BY <1>1, <1>2, <1>3, <1>4, <1>9, JoinedIs, Zenon
<1> QED  BY <1>5, <1>17, <1>19, <1>20, Zenon DEF Cat

(* Longer parts join to a longer sequence.                              *)
LEMMA JoinedLonger ==
    ASSUME NEW S, NEW ss \in Seq(Seq(S)), NEW tt \in Seq(Seq(S)), Len(ss) = Len(tt),
           \A i \in 1..Len(ss) : Len(ss[i]) <= Len(tt[i])
    PROVE  Len(Joined(ss)) <= Len(Joined(tt))
<1>1. PICK g : Joins(ss, g, S)
  BY JoinsExists, Zenon
<1>2. PICK h : Joins(tt, h, S)
  BY JoinsExists, Zenon
<1>3. PICK n : n = Len(ss)
  BY Zenon
<1>4. n \in Nat /\ \A i \in 1..n : ss[i] \in Seq(S) /\ tt[i] \in Seq(S)
  BY <1>3
<1>5. /\ g \in [0..n -> Seq(S)] /\ g[0] = <<>>
      /\ \A i \in 1..n : g[i] = Cat(g[i - 1], ss[i])
  BY <1>1, <1>3, Zenon DEF Joins
<1>6. /\ h \in [0..n -> Seq(S)] /\ h[0] = <<>>
      /\ \A i \in 1..n : h[i] = Cat(h[i - 1], tt[i])
  BY <1>2, <1>3, Zenon DEF Joins
<1>7. \A i \in 0..n : Len(g[i]) <= Len(h[i])
  <2> SUFFICES ASSUME NEW j \in 0..n, ~(Len(g[j]) <= Len(h[j])) PROVE FALSE
    OBVIOUS
  <2>1. PICK U : U = {k \in 0..n : ~(Len(g[k]) <= Len(h[k]))}
    BY Zenon
  <2>2. U \in SUBSET Nat /\ U # {}
    <3>1. j \in U
      BY <2>1, Zenon
    <3>2. U \subseteq 0..n
      BY <2>1, Zenon
    <3>3. 0..n \subseteq Nat
      BY <1>4
    <3> QED  BY <3>1, <3>2, <3>3
  <2>3. PICK m \in U : \A k \in U : m <= k
    BY <2>2, LeastNat, Zenon
  <2>4. m \in 0..n /\ ~(Len(g[m]) <= Len(h[m]))
    BY <2>1, Zenon
  <2>5. m # 0
    <3>1. Len(<<>>) <= Len(<<>>)
      OBVIOUS
    <3> QED  BY <1>5, <1>6, <2>4, <3>1, Zenon
  <2>6. m \in 1..n /\ m - 1 \in 0..n /\ ~(m <= m - 1)
    BY <1>4, <2>4, <2>5
  <2>7. Len(g[m - 1]) <= Len(h[m - 1])
    BY <2>1, <2>3, <2>6, Zenon
  <2>8. g[m] = Cat(g[m - 1], ss[m]) /\ h[m] = Cat(h[m - 1], tt[m])
    BY <1>5, <1>6, <2>6, Zenon
  <2>9. g[m - 1] \in Seq(S) /\ h[m - 1] \in Seq(S) /\ ss[m] \in Seq(S) /\ tt[m] \in Seq(S)
    BY <1>4, <1>5, <1>6, <2>6, Zenon
  <2>10. /\ Len(g[m]) = Len(g[m - 1]) + Len(ss[m])
         /\ Len(h[m]) = Len(h[m - 1]) + Len(tt[m])
    <3>1. \A s, t \in Seq(S) : Len(Cat(s, t)) = Len(s) + Len(t)
      BY CatType, Zenon
    <3>2. Len(Cat(g[m - 1], ss[m])) = Len(g[m - 1]) + Len(ss[m])
      BY <2>9, <3>1, Zenon
    <3>3. Len(Cat(h[m - 1], tt[m])) = Len(h[m - 1]) + Len(tt[m])
      BY <2>9, <3>1, Zenon
    <3> QED  BY <2>8, <3>2, <3>3, Zenon
  <2>11. Len(ss[m]) <= Len(tt[m])
    BY <1>3, <2>6, Zenon
  <2>12. PICK a \in Nat : a = Len(g[m - 1])
    BY <2>9, LenProperties, Zenon
  <2>13. PICK b \in Nat : b = Len(h[m - 1])
    BY <2>9, LenProperties, Zenon
  <2>14. PICK c \in Nat : c = Len(ss[m])
    BY <2>9, LenProperties, Zenon
  <2>15. PICK d \in Nat : d = Len(tt[m])
    BY <2>9, LenProperties, Zenon
  <2>16. a <= b /\ c <= d /\ ~(a + c <= b + d)
    BY <2>4, <2>7, <2>10, <2>11, <2>12, <2>13, <2>14, <2>15, Zenon
  <2> QED  BY <2>16
<1>8. n \in 0..n
  BY <1>4
<1> QED  BY <1>1, <1>2, <1>3, <1>7, <1>8, JoinedIs, Zenon
=============================================================================
