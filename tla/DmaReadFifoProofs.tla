-------------------------- MODULE DmaReadFifoProofs -------------------------
(***************************************************************************)
(* Proofs about DmaReadFifo, for FIFOs, requests, blocks and reads of any  *)
(* size.  All four invariants follow from one: what the members hold fits  *)
(* together (Good), in timing and in functional mode.  resumeFill keeps    *)
(* it, from whatever values of the members it is called with; the actions  *)
(* only have to show that those values fit.                                *)
(***************************************************************************)
EXTENDS DmaReadFifo, QueueLemmas

(*                        The inductive invariant                          *)

Word == (Nat \ {0}) \X (Nat \ {0})
Request == [block : Nat \ {0}, from : Nat, to : Nat, done : BOOLEAN,
            canceled : BOOLEAN]

Seen(lr) == IF lr = <<0, 0>> THEN <<>> ELSE <<lr>>

(* The word w comes right after v.                                         *)
Follows(v, w) == \/ w = <<v[1], v[2] + 1>>
                 \/ w[1] > v[1] /\ w[2] = 1
InOrder(s) == \A i \in 1..(Len(s) - 1) : Follows(s[i], s[i + 1])

(* Everything of s is of a block up to b, and s was fetched up to next.    *)
Reached(s, b, next, end) ==
    /\ \A i \in 1..Len(s) : s[i][1] <= b
    /\ s # <<>> /\ next # end =>
           (s[Len(s)] = <<b, next>> \/ (s[Len(s)][1] < b /\ next = 0))
After(s, ab) == \A i \in 1..Len(s) : s[i][1] > ab

(* The words str that the FIFO holds or waits for, after the last one read *)
(* (lr) and after the aborted block (ab).                                  *)
Order(str, b, next, end, lr, ab) ==
    /\ InOrder(Cat(Seen(lr), str))
    /\ Reached(Cat(Seen(lr), str), b, next, end)
    /\ After(str, ab)
    /\ ab <= b /\ (next # end => ab < b)

Typed(buf, pend, free, b, next, end) ==
    /\ buf \in Seq(Word) /\ pend \in Seq(Request) /\ free \in Nat
    /\ b \in Nat /\ next \in Nat /\ end \in Nat /\ next <= end

Room(buf, pend, free) ==
    /\ Len(buf) + SizePending(pend) <= fifoSize
    /\ free + Len(pend) = maxPending

LastWord == Word \cup {<<0, 0>>}

Good(buf, pend, free, b, next, end, lr, ab) ==
    /\ Typed(buf, pend, free, b, next, end)
    /\ lr \in LastWord /\ ab \in Nat
    /\ Room(buf, pend, free)
    /\ Order(Cat(buf, Wanted(pend)), b, next, end, lr, ab)

(* With the caches bypassed, and in a stopped system, nothing is pending.  *)
Modes ==
    /\ {bypassCaches, stopped, inDmaDone, idleOwed, silentEnd} \subseteq BOOLEAN
    /\ bypassCaches => pendingRequests = <<>>
    /\ stopped => pendingRequests = <<>> /\ ~inDmaDone /\ callback = "none"

IInv ==
    /\ Good(buffer, pendingRequests, freeRequests, block, nextAddr, endAddr,
            lastRead, aborted)
    /\ Modes
    /\ idleOwed => isActive \/ inDmaDone \/ silentEnd

-----------------------------------------------------------------------------
(*                     The words requests stand for                        *)

(* The words of a stretch of a block ...                                   *)
LEMMA WordsType ==
    ASSUME NEW b \in Nat \ {0}, NEW from \in Nat, NEW to \in Nat
    PROVE  /\ Words(b, from, to) \in Seq(Word)
           /\ from <= to => Len(Words(b, from, to)) = to - from
           /\ from >= to => Words(b, from, to) = <<>>
           /\ \A k \in 1..Len(Words(b, from, to)) :
                  Words(b, from, to)[k] = <<b, from + k>>
<1>1. \A k \in 1..(to - from) : <<b, from + k>> \in Word
  BY DEF Word
<1>2. CASE from <= to
  <2>1. PICK n \in Nat : n = to - from
    BY <1>2
  <2>2. Words(b, from, to) = [k \in 1..n |-> <<b, from + k>>]
    BY <2>1, Zenon DEF Words
  <2>3. [k \in 1..n |-> <<b, from + k>>] \in Seq(Word)
    BY <1>1, <2>1
  <2>4. Len([k \in 1..n |-> <<b, from + k>>]) = n
    BY <2>1
  <2>5. from >= to => n = 0
    BY <1>2, <2>1
  <2>6. n = 0 => [k \in 1..n |-> <<b, from + k>>] = <<>>
    BY <2>3, <2>4, EmptySeq
  <2> QED  BY <2>1, <2>2, <2>3, <2>4, <2>5, <2>6, Zenon
<1>3. CASE from > to
  <2>1. 1..(to - from) = 1..0
    BY <1>3
  <2>2. Words(b, from, to) = [k \in 1..0 |-> <<b, from + k>>]
    BY <2>1, Zenon DEF Words
  <2>3. Words(b, from, to) = <<>>
    BY <2>2
  <2> QED  BY <1>3, <2>3
<1> QED  BY <1>2, <1>3

(* ... are those up to a place in it and those from there on.              *)
LEMMA WordsSplit ==
    ASSUME NEW b \in Nat \ {0}, NEW from \in Nat, NEW mid \in Nat, NEW to \in Nat,
           from <= mid, mid <= to
    PROVE  Cat(Words(b, from, mid), Words(b, mid, to)) = Words(b, from, to)
<1>1. PICK s \in Seq(Word) : s = Words(b, from, mid)
  BY WordsType, Zenon
<1>2. PICK t \in Seq(Word) : t = Words(b, mid, to)
  BY WordsType, Zenon
<1>3. PICK u \in Seq(Word) : u = Words(b, from, to)
  BY WordsType, Zenon
<1>4. PICK n \in Nat : n = mid - from
  OBVIOUS
<1>5. PICK m \in Nat : m = to - mid
  OBVIOUS
<1>6. from <= to /\ to - from = n + m /\ \A k \in 1..m : from + (n + k) = mid + k
  BY <1>4, <1>5
<1>7. Len(s) = n /\ \A k \in 1..(n) : s[k] = <<b, from + k>>
  <2>1. /\ Len(Words(b, from, mid)) = mid - from
        /\ \A k \in 1..Len(Words(b, from, mid)) : Words(b, from, mid)[k] = <<b, from + k>>
    BY WordsType, Zenon
  <2> QED  BY <1>1, <1>4, <2>1, Zenon
<1>8. Len(t) = m /\ \A k \in 1..(m) : t[k] = <<b, mid + k>>
  <2>1. /\ Len(Words(b, mid, to)) = to - mid
        /\ \A k \in 1..Len(Words(b, mid, to)) : Words(b, mid, to)[k] = <<b, mid + k>>
    BY WordsType, Zenon
  <2> QED  BY <1>2, <1>5, <2>1, Zenon
<1>9. Len(u) = n + m /\ \A k \in 1..(n + m) : u[k] = <<b, from + k>>
  <2>1. /\ Len(Words(b, from, to)) = to - from
        /\ \A k \in 1..Len(Words(b, from, to)) : Words(b, from, to)[k] = <<b, from + k>>
    BY <1>6, WordsType, Zenon
  <2> QED  BY <1>3, <1>6, <2>1, Zenon
<1>10. \A k \in 1..n : k \in 1..(n + m)
  BY <1>4, <1>5
<1>11. \A k \in 1..m : n + k \in 1..(n + m)
  BY <1>4, <1>5
<1>12. /\ \A k \in 1..n : u[k] = s[k]
       /\ \A k \in 1..m : u[n + k] = t[k]
  BY <1>6, <1>7, <1>8, <1>9, <1>10, <1>11, Zenon
<1>13. /\ Len(u) = Len(s) + Len(t)
       /\ \A k \in 1..Len(s) : u[k] = s[k]
       /\ \A k \in 1..Len(t) : u[Len(s) + k] = t[k]
  BY <1>7, <1>8, <1>9, <1>12, Zenon
<1>14. Cat(s, t) = u
  BY <1>13, CatEqual, Zenon
<1> QED  BY <1>1, <1>2, <1>3, <1>14, Zenon

(* What a request asked for, and what of it is kept.                       *)
LEMMA RequestWords ==
    ASSUME NEW r \in Request
    PROVE  /\ WordsOf(r) \in Seq(Word) /\ Kept(r) \in Seq(Word)
           /\ Len(Kept(r)) <= Len(WordsOf(r))
<1>1. r.block \in Nat \ {0} /\ r.from \in Nat /\ r.to \in Nat
  BY DEF Request
<1>2. PICK w \in Seq(Word) : w = WordsOf(r)
  BY <1>1, WordsType, Zenon DEF WordsOf
<1>3. <<>> \in Seq(Word) /\ Len(<<>>) <= Len(w) /\ Len(w) <= Len(w)
  BY <1>2
<1> QED  BY <1>2, <1>3, Zenon DEF Kept

(* The words request by request.                                           *)
EachAsked(p) == [i \in DOMAIN p |-> WordsOf(p[i])]
EachKept(p) == [i \in DOMAIN p |-> Kept(p[i])]

(* The requests' words, one sequence of words for each request.            *)
LEMMA EachType ==
    ASSUME NEW p \in Seq(Request)
    PROVE  /\ EachAsked(p) \in Seq(Seq(Word)) /\ EachKept(p) \in Seq(Seq(Word))
           /\ Len(EachAsked(p)) = Len(p) /\ Len(EachKept(p)) = Len(p)
           /\ \A i \in 1..Len(p) : EachAsked(p)[i] = WordsOf(p[i]) /\ EachKept(p)[i] = Kept(p[i])
           /\ Asked(p) = Joined(EachAsked(p)) /\ Wanted(p) = Joined(EachKept(p))
<1>1. PICK n \in Nat : n = Len(p)
  BY LenProperties, Zenon
<1>2. DOMAIN p = 1..n
  BY <1>1, LenProperties, Zenon
<1>3. \A i \in 1..n : p[i] \in Request
  BY <1>1, ElementOfSeq, Zenon
<1>4. PICK V : V = Seq(Word)
  BY Zenon
<1>5. \A i \in 1..n : WordsOf(p[i]) \in V /\ Kept(p[i]) \in V
  BY <1>3, <1>4, RequestWords, Zenon
<1>6. /\ EachAsked(p) = [i \in 1..n |-> WordsOf(p[i])]
      /\ EachKept(p) = [i \in 1..n |-> Kept(p[i])]
  BY <1>2, Zenon DEF EachAsked, EachKept
<1>7. /\ EachAsked(p) \in Seq(V) /\ Len(EachAsked(p)) = n
      /\ EachKept(p) \in Seq(V) /\ Len(EachKept(p)) = n
  BY <1>5, <1>6
<1>8. \A i \in 1..n : EachAsked(p)[i] = WordsOf(p[i]) /\ EachKept(p)[i] = Kept(p[i])
  BY <1>6, Zenon
<1>9. Asked(p) = Joined(EachAsked(p)) /\ Wanted(p) = Joined(EachKept(p))
  BY Zenon DEF Asked, Wanted, EachAsked, EachKept
<1> QED  BY <1>1, <1>4, <1>7, <1>8, <1>9, Zenon

(* What requests asked for and what is kept of it; canceled ones keep      *)
(* their share of the room.                                                *)
LEMMA AskedType ==
    ASSUME NEW p \in Seq(Request)
    PROVE  /\ Asked(p) \in Seq(Word) /\ Wanted(p) \in Seq(Word)
           /\ Len(Wanted(p)) <= Len(Asked(p))
<1>1. PICK ss : ss = EachKept(p)
  BY Zenon
<1>2. PICK tt : tt = EachAsked(p)
  BY Zenon
<1>3. /\ ss \in Seq(Seq(Word)) /\ tt \in Seq(Seq(Word))
      /\ Len(ss) = Len(p) /\ Len(tt) = Len(p)
      /\ \A i \in 1..Len(p) : tt[i] = WordsOf(p[i]) /\ ss[i] = Kept(p[i])
      /\ Asked(p) = Joined(tt) /\ Wanted(p) = Joined(ss)
  BY <1>1, <1>2, EachType, Zenon
<1>4. \A i \in 1..Len(p) : p[i] \in Request
  BY ElementOfSeq, Zenon
<1>5. \A i \in 1..Len(ss) : Len(ss[i]) <= Len(tt[i])
  BY <1>3, <1>4, RequestWords, Zenon
<1>6. Len(Joined(ss)) <= Len(Joined(tt))
  BY <1>3, <1>5, JoinedLonger, Zenon
<1>7. Joined(ss) \in Seq(Word) /\ Joined(tt) \in Seq(Word)
  BY <1>3, JoinedType, Zenon
<1> QED  BY <1>3, <1>6, <1>7, Zenon

(* One list of requests after another.                                     *)
LEMMA AskedConcat ==
    ASSUME NEW p \in Seq(Request), NEW q \in Seq(Request)
    PROVE  /\ Asked(Cat(p, q)) = Cat(Asked(p), Asked(q))
           /\ Wanted(Cat(p, q)) = Cat(Wanted(p), Wanted(q))
<1>1. PICK r \in Seq(Request) : r = Cat(p, q)
  BY CatType, Zenon
<1>2. PICK n \in Nat : n = Len(p)
  BY LenProperties, Zenon
<1>3. PICK m \in Nat : m = Len(q)
  BY LenProperties, Zenon
<1>4. Len(r) = n + m
  BY <1>1, <1>2, <1>3, CatType, Zenon
<1>5. /\ \A i \in 1..n : r[i] = p[i]
      /\ \A i \in 1..m : r[n + i] = q[i]
  <2>1. /\ \A i \in 1..Len(p) : Cat(p, q)[i] = p[i]
        /\ \A i \in 1..Len(q) : Cat(p, q)[Len(p) + i] = q[i]
    BY CatElements, SMT
  <2> QED  BY <1>1, <1>2, <1>3, <2>1, Zenon
<1>6. /\ \A i \in 1..n : i \in 1..(n + m)
      /\ \A i \in 1..m : n + i \in 1..(n + m)
  BY <1>2, <1>3
<1>6a. ASSUME NEW x \in Seq(Seq(Word)), NEW y \in Seq(Seq(Word)),
             NEW z \in Seq(Seq(Word)), Len(x) = n, Len(y) = m, Len(z) = n + m,
             \A i \in 1..n : z[i] = x[i], \A i \in 1..m : z[n + i] = y[i]
      PROVE  Cat(x, y) = z
  <2>1. Len(z) = Len(x) + Len(y)
    BY <1>6a, Zenon
  <2>2. \A i \in 1..Len(x) : z[i] = x[i]
    BY <1>6a, Zenon
  <2>3. \A i \in 1..Len(y) : z[Len(x) + i] = y[i]
    BY <1>6a, Zenon
  <2> QED  BY <2>1, <2>2, <2>3, CatEqual, Zenon
<1>7. Cat(EachAsked(p), EachAsked(q)) = EachAsked(r)
  <2>1. PICK x \in Seq(Seq(Word)) : x = EachAsked(p) /\ Len(x) = n /\ \A i \in 1..n : x[i] = WordsOf(p[i])
    BY <1>2, EachType, Zenon
  <2>2. PICK y \in Seq(Seq(Word)) : y = EachAsked(q) /\ Len(y) = m /\ \A i \in 1..m : y[i] = WordsOf(q[i])
    BY <1>3, EachType, Zenon
  <2>3. PICK z \in Seq(Seq(Word)) : z = EachAsked(r) /\ Len(z) = n + m /\ \A i \in 1..(n + m) : z[i] = WordsOf(r[i])
    BY <1>1, <1>4, EachType, Zenon
  <2>4. \A i \in 1..n : z[i] = x[i]
    BY <1>5, <1>6, <2>1, <2>3, Zenon
  <2>5. \A i \in 1..m : z[n + i] = y[i]
    BY <1>5, <1>6, <2>2, <2>3, Zenon
  <2>6. Cat(x, y) = z
    BY <1>6a, <2>1, <2>2, <2>3, <2>4, <2>5, Zenon
  <2> QED  BY <2>1, <2>2, <2>3, <2>6, Zenon
<1>8. Cat(EachKept(p), EachKept(q)) = EachKept(r)
  <2>1. PICK x \in Seq(Seq(Word)) : x = EachKept(p) /\ Len(x) = n /\ \A i \in 1..n : x[i] = Kept(p[i])
    BY <1>2, EachType, Zenon
  <2>2. PICK y \in Seq(Seq(Word)) : y = EachKept(q) /\ Len(y) = m /\ \A i \in 1..m : y[i] = Kept(q[i])
    BY <1>3, EachType, Zenon
  <2>3. PICK z \in Seq(Seq(Word)) : z = EachKept(r) /\ Len(z) = n + m /\ \A i \in 1..(n + m) : z[i] = Kept(r[i])
    BY <1>1, <1>4, EachType, Zenon
  <2>4. \A i \in 1..n : z[i] = x[i]
    BY <1>5, <1>6, <2>1, <2>3, Zenon
  <2>5. \A i \in 1..m : z[n + i] = y[i]
    BY <1>5, <1>6, <2>2, <2>3, Zenon
  <2>6. Cat(x, y) = z
    BY <1>6a, <2>1, <2>2, <2>3, <2>4, <2>5, Zenon
  <2> QED  BY <2>1, <2>2, <2>3, <2>6, Zenon
<1>9. \A ss, tt \in Seq(Seq(Word)) : Joined(Cat(ss, tt)) = Cat(Joined(ss), Joined(tt))
  BY JoinedConcat, Zenon DEF Cat
<1>10. /\ EachAsked(p) \in Seq(Seq(Word)) /\ EachAsked(q) \in Seq(Seq(Word))
       /\ EachKept(p) \in Seq(Seq(Word)) /\ EachKept(q) \in Seq(Seq(Word))
  BY EachType, Zenon
<1>11. /\ Asked(r) = Joined(EachAsked(r)) /\ Asked(p) = Joined(EachAsked(p))
       /\ Asked(q) = Joined(EachAsked(q))
       /\ Wanted(r) = Joined(EachKept(r)) /\ Wanted(p) = Joined(EachKept(p))
       /\ Wanted(q) = Joined(EachKept(q))
  BY <1>1, EachType, Zenon
<1> QED  BY <1>1, <1>7, <1>8, <1>9, <1>10, <1>11, Zenon

(* Only block and addresses matter for what requests asked for, and the    *)
(* flag that cancels for what is kept.                                     *)
LEMMA SameWords ==
    ASSUME NEW p \in Seq(Request), NEW q \in Seq(Request), Len(p) = Len(q),
           \A i \in 1..Len(p) : p[i].block = q[i].block /\ p[i].from = q[i].from /\ p[i].to = q[i].to
    PROVE  /\ Asked(p) = Asked(q)
           /\ (\A i \in 1..Len(p) : p[i].canceled = q[i].canceled) => Wanted(p) = Wanted(q)
<1>1. DOMAIN p = 1..Len(p) /\ DOMAIN q = 1..Len(p)
  BY LenProperties, Zenon
<1>2. \A i \in 1..Len(p) : WordsOf(p[i]) = WordsOf(q[i])
  BY Zenon DEF WordsOf
<1>3. EachAsked(p) = EachAsked(q)
  BY <1>1, <1>2, Zenon DEF EachAsked
<1>4. ASSUME \A i \in 1..Len(p) : p[i].canceled = q[i].canceled
      PROVE  EachKept(p) = EachKept(q)
  <2>1. \A i \in 1..Len(p) : Kept(p[i]) = Kept(q[i])
    BY <1>2, <1>4, Zenon DEF Kept
  <2> QED  BY <1>1, <2>1, Zenon DEF EachKept
<1>5. /\ Asked(p) = Joined(EachAsked(p)) /\ Asked(q) = Joined(EachAsked(q))
      /\ Wanted(p) = Joined(EachKept(p)) /\ Wanted(q) = Joined(EachKept(q))
  BY EachType, Zenon
<1> QED  BY <1>3, <1>4, <1>5, Zenon

(* stopFill cancels: nothing is wanted, all of it still comes.             *)
LEMMA CanceledWords ==
    ASSUME NEW p \in Seq(Request)
    PROVE  /\ Canceled(p) \in Seq(Request) /\ Len(Canceled(p)) = Len(p)
           /\ Asked(Canceled(p)) = Asked(p) /\ Wanted(Canceled(p)) = <<>>
<1>1. PICK n \in Nat : n = Len(p)
  BY LenProperties, Zenon
<1>2. DOMAIN p = 1..n /\ \A i \in 1..n : p[i] \in Request
  BY <1>1, LenProperties, ElementOfSeq, Zenon
<1>3. PICK q : q = Canceled(p)
  BY Zenon
<1>4. q = [i \in 1..n |-> [p[i] EXCEPT !.canceled = TRUE]]
  BY <1>2, <1>3, Zenon DEF Canceled
<1>5. ASSUME NEW r \in Request
      PROVE  LET c == [r EXCEPT !.canceled = TRUE]
             IN  c \in Request /\ c.canceled /\ c.block = r.block /\ c.from = r.from /\ c.to = r.to
  BY Zenon DEF Request
<1>6. \A i \in 1..n : /\ q[i] \in Request /\ q[i].canceled
                      /\ q[i].block = p[i].block /\ q[i].from = p[i].from /\ q[i].to = p[i].to
  BY <1>2, <1>4, <1>5, Zenon
<1>7. q \in Seq(Request) /\ Len(q) = n
  <2>1. q = [i \in 1..n |-> q[i]]
    BY <1>4, Zenon
  <2>2. \A i \in 1..n : q[i] \in Request
    BY <1>6, Zenon
  <2> QED  BY <2>1, <2>2
<1>8. Asked(q) = Asked(p)
  BY <1>1, <1>6, <1>7, SameWords, Zenon
<1>9. PICK ss : ss = EachKept(q)
  BY Zenon
<1>10. /\ ss \in Seq(Seq(Word)) /\ Len(ss) = n /\ Wanted(q) = Joined(ss)
       /\ \A i \in 1..n : ss[i] = Kept(q[i])
  BY <1>7, <1>9, EachType, Zenon
<1>11. \A i \in 1..n : ss[i] = <<>>
  BY <1>6, <1>10, Zenon DEF Kept
<1>12. PICK g : g = [i \in 0..n |-> <<>>]
  BY Zenon
<1>13. g \in [0..n -> Seq(Word)] /\ g[0] = <<>>
  BY <1>1, <1>12
<1>14. <<>> \in Seq(Word)
  OBVIOUS
<1>15. ASSUME NEW i \in 1..n PROVE g[i] = Cat(g[i - 1], ss[i])
  <2>1. i \in 0..n /\ i - 1 \in 0..n
    BY <1>1
  <2>2. g[i] = <<>> /\ g[i - 1] = <<>>
    BY <1>12, <2>1, Zenon
  <2>3. Cat(<<>>, <<>>) = <<>>
    BY <1>14, CatType, Zenon
  <2> QED  BY <1>11, <2>2, <2>3, Zenon
<1>16. Joins(ss, g, Word)
  BY <1>10, <1>13, <1>15, Zenon DEF Joins
<1>17. Joined(ss) = g[n]
  BY <1>10, <1>16, JoinedIs, Zenon
<1>18. n \in 0..n
  BY <1>1
<1>19. g[n] = <<>>
  BY <1>12, <1>18, Zenon
<1> QED  BY <1>1, <1>3, <1>7, <1>8, <1>10, <1>17, <1>19, Zenon

(* A response changes neither.                                             *)
LEMMA DoneWords ==
    ASSUME NEW p \in Seq(Request), NEW i \in 1..Len(p),
           NEW q, q = [p EXCEPT ![i].done = TRUE]
    PROVE  /\ q \in Seq(Request) /\ Len(q) = Len(p)
           /\ Asked(q) = Asked(p) /\ Wanted(q) = Wanted(p)
<1>1. p[i] \in Request
  BY ElementOfSeq, Zenon
<1>2. PICK e : e = [p[i] EXCEPT !.done = TRUE]
  BY Zenon
<1>3. /\ e \in Request /\ e.block = p[i].block /\ e.from = p[i].from /\ e.to = p[i].to
      /\ e.canceled = p[i].canceled
  BY <1>1, <1>2, Zenon DEF Request
<1>4. q = [p EXCEPT ![i] = e]
  BY <1>2
<1>5. /\ q \in Seq(Request) /\ Len(q) = Len(p)
      /\ \A j \in 1..Len(p) : q[j] = IF j = i THEN e ELSE p[j]
  <2>1. PICK n \in Nat : n = Len(p)
    BY LenProperties, Zenon
  <2>2. p \in [1..n -> Request]
    BY <2>1, LenProperties, Zenon
  <2>3. q \in [1..n -> Request] /\ \A j \in 1..n : q[j] = IF j = i THEN e ELSE p[j]
    BY <1>3, <1>4, <2>1, <2>2, Zenon
  <2>4. \A f \in [1..n -> Request] : f \in Seq(Request) /\ Len(f) = n
    BY <2>1
  <2> QED  BY <2>1, <2>3, <2>4, Zenon
<1>6. /\ \A j \in 1..Len(q) : q[j].block = p[j].block /\ q[j].from = p[j].from /\ q[j].to = p[j].to
      /\ \A j \in 1..Len(q) : q[j].canceled = p[j].canceled
  <2>1. \A j \in 1..Len(q) : (j = i /\ q[j] = e) \/ q[j] = p[j]
    BY <1>5, Zenon
  <2> QED  BY <1>3, <2>1, Zenon
<1> QED  BY <1>5, <1>6, SameWords, Zenon

-----------------------------------------------------------------------------
(*                          Sending requests                               *)

(* The end of the n-th request of a batch.                                 *)
LEMMA SentUpToType ==
    ASSUME NEW n \in Nat, NEW next \in Nat, NEW end \in Nat, next <= end
    PROVE  /\ SentUpTo(n, next, end) \in next..end
           /\ SentUpTo(0, next, end) = next
           /\ n > 0 => SentUpTo(n - 1, next, end) <= SentUpTo(n, next, end)
<1>1. maxReqSize \in Nat
  BY FifoAssumption
<1>2. PICK p : p = n * maxReqSize
  BY Zenon
<1>3. p \in Nat
  BY <1>1, <1>2
<1>4. n > 0 => (n - 1) * maxReqSize = p - maxReqSize
  BY <1>1, <1>2
<1>5. 0 * maxReqSize = 0
  BY <1>1
<1>6. SentUpTo(n, next, end) = IF next + p < end THEN next + p ELSE end
  BY <1>2, Zenon DEF SentUpTo, Least
<1>7. SentUpTo(0, next, end) = IF next + 0 < end THEN next + 0 ELSE end
  BY <1>5, Zenon DEF SentUpTo, Least
<1>8. n > 0 => SentUpTo(n - 1, next, end) = IF next + (p - maxReqSize) < end
                                            THEN next + (p - maxReqSize) ELSE end
  BY <1>4, Zenon DEF SentUpTo, Least
<1> QED  BY <1>1, <1>3, <1>6, <1>7, <1>8

(* How many requests are sent.                                             *)
LEMMA NumSentType ==
    ASSUME NEW buf, NEW pend, NEW free \in Nat, NEW next, NEW end
    PROVE  /\ NumSent(buf, pend, free, next, end) \in 0..free
           /\ NumSent(buf, pend, free, next, end) > 0 =>
                CanSend(NumSent(buf, pend, free, next, end), buf, pend, free, next, end)
           /\ NumSent(buf, pend, free, next, end) = 0 =>
                ~CanSend(1, buf, pend, free, next, end)
<1> DEFINE Can(n) == CanSend(n, buf, pend, free, next, end)
<1>1. ~Can(free + 1)
  <2>1. ~(free + 1 <= free)
    OBVIOUS
  <2> QED  BY <2>1, Zenon DEF CanSend
<1>2. PICK N : N = NumSent(buf, pend, free, next, end)
  BY Zenon
<1>3. N = CHOOSE n \in 0..free : (\A m \in 1..n : Can(m)) /\ ~Can(n + 1)
  BY <1>2, Zenon DEF NumSent
<1> HIDE DEF Can
<1>4. \E n \in 0..free : (\A m \in 1..n : Can(m)) /\ ~Can(n + 1)
  <2>1. PICK U : U = {k \in 0..free : ~Can(k + 1)}
    BY Zenon
  <2>2. free \in U
    <3>1. free \in 0..free
      OBVIOUS
    <3> QED  BY <1>1, <2>1, <3>1, Zenon
  <2>3. U \in SUBSET Nat /\ U # {}
    <3>1. U \subseteq 0..free
      BY <2>1, Zenon
    <3>2. 0..free \subseteq Nat
      OBVIOUS
    <3> QED  BY <2>2, <3>1, <3>2
  <2>4. PICK n \in U : \A k \in U : n <= k
    BY <2>3, LeastNat, Zenon
  <2>5. n \in 0..free /\ ~Can(n + 1)
    BY <2>1, Zenon
  <2>6. ASSUME NEW m \in 1..n PROVE Can(m)
    <3>1. m - 1 \in 0..free /\ ~(n <= m - 1) /\ (m - 1) + 1 = m
      BY <2>5
    <3> QED  BY <2>1, <2>4, <3>1, Zenon
  <2> QED  BY <2>5, <2>6, Zenon
<1>5. N \in 0..free /\ (\A m \in 1..N : Can(m)) /\ ~Can(N + 1)
  BY <1>3, <1>4, Zenon
<1>6. N > 0 => N \in 1..N
  BY <1>5
<1>7. N = 0 => N + 1 = 1
  BY <1>5
<1> QED  BY <1>2, <1>5, <1>6, <1>7, Zenon DEF Can

NewRequest(b, next, end, i) ==
    [block |-> b, from |-> SentUpTo(i - 1, next, end),
     to |-> SentUpTo(i, next, end), done |-> FALSE, canceled |-> FALSE]
Batch(n, b, next, end) == [i \in 1..n |-> NewRequest(b, next, end, i)]

BatchStands(n, b, next, end) ==
    /\ Batch(n, b, next, end) \in Seq(Request)
    /\ Len(Batch(n, b, next, end)) = n
    /\ Asked(Batch(n, b, next, end)) = Words(b, next, SentUpTo(n, next, end))
    /\ Wanted(Batch(n, b, next, end)) = Words(b, next, SentUpTo(n, next, end))

(* A batch of requests stands for the words from the first address to the  *)
(* last.                                                                   *)
LEMMA BatchWords ==
    ASSUME NEW n \in Nat, NEW b \in Nat \ {0}, NEW next \in Nat, NEW end \in Nat,
           next <= end
    PROVE  BatchStands(n, b, next, end)
<1>1. PICK p : p = Batch(n, b, next, end)
  BY Zenon
<1>2. PICK up : up = [i \in 0..n |-> SentUpTo(i, next, end)]
  BY Zenon
<1>3. ASSUME NEW i \in 0..n
      PROVE  up[i] \in Nat /\ next <= up[i] /\ up[i] = SentUpTo(i, next, end)
  <2>1. i \in Nat
    OBVIOUS
  <2>2. SentUpTo(i, next, end) \in next..end
    BY <2>1, SentUpToType, Zenon
  <2>3. up[i] = SentUpTo(i, next, end)
    BY <1>2, Zenon
  <2> QED  BY <2>2, <2>3
<1>4. ASSUME NEW i \in 1..n
      PROVE  /\ i \in 0..n /\ i - 1 \in 0..n /\ up[i - 1] <= up[i]
             /\ p[i] = [block |-> b, from |-> up[i - 1], to |-> up[i], done |-> FALSE,
                        canceled |-> FALSE]
  <2>1. i \in 0..n /\ i - 1 \in 0..n /\ i \in Nat /\ i > 0
    OBVIOUS
  <2>2. SentUpTo(i - 1, next, end) <= SentUpTo(i, next, end)
    BY <2>1, SentUpToType, Zenon
  <2>3. p[i] = NewRequest(b, next, end, i)
    BY <1>1, Zenon DEF Batch
  <2>4. up[i] = SentUpTo(i, next, end) /\ up[i - 1] = SentUpTo(i - 1, next, end)
    BY <1>3, <2>1, Zenon
  <2> QED  BY <2>1, <2>2, <2>3, <2>4, Zenon DEF NewRequest
<1>5. ASSUME NEW i \in 1..n
      PROVE  /\ p[i] \in Request /\ WordsOf(p[i]) = Words(b, up[i - 1], up[i])
             /\ Kept(p[i]) = Words(b, up[i - 1], up[i])
  <2>1. up[i - 1] \in Nat /\ up[i] \in Nat
    BY <1>3, <1>4, Zenon
  <2>2. p[i] = [block |-> b, from |-> up[i - 1], to |-> up[i], done |-> FALSE,
                canceled |-> FALSE]
    BY <1>4, Zenon
  <2>3. /\ p[i] \in Request /\ p[i].block = b /\ p[i].from = up[i - 1]
        /\ p[i].to = up[i] /\ p[i].canceled = FALSE
    BY <2>1, <2>2 DEF Request
  <2> QED  BY <2>3, Zenon DEF WordsOf, Kept
<1>6. p \in Seq(Request) /\ Len(p) = n
  <2>1. p = [i \in 1..n |-> p[i]]
    BY <1>1, Zenon DEF Batch
  <2>2. \A i \in 1..n : p[i] \in Request
    BY <1>5, Zenon
  <2> QED  BY <2>1, <2>2
<1>7. PICK g : g = [i \in 0..n |-> Words(b, next, up[i])]
  BY Zenon
<1>8. \A i \in 0..n : g[i] \in Seq(Word)
  BY <1>3, <1>7, WordsType, Zenon
<1>9. g \in [0..n -> Seq(Word)]
  BY <1>7, <1>8, Zenon
<1>10. 0 \in 0..n /\ n \in 0..n /\ next >= next
  OBVIOUS
<1>11. g[0] = <<>>
  <2>1. up[0] = next
    BY <1>3, <1>10, SentUpToType, Zenon
  <2>2. g[0] = Words(b, next, next)
    BY <1>7, <1>10, <2>1, Zenon
  <2> QED  BY <1>10, <2>2, WordsType, Zenon
<1>12. ASSUME NEW i \in 1..n
       PROVE  g[i] = Cat(g[i - 1], Words(b, up[i - 1], up[i]))
  <2>1. /\ i \in 0..n /\ i - 1 \in 0..n /\ up[i - 1] \in Nat /\ up[i] \in Nat
        /\ next <= up[i - 1] /\ up[i - 1] <= up[i]
    BY <1>3, <1>4, Zenon
  <2>2. Cat(Words(b, next, up[i - 1]), Words(b, up[i - 1], up[i])) = Words(b, next, up[i])
    BY <2>1, WordsSplit, Zenon
  <2>3. g[i] = Words(b, next, up[i]) /\ g[i - 1] = Words(b, next, up[i - 1])
    BY <1>7, <2>1, Zenon
  <2> QED  BY <2>2, <2>3, Zenon
<1>13. ASSUME NEW ss \in Seq(Seq(Word)), Len(ss) = n,
              \A i \in 1..n : ss[i] = Words(b, up[i - 1], up[i])
       PROVE  Joined(ss) = Words(b, next, SentUpTo(n, next, end))
  <2>1. Joins(ss, g, Word)
    BY <1>9, <1>11, <1>12, <1>13, Zenon DEF Joins
  <2>2. Joined(ss) = g[n]
    BY <1>13, <2>1, JoinedIs, Zenon
  <2> QED  BY <1>3, <1>7, <1>10, <2>2, Zenon
<1>14. PICK tt : tt = EachAsked(p)
  BY Zenon
<1>15. PICK ss : ss = EachKept(p)
  BY Zenon
<1>16. /\ ss \in Seq(Seq(Word)) /\ tt \in Seq(Seq(Word)) /\ Len(ss) = n /\ Len(tt) = n
       /\ \A i \in 1..n : tt[i] = WordsOf(p[i]) /\ ss[i] = Kept(p[i])
       /\ Asked(p) = Joined(tt) /\ Wanted(p) = Joined(ss)
  BY <1>6, <1>14, <1>15, EachType, Zenon
<1>17. \A i \in 1..n : /\ tt[i] = Words(b, up[i - 1], up[i])
                       /\ ss[i] = Words(b, up[i - 1], up[i])
  BY <1>5, <1>16, Zenon
<1>18. Joined(tt) = Words(b, next, SentUpTo(n, next, end))
  BY <1>13, <1>16, <1>17, Zenon
<1>19. Joined(ss) = Words(b, next, SentUpTo(n, next, end))
  BY <1>13, <1>16, <1>17, Zenon
<1> QED  BY <1>1, <1>6, <1>16, <1>18, <1>19, Zenon DEF BatchStands

-----------------------------------------------------------------------------
(*                         Words in their order                            *)

(* The last word read, if any, as a sequence.                              *)
LEMMA SeenType ==
    ASSUME NEW lr \in LastWord
    PROVE  Seen(lr) \in Seq(Word)
<1>1. lr # <<0, 0>> => lr \in Word
  BY Zenon DEF LastWord
<1>2. \A w \in Word : <<w>> \in Seq(Word)
  OBVIOUS
<1>3. <<>> \in Seq(Word)
  OBVIOUS
<1> QED  BY <1>1, <1>2, <1>3, Zenon DEF Seen

(* One stretch after another.                                              *)
LEMMA WordCat ==
    ASSUME NEW s \in Seq(Word), NEW t \in Seq(Word)
    PROVE  /\ Cat(s, t) \in Seq(Word) /\ Len(Cat(s, t)) = Len(s) + Len(t)
           /\ \A i \in 1..Len(s) : Cat(s, t)[i] = s[i]
           /\ \A i \in 1..Len(t) : Cat(s, t)[Len(s) + i] = t[i]
<1>1. Cat(s, t) \in Seq(Word) /\ Len(Cat(s, t)) = Len(s) + Len(t)
  BY CatType, Zenon
<1>2. /\ \A i \in 1..Len(s) : Cat(s, t)[i] = s[i]
      /\ \A i \in 1..Len(t) : Cat(s, t)[Len(s) + i] = t[i]
  BY CatElements, SMT
<1> QED  BY <1>1, <1>2, Zenon

(* Two orderly stretches that fit together.                                *)
LEMMA OrderAppend ==
    ASSUME NEW s \in Seq(Word), NEW t \in Seq(Word), InOrder(s), InOrder(t),
           s # <<>> /\ t # <<>> => Follows(s[Len(s)], t[1])
    PROVE  InOrder(Cat(s, t))
<1>1. PICK u \in Seq(Word) : u = Cat(s, t)
  BY CatType, Zenon
<1>2. PICK n \in Nat : n = Len(s)
  BY LenProperties, Zenon
<1>3. PICK m \in Nat : m = Len(t)
  BY LenProperties, Zenon
<1>4. Len(u) = n + m
  BY <1>1, <1>2, <1>3, CatType, Zenon
<1>5. /\ \A i \in 1..n : u[i] = s[i]
      /\ \A i \in 1..m : u[n + i] = t[i]
  <2>1. /\ \A i \in 1..Len(s) : Cat(s, t)[i] = s[i]
        /\ \A i \in 1..Len(t) : Cat(s, t)[Len(s) + i] = t[i]
    BY WordCat, Zenon
  <2> QED  BY <1>1, <1>2, <1>3, <2>1, Zenon
<1>6. /\ \A i \in 1..(n - 1) : Follows(s[i], s[i + 1])
      /\ \A i \in 1..(m - 1) : Follows(t[i], t[i + 1])
  BY <1>2, <1>3, Zenon DEF InOrder
<1>7. ASSUME NEW i \in 1..((n + m) - 1) PROVE Follows(u[i], u[i + 1])
  <2>1. CASE i < n
    <3>1. i \in 1..n /\ i + 1 \in 1..n /\ i \in 1..(n - 1)
      BY <1>2, <2>1
    <3> QED  BY <1>5, <1>6, <3>1, Zenon
  <2>2. CASE i = n
    <3>1. n \in 1..n /\ 1 \in 1..m /\ n # 0 /\ m # 0
      BY <1>2, <1>3, <2>2
    <3>2. s # <<>> /\ t # <<>>
      BY <1>2, <1>3, <3>1, EmptySeq, Zenon
    <3>3. u[i] = s[n] /\ u[i + 1] = t[1]
      BY <1>5, <2>2, <3>1, Zenon
    <3> QED  BY <1>2, <3>2, <3>3, Zenon
  <2>3. CASE i > n
    <3>1. PICK j : j = i - n
      BY Zenon
    <3>2. j \in 1..m /\ j + 1 \in 1..m /\ j \in 1..(m - 1) /\ i = n + j /\ i + 1 = n + (j + 1)
      BY <1>2, <1>3, <2>3, <3>1
    <3>3. u[i] = t[j] /\ u[i + 1] = t[j + 1]
      BY <1>5, <3>2, Zenon
    <3> QED  BY <1>6, <3>2, <3>3, Zenon
  <2>4. i < n \/ i = n \/ i > n
    BY <1>2, <1>3
  <2> QED  BY <2>1, <2>2, <2>3, <2>4, Zenon
<1> QED  BY <1>1, <1>4, <1>7, Zenon DEF InOrder

(* The words of a stretch of a block.                                      *)
LEMMA WordsInOrder ==
    ASSUME NEW b \in Nat \ {0}, NEW from \in Nat, NEW to \in Nat, from < to
    PROVE  /\ InOrder(Words(b, from, to))
           /\ Words(b, from, to) # <<>> /\ Words(b, from, to)[1] = <<b, from + 1>>
           /\ Words(b, from, to)[Len(Words(b, from, to))] = <<b, to>>
           /\ \A i \in 1..Len(Words(b, from, to)) : Words(b, from, to)[i][1] = b
<1>1. PICK w \in Seq(Word) : w = Words(b, from, to)
  BY WordsType, Zenon
<1>2. PICK n \in Nat : n = to - from
  OBVIOUS
<1>3. from <= to
  OBVIOUS
<1>4. /\ Len(Words(b, from, to)) = to - from
      /\ \A k \in 1..Len(Words(b, from, to)) : Words(b, from, to)[k] = <<b, from + k>>
  BY <1>3, WordsType, Zenon
<1>5. Len(w) = n /\ \A k \in 1..n : w[k] = <<b, from + k>>
  BY <1>1, <1>2, <1>4, Zenon
<1>6. n \in 1..n /\ 1 \in 1..n /\ from + n = to /\ n # 0
  BY <1>2
<1>7. w # <<>> /\ w[1] = <<b, from + 1>> /\ w[n] = <<b, to>>
  <2>1. w # <<>>
    BY <1>5, <1>6, EmptySeq, Zenon
  <2> QED  BY <1>5, <1>6, <2>1, Zenon
<1>8. \A k \in 1..n : w[k][1] = b /\ w[k][2] = from + k
  BY <1>5
<1>9. ASSUME NEW i \in 1..(n - 1) PROVE Follows(w[i], w[i + 1])
  <2>1. i \in 1..n /\ i + 1 \in 1..n /\ from + (i + 1) = (from + i) + 1
    BY <1>2
  <2>2. w[i + 1] = <<b, (from + i) + 1>> /\ w[i][1] = b /\ w[i][2] = from + i
    BY <1>5, <1>8, <2>1, Zenon
  <2> QED  BY <2>2, Zenon DEF Follows
<1>10. InOrder(w)
  BY <1>5, <1>9, Zenon DEF InOrder
<1> QED  BY <1>1, <1>5, <1>7, <1>8, <1>10, Zenon

(* Fetching the next words of the block.                                   *)
LEMMA FetchInOrder ==
    ASSUME NEW str \in Seq(Word), NEW b \in Nat, NEW next \in Nat, NEW end \in Nat,
           NEW next2 \in next..end, NEW lr \in LastWord, NEW ab \in Nat, next < next2,
           Order(str, b, next, end, lr, ab)
    PROVE  Order(Cat(str, Words(b, next, next2)), b, next2, end, lr, ab)
<1>1. next2 \in Nat /\ next # end /\ next < next2
  OBVIOUS
<1>2. b \in Nat \ {0} /\ ab < b
  BY <1>1 DEF Order
<1>3. PICK w : w = Words(b, next, next2)
  BY Zenon
<1>4. w \in Seq(Word)
  BY <1>1, <1>2, <1>3, WordsType, Zenon
<1>5. /\ InOrder(w) /\ w # <<>> /\ w[1] = <<b, next + 1>> /\ w[Len(w)] = <<b, next2>>
      /\ \A i \in 1..Len(w) : w[i][1] = b
  <2>1. /\ InOrder(Words(b, next, next2))
        /\ Words(b, next, next2) # <<>> /\ Words(b, next, next2)[1] = <<b, next + 1>>
        /\ Words(b, next, next2)[Len(Words(b, next, next2))] = <<b, next2>>
        /\ \A i \in 1..Len(Words(b, next, next2)) : Words(b, next, next2)[i][1] = b
    BY <1>1, <1>2, WordsInOrder, Zenon
  <2> QED  BY <1>3, <2>1, Zenon
<1>6. Seen(lr) \in Seq(Word)
  BY SeenType, Zenon
<1>7. PICK h \in Seq(Word) : h = Cat(Seen(lr), str)
  BY <1>6, CatType, Zenon
<1>8. PICK u \in Seq(Word) : u = Cat(h, w)
  BY <1>4, CatType, Zenon
<1>9. Cat(Seen(lr), Cat(str, w)) = u
  BY <1>4, <1>6, <1>7, <1>8, CatAssociative
<1>10. InOrder(h) /\ Reached(h, b, next, end) /\ After(str, ab)
  BY <1>7, Zenon DEF Order
<1>11. InOrder(u)
  <2>1. ASSUME h # <<>> PROVE Follows(h[Len(h)], w[1])
    <3>1. h[Len(h)] = <<b, next>> \/ (h[Len(h)][1] < b /\ next = 0)
      BY <1>1, <1>10, <2>1, Zenon DEF Reached
    <3>2. CASE h[Len(h)] = <<b, next>>
      <4>1. h[Len(h)][1] = b /\ h[Len(h)][2] = next
        BY <3>2
      <4> QED  BY <1>5, <4>1, Zenon DEF Follows
    <3>3. CASE h[Len(h)][1] < b /\ next = 0
      <4>1. w[1][1] = b /\ w[1][2] = 1
        BY <1>5, <3>3
      <4>2. \A x : x < b => b > x
        OBVIOUS
      <4> QED  BY <3>3, <4>1, <4>2, Zenon DEF Follows
    <3> QED  BY <3>1, <3>2, <3>3, Zenon
  <2> QED  BY <1>4, <1>5, <1>8, <1>10, <2>1, OrderAppend, Zenon
<1>12. PICK n \in Nat : n = Len(h)
  BY LenProperties, Zenon
<1>13. PICK m \in Nat : m = Len(w)
  BY <1>4, LenProperties, Zenon
<1>14. /\ Len(u) = n + m
       /\ \A i \in 1..n : u[i] = h[i]
       /\ \A i \in 1..m : u[n + i] = w[i]
  <2>1. Len(Cat(h, w)) = Len(h) + Len(w)
    BY <1>4, CatType, Zenon
  <2>2. /\ \A i \in 1..Len(h) : Cat(h, w)[i] = h[i]
        /\ \A i \in 1..Len(w) : Cat(h, w)[Len(h) + i] = w[i]
    BY <1>4, <1>7, WordCat, Zenon
  <2> QED  BY <1>8, <1>12, <1>13, <2>1, <2>2, Zenon
<1>15. m # 0 /\ m \in 1..m
  BY <1>4, <1>5, <1>13, EmptySeq
<1>16. \A i \in 1..(n + m) : i \in 1..n \/ (i - n \in 1..m /\ i = n + (i - n))
  BY <1>12, <1>13
<1>17. Reached(u, b, next2, end)
  <2>1. ASSUME NEW i \in 1..(n + m) PROVE u[i][1] <= b
    <3>1. CASE i \in 1..n
      BY <1>10, <1>12, <1>14, <3>1, Zenon DEF Reached
    <3>2. CASE i \notin 1..n
      <4>1. PICK j \in 1..m : i = n + j
        BY <1>16, <3>2, Zenon
      <4>2. u[i] = w[j] /\ w[j][1] = b
        BY <1>5, <1>13, <1>14, <4>1, Zenon
      <4> QED  BY <4>2
    <3> QED  BY <3>1, <3>2, Zenon
  <2>2. u[Len(u)] = <<b, next2>>
    BY <1>5, <1>13, <1>14, <1>15, Zenon
  <2> QED  BY <1>14, <2>1, <2>2, Zenon DEF Reached
<1>18. After(Cat(str, w), ab)
  <2>1. PICK k \in Nat : k = Len(str)
    BY LenProperties, Zenon
  <2>2. PICK v : v = Cat(str, w)
    BY Zenon
  <2>3. /\ Len(v) = k + m
        /\ \A i \in 1..k : v[i] = str[i]
        /\ \A i \in 1..m : v[k + i] = w[i]
    <3>1. Len(Cat(str, w)) = Len(str) + Len(w)
      BY <1>4, CatType, Zenon
    <3>2. /\ \A i \in 1..Len(str) : Cat(str, w)[i] = str[i]
          /\ \A i \in 1..Len(w) : Cat(str, w)[Len(str) + i] = w[i]
      BY <1>4, WordCat, Zenon
    <3> QED  BY <1>13, <2>1, <2>2, <3>1, <3>2, Zenon
  <2>4. ASSUME NEW i \in 1..(k + m) PROVE v[i][1] > ab
    <3>1. CASE i \in 1..k
      BY <1>10, <2>1, <2>3, <3>1, Zenon DEF After
    <3>2. CASE i \notin 1..k
      <4>1. PICK j \in 1..m : i = k + j
        <5>1. i - k \in 1..m /\ i = k + (i - k)
          BY <1>13, <2>1, <3>2
        <5> QED  BY <5>1, Zenon
      <4>2. v[i] = w[j] /\ w[j][1] = b
        BY <1>5, <1>13, <2>3, <4>1, Zenon
      <4>3. b > ab
        BY <1>2
      <4> QED  BY <4>2, <4>3, Zenon
    <3> QED  BY <3>1, <3>2, Zenon
  <2> QED  BY <2>2, <2>3, <2>4, Zenon DEF After
<1>19. ab <= b
  BY <1>2
<1> QED  BY <1>2, <1>3, <1>9, <1>11, <1>17, <1>18, <1>19, Zenon DEF Order

(* A new block, or the rest of this one given up.                          *)
LEMMA NewBlockInOrder ==
    ASSUME NEW str \in Seq(Word), NEW b \in Nat, NEW next \in Nat, NEW end \in Nat,
           NEW lr \in LastWord, NEW ab \in Nat, Order(str, b, next, end, lr, ab),
           NEW size
    PROVE  Order(str, b + 1, 0, size, lr, ab) /\ Order(str, b, end, end, lr, ab)
<1>1. Seen(lr) \in Seq(Word)
  BY SeenType, Zenon
<1>2. PICK h \in Seq(Word) : h = Cat(Seen(lr), str)
  BY <1>1, CatType, Zenon
<1>3. InOrder(h) /\ Reached(h, b, next, end) /\ After(str, ab) /\ ab <= b
  BY <1>2, Zenon DEF Order
<1>4. \A i \in 1..Len(h) : h[i][1] <= b /\ h[i][1] \in Nat
  <2>1. \A w \in Word : w[1] \in Nat
    BY DEF Word
  <2>2. \A i \in 1..Len(h) : h[i] \in Word
    BY ElementOfSeq, Zenon
  <2> QED  BY <1>3, <2>1, <2>2, Zenon DEF Reached
<1>5. \A x \in Nat : x <= b => x <= b + 1 /\ x < b + 1
  OBVIOUS
<1>6. h # <<>> => Len(h) \in 1..Len(h)
  BY EmptySeq
<1>7. Reached(h, b + 1, 0, size)
  BY <1>4, <1>5, <1>6, Zenon DEF Reached
<1>8. Reached(h, b, end, end)
  BY <1>4, Zenon DEF Reached
<1> QED  BY <1>2, <1>3, <1>5, <1>7, <1>8, Zenon DEF Order

(* The data under way are given up, and possibly those in the FIFO.        *)
LEMMA StopInOrder ==
    ASSUME NEW buf \in Seq(Word), NEW rest \in Seq(Word), NEW b \in Nat, NEW next \in Nat,
           NEW end \in Nat, NEW lr \in LastWord, NEW ab \in Nat,
           Order(Cat(buf, rest), b, next, end, lr, ab)
    PROVE  Order(buf, b, end, end, lr, ab)
<1>1. Seen(lr) \in Seq(Word)
  BY SeenType, Zenon
<1>2. PICK h \in Seq(Word) : h = Cat(Seen(lr), buf)
  BY <1>1, WordCat, Zenon
<1>3. PICK u \in Seq(Word) : u = Cat(h, rest)
  BY WordCat, Zenon
<1>4. Cat(Seen(lr), Cat(buf, rest)) = u
  BY <1>1, <1>2, <1>3, CatAssociative
<1>5. /\ InOrder(u) /\ Reached(u, b, next, end) /\ After(Cat(buf, rest), ab) /\ ab <= b
  BY <1>4, Zenon DEF Order
<1>6. ASSUME NEW s \in Seq(Word)
      PROVE  /\ \A i \in 1..Len(s) : i \in 1..Len(Cat(s, rest)) /\ Cat(s, rest)[i] = s[i]
             /\ \A i \in 1..(Len(s) - 1) :
                    i \in 1..(Len(Cat(s, rest)) - 1) /\ i \in 1..Len(s) /\ i + 1 \in 1..Len(s)
  <2>1. PICK n \in Nat : n = Len(s)
    BY LenProperties, Zenon
  <2>2. PICK m \in Nat : m = Len(rest)
    BY LenProperties, Zenon
  <2>3. Len(Cat(s, rest)) = n + m /\ \A i \in 1..n : Cat(s, rest)[i] = s[i]
    BY <2>1, <2>2, WordCat, Zenon
  <2>4. /\ \A i \in 1..n : i \in 1..(n + m)
        /\ \A i \in 1..(n - 1) : i \in 1..((n + m) - 1) /\ i \in 1..n /\ i + 1 \in 1..n
    BY <2>1, <2>2
  <2> QED  BY <2>1, <2>3, <2>4, Zenon
<1>7. /\ \A i \in 1..Len(h) : i \in 1..Len(u) /\ u[i] = h[i]
      /\ \A i \in 1..(Len(h) - 1) :
             i \in 1..(Len(u) - 1) /\ i \in 1..Len(h) /\ i + 1 \in 1..Len(h)
  BY <1>3, <1>6, Zenon
<1>8. InOrder(h)
  BY <1>5, <1>7, Zenon DEF InOrder
<1>9. Reached(h, b, end, end)
  BY <1>5, <1>7, Zenon DEF Reached
<1>10. After(buf, ab)
  BY <1>5, <1>6, Zenon DEF After
<1> QED  BY <1>2, <1>5, <1>8, <1>9, <1>10, Zenon DEF Order

(* The device reads the first len words.                                   *)
LEMMA ReadInOrder ==
    ASSUME NEW str \in Seq(Word), NEW b \in Nat, NEW next \in Nat, NEW end \in Nat,
           NEW lr \in LastWord, NEW ab \in Nat, Order(str, b, next, end, lr, ab),
           NEW rest \in Seq(Word), NEW len \in Nat \ {0}, Len(str) = len + Len(rest),
           \A i \in 1..Len(rest) : rest[i] = str[len + i]
    PROVE  Order(rest, b, next, end, str[len], ab)
<1>1. Seen(lr) \in Seq(Word)
  BY SeenType, Zenon
<1>2. PICK h \in Seq(Word) : h = Cat(Seen(lr), str)
  BY <1>1, WordCat, Zenon
<1>3. InOrder(h) /\ Reached(h, b, next, end) /\ After(str, ab)
  BY <1>2, Zenon DEF Order
<1>4. PICK k \in Nat : k = Len(Seen(lr))
  BY <1>1, LenProperties, Zenon
<1>5. PICK m \in Nat : m = Len(rest)
  BY LenProperties, Zenon
<1>6. Len(str) = len + m /\ len \in 1..Len(str)
  BY <1>5
<1>7. Len(h) = k + (len + m) /\ \A i \in 1..(len + m) : h[k + i] = str[i]
  <2>1. /\ Len(Cat(Seen(lr), str)) = Len(Seen(lr)) + Len(str)
        /\ \A i \in 1..Len(str) : Cat(Seen(lr), str)[Len(Seen(lr)) + i] = str[i]
    BY <1>1, WordCat, Zenon
  <2> QED  BY <1>2, <1>4, <1>6, <2>1, Zenon
<1>8. str[len] \in Word
  BY <1>6, ElementOfSeq, Zenon
<1>9. Seen(str[len]) = <<str[len]>>
  <2>1. <<0, 0>> \notin Word
    BY DEF Word
  <2> QED  BY <1>8, <2>1, Zenon DEF Seen
<1>10. PICK one \in Seq(Word) : one = <<str[len]>> /\ Len(one) = 1 /\ one[1] = str[len]
  <2>1. \A w \in Word : <<w>> \in Seq(Word) /\ Len(<<w>>) = 1 /\ <<w>>[1] = w
    OBVIOUS
  <2> QED  BY <1>8, <2>1, Zenon
<1>11. PICK v \in Seq(Word) : v = Cat(one, rest)
  BY WordCat, Zenon
<1>12. Len(v) = 1 + m /\ v[1] = str[len] /\ \A i \in 1..m : v[1 + i] = rest[i]
  <2>1. 1 \in 1..1
    OBVIOUS
  <2>2. /\ Len(Cat(one, rest)) = Len(one) + Len(rest)
        /\ \A i \in 1..Len(one) : Cat(one, rest)[i] = one[i]
        /\ \A i \in 1..Len(rest) : Cat(one, rest)[Len(one) + i] = rest[i]
    BY WordCat, Zenon
  <2> QED  BY <1>5, <1>10, <1>11, <2>1, <2>2, Zenon
<1>13. ASSUME NEW i \in 1..(1 + m) PROVE v[i] = h[k + (len + i - 1)]
  <2>1. CASE i = 1
    <3>1. len \in 1..(len + m) /\ len + i - 1 = len
      BY <1>5, <2>1
    <3> QED  BY <1>7, <1>12, <2>1, <3>1, Zenon
  <2>2. CASE i # 1
    <3>1. PICK j : j = i - 1
      BY Zenon
    <3>2. j \in 1..m /\ i = 1 + j /\ len + j \in 1..(len + m) /\ len + i - 1 = len + j
      BY <1>5, <2>2, <3>1
    <3>3. v[i] = rest[j] /\ rest[j] = str[len + j] /\ h[k + (len + j)] = str[len + j]
      BY <1>5, <1>7, <1>12, <3>2, Zenon
    <3> QED  BY <3>2, <3>3, Zenon
  <2> QED  BY <2>1, <2>2, Zenon
<1>14. InOrder(v)
  <2>1. ASSUME NEW i \in 1..((1 + m) - 1) PROVE Follows(v[i], v[i + 1])
    <3>1. PICK j : j = k + (len + i - 1)
      BY Zenon
    <3>2. /\ i \in 1..(1 + m) /\ i + 1 \in 1..(1 + m)
          /\ j \in 1..((k + (len + m)) - 1) /\ k + (len + (i + 1) - 1) = j + 1
      BY <1>4, <1>5, <3>1
    <3>3. v[i] = h[j] /\ v[i + 1] = h[j + 1]
      BY <1>13, <3>1, <3>2, Zenon
    <3> QED  BY <1>3, <1>7, <3>2, <3>3, Zenon DEF InOrder
  <2> QED  BY <1>12, <2>1, Zenon DEF InOrder
<1>15. Reached(v, b, next, end)
  <2>1. ASSUME NEW i \in 1..(1 + m) PROVE v[i][1] <= b
    <3>1. k + (len + i - 1) \in 1..(k + (len + m))
      BY <1>4, <1>5
    <3> QED  BY <1>3, <1>7, <1>13, <3>1, Zenon DEF Reached
  <2>2. 1 + m \in 1..(1 + m) /\ k + (len + (1 + m) - 1) = k + (len + m) /\ k + (len + m) # 0
    BY <1>4, <1>5
  <2>3. v[Len(v)] = h[Len(h)] /\ h # <<>>
    BY <1>7, <1>12, <1>13, <2>2, EmptySeq, Zenon
  <2> QED  BY <1>3, <1>12, <2>1, <2>3, Zenon DEF Reached
<1>16. After(rest, ab)
  <2>1. \A i \in 1..m : len + i \in 1..(len + m)
    BY <1>5
  <2> QED  BY <1>3, <1>5, <1>6, <2>1, Zenon DEF After
<1> QED  BY <1>9, <1>10, <1>11, <1>14, <1>15, <1>16, Zenon DEF Order

(* handlePending splits the pending requests in two.                       *)
LEMMA SplitDoneParts ==
    ASSUME NEW p \in Seq(Request)
    PROVE  \E x, y \in Seq(Request) : /\ SplitDone(p)[1] = x /\ SplitDone(p)[2] = y
                                      /\ Cat(x, y) = p
<1> DEFINE P(k) == /\ \A j \in 1..k : p[j].done
                   /\ k < Len(p) => ~p[k + 1].done
<1>1. PICK len \in Nat : len = Len(p)
  BY LenProperties, Zenon
<1>2. \E k \in 0..len : P(k)
  <2>1. PICK U : U = {k \in 0..len : k < len => ~p[k + 1].done}
    BY Zenon
  <2>2. len \in U /\ U \in SUBSET Nat
    <3>1. len \in 0..len /\ ~(len < len) /\ 0..len \subseteq Nat
      BY <1>1
    <3>2. len \in U
      BY <2>1, <3>1, Zenon
    <3>3. U \subseteq 0..len
      BY <2>1, Zenon
    <3> QED  BY <3>1, <3>2, <3>3
  <2>3. PICK n \in U : \A k \in U : n <= k
    BY <2>2, LeastNat, Zenon
  <2>4. n \in 0..len /\ (n < len => ~p[n + 1].done)
    BY <2>1, <2>3, Zenon
  <2>5. ASSUME NEW j \in 1..n PROVE p[j].done
    <3>1. j - 1 \in 0..len /\ ~(n <= j - 1) /\ (j - 1) + 1 = j
      BY <2>4
    <3> QED  BY <2>1, <2>3, <3>1, Zenon
  <2> QED  BY <1>1, <2>4, <2>5, Zenon
<1>3. PICK n : n = CHOOSE k \in 0..Len(p) : P(k)
  BY Zenon
<1>4. SplitDone(p) = <<SubSeq(p, 1, n), SubSeq(p, n + 1, Len(p))>>
  BY <1>3, Zenon DEF SplitDone
<1> HIDE DEF P
<1>5. n \in 0..len
  BY <1>1, <1>2, <1>3, Zenon
<1>6. \A i \in 1..len : p[i] \in Request
  BY <1>1, ElementOfSeq, Zenon
<1>7. PICK x : x = SubSeq(p, 1, n)
  BY Zenon
<1>8. PICK y : y = SubSeq(p, n + 1, len)
  BY Zenon
<1>9. PICK m \in Nat : m = len - n
  BY <1>5
<1>10. x \in Seq(Request) /\ Len(x) = n /\ \A i \in 1..n : x[i] = p[i]
  BY <1>1, <1>5, <1>7
<1>11. y \in Seq(Request) /\ Len(y) = m /\ \A i \in 1..m : y[i] = p[n + i]
  BY <1>1, <1>5, <1>8, <1>9
<1>12. Len(p) = Len(x) + Len(y)
  BY <1>1, <1>5, <1>9, <1>10, <1>11
<1>13. /\ \A i \in 1..Len(x) : p[i] = x[i]
       /\ \A i \in 1..Len(y) : p[Len(x) + i] = y[i]
  BY <1>10, <1>11, Zenon
<1>14. Cat(x, y) = p
  BY <1>10, <1>11, <1>12, <1>13, CatEqual, Zenon
<1>15. SplitDone(p) = <<x, y>>
  BY <1>1, <1>4, <1>7, <1>8, Zenon
<1>16. SplitDone(p)[1] = x /\ SplitDone(p)[2] = y
  BY <1>15
<1> QED  BY <1>10, <1>11, <1>14, <1>16, Zenon

-----------------------------------------------------------------------------
(*                              resumeFill                                 *)

SentGood(n, buf, pend, free, b, next, end, lr, ab) ==
    LET pend2 == pend \o Batch(n, b, next, end)
        next2 == SentUpTo(n, next, end)
    IN  /\ Good(buf, pend2, free - n, b, next2, end, lr, ab)
        /\ pend2 = <<>> => n = 0 /\ pend = <<>> /\ next2 = next

(* Timing mode: requests are added for the next words of the block.        *)
LEMMA TimingGood ==
    ASSUME NEW buf, NEW pend, NEW free, NEW b, NEW next, NEW end, NEW lr, NEW ab,
           Good(buf, pend, free, b, next, end, lr, ab),
           NEW n, n = NumSent(buf, pend, free, next, end)
    PROVE  SentGood(n, buf, pend, free, b, next, end, lr, ab)
<1>1. /\ buf \in Seq(Word) /\ pend \in Seq(Request) /\ free \in Nat /\ b \in Nat
      /\ next \in Nat /\ end \in Nat /\ next <= end /\ lr \in LastWord /\ ab \in Nat
  BY Zenon DEF Good, Typed
<1>2. /\ n \in 0..free /\ n \in Nat
      /\ n > 0 => CanSend(n, buf, pend, free, next, end)
  <2>1. /\ n \in 0..free
        /\ n > 0 => CanSend(n, buf, pend, free, next, end)
    BY <1>1, NumSentType, Zenon
  <2> QED  BY <1>1, <2>1
<1>3. PICK next2 : next2 = SentUpTo(n, next, end)
  BY Zenon
<1>4. PICK new : new = Batch(n, b, next, end)
  BY Zenon
<1>5. PICK pend2 : pend2 = Cat(pend, new)
  BY Zenon
<1>6. CASE n = 0
  <2>1. new = <<>>
    <3>1. \A r : [i \in 1..0 |-> r] = <<>>
      OBVIOUS
    <3>2. new = [i \in 1..0 |-> 0]
      <4>1. \A i \in 1..0 : FALSE
        OBVIOUS
      <4>2. new = [i \in 1..0 |-> NewRequest(b, next, end, i)]
        BY <1>4, <1>6, Zenon DEF Batch
      <4> QED  BY <4>1, <4>2, Zenon
    <3> QED  BY <3>1, <3>2, Zenon
  <2>2. pend2 = pend
    BY <1>1, <1>5, <2>1, CatType, Zenon
  <2>3. next2 = next
    BY <1>1, <1>2, <1>3, <1>6, SentUpToType, Zenon
  <2>4. free - n = free
    BY <1>1, <1>6
  <2> QED  BY <1>1, <1>2, <1>3, <1>4, <1>5, <1>6, <2>2, <2>3, <2>4, Zenon DEF Cat, SentGood
<1>7. CASE n # 0
  <2>1. CanSend(n, buf, pend, free, next, end)
    <3>1. n > 0
      BY <1>2, <1>7
    <3> QED  BY <1>2, <3>1, Zenon
  <2>2. next2 \in next..end /\ next < next2
    <3>1. next2 \in next..end
      BY <1>1, <1>2, <1>3, SentUpToType, Zenon
    <3>2. PICK k : k = (n - 1) * maxReqSize
      BY Zenon
    <3>3. maxReqSize \in Nat /\ maxReqSize > 0 /\ n - 1 \in Nat
      BY <1>2, <1>7, FifoAssumption
    <3>4. k \in Nat /\ n * maxReqSize = k + maxReqSize
      BY <1>2, <3>2, <3>3
    <3>5. next + k < end
      BY <2>1, <3>2, Zenon DEF CanSend
    <3>6. next2 = IF next + (k + maxReqSize) < end THEN next + (k + maxReqSize) ELSE end
      BY <1>3, <3>4, Zenon DEF SentUpTo, Least
    <3> QED  BY <1>1, <3>1, <3>3, <3>4, <3>5, <3>6
  <2>3. next2 \in Nat /\ next # end /\ next <= next2 /\ next2 <= end
    BY <1>1, <2>2
  <2>4. Order(Cat(buf, Wanted(pend)), b, next, end, lr, ab) /\ Room(buf, pend, free)
    BY Zenon DEF Good
  <2>5. b \in Nat \ {0}
    BY <1>1, <2>3, <2>4 DEF Order
  <2>6. /\ new \in Seq(Request) /\ Len(new) = n
        /\ Asked(new) = Words(b, next, next2) /\ Wanted(new) = Words(b, next, next2)
    <3>1. BatchStands(n, b, next, end)
      BY <1>1, <1>2, <2>5, BatchWords, Zenon
    <3> QED  BY <1>3, <1>4, <3>1, Zenon DEF BatchStands
  <2>7. pend2 \in Seq(Request) /\ Len(pend2) = Len(pend) + n
    BY <1>1, <1>5, <2>6, CatType, Zenon
  <2>8. PICK w \in Seq(Word) : w = Words(b, next, next2) /\ Len(w) = next2 - next
    <3>1. /\ Words(b, next, next2) \in Seq(Word)
          /\ Len(Words(b, next, next2)) = next2 - next
      BY <1>1, <2>3, <2>5, WordsType, Zenon
    <3> QED  BY <3>1, Zenon
  <2>9. PICK x \in Seq(Word) : x = Asked(pend)
    BY <1>1, AskedType, Zenon
  <2>10. PICK y \in Seq(Word) : y = Wanted(pend)
    BY <1>1, AskedType, Zenon
  <2>11. Asked(pend2) = Cat(x, w) /\ Wanted(pend2) = Cat(y, w)
    <3>1. /\ Asked(Cat(pend, new)) = Cat(Asked(pend), Asked(new))
          /\ Wanted(Cat(pend, new)) = Cat(Wanted(pend), Wanted(new))
      BY <1>1, <2>6, AskedConcat, Zenon
    <3> QED  BY <1>5, <2>6, <2>8, <2>9, <2>10, <3>1, Zenon
  <2>12. Room(buf, pend2, free - n)
    <3>1. Len(Cat(x, w)) = Len(x) + Len(w)
      BY WordCat, Zenon
    <3>2. SizePending(pend2) = Len(x) + (next2 - next) /\ SizePending(pend) = Len(x)
      BY <2>8, <2>9, <2>11, <3>1, Zenon DEF SizePending
    <3>3. Len(buf) + SizePending(pend) + next2 - next <= fifoSize
      BY <1>3, <2>1, Zenon DEF CanSend, Fits
    <3>4. Len(buf) \in Nat /\ Len(x) \in Nat /\ Len(pend) \in Nat
      BY <1>1, LenProperties, Zenon
    <3>5. free + Len(pend) = maxPending
      BY <2>4, Zenon DEF Room
    <3>6. Len(buf) + SizePending(pend2) <= fifoSize
      BY <1>1, <2>3, <3>2, <3>3, <3>4
    <3>7. (free - n) + Len(pend2) = maxPending
      BY <1>1, <1>2, <2>7, <3>4, <3>5
    <3> QED  BY <3>6, <3>7, Zenon DEF Room
  <2>13. Order(Cat(buf, Wanted(pend2)), b, next2, end, lr, ab)
    <3>1. PICK str \in Seq(Word) : str = Cat(buf, y)
      BY <1>1, WordCat, Zenon
    <3>2. Cat(buf, Cat(y, w)) = Cat(str, w)
      BY <1>1, <2>8, <2>10, <3>1, CatAssociative
    <3>3. Order(str, b, next, end, lr, ab)
      BY <2>4, <2>10, <3>1, Zenon
    <3>4. Order(Cat(str, Words(b, next, next2)), b, next2, end, lr, ab)
      BY <1>1, <2>2, <3>3, FetchInOrder, Zenon
    <3> QED  BY <2>8, <2>11, <3>2, <3>4, Zenon
  <2>14. Typed(buf, pend2, free - n, b, next2, end)
    <3>1. free - n \in Nat
      BY <1>1, <1>2
    <3> QED  BY <1>1, <2>3, <2>7, <3>1, Zenon DEF Typed
  <2>15. pend2 # <<>>
    <3>1. Len(pend2) # 0
      <4>1. Len(pend) \in Nat
        BY <1>1, LenProperties, Zenon
      <4> QED  BY <1>2, <1>7, <2>7, <4>1
    <3>2. Len(<<>>) = 0
      OBVIOUS
    <3> QED  BY <3>1, <3>2, Zenon
  <2>16. Good(buf, pend2, free - n, b, next2, end, lr, ab)
    BY <1>1, <2>12, <2>13, <2>14, Zenon DEF Good
  <2> QED  BY <1>3, <1>4, <1>5, <2>15, <2>16, Zenon DEF Cat, SentGood
<1> QED  BY <1>6, <1>7, Zenon

(* Without requests nothing is under way.                                  *)
LEMMA NoRequests == Asked(<<>>) = <<>> /\ Wanted(<<>>) = <<>>
<1>0. <<>> \in Seq(Request)
  OBVIOUS
<1>1. EachAsked(<<>>) = <<>> /\ EachKept(<<>>) = <<>>
  <2>1. EachAsked(<<>>) \in Seq(Seq(Word)) /\ EachKept(<<>>) \in Seq(Seq(Word))
    BY <1>0, EachType, Zenon
  <2>2. Len(EachAsked(<<>>)) = Len(<<>>) /\ Len(EachKept(<<>>)) = Len(<<>>)
    BY <1>0, EachType, Zenon
  <2>3. Len(<<>>) = 0
    OBVIOUS
  <2>4. \A s \in Seq(Seq(Word)) : Len(s) = 0 => s = <<>>
    BY EmptySeq
  <2> QED  BY <2>1, <2>2, <2>3, <2>4, Zenon
<1>2. Asked(<<>>) = Joined(EachAsked(<<>>)) /\ Wanted(<<>>) = Joined(EachKept(<<>>))
  BY <1>0, EachType, Zenon
<1> QED  BY <1>1, <1>2, JoinedEmpty, Zenon

(* Functional mode: the next words of the block are read into the FIFO.    *)
LEMMA FunctionalGood ==
    ASSUME NEW buf, NEW free, NEW b, NEW next, NEW end, NEW lr, NEW ab,
           Good(buf, <<>>, free, b, next, end, lr, ab),
           NEW size \in Nat, size <= end - next, Len(buf) + size <= fifoSize
    PROVE  Good(buf \o Words(b, next, next + size), <<>>, free, b, next + size, end, lr, ab)
<1>1. /\ buf \in Seq(Word) /\ free \in Nat /\ b \in Nat /\ <<>> \in Seq(Request)
      /\ next \in Nat /\ end \in Nat /\ next <= end /\ lr \in LastWord /\ ab \in Nat
  BY Zenon DEF Good, Typed
<1>2. PICK next2 : next2 = next + size
  BY Zenon
<1>3. next2 \in Nat /\ next2 \in next..end /\ next <= next2 /\ next2 <= end /\ next2 - next = size
  BY <1>1, <1>2
<1>4. Asked(<<>>) = <<>> /\ Wanted(<<>>) = <<>>
  BY NoRequests, Zenon
<1>5. Order(buf, b, next, end, lr, ab) /\ free + Len(<<>>) = maxPending
  <2>1. Order(Cat(buf, <<>>), b, next, end, lr, ab) /\ free + Len(<<>>) = maxPending
    BY <1>4, Zenon DEF Good, Room
  <2> QED  BY <1>1, <2>1, CatType, Zenon
<1>6. PICK w : w = Words(b, next, next2)
  BY Zenon
<1>7. /\ w \in Seq(Word) /\ Len(w) = size
      /\ Order(Cat(buf, w), b, next2, end, lr, ab)
  <2>1. CASE size = 0
    <3>1. next2 = next /\ 1..(next2 - next) = 1..0
      BY <1>1, <1>3, <2>1
    <3>2. w = [k \in 1..0 |-> <<b, next + k>>]
      BY <1>6, <3>1, Zenon DEF Words
    <3>3. w = <<>>
      BY <3>2
    <3>4. <<>> \in Seq(Word) /\ Len(<<>>) = 0
      OBVIOUS
    <3> QED  BY <1>1, <1>5, <2>1, <3>1, <3>3, <3>4, CatType, Zenon
  <2>2. CASE size # 0
    <3>1. next < next2 /\ next # end
      BY <1>1, <1>2, <1>3, <2>2
    <3>2. b \in Nat \ {0}
      BY <1>1, <1>5, <3>1 DEF Order
    <3>3. Words(b, next, next2) \in Seq(Word) /\ Len(Words(b, next, next2)) = next2 - next
      BY <1>1, <1>3, <3>2, WordsType, Zenon
    <3>4. Order(Cat(buf, Words(b, next, next2)), b, next2, end, lr, ab)
      BY <1>1, <1>3, <1>5, <3>1, FetchInOrder, Zenon
    <3> QED  BY <1>3, <1>6, <3>3, <3>4, Zenon
  <2> QED  BY <2>1, <2>2, Zenon
<1>8. PICK buf2 \in Seq(Word) : buf2 = Cat(buf, w) /\ Len(buf2) = Len(buf) + size
  BY <1>1, <1>7, WordCat, Zenon
<1>9. Room(buf2, <<>>, free)
  <2>1. SizePending(<<>>) = Len(<<>>) /\ Len(<<>>) = 0
    BY <1>4 DEF SizePending
  <2>2. Len(buf2) \in Nat /\ Len(buf2) <= fifoSize
    BY <1>8, LenProperties, Zenon
  <2>3. Len(buf2) + SizePending(<<>>) <= fifoSize
    BY <2>1, <2>2
  <2> QED  BY <1>5, <2>3, Zenon DEF Room
<1>10. Order(Cat(buf2, Wanted(<<>>)), b, next2, end, lr, ab)
  BY <1>4, <1>7, <1>8, CatType, Zenon
<1>11. Good(buf2, <<>>, free, b, next2, end, lr, ab)
  BY <1>1, <1>3, <1>9, <1>10, Zenon DEF Good, Typed
<1> QED  BY <1>2, <1>6, <1>8, <1>11, Zenon DEF Cat

(* resumeFill from any values that fit together leaves values that do; in  *)
(* timing mode it does not end a block without having sent a request.      *)
LEMMA ResumeFill ==
    ASSUME NEW buf, NEW pend, NEW free, NEW b, NEW next, NEW end, NEW ds, NEW lr, NEW ab,
           Good(buf, pend, free, b, next, end, lr, ab),
           bypassCaches \in BOOLEAN, idleOwed \in BOOLEAN, silentEnd \in BOOLEAN,
           bypassCaches => pend = <<>>,
           resumeFill(buf, pend, free, b, next, end, ds)
    PROVE  /\ Good(buffer', pendingRequests', freeRequests', block', nextAddr', endAddr', lr, ab)
           /\ idleOwed' \in BOOLEAN /\ silentEnd' \in BOOLEAN
           /\ bypassCaches => pendingRequests' = <<>>
           /\ pendingRequests' = <<>> =>
                 /\ pend = <<>> /\ (idleOwed' => idleOwed) /\ (silentEnd => silentEnd')
                 /\ \/ nextAddr' = next /\ endAddr' = end
                    \/ nextAddr' = endAddr' => silentEnd'
<1>1. block' = b /\ endAddr' = end
  BY Zenon DEF resumeFill
<1>2. CASE ~MayFetch(ds)
  <2>1. /\ buffer' = buf /\ pendingRequests' = pend /\ freeRequests' = free
        /\ nextAddr' = next /\ idleOwed' = idleOwed /\ silentEnd' = silentEnd
    BY <1>2, Zenon DEF resumeFill
  <2> QED  BY <1>1, <2>1, Zenon
<1>3. CASE MayFetch(ds) /\ bypassCaches
  <2>1. resumeFillFunctional(buf, pend, free, b, next, end)
    BY <1>3, Zenon DEF resumeFill
  <2>2. pend = <<>>
    BY <1>3, Zenon
  <2>3. PICK space : space = fifoSize - Len(buf)
    BY Zenon
  <2>4. PICK size : size = IF space >= watermark \/ fifoSize < watermark
                           THEN Least(space, end - next) ELSE 0
    BY Zenon
  <2>5. /\ buffer' = buf \o Words(b, next, next + size) /\ nextAddr' = next + size
        /\ pendingRequests' = pend /\ freeRequests' = free /\ idleOwed' = idleOwed
        /\ silentEnd' = (silentEnd \/ next + size = end)
    BY <2>1, <2>3, <2>4, Zenon DEF resumeFillFunctional
  <2>6. /\ Len(buf) \in Nat /\ next \in Nat /\ end \in Nat /\ next <= end
        /\ Len(buf) + SizePending(pend) <= fifoSize /\ SizePending(pend) \in Nat
        /\ fifoSize \in Nat
    <3>1. buf \in Seq(Word) /\ pend \in Seq(Request) /\ next \in Nat /\ end \in Nat /\ next <= end
      BY Zenon DEF Good, Typed
    <3>2. Len(buf) \in Nat /\ SizePending(pend) \in Nat
      BY <3>1, AskedType, LenProperties, Zenon DEF SizePending
    <3>3. Len(buf) + SizePending(pend) <= fifoSize
      BY Zenon DEF Good, Room
    <3>4. fifoSize \in Nat
      BY FifoAssumption
    <3> QED  BY <3>1, <3>2, <3>3, <3>4, Zenon
  <2>7. size \in Nat /\ size <= end - next /\ Len(buf) + size <= fifoSize
    BY <2>3, <2>4, <2>6 DEF Least
  <2>8. Good(buf \o Words(b, next, next + size), <<>>, free, b, next + size, end, lr, ab)
    BY <2>2, <2>7, FunctionalGood, Zenon
  <2> QED  BY <1>1, <1>3, <2>2, <2>5, <2>8, Zenon
<1>4. CASE MayFetch(ds) /\ ~bypassCaches
  <2>1. resumeFillTiming(buf, pend, free, b, next, end)
    BY <1>4, Zenon DEF resumeFill
  <2>2. PICK n : n = NumSent(buf, pend, free, next, end)
    BY Zenon
  <2>3. /\ buffer' = buf /\ pendingRequests' = pend \o Batch(n, b, next, end)
        /\ freeRequests' = free - n /\ nextAddr' = SentUpTo(n, next, end)
        /\ idleOwed' = (idleOwed \/ n > 0) /\ silentEnd' = (silentEnd /\ n = 0)
    BY <2>1, <2>2, Zenon DEF resumeFillTiming, Batch, NewRequest
  <2>4. /\ Good(buf, pend \o Batch(n, b, next, end), free - n, b,
                SentUpTo(n, next, end), end, lr, ab)
        /\ pend \o Batch(n, b, next, end) = <<>> =>
              n = 0 /\ pend = <<>> /\ SentUpTo(n, next, end) = next
    <3>1. SentGood(n, buf, pend, free, b, next, end, lr, ab)
      BY <2>2, TimingGood, Zenon
    <3> QED  BY <3>1, Zenon DEF SentGood
  <2>5. ~(0 > 0)
    OBVIOUS
  <2> QED  BY <1>1, <1>4, <2>3, <2>4, <2>5, Zenon
<1> QED  BY <1>2, <1>3, <1>4, Zenon

-----------------------------------------------------------------------------
(*                              The actions                                *)

Members == Good(buffer, pendingRequests, freeRequests, block, nextAddr, endAddr,
                lastRead, aborted)
IdleDue == idleOwed => isActive \/ inDmaDone \/ silentEnd

(* The invariant in the three parts that the actions keep.                 *)
LEMMA IInvParts == IInv <=> Members /\ Modes /\ IdleDue
BY Zenon DEF IInv, Members, IdleDue

(* Nothing read, nothing held, nothing under way.                          *)
LEMMA EmptyGood ==
    ASSUME NEW b \in Nat, NEW next \in Nat
    PROVE  /\ Order(<<>>, b, next, next, <<0, 0>>, b)
           /\ Good(<<>>, <<>>, maxPending, b, next, next, <<0, 0>>, b)
<1>1. Seen(<<0, 0>>) = <<>>
  BY Zenon DEF Seen
<1>2. <<>> \in Seq(Word) /\ <<>> \in Seq(Request) /\ Len(<<>>) = 0
  OBVIOUS
<1>3. Cat(<<>>, <<>>) = <<>>
  BY <1>2, CatType, Zenon
<1>4. InOrder(<<>>)
  BY <1>2 DEF InOrder
<1>5. Reached(<<>>, b, next, next) /\ After(<<>>, b) /\ b <= b
  BY <1>2 DEF Reached, After
<1>6. Order(<<>>, b, next, next, <<0, 0>>, b)
  BY <1>1, <1>3, <1>4, <1>5, Zenon DEF Order
<1>7. Room(<<>>, <<>>, maxPending)
  BY <1>2, NoRequests, FifoAssumption DEF Room, SizePending
<1>8. maxPending \in Nat /\ next <= next
  BY FifoAssumption
<1>9. <<0, 0>> \in LastWord
  BY Zenon DEF LastWord
<1> QED  BY <1>2, <1>3, <1>6, <1>7, <1>8, <1>9, NoRequests, Zenon DEF Good, Typed

(* A new engine fits together.                                             *)
LEMMA InitIInv == Init => IInv
<1> SUFFICES ASSUME Init PROVE IInv
  OBVIOUS
<1>1. Members
  <2>1. 0 \in Nat
    OBVIOUS
  <2> QED  BY <2>1, EmptyGood, Zenon DEF Init, Members
<1>2. Modes
  BY Zenon DEF Init, Modes
<1>3. IdleDue
  BY Zenon DEF Init, IdleDue
<1> QED  BY <1>1, <1>2, <1>3, IInvParts, Zenon

(* What every caller of resumeFill has to show.                            *)
LEMMA FillStep ==
    ASSUME Modes, NEW buf, NEW pend, NEW free, NEW b, NEW next, NEW end, NEW ds,
           Good(buf, pend, free, b, next, end, lastRead', aborted'),
           bypassCaches => pend = <<>>,
           ~stopped, UNCHANGED <<stopped, bypassCaches>>, inDmaDone' \in BOOLEAN,
           pend = <<>> /\ idleOwed => next # end \/ inDmaDone' \/ silentEnd,
           resumeFill(buf, pend, free, b, next, end, ds)
    PROVE  Members' /\ Modes' /\ IdleDue'
<1>1. PICK lr : lr = lastRead'
  BY Zenon
<1>2. PICK ab : ab = aborted'
  BY Zenon
<1>3. /\ bypassCaches \in BOOLEAN /\ idleOwed \in BOOLEAN /\ silentEnd \in BOOLEAN
      /\ bypassCaches => pend = <<>>
  BY DEF Modes
<1>4. Good(buf, pend, free, b, next, end, lr, ab)
  BY <1>1, <1>2, Zenon
<1>5. /\ Good(buffer', pendingRequests', freeRequests', block', nextAddr', endAddr', lr, ab)
      /\ idleOwed' \in BOOLEAN /\ silentEnd' \in BOOLEAN
      /\ bypassCaches => pendingRequests' = <<>>
      /\ pendingRequests' = <<>> =>
            /\ pend = <<>> /\ (idleOwed' => idleOwed) /\ (silentEnd => silentEnd')
            /\ \/ nextAddr' = next /\ endAddr' = end
               \/ nextAddr' = endAddr' => silentEnd'
  BY <1>3, <1>4, ResumeFill
<1>6. Members'
  BY <1>1, <1>2, <1>5, Zenon DEF Members
<1>7. Modes'
  <2>1. stopped' = stopped /\ bypassCaches' = bypassCaches
    OBVIOUS
  <2>2. {bypassCaches', stopped', inDmaDone', idleOwed', silentEnd'} \subseteq BOOLEAN
    <3>1. stopped \in BOOLEAN
      BY DEF Modes
    <3> QED  BY <1>3, <1>5, <2>1, <3>1, Zenon
  <2>3. ~stopped'
    BY <2>1
  <2>4. bypassCaches' => bypassCaches
    BY <2>1
  <2> QED  BY <1>5, <2>2, <2>3, <2>4, Zenon DEF Modes
<1>8. IdleDue'
  BY <1>5, Zenon DEF IdleDue, isActive, atEndOfBlock
<1> QED  BY <1>6, <1>7, <1>8, Zenon

(* startFill, and onEndOfBlock starting the next line.                     *)
LEMMA NewBlockStep ==
    ASSUME IInv, NEW size \in BlockSizes, ~stopped,
           resumeFill(buffer, pendingRequests, freeRequests, block + 1, 0, size, drainState),
           UNCHANGED <<drainState, lastRead, aborted, inDmaDone, bypassCaches, stopped>>
    PROVE  IInv'
<1>1. Members /\ Modes /\ IdleDue
  BY IInvParts, Zenon
<1>2. size \in Nat /\ 0 # size /\ 0 <= size
  BY FifoAssumption
<1>3. PICK str : str = Cat(buffer, Wanted(pendingRequests))
  BY Zenon
<1>4. /\ Typed(buffer, pendingRequests, freeRequests, block, nextAddr, endAddr)
      /\ lastRead \in LastWord /\ aborted \in Nat
      /\ Room(buffer, pendingRequests, freeRequests)
      /\ Order(str, block, nextAddr, endAddr, lastRead, aborted)
  BY <1>1, <1>3, Zenon DEF Members, Good
<1>5. /\ block \in Nat /\ nextAddr \in Nat /\ endAddr \in Nat
      /\ buffer \in Seq(Word) /\ pendingRequests \in Seq(Request) /\ freeRequests \in Nat
  BY <1>4, Zenon DEF Typed
<1>6. block + 1 \in Nat /\ 0 \in Nat
  BY <1>5
<1>7. str \in Seq(Word)
  BY <1>3, <1>5, AskedType, WordCat, Zenon
<1>8. Order(str, block + 1, 0, size, lastRead, aborted)
  BY <1>4, <1>5, <1>7, NewBlockInOrder, Zenon
<1>9. Good(buffer, pendingRequests, freeRequests, block + 1, 0, size, lastRead, aborted)
  BY <1>2, <1>3, <1>4, <1>5, <1>6, <1>8, Zenon DEF Good, Typed
<1>10. /\ lastRead' = lastRead /\ aborted' = aborted /\ inDmaDone' = inDmaDone
       /\ UNCHANGED <<stopped, bypassCaches>>
  OBVIOUS
<1>11. Good(buffer, pendingRequests, freeRequests, block + 1, 0, size, lastRead', aborted')
  BY <1>9, <1>10, Zenon
<1>12. inDmaDone' \in BOOLEAN /\ (bypassCaches => pendingRequests = <<>>)
  BY <1>1, <1>10 DEF Modes
<1>13. PICK buf : buf = buffer
  BY Zenon
<1>14. PICK pend : pend = pendingRequests
  BY Zenon
<1>15. PICK free : free = freeRequests
  BY Zenon
<1>16. PICK b : b = block + 1
  BY Zenon
<1>17. PICK ds : ds = drainState
  BY Zenon
<1>18. /\ resumeFill(buf, pend, free, b, 0, size, ds)
       /\ Good(buf, pend, free, b, 0, size, lastRead', aborted')
       /\ bypassCaches => pend = <<>>
  BY <1>11, <1>12, <1>13, <1>14, <1>15, <1>16, <1>17, Zenon
<1>19. Members' /\ Modes' /\ IdleDue'
  BY <1>1, <1>2, <1>10, <1>12, <1>18, FillStep, Zenon
<1> QED  BY <1>19, Zenon DEF IInv, Members, IdleDue

(* The facts of the invariant that the actions use, on constants.          *)
LEMMA MembersParts ==
    ASSUME Members
    PROVE  \E w, a \in Seq(Word) :
              /\ w = Wanted(pendingRequests) /\ a = Asked(pendingRequests)
              /\ Len(w) <= Len(a)
              /\ buffer \in Seq(Word) /\ pendingRequests \in Seq(Request)
              /\ freeRequests \in Nat /\ block \in Nat /\ nextAddr \in Nat
              /\ endAddr \in Nat /\ nextAddr <= endAddr
              /\ lastRead \in LastWord /\ aborted \in Nat
              /\ Len(buffer) + Len(a) <= fifoSize
              /\ freeRequests + Len(pendingRequests) = maxPending
              /\ Order(Cat(buffer, w), block, nextAddr, endAddr, lastRead, aborted)
<1>1. /\ Typed(buffer, pendingRequests, freeRequests, block, nextAddr, endAddr)
      /\ lastRead \in LastWord /\ aborted \in Nat
      /\ Room(buffer, pendingRequests, freeRequests)
      /\ Order(Cat(buffer, Wanted(pendingRequests)), block, nextAddr, endAddr,
               lastRead, aborted)
  BY Zenon DEF Members, Good
<1>2. pendingRequests \in Seq(Request)
  BY <1>1, Zenon DEF Typed
<1>3. /\ Wanted(pendingRequests) \in Seq(Word) /\ Asked(pendingRequests) \in Seq(Word)
      /\ Len(Wanted(pendingRequests)) <= Len(Asked(pendingRequests))
  BY <1>2, AskedType, Zenon
<1> QED  BY <1>1, <1>3, Zenon DEF Typed, Room, SizePending

(* tryGet takes the words at the front.                                    *)
LEMMA TryGetStep ==
    ASSUME IInv, NEW len \in GetSizes, tryGet(len)
    PROVE  IInv'
<1>1. Members /\ Modes /\ IdleDue
  BY IInvParts, Zenon
<1>2. PICK w, a \in Seq(Word) :
              /\ w = Wanted(pendingRequests) /\ a = Asked(pendingRequests)
              /\ Len(w) <= Len(a)
              /\ buffer \in Seq(Word) /\ pendingRequests \in Seq(Request)
              /\ freeRequests \in Nat /\ block \in Nat /\ nextAddr \in Nat
              /\ endAddr \in Nat /\ nextAddr <= endAddr
              /\ lastRead \in LastWord /\ aborted \in Nat
              /\ Len(buffer) + Len(a) <= fifoSize
              /\ freeRequests + Len(pendingRequests) = maxPending
              /\ Order(Cat(buffer, w), block, nextAddr, endAddr, lastRead, aborted)
  BY <1>1, MembersParts, Zenon
<1>3. /\ ~stopped /\ Len(buffer) >= len /\ lastRead' = buffer[len]
      /\ resumeFill(SubSeq(buffer, len + 1, Len(buffer)), pendingRequests,
                    freeRequests, block, nextAddr, endAddr, drainState)
      /\ UNCHANGED <<aborted, inDmaDone, bypassCaches, stopped>>
  BY Zenon DEF tryGet, Ready
<1>4. len \in Nat \ {0}
  BY FifoAssumption
<1>5. PICK buf \in Seq(Word) : buf = buffer
  BY <1>2, Zenon
<1>6. PICK n \in Nat : n = Len(buf)
  BY LenProperties, Zenon
<1>7. PICK tail : tail = SubSeq(buf, len + 1, n)
  BY Zenon
<1>8. len <= n
  BY <1>3, <1>5, <1>6
<1>9. /\ tail \in Seq(Word) /\ Len(tail) = n - len
      /\ \A i \in 1..(n - len) : tail[i] = buf[len + i]
  BY <1>4, <1>6, <1>7, <1>8
<1>10. PICK str \in Seq(Word) : str = Cat(buf, w)
  BY WordCat, Zenon
<1>11. PICK rest \in Seq(Word) : rest = Cat(tail, w)
  BY <1>9, WordCat, Zenon
<1>12. /\ Len(str) = Len(buf) + Len(w) /\ (\A i \in 1..Len(buf) : str[i] = buf[i])
       /\ \A i \in 1..Len(w) : str[Len(buf) + i] = w[i]
  <2>1. /\ Len(Cat(buf, w)) = Len(buf) + Len(w)
        /\ \A i \in 1..Len(buf) : Cat(buf, w)[i] = buf[i]
        /\ \A i \in 1..Len(w) : Cat(buf, w)[Len(buf) + i] = w[i]
    BY <1>2, WordCat, Zenon
  <2> QED  BY <1>10, <2>1, Zenon
<1>13. /\ Len(rest) = Len(tail) + Len(w) /\ (\A i \in 1..Len(tail) : rest[i] = tail[i])
       /\ \A i \in 1..Len(w) : rest[Len(tail) + i] = w[i]
  <2>1. /\ Len(Cat(tail, w)) = Len(tail) + Len(w)
        /\ \A i \in 1..Len(tail) : Cat(tail, w)[i] = tail[i]
        /\ \A i \in 1..Len(w) : Cat(tail, w)[Len(tail) + i] = w[i]
    BY <1>9, WordCat, Zenon
  <2> QED  BY <1>11, <2>1, Zenon
<1>14. PICK m \in Nat : m = Len(w)
  BY LenProperties, Zenon
<1>15. Len(str) = len + Len(rest)
  BY <1>4, <1>6, <1>9, <1>12, <1>13, <1>14
<1>16. \A i \in 1..Len(rest) : rest[i] = str[len + i]
  <2> SUFFICES ASSUME NEW i \in 1..Len(rest) PROVE rest[i] = str[len + i]
    BY Zenon
  <2>1. i \in 1..(n - len + m)
    BY <1>9, <1>13, <1>14
  <2>2. CASE i <= n - len
    <3>1. i \in 1..(n - len) /\ len + i \in 1..n
      BY <1>4, <1>8, <2>1, <2>2
    <3> QED  BY <1>6, <1>9, <1>12, <1>13, <3>1, Zenon
  <2>3. CASE i > n - len
    <3>1. PICK k \in 1..m : i = n - len + k /\ len + i = n + k
      <4>1. i - (n - len) \in 1..m
        BY <1>4, <1>8, <2>1, <2>3
      <4> QED  BY <1>4, <1>8, <2>1, <4>1
    <3> QED  BY <1>6, <1>9, <1>12, <1>13, <1>14, <3>1, Zenon
  <2>4. i <= n - len \/ i > n - len
    BY <1>4, <2>1
  <2> QED  BY <2>2, <2>3, <2>4, Zenon
<1>17. Order(str, block, nextAddr, endAddr, lastRead, aborted)
  BY <1>2, <1>5, <1>10, Zenon
<1>18. Order(rest, block, nextAddr, endAddr, str[len], aborted)
  BY <1>2, <1>4, <1>15, <1>16, <1>17, ReadInOrder, Zenon
<1>19. str[len] = buf[len] /\ buf[len] \in Word
  <2>1. len \in 1..Len(buf)
    BY <1>4, <1>6, <1>8
  <2> QED  BY <1>12, <2>1, ElementOfSeq, Zenon
<1>20. PICK lr \in LastWord : lr = lastRead' /\ lr = str[len]
  BY <1>3, <1>5, <1>19, Zenon DEF LastWord
<1>21. Len(tail) + Len(a) <= fifoSize
  <2>1. PICK k \in Nat : k = Len(a)
    BY LenProperties, Zenon
  <2>2. n + k <= fifoSize
    BY <1>2, <1>5, <1>6, <2>1, Zenon
  <2>3. Len(tail) = n - len
    BY <1>9, Zenon
  <2>4. fifoSize \in Nat
    BY FifoAssumption, Zenon
  <2> QED  BY <1>4, <1>8, <2>1, <2>2, <2>3, <2>4
<1>22. Typed(tail, pendingRequests, freeRequests, block, nextAddr, endAddr)
  BY <1>2, <1>9, Zenon DEF Typed
<1>23. Room(tail, pendingRequests, freeRequests)
  BY <1>2, <1>21, Zenon DEF Room, SizePending
<1>24. Order(Cat(tail, Wanted(pendingRequests)), block, nextAddr, endAddr, lr, aborted)
  BY <1>2, <1>11, <1>18, <1>20, Zenon
<1>25. Good(tail, pendingRequests, freeRequests, block, nextAddr, endAddr, lr, aborted)
  BY <1>2, <1>22, <1>23, <1>24, <1>20, Zenon DEF Good
<1>26. /\ aborted' = aborted /\ inDmaDone' = inDmaDone
       /\ UNCHANGED <<stopped, bypassCaches>>
  BY <1>3
<1>27. PICK pend : pend = pendingRequests
  BY Zenon
<1>28. PICK free : free = freeRequests
  BY Zenon
<1>29. PICK b : b = block
  BY Zenon
<1>30. PICK next : next = nextAddr
  BY Zenon
<1>31. PICK end : end = endAddr
  BY Zenon
<1>32. PICK ds : ds = drainState
  BY Zenon
<1>33. tail = SubSeq(buffer, len + 1, Len(buffer))
  BY <1>5, <1>6, <1>7, Zenon
<1>34. resumeFill(tail, pend, free, b, next, end, ds)
  BY <1>3, <1>27, <1>28, <1>29, <1>30, <1>31, <1>32, <1>33, Zenon
<1>35. Good(tail, pend, free, b, next, end, lastRead', aborted')
  BY <1>20, <1>25, <1>26, <1>27, <1>28, <1>29, <1>30, <1>31, Zenon
<1>36. bypassCaches => pend = <<>>
  BY <1>1, <1>27, Zenon DEF Modes
<1>37. inDmaDone' \in BOOLEAN
  BY <1>1, <1>26 DEF Modes
<1>38. pend = <<>> /\ idleOwed => next # end \/ inDmaDone' \/ silentEnd
  BY <1>1, <1>26, <1>27, <1>30, <1>31 DEF IdleDue, isActive, atEndOfBlock
<1>39. Members' /\ Modes' /\ IdleDue'
  BY <1>1, <1>3, <1>26, <1>34, <1>35, <1>36, <1>37, <1>38, FillStep, Zenon
<1> QED  BY <1>39, Zenon DEF IInv, Members, IdleDue

(* The requests x are handed to the FIFO, and y stay.                      *)
Handed(buf, p, free, x, y) ==
    /\ Cat(buf, Wanted(x)) \in Seq(Word) /\ free + Len(x) \in Nat
    /\ Room(Cat(buf, Wanted(x)), y, free + Len(x))
    /\ Cat(Cat(buf, Wanted(x)), Wanted(y)) = Cat(buf, Wanted(p))

(* Marking a request finished and moving the finished ones to the FIFO     *)
(* leaves the stream of words as it is.                                    *)
LEMMA HandlePending ==
    ASSUME NEW buf \in Seq(Word), NEW p \in Seq(Request), NEW q \in Seq(Request),
           NEW free \in Nat, NEW x \in Seq(Request), NEW y \in Seq(Request),
           Len(q) = Len(p), Asked(q) = Asked(p), Wanted(q) = Wanted(p), Cat(x, y) = q,
           Room(buf, p, free)
    PROVE  Handed(buf, p, free, x, y)
<1>1. PICK wx \in Seq(Word) : wx = Wanted(x)
  BY AskedType, Zenon
<1>2. PICK wy \in Seq(Word) : wy = Wanted(y)
  BY AskedType, Zenon
<1>3. PICK ax \in Seq(Word) : ax = Asked(x)
  BY AskedType, Zenon
<1>4. PICK ay \in Seq(Word) : ay = Asked(y)
  BY AskedType, Zenon
<1>5. Len(wx) <= Len(ax)
  BY <1>1, <1>3, AskedType, Zenon
<1>6. Asked(p) = Cat(ax, ay) /\ Wanted(p) = Cat(wx, wy)
  <2>1. Asked(Cat(x, y)) = Cat(Asked(x), Asked(y)) /\ Wanted(Cat(x, y)) = Cat(Wanted(x), Wanted(y))
    BY AskedConcat, Zenon
  <2> QED  BY <1>1, <1>2, <1>3, <1>4, <2>1, Zenon
<1>7. Cat(Cat(buf, wx), wy) = Cat(buf, Cat(wx, wy))
  BY CatAssociative, SMT
<1>8. Cat(buf, wx) \in Seq(Word) /\ Len(Cat(buf, wx)) = Len(buf) + Len(wx)
  BY WordCat, Zenon
<1>9. Len(Cat(ax, ay)) = Len(ax) + Len(ay)
  BY WordCat, Zenon
<1>10. Len(q) = Len(x) + Len(y)
  <2>1. Len(Cat(x, y)) = Len(x) + Len(y)
    BY CatType, Zenon
  <2> QED  BY <2>1, Zenon
<1>11. /\ Len(buf) \in Nat /\ Len(wx) \in Nat /\ Len(ax) \in Nat /\ Len(ay) \in Nat
       /\ Len(x) \in Nat /\ Len(y) \in Nat
  BY LenProperties, Zenon
<1>12. Len(buf) + Len(Cat(ax, ay)) <= fifoSize /\ free + Len(p) = maxPending
  BY <1>6, Zenon DEF Room, SizePending
<1>13. fifoSize \in Nat
  BY FifoAssumption, Zenon
<1>14. /\ Len(Cat(buf, wx)) + Len(ay) <= fifoSize
       /\ (free + Len(x)) + Len(y) = maxPending /\ free + Len(x) \in Nat
  <2> HIDE DEF Cat
  <2>1. PICK k1 \in Nat : k1 = Len(wx)
    BY <1>11, Zenon
  <2>2. PICK k2 \in Nat : k2 = Len(ax)
    BY <1>11, Zenon
  <2>3. PICK k3 \in Nat : k3 = Len(ay)
    BY <1>11, Zenon
  <2>4. PICK k4 \in Nat : k4 = Len(buf)
    BY <1>11, Zenon
  <2>5. k1 <= k2 /\ k4 + (k2 + k3) <= fifoSize
    BY <1>5, <1>9, <1>12, <2>1, <2>2, <2>3, <2>4, Zenon
  <2>6. (k4 + k1) + k3 <= fifoSize
    BY <1>13, <2>5
  <2>7. Len(Cat(buf, wx)) + Len(ay) <= fifoSize
    BY <1>8, <2>1, <2>3, <2>4, <2>6, Zenon
  <2>8. PICK j1 \in Nat : j1 = Len(x)
    BY <1>11, Zenon
  <2>9. PICK j2 \in Nat : j2 = Len(y)
    BY <1>11, Zenon
  <2>10. free + (j1 + j2) = maxPending
    BY <1>10, <1>12, <2>8, <2>9, Zenon
  <2>11. (free + j1) + j2 = maxPending /\ free + j1 \in Nat
    BY <2>10
  <2> QED  BY <2>7, <2>8, <2>9, <2>11, Zenon
<1>15. Room(Cat(buf, Wanted(x)), y, free + Len(x))
  BY <1>1, <1>4, <1>14, Zenon DEF Room, SizePending
<1> QED  BY <1>1, <1>2, <1>6, <1>7, <1>8, <1>14, <1>15, Zenon DEF Handed

(* dmaDone up to the return of resumeFill.                                 *)
LEMMA DmaDoneStep ==
    ASSUME IInv, NEW i \in DOMAIN pendingRequests, dmaDone(i)
    PROVE  IInv'
<1>1. Members /\ Modes /\ IdleDue
  BY IInvParts, Zenon
<1>2. /\ Typed(buffer, pendingRequests, freeRequests, block, nextAddr, endAddr)
      /\ lastRead \in LastWord /\ aborted \in Nat
      /\ Room(buffer, pendingRequests, freeRequests)
      /\ Order(Cat(buffer, Wanted(pendingRequests)), block, nextAddr, endAddr,
               lastRead, aborted)
  BY <1>1, Zenon DEF Members, Good
<1>3. PICK p \in Seq(Request) : p = pendingRequests
  BY <1>2, Zenon DEF Typed
<1>4. i \in 1..Len(p)
  BY <1>3, LenProperties, Zenon
<1>5. PICK q : q = [p EXCEPT ![i].done = TRUE]
  BY Zenon
<1>6. q \in Seq(Request) /\ Len(q) = Len(p) /\ Asked(q) = Asked(p) /\ Wanted(q) = Wanted(p)
  BY <1>4, <1>5, DoneWords, Zenon
<1>7. PICK x, y \in Seq(Request) :
          SplitDone(q)[1] = x /\ SplitDone(q)[2] = y /\ Cat(x, y) = q
  BY <1>6, SplitDoneParts, Zenon
<1>8. PICK buf \in Seq(Word) : buf = buffer
  BY <1>2, Zenon DEF Typed
<1>9. PICK free \in Nat : free = freeRequests
  BY <1>2, Zenon DEF Typed
<1>10. Room(buf, p, free)
  BY <1>2, <1>3, <1>8, <1>9, Zenon
<1>11. PICK buf2 : buf2 = Cat(buf, Wanted(x))
  BY Zenon
<1>12. PICK free2 : free2 = free + Len(x)
  BY Zenon
<1>13. /\ Cat(buf, Wanted(x)) \in Seq(Word) /\ free + Len(x) \in Nat
       /\ Room(Cat(buf, Wanted(x)), y, free + Len(x))
       /\ Cat(Cat(buf, Wanted(x)), Wanted(y)) = Cat(buf, Wanted(p))
  <2>1. Handed(buf, p, free, x, y)
    BY <1>6, <1>7, <1>10, HandlePending, Zenon
  <2> QED  BY <2>1, Zenon DEF Handed
<1>14. /\ buf2 \in Seq(Word) /\ free2 \in Nat /\ Room(buf2, y, free2)
       /\ Cat(buf2, Wanted(y)) = Cat(buf, Wanted(p))
  BY <1>11, <1>12, <1>13, Zenon
<1>15. Typed(buf2, y, free2, block, nextAddr, endAddr)
  BY <1>2, <1>7, <1>14, Zenon DEF Typed
<1>16. Order(Cat(buf2, Wanted(y)), block, nextAddr, endAddr, lastRead, aborted)
  BY <1>2, <1>3, <1>8, <1>14, Zenon
<1>17. Good(buf2, y, free2, block, nextAddr, endAddr, lastRead, aborted)
  BY <1>2, <1>14, <1>15, <1>16, Zenon DEF Good
<1>18. PICK ds : ds = IF y = <<>> /\ drainState = "Draining" THEN "Drained" ELSE drainState
  BY Zenon
<1>19. /\ ~stopped /\ inDmaDone' = TRUE
       /\ UNCHANGED <<lastRead, aborted, bypassCaches, stopped>>
       /\ resumeFill(buf2, y, free2, block, nextAddr, endAddr, ds)
  <2>1. q = [pendingRequests EXCEPT ![i].done = TRUE]
    BY <1>3, <1>5, Zenon
  <2>2. PICK split : split = SplitDone(q)
    BY Zenon
  <2>3. split = SplitDone([pendingRequests EXCEPT ![i].done = TRUE])
    BY <2>1, <2>2, Zenon
  <2>4. /\ ~stopped /\ inDmaDone' = TRUE
        /\ UNCHANGED <<lastRead, aborted, bypassCaches, stopped>>
        /\ resumeFill(buffer \o Wanted(split[1]), split[2], freeRequests + Len(split[1]),
                      block, nextAddr, endAddr,
                      IF split[2] = <<>> /\ drainState = "Draining" THEN "Drained"
                                                                    ELSE drainState)
    BY <2>3, Zenon DEF dmaDone, Ready
  <2>5. split[1] = x /\ split[2] = y
    BY <1>7, <2>2, Zenon
  <2>6. buf2 = buffer \o Wanted(split[1]) /\ free2 = freeRequests + Len(split[1])
    BY <1>8, <1>9, <1>11, <1>12, <2>5, Zenon DEF Cat
  <2>7. ds = IF split[2] = <<>> /\ drainState = "Draining" THEN "Drained" ELSE drainState
    BY <1>18, <2>5, Zenon
  <2> QED  BY <2>4, <2>5, <2>6, <2>7, Zenon
<1>20. lastRead' = lastRead /\ aborted' = aborted /\ UNCHANGED <<stopped, bypassCaches>>
  BY <1>19
<1>21. ~bypassCaches
  <2>1. pendingRequests # <<>>
    BY <1>3, <1>4
  <2> QED  BY <1>1, <2>1, Zenon DEF Modes
<1>22. PICK b : b = block
  BY Zenon
<1>23. PICK next : next = nextAddr
  BY Zenon
<1>24. PICK end : end = endAddr
  BY Zenon
<1>25. /\ resumeFill(buf2, y, free2, b, next, end, ds)
       /\ Good(buf2, y, free2, b, next, end, lastRead', aborted')
  BY <1>17, <1>19, <1>20, <1>22, <1>23, <1>24, Zenon
<1>26. Members' /\ Modes' /\ IdleDue'
  BY <1>1, <1>19, <1>20, <1>21, <1>25, FillStep, Zenon
<1> QED  BY <1>26, Zenon DEF IInv, Members, IdleDue

(* stopFill cancels the requests; abortFrame empties the FIFO as well.     *)
LEMMA StopFillStep ==
    ASSUME IInv, NEW flush \in BOOLEAN, stopFill(flush)
    PROVE  IInv'
<1>1. Members /\ Modes /\ IdleDue
  BY IInvParts, Zenon
<1>2. PICK w, a \in Seq(Word) :
              /\ w = Wanted(pendingRequests) /\ a = Asked(pendingRequests)
              /\ Len(w) <= Len(a)
              /\ buffer \in Seq(Word) /\ pendingRequests \in Seq(Request)
              /\ freeRequests \in Nat /\ block \in Nat /\ nextAddr \in Nat
              /\ endAddr \in Nat /\ nextAddr <= endAddr
              /\ lastRead \in LastWord /\ aborted \in Nat
              /\ Len(buffer) + Len(a) <= fifoSize
              /\ freeRequests + Len(pendingRequests) = maxPending
              /\ Order(Cat(buffer, w), block, nextAddr, endAddr, lastRead, aborted)
  BY <1>1, MembersParts, Zenon
<1>3. /\ nextAddr' = endAddr
      /\ pendingRequests' = Canceled(pendingRequests)
      /\ buffer' = (IF flush THEN <<>> ELSE buffer)
      /\ lastRead' = (IF flush THEN <<0, 0>> ELSE lastRead)
      /\ aborted' = (IF flush THEN block ELSE aborted)
      /\ idleOwed' = idleOwed
      /\ silentEnd' = (silentEnd \/ pendingRequests = <<>>)
      /\ UNCHANGED <<block, endAddr, freeRequests, callback, inDmaDone, bypassCaches,
                     stopped>>
  BY Zenon DEF stopFill
<1>4. PICK p \in Seq(Request) : p = pendingRequests
  BY <1>2, Zenon
<1>5. PICK q : q = pendingRequests'
  BY Zenon
<1>6. q \in Seq(Request) /\ Len(q) = Len(p) /\ Asked(q) = a /\ Wanted(q) = <<>>
  <2>1. /\ Canceled(p) \in Seq(Request) /\ Len(Canceled(p)) = Len(p)
        /\ Asked(Canceled(p)) = Asked(p) /\ Wanted(Canceled(p)) = <<>>
    BY CanceledWords, Zenon
  <2> QED  BY <1>2, <1>3, <1>4, <1>5, <2>1, Zenon
<1>7. q = <<>> <=> p = <<>>
  BY <1>6, EmptySeq
<1>8. block' = block /\ endAddr' = endAddr /\ freeRequests' = freeRequests
  BY <1>3, Zenon
<1>9. PICK b \in Nat : b = block
  BY <1>2, Zenon
<1>10. PICK end \in Nat : end = endAddr
  BY <1>2, Zenon
<1>11. PICK free \in Nat : free = freeRequests
  BY <1>2, Zenon
<1>12. <<>> \in Seq(Word) /\ Len(<<>>) = 0 /\ end <= end
  OBVIOUS
<1>13. free + Len(q) = maxPending
  BY <1>2, <1>4, <1>6, <1>11, Zenon
<1>14. ASSUME flush PROVE Members'
  <2>1. /\ buffer' = <<>> /\ lastRead' = <<0, 0>> /\ aborted' = b /\ nextAddr' = end
        /\ endAddr' = end /\ block' = b /\ freeRequests' = free
    BY <1>3, <1>8, <1>9, <1>10, <1>11, <1>14, Zenon
  <2>2. Order(<<>>, b, end, end, <<0, 0>>, b)
    BY EmptyGood, Zenon
  <2>3. Cat(<<>>, <<>>) = <<>>
    BY <1>12, CatType, Zenon
  <2>4. Len(<<>>) + Len(a) <= fifoSize
    <3>1. PICK n \in Nat : n = Len(buffer)
      BY <1>2, LenProperties, Zenon
    <3>2. PICK m \in Nat : m = Len(a)
      BY LenProperties, Zenon
    <3>3. n + m <= fifoSize
      BY <1>2, <3>1, <3>2, Zenon
    <3>4. 0 + m <= fifoSize
      BY <3>3, FifoAssumption
    <3> QED  BY <1>12, <3>2, <3>4, Zenon
  <2>5. Room(<<>>, q, free)
    BY <1>6, <1>13, <2>4, Zenon DEF Room, SizePending
  <2>6. Typed(<<>>, q, free, b, end, end)
    BY <1>6, <1>12, Zenon DEF Typed
  <2>7. <<0, 0>> \in LastWord
    BY Zenon DEF LastWord
  <2>8. Good(<<>>, q, free, b, end, end, <<0, 0>>, b)
    BY <1>6, <2>2, <2>3, <2>5, <2>6, <2>7, Zenon DEF Good
  <2> QED  BY <1>5, <2>1, <2>8, Zenon DEF Members
<1>15. ASSUME ~flush PROVE Members'
  <2>1. PICK buf \in Seq(Word) : buf = buffer
    BY <1>2, Zenon
  <2>2. PICK lr \in LastWord : lr = lastRead
    BY <1>2, Zenon
  <2>3. PICK ab \in Nat : ab = aborted
    BY <1>2, Zenon
  <2>4. PICK next \in Nat : next = nextAddr
    BY <1>2, Zenon
  <2>5. /\ buffer' = buf /\ lastRead' = lr /\ aborted' = ab /\ nextAddr' = end
        /\ endAddr' = end /\ block' = b /\ freeRequests' = free
    BY <1>3, <1>8, <1>9, <1>10, <1>11, <1>15, <2>1, <2>2, <2>3, Zenon
  <2>6. Order(Cat(buf, w), b, next, end, lr, ab)
    BY <1>2, <1>9, <1>10, <2>1, <2>2, <2>3, <2>4, Zenon
  <2>7. Order(buf, b, end, end, lr, ab)
    BY <1>2, <2>6, StopInOrder, Zenon
  <2>8. Cat(buf, Wanted(q)) = buf
    BY <1>6, CatType, Zenon
  <2>9. Room(buf, q, free)
    BY <1>2, <1>6, <1>13, <2>1, Zenon DEF Room, SizePending
  <2>10. Typed(buf, q, free, b, end, end)
    BY <1>6, <1>12, Zenon DEF Typed
  <2>11. Good(buf, q, free, b, end, end, lr, ab)
    BY <2>7, <2>8, <2>9, <2>10, Zenon DEF Good
  <2> QED  BY <1>5, <2>5, <2>11, Zenon DEF Members
<1>16. Members'
  BY <1>14, <1>15, Zenon
<1>17. Modes'
  <2>1. idleOwed' = idleOwed /\ silentEnd' \in BOOLEAN
    BY <1>3, Zenon
  <2>2. (pendingRequests' = <<>> <=> pendingRequests = <<>>)
    BY <1>4, <1>5, <1>7, Zenon
  <2>3. /\ bypassCaches' = bypassCaches /\ stopped' = stopped /\ inDmaDone' = inDmaDone
        /\ callback' = callback
    BY <1>3, Zenon
  <2> QED  BY <1>1, <2>1, <2>2, <2>3 DEF Modes
<1>18. IdleDue'
  BY <1>3, <1>4, <1>5, <1>7, Zenon DEF IdleDue, isActive
<1> QED  BY <1>16, <1>17, <1>18, Zenon DEF IInv, Members, IdleDue

(* A new engine starts empty.                                              *)
LEMMA RecreateStep ==
    ASSUME IInv, Recreate
    PROVE  IInv'
<1>1. Members /\ Modes /\ IdleDue
  BY IInvParts, Zenon
<1>2. PICK b \in Nat : b = block
  BY <1>1, Zenon DEF Members, Good, Typed
<1>3. 0 \in Nat
  OBVIOUS
<1>4. Good(<<>>, <<>>, maxPending, b, 0, 0, <<0, 0>>, b)
  BY <1>3, EmptyGood, Zenon
<1>5. Members'
  BY <1>2, <1>4, Zenon DEF Recreate, Members
<1>6. Modes'
  BY <1>1, Zenon DEF Modes, Recreate
<1>7. IdleDue'
  BY Zenon DEF IdleDue, Recreate
<1> QED  BY <1>5, <1>6, <1>7, Zenon DEF IInv, Members, IdleDue

(* The steps that leave the data alone.                                    *)
LEMMA SameMembers ==
    ASSUME Members, UNCHANGED <<buffer, block, nextAddr, endAddr, pendingRequests,
                                freeRequests, lastRead, aborted>>
    PROVE  Members'
BY Zenon DEF Members

(* dmaDone clears the debt exactly when the engine is idle.                *)
LEMMA EndDmaDoneStep ==
    ASSUME IInv, EndDmaDone
    PROVE  IInv'
<1>1. Members /\ Modes /\ IdleDue
  BY IInvParts, Zenon
<1>2. Members'
  BY <1>1, SameMembers, Zenon DEF EndDmaDone
<1>3. Modes'
  BY <1>1, Zenon DEF Modes, EndDmaDone
<1>4. IdleDue'
  BY <1>1, Zenon DEF IdleDue, EndDmaDone, IsIdle, isActive, atEndOfBlock
<1> QED  BY <1>2, <1>3, <1>4, Zenon DEF IInv, Members, IdleDue

(* Returning from onEndOfBlock changes none of the data.                   *)
LEMMA EndOfFrameStep ==
    ASSUME IInv, EndOfFrame
    PROVE  IInv'
<1>1. Members /\ Modes /\ IdleDue
  BY IInvParts, Zenon
<1>2. Members'
  BY <1>1, SameMembers, Zenon DEF EndOfFrame
<1>3. Modes'
  BY <1>1 DEF Modes, EndOfFrame
<1>4. IdleDue'
  BY <1>1 DEF IdleDue, EndOfFrame, isActive, atEndOfBlock
<1> QED  BY <1>2, <1>3, <1>4, Zenon DEF IInv, Members, IdleDue

(* The simulation stops only with nothing under way.                       *)
LEMMA DrainStep ==
    ASSUME IInv, drain
    PROVE  IInv'
<1>1. Members /\ Modes /\ IdleDue
  BY IInvParts, Zenon
<1>2. Members'
  BY <1>1, SameMembers, Zenon DEF drain, fillVars
<1>3. Modes'
  BY <1>1 DEF Modes, drain, fillVars, Ready, NothingPending
<1>4. IdleDue'
  BY <1>1 DEF IdleDue, drain, fillVars, isActive, atEndOfBlock
<1> QED  BY <1>2, <1>3, <1>4, Zenon DEF IInv, Members, IdleDue

(* The mode changes only in a stopped system, with nothing under way.      *)
LEMMA ResumeStep ==
    ASSUME IInv, Resume
    PROVE  IInv'
<1>1. Members /\ Modes /\ IdleDue
  BY IInvParts, Zenon
<1>2. Members'
  BY <1>1, SameMembers, Zenon DEF Resume, fillVars
<1>3. Modes'
  BY <1>1 DEF Modes, Resume, fillVars
<1>4. IdleDue'
  BY <1>1 DEF IdleDue, Resume, fillVars, isActive, atEndOfBlock
<1> QED  BY <1>2, <1>3, <1>4, Zenon DEF IInv, Members, IdleDue

(* Every step keeps the invariant.                                         *)
LEMMA NextIInv == IInv /\ [Next]_vars => IInv'
<1> SUFFICES ASSUME IInv, [Next]_vars PROVE IInv'
  OBVIOUS
<1>1. ASSUME NEW size \in BlockSizes, startFill(size) PROVE IInv'
  <2>1. /\ ~stopped
        /\ resumeFill(buffer, pendingRequests, freeRequests, block + 1, 0, size, drainState)
        /\ UNCHANGED <<drainState, lastRead, aborted, inDmaDone, bypassCaches, stopped>>
    BY <1>1, Zenon DEF startFill, Ready
  <2> QED  BY <2>1, NewBlockStep, Zenon
<1>2. ASSUME NEW size \in BlockSizes, NextLine(size) PROVE IInv'
  <2>1. /\ callback = "onEndOfBlock"
        /\ resumeFill(buffer, pendingRequests, freeRequests, block + 1, 0, size, drainState)
        /\ UNCHANGED <<drainState, lastRead, aborted, inDmaDone, bypassCaches, stopped>>
    BY <1>2, Zenon DEF NextLine
  <2>2. ~stopped
    BY <2>1, Zenon DEF IInv, Modes
  <2> QED  BY <2>1, <2>2, NewBlockStep, Zenon
<1>3. ASSUME NEW flush \in BOOLEAN, stopFill(flush) PROVE IInv'
  BY <1>3, StopFillStep, Zenon
<1>4. ASSUME NEW len \in GetSizes, tryGet(len) PROVE IInv'
  BY <1>4, TryGetStep, Zenon
<1>5. ASSUME NEW i \in DOMAIN pendingRequests, dmaDone(i) PROVE IInv'
  BY <1>5, DmaDoneStep, Zenon
<1>6. CASE UNCHANGED vars
  BY <1>6 DEF vars, fillVars, IInv, Modes, isActive, atEndOfBlock
<1> QED  BY <1>1, <1>2, <1>3, <1>4, <1>5, <1>6, EndDmaDoneStep, EndOfFrameStep,
             RecreateStep, DrainStep, ResumeStep, Zenon DEF Next

-----------------------------------------------------------------------------
(*                              The theorems                               *)

(* The members always fit together.                                        *)
LEMMA FifoInvariant == Spec => []IInv
<1>1. Init => IInv
  BY InitIInv, Zenon
<1>2. IInv /\ [Next]_vars => IInv'
  BY NextIInv, Zenon
<1> QED  BY <1>1, <1>2, PTL DEF Spec

(* Fifo::write never panics on "Trying to overfill FIFO buffer": the FIFO  *)
(* has room for all that is under way, no DmaDoneEvent is lost, and        *)
(* nothing is under way while the caches are bypassed.                     *)
THEOREM FifoNeverOverfilled == Spec => []NeverOverfilled
<1>1. IInv => NeverOverfilled
  BY Zenon DEF IInv, Good, Room, Modes, NeverOverfilled
<1> QED  BY <1>1, FifoInvariant, PTL

(* The device reads the words of the blocks in the order of the addresses, *)
(* without gaps, in whatever order the responses arrive.                   *)
THEOREM FifoDataInOrder == Spec => []DataInOrder
<1>1. IInv => DataInOrder
  <2> SUFFICES ASSUME IInv PROVE DataInOrder
    OBVIOUS
  <2>1. Members
    BY IInvParts, Zenon
  <2>2. PICK w, a \in Seq(Word) :
              /\ w = Wanted(pendingRequests) /\ a = Asked(pendingRequests)
              /\ Len(w) <= Len(a)
              /\ buffer \in Seq(Word) /\ pendingRequests \in Seq(Request)
              /\ freeRequests \in Nat /\ block \in Nat /\ nextAddr \in Nat
              /\ endAddr \in Nat /\ nextAddr <= endAddr
              /\ lastRead \in LastWord /\ aborted \in Nat
              /\ Len(buffer) + Len(a) <= fifoSize
              /\ freeRequests + Len(pendingRequests) = maxPending
              /\ Order(Cat(buffer, w), block, nextAddr, endAddr, lastRead, aborted)
    BY <2>1, MembersParts, Zenon
  <2>3. PICK str \in Seq(Word) : str = Cat(buffer, w)
    BY <2>2, WordCat, Zenon
  <2>4. Stream = str
    BY <2>2, <2>3, Zenon DEF Stream, Cat
  <2>5. Seen(lastRead) \in Seq(Word)
    BY <2>2, SeenType, Zenon
  <2>6. PICK words \in Seq(Word) : words = Cat(Seen(lastRead), str)
    BY <2>5, WordCat, Zenon
  <2>7. words = IF lastRead = <<0, 0>> THEN Stream ELSE <<lastRead>> \o Stream
    <3>1. CASE lastRead = <<0, 0>>
      <4>1. Cat(<<>>, str) = str
        BY CatType, Zenon
      <4> QED  BY <2>4, <2>6, <3>1, <4>1, Zenon DEF Seen
    <3>2. CASE lastRead # <<0, 0>>
      BY <2>4, <2>6, <3>2, Zenon DEF Seen, Cat
    <3> QED  BY <3>1, <3>2, Zenon
  <2>8. InOrder(words) /\ Reached(words, block, nextAddr, endAddr)
    BY <2>2, <2>3, <2>6, Zenon DEF Order
  <2>9. \A i \in 1..(Len(words) - 1) :
              \/ words[i + 1] = <<words[i][1], words[i][2] + 1>>
              \/ words[i + 1][1] > words[i][1] /\ words[i + 1][2] = 1
    BY <2>8, Zenon DEF InOrder, Follows
  <2>10. ASSUME words # <<>>, ~atEndOfBlock, words[Len(words)][1] = block
         PROVE  words[Len(words)][2] = nextAddr
    <3>1. \/ words[Len(words)] = <<block, nextAddr>>
          \/ words[Len(words)][1] < block
      BY <2>8, <2>10, Zenon DEF Reached, atEndOfBlock
    <3>2. ~(block < block)
      BY <2>2
    <3>3. CASE words[Len(words)] = <<block, nextAddr>>
      BY <3>3
    <3> QED  BY <2>10, <3>1, <3>2, <3>3, Zenon
  <2> QED  BY <2>7, <2>9, <2>10, Zenon DEF DataInOrder
<1> QED  BY <1>1, FifoInvariant, PTL

(* After abortFrame no word of an aborted block enters the FIFO, not even  *)
(* once late responses arrive.                                             *)
THEOREM FifoAbortedDataDropped == Spec => []AbortedDataDropped
<1>1. IInv => AbortedDataDropped
  <2> SUFFICES ASSUME IInv, NEW v \in Elements(buffer) PROVE v[1] > aborted
    BY Zenon DEF AbortedDataDropped
  <2>1. /\ Typed(buffer, pendingRequests, freeRequests, block, nextAddr, endAddr)
        /\ Order(Cat(buffer, Wanted(pendingRequests)), block, nextAddr, endAddr,
                 lastRead, aborted)
    BY Zenon DEF IInv, Good
  <2>2. buffer \in Seq(Word) /\ pendingRequests \in Seq(Request)
    BY <2>1, Zenon DEF Typed
  <2>3. PICK w \in Seq(Word) : w = Wanted(pendingRequests)
    BY <2>2, AskedType, Zenon
  <2>4. PICK buf \in Seq(Word) : buf = buffer
    BY <2>2, Zenon
  <2>5. After(Cat(buf, w), aborted)
    BY <2>1, <2>3, <2>4, Zenon DEF Order
  <2>6. PICK i \in 1..Len(buf) : v = buf[i]
    BY <2>4, LenProperties, Zenon DEF Elements
  <2>7. Len(Cat(buf, w)) = Len(buf) + Len(w) /\ Cat(buf, w)[i] = buf[i]
    <3>1. /\ Len(Cat(buf, w)) = Len(buf) + Len(w)
          /\ \A k \in 1..Len(buf) : Cat(buf, w)[k] = buf[k]
      BY WordCat, Zenon
    <3> QED  BY <3>1, Zenon
  <2>8. i \in 1..Len(Cat(buf, w))
    <3>1. Len(buf) \in Nat /\ Len(w) \in Nat
      BY LenProperties, Zenon
    <3>2. i \in 1..(Len(buf) + Len(w))
      BY <3>1
    <3> QED  BY <2>7, <3>2, Zenon
  <2> QED  BY <2>5, <2>6, <2>7, <2>8, Zenon DEF After
<1> QED  BY <1>1, FifoInvariant, PTL

(* An inactive engine that sent requests has called onIdle, unless it was  *)
(* stopped with nothing under way or its block ended in functional mode.   *)
THEOREM FifoIdleReported == Spec => []IdleReported
<1>1. IInv => IdleReported
  BY Zenon DEF IInv, IdleReported, Ready
<1> QED  BY <1>1, FifoInvariant, PTL
=============================================================================
