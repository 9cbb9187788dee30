--------------------------- MODULE AttBearer_proofs ---------------------------
(***************************************************************************)
(* Proofs about the ATT bearer, for any number of channels, operations and *)
(* security levels, and for any user.                                      *)
(***************************************************************************)
EXTENDS AttBearer, WellFoundedInduction, FiniteSetTheorems, SequenceTheorems, TLAPS

-----------------------------------------------------------------------------
(* The inductive invariant. *)

\* No operation is in a queue twice.
Distinct(q) == \A i, j \in DOMAIN q : q[i] = q[j] => i = j

\* Where an operation can be: in a queue of the bearer or of a channel, pending on
\* a channel, or in the hands of a handler.
InHome(h, c, o) ==
    \/ h = "req" /\ c = FirstChan /\ o \in Members(reqQ)
    \/ h = "ind" /\ c = FirstChan /\ o \in Members(indQ)
    \/ h = "write" /\ c = FirstChan /\ o \in Members(writeQ)
    \/ h = "hand" /\ c = FirstChan /\ o \in Members(Taken)
    \/ h = "chan" /\ o \in Members(chanQ[c])
    \/ h = "pendReq" /\ o = pendReq[c]
    \/ h = "pendInd" /\ o = pendInd[c]

HomeNames == {"req", "ind", "write", "hand", "chan", "pendReq", "pendInd"}
Homes(o) == {h \in HomeNames \X Chans : InHome(h[1], h[2], o)}

Alive(o) == o <= used /\ ~Freed(o)

HomeOf(o) ==
    IF Alive(o) THEN \E h \in HomeNames \X Chans : Homes(o) = {h} ELSE Homes(o) = {}

\* An operation that is created and not freed has one home, any other has none.
Homed ==
    /\ \A o \in Ops : HomeOf(o)
    /\ Distinct(reqQ) /\ Distinct(indQ) /\ Distinct(writeQ) /\ Distinct(Taken)
    /\ \A c \in Chans : Distinct(chanQ[c])

\* The kinds of the operations in each queue.
Sorted ==
    /\ \A o \in Members(reqQ) : kind[o] = "req"
    /\ \A o \in Members(indQ) : kind[o] = "ind"
    /\ \A o \in Members(writeQ) : kind[o] \in {"cmd", "rsp"}
    /\ \A c \in Chans : \A o \in Members(chanQ[c]) : kind[o] \in Mute

\* What a handler has taken, and from where; a detached channel has nothing pending.
Handler ==
    /\ at = "idle" => hand = <<>>
    /\ called => hand # <<>>
    /\ at = "rsp" => chan \in chans /\ pendReq[chan] # None /\ hand = <<pendReq[chan]>>
    /\ at = "conf" => chan \in chans /\ pendInd[chan] # None /\ hand = <<pendInd[chan]>>
    /\ at = "timeout" => chan \in chans /\ Len(hand) = 1
    /\ \A c \in Chans \ chans : pendReq[c] = None /\ pendInd[c] = None

\* What has become of an operation, as far as its handlers tell: not created; a
\* response; handlers still set; handlers gone.
LifeOf(o) ==
    \/ used < o /\ hist[o] = <<>> /\ o \notin armed
    \/ o <= used /\ kind[o] \in Mute /\ o \notin armed /\ hist[o] \in {<<>>, <<"free">>}
    \/ o <= used /\ kind[o] \notin Mute /\ o \in armed /\ hist[o] \in {<<>>, <<"cb">>}
    \/ /\ o <= used /\ kind[o] \notin Mute /\ o \notin armed
       /\ hist[o] \in {<<"destroy">>, <<"cb", "destroy">>,
                       <<"destroy", "free">>, <<"cb", "destroy", "free">>}

Life == \A o \in Ops : LifeOf(o)

\* The only operation with a callback behind and handlers still set is the one whose
\* callback runs.
CallInv ==
    \A o \in armed : "cb" \in Members(hist[o]) <=> called /\ o = Head(hand) /\ kind[o] # "cmd"

\* A request or an indication loses its handlers by its callback or by the user.
Told ==
    \A o \in 1..used :
       (kind[o] \in {"req", "ind"} /\ o \notin armed /\ o \notin dropped) =>
          "cb" \in Members(hist[o])

IndInv == TypeOK /\ Homed /\ Sorted /\ Handler /\ Life /\ CallInv /\ Told
-----------------------------------------------------------------------------
(* Facts about queues. *)

\* What a queue holds.
LEMMA MembersType == ASSUME NEW S, NEW q \in Seq(S) PROVE Members(q) \subseteq S
  BY DEF Members

\* The empty queue holds nothing.
LEMMA MembersEmpty == Members(<<>>) = {} /\ Distinct(<<>>)
  BY DEF Members, Distinct

\* queue_push_tail: one more in the queue, and still none twice.
LEMMA MembersAppend ==
    ASSUME NEW S, NEW q \in Seq(S), NEW e \in S
    PROVE  /\ Append(q, e) \in Seq(S)
           /\ Members(Append(q, e)) = Members(q) \cup {e}
           /\ Distinct(q) /\ e \notin Members(q) => Distinct(Append(q, e))
<1>1. /\ Append(q, e) \in Seq(S) /\ Len(q) \in Nat /\ DOMAIN q = 1..Len(q)
      /\ DOMAIN Append(q, e) = 1..(Len(q) + 1)
      /\ \A i \in 1..Len(q) : Append(q, e)[i] = q[i]
      /\ Append(q, e)[Len(q) + 1] = e
  OBVIOUS
<1>2. QED
  BY <1>1 DEF Members, Distinct

\* queue_push_head: the same at the other end.
LEMMA MembersCons ==
    ASSUME NEW S, NEW q \in Seq(S), NEW e \in S
    PROVE  /\ <<e>> \o q \in Seq(S)
           /\ Members(<<e>> \o q) = Members(q) \cup {e}
           /\ Distinct(q) /\ e \notin Members(q) => Distinct(<<e>> \o q)
<1> DEFINE r == <<e>> \o q
<1>1. /\ r \in Seq(S) /\ Len(q) \in Nat /\ DOMAIN q = 1..Len(q)
      /\ DOMAIN r = 1..(Len(q) + 1)
      /\ r[1] = e
      /\ \A i \in 2..(Len(q) + 1) : r[i] = q[i - 1]
  OBVIOUS
<1> HIDE DEF r
<1>2. \A i \in 1..Len(q) : i + 1 \in 2..(Len(q) + 1) /\ r[i + 1] = q[i]
  BY <1>1
<1>3. Members(r) = Members(q) \cup {e}
  <2>1. ASSUME NEW x \in Members(r) PROVE x \in Members(q) \cup {e}
    <3>1. PICK i \in 1..(Len(q) + 1) : x = r[i]
      BY <1>1, <2>1 DEF Members
    <3>2. i = 1 \/ (i \in 2..(Len(q) + 1) /\ i - 1 \in 1..Len(q))
      BY <1>1
    <3>3. QED
      BY <1>1, <3>1, <3>2 DEF Members
  <2>2. ASSUME NEW x \in Members(q) PROVE x \in Members(r)
    <3>1. PICK i \in 1..Len(q) : x = q[i]
      BY <1>1, <2>2 DEF Members
    <3>2. i + 1 \in DOMAIN r /\ r[i + 1] = x
      BY <1>1, <1>2, <3>1
    <3>3. QED
      BY <3>2 DEF Members
  <2>3. e \in Members(r)
    BY <1>1 DEF Members
  <2>4. QED
    BY <2>1, <2>2, <2>3
<1>4. ASSUME Distinct(q), e \notin Members(q), NEW i \in DOMAIN r, NEW j \in DOMAIN r, r[i] = r[j]
      PROVE  i = j
  <2>1. \A k \in DOMAIN r : k = 1 \/ (k \in 2..(Len(q) + 1) /\ k - 1 \in 1..Len(q))
    BY <1>1
  <2>2. \A k \in DOMAIN r : k # 1 => r[k] # e
    BY <1>1, <1>4, <2>1 DEF Members
  <2>3. i # 1 /\ j # 1 => i - 1 = j - 1
    BY <1>1, <1>4, <2>1 DEF Distinct
  <2>4. QED
    BY <1>1, <1>4, <2>1, <2>2, <2>3
<1>5. QED
  BY <1>1, <1>3, <1>4 DEF r, Distinct

\* A handler that has taken one operation.
LEMMA MembersOne ==
    ASSUME NEW e
    PROVE  Members(<<e>>) = {e} /\ Distinct(<<e>>)
  BY DEF Members, Distinct

\* A handler that has taken two.
LEMMA MembersTwo ==
    ASSUME NEW e, NEW f, e # f
    PROVE  Members(<<e, f>>) = {e, f} /\ Distinct(<<e, f>>)
  BY DEF Members, Distinct

\* queue_pop_head: the first leaves, and no other.
LEMMA MembersTail ==
    ASSUME NEW S, NEW q \in Seq(S), q # <<>>
    PROVE  /\ Tail(q) \in Seq(S) /\ Head(q) \in S
           /\ Head(q) \in Members(q)
           /\ Distinct(q) => Members(Tail(q)) = Members(q) \ {Head(q)} /\ Distinct(Tail(q))
<1>1. /\ Len(q) \in Nat /\ Len(q) >= 1 /\ DOMAIN q = 1..Len(q)
      /\ Tail(q) \in Seq(S) /\ Head(q) \in S /\ Head(q) = q[1]
      /\ DOMAIN Tail(q) = 1..(Len(q) - 1)
      /\ \A i \in 1..(Len(q) - 1) : Tail(q)[i] = q[i + 1]
  OBVIOUS
<1>2. \A i \in 2..Len(q) : i - 1 \in 1..(Len(q) - 1) /\ Tail(q)[i - 1] = q[i]
  BY <1>1
<1>3. Head(q) \in Members(q)
  BY <1>1 DEF Members
<1>4. ASSUME Distinct(q) PROVE Distinct(Tail(q))
  BY <1>1, <1>4 DEF Distinct
<1>5. ASSUME Distinct(q) PROVE Members(Tail(q)) = Members(q) \ {Head(q)}
  <2>1. ASSUME NEW x \in Members(Tail(q)) PROVE x \in Members(q) /\ x # Head(q)
    BY <1>1, <1>5, <2>1 DEF Members, Distinct
  <2>2. ASSUME NEW x \in Members(q), x # Head(q) PROVE x \in Members(Tail(q))
    <3>1. PICK i \in 1..Len(q) : x = q[i]
      BY <1>1, <2>2 DEF Members
    <3>2. i \in 2..Len(q)
      BY <1>1, <2>2, <3>1
    <3>3. QED
      BY <1>1, <1>2, <3>1, <3>2 DEF Members
  <2>3. QED
    BY <2>1, <2>2
<1>6. QED
  BY <1>1, <1>3, <1>4, <1>5

\* The least number of a set, which SelectInSeq takes.
LEMMA MinIsLeast ==
    ASSUME NEW S, S \subseteq Nat, S # {}
    PROVE  Min(S) \in S /\ \A y \in S : Min(S) <= y
<1> DEFINE R == OpToRel(<, Nat)
<1>1. PICK x \in S : \A y \in S : ~(<<y, x>> \in R)
  <2>1. IsWellFoundedOn(R, Nat)
    BY NatLessThanWellFounded
  <2> HIDE DEF R
  <2>2. QED
    BY <2>1, WFMin
<1>2. \A y \in S : x <= y
  <2> TAKE y \in S
  <2>1. ~(y < x)
    BY <1>1 DEF OpToRel, R
  <2>2. QED
    BY <2>1
<1>3. QED
  BY <1>2 DEF Min

\* The place at which queue_remove_if finds the id is the first that has it.
LEMMA FirstFound ==
    ASSUME NEW q \in Seq(Ops), NEW i, Has(q, i)
    PROVE  /\ First(q, i) \in 1..Len(q) /\ id[q[First(q, i)]] = i
           /\ \A n \in 1..Len(q) : id[q[n]] = i => First(q, i) <= n
<1> DEFINE I == {n \in 1..Len(q) : id[q[n]] = i}
<1>1. First(q, i) = Min(I) /\ I # {}
  BY DEF Has, First, SelectInSeq
<1>2. I \subseteq Nat
  OBVIOUS
<1>3. Min(I) \in I /\ \A n \in I : Min(I) <= n
  <2> HIDE DEF I
  <2>1. QED
    BY <1>1, <1>2, MinIsLeast
<1>4. QED
  BY <1>1, <1>3

\* Searching two queues one after the other.
LEMMA FirstOfTwo ==
    ASSUME NEW p \in Seq(Ops), NEW q \in Seq(Ops), NEW i
    PROVE  /\ p \o q \in Seq(Ops)
           /\ Has(p \o q, i) <=> Has(p, i) \/ Has(q, i)
           /\ Has(p, i) => (p \o q)[First(p \o q, i)] = p[First(p, i)]
           /\ ~Has(p, i) /\ Has(q, i) => (p \o q)[First(p \o q, i)] = q[First(q, i)]
<1> DEFINE r == p \o q
<1>1. /\ r \in Seq(Ops) /\ Len(r) = Len(p) + Len(q) /\ Len(p) \in Nat /\ Len(q) \in Nat
      /\ DOMAIN p = 1..Len(p) /\ DOMAIN q = 1..Len(q) /\ DOMAIN r = 1..Len(r)
      /\ \A n \in 1..(Len(p) + Len(q)) : r[n] = IF n <= Len(p) THEN p[n] ELSE q[n - Len(p)]
  BY ConcatProperties
<1> HIDE DEF r
<1>2. \A n \in 1..Len(p) : n \in 1..Len(r) /\ r[n] = p[n]
  BY <1>1
<1>3. \A n \in 1..Len(q) : Len(p) + n \in 1..Len(r) /\ r[Len(p) + n] = q[n]
  <2> TAKE n \in 1..Len(q)
  <2>1. Len(p) + n \in 1..(Len(p) + Len(q)) /\ ~(Len(p) + n <= Len(p)) /\ (Len(p) + n) - Len(p) = n
    BY <1>1
  <2>2. QED
    BY <1>1, <2>1
<1>4. \A n \in 1..Len(r) : n \in 1..Len(p) \/ (n - Len(p) \in 1..Len(q) /\ r[n] = q[n - Len(p)])
  <2> TAKE n \in 1..Len(r)
  <2>1. n <= Len(p) => n \in 1..Len(p)
    BY <1>1
  <2>2. ~(n <= Len(p)) => n - Len(p) \in 1..Len(q)
    BY <1>1
  <2>3. QED
    BY <1>1, <2>1, <2>2
<1>5. Has(r, i) <=> Has(p, i) \/ Has(q, i)
  <2>1. Has(r, i) => Has(p, i) \/ Has(q, i)
    BY <1>1, <1>2, <1>4 DEF Has
  <2>2. Has(p, i) => Has(r, i)
    BY <1>1, <1>2 DEF Has
  <2>3. Has(q, i) => Has(r, i)
    BY <1>1, <1>3 DEF Has
  <2>4. QED
    BY <2>1, <2>2, <2>3
<1>6. ASSUME Has(p, i) PROVE r[First(r, i)] = p[First(p, i)]
  <2> DEFINE n == First(p, i)
  <2>1. n \in 1..Len(p) /\ id[p[n]] = i /\ \A m \in 1..Len(p) : id[p[m]] = i => n <= m
    BY <1>6, FirstFound
  <2> HIDE DEF n
  <2>2. ASSUME NEW m \in 1..Len(r), id[r[m]] = i PROVE n <= m
    <3>1. CASE m \in 1..Len(p)
      BY <1>2, <2>1, <2>2, <3>1
    <3>2. CASE m - Len(p) \in 1..Len(q)
      BY <1>1, <2>1, <3>2
    <3>3. QED
      BY <1>4, <3>1, <3>2
  <2>3. First(r, i) = n
    <3>1. n \in 1..Len(r) /\ id[r[n]] = i
      BY <1>2, <2>1
    <3>2. First(r, i) \in 1..Len(r) /\ First(r, i) <= n /\ id[r[First(r, i)]] = i
      BY <1>1, <1>5, <1>6, <3>1, FirstFound
    <3>3. n <= First(r, i)
      BY <2>2, <3>2
    <3>4. QED
      BY <3>1, <3>2, <3>3
  <2>4. QED
    BY <1>2, <2>1, <2>3 DEF n
<1>7. ASSUME ~Has(p, i), Has(q, i) PROVE r[First(r, i)] = q[First(q, i)]
  <2> DEFINE n == First(q, i)
  <2>1. n \in 1..Len(q) /\ id[q[n]] = i /\ \A m \in 1..Len(q) : id[q[m]] = i => n <= m
    BY <1>7, FirstFound
  <2> HIDE DEF n
  <2>2. ASSUME NEW m \in 1..Len(r), id[r[m]] = i PROVE Len(p) + n <= m
    <3>1. m \notin 1..Len(p)
      BY <1>1, <1>2, <1>7, <2>2 DEF Has
    <3>2. m - Len(p) \in 1..Len(q) /\ id[q[m - Len(p)]] = i
      BY <1>4, <2>2, <3>1
    <3>3. n <= m - Len(p)
      BY <2>1, <3>2
    <3>4. QED
      BY <1>1, <2>1, <3>3
  <2>3. Len(p) + n \in 1..Len(r) /\ id[r[Len(p) + n]] = i
    BY <1>3, <2>1
  <2>4. First(r, i) = Len(p) + n
    <3> DEFINE k == Len(p) + n
    <3>1. First(r, i) \in 1..Len(r) /\ First(r, i) <= k /\ id[r[First(r, i)]] = i
      BY <1>1, <1>5, <1>7, <2>3, FirstFound
    <3>2. k <= First(r, i)
      BY <2>2, <3>1
    <3>3. QED
      BY <2>3, <3>1, <3>2
  <2>5. QED
    BY <1>3, <2>1, <2>4 DEF n
<1>8. QED
  BY <1>1, <1>5, <1>6, <1>7 DEF r

\* A queue from which one position is removed.
LEMMA MembersRemoveAt ==
    ASSUME NEW S, NEW q \in Seq(S), NEW n \in 1..Len(q)
    PROVE  /\ RemoveAt(q, n) \in Seq(S)
           /\ Distinct(q) => /\ Members(RemoveAt(q, n)) = Members(q) \ {q[n]}
                             /\ Distinct(RemoveAt(q, n))
<1> DEFINE r == RemoveAt(q, n)
<1>1. Len(q) \in Nat /\ n \in Nat /\ 1 <= n /\ n <= Len(q) /\ DOMAIN q = 1..Len(q)
  OBVIOUS
<1> DEFINE a == SubSeq(q, 1, n - 1)  b == SubSeq(q, n + 1, Len(q))
<1>2. a \in Seq(S) /\ Len(a) = n - 1 /\ \A k \in 1..(n - 1) : a[k] = q[k]
  <2>1. \A k \in 1..(n - 1) : q[k] \in S
    BY <1>1
  <2>2. QED
    BY <1>1, <2>1, SubSeqProperties
<1>3. b \in Seq(S) /\ Len(b) = Len(q) - n /\ \A k \in 1..(Len(q) - n) : b[k] = q[n + k]
  <2>1. \A k \in (n + 1)..Len(q) : q[k] \in S
    BY <1>1
  <2>2. /\ b \in Seq(S)
        /\ Len(b) = IF n + 1 <= Len(q) THEN Len(q) - (n + 1) + 1 ELSE 0
        /\ \A k \in 1..(Len(q) - (n + 1) + 1) : b[k] = q[n + 1 + k - 1]
    BY <1>1, <2>1, SubSeqProperties
  <2> HIDE DEF b
  <2>3. Len(b) = Len(q) - n
    <3>1. CASE n + 1 <= Len(q)
      <4>1. Len(b) = Len(q) - (n + 1) + 1
        BY <2>2, <3>1, Zenon
      <4>2. QED
        BY <1>1, <4>1
    <3>2. CASE ~(n + 1 <= Len(q))
      <4>1. Len(b) = 0
        BY <2>2, <3>2, Zenon
      <4>2. ASSUME NEW x \in Nat, n <= x, ~(n + 1 <= x) PROVE x - n = 0
        BY <1>1, <4>2
      <4>3. QED
        BY <1>1, <3>2, <4>1, <4>2
    <3>3. QED
      BY <3>1, <3>2
  <2>4. ASSUME NEW k \in 1..(Len(q) - n) PROVE b[k] = q[n + k]
    <3>1. k \in 1..(Len(q) - (n + 1) + 1) /\ n + 1 + k - 1 = n + k
      BY <1>1
    <3>2. QED
      BY <2>2, <3>1
  <2>5. QED
    BY <2>2, <2>3, <2>4
<1>4. r = a \o b
  BY DEF RemoveAt
<1> HIDE DEF r, a, b
<1>5. /\ r \in Seq(S) /\ Len(r) = Len(q) - 1
      /\ \A k \in 1..(Len(q) - 1) : r[k] = IF k <= n - 1 THEN a[k] ELSE b[k - (n - 1)]
  <2>1. /\ r \in Seq(S) /\ Len(r) = Len(a) + Len(b)
        /\ \A k \in 1..(Len(a) + Len(b)) :
              r[k] = IF k <= Len(a) THEN a[k] ELSE b[k - Len(a)]
    BY <1>2, <1>3, <1>4, ConcatProperties
  <2>2. Len(a) = n - 1 /\ Len(a) + Len(b) = Len(q) - 1
    BY <1>1, <1>2, <1>3
  <2>3. QED
    BY <2>1, <2>2
<1>6. /\ r \in Seq(S) /\ DOMAIN r = 1..(Len(q) - 1)
      /\ \A k \in 1..(n - 1) : r[k] = q[k]
      /\ \A k \in n..(Len(q) - 1) : r[k] = q[k + 1]
  <2>1. \A k \in n..(Len(q) - 1) : k - (n - 1) \in 1..(Len(q) - n) /\ n + (k - (n - 1)) = k + 1
    BY <1>1
  <2>2. DOMAIN r = 1..(Len(q) - 1)
    BY <1>5
  <2>3. ASSUME NEW k \in 1..(n - 1) PROVE r[k] = q[k]
    <3>1. k \in 1..(Len(q) - 1) /\ k <= n - 1
      BY <1>1
    <3>2. QED
      BY <1>2, <1>5, <3>1
  <2>4. ASSUME NEW k \in n..(Len(q) - 1) PROVE r[k] = q[k + 1]
    <3>1. k \in 1..(Len(q) - 1) /\ ~(k <= n - 1)
      BY <1>1
    <3>2. QED
      BY <1>3, <1>5, <2>1, <3>1
  <2>5. QED
    BY <1>5, <2>2, <2>3, <2>4
<1>7. \A k \in DOMAIN r : k \in 1..(n - 1) \/ k \in n..(Len(q) - 1)
  BY <1>1, <1>6
<1>8. ASSUME Distinct(q), NEW i \in DOMAIN r, NEW j \in DOMAIN r, r[i] = r[j] PROVE i = j
  <2> DEFINE p(k) == IF k < n THEN k ELSE k + 1
  <2>1. \A k \in DOMAIN r : p(k) \in DOMAIN q /\ r[k] = q[p(k)]
    BY <1>1, <1>6, <1>7
  <2>2. p(i) = p(j)
    BY <1>8, <2>1 DEF Distinct
  <2>3. i \in Int /\ j \in Int
    BY <1>1, <1>6
  <2>4. QED
    BY <1>1, <2>2, <2>3
<1>9. ASSUME Distinct(q) PROVE Members(r) = Members(q) \ {q[n]}
  <2>1. ASSUME NEW x \in Members(r) PROVE x \in Members(q) /\ x # q[n]
    <3>1. PICK k \in 1..(Len(q) - 1) : x = r[k]
      BY <1>6, <2>1 DEF Members
    <3>2. CASE k < n
      BY <1>1, <1>6, <1>9, <3>1, <3>2 DEF Members, Distinct
    <3>3. CASE k >= n
      BY <1>1, <1>6, <1>9, <3>1, <3>3 DEF Members, Distinct
    <3>4. QED
      BY <1>1, <3>2, <3>3
  <2>2. ASSUME NEW x \in Members(q), x # q[n] PROVE x \in Members(r)
    <3>1. PICK k \in 1..Len(q) : x = q[k]
      BY <1>1, <2>2 DEF Members
    <3>2. CASE k < n
      BY <1>1, <1>6, <3>1, <3>2 DEF Members
    <3>3. CASE k > n
      <4>1. k - 1 \in n..(Len(q) - 1) /\ r[k - 1] = q[k]
        BY <1>1, <1>6, <3>1, <3>3
      <4>2. QED
        BY <1>1, <1>6, <3>1, <4>1 DEF Members
    <3>4. QED
      BY <1>1, <2>2, <3>1, <3>2, <3>3
  <2>3. QED
    BY <2>1, <2>2
<1>10. QED
  BY <1>6, <1>8, <1>9 DEF r, Distinct

\* queue_remove_if: the first operation with the id leaves, and no other.
LEMMA MembersWithout ==
    ASSUME NEW q \in Seq(Ops), NEW i
    PROVE  /\ Without(q, i) \in Seq(Ops)
           /\ ~Has(q, i) => Without(q, i) = q
           /\ Distinct(q) /\ Has(q, i) =>
                 /\ Members(Without(q, i)) = Members(q) \ {q[First(q, i)]}
                 /\ Distinct(Without(q, i))
                 /\ q[First(q, i)] \in Members(q)
<1>1. ASSUME ~Has(q, i) PROVE Without(q, i) = q
  BY <1>1 DEF Has, Without, RemoveFirstMatch, SelectInSeq
<1>2. CASE Has(q, i)
  <2>1. Without(q, i) = RemoveAt(q, First(q, i))
    BY <1>2 DEF Has, Without, First, RemoveFirstMatch, SelectInSeq
  <2>2. First(q, i) \in 1..Len(q)
    BY <1>2, FirstFound
  <2>3. q[First(q, i)] \in Members(q)
    BY <2>2 DEF Members
  <2>4. /\ RemoveAt(q, First(q, i)) \in Seq(Ops)
        /\ Distinct(q) => /\ Members(RemoveAt(q, First(q, i))) = Members(q) \ {q[First(q, i)]}
                          /\ Distinct(RemoveAt(q, First(q, i)))
    BY <2>2, MembersRemoveAt
  <2>5. QED
    BY <1>2, <2>1, <2>3, <2>4
<1>3. QED
  BY <1>1, <1>2
-----------------------------------------------------------------------------
(* What the handlers of an operation have been told. *)

\* The histories that occur.
Histories == {<<>>, <<"cb">>, <<"destroy">>, <<"cb", "destroy">>, <<"free">>,
              <<"destroy", "free">>, <<"cb", "destroy", "free">>}

\* What is in a history.
LEMMA HistoryMembers ==
    /\ Members(<<>>) = {} /\ Members(<<"cb">>) = {"cb"}
    /\ Members(<<"destroy">>) = {"destroy"} /\ Members(<<"free">>) = {"free"}
    /\ Members(<<"cb", "destroy">>) = {"cb", "destroy"}
    /\ Members(<<"destroy", "free">>) = {"destroy", "free"}
    /\ Members(<<"cb", "destroy", "free">>) = {"cb", "destroy", "free"}
  BY DEF Members

\* Concatenations of short sequences.
LEMMA OneAndOne ==
    ASSUME NEW S, NEW e \in S, NEW f \in S
    PROVE  <<e>> \o <<f>> = <<e, f>>
<1> DEFINE s == <<e>> \o <<f>>  t == <<e, f>>
<1>1. s \in Seq(S) /\ Len(s) = 2 /\ s[1] = e /\ s[2] = f
  OBVIOUS
<1>2. t \in Seq(S) /\ Len(t) = 2 /\ t[1] = e /\ t[2] = f
  OBVIOUS
<1> HIDE DEF s, t
<1>3. \A i \in 1..2 : s[i] = t[i]
  BY <1>1, <1>2
<1>4. QED
  BY <1>1, <1>2, <1>3, SeqEqual DEF s, t

\* One more at the end of two.
LEMMA TwoAndOne ==
    ASSUME NEW S, NEW e \in S, NEW f \in S, NEW g \in S
    PROVE  <<e, f>> \o <<g>> = <<e, f, g>>
<1> DEFINE s == <<e, f>> \o <<g>>  t == <<e, f, g>>
<1>1. s \in Seq(S) /\ Len(s) = 3 /\ s[1] = e /\ s[2] = f /\ s[3] = g
  OBVIOUS
<1>2. t \in Seq(S) /\ Len(t) = 3 /\ t[1] = e /\ t[2] = f /\ t[3] = g
  OBVIOUS
<1> HIDE DEF s, t
<1>3. \A i \in 1..3 : s[i] = t[i]
  BY <1>1, <1>2
<1>4. QED
  BY <1>1, <1>2, <1>3, SeqEqual DEF s, t

\* A history with nothing added, or the call of the destroy function, or the free, or both.
LEMMA HistoryGrows ==
    /\ \A h \in Histories : h \in Seq({"cb", "destroy", "free"}) /\ h \o <<>> \o <<>> = h
    /\ <<>> \o <<"destroy">> \o <<>> = <<"destroy">>
    /\ <<"cb">> \o <<"destroy">> \o <<>> = <<"cb", "destroy">>
    /\ <<>> \o <<"destroy">> \o <<"free">> = <<"destroy", "free">>
    /\ <<"cb">> \o <<"destroy">> \o <<"free">> = <<"cb", "destroy", "free">>
    /\ <<"destroy">> \o <<>> \o <<"free">> = <<"destroy", "free">>
    /\ <<"cb", "destroy">> \o <<>> \o <<"free">> = <<"cb", "destroy", "free">>
    /\ <<>> \o <<>> \o <<"free">> = <<"free">>
    /\ Append(<<>>, "cb") = <<"cb">>
<1> DEFINE S == {"cb", "destroy", "free"}
<1>1. /\ <<>> \in Seq(S) /\ <<"cb">> \in Seq(S) /\ <<"destroy">> \in Seq(S) /\ <<"free">> \in Seq(S)
      /\ <<"cb", "destroy">> \in Seq(S) /\ <<"destroy", "free">> \in Seq(S)
  OBVIOUS
<1>2. <<"cb", "destroy", "free">> \in Seq(S)
  OBVIOUS
<1>3. "cb" \in S /\ "destroy" \in S /\ "free" \in S
  OBVIOUS
<1>4. /\ <<"cb">> \o <<"destroy">> = <<"cb", "destroy">>
      /\ <<"destroy">> \o <<"free">> = <<"destroy", "free">>
      /\ <<"cb", "destroy">> \o <<"free">> = <<"cb", "destroy", "free">>
  BY <1>3, OneAndOne, TwoAndOne
<1>5. Append(<<>>, "cb") = <<"cb">>
  OBVIOUS
<1> HIDE DEF S
<1>6. \A h \in Seq(S) : h \o <<>> = h /\ <<>> \o h = h
  BY ConcatEmptySeq
<1>7. \A h \in Histories : h \in Seq(S) /\ h \o <<>> \o <<>> = h
  BY <1>1, <1>2, <1>6 DEF Histories
<1>8. /\ <<>> \o <<"destroy">> \o <<>> = <<"destroy">>
      /\ <<"cb">> \o <<"destroy">> \o <<>> = <<"cb", "destroy">>
      /\ <<>> \o <<"destroy">> \o <<"free">> = <<"destroy", "free">>
      /\ <<"cb">> \o <<"destroy">> \o <<"free">> = <<"cb", "destroy", "free">>
      /\ <<"destroy">> \o <<>> \o <<"free">> = <<"destroy", "free">>
      /\ <<"cb", "destroy">> \o <<>> \o <<"free">> = <<"cb", "destroy", "free">>
      /\ <<>> \o <<>> \o <<"free">> = <<"free">>
  <2>1. /\ <<>> \o <<"destroy">> = <<"destroy">>
        /\ <<"destroy">> \o <<>> = <<"destroy">>
        /\ <<"cb", "destroy">> \o <<>> = <<"cb", "destroy">>
        /\ <<>> \o <<>> = <<>> /\ <<>> \o <<"free">> = <<"free">>
    BY <1>1, <1>6, Zenon
  <2>2. QED
    BY <2>1, <1>4, Zenon
<1>9. QED
  BY <1>5, <1>7, <1>8, Zenon DEF S

\* Of a history in Life, whether the operation was called back and freed.
LEMMA LifeHistories ==
    ASSUME Life, NEW o \in Ops
    PROVE  /\ hist[o] \in Histories
           /\ Freed(o) <=> hist[o] \in {<<"free">>, <<"destroy", "free">>, <<"cb", "destroy", "free">>}
           /\ "cb" \in Members(hist[o]) <=>
                 hist[o] \in {<<"cb">>, <<"cb", "destroy">>, <<"cb", "destroy", "free">>}
           /\ o \in armed => ~Freed(o) /\ o <= used /\ kind[o] \notin Mute
<1>1. hist[o] \in Histories /\ (o \in armed => o <= used /\ kind[o] \notin Mute)
  BY DEF Life, LifeOf, Histories
<1>2. /\ Freed(o) <=> hist[o] \in {<<"free">>, <<"destroy", "free">>, <<"cb", "destroy", "free">>}
      /\ "cb" \in Members(hist[o]) <=>
            hist[o] \in {<<"cb">>, <<"cb", "destroy">>, <<"cb", "destroy", "free">>}
  BY <1>1, HistoryMembers DEF Histories, Freed
<1>3. QED
  BY <1>1, <1>2 DEF Life, LifeOf, Ops

\* The history of one operation after destroy_att_send_op (o is in D) or
\* cancel_att_send_op (o is in C): what is alive is destroyed once.
LEMMA SettleOne ==
    ASSUME TypeOK, Life, UNCHANGED op, NEW D, NEW C, \A o \in D : Alive(o), Settle(D, C),
           NEW o \in Ops
    PROVE  /\ LifeOf(o)'
           /\ Freed(o)' <=> Freed(o) \/ o \in D
           /\ ("cb" \in Members(hist[o]))' <=> "cb" \in Members(hist[o])
           /\ hist'[o] \in Histories
<1> DEFINE x == IF o \in armed \cap (D \cup C) THEN <<"destroy">> ELSE <<>>
           y == IF o \in D THEN <<"free">> ELSE <<>>
           h == hist[o]
<1>1. hist'[o] = h \o x \o y
  BY DEF Settle
<1>2. used' = used /\ kind' = kind /\ (o \in armed' <=> o \in armed /\ o \notin D \cup C)
  BY DEF op, Settle, Disarmed
<1>3. h \in Histories /\ h \o <<>> \o <<>> = h
  BY LifeHistories, HistoryGrows
<1>4. o \in D => o <= used /\ ~Freed(o)
  BY DEF Alive
<1>5. CASE used < o /\ h = <<>> /\ o \notin armed
  <2>1. o \notin D
    BY <1>4, <1>5 DEF TypeOK, Ops
  <2>2. hist'[o] = h
    BY <1>1, <1>3, <1>5, <2>1
  <2>3. QED
    BY <1>2, <1>3, <1>5, <2>1, <2>2 DEF Freed, LifeOf
<1>6. CASE o <= used /\ kind[o] \in Mute /\ o \notin armed /\ h \in {<<>>, <<"free">>}
  <2>1. CASE o \in D
    <3>1. h = <<>>
      BY <1>4, <1>6, <2>1, HistoryMembers DEF Freed, LifeOf
    <3>2. hist'[o] = <<"free">>
      BY <1>1, <1>6, <2>1, <3>1, HistoryGrows
    <3>3. QED
      BY <1>2, <1>6, <2>1, <3>1, <3>2, HistoryMembers DEF Freed, LifeOf, Histories
  <2>2. CASE o \notin D
    <3>1. hist'[o] = h
      BY <1>1, <1>3, <1>6, <2>2
    <3>2. QED
      BY <1>2, <1>3, <1>6, <2>2, <3>1 DEF Freed, LifeOf
  <2>3. QED
    BY <2>1, <2>2
<1>7. CASE o <= used /\ kind[o] \notin Mute /\ o \in armed /\ h \in {<<>>, <<"cb">>}
  <2>1. CASE o \in D
    <3>1. hist'[o] = IF h = <<>> THEN <<"destroy", "free">> ELSE <<"cb", "destroy", "free">>
      BY <1>1, <1>7, <2>1, HistoryGrows
    <3>2. QED
      BY <1>2, <1>7, <2>1, <3>1, HistoryMembers DEF Freed, LifeOf, Histories
  <2>2. CASE o \notin D /\ o \in C
    <3>1. hist'[o] = IF h = <<>> THEN <<"destroy">> ELSE <<"cb", "destroy">>
      BY <1>1, <1>7, <2>2, HistoryGrows
    <3>2. QED
      BY <1>2, <1>7, <2>2, <3>1, HistoryMembers DEF Freed, LifeOf, Histories
  <2>3. CASE o \notin D /\ o \notin C
    <3>1. hist'[o] = h
      BY <1>1, <1>3, <2>3
    <3>2. QED
      BY <1>2, <1>3, <1>7, <2>3, <3>1 DEF Freed, LifeOf
  <2>4. QED
    BY <2>1, <2>2, <2>3
<1>8. CASE /\ o <= used /\ kind[o] \notin Mute /\ o \notin armed
           /\ h \in {<<"destroy">>, <<"cb", "destroy">>,
                     <<"destroy", "free">>, <<"cb", "destroy", "free">>}
  <2>1. CASE o \in D
    <3>1. h \in {<<"destroy">>, <<"cb", "destroy">>}
      BY <1>4, <1>8, <2>1, HistoryMembers DEF Freed, LifeOf
    <3>2. hist'[o] = IF h = <<"destroy">> THEN <<"destroy", "free">>
                     ELSE <<"cb", "destroy", "free">>
      BY <1>1, <1>8, <2>1, <3>1, HistoryGrows
    <3>3. QED
      BY <1>2, <1>8, <2>1, <3>1, <3>2, HistoryMembers DEF Freed, LifeOf, Histories
  <2>2. CASE o \notin D
    <3>1. hist'[o] = h
      BY <1>1, <1>3, <1>8, <2>2
    <3>2. QED
      BY <1>2, <1>3, <1>8, <2>2, <3>1 DEF Freed, LifeOf
  <2>3. QED
    BY <2>1, <2>2
<1>9. QED
  BY <1>5, <1>6, <1>7, <1>8 DEF Life, LifeOf

\* The same for all operations: those that lose their handlers have been called back or
\* cancelled by the user.
LEMMA Settles ==
    ASSUME TypeOK, Life, Told, UNCHANGED op, dropped \subseteq dropped',
           NEW D, NEW C, \A o \in D : Alive(o), Settle(D, C),
           \A o \in armed \cap (D \cup C) :
              kind[o] \in {"req", "ind"} => o \in dropped' \/ "cb" \in Members(hist[o])
    PROVE  /\ Life' /\ Told'
           /\ hist' \in [Ops -> Seq({"cb", "destroy", "free"})]
           /\ armed' = armed \ (D \cup C)
           /\ \A o \in Ops : Alive(o)' <=> Alive(o) /\ o \notin D
           /\ \A o \in Ops : ("cb" \in Members(hist[o]))' <=> "cb" \in Members(hist[o])
<1>1. \A o \in Ops : /\ LifeOf(o)'
                     /\ Freed(o)' <=> Freed(o) \/ o \in D
                     /\ ("cb" \in Members(hist[o]))' <=> "cb" \in Members(hist[o])
                     /\ hist'[o] \in Histories
  BY SettleOne
<1>2. armed' = armed \ (D \cup C) /\ DOMAIN hist' = Ops
  BY DEF Settle, Disarmed
<1>3. hist' \in [Ops -> Seq({"cb", "destroy", "free"})]
  <2>1. hist' = [o \in Ops |-> hist'[o]]
    BY DEF Settle
  <2>2. \A o \in Ops : hist'[o] \in Seq({"cb", "destroy", "free"})
    BY <1>1, HistoryGrows
  <2>3. QED
    BY <2>1, <2>2
<1>4. Life'
  BY <1>1 DEF Life
<1>5. used' = used /\ kind' = kind
  BY DEF op
<1>6. Told'
  <2> SUFFICES ASSUME NEW o \in 1..used, kind[o] \in {"req", "ind"}, o \notin armed', o \notin dropped'
               PROVE  ("cb" \in Members(hist[o]))'
    BY <1>5 DEF Told
  <2>1. o \in Ops
    BY AttBearerAssumption DEF TypeOK, Ops
  <2>2. "cb" \in Members(hist[o])
    BY <1>2 DEF Told
  <2>3. QED
    BY <1>1, <2>1, <2>2
<1>7. QED
  BY <1>1, <1>2, <1>3, <1>4, <1>5, <1>6 DEF Alive

\* A new operation has all its handlers, or is a response.
LEMMA Creates ==
    ASSUME TypeOK, Life, Told, NEW k \in Kinds, NEW i \in 0..MaxOps, Create(k, i)
    PROVE  /\ Life' /\ Told'
           /\ used' = used + 1 /\ used' \in Ops /\ used' \in 0..MaxOps
           /\ hist' = hist /\ dropped' = dropped
           /\ kind' \in [Ops -> Kinds] /\ kind'[used'] = k
           /\ \A o \in Ops : o # used' => kind'[o] = kind[o]
           /\ id' \in [Ops -> 0..MaxOps]
           /\ armed' \subseteq Ops /\ armed \subseteq armed' /\ armed' \subseteq armed \cup {used'}
           /\ hist[used'] = <<>> /\ ~Alive(used') /\ used' \notin armed
           /\ \A o \in Ops : Alive(o)' <=> Alive(o) \/ o = used'
<1>1. used' = used + 1 /\ used \in 0..MaxOps /\ used < MaxOps /\ hist' = hist /\ dropped' = dropped
  BY DEF Create, TypeOK
<1>2. used' \in Ops /\ used' \in 0..MaxOps
  BY <1>1, AttBearerAssumption DEF Ops
<1>3. /\ kind' \in [Ops -> Kinds] /\ kind'[used'] = k
      /\ \A o \in Ops : o # used' => kind'[o] = kind[o]
      /\ id' \in [Ops -> 0..MaxOps]
  BY <1>2 DEF Create, TypeOK
<1>4. /\ armed' = IF k \in ToUser THEN armed \cup {used'} ELSE armed
      /\ armed \subseteq Ops
  BY DEF Create, TypeOK
<1>5. hist[used'] = <<>> /\ ~Alive(used') /\ used' \notin armed
  BY <1>1, <1>2 DEF Life, LifeOf, Alive
<1>6. ASSUME NEW o \in Ops PROVE o <= used' <=> o <= used \/ o = used'
  BY <1>1 DEF Ops
<1>7. \A o \in Ops : Alive(o)' <=> Alive(o) \/ o = used'
  BY <1>1, <1>2, <1>5, <1>6, HistoryMembers DEF Alive, Freed
<1>8. ASSUME NEW o \in Ops PROVE LifeOf(o)'
  <2>1. CASE o = used'
    <3>1. o <= used' /\ hist'[o] = <<>>
      BY <1>1, <1>5, <2>1
    <3>2. o \in armed' <=> k \notin Mute
      BY <1>4, <1>5, <2>1 DEF Kinds, ToUser, Mute
    <3>3. QED
      BY <1>3, <2>1, <3>1, <3>2 DEF LifeOf
  <2>2. CASE o # used'
    <3>1. o \in armed' <=> o \in armed
      BY <1>4, <2>2
    <3>2. LifeOf(o) /\ kind'[o] = kind[o] /\ (o <= used' <=> o <= used) /\ (used' < o <=> used < o)
      BY <1>1, <1>3, <1>6, <2>2 DEF Life, Ops
    <3>3. QED
      BY <1>1, <3>1, <3>2 DEF LifeOf
  <2>3. QED
    BY <2>1, <2>2
<1>9. Told'
  <2> SUFFICES ASSUME NEW o \in 1..used', kind'[o] \in {"req", "ind"}, o \notin armed', o \notin dropped
               PROVE  "cb" \in Members(hist[o])
    BY <1>1 DEF Told
  <2>1. o \in Ops
    BY <1>1, <1>2, AttBearerAssumption DEF Ops
  <2>2. o # used'
    BY <1>3, <1>4 DEF ToUser
  <2>3. o \in 1..used /\ kind[o] \in {"req", "ind"} /\ o \notin armed
    BY <1>1, <1>3, <1>4, <1>6, <2>1, <2>2
  <2>4. QED
    BY <2>3 DEF Told
<1>10. QED
  BY <1>1, <1>2, <1>3, <1>4, <1>5, <1>7, <1>8, <1>9 DEF Life
-----------------------------------------------------------------------------
(* Where the operations are. *)

\* What is somewhere is alive, and nowhere else.
LEMMA HomeAlive ==
    ASSUME Homed, NEW h \in HomeNames, NEW c \in Chans, NEW o \in Ops, InHome(h, c, o)
    PROVE  Alive(o)
<1>1. <<h, c>> \in Homes(o)
  BY DEF Homes
<1>2. QED
  BY <1>1 DEF Homed, HomeOf

\* What is in one home is in no other.
LEMMA HomeUnique ==
    ASSUME Homed, NEW h \in HomeNames, NEW c \in Chans, NEW h2 \in HomeNames, NEW c2 \in Chans,
           NEW o \in Ops, InHome(h, c, o), InHome(h2, c2, o)
    PROVE  h = h2 /\ c = c2
<1>1. <<h, c>> \in Homes(o) /\ <<h2, c2>> \in Homes(o)
  BY DEF Homes
<1>2. Alive(o)
  BY HomeAlive
<1>3. <<h, c>> = <<h2, c2>>
  BY <1>1, <1>2 DEF Homed, HomeOf
<1>4. QED
  BY <1>3

\* What is alive is somewhere.
LEMMA AliveHome ==
    ASSUME Homed, NEW o \in Ops, Alive(o)
    PROVE  \E h \in HomeNames, c \in Chans : InHome(h, c, o)
  BY DEF Homed, HomeOf, Homes

\* An operation stays where it is.
Stays(o) ==
    /\ Alive(o)' <=> Alive(o)
    /\ \A h \in HomeNames, c \in Chans : InHome(h, c, o)' <=> InHome(h, c, o)

\* It is freed, and nowhere afterwards.
Goes(o) == ~Alive(o)' /\ \A h \in HomeNames, c \in Chans : ~InHome(h, c, o)'

\* It is there afterwards, and only there.
MovesTo(o, h, c) ==
    /\ Alive(o)' /\ h \in HomeNames /\ c \in Chans
    /\ \A h2 \in HomeNames, c2 \in Chans : InHome(h2, c2, o)' <=> h2 = h /\ c2 = c

\* Three ways in which an operation has at most one home after a step.
LEMMA HomeSteps ==
    ASSUME Homed, NEW o \in Ops, Stays(o) \/ Goes(o) \/ \E h, c : MovesTo(o, h, c)
    PROVE  HomeOf(o)'
<1>1. CASE Stays(o)
  <2>1. Homes(o)' = Homes(o)
    BY <1>1 DEF Stays, Homes
  <2>2. HomeOf(o)
    BY DEF Homed
  <2>3. QED
    BY <1>1, <2>1, <2>2 DEF Stays, HomeOf
<1>2. CASE Goes(o)
  <2>1. Homes(o)' = {}
    BY <1>2 DEF Goes, Homes
  <2>2. QED
    BY <1>2, <2>1 DEF Goes, HomeOf
<1>3. ASSUME NEW h, NEW c, MovesTo(o, h, c) PROVE HomeOf(o)'
  <2>1. <<h, c>> \in HomeNames \X Chans /\ Alive(o)'
    BY <1>3 DEF MovesTo
  <2>2. ASSUME NEW g \in HomeNames \X Chans
        PROVE  InHome(g[1], g[2], o)' <=> g = <<h, c>>
    <3>1. g = <<g[1], g[2]>> /\ g[1] \in HomeNames /\ g[2] \in Chans
      BY <2>2
    <3>2. InHome(g[1], g[2], o)' <=> g[1] = h /\ g[2] = c
      BY <1>3, <3>1 DEF MovesTo
    <3>3. QED
      BY <3>1, <3>2
  <2>3. Homes(o)' = {<<h, c>>}
    BY <2>1, <2>2 DEF Homes
  <2>4. QED
    BY <2>1, <2>3 DEF HomeOf
<1>4. QED
  BY <1>1, <1>2, <1>3

\* What a handler has taken is alive.
LEMMA HandAlive ==
    ASSUME TypeOK, Homed, Handler, hand # <<>>
    PROVE  Head(hand) \in Ops /\ Head(hand) \in Members(hand) /\ Alive(Head(hand))
<1>1. Head(hand) \in Ops /\ Head(hand) \in Members(hand)
  BY MembersTail DEF TypeOK
<1>2. CASE at = "rsp"
  <2>1. Head(hand) = pendReq[chan] /\ chan \in Chans
    BY <1>2 DEF Handler, TypeOK
  <2>2. QED
    BY <1>1, <2>1, HomeAlive DEF InHome, HomeNames
<1>3. CASE at = "conf"
  <2>1. Head(hand) = pendInd[chan] /\ chan \in Chans
    BY <1>3 DEF Handler, TypeOK
  <2>2. QED
    BY <1>1, <2>1, HomeAlive DEF InHome, HomeNames
<1>4. CASE at \notin {"rsp", "conf"}
  <2>1. Head(hand) \in Members(Taken) /\ FirstChan \in Chans
    BY <1>1, <1>4, AttBearerAssumption DEF Taken
  <2>2. QED
    BY <1>1, <2>1, HomeAlive DEF InHome, HomeNames
<1>5. QED
  BY <1>1, <1>2, <1>3, <1>4

\* Waking wakes only the channels it is told to.
LEMMA Wakes == ASSUME NEW S, Wake(S) PROVE writer' \subseteq writer \cup S
  BY DEF Wake
-----------------------------------------------------------------------------
(* Steps that leave every operation where it is. *)

\* The part of TypeOK that is about channels and handlers.
ChannelsOK ==
    /\ chans \cup gone \subseteq Chans /\ shut \cup writer \subseteq chans
    /\ inReq \in [Chans -> BOOLEAN] /\ sec \in [Chans -> 1..TopLevel]
    /\ at \in {"idle", "rsp", "conf", "timeout", "disc", "req", "ind", "write"}
    /\ chan \in Chans /\ called \in BOOLEAN /\ hand \in Seq(Ops)

\* The operations, their handlers and the queues stay as they are.
LEMMA NothingMoves ==
    ASSUME IndInv, UNCHANGED <<op, fate, queues, pending>>, Taken' = Taken,
           ChannelsOK', Handler', UNCHANGED <<called, hand>> \/ (~called /\ ~called')
    PROVE  IndInv'
<1> USE DEF IndInv
<1>1. TypeOK'
  BY DEF TypeOK, ChannelsOK, op, fate, queues, pending
<1>2. Homed'
  <2>1. \A o \in Ops : Stays(o)
    BY DEF Stays, Alive, Freed, InHome, op, fate, queues, pending
  <2>2. \A o \in Ops : HomeOf(o)'
    BY <2>1, HomeSteps
  <2>3. QED
    BY <2>2 DEF Homed, Distinct, queues
<1>3. Sorted'
  BY DEF Sorted, op, queues
<1>4. Life' /\ Told'
  BY DEF Life, LifeOf, Told, op, fate
<1>5. CallInv'
  BY DEF CallInv, fate, op
<1>6. QED
  BY <1>1, <1>2, <1>3, <1>4, <1>5

\* Nor does a handler begin or end.
LEMMA ChannelSteps ==
    ASSUME IndInv, UNCHANGED <<op, fate, queues, pending, call>>, ChannelsOK', chans \subseteq chans'
    PROVE  IndInv'
<1>1. Taken' = Taken /\ UNCHANGED <<called, hand>>
  BY DEF Taken, call
<1>2. Handler'
  BY DEF IndInv, Handler, pending, call
<1>3. QED
  BY <1>1, <1>2, NothingMoves

\* bt_att_attach_fd: a channel with nothing pending.
LEMMA AttachKeeps == ASSUME IndInv, NEW c \in Chans, Attach(c) PROVE IndInv'
<1>1. ChannelsOK'
  <2>1. writer' \subseteq writer \cup {c}
    BY Wakes DEF Attach
  <2>2. QED
    BY <2>1 DEF IndInv, TypeOK, ChannelsOK, Attach, call
<1>2. QED
  BY <1>1, ChannelSteps DEF Attach

\* can_write_data finds nothing to send and removes the write handler.
LEMMA WriterStopsKeeps == ASSUME IndInv, NEW c \in Chans, WriterStops(c) PROVE IndInv'
<1>1. ChannelsOK' /\ chans' = chans
  BY DEF IndInv, TypeOK, ChannelsOK, WriterStops, call, io
<1>2. QED
  BY <1>1, ChannelSteps DEF WriterStops

\* A request of the other side is remembered, and nothing of ours changes.
LEMMA RequestKeeps == ASSUME IndInv, NEW c \in Chans, Request(c) PROVE IndInv'
<1>1. inReq' \in [Chans -> BOOLEAN]
  BY Zenon DEF IndInv, TypeOK, Request
<1>2. ChannelsOK' /\ chans' = chans
  BY <1>1 DEF IndInv, TypeOK, ChannelsOK, Request, call
<1>3. QED
  BY <1>2, ChannelSteps DEF Request

\* A second one shuts the channel down.
LEMMA SecondRequestKeeps == ASSUME IndInv, NEW c \in Chans, SecondRequest(c) PROVE IndInv'
<1>1. ChannelsOK' /\ chans' = chans
  BY DEF IndInv, TypeOK, ChannelsOK, SecondRequest, Hears, call
<1>2. QED
  BY <1>1, ChannelSteps DEF SecondRequest

\* A response or confirmation that is expected begins a handler, which keeps what is
\* pending; one that is not shuts the channel down.
LEMMA ResponseKeeps == ASSUME IndInv, NEW c \in Chans, Response(c) PROVE IndInv'
<1> USE DEF IndInv
<1>1. Hears(c) /\ c \in chans /\ at = "idle" /\ hand = <<>> /\ ~called
  BY DEF Response, Hears, Handler
<1>2. CASE pendReq[c] = None
  <2>1. shut' = shut \cup {c} /\ UNCHANGED call
    BY <1>2 DEF Response
  <2>2. ChannelsOK' /\ chans' = chans
    BY <1>1, <2>1 DEF TypeOK, ChannelsOK, Response, call
  <2>3. QED
    BY <2>1, <2>2, ChannelSteps DEF Response
<1>3. CASE pendReq[c] # None
  <2>1. at' = "rsp" /\ chan' = c /\ hand' = <<pendReq[c]>> /\ called' = FALSE /\ shut' = shut
    BY <1>3 DEF Response, Take
  <2>2. pendReq[c] \in Ops
    BY <1>3 DEF TypeOK
  <2>3. Taken' = Taken
    BY <1>1, <2>1 DEF Taken
  <2>4. hand' \in Seq(Ops)
    BY <2>1, <2>2
  <2>5. ChannelsOK'
    BY <2>1, <2>4 DEF TypeOK, ChannelsOK, Response
  <2>6. Handler'
    BY <1>1, <1>3, <2>1 DEF Handler, Response, pending
  <2>7. QED
    BY <1>1, <2>1, <2>3, <2>5, <2>6, NothingMoves DEF Response
<1>4. QED
  BY <1>2, <1>3

\* The same for handle_conf.
LEMMA ConfirmationKeeps == ASSUME IndInv, NEW c \in Chans, Confirmation(c) PROVE IndInv'
<1> USE DEF IndInv
<1>1. Hears(c) /\ c \in chans /\ at = "idle" /\ hand = <<>> /\ ~called
  BY DEF Confirmation, Hears, Handler
<1>2. CASE shut' = shut \cup {c} /\ UNCHANGED call
  <2>1. ChannelsOK' /\ chans' = chans
    BY <1>1, <1>2 DEF TypeOK, ChannelsOK, Confirmation, call
  <2>2. QED
    BY <1>2, <2>1, ChannelSteps DEF Confirmation
<1>3. CASE pendInd[c] # None /\ Take("conf", c, <<pendInd[c]>>) /\ UNCHANGED shut
  <2>1. at' = "conf" /\ chan' = c /\ hand' = <<pendInd[c]>> /\ called' = FALSE /\ shut' = shut
    BY <1>3 DEF Take
  <2>2. pendInd[c] \in Ops
    BY <1>3 DEF TypeOK
  <2>3. Taken' = Taken
    BY <1>1, <2>1 DEF Taken
  <2>4. hand' \in Seq(Ops)
    BY <2>1, <2>2
  <2>5. ChannelsOK'
    BY <2>1, <2>4 DEF TypeOK, ChannelsOK, Confirmation
  <2>6. Handler'
    BY <1>1, <1>3, <2>1 DEF Handler, Confirmation, pending
  <2>7. QED
    BY <1>1, <2>1, <2>3, <2>5, <2>6, NothingMoves DEF Confirmation
<1>4. QED
  BY <1>2, <1>3 DEF Confirmation

\* The user cancels operations that stay where they are, without their handlers.
LEMMA CancelsInPlace ==
    ASSUME IndInv, NEW C, C \subseteq Ops, Settle({}, C), UserDrops(C),
           UNCHANGED <<op, queues, pending, io, writer, call>>
    PROVE  IndInv'
<1> USE DEF IndInv
<1>1. /\ Life' /\ Told'
      /\ hist' \in [Ops -> Seq({"cb", "destroy", "free"})]
      /\ armed' = armed \ C
      /\ \A o \in Ops : Alive(o)' <=> Alive(o)
      /\ \A o \in Ops : ("cb" \in Members(hist[o]))' <=> "cb" \in Members(hist[o])
  <2>1. dropped' = dropped \cup C
    BY DEF UserDrops
  <2>2. QED
    BY <2>1, Settles
<1>2. TypeOK'
  BY <1>1 DEF TypeOK, UserDrops, op, queues, pending, io, call
<1>3. Taken' = Taken
  BY DEF Taken, call
<1>4. Homed'
  <2>1. \A o \in Ops : Stays(o)
    BY <1>1, <1>3 DEF Stays, InHome, queues, pending
  <2>2. \A o \in Ops : HomeOf(o)'
    BY <2>1, HomeSteps
  <2>3. QED
    BY <1>3, <2>2 DEF Homed, Distinct, queues
<1>5. Sorted' /\ Handler'
  BY DEF Sorted, Handler, op, queues, pending, io, call
<1>6. CallInv'
  BY <1>1 DEF CallInv, call, TypeOK, op
<1>7. QED
  BY <1>1, <1>2, <1>4, <1>5, <1>6

\* bt_att_cancel of what is pending.
LEMMA CancelPendingKeeps == ASSUME IndInv, NEW i, CancelPending(i) PROVE IndInv'
<1>1. PICK o \in Pending(i) : Settle({}, {o}) /\ UserDrops({o})
  BY DEF CancelPending
<1>2. o \in Ops
  BY DEF Pending, OnChannels, Some, IndInv, TypeOK
<1>3. QED
  BY <1>1, <1>2, CancelsInPlace DEF CancelPending

\* The operation that a search of the three queues finds is in the first that has it.
LEMMA QueuedIs ==
    ASSUME TypeOK, NEW i
    PROVE  /\ Has(reqQ, i) => Queued(i) = {reqQ[First(reqQ, i)]}
           /\ ~Has(reqQ, i) /\ Has(indQ, i) => Queued(i) = {indQ[First(indQ, i)]}
           /\ ~Has(reqQ, i) /\ ~Has(indQ, i) /\ Has(writeQ, i) =>
                 Queued(i) = {writeQ[First(writeQ, i)]}
           /\ ~Has(reqQ, i) /\ ~Has(indQ, i) /\ ~Has(writeQ, i) => Queued(i) = {}
           /\ Queued(i) \subseteq Ops
<1> DEFINE a == reqQ \o indQ  b == a \o writeQ
<1>1. /\ a \in Seq(Ops)
      /\ Has(a, i) <=> Has(reqQ, i) \/ Has(indQ, i)
      /\ Has(reqQ, i) => a[First(a, i)] = reqQ[First(reqQ, i)]
      /\ ~Has(reqQ, i) /\ Has(indQ, i) => a[First(a, i)] = indQ[First(indQ, i)]
  BY FirstOfTwo DEF TypeOK
<1>2. Queued(i) = IF Has(b, i) THEN {b[First(b, i)]} ELSE {}
  BY DEF Queued
<1> HIDE DEF a
<1>3. /\ b \in Seq(Ops)
      /\ Has(b, i) <=> Has(a, i) \/ Has(writeQ, i)
      /\ Has(a, i) => b[First(b, i)] = a[First(a, i)]
      /\ ~Has(a, i) /\ Has(writeQ, i) => b[First(b, i)] = writeQ[First(writeQ, i)]
  BY <1>1, FirstOfTwo DEF TypeOK
<1> HIDE DEF b
<1>4. Has(b, i) => b[First(b, i)] \in Ops
  BY <1>3, FirstFound
<1>5. QED
  BY <1>1, <1>2, <1>3, <1>4

\* bt_att_disc_cancel of what disconnect_cb has not got to.
LEMMA CancelInDiscKeeps == ASSUME IndInv, NEW i, CancelInDisc(i) PROVE IndInv'
<1>1. Queued(i) \subseteq Ops
  BY QueuedIs DEF IndInv
<1>2. QED
  BY <1>1, CancelsInPlace DEF CancelInDisc

-----------------------------------------------------------------------------
(* A new operation. *)

\* The new operation is put into the queues, and nothing else moves.
LEMMA CreatesAt ==
    ASSUME IndInv, NEW k \in Kinds, NEW i \in 0..MaxOps, Create(k, i),
           NEW h \in HomeNames, NEW c \in Chans,
           \A h2 \in HomeNames, c2 \in Chans, o \in Ops :
              InHome(h2, c2, o)' <=> InHome(h2, c2, o) \/ (h2 = h /\ c2 = c /\ o = used')
    PROVE  \A o \in Ops : HomeOf(o)'
<1> USE DEF IndInv
<1>1. /\ used' \in Ops /\ ~Alive(used')
      /\ \A o \in Ops : Alive(o)' <=> Alive(o) \/ o = used'
  BY Creates
<1>2. PICK n \in Ops : n = used'
  BY <1>1
<1>3. \A o \in Ops : o # n => Stays(o)
  BY <1>1, <1>2 DEF Stays
<1>4. \A h2 \in HomeNames, c2 \in Chans : ~InHome(h2, c2, n)
  BY <1>1, <1>2, HomeAlive
<1>5. MovesTo(n, h, c)
  BY <1>1, <1>2, <1>4 DEF MovesTo
<1>6. QED
  BY <1>3, <1>5, HomeSteps

\* What a new operation leaves as it is.
LEMMA CreatesCall ==
    ASSUME IndInv, NEW k \in Kinds, NEW i \in 0..MaxOps, Create(k, i), UNCHANGED <<called, hand>>
    PROVE  CallInv'
<1> USE DEF IndInv
<1>1. /\ hist' = hist /\ armed' \subseteq armed \cup {used'} /\ used' \in Ops
      /\ hist[used'] = <<>> /\ ~Alive(used') /\ armed' \subseteq Ops
      /\ \A o \in Ops : o # used' => kind'[o] = kind[o]
  BY Creates
<1>2. ~("cb" \in Members(hist[used']))
  BY <1>1, HistoryMembers
<1>3. ~(called /\ used' = Head(hand))
  BY <1>1, HandAlive DEF Handler
<1>4. QED
  BY <1>1, <1>2, <1>3 DEF CallInv

\* Of the operations in the queues and on the channels none is new.
LEMMA OldKinds ==
    ASSUME IndInv, NEW k \in Kinds, NEW i \in 0..MaxOps, Create(k, i)
    PROVE  /\ used' \notin Members(reqQ) /\ used' \notin Members(indQ) /\ used' \notin Members(writeQ)
           /\ \A c \in Chans : used' \notin Members(chanQ[c])
           /\ \A c \in Chans : used' # pendReq[c] /\ used' # pendInd[c]
           /\ \A o \in Members(reqQ) : kind'[o] = "req"
           /\ \A o \in Members(indQ) : kind'[o] = "ind"
           /\ \A o \in Members(writeQ) : kind'[o] \in {"cmd", "rsp"}
           /\ \A c \in Chans : \A o \in Members(chanQ[c]) : kind'[o] \in Mute
           /\ pendReq \in [Chans -> {None} \cup {o \in Ops : kind'[o] = "req"}]
           /\ pendInd \in [Chans -> {None} \cup {o \in Ops : kind'[o] = "ind"}]
<1> USE DEF IndInv
<1>1. /\ used' \in Ops /\ ~Alive(used')
      /\ \A o \in Ops : o # used' => kind'[o] = kind[o]
  BY Creates
<1>2. \A h \in HomeNames, c \in Chans : ~InHome(h, c, used')
  BY <1>1, HomeAlive
<1>3. FirstChan \in Chans
  BY AttBearerAssumption
<1>4. used' \notin Members(reqQ) /\ used' \notin Members(indQ) /\ used' \notin Members(writeQ)
  BY <1>2, <1>3 DEF InHome, HomeNames
<1>5. \A c \in Chans : used' \notin Members(chanQ[c]) /\ used' # pendReq[c] /\ used' # pendInd[c]
  BY <1>2 DEF InHome, HomeNames
<1>6. /\ Members(reqQ) \subseteq Ops /\ Members(indQ) \subseteq Ops /\ Members(writeQ) \subseteq Ops
      /\ \A c \in Chans : Members(chanQ[c]) \subseteq Ops
  BY MembersType DEF TypeOK
<1>7. /\ \A o \in Members(reqQ) : kind'[o] = "req"
      /\ \A o \in Members(indQ) : kind'[o] = "ind"
      /\ \A o \in Members(writeQ) : kind'[o] \in {"cmd", "rsp"}
      /\ \A c \in Chans : \A o \in Members(chanQ[c]) : kind'[o] \in Mute
  BY <1>1, <1>4, <1>5, <1>6 DEF Sorted
<1>8. /\ pendReq \in [Chans -> {None} \cup {o \in Ops : kind'[o] = "req"}]
      /\ pendInd \in [Chans -> {None} \cup {o \in Ops : kind'[o] = "ind"}]
  BY <1>1, <1>5 DEF TypeOK
<1>9. QED
  BY <1>4, <1>5, <1>7, <1>8

\* The new operation is put at one place; the rest of the invariant follows.
LEMMA CreatesIn ==
    ASSUME IndInv, NEW k \in Kinds, NEW i \in 0..MaxOps, Create(k, i),
           NEW h \in HomeNames, NEW c \in Chans,
           \A h2 \in HomeNames, c2 \in Chans, o \in Ops :
              InHome(h2, c2, o)' <=> InHome(h2, c2, o) \/ (h2 = h /\ c2 = c /\ o = used'),
           reqQ' \in Seq(Ops) /\ indQ' \in Seq(Ops) /\ writeQ' \in Seq(Ops),
           chanQ' \in [Chans -> Seq(Ops)],
           Distinct(reqQ)' /\ Distinct(indQ)' /\ Distinct(writeQ)',
           \A d \in Chans : Distinct(chanQ[d])',
           Sorted', UNCHANGED <<pending, chans, gone, shut, sec, call>>,
           inReq' \in [Chans -> BOOLEAN], writer' \subseteq chans
    PROVE  IndInv'
<1> USE DEF IndInv
<1>1. /\ Life' /\ Told'
      /\ used' \in 0..MaxOps
      /\ hist' = hist /\ dropped' = dropped
      /\ kind' \in [Ops -> Kinds] /\ id' \in [Ops -> 0..MaxOps] /\ armed' \subseteq Ops
  BY Creates
<1>2. CallInv'
  BY CreatesCall DEF call
<1>3. /\ pendReq' \in [Chans -> {None} \cup {o \in Ops : kind'[o] = "req"}]
      /\ pendInd' \in [Chans -> {None} \cup {o \in Ops : kind'[o] = "ind"}]
  <2>1. pendReq' = pendReq /\ pendInd' = pendInd
    BY DEF pending
  <2>2. QED
    BY <2>1, OldKinds
<1>4. ChannelsOK'
  BY DEF TypeOK, ChannelsOK, call
<1>5. hist' \in [Ops -> Seq({"cb", "destroy", "free"})] /\ dropped' \subseteq Ops
  BY <1>1 DEF TypeOK
<1>6. TypeOK'
  BY <1>1, <1>3, <1>4, <1>5 DEF TypeOK, ChannelsOK
<1>7. Handler'
  BY DEF Handler, call, pending
<1>8. Homed'
  <2>1. Taken' = Taken
    BY DEF Taken, call
  <2>2. \A o \in Ops : HomeOf(o)'
    BY CreatesAt
  <2>3. Distinct(Taken)'
    BY <2>1 DEF Homed, Distinct
  <2>4. QED
    BY <2>2, <2>3 DEF Homed
<1>9. QED
  BY <1>1, <1>2, <1>6, <1>7, <1>8

\* bt_att_send and respond_not_supported: a queue of the bearer gets one more.
LEMMA Enqueues ==
    ASSUME IndInv, NEW k \in ToUser \cup {"rsp"}, NEW i \in 0..MaxOps, Create(k, i),
           Enqueue(used + 1, k),
           UNCHANGED <<pending, chans, gone, shut, sec, call>>, inReq' \in [Chans -> BOOLEAN],
           Wake(chans)
    PROVE  IndInv'
<1> USE DEF IndInv
<1>0. k \in Kinds
  BY DEF Kinds, Mute
<1>1. used' = used + 1 /\ used' \in Ops /\ kind'[used'] = k
  BY <1>0, Creates
<1>2. PICK n \in Ops : n = used'
  BY <1>1
<1>3. /\ n \notin Members(reqQ) /\ n \notin Members(indQ) /\ n \notin Members(writeQ)
      /\ \A o \in Members(reqQ) : kind'[o] = "req"
      /\ \A o \in Members(indQ) : kind'[o] = "ind"
      /\ \A o \in Members(writeQ) : kind'[o] \in {"cmd", "rsp"}
      /\ \A c \in Chans : \A o \in Members(chanQ[c]) : kind'[o] \in Mute
  BY <1>0, <1>2, OldKinds
<1>4. /\ reqQ' = IF k = "req" THEN Append(reqQ, n) ELSE reqQ
      /\ indQ' = IF k = "ind" THEN Append(indQ, n) ELSE indQ
      /\ writeQ' = IF k \in {"cmd", "rsp"} THEN Append(writeQ, n) ELSE writeQ
      /\ chanQ' = chanQ /\ pendReq' = pendReq /\ pendInd' = pendInd /\ Taken' = Taken
  BY <1>1, <1>2 DEF Enqueue, pending, call, Taken
<1>5. /\ reqQ' \in Seq(Ops) /\ indQ' \in Seq(Ops) /\ writeQ' \in Seq(Ops)
      /\ Members(reqQ)' = Members(reqQ) \cup (IF k = "req" THEN {n} ELSE {})
      /\ Members(indQ)' = Members(indQ) \cup (IF k = "ind" THEN {n} ELSE {})
      /\ Members(writeQ)' = Members(writeQ) \cup (IF k \in {"cmd", "rsp"} THEN {n} ELSE {})
      /\ Distinct(reqQ)' /\ Distinct(indQ)' /\ Distinct(writeQ)'
  <2>1. \A q \in Seq(Ops) : Distinct(q) /\ n \notin Members(q) =>
           /\ Append(q, n) \in Seq(Ops)
           /\ Members(Append(q, n)) = Members(q) \cup {n}
           /\ Distinct(Append(q, n))
    BY MembersAppend
  <2>2. /\ reqQ \in Seq(Ops) /\ indQ \in Seq(Ops) /\ writeQ \in Seq(Ops)
        /\ Distinct(reqQ) /\ Distinct(indQ) /\ Distinct(writeQ)
    BY DEF TypeOK, Homed
  <2>3. /\ Members(reqQ)' = Members(reqQ') /\ Members(indQ)' = Members(indQ')
        /\ Members(writeQ)' = Members(writeQ')
        /\ Distinct(reqQ)' = Distinct(reqQ') /\ Distinct(indQ)' = Distinct(indQ')
        /\ Distinct(writeQ)' = Distinct(writeQ')
    BY DEF Members, Distinct
  <2>4. QED
    BY <1>3, <1>4, <2>1, <2>2, <2>3
<1>6. Sorted'
  BY <1>1, <1>2, <1>3, <1>4, <1>5 DEF Sorted
<1> DEFINE h == CASE k = "req" -> "req" [] k = "ind" -> "ind" [] OTHER -> "write"
<1>7. h \in HomeNames /\ FirstChan \in Chans
  BY AttBearerAssumption DEF HomeNames
<1>8. \A h2 \in HomeNames, c2 \in Chans, o \in Ops :
         InHome(h2, c2, o)' <=> InHome(h2, c2, o) \/ (h2 = h /\ c2 = FirstChan /\ o = used')
  BY <1>2, <1>4, <1>5 DEF InHome, HomeNames, Kinds, ToUser, Mute
<1> HIDE DEF h
<1>9. /\ chanQ' \in [Chans -> Seq(Ops)]
      /\ \A d \in Chans : Distinct(chanQ[d])'
      /\ writer' \subseteq chans
  BY <1>4, Wakes DEF TypeOK, Homed, Distinct
<1>10. QED
  BY <1>0, <1>5, <1>6, <1>7, <1>8, <1>9, CreatesIn

\* bt_att_send
LEMMA SendKeeps == ASSUME IndInv, NEW k \in ToUser, Send(k) PROVE IndInv'
<1>1. k \in ToUser \cup {"rsp"} /\ used + 1 \in 0..MaxOps
  BY AttBearerAssumption DEF IndInv, TypeOK, Send, Create
<1>2. inReq' \in [Chans -> BOOLEAN]
  BY DEF Send, io, IndInv, TypeOK
<1>3. QED
  BY <1>1, <1>2, Enqueues DEF Send, io

\* respond_not_supported
LEMMA NotSupportedKeeps ==
    ASSUME IndInv, NEW c \in Chans, NEW request \in BOOLEAN, NotSupported(c, request)
    PROVE  IndInv'
<1>1. "rsp" \in ToUser \cup {"rsp"} /\ used + 1 \in 0..MaxOps
  BY AttBearerAssumption DEF IndInv, TypeOK, NotSupported, Create
<1>2. inReq' \in [Chans -> BOOLEAN]
  BY Zenon DEF NotSupported, IndInv, TypeOK
<1>3. QED
  BY <1>1, <1>2, Enqueues DEF NotSupported

\* bt_att_chan_send: the queue of the channel gets one more.
LEMMA ChanSendKeeps == ASSUME IndInv, NEW c \in Chans, NEW k \in Mute, ChanSend(c, k) PROVE IndInv'
<1> USE DEF IndInv
<1>1. k \in Kinds /\ 0 \in 0..MaxOps /\ Create(k, 0)
  BY AttBearerAssumption DEF Kinds, ChanSend
<1>2. used' \in Ops /\ kind'[used'] \in Mute
  BY <1>1, Creates
<1>3. PICK n \in Ops : n = used'
  BY <1>2
<1>4. /\ \A d \in Chans : n \notin Members(chanQ[d])
      /\ \A o \in Members(reqQ) : kind'[o] = "req"
      /\ \A o \in Members(indQ) : kind'[o] = "ind"
      /\ \A o \in Members(writeQ) : kind'[o] \in {"cmd", "rsp"}
      /\ \A d \in Chans : \A o \in Members(chanQ[d]) : kind'[o] \in Mute
  BY <1>1, <1>3, OldKinds
<1>5. /\ chanQ' = [chanQ EXCEPT ![c] = Append(@, n)]
      /\ reqQ' = reqQ /\ indQ' = indQ /\ writeQ' = writeQ
      /\ pendReq' = pendReq /\ pendInd' = pendInd /\ Taken' = Taken
  BY <1>3 DEF ChanSend, pending, call, Taken
<1>6. /\ chanQ[c] \in Seq(Ops) /\ Distinct(chanQ[c])
      /\ chanQ'[c] = Append(chanQ[c], n)
      /\ \A d \in Chans : d # c => chanQ'[d] = chanQ[d]
  BY <1>5 DEF TypeOK, Homed
<1>7. /\ chanQ'[c] \in Seq(Ops) /\ Distinct(chanQ'[c])
      /\ Members(chanQ'[c]) = Members(chanQ[c]) \cup {n}
  BY <1>4, <1>6, MembersAppend
<1>8. chanQ' \in [Chans -> Seq(Ops)]
  BY <1>5, <1>6, <1>7 DEF TypeOK
<1>9. \A d \in Chans : Distinct(chanQ[d])'
  BY <1>6, <1>7 DEF Homed, Distinct
<1>10. \A d \in Chans, o \in Ops :
          o \in Members(chanQ'[d]) <=> o \in Members(chanQ[d]) \/ (d = c /\ o = n)
  BY <1>6, <1>7
<1>11. Sorted'
  <2>1. \A d \in Chans : Members(chanQ'[d]) \subseteq Ops
    BY <1>8, MembersType
  <2>2. \A d \in Chans : \A o \in Members(chanQ'[d]) : kind'[o] \in Mute
    BY <1>2, <1>3, <1>4, <1>10, <2>1
  <2>3. reqQ' = reqQ /\ indQ' = indQ /\ writeQ' = writeQ
    BY <1>5
  <2>4. QED
    BY <1>4, <2>2, <2>3 DEF Sorted
<1>12. /\ \A h2 \in HomeNames, d \in Chans, o \in Ops :
             InHome(h2, d, o)' <=> InHome(h2, d, o) \/ (h2 = "chan" /\ d = c /\ o = used')
       /\ "chan" \in HomeNames
  <2>1. /\ reqQ' = reqQ /\ indQ' = indQ /\ writeQ' = writeQ
        /\ pendReq' = pendReq /\ pendInd' = pendInd /\ Taken' = Taken
    BY <1>5
  <2>2. QED
    BY <1>3, <1>10, <2>1 DEF InHome, HomeNames
<1>13. /\ reqQ' \in Seq(Ops) /\ indQ' \in Seq(Ops) /\ writeQ' \in Seq(Ops)
       /\ Distinct(reqQ)' /\ Distinct(indQ)' /\ Distinct(writeQ)'
       /\ inReq' \in [Chans -> BOOLEAN] /\ writer' \subseteq chans
  BY <1>5, Wakes DEF TypeOK, Homed, Distinct, ChanSend, io
<1>14. UNCHANGED <<pending, chans, gone, shut, sec, call>>
  BY DEF ChanSend, io
<1>15. QED
  BY <1>1, <1>8, <1>9, <1>11, <1>12, <1>13, <1>14, CreatesIn

\* bt_att_resend: the queue of the requests gets one more, at its end or first.
LEMMA ResendKeeps ==
    ASSUME IndInv, NEW c \in Chans, NEW first \in BOOLEAN, Resend(c, first)
    PROVE  IndInv'
<1> USE DEF IndInv
<1> DEFINE i == id[pendReq[c]]
<1>1. "req" \in Kinds /\ i \in 0..MaxOps /\ Create("req", i)
  BY DEF Kinds, ToUser, Mute, Resend, TypeOK
<1> HIDE DEF i
<1>2. used' \in Ops /\ kind'[used'] = "req"
  BY <1>1, Creates
<1>3. PICK n \in Ops : n = used'
  BY <1>2
<1>4. /\ n \notin Members(reqQ)
      /\ \A o \in Members(reqQ) : kind'[o] = "req"
      /\ \A o \in Members(indQ) : kind'[o] = "ind"
      /\ \A o \in Members(writeQ) : kind'[o] \in {"cmd", "rsp"}
      /\ \A d \in Chans : \A o \in Members(chanQ[d]) : kind'[o] \in Mute
  BY <1>1, <1>3, OldKinds
<1>5. /\ reqQ' = IF first THEN <<n>> \o reqQ ELSE Append(reqQ, n)
      /\ chanQ' = chanQ /\ indQ' = indQ /\ writeQ' = writeQ
      /\ pendReq' = pendReq /\ pendInd' = pendInd /\ Taken' = Taken
  BY <1>3 DEF Resend, pending, call, Taken
<1>6. reqQ \in Seq(Ops) /\ Distinct(reqQ)
  BY DEF TypeOK, Homed
<1>7. reqQ' \in Seq(Ops) /\ Distinct(reqQ)' /\ Members(reqQ)' = Members(reqQ) \cup {n}
  <2>1. /\ Append(reqQ, n) \in Seq(Ops) /\ Members(Append(reqQ, n)) = Members(reqQ) \cup {n}
        /\ Distinct(Append(reqQ, n))
    BY <1>4, <1>6, MembersAppend
  <2>2. /\ <<n>> \o reqQ \in Seq(Ops) /\ Members(<<n>> \o reqQ) = Members(reqQ) \cup {n}
        /\ Distinct(<<n>> \o reqQ)
    BY <1>4, <1>6, MembersCons
  <2>3. Members(reqQ)' = Members(reqQ') /\ Distinct(reqQ)' = Distinct(reqQ')
    BY DEF Members, Distinct
  <2>4. QED
    BY <1>5, <2>1, <2>2, <2>3
<1>8. Sorted'
  BY <1>2, <1>3, <1>4, <1>5, <1>7 DEF Sorted
<1>9. /\ \A h2 \in HomeNames, d \in Chans, o \in Ops :
            InHome(h2, d, o)' <=> InHome(h2, d, o) \/ (h2 = "req" /\ d = FirstChan /\ o = used')
      /\ "req" \in HomeNames /\ FirstChan \in Chans
  BY <1>3, <1>5, <1>7, AttBearerAssumption DEF InHome, HomeNames
<1>10. /\ indQ' \in Seq(Ops) /\ writeQ' \in Seq(Ops) /\ chanQ' \in [Chans -> Seq(Ops)]
       /\ Distinct(indQ)' /\ Distinct(writeQ)' /\ \A d \in Chans : Distinct(chanQ[d])'
       /\ inReq' \in [Chans -> BOOLEAN] /\ writer' \subseteq chans
  BY <1>5, Wakes DEF TypeOK, Homed, Distinct, Resend, io
<1>11. UNCHANGED <<pending, chans, gone, shut, sec, call>>
  BY DEF Resend, io
<1>12. QED
  BY <1>1, <1>7, <1>8, <1>9, <1>10, <1>11, CreatesIn
-----------------------------------------------------------------------------
(* Steps that destroy operations or move them. *)

\* The queues in themselves: types, no operation twice, the right kinds.
QueuesOK ==
    /\ reqQ \in Seq(Ops) /\ indQ \in Seq(Ops) /\ writeQ \in Seq(Ops)
    /\ chanQ \in [Chans -> Seq(Ops)]
    /\ pendReq \in [Chans -> {None} \cup {o \in Ops : kind[o] = "req"}]
    /\ pendInd \in [Chans -> {None} \cup {o \in Ops : kind[o] = "ind"}]
    /\ Distinct(reqQ) /\ Distinct(indQ) /\ Distinct(writeQ) /\ Distinct(Taken)
    /\ \A c \in Chans : Distinct(chanQ[c])
    /\ Sorted

\* The queues are as they should be in every state of the invariant.
LEMMA QueuesFact == IndInv => QueuesOK
  BY DEF IndInv, TypeOK, Homed, QueuesOK

\* Every operation has one home or is freed after the step.
Rehomed == \A o \in Ops : Stays(o) \/ Goes(o) \/ \E h, c : MovesTo(o, h, c)

\* A step that destroys the operations in D and cancels those in C.
LEMMA DestroySteps ==
    ASSUME IndInv, UNCHANGED op, dropped \subseteq dropped', dropped' \subseteq Ops,
           NEW D, NEW C, \A o \in D : Alive(o), Settle(D, C),
           \A o \in armed \cap (D \cup C) :
              kind[o] \in {"req", "ind"} => o \in dropped' \/ "cb" \in Members(hist[o]),
           Rehomed, QueuesOK', ChannelsOK', Handler',
           UNCHANGED <<called, hand>> \/ (~called' /\ (called => Head(hand) \in D))
    PROVE  IndInv'
<1> USE DEF IndInv
<1>1. /\ Life' /\ Told'
      /\ hist' \in [Ops -> Seq({"cb", "destroy", "free"})]
      /\ armed' = armed \ (D \cup C)
      /\ \A o \in Ops : ("cb" \in Members(hist[o]))' <=> "cb" \in Members(hist[o])
  BY Settles
<1>2. TypeOK'
  BY <1>1 DEF TypeOK, QueuesOK, ChannelsOK, op
<1>3. Homed'
  <2>1. \A o \in Ops : HomeOf(o)'
    BY HomeSteps DEF Rehomed
  <2>2. QED
    BY <2>1 DEF Homed, QueuesOK
<1>4. CallInv'
  BY <1>1 DEF CallInv, TypeOK, op
<1>5. Sorted'
  BY DEF QueuesOK
<1>6. QED
  BY <1>1, <1>2, <1>3, <1>4, <1>5

\* A step that only moves operations, while no callback runs.
LEMMA MoveSteps ==
    ASSUME IndInv, UNCHANGED <<op, fate>>, Rehomed, QueuesOK', ChannelsOK', Handler',
           ~called, ~called'
    PROVE  IndInv'
<1> USE DEF IndInv
<1>1. TypeOK'
  BY DEF TypeOK, QueuesOK, ChannelsOK, op, fate
<1>2. Homed'
  <2>1. \A o \in Ops : HomeOf(o)'
    BY HomeSteps DEF Rehomed
  <2>2. QED
    BY <2>1 DEF Homed, QueuesOK
<1>3. Life' /\ Told' /\ CallInv'
  BY DEF Life, LifeOf, Told, CallInv, op, fate
<1>4. Sorted'
  BY DEF QueuesOK
<1>5. QED
  BY <1>1, <1>2, <1>3, <1>4

\* What is in a queue of the bearer, pending or in the queue of a channel is alive.
LEMMA QueueAlive ==
    ASSUME IndInv, NEW o \in Ops
    PROVE  /\ o \in InQueues => Alive(o)
           /\ \A c \in Chans : o \in Members(chanQ[c]) \/ o = pendReq[c] \/ o = pendInd[c] => Alive(o)
           /\ o \in Members(Taken) => Alive(o)
<1>1. \A h \in HomeNames, c \in Chans : InHome(h, c, o) => Alive(o)
  BY HomeAlive DEF IndInv
<1>2. FirstChan \in Chans
  BY AttBearerAssumption
<1>3. QED
  BY <1>1, <1>2 DEF InQueues, InHome, HomeNames

\* bt_att_cancel of what is in a queue.
LEMMA CancelQueuedKeeps == ASSUME IndInv, NEW i, CancelQueued(i) PROVE IndInv'
<1> USE DEF IndInv
<1> DEFINE r == Has(reqQ, i)  d == ~r /\ Has(indQ, i)  w == ~r /\ ~d /\ Has(writeQ, i)
           h == CASE r -> "req" [] d -> "ind" [] OTHER -> "write"
<1>1. PICK x \in Ops :
         /\ Queued(i) = {x}
         /\ r \/ d \/ w
         /\ r => x = reqQ[First(reqQ, i)]
         /\ d => x = indQ[First(indQ, i)]
         /\ w => x = writeQ[First(writeQ, i)]
  <2>1. Queued(i) # {}
    BY DEF CancelQueued
  <2>2. QED
    BY <2>1, QueuedIs
<1>2. /\ reqQ' = Without(reqQ, i)
      /\ indQ' = IF r THEN indQ ELSE Without(indQ, i)
      /\ writeQ' = IF r \/ d THEN writeQ ELSE Without(writeQ, i)
      /\ chanQ' = chanQ /\ pendReq' = pendReq /\ pendInd' = pendInd /\ Taken' = Taken
  BY DEF CancelQueued, pending, call, Taken
<1>3. \A q \in Seq(Ops) :
         /\ Without(q, i) \in Seq(Ops)
         /\ ~Has(q, i) => Without(q, i) = q
         /\ Distinct(q) /\ Has(q, i) => /\ Members(Without(q, i)) = Members(q) \ {q[First(q, i)]}
                                        /\ Distinct(Without(q, i))
                                        /\ q[First(q, i)] \in Members(q)
  BY MembersWithout
<1>4. /\ reqQ \in Seq(Ops) /\ indQ \in Seq(Ops) /\ writeQ \in Seq(Ops)
      /\ Distinct(reqQ) /\ Distinct(indQ) /\ Distinct(writeQ)
  BY DEF TypeOK, Homed
<1>5. /\ reqQ' \in Seq(Ops) /\ indQ' \in Seq(Ops) /\ writeQ' \in Seq(Ops)
      /\ Distinct(reqQ') /\ Distinct(indQ') /\ Distinct(writeQ')
      /\ Members(reqQ') = IF r THEN Members(reqQ) \ {x} ELSE Members(reqQ)
      /\ Members(indQ') = IF d THEN Members(indQ) \ {x} ELSE Members(indQ)
      /\ Members(writeQ') = IF w THEN Members(writeQ) \ {x} ELSE Members(writeQ)
      /\ r => x \in Members(reqQ)
      /\ d => x \in Members(indQ)
      /\ w => x \in Members(writeQ)
  BY <1>1, <1>2, <1>3, <1>4
<1>6. FirstChan \in Chans /\ h \in HomeNames /\ InHome(h, FirstChan, x)
  BY <1>1, <1>5, AttBearerAssumption DEF InHome, HomeNames
<1>7. \A h2 \in HomeNames, c2 \in Chans : InHome(h2, c2, x) => h2 = h /\ c2 = FirstChan
  BY <1>6, HomeUnique
<1>8. \A h2 \in HomeNames, c2 \in Chans, o \in Ops :
         InHome(h2, c2, o)' <=> InHome(h2, c2, o) /\ ~(h2 = h /\ o = x)
  <2>1. ASSUME NEW h2 \in HomeNames, NEW c2 \in Chans, NEW o \in Ops
        PROVE  InHome(h2, c2, o)' <=> InHome(h2, c2, o) /\ ~(h2 = h /\ o = x)
    <3>1. CASE h2 = "req"
      BY <1>1, <1>5, <3>1 DEF InHome
    <3>2. CASE h2 = "ind"
      BY <1>1, <1>5, <3>2 DEF InHome
    <3>3. CASE h2 = "write"
      BY <1>1, <1>5, <3>3 DEF InHome
    <3>4. CASE h2 \notin {"req", "ind", "write"}
      <4>1. h2 # h
        BY <3>4
      <4>2. QED
        BY <1>2, <3>4, <4>1 DEF InHome
    <3>5. QED
      BY <3>1, <3>2, <3>3, <3>4
  <2>2. QED
    BY <2>1
<1> HIDE DEF h
<1>9. /\ Alive(x) /\ Settle({x}, {}) /\ dropped' = dropped \cup {x} /\ UNCHANGED op
      /\ UNCHANGED <<called, hand>>
  BY <1>1, <1>6, HomeAlive DEF CancelQueued, UserDrops, call
<1>10. \A o \in Ops : Alive(o)' <=> Alive(o) /\ o \notin {x}
  BY <1>9, Settles
<1>11. Rehomed
  <2>1. Goes(x)
    BY <1>7, <1>8, <1>10 DEF Goes
  <2>2. \A o \in Ops : o # x => Stays(o)
    BY <1>8, <1>10 DEF Stays
  <2>3. QED
    BY <2>1, <2>2 DEF Rehomed
<1>12. Sorted'
  BY <1>2, <1>5, <1>9 DEF Sorted, op
<1>13. QueuesOK'
  <2>1. Distinct(Taken)' /\ \A c \in Chans : Distinct(chanQ[c])'
    BY <1>2 DEF Homed, Distinct
  <2>2. Distinct(reqQ)' /\ Distinct(indQ)' /\ Distinct(writeQ)'
    BY <1>5 DEF Distinct
  <2>3. /\ pendReq' \in [Chans -> {None} \cup {o \in Ops : kind'[o] = "req"}]
        /\ pendInd' \in [Chans -> {None} \cup {o \in Ops : kind'[o] = "ind"}]
        /\ chanQ' \in [Chans -> Seq(Ops)]
    BY <1>2, <1>9 DEF TypeOK, op
  <2>4. QED
    BY <1>5, <1>12, <2>1, <2>2, <2>3 DEF QueuesOK
<1>14. ChannelsOK' /\ Handler'
  BY <1>2, Wakes DEF TypeOK, ChannelsOK, Handler, CancelQueued, call, io
<1>15. QED
  <2>1. dropped \subseteq dropped' /\ dropped' \subseteq Ops
    BY <1>9 DEF TypeOK
  <2>2. \A o \in armed \cap ({x} \cup {}) :
           kind[o] \in {"req", "ind"} => o \in dropped' \/ "cb" \in Members(hist[o])
    BY <1>9
  <2>3. QED
    BY <1>9, <1>11, <1>13, <1>14, <2>1, <2>2, DestroySteps

\* bt_att_cancel_all destroys what is queued and cancels what is pending.
LEMMA CancelAllKeeps == ASSUME IndInv, CancelAll PROVE IndInv'
<1> USE DEF IndInv
<1> DEFINE D == InQueues  C == OnChannels
<1>1. D \subseteq Ops /\ C \subseteq Ops
  <2>1. D \subseteq Ops
    BY MembersType DEF InQueues, TypeOK
  <2>2. C \subseteq Ops
    BY DEF OnChannels, Some, TypeOK
  <2>3. QED
    BY <2>1, <2>2
<1>2. \A o \in D : Alive(o)
  BY <1>1, QueueAlive
<1>3. /\ reqQ' = <<>> /\ indQ' = <<>> /\ writeQ' = <<>> /\ chanQ' = chanQ
      /\ pendReq' = pendReq /\ pendInd' = pendInd /\ Taken' = Taken /\ UNCHANGED op
      /\ Settle(D, C) /\ dropped' = dropped \cup D \cup C
      /\ UNCHANGED <<called, hand>>
  BY DEF CancelAll, UserDrops, pending, call, Taken
<1>4. \A o \in armed \cap (D \cup C) :
         kind[o] \in {"req", "ind"} => o \in dropped' \/ "cb" \in Members(hist[o])
  BY <1>3
<1>5. \A o \in Ops : Alive(o)' <=> Alive(o) /\ o \notin D
  BY <1>2, <1>3, <1>4, Settles
<1>6. \A h \in HomeNames, c \in Chans, o \in Ops :
         InHome(h, c, o)' <=> InHome(h, c, o) /\ h \notin {"req", "ind", "write"}
  BY <1>3, MembersEmpty DEF InHome
<1>7. \A o \in Ops : o \in D <=> \E h \in {"req", "ind", "write"} : InHome(h, FirstChan, o)
  BY DEF InQueues, InHome
<1>8. {"req", "ind", "write"} \subseteq HomeNames /\ FirstChan \in Chans
  BY AttBearerAssumption DEF HomeNames
<1>9. Rehomed
  <2>1. ASSUME NEW o \in Ops, o \in D PROVE Goes(o)
    <3>1. PICK h \in {"req", "ind", "write"} : InHome(h, FirstChan, o)
      BY <1>7, <2>1
    <3>2. \A h2 \in HomeNames, c2 \in Chans : InHome(h2, c2, o) => h2 = h
      BY <1>8, <3>1, HomeUnique
    <3>3. QED
      BY <1>5, <1>6, <2>1, <3>2 DEF Goes
  <2>2. ASSUME NEW o \in Ops, o \notin D PROVE Stays(o)
    <3>1. \A h \in HomeNames, c \in Chans : InHome(h, c, o) => h \notin {"req", "ind", "write"}
      BY <1>7, <2>2 DEF InHome
    <3>2. QED
      BY <1>5, <1>6, <2>2, <3>1 DEF Stays
  <2>3. QED
    BY <2>1, <2>2 DEF Rehomed
<1>10. QueuesOK'
  <2>1. /\ Distinct(Taken)' /\ \A c \in Chans : Distinct(chanQ[c])'
        /\ Distinct(reqQ)' /\ Distinct(indQ)' /\ Distinct(writeQ)'
    BY <1>3 DEF Homed, Distinct
  <2>2. Sorted'
    BY <1>3, MembersEmpty DEF Sorted, op
  <2>3. reqQ' \in Seq(Ops) /\ indQ' \in Seq(Ops) /\ writeQ' \in Seq(Ops)
    BY <1>3
  <2>4. /\ pendReq' \in [Chans -> {None} \cup {o \in Ops : kind'[o] = "req"}]
        /\ pendInd' \in [Chans -> {None} \cup {o \in Ops : kind'[o] = "ind"}]
        /\ chanQ' \in [Chans -> Seq(Ops)]
    BY <1>3 DEF TypeOK, op
  <2>5. QED
    BY <2>1, <2>2, <2>3, <2>4 DEF QueuesOK
<1>11. ChannelsOK' /\ Handler'
  BY <1>3 DEF TypeOK, ChannelsOK, Handler, CancelAll, call, io
<1>12. dropped \subseteq dropped' /\ dropped' \subseteq Ops
  BY <1>1, <1>3 DEF TypeOK
<1> HIDE DEF D, C
<1>13. QED
  BY <1>2, <1>3, <1>4, <1>9, <1>10, <1>11, <1>12, DestroySteps

\* The last bt_att_unref destroys everything there is.
LEMMA UnrefKeeps == ASSUME IndInv, Unref PROVE IndInv'
<1> USE DEF IndInv
<1> DEFINE D == InQueues \cup OnChannels \cup UNION {Members(chanQ[c]) : c \in Chans}
<1>1. at = "idle" /\ hand = <<>> /\ ~called /\ Taken = <<>>
  BY DEF Unref, Handler, Taken
<1>2. D \subseteq Ops
  <2>1. InQueues \subseteq Ops
    BY MembersType DEF InQueues, TypeOK
  <2>2. OnChannels \subseteq Ops
    BY DEF OnChannels, Some, TypeOK
  <2>3. \A c \in Chans : Members(chanQ[c]) \subseteq Ops
    BY MembersType DEF TypeOK
  <2>4. QED
    BY <2>1, <2>2, <2>3
<1>3. \A o \in D : Alive(o)
  <2>1. ASSUME NEW o \in D PROVE Alive(o)
    <3>1. o \in Ops
      BY <1>2
    <3>2. CASE o \in OnChannels
      <4>1. \E c \in Chans : o = pendReq[c] \/ o = pendInd[c]
        BY <3>2 DEF OnChannels, Some, TypeOK
      <4>2. QED
        BY <3>1, <4>1, QueueAlive
    <3>3. CASE o \notin OnChannels
      BY <3>1, <3>3, QueueAlive
    <3>4. QED
      BY <3>2, <3>3
  <2>2. QED
    BY <2>1
<1>4. /\ reqQ' = <<>> /\ indQ' = <<>> /\ writeQ' = <<>> /\ chanQ' = [c \in Chans |-> <<>>]
      /\ pendReq' = [c \in Chans |-> None] /\ pendInd' = [c \in Chans |-> None]
      /\ Taken' = <<>> /\ UNCHANGED op
      /\ Settle(D, {}) /\ dropped' = dropped \cup D
      /\ UNCHANGED <<called, hand>>
  BY <1>1 DEF Unref, UserDrops, call, Taken
<1>5. \A o \in armed \cap (D \cup {}) :
         kind[o] \in {"req", "ind"} => o \in dropped' \/ "cb" \in Members(hist[o])
  BY <1>4
<1>6. \A o \in Ops : Alive(o)' <=> Alive(o) /\ o \notin D
  BY <1>3, <1>4, <1>5, Settles
<1>7. \A h \in HomeNames, c \in Chans, o \in Ops : ~InHome(h, c, o)'
  <2>1. None \notin Ops
    BY DEF None, Ops
  <2>2. QED
    BY <1>4, <2>1, MembersEmpty DEF InHome
<1>8. ASSUME NEW o \in Ops, Alive(o) PROVE o \in D
  <2>1. PICK h \in HomeNames, c \in Chans : InHome(h, c, o)
    BY <1>8, AliveHome
  <2>2. o # None
    BY DEF None, Ops
  <2>3. CASE h = "pendReq" \/ h = "pendInd"
    <3>1. o = pendReq[c] \/ o = pendInd[c]
      BY <2>1, <2>3 DEF InHome
    <3>2. c \in chans
      BY <2>2, <3>1 DEF Handler
    <3>3. QED
      BY <2>2, <3>1, <3>2 DEF OnChannels, Some
  <2>4. CASE h \notin {"pendReq", "pendInd"}
    BY <1>1, <2>1, <2>4, MembersEmpty DEF InHome, InQueues
  <2>5. QED
    BY <2>3, <2>4
<1>9. Rehomed
  BY <1>6, <1>7, <1>8 DEF Rehomed, Goes
<1>10. QueuesOK'
  <2>1. /\ Distinct(Taken)' /\ \A c \in Chans : Distinct(chanQ[c])'
        /\ Distinct(reqQ)' /\ Distinct(indQ)' /\ Distinct(writeQ)'
    BY <1>4 DEF Distinct
  <2>2. Sorted'
    BY <1>4, MembersEmpty DEF Sorted
  <2>3. /\ reqQ' \in Seq(Ops) /\ indQ' \in Seq(Ops) /\ writeQ' \in Seq(Ops)
        /\ chanQ' \in [Chans -> Seq(Ops)]
    BY <1>4
  <2>4. /\ pendReq' \in [Chans -> {None} \cup {o \in Ops : kind'[o] = "req"}]
        /\ pendInd' \in [Chans -> {None} \cup {o \in Ops : kind'[o] = "ind"}]
    BY <1>4
  <2>5. QED
    BY <2>1, <2>2, <2>3, <2>4 DEF QueuesOK
<1>11. ChannelsOK'
  <2>1. 1 \in 1..TopLevel
    BY AttBearerAssumption
  <2>2. inReq' \in [Chans -> BOOLEAN] /\ sec' \in [Chans -> 1..TopLevel]
    BY <2>1 DEF Unref
  <2>3. QED
    BY <2>2 DEF TypeOK, ChannelsOK, Unref, call
<1>12. Handler'
  BY <1>1, <1>4 DEF Handler, Unref, call
<1>13. dropped \subseteq dropped' /\ dropped' \subseteq Ops
  BY <1>2, <1>4 DEF TypeOK
<1> HIDE DEF D
<1>14. QED
  BY <1>3, <1>4, <1>5, <1>9, <1>10, <1>11, <1>12, <1>13, DestroySteps

\* can_write_data: what is written and needs no answer is destroyed; the first in the
\* queue of the channel or of the bearer.
LEMMA WrittenIsFreed ==
    ASSUME IndInv, at = "idle", NEW x \in Ops, kind[x] \notin {"req", "ind"}, NEW h \in HomeNames,
           NEW c \in Chans, InHome(h, c, x),
           \A h2 \in HomeNames, c2 \in Chans, o \in Ops :
              InHome(h2, c2, o)' <=> InHome(h2, c2, o) /\ ~(h2 = h /\ c2 = c /\ o = x),
           Settle({x}, {}), QueuesOK', UNCHANGED <<op, dropped, pending, chans, gone, shut, sec, writer, call>>,
           inReq' \in [Chans -> BOOLEAN]
    PROVE  IndInv'
<1> USE DEF IndInv
<1>1. Alive(x)
  BY HomeAlive
<1>2. \A o \in armed \cap ({x} \cup {}) :
         kind[o] \in {"req", "ind"} => o \in dropped' \/ "cb" \in Members(hist[o])
  OBVIOUS
<1>3. \A o \in Ops : Alive(o)' <=> Alive(o) /\ o \notin {x}
  BY <1>1, <1>2, Settles
<1>4. \A h2 \in HomeNames, c2 \in Chans : InHome(h2, c2, x) => h2 = h /\ c2 = c
  BY HomeUnique
<1>5. Rehomed
  <2>1. Goes(x)
    BY <1>3, <1>4 DEF Goes
  <2>2. \A o \in Ops : o # x => Stays(o)
    BY <1>3 DEF Stays
  <2>3. QED
    BY <2>1, <2>2 DEF Rehomed
<1>6. ChannelsOK' /\ Handler'
  BY DEF TypeOK, ChannelsOK, Handler, pending, call
<1>7. UNCHANGED <<called, hand>> /\ dropped \subseteq dropped' /\ dropped' \subseteq Ops
  BY DEF call, TypeOK
<1>8. QED
  BY <1>1, <1>2, <1>5, <1>6, <1>7, DestroySteps

\* A step that takes x from its home to another.
LEMMA OneMoves ==
    ASSUME IndInv, UNCHANGED <<op, fate>>, NEW x \in Ops, NEW h \in HomeNames, NEW c \in Chans,
           InHome(h, c, x), NEW h2 \in HomeNames, NEW c2 \in Chans, h # h2,
           \A g \in HomeNames, d \in Chans, o \in Ops :
              InHome(g, d, o)' <=> \/ InHome(g, d, o) /\ ~(g = h /\ d = c /\ o = x)
                                   \/ g = h2 /\ d = c2 /\ o = x
    PROVE  Rehomed
<1> USE DEF IndInv
<1>1. Alive(x)
  BY HomeAlive
<1>2. \A o \in Ops : Alive(o)' <=> Alive(o)
  BY DEF Alive, Freed, op, fate
<1>3. \A g \in HomeNames, d \in Chans : InHome(g, d, x) => g = h /\ d = c
  BY HomeUnique
<1>4. MovesTo(x, h2, c2)
  BY <1>1, <1>2, <1>3 DEF MovesTo
<1>5. \A o \in Ops : o # x => Stays(o)
  BY <1>2 DEF Stays
<1>6. QED
  BY <1>4, <1>5 DEF Rehomed

\* can_write_data: requests and indications become pending, the rest is destroyed.
LEMMA WriteOutKeeps == ASSUME IndInv, NEW c \in Chans, WriteOut(c) PROVE IndInv'
<1> USE DEF IndInv
<1> DEFINE from == Source(c)
           q == CASE from = "chan" -> chanQ[c] [] from = "write" -> writeQ
                  [] from = "req" -> reqQ [] OTHER -> indQ
<1>1. at = "idle" /\ c \in writer /\ Sendable(c) /\ c \in chans /\ ~called /\ hand = <<>>
  BY DEF WriteOut, TypeOK, Handler
<1>2. /\ from \in {"chan", "write", "req", "ind"} /\ q \in Seq(Ops) /\ q # <<>>
      /\ from = "req" => pendReq[c] = None
      /\ from = "ind" => pendInd[c] = None
  BY <1>1 DEF Source, Sendable, TypeOK
<1>3. Distinct(q)
  BY <1>2 DEF Homed
<1>4. PICK x \in Ops : x = Head(q)
  BY <1>2, MembersTail
<1>5. /\ Tail(q) \in Seq(Ops) /\ x \in Members(q)
      /\ Members(Tail(q)) = Members(q) \ {x} /\ Distinct(Tail(q))
  BY <1>2, <1>3, <1>4, MembersTail
<1>6. /\ from = "chan" => kind[x] \in Mute
      /\ from = "write" => kind[x] \in {"cmd", "rsp"}
      /\ from = "req" => kind[x] = "req"
      /\ from = "ind" => kind[x] = "ind"
  BY <1>2, <1>5 DEF Sorted
<1>7. /\ chanQ' = IF from = "chan" THEN [chanQ EXCEPT ![c] = Tail(@)] ELSE chanQ
      /\ writeQ' = IF from = "write" THEN Tail(writeQ) ELSE writeQ
      /\ reqQ' = IF from = "req" THEN Tail(reqQ) ELSE reqQ
      /\ indQ' = IF from = "ind" THEN Tail(indQ) ELSE indQ
      /\ pendReq' = IF kind[x] = "req" THEN [pendReq EXCEPT ![c] = x] ELSE pendReq
      /\ pendInd' = IF kind[x] = "ind" THEN [pendInd EXCEPT ![c] = x] ELSE pendInd
      /\ inReq' = [inReq EXCEPT ![c] = @ /\ kind[x] # "rsp"]
      /\ Settle(IF kind[x] \in {"req", "ind"} THEN {} ELSE {x}, {})
      /\ UNCHANGED <<op, dropped, chans, gone, shut, sec, writer, call>>
  BY <1>4 DEF WriteOut
<1>8. inReq' \in [Chans -> BOOLEAN]
  BY <1>7, Zenon DEF TypeOK
<1>9. Taken' = Taken /\ FirstChan \in Chans /\ kind' = kind
  BY <1>7, AttBearerAssumption DEF Taken, call, op
<1>10. CASE from = "chan"
  <2>1. /\ q = chanQ[c] /\ chanQ' = [chanQ EXCEPT ![c] = Tail(chanQ[c])]
        /\ writeQ' = writeQ /\ reqQ' = reqQ /\ indQ' = indQ
        /\ pendReq' = pendReq /\ pendInd' = pendInd /\ Settle({x}, {})
    BY <1>6, <1>7, <1>10 DEF Mute
  <2>2. chanQ'[c] = Tail(q) /\ \A d \in Chans : d # c => chanQ'[d] = chanQ[d]
    BY <2>1 DEF TypeOK
  <2>3. chanQ' \in [Chans -> Seq(Ops)]
    BY <1>5, <2>1 DEF TypeOK
  <2>4. \A d \in Chans, o \in Ops :
           o \in Members(chanQ'[d]) <=> o \in Members(chanQ[d]) /\ ~(d = c /\ o = x)
    BY <1>5, <2>1, <2>2
  <2>5. \A d \in Chans : Distinct(chanQ'[d])
    BY <1>5, <2>2 DEF Homed
  <2>6. /\ writeQ' = writeQ /\ reqQ' = reqQ /\ indQ' = indQ
        /\ pendReq' = pendReq /\ pendInd' = pendInd
    BY <2>1
  <2>7. \A d \in Chans : Members(chanQ'[d]) \subseteq Members(chanQ[d])
    BY <1>5, <2>1, <2>2
  <2>8. Sorted'
    BY <1>9, <2>6, <2>7 DEF Sorted
  <2>9. QueuesOK'
    BY <1>9, <2>3, <2>5, <2>6, <2>8, QueuesFact DEF QueuesOK, Distinct
  <2>10. \A h2 \in HomeNames, c2 \in Chans, o \in Ops :
            InHome(h2, c2, o)' <=> InHome(h2, c2, o) /\ ~(h2 = "chan" /\ c2 = c /\ o = x)
    BY <1>9, <2>4, <2>6 DEF InHome
  <2>11. InHome("chan", c, x) /\ "chan" \in HomeNames /\ kind[x] \notin {"req", "ind"}
    BY <1>5, <1>6, <1>10, <2>1 DEF InHome, HomeNames, Mute
  <2>12. UNCHANGED <<op, dropped, pending, chans, gone, shut, sec, writer, call>>
    BY <1>7, <2>6 DEF pending
  <2>13. QED
    BY <1>1, <1>8, <2>1, <2>9, <2>10, <2>11, <2>12, WrittenIsFreed
<1>11. CASE from = "write"
  <2>1. /\ q = writeQ /\ writeQ' = Tail(q)
        /\ chanQ' = chanQ /\ reqQ' = reqQ /\ indQ' = indQ
        /\ pendReq' = pendReq /\ pendInd' = pendInd /\ Settle({x}, {})
    BY <1>6, <1>7, <1>11
  <2>2. Members(writeQ') = Members(writeQ) \ {x} /\ Distinct(writeQ') /\ writeQ' \in Seq(Ops)
    BY <1>5, <2>1
  <2>3. Sorted'
    BY <1>9, <2>1, <2>2 DEF Sorted
  <2>4. QueuesOK'
    BY <1>9, <2>1, <2>2, <2>3, QueuesFact DEF QueuesOK, Distinct
  <2>5. \A h2 \in HomeNames, c2 \in Chans, o \in Ops :
           InHome(h2, c2, o)' <=> InHome(h2, c2, o) /\ ~(h2 = "write" /\ c2 = FirstChan /\ o = x)
    BY <1>9, <2>1, <2>2 DEF InHome
  <2>6. InHome("write", FirstChan, x) /\ "write" \in HomeNames /\ kind[x] \notin {"req", "ind"}
    BY <1>5, <1>6, <1>11, <2>1 DEF InHome, HomeNames
  <2>7. UNCHANGED <<op, dropped, pending, chans, gone, shut, sec, writer, call>>
    BY <1>7, <2>1 DEF pending
  <2>8. QED
    BY <1>1, <1>8, <1>9, <2>1, <2>4, <2>5, <2>6, <2>7, WrittenIsFreed
<1>12. ASSUME from = "req" \/ from = "ind" PROVE UNCHANGED <<op, fate>>
  <2>1. Settle({}, {})
    BY <1>6, <1>7, <1>12
  <2>2. armed' = armed
    BY <2>1 DEF Settle, Disarmed
  <2>3. hist' = hist
    <3>1. \A o \in Ops : hist'[o] = hist[o] \o <<>> \o <<>>
      BY <2>1 DEF Settle
    <3>2. \A o \in Ops : hist'[o] = hist[o]
      BY <3>1, LifeHistories, HistoryGrows
    <3>3. hist' = [o \in Ops |-> hist'[o]] /\ hist = [o \in Ops |-> hist[o]]
      BY <2>1 DEF Settle, TypeOK
    <3>4. QED
      BY <3>2, <3>3
  <2>4. QED
    BY <1>7, <2>2, <2>3 DEF fate
<1>13. ChannelsOK'
  BY <1>7, <1>8 DEF TypeOK, ChannelsOK, call
<1>14. CASE from = "req"
  <2>1. /\ q = reqQ /\ reqQ' = Tail(q)
        /\ chanQ' = chanQ /\ writeQ' = writeQ /\ indQ' = indQ
        /\ pendReq' = [pendReq EXCEPT ![c] = x] /\ pendInd' = pendInd
    BY <1>6, <1>7, <1>14
  <2>2. Members(reqQ') = Members(reqQ) \ {x} /\ Distinct(reqQ') /\ reqQ' \in Seq(Ops)
    BY <1>5, <2>1
  <2>3. \A d \in Chans, o \in Ops : o = pendReq'[d] <=> o = pendReq[d] \/ (d = c /\ o = x)
    BY <1>2, <1>14, <2>1 DEF TypeOK, None, Ops
  <2>4. pendReq' \in [Chans -> {None} \cup {o \in Ops : kind'[o] = "req"}]
    BY <1>6, <1>9, <1>14, <2>1 DEF TypeOK
  <2>5. /\ chanQ' = chanQ /\ writeQ' = writeQ /\ indQ' = indQ /\ pendInd' = pendInd
    BY <2>1
  <2>6. Sorted'
    BY <1>9, <2>2, <2>5 DEF Sorted
  <2>7. QueuesOK'
    BY <1>9, <2>2, <2>4, <2>5, <2>6, QueuesFact DEF QueuesOK, Distinct
  <2>8. \A g \in HomeNames, d \in Chans, o \in Ops :
           InHome(g, d, o)' <=> \/ InHome(g, d, o) /\ ~(g = "req" /\ d = FirstChan /\ o = x)
                                \/ g = "pendReq" /\ d = c /\ o = x
    BY <1>9, <2>2, <2>3, <2>5 DEF InHome
  <2>9. InHome("req", FirstChan, x) /\ "req" \in HomeNames /\ "pendReq" \in HomeNames
    BY <1>5, <2>1 DEF InHome, HomeNames
  <2>10. Rehomed
    BY <1>9, <1>12, <1>14, <2>8, <2>9, OneMoves
  <2>11. Handler'
    BY <1>1, <1>7, <2>1 DEF Handler, call, TypeOK
  <2>12. QED
    BY <1>1, <1>7, <1>12, <1>13, <1>14, <2>7, <2>10, <2>11, MoveSteps DEF call
<1>15. CASE from = "ind"
  <2>1. /\ q = indQ /\ indQ' = Tail(q)
        /\ chanQ' = chanQ /\ writeQ' = writeQ /\ reqQ' = reqQ
        /\ pendInd' = [pendInd EXCEPT ![c] = x] /\ pendReq' = pendReq
    BY <1>6, <1>7, <1>15
  <2>2. Members(indQ') = Members(indQ) \ {x} /\ Distinct(indQ') /\ indQ' \in Seq(Ops)
    BY <1>5, <2>1
  <2>3. \A d \in Chans, o \in Ops : o = pendInd'[d] <=> o = pendInd[d] \/ (d = c /\ o = x)
    BY <1>2, <1>15, <2>1 DEF TypeOK, None, Ops
  <2>4. pendInd' \in [Chans -> {None} \cup {o \in Ops : kind'[o] = "ind"}]
    BY <1>6, <1>9, <1>15, <2>1 DEF TypeOK
  <2>5. /\ chanQ' = chanQ /\ writeQ' = writeQ /\ reqQ' = reqQ /\ pendReq' = pendReq
    BY <2>1
  <2>6. Sorted'
    BY <1>9, <2>2, <2>5 DEF Sorted
  <2>7. QueuesOK'
    BY <1>9, <2>2, <2>4, <2>5, <2>6, QueuesFact DEF QueuesOK, Distinct
  <2>8. \A g \in HomeNames, d \in Chans, o \in Ops :
           InHome(g, d, o)' <=> \/ InHome(g, d, o) /\ ~(g = "ind" /\ d = FirstChan /\ o = x)
                                \/ g = "pendInd" /\ d = c /\ o = x
    BY <1>9, <2>2, <2>3, <2>5 DEF InHome
  <2>9. InHome("ind", FirstChan, x) /\ "ind" \in HomeNames /\ "pendInd" \in HomeNames
    BY <1>5, <2>1 DEF InHome, HomeNames
  <2>10. Rehomed
    BY <1>9, <1>12, <1>15, <2>8, <2>9, OneMoves
  <2>11. Handler'
    BY <1>1, <1>7, <2>1 DEF Handler, call, TypeOK
  <2>12. QED
    BY <1>1, <1>7, <1>12, <1>13, <1>15, <2>7, <2>10, <2>11, MoveSteps DEF call
<1>16. QED
  BY <1>2, <1>10, <1>11, <1>14, <1>15

\* A step that takes the operations in M from wherever they are to one home.
LEMMA ManyMove ==
    ASSUME IndInv, UNCHANGED <<op, fate>>, NEW M, NEW h \in HomeNames, NEW c \in Chans,
           \A o \in Ops : o \in M => Alive(o),
           \A g \in HomeNames, d \in Chans, o \in Ops :
              o \in M => (InHome(g, d, o)' <=> g = h /\ d = c),
           \A g \in HomeNames, d \in Chans, o \in Ops :
              o \notin M => (InHome(g, d, o)' <=> InHome(g, d, o))
    PROVE  Rehomed
<1>1. \A o \in Ops : Alive(o)' <=> Alive(o)
  BY DEF Alive, Freed, op, fate
<1>2. \A o \in Ops : o \in M => MovesTo(o, h, c)
  BY <1>1 DEF MovesTo
<1>3. \A o \in Ops : o \notin M => Stays(o)
  BY <1>1 DEF Stays
<1>4. QED
  BY <1>2, <1>3 DEF Rehomed

\* handle_error_rsp puts the request back, first in the queue.
LEMMA RetryKeeps == ASSUME IndInv, NEW c \in Chans, Retry(c) PROVE IndInv'
<1> USE DEF IndInv
<1>1. c \in chans /\ at = "idle" /\ hand = <<>> /\ ~called /\ pendReq[c] # None
  BY DEF Retry, Hears, Handler
<1>2. PICK x \in Ops : x = pendReq[c] /\ kind[x] = "req"
  BY <1>1 DEF TypeOK
<1>3. /\ reqQ' = <<x>> \o reqQ /\ pendReq' = [pendReq EXCEPT ![c] = None]
      /\ sec' = [sec EXCEPT ![c] = @ + 1] /\ sec[c] < TopLevel
      /\ indQ' = indQ /\ writeQ' = writeQ /\ chanQ' = chanQ /\ pendInd' = pendInd
      /\ UNCHANGED <<op, fate, chans, gone, shut, inReq, call>> /\ Wake({c})
  BY <1>2 DEF Retry
<1>4. FirstChan \in Chans /\ Taken' = Taken /\ kind' = kind
  BY <1>3, AttBearerAssumption DEF Taken, call, op
<1>5. InHome("pendReq", c, x) /\ "pendReq" \in HomeNames /\ "req" \in HomeNames
  BY <1>2 DEF InHome, HomeNames
<1>6. x \notin Members(reqQ)
  <2>1. ~InHome("req", FirstChan, x)
    BY <1>4, <1>5, HomeUnique
  <2>2. QED
    BY <2>1 DEF InHome
<1>7. /\ reqQ' \in Seq(Ops) /\ Members(reqQ') = Members(reqQ) \cup {x} /\ Distinct(reqQ')
  BY <1>3, <1>6, MembersCons DEF TypeOK, Homed
<1>8. \A d \in Chans, o \in Ops : o = pendReq'[d] <=> o = pendReq[d] /\ ~(d = c /\ o = x)
  BY <1>2, <1>3 DEF TypeOK, None, Ops
<1>9. pendReq' \in [Chans -> {None} \cup {o \in Ops : kind'[o] = "req"}]
  BY <1>3, <1>4 DEF TypeOK
<1>10. Sorted'
  BY <1>2, <1>3, <1>4, <1>7 DEF Sorted
<1>11. QueuesOK'
  BY <1>3, <1>4, <1>7, <1>9, <1>10, QueuesFact DEF QueuesOK, Distinct
<1>12. \A g \in HomeNames, d \in Chans, o \in Ops :
          InHome(g, d, o)' <=> \/ InHome(g, d, o) /\ ~(g = "pendReq" /\ d = c /\ o = x)
                               \/ g = "req" /\ d = FirstChan /\ o = x
  BY <1>3, <1>4, <1>7, <1>8 DEF InHome
<1>13. Rehomed
  BY <1>3, <1>4, <1>5, <1>12, OneMoves
<1>14. ChannelsOK'
  <2>1. sec' \in [Chans -> 1..TopLevel]
    BY <1>3, AttBearerAssumption DEF TypeOK
  <2>2. writer' \subseteq chans'
    BY <1>1, <1>3, Wakes DEF TypeOK
  <2>3. QED
    BY <1>3, <2>1, <2>2 DEF TypeOK, ChannelsOK, call
<1>15. Handler'
  BY <1>1, <1>3 DEF Handler, call, TypeOK
<1>16. QED
  BY <1>1, <1>3, <1>11, <1>13, <1>14, <1>15, MoveSteps DEF call

\* timeout_cb takes the operation from the channel before it calls back.
LEMMA TimeoutStep == ASSUME IndInv, NEW c \in Chans, NEW p \in Ops, Timeout(c, p) PROVE IndInv'
<1> USE DEF IndInv
<1>1. c \in chans /\ at = "idle" /\ hand = <<>> /\ ~called /\ (p = pendReq[c] \/ p = pendInd[c])
  BY DEF Timeout, Handler, Some
<1>2. /\ at' = "timeout" /\ chan' = c /\ hand' = <<p>> /\ called' = FALSE
      /\ pendReq' = [pendReq EXCEPT ![c] = IF @ = p THEN None ELSE @]
      /\ pendInd' = [pendInd EXCEPT ![c] = IF @ = p THEN None ELSE @]
      /\ reqQ' = reqQ /\ indQ' = indQ /\ writeQ' = writeQ /\ chanQ' = chanQ
      /\ UNCHANGED <<op, fate, io, writer>>
  BY DEF Timeout, Take, queues
<1>3. FirstChan \in Chans /\ kind' = kind /\ p # None
  BY <1>2, AttBearerAssumption DEF op, None, Ops
<1>4. Taken = <<>> /\ Taken' = <<p>>
  BY <1>1, <1>2 DEF Taken
<1>5. Members(Taken) = {} /\ Members(Taken') = {p} /\ Distinct(Taken')
  BY <1>4, MembersOne, MembersEmpty
<1> DEFINE h == IF p = pendReq[c] THEN "pendReq" ELSE "pendInd"
<1>6. InHome(h, c, p) /\ h \in HomeNames /\ "hand" \in HomeNames /\ h # "hand"
  BY <1>1 DEF InHome, HomeNames
<1> HIDE DEF h
<1>7. \A g \in HomeNames, d \in Chans : InHome(g, d, p) => g = h /\ d = c
  BY <1>6, HomeUnique
<1>8. \A d \in Chans : p # pendReq[d] \/ d = c
  BY <1>7 DEF InHome, HomeNames
<1>9. \A d \in Chans : p # pendInd[d] \/ d = c
  BY <1>7 DEF InHome, HomeNames
<1>10. \A d \in Chans, o \in Ops : o = pendReq'[d] <=> o = pendReq[d] /\ o # p
  <2>1. None \notin Ops /\ pendReq'[c] = IF pendReq[c] = p THEN None ELSE pendReq[c]
    BY <1>2 DEF TypeOK, None, Ops
  <2>2. \A d \in Chans : d # c => pendReq'[d] = pendReq[d] /\ pendReq[d] # p
    BY <1>2, <1>8 DEF TypeOK
  <2>3. QED
    BY <2>1, <2>2
<1>11. \A d \in Chans, o \in Ops : o = pendInd'[d] <=> o = pendInd[d] /\ o # p
  <2>1. None \notin Ops /\ pendInd'[c] = IF pendInd[c] = p THEN None ELSE pendInd[c]
    BY <1>2 DEF TypeOK, None, Ops
  <2>2. \A d \in Chans : d # c => pendInd'[d] = pendInd[d] /\ pendInd[d] # p
    BY <1>2, <1>9 DEF TypeOK
  <2>3. QED
    BY <2>1, <2>2
<1>12. /\ p \notin Members(reqQ) /\ p \notin Members(indQ) /\ p \notin Members(writeQ)
       /\ \A d \in Chans : p \notin Members(chanQ[d])
  <2>1. h \in {"pendReq", "pendInd"}
    BY DEF h
  <2>2. QED
    BY <1>3, <1>7, <2>1 DEF InHome, HomeNames
<1>13. \A g \in HomeNames, d \in Chans, o \in Ops :
          o \in {p} => (InHome(g, d, o)' <=> g = "hand" /\ d = FirstChan)
  BY <1>2, <1>5, <1>10, <1>11, <1>12 DEF InHome, HomeNames
<1>14. \A g \in HomeNames, d \in Chans, o \in Ops :
          o \notin {p} => (InHome(g, d, o)' <=> InHome(g, d, o))
  BY <1>2, <1>5, <1>10, <1>11 DEF InHome
<1>15. Rehomed
  <2>1. Alive(p)
    BY <1>6, HomeAlive
  <2>2. \A o \in Ops : o \in {p} => Alive(o)
    BY <2>1
  <2>3. UNCHANGED <<op, fate>>
    BY <1>2
  <2> DEFINE M == {p}
  <2>4. /\ \A o \in Ops : o \in M => Alive(o)
        /\ \A g \in HomeNames, d \in Chans, o \in Ops :
              o \in M => (InHome(g, d, o)' <=> g = "hand" /\ d = FirstChan)
        /\ \A g \in HomeNames, d \in Chans, o \in Ops :
              o \notin M => (InHome(g, d, o)' <=> InHome(g, d, o))
    BY <1>13, <1>14, <2>2
  <2> HIDE DEF M
  <2>5. QED
    BY <1>3, <1>6, <2>3, <2>4, ManyMove
<1>16. /\ pendReq' \in [Chans -> {None} \cup {o \in Ops : kind'[o] = "req"}]
       /\ pendInd' \in [Chans -> {None} \cup {o \in Ops : kind'[o] = "ind"}]
  BY <1>2, <1>3 DEF TypeOK
<1>17. Sorted'
  BY <1>2, <1>3 DEF Sorted
<1>18. QueuesOK'
  BY <1>2, <1>5, <1>16, <1>17, QueuesFact DEF QueuesOK, Distinct
<1>19. hand' \in Seq(Ops) /\ Len(hand') = 1 /\ hand' # <<>>
  BY <1>2
<1>20. ChannelsOK'
  BY <1>2, <1>19 DEF TypeOK, ChannelsOK, io
<1>21. Handler'
  BY <1>1, <1>2, <1>19 DEF Handler, TypeOK, io
<1>22. QED
  BY <1>1, <1>2, <1>15, <1>18, <1>20, <1>21, MoveSteps

\* What disconnect_cb takes from the channel, in this order.
LEMMA HeldTwo ==
    ASSUME NEW a \in {None} \cup Ops, NEW b \in {None} \cup Ops, a # b \/ a = None
    PROVE  /\ Held(a) \o Held(b) \in Seq(Ops)
           /\ Members(Held(a) \o Held(b)) = {a, b} \ {None}
           /\ Distinct(Held(a) \o Held(b))
<1>1. None \notin Ops
  BY DEF None, Ops
<1>2. \A q \in Seq(Ops) : q \o <<>> = q /\ <<>> \o q = q
  BY ConcatEmptySeq
<1>3. CASE a = None /\ b = None
  <2>1. Held(a) \o Held(b) = <<>>
    BY <1>2, <1>3 DEF Held
  <2>2. QED
    BY <1>3, <2>1, MembersEmpty
<1>4. CASE a = None /\ b \in Ops
  <2>1. Held(a) \o Held(b) = <<b>>
    BY <1>1, <1>2, <1>4 DEF Held
  <2>2. QED
    BY <1>1, <1>4, <2>1, MembersOne
<1>5. CASE a \in Ops /\ b = None
  <2>1. Held(a) \o Held(b) = <<a>>
    BY <1>1, <1>2, <1>5 DEF Held
  <2>2. QED
    BY <1>1, <1>5, <2>1, MembersOne
<1>6. CASE a \in Ops /\ b \in Ops
  <2>1. Held(a) \o Held(b) = <<a, b>>
    BY <1>1, <1>6, OneAndOne DEF Held
  <2>2. QED
    BY <1>1, <1>6, <2>1, MembersTwo
<1>7. QED
  BY <1>3, <1>4, <1>5, <1>6

\* disconnect_cb detaches the channel and takes what was pending on it.
LEMMA DisconnectKeeps == ASSUME IndInv, NEW c \in Chans, Disconnect(c) PROVE IndInv'
<1> USE DEF IndInv
<1> DEFINE a == pendReq[c]  b == pendInd[c]  q == Held(a) \o Held(b)
<1>1. c \in chans /\ at = "idle" /\ hand = <<>> /\ ~called
  BY DEF Disconnect, Handler
<1>2. /\ at' = "disc" /\ chan' = c /\ hand' = q /\ called' = FALSE
      /\ pendReq' = [pendReq EXCEPT ![c] = None] /\ pendInd' = [pendInd EXCEPT ![c] = None]
      /\ chans' = chans \ {c} /\ gone' = gone \cup {c}
      /\ shut' = shut \ {c} /\ writer' = writer \ {c}
      /\ inReq' = [inReq EXCEPT ![c] = FALSE] /\ sec' = [sec EXCEPT ![c] = 1]
      /\ reqQ' = reqQ /\ indQ' = indQ /\ writeQ' = writeQ /\ chanQ' = chanQ
      /\ UNCHANGED <<op, fate>>
  BY DEF Disconnect, Take, queues
<1>3. /\ FirstChan \in Chans /\ kind' = kind /\ None \notin Ops
  BY <1>2, AttBearerAssumption DEF op, None, Ops
<1>4. /\ a \in {None} \cup Ops /\ b \in {None} \cup Ops /\ (a # b \/ a = None)
      /\ a # None => kind[a] = "req"
      /\ b # None => kind[b] = "ind"
  BY DEF TypeOK
<1> DEFINE M == {a, b} \ {None}
<1>5. q \in Seq(Ops) /\ Members(q) = M /\ Distinct(q)
  BY <1>4, HeldTwo
<1>6. Taken = <<>> /\ Taken' = q /\ Members(Taken) = {} /\ Members(Taken') = M
  BY <1>1, <1>2, <1>5, MembersEmpty DEF Taken
<1>7. \A o \in Ops : o \in M <=> InHome("pendReq", c, o) \/ InHome("pendInd", c, o)
  BY <1>3 DEF InHome
<1>8. "pendReq" \in HomeNames /\ "pendInd" \in HomeNames /\ "hand" \in HomeNames
  BY DEF HomeNames
<1>9. \A o \in Ops : o \in M => Alive(o)
  BY <1>7, <1>8, HomeAlive
<1>10. \A o \in Ops, g \in HomeNames, d \in Chans :
          o \in M /\ InHome(g, d, o) => g \in {"pendReq", "pendInd"} /\ d = c
  BY <1>7, <1>8, HomeUnique
<1>11. \A d \in Chans, o \in Ops : o = pendReq'[d] <=> o = pendReq[d] /\ d # c
  BY <1>2, <1>3 DEF TypeOK
<1>12. \A d \in Chans, o \in Ops : o = pendInd'[d] <=> o = pendInd[d] /\ d # c
  BY <1>2, <1>3 DEF TypeOK
<1>13. ASSUME NEW g \in HomeNames, NEW d \in Chans, NEW o \in Ops, o \in M
       PROVE  InHome(g, d, o)' <=> g = "hand" /\ d = FirstChan
  <2>1. InHome(g, d, o) => g \in {"pendReq", "pendInd"} /\ d = c
    BY <1>10, <1>13
  <2>2. CASE g = "hand"
    BY <1>6, <1>13, <2>2 DEF InHome
  <2>3. CASE g = "pendReq"
    BY <1>11, <2>1, <2>3 DEF InHome
  <2>4. CASE g = "pendInd"
    BY <1>12, <2>1, <2>4 DEF InHome
  <2>5. CASE g \in {"req", "ind", "write", "chan"}
    BY <1>2, <2>1, <2>5 DEF InHome
  <2>6. QED
    BY <2>2, <2>3, <2>4, <2>5 DEF HomeNames
<1>14. ASSUME NEW g \in HomeNames, NEW d \in Chans, NEW o \in Ops, o \notin M
       PROVE  InHome(g, d, o)' <=> InHome(g, d, o)
  <2>1. o # pendReq[c] /\ o # pendInd[c]
    BY <1>3, <1>14
  <2>2. QED
    BY <1>2, <1>6, <1>11, <1>12, <1>14, <2>1 DEF InHome
<1> HIDE DEF a, b, q, M
<1>15. Rehomed
  BY <1>2, <1>3, <1>8, <1>9, <1>13, <1>14, ManyMove
<1>16. /\ pendReq' \in [Chans -> {None} \cup {o \in Ops : kind'[o] = "req"}]
       /\ pendInd' \in [Chans -> {None} \cup {o \in Ops : kind'[o] = "ind"}]
  BY <1>2, <1>3 DEF TypeOK
<1>17. Sorted'
  BY <1>2, <1>3 DEF Sorted
<1>18. QueuesOK'
  BY <1>2, <1>5, <1>6, <1>16, <1>17, QueuesFact DEF QueuesOK, Distinct
<1>19. ChannelsOK'
  <2>1. inReq' \in [Chans -> BOOLEAN]
    BY <1>2, Zenon DEF TypeOK
  <2>2. sec' \in [Chans -> 1..TopLevel]
    BY <1>2, AttBearerAssumption DEF TypeOK
  <2>3. QED
    BY <1>2, <1>5, <2>1, <2>2 DEF TypeOK, ChannelsOK
<1>20. Handler'
  BY <1>2 DEF Handler, TypeOK
<1>21. QED
  BY <1>1, <1>2, <1>15, <1>18, <1>19, <1>20, MoveSteps
-----------------------------------------------------------------------------
(* The rest of a handler that calls back. *)

\* The callback is called when the handlers are still set, and leaves its mark.
LEMMA CallBackKeeps == ASSUME IndInv, CallBack PROVE IndInv'
<1> USE DEF IndInv
<1>1. hand # <<>> /\ ~called /\ called'
  BY DEF CallBack
<1>2. PICK x \in Ops : x = Head(hand) /\ Alive(x)
  BY <1>1, HandAlive
<1> DEFINE calls == x \in armed /\ kind[x] # "cmd"
<1>3. /\ hist' = IF calls THEN [hist EXCEPT ![x] = Append(@, "cb")] ELSE hist
      /\ UNCHANGED <<op, armed, dropped, queues, pending, io, writer, at, chan, hand>>
  BY <1>2 DEF CallBack
<1>4. calls => hist[x] = <<>> /\ ~("cb" \in Members(hist[x]))
  <2>1. x \in armed => ~("cb" \in Members(hist[x]))
    BY <1>1 DEF CallInv
  <2>2. x \in armed => hist[x] \in {<<>>, <<"cb">>}
    BY DEF Life, LifeOf
  <2>3. QED
    BY <2>1, <2>2, HistoryMembers
<1>5. /\ \A o \in Ops : o # x => hist'[o] = hist[o]
      /\ calls => hist'[x] = <<"cb">>
      /\ ~calls => hist'[x] = hist[x]
  <2>1. hist'[x] = IF calls THEN Append(hist[x], "cb") ELSE hist[x]
    BY <1>3 DEF TypeOK
  <2>2. \A o \in Ops : o # x => hist'[o] = hist[o]
    BY <1>3 DEF TypeOK
  <2>3. QED
    BY <1>4, <2>1, <2>2, HistoryGrows
<1>6. used' = used /\ kind' = kind /\ armed' = armed /\ dropped' = dropped /\ hand' = hand
  BY <1>3 DEF op
<1>7. hist' \in [Ops -> Seq({"cb", "destroy", "free"})]
  <2>1. hist' = [o \in Ops |-> hist'[o]]
    BY <1>3 DEF TypeOK
  <2>2. <<"cb">> \in Seq({"cb", "destroy", "free"})
    OBVIOUS
  <2>3. \A o \in Ops : hist[o] \in Seq({"cb", "destroy", "free"})
    BY DEF TypeOK
  <2>4. \A o \in Ops : hist'[o] \in Seq({"cb", "destroy", "free"})
    BY <1>5, <2>2, <2>3
  <2>5. QED
    BY <2>1, <2>4
<1>8. TypeOK'
  BY <1>1, <1>3, <1>7 DEF TypeOK, op, queues, pending, io
<1>9. \A o \in Ops : /\ Freed(o)' <=> Freed(o)
                     /\ "cb" \in Members(hist'[o]) <=>
                           "cb" \in Members(hist[o]) \/ (o = x /\ calls)
  BY <1>4, <1>5, HistoryMembers DEF Freed
<1>10. Taken' = Taken
  BY <1>3 DEF Taken
<1>11. Homed'
  <2>1. \A o \in Ops : Stays(o)
    BY <1>3, <1>6, <1>9, <1>10 DEF Stays, Alive, InHome, queues, pending
  <2>2. \A o \in Ops : HomeOf(o)'
    BY <2>1, HomeSteps
  <2>3. QED
    BY <1>3, <1>10, <2>2 DEF Homed, Distinct, queues
<1>12. Sorted' /\ Handler'
  BY <1>1, <1>3 DEF Sorted, Handler, op, queues, pending, io
<1>13. Life'
  <2>1. ASSUME NEW o \in Ops PROVE LifeOf(o)'
    <3>1. LifeOf(o)
      BY DEF Life
    <3>2. CASE o = x /\ calls
      <4>1. o <= used /\ kind[o] \notin Mute
        BY <3>2, LifeHistories
      <4>2. QED
        BY <1>5, <1>6, <3>2, <4>1 DEF LifeOf
    <3>3. CASE ~(o = x /\ calls)
      <4>1. hist'[o] = hist[o]
        BY <1>5, <3>3
      <4>2. QED
        BY <1>6, <3>1, <4>1 DEF LifeOf
    <3>4. QED
      BY <3>2, <3>3
  <2>2. QED
    BY <2>1 DEF Life
<1>14. Told'
  <2> SUFFICES ASSUME NEW o \in 1..used, kind[o] \in {"req", "ind"}, o \notin armed, o \notin dropped
               PROVE  "cb" \in Members(hist'[o])
    BY <1>6 DEF Told
  <2>1. o \in Ops /\ "cb" \in Members(hist[o])
    BY AttBearerAssumption DEF Told, TypeOK, Ops
  <2>2. QED
    BY <1>9, <2>1
<1>15. CallInv'
  <2> SUFFICES ASSUME NEW o \in armed PROVE "cb" \in Members(hist'[o]) <=> o = x /\ kind[o] # "cmd"
    BY <1>1, <1>2, <1>6 DEF CallInv
  <2>1. o \in Ops /\ ~("cb" \in Members(hist[o]))
    BY <1>1 DEF TypeOK, CallInv
  <2>2. QED
    BY <1>9, <2>1
<1>16. QED
  BY <1>8, <1>11, <1>12, <1>13, <1>14, <1>15

\* The operation whose callback has returned is destroyed.
LEMMA ReturnKeeps == ASSUME IndInv, Return PROVE IndInv'
<1> USE DEF IndInv
<1>1. called /\ ~called' /\ hand # <<>> /\ at # "idle"
  BY DEF Return, Handler
<1>2. PICK x \in Ops : x = Head(hand) /\ Alive(x) /\ x \in Members(hand)
  BY <1>1, HandAlive
<1>3. /\ Settle({x}, {}) /\ hand' = Tail(hand)
      /\ at' = IF at \in {"rsp", "conf", "timeout"} THEN "idle" ELSE at
      /\ pendReq' = IF at = "rsp" THEN [pendReq EXCEPT ![chan] = None] ELSE pendReq
      /\ pendInd' = IF at = "conf" THEN [pendInd EXCEPT ![chan] = None] ELSE pendInd
      /\ shut' = IF at = "timeout" THEN shut \cup {chan} ELSE shut
      /\ UNCHANGED <<op, dropped, queues, chans, gone, inReq, sec, chan>>
      /\ Wake(IF at \in {"rsp", "conf"} THEN {chan} ELSE {})
  BY <1>2 DEF Return
<1>4. /\ reqQ' = reqQ /\ indQ' = indQ /\ writeQ' = writeQ /\ chanQ' = chanQ
      /\ kind' = kind /\ dropped' = dropped /\ chan' = chan /\ chan \in Chans
      /\ FirstChan \in Chans /\ None \notin Ops
  BY <1>3, AttBearerAssumption DEF queues, op, TypeOK, None, Ops
<1>5. \A o \in armed \cap ({x} \cup {}) :
         kind[o] \in {"req", "ind"} => o \in dropped' \/ "cb" \in Members(hist[o])
  BY <1>1, <1>2 DEF CallInv
<1>6. \A o \in Ops : Alive(o)' <=> Alive(o) /\ o \notin {x}
  <2>1. \A o \in {x} : Alive(o)
    BY <1>2
  <2>2. QED
    BY <1>3, <1>4, <1>5, <2>1, Settles
<1>7. hand' \in Seq(Ops) /\ hand \in Seq(Ops)
  BY <1>1, <1>3, MembersTail DEF TypeOK
<1> DEFINE h == CASE at = "rsp" -> "pendReq" [] at = "conf" -> "pendInd" [] OTHER -> "hand"
           d == IF at \in {"rsp", "conf"} THEN chan ELSE FirstChan
<1>8. h \in HomeNames /\ d \in Chans
  BY <1>4 DEF HomeNames
<1>9. at \in {"rsp", "conf", "timeout"} => hand' = <<>>
  <2>1. at \in {"rsp", "conf", "timeout"} => Len(hand) = 1
    BY DEF Handler
  <2>2. QED
    BY <1>3, <1>7, <2>1
<1>10. /\ Distinct(Taken')
       /\ \A o \in Ops : o \in Members(Taken') <=> o \in Members(Taken) /\ ~(h = "hand" /\ o = x)
       /\ h = "hand" => x \in Members(Taken)
  <2>1. CASE at \in {"rsp", "conf"}
    <3>1. Taken = <<>> /\ Taken' = <<>> /\ h # "hand"
      BY <1>3, <1>9, <2>1 DEF Taken
    <3>2. QED
      BY <3>1, MembersEmpty
  <2>2. CASE at \notin {"rsp", "conf"}
    <3>1. Taken = hand /\ Taken' = Tail(hand) /\ h = "hand"
      BY <1>3, <2>2 DEF Taken
    <3>2. Members(Tail(hand)) = Members(hand) \ {x} /\ Distinct(Tail(hand))
      BY <1>1, <1>2, <1>7, <3>1, MembersTail DEF Homed
    <3>3. QED
      BY <1>2, <3>1, <3>2
  <2>3. QED
    BY <2>1, <2>2
<1>11. /\ \A c \in Chans, o \in Ops :
             o = pendReq'[c] <=> o = pendReq[c] /\ ~(h = "pendReq" /\ c = d /\ o = x)
       /\ h = "pendReq" => x = pendReq[d]
       /\ \A c \in Chans : pendReq'[c] \in {None, pendReq[c]}
       /\ pendReq' \in [Chans -> {None} \cup {o \in Ops : kind'[o] = "req"}]
  <2>1. CASE at = "rsp"
    <3>1. h = "pendReq" /\ d = chan /\ x = pendReq[chan]
      BY <1>2, <2>1 DEF Handler
    <3>2. pendReq'[chan] = None /\ \A c \in Chans : c # chan => pendReq'[c] = pendReq[c]
      BY <1>3, <2>1 DEF TypeOK
    <3>3. pendReq' \in [Chans -> {None} \cup {o \in Ops : kind'[o] = "req"}]
      BY <1>3, <1>4, <2>1 DEF TypeOK
    <3> HIDE DEF h, d
    <3>4. QED
      BY <1>4, <3>1, <3>2, <3>3
  <2>2. CASE at # "rsp"
    BY <1>3, <1>4, <2>2 DEF TypeOK
  <2>3. QED
    BY <2>1, <2>2
<1>12. /\ \A c \in Chans, o \in Ops :
             o = pendInd'[c] <=> o = pendInd[c] /\ ~(h = "pendInd" /\ c = d /\ o = x)
       /\ h = "pendInd" => x = pendInd[d]
       /\ \A c \in Chans : pendInd'[c] \in {None, pendInd[c]}
       /\ pendInd' \in [Chans -> {None} \cup {o \in Ops : kind'[o] = "ind"}]
  <2>1. CASE at = "conf"
    <3>1. h = "pendInd" /\ d = chan /\ x = pendInd[chan]
      BY <1>2, <2>1 DEF Handler
    <3>2. pendInd'[chan] = None /\ \A c \in Chans : c # chan => pendInd'[c] = pendInd[c]
      BY <1>3, <2>1 DEF TypeOK
    <3>3. pendInd' \in [Chans -> {None} \cup {o \in Ops : kind'[o] = "ind"}]
      BY <1>3, <1>4, <2>1 DEF TypeOK
    <3> HIDE DEF h, d
    <3>4. QED
      BY <1>4, <3>1, <3>2, <3>3
  <2>2. CASE at # "conf"
    BY <1>3, <1>4, <2>2 DEF TypeOK
  <2>3. QED
    BY <2>1, <2>2
<1>13. h \in {"pendReq", "pendInd", "hand"} /\ (h = "hand" => d = FirstChan)
  OBVIOUS
<1>14. ChannelsOK'
  <2>1. writer' \subseteq writer \cup (IF at \in {"rsp", "conf"} THEN {chan} ELSE {})
    BY <1>3, Wakes
  <2>2. at \in {"rsp", "conf", "timeout"} => chan \in chans
    BY DEF Handler
  <2>3. writer' \subseteq chans' /\ shut' \subseteq chans'
    BY <1>3, <2>1, <2>2 DEF TypeOK
  <2>4. at' \in {"idle", "rsp", "conf", "timeout", "disc", "req", "ind", "write"}
    BY <1>3 DEF TypeOK
  <2>5. inReq' \in [Chans -> BOOLEAN] /\ sec' \in [Chans -> 1..TopLevel]
    BY <1>3 DEF TypeOK
  <2>6. chans' \cup gone' \subseteq Chans /\ chan' \in Chans /\ called' \in BOOLEAN
    BY <1>3 DEF TypeOK, Return
  <2>7. QED
    BY <1>7, <2>3, <2>4, <2>5, <2>6 DEF ChannelsOK
<1>15. Handler'
  <2>1. at' = "idle" => hand' = <<>>
    BY <1>1, <1>3, <1>9
  <2>2. at' \notin {"rsp", "conf", "timeout"} /\ chans' = chans
    BY <1>3
  <2>3. \A c \in Chans \ chans : pendReq'[c] = None /\ pendInd'[c] = None
    BY <1>11, <1>12 DEF Handler
  <2>4. QED
    BY <1>1, <2>1, <2>2, <2>3 DEF Handler
<1> HIDE DEF h, d
<1>16. InHome(h, d, x)
  BY <1>10, <1>11, <1>12, <1>13 DEF InHome
<1>17. \A g \in HomeNames, c \in Chans, o \in Ops :
          InHome(g, c, o)' <=> InHome(g, c, o) /\ ~(g = h /\ c = d /\ o = x)
  <2>1. ASSUME NEW g \in HomeNames, NEW c \in Chans, NEW o \in Ops
        PROVE  InHome(g, c, o)' <=> InHome(g, c, o) /\ ~(g = h /\ c = d /\ o = x)
    <3>1. CASE g = "hand"
      BY <1>10, <1>13, <3>1 DEF InHome
    <3>2. CASE g = "pendReq"
      BY <1>11, <3>2 DEF InHome
    <3>3. CASE g = "pendInd"
      BY <1>12, <3>3 DEF InHome
    <3>4. CASE g \in {"req", "ind", "write", "chan"}
      BY <1>4, <1>13, <3>4 DEF InHome
    <3>5. QED
      BY <3>1, <3>2, <3>3, <3>4 DEF HomeNames
  <2>2. QED
    BY <2>1
<1>18. Rehomed
  <2>1. \A g \in HomeNames, c \in Chans : InHome(g, c, x) => g = h /\ c = d
    BY <1>8, <1>16, HomeUnique
  <2>2. Goes(x)
    BY <1>6, <1>17, <2>1 DEF Goes
  <2>3. \A o \in Ops : o # x => Stays(o)
    BY <1>6, <1>17 DEF Stays
  <2>4. QED
    BY <2>2, <2>3 DEF Rehomed
<1>19. Sorted'
  BY <1>4 DEF Sorted
<1>20. QueuesOK'
  BY <1>4, <1>10, <1>11, <1>12, <1>19, QueuesFact DEF QueuesOK, Distinct
<1>21. dropped \subseteq dropped' /\ dropped' \subseteq Ops /\ UNCHANGED op
  BY <1>3, <1>4 DEF TypeOK
<1> DEFINE D == {x}  C == {}
<1>22. /\ Settle(D, C) /\ Head(hand) \in D
       /\ \A o \in D : Alive(o)
       /\ \A o \in armed \cap (D \cup C) :
             kind[o] \in {"req", "ind"} => o \in dropped' \/ "cb" \in Members(hist[o])
  BY <1>2, <1>3, <1>5
<1> HIDE DEF D, C
<1>23. QED
  BY <1>1, <1>14, <1>15, <1>18, <1>20, <1>21, <1>22, DestroySteps

\* bt_att_chan_free destroys what is in the queue of the channel; when it was the last
\* channel, disconnect_cb takes the requests.
LEMMA ChannelFreedKeeps == ASSUME IndInv, ChannelFreed PROVE IndInv'
<1> USE DEF IndInv
<1> DEFINE D == Members(chanQ[chan])  M == IF chans = {} THEN Members(reqQ) ELSE {}
<1>1. at = "disc" /\ hand = <<>> /\ ~called /\ ~called' /\ chan \in Chans /\ Taken = <<>>
  BY DEF ChannelFreed, Handler, TypeOK, Taken
<1>2. /\ Settle(D, {}) /\ chanQ' = [chanQ EXCEPT ![chan] = <<>>]
      /\ indQ' = indQ /\ writeQ' = writeQ /\ pendReq' = pendReq /\ pendInd' = pendInd
      /\ UNCHANGED <<op, dropped, io, writer, chan, called>>
      /\ \/ chans # {} /\ at' = "idle" /\ hand' = hand /\ reqQ' = reqQ
         \/ chans = {} /\ at' = "req" /\ hand' = reqQ /\ reqQ' = <<>>
  BY DEF ChannelFreed, pending
<1>3. FirstChan \in Chans /\ None \notin Ops /\ kind' = kind /\ dropped' = dropped
  BY <1>2, AttBearerAssumption DEF None, Ops, op
<1>4. D \subseteq Ops /\ \A o \in D : Alive(o) /\ kind[o] \in Mute
  <2>1. D \subseteq Ops
    BY <1>1, MembersType DEF TypeOK
  <2>2. QED
    BY <1>1, <2>1, QueueAlive DEF Sorted
<1>5. \A o \in armed \cap (D \cup {}) :
         kind[o] \in {"req", "ind"} => o \in dropped' \/ "cb" \in Members(hist[o])
  BY <1>4 DEF Mute
<1>6. \A o \in Ops : Alive(o)' <=> Alive(o) /\ o \notin D
  BY <1>2, <1>3, <1>4, <1>5, Settles
<1>7. /\ reqQ' \in Seq(Ops) /\ hand' \in Seq(Ops) /\ Distinct(reqQ') /\ Distinct(Taken')
      /\ \A o \in Ops : o \in Members(reqQ') <=> o \in Members(reqQ) /\ o \notin M
      /\ \A o \in Ops : o \in Members(Taken') <=> o \in M
      /\ Members(reqQ') \subseteq Members(reqQ)
  <2>1. reqQ \in Seq(Ops) /\ Distinct(reqQ)
    BY DEF TypeOK, Homed
  <2>2. CASE chans # {}
    <3>1. reqQ' = reqQ /\ hand' = <<>> /\ Taken' = <<>> /\ M = {}
      BY <1>1, <1>2, <2>2 DEF Taken
    <3>2. QED
      BY <2>1, <3>1, MembersEmpty
  <2>3. CASE chans = {}
    <3>1. reqQ' = <<>> /\ hand' = reqQ /\ Taken' = reqQ /\ M = Members(reqQ)
      BY <1>2, <2>3 DEF Taken
    <3>2. QED
      BY <2>1, <3>1, MembersEmpty
  <2>4. QED
    BY <2>2, <2>3
<1>8. \A o \in Ops : o \in M => InHome("req", FirstChan, o)
  BY DEF InHome
<1>9. \A o \in Ops : o \in D <=> InHome("chan", chan, o)
  BY DEF InHome
<1>10. chanQ'[chan] = <<>> /\ \A c \in Chans : c # chan => chanQ'[c] = chanQ[c]
  BY <1>1, <1>2 DEF TypeOK
<1>11. \A c \in Chans, o \in Ops : o \in Members(chanQ'[c]) <=> o \in Members(chanQ[c]) /\ c # chan
  BY <1>10, MembersEmpty
<1> HIDE DEF D, M
<1>12. "req" \in HomeNames /\ "chan" \in HomeNames /\ "hand" \in HomeNames
  BY DEF HomeNames
<1>13. Members(Taken) = {}
  BY <1>1, MembersEmpty
<1>14. ASSUME NEW o \in Ops PROVE Stays(o) \/ Goes(o) \/ MovesTo(o, "hand", FirstChan)
  <2>1. CASE o \in D
    <3>1. \A g \in HomeNames, c \in Chans : InHome(g, c, o) => g = "chan" /\ c = chan
      BY <1>1, <1>9, <1>12, <2>1, HomeUnique
    <3>2. o \notin M
      BY <1>3, <1>8, <1>12, <3>1
    <3>3. \A g \in HomeNames, c \in Chans : ~InHome(g, c, o)'
      <4>1. ASSUME NEW g \in HomeNames, NEW c \in Chans PROVE ~InHome(g, c, o)'
        <5>1. InHome(g, c, o) => g = "chan" /\ c = chan
          BY <3>1
        <5>2. CASE g = "req"
          BY <1>7, <5>1, <5>2 DEF InHome
        <5>3. CASE g = "hand"
          BY <1>7, <3>2, <5>3 DEF InHome
        <5>4. CASE g = "chan"
          BY <1>11, <5>1, <5>4 DEF InHome
        <5>5. CASE g \in {"ind", "write", "pendReq", "pendInd"}
          BY <1>2, <5>1, <5>5 DEF InHome
        <5>6. QED
          BY <5>2, <5>3, <5>4, <5>5 DEF HomeNames
      <4>2. QED
        BY <4>1
    <3>4. QED
      BY <1>6, <2>1, <3>3 DEF Goes
  <2>2. CASE o \in M
    <3>1. \A g \in HomeNames, c \in Chans : InHome(g, c, o) => g = "req" /\ c = FirstChan
      BY <1>3, <1>8, <1>12, <2>2, HomeUnique
    <3>2. o \notin D /\ Alive(o)
      BY <1>1, <1>3, <1>8, <1>9, <1>12, <2>2, <3>1, HomeAlive
    <3>3. \A g \in HomeNames, c \in Chans : InHome(g, c, o)' <=> g = "hand" /\ c = FirstChan
      <4>1. ASSUME NEW g \in HomeNames, NEW c \in Chans
            PROVE  InHome(g, c, o)' <=> g = "hand" /\ c = FirstChan
        <5>1. InHome(g, c, o) => g = "req" /\ c = FirstChan
          BY <3>1
        <5>2. CASE g = "req"
          BY <1>7, <2>2, <5>2 DEF InHome
        <5>3. CASE g = "hand"
          BY <1>7, <2>2, <5>3 DEF InHome
        <5>4. CASE g = "chan"
          BY <1>11, <5>1, <5>4 DEF InHome
        <5>5. CASE g \in {"ind", "write", "pendReq", "pendInd"}
          BY <1>2, <5>1, <5>5 DEF InHome
        <5>6. QED
          BY <5>2, <5>3, <5>4, <5>5 DEF HomeNames
      <4>2. QED
        BY <4>1
    <3>4. QED
      BY <1>3, <1>6, <1>12, <3>2, <3>3 DEF MovesTo
  <2>3. CASE o \notin D /\ o \notin M
    <3>1. ASSUME NEW g \in HomeNames, NEW c \in Chans PROVE InHome(g, c, o)' <=> InHome(g, c, o)
      <4>1. CASE g = "req"
        BY <1>7, <2>3, <4>1 DEF InHome
      <4>2. CASE g = "hand"
        BY <1>7, <1>13, <2>3, <4>2 DEF InHome
      <4>3. CASE g = "chan"
        BY <1>9, <1>11, <2>3, <4>3 DEF InHome
      <4>4. CASE g \in {"ind", "write", "pendReq", "pendInd"}
        BY <1>2, <4>4 DEF InHome
      <4>5. QED
        BY <4>1, <4>2, <4>3, <4>4 DEF HomeNames
    <3>2. QED
      BY <1>6, <2>3, <3>1 DEF Stays
  <2>4. QED
    BY <2>1, <2>2, <2>3
<1>15. Rehomed
  BY <1>14 DEF Rehomed
<1>16. QueuesOK'
  <2>1. chanQ' \in [Chans -> Seq(Ops)]
    BY <1>2 DEF TypeOK
  <2>2. \A c \in Chans : Distinct(chanQ'[c])
    BY <1>10, MembersEmpty DEF Homed
  <2>3. \A c \in Chans : Members(chanQ'[c]) \subseteq Members(chanQ[c])
    BY <1>10, MembersEmpty
  <2>4. Sorted'
    BY <1>2, <1>3, <1>7, <2>3 DEF Sorted
  <2>5. QED
    BY <1>2, <1>3, <1>7, <2>1, <2>2, <2>4, QueuesFact DEF QueuesOK, Distinct
<1>17. ChannelsOK'
  BY <1>2, <1>7 DEF TypeOK, ChannelsOK, io
<1>18. Handler'
  BY <1>1, <1>2 DEF Handler, io
<1>19. dropped \subseteq dropped' /\ dropped' \subseteq Ops
  BY <1>3 DEF TypeOK
<1>20. QED
  BY <1>1, <1>2, <1>4, <1>5, <1>15, <1>16, <1>17, <1>18, <1>19, DestroySteps

\* disconnect_cb takes the next queue when it is through with one.
LEMMA NextQueueKeeps == ASSUME IndInv, NextQueue PROVE IndInv'
<1> USE DEF IndInv
<1>1. InDisc /\ hand = <<>> /\ ~called /\ ~called' /\ Taken = <<>>
  BY DEF NextQueue, Handler, Taken
<1>2. /\ reqQ' = reqQ /\ chanQ' = chanQ /\ pendReq' = pendReq /\ pendInd' = pendInd
      /\ UNCHANGED <<op, fate, io, writer, chan, called>> /\ kind' = kind
      /\ FirstChan \in Chans /\ Members(Taken) = {}
      /\ indQ \in Seq(Ops) /\ writeQ \in Seq(Ops) /\ Distinct(indQ) /\ Distinct(writeQ)
  BY <1>1, AttBearerAssumption, MembersEmpty DEF NextQueue, pending, op, TypeOK, Homed
<1>3. "ind" \in HomeNames /\ "write" \in HomeNames /\ "hand" \in HomeNames
  BY DEF HomeNames
<1>4. CASE at = "req" /\ at' = "ind" /\ hand' = indQ /\ indQ' = <<>> /\ writeQ' = writeQ
  <2> DEFINE M == Members(indQ)
  <2>1. Taken' = indQ /\ Members(Taken') = M /\ Members(indQ') = {} /\ Distinct(indQ')
    BY <1>4, MembersEmpty DEF Taken
  <2>2. \A o \in Ops : o \in M <=> InHome("ind", FirstChan, o)
    BY DEF InHome
  <2> HIDE DEF M
  <2>3. \A o \in Ops, g \in HomeNames, c \in Chans :
           o \in M /\ InHome(g, c, o) => g = "ind" /\ c = FirstChan
    <3>1. ASSUME NEW o \in Ops, NEW g \in HomeNames, NEW c \in Chans, o \in M, InHome(g, c, o)
          PROVE  g = "ind" /\ c = FirstChan
      <4>1. InHome("ind", FirstChan, o)
        BY <2>2, <3>1
      <4>2. QED
        BY <1>2, <1>3, <3>1, <4>1, HomeUnique
    <3>2. QED
      BY <3>1
  <2>4. ASSUME NEW g \in HomeNames, NEW c \in Chans, NEW o \in Ops, o \in M
        PROVE  InHome(g, c, o)' <=> g = "hand" /\ c = FirstChan
    <3>1. InHome(g, c, o) => g = "ind" /\ c = FirstChan
      BY <2>3, <2>4
    <3>2. QED
      BY <1>2, <1>4, <2>1, <2>4, <3>1 DEF InHome, HomeNames
  <2>5. ASSUME NEW g \in HomeNames, NEW c \in Chans, NEW o \in Ops, o \notin M
        PROVE  InHome(g, c, o)' <=> InHome(g, c, o)
    <3>1. o \notin Members(indQ)
      BY <2>5 DEF M
    <3>2. QED
      BY <1>2, <1>4, <2>1, <2>5, <3>1 DEF InHome
  <2>6. \A o \in Ops : o \in M => Alive(o)
    BY <1>2, <1>3, <2>2, HomeAlive
  <2>7. UNCHANGED <<op, fate>>
    BY <1>2
  <2>8. Rehomed
    <3>1. FirstChan \in Chans
      BY <1>2
    <3>2. \A g \in HomeNames, c \in Chans, o \in Ops :
             o \in M => (InHome(g, c, o)' <=> g = "hand" /\ c = FirstChan)
      BY <2>4
    <3>3. \A g \in HomeNames, c \in Chans, o \in Ops :
             o \notin M => (InHome(g, c, o)' <=> InHome(g, c, o))
      BY <2>5
    <3>4. QED
      BY <1>3, <2>6, <2>7, <3>1, <3>2, <3>3, ManyMove
  <2>9. Sorted'
    BY <1>2, <1>4, <2>1 DEF Sorted
  <2>10. QueuesOK'
    BY <1>2, <1>4, <2>1, <2>9, QueuesFact DEF QueuesOK, Distinct
  <2>11. ChannelsOK' /\ Handler'
    BY <1>1, <1>2, <1>4 DEF TypeOK, ChannelsOK, Handler, io
  <2>12. QED
    BY <1>1, <2>7, <2>8, <2>10, <2>11, MoveSteps
<1>5. CASE at = "ind" /\ at' = "write" /\ hand' = writeQ /\ writeQ' = <<>> /\ indQ' = indQ
  <2> DEFINE M == Members(writeQ)
  <2>1. Taken' = writeQ /\ Members(Taken') = M /\ Members(writeQ') = {} /\ Distinct(writeQ')
    BY <1>5, MembersEmpty DEF Taken
  <2>2. \A o \in Ops : o \in M <=> InHome("write", FirstChan, o)
    BY DEF InHome
  <2> HIDE DEF M
  <2>3. \A o \in Ops, g \in HomeNames, c \in Chans :
           o \in M /\ InHome(g, c, o) => g = "write" /\ c = FirstChan
    <3>1. ASSUME NEW o \in Ops, NEW g \in HomeNames, NEW c \in Chans, o \in M, InHome(g, c, o)
          PROVE  g = "write" /\ c = FirstChan
      <4>1. InHome("write", FirstChan, o)
        BY <2>2, <3>1
      <4>2. QED
        BY <1>2, <1>3, <3>1, <4>1, HomeUnique
    <3>2. QED
      BY <3>1
  <2>4. ASSUME NEW g \in HomeNames, NEW c \in Chans, NEW o \in Ops, o \in M
        PROVE  InHome(g, c, o)' <=> g = "hand" /\ c = FirstChan
    <3>1. InHome(g, c, o) => g = "write" /\ c = FirstChan
      BY <2>3, <2>4
    <3>2. QED
      BY <1>2, <1>5, <2>1, <2>4, <3>1 DEF InHome, HomeNames
  <2>5. ASSUME NEW g \in HomeNames, NEW c \in Chans, NEW o \in Ops, o \notin M
        PROVE  InHome(g, c, o)' <=> InHome(g, c, o)
    <3>1. o \notin Members(writeQ)
      BY <2>5 DEF M
    <3>2. QED
      BY <1>2, <1>5, <2>1, <2>5, <3>1 DEF InHome
  <2>6. \A o \in Ops : o \in M => Alive(o)
    BY <1>2, <1>3, <2>2, HomeAlive
  <2>7. UNCHANGED <<op, fate>>
    BY <1>2
  <2>8. Rehomed
    <3>1. FirstChan \in Chans
      BY <1>2
    <3>2. \A g \in HomeNames, c \in Chans, o \in Ops :
             o \in M => (InHome(g, c, o)' <=> g = "hand" /\ c = FirstChan)
      BY <2>4
    <3>3. \A g \in HomeNames, c \in Chans, o \in Ops :
             o \notin M => (InHome(g, c, o)' <=> InHome(g, c, o))
      BY <2>5
    <3>4. QED
      BY <1>3, <2>6, <2>7, <3>1, <3>2, <3>3, ManyMove
  <2>9. Sorted'
    BY <1>2, <1>5, <2>1 DEF Sorted
  <2>10. QueuesOK'
    BY <1>2, <1>5, <2>1, <2>9, QueuesFact DEF QueuesOK, Distinct
  <2>11. ChannelsOK' /\ Handler'
    BY <1>1, <1>2, <1>5 DEF TypeOK, ChannelsOK, Handler, io
  <2>12. QED
    BY <1>1, <2>7, <2>8, <2>10, <2>11, MoveSteps
<1>6. CASE at = "write" /\ at' = "idle" /\ UNCHANGED <<hand, indQ, writeQ>>
  <2>1. Taken' = Taken
    BY <1>1, <1>6 DEF Taken
  <2>2. ChannelsOK' /\ Handler'
    BY <1>1, <1>2, <1>6 DEF TypeOK, ChannelsOK, Handler, io
  <2>3. UNCHANGED <<op, fate, queues, pending>>
    BY <1>2, <1>6 DEF queues, pending
  <2>4. QED
    BY <1>1, <2>1, <2>2, <2>3, NothingMoves
<1>7. QED
  BY <1>4, <1>5, <1>6 DEF NextQueue
-----------------------------------------------------------------------------
(* The theorems. *)

\* Nothing exists when bt_att_new returns.
LEMMA InitKeeps == Init => IndInv
<1> SUFFICES ASSUME Init PROVE IndInv
  OBVIOUS
<1>1. /\ used = 0 /\ armed = {} /\ dropped = {} /\ hist = [o \in Ops |-> <<>>]
      /\ kind = [o \in Ops |-> "req"] /\ id = [o \in Ops |-> 0]
      /\ reqQ = <<>> /\ indQ = <<>> /\ writeQ = <<>> /\ hand = <<>>
      /\ chanQ = [c \in Chans |-> <<>>]
      /\ pendReq = [c \in Chans |-> None] /\ pendInd = [c \in Chans |-> None]
      /\ chans = {FirstChan} /\ chan = FirstChan
      /\ gone = {} /\ shut = {} /\ writer = {}
      /\ inReq = [c \in Chans |-> FALSE] /\ sec = [c \in Chans |-> 1]
      /\ at = "idle" /\ called = FALSE /\ Taken = <<>>
  BY DEF Init, Taken
<1>2. FirstChan \in Chans /\ MaxOps \in Nat /\ 1 \in 1..TopLevel
  BY AttBearerAssumption
<1>3. TypeOK
  <2>1. used \in 0..MaxOps /\ kind \in [Ops -> Kinds] /\ id \in [Ops -> 0..MaxOps]
    BY <1>1, <1>2 DEF Kinds, ToUser, Mute
  <2>2. hist \in [Ops -> Seq({"cb", "destroy", "free"})] /\ chanQ \in [Chans -> Seq(Ops)]
    BY <1>1
  <2>3. /\ pendReq \in [Chans -> {None} \cup {o \in Ops : kind[o] = "req"}]
        /\ pendInd \in [Chans -> {None} \cup {o \in Ops : kind[o] = "ind"}]
    BY <1>1
  <2>4. inReq \in [Chans -> BOOLEAN] /\ sec \in [Chans -> 1..TopLevel] /\ called \in BOOLEAN
    BY <1>1, <1>2
  <2>5. QED
    BY <1>1, <1>2, <2>1, <2>2, <2>3, <2>4 DEF TypeOK
<1>4. Homed
  <2>1. \A o \in Ops, h \in HomeNames, c \in Chans : ~InHome(h, c, o)
    BY <1>1, MembersEmpty DEF InHome, None, Ops
  <2>2. \A o \in Ops : Homes(o) = {}
    BY <2>1 DEF Homes
  <2>3. \A o \in Ops : ~Alive(o)
    BY <1>1, <1>2 DEF Alive, Ops
  <2>4. \A o \in Ops : HomeOf(o)
    BY <2>2, <2>3 DEF HomeOf
  <2>5. QED
    BY <1>1, <2>4, MembersEmpty DEF Homed
<1>5. Sorted /\ Handler
  BY <1>1, MembersEmpty DEF Sorted, Handler
<1>6. Life
  BY <1>1 DEF Life, LifeOf, Ops
<1>7. CallInv /\ Told
  BY <1>1 DEF CallInv, Told
<1>8. QED
  BY <1>3, <1>4, <1>5, <1>6, <1>7 DEF IndInv

\* Every step keeps the inductive invariant: one case for each handler and each call of
\* the user.
LEMMA IndNext == IndInv /\ [Next]_vars => IndInv'
<1> SUFFICES ASSUME IndInv, [Next]_vars PROVE IndInv'
  OBVIOUS
<1>1. CASE User
  <2>1. ASSUME NEW k \in ToUser, Send(k) PROVE IndInv'
    BY <2>1, SendKeeps
  <2>2. ASSUME NEW c \in Chans, NEW k \in Mute, ChanSend(c, k) PROVE IndInv'
    BY <2>2, ChanSendKeeps
  <2>3. ASSUME NEW c \in Chans, Attach(c) PROVE IndInv'
    BY <2>3, AttachKeeps
  <2>4. ASSUME NEW c \in Chans, NEW first \in BOOLEAN, Resend(c, first) PROVE IndInv'
    BY <2>4, ResendKeeps
  <2>5. ASSUME NEW i \in UserIds, CancelPending(i) PROVE IndInv'
    BY <2>5, CancelPendingKeeps
  <2>6. ASSUME NEW i \in UserIds, CancelInDisc(i) PROVE IndInv'
    BY <2>6, CancelInDiscKeeps
  <2>7. ASSUME NEW i \in UserIds, CancelQueued(i) PROVE IndInv'
    BY <2>7, CancelQueuedKeeps
  <2>8. CASE CancelAll
    BY <2>8, CancelAllKeeps
  <2>9. CASE Unref
    BY <2>9, UnrefKeeps
  <2>10. QED
    BY <1>1, <2>1, <2>2, <2>3, <2>4, <2>5, <2>6, <2>7, <2>8, <2>9 DEF User
<1>2. CASE Finish
  BY <1>2, CallBackKeeps, ReturnKeeps, ChannelFreedKeeps, NextQueueKeeps DEF Finish
<1>3. ASSUME NEW c \in Chans, Writer(c) \/ Reply(c) PROVE IndInv'
  BY <1>3, WriteOutKeeps, WriterStopsKeeps, ResponseKeeps, RetryKeeps, ConfirmationKeeps
     DEF Writer, Reply
<1>4. ASSUME NEW c \in Chans, TimeOut(c) \/ Disconnect(c) PROVE IndInv'
  BY <1>4, TimeoutStep, DisconnectKeeps DEF TimeOut
<1>5. ASSUME NEW c \in Chans, Request(c) \/ SecondRequest(c) PROVE IndInv'
  BY <1>5, RequestKeeps, SecondRequestKeeps
<1>6. ASSUME NEW c \in Chans, NEW request \in BOOLEAN, NotSupported(c, request) PROVE IndInv'
  BY <1>6, NotSupportedKeeps
<1>7. CASE UNCHANGED vars
  <2>1. UNCHANGED <<op, fate, queues, pending, call>> /\ UNCHANGED <<io, writer>>
    BY <1>7 DEF vars
  <2>2. ChannelsOK' /\ chans' = chans
    BY <2>1 DEF IndInv, TypeOK, ChannelsOK, io, call
  <2>3. QED
    BY <2>1, <2>2, ChannelSteps
<1>8. QED
  BY <1>1, <1>2, <1>3, <1>4, <1>5, <1>6, <1>7 DEF Next

\* In every reachable state of the bearer each operation has the one home, the handlers
\* and the history that its stage of life allows.
THEOREM Inductive == Spec => []IndInv
  BY InitKeeps, IndNext, PTL DEF Spec

\* The queues hold operations, what is pending is of the right kind and only attached
\* channels are written to or shut down, in every reachable state.
THEOREM TypeCorrect == Spec => []TypeOK
<1>1. IndInv => TypeOK
  BY DEF IndInv
<1>2. QED
  BY <1>1, Inductive, PTL

\* Whatever the user does in a callback, destroy_att_send_op and cancel_att_send_op call
\* the handlers of an operation as promised: the callback at most once, then the destroy
\* function once, then the free.
THEOREM OneFateHolds == Spec => []OneFate
<1>1. IndInv => OneFate
  <2> SUFFICES ASSUME IndInv, NEW o \in 1..used
               PROVE  hist[o] \in IF kind[o] \in Mute THEN {<<>>, <<"free">>}
                                  ELSE {<<>>, <<"cb">>, <<"destroy">>, <<"cb", "destroy">>,
                                        <<"destroy", "free">>, <<"cb", "destroy", "free">>}
    BY DEF OneFate
  <2>1. o \in Ops /\ ~(used < o)
    BY AttBearerAssumption DEF IndInv, TypeOK, Ops
  <2>2. LifeOf(o)
    BY <2>1 DEF IndInv, Life
  <2>3. QED
    BY <2>1, <2>2 DEF LifeOf
<1>2. QED
  BY <1>1, Inductive, PTL

\* A request or an indication that is freed has been called back, unless the user has
\* cancelled it: answers, timeouts and disconnections all tell.
THEOREM ToldHolds == Spec => []ToldUnlessDropped
<1>1. IndInv => ToldUnlessDropped
  <2> SUFFICES ASSUME IndInv, NEW o \in 1..used, kind[o] \in {"req", "ind"}, Freed(o),
                      o \notin dropped
               PROVE  "cb" \in Members(hist[o])
    BY DEF ToldUnlessDropped
  <2>1. o \in Ops
    BY AttBearerAssumption DEF IndInv, TypeOK, Ops
  <2>2. o \notin armed
    BY <2>1, LifeHistories DEF IndInv
  <2>3. QED
    BY <2>2 DEF IndInv, Told
<1>2. QED
  BY <1>1, Inductive, PTL

\* The positions of an operation in a queue that holds none twice.
LEMMA PositionsOf ==
    ASSUME NEW q, NEW o
    PROVE  /\ o \notin Members(q) => Positions(q, o) = {}
           /\ Distinct(q) /\ o \in Members(q) => \E i : Positions(q, o) = {i}
<1>1. o \notin Members(q) => Positions(q, o) = {}
  BY DEF Members, Positions
<1>2. ASSUME Distinct(q), o \in Members(q) PROVE \E i : Positions(q, o) = {i}
  <2>1. PICK i \in DOMAIN q : q[i] = o
    BY <1>2 DEF Members
  <2>2. \A j \in DOMAIN q : q[j] = o => j = i
    BY <1>2, <2>1 DEF Distinct
  <2>3. Positions(q, o) = {i}
    BY <2>1, <2>2 DEF Positions
  <2>4. QED
    BY <2>3
<1>3. QED
  BY <1>1, <1>2

\* A place of an operation lies in one of its homes.
LEMMA PlacesAre ==
    ASSUME NEW o, NEW p
    PROVE  p \in Places(o) <=>
              \/ \E i \in Positions(reqQ, o) : p = <<"req", i>>
              \/ \E i \in Positions(indQ, o) : p = <<"ind", i>>
              \/ \E i \in Positions(writeQ, o) : p = <<"write", i>>
              \/ \E i \in Positions(Taken, o) : p = <<"hand", i>>
              \/ \E c \in Positions(pendReq, o) : p = <<"pendReq", c>>
              \/ \E c \in Positions(pendInd, o) : p = <<"pendInd", c>>
              \/ \E c \in Chans : \E i \in Positions(chanQ[c], o) : p = <<"chan", c, i>>
  BY DEF Places

\* One home is one place.
LEMMA OneHomeOnePlace ==
    ASSUME IndInv, NEW o \in Ops, Alive(o) PROVE \E p : Places(o) = {p}
<1> USE DEF IndInv
<1>1. PICK h \in HomeNames, c \in Chans : InHome(h, c, o)
  BY AliveHome
<1>2. \A g \in HomeNames, d \in Chans : InHome(g, d, o) => g = h /\ d = c
  BY <1>1, HomeUnique
<1>3. FirstChan \in Chans /\ DOMAIN pendReq = Chans /\ DOMAIN pendInd = Chans
  BY AttBearerAssumption DEF TypeOK
<1>4. /\ h # "req" => Positions(reqQ, o) = {}
      /\ h # "ind" => Positions(indQ, o) = {}
      /\ h # "write" => Positions(writeQ, o) = {}
      /\ h # "hand" => Positions(Taken, o) = {}
  <2>1. /\ InHome("req", FirstChan, o) <=> o \in Members(reqQ)
        /\ InHome("ind", FirstChan, o) <=> o \in Members(indQ)
        /\ InHome("write", FirstChan, o) <=> o \in Members(writeQ)
        /\ InHome("hand", FirstChan, o) <=> o \in Members(Taken)
    BY DEF InHome
  <2>2. {"req", "ind", "write", "hand"} \subseteq HomeNames
    BY DEF HomeNames
  <2>3. QED
    BY <1>2, <1>3, <2>1, <2>2, PositionsOf
<1>5. /\ \A d \in Chans : d \in Positions(pendReq, o) => h = "pendReq" /\ d = c
      /\ \A d \in Chans : d \in Positions(pendInd, o) => h = "pendInd" /\ d = c
      /\ \A d \in Chans : Positions(chanQ[d], o) # {} => h = "chan" /\ d = c
  <2>1. {"pendReq", "pendInd", "chan"} \subseteq HomeNames
    BY DEF HomeNames
  <2>2. ASSUME NEW d \in Chans
        PROVE  /\ d \in Positions(pendReq, o) => InHome("pendReq", d, o)
               /\ d \in Positions(pendInd, o) => InHome("pendInd", d, o)
               /\ Positions(chanQ[d], o) # {} => InHome("chan", d, o)
    BY PositionsOf DEF InHome, Positions
  <2>3. QED
    BY <1>2, <2>1, <2>2
<1>6. Positions(pendReq, o) \subseteq Chans /\ Positions(pendInd, o) \subseteq Chans
  BY <1>3 DEF Positions
<1>7. /\ Distinct(reqQ) /\ Distinct(indQ) /\ Distinct(writeQ) /\ Distinct(Taken)
      /\ Distinct(chanQ[c])
  BY DEF Homed
<1>8. CASE h = "req"
  <2>1. PICK i : Positions(reqQ, o) = {i}
    BY <1>1, <1>7, <1>8, PositionsOf DEF InHome
  <2>2. \A p : p \in Places(o) <=> p = <<"req", i>>
    BY <1>4, <1>5, <1>6, <1>8, <2>1, PlacesAre
  <2>3. Places(o) = {<<"req", i>>}
    BY <2>2
  <2>4. QED
    BY <2>3
<1>9. CASE h = "ind"
  <2>1. PICK i : Positions(indQ, o) = {i}
    BY <1>1, <1>7, <1>9, PositionsOf DEF InHome
  <2>2. \A p : p \in Places(o) <=> p = <<"ind", i>>
    BY <1>4, <1>5, <1>6, <1>9, <2>1, PlacesAre
  <2>3. Places(o) = {<<"ind", i>>}
    BY <2>2
  <2>4. QED
    BY <2>3
<1>10. CASE h = "write"
  <2>1. PICK i : Positions(writeQ, o) = {i}
    BY <1>1, <1>7, <1>10, PositionsOf DEF InHome
  <2>2. \A p : p \in Places(o) <=> p = <<"write", i>>
    BY <1>4, <1>5, <1>6, <1>10, <2>1, PlacesAre
  <2>3. Places(o) = {<<"write", i>>}
    BY <2>2
  <2>4. QED
    BY <2>3
<1>11. CASE h = "hand"
  <2>1. PICK i : Positions(Taken, o) = {i}
    BY <1>1, <1>7, <1>11, PositionsOf DEF InHome
  <2>2. \A p : p \in Places(o) <=> p = <<"hand", i>>
    BY <1>4, <1>5, <1>6, <1>11, <2>1, PlacesAre
  <2>3. Places(o) = {<<"hand", i>>}
    BY <2>2
  <2>4. QED
    BY <2>3
<1>12. CASE h = "pendReq"
  <2>1. c \in Positions(pendReq, o)
    BY <1>1, <1>3, <1>12 DEF InHome, Positions
  <2>2. \A p : p \in Places(o) <=> p = <<"pendReq", c>>
    BY <1>4, <1>5, <1>6, <1>12, <2>1, PlacesAre
  <2>3. Places(o) = {<<"pendReq", c>>}
    BY <2>2
  <2>4. QED
    BY <2>3
<1>13. CASE h = "pendInd"
  <2>1. c \in Positions(pendInd, o)
    BY <1>1, <1>3, <1>13 DEF InHome, Positions
  <2>2. \A p : p \in Places(o) <=> p = <<"pendInd", c>>
    BY <1>4, <1>5, <1>6, <1>13, <2>1, PlacesAre
  <2>3. Places(o) = {<<"pendInd", c>>}
    BY <2>2
  <2>4. QED
    BY <2>3
<1>14. CASE h = "chan"
  <2>1. PICK i : Positions(chanQ[c], o) = {i}
    BY <1>1, <1>7, <1>14, PositionsOf DEF InHome
  <2>2. \A p : p \in Places(o) <=> p = <<"chan", c, i>>
    BY <1>4, <1>5, <1>6, <1>14, <2>1, PlacesAre
  <2>3. Places(o) = {<<"chan", c, i>>}
    BY <2>2
  <2>4. QED
    BY <2>3
<1>15. QED
  BY <1>8, <1>9, <1>10, <1>11, <1>12, <1>13, <1>14 DEF HomeNames

\* No operation is lost and none is left behind: until it is freed it is in one queue, on
\* one channel or with one handler, from then on nowhere.
THEOREM OnePlace == Spec => []InOnePlace
<1>1. IndInv => InOnePlace
  <2> SUFFICES ASSUME IndInv, NEW o \in 1..used
               PROVE  Cardinality(Places(o)) = IF Freed(o) THEN 0 ELSE 1
    BY DEF InOnePlace
  <2>1. o \in Ops /\ o <= used
    BY AttBearerAssumption DEF IndInv, TypeOK, Ops
  <2>2. CASE Freed(o)
    <3>1. \A h \in HomeNames, c \in Chans : ~InHome(h, c, o)
      BY <2>1, <2>2, HomeAlive DEF IndInv, Alive
    <3>2. FirstChan \in Chans /\ DOMAIN pendReq = Chans /\ DOMAIN pendInd = Chans
      BY AttBearerAssumption DEF IndInv, TypeOK
    <3>3. /\ o \notin Members(reqQ) /\ o \notin Members(indQ) /\ o \notin Members(writeQ)
          /\ o \notin Members(Taken)
          /\ \A c \in Chans : o \notin Members(chanQ[c]) /\ o # pendReq[c] /\ o # pendInd[c]
      BY <3>1, <3>2 DEF InHome, HomeNames
    <3>4. /\ Positions(reqQ, o) = {} /\ Positions(indQ, o) = {} /\ Positions(writeQ, o) = {}
          /\ Positions(Taken, o) = {} /\ \A c \in Chans : Positions(chanQ[c], o) = {}
      BY <3>3, PositionsOf
    <3>5. Positions(pendReq, o) = {} /\ Positions(pendInd, o) = {}
      BY <3>2, <3>3 DEF Positions
    <3>6. \A p : p \notin Places(o)
      BY <3>4, <3>5, PlacesAre
    <3>7. Places(o) = {}
      BY <3>6
    <3>8. QED
      BY <2>2, <3>7, FS_EmptySet
  <2>3. CASE ~Freed(o)
    <3>1. PICK p : Places(o) = {p}
      BY <2>1, <2>3, OneHomeOnePlace DEF Alive
    <3>2. QED
      BY <2>3, <3>1, FS_Singleton
  <2>4. QED
    BY <2>2, <2>3
<1>2. QED
  BY <1>1, Inductive, PTL
=============================================================================
