---------------------------- MODULE GattOrder_proofs ----------------------------
(***************************************************************************)
(* Proofs about the order of gatttool's requests: every read is answered   *)
(* once and in its turn, every discovery has one request under way.        *)
(***************************************************************************)
EXTENDS GattTool_proofs

\* ReadsInOrder of requests u under way, answers a and n slots.
InOrder(u, a, n) ==
    /\ Len(a) <= n
    /\ \A i \in 1..Len(a) : a[i] = i
    /\ \A i \in (Len(a) + 1)..n :
          \E j \in 1..Len(u) : u[j].op = "R" /\ u[j].slot = i
    /\ \A j \in 1..Len(u) : u[j].op = "R" => u[j].slot \in (Len(a) + 1)..n
    /\ \A j, k \in 1..Len(u) :
          (u[j].op = "R" /\ u[k].op = "R" /\ j < k) => u[j].slot < u[k].slot

\* OneRequestPerDiscovery of requests u and the state d of the discoveries.
OneEach(u, d) ==
    \A x \in Discoveries :
        /\ d[x] = "active" <=> \E j \in 1..Len(u) : u[j].op = x
        /\ \A j, k \in 1..Len(u) : (u[j].op = x /\ u[k].op = x) => j = k

\* Before the channel is up nothing has been asked, after its end nothing is
\* outstanding, and there are no slots before the characteristics are known.
Stages ==
    /\ link = "connecting" =>
          queue = <<>> /\ pending = NoReq /\ disc = [x \in Discoveries |-> "idle"]
    /\ link = "down" => pending = NoReq

Ordered ==
    /\ disc["C"] # "ok" => slots = <<>>
    /\ InOrder(UnderWay, answered, Len(slots))
    /\ OneEach(UnderWay, disc)

\* The second inductive invariant, relative to the first.  Neither conjunct of
\* Ordered is inductive without Stages: a request that leaves the queue must be
\* the first under way, and the reads must join where there were none.
OrderInv == Stages /\ Ordered

Requests == [op : Discoveries \cup {"R"}, at : 0..Top, slot : Nat, part : Nat]

-----------------------------------------------------------------------------
(* Sequences of requests. *)

\* A read at the front is the next one to be answered, and answering it keeps
\* the order.
LEMMA AnswerFirst ==
    ASSUME NEW u \in Seq(Requests), NEW a \in Seq(Nat), NEW n \in Nat,
           InOrder(u, a, n), u # <<>>, u[1].op = "R"
    PROVE  /\ u[1].slot = Len(a) + 1
           /\ InOrder(Tail(u), Append(a, u[1].slot), n)
<1>1. 1 \in 1..Len(u) /\ \A j \in 1..Len(u) : u[j].slot \in Nat
  <2>1. Len(u) \in Nat /\ Len(u) # 0
    OBVIOUS
  <2>2. \A j \in 1..Len(u) : u[j] \in Requests
    OBVIOUS
  <2>3. QED
    BY <2>1, <2>2 DEF Requests
<1>2. u[1].slot = Len(a) + 1
  <2>1. u[1].slot \in (Len(a) + 1)..n
    BY <1>1 DEF InOrder
  <2>2. PICK j \in 1..Len(u) : u[j].op = "R" /\ u[j].slot = Len(a) + 1
    BY <2>1 DEF InOrder
  <2>3. j # 1 => u[1].slot < u[j].slot
    BY <1>1, <2>2 DEF InOrder
  <2>4. QED
    BY <1>1, <2>1, <2>2, <2>3
<1> DEFINE v == Tail(u)
           b == Append(a, u[1].slot)
<1>3. Len(v) = Len(u) - 1 /\ \A j \in 1..Len(v) : v[j] = u[j + 1] /\ j + 1 \in 1..Len(u)
  OBVIOUS
<1>4. Len(b) = Len(a) + 1 /\ \A i \in 1..Len(b) : b[i] = IF i = Len(b) THEN u[1].slot ELSE a[i]
  BY <1>1
<1> HIDE DEF v, b
<1>5. Len(b) <= n
  BY <1>1, <1>2, <1>4 DEF InOrder
<1>6. \A i \in 1..Len(b) : b[i] = i
  <2> TAKE i \in 1..Len(b)
  <2>1. CASE i = Len(b)
    BY <2>1, <1>2, <1>4
  <2>2. CASE i # Len(b)
    <3>1. i \in 1..Len(a)
      BY <2>2, <1>4
    <3>2. QED
      BY <2>2, <3>1, <1>4 DEF InOrder
  <2>3. QED
    BY <2>1, <2>2
<1>7. ASSUME NEW i \in (Len(b) + 1)..n
      PROVE  \E j \in 1..Len(v) : v[j].op = "R" /\ v[j].slot = i
  <2>1. PICK j \in 1..Len(u) : u[j].op = "R" /\ u[j].slot = i
    BY <1>4 DEF InOrder
  <2>2. j # 1
    BY <1>2, <1>4, <2>1
  <2>3. j - 1 \in 1..Len(v) /\ v[j - 1] = u[j]
    BY <2>2, <1>3
  <2>4. QED
    BY <2>1, <2>3
<1>8. ASSUME NEW j \in 1..Len(v), v[j].op = "R"
      PROVE  v[j].slot \in (Len(b) + 1)..n
  <2>1. u[j + 1].slot \in (Len(a) + 1)..n /\ u[1].slot < u[j + 1].slot
    BY <1>1, <1>3, <1>8 DEF InOrder
  <2>2. QED
    BY <1>2, <1>3, <1>4, <2>1
<1>9. ASSUME NEW j \in 1..Len(v), NEW k \in 1..Len(v),
             v[j].op = "R", v[k].op = "R", j < k
      PROVE  v[j].slot < v[k].slot
  <2>1. /\ j + 1 \in 1..Len(u) /\ k + 1 \in 1..Len(u) /\ j + 1 < k + 1
        /\ v[j] = u[j + 1] /\ v[k] = u[k + 1]
    BY <1>3, <1>9
  <2>2. QED
    BY <2>1, <1>9 DEF InOrder
<1>10. QED
  BY <1>2, <1>5, <1>6, <1>7, <1>8, <1>9 DEF InOrder, v, b

\* A discovery request at the front can leave, and one can join the end.
LEMMA DropDiscovery ==
    ASSUME NEW u \in Seq(Requests), NEW a \in Seq(Nat), NEW n \in Nat,
           InOrder(u, a, n), u # <<>>, u[1].op # "R"
    PROVE  InOrder(Tail(u), a, n)
<1> DEFINE v == Tail(u)
<1>1. Len(v) = Len(u) - 1 /\ \A j \in 1..Len(v) : v[j] = u[j + 1] /\ j + 1 \in 1..Len(u)
  OBVIOUS
<1> HIDE DEF v
<1>2. ASSUME NEW i \in (Len(a) + 1)..n
      PROVE  \E j \in 1..Len(v) : v[j].op = "R" /\ v[j].slot = i
  <2>1. PICK j \in 1..Len(u) : u[j].op = "R" /\ u[j].slot = i
    BY DEF InOrder
  <2>2. j - 1 \in 1..Len(v) /\ v[j - 1] = u[j]
    BY <2>1, <1>1
  <2>3. QED
    BY <2>1, <2>2
<1>3. \A j \in 1..Len(v) : v[j].op = "R" => v[j].slot \in (Len(a) + 1)..n
  BY <1>1 DEF InOrder
<1>4. ASSUME NEW j \in 1..Len(v), NEW k \in 1..Len(v),
             v[j].op = "R", v[k].op = "R", j < k
      PROVE  v[j].slot < v[k].slot
  <2>1. /\ j + 1 \in 1..Len(u) /\ k + 1 \in 1..Len(u) /\ j + 1 < k + 1
        /\ v[j] = u[j + 1] /\ v[k] = u[k + 1]
    BY <1>1, <1>4
  <2>2. QED
    BY <2>1, <1>4 DEF InOrder
<1>5. QED
  BY <1>2, <1>3, <1>4 DEF InOrder, v

\* The next round of a discovery does not disturb the reads.
LEMMA AddDiscovery ==
    ASSUME NEW u \in Seq(Requests), NEW a \in Seq(Nat), NEW n \in Nat,
           InOrder(u, a, n), NEW r \in Requests, r.op # "R"
    PROVE  InOrder(Append(u, r), a, n)
<1> DEFINE v == Append(u, r)
<1>1. /\ Len(v) = Len(u) + 1 /\ v[Len(v)] = r
      /\ \A j \in 1..Len(u) : v[j] = u[j] /\ j \in 1..Len(v)
      /\ \A j \in 1..Len(v) : j \in 1..Len(u) \/ j = Len(v)
  OBVIOUS
<1> HIDE DEF v
<1>2. \A j \in 1..Len(v) : v[j].op = "R" => j \in 1..Len(u) /\ v[j] = u[j]
  BY <1>1
<1>3. ASSUME NEW i \in (Len(a) + 1)..n
      PROVE  \E j \in 1..Len(v) : v[j].op = "R" /\ v[j].slot = i
  BY <1>1 DEF InOrder
<1>4. QED
  BY <1>2, <1>3 DEF InOrder, v

\* The next part of a value takes the place of the part before it.
LEMMA SwapFirst ==
    ASSUME NEW u \in Seq(Requests), NEW a \in Seq(Nat), NEW n \in Nat,
           NEW d, InOrder(u, a, n), OneEach(u, d), u # <<>>,
           NEW r \in Requests, r.op = u[1].op, r.slot = u[1].slot
    PROVE  InOrder(<<r>> \o Tail(u), a, n) /\ OneEach(<<r>> \o Tail(u), d)
<1> DEFINE v == <<r>> \o Tail(u)
<1>1. Len(v) = Len(u) /\ v[1] = r /\ \A j \in 1..Len(u) : j # 1 => v[j] = u[j]
  OBVIOUS
<1> HIDE DEF v
<1>2. \A j \in 1..Len(u) : v[j].op = u[j].op /\ v[j].slot = u[j].slot
  BY <1>1
<1>3. InOrder(v, a, n)
  <2>1. ASSUME NEW i \in (Len(a) + 1)..n
        PROVE  \E j \in 1..Len(v) : v[j].op = "R" /\ v[j].slot = i
    <3>1. PICK j \in 1..Len(u) : u[j].op = "R" /\ u[j].slot = i
      BY DEF InOrder
    <3>2. j \in 1..Len(v) /\ v[j].op = "R" /\ v[j].slot = i
      BY <3>1, <1>1, <1>2
    <3>3. QED
      BY <3>2
  <2>2. ASSUME NEW j \in 1..Len(v), v[j].op = "R"
        PROVE  v[j].slot \in (Len(a) + 1)..n
    BY <2>2, <1>1, <1>2 DEF InOrder
  <2>3. ASSUME NEW j \in 1..Len(v), NEW k \in 1..Len(v),
               v[j].op = "R", v[k].op = "R", j < k
        PROVE  v[j].slot < v[k].slot
    <3>1. /\ j \in 1..Len(u) /\ k \in 1..Len(u)
          /\ u[j].op = "R" /\ u[k].op = "R"
          /\ v[j].slot = u[j].slot /\ v[k].slot = u[k].slot
      BY <2>3, <1>1, <1>2
    <3>2. QED
      BY <2>3, <3>1 DEF InOrder
  <2>4. QED
    BY <2>1, <2>2, <2>3 DEF InOrder
<1>4. OneEach(v, d)
  <2> SUFFICES ASSUME NEW x \in Discoveries
      PROVE /\ d[x] = "active" <=> \E j \in 1..Len(v) : v[j].op = x
            /\ \A j, k \in 1..Len(v) : (v[j].op = x /\ v[k].op = x) => j = k
    BY DEF OneEach
  <2>1. /\ d[x] = "active" <=> \E j \in 1..Len(u) : u[j].op = x
        /\ \A j, k \in 1..Len(u) : (u[j].op = x /\ u[k].op = x) => j = k
    BY DEF OneEach
  <2>2. \A j \in 1..Len(u) : v[j].op = u[j].op
    BY <1>2
  <2>3. QED
    BY <2>1, <2>2, <1>1
<1>5. QED
  BY <1>3, <1>4 DEF v

\* What a concatenation consists of.
LEMMA Concatenated ==
    ASSUME NEW S, NEW u \in Seq(S), NEW w \in Seq(S)
    PROVE  /\ Len(u \o w) = Len(u) + Len(w)
           /\ \A j \in 1..(Len(u) + Len(w)) :
                 (u \o w)[j] = IF j <= Len(u) THEN u[j] ELSE w[j - Len(u)]
  OBVIOUS

\* The reads of m slots join requests that have no read among them.
LEMMA AddReads ==
    ASSUME NEW u \in Seq(Requests), NEW a \in Seq(Nat), InOrder(u, a, 0),
           NEW d, OneEach(u, d), NEW m \in Nat,
           NEW w \in Seq(Requests), Len(w) = m,
           \A i \in 1..m : w[i].op = "R" /\ w[i].slot = i
    PROVE  InOrder(u \o w, a, m) /\ OneEach(u \o w, d)
<1> DEFINE v == u \o w
<1>1. Len(u) \in Nat /\ Len(a) = 0
  BY DEF InOrder
<1>2. /\ Len(v) = Len(u) + m
      /\ \A j \in 1..Len(u) : v[j] = u[j] /\ j \in 1..Len(v)
      /\ \A i \in 1..m : v[Len(u) + i] = w[i] /\ Len(u) + i \in 1..Len(v)
      /\ \A j \in 1..Len(v) : j \in 1..Len(u) \/ (j - Len(u) \in 1..m
                                                    /\ v[j] = w[j - Len(u)])
  <2>1. /\ Len(v) = Len(u) + Len(w)
        /\ \A j \in 1..(Len(u) + Len(w)) :
              v[j] = IF j <= Len(u) THEN u[j] ELSE w[j - Len(u)]
    BY Concatenated
  <2> HIDE DEF v
  <2>2. QED
    BY <1>1, <2>1
<1> HIDE DEF v
<1>3. \A j \in 1..Len(u) : u[j].op # "R"
  BY <1>1 DEF InOrder
<1>4. \A j \in 1..Len(v) :
         IF j \in 1..Len(u) THEN v[j] = u[j] /\ v[j].op # "R"
                            ELSE v[j].op = "R" /\ v[j].slot = j - Len(u)
  BY <1>2, <1>3
<1>5. InOrder(v, a, m)
  <2>1. ASSUME NEW i \in (Len(a) + 1)..m
        PROVE  \E j \in 1..Len(v) : v[j].op = "R" /\ v[j].slot = i
    <3>1. i \in 1..m
      BY <1>1
    <3>2. v[Len(u) + i].op = "R" /\ v[Len(u) + i].slot = i
      BY <3>1, <1>2
    <3>3. QED
      BY <3>1, <3>2, <1>2
  <2>2. ASSUME NEW j \in 1..Len(v), v[j].op = "R"
        PROVE  v[j].slot \in (Len(a) + 1)..m
    BY <2>2, <1>1, <1>2, <1>4
  <2>3. ASSUME NEW j \in 1..Len(v), NEW k \in 1..Len(v),
               v[j].op = "R", v[k].op = "R", j < k
        PROVE  v[j].slot < v[k].slot
    BY <2>3, <1>1, <1>4
  <2>4. QED
    BY <1>1, <2>1, <2>2, <2>3 DEF InOrder
<1>6. OneEach(v, d)
  <2> SUFFICES ASSUME NEW x \in Discoveries
      PROVE /\ d[x] = "active" <=> \E j \in 1..Len(v) : v[j].op = x
            /\ \A j, k \in 1..Len(v) : (v[j].op = x /\ v[k].op = x) => j = k
    BY DEF OneEach
  <2>1. x # "R"
    BY DEF Discoveries
  <2>2. \A j \in 1..Len(v) : v[j].op = x => j \in 1..Len(u) /\ u[j].op = x
    BY <2>1, <1>4
  <2>3. \A j \in 1..Len(u) : u[j].op = x => j \in 1..Len(v) /\ v[j].op = x
    BY <1>2
  <2>4. QED
    BY <2>2, <2>3 DEF OneEach
<1>7. QED
  BY <1>5, <1>6 DEF v

\* A request at the front leaves: a read, or the last round of a discovery.
LEMMA FirstLeaves ==
    ASSUME NEW u \in Seq(Requests), NEW d, NEW e, OneEach(u, d), u # <<>>,
           \A x \in Discoveries : e[x] = "active"
                                    <=> (d[x] = "active" /\ x # u[1].op)
    PROVE  OneEach(Tail(u), e)
<1> DEFINE v == Tail(u)
<1>1. /\ Len(v) = Len(u) - 1 /\ Len(u) \in Nat /\ 1 \in 1..Len(u)
      /\ \A j \in 1..Len(v) : v[j] = u[j + 1] /\ j + 1 \in 1..Len(u)
      /\ \A j \in 1..Len(u) : j # 1 => j - 1 \in 1..Len(v) /\ v[j - 1] = u[j]
  OBVIOUS
<1> HIDE DEF v
<1> SUFFICES ASSUME NEW x \in Discoveries
    PROVE /\ e[x] = "active" <=> \E j \in 1..Len(v) : v[j].op = x
          /\ \A j, k \in 1..Len(v) : (v[j].op = x /\ v[k].op = x) => j = k
  BY DEF OneEach, v
<1>2. /\ d[x] = "active" <=> \E j \in 1..Len(u) : u[j].op = x
      /\ \A j, k \in 1..Len(u) : (u[j].op = x /\ u[k].op = x) => j = k
  BY DEF OneEach
<1>3. ASSUME NEW j \in 1..Len(v), NEW k \in 1..Len(v), v[j].op = x, v[k].op = x
      PROVE  j = k
  <2>1. j + 1 = k + 1
    BY <1>1, <1>2, <1>3
  <2>2. QED
    BY <2>1
<1>4. ASSUME NEW j \in 1..Len(v), v[j].op = x
      PROVE  e[x] = "active"
  <2>1. j + 1 \in 1..Len(u) /\ u[j + 1].op = x /\ j + 1 # 1
    BY <1>1, <1>4
  <2>2. u[1].op # x
    BY <2>1, <1>1, <1>2
  <2>3. QED
    BY <2>1, <2>2, <1>2
<1>5. ASSUME e[x] = "active"
      PROVE  \E j \in 1..Len(v) : v[j].op = x
  <2>1. PICK j \in 1..Len(u) : u[j].op = x
    BY <1>5, <1>2
  <2>2. j # 1
    BY <1>5, <2>1
  <2>3. QED
    BY <1>1, <2>1, <2>2
<1>6. QED
  BY <1>3, <1>4, <1>5

\* The next round of a discovery joins the end when the last one leaves.
LEMMA Rotates ==
    ASSUME NEW u \in Seq(Requests), NEW d, OneEach(u, d), u # <<>>,
           NEW r \in Requests, r.op = u[1].op
    PROVE  OneEach(Append(Tail(u), r), d)
<1> DEFINE n == Len(u)
           v == Append(Tail(u), r)
<1>1. n \in Nat /\ n >= 1 /\ Len(v) = n /\ v[n] = r
  OBVIOUS
<1>2. \A j \in 1..n : j # n => v[j] = u[j + 1]
  OBVIOUS
<1> HIDE DEF v, n
<1>3. \A j \in 1..n : j # n => j + 1 \in 1..n /\ j + 1 # 1 /\ v[j].op = u[j + 1].op
  BY <1>1, <1>2
<1>4. \A j \in 1..n : j # 1 => j - 1 \in 1..n /\ v[j - 1].op = u[j].op
  <2> TAKE j \in 1..n
  <2> HAVE j # 1
  <2>1. j - 1 \in 1..n /\ j - 1 # n /\ (j - 1) + 1 = j
    BY <1>1
  <2>2. QED
    BY <2>1, <1>2
<1>5. 1 \in 1..n /\ n \in 1..n /\ v[n].op = u[1].op
  BY <1>1
<1> SUFFICES ASSUME NEW x \in Discoveries
    PROVE /\ d[x] = "active" <=> \E j \in 1..n : v[j].op = x
          /\ \A j, k \in 1..n : (v[j].op = x /\ v[k].op = x) => j = k
  BY <1>1 DEF OneEach, v
<1>6. /\ d[x] = "active" <=> \E j \in 1..n : u[j].op = x
      /\ \A j, k \in 1..n : (u[j].op = x /\ u[k].op = x) => j = k
  BY DEF OneEach, n
<1>7. (\E j \in 1..n : u[j].op = x) => \E j \in 1..n : v[j].op = x
  BY <1>4, <1>5
<1>8. (\E j \in 1..n : v[j].op = x) => \E j \in 1..n : u[j].op = x
  BY <1>3, <1>5
<1>9. ASSUME NEW j \in 1..n, NEW k \in 1..n, v[j].op = x, v[k].op = x, j # k
      PROVE  FALSE
  <2>1. CASE j # n /\ k # n
    <3>1. j + 1 = k + 1
      BY <2>1, <1>3, <1>6, <1>9
    <3>2. QED
      BY <3>1, <1>9
  <2>2. CASE j = n
    BY <2>2, <1>3, <1>5, <1>6, <1>9
  <2>3. CASE k = n
    BY <2>3, <1>3, <1>5, <1>6, <1>9
  <2>4. QED
    BY <2>1, <2>2, <2>3
<1>10. QED
  BY <1>6, <1>7, <1>8, <1>9

-----------------------------------------------------------------------------
(* Steps of the program in terms of the requests under way. *)

\* What the first invariant says about the requests under way.
LEMMA UnderWayTyped ==
    ASSUME ProgramOK, BearerOK
    PROVE  /\ Sound \subseteq Requests
           /\ queue \in Seq(Requests)
           /\ UnderWay \in Seq(Requests)
           /\ answered \in Seq(Nat)
           /\ Len(slots) \in Nat
           /\ pending # NoReq => /\ UnderWay # <<>>
                                 /\ UnderWay[1] = pending
                                 /\ Tail(UnderWay) = queue
<1>1. Sound \subseteq Requests
  <2>1. dev.attrs \subseteq 0..Top /\ dev.reads \in Seq(dev.attrs)
    BY DeviceAssumption DEF ProgramOK, Device
  <2>2. 1..Len(dev.reads) \subseteq Nat
    BY <2>1
  <2>3. QED
    BY <2>1, <2>2 DEF Sound, Request, Requests
<1>2. queue \in Seq(Requests)
  BY <1>1 DEF BearerOK, SoundQueue
<1>3. pending # NoReq => pending \in Requests
  BY <1>1 DEF BearerOK, SoundQueue
<1>4. UnderWay \in Seq(Requests)
  BY <1>2, <1>3 DEF UnderWay
<1>5. Len(slots) \in Nat /\ answered \in Seq(Nat)
  <2>1. dev.reads \in Seq(dev.attrs)
    BY DeviceAssumption DEF ProgramOK, Device
  <2>2. 1..Len(dev.reads) \subseteq Nat
    BY <2>1
  <2>3. QED
    BY <2>1, <2>2 DEF ProgramOK
<1>6. ASSUME pending # NoReq
      PROVE  UnderWay # <<>> /\ UnderWay[1] = pending /\ Tail(UnderWay) = queue
  BY <1>2, <1>3, <1>6 DEF UnderWay
<1>7. QED
  BY <1>1, <1>2, <1>4, <1>5, <1>6

\* A read is answered or fails: it was the first under way.
LEMMA ReadLeaves ==
    ASSUME ProgramOK, BearerOK, Ordered, UnderWay # <<>>, UnderWay[1].op = "R",
           UnderWay' = Tail(UnderWay),
           answered' = Append(answered, UnderWay[1].slot),
           UNCHANGED <<slots, disc>>
    PROVE  Ordered'
<1>1. InOrder(Tail(UnderWay), Append(answered, UnderWay[1].slot), Len(slots))
  BY UnderWayTyped, AnswerFirst DEF Ordered
<1>2. OneEach(Tail(UnderWay), disc)
  BY UnderWayTyped, FirstLeaves DEF Ordered, Discoveries
<1>3. QED
  BY <1>1, <1>2 DEF Ordered

\* A discovery ends: its request was the only one it had.
LEMMA DiscoveryLeaves ==
    ASSUME ProgramOK, BearerOK, Ordered, UnderWay # <<>>,
           NEW x \in Discoveries, UnderWay[1].op = x,
           UnderWay' = Tail(UnderWay),
           NEW status \in {"ok", "failed"},
           x = "C" => status = "failed",
           disc' = [disc EXCEPT ![x] = status],
           UNCHANGED <<slots, answered>>
    PROVE  Ordered'
<1>1. disc[x] = "active"
  <2>1. Len(UnderWay) \in Nat /\ Len(UnderWay) # 0
    BY UnderWayTyped
  <2>2. 1 \in 1..Len(UnderWay)
    BY <2>1
  <2>3. QED
    BY <2>2 DEF Ordered, OneEach
<1>2. x # "R"
  BY DEF Discoveries
<1>3. InOrder(Tail(UnderWay), answered, Len(slots))
  BY <1>2, UnderWayTyped, DropDiscovery DEF Ordered
<1> DEFINE e == [disc EXCEPT ![x] = status]
<1>4. \A y \in Discoveries :
          e[y] = "active" <=> (disc[y] = "active" /\ y # UnderWay[1].op)
  BY <1>1 DEF ProgramOK
<1> HIDE DEF e
<1>5. OneEach(Tail(UnderWay), e)
  <2>1. UnderWay \in Seq(Requests) /\ OneEach(UnderWay, disc)
    BY UnderWayTyped DEF Ordered
  <2>2. QED
    BY <1>4, <2>1, FirstLeaves, SMTT(30)
<1>6. disc'["C"] # "ok" => slots = <<>>
  BY <1>1 DEF Ordered, ProgramOK, Discoveries
<1>7. QED
  BY <1>3, <1>5, <1>6 DEF Ordered, e

\* A discovery goes on with another request at the end of the queue.
LEMMA DiscoveryGoesOn ==
    ASSUME ProgramOK, BearerOK, Ordered, UnderWay # <<>>,
           NEW x \in Discoveries, UnderWay[1].op = x,
           NEW r \in Requests, r.op = x,
           UnderWay' = Append(Tail(UnderWay), r),
           UNCHANGED <<slots, answered, disc>>
    PROVE  Ordered'
<1>1. x # "R" /\ disc[x] = "active" /\ Tail(UnderWay) \in Seq(Requests)
  BY UnderWayTyped DEF Ordered, OneEach, Discoveries
<1>2. InOrder(Tail(UnderWay), answered, Len(slots))
  BY <1>1, UnderWayTyped, DropDiscovery DEF Ordered
<1>3. InOrder(Append(Tail(UnderWay), r), answered, Len(slots))
  BY <1>1, <1>2, UnderWayTyped, AddDiscovery
<1>4. OneEach(Append(Tail(UnderWay), r), disc)
  BY UnderWayTyped, Rotates DEF Ordered
<1>5. QED
  BY <1>3, <1>4 DEF Ordered

\* A step that neither adds, removes nor answers a request.
LEMMA OrderStays ==
    ASSUME Ordered, UNCHANGED <<UnderWay, slots, answered, disc>>
    PROVE  Ordered'
  BY DEF Ordered

\* A request fails.
LEMMA FailOrdered ==
    ASSUME ProgramOK, BearerOK, Ordered, UnderWay # <<>>, Fail(UnderWay[1]),
           UnderWay' = Tail(UnderWay)
    PROVE  Ordered'
<1> DEFINE r == UnderWay[1]
<1>1. CASE r.op = "P" /\ PrimaryDone(Collected("P", r.at), "failed")
  BY <1>1, DiscoveryLeaves DEF PrimaryDone, Discoveries
<1>2. CASE r.op = "C" /\ CharFailed
  BY <1>2, DiscoveryLeaves DEF CharFailed, Discoveries
<1>3. CASE r.op = "D" /\ DescDone(Collected("D", r.at), "failed")
  BY <1>3, DiscoveryLeaves DEF DescDone, Discoveries
<1>4. CASE r.op = "R" /\ r.part = 0 /\ ReadFailed(r)
  BY <1>4, ReadLeaves DEF ReadFailed
<1>5. CASE r.op = "R" /\ r.part > 0 /\ ValueRead(r)
  BY <1>5, ReadLeaves DEF ValueRead
<1>6. QED
  BY <1>1, <1>2, <1>3, <1>4, <1>5 DEF Fail

-----------------------------------------------------------------------------
(* The actions. *)

\* A response: what is under way afterwards is the queue it leaves.
LEMMA AfterResponse ==
    ASSUME ProgramOK, BearerOK, Answerable, NEW q, ResponseHandled(q)
    PROVE  /\ UnderWay' = q /\ dev' = dev
           /\ UnderWay # <<>> /\ UnderWay[1] = pending /\ Tail(UnderWay) = queue
           /\ Stages'
<1>1. UnderWay' = q /\ dev' = dev
  BY DEF ResponseHandled, UnderWay
<1>2. UnderWay # <<>> /\ UnderWay[1] = pending /\ Tail(UnderWay) = queue
  BY UnderWayTyped DEF Answerable
<1>3. Stages'
  BY DEF Stages, ResponseHandled, Answerable
<1>4. QED
  BY <1>1, <1>2, <1>3

\* Another round of a discovery.
LEMMA RoundOrdered ==
    ASSUME ProgramOK, BearerOK, Ordered, Answerable,
           NEW x \in Discoveries, pending.op = x, NEW last \in 1..Top,
           ResponseHandled(NextRound(x, Succ16(last))),
           UNCHANGED <<program, exit>>
    PROVE  Stages' /\ Ordered'
<1>1. Succ16(last) \in 0..Top
  BY Succ16IsHandle, DeviceAssumption
<1> DEFINE r == Discover(x, Succ16(last))
<1>2. r \in Requests /\ r.op = x
  BY <1>1 DEF Discover, Requests
<1> HIDE DEF r
<1>3. UnderWay' = Append(queue, r)
  BY AfterResponse DEF NextRound, r
<1>4. UnderWay # <<>> /\ UnderWay[1].op = x /\ UnderWay' = Append(Tail(UnderWay), r)
  BY <1>3, AfterResponse
<1>5. UNCHANGED <<slots, answered, disc>>
  BY DEF program
<1>6. Ordered'
  BY <1>2, <1>4, <1>5, DiscoveryGoesOn
<1>7. QED
  BY <1>6, AfterResponse

\* The last round of a discovery other than a successful one of
\* characteristics.
LEMMA EndOrdered ==
    ASSUME ProgramOK, BearerOK, Ordered, Answerable,
           NEW x \in Discoveries, pending.op = x, ResponseHandled(queue),
           NEW status \in {"ok", "failed"}, x = "C" => status = "failed",
           disc' = [disc EXCEPT ![x] = status], UNCHANGED <<slots, answered>>
    PROVE  Stages' /\ Ordered'
<1>1. /\ UnderWay # <<>> /\ UnderWay[1].op = x
      /\ UnderWay' = Tail(UnderWay) /\ Stages'
  BY AfterResponse
<1>2. Ordered'
  BY <1>1, DiscoveryLeaves
<1>3. QED
  BY <1>1, <1>2

\* The characteristics are known: all reads join the queue, and there was none.
LEMMA CharsDoneOrdered ==
    ASSUME ProgramOK, BearerOK, Ordered, Answerable, pending.op = "C", CharsDone
    PROVE  Stages' /\ Ordered'
<1> DEFINE u == Tail(UnderWay)
           m == Len(dev.reads)
           d == [disc EXCEPT !["C"] = "ok"]
<1>1. ResponseHandled(queue \o ReadRequests)
  BY DEF CharsDone
<1>2. /\ UnderWay # <<>> /\ UnderWay[1].op = "C" /\ u = queue
      /\ UnderWay' = u \o ReadRequests /\ Stages'
  BY <1>1, AfterResponse
<1>3. disc["C"] = "active"
  BY <1>2, UnderWayTyped DEF Ordered, OneEach, Discoveries
<1>4. slots = <<>> /\ Len(slots) = 0
  BY <1>3 DEF Ordered
<1>5. u \in Seq(Requests) /\ InOrder(u, answered, 0)
  <2>1. u \in Seq(Requests) /\ InOrder(UnderWay, answered, 0)
    BY <1>2, <1>4, UnderWayTyped DEF Ordered
  <2>2. QED
    BY <2>1, <1>2, UnderWayTyped, DropDiscovery
<1>6. OneEach(u, d)
  <2>1. \A y \in Discoveries :
            d[y] = "active" <=> (disc[y] = "active" /\ y # UnderWay[1].op)
    BY <1>2, <1>3 DEF ProgramOK
  <2>2. UnderWay \in Seq(Requests) /\ OneEach(UnderWay, disc) /\ UnderWay # <<>>
    BY <1>2, UnderWayTyped DEF Ordered
  <2> HIDE DEF d
  <2>3. QED
    BY <2>1, <2>2, FirstLeaves, SMTT(30)
<1>7. /\ m \in Nat /\ dev.reads \in Seq(dev.attrs) /\ dev.attrs \subseteq 0..Top
  BY DeviceAssumption DEF ProgramOK, Device
<1>8. \A i \in 1..m : Read(SlotOf(i), dev.reads[i]) \in Requests
  BY <1>7 DEF Read, SlotOf, Requests
<1>9. ReadRequests \in Seq(Requests) /\ Len(ReadRequests) = m
  BY <1>7, <1>8 DEF ReadRequests
<1>10. \A i \in 1..m : ReadRequests[i].op = "R" /\ ReadRequests[i].slot = i
  BY DEF ReadRequests, Read, SlotOf
<1> HIDE DEF u, m, d
<1>11. InOrder(u \o ReadRequests, answered, m) /\ OneEach(u \o ReadRequests, d)
  BY <1>5, <1>6, <1>7, <1>9, <1>10, UnderWayTyped, AddReads, SMTT(30)
<1>12. disc' = d /\ Len(slots') = m /\ answered' = answered /\ disc'["C"] = "ok"
  BY DEF CharsDone, ProgramOK, Discoveries, d, m
<1>13. Ordered'
  BY <1>2, <1>11, <1>12 DEF Ordered
<1>14. QED
  BY <1>2, <1>13

\* Responses to discoveries.
LEMMA DiscoveryOrdered ==
    ASSUME ProgramOK, BearerOK, Ordered,
           \/ \E last \in 1..Top : ServicesFound(last) \/ CharsFound(last)
                                                       \/ DescsFound(last)
           \/ NoMoreServices \/ NoMoreChars \/ NoMoreDescs
    PROVE  Stages' /\ Ordered'
<1>1. ASSUME NEW last \in 1..Top, ServicesFound(last)
      PROVE  Stages' /\ Ordered'
  BY <1>1, RoundOrdered, EndOrdered
     DEF ServicesFound, Listing, PrimaryDone, Discoveries
<1>2. ASSUME NEW last \in 1..Top, CharsFound(last)
      PROVE  Stages' /\ Ordered'
  BY <1>2, RoundOrdered, CharsDoneOrdered DEF CharsFound, Listing, Discoveries
<1>3. ASSUME NEW last \in 1..Top, DescsFound(last)
      PROVE  Stages' /\ Ordered'
  BY <1>3, RoundOrdered, EndOrdered DEF DescsFound, Listing, DescDone, Discoveries
<1>4. CASE NoMoreServices
  BY <1>4, EndOrdered DEF NoMoreServices, PrimaryDone, Discoveries
<1>5. CASE NoMoreChars
  BY <1>5, EndOrdered, CharsDoneOrdered DEF NoMoreChars, CharFailed, Discoveries
<1>6. CASE NoMoreDescs
  BY <1>6, EndOrdered DEF NoMoreDescs, DescDone, Discoveries
<1>7. QED
  BY <1>1, <1>2, <1>3, <1>4, <1>5, <1>6

\* Parts of a value, errors and retries.
LEMMA AnswerOrdered ==
    ASSUME ProgramOK, BearerOK, Ordered,
           PartRead \/ LastPartRead \/ ErrorResponse \/ SecurityRetry
    PROVE  Stages' /\ Ordered'
<1>1. CASE PartRead
  <2> DEFINE r == [pending EXCEPT !.part = @ + 1]
  <2>1. pending \in Sound /\ pending \in Requests
    BY <1>1, AnsweredIsSound, UnderWayTyped DEF PartRead
  <2>2. r \in Requests /\ r.op = pending.op /\ r.slot = pending.slot
    BY <2>1 DEF Requests
  <2> HIDE DEF r
  <2>3. /\ UnderWay # <<>> /\ UnderWay[1] = pending /\ Stages'
        /\ UnderWay' = <<r>> \o Tail(UnderWay)
    BY <1>1, AfterResponse DEF PartRead, r
  <2>4. UNCHANGED <<slots, answered, disc>>
    BY <1>1 DEF PartRead, program
  <2>5. /\ InOrder(<<r>> \o Tail(UnderWay), answered, Len(slots))
        /\ OneEach(<<r>> \o Tail(UnderWay), disc)
    BY <2>2, <2>3, UnderWayTyped, SwapFirst DEF Ordered
  <2>6. Ordered'
    BY <2>3, <2>4, <2>5 DEF Ordered
  <2>7. QED
    BY <2>3, <2>6
<1>2. CASE LastPartRead
  <2>1. /\ UnderWay # <<>> /\ UnderWay[1] = pending
        /\ UnderWay' = Tail(UnderWay) /\ Stages'
    BY <1>2, AfterResponse DEF LastPartRead
  <2>2. Ordered'
    BY <1>2, <2>1, ReadLeaves DEF LastPartRead, ValueRead
  <2>3. QED
    BY <2>1, <2>2
<1>3. CASE ErrorResponse
  <2>1. /\ UnderWay # <<>> /\ UnderWay[1] = pending
        /\ UnderWay' = Tail(UnderWay) /\ Stages'
    BY <1>3, AfterResponse DEF ErrorResponse
  <2>2. Ordered'
    BY <1>3, <2>1, FailOrdered DEF ErrorResponse
  <2>3. QED
    BY <2>1, <2>2
<1>4. CASE SecurityRetry
  <2>1. UnderWay' = UnderWay
    BY <1>4 DEF SecurityRetry, Answerable, Retried, UnderWay
  <2>2. Ordered'
    BY <1>4, <2>1, OrderStays DEF SecurityRetry, program
  <2>3. Stages'
    BY <1>4 DEF SecurityRetry, Answerable, Stages
  <2>4. QED
    BY <2>2, <2>3
<1>5. QED
  BY <1>1, <1>2, <1>3, <1>4

\* Connecting queues one request per discovery.
LEMMA ConnectOrdered ==
    ASSUME ProgramOK, BearerOK, OrderInv, Connected \/ ConnectFails \/ CannotStart
    PROVE  OrderInv'
<1>1. ASSUME StartDiscoveries, pending' = pending, link = "connecting",
             UNCHANGED <<slots, answered>>
      PROVE  Ordered'
  <2> DEFINE u == <<Discover("P", 1), Discover("C", 1), Discover("D", 1)>>
             d == [x \in Discoveries |-> "active"]
  <2>1. UnderWay = <<>> /\ UnderWay' = u /\ disc' = d /\ slots = <<>>
    BY <1>1 DEF OrderInv, Stages, Ordered, StartDiscoveries, UnderWay, Discoveries
  <2>2. InOrder(<<>>, answered, 0)
    BY <2>1 DEF OrderInv, Ordered
  <2>3. /\ Len(u) = 3 /\ u[1].op = "P" /\ u[2].op = "C" /\ u[3].op = "D"
        /\ \A j \in 1..3 : j = 1 \/ j = 2 \/ j = 3
    BY DEF Discover
  <2> HIDE DEF u
  <2>4. InOrder(u, answered, 0)
    BY <2>2, <2>3 DEF InOrder
  <2>5. OneEach(u, d)
    BY <2>3 DEF OneEach, Discoveries
  <2>6. QED
    BY <1>1, <2>1, <2>4, <2>5 DEF Ordered
<1>2. CASE Connected
  BY <1>1, <1>2 DEF Connected, OrderInv, Stages
<1>3. CASE ConnectFails
  BY <1>1, <1>3 DEF ConnectFails, OrderInv, Stages
<1>4. CASE CannotStart
  BY <1>4, OrderStays DEF CannotStart, bearer, program, OrderInv, Stages, UnderWay
<1>5. QED
  BY <1>2, <1>3, <1>4

\* A sequence is its head followed by its tail.
LEMMA HeadAndTail ==
    ASSUME NEW S, NEW q \in Seq(S), q # <<>>
    PROVE  <<Head(q)>> \o Tail(q) = q
OBVIOUS

\* Sending and the end of the channel.
LEMMA OthersOrdered ==
    ASSUME ProgramOK, BearerOK, OrderInv,
           \/ WriteRequest \/ WriterStops
           \/ TimeOut \/ Disconnect \/ FailNext \/ Exit
    PROVE  OrderInv'
<1>1. CASE WriteRequest
  <2>1. queue \in Seq(Requests) /\ queue # <<>> /\ Head(queue) \in Requests
    BY <1>1, UnderWayTyped DEF WriteRequest
  <2>2. Head(queue) # NoReq
    BY <2>1 DEF Requests, NoReq, Discoveries
  <2>3. <<Head(queue)>> \o Tail(queue) = queue
    BY <2>1, HeadAndTail
  <2>4. UnderWay' = UnderWay
    BY <1>1, <2>2, <2>3 DEF WriteRequest, UnderWay
  <2>5. Ordered'
    BY <1>1, <2>4, OrderStays DEF WriteRequest, program, OrderInv
  <2>6. QED
    BY <1>1, <2>5 DEF WriteRequest, OrderInv, Stages
<1>2. CASE WriterStops
  BY <1>2, OrderStays DEF WriterStops, program, OrderInv, Stages, UnderWay
<1>3. CASE TimeOut
  <2>1. /\ UnderWay # <<>> /\ UnderWay[1] = pending /\ UnderWay' = Tail(UnderWay)
    BY <1>3, UnderWayTyped DEF TimeOut, Answerable, UnderWay
  <2>2. Ordered'
    BY <1>3, <2>1, FailOrdered DEF TimeOut, OrderInv
  <2>3. QED
    BY <1>3, <2>2 DEF TimeOut, OrderInv, Stages
<1>4. CASE Disconnect
  <2>1. UnderWay' = UnderWay
    BY <1>4 DEF Disconnect, Dropped, UnderWay
  <2>2. Ordered'
    BY <1>4, <2>1, OrderStays DEF Disconnect, program, OrderInv
  <2>3. QED
    BY <1>4, <2>2 DEF Disconnect, OrderInv, Stages
<1>5. CASE FailNext
  <2>1. pending = NoReq /\ pending' = NoReq /\ queue # <<>> /\ queue' = Tail(queue)
    BY <1>5 DEF FailNext, OrderInv, Stages
  <2>2. UnderWay = queue /\ UnderWay' = Tail(UnderWay) /\ UnderWay # <<>>
    BY <2>1 DEF UnderWay
  <2>3. UnderWay[1] = Head(queue)
    BY <2>2, UnderWayTyped
  <2>4. Ordered'
    BY <1>5, <2>2, <2>3, FailOrdered DEF FailNext, OrderInv
  <2>5. QED
    BY <1>5, <2>4 DEF FailNext, OrderInv, Stages
<1>6. CASE Exit
  BY <1>6, OrderStays DEF Exit, bearer, program, OrderInv, Stages, UnderWay
<1>7. QED
  BY <1>1, <1>2, <1>3, <1>4, <1>5, <1>6

-----------------------------------------------------------------------------
(* The theorems. *)

\* What the second invariant says is what the properties say.
LEMMA OrderProperties ==
    ASSUME ProgramOK, BearerOK, OrderInv
    PROVE  ReadsInOrder /\ OneRequestPerDiscovery
<1>1. /\ DOMAIN UnderWay = 1..Len(UnderWay) /\ DOMAIN answered = 1..Len(answered)
      /\ DOMAIN slots = 1..Len(slots)
      /\ Len(slots) \in Nat /\ Len(answered) \in Nat
  BY UnderWayTyped, DeviceAssumption DEF ProgramOK, Device
<1>2. DOMAIN slots \ DOMAIN answered = (Len(answered) + 1)..Len(slots)
  BY <1>1
<1>3. Len(answered) <= Len(slots)
  BY DEF OrderInv, Ordered, InOrder
<1>4. ReadsInOrder
  <2>1. \A i \in DOMAIN answered : answered[i] = i /\ i \in DOMAIN slots
    BY <1>1, <1>3 DEF OrderInv, Ordered, InOrder
  <2>2. QED
    BY <1>1, <1>2, <2>1 DEF ReadsInOrder, ReadAt, OrderInv, Ordered, InOrder
<1>5. OneRequestPerDiscovery
  BY <1>1 DEF OneRequestPerDiscovery, OrderInv, Ordered, OneEach
<1>6. QED
  BY <1>4, <1>5

\* Both invariants hold initially and are kept by every step.
THEOREM OrderInductive == Spec => [](IndInv /\ OrderInv)
<1>1. Init => OrderInv
  <2> SUFFICES ASSUME Init PROVE OrderInv
    OBVIOUS
  <2>1. UnderWay = <<>> /\ answered = <<>> /\ slots = <<>>
    BY DEF Init, UnderWay
  <2>2. disc = [x \in Discoveries |-> "idle"]
    BY DEF Init
  <2>3. InOrder(UnderWay, answered, Len(slots))
    BY <2>1 DEF InOrder
  <2>4. OneEach(UnderWay, disc)
    BY <2>1, <2>2 DEF OneEach
  <2>5. Stages
    BY DEF Init, Stages
  <2>6. QED
    BY <2>1, <2>3, <2>4, <2>5 DEF OrderInv, Ordered
<1>2. IndInv /\ OrderInv /\ [Next]_vars => OrderInv'
  <2> SUFFICES ASSUME ProgramOK, BearerOK, OrderInv, [Next]_vars
               PROVE  OrderInv'
    BY Parts
  <2>1. CASE Receive
    BY <2>1, DiscoveryOrdered, AnswerOrdered DEF Receive, OrderInv
  <2>2. CASE Connected \/ ConnectFails \/ CannotStart
    BY <2>2, ConnectOrdered
  <2>3. CASE \/ WriteRequest \/ WriterStops
             \/ TimeOut \/ Disconnect \/ FailNext \/ Exit
    BY <2>3, OthersOrdered
  <2>4. CASE UNCHANGED vars
    BY <2>4, OrderStays DEF vars, bearer, program, OrderInv, Stages, UnderWay
  <2>5. QED
    BY <2>1, <2>2, <2>3, <2>4 DEF Next
<1>3. QED
  BY <1>1, <1>2, Inductive, PTL DEF Spec

\* Whatever the device answers and whatever fails, the reads are answered in
\* the order of the characteristics, none twice and none passed over.
THEOREM ReadsOrdered == Spec => []ReadsInOrder
<1>1. IndInv /\ OrderInv => ReadsInOrder
  BY Parts, OrderProperties
<1>2. QED
  BY <1>1, OrderInductive, PTL

\* No round of a discovery is asked for twice, and none is lost.
THEOREM OneRound == Spec => []OneRequestPerDiscovery
<1>1. IndInv /\ OrderInv => OneRequestPerDiscovery
  BY Parts, OrderProperties
<1>2. QED
  BY <1>1, OrderInductive, PTL
=============================================================================
