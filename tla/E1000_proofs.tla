---------------------------- MODULE E1000_proofs ----------------------------
(***************************************************************************)
(* Proofs about E1000, for rings of any size and any frames.               *)
(*                                                                         *)
(* The driver knows the card's progress from DD alone, so the invariant    *)
(* says which descriptors have it: the outstanding transmit descriptors    *)
(* are the ones just behind tx_cur, the ready receive descriptors the ones *)
(* from rx_cur on, and the registers are where these ranges end.  Places   *)
(* on a ring are computed modulo its size; in the ranges that occur, that  *)
(* is to add or subtract the size at most once (Wrap).                     *)
(***************************************************************************)
EXTENDS E1000, FiniteSetTheorems, SequenceTheorems, TLAPS

USE ZenonT(20), SMTT(20)

-----------------------------------------------------------------------------
(* Places on a ring of n descriptors.                                       *)

\* The place x, counted from the first descriptor, at most one round away.
Wrap(x, n) == IF x < 0 THEN x + n ELSE IF x < n THEN x ELSE x - n

\* The remainder, as long as x is at most one round away.
LEMMA Mod ==
  ASSUME NEW n \in Nat \ {0}, NEW x \in Int, -n <= x, x < 2 * n
  PROVE  x % n = Wrap(x, n) /\ Wrap(x, n) \in 0..n - 1
<1>1. PICK r, q : r = x % n /\ q = x \div n
  OBVIOUS
<1>2. r \in 0..n - 1 /\ q \in Int /\ x = n * q + r
  BY <1>1
<1>3. CASE q <= -2
  BY <1>2, <1>3
<1>4. CASE q >= 2
  BY <1>2, <1>4
<1>5. CASE q \in {-1, 0, 1}
  BY <1>1, <1>2, <1>5 DEF Wrap
<1> QED  BY <1>2, <1>3, <1>4, <1>5

\* How far it is from a to b.
Dist(a, b, n) == IF b >= a THEN b - a ELSE b - a + n

\* The k places from `first` on.
Arc(first, k, n) == {i \in 0..n - 1 : Dist(first, i, n) < k}

\* Going on from a place that was computed.
LEMMA WrapWrap ==
  ASSUME NEW n \in Nat \ {0, 1}, NEW a \in 0..n - 1, NEW k \in 1..n
  PROVE  /\ Wrap(a + 1, n) \in 0..n - 1
         /\ Wrap(Wrap(a + 1, n) + (k - 1), n) = Wrap(a + k, n)
  BY SMT DEF Wrap

\* The place behind an arc is none of it, and makes it longer.
LEMMA ArcPush ==
  ASSUME NEW n \in Nat \ {0, 1}, NEW a \in 0..n - 1, NEW k \in 0..n - 1
  PROVE  /\ Wrap(a + k, n) \in 0..n - 1 /\ Wrap(a + k, n) \notin Arc(a, k, n)
         /\ Arc(a, k + 1, n) = Arc(a, k, n) \cup {Wrap(a + k, n)}
<1>0. PICK at : at = Wrap(a + k, n)
  OBVIOUS
<1>1. at \in 0..n - 1 /\ Dist(a, at, n) = k
  BY <1>0, SMT DEF Wrap, Dist
<1>2. ASSUME NEW i \in 0..n - 1
      PROVE  Dist(a, i, n) < k + 1 <=> Dist(a, i, n) < k \/ i = at
  BY <1>0, <1>1, SMT DEF Wrap, Dist
<1>3. ~(k < k)
  BY SMT
<1> QED  BY <1>0, <1>1, <1>2, <1>3 DEF Arc

\* Without its first place, an arc begins one further on.
LEMMA ArcPop ==
  ASSUME NEW n \in Nat \ {0, 1}, NEW a \in 0..n - 1, NEW k \in 1..n
  PROVE  /\ a \in Arc(a, k, n)
         /\ Arc(Wrap(a + 1, n), k - 1, n) = Arc(a, k, n) \ {a}
<1>1. Dist(a, a, n) < k
  BY SMT DEF Dist
<1>2. ASSUME NEW i \in 0..n - 1
      PROVE  Dist(Wrap(a + 1, n), i, n) < k - 1 <=> Dist(a, i, n) < k /\ i # a
  BY SMT DEF Wrap, Dist
<1> QED  BY <1>1, <1>2 DEF Arc

\* The last place behind a full arc is its first one.
LEMMA ArcFull ==
  ASSUME NEW n \in Nat \ {0, 1}, NEW a \in 0..n - 1
  PROVE  Arc(a, n, n) = 0..n - 1 /\ Arc(a, 0, n) = {} /\ Wrap(a + n, n) = a
<1>1. Wrap(a + n, n) = a
  BY SMT DEF Wrap
<1>2. \A i \in 0..n - 1 : Dist(a, i, n) < n /\ ~(Dist(a, i, n) < 0)
  BY SMT DEF Dist
<1> QED  BY <1>1, <1>2 DEF Arc

\* Counting the places of a set.
LEMMA Count ==
  ASSUME NEW n \in Nat \ {0, 1}, NEW S, S \subseteq 0..n - 1
  PROVE  /\ IsFiniteSet(S) /\ Cardinality(S) \in 0..n
         /\ \A i \in S : Cardinality(S \ {i}) = Cardinality(S) - 1
         /\ \A i \in (0..n - 1) \ S : Cardinality(S \cup {i}) = Cardinality(S) + 1
<1>1. IsFiniteSet(0..n - 1) /\ Cardinality(0..n - 1) = n
  <2>1. 0 \in Int /\ n - 1 \in Int /\ ~(0 > n - 1) /\ (n - 1) - 0 + 1 = n
    BY SMT
  <2> QED  BY <2>1, FS_Interval
<1>2. IsFiniteSet(S) /\ Cardinality(S) <= n
  BY <1>1, FS_Subset
<1>3. Cardinality(S) \in Nat
  BY <1>2, FS_CardinalityType
<1>4. \A i \in S : Cardinality(S \ {i}) = Cardinality(S) - 1
  BY <1>2, FS_RemoveElement
<1>5. \A i \in (0..n - 1) \ S : Cardinality(S \cup {i}) = Cardinality(S) + 1
  BY <1>2, FS_AddElement
<1>6. Cardinality(S) \in 0..n
  BY <1>2, <1>3, SMT
<1> QED  BY <1>2, <1>4, <1>5, <1>6

-----------------------------------------------------------------------------
(* The frames on an arc, the oldest first.                                  *)

Queue(f, first, k, n) == [j \in 1..k |-> f[Wrap(first + j - 1, n)]]

\* The ring's frames with another one in a place.
Put(f, at, x) == [f EXCEPT ![at] = x]

\* What a ring holds in its descriptors.
Slots == Frames \cup {NoFrame}
Contents(n) == [0..n - 1 -> Slots]

\* A function on 1..k is a sequence of length k.
LEMMA SeqOf ==
  ASSUME NEW k \in Nat, NEW T, NEW p \in [1..k -> T]
  PROVE  p \in Seq(T) /\ Len(p) = k
  BY SMT

\* The frames on an arc are a sequence.
LEMMA QueueIs ==
  ASSUME NEW n \in Nat \ {0, 1}, NEW a \in 0..n - 1, NEW k \in 0..n,
         NEW f \in Contents(n)
  PROVE  /\ Queue(f, a, k, n) \in Seq(Slots) /\ Len(Queue(f, a, k, n)) = k
         /\ \A j \in 1..k : Queue(f, a, k, n)[j] = f[Wrap(a + j - 1, n)]
<1>1. PICK p : p = Queue(f, a, k, n)
  OBVIOUS
<1>2. p = [j \in 1..k |-> f[Wrap(a + j - 1, n)]]
  BY <1>1 DEF Queue
<1>3. \A j \in 1..k : Wrap(a + j - 1, n) \in 0..n - 1
  BY SMT DEF Wrap
<1>4. \A j \in 1..k : f[Wrap(a + j - 1, n)] \in Slots
  BY <1>3 DEF Contents
<1>5. p \in [1..k -> Slots] /\ k \in Nat
  <2>1. k \in Nat
    BY SMT
  <2> QED  BY <1>2, <1>4, <2>1
<1> QED  BY <1>1, <1>2, <1>5, SeqOf

\* A frame put behind the others comes last.
LEMMA QueuePush ==
  ASSUME NEW n \in Nat \ {0, 1}, NEW a \in 0..n - 1, NEW k \in 0..n - 1,
         NEW f \in Contents(n), NEW x \in Slots
  PROVE  Queue(Put(f, Wrap(a + k, n), x), a, k + 1, n) = Append(Queue(f, a, k, n), x)
<1>0. PICK at, g : at = Wrap(a + k, n) /\ g = Put(f, at, x)
  OBVIOUS
<1>1. \A j \in 1..k + 1 : Wrap(a + j - 1, n) \in 0..n - 1 /\ (Wrap(a + j - 1, n) = at <=> j = k + 1)
  BY <1>0, SMT DEF Wrap
<1>2. PICK p : p = Queue(f, a, k, n)
  OBVIOUS
<1>3. p \in Seq(Slots) /\ Len(p) = k /\ \A j \in 1..k : p[j] = f[Wrap(a + j - 1, n)]
  <2>1. k \in 0..n
    BY SMT
  <2>2. /\ Queue(f, a, k, n) \in Seq(Slots) /\ Len(Queue(f, a, k, n)) = k
        /\ \A j \in 1..k : Queue(f, a, k, n)[j] = f[Wrap(a + j - 1, n)]
    BY <2>1, QueueIs
  <2> QED  BY <1>2, <2>2
<1>4. PICK q : q = Queue(g, a, k + 1, n)
  OBVIOUS
<1>5. q = [j \in 1..k + 1 |-> g[Wrap(a + j - 1, n)]]
  BY <1>4 DEF Queue
<1>6. ASSUME NEW j \in 1..k + 1
      PROVE  q[j] = IF j = k + 1 THEN x ELSE p[j]
  <2>1. g[Wrap(a + j - 1, n)] = IF Wrap(a + j - 1, n) = at THEN x ELSE f[Wrap(a + j - 1, n)]
    BY <1>0, <1>1 DEF Put, Contents
  <2>2. j # k + 1 => j \in 1..k
    BY SMT
  <2> QED  BY <1>1, <1>3, <1>5, <2>1, <2>2
<1>7. PICK r : r = Append(p, x)
  OBVIOUS
<1>8. r \in Seq(Slots) /\ Len(r) = k + 1 /\ \A j \in 1..k + 1 : r[j] = IF j = k + 1 THEN x ELSE p[j]
  BY <1>3, <1>7, SMT
<1>9. q = r
  <2>1. \A j \in 1..k + 1 : q[j] = r[j] /\ r[j] \in Slots
    <3>1. \A j \in 1..k + 1 : r[j] \in Slots
      BY <1>8, ElementOfSeq
    <3> QED  BY <1>6, <1>8, <3>1
  <2>2. q \in [1..k + 1 -> Slots] /\ k + 1 \in Nat
    <3>1. k + 1 \in Nat
      BY SMT
    <3> QED  BY <1>5, <2>1, <3>1
  <2>3. q \in Seq(Slots) /\ Len(q) = k + 1
    BY <2>2, SeqOf
  <2> QED  BY <1>8, <2>1, <2>3, SeqEqual
<1> QED  BY <1>0, <1>2, <1>4, <1>7, <1>9

\* Without the first frame, the others keep their order.
LEMMA QueuePop ==
  ASSUME NEW n \in Nat \ {0, 1}, NEW a \in 0..n - 1, NEW k \in 1..n,
         NEW f \in Contents(n)
  PROVE  /\ Queue(f, a, k, n) \in Seq(Slots) /\ Len(Queue(f, a, k, n)) = k
         /\ Queue(f, Wrap(a + 1, n), k - 1, n) = Tail(Queue(f, a, k, n))
<1>1. \A j \in 1..k : Wrap(a + j - 1, n) \in 0..n - 1
  BY SMT DEF Wrap
<1>2. \A j \in 1..k - 1 : Wrap(Wrap(a + 1, n) + j - 1, n) = Wrap(a + (j + 1) - 1, n)
  BY SMT DEF Wrap
<1>3. PICK p : p = Queue(f, a, k, n)
  OBVIOUS
<1>4. p \in Seq(Slots) /\ Len(p) = k /\ \A j \in 1..k : p[j] = f[Wrap(a + j - 1, n)]
  <2>1. k \in 0..n
    BY SMT
  <2> QED  BY <1>3, <2>1, QueueIs, SMTT(40)
<1>5. PICK q : q = Queue(f, Wrap(a + 1, n), k - 1, n)
  OBVIOUS
<1>6. q = [j \in 1..k - 1 |-> f[Wrap(Wrap(a + 1, n) + j - 1, n)]]
  BY <1>5 DEF Queue
<1>7. ASSUME NEW j \in 1..k - 1
      PROVE  q[j] = p[j + 1]
  <2>1. j + 1 \in 1..k
    BY SMT
  <2> QED  BY <1>2, <1>4, <1>6, <2>1
<1>8. PICK r : r = Tail(p)
  OBVIOUS
<1>9. r \in Seq(Slots) /\ Len(r) = k - 1 /\ \A j \in 1..k - 1 : r[j] = p[j + 1]
  <2>1. p # <<>>
    BY <1>4, SMT
  <2> QED  BY <1>4, <1>8, <2>1, HeadTailProperties
<1>10. q = r
  <2>1. \A j \in 1..k - 1 : q[j] = r[j] /\ r[j] \in Slots
    <3>1. \A j \in 1..k - 1 : r[j] \in Slots
      BY <1>9, ElementOfSeq
    <3> QED  BY <1>7, <1>9, <3>1
  <2>2. q \in [1..k - 1 -> Slots] /\ k - 1 \in Nat
    <3>1. k - 1 \in Nat
      BY SMT
    <3> QED  BY <1>6, <2>1, <3>1
  <2>3. q \in Seq(Slots) /\ Len(q) = k - 1
    BY <2>2, SeqOf
  <2> QED  BY <1>9, <2>1, <2>3, SeqEqual
<1> QED  BY <1>3, <1>4, <1>5, <1>8, <1>10
-----------------------------------------------------------------------------
(* The inductive invariant.                                                  *)

Descs(n) == [0..n - 1 -> [dd : BOOLEAN, frame : Slots]]

\* The outstanding transmit descriptors go from the card's head to tx_cur.
TxInv ==
  /\ tx_descs \in Descs(TX_DESC_COUNT)
  /\ tdh \in TxRing
  /\ tx_cur = Wrap(tdh + Outstanding, TX_DESC_COUNT) /\ tdt = tx_cur
  /\ {i \in TxRing : ~tx_descs[i].dd} = Arc(tdh, Outstanding, TX_DESC_COUNT)

\* The ready receive descriptors go from rx_cur to the card's head, and the tail
\* is the one before rx_cur.
RxInv ==
  /\ rx_descs \in Descs(RX_DESC_COUNT)
  /\ rx_cur \in RxRing
  /\ Ready <= RX_DESC_COUNT - 1
  /\ rdh = Wrap(rx_cur + Ready, RX_DESC_COUNT)
  /\ rdt = Wrap(rx_cur + (RX_DESC_COUNT - 1), RX_DESC_COUNT)
  /\ {i \in RxRing : rx_descs[i].dd} = Arc(rx_cur, Ready, RX_DESC_COUNT)

IInv == TxInv /\ RxInv

\* The number of outstanding transmit descriptors, in every state.
LEMMA TxCount ==
  ASSUME NEW d
  PROVE  Cardinality({i \in TxRing : ~d[i].dd}) \in 0..TX_DESC_COUNT
  BY Count, E1000Assumption DEF TxRing

\* The number of ready receive descriptors, in every state.
LEMMA RxCount ==
  ASSUME NEW d
  PROVE  Cardinality({i \in RxRing : d[i].dd}) \in 0..RX_DESC_COUNT
  BY Count, E1000Assumption DEF RxRing

\* The frames of a ring, and the k frames before and from the place cur.
RingFrames(d, n) == [i \in 0..n - 1 |-> d[i].frame]
Behind(d, cur, k, n) == [j \in 1..k |-> d[(cur - k + j - 1) % n].frame]
Onward(d, cur, k, n) == [j \in 1..k |-> d[(cur + j - 1) % n].frame]

\* The transmit queue, counted from the card's head instead of from tx_cur.
LEMMA TxQueueAs ==
  ASSUME NEW n \in Nat \ {0, 1}, NEW a \in 0..n - 1, NEW k \in 0..n, NEW d
  PROVE  Behind(d, Wrap(a + k, n), k, n) = Queue(RingFrames(d, n), a, k, n)
<1>0. PICK cur : cur = Wrap(a + k, n)
  OBVIOUS
<1>1. ASSUME NEW j \in 1..k
      PROVE  (cur - k + j - 1) % n = Wrap(a + j - 1, n) /\ Wrap(a + j - 1, n) \in 0..n - 1
  <2>1. PICK x : x = cur - k + j - 1
    OBVIOUS
  <2>2. x \in Int /\ -n <= x /\ x < 2 * n /\ n \in Nat \ {0} /\ Wrap(x, n) = Wrap(a + j - 1, n)
    BY <1>0, <2>1, SMT DEF Wrap
  <2> QED  BY <2>1, <2>2, Mod
<1> QED  BY <1>0, <1>1 DEF Queue, Behind, RingFrames

\* The receive queue without remainders.
LEMMA RxQueueAs ==
  ASSUME NEW n \in Nat \ {0, 1}, NEW a \in 0..n - 1, NEW k \in 0..n, NEW d
  PROVE  Onward(d, a, k, n) = Queue(RingFrames(d, n), a, k, n)
<1>1. ASSUME NEW j \in 1..k
      PROVE  (a + j - 1) % n = Wrap(a + j - 1, n) /\ Wrap(a + j - 1, n) \in 0..n - 1
  <2>1. PICK x : x = a + j - 1
    OBVIOUS
  <2>2. x \in Int /\ -n <= x /\ x < 2 * n /\ n \in Nat \ {0}
    BY <2>1, SMT
  <2> QED  BY <2>1, <2>2, Mod
<1> QED  BY <1>1 DEF Queue, Onward, RingFrames

\* The remainder the driver and the card compute is the next place.
LEMMA NextPlace ==
  ASSUME NEW n \in Nat \ {0, 1}, NEW a \in 0..n - 1
  PROVE  (a + 1) % n = Wrap(a + 1, n) /\ Wrap(a + 1, n) \in 0..n - 1
<1>1. a + 1 \in Int /\ -n <= a + 1 /\ a + 1 < 2 * n /\ n \in Nat \ {0}
  BY SMT
<1> QED  BY <1>1, Mod

\* Changing the status of a descriptor, and filling one.
Mark(d, at, done) == [d EXCEPT ![at].dd = done]
Fill(d, at, done, frame) == [d EXCEPT ![at] = [dd |-> done, frame |-> frame]]

LEMMA Marked ==
  ASSUME NEW n, NEW d \in Descs(n), NEW at \in 0..n - 1, NEW done \in BOOLEAN
  PROVE  /\ Mark(d, at, done) \in Descs(n)
         /\ \A i \in 0..n - 1 : Mark(d, at, done)[i].dd = IF i = at THEN done ELSE d[i].dd
         /\ RingFrames(Mark(d, at, done), n) = RingFrames(d, n)
         /\ RingFrames(d, n) \in Contents(n)
<1>1. PICK old, new, e : old = d[at] /\ new = [old EXCEPT !.dd = done] /\ e = Mark(d, at, done)
  OBVIOUS
<1>2. old \in [dd : BOOLEAN, frame : Slots]
  BY <1>1 DEF Descs
<1>3. new \in [dd : BOOLEAN, frame : Slots] /\ new.dd = done /\ new.frame = old.frame
  BY <1>1, <1>2
<1>4. e = [d EXCEPT ![at] = new]
  BY <1>1 DEF Mark
<1>5. e \in Descs(n) /\ \A i \in 0..n - 1 : e[i] = IF i = at THEN new ELSE d[i]
  BY <1>3, <1>4 DEF Descs
<1>6. \A i \in 0..n - 1 : e[i].dd = (IF i = at THEN done ELSE d[i].dd) /\ e[i].frame = d[i].frame
  BY <1>1, <1>3, <1>5
<1>7. RingFrames(e, n) = RingFrames(d, n)
  BY <1>6 DEF RingFrames
<1>8. RingFrames(d, n) \in Contents(n)
  BY DEF RingFrames, Descs, Contents
<1> QED  BY <1>1, <1>5, <1>6, <1>7, <1>8

LEMMA Filled ==
  ASSUME NEW n, NEW d \in Descs(n), NEW at \in 0..n - 1, NEW done \in BOOLEAN, NEW frame \in Frames
  PROVE  /\ Fill(d, at, done, frame) \in Descs(n)
         /\ \A i \in 0..n - 1 : Fill(d, at, done, frame)[i].dd = IF i = at THEN done ELSE d[i].dd
         /\ RingFrames(Fill(d, at, done, frame), n) = Put(RingFrames(d, n), at, frame)
         /\ RingFrames(d, n) \in Contents(n)
<1>1. PICK new, e : new = [dd |-> done, frame |-> frame] /\ e = Fill(d, at, done, frame)
  OBVIOUS
<1>2. new \in [dd : BOOLEAN, frame : Slots] /\ new.dd = done /\ new.frame = frame
  BY <1>1 DEF Slots
<1>3. e \in Descs(n) /\ \A i \in 0..n - 1 : e[i] = IF i = at THEN new ELSE d[i]
  <2>1. e = [d EXCEPT ![at] = new]
    BY <1>1 DEF Fill
  <2> QED  BY <1>2, <2>1 DEF Descs
<1>4. \A i \in 0..n - 1 : e[i].dd = IF i = at THEN done ELSE d[i].dd
  BY <1>2, <1>3
<1>5. \A i \in 0..n - 1 : e[i].frame = IF i = at THEN frame ELSE d[i].frame
  BY <1>2, <1>3
<1>6. RingFrames(e, n) = Put(RingFrames(d, n), at, frame)
  BY <1>5 DEF RingFrames, Put
<1>7. RingFrames(d, n) \in Contents(n)
  BY DEF RingFrames, Descs, Contents
<1> QED  BY <1>1, <1>3, <1>4, <1>6, <1>7

-----------------------------------------------------------------------------
(* The four operations on a ring.                                            *)

\* transmit_raw puts a frame behind the outstanding ones, if DD says there is room.
LEMMA TxPush ==
  ASSUME TxInv, NEW frame \in Frames, tx_descs[tx_cur].dd, transmit_raw(frame)
  PROVE  /\ TxInv'
         /\ Len(TxQueue) < TX_DESC_COUNT
         /\ TxQueue' = Append(TxQueue, frame)
<1>1. PICK n, k, a, f, S :
        /\ n = TX_DESC_COUNT /\ k = Outstanding /\ a = tdh
        /\ f = RingFrames(tx_descs, n)
        /\ S = {i \in TxRing : ~tx_descs[i].dd}
  OBVIOUS
<1>2. /\ n \in Nat \ {0, 1} /\ a \in 0..n - 1 /\ k \in 0..n /\ tx_cur = Wrap(a + k, n)
      /\ S = Arc(a, k, n) /\ k = Cardinality(S) /\ TxRing = 0..n - 1
  BY <1>1, TxCount, E1000Assumption DEF TxInv, Outstanding, TxRing
<1>3. k \in 0..n - 1
  <2>1. SUFFICES k # n
    BY <1>2, SMT
  <2>2. SUFFICES ASSUME k = n PROVE FALSE
    OBVIOUS
  <2>3. tx_cur \in S
    BY <1>2, <2>2, ArcFull
  <2> QED  BY <1>1, <2>3
<1>4. tx_cur \in 0..n - 1 /\ tx_cur \notin S /\ Arc(a, k + 1, n) = S \cup {tx_cur}
  <2>1. /\ Wrap(a + k, n) \in 0..n - 1 /\ Wrap(a + k, n) \notin Arc(a, k, n)
        /\ Arc(a, k + 1, n) = Arc(a, k, n) \cup {Wrap(a + k, n)}
    BY <1>2, <1>3, ArcPush
  <2> QED  BY <1>2, <2>1
<1>5. /\ tx_descs' = Fill(tx_descs, tx_cur, FALSE, frame)
      /\ tx_cur' = (tx_cur + 1) % TX_DESC_COUNT /\ tdt' = tx_cur' /\ tdh' = tdh
  BY DEF transmit_raw, Fill
<1>6. /\ tx_descs' \in Descs(n) /\ tx_descs \in Descs(n)
      /\ \A i \in 0..n - 1 : tx_descs'[i].dd = IF i = tx_cur THEN FALSE ELSE tx_descs[i].dd
      /\ RingFrames(tx_descs', n) = Put(RingFrames(tx_descs, n), tx_cur, frame)
      /\ RingFrames(tx_descs, n) \in Contents(n)
  <2>1. tx_descs \in Descs(n) /\ FALSE \in BOOLEAN /\ tx_cur \in 0..n - 1
    BY <1>1, <1>4, <1>5 DEF TxInv
  <2>2. /\ Fill(tx_descs, tx_cur, FALSE, frame) \in Descs(n)
        /\ \A i \in 0..n - 1 : Fill(tx_descs, tx_cur, FALSE, frame)[i].dd = IF i = tx_cur THEN FALSE ELSE tx_descs[i].dd
        /\ RingFrames(Fill(tx_descs, tx_cur, FALSE, frame), n) = Put(RingFrames(tx_descs, n), tx_cur, frame)
        /\ RingFrames(tx_descs, n) \in Contents(n)
    BY <2>1, Filled
  <2>3. tx_descs' = Fill(tx_descs, tx_cur, FALSE, frame)
    BY <1>4, <1>5
  <2> QED  BY <2>1, <2>2, <2>3
<1>7. {i \in TxRing : ~tx_descs'[i].dd} = S \cup {tx_cur}
  <2>1. \A i \in 0..n - 1 : ~tx_descs'[i].dd <=> ~tx_descs[i].dd \/ i = tx_cur
    BY <1>6
  <2> QED  BY <1>1, <1>2, <1>4, <2>1
<1>8. Outstanding' = k + 1
  <2>1. S \subseteq 0..n - 1
    BY <1>1, <1>2
  <2> QED  BY <1>2, <1>4, <1>7, <2>1, Count, SMTT(40) DEF Outstanding
<1>9. tx_cur' = Wrap(tdh' + Outstanding', n)
  <2>1. tx_cur' = Wrap(tx_cur + 1, n)
    BY <1>1, <1>2, <1>4, <1>5, NextPlace
  <2>2. Wrap(Wrap(a + k, n) + 1, n) = Wrap(a + (k + 1), n)
    BY <1>2, <1>3, SMT DEF Wrap
  <2> QED  BY <1>1, <1>2, <1>5, <1>8, <2>1, <2>2
<1>10. TxInv'
  BY <1>1, <1>2, <1>4, <1>5, <1>6, <1>7, <1>8, <1>9 DEF TxInv, TxRing
<1>11. TxQueue = Queue(f, a, k, n)
  <2>1. Behind(tx_descs, Wrap(a + k, n), k, n) = Queue(RingFrames(tx_descs, n), a, k, n)
    BY <1>2, TxQueueAs
  <2>2. TxQueue = Behind(tx_descs, tx_cur, k, n)
    BY <1>1 DEF TxQueue, Behind
  <2> QED  BY <1>1, <1>2, <2>1, <2>2
<1>12. PICK g : g = RingFrames(tx_descs', n)
  OBVIOUS
<1>13. TxQueue' = Queue(g, a, k + 1, n)
  <2>1. k + 1 \in 0..n
    BY <1>2, <1>3, SMT
  <2>2. TxQueue' = Behind(tx_descs', tx_cur', k + 1, n)
    BY <1>1, <1>8 DEF TxQueue, Behind
  <2>3. tx_cur' = Wrap(a + (k + 1), n)
    BY <1>1, <1>5, <1>8, <1>9
  <2>4. Behind(tx_descs', Wrap(a + (k + 1), n), k + 1, n) = Queue(RingFrames(tx_descs', n), a, k + 1, n)
    BY <1>2, <2>1, TxQueueAs
  <2> QED  BY <1>12, <2>2, <2>3, <2>4
<1>14. f \in Contents(n) /\ g = Put(f, tx_cur, frame)
  BY <1>1, <1>6, <1>12
<1>15. Len(TxQueue) = k /\ TxQueue' = Append(TxQueue, frame)
  <2>1. /\ n \in Nat \ {0, 1} /\ a \in 0..n - 1 /\ k \in 0..n - 1
        /\ f \in Contents(n) /\ frame \in Slots
    BY <1>2, <1>3, <1>14 DEF Slots
  <2>2. Queue(Put(f, Wrap(a + k, n), frame), a, k + 1, n) = Append(Queue(f, a, k, n), frame)
    BY <2>1, QueuePush
  <2>3. k \in 0..n
    BY <2>1, SMT
  <2>4. Len(Queue(f, a, k, n)) = k
    BY <2>1, <2>3, QueueIs
  <2> QED  BY <1>2, <1>11, <1>13, <1>14, <2>2, <2>4
<1>16. k < n
  BY <1>2, <1>3, SMT
<1> QED  BY <1>1, <1>10, <1>15, <1>16

\* The card sends the oldest outstanding frame.
LEMMA TxPop ==
  ASSUME TxInv, CardSends
  PROVE  /\ TxInv'
         /\ TxQueue # <<>> /\ TxQueue \in Seq(Slots)
         /\ TxQueue' = Tail(TxQueue)
<1>1. PICK n, k, a, f, S :
        /\ n = TX_DESC_COUNT /\ k = Outstanding /\ a = tdh
        /\ f = RingFrames(tx_descs, n)
        /\ S = {i \in TxRing : ~tx_descs[i].dd}
  OBVIOUS
<1>2. /\ n \in Nat \ {0, 1} /\ a \in 0..n - 1 /\ k \in 0..n /\ tx_cur = Wrap(a + k, n)
      /\ S = Arc(a, k, n) /\ k = Cardinality(S) /\ TxRing = 0..n - 1
  BY <1>1, TxCount, E1000Assumption DEF TxInv, Outstanding, TxRing
<1>3. k \in 1..n
  <2>1. SUFFICES k # 0
    BY <1>2, SMT
  <2>2. SUFFICES ASSUME k = 0 PROVE FALSE
    OBVIOUS
  <2>3. Wrap(a + 0, n) = a
    BY <1>2, SMT DEF Wrap
  <2> QED  BY <1>1, <1>2, <2>2, <2>3 DEF TxInv, CardSends
<1>4. a \in S /\ Arc(Wrap(a + 1, n), k - 1, n) = S \ {a}
  BY <1>2, <1>3, ArcPop
<1>5. /\ tx_descs' = Mark(tx_descs, a, TRUE)
      /\ tdh' = Wrap(a + 1, n) /\ Wrap(a + 1, n) \in 0..n - 1
      /\ tx_cur' = tx_cur /\ tdt' = tdt
  BY <1>1, <1>2, NextPlace DEF CardSends, Mark
<1>6. /\ tx_descs' \in Descs(n) /\ tx_descs \in Descs(n)
      /\ \A i \in 0..n - 1 : tx_descs'[i].dd = IF i = a THEN TRUE ELSE tx_descs[i].dd
      /\ RingFrames(tx_descs', n) = RingFrames(tx_descs, n)
      /\ RingFrames(tx_descs, n) \in Contents(n)
  <2>1. tx_descs \in Descs(n) /\ TRUE \in BOOLEAN
    BY <1>1 DEF TxInv
  <2>2. /\ Mark(tx_descs, a, TRUE) \in Descs(n)
        /\ \A i \in 0..n - 1 : Mark(tx_descs, a, TRUE)[i].dd = IF i = a THEN TRUE ELSE tx_descs[i].dd
        /\ RingFrames(Mark(tx_descs, a, TRUE), n) = RingFrames(tx_descs, n)
        /\ RingFrames(tx_descs, n) \in Contents(n)
    BY <1>2, <2>1, Marked
  <2>3. tx_descs' = Mark(tx_descs, a, TRUE)
    BY <1>5
  <2> QED  BY <2>1, <2>2, <2>3
<1>7. {i \in TxRing : ~tx_descs'[i].dd} = S \ {a}
  <2>1. \A i \in 0..n - 1 : ~tx_descs'[i].dd <=> ~tx_descs[i].dd /\ i # a
    BY <1>6
  <2> QED  BY <1>1, <1>2, <2>1
<1>8. Outstanding' = k - 1
  <2>1. S \subseteq 0..n - 1
    BY <1>1, <1>2
  <2> QED  BY <1>2, <1>4, <1>7, <2>1, Count DEF Outstanding
<1>9. tx_cur' = Wrap(tdh' + Outstanding', n)
  BY <1>2, <1>3, <1>5, <1>8, WrapWrap
<1>10. TxInv'
  BY <1>1, <1>2, <1>4, <1>5, <1>6, <1>7, <1>8, <1>9 DEF TxInv, TxRing
<1>11. TxQueue = Queue(f, a, k, n)
  <2>1. Behind(tx_descs, Wrap(a + k, n), k, n) = Queue(RingFrames(tx_descs, n), a, k, n)
    BY <1>2, TxQueueAs
  <2>2. TxQueue = Behind(tx_descs, tx_cur, k, n)
    BY <1>1 DEF TxQueue, Behind
  <2> QED  BY <1>1, <1>2, <2>1, <2>2
<1>12. PICK g : g = RingFrames(tx_descs', n)
  OBVIOUS
<1>13. TxQueue' = Queue(g, Wrap(a + 1, n), k - 1, n)
  <2>1. k - 1 \in 0..n
    BY <1>2, <1>3, SMT
  <2>2. TxQueue' = Behind(tx_descs', tx_cur', k - 1, n)
    BY <1>1, <1>8 DEF TxQueue, Behind
  <2>3. tx_cur' = Wrap(Wrap(a + 1, n) + (k - 1), n)
    BY <1>5, <1>8, <1>9
  <2>4. Behind(tx_descs', Wrap(Wrap(a + 1, n) + (k - 1), n), k - 1, n)
          = Queue(RingFrames(tx_descs', n), Wrap(a + 1, n), k - 1, n)
    BY <1>2, <1>5, <2>1, TxQueueAs
  <2> QED  BY <1>12, <2>2, <2>3, <2>4
<1>14. f \in Contents(n) /\ g = f
  BY <1>1, <1>6, <1>12
<1>15. /\ TxQueue \in Seq(Slots) /\ Len(TxQueue) = k
       /\ TxQueue' = Tail(TxQueue)
  <2>1. /\ Queue(f, a, k, n) \in Seq(Slots) /\ Len(Queue(f, a, k, n)) = k
        /\ Queue(f, Wrap(a + 1, n), k - 1, n) = Tail(Queue(f, a, k, n))
    BY <1>2, <1>3, <1>14, QueuePop
  <2> QED  BY <1>11, <1>13, <1>14, <2>1
<1>16. TxQueue # <<>>
  BY <1>3, <1>15, SMT
<1> QED  BY <1>10, <1>15, <1>16

\* receive_raw takes the oldest ready frame and gives its descriptor back.
LEMMA RxPop ==
  ASSUME RxInv, receive_raw
  PROVE  /\ RxInv'
         /\ RxQueue # <<>>
         /\ RxQueue' = Tail(RxQueue)
<1>1. PICK n, k, a, f, S :
        /\ n = RX_DESC_COUNT /\ k = Ready /\ a = rx_cur
        /\ f = RingFrames(rx_descs, n)
        /\ S = {i \in RxRing : rx_descs[i].dd}
  OBVIOUS
<1>2. /\ n \in Nat \ {0, 1} /\ a \in 0..n - 1 /\ k \in 0..n /\ k <= n - 1
      /\ rdh = Wrap(a + k, n)
      /\ S = Arc(a, k, n) /\ k = Cardinality(S) /\ RxRing = 0..n - 1
  BY <1>1, RxCount, E1000Assumption DEF RxInv, Ready, RxRing
<1>3. k \in 1..n
  <2>1. SUFFICES k # 0
    BY <1>2, SMT
  <2>2. SUFFICES ASSUME k = 0 PROVE FALSE
    OBVIOUS
  <2>3. a \in S
    BY <1>1, <1>2 DEF receive_raw
  <2> QED  BY <1>2, <2>2, <2>3, ArcFull
<1>4. a \in S /\ Arc(Wrap(a + 1, n), k - 1, n) = S \ {a}
  BY <1>2, <1>3, ArcPop
<1>5. /\ rx_descs' = Mark(rx_descs, a, FALSE)
      /\ rx_cur' = Wrap(a + 1, n) /\ Wrap(a + 1, n) \in 0..n - 1
      /\ rdt' = a /\ rdh' = rdh
  BY <1>1, <1>2, NextPlace DEF receive_raw, Mark
<1>6. /\ rx_descs' \in Descs(n) /\ rx_descs \in Descs(n)
      /\ \A i \in 0..n - 1 : rx_descs'[i].dd = IF i = a THEN FALSE ELSE rx_descs[i].dd
      /\ RingFrames(rx_descs', n) = RingFrames(rx_descs, n)
      /\ RingFrames(rx_descs, n) \in Contents(n)
  <2>1. rx_descs \in Descs(n) /\ FALSE \in BOOLEAN
    BY <1>1 DEF RxInv
  <2>2. /\ Mark(rx_descs, a, FALSE) \in Descs(n)
        /\ \A i \in 0..n - 1 : Mark(rx_descs, a, FALSE)[i].dd = IF i = a THEN FALSE ELSE rx_descs[i].dd
        /\ RingFrames(Mark(rx_descs, a, FALSE), n) = RingFrames(rx_descs, n)
        /\ RingFrames(rx_descs, n) \in Contents(n)
    BY <1>2, <2>1, Marked
  <2>3. rx_descs' = Mark(rx_descs, a, FALSE)
    BY <1>5
  <2> QED  BY <2>1, <2>2, <2>3
<1>7. {i \in RxRing : rx_descs'[i].dd} = S \ {a}
  <2>1. \A i \in 0..n - 1 : rx_descs'[i].dd <=> rx_descs[i].dd /\ i # a
    BY <1>6
  <2> QED  BY <1>1, <1>2, <2>1
<1>8. Ready' = k - 1
  <2>1. S \subseteq 0..n - 1
    BY <1>1, <1>2
  <2> QED  BY <1>2, <1>4, <1>7, <2>1, Count DEF Ready
<1>9. rdh' = Wrap(rx_cur' + Ready', n) /\ rdt' = Wrap(rx_cur' + (n - 1), n) /\ Ready' <= n - 1
  <2>1. Wrap(Wrap(a + 1, n) + (k - 1), n) = Wrap(a + k, n)
    BY <1>2, <1>3, WrapWrap
  <2>2. Wrap(Wrap(a + 1, n) + (n - 1), n) = a /\ k - 1 <= n - 1
    BY <1>2, SMT DEF Wrap
  <2> QED  BY <1>2, <1>5, <1>8, <2>1, <2>2
<1>10. RxInv'
  BY <1>1, <1>2, <1>4, <1>5, <1>6, <1>7, <1>8, <1>9 DEF RxInv, RxRing
<1>11. RxQueue = Queue(f, a, k, n)
  <2>1. Onward(rx_descs, a, k, n) = Queue(RingFrames(rx_descs, n), a, k, n)
    BY <1>2, RxQueueAs
  <2>2. RxQueue = Onward(rx_descs, a, k, n)
    BY <1>1 DEF RxQueue, Onward
  <2> QED  BY <1>1, <2>1, <2>2
<1>12. PICK g : g = RingFrames(rx_descs', n)
  OBVIOUS
<1>13. RxQueue' = Queue(g, Wrap(a + 1, n), k - 1, n)
  <2>1. k - 1 \in 0..n
    BY <1>2, <1>3, SMT
  <2>2. RxQueue' = Onward(rx_descs', Wrap(a + 1, n), k - 1, n)
    BY <1>1, <1>5, <1>8 DEF RxQueue, Onward
  <2>3. Onward(rx_descs', Wrap(a + 1, n), k - 1, n)
          = Queue(RingFrames(rx_descs', n), Wrap(a + 1, n), k - 1, n)
    BY <1>2, <1>5, <2>1, RxQueueAs
  <2> QED  BY <1>12, <2>2, <2>3
<1>14. f \in Contents(n) /\ g = f
  BY <1>1, <1>6, <1>12
<1>15. /\ RxQueue \in Seq(Slots) /\ Len(RxQueue) = k
       /\ RxQueue' = Tail(RxQueue)
  <2>1. /\ Queue(f, a, k, n) \in Seq(Slots) /\ Len(Queue(f, a, k, n)) = k
        /\ Queue(f, Wrap(a + 1, n), k - 1, n) = Tail(Queue(f, a, k, n))
    BY <1>2, <1>3, <1>14, QueuePop
  <2> QED  BY <1>11, <1>13, <1>14, <2>1
<1>16. RxQueue # <<>>
  BY <1>3, <1>15, SMT
<1> QED  BY <1>10, <1>15, <1>16

\* The card puts a frame behind the ready ones, short of the tail.
LEMMA RxPush ==
  ASSUME RxInv, NEW frame \in Frames, CardReceives(frame)
  PROVE  /\ RxInv'
         /\ Len(RxQueue) < RX_DESC_COUNT - 1
         /\ RxQueue' = Append(RxQueue, frame)
<1>1. PICK n, k, a, f, S :
        /\ n = RX_DESC_COUNT /\ k = Ready /\ a = rx_cur
        /\ f = RingFrames(rx_descs, n)
        /\ S = {i \in RxRing : rx_descs[i].dd}
  OBVIOUS
<1>2. /\ n \in Nat \ {0, 1} /\ a \in 0..n - 1 /\ k \in 0..n /\ k <= n - 1
      /\ rdh = Wrap(a + k, n) /\ rdt = Wrap(a + (n - 1), n)
      /\ S = Arc(a, k, n) /\ k = Cardinality(S) /\ RxRing = 0..n - 1
  BY <1>1, RxCount, E1000Assumption DEF RxInv, Ready, RxRing
<1>3. k # n - 1
  BY <1>2 DEF CardReceives
<1>4. k \in 0..n - 1 /\ k < n - 1 /\ k + 1 \in 0..n /\ k + 1 <= n - 1
  BY <1>2, <1>3, SMT
<1>5. rdh \in 0..n - 1 /\ rdh \notin S /\ Arc(a, k + 1, n) = S \cup {rdh}
  <2>1. /\ Wrap(a + k, n) \in 0..n - 1 /\ Wrap(a + k, n) \notin Arc(a, k, n)
        /\ Arc(a, k + 1, n) = Arc(a, k, n) \cup {Wrap(a + k, n)}
    BY <1>2, <1>4, ArcPush
  <2> QED  BY <1>2, <2>1
<1>6. /\ rx_descs' = Fill(rx_descs, rdh, TRUE, frame)
      /\ rdh' = Wrap(rdh + 1, n)
      /\ rx_cur' = rx_cur /\ rdt' = rdt
  BY <1>1, <1>2, <1>5, NextPlace DEF CardReceives, Fill
<1>7. /\ rx_descs' \in Descs(n) /\ rx_descs \in Descs(n)
      /\ \A i \in 0..n - 1 : rx_descs'[i].dd = IF i = rdh THEN TRUE ELSE rx_descs[i].dd
      /\ RingFrames(rx_descs', n) = Put(RingFrames(rx_descs, n), rdh, frame)
      /\ RingFrames(rx_descs, n) \in Contents(n)
  <2>1. rx_descs \in Descs(n) /\ TRUE \in BOOLEAN /\ rdh \in 0..n - 1
    BY <1>1, <1>5, <1>6 DEF RxInv
  <2>2. /\ Fill(rx_descs, rdh, TRUE, frame) \in Descs(n)
        /\ \A i \in 0..n - 1 : Fill(rx_descs, rdh, TRUE, frame)[i].dd = IF i = rdh THEN TRUE ELSE rx_descs[i].dd
        /\ RingFrames(Fill(rx_descs, rdh, TRUE, frame), n) = Put(RingFrames(rx_descs, n), rdh, frame)
        /\ RingFrames(rx_descs, n) \in Contents(n)
    BY <2>1, Filled
  <2>3. rx_descs' = Fill(rx_descs, rdh, TRUE, frame)
    BY <1>5, <1>6
  <2> QED  BY <2>1, <2>2, <2>3
<1>8. {i \in RxRing : rx_descs'[i].dd} = S \cup {rdh}
  <2>1. \A i \in 0..n - 1 : rx_descs'[i].dd <=> rx_descs[i].dd \/ i = rdh
    BY <1>7
  <2> QED  BY <1>1, <1>2, <1>5, <2>1
<1>9. Ready' = k + 1
  <2>1. S \subseteq 0..n - 1
    BY <1>1, <1>2
  <2> QED  BY <1>2, <1>5, <1>8, <2>1, Count, SMTT(40) DEF Ready
<1>10. rdh' = Wrap(rx_cur' + Ready', n)
  <2>1. Wrap(Wrap(a + k, n) + 1, n) = Wrap(a + (k + 1), n)
    BY <1>2, <1>4, SMT DEF Wrap
  <2> QED  BY <1>1, <1>2, <1>6, <1>9, <2>1
<1>11. RxInv'
  BY <1>1, <1>2, <1>4, <1>5, <1>6, <1>7, <1>8, <1>9, <1>10 DEF RxInv, RxRing
<1>12. RxQueue = Queue(f, a, k, n)
  <2>1. Onward(rx_descs, a, k, n) = Queue(RingFrames(rx_descs, n), a, k, n)
    BY <1>2, RxQueueAs
  <2>2. RxQueue = Onward(rx_descs, a, k, n)
    BY <1>1 DEF RxQueue, Onward
  <2> QED  BY <1>1, <2>1, <2>2
<1>13. PICK g : g = RingFrames(rx_descs', n)
  OBVIOUS
<1>14. RxQueue' = Queue(g, a, k + 1, n)
  <2>1. RxQueue' = Onward(rx_descs', a, k + 1, n)
    BY <1>1, <1>6, <1>9 DEF RxQueue, Onward
  <2>2. Onward(rx_descs', a, k + 1, n) = Queue(RingFrames(rx_descs', n), a, k + 1, n)
    BY <1>2, <1>4, RxQueueAs
  <2> QED  BY <1>13, <2>1, <2>2
<1>15. f \in Contents(n) /\ g = Put(f, rdh, frame)
  BY <1>1, <1>7, <1>13
<1>16. Len(RxQueue) = k /\ RxQueue' = Append(RxQueue, frame)
  <2>1. /\ n \in Nat \ {0, 1} /\ a \in 0..n - 1 /\ k \in 0..n - 1
        /\ f \in Contents(n) /\ frame \in Slots
    BY <1>2, <1>4, <1>15 DEF Slots
  <2>2. Queue(Put(f, Wrap(a + k, n), frame), a, k + 1, n) = Append(Queue(f, a, k, n), frame)
    BY <2>1, QueuePush
  <2>3. k \in 0..n
    BY <2>1, SMT
  <2>4. Len(Queue(f, a, k, n)) = k
    BY <2>1, <2>3, QueueIs
  <2> QED  BY <1>2, <1>12, <1>14, <1>15, <2>2, <2>4
<1> QED  BY <1>1, <1>4, <1>11, <1>16

-----------------------------------------------------------------------------
(* The steps of driver and card.                                             *)

\* A ring nobody touches stays as it is.
LEMMA TxSame ==
  ASSUME TxInv, UNCHANGED txVars
  PROVE  TxInv' /\ TxQueue' = TxQueue
  BY DEF TxInv, txVars, TxQueue, Outstanding

LEMMA RxSame ==
  ASSUME RxInv, UNCHANGED rxVars
  PROVE  RxInv' /\ RxQueue' = RxQueue
  BY DEF RxInv, rxVars, RxQueue, Ready

\* A full ring refuses.
LEMMA TxFull ==
  ASSUME TxInv, ~tx_descs[tx_cur].dd
  PROVE  ~(Len(TxQueue) < TX_DESC_COUNT)
<1>1. PICK n, k, a : n = TX_DESC_COUNT /\ k = Outstanding /\ a = tdh
  OBVIOUS
<1>2. /\ n \in Nat \ {0, 1} /\ a \in 0..n - 1 /\ k \in 0..n /\ tx_cur = Wrap(a + k, n)
      /\ {i \in TxRing : ~tx_descs[i].dd} = Arc(a, k, n) /\ TxRing = 0..n - 1
  BY <1>1, TxCount, E1000Assumption DEF TxInv, Outstanding, TxRing
<1>3. k = n
  <2>1. SUFFICES ASSUME k \in 0..n - 1 PROVE FALSE
    BY <1>2, SMT
  <2>2. tx_cur \in 0..n - 1 /\ tx_cur \notin Arc(a, k, n)
    <3>1. Wrap(a + k, n) \in 0..n - 1 /\ Wrap(a + k, n) \notin Arc(a, k, n)
      BY <1>2, <2>1, ArcPush
    <3> QED  BY <1>2, <3>1
  <2> QED  BY <1>2, <2>2
<1>4. Len(TxQueue) = k
  <2>1. TxQueue = [j \in 1..k |-> tx_descs[(tx_cur - k + j - 1) % n].frame]
    BY <1>1 DEF TxQueue
  <2> QED  BY <1>2, <2>1, SMT
<1> QED  BY <1>1, <1>2, <1>3, <1>4, SMT

\* A reply is queued, or dropped by a full ring (E1000TxToken::consume).
LEMMA Consumed ==
  ASSUME TxInv, NEW reply \in Frames \cup {NoFrame}, consume(reply)
  PROVE  TxInv' /\ TxQueue' = IF reply # NoFrame /\ Len(TxQueue) < TX_DESC_COUNT
                             THEN Append(TxQueue, reply) ELSE TxQueue
<1>1. CASE reply = NoFrame
  BY <1>1, TxSame DEF consume
<1>2. CASE reply # NoFrame /\ tx_descs[tx_cur].dd
  <2>1. reply \in Frames /\ transmit_raw(reply)
    BY <1>2 DEF consume
  <2> QED  BY <1>2, <2>1, TxPush
<1>3. CASE reply # NoFrame /\ ~tx_descs[tx_cur].dd
  <2>1. UNCHANGED txVars
    BY <1>3 DEF consume, transmit_raw
  <2> QED  BY <1>3, <2>1, TxSame, TxFull
<1> QED  BY <1>1, <1>2, <1>3

\* The rings start in order, and empty.
LEMMA InitIInv ==
  ASSUME Init
  PROVE  IInv /\ TxQueue = <<>> /\ RxQueue = <<>>
<1>1. TX_DESC_COUNT \in Nat \ {0, 1} /\ RX_DESC_COUNT \in Nat \ {0, 1}
  BY E1000Assumption
<1>2. {i \in TxRing : ~tx_descs[i].dd} = {} /\ {i \in RxRing : rx_descs[i].dd} = {}
  BY DEF Init, init_tx, init_rx
<1>3. Outstanding = 0 /\ Ready = 0
  BY <1>2, FS_EmptySet DEF Outstanding, Ready
<1>4. tx_descs \in Descs(TX_DESC_COUNT) /\ rx_descs \in Descs(RX_DESC_COUNT)
  BY DEF Init, init_tx, init_rx, Descs, Slots, TxRing, RxRing
<1>5. 0 \in 0..TX_DESC_COUNT - 1 /\ 0 \in 0..RX_DESC_COUNT - 1 /\ 0 <= RX_DESC_COUNT - 1
  BY <1>1, SMT
<1>6. /\ Wrap(0 + 0, TX_DESC_COUNT) = 0 /\ Wrap(0 + 0, RX_DESC_COUNT) = 0
      /\ Wrap(0 + (RX_DESC_COUNT - 1), RX_DESC_COUNT) = RX_DESC_COUNT - 1
  BY <1>1, SMT DEF Wrap
<1>7. Arc(0, 0, TX_DESC_COUNT) = {} /\ Arc(0, 0, RX_DESC_COUNT) = {}
  BY <1>1, <1>5, ArcFull
<1>8. TxInv
  BY <1>2, <1>3, <1>4, <1>5, <1>6, <1>7 DEF TxInv, Init, init_tx, TxRing
<1>9. RxInv
  BY <1>2, <1>3, <1>4, <1>5, <1>6, <1>7 DEF RxInv, Init, init_rx, RxRing
<1>10. TxQueue = <<>> /\ RxQueue = <<>>
  BY <1>3, SMT DEF TxQueue, RxQueue
<1> QED  BY <1>8, <1>9, <1>10 DEF IInv

\* Each step of driver and card keeps the invariant, and is one of the device.
LEMMA Step ==
  ASSUME IInv, [Next]_vars
  PROVE  IInv' /\ [Device!Next]_(Device!devVars)
<1>1. CASE UNCHANGED vars
  BY <1>1, TxSame, RxSame DEF vars, IInv, Device!devVars
<1>2. ASSUME NEW frame \in Frames, Transmit(frame)
      PROVE  IInv' /\ Device!Transmit(frame)
  <2>1. RxInv' /\ RxQueue' = RxQueue
    BY <1>2, RxSame DEF Transmit, IInv
  <2>2. TxInv' /\ Len(TxQueue) < TX_DESC_COUNT /\ TxQueue' = Append(TxQueue, frame)
    BY <1>2, TxPush DEF Transmit, IInv
  <2> QED  BY <2>1, <2>2, E1000Assumption DEF IInv, Device!Transmit, Device!Consume
<1>3. ASSUME NEW frame \in Frames, CardReceives(frame)
      PROVE  IInv' /\ Device!Inject(frame)
  <2>1. TxInv' /\ TxQueue' = TxQueue
    BY <1>3, TxSame DEF CardReceives, IInv
  <2>2. RxInv' /\ Len(RxQueue) < RX_DESC_COUNT - 1 /\ RxQueue' = Append(RxQueue, frame)
    BY <1>3, RxPush DEF IInv
  <2> QED  BY <2>1, <2>2 DEF IInv, Device!Inject
<1>4. ASSUME NEW reply \in Frames \cup {NoFrame}, Receive(reply)
      PROVE  IInv' /\ Device!Receive(reply)
  <2>1. RxInv' /\ RxQueue # <<>> /\ RxQueue' = Tail(RxQueue)
    BY <1>4, RxPop DEF Receive, IInv
  <2>2. TxInv' /\ TxQueue' = IF reply # NoFrame /\ Len(TxQueue) < TX_DESC_COUNT
                            THEN Append(TxQueue, reply) ELSE TxQueue
    BY <1>4, Consumed DEF Receive, IInv
  <2> QED  BY <2>1, <2>2 DEF IInv, Device!Receive, Device!Consume
<1>5. ASSUME CardSends
      PROVE  IInv' /\ Device!Drain
  <2>1. RxInv' /\ RxQueue' = RxQueue
    BY <1>5, RxSame DEF CardSends, IInv
  <2>2. /\ TxInv' /\ TxQueue # <<>> /\ TxQueue \in Seq(Slots)
        /\ TxQueue' = Tail(TxQueue)
    BY <1>5, TxPop DEF IInv
  <2>3. PICK q : q = TxQueue
    OBVIOUS
  <2>4. 1 \in 1..Len(q) /\ Tail(q) = SubSeq(q, 1 + 1, Len(q))
    BY <2>2, <2>3, SMT
  <2> QED  BY <2>1, <2>2, <2>3, <2>4 DEF IInv, Device!Drain
<1> QED  BY <1>1, <1>2, <1>3, <1>4, <1>5 DEF Next, Driver, Device!Next

-----------------------------------------------------------------------------
\* The invariant holds in every state.
LEMMA Invariance == Spec => []IInv
<1>1. Init => IInv
  BY InitIInv
<1>2. IInv /\ [Next]_vars => IInv'
  BY Step
<1> QED  BY <1>1, <1>2, PTL DEF Spec

\* DD, the driver's places and the registers agree, for rings of any size
\* (e1000.rs, transmit_raw and receive_raw).
THEOREM RingsAreInStep == Spec => []RingsAgree
<1>1. IInv => RingsAgree
  <2> SUFFICES ASSUME IInv PROVE RingsAgree
    OBVIOUS
  <2>1. PICK n, k, a : n = TX_DESC_COUNT /\ k = Outstanding /\ a = tdh
    OBVIOUS
  <2>2. n \in Nat \ {0, 1} /\ n \in Nat \ {0} /\ a \in 0..n - 1 /\ k \in 0..n /\ tdt = Wrap(a + k, n)
    BY <2>1, TxCount, E1000Assumption DEF IInv, TxInv, Outstanding, TxRing
  <2>3. (tdt - a) % n = k % n
    <3>1. PICK x : x = tdt - a
      OBVIOUS
    <3>2. /\ x \in Int /\ -n <= x /\ x < 2 * n /\ k \in Int /\ -n <= k /\ k < 2 * n
          /\ Wrap(x, n) = Wrap(k, n)
      BY <2>2, <3>1, SMT DEF Wrap
    <3> QED  BY <2>2, <3>1, <3>2, Mod
  <2>4. PICK m, l, b : m = RX_DESC_COUNT /\ l = Ready /\ b = rx_cur
    OBVIOUS
  <2>5. /\ m \in Nat \ {0, 1} /\ m \in Nat \ {0} /\ b \in 0..m - 1 /\ l \in 0..m /\ l <= m - 1
        /\ rdh = Wrap(b + l, m) /\ rdt = Wrap(b + (m - 1), m)
    BY <2>4, RxCount, E1000Assumption DEF IInv, RxInv, Ready, RxRing
  <2>6. (rdt - rdh) % m = m - 1 - l
    <3>1. PICK x : x = rdt - rdh
      OBVIOUS
    <3>2. x \in Int /\ -m <= x /\ x < 2 * m /\ Wrap(x, m) = m - 1 - l
      BY <2>5, <3>1, SMT DEF Wrap
    <3> QED  BY <2>5, <3>1, <3>2, Mod
  <2>7. rdh = (b + l) % m
    <3>1. b + l \in Int /\ -m <= b + l /\ b + l < 2 * m
      BY <2>5, SMT
    <3> QED  BY <2>5, <3>1, Mod
  <2> QED  BY <2>1, <2>3, <2>4, <2>6, <2>7 DEF RingsAgree, Ahead, IInv, TxInv
<1> QED  BY <1>1, Invariance, PTL

\* Driver and card together are a network device, for rings of any size: no frame
\* is overwritten, doubled or reordered, and only a full ring drops a reply
\* (e1000.rs, net/mod.rs).
THEOREM DriverRefinesDevice == Spec => ImplementsDevice
<1>1. Init => Device!Init
  BY InitIInv DEF Device!Init
<1>2. IInv /\ [Next]_vars => [Device!Next]_(Device!devVars)
  BY Step
<1> QED  BY <1>1, <1>2, Invariance, PTL DEF Spec, ImplementsDevice, Device!Spec
=============================================================================
