-------------------------- MODULE ThreadPool_proofs --------------------------
(***************************************************************************)
(* What an asynchronous logger accepts is delivered, in the order of the   *)
(* queue, and the pool's destructor leaves nothing behind                  *)
(* (thread_pool-inl.h, async_logger-inl.h, mpmc_blocking_q.h,              *)
(* circular_q.h).                                                          *)
(*                                                                         *)
(* The first part is about the circular queue by itself.  The second shows *)
(* that the pool's queue is the bounded channel its users count on.        *)
(* PoolInv says why: while anybody can post a message of another kind than *)
(* the terminate message, he holds the pool, and the terminate messages    *)
(* are posted by the destructor of a pool nobody holds.  The third follows *)
(* each message to the sinks and to the end of the pool.                   *)
(***************************************************************************)
EXTENDS ThreadPool, FunctionTheorems, FiniteSetTheorems, TLAPS

-----------------------------------------------------------------------------
(* The circular queue holds, at every size, the sequence it is meant to    *)
(* hold: a push appends, a push into a full queue also drops the oldest    *)
(* item and counts it, and a pop takes the oldest (circular_q.h).          *)
(*                                                                         *)
(* The argument is first about numbers: a slot's number is a sum below     *)
(* twice the number of slots, so % subtracts that number at most once, and *)
(* a step of the head or the tail moves every item by one or by none.      *)

\* The slot i places behind slot h in a circle of n, and the number of places
\* from slot h to slot t.
Ahead(h, i, n) == IF h + i < n THEN h + i ELSE h + i - n
Gap(h, t, n) == IF t >= h THEN t - h ELSE n - (h - t)

LEMMA ModIsAhead ==
  ASSUME NEW n \in Nat, NEW h \in Nat, NEW i \in Nat, h < n, i <= n
  PROVE  (h + i) % n = Ahead(h, i, n)
BY DEF Ahead

LEMMA AheadInCircle ==
  ASSUME NEW n \in Nat, NEW h \in Nat, NEW i \in Nat, h < n, i <= n
  PROVE  Ahead(h, i, n) \in Nat /\ Ahead(h, i, n) < n
BY DEF Ahead

LEMMA GapInCircle ==
  ASSUME NEW n \in Nat, NEW h \in Nat, NEW t \in Nat, h < n, t < n
  PROVE  /\ Gap(h, t, n) \in Nat /\ Gap(h, t, n) < n
         /\ Gap(h, t, n) = 0 <=> t = h
         /\ Gap(h, t, n) = n - 1 <=> Ahead(t, 1, n) = h
         /\ Ahead(h, Gap(h, t, n), n) = t
BY DEF Gap, Ahead

\* The tail goes one place on.
LEMMA TailGoesOn ==
  ASSUME NEW n \in Nat, NEW h \in Nat, NEW t \in Nat, h < n, t < n,
         Ahead(t, 1, n) # h
  PROVE  /\ Gap(h, Ahead(t, 1, n), n) = Gap(h, t, n) + 1
         /\ \A i \in Nat : i < Gap(h, t, n) => Ahead(h, i, n) # t
BY DEF Gap, Ahead

\* The head goes one place on.
LEMMA HeadGoesOn ==
  ASSUME NEW n \in Nat, NEW h \in Nat, NEW t \in Nat, h < n, t < n, t # h
  PROVE  Gap(Ahead(h, 1, n), t, n) = Gap(h, t, n) - 1
BY DEF Gap, Ahead

LEMMA AheadOfNext ==
  ASSUME NEW n \in Nat, NEW h \in Nat, NEW i \in Nat, NEW j \in Nat,
         h < n, j < n, j = i + 1
  PROVE  /\ Ahead(Ahead(h, 1, n), i, n) = Ahead(h, j, n)
         /\ Ahead(h, j, n) # h
BY DEF Ahead

-----------------------------------------------------------------------------
(* The same of a queue.                                                    *)

LEMMA Fields ==
  ASSUME NEW Item, NEW c, IsCircQ(c, Item)
  PROVE  /\ c.max_items \in Nat /\ c.head \in Nat /\ c.tail \in Nat /\ c.overrun \in Nat
         /\ c.head < c.max_items /\ c.tail < c.max_items
         /\ c.v \in [0 .. (c.max_items - 1) -> Item \cup {Moved}]
BY DEF IsCircQ

LEMMA NextSlotIs ==
  ASSUME NEW Item, NEW c, IsCircQ(c, Item), NEW i \in Nat, i < c.max_items
  PROVE  /\ NextSlot(i, c) = Ahead(i, 1, c.max_items)
         /\ NextSlot(i, c) \in Nat /\ NextSlot(i, c) < c.max_items
<1>1. c.max_items \in Nat /\ 1 <= c.max_items
  BY Fields
<1>2. (i + 1) % c.max_items = Ahead(i, 1, c.max_items)
  BY <1>1, ModIsAhead
<1>3. Ahead(i, 1, c.max_items) \in Nat /\ Ahead(i, 1, c.max_items) < c.max_items
  BY <1>1, AheadInCircle
<1> QED BY <1>2, <1>3 DEF NextSlot

LEMMA SizeIs ==
  ASSUME NEW Item, NEW c, IsCircQ(c, Item)
  PROVE  /\ Size(c) = Gap(c.head, c.tail, c.max_items)
         /\ Size(c) \in Nat /\ Size(c) < c.max_items
         /\ Empty(c) <=> Size(c) = 0
         /\ Full(c) <=> Ahead(c.tail, 1, c.max_items) = c.head
         /\ Full(c) <=> Size(c) = c.max_items - 1
<1>0. /\ c.max_items \in Nat /\ c.head \in Nat /\ c.tail \in Nat /\ c.overrun \in Nat
      /\ c.head < c.max_items /\ c.tail < c.max_items
  BY Fields
<1>1. Size(c) = Gap(c.head, c.tail, c.max_items)
  BY DEF Size, Gap
<1>2. NextSlot(c.tail, c) = Ahead(c.tail, 1, c.max_items)
  BY <1>0, NextSlotIs
<1>3. Full(c) <=> Ahead(c.tail, 1, c.max_items) = c.head
  BY <1>0, <1>2 DEF Full
<1>4. Empty(c) <=> c.tail = c.head
  BY DEF Empty
<1>5. Size(c) \in Nat /\ Size(c) < c.max_items
  BY <1>0, <1>1, GapInCircle
<1>6. Empty(c) <=> Size(c) = 0
  BY <1>0, <1>1, <1>4 DEF Gap
<1>7. Full(c) <=> Size(c) = c.max_items - 1
  <2> DEFINE n == c.max_items  h == c.head  t == c.tail
  <2>1. n \in Nat /\ h \in Nat /\ t \in Nat /\ h < n /\ t < n
    BY <1>0
  <2> HIDE DEF n, h, t
  <2>2. Gap(h, t, n) = n - 1 <=> Ahead(t, 1, n) = h
    BY <2>1, GapInCircle
  <2> QED BY <2>2, <1>1, <1>3 DEF n, h, t
<1> QED BY <1>1, <1>3, <1>5, <1>6, <1>7

\* The slot of the item behind i others.
Slot(c, i) == Ahead(c.head, i, c.max_items)

LEMMA SlotIs ==
  ASSUME NEW Item, NEW c, IsCircQ(c, Item), NEW i \in Nat, i < c.max_items
  PROVE  /\ Slot(c, i) \in 0 .. (c.max_items - 1)
         /\ At(c, i) = c.v[Slot(c, i)]
<1>0. /\ c.max_items \in Nat /\ c.head \in Nat /\ c.tail \in Nat /\ c.overrun \in Nat
      /\ c.head < c.max_items /\ c.tail < c.max_items
  BY Fields
<1>1. (c.head + i) % c.max_items = Ahead(c.head, i, c.max_items)
  BY <1>0, ModIsAhead
<1>2. Ahead(c.head, i, c.max_items) \in Nat /\ Ahead(c.head, i, c.max_items) < c.max_items
  BY <1>0, AheadInCircle
<1>3. At(c, i) = c.v[Slot(c, i)]
  BY <1>1 DEF At, Slot
<1>4. Slot(c, i) \in 0 .. (c.max_items - 1)
  BY <1>0, <1>2 DEF Slot
<1> QED BY <1>3, <1>4

LEMMA ItemAt ==
  ASSUME NEW Item, NEW c, IsCircQ(c, Item), NEW i \in Nat, NEW j, j = i + 1,
         i < Size(c)
  PROVE  /\ j \in 1 .. Size(c)
         /\ Contents(c)[j] = c.v[Slot(c, i)]
         /\ Contents(c)[j] \in Item \cup {Moved}
<1>1. Size(c) \in Nat /\ Size(c) < c.max_items /\ c.max_items \in Nat
  BY SizeIs, Fields
<1>2. i < c.max_items /\ j \in 1 .. Size(c) /\ j - 1 = i
  BY <1>1
<1>3. Contents(c)[j] = At(c, i)
  BY <1>2 DEF Contents
<1>4. At(c, i) = c.v[Slot(c, i)] /\ Slot(c, i) \in 0 .. (c.max_items - 1)
  BY <1>2, SlotIs
<1>5. c.v[Slot(c, i)] \in Item \cup {Moved}
  BY <1>4, Fields
<1> QED BY <1>2, <1>3, <1>4, <1>5

LEMMA ContentsIs ==
  ASSUME NEW Item, NEW c, IsCircQ(c, Item)
  PROVE  /\ Contents(c) \in Seq(Item \cup {Moved})
         /\ Len(Contents(c)) = Size(c)
<1>1. Size(c) \in Nat
  BY SizeIs
<1>2. ASSUME NEW j \in 1 .. Size(c)
      PROVE  Contents(c)[j] \in Item \cup {Moved}
  <2>1. j - 1 \in Nat /\ j - 1 < Size(c) /\ j = (j - 1) + 1
    BY <1>1
  <2> QED BY <2>1, ItemAt
<1>3. Contents(c) \in [1 .. Size(c) -> Item \cup {Moved}]
  <2>1. Contents(c) = [j \in 1 .. Size(c) |-> Contents(c)[j]]
    BY DEF Contents
  <2> QED BY <2>1, <1>2
<1> QED BY <1>1, <1>3

-----------------------------------------------------------------------------
(* The operations.  Each is stated first of a queue r that relates to c as *)
(* the operation's result does.                                            *)

LEMMA EachItem ==
  ASSUME NEW Item, NEW c, IsCircQ(c, Item)
  PROVE  \A i \in Nat : i < Size(c) =>
           /\ Contents(c)[i + 1] = c.v[Slot(c, i)]
           /\ Contents(c)[i + 1] \in Item \cup {Moved}
BY ItemAt

\* r is c with x behind its last item.
WithLast(c, r, x) ==
  /\ r.max_items = c.max_items /\ r.head = c.head
  /\ r.tail = NextSlot(c.tail, c) /\ r.v = [c.v EXCEPT ![c.tail] = x]

\* r is c without its first item, whose slot now holds x.
WithoutFirst(c, r, x) ==
  /\ r.max_items = c.max_items /\ r.head = NextSlot(c.head, c)
  /\ r.tail = c.tail /\ r.v = [c.v EXCEPT ![c.head] = x]

LEMMA Appended ==
  ASSUME NEW Item, NEW c, IsCircQ(c, Item), NEW r, IsCircQ(r, Item),
         NEW x, ~Full(c), WithLast(c, r, x)
  PROVE  Contents(r) = Append(Contents(c), x)
<1>0. /\ c.max_items \in Nat /\ c.head \in Nat /\ c.tail \in Nat /\ c.overrun \in Nat
      /\ c.head < c.max_items /\ c.tail < c.max_items
      /\ c.v \in [0 .. (c.max_items - 1) -> Item \cup {Moved}]
  BY Fields
<1> DEFINE n == c.max_items  h == c.head  t == c.tail  s == Size(c)
<1>1. n \in Nat /\ h \in Nat /\ t \in Nat /\ h < n /\ t < n
  BY <1>0
<1>2. s \in Nat /\ s < n /\ s = Gap(h, t, n) /\ Ahead(t, 1, n) # h
  BY SizeIs
<1>3. r.tail = Ahead(t, 1, n)
  BY <1>1, NextSlotIs DEF WithLast
<1>4. Size(r) = Gap(h, Ahead(t, 1, n), n)
  BY <1>3, SizeIs DEF WithLast
<1>5. ASSUME NEW i \in Nat
      PROVE  Slot(c, i) = Ahead(h, i, n) /\ Slot(r, i) = Ahead(h, i, n)
  BY DEF Slot, WithLast
<1> HIDE DEF n, h, t
<1>6. /\ Gap(h, Ahead(t, 1, n), n) = s + 1
      /\ \A i \in Nat : i < s => Ahead(h, i, n) # t
      /\ Ahead(h, s, n) = t
  BY <1>1, <1>2, TailGoesOn, GapInCircle
<1> USE DEF n, h, t
<1> HIDE DEF s
<1>7. ASSUME NEW i \in Nat, i < s
      PROVE  Contents(r)[i + 1] = Contents(c)[i + 1]
  <2>1. i < Size(c) /\ i < Size(r) /\ i < c.max_items
    BY <1>1, <1>2, <1>4, <1>6, <1>7 DEF s
  <2>2. Contents(c)[i + 1] = c.v[Slot(c, i)] /\ Contents(r)[i + 1] = r.v[Slot(r, i)]
    BY <2>1, EachItem
  <2>3. Slot(c, i) # c.tail /\ Slot(c, i) \in 0 .. (c.max_items - 1)
    BY <2>1, <1>5, <1>6, <1>7, SlotIs
  <2>4. r.v[Slot(c, i)] = c.v[Slot(c, i)]
    BY <2>3, <1>0 DEF WithLast
  <2> QED BY <2>2, <2>4, <1>5
<1>8. Contents(r)[s + 1] = x /\ x \in Item \cup {Moved}
  <2>1. s < Size(r)
    BY <1>2, <1>4, <1>6
  <2>2. /\ Contents(r)[s + 1] = r.v[Slot(r, s)]
        /\ Contents(r)[s + 1] \in Item \cup {Moved}
    BY <2>1, <1>2, EachItem
  <2>3. Slot(r, s) = c.tail
    BY <1>2, <1>5, <1>6
  <2>4. r.v[c.tail] = x
    BY <1>0 DEF WithLast
  <2> QED BY <2>2, <2>3, <2>4
<1>9. /\ Contents(c) \in Seq(Item \cup {Moved}) /\ Len(Contents(c)) = s
      /\ Contents(r) \in Seq(Item \cup {Moved}) /\ Len(Contents(r)) = s + 1
  BY <1>4, <1>6, ContentsIs DEF s
<1>10. ASSUME NEW j \in 1 .. s
       PROVE  Contents(r)[j] = Contents(c)[j]
  <2>1. j - 1 \in Nat /\ j - 1 < s /\ (j - 1) + 1 = j
    BY <1>2
  <2>2. Contents(r)[(j - 1) + 1] = Contents(c)[(j - 1) + 1]
    BY <2>1, <1>7
  <2> QED BY <2>1, <2>2
<1> QED
  <2>1. \A j \in 1 .. s : Contents(r)[j] = Contents(c)[j]
    BY <1>10
  <2> QED BY <2>1, <1>2, <1>8, <1>9

LEMMA Taken ==
  ASSUME NEW Item, NEW c, IsCircQ(c, Item), NEW r, IsCircQ(r, Item),
         NEW x, ~Empty(c), WithoutFirst(c, r, x)
  PROVE  /\ Contents(c) # <<>>
         /\ FrontItem(c) = Contents(c)[1]
         /\ Contents(r) = Tail(Contents(c))
<1>0. /\ c.max_items \in Nat /\ c.head \in Nat /\ c.tail \in Nat /\ c.overrun \in Nat
      /\ c.head < c.max_items /\ c.tail < c.max_items
      /\ c.v \in [0 .. (c.max_items - 1) -> Item \cup {Moved}]
  BY Fields
<1> DEFINE n == c.max_items  h == c.head  t == c.tail  s == Size(c)
<1>1. n \in Nat /\ h \in Nat /\ t \in Nat /\ h < n /\ t < n
  BY <1>0
<1>2. s \in Nat /\ s < n /\ s # 0 /\ s = Gap(h, t, n) /\ t # h
  BY SizeIs DEF Empty
<1>3. r.head = Ahead(h, 1, n)
  BY <1>1, NextSlotIs DEF WithoutFirst
<1>4. Size(r) = Gap(Ahead(h, 1, n), t, n)
  BY <1>3, SizeIs DEF WithoutFirst
<1>5. ASSUME NEW i \in Nat
      PROVE  /\ Slot(c, i) = Ahead(h, i, n)
             /\ Slot(r, i) = Ahead(Ahead(h, 1, n), i, n)
  BY <1>3 DEF Slot, WithoutFirst
<1> HIDE DEF n, h, t
<1>6. Gap(Ahead(h, 1, n), t, n) = s - 1
  BY <1>1, <1>2, HeadGoesOn
<1>7. ASSUME NEW i \in Nat, i + 1 < n
      PROVE  /\ Ahead(Ahead(h, 1, n), i, n) = Ahead(h, i + 1, n)
             /\ Ahead(h, i + 1, n) # h
  BY <1>1, <1>7, AheadOfNext
<1> USE DEF n, h, t
<1> HIDE DEF s
<1>8. ASSUME NEW i \in Nat, i + 1 < s
      PROVE  Contents(r)[i + 1] = Contents(c)[(i + 1) + 1]
  <2>1. i + 1 < Size(c) /\ i < Size(r) /\ i + 1 < c.max_items /\ i + 1 \in Nat
    BY <1>1, <1>2, <1>4, <1>6, <1>8 DEF s
  <2>2. /\ Contents(c)[(i + 1) + 1] = c.v[Slot(c, i + 1)]
        /\ Contents(r)[i + 1] = r.v[Slot(r, i)]
    BY <2>1, EachItem
  <2>3. /\ Slot(c, i + 1) # c.head /\ Slot(c, i + 1) \in 0 .. (c.max_items - 1)
        /\ Slot(r, i) = Slot(c, i + 1)
    BY <2>1, <1>5, <1>7, SlotIs
  <2>4. r.v[Slot(c, i + 1)] = c.v[Slot(c, i + 1)]
    BY <2>3, <1>0 DEF WithoutFirst
  <2> QED BY <2>2, <2>3, <2>4
<1>9. FrontItem(c) = Contents(c)[1]
  <2>1. Contents(c)[1] = c.v[Slot(c, 0)]
    BY <1>2, ItemAt DEF s
  <2>2. Slot(c, 0) = c.head
    BY <1>0 DEF Slot, Ahead
  <2> QED BY <2>1, <2>2 DEF FrontItem
<1>10. /\ Contents(c) \in Seq(Item \cup {Moved}) /\ Len(Contents(c)) = s
       /\ Contents(r) \in Seq(Item \cup {Moved}) /\ Len(Contents(r)) = s - 1
  BY <1>4, <1>6, ContentsIs DEF s
<1>11. ASSUME NEW j \in 1 .. (s - 1)
       PROVE  Contents(r)[j] = Contents(c)[j + 1]
  <2>1. j - 1 \in Nat /\ (j - 1) + 1 = j /\ (j - 1) + 1 < s
    BY <1>2
  <2>2. Contents(r)[(j - 1) + 1] = Contents(c)[((j - 1) + 1) + 1]
    BY <2>1, <1>8
  <2> QED BY <2>1, <2>2
<1>12. Contents(c) # <<>>
  BY <1>2, <1>10
<1>13. Contents(r) = Tail(Contents(c))
  <2>1. \A j \in 1 .. (s - 1) : Contents(r)[j] = Contents(c)[j + 1]
    BY <1>11
  <2> QED BY <2>1, <1>2, <1>10, <1>12
<1> QED BY <1>9, <1>12, <1>13

-----------------------------------------------------------------------------

\* c with its slots, tail, head and counter changed.
With(c, v, t, h, o) == [c EXCEPT !.v = v, !.tail = t, !.head = h, !.overrun = o]

\* A queue whose fields are changed within their bounds is one still.
LEMMA Changed ==
  ASSUME NEW Item, NEW c, IsCircQ(c, Item),
         NEW v \in [0 .. (c.max_items - 1) -> Item \cup {Moved}],
         NEW h \in Nat, h < c.max_items, NEW t \in Nat, t < c.max_items,
         NEW o \in Nat
  PROVE  /\ IsCircQ(With(c, v, t, h, o), Item)
         /\ With(c, v, t, h, o).max_items = c.max_items
         /\ With(c, v, t, h, o).head = h
         /\ With(c, v, t, h, o).tail = t
         /\ With(c, v, t, h, o).overrun = o
         /\ With(c, v, t, h, o).v = v
<1> DEFINE n == c.max_items  I == 0 .. n - 1  V == [I -> Item \cup {Moved}]
           r == With(c, v, t, h, o)
<1>1. c \in [max_items : {n}, overrun : Nat, head : I, tail : I, v : V] /\ n \in Nat \ {0}
  BY DEF IsCircQ
<1>2. h \in I /\ t \in I /\ v \in V
  BY <1>1
<1>3. n = c.max_items
  OBVIOUS
<1> HIDE DEF n, I, V
<1>4. r = [c EXCEPT !.v = v, !.tail = t, !.head = h, !.overrun = o]
  BY DEF With
<1> HIDE DEF r
<1>5. /\ r.max_items = n /\ r.head = h /\ r.tail = t /\ r.overrun = o /\ r.v = v
      /\ r \in [max_items : {n}, overrun : Nat, head : I, tail : I, v : V]
  BY <1>1, <1>2, <1>3, <1>4
<1>6. IsCircQ(r, Item)
  BY <1>1, <1>5 DEF IsCircQ, n, I, V
<1> QED BY <1>3, <1>5, <1>6 DEF r

\* A push into a queue that is not full appends.
THEOREM PushAppends ==
  ASSUME NEW Item, NEW c, IsCircQ(c, Item), NEW x \in Item, ~Full(c)
  PROVE  /\ IsCircQ(PushBack(c, x), Item)
         /\ PushBack(c, x).max_items = c.max_items
         /\ PushBack(c, x).overrun = c.overrun
         /\ Contents(PushBack(c, x)) = Append(Contents(c), x)
<1> DEFINE v == [c.v EXCEPT ![c.tail] = x]  t == NextSlot(c.tail, c)
           r == With(c, v, t, c.head, c.overrun)
<1>0. /\ c.max_items \in Nat /\ c.head \in Nat /\ c.tail \in Nat /\ c.overrun \in Nat
      /\ c.head < c.max_items /\ c.tail < c.max_items
      /\ c.v \in [0 .. (c.max_items - 1) -> Item \cup {Moved}]
  BY Fields
<1>1. t = Ahead(c.tail, 1, c.max_items) /\ t \in Nat /\ t < c.max_items
  BY <1>0, NextSlotIs
<1>2. t # c.head
  BY <1>0 DEF Full
<1>3. PushBack(c, x) = r
  BY <1>0, <1>2 DEF PushBack, Push, With, IsCircQ
<1>4. v \in [0 .. (c.max_items - 1) -> Item \cup {Moved}]
  BY <1>0
<1> HIDE DEF v, t
<1>4a. c.head \in Nat /\ c.head < c.max_items /\ c.overrun \in Nat
  BY <1>0
<1>5. /\ IsCircQ(r, Item)
      /\ r.max_items = c.max_items /\ r.head = c.head /\ r.tail = t
      /\ r.overrun = c.overrun /\ r.v = v
  BY <1>4a, <1>1, <1>4, Changed
<1> HIDE DEF r
<1>6. WithLast(c, r, x)
  BY <1>5 DEF WithLast, v, t
<1>7. Contents(r) = Append(Contents(c), x)
  BY <1>5, <1>6, Appended
<1> QED BY <1>3, <1>5, <1>7

\* A pop takes the oldest item, which has been moved out of its slot.
THEOREM PopTakesOldest ==
  ASSUME NEW Item, NEW c, IsCircQ(c, Item), ~Empty(c), NEW r,
         r = PopFront([c EXCEPT !.v = [@ EXCEPT ![c.head] = Moved]])
  PROVE  /\ IsCircQ(r, Item)
         /\ r.max_items = c.max_items
         /\ r.overrun = c.overrun
         /\ Contents(c) # <<>>
         /\ FrontItem(c) = Contents(c)[1]
         /\ Contents(r) = Tail(Contents(c))
<1> DEFINE v == [c.v EXCEPT ![c.head] = Moved]  h == NextSlot(c.head, c)
<1>0. /\ c.max_items \in Nat /\ c.head \in Nat /\ c.tail \in Nat /\ c.overrun \in Nat
      /\ c.head < c.max_items /\ c.tail < c.max_items
      /\ c.v \in [0 .. (c.max_items - 1) -> Item \cup {Moved}]
  BY Fields
<1>1. h = Ahead(c.head, 1, c.max_items) /\ h \in Nat /\ h < c.max_items
  BY <1>0, NextSlotIs
<1>2. r = With(c, v, c.tail, h, c.overrun)
  BY DEF PopFront, NextSlot, With, IsCircQ
<1>3. v \in [0 .. (c.max_items - 1) -> Item \cup {Moved}]
  BY <1>0
<1> HIDE DEF v, h
<1>4. /\ IsCircQ(r, Item)
      /\ r.max_items = c.max_items /\ r.head = h /\ r.tail = c.tail
      /\ r.overrun = c.overrun /\ r.v = v
  BY <1>0, <1>1, <1>2, <1>3, Changed
<1>5. WithoutFirst(c, r, Moved)
  BY <1>4 DEF WithoutFirst, v, h
<1> QED BY <1>4, <1>5, Taken

\* A push into a full queue drops the oldest item, counts it, and appends.  It
\* is a pop and then a push.
THEOREM PushOverruns ==
  ASSUME NEW Item, NEW c, IsCircQ(c, Item), NEW x \in Item, Full(c),
         c.max_items # 1
  PROVE  /\ IsCircQ(PushBack(c, x), Item)
         /\ PushBack(c, x).max_items = c.max_items
         /\ PushBack(c, x).overrun = c.overrun + 1
         /\ Contents(PushBack(c, x)) = Append(Tail(Contents(c)), x)
<1> DEFINE h == NextSlot(c.head, c)
           v == [c.v EXCEPT ![c.tail] = x]
           o == c.overrun + 1
           r == With(c, v, c.head, h, o)
           \* the queue in between
           m == With(c, c.v, c.tail, h, o)
<1>0. /\ c.max_items \in Nat /\ c.head \in Nat /\ c.tail \in Nat /\ c.overrun \in Nat
      /\ c.head < c.max_items /\ c.tail < c.max_items
      /\ c.v \in [0 .. (c.max_items - 1) -> Item \cup {Moved}]
  BY Fields
<1>1. /\ h = Ahead(c.head, 1, c.max_items) /\ h \in Nat /\ h < c.max_items
      /\ NextSlot(c.tail, c) = c.head
      /\ c.head = Ahead(c.tail, 1, c.max_items)
  BY <1>0, NextSlotIs DEF Full
<1>2. PushBack(c, x) = r
  BY <1>0, <1>1 DEF PushBack, Push, With, IsCircQ
<1>3. /\ v \in [0 .. (c.max_items - 1) -> Item \cup {Moved}]
      /\ o \in Nat
  BY <1>0
<1> HIDE DEF v, h, o, r, m
<1>4a. /\ c.head \in Nat /\ c.head < c.max_items
      /\ h \in Nat /\ h < c.max_items
      /\ c.tail \in Nat /\ c.tail < c.max_items
      /\ c.v \in [0 .. (c.max_items - 1) -> Item \cup {Moved}]
  BY <1>0, <1>1
<1>4. /\ IsCircQ(r, Item)
      /\ r.max_items = c.max_items /\ r.head = h /\ r.tail = c.head
      /\ r.overrun = o /\ r.v = v
  <2>1. LET s == With(c, v, c.head, h, o)
        IN  /\ IsCircQ(s, Item)
            /\ s.max_items = c.max_items /\ s.head = h /\ s.tail = c.head
            /\ s.overrun = o /\ s.v = v
    BY <1>4a, <1>3, Changed
  <2> QED BY <2>1 DEF r
<1>4b. /\ c.tail \in Nat /\ c.tail < c.max_items
      /\ h \in Nat /\ h < c.max_items /\ o \in Nat
      /\ c.v \in [0 .. (c.max_items - 1) -> Item \cup {Moved}]
  BY <1>4a, <1>3
<1>5. /\ IsCircQ(m, Item)
      /\ m.max_items = c.max_items /\ m.head = h /\ m.tail = c.tail
      /\ m.overrun = o /\ m.v = c.v
  <2>1. LET s == With(c, c.v, c.tail, h, o)
        IN  /\ IsCircQ(s, Item)
            /\ s.max_items = c.max_items /\ s.head = h /\ s.tail = c.tail
            /\ s.overrun = o /\ s.v = c.v
    BY <1>4b, Changed
  <2> QED BY <2>1 DEF m
<1>6. c.head # c.tail /\ h # c.head
  BY <1>0, <1>1 DEF Ahead
<1>7. WithoutFirst(c, m, c.v[c.head])
  <2>1. c.v = [c.v EXCEPT ![c.head] = c.v[c.head]]
    BY <1>0
  <2> QED BY <1>5, <2>1 DEF WithoutFirst, h
<1>8. Contents(m) = Tail(Contents(c))
  BY <1>5, <1>6, <1>7, Taken DEF Empty
<1>9. ~Full(m)
  <2>1. NextSlot(m.tail, m) = NextSlot(c.tail, c)
    BY <1>5 DEF NextSlot
  <2> QED BY <2>1, <1>1, <1>5, <1>6 DEF Full
<1>10. WithLast(m, r, x)
  <2>1. NextSlot(m.tail, m) = c.head
    BY <1>1, <1>5 DEF NextSlot
  <2> QED BY <2>1, <1>4, <1>5 DEF WithLast, v
<1>11. Contents(r) = Append(Contents(m), x)
  BY <1>4, <1>5, <1>9, <1>10, Appended
<1> QED BY <1>2, <1>4, <1>8, <1>11 DEF o

-----------------------------------------------------------------------------
(* The pool.                                                               *)

\* In a call, or posting a terminate message.

Active == {"post", "waiting", "notify", "discard", "posted"}
PcValues == {"construct", "owner", "aborted", "done", "idle", "post", "waiting",
             "notify", "discard", "posted", "destroy", "join"}
Policies == {"block", "overrun_oldest", "discard_new"}

Types ==
  /\ IsCircQ(q, Message) /\ q.max_items = Capacity + 1
  /\ policy \in [Producers -> Policies]
  /\ refs \subseteq Actors
  /\ pc \in [Actors -> PcValues]
  /\ msg \in [Actors -> Message \cup {Nothing}]

\* A producer in a call holds the pool, and its message is its own.
CallersHold ==
  \A p \in Producers : pc[p] \in Active /\ msg[p] # Terminate =>
    p \in refs /\ msg[p] \in Posts /\ msg[p].by = p

\* Main posts nothing but terminate messages.
MainOnlyStops == pc[Main] \in Active => msg[Main] = Terminate

\* Until it has made the pool Main alone holds it.
MadeByMain == pc[Main] = "construct" => refs = {Main}

HasStop == \E i \in DOMAIN Contents(q) : Contents(q)[i] = Terminate

\* The pool is ended when nobody holds it.
EndedUnheld ==
  (HasStop \/ \E a \in Actors : msg[a] = Terminate \/ pc[a] = "destroy") => refs = {}

PoolInv ==
  Types /\ CallersHold /\ MainOnlyStops /\ MadeByMain /\ EndedUnheld

-----------------------------------------------------------------------------

LEMMA ConstantsAre ==
  /\ Main \notin Producers /\ Capacity \in Nat \ {0}
  /\ Nothing \notin Message /\ Moved \notin Message
  /\ \A s \in Setups : s.policy \in [Producers -> Policies]
BY PoolAssumption DEF Policies

LEMMA StopIsNoPost == Terminate \notin Posts /\ Posts \subseteq Message /\ Terminate \in Message
<1>1. \A m \in Posts : m.kind \in Kinds
  <2> SUFFICES ASSUME NEW p \in Producers, NEW n \in DOMAIN Program[p]
               PROVE  Program[p][n] \in Kinds
    BY DEF Posts
  <2>1. Program[p] \in Seq(Kinds)
    BY PoolAssumption
  <2> QED BY <2>1
<1>2. Terminate.kind \notin Kinds
  BY DEF Terminate, Kinds
<1> QED BY <1>1, <1>2 DEF Message

\* A queue newly made is empty.
LEMMA NewIsEmpty ==
  /\ IsCircQ(NewQ(Capacity), Message)
  /\ NewQ(Capacity).max_items = Capacity + 1 /\ NewQ(Capacity).overrun = 0
  /\ Contents(NewQ(Capacity)) = <<>>
<1> DEFINE n == Capacity + 1
           r == [max_items |-> n, head |-> 0, tail |-> 0, overrun |-> 0,
                 v |-> [i \in 0 .. Capacity |-> Moved]]
<1>1. n \in Nat \ {0} /\ 0 \in 0 .. n - 1 /\ 0 .. Capacity = 0 .. n - 1
  BY ConstantsAre
<1>2. NewQ(Capacity) = r
  BY DEF NewQ
<1> HIDE DEF n
<1>3. r.max_items = n /\ r.overrun = 0 /\ r.head = 0 /\ r.tail = 0
  OBVIOUS
<1>4. r \in [max_items : {n}, overrun : Nat, head : 0 .. n - 1, tail : 0 .. n - 1,
             v : [0 .. n - 1 -> Message \cup {Moved}]]
  BY <1>1
<1> HIDE DEF r
<1>5. IsCircQ(r, Message)
  BY <1>1, <1>3, <1>4 DEF IsCircQ
<1>6. Size(r) = 0
  BY <1>3 DEF Size
<1>7. Contents(r) = <<>>
  <2>1. Contents(r) \in Seq(Message \cup {Moved}) /\ Len(Contents(r)) = 0
    BY <1>5, <1>6, ContentsIs
  <2> QED BY <2>1
<1> QED BY <1>2, <1>3, <1>5, <1>7 DEF n

-----------------------------------------------------------------------------
(* What a step does to the queue.                                          *)

\* The three ways a step leaves the queue.
Stays == q' = q
Gets(a) == pc[a] = "post" /\ q' = PushBack(q, msg[a])
           /\ (Full(q) => PolicyOf(a) = "overrun_oldest")
Gives(w) == ~Empty(q) /\ q' = PopFront([q EXCEPT !.v = [@ EXCEPT ![q.head] = Moved]])

\* A message put into the queue is behind all others, and the oldest is lost
\* only from a full queue.
LEMMA GetsAppends ==
  ASSUME Types, NEW a \in Actors, msg[a] \in Message, Gets(a)
  PROVE  /\ IsCircQ(q', Message) /\ q'.max_items = Capacity + 1
         /\ \/ /\ ~Full(q)
               /\ q'.overrun = q.overrun
               /\ Contents(q') = Append(Contents(q), msg[a])
            \/ /\ Full(q) /\ PolicyOf(a) = "overrun_oldest"
               /\ q'.overrun = q.overrun + 1
               /\ Contents(q') = Append(Tail(Contents(q)), msg[a])
<1>1. IsCircQ(q, Message) /\ q.max_items = Capacity + 1 /\ q.max_items # 1
  BY ConstantsAre DEF Types
<1> DEFINE r == PushBack(q, msg[a])
<1>2. CASE ~Full(q)
  <2>1. /\ IsCircQ(r, Message) /\ r.max_items = q.max_items /\ r.overrun = q.overrun
        /\ Contents(r) = Append(Contents(q), msg[a])
    BY <1>1, <1>2, PushAppends
  <2> QED BY <1>1, <1>2, <2>1 DEF Gets
<1>3. CASE Full(q)
  <2>1. /\ IsCircQ(r, Message) /\ r.max_items = q.max_items /\ r.overrun = q.overrun + 1
        /\ Contents(r) = Append(Tail(Contents(q)), msg[a])
    BY <1>1, <1>3, PushOverruns
  <2> QED BY <1>1, <1>3, <2>1 DEF Gets
<1> QED BY <1>2, <1>3

LEMMA GivesOldest ==
  ASSUME Types, NEW w \in Workers, Gives(w)
  PROVE  /\ IsCircQ(q', Message) /\ q'.max_items = Capacity + 1
         /\ q'.overrun = q.overrun
         /\ Contents(q) # <<>> /\ Contents(q') = Tail(Contents(q))
BY PopTakesOldest DEF Types, Gives

\* Of what is in the queue after a step only the new message was not there.
LEMMA NewStops ==
  ASSUME NEW c \in Seq(Message \cup {Moved}), NEW d \in Seq(Message \cup {Moved}),
         NEW i \in DOMAIN d
  PROVE  /\ c # <<>> /\ d = Tail(c) => \E j \in DOMAIN c : c[j] = d[i]
         /\ \A m \in Message : d = Append(c, m) =>
              d[i] = m \/ \E j \in DOMAIN c : c[j] = d[i]
         /\ \A m \in Message : c # <<>> /\ d = Append(Tail(c), m) =>
              d[i] = m \/ \E j \in DOMAIN c : c[j] = d[i]
<1>1. ASSUME c # <<>>, d = Tail(c)
      PROVE  \E j \in DOMAIN c : c[j] = d[i]
  <2>1. i + 1 \in DOMAIN c /\ c[i + 1] = d[i]
    BY <1>1
  <2> QED BY <2>1
<1>2. ASSUME NEW m \in Message, d = Append(c, m)
      PROVE  d[i] = m \/ \E j \in DOMAIN c : c[j] = d[i]
  <2>1. CASE i \in DOMAIN c
    BY <1>2, <2>1
  <2>2. CASE i \notin DOMAIN c
    BY <1>2, <2>2
  <2> QED BY <2>1, <2>2
<1>3. ASSUME NEW m \in Message, c # <<>>, d = Append(Tail(c), m)
      PROVE  d[i] = m \/ \E j \in DOMAIN c : c[j] = d[i]
  <2>1. /\ Tail(c) \in Seq(Message \cup {Moved}) /\ Len(Tail(c)) = Len(c) - 1
        /\ Len(c) > 0 /\ Len(c) \in Nat
        /\ \A k \in 1 .. Len(c) - 1 : Tail(c)[k] = c[k + 1]
    BY <1>3
  <2>2. CASE i \in 1 .. Len(c) - 1
    <3>1. i + 1 \in DOMAIN c /\ c[i + 1] = d[i]
      BY <1>3, <2>1, <2>2
    <3> QED BY <3>1
  <2>3. CASE i \notin 1 .. Len(c) - 1
    BY <1>3, <2>1, <2>3
  <2> QED BY <2>2, <2>3
<1> QED BY <1>1, <1>2, <1>3

-----------------------------------------------------------------------------
(* PoolInv is inductive.                                                   *)

LEMMA InvInit == Init => PoolInv
<1> SUFFICES ASSUME Init PROVE PoolInv
  OBVIOUS
<1>1. IsCircQ(q, Message) /\ q.max_items = Capacity + 1 /\ Contents(q) = <<>>
  BY NewIsEmpty DEF Init
<1>2. policy \in [Producers -> Policies]
  BY ConstantsAre DEF Init
<1>3. /\ refs = {Main} /\ msg = [a \in Actors |-> Nothing]
      /\ pc = [a \in Actors |-> IF a = Main THEN "construct" ELSE "idle"]
  BY DEF Init
<1>4. Types
  BY <1>1, <1>2, <1>3 DEF Types, Actors, PcValues
<1>5. CallersHold /\ MainOnlyStops /\ MadeByMain
  BY <1>3, ConstantsAre DEF CallersHold, MainOnlyStops, MadeByMain, Active, Actors
<1>6. ~HasStop
  BY <1>1 DEF HasStop
<1>7. \A a \in Actors : msg[a] # Terminate /\ pc[a] # "destroy"
  BY <1>3, ConstantsAre, StopIsNoPost
<1> QED BY <1>4, <1>5, <1>6, <1>7 DEF PoolInv, EndedUnheld

\* A step that only moves actors that are in a call, or ends their calls.
LEMMA MovesKeepInv ==
  ASSUME PoolInv, pc' \in [Actors -> PcValues],
         IsCircQ(q', Message), q'.max_items = Capacity + 1, HasStop' => refs = {},
         policy' = policy, refs' = refs, msg' = msg,
         \A a \in Actors : pc'[a] # pc[a] =>
           /\ pc'[a] \notin {"construct", "destroy"}
           /\ pc'[a] \in Active => pc[a] \in Active
  PROVE  PoolInv'
<1>1. Types'
  BY DEF PoolInv, Types
<1>2. CallersHold'
  BY DEF PoolInv, CallersHold, Actors
<1>3. MainOnlyStops' /\ MadeByMain'
  BY DEF PoolInv, MainOnlyStops, MadeByMain, Actors
<1>4. EndedUnheld'
  BY DEF PoolInv, EndedUnheld
<1> QED BY <1>1, <1>2, <1>3, <1>4 DEF PoolInv

\* Nobody who may post something else posts when a terminate message is about.
LEMMA PosterIs ==
  ASSUME PoolInv, NEW a \in Actors, pc[a] \in Active
  PROVE  /\ msg[a] \in Message
         /\ msg[a] # Terminate =>
              a \in Producers /\ msg[a] \in Posts /\ msg[a].by = a /\ refs # {} /\ ~HasStop
<1>1. CASE msg[a] = Terminate
  BY <1>1, StopIsNoPost
<1>2. CASE msg[a] # Terminate
  <2>1. a \in Producers
    BY <1>2 DEF PoolInv, MainOnlyStops, Actors
  <2>2. a \in refs /\ msg[a] \in Posts /\ msg[a].by = a
    BY <1>2, <2>1 DEF PoolInv, CallersHold
  <2> QED BY <1>2, <2>1, <2>2, StopIsNoPost DEF PoolInv, EndedUnheld
<1> QED BY <1>1, <1>2

\* The queue of a step: it is one still, and a terminate message in it means
\* that nobody holds the pool.
LEMMA QueueKept ==
  ASSUME PoolInv, Stays \/ (\E a \in Actors : Gets(a)) \/ (\E w \in Workers : Gives(w))
  PROVE  IsCircQ(q', Message) /\ q'.max_items = Capacity + 1 /\ (HasStop' => refs = {})
<1>0. Types /\ IsCircQ(q, Message) /\ Contents(q) \in Seq(Message \cup {Moved})
  BY ContentsIs DEF PoolInv, Types
<1>1. CASE Stays
  <2>1. HasStop' => HasStop
    BY <1>1 DEF Stays, HasStop
  <2> QED BY <1>0, <1>1, <2>1 DEF Stays, PoolInv, Types, EndedUnheld
<1>2. ASSUME NEW a \in Actors, Gets(a)
      PROVE  IsCircQ(q', Message) /\ q'.max_items = Capacity + 1 /\ (HasStop' => refs = {})
  <2>1. pc[a] \in Active
    BY <1>2 DEF Gets, Active
  <2>2. msg[a] \in Message
    BY <2>1, PosterIs
  <2>3. /\ IsCircQ(q', Message) /\ q'.max_items = Capacity + 1
        /\ \/ Contents(q') = Append(Contents(q), msg[a])
           \/ Full(q) /\ Contents(q') = Append(Tail(Contents(q)), msg[a])
    BY <1>0, <1>2, <2>2, GetsAppends
  <2>4. Full(q) => Contents(q) # <<>>
    <3>1. Len(Contents(q)) = Size(q) /\ (Full(q) => Size(q) = q.max_items - 1)
      BY <1>0, SizeIs, ContentsIs
    <3>2. q.max_items = Capacity + 1
      BY <1>0 DEF Types
    <3> QED BY <3>1, <3>2, ConstantsAre
  <2>5. Contents(q') \in Seq(Message \cup {Moved})
    BY <2>3, ContentsIs
  <2>6. HasStop' => HasStop \/ msg[a] = Terminate
    <3> SUFFICES ASSUME NEW i \in DOMAIN Contents(q'), Contents(q')[i] = Terminate
                 PROVE  HasStop \/ msg[a] = Terminate
      BY DEF HasStop
    <3>1. Contents(q')[i] = msg[a] \/ \E j \in DOMAIN Contents(q) : Contents(q)[j] = Contents(q')[i]
      BY <1>0, <2>2, <2>3, <2>4, <2>5, NewStops
    <3> QED BY <3>1 DEF HasStop
  <2> QED BY <2>3, <2>6 DEF PoolInv, EndedUnheld
<1>3. ASSUME NEW w \in Workers, Gives(w)
      PROVE  IsCircQ(q', Message) /\ q'.max_items = Capacity + 1 /\ (HasStop' => refs = {})
  <2>1. /\ IsCircQ(q', Message) /\ q'.max_items = Capacity + 1
        /\ Contents(q) # <<>> /\ Contents(q') = Tail(Contents(q))
    BY <1>0, <1>3, GivesOldest
  <2>2. Contents(q') \in Seq(Message \cup {Moved})
    BY <2>1, ContentsIs
  <2>3. HasStop' => HasStop
    <3> SUFFICES ASSUME NEW i \in DOMAIN Contents(q'), Contents(q')[i] = Terminate
                 PROVE  HasStop
      BY DEF HasStop
    <3>1. \E j \in DOMAIN Contents(q) : Contents(q)[j] = Contents(q')[i]
      BY <1>0, <2>1, <2>2, NewStops
    <3> QED BY <3>1 DEF HasStop
  <2> QED BY <2>1, <2>3 DEF PoolInv, EndedUnheld
<1> QED BY <1>1, <1>2, <1>3

-----------------------------------------------------------------------------
(* The steps.                                                              *)

\* pop_cv_.notify_one() moves at most a waiting actor, who will post.
LEMMA NotifyMoves ==
  ASSUME Types, NotifyPop(pc)
  PROVE  /\ pc' \in [Actors -> PcValues]
         /\ \A a \in Actors : pc'[a] # pc[a] => pc[a] = "waiting" /\ pc'[a] = "post"
<1>1. CASE WaitingActors = {}
  BY <1>1 DEF NotifyPop, Types
<1>2. CASE WaitingActors # {}
  <2>1. PICK b \in WaitingActors : pc' = [pc EXCEPT ![b] = "post"]
    BY <1>2 DEF NotifyPop
  <2> QED BY <2>1 DEF WaitingActors, Types, PcValues
<1> QED BY <1>1, <1>2

\* The steps of PostAsyncMsg.
LEMMA PostMoves ==
  ASSUME Types, NEW a \in Actors, PostAsyncMsg(a)
  PROVE  /\ Stays \/ Gets(a)
         /\ policy' = policy /\ refs' = refs /\ msg' = msg
         /\ pc[a] = "post" /\ pc' \in [Actors -> PcValues]
         /\ \A b \in Actors : pc'[b] # pc[b] => b = a /\ pc'[b] \in Active
<1>1. UNCHANGED <<poolVars, msg>> /\ pc[a] = "post"
  BY DEF PostAsyncMsg
<1>2. ASSUME Pushed(a), Full(q) => PolicyOf(a) = "overrun_oldest"
      PROVE  /\ Gets(a) /\ policy' = policy
             /\ pc' = [pc EXCEPT ![a] = "posted"] \/ pc' = [pc EXCEPT ![a] = "notify"]
  BY <1>1, <1>2 DEF Pushed, Gets, setupVars
<1>3. ASSUME q' = q, UNCHANGED queueVars,
             pc' = [pc EXCEPT ![a] = "waiting"] \/ pc' = [pc EXCEPT ![a] = "discard"]
      PROVE  Stays /\ policy' = policy
  BY <1>3 DEF Stays, queueVars, setupVars
<1>4. /\ Stays \/ Gets(a)
      /\ policy' = policy
      /\ \/ pc' = [pc EXCEPT ![a] = "posted"] \/ pc' = [pc EXCEPT ![a] = "notify"]
         \/ pc' = [pc EXCEPT ![a] = "waiting"] \/ pc' = [pc EXCEPT ![a] = "discard"]
  <2>1. CASE Enqueue(a)
    BY <2>1, <1>2 DEF Enqueue
  <2>2. CASE EnqueueWaits(a)
    BY <2>2, <1>3 DEF EnqueueWaits, queueVars
  <2>3. CASE EnqueueNowait(a)
    BY <2>3, <1>2 DEF EnqueueNowait
  <2>4. CASE EnqueueIfHaveRoom(a)
    BY <2>4, <1>2 DEF EnqueueIfHaveRoom
  <2>5. CASE NoRoom(a)
    BY <2>5, <1>3 DEF NoRoom, queueVars
  <2> QED BY <2>1, <2>2, <2>3, <2>4, <2>5 DEF PostAsyncMsg
<1>5. pc' \in [Actors -> PcValues] /\ \A b \in Actors : pc'[b] # pc[b] => b = a /\ pc'[b] \in Active
  BY <1>4 DEF Types, PcValues, Active
<1> QED BY <1>1, <1>4, <1>5 DEF poolVars

LEMMA PostAsyncMsgKeepsInv ==
  ASSUME PoolInv, NEW a \in Actors, PostAsyncMsg(a)
  PROVE  PoolInv'
<1>1. /\ Stays \/ Gets(a)
      /\ policy' = policy /\ refs' = refs /\ msg' = msg
      /\ pc[a] = "post" /\ pc' \in [Actors -> PcValues]
      /\ \A b \in Actors : pc'[b] # pc[b] => b = a /\ pc'[b] \in Active
  BY PostMoves DEF PoolInv
<1>2. IsCircQ(q', Message) /\ q'.max_items = Capacity + 1 /\ (HasStop' => refs = {})
  BY <1>1, QueueKept
<1> QED BY <1>1, <1>2, MovesKeepInv DEF Active

\* The steps that leave the queue alone and only move one actor.
LEMMA MoveKeepsInv ==
  ASSUME PoolInv, NEW a \in Actors, NEW to \in PcValues, pc' = [pc EXCEPT ![a] = to],
         UNCHANGED <<queueVars, refs, msg>>,
         to \notin {"construct", "destroy"}, to \in Active => pc[a] \in Active
  PROVE  PoolInv'
<1>1. Stays /\ policy' = policy /\ refs' = refs /\ msg' = msg
  BY DEF Stays, queueVars, setupVars
<1>2. IsCircQ(q', Message) /\ q'.max_items = Capacity + 1 /\ (HasStop' => refs = {})
  BY <1>1, QueueKept
<1>3. /\ pc' \in [Actors -> PcValues]
      /\ \A b \in Actors : pc'[b] # pc[b] => b = a /\ pc'[b] = to
  BY DEF PoolInv, Types
<1> QED BY <1>1, <1>2, <1>3, MovesKeepInv

LEMMA NotifyKeepsInv ==
  ASSUME PoolInv, NotifyPop(pc), UNCHANGED <<policy, refs, msg>>,
         Stays \/ \E w \in Workers : Gives(w)
  PROVE  PoolInv'
<1>1. /\ pc' \in [Actors -> PcValues]
      /\ \A a \in Actors : pc'[a] # pc[a] => pc[a] = "waiting" /\ pc'[a] = "post"
  BY NotifyMoves DEF PoolInv
<1>2. IsCircQ(q', Message) /\ q'.max_items = Capacity + 1 /\ (HasStop' => refs = {})
  BY QueueKept
<1> QED BY <1>1, <1>2, MovesKeepInv DEF Active

LEMMA DequeueKeepsInv ==
  ASSUME PoolInv, NEW w \in Workers, Dequeue(w)
  PROVE  PoolInv'
<1>1. Gives(w) /\ UNCHANGED <<policy, refs, msg>>
  BY DEF Dequeue, Gives, setupVars, poolVars
<1>2. CASE mingw
  BY <1>1, <1>2, NotifyKeepsInv DEF Dequeue
<1>3. CASE ~mingw
  <2>1. pc' = pc
    BY <1>3 DEF Dequeue
  <2>2. IsCircQ(q', Message) /\ q'.max_items = Capacity + 1 /\ (HasStop' => refs = {})
    BY <1>1, QueueKept
  <2> QED BY <1>1, <2>1, <2>2, MovesKeepInv DEF PoolInv, Types
<1> QED BY <1>2, <1>3

\* A step that leaves the queue alone and changes who holds the pool.
LEMMA HoldersKeepInv ==
  ASSUME PoolInv, UNCHANGED queueVars,
         refs' \subseteq Actors, pc' \in [Actors -> PcValues],
         msg' \in [Actors -> Message \cup {Nothing}],
         CallersHold', MainOnlyStops', MadeByMain',
         HasStop \/ (\E a \in Actors : msg'[a] = Terminate \/ pc'[a] = "destroy") => refs' = {}
  PROVE  PoolInv'
<1>1. q' = q /\ policy' = policy
  BY DEF queueVars, setupVars
<1>2. Types'
  BY <1>1 DEF PoolInv, Types
<1>3. HasStop' <=> HasStop
  BY <1>1 DEF HasStop
<1> QED BY <1>2, <1>3 DEF PoolInv, EndedUnheld

LEMMA CallKeepsInv ==
  ASSUME PoolInv, NEW p \in Producers, Call(p)
  PROVE  PoolInv'
<1> DEFINE n == calls[p] + 1  m == [kind |-> Program[p][n], by |-> p, n |-> n]
<1>0. Types /\ CallersHold /\ MainOnlyStops /\ MadeByMain /\ EndedUnheld /\ p \in Actors /\ p # Main
  BY ConstantsAre DEF PoolInv, Actors
<1>1. m \in Posts /\ m.by = p
  BY DEF Call, Posts
<1>2. m \in Message /\ m # Terminate
  BY <1>1, StopIsNoPost
<1> HIDE DEF m
<1>3. CASE refs = {}
  <2>1. UNCHANGED <<queueVars, refs, pc, msg>>
    BY <1>3 DEF Call
  <2> QED BY <1>0, <2>1, HoldersKeepInv
          DEF Types, CallersHold, MainOnlyStops, MadeByMain, EndedUnheld
<1>4. CASE refs # {}
  <2>1. /\ UNCHANGED queueVars /\ refs' = refs \cup {p}
        /\ pc' = [pc EXCEPT ![p] = "post"] /\ msg' = [msg EXCEPT ![p] = m]
        /\ pc[Main] # "construct"
    BY <1>4 DEF Call, m
  <2>2. /\ refs' \subseteq Actors /\ pc' \in [Actors -> PcValues]
        /\ msg' \in [Actors -> Message \cup {Nothing}]
    BY <1>0, <1>2, <2>1 DEF Types, PcValues
  <2>3. CallersHold'
    BY <1>0, <1>1, <2>1 DEF CallersHold, Types, Actors
  <2>4. MainOnlyStops' /\ MadeByMain'
    BY <1>0, <2>1 DEF MainOnlyStops, MadeByMain, Types, Actors
  <2>5. ~(HasStop \/ \E a \in Actors : msg'[a] = Terminate \/ pc'[a] = "destroy")
    BY <1>0, <1>2, <1>4, <2>1 DEF EndedUnheld, Types
  <2> QED BY <2>1, <2>2, <2>3, <2>4, <2>5, HoldersKeepInv
<1> QED BY <1>3, <1>4

LEMMA ReturnKeepsInv ==
  ASSUME PoolInv, NEW p \in Producers, Return(p)
  PROVE  PoolInv'
<1>0. Types /\ CallersHold /\ MainOnlyStops /\ MadeByMain /\ EndedUnheld /\ p \in Actors /\ p # Main
  BY ConstantsAre DEF PoolInv, Actors
<1>1. /\ UNCHANGED queueVars /\ refs' = refs \ {p}
      /\ pc' = [pc EXCEPT ![p] = AfterRelease(p)] /\ msg' = [msg EXCEPT ![p] = Nothing]
      /\ pc[p] = "posted" /\ msg[p] # Terminate
  BY DEF Return
<1>2. p \in refs
  BY <1>0, <1>1 DEF CallersHold, Active
<1>3. AfterRelease(p) = IF refs = {p} THEN "destroy" ELSE "idle"
  BY <1>0 DEF AfterRelease
<1>4. /\ refs' \subseteq Actors /\ pc' \in [Actors -> PcValues]
      /\ msg' \in [Actors -> Message \cup {Nothing}]
  BY <1>0, <1>1, <1>3 DEF Types, PcValues
<1>5. CallersHold'
  BY <1>0, <1>1, <1>3 DEF CallersHold, Types, Actors, Active
<1>6. MainOnlyStops' /\ MadeByMain'
  BY <1>0, <1>1, <1>2 DEF MainOnlyStops, MadeByMain, Types, Actors
<1>7. ~HasStop /\ \A a \in Actors : msg[a] # Terminate /\ pc[a] # "destroy"
  BY <1>0, <1>2 DEF EndedUnheld
<1>8. \A a \in Actors : msg'[a] # Terminate /\ (pc'[a] = "destroy" => refs' = {})
  BY <1>0, <1>1, <1>3, <1>7, ConstantsAre, StopIsNoPost DEF Types
<1> QED BY <1>1, <1>4, <1>5, <1>6, <1>7, <1>8, HoldersKeepInv

LEMMA DropPoolKeepsInv ==
  ASSUME PoolInv, DropPool
  PROVE  PoolInv'
<1>0. /\ Types /\ CallersHold /\ MainOnlyStops /\ MadeByMain /\ EndedUnheld
      /\ Main \in Actors /\ Main \notin Producers
  BY ConstantsAre DEF PoolInv, Actors
<1>1. /\ UNCHANGED queueVars /\ refs' = refs \ {Main} /\ msg' = msg
      /\ pc' = [pc EXCEPT ![Main] = AfterRelease(Main)]
  BY DEF DropPool
<1>2. AfterRelease(Main) = IF refs = {Main} THEN "destroy" ELSE "done"
  BY DEF AfterRelease
<1>3. /\ refs' \subseteq Actors /\ pc' \in [Actors -> PcValues]
      /\ msg' \in [Actors -> Message \cup {Nothing}]
  BY <1>0, <1>1, <1>2 DEF Types, PcValues
<1>4. CallersHold'
  BY <1>0, <1>1, <1>2 DEF CallersHold, Types, Actors
<1>5. MainOnlyStops' /\ MadeByMain'
  BY <1>0, <1>1, <1>2 DEF MainOnlyStops, MadeByMain, Types, Active
<1>6. HasStop \/ (\E a \in Actors : msg'[a] = Terminate \/ pc'[a] = "destroy") => refs' = {}
  BY <1>0, <1>1, <1>2 DEF EndedUnheld, Types
<1> QED BY <1>1, <1>3, <1>4, <1>5, <1>6, HoldersKeepInv

LEMMA PostTerminateKeepsInv ==
  ASSUME PoolInv, NEW a \in Actors, PostTerminate(a)
  PROVE  PoolInv'
<1>0. Types /\ CallersHold /\ MainOnlyStops /\ MadeByMain /\ EndedUnheld
  BY DEF PoolInv
<1>1. refs = {} /\ refs' = refs /\ UNCHANGED queueVars
  BY <1>0 DEF PostTerminate, EndedUnheld
<1>2. \/ msg' = [msg EXCEPT ![a] = Terminate] /\ pc' = [pc EXCEPT ![a] = "post"]
      \/ msg' = [msg EXCEPT ![a] = Nothing] /\ pc' = [pc EXCEPT ![a] = "join"]
  BY DEF PostTerminate
<1>3. /\ pc' \in [Actors -> PcValues] /\ msg' \in [Actors -> Message \cup {Nothing}]
      /\ refs' \subseteq Actors
  BY <1>0, <1>1, <1>2, StopIsNoPost DEF Types, PcValues
<1>4. CallersHold'
  BY <1>0, <1>1, <1>2 DEF CallersHold, Types, Actors, Active
<1>5. MainOnlyStops' /\ MadeByMain'
  BY <1>0, <1>1, <1>2 DEF MainOnlyStops, MadeByMain, Types, Actors, Active
<1> QED BY <1>1, <1>3, <1>4, <1>5, HoldersKeepInv

LEMMA StartWorkerKeepsInv ==
  ASSUME PoolInv, StartWorker \/ StartWorkerThrows
  PROVE  PoolInv'
<1>0. /\ Types /\ CallersHold /\ MainOnlyStops /\ MadeByMain /\ EndedUnheld
      /\ Main \in Actors /\ Main \notin Producers
  BY ConstantsAre DEF PoolInv, Actors
<1>1. UNCHANGED queueVars /\ msg' = msg /\ pc[Main] = "construct" /\ refs = {Main}
  BY <1>0 DEF StartWorker, StartWorkerThrows, MadeByMain
<1>2. /\ refs' \in {refs, {}}
      /\ \/ pc' = [pc EXCEPT ![Main] = "owner"] \/ pc' = [pc EXCEPT ![Main] = "aborted"]
         \/ pc' = [pc EXCEPT ![Main] = "construct"] /\ refs' = refs
         \/ pc' = [pc EXCEPT ![Main] = "done"]
  BY DEF StartWorker, StartWorkerThrows
<1>3. /\ pc' \in [Actors -> PcValues] /\ msg' \in [Actors -> Message \cup {Nothing}]
      /\ refs' \subseteq Actors
  BY <1>0, <1>1, <1>2 DEF Types, PcValues
<1>4. CallersHold'
  BY <1>0, <1>1, <1>2 DEF CallersHold, Types, Actors
<1>5. MainOnlyStops' /\ MadeByMain'
  BY <1>0, <1>1, <1>2 DEF MainOnlyStops, MadeByMain, Types, Active
<1>6. ~(HasStop \/ \E a \in Actors : msg'[a] = Terminate \/ pc'[a] = "destroy")
  BY <1>0, <1>1, <1>2 DEF EndedUnheld, Types
<1> QED BY <1>1, <1>3, <1>4, <1>5, <1>6, HoldersKeepInv

LEMMA InvNext == PoolInv /\ [Next]_vars => PoolInv'
<1> SUFFICES ASSUME PoolInv, [Next]_vars PROVE PoolInv'
  OBVIOUS
<1>0. Types
  BY DEF PoolInv
<1>8. ASSUME UNCHANGED <<queueVars, refs, pc, msg>> PROVE PoolInv'
  <2>1. pc' = pc /\ refs' = refs /\ msg' = msg
    BY <1>8
  <2> QED BY <1>8, <2>1, <1>0, HoldersKeepInv
          DEF PoolInv, Types, CallersHold, MainOnlyStops, MadeByMain, EndedUnheld
<1>1. CASE UNCHANGED vars
  BY <1>1, <1>8 DEF vars, poolVars, actorVars
<1>2. ASSUME NEW a \in Actors, ActorStep(a) PROVE PoolInv'
  <2>1. CASE PostAsyncMsg(a)
    BY <2>1, PostAsyncMsgKeepsInv
  <2>2. CASE Notify(a)
    BY <2>2, MoveKeepsInv DEF Notify, PcValues, Active, poolVars
  <2>3. CASE Discard(a)
    <3>1. /\ IsCircQ(q', Message) /\ q'.max_items = Capacity + 1 /\ (HasStop' => refs = {})
      BY <2>3, QueueKept DEF Discard, Stays
    <3>2. /\ policy' = policy /\ refs' = refs /\ msg' = msg
          /\ pc[a] = "discard" /\ pc' = [pc EXCEPT ![a] = "posted"]
      BY <2>3 DEF Discard, setupVars, poolVars
    <3>3. /\ pc' \in [Actors -> PcValues]
          /\ \A b \in Actors : pc'[b] # pc[b] => b = a /\ pc'[b] = "posted"
      BY <3>2, <1>0 DEF Types, PcValues
    <3> QED BY <3>1, <3>2, <3>3, MovesKeepInv DEF Active
  <2>4. CASE PostTerminate(a)
    BY <2>4, PostTerminateKeepsInv
  <2>5. CASE Join(a)
    BY <2>5, MoveKeepsInv DEF Join, PcValues, Active, poolVars
  <2> QED BY <1>2, <2>1, <2>2, <2>3, <2>4, <2>5 DEF ActorStep
<1>3. ASSUME NEW p \in Producers, ProducerStep(p) \/ Call(p) PROVE PoolInv'
  <2>1. p \in Actors
    BY DEF Actors
  <2> QED BY <1>2, <1>3, <2>1, CallKeepsInv, ReturnKeepsInv DEF ProducerStep
<1>4. CASE StartWorker \/ StartWorkerThrows \/ DropPool
  BY <1>4, StartWorkerKeepsInv, DropPoolKeepsInv
<1>5. ASSUME NEW a \in Actors, SpuriousActor(a) PROVE PoolInv'
  BY <1>5, MoveKeepsInv DEF SpuriousActor, PcValues, Active, poolVars
<1>6. ASSUME NEW w \in Workers, WorkerStep(w) \/ SpuriousWorker(w) PROVE PoolInv'
  <2>1. CASE Dequeue(w)
    BY <2>1, DequeueKeepsInv
  <2>2. CASE WorkerNotify(w)
    <3>1. NotifyPop(pc) /\ UNCHANGED <<policy, refs, msg>> /\ Stays
      BY <2>2 DEF WorkerNotify, queueVars, setupVars, poolVars, Stays
    <3> QED BY <3>1, NotifyKeepsInv
  <2>3. CASE DequeueWaits(w) \/ BackendSinkIt(w) \/ BackendFlush(w) \/ SpuriousWorker(w)
    <3>1. UNCHANGED <<queueVars, refs, pc, msg>>
      BY <2>3 DEF DequeueWaits, BackendSinkIt, BackendFlush, SpuriousWorker, poolVars, actorVars
    <3> QED BY <3>1, <1>8
  <2> QED BY <1>6, <2>1, <2>2, <2>3 DEF WorkerStep
<1>7. Main \in Actors
  BY DEF Actors
<1> QED BY <1>1, <1>2, <1>3, <1>4, <1>5, <1>6, <1>7 DEF Next

-----------------------------------------------------------------------------
(* The queue implements the bounded channel.                               *)

Evicting == {m \in Posts : policy[m.by] = "overrun_oldest"}

LEMMA ClosedIs == Channel!Closed <=> HasStop
BY DEF Channel!Closed, HasStop

LEMMA GetsIsPut ==
  ASSUME PoolInv, NEW a \in Actors, Gets(a), policy' = policy
  PROVE  Channel!Put(msg[a]) \/ Channel!PutEvicting(msg[a])
<1>0. Types /\ IsCircQ(q, Message) /\ q.max_items = Capacity + 1 /\ Capacity \in Nat \ {0}
  BY ConstantsAre DEF PoolInv, Types
<1>1. /\ msg[a] \in Message
      /\ msg[a] # Terminate =>
           a \in Producers /\ msg[a] \in Posts /\ msg[a].by = a /\ refs # {} /\ ~HasStop
  BY PosterIs DEF Gets, Active
<1>2. Evicting' = Evicting
  BY DEF Evicting
<1>3. /\ Len(Contents(q)) = Size(q) /\ Size(q) \in Nat /\ Size(q) < Capacity + 1
      /\ Full(q) <=> Size(q) = (Capacity + 1) - 1
  BY <1>0, SizeIs, ContentsIs
<1>4. CASE ~Full(q)
  <2>1. q'.overrun = q.overrun /\ Contents(q') = Append(Contents(q), msg[a])
    BY <1>0, <1>1, <1>4, GetsAppends
  <2>2. Len(Contents(q)) < Capacity
    BY <1>0, <1>3, <1>4
  <2>3. Channel!Orderly(msg[a])
    BY <1>1, ClosedIs DEF Channel!Orderly
  <2> QED BY <1>2, <2>1, <2>2, <2>3 DEF Channel!Put, Evicting
<1>5. CASE Full(q)
  <2>1. /\ PolicyOf(a) = "overrun_oldest" /\ q'.overrun = q.overrun + 1
        /\ Contents(q') = Append(Tail(Contents(q)), msg[a])
    BY <1>0, <1>1, <1>5, GetsAppends
  <2>2. Len(Contents(q)) = Capacity
    BY <1>0, <1>3, <1>5
  <2>3. msg[a] # Terminate /\ policy[a] = "overrun_oldest"
    BY <2>1 DEF PolicyOf
  <2>4. msg[a] \in Evicting /\ ~Channel!Closed
    BY <1>1, <2>3, ClosedIs DEF Evicting
  <2> QED BY <1>2, <2>1, <2>2, <2>4 DEF Channel!PutEvicting, Evicting
<1> QED BY <1>4, <1>5

\* How each step treats the queue.
LEMMA QueueSteps ==
  ASSUME Types, Next
  PROVE  /\ policy' = policy
         /\ Stays \/ (\E a \in Actors : Gets(a)) \/ (\E w \in Workers : Gives(w))
<1>1. ASSUME NEW a \in Actors, ActorStep(a)
      PROVE  policy' = policy /\ (Stays \/ \E b \in Actors : Gets(b))
  <2>1. CASE PostAsyncMsg(a)
    BY <2>1, PostMoves
  <2>2. CASE Notify(a) \/ Discard(a) \/ PostTerminate(a) \/ Join(a)
    BY <2>2 DEF Notify, Discard, PostTerminate, Join, queueVars, setupVars, Stays
  <2> QED BY <1>1, <2>1, <2>2 DEF ActorStep
<1>2. ASSUME NEW p \in Producers, ProducerStep(p) \/ Call(p)
      PROVE  policy' = policy /\ (Stays \/ \E b \in Actors : Gets(b))
  <2>1. CASE ActorStep(p)
    BY <1>1, <2>1 DEF Actors
  <2>2. CASE Return(p) \/ Call(p)
    BY <2>2 DEF Return, Call, queueVars, setupVars, Stays
  <2> QED BY <1>2, <2>1, <2>2 DEF ProducerStep
<1>3. CASE StartWorker \/ StartWorkerThrows \/ DropPool \/ \E a \in Actors : SpuriousActor(a)
  BY <1>3 DEF StartWorker, StartWorkerThrows, DropPool, SpuriousActor, queueVars, setupVars, Stays
<1>4. ASSUME NEW w \in Workers, WorkerStep(w) \/ SpuriousWorker(w)
      PROVE  policy' = policy /\ (Stays \/ \E v \in Workers : Gives(v))
  <2>1. CASE Dequeue(w)
    BY <2>1 DEF Dequeue, Gives, setupVars
  <2>2. CASE ~Dequeue(w)
    BY <1>4, <2>2 DEF WorkerStep, DequeueWaits, WorkerNotify, BackendSinkIt, BackendFlush,
                      SpuriousWorker, queueVars, setupVars, Stays
  <2> QED BY <2>1, <2>2
<1> QED BY <1>1, <1>2, <1>3, <1>4 DEF Next, Actors

\* The queue of the thread pool is the bounded channel: first in, first out,
\* never more than its capacity, nothing evicted but from a full queue and for
\* a message whose policy is to evict, never a terminate message evicted and
\* no message put behind one (mpmc_blocking_q.h, circular_q.h,
\* thread_pool-inl.h:44-55).
THEOREM QueueIsChannel == Spec => ChannelSpec
<1>1. Init => Channel!Init
  <2> SUFFICES ASSUME Init PROVE Channel!Init
    OBVIOUS
  <2>1. q.overrun = 0 /\ Contents(q) = <<>>
    BY NewIsEmpty DEF Init
  <2>2. Evicting \subseteq Message \ {Terminate}
    BY StopIsNoPost DEF Evicting
  <2> QED BY <2>1, <2>2 DEF Channel!Init, Evicting
<1>2. PoolInv /\ [Next]_vars => [Channel!Next]_<<Evicting, Contents(q), q.overrun>>
  <2> SUFFICES ASSUME PoolInv, [Next]_vars
               PROVE  Channel!Next \/ UNCHANGED <<Evicting, Contents(q), q.overrun>>
    OBVIOUS
  <2>1. CASE UNCHANGED vars
    BY <2>1 DEF vars, queueVars, setupVars, Evicting
  <2>2. CASE Next
    <3>1. /\ policy' = policy
          /\ Stays \/ (\E a \in Actors : Gets(a)) \/ (\E w \in Workers : Gives(w))
      BY <2>2, QueueSteps DEF PoolInv
    <3>2. CASE Stays
      BY <3>1, <3>2 DEF Stays, Evicting
    <3>3. ASSUME NEW a \in Actors, Gets(a)
          PROVE  Channel!Next
      <4>1. msg[a] \in Message
        BY <3>3, PosterIs DEF Gets, Active
      <4> QED BY <3>1, <3>3, <4>1, GetsIsPut DEF Channel!Next
    <3>4. ASSUME NEW w \in Workers, Gives(w)
          PROVE  Channel!Next
      <4>1. /\ q'.overrun = q.overrun /\ Contents(q) # <<>>
            /\ Contents(q') = Tail(Contents(q))
        BY <3>4, GivesOldest DEF PoolInv
      <4>2. Evicting' = Evicting
        BY <3>1 DEF Evicting
      <4> QED BY <4>1, <4>2 DEF Channel!Next, Channel!Take, Evicting
    <3> QED BY <3>1, <3>2, <3>3, <3>4
  <2> QED BY <2>1, <2>2
<1> QED BY <1>1, <1>2, InvInit, InvNext, PTL DEF Spec, ChannelSpec, Channel!Spec, Evicting

-----------------------------------------------------------------------------
(* What is accepted is delivered, and the pool ends clean.                 *)
(*                                                                         *)
(* The steps are first sorted by what they do to the messages: one is put  *)
(* into the line, taken from it, carried from sink to sink, or refused,    *)
(* and all else leaves them where they are.  Then come, each resting on    *)
(* those before it,                                                        *)
(*   - types, and what a worker has in hand at each point of its loop;     *)
(*   - one thread at most ends the pool, and nobody holds it then;         *)
(*   - a producer's messages are numbered by its calls, so that the one it *)
(*     puts into the line is new and the last of its own;                  *)
(*   - each accepted message is in the line, in a worker's hands, handled  *)
(*     or lost, at one of these only, in its producer's order;             *)
(*   - the terminate messages in the line, in the workers' hands and still *)
(*     to be put are as many as the destructor has begun to post, and      *)
(*     nothing comes behind one;                                           *)
(*   - what a sink has was brought by a worker that had been to the sinks  *)
(*     before it.                                                          *)

Line == Contents(q)

Setup == [threads |-> threads, mingw |-> mingw, policy |-> policy]
WpcValues == {"none", "dequeue", "waiting", "notify", "log", "flush", "ended"}

PoolTypes ==
  /\ Line \in Seq(Message)
  /\ discards \in Nat
  /\ Setup \in Setups
  /\ started \in 0 .. threads /\ stops \in 0 .. threads
  /\ calls \in [Producers -> Nat]
  /\ wpc \in [Workers -> WpcValues]
  /\ hand \in [Workers -> Message \cup {Nothing}]
  /\ at \in [Workers -> Sinks]
  /\ posted \subseteq Posts /\ refused \subseteq Posts /\ handled \subseteq Posts
  /\ sunk \in [Sinks -> Seq(Posts)]
  /\ flushed \in [Sinks -> Nat]
  /\ missed \subseteq Posts \X Throwing

\* What a worker has in hand, by where it is.
Fits(w) ==
  /\ wpc[w] \in {"none", "dequeue", "waiting"} => hand[w] = Nothing
  /\ wpc[w] \in {"log", "flush"} => hand[w] \in Posts
  /\ wpc[w] = "notify" => hand[w] \in Message
  /\ wpc[w] = "ended" => hand[w] = Terminate
  /\ wpc[w] \notin {"log", "flush"} => at[w] = 1
  /\ w > started => wpc[w] = "none"

HandsFit == \A w \in Workers : Fits(w)

-----------------------------------------------------------------------------
(* The steps.                                                              *)

WakesActor ==
  pc' \in [Actors -> PcValues] /\ \A a \in Actors : pc'[a] # pc[a] => pc[a] = "waiting" /\ pc'[a] = "post"
WakesWorker ==
  wpc' \in [Workers -> WpcValues] /\ \A w \in Workers : wpc'[w] # wpc[w] => wpc[w] = "waiting" /\ wpc'[w] = "dequeue"

\* Worker w takes the oldest message.
Takes(w) ==
  /\ Line # <<>> /\ Line' = Tail(Line) /\ q'.overrun = q.overrun
  /\ wpc[w] = "dequeue" /\ hand' = [hand EXCEPT ![w] = Line[1]]
  /\ \/ wpc' = [wpc EXCEPT ![w] = "notify"]
     \/ wpc' = [wpc EXCEPT ![w] = AfterTaking(Line[1])]
  /\ WakesActor
  /\ UNCHANGED <<discards, setupVars, poolVars, msg, calls, at, sinkVars, historyVars>>

\* Actor a's message is put into the line, which may lose its oldest for it.
Puts(a) ==
  /\ pc[a] = "post"
  /\ \/ Line' = Append(Line, msg[a]) /\ q'.overrun = q.overrun
     \/ /\ msg[a] # Terminate /\ Line # <<>>
        /\ Line' = Append(Tail(Line), msg[a]) /\ q'.overrun = q.overrun + 1
  /\ posted' = posted \cup ({msg[a]} \ {Terminate})
  /\ pc' = [pc EXCEPT ![a] = "posted"] \/ pc' = [pc EXCEPT ![a] = "notify"]
  /\ WakesWorker
  /\ UNCHANGED <<discards, setupVars, poolVars, msg, calls, hand, at, sinkVars,
                 refused, handled>>

\* Producer a's message is refused.
Refuses(a) ==
  /\ pc[a] = "post" /\ a \in Producers /\ msg[a] \in Posts
  /\ refused' = refused \cup {msg[a]}
  /\ pc' = [pc EXCEPT ![a] = "discard"]
  /\ UNCHANGED <<queueVars, poolVars, msg, calls, workerVars, sinkVars, posted, handled>>

\* The steps of an actor that leave the messages where they are.
Goes(a) ==
  \/ PostAsyncMsg(a) /\ EnqueueWaits(a)
  \/ Notify(a) \/ Discard(a) \/ PostTerminate(a) \/ Join(a) \/ SpuriousActor(a)

\* The same of producers, Main, and the workers.
Comes(p) == Call(p) \/ Return(p)
Begins == StartWorker \/ StartWorkerThrows \/ DropPool
Turns(w) == DequeueWaits(w) \/ WorkerNotify(w) \/ SpuriousWorker(w)

LEMMA LineIs ==
  ASSUME Types
  PROVE  /\ Line \in Seq(Message \cup {Moved}) /\ Len(Line) = Size(q) /\ Size(q) \in Nat
         /\ Empty(q) <=> Line = <<>>
         /\ Full(q) => Line # <<>>
<1>1. IsCircQ(q, Message) /\ q.max_items = Capacity + 1 /\ Capacity \in Nat \ {0}
  BY ConstantsAre DEF Types
<1>2. /\ Line \in Seq(Message \cup {Moved}) /\ Len(Line) = Size(q) /\ Size(q) \in Nat
      /\ Empty(q) <=> Size(q) = 0
      /\ Full(q) <=> Size(q) = q.max_items - 1
  BY <1>1, SizeIs, ContentsIs DEF Line
<1>3. Full(q) => Size(q) # 0
  BY <1>1, <1>2
<1>4. Line = <<>> <=> Len(Line) = 0
  BY <1>2
<1> QED BY <1>2, <1>3, <1>4

\* push_cv_.notify_one() moves at most a waiting worker.
LEMMA PushWakes ==
  ASSUME wpc \in [Workers -> WpcValues], NotifyPush(wpc)
  PROVE  WakesWorker
<1>1. CASE WaitingWorkers = {}
  BY <1>1 DEF NotifyPush, WakesWorker
<1>2. CASE WaitingWorkers # {}
  <2>1. PICK w \in WaitingWorkers : wpc' = [wpc EXCEPT ![w] = "dequeue"]
    BY <1>2 DEF NotifyPush
  <2> QED BY <2>1 DEF WaitingWorkers, WakesWorker, WpcValues
<1> QED BY <1>1, <1>2

LEMMA PostSteps ==
  ASSUME PoolInv, PoolTypes, NEW a \in Actors, PostAsyncMsg(a)
  PROVE  Puts(a) \/ Refuses(a) \/ Goes(a)
<1>1. /\ Types /\ pc[a] = "post" /\ wpc \in [Workers -> WpcValues]
      /\ UNCHANGED <<poolVars, msg, calls, hand, at, sinkVars, handled>>
  BY DEF PostAsyncMsg, PoolInv, PoolTypes
<1>2. /\ msg[a] \in Message
      /\ msg[a] # Terminate => a \in Producers /\ msg[a] \in Posts
  BY <1>1, PosterIs DEF Active
<1>3. ASSUME Pushed(a), Full(q) => PolicyOf(a) = "overrun_oldest"
      PROVE  Puts(a)
  <2>1. Gets(a)
    BY <1>1, <1>3 DEF Pushed, Gets
  <2>2. \/ Line' = Append(Line, msg[a]) /\ q'.overrun = q.overrun
        \/ /\ msg[a] # Terminate /\ Line # <<>>
           /\ Line' = Append(Tail(Line), msg[a]) /\ q'.overrun = q.overrun + 1
    BY <1>1, <1>2, <2>1, GetsAppends, LineIs DEF Line, PolicyOf
  <2>3. WakesWorker /\ (pc' = [pc EXCEPT ![a] = "posted"] \/ pc' = [pc EXCEPT ![a] = "notify"])
    BY <1>1, <1>3, PushWakes DEF Pushed, WakesWorker
  <2> QED BY <1>1, <1>3, <2>2, <2>3 DEF Pushed, Puts
<1>4. CASE Enqueue(a)
  BY <1>3, <1>4 DEF Enqueue
<1>5. CASE EnqueueWaits(a)
  BY <1>5 DEF Goes
<1>6. CASE EnqueueNowait(a)
  BY <1>3, <1>6 DEF EnqueueNowait
<1>7. CASE EnqueueIfHaveRoom(a)
  BY <1>3, <1>7 DEF EnqueueIfHaveRoom
<1>8. CASE NoRoom(a)
  <2>1. msg[a] # Terminate
    BY <1>8 DEF NoRoom, PolicyOf
  <2> QED BY <1>1, <1>2, <1>8, <2>1 DEF NoRoom, Refuses, workerVars
<1> QED BY <1>4, <1>5, <1>6, <1>7, <1>8 DEF PostAsyncMsg

LEMMA DequeueTakes ==
  ASSUME PoolInv, NEW w \in Workers, Dequeue(w)
  PROVE  Takes(w)
<1>1. Types /\ IsCircQ(q, Message)
  BY DEF PoolInv, Types
<1>2. /\ q'.overrun = q.overrun /\ Line # <<>> /\ Line' = Tail(Line) /\ FrontItem(q) = Line[1]
  BY <1>1, PopTakesOldest DEF Dequeue, Line
<1>3. WakesActor
  <2>1. CASE mingw
    BY <1>1, <2>1, NotifyMoves DEF Dequeue, WakesActor
  <2>2. CASE ~mingw
    BY <1>1, <2>2 DEF Dequeue, WakesActor, Types
  <2> QED BY <2>1, <2>2
<1>4. /\ wpc[w] = "dequeue" /\ hand' = [hand EXCEPT ![w] = FrontItem(q)]
      /\ \/ wpc' = [wpc EXCEPT ![w] = "notify"]
         \/ wpc' = [wpc EXCEPT ![w] = AfterTaking(FrontItem(q))]
      /\ UNCHANGED <<discards, setupVars, poolVars, msg, calls, at, sinkVars, historyVars>>
  BY DEF Dequeue
<1> QED BY <1>2, <1>3, <1>4 DEF Takes

LEMMA Steps ==
  ASSUME PoolInv, PoolTypes, Next
  PROVE  \/ \E a \in Actors : Puts(a) \/ Refuses(a) \/ Goes(a)
         \/ \E p \in Producers : Comes(p)
         \/ Begins
         \/ \E w \in Workers : Takes(w) \/ BackendSinkIt(w) \/ BackendFlush(w) \/ Turns(w)
<1>1. ASSUME NEW a \in Actors, ActorStep(a)
      PROVE  Puts(a) \/ Refuses(a) \/ Goes(a)
  BY <1>1, PostSteps DEF ActorStep, Goes
<1>2. ASSUME NEW w \in Workers, WorkerStep(w)
      PROVE  Takes(w) \/ BackendSinkIt(w) \/ BackendFlush(w) \/ Turns(w)
  BY <1>2, DequeueTakes DEF WorkerStep, Turns
<1>3. Producers \subseteq Actors /\ Main \in Actors
  BY DEF Actors
<1> QED BY <1>1, <1>2, <1>3 DEF Next, ProducerStep, Goes, Comes, Begins, Turns

-----------------------------------------------------------------------------
(* Types, and what a worker has in hand.                                   *)

LEMMA SetsAre ==
  /\ IsFiniteSet(Producers) /\ IsFiniteSet(Workers) /\ IsFiniteSet(Actors)
  /\ \E n \in Nat : Workers = 1 .. n
  /\ \E n \in Nat : Sinks = 1 .. n
  /\ 1 \in Sinks
  /\ \A s \in Setups : s.threads \in Workers
<1>1. IsFiniteSet(Producers) /\ IsFiniteSet(Workers) /\ IsFiniteSet(Sinks)
  BY PoolAssumption
<1>2. IsFiniteSet(Actors)
  BY <1>1, FS_AddElement DEF Actors
<1>3. Cardinality(Workers) \in Nat /\ Cardinality(Sinks) \in Nat
  BY <1>1, FS_CardinalityType
<1>4. Workers = 1 .. Cardinality(Workers) /\ Sinks = 1 .. Cardinality(Sinks) /\ Sinks # {}
  BY PoolAssumption
<1>5. 1 \in Sinks
  BY <1>3, <1>4
<1>6. \A s \in Setups : s.threads \in Workers
  BY PoolAssumption
<1> QED BY <1>1, <1>2, <1>3, <1>4, <1>5, <1>6

\* The number of workers is one of their numbers.
LEMMA ThreadsAre ==
  ASSUME PoolTypes
  PROVE  /\ threads \in Workers /\ threads \in Nat /\ threads >= 1
         /\ started \in Nat /\ started <= threads /\ stops \in Nat /\ stops <= threads
         /\ \A w \in Workers : w \in Nat /\ w >= 1
         /\ \A w \in 1 .. threads : w \in Workers
<1>1. threads \in Workers
  BY SetsAre DEF PoolTypes, Setup
<1>2. PICK n \in Nat : Workers = 1 .. n
  BY SetsAre
<1> QED BY <1>1, <1>2 DEF PoolTypes

LEMMA TypesInit == Init => PoolTypes /\ HandsFit
<1> SUFFICES ASSUME Init PROVE PoolTypes /\ HandsFit
  OBVIOUS
<1>1. Line = <<>>
  BY NewIsEmpty DEF Init, Line
<1>2. Setup \in Setups
  BY PoolAssumption DEF Init, Setup
<1>3. threads \in Nat
  BY <1>2, SetsAre DEF Setup
<1>4. /\ started = 0 /\ stops = 0 /\ discards = 0
      /\ calls = [p \in Producers |-> 0] /\ wpc = [w \in Workers |-> "none"]
      /\ hand = [w \in Workers |-> Nothing] /\ at = [w \in Workers |-> 1]
      /\ posted = {} /\ refused = {} /\ handled = {}
      /\ sunk = [s \in Sinks |-> <<>>] /\ flushed = [s \in Sinks |-> 0] /\ missed = {}
  BY DEF Init
<1>5. PoolTypes
  BY <1>1, <1>2, <1>3, <1>4, SetsAre DEF PoolTypes, WpcValues
<1>6. HandsFit
  BY <1>4 DEF HandsFit, Fits
<1> QED BY <1>5, <1>6

\* The setup never changes.
LEMMA SetupKept ==
  ASSUME PoolInv, PoolTypes, [Next]_vars
  PROVE  threads' = threads /\ mingw' = mingw /\ policy' = policy
<1>1. CASE UNCHANGED vars
  BY <1>1 DEF vars, queueVars, setupVars, poolVars
<1>2. ASSUME NEW a \in Actors, Puts(a) \/ Refuses(a) \/ Goes(a)
      PROVE  threads' = threads /\ mingw' = mingw /\ policy' = policy
  BY <1>2 DEF Puts, Refuses, Goes, PostAsyncMsg, EnqueueWaits, Notify, Discard, PostTerminate,
              Join, SpuriousActor, queueVars, setupVars, poolVars
<1>3. ASSUME NEW p \in Producers, Comes(p)
      PROVE  threads' = threads /\ mingw' = mingw /\ policy' = policy
  BY <1>3 DEF Comes, Call, Return, queueVars, setupVars
<1>4. CASE Begins
  BY <1>4 DEF Begins, StartWorker, StartWorkerThrows, DropPool, queueVars, setupVars
<1>5. ASSUME NEW w \in Workers, Takes(w) \/ BackendSinkIt(w) \/ BackendFlush(w) \/ Turns(w)
      PROVE  threads' = threads /\ mingw' = mingw /\ policy' = policy
  BY <1>5 DEF Takes, BackendSinkIt, BackendFlush, Turns, DequeueWaits, WorkerNotify,
              SpuriousWorker, queueVars, setupVars, poolVars
<1> QED BY <1>1, <1>2, <1>3, <1>4, <1>5, Steps

\* The oldest message, and what is left without it.
LEMMA LineParts ==
  ASSUME NEW S, NEW c \in Seq(S), c # <<>>
  PROVE  /\ c[1] \in S /\ Tail(c) \in Seq(S) /\ Len(c) \in Nat /\ Len(c) >= 1
         /\ Len(Tail(c)) = Len(c) - 1
         /\ \A i \in 1 .. Len(c) - 1 : Tail(c)[i] = c[i + 1]
OBVIOUS

LEMMA TakesTyped ==
  ASSUME PoolInv, PoolTypes, HandsFit, NEW w \in Workers, Takes(w)
  PROVE  PoolTypes' /\ HandsFit'
<1>1. Line[1] \in Message /\ Tail(Line) \in Seq(Message)
  BY LineParts DEF PoolTypes, Takes
<1>2. AfterTaking(Line[1]) \in {"ended", "flush", "log"}
  BY DEF AfterTaking
<1>3. Setup' = Setup /\ threads' = threads /\ started' = started
  BY DEF Takes, Setup, setupVars, poolVars
<1>4. wpc' \in [Workers -> WpcValues] /\ hand' \in [Workers -> Message \cup {Nothing}]
  BY <1>1, <1>2 DEF Takes, PoolTypes, WpcValues
<1>5. PoolTypes'
  BY <1>1, <1>3, <1>4 DEF Takes, PoolTypes, poolVars, sinkVars, historyVars
<1>6. Line[1] # Terminate => Line[1] \in Posts
  BY <1>1 DEF Message
<1>7. /\ at' = at /\ hand'[w] = Line[1] /\ wpc[w] = "dequeue"
      /\ wpc'[w] = "notify" \/ wpc'[w] = AfterTaking(Line[1])
      /\ \A v \in Workers \ {w} : hand'[v] = hand[v] /\ wpc'[v] = wpc[v]
  BY DEF Takes, PoolTypes
<1>8. Fits(w)'
  BY <1>1, <1>3, <1>6, <1>7 DEF HandsFit, Fits, AfterTaking
<1>9. \A v \in Workers \ {w} : Fits(v)'
  BY <1>3, <1>7 DEF HandsFit, Fits
<1> QED BY <1>5, <1>8, <1>9 DEF HandsFit

LEMMA PutsTyped ==
  ASSUME PoolInv, PoolTypes, HandsFit, NEW a \in Actors, Puts(a)
  PROVE  PoolTypes' /\ HandsFit'
<1>1. msg[a] \in Message /\ (msg[a] # Terminate => msg[a] \in Posts)
  BY PosterIs DEF Puts, Active
<1>2. Line' \in Seq(Message)
  <2>1. CASE Line' = Append(Line, msg[a])
    BY <1>1, <2>1 DEF PoolTypes
  <2>2. CASE Line # <<>> /\ Line' = Append(Tail(Line), msg[a])
    BY <1>1, <2>2, LineParts DEF PoolTypes
  <2> QED BY <2>1, <2>2 DEF Puts
<1>3. Setup' = Setup /\ threads' = threads /\ started' = started
  BY DEF Puts, Setup, setupVars, poolVars
<1>4. wpc' \in [Workers -> WpcValues]
  BY DEF Puts, WakesWorker
<1>5. PoolTypes'
  BY <1>1, <1>2, <1>3, <1>4 DEF Puts, PoolTypes, poolVars, sinkVars
<1>6. HandsFit'
  BY <1>3 DEF Puts, WakesWorker, HandsFit, Fits
<1> QED BY <1>5, <1>6

\* A worker that has done with its message.
LEMMA DoneIs ==
  ASSUME PoolTypes, HandsFit, NEW w \in Workers, wpc[w] \in {"log", "flush"}, WorkerDone(w)
  PROVE  /\ hand[w] \in Posts /\ handled' = handled \cup {hand[w]} /\ handled' \subseteq Posts
         /\ wpc' \in [Workers -> WpcValues] /\ hand' \in [Workers -> Message \cup {Nothing}]
         /\ at' \in [Workers -> Sinks]
         /\ wpc'[w] = "dequeue" /\ hand'[w] = Nothing /\ at'[w] = 1
         /\ \A v \in Workers \ {w} : wpc'[v] = wpc[v] /\ hand'[v] = hand[v] /\ at'[v] = at[v]
<1>1. hand[w] \in Posts
  BY DEF HandsFit, Fits
<1> QED BY <1>1, SetsAre DEF WorkerDone, PoolTypes, WpcValues

\* What BackendSinkIt does, by whether there is a next sink.
SinksOne(w) ==
  \/ sunk' = [sunk EXCEPT ![at[w]] = Append(sunk[at[w]], hand[w])]
  \/ at[w] \in Throwing /\ sunk' = sunk
NextSink(w) ==
  at[w] + 1 \in Sinks /\ at' = [at EXCEPT ![w] = at[w] + 1] /\ UNCHANGED <<wpc, hand, handled>>
NowFlush(w) ==
  /\ at[w] + 1 \notin Sinks /\ hand[w].kind = "urgent"
  /\ at' = [at EXCEPT ![w] = 1] /\ wpc' = [wpc EXCEPT ![w] = "flush"]
  /\ UNCHANGED <<hand, handled>>

LEMMA SinkItIs ==
  ASSUME NEW w \in Workers, BackendSinkIt(w)
  PROVE  /\ wpc[w] = "log" /\ SinksOne(w)
         /\ \/ NextSink(w) \/ NowFlush(w)
            \/ at[w] + 1 \notin Sinks /\ hand[w].kind # "urgent" /\ WorkerDone(w)
         /\ UNCHANGED <<queueVars, poolVars, actorVars, flushed, missed, posted, refused>>
BY DEF BackendSinkIt, SinksOne, NextSink, NowFlush

\* What BackendFlush does to the sink it is at.
FlushesOne(w) ==
  \/ flushed' = [flushed EXCEPT ![at[w]] = Len(sunk[at[w]])] /\ missed' = missed
  \/ /\ at[w] \in Throwing /\ missed' = missed \cup {<<hand[w], at[w]>>}
     /\ flushed' = flushed

LEMMA FlushIs ==
  ASSUME NEW w \in Workers, BackendFlush(w)
  PROVE  /\ wpc[w] = "flush" /\ FlushesOne(w)
         /\ NextSink(w) \/ (at[w] + 1 \notin Sinks /\ WorkerDone(w))
         /\ UNCHANGED <<queueVars, poolVars, actorVars, sunk, posted, refused>>
BY DEF BackendFlush, FlushesOne, NextSink

LEMMA WorkTyped ==
  ASSUME PoolInv, PoolTypes, HandsFit, NEW w \in Workers, BackendSinkIt(w) \/ BackendFlush(w)
  PROVE  PoolTypes' /\ HandsFit'
<1>0. wpc[w] \in {"log", "flush"} /\ hand[w] \in Posts /\ at[w] \in Sinks
  BY SinkItIs, FlushIs DEF HandsFit, Fits, PoolTypes
<1>1. /\ UNCHANGED <<q, discards, threads, mingw, policy, started, stops, calls, posted, refused>>
      /\ NextSink(w) \/ NowFlush(w) \/ WorkerDone(w)
  BY SinkItIs, FlushIs DEF queueVars, setupVars, poolVars, actorVars
<1>2. /\ sunk' \in [Sinks -> Seq(Posts)] /\ flushed' \in [Sinks -> Nat]
      /\ missed' \subseteq Posts \X Throwing
  <2>1. CASE BackendSinkIt(w)
    <3>1. Append(sunk[at[w]], hand[w]) \in Seq(Posts)
      BY <1>0 DEF PoolTypes
    <3>2. SinksOne(w) /\ flushed' = flushed /\ missed' = missed
      BY <2>1, SinkItIs
    <3>3. sunk' \in [Sinks -> Seq(Posts)]
      <4>1. sunk \in [Sinks -> Seq(Posts)]
        BY DEF PoolTypes
      <4>2. CASE sunk' = [sunk EXCEPT ![at[w]] = Append(sunk[at[w]], hand[w])]
        BY <1>0, <3>1, <4>1, <4>2
      <4> QED BY <3>2, <4>1, <4>2 DEF SinksOne
    <3> QED BY <3>2, <3>3 DEF PoolTypes
  <2>2. CASE BackendFlush(w)
    <3>1. Len(sunk[at[w]]) \in Nat
      BY <1>0 DEF PoolTypes
    <3>2. FlushesOne(w) /\ sunk' = sunk
      BY <2>2, FlushIs
    <3>3. flushed' \in [Sinks -> Nat]
      BY <1>0, <3>1, <3>2 DEF FlushesOne, PoolTypes
    <3>4. missed' \subseteq Posts \X Throwing
      BY <1>0, <3>2 DEF FlushesOne, PoolTypes
    <3> QED BY <3>2, <3>3, <3>4 DEF PoolTypes
  <2> QED BY <2>1, <2>2
<1>3. Line' = Line /\ Setup' = Setup
  BY <1>1 DEF Line, Setup
<1>4. CASE NextSink(w)
  <2>1. /\ UNCHANGED <<wpc, hand, handled>> /\ at' \in [Workers -> Sinks]
        /\ \A v \in Workers \ {w} : at'[v] = at[v]
    BY <1>4 DEF NextSink, PoolTypes
  <2>2. HandsFit'
    BY <1>0, <1>1, <2>1 DEF HandsFit, Fits
  <2> QED BY <1>1, <1>2, <1>3, <2>1, <2>2 DEF PoolTypes
<1>5. CASE NowFlush(w)
  <2>1. /\ UNCHANGED <<hand, handled>> /\ at' \in [Workers -> Sinks]
        /\ wpc' \in [Workers -> WpcValues] /\ wpc'[w] = "flush"
        /\ \A v \in Workers \ {w} : at'[v] = at[v] /\ wpc'[v] = wpc[v]
    BY <1>5, SetsAre DEF NowFlush, PoolTypes, WpcValues
  <2>2. HandsFit'
    BY <1>0, <1>1, <2>1 DEF HandsFit, Fits
  <2> QED BY <1>1, <1>2, <1>3, <2>1, <2>2 DEF PoolTypes
<1>6. CASE WorkerDone(w)
  <2>1. /\ handled' \subseteq Posts
        /\ wpc' \in [Workers -> WpcValues] /\ hand' \in [Workers -> Message \cup {Nothing}]
        /\ at' \in [Workers -> Sinks]
        /\ wpc'[w] = "dequeue" /\ hand'[w] = Nothing /\ at'[w] = 1
        /\ \A v \in Workers \ {w} : wpc'[v] = wpc[v] /\ hand'[v] = hand[v] /\ at'[v] = at[v]
    BY <1>0, <1>6, DoneIs
  <2>2. HandsFit'
    BY <1>0, <1>1, <2>1 DEF HandsFit, Fits
  <2> QED BY <1>1, <1>2, <1>3, <2>1, <2>2 DEF PoolTypes
<1> QED BY <1>1, <1>4, <1>5, <1>6

\* The steps that leave the messages where they are.
LEMMA MovesTyped ==
  ASSUME PoolTypes, HandsFit, UNCHANGED <<q, hand, at, posted, handled, sunk, flushed, missed>>,
         UNCHANGED <<threads, mingw, policy>>,
         discards' \in Nat, started' \in 0 .. threads, started' >= started,
         stops' \in 0 .. threads,
         calls' \in [Producers -> Nat], refused' \subseteq Posts,
         wpc' \in [Workers -> WpcValues],
         \A w \in Workers : wpc'[w] # wpc[w] =>
           /\ \/ wpc[w] \in {"dequeue", "waiting", "none"} /\ wpc'[w] \in {"dequeue", "waiting"}
              \/ wpc[w] = "notify" /\ wpc'[w] = AfterTaking(hand[w])
           /\ wpc[w] = "none" => w <= started'
  PROVE  PoolTypes' /\ HandsFit'
<1>1. Line' = Line /\ Setup' = Setup
  BY DEF Line, Setup
<1>2. PoolTypes'
  BY <1>1 DEF PoolTypes
<1>3. ASSUME NEW w \in Workers PROVE Fits(w)'
  <2>0. Fits(w) /\ w \in Nat /\ started \in Nat /\ started' \in Nat
    BY ThreadsAre DEF HandsFit
  <2>1. CASE wpc'[w] = wpc[w]
    BY <2>0, <2>1 DEF Fits
  <2>2. CASE wpc[w] \in {"dequeue", "waiting", "none"} /\ wpc'[w] \in {"dequeue", "waiting"}
             /\ wpc'[w] # wpc[w]
    BY <2>0, <2>2 DEF Fits
  <2>3. CASE wpc[w] = "notify" /\ wpc'[w] = AfterTaking(hand[w])
    <3>1. hand[w] # Terminate => hand[w] \in Posts
      BY <2>0, <2>3 DEF Fits, Message
    <3> QED BY <2>0, <2>3, <3>1 DEF Fits, AfterTaking
  <2> QED BY <2>1, <2>2, <2>3
<1> QED BY <1>2, <1>3 DEF HandsFit

LEMMA GoesTyped ==
  ASSUME PoolInv, PoolTypes, HandsFit, NEW a \in Actors, Goes(a)
  PROVE  PoolTypes' /\ HandsFit'
<1>0. /\ threads \in Nat /\ started \in Nat /\ started <= threads
      /\ stops \in 0 .. threads /\ started \in 0 .. threads /\ discards \in Nat
      /\ wpc \in [Workers -> WpcValues] /\ calls \in [Producers -> Nat] /\ refused \subseteq Posts
  BY ThreadsAre DEF PoolTypes
<1>1. CASE PostTerminate(a)
  <2>1. /\ stops' = stops \/ (stops < threads /\ stops' = stops + 1)
        /\ UNCHANGED <<queueVars, threads, started, refs, calls, workerVars, sinkVars, historyVars>>
    BY <1>1 DEF PostTerminate
  <2>2. stops' \in 0 .. threads
    BY <1>0, <2>1
  <2> QED BY <1>0, <2>1, <2>2, MovesTyped
          DEF queueVars, setupVars, workerVars, sinkVars, historyVars
<1>2. CASE Discard(a)
  <2>1. discards' \in Nat
    BY <1>0, <1>2 DEF Discard
  <2> QED BY <1>0, <1>2, <2>1, MovesTyped
          DEF Discard, setupVars, poolVars, workerVars, sinkVars, historyVars
<1>3. CASE Notify(a)
  <2>1. WakesWorker
    BY <1>0, <1>3, PushWakes DEF Notify
  <2> QED BY <1>0, <1>3, <2>1, MovesTyped
          DEF Notify, WakesWorker, queueVars, setupVars, poolVars, sinkVars, historyVars
<1>4. CASE PostAsyncMsg(a) /\ EnqueueWaits(a)
  BY <1>0, <1>4, MovesTyped
  DEF PostAsyncMsg, EnqueueWaits, queueVars, setupVars, poolVars, sinkVars
<1>5. CASE Join(a) \/ SpuriousActor(a)
  BY <1>0, <1>5, MovesTyped
  DEF Join, SpuriousActor, queueVars, setupVars, poolVars, workerVars, sinkVars, historyVars
<1> QED BY <1>1, <1>2, <1>3, <1>4, <1>5 DEF Goes

LEMMA OthersTyped ==
  ASSUME PoolInv, PoolTypes, HandsFit,
         (\E p \in Producers : Comes(p)) \/ Begins \/ \E w \in Workers : Turns(w)
  PROVE  PoolTypes' /\ HandsFit'
<1>0. /\ threads \in Nat /\ started \in Nat /\ started <= threads
      /\ stops \in 0 .. threads /\ started \in 0 .. threads /\ discards \in Nat
      /\ wpc \in [Workers -> WpcValues] /\ calls \in [Producers -> Nat] /\ refused \subseteq Posts
  BY ThreadsAre DEF PoolTypes
<1>1. ASSUME NEW p \in Producers, Comes(p)
      PROVE  PoolTypes' /\ HandsFit'
  <2>1. calls' \in [Producers -> Nat]
    BY <1>0, <1>1 DEF Comes, Call, Return
  <2> QED BY <1>0, <1>1, <2>1, MovesTyped
          DEF Comes, Call, Return, queueVars, setupVars, workerVars, sinkVars, historyVars
<1>2. CASE StartWorker
  <2>1. /\ started < threads /\ started' = started + 1
        /\ wpc' = [wpc EXCEPT ![started + 1] = "dequeue"]
        /\ UNCHANGED <<queueVars, threads, stops, calls, hand, at, sinkVars, historyVars>>
    BY <1>2 DEF StartWorker
  <2>2. started' \in 0 .. threads /\ started' >= started /\ started + 1 \in Workers
    BY <1>0, <2>1, ThreadsAre
  <2>3. wpc[started + 1] = "none"
    <3>1. started + 1 > started
      BY <1>0
    <3> QED BY <2>2, <3>1 DEF HandsFit, Fits
  <2>4. wpc' \in [Workers -> WpcValues]
    BY <1>0, <2>1 DEF WpcValues
  <2>5. \A w \in Workers : wpc'[w] # wpc[w] => w = started' /\ wpc[w] = "none" /\ wpc'[w] = "dequeue"
    BY <1>0, <2>1, <2>3
  <2> QED BY <1>0, <2>1, <2>2, <2>4, <2>5, MovesTyped
          DEF queueVars, setupVars, sinkVars, historyVars
<1>3. CASE StartWorkerThrows \/ DropPool
  BY <1>0, <1>3, MovesTyped
  DEF StartWorkerThrows, DropPool, queueVars, setupVars, workerVars, sinkVars, historyVars
<1>4. ASSUME NEW w \in Workers, Turns(w)
      PROVE  PoolTypes' /\ HandsFit'
  <2>1. \E x \in {"waiting", "dequeue", AfterTaking(hand[w])} :
          /\ wpc' = [wpc EXCEPT ![w] = x]
          /\ \/ wpc[w] \in {"dequeue", "waiting"} /\ x \in {"dequeue", "waiting"}
             \/ wpc[w] = "notify" /\ x = AfterTaking(hand[w])
    BY <1>4 DEF Turns, DequeueWaits, WorkerNotify, SpuriousWorker
  <2>2. wpc' \in [Workers -> WpcValues]
    BY <1>0, <2>1 DEF WpcValues, AfterTaking
  <2>3. \A v \in Workers : wpc'[v] # wpc[v] =>
          \/ wpc[v] \in {"dequeue", "waiting"} /\ wpc'[v] \in {"dequeue", "waiting"}
          \/ wpc[v] = "notify" /\ wpc'[v] = AfterTaking(hand[v])
    BY <1>0, <2>1
  <2>4. /\ UNCHANGED <<queueVars, poolVars, msg, calls, hand, at, sinkVars, historyVars>>
    BY <1>4 DEF Turns, DequeueWaits, WorkerNotify, SpuriousWorker, actorVars
  <2> QED BY <1>0, <2>2, <2>3, <2>4, MovesTyped
          DEF queueVars, setupVars, poolVars, sinkVars, historyVars
<1> QED BY <1>1, <1>2, <1>3, <1>4 DEF Begins

LEMMA TypesNext ==
  ASSUME PoolInv, PoolTypes, HandsFit, [Next]_vars
  PROVE  PoolTypes' /\ HandsFit'
<1>1. CASE UNCHANGED vars
  BY <1>1 DEF vars, queueVars, setupVars, poolVars, actorVars, workerVars, sinkVars, historyVars,
              PoolTypes, HandsFit, Fits, Line, Setup
<1>2. ASSUME NEW a \in Actors, Puts(a) \/ Refuses(a) \/ Goes(a)
      PROVE  PoolTypes' /\ HandsFit'
  <2>1. CASE Refuses(a)
    <3>1. refused' \subseteq Posts
      BY <2>1 DEF Refuses, PoolTypes
    <3>2. /\ UNCHANGED <<q, hand, at, posted, handled, sunk, flushed, missed, wpc, calls>>
          /\ UNCHANGED <<threads, mingw, policy, discards, started, stops>>
      BY <2>1 DEF Refuses, queueVars, setupVars, poolVars, workerVars, sinkVars
    <3>3. /\ discards \in Nat /\ started \in 0 .. threads /\ stops \in 0 .. threads
          /\ started >= started /\ wpc \in [Workers -> WpcValues] /\ calls \in [Producers -> Nat]
      BY ThreadsAre DEF PoolTypes
    <3> QED BY <3>1, <3>2, <3>3, MovesTyped
  <2> QED BY <1>2, <2>1, PutsTyped, GoesTyped
<1>3. ASSUME NEW w \in Workers, Takes(w) \/ BackendSinkIt(w) \/ BackendFlush(w)
      PROVE  PoolTypes' /\ HandsFit'
  BY <1>3, TakesTyped, WorkTyped
<1> QED BY <1>1, <1>2, <1>3, OthersTyped, Steps

-----------------------------------------------------------------------------
(* One thread ends the pool, when nobody holds it.                         *)

Ending(a) == pc[a] \in {"destroy", "join"} \/ msg[a] = Terminate

OneEnds == \A a, b \in Actors : Ending(a) /\ Ending(b) => a = b

EndsUnheld ==
  (\E a \in Actors : Ending(a)) \/ (\E w \in Workers : hand[w] = Terminate) => refs = {}

\* Nobody begins to end the pool.
LEMMA NobodyBegins ==
  ASSUME OneEnds, EndsUnheld, refs' = refs,
         \A a \in Actors : Ending(a)' => Ending(a),
         \A w \in Workers : hand'[w] = Terminate => hand[w] = Terminate \/ refs = {}
  PROVE  OneEnds' /\ EndsUnheld'
BY DEF OneEnds, EndsUnheld

LEMMA EndsInit == Init => OneEnds /\ EndsUnheld
<1> SUFFICES ASSUME Init PROVE OneEnds /\ EndsUnheld
  OBVIOUS
<1>1. /\ msg = [a \in Actors |-> Nothing] /\ hand = [w \in Workers |-> Nothing]
      /\ pc = [a \in Actors |-> IF a = Main THEN "construct" ELSE "idle"]
  BY DEF Init
<1> QED BY <1>1, ConstantsAre, StopIsNoPost DEF OneEnds, EndsUnheld, Ending

LEMMA ActorsEnd ==
  ASSUME PoolInv, PoolTypes, OneEnds, EndsUnheld, NEW a \in Actors, Puts(a) \/ Refuses(a) \/ Goes(a)
  PROVE  OneEnds' /\ EndsUnheld'
<1>0. Types
  BY DEF PoolInv
<1>1. refs' = refs /\ hand' = hand
  BY DEF Puts, Refuses, Goes, PostAsyncMsg, Notify, Discard, PostTerminate, Join, SpuriousActor,
         poolVars, workerVars
<1>2. CASE PostTerminate(a)
  <2>1. Ending(a)
    BY <1>2 DEF PostTerminate, Ending
  <2>2. \A b \in Actors \ {a} : pc'[b] = pc[b] /\ msg'[b] = msg[b]
    BY <1>0, <1>2 DEF PostTerminate, Types
  <2> QED BY <1>1, <2>1, <2>2, NobodyBegins DEF Ending
<1>3. CASE ~PostTerminate(a)
  <2>1. msg' = msg
    BY <1>3 DEF Puts, Refuses, Goes, PostAsyncMsg, Notify, Discard, Join, SpuriousActor
  <2>2. \E x \in PcValues \ {"destroy", "join"} : pc' = [pc EXCEPT ![a] = x]
    BY <1>3 DEF Puts, Refuses, Goes, EnqueueWaits, Notify, Discard, Join, SpuriousActor, PcValues
  <2>3. \A b \in Actors : Ending(b)' => Ending(b)
    BY <1>0, <2>1, <2>2 DEF Ending, Types
  <2> QED BY <1>1, <2>3, NobodyBegins
<1> QED BY <1>2, <1>3

\* A call brings the next message of its producer.
LEMMA CallIs ==
  ASSUME NEW p \in Producers, Call(p), refs # {}
  PROVE  /\ calls' = [calls EXCEPT ![p] = calls[p] + 1]
         /\ \E m \in Posts : /\ m.by = p /\ m.n = calls[p] + 1
                            /\ pc' = [pc EXCEPT ![p] = "post"] /\ msg' = [msg EXCEPT ![p] = m]
<1> DEFINE n == calls[p] + 1  m == [kind |-> Program[p][n], by |-> p, n |-> n]
<1>1. /\ n \in DOMAIN Program[p] /\ calls' = [calls EXCEPT ![p] = n]
      /\ pc' = [pc EXCEPT ![p] = "post"] /\ msg' = [msg EXCEPT ![p] = m]
  BY DEF Call
<1>2. m \in {[kind |-> Program[p][i], by |-> p, n |-> i] : i \in DOMAIN Program[p]}
  BY <1>1
<1>3. m \in Posts /\ m.by = p /\ m.n = n
  BY <1>2 DEF Posts
<1> QED BY <1>1, <1>3

LEMMA HoldersEnd ==
  ASSUME PoolInv, OneEnds, EndsUnheld, (\E p \in Producers : Comes(p)) \/ Begins
  PROVE  OneEnds' /\ EndsUnheld'
<1>0. /\ Types /\ MadeByMain /\ hand' = hand /\ Producers \subseteq Actors /\ Main \in Actors
      /\ Main \notin Producers
  BY ConstantsAre DEF PoolInv, Comes, Begins, Call, Return, StartWorker, StartWorkerThrows, DropPool,
                      workerVars, Actors
<1>1. ASSUME NEW p \in Producers, Call(p) PROVE OneEnds' /\ EndsUnheld'
  <2>1. CASE refs = {}
    <3>1. UNCHANGED <<refs, pc, msg>>
      BY <1>1, <2>1 DEF Call
    <3> QED BY <1>0, <3>1 DEF OneEnds, EndsUnheld, Ending
  <2>2. CASE refs # {}
    <3>1. PICK m \in Posts : pc' = [pc EXCEPT ![p] = "post"] /\ msg' = [msg EXCEPT ![p] = m]
      BY <1>1, <2>2, CallIs
    <3>2. \A a \in Actors : ~Ending(a)'
      BY <1>0, <2>2, <3>1, StopIsNoPost DEF EndsUnheld, Ending, Types
    <3> QED BY <1>0, <2>2, <3>2 DEF OneEnds, EndsUnheld
  <2> QED BY <2>1, <2>2
<1>2. ASSUME NEW p \in Producers, Return(p) PROVE OneEnds' /\ EndsUnheld'
  <2>1. /\ refs' = refs \ {p} /\ msg' = [msg EXCEPT ![p] = Nothing]
        /\ pc' = [pc EXCEPT ![p] = AfterRelease(p)] /\ pc[p] = "posted" /\ msg[p] # Terminate
    BY <1>2 DEF Return
  <2>2. p \in refs
    BY <2>1 DEF PoolInv, CallersHold, Active
  <2>3. (\A a \in Actors : ~Ending(a)) /\ \A w \in Workers : hand[w] # Terminate
    BY <2>2 DEF EndsUnheld
  <2>4. \A a \in Actors : Ending(a)' => a = p /\ refs = {p}
    BY <1>0, <2>1, <2>3, ConstantsAre, StopIsNoPost DEF Ending, AfterRelease, Types
  <2> QED BY <1>0, <2>1, <2>3, <2>4 DEF OneEnds, EndsUnheld
<1>3. CASE DropPool
  <2>1. refs' = refs \ {Main} /\ msg' = msg /\ pc' = [pc EXCEPT ![Main] = AfterRelease(Main)]
    BY <1>3 DEF DropPool
  <2>2. CASE refs = {Main}
    <3>1. (\A a \in Actors : ~Ending(a)) /\ \A w \in Workers : hand[w] # Terminate
      BY <2>2 DEF EndsUnheld
    <3>2. \A a \in Actors : Ending(a)' => a = Main
      BY <1>0, <2>1, <3>1 DEF Ending, Types
    <3> QED BY <1>0, <2>1, <2>2, <3>1, <3>2 DEF OneEnds, EndsUnheld
  <2>3. CASE refs # {Main}
    <3>1. \A a \in Actors : Ending(a)' => Ending(a)
      BY <1>0, <2>1, <2>3 DEF Ending, AfterRelease, Types
    <3> QED BY <1>0, <2>1, <3>1 DEF OneEnds, EndsUnheld
  <2> QED BY <2>2, <2>3
<1>4. CASE StartWorker \/ StartWorkerThrows
  <2>1. /\ msg' = msg /\ refs' \in {refs, {}}
        /\ \E x \in {"owner", "construct", "done", "aborted"} : pc' = [pc EXCEPT ![Main] = x]
    BY <1>4 DEF StartWorker, StartWorkerThrows
  <2>2. \A a \in Actors : Ending(a)' => Ending(a)
    BY <1>0, <2>1 DEF Ending, Types
  <2> QED BY <1>0, <2>1, <2>2 DEF OneEnds, EndsUnheld
<1> QED BY <1>1, <1>2, <1>3, <1>4 DEF Comes, Begins

LEMMA EndsNext ==
  ASSUME PoolInv, PoolTypes, HandsFit, OneEnds, EndsUnheld, [Next]_vars
  PROVE  OneEnds' /\ EndsUnheld'
<1>0. Types /\ hand \in [Workers -> Message \cup {Nothing}]
  BY DEF PoolInv, PoolTypes
<1>1. CASE UNCHANGED vars
  BY <1>1 DEF vars, poolVars, actorVars, workerVars, OneEnds, EndsUnheld, Ending
<1>2. ASSUME NEW w \in Workers, Takes(w) PROVE OneEnds' /\ EndsUnheld'
  <2>1. refs' = refs /\ msg' = msg /\ WakesActor /\ hand' = [hand EXCEPT ![w] = Line[1]]
    BY <1>2 DEF Takes, poolVars
  <2>2. \A a \in Actors : Ending(a)' => Ending(a)
    BY <2>1 DEF Ending, WakesActor
  <2>3. Line[1] = Terminate => refs = {}
    <3>1. 1 \in DOMAIN Line
      BY <1>2, LineParts DEF Takes, PoolTypes
    <3> QED BY <3>1 DEF PoolInv, EndedUnheld, HasStop, Line
  <2>4. \A v \in Workers : hand'[v] = Terminate => hand[v] = Terminate \/ refs = {}
    BY <1>0, <2>1, <2>3
  <2> QED BY <2>1, <2>2, <2>4, NobodyBegins
<1>3. ASSUME NEW w \in Workers, BackendSinkIt(w) \/ BackendFlush(w) PROVE OneEnds' /\ EndsUnheld'
  <2>1. UNCHANGED <<refs, pc, msg>> /\ (NextSink(w) \/ NowFlush(w) \/ WorkerDone(w))
    BY <1>3, SinkItIs, FlushIs DEF poolVars, actorVars
  <2>2. \A v \in Workers : hand'[v] = Terminate => hand[v] = Terminate
    BY <1>0, <2>1, ConstantsAre, StopIsNoPost DEF NextSink, NowFlush, WorkerDone
  <2> QED BY <2>1, <2>2, NobodyBegins DEF Ending
<1>4. ASSUME NEW w \in Workers, Turns(w) PROVE OneEnds' /\ EndsUnheld'
  <2>1. refs' = refs /\ msg' = msg /\ hand' = hand
    BY <1>4 DEF Turns, DequeueWaits, WorkerNotify, SpuriousWorker, poolVars, actorVars
  <2>2. \A a \in Actors : pc'[a] # pc[a] => pc'[a] = "post"
    BY <1>0, <1>4, NotifyMoves DEF Turns, DequeueWaits, WorkerNotify, SpuriousWorker, actorVars
  <2> QED BY <2>1, <2>2, NobodyBegins DEF Ending
<1> QED BY <1>1, <1>2, <1>3, <1>4, ActorsEnd, HoldersEnd, Steps

-----------------------------------------------------------------------------
(* The messages of a producer are numbered by its calls.                   *)

\* Producer p has a message on its way to the queue.
Posting(p) == pc[p] \in {"post", "waiting"} /\ msg[p] # Terminate

OwnCall == \A p \in Producers : Posting(p) => msg[p].n = calls[p]

NotYet ==
  \A m \in posted \cup refused :
    m.n <= calls[m.by] /\ (Posting(m.by) => m.n < calls[m.by])

LEMMA PostIs ==
  ASSUME NEW m \in Posts
  PROVE  m.by \in Producers /\ m.n \in Nat /\ m.kind \in Kinds
<1>1. PICK p \in Producers : \E n \in DOMAIN Program[p] : m = [kind |-> Program[p][n], by |-> p, n |-> n]
  BY DEF Posts
<1>2. PICK n \in DOMAIN Program[p] : m = [kind |-> Program[p][n], by |-> p, n |-> n]
  BY <1>1
<1>3. Program[p] \in Seq(Kinds)
  BY PoolAssumption
<1>4. n \in Nat /\ Program[p][n] \in Kinds
  BY <1>3
<1> QED BY <1>2, <1>4

\* Calls are only begun, and a producer that newly posts has counted its call.
LEMMA CallsNumber ==
  ASSUME PoolInv, PoolTypes, [Next]_vars, NEW p \in Producers
  PROVE  /\ calls'[p] >= calls[p]
         /\ Posting(p)' =>
              \/ Posting(p) /\ msg'[p] = msg[p] /\ calls'[p] = calls[p]
              \/ calls'[p] > calls[p] /\ msg'[p].n = calls'[p]
<1>0. Types /\ calls[p] \in Nat /\ p \in Actors /\ p # Main /\ Main \in Actors
  BY ConstantsAre DEF PoolInv, PoolTypes, Actors
<1> DEFINE Goal == /\ calls'[p] >= calls[p]
                   /\ Posting(p)' =>
                        \/ Posting(p) /\ msg'[p] = msg[p] /\ calls'[p] = calls[p]
                        \/ calls'[p] > calls[p] /\ msg'[p].n = calls'[p]
<1>1. ASSUME calls' = calls, msg' = msg, pc'[p] \in {"post", "waiting"} => pc[p] \in {"post", "waiting"}
      PROVE  Goal
  BY <1>0, <1>1 DEF Posting
<1>2. ASSUME calls' = calls, ~(pc'[p] \in {"post", "waiting"})
      PROVE  Goal
  BY <1>0, <1>2 DEF Posting
<1>3. CASE UNCHANGED vars
  BY <1>1, <1>3 DEF vars, actorVars
<1>4. ASSUME NEW a \in Actors, Puts(a) \/ Refuses(a) \/ Goes(a) PROVE Goal
  <2>1. calls' = calls
    BY <1>4 DEF Puts, Refuses, Goes, PostAsyncMsg, Notify, Discard, PostTerminate, Join, SpuriousActor
  <2>2. CASE PostTerminate(a)
    <3>1. \/ msg' = [msg EXCEPT ![a] = Terminate] /\ pc' = [pc EXCEPT ![a] = "post"]
          \/ msg' = [msg EXCEPT ![a] = Nothing] /\ pc' = [pc EXCEPT ![a] = "join"]
      BY <2>2 DEF PostTerminate
    <3> QED BY <1>0, <2>1, <3>1 DEF Posting, Types
  <2>3. CASE ~PostTerminate(a)
    <3>1. /\ msg' = msg
          /\ \E x \in PcValues : /\ pc' = [pc EXCEPT ![a] = x]
                                 /\ x \in {"post", "waiting"} => pc[a] \in {"post", "waiting"}
      BY <1>4, <2>3 DEF Puts, Refuses, Goes, PostAsyncMsg, EnqueueWaits, Notify, Discard, Join,
                        SpuriousActor, PcValues
    <3> QED BY <1>0, <1>1, <2>1, <3>1 DEF Types
  <2> QED BY <2>2, <2>3
<1>5. ASSUME NEW r \in Producers, Call(r) PROVE Goal
  <2>1. CASE refs = {}
    <3>1. /\ calls' = [calls EXCEPT ![r] = calls[r] + 1] /\ pc[r] = "idle"
          /\ UNCHANGED <<pc, msg>>
      BY <1>5, <2>1 DEF Call
    <3> QED BY <1>0, <3>1 DEF Posting, PoolTypes
  <2>2. CASE refs # {}
    <3>1. /\ calls' = [calls EXCEPT ![r] = calls[r] + 1]
          /\ \E m \in Posts : /\ m.by = r /\ m.n = calls[r] + 1
                              /\ pc' = [pc EXCEPT ![r] = "post"] /\ msg' = [msg EXCEPT ![r] = m]
      BY <1>5, <2>2, CallIs
    <3> QED BY <1>0, <3>1 DEF Posting, PoolTypes, Types
  <2> QED BY <2>1, <2>2
<1>6. ASSUME NEW r \in Producers, Return(r) PROVE Goal
  <2>1. /\ calls' = calls /\ msg' = [msg EXCEPT ![r] = Nothing]
        /\ \E x \in {"destroy", "done", "idle"} : pc' = [pc EXCEPT ![r] = x]
    BY <1>6 DEF Return, AfterRelease
  <2> QED BY <1>0, <2>1 DEF Posting, Types
<1>7. CASE Begins
  <2>1. /\ calls' = calls /\ msg' = msg
        /\ \E x \in PcValues : pc' = [pc EXCEPT ![Main] = x]
    BY <1>7 DEF Begins, StartWorker, StartWorkerThrows, DropPool, AfterRelease, PcValues
  <2> QED BY <1>0, <1>1, <2>1 DEF Types
<1>8. ASSUME NEW w \in Workers, Takes(w) \/ Turns(w) PROVE Goal
  <2>1. calls' = calls /\ msg' = msg
    BY <1>8 DEF Takes, Turns, DequeueWaits, WorkerNotify, SpuriousWorker, actorVars
  <2>2. pc'[p] # pc[p] => pc[p] = "waiting" /\ pc'[p] = "post"
    BY <1>0, <1>8, NotifyMoves
    DEF Takes, WakesActor, Turns, DequeueWaits, WorkerNotify, SpuriousWorker, actorVars
  <2> QED BY <1>1, <2>1, <2>2
<1>9. ASSUME NEW w \in Workers, BackendSinkIt(w) \/ BackendFlush(w) PROVE Goal
  BY <1>1, <1>9, SinkItIs, FlushIs DEF actorVars
<1> QED BY <1>3, <1>4, <1>5, <1>6, <1>7, <1>8, <1>9, Steps DEF Comes

\* What is put into the queue, or refused, is in neither history.
LEMMA Fresh ==
  ASSUME PoolInv, PoolTypes, OwnCall, NotYet, NEW a \in Actors, Puts(a) \/ Refuses(a),
         msg[a] # Terminate
  PROVE  /\ a \in Producers /\ msg[a] \in Posts /\ msg[a].by = a /\ msg[a].n = calls[a]
         /\ msg[a] \notin posted \cup refused
         /\ \A m \in posted \cup refused : m.by = a => m.n < msg[a].n
         /\ ~HasStop
<1>1. pc[a] = "post"
  BY DEF Puts, Refuses
<1>2. a \in Producers /\ msg[a] \in Posts /\ msg[a].by = a /\ ~HasStop
  BY <1>1, PosterIs DEF Active
<1>3. Posting(a) /\ msg[a].n = calls[a] /\ calls[a] \in Nat
  BY <1>1, <1>2 DEF Posting, OwnCall, PoolTypes
<1>4. \A m \in posted \cup refused : m.by = a => m.n < msg[a].n
  BY <1>3 DEF NotYet
<1> QED BY <1>2, <1>3, <1>4

LEMMA HistorySteps ==
  ASSUME PoolInv, PoolTypes, [Next]_vars
  PROVE  \/ posted' = posted /\ refused' = refused
         \/ \E a \in Actors : Puts(a)
         \/ \E a \in Actors : Refuses(a)
<1>1. CASE UNCHANGED vars
  BY <1>1 DEF vars, historyVars
<1>2. ASSUME NEW a \in Actors, Goes(a) PROVE posted' = posted /\ refused' = refused
  BY <1>2 DEF Goes, PostAsyncMsg, EnqueueWaits, Notify, Discard, PostTerminate, Join, SpuriousActor,
              historyVars
<1>3. CASE (\E p \in Producers : Comes(p)) \/ Begins
  BY <1>3 DEF Comes, Call, Return, Begins, StartWorker, StartWorkerThrows, DropPool, historyVars
<1>4. ASSUME NEW w \in Workers, Takes(w) \/ BackendSinkIt(w) \/ BackendFlush(w) \/ Turns(w)
      PROVE  posted' = posted /\ refused' = refused
  BY <1>4, SinkItIs, FlushIs DEF Takes, Turns, DequeueWaits, WorkerNotify, SpuriousWorker, historyVars
<1> QED BY <1>1, <1>2, <1>3, <1>4, Steps

LEMMA NumbersNext ==
  ASSUME PoolInv, PoolTypes, PoolTypes', OwnCall, NotYet, [Next]_vars
  PROVE  OwnCall' /\ NotYet'
<1>1. OwnCall'
  <2> SUFFICES ASSUME NEW p \in Producers, Posting(p)' PROVE msg'[p].n = calls'[p]
    BY DEF OwnCall, Posting
  <2> QED BY CallsNumber DEF OwnCall
<1>2. ASSUME NEW m \in posted \cup refused
      PROVE  m.n <= calls'[m.by] /\ (Posting(m.by)' => m.n < calls'[m.by])
  <2>1. m \in Posts /\ m.by \in Producers /\ m.n \in Nat
    BY PostIs DEF PoolTypes
  <2>2. calls[m.by] \in Nat /\ calls'[m.by] \in Nat
    BY <2>1 DEF PoolTypes
  <2>3. m.n <= calls[m.by] /\ (Posting(m.by) => m.n < calls[m.by])
    BY DEF NotYet
  <2>4. /\ calls'[m.by] >= calls[m.by]
        /\ Posting(m.by)' => Posting(m.by) \/ calls'[m.by] > calls[m.by]
    BY <2>1, CallsNumber
  <2> QED BY <2>1, <2>2, <2>3, <2>4
<1>3. ASSUME NEW a \in Actors, Puts(a) \/ Refuses(a), msg[a] # Terminate
      PROVE  msg[a].by = a /\ msg[a].n <= calls'[a] /\ ~Posting(a)'
  <2>1. /\ msg[a].by = a /\ msg[a].n = calls[a] /\ calls[a] \in Nat
    BY <1>3, Fresh DEF PoolTypes
  <2>2. calls' = calls /\ pc'[a] \notin {"post", "waiting"}
    BY <1>3 DEF Puts, Refuses, PoolInv, Types
  <2> QED BY <2>1, <2>2 DEF Posting
<1>4. \A m \in posted' \cup refused' :
        m.n <= calls'[m.by] /\ (Posting(m.by)' => m.n < calls'[m.by])
  <2>1. CASE posted' = posted /\ refused' = refused
    BY <1>2, <2>1
  <2>2. ASSUME NEW a \in Actors, Puts(a) \/ Refuses(a), NEW m \in posted' \cup refused'
        PROVE  m.n <= calls'[m.by] /\ (Posting(m.by)' => m.n < calls'[m.by])
    <3>1. m \in posted \cup refused \/ (m = msg[a] /\ m # Terminate)
      BY <2>2, StopIsNoPost DEF Puts, Refuses
    <3>2. CASE m \in posted \cup refused
      BY <1>2, <3>2
    <3>3. CASE m = msg[a] /\ m # Terminate
      <4>1. m.by = a /\ m.n <= calls'[a] /\ ~Posting(a)'
        BY <1>3, <2>2, <3>3
      <4> QED BY <4>1
    <3> QED BY <3>1, <3>2, <3>3
  <2> QED BY <2>1, <2>2, HistorySteps
<1> QED BY <1>1, <1>4 DEF NotYet, Posting

LEMMA NumbersInit == Init => OwnCall /\ NotYet
<1> SUFFICES ASSUME Init PROVE OwnCall /\ NotYet
  OBVIOUS
<1>1. posted = {} /\ refused = {} /\ pc = [a \in Actors |-> IF a = Main THEN "construct" ELSE "idle"]
  BY DEF Init
<1> QED BY <1>1 DEF OwnCall, NotYet, Posting, Actors

-----------------------------------------------------------------------------
(* Where the accepted messages are.                                        *)

\* The messages of a line that are no terminate messages, and their order.
Its(c) == Items(c) \ {Terminate}

Ordered(c) ==
  \A i, j \in DOMAIN c :
    i < j /\ c[i] # Terminate /\ c[j] # Terminate /\ c[i].by = c[j].by => c[i].n < c[j].n

Rests == Line' = Line /\ q'.overrun = q.overrun /\ UNCHANGED <<hand, handled, posted>>

Finishes(w) ==
  /\ wpc[w] \in {"log", "flush"} /\ WorkerDone(w)
  /\ Line' = Line /\ q'.overrun = q.overrun /\ posted' = posted

LEMMA MessageSteps ==
  ASSUME PoolInv, PoolTypes, [Next]_vars
  PROVE  \/ Rests
         \/ \E w \in Workers : Takes(w) \/ Finishes(w)
         \/ \E a \in Actors : Puts(a)
<1>1. ASSUME UNCHANGED <<q, hand, handled, posted>> PROVE Rests
  BY <1>1 DEF Rests, Line
<1>2. CASE UNCHANGED vars
  BY <1>1, <1>2 DEF vars, queueVars, workerVars, historyVars
<1>3. ASSUME NEW a \in Actors, Refuses(a) \/ Goes(a) PROVE Rests
  BY <1>1, <1>3
  DEF Refuses, Goes, PostAsyncMsg, EnqueueWaits, Notify, Discard, PostTerminate, Join, SpuriousActor,
      queueVars, workerVars, historyVars
<1>4. CASE (\E p \in Producers : Comes(p)) \/ Begins
  BY <1>1, <1>4 DEF Comes, Call, Return, Begins, StartWorker, StartWorkerThrows, DropPool,
                    queueVars, workerVars, historyVars
<1>5. ASSUME NEW w \in Workers, Turns(w) PROVE Rests
  BY <1>1, <1>5 DEF Turns, DequeueWaits, WorkerNotify, SpuriousWorker, queueVars, historyVars
<1>6. ASSUME NEW w \in Workers, BackendSinkIt(w) \/ BackendFlush(w) PROVE Rests \/ Finishes(w)
  <2>1. /\ wpc[w] \in {"log", "flush"} /\ UNCHANGED <<q, posted>>
        /\ NextSink(w) \/ NowFlush(w) \/ WorkerDone(w)
    BY <1>6, SinkItIs, FlushIs DEF queueVars
  <2>2. Line' = Line /\ q'.overrun = q.overrun
    BY <2>1 DEF Line
  <2> QED BY <2>1, <2>2 DEF NextSink, NowFlush, Rests, Finishes
<1> QED BY <1>2, <1>3, <1>4, <1>5, <1>6, Steps

\* A line without its oldest message.
LEMMA TailItems ==
  ASSUME NEW c \in Seq(Message), c # <<>>, Ordered(c)
  PROVE  /\ Ordered(Tail(c)) /\ Its(Tail(c)) = Its(c) \ {c[1]}
         /\ c[1] # Terminate => c[1] \in Its(c) /\ c[1] \in Posts
         /\ \A k \in Its(Tail(c)) : c[1] # Terminate /\ c[1].by = k.by => c[1].n < k.n
<1> DEFINE t == Tail(c)
<1>1. /\ c[1] \in Message /\ t \in Seq(Message) /\ Len(c) \in Nat /\ Len(c) >= 1
      /\ DOMAIN t = 1 .. Len(c) - 1 /\ DOMAIN c = 1 .. Len(c)
      /\ \A i \in 1 .. Len(c) - 1 : t[i] = c[i + 1]
  BY LineParts
<1> HIDE DEF t
<1>2. Ordered(t)
  <2> SUFFICES ASSUME NEW i \in DOMAIN t, NEW j \in DOMAIN t, i < j, t[i] # Terminate,
                      t[j] # Terminate, t[i].by = t[j].by
               PROVE  t[i].n < t[j].n
    BY DEF Ordered
  <2>1. i + 1 \in DOMAIN c /\ j + 1 \in DOMAIN c /\ i + 1 < j + 1 /\ t[i] = c[i + 1] /\ t[j] = c[j + 1]
    BY <1>1
  <2> QED BY <2>1 DEF Ordered
<1>3. \A k \in Its(t) : \E i \in DOMAIN c : i > 1 /\ c[i] = k
  <2> SUFFICES ASSUME NEW k \in Its(t) PROVE \E i \in DOMAIN c : i > 1 /\ c[i] = k
    OBVIOUS
  <2>1. PICK i \in DOMAIN t : t[i] = k
    BY DEF Its, Items
  <2>2. i + 1 \in DOMAIN c /\ i + 1 > 1 /\ c[i + 1] = k
    BY <1>1, <2>1
  <2> QED BY <2>2
<1>4. 1 \in DOMAIN c
  BY <1>1
<1>5. \A k \in Its(t) : c[1] # Terminate /\ c[1].by = k.by => c[1].n < k.n
  <2> SUFFICES ASSUME NEW k \in Its(t), c[1] # Terminate, c[1].by = k.by PROVE c[1].n < k.n
    OBVIOUS
  <2>1. PICK i \in DOMAIN c : i > 1 /\ c[i] = k
    BY <1>3
  <2>2. k # Terminate /\ 1 < i
    BY <1>1, <2>1 DEF Its
  <2> QED BY <1>4, <2>1, <2>2 DEF Ordered
<1>6. \A k \in Its(c) : k # c[1] => k \in Its(t)
  <2> SUFFICES ASSUME NEW k \in Its(c), k # c[1] PROVE k \in Its(t)
    OBVIOUS
  <2>1. PICK i \in DOMAIN c : c[i] = k
    BY DEF Its, Items
  <2>2. i - 1 \in DOMAIN t /\ t[i - 1] = k
    BY <1>1, <2>1
  <2> QED BY <2>2 DEF Its, Items
<1>7. c[1] \notin Its(t)
  <2> SUFFICES ASSUME c[1] \in Its(t) PROVE FALSE
    OBVIOUS
  <2>1. c[1] # Terminate
    BY DEF Its
  <2>2. c[1].n < c[1].n /\ c[1] \in Posts
    BY <1>1, <1>5, <2>1 DEF Message
  <2>3. c[1].n \in Nat
    BY <2>2, PostIs
  <2> QED BY <2>2, <2>3
<1>8. \A k \in Its(t) : k \in Its(c)
  BY <1>3 DEF Its, Items
<1>9. c[1] # Terminate => c[1] \in Its(c) /\ c[1] \in Posts
  BY <1>1, <1>4 DEF Its, Items, Message
<1> QED BY <1>2, <1>5, <1>6, <1>7, <1>8, <1>9 DEF t

\* A line with one message more.
LEMMA AppendItems ==
  ASSUME NEW c \in Seq(Message), NEW m \in Message, Ordered(c),
         m # Terminate => \A k \in Its(c) : k.by = m.by => k.n < m.n
  PROVE  Ordered(Append(c, m)) /\ Its(Append(c, m)) = Its(c) \cup ({m} \ {Terminate})
<1> DEFINE d == Append(c, m)
<1>1. /\ Len(c) \in Nat /\ DOMAIN c = 1 .. Len(c) /\ DOMAIN d = 1 .. Len(c) + 1
      /\ \A i \in 1 .. Len(c) : d[i] = c[i]
      /\ d[Len(c) + 1] = m
  OBVIOUS
<1> HIDE DEF d
<1>2. Ordered(d)
  <2> SUFFICES ASSUME NEW i \in DOMAIN d, NEW j \in DOMAIN d, i < j, d[i] # Terminate,
                      d[j] # Terminate, d[i].by = d[j].by
               PROVE  d[i].n < d[j].n
    BY DEF Ordered
  <2>1. i \in DOMAIN c /\ d[i] = c[i]
    BY <1>1
  <2>2. CASE j \in DOMAIN c
    BY <1>1, <2>1, <2>2 DEF Ordered
  <2>3. CASE j = Len(c) + 1
    <3>1. d[j] = m /\ d[i] \in Its(c)
      BY <1>1, <2>1, <2>3 DEF Its, Items
    <3> QED BY <3>1
  <2> QED BY <1>1, <2>2, <2>3
<1>3. \A k \in Its(c) \cup ({m} \ {Terminate}) : k \in Its(d)
  <2>1. \A i \in DOMAIN c : i \in DOMAIN d /\ d[i] = c[i]
    BY <1>1
  <2>2. Len(c) + 1 \in DOMAIN d
    BY <1>1
  <2> QED BY <1>1, <2>1, <2>2 DEF Its, Items
<1>4. \A k \in Its(d) : k \in Its(c) \cup ({m} \ {Terminate})
  <2> SUFFICES ASSUME NEW i \in DOMAIN d, d[i] # Terminate
               PROVE  d[i] \in Its(c) \cup {m}
    BY DEF Its, Items
  <2>1. i \in DOMAIN c \/ i = Len(c) + 1
    BY <1>1
  <2> QED BY <1>1, <2>1 DEF Its, Items
<1> QED BY <1>2, <1>3, <1>4 DEF d

\* Each accepted message is at one place, a producer's oldest foremost.
Apart ==
  /\ Pending \subseteq posted /\ InHand \subseteq posted /\ handled \subseteq posted
  /\ InHand \cap handled = {}
  /\ \A v, w \in Workers : hand[v] = hand[w] /\ hand[v] \in Posts => v = w
  /\ Ordered(Line)
  /\ \A m \in handled \cup InHand : \A k \in Pending : m.by = k.by => m.n < k.n

\* What is lost was overrun.
LostCounted == IsFiniteSet(posted) /\ Cardinality(Lost) = q.overrun

LEMMA PlacesAre ==
  ASSUME PoolTypes, Apart
  PROVE  /\ Pending = Its(Line)
         /\ \A w \in Workers : hand[w] \in Posts => hand[w] \in InHand
         /\ \A m \in InHand : m \in Posts /\ \E w \in Workers : hand[w] = m
         /\ Pending \cap (InHand \cup handled) = {}
<1>1. Pending = Its(Line)
  BY DEF Pending, Its, Line
<1>2. \A w \in Workers : hand[w] \in Posts => hand[w] \in InHand
  BY ConstantsAre, StopIsNoPost DEF InHand
<1>3. \A m \in InHand : m \in Posts /\ \E w \in Workers : hand[w] = m
  BY DEF InHand, PoolTypes, Message
<1>4. ASSUME NEW m \in Pending, m \in InHand \cup handled PROVE FALSE
  <2>1. m.n < m.n /\ m \in Posts
    BY <1>4 DEF Apart, PoolTypes
  <2>2. m.n \in Nat
    BY <2>1, PostIs
  <2> QED BY <2>1, <2>2
<1> QED BY <1>1, <1>2, <1>3, <1>4

LEMMA ApartInit == Init => Apart /\ LostCounted
<1> SUFFICES ASSUME Init PROVE Apart /\ LostCounted
  OBVIOUS
<1>1. Line = <<>> /\ posted = {} /\ handled = {} /\ hand = [w \in Workers |-> Nothing]
  BY NewIsEmpty DEF Init, Line
<1>2. Pending = {} /\ InHand = {}
  BY <1>1 DEF Pending, InHand, Items, Line
<1>3. q.overrun = 0
  BY NewIsEmpty DEF Init
<1>4. Lost = {}
  BY <1>1 DEF Lost
<1>5. Apart
  BY <1>1, <1>2, ConstantsAre, StopIsNoPost DEF Apart, Ordered
<1> QED BY <1>1, <1>3, <1>4, <1>5, FS_EmptySet DEF LostCounted

\* A taken message passes from the line into its worker's hands.
LEMMA TakesSets ==
  ASSUME PoolInv, PoolTypes, HandsFit, Apart, NEW w \in Workers, Takes(w)
  PROVE  /\ Pending' = Pending \ {Line[1]}
         /\ InHand' = InHand \cup ({Line[1]} \ {Terminate})
         /\ Line[1] # Terminate => Line[1] \in Pending
         /\ Ordered(Line')
         /\ \A k \in Pending' : Line[1] # Terminate /\ Line[1].by = k.by => Line[1].n < k.n
<1>1. Line \in Seq(Message) /\ Line # <<>> /\ Line' = Tail(Line) /\ Ordered(Line)
  BY DEF Takes, PoolTypes, Apart
<1>2. /\ Ordered(Tail(Line)) /\ Its(Tail(Line)) = Its(Line) \ {Line[1]}
      /\ Line[1] # Terminate => Line[1] \in Its(Line) /\ Line[1] \in Posts
      /\ \A k \in Its(Tail(Line)) : Line[1] # Terminate /\ Line[1].by = k.by => Line[1].n < k.n
  BY <1>1, TailItems
<1>3. Pending = Its(Line) /\ Pending' = Its(Line')
  BY DEF Pending, Its, Line
<1>4. hand[w] = Nothing /\ hand \in [Workers -> Message \cup {Nothing}]
  BY DEF HandsFit, Fits, PoolTypes, Takes
<1>5. Line[1] # Nothing
  BY <1>1, LineParts, ConstantsAre
<1>6. hand'[w] = Line[1] /\ \A v \in Workers \ {w} : hand'[v] = hand[v]
  BY <1>4 DEF Takes
<1>7. InHand' = InHand \cup ({Line[1]} \ {Terminate})
  BY <1>4, <1>5, <1>6 DEF InHand
<1> QED BY <1>1, <1>2, <1>3, <1>7

LEMMA TakesApart ==
  ASSUME PoolInv, PoolTypes, HandsFit, Apart, LostCounted, NEW w \in Workers, Takes(w)
  PROVE  Apart' /\ LostCounted'
<1> DEFINE m == Line[1]
<1>1. /\ Pending' = Pending \ {m} /\ InHand' = InHand \cup ({m} \ {Terminate})
      /\ m # Terminate => m \in Pending
      /\ Ordered(Line')
      /\ \A k \in Pending' : m # Terminate /\ m.by = k.by => m.n < k.n
  BY TakesSets
<1>2. posted' = posted /\ handled' = handled /\ q'.overrun = q.overrun
  BY DEF Takes, historyVars
<1>3. hand'[w] = m /\ \A v \in Workers \ {w} : hand'[v] = hand[v]
  BY DEF Takes, PoolTypes
<1>4. Terminate \notin Pending /\ Terminate \notin Posts
  BY StopIsNoPost DEF Pending
<1> HIDE DEF m
<1>5. Lost' = Lost
  BY <1>1, <1>2, <1>4 DEF Lost
<1>6. Pending \cap (InHand \cup handled) = {} /\ \A v \in Workers : hand[v] \in Posts => hand[v] \in InHand
  BY PlacesAre
<1>7. \A v, u \in Workers : hand'[v] = hand'[u] /\ hand'[v] \in Posts => v = u
  <2>1. \A v \in Workers \ {w} : hand[v] \in Posts => hand[v] # m
    BY <1>1, <1>4, <1>6
  <2> QED BY <1>3, <2>1 DEF Apart
<1>8. \A x \in handled' \cup InHand' : \A k \in Pending' : x.by = k.by => x.n < k.n
  BY <1>1, <1>2 DEF Apart
<1>9. /\ Pending' \subseteq posted' /\ InHand' \subseteq posted' /\ handled' \subseteq posted'
      /\ InHand' \cap handled' = {}
  BY <1>1, <1>2, <1>6 DEF Apart
<1>10. Apart'
  BY <1>1, <1>7, <1>8, <1>9 DEF Apart
<1> QED BY <1>2, <1>5, <1>10 DEF LostCounted

\* A worker lays its message down: it is handled.
LEMMA FinishesSets ==
  ASSUME PoolTypes, HandsFit, Apart, NEW w \in Workers, Finishes(w)
  PROVE  /\ hand[w] \in Posts /\ hand[w] \in InHand /\ Line' = Line /\ Pending' = Pending
         /\ InHand' = InHand \ {hand[w]} /\ handled' = handled \cup {hand[w]}
         /\ hand'[w] = Nothing /\ \A v \in Workers \ {w} : hand'[v] = hand[v]
<1>1. /\ hand[w] \in Posts /\ handled' = handled \cup {hand[w]} /\ hand'[w] = Nothing
      /\ \A v \in Workers \ {w} : hand'[v] = hand[v]
  BY DoneIs DEF Finishes
<1>2. hand[w] \in InHand
  BY <1>1, PlacesAre
<1>3. Line' = Line /\ Pending' = Pending
  BY DEF Finishes, Pending, Line
<1>4. \A v \in Workers \ {w} : hand[v] # hand[w]
  BY <1>1 DEF Apart
<1>5. InHand' = InHand \ {hand[w]}
  BY <1>1, <1>4 DEF InHand
<1> QED BY <1>1, <1>2, <1>3, <1>5

LEMMA FinishesApart ==
  ASSUME PoolTypes, HandsFit, Apart, LostCounted, NEW w \in Workers, Finishes(w)
  PROVE  Apart' /\ LostCounted'
<1> DEFINE m == hand[w]
<1>1. /\ m \in Posts /\ m \in InHand /\ Line' = Line /\ Pending' = Pending
      /\ InHand' = InHand \ {m} /\ handled' = handled \cup {m}
      /\ hand'[w] = Nothing /\ \A v \in Workers \ {w} : hand'[v] = hand[v]
  BY FinishesSets
<1>2. posted' = posted /\ q'.overrun = q.overrun
  BY DEF Finishes
<1> HIDE DEF m
<1>3. Lost' = Lost
  BY <1>1, <1>2 DEF Lost
<1>4. /\ Pending' \subseteq posted' /\ InHand' \subseteq posted' /\ handled' \subseteq posted'
      /\ InHand' \cap handled' = {} /\ Ordered(Line')
  BY <1>1, <1>2 DEF Apart
<1>5. \A v, u \in Workers : hand'[v] = hand'[u] /\ hand'[v] \in Posts => v = u
  BY <1>1, ConstantsAre, StopIsNoPost DEF Apart
<1>6. \A x \in handled' \cup InHand' : \A k \in Pending' : x.by = k.by => x.n < k.n
  BY <1>1 DEF Apart
<1>7. Apart'
  BY <1>4, <1>5, <1>6 DEF Apart
<1> QED BY <1>2, <1>3, <1>7 DEF LostCounted

\* A message put into the line is the last of its producer; the oldest message
\* may be lost for it.
LEMMA PutsSets ==
  ASSUME PoolInv, PoolTypes, HandsFit, OwnCall, NotYet, Apart, NEW a \in Actors, Puts(a)
  PROVE  /\ msg[a] \in Message /\ Ordered(Line')
         /\ msg[a] # Terminate =>
              /\ msg[a] \in Posts /\ msg[a] \notin posted
              /\ \A k \in posted : k.by = msg[a].by => k.n < msg[a].n
         /\ \/ /\ q'.overrun = q.overrun
               /\ Pending' = Pending \cup ({msg[a]} \ {Terminate})
            \/ \E m \in Pending :
                 /\ msg[a] # Terminate /\ q'.overrun = q.overrun + 1
                 /\ Pending' = (Pending \ {m}) \cup {msg[a]}
<1> DEFINE m == msg[a]
<1>1. Line \in Seq(Message) /\ Ordered(Line) /\ Pending = Its(Line) /\ Pending' = Its(Line')
      /\ Pending \subseteq posted
  BY DEF PoolTypes, Apart, Pending, Its, Line
<1>2. m \in Message
  BY PosterIs DEF Puts, Active
<1>3. m # Terminate =>
        /\ m \in Posts /\ m \notin posted /\ ~HasStop
        /\ \A k \in posted : k.by = m.by => k.n < m.n
  BY Fresh
<1>4. m # Terminate => \A k \in Its(Line) : k.by = m.by => k.n < m.n
  BY <1>1, <1>3
<1>5. CASE Line' = Append(Line, m) /\ q'.overrun = q.overrun
  <2>1. Ordered(Append(Line, m)) /\ Its(Append(Line, m)) = Its(Line) \cup ({m} \ {Terminate})
    BY <1>1, <1>2, <1>4, AppendItems
  <2> QED BY <1>1, <1>2, <1>3, <1>5, <2>1
<1>6. CASE /\ m # Terminate /\ Line # <<>>
           /\ Line' = Append(Tail(Line), m) /\ q'.overrun = q.overrun + 1
  <2>1. /\ Ordered(Tail(Line)) /\ Its(Tail(Line)) = Its(Line) \ {Line[1]}
        /\ Line[1] # Terminate => Line[1] \in Its(Line)
    BY <1>1, <1>6, TailItems
  <2>2. Line[1] # Terminate
    <3>1. 1 \in DOMAIN Line
      BY <1>1, <1>6, LineParts
    <3> QED BY <1>3, <1>6, <3>1 DEF HasStop, Line
  <2>3. Tail(Line) \in Seq(Message)
    BY <1>1, <1>6, LineParts
  <2>4. m # Terminate => \A k \in Its(Tail(Line)) : k.by = m.by => k.n < m.n
    BY <1>4, <2>1
  <2>5. /\ Ordered(Append(Tail(Line), m))
        /\ Its(Append(Tail(Line), m)) = Its(Tail(Line)) \cup ({m} \ {Terminate})
    BY <1>2, <2>1, <2>3, <2>4, AppendItems
  <2> QED BY <1>1, <1>2, <1>3, <1>6, <2>1, <2>2, <2>5
<1> QED BY <1>5, <1>6 DEF Puts

LEMMA PutsApart ==
  ASSUME PoolInv, PoolTypes, HandsFit, OwnCall, NotYet, Apart, LostCounted, NEW a \in Actors, Puts(a)
  PROVE  Apart' /\ LostCounted'
<1> DEFINE m == msg[a]
<1>1. /\ m \in Message /\ Ordered(Line')
      /\ m # Terminate => /\ m \in Posts /\ m \notin posted
                          /\ \A k \in posted : k.by = m.by => k.n < m.n
      /\ \/ q'.overrun = q.overrun /\ Pending' = Pending \cup ({m} \ {Terminate})
         \/ \E k \in Pending : /\ m # Terminate /\ q'.overrun = q.overrun + 1
                               /\ Pending' = (Pending \ {k}) \cup {m}
  BY PutsSets
<1>2. posted' = posted \cup ({m} \ {Terminate}) /\ hand' = hand /\ handled' = handled
      /\ InHand' = InHand
  BY DEF Puts, InHand
<1> HIDE DEF m
<1>3. Pending' \subseteq Pending \cup ({m} \ {Terminate})
  BY <1>1
<1>4. \A x \in handled' \cup InHand' : \A k \in Pending' : x.by = k.by => x.n < k.n
  BY <1>1, <1>2, <1>3 DEF Apart
<1>5. Apart'
  BY <1>1, <1>2, <1>3, <1>4 DEF Apart
<1>6. IsFiniteSet(posted')
  <2>1. posted' = posted \/ posted' = posted \cup {m}
    BY <1>2
  <2>2. IsFiniteSet(posted) /\ IsFiniteSet(posted \cup {m})
    BY FS_AddElement DEF LostCounted
  <2> QED BY <2>1, <2>2
<1>7. IsFiniteSet(Lost) /\ q.overrun \in Nat
  <2>1. IsFiniteSet(Lost)
    BY FS_Subset DEF Lost, LostCounted
  <2> QED BY <2>1, FS_CardinalityType DEF LostCounted
<1>8. CASE q'.overrun = q.overrun /\ Pending' = Pending \cup ({m} \ {Terminate})
  <2>1. Lost' = Lost
    BY <1>1, <1>2, <1>8 DEF Lost, Apart
  <2> QED BY <1>5, <1>6, <1>8, <2>1 DEF LostCounted
<1>9. ASSUME NEW k \in Pending, m # Terminate, q'.overrun = q.overrun + 1,
             Pending' = (Pending \ {k}) \cup {m}
      PROVE  Apart' /\ LostCounted'
  <2>1. k \notin Lost /\ k \notin InHand \cup handled /\ k \in posted /\ k # m
    BY <1>1, <1>9, PlacesAre DEF Lost, Apart
  <2>2. m \notin Lost' /\ m \notin Lost
    BY <1>1, <1>9 DEF Lost
  <2>3. \A x : x # k => (x \in Lost' <=> x \in Lost)
    BY <1>1, <1>2, <1>9, <2>2 DEF Lost
  <2>4. k \in Lost'
    BY <1>2, <1>9, <2>1 DEF Lost
  <2>5. Lost' = Lost \cup {k}
    BY <2>3, <2>4
  <2>6. Cardinality(Lost') = Cardinality(Lost) + 1
    BY <1>7, <2>1, <2>5, FS_AddElement
  <2> QED BY <1>5, <1>6, <1>9, <2>6 DEF LostCounted
<1> QED BY <1>1, <1>8, <1>9

LEMMA ApartNext ==
  ASSUME PoolInv, PoolTypes, HandsFit, OwnCall, NotYet, Apart, LostCounted, [Next]_vars
  PROVE  Apart' /\ LostCounted'
<1>1. CASE Rests
  <2>1. Pending' = Pending /\ InHand' = InHand
    BY <1>1 DEF Rests, Pending, InHand, Line
  <2>2. Lost' = Lost
    BY <1>1, <2>1 DEF Rests, Lost
  <2> QED BY <1>1, <2>1, <2>2 DEF Rests, Apart, LostCounted
<1> QED BY <1>1, TakesApart, FinishesApart, PutsApart, MessageSteps

-----------------------------------------------------------------------------
(* What is refused is counted, or about to be.                             *)

Discarding == {p \in Producers : pc[p] = "discard"}

RefusedCounted ==
  /\ IsFiniteSet(refused) /\ Cardinality(refused) = discards + Cardinality(Discarding)
  /\ \A a \in Actors : pc[a] = "discard" => msg[a] # Terminate

Unrefused ==
  /\ refused' = refused /\ discards' = discards
  /\ \A a \in Actors : /\ pc'[a] = "discard" <=> pc[a] = "discard"
                       /\ pc[a] = "discard" => msg'[a] = msg[a]

LEMMA RefusalSteps ==
  ASSUME PoolInv, PoolTypes, [Next]_vars
  PROVE  Unrefused \/ \E a \in Actors : Refuses(a) \/ Discard(a)
<1>0. Types /\ Main \in Actors /\ Producers \subseteq Actors
  BY DEF PoolInv, Actors
<1>1. ASSUME refused' = refused, discards' = discards, NEW a \in Actors, pc[a] # "discard",
             \E x \in PcValues \ {"discard"} : pc' = [pc EXCEPT ![a] = x],
             \A b \in Actors \ {a} : msg'[b] = msg[b]
      PROVE  Unrefused
  BY <1>0, <1>1 DEF Unrefused, Types
<1>2. ASSUME refused' = refused, discards' = discards, msg' = msg,
             \A a \in Actors : pc'[a] # pc[a] => pc[a] # "discard" /\ pc'[a] # "discard"
      PROVE  Unrefused
  BY <1>2 DEF Unrefused
<1>3. CASE UNCHANGED vars
  BY <1>2, <1>3 DEF vars, queueVars, actorVars, historyVars
<1>4. ASSUME NEW a \in Actors, Puts(a) \/ Goes(a) PROVE Unrefused \/ Discard(a)
  <2>1. CASE PostTerminate(a)
    <3>1. /\ refused' = refused /\ discards' = discards /\ pc[a] # "discard"
          /\ \E x \in PcValues \ {"discard"} : pc' = [pc EXCEPT ![a] = x]
          /\ \A b \in Actors \ {a} : msg'[b] = msg[b]
      BY <1>0, <2>1 DEF PostTerminate, Types, PcValues, queueVars, historyVars
    <3> QED BY <1>1, <3>1
  <2>2. CASE Puts(a) \/ (Goes(a) /\ ~PostTerminate(a) /\ ~Discard(a))
    <3>1. /\ refused' = refused /\ discards' = discards /\ pc[a] # "discard" /\ msg' = msg
          /\ \E x \in PcValues \ {"discard"} : pc' = [pc EXCEPT ![a] = x]
      BY <2>2 DEF Puts, Goes, PostAsyncMsg, EnqueueWaits, Notify, Join, SpuriousActor, PcValues,
                  queueVars, historyVars
    <3> QED BY <1>1, <3>1
  <2> QED BY <1>4, <2>1, <2>2
<1>5. ASSUME NEW p \in Producers, Comes(p) PROVE Unrefused
  <2>1. CASE Call(p) /\ refs = {}
    BY <1>2, <2>1 DEF Call, queueVars, historyVars
  <2>2. CASE Call(p) /\ refs # {}
    <3>1. /\ refused' = refused /\ discards' = discards /\ pc[p] # "discard"
          /\ pc' = [pc EXCEPT ![p] = "post"]
          /\ \A b \in Actors \ {p} : msg'[b] = msg[b]
      BY <1>0, <2>2 DEF Call, queueVars, historyVars, Types
    <3> QED BY <1>0, <1>1, <3>1 DEF PcValues
  <2>3. CASE Return(p)
    <3>1. /\ refused' = refused /\ discards' = discards /\ pc[p] # "discard"
          /\ \E x \in {"destroy", "done", "idle"} : pc' = [pc EXCEPT ![p] = x]
          /\ \A b \in Actors \ {p} : msg'[b] = msg[b]
      BY <1>0, <2>3 DEF Return, AfterRelease, queueVars, historyVars, Types
    <3> QED BY <1>0, <1>1, <3>1 DEF PcValues
  <2> QED BY <1>5, <2>1, <2>2, <2>3 DEF Comes
<1>6. CASE Begins
  <2>1. /\ refused' = refused /\ discards' = discards /\ pc[Main] # "discard" /\ msg' = msg
        /\ \E x \in PcValues \ {"discard"} : pc' = [pc EXCEPT ![Main] = x]
    BY <1>6 DEF Begins, StartWorker, StartWorkerThrows, DropPool, AfterRelease, PcValues, queueVars,
                historyVars
  <2> QED BY <1>0, <1>1, <2>1
<1>7. ASSUME NEW w \in Workers, Takes(w) \/ Turns(w) PROVE Unrefused
  <2>1. refused' = refused /\ discards' = discards /\ msg' = msg
    BY <1>7 DEF Takes, Turns, DequeueWaits, WorkerNotify, SpuriousWorker, queueVars, actorVars,
                historyVars
  <2>2. \A a \in Actors : pc'[a] # pc[a] => pc[a] = "waiting" /\ pc'[a] = "post"
    BY <1>0, <1>7, NotifyMoves
    DEF Takes, WakesActor, Turns, DequeueWaits, WorkerNotify, SpuriousWorker, actorVars
  <2> QED BY <1>2, <2>1, <2>2
<1>8. ASSUME NEW w \in Workers, BackendSinkIt(w) \/ BackendFlush(w) PROVE Unrefused
  BY <1>2, <1>8, SinkItIs, FlushIs DEF queueVars, actorVars
<1> QED BY <1>3, <1>4, <1>5, <1>6, <1>7, <1>8, Steps

LEMMA RefusedInit == Init => RefusedCounted
<1> SUFFICES ASSUME Init PROVE RefusedCounted
  OBVIOUS
<1>1. /\ refused = {} /\ discards = 0
      /\ pc = [a \in Actors |-> IF a = Main THEN "construct" ELSE "idle"]
  BY DEF Init
<1>2. Discarding = {} /\ \A a \in Actors : pc[a] # "discard"
  BY <1>1 DEF Discarding, Actors
<1> QED BY <1>1, <1>2, FS_EmptySet DEF RefusedCounted

LEMMA RefusedNext ==
  ASSUME PoolInv, PoolTypes, OwnCall, NotYet, RefusedCounted, [Next]_vars
  PROVE  RefusedCounted'
<1>0. /\ Types /\ Producers \subseteq Actors /\ IsFiniteSet(Discarding)
      /\ Cardinality(Discarding) \in Nat /\ discards \in Nat
  <2>1. IsFiniteSet(Discarding)
    BY SetsAre, FS_Subset DEF Discarding
  <2> QED BY <2>1, FS_CardinalityType DEF PoolInv, PoolTypes, Actors
<1>1. CASE Unrefused
  <2>1. Discarding' = Discarding
    BY <1>0, <1>1 DEF Unrefused, Discarding
  <2> QED BY <1>1, <2>1 DEF Unrefused, RefusedCounted
<1>2. ASSUME NEW a \in Actors, Refuses(a) PROVE RefusedCounted'
  <2>1. /\ a \in Producers /\ pc[a] = "post" /\ refused' = refused \cup {msg[a]}
        /\ pc' = [pc EXCEPT ![a] = "discard"] /\ discards' = discards /\ msg' = msg
        /\ msg[a] # Terminate
    BY <1>2, StopIsNoPost DEF Refuses, queueVars
  <2>2. msg[a] \notin refused
    BY <1>2, <2>1, Fresh
  <2>3. Discarding' = Discarding \cup {a} /\ a \notin Discarding
    BY <1>0, <2>1 DEF Discarding, Types
  <2>4. /\ IsFiniteSet(refused') /\ Cardinality(refused') = Cardinality(refused) + 1
        /\ Cardinality(Discarding') = Cardinality(Discarding) + 1
    BY <1>0, <2>1, <2>2, <2>3, FS_AddElement DEF RefusedCounted
  <2>5. \A b \in Actors : pc'[b] = "discard" => msg'[b] # Terminate
    BY <1>0, <2>1 DEF RefusedCounted, Types
  <2>6. Cardinality(refused') = discards' + Cardinality(Discarding')
    BY <1>0, <2>1, <2>4 DEF RefusedCounted
  <2> QED BY <2>4, <2>5, <2>6 DEF RefusedCounted
<1>3. ASSUME NEW a \in Actors, Discard(a) PROVE RefusedCounted'
  <2>1. /\ pc[a] = "discard" /\ refused' = refused /\ discards' = discards + 1 /\ msg' = msg
        /\ pc' = [pc EXCEPT ![a] = "posted"]
    BY <1>3 DEF Discard, historyVars
  <2>2. a \in Producers
    BY <2>1 DEF RefusedCounted, PoolInv, MainOnlyStops, Active, Actors
  <2>3. Discarding' = Discarding \ {a} /\ a \in Discarding
    BY <1>0, <2>1, <2>2 DEF Discarding, Types
  <2>4. Cardinality(Discarding') = Cardinality(Discarding) - 1
    BY <1>0, <2>3, FS_RemoveElement
  <2>5. \A b \in Actors : pc'[b] = "discard" => msg'[b] # Terminate
    BY <1>0, <2>1 DEF RefusedCounted, Types
  <2>6. Cardinality(refused') = discards' + Cardinality(Discarding')
    BY <1>0, <2>1, <2>4 DEF RefusedCounted
  <2> QED BY <2>1, <2>5, <2>6 DEF RefusedCounted
<1> QED BY <1>1, <1>2, <1>3, RefusalSteps

\* What is still pending is as many as the messages in the line.
LEMMA PendingCounted ==
  ASSUME PoolTypes, Apart
  PROVE  Cardinality(Pending) = Cardinality({i \in DOMAIN Contents(q) : Contents(q)[i] # Terminate})
<1> DEFINE D == {i \in DOMAIN Line : Line[i] # Terminate}
           f == [i \in D |-> Line[i]]
<1>1. Line \in Seq(Message) /\ Len(Line) \in Nat /\ DOMAIN Line = 1 .. Len(Line)
  BY DEF PoolTypes
<1>2. f \in [D -> Pending]
  BY DEF Pending, Items, Line
<1>3. ASSUME NEW i \in D, NEW j \in D, f[i] = f[j] PROVE i = j
  <2>1. Line[i] = Line[j] /\ Line[i] \in Posts /\ i \in Nat /\ j \in Nat
    BY <1>1, <1>3 DEF Message
  <2>2. Line[i].n \in Nat
    BY <2>1, PostIs
  <2>3. ~(i < j) /\ ~(j < i)
    BY <2>1, <2>2 DEF Apart, Ordered
  <2> QED BY <2>1, <2>3
<1>4. \A k \in Pending : \E i \in D : f[i] = k
  BY DEF Pending, Items, Line
<1>5. f \in Bijection(D, Pending)
  BY <1>2, <1>3, <1>4, Fun_IsBij
<1>6. ExistsBijection(D, Pending)
  BY <1>5 DEF ExistsBijection
<1>7. IsFiniteSet(D)
  <2>1. IsFiniteSet(1 .. Len(Line))
    BY <1>1, FS_Interval
  <2> QED BY <1>1, <2>1, FS_Subset
<1>8. Cardinality(D) = Cardinality(Pending)
  BY <1>6, <1>7, FS_Bijection
<1> QED BY <1>8 DEF Line

LEMMA AccountingHolds ==
  ASSUME PoolTypes, Apart, LostCounted, RefusedCounted
  PROVE  Accounting
<1>1. Pending \cap InHand = {} /\ (Pending \cup InHand) \cap handled = {}
  BY PlacesAre DEF Apart
<1>2. Cardinality(Pending) = Cardinality({i \in DOMAIN Contents(q) : Contents(q)[i] # Terminate})
  BY PendingCounted
<1> QED BY <1>1, <1>2 DEF Accounting, LostCounted, RefusedCounted, Discarding

-----------------------------------------------------------------------------
(* The terminate messages.                                                 *)

StopsIn(c) == {i \in DOMAIN c : c[i] = Terminate}
HandStops == {w \in Workers : hand[w] = Terminate}
Coming == {a \in Actors : msg[a] = Terminate /\ pc[a] \in {"post", "waiting"}}

StopsCounted ==
  /\ Cardinality(HandStops) + Cardinality(StopsIn(Line)) + Cardinality(Coming) = stops
  /\ \A a \in Actors : pc[a] = "join" => stops = threads

\* Nothing comes behind a terminate message.
StopsLast ==
  /\ \A i, j \in DOMAIN Line : i < j /\ Line[i] = Terminate => Line[j] = Terminate
  /\ (\E w \in Workers : hand[w] = Terminate) => \A i \in DOMAIN Line : Line[i] = Terminate

\* The pool that nobody holds is being ended, or its workers have ended.
Finished ==
  refs = {} /\ started > 0 =>
    (\E a \in Actors : Ending(a)) \/ \A w \in 1 .. threads : wpc[w] = "ended"

LEMMA StopsFinite ==
  ASSUME PoolTypes
  PROVE  /\ IsFiniteSet(HandStops) /\ IsFiniteSet(StopsIn(Line)) /\ IsFiniteSet(Coming)
         /\ Cardinality(HandStops) \in Nat /\ Cardinality(StopsIn(Line)) \in Nat
         /\ Cardinality(Coming) \in Nat
<1>1. IsFiniteSet(HandStops) /\ IsFiniteSet(Coming)
  BY SetsAre, FS_Subset DEF HandStops, Coming
<1>2. IsFiniteSet(StopsIn(Line))
  <2>1. Len(Line) \in Nat /\ DOMAIN Line = 1 .. Len(Line)
    BY DEF PoolTypes
  <2>2. IsFiniteSet(1 .. Len(Line))
    BY <2>1, FS_Interval
  <2> QED BY <2>1, <2>2, FS_Subset DEF StopsIn
<1> QED BY <1>1, <1>2, FS_CardinalityType

\* One terminate message fewer when the oldest is taken and is one.
LEMMA TailStops ==
  ASSUME NEW c \in Seq(Message), c # <<>>
  PROVE  Cardinality(StopsIn(Tail(c))) = Cardinality(StopsIn(c) \ {1})
<1> DEFINE S == StopsIn(c) \ {1}
           T == StopsIn(Tail(c))
           f == [i \in S |-> i - 1]
<1>1. /\ Tail(c) \in Seq(Message) /\ Len(c) \in Nat /\ Len(c) >= 1
      /\ DOMAIN Tail(c) = 1 .. Len(c) - 1 /\ DOMAIN c = 1 .. Len(c)
      /\ \A i \in 1 .. Len(c) - 1 : Tail(c)[i] = c[i + 1]
  BY LineParts
<1>2. \A i \in S : i \in 2 .. Len(c) /\ c[i] = Terminate
  BY <1>1 DEF StopsIn
<1>3. \A i \in S : i - 1 \in T
  <2> SUFFICES ASSUME NEW i \in S PROVE i - 1 \in T
    OBVIOUS
  <2>1. i \in 2 .. Len(c) /\ c[i] = Terminate
    BY <1>2
  <2>2. i - 1 \in DOMAIN Tail(c) /\ Tail(c)[i - 1] = Terminate
    BY <1>1, <2>1
  <2> QED BY <2>2 DEF StopsIn
<1>4. \A j \in T : j \in 1 .. Len(c) - 1 /\ j + 1 \in S
  <2> SUFFICES ASSUME NEW j \in T PROVE j \in 1 .. Len(c) - 1 /\ j + 1 \in S
    OBVIOUS
  <2>1. j \in 1 .. Len(c) - 1 /\ Tail(c)[j] = Terminate
    BY <1>1 DEF StopsIn
  <2>2. j + 1 \in DOMAIN c /\ c[j + 1] = Terminate /\ j + 1 # 1
    BY <1>1, <2>1
  <2> QED BY <2>1, <2>2 DEF StopsIn
<1>5. IsFiniteSet(S)
  <2>1. IsFiniteSet(1 .. Len(c))
    BY <1>1, FS_Interval
  <2> QED BY <1>1, <2>1, FS_Subset DEF StopsIn
<1> HIDE DEF S, T
<1>6. f \in [S -> T] /\ \A i \in S : f[i] = i - 1
  BY <1>3
<1> HIDE DEF f
<1>7. \A i, j \in S : f[i] = f[j] => i = j
  BY <1>2, <1>6
<1>8. \A j \in T : \E i \in S : f[i] = j
  <2> SUFFICES ASSUME NEW j \in T PROVE \E i \in S : f[i] = j
    OBVIOUS
  <2> DEFINE k == j + 1
  <2>1. k \in S /\ k - 1 = j
    BY <1>1, <1>4
  <2> HIDE DEF k
  <2>2. f[k] = k - 1
    BY <1>6, <2>1
  <2> QED BY <2>1, <2>2
<1>9. f \in Bijection(S, T)
  BY <1>6, <1>7, <1>8, Fun_IsBij
<1>10. ExistsBijection(S, T)
  BY <1>9 DEF ExistsBijection
<1>11. Cardinality(T) = Cardinality(S)
  BY <1>5, <1>10, FS_Bijection
<1> QED BY <1>11 DEF S, T

LEMMA AppendStops ==
  ASSUME NEW c \in Seq(Message), NEW m \in Message
  PROVE  /\ m = Terminate => /\ StopsIn(Append(c, m)) = StopsIn(c) \cup {Len(c) + 1}
                             /\ Len(c) + 1 \notin StopsIn(c)
         /\ m # Terminate => StopsIn(Append(c, m)) = StopsIn(c)
<1> DEFINE d == Append(c, m)
<1>1. /\ Len(c) \in Nat /\ DOMAIN c = 1 .. Len(c) /\ DOMAIN d = 1 .. Len(c) + 1
      /\ \A i \in 1 .. Len(c) : d[i] = c[i]
      /\ d[Len(c) + 1] = m
  OBVIOUS
<1> HIDE DEF d
<1>2. Len(c) + 1 \notin DOMAIN c /\ DOMAIN d = DOMAIN c \cup {Len(c) + 1}
  BY <1>1
<1>3. \A i \in DOMAIN c : d[i] = c[i]
  BY <1>1
<1> QED BY <1>1, <1>2, <1>3 DEF StopsIn, d

-----------------------------------------------------------------------------

\* The steps that move no terminate message.
Unstopped ==
  /\ stops' = stops /\ Line' = Line /\ Coming' = Coming
  /\ \A w \in Workers : hand'[w] = Terminate <=> hand[w] = Terminate
  /\ \A a \in Actors : pc'[a] = "join" => pc[a] = "join"

LEMMA StopSteps ==
  ASSUME PoolInv, PoolTypes, HandsFit, [Next]_vars
  PROVE  \/ Unstopped
         \/ \E w \in Workers : Takes(w)
         \/ \E a \in Actors : Puts(a) \/ PostTerminate(a)
<1>0. Types /\ Main \in Actors /\ Producers \subseteq Actors /\ hand \in [Workers -> Message \cup {Nothing}]
  BY DEF PoolInv, PoolTypes, Actors
<1>1. ASSUME stops' = stops, q' = q, hand' = hand, NEW a \in Actors,
             ~(msg[a] = Terminate /\ pc[a] \in {"post", "waiting"}),
             ~(msg'[a] = Terminate /\ pc'[a] \in {"post", "waiting"}),
             \E x \in PcValues \ {"join"} : pc' = [pc EXCEPT ![a] = x],
             \A b \in Actors \ {a} : msg'[b] = msg[b]
      PROVE  Unstopped
  <2>1. Coming' = Coming
    BY <1>0, <1>1 DEF Coming, Types
  <2>2. Line' = Line
    BY <1>1 DEF Line
  <2> QED BY <1>0, <1>1, <2>1, <2>2 DEF Unstopped, Types
<1>2. ASSUME stops' = stops, q' = q, msg' = msg,
             \A w \in Workers : hand'[w] = Terminate <=> hand[w] = Terminate,
             \A a \in Actors : pc'[a] # pc[a] =>
               pc[a] \in {"post", "waiting"} /\ pc'[a] \in {"post", "waiting"}
      PROVE  Unstopped
  <2>1. Coming' = Coming
    BY <1>2 DEF Coming
  <2>2. Line' = Line
    BY <1>2 DEF Line
  <2> QED BY <1>2, <2>1, <2>2 DEF Unstopped
<1>3. CASE UNCHANGED vars
  BY <1>2, <1>3 DEF vars, queueVars, poolVars, actorVars, workerVars
<1>4. ASSUME NEW a \in Actors, Refuses(a) \/ Goes(a), ~PostTerminate(a) PROVE Unstopped
  <2>1. CASE (PostAsyncMsg(a) /\ EnqueueWaits(a)) \/ SpuriousActor(a)
    <3>1. /\ stops' = stops /\ q' = q /\ msg' = msg /\ hand' = hand
          /\ pc[a] \in {"post", "waiting"}
          /\ \E x \in {"post", "waiting"} : pc' = [pc EXCEPT ![a] = x]
      BY <2>1 DEF PostAsyncMsg, EnqueueWaits, SpuriousActor, queueVars, poolVars, workerVars
    <3>2. \A b \in Actors : pc'[b] # pc[b] =>
            pc[b] \in {"post", "waiting"} /\ pc'[b] \in {"post", "waiting"}
      BY <1>0, <3>1 DEF Types
    <3> QED BY <1>2, <3>1, <3>2
  <2>2. CASE Refuses(a)
    <3>1. /\ stops' = stops /\ q' = q /\ msg' = msg /\ hand' = hand /\ msg[a] # Terminate
          /\ pc' = [pc EXCEPT ![a] = "discard"]
      BY <2>2, StopIsNoPost DEF Refuses, queueVars, poolVars, workerVars
    <3> QED BY <1>1, <3>1 DEF PcValues
  <2>3. CASE Notify(a) \/ Discard(a) \/ Join(a)
    <3>1. /\ stops' = stops /\ q' = q /\ msg' = msg /\ hand' = hand /\ pc[a] \notin {"post", "waiting"}
          /\ \E x \in {"posted", "done", "idle"} : pc' = [pc EXCEPT ![a] = x]
      BY <2>3 DEF Notify, Discard, Join, queueVars, poolVars, workerVars
    <3>2. pc'[a] \notin {"post", "waiting"}
      BY <1>0, <3>1 DEF Types
    <3> QED BY <1>1, <3>1, <3>2 DEF PcValues
  <2> QED BY <1>4, <2>1, <2>2, <2>3 DEF Goes
<1>5. ASSUME NEW p \in Producers, Comes(p) PROVE Unstopped
  <2>1. CASE Call(p) /\ refs = {}
    BY <1>2, <2>1 DEF Call, queueVars, workerVars
  <2>2. CASE Call(p) /\ refs # {}
    <3>1. PICK m \in Posts : pc' = [pc EXCEPT ![p] = "post"] /\ msg' = [msg EXCEPT ![p] = m]
      BY <2>2, CallIs
    <3>2. /\ stops' = stops /\ q' = q /\ hand' = hand /\ pc[p] = "idle"
      BY <2>2 DEF Call, queueVars, workerVars
    <3>3. msg'[p] # Terminate /\ \A b \in Actors \ {p} : msg'[b] = msg[b]
      BY <1>0, <3>1, StopIsNoPost DEF Types
    <3> QED BY <1>0, <1>1, <3>1, <3>2, <3>3 DEF PcValues
  <2>3. CASE Return(p)
    <3>1. /\ stops' = stops /\ q' = q /\ hand' = hand /\ pc[p] = "posted"
          /\ \E x \in {"destroy", "done", "idle"} : pc' = [pc EXCEPT ![p] = x]
          /\ \A b \in Actors \ {p} : msg'[b] = msg[b]
      BY <1>0, <2>3 DEF Return, AfterRelease, queueVars, workerVars, Types
    <3>2. pc'[p] \notin {"post", "waiting"}
      BY <1>0, <3>1 DEF Types
    <3> QED BY <1>0, <1>1, <3>1, <3>2 DEF PcValues
  <2> QED BY <1>5, <2>1, <2>2, <2>3 DEF Comes
<1>6. CASE Begins
  <2>1. /\ stops' = stops /\ q' = q /\ hand' = hand /\ msg' = msg
        /\ pc[Main] \notin {"post", "waiting"}
        /\ \E x \in {"owner", "construct", "done", "aborted", "destroy"} : pc' = [pc EXCEPT ![Main] = x]
    BY <1>6 DEF Begins, StartWorker, StartWorkerThrows, DropPool, AfterRelease, queueVars, poolVars,
                workerVars
  <2>2. pc'[Main] \notin {"post", "waiting"}
    BY <1>0, <2>1 DEF Types
  <2> QED BY <1>0, <1>1, <2>1, <2>2 DEF PcValues
<1>7. ASSUME NEW w \in Workers, Turns(w) PROVE Unstopped
  <2>1. stops' = stops /\ q' = q /\ msg' = msg /\ hand' = hand
    BY <1>7 DEF Turns, DequeueWaits, WorkerNotify, SpuriousWorker, queueVars, poolVars, actorVars
  <2>2. \A a \in Actors : pc'[a] # pc[a] => pc[a] = "waiting" /\ pc'[a] = "post"
    BY <1>0, <1>7, NotifyMoves DEF Turns, DequeueWaits, WorkerNotify, SpuriousWorker, actorVars
  <2> QED BY <1>2, <2>1, <2>2
<1>8. ASSUME NEW w \in Workers, BackendSinkIt(w) \/ BackendFlush(w) PROVE Unstopped
  <2>1. /\ wpc[w] \in {"log", "flush"} /\ UNCHANGED <<q, stops, pc, msg>>
        /\ NextSink(w) \/ NowFlush(w) \/ WorkerDone(w)
    BY <1>8, SinkItIs, FlushIs DEF queueVars, poolVars, actorVars
  <2>2. hand[w] \in Posts
    BY <2>1 DEF HandsFit, Fits
  <2>3. \A v \in Workers : hand'[v] = Terminate <=> hand[v] = Terminate
    BY <1>0, <2>1, <2>2, ConstantsAre, StopIsNoPost DEF NextSink, NowFlush, WorkerDone
  <2> QED BY <1>2, <2>1, <2>3
<1> QED BY <1>3, <1>4, <1>5, <1>6, <1>7, <1>8, Steps

LEMMA StopsInit == Init => StopsCounted /\ StopsLast /\ Finished
<1> SUFFICES ASSUME Init PROVE StopsCounted /\ StopsLast /\ Finished
  OBVIOUS
<1>1. /\ Line = <<>> /\ stops = 0 /\ started = 0
      /\ hand = [w \in Workers |-> Nothing] /\ msg = [a \in Actors |-> Nothing]
      /\ pc = [a \in Actors |-> IF a = Main THEN "construct" ELSE "idle"]
  BY NewIsEmpty DEF Init, Line
<1>2. HandStops = {} /\ StopsIn(Line) = {} /\ Coming = {}
  BY <1>1, ConstantsAre, StopIsNoPost DEF HandStops, StopsIn, Coming
<1>3. Cardinality(HandStops) + Cardinality(StopsIn(Line)) + Cardinality(Coming) = stops
  <2>1. Cardinality({}) = 0
    BY FS_EmptySet
  <2>2. Cardinality(HandStops) = 0 /\ Cardinality(StopsIn(Line)) = 0 /\ Cardinality(Coming) = 0
    BY <1>2, <2>1
  <2> QED BY <1>1, <2>2
<1>4. StopsCounted
  BY <1>1, <1>3 DEF StopsCounted
<1> QED BY <1>1, <1>2, <1>4 DEF StopsLast, Finished, HandStops

\* A worker that takes a terminate message has it in hand for good.
LEMMA TakesStops ==
  ASSUME PoolInv, PoolTypes, HandsFit, StopsCounted, StopsLast, NEW w \in Workers, Takes(w)
  PROVE  StopsCounted' /\ StopsLast'
<1>0. /\ Line \in Seq(Message) /\ Line # <<>> /\ Line' = Tail(Line)
      /\ stops' = stops /\ threads' = threads /\ msg' = msg
      /\ hand[w] = Nothing /\ hand'[w] = Line[1] /\ (\A v \in Workers \ {w} : hand'[v] = hand[v])
      /\ Nothing # Terminate
  BY ConstantsAre, StopIsNoPost DEF Takes, PoolTypes, HandsFit, Fits, poolVars
<1>1. /\ Len(Line) \in Nat /\ Len(Line) >= 1
      /\ DOMAIN Tail(Line) = 1 .. Len(Line) - 1 /\ DOMAIN Line = 1 .. Len(Line)
      /\ \A i \in 1 .. Len(Line) - 1 : Tail(Line)[i] = Line[i + 1]
  BY <1>0, LineParts
<1>2. Coming' = Coming /\ \A a \in Actors : pc'[a] = "join" => pc[a] = "join"
  BY <1>0 DEF Takes, WakesActor, Coming
<1>3. Cardinality(StopsIn(Line)') = Cardinality(StopsIn(Line) \ {1})
  BY <1>0, TailStops
<1>4. Cardinality(HandStops)' + Cardinality(StopsIn(Line))' = Cardinality(HandStops) + Cardinality(StopsIn(Line))
  <2>1. CASE Line[1] = Terminate
    <3>1. HandStops' = HandStops \cup {w} /\ w \notin HandStops
      BY <1>0, <2>1 DEF HandStops
    <3>2. 1 \in StopsIn(Line)
      BY <1>1, <2>1 DEF StopsIn
    <3>3. /\ Cardinality(HandStops') = Cardinality(HandStops) + 1
          /\ Cardinality(StopsIn(Line) \ {1}) = Cardinality(StopsIn(Line)) - 1
      BY <3>1, <3>2, StopsFinite, FS_AddElement, FS_RemoveElement
    <3> QED BY <1>3, <3>3, StopsFinite
  <2>2. CASE Line[1] # Terminate
    <3>1. HandStops' = HandStops
      BY <1>0, <2>2 DEF HandStops
    <3>2. StopsIn(Line) \ {1} = StopsIn(Line)
      BY <2>2 DEF StopsIn
    <3> QED BY <1>3, <3>1, <3>2
  <2> QED BY <2>1, <2>2
<1>5. StopsCounted'
  <2>1. Cardinality(HandStops)' + Cardinality(StopsIn(Line))' + Cardinality(Coming)' = stops'
    BY <1>0, <1>2, <1>4 DEF StopsCounted
  <2> QED BY <1>0, <1>2, <2>1 DEF StopsCounted
<1>6. \A i, j \in DOMAIN Line' : i < j /\ Line'[i] = Terminate => Line'[j] = Terminate
  <2> SUFFICES ASSUME NEW i \in DOMAIN Line', NEW j \in DOMAIN Line', i < j, Line'[i] = Terminate
               PROVE  Line'[j] = Terminate
    OBVIOUS
  <2>1. /\ i + 1 \in DOMAIN Line /\ j + 1 \in DOMAIN Line /\ i + 1 < j + 1
        /\ Line'[i] = Line[i + 1] /\ Line'[j] = Line[j + 1]
    BY <1>0, <1>1
  <2> QED BY <2>1 DEF StopsLast
<1>7. ASSUME NEW v \in Workers, hand'[v] = Terminate, NEW i \in DOMAIN Line'
      PROVE  Line'[i] = Terminate
  <2>1. i + 1 \in DOMAIN Line /\ 1 \in DOMAIN Line /\ 1 < i + 1 /\ Line'[i] = Line[i + 1]
    BY <1>0, <1>1
  <2>2. hand[v] = Terminate \/ Line[1] = Terminate
    BY <1>0, <1>7
  <2> QED BY <2>1, <2>2 DEF StopsLast
<1>8. StopsLast'
  BY <1>6, <1>7 DEF StopsLast
<1> QED BY <1>5, <1>8

\* A terminate message that was coming is in the line.
LEMMA PutsStops ==
  ASSUME PoolInv, PoolTypes, HandsFit, OwnCall, NotYet, EndsUnheld, StopsCounted, StopsLast,
         NEW a \in Actors, Puts(a)
  PROVE  StopsCounted' /\ StopsLast'
<1>0. /\ Types /\ pc[a] = "post" /\ stops' = stops /\ threads' = threads /\ msg' = msg /\ hand' = hand
      /\ pc' = [pc EXCEPT ![a] = "posted"] \/ pc' = [pc EXCEPT ![a] = "notify"]
      /\ Line \in Seq(Message) /\ HandStops' = HandStops
  BY DEF Puts, poolVars, PoolInv, PoolTypes, HandStops
<1>1. \A b \in Actors : pc'[b] = "join" => pc[b] = "join"
  BY <1>0 DEF Types
<1>2. CASE msg[a] = Terminate
  <2>1. Line' = Append(Line, Terminate) /\ Terminate \in Message
    BY <1>2, StopIsNoPost DEF Puts
  <2>2. Coming' = Coming \ {a} /\ a \in Coming
    BY <1>0, <1>2 DEF Coming, Types
  <2>3. StopsIn(Line)' = StopsIn(Line) \cup {Len(Line) + 1} /\ Len(Line) + 1 \notin StopsIn(Line)
    BY <1>0, <2>1, AppendStops
  <2>4. /\ Cardinality(Coming') = Cardinality(Coming) - 1
        /\ Cardinality(StopsIn(Line)') = Cardinality(StopsIn(Line)) + 1
    <3>1. IsFiniteSet(Coming) /\ IsFiniteSet(StopsIn(Line))
      BY StopsFinite
    <3>2. Cardinality(Coming \ {a}) = Cardinality(Coming) - 1
      BY <2>2, <3>1, FS_RemoveElement
    <3>3. Cardinality(StopsIn(Line) \cup {Len(Line) + 1}) = Cardinality(StopsIn(Line)) + 1
      BY <2>3, <3>1, FS_AddElement
    <3> QED BY <2>2, <2>3, <3>2, <3>3
  <2>5. Cardinality(HandStops)' + Cardinality(StopsIn(Line))' + Cardinality(Coming)' = stops'
    BY <1>0, <2>4, StopsFinite DEF StopsCounted
  <2>6. StopsCounted'
    BY <1>0, <1>1, <2>5 DEF StopsCounted
  <2>7. /\ Len(Line) \in Nat /\ DOMAIN Line = 1 .. Len(Line) /\ DOMAIN Line' = 1 .. Len(Line) + 1
        /\ \A i \in 1 .. Len(Line) : Line'[i] = Line[i]
        /\ Line'[Len(Line) + 1] = Terminate
    BY <1>0, <2>1
  <2>8. \A i, j \in DOMAIN Line' : i < j /\ Line'[i] = Terminate => Line'[j] = Terminate
    <3> SUFFICES ASSUME NEW i \in DOMAIN Line', NEW j \in DOMAIN Line', i < j, Line'[i] = Terminate
                 PROVE  Line'[j] = Terminate
      OBVIOUS
    <3>1. i \in DOMAIN Line /\ Line[i] = Terminate
      BY <2>7
    <3>2. CASE j \in DOMAIN Line
      BY <2>7, <3>1, <3>2 DEF StopsLast
    <3>3. CASE j \notin DOMAIN Line
      BY <2>7, <3>3
    <3> QED BY <3>2, <3>3
  <2>9. \A v \in Workers : hand'[v] = Terminate => \A i \in DOMAIN Line' : Line'[i] = Terminate
    <3> SUFFICES ASSUME NEW v \in Workers, hand[v] = Terminate, NEW i \in DOMAIN Line'
                 PROVE  Line'[i] = Terminate
      BY <1>0
    <3>1. CASE i \in DOMAIN Line
      BY <2>7, <3>1 DEF StopsLast
    <3>2. CASE i \notin DOMAIN Line
      BY <2>7, <3>2
    <3> QED BY <3>1, <3>2
  <2> QED BY <2>6, <2>8, <2>9 DEF StopsLast
<1>3. CASE msg[a] # Terminate
  <2>1. a \in Producers /\ ~HasStop /\ msg[a] \in Message
    BY <1>3, Fresh, StopIsNoPost
  <2>2. refs # {}
    BY <1>0, <1>3, <2>1 DEF PoolInv, CallersHold, Active
  <2>3. \A w \in Workers : hand[w] # Terminate
    BY <2>2 DEF EndsUnheld
  <2>4. Line \in Seq(Message \cup {Moved}) /\ Line' \in Seq(Message \cup {Moved})
    <3>1. Line' = Append(Line, msg[a]) \/ (Line # <<>> /\ Line' = Append(Tail(Line), msg[a]))
      BY DEF Puts
    <3>2. Line # <<>> => Tail(Line) \in Seq(Message)
      BY <1>0, LineParts
    <3> QED BY <1>0, <2>1, <3>1, <3>2
  <2>5. \A i \in DOMAIN Line' : Line'[i] # Terminate
    <3> SUFFICES ASSUME NEW i \in DOMAIN Line' PROVE Line'[i] # Terminate
      OBVIOUS
    <3>1. Line'[i] = msg[a] \/ \E j \in DOMAIN Line : Line[j] = Line'[i]
      BY <2>1, <2>4, NewStops DEF Puts
    <3> QED BY <1>3, <2>1, <3>1 DEF HasStop, Line
  <2>6. StopsIn(Line) = {} /\ StopsIn(Line)' = {}
    BY <2>1, <2>5 DEF StopsIn, HasStop, Line
  <2>7. Coming' = Coming
    BY <1>0, <1>3 DEF Coming, Types
  <2>8. StopsCounted'
    BY <1>0, <1>1, <2>6, <2>7 DEF StopsCounted
  <2>9. StopsLast'
    BY <1>0, <2>3, <2>5 DEF StopsLast
  <2> QED BY <2>8, <2>9
<1> QED BY <1>2, <1>3

\* The destructor begins the next terminate message, or to wait.
LEMMA BeginsStops ==
  ASSUME PoolInv, PoolTypes, OneEnds, StopsCounted, StopsLast, NEW a \in Actors, PostTerminate(a)
  PROVE  StopsCounted' /\ StopsLast'
<1>0. /\ Types /\ Line' = Line /\ hand' = hand /\ threads' = threads /\ HandStops' = HandStops
      /\ pc[a] = "destroy" \/ (pc[a] = "posted" /\ msg[a] = Terminate)
      /\ threads \in Nat /\ stops \in Nat /\ stops <= threads
  BY ThreadsAre DEF PostTerminate, Line, queueVars, workerVars, HandStops, PoolInv
<1>1. StopsLast'
  BY <1>0 DEF StopsLast
<1>2. Ending(a) /\ \A b \in Actors \ {a} : pc[b] # "join"
  BY <1>0 DEF OneEnds, Ending
<1>3. CASE stops < threads
  <2>1. /\ stops' = stops + 1 /\ msg' = [msg EXCEPT ![a] = Terminate]
        /\ pc' = [pc EXCEPT ![a] = "post"]
    BY <1>3 DEF PostTerminate
  <2>2. Coming' = Coming \cup {a} /\ a \notin Coming
    BY <1>0, <2>1 DEF Coming, Types
  <2>3. IsFiniteSet(Coming)
    BY StopsFinite
  <2>4. Cardinality(Coming') = Cardinality(Coming) + 1
    BY <2>2, <2>3, FS_AddElement
  <2>5. Cardinality(HandStops)' + Cardinality(StopsIn(Line))' + Cardinality(Coming)' = stops'
    BY <1>0, <2>1, <2>4, StopsFinite DEF StopsCounted
  <2>6. \A b \in Actors : pc'[b] # "join"
    BY <1>0, <1>2, <2>1 DEF Types
  <2> QED BY <1>1, <2>5, <2>6 DEF StopsCounted
<1>4. CASE ~(stops < threads)
  <2>1. /\ stops' = stops /\ msg' = [msg EXCEPT ![a] = Nothing] /\ pc' = [pc EXCEPT ![a] = "join"]
    BY <1>4 DEF PostTerminate
  <2>2. Coming' = Coming
    BY <1>0, <2>1, ConstantsAre, StopIsNoPost DEF Coming, Types
  <2>3. stops' = threads'
    BY <1>0, <1>4, <2>1
  <2> QED BY <1>0, <1>1, <2>1, <2>2, <2>3 DEF StopsCounted
<1> QED BY <1>3, <1>4

LEMMA StopsNext ==
  ASSUME PoolInv, PoolTypes, HandsFit, OwnCall, NotYet, OneEnds, EndsUnheld, StopsCounted, StopsLast,
         [Next]_vars
  PROVE  StopsCounted' /\ StopsLast'
<1>1. CASE Unstopped
  <2>1. HandStops' = HandStops
    BY <1>1 DEF Unstopped, HandStops
  <2>2. threads' = threads
    BY SetupKept
  <2> QED BY <1>1, <2>1, <2>2 DEF Unstopped, StopsCounted, StopsLast
<1> QED BY <1>1, TakesStops, PutsStops, BeginsStops, StopSteps

\* A worker that has ended has ended.
LEMMA EndedStays ==
  ASSUME PoolInv, PoolTypes, HandsFit, [Next]_vars, NEW w \in Workers, wpc[w] = "ended"
  PROVE  wpc'[w] = "ended"
<1>0. wpc \in [Workers -> WpcValues]
  BY DEF PoolTypes
<1>1. CASE UNCHANGED vars
  BY <1>1 DEF vars, workerVars
<1>2. ASSUME NEW a \in Actors, Puts(a) \/ Refuses(a) \/ Goes(a) PROVE wpc'[w] = "ended"
  <2>1. WakesWorker \/ wpc' = wpc
    BY <1>0, <1>2, PushWakes
    DEF Puts, Refuses, Goes, EnqueueWaits, Notify, Discard, PostTerminate, Join, SpuriousActor,
        workerVars
  <2> QED BY <2>1 DEF WakesWorker
<1>3. CASE StartWorker
  <2>1. wpc' = [wpc EXCEPT ![started + 1] = "dequeue"]
    BY <1>3 DEF StartWorker
  <2>2. w # started + 1
    BY ThreadsAre DEF HandsFit, Fits
  <2> QED BY <1>0, <2>1, <2>2
<1>4. CASE (\E p \in Producers : Comes(p)) \/ StartWorkerThrows \/ DropPool
  BY <1>4 DEF Comes, Call, Return, StartWorkerThrows, DropPool, workerVars
<1>5. ASSUME NEW v \in Workers, Takes(v) \/ BackendSinkIt(v) \/ BackendFlush(v) \/ Turns(v)
      PROVE  wpc'[w] = "ended"
  <2>1. wpc[v] # "ended" /\ \E x : wpc' = [wpc EXCEPT ![v] = x]
    <3>1. CASE Takes(v)
      BY <3>1 DEF Takes
    <3>2. CASE Turns(v)
      BY <3>2 DEF Turns, DequeueWaits, WorkerNotify, SpuriousWorker
    <3>3. CASE BackendSinkIt(v) \/ BackendFlush(v)
      <4>1. /\ wpc[v] \in {"log", "flush"}
            /\ NextSink(v) \/ NowFlush(v) \/ WorkerDone(v)
        BY <3>3, SinkItIs, FlushIs
      <4>2. wpc' = wpc \/ wpc' = [wpc EXCEPT ![v] = "flush"] \/ wpc' = [wpc EXCEPT ![v] = "dequeue"]
        BY <4>1 DEF NextSink, NowFlush, WorkerDone
      <4>3. wpc = [wpc EXCEPT ![v] = wpc[v]]
        BY <1>0
      <4> QED BY <4>1, <4>2, <4>3
    <3> QED BY <1>5, <3>1, <3>2, <3>3
  <2> QED BY <1>0, <2>1
<1> QED BY <1>1, <1>2, <1>3, <1>4, <1>5, Steps DEF Begins

\* A thread that ends the pool has ended it when its workers have ended.
LEMMA EndingStays ==
  ASSUME PoolInv, PoolTypes, OneEnds, EndsUnheld, [Next]_vars, NEW a \in Actors, Ending(a)
  PROVE  Ending(a)' \/ Join(a)
<1>0. /\ Types /\ refs = {} /\ Main \in Actors /\ Producers \subseteq Actors /\ Main \notin Producers
      /\ \A b \in Actors : Ending(b) => b = a
  BY ConstantsAre DEF PoolInv, OneEnds, EndsUnheld, Actors
<1>1. CASE UNCHANGED vars
  BY <1>1 DEF vars, actorVars, Ending
<1>2. ASSUME NEW b \in Actors, PostTerminate(b) PROVE Ending(a)'
  <2>1. \/ msg' = [msg EXCEPT ![b] = Terminate]
        \/ pc' = [pc EXCEPT ![b] = "join"] /\ msg' = [msg EXCEPT ![b] = Nothing]
    BY <1>2 DEF PostTerminate
  <2>2. b = a
    BY <1>0, <1>2 DEF PostTerminate, Ending
  <2> QED BY <1>0, <2>1, <2>2 DEF Ending, Types
<1>3. ASSUME NEW b \in Actors, Puts(b) \/ Refuses(b) \/ Goes(b), ~PostTerminate(b), ~Join(a)
      PROVE  Ending(a)'
  <2>1. CASE Join(b)
    <3>1. a # b /\ msg' = msg /\ \A c \in Actors \ {b} : pc'[c] = pc[c]
      BY <1>0, <1>3, <2>1 DEF Join, Types
    <3> QED BY <3>1 DEF Ending
  <2>2. CASE ~Join(b)
    <3>1. /\ msg' = msg /\ pc[b] \notin {"destroy", "join"}
          /\ \E x \in PcValues : pc' = [pc EXCEPT ![b] = x]
      BY <1>3, <2>2 DEF Puts, Refuses, Goes, PostAsyncMsg, EnqueueWaits, Notify, Discard,
                        SpuriousActor, PcValues
    <3> QED BY <1>0, <3>1 DEF Ending, Types
  <2> QED BY <2>1, <2>2
<1>4. ASSUME NEW p \in Producers, Comes(p) PROVE Ending(a)'
  <2>1. Call(p) => UNCHANGED <<pc, msg>>
    BY <1>0 DEF Call
  <2>2. ~Return(p)
    BY <1>0 DEF Return, PoolInv, CallersHold, Active
  <2> QED BY <1>4, <2>1, <2>2 DEF Comes, Ending
<1>5. CASE Begins
  <2>1. /\ msg' = msg /\ pc[Main] \notin {"destroy", "join"}
        /\ \E x \in PcValues : pc' = [pc EXCEPT ![Main] = x]
    BY <1>5 DEF Begins, StartWorker, StartWorkerThrows, DropPool, AfterRelease, PcValues
  <2> QED BY <1>0, <2>1 DEF Ending, Types
<1>6. ASSUME NEW w \in Workers, Takes(w) \/ Turns(w) PROVE Ending(a)'
  <2>1. msg' = msg
    BY <1>6 DEF Takes, Turns, DequeueWaits, WorkerNotify, SpuriousWorker, actorVars
  <2>2. \A b \in Actors : pc'[b] # pc[b] => pc[b] = "waiting" /\ pc'[b] = "post"
    BY <1>0, <1>6, NotifyMoves
    DEF Takes, WakesActor, Turns, DequeueWaits, WorkerNotify, SpuriousWorker, actorVars
  <2> QED BY <2>1, <2>2 DEF Ending
<1>7. ASSUME NEW w \in Workers, BackendSinkIt(w) \/ BackendFlush(w) PROVE Ending(a)'
  BY <1>7, SinkItIs, FlushIs DEF actorVars, Ending
<1> QED BY <1>1, <1>2, <1>3, <1>4, <1>5, <1>6, <1>7, Steps

\* Whoever lets go last begins to end the pool.
LEMMA LastEnds ==
  ASSUME PoolInv, PoolTypes, [Next]_vars, refs' = {}, started' > 0
  PROVE  (refs = {} /\ started > 0) \/ \E a \in Actors : Ending(a)'
<1>0. Types /\ Main \in Actors /\ Producers \subseteq Actors /\ started \in Nat
  BY ThreadsAre DEF PoolInv, Actors
<1>1. ASSUME refs' = refs, started' = started PROVE refs = {} /\ started > 0
  BY <1>1
<1>2. CASE UNCHANGED vars
  BY <1>1, <1>2 DEF vars, poolVars
<1>3. ASSUME NEW a \in Actors, Puts(a) \/ Refuses(a) \/ Goes(a) PROVE refs = {} /\ started > 0
  BY <1>1, <1>3
  DEF Puts, Refuses, Goes, PostAsyncMsg, Notify, Discard, PostTerminate, Join, SpuriousActor, poolVars
<1>4. ASSUME NEW p \in Producers, Call(p) PROVE refs = {} /\ started > 0
  BY <1>1, <1>4 DEF Call
<1>5. ASSUME NEW p \in Producers, Return(p) PROVE \E a \in Actors : Ending(a)'
  <2>1. /\ refs' = refs \ {p} /\ pc' = [pc EXCEPT ![p] = AfterRelease(p)]
        /\ p \in refs
    BY <1>5 DEF Return, PoolInv, CallersHold, Active
  <2>2. refs = {p}
    BY <2>1
  <2> QED BY <1>0, <2>1, <2>2 DEF AfterRelease, Ending, Types
<1>6. CASE DropPool
  <2>1. /\ refs' = refs \ {Main} /\ pc' = [pc EXCEPT ![Main] = AfterRelease(Main)] /\ started' = started
    BY <1>6 DEF DropPool
  <2>2. CASE refs = {}
    BY <2>1, <2>2
  <2>3. CASE refs # {}
    <3>1. refs = {Main}
      BY <2>1, <2>3
    <3> QED BY <1>0, <2>1, <3>1 DEF AfterRelease, Ending, Types
  <2> QED BY <2>2, <2>3
<1>7. ~StartWorker
  BY DEF StartWorker, PoolInv, MadeByMain
<1>8. CASE StartWorkerThrows
  BY <1>0, <1>8 DEF StartWorkerThrows, PoolInv, MadeByMain
<1>9. ASSUME NEW w \in Workers, Takes(w) \/ BackendSinkIt(w) \/ BackendFlush(w) \/ Turns(w)
      PROVE  refs = {} /\ started > 0
  BY <1>1, <1>9, SinkItIs, FlushIs
  DEF Takes, Turns, DequeueWaits, WorkerNotify, SpuriousWorker, poolVars
<1> QED BY <1>2, <1>3, <1>4, <1>5, <1>6, <1>7, <1>8, <1>9, Steps DEF Comes, Begins

LEMMA FinishedNext ==
  ASSUME PoolInv, PoolTypes, HandsFit, OneEnds, EndsUnheld, Finished, [Next]_vars
  PROVE  Finished'
<1> SUFFICES ASSUME refs' = {}, started' > 0, \A a \in Actors : ~Ending(a)'
             PROVE  \A w \in 1 .. threads' : wpc'[w] = "ended"
  BY DEF Finished
<1>1. threads' = threads
  BY SetupKept
<1>2. refs = {} /\ started > 0
  BY LastEnds
<1>3. CASE \E a \in Actors : Ending(a)
  <2>1. PICK a \in Actors : Join(a)
    BY <1>3, EndingStays
  <2>2. wpc' = wpc
    BY <2>1 DEF Join, workerVars
  <2> QED BY <1>1, <2>1, <2>2 DEF Join
<1>4. CASE \A w \in 1 .. threads : wpc[w] = "ended"
  BY <1>1, <1>4, ThreadsAre, EndedStays
<1> QED BY <1>2, <1>3, <1>4 DEF Finished

LEMMA StopEachHolds ==
  ASSUME PoolInv, PoolTypes, OneEnds, StopsCounted
  PROVE  OneStopEach
<1>1. Cardinality(HandStops) + Cardinality(StopsIn(Line)) + Cardinality(Coming) = stops
  BY DEF StopsCounted
<1>2. \A a \in Actors : pc[a] = "join" => stops = threads /\ Coming = {}
  <2> SUFFICES ASSUME NEW a \in Actors, pc[a] = "join" PROVE stops = threads /\ Coming = {}
    OBVIOUS
  <2>1. \A b \in Actors : Ending(b) => b = a
    BY DEF OneEnds, Ending
  <2>2. Coming = {}
    BY <2>1 DEF Coming, Ending
  <2> QED BY <2>2 DEF StopsCounted
<1> QED BY <1>1, <1>2 DEF OneStopEach, HandStops, StopsIn, Coming, Line

\* The terminate messages of a pool that has been ended are all in hand, so that
\* none is in the line, and nothing comes behind them.
LEMMA DrainedHolds ==
  ASSUME PoolInv, PoolTypes, HandsFit, OneEnds, StopsCounted, StopsLast, Finished, LostCounted
  PROVE  Drained
<1> SUFFICES ASSUME Gone
             PROVE  /\ Empty(q)
                    /\ \A w \in 1 .. threads : wpc[w] = "ended"
                    /\ Cardinality(posted \ handled) = q.overrun
  BY DEF Drained
<1>1. refs = {} /\ started > 0 /\ \A a \in Actors : ~Ending(a)
  BY DEF Gone, Ending
<1>2. \A w \in 1 .. threads : wpc[w] = "ended"
  BY <1>1 DEF Finished
<1>3. /\ threads \in Nat /\ threads >= 1 /\ stops \in Nat /\ stops <= threads
      /\ started \in Nat /\ started <= threads
      /\ \A w \in Workers : w \in Nat /\ w >= 1
      /\ \A w \in 1 .. threads : w \in Workers
  BY ThreadsAre
<1>4. \A w \in Workers : IF w <= threads THEN hand[w] = Terminate ELSE hand[w] = Nothing
  <2> SUFFICES ASSUME NEW w \in Workers
               PROVE  IF w <= threads THEN hand[w] = Terminate ELSE hand[w] = Nothing
    OBVIOUS
  <2>1. Fits(w)
    BY DEF HandsFit
  <2>2. CASE w <= threads
    <3>1. w \in 1 .. threads
      BY <1>3, <2>2
    <3> QED BY <1>2, <2>1, <2>2, <3>1 DEF Fits
  <2>3. CASE ~(w <= threads)
    <3>1. w > started
      BY <1>3, <2>3
    <3> QED BY <2>1, <2>3, <3>1 DEF Fits
  <2> QED BY <2>2, <2>3
<1>5. Nothing # Terminate
  BY ConstantsAre, StopIsNoPost
<1>6. HandStops = 1 .. threads
  BY <1>3, <1>4, <1>5 DEF HandStops
<1>7. Cardinality(HandStops) = threads
  <2>1. Cardinality(1 .. threads) = IF 1 > threads THEN 0 ELSE threads - 1 + 1
    BY <1>3, FS_Interval
  <2> QED BY <1>3, <1>6, <2>1
<1>8. Cardinality(StopsIn(Line)) = 0
  BY <1>3, <1>7, StopsFinite DEF StopsCounted
<1>9. StopsIn(Line) = {}
  BY <1>8, StopsFinite, FS_EmptySet
<1>10. \A i \in DOMAIN Line : Line[i] = Terminate
  <2>1. 1 \in Workers /\ hand[1] = Terminate
    BY <1>3, <1>4
  <2> QED BY <2>1 DEF StopsLast
<1>11. Line = <<>>
  <2>1. DOMAIN Line = {}
    BY <1>9, <1>10 DEF StopsIn
  <2>2. Line \in Seq(Message)
    BY DEF PoolTypes
  <2> QED BY <2>1, <2>2
<1>12. Empty(q)
  BY <1>11, LineIs DEF PoolInv
<1>13. Pending = {}
  BY <1>11 DEF Pending, Items, Line
<1>14. InHand = {}
  BY <1>4 DEF InHand
<1>15. Lost = posted \ handled
  BY <1>13, <1>14 DEF Lost
<1> QED BY <1>2, <1>12, <1>15 DEF LostCounted

LEMMA TypesHold ==
  ASSUME PoolInv, PoolTypes
  PROVE  TypeOK
<1>1. IsCircQ(q, Message) /\ refs \subseteq Actors /\ msg \in [Actors -> Message \cup {Nothing}]
  BY DEF PoolInv, Types
<1>2. pc \in [Actors -> {"construct", "owner", "aborted", "done", "idle", "post",
                         "waiting", "notify", "discard", "posted", "destroy", "join"}]
  BY DEF PoolInv, Types, PcValues
<1> QED BY <1>1, <1>2 DEF TypeOK, PoolTypes, Setup, WpcValues

-----------------------------------------------------------------------------
(* The pool's end.                                                         *)

DeliveryInv ==
  /\ PoolInv /\ PoolTypes /\ HandsFit
  /\ OneEnds /\ EndsUnheld
  /\ OwnCall /\ NotYet
  /\ Apart /\ LostCounted /\ RefusedCounted
  /\ StopsCounted /\ StopsLast /\ Finished

LEMMA DeliveryInit == Init => DeliveryInv
BY InvInit, TypesInit, EndsInit, NumbersInit, ApartInit, RefusedInit, StopsInit DEF DeliveryInv

LEMMA DeliveryNext == DeliveryInv /\ [Next]_vars => DeliveryInv'
<1> SUFFICES ASSUME DeliveryInv, [Next]_vars PROVE DeliveryInv'
  OBVIOUS
<1> USE DEF DeliveryInv
<1>1. PoolInv'
  BY InvNext
<1>2. PoolTypes' /\ HandsFit'
  BY TypesNext
<1>3. OneEnds' /\ EndsUnheld'
  BY EndsNext
<1>4. OwnCall' /\ NotYet'
  BY <1>2, NumbersNext
<1>5. Apart' /\ LostCounted'
  BY ApartNext
<1>6. RefusedCounted'
  BY RefusedNext
<1>7. StopsCounted' /\ StopsLast'
  BY StopsNext
<1>8. Finished'
  BY FinishedNext
<1> QED BY <1>1, <1>2, <1>3, <1>4, <1>5, <1>6, <1>7, <1>8

\* The destructor of the pool posts one terminate message for each worker, none
\* of which is lost, so that it joins them all; and then the queue is empty and
\* every accepted message is handled or was overrun (thread_pool-inl.h:44-55).
THEOREM PoolStopsClean == Spec => []StoppedClean
<1>1. DeliveryInv => StoppedClean
  BY TypesHold, StopEachHolds, DrainedHolds DEF DeliveryInv, StoppedClean
<1> QED BY <1>1, DeliveryInit, DeliveryNext, PTL DEF Spec

-----------------------------------------------------------------------------
(* The sinks.                                                              *)

\* Worker w has been to sink s with the message in its hands.
Beyond(w, s) == (wpc[w] = "log" /\ s < at[w]) \/ wpc[w] = "flush"

\* With one worker, what is handled came before what is in hand.
OneByOne ==
  threads = 1 => \A m \in handled : \A k \in InHand : m.by = k.by => m.n < k.n

OnlyRecords == \A w \in Workers : wpc[w] = "log" => hand[w].kind # "flush"

\* What a sink has was brought by a worker.
SunkBy ==
  \A s \in Sinks : \A i \in DOMAIN sunk[s] :
    sunk[s][i] \in handled \/ \E w \in Workers : hand[w] = sunk[s][i] /\ Beyond(w, s)

Served ==
  \A w \in Workers : \A s \in Sinks \ Throwing :
    hand[w] \in Posts /\ hand[w].kind # "flush" /\ Beyond(w, s) => hand[w] \in Items(sunk[s])

\* The sinks the worker has been to on its flush are flushed, where they did not
\* throw.
Covered ==
  threads = 1 =>
    \A w \in Workers : wpc[w] = "flush" =>
      \A s \in Sinks : <<hand[w], s>> \notin missed => \A i \in DOMAIN sunk[s] :
        s < at[w] /\ (Before(sunk[s][i], hand[w]) \/ sunk[s][i] = hand[w]) => i <= flushed[s]

SinksInv ==
  /\ OneByOne /\ OnlyRecords /\ SunkBy /\ Served /\ Covered
  /\ InPostOrder /\ EverySinkServed /\ FlushCovers

LEMMA SinksInit == Init => SinksInv
<1> SUFFICES ASSUME Init PROVE SinksInv
  OBVIOUS
<1>1. /\ handled = {} /\ wpc = [w \in Workers |-> "none"] /\ sunk = [s \in Sinks |-> <<>>]
  BY DEF Init
<1>2. \A s \in Sinks : DOMAIN sunk[s] = {}
  BY <1>1
<1>3. OneByOne /\ OnlyRecords /\ Covered /\ Served
  BY <1>1 DEF OneByOne, OnlyRecords, Covered, Served, Beyond
<1>4. SunkBy /\ InPostOrder /\ EverySinkServed /\ FlushCovers
  BY <1>1, <1>2 DEF SunkBy, InPostOrder, EverySinkServed, FlushCovers
<1> QED BY <1>3, <1>4 DEF SinksInv

\* The steps that bring no sink anything.
Stirs ==
  /\ UNCHANGED <<sunk, flushed, missed, handled, at>>
  /\ \A w \in Workers : wpc[w] \in {"log", "flush"} => wpc'[w] = wpc[w] /\ hand'[w] = hand[w]
  /\ \A w \in Workers : wpc[w] \notin {"log", "flush"} /\ wpc'[w] \in {"log", "flush"} =>
       wpc'[w] = AfterTaking(hand'[w])

LEMMA SinkSteps ==
  ASSUME PoolInv, PoolTypes, HandsFit, [Next]_vars
  PROVE  Stirs \/ \E w \in Workers : BackendSinkIt(w) \/ BackendFlush(w)
<1>0. wpc \in [Workers -> WpcValues] /\ hand \in [Workers -> Message \cup {Nothing}]
  BY DEF PoolTypes
<1>1. ASSUME UNCHANGED <<sunk, flushed, missed, handled, at, hand>>,
             \A w \in Workers : wpc'[w] # wpc[w] => wpc[w] \notin {"log", "flush"} /\ wpc'[w] \notin {"log", "flush"}
      PROVE  Stirs
  BY <1>1 DEF Stirs
<1>2. CASE UNCHANGED vars
  BY <1>1, <1>2 DEF vars, workerVars, sinkVars, historyVars
<1>3. ASSUME NEW a \in Actors, Puts(a) \/ Refuses(a) \/ Goes(a) PROVE Stirs
  <2>1. UNCHANGED <<sunk, flushed, missed, handled, at, hand>>
    BY <1>3 DEF Puts, Refuses, Goes, PostAsyncMsg, Notify, Discard, PostTerminate, Join,
                SpuriousActor, workerVars, sinkVars, historyVars
  <2>2. WakesWorker \/ wpc' = wpc
    BY <1>0, <1>3, PushWakes
    DEF Puts, Refuses, Goes, EnqueueWaits, Notify, Discard, PostTerminate, Join, SpuriousActor,
        workerVars
  <2> QED BY <1>1, <2>1, <2>2 DEF WakesWorker
<1>4. CASE (\E p \in Producers : Comes(p)) \/ StartWorkerThrows \/ DropPool
  BY <1>1, <1>4 DEF Comes, Call, Return, StartWorkerThrows, DropPool, workerVars, sinkVars, historyVars
<1>5. CASE StartWorker
  <2>1. /\ wpc' = [wpc EXCEPT ![started + 1] = "dequeue"]
        /\ UNCHANGED <<sunk, flushed, missed, handled, at, hand>>
    BY <1>5 DEF StartWorker, sinkVars, historyVars
  <2>2. \A w \in Workers : w = started + 1 => wpc[w] = "none"
    BY <1>5, ThreadsAre DEF HandsFit, Fits
  <2> QED BY <1>0, <1>1, <2>1, <2>2
<1>6. ASSUME NEW w \in Workers, Takes(w) PROVE Stirs
  <2>1. /\ UNCHANGED <<sunk, flushed, missed, handled, at>> /\ wpc[w] = "dequeue"
        /\ hand'[w] = Line[1]
        /\ wpc'[w] \in {"notify", AfterTaking(Line[1])}
        /\ \A v \in Workers \ {w} : hand'[v] = hand[v] /\ wpc'[v] = wpc[v]
    BY <1>0, <1>6 DEF Takes, sinkVars, historyVars
  <2> QED BY <2>1 DEF Stirs
<1>7. ASSUME NEW w \in Workers, Turns(w) PROVE Stirs
  <2>1. /\ UNCHANGED <<sunk, flushed, missed, handled, at, hand>> /\ wpc[w] \notin {"log", "flush"}
        /\ \E x \in {"waiting", "dequeue", AfterTaking(hand[w])} : wpc' = [wpc EXCEPT ![w] = x]
    BY <1>7 DEF Turns, DequeueWaits, WorkerNotify, SpuriousWorker, sinkVars, historyVars
  <2>2. /\ wpc'[w] \in {"waiting", "dequeue", AfterTaking(hand'[w])}
        /\ \A v \in Workers \ {w} : wpc'[v] = wpc[v]
    BY <1>0, <2>1
  <2> QED BY <2>1, <2>2 DEF Stirs
<1> QED BY <1>2, <1>3, <1>4, <1>5, <1>6, <1>7, Steps DEF Begins

\* With one worker, one message at most is in hand.
LEMMA Alone ==
  ASSUME PoolTypes, HandsFit, threads = 1,
         NEW v \in Workers, NEW w \in Workers, hand[v] # Nothing, hand[w] # Nothing
  PROVE  v = w
<1>1. v \in Nat /\ w \in Nat /\ v >= 1 /\ w >= 1 /\ started \in Nat /\ started <= 1
  BY ThreadsAre
<1>2. Fits(v) /\ Fits(w)
  BY DEF HandsFit
<1>3. ~(v > started) /\ ~(w > started)
  BY <1>2 DEF Fits
<1> QED BY <1>1, <1>3

LEMMA OneByOneNext ==
  ASSUME PoolInv, PoolTypes, HandsFit, OwnCall, NotYet, Apart, OneByOne, [Next]_vars
  PROVE  OneByOne'
<1> SUFFICES ASSUME threads = 1, NEW m \in handled', NEW k \in InHand', m.by = k.by
             PROVE  m.n < k.n
  BY SetupKept DEF OneByOne
<1>1. CASE handled' = handled /\ hand' = hand
  BY <1>1 DEF OneByOne, InHand
<1>2. ASSUME NEW w \in Workers, Takes(w) PROVE m.n < k.n
  <2>1. m \in handled
    BY <1>2 DEF Takes, historyVars
  <2>2. /\ InHand' = InHand \cup ({Line[1]} \ {Terminate})
        /\ Line[1] # Terminate => Line[1] \in Pending
    BY <1>2, TakesSets
  <2>3. CASE k \in InHand
    BY <2>1, <2>3 DEF OneByOne
  <2>4. CASE k \in Pending
    BY <2>1, <2>4 DEF Apart
  <2> QED BY <2>2, <2>3, <2>4
<1>3. ASSUME NEW w \in Workers, Finishes(w) PROVE m.n < k.n
  <2>1. /\ hand[w] \in Posts /\ InHand' = InHand \ {hand[w]}
    BY <1>3, FinishesSets
  <2>2. PICK v \in Workers : hand[v] = k
    BY <2>1, PlacesAre
  <2>3. hand[v] # Nothing /\ hand[w] # Nothing /\ hand[v] # hand[w]
    BY <2>1, <2>2, ConstantsAre, StopIsNoPost, PlacesAre
  <2> QED BY <2>3, Alone
<1>4. ASSUME NEW a \in Actors, Puts(a) PROVE m.n < k.n
  BY <1>1, <1>4 DEF Puts
<1> QED BY <1>1, <1>2, <1>3, <1>4, MessageSteps DEF Rests

\* The sinks up to a worker's are all, when it has no next one.
LEMMA LastSink ==
  ASSUME NEW k \in Sinks, k + 1 \notin Sinks, NEW s \in Sinks
  PROVE  s <= k
<1>1. PICK n \in Nat : Sinks = 1 .. n
  BY SetsAre
<1> QED BY <1>1

\* A worker brings its message to the next sink.
LEMMA LogsIs ==
  ASSUME PoolTypes, HandsFit, Apart, OnlyRecords, NEW w \in Workers, BackendSinkIt(w)
  PROVE  /\ hand[w] \in Posts /\ hand[w] \in InHand /\ hand[w] \notin handled
         /\ hand[w].kind # "flush" /\ at[w] \in Sinks /\ wpc[w] = "log"
         /\ flushed' = flushed /\ missed' = missed
         /\ \A s \in Sinks : \/ sunk'[s] = sunk[s]
                             \/ s = at[w] /\ sunk'[s] = Append(sunk[s], hand[w])
         /\ at[w] \notin Throwing => sunk'[at[w]] = Append(sunk[at[w]], hand[w])
         /\ handled \subseteq handled' /\ handled' \subseteq handled \cup {hand[w]}
         /\ hand[w] \in handled' => hand[w].kind # "urgent" /\ \A s \in Sinks : s <= at[w]
         /\ \A s \in Sinks : s <= at[w] =>
              hand[w] \in handled' \/ (hand'[w] = hand[w] /\ Beyond(w, s)')
         /\ \A s \in Sinks : Beyond(w, s)' => hand'[w] = hand[w] /\ s <= at[w]
         /\ wpc'[w] = "log" => hand'[w] = hand[w]
         /\ wpc'[w] = "flush" => at'[w] = 1
         /\ \A v \in Workers \ {w} : wpc'[v] = wpc[v] /\ hand'[v] = hand[v] /\ at'[v] = at[v]
<1>1. /\ wpc[w] = "log" /\ SinksOne(w) /\ flushed' = flushed /\ missed' = missed
      /\ \/ NextSink(w) \/ NowFlush(w)
         \/ at[w] + 1 \notin Sinks /\ hand[w].kind # "urgent" /\ WorkerDone(w)
  BY SinkItIs
<1>2. /\ hand[w] \in Posts /\ at[w] \in Sinks /\ hand[w] \in InHand /\ hand[w] \notin handled
      /\ hand[w].kind # "flush"
  <2>1. hand[w] \in Posts /\ at[w] \in Sinks
    BY <1>1 DEF HandsFit, Fits, PoolTypes
  <2> QED BY <1>1, <2>1, PlacesAre DEF Apart, OnlyRecords
<1>3. /\ \A s \in Sinks : \/ sunk'[s] = sunk[s]
                          \/ s = at[w] /\ sunk'[s] = Append(sunk[s], hand[w])
      /\ at[w] \notin Throwing => sunk'[at[w]] = Append(sunk[at[w]], hand[w])
  BY <1>1, <1>2 DEF SinksOne, PoolTypes
<1>4. at[w] \in Nat /\ at[w] >= 1 /\ \A s \in Sinks : s \in Nat /\ s >= 1
  <2>1. PICK n \in Nat : Sinks = 1 .. n
    BY SetsAre
  <2> QED BY <1>2, <2>1
<1>5. at[w] + 1 \notin Sinks => \A s \in Sinks : s <= at[w]
  BY <1>2, LastSink
<1> DEFINE Goal ==
         /\ handled \subseteq handled' /\ handled' \subseteq handled \cup {hand[w]}
         /\ hand[w] \in handled' => hand[w].kind # "urgent" /\ \A s \in Sinks : s <= at[w]
         /\ \A s \in Sinks : s <= at[w] =>
              hand[w] \in handled' \/ (hand'[w] = hand[w] /\ Beyond(w, s)')
         /\ \A s \in Sinks : Beyond(w, s)' => hand'[w] = hand[w] /\ s <= at[w]
         /\ wpc'[w] = "log" => hand'[w] = hand[w]
         /\ wpc'[w] = "flush" => at'[w] = 1
         /\ \A v \in Workers \ {w} : wpc'[v] = wpc[v] /\ hand'[v] = hand[v] /\ at'[v] = at[v]
<1>6. ASSUME NextSink(w) PROVE Goal
  <2>1. /\ UNCHANGED <<wpc, hand, handled>> /\ at'[w] = at[w] + 1
        /\ \A v \in Workers \ {w} : at'[v] = at[v]
    BY <1>6 DEF NextSink, PoolTypes
  <2>2. \A s \in Sinks : Beyond(w, s)' <=> s <= at[w]
    BY <1>1, <1>4, <2>1 DEF Beyond
  <2> QED BY <1>1, <1>2, <2>1, <2>2 DEF Beyond
<1>7. ASSUME NowFlush(w) PROVE Goal
  <2>1. /\ UNCHANGED <<hand, handled>> /\ at'[w] = 1 /\ wpc'[w] = "flush"
        /\ \A v \in Workers \ {w} : at'[v] = at[v] /\ wpc'[v] = wpc[v]
        /\ \A s \in Sinks : s <= at[w]
    BY <1>5, <1>7 DEF NowFlush, PoolTypes
  <2>2. \A s \in Sinks : Beyond(w, s)'
    BY <2>1 DEF Beyond
  <2> QED BY <1>2, <2>1, <2>2 DEF Beyond
<1>8. ASSUME at[w] + 1 \notin Sinks, hand[w].kind # "urgent", WorkerDone(w)
      PROVE  Goal
  <2>1. /\ handled' = handled \cup {hand[w]} /\ wpc'[w] = "dequeue"
        /\ \A v \in Workers \ {w} : wpc'[v] = wpc[v] /\ hand'[v] = hand[v] /\ at'[v] = at[v]
    BY <1>1, <1>8, DoneIs
  <2> QED BY <1>5, <1>8, <2>1 DEF Beyond
<1> QED BY <1>1, <1>2, <1>3, <1>6, <1>7, <1>8

\* A worker flushes the next sink.
LEMMA FlushesIs ==
  ASSUME PoolTypes, HandsFit, NEW w \in Workers, BackendFlush(w)
  PROVE  /\ hand[w] \in Posts /\ at[w] \in Sinks /\ wpc[w] = "flush" /\ sunk' = sunk
         /\ \A s \in Sinks : flushed'[s] = flushed[s] \/ (s = at[w] /\ flushed'[s] = Len(sunk[s]))
         /\ flushed'[at[w]] = Len(sunk[at[w]]) \/ <<hand[w], at[w]>> \in missed'
         /\ missed \subseteq missed'
         /\ handled \subseteq handled' /\ handled' \subseteq handled \cup {hand[w]}
         /\ hand[w] \in handled' /\ hand[w] \notin handled => \A s \in Sinks : s <= at[w]
         /\ \/ hand[w] \in handled' /\ wpc'[w] = "dequeue"
            \/ hand'[w] = hand[w] /\ wpc'[w] = "flush" /\ at'[w] = at[w] + 1
         /\ \A v \in Workers \ {w} : wpc'[v] = wpc[v] /\ hand'[v] = hand[v] /\ at'[v] = at[v]
<1>1. /\ wpc[w] = "flush" /\ FlushesOne(w) /\ sunk' = sunk
      /\ NextSink(w) \/ (at[w] + 1 \notin Sinks /\ WorkerDone(w))
  BY FlushIs
<1>2. hand[w] \in Posts /\ at[w] \in Sinks
  BY <1>1 DEF HandsFit, Fits, PoolTypes
<1>3. /\ \A s \in Sinks : flushed'[s] = flushed[s] \/ (s = at[w] /\ flushed'[s] = Len(sunk[s]))
      /\ flushed'[at[w]] = Len(sunk[at[w]]) \/ <<hand[w], at[w]>> \in missed'
      /\ missed \subseteq missed'
  BY <1>1, <1>2 DEF FlushesOne, PoolTypes
<1>4. at[w] + 1 \notin Sinks => \A s \in Sinks : s <= at[w]
  BY <1>2, LastSink
<1>5. CASE NextSink(w)
  <2>1. /\ UNCHANGED <<wpc, hand, handled>> /\ at'[w] = at[w] + 1
        /\ \A v \in Workers \ {w} : at'[v] = at[v]
    BY <1>5 DEF NextSink, PoolTypes
  <2> QED BY <1>1, <1>2, <1>3, <2>1
<1>6. CASE at[w] + 1 \notin Sinks /\ WorkerDone(w)
  <2>1. /\ handled' = handled \cup {hand[w]} /\ wpc'[w] = "dequeue"
        /\ \A v \in Workers \ {w} : wpc'[v] = wpc[v] /\ hand'[v] = hand[v] /\ at'[v] = at[v]
    BY <1>1, <1>6, DoneIs
  <2> QED BY <1>1, <1>2, <1>3, <1>4, <1>6, <2>1
<1> QED BY <1>1, <1>5, <1>6

\* A sink with one record more.
LEMMA AppendIs ==
  ASSUME NEW S, NEW c \in Seq(S), NEW m \in S
  PROVE  /\ Len(c) \in Nat /\ DOMAIN c = 1 .. Len(c) /\ DOMAIN Append(c, m) = 1 .. Len(c) + 1
         /\ \A i \in 1 .. Len(c) : Append(c, m)[i] = c[i]
         /\ Append(c, m)[Len(c) + 1] = m
         /\ Items(Append(c, m)) = Items(c) \cup {m}
<1> DEFINE d == Append(c, m)
<1>1. /\ Len(c) \in Nat /\ DOMAIN c = 1 .. Len(c) /\ DOMAIN d = 1 .. Len(c) + 1
      /\ \A i \in 1 .. Len(c) : d[i] = c[i]
      /\ d[Len(c) + 1] = m
  OBVIOUS
<1> HIDE DEF d
<1>2. DOMAIN d = DOMAIN c \cup {Len(c) + 1} /\ \A i \in DOMAIN c : d[i] = c[i]
  BY <1>1
<1>3. Items(d) = Items(c) \cup {m}
  <2>1. \A i \in DOMAIN d : d[i] \in Items(c) \cup {m}
    BY <1>1, <1>2 DEF Items
  <2>2. \A i \in DOMAIN c : c[i] \in Items(d)
    BY <1>2 DEF Items
  <2>3. m \in Items(d)
    BY <1>1, <1>2 DEF Items
  <2> QED BY <2>1, <2>2, <2>3 DEF Items
<1> QED BY <1>1, <1>3 DEF d

LEMMA StirsKeep ==
  ASSUME PoolTypes, HandsFit, threads' = threads, SinksInv, Stirs
  PROVE  /\ OnlyRecords' /\ SunkBy' /\ Served' /\ Covered'
         /\ InPostOrder' /\ EverySinkServed' /\ FlushCovers'
<1>0. /\ UNCHANGED <<sunk, flushed, missed, handled, at>>
      /\ \A s \in Sinks : s \in Nat /\ s >= 1
  <2>1. PICK n \in Nat : Sinks = 1 .. n
    BY SetsAre
  <2> QED BY <2>1 DEF Stirs
\* A worker that has not just begun with its message, or one that has.
<1>1. ASSUME NEW w \in Workers, wpc'[w] \in {"log", "flush"}
      PROVE  \/ wpc'[w] = wpc[w] /\ hand'[w] = hand[w]
             \/ /\ at[w] = 1 /\ wpc'[w] = AfterTaking(hand'[w])
                /\ wpc'[w] = "flush" <=> hand'[w].kind = "flush"
  <2>1. CASE wpc[w] \in {"log", "flush"}
    BY <2>1 DEF Stirs
  <2>2. CASE wpc[w] \notin {"log", "flush"}
    <3>1. at[w] = 1 /\ wpc'[w] = AfterTaking(hand'[w])
      BY <1>1, <2>2 DEF Stirs, HandsFit, Fits
    <3> QED BY <1>1, <3>1 DEF AfterTaking
  <2> QED BY <2>1, <2>2
<1>2. OnlyRecords'
  <2> SUFFICES ASSUME NEW w \in Workers, wpc'[w] = "log" PROVE hand'[w].kind # "flush"
    BY DEF OnlyRecords
  <2> QED BY <1>1 DEF SinksInv, OnlyRecords
<1>3. SunkBy'
  <2> SUFFICES ASSUME NEW s \in Sinks, NEW i \in DOMAIN sunk[s], sunk[s][i] \notin handled
               PROVE  \E w \in Workers : hand'[w] = sunk[s][i] /\ Beyond(w, s)'
    BY <1>0 DEF SunkBy, Beyond
  <2>1. PICK w \in Workers : hand[w] = sunk[s][i] /\ Beyond(w, s)
    BY DEF SinksInv, SunkBy
  <2>2. wpc'[w] = wpc[w] /\ hand'[w] = hand[w]
    BY <2>1 DEF Stirs, Beyond
  <2> QED BY <1>0, <2>1, <2>2 DEF Beyond
<1>4. Served'
  <2> SUFFICES ASSUME NEW w \in Workers, NEW s \in Sinks \ Throwing, hand'[w] \in Posts,
                      hand'[w].kind # "flush",
                      (wpc'[w] = "log" /\ s < at[w]) \/ wpc'[w] = "flush"
               PROVE  hand'[w] \in Items(sunk[s])
    BY <1>0 DEF Served, Beyond
  <2>1. CASE wpc'[w] = wpc[w] /\ hand'[w] = hand[w]
    BY <2>1 DEF SinksInv, Served, Beyond
  <2>2. CASE at[w] = 1 /\ (wpc'[w] = "flush" <=> hand'[w].kind = "flush")
    BY <1>0, <2>2
  <2> QED BY <1>1, <2>1, <2>2
<1>5. Covered'
  <2> SUFFICES ASSUME threads = 1, NEW w \in Workers, wpc'[w] = "flush",
                      NEW s \in Sinks, <<hand'[w], s>> \notin missed,
                      NEW i \in DOMAIN sunk[s], s < at[w],
                      Before(sunk[s][i], hand'[w]) \/ sunk[s][i] = hand'[w]
               PROVE  i <= flushed[s]
    BY <1>0 DEF Covered, Before
  <2>1. wpc'[w] = wpc[w] /\ hand'[w] = hand[w]
    BY <1>0, <1>1
  <2> QED BY <2>1 DEF SinksInv, Covered
<1>6. InPostOrder' /\ EverySinkServed' /\ FlushCovers'
  BY <1>0 DEF SinksInv, InPostOrder, EverySinkServed, FlushCovers, Before, Items
<1> QED BY <1>2, <1>3, <1>4, <1>5, <1>6

LEMMA LogsKeep ==
  ASSUME PoolTypes, HandsFit, Apart, threads' = threads, SinksInv, NEW w \in Workers, BackendSinkIt(w)
  PROVE  /\ OnlyRecords' /\ SunkBy' /\ Served' /\ Covered'
         /\ InPostOrder' /\ EverySinkServed' /\ FlushCovers'
<1> DEFINE m == hand[w]
           k == at[w]
<1>1. OnlyRecords /\ SunkBy /\ Served /\ Covered /\ InPostOrder /\ EverySinkServed /\ FlushCovers /\ OneByOne
  BY DEF SinksInv
<1>2. /\ m \in Posts /\ m \in InHand /\ m \notin handled /\ m.kind # "flush" /\ k \in Sinks
      /\ wpc[w] = "log" /\ flushed' = flushed /\ missed' = missed
      /\ handled \subseteq handled' /\ handled' \subseteq handled \cup {m}
      /\ m \in handled' => m.kind # "urgent" /\ \A s \in Sinks : s <= k
  BY <1>1, LogsIs
<1>3. /\ wpc'[w] = "log" => hand'[w] = m
      /\ wpc'[w] = "flush" => at'[w] = 1
      /\ \A v \in Workers \ {w} : wpc'[v] = wpc[v] /\ hand'[v] = hand[v] /\ at'[v] = at[v]
  BY <1>1, LogsIs
<1>4. /\ \A s \in Sinks : sunk'[s] = sunk[s] \/ (s = k /\ sunk'[s] = Append(sunk[s], m))
      /\ k \notin Throwing => sunk'[k] = Append(sunk[k], m)
  BY <1>1, LogsIs
<1>5. /\ \A s \in Sinks : s <= k => m \in handled' \/ (hand'[w] = m /\ Beyond(w, s)')
      /\ \A s \in Sinks : Beyond(w, s)' => hand'[w] = m /\ s <= k
  BY <1>1, LogsIs
<1>6. /\ \A s \in Sinks : s \in Nat /\ s >= 1
      /\ \A s \in Sinks : sunk[s] \in Seq(Posts)
  <2>1. PICK n \in Nat : Sinks = 1 .. n
    BY SetsAre
  <2> QED BY <2>1 DEF PoolTypes
\* What sink s has afterwards.
<1>7. ASSUME NEW s \in Sinks
      PROVE  /\ Items(sunk[s]) \subseteq Items(sunk'[s])
             /\ \A i \in DOMAIN sunk'[s] :
                  \/ i \in DOMAIN sunk[s] /\ sunk'[s][i] = sunk[s][i]
                  \/ s = k /\ sunk'[s][i] = m /\ \A j \in DOMAIN sunk'[s] : j <= i
  <2>1. CASE sunk'[s] = sunk[s]
    BY <2>1
  <2>2. CASE s = k /\ sunk'[s] = Append(sunk[s], m)
    <3>1. /\ Len(sunk[s]) \in Nat /\ DOMAIN sunk[s] = 1 .. Len(sunk[s])
          /\ DOMAIN sunk'[s] = 1 .. Len(sunk[s]) + 1
          /\ \A i \in 1 .. Len(sunk[s]) : sunk'[s][i] = sunk[s][i]
          /\ sunk'[s][Len(sunk[s]) + 1] = m
          /\ Items(sunk'[s]) = Items(sunk[s]) \cup {m}
      BY <1>2, <1>6, <2>2, AppendIs
    <3>2. \A i \in 1 .. Len(sunk[s]) + 1 : i \in 1 .. Len(sunk[s]) \/ i = Len(sunk[s]) + 1
      BY <3>1
    <3> QED BY <2>2, <3>1, <3>2
  <2> QED BY <1>4, <2>1, <2>2
\* The message is new to the sink.
<1>8. \A i \in DOMAIN sunk[k] : sunk[k][i] # m
  <2> SUFFICES ASSUME NEW i \in DOMAIN sunk[k], sunk[k][i] = m PROVE FALSE
    OBVIOUS
  <2>1. PICK v \in Workers : hand[v] = m /\ Beyond(v, k)
    BY <1>1, <1>2 DEF SunkBy
  <2>2. v = w
    BY <1>2, <2>1 DEF Apart
  <2> QED BY <1>2, <1>6, <2>1, <2>2 DEF Beyond
\* With one worker all the others in a sink have been handled.
<1>9. ASSUME threads = 1, NEW s \in Sinks, NEW i \in DOMAIN sunk[s], sunk[s][i] # m
      PROVE  sunk[s][i] \in handled
  <2> SUFFICES ASSUME sunk[s][i] \notin handled PROVE FALSE
    OBVIOUS
  <2>1. PICK v \in Workers : hand[v] = sunk[s][i]
    BY <1>1 DEF SunkBy
  <2>2. sunk[s][i] \in Posts
    BY <1>6
  <2>3. hand[v] # Nothing /\ hand[w] # Nothing
    BY <1>2, <2>1, <2>2, ConstantsAre, StopIsNoPost
  <2>4. v = w
    BY <1>9, <2>3, Alone
  <2> QED BY <1>9, <2>1, <2>4
<1>10. threads = 1 => \A x \in handled : ~Before(m, x)
  <2> SUFFICES ASSUME threads = 1, NEW x \in handled, m.by = x.by PROVE ~(m.n < x.n)
    BY DEF Before
  <2>1. x.n < m.n
    BY <1>1, <1>2 DEF OneByOne
  <2>2. x.n \in Nat /\ m.n \in Nat
    BY <1>2, PostIs DEF PoolTypes
  <2> QED BY <2>1, <2>2
<1> HIDE DEF m, k
<1>11. OnlyRecords'
  <2> SUFFICES ASSUME NEW v \in Workers, wpc'[v] = "log" PROVE hand'[v].kind # "flush"
    BY DEF OnlyRecords
  <2> QED BY <1>1, <1>2, <1>3 DEF OnlyRecords
<1>12. SunkBy'
  <2> SUFFICES ASSUME NEW s \in Sinks, NEW i \in DOMAIN sunk'[s], sunk'[s][i] \notin handled'
               PROVE  \E v \in Workers : hand'[v] = sunk'[s][i] /\ Beyond(v, s)'
    BY DEF SunkBy
  <2>1. CASE s = k /\ sunk'[s][i] = m
    <3>1. s <= k
      BY <1>6, <2>1
    <3>2. hand'[w] = m /\ Beyond(w, s)'
      BY <1>5, <2>1, <3>1
    <3> QED BY <2>1, <3>2
  <2>2. CASE i \in DOMAIN sunk[s] /\ sunk'[s][i] = sunk[s][i]
    <3>1. sunk[s][i] \notin handled
      BY <1>2, <2>2
    <3>2. PICK v \in Workers : hand[v] = sunk[s][i] /\ Beyond(v, s)
      BY <1>1, <2>2, <3>1 DEF SunkBy
    <3>3. CASE v = w
      <4>1. s < k /\ sunk[s][i] = m
        BY <1>2, <3>2, <3>3 DEF Beyond, k, m
      <4>2. s <= k
        BY <1>2, <1>6, <4>1
      <4>3. hand'[w] = m /\ Beyond(w, s)'
        BY <1>5, <2>2, <4>1, <4>2
      <4> QED BY <2>2, <4>1, <4>3
    <3>4. CASE v # w
      <4>1. wpc'[v] = wpc[v] /\ hand'[v] = hand[v] /\ at'[v] = at[v]
        BY <1>3, <3>4
      <4>2. Beyond(v, s)'
        BY <3>2, <4>1 DEF Beyond
      <4> QED BY <2>2, <3>2, <4>1, <4>2
    <3> QED BY <3>3, <3>4
  <2> QED BY <1>7, <2>1, <2>2
<1>13. ASSUME NEW s \in Sinks \ Throwing, s <= k PROVE m \in Items(sunk'[s])
  <2>1. CASE s = k
    <3>1. Items(Append(sunk[k], m)) = Items(sunk[k]) \cup {m}
      BY <1>2, <1>6, AppendIs
    <3> QED BY <1>4, <2>1, <3>1
  <2>2. CASE s # k
    <3>1. s < k
      BY <1>2, <1>6, <1>13, <2>2
    <3>2. m \in Items(sunk[s])
      BY <1>1, <1>2, <3>1 DEF Served, Beyond, m, k
    <3> QED BY <1>7, <3>2
  <2> QED BY <2>1, <2>2
<1>14. Served'
  <2> SUFFICES ASSUME NEW v \in Workers, NEW s \in Sinks \ Throwing, hand'[v] \in Posts,
                      hand'[v].kind # "flush", Beyond(v, s)'
               PROVE  hand'[v] \in Items(sunk'[s])
    BY DEF Served
  <2>1. CASE v = w
    BY <1>5, <1>13, <2>1
  <2>2. CASE v # w
    <3>1. wpc'[v] = wpc[v] /\ hand'[v] = hand[v] /\ at'[v] = at[v]
      BY <1>3, <2>2
    <3>2. Beyond(v, s)
      BY <3>1 DEF Beyond
    <3>3. hand[v] \in Items(sunk[s])
      BY <1>1, <3>1, <3>2 DEF Served
    <3> QED BY <1>7, <3>1, <3>3
  <2> QED BY <2>1, <2>2
<1>15. EverySinkServed'
  <2> SUFFICES ASSUME NEW x \in handled', x.kind # "flush", NEW s \in Sinks \ Throwing
               PROVE  x \in Items(sunk'[s])
    BY DEF EverySinkServed
  <2>1. CASE x \in handled
    BY <1>1, <1>7, <2>1 DEF EverySinkServed
  <2>2. CASE x = m
    BY <1>2, <1>13, <2>2
  <2> QED BY <1>2, <2>1, <2>2
<1>16. InPostOrder'
  <2> SUFFICES ASSUME NEW s \in Sinks, NEW i \in DOMAIN sunk'[s], NEW j \in DOMAIN sunk'[s], i < j
               PROVE  /\ sunk'[s][i] # sunk'[s][j]
                      /\ threads = 1 => ~Before(sunk'[s][j], sunk'[s][i])
    BY DEF InPostOrder, Before
  <2>1. i \in Nat /\ j \in Nat
    <3>1. \A c \in Seq(Posts) : \A l \in DOMAIN c : l \in Nat
      OBVIOUS
    <3>2. sunk[s] \in Seq(Posts) /\ Append(sunk[s], m) \in Seq(Posts)
      BY <1>2, <1>6
    <3>3. sunk'[s] \in Seq(Posts)
      BY <1>4, <3>2
    <3> QED BY <3>1, <3>3
  <2>2. i \in DOMAIN sunk[s] /\ sunk'[s][i] = sunk[s][i]
    BY <1>7, <2>1
  <2>3. CASE j \in DOMAIN sunk[s] /\ sunk'[s][j] = sunk[s][j]
    BY <1>1, <2>2, <2>3 DEF InPostOrder
  <2>4. CASE s = k /\ sunk'[s][j] = m
    <3>1. sunk[s][i] # m
      BY <1>8, <2>2, <2>4
    <3>2. threads = 1 => sunk[s][i] \in handled
      BY <1>9, <2>2, <3>1
    <3> QED BY <1>10, <2>2, <2>4, <3>1, <3>2
  <2> QED BY <1>7, <2>3, <2>4
<1>17. FlushCovers'
  <2> SUFFICES ASSUME threads = 1, NEW x \in handled', x.kind \in {"flush", "urgent"},
                      NEW s \in Sinks, <<x, s>> \notin missed, NEW i \in DOMAIN sunk'[s],
                      Before(sunk'[s][i], x) \/ sunk'[s][i] = x
               PROVE  i <= flushed[s]
    BY <1>2 DEF FlushCovers, Before
  <2>1. x \in handled
    BY <1>2
  <2>2. sunk'[s][i] # m
    BY <1>2, <1>10, <2>1
  <2> QED BY <1>1, <1>7, <2>1, <2>2 DEF FlushCovers
<1>18. Covered'
  <2> SUFFICES ASSUME threads = 1, NEW v \in Workers, wpc'[v] = "flush",
                      NEW s \in Sinks, s < at'[v]
               PROVE  FALSE
    BY DEF Covered
  <2>1. CASE v = w
    BY <1>3, <1>6, <2>1
  <2>2. CASE v # w
    <3>1. wpc[v] = "flush"
      BY <1>3, <2>2
    <3>2. hand[v] # Nothing /\ hand[w] # Nothing
      BY <1>2, <3>1, ConstantsAre, StopIsNoPost DEF HandsFit, Fits, m
    <3> QED BY <2>2, <3>2, Alone
  <2> QED BY <2>1, <2>2
<1> QED BY <1>11, <1>12, <1>14, <1>15, <1>16, <1>17, <1>18

LEMMA FlushesKeep ==
  ASSUME PoolTypes, HandsFit, Apart, threads' = threads, SinksInv, NEW w \in Workers, BackendFlush(w)
  PROVE  /\ OnlyRecords' /\ SunkBy' /\ Served' /\ Covered'
         /\ InPostOrder' /\ EverySinkServed' /\ FlushCovers'
<1> DEFINE m == hand[w]
           k == at[w]
<1>1. OnlyRecords /\ SunkBy /\ Served /\ Covered /\ InPostOrder /\ EverySinkServed /\ FlushCovers
  BY DEF SinksInv
<1>2. /\ m \in Posts /\ k \in Sinks /\ wpc[w] = "flush" /\ sunk' = sunk
      /\ \A s \in Sinks : flushed'[s] = flushed[s] \/ (s = k /\ flushed'[s] = Len(sunk[s]))
      /\ flushed'[k] = Len(sunk[k]) \/ <<m, k>> \in missed'
      /\ missed \subseteq missed'
      /\ handled \subseteq handled' /\ handled' \subseteq handled \cup {m}
      /\ m \in handled' /\ m \notin handled => \A s \in Sinks : s <= k
      /\ \/ m \in handled' /\ wpc'[w] = "dequeue"
         \/ hand'[w] = m /\ wpc'[w] = "flush" /\ at'[w] = k + 1
      /\ \A v \in Workers \ {w} : wpc'[v] = wpc[v] /\ hand'[v] = hand[v] /\ at'[v] = at[v]
  BY FlushesIs
<1>3. /\ \A s \in Sinks : s \in Nat /\ s >= 1
      /\ \A s \in Sinks : \A i \in DOMAIN sunk[s] : i <= Len(sunk[s])
  <2>1. PICK n \in Nat : Sinks = 1 .. n
    BY SetsAre
  <2>2. \A s \in Sinks : sunk[s] \in Seq(Posts)
    BY DEF PoolTypes
  <2> QED BY <2>1, <2>2
<1>4. \A s \in Sinks : Beyond(w, s)
  BY <1>2 DEF Beyond
<1>5. threads = 1 => \A v \in Workers : wpc[v] = "flush" => v = w
  BY <1>2, ConstantsAre, StopIsNoPost, Alone DEF HandsFit, Fits
\* What was brought to the sinks up to the worker's, up to its message, is flushed.
<1>6. ASSUME threads = 1, NEW s \in Sinks, <<m, s>> \notin missed',
             NEW i \in DOMAIN sunk[s], s <= k,
             Before(sunk[s][i], m) \/ sunk[s][i] = m
      PROVE  i <= flushed'[s]
  <2>1. CASE s = k
    BY <1>2, <1>3, <1>6, <2>1
  <2>2. CASE s # k
    <3>1. s < k
      BY <1>2, <1>3, <1>6, <2>2
    <3>2. i <= flushed[s]
      BY <1>1, <1>2, <1>6, <3>1 DEF Covered
    <3> QED BY <1>2, <2>2, <3>2
  <2> QED BY <2>1, <2>2
<1> HIDE DEF m, k
<1>7. OnlyRecords'
  BY <1>1, <1>2 DEF OnlyRecords
<1>8. SunkBy'
  <2> SUFFICES ASSUME NEW s \in Sinks, NEW i \in DOMAIN sunk[s], sunk[s][i] \notin handled'
               PROVE  \E v \in Workers : hand'[v] = sunk[s][i] /\ Beyond(v, s)'
    BY <1>2 DEF SunkBy, Beyond
  <2>1. PICK v \in Workers : hand[v] = sunk[s][i] /\ Beyond(v, s)
    BY <1>1, <1>2 DEF SunkBy
  <2>2. CASE v = w
    <3>1. hand'[w] = sunk[s][i] /\ wpc'[w] = "flush"
      BY <1>2, <2>1, <2>2 DEF m
    <3> QED BY <3>1 DEF Beyond
  <2>3. CASE v # w
    <3>1. hand'[v] = sunk[s][i] /\ Beyond(v, s)'
      BY <1>2, <2>1, <2>3 DEF Beyond
    <3> QED BY <3>1
  <2> QED BY <2>2, <2>3
<1>9. Served'
  <2> SUFFICES ASSUME NEW v \in Workers, NEW s \in Sinks \ Throwing, hand'[v] \in Posts,
                      hand'[v].kind # "flush",
                      (wpc'[v] = "log" /\ s < at'[v]) \/ wpc'[v] = "flush"
               PROVE  hand'[v] \in Items(sunk[s])
    BY <1>2 DEF Served, Beyond
  <2>1. hand'[v] = hand[v] /\ Beyond(v, s)
    BY <1>2, <1>4 DEF Beyond, m
  <2> QED BY <1>1, <2>1 DEF Served
<1>10. EverySinkServed'
  <2> SUFFICES ASSUME NEW x \in handled', x.kind # "flush", NEW s \in Sinks \ Throwing
               PROVE  x \in Items(sunk[s])
    BY <1>2 DEF EverySinkServed
  <2>1. CASE x \in handled
    BY <1>1, <2>1 DEF EverySinkServed
  <2>2. CASE x = m
    BY <1>1, <1>2, <1>4, <2>2 DEF Served, m
  <2> QED BY <1>2, <2>1, <2>2
<1>11. InPostOrder'
  BY <1>1, <1>2 DEF InPostOrder, Before
<1>12. FlushCovers'
  <2> SUFFICES ASSUME threads = 1, NEW x \in handled', x.kind \in {"flush", "urgent"},
                      NEW s \in Sinks, <<x, s>> \notin missed', NEW i \in DOMAIN sunk[s],
                      Before(sunk[s][i], x) \/ sunk[s][i] = x
               PROVE  i <= flushed'[s]
    BY <1>2 DEF FlushCovers, Before
  <2>1. CASE x \in handled
    <3>1. i <= flushed[s]
      BY <1>1, <1>2, <2>1 DEF FlushCovers
    <3> QED BY <1>2, <1>3, <3>1
  <2>2. CASE x = m /\ x \notin handled
    BY <1>2, <1>6, <2>2
  <2> QED BY <1>2, <2>1, <2>2
<1>13. Covered'
  <2> SUFFICES ASSUME threads = 1, NEW v \in Workers, wpc'[v] = "flush",
                      NEW s \in Sinks, <<hand'[v], s>> \notin missed',
                      NEW i \in DOMAIN sunk[s], s < at'[v],
                      Before(sunk[s][i], hand'[v]) \/ sunk[s][i] = hand'[v]
               PROVE  i <= flushed'[s]
    BY <1>2 DEF Covered, Before
  <2>1. v = w
    BY <1>2, <1>5
  <2>2. hand'[w] = m /\ at'[w] = k + 1
    BY <1>2, <2>1
  <2>3. s <= k
    BY <1>2, <1>3, <2>1, <2>2
  <2> QED BY <1>6, <2>1, <2>2, <2>3
<1> QED BY <1>7, <1>8, <1>9, <1>10, <1>11, <1>12, <1>13

LEMMA SinksNext ==
  ASSUME PoolInv, PoolTypes, HandsFit, OwnCall, NotYet, Apart, SinksInv, [Next]_vars
  PROVE  SinksInv'
<1>1. threads' = threads
  BY SetupKept
<1>2. OneByOne'
  BY OneByOneNext DEF SinksInv
<1>3. /\ OnlyRecords' /\ SunkBy' /\ Served' /\ Covered'
      /\ InPostOrder' /\ EverySinkServed' /\ FlushCovers'
  BY <1>1, SinkSteps, StirsKeep, LogsKeep, FlushesKeep
<1> QED BY <1>2, <1>3 DEF SinksInv

\* What the asynchronous loggers accept is delivered: each message is in the
\* queue, with one worker, handled, or counted as overrun, and each refused one
\* counted; no sink is given one twice, nor with one worker out of order; and a
\* handled one is in every sink that does not throw, flushed when that was asked
\* for wherever the flush did not throw (thread_pool-inl.h:57-122, mpmc_blocking_q.h, async_logger-inl.h:62-80).
THEOREM PoolDelivers == Spec => []Delivered
<1>1. Init => DeliveryInv /\ SinksInv
  BY DeliveryInit, SinksInit
<1>2. (DeliveryInv /\ SinksInv) /\ [Next]_vars => (DeliveryInv /\ SinksInv)'
  BY DeliveryNext, SinksNext DEF DeliveryInv
<1>3. DeliveryInv /\ SinksInv => Delivered
  BY AccountingHolds DEF DeliveryInv, SinksInv, Delivered
<1> QED BY <1>1, <1>2, <1>3, PTL DEF Spec

=============================================================================
