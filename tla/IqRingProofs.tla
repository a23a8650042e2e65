---------------------------- MODULE IqRingProofs ----------------------------
(***************************************************************************)
(* Proofs that the IQ ring is safe for every depth, every cursor width     *)
(* that is a multiple of it, and however late a store becomes visible.     *)
(***************************************************************************)
EXTENDS IqRing, SequenceTheorems, TLAPS

-----------------------------------------------------------------------------
(* Remainders: what unsigned cursors and power-of-two masks rest on. *)

(* Division with remainder. *)
LEMMA DivMod ==
  ASSUME NEW a \in Int, NEW m \in Nat \ {0}
  PROVE  /\ a = (m * (a \div m)) + (a % m)
         /\ (a % m) \in 0 .. (m - 1)
         /\ (a \div m) \in Int
OBVIOUS

(* A remainder is unique. *)
LEMMA ModUnique ==
  ASSUME NEW m \in Nat \ {0}, NEW q \in Int, NEW r \in 0 .. (m - 1)
  PROVE  ((m * q) + r) % m = r
OBVIOUS

(* Products distribute over differences. *)
LEMMA MulSub ==
  ASSUME NEW m \in Int, NEW x \in Int, NEW y \in Int
  PROVE  m * (x - y) = (m * x) - (m * y) /\ (m * x) \in Int /\ (m * y) \in Int
OBVIOUS

(* Products associate. *)
LEMMA MulAssoc ==
  ASSUME NEW m \in Int, NEW x \in Int, NEW y \in Int
  PROVE  (m * x) * y = m * (x * y) /\ (x * y) \in Int /\ (m * (x * y)) \in Int
OBVIOUS

(* The difference of two decompositions. *)
LEMMA DiffOfSums ==
  ASSUME NEW a \in Int, NEW b \in Int, NEW c \in Int, NEW d \in Int,
         NEW r \in Int, NEW s \in Int, NEW e \in Int,
         a = c + r, b = d + s, e = d - c
  PROVE  r - s = e + (a - b)
OBVIOUS

(* Wrapped cursors subtract to the distance between the unwrapped ones. *)
LEMMA ModDiff ==
  ASSUME NEW a \in Int, NEW b \in Int, NEW m \in Nat \ {0}, b <= a, a - b < m
  PROVE  ((a % m) - (b % m)) % m = a - b
<1> DEFINE p == a \div m
           q == b \div m
<1>1. /\ a = (m * p) + (a % m) /\ b = (m * q) + (b % m)
      /\ p \in Int /\ q \in Int /\ (a % m) \in Int /\ (b % m) \in Int
  BY DivMod
<1>2. m * (q - p) = (m * q) - (m * p) /\ (m * q) \in Int /\ (m * p) \in Int
  BY <1>1, MulSub
<1> HIDE DEF p, q
<1>3. (a % m) - (b % m) = (m * (q - p)) + (a - b)
  BY ONLY <1>1, <1>2, DiffOfSums, a \in Int, b \in Int
<1>4. (a - b) \in 0 .. (m - 1) /\ (q - p) \in Int
  BY <1>1
<1> QED
  BY <1>3, <1>4, ModUnique

(* Numbers less than m apart have different remainders. *)
LEMMA ModDistinct ==
  ASSUME NEW a \in Int, NEW b \in Int, NEW m \in Nat \ {0}, a < b, b - a < m
  PROVE  (a % m) # (b % m)
<1> SUFFICES ASSUME (a % m) = (b % m) PROVE FALSE
  OBVIOUS
<1>1. ((b % m) - (a % m)) % m = b - a
  BY ModDiff
<1>2. (b % m) \in Int /\ ((b % m) - (a % m)) = 0
  BY DivMod
<1>3. (0 % m) = 0
  OBVIOUS
<1> QED
  BY <1>1, <1>2, <1>3

(* The successor of a wrapped cursor is the wrapped successor. *)
LEMMA ModSucc ==
  ASSUME NEW a \in Int, NEW m \in Nat \ {0}
  PROVE  ((a % m) + 1) % m = (a + 1) % m
<1> DEFINE q == a \div m
           p == (a + 1) \div m
           r == (a + 1) % m
<1>1. a = (m * q) + (a % m) /\ q \in Int /\ (a % m) \in Int
  BY DivMod
<1>2. a + 1 = (m * p) + r /\ p \in Int /\ r \in 0 .. (m - 1)
  BY DivMod
<1>3. m * (p - q) = (m * p) - (m * q) /\ (m * p) \in Int /\ (m * q) \in Int
  BY <1>1, <1>2, MulSub
<1> HIDE DEF p, q, r
<1>4. (a % m) + 1 = (m * (p - q)) + r
  BY <1>1, <1>2, <1>3
<1>5. (p - q) \in Int
  BY <1>1, <1>2
<1>6. ((m * (p - q)) + r) % m = r
  BY <1>2, <1>5, ModUnique
<1> QED
  BY <1>4, <1>6 DEF r

(* Taking a remainder by a divisor of w forgets an earlier remainder by w. *)
LEMMA ModMod ==
  ASSUME NEW a \in Int, NEW w \in Nat \ {0}, NEW d \in Nat \ {0}, (w % d) = 0
  PROVE  (a % w) % d = a % d
<1> DEFINE k == w \div d
           q == a \div w
           p == a \div d
           r == a % d
<1>1. w = d * k /\ k \in Int
  BY DivMod
<1>2. a = (w * q) + (a % w) /\ q \in Int /\ (a % w) \in Int
  BY DivMod
<1>3. a = (d * p) + r /\ p \in Int /\ r \in 0 .. (d - 1)
  BY DivMod
<1> HIDE DEF k, q, p, r
<1>4. w * q = d * (k * q) /\ (k * q) \in Int /\ (d * (k * q)) \in Int
  BY <1>1, <1>2, MulAssoc
<1>5. d * (p - (k * q)) = (d * p) - (d * (k * q)) /\ (d * p) \in Int
  BY <1>3, <1>4, MulSub
<1>6. \A x, y, z, u, v \in Int : (u = x + y /\ u = z + v) => y = (z - x) + v
  OBVIOUS
<1>7. (a % w) = ((d * p) - (d * (k * q))) + r
  BY <1>2, <1>3, <1>4, <1>5, <1>6
<1>8. (p - (k * q)) \in Int
  BY <1>3, <1>4
<1>9. ((d * (p - (k * q))) + r) % d = r
  BY <1>3, <1>8, ModUnique
<1> QED
  BY <1>5, <1>7, <1>9 DEF r

-----------------------------------------------------------------------------
P == Len(accepted)   \* batches ever published
C == Len(out)        \* batches ever released

(* The cursors are the histories' lengths, wrapped. *)
CursorInv == head = P % W /\ tail = C % W

(* What each side knows of the other lags behind the truth, but the         *)
(* producer never runs more than Depth ahead of what it has seen released,  *)
(* and a consumer that holds a slot has seen it published.                  *)
WindowInv ==
  /\ seenTail <= C /\ C <= seenHead /\ seenHead <= P
  /\ P - seenTail <= Depth
  /\ ppc # "idle" => P - seenTail < Depth
  /\ cpc # "idle" => C < seenHead

(* Every published batch that is not released lies whole in its slot, and   *)
(* the slot at head holds what the push has copied so far.                  *)
SlotInv ==
  /\ \A k \in 1 .. P : k > C => slots[(k - 1) % Depth] = Word(accepted[k])
  /\ ppc \in {"meta", "publish"} => slots[P % Depth].samples = offered
  /\ ppc = "publish" => slots[P % Depth].meta = offered

(* What the consumer has copied out of the slot it holds. *)
GotInv ==
  /\ cpc \in {"meta", "consume"} => got.samples = accepted[C + 1]
  /\ cpc = "consume" => got.meta = accepted[C + 1]

IInv == TypeOK /\ CursorInv /\ WindowInv /\ SlotInv /\ GotInv /\ DeliveredInOrder
        /\ count <= Depth

-----------------------------------------------------------------------------
(* The sizes are positive and the ring fits the cursors. *)
LEMMA Sizes == W \in Nat \ {0} /\ Depth \in Nat \ {0} /\ Depth < W /\ (W % Depth) = 0
BY RingAssumption

(* The slot a cursor designates is that of the unwrapped cursor. *)
LEMMA SlotOfCursor ==
  ASSUME NEW a \in Nat
  PROVE  SlotOf(a % W) = (a % Depth) /\ (a % Depth) \in Index /\ (a % W) \in 0 .. (W - 1)
<1>1. a \in Int
  OBVIOUS
<1>2. (a % W) % Depth = a % Depth
  BY <1>1, Sizes, ModMod
<1>3. (a % Depth) \in 0 .. (Depth - 1)
  BY <1>1, Sizes, DivMod
<1>4. (a % W) \in 0 .. (W - 1)
  BY <1>1, Sizes, DivMod
<1> QED
  BY <1>2, <1>3, <1>4 DEF SlotOf, Index

(* The code's unsigned subtraction of cursors counts batches. *)
LEMMA CursorDistance ==
  ASSUME NEW a \in Nat, NEW b \in Nat, b <= a, a - b <= Depth
  PROVE  Minus(a % W, b % W) = a - b
<1>1. a \in Int /\ b \in Int /\ a - b < W
  BY Sizes
<1>2. ((a % W) - (b % W)) % W = a - b
  BY <1>1, Sizes, ModDiff
<1> QED
  BY <1>2 DEF Minus

(* Two cursors at most Depth apart wrap to the same value only if equal. *)
LEMMA CursorsDiffer ==
  ASSUME NEW a \in Nat, NEW b \in Nat, b < a, a - b <= Depth
  PROVE  (a % W) # (b % W)
<1>1. a \in Int /\ b \in Int /\ a - b < W
  BY Sizes
<1> QED
  BY <1>1, Sizes, ModDistinct

(* The zeroed ring of xrcomm_iq_shm_create satisfies the invariant. *)
LEMMA InitIInv == Init => IInv
<1> SUFFICES ASSUME Init PROVE IInv
  OBVIOUS
<1> USE RingAssumption
<1>1. P = 0 /\ C = 0 /\ (0 % W) = 0
  BY DEF Init, P, C
<1>2. TypeOK
  BY DEF Init, TypeOK, Word, Index
<1> QED
  BY <1>1, <1>2 DEF Init, IInv, CursorInv, WindowInv, SlotInv, GotInv, DeliveredInOrder, P, C

-----------------------------------------------------------------------------
(* One lemma per action: each preserves the inductive invariant. *)

(* Loading the cursors with room left opens a push. *)
LEMMA PushBeginIInv == IInv /\ PushBegin => IInv'
<1> SUFFICES ASSUME IInv, PushBegin PROVE IInv'
  OBVIOUS
<1>1. P \in Nat /\ C \in Nat
  BY DEF IInv, TypeOK, P, C
<1>2. PICK n \in TailLoads : Minus(head, n % W) < Depth /\ seenTail' = n
  BY DEF PushBegin
<1>3. n \in Nat /\ seenTail <= n /\ n <= C
  BY <1>1, <1>2 DEF TailLoads, IInv, TypeOK, C
<1>4. P - n < Depth
  <2>1. n <= P /\ P - n <= Depth
    BY <1>1, <1>3, Sizes DEF IInv, TypeOK, WindowInv
  <2>2. Minus(P % W, n % W) = P - n
    BY <1>1, <1>3, <2>1, CursorDistance
  <2> QED
    BY <1>2, <2>2 DEF IInv, CursorInv
<1>5. TypeOK'
  BY <1>2, <1>3 DEF PushBegin, IInv, TypeOK, ringVars, consumerVars
<1>6. CursorInv' /\ DeliveredInOrder' /\ count' <= Depth
  BY DEF PushBegin, IInv, CursorInv, DeliveredInOrder, ringVars, consumerVars, P, C
<1>7. WindowInv'
  BY <1>1, <1>2, <1>3, <1>4, Sizes DEF PushBegin, IInv, TypeOK, WindowInv, ringVars, consumerVars, P, C
<1>8. SlotInv' /\ GotInv'
  BY DEF PushBegin, IInv, SlotInv, GotInv, ringVars, consumerVars, P, C
<1> QED
  BY <1>5, <1>6, <1>7, <1>8 DEF IInv

(* A full ring drops the batch and touches nothing else. *)
LEMMA PushFullIInv == IInv /\ PushFull => IInv'
<1> SUFFICES ASSUME IInv, PushFull PROVE IInv'
  OBVIOUS
<1>1. P \in Nat /\ C \in Nat
  BY DEF IInv, TypeOK, P, C
<1>2. PICK n \in TailLoads : seenTail' = n
  BY DEF PushFull
<1>3. n \in Nat /\ seenTail <= n /\ n <= C
  BY <1>1, <1>2 DEF TailLoads, IInv, TypeOK, C
<1>4. TypeOK'
  BY <1>2, <1>3 DEF PushFull, IInv, TypeOK, ringVars, consumerVars
<1>5. CursorInv' /\ DeliveredInOrder' /\ count' <= Depth
  BY DEF PushFull, IInv, CursorInv, DeliveredInOrder, ringVars, consumerVars, P, C
<1>6. WindowInv'
  BY <1>1, <1>2, <1>3, Sizes DEF PushFull, IInv, TypeOK, WindowInv, ringVars, consumerVars, P, C
<1>7. SlotInv' /\ GotInv'
  BY DEF PushFull, IInv, SlotInv, GotInv, ringVars, consumerVars, P, C
<1> QED
  BY <1>4, <1>5, <1>6, <1>7 DEF IInv

(* During a push, the slot at head is none of those that hold batches. *)
LEMMA FreeSlot ==
  ASSUME IInv, ppc # "idle"
  PROVE  /\ P \in Nat /\ C \in Nat /\ SlotOf(head) = P % Depth /\ (P % Depth) \in Index
         /\ \A k \in 1 .. P : k > C => ((k - 1) % Depth) # (P % Depth)
<1>1. P \in Nat /\ C \in Nat
  BY DEF IInv, TypeOK, P, C
<1>2. SlotOf(head) = P % Depth /\ (P % Depth) \in Index
  BY <1>1, SlotOfCursor DEF IInv, CursorInv
<1>3. ASSUME NEW k \in 1 .. P, k > C
      PROVE  ((k - 1) % Depth) # (P % Depth)
  <2>1. k - 1 \in Int /\ P \in Int /\ k - 1 < P /\ P - (k - 1) < Depth
    BY <1>1, <1>3, Sizes DEF IInv, TypeOK, WindowInv
  <2> QED
    BY <2>1, Sizes, ModDistinct
<1> QED
  BY <1>1, <1>2, <1>3

(* Copying the samples touches the free slot only. *)
LEMMA PushSamplesIInv == IInv /\ PushSamples => IInv'
<1> SUFFICES ASSUME IInv, PushSamples PROVE IInv'
  OBVIOUS
<1>1. /\ P \in Nat /\ C \in Nat /\ SlotOf(head) = P % Depth /\ (P % Depth) \in Index
      /\ \A k \in 1 .. P : k > C => ((k - 1) % Depth) # (P % Depth)
  BY FreeSlot DEF PushSamples
<1>2. slots' = [slots EXCEPT ![P % Depth].samples = offered]
  BY <1>1 DEF PushSamples
<1>3. TypeOK'
  BY <1>1, <1>2 DEF PushSamples, IInv, TypeOK, consumerVars
<1>4. CursorInv' /\ WindowInv' /\ GotInv' /\ DeliveredInOrder' /\ count' <= Depth
  BY DEF PushSamples, IInv, CursorInv, WindowInv, GotInv, DeliveredInOrder, consumerVars, P, C
<1>5. SlotInv'
  <2>1. ASSUME NEW k \in 1 .. P, k > C
        PROVE  slots'[(k - 1) % Depth] = Word(accepted[k])
    <3>1. slots[(k - 1) % Depth] = Word(accepted[k]) /\ ((k - 1) % Depth) # (P % Depth)
      BY <1>1, <2>1 DEF IInv, SlotInv
    <3>2. ((k - 1) % Depth) \in Index
      BY <2>1, <1>1, SlotOfCursor
    <3> QED
      BY <1>1, <1>2, <3>1, <3>2 DEF IInv, TypeOK
  <2>2. slots'[P % Depth].samples = offered
    BY <1>1, <1>2 DEF IInv, TypeOK
  <2> QED
    BY <2>1, <2>2 DEF PushSamples, SlotInv, consumerVars, P, C
<1> QED
  BY <1>3, <1>4, <1>5 DEF IInv

(* Writing the metadata completes the free slot. *)
LEMMA PushMetaIInv == IInv /\ PushMeta => IInv'
<1> SUFFICES ASSUME IInv, PushMeta PROVE IInv'
  OBVIOUS
<1>1. /\ P \in Nat /\ C \in Nat /\ SlotOf(head) = P % Depth /\ (P % Depth) \in Index
      /\ \A k \in 1 .. P : k > C => ((k - 1) % Depth) # (P % Depth)
  BY FreeSlot DEF PushMeta
<1>2. slots' = [slots EXCEPT ![P % Depth].meta = offered]
  BY <1>1 DEF PushMeta
<1>3. TypeOK'
  BY <1>1, <1>2 DEF PushMeta, IInv, TypeOK, consumerVars
<1>4. CursorInv' /\ WindowInv' /\ GotInv' /\ DeliveredInOrder' /\ count' <= Depth
  BY DEF PushMeta, IInv, CursorInv, WindowInv, GotInv, DeliveredInOrder, consumerVars, P, C
<1>5. SlotInv'
  <2>1. ASSUME NEW k \in 1 .. P, k > C
        PROVE  slots'[(k - 1) % Depth] = Word(accepted[k])
    <3>1. slots[(k - 1) % Depth] = Word(accepted[k]) /\ ((k - 1) % Depth) # (P % Depth)
      BY <1>1, <2>1 DEF IInv, SlotInv
    <3>2. ((k - 1) % Depth) \in Index
      BY <2>1, <1>1, SlotOfCursor
    <3> QED
      BY <1>1, <1>2, <3>1, <3>2 DEF IInv, TypeOK
  <2>2. slots'[P % Depth].meta = offered /\ slots'[P % Depth].samples = offered
    BY <1>1, <1>2 DEF PushMeta, IInv, TypeOK, SlotInv
  <2> QED
    BY <2>1, <2>2 DEF PushMeta, SlotInv, consumerVars, P, C
<1> QED
  BY <1>3, <1>4, <1>5 DEF IInv

(* Publishing appends the batch the free slot holds. *)
LEMMA PushPublishIInv == IInv /\ PushPublish => IInv'
<1> SUFFICES ASSUME IInv, PushPublish PROVE IInv'
  OBVIOUS
<1>1. P \in Nat /\ C \in Nat /\ (P % Depth) \in Index
  BY FreeSlot DEF PushPublish
<1>2. accepted \in Seq(Nat) /\ offered \in Nat
  BY DEF IInv, TypeOK
<1>3. accepted' = Append(accepted, offered) /\ P' = P + 1 /\ C' = C /\ slots' = slots
  BY <1>2 DEF PushPublish, consumerVars, P, C
<1>4. \A k \in 1 .. P : accepted'[k] = accepted[k]
  BY <1>2, <1>3 DEF P
<1>5. accepted'[P + 1] = offered
  BY <1>2, <1>3 DEF P
<1>6. head' = (P + 1) % W /\ head' \in 0 .. (W - 1)
  <2>1. head' = ((P % W) + 1) % W
    BY DEF PushPublish, IInv, CursorInv
  <2>2. P \in Int /\ P + 1 \in Nat
    BY <1>1
  <2> QED
    BY <2>1, <2>2, Sizes, ModSucc, SlotOfCursor
<1>7. TypeOK'
  BY <1>2, <1>3, <1>6 DEF PushPublish, IInv, TypeOK, consumerVars
<1>8. CursorInv' /\ count' <= Depth
  BY <1>3, <1>6 DEF PushPublish, IInv, CursorInv, consumerVars
<1>9. WindowInv'
  BY <1>1, <1>3, Sizes DEF PushPublish, IInv, TypeOK, WindowInv, consumerVars
<1>10. SlotInv'
  <2>1. slots[P % Depth] = Word(offered)
    BY <1>1 DEF PushPublish, IInv, TypeOK, SlotInv, Word
  <2>2. ASSUME NEW k \in 1 .. (P + 1), k > C
        PROVE  slots[(k - 1) % Depth] = Word(accepted'[k])
    <3>1. CASE k = P + 1
      <4>1. k - 1 = P
        BY <1>1, <3>1
      <4> QED
        BY <1>5, <2>1, <3>1, <4>1, Zenon
    <3>2. CASE k \in 1 .. P
      <4>1. slots[(k - 1) % Depth] = Word(accepted[k])
        BY <2>2, <3>2 DEF IInv, SlotInv
      <4> QED
        BY <1>4, <3>2, <4>1, Zenon
    <3> QED
      BY <1>1, <3>1, <3>2
  <2> QED
    BY <1>3, <2>2 DEF PushPublish, SlotInv
<1>11. GotInv'
  <2>1. cpc # "idle" => C + 1 \in 1 .. P
    BY <1>1 DEF IInv, TypeOK, WindowInv
  <2> QED
    BY <1>3, <1>4, <2>1 DEF PushPublish, IInv, GotInv, consumerVars
<1>12. DeliveredInOrder'
  BY <1>1, <1>3, <1>4 DEF PushPublish, IInv, DeliveredInOrder, consumerVars, P, C
<1> QED
  BY <1>7, <1>8, <1>9, <1>10, <1>11, <1>12 DEF IInv

(* A head that differs from tail covers a batch that is not released. *)
LEMMA PeekFoundIInv == IInv /\ PeekFound => IInv'
<1> SUFFICES ASSUME IInv, PeekFound PROVE IInv'
  OBVIOUS
<1>1. P \in Nat /\ C \in Nat
  BY DEF IInv, TypeOK, P, C
<1>2. PICK n \in HeadLoads : n % W # tail /\ seenHead' = n
  BY DEF PeekFound
<1>3. n \in Nat /\ seenHead <= n /\ n <= P
  BY <1>1, <1>2 DEF HeadLoads, IInv, TypeOK, P
<1>4. C < n
  BY <1>1, <1>2, <1>3 DEF IInv, TypeOK, CursorInv, WindowInv
<1>5. TypeOK'
  BY <1>2, <1>3 DEF PeekFound, IInv, TypeOK, ringVars, producerVars
<1>6. CursorInv' /\ DeliveredInOrder' /\ count' <= Depth
  BY DEF PeekFound, IInv, CursorInv, DeliveredInOrder, ringVars, producerVars, P, C
<1>7. WindowInv'
  BY <1>1, <1>2, <1>3, <1>4 DEF PeekFound, IInv, TypeOK, WindowInv, ringVars, producerVars, P, C
<1>8. SlotInv' /\ GotInv'
  BY DEF PeekFound, IInv, SlotInv, GotInv, ringVars, producerVars, P, C
<1> QED
  BY <1>5, <1>6, <1>7, <1>8 DEF IInv

(* An empty poll only learns a newer head. *)
LEMMA PeekEmptyIInv == IInv /\ PeekEmpty => IInv'
<1> SUFFICES ASSUME IInv, PeekEmpty PROVE IInv'
  OBVIOUS
<1>1. P \in Nat /\ C \in Nat
  BY DEF IInv, TypeOK, P, C
<1>2. PICK n \in HeadLoads : seenHead' = n
  BY DEF PeekEmpty
<1>3. n \in Nat /\ seenHead <= n /\ n <= P
  BY <1>1, <1>2 DEF HeadLoads, IInv, TypeOK, P
<1>4. TypeOK'
  BY <1>2, <1>3 DEF PeekEmpty, IInv, TypeOK, ringVars, producerVars
<1>5. CursorInv' /\ DeliveredInOrder' /\ count' <= Depth
  BY DEF PeekEmpty, IInv, CursorInv, DeliveredInOrder, ringVars, producerVars, P, C
<1>6. WindowInv'
  BY <1>1, <1>2, <1>3 DEF PeekEmpty, IInv, TypeOK, WindowInv, ringVars, producerVars, P, C
<1>7. SlotInv' /\ GotInv'
  BY DEF PeekEmpty, IInv, SlotInv, GotInv, ringVars, producerVars, P, C
<1> QED
  BY <1>4, <1>5, <1>6, <1>7 DEF IInv

(* The slot the consumer holds is the oldest batch it has not released. *)
LEMMA HeldSlot ==
  ASSUME IInv, cpc # "idle"
  PROVE  /\ P \in Nat /\ C \in Nat /\ C + 1 \in 1 .. P
         /\ SlotOf(tail) = C % Depth
         /\ slots[C % Depth] = Word(accepted[C + 1])
         /\ accepted[C + 1] \in Nat
<1>1. P \in Nat /\ C \in Nat
  BY DEF IInv, TypeOK, P, C
<1>2. C + 1 \in 1 .. P
  BY <1>1 DEF IInv, TypeOK, WindowInv
<1>3. SlotOf(tail) = C % Depth
  BY <1>1, SlotOfCursor DEF IInv, CursorInv
<1>4. (C + 1) - 1 = C /\ C + 1 > C
  BY <1>1
<1>5. slots[C % Depth] = Word(accepted[C + 1])
  BY <1>1, <1>2, <1>4 DEF IInv, SlotInv
<1>6. accepted[C + 1] \in Nat
  BY <1>2 DEF IInv, TypeOK, P
<1> QED
  BY <1>1, <1>2, <1>3, <1>5, <1>6

(* Reading the samples copies those of the oldest unreleased batch. *)
LEMMA ReadSamplesIInv == IInv /\ ReadSamples => IInv'
<1> SUFFICES ASSUME IInv, ReadSamples PROVE IInv'
  OBVIOUS
<1>1. /\ SlotOf(tail) = C % Depth /\ slots[C % Depth] = Word(accepted[C + 1])
      /\ accepted[C + 1] \in Nat
  BY HeldSlot DEF ReadSamples
<1>2. got' = [got EXCEPT !.samples = accepted[C + 1]]
  BY <1>1 DEF ReadSamples, Word
<1>3. TypeOK'
  BY <1>1, <1>2 DEF ReadSamples, IInv, TypeOK, ringVars, producerVars
<1>4. CursorInv' /\ WindowInv' /\ SlotInv' /\ DeliveredInOrder' /\ count' <= Depth
  BY DEF ReadSamples, IInv, CursorInv, WindowInv, SlotInv, DeliveredInOrder, ringVars, producerVars, P, C
<1>5. GotInv'
  BY <1>2 DEF ReadSamples, IInv, TypeOK, GotInv, ringVars, producerVars, P, C
<1> QED
  BY <1>3, <1>4, <1>5 DEF IInv

(* Reading the metadata completes the copy of the same batch. *)
LEMMA ReadMetaIInv == IInv /\ ReadMeta => IInv'
<1> SUFFICES ASSUME IInv, ReadMeta PROVE IInv'
  OBVIOUS
<1>1. /\ SlotOf(tail) = C % Depth /\ slots[C % Depth] = Word(accepted[C + 1])
      /\ accepted[C + 1] \in Nat
  BY HeldSlot DEF ReadMeta
<1>2. got' = [got EXCEPT !.meta = accepted[C + 1]]
  BY <1>1 DEF ReadMeta, Word
<1>3. TypeOK'
  BY <1>1, <1>2 DEF ReadMeta, IInv, TypeOK, ringVars, producerVars
<1>4. CursorInv' /\ WindowInv' /\ SlotInv' /\ DeliveredInOrder' /\ count' <= Depth
  BY DEF ReadMeta, IInv, CursorInv, WindowInv, SlotInv, DeliveredInOrder, ringVars, producerVars, P, C
<1>5. GotInv'
  BY <1>2 DEF ReadMeta, IInv, TypeOK, GotInv, ringVars, producerVars, P, C
<1> QED
  BY <1>3, <1>4, <1>5 DEF IInv

(* Releasing the slot delivers the batch it held. *)
LEMMA ConsumeIInv == IInv /\ Consume => IInv'
<1> SUFFICES ASSUME IInv, Consume PROVE IInv'
  OBVIOUS
<1>1. P \in Nat /\ C \in Nat /\ C + 1 \in 1 .. P
  BY HeldSlot DEF Consume
<1>2. got = Word(accepted[C + 1])
  BY DEF Consume, IInv, TypeOK, GotInv, Word
<1>3. /\ out' = Append(out, got) /\ C' = C + 1 /\ P' = P /\ accepted' = accepted
      /\ \A k \in 1 .. C : out'[k] = out[k]
      /\ out'[C + 1] = got
  BY <1>1 DEF Consume, IInv, TypeOK, producerVars, P, C
<1>4. tail' = (C + 1) % W /\ tail' \in 0 .. (W - 1)
  <2>1. tail' = ((C % W) + 1) % W
    BY DEF Consume, IInv, CursorInv
  <2>2. C \in Int /\ C + 1 \in Nat
    BY <1>1
  <2> QED
    BY <2>1, <2>2, Sizes, ModSucc, SlotOfCursor
<1>5. TypeOK'
  BY <1>3, <1>4 DEF Consume, IInv, TypeOK, producerVars
<1>6. CursorInv' /\ count' <= Depth
  BY <1>3, <1>4 DEF Consume, IInv, CursorInv, producerVars
<1>7. WindowInv'
  BY <1>1, <1>3 DEF Consume, IInv, TypeOK, WindowInv, producerVars
<1>8. SlotInv'
  BY <1>1, <1>3 DEF Consume, IInv, SlotInv, producerVars
<1>9. GotInv'
  BY DEF Consume, GotInv
<1>10. DeliveredInOrder'
  <2>1. ASSUME NEW k \in 1 .. (C + 1)
        PROVE  out'[k] = Word(accepted[k])
    <3>1. CASE k = C + 1
      BY <1>2, <1>3, <3>1, Zenon
    <3>2. CASE k \in 1 .. C
      BY <1>3, <3>2 DEF IInv, DeliveredInOrder, C
    <3> QED
      BY <1>1, <3>1, <3>2
  <2> QED
    BY <1>1, <1>3, <2>1 DEF DeliveredInOrder, P, C
<1> QED
  BY <1>5, <1>6, <1>7, <1>8, <1>9, <1>10 DEF IInv

(* ring_count() subtracts a published cursor from the consumer's own. *)
LEMMA RingCountIInv == IInv /\ RingCount => IInv'
<1> SUFFICES ASSUME IInv, RingCount PROVE IInv'
  OBVIOUS
<1>1. P \in Nat /\ C \in Nat
  BY DEF IInv, TypeOK, P, C
<1>2. PICK n \in HeadLoads : count' = Minus(n % W, tail) /\ seenHead' = n
  BY DEF RingCount
<1>3. n \in Nat /\ seenHead <= n /\ n <= P
  BY <1>1, <1>2 DEF HeadLoads, IInv, TypeOK, P
<1>4. C <= n /\ n - C <= Depth
  BY <1>1, <1>3, Sizes DEF IInv, TypeOK, WindowInv
<1>5. count' = n - C
  BY <1>1, <1>2, <1>3, <1>4, CursorDistance DEF IInv, CursorInv
<1>6. count' \in 0 .. (W - 1) /\ count' <= Depth
  BY <1>1, <1>3, <1>4, <1>5, Sizes
<1>7. TypeOK'
  BY <1>2, <1>3, <1>6 DEF RingCount, IInv, TypeOK, ringVars, producerVars
<1>8. CursorInv' /\ DeliveredInOrder'
  BY DEF RingCount, IInv, CursorInv, DeliveredInOrder, ringVars, producerVars, P, C
<1>9. WindowInv'
  BY <1>1, <1>2, <1>3 DEF RingCount, IInv, TypeOK, WindowInv, ringVars, producerVars, P, C
<1>10. SlotInv' /\ GotInv'
  BY DEF RingCount, IInv, SlotInv, GotInv, ringVars, producerVars, P, C
<1> QED
  BY <1>6, <1>7, <1>8, <1>9, <1>10 DEF IInv

-----------------------------------------------------------------------------
(* The invariant is inductive. *)
LEMMA NextIInv == IInv /\ [Next]_vars => IInv'
<1> SUFFICES ASSUME IInv, [Next]_vars PROVE IInv'
  OBVIOUS
<1>1. CASE Producer
  BY <1>1, PushBeginIInv, PushFullIInv, PushSamplesIInv, PushMetaIInv, PushPublishIInv
  DEF Producer
<1>2. CASE Consumer
  BY <1>2, PeekFoundIInv, PeekEmptyIInv, ReadSamplesIInv, ReadMetaIInv, ConsumeIInv, RingCountIInv
  DEF Consumer
<1>3. CASE UNCHANGED vars
  BY <1>3 DEF vars, ringVars, producerVars, consumerVars, IInv, TypeOK, CursorInv, WindowInv,
              SlotInv, GotInv, DeliveredInOrder, P, C
<1> QED
  BY <1>1, <1>2, <1>3 DEF Next

(* The inductive invariant holds of every reachable state. *)
THEOREM Inductive == Spec => []IInv
<1> QED
  BY InitIInv, NextIInv, PTL DEF Spec

(* Type correctness of the ring, its cursors, counters and histories. *)
THEOREM TypeCorrect == Spec => []TypeOK
<1>1. IInv => TypeOK
  BY DEF IInv
<1> QED
  BY <1>1, Inductive, PTL

(* The producer never writes the slot the subscriber is reading. *)
THEOREM SlotExclusion == Spec => []HeldSlotNotWritten
<1>1. IInv => HeldSlotNotWritten
  <2> SUFFICES ASSUME IInv, ppc # "idle", cpc # "idle"
               PROVE  SlotOf(head) # SlotOf(tail)
    BY DEF HeldSlotNotWritten
  <2>1. /\ SlotOf(head) = P % Depth
        /\ \A k \in 1 .. P : k > C => ((k - 1) % Depth) # (P % Depth)
    BY FreeSlot
  <2>2. P \in Nat /\ C \in Nat /\ C + 1 \in 1 .. P /\ SlotOf(tail) = C % Depth
    BY HeldSlot
  <2>3. C + 1 > C /\ (C + 1) - 1 = C
    BY <2>2
  <2> QED
    BY <2>1, <2>2, <2>3
<1> QED
  BY <1>1, Inductive, PTL

(* At most Depth batches are in the ring, whatever the cursors' width. *)
THEOREM Bounded == Spec => []NeverOverfull
<1>1. IInv => NeverOverfull
  BY Sizes DEF IInv, TypeOK, WindowInv, NeverOverfull, P, C
<1> QED
  BY <1>1, Inductive, PTL

(* The subscriber receives the accepted batches whole and in order. *)
THEOREM Fifo == Spec => []DeliveredInOrder
<1>1. IInv => DeliveredInOrder
  BY DEF IInv
<1> QED
  BY <1>1, Inductive, PTL

(* ring_count() never underflows nor exceeds the depth of the ring. *)
THEOREM CountBounded == Spec => []CountSane
<1>1. IInv => CountSane
  BY DEF IInv, TypeOK, CountSane
<1> QED
  BY <1>1, Inductive, PTL

-----------------------------------------------------------------------------
(* Drops. *)

(* A push that finds the ring full learns of no release and knows of no room. *)
LEMMA FullMeansFull ==
  ASSUME IInv, PushFull
  PROVE  seenTail' = seenTail /\ P = seenTail + Depth
<1>1. P \in Nat /\ C \in Nat /\ seenTail \in Nat
  BY DEF IInv, TypeOK, P, C
<1>2. PICK n \in TailLoads : Minus(head, n % W) >= Depth /\ seenTail' = n
  BY DEF PushFull
<1>3. n \in Nat /\ seenTail <= n /\ n <= C
  BY <1>1, <1>2 DEF TailLoads, C
<1>4. n <= P /\ P - n <= Depth /\ P - seenTail <= Depth
  BY <1>1, <1>3, Sizes DEF IInv, TypeOK, WindowInv
<1>5. Minus(head, n % W) = P - n
  BY <1>1, <1>3, <1>4, CursorDistance DEF IInv, CursorInv
<1> QED
  BY <1>1, <1>2, <1>3, <1>4, <1>5, Sizes

(* A batch is dropped only when no free slot is known. *)
THEOREM DropsJustified == Spec => DropOnlyWhenFull
<1> DEFINE A == droppedCount' # droppedCount => Len(accepted) = seenTail' + Depth
<1>1. IInv /\ [Next]_vars => [A]_vars
  <2> SUFFICES ASSUME IInv, Next PROVE A
    OBVIOUS
  <2>1. CASE PushFull
    BY <2>1, FullMeansFull DEF P
  <2>2. CASE ~PushFull
    BY <2>2 DEF Next, Producer, Consumer, PushBegin, PushSamples, PushMeta, PushPublish,
                PeekFound, PeekEmpty, ReadSamples, ReadMeta, Consume, RingCount, producerVars
  <2> QED
    BY <2>1, <2>2
<1> QED
  BY <1>1, Inductive, PTL DEF Spec, DropOnlyWhenFull

-----------------------------------------------------------------------------
(* The ring implements the bounded queue: every step of the ring is, under  *)
(* the refinement mapping, a step of the queue or a stutter.                *)

Window == SubSeq(accepted, seenTail + 1, P)
Sent   == [k \in 1 .. C |-> BatchOf(out[k])]

(* The abstract queue's variables are the ones the ring maps to. *)
LEMMA QueueVars ==
  Queue!qvars = <<offered, ppc # "idle", Window, C - seenTail, Sent, droppedCount>>
BY DEF Queue!qvars, Window, Sent, P, C

(* The window has one entry per batch not seen released. *)
LEMMA WindowShape ==
  ASSUME IInv
  PROVE  /\ Window \in Seq(Nat) /\ Len(Window) = P - seenTail
         /\ \A k \in 1 .. (P - seenTail) : Window[k] = accepted[seenTail + k]
<1>1. /\ accepted \in Seq(Nat) /\ P = Len(accepted) /\ P \in Nat /\ C \in Nat
      /\ seenTail \in Nat /\ seenTail <= P
  BY DEF IInv, TypeOK, WindowInv, P, C
<1> QED
  BY <1>1 DEF Window

(* Finding a free slot is an offer that notices the releases now visible. *)
LEMMA PushBeginQueue == IInv /\ PushBegin => \E k \in 0 .. (C - seenTail) : Queue!Offer(k)
<1> SUFFICES ASSUME IInv, PushBegin
             PROVE  \E k \in 0 .. (C - seenTail) : Queue!Offer(k)
  OBVIOUS
<1>1. P \in Nat /\ C \in Nat /\ seenTail \in Nat /\ C <= P /\ accepted \in Seq(Nat) /\ P = Len(accepted)
  BY DEF IInv, TypeOK, DeliveredInOrder, P, C
<1>2. PICK n \in TailLoads : Minus(head, n % W) < Depth /\ seenTail' = n
  BY DEF PushBegin
<1>3. n \in Nat /\ seenTail <= n /\ n <= C
  BY <1>1, <1>2 DEF TailLoads, C
<1>4. P - n < Depth
  <2>1. n <= P /\ P - n <= Depth
    BY <1>1, <1>3, Sizes DEF IInv, WindowInv
  <2>2. Minus(P % W, n % W) = P - n
    BY <1>1, <1>3, <2>1, CursorDistance
  <2> QED
    BY <1>2, <2>2 DEF IInv, CursorInv
<1> DEFINE k == n - seenTail
<1>5. k \in 0 .. (C - seenTail)
  BY <1>1, <1>3
<1>6. /\ accepted' = accepted /\ out' = out /\ P' = P /\ C' = C /\ Sent' = Sent
      /\ droppedCount' = droppedCount /\ offered' = offered + 1 /\ offered < MaxOffers
      /\ ppc = "idle" /\ ppc' = "samples"
  BY DEF PushBegin, consumerVars, P, C, Sent
<1>7. Window' = SubSeq(Window, k + 1, Len(Window))
  <2>1. Window' = SubSeq(accepted, n + 1, P)
    BY <1>2, <1>6 DEF Window
  <2>2. SubSeq(SubSeq(accepted, seenTail + 1, P), k + 1, P - seenTail) = SubSeq(accepted, n + 1, P)
    BY <1>1, <1>3
  <2> QED
    BY <2>1, <2>2, WindowShape DEF Window
<1>8. Len(Window) - k < Depth
  <2>1. Len(Window) = P - seenTail
    BY WindowShape
  <2> QED
    BY <1>1, <1>3, <1>4, <2>1
<1>9. C' - seenTail' = (C - seenTail) - k
  BY <1>1, <1>2, <1>3, <1>6
<1>10. Queue!Offer(k)
  BY <1>5, <1>6, <1>7, <1>8, <1>9 DEF Queue!Offer, Window, Sent, P, C
<1> QED
  BY <1>5, <1>10

(* Finding the ring full loses the offered batch. *)
LEMMA PushFullQueue == IInv /\ PushFull => Queue!Lose
<1> SUFFICES ASSUME IInv, PushFull PROVE Queue!Lose
  OBVIOUS
<1>1. seenTail' = seenTail /\ P = seenTail + Depth
  BY FullMeansFull
<1>2. /\ accepted' = accepted /\ out' = out /\ P' = P /\ C' = C /\ Sent' = Sent
      /\ Window' = Window /\ droppedCount' = droppedCount + 1 /\ offered' = offered + 1
      /\ offered < MaxOffers /\ ppc = "idle" /\ ppc' = "idle"
  BY <1>1 DEF PushFull, consumerVars, P, C, Sent, Window
<1>3. Len(Window) = Depth
  <2>1. Len(Window) = P - seenTail /\ seenTail \in Nat
    BY WindowShape DEF IInv, TypeOK
  <2> QED
    BY <1>1, <2>1, Sizes
<1> QED
  BY <1>1, <1>2, <1>3 DEF Queue!Lose, Window, Sent, P, C

(* A suffix of an extended sequence is the extended suffix. *)
LEMMA SuffixOfAppend ==
  ASSUME NEW s \in Seq(Nat), NEW e \in Nat, NEW i \in 1 .. (Len(s) + 1)
  PROVE  SubSeq(Append(s, e), i, Len(s) + 1) = Append(SubSeq(s, i, Len(s)), e)
<1> DEFINE l == SubSeq(Append(s, e), i, Len(s) + 1)
           t == SubSeq(s, i, Len(s))
           n == (Len(s) + 1) - i
<1>1. n \in Nat /\ Len(s) \in Nat
  OBVIOUS
<1>2. t \in Seq(Nat) /\ Len(t) = n /\ \A k \in 1 .. n : t[k] = s[(i + k) - 1]
  OBVIOUS
<1>3. /\ Append(s, e) \in Seq(Nat) /\ Append(s, e)[Len(s) + 1] = e
      /\ \A k \in 1 .. Len(s) : Append(s, e)[k] = s[k]
  OBVIOUS
<1>4. /\ l \in Seq(Nat) /\ Len(l) = n + 1
      /\ \A k \in 1 .. (n + 1) : l[k] = Append(s, e)[(i + k) - 1]
  BY <1>3
<1>5. /\ Append(t, e) \in Seq(Nat) /\ Len(Append(t, e)) = n + 1
      /\ Append(t, e)[n + 1] = e /\ \A k \in 1 .. n : Append(t, e)[k] = t[k]
  BY <1>1, <1>2
<1>6. ASSUME NEW k \in 1 .. (n + 1) PROVE l[k] = Append(t, e)[k]
  <2>1. CASE k = n + 1
    <3>1. (i + k) - 1 = Len(s) + 1
      BY <1>1, <2>1
    <3> QED
      BY <1>3, <1>4, <1>5, <2>1, <3>1
  <2>2. CASE k # n + 1
    <3>1. k \in 1 .. n /\ (i + k) - 1 \in 1 .. Len(s)
      BY <1>1, <2>2
    <3> QED
      BY <1>2, <1>3, <1>4, <1>5, <3>1
  <2> QED
    BY <2>1, <2>2
<1> HIDE DEF l, t, n
<1> QED
  BY <1>4, <1>5, <1>6, SeqEqual DEF l, t

(* Publishing head accepts the batch. *)
LEMMA PushPublishQueue == IInv /\ PushPublish => Queue!Accept
<1> SUFFICES ASSUME IInv, PushPublish PROVE Queue!Accept
  OBVIOUS
<1>1. /\ P \in Nat /\ seenTail \in Nat /\ seenTail <= P /\ accepted \in Seq(Nat)
      /\ P = Len(accepted) /\ offered \in Nat
  BY DEF IInv, TypeOK, WindowInv, P, C
<1>2. /\ accepted' = Append(accepted, offered) /\ P' = P + 1 /\ out' = out /\ C' = C
      /\ Sent' = Sent /\ seenTail' = seenTail /\ offered' = offered
      /\ droppedCount' = droppedCount /\ ppc = "publish" /\ ppc' = "idle"
  BY <1>1 DEF PushPublish, consumerVars, P, C, Sent
<1>3. Window' = Append(Window, offered)
  <2>1. SubSeq(Append(accepted, offered), seenTail + 1, P + 1)
          = Append(SubSeq(accepted, seenTail + 1, P), offered)
    <3>1. seenTail + 1 \in 1 .. (Len(accepted) + 1)
      BY <1>1
    <3> QED
      BY ONLY <1>1, <3>1, SuffixOfAppend
  <2> QED
    BY <1>2, <2>1 DEF Window
<1> QED
  BY <1>2, <1>3 DEF Queue!Accept, Window, Sent, P, C

(* Releasing the slot delivers the oldest batch not delivered. *)
LEMMA ConsumeQueue == IInv /\ Consume => Queue!Deliver
<1> SUFFICES ASSUME IInv, Consume PROVE Queue!Deliver
  OBVIOUS
<1>1. P \in Nat /\ C \in Nat /\ C + 1 \in 1 .. P /\ accepted[C + 1] \in Nat
  BY HeldSlot DEF Consume
<1>2. got = Word(accepted[C + 1])
  BY DEF Consume, IInv, TypeOK, GotInv, Word
<1>3. /\ out' = Append(out, got) /\ C' = C + 1 /\ P' = P /\ Window' = Window
      /\ seenTail' = seenTail /\ offered' = offered /\ droppedCount' = droppedCount
      /\ ppc' = ppc
  BY <1>1 DEF Consume, IInv, TypeOK, producerVars, P, C, Window
<1>4. seenTail \in Nat /\ seenTail <= C /\ out \in Seq([samples : Nat, meta : Nat])
  BY DEF IInv, TypeOK, WindowInv
<1>5. Window[(C - seenTail) + 1] = accepted[C + 1]
  <2>1. (C - seenTail) + 1 \in 1 .. (P - seenTail) /\ seenTail + ((C - seenTail) + 1) = C + 1
    BY <1>1, <1>4
  <2> QED
    BY <2>1, WindowShape
<1>6. C - seenTail < Len(Window)
  <2>1. Len(Window) = P - seenTail
    BY WindowShape
  <2> QED
    BY <1>1, <1>4, <2>1
<1>7. BatchOf(got) = accepted[C + 1]
  BY <1>2 DEF BatchOf, Word
<1>8. Sent' = Append(Sent, accepted[C + 1])
  <2>1. Sent' = [k \in 1 .. (C + 1) |-> BatchOf(out'[k])]
    BY <1>3 DEF Sent
  <2>2. out'[C + 1] = got /\ \A k \in 1 .. C : out'[k] = out[k]
    BY <1>3, <1>4 DEF C
  <2>3. Sent \in Seq({BatchOf(out[k]) : k \in 1 .. C}) /\ Len(Sent) = C
    BY <1>1 DEF Sent
  <2>4. Append(Sent, accepted[C + 1])
          = [k \in 1 .. (C + 1) |-> IF k = C + 1 THEN accepted[C + 1] ELSE Sent[k]]
    BY <1>1, <2>3
  <2>5. ASSUME NEW k \in 1 .. (C + 1)
        PROVE  BatchOf(out'[k]) = IF k = C + 1 THEN accepted[C + 1] ELSE Sent[k]
    <3>1. CASE k = C + 1
      BY <1>7, <2>2, <3>1, Zenon
    <3>2. CASE k # C + 1
      <4>1. k \in 1 .. C
        BY <1>1, <3>2
      <4> QED
        BY <2>2, <3>2, <4>1 DEF Sent
    <3> QED
      BY <3>1, <3>2
  <2> QED
    BY <2>1, <2>4, <2>5
<1>9. C' - seenTail' = (C - seenTail) + 1
  BY <1>1, <1>3, <1>4
<1> QED
  BY <1>3, <1>5, <1>6, <1>8, <1>9 DEF Queue!Deliver, Window, Sent, P, C

(* The remaining steps touch nothing the queue can see. *)
LEMMA SilentSteps ==
  ASSUME PushSamples \/ PushMeta \/ PeekFound \/ PeekEmpty \/ ReadSamples \/ ReadMeta \/ RingCount
         \/ UNCHANGED vars
  PROVE  UNCHANGED Queue!qvars
<1>1. /\ offered' = offered /\ (ppc # "idle")' = (ppc # "idle") /\ accepted' = accepted
      /\ out' = out /\ seenTail' = seenTail /\ droppedCount' = droppedCount
  BY DEF PushSamples, PushMeta, PeekFound, PeekEmpty, ReadSamples, ReadMeta, RingCount,
         vars, ringVars, producerVars, consumerVars
<1> QED
  BY <1>1 DEF Queue!qvars

(* The IQ ring of the code is a bounded queue that drops only when full. *)
THEOREM Refinement == Spec => QueueSpec
<1>1. Init => Queue!Init
  <2> SUFFICES ASSUME Init PROVE Queue!Init
    OBVIOUS
  <2>1. Len(accepted) = 0 /\ Len(out) = 0 /\ seenTail = 0 /\ accepted = << >> /\ out = << >>
    BY DEF Init
  <2>2. SubSeq(accepted, seenTail + 1, Len(accepted)) = << >>
    BY <2>1
  <2>3. [k \in 1 .. Len(out) |-> BatchOf(out[k])] = << >>
    BY <2>1
  <2> QED
    BY <2>1, <2>2, <2>3 DEF Init, Queue!Init
<1>2. IInv /\ [Next]_vars => [Queue!Next]_(Queue!qvars)
  <2> SUFFICES ASSUME IInv, [Next]_vars PROVE [Queue!Next]_(Queue!qvars)
    OBVIOUS
  <2>1. CASE PushBegin
    BY <2>1, PushBeginQueue DEF Queue!Next, C
  <2>2. CASE PushFull
    BY <2>2, PushFullQueue DEF Queue!Next
  <2>3. CASE PushPublish
    BY <2>3, PushPublishQueue DEF Queue!Next
  <2>4. CASE Consume
    BY <2>4, ConsumeQueue DEF Queue!Next
  <2>5. CASE PushSamples \/ PushMeta \/ PeekFound \/ PeekEmpty \/ ReadSamples \/ ReadMeta \/ RingCount
             \/ UNCHANGED vars
    BY <2>5, SilentSteps
  <2> QED
    BY <2>1, <2>2, <2>3, <2>4, <2>5 DEF Next, Producer, Consumer
<1> QED
  BY <1>1, <1>2, Inductive, PTL DEF Spec, QueueSpec, Queue!Spec
=============================================================================
