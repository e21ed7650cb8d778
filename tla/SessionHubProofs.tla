--------------------------- MODULE SessionHubProofs ---------------------------
(***************************************************************************)
(* Theorems about SessionHub for every number of watchers, every payload    *)
(* size and every value of the limits.                                     *)
(***************************************************************************)
EXTENDS SessionHub, SequenceTheorems, WellFoundedInduction, TLAPS

-----------------------------------------------------------------------------
(* The window's operators.                                                  *)

LEMMA FromIsSuffix ==
    ASSUME NEW S, NEW s \in Seq(S), NEW k \in 1 .. Len(s) + 1
    PROVE  /\ From(s, k) \in Seq(S)
           /\ Len(From(s, k)) = Len(s) - k + 1
           /\ \A i \in 1 .. Len(s) - k + 1 : From(s, k)[i] = s[k + i - 1]
  BY SubSeqProperties DEF From

LEMMA EvictIsSuffix ==
    ASSUME NEW r \in Seq(Frame)
    PROVE  /\ \E k \in 1 .. Len(r) + 1 : Evict(r) = From(r, k)
           /\ Fits(Evict(r))
  <1> DEFINE T == {k \in 1 .. Len(r) + 1 : Fits(From(r, k))}
             Below == OpToRel(<, Nat)
  <1>1. Len(r) + 1 \in T
    <2>1. From(r, Len(r) + 1) = <<>>
      BY FromIsSuffix, EmptySeq
    <2> QED BY <2>1 DEF Fits
  <1>2. IsWellFoundedOn(Below, Nat)
    BY NatLessThanWellFounded, Zenon
  <1>3. \A j, k \in Nat : j < k => <<j, k>> \in Below
    BY DEF OpToRel
  <1> HIDE DEF Below
  <1>4. T \subseteq Nat /\ T # {}
    BY <1>1
  <1> HIDE DEF T
  <1>5. PICK k \in T : \A j \in T : ~(<<j, k>> \in Below)
    BY <1>2, <1>4, WFMin
  <1>6. k \in 1 .. Len(r) + 1 /\ Fits(From(r, k))
    BY DEF T
  <1>7. ASSUME NEW j \in 1 .. k - 1
        PROVE  ~Fits(From(r, j))
    <2>1. j \in 1 .. Len(r) + 1 /\ j \in Nat /\ k \in Nat /\ j < k
      BY <1>6
    <2>2. j \notin T
      BY <1>3, <1>5, <2>1
    <2> QED BY <2>1, <2>2 DEF T
  <1> HIDE DEF T
  <1>8. \E m \in 1 .. Len(r) + 1 :
           /\ Fits(From(r, m))
           /\ \A j \in 1 .. m - 1 : ~Fits(From(r, j))
    BY <1>6, <1>7
  <1> QED BY <1>8, Zenon DEF Evict

\* A run of frames of one attach that ends right before position `n`.
DenseUpTo(s, e, n) ==
    \A i \in 1 .. Len(s) : s[i].epoch = e /\ s[i].seq + Len(s) + 1 = n + i

MarkerIsOldest(s) == \A i \in 1 .. Len(s) : s[i].kind = "lost" => i = 1

LEMMA FrameFields ==
    ASSUME NEW s \in Seq(Frame), NEW i \in 1 .. Len(s)
    PROVE  s[i] \in Frame /\ s[i].seq \in Nat /\ s[i].epoch \in Nat
  <1>1. s[i] \in Frame
    BY ElementOfSeq
  <1> HIDE DEF Frame
  <1>2. ASSUME NEW f \in Frame
        PROVE  f.seq \in Nat /\ f.epoch \in Nat
    BY DEF Frame
  <1> QED BY <1>1, <1>2

LEMMA AppendIsDense ==
    ASSUME NEW s \in Seq(Frame), NEW f \in Frame, DenseUpTo(s, f.epoch, f.seq)
    PROVE  /\ Append(s, f) \in Seq(Frame)
           /\ DenseUpTo(Append(s, f), f.epoch, f.seq + 1)
  <1> DEFINE g == Append(s, f)
  <1>1. /\ g \in Seq(Frame)
        /\ Len(g) = Len(s) + 1
        /\ \A i \in 1 .. Len(s) : g[i] = s[i]
        /\ g[Len(s) + 1] = f
    BY AppendProperties
  <1>2. f.seq \in Nat /\ Len(s) \in Nat
    BY DEF Frame
  <1> HIDE DEF g
  <1>3. ASSUME NEW i \in 1 .. Len(s) + 1
        PROVE  g[i].epoch = f.epoch /\ g[i].seq + (Len(s) + 1) + 1 = (f.seq + 1) + i
    <2>1. CASE i \in 1 .. Len(s)
      <3>1. s[i].epoch = f.epoch /\ s[i].seq + Len(s) + 1 = f.seq + i
        BY <2>1 DEF DenseUpTo
      <3>2. s[i].seq \in Nat /\ g[i] = s[i]
        BY <1>1, <2>1, FrameFields
      <3>3. ASSUME NEW q \in Nat, q + Len(s) + 1 = f.seq + i
            PROVE  q + (Len(s) + 1) + 1 = (f.seq + 1) + i
        BY <1>2, <3>3
      <3> QED BY <3>1, <3>2, <3>3
    <2>2. CASE i = Len(s) + 1
      BY <1>1, <1>2, <2>2
    <2> QED BY <1>2, <2>1, <2>2
  <1>4. DenseUpTo(g, f.epoch, f.seq + 1)
    BY <1>1, <1>3 DEF DenseUpTo
  <1> QED BY <1>1, <1>4 DEF g

LEMMA SuffixIsDense ==
    ASSUME NEW s \in Seq(Frame), NEW k \in 1 .. Len(s) + 1,
           NEW e, NEW n \in Nat, DenseUpTo(s, e, n)
    PROVE  From(s, k) \in Seq(Frame) /\ DenseUpTo(From(s, k), e, n)
  <1>1. /\ From(s, k) \in Seq(Frame)
        /\ Len(From(s, k)) = Len(s) - k + 1
        /\ \A i \in 1 .. Len(s) - k + 1 : From(s, k)[i] = s[k + i - 1]
    BY FromIsSuffix
  <1>2. ASSUME NEW i \in 1 .. Len(s) - k + 1
        PROVE  /\ From(s, k)[i].epoch = e
               /\ From(s, k)[i].seq + (Len(s) - k + 1) + 1 = n + i
    <2>1. k + i - 1 \in 1 .. Len(s) /\ Len(s) \in Nat
      OBVIOUS
    <2>2. s[k + i - 1].epoch = e /\ s[k + i - 1].seq + Len(s) + 1 = n + (k + i - 1)
      BY <2>1 DEF DenseUpTo
    <2>3. s[k + i - 1].seq \in Nat
      BY <2>1, FrameFields
    <2>4. From(s, k)[i] = s[k + i - 1]
      BY <1>1
    <2>5. ASSUME NEW q \in Nat, q + Len(s) + 1 = n + (k + i - 1)
          PROVE  q + (Len(s) - k + 1) + 1 = n + i
      BY <2>1, <2>5
    <2> QED BY <2>2, <2>3, <2>4, <2>5
  <1> QED BY <1>1, <1>2 DEF DenseUpTo

LEMMA PushIsDense ==
    ASSUME NEW r \in Seq(Frame), NEW f \in Frame, f.kind # "lost",
           DenseUpTo(r, f.epoch, f.seq), MarkerIsOldest(r)
    PROVE  /\ Push(r, f) \in Seq(Frame)
           /\ DenseUpTo(Push(r, f), f.epoch, f.seq + 1)
           /\ MarkerIsOldest(Push(r, f))
  <1>1. CASE f.size > RingBytes
    <2> DEFINE l == Lost(f)
    <2>1. Push(r, f) = <<l>>
      BY <1>1 DEF Push
    <2>2. l \in Frame /\ l.epoch = f.epoch /\ l.seq = f.seq /\ f.seq \in Nat
      BY DEF Lost, Frame, Kinds
    <2> HIDE DEF l
    <2>3. <<l>> \in Seq(Frame) /\ Len(<<l>>) = 1 /\ <<l>>[1] = l
      BY <2>2
    <2>4. DenseUpTo(<<l>>, f.epoch, f.seq + 1)
      BY <2>2, <2>3 DEF DenseUpTo
    <2>5. MarkerIsOldest(<<l>>)
      BY <2>3 DEF MarkerIsOldest
    <2> QED BY <2>1, <2>3, <2>4, <2>5
  <1>2. CASE ~(f.size > RingBytes)
    <2> DEFINE g == Append(r, f)
    <2>1. /\ g \in Seq(Frame)
          /\ DenseUpTo(g, f.epoch, f.seq + 1)
      BY AppendIsDense
    <2>6. f.seq + 1 \in Nat
      BY DEF Frame
    <2>2. MarkerIsOldest(g)
      BY AppendProperties DEF MarkerIsOldest
    <2> HIDE DEF g
    <2>3. PICK k \in 1 .. Len(g) + 1 : Evict(g) = From(g, k)
      BY <2>1, EvictIsSuffix
    <2>4. From(g, k) \in Seq(Frame) /\ DenseUpTo(From(g, k), f.epoch, f.seq + 1)
      BY <2>1, <2>6, SuffixIsDense
    <2>5. MarkerIsOldest(From(g, k))
      <3>1. ASSUME NEW i \in 1 .. Len(g) - k + 1, From(g, k)[i].kind = "lost"
            PROVE  i = 1
        <4>1. From(g, k)[i] = g[k + i - 1] /\ k + i - 1 \in 1 .. Len(g)
          BY <2>1, FromIsSuffix
        <4> QED BY <2>2, <3>1, <4>1 DEF MarkerIsOldest
      <3> QED BY <2>1, <3>1, FromIsSuffix DEF MarkerIsOldest
    <2> QED BY <1>2, <2>3, <2>4, <2>5 DEF Push, g
  <1> QED BY <1>1, <1>2

-----------------------------------------------------------------------------
(* The fan-out's operators.                                                 *)

LEMMA AppendToRun ==
    ASSUME NEW s \in Seq(Frame), NEW e, NEW n \in Nat, NEW m \in Nat, NEW m2 \in Nat,
           RunFrom(s, e, n, m), m <= m2,
           NEW f \in Frame, f.epoch = e, f.seq = n + Len(s),
           f.kind # "lagged" => f.seq < m2
    PROVE  RunFrom(Append(s, f), e, n, m2)
  <1> DEFINE g == Append(s, f)
  <1>1. /\ Len(g) = Len(s) + 1
        /\ \A i \in 1 .. Len(s) : g[i] = s[i]
        /\ g[Len(s) + 1] = f
    BY AppendProperties
  <1>2. Len(s) \in Nat
    OBVIOUS
  <1> HIDE DEF g
  <1>3. ASSUME NEW k \in 1 .. Len(s) + 1
        PROVE  g[k].epoch = e /\ g[k].seq + 1 = n + k /\ (g[k].kind # "lagged" => g[k].seq < m2)
    <2>1. CASE k \in 1 .. Len(s)
      <3>1. /\ s[k].epoch = e /\ s[k].seq + 1 = n + k
            /\ s[k].kind # "lagged" => s[k].seq < m
        BY <2>1 DEF RunFrom
      <3>2. s[k].seq \in Nat /\ g[k] = s[k]
        BY <1>1, <2>1, FrameFields
      <3> QED BY <3>1, <3>2
    <2>2. CASE k = Len(s) + 1
      BY <1>1, <1>2, <2>2
    <2> QED BY <1>2, <2>1, <2>2
  <1> QED BY <1>1, <1>3 DEF RunFrom, g

LEMMA WidenRun ==
    ASSUME NEW s \in Seq(Frame), NEW e, NEW n \in Nat, NEW m \in Nat, NEW m2 \in Nat,
           RunFrom(s, e, n, m), m <= m2
    PROVE  RunFrom(s, e, n, m2)
  <1> SUFFICES ASSUME NEW k \in 1 .. Len(s)
               PROVE  /\ s[k].epoch = e /\ s[k].seq + 1 = n + k
                      /\ s[k].kind # "lagged" => s[k].seq < m2
    BY DEF RunFrom
  <1>1. s[k].seq \in Nat
    BY FrameFields
  <1> QED BY <1>1 DEF RunFrom

LEMMA ViewFields ==
    ASSUME NEW v \in View
    PROVE  /\ v.open \in BOOLEAN /\ v.tx \in BOOLEAN /\ v.leased \in BOOLEAN
           /\ v.epoch \in Nat /\ v.expect \in Nat /\ v.stream \in 0 .. MaxStreams
           /\ v.replay \in Seq(Frame) /\ v.queue \in Seq(Frame) /\ v.writing \in Seq(Frame)
           /\ Len(v.replay) \in Nat /\ Len(v.queue) \in Nat /\ Len(v.writing) \in Nat
  <1>1. /\ v.open \in BOOLEAN /\ v.tx \in BOOLEAN /\ v.leased \in BOOLEAN
        /\ v.epoch \in Nat /\ v.expect \in Nat /\ v.stream \in 0 .. MaxStreams
        /\ v.replay \in Seq(Frame) /\ v.queue \in Seq(Frame) /\ v.writing \in Seq(Frame)
    BY DEF View
  <1> QED BY <1>1, LenProperties

LagItem(v) == [kind |-> "lagged", epoch |-> v.epoch, seq |-> v.expect, size |-> 0]

LEMMA RoomForOne ==
    ASSUME NEW v \in View, NEW f \in Frame, HasRoomFor(v, f)
    PROVE  Len(v.queue) + 1 <= QueueFrames
  <1> DEFINE x == IF v.leased THEN v.writing ELSE <<>>
  <1>1. x \in Seq(Frame) /\ v.queue \in Seq(Frame)
    BY ViewFields
  <1> HIDE DEF x
  <1>2. Len(x \o v.queue) = Len(v.queue) + Len(x) /\ Len(x) \in Nat /\ Len(v.queue) \in Nat
    BY <1>1, ConcatProperties
  <1>3. HeldFrames(v) = Len(v.queue) + Len(x)
    BY <1>2 DEF HeldFrames, Leased, x
  <1>4. QueueFrames \in Nat /\ QueueFrames > 0
    BY HubAssumption
  <1>5. HeldFrames(v) = 0 \/ HeldFrames(v) < QueueFrames
    BY DEF HasRoomFor
  <1> QED BY <1>2, <1>3, <1>4, <1>5

\* What offering one frame leaves alone, and what it guarantees.
OfferOutcome(v, u, f, n, m) ==
    /\ u \in View
    /\ u.open = v.open /\ u.stream = v.stream /\ u.epoch = v.epoch
    /\ u.writing = v.writing /\ u.replay = v.replay
    /\ Flow(u, n, m)
    /\ u.tx => v.tx /\ u.expect = f.seq + 1 /\ Len(u.queue) <= QueueFrames
    /\ ~v.tx => u = v
    /\ v.tx /\ ~u.tx => u.queue # <<>> /\ Last(u.queue).kind = "lagged"

LEMMA OfferKeepsFlow ==
    ASSUME NEW v \in View, NEW f \in Frame, NEW n \in Nat, NEW m \in Nat,
           f.kind # "lagged", f.seq >= m,
           Flow(v, n, m),
           v.tx => v.epoch = f.epoch /\ v.expect = f.seq /\ Len(v.queue) <= QueueFrames
    PROVE  OfferOutcome(v, Offer(v, f), f, n, f.seq + 1)
  <1>0. /\ v.open \in BOOLEAN /\ v.tx \in BOOLEAN /\ v.leased \in BOOLEAN
        /\ v.epoch \in Nat /\ v.expect \in Nat /\ v.stream \in 0 .. MaxStreams
        /\ v.replay \in Seq(Frame) /\ v.queue \in Seq(Frame) /\ v.writing \in Seq(Frame)
    BY ViewFields
  <1>1. PICK lw, lr, lq \in Nat :
           lw = Len(v.writing) /\ lr = Len(v.replay) /\ lq = Len(v.queue)
    BY ViewFields
  <1>2. PICK p \in Nat : p = n + lw
    OBVIOUS
  <1>3. PICK k \in Nat : k = p + lr
    OBVIOUS
  <1>4. PICK m2 \in Nat : m2 = f.seq + 1 /\ m <= m2 /\ f.seq < m2 /\ f.seq \in Nat
    BY DEF Frame
  <1>5. /\ RunFrom(v.writing, v.epoch, n, m2)
        /\ RunFrom(v.replay, v.epoch, p, m2)
        /\ RunFrom(v.queue, v.epoch, k, m2)
        /\ lw <= 1
        /\ v.tx => v.expect = k + lq
    <2>1. /\ RunFrom(v.writing, v.epoch, n, m)
          /\ RunFrom(v.replay, v.epoch, p, m)
          /\ RunFrom(v.queue, v.epoch, k, m)
          /\ lw <= 1
          /\ v.tx => v.expect = k + lq
      BY <1>1, <1>2, <1>3 DEF Flow
    <2> QED BY <1>0, <1>4, <2>1, WidenRun
  \* A view with the same items, or one more in its queue, flows the same.
  <1>6. ASSUME NEW u \in View, u.epoch = v.epoch,
               u.writing = v.writing, u.replay = v.replay,
               RunFrom(u.queue, v.epoch, k, m2),
               u.tx => u.expect = k + Len(u.queue)
        PROVE  Flow(u, n, f.seq + 1)
    BY <1>1, <1>2, <1>3, <1>4, <1>5, <1>6 DEF Flow
  <1>7. CASE ~v.tx
    <2>1. Offer(v, f) = v
      BY <1>7 DEF Offer
    <2>2. Flow(v, n, f.seq + 1)
      BY <1>5, <1>6, <1>7
    <2> QED BY <1>7, <2>1, <2>2 DEF OfferOutcome
  <1>8. CASE v.tx
    <2>1. v.epoch = f.epoch /\ v.expect = f.seq /\ lq <= QueueFrames /\ f.seq = k + lq
      BY <1>1, <1>5, <1>8
    <2>2. CASE f.size <= MaxLive /\ HasRoomFor(v, f)
      <3>1. PICK u : u = [v EXCEPT !.queue = Append(v.queue, f), !.expect = v.expect + 1]
        OBVIOUS
      <3>2. Offer(v, f) = u
        BY <1>1, <1>8, <2>1, <2>2, <3>1 DEF Offer
      <3>3. /\ u \in View
            /\ u.tx = v.tx /\ u.open = v.open /\ u.stream = v.stream
            /\ u.epoch = v.epoch /\ u.writing = v.writing /\ u.replay = v.replay
            /\ u.queue = Append(v.queue, f) /\ u.expect = v.expect + 1
        <4>1. Append(v.queue, f) \in Seq(Frame) /\ v.expect + 1 \in Nat
          BY <1>0, AppendProperties
        <4> HIDE DEF Frame
        <4> QED BY <3>1, <4>1 DEF View
      <3>4. RunFrom(u.queue, v.epoch, k, m2)
        <4>1. f.seq = k + Len(v.queue) /\ f.seq < m2 /\ m2 <= m2
          BY <1>1, <1>4, <2>1
        <4>2. RunFrom(Append(v.queue, f), v.epoch, k, m2)
          BY <1>0, <1>5, <2>1, <4>1, AppendToRun
        <4> QED BY <3>3, <4>2
      <3>5. Len(u.queue) = lq + 1 /\ lq + 1 <= QueueFrames
        BY <1>0, <1>1, <2>2, <3>3, RoomForOne, AppendProperties
      <3>6. u.expect = k + Len(u.queue)
        BY <2>1, <3>3, <3>5
      <3>7. Flow(u, n, f.seq + 1)
        BY <1>6, <3>3, <3>4, <3>6
      <3> QED BY <1>8, <2>1, <3>2, <3>3, <3>5, <3>7 DEF OfferOutcome
    <2>3. CASE ~(f.size <= MaxLive /\ HasRoomFor(v, f))
      <3>1. PICK l : l = LagItem(v)
        OBVIOUS
      <3>2. l \in Frame /\ l.kind = "lagged" /\ l.epoch = v.epoch /\ l.seq = v.expect
        BY <1>0, <3>1 DEF LagItem, Frame, Kinds
      <3>3. PICK u : u = [v EXCEPT !.tx = FALSE, !.queue = Append(v.queue, l)]
        OBVIOUS
      <3>4. Offer(v, f) = u
        BY <1>1, <1>8, <2>1, <2>3, <3>1, <3>3 DEF Offer, FallBehind, LagItem
      <3>5. /\ u \in View
            /\ ~u.tx /\ u.open = v.open /\ u.stream = v.stream
            /\ u.epoch = v.epoch /\ u.writing = v.writing /\ u.replay = v.replay
            /\ u.queue = Append(v.queue, l)
        <4>1. Append(v.queue, l) \in Seq(Frame)
          BY <1>0, <3>2, AppendProperties
        <4> QED BY <3>3, <4>1 DEF View
      <3>6. RunFrom(u.queue, v.epoch, k, m2)
        <4>1. l.seq = k + Len(v.queue) /\ m2 <= m2
          BY <1>1, <1>4, <2>1, <3>2
        <4>2. RunFrom(Append(v.queue, l), v.epoch, k, m2)
          BY <1>0, <1>5, <3>2, <4>1, AppendToRun
        <4> QED BY <3>5, <4>2
      <3>7. u.queue # <<>> /\ Last(u.queue) = l
        <4>1. PICK q \in Seq(Frame) : q = v.queue
          BY <1>0
        <4>2. /\ Append(q, l) # <<>>
              /\ Len(Append(q, l)) = Len(q) + 1
              /\ Append(q, l)[Len(q) + 1] = l
          BY <3>2, AppendProperties
        <4> QED BY <3>5, <4>1, <4>2 DEF Last
      <3>8. Flow(u, n, f.seq + 1)
        BY <1>6, <3>5, <3>6
      <3> QED BY <1>8, <3>2, <3>4, <3>5, <3>7, <3>8 DEF OfferOutcome
    <2> QED BY <2>2, <2>3
  <1> QED BY <1>7, <1>8

-----------------------------------------------------------------------------
(* What a subscription is answered.                                         *)

LEMMA DenseIsRun ==
    ASSUME NEW s \in Seq(Frame), NEW e, NEW n \in Nat, DenseUpTo(s, e, n),
           NEW b \in Nat, b + Len(s) = n
    PROVE  RunFrom(s, e, b, n)
  <1> SUFFICES ASSUME NEW k \in 1 .. Len(s)
               PROVE  s[k].epoch = e /\ s[k].seq + 1 = b + k /\ s[k].seq < n
    BY DEF RunFrom
  <1>1. s[k].epoch = e /\ s[k].seq + Len(s) + 1 = n + k /\ s[k].seq \in Nat
    BY FrameFields DEF DenseUpTo
  <1>2. ASSUME NEW q \in Nat, q + Len(s) + 1 = n + k
        PROVE  q + 1 = b + k /\ q < n
    BY <1>2
  <1> QED BY <1>1, <1>2

LEMMA FramesAreDense ==
    ASSUME NEW r \in Seq(Frame), NEW e, NEW n \in Nat, DenseUpTo(r, e, n),
           MarkerIsOldest(r)
    PROVE  /\ Frames(r) \in Seq(Frame) /\ DenseUpTo(Frames(r), e, n)
           /\ r # <<>> /\ Frames(r) = <<>> => r[1].seq + 1 = n
           /\ Frames(r) # <<>> => /\ Head(Frames(r)).seq \in Nat
                                  /\ Head(Frames(r)).seq + Len(Frames(r)) = n
                                  /\ Head(Frames(r)).epoch = e
           /\ \A i \in 1 .. Len(r) :
                 r[i].kind = "lost" => i = 1 /\ n = r[1].seq + 1 + Len(Frames(r))
  <1>1. CASE r # <<>> /\ Head(r).kind = "lost"
    <2>1. Frames(r) = From(r, 2)
      BY <1>1, TailIsSubSeq DEF Frames, From
    <2>2. 2 \in 1 .. Len(r) + 1 /\ Len(r) \in Nat \ {0}
      BY <1>1, EmptySeq
    <2>3. Frames(r) \in Seq(Frame) /\ DenseUpTo(Frames(r), e, n) /\ Len(Frames(r)) + 1 = Len(r)
      BY <2>1, <2>2, SuffixIsDense, FromIsSuffix
    <2>4. r[1].seq + Len(r) + 1 = n + 1 /\ r[1].seq \in Nat
      BY <2>2, FrameFields DEF DenseUpTo
    <2>5. PICK q \in Seq(Frame) : q = Frames(r)
      BY <2>3
    <2>6. ASSUME q # <<>>
          PROVE  Head(q).seq \in Nat /\ Head(q).seq + Len(q) = n /\ Head(q).epoch = e
      <3>1. Len(q) \in Nat \ {0} /\ Head(q) = q[1]
        BY <2>6, EmptySeq, HeadTailProperties
      <3>2. q[1].seq + Len(q) + 1 = n + 1 /\ q[1].seq \in Nat /\ q[1].epoch = e
        BY <2>3, <2>5, <3>1, FrameFields DEF DenseUpTo
      <3> QED BY <3>1, <3>2
    <2>7. PICK a \in Nat, b \in Nat, c \in Nat : a = Len(r) /\ b = Len(q) /\ c = r[1].seq
      BY <2>2, <2>4, <2>5, LenProperties
    <2>8. b + 1 = a /\ c + a + 1 = n + 1
      BY <2>3, <2>4, <2>5, <2>7
    <2>9. n = c + 1 + b
      BY <2>7, <2>8
    <2>10. q = <<>> => b = 0
      BY <2>7
    <2>11. /\ q = <<>> => r[1].seq + 1 = n
           /\ n = r[1].seq + 1 + Len(q)
      <3>1. b = 0 => c + 1 = n
        BY <2>9
      <3> QED BY <2>7, <2>9, <2>10, <3>1
    <2> QED BY <2>3, <2>5, <2>6, <2>11 DEF MarkerIsOldest
  <1>2. CASE ~(r # <<>> /\ Head(r).kind = "lost")
    <2>1. Frames(r) = r
      BY <1>2 DEF Frames
    <2>2. \A i \in 1 .. Len(r) : r[i].kind # "lost"
      BY <1>2, EmptySeq, HeadTailProperties DEF MarkerIsOldest
    <2>3. ASSUME r # <<>>
          PROVE  Head(r).seq \in Nat /\ Head(r).seq + Len(r) = n /\ Head(r).epoch = e
      <3>1. Len(r) \in Nat \ {0} /\ Head(r) = r[1]
        BY <2>3, EmptySeq, HeadTailProperties
      <3>2. r[1].seq + Len(r) + 1 = n + 1 /\ r[1].seq \in Nat /\ r[1].epoch = e
        BY <3>1, FrameFields DEF DenseUpTo
      <3> QED BY <3>1, <3>2
    <2> QED BY <2>1, <2>2, <2>3
  <1> QED BY <1>1, <1>2

LEMMA WindowFacts ==
    ASSUME ring \in Seq(Frame)
    PROVE  WindowIsDense <=> DenseUpTo(ring, epoch, next) /\ MarkerIsOldest(ring)
  BY DEF WindowIsDense, DenseUpTo, MarkerIsOldest

\* What a subscriber that asks for c is answered: the events from a boundary
\* of the current attach on, and how that boundary relates to c.
AnswerOutcome(c, a) ==
    /\ a.replay \in Seq(Frame)
    /\ a.at \in Cursor /\ AttachOf(a.at) = Now
    /\ RunFrom(a.replay, epoch, a.at.seq, next)
    /\ a.at.seq + Len(a.replay) = next
    /\ \/ a.gap = NoCursor /\ (c = NoCursor \/ c = a.at)
       \/ /\ c # NoCursor
          /\ a.gap = [requested |-> c, liveAt |-> a.at]
          /\ AttachOf(c) = Now => a.at.seq > c.seq

LEMMA AnswerIsExact ==
    ASSUME TypeOK, WindowIsDense, NEW c \in Cursor \cup {NoCursor},
           c # NoCursor /\ AttachOf(c) = Now => c.seq <= next
    PROVE  AnswerOutcome(c, Answer(c))
  <1>1. ring \in Seq(Frame) /\ next \in Nat /\ epoch \in 0 .. MaxEpochs /\ stream \in 1 .. MaxStreams
    BY DEF TypeOK
  <1>2. DenseUpTo(ring, epoch, next) /\ MarkerIsOldest(ring)
    BY <1>1, WindowFacts
  <1>3. PICK h : h = Frames(ring)
    OBVIOUS
  <1>4. /\ h \in Seq(Frame) /\ DenseUpTo(h, epoch, next)
        /\ h # <<>> => /\ Head(h).seq \in Nat
                       /\ Head(h).seq + Len(h) = next
                       /\ Head(h).epoch = epoch
        /\ \A i \in 1 .. Len(ring) :
              ring[i].kind = "lost" => i = 1 /\ next = ring[1].seq + 1 + Len(h)
    BY <1>1, <1>2, <1>3, FramesAreDense
  <1>5. PICK b \in Nat : /\ b + Len(h) = next
                         /\ StartOf(h) = [stream |-> stream, epoch |-> epoch, seq |-> b]
                         /\ h # <<>> => b = Head(h).seq
    <2>1. CASE h = <<>>
      <3>1. next + Len(h) = next
        BY <1>1, <2>1
      <3> QED BY <1>1, <2>1, <3>1 DEF StartOf, LiveAt
    <2>2. CASE h # <<>>
      BY <1>4, <2>2 DEF StartOf
    <2> QED BY <2>1, <2>2
  <1>6. /\ StartOf(h) \in Cursor /\ AttachOf(StartOf(h)) = Now /\ StartOf(h).seq = b
        /\ LiveAt \in Cursor /\ AttachOf(LiveAt) = Now /\ LiveAt.seq = next
    BY <1>1, <1>5 DEF Cursor, AttachOf, Now, LiveAt
  <1>7. RunFrom(h, epoch, b, next)
    BY <1>1, <1>4, <1>5, DenseIsRun
  <1>8. CASE c = NoCursor
    <2>1. Answer(c) = [replay |-> h, at |-> StartOf(h), gap |-> NoCursor]
      BY <1>3, <1>8 DEF Answer
    <2> QED BY <1>4, <1>5, <1>6, <1>7, <1>8, <2>1 DEF AnswerOutcome
  <1>9. CASE c # NoCursor
    <2>1. c \in Cursor /\ c.seq \in Nat
      BY <1>9 DEF Cursor
    <2>2. CASE Reach(ring, c, LiveAt) = "upToDate"
      <3>1. Answer(c) = [replay |-> <<>>, at |-> LiveAt, gap |-> NoCursor]
        BY <1>9, <2>2 DEF Answer
      <3>2. c.stream = stream /\ c.epoch = epoch /\ c.seq = next
        BY <2>2 DEF Reach, LiveAt
      <3>3. c = LiveAt
        BY <2>1, <3>2 DEF Cursor, LiveAt
      <3>4. RunFrom(<<>>, epoch, next, next) /\ Len(<<>>) = 0 /\ <<>> \in Seq(Frame)
        BY DEF RunFrom
      <3> QED BY <1>1, <1>6, <3>1, <3>3, <3>4 DEF AnswerOutcome
    <2>3. CASE Reach(ring, c, LiveAt) = "held"
      <3>1. /\ c.stream = stream /\ c.epoch = epoch
            /\ c.seq < next
            /\ h # <<>> /\ Head(h).seq <= c.seq
        <4>1. /\ c.stream = stream /\ c.epoch = epoch
              /\ ~(c.seq > next) /\ c.seq # next
              /\ h # <<>> /\ Head(h).seq <= c.seq
          BY <1>3, <2>3 DEF Reach, LiveAt
        <4> QED BY <1>1, <2>1, <4>1
      <3>2. PICK k \in Nat : k = 1 + c.seq - b
        BY <1>5, <2>1, <3>1
      <3>3. Answer(c) = [replay |-> From(h, k), at |-> c, gap |-> NoCursor]
        BY <1>3, <1>5, <1>9, <2>3, <3>1, <3>2 DEF Answer, FramesFrom
      <3>4. PICK l \in Nat : l = Len(h)
        BY <1>4, LenProperties
      <3>5. k \in 1 .. l + 1 /\ c.seq + (l - k + 1) = next
        <4>1. PICK q \in Nat : q = c.seq
          BY <2>1
        <4>2. b + l = next /\ b <= q /\ q < next /\ k = 1 + q - b
          BY <1>5, <3>1, <3>2, <3>4, <4>1
        <4>3. k \in 1 .. l + 1 /\ q + (l - k + 1) = next
          BY <1>1, <4>2
        <4> QED BY <4>1, <4>3
      <3>6. /\ From(h, k) \in Seq(Frame) /\ DenseUpTo(From(h, k), epoch, next)
            /\ Len(From(h, k)) = l - k + 1
        BY <1>1, <1>4, <3>4, <3>5, FromIsSuffix, SuffixIsDense
      <3>7. RunFrom(From(h, k), epoch, c.seq, next)
        BY <1>1, <2>1, <3>5, <3>6, DenseIsRun
      <3>8. AttachOf(c) = Now
        BY <3>1 DEF AttachOf, Now
      <3> QED BY <2>1, <3>3, <3>5, <3>6, <3>7, <3>8 DEF AnswerOutcome
    <2>4. CASE Reach(ring, c, LiveAt) \notin {"upToDate", "held"}
      <3>1. Answer(c) = [replay |-> h, at |-> StartOf(h),
                         gap |-> [requested |-> c, liveAt |-> StartOf(h)]]
        BY <1>3, <1>9, <2>4 DEF Answer
      <3>2. ASSUME AttachOf(c) = Now
            PROVE  b > c.seq
        <4>1. c.stream = stream /\ c.epoch = epoch /\ c.seq <= next
          BY <1>9, <3>2 DEF AttachOf, Now
        <4>2. \/ \E i \in 1 .. Len(ring) : ring[i].kind = "lost" /\ ring[i].seq >= c.seq
              \/ h = <<>>
              \/ ~(Head(h).seq <= c.seq)
          <5>1. ~(c.seq > next) /\ c.seq # next
            BY <1>1, <2>1, <2>4, <4>1 DEF Reach, LiveAt
          <5>2. ~ /\ ~(\E i \in DOMAIN ring : /\ ring[i].kind = "lost"
                                             /\ ring[i].epoch = c.epoch
                                             /\ ring[i].seq >= c.seq)
                  /\ h # <<>>
                  /\ Head(h).epoch = c.epoch
                  /\ Head(h).seq <= c.seq
            BY <1>3, <2>4, <4>1, <5>1 DEF Reach, LiveAt
          <5>3. DOMAIN ring = 1 .. Len(ring)
            BY <1>1
          <5> QED BY <1>4, <4>1, <5>2, <5>3
        <4>3. c.seq # next
          BY <1>1, <2>1, <2>4, <4>1 DEF Reach, LiveAt
        <4>4. PICK l \in Nat : l = Len(h)
          BY <1>4, LenProperties
        <4>5. CASE \E i \in 1 .. Len(ring) : ring[i].kind = "lost" /\ ring[i].seq >= c.seq
          <5>1. 1 \in 1 .. Len(ring) /\ ring[1].seq >= c.seq /\ next = ring[1].seq + 1 + Len(h)
            BY <1>4, <4>5
          <5>2. ring[1].seq \in Nat
            BY <1>1, <5>1, FrameFields
          <5> QED BY <1>1, <1>5, <2>1, <4>4, <5>1, <5>2
        <4>6. CASE h = <<>>
          <5>1. Len(h) = 0
            BY <4>6
          <5> QED BY <1>1, <1>5, <2>1, <4>1, <4>3, <5>1
        <4>7. CASE h # <<>> /\ ~(Head(h).seq <= c.seq)
          BY <1>5, <2>1, <4>7
        <4> QED BY <4>2, <4>5, <4>6, <4>7
      <3> QED BY <1>4, <1>5, <1>6, <1>7, <1>9, <3>1, <3>2 DEF AnswerOutcome
    <2> QED BY <2>2, <2>3, <2>4
  <1> QED BY <1>8, <1>9

-----------------------------------------------------------------------------
(* The inductive invariant, as what it says of the hub and of each watcher. *)

HubInv ==
    /\ live \in BOOLEAN
    /\ stream \in 1 .. MaxStreams
    /\ epoch \in 0 .. MaxEpochs
    /\ next \in Nat /\ srcEnd \in Nat
    /\ ring \in Seq(Frame)
    /\ ends \in [Incarnations -> Nat]
    /\ WindowIsDense
    /\ HistoryOK

Told(v) == /\ v.writing \o v.queue # <<>>
           /\ Last(v.writing \o v.queue).kind = "lagged"

ViewInv(v, a) ==
    /\ v \in View
    /\ v.tx => /\ live /\ v.open
               /\ [stream |-> v.stream, epoch |-> v.epoch, seq |-> v.expect] = LiveAt
               /\ Len(v.queue) <= QueueFrames
    /\ ~v.open => v.writing = <<>>
    /\ v.open => /\ a # NoCursor /\ AttachOf(a) = <<v.stream, v.epoch>>
                 /\ Flow(v, a.seq, ends[<<v.stream, v.epoch>>])
    /\ v.open /\ ~v.tx /\ live /\ <<v.stream, v.epoch>> = Now => Told(v)

ConsumerInv(a, c, p, g) ==
    /\ {a, c, p} \subseteq Cursor \cup {NoCursor}
    /\ g \in [requested : Cursor, liveAt : Cursor] \cup {NoCursor}
    /\ Happened(a) /\ Happened(c)
    /\ p # NoCursor => p = a

IsWatcherState(f) == f = [w \in Watchers |-> f[w]]

SplitInv ==
    /\ HubInv /\ drops \in Nat
    /\ IsWatcherState(view) /\ IsWatcherState(at) /\ IsWatcherState(accepted)
    /\ IsWatcherState(pending) /\ IsWatcherState(gap)
    /\ \A w \in Watchers : /\ ViewInv(view[w], at[w])
                           /\ ConsumerInv(at[w], accepted[w], pending[w], gap[w])

LEMMA SplitIsIInv == SplitInv <=> IInv
  <1> USE DEF HubInv, ViewInv, ConsumerInv, IsWatcherState, Now
  <1>1. SplitInv => TypeOK
    <2> SUFFICES ASSUME SplitInv PROVE TypeOK
      OBVIOUS
    <2>1. view \in [Watchers -> View]
      BY DEF SplitInv
    <2>2. /\ accepted \in [Watchers -> Cursor \cup {NoCursor}]
          /\ pending \in [Watchers -> Cursor \cup {NoCursor}]
          /\ at \in [Watchers -> Cursor \cup {NoCursor}]
      BY DEF SplitInv
    <2>3. gap \in [Watchers -> [requested : Cursor, liveAt : Cursor] \cup {NoCursor}]
      BY DEF SplitInv
    <2> QED BY <2>1, <2>2, <2>3 DEF SplitInv, TypeOK
  <1>2. SplitInv => /\ WindowIsDense /\ SubscribersExpectLive
                    /\ HistoryOK /\ ConsumersOK /\ FlowOK /\ ReserveOK /\ LagIsTold
    BY DEF SplitInv, SubscribersExpectLive, ConsumersOK, FlowOK, ReserveOK, LagIsTold, Told
  <1>3. IInv => HubInv /\ drops \in Nat
    BY DEF IInv, TypeOK
  <1>4. IInv => /\ IsWatcherState(view) /\ IsWatcherState(at) /\ IsWatcherState(accepted)
                /\ IsWatcherState(pending) /\ IsWatcherState(gap)
    BY DEF IInv, TypeOK
  <1>5. ASSUME IInv, NEW w \in Watchers
        PROVE  ViewInv(view[w], at[w])
    <2>1. view[w] \in View
      BY <1>5 DEF IInv, TypeOK
    <2> QED BY <1>5, <2>1 DEF IInv, SubscribersExpectLive, FlowOK, ReserveOK, LagIsTold, Told
  <1>6. ASSUME IInv, NEW w \in Watchers
        PROVE  ConsumerInv(at[w], accepted[w], pending[w], gap[w])
    BY <1>6 DEF IInv, TypeOK, ConsumersOK
  <1> QED BY <1>1, <1>2, <1>3, <1>4, <1>5, <1>6 DEF SplitInv, IInv

LEMMA HappenedStays ==
    ASSUME HubInv, HubInv', NoLater(Now, Now'),
           \A i \in Incarnations : ends[i] <= ends'[i],
           NEW c \in Cursor \cup {NoCursor}, Happened(c)
    PROVE  c # NoCursor => NoLater(AttachOf(c), Now') /\ c.seq <= ends'[AttachOf(c)]
  <1> SUFFICES ASSUME c # NoCursor
               PROVE  NoLater(AttachOf(c), Now') /\ c.seq <= ends'[AttachOf(c)]
    OBVIOUS
  <1>1. /\ c.stream \in Nat /\ c.epoch \in Nat /\ c.seq \in Nat
        /\ AttachOf(c) \in Incarnations
    BY DEF Cursor, AttachOf, Incarnations
  <1>2. /\ AttachOf(c) = <<c.stream, c.epoch>>
        /\ Now = <<stream, epoch>> /\ Now' = <<stream', epoch'>>
        /\ {stream, epoch, stream', epoch'} \subseteq Nat
    BY DEF AttachOf, Now, HubInv
  <1>3. NoLater(AttachOf(c), Now')
    BY <1>1, <1>2 DEF Happened, NoLater
  <1>4. ends[AttachOf(c)] \in Nat /\ ends'[AttachOf(c)] \in Nat
    BY <1>1 DEF HubInv
  <1> QED BY <1>1, <1>3, <1>4 DEF Happened

\* A step of the owner: no consumer moves, and every watcher's view is as the
\* invariant wants it.
LEMMA OwnerStep ==
    ASSUME SplitInv, HubInv', UNCHANGED <<consumer, drops>>, NoLater(Now, Now'),
           \A i \in Incarnations : ends[i] <= ends'[i],
           IsWatcherState(view)',
           \A w \in Watchers : ViewInv(view[w], at[w])'
    PROVE  SplitInv'
  <1>1. ASSUME NEW w \in Watchers
        PROVE  ConsumerInv(at[w], accepted[w], pending[w], gap[w])'
    <2>1. PICK a, c : a = at[w] /\ c = accepted[w]
      OBVIOUS
    <2>2. a \in Cursor \cup {NoCursor} /\ c \in Cursor \cup {NoCursor} /\ Happened(a) /\ Happened(c)
      BY <2>1 DEF SplitInv, ConsumerInv
    <2>3. /\ a # NoCursor => NoLater(AttachOf(a), Now') /\ a.seq <= ends'[AttachOf(a)]
          /\ c # NoCursor => NoLater(AttachOf(c), Now') /\ c.seq <= ends'[AttachOf(c)]
      BY <2>2, HappenedStays DEF SplitInv
    <2>4. at'[w] = a /\ accepted'[w] = c /\ pending' = pending /\ gap' = gap
      BY <2>1 DEF consumer
    <2> QED BY <2>1, <2>3, <2>4 DEF SplitInv, ConsumerInv, Happened
  <1> QED BY <1>1 DEF SplitInv, IsWatcherState, consumer

\* A step of one watcher.
LEMMA WatcherStep ==
    ASSUME SplitInv, UNCHANGED hub, drops' \in Nat,
           NEW w \in Watchers, NEW v, NEW a, NEW c, NEW p, NEW g,
           view' = [view EXCEPT ![w] = v], at' = [at EXCEPT ![w] = a],
           accepted' = [accepted EXCEPT ![w] = c], pending' = [pending EXCEPT ![w] = p],
           gap' = [gap EXCEPT ![w] = g],
           ViewInv(v, a), ConsumerInv(a, c, p, g)
    PROVE  SplitInv'
  <1>1. HubInv'
    BY DEF SplitInv, HubInv, hub, WindowIsDense, HistoryOK, Now, NoLater
  <1>2. /\ IsWatcherState(view)' /\ IsWatcherState(at)' /\ IsWatcherState(accepted)'
        /\ IsWatcherState(pending)' /\ IsWatcherState(gap)'
    BY DEF SplitInv, IsWatcherState
  <1>3. ASSUME NEW x \in Watchers
        PROVE  /\ ViewInv(view'[x], at'[x])
               /\ ConsumerInv(at'[x], accepted'[x], pending'[x], gap'[x])
    <2>1. CASE x = w
      BY <2>1 DEF SplitInv, IsWatcherState
    <2>2. CASE x # w
      BY <2>2 DEF SplitInv, IsWatcherState
    <2> QED BY <2>1, <2>2
  <1>4. ASSUME NEW x \in Watchers
        PROVE  ViewInv(view[x], at[x])' /\ ConsumerInv(at[x], accepted[x], pending[x], gap[x])'
    BY <1>3 DEF ViewInv, ConsumerInv, hub, LiveAt, Now, Happened
  <1> QED BY <1>1, <1>2, <1>4 DEF SplitInv

LEMMA InitIsInvariant == Init => SplitInv
  <1> SUFFICES ASSUME Init PROVE SplitInv
    OBVIOUS
  <1>1. 1 \in 1 .. MaxStreams /\ 0 \in 0 .. MaxEpochs
    BY HubAssumption
  <1>2. Now \in Incarnations /\ \A i \in Incarnations : ends[i] = 0
    BY <1>1 DEF Init, Incarnations, Now
  <1>3. HubInv
    BY <1>1, <1>2 DEF Init, HubInv, WindowIsDense, HistoryOK
  <1>4. NoView \in View
    BY HubAssumption DEF NoView, View
  <1>5. ASSUME NEW w \in Watchers
        PROVE  ViewInv(view[w], at[w])
    <2>1. view[w] = NoView
      BY DEF Init
    <2> QED BY <1>4, <2>1 DEF ViewInv, NoView
  <1>6. ASSUME NEW w \in Watchers
        PROVE  ConsumerInv(at[w], accepted[w], pending[w], gap[w])
    BY DEF Init, ConsumerInv, Happened
  <1> QED BY <1>3, <1>5, <1>6 DEF SplitInv, IsWatcherState, Init

-----------------------------------------------------------------------------
(* The steps of the owner.                                                  *)

LEMMA OfferTwice ==
    ASSUME NEW v \in View, NEW f \in Frame, NEW g \in Frame, NEW n \in Nat,
           f.kind # "lagged", g.kind # "lagged", g.epoch = f.epoch, g.seq = f.seq + 1,
           Flow(v, n, f.seq),
           v.tx => v.epoch = f.epoch /\ v.expect = f.seq /\ Len(v.queue) <= QueueFrames
    PROVE  OfferOutcome(v, Offer(Offer(v, f), g), g, n, g.seq + 1)
  <1>1. f.seq \in Nat /\ g.seq \in Nat
    BY DEF Frame
  <1>2. PICK u : u = Offer(v, f)
    OBVIOUS
  <1>3. OfferOutcome(v, u, f, n, f.seq + 1)
    BY <1>1, <1>2, OfferKeepsFlow
  <1>4. /\ u \in View /\ g.seq >= g.seq /\ Flow(u, n, g.seq)
        /\ u.tx => u.epoch = g.epoch /\ u.expect = g.seq /\ Len(u.queue) <= QueueFrames
    BY <1>1, <1>3 DEF OfferOutcome
  <1>5. OfferOutcome(u, Offer(u, g), g, n, g.seq + 1)
    BY <1>1, <1>4, OfferKeepsFlow
  <1>6. PICK x : x = Offer(u, g)
    OBVIOUS
  <1>7. OfferOutcome(v, x, g, n, g.seq + 1)
    BY <1>3, <1>5, <1>6 DEF OfferOutcome
  <1> QED BY <1>2, <1>6, <1>7

LEMMA LastOfConcat ==
    ASSUME NEW s \in Seq(Frame), NEW q \in Seq(Frame), q # <<>>
    PROVE  s \o q # <<>> /\ Last(s \o q) = Last(q)
  <1>1. Len(q) \in Nat \ {0} /\ Len(s) \in Nat
    BY EmptySeq, LenProperties
  <1>2. /\ Len(s \o q) = Len(s) + Len(q)
        /\ (s \o q)[Len(s) + Len(q)] = q[Len(q)]
    BY <1>1, ConcatProperties
  <1> QED BY <1>1, <1>2 DEF Last

\* What publishing leaves a watcher with, one frame or two.
LEMMA ViewAfterOffer ==
    ASSUME SplitInv, live' = live, UNCHANGED <<stream, epoch>>,
           NEW m \in Nat, next' = m, ends' = [ends EXCEPT ![Now] = m],
           NEW w \in Watchers, NEW u, view'[w] = u, at'[w] = at[w], live,
           NEW g \in Frame, g.seq + 1 = m,
           ~view[w].tx => u = view[w],
           view[w].open => OfferOutcome(view[w], u, g, at[w].seq,
                              IF <<view[w].stream, view[w].epoch>> = Now
                              THEN m ELSE ends[<<view[w].stream, view[w].epoch>>])
    PROVE  ViewInv(view[w], at[w])'
  <1>1. PICK v, a : v = view[w] /\ a = at[w]
    OBVIOUS
  <1>2. ViewInv(v, a)
    BY <1>1 DEF SplitInv
  <1>3. PICK here : here = <<v.stream, v.epoch>>
    OBVIOUS
  <1>4. Now' = Now /\ ends \in [Incarnations -> Nat] /\ Now \in Incarnations
    BY DEF SplitInv, HubInv, Now, Incarnations
  <1>5. CASE ~v.open
    <2>1. ~v.tx /\ u = v
      BY <1>1, <1>2, <1>5 DEF ViewInv
    <2> QED BY <1>1, <1>2, <1>5, <2>1 DEF ViewInv
  <1>6. CASE v.open
    <2>1. /\ a # NoCursor /\ AttachOf(a) = here
          /\ OfferOutcome(v, u, g, a.seq, IF here = Now THEN m ELSE ends[here])
      BY <1>1, <1>2, <1>3, <1>6 DEF ViewInv
    <2>2. /\ u \in View /\ u.open = v.open /\ u.stream = v.stream /\ u.epoch = v.epoch
          /\ u.writing = v.writing /\ u.replay = v.replay
      BY <2>1 DEF OfferOutcome
    <2>3. ends'[here] = IF here = Now THEN m ELSE ends[here]
      <3>1. here = Now => ends'[here] = m
        BY <1>4
      <3>2. here # Now => ends'[here] = ends[here]
        BY <1>4
      <3> QED BY <3>1, <3>2
    <2>4. Flow(u, a.seq, ends'[here])
      BY <2>1, <2>3 DEF OfferOutcome
    <2>5. ASSUME u.tx
          PROVE  /\ [stream |-> u.stream, epoch |-> u.epoch, seq |-> u.expect]
                    = [stream |-> stream, epoch |-> epoch, seq |-> m]
                 /\ Len(u.queue) <= QueueFrames
      <3>1. v.tx /\ u.expect = m /\ Len(u.queue) <= QueueFrames
        BY <2>1, <2>5 DEF OfferOutcome
      <3>2. [stream |-> v.stream, epoch |-> v.epoch, seq |-> v.expect]
              = [stream |-> stream, epoch |-> epoch, seq |-> next]
        BY <1>2, <3>1 DEF ViewInv, LiveAt
      <3>3. v.stream = stream /\ v.epoch = epoch
        BY <3>2
      <3> QED BY <2>2, <3>1, <3>3
    <2>6. ASSUME ~u.tx, here = Now
          PROVE  Told(u)
      <3>1. CASE v.tx
        <4>1. u.queue # <<>> /\ Last(u.queue).kind = "lagged"
          BY <2>1, <2>6, <3>1 DEF OfferOutcome
        <4>2. u.writing \in Seq(Frame) /\ u.queue \in Seq(Frame)
          BY <2>2, ViewFields
        <4>3. /\ u.writing \o u.queue # <<>>
              /\ Last(u.writing \o u.queue) = Last(u.queue)
          BY <4>1, <4>2, LastOfConcat
        <4> QED BY <4>1, <4>3 DEF Told
      <3>2. CASE ~v.tx
        <4>1. u = v
          BY <2>1, <3>2 DEF OfferOutcome
        <4> QED BY <1>2, <1>3, <1>6, <2>6, <4>1 DEF ViewInv
      <3> QED BY <3>1, <3>2
    <2> QED BY <1>1, <1>3, <1>4, <1>6, <2>1, <2>2, <2>4, <2>5, <2>6 DEF ViewInv, LiveAt
  <1> QED BY <1>5, <1>6

LEMMA PublishStep ==
    ASSUME SplitInv, NEW size \in Nat, NEW reported \in Nat, Publish(size, reported)
    PROVE  SplitInv'
  <1>1. /\ live /\ live' = live /\ UNCHANGED <<stream, epoch>> /\ UNCHANGED <<consumer, drops>>
        /\ HubInv
    BY DEF SplitInv, Publish
  <1>2. PICK f, g : f = Stamped("event", next, size) /\ g = Stamped("notice", next + 1, NoticeSize)
    OBVIOUS
  <1>3. /\ f \in Frame /\ f.kind # "lagged" /\ f.kind # "lost" /\ f.epoch = epoch /\ f.seq = next
        /\ g \in Frame /\ g.kind # "lagged" /\ g.kind # "lost" /\ g.epoch = epoch /\ g.seq = next + 1
    BY <1>1, <1>2, HubAssumption DEF Stamped, Frame, Kinds, HubInv
  <1>4. PICK last \in {f, g} :
           /\ next' = last.seq + 1
           /\ srcEnd' \in Nat
           /\ ring' = IF last = f THEN Push(ring, f) ELSE Push(Push(ring, f), g)
           /\ view' = [w \in Watchers |-> IF last = f THEN Offer(view[w], f)
                                          ELSE Offer(Offer(view[w], f), g)]
    <2>1. f # g
      BY <1>2 DEF Stamped
    <2>2. CASE reported < srcEnd
      <3>1. /\ next' = next + 2 /\ srcEnd' = srcEnd
            /\ ring' = Push(Push(ring, f), g)
            /\ view' = [w \in Watchers |-> Offer(Offer(view[w], f), g)]
        BY <1>2, <2>2 DEF Publish
      <3>2. next' = g.seq + 1 /\ srcEnd' \in Nat
        BY <1>1, <1>3, <3>1 DEF HubInv
      <3> QED BY <2>1, <3>1, <3>2
    <2>3. CASE ~(reported < srcEnd)
      <3>1. /\ next' = next + 1 /\ srcEnd' = reported
            /\ ring' = Push(ring, f)
            /\ view' = [w \in Watchers |-> Offer(view[w], f)]
        BY <1>2, <2>3 DEF Publish
      <3> QED BY <1>3, <2>1, <3>1
    <2> QED BY <2>2, <2>3
  <1>5. PICK m \in Nat : m = next' /\ m = last.seq + 1 /\ next < m
    BY <1>1, <1>3, <1>4 DEF HubInv
  <1>6. last \in Frame /\ last.kind # "lagged" /\ last.epoch = epoch
    BY <1>3, <1>4
  <1>7. ends' = [ends EXCEPT ![Now] = m] /\ Now \in Incarnations /\ ends \in [Incarnations -> Nat]
    BY <1>1, <1>5 DEF Publish, Now, HubInv, Incarnations
  <1>8. HubInv'
    <2>1. DenseUpTo(ring, f.epoch, f.seq) /\ MarkerIsOldest(ring) /\ ring \in Seq(Frame)
      BY <1>1, <1>3, WindowFacts DEF HubInv
    <2>2. PICK r : r = Push(ring, f)
      OBVIOUS
    <2>3. r \in Seq(Frame) /\ DenseUpTo(r, g.epoch, g.seq) /\ MarkerIsOldest(r)
      <3>1. r \in Seq(Frame) /\ DenseUpTo(r, f.epoch, f.seq + 1) /\ MarkerIsOldest(r)
        BY <1>3, <2>1, <2>2, PushIsDense
      <3> QED BY <1>3, <3>1
    <2>4. PICK r2 : r2 = Push(r, g)
      OBVIOUS
    <2>5. r2 \in Seq(Frame) /\ DenseUpTo(r2, g.epoch, g.seq + 1) /\ MarkerIsOldest(r2)
      BY <1>3, <2>3, <2>4, PushIsDense
    <2>6. ring' \in Seq(Frame) /\ DenseUpTo(ring', epoch, m) /\ MarkerIsOldest(ring')
      <3>1. CASE last = f
        BY <1>3, <1>4, <1>5, <2>2, <2>3, <3>1
      <3>2. CASE last # f
        BY <1>3, <1>4, <1>5, <2>2, <2>4, <2>5, <3>2
      <3> QED BY <3>1, <3>2
    <2>7. WindowIsDense'
      BY <1>1, <1>5, <2>6 DEF WindowIsDense, DenseUpTo, MarkerIsOldest
    <2>8. HistoryOK'
      <3>1. Now' = Now /\ ends'[Now] = next'
        BY <1>1, <1>5, <1>7 DEF Now
      <3>2. ASSUME NEW i \in Incarnations, ~NoLater(i, Now)
            PROVE  ends'[i] = 0
        <4>1. NoLater(Now, Now)
          BY <1>1 DEF NoLater, Now, HubInv
        <4>2. i # Now /\ ends[i] = 0
          BY <1>1, <3>2, <4>1 DEF HubInv, HistoryOK
        <4> QED BY <1>7, <4>2
      <3> QED BY <3>1, <3>2 DEF HistoryOK
    <2>9. ends' \in [Incarnations -> Nat]
      BY <1>7
    <2> QED BY <1>1, <1>4, <1>5, <2>6, <2>7, <2>8, <2>9 DEF HubInv
  <1>9. NoLater(Now, Now') /\ \A i \in Incarnations : ends[i] <= ends'[i]
    <2>1. NoLater(Now, Now')
      BY <1>1 DEF NoLater, Now, HubInv
    <2>2. ends[Now] = next
      BY <1>1 DEF HubInv, HistoryOK
    <2>3. ASSUME NEW i \in Incarnations
          PROVE  ends[i] <= ends'[i]
      <3>1. CASE i = Now
        BY <1>1, <1>5, <1>7, <2>2, <3>1 DEF HubInv
      <3>2. CASE i # Now
        BY <1>7, <3>2
      <3> QED BY <3>1, <3>2
    <2> QED BY <2>1, <2>3
  <1>10. ASSUME NEW w \in Watchers
         PROVE  ViewInv(view[w], at[w])'
    <2>1. PICK v, u, a : v = view[w] /\ u = view'[w] /\ a = at[w]
      OBVIOUS
    <2>2. u = IF last = f THEN Offer(v, f) ELSE Offer(Offer(v, f), g)
      BY <1>4, <2>1
    <2>3. ViewInv(v, a) /\ a \in Cursor \cup {NoCursor}
      BY <2>1 DEF SplitInv, ConsumerInv
    <2>4. ASSUME ~v.tx
          PROVE  u = v
      <3>1. Offer(v, f) = v /\ Offer(v, g) = v
        BY <2>4 DEF Offer
      <3> QED BY <2>2, <3>1
    <2>5. ASSUME v.tx
          PROVE  v.stream = stream /\ v.epoch = epoch /\ v.expect = next /\ Len(v.queue) <= QueueFrames
      <3>1. [stream |-> v.stream, epoch |-> v.epoch, seq |-> v.expect]
              = [stream |-> stream, epoch |-> epoch, seq |-> next]
        BY <2>3, <2>5 DEF ViewInv, LiveAt
      <3> QED BY <2>3, <2>5, <3>1 DEF ViewInv
    <2>6. ASSUME v.open
          PROVE  OfferOutcome(v, u, last, a.seq,
                    IF <<v.stream, v.epoch>> = Now THEN m ELSE ends[<<v.stream, v.epoch>>])
      <3>1. /\ a \in Cursor /\ AttachOf(a) = <<v.stream, v.epoch>> /\ v \in View
            /\ Flow(v, a.seq, ends[<<v.stream, v.epoch>>])
        BY <2>3, <2>6 DEF ViewInv
      <3>2. a.seq \in Nat
        BY <3>1 DEF Cursor
      <3>3. CASE <<v.stream, v.epoch>> = Now
        <4>1. Flow(v, a.seq, f.seq)
          BY <1>1, <1>3, <3>1, <3>3 DEF HubInv, HistoryOK
        <4>2. f.seq >= f.seq /\ f.seq \in Nat
          BY <1>3 DEF Frame
        <4>3. CASE last = f
          <5>1. OfferOutcome(v, Offer(v, f), f, a.seq, f.seq + 1)
            BY <1>3, <2>5, <3>1, <3>2, <4>1, <4>2, OfferKeepsFlow
          <5> QED BY <1>5, <2>2, <3>3, <4>3, <5>1
        <4>4. CASE last # f
          <5>1. OfferOutcome(v, Offer(Offer(v, f), g), g, a.seq, g.seq + 1)
            BY <1>3, <2>5, <3>1, <3>2, <4>1, OfferTwice
          <5>2. last = g
            BY <1>4, <4>4
          <5> QED BY <1>5, <2>2, <3>3, <4>4, <5>1, <5>2
        <4> QED BY <4>3, <4>4
      <3>4. CASE <<v.stream, v.epoch>> # Now
        <4>1. ~v.tx
          BY <2>5, <3>4 DEF Now
        <4> QED BY <2>4, <3>1, <3>4, <4>1 DEF OfferOutcome
      <3> QED BY <3>3, <3>4
    <2>7. at'[w] = at[w]
      BY <1>1 DEF consumer
    <2> QED BY <1>1, <1>5, <1>6, <1>7, <2>1, <2>4, <2>6, <2>7, ViewAfterOffer
  <1>11. IsWatcherState(view)'
    BY <1>4 DEF IsWatcherState
  <1> QED BY <1>1, <1>8, <1>9, <1>10, <1>11, OwnerStep

\* A later attach, or no session at all: no view is subscribed any more.
LEMMA OwnerEndsViews ==
    ASSUME SplitInv, HubInv', UNCHANGED <<consumer, drops, ends>>, NoLater(Now, Now'),
           live' => ~NoLater(Now', Now),
           IsWatcherState(view)',
           \A w \in Watchers : view'[w] = [view[w] EXCEPT !.tx = FALSE]
    PROVE  SplitInv'
  <1>1. \A i \in Incarnations : ends[i] <= ends'[i]
    BY DEF SplitInv, HubInv
  <1>2. ASSUME NEW w \in Watchers
        PROVE  ViewInv(view[w], at[w])'
    <2>1. PICK v, a : v = view[w] /\ a = at[w]
      OBVIOUS
    <2>2. ViewInv(v, a) /\ ConsumerInv(a, accepted[w], pending[w], gap[w]) /\ HubInv
      BY <2>1 DEF SplitInv
    <2>3. PICK u : u = [v EXCEPT !.tx = FALSE]
      OBVIOUS
    <2>4. /\ u \in View /\ ~u.tx /\ u.open = v.open /\ u.stream = v.stream /\ u.epoch = v.epoch
          /\ u.writing = v.writing /\ u.replay = v.replay /\ u.queue = v.queue
      BY <2>2, <2>3 DEF ViewInv, View
    <2>5. u.open => Flow(u, a.seq, ends[<<u.stream, u.epoch>>])
      BY <2>2, <2>4 DEF ViewInv, Flow
    <2>6. ASSUME u.open, live'
          PROVE  <<u.stream, u.epoch>> # Now'
      BY <2>2, <2>4, <2>6 DEF ViewInv, ConsumerInv, Happened
    <2>7. view'[w] = u /\ at'[w] = a /\ ends' = ends
      BY <2>1, <2>3 DEF consumer
    <2> QED BY <2>2, <2>4, <2>5, <2>6, <2>7 DEF ViewInv
  <1> QED BY <1>1, <1>2, OwnerStep

LEMMA AttachStep == SplitInv /\ Attach => SplitInv'
  <1> SUFFICES ASSUME SplitInv, Attach PROVE SplitInv'
    OBVIOUS
  <1>1. HubInv /\ epoch' = epoch + 1 /\ stream' = stream /\ epoch' \in 0 .. MaxEpochs
    <2>1. HubInv /\ MaxEpochs \in Nat
      BY HubAssumption DEF SplitInv
    <2>2. epoch \in 0 .. MaxEpochs /\ epoch < MaxEpochs /\ epoch' = epoch + 1 /\ stream' = stream
      BY <2>1 DEF HubInv, Attach
    <2> QED BY <2>1, <2>2
  <1>2. NoLater(Now, Now') /\ ~NoLater(Now', Now) /\ Now' \in Incarnations
    BY <1>1 DEF HubInv, Now, NoLater, Incarnations
  <1>3. ASSUME NEW i \in Incarnations, ~NoLater(i, Now')
        PROVE  ~NoLater(i, Now)
    BY <1>1, <1>3 DEF HubInv, Now, NoLater, Incarnations
  <1>4. HubInv'
    BY <1>1, <1>2, <1>3 DEF Attach, HubInv, WindowIsDense, HistoryOK
  <1>5. view' = [w \in Watchers |-> [view[w] EXCEPT !.tx = FALSE]]
    BY DEF Attach, Closed
  <1> QED BY <1>2, <1>4, <1>5, OwnerEndsViews DEF Attach, IsWatcherState

LEMMA CloseStep == SplitInv /\ CloseSession => SplitInv'
  <1> SUFFICES ASSUME SplitInv, CloseSession PROVE SplitInv'
    OBVIOUS
  <1>1. HubInv
    BY DEF SplitInv
  <1>2. /\ UNCHANGED <<stream, epoch, next, srcEnd, ring, ends>>
        /\ live' = FALSE
    BY DEF CloseSession
  <1>4. HubInv'
    BY <1>1, <1>2 DEF HubInv, WindowIsDense, HistoryOK, Now
  <1>5. Now' = Now /\ NoLater(Now, Now)
    BY <1>1, <1>2 DEF HubInv, Now, NoLater
  <1>3. view' = [w \in Watchers |-> [view[w] EXCEPT !.tx = FALSE]]
    BY DEF CloseSession, Closed
  <1> QED BY <1>2, <1>3, <1>4, <1>5, OwnerEndsViews DEF CloseSession, IsWatcherState

LEMMA OpenStep == SplitInv /\ OpenSession => SplitInv'
  <1> SUFFICES ASSUME SplitInv, OpenSession PROVE SplitInv'
    OBVIOUS
  <1>1. HubInv /\ stream' = stream + 1 /\ epoch' = 0 /\ stream' \in 1 .. MaxStreams /\ ~live
    <2>1. HubInv /\ MaxStreams \in Nat
      BY HubAssumption DEF SplitInv
    <2>2. /\ stream \in 1 .. MaxStreams /\ stream < MaxStreams /\ stream' = stream + 1
          /\ epoch' = 0 /\ ~live
      BY <2>1 DEF HubInv, OpenSession
    <2> QED BY <2>1, <2>2
  <1>2. NoLater(Now, Now') /\ ~NoLater(Now', Now) /\ Now' \in Incarnations /\ 0 \in 0 .. MaxEpochs
    BY <1>1, HubAssumption DEF HubInv, Now, NoLater, Incarnations
  <1>3. ASSUME NEW i \in Incarnations, ~NoLater(i, Now')
        PROVE  ~NoLater(i, Now)
    BY <1>1, <1>3 DEF HubInv, Now, NoLater, Incarnations
  <1>4. HubInv'
    BY <1>1, <1>2, <1>3 DEF OpenSession, HubInv, WindowIsDense, HistoryOK
  <1>5. ASSUME NEW w \in Watchers
        PROVE  view'[w] = [view[w] EXCEPT !.tx = FALSE]
    <2>1. view[w] \in View /\ view[w].tx = FALSE
      BY <1>1 DEF SplitInv, ViewInv, View
    <2> QED BY <2>1 DEF OpenSession, View
  <1> QED BY <1>2, <1>4, <1>5, OwnerEndsViews DEF OpenSession, SplitInv, IsWatcherState

-----------------------------------------------------------------------------
(* The steps of one watcher.                                                *)

LEMMA SubscribeStep ==
    ASSUME SplitInv, NEW w \in Watchers, Subscribe(w)
    PROVE  SplitInv'
  <1>1. PICK c, a : c = accepted[w] /\ a = Answer(c)
    OBVIOUS
  <1>2. HubInv /\ ConsumerInv(at[w], c, pending[w], gap[w]) /\ drops \in Nat /\ pending[w] = NoCursor
    BY <1>1 DEF SplitInv, Subscribe
  <1>3. AnswerOutcome(c, a)
    <2>1. TypeOK /\ WindowIsDense
      BY SplitIsIInv DEF IInv
    <2>2. c # NoCursor /\ AttachOf(c) = Now => c.seq <= next
      BY <1>2 DEF ConsumerInv, Happened, HubInv, HistoryOK
    <2> QED BY <1>1, <1>2, <2>1, <2>2, AnswerIsExact DEF ConsumerInv
  <1>4. PICK v : v = [open |-> TRUE, tx |-> TRUE, stream |-> stream, epoch |-> epoch,
                      expect |-> next, replay |-> a.replay, queue |-> <<>>,
                      writing |-> <<>>, leased |-> FALSE]
    OBVIOUS
  <1>5. PICK n \in Nat, l \in Nat : n = a.at.seq /\ l = Len(a.replay)
    BY <1>3, LenProperties DEF AnswerOutcome, Cursor
  <1>6. n + l = next /\ n <= next /\ Now = <<stream, epoch>> /\ ends[Now] = next
    BY <1>2, <1>3, <1>5 DEF AnswerOutcome, HubInv, HistoryOK, Now
  <1>7. v \in View
    BY <1>2, <1>3, <1>4, HubAssumption DEF View, HubInv, AnswerOutcome
  <1>8. Flow(v, a.at.seq, next)
    <2>1. /\ v.epoch = epoch /\ v.replay = a.replay /\ v.queue = <<>> /\ v.writing = <<>>
          /\ v.expect = next
      BY <1>4
    <2>2. Len(<<>>) = 0 /\ n + 0 = n
      OBVIOUS
    <2>3. RunFrom(a.replay, epoch, n, next)
      BY <1>3, <1>5 DEF AnswerOutcome
    <2> QED BY <1>5, <1>6, <2>1, <2>2, <2>3 DEF Flow, RunFrom
  <1>9. ViewInv(v, a.at)
    <2>1. a.at # NoCursor /\ AttachOf(a.at) = <<stream, epoch>>
      BY <1>3, NoCursorAssumption DEF AnswerOutcome, Now
    <2>2. Len(<<>>) <= QueueFrames
      BY HubAssumption
    <2> QED BY <1>4, <1>6, <1>7, <1>8, <2>1, <2>2 DEF ViewInv, LiveAt, Subscribe
  <1>10. ConsumerInv(a.at, c, pending[w], a.gap)
    <2>1. a.at \in Cursor /\ Happened(a.at)
      BY <1>2, <1>3, <1>5, <1>6 DEF AnswerOutcome, Happened, NoLater, Now, HubInv
    <2>2. a.gap \in [requested : Cursor, liveAt : Cursor] \cup {NoCursor}
      BY <1>2, <1>3 DEF AnswerOutcome, ConsumerInv
    <2> QED BY <1>2, <2>1, <2>2 DEF ConsumerInv
  <1>11. /\ UNCHANGED hub /\ drops' \in Nat
         /\ view' = [view EXCEPT ![w] = v] /\ at' = [at EXCEPT ![w] = a.at]
         /\ accepted' = [accepted EXCEPT ![w] = c] /\ pending' = [pending EXCEPT ![w] = pending[w]]
         /\ gap' = [gap EXCEPT ![w] = a.gap]
    BY <1>1, <1>2, <1>4 DEF Subscribe, SplitInv, IsWatcherState
  <1> QED BY <1>9, <1>10, <1>11, WatcherStep

\* The next item of a run, and the rest of it.
LEMMA RunParts ==
    ASSUME NEW s \in Seq(Frame), s # <<>>, NEW e, NEW n \in Nat, NEW m \in Nat,
           RunFrom(s, e, n, m)
    PROVE  /\ Head(s) \in Frame /\ <<Head(s)>> \in Seq(Frame) /\ Tail(s) \in Seq(Frame)
           /\ Len(Tail(s)) + 1 = Len(s)
           /\ <<Head(s)>> \o Tail(s) = s
           /\ RunFrom(<<Head(s)>>, e, n, m)
           /\ RunFrom(Tail(s), e, n + 1, m)
  <1>1. /\ Head(s) \in Frame /\ <<Head(s)>> \in Seq(Frame) /\ Tail(s) \in Seq(Frame)
        /\ Len(Tail(s)) + 1 = Len(s) /\ Len(s) \in Nat \ {0}
        /\ Head(s) = s[1] /\ \A i \in 1 .. Len(Tail(s)) : Tail(s)[i] = s[i + 1]
    BY EmptySeq, HeadTailProperties, LenProperties
  <1>2. <<Head(s)>> \o Tail(s) = s
    BY <1>1, HeadTailProperties
  <1>3. RunFrom(<<Head(s)>>, e, n, m)
    BY <1>1 DEF RunFrom
  <1>4. ASSUME NEW i \in 1 .. Len(Tail(s))
        PROVE  /\ Tail(s)[i].epoch = e /\ Tail(s)[i].seq + 1 = (n + 1) + i
               /\ Tail(s)[i].kind # "lagged" => Tail(s)[i].seq < m
    <2>1. i + 1 \in 1 .. Len(s) /\ Tail(s)[i] = s[i + 1]
      BY <1>1
    <2>2. /\ s[i + 1].epoch = e /\ s[i + 1].seq + 1 = n + (i + 1)
          /\ s[i + 1].kind # "lagged" => s[i + 1].seq < m
      BY <2>1 DEF RunFrom
    <2> QED BY <2>1, <2>2
  <1> QED BY <1>1, <1>2, <1>3, <1>4 DEF RunFrom

LEMMA RecvStep ==
    ASSUME SplitInv, NEW w \in Watchers, Recv(w)
    PROVE  SplitInv'
  <1>1. PICK v, a : v = view[w] /\ a = at[w]
    OBVIOUS
  <1>2. /\ ViewInv(v, a) /\ ConsumerInv(a, accepted[w], pending[w], gap[w]) /\ HubInv
        /\ v.open /\ v.writing = <<>> /\ drops \in Nat
    BY <1>1 DEF SplitInv, Recv
  <1>0. PICK e, here : e = v.epoch /\ here = <<v.stream, v.epoch>>
    OBVIOUS
  <1>3. /\ \E n \in Nat : n = a.seq
        /\ \E m \in Nat : m = ends[here]
        /\ AttachOf(a) = here /\ a # NoCursor
    <2>1. a \in Cursor /\ AttachOf(a) = <<v.stream, v.epoch>> /\ a # NoCursor
      BY <1>2 DEF ViewInv, ConsumerInv
    <2>2. AttachOf(a) \in Incarnations /\ a.seq \in Nat
      BY <2>1 DEF AttachOf, Incarnations, Cursor
    <2>3. ends[here] \in Nat
      BY <1>0, <1>2, <2>1, <2>2 DEF HubInv
    <2> QED BY <1>0, <2>1, <2>2, <2>3
  <1>31. PICK n \in Nat, m \in Nat : n = a.seq /\ m = ends[here]
    BY <1>3
  <1>4. /\ v \in View /\ v.replay \in Seq(Frame) /\ v.queue \in Seq(Frame) /\ v.epoch = e
        /\ v.writing \in Seq(Frame)
    BY <1>2, <1>0, <1>3, <1>31, ViewFields DEF ViewInv
  <1>5. PICK lr \in Nat, lq \in Nat : lr = Len(v.replay) /\ lq = Len(v.queue)
    BY <1>4, LenProperties
  <1>6. /\ RunFrom(v.replay, e, n, m) /\ RunFrom(v.queue, e, n + lr, m)
        /\ v.tx => v.expect = n + lr + lq /\ lq <= QueueFrames
    <2>1. Flow(v, n, m) /\ Len(v.writing) = 0
      BY <1>2, <1>0, <1>3, <1>31 DEF ViewInv
    <2>2. /\ RunFrom(v.replay, e, n + 0, m) /\ RunFrom(v.queue, e, n + 0 + lr, m)
          /\ v.tx => v.expect = n + 0 + lr + lq
      BY <1>0, <1>3, <1>31, <1>5, <2>1 DEF Flow
    <2>3. n + 0 = n
      OBVIOUS
    <2>4. RunFrom(v.replay, e, n, m) /\ RunFrom(v.queue, e, n + lr, m)
      BY <2>2, <2>3
    <2>5. v.tx => v.expect = n + lr + lq
      BY <2>2, <2>3
    <2>6. v.tx => lq <= QueueFrames
      BY <1>2, <1>5 DEF ViewInv
    <2> QED BY <2>4, <2>5, <2>6
  <1>7. \E u : /\ u \in View /\ view' = [view EXCEPT ![w] = u]
               /\ u.open = v.open /\ u.tx = v.tx /\ u.stream = v.stream /\ u.epoch = v.epoch
               /\ u.expect = v.expect
               /\ Flow(u, n, m)
               /\ Len(u.queue) <= lq
               /\ v.queue # <<>> => u.writing \o u.queue # <<>> /\ Last(u.writing \o u.queue) = Last(v.queue)
    <2>1. CASE v.replay # <<>>
      <3>1. PICK h, t : h = Head(v.replay) /\ t = Tail(v.replay)
        OBVIOUS
      <3>2. PICK u : u = [v EXCEPT !.replay = t, !.writing = <<h>>, !.leased = FALSE]
        OBVIOUS
      <3>3. /\ <<h>> \in Seq(Frame) /\ t \in Seq(Frame) /\ Len(t) + 1 = lr
            /\ RunFrom(<<h>>, e, n, m) /\ RunFrom(t, e, n + 1, m)
        BY <1>4, <1>5, <1>6, <2>1, <3>1, RunParts
      <3>4. /\ u \in View /\ u.open = v.open /\ u.tx = v.tx /\ u.stream = v.stream
            /\ u.epoch = v.epoch /\ u.expect = v.expect
            /\ u.queue = v.queue /\ u.replay = t /\ u.writing = <<h>>
        BY <1>4, <3>2, <3>3 DEF View
      <3>5. view' = [view EXCEPT ![w] = u]
        BY <1>1, <2>1, <3>1, <3>2 DEF Recv
      <3>6. PICK lt \in Nat : lt = Len(t) /\ lt + 1 = lr
        BY <3>3, LenProperties
      <3>7. Flow(u, n, m)
        <4>1. Len(<<h>>) = 1 /\ n + 1 + lt = n + lr
          BY <3>6
        <4> QED BY <1>0, <1>3, <1>31, <1>5, <1>6, <3>3, <3>4, <3>6, <4>1 DEF Flow
      <3>8. v.queue # <<>> => u.writing \o u.queue # <<>> /\ Last(u.writing \o u.queue) = Last(v.queue)
        BY <1>4, <3>3, <3>4, LastOfConcat
      <3>9. Len(u.queue) <= lq
        BY <1>5, <3>4
      <3> QED BY <3>4, <3>5, <3>7, <3>8, <3>9
    <2>2. CASE v.replay = <<>>
      <3>1. PICK h, t : h = Head(v.queue) /\ t = Tail(v.queue)
        OBVIOUS
      <3>2. PICK u : u = [v EXCEPT !.queue = t, !.writing = <<h>>, !.leased = TRUE]
        OBVIOUS
      <3>3. v.queue # <<>> /\ view' = [view EXCEPT ![w] = u]
        BY <1>1, <2>2, <3>1, <3>2 DEF Recv
      <3>4. lr = 0 /\ RunFrom(v.queue, e, n, m)
        BY <1>5, <1>6, <2>2
      <3>5. /\ <<h>> \in Seq(Frame) /\ t \in Seq(Frame) /\ Len(t) + 1 = lq
            /\ RunFrom(<<h>>, e, n, m) /\ RunFrom(t, e, n + 1, m) /\ <<h>> \o t = v.queue
        BY <1>4, <1>5, <3>1, <3>3, <3>4, RunParts
      <3>6. /\ u \in View /\ u.open = v.open /\ u.tx = v.tx /\ u.stream = v.stream
            /\ u.epoch = v.epoch /\ u.expect = v.expect
            /\ u.queue = t /\ u.replay = v.replay /\ u.writing = <<h>>
        BY <1>4, <3>2, <3>5 DEF View
      <3>7. PICK lt \in Nat : lt = Len(t) /\ lt + 1 = lq
        BY <3>5, LenProperties
      <3>8. Flow(u, n, m)
        <4>1. /\ Len(<<h>>) = 1 /\ n + 1 + 0 = n + 1 /\ n + 1 + 0 + lt = n + lr + lq
              /\ Len(<<>>) = 0
          BY <3>4, <3>7
        <4>2. RunFrom(<<>>, e, n + 1, m)
          BY DEF RunFrom
        <4>3. /\ RunFrom(u.writing, u.epoch, n, m) /\ Len(u.writing) = 1
              /\ RunFrom(u.replay, u.epoch, n + 1, m) /\ Len(u.replay) = 0
              /\ RunFrom(u.queue, u.epoch, n + 1 + 0, m) /\ Len(u.queue) = lt
          BY <1>0, <2>2, <3>5, <3>6, <3>7, <4>1, <4>2
        <4>4. u.tx => u.expect = n + 1 + 0 + lt
          BY <1>6, <3>6, <4>1
        <4> QED BY <4>3, <4>4 DEF Flow
      <3>9. Len(u.queue) <= lq
        BY <3>6, <3>7
      <3> QED BY <3>3, <3>5, <3>6, <3>8, <3>9
    <2> QED BY <2>1, <2>2
  <1>8. PICK u : /\ u \in View /\ view' = [view EXCEPT ![w] = u]
                 /\ u.open = v.open /\ u.tx = v.tx /\ u.stream = v.stream /\ u.epoch = v.epoch
                 /\ u.expect = v.expect
                 /\ Flow(u, n, m)
                 /\ Len(u.queue) <= lq
                 /\ v.queue # <<>> => u.writing \o u.queue # <<>> /\ Last(u.writing \o u.queue) = Last(v.queue)
    BY <1>7
  <1>9. ViewInv(u, a)
    <2>1. Told(v) => Told(u)
      <3>1. v.writing \o v.queue = v.queue
        BY <1>2, <1>4, ConcatEmptySeq
      <3> QED BY <1>8, <3>1 DEF Told
    <2>2. u.tx => Len(u.queue) <= QueueFrames
      <3>1. Len(u.queue) \in Nat /\ QueueFrames \in Nat
        BY <1>8, ViewFields, HubAssumption
      <3> QED BY <1>6, <1>8, <3>1
    <2> QED BY <1>2, <1>0, <1>3, <1>31, <1>8, <2>1, <2>2 DEF ViewInv
  <1>10. /\ UNCHANGED hub /\ drops' \in Nat
         /\ at' = [at EXCEPT ![w] = a] /\ accepted' = [accepted EXCEPT ![w] = accepted[w]]
         /\ pending' = [pending EXCEPT ![w] = pending[w]] /\ gap' = [gap EXCEPT ![w] = gap[w]]
    BY <1>1, <1>2 DEF Recv, SplitInv, IsWatcherState, consumer
  <1> QED BY <1>2, <1>8, <1>9, <1>10, WatcherStep

\* A watcher whose connection is gone: no view, and a boundary it is at.
LEMMA NoViewStep ==
    ASSUME SplitInv, UNCHANGED <<hub, at, gap>>, drops' \in Nat,
           NEW w \in Watchers, NEW c, NEW p,
           view' = [view EXCEPT ![w] = NoView],
           accepted' = [accepted EXCEPT ![w] = c], pending' = [pending EXCEPT ![w] = p],
           c \in {accepted[w], at[w]}, p \in {pending[w], NoCursor}
    PROVE  SplitInv'
  <1>1. HubInv /\ ConsumerInv(at[w], accepted[w], pending[w], gap[w])
    BY DEF SplitInv
  <1>2. NoView \in View
    BY HubAssumption DEF NoView, View
  <1>3. ViewInv(NoView, at[w])
    BY <1>2 DEF ViewInv, NoView
  <1>4. ConsumerInv(at[w], c, p, gap[w])
    BY <1>1 DEF ConsumerInv
  <1>5. at' = [at EXCEPT ![w] = at[w]] /\ gap' = [gap EXCEPT ![w] = gap[w]]
    BY DEF SplitInv, IsWatcherState
  <1> QED BY <1>3, <1>4, <1>5, WatcherStep

\* What the writer holds, as the flow of its view has it.
LEMMA HeldItem ==
    ASSUME SplitInv, NEW w \in Watchers, view[w].writing # <<>>
    PROVE  LET f == Head(view[w].writing)
           IN  /\ view[w].open /\ view[w].writing = <<f>> /\ f \in Frame
               /\ at[w] \in Cursor /\ at[w].stream = view[w].stream /\ at[w].epoch = view[w].epoch
               /\ f.epoch = view[w].epoch /\ f.seq = at[w].seq
               /\ f.kind # "lagged" => f.seq < ends[<<view[w].stream, view[w].epoch>>]
  <1>1. PICK v, a, s : v = view[w] /\ a = at[w] /\ s = v.writing
    OBVIOUS
  <1>2. ViewInv(v, a) /\ a \in Cursor \cup {NoCursor} /\ s # <<>>
    BY <1>1 DEF SplitInv, ConsumerInv
  <1>3. /\ v.open /\ a \in Cursor /\ AttachOf(a) = <<v.stream, v.epoch>>
        /\ Flow(v, a.seq, ends[<<v.stream, v.epoch>>])
    BY <1>1, <1>2 DEF ViewInv
  <1>4. s \in Seq(Frame) /\ Len(s) <= 1 /\ RunFrom(s, v.epoch, a.seq, ends[<<v.stream, v.epoch>>])
    BY <1>1, <1>2, <1>3, ViewFields DEF ViewInv, Flow
  <1>5. Len(s) = 1 /\ Head(s) = s[1] /\ s = <<s[1]>> /\ s[1] \in Frame /\ s[1].seq \in Nat
    <2>1. Len(s) \in Nat \ {0}
      BY <1>2, <1>4, EmptySeq, LenProperties
    <2>2. Len(s) = 1
      <3>1. PICK l \in Nat \ {0} : l = Len(s)
        BY <2>1
      <3>2. l <= 1 => l = 1
        OBVIOUS
      <3> QED BY <1>4, <3>1, <3>2
    <2> QED BY <1>4, <2>2, FrameFields, HeadTailProperties
  <1>6. a.seq \in Nat /\ a.stream = v.stream /\ a.epoch = v.epoch
    BY <1>3 DEF Cursor, AttachOf
  <1>7. /\ s[1].epoch = v.epoch /\ s[1].seq + 1 = a.seq + 1
        /\ s[1].kind # "lagged" => s[1].seq < ends[<<v.stream, v.epoch>>]
    BY <1>4, <1>5 DEF RunFrom
  <1>8. s[1].seq = a.seq
    BY <1>5, <1>6, <1>7
  <1> QED BY <1>1, <1>3, <1>5, <1>6, <1>7, <1>8

LEMMA DeliverEventStep ==
    ASSUME SplitInv, NEW w \in Watchers, DeliverEvent(w)
    PROVE  SplitInv'
  <1>1. PICK v, a, f : v = view[w] /\ a = at[w] /\ f = Head(view[w].writing)
    OBVIOUS
  <1>2. /\ ViewInv(v, a) /\ ConsumerInv(a, accepted[w], pending[w], gap[w]) /\ HubInv
        /\ f.kind # "lagged" /\ drops \in Nat
    BY <1>1 DEF SplitInv, DeliverEvent
  <1>3. /\ v.open /\ v.writing = <<f>> /\ f \in Frame /\ a \in Cursor
        /\ a.stream = v.stream /\ a.epoch = v.epoch
        /\ f.epoch = v.epoch /\ f.seq = a.seq
        /\ f.seq < ends[<<v.stream, v.epoch>>]
    BY <1>1, <1>2, HeldItem DEF DeliverEvent
  <1>0. PICK here : here = <<v.stream, v.epoch>>
    OBVIOUS
  <1>4. PICK m \in Nat, n \in Nat :
           here = <<v.stream, v.epoch>> /\ m = ends[here] /\ n = a.seq /\ n < m
    <2>1. <<v.stream, v.epoch>> \in Incarnations /\ a.seq \in Nat
      BY <1>3 DEF Cursor, Incarnations
    <2>2. ends[here] \in Nat
      BY <1>0, <1>2, <2>1 DEF HubInv
    <2> QED BY <1>0, <1>3, <2>1, <2>2
  <1>5. PICK c : c = [stream |-> v.stream, epoch |-> f.epoch, seq |-> f.seq + 1]
    OBVIOUS
  <1>6. c \in Cursor /\ c # NoCursor /\ AttachOf(c) = here /\ AttachOf(a) = here /\ c.seq = n + 1
    BY <1>3, <1>4, <1>5, NoCursorAssumption DEF Cursor, AttachOf
  <1>7. Happened(c)
    <2>1. NoLater(here, Now)
      BY <1>2, <1>3, <1>6, NoCursorAssumption DEF ConsumerInv, Happened
    <2> QED BY <1>4, <1>6, <2>1 DEF Happened
  <1>8. ConsumerInv(c, accepted[w], c, gap[w])
    BY <1>2, <1>6, <1>7 DEF ConsumerInv
  <1>9. PICK u : u = [v EXCEPT !.writing = <<>>, !.leased = FALSE]
    OBVIOUS
  <1>10. /\ u \in View /\ u.open = v.open /\ u.tx = v.tx /\ u.stream = v.stream
         /\ u.epoch = v.epoch /\ u.expect = v.expect
         /\ u.queue = v.queue /\ u.replay = v.replay /\ u.writing = <<>>
    <2>1. v \in View /\ <<>> \in Seq(Frame)
      BY <1>2 DEF ViewInv
    <2> HIDE DEF Frame
    <2> QED BY <1>9, <2>1 DEF View
  <1>11. PICK lr \in Nat, lq \in Nat : lr = Len(v.replay) /\ lq = Len(v.queue)
    BY <1>2, ViewFields DEF ViewInv
  <1>12. /\ RunFrom(v.replay, v.epoch, n + 1, m) /\ RunFrom(v.queue, v.epoch, n + 1 + lr, m)
         /\ v.tx => v.expect = n + 1 + lr + lq
    <2>1. Flow(v, n, m) /\ Len(v.writing) = 1
      BY <1>2, <1>3, <1>4 DEF ViewInv
    <2> QED BY <1>11, <2>1 DEF Flow
  <1>13. Flow(u, n + 1, m)
    <2>1. n + 1 + 0 = n + 1 /\ Len(<<>>) = 0 /\ RunFrom(<<>>, v.epoch, n + 1, m)
      BY DEF RunFrom
    <2>2. /\ u.writing = <<>> /\ u.replay = v.replay /\ u.queue = v.queue
          /\ u.epoch = v.epoch /\ u.tx = v.tx /\ u.expect = v.expect
      BY <1>10
    <2>3. /\ RunFrom(u.writing, u.epoch, n + 1, m)
          /\ RunFrom(u.replay, u.epoch, n + 1 + Len(u.writing), m)
          /\ Len(u.writing) <= 1
      BY <1>12, <2>1, <2>2
    <2>4. /\ RunFrom(u.queue, u.epoch, n + 1 + Len(u.writing) + Len(u.replay), m)
          /\ u.tx => u.expect = n + 1 + Len(u.writing) + Len(u.replay) + Len(u.queue)
      BY <1>11, <1>12, <2>1, <2>2
    <2> QED BY <2>3, <2>4 DEF Flow
  <1>14. Told(v) => Told(u)
    <2>1. v.queue \in Seq(Frame) /\ v.writing \in Seq(Frame)
      BY <1>2, ViewFields DEF ViewInv
    <2>2. u.writing \o u.queue = v.queue
      BY <1>10, <2>1, ConcatEmptySeq
    <2>3. CASE v.queue = <<>>
      <3>1. v.writing \o v.queue = <<f>>
        BY <1>3, <2>1, <2>3, ConcatEmptySeq
      <3>2. Last(<<f>>) = f
        BY DEF Last
      <3> QED BY <1>2, <3>1, <3>2 DEF Told
    <2>4. CASE v.queue # <<>>
      BY <2>1, <2>2, <2>4, LastOfConcat DEF Told
    <2> QED BY <2>3, <2>4
  <1>15. ViewInv(u, c)
    BY <1>2, <1>4, <1>6, <1>10, <1>13, <1>14 DEF ViewInv
  <1>16. /\ UNCHANGED hub /\ drops' \in Nat
         /\ view' = [view EXCEPT ![w] = u] /\ at' = [at EXCEPT ![w] = c]
         /\ accepted' = [accepted EXCEPT ![w] = accepted[w]]
         /\ pending' = [pending EXCEPT ![w] = c] /\ gap' = [gap EXCEPT ![w] = gap[w]]
    BY <1>1, <1>2, <1>5, <1>9 DEF DeliverEvent, SplitInv, IsWatcherState
  <1> QED BY <1>8, <1>15, <1>16, WatcherStep

LEMMA DeliverLaggedStep ==
    ASSUME SplitInv, NEW w \in Watchers, DeliverLagged(w)
    PROVE  SplitInv'
  <1>1. PICK f, c : /\ f = Head(view[w].writing)
                    /\ c = [stream |-> view[w].stream, epoch |-> f.epoch, seq |-> f.seq]
    OBVIOUS
  <1>2. /\ at[w] \in Cursor /\ at[w].stream = view[w].stream /\ at[w].epoch = view[w].epoch
        /\ f.epoch = view[w].epoch /\ f.seq = at[w].seq
    BY <1>1, HeldItem DEF DeliverLagged
  <1>3. c = at[w]
    BY <1>1, <1>2 DEF Cursor
  <1>4. /\ UNCHANGED <<hub, at, gap>> /\ drops' \in Nat
        /\ view' = [view EXCEPT ![w] = NoView]
        /\ accepted' = [accepted EXCEPT ![w] = c]
        /\ pending' = [pending EXCEPT ![w] = pending[w]]
    BY <1>1 DEF DeliverLagged, SplitInv, IsWatcherState
  <1> QED BY <1>3, <1>4, NoViewStep

LEMMA AcceptStep ==
    ASSUME SplitInv, NEW w \in Watchers, Accept(w)
    PROVE  SplitInv'
  <1>1. /\ ViewInv(view[w], at[w]) /\ ConsumerInv(at[w], accepted[w], pending[w], gap[w])
        /\ pending[w] # NoCursor
    BY DEF SplitInv, Accept
  <1>2. ConsumerInv(at[w], pending[w], NoCursor, gap[w])
    BY <1>1 DEF ConsumerInv
  <1>3. /\ UNCHANGED hub /\ drops' \in Nat
        /\ view' = [view EXCEPT ![w] = view[w]] /\ at' = [at EXCEPT ![w] = at[w]]
        /\ accepted' = [accepted EXCEPT ![w] = pending[w]]
        /\ pending' = [pending EXCEPT ![w] = NoCursor]
        /\ gap' = [gap EXCEPT ![w] = gap[w]]
    BY DEF Accept, SplitInv, IsWatcherState
  <1> QED BY <1>1, <1>2, <1>3, WatcherStep

LEMMA LeaveStep ==
    ASSUME SplitInv, NEW w \in Watchers, StreamEnds(w) \/ Drop(w) \/ Restart(w)
    PROVE  SplitInv'
  <1>1. /\ UNCHANGED <<hub, at, gap>> /\ drops' \in Nat
        /\ view' = [view EXCEPT ![w] = NoView]
        /\ accepted' = [accepted EXCEPT ![w] = accepted[w]]
    BY DEF StreamEnds, Drop, Restart, SplitInv, IsWatcherState, consumer
  <1>2. \E p \in {pending[w], NoCursor} : pending' = [pending EXCEPT ![w] = p]
    BY DEF StreamEnds, Drop, Restart, SplitInv, IsWatcherState, consumer
  <1> QED BY <1>1, <1>2, NoViewStep

-----------------------------------------------------------------------------
LEMMA NextKeepsInvariant == SplitInv /\ [Next]_vars => SplitInv'
  <1> SUFFICES ASSUME SplitInv, [Next]_vars PROVE SplitInv'
    OBVIOUS
  <1>1. ASSUME NEW size \in Sizes, NEW reported \in Sources, Publish(size, reported)
        PROVE  SplitInv'
    <2>1. size \in Nat /\ reported \in Nat
      BY HubAssumption
    <2> QED BY <1>1, <2>1, PublishStep
  <1>2. CASE Attach
    BY <1>2, AttachStep
  <1>3. CASE CloseSession
    BY <1>3, CloseStep
  <1>4. CASE OpenSession
    BY <1>4, OpenStep
  <1>5. ASSUME NEW w \in Watchers, Watcher(w) \/ Drop(w) \/ Restart(w)
        PROVE  SplitInv'
    BY <1>5, SubscribeStep, RecvStep, DeliverEventStep, DeliverLaggedStep, AcceptStep, LeaveStep
       DEF Watcher
  <1>6. CASE UNCHANGED vars
    BY <1>6 DEF vars, hub, consumer, SplitInv, HubInv, IsWatcherState, ViewInv, ConsumerInv,
                WindowIsDense, HistoryOK, Now, LiveAt, Happened
  <1> QED BY <1>1, <1>2, <1>3, <1>4, <1>5, <1>6 DEF Next

(* Every reachable state of a session's hub, its watchers and its consumers *)
(* satisfies the inductive invariant.                                      *)
THEOREM HubInvariant == Spec => []IInv
  <1>1. Init => SplitInv
    BY InitIsInvariant
  <1>2. SplitInv /\ [Next]_vars => SplitInv'
    BY NextKeepsInvariant
  <1>3. SplitInv => IInv
    BY SplitIsIInv
  <1> QED BY <1>1, <1>2, <1>3, PTL DEF Spec

(* Every variable of the hub keeps its type.                               *)
THEOREM HubTypeCorrect == Spec => []TypeOK
  BY HubInvariant, PTL DEF IInv

(* The window is always the dense run of positions that ends at the live    *)
(* boundary (ReplayRing::push, Sequencer::stamp), for every size of window. *)
THEOREM WindowStaysDense == Spec => []WindowIsDense
  BY HubInvariant, PTL DEF IInv

(* A subscriber the fan-out holds expects the next frame the sequencer will *)
(* stamp: `offer` retires a watcher only for room or size.                 *)
THEOREM SubscribersStayAligned == Spec => []SubscribersExpectLive
  BY HubInvariant, PTL DEF IInv

(* A watcher retired by the fan-out always finds the lag item at the end of *)
(* what it has left to read, for every queue length and byte budget.       *)
THEOREM LagIsAlwaysTold == Spec => []LagIsTold
  BY HubInvariant, PTL DEF IInv

-----------------------------------------------------------------------------
(* The hub implements the watch it promises.                                *)

LEMMA PublishIsAbsPublish ==
    ASSUME SplitInv, NEW size \in Nat, NEW reported \in Nat, Publish(size, reported)
    PROVE  Promise!AbsPublish
  <1>1. HubInv /\ ends[Now] = next /\ Now = <<stream, epoch>> /\ next \in Nat
    BY DEF SplitInv, HubInv, HistoryOK, Now
  <1>2. \E n \in 1 .. 2 : next' = next + n
    BY <1>1 DEF Publish
  <1>3. \E n \in 1 .. 2 : ends' = [ends EXCEPT ![<<stream, epoch>>] = @ + n]
    BY <1>1, <1>2 DEF Publish
  <1> QED BY <1>3 DEF Publish, consumer, Promise!AbsPublish

LEMMA LaterAttachIsAbsAttach ==
    ASSUME SplitInv, Attach \/ OpenSession
    PROVE  Promise!AbsAttach
  <1>1. /\ stream \in 1 .. MaxStreams /\ epoch \in 0 .. MaxEpochs
        /\ MaxStreams \in Nat /\ MaxEpochs \in Nat
    BY HubAssumption DEF SplitInv, HubInv
  <1>2. PICK i : i = <<stream', epoch'>>
    OBVIOUS
  <1>3. /\ i \in Incarnations
        /\ \/ i[1] > <<stream, epoch>>[1]
           \/ i[1] = <<stream, epoch>>[1] /\ i[2] > <<stream, epoch>>[2]
    BY <1>1, <1>2 DEF Attach, OpenSession, Incarnations
  <1> QED BY <1>2, <1>3 DEF Attach, OpenSession, consumer, Promise!AbsAttach

LEMMA SubscribeIsAbsStep ==
    ASSUME SplitInv, NEW w \in Watchers, Subscribe(w)
    PROVE  Promise!AbsStart(w) \/ Promise!AbsResume(w) \/ Promise!AbsGap(w)
  <1>1. PICK c, a : c = accepted[w] /\ a = Answer(c)
    OBVIOUS
  <1>2. HubInv /\ ConsumerInv(at[w], c, pending[w], gap[w])
    BY <1>1 DEF SplitInv
  <1>3. AnswerOutcome(c, a)
    <2>1. TypeOK /\ WindowIsDense
      BY SplitIsIInv DEF IInv
    <2>2. c # NoCursor /\ AttachOf(c) = Now => c.seq <= next
      BY <1>2 DEF ConsumerInv, Happened, HubInv, HistoryOK
    <2> QED BY <1>1, <1>2, <2>1, <2>2, AnswerIsExact DEF ConsumerInv
  <1>4. PICK n \in Nat : n = a.at.seq
    BY <1>3 DEF AnswerOutcome, Cursor
  <1>5. n \in 0 .. ends[<<stream, epoch>>]
    <2>1. n + Len(a.replay) = next /\ Len(a.replay) \in Nat /\ next \in Nat
      BY <1>2, <1>3, <1>4, LenProperties DEF AnswerOutcome, HubInv
    <2>2. ends[<<stream, epoch>>] = next
      BY <1>2 DEF HubInv, HistoryOK, Now
    <2> QED BY <2>1, <2>2
  <1>6. a.at = Promise!Boundary(<<stream, epoch>>, n)
    BY <1>3, <1>4 DEF AnswerOutcome, Promise!Boundary, Cursor, AttachOf, Now
  <1>7. /\ at' = [at EXCEPT ![w] = a.at] /\ gap' = [gap EXCEPT ![w] = a.gap]
        /\ <<stream, epoch>>' = <<stream, epoch>> /\ ends' = ends /\ accepted' = accepted
    BY <1>1 DEF Subscribe, hub
  <1>8. CASE a.gap = NoCursor /\ c = NoCursor
    BY <1>1, <1>5, <1>6, <1>7, <1>8 DEF Promise!AbsStart
  <1>9. CASE a.gap = NoCursor /\ c # NoCursor /\ c = a.at
    <2>1. Promise!Of(c) = <<stream, epoch>>
      BY <1>3, <1>9 DEF AnswerOutcome, Promise!Of, AttachOf, Now
    <2> QED BY <1>1, <1>7, <1>9, <2>1 DEF Promise!AbsResume
  <1>10. CASE /\ c # NoCursor /\ a.gap = [requested |-> c, liveAt |-> a.at]
              /\ AttachOf(c) = Now => a.at.seq > c.seq
    <2>1. Promise!Of(c) = <<stream, epoch>> => n > c.seq
      BY <1>4, <1>10 DEF Promise!Of, AttachOf, Now
    <2> QED BY <1>1, <1>5, <1>6, <1>7, <1>10, <2>1 DEF Promise!AbsGap
  <1> QED BY <1>3, <1>8, <1>9, <1>10 DEF AnswerOutcome

LEMMA DeliverEventIsAbsDeliver ==
    ASSUME SplitInv, NEW w \in Watchers, DeliverEvent(w)
    PROVE  Promise!AbsDeliver(w)
  <1>1. PICK f, a : f = Head(view[w].writing) /\ a = at[w]
    OBVIOUS
  <1>2. /\ a \in Cursor /\ a.stream = view[w].stream /\ a.epoch = view[w].epoch
        /\ f.epoch = view[w].epoch /\ f.seq = a.seq
        /\ f.seq < ends[<<view[w].stream, view[w].epoch>>]
    BY <1>1, HeldItem DEF DeliverEvent
  <1>3. a # NoCursor /\ a.seq < ends[Promise!Of(a)]
    BY <1>2, NoCursorAssumption DEF Promise!Of
  <1>4. [stream |-> view[w].stream, epoch |-> f.epoch, seq |-> f.seq + 1]
          = [a EXCEPT !.seq = a.seq + 1]
    BY <1>2 DEF Cursor
  <1>5. at' = [at EXCEPT ![w].seq = @ + 1]
    BY <1>1, <1>4 DEF DeliverEvent
  <1> QED BY <1>1, <1>3, <1>5 DEF DeliverEvent, hub, Promise!AbsDeliver

LEMMA AcceptIsAbsAccept ==
    ASSUME SplitInv, NEW w \in Watchers, Accept(w) \/ DeliverLagged(w)
    PROVE  Promise!AbsAccept(w)
  <1>1. CASE Accept(w)
    <2>1. pending[w] = at[w]
      BY <1>1 DEF SplitInv, ConsumerInv, Accept
    <2> QED BY <1>1, <2>1 DEF Accept, hub, Promise!AbsAccept
  <1>2. CASE DeliverLagged(w)
    <2>1. PICK f, c : /\ f = Head(view[w].writing)
                      /\ c = [stream |-> view[w].stream, epoch |-> f.epoch, seq |-> f.seq]
      OBVIOUS
    <2>2. c = at[w]
      <3>1. /\ at[w] \in Cursor /\ at[w].stream = view[w].stream /\ at[w].epoch = view[w].epoch
            /\ f.epoch = view[w].epoch /\ f.seq = at[w].seq
        BY <1>2, <2>1, HeldItem DEF DeliverLagged
      <3> QED BY <2>1, <3>1 DEF Cursor
    <2> QED BY <1>2, <2>1, <2>2 DEF DeliverLagged, hub, Promise!AbsAccept
  <1> QED BY <1>1, <1>2

LEMMA StepImplementsPromise ==
    SplitInv /\ [Next]_vars => [Promise!AbsNext]_(Promise!absVars)
  <1> SUFFICES ASSUME SplitInv, [Next]_vars
               PROVE  Promise!AbsNext \/ UNCHANGED Promise!absVars
    OBVIOUS
  <1>1. ASSUME NEW size \in Sizes, NEW reported \in Sources, Publish(size, reported)
        PROVE  Promise!AbsNext
    <2>1. size \in Nat /\ reported \in Nat
      BY HubAssumption
    <2> QED BY <1>1, <2>1, PublishIsAbsPublish DEF Promise!AbsNext
  <1>2. CASE Attach \/ OpenSession
    BY <1>2, LaterAttachIsAbsAttach DEF Promise!AbsNext
  <1>3. CASE CloseSession
    BY <1>3 DEF CloseSession, consumer, Promise!absVars
  <1>4. ASSUME NEW w \in Watchers, Watcher(w) \/ Drop(w) \/ Restart(w)
        PROVE  Promise!AbsNext \/ UNCHANGED Promise!absVars
    <2>1. CASE Subscribe(w)
      BY <2>1, SubscribeIsAbsStep DEF Promise!AbsNext
    <2>2. CASE DeliverEvent(w)
      BY <2>2, DeliverEventIsAbsDeliver DEF Promise!AbsNext
    <2>3. CASE Accept(w) \/ DeliverLagged(w)
      BY <2>3, AcceptIsAbsAccept DEF Promise!AbsNext
    <2>4. CASE Recv(w) \/ StreamEnds(w) \/ Drop(w) \/ Restart(w)
      BY <2>4 DEF Recv, StreamEnds, Drop, Restart, hub, consumer, Promise!absVars
    <2> QED BY <1>4, <2>1, <2>2, <2>3, <2>4 DEF Watcher
  <1>5. CASE UNCHANGED vars
    BY <1>5 DEF vars, hub, consumer, Promise!absVars
  <1> QED BY <1>1, <1>2, <1>3, <1>4, <1>5 DEF Next

(* Events are neither skipped in silence nor shown again once accepted: the *)
(* hub, its bounded queues and window, lost connections and restarts of the *)
(* consumer implement the abstract watch, for every value of the limits.   *)
THEOREM HubImplementsWatch == Spec => WatchPromise
  <1>1. Init => Promise!AbsInit
    <2>1. Init => <<stream, epoch>> \in Incarnations
      BY HubAssumption DEF Init, Incarnations
    <2> QED BY <2>1 DEF Init, Promise!AbsInit
  <1>2. Init => SplitInv
    BY InitIsInvariant
  <1>3. SplitInv /\ [Next]_vars => SplitInv'
    BY NextKeepsInvariant
  <1>4. SplitInv /\ [Next]_vars => [Promise!AbsNext]_(Promise!absVars)
    BY StepImplementsPromise
  <1> QED BY <1>1, <1>2, <1>3, <1>4, PTL DEF Spec, WatchPromise, Promise!AbsSpec

-----------------------------------------------------------------------------
(* A subscription is replayed what the window retains beyond its boundary.  *)

LEMMA FramesAreRetained ==
    ASSUME NEW r \in Seq(Frame), MarkerIsOldest(r)
    PROVE  /\ \A j \in 1 .. Len(Frames(r)) : \E i \in 1 .. Len(r) :
                 r[i].kind # "lost" /\ Frames(r)[j] = r[i]
           /\ \A i \in 1 .. Len(r) : r[i].kind # "lost" =>
                 \E j \in 1 .. Len(Frames(r)) : Frames(r)[j] = r[i]
  <1>1. CASE r # <<>> /\ Head(r).kind = "lost"
    <2>1. PICK l \in Nat \ {0} : l = Len(r)
      BY <1>1, EmptySeq
    <2>2. PICK t : t = Frames(r)
      OBVIOUS
    <2>3. /\ r[1].kind = "lost"
          /\ Len(t) = l - 1
          /\ \A i \in 1 .. l - 1 : t[i] = r[i + 1]
      BY <1>1, <2>1, <2>2, HeadTailProperties DEF Frames
    <2>4. ASSUME NEW j \in 1 .. l - 1
          PROVE  j + 1 \in 1 .. l /\ r[j + 1].kind # "lost" /\ t[j] = r[j + 1]
      <3>1. j + 1 \in 1 .. l /\ j + 1 # 1
        BY <2>1
      <3> QED BY <2>1, <2>3, <3>1 DEF MarkerIsOldest
    <2>5. ASSUME NEW i \in 1 .. l, r[i].kind # "lost"
          PROVE  i - 1 \in 1 .. l - 1 /\ t[i - 1] = r[i]
      <3>1. i # 1
        BY <2>3, <2>5
      <3>2. i - 1 \in 1 .. l - 1 /\ (i - 1) + 1 = i
        BY <2>1, <3>1
      <3> QED BY <2>3, <3>2
    <2> QED BY <2>1, <2>2, <2>3, <2>4, <2>5
  <1>2. CASE ~(r # <<>> /\ Head(r).kind = "lost")
    <2>1. Frames(r) = r
      BY <1>2 DEF Frames
    <2>2. \A i \in 1 .. Len(r) : r[i].kind # "lost"
      BY <1>2, EmptySeq, HeadTailProperties DEF MarkerIsOldest
    <2> QED BY <2>1, <2>2
  <1> QED BY <1>1, <1>2

\* A retained frame: an entry of the window that is not the loss marker.
IsRetained(f) == \E i \in DOMAIN ring : ring[i].kind # "lost" /\ f = ring[i]

\* The replay of an answer is taken from the window, and what the window
\* retains before its boundary is what the consumer asked to resume after.
FromWindow(c, a) ==
    /\ \A j \in DOMAIN a.replay : IsRetained(a.replay[j])
    /\ (c = NoCursor \/ c # a.at) =>
          \A i \in DOMAIN ring : ring[i].kind # "lost" => ring[i].seq >= a.at.seq

LEMMA AnswerIsFromWindow ==
    ASSUME TypeOK, WindowIsDense, NEW c \in Cursor \cup {NoCursor}
    PROVE  FromWindow(c, Answer(c))
  <1>1. ring \in Seq(Frame) /\ next \in Nat /\ epoch \in 0 .. MaxEpochs /\ stream \in 1 .. MaxStreams
    BY DEF TypeOK
  <1>2. DenseUpTo(ring, epoch, next) /\ MarkerIsOldest(ring) /\ DOMAIN ring = 1 .. Len(ring)
    BY <1>1, WindowFacts
  <1>3. PICK h : h = Frames(ring)
    OBVIOUS
  <1>4. /\ h \in Seq(Frame) /\ DenseUpTo(h, epoch, next) /\ DOMAIN h = 1 .. Len(h)
        /\ h # <<>> => Head(h).seq \in Nat /\ Head(h).seq + Len(h) = next
    BY <1>1, <1>2, <1>3, FramesAreDense
  <1>5. /\ \A j \in 1 .. Len(h) : IsRetained(h[j])
        /\ \A i \in 1 .. Len(ring) : ring[i].kind # "lost" =>
              \E j \in 1 .. Len(h) : h[j] = ring[i]
    <2>1. /\ \A j \in 1 .. Len(h) : \E i \in 1 .. Len(ring) :
                ring[i].kind # "lost" /\ h[j] = ring[i]
          /\ \A i \in 1 .. Len(ring) : ring[i].kind # "lost" =>
                \E j \in 1 .. Len(h) : h[j] = ring[i]
      BY <1>1, <1>2, <1>3, FramesAreRetained
    <2> QED BY <1>2, <2>1, Zenon DEF IsRetained
  <1>6. PICK b \in Nat : b + Len(h) = next /\ StartOf(h).seq = b /\ (h # <<>> => b = Head(h).seq)
    <2>1. CASE h = <<>>
      <3>1. next + Len(h) = next
        BY <1>1, <2>1
      <3> QED BY <1>1, <2>1, <3>1 DEF StartOf, LiveAt
    <2>2. CASE h # <<>>
      BY <1>4, <2>2 DEF StartOf
    <2> QED BY <2>1, <2>2
  <1>7. ASSUME NEW i \in DOMAIN ring, ring[i].kind # "lost"
        PROVE  ring[i].seq >= StartOf(h).seq
    <2>1. PICK j \in 1 .. Len(h) : h[j] = ring[i]
      BY <1>2, <1>5, <1>7
    <2>2. h[j].seq + 1 = b + j /\ h[j].seq \in Nat
      BY <1>1, <1>4, <1>6, DenseIsRun, FrameFields DEF RunFrom
    <2>3. j >= 1 /\ j \in Nat
      BY <1>4
    <2> QED BY <1>6, <2>1, <2>2, <2>3
  \* Everything the window retains is replayed.
  <1>8. ASSUME NEW a, a.replay = h, a.at = StartOf(h)
        PROVE  FromWindow(c, a)
    BY <1>4, <1>5, <1>7, <1>8 DEF FromWindow
  <1>9. CASE c = NoCursor
    <2>1. Answer(c) = [replay |-> h, at |-> StartOf(h), gap |-> NoCursor]
      BY <1>3, <1>9 DEF Answer
    <2> QED BY <1>8, <2>1
  <1>10. CASE c # NoCursor /\ Reach(ring, c, LiveAt) = "upToDate"
    <2>1. Answer(c) = [replay |-> <<>>, at |-> LiveAt, gap |-> NoCursor]
      BY <1>10 DEF Answer
    <2>2. c = LiveAt
      BY <1>10 DEF Reach, LiveAt, Cursor
    <2> QED BY <1>10, <2>1, <2>2 DEF FromWindow
  <1>11. CASE c # NoCursor /\ Reach(ring, c, LiveAt) = "held"
    <2>1. c \in Cursor /\ c.seq \in Nat
      BY <1>11 DEF Cursor
    <2>2. /\ ~(c.seq > next) /\ c.seq # next
          /\ h # <<>> /\ Head(h).seq <= c.seq
      BY <1>3, <1>11 DEF Reach, LiveAt
    <2>3. PICK k \in Nat : k = 1 + c.seq - b
      BY <1>6, <2>1, <2>2
    <2>4. Answer(c) = [replay |-> From(h, k), at |-> c, gap |-> NoCursor]
      BY <1>3, <1>6, <1>11, <2>2, <2>3 DEF Answer, FramesFrom
    <2>5. PICK l \in Nat : l = Len(h)
      BY <1>4, LenProperties
    <2>6. k \in 1 .. l + 1
      <3>1. PICK q \in Nat : q = c.seq
        BY <2>1
      <3>2. b + l = next /\ b <= q /\ q < next /\ k = 1 + q - b
        BY <1>1, <1>6, <2>2, <2>3, <2>5, <3>1
      <3> QED BY <1>1, <3>2
    <2>7. /\ From(h, k) \in Seq(Frame) /\ Len(From(h, k)) = l - k + 1
          /\ \A j \in 1 .. l - k + 1 : From(h, k)[j] = h[k + j - 1]
      BY <1>4, <2>5, <2>6, FromIsSuffix
    <2>8. ASSUME NEW j \in 1 .. l - k + 1
          PROVE  IsRetained(From(h, k)[j])
      <3>1. k + j - 1 \in 1 .. l
        BY <2>6
      <3> QED BY <1>5, <2>5, <2>7, <3>1
    <2>9. DOMAIN From(h, k) = 1 .. l - k + 1
      BY <2>7
    <2> QED BY <1>11, <2>4, <2>8, <2>9 DEF FromWindow
  <1>12. CASE c # NoCursor /\ Reach(ring, c, LiveAt) \notin {"upToDate", "held"}
    <2>1. Answer(c) = [replay |-> h, at |-> StartOf(h),
                       gap |-> [requested |-> c, liveAt |-> StartOf(h)]]
      BY <1>3, <1>12 DEF Answer
    <2> QED BY <1>8, <2>1
  <1> QED BY <1>9, <1>10, <1>11, <1>12

\* What a subscription of w is answered, and what the answer is made of.
LEMMA SubscriptionAnswer ==
    ASSUME SplitInv, NEW w \in Watchers
    PROVE  /\ accepted[w] \in Cursor \cup {NoCursor}
           /\ AnswerOutcome(accepted[w], Answer(accepted[w]))
           /\ FromWindow(accepted[w], Answer(accepted[w]))
  <1>1. HubInv /\ ConsumerInv(at[w], accepted[w], pending[w], gap[w])
    BY DEF SplitInv
  <1>2. TypeOK /\ WindowIsDense
    BY SplitIsIInv DEF IInv
  <1>3. PICK c : c = accepted[w]
    OBVIOUS
  <1>4. c \in Cursor \cup {NoCursor}
    BY <1>1, <1>3 DEF ConsumerInv
  <1>5. c # NoCursor /\ AttachOf(c) = Now => c.seq <= next
    BY <1>1, <1>3 DEF ConsumerInv, Happened, HubInv, HistoryOK
  <1> QED BY <1>2, <1>3, <1>4, <1>5, AnswerIsExact, AnswerIsFromWindow

\* Only answering its subscription opens a view.
LEMMA OnlySubscribeOpens ==
    ASSUME SplitInv, [Next]_vars, NEW w \in Watchers, Subscribing(w)
    PROVE  Subscribe(w)
  <1>1. IsWatcherState(view) /\ ~view[w].open /\ ~view[w].tx /\ view'[w].open
    BY DEF SplitInv, Subscribing, ViewInv
  <1>2. view'[w] # view[w]
    BY <1>1
  <1>3. ASSUME NEW size \in Sizes, NEW reported \in Sources, Publish(size, reported)
        PROVE  FALSE
    <2>1. \A f : Offer(view[w], f) = view[w]
      BY <1>1 DEF Offer
    <2> QED BY <1>2, <1>3, <2>1 DEF Publish
  <1>4. CASE Attach \/ CloseSession
    <2>1. view'[w] = [view[w] EXCEPT !.tx = FALSE]
      BY <1>4 DEF Attach, CloseSession, Closed
    <2>2. view[w] \in View
      BY DEF SplitInv, ViewInv
    <2>3. view'[w].open = view[w].open
      BY <2>1, <2>2 DEF View
    <2> QED BY <1>1, <2>3
  <1>5. CASE OpenSession
    BY <1>2, <1>5 DEF OpenSession
  <1>6. ASSUME NEW x \in Watchers, Watcher(x) \/ Drop(x) \/ Restart(x)
        PROVE  x = w /\ Subscribe(x)
    <2>1. CASE x # w
      <3>1. view'[w] = view[w]
        BY <1>1, <1>6, <2>1 DEF Watcher, Subscribe, Recv, StreamEnds, DeliverEvent,
              DeliverLagged, Accept, Drop, Restart, IsWatcherState
      <3> QED BY <1>2, <3>1
    <2>2. CASE x = w
      <3>1. view[w] \in View
        BY DEF SplitInv, ViewInv
      <3>2. ~Recv(w)
        BY <1>1 DEF Recv
      <3>3. ~StreamEnds(w) /\ ~Drop(w)
        BY <1>1 DEF StreamEnds, Drop
      <3>4. view[w].writing = <<>>
        BY <1>1 DEF SplitInv, ViewInv
      <3>5. ~DeliverEvent(w) /\ ~DeliverLagged(w)
        BY <3>4 DEF DeliverEvent, DeliverLagged
      <3>6. ~Accept(w)
        BY <1>2 DEF Accept
      <3>7. ~Restart(w)
        BY <1>1 DEF Restart, IsWatcherState, NoView
      <3> QED BY <1>6, <2>2, <3>2, <3>3, <3>5, <3>6, <3>7 DEF Watcher
    <2> QED BY <2>1, <2>2
  <1>7. CASE UNCHANGED vars
    BY <1>2, <1>7 DEF vars
  <1> QED BY <1>3, <1>4, <1>5, <1>6, <1>7 DEF Next

\* The positions of a replay that starts at n and ends at the live boundary.
LEMMA ReplayPositions ==
    ASSUME NEW s \in Seq(Frame), NEW n \in Nat, NEW m \in Nat, n + Len(s) = m,
           RunFrom(s, epoch, n, m)
    PROVE  /\ Len(s) = m - n
           /\ DOMAIN s = 1 .. Len(s)
           /\ \A i \in DOMAIN s : s[i].epoch = epoch /\ s[i].seq = n + i - 1
           /\ \A q \in n .. m - 1 : \E i \in DOMAIN s : s[i].seq = q
  <1>1. PICK l \in Nat : l = Len(s) /\ DOMAIN s = 1 .. l
    BY LenProperties
  <1>2. ASSUME NEW i \in 1 .. l
        PROVE  s[i].epoch = epoch /\ s[i].seq = n + i - 1
    <2>1. s[i].epoch = epoch /\ s[i].seq + 1 = n + i /\ s[i].seq \in Nat
      BY <1>1, <1>2, FrameFields DEF RunFrom
    <2> QED BY <2>1
  <1>3. ASSUME NEW q \in n .. m - 1
        PROVE  \E i \in 1 .. l : s[i].seq = q
    <2>1. q - n + 1 \in 1 .. l /\ n + (q - n + 1) - 1 = q
      BY <1>1
    <2> QED BY <1>2, <2>1
  <1>4. Len(s) = m - n
    BY <1>1
  <1> QED BY <1>1, <1>2, <1>3, <1>4

LEMMA SubscribeIsExact ==
    ASSUME SplitInv, NEW w \in Watchers, Subscribe(w)
    PROVE  ResumedExactly(w) /\ ShownAllRetained(w)
  <1>1. PICK c, a : c = accepted[w] /\ a = Answer(c)
    OBVIOUS
  <1>2. c \in Cursor \cup {NoCursor} /\ AnswerOutcome(c, a) /\ FromWindow(c, a)
    BY <1>1, SubscriptionAnswer
  <1>3. view'[w].replay = a.replay /\ gap'[w] = a.gap
    BY <1>1 DEF Subscribe, SplitInv, IsWatcherState
  <1>4. PICK s \in Seq(Frame), n \in Nat, m \in Nat :
           s = a.replay /\ n = a.at.seq /\ m = next
    BY <1>2 DEF AnswerOutcome, Cursor, SplitInv, HubInv
  <1>5. RunFrom(s, epoch, n, m) /\ n + Len(s) = m /\ AttachOf(a.at) = Now /\ a.at \in Cursor
    BY <1>2, <1>4 DEF AnswerOutcome
  <1>6. /\ Len(s) = m - n
        /\ \A i \in DOMAIN s : s[i].epoch = epoch /\ s[i].seq = n + i - 1
        /\ \A q \in n .. m - 1 : \E i \in DOMAIN s : s[i].seq = q
    <2>1. s \in Seq(Frame) /\ n \in Nat /\ m \in Nat /\ n + Len(s) = m /\ RunFrom(s, epoch, n, m)
      BY <1>5
    <2> QED BY ONLY <2>1, ReplayPositions
  <1>7. /\ ring \in Seq(Frame) /\ DOMAIN ring = 1 .. Len(ring)
        /\ DenseUpTo(ring, epoch, next)
    BY WindowFacts DEF SplitInv, HubInv
  <1>8. ASSUME NEW i \in DOMAIN ring
        PROVE  /\ ring[i].epoch = epoch /\ ring[i].seq \in Nat /\ ring[i].seq < m
               /\ \A j \in DOMAIN ring : ring[j].seq = ring[i].seq => j = i
    <2>1. PICK l \in Nat : l = Len(ring)
      BY <1>7, LenProperties
    <2>2. \A j \in 1 .. l : /\ ring[j].epoch = epoch /\ ring[j].seq \in Nat
                            /\ ring[j].seq + l + 1 = m + j
      BY <1>4, <1>7, <2>1, FrameFields DEF DenseUpTo
    <2>3. ASSUME NEW j \in 1 .. l, NEW q \in Nat, q + l + 1 = m + j
          PROVE  q < m /\ j = q + l + 1 - m
      BY <2>3
    <2> QED BY <1>7, <2>1, <2>2, <2>3
  \* A retained frame at or after the boundary is in the replay.
  <1>9. ASSUME NEW i \in DOMAIN ring, ring[i].seq >= n
        PROVE  \E j \in DOMAIN s : s[j] = ring[i]
    <2>1. ring[i].seq \in n .. m - 1
      BY <1>8, <1>9
    <2>2. PICK j \in DOMAIN s : s[j].seq = ring[i].seq
      BY <1>6, <2>1
    <2>3. PICK k \in DOMAIN ring : s[j] = ring[k]
      BY <1>2, <1>4 DEF FromWindow, IsRetained
    <2> QED BY <1>8, <2>2, <2>3
  <1>10. ASSUME NEW i \in DOMAIN ring, ring[i].kind # "lost",
                ~(\E j \in DOMAIN s : s[j] = ring[i])
         PROVE  c # NoCursor /\ AttachOf(c) = Now /\ ring[i].seq < c.seq
    <2>1. ring[i].seq < n
      BY <1>8, <1>9, <1>10
    <2>2. c # NoCursor /\ c = a.at
      BY <1>2, <1>4, <1>8, <1>10, <2>1 DEF FromWindow
    <2> QED BY <1>4, <1>5, <2>1, <2>2
  <1>11. \A i \in DOMAIN ring :
            \/ ring[i].kind = "lost"
            \/ c # NoCursor /\ <<c.stream, c.epoch>> = <<stream, epoch>> /\ ring[i].seq < c.seq
            \/ \E j \in DOMAIN s : s[j] = ring[i]
    BY <1>10 DEF AttachOf, Now
  <1>12. ASSUME c # NoCursor, a.gap = NoCursor
         PROVE  /\ AttachOf(c) = Now /\ c.seq = n
                /\ \A q \in c.seq .. next - 1 : Retains(q)
    <2>1. c = a.at
      <3>1. [requested |-> c, liveAt |-> a.at] \in [requested : Cursor, liveAt : Cursor]
        BY <1>2, <1>5, <1>12
      <3> QED BY <1>2, <1>12, <3>1, NoCursorAssumption DEF AnswerOutcome
    <2>2. ASSUME NEW q \in n .. m - 1
          PROVE  Retains(q)
      <3>1. PICK i \in DOMAIN s : s[i].seq = q /\ s[i].epoch = epoch
        BY <1>6
      <3> QED BY <1>2, <1>4, <3>1 DEF FromWindow, IsRetained, Retains
    <2> QED BY <1>4, <1>5, <2>1, <2>2
  <1>13. ASSUME c # NoCursor, AttachOf(c) = Now, a.gap # NoCursor
         PROVE  c.seq \in c.seq .. next - 1 /\ ~Retains(c.seq)
    <2>1. a.at.seq > c.seq
      BY <1>2, <1>13 DEF AnswerOutcome
    <2>2. c.seq \in Nat /\ c.seq < n /\ n <= m
      BY <1>2, <1>4, <1>5, <1>13, <2>1, LenProperties DEF Cursor
    <2>3. c # a.at
      BY <1>4, <2>2
    <2>4. \A i \in DOMAIN ring : ring[i].kind # "lost" => ring[i].seq >= n
      BY <1>2, <1>4, <2>3 DEF FromWindow
    <2>5. ~Retains(c.seq)
      BY <2>2, <2>4 DEF Retains
    <2> QED BY <1>4, <2>2, <2>5
  <1>14. c # NoCursor => (a.gap = NoCursor <=> /\ AttachOf(c) = Now
                                               /\ \A q \in c.seq .. next - 1 : Retains(q))
    BY <1>12, <1>13
  <1>15. ASSUME c # NoCursor, a.gap = NoCursor
         PROVE  /\ Len(s) = next - c.seq
                /\ \A i \in DOMAIN s : s[i].seq = c.seq + i - 1
    BY <1>4, <1>6, <1>12, <1>15
  <1>16. AttachOf(c) = <<c.stream, c.epoch>> /\ Now = <<stream, epoch>>
    BY DEF AttachOf, Now
  <1>17. ResumedExactly(w)
    BY <1>1, <1>3, <1>4, <1>14, <1>15, <1>16 DEF ResumedExactly
  <1>18. ShownAllRetained(w)
    BY <1>1, <1>3, <1>4, <1>11 DEF ShownAllRetained
  <1> QED BY <1>17, <1>18

(* A reconnecting consumer is shown exactly what the window retains beyond  *)
(* what it accepted, and a gap is announced exactly when something of that  *)
(* is missing (SessionHub::view, ReplayRing::reach and frames_from).        *)
THEOREM ResumesAreExact == Spec => ReplayIsExact
  <1>1. Init => SplitInv
    BY InitIsInvariant
  <1>2. SplitInv /\ [Next]_vars => SplitInv'
    BY NextKeepsInvariant
  <1>3. SplitInv /\ [Next]_vars =>
          [\A w \in Watchers : Subscribing(w) =>
              ResumedExactly(w) /\ ShownAllRetained(w)]_vars
    BY OnlySubscribeOpens, SubscribeIsExact
  <1> QED BY <1>1, <1>2, <1>3, PTL DEF Spec, ReplayIsExact

-----------------------------------------------------------------------------
(* The bytes a sequence of items holds.                                     *)

\* The partial sums of s, as the recursion of BytesIn defines them.
SumsOf(s, g) ==
    /\ g \in [0 .. Len(s) -> Nat]
    /\ g[0] = 0
    /\ \A i \in 1 .. Len(s) : g[i] = g[i - 1] + Retained(s[i])

\* A set of naturals that holds 0, and n + 1 below k whenever n, holds 0 .. k.
LEMMA UpTo ==
    ASSUME NEW k \in Nat, NEW T \in SUBSET Nat, 0 \in T,
           \A n \in Nat : n \in T /\ n < k => n + 1 \in T
    PROVE  \A n \in 0 .. k : n \in T
  <1> DEFINE Missing == {n \in 0 .. k : n \notin T}
             Below == OpToRel(<, Nat)
  <1>1. IsWellFoundedOn(Below, Nat)
    BY NatLessThanWellFounded, Zenon
  <1>2. \A j, n \in Nat : j < n => <<j, n>> \in Below
    BY DEF OpToRel
  <1> HIDE DEF Below
  <1>3. ASSUME Missing # {}
        PROVE  FALSE
    <2>1. Missing \subseteq Nat
      OBVIOUS
    <2> HIDE DEF Missing
    <2>2. PICK n \in Missing : \A j \in Missing : ~(<<j, n>> \in Below)
      BY <1>1, <1>3, <2>1, WFMin
    <2>3. n \in 0 .. k /\ n \notin T /\ n # 0
      BY <2>2 DEF Missing
    <2>4. n \in Nat /\ n - 1 \in Nat /\ n - 1 < k /\ n - 1 < n /\ n - 1 \in 0 .. k /\ (n - 1) + 1 = n
      BY <2>3
    <2>5. n - 1 \notin Missing
      BY <1>2, <2>2, <2>3, <2>4
    <2>6. n - 1 \in T
      BY <2>4, <2>5 DEF Missing
    <2> QED BY <2>3, <2>4, <2>6
  <1> QED BY <1>3

LEMMA RetainedIsNat == ASSUME NEW f \in Frame PROVE Retained(f) \in Nat
  BY HubAssumption DEF Retained, Frame

LEMMA SumsExist ==
    ASSUME NEW s \in Seq(Frame)
    PROVE  \E g : SumsOf(s, g)
  <1> DEFINE Sums(n, g) == /\ g \in [0 .. n -> Nat]
                           /\ g[0] = 0
                           /\ \A i \in 1 .. n : g[i] = g[i - 1] + Retained(s[i])
             T == {n \in Nat : \E g : Sums(n, g)}
  <1>1. 0 \in T
    <2>1. Sums(0, [i \in 0 .. 0 |-> 0])
      OBVIOUS
    <2> QED BY <2>1
  <1>2. ASSUME NEW n \in T, n < Len(s)
        PROVE  n + 1 \in T
    <2>1. PICK g : Sums(n, g)
      OBVIOUS
    <2>2. PICK h : h = [i \in 0 .. n + 1 |-> IF i = n + 1 THEN g[n] + Retained(s[n + 1]) ELSE g[i]]
      OBVIOUS
    <2>3. n \in Nat
      OBVIOUS
    <2>4. h \in [0 .. n + 1 -> Nat] /\ h[0] = 0
      <3>1. s[n + 1] \in Frame
        BY <1>2, <2>3, ElementOfSeq
      <3>2. g[n] + Retained(s[n + 1]) \in Nat
        BY <2>1, <2>3, <3>1, RetainedIsNat
      <3>3. \A i \in 0 .. n + 1 : i # n + 1 => i \in 0 .. n
        BY <2>3
      <3> QED BY <2>1, <2>2, <2>3, <3>2, <3>3
    <2>5. ASSUME NEW i \in 1 .. n + 1
          PROVE  h[i] = h[i - 1] + Retained(s[i])
      <3>1. i \in 0 .. n + 1 /\ i - 1 \in 0 .. n + 1 /\ i - 1 # n + 1
        BY <2>3
      <3>2. CASE i = n + 1
        <4>1. i - 1 = n
          BY <2>3, <3>2
        <4> QED BY <2>2, <3>1, <3>2, <4>1
      <3>3. CASE i # n + 1
        <4>1. i \in 1 .. n
          BY <2>3, <3>3
        <4> QED BY <2>1, <2>2, <3>1, <3>3, <4>1
      <3> QED BY <3>2, <3>3
    <2>6. n + 1 \in Nat /\ Sums(n + 1, h)
      BY <2>3, <2>4, <2>5
    <2> QED BY <2>6
  <1>3. T \in SUBSET Nat /\ Len(s) \in Nat /\ Len(s) \in 0 .. Len(s)
    OBVIOUS
  <1>4. \A n \in Nat : n \in T /\ n < Len(s) => n + 1 \in T
    BY <1>2
  <1> HIDE DEF T
  <1>5. Len(s) \in T
    BY <1>1, <1>3, <1>4, UpTo
  <1> QED BY <1>5 DEF T, SumsOf

LEMMA BytesAreSums ==
    ASSUME NEW s \in Seq(Frame), NEW g, SumsOf(s, g)
    PROVE  BytesIn(s) = g[Len(s)]
  <1> DEFINE k == Len(s)
             IsUpTo(f) == f = [i \in 0 .. k |-> IF i = 0 THEN 0 ELSE f[i - 1] + Retained(s[i])]
             upTo[i \in 0 .. k] == IF i = 0 THEN 0 ELSE upTo[i - 1] + Retained(s[i])
  <1>1. BytesIn(s) = upTo[k]
    BY DEF BytesIn
  <1>2. upTo = CHOOSE f : IsUpTo(f)
    BY DEF upTo
  <1>3. k \in Nat
    OBVIOUS
  <1> HIDE DEF upTo
  <1>4. IsUpTo([i \in 0 .. k |-> g[i]])
    <2>1. ASSUME NEW i \in 0 .. k, i # 0
          PROVE  g[i] = g[i - 1] + Retained(s[i]) /\ i - 1 \in 0 .. k
      BY <1>3, <2>1 DEF SumsOf
    <2> QED BY <2>1 DEF SumsOf
  <1>5. IsUpTo(upTo)
    BY <1>2, <1>4
  <1>6. /\ upTo[0] = 0
        /\ \A i \in 1 .. k : upTo[i] = upTo[i - 1] + Retained(s[i])
    BY <1>3, <1>5
  <1> DEFINE T == {n \in Nat : n <= k => upTo[n] = g[n]}
  <1>7. 0 \in T
    BY <1>6 DEF SumsOf
  <1>8. ASSUME NEW n \in T, n < k
        PROVE  n + 1 \in T
    <2>1. n \in Nat /\ upTo[n] = g[n]
      BY <1>3, <1>8
    <2>2. n + 1 \in 1 .. k /\ (n + 1) - 1 = n
      BY <1>3, <1>8, <2>1
    <2>3. upTo[n + 1] = upTo[n] + Retained(s[n + 1]) /\ g[n + 1] = g[n] + Retained(s[n + 1])
      BY <1>6, <2>2 DEF SumsOf
    <2> QED BY <2>1, <2>3
  <1>9. T \in SUBSET Nat /\ k \in 0 .. k
    BY <1>3
  <1>10. \A n \in Nat : n \in T /\ n < k => n + 1 \in T
    BY <1>8
  <1>11. k \in T => upTo[k] = g[k]
    BY <1>3
  <1> HIDE DEF T, k
  <1>12. k \in T
    BY <1>3, <1>7, <1>9, <1>10, UpTo
  <1> QED BY <1>1, <1>11, <1>12 DEF k

LEMMA BytesBasics ==
    /\ BytesIn(<<>>) = 0
    /\ \A s \in Seq(Frame) : BytesIn(s) \in Nat
    /\ \A f \in Frame : BytesIn(<<f>>) = Retained(f)
  <1>1. BytesIn(<<>>) = 0
    <2>2. <<>> \in Seq(Frame) /\ Len(<<>>) = 0
      OBVIOUS
    <2>1. PICK g : SumsOf(<<>>, g)
      BY <2>2, SumsExist
    <2> QED BY <2>1, <2>2, BytesAreSums DEF SumsOf
  <1>2. ASSUME NEW s \in Seq(Frame)
        PROVE  BytesIn(s) \in Nat
    <2>1. PICK g : SumsOf(s, g)
      BY SumsExist
    <2>2. g[Len(s)] \in Nat
      BY <2>1 DEF SumsOf
    <2> QED BY <2>1, <2>2, BytesAreSums
  <1>3. ASSUME NEW f \in Frame
        PROVE  BytesIn(<<f>>) = Retained(f)
    <2>0. <<f>> \in Seq(Frame) /\ Len(<<f>>) = 1 /\ <<f>>[1] = f
      OBVIOUS
    <2>1. PICK s : s = <<f>> /\ s \in Seq(Frame) /\ Len(s) = 1 /\ s[1] = f
      BY <2>0
    <2>2. PICK g : SumsOf(s, g)
      BY <2>1, SumsExist
    <2>3. g[0] = 0 /\ g[1] = g[1 - 1] + Retained(f)
      BY <2>1, <2>2 DEF SumsOf
    <2>4. g[1] = Retained(f)
      BY <2>3, RetainedIsNat
    <2>5. BytesIn(s) = g[Len(s)]
      BY <2>1, <2>2, BytesAreSums
    <2> QED BY <2>1, <2>4, <2>5
  <1> QED BY <1>1, <1>2, <1>3

LEMMA BytesOfAppend ==
    ASSUME NEW s \in Seq(Frame), NEW f \in Frame
    PROVE  BytesIn(Append(s, f)) = BytesIn(s) + Retained(f)
  <1>0. PICK t, k : t = Append(s, f) /\ k = Len(s)
    OBVIOUS
  <1>1. /\ t = Append(s, f) /\ k = Len(s) /\ t \in Seq(Frame) /\ k \in Nat
        /\ Len(t) = k + 1
        /\ \A i \in 1 .. k : t[i] = s[i]
        /\ t[k + 1] = f
    BY <1>0, AppendProperties, LenProperties
  <1>2. PICK g : SumsOf(t, g)
    BY <1>1, SumsExist
  <1>3. PICK h : h = [i \in 0 .. k |-> g[i]]
    OBVIOUS
  <1>4. SumsOf(s, h)
    <2>1. h \in [0 .. k -> Nat] /\ h[0] = 0
      BY <1>1, <1>2, <1>3 DEF SumsOf
    <2>2. ASSUME NEW i \in 1 .. k
          PROVE  h[i] = h[i - 1] + Retained(s[i])
      <3>1. i \in 0 .. k /\ i - 1 \in 0 .. k /\ i \in 1 .. k + 1
        BY <1>1
      <3>2. g[i] = g[i - 1] + Retained(t[i])
        BY <1>1, <1>2, <3>1 DEF SumsOf
      <3> QED BY <1>1, <1>3, <3>1, <3>2
    <2> QED BY <1>1, <2>1, <2>2 DEF SumsOf
  <1>5. BytesIn(s) = g[k] /\ BytesIn(t) = g[k + 1]
    BY <1>1, <1>2, <1>3, <1>4, BytesAreSums
  <1>6. g[k + 1] = g[(k + 1) - 1] + Retained(t[k + 1]) /\ (k + 1) - 1 = k
    BY <1>1, <1>2 DEF SumsOf
  <1> QED BY <1>1, <1>5, <1>6

LEMMA BytesOfTail ==
    ASSUME NEW s \in Seq(Frame), s # <<>>
    PROVE  BytesIn(s) = Retained(Head(s)) + BytesIn(Tail(s))
  <1>0. PICK t, k : t = Tail(s) /\ k = Len(t)
    OBVIOUS
  <1>1. /\ t = Tail(s) /\ k = Len(t) /\ t \in Seq(Frame) /\ k \in Nat
        /\ Len(s) = k + 1
        /\ \A i \in 1 .. k : t[i] = s[i + 1]
    BY <1>0, EmptySeq, HeadTailProperties, LenProperties
  <1>2. Head(s) = s[1] /\ s[1] \in Frame
    BY <1>1, HeadTailProperties, ElementOfSeq
  <1>3. PICK r \in Nat : r = Retained(s[1])
    BY <1>2, RetainedIsNat
  <1>4. PICK g : SumsOf(t, g)
    BY <1>1, SumsExist
  <1>5. PICK h : h = [i \in 0 .. k + 1 |-> IF i = 0 THEN 0 ELSE r + g[i - 1]]
    OBVIOUS
  <1>6. g \in [0 .. k -> Nat] /\ g[0] = 0 /\ \A i \in 1 .. k : g[i] = g[i - 1] + Retained(t[i])
    BY <1>1, <1>4 DEF SumsOf
  <1>7. \A i \in 1 .. k + 1 : i - 1 \in 0 .. k /\ i \in 0 .. k + 1 /\ i # 0 /\ i - 1 \in 0 .. k + 1
    BY <1>1
  <1>8. SumsOf(s, h)
    <2>1. h \in [0 .. k + 1 -> Nat] /\ h[0] = 0
      <3>1. ASSUME NEW i \in 0 .. k + 1, i # 0
            PROVE  r + g[i - 1] \in Nat
        <4>1. i - 1 \in 0 .. k
          BY <1>1, <3>1
        <4>2. g[i - 1] \in Nat
          BY <1>6, <4>1
        <4> QED BY <1>3, <4>2
      <3> QED BY <1>1, <1>3, <1>5, <3>1
    <2>2. ASSUME NEW i \in 1 .. k + 1
          PROVE  h[i] = h[i - 1] + Retained(s[i])
      <3>1. CASE i = 1
        <4>1. h[1] = r + g[1 - 1] /\ 1 - 1 = 0 /\ h[0] = 0
          BY <1>5, <1>7, <2>1, <3>1
        <4>2. h[1] = h[0] + r
          BY <1>3, <1>6, <4>1
        <4> QED BY <1>3, <3>1, <4>1, <4>2
      <3>2. CASE i # 1
        <4>1. PICK j \in 1 .. k : i = j + 1
          <5>1. i - 1 \in 1 .. k /\ i = (i - 1) + 1
            BY <1>1, <3>2
          <5> QED BY <5>1
        <4>2. i - 1 = j /\ j # 0 /\ j - 1 \in 0 .. k /\ j \in 0 .. k
          BY <1>1, <4>1
        <4>3. h[i] = r + g[j] /\ h[i - 1] = r + g[j - 1]
          BY <1>5, <1>7, <4>1, <4>2
        <4>4. t[j] = s[i] /\ s[i] \in Frame
          BY <1>1, <4>1, ElementOfSeq
        <4>5. g[j] = g[j - 1] + Retained(s[i]) /\ Retained(s[i]) \in Nat
          BY <1>6, <4>4, RetainedIsNat
        <4>6. g[j] \in Nat /\ g[j - 1] \in Nat
          BY <1>6, <4>2
        <4>7. r + g[j] = r + g[j - 1] + Retained(s[i])
          BY <1>3, <4>5, <4>6
        <4> QED BY <4>3, <4>7
      <3> QED BY <3>1, <3>2
    <2> QED BY <1>1, <2>1, <2>2 DEF SumsOf
  <1>9. BytesIn(s) = h[k + 1] /\ BytesIn(t) = g[k]
    BY <1>1, <1>4, <1>8, BytesAreSums
  <1>10. h[k + 1] = r + g[k]
    <2>1. k + 1 \in 0 .. k + 1 /\ k + 1 # 0 /\ (k + 1) - 1 = k
      BY <1>1
    <2> QED BY <1>5, <2>1
  <1> QED BY <1>1, <1>2, <1>3, <1>9, <1>10

-----------------------------------------------------------------------------
(* What a watcher makes the daemon hold.                                    *)

LEMMA DataOfLag ==
    ASSUME NEW s \in Seq(Frame), NEW l \in Frame, l.kind = "lagged"
    PROVE  DataOf(Append(s, l)) = s
  <1>1. PICK t : t = Append(s, l)
    OBVIOUS
  <1>2. /\ t \in Seq(Frame) /\ t # <<>> /\ Len(t) = Len(s) + 1 /\ Len(s) \in Nat
        /\ \A i \in 1 .. Len(s) : t[i] = s[i]
        /\ t[Len(s) + 1] = l
    BY <1>1, AppendProperties, LenProperties
  <1>3. DataOf(t) = SubSeq(t, 1, Len(s))
    BY <1>2 DEF DataOf, Last, Front
  <1>4. /\ SubSeq(t, 1, Len(s)) \in Seq(Frame)
        /\ Len(SubSeq(t, 1, Len(s))) = Len(s)
        /\ \A i \in 1 .. Len(s) : SubSeq(t, 1, Len(s))[i] = s[i]
    <2>1. \A i \in 1 .. Len(s) : t[i] \in Frame
      BY <1>2, ElementOfSeq
    <2>2. /\ SubSeq(t, 1, Len(s)) \in Seq(Frame)
          /\ Len(SubSeq(t, 1, Len(s))) = IF 1 <= Len(s) THEN Len(s) - 1 + 1 ELSE 0
          /\ \A i \in 1 .. Len(s) - 1 + 1 : SubSeq(t, 1, Len(s))[i] = t[1 + i - 1]
      BY <1>2, <2>1, SubSeqProperties
    <2>3. \A i \in 1 .. Len(s) : i \in 1 .. Len(s) - 1 + 1 /\ 1 + i - 1 = i
      BY <1>2
    <2>4. Len(SubSeq(t, 1, Len(s))) = Len(s)
      BY <1>2, <2>2
    <2> QED BY <1>2, <2>2, <2>3, <2>4
  <1>5. SubSeq(t, 1, Len(s)) = s
    BY <1>4, SeqEqual
  <1> QED BY <1>1, <1>3, <1>5

\* A lag item is the last of what is held, and only a retired watcher has one.
LagOnlyLast(s, tx) == \A i \in 1 .. Len(s) : s[i].kind = "lagged" => i = Len(s) /\ ~tx

LEMMA DataOfHeld ==
    ASSUME NEW s \in Seq(Frame), NEW tx \in BOOLEAN, LagOnlyLast(s, tx)
    PROVE  /\ DataOf(s) \in Seq(Frame)
           /\ tx => DataOf(s) = s
           /\ s # <<>> /\ Last(s).kind # "lagged" => DataOf(s) = s
  <1>1. CASE s = <<>> \/ Last(s).kind # "lagged"
    BY <1>1 DEF DataOf
  <1>2. CASE s # <<>> /\ Last(s).kind = "lagged"
    <2>1. PICK d \in Seq(Frame), l \in Frame : s = Append(d, l)
      BY <1>2, SequenceEmptyOrAppend
    <2>2. Last(s) = l /\ Len(s) \in 1 .. Len(s)
      BY <2>1, AppendProperties DEF Last
    <2>3. DataOf(s) = d
      BY <1>2, <2>1, <2>2, DataOfLag
    <2>4. ~tx
      BY <1>2, <2>2 DEF LagOnlyLast, Last
    <2> QED BY <1>2, <2>3, <2>4
  <1> QED BY <1>1, <1>2

LEMMA BudgetOfTail ==
    ASSUME NEW d \in Seq(Frame), d # <<>>, WithinBudget(d)
    PROVE  WithinBudget(Tail(d))
  <1>1. /\ Tail(d) \in Seq(Frame) /\ Head(d) \in Frame
        /\ Len(d) \in Nat \ {0} /\ Len(Tail(d)) = Len(d) - 1
    BY EmptySeq, HeadTailProperties
  <1>2. BytesIn(d) = Retained(Head(d)) + BytesIn(Tail(d))
    BY BytesOfTail
  <1>3. BytesIn(Tail(d)) \in Nat /\ Retained(Head(d)) \in Nat
    BY <1>1, BytesBasics, RetainedIsNat
  <1>4. QueueFrames \in Nat /\ QueueBytes \in Nat
    BY HubAssumption
  <1>5. CASE BytesIn(d) <= QueueBytes
    BY <1>1, <1>2, <1>3, <1>4, <1>5 DEF WithinBudget
  <1>6. CASE Len(d) = 1
    <2>0. Len(Tail(d)) = 0
      BY <1>1, <1>6
    <2>1. Tail(d) = <<>> /\ Len(Tail(d)) = 0
      BY <1>1, <2>0, EmptySeq
    <2>2. BytesIn(Tail(d)) = 0
      BY <2>1, BytesBasics
    <2> QED BY <1>4, <2>1, <2>2 DEF WithinBudget
  <1> QED BY <1>5, <1>6 DEF WithinBudget

\* The lease invariant of one watcher.
LeaseInv(v) == LagOnlyLast(Leased(v), v.tx) /\ WithinBudget(DataOf(Leased(v)))

LEMMA LeasedType ==
    ASSUME NEW v \in View
    PROVE  /\ Leased(v) \in Seq(Frame)
           /\ v.writing = <<>> \/ ~v.leased => Leased(v) = v.queue
  <1>1. v.writing \in Seq(Frame) /\ v.queue \in Seq(Frame) /\ v.leased \in BOOLEAN
    BY ViewFields
  <1>2. <<>> \o v.queue = v.queue
    BY <1>1, ConcatEmptySeq
  <1>3. v.writing \o v.queue \in Seq(Frame)
    BY <1>1, ConcatProperties
  <1> QED BY <1>1, <1>2, <1>3 DEF Leased

LEMMA NothingHeld ==
    ASSUME NEW v \in View, v.writing = <<>>, v.queue = <<>>
    PROVE  LeaseInv(v)
  <1>1. Leased(v) = <<>>
    BY LeasedType
  <1>2. DataOf(<<>>) = <<>> /\ Len(<<>>) = 0 /\ BytesIn(<<>>) = 0
    BY BytesBasics DEF DataOf
  <1>3. WithinBudget(<<>>)
    BY <1>2, HubAssumption DEF WithinBudget
  <1>4. LagOnlyLast(<<>>, v.tx)
    BY <1>2 DEF LagOnlyLast
  <1> QED BY <1>1, <1>2, <1>3, <1>4 DEF LeaseInv

\* Appending to the queue appends to what is held.
LEMMA QueueIsHeldLast ==
    ASSUME NEW v \in View, NEW u \in View, NEW f \in Frame,
           u.writing = v.writing, u.leased = v.leased, u.queue = Append(v.queue, f)
    PROVE  Leased(u) = Append(Leased(v), f)
  <1>1. PICK x, q : x = (IF v.leased THEN v.writing ELSE <<>>) /\ q = v.queue
    OBVIOUS
  <1>2. x \in Seq(Frame) /\ q \in Seq(Frame) /\ <<f>> \in Seq(Frame)
    BY <1>1, ViewFields
  <1>3. Append(q, f) = q \o <<f>> /\ Append(x \o q, f) = (x \o q) \o <<f>>
    BY <1>2, AppendIsConcat, ConcatProperties
  <1>4. x \o (q \o <<f>>) = (x \o q) \o <<f>>
    BY <1>2, ConcatAssociative
  <1>5. Leased(v) = x \o q /\ Leased(u) = x \o Append(q, f)
    BY <1>1 DEF Leased
  <1> QED BY <1>3, <1>4, <1>5

LEMMA AdmittedIsWithin ==
    ASSUME NEW v \in View, NEW f \in Frame, HasRoomFor(v, f), WithinBudget(Leased(v))
    PROVE  WithinBudget(Append(Leased(v), f))
  <1>1. PICK s, k, b, r : /\ s = Leased(v) /\ k = Len(s) /\ b = BytesIn(s)
                          /\ r = Retained(f)
    OBVIOUS
  <1>2. s \in Seq(Frame) /\ k \in Nat /\ b \in Nat /\ r \in Nat
    BY <1>1, LeasedType, LenProperties, BytesBasics, RetainedIsNat
  <1>3. Len(Append(s, f)) = k + 1 /\ BytesIn(Append(s, f)) = b + r
    BY <1>1, <1>2, AppendProperties, BytesOfAppend
  <1>4. QueueFrames \in Nat /\ QueueBytes \in Nat /\ QueueFrames > 0
    BY HubAssumption
  <1>5. CASE r > QueueBytes
    <2>1. k = 0 /\ f.size <= MaxLive
      BY <1>1, <1>5 DEF HasRoomFor, HeldFrames
    <2>2. Append(s, f)[1] = f
      <3>1. Append(s, f)[Len(s) + 1] = f
        BY <1>2, AppendProperties
      <3>2. Len(s) + 1 = 1
        BY <1>1, <2>1
      <3> QED BY <3>1, <3>2
    <2> QED BY <1>1, <1>3, <1>4, <2>1, <2>2 DEF WithinBudget
  <1>6. CASE ~(r > QueueBytes)
    <2>1. k < QueueFrames /\ b + r <= QueueBytes
      BY <1>1, <1>6 DEF HasRoomFor, HeldFrames, HeldBytes
    <2> QED BY <1>1, <1>2, <1>3, <1>4, <2>1 DEF WithinBudget
  <1> QED BY <1>5, <1>6

LEMMA OfferKeepsLeases ==
    ASSUME NEW v \in View, NEW f \in Frame, f.kind # "lagged", LeaseInv(v)
    PROVE  Offer(v, f) \in View /\ LeaseInv(Offer(v, f))
  <1>0. /\ v.tx \in BOOLEAN /\ v.epoch \in Nat /\ v.expect \in Nat /\ v.queue \in Seq(Frame)
        /\ Leased(v) \in Seq(Frame)
    BY ViewFields, LeasedType
  <1>1. CASE ~v.tx
    BY <1>1 DEF Offer
  <1>2. ASSUME v.tx, HasRoomFor(v, f),
               Offer(v, f) = [v EXCEPT !.queue = Append(@, f), !.expect = @ + 1]
        PROVE  Offer(v, f) \in View /\ LeaseInv(Offer(v, f))
    <2>1. PICK u : u = [v EXCEPT !.queue = Append(v.queue, f), !.expect = v.expect + 1]
      OBVIOUS
    <2>2. /\ u \in View /\ u.tx = v.tx /\ u.writing = v.writing /\ u.leased = v.leased
          /\ u.queue = Append(v.queue, f)
      <3>1. Append(v.queue, f) \in Seq(Frame) /\ v.expect + 1 \in Nat
        BY <1>0, AppendProperties
      <3> HIDE DEF Frame
      <3> QED BY <2>1, <3>1 DEF View
    <2>3. PICK s \in Seq(Frame), t \in Seq(Frame) : s = Leased(v) /\ t = Append(s, f)
      BY <1>0, AppendProperties
    <2>4. Leased(u) = t
      BY <2>2, <2>3, QueueIsHeldLast
    <2>5. DataOf(s) = s /\ LagOnlyLast(s, v.tx)
      BY <1>0, <1>2, <2>3, DataOfHeld DEF LeaseInv
    <2>6. WithinBudget(t)
      BY <1>2, <2>3, <2>5, AdmittedIsWithin DEF LeaseInv
    <2>7. LagOnlyLast(t, u.tx)
      BY <1>2, <2>2, <2>3, <2>5, AppendProperties DEF LagOnlyLast
    <2>8. DataOf(t) = t
      BY <1>2, <2>2, <2>3, <2>7, DataOfHeld, <1>0
    <2> QED BY <1>2, <2>1, <2>2, <2>4, <2>6, <2>7, <2>8 DEF LeaseInv
  <1>3. ASSUME v.tx, Offer(v, f) = FallBehind(v)
        PROVE  Offer(v, f) \in View /\ LeaseInv(Offer(v, f))
    <2>1. PICK l : l = LagItem(v)
      OBVIOUS
    <2>2. l \in Frame /\ l.kind = "lagged"
      BY <1>0, <2>1 DEF LagItem, Frame, Kinds
    <2>3. PICK s \in Seq(Frame) : s = Leased(v) /\ DataOf(s) = s /\ LagOnlyLast(s, v.tx)
      BY <1>0, <1>3, DataOfHeld DEF LeaseInv
    <2>4. CASE Len(v.queue) <= QueueFrames
      <3>1. PICK u : u = [v EXCEPT !.tx = FALSE, !.queue = Append(v.queue, l)]
        OBVIOUS
      <3>2. Offer(v, f) = u
        BY <1>3, <2>1, <2>4, <3>1 DEF FallBehind, LagItem
      <3>3. /\ u \in View /\ ~u.tx /\ u.writing = v.writing /\ u.leased = v.leased
            /\ u.queue = Append(v.queue, l)
        <4>1. Append(v.queue, l) \in Seq(Frame)
          BY <1>0, <2>2, AppendProperties
        <4> QED BY <3>1, <4>1 DEF View
      <3>4. Leased(u) = Append(s, l) /\ DataOf(Append(s, l)) = s
        BY <2>2, <2>3, <3>3, QueueIsHeldLast, DataOfLag
      <3>5. LagOnlyLast(Append(s, l), u.tx)
        BY <1>3, <2>2, <2>3, <3>3, AppendProperties DEF LagOnlyLast
      <3> QED BY <2>3, <3>2, <3>3, <3>4, <3>5 DEF LeaseInv
    <2>5. CASE ~(Len(v.queue) <= QueueFrames)
      <3>1. PICK u : u = [v EXCEPT !.tx = FALSE]
        OBVIOUS
      <3>2. Offer(v, f) = u
        BY <1>3, <2>5, <3>1 DEF FallBehind, View
      <3>3. u \in View /\ ~u.tx /\ Leased(u) = s
        BY <2>3, <3>1 DEF View, Leased
      <3>4. LagOnlyLast(s, u.tx)
        BY <1>3, <2>3, <3>3 DEF LagOnlyLast
      <3> QED BY <2>3, <3>2, <3>3, <3>4 DEF LeaseInv
    <2> QED BY <2>4, <2>5
  <1> QED BY <1>1, <1>2, <1>3 DEF Offer

\* Every watcher's view, as the lease invariant wants it.
MemInv == \A w \in Watchers : LeaseInv(view[w])

\* A step of one watcher.
LEMMA LeaseStep ==
    ASSUME SplitInv, MemInv, NEW w \in Watchers, NEW u,
           view' = [view EXCEPT ![w] = u], LeaseInv(u)
    PROVE  MemInv'
  BY DEF SplitInv, IsWatcherState, MemInv

LEMMA RetiredKeepsLeases ==
    ASSUME NEW v \in View, LeaseInv(v)
    PROVE  LeaseInv([v EXCEPT !.tx = FALSE])
  <1>1. PICK u : u = [v EXCEPT !.tx = FALSE]
    OBVIOUS
  <1>2. ~u.tx /\ Leased(u) = Leased(v)
    BY <1>1 DEF View, Leased
  <1> QED BY <1>1, <1>2 DEF LeaseInv, LagOnlyLast

LEMMA RecvKeepsLeases ==
    ASSUME SplitInv, MemInv, NEW w \in Watchers, Recv(w)
    PROVE  MemInv'
  <1>1. PICK v : v = view[w]
    OBVIOUS
  <1>2. /\ v \in View /\ LeaseInv(v) /\ v.writing = <<>>
        /\ v.replay \in Seq(Frame) /\ v.queue \in Seq(Frame)
    BY <1>1, ViewFields DEF SplitInv, ViewInv, MemInv, Recv
  <1>3. Leased(v) = v.queue
    BY <1>2, LeasedType
  <1>4. ASSUME v.replay # <<>>,
               view' = [view EXCEPT ![w].replay = Tail(@),
                                    ![w].writing = <<Head(view[w].replay)>>,
                                    ![w].leased = FALSE]
        PROVE  MemInv'
    <2>1. PICK u : u = [v EXCEPT !.replay = Tail(v.replay), !.writing = <<Head(v.replay)>>,
                                 !.leased = FALSE]
      OBVIOUS
    <2>2. view' = [view EXCEPT ![w] = u]
      BY <1>1, <1>4, <2>1
    <2>3. u.tx = v.tx /\ u.queue = v.queue /\ ~u.leased
      BY <1>2, <2>1 DEF View
    <2>4. Leased(u) = v.queue
      BY <1>2, <2>3, ConcatEmptySeq DEF Leased
    <2> QED BY <1>2, <1>3, <2>2, <2>3, <2>4, LeaseStep DEF LeaseInv
  <1>5. ASSUME v.queue # <<>>,
               view' = [view EXCEPT ![w].queue = Tail(@),
                                    ![w].writing = <<Head(view[w].queue)>>,
                                    ![w].leased = TRUE]
        PROVE  MemInv'
    <2>1. PICK u : u = [v EXCEPT !.queue = Tail(v.queue), !.writing = <<Head(v.queue)>>,
                                 !.leased = TRUE]
      OBVIOUS
    <2>2. view' = [view EXCEPT ![w] = u]
      BY <1>1, <1>5, <2>1
    <2>3. u.tx = v.tx /\ u.queue = Tail(v.queue) /\ u.writing = <<Head(v.queue)>> /\ u.leased
      BY <1>2, <2>1 DEF View
    <2>4. <<Head(v.queue)>> \o Tail(v.queue) = v.queue
      BY <1>2, <1>5, HeadTailProperties
    <2>5. Leased(u) = v.queue
      BY <2>3, <2>4 DEF Leased
    <2> QED BY <1>2, <1>3, <2>2, <2>3, <2>5, LeaseStep DEF LeaseInv
  <1> QED BY <1>1, <1>4, <1>5 DEF Recv

LEMMA DeliverKeepsLeases ==
    ASSUME SplitInv, MemInv, NEW w \in Watchers, DeliverEvent(w)
    PROVE  MemInv'
  <1>1. PICK v, f : v = view[w] /\ f = Head(view[w].writing)
    OBVIOUS
  <1>2. /\ v \in View /\ LeaseInv(v) /\ v.queue \in Seq(Frame) /\ v.tx \in BOOLEAN
        /\ v.writing = <<f>> /\ f \in Frame /\ f.kind # "lagged"
    BY <1>1, HeldItem, ViewFields DEF SplitInv, ViewInv, MemInv, DeliverEvent
  <1>3. PICK u : u = [v EXCEPT !.writing = <<>>, !.leased = FALSE]
    OBVIOUS
  <1>4. view' = [view EXCEPT ![w] = u]
    BY <1>1, <1>3 DEF DeliverEvent
  <1>5. u.tx = v.tx /\ u.queue = v.queue /\ ~u.leased
    BY <1>2, <1>3 DEF View
  <1>6. Leased(u) = v.queue
    BY <1>2, <1>5, ConcatEmptySeq DEF Leased
  <1>7. CASE ~v.leased
    <2>1. Leased(v) = v.queue
      BY <1>2, <1>7, LeasedType
    <2> QED BY <1>2, <1>4, <1>5, <1>6, <2>1, LeaseStep DEF LeaseInv
  <1>8. CASE v.leased
    <2>1. PICK q, s : q = v.queue /\ s = <<f>> \o q
      OBVIOUS
    <2>2. /\ Leased(v) = s /\ s \in Seq(Frame) /\ q \in Seq(Frame) /\ s # <<>>
          /\ Len(s) = Len(q) + 1 /\ Len(q) \in Nat
          /\ Head(s) = f /\ Tail(s) = q
          /\ \A i \in 1 .. Len(q) : q[i] = s[i + 1]
      <3>1. <<f>> \in Seq(Frame) /\ Len(<<f>>) = 1 /\ <<f>>[1] = f /\ q \in Seq(Frame)
        BY <1>2, <2>1
      <3>2. s \in Seq(Frame) /\ Len(s) = 1 + Len(q) /\ Len(q) \in Nat
        BY <2>1, <3>1, ConcatProperties, LenProperties
      <3>3. \A i \in 1 .. 1 + Len(q) : s[i] = IF i <= 1 THEN <<f>>[i] ELSE q[i - 1]
        BY <2>1, <3>1, ConcatProperties
      <3>4. s # <<>>
        BY <3>2, EmptySeq
      <3>5. s[1] = f
        BY <3>1, <3>2, <3>3
      <3>6. ASSUME NEW i \in 1 .. Len(q)
            PROVE  s[i + 1] = q[i]
        <4>1. i + 1 \in 1 .. 1 + Len(q) /\ ~(i + 1 <= 1) /\ (i + 1) - 1 = i
          BY <3>2
        <4> QED BY <3>3, <4>1
      <3>7. /\ Tail(s) \in Seq(Frame) /\ Len(Tail(s)) = Len(q)
            /\ \A i \in 1 .. Len(Tail(s)) : Tail(s)[i] = s[i + 1]
        BY <3>2, <3>4, HeadTailProperties
      <3>8. Tail(s) = q
        BY <3>1, <3>6, <3>7, SeqEqual
      <3>9. Leased(v) = s
        BY <1>2, <1>8, <2>1 DEF Leased
      <3> QED BY <3>1, <3>2, <3>4, <3>5, <3>6, <3>8, <3>9
    <2>3. LagOnlyLast(s, v.tx) /\ WithinBudget(DataOf(s))
      BY <1>2, <2>2 DEF LeaseInv
    <2>4. LagOnlyLast(q, v.tx)
      <3>1. ASSUME NEW i \in 1 .. Len(q), q[i].kind = "lagged"
            PROVE  i = Len(q) /\ ~v.tx
        <4>1. i + 1 \in 1 .. Len(s) /\ s[i + 1].kind = "lagged"
          BY <2>2, <3>1
        <4>2. i + 1 = Len(s) /\ ~v.tx
          BY <2>3, <4>1 DEF LagOnlyLast
        <4> QED BY <2>2, <4>2
      <3> QED BY <3>1 DEF LagOnlyLast
    <2>5. WithinBudget(DataOf(q))
      <3>1. CASE Last(s).kind # "lagged"
        <4>1. DataOf(s) = s
          BY <1>2, <2>2, <2>3, <3>1, DataOfHeld
        <4>2. WithinBudget(q)
          BY <2>2, <2>3, <4>1, BudgetOfTail
        <4>3. DataOf(q) = q
          <5>1. ASSUME q # <<>>
                PROVE  Last(q) = Last(s)
            <6>1. Len(q) \in 1 .. Len(q)
              BY <2>2, <5>1, EmptySeq
            <6> QED BY <2>2, <6>1 DEF Last
          <5> QED BY <3>1, <5>1 DEF DataOf
        <4> QED BY <4>2, <4>3
      <3>2. CASE Last(s).kind = "lagged"
        <4>1. PICK d \in Seq(Frame), l \in Frame : s = Append(d, l)
          BY <2>2, SequenceEmptyOrAppend
        <4>2. l.kind = "lagged"
          BY <3>2, <4>1, AppendProperties DEF Last
        <4>3. DataOf(s) = d
          BY <4>1, <4>2, DataOfLag
        <4>4. d # <<>> /\ q = Append(Tail(d), l)
          <5>1. /\ Head(s) = IF d = <<>> THEN l ELSE Head(d)
                /\ Tail(s) = IF d = <<>> THEN <<>> ELSE Append(Tail(d), l)
            BY <4>1, HeadTailAppend
          <5>2. d # <<>>
            BY <1>2, <2>2, <4>2, <5>1
          <5> QED BY <2>2, <5>1, <5>2
        <4>5. Tail(d) \in Seq(Frame) /\ WithinBudget(Tail(d))
          BY <2>3, <4>3, <4>4, BudgetOfTail, HeadTailProperties
        <4>6. DataOf(q) = Tail(d)
          BY <4>2, <4>4, <4>5, DataOfLag
        <4> QED BY <4>5, <4>6
      <3> QED BY <3>1, <3>2
    <2> QED BY <1>4, <1>5, <1>6, <2>1, <2>4, <2>5, LeaseStep DEF LeaseInv
  <1> QED BY <1>7, <1>8

LEMMA NextKeepsLeases == SplitInv /\ MemInv /\ [Next]_vars => MemInv'
  <1> SUFFICES ASSUME SplitInv, MemInv, [Next]_vars PROVE MemInv'
    OBVIOUS
  <1>0. \A w \in Watchers : view[w] \in View /\ LeaseInv(view[w])
    BY DEF SplitInv, ViewInv, MemInv
  <1>1. ASSUME NEW size \in Sizes, NEW reported \in Sources, Publish(size, reported)
        PROVE  MemInv'
    <2>1. PICK e, n : e = Stamped("event", next, size) /\ n = Stamped("notice", next + 1, NoticeSize)
      OBVIOUS
    <2>2. e \in Frame /\ n \in Frame /\ e.kind # "lagged" /\ n.kind # "lagged"
      BY <2>1, HubAssumption DEF Stamped, Frame, Kinds, SplitInv, HubInv
    <2>3. ASSUME NEW w \in Watchers
          PROVE  LeaseInv(view'[w])
      <3>1. /\ Offer(view[w], e) \in View /\ LeaseInv(Offer(view[w], e))
            /\ LeaseInv(Offer(Offer(view[w], e), n))
        BY <1>0, <2>2, OfferKeepsLeases
      <3>2. view'[w] = Offer(Offer(view[w], e), n) \/ view'[w] = Offer(view[w], e)
        BY <1>1, <2>1 DEF Publish
      <3> QED BY <3>1, <3>2
    <2> QED BY <2>3 DEF MemInv
  <1>2. CASE Attach \/ CloseSession
    <2>1. ASSUME NEW w \in Watchers
          PROVE  LeaseInv(view'[w])
      <3>1. view'[w] = [view[w] EXCEPT !.tx = FALSE]
        BY <1>2 DEF Attach, CloseSession, Closed
      <3> QED BY <1>0, <3>1, RetiredKeepsLeases
    <2> QED BY <2>1 DEF MemInv
  <1>3. CASE OpenSession
    BY <1>3 DEF OpenSession, MemInv
  <1>4. ASSUME NEW w \in Watchers, Subscribe(w)
        PROVE  MemInv'
    <2>1. SplitInv'
      BY <1>4, SubscribeStep
    <2>2. view'[w] \in View /\ view'[w].writing = <<>> /\ view'[w].queue = <<>>
      BY <1>4, <2>1 DEF SplitInv, ViewInv, Subscribe, IsWatcherState
    <2>3. view' = [view EXCEPT ![w] = view'[w]]
      BY <1>4 DEF Subscribe, SplitInv, IsWatcherState
    <2> QED BY <2>2, <2>3, NothingHeld, LeaseStep
  <1>5. ASSUME NEW w \in Watchers, StreamEnds(w) \/ DeliverLagged(w) \/ Drop(w) \/ Restart(w)
        PROVE  MemInv'
    <2>1. view' = [view EXCEPT ![w] = NoView]
      BY <1>5 DEF StreamEnds, DeliverLagged, Drop, Restart
    <2>2. NoView \in View /\ NoView.writing = <<>> /\ NoView.queue = <<>>
      BY HubAssumption DEF NoView, View
    <2> QED BY <2>1, <2>2, NothingHeld, LeaseStep
  <1>6. ASSUME NEW w \in Watchers, Watcher(w) \/ Drop(w) \/ Restart(w)
        PROVE  MemInv'
    <2>1. CASE Accept(w)
      BY <2>1 DEF Accept, MemInv
    <2> QED BY <1>4, <1>5, <1>6, <2>1, RecvKeepsLeases, DeliverKeepsLeases DEF Watcher
  <1>7. CASE UNCHANGED vars
    BY <1>7 DEF vars, MemInv
  <1> QED BY <1>1, <1>2, <1>3, <1>6, <1>7 DEF Next

(* What one watcher makes the daemon hold stays within the frame and byte   *)
(* budgets, whatever its writer still sends, for every value of the limits  *)
(* and every payload size (Subscriber::has_room_for, QueueLease).           *)
THEOREM MemoryStaysBounded == Spec => []MemoryBounded
  <1>1. Init => SplitInv
    BY InitIsInvariant
  <1>2. SplitInv /\ [Next]_vars => SplitInv'
    BY NextKeepsInvariant
  <1>3. Init => MemInv
    <2>1. NoView \in View /\ NoView.writing = <<>> /\ NoView.queue = <<>>
      BY HubAssumption DEF NoView, View
    <2> QED BY <2>1, NothingHeld DEF Init, MemInv
  <1>4. SplitInv /\ MemInv /\ [Next]_vars => MemInv'
    BY NextKeepsLeases
  <1>5. MemInv => MemoryBounded
    BY DEF MemInv, LeaseInv, MemoryBounded
  <1> QED BY <1>1, <1>2, <1>3, <1>4, <1>5, PTL DEF Spec

=============================================================================
