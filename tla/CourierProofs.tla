----------------------------- MODULE CourierProofs -----------------------------
(***************************************************************************)
(* Theorems about the operators of Courier, for every number of sessions,  *)
(* messages, calls and rooms and every value of the limits.                *)
(***************************************************************************)
EXTENDS Courier, FiniteSetTheorems, SequenceTheorems, WellFoundedInduction, TLAPS

-----------------------------------------------------------------------------
(* Loops.                                                                  *)

\* A set of numbers that holds 0 and, below k, the successor of each of its
\* members holds all the numbers up to k.
LEMMA UpTo ==
    ASSUME NEW k \in Nat, NEW T \in SUBSET Nat, 0 \in T,
           \A n \in Nat : n \in T /\ n < k => n + 1 \in T
    PROVE  \A n \in 0 .. k : n \in T
  <1> DEFINE Missing == {n \in 0 .. k : n \notin T}
             Below == OpToRel(<, Nat)
  <1>1. IsWellFoundedOn(Below, Nat)
    BY NatLessThanWellFounded, Zenon
  <1>2. \A j, n \in Nat : j < n => <<j, n>> \in Below
    BY DEF OpToRel
  <1> HIDE DEF Below
  <1>3. ASSUME Missing # {}
        PROVE  FALSE
    <2>1. Missing \subseteq Nat
      OBVIOUS
    <2> HIDE DEF Missing
    <2>2. PICK n \in Missing : \A j \in Missing : ~(<<j, n>> \in Below)
      BY <1>1, <1>3, <2>1, WFMin
    <2>3. n \in 0 .. k /\ n \notin T /\ n # 0
      BY <2>2 DEF Missing
    <2>4. n \in Nat /\ n - 1 \in Nat /\ n - 1 < k /\ n - 1 < n /\ n - 1 \in 0 .. k /\ (n - 1) + 1 = n
      BY <2>3
    <2>5. n - 1 \notin Missing
      BY <1>2, <2>2, <2>3, <2>4
    <2>6. n - 1 \in T
      BY <2>4, <2>5 DEF Missing
    <2> QED BY <2>3, <2>4, <2>6
  <1> QED BY <1>3

\* The values a loop goes through.
Runs(f, step, c, q, k) ==
    f = [i \in 0 .. k |-> IF i = 0 THEN c ELSE step[q[i]][f[i - 1]]]

\* The recursion that defines a loop has a solution.
LEMMA LoopExists ==
    ASSUME NEW step, NEW c, NEW q, NEW k \in Nat
    PROVE  \E f : Runs(f, step, c, q, k)
  <1> DEFINE T == {n \in Nat : \E f : Runs(f, step, c, q, n)}
  <1>1. 0 \in T
    <2>1. Runs([i \in 0 .. 0 |-> c], step, c, q, 0)
      BY DEF Runs
    <2> QED BY <2>1
  <1>2. ASSUME NEW n \in Nat, n \in T
        PROVE  n + 1 \in T
    <2>1. PICK f : Runs(f, step, c, q, n)
      BY <1>2
    <2>2. PICK h : h = [i \in 0 .. n + 1 |-> IF i = n + 1 THEN step[q[n + 1]][f[n]] ELSE f[i]]
      OBVIOUS
    <2>3. ASSUME NEW i \in 0 .. n + 1
          PROVE  h[i] = IF i = 0 THEN c ELSE step[q[i]][h[i - 1]]
      <3>1. CASE i = n + 1
        <4>1. i # 0 /\ i - 1 = n /\ n \in 0 .. n + 1 /\ n # n + 1
          BY <3>1
        <4>2. h[i] = step[q[n + 1]][f[n]] /\ h[n] = f[n]
          BY <2>2, <3>1, <4>1
        <4> QED BY <3>1, <4>1, <4>2
      <3>2. CASE i # n + 1
        <4>1. i \in 0 .. n /\ h[i] = f[i]
          BY <2>2, <3>2
        <4>2. f[i] = IF i = 0 THEN c ELSE step[q[i]][f[i - 1]]
          BY <2>1, <4>1 DEF Runs
        <4>3. i # 0 => h[i - 1] = f[i - 1]
          BY <2>2, <4>1
        <4> QED BY <4>1, <4>2, <4>3
      <3> QED BY <3>1, <3>2
    <2>4. h = [i \in 0 .. n + 1 |-> h[i]]
      BY <2>2
    <2>5. Runs(h, step, c, q, n + 1)
      BY <2>3, <2>4 DEF Runs
    <2> QED BY <2>5
  <1>3. T \in SUBSET Nat /\ k \in 0 .. k
    OBVIOUS
  <1>4. \A n \in Nat : n \in T /\ n < k => n + 1 \in T
    BY <1>2
  <1> HIDE DEF T
  <1>5. k \in T
    BY <1>1, <1>3, <1>4, UpTo
  <1> QED BY <1>5 DEF T

Unfolds(f, step, c, q) ==
    /\ f[0] = c
    /\ \A i \in 1 .. Len(q) : f[i] = step[q[i]][f[i - 1]]
    /\ After(step, c, q) = f[Len(q)]

\* A loop takes its step once for each element.
LEMMA LoopUnfolds ==
    ASSUME NEW step, NEW c, NEW q, Len(q) \in Nat
    PROVE  \E f : Unfolds(f, step, c, q)
  <1> DEFINE k == Len(q)
             IsAfter(f) == f = [i \in 0 .. k |-> IF i = 0 THEN c ELSE step[q[i]][f[i - 1]]]
             after[i \in 0 .. k] == IF i = 0 THEN c ELSE step[q[i]][after[i - 1]]
  <1>1. After(step, c, q) = after[k]
    BY DEF After
  <1>2. after = CHOOSE f : IsAfter(f)
    BY DEF after
  <1> HIDE DEF after
  <1>3. PICK f : IsAfter(f)
    <2>1. k \in Nat
      OBVIOUS
    <2> HIDE DEF k
    <2>2. PICK f : Runs(f, step, c, q, k)
      BY <2>1, LoopExists
    <2> QED BY <2>2 DEF Runs
  <1>4. IsAfter(after)
    BY <1>2, <1>3
  <1>5. after[0] = c /\ \A i \in 1 .. k : after[i] = step[q[i]][after[i - 1]]
    BY <1>4
  <1> QED BY <1>1, <1>5 DEF Unfolds

\* What holds before the first step, and after a step when it held before, holds
\* after the loop; what holds may depend on how far the loop is.
LEMMA LoopReaches ==
    ASSUME NEW step, NEW c, NEW q, Len(q) \in Nat, NEW P, c \in P[0],
           \A i \in 1 .. Len(q) : \A d \in P[i - 1] : step[q[i]][d] \in P[i]
    PROVE  After(step, c, q) \in P[Len(q)]
  <1>1. PICK f : /\ After(step, c, q) = f[Len(q)]
                 /\ f[0] = c
                 /\ \A i \in 1 .. Len(q) : f[i] = step[q[i]][f[i - 1]]
    BY LoopUnfolds DEF Unfolds
  <1> DEFINE T == {n \in Nat : f[n] \in P[n]}
             k == Len(q)
  <1>2. 0 \in T
    BY <1>1
  <1>3. ASSUME NEW n \in Nat, n \in T, n < k
        PROVE  n + 1 \in T
    <2>1. n + 1 \in 1 .. k /\ (n + 1) - 1 = n
      BY <1>3
    <2>2. f[n + 1] = step[q[n + 1]][f[n]] /\ step[q[n + 1]][f[n]] \in P[n + 1]
      BY <1>1, <1>3, <2>1
    <2> QED BY <2>2
  <1>4. T \in SUBSET Nat /\ k \in 0 .. k
    OBVIOUS
  <1>5. \A n \in Nat : n \in T /\ n < k => n + 1 \in T
    BY <1>3
  <1> HIDE DEF T
  <1>6. k \in T
    BY <1>2, <1>4, <1>5, UpTo
  <1> QED BY <1>1, <1>6 DEF T

LEMMA LoopKeeps ==
    ASSUME NEW step, NEW c, NEW q, Len(q) \in Nat, NEW P, c \in P,
           \A i \in 1 .. Len(q) : \A d \in P : step[q[i]][d] \in P
    PROVE  After(step, c, q) \in P
  <1> DEFINE Q == [i \in 0 .. Len(q) |-> P]
  <1>1. Q[0] = P /\ Q[Len(q)] = P /\ \A i \in 1 .. Len(q) : Q[i - 1] = P /\ Q[i] = P
    OBVIOUS
  <1> HIDE DEF Q
  <1> QED BY <1>1, LoopReaches

\* A loop over no element, and over one more.
LEMMA LoopOfNone ==
    ASSUME NEW step, NEW c
    PROVE  After(step, c, <<>>) = c
  <1>1. PICK q : q = <<>> /\ Len(q) = 0
    OBVIOUS
  <1>2. PICK f : After(step, c, q) = f[Len(q)] /\ f[0] = c
    BY <1>1, LoopUnfolds DEF Unfolds
  <1> QED BY <1>1, <1>2

LEMMA LoopOfAppend ==
    ASSUME NEW step, NEW c, NEW S, NEW q \in Seq(S), NEW x \in S
    PROVE  After(step, c, Append(q, x)) = step[x][After(step, c, q)]
  <1>1. PICK t, k : t = Append(q, x) /\ k = Len(q)
    OBVIOUS
  <1>2. /\ k \in Nat /\ Len(t) = k + 1
        /\ \A i \in 1 .. k : t[i] = q[i]
        /\ t[k + 1] = x
    BY <1>1, AppendProperties, LenProperties
  <1>3. PICK f : /\ After(step, c, q) = f[k]
                 /\ f[0] = c
                 /\ \A i \in 1 .. k : f[i] = step[q[i]][f[i - 1]]
    <2>1. Len(q) \in Nat
      BY <1>1, <1>2
    <2>2. PICK f : Unfolds(f, step, c, q)
      BY <2>1, LoopUnfolds
    <2> QED BY <1>1, <2>2 DEF Unfolds
  <1>4. PICK g : /\ After(step, c, t) = g[k + 1]
                 /\ g[0] = c
                 /\ \A i \in 1 .. k + 1 : g[i] = step[t[i]][g[i - 1]]
    <2>1. Len(t) \in Nat
      BY <1>2
    <2>2. PICK g : Unfolds(g, step, c, t)
      BY <2>1, LoopUnfolds
    <2> QED BY <1>2, <2>2 DEF Unfolds
  <1> DEFINE T == {n \in Nat : n <= k => f[n] = g[n]}
  <1>5. 0 \in T
    BY <1>3, <1>4
  <1>6. ASSUME NEW n \in Nat, n \in T, n < k
        PROVE  n + 1 \in T
    <2>1. n + 1 \in 1 .. k /\ n + 1 \in 1 .. k + 1 /\ (n + 1) - 1 = n /\ n <= k
      BY <1>2, <1>6
    <2>2. f[n + 1] = step[q[n + 1]][f[n]] /\ g[n + 1] = step[t[n + 1]][g[n]]
      BY <1>3, <1>4, <2>1
    <2>3. f[n] = g[n] /\ t[n + 1] = q[n + 1]
      BY <1>2, <1>6, <2>1
    <2> QED BY <2>2, <2>3
  <1>7. T \in SUBSET Nat /\ k \in 0 .. k
    BY <1>2
  <1>8. \A n \in Nat : n \in T /\ n < k => n + 1 \in T
    BY <1>6
  <1>9. k \in T => f[k] = g[k]
    BY <1>2
  <1> HIDE DEF T
  <1>10. f[k] = g[k]
    BY <1>2, <1>5, <1>7, <1>8, <1>9, UpTo
  <1>11. g[k + 1] = step[x][g[k]]
    <2>1. k + 1 \in 1 .. k + 1 /\ (k + 1) - 1 = k
      BY <1>2
    <2> QED BY <1>2, <1>4, <2>1
  <1> QED BY <1>1, <1>3, <1>4, <1>10, <1>11

-----------------------------------------------------------------------------
(* Sequences of mail, and sums.                                            *)

\* Induction on sequences from the left.
LEMMA BySequence ==
    ASSUME NEW S, NEW G, <<>> \in G,
           \A q \in Seq(S), x \in S : q \in G => Append(q, x) \in G
    PROVE  \A q \in Seq(S) : q \in G
  <1> DEFINE T == {n \in Nat : \A q \in Seq(S) : Len(q) = n => q \in G}
  <1>1. 0 \in T
    <2>1. \A q \in Seq(S) : Len(q) = 0 => q = <<>>
      BY EmptySeq
    <2> QED BY <2>1
  <1>2. ASSUME NEW n \in Nat, n \in T
        PROVE  n + 1 \in T
    <2>1. ASSUME NEW q \in Seq(S), Len(q) = n + 1
          PROVE  q \in G
      <3>1. q # <<>>
        BY <2>1
      <3>2. PICK front \in Seq(S), x \in S : q = Append(front, x)
        BY <3>1, SequenceEmptyOrAppend
      <3>3. Len(front) = n
        BY <2>1, <3>2, AppendProperties, LenProperties
      <3> QED BY <1>2, <3>2, <3>3
    <2> QED BY <2>1
  <1>3. ASSUME NEW q \in Seq(S)
        PROVE  q \in G
    <2>1. PICK k : k = Len(q) /\ k \in Nat
      BY LenProperties
    <2>2. T \in SUBSET Nat /\ k \in 0 .. k /\ \A n \in Nat : n \in T /\ n < k => n + 1 \in T
      BY <1>2, <2>1
    <2> HIDE DEF T
    <2>3. k \in T
      BY <1>1, <2>1, <2>2, UpTo
    <2> QED BY <2>1, <2>3 DEF T
  <1> QED BY <1>3

LEMMA RangeOfAppend ==
    ASSUME NEW S, NEW q \in Seq(S), NEW x \in S
    PROVE  Range(Append(q, x)) = Range(q) \cup {x}
  <1>1. PICK t, k : t = Append(q, x) /\ k = Len(q) /\ k \in Nat
    BY LenProperties
  <1>2. /\ DOMAIN t = 1 .. k + 1 /\ DOMAIN q = 1 .. k
        /\ \A i \in 1 .. k : t[i] = q[i]
        /\ t[k + 1] = x
    BY <1>1, AppendProperties, LenProperties
  <1>3. \A y : y \in Range(t) <=> y \in Range(q) \cup {x}
    BY <1>1, <1>2 DEF Range
  <1> QED BY <1>1, <1>3

LEMMA RangeOfEmpty == Range(<<>>) = {}
  BY DEF Range

LEMMA BytesSteps ==
    /\ Bytes(<<>>) = 0
    /\ \A q \in Seq(Envelope), e \in Envelope :
          Bytes(q) \in Nat => Bytes(Append(q, e)) = Bytes(q) + e.size
  <1> DEFINE step == [e \in Envelope |-> [n \in Nat |-> n + e.size]]
  <1>1. \A q : Bytes(q) = After(step, 0, q)
    BY DEF Bytes
  <1>2. \A e \in Envelope, n \in Nat : step[e][n] = n + e.size
    OBVIOUS
  <1> HIDE DEF step
  <1> QED BY <1>1, <1>2, LoopOfNone, LoopOfAppend

LEMMA BytesIsNat == \A q \in Seq(Envelope) : Bytes(q) \in Nat
  <1> DEFINE G == {q \in Seq(Envelope) : Bytes(q) \in Nat}
  <1>1. <<>> \in G
    BY BytesSteps
  <1>2. \A e \in Envelope : e.size \in Nat
    BY DEF Envelope
  <1>3. ASSUME NEW q \in Seq(Envelope), NEW e \in Envelope, q \in G
        PROVE  Append(q, e) \in G
    BY <1>2, <1>3, BytesSteps, AppendProperties
  <1>4. \A q \in Seq(Envelope), e \in Envelope : q \in G => Append(q, e) \in G
    BY <1>3
  <1>5. \A q \in Seq(Envelope) : q \in G
    <2> HIDE DEF G
    <2> QED BY <1>1, <1>4, BySequence
  <1> QED BY <1>5

LEMMA BytesOfAppend ==
    ASSUME NEW q \in Seq(Envelope), NEW e \in Envelope
    PROVE  Bytes(Append(q, e)) = Bytes(q) + e.size
  BY BytesSteps, BytesIsNat

LEMMA OnlySteps ==
    ASSUME NEW S
    PROVE  /\ Only(<<>>, S) = <<>>
           /\ \A q \in Seq(Envelope), e \in Envelope :
                 Only(q, S) \in Seq(Envelope) =>
                    Only(Append(q, e), S) = IF e \in S THEN Append(Only(q, S), e)
                                            ELSE Only(q, S)
  <1> DEFINE step == [e \in Envelope |-> [kept \in Seq(Envelope) |->
                        IF e \in S THEN Append(kept, e) ELSE kept]]
  <1>1. \A q : Only(q, S) = After(step, <<>>, q)
    BY DEF Only
  <1>2. \A e \in Envelope, kept \in Seq(Envelope) :
           step[e][kept] = IF e \in S THEN Append(kept, e) ELSE kept
    OBVIOUS
  <1> HIDE DEF step
  <1>3. ASSUME NEW q \in Seq(Envelope), NEW e \in Envelope, Only(q, S) \in Seq(Envelope)
        PROVE  Only(Append(q, e), S) = IF e \in S THEN Append(Only(q, S), e) ELSE Only(q, S)
    <2>0. PICK none : none = <<>>
      OBVIOUS
    <2>1. After(step, none, Append(q, e)) = step[e][After(step, none, q)]
      BY LoopOfAppend
    <2>2. Only(Append(q, e), S) = step[e][Only(q, S)]
      BY <1>1, <2>0, <2>1
    <2> QED BY <1>2, <1>3, <2>2
  <1>4. Only(<<>>, S) = <<>>
    BY <1>1, LoopOfNone
  <1> QED BY <1>3, <1>4

\* No message waits twice.
Distinct(q) == \A i, j \in 1 .. Len(q) : q[i].id = q[j].id => i = j

LEMMA DistinctAppend ==
    ASSUME NEW q \in Seq(Envelope), NEW e \in Envelope
    PROVE  Distinct(Append(q, e)) <=> Distinct(q) /\ \A x \in Range(q) : x.id # e.id
  <1>1. PICK t, k : t = Append(q, e) /\ k = Len(q) /\ k \in Nat
    BY LenProperties
  <1>2. /\ Len(t) = k + 1 /\ DOMAIN q = 1 .. k
        /\ \A i \in 1 .. k : t[i] = q[i]
        /\ t[k + 1] = e
    BY <1>1, AppendProperties, LenProperties
  <1>3. \A i : i \in 1 .. k + 1 <=> i \in 1 .. k \/ i = k + 1
    BY <1>1
  <1>4. ~(k + 1 \in 1 .. k)
    BY <1>1
  <1> QED BY <1>1, <1>2, <1>3, <1>4 DEF Distinct, Range

LEMMA OnlyProperties ==
    ASSUME NEW S, NEW q \in Seq(Envelope)
    PROVE  /\ Only(q, S) \in Seq(Envelope)
           /\ Range(Only(q, S)) = Range(q) \cap S
           /\ Len(Only(q, S)) <= Len(q)
           /\ Distinct(q) => Distinct(Only(q, S))
  <1> DEFINE Good(t) == /\ Only(t, S) \in Seq(Envelope)
                        /\ Range(Only(t, S)) = Range(t) \cap S
                        /\ Len(Only(t, S)) <= Len(t)
                        /\ Distinct(t) => Distinct(Only(t, S))
             G == {t \in Seq(Envelope) : Good(t)}
  <1>1. <<>> \in G
    <2>1. <<>> \in Seq(Envelope) /\ Range(<<>>) = {} /\ Len(<<>>) <= Len(<<>>)
      BY RangeOfEmpty
    <2>2. Only(<<>>, S) = <<>>
      BY OnlySteps, Zenon
    <2> QED BY <2>1, <2>2
  <1>2. ASSUME NEW t \in Seq(Envelope), NEW e \in Envelope, t \in G
        PROVE  Append(t, e) \in G
    <2>1. Good(t)
      BY <1>2
    <2>2. PICK kept : kept = Only(t, S)
      OBVIOUS
    <2>3. kept \in Seq(Envelope) /\ Len(kept) \in Nat /\ Len(t) \in Nat
      BY <2>1, <2>2, LenProperties
    <2>4. PICK u : u = Append(t, e) /\ u \in Seq(Envelope) /\ Len(u) = Len(t) + 1
      BY AppendProperties
    <2>5. Range(u) = Range(t) \cup {e}
      BY <2>4, RangeOfAppend
    <2>6. Distinct(u) => Distinct(t) /\ \A x \in Range(t) : x.id # e.id
      BY <2>4, DistinctAppend
    <2>7. CASE e \in S
      <3>1. Only(u, S) = Append(kept, e)
        BY <2>1, <2>2, <2>4, <2>7, OnlySteps
      <3>2. Append(kept, e) \in Seq(Envelope) /\ Len(Append(kept, e)) = Len(kept) + 1
        BY <2>3, AppendProperties
      <3>3. Range(Append(kept, e)) = Range(kept) \cup {e}
        BY <2>3, RangeOfAppend
      <3>4. Distinct(u) => Distinct(Append(kept, e))
        BY <2>1, <2>2, <2>3, <2>6, DistinctAppend
      <3>5. Range(Append(kept, e)) = Range(u) \cap S
        BY <2>1, <2>2, <2>5, <2>7, <3>3
      <3>6. Len(Append(kept, e)) <= Len(u)
        BY <2>1, <2>2, <2>3, <2>4, <3>2
      <3> QED BY <2>4, <3>1, <3>2, <3>4, <3>5, <3>6
    <2>8. CASE e \notin S
      <3>1. Only(u, S) = kept
        BY <2>1, <2>2, <2>4, <2>8, OnlySteps
      <3>2. Range(kept) = Range(u) \cap S
        BY <2>1, <2>2, <2>5, <2>8
      <3>3. Len(kept) <= Len(u)
        BY <2>1, <2>2, <2>3, <2>4
      <3> QED BY <2>1, <2>2, <2>3, <2>4, <2>6, <3>1, <3>2, <3>3
    <2> QED BY <2>7, <2>8
  <1>3. \A t \in Seq(Envelope), e \in Envelope : t \in G => Append(t, e) \in G
    BY <1>2
  <1>4. q \in G
    <2> HIDE DEF G
    <2> QED BY <1>1, <1>3, BySequence
  <1> QED BY <1>4

LEMMA OnlyOfAppend ==
    ASSUME NEW S, NEW q \in Seq(Envelope), NEW e \in Envelope
    PROVE  Only(Append(q, e), S) = IF e \in S THEN Append(Only(q, S), e) ELSE Only(q, S)
  <1>1. Only(q, S) \in Seq(Envelope)
    BY OnlyProperties
  <1> QED BY <1>1, OnlySteps, Zenon

\* What is kept and what is dropped weigh together what there was.
LEMMA OnlySplitsBytes ==
    ASSUME NEW S, NEW N, NEW q \in Seq(Envelope),
           \A e \in Range(q) : e \in N <=> e \notin S
    PROVE  Bytes(q) = Bytes(Only(q, S)) + Bytes(Only(q, N))
  <1> DEFINE Split(t) == \A e \in Range(t) : e \in N <=> e \notin S
             Sum(t) == Bytes(t) = Bytes(Only(t, S)) + Bytes(Only(t, N))
             G == {t \in Seq(Envelope) : Split(t) => Sum(t)}
  <1>1. <<>> \in G
    BY OnlySteps, BytesSteps
  <1>2. ASSUME NEW t \in Seq(Envelope), NEW e \in Envelope, t \in G
        PROVE  Append(t, e) \in G
    <2>1. PICK u : u = Append(t, e) /\ u \in Seq(Envelope)
      BY AppendProperties
    <2>2. SUFFICES ASSUME Split(u)
                   PROVE  Sum(u)
      BY <2>1
    <2>3. Range(u) = Range(t) \cup {e}
      BY <2>1, RangeOfAppend
    <2>4. Sum(t)
      BY <1>2, <2>2, <2>3
    <2>5. e \in N <=> e \notin S
      BY <2>2, <2>3
    <2>6. PICK a, b : a = Only(t, S) /\ b = Only(t, N)
      OBVIOUS
    <2>7. a \in Seq(Envelope) /\ b \in Seq(Envelope)
      BY <2>6, OnlyProperties
    <2>8. /\ Only(u, S) = IF e \in S THEN Append(a, e) ELSE a
          /\ Only(u, N) = IF e \in N THEN Append(b, e) ELSE b
      BY <2>1, <2>6, OnlyOfAppend
    <2>9. /\ Bytes(a) \in Nat /\ Bytes(b) \in Nat /\ Bytes(t) \in Nat /\ e.size \in Nat
          /\ Bytes(Append(a, e)) = Bytes(a) + e.size
          /\ Bytes(Append(b, e)) = Bytes(b) + e.size
          /\ Bytes(u) = Bytes(t) + e.size
      BY <2>1, <2>7, BytesIsNat, BytesOfAppend DEF Envelope
    <2>10. Bytes(t) = Bytes(a) + Bytes(b)
      BY <2>4, <2>6
    <2> HIDE DEF Split, Sum
    <2>11. Bytes(u) = Bytes(Only(u, S)) + Bytes(Only(u, N))
      <3>1. CASE e \in S
        <4>1. Only(u, S) = Append(a, e) /\ Only(u, N) = b
          BY <2>5, <2>8, <3>1
        <4> QED BY <2>9, <2>10, <4>1
      <3>2. CASE e \notin S
        <4>1. Only(u, S) = a /\ Only(u, N) = Append(b, e)
          BY <2>5, <2>8, <3>2
        <4> QED BY <2>9, <2>10, <4>1
      <3> QED BY <3>1, <3>2
    <2> QED BY <2>11 DEF Sum
  <1>3. \A t \in Seq(Envelope), e \in Envelope : t \in G => Append(t, e) \in G
    BY <1>2
  <1>4. q \in G
    <2> HIDE DEF G
    <2> QED BY <1>1, <1>3, BySequence
  <1> QED BY <1>4

LEMMA BytesOfConcat ==
    ASSUME NEW p \in Seq(Envelope), NEW q \in Seq(Envelope)
    PROVE  Bytes(p \o q) = Bytes(p) + Bytes(q)
  <1> DEFINE G == {t \in Seq(Envelope) : Bytes(p \o t) = Bytes(p) + Bytes(t)}
  <1>1. <<>> \in G
    <2>1. p \o <<>> = p /\ <<>> \in Seq(Envelope)
      BY ConcatEmptySeq
    <2> QED BY <2>1, BytesSteps, BytesIsNat
  <1>2. ASSUME NEW t \in Seq(Envelope), NEW e \in Envelope, t \in G
        PROVE  Append(t, e) \in G
    <2>1. p \o Append(t, e) = Append(p \o t, e)
      BY AppendIsConcat, ConcatAssociative, ConcatProperties
    <2>2. p \o t \in Seq(Envelope) /\ Append(t, e) \in Seq(Envelope)
      BY ConcatProperties, AppendProperties
    <2>3. Bytes(p \o Append(t, e)) = Bytes(p \o t) + e.size
      BY <2>1, <2>2, BytesOfAppend
    <2>4. Bytes(Append(t, e)) = Bytes(t) + e.size
      BY BytesOfAppend
    <2>5. Bytes(p) \in Nat /\ Bytes(t) \in Nat /\ e.size \in Nat
      BY BytesIsNat DEF Envelope
    <2>6. Bytes(p \o t) = Bytes(p) + Bytes(t)
      BY <1>2
    <2> QED BY <2>2, <2>3, <2>4, <2>5, <2>6
  <1>3. \A t \in Seq(Envelope), e \in Envelope : t \in G => Append(t, e) \in G
    BY <1>2
  <1>4. q \in G
    <2> HIDE DEF G
    <2> QED BY <1>1, <1>3, BySequence
  <1> QED BY <1>4

\* Taking one message out takes out that message only, and its bytes.
LEMMA RemoveAtProperties ==
    ASSUME NEW q \in Seq(Envelope), NEW i \in 1 .. Len(q)
    PROVE  /\ RemoveAt(q, i) \in Seq(Envelope)
           /\ Len(RemoveAt(q, i)) = Len(q) - 1
           /\ Range(RemoveAt(q, i)) \subseteq Range(q)
           /\ \A e \in Range(q) : e # q[i] => e \in Range(RemoveAt(q, i))
           /\ Bytes(q) = Bytes(RemoveAt(q, i)) + q[i].size
           /\ Distinct(q) => /\ Distinct(RemoveAt(q, i))
                             /\ q[i] \notin Range(RemoveAt(q, i))
  <1>1. PICK n : n = Len(q) /\ n \in Nat /\ DOMAIN q = 1 .. n
    BY LenProperties
  <1>2. i \in 1 .. n /\ \A j \in 1 .. n : q[j] \in Envelope
    BY <1>1, ElementOfSeq
  <1>3. PICK a, b : a = SubSeq(q, 1, i - 1) /\ b = SubSeq(q, i + 1, n)
    OBVIOUS
  <1>4. /\ a \in Seq(Envelope) /\ Len(a) = i - 1
        /\ \A j \in 1 .. i - 1 : a[j] = q[j]
    <2>1. 1 \in Int /\ i - 1 \in Int /\ \A j \in 1 .. i - 1 : q[j] \in Envelope
      BY <1>1, <1>2
    <2>2. /\ a \in Seq(Envelope)
          /\ Len(a) = IF 1 <= i - 1 THEN (i - 1) - 1 + 1 ELSE 0
          /\ \A j \in 1 .. (i - 1) - 1 + 1 : a[j] = q[1 + j - 1]
      BY <1>3, <2>1, SubSeqProperties
    <2>3. \A j \in 1 .. i - 1 : j \in 1 .. (i - 1) - 1 + 1 /\ 1 + j - 1 = j
      BY <1>1, <1>2
    <2>4. (IF 1 <= i - 1 THEN (i - 1) - 1 + 1 ELSE 0) = i - 1
      BY <1>1, <1>2
    <2> QED BY <2>2, <2>3, <2>4
  <1>5. /\ b \in Seq(Envelope) /\ Len(b) = n - i
        /\ \A j \in 1 .. n - i : b[j] = q[i + j]
    <2>1. i + 1 \in Int /\ n \in Int /\ \A j \in i + 1 .. n : q[j] \in Envelope
      BY <1>1, <1>2
    <2>2. /\ b \in Seq(Envelope)
          /\ Len(b) = IF i + 1 <= n THEN n - (i + 1) + 1 ELSE 0
          /\ \A j \in 1 .. n - (i + 1) + 1 : b[j] = q[(i + 1) + j - 1]
      BY <1>3, <2>1, SubSeqProperties
    <2>3. \A j \in 1 .. n - i : j \in 1 .. n - (i + 1) + 1 /\ (i + 1) + j - 1 = i + j
      BY <1>1, <1>2
    <2>4. (IF i + 1 <= n THEN n - (i + 1) + 1 ELSE 0) = n - i
      BY <1>1, <1>2
    <2> QED BY <2>2, <2>3, <2>4
  <1>6. PICK r : r = RemoveAt(q, i) /\ r = a \o b
    BY <1>1, <1>3 DEF RemoveAt
  <1>7. /\ r \in Seq(Envelope) /\ Len(r) = n - 1
        /\ \A j \in 1 .. n - 1 : r[j] = IF j <= i - 1 THEN q[j] ELSE q[j + 1]
    <2>1. /\ r \in Seq(Envelope) /\ Len(r) = (i - 1) + (n - i)
          /\ \A j \in 1 .. (i - 1) + (n - i) :
                r[j] = IF j <= i - 1 THEN a[j] ELSE b[j - (i - 1)]
      BY <1>4, <1>5, <1>6, ConcatProperties
    <2>2. (i - 1) + (n - i) = n - 1
      BY <1>1, <1>2
    <2>3. ASSUME NEW j \in 1 .. n - 1
          PROVE  r[j] = IF j <= i - 1 THEN q[j] ELSE q[j + 1]
      <3>1. CASE j <= i - 1
        <4>1. j \in 1 .. i - 1
          BY <1>1, <1>2, <3>1
        <4> QED BY <1>4, <2>1, <2>2, <3>1, <4>1
      <3>2. CASE ~(j <= i - 1)
        <4>1. j - (i - 1) \in 1 .. n - i /\ i + (j - (i - 1)) = j + 1
          BY <1>1, <1>2, <3>2
        <4> QED BY <1>5, <2>1, <2>2, <3>2, <4>1
      <3> QED BY <3>1, <3>2
    <2> QED BY <2>1, <2>2, <2>3
  <1>8. DOMAIN r = 1 .. n - 1
    BY <1>7, LenProperties
  <1>9. Range(r) \subseteq Range(q)
    <2>1. ASSUME NEW j \in 1 .. n - 1
          PROVE  r[j] \in Range(q)
      <3>1. j \in 1 .. n /\ j + 1 \in 1 .. n
        BY <1>1
      <3> QED BY <1>1, <1>7, <3>1 DEF Range
    <2> QED BY <1>8, <2>1 DEF Range
  <1>10. ASSUME NEW e \in Range(q), e # q[i]
         PROVE  e \in Range(r)
    <2>1. PICK j \in 1 .. n : e = q[j]
      BY <1>1 DEF Range
    <2>2. CASE j <= i - 1
      <3>1. j \in 1 .. n - 1
        BY <1>1, <1>2, <2>2
      <3>2. r[j] = e
        BY <1>7, <2>1, <2>2, <3>1
      <3> QED BY <1>8, <3>1, <3>2 DEF Range
    <2>3. CASE ~(j <= i - 1)
      <3>1. j # i
        BY <1>10, <2>1
      <3>2. j - 1 \in 1 .. n - 1 /\ ~(j - 1 <= i - 1) /\ (j - 1) + 1 = j
        BY <1>1, <1>2, <2>3, <3>1
      <3>3. r[j - 1] = e
        BY <1>7, <2>1, <3>2
      <3> QED BY <1>8, <3>2, <3>3 DEF Range
    <2> QED BY <2>2, <2>3
  <1>11. Bytes(q) = Bytes(r) + q[i].size
    <2>1. PICK c : c = Append(a, q[i]) /\ c \in Seq(Envelope) /\ Len(c) = i
                   /\ \A j \in 1 .. i : c[j] = q[j]
      <3>1. PICK c : c = Append(a, q[i])
        OBVIOUS
      <3>2. /\ c \in Seq(Envelope) /\ Len(c) = (i - 1) + 1
            /\ \A j \in 1 .. i - 1 : c[j] = a[j]
            /\ c[(i - 1) + 1] = q[i]
        BY <1>2, <1>4, <3>1, AppendProperties
      <3>3. (i - 1) + 1 = i /\ \A j \in 1 .. i : j \in 1 .. i - 1 \/ j = i
        BY <1>1, <1>2
      <3>4. Len(c) = i
        BY <3>2, <3>3
      <3>5. ASSUME NEW j \in 1 .. i
            PROVE  c[j] = q[j]
        <4>1. CASE j = i
          BY <3>2, <3>3, <4>1
        <4>2. CASE j \in 1 .. i - 1
          BY <1>4, <3>2, <4>2
        <4> QED BY <3>3, <4>1, <4>2
      <3> QED BY <3>1, <3>2, <3>4, <3>5
    <2>2. c \o b = q
      <3>1. PICK d : d = c \o b
        OBVIOUS
      <3>2. /\ d \in Seq(Envelope) /\ Len(d) = i + (n - i)
            /\ \A j \in 1 .. i + (n - i) : d[j] = IF j <= i THEN c[j] ELSE b[j - i]
        BY <1>5, <2>1, <3>1, ConcatProperties
      <3>3. i + (n - i) = n
        BY <1>1, <1>2
      <3>4. ASSUME NEW j \in 1 .. n
            PROVE  d[j] = q[j]
        <4>1. CASE j <= i
          <5>1. j \in 1 .. i
            BY <1>1, <1>2, <4>1
          <5> QED BY <2>1, <3>2, <3>3, <4>1, <5>1
        <4>2. CASE ~(j <= i)
          <5>1. j - i \in 1 .. n - i /\ i + (j - i) = j
            BY <1>1, <1>2, <4>2
          <5> QED BY <1>5, <3>2, <3>3, <4>2, <5>1
        <4> QED BY <4>1, <4>2
      <3> QED BY <1>1, <3>1, <3>2, <3>3, <3>4, SeqEqual
    <2>3. Bytes(q) = Bytes(c) + Bytes(b)
      BY <1>5, <2>1, <2>2, BytesOfConcat
    <2>4. Bytes(c) = Bytes(a) + q[i].size
      BY <1>2, <1>4, <2>1, BytesOfAppend
    <2>5. Bytes(r) = Bytes(a) + Bytes(b)
      BY <1>4, <1>5, <1>6, BytesOfConcat
    <2>6. Bytes(a) \in Nat /\ Bytes(b) \in Nat /\ q[i].size \in Nat
      BY <1>2, <1>4, <1>5, BytesIsNat DEF Envelope
    <2> QED BY <2>3, <2>4, <2>5, <2>6
  <1>12. ASSUME Distinct(q)
         PROVE  Distinct(r) /\ q[i] \notin Range(r)
    <2>1. ASSUME NEW j \in 1 .. n - 1, NEW k \in 1 .. n - 1, r[j].id = r[k].id
          PROVE  j = k
      <3>1. PICK x, y : /\ x = IF j <= i - 1 THEN j ELSE j + 1
                        /\ y = IF k <= i - 1 THEN k ELSE k + 1
        OBVIOUS
      <3>2. r[j] = q[x] /\ r[k] = q[y] /\ x \in 1 .. n /\ y \in 1 .. n
        BY <1>1, <1>2, <1>7, <3>1
      <3>3. x = y
        BY <1>1, <1>12, <2>1, <3>2 DEF Distinct
      <3> QED BY <1>1, <1>2, <3>1, <3>3
    <2>2. ASSUME NEW j \in 1 .. n - 1, r[j] = q[i]
          PROVE  FALSE
      <3>1. PICK x : x = IF j <= i - 1 THEN j ELSE j + 1
        OBVIOUS
      <3>2. r[j] = q[x] /\ x \in 1 .. n /\ x # i
        BY <1>1, <1>2, <1>7, <3>1
      <3> QED BY <1>1, <1>2, <1>12, <2>2, <3>2 DEF Distinct
    <2> QED BY <1>7, <1>8, <2>1, <2>2 DEF Distinct, Range
  <1> QED BY <1>1, <1>6, <1>7, <1>9, <1>10, <1>11, <1>12

\* The listing of a finite set has each element once.
LEMMA ListingProperties ==
    ASSUME NEW S, IsFiniteSet(S)
    PROVE  /\ SetToSeq(S) \in Seq(S)
           /\ \A x \in S : \E i \in 1 .. Len(SetToSeq(S)) : SetToSeq(S)[i] = x
           /\ \A i, j \in 1 .. Len(SetToSeq(S)) :
                 SetToSeq(S)[i] = SetToSeq(S)[j] => i = j
  <1>1. PICK n : n = Cardinality(S) /\ n \in Nat
    BY FS_CardinalityType
  <1>2. ExistsBijection(1 .. n, S)
    BY <1>1, FS_CardinalityType
  <1>3. PICK g : g \in [1 .. n -> S] /\ IsInjective(g)
    BY <1>2 DEF ExistsBijection, Bijection, Injection
  <1>4. PICK f : f = SetToSeq(S)
    OBVIOUS
  <1>5. f \in [1 .. n -> S] /\ IsInjective(f)
    BY <1>1, <1>3, <1>4 DEF SetToSeq
  <1>6. f \in Seq(S) /\ Len(f) = n
    BY <1>1, <1>5
  <1>7. f \in Surjection(1 .. n, S)
    <2>1. IsFiniteSet(1 .. n) /\ Cardinality(1 .. n) = n
      BY <1>1, FS_Interval
    <2>2. f \in Injection(1 .. n, S)
      BY <1>5 DEF Injection
    <2> QED BY <1>1, <2>1, <2>2, FS_Injection
  <1>8. \A x \in S : \E i \in 1 .. n : f[i] = x
    BY <1>7 DEF Surjection
  <1>9. \A i, j \in 1 .. n : f[i] = f[j] => i = j
    BY <1>5 DEF IsInjective
  <1> QED BY <1>4, <1>6, <1>8, <1>9

LEMMA OrderProperties ==
    /\ SessionOrder \in Seq(Sessions)
    /\ \A s \in Sessions : \E i \in 1 .. Len(SessionOrder) : SessionOrder[i] = s
    /\ \A i, j \in 1 .. Len(SessionOrder) : SessionOrder[i] = SessionOrder[j] => i = j
    /\ CallOrder \in Seq(Calls)
    /\ \A k \in Calls : \E i \in 1 .. Len(CallOrder) : CallOrder[i] = k
    /\ RoomOrder \in Seq(Rooms)
    /\ \A r \in Rooms : \E i \in 1 .. Len(RoomOrder) : RoomOrder[i] = r
  <1>1. IsFiniteSet(Sessions) /\ IsFiniteSet(Calls) /\ IsFiniteSet(Rooms)
    BY CourierAssumption
  <1> QED BY <1>1, ListingProperties DEF SessionOrder, CallOrder, RoomOrder

\* The sum over a listing of sessions: Total is the one over SessionOrder.
SumAlong(f, q) == After([s \in Sessions |-> [n \in Nat |-> n + f[s]]], 0, q)

LEMMA SumOfNone == ASSUME NEW f PROVE SumAlong(f, <<>>) = 0
  BY LoopOfNone DEF SumAlong

LEMMA SumOfAppend ==
    ASSUME NEW f, NEW q \in Seq(Sessions), NEW s \in Sessions, SumAlong(f, q) \in Nat
    PROVE  SumAlong(f, Append(q, s)) = SumAlong(f, q) + f[s]
  <1> DEFINE step == [x \in Sessions |-> [n \in Nat |-> n + f[x]]]
  <1>1. \A t : SumAlong(f, t) = After(step, 0, t)
    BY DEF SumAlong
  <1>2. step[s][SumAlong(f, q)] = SumAlong(f, q) + f[s]
    OBVIOUS
  <1> HIDE DEF step
  <1> QED BY <1>1, <1>2, LoopOfAppend

LEMMA SumIsNat ==
    ASSUME NEW f \in [Sessions -> Nat], NEW q \in Seq(Sessions)
    PROVE  SumAlong(f, q) \in Nat
  <1> DEFINE G == {t \in Seq(Sessions) : SumAlong(f, t) \in Nat}
  <1>1. <<>> \in G
    BY SumOfNone
  <1>2. ASSUME NEW t \in Seq(Sessions), NEW s \in Sessions, t \in G
        PROVE  Append(t, s) \in G
    <2>1. Append(t, s) \in Seq(Sessions)
      BY AppendProperties
    <2>2. SumAlong(f, Append(t, s)) = SumAlong(f, t) + f[s]
      BY <1>2, SumOfAppend
    <2> QED BY <1>2, <2>1, <2>2
  <1>3. \A t \in Seq(Sessions), s \in Sessions : t \in G => Append(t, s) \in G
    BY <1>2
  <1>4. q \in G
    <2> HIDE DEF G
    <2> QED BY <1>1, <1>3, BySequence
  <1> QED BY <1>4

LEMMA SumAdds ==
    ASSUME NEW f \in [Sessions -> Nat], NEW g \in [Sessions -> Nat],
           NEW h \in [Sessions -> Nat], \A s \in Sessions : h[s] = f[s] + g[s],
           NEW q \in Seq(Sessions)
    PROVE  SumAlong(h, q) = SumAlong(f, q) + SumAlong(g, q)
  <1> DEFINE G == {t \in Seq(Sessions) : SumAlong(h, t) = SumAlong(f, t) + SumAlong(g, t)}
  <1>1. <<>> \in G
    BY SumOfNone
  <1>2. ASSUME NEW t \in Seq(Sessions), NEW s \in Sessions, t \in G
        PROVE  Append(t, s) \in G
    <2>1. Append(t, s) \in Seq(Sessions)
      BY AppendProperties
    <2>2. SumAlong(f, t) \in Nat /\ SumAlong(g, t) \in Nat /\ SumAlong(h, t) \in Nat
      BY SumIsNat
    <2>3. /\ SumAlong(f, Append(t, s)) = SumAlong(f, t) + f[s]
          /\ SumAlong(g, Append(t, s)) = SumAlong(g, t) + g[s]
          /\ SumAlong(h, Append(t, s)) = SumAlong(h, t) + h[s]
      BY <2>2, SumOfAppend
    <2>4. f[s] \in Nat /\ g[s] \in Nat /\ h[s] = f[s] + g[s]
      OBVIOUS
    <2>5. SumAlong(h, t) = SumAlong(f, t) + SumAlong(g, t)
      BY <1>2
    <2> QED BY <2>1, <2>2, <2>3, <2>4, <2>5
  <1>3. \A t \in Seq(Sessions), s \in Sessions : t \in G => Append(t, s) \in G
    BY <1>2
  <1>4. q \in G
    <2> HIDE DEF G
    <2> QED BY <1>1, <1>3, BySequence
  <1> QED BY <1>4

\* g is k at s and 0 elsewhere; a sequence names each of its members once.
OnlyAt(g, s, k) == \A x \in Sessions : g[x] = IF x = s THEN k ELSE 0
NamesOnce(q) == \A i, j \in 1 .. Len(q) : q[i] = q[j] => i = j

LEMMA SumOfOne ==
    ASSUME NEW s \in Sessions, NEW k \in Nat,
           NEW g \in [Sessions -> Nat], OnlyAt(g, s, k),
           NEW q \in Seq(Sessions), NamesOnce(q)
    PROVE  s \in Range(q) => SumAlong(g, q) = k
  <1>0. \A x \in Sessions : g[x] = IF x = s THEN k ELSE 0
    BY DEF OnlyAt
  <1> DEFINE Holds(t) == SumAlong(g, t) = IF s \in Range(t) THEN k ELSE 0
             G == {t \in Seq(Sessions) : NamesOnce(t) => Holds(t)}
  <1>1. <<>> \in G
    BY SumOfNone, RangeOfEmpty
  <1>2. ASSUME NEW t \in Seq(Sessions), NEW x \in Sessions, t \in G
        PROVE  Append(t, x) \in G
    <2>1. PICK u, n : u = Append(t, x) /\ n = Len(t) /\ n \in Nat
      BY LenProperties
    <2>2. /\ u \in Seq(Sessions) /\ Len(u) = n + 1 /\ DOMAIN t = 1 .. n
          /\ \A i \in 1 .. n : u[i] = t[i]
          /\ u[n + 1] = x
      BY <2>1, AppendProperties, LenProperties
    <2>3. SUFFICES ASSUME NamesOnce(u)
                   PROVE  Holds(u)
      BY <2>1, <2>2
    <2>4. ASSUME NEW i \in 1 .. n, NEW j \in 1 .. n, t[i] = t[j]
          PROVE  i = j
      <3>1. i \in 1 .. Len(u) /\ j \in 1 .. Len(u) /\ u[i] = u[j]
        BY <2>1, <2>2, <2>4
      <3> QED BY <2>3, <3>1 DEF NamesOnce
    <2>5. x \notin Range(t)
      <3>1. ASSUME NEW i \in 1 .. n, t[i] = x
            PROVE  FALSE
        <4>1. i \in 1 .. Len(u) /\ n + 1 \in 1 .. Len(u) /\ u[i] = u[n + 1] /\ i # n + 1
          BY <2>1, <2>2, <3>1
        <4> QED BY <2>3, <4>1 DEF NamesOnce
      <3> QED BY <2>2, <3>1 DEF Range
    <2>6. Holds(t)
      BY <1>2, <2>1, <2>4 DEF NamesOnce
    <2>7. SumAlong(g, t) \in Nat
      BY SumIsNat
    <2>8. SumAlong(g, u) = SumAlong(g, t) + g[x]
      BY <2>1, <2>7, SumOfAppend
    <2>9. Range(u) = Range(t) \cup {x}
      BY <2>1, RangeOfAppend
    <2>10. CASE x = s
      BY <1>0, <2>5, <2>6, <2>8, <2>9, <2>10
    <2>11. CASE x # s
      BY <1>0, <2>6, <2>7, <2>8, <2>9, <2>11
    <2> QED BY <2>10, <2>11
  <1>3. \A t \in Seq(Sessions), x \in Sessions : t \in G => Append(t, x) \in G
    BY <1>2
  <1>4. q \in G
    <2> HIDE DEF G
    <2> QED BY <1>1, <1>3, BySequence
  <1> QED BY <1>4

LEMMA TotalAdds ==
    ASSUME NEW f \in [Sessions -> Nat], NEW g \in [Sessions -> Nat],
           NEW h \in [Sessions -> Nat], \A s \in Sessions : h[s] = f[s] + g[s]
    PROVE  /\ Total(f) \in Nat /\ Total(g) \in Nat
           /\ Total(h) = Total(f) + Total(g)
  <1>1. \A x : Total(x) = SumAlong(x, SessionOrder)
    BY DEF Total, SumAlong
  <1>2. SumAlong(f, SessionOrder) \in Nat /\ SumAlong(g, SessionOrder) \in Nat
    BY OrderProperties, SumIsNat
  <1>3. SumAlong(h, SessionOrder) = SumAlong(f, SessionOrder) + SumAlong(g, SessionOrder)
    <2>1. PICK q : q = SessionOrder /\ q \in Seq(Sessions)
      BY OrderProperties
    <2>2. SumAlong(h, q) = SumAlong(f, q) + SumAlong(g, q)
      BY <2>1, SumAdds, ZenonT(60)
    <2> QED BY <2>1, <2>2
  <1> QED BY <1>1, <1>2, <1>3

LEMMA TotalIsNat == ASSUME NEW f \in [Sessions -> Nat] PROVE Total(f) \in Nat
  BY OrderProperties, SumIsNat DEF Total, SumAlong

\* What one session has more, the total has more.
LEMMA TotalChanges ==
    ASSUME NEW f \in [Sessions -> Nat], NEW h \in [Sessions -> Nat],
           NEW s \in Sessions, NEW k \in Nat,
           \A x \in Sessions : h[x] = IF x = s THEN f[x] + k ELSE f[x]
    PROVE  Total(f) \in Nat /\ Total(h) = Total(f) + k
  <1>1. PICK g : g = [x \in Sessions |-> IF x = s THEN k ELSE 0]
    OBVIOUS
  <1>2. g \in [Sessions -> Nat] /\ \A x \in Sessions : g[x] = IF x = s THEN k ELSE 0
    BY <1>1
  <1>3. \A x \in Sessions : h[x] = f[x] + g[x]
    BY <1>2
  <1>4. s \in Range(SessionOrder)
    <2>1. PICK q : q = SessionOrder
      OBVIOUS
    <2>2. PICK i \in 1 .. Len(q) : q[i] = s
      BY <2>1, OrderProperties
    <2>3. DOMAIN q = 1 .. Len(q)
      BY <2>1, OrderProperties, LenProperties
    <2> QED BY <2>1, <2>2, <2>3 DEF Range
  <1>5. SumAlong(g, SessionOrder) = k
    <2>1. PICK q : q = SessionOrder
      OBVIOUS
    <2>2. q \in Seq(Sessions) /\ \A i, j \in 1 .. Len(q) : q[i] = q[j] => i = j
      BY <2>1, OrderProperties
    <2>3. OnlyAt(g, s, k) /\ NamesOnce(q)
      BY <1>2, <2>2 DEF OnlyAt, NamesOnce
    <2>4. s \in Range(q) => SumAlong(g, q) = k
      BY <1>2, <2>2, <2>3, SumOfOne
    <2> QED BY <1>4, <2>1, <2>4
  <1>6. Total(g) = k
    BY <1>5 DEF Total, SumAlong
  <1> QED BY <1>2, <1>3, <1>6, TotalAdds

-----------------------------------------------------------------------------
(* What each operation is made of.                                         *)

LEMMA CourierFields ==
    ASSUME NEW c \in CourierType
    PROVE  /\ c.box \in [Sessions -> Maybe(Mailbox)]
           /\ c.calls \in [Calls -> Maybe(Call)]
           /\ c.rooms \in [Rooms -> Maybe(Room)]
           /\ c.states \in [Messages -> Maybe(States)]
           /\ c.retired \in Seq(Messages)
           /\ c.charged \in Nat
  BY DEF CourierType

LEMMA MailboxFields ==
    ASSUME NEW c \in CourierType, NEW s \in Sessions, c.box[s] # None
    PROVE  /\ c.box[s] \in Mailbox
           /\ c.box[s].ready \in BOOLEAN
           /\ c.box[s].queue \in Seq(Envelope)
           /\ c.box[s].bytes \in Nat
  <1>1. c.box[s] \in Mailbox
    BY CourierFields DEF Maybe
  <1> QED BY <1>1 DEF Mailbox

LEMMA MailIsEnvelopes ==
    ASSUME NEW c \in CourierType
    PROVE  /\ Mail(c) \subseteq Envelope
           /\ \A e : e \in Mail(c) <=> \E s \in Sessions :
                        c.box[s] # None /\ e \in Range(c.box[s].queue)
           /\ \A s \in Sessions : c.box[s] # None => Range(c.box[s].queue) \subseteq Envelope
  <1>1. \A e : e \in Mail(c) <=> \E s \in Sessions :
                        c.box[s] # None /\ e \in Range(c.box[s].queue)
    BY DEF Mail
  <1>2. ASSUME NEW s \in Sessions, c.box[s] # None
        PROVE  Range(c.box[s].queue) \subseteq Envelope
    <2>1. PICK q : q = c.box[s].queue /\ q \in Seq(Envelope)
      BY <1>2, MailboxFields
    <2>2. DOMAIN q = 1 .. Len(q) /\ \A i \in 1 .. Len(q) : q[i] \in Envelope
      BY <2>1, LenProperties, ElementOfSeq
    <2> QED BY <2>1, <2>2 DEF Range
  <1> QED BY <1>1, <1>2

LEMMA MakeMailbox ==
    ASSUME NEW ready \in BOOLEAN, NEW queue \in Seq(Envelope), NEW bytes \in Nat
    PROVE  /\ [ready |-> ready, queue |-> queue, bytes |-> bytes] \in Mailbox
           /\ [ready |-> ready, queue |-> queue, bytes |-> bytes] # None
  <1>1. [ready |-> ready, queue |-> queue, bytes |-> bytes] \in Mailbox
    BY DEF Mailbox
  <1> QED BY <1>1, NoneAssumption

LEMMA MinusIsNat ==
    ASSUME NEW a \in Nat, NEW b \in Nat
    PROVE  Minus(a, b) \in Nat /\ Minus(a, b) <= a /\ (b <= a => Minus(a, b) = a - b)
  BY DEF Minus

LEMMA EndCallFields ==
    ASSUME NEW c \in CourierType, NEW k \in Calls
    PROVE  /\ EndCall(c, k) \in CourierType
           /\ EndCall(c, k).box = c.box
           /\ EndCall(c, k).calls = [l \in Calls |-> IF l = k THEN None ELSE c.calls[l]]
           /\ EndCall(c, k).rooms = c.rooms
           /\ EndCall(c, k).states = c.states
           /\ EndCall(c, k).retired = c.retired
           /\ EndCall(c, k).charged = c.charged
  BY CourierFields DEF EndCall, CourierType, Maybe

LEMMA RetireFields ==
    ASSUME NEW c \in CourierType, NEW m \in Messages, NEW outcome \in States
    PROVE  /\ Retire(c, m, outcome) \in CourierType
           /\ Retire(c, m, outcome).box = c.box
           /\ Retire(c, m, outcome).calls = c.calls
           /\ Retire(c, m, outcome).rooms = c.rooms
           /\ Retire(c, m, outcome).charged = c.charged
  <1>1. CASE Contains(c.retired, m)
    BY <1>1 DEF Retire
  <1>2. CASE ~Contains(c.retired, m)
    <2>1. PICK kept : kept = Append(c.retired, m)
      OBVIOUS
    <2>2. kept \in Seq(Messages) /\ kept # <<>>
      BY <2>1, CourierFields, AppendProperties
    <2>3. Tail(kept) \in Seq(Messages) /\ Head(kept) \in Messages
      BY <2>2, HeadTailProperties
    <2>4. CASE Len(kept) <= Remembered
      <3>1. PICK states : states = [c.states EXCEPT ![m] = outcome]
        OBVIOUS
      <3>2. states \in [Messages -> Maybe(States)]
        BY <3>1, CourierFields DEF Maybe
      <3>3. Retire(c, m, outcome) = [c EXCEPT !.retired = kept, !.states = states]
        BY <1>2, <2>1, <2>4, <3>1 DEF Retire
      <3> QED BY <2>2, <3>2, <3>3, CourierFields DEF CourierType
    <2>5. CASE ~(Len(kept) <= Remembered)
      <3>1. PICK states : states = [c.states EXCEPT ![m] = outcome, ![Head(kept)] = None]
        OBVIOUS
      <3>2. states \in [Messages -> Maybe(States)]
        BY <2>3, <3>1, CourierFields DEF Maybe
      <3>3. PICK rest : rest = Tail(kept) /\ rest \in Seq(Messages)
        BY <2>3
      <3>4. Retire(c, m, outcome) = [c EXCEPT !.retired = rest, !.states = states]
        BY <1>2, <2>1, <2>5, <3>1, <3>3 DEF Retire
      <3> QED BY <3>2, <3>3, <3>4, CourierFields DEF CourierType
    <2> QED BY <2>4, <2>5
  <1> QED BY <1>1, <1>2

-----------------------------------------------------------------------------
(* What holds of a courier at every step of its operations: its type, where  *)
(* its mail is, and what it is charged.                                     *)

\* A mailbox holds mail to its session, and replies name what they answer.
Addressed(c) ==
    /\ \A s \in Sessions : c.box[s] # None =>
          \A e \in Range(c.box[s].queue) : e.target = s
    /\ \A e \in Mail(c) : e.replyTo = None <=> e.kind \in {"Tell", "Ask"}

Weights(c) == [s \in Sessions |-> IF c.box[s] = None THEN 0
                                  ELSE Bytes(c.box[s].queue)]

\* The bytes charged are those of the mail that waits.
Charged(c) ==
    /\ \A s \in Sessions : c.box[s] # None => c.box[s].bytes = Bytes(c.box[s].queue)
    /\ c.charged = Total(Weights(c))

Sound(c) == c \in CourierType /\ Addressed(c) /\ Charged(c)

\* d has the mailboxes of c, with no more in them.
Lighter(c, d) ==
    /\ \A s \in Sessions : d.box[s] = None <=> c.box[s] = None
    /\ \A s \in Sessions : c.box[s] # None =>
          /\ d.box[s].ready = c.box[s].ready
          /\ Range(d.box[s].queue) \subseteq Range(c.box[s].queue)
          /\ Len(d.box[s].queue) <= Len(c.box[s].queue)
          /\ d.box[s].bytes <= c.box[s].bytes
          /\ Distinct(c.box[s].queue) => Distinct(d.box[s].queue)
    /\ d.charged <= c.charged

LEMMA AtMostTransitive == \A x, y, z \in Nat : x <= y /\ y <= z => x <= z
  OBVIOUS

LEMMA LighterTransitive ==
    ASSUME NEW a \in CourierType, NEW b \in CourierType, NEW c \in CourierType,
           Lighter(a, b), Lighter(b, c)
    PROVE  Lighter(a, c)
  <1>1. a.charged \in Nat /\ b.charged \in Nat /\ c.charged \in Nat
    BY CourierFields
  <1>2. ASSUME NEW s \in Sessions
        PROVE  c.box[s] = None <=> a.box[s] = None
    BY DEF Lighter
  <1>3. ASSUME NEW s \in Sessions, a.box[s] # None
        PROVE  /\ c.box[s].ready = a.box[s].ready
               /\ Range(c.box[s].queue) \subseteq Range(a.box[s].queue)
               /\ Len(c.box[s].queue) <= Len(a.box[s].queue)
               /\ c.box[s].bytes <= a.box[s].bytes
               /\ Distinct(a.box[s].queue) => Distinct(c.box[s].queue)
    <2>1. b.box[s] # None /\ c.box[s] # None
      BY <1>3 DEF Lighter
    <2>2. /\ a.box[s].bytes \in Nat /\ b.box[s].bytes \in Nat /\ c.box[s].bytes \in Nat
          /\ Len(a.box[s].queue) \in Nat /\ Len(b.box[s].queue) \in Nat
          /\ Len(c.box[s].queue) \in Nat
      BY <1>3, <2>1, MailboxFields, LenProperties
    <2>3. /\ b.box[s].ready = a.box[s].ready
          /\ Range(b.box[s].queue) \subseteq Range(a.box[s].queue)
          /\ Len(b.box[s].queue) <= Len(a.box[s].queue)
          /\ b.box[s].bytes <= a.box[s].bytes
          /\ Distinct(a.box[s].queue) => Distinct(b.box[s].queue)
      BY <1>3 DEF Lighter
    <2>4. /\ c.box[s].ready = b.box[s].ready
          /\ Range(c.box[s].queue) \subseteq Range(b.box[s].queue)
          /\ Len(c.box[s].queue) <= Len(b.box[s].queue)
          /\ c.box[s].bytes <= b.box[s].bytes
          /\ Distinct(b.box[s].queue) => Distinct(c.box[s].queue)
      BY <2>1 DEF Lighter
    <2>5. Len(c.box[s].queue) <= Len(a.box[s].queue) /\ c.box[s].bytes <= a.box[s].bytes
      BY <2>2, <2>3, <2>4, AtMostTransitive
    <2> QED BY <2>3, <2>4, <2>5
  <1>4. c.charged <= a.charged
    BY <1>1 DEF Lighter
  <1> QED BY <1>2, <1>3, <1>4 DEF Lighter

LEMMA LighterSame ==
    ASSUME NEW c \in CourierType, NEW d \in CourierType,
           d.box = c.box, d.charged = c.charged
    PROVE  Lighter(c, d) /\ Mail(d) = Mail(c) /\ (Sound(c) => Sound(d))
  <1>1. c.charged <= d.charged /\ d.charged <= c.charged
    BY CourierFields
  <1>2. \A s \in Sessions : c.box[s] # None =>
           Len(c.box[s].queue) <= Len(c.box[s].queue) /\ c.box[s].bytes <= c.box[s].bytes
    BY MailboxFields, LenProperties
  <1>3. Mail(d) = Mail(c)
    BY DEF Mail
  <1>4. Lighter(c, d)
    BY <1>1, <1>2 DEF Lighter
  <1>5. Weights(c) = Weights(d)
    BY DEF Weights
  <1>6. Addressed(c) => Addressed(d)
    BY <1>3 DEF Addressed
  <1>7. Charged(c) => Charged(d)
    BY <1>5 DEF Charged
  <1> QED BY <1>3, <1>4, <1>6, <1>7 DEF Sound

LEMMA LighterMail ==
    ASSUME NEW c, NEW d, Lighter(c, d)
    PROVE  /\ Mail(d) \subseteq Mail(c)
           /\ Addressed(c) => Addressed(d)
  <1>1. ASSUME NEW e \in Mail(d)
        PROVE  e \in Mail(c)
    <2>1. PICK s \in Sessions : d.box[s] # None /\ e \in Range(d.box[s].queue)
      BY DEF Mail
    <2>2. c.box[s] # None /\ e \in Range(c.box[s].queue)
      BY <2>1 DEF Lighter
    <2> QED BY <2>2 DEF Mail
  <1>2. ASSUME Addressed(c)
        PROVE  Addressed(d)
    <2>1. ASSUME NEW s \in Sessions, d.box[s] # None, NEW e \in Range(d.box[s].queue)
          PROVE  e.target = s
      <3>1. c.box[s] # None /\ e \in Range(c.box[s].queue)
        BY <2>1 DEF Lighter
      <3> QED BY <1>2, <3>1 DEF Addressed
    <2>2. \A e \in Mail(d) : e.replyTo = None <=> e.kind \in {"Tell", "Ask"}
      BY <1>1, <1>2 DEF Addressed
    <2> QED BY <2>1, <2>2 DEF Addressed
  <1> QED BY <1>1, <1>2

LEMMA WeightsAreNat ==
    ASSUME NEW c \in CourierType
    PROVE  /\ Weights(c) \in [Sessions -> Nat]
           /\ \A s \in Sessions : Weights(c)[s] = IF c.box[s] = None THEN 0
                                                  ELSE Bytes(c.box[s].queue)
  BY MailboxFields, BytesIsNat DEF Weights

\* The mail of a mailbox is the mail to its session.
LEMMA MailAt ==
    ASSUME NEW c, Addressed(c), NEW s \in Sessions
    PROVE  /\ c.box[s] # None =>
                 Range(c.box[s].queue) = {e \in Mail(c) : e.target = s}
           /\ c.box[s] = None => \A e \in Mail(c) : e.target # s
  <1>1. ASSUME NEW e \in Mail(c), e.target = s
        PROVE  c.box[s] # None /\ e \in Range(c.box[s].queue)
    <2>1. PICK t \in Sessions : c.box[t] # None /\ e \in Range(c.box[t].queue)
      BY DEF Mail
    <2>2. t = s
      BY <1>1, <2>1 DEF Addressed
    <2> QED BY <2>1, <2>2
  <1>2. ASSUME c.box[s] # None, NEW e \in Range(c.box[s].queue)
        PROVE  e \in Mail(c) /\ e.target = s
    BY <1>2 DEF Mail, Addressed
  <1> QED BY <1>1, <1>2

LEMMA WithoutFields ==
    ASSUME NEW c \in CourierType, NEW s \in Sessions, c.box[s] # None,
           NEW q \in Seq(Envelope), NEW size \in Nat
    PROVE  /\ Without(c, s, q, size) \in CourierType
           /\ Without(c, s, q, size).box =
                 [x \in Sessions |->
                    IF x = s THEN [ready |-> c.box[s].ready, queue |-> q,
                                   bytes |-> Minus(c.box[s].bytes, size)]
                    ELSE c.box[x]]
           /\ Without(c, s, q, size).calls = c.calls
           /\ Without(c, s, q, size).rooms = c.rooms
           /\ Without(c, s, q, size).states = c.states
           /\ Without(c, s, q, size).retired = c.retired
           /\ Without(c, s, q, size).charged = Minus(c.charged, size)
  <1>1. PICK b : b = c.box[s] /\ b \in Mailbox
    BY MailboxFields
  <1>2. PICK n, m : n = Minus(b.bytes, size) /\ m = Minus(c.charged, size)
    OBVIOUS
  <1>3. n \in Nat /\ m \in Nat
    BY <1>1, <1>2, MinusIsNat, CourierFields DEF Mailbox
  <1>4. PICK a : a = [ready |-> b.ready, queue |-> q, bytes |-> n]
    OBVIOUS
  <1>5. a \in Mailbox
    BY <1>1, <1>3, <1>4 DEF Mailbox
  <1>6. PICK box : box = [x \in Sessions |-> IF x = s THEN a ELSE c.box[x]]
    OBVIOUS
  <1>7. box \in [Sessions -> Maybe(Mailbox)]
    BY <1>5, <1>6, CourierFields DEF Maybe
  <1>8. Without(c, s, q, size) = [c EXCEPT !.box = box, !.charged = m]
    <2>1. [[b EXCEPT !.queue = q] EXCEPT !.bytes = n] = a
      <3>1. PICK half : half = [b EXCEPT !.queue = q]
        OBVIOUS
      <3>2. /\ half \in Mailbox
            /\ half.ready = b.ready /\ half.queue = q /\ half.bytes = b.bytes
        BY <1>1, <3>1 DEF Mailbox
      <3>3. [half EXCEPT !.bytes = n] = a
        BY <1>4, <3>2 DEF Mailbox
      <3> QED BY <3>1, <3>3
    <2>2. PICK box1 : box1 = [c.box EXCEPT ![s] = [b EXCEPT !.queue = q]]
      OBVIOUS
    <2>3. box1[s] = [b EXCEPT !.queue = q] /\ box1[s].bytes = b.bytes
      BY <1>1, <2>2, CourierFields DEF Mailbox
    <2>4. [box1 EXCEPT ![s] = [box1[s] EXCEPT !.bytes = n]] = box
      BY <1>6, <2>1, <2>2, <2>3, CourierFields
    <2> QED BY <1>1, <1>2, <2>2, <2>3, <2>4, CourierFields DEF Without, CourierType
  <1>9. PICK d : d = Without(c, s, q, size) /\ d = [c EXCEPT !.box = box, !.charged = m]
    BY <1>8
  <1>10. /\ d \in CourierType /\ d.box = box /\ d.calls = c.calls /\ d.rooms = c.rooms
         /\ d.states = c.states /\ d.retired = c.retired /\ d.charged = m
    BY <1>3, <1>7, <1>9 DEF CourierType
  <1> QED BY <1>1, <1>2, <1>4, <1>6, <1>9, <1>10

\* One message has left the mailbox of s, and nothing else has changed.
Taken(c, s, i, d) ==
    /\ Sound(d) /\ Lighter(c, d)
    /\ d.calls = c.calls /\ d.rooms = c.rooms
    /\ d.states = c.states /\ d.retired = c.retired
    /\ c.box[s].queue[i] \in Mail(c) /\ c.box[s].queue[i].target = s
    /\ Distinct(c.box[s].queue) => Mail(d) = Mail(c) \ {c.box[s].queue[i]}

\* Taking one message out of its mailbox.
LEMMA WithoutEffect ==
    ASSUME NEW c, Sound(c), NEW s \in Sessions, c.box[s] # None,
           NEW i \in 1 .. Len(c.box[s].queue),
           NEW d, d = Without(c, s, RemoveAt(c.box[s].queue, i), c.box[s].queue[i].size)
    PROVE  Taken(c, s, i, d)
  <1>0. c \in CourierType /\ Addressed(c) /\ Charged(c)
    BY DEF Sound
  <1>1. PICK b, q, e, p : b = c.box[s] /\ q = b.queue /\ e = q[i] /\ p = RemoveAt(q, i)
    OBVIOUS
  <1>2. /\ b \in Mailbox /\ q \in Seq(Envelope) /\ b.bytes \in Nat /\ b.ready \in BOOLEAN
        /\ i \in 1 .. Len(q)
    BY <1>0, <1>1, MailboxFields
  <1>3. e \in Envelope /\ e.size \in Nat /\ e \in Range(q)
    <2>1. e \in Envelope
      BY <1>1, <1>2, ElementOfSeq
    <2>2. i \in DOMAIN q
      BY <1>2, LenProperties
    <2> QED BY <1>1, <2>1, <2>2 DEF Envelope, Range
  <1>4. /\ p \in Seq(Envelope) /\ Len(p) = Len(q) - 1
        /\ Range(p) \subseteq Range(q)
        /\ \A x \in Range(q) : x # e => x \in Range(p)
        /\ Bytes(q) = Bytes(p) + e.size
        /\ Distinct(q) => Distinct(p) /\ e \notin Range(p)
    BY <1>1, <1>2, RemoveAtProperties
  <1>5. PICK n, m : n = Minus(b.bytes, e.size) /\ m = Minus(c.charged, e.size)
    OBVIOUS
  <1>6. PICK a : a = [ready |-> b.ready, queue |-> p, bytes |-> n]
    OBVIOUS
  <1>7. n \in Nat /\ n <= b.bytes /\ m \in Nat /\ m <= c.charged /\ c.charged \in Nat
    BY <1>0, <1>2, <1>3, <1>5, MinusIsNat, CourierFields
  <1>8. a \in Mailbox /\ a # None
    BY <1>2, <1>4, <1>6, <1>7, MakeMailbox
  <1>9. /\ d \in CourierType
        /\ d.box = [x \in Sessions |-> IF x = s THEN a ELSE c.box[x]]
        /\ d.calls = c.calls /\ d.rooms = c.rooms
        /\ d.states = c.states /\ d.retired = c.retired
        /\ d.charged = m
    <2>1. d = Without(c, s, p, e.size)
      BY <1>1
    <2>2. PICK n1, m1 : n1 = Minus(c.box[s].bytes, e.size) /\ m1 = Minus(c.charged, e.size)
      OBVIOUS
    <2>3. /\ d \in CourierType
          /\ d.box = [x \in Sessions |->
                        IF x = s THEN [ready |-> c.box[s].ready, queue |-> p, bytes |-> n1]
                        ELSE c.box[x]]
          /\ d.calls = c.calls /\ d.rooms = c.rooms
          /\ d.states = c.states /\ d.retired = c.retired
          /\ d.charged = m1
      BY <1>0, <1>3, <1>4, <2>1, <2>2, WithoutFields
    <2>4. n1 = n /\ m1 = m /\ c.box[s].ready = b.ready
      BY <1>1, <1>5, <2>2
    <2> QED BY <1>6, <2>3, <2>4
  <1>10. Len(p) <= Len(q)
    BY <1>2, <1>4, LenProperties
  <1>11. Lighter(c, d)
    <2>1. \A x \in Sessions : d.box[x] = None <=> c.box[x] = None
      BY <1>1, <1>8, <1>9
    <2>2. ASSUME NEW x \in Sessions, c.box[x] # None
          PROVE  /\ d.box[x].ready = c.box[x].ready
                 /\ Range(d.box[x].queue) \subseteq Range(c.box[x].queue)
                 /\ Len(d.box[x].queue) <= Len(c.box[x].queue)
                 /\ d.box[x].bytes <= c.box[x].bytes
                 /\ Distinct(c.box[x].queue) => Distinct(d.box[x].queue)
      <3>1. CASE x = s
        <4>1. d.box[x] = a /\ c.box[x] = b
          BY <1>1, <1>9, <3>1
        <4>2. a.ready = b.ready /\ a.queue = p /\ a.bytes = n
          BY <1>6
        <4> QED BY <1>1, <1>4, <1>7, <1>10, <4>1, <4>2
      <3>2. CASE x # s
        <4>1. d.box[x] = c.box[x]
          BY <1>9, <3>2
        <4>2. c.box[x].bytes \in Nat /\ Len(c.box[x].queue) \in Nat
          BY <1>0, <2>2, MailboxFields, LenProperties
        <4>3. c.box[x].bytes <= c.box[x].bytes /\ Len(c.box[x].queue) <= Len(c.box[x].queue)
          BY <4>2
        <4> QED BY <4>1, <4>3
      <3> QED BY <3>1, <3>2
    <2> QED BY <1>7, <1>9, <2>1, <2>2 DEF Lighter
  <1>12. Charged(d)
    <2>1. b.bytes = Bytes(q) /\ n = Bytes(p)
      <3>1. b.bytes = Bytes(q)
        BY <1>0, <1>1 DEF Charged
      <3>2. Bytes(p) \in Nat
        BY <1>4, BytesIsNat
      <3> QED BY <1>2, <1>3, <1>4, <1>5, <3>1, <3>2 DEF Minus
    <2>0. /\ d.box[s] = a /\ a # None /\ a.queue = p /\ a.bytes = n
          /\ \A x \in Sessions : x # s => d.box[x] = c.box[x]
      BY <1>6, <1>8, <1>9
    <2>2. \A x \in Sessions : d.box[x] # None => d.box[x].bytes = Bytes(d.box[x].queue)
      BY <1>0, <2>0, <2>1 DEF Charged
    <2>3. Weights(c) \in [Sessions -> Nat] /\ Weights(d) \in [Sessions -> Nat]
      BY <1>0, <1>9, WeightsAreNat
    <2>4. \A x \in Sessions : Weights(c)[x] = IF x = s THEN Weights(d)[x] + e.size
                                              ELSE Weights(d)[x]
      <3>1. ASSUME NEW x \in Sessions
            PROVE  Weights(c)[x] = IF x = s THEN Weights(d)[x] + e.size ELSE Weights(d)[x]
        <4>0. /\ Weights(c)[x] = IF c.box[x] = None THEN 0 ELSE Bytes(c.box[x].queue)
              /\ Weights(d)[x] = IF d.box[x] = None THEN 0 ELSE Bytes(d.box[x].queue)
          BY <1>0, <1>9, WeightsAreNat, Zenon
        <4>1. CASE x = s
          <5>1. c.box[x] # None /\ c.box[x].queue = q
            BY <1>1, <4>1
          <5>2. d.box[x] # None /\ d.box[x].queue = p
            BY <2>0, <4>1
          <5>3. Weights(c)[x] = Bytes(c.box[x].queue) /\ Weights(d)[x] = Bytes(d.box[x].queue)
            BY <4>0, <5>1, <5>2
          <5> QED BY <1>4, <4>1, <5>1, <5>2, <5>3
        <4>2. CASE x # s
          <5>1. d.box[x] = c.box[x]
            BY <2>0, <4>2
          <5>2. Weights(c)[x] = Weights(d)[x]
            BY <4>0, <5>1
          <5> QED BY <4>2, <5>2
        <4> QED BY <4>1, <4>2
      <3> QED BY <3>1
    <2>5. PICK w : w = Total(Weights(d)) /\ w \in Nat /\ Total(Weights(c)) = w + e.size
      <3>1. Total(Weights(d)) \in Nat /\ Total(Weights(c)) = Total(Weights(d)) + e.size
        BY <1>3, <2>3, <2>4, TotalChanges
      <3> QED BY <3>1
    <2>6. c.charged = Total(Weights(c))
      BY <1>0 DEF Charged
    <2>7. m = w
      <3>1. m = Minus(w + e.size, e.size)
        BY <1>5, <2>5, <2>6
      <3>2. \A x, y \in Nat : Minus(x + y, y) = x
        BY DEF Minus
      <3> QED BY <1>3, <2>5, <3>1, <3>2
    <2> QED BY <1>9, <2>2, <2>5, <2>7 DEF Charged
  <1>13. Sound(d)
    BY <1>0, <1>9, <1>11, <1>12, LighterMail DEF Sound
  <1>14. e \in Mail(c) /\ e.target = s
    BY <1>0, <1>1, <1>3, MailAt
  <1>15. ASSUME Distinct(q)
         PROVE  Mail(d) = Mail(c) \ {e}
    <2>1. d.box[s] # None /\ d.box[s].queue = p
      <3>1. d.box[s] = a
        BY <1>9
      <3> QED BY <1>6, <1>8, <3>1
    <2>2. Mail(d) \subseteq Mail(c)
      BY <1>11, LighterMail
    <2>3. e \notin Mail(d)
      <3>1. Range(p) = {x \in Mail(d) : x.target = s}
        BY <1>13, <2>1, MailAt DEF Sound
      <3> QED BY <1>4, <1>14, <1>15, <3>1
    <2>4. ASSUME NEW x \in Mail(c), x # e
          PROVE  x \in Mail(d)
      <3>1. PICK t \in Sessions : c.box[t] # None /\ x \in Range(c.box[t].queue)
        BY DEF Mail
      <3>2. d.box[t] # None /\ x \in Range(d.box[t].queue)
        <4>1. CASE t = s
          BY <1>1, <1>4, <2>1, <2>4, <3>1, <4>1
        <4>2. CASE t # s
          BY <1>9, <3>1, <4>2
        <4> QED BY <4>1, <4>2
      <3> QED BY <3>2 DEF Mail
    <2> QED BY <2>2, <2>3, <2>4
  <1> QED BY <1>1, <1>9, <1>11, <1>13, <1>14, <1>15 DEF Taken

\* Retiring a message changes no mail, call or room.
LEMMA RetireEffect ==
    ASSUME NEW c, Sound(c), NEW m \in Messages, NEW outcome \in States,
           NEW d, d = Retire(c, m, outcome)
    PROVE  /\ Sound(d) /\ Lighter(c, d) /\ Mail(d) = Mail(c) /\ d.box = c.box
           /\ d.calls = c.calls /\ d.rooms = c.rooms /\ d.charged = c.charged
  <1>1. c \in CourierType
    BY DEF Sound
  <1>2. /\ d \in CourierType /\ d.box = c.box /\ d.calls = c.calls
        /\ d.rooms = c.rooms /\ d.charged = c.charged
    BY <1>1, RetireFields
  <1> QED BY <1>1, <1>2, LighterSame

LEMMA RetireMailEffect ==
    ASSUME NEW c, Sound(c), NEW mail \in Seq(Envelope), NEW outcome \in States,
           NEW d, d = RetireMail(c, mail, outcome)
    PROVE  /\ Sound(d) /\ Lighter(c, d) /\ Mail(d) = Mail(c) /\ d.box = c.box
           /\ d.calls = c.calls /\ d.rooms = c.rooms /\ d.charged = c.charged
  <1> DEFINE step == [e \in Envelope |-> [x \in CourierType |-> Retire(x, e.id, outcome)]]
             P == {x \in CourierType : /\ Sound(x) /\ x.box = c.box /\ x.calls = c.calls
                                       /\ x.rooms = c.rooms /\ x.charged = c.charged}
  <1>1. d = After(step, c, mail)
    BY DEF RetireMail
  <1>2. c \in CourierType /\ c \in P
    BY DEF Sound
  <1>3. Len(mail) \in Nat /\ \A i \in 1 .. Len(mail) : mail[i] \in Envelope
    BY LenProperties, ElementOfSeq
  <1>4. ASSUME NEW i \in 1 .. Len(mail), NEW x \in P
        PROVE  step[mail[i]][x] \in P
    <2>1. PICK y : y = Retire(x, mail[i].id, outcome)
      OBVIOUS
    <2>2. step[mail[i]][x] = y
      BY <1>3, <2>1
    <2>3. mail[i].id \in Messages
      BY <1>3 DEF Envelope
    <2>4. /\ Sound(y) /\ y.box = x.box /\ y.calls = x.calls
          /\ y.rooms = x.rooms /\ y.charged = x.charged
      BY <2>1, <2>3, RetireEffect
    <2> QED BY <2>2, <2>4 DEF Sound
  <1> HIDE DEF step, P
  <1>5. d \in P
    BY <1>1, <1>2, <1>3, <1>4, LoopKeeps
  <1>6. /\ d \in CourierType /\ Sound(d) /\ d.box = c.box /\ d.calls = c.calls
        /\ d.rooms = c.rooms /\ d.charged = c.charged
    BY <1>5 DEF P
  <1> QED BY <1>2, <1>6, LighterSame

-----------------------------------------------------------------------------
\* Taking mail out of every mailbox takes its bytes off what is charged.
LEMMA DropEffect ==
    ASSUME NEW c, Sound(c), NEW gone, NEW d, d = Drop(c, gone)
    PROVE  /\ Sound(d) /\ Lighter(c, d) /\ Mail(d) = Mail(c) \ gone
           /\ d.calls = c.calls /\ d.rooms = c.rooms
           /\ d.states = c.states /\ d.retired = c.retired
  <1>0. c \in CourierType /\ Addressed(c) /\ Charged(c)
    BY DEF Sound
  <1>1. PICK freed : freed = Freed(c, gone)
    OBVIOUS
  <1>2. ASSUME NEW s \in Sessions
        PROVE  /\ freed[s] = IF c.box[s] = None THEN 0
                             ELSE Bytes(Only(c.box[s].queue, gone))
               /\ freed[s] \in Nat
    <2>1. freed[s] = IF c.box[s] = None THEN 0 ELSE Bytes(Only(c.box[s].queue, gone))
      BY <1>1 DEF Freed
    <2>2. c.box[s] # None => Bytes(Only(c.box[s].queue, gone)) \in Nat
      BY <1>0, MailboxFields, OnlyProperties, BytesIsNat
    <2> QED BY <2>1, <2>2
  <1>3. freed \in [Sessions -> Nat]
    <2>1. freed = [s \in Sessions |-> freed[s]]
      BY <1>1 DEF Freed
    <2> QED BY <1>2, <2>1
  <1>4. PICK box : box = [s \in Sessions |-> IF c.box[s] = None THEN None
                                             ELSE Thinned(c.box[s], gone)]
    OBVIOUS
  <1>5. PICK m : m = Minus(c.charged, Total(freed))
    OBVIOUS
  <1>6. d = [c EXCEPT !.box = box, !.charged = m]
    BY <1>1, <1>4, <1>5 DEF Drop
  <1>7. ASSUME NEW s \in Sessions, c.box[s] # None
        PROVE  /\ box[s] \in Mailbox /\ box[s] # None
               /\ box[s].ready = c.box[s].ready
               /\ box[s].queue \in Seq(Envelope)
               /\ Range(box[s].queue) = Range(c.box[s].queue) \ gone
               /\ Len(box[s].queue) <= Len(c.box[s].queue)
               /\ Distinct(c.box[s].queue) => Distinct(box[s].queue)
               /\ box[s].bytes = Bytes(box[s].queue)
               /\ box[s].bytes <= c.box[s].bytes
               /\ Bytes(c.box[s].queue) = Bytes(box[s].queue) + freed[s]
    <2>1. PICK b, q : b = c.box[s] /\ q = b.queue
      OBVIOUS
    <2>2. b \in Mailbox /\ q \in Seq(Envelope) /\ b.bytes \in Nat /\ b.ready \in BOOLEAN
      BY <1>0, <1>7, <2>1, MailboxFields
    <2>3. PICK p : p = Only(q, Range(q) \ gone)
      OBVIOUS
    <2>4. /\ p \in Seq(Envelope) /\ Range(p) = Range(q) \cap (Range(q) \ gone)
          /\ Len(p) <= Len(q)
          /\ Distinct(q) => Distinct(p)
      BY <2>2, <2>3, OnlyProperties
    <2>5. Bytes(q) = Bytes(p) + freed[s] /\ Bytes(p) \in Nat /\ freed[s] \in Nat
      <3>1. PICK N : N = Range(q) \ gone
        OBVIOUS
      <3>2. \A e \in Range(q) : e \in gone <=> e \notin N
        BY <3>1
      <3>3. Bytes(q) = Bytes(Only(q, N)) + Bytes(Only(q, gone))
        BY <2>2, <3>2, OnlySplitsBytes
      <3>4. freed[s] = Bytes(Only(q, gone)) /\ freed[s] \in Nat
        BY <1>2, <1>7, <2>1
      <3> QED BY <2>3, <2>4, <3>1, <3>3, <3>4, BytesIsNat
    <2>6. PICK n : n = Minus(b.bytes, freed[s])
      OBVIOUS
    <2>7. b.bytes = Bytes(q)
      BY <1>0, <1>7, <2>1 DEF Charged
    <2>8. n = Bytes(p) /\ n \in Nat /\ n <= b.bytes
      BY <2>5, <2>6, <2>7 DEF Minus
    <2>9. box[s] = [[b EXCEPT !.queue = p] EXCEPT !.bytes = n]
      <3>1. box[s] = Thinned(b, gone) /\ freed[s] = Bytes(Only(q, gone))
        BY <1>2, <1>4, <1>7, <2>1
      <3>2. PICK half : half = [b EXCEPT !.queue = p]
        OBVIOUS
      <3>3. half.bytes = b.bytes
        BY <2>2, <3>2 DEF Mailbox
      <3>4. Thinned(b, gone) = [half EXCEPT !.bytes = Minus(b.bytes, Bytes(Only(q, gone)))]
        BY <2>1, <2>3, <3>2, <3>3 DEF Thinned
      <3> QED BY <2>6, <3>1, <3>2, <3>4
    <2>10. PICK half : half = [b EXCEPT !.queue = p]
      OBVIOUS
    <2>11. /\ box[s] \in Mailbox
           /\ box[s].ready = b.ready /\ box[s].queue = p /\ box[s].bytes = n
      <3>1. /\ half \in Mailbox
            /\ half.ready = b.ready /\ half.queue = p /\ half.bytes = b.bytes
        BY <2>2, <2>4, <2>10 DEF Mailbox
      <3> QED BY <2>8, <2>9, <2>10, <3>1 DEF Mailbox
    <2>12. box[s] # None
      BY <2>11, NoneAssumption
    <2>13. Range(p) = Range(q) \ gone
      BY <2>4
    <2>14. box[s].bytes = Bytes(box[s].queue) /\ box[s].bytes <= b.bytes
      BY <2>8, <2>11
    <2> QED BY <2>1, <2>4, <2>5, <2>11, <2>12, <2>13, <2>14
  <1>8. \A s \in Sessions : c.box[s] = None => box[s] = None
    BY <1>4
  <1>9. box \in [Sessions -> Maybe(Mailbox)]
    <2>1. \A s \in Sessions : box[s] \in Maybe(Mailbox)
      BY <1>7, <1>8 DEF Maybe
    <2> QED BY <1>4, <2>1
  <1>10. Total(freed) \in Nat
    BY <1>3, TotalIsNat
  <1>11. m \in Nat /\ m <= c.charged
    BY <1>0, <1>5, <1>10, CourierFields, MinusIsNat
  <1>12. /\ d \in CourierType /\ d.box = box /\ d.charged = m
         /\ d.calls = c.calls /\ d.rooms = c.rooms
         /\ d.states = c.states /\ d.retired = c.retired
    BY <1>0, <1>6, <1>9, <1>11 DEF CourierType
  <1>13. Lighter(c, d)
    <2>1. \A s \in Sessions : box[s] = None <=> c.box[s] = None
      BY <1>7, <1>8
    <2>2. ASSUME NEW s \in Sessions, c.box[s] # None
          PROVE  /\ box[s].ready = c.box[s].ready
                 /\ Range(box[s].queue) \subseteq Range(c.box[s].queue)
                 /\ Len(box[s].queue) <= Len(c.box[s].queue)
                 /\ box[s].bytes <= c.box[s].bytes
                 /\ Distinct(c.box[s].queue) => Distinct(box[s].queue)
      <3>1. Range(box[s].queue) = Range(c.box[s].queue) \ gone
        BY <1>7, <2>2
      <3> QED BY <1>7, <2>2, <3>1
    <2> QED BY <1>11, <1>12, <2>1, <2>2 DEF Lighter
  <1>14. Charged(d)
    <2>1. \A s \in Sessions : box[s] # None => box[s].bytes = Bytes(box[s].queue)
      BY <1>7, <1>8
    <2>2. Weights(c) \in [Sessions -> Nat] /\ Weights(d) \in [Sessions -> Nat]
      BY <1>0, <1>12, WeightsAreNat
    <2>3. ASSUME NEW s \in Sessions
          PROVE  Weights(c)[s] = Weights(d)[s] + freed[s]
      <3>1. /\ Weights(c)[s] = IF c.box[s] = None THEN 0 ELSE Bytes(c.box[s].queue)
            /\ Weights(d)[s] = IF d.box[s] = None THEN 0 ELSE Bytes(d.box[s].queue)
        BY <1>0, <1>12, WeightsAreNat, Zenon
      <3>2. CASE c.box[s] = None
        <4>1. freed[s] = 0 /\ d.box[s] = None
          BY <1>2, <1>8, <1>12, <3>2
        <4> QED BY <3>1, <3>2, <4>1
      <3>3. CASE c.box[s] # None
        <4>1. d.box[s] # None /\ Bytes(c.box[s].queue) = Bytes(d.box[s].queue) + freed[s]
          BY <1>7, <1>12, <3>3
        <4> QED BY <3>1, <3>3, <4>1
      <3> QED BY <3>2, <3>3
    <2>4. Total(Weights(d)) \in Nat /\ Total(Weights(c)) = Total(Weights(d)) + Total(freed)
      BY <1>3, <2>2, <2>3, TotalAdds
    <2>5. c.charged = Total(Weights(c))
      BY <1>0 DEF Charged
    <2>6. m = Total(Weights(d))
      BY <1>5, <1>10, <2>4, <2>5 DEF Minus
    <2> QED BY <1>12, <2>1, <2>6 DEF Charged
  <1>15. Sound(d)
    BY <1>0, <1>12, <1>13, <1>14, LighterMail DEF Sound
  <1>16. Mail(d) = Mail(c) \ gone
    <2>1. ASSUME NEW e
          PROVE  e \in Mail(d) <=> e \in Mail(c) /\ e \notin gone
      <3>1. ASSUME e \in Mail(d)
            PROVE  e \in Mail(c) /\ e \notin gone
        <4>1. PICK s \in Sessions : box[s] # None /\ e \in Range(box[s].queue)
          BY <1>12, <3>1 DEF Mail
        <4>2. c.box[s] # None
          BY <1>8, <4>1
        <4>3. Range(box[s].queue) = Range(c.box[s].queue) \ gone
          BY <1>7, <4>2
        <4> QED BY <4>1, <4>2, <4>3 DEF Mail
      <3>2. ASSUME e \in Mail(c), e \notin gone
            PROVE  e \in Mail(d)
        <4>1. PICK s \in Sessions : c.box[s] # None /\ e \in Range(c.box[s].queue)
          BY <3>2 DEF Mail
        <4>2. Range(box[s].queue) = Range(c.box[s].queue) \ gone /\ box[s] # None
          BY <1>7, <4>1
        <4> QED BY <1>12, <3>2, <4>1, <4>2 DEF Mail
      <3> QED BY <3>1, <3>2
    <2> QED BY <2>1
  <1> QED BY <1>12, <1>13, <1>15, <1>16

\* A loop whose steps take mail away takes mail away.
LEMMA LoopLightens ==
    ASSUME NEW c, Sound(c), NEW step, NEW q, Len(q) \in Nat,
           \A i \in 1 .. Len(q) : \A d \in CourierType :
              Sound(d) => Sound(step[q[i]][d]) /\ Lighter(d, step[q[i]][d])
    PROVE  Sound(After(step, c, q)) /\ Lighter(c, After(step, c, q))
  <1> DEFINE P == {d \in CourierType : Sound(d) /\ Lighter(c, d)}
  <1>1. c \in CourierType /\ c \in P
    <2>1. c \in CourierType
      BY DEF Sound
    <2>2. Lighter(c, c)
      BY <2>1, LighterSame
    <2> QED BY <2>1, <2>2
  <1>2. ASSUME NEW i \in 1 .. Len(q), NEW d \in P
        PROVE  step[q[i]][d] \in P
    <2>1. d \in CourierType /\ Sound(d) /\ Lighter(c, d)
      BY <1>2
    <2>2. PICK e : e = step[q[i]][d]
      OBVIOUS
    <2>3. Sound(e) /\ Lighter(d, e)
      BY <2>1, <2>2
    <2>4. e \in CourierType
      BY <2>3 DEF Sound
    <2>5. Lighter(c, e)
      BY <1>1, <2>1, <2>3, <2>4, LighterTransitive
    <2> QED BY <2>2, <2>3, <2>4, <2>5
  <1> HIDE DEF P
  <1>3. After(step, c, q) \in P
    BY <1>1, <1>2, LoopKeeps
  <1> QED BY <1>3 DEF P

LEMMA EndCallEffect ==
    ASSUME NEW c, Sound(c), NEW k \in Calls, NEW d, d = EndCall(c, k)
    PROVE  Sound(d) /\ Lighter(c, d) /\ Mail(d) = Mail(c) /\ d.box = c.box
  <1>1. c \in CourierType
    BY DEF Sound
  <1>2. d \in CourierType /\ d.box = c.box /\ d.charged = c.charged
    BY <1>1, EndCallFields
  <1> QED BY <1>1, <1>2, LighterSame

\* A set of numbers has a least one.
LEMMA MinOfNat ==
    ASSUME NEW S \in SUBSET Nat, S # {}
    PROVE  Min(S) \in S /\ \A x \in S : Min(S) <= x
  <1> DEFINE Below == OpToRel(<, Nat)
  <1>1. IsWellFoundedOn(Below, Nat)
    BY NatLessThanWellFounded, Zenon
  <1>2. \A j, n \in Nat : j < n => <<j, n>> \in Below
    BY DEF OpToRel
  <1> HIDE DEF Below
  <1>3. PICK n \in S : \A j \in S : ~(<<j, n>> \in Below)
    BY <1>1, WFMin
  <1>4. ASSUME NEW j \in S
        PROVE  n <= j
    <2>1. j \in Nat /\ n \in Nat /\ ~(j < n)
      BY <1>2, <1>3
    <2> QED BY <2>1
  <1> QED BY <1>3, <1>4 DEF Min

\* Taking one message out of a mailbox, if it is there.
LEMMA WithdrawEffect ==
    ASSUME NEW c, Sound(c), NEW s \in Sessions, NEW m, NEW d, d = Withdraw(c, s, m)
    PROVE  /\ Sound(d) /\ Lighter(c, d) /\ d.calls = c.calls
           /\ d.states = c.states /\ d.retired = c.retired
  <1>1. c \in CourierType
    BY DEF Sound
  <1>2. PICK q, named : q = c.box[s].queue /\ named = {i \in DOMAIN q : q[i].id = m}
    OBVIOUS
  <1>3. CASE c.box[s] = None \/ named = {}
    <2>1. d = c
      BY <1>2, <1>3 DEF Withdraw
    <2> QED BY <1>1, <2>1, LighterSame
  <1>4. CASE c.box[s] # None /\ named # {}
    <2>1. q \in Seq(Envelope)
      BY <1>1, <1>2, <1>4, MailboxFields
    <2>2. DOMAIN q = 1 .. Len(q) /\ Len(q) \in Nat
      BY <2>1, LenProperties
    <2>3. named \in SUBSET Nat
      BY <1>2, <2>2
    <2>4. PICK i : i = Min(named) /\ i \in named
      BY <1>4, <2>3, MinOfNat
    <2>5. i \in 1 .. Len(q)
      BY <1>2, <2>2, <2>4
    <2>6. d = Without(c, s, RemoveAt(q, i), q[i].size)
      <3>1. Withdraw(c, s, m) = IF c.box[s] = None \/ named = {} THEN c
                                ELSE Without(c, s, RemoveAt(q, Min(named)), q[Min(named)].size)
        BY <1>2 DEF Withdraw
      <3>2. d = Without(c, s, RemoveAt(q, Min(named)), q[Min(named)].size)
        BY <1>4, <3>1
      <3> QED BY <2>4, <3>2, Zenon
    <2>7. /\ i \in 1 .. Len(c.box[s].queue) /\ c.box[s] # None
          /\ d = Without(c, s, RemoveAt(c.box[s].queue, i), c.box[s].queue[i].size)
      BY <1>2, <1>4, <2>5, <2>6
    <2>8. Taken(c, s, i, d)
      BY <2>7, WithoutEffect
    <2> QED BY <2>8 DEF Taken
  <1> QED BY <1>3, <1>4

LEMMA InBoxOrderIsMail ==
    ASSUME NEW c \in CourierType, NEW mail
    PROVE  /\ InBoxOrder(c, mail) \in Seq(Envelope)
           /\ Range(InBoxOrder(c, mail)) \subseteq mail
  <1> DEFINE step == [s \in Sessions |-> [found \in Seq(Envelope) |->
                        IF c.box[s] = None THEN found
                        ELSE found \o Only(c.box[s].queue, mail)]]
             P == {found \in Seq(Envelope) : Range(found) \subseteq mail}
  <1>1. PICK q : q = SessionOrder /\ q \in Seq(Sessions)
    BY OrderProperties
  <1>2. Len(q) \in Nat /\ \A i \in 1 .. Len(q) : q[i] \in Sessions
    BY <1>1, LenProperties, ElementOfSeq
  <1>3. InBoxOrder(c, mail) = After(step, <<>>, q)
    BY <1>1 DEF InBoxOrder
  <1>4. <<>> \in P
    BY RangeOfEmpty
  <1>5. ASSUME NEW i \in 1 .. Len(q), NEW found \in P
        PROVE  step[q[i]][found] \in P
    <2>1. PICK s : s = q[i] /\ s \in Sessions
      BY <1>2
    <2>2. CASE c.box[s] = None
      <3>1. step[s][found] = found
        BY <2>1, <2>2
      <3> QED BY <2>1, <3>1
    <2>3. CASE c.box[s] # None
      <3>1. PICK more : more = Only(c.box[s].queue, mail)
        OBVIOUS
      <3>2. more \in Seq(Envelope) /\ Range(more) \subseteq mail
        <4>1. c.box[s].queue \in Seq(Envelope)
          BY <2>1, <2>3, MailboxFields
        <4> QED BY <3>1, <4>1, OnlyProperties
      <3>3. step[s][found] = found \o more
        BY <2>1, <2>3, <3>1
      <3>4. found \o more \in Seq(Envelope) /\ Range(found \o more) = Range(found) \cup Range(more)
        BY <3>2, RangeConcatenation, ConcatProperties
      <3> QED BY <2>1, <3>2, <3>3, <3>4
    <2> QED BY <2>2, <2>3
  <1> HIDE DEF step, P
  <1>6. After(step, <<>>, q) \in P
    <2>1. PICK none : none = <<>> /\ none \in P
      BY <1>4
    <2>2. \A i \in 1 .. Len(q) : \A found \in P : step[q[i]][found] \in P
      BY <1>5
    <2>3. After(step, none, q) \in P
      BY <1>2, <2>1, <2>2, LoopKeeps
    <2> QED BY <2>1, <2>3
  <1> QED BY <1>3, <1>6 DEF P

LEMMA EndRoundEffect ==
    ASSUME NEW c, Sound(c), NEW k \in Calls, NEW r, NEW outcome \in States,
           NEW d, d = EndRound(c, k, r, outcome)
    PROVE  Sound(d) /\ Lighter(c, d)
  <1>1. c \in CourierType
    BY DEF Sound
  <1>2. CASE c.calls[k] = None \/ c.calls[k].room # r
    BY <1>1, <1>2, LighterSame DEF EndRound
  <1>3. CASE ~(c.calls[k] = None \/ c.calls[k].room # r)
    <2>1. PICK a, m, last : /\ a = EndCall(c, k) /\ m = c.calls[k].ask
                            /\ last = IF c.calls[k].stage = "Replied" THEN "Replied"
                                      ELSE outcome
      OBVIOUS
    <2>2. d = Retire(a, m, last)
      BY <1>3, <2>1 DEF EndRound
    <2>3. m \in Messages /\ last \in States
      <3>1. c.calls[k] \in Call
        BY <1>1, <1>3, CourierFields DEF Maybe
      <3> QED BY <2>1, <3>1 DEF Call, States
    <2>4. Sound(a) /\ Lighter(c, a)
      BY <2>1, EndCallEffect
    <2>5. Sound(d) /\ Lighter(a, d)
      BY <2>2, <2>3, <2>4, RetireEffect
    <2>6. a \in CourierType /\ d \in CourierType
      BY <2>4, <2>5 DEF Sound
    <2> QED BY <1>1, <2>4, <2>5, <2>6, LighterTransitive
  <1> QED BY <1>2, <1>3

LEMMA ForgetRoomEffect ==
    ASSUME NEW c, Sound(c), NEW r \in Rooms, NEW d, d = [c EXCEPT !.rooms[r] = None]
    PROVE  /\ Sound(d) /\ Lighter(c, d) /\ Mail(d) = Mail(c)
           /\ d.box = c.box /\ d.calls = c.calls
  <1>1. c \in CourierType
    BY DEF Sound
  <1>2. PICK rooms : rooms = [c.rooms EXCEPT ![r] = None]
    OBVIOUS
  <1>3. rooms \in [Rooms -> Maybe(Room)]
    BY <1>1, <1>2, CourierFields DEF Maybe
  <1>4. d = [c EXCEPT !.rooms = rooms]
    BY <1>2
  <1>5. d \in CourierType /\ d.box = c.box /\ d.calls = c.calls /\ d.charged = c.charged
    BY <1>1, <1>3, <1>4 DEF CourierType
  <1> QED BY <1>1, <1>5, LighterSame

LEMMA RemoveRoomEffect ==
    ASSUME NEW c, Sound(c), NEW r \in Rooms, NEW outcome \in States,
           NEW d, d = RemoveRoom(c, r, outcome)
    PROVE  Sound(d) /\ Lighter(c, d)
  <1>1. c \in CourierType
    BY DEF Sound
  <1>2. CASE c.rooms[r] = None
    BY <1>1, <1>2, LighterSame DEF RemoveRoom
  <1>3. CASE c.rooms[r] # None
    <2> DEFINE step == [k \in Calls |-> [x \in CourierType |-> EndRound(x, k, r, outcome)]]
    <2>1. PICK tagged : tagged = {e \in Mail(c) : e.room = r}
      OBVIOUS
    <2>2. PICK a : a = Drop(c, tagged)
      OBVIOUS
    <2>3. PICK b : b = [a EXCEPT !.rooms[r] = None]
      OBVIOUS
    <2>4. PICK mail : mail = InBoxOrder(c, tagged) /\ mail \in Seq(Envelope)
      BY <1>1, InBoxOrderIsMail
    <2>5. PICK left : left = RetireMail(b, mail, outcome)
      OBVIOUS
    <2>6. PICK q : q = CallOrder /\ q \in Seq(Calls)
      BY OrderProperties
    <2>7. Len(q) \in Nat /\ \A i \in 1 .. Len(q) : q[i] \in Calls
      BY <2>6, LenProperties, ElementOfSeq
    <2>8. d = After(step, left, q)
      BY <1>3, <2>1, <2>2, <2>3, <2>4, <2>5, <2>6 DEF RemoveRoom
    <2>9. Sound(a) /\ Lighter(c, a)
      BY <2>2, DropEffect
    <2>10. Sound(b) /\ Lighter(a, b)
      BY <2>3, <2>9, ForgetRoomEffect
    <2>11. Sound(left) /\ Lighter(b, left)
      BY <2>4, <2>5, <2>10, RetireMailEffect
    <2>12. ASSUME NEW i \in 1 .. Len(q), NEW x \in CourierType, Sound(x)
           PROVE  Sound(step[q[i]][x]) /\ Lighter(x, step[q[i]][x])
      <3>1. PICK k, y : k = q[i] /\ k \in Calls /\ y = EndRound(x, k, r, outcome)
        BY <2>7
      <3>2. step[q[i]][x] = y
        BY <3>1
      <3>3. Sound(y) /\ Lighter(x, y)
        BY <2>12, <3>1, EndRoundEffect
      <3> QED BY <3>2, <3>3
    <2> HIDE DEF step
    <2>13. Sound(d) /\ Lighter(left, d)
      BY <2>7, <2>8, <2>11, <2>12, LoopLightens
    <2>14. /\ a \in CourierType /\ b \in CourierType /\ left \in CourierType
           /\ d \in CourierType
      BY <2>9, <2>10, <2>11, <2>13 DEF Sound
    <2>15. Lighter(c, b)
      BY <1>1, <2>9, <2>10, <2>14, LighterTransitive
    <2>16. Lighter(c, left)
      BY <1>1, <2>11, <2>14, <2>15, LighterTransitive
    <2> QED BY <1>1, <2>13, <2>14, <2>16, LighterTransitive
  <1> QED BY <1>2, <1>3

LEMMA ExpireRoomsEffect ==
    ASSUME NEW c, Sound(c), NEW now, NEW d, d = ExpireRooms(c, now)
    PROVE  Sound(d) /\ Lighter(c, d)
  <1> DEFINE step == [r \in Rooms |-> [x \in CourierType |-> ExpireRoom(x, r, now)]]
  <1>1. PICK q : q = RoomOrder /\ q \in Seq(Rooms)
    BY OrderProperties
  <1>2. Len(q) \in Nat /\ \A i \in 1 .. Len(q) : q[i] \in Rooms
    BY <1>1, LenProperties, ElementOfSeq
  <1>3. d = After(step, c, q)
    BY <1>1 DEF ExpireRooms
  <1>4. ASSUME NEW i \in 1 .. Len(q), NEW x \in CourierType, Sound(x)
        PROVE  Sound(step[q[i]][x]) /\ Lighter(x, step[q[i]][x])
    <2>1. PICK r, y : r = q[i] /\ r \in Rooms /\ y = ExpireRoom(x, r, now)
      BY <1>2
    <2>2. step[q[i]][x] = y
      BY <2>1
    <2>3. y = x \/ y = RemoveRoom(x, r, "Expired")
      BY <2>1 DEF ExpireRoom
    <2>4. "Expired" \in States
      BY DEF States
    <2>5. Sound(y) /\ Lighter(x, y)
      BY <1>4, <2>1, <2>3, <2>4, RemoveRoomEffect, LighterSame
    <2> QED BY <2>2, <2>5
  <1> HIDE DEF step
  <1> QED BY <1>2, <1>3, <1>4, LoopLightens

LEMMA ExpireOneEffect ==
    ASSUME NEW c, Sound(c), NEW e \in Envelope,
           e.replyTo = None <=> e.kind \in {"Tell", "Ask"},
           NEW d, d = ExpireOne(c, e)
    PROVE  Sound(d) /\ Lighter(c, d)
  <1>1. c \in CourierType
    BY DEF Sound
  <1>2. /\ e.id \in Messages /\ e.call \in Calls
        /\ e.kind = "Reply" => e.replyTo \in Messages
    BY DEF Envelope, Maybe, Kinds
  <1>3. "Expired" \in States /\ "Replied" \in States
    BY DEF States
  <1>4. PICK a : a = Retire(c, e.id, "Expired")
    OBVIOUS
  <1>5. PICK b : b = IF MatchesCall(a, e) THEN EndCall(a, e.call) ELSE a
    OBVIOUS
  <1>6. d = IF e.kind = "Reply" THEN Retire(b, e.replyTo, "Replied") ELSE b
    BY <1>4, <1>5 DEF ExpireOne
  <1>7. Sound(a) /\ Lighter(c, a) /\ a \in CourierType
    BY <1>2, <1>3, <1>4, RetireEffect DEF Sound
  <1>8. Sound(b) /\ Lighter(a, b) /\ b \in CourierType
    <2>1. CASE MatchesCall(a, e)
      <3>1. b = EndCall(a, e.call)
        BY <1>5, <2>1
      <3> QED BY <1>2, <1>7, <3>1, EndCallEffect DEF Sound
    <2>2. CASE ~MatchesCall(a, e)
      BY <1>5, <1>7, <2>2, LighterSame
    <2> QED BY <2>1, <2>2
  <1>9. Sound(d) /\ Lighter(b, d) /\ d \in CourierType
    <2>1. CASE e.kind = "Reply"
      <3>1. d = Retire(b, e.replyTo, "Replied")
        BY <1>6, <2>1
      <3> QED BY <1>2, <1>3, <1>8, <2>1, <3>1, RetireEffect DEF Sound
    <2>2. CASE e.kind # "Reply"
      BY <1>6, <1>8, <2>2, LighterSame
    <2> QED BY <2>1, <2>2
  <1>10. Lighter(c, b)
    BY <1>1, <1>7, <1>8, LighterTransitive
  <1> QED BY <1>1, <1>8, <1>9, <1>10, LighterTransitive

LEMMA ExpireWaitingEffect ==
    ASSUME NEW c, Sound(c), NEW s \in Sessions, NEW now, NEW d, d = ExpireWaiting(c, s, now)
    PROVE  Sound(d) /\ Lighter(c, d)
  <1> DEFINE step == [e \in Envelope |-> [x \in CourierType |-> ExpireOne(x, e)]]
  <1>1. c \in CourierType /\ Addressed(c)
    BY DEF Sound
  <1>2. PICK late : late = {e \in Mail(c) : e.target = s /\ e.deadline <= now}
    OBVIOUS
  <1>3. PICK q : q = InBoxOrder(c, late) /\ q \in Seq(Envelope) /\ Range(q) \subseteq late
    BY <1>1, InBoxOrderIsMail
  <1>4. ASSUME NEW i \in 1 .. Len(q)
        PROVE  /\ q[i] \in Envelope
               /\ q[i].replyTo = None <=> q[i].kind \in {"Tell", "Ask"}
    <2>1. q[i] \in Envelope /\ q[i] \in Range(q)
      BY <1>3, ElementOfSeq, LenProperties DEF Range
    <2>2. q[i] \in Mail(c)
      BY <1>2, <1>3, <2>1
    <2> QED BY <1>1, <2>1, <2>2 DEF Addressed
  <1>5. PICK a : a = Drop(c, late)
    OBVIOUS
  <1>6. Sound(a) /\ Lighter(c, a) /\ a \in CourierType
    BY <1>5, DropEffect DEF Sound
  <1>7. d = After(step, a, q)
    BY <1>2, <1>3, <1>5 DEF ExpireWaiting
  <1>8. ASSUME NEW i \in 1 .. Len(q), NEW x \in CourierType, Sound(x)
        PROVE  Sound(step[q[i]][x]) /\ Lighter(x, step[q[i]][x])
    <2>1. PICK e, y : e = q[i] /\ y = ExpireOne(x, e)
      OBVIOUS
    <2>2. e \in Envelope /\ (e.replyTo = None <=> e.kind \in {"Tell", "Ask"})
      BY <1>4, <2>1
    <2>3. step[q[i]][x] = y
      BY <2>1, <2>2
    <2>4. Sound(y) /\ Lighter(x, y)
      BY <1>8, <2>1, <2>2, ExpireOneEffect
    <2> QED BY <2>3, <2>4
  <1> HIDE DEF step
  <1>9. Len(q) \in Nat
    BY <1>3, LenProperties
  <1>10. Sound(d) /\ Lighter(a, d) /\ d \in CourierType
    BY <1>6, <1>7, <1>8, <1>9, LoopLightens DEF Sound
  <1> QED BY <1>1, <1>6, <1>10, LighterTransitive

LEMMA ExpireCallEffect ==
    ASSUME NEW c, Sound(c), NEW k \in Calls, NEW now, NEW d, d = ExpireCall(c, k, now)
    PROVE  Sound(d) /\ Lighter(c, d)
  <1>1. c \in CourierType
    BY DEF Sound
  <1>2. CASE c.calls[k] # None /\ c.calls[k].deadline <= now
    <2>1. PICK a, m : a = EndCall(c, k) /\ m = c.calls[k].ask
      OBVIOUS
    <2>2. d = Retire(a, m, "Expired")
      BY <1>2, <2>1 DEF ExpireCall
    <2>3. m \in Messages /\ "Expired" \in States
      <3>1. c.calls[k] \in Call
        BY <1>1, <1>2, CourierFields DEF Maybe
      <3> QED BY <2>1, <3>1 DEF Call, States
    <2>4. Sound(a) /\ Lighter(c, a) /\ a \in CourierType
      BY <2>1, EndCallEffect DEF Sound
    <2>5. Sound(d) /\ Lighter(a, d) /\ d \in CourierType
      BY <2>2, <2>3, <2>4, RetireEffect DEF Sound
    <2> QED BY <1>1, <2>4, <2>5, LighterTransitive
  <1>3. CASE ~(c.calls[k] # None /\ c.calls[k].deadline <= now)
    <2>1. d = c
      BY <1>3 DEF ExpireCall
    <2> QED BY <1>1, <2>1, LighterSame
  <1> QED BY <1>2, <1>3

LEMMA SweepEffect ==
    ASSUME NEW c, Sound(c), NEW now, NEW d, d = Sweep(c, now)
    PROVE  Sound(d) /\ Lighter(c, d)
  <1> DEFINE empty == [s \in Sessions |-> [x \in CourierType |-> ExpireWaiting(x, s, now)]]
             end == [k \in Calls |-> [x \in CourierType |-> ExpireCall(x, k, now)]]
  <1>1. c \in CourierType
    BY DEF Sound
  <1>2. PICK a : a = ExpireRooms(c, now)
    OBVIOUS
  <1>3. PICK p, q : p = SessionOrder /\ q = CallOrder
    OBVIOUS
  <1>4. /\ Len(p) \in Nat /\ \A i \in 1 .. Len(p) : p[i] \in Sessions
        /\ Len(q) \in Nat /\ \A i \in 1 .. Len(q) : q[i] \in Calls
    <2>1. p \in Seq(Sessions) /\ q \in Seq(Calls)
      BY <1>3, OrderProperties
    <2> QED BY <2>1, LenProperties, ElementOfSeq
  <1>5. PICK b : b = After(empty, a, p)
    OBVIOUS
  <1>6. d = c \/ d = After(end, b, q)
    BY <1>2, <1>3, <1>5 DEF Sweep
  <1>7. Sound(a) /\ Lighter(c, a) /\ a \in CourierType
    BY <1>2, ExpireRoomsEffect DEF Sound
  <1>8. ASSUME NEW i \in 1 .. Len(p), NEW x \in CourierType, Sound(x)
        PROVE  Sound(empty[p[i]][x]) /\ Lighter(x, empty[p[i]][x])
    <2>1. PICK s, y : s = p[i] /\ s \in Sessions /\ y = ExpireWaiting(x, s, now)
      BY <1>4
    <2>2. empty[p[i]][x] = y
      BY <2>1
    <2>3. Sound(y) /\ Lighter(x, y)
      BY <1>8, <2>1, ExpireWaitingEffect
    <2> QED BY <2>2, <2>3
  <1>9. ASSUME NEW i \in 1 .. Len(q), NEW x \in CourierType, Sound(x)
        PROVE  Sound(end[q[i]][x]) /\ Lighter(x, end[q[i]][x])
    <2>1. PICK k, y : k = q[i] /\ k \in Calls /\ y = ExpireCall(x, k, now)
      BY <1>4
    <2>2. end[q[i]][x] = y
      BY <2>1
    <2>3. Sound(y) /\ Lighter(x, y)
      BY <1>9, <2>1, ExpireCallEffect
    <2> QED BY <2>2, <2>3
  <1> HIDE DEF empty, end
  <1>10. Sound(b) /\ Lighter(a, b) /\ b \in CourierType
    BY <1>4, <1>5, <1>7, <1>8, LoopLightens DEF Sound
  <1>11. CASE d = c
    BY <1>1, <1>11, LighterSame
  <1>12. CASE d = After(end, b, q)
    <2>1. Sound(d) /\ Lighter(b, d) /\ d \in CourierType
      BY <1>4, <1>9, <1>10, <1>12, LoopLightens DEF Sound
    <2>2. Lighter(c, b)
      BY <1>1, <1>7, <1>10, LighterTransitive
    <2> QED BY <1>1, <1>10, <2>1, <2>2, LighterTransitive
  <1> QED BY <1>6, <1>11, <1>12

-----------------------------------------------------------------------------
(* The end of a session.                                                   *)

\* d has the mailboxes of c but the one of s, with no more in them.
LighterBut(c, d, s) ==
    /\ d.box[s] = None
    /\ \A x \in Sessions \ {s} : d.box[x] = None <=> c.box[x] = None
    /\ \A x \in Sessions \ {s} : c.box[x] # None =>
          /\ d.box[x].ready = c.box[x].ready
          /\ Range(d.box[x].queue) \subseteq Range(c.box[x].queue)
          /\ Len(d.box[x].queue) <= Len(c.box[x].queue)
          /\ d.box[x].bytes <= c.box[x].bytes
          /\ Distinct(c.box[x].queue) => Distinct(d.box[x].queue)
    /\ d.charged <= c.charged

LEMMA LighterThenBut ==
    ASSUME NEW a \in CourierType, NEW b \in CourierType, NEW c \in CourierType,
           NEW s, Lighter(a, b), LighterBut(b, c, s)
    PROVE  LighterBut(a, c, s)
  <1>1. a.charged \in Nat /\ b.charged \in Nat /\ c.charged \in Nat
    BY CourierFields
  <1>2. ASSUME NEW x \in Sessions \ {s}
        PROVE  c.box[x] = None <=> a.box[x] = None
    BY DEF Lighter, LighterBut
  <1>3. ASSUME NEW x \in Sessions \ {s}, a.box[x] # None
        PROVE  /\ c.box[x].ready = a.box[x].ready
               /\ Range(c.box[x].queue) \subseteq Range(a.box[x].queue)
               /\ Len(c.box[x].queue) <= Len(a.box[x].queue)
               /\ c.box[x].bytes <= a.box[x].bytes
               /\ Distinct(a.box[x].queue) => Distinct(c.box[x].queue)
    <2>1. b.box[x] # None /\ c.box[x] # None
      BY <1>3 DEF Lighter, LighterBut
    <2>2. /\ a.box[x].bytes \in Nat /\ b.box[x].bytes \in Nat /\ c.box[x].bytes \in Nat
          /\ Len(a.box[x].queue) \in Nat /\ Len(b.box[x].queue) \in Nat
          /\ Len(c.box[x].queue) \in Nat
      BY <1>3, <2>1, MailboxFields, LenProperties
    <2>3. /\ b.box[x].ready = a.box[x].ready
          /\ Range(b.box[x].queue) \subseteq Range(a.box[x].queue)
          /\ Len(b.box[x].queue) <= Len(a.box[x].queue)
          /\ b.box[x].bytes <= a.box[x].bytes
          /\ Distinct(a.box[x].queue) => Distinct(b.box[x].queue)
      BY <1>3 DEF Lighter
    <2>4. /\ c.box[x].ready = b.box[x].ready
          /\ Range(c.box[x].queue) \subseteq Range(b.box[x].queue)
          /\ Len(c.box[x].queue) <= Len(b.box[x].queue)
          /\ c.box[x].bytes <= b.box[x].bytes
          /\ Distinct(b.box[x].queue) => Distinct(c.box[x].queue)
      BY <2>1 DEF LighterBut
    <2>5. Len(c.box[x].queue) <= Len(a.box[x].queue) /\ c.box[x].bytes <= a.box[x].bytes
      BY <2>2, <2>3, <2>4, AtMostTransitive
    <2> QED BY <2>3, <2>4, <2>5
  <1>4. c.charged <= a.charged
    BY <1>1 DEF Lighter, LighterBut
  <1>5. c.box[s] = None
    BY DEF LighterBut
  <1> QED BY <1>2, <1>3, <1>4, <1>5 DEF LighterBut

LEMMA ButThenLighter ==
    ASSUME NEW a \in CourierType, NEW b \in CourierType, NEW c \in CourierType,
           NEW s \in Sessions, LighterBut(a, b, s), Lighter(b, c)
    PROVE  LighterBut(a, c, s)
  <1>1. a.charged \in Nat /\ b.charged \in Nat /\ c.charged \in Nat
    BY CourierFields
  <1>2. ASSUME NEW x \in Sessions \ {s}
        PROVE  c.box[x] = None <=> a.box[x] = None
    BY DEF Lighter, LighterBut
  <1>3. ASSUME NEW x \in Sessions \ {s}, a.box[x] # None
        PROVE  /\ c.box[x].ready = a.box[x].ready
               /\ Range(c.box[x].queue) \subseteq Range(a.box[x].queue)
               /\ Len(c.box[x].queue) <= Len(a.box[x].queue)
               /\ c.box[x].bytes <= a.box[x].bytes
               /\ Distinct(a.box[x].queue) => Distinct(c.box[x].queue)
    <2>1. b.box[x] # None /\ c.box[x] # None
      BY <1>3 DEF Lighter, LighterBut
    <2>2. /\ a.box[x].bytes \in Nat /\ b.box[x].bytes \in Nat /\ c.box[x].bytes \in Nat
          /\ Len(a.box[x].queue) \in Nat /\ Len(b.box[x].queue) \in Nat
          /\ Len(c.box[x].queue) \in Nat
      BY <1>3, <2>1, MailboxFields, LenProperties
    <2>3. /\ b.box[x].ready = a.box[x].ready
          /\ Range(b.box[x].queue) \subseteq Range(a.box[x].queue)
          /\ Len(b.box[x].queue) <= Len(a.box[x].queue)
          /\ b.box[x].bytes <= a.box[x].bytes
          /\ Distinct(a.box[x].queue) => Distinct(b.box[x].queue)
      BY <1>3 DEF LighterBut
    <2>4. /\ c.box[x].ready = b.box[x].ready
          /\ Range(c.box[x].queue) \subseteq Range(b.box[x].queue)
          /\ Len(c.box[x].queue) <= Len(b.box[x].queue)
          /\ c.box[x].bytes <= b.box[x].bytes
          /\ Distinct(b.box[x].queue) => Distinct(c.box[x].queue)
      BY <2>1 DEF Lighter
    <2>5. Len(c.box[x].queue) <= Len(a.box[x].queue) /\ c.box[x].bytes <= a.box[x].bytes
      BY <2>2, <2>3, <2>4, AtMostTransitive
    <2> QED BY <2>3, <2>4, <2>5
  <1>4. c.charged <= a.charged
    BY <1>1 DEF Lighter, LighterBut
  <1>5. c.box[s] = None
    BY DEF Lighter, LighterBut
  <1> QED BY <1>2, <1>3, <1>4, <1>5 DEF LighterBut

LEMMA LeaveRoomEffect ==
    ASSUME NEW c, Sound(c), NEW r \in Rooms, NEW s, NEW d, d = LeaveRoom(c, r, s)
    PROVE  Sound(d) /\ Lighter(c, d)
  <1>1. c \in CourierType /\ "Cancelled" \in States
    BY DEF Sound, States
  <1>2. d = c \/ d = RemoveRoom(c, r, "Cancelled")
    BY DEF LeaveRoom
  <1> QED BY <1>1, <1>2, RemoveRoomEffect, LighterSame

LEMMA LeaveCallEffect ==
    ASSUME NEW c, Sound(c), NEW k \in Calls, NEW s, NEW d, d = LeaveCall(c, k, s)
    PROVE  Sound(d) /\ Lighter(c, d)
  <1>1. c \in CourierType
    BY DEF Sound
  <1>2. PICK call : call = c.calls[k]
    OBVIOUS
  <1>3. CASE call = None \/ s \notin {call.source, call.target}
    <2>1. d = c
      BY <1>2, <1>3 DEF LeaveCall
    <2> QED BY <1>1, <2>1, LighterSame
  <1>4. CASE ~(call = None \/ s \notin {call.source, call.target})
    <2>1. /\ call.ask \in Messages /\ call.target \in Sessions
      <3>1. call \in Call
        BY <1>1, <1>2, <1>4, CourierFields DEF Maybe
      <3> QED BY <3>1 DEF Call
    <2>2. PICK a : a = EndCall(c, k)
      OBVIOUS
    <2>3. PICK b, last :
             /\ b = IF call.stage = "Queued" /\ call.source = s
                      THEN Withdraw(a, call.target, call.ask) ELSE a
             /\ last = IF call.stage = "Replied" THEN "Replied" ELSE "Cancelled"
      OBVIOUS
    <2>4. d = Retire(b, call.ask, last)
      BY <1>2, <1>4, <2>2, <2>3 DEF LeaveCall
    <2>5. last \in States
      BY <2>3 DEF States
    <2>6. Sound(a) /\ Lighter(c, a) /\ a \in CourierType
      BY <2>2, EndCallEffect DEF Sound
    <2>7. Sound(b) /\ Lighter(a, b) /\ b \in CourierType
      <3>1. b = a \/ b = Withdraw(a, call.target, call.ask)
        BY <2>3
      <3> QED BY <2>1, <2>6, <3>1, WithdrawEffect, LighterSame DEF Sound
    <2>8. Sound(d) /\ Lighter(b, d) /\ d \in CourierType
      BY <2>1, <2>4, <2>5, <2>7, RetireEffect DEF Sound
    <2>9. Lighter(c, b)
      BY <1>1, <2>6, <2>7, LighterTransitive
    <2> QED BY <1>1, <2>7, <2>8, <2>9, LighterTransitive
  <1> QED BY <1>3, <1>4

\* A mailbox that goes takes its bytes with it.
ForgetMailbox(c, s) == [c EXCEPT !.box[s] = None, !.charged = Minus(@, c.box[s].bytes)]

LEMMA ForgetMailboxEffect ==
    ASSUME NEW c, Sound(c), NEW s \in Sessions, c.box[s] # None,
           NEW d, d = ForgetMailbox(c, s)
    PROVE  /\ Sound(d) /\ LighterBut(c, d, s)
           /\ d.calls = c.calls /\ d.rooms = c.rooms
           /\ d.states = c.states /\ d.retired = c.retired
           /\ Mail(d) = {e \in Mail(c) : e.target # s}
  <1>1. c \in CourierType /\ Addressed(c) /\ Charged(c)
    BY DEF Sound
  <1>2. PICK n, m : n = c.box[s].bytes /\ m = Minus(c.charged, n)
    OBVIOUS
  <1>3. PICK box : box = [c.box EXCEPT ![s] = None]
    OBVIOUS
  <1>4. /\ box \in [Sessions -> Maybe(Mailbox)]
        /\ box[s] = None
        /\ \A x \in Sessions : x # s => box[x] = c.box[x]
    BY <1>1, <1>3, CourierFields DEF Maybe
  <1>5. n \in Nat /\ c.charged \in Nat /\ m \in Nat /\ m <= c.charged
    BY <1>1, <1>2, MailboxFields, CourierFields, MinusIsNat
  <1>6. d = [c EXCEPT !.box = box, !.charged = m]
    BY <1>2, <1>3 DEF ForgetMailbox
  <1>7. /\ d \in CourierType /\ d.box = box /\ d.charged = m
        /\ d.calls = c.calls /\ d.rooms = c.rooms
        /\ d.states = c.states /\ d.retired = c.retired
    BY <1>1, <1>4, <1>5, <1>6 DEF CourierType
  <1>8. LighterBut(c, d, s)
    <2>1. ASSUME NEW x \in Sessions \ {s}
          PROVE  d.box[x] = c.box[x]
      BY <1>4, <1>7
    <2>2. ASSUME NEW x \in Sessions \ {s}, c.box[x] # None
          PROVE  Len(d.box[x].queue) <= Len(c.box[x].queue) /\ d.box[x].bytes <= c.box[x].bytes
      <3>1. Len(c.box[x].queue) \in Nat /\ c.box[x].bytes \in Nat /\ d.box[x] = c.box[x]
        BY <1>1, <2>1, <2>2, MailboxFields, LenProperties
      <3>2. Len(c.box[x].queue) <= Len(c.box[x].queue) /\ c.box[x].bytes <= c.box[x].bytes
        BY <3>1
      <3> QED BY <3>1, <3>2
    <2> QED BY <1>4, <1>5, <1>7, <2>1, <2>2 DEF LighterBut
  <1>9. Mail(d) = {e \in Mail(c) : e.target # s}
    <2>1. ASSUME NEW e
          PROVE  e \in Mail(d) <=> e \in Mail(c) /\ e.target # s
      <3>1. ASSUME e \in Mail(d)
            PROVE  e \in Mail(c) /\ e.target # s
        <4>1. PICK x \in Sessions : box[x] # None /\ e \in Range(box[x].queue)
          BY <1>7, <3>1 DEF Mail
        <4>2. x # s /\ c.box[x] = box[x]
          BY <1>4, <4>1
        <4> QED BY <1>1, <4>1, <4>2 DEF Mail, Addressed
      <3>2. ASSUME e \in Mail(c), e.target # s
            PROVE  e \in Mail(d)
        <4>1. PICK x \in Sessions : c.box[x] # None /\ e \in Range(c.box[x].queue)
          BY <3>2 DEF Mail
        <4>2. x # s
          BY <1>1, <3>2, <4>1 DEF Addressed
        <4>3. d.box[x] = c.box[x]
          BY <1>4, <1>7, <4>2
        <4> QED BY <4>1, <4>3 DEF Mail
      <3> QED BY <3>1, <3>2
    <2> QED BY <2>1
  <1>10. Addressed(d)
    <2>1. \A x \in Sessions : d.box[x] # None => c.box[x] # None /\ d.box[x] = c.box[x]
      BY <1>4, <1>7
    <2>2. \A x \in Sessions : d.box[x] # None => \A e \in Range(d.box[x].queue) : e.target = x
      BY <1>1, <2>1 DEF Addressed
    <2>3. \A e \in Mail(d) : e.replyTo = None <=> e.kind \in {"Tell", "Ask"}
      BY <1>1, <1>9 DEF Addressed
    <2> QED BY <2>2, <2>3 DEF Addressed
  <1>11. Charged(d)
    <2>1. \A x \in Sessions : d.box[x] # None => d.box[x].bytes = Bytes(d.box[x].queue)
      <3>1. \A x \in Sessions : d.box[x] # None => c.box[x] # None /\ d.box[x] = c.box[x]
        BY <1>4, <1>7
      <3> QED BY <1>1, <3>1 DEF Charged
    <2>2. Weights(c) \in [Sessions -> Nat] /\ Weights(d) \in [Sessions -> Nat]
      BY <1>1, <1>7, WeightsAreNat
    <2>3. ASSUME NEW x \in Sessions
          PROVE  Weights(c)[x] = IF x = s THEN Weights(d)[x] + n ELSE Weights(d)[x]
      <3>1. /\ Weights(c)[x] = IF c.box[x] = None THEN 0 ELSE Bytes(c.box[x].queue)
            /\ Weights(d)[x] = IF d.box[x] = None THEN 0 ELSE Bytes(d.box[x].queue)
        BY <1>1, <1>7, WeightsAreNat, Zenon
      <3>2. CASE x = s
        <4>1. d.box[x] = None /\ n = Bytes(c.box[x].queue)
          BY <1>1, <1>2, <1>4, <1>7, <3>2 DEF Charged
        <4> QED BY <1>5, <3>1, <3>2, <4>1
      <3>3. CASE x # s
        <4>1. d.box[x] = c.box[x]
          BY <1>4, <1>7, <3>3
        <4> QED BY <3>1, <3>3, <4>1
      <3> QED BY <3>2, <3>3
    <2>4. Total(Weights(d)) \in Nat /\ Total(Weights(c)) = Total(Weights(d)) + n
      <3>1. n \in Nat
        BY <1>5
      <3> QED BY <2>2, <2>3, <3>1, TotalChanges
    <2>5. c.charged = Total(Weights(c))
      BY <1>1 DEF Charged
    <2>6. m = Total(Weights(d))
      <3>1. PICK w : w = Total(Weights(d)) /\ w \in Nat /\ c.charged = w + n
        BY <2>4, <2>5
      <3>2. m = Minus(w + n, n) /\ n \in Nat
        BY <1>2, <1>5, <3>1
      <3>3. m = w
        BY ONLY <3>1, <3>2 DEF Minus
      <3> QED BY <3>1, <3>3
    <2> QED BY <1>7, <2>1, <2>6 DEF Charged
  <1> QED BY <1>7, <1>8, <1>9, <1>10, <1>11 DEF Sound

LEMMA EndMailboxEffect ==
    ASSUME NEW c, Sound(c), NEW s \in Sessions, c.box[s] # None,
           NEW d, d = EndMailbox(c, s)
    PROVE  Sound(d) /\ LighterBut(c, d, s)
  <1>1. c \in CourierType /\ "Cancelled" \in States
    BY DEF Sound, States
  <1>2. PICK a : a = ForgetMailbox(c, s)
    OBVIOUS
  <1>3. PICK q : q = c.box[s].queue /\ q \in Seq(Envelope)
    BY <1>1, MailboxFields
  <1>4. d = RetireMail(a, q, "Cancelled")
    BY <1>2, <1>3 DEF EndMailbox, ForgetMailbox
  <1>5. Sound(a) /\ LighterBut(c, a, s) /\ a \in CourierType
    <2>1. Sound(a) /\ LighterBut(c, a, s)
      BY <1>2, ForgetMailboxEffect, Zenon
    <2> QED BY <2>1 DEF Sound
  <1>6. Sound(d) /\ Lighter(a, d) /\ d \in CourierType
    BY <1>1, <1>3, <1>4, <1>5, RetireMailEffect DEF Sound
  <1> QED BY <1>1, <1>5, <1>6, ButThenLighter

LEMMA SessionEndedEffect ==
    ASSUME NEW c, Sound(c), NEW s \in Sessions, NEW d, d = SessionEnded(c, s)
    PROVE  Sound(d) /\ LighterBut(c, d, s)
  <1> DEFINE leave == [r \in Rooms |-> [x \in CourierType |-> LeaveRoom(x, r, s)]]
             end == [k \in Calls |-> [x \in CourierType |-> LeaveCall(x, k, s)]]
  <1>1. c \in CourierType
    BY DEF Sound
  <1>2. PICK p, q : p = RoomOrder /\ q = CallOrder
    OBVIOUS
  <1>3. /\ Len(p) \in Nat /\ \A i \in 1 .. Len(p) : p[i] \in Rooms
        /\ Len(q) \in Nat /\ \A i \in 1 .. Len(q) : q[i] \in Calls
    <2>1. p \in Seq(Rooms) /\ q \in Seq(Calls)
      BY <1>2, OrderProperties
    <2> QED BY <2>1, LenProperties, ElementOfSeq
  <1>4. PICK left : left = After(leave, c, p)
    OBVIOUS
  <1>5. PICK a : a = EndMailbox(left, s)
    OBVIOUS
  <1>6. d = IF left.box[s] = None THEN left ELSE After(end, a, q)
    BY <1>2, <1>4, <1>5 DEF SessionEnded
  <1>7. ASSUME NEW i \in 1 .. Len(p), NEW x \in CourierType, Sound(x)
        PROVE  Sound(leave[p[i]][x]) /\ Lighter(x, leave[p[i]][x])
    <2>1. PICK r, y : r = p[i] /\ r \in Rooms /\ y = LeaveRoom(x, r, s)
      BY <1>3
    <2>2. leave[p[i]][x] = y
      BY <2>1
    <2>3. Sound(y) /\ Lighter(x, y)
      BY <1>7, <2>1, LeaveRoomEffect
    <2> QED BY <2>2, <2>3
  <1>8. ASSUME NEW i \in 1 .. Len(q), NEW x \in CourierType, Sound(x)
        PROVE  Sound(end[q[i]][x]) /\ Lighter(x, end[q[i]][x])
    <2>1. PICK k, y : k = q[i] /\ k \in Calls /\ y = LeaveCall(x, k, s)
      BY <1>3
    <2>2. end[q[i]][x] = y
      BY <2>1
    <2>3. Sound(y) /\ Lighter(x, y)
      BY <1>8, <2>1, LeaveCallEffect
    <2> QED BY <2>2, <2>3
  <1> HIDE DEF leave, end
  <1>9. Sound(left) /\ Lighter(c, left) /\ left \in CourierType
    BY <1>3, <1>4, <1>7, LoopLightens DEF Sound
  <1>10. CASE left.box[s] = None
    <2>1. d = left
      BY <1>6, <1>10
    <2>2. LighterBut(c, left, s)
      BY <1>9, <1>10 DEF Lighter, LighterBut
    <2> QED BY <1>9, <2>1, <2>2
  <1>11. CASE left.box[s] # None
    <2>1. d = After(end, a, q)
      BY <1>6, <1>11
    <2>2. Sound(a) /\ LighterBut(left, a, s) /\ a \in CourierType
      BY <1>5, <1>9, <1>11, EndMailboxEffect DEF Sound
    <2>3. Sound(d) /\ Lighter(a, d) /\ d \in CourierType
      BY <1>3, <1>8, <2>1, <2>2, LoopLightens DEF Sound
    <2>4. LighterBut(c, a, s)
      BY <1>1, <1>9, <2>2, LighterThenBut
    <2> QED BY <1>1, <2>2, <2>3, <2>4, ButThenLighter
  <1> QED BY <1>10, <1>11

-----------------------------------------------------------------------------
(* Sending.                                                                *)

\* d has the mailboxes of c, open and closed as they were.
SameBoxes(c, d) ==
    \A s \in Sessions : /\ d.box[s] = None <=> c.box[s] = None
                        /\ c.box[s] # None => d.box[s].ready = c.box[s].ready

LEMMA LighterHasSameBoxes ==
    ASSUME NEW c, NEW d, Lighter(c, d)
    PROVE  SameBoxes(c, d)
  BY DEF Lighter, SameBoxes

LEMMA SameBoxesTransitive ==
    ASSUME NEW a, NEW b, NEW c, SameBoxes(a, b), SameBoxes(b, c)
    PROVE  SameBoxes(a, c)
  BY DEF SameBoxes

\* What changes no mailbox changes no mail.
LEMMA NoMailMoves ==
    ASSUME NEW c, Sound(c), NEW d \in CourierType, d.box = c.box, d.charged = c.charged
    PROVE  Sound(d) /\ SameBoxes(c, d) /\ Lighter(c, d) /\ Mail(d) = Mail(c)
  <1>1. c \in CourierType
    BY DEF Sound
  <1>2. Lighter(c, d) /\ Mail(d) = Mail(c) /\ Sound(d)
    BY <1>1, LighterSame
  <1> QED BY <1>2, LighterHasSameBoxes

\* d is c with e at the end of its target's mailbox.
Queued(c, e, d) ==
    /\ Sound(d) /\ SameBoxes(c, d) /\ Mail(d) = Mail(c) \cup {e}
    /\ \A x \in Sessions : x # e.target => d.box[x] = c.box[x]
    /\ d.box[e.target].queue = Append(c.box[e.target].queue, e)
    /\ d.box[e.target].bytes = c.box[e.target].bytes + e.size
    /\ d.calls = c.calls /\ d.rooms = c.rooms /\ d.retired = c.retired
    /\ d.states = [c.states EXCEPT ![e.id] = "Accepted"]
    /\ d.charged = c.charged + e.size

LEMMA EnqueueEffect ==
    ASSUME NEW c, Sound(c), NEW e \in Envelope, c.box[e.target] # None,
           e.replyTo = None <=> e.kind \in {"Tell", "Ask"},
           NEW d, d = Enqueue(c, e)
    PROVE  Queued(c, e, d)
  <1>1. c \in CourierType /\ Addressed(c) /\ Charged(c)
    BY DEF Sound
  <1>2. e.target \in Sessions /\ e.id \in Messages /\ e.size \in Nat
    BY DEF Envelope
  <1>3. PICK s, b, q : s = e.target /\ b = c.box[s] /\ q = b.queue
    OBVIOUS
  <1>4. /\ s \in Sessions /\ b \in Mailbox /\ q \in Seq(Envelope)
        /\ b.bytes \in Nat /\ b.ready \in BOOLEAN
    BY <1>1, <1>2, <1>3, MailboxFields
  <1>5. PICK p, n, m : p = Append(q, e) /\ n = b.bytes + e.size /\ m = c.charged + e.size
    OBVIOUS
  <1>6. /\ p \in Seq(Envelope) /\ n \in Nat /\ m \in Nat /\ Range(p) = Range(q) \cup {e}
        /\ Bytes(p) = Bytes(q) + e.size
    BY <1>1, <1>2, <1>4, <1>5, AppendProperties, RangeOfAppend, BytesOfAppend, CourierFields
  <1>7. PICK a : a = [ready |-> b.ready, queue |-> p, bytes |-> n]
    OBVIOUS
  <1>8. a \in Mailbox /\ a # None /\ a.ready = b.ready /\ a.queue = p /\ a.bytes = n
    BY <1>4, <1>6, <1>7, MakeMailbox
  <1>9. PICK box : box = [c.box EXCEPT ![s] = a]
    OBVIOUS
  <1>10. /\ box \in [Sessions -> Maybe(Mailbox)]
         /\ box[s] = a
         /\ \A x \in Sessions : x # s => box[x] = c.box[x]
    BY <1>1, <1>4, <1>8, <1>9, CourierFields DEF Maybe
  <1>11. PICK states : states = [c.states EXCEPT ![e.id] = "Accepted"]
    OBVIOUS
  <1>12. states \in [Messages -> Maybe(States)]
    BY <1>1, <1>11, CourierFields DEF Maybe, States
  <1>13. d = [c EXCEPT !.states = states, !.box = box, !.charged = m]
    <2>1. PICK half : half = [b EXCEPT !.bytes = n]
      OBVIOUS
    <2>2. half \in Mailbox /\ half.ready = b.ready /\ half.queue = q /\ half.bytes = n
      BY <1>3, <1>4, <1>6, <2>1 DEF Mailbox
    <2>3. [half EXCEPT !.queue = p] = a
      BY <1>6, <1>7, <2>2 DEF Mailbox
    <2>4. Filled(b, e) = a
      <3>1. half.queue = q
        BY <2>2
      <3>2. Filled(b, e) = [half EXCEPT !.queue = Append(half.queue, e)]
        BY <1>5, <2>1 DEF Filled
      <3> QED BY <1>5, <2>3, <3>1, <3>2
    <2>5. box = [c.box EXCEPT ![s] = Filled(@, e)]
      BY <1>3, <1>9, <2>4
    <2> QED BY <1>3, <1>5, <1>11, <2>5 DEF Enqueue
  <1>14. /\ d \in CourierType /\ d.box = box /\ d.charged = m /\ d.states = states
         /\ d.calls = c.calls /\ d.rooms = c.rooms /\ d.retired = c.retired
    BY <1>1, <1>6, <1>10, <1>12, <1>13 DEF CourierType
  <1>15. SameBoxes(c, d)
    BY <1>3, <1>8, <1>10, <1>14 DEF SameBoxes
  <1>16. Mail(d) = Mail(c) \cup {e}
    <2>1. ASSUME NEW x
          PROVE  x \in Mail(d) <=> x \in Mail(c) \/ x = e
      <3>1. ASSUME x \in Mail(d)
            PROVE  x \in Mail(c) \/ x = e
        <4>1. PICK t \in Sessions : d.box[t] # None /\ x \in Range(d.box[t].queue)
          BY <3>1 DEF Mail
        <4>2. CASE t = s
          <5>1. x \in Range(q) \cup {e} /\ c.box[s] # None
            BY <1>3, <1>6, <1>8, <1>10, <1>14, <4>1, <4>2
          <5> QED BY <1>3, <1>4, <5>1 DEF Mail
        <4>3. CASE t # s
          <5>1. d.box[t] = c.box[t]
            BY <1>10, <1>14, <4>3
          <5> QED BY <4>1, <5>1 DEF Mail
        <4> QED BY <4>2, <4>3
      <3>2. ASSUME x \in Mail(c) \/ x = e
            PROVE  x \in Mail(d)
        <4>1. d.box[s] # None /\ Range(d.box[s].queue) = Range(q) \cup {e}
          BY <1>6, <1>8, <1>10, <1>14
        <4>2. CASE x = e
          BY <1>4, <4>1, <4>2 DEF Mail
        <4>3. CASE x \in Mail(c)
          <5>1. PICK t \in Sessions : c.box[t] # None /\ x \in Range(c.box[t].queue)
            BY <4>3 DEF Mail
          <5>2. CASE t = s
            BY <1>3, <1>4, <4>1, <5>1, <5>2 DEF Mail
          <5>3. CASE t # s
            <6>1. d.box[t] = c.box[t]
              BY <1>10, <1>14, <5>3
            <6> QED BY <5>1, <6>1 DEF Mail
          <5> QED BY <5>2, <5>3
        <4> QED BY <3>2, <4>2, <4>3
      <3> QED BY <3>1, <3>2
    <2> QED BY <2>1
  <1>17. Addressed(d)
    <2>1. ASSUME NEW x \in Sessions, d.box[x] # None, NEW f \in Range(d.box[x].queue)
          PROVE  f.target = x
      <3>1. CASE x = s
        <4>1. f \in Range(q) \cup {e} /\ c.box[s] # None
          BY <1>3, <1>6, <1>8, <1>10, <1>14, <2>1, <3>1
        <4> QED BY <1>1, <1>3, <1>4, <3>1, <4>1 DEF Addressed
      <3>2. CASE x # s
        <4>1. d.box[x] = c.box[x]
          BY <1>10, <1>14, <3>2
        <4> QED BY <1>1, <2>1, <4>1 DEF Addressed
      <3> QED BY <3>1, <3>2
    <2>2. \A f \in Mail(d) : f.replyTo = None <=> f.kind \in {"Tell", "Ask"}
      BY <1>1, <1>16 DEF Addressed
    <2> QED BY <2>1, <2>2 DEF Addressed
  <1>18. Charged(d)
    <2>1. b.bytes = Bytes(q)
      BY <1>1, <1>3, <1>4 DEF Charged
    <2>2. n = Bytes(p)
      BY <1>5, <1>6, <2>1
    <2>3. ASSUME NEW x \in Sessions, d.box[x] # None
          PROVE  d.box[x].bytes = Bytes(d.box[x].queue)
      <3>1. CASE x = s
        BY <1>8, <1>10, <1>14, <2>2, <3>1
      <3>2. CASE x # s
        <4>1. d.box[x] = c.box[x]
          BY <1>10, <1>14, <3>2
        <4> QED BY <1>1, <2>3, <4>1 DEF Charged
      <3> QED BY <3>1, <3>2
    <2>4. PICK f, h : f = Weights(c) /\ h = Weights(d)
      OBVIOUS
    <2>5. f \in [Sessions -> Nat] /\ h \in [Sessions -> Nat]
      BY <1>1, <1>14, <2>4, WeightsAreNat
    <2>6. \A x \in Sessions : h[x] = IF x = s THEN f[x] + e.size ELSE f[x]
      <3>1. ASSUME NEW x \in Sessions
            PROVE  h[x] = IF x = s THEN f[x] + e.size ELSE f[x]
        <4>1. /\ f[x] = IF c.box[x] = None THEN 0 ELSE Bytes(c.box[x].queue)
              /\ h[x] = IF d.box[x] = None THEN 0 ELSE Bytes(d.box[x].queue)
          BY <1>1, <1>14, <2>4, WeightsAreNat, Zenon
        <4>2. CASE x = s
          <5>1. c.box[x] # None /\ c.box[x].queue = q /\ d.box[x] # None /\ d.box[x].queue = p
            BY <1>3, <1>8, <1>10, <1>14, <4>2
          <5> QED BY <1>6, <4>1, <4>2, <5>1
        <4>3. CASE x # s
          <5>1. d.box[x] = c.box[x]
            BY <1>10, <1>14, <4>3
          <5> QED BY <4>1, <4>3, <5>1
        <4> QED BY <4>2, <4>3
      <3> QED BY <3>1
    <2>7. Total(h) = Total(f) + e.size
      BY <1>2, <1>4, <2>5, <2>6, TotalChanges, ZenonT(30)
    <2>8. d.charged = Total(Weights(d))
      <3>1. c.charged = Total(f)
        BY <1>1, <2>4 DEF Charged
      <3> QED BY <1>5, <1>14, <2>4, <2>7, <3>1
    <2> QED BY <2>3, <2>8 DEF Charged
  <1>19. /\ \A x \in Sessions : x # e.target => d.box[x] = c.box[x]
         /\ d.box[e.target].queue = Append(c.box[e.target].queue, e)
         /\ d.box[e.target].bytes = c.box[e.target].bytes + e.size
    BY <1>3, <1>5, <1>8, <1>10, <1>14
  <1> QED BY <1>5, <1>11, <1>14, <1>15, <1>16, <1>17, <1>18, <1>19 DEF Sound, Queued

LEMMA CallFields ==
    ASSUME NEW c \in CourierType, NEW k \in Calls, c.calls[k] # None
    PROVE  /\ c.calls[k] \in Call
           /\ c.calls[k].ask \in Messages /\ c.calls[k].source \in Sessions
           /\ c.calls[k].target \in Sessions /\ c.calls[k].deadline \in Nat
           /\ c.calls[k].stage \in Stages /\ c.calls[k].room \in Maybe(Rooms)
  <1>1. c.calls[k] \in Call
    BY CourierFields DEF Maybe
  <1> QED BY <1>1 DEF Call

LEMMA SameBoxesHasMailbox ==
    ASSUME NEW c, NEW d, SameBoxes(c, d), NEW s \in Sessions, c.box[s] # None
    PROVE  d.box[s] # None
  BY DEF SameBoxes

LEMMA RouteEffect ==
    ASSUME NEW c, Sound(c), NEW e \in Envelope, e.kind \in {"Tell", "Ask"},
           e.replyTo = None, c.box[e.target] # None, NEW d, d = Route(c, e)
    PROVE  Sound(d) /\ SameBoxes(c, d) /\ d.rooms = c.rooms
  <1>0. e.replyTo = None <=> e.kind \in {"Tell", "Ask"}
    OBVIOUS
  <1>1. c \in CourierType
    BY DEF Sound
  <1>2. CASE e.kind # "Ask"
    <2>1. d = Enqueue(c, e)
      BY <1>2 DEF Route
    <2>2. Queued(c, e, d)
      BY <1>0, <2>1, EnqueueEffect
    <2> QED BY <2>2 DEF Queued
  <1>3. CASE e.kind = "Ask"
    <2>1. PICK call : call = [ask |-> e.id, source |-> e.source, target |-> e.target,
                              deadline |-> e.deadline, stage |-> "Queued", room |-> e.room]
      OBVIOUS
    <2>2. call \in Call /\ e.call \in Calls /\ e.target \in Sessions
      BY <2>1 DEF Call, Envelope, Stages
    <2>3. PICK calls : calls = [c.calls EXCEPT ![e.call] = call]
      OBVIOUS
    <2>4. calls \in [Calls -> Maybe(Call)]
      BY <1>1, <2>2, <2>3, CourierFields DEF Maybe
    <2>0. PICK rooms, states : /\ rooms = c.rooms /\ rooms \in [Rooms -> Maybe(Room)]
                               /\ states = c.states /\ states \in [Messages -> Maybe(States)]
      BY <1>1, CourierFields
    <2>5. PICK a : a = [c EXCEPT !.calls = calls, !.rooms = rooms, !.states = states]
      OBVIOUS
    <2>6. a = [c EXCEPT !.calls[e.call] = call]
      BY <1>1, <2>0, <2>3, <2>5 DEF CourierType
    <2>7. Sound(a) /\ SameBoxes(c, a) /\ a.box = c.box /\ a.rooms = c.rooms
      <3>1. /\ a \in CourierType /\ a.box = c.box /\ a.rooms = rooms
            /\ a.charged = c.charged
        BY <1>1, <2>0, <2>4, <2>5 DEF CourierType
      <3> QED BY <2>0, <3>1, NoMailMoves
    <2>8. d = Enqueue(a, e)
      BY <1>3, <2>1, <2>6 DEF Route
    <2>9. Sound(d) /\ SameBoxes(a, d) /\ d.rooms = a.rooms
      <3>1. a.box[e.target] # None
        BY <2>7
      <3>2. Queued(a, e, d)
        BY <1>0, <2>7, <2>8, <3>1, EnqueueEffect
      <3> QED BY <3>2 DEF Queued
    <2> QED BY <2>7, <2>9, SameBoxesTransitive
  <1> QED BY <1>2, <1>3

LEMMA ReplyEffect ==
    ASSUME NEW c, Sound(c), NEW e \in Envelope, e.kind = "Reply", e.replyTo # None,
           c.box[e.target] # None, c.calls[e.call] # None, NEW d, d = Reply(c, e)
    PROVE  Sound(d) /\ SameBoxes(c, d)
  <1>1. c \in CourierType /\ e.call \in Calls /\ e.deadline \in Nat
    BY DEF Sound, Envelope
  <1>2. PICK call : call = c.calls[e.call]
    OBVIOUS
  <1>3. /\ call \in Call /\ call.ask \in Messages /\ call.deadline \in Nat
        /\ call.room \in Maybe(Rooms)
    BY <1>1, <1>2, CallFields
  <1>4. PICK late : late = [call EXCEPT !.stage = "Replied"]
    OBVIOUS
  <1>5. late \in Call
    BY <1>3, <1>4 DEF Call, Stages
  <1>6. PICK calls : calls = [c.calls EXCEPT ![e.call] = late]
    OBVIOUS
  <1>7. calls \in [Calls -> Maybe(Call)]
    BY <1>1, <1>5, <1>6, CourierFields DEF Maybe
  <1>8. PICK states : states = [c.states EXCEPT ![call.ask] = "Replied"]
    OBVIOUS
  <1>9. states \in [Messages -> Maybe(States)]
    BY <1>1, <1>3, <1>8, CourierFields DEF Maybe, States
  <1>0. PICK rooms : rooms = c.rooms /\ rooms \in [Rooms -> Maybe(Room)]
    BY <1>1, CourierFields
  <1>10. PICK a : a = [c EXCEPT !.calls = calls, !.rooms = rooms, !.states = states]
    OBVIOUS
  <1>11. a = [c EXCEPT !.calls[e.call].stage = "Replied", !.states[call.ask] = "Replied"]
    <2>1. a = [c EXCEPT !.calls = calls, !.states = states]
      BY <1>0, <1>1, <1>10 DEF CourierType
    <2> QED BY <1>2, <1>4, <1>6, <1>8, <2>1
  <1>12. Sound(a) /\ SameBoxes(c, a) /\ a.box = c.box
    <2>1. a \in CourierType /\ a.box = c.box /\ a.charged = c.charged
      BY <1>0, <1>1, <1>7, <1>9, <1>10 DEF CourierType
    <2> QED BY <2>1, NoMailMoves
  <1>13. PICK sooner : sooner = IF e.deadline < call.deadline THEN e.deadline ELSE call.deadline
    OBVIOUS
  <1>14. PICK f : f = [e EXCEPT !.deadline = sooner, !.room = call.room]
    OBVIOUS
  <1>15. /\ f \in Envelope /\ f.kind = e.kind /\ f.replyTo = e.replyTo
         /\ f.target = e.target
    <2>1. sooner \in Nat
      BY <1>1, <1>3, <1>13
    <2> QED BY <1>3, <1>14, <2>1 DEF Envelope
  <1>16. d = Enqueue(a, f)
    BY <1>2, <1>11, <1>13, <1>14 DEF Reply
  <1>17. Sound(d) /\ SameBoxes(a, d)
    <2>1. a.box[f.target] # None /\ (f.replyTo = None <=> f.kind \in {"Tell", "Ask"})
      BY <1>12, <1>15
    <2>2. Queued(a, f, d)
      BY <1>12, <1>15, <1>16, <2>1, EnqueueEffect
    <2> QED BY <2>2 DEF Queued
  <1> QED BY <1>12, <1>17, SameBoxesTransitive

LEMMA CancelEffect ==
    ASSUME NEW c, Sound(c), NEW e \in Envelope, e.kind = "Cancel", e.replyTo # None,
           c.box[e.target] # None, c.calls[e.call] # None, NEW d, d = Cancel(c, e)
    PROVE  Sound(d) /\ SameBoxes(c, d)
  <1>1. c \in CourierType /\ e.call \in Calls /\ e.target \in Sessions
    BY DEF Sound, Envelope
  <1>2. PICK call : call = c.calls[e.call]
    OBVIOUS
  <1>3. call.ask \in Messages /\ call.target \in Sessions /\ call.room \in Maybe(Rooms)
    BY <1>1, <1>2, CallFields
  <1>4. PICK a : a = IF call.stage = "Queued" THEN Withdraw(c, call.target, call.ask) ELSE c
    OBVIOUS
  <1>5. Sound(a) /\ Lighter(c, a)
    <2>1. a = c \/ a = Withdraw(c, call.target, call.ask)
      BY <1>4
    <2> QED BY <1>1, <1>3, <2>1, WithdrawEffect, LighterSame
  <1>6. PICK b : b = EndCall(a, e.call)
    OBVIOUS
  <1>7. Sound(b) /\ Lighter(a, b)
    BY <1>1, <1>5, <1>6, EndCallEffect
  <1>8. PICK g : g = Retire(b, call.ask, "Cancelled")
    OBVIOUS
  <1>9. Sound(g) /\ Lighter(b, g)
    <2>1. "Cancelled" \in States
      BY DEF States
    <2> QED BY <1>3, <1>7, <1>8, <2>1, RetireEffect
  <1>10. PICK f : f = [e EXCEPT !.room = call.room]
    OBVIOUS
  <1>11. f \in Envelope /\ f.kind = e.kind /\ f.replyTo = e.replyTo /\ f.target = e.target
    BY <1>3, <1>10 DEF Envelope
  <1>12. d = Enqueue(g, f)
    BY <1>2, <1>4, <1>6, <1>8, <1>10 DEF Cancel
  <1>13. SameBoxes(c, a) /\ SameBoxes(a, b) /\ SameBoxes(b, g)
    BY <1>5, <1>7, <1>9, LighterHasSameBoxes
  <1>14. SameBoxes(c, g)
    BY <1>13, SameBoxesTransitive
  <1>15. g.box[f.target] # None
    BY <1>1, <1>11, <1>14, SameBoxesHasMailbox
  <1>16. Sound(d) /\ SameBoxes(g, d)
    <2>1. f.replyTo = None <=> f.kind \in {"Tell", "Ask"}
      BY <1>11
    <2>2. Queued(g, f, d)
      BY <1>9, <1>11, <1>12, <1>15, <2>1, EnqueueEffect
    <2> QED BY <2>2 DEF Queued
  <1> QED BY <1>14, <1>16, SameBoxesTransitive

LEMMA SendEffect ==
    ASSUME NEW c, Sound(c), NEW e \in Envelope, NEW now, Accepts(c, e, now),
           NEW d, d = Send(c, e)
    PROVE  Sound(d) /\ SameBoxes(c, d)
  <1>1. /\ c.box[e.target] # None
        /\ e.kind \in {"Tell", "Ask"} <=> e.replyTo = None
        /\ e.kind = "Reply" => c.calls[e.call] # None
        /\ e.kind = "Cancel" => c.calls[e.call] # None
    BY DEF Accepts, AdmitShape, IsLive, AdmitReply, AdmitCancel
  <1>2. e.kind \in {"Tell", "Ask", "Reply", "Cancel"}
    BY DEF Envelope, Kinds
  <1>3. CASE e.kind \in {"Tell", "Ask"}
    <2>1. d = Route(c, e)
      BY <1>3 DEF Send
    <2> QED BY <1>1, <1>3, <2>1, RouteEffect
  <1>4. CASE e.kind = "Reply"
    <2>1. d = Reply(c, e)
      BY <1>4 DEF Send
    <2> QED BY <1>1, <1>4, <2>1, ReplyEffect
  <1>5. CASE e.kind = "Cancel"
    <2>1. d = Cancel(c, e)
      BY <1>5 DEF Send
    <2> QED BY <1>1, <1>5, <2>1, CancelEffect
  <1> QED BY <1>2, <1>3, <1>4, <1>5

\* d has the mailboxes of c, and one of s.
Gains(c, d, s, ready) ==
    /\ d.box[s] # None /\ d.box[s].ready = ready
    /\ \A x \in Sessions \ {s} : /\ d.box[x] = None <=> c.box[x] = None
                                 /\ c.box[x] # None => d.box[x].ready = c.box[x].ready

Started(c, s, d) ==
    /\ Sound(d) /\ Gains(c, d, s, TRUE) /\ Mail(d) = Mail(c)
    /\ d.calls = c.calls /\ d.rooms = c.rooms
    /\ d.states = c.states /\ d.retired = c.retired /\ d.charged = c.charged
    /\ \A x \in Sessions : x # s => d.box[x] = c.box[x]
    /\ d.box[s].queue = IF c.box[s] = None THEN <<>> ELSE c.box[s].queue
    /\ d.box[s].bytes = IF c.box[s] = None THEN 0 ELSE c.box[s].bytes

LEMMA SessionStartedEffect ==
    ASSUME NEW c, Sound(c), NEW s \in Sessions, NEW d, d = SessionStarted(c, s)
    PROVE  Started(c, s, d)
  <1>1. c \in CourierType /\ Addressed(c) /\ Charged(c)
    BY DEF Sound
  <1>2. PICK q, n : /\ q = IF c.box[s] = None THEN <<>> ELSE c.box[s].queue
                    /\ n = IF c.box[s] = None THEN 0 ELSE c.box[s].bytes
    OBVIOUS
  <1>3. /\ q \in Seq(Envelope) /\ n \in Nat /\ n = Bytes(q)
        /\ Range(q) = IF c.box[s] = None THEN {} ELSE Range(c.box[s].queue)
    <2>1. CASE c.box[s] = None
      BY <1>2, <2>1, BytesSteps, RangeOfEmpty
    <2>2. CASE c.box[s] # None
      BY <1>1, <1>2, <2>2, MailboxFields DEF Charged
    <2> QED BY <2>1, <2>2
  <1>4. PICK a : a = [ready |-> TRUE, queue |-> q, bytes |-> n]
    OBVIOUS
  <1>5. a \in Mailbox /\ a # None /\ a.ready = TRUE /\ a.queue = q /\ a.bytes = n
    BY <1>3, <1>4, MakeMailbox
  <1>6. PICK box : box = [c.box EXCEPT ![s] = a]
    OBVIOUS
  <1>7. /\ box \in [Sessions -> Maybe(Mailbox)]
        /\ box[s] = a
        /\ \A x \in Sessions : x # s => box[x] = c.box[x]
    BY <1>1, <1>5, <1>6, CourierFields DEF Maybe
  <1>8. d = [c EXCEPT !.box = box]
    <2>1. (IF c.box[s] = None THEN [ready |-> TRUE, queue |-> <<>>, bytes |-> 0]
                              ELSE [c.box[s] EXCEPT !.ready = TRUE]) = a
      <3>1. CASE c.box[s] = None
        BY <1>2, <1>4, <3>1
      <3>2. CASE c.box[s] # None
        <4>1. PICK b : b = c.box[s]
          OBVIOUS
        <4>2. b \in Mailbox /\ q = b.queue /\ n = b.bytes
          BY <1>1, <1>2, <3>2, <4>1, MailboxFields
        <4>3. [b EXCEPT !.ready = TRUE] = a
          <5>1. PICK y : y = [b EXCEPT !.ready = TRUE]
            OBVIOUS
          <5>2. y \in Mailbox /\ y.ready = TRUE /\ y.queue = q /\ y.bytes = n
            BY <4>2, <5>1 DEF Mailbox
          <5> QED BY <1>5, <5>1, <5>2 DEF Mailbox
        <4> QED BY <3>2, <4>1, <4>3
      <3> QED BY <3>1, <3>2
    <2> QED BY <1>6, <2>1 DEF SessionStarted
  <1>9. /\ d \in CourierType /\ d.box = box /\ d.calls = c.calls /\ d.rooms = c.rooms
        /\ d.states = c.states /\ d.retired = c.retired /\ d.charged = c.charged
    BY <1>1, <1>7, <1>8 DEF CourierType
  <1>10. Gains(c, d, s, TRUE)
    BY <1>5, <1>7, <1>9 DEF Gains
  <1>11. Mail(d) = Mail(c)
    <2>1. ASSUME NEW x
          PROVE  x \in Mail(d) <=> x \in Mail(c)
      <3>1. ASSUME x \in Mail(d)
            PROVE  x \in Mail(c)
        <4>1. PICK t \in Sessions : d.box[t] # None /\ x \in Range(d.box[t].queue)
          BY <3>1 DEF Mail
        <4>2. CASE t = s
          <5>1. c.box[s] # None /\ x \in Range(c.box[s].queue)
            BY <1>3, <1>5, <1>7, <1>9, <4>1, <4>2
          <5> QED BY <5>1 DEF Mail
        <4>3. CASE t # s
          <5>1. d.box[t] = c.box[t]
            BY <1>7, <1>9, <4>3
          <5> QED BY <4>1, <5>1 DEF Mail
        <4> QED BY <4>2, <4>3
      <3>2. ASSUME x \in Mail(c)
            PROVE  x \in Mail(d)
        <4>1. PICK t \in Sessions : c.box[t] # None /\ x \in Range(c.box[t].queue)
          BY <3>2 DEF Mail
        <4>2. d.box[t] # None /\ x \in Range(d.box[t].queue)
          <5>1. CASE t = s
            BY <1>3, <1>5, <1>7, <1>9, <4>1, <5>1
          <5>2. CASE t # s
            BY <1>7, <1>9, <4>1, <5>2
          <5> QED BY <5>1, <5>2
        <4> QED BY <4>2 DEF Mail
      <3> QED BY <3>1, <3>2
    <2> QED BY <2>1
  <1>12. Addressed(d)
    <2>1. ASSUME NEW x \in Sessions, d.box[x] # None, NEW f \in Range(d.box[x].queue)
          PROVE  f.target = x
      <3>1. CASE x = s
        <4>1. c.box[s] # None /\ f \in Range(c.box[s].queue)
          BY <1>3, <1>5, <1>7, <1>9, <2>1, <3>1
        <4> QED BY <1>1, <3>1, <4>1 DEF Addressed
      <3>2. CASE x # s
        <4>1. d.box[x] = c.box[x]
          BY <1>7, <1>9, <3>2
        <4> QED BY <1>1, <2>1, <4>1 DEF Addressed
      <3> QED BY <3>1, <3>2
    <2> QED BY <1>1, <1>11, <2>1 DEF Addressed
  <1>13. Charged(d)
    <2>1. ASSUME NEW x \in Sessions, d.box[x] # None
          PROVE  d.box[x].bytes = Bytes(d.box[x].queue)
      <3>1. CASE x = s
        BY <1>3, <1>5, <1>7, <1>9, <3>1
      <3>2. CASE x # s
        <4>1. d.box[x] = c.box[x]
          BY <1>7, <1>9, <3>2
        <4> QED BY <1>1, <2>1, <4>1 DEF Charged
      <3> QED BY <3>1, <3>2
    <2>2. Weights(d) = Weights(c)
      <3>1. Weights(c) \in [Sessions -> Nat] /\ Weights(d) \in [Sessions -> Nat]
        BY <1>1, <1>9, WeightsAreNat
      <3>2. ASSUME NEW x \in Sessions
            PROVE  Weights(d)[x] = Weights(c)[x]
        <4>1. /\ Weights(c)[x] = IF c.box[x] = None THEN 0 ELSE Bytes(c.box[x].queue)
              /\ Weights(d)[x] = IF d.box[x] = None THEN 0 ELSE Bytes(d.box[x].queue)
          BY <1>1, <1>9, WeightsAreNat, Zenon
        <4>2. CASE x = s
          <5>1. Weights(d)[x] = Bytes(q)
            BY <1>5, <1>7, <1>9, <4>1, <4>2
          <5>2. Weights(c)[x] = Bytes(q)
            BY <1>2, <1>3, <4>1, <4>2
          <5> QED BY <5>1, <5>2
        <4>3. CASE x # s
          <5>1. d.box[x] = c.box[x]
            BY <1>7, <1>9, <4>3
          <5> QED BY <4>1, <5>1
        <4> QED BY <4>2, <4>3
      <3> QED BY <3>1, <3>2
    <2> QED BY <1>1, <1>9, <2>1, <2>2 DEF Charged
  <1>14. /\ \A x \in Sessions : x # s => d.box[x] = c.box[x]
         /\ d.box[s].queue = q /\ d.box[s].bytes = n
    BY <1>5, <1>7, <1>9
  <1> QED BY <1>2, <1>9, <1>10, <1>11, <1>12, <1>13, <1>14 DEF Sound, Started

\* Opening or closing a delivery moves no mail.
LEMMA ReadyOnly ==
    ASSUME NEW c, Sound(c), NEW d \in CourierType, d.charged = c.charged,
           \A x \in Sessions : d.box[x] = None <=> c.box[x] = None,
           \A x \in Sessions : c.box[x] # None =>
              d.box[x].queue = c.box[x].queue /\ d.box[x].bytes = c.box[x].bytes
    PROVE  Sound(d) /\ Mail(d) = Mail(c)
  <1>1. c \in CourierType /\ Addressed(c) /\ Charged(c)
    BY DEF Sound
  <1>2. Mail(d) = Mail(c)
    <2>1. ASSUME NEW e
          PROVE  e \in Mail(d) <=> e \in Mail(c)
      <3>1. ASSUME e \in Mail(d)
            PROVE  e \in Mail(c)
        <4>1. PICK t \in Sessions : d.box[t] # None /\ e \in Range(d.box[t].queue)
          BY <3>1 DEF Mail
        <4>2. c.box[t] # None /\ e \in Range(c.box[t].queue)
          BY <4>1
        <4> QED BY <4>2 DEF Mail
      <3>2. ASSUME e \in Mail(c)
            PROVE  e \in Mail(d)
        <4>1. PICK t \in Sessions : c.box[t] # None /\ e \in Range(c.box[t].queue)
          BY <3>2 DEF Mail
        <4>2. d.box[t] # None /\ e \in Range(d.box[t].queue)
          BY <4>1
        <4> QED BY <4>2 DEF Mail
      <3> QED BY <3>1, <3>2
    <2> QED BY <2>1
  <1>3. Addressed(d)
    <2>1. \A x \in Sessions : d.box[x] # None => \A e \in Range(d.box[x].queue) : e.target = x
      BY <1>1 DEF Addressed
    <2> QED BY <1>1, <1>2, <2>1 DEF Addressed
  <1>4. Charged(d)
    <2>1. \A x \in Sessions : d.box[x] # None => d.box[x].bytes = Bytes(d.box[x].queue)
      BY <1>1 DEF Charged
    <2>2. Weights(c) \in [Sessions -> Nat] /\ Weights(d) \in [Sessions -> Nat]
      BY <1>1, WeightsAreNat
    <2>3. ASSUME NEW x \in Sessions
          PROVE  Weights(d)[x] = Weights(c)[x]
      <3>1. /\ Weights(c)[x] = IF c.box[x] = None THEN 0 ELSE Bytes(c.box[x].queue)
            /\ Weights(d)[x] = IF d.box[x] = None THEN 0 ELSE Bytes(d.box[x].queue)
        BY <1>1, WeightsAreNat, Zenon
      <3> QED BY <3>1
    <2>4. Weights(d) = Weights(c)
      BY <2>2, <2>3
    <2> QED BY <1>1, <2>1, <2>4 DEF Charged
  <1> QED BY <1>2, <1>3, <1>4 DEF Sound

\* d is c with the delivery to s closed.
Shut(c, s, d) == /\ Sound(d) /\ Mail(d) = Mail(c)
                 /\ d.calls = c.calls /\ d.rooms = c.rooms /\ d.states = c.states
                 /\ d.retired = c.retired /\ d.charged = c.charged
                 /\ d.box[s] # None /\ d.box[s].ready = FALSE
                 /\ d.box[s].queue = c.box[s].queue /\ d.box[s].bytes = c.box[s].bytes
                 /\ \A x \in Sessions : x # s => d.box[x] = c.box[x]

LEMMA CloseMailboxEffect ==
    ASSUME NEW c, Sound(c), NEW s \in Sessions, c.box[s] # None,
           NEW d, d = [c EXCEPT !.box[s].ready = FALSE]
    PROVE  Shut(c, s, d)
  <1>1. c \in CourierType
    BY DEF Sound
  <1>2. PICK b : b = c.box[s]
    OBVIOUS
  <1>3. b \in Mailbox
    BY <1>1, <1>2, MailboxFields
  <1>4. PICK a : a = [b EXCEPT !.ready = FALSE]
    OBVIOUS
  <1>5. a \in Mailbox /\ a.ready = FALSE /\ a.queue = b.queue /\ a.bytes = b.bytes
    BY <1>3, <1>4 DEF Mailbox
  <1>6. a # None
    BY <1>5, NoneAssumption
  <1>7. PICK box : box = [c.box EXCEPT ![s] = a]
    OBVIOUS
  <1>8. /\ box \in [Sessions -> Maybe(Mailbox)]
        /\ box[s] = a
        /\ \A x \in Sessions : x # s => box[x] = c.box[x]
    BY <1>1, <1>5, <1>7, CourierFields DEF Maybe
  <1>9. d = [c EXCEPT !.box = box]
    BY <1>2, <1>4, <1>7
  <1>10. /\ d \in CourierType /\ d.box = box /\ d.charged = c.charged
         /\ d.calls = c.calls /\ d.rooms = c.rooms
         /\ d.states = c.states /\ d.retired = c.retired
    BY <1>1, <1>8, <1>9 DEF CourierType
  <1>11. /\ \A x \in Sessions : d.box[x] = None <=> c.box[x] = None
         /\ \A x \in Sessions : c.box[x] # None =>
               d.box[x].queue = c.box[x].queue /\ d.box[x].bytes = c.box[x].bytes
    BY <1>2, <1>5, <1>6, <1>8, <1>10
  <1>12. Sound(d) /\ Mail(d) = Mail(c)
    BY <1>10, <1>11, ReadyOnly
  <1> QED BY <1>2, <1>5, <1>6, <1>8, <1>10, <1>12 DEF Shut

LEMMA ReserveInitialEffect ==
    ASSUME NEW c, Sound(c), NEW e \in Envelope, NEW now, AcceptsInitial(c, e, now),
           NEW d, d = ReserveInitial(c, e)
    PROVE  Sound(d) /\ Gains(c, d, e.target, FALSE) /\ c.box[e.target] = None
  <1>1. PICK s : s = e.target /\ s \in Sessions
    BY DEF Envelope
  <1>2. PICK a : a = SessionStarted(c, s)
    OBVIOUS
  <1>3. PICK b : b = Send(a, e)
    OBVIOUS
  <1>4. Accepts(a, e, now) /\ c.box[s] = None
    BY <1>1, <1>2 DEF AcceptsInitial
  <1>5. Sound(a) /\ Gains(c, a, s, TRUE)
    <2>1. Started(c, s, a)
      BY <1>1, <1>2, SessionStartedEffect
    <2> QED BY <2>1 DEF Started
  <1>6. Sound(b) /\ SameBoxes(a, b)
    BY <1>3, <1>4, <1>5, SendEffect
  <1>7. b.box[s] # None
    BY <1>1, <1>5, <1>6 DEF Gains, SameBoxes
  <1>8. d = [b EXCEPT !.box[s].ready = FALSE]
    BY <1>1, <1>2, <1>3 DEF ReserveInitial
  <1>9. /\ Sound(d) /\ d.box[s] # None /\ d.box[s].ready = FALSE
        /\ \A x \in Sessions : x # s => d.box[x] = b.box[x]
    <2>1. Shut(b, s, d)
      BY <1>1, <1>6, <1>7, <1>8, CloseMailboxEffect
    <2> QED BY <2>1 DEF Shut
  <1>10. Gains(c, d, s, FALSE)
    <2>1. ASSUME NEW x \in Sessions \ {s}
          PROVE  /\ d.box[x] = None <=> c.box[x] = None
                 /\ c.box[x] # None => d.box[x].ready = c.box[x].ready
      <3>1. d.box[x] = b.box[x]
        BY <1>9
      <3> QED BY <1>5, <1>6, <3>1 DEF Gains, SameBoxes
    <2> QED BY <1>9, <2>1 DEF Gains
  <1> QED BY <1>1, <1>4, <1>9, <1>10

-----------------------------------------------------------------------------
(* Receiving, giving up, and rooms.                                        *)
LEMMA ReadAskEffect ==
    ASSUME NEW c, Sound(c), NEW e \in Envelope, NEW d, d = ReadAsk(c, e)
    PROVE  Sound(d) /\ Lighter(c, d)
  <1>1. c \in CourierType
    BY DEF Sound
  <1>2. /\ e.id \in Messages /\ e.call \in Calls
        /\ "Received" \in States /\ "Received" \in Stages
    BY DEF Envelope, States, Stages
  <1>3. CASE c.calls[e.call] # None /\ c.calls[e.call].ask = e.id
    <2>1. PICK call : call = c.calls[e.call] /\ call \in Call
      BY <1>1, <1>2, <1>3, CallFields
    <2>2. PICK taken : taken = [call EXCEPT !.stage = "Received"]
      OBVIOUS
    <2>3. taken \in Call
      BY <1>2, <2>1, <2>2 DEF Call
    <2>4. PICK calls : calls = [c.calls EXCEPT ![e.call] = taken]
      OBVIOUS
    <2>5. PICK states : states = [c.states EXCEPT ![e.id] = "Received"]
      OBVIOUS
    <2>6. calls \in [Calls -> Maybe(Call)] /\ states \in [Messages -> Maybe(States)]
      BY <1>1, <1>2, <2>3, <2>4, <2>5, CourierFields DEF Maybe
    <2>7. d = [c EXCEPT !.calls = calls, !.states = states]
      BY <1>3, <2>1, <2>2, <2>4, <2>5 DEF ReadAsk
    <2>8. d \in CourierType /\ d.box = c.box /\ d.charged = c.charged
      BY <1>1, <2>6, <2>7 DEF CourierType
    <2> QED BY <2>8, NoMailMoves
  <1>4. CASE ~(c.calls[e.call] # None /\ c.calls[e.call].ask = e.id)
    <2>1. d = Retire(c, e.id, "Received")
      BY <1>4 DEF ReadAsk
    <2> QED BY <1>2, <2>1, RetireEffect
  <1> QED BY <1>3, <1>4

LEMMA ReadReplyEffect ==
    ASSUME NEW c, Sound(c), NEW e \in Envelope, e.replyTo # None,
           NEW d, d = ReadReply(c, e)
    PROVE  Sound(d) /\ Lighter(c, d)
  <1>1. c \in CourierType
    BY DEF Sound
  <1>2. e.id \in Messages /\ e.call \in Calls /\ e.replyTo \in Messages
    BY DEF Envelope, Maybe
  <1>3. "Received" \in States /\ "Replied" \in States
    BY DEF States
  <1>4. PICK a : a = IF MatchesCall(c, e) THEN EndCall(c, e.call) ELSE c
    OBVIOUS
  <1>5. Sound(a) /\ Lighter(c, a)
    <2>1. a = c \/ a = EndCall(c, e.call)
      BY <1>4
    <2> QED BY <1>1, <1>2, <2>1, EndCallEffect, LighterSame
  <1>6. PICK b : b = Retire(a, e.id, "Received")
    OBVIOUS
  <1>7. Sound(b) /\ Lighter(a, b)
    BY <1>2, <1>3, <1>5, <1>6, RetireEffect
  <1>8. d = Retire(b, e.replyTo, "Replied")
    BY <1>4, <1>6 DEF ReadReply
  <1>9. Sound(d) /\ Lighter(b, d)
    BY <1>2, <1>3, <1>7, <1>8, RetireEffect
  <1>10. a \in CourierType /\ b \in CourierType /\ d \in CourierType
    BY <1>5, <1>7, <1>9 DEF Sound
  <1>11. Lighter(c, b)
    BY <1>1, <1>5, <1>7, <1>10, LighterTransitive
  <1> QED BY <1>1, <1>9, <1>10, <1>11, LighterTransitive

LEMMA ReceiveEffect ==
    ASSUME NEW c, Sound(c), NEW s \in Sessions, c.box[s] # None,
           NEW i \in DOMAIN c.box[s].queue, NEW d, d = Receive(c, s, i)
    PROVE  Sound(d) /\ Lighter(c, d)
  <1>1. c \in CourierType /\ Addressed(c)
    BY DEF Sound
  <1>2. PICK q, e : q = c.box[s].queue /\ e = q[i]
    OBVIOUS
  <1>3. q \in Seq(Envelope) /\ i \in 1 .. Len(q) /\ e \in Envelope /\ e \in Range(q)
    <2>1. q \in Seq(Envelope)
      BY <1>1, <1>2, MailboxFields
    <2>2. DOMAIN q = 1 .. Len(q)
      BY <2>1, LenProperties
    <2> QED BY <1>2, <2>1, <2>2, ElementOfSeq DEF Range
  <1>4. PICK a : a = Without(c, s, RemoveAt(q, i), e.size)
    OBVIOUS
  <1>5. Sound(a) /\ Lighter(c, a)
    <2>1. /\ i \in 1 .. Len(c.box[s].queue)
          /\ a = Without(c, s, RemoveAt(c.box[s].queue, i), c.box[s].queue[i].size)
      BY <1>2, <1>3, <1>4
    <2>2. Taken(c, s, i, a)
      BY <2>1, WithoutEffect
    <2> QED BY <2>2 DEF Taken
  <1>6. /\ e.id \in Messages /\ e.kind \in Kinds
        /\ e.kind = "Reply" => e.replyTo # None
    <2>1. e \in Mail(c)
      BY <1>1, <1>2, <1>3, MailAt
    <2> QED BY <1>1, <1>3, <2>1 DEF Addressed, Envelope
  <1>7. Sound(d) /\ Lighter(a, d)
    <2>1. CASE e.kind \in {"Tell", "Cancel"}
      <3>1. d = Retire(a, e.id, "Received")
        BY <1>2, <1>4, <2>1 DEF Receive
      <3>2. "Received" \in States
        BY DEF States
      <3> QED BY <1>5, <1>6, <3>1, <3>2, RetireEffect
    <2>2. CASE e.kind = "Ask"
      <3>1. d = ReadAsk(a, e)
        BY <1>2, <1>4, <2>2 DEF Receive
      <3> QED BY <1>3, <1>5, <3>1, ReadAskEffect
    <2>3. CASE e.kind = "Reply"
      <3>1. d = ReadReply(a, e)
        BY <1>2, <1>4, <2>3 DEF Receive
      <3> QED BY <1>3, <1>5, <1>6, <2>3, <3>1, ReadReplyEffect
    <2> QED BY <1>6, <2>1, <2>2, <2>3 DEF Kinds
  <1>8. a \in CourierType /\ d \in CourierType
    BY <1>5, <1>7 DEF Sound
  <1> QED BY <1>1, <1>5, <1>7, <1>8, LighterTransitive

LEMMA AbandonCallEffect ==
    ASSUME NEW c, Sound(c), NEW s, NEW ref \in CallRef, NEW d, d = AbandonCall(c, s, ref)
    PROVE  Sound(d) /\ Lighter(c, d)
  <1>1. c \in CourierType /\ ref.call \in Calls
    BY DEF Sound, CallRef
  <1>2. PICK k, call : k = ref.call /\ call = c.calls[k]
    OBVIOUS
  <1>3. CASE ~OwnsCall(c, s, ref) \/ call.stage = "Replied"
    <2>1. d = c
      BY <1>2, <1>3 DEF AbandonCall
    <2> QED BY <1>1, <2>1, LighterSame
  <1>4. CASE ~(~OwnsCall(c, s, ref) \/ call.stage = "Replied")
    <2>1. call.ask \in Messages /\ call.target \in Sessions /\ k \in Calls
      BY <1>1, <1>2, <1>4, CallFields DEF OwnsCall
    <2>2. PICK a : a = EndCall(c, k)
      OBVIOUS
    <2>3. PICK b : b = IF call.stage = "Queued" THEN Withdraw(a, call.target, call.ask) ELSE a
      OBVIOUS
    <2>4. d = Retire(b, call.ask, "Cancelled")
      BY <1>2, <1>4, <2>2, <2>3 DEF AbandonCall
    <2>5. Sound(a) /\ Lighter(c, a)
      BY <2>1, <2>2, EndCallEffect
    <2>6. a \in CourierType /\ "Cancelled" \in States
      BY <2>5 DEF Sound, States
    <2>7. Sound(b) /\ Lighter(a, b)
      <3>1. b = a \/ b = Withdraw(a, call.target, call.ask)
        BY <2>3
      <3> QED BY <2>1, <2>5, <2>6, <3>1, WithdrawEffect, LighterSame
    <2>8. Sound(d) /\ Lighter(b, d)
      BY <2>1, <2>4, <2>6, <2>7, RetireEffect
    <2>9. b \in CourierType /\ d \in CourierType
      BY <2>7, <2>8 DEF Sound
    <2>10. Lighter(c, b)
      BY <1>1, <2>5, <2>6, <2>7, <2>9, LighterTransitive
    <2> QED BY <1>1, <2>8, <2>9, <2>10, LighterTransitive
  <1> QED BY <1>3, <1>4

LEMMA RoomOpenEffect ==
    ASSUME NEW c, Sound(c), NEW r \in Rooms, NEW members \in SUBSET Sessions,
           NEW owner \in Sessions, NEW deadline \in Nat,
           NEW d, d = RoomOpen(c, r, members, owner, deadline)
    PROVE  Sound(d) /\ SameBoxes(c, d)
  <1>1. c \in CourierType
    BY DEF Sound
  <1>2. PICK room : room = [owner |-> owner, speaker |-> owner, members |-> members,
                            rounds |-> 0, current |-> None, deadline |-> deadline]
    OBVIOUS
  <1>3. room \in Room
    BY <1>2 DEF Room, Maybe
  <1>4. PICK rooms : rooms = [c.rooms EXCEPT ![r] = room]
    OBVIOUS
  <1>5. rooms \in [Rooms -> Maybe(Room)]
    BY <1>1, <1>3, <1>4, CourierFields DEF Maybe
  <1>6. d = [c EXCEPT !.rooms = rooms]
    BY <1>2, <1>4 DEF RoomOpen
  <1>7. d \in CourierType /\ d.box = c.box /\ d.charged = c.charged
    BY <1>1, <1>5, <1>6 DEF CourierType
  <1> QED BY <1>7, NoMailMoves

LEMMA RoomTransferEffect ==
    ASSUME NEW c, Sound(c), NEW r \in Rooms, c.rooms[r] # None,
           NEW speaker \in Sessions, NEW d, d = RoomTransfer(c, r, speaker)
    PROVE  Sound(d) /\ SameBoxes(c, d)
  <1>1. c \in CourierType
    BY DEF Sound
  <1>2. PICK room : room = c.rooms[r] /\ room \in Room
    BY <1>1, CourierFields DEF Maybe
  <1>3. PICK now : now = [room EXCEPT !.speaker = speaker]
    OBVIOUS
  <1>4. now \in Room
    BY <1>2, <1>3 DEF Room
  <1>5. PICK rooms : rooms = [c.rooms EXCEPT ![r] = now]
    OBVIOUS
  <1>6. rooms \in [Rooms -> Maybe(Room)]
    BY <1>1, <1>4, <1>5, CourierFields DEF Maybe
  <1>7. d = [c EXCEPT !.rooms = rooms]
    BY <1>2, <1>3, <1>5 DEF RoomTransfer
  <1>8. d \in CourierType /\ d.box = c.box /\ d.charged = c.charged
    BY <1>1, <1>6, <1>7 DEF CourierType
  <1> QED BY <1>8, NoMailMoves

LEMMA RoomAskEffect ==
    ASSUME NEW c, Sound(c), NEW r \in Rooms, NEW e \in Envelope, e.kind = "Ask",
           NEW now, AcceptsRound(c, r, e, now), NEW d, d = RoomAsk(c, r, e)
    PROVE  Sound(d) /\ SameBoxes(c, d)
  <1>1. c \in CourierType
    BY DEF Sound
  <1>2. c.rooms[r] # None /\ c.box[e.target] # None /\ e.replyTo = None
    BY DEF AcceptsRound, RoomVisible, AdmitShape, IsLive
  <1>3. PICK f : f = [e EXCEPT !.room = r]
    OBVIOUS
  <1>4. /\ f \in Envelope /\ f.kind = e.kind /\ f.replyTo = e.replyTo
        /\ f.target = e.target /\ f.id = e.id /\ f.call = e.call
    BY <1>3 DEF Envelope, Maybe
  <1>5. PICK a : a = Route(c, f)
    OBVIOUS
  <1>6. Sound(a) /\ SameBoxes(c, a) /\ a.rooms = c.rooms
    <2>1. f.kind \in {"Tell", "Ask"} /\ f.replyTo = None /\ c.box[f.target] # None
      BY <1>2, <1>4
    <2> QED BY <1>4, <1>5, <2>1, RouteEffect
  <1>7. a \in CourierType
    BY <1>6 DEF Sound
  <1>8. PICK room : room = a.rooms[r] /\ room \in Room
    BY <1>1, <1>2, <1>6, CourierFields DEF Maybe
  <1>9. PICK ref, n : ref = [call |-> e.call, ask |-> e.id] /\ n = room.rounds + 1
    OBVIOUS
  <1>10. ref \in Maybe(CallRef) /\ n \in Nat
    BY <1>8, <1>9 DEF CallRef, Maybe, Envelope, Room
  <1>11. PICK half : half = [room EXCEPT !.rounds = n]
    OBVIOUS
  <1>12. half \in Room
    BY <1>8, <1>10, <1>11 DEF Room
  <1>13. PICK next : next = [half EXCEPT !.current = ref]
    OBVIOUS
  <1>14. next \in Room
    BY <1>10, <1>12, <1>13 DEF Room
  <1>15. PICK rooms1 : rooms1 = [a.rooms EXCEPT ![r] = half]
    OBVIOUS
  <1>16. rooms1[r] = half
    BY <1>7, <1>15, CourierFields
  <1>17. PICK rooms : rooms = [rooms1 EXCEPT ![r] = next]
    OBVIOUS
  <1>18. rooms \in [Rooms -> Maybe(Room)]
    BY <1>7, <1>12, <1>14, <1>15, <1>17, CourierFields DEF Maybe
  <1>19. d = [a EXCEPT !.rooms = rooms]
    <2>1. rooms1 = [a.rooms EXCEPT ![r].rounds = @ + 1]
      BY <1>8, <1>9, <1>11, <1>15
    <2>2. rooms = [rooms1 EXCEPT ![r].current = ref]
      BY <1>13, <1>16, <1>17
    <2>3. PICK b : b = [a EXCEPT !.rooms = rooms1]
      OBVIOUS
    <2>4. b.rooms = rooms1
      BY <1>7, <2>3 DEF CourierType
    <2>5. b = [a EXCEPT !.rooms[r].rounds = @ + 1]
      BY <2>1, <2>3
    <2>6. [b EXCEPT !.rooms[r].current = ref] = [b EXCEPT !.rooms = rooms]
      BY <2>2, <2>4
    <2>7. d = [b EXCEPT !.rooms[r].current = ref]
      BY <1>3, <1>5, <1>9, <2>5 DEF RoomAsk
    <2>8. [b EXCEPT !.rooms = rooms] = [a EXCEPT !.rooms = rooms]
      BY <1>7, <2>3 DEF CourierType
    <2> QED BY <2>6, <2>7, <2>8
  <1>20. d \in CourierType /\ d.box = a.box /\ d.charged = a.charged
    BY <1>7, <1>18, <1>19 DEF CourierType
  <1>21. Sound(d) /\ SameBoxes(a, d)
    BY <1>6, <1>20, NoMailMoves
  <1> QED BY <1>6, <1>21, SameBoxesTransitive

LEMMA NewCourierIsSound ==
    Sound(NewCourier) /\ \A s \in Sessions : NewCourier.box[s] = None
  <1>1. PICK c : c = NewCourier
    OBVIOUS
  <1>2. c \in CourierType
    <2>1. <<>> \in Seq(Messages)
      OBVIOUS
    <2> QED BY <1>1, <2>1 DEF NewCourier, CourierType, Maybe
  <1>3. c.charged = 0 /\ \A s \in Sessions : c.box[s] = None
    BY <1>1 DEF NewCourier
  <1>4. Mail(c) = {}
    <2>1. \A e : e \in Mail(c) => FALSE
      BY <1>3 DEF Mail
    <2> QED BY <2>1
  <1>5. Addressed(c)
    BY <1>3, <1>4 DEF Addressed
  <1>6. Charged(c)
    <2>1. PICK f : f = Weights(c)
      OBVIOUS
    <2>2. f \in [Sessions -> Nat]
      BY <1>2, <2>1, WeightsAreNat
    <2>3. ASSUME NEW s \in Sessions
          PROVE  f[s] = f[s] + f[s]
      <3>1. f[s] = IF c.box[s] = None THEN 0 ELSE Bytes(c.box[s].queue)
        BY <1>2, <2>1, WeightsAreNat, Zenon
      <3>2. f[s] = 0
        BY <1>3, <3>1
      <3> QED BY <3>2
    <2>4. Total(f) \in Nat /\ Total(f) = Total(f) + Total(f)
      BY <2>2, <2>3, TotalAdds
    <2>5. Total(f) = 0
      <3>1. PICK n \in Nat : n = Total(f)
        BY <2>4
      <3>2. n = n + n
        BY <2>4, <3>1
      <3>3. \A i \in Nat : i = i + i => i = 0
        OBVIOUS
      <3> QED BY <3>1, <3>2, <3>3, Zenon
    <2> QED BY <1>3, <2>1, <2>5 DEF Charged
  <1> QED BY <1>1, <1>2, <1>3, <1>5, <1>6 DEF Sound

LEMMA NextDeadlineIsTime ==
    ASSUME NEW c \in CourierType
    PROVE  NextDeadline(c) \in Maybe(Nat)
  <1>1. Deadlines(c) \subseteq Nat
    <2>1. \A e \in Mail(c) : e.deadline \in Nat
      BY MailIsEnvelopes DEF Envelope
    <2>2. \A k \in OpenCalls(c) : c.calls[k].deadline \in Nat
      BY CallFields DEF OpenCalls
    <2>3. \A r \in OpenRooms(c) : c.rooms[r].deadline \in Nat
      <3>1. \A r \in OpenRooms(c) : c.rooms[r] \in Room
        BY CourierFields DEF OpenRooms, Maybe
      <3> QED BY <3>1 DEF Room
    <2> QED BY <2>1, <2>2, <2>3 DEF Deadlines
  <1>2. PICK D : D = Deadlines(c)
    OBVIOUS
  <1>3. D # {} => Min(D) \in D
    BY <1>1, <1>2, MinOfNat
  <1> QED BY <1>1, <1>2, <1>3 DEF NextDeadline, Maybe

-----------------------------------------------------------------------------
(* Exactness: the mail, the calls, the rooms and what is remembered agree.   *)
(* An operation breaks off the calls it is about to end one by one, so the   *)
(* agreement is stated but for a set D of dying calls: they may have lost    *)
(* their mail, a party or their room, and nothing relies on them any more.   *)

Asks(c, D) == {c.calls[k].ask : k \in OpenCalls(c) \ D}

\* Messages with a state that is not final, and those among them that nothing
\* accounts for: an operation still has to retire them.
Remaining(c) == {m \in Messages : c.states[m] # None} \ Ended(c)
Debt(c, D) == Remaining(c) \ (Waits(c) \cup Asks(c, D))

\* Every mailbox is within its ceilings and holds a message once.
Fits(c) ==
    /\ \A s \in Sessions : c.box[s] # None =>
          /\ c.box[s].bytes <= MailboxBytes
          /\ Len(c.box[s].queue) <= MailboxEnvelopes
          /\ Distinct(c.box[s].queue)
    /\ c.charged <= RuntimeBytes

UniqueMail(c) ==
    /\ \A e, f \in Mail(c) : e.id = f.id => e = f
    /\ \A e, f \in Mail(c) :
          e.kind = "Reply" /\ f.kind = "Reply" /\ e.replyTo = f.replyTo => e = f

\* What is forgotten is the oldest of what is final, and nothing else.
Remembers(c) ==
    /\ \A m \in Ended(c) : c.states[m] # None
    /\ \A i, j \in DOMAIN c.retired : c.retired[i] = c.retired[j] => i = j
    /\ Len(c.retired) <= Remembered

RoomHolds(c, r) == c.rooms[r].rounds <= RoomRounds
                   /\ \A s \in c.rooms[r].members : IsLive(c, s)

RoundHolds(c, k) ==
    LET call == c.calls[k]
        room == c.rooms[call.room]
    IN call.room # None => /\ room # None
                           /\ room.current = [call |-> k, ask |-> call.ask]
                           /\ {call.source, call.target} \subseteq room.members
                           /\ call.deadline <= room.deadline

\* A call has its parties, the mail its stage tells of, and its room.
CallHolds(c, k) ==
    LET call == c.calls[k] IN
    /\ IsLive(c, call.source) /\ IsLive(c, call.target)
    /\ call.stage = "Queued" => \E e \in Mail(c) : e.kind = "Ask" /\ e.id = call.ask
    /\ call.stage = "Replied" =>
          \E e \in Mail(c) : e.kind = "Reply" /\ e.replyTo = call.ask
    /\ RoundHolds(c, k)

CallsDiffer(c) ==
    \A k \in OpenCalls(c) :
       /\ \A l \in OpenCalls(c) : c.calls[k].ask = c.calls[l].ask => k = l
       /\ c.calls[k].source # c.calls[k].target
       /\ \A e \in Mail(c) : e.id = c.calls[k].ask => e.kind = "Ask" /\ e.call = k

Carries(c, e, stage) ==
    /\ MatchesCall(c, e)
    /\ c.calls[e.call].stage = stage
    /\ e.room = c.calls[e.call].room
    /\ e.deadline <= c.calls[e.call].deadline
    /\ stage = "Queued" => e.deadline = c.calls[e.call].deadline

\* An ask that waits carries its call; a reply carries its call, or the call is
\* gone and nobody waits for the ask it answers.
MailHolds(c, e, D) ==
    /\ e.kind = "Ask" => Carries(c, e, "Queued")
    /\ e.kind = "Reply" => \/ Carries(c, e, "Replied")
                           \/ e.room = None /\ e.replyTo \notin Waits(c) \cup Asks(c, D)
    /\ e.room # None => c.rooms[e.room] # None

Coherent(c, D) ==
    /\ Sound(c) /\ Fits(c)
    /\ UniqueMail(c)
    /\ Remembers(c)
    /\ Waits(c) \cup Asks(c, D) \subseteq Remaining(c)
    /\ \A r \in OpenRooms(c) : RoomHolds(c, r)
    /\ CallsDiffer(c)
    /\ \A k \in OpenCalls(c) \ D : CallHolds(c, k)
    /\ \A e \in Mail(c) : MailHolds(c, e, D)

\* No operation is under way.
Exact(c) == Coherent(c, {}) /\ Debt(c, {}) = {}

\* What a call needs of its room, and of the rest, is all it depends on.
LEMMA RoundStays ==
    ASSUME NEW c, NEW d, NEW k, RoundHolds(c, k), d.calls[k] = c.calls[k],
           c.calls[k].room # None => d.rooms[c.calls[k].room] = c.rooms[c.calls[k].room]
    PROVE  RoundHolds(d, k)
  BY DEF RoundHolds

LEMMA CallStays ==
    ASSUME NEW c, NEW d, NEW k, CallHolds(c, k), d.calls[k] = c.calls[k],
           Mail(c) \subseteq Mail(d), \A s \in Sessions : IsLive(c, s) => IsLive(d, s),
           c.calls[k].source \in Sessions, c.calls[k].target \in Sessions,
           RoundHolds(d, k)
    PROVE  CallHolds(d, k)
  BY DEF CallHolds

SameRest(c, d) == /\ d.calls = c.calls /\ d.rooms = c.rooms
                  /\ d.states = c.states /\ d.retired = c.retired

LEMMA CoherentMail ==
    ASSUME NEW c, NEW D, Coherent(c, D), NEW e \in Mail(c)
    PROVE  /\ e \in Envelope /\ e.id \in Messages /\ e.call \in Calls /\ e.kind \in Kinds
           /\ e.source \in Sessions /\ e.target \in Sessions
           /\ MailHolds(c, e, D) /\ e.id \in Remaining(c)
           /\ e.replyTo = None <=> e.kind \in {"Tell", "Ask"}
           /\ e.replyTo \in Maybe(Messages) /\ e.deadline \in Nat
  <1>1. c \in CourierType /\ Addressed(c)
    BY DEF Coherent, Sound
  <1>2. e \in Envelope
    BY <1>1, MailIsEnvelopes
  <1>3. MailHolds(c, e, D)
    BY DEF Coherent
  <1>4. e.id \in Waits(c)
    BY DEF Waits
  <1>5. e.id \in Remaining(c)
    BY <1>4 DEF Coherent
  <1>6. e.replyTo = None <=> e.kind \in {"Tell", "Ask"}
    BY <1>1 DEF Addressed
  <1> QED BY <1>2, <1>3, <1>5, <1>6 DEF Envelope

\* A call that waits to be read is carried by its ask.
LEMMA AskCarries ==
    ASSUME NEW c, NEW D, Coherent(c, D), NEW k \in OpenCalls(c),
           NEW e \in Mail(c), e.id = c.calls[k].ask
    PROVE  e.kind = "Ask" /\ e.call = k /\ Carries(c, e, "Queued") /\ MatchesCall(c, e)
  <1>1. e.kind = "Ask" /\ e.call = k
    BY DEF Coherent, CallsDiffer
  <1>2. MailHolds(c, e, D)
    BY CoherentMail
  <1> QED BY <1>1, <1>2 DEF MailHolds, Carries

\* A reply to a call that is not dying carries it.
LEMMA ReplyCarries ==
    ASSUME NEW c, NEW D, Coherent(c, D), NEW k \in OpenCalls(c) \ D,
           NEW e \in Mail(c), e.kind = "Reply", e.replyTo = c.calls[k].ask
    PROVE  e.call = k /\ Carries(c, e, "Replied") /\ MatchesCall(c, e)
  <1>1. e.call \in Calls /\ MailHolds(c, e, D)
    BY CoherentMail
  <1>2. c.calls[k].ask \in Asks(c, D)
    BY DEF Asks
  <1>3. Carries(c, e, "Replied")
    BY <1>1, <1>2 DEF MailHolds
  <1>4. MatchesCall(c, e)
    BY <1>3 DEF Carries
  <1>5. c.calls[e.call] # None /\ c.calls[e.call].ask = e.replyTo
    BY <1>4 DEF MatchesCall
  <1>6. e.call \in OpenCalls(c)
    BY <1>1, <1>5 DEF OpenCalls
  <1>7. e.call = k
    BY <1>5, <1>6 DEF Coherent, CallsDiffer
  <1> QED BY <1>3, <1>4, <1>7

\* Mail that matches a call carries it, unless the call is dying.
LEMMA MatchedMail ==
    ASSUME NEW c, NEW D, Coherent(c, D), NEW e \in Mail(c), MatchesCall(c, e)
    PROVE  /\ e.call \in OpenCalls(c)
           /\ e.kind = "Ask" => e.id = c.calls[e.call].ask /\ Carries(c, e, "Queued")
           /\ e.kind # "Ask" => e.kind = "Reply" /\ e.replyTo = c.calls[e.call].ask
           /\ e.kind # "Ask" /\ e.call \notin D => Carries(c, e, "Replied")
  <1>1. e.call \in Calls /\ MailHolds(c, e, D)
    BY CoherentMail
  <1>2. /\ c.calls[e.call] # None
        /\ \/ e.kind = "Ask" /\ c.calls[e.call].ask = e.id
           \/ e.kind = "Reply" /\ c.calls[e.call].ask = e.replyTo
    BY DEF MatchesCall
  <1>3. e.call \in OpenCalls(c)
    BY <1>1, <1>2 DEF OpenCalls
  <1>4. CASE e.kind = "Ask"
    BY <1>1, <1>2, <1>3, <1>4 DEF MailHolds
  <1>5. CASE e.kind # "Ask"
    <2>1. e.kind = "Reply" /\ c.calls[e.call].ask = e.replyTo
      BY <1>2, <1>5
    <2>2. e.call \notin D => Carries(c, e, "Replied")
      BY <1>3, <2>1, ReplyCarries
    <2> QED BY <1>3, <1>5, <2>1, <2>2
  <1> QED BY <1>4, <1>5

\* A dying call is one that fewer things are said of.
LEMMA CoherentWider ==
    ASSUME NEW c, NEW D, Coherent(c, D), NEW E, OpenCalls(c) \cap D \subseteq E
    PROVE  Coherent(c, E)
  <1>1. Asks(c, E) \subseteq Asks(c, D) /\ OpenCalls(c) \ E \subseteq OpenCalls(c) \ D
    BY DEF Asks
  <1>2. ASSUME NEW e \in Mail(c)
        PROVE  MailHolds(c, e, E)
    <2>1. MailHolds(c, e, D)
      BY CoherentMail
    <2> QED BY <1>1, <2>1 DEF MailHolds
  <1> QED BY <1>1, <1>2 DEF Coherent

\* Mail leaves, and sessions with it: the calls it carried and theirs are dying.
LEMMA MailLeaves ==
    ASSUME NEW c, NEW D, Coherent(c, D),
           NEW d, Sound(d), Fits(d), SameRest(c, d), Mail(d) \subseteq Mail(c),
           NEW E, D \subseteq E,
           \A e \in Mail(c) \ Mail(d) : MatchesCall(c, e) => e.call \in E,
           \A k \in OpenCalls(c) \ E :
              IsLive(d, c.calls[k].source) /\ IsLive(d, c.calls[k].target),
           \A r \in OpenRooms(c) : \A s \in c.rooms[r].members : IsLive(d, s)
    PROVE  Coherent(d, E)
  <1>1. /\ Waits(d) \subseteq Waits(c) /\ OpenCalls(d) = OpenCalls(c)
        /\ OpenRooms(d) = OpenRooms(c) /\ Asks(d, E) \subseteq Asks(c, D)
        /\ Remaining(d) = Remaining(c)
    BY DEF Waits, OpenCalls, OpenRooms, Asks, Remaining, Ended, SameRest
  <1>2. UniqueMail(d)
    BY DEF Coherent, UniqueMail
  <1>3. Remembers(d)
    BY DEF Coherent, Remembers, SameRest, Ended
  <1>4. Waits(d) \cup Asks(d, E) \subseteq Remaining(d)
    BY <1>1 DEF Coherent
  <1>5. ASSUME NEW r \in OpenRooms(d)
        PROVE  RoomHolds(d, r)
    BY <1>1 DEF Coherent, RoomHolds, SameRest
  <1>6. CallsDiffer(d)
    BY <1>1 DEF Coherent, CallsDiffer, SameRest
  <1>7. ASSUME NEW k \in OpenCalls(d) \ E
        PROVE  CallHolds(d, k)
    <2>1. k \in OpenCalls(c) \ D /\ d.calls[k] = c.calls[k]
      BY <1>1 DEF SameRest
    <2>2. CallHolds(c, k)
      BY <2>1 DEF Coherent
    <2>3. ASSUME c.calls[k].stage = "Queued"
          PROVE  \E e \in Mail(d) : e.kind = "Ask" /\ e.id = c.calls[k].ask
      <3>1. PICK e \in Mail(c) : e.kind = "Ask" /\ e.id = c.calls[k].ask
        BY <2>2, <2>3 DEF CallHolds
      <3>2. e.call = k /\ MatchesCall(c, e)
        BY <2>1, <3>1, AskCarries
      <3>3. e \in Mail(d)
        BY <3>2
      <3> QED BY <3>1, <3>3
    <2>4. ASSUME c.calls[k].stage = "Replied"
          PROVE  \E e \in Mail(d) : e.kind = "Reply" /\ e.replyTo = c.calls[k].ask
      <3>1. PICK e \in Mail(c) : e.kind = "Reply" /\ e.replyTo = c.calls[k].ask
        BY <2>2, <2>4 DEF CallHolds
      <3>2. e.call = k /\ MatchesCall(c, e)
        BY <2>1, <3>1, ReplyCarries
      <3>3. e \in Mail(d)
        BY <3>2
      <3> QED BY <3>1, <3>3
    <2>5. RoundHolds(d, k)
      BY <2>1, <2>2 DEF CallHolds, RoundHolds, SameRest
    <2>6. IsLive(d, c.calls[k].source) /\ IsLive(d, c.calls[k].target)
      BY <2>1
    <2> QED BY <2>1, <2>3, <2>4, <2>5, <2>6 DEF CallHolds
  <1>8. ASSUME NEW e \in Mail(d)
        PROVE  MailHolds(d, e, E)
    <2>1. MailHolds(c, e, D)
      BY CoherentMail
    <2>2. \A stage : Carries(c, e, stage) => Carries(d, e, stage)
      BY DEF Carries, MatchesCall, SameRest
    <2>3. Waits(d) \cup Asks(d, E) \subseteq Waits(c) \cup Asks(c, D)
      BY <1>1
    <2> QED BY <2>1, <2>2, <2>3 DEF MailHolds, SameRest
  <1> QED BY <1>2, <1>3, <1>4, <1>5, <1>6, <1>7, <1>8 DEF Coherent

\* Retiring a message settles it, whatever is forgotten for it.
LEMMA RetireRemembers ==
    ASSUME NEW c \in CourierType, Remembers(c), NEW m \in Messages,
           NEW outcome \in States, NEW d, d = Retire(c, m, outcome)
    PROVE  /\ Remembers(d) /\ Remaining(d) = Remaining(c) \ {m}
           /\ Ended(d) \subseteq Ended(c) \cup {m}
           /\ \A x \in Messages : d.states[x] # None => c.states[x] # None \/ x = m
  <1>1. PICK old, n : old = c.retired /\ n = Len(old)
    OBVIOUS
  <1>2. old \in Seq(Messages) /\ n \in Nat /\ DOMAIN old = 1 .. n
    BY <1>1, CourierFields, LenProperties
  <1>3. c.states \in [Messages -> Maybe(States)] /\ outcome # None
    BY CourierFields, NoneAssumption
  <1>4. /\ \A i \in 1 .. n : c.states[old[i]] # None
        /\ \A i, j \in 1 .. n : old[i] = old[j] => i = j
        /\ n <= Remembered /\ Remembered \in Nat
    <2>1. n <= Remembered /\ Remembered \in Nat
      BY <1>1, CourierAssumption DEF Remembers
    <2>2. \A i \in 1 .. n : old[i] \in Ended(c)
      BY <1>1, <1>2 DEF Ended
    <2>3. \A i \in 1 .. n : c.states[old[i]] # None
      BY <2>2 DEF Remembers
    <2>4. \A i, j \in 1 .. n : old[i] = old[j] => i = j
      BY <1>1, <1>2 DEF Remembers
    <2> QED BY <2>1, <2>3, <2>4
  <1>5. CASE Contains(old, m)
    <2>1. d = c
      BY <1>1, <1>5 DEF Retire
    <2>2. m \in Ended(c)
      BY <1>1, <1>2, <1>5 DEF Contains, Ended
    <2> QED BY <2>1, <2>2 DEF Remaining
  <1>6. CASE ~Contains(old, m)
    <2>1. PICK kept : kept = Append(old, m)
      OBVIOUS
    <2>2. /\ kept \in Seq(Messages) /\ kept # <<>> /\ Len(kept) = n + 1
          /\ \A i \in 1 .. n : kept[i] = old[i]
          /\ kept[n + 1] = m
      BY <1>1, <1>2, <2>1, AppendProperties
    <2>3. \A i \in 1 .. n : old[i] # m
      BY <1>1, <1>2, <1>6 DEF Contains
    <2>4. \A i, j \in 1 .. n + 1 : kept[i] = kept[j] => i = j
      BY <1>2, <1>4, <2>2, <2>3
    <2>5. Ended(c) = {old[i] : i \in 1 .. n}
      BY <1>1, <1>2 DEF Ended
    <2>6. CASE n + 1 <= Remembered
      <3>1. PICK states : states = [c.states EXCEPT ![m] = outcome]
        OBVIOUS
      <3>2. d = [c EXCEPT !.retired = kept, !.states = states]
        BY <1>1, <1>6, <2>1, <2>2, <2>6, <3>1 DEF Retire
      <3>3. d.retired = kept /\ d.states = states
        BY <3>2 DEF CourierType
      <3>4. DOMAIN kept = 1 .. n + 1
        BY <2>2, LenProperties
      <3>5. Ended(d) = Ended(c) \cup {m}
        <4>1. Ended(d) = {kept[i] : i \in 1 .. n + 1}
          BY <3>3, <3>4 DEF Ended
        <4>2. \A i \in 1 .. n + 1 : i \in 1 .. n \/ i = n + 1
          BY <1>2
        <4>3. \A i \in 1 .. n : i \in 1 .. n + 1 /\ kept[i] = old[i]
          BY <1>2, <2>2
        <4>4. n + 1 \in 1 .. n + 1 /\ kept[n + 1] = m
          BY <1>2, <2>2
        <4>5. \A x \in Ended(d) : x \in Ended(c) \cup {m}
          BY <2>5, <4>1, <4>2, <4>3, <4>4
        <4>6. \A x \in Ended(c) \cup {m} : x \in Ended(d)
          BY <2>5, <4>1, <4>3, <4>4
        <4> QED BY <4>5, <4>6
      <3>6. \A x \in Messages : states[x] = IF x = m THEN outcome ELSE c.states[x]
        BY <1>3, <3>1
      <3>7. \A x \in Ended(d) : x \in Messages /\ states[x] # None
        BY <1>2, <1>3, <1>4, <2>3, <2>5, <3>5, <3>6, ElementOfSeq
      <3>8. Remembers(d)
        BY <2>2, <2>4, <2>6, <3>3, <3>4, <3>7 DEF Remembers
      <3>9. Remaining(d) = Remaining(c) \ {m}
        BY <3>3, <3>5, <3>6 DEF Remaining
      <3> QED BY <1>3, <3>3, <3>5, <3>6, <3>8, <3>9
    <2>7. CASE ~(n + 1 <= Remembered)
      <3>1. PICK h : h = Head(kept)
        OBVIOUS
      <3>2. PICK states : states = [c.states EXCEPT ![m] = outcome, ![h] = None]
        OBVIOUS
      <3>3. PICK rest : rest = Tail(kept)
        OBVIOUS
      <3>4. d = [c EXCEPT !.retired = rest, !.states = states]
        BY <1>1, <1>6, <2>1, <2>2, <2>7, <3>1, <3>2, <3>3 DEF Retire
      <3>5. d.retired = rest /\ d.states = states
        BY <3>4 DEF CourierType
      <3>6. /\ rest \in Seq(Messages) /\ Len(rest) = n /\ DOMAIN rest = 1 .. n
            /\ \A i \in 1 .. n : rest[i] = kept[i + 1]
            /\ h = kept[1] /\ h \in Messages
        <4>1. /\ rest \in Seq(Messages) /\ Len(rest) = (n + 1) - 1 /\ h = kept[1]
              /\ h \in Messages /\ \A i \in 1 .. (n + 1) - 1 : rest[i] = kept[i + 1]
          BY <2>2, <3>1, <3>3, HeadTailProperties
        <4>2. (n + 1) - 1 = n
          BY <1>2
        <4> QED BY <4>1, <4>2, LenProperties
      <3>7. Ended(d) = {rest[i] : i \in 1 .. n}
        BY <3>5, <3>6 DEF Ended
      <3>8. \A x \in Messages :
              states[x] = IF x = h THEN None ELSE IF x = m THEN outcome ELSE c.states[x]
        BY <1>3, <3>2, <3>6
      <3>9. ASSUME NEW i \in 1 .. n
            PROVE  /\ rest[i] \in Messages /\ rest[i] # h
                   /\ rest[i] = m \/ \E j \in 1 .. n : rest[i] = old[j]
        <4>1. rest[i] = kept[i + 1] /\ h = kept[1] /\ i + 1 # 1
              /\ i + 1 \in 1 .. n + 1 /\ 1 \in 1 .. n + 1
          BY <1>2, <3>6
        <4>2. rest[i] # h
          BY <2>4, <4>1
        <4>3. rest[i] = m \/ \E j \in 1 .. n : rest[i] = old[j]
          BY <1>2, <2>2, <4>1
        <4> QED BY <3>6, <4>2, <4>3, ElementOfSeq
      <3>10. Ended(d) \subseteq Ended(c) \cup {m}
        BY <2>5, <3>7, <3>9
      <3>11. \A x \in Ended(d) : states[x] # None
        BY <1>3, <1>4, <3>7, <3>8, <3>9
      <3>12. \A i, j \in 1 .. n : rest[i] = rest[j] => i = j
        <4>1. ASSUME NEW i \in 1 .. n, NEW j \in 1 .. n, rest[i] = rest[j]
              PROVE  i = j
          <5>1. i + 1 \in 1 .. n + 1 /\ j + 1 \in 1 .. n + 1
            BY <1>2
          <5>2. kept[i + 1] = kept[j + 1]
            BY <3>6, <4>1
          <5>3. i + 1 = j + 1
            BY <2>4, <5>1, <5>2
          <5> QED BY <5>3
        <4> QED BY <4>1
      <3>13. Remembers(d)
        BY <1>4, <3>5, <3>6, <3>11, <3>12 DEF Remembers
      <3>14. h = m \/ h \in Ended(c)
        BY <1>2, <2>2, <2>5, <3>6
      <3>15. ASSUME NEW x \in Messages, x # m, x # h
             PROVE  x \in Ended(d) <=> x \in Ended(c)
        <4>1. ASSUME NEW j \in 1 .. n, x = old[j]
              PROVE  x \in Ended(d)
          <5>1. j # 1
            BY <2>2, <3>6, <3>15, <4>1
          <5>2. j - 1 \in 1 .. n /\ (j - 1) + 1 = j
            BY <1>2, <5>1
          <5>3. rest[j - 1] = x
            BY <2>2, <3>6, <4>1, <5>2
          <5> QED BY <3>7, <5>2, <5>3
        <4> QED BY <2>5, <3>10, <3>15, <4>1
      <3>16. m \notin Remaining(d)
        <4>1. CASE m = h
          BY <3>5, <3>8, <4>1 DEF Remaining
        <4>2. CASE m # h
          <5>1. n # 0
            BY <2>2, <3>6, <4>2
          <5>2. n \in 1 .. n
            BY <1>2, <5>1
          <5>3. rest[n] = m
            BY <2>2, <3>6, <5>2
          <5> QED BY <3>7, <5>2, <5>3 DEF Remaining
        <4> QED BY <4>1, <4>2
      <3>17. h \notin Remaining(d)
        BY <3>5, <3>8 DEF Remaining
      <3>18. \A x \in Messages : x # m /\ x # h => (x \in Remaining(d) <=> x \in Remaining(c))
        BY <3>5, <3>8, <3>15 DEF Remaining
      <3>19. h # m => h \notin Remaining(c)
        BY <3>14 DEF Remaining
      <3>20. Remaining(d) = Remaining(c) \ {m}
        <4>1. Remaining(d) \subseteq Messages /\ Remaining(c) \subseteq Messages
          BY DEF Remaining
        <4> QED BY <3>16, <3>17, <3>18, <3>19, <4>1
      <3> QED BY <1>3, <3>5, <3>8, <3>10, <3>13, <3>20
    <2> QED BY <2>6, <2>7
  <1> QED BY <1>5, <1>6

LEMMA FitsLighter ==
    ASSUME NEW c \in CourierType, NEW d \in CourierType, Fits(c), Lighter(c, d)
    PROVE  Fits(d)
  <1>1. c.charged \in Nat /\ d.charged \in Nat /\ RuntimeBytes \in Nat
        /\ MailboxBytes \in Nat /\ MailboxEnvelopes \in Nat
    BY CourierFields, CourierAssumption
  <1>2. ASSUME NEW s \in Sessions, d.box[s] # None
        PROVE  /\ d.box[s].bytes <= MailboxBytes
               /\ Len(d.box[s].queue) <= MailboxEnvelopes
               /\ Distinct(d.box[s].queue)
    <2>1. c.box[s] # None
      BY <1>2 DEF Lighter
    <2>2. /\ d.box[s].bytes \in Nat /\ Len(d.box[s].queue) \in Nat
          /\ c.box[s].bytes \in Nat /\ Len(c.box[s].queue) \in Nat
      BY <1>2, <2>1, MailboxFields, LenProperties
    <2>3. /\ d.box[s].bytes <= c.box[s].bytes
          /\ Len(d.box[s].queue) <= Len(c.box[s].queue)
          /\ Distinct(c.box[s].queue) => Distinct(d.box[s].queue)
      BY <2>1 DEF Lighter
    <2>4. /\ c.box[s].bytes <= MailboxBytes /\ Len(c.box[s].queue) <= MailboxEnvelopes
          /\ Distinct(c.box[s].queue)
      BY <2>1 DEF Fits
    <2> QED BY <1>1, <2>2, <2>3, <2>4, AtMostTransitive
  <1>3. d.charged <= RuntimeBytes
    <2>1. d.charged <= c.charged /\ c.charged <= RuntimeBytes
      BY DEF Lighter, Fits
    <2> QED BY <1>1, <2>1, AtMostTransitive
  <1> QED BY <1>2, <1>3 DEF Fits

LEMMA LiveSame == ASSUME NEW c, NEW d, d.box = c.box
                  PROVE  /\ \A s \in Sessions : IsLive(d, s) <=> IsLive(c, s)
                         /\ Mail(d) = Mail(c) /\ Waits(d) = Waits(c)
  BY DEF IsLive, Mail, Waits

\* A change of what is remembered, and of nothing else.
LEMMA OnlyStatesChange ==
    ASSUME NEW c, NEW D, Coherent(c, D), NEW d, Sound(d), Remembers(d),
           d.box = c.box, d.calls = c.calls, d.rooms = c.rooms, d.charged = c.charged,
           Waits(c) \cup Asks(c, D) \subseteq Remaining(d)
    PROVE  Coherent(d, D) /\ Asks(d, D) = Asks(c, D) /\ Waits(d) = Waits(c)
  <1>1. Mail(d) = Mail(c) /\ Waits(d) = Waits(c) /\ \A s : IsLive(d, s) <=> IsLive(c, s)
    BY LiveSame DEF IsLive
  <1>2. OpenCalls(d) = OpenCalls(c) /\ OpenRooms(d) = OpenRooms(c) /\ Asks(d, D) = Asks(c, D)
    BY DEF OpenCalls, OpenRooms, Asks
  <1>3. Fits(d)
    BY DEF Coherent, Fits
  <1>4. UniqueMail(d)
    BY <1>1 DEF Coherent, UniqueMail
  <1>5. \A r \in OpenRooms(d) : RoomHolds(d, r)
    BY <1>1, <1>2 DEF Coherent, RoomHolds
  <1>6. CallsDiffer(d)
    BY <1>1, <1>2 DEF Coherent, CallsDiffer
  <1>7. ASSUME NEW k \in OpenCalls(d) \ D
        PROVE  CallHolds(d, k)
    <2>1. CallHolds(c, k) /\ k \in OpenCalls(c)
      BY <1>2 DEF Coherent
    <2>2. c.calls[k].source \in Sessions /\ c.calls[k].target \in Sessions
      BY <2>1, CallFields DEF Coherent, Sound, OpenCalls
    <2>3. RoundHolds(d, k)
      BY <2>1, RoundStays DEF CallHolds
    <2> QED BY <1>1, <2>1, <2>2, <2>3, CallStays
  <1>8. ASSUME NEW e \in Mail(d)
        PROVE  MailHolds(d, e, D)
    <2>1. MailHolds(c, e, D)
      BY <1>1, CoherentMail
    <2>2. \A stage : Carries(c, e, stage) => Carries(d, e, stage)
      BY DEF Carries, MatchesCall
    <2> QED BY <1>1, <1>2, <2>1, <2>2 DEF MailHolds
  <1>9. Waits(d) \cup Asks(d, D) \subseteq Remaining(d)
    BY <1>1, <1>2
  <1> QED BY <1>1, <1>2, <1>3, <1>4, <1>5, <1>6, <1>7, <1>8, <1>9 DEF Coherent

SameMail(c, d) == d.box = c.box /\ Mail(d) = Mail(c) /\ Lighter(c, d)

\* Retiring what is neither waiting nor asked settles it.
LEMMA RetireKeeps ==
    ASSUME NEW c, NEW D, Coherent(c, D), NEW m \in Messages,
           m \notin Waits(c) \cup Asks(c, D), NEW outcome \in States,
           NEW d, d = Retire(c, m, outcome)
    PROVE  /\ Coherent(d, D) /\ Debt(d, D) = Debt(c, D) \ {m}
           /\ SameMail(c, d) /\ d.calls = c.calls /\ d.rooms = c.rooms
           /\ Ended(d) \subseteq Ended(c) \cup {m}
           /\ \A x \in Messages : d.states[x] # None => c.states[x] # None \/ x = m
  <1>1. Sound(c) /\ c \in CourierType /\ Remembers(c)
    BY DEF Coherent, Sound
  <1>2. /\ Sound(d) /\ d.box = c.box /\ d.calls = c.calls /\ d.rooms = c.rooms
        /\ d.charged = c.charged /\ Mail(d) = Mail(c) /\ Lighter(c, d)
    BY <1>1, RetireEffect
  <1>3. Remembers(d) /\ Remaining(d) = Remaining(c) \ {m}
    BY <1>1, RetireRemembers
  <1>4. Waits(c) \cup Asks(c, D) \subseteq Remaining(d)
    BY <1>3 DEF Coherent
  <1>5. Coherent(d, D) /\ Asks(d, D) = Asks(c, D) /\ Waits(d) = Waits(c)
    BY <1>2, <1>3, <1>4, OnlyStatesChange
  <1>6. Debt(d, D) = Debt(c, D) \ {m}
    BY <1>3, <1>5 DEF Debt
  <1>7. /\ Ended(d) \subseteq Ended(c) \cup {m}
        /\ \A x \in Messages : d.states[x] # None => c.states[x] # None \/ x = m
    BY <1>1, RetireRemembers
  <1> QED BY <1>2, <1>5, <1>6, <1>7 DEF SameMail

\* A call is forgotten once no ask carries it and no reply with a room.
LEMMA EndCallKeeps ==
    ASSUME NEW c, NEW D, Coherent(c, D), NEW k \in Calls, k \in D,
           \A e \in Mail(c) : c.calls[k] # None => e.id # c.calls[k].ask,
           \A e \in Mail(c) : MatchesCall(c, e) /\ e.call = k => e.room = None,
           NEW d, d = EndCall(c, k)
    PROVE  /\ Coherent(d, D) /\ Debt(d, D) = Debt(c, D)
           /\ SameMail(c, d) /\ d.rooms = c.rooms
           /\ d.calls[k] = None /\ \A l \in Calls \ {k} : d.calls[l] = c.calls[l]
           /\ Waits(d) = Waits(c) /\ Asks(d, D) = Asks(c, D)
           /\ d.states = c.states /\ d.retired = c.retired
  <1>1. Sound(c) /\ c \in CourierType
    BY DEF Coherent, Sound
  <1>2. Sound(d) /\ Lighter(c, d) /\ Mail(d) = Mail(c) /\ d.box = c.box
    BY <1>1, EndCallEffect
  <1>3. /\ d.calls = [l \in Calls |-> IF l = k THEN None ELSE c.calls[l]]
        /\ d.rooms = c.rooms /\ d.states = c.states /\ d.retired = c.retired
        /\ d.charged = c.charged
    BY <1>1, EndCallFields
  <1>4. d.calls[k] = None /\ \A l \in Calls \ {k} : d.calls[l] = c.calls[l]
    BY <1>3
  <1>5. Waits(d) = Waits(c) /\ \A s : IsLive(d, s) <=> IsLive(c, s)
    BY <1>2 DEF Waits, IsLive
  <1>6. /\ OpenCalls(d) = OpenCalls(c) \ {k} /\ OpenRooms(d) = OpenRooms(c)
        /\ Remaining(d) = Remaining(c)
    BY <1>3, <1>4 DEF OpenCalls, OpenRooms, Remaining, Ended
  <1>7. Asks(d, D) = Asks(c, D)
    BY <1>4, <1>6 DEF Asks, OpenCalls
  <1>8. Debt(d, D) = Debt(c, D)
    BY <1>5, <1>6, <1>7 DEF Debt
  <1>9. Fits(d) /\ UniqueMail(d) /\ Remembers(d)
    <2>1. Fits(d)
      BY <1>2, <1>3 DEF Coherent, Fits
    <2>2. UniqueMail(d)
      BY <1>2 DEF Coherent, UniqueMail
    <2>3. Remembers(d)
      BY <1>3 DEF Coherent, Remembers, Ended
    <2> QED BY <2>1, <2>2, <2>3
  <1>10. \A r \in OpenRooms(d) : RoomHolds(d, r)
    BY <1>3, <1>5, <1>6 DEF Coherent, RoomHolds
  <1>11. CallsDiffer(d)
    <2>1. \A l \in OpenCalls(d) : l \in OpenCalls(c) /\ d.calls[l] = c.calls[l]
      BY <1>4, <1>6 DEF OpenCalls
    <2> QED BY <1>2, <2>1 DEF Coherent, CallsDiffer
  <1>12. ASSUME NEW l \in OpenCalls(d) \ D
         PROVE  CallHolds(d, l)
    <2>1. l \in OpenCalls(c) \ D /\ d.calls[l] = c.calls[l]
      BY <1>4, <1>6 DEF OpenCalls
    <2>2. CallHolds(c, l)
      BY <2>1 DEF Coherent
    <2>3. RoundHolds(d, l)
      <3>1. RoundHolds(c, l) /\ d.rooms = c.rooms
        BY <1>3, <2>2 DEF CallHolds
      <3> QED BY <2>1, <3>1, RoundStays
    <2> QED BY <1>2, <1>5, <2>1, <2>2, <2>3 DEF CallHolds
  <1>13. ASSUME NEW e \in Mail(d)
         PROVE  MailHolds(d, e, D)
    <2>1. e \in Mail(c) /\ MailHolds(c, e, D) /\ e.call \in Calls
      BY <1>2, CoherentMail
    <2>2. CASE e.call # k
      <3>1. \A stage : Carries(c, e, stage) => Carries(d, e, stage)
        BY <1>4, <2>1, <2>2 DEF Carries, MatchesCall
      <3> QED BY <1>3, <1>5, <1>7, <2>1, <3>1 DEF MailHolds
    <2>3. CASE e.call = k
      <3>1. ASSUME MatchesCall(c, e)
            PROVE  /\ e.kind # "Ask" /\ e.room = None
                   /\ e.replyTo \notin Waits(c) \cup Asks(c, D)
        <4>1. /\ k \in OpenCalls(c) /\ c.calls[k] # None
              /\ e.kind = "Ask" => e.id = c.calls[k].ask
              /\ e.kind # "Ask" => e.replyTo = c.calls[k].ask
          BY <2>1, <2>3, <3>1, MatchedMail DEF OpenCalls
        <4>2. c.calls[k].ask \notin Waits(c)
          BY <4>1 DEF Waits
        <4>3. c.calls[k].ask \notin Asks(c, D)
          BY <4>1 DEF Asks, Coherent, CallsDiffer
        <4> QED BY <2>1, <2>3, <3>1, <4>1, <4>2, <4>3
      <3>2. \A stage : Carries(c, e, stage) => MatchesCall(c, e)
        BY DEF Carries
      <3> QED BY <1>3, <1>5, <1>7, <2>1, <3>1, <3>2 DEF MailHolds
    <2> QED BY <2>2, <2>3
  <1>14. Waits(d) \cup Asks(d, D) \subseteq Remaining(d)
    BY <1>5, <1>6, <1>7 DEF Coherent
  <1>15. Coherent(d, D)
    BY <1>2, <1>9, <1>10, <1>11, <1>12, <1>13, <1>14 DEF Coherent
  <1> QED BY <1>2, <1>3, <1>4, <1>5, <1>7, <1>8, <1>15 DEF SameMail

LEMMA SameMailTransitive ==
    ASSUME NEW a \in CourierType, NEW b \in CourierType, NEW c \in CourierType,
           SameMail(a, b), SameMail(b, c)
    PROVE  SameMail(a, c)
  BY LighterTransitive DEF SameMail

\* A dying call ends, and its ask is settled.
LEMMA CallEnds ==
    ASSUME NEW c, NEW D, Coherent(c, D), NEW k \in OpenCalls(c), k \in D,
           \A e \in Mail(c) : e.id # c.calls[k].ask,
           \A e \in Mail(c) : MatchesCall(c, e) /\ e.call = k => e.room = None,
           NEW outcome \in States,
           NEW d, d = Retire(EndCall(c, k), c.calls[k].ask, outcome)
    PROVE  /\ Coherent(d, D) /\ Debt(d, D) = Debt(c, D) \ {c.calls[k].ask}
           /\ SameMail(c, d) /\ d.rooms = c.rooms
           /\ d.calls[k] = None /\ \A l \in Calls \ {k} : d.calls[l] = c.calls[l]
           /\ Ended(d) \subseteq Ended(c) \cup {c.calls[k].ask}
           /\ \A x \in Messages :
                 d.states[x] # None => c.states[x] # None \/ x = c.calls[k].ask
  <1>1. k \in Calls /\ c.calls[k] # None /\ c \in CourierType
    BY DEF OpenCalls, Coherent, Sound
  <1>2. PICK m : m = c.calls[k].ask
    OBVIOUS
  <1>3. m \in Messages
    BY <1>1, <1>2, CallFields
  <1>4. PICK x : x = EndCall(c, k)
    OBVIOUS
  <1>5. /\ Coherent(x, D) /\ Debt(x, D) = Debt(c, D)
        /\ SameMail(c, x) /\ x.rooms = c.rooms
        /\ x.calls[k] = None /\ \A l \in Calls \ {k} : x.calls[l] = c.calls[l]
        /\ Waits(x) = Waits(c) /\ Asks(x, D) = Asks(c, D)
        /\ x.states = c.states /\ x.retired = c.retired
    BY <1>1, <1>4, EndCallKeeps
  <1>6. m \notin Waits(x) \cup Asks(x, D)
    <2>1. m \notin Waits(c)
      BY <1>2 DEF Waits
    <2>2. m \notin Asks(c, D)
      BY <1>2 DEF Asks, Coherent, CallsDiffer
    <2> QED BY <1>5, <2>1, <2>2
  <1>7. d = Retire(x, m, outcome)
    BY <1>2, <1>4
  <1>8. /\ Coherent(d, D) /\ Debt(d, D) = Debt(x, D) \ {m}
        /\ SameMail(x, d) /\ d.calls = x.calls /\ d.rooms = x.rooms
        /\ Ended(d) \subseteq Ended(x) \cup {m}
        /\ \A y \in Messages : d.states[y] # None => x.states[y] # None \/ y = m
    BY <1>3, <1>5, <1>6, <1>7, RetireKeeps
  <1>9. x \in CourierType /\ d \in CourierType
    BY <1>5, <1>8 DEF Coherent, Sound
  <1>10. SameMail(c, d)
    BY <1>1, <1>5, <1>8, <1>9, SameMailTransitive
  <1>11. Ended(x) = Ended(c)
    BY <1>5 DEF Ended
  <1> QED BY <1>2, <1>5, <1>8, <1>10, <1>11

LEMMA RetireMailKeeps ==
    ASSUME NEW c, NEW D, Coherent(c, D), NEW mail \in Seq(Envelope),
           \A e \in Range(mail) : e.id \notin Waits(c) \cup Asks(c, D),
           NEW outcome \in States, NEW d, d = RetireMail(c, mail, outcome)
    PROVE  /\ Coherent(d, D) /\ Debt(d, D) = Debt(c, D) \ {e.id : e \in Range(mail)}
           /\ SameMail(c, d) /\ d.calls = c.calls /\ d.rooms = c.rooms
  <1> DEFINE step == [e \in Envelope |-> [x \in CourierType |-> Retire(x, e.id, outcome)]]
             Settled(i) == {mail[j].id : j \in 1 .. i}
             P == [i \in Nat |-> {x \in CourierType :
                     /\ Coherent(x, D) /\ SameMail(c, x)
                     /\ x.calls = c.calls /\ x.rooms = c.rooms
                     /\ Debt(x, D) = Debt(c, D) \ Settled(i)}]
             n == Len(mail)
  <1>1. c \in CourierType /\ Sound(c)
    BY DEF Coherent, Sound
  <1>2. n \in Nat /\ DOMAIN mail = 1 .. n /\ \A i \in 1 .. n : mail[i] \in Envelope
    BY LenProperties, ElementOfSeq
  <1>3. c \in P[0]
    <2>1. Lighter(c, c) /\ SameMail(c, c)
      BY <1>1, LighterSame DEF SameMail
    <2>2. Settled(0) = {}
      OBVIOUS
    <2> QED BY <1>1, <2>1, <2>2
  <1>4. ASSUME NEW i \in 1 .. n, NEW x \in P[i - 1]
        PROVE  step[mail[i]][x] \in P[i]
    <2>1. i \in Nat /\ i - 1 \in Nat /\ mail[i] \in Envelope
      BY <1>2
    <2>2. /\ x \in CourierType /\ Coherent(x, D) /\ SameMail(c, x)
          /\ x.calls = c.calls /\ x.rooms = c.rooms
          /\ Debt(x, D) = Debt(c, D) \ Settled(i - 1)
      BY <2>1
    <2>3. PICK y : y = Retire(x, mail[i].id, outcome)
      OBVIOUS
    <2>4. step[mail[i]][x] = y
      BY <2>1, <2>2, <2>3
    <2>5. mail[i].id \in Messages
      BY <2>1 DEF Envelope
    <2>6. mail[i].id \notin Waits(x) \cup Asks(x, D)
      <3>1. mail[i] \in Range(mail)
        BY <1>2 DEF Range
      <3>2. Waits(x) = Waits(c) /\ Asks(x, D) = Asks(c, D)
        BY <2>2 DEF Waits, Asks, OpenCalls, SameMail
      <3> QED BY <3>1, <3>2
    <2>7. /\ Coherent(y, D) /\ Debt(y, D) = Debt(x, D) \ {mail[i].id}
          /\ SameMail(x, y) /\ y.calls = x.calls /\ y.rooms = x.rooms
      BY <2>2, <2>3, <2>5, <2>6, RetireKeeps
    <2>8. y \in CourierType
      BY <2>7 DEF Coherent, Sound
    <2>9. SameMail(c, y)
      BY <1>1, <2>2, <2>7, <2>8, SameMailTransitive
    <2>10. Settled(i) = Settled(i - 1) \cup {mail[i].id}
      <3>1. \A j \in 1 .. i : j \in 1 .. i - 1 \/ j = i
        BY <2>1
      <3>2. \A j \in 1 .. i - 1 : j \in 1 .. i
        BY <2>1
      <3>3. i \in 1 .. i
        BY <1>4
      <3> QED BY <3>1, <3>2, <3>3
    <2>11. Debt(y, D) = Debt(c, D) \ Settled(i)
      BY <2>2, <2>7, <2>10
    <2> QED BY <2>1, <2>2, <2>4, <2>7, <2>8, <2>9, <2>11
  <1>5. d = After(step, c, mail)
    BY DEF RetireMail
  <1>6. Settled(n) = {e.id : e \in Range(mail)}
    BY <1>2 DEF Range
  <1>7. d \in P[n]
    <2> HIDE DEF step, P
    <2> QED BY <1>2, <1>3, <1>4, <1>5, LoopReaches
  <1>8. /\ Coherent(d, D) /\ SameMail(c, d) /\ d.calls = c.calls /\ d.rooms = c.rooms
        /\ Debt(d, D) = Debt(c, D) \ Settled(n)
    BY <1>2, <1>7
  <1> QED BY <1>6, <1>8

ForgetRoom(c, r) == [c EXCEPT !.rooms[r] = None]

\* A room is forgotten once no mail and no call carries its tag.
LEMMA ForgetRoomKeeps ==
    ASSUME NEW c, NEW D, Coherent(c, D), NEW r \in Rooms,
           \A e \in Mail(c) : e.room # r,
           \A k \in OpenCalls(c) \ D : c.calls[k].room # r,
           NEW d, d = ForgetRoom(c, r)
    PROVE  /\ Coherent(d, D) /\ Debt(d, D) = Debt(c, D)
           /\ SameMail(c, d) /\ d.calls = c.calls
           /\ d.rooms[r] = None /\ \A x \in Rooms \ {r} : d.rooms[x] = c.rooms[x]
  <1>1. Sound(c) /\ c \in CourierType
    BY DEF Coherent, Sound
  <1>2. Sound(d) /\ Lighter(c, d) /\ Mail(d) = Mail(c) /\ d.box = c.box /\ d.calls = c.calls
    BY <1>1, ForgetRoomEffect DEF ForgetRoom
  <1>3. /\ d.rooms = [c.rooms EXCEPT ![r] = None]
        /\ d.states = c.states /\ d.retired = c.retired /\ d.charged = c.charged
    BY <1>1 DEF CourierType, ForgetRoom
  <1>4. d.rooms[r] = None /\ \A x \in Rooms \ {r} : d.rooms[x] = c.rooms[x]
    BY <1>1, <1>3, CourierFields
  <1>5. Waits(d) = Waits(c) /\ \A s : IsLive(d, s) <=> IsLive(c, s)
    BY <1>2 DEF Waits, IsLive
  <1>6. /\ OpenCalls(d) = OpenCalls(c) /\ OpenRooms(d) = OpenRooms(c) \ {r}
        /\ Remaining(d) = Remaining(c) /\ Asks(d, D) = Asks(c, D)
    BY <1>2, <1>3, <1>4 DEF OpenCalls, OpenRooms, Remaining, Ended, Asks
  <1>7. Debt(d, D) = Debt(c, D)
    BY <1>5, <1>6 DEF Debt
  <1>8. Fits(d) /\ UniqueMail(d) /\ Remembers(d)
    <2>1. Fits(d)
      BY <1>2, <1>3 DEF Coherent, Fits
    <2>2. UniqueMail(d)
      BY <1>2 DEF Coherent, UniqueMail
    <2>3. Remembers(d)
      BY <1>3 DEF Coherent, Remembers, Ended
    <2> QED BY <2>1, <2>2, <2>3
  <1>9. \A x \in OpenRooms(d) : RoomHolds(d, x)
    <2>1. \A x \in OpenRooms(d) : x \in OpenRooms(c) /\ d.rooms[x] = c.rooms[x]
      BY <1>4, <1>6 DEF OpenRooms
    <2> QED BY <1>5, <2>1 DEF Coherent, RoomHolds
  <1>10. CallsDiffer(d)
    BY <1>2, <1>6 DEF Coherent, CallsDiffer
  <1>11. ASSUME NEW k \in OpenCalls(d) \ D
         PROVE  CallHolds(d, k)
    <2>1. k \in OpenCalls(c) \ D /\ d.calls[k] = c.calls[k]
      BY <1>2, <1>6
    <2>2. CallHolds(c, k)
      BY <2>1 DEF Coherent
    <2>3. c.calls[k].room # r /\ c.calls[k].room \in Maybe(Rooms)
      BY <1>1, <2>1, CallFields DEF OpenCalls
    <2>4. RoundHolds(d, k)
      <3>1. RoundHolds(c, k)
        BY <2>2 DEF CallHolds
      <3>2. c.calls[k].room # None => d.rooms[c.calls[k].room] = c.rooms[c.calls[k].room]
        BY <1>4, <2>3 DEF Maybe
      <3> QED BY <2>1, <3>1, <3>2, RoundStays
    <2> QED BY <1>2, <1>5, <2>1, <2>2, <2>4 DEF CallHolds
  <1>12. ASSUME NEW e \in Mail(d)
         PROVE  MailHolds(d, e, D)
    <2>1. e \in Mail(c) /\ MailHolds(c, e, D) /\ e.room # r /\ e.room \in Maybe(Rooms)
      BY <1>2, CoherentMail DEF Envelope
    <2>2. \A stage : Carries(c, e, stage) => Carries(d, e, stage)
      BY <1>2 DEF Carries, MatchesCall
    <2>3. e.room # None => d.rooms[e.room] # None
      BY <1>4, <2>1 DEF MailHolds, Maybe
    <2> QED BY <1>5, <1>6, <2>1, <2>2, <2>3 DEF MailHolds
  <1>13. Waits(d) \cup Asks(d, D) \subseteq Remaining(d)
    BY <1>5, <1>6 DEF Coherent
  <1>14. Coherent(d, D)
    BY <1>2, <1>8, <1>9, <1>10, <1>11, <1>12, <1>13 DEF Coherent
  <1> QED BY <1>2, <1>4, <1>7, <1>14 DEF SameMail

\* Once every dying call has ended and nothing is owed, the courier is exact.
LEMMA Settles ==
    ASSUME NEW c, NEW D, Coherent(c, D), OpenCalls(c) \cap D = {}, Debt(c, D) = {}
    PROVE  Exact(c)
  <1>1. Coherent(c, {})
    BY CoherentWider
  <1>2. Asks(c, {}) = Asks(c, D)
    BY DEF Asks
  <1> QED BY <1>1, <1>2 DEF Exact, Debt

LEMMA InBoxOrderIsAll ==
    ASSUME NEW c \in CourierType, NEW mail
    PROVE  \A e \in Mail(c) : e \in mail => e \in Range(InBoxOrder(c, mail))
  <1> DEFINE step == [s \in Sessions |-> [found \in Seq(Envelope) |->
                        IF c.box[s] = None THEN found
                        ELSE found \o Only(c.box[s].queue, mail)]]
             Has(s, found) == c.box[s] # None =>
                                 Range(c.box[s].queue) \cap mail \subseteq Range(found)
  <1>1. PICK q : q = SessionOrder /\ q \in Seq(Sessions)
    BY OrderProperties
  <1>2. Len(q) \in Nat /\ \A i \in 1 .. Len(q) : q[i] \in Sessions
    BY <1>1, LenProperties, ElementOfSeq
  <1> DEFINE P == [i \in Nat |-> {found \in Seq(Envelope) : \A j \in 1 .. i : Has(q[j], found)}]
  <1>3. InBoxOrder(c, mail) = After(step, <<>>, q)
    BY <1>1 DEF InBoxOrder
  <1>4. <<>> \in P[0]
    OBVIOUS
  <1>5. ASSUME NEW i \in 1 .. Len(q), NEW found \in P[i - 1]
        PROVE  step[q[i]][found] \in P[i]
    <2>1. PICK s : s = q[i] /\ s \in Sessions
      BY <1>2
    <2>2. i \in Nat /\ i - 1 \in Nat /\ \A j \in 1 .. i : j \in 1 .. i - 1 \/ j = i
      BY <1>2
    <2>3. found \in Seq(Envelope) /\ \A j \in 1 .. i - 1 : Has(q[j], found)
      BY <2>2
    <2>4. PICK more : more = IF c.box[s] = None THEN found
                             ELSE found \o Only(c.box[s].queue, mail)
      OBVIOUS
    <2>5. step[q[i]][found] = more
      BY <2>1, <2>3, <2>4
    <2>6. more \in Seq(Envelope) /\ Range(found) \subseteq Range(more) /\ Has(s, more)
      <3>1. CASE c.box[s] = None
        BY <2>3, <2>4, <3>1
      <3>2. CASE c.box[s] # None
        <4>1. PICK late : late = Only(c.box[s].queue, mail)
          OBVIOUS
        <4>2. late \in Seq(Envelope) /\ Range(late) = Range(c.box[s].queue) \cap mail
          BY <2>1, <3>2, <4>1, MailboxFields, OnlyProperties
        <4>3. more = found \o late
          BY <2>4, <3>2, <4>1
        <4>4. more \in Seq(Envelope) /\ Range(more) = Range(found) \cup Range(late)
          BY <2>3, <4>2, <4>3, RangeConcatenation, ConcatProperties
        <4> QED BY <4>2, <4>4
      <3> QED BY <3>1, <3>2
    <2>7. \A j \in 1 .. i : Has(q[j], more)
      BY <2>1, <2>2, <2>3, <2>6
    <2>8. more \in P[i]
      <3> HIDE DEF Has
      <3> QED BY <2>2, <2>6, <2>7
    <2> HIDE DEF step, P
    <2> QED BY <2>1, <2>5, <2>8
  <1>6. After(step, <<>>, q) \in P[Len(q)]
    <2> HIDE DEF step, P
    <2>1. PICK none : none = <<>> /\ none \in P[0]
      BY <1>4
    <2>2. \A i \in 1 .. Len(q) : \A found \in P[i - 1] : step[q[i]][found] \in P[i]
      BY <1>5
    <2>3. After(step, none, q) \in P[Len(q)]
      BY <1>2, <2>1, <2>2, LoopReaches
    <2> QED BY <2>1, <2>3
  <1>7. \A j \in 1 .. Len(q) : Has(q[j], InBoxOrder(c, mail))
    BY <1>2, <1>3, <1>6
  <1>8. ASSUME NEW e \in Mail(c), e \in mail
        PROVE  e \in Range(InBoxOrder(c, mail))
    <2>1. PICK s \in Sessions : c.box[s] # None /\ e \in Range(c.box[s].queue)
      BY MailIsEnvelopes
    <2>2. PICK j \in 1 .. Len(q) : q[j] = s
      BY <1>1, OrderProperties
    <2>3. Has(q[j], InBoxOrder(c, mail))
      BY <1>7
    <2> QED BY <1>8, <2>1, <2>2, <2>3
  <1> QED BY <1>8

LEMMA LighterLive ==
    ASSUME NEW c, NEW d, Lighter(c, d)
    PROVE  \A s \in Sessions : IsLive(d, s) <=> IsLive(c, s)
  BY DEF Lighter, IsLive

LEMMA RoomFields ==
    ASSUME NEW c \in CourierType, NEW r \in Rooms, c.rooms[r] # None
    PROVE  /\ c.rooms[r] \in Room /\ c.rooms[r].members \in SUBSET Sessions
           /\ c.rooms[r].owner \in Sessions /\ c.rooms[r].speaker \in Sessions
           /\ c.rooms[r].rounds \in Nat /\ c.rooms[r].deadline \in Nat
           /\ c.rooms[r].current \in Maybe(CallRef)
  BY CourierFields DEF Maybe, Room

\* Mail leaves the mailboxes that stay.
LEMMA MailLeavesQuietly ==
    ASSUME NEW c, NEW D, Coherent(c, D),
           NEW d, Sound(d), Lighter(c, d), SameRest(c, d), NEW E, D \subseteq E,
           \A e \in Mail(c) \ Mail(d) : MatchesCall(c, e) => e.call \in E
    PROVE  Coherent(d, E)
  <1>1. c \in CourierType /\ d \in CourierType /\ Fits(c)
    BY DEF Coherent, Sound
  <1>2. Fits(d)
    BY <1>1, FitsLighter
  <1>3. Mail(d) \subseteq Mail(c)
    BY LighterMail
  <1>4. \A s \in Sessions : IsLive(d, s) <=> IsLive(c, s)
    BY LighterLive
  <1>5. ASSUME NEW k \in OpenCalls(c) \ E
        PROVE  IsLive(d, c.calls[k].source) /\ IsLive(d, c.calls[k].target)
    <2>1. c.calls[k].source \in Sessions /\ c.calls[k].target \in Sessions
      BY <1>1, CallFields DEF OpenCalls
    <2>2. CallHolds(c, k)
      BY DEF Coherent
    <2> QED BY <1>4, <2>1, <2>2 DEF CallHolds
  <1>6. ASSUME NEW r \in OpenRooms(c), NEW s \in c.rooms[r].members
        PROVE  IsLive(d, s)
    <2>1. s \in Sessions
      BY <1>1, RoomFields DEF OpenRooms
    <2>2. IsLive(c, s)
      BY DEF Coherent, RoomHolds
    <2> QED BY <1>4, <2>1, <2>2
  <1> QED BY <1>2, <1>3, <1>5, <1>6, MailLeaves

DyingAsks(c, D) == {c.calls[k].ask : k \in OpenCalls(c) \cap D}

\* What is owed when mail leaves: that mail, and the asks of the dying calls.
LEMMA DebtOfLeaving ==
    ASSUME NEW c, Exact(c), NEW d, SameRest(c, d), NEW E
    PROVE  \A m \in Debt(d, E) : \/ m \in DyingAsks(d, E)
                                 \/ \E e \in Mail(c) \ Mail(d) : e.id = m
  <1>1. OpenCalls(d) = OpenCalls(c) /\ Remaining(d) = Remaining(c)
    BY DEF SameRest, OpenCalls, Remaining, Ended
  <1>2. ASSUME NEW m \in Debt(d, E), m \notin DyingAsks(d, E)
        PROVE  \E e \in Mail(c) \ Mail(d) : e.id = m
    <2>1. m \in Waits(c) \cup Asks(c, {}) /\ m \notin Waits(d) /\ m \notin Asks(d, E)
      BY <1>1 DEF Exact, Debt
    <2>2. m \notin Asks(c, {})
      BY <1>1, <1>2, <2>1 DEF Asks, DyingAsks, SameRest
    <2> QED BY <2>1, <2>2 DEF Waits
  <1> QED BY <1>2

\* x is c with some of the dying calls ended, and owes the asks of the others.
Ending(c, D, x) ==
    /\ Coherent(x, D) /\ Lighter(c, x)
    /\ x.rooms = c.rooms
    /\ \A k \in Calls : x.calls[k] = c.calls[k] \/ (k \in D /\ x.calls[k] = None)
    /\ Debt(x, D) \subseteq DyingAsks(x, D)

\* A step that ends the call k if it is dying.
EndsCall(D, k, x, y) ==
    /\ k \in D => y.calls[k] = None
    /\ \A l \in Calls : x.calls[l] = None => y.calls[l] = None

\* A loop over the calls that ends the dying ones settles what they owe.
LEMMA DyingCallsEnd ==
    ASSUME NEW c, NEW D, Ending(c, D, c), NEW step,
           \A k \in Calls : \A x \in CourierType : Ending(c, D, x) =>
              Ending(c, D, step[k][x]) /\ EndsCall(D, k, x, step[k][x]),
           NEW d, d = After(step, c, CallOrder)
    PROVE  /\ Exact(d) /\ Lighter(c, d) /\ d.rooms = c.rooms
           /\ \A k \in Calls : d.calls[k] = IF k \in D THEN None ELSE c.calls[k]
  <1>1. PICK q : q = CallOrder /\ q \in Seq(Calls)
    BY OrderProperties
  <1>2. Len(q) \in Nat /\ \A i \in 1 .. Len(q) : q[i] \in Calls
    BY <1>1, LenProperties, ElementOfSeq
  <1> DEFINE P == [i \in Nat |-> {x \in CourierType :
                     /\ Ending(c, D, x)
                     /\ \A j \in 1 .. i : q[j] \in D => x.calls[q[j]] = None}]
  <1>3. c \in P[0]
    BY DEF Ending, Coherent, Sound
  <1>4. ASSUME NEW i \in 1 .. Len(q), NEW x \in P[i - 1]
        PROVE  step[q[i]][x] \in P[i]
    <2>1. i \in Nat /\ i - 1 \in Nat /\ \A j \in 1 .. i : j \in 1 .. i - 1 \/ j = i
      BY <1>2
    <2>2. PICK k : k = q[i] /\ k \in Calls
      BY <1>2
    <2>3. x \in CourierType /\ Ending(c, D, x)
          /\ \A j \in 1 .. i - 1 : q[j] \in D => x.calls[q[j]] = None
      BY <2>1
    <2>4. PICK y : y = step[k][x]
      OBVIOUS
    <2>5. Ending(c, D, y) /\ EndsCall(D, k, x, y)
      BY <2>2, <2>3, <2>4
    <2>6. \A j \in 1 .. i : q[j] \in Calls
      BY <1>2
    <2>7. \A j \in 1 .. i : q[j] \in D => y.calls[q[j]] = None
      BY <2>1, <2>2, <2>3, <2>5, <2>6 DEF EndsCall
    <2>8. y \in CourierType
      BY <2>5 DEF Ending, Coherent, Sound
    <2>9. y \in P[i]
      BY <2>1, <2>5, <2>7, <2>8
    <2> QED BY <2>2, <2>4, <2>9
  <1>5. d \in P[Len(q)]
    <2> HIDE DEF P
    <2> QED BY <1>1, <1>2, <1>3, <1>4, LoopReaches
  <1>6. Ending(c, D, d) /\ \A j \in 1 .. Len(q) : q[j] \in D => d.calls[q[j]] = None
    BY <1>2, <1>5
  <1>7. \A k \in Calls : \E j \in 1 .. Len(q) : q[j] = k
    BY <1>1, OrderProperties
  <1>8. \A k \in Calls : k \in D => d.calls[k] = None
    BY <1>6, <1>7
  <1>9. OpenCalls(d) \cap D = {}
    BY <1>8 DEF OpenCalls
  <1>10. Debt(d, D) = {}
    BY <1>6, <1>9 DEF Ending, DyingAsks
  <1>11. Exact(d)
    BY <1>6, <1>9, <1>10, Settles DEF Ending
  <1>12. \A k \in Calls : d.calls[k] = IF k \in D THEN None ELSE c.calls[k]
    BY <1>6, <1>8 DEF Ending
  <1> QED BY <1>6, <1>11, <1>12 DEF Ending

\* Ending a dying call pays its ask.
LEMMA CallEndsWithin ==
    ASSUME NEW c, NEW D, NEW x, Ending(c, D, x), NEW k \in OpenCalls(x), k \in D,
           \A e \in Mail(x) : e.id # x.calls[k].ask,
           \A e \in Mail(x) : MatchesCall(x, e) /\ e.call = k => e.room = None,
           NEW outcome \in States,
           NEW y, y = Retire(EndCall(x, k), x.calls[k].ask, outcome), c \in CourierType
    PROVE  Ending(c, D, y) /\ EndsCall(D, k, x, y)
  <1>1. /\ Coherent(y, D) /\ Debt(y, D) = Debt(x, D) \ {x.calls[k].ask}
        /\ SameMail(x, y) /\ y.rooms = x.rooms
        /\ y.calls[k] = None /\ \A l \in Calls \ {k} : y.calls[l] = x.calls[l]
    BY CallEnds DEF Ending
  <1>2. x \in CourierType /\ y \in CourierType
    BY <1>1 DEF Ending, Coherent, Sound
  <1>3. Lighter(c, y)
    BY <1>1, <1>2, LighterTransitive DEF Ending, SameMail
  <1>4. Debt(y, D) \subseteq DyingAsks(y, D)
    <2>1. ASSUME NEW m \in Debt(y, D)
          PROVE  m \in DyingAsks(y, D)
      <3>1. m # x.calls[k].ask /\ m \in DyingAsks(x, D)
        BY <1>1 DEF Ending
      <3>2. PICK l \in OpenCalls(x) \cap D : m = x.calls[l].ask
        BY <3>1 DEF DyingAsks
      <3>3. l # k /\ l \in OpenCalls(y) /\ y.calls[l] = x.calls[l]
        BY <1>1, <3>1, <3>2 DEF OpenCalls
      <3> QED BY <3>2, <3>3 DEF DyingAsks
    <2> QED BY <2>1
  <1>5. \A l \in Calls : y.calls[l] = c.calls[l] \/ (l \in D /\ y.calls[l] = None)
    BY <1>1 DEF Ending
  <1>6. EndsCall(D, k, x, y)
    BY <1>1 DEF EndsCall
  <1> QED BY <1>1, <1>3, <1>4, <1>5, <1>6 DEF Ending

\* What is left when the room r has ended.
RoomRemoved(c, d, r) ==
    /\ Exact(d) /\ Lighter(c, d)
    /\ d.rooms[r] = None /\ \A x \in Rooms \ {r} : d.rooms[x] = c.rooms[x]
    /\ \A k \in Calls : \/ d.calls[k] = c.calls[k]
                        \/ d.calls[k] = None /\ c.rooms[r] # None /\ c.calls[k].room = r

LEMMA RemoveRoomKeeps ==
    ASSUME NEW c, Exact(c), NEW r \in Rooms, NEW outcome \in States,
           NEW d, d = RemoveRoom(c, r, outcome)
    PROVE  RoomRemoved(c, d, r)
  <1>1. Coherent(c, {}) /\ Sound(c) /\ c \in CourierType
    BY DEF Exact, Coherent, Sound
  <1>2. CASE c.rooms[r] = None
    <2>1. d = c
      BY <1>2 DEF RemoveRoom
    <2>2. Lighter(c, c)
      BY <1>1, LighterSame
    <2> QED BY <1>2, <2>1, <2>2 DEF RoomRemoved
  <1>3. CASE c.rooms[r] # None
    <2> DEFINE step == [k \in Calls |-> [x \in CourierType |-> EndRound(x, k, r, outcome)]]
    <2>1. PICK tagged : tagged = {e \in Mail(c) : e.room = r}
      OBVIOUS
    <2>2. PICK a : a = Drop(c, tagged)
      OBVIOUS
    <2>3. PICK b : b = ForgetRoom(a, r)
      OBVIOUS
    <2>4. PICK mail : /\ mail = InBoxOrder(c, tagged) /\ mail \in Seq(Envelope)
                      /\ Range(mail) \subseteq tagged
      BY <1>1, InBoxOrderIsMail
    <2>5. PICK left : left = RetireMail(b, mail, outcome)
      OBVIOUS
    <2>6. d = After(step, left, CallOrder)
      BY <1>3, <2>1, <2>2, <2>3, <2>4, <2>5 DEF RemoveRoom, ForgetRoom
    <2>7. PICK K : K = {k \in OpenCalls(c) : c.calls[k].room = r}
      OBVIOUS
    <2>8. Sound(a) /\ Lighter(c, a) /\ Mail(a) = Mail(c) \ tagged /\ SameRest(c, a)
      BY <1>1, <2>2, DropEffect DEF SameRest
    <2>9. ASSUME NEW e \in tagged
          PROVE  e \in Mail(c) /\ e.room = r /\ (MatchesCall(c, e) => e.call \in K)
      <3>1. e \in Mail(c) /\ e.room = r
        BY <2>1
      <3>2. ASSUME MatchesCall(c, e)
            PROVE  e.call \in K
        <4>1. e.call \in OpenCalls(c) /\ \E stage : Carries(c, e, stage)
          BY <1>1, <3>1, <3>2, MatchedMail
        <4> QED BY <2>7, <3>1, <4>1 DEF Carries
      <3> QED BY <3>1, <3>2
    <2>10. Coherent(a, K)
      BY <1>1, <2>8, <2>9, MailLeavesQuietly
    <2>11. \A e \in Mail(a) : e.room # r
      BY <2>1, <2>8
    <2>12. \A k \in OpenCalls(a) \ K : a.calls[k].room # r
      BY <2>7, <2>8 DEF SameRest, OpenCalls
    <2>13. /\ Coherent(b, K) /\ Debt(b, K) = Debt(a, K) /\ SameMail(a, b)
           /\ b.calls = a.calls
           /\ b.rooms[r] = None /\ \A x \in Rooms \ {r} : b.rooms[x] = a.rooms[x]
      BY <2>3, <2>10, <2>11, <2>12, ForgetRoomKeeps
    <2>14. ASSUME NEW e \in Range(mail)
           PROVE  e.id \notin Waits(b) \cup Asks(b, K)
      <3>1. e \in Mail(c) /\ e \notin Mail(a) /\ (MatchesCall(c, e) => e.call \in K)
        BY <2>4, <2>8, <2>9
      <3>2. e.id \notin Waits(b)
        <4>1. \A f \in Mail(b) : f \in Mail(c) /\ f # e
          BY <2>8, <2>13, <3>1 DEF SameMail
        <4>2. \A f \in Mail(c) : f.id = e.id => f = e
          BY <1>1, <3>1 DEF Coherent, UniqueMail
        <4> QED BY <4>1, <4>2 DEF Waits
      <3>3. ASSUME NEW k \in OpenCalls(b) \ K
            PROVE  b.calls[k].ask # e.id
        <4>1. k \in OpenCalls(c) /\ b.calls[k] = c.calls[k]
          BY <2>8, <2>13 DEF SameRest, OpenCalls
        <4>2. c.calls[k].ask = e.id => e.call = k /\ MatchesCall(c, e)
          BY <1>1, <3>1, <4>1, AskCarries
        <4> QED BY <3>1, <4>1, <4>2
      <3> QED BY <3>2, <3>3 DEF Asks
    <2>15. /\ Coherent(left, K) /\ Debt(left, K) = Debt(b, K) \ {e.id : e \in Range(mail)}
           /\ SameMail(b, left) /\ left.calls = b.calls /\ left.rooms = b.rooms
      BY <2>4, <2>5, <2>13, <2>14, RetireMailKeeps
    <2>16. /\ a \in CourierType /\ b \in CourierType /\ left \in CourierType
      BY <2>10, <2>13, <2>15 DEF Coherent, Sound
    <2>17. left.calls = c.calls /\ Mail(left) = Mail(a) /\ OpenCalls(left) = OpenCalls(c)
      BY <2>8, <2>13, <2>15 DEF SameRest, SameMail, OpenCalls
    <2>18. Ending(left, K, left)
      <3>1. ASSUME NEW m \in Debt(left, K), m \notin DyingAsks(left, K)
            PROVE  FALSE
        <4>1. m \in Debt(a, K) /\ m \notin {e.id : e \in Range(mail)}
          BY <2>13, <2>15
        <4>2. m \notin DyingAsks(a, K)
          BY <2>8, <2>17, <3>1 DEF DyingAsks, OpenCalls, SameRest
        <4>3. PICK e \in Mail(c) \ Mail(a) : e.id = m
          BY <2>8, <4>1, <4>2, DebtOfLeaving
        <4>4. e \in tagged
          BY <2>8
        <4>5. e \in Range(mail)
          BY <1>1, <2>4, <4>3, <4>4, InBoxOrderIsAll
        <4> QED BY <4>1, <4>3, <4>5
      <3>2. Lighter(left, left)
        BY <2>15, LighterSame DEF Coherent, Sound
      <3> QED BY <2>15, <3>1, <3>2 DEF Ending
    <2>19. ASSUME NEW k \in Calls, NEW x \in CourierType, Ending(left, K, x)
           PROVE  Ending(left, K, step[k][x]) /\ EndsCall(K, k, x, step[k][x])
      <3>1. PICK y : y = EndRound(x, k, r, outcome)
        OBVIOUS
      <3>2. step[k][x] = y
        BY <3>1
      <3>3. x.calls[k] = c.calls[k] \/ (k \in K /\ x.calls[k] = None)
        BY <2>17, <2>19 DEF Ending
      <3>4. CASE x.calls[k] = None \/ x.calls[k].room # r
        <4>1. y = x
          BY <3>1, <3>4 DEF EndRound
        <4>2. k \in K => x.calls[k] = None
          BY <2>7, <3>3, <3>4
        <4> QED BY <2>19, <3>2, <4>1, <4>2 DEF EndsCall
      <3>5. CASE ~(x.calls[k] = None \/ x.calls[k].room # r)
        <4>1. k \in OpenCalls(x) /\ k \in K /\ x.calls[k].room = r
          BY <2>7, <3>3, <3>5 DEF OpenCalls
        <4>2. PICK final : /\ final \in States
                           /\ y = Retire(EndCall(x, k), x.calls[k].ask, final)
          <5>1. "Replied" \in States
            BY DEF States
          <5> QED BY <3>1, <3>5, <5>1 DEF EndRound
        <4>3. Coherent(x, K)
          BY <2>19 DEF Ending
        <4>4. \A e \in Mail(x) : e.room # r
          <5>1. Mail(x) \subseteq Mail(left)
            BY <2>19, LighterMail DEF Ending
          <5> QED BY <2>11, <2>17, <5>1
        <4>5. ASSUME NEW e \in Mail(x)
              PROVE  e.id # x.calls[k].ask
          <5>1. e.id = x.calls[k].ask => e.call = k /\ Carries(x, e, "Queued")
            BY <4>1, <4>3, AskCarries
          <5> QED BY <4>1, <4>4, <5>1 DEF Carries
        <4>6. ASSUME NEW e \in Mail(x), MatchesCall(x, e), e.call = k
              PROVE  e.room = None
          <5>1. MailHolds(x, e, K) /\ e.room # r
            BY <4>3, <4>4, CoherentMail
          <5>2. e.kind = "Ask" \/ e.kind = "Reply"
            BY <4>6 DEF MatchesCall
          <5> QED BY <4>1, <4>6, <5>1, <5>2 DEF MailHolds, Carries
        <4>7. Ending(left, K, y) /\ EndsCall(K, k, x, y)
          BY <2>16, <2>19, <4>1, <4>2, <4>5, <4>6, CallEndsWithin
        <4> QED BY <3>2, <4>7
      <3> QED BY <3>4, <3>5
    <2> HIDE DEF step
    <2>20. /\ Exact(d) /\ Lighter(left, d) /\ d.rooms = left.rooms
           /\ \A k \in Calls : d.calls[k] = IF k \in K THEN None ELSE left.calls[k]
      BY <2>6, <2>18, <2>19, DyingCallsEnd
    <2>21. d \in CourierType
      BY <2>20 DEF Exact, Coherent, Sound
    <2>22. Lighter(c, b)
      BY <1>1, <2>8, <2>13, <2>16, LighterTransitive DEF SameMail
    <2>23. Lighter(c, left)
      BY <1>1, <2>15, <2>16, <2>22, LighterTransitive DEF SameMail
    <2>24. Lighter(c, d)
      BY <1>1, <2>16, <2>20, <2>21, <2>23, LighterTransitive
    <2>25. d.rooms[r] = None /\ \A x \in Rooms \ {r} : d.rooms[x] = c.rooms[x]
      BY <2>8, <2>13, <2>15, <2>20 DEF SameRest
    <2>26. \A k \in Calls : \/ d.calls[k] = c.calls[k]
                            \/ /\ d.calls[k] = None /\ c.rooms[r] # None
                               /\ c.calls[k].room = r
      BY <1>3, <2>7, <2>17, <2>20
    <2> QED BY <2>20, <2>24, <2>25, <2>26 DEF RoomRemoved
  <1> QED BY <1>2, <1>3

\* Mail that has left: nothing that stays needs it.
Detached(c, D, e) ==
    /\ e.id \notin Waits(c) \cup Asks(c, D)
    /\ e.kind = "Reply" => e.replyTo \notin Waits(c) \cup Asks(c, D)
    /\ MatchesCall(c, e) =>
          e.call \in D /\ \A f \in Mail(c) : ~(MatchesCall(c, f) /\ f.call = e.call)

\* x is c with some of the calls ended that the detached mail G carries.
Expiring(c, D, x, G) ==
    /\ Coherent(x, D) /\ SameMail(c, x)
    /\ x.rooms = c.rooms
    /\ \A k \in Calls : x.calls[k] = c.calls[k] \/ (k \in D /\ x.calls[k] = None)
    /\ \A k \in OpenCalls(x) \cap D : \E e \in G : e.call = k /\ MatchesCall(c, e)
    /\ \A m \in Debt(x, D) : m \in DyingAsks(x, D) \/ \E e \in G : e.id = m

LEMMA MailDetaches ==
    ASSUME NEW c, Exact(c), NEW d, Sound(d), Lighter(c, d), SameRest(c, d),
           NEW G, G = Mail(c) \ Mail(d),
           NEW E, E = {e.call : e \in {f \in G : MatchesCall(c, f)}}
    PROVE  Expiring(d, E, d, G) /\ \A e \in G : Detached(d, E, e)
  <1>1. Coherent(c, {})
    BY DEF Exact
  <1>2. \A e : MatchesCall(d, e) <=> MatchesCall(c, e)
    BY DEF MatchesCall, SameRest
  <1>3. \A e \in G : MatchesCall(c, e) => e.call \in E
    OBVIOUS
  <1>4. Coherent(d, E)
    BY <1>1, <1>3, MailLeavesQuietly
  <1>5. Mail(d) \subseteq Mail(c) /\ OpenCalls(d) = OpenCalls(c)
    BY LighterMail DEF SameRest, OpenCalls
  <1>6. SameMail(d, d)
    BY LighterSame DEF Sound, SameMail
  <1>7. \A k \in OpenCalls(d) \cap E : \E e \in G : e.call = k /\ MatchesCall(d, e)
    BY <1>2
  <1>8. \A m \in Debt(d, E) : m \in DyingAsks(d, E) \/ \E e \in G : e.id = m
    BY DebtOfLeaving
  <1>9. Expiring(d, E, d, G)
    BY <1>4, <1>6, <1>7, <1>8 DEF Expiring
  <1>10. ASSUME NEW e \in G
         PROVE  Detached(d, E, e)
    <2>1. e \in Mail(c) /\ e \notin Mail(d) /\ MailHolds(c, e, {})
      BY <1>1, CoherentMail
    <2>2. e.id \notin Waits(d)
      BY <1>1, <1>5, <2>1 DEF Waits, Coherent, UniqueMail
    <2>3. e.id \notin Asks(d, E)
      <3>1. ASSUME NEW k \in OpenCalls(c) \ E
            PROVE  c.calls[k].ask # e.id
        <4>1. c.calls[k].ask = e.id => e.call = k /\ MatchesCall(c, e)
          BY <1>1, <2>1, AskCarries
        <4> QED BY <1>3, <4>1
      <3> QED BY <1>5, <3>1 DEF Asks, SameRest
    <2>4. ASSUME e.kind = "Reply"
          PROVE  e.replyTo \notin Waits(d) \cup Asks(d, E)
      <3>1. Waits(d) \subseteq Waits(c) /\ Asks(d, E) \subseteq Asks(c, {})
        BY <1>5 DEF Waits, Asks, SameRest
      <3>2. CASE ~Carries(c, e, "Replied")
        BY <2>1, <2>4, <3>1, <3>2 DEF MailHolds
      <3>3. CASE Carries(c, e, "Replied")
        <4>1. MatchesCall(c, e) /\ c.calls[e.call].stage = "Replied"
          BY <3>3 DEF Carries
        <4>2. e.call \in OpenCalls(c) /\ e.replyTo = c.calls[e.call].ask
          BY <1>1, <2>1, <2>4, <4>1, MatchedMail
        <4>3. ASSUME NEW f \in Mail(c), f.id = e.replyTo
              PROVE  FALSE
          <5>1. f.call = e.call /\ Carries(c, f, "Queued")
            BY <1>1, <4>2, <4>3, AskCarries
          <5> QED BY <4>1, <5>1 DEF Carries
        <4>4. e.replyTo \notin Waits(d)
          BY <1>5, <4>3 DEF Waits
        <4>5. \A k \in OpenCalls(c) : c.calls[k].ask = e.replyTo => k = e.call
          BY <1>1, <4>2 DEF Coherent, CallsDiffer
        <4>6. e.call \in E
          BY <1>3, <4>1
        <4>7. e.replyTo \notin Asks(d, E)
          BY <1>5, <4>5, <4>6 DEF Asks, SameRest
        <4> QED BY <4>4, <4>7
      <3> QED BY <3>2, <3>3
    <2>5. ASSUME MatchesCall(c, e), NEW f \in Mail(d), MatchesCall(c, f), f.call = e.call
          PROVE  FALSE
      <3>1. f \in Mail(c) /\ f # e
        BY <1>5, <2>1
      <3>2. /\ e.kind = "Ask" => e.id = c.calls[e.call].ask /\ Carries(c, e, "Queued")
            /\ e.kind # "Ask" => /\ e.kind = "Reply" /\ e.replyTo = c.calls[e.call].ask
                                 /\ Carries(c, e, "Replied")
        BY <1>1, <2>1, <2>5, MatchedMail
      <3>3. /\ f.kind = "Ask" => f.id = c.calls[f.call].ask /\ Carries(c, f, "Queued")
            /\ f.kind # "Ask" => /\ f.kind = "Reply" /\ f.replyTo = c.calls[f.call].ask
                                 /\ Carries(c, f, "Replied")
        BY <1>1, <2>5, <3>1, MatchedMail
      <3>4. e.kind = "Ask" <=> f.kind = "Ask"
        BY <2>5, <3>2, <3>3 DEF Carries
      <3>5. UniqueMail(c)
        BY <1>1 DEF Coherent
      <3> QED BY <2>1, <2>5, <3>1, <3>2, <3>3, <3>4, <3>5 DEF UniqueMail
    <2>6. MatchesCall(d, e) =>
             e.call \in E /\ \A f \in Mail(d) : ~(MatchesCall(d, f) /\ f.call = e.call)
      BY <1>2, <1>3, <2>5
    <2> QED BY <2>2, <2>3, <2>4, <2>6 DEF Detached
  <1> QED BY <1>9, <1>10

\* Mail that left is settled, with the call it carried and the ask it answered.
LEMMA ExpireOneKeeps ==
    ASSUME NEW c, NEW D, NEW x, NEW G, Expiring(c, D, x, G), c \in CourierType,
           NEW e \in Envelope, e.replyTo = None <=> e.kind \in {"Tell", "Ask"},
           Detached(c, D, e), NEW H, G \subseteq H \cup {e},
           NEW y, y = ExpireOne(x, e)
    PROVE  Expiring(c, D, y, H)
  <1>1. e.id \in Messages /\ e.call \in Calls /\ (e.kind = "Reply" => e.replyTo \in Messages)
    BY DEF Envelope, Maybe
  <1>2. "Expired" \in States /\ "Replied" \in States
    BY DEF States
  <1>3. Coherent(x, D) /\ SameMail(c, x) /\ x \in CourierType
    BY DEF Expiring, Coherent, Sound
  <1>4. \A k \in Calls : x.calls[k] = c.calls[k] \/ (k \in D /\ x.calls[k] = None)
    BY DEF Expiring
  <1>5. Waits(x) = Waits(c) /\ Asks(x, D) = Asks(c, D)
    BY <1>3, <1>4 DEF Waits, Asks, OpenCalls, SameMail
  <1>6. PICK dead : dead = Retire(x, e.id, "Expired")
    OBVIOUS
  <1>7. /\ Coherent(dead, D) /\ Debt(dead, D) = Debt(x, D) \ {e.id}
        /\ SameMail(x, dead) /\ dead.calls = x.calls /\ dead.rooms = x.rooms
    BY <1>1, <1>2, <1>3, <1>5, <1>6, RetireKeeps DEF Detached
  <1>8. PICK ended : ended = IF MatchesCall(dead, e) THEN EndCall(dead, e.call) ELSE dead
    OBVIOUS
  <1>9. /\ Coherent(ended, D) /\ Debt(ended, D) = Debt(dead, D)
        /\ SameMail(dead, ended) /\ ended.rooms = dead.rooms
        /\ \A l \in Calls : \/ ended.calls[l] = dead.calls[l]
                            \/ (l \in D /\ ended.calls[l] = None /\ l = e.call
                                /\ MatchesCall(dead, e))
        /\ MatchesCall(dead, e) => ended.calls[e.call] = None
        /\ Waits(ended) = Waits(c) /\ Asks(ended, D) = Asks(c, D)
    <2>1. Mail(dead) = Mail(c) /\ Waits(dead) = Waits(c) /\ Asks(dead, D) = Asks(c, D)
      BY <1>3, <1>5, <1>7 DEF Waits, Asks, OpenCalls, SameMail
    <2>2. CASE ~MatchesCall(dead, e)
      <3>1. ended = dead
        BY <1>8, <2>2
      <3>2. SameMail(dead, dead)
        BY <1>7, LighterSame DEF Coherent, Sound, SameMail
      <3> QED BY <1>7, <2>1, <2>2, <3>1, <3>2
    <2>3. CASE MatchesCall(dead, e)
      <3>1. dead.calls[e.call] # None /\ dead.calls[e.call] = c.calls[e.call]
        BY <1>1, <1>4, <1>7, <2>3 DEF MatchesCall
      <3>2. MatchesCall(c, e)
        BY <2>3, <3>1 DEF MatchesCall
      <3>3. e.call \in D /\ \A f \in Mail(c) : ~(MatchesCall(c, f) /\ f.call = e.call)
        BY <3>2 DEF Detached
      <3>4. \A f \in Mail(dead) : ~(MatchesCall(dead, f) /\ f.call = e.call)
        BY <2>1, <3>1, <3>3 DEF MatchesCall
      <3>5. e.call \in OpenCalls(dead)
        BY <1>1, <3>1 DEF OpenCalls
      <3>6. \A f \in Mail(dead) : f.id # dead.calls[e.call].ask
        BY <1>7, <3>4, <3>5, AskCarries
      <3>7. ended = EndCall(dead, e.call)
        BY <1>8, <2>3
      <3>8. /\ Coherent(ended, D) /\ Debt(ended, D) = Debt(dead, D)
            /\ SameMail(dead, ended) /\ ended.rooms = dead.rooms
            /\ ended.calls[e.call] = None
            /\ \A l \in Calls \ {e.call} : ended.calls[l] = dead.calls[l]
            /\ Waits(ended) = Waits(dead) /\ Asks(ended, D) = Asks(dead, D)
        BY <1>1, <1>7, <3>3, <3>4, <3>6, <3>7, EndCallKeeps
      <3> QED BY <2>1, <2>3, <3>3, <3>8
    <2> QED BY <2>2, <2>3
  <1>10. /\ Coherent(y, D) /\ SameMail(ended, y)
         /\ y.calls = ended.calls /\ y.rooms = ended.rooms
         /\ Debt(y, D) \subseteq Debt(ended, D)
         /\ e.kind = "Reply" => e.replyTo \notin Debt(y, D)
    <2>1. CASE e.kind = "Reply"
      <3>1. y = Retire(ended, e.replyTo, "Replied")
        BY <1>6, <1>8, <2>1 DEF ExpireOne
      <3>2. e.replyTo \notin Waits(ended) \cup Asks(ended, D)
        BY <1>9, <2>1 DEF Detached
      <3> QED BY <1>1, <1>2, <1>9, <2>1, <3>1, <3>2, RetireKeeps
    <2>2. CASE e.kind # "Reply"
      <3>1. y = ended
        BY <1>6, <1>8, <2>2 DEF ExpireOne
      <3>2. SameMail(ended, ended)
        BY <1>9, LighterSame DEF Coherent, Sound, SameMail
      <3> QED BY <1>9, <2>2, <3>1, <3>2
    <2> QED BY <2>1, <2>2
  <1>11. dead \in CourierType /\ ended \in CourierType /\ y \in CourierType
    BY <1>7, <1>9, <1>10 DEF Coherent, Sound
  <1>12. SameMail(c, dead)
    BY <1>3, <1>7, <1>11, SameMailTransitive
  <1>13. SameMail(c, ended)
    BY <1>9, <1>11, <1>12, SameMailTransitive
  <1>14. SameMail(c, y)
    BY <1>10, <1>11, <1>13, SameMailTransitive
  <1>15. \A l \in Calls : \/ y.calls[l] = x.calls[l]
                          \/ (l \in D /\ y.calls[l] = None /\ l = e.call
                              /\ MatchesCall(dead, e))
    BY <1>7, <1>9, <1>10
  <1>16. \A k \in Calls : y.calls[k] = c.calls[k] \/ (k \in D /\ y.calls[k] = None)
    BY <1>4, <1>15
  <1>17. ASSUME NEW k \in OpenCalls(y) \cap D
         PROVE  \E g \in H : g.call = k /\ MatchesCall(c, g)
    <2>1. k \in Calls /\ y.calls[k] # None
      BY DEF OpenCalls
    <2>2. y.calls[k] = x.calls[k] /\ x.calls[k] = c.calls[k] /\ k \in OpenCalls(x)
      BY <1>4, <1>15, <2>1 DEF OpenCalls
    <2>3. PICK g \in G : g.call = k /\ MatchesCall(c, g)
      BY <2>2 DEF Expiring
    <2>4. ASSUME g = e
          PROVE  FALSE
      <3>1. MatchesCall(dead, e)
        BY <1>7, <2>2, <2>3, <2>4 DEF MatchesCall
      <3> QED BY <1>9, <1>10, <2>1, <2>3, <2>4, <3>1
    <2> QED BY <2>3, <2>4
  <1>18. ASSUME NEW m \in Debt(y, D)
         PROVE  m \in DyingAsks(y, D) \/ \E g \in H : g.id = m
    <2>1. m \in Debt(x, D) /\ m # e.id /\ (e.kind = "Reply" => m # e.replyTo)
      BY <1>7, <1>9, <1>10
    <2>2. CASE m \in DyingAsks(x, D)
      <3>1. PICK k \in OpenCalls(x) \cap D : m = x.calls[k].ask
        BY <2>2 DEF DyingAsks
      <3>2. k \in Calls
        BY DEF OpenCalls
      <3>3. CASE y.calls[k] = x.calls[k]
        BY <3>1, <3>3 DEF DyingAsks, OpenCalls
      <3>4. CASE k = e.call /\ MatchesCall(dead, e)
        BY <1>7, <2>1, <3>1, <3>4 DEF MatchesCall
      <3> QED BY <1>15, <3>2, <3>3, <3>4
    <2>3. CASE \E g \in G : g.id = m
      BY <2>1, <2>3
    <2> QED BY <2>1, <2>2, <2>3 DEF Expiring
  <1>19. y.rooms = c.rooms
    BY <1>7, <1>9, <1>10 DEF Expiring
  <1> QED BY <1>10, <1>14, <1>16, <1>17, <1>18, <1>19 DEF Expiring

LEMMA ExpiringSettles ==
    ASSUME NEW c, NEW D, NEW x, Expiring(c, D, x, {})
    PROVE  Exact(x)
  <1>1. OpenCalls(x) \cap D = {}
    BY DEF Expiring
  <1>2. Debt(x, D) = {}
    BY <1>1 DEF Expiring, DyingAsks
  <1> QED BY <1>1, <1>2, Settles DEF Expiring

LEMMA ExactIsSound ==
    ASSUME NEW c, Exact(c)
    PROVE  Coherent(c, {}) /\ Sound(c) /\ c \in CourierType /\ Lighter(c, c)
  BY LighterSame DEF Exact, Coherent, Sound

IsLate(e, s, now) == e.target = s /\ e.deadline <= now

RepliesTo(c, m) == {e \in Mail(c) : e.kind = "Reply" /\ e.replyTo = m}

\* Nothing but mail, calls and rooms leave, and no call before its time but one
\* whose reply has left.
Spared(c, d, time) ==
    \A k \in Calls :
       \/ d.calls[k] = c.calls[k]
       \/ /\ d.calls[k] = None
          /\ \/ c.calls[k].deadline <= time
             \/ c.calls[k].stage = "Replied" /\ RepliesTo(d, c.calls[k].ask) = {}

Fewer(c, d, time) ==
    /\ Lighter(c, d) /\ \A r \in Rooms : d.rooms[r] \in {None, c.rooms[r]}
    /\ Spared(c, d, time)

LEMMA FewerTransitive ==
    ASSUME NEW a \in CourierType, NEW b \in CourierType, NEW c \in CourierType,
           NEW time, Fewer(a, b, time), Fewer(b, c, time)
    PROVE  Fewer(a, c, time)
  <1>1. Lighter(a, c)
    BY LighterTransitive DEF Fewer
  <1>2. \A m : RepliesTo(c, m) \subseteq RepliesTo(b, m)
    BY LighterMail DEF Fewer, RepliesTo
  <1>3. Spared(a, b, time) /\ Spared(b, c, time)
    BY DEF Fewer
  <1>4. Spared(a, c, time)
    BY ONLY <1>2, <1>3 DEF Spared
  <1> QED BY <1>1, <1>4 DEF Fewer

LEMMA ExactIsFewer ==
    ASSUME NEW c, Exact(c), NEW time
    PROVE  Coherent(c, {}) /\ Sound(c) /\ c \in CourierType /\ Fewer(c, c, time)
  BY ExactIsSound DEF Fewer, Spared

LEMMA ExpireWaitingKeeps ==
    ASSUME NEW c, Exact(c), NEW s \in Sessions, NEW now, NEW d, d = ExpireWaiting(c, s, now)
    PROVE  Exact(d) /\ Fewer(c, d, now) /\ \A e \in Mail(d) : ~IsLate(e, s, now)
  <1> DEFINE step == [e \in Envelope |-> [x \in CourierType |-> ExpireOne(x, e)]]
  <1>1. Coherent(c, {}) /\ Sound(c) /\ c \in CourierType
    BY ExactIsSound
  <1>2. PICK late : late = {e \in Mail(c) : e.target = s /\ e.deadline <= now}
    OBVIOUS
  <1>3. PICK a : a = Drop(c, late)
    OBVIOUS
  <1>4. PICK q : /\ q = InBoxOrder(c, late) /\ q \in Seq(Envelope)
                 /\ Range(q) \subseteq late
    BY <1>1, InBoxOrderIsMail
  <1>5. d = After(step, a, q)
    BY <1>2, <1>3, <1>4 DEF ExpireWaiting
  <1>6. Sound(a) /\ Lighter(c, a) /\ Mail(a) = Mail(c) \ late /\ SameRest(c, a)
    BY <1>1, <1>3, DropEffect DEF SameRest
  <1>7. PICK E : E = {e.call : e \in {f \in late : MatchesCall(c, f)}}
    OBVIOUS
  <1>8. late = Mail(c) \ Mail(a)
    BY <1>2, <1>6
  <1>9. Expiring(a, E, a, late) /\ \A e \in late : Detached(a, E, e)
    BY <1>6, <1>7, <1>8, MailDetaches
  <1>10. PICK n : n = Len(q) /\ n \in Nat /\ DOMAIN q = 1 .. n
    BY <1>4, LenProperties
  <1> DEFINE Left(i) == {q[j] : j \in i + 1 .. n}
             P == [i \in Nat |-> {x \in CourierType : Expiring(a, E, x, Left(i))}]
  <1>11. a \in CourierType
    BY <1>6 DEF Sound
  <1>12. a \in P[0]
    <2>1. Left(0) = Range(q)
      BY <1>10 DEF Range
    <2>2. late = Range(q)
      BY <1>1, <1>2, <1>4, InBoxOrderIsAll
    <2> QED BY <1>9, <1>11, <2>1, <2>2
  <1>13. ASSUME NEW i \in 1 .. n, NEW x \in P[i - 1]
         PROVE  step[q[i]][x] \in P[i]
    <2>1. i \in Nat /\ i - 1 \in Nat
      BY <1>10
    <2>2. PICK e : e = q[i] /\ e \in Envelope /\ e \in late
      BY <1>4, <1>10, ElementOfSeq DEF Range
    <2>3. Expiring(a, E, x, Left(i - 1)) /\ x \in CourierType
      BY <2>1
    <2>4. PICK y : y = ExpireOne(x, e)
      OBVIOUS
    <2>5. step[q[i]][x] = y
      BY <2>2, <2>3, <2>4
    <2>6. Left(i - 1) \subseteq Left(i) \cup {e}
      <3>1. \A j \in (i - 1) + 1 .. n : j \in i + 1 .. n \/ j = i
        BY <2>1, <1>10
      <3> QED BY <2>2, <3>1
    <2>7. e \in Mail(c)
      BY <1>2, <2>2
    <2>8. e.replyTo = None <=> e.kind \in {"Tell", "Ask"}
      BY <1>1, <2>7, CoherentMail
    <2>9. Expiring(a, E, y, Left(i))
      <3> HIDE DEF Left
      <3> QED BY <1>9, <1>11, <2>2, <2>3, <2>4, <2>6, <2>8, ExpireOneKeeps
    <2>10. y \in CourierType
      BY <2>9 DEF Expiring, Coherent, Sound
    <2>11. y \in P[i]
      BY <2>1, <2>9, <2>10
    <2> HIDE DEF step, P
    <2> QED BY <2>5, <2>11
  <1>14. d \in P[n]
    <2> HIDE DEF step, P
    <2> QED BY <1>5, <1>10, <1>12, <1>13, LoopReaches
  <1>15. Left(n) = {}
    BY <1>10
  <1>16. Expiring(a, E, d, {})
    BY <1>10, <1>14, <1>15
  <1>17. Exact(d)
    BY <1>16, ExpiringSettles
  <1>18. Lighter(a, d) /\ Mail(d) = Mail(a) /\ d \in CourierType
    BY <1>16, <1>17, ExactIsSound DEF Expiring, SameMail
  <1>19. Lighter(c, d)
    BY <1>1, <1>6, <1>11, <1>18, LighterTransitive
  <1>20. ASSUME NEW k \in E
         PROVE  \/ c.calls[k].deadline <= now
                \/ c.calls[k].stage = "Replied" /\ RepliesTo(d, c.calls[k].ask) = {}
    <2>1. PICK e \in late : e.call = k /\ MatchesCall(c, e)
      BY <1>7
    <2>2. e \in Mail(c) /\ e.deadline <= now
      BY <1>2
    <2>3. \/ e.kind = "Ask" /\ Carries(c, e, "Queued")
          \/ e.kind = "Reply" /\ Carries(c, e, "Replied")
      BY <1>1, <2>1, <2>2, MatchedMail
    <2>4. CASE e.kind = "Ask"
      BY <2>1, <2>2, <2>3, <2>4 DEF Carries
    <2>5. CASE e.kind = "Reply"
      <3>1. e.replyTo = c.calls[k].ask /\ c.calls[k].stage = "Replied"
        BY <2>1, <2>3, <2>5 DEF MatchesCall, Carries
      <3>2. \A f \in Mail(c) : f.kind = "Reply" /\ f.replyTo = e.replyTo => f = e
        BY <1>1, <2>2, <2>5 DEF Coherent, UniqueMail
      <3>3. Mail(d) \subseteq Mail(c) /\ e \notin Mail(d)
        BY <1>6, <1>18
      <3>4. RepliesTo(d, e.replyTo) = {}
        BY ONLY <3>2, <3>3 DEF RepliesTo
      <3> QED BY <3>1, <3>4
    <2> QED BY <2>3, <2>4, <2>5
  <1>21. Spared(c, d, now)
    BY <1>6, <1>16, <1>20 DEF SameRest, Expiring, Spared
  <1>22. Fewer(c, d, now)
    BY <1>6, <1>16, <1>19, <1>21 DEF Fewer, SameRest, Expiring
  <1> QED BY <1>2, <1>6, <1>17, <1>18, <1>22 DEF IsLate

\* The one call that is dying ends, and nothing is owed any more.
CallSettled(c, k, d) ==
    /\ Exact(d) /\ SameMail(c, d) /\ d.rooms = c.rooms
    /\ d.calls[k] = None /\ \A l \in Calls \ {k} : d.calls[l] = c.calls[l]
    /\ \A x \in Messages :
          d.states[x] # None => c.states[x] # None \/ x = c.calls[k].ask

LEMMA LastCallEnds ==
    ASSUME NEW c, NEW D, Coherent(c, D), NEW k \in OpenCalls(c), D = {k},
           Debt(c, D) \subseteq {c.calls[k].ask},
           \A e \in Mail(c) : e.id # c.calls[k].ask,
           \A e \in Mail(c) : MatchesCall(c, e) /\ e.call = k => e.room = None,
           NEW outcome \in States,
           NEW d, d = Retire(EndCall(c, k), c.calls[k].ask, outcome)
    PROVE  CallSettled(c, k, d)
  <1>1. /\ k \in D /\ Coherent(c, D) /\ k \in OpenCalls(c) /\ outcome \in States
        /\ \A e \in Mail(c) : e.id # c.calls[k].ask
        /\ \A e \in Mail(c) : MatchesCall(c, e) /\ e.call = k => e.room = None
        /\ d = Retire(EndCall(c, k), c.calls[k].ask, outcome)
    OBVIOUS
  <1>2. /\ Coherent(d, D) /\ Debt(d, D) = Debt(c, D) \ {c.calls[k].ask}
        /\ SameMail(c, d) /\ d.rooms = c.rooms
        /\ d.calls[k] = None /\ \A l \in Calls \ {k} : d.calls[l] = c.calls[l]
        /\ \A x \in Messages :
              d.states[x] # None => c.states[x] # None \/ x = c.calls[k].ask
    BY ONLY <1>1, CallEnds
  <1>3. OpenCalls(d) \cap D = {} /\ Debt(d, D) = {}
    BY <1>2 DEF OpenCalls
  <1>4. Exact(d)
    BY <1>2, <1>3, Settles
  <1> QED BY <1>2, <1>4 DEF CallSettled

LEMMA ExpireCallKeeps ==
    ASSUME NEW c, Exact(c), NEW k \in Calls, NEW now \in Nat,
           \A e \in Mail(c) : ~(e.deadline <= now), NEW d, d = ExpireCall(c, k, now)
    PROVE  Exact(d) /\ Fewer(c, d, now)
  <1>1. Coherent(c, {}) /\ c \in CourierType /\ Lighter(c, c)
    BY ExactIsSound
  <1>2. CASE c.calls[k] = None \/ ~(c.calls[k].deadline <= now)
    BY <1>1, <1>2 DEF ExpireCall, Fewer, Spared
  <1>3. CASE ~(c.calls[k] = None \/ ~(c.calls[k].deadline <= now))
    <2>1. k \in OpenCalls(c) /\ c.calls[k].deadline \in Nat /\ c.calls[k].deadline <= now
      BY <1>1, <1>3, CallFields DEF OpenCalls
    <2>2. PICK outcome \in States : d = Retire(EndCall(c, k), c.calls[k].ask, outcome)
      BY <1>3 DEF ExpireCall, States
    <2>3. PICK D : D = {k} /\ Coherent(c, D)
      <3>1. \A D : Coherent(c, D)
        BY <1>1, CoherentWider
      <3> QED BY <3>1
    <2>4. ASSUME NEW e \in Mail(c), e.call = k, NEW stage, Carries(c, e, stage)
          PROVE  FALSE
      <3>1. e.deadline \in Nat /\ e.deadline <= c.calls[k].deadline
        BY <1>1, <2>4, CoherentMail DEF Carries
      <3>2. e.deadline <= now
        BY <2>1, <3>1, AtMostTransitive
      <3> QED BY <3>2
    <2>5. \A e \in Mail(c) : e.id # c.calls[k].ask
      BY <1>1, <2>1, <2>4, AskCarries
    <2>6. \A e \in Mail(c) : MatchesCall(c, e) /\ e.call = k => e.room = None
      BY <1>1, <2>4, MatchedMail
    <2>7. Debt(c, D) \subseteq {c.calls[k].ask}
      <3>1. \A m \in Asks(c, {}) : m \in Asks(c, D) \/ m = c.calls[k].ask
        BY <2>3 DEF Asks
      <3> QED BY <3>1 DEF Debt, Exact
    <2>8. CallSettled(c, k, d)
      BY <2>1, <2>2, <2>3, <2>5, <2>6, <2>7, LastCallEnds
    <2>9. Spared(c, d, now)
      BY <2>1, <2>8 DEF CallSettled, Spared
    <2> QED BY <2>8, <2>9 DEF CallSettled, SameMail, Fewer
  <1> QED BY <1>2, <1>3

LEMMA ExpireRoomsKeeps ==
    ASSUME NEW c, Exact(c), NEW now \in Nat, NEW d, d = ExpireRooms(c, now)
    PROVE  Exact(d) /\ Fewer(c, d, now)
  <1> DEFINE step == [r \in Rooms |-> [x \in CourierType |-> ExpireRoom(x, r, now)]]
             P == {x \in CourierType : Exact(x) /\ Fewer(c, x, now)}
  <1>1. PICK q : q = RoomOrder /\ q \in Seq(Rooms)
    BY OrderProperties
  <1>2. Len(q) \in Nat /\ \A i \in 1 .. Len(q) : q[i] \in Rooms
    BY <1>1, LenProperties, ElementOfSeq
  <1>3. c \in P /\ c \in CourierType
    BY ExactIsFewer
  <1>4. d = After(step, c, q)
    BY <1>1 DEF ExpireRooms
  <1>5. ASSUME NEW i \in 1 .. Len(q), NEW x \in P
        PROVE  step[q[i]][x] \in P
    <2>1. PICK r : r = q[i] /\ r \in Rooms
      BY <1>2
    <2>2. PICK y : y = ExpireRoom(x, r, now)
      OBVIOUS
    <2>3. step[q[i]][x] = y
      BY <2>1, <2>2
    <2>4. Exact(y) /\ Fewer(x, y, now)
      <3>1. CASE y = x
        BY <3>1, ExactIsFewer
      <3>2. CASE y # x
        <4>1. /\ y = RemoveRoom(x, r, "Expired")
              /\ x.rooms[r] # None /\ x.rooms[r].deadline <= now
          BY <2>2, <3>2 DEF ExpireRoom
        <4>2. "Expired" \in States
          BY DEF States
        <4>3. RoomRemoved(x, y, r)
          BY <2>1, <4>1, <4>2, RemoveRoomKeeps
        <4>4. ASSUME NEW k \in OpenCalls(x), x.calls[k].room = r
              PROVE  x.calls[k].deadline <= now
          <5>1. Coherent(x, {}) /\ x \in CourierType
            BY ExactIsSound
          <5>2. RoundHolds(x, k)
            <6>1. CallHolds(x, k)
              BY ONLY <4>4, <5>1 DEF Coherent
            <6> QED BY <6>1 DEF CallHolds
          <5>3. r # None
            BY <2>1, CourierAssumption
          <5>4. x.calls[k].deadline <= x.rooms[r].deadline
            BY <4>4, <5>2, <5>3 DEF RoundHolds
          <5>5. x.calls[k].deadline \in Nat /\ x.rooms[r].deadline \in Nat
            BY <2>1, <4>1, <4>4, <5>1, CallFields, RoomFields DEF OpenCalls, OpenRooms
          <5> QED BY <4>1, <5>4, <5>5, AtMostTransitive
        <4>5. Spared(x, y, now)
          BY <4>3, <4>4 DEF RoomRemoved, Spared, OpenCalls
        <4> QED BY <4>3, <4>5 DEF RoomRemoved, Fewer
      <3> QED BY <3>1, <3>2
    <2>5. y \in CourierType
      BY <2>4, ExactIsFewer
    <2>6. Fewer(c, y, now)
      BY <1>3, <2>4, <2>5, FewerTransitive
    <2> QED BY <2>3, <2>4, <2>5, <2>6
  <1> HIDE DEF step, P
  <1>6. d \in P
    BY <1>2, <1>3, <1>4, <1>5, LoopKeeps
  <1> QED BY <1>6 DEF P

\* A sweep leaves an exact courier without late mail, whatever it found late.
LEMMA SweepKeeps ==
    ASSUME NEW c, Exact(c), NEW now \in Nat, NEW d, d = Sweep(c, now)
    PROVE  /\ Exact(d) /\ Fewer(c, d, now)
           /\ \A e \in Mail(d) : ~(e.deadline <= now)
  <1> DEFINE expire == [s \in Sessions |-> [x \in CourierType |-> ExpireWaiting(x, s, now)]]
             end == [k \in Calls |-> [x \in CourierType |-> ExpireCall(x, k, now)]]
  <1>1. c \in CourierType /\ Fewer(c, c, now)
    BY ExactIsFewer
  <1>2. CASE \A t \in Deadlines(c) : t > now
    <2>1. d = c
      BY <1>2 DEF Sweep
    <2>2. ASSUME NEW e \in Mail(c)
          PROVE  ~(e.deadline <= now)
      <3>1. e.deadline \in Deadlines(c)
        BY DEF Deadlines
      <3>2. e.deadline \in Nat
        BY <1>1, MailIsEnvelopes DEF Envelope
      <3> QED BY <1>2, <3>1, <3>2
    <2> QED BY <1>1, <2>1, <2>2
  <1>3. CASE ~\A t \in Deadlines(c) : t > now
    <2>1. PICK a : a = ExpireRooms(c, now)
      OBVIOUS
    <2>2. Exact(a) /\ Fewer(c, a, now) /\ a \in CourierType /\ Fewer(a, a, now)
      BY <2>1, ExpireRoomsKeeps, ExactIsFewer
    <2>3. PICK q : q = SessionOrder /\ q \in Seq(Sessions)
      BY OrderProperties
    <2>4. PICK n : n = Len(q) /\ n \in Nat /\ \A i \in 1 .. n : q[i] \in Sessions
      BY <2>3, LenProperties, ElementOfSeq
    <2>5. PICK b : b = After(expire, a, q)
      OBVIOUS
    <2> DEFINE Done(i, x) == \A j \in 1 .. i : \A e \in Mail(x) : ~IsLate(e, q[j], now)
               P == [i \in Nat |-> {x \in CourierType : Exact(x) /\ Fewer(a, x, now) /\ Done(i, x)}]
    <2>6. a \in P[0]
      BY <2>2
    <2>7. ASSUME NEW i \in 1 .. n, NEW x \in P[i - 1]
          PROVE  expire[q[i]][x] \in P[i]
      <3>1. i \in Nat /\ i - 1 \in Nat /\ \A j \in 1 .. i : j \in 1 .. i - 1 \/ j = i
        BY <2>4
      <3>2. PICK s : s = q[i] /\ s \in Sessions
        BY <2>4
      <3>3. x \in CourierType /\ Exact(x) /\ Fewer(a, x, now) /\ Done(i - 1, x)
        BY <3>1
      <3>4. PICK y : y = ExpireWaiting(x, s, now)
        OBVIOUS
      <3>5. expire[q[i]][x] = y
        BY <3>2, <3>3, <3>4
      <3>6. Exact(y) /\ Fewer(x, y, now) /\ \A e \in Mail(y) : ~IsLate(e, s, now)
        BY <3>2, <3>3, <3>4, ExpireWaitingKeeps
      <3>7. y \in CourierType /\ Mail(y) \subseteq Mail(x)
        BY <3>6, ExactIsFewer, LighterMail DEF Fewer
      <3>8. Fewer(a, y, now)
        BY <2>2, <3>3, <3>6, <3>7, FewerTransitive
      <3>9. Done(i, y)
        BY <3>1, <3>2, <3>3, <3>6, <3>7
      <3>10. y \in P[i]
        <4> HIDE DEF Done
        <4> QED BY <3>1, <3>6, <3>7, <3>8, <3>9
      <3> HIDE DEF expire, P
      <3> QED BY <3>5, <3>10
    <2>8. b \in P[n]
      <3> HIDE DEF expire, P
      <3> QED BY <2>4, <2>5, <2>6, <2>7, LoopReaches
    <2>9. b \in CourierType /\ Exact(b) /\ Fewer(a, b, now) /\ Done(n, b)
      BY <2>4, <2>8
    <2>10. ASSUME NEW e \in Mail(b)
           PROVE  ~(e.deadline <= now)
      <3>1. e.target \in Sessions
        BY <2>9, ExactIsFewer, CoherentMail
      <3>2. PICK j \in 1 .. n : q[j] = e.target
        BY <2>3, <2>4, <3>1, OrderProperties
      <3> QED BY <2>9, <3>2 DEF IsLate
    <2> DEFINE Q == {x \in CourierType : Exact(x) /\ Fewer(b, x, now)}
    <2>11. PICK p : p = CallOrder /\ p \in Seq(Calls)
      BY OrderProperties
    <2>12. Len(p) \in Nat /\ \A i \in 1 .. Len(p) : p[i] \in Calls
      BY <2>11, LenProperties, ElementOfSeq
    <2>13. b \in Q
      BY <2>9, ExactIsFewer
    <2>14. ASSUME NEW i \in 1 .. Len(p), NEW x \in Q
           PROVE  end[p[i]][x] \in Q
      <3>1. PICK k : k = p[i] /\ k \in Calls
        BY <2>12
      <3>2. PICK y : y = ExpireCall(x, k, now)
        OBVIOUS
      <3>3. end[p[i]][x] = y
        BY <3>1, <3>2
      <3>4. Mail(x) \subseteq Mail(b)
        BY LighterMail DEF Fewer
      <3>5. \A e \in Mail(x) : ~(e.deadline <= now)
        BY <2>10, <3>4
      <3>6. Exact(y) /\ Fewer(x, y, now)
        BY <3>1, <3>2, <3>5, ExpireCallKeeps
      <3>7. y \in CourierType
        BY <3>6, ExactIsFewer
      <3>8. Fewer(b, y, now)
        BY <2>9, <3>6, <3>7, FewerTransitive
      <3> QED BY <3>3, <3>6, <3>7, <3>8
    <2>15. d = After(end, b, p)
      BY <1>3, <2>1, <2>3, <2>5, <2>11 DEF Sweep
    <2>16. d \in Q
      <3> HIDE DEF end, Q
      <3> QED BY <2>12, <2>13, <2>14, <2>15, LoopKeeps
    <2>17. d \in CourierType /\ Exact(d) /\ Fewer(b, d, now)
      BY <2>16
    <2>18. Fewer(c, b, now)
      BY <1>1, <2>2, <2>9, FewerTransitive
    <2>19. Fewer(c, d, now)
      BY <1>1, <2>9, <2>17, <2>18, FewerTransitive
    <2>20. Mail(d) \subseteq Mail(b)
      BY <2>17, LighterMail DEF Fewer
    <2> QED BY <2>10, <2>17, <2>19, <2>20
  <1> QED BY <1>2, <1>3

\* Mail and calls leave, and nothing of them changes.
Shrinks(c, d) == /\ Mail(d) \subseteq Mail(c)
                 /\ \A k \in Calls : d.calls[k] \in {None, c.calls[k]}

LEMMA ShrinksTransitive ==
    ASSUME NEW a, NEW b, NEW c, Shrinks(a, b), Shrinks(b, c)
    PROVE  Shrinks(a, c)
  BY DEF Shrinks

LEMMA FewerShrinks == ASSUME NEW c, NEW d, NEW time, Fewer(c, d, time) PROVE Shrinks(c, d)
  <1>1. Mail(d) \subseteq Mail(c)
    BY LighterMail DEF Fewer
  <1> QED BY <1>1 DEF Fewer, Spared, Shrinks

\* The call k of c ended with its room.
EndedWithRoom(c, d, k) == \E r \in Rooms : c.calls[k].room = r /\ d.rooms[r] = None

\* No call ends but with its room.
OnlyRoomsEnd(c, d) ==
    /\ \A r \in Rooms : d.rooms[r] \in {None, c.rooms[r]}
    /\ \A k \in Calls : \/ d.calls[k] = c.calls[k]
                        \/ d.calls[k] = None /\ EndedWithRoom(c, d, k)

LEMMA OnlyRoomsTransitive ==
    ASSUME NEW a, NEW b, NEW c, OnlyRoomsEnd(a, b), OnlyRoomsEnd(b, c)
    PROVE  OnlyRoomsEnd(a, c)
  <1>1. \A r \in Rooms : c.rooms[r] \in {None, a.rooms[r]} /\ (b.rooms[r] = None => c.rooms[r] = None)
    BY DEF OnlyRoomsEnd
  <1>2. ASSUME NEW k \in Calls
        PROVE  c.calls[k] = a.calls[k] \/ (c.calls[k] = None /\ EndedWithRoom(a, c, k))
    <2>1. CASE b.calls[k] = a.calls[k]
      BY <2>1 DEF OnlyRoomsEnd, EndedWithRoom
    <2>2. CASE b.calls[k] # a.calls[k]
      <3>1. b.calls[k] = None /\ EndedWithRoom(a, b, k)
        BY <2>2 DEF OnlyRoomsEnd
      <3>2. EndedWithRoom(a, c, k)
        BY <1>1, <3>1 DEF EndedWithRoom
      <3>3. c.calls[k] = None
        BY <3>1 DEF OnlyRoomsEnd
      <3> QED BY <3>2, <3>3
    <2> QED BY <2>1, <2>2
  <1> QED BY <1>1, <1>2 DEF OnlyRoomsEnd

\* What is left when s has left the rooms it was a member of.
RoomsLeft(c, d, s) ==
    /\ Exact(d) /\ Lighter(c, d) /\ Shrinks(c, d) /\ OnlyRoomsEnd(c, d)
    /\ \A r \in OpenRooms(d) : s \notin d.rooms[r].members

LEMMA LeaveRoomKeeps ==
    ASSUME NEW c, Exact(c), NEW r \in Rooms, NEW s, NEW d, d = LeaveRoom(c, r, s)
    PROVE  /\ Exact(d) /\ Lighter(c, d) /\ Shrinks(c, d)
           /\ d.rooms[r] = None \/ s \notin d.rooms[r].members
           /\ OnlyRoomsEnd(c, d)
  <1>1. Lighter(c, c) /\ Shrinks(c, c) /\ OnlyRoomsEnd(c, c)
    BY ExactIsSound DEF Shrinks, OnlyRoomsEnd
  <1>2. CASE ~(c.rooms[r] # None /\ s \in c.rooms[r].members)
    BY <1>1, <1>2 DEF LeaveRoom
  <1>3. CASE c.rooms[r] # None /\ s \in c.rooms[r].members
    <2>1. PICK outcome \in States : d = RemoveRoom(c, r, outcome)
      BY <1>3 DEF LeaveRoom, States
    <2>2. RoomRemoved(c, d, r)
      BY <2>1, RemoveRoomKeeps
    <2>3. Shrinks(c, d)
      BY <2>2, LighterMail DEF RoomRemoved, Shrinks
    <2>4. OnlyRoomsEnd(c, d)
      BY <2>2 DEF RoomRemoved, OnlyRoomsEnd, EndedWithRoom
    <2> QED BY <2>2, <2>3, <2>4 DEF RoomRemoved
  <1> QED BY <1>2, <1>3

LEMMA LeaveRoomsKeeps ==
    ASSUME NEW c, Exact(c), NEW s,
           NEW step, step = [r \in Rooms |-> [x \in CourierType |-> LeaveRoom(x, r, s)]],
           NEW d, d = After(step, c, RoomOrder)
    PROVE  RoomsLeft(c, d, s)
  <1>1. PICK q : q = RoomOrder /\ q \in Seq(Rooms)
    BY OrderProperties
  <1>2. PICK n : n = Len(q) /\ n \in Nat /\ \A i \in 1 .. n : q[i] \in Rooms
    BY <1>1, LenProperties, ElementOfSeq
  <1> DEFINE Left(x, r) == x.rooms[r] = None \/ s \notin x.rooms[r].members
             P == [i \in Nat |-> {x \in CourierType : /\ Exact(x) /\ Lighter(c, x)
                                                      /\ Shrinks(c, x) /\ OnlyRoomsEnd(c, x)
                                                      /\ \A j \in 1 .. i : Left(x, q[j])}]
  <1>3. c \in P[0] /\ c \in CourierType
    <2>1. Shrinks(c, c) /\ OnlyRoomsEnd(c, c)
      BY DEF Shrinks, OnlyRoomsEnd
    <2> QED BY <2>1, ExactIsSound
  <1>4. ASSUME NEW i \in 1 .. n, NEW x \in P[i - 1]
        PROVE  step[q[i]][x] \in P[i]
    <2>1. i \in Nat /\ i - 1 \in Nat /\ \A j \in 1 .. i : j \in 1 .. i - 1 \/ j = i
      BY <1>2
    <2>2. PICK r : r = q[i] /\ r \in Rooms
      BY <1>2
    <2>3. /\ x \in CourierType /\ Exact(x) /\ Lighter(c, x) /\ Shrinks(c, x)
          /\ OnlyRoomsEnd(c, x)
          /\ \A j \in 1 .. i - 1 : Left(x, q[j])
      BY <2>1
    <2>4. PICK y : y = LeaveRoom(x, r, s)
      OBVIOUS
    <2>5. step[q[i]][x] = y
      BY <2>2, <2>3, <2>4
    <2>6. /\ Exact(y) /\ Lighter(x, y) /\ Shrinks(x, y) /\ Left(y, r)
          /\ OnlyRoomsEnd(x, y)
      BY <2>2, <2>3, <2>4, LeaveRoomKeeps
    <2>7. y \in CourierType
      BY <2>6, ExactIsSound
    <2>8. Lighter(c, y) /\ Shrinks(c, y) /\ OnlyRoomsEnd(c, y)
      BY <1>3, <2>3, <2>6, <2>7, LighterTransitive, ShrinksTransitive, OnlyRoomsTransitive
    <2>9. ASSUME NEW j \in 1 .. i
          PROVE  Left(y, q[j])
      <3>1. j \in 1 .. n
        BY <1>2, <2>1
      <3>2. q[j] \in Rooms /\ (j = i \/ Left(x, q[j]))
        BY <1>2, <2>1, <2>3, <3>1
      <3>3. y.rooms[q[j]] \in {None, x.rooms[q[j]]}
        BY <2>6, <3>2 DEF OnlyRoomsEnd
      <3> QED BY <2>2, <2>6, <3>2, <3>3
    <2>10. y \in P[i]
      <3> HIDE DEF Left
      <3> QED BY <2>1, <2>6, <2>7, <2>8, <2>9
    <2> HIDE DEF P
    <2> QED BY <2>5, <2>10
  <1>5. d \in P[n]
    <2> HIDE DEF P
    <2> QED BY <1>1, <1>2, <1>3, <1>4, LoopReaches
  <1>6. /\ Exact(d) /\ Lighter(c, d) /\ Shrinks(c, d) /\ OnlyRoomsEnd(c, d)
        /\ \A j \in 1 .. n : Left(d, q[j])
    BY <1>2, <1>5
  <1>7. \A r \in Rooms : \E j \in 1 .. n : q[j] = r
    BY <1>1, <1>2, OrderProperties
  <1> QED BY <1>6, <1>7 DEF RoomsLeft, OpenRooms

\* The message m has left the mailbox it waited in.
Withdrawn(c, m, d) ==
    /\ Sound(d) /\ Lighter(c, d) /\ SameRest(c, d)
    /\ Mail(d) = {e \in Mail(c) : e.id # m}

LEMMA WithdrawTakes ==
    ASSUME NEW c, Sound(c), Fits(c), UniqueMail(c), NEW s \in Sessions, NEW m,
           \A e \in Mail(c) : e.id = m => e.target = s, NEW d, d = Withdraw(c, s, m)
    PROVE  Withdrawn(c, m, d)
  <1>1. c \in CourierType /\ Addressed(c) /\ Lighter(c, c)
    BY LighterSame DEF Sound
  <1>2. PICK q, named : q = c.box[s].queue /\ named = {i \in DOMAIN q : q[i].id = m}
    OBVIOUS
  <1>3. CASE c.box[s] = None \/ named = {}
    <2>1. d = c
      BY <1>2, <1>3 DEF Withdraw
    <2>2. ASSUME NEW e \in Mail(c), e.id = m
          PROVE  FALSE
      <3>1. c.box[s] # None /\ e \in Range(q)
        BY <1>1, <1>2, <2>2, MailAt
      <3>2. PICK i \in DOMAIN q : q[i] = e
        BY <3>1 DEF Range
      <3> QED BY <1>2, <1>3, <2>2, <3>1, <3>2
    <2> QED BY <1>1, <2>1, <2>2 DEF Withdrawn, SameRest
  <1>4. CASE c.box[s] # None /\ named # {}
    <2>1. q \in Seq(Envelope)
      BY <1>1, <1>2, <1>4, MailboxFields
    <2>2. DOMAIN q = 1 .. Len(q) /\ Len(q) \in Nat
      BY <2>1, LenProperties
    <2>3. named \in SUBSET Nat
      BY <1>2, <2>2
    <2>4. PICK i : i = Min(named) /\ i \in named
      BY <1>4, <2>3, MinOfNat
    <2>5. i \in 1 .. Len(q) /\ q[i].id = m
      <3>1. i \in DOMAIN q /\ q[i].id = m
        BY <1>2, <2>4, Zenon
      <3> QED BY <2>2, <3>1
    <2>6. d = Without(c, s, RemoveAt(q, i), q[i].size)
      <3>1. Withdraw(c, s, m) = IF c.box[s] = None \/ named = {} THEN c
                                ELSE Without(c, s, RemoveAt(q, Min(named)), q[Min(named)].size)
        BY <1>2 DEF Withdraw
      <3>2. d = Without(c, s, RemoveAt(q, Min(named)), q[Min(named)].size)
        BY <1>4, <3>1
      <3> QED BY <2>4, <3>2, Zenon
    <2>7. PICK e : e = q[i]
      OBVIOUS
    <2>8. /\ i \in 1 .. Len(c.box[s].queue) /\ c.box[s] # None
          /\ d = Without(c, s, RemoveAt(c.box[s].queue, i), c.box[s].queue[i].size)
      BY <1>2, <1>4, <2>5, <2>6
    <2>9. /\ Sound(d) /\ Lighter(c, d)
          /\ d.calls = c.calls /\ d.rooms = c.rooms
          /\ d.states = c.states /\ d.retired = c.retired
          /\ c.box[s].queue[i] \in Mail(c)
          /\ Distinct(c.box[s].queue) => Mail(d) = Mail(c) \ {c.box[s].queue[i]}
      <3>1. Taken(c, s, i, d)
        BY <2>8, WithoutEffect
      <3> QED BY <3>1 DEF Taken
    <2>10. Distinct(c.box[s].queue)
      BY <1>4 DEF Fits
    <2>11. e \in Mail(c) /\ e.id = m /\ Mail(d) = Mail(c) \ {e}
      BY <1>2, <2>5, <2>7, <2>9, <2>10
    <2>12. \A f \in Mail(c) : f.id = m => f = e
      BY <2>11 DEF UniqueMail
    <2> QED BY <2>9, <2>11, <2>12 DEF Withdrawn, SameRest
  <1> QED BY <1>3, <1>4

LEMMA EqualCourier ==
    ASSUME NEW c \in CourierType, NEW d \in CourierType, d.box = c.box,
           d.charged = c.charged, SameRest(c, d)
    PROVE  d = c
  BY DEF CourierType, SameRest

\* Ending a call and taking its ask out of a mailbox commute.
LEMMA WithdrawAfterEnd ==
    ASSUME NEW c \in CourierType, NEW k \in Calls, NEW s \in Sessions, NEW m,
           NEW a, a = Withdraw(c, s, m)
    PROVE  Withdraw(EndCall(c, k), s, m) = EndCall(a, k)
  <1>1. PICK x : x = EndCall(c, k)
    OBVIOUS
  <1>2. /\ x \in CourierType /\ x.box = c.box /\ x.charged = c.charged
        /\ x.calls = [l \in Calls |-> IF l = k THEN None ELSE c.calls[l]]
        /\ x.rooms = c.rooms /\ x.states = c.states /\ x.retired = c.retired
    BY <1>1, EndCallFields
  <1>3. PICK q, named : q = c.box[s].queue /\ named = {i \in DOMAIN q : q[i].id = m}
    OBVIOUS
  <1>4. CASE c.box[s] = None \/ named = {}
    <2>1. a = c
      BY <1>3, <1>4 DEF Withdraw
    <2>2. Withdraw(x, s, m) = x
      BY <1>2, <1>3, <1>4 DEF Withdraw
    <2> QED BY <1>1, <2>1, <2>2
  <1>5. CASE c.box[s] # None /\ named # {}
    <2>1. q \in Seq(Envelope)
      BY <1>3, <1>5, MailboxFields
    <2>2. DOMAIN q = 1 .. Len(q) /\ Len(q) \in Nat
      BY <2>1, LenProperties
    <2>3. named \in SUBSET Nat
      BY <1>3, <2>2
    <2>4. PICK i : i = Min(named) /\ i \in named
      BY <1>5, <2>3, MinOfNat
    <2>5. i \in 1 .. Len(q)
      <3>1. i \in DOMAIN q
        BY <1>3, <2>4, Zenon
      <3> QED BY <2>2, <3>1
    <2>6. PICK p, n : p = RemoveAt(q, i) /\ n = q[i].size
      OBVIOUS
    <2>7. p \in Seq(Envelope) /\ n \in Nat
      <3>1. q[i] \in Envelope
        BY <2>1, <2>5, ElementOfSeq
      <3> QED BY <2>1, <2>5, <2>6, <3>1, RemoveAtProperties DEF Envelope
    <2>8. a = Without(c, s, p, n)
      <3>1. a = Without(c, s, RemoveAt(q, Min(named)), q[Min(named)].size)
        BY <1>3, <1>5 DEF Withdraw
      <3> QED BY <2>4, <2>6, <3>1, Zenon
    <2>9. PICK y : y = Without(x, s, p, n)
      OBVIOUS
    <2>10. Withdraw(x, s, m) = y
      <3>1. /\ x.box[s] = c.box[s] /\ q = x.box[s].queue
            /\ named = {j \in DOMAIN q : q[j].id = m}
        BY <1>2, <1>3
      <3>2. Withdraw(x, s, m) = IF x.box[s] = None \/ named = {} THEN x
                                ELSE Without(x, s, RemoveAt(q, Min(named)), q[Min(named)].size)
        BY <3>1 DEF Withdraw
      <3>3. Withdraw(x, s, m) = Without(x, s, RemoveAt(q, Min(named)), q[Min(named)].size)
        BY <1>5, <3>1, <3>2
      <3> QED BY <2>4, <2>6, <2>9, <3>3, Zenon
    <2>11. PICK b, charged : /\ b = c.box[s] /\ charged = Minus(c.charged, n)
      OBVIOUS
    <2>12. /\ a \in CourierType
           /\ a.box = [z \in Sessions |->
                         IF z = s THEN [ready |-> b.ready, queue |-> p, bytes |-> Minus(b.bytes, n)]
                         ELSE c.box[z]]
           /\ a.calls = c.calls /\ a.rooms = c.rooms
           /\ a.states = c.states /\ a.retired = c.retired /\ a.charged = charged
      BY <1>5, <2>7, <2>8, <2>11, WithoutFields
    <2>13. /\ y \in CourierType
           /\ y.box = [z \in Sessions |->
                         IF z = s THEN [ready |-> b.ready, queue |-> p, bytes |-> Minus(b.bytes, n)]
                         ELSE x.box[z]]
           /\ y.calls = x.calls /\ y.rooms = x.rooms
           /\ y.states = x.states /\ y.retired = x.retired /\ y.charged = charged
      <3>1. x.box[s] = b /\ x.box[s] # None /\ Minus(x.charged, n) = charged
        BY <1>2, <1>5, <2>11
      <3> QED BY <1>2, <2>7, <2>9, <3>1, WithoutFields
    <2>14. PICK z : z = EndCall(a, k)
      OBVIOUS
    <2>15. /\ z \in CourierType /\ z.box = a.box /\ z.charged = a.charged
           /\ z.calls = [l \in Calls |-> IF l = k THEN None ELSE a.calls[l]]
           /\ z.rooms = a.rooms /\ z.states = a.states /\ z.retired = a.retired
      BY <2>12, <2>14, EndCallFields
    <2>16. y = z
      <3>1. y.box = z.box /\ y.charged = z.charged /\ SameRest(z, y)
        BY <1>2, <2>12, <2>13, <2>15 DEF SameRest
      <3> QED BY <2>13, <2>15, <3>1, EqualCourier
    <2> QED BY <1>1, <2>10, <2>14, <2>16
  <1> QED BY <1>4, <1>5

\* The ask of a dying call is taken back.
AskTaken(c, D, k, a) ==
    /\ Coherent(a, D) /\ Lighter(c, a) /\ SameRest(c, a)
    /\ Mail(a) = {e \in Mail(c) : e.id # c.calls[k].ask}
    /\ Debt(a, D) \subseteq Debt(c, D) \cup {c.calls[k].ask}

LEMMA TakeAsk ==
    ASSUME NEW c, NEW D, Coherent(c, D), NEW k \in OpenCalls(c), k \in D,
           NEW a, a = Withdraw(c, c.calls[k].target, c.calls[k].ask)
    PROVE  AskTaken(c, D, k, a)
  <1>1. PICK m, t : m = c.calls[k].ask /\ t = c.calls[k].target
    OBVIOUS
  <1>2. Sound(c) /\ Fits(c) /\ UniqueMail(c) /\ c \in CourierType
    BY DEF Coherent, Sound
  <1>3. t \in Sessions /\ k \in Calls
    BY <1>1, <1>2, CallFields DEF OpenCalls
  <1>4. \A e \in Mail(c) : e.id = m => e.call = k /\ e.target = t
    BY <1>1, AskCarries DEF MatchesCall, Carries
  <1>5. Withdrawn(c, m, a)
    BY <1>1, <1>2, <1>3, <1>4, WithdrawTakes
  <1>6. \A e \in Mail(c) \ Mail(a) : MatchesCall(c, e) => e.call \in D
    BY <1>4, <1>5 DEF Withdrawn
  <1>7. Coherent(a, D)
    BY <1>5, <1>6, MailLeavesQuietly DEF Withdrawn
  <1>8. ASSUME NEW x \in Debt(a, D), x # m
        PROVE  x \in Debt(c, D)
    <2>1. Remaining(a) = Remaining(c) /\ Asks(a, D) = Asks(c, D)
      BY <1>5 DEF Withdrawn, SameRest, Remaining, Ended, Asks, OpenCalls
    <2>2. x \notin Waits(c)
      BY <1>5, <1>8 DEF Withdrawn, Debt, Waits
    <2> QED BY <1>8, <2>1, <2>2 DEF Debt
  <1> QED BY <1>1, <1>5, <1>7, <1>8 DEF AskTaken, Withdrawn

\* A session that has gone: no mail is to it, and its calls are dying, none of
\* them in a room.
Gone(c, D, s) ==
    /\ \A e \in Mail(c) : e.target # s
    /\ \A k \in D : c.calls[k] # None => /\ s \in {c.calls[k].source, c.calls[k].target}
                                         /\ c.calls[k].room = None
    /\ \A k \in OpenCalls(c) : s \in {c.calls[k].source, c.calls[k].target} => k \in D

LEMMA LeaveCallKeeps ==
    ASSUME NEW c, NEW D, NEW s, Gone(c, D, s), NEW x, Ending(c, D, x), NEW k \in Calls,
           c \in CourierType, NEW y, y = LeaveCall(x, k, s)
    PROVE  Ending(c, D, y) /\ EndsCall(D, k, x, y)
  <1>1. /\ Coherent(x, D) /\ Lighter(c, x) /\ x.rooms = c.rooms
        /\ \A l \in Calls : x.calls[l] = c.calls[l] \/ (l \in D /\ x.calls[l] = None)
        /\ Debt(x, D) \subseteq DyingAsks(x, D) /\ x \in CourierType
    BY DEF Ending, Coherent, Sound
  <1>2. CASE x.calls[k] = None \/ s \notin {x.calls[k].source, x.calls[k].target}
    <2>1. y = x
      BY <1>2 DEF LeaveCall
    <2>2. k \in D => y.calls[k] = None
      BY <1>1, <1>2, <2>1 DEF Gone
    <2> QED BY <2>1, <2>2 DEF EndsCall
  <1>3. CASE ~(x.calls[k] = None \/ s \notin {x.calls[k].source, x.calls[k].target})
    <2>1. k \in OpenCalls(x) /\ x.calls[k] = c.calls[k] /\ k \in D /\ x.calls[k].room = None
      BY <1>1, <1>3 DEF Gone, OpenCalls
    <2>2. PICK m, t : m = x.calls[k].ask /\ t = x.calls[k].target
      OBVIOUS
    <2>3. PICK outcome \in States :
             y = Retire(IF x.calls[k].stage = "Queued" /\ x.calls[k].source = s
                          THEN Withdraw(EndCall(x, k), t, m) ELSE EndCall(x, k),
                        m, outcome)
      BY <1>3, <2>2 DEF LeaveCall, States
    <2>4. PICK a : a = IF x.calls[k].stage = "Queued" /\ x.calls[k].source = s
                         THEN Withdraw(x, t, m) ELSE x
      OBVIOUS
    <2>5. t \in Sessions
      BY <1>1, <1>3, <2>2, CallFields
    <2>6. y = Retire(EndCall(a, k), m, outcome)
      BY <1>1, <2>3, <2>4, <2>5, WithdrawAfterEnd
    <2>7. \A e \in Mail(x) : e.id = m => /\ x.calls[k].stage = "Queued"
                                         /\ e.target = t
      BY <1>1, <2>1, <2>2, AskCarries DEF Carries, MatchesCall
    <2>8. \A e \in Mail(x) : e.target # s
      BY <1>1, LighterMail DEF Gone
    <2>9. /\ Coherent(a, D) /\ Lighter(x, a) /\ SameRest(x, a) /\ Mail(a) \subseteq Mail(x)
          /\ \A e \in Mail(a) : e.id # m
          /\ Debt(a, D) \subseteq Debt(x, D) \cup {m}
      <3>1. CASE x.calls[k].stage = "Queued" /\ x.calls[k].source = s
        <4>1. a = Withdraw(x, x.calls[k].target, x.calls[k].ask)
          BY <2>2, <2>4, <3>1
        <4>2. AskTaken(x, D, k, a)
          BY <1>1, <2>1, <4>1, TakeAsk
        <4> QED BY <2>2, <4>2 DEF AskTaken
      <3>2. CASE ~(x.calls[k].stage = "Queued" /\ x.calls[k].source = s)
        <4>1. a = x /\ Lighter(x, x)
          BY <1>1, <2>4, <3>2, LighterSame
        <4>2. \A e \in Mail(x) : e.id # m
          BY <1>3, <2>2, <2>7, <2>8, <3>2
        <4> QED BY <1>1, <4>1, <4>2 DEF SameRest
      <3> QED BY <3>1, <3>2
    <2>10. a \in CourierType
      BY <2>9 DEF Coherent, Sound
    <2>11. Lighter(c, a)
      BY <1>1, <2>9, <2>10, LighterTransitive
    <2>12. k \in OpenCalls(a) /\ a.calls[k].ask = m /\ a.calls[k].room = None
           /\ DyingAsks(a, D) = DyingAsks(x, D)
      BY <2>1, <2>2, <2>9 DEF SameRest, OpenCalls, DyingAsks
    <2>13. m \in DyingAsks(a, D)
      BY <2>1, <2>12 DEF DyingAsks
    <2>14. Ending(c, D, a)
      BY <1>1, <2>9, <2>11, <2>12, <2>13 DEF Ending, SameRest
    <2>15. ASSUME NEW e \in Mail(a), MatchesCall(a, e), e.call = k
           PROVE  e.room = None
      <3>1. MailHolds(a, e, D) /\ e.kind # "Ask"
        BY <2>9, <2>12, <2>15, CoherentMail, MatchedMail
      <3>2. e.kind = "Reply"
        BY <2>15, <3>1 DEF MatchesCall
      <3> QED BY <2>12, <2>15, <3>1, <3>2 DEF MailHolds, Carries
    <2>16. \A e \in Mail(a) : e.id # a.calls[k].ask
      BY <2>9, <2>12
    <2>17. y = Retire(EndCall(a, k), a.calls[k].ask, outcome)
      BY <2>6, <2>12
    <2>18. Ending(c, D, y) /\ EndsCall(D, k, a, y)
      BY <2>1, <2>12, <2>14, <2>15, <2>16, <2>17, CallEndsWithin
    <2> QED BY <2>9, <2>18 DEF EndsCall, SameRest
  <1> QED BY <1>2, <1>3

LEMMA FitsLighterBut ==
    ASSUME NEW c \in CourierType, NEW d \in CourierType, Fits(c), NEW s, LighterBut(c, d, s)
    PROVE  Fits(d)
  <1>1. /\ d.charged \in Nat /\ c.charged \in Nat /\ RuntimeBytes \in Nat
        /\ MailboxBytes \in Nat /\ MailboxEnvelopes \in Nat
    BY CourierFields, CourierAssumption
  <1>2. ASSUME NEW x \in Sessions, d.box[x] # None
        PROVE  /\ d.box[x].bytes <= MailboxBytes
               /\ Len(d.box[x].queue) <= MailboxEnvelopes
               /\ Distinct(d.box[x].queue)
    <2>1. x # s /\ c.box[x] # None
      BY <1>2 DEF LighterBut
    <2>2. /\ d.box[x].bytes \in Nat /\ Len(d.box[x].queue) \in Nat
          /\ c.box[x].bytes \in Nat /\ Len(c.box[x].queue) \in Nat
      BY <1>2, <2>1, MailboxFields, LenProperties
    <2>3. /\ Len(d.box[x].queue) <= Len(c.box[x].queue) /\ d.box[x].bytes <= c.box[x].bytes
          /\ Distinct(d.box[x].queue)
      BY <2>1 DEF LighterBut, Fits
    <2>4. c.box[x].bytes <= MailboxBytes /\ Len(c.box[x].queue) <= MailboxEnvelopes
      BY <2>1 DEF Fits
    <2> QED BY <1>1, <2>2, <2>3, <2>4, AtMostTransitive
  <1>3. d.charged <= RuntimeBytes
    <2>1. d.charged <= c.charged /\ c.charged <= RuntimeBytes
      BY DEF LighterBut, Fits
    <2> QED BY <1>1, <2>1, AtMostTransitive
  <1> QED BY <1>2, <1>3 DEF Fits

\* A mailbox goes, with its mail; the calls of its session are dying.
LEMMA EndMailboxKeeps ==
    ASSUME NEW c, Exact(c), NEW s \in Sessions, c.box[s] # None,
           \A r \in OpenRooms(c) : s \notin c.rooms[r].members,
           NEW D, D = {k \in OpenCalls(c) : s \in {c.calls[k].source, c.calls[k].target}},
           NEW a, a = EndMailbox(c, s)
    PROVE  /\ Ending(a, D, a) /\ Gone(a, D, s) /\ Shrinks(c, a)
           /\ a.calls = c.calls /\ a.rooms = c.rooms /\ a.box[s] = None
  <1>1. /\ Coherent(c, {}) /\ Sound(c) /\ Fits(c) /\ UniqueMail(c)
        /\ c \in CourierType /\ Addressed(c)
    BY ExactIsSound DEF Coherent, Sound
  <1>2. PICK b : b = ForgetMailbox(c, s)
    OBVIOUS
  <1>3. /\ Sound(b) /\ LighterBut(c, b, s) /\ SameRest(c, b)
        /\ Mail(b) = {e \in Mail(c) : e.target # s}
    <2>1. /\ Sound(b) /\ LighterBut(c, b, s)
          /\ b.calls = c.calls /\ b.rooms = c.rooms
          /\ b.states = c.states /\ b.retired = c.retired
          /\ Mail(b) = {e \in Mail(c) : e.target # s}
      BY <1>1, <1>2, ForgetMailboxEffect
    <2> QED BY <2>1 DEF SameRest
  <1>4. b \in CourierType /\ Fits(b)
    BY <1>1, <1>3, FitsLighterBut DEF Sound
  <1>5. \A x \in Sessions \ {s} : IsLive(c, x) => IsLive(b, x)
    BY <1>3 DEF LighterBut, IsLive
  <1>6. \A e \in Mail(c) \ Mail(b) : MatchesCall(c, e) => e.call \in D
    <2>1. ASSUME NEW e \in Mail(c), e \notin Mail(b), MatchesCall(c, e)
          PROVE  e.call \in D
      <3>1. e.target = s /\ e.call \in Calls /\ c.calls[e.call] # None
        BY <1>1, <1>3, <2>1, CoherentMail DEF MatchesCall
      <3>2. s \in {c.calls[e.call].source, c.calls[e.call].target}
        BY <2>1, <3>1 DEF MatchesCall
      <3> QED BY <3>1, <3>2 DEF OpenCalls
    <2> QED BY <2>1
  <1>7. ASSUME NEW k \in OpenCalls(c) \ D
        PROVE  IsLive(b, c.calls[k].source) /\ IsLive(b, c.calls[k].target)
    <2>1. /\ c.calls[k].source \in Sessions \ {s} /\ c.calls[k].target \in Sessions \ {s}
      BY <1>1, CallFields DEF OpenCalls
    <2>2. CallHolds(c, k)
      BY <1>1 DEF Coherent
    <2> QED BY <1>5, <2>1, <2>2 DEF CallHolds
  <1>8. ASSUME NEW r \in OpenRooms(c), NEW x \in c.rooms[r].members
        PROVE  IsLive(b, x)
    <2>1. x \in Sessions
      BY <1>1, RoomFields DEF OpenRooms
    <2>2. IsLive(c, x) /\ x # s
      BY <1>1 DEF Coherent, RoomHolds
    <2> QED BY <1>5, <2>1, <2>2
  <1>9. Coherent(b, D)
    BY <1>1, <1>3, <1>4, <1>6, <1>7, <1>8, MailLeaves
  <1>10. PICK q : q = c.box[s].queue
    OBVIOUS
  <1>11. q \in Seq(Envelope) /\ Range(q) = {e \in Mail(c) : e.target = s}
    BY <1>1, <1>10, MailboxFields, MailAt
  <1>12. \A e \in Range(q) : e.id \notin Waits(b) \cup Asks(b, D)
    <2>1. ASSUME NEW e \in Mail(c), e.target = s
          PROVE  e.id \notin Waits(b) \cup Asks(b, D)
      <3>1. e.id \notin Waits(b)
        BY <1>1, <1>3, <2>1 DEF Waits, UniqueMail
      <3>2. ASSUME NEW k \in OpenCalls(c) \ D, e.id = c.calls[k].ask
            PROVE  FALSE
        <4>1. MatchesCall(c, e) /\ e.kind = "Ask" /\ e.call = k
          BY <1>1, <3>2, AskCarries
        <4> QED BY <2>1, <4>1 DEF MatchesCall
      <3>3. e.id \notin Asks(b, D)
        BY <1>3, <3>2 DEF Asks, SameRest, OpenCalls
      <3> QED BY <3>1, <3>3
    <2> QED BY <1>11, <2>1
  <1>13. PICK outcome \in States : a = RetireMail(b, q, outcome)
    <2>1. a = RetireMail(b, q, "Cancelled") /\ "Cancelled" \in States
      BY <1>2, <1>10 DEF EndMailbox, ForgetMailbox, States
    <2> QED BY <2>1
  <1>14. /\ Coherent(a, D) /\ Debt(a, D) = Debt(b, D) \ {e.id : e \in Range(q)}
         /\ SameMail(b, a) /\ a.calls = b.calls /\ a.rooms = b.rooms
    <2>1. q \in Seq(Envelope)
      BY <1>11
    <2> QED BY ONLY <2>1, <1>9, <1>12, <1>13, RetireMailKeeps
  <1>15. Lighter(a, a)
    BY <1>14, LighterSame DEF Coherent, Sound
  <1>16. Debt(a, D) \subseteq DyingAsks(a, D)
    <2>1. \A m \in Debt(b, D) : \/ m \in DyingAsks(b, D)
                                \/ \E e \in Mail(c) \ Mail(b) : e.id = m
      BY <1>3, DebtOfLeaving
    <2>2. DyingAsks(a, D) = DyingAsks(b, D)
      BY <1>14 DEF DyingAsks, OpenCalls
    <2>3. Mail(c) \ Mail(b) \subseteq Range(q)
      BY <1>3, <1>11
    <2> QED BY <1>14, <2>1, <2>2, <2>3
  <1>17. ASSUME NEW k \in D
         PROVE  c.calls[k].room = None
    <2>1. k \in OpenCalls(c) /\ CallHolds(c, k) /\ c.calls[k].room \in Maybe(Rooms)
      BY <1>1, CallFields DEF Coherent, OpenCalls
    <2>2. RoundHolds(c, k)
      BY <2>1 DEF CallHolds
    <2>3. c.calls[k].room # None =>
             /\ c.calls[k].room \in OpenRooms(c)
             /\ {c.calls[k].source, c.calls[k].target}
                   \subseteq c.rooms[c.calls[k].room].members
      BY <2>1, <2>2 DEF RoundHolds, OpenRooms, Maybe
    <2> QED BY <2>3
  <1>18. \A k \in OpenCalls(a) : k \in OpenCalls(c) /\ a.calls[k] = c.calls[k]
    BY <1>3, <1>14 DEF OpenCalls, SameRest
  <1>19. \A e \in Mail(a) : e.target # s
    BY <1>3, <1>14 DEF SameMail
  <1>20. \A k \in D : a.calls[k] = c.calls[k]
    BY <1>3, <1>14 DEF SameRest
  <1>21. Gone(a, D, s)
    BY <1>17, <1>18, <1>19, <1>20 DEF Gone
  <1>22. Shrinks(c, a)
    BY <1>3, <1>14 DEF SameRest, SameMail, Shrinks
  <1>23. a.calls = c.calls /\ a.rooms = c.rooms /\ a.box[s] = None
    <2>1. b.box[s] = None /\ a.box = b.box
      BY <1>1, <1>2, <1>14, CourierFields DEF ForgetMailbox, SameMail
    <2> QED BY <1>3, <1>14, <2>1 DEF SameRest
  <1> QED BY <1>14, <1>15, <1>16, <1>21, <1>22, <1>23 DEF Ending

\* No call ends but with its room, or as a call of s, which is gone.
OnlyLeaves(c, d, s) ==
    \A k \in Calls :
       \/ d.calls[k] = c.calls[k]
       \/ EndedWithRoom(c, d, k)
       \/ d.box[s] = None /\ s \in {c.calls[k].source, c.calls[k].target}

\* A session ends with its rooms, its mail and its calls.
LEMMA SessionEndedKeeps ==
    ASSUME NEW c, Exact(c), NEW s \in Sessions, NEW d, d = SessionEnded(c, s)
    PROVE  Exact(d) /\ Shrinks(c, d) /\ OnlyLeaves(c, d, s)
  <1>1. PICK step : step = [r \in Rooms |-> [x \in CourierType |-> LeaveRoom(x, r, s)]]
    OBVIOUS
  <1>2. PICK left : left = After(step, c, RoomOrder)
    OBVIOUS
  <1>3. RoomsLeft(c, left, s)
    BY <1>1, <1>2, LeaveRoomsKeeps
  <1>4. /\ Exact(left) /\ Shrinks(c, left) /\ OnlyRoomsEnd(c, left)
        /\ \A r \in OpenRooms(left) : s \notin left.rooms[r].members
    BY <1>3 DEF RoomsLeft
  <1>5. CASE left.box[s] = None
    <2>1. d = left
      BY <1>1, <1>2, <1>5 DEF SessionEnded
    <2>2. OnlyLeaves(c, left, s)
      BY <1>4 DEF OnlyRoomsEnd, OnlyLeaves
    <2> QED BY <1>4, <2>1, <2>2
  <1>6. CASE left.box[s] # None
    <2> DEFINE end == [k \in Calls |-> [x \in CourierType |-> LeaveCall(x, k, s)]]
    <2>1. PICK D : D = {k \in OpenCalls(left) :
                          s \in {left.calls[k].source, left.calls[k].target}}
      OBVIOUS
    <2>2. PICK a : a = EndMailbox(left, s)
      OBVIOUS
    <2>3. /\ Ending(a, D, a) /\ Gone(a, D, s) /\ Shrinks(left, a)
          /\ a.calls = left.calls /\ a.rooms = left.rooms /\ a.box[s] = None
      BY <1>4, <1>6, <2>1, <2>2, EndMailboxKeeps
    <2>4. a \in CourierType
      BY <2>3 DEF Ending, Coherent, Sound
    <2>5. ASSUME NEW k \in Calls, NEW x \in CourierType, Ending(a, D, x)
          PROVE  Ending(a, D, end[k][x]) /\ EndsCall(D, k, x, end[k][x])
      <3>1. PICK y : y = LeaveCall(x, k, s)
        OBVIOUS
      <3>2. end[k][x] = y
        BY <3>1
      <3>3. Ending(a, D, y) /\ EndsCall(D, k, x, y)
        BY <2>3, <2>4, <2>5, <3>1, LeaveCallKeeps
      <3> QED BY <3>2, <3>3
    <2>6. d = After(end, a, CallOrder)
      BY <1>1, <1>2, <1>6, <2>2 DEF SessionEnded
    <2> HIDE DEF end
    <2>7. /\ Exact(d) /\ Lighter(a, d) /\ d.rooms = a.rooms
          /\ \A k \in Calls : d.calls[k] = IF k \in D THEN None ELSE a.calls[k]
      BY <2>3, <2>5, <2>6, DyingCallsEnd
    <2>8. Shrinks(a, d)
      BY <2>7, LighterMail DEF Shrinks
    <2>9. d.box[s] = None
      BY <2>3, <2>7 DEF Lighter
    <2>10. ASSUME NEW k \in Calls, d.calls[k] # c.calls[k], ~EndedWithRoom(c, d, k)
           PROVE  s \in {c.calls[k].source, c.calls[k].target}
      <3>1. left.calls[k] = c.calls[k]
        BY <1>4, <2>3, <2>7, <2>10 DEF OnlyRoomsEnd, EndedWithRoom
      <3>2. k \in D
        BY <2>3, <2>7, <2>10, <3>1
      <3> QED BY <2>1, <3>1, <3>2
    <2>11. OnlyLeaves(c, d, s)
      BY <2>9, <2>10 DEF OnlyLeaves
    <2>12. Shrinks(c, a)
      BY <1>4, <2>3, ShrinksTransitive
    <2> QED BY <2>7, <2>8, <2>11, <2>12, ShrinksTransitive
  <1> QED BY <1>5, <1>6

\* A call that has no reply is given up: d is what is left, a is c with its ask
\* taken back if it was unread.
GivenUp(c, k, a, d) ==
    /\ CallSettled(a, k, d) /\ Lighter(c, a) /\ SameRest(c, a)
    /\ Mail(a) = {e \in Mail(c) : e.id # c.calls[k].ask}

LEMMA GiveUp ==
    ASSUME NEW c, Exact(c), NEW k \in OpenCalls(c), c.calls[k].stage # "Replied",
           NEW a, a = IF c.calls[k].stage = "Queued"
                        THEN Withdraw(c, c.calls[k].target, c.calls[k].ask) ELSE c,
           NEW outcome \in States,
           NEW d, d = Retire(EndCall(a, k), c.calls[k].ask, outcome)
    PROVE  GivenUp(c, k, a, d)
  <1>1. Coherent(c, {}) /\ c \in CourierType /\ Lighter(c, c)
    BY ExactIsSound
  <1>2. PICK D : D = {k} /\ Coherent(c, D)
    <2>1. \A D : Coherent(c, D)
      BY <1>1, CoherentWider
    <2> QED BY <2>1
  <1>3. k \in D
    BY <1>2
  <1>4. PICK m : m = c.calls[k].ask
    OBVIOUS
  <1>5. Debt(c, D) \subseteq {m}
    <2>1. \A x \in Asks(c, {}) : x \in Asks(c, D) \/ x = m
      BY <1>2, <1>4 DEF Asks
    <2> QED BY <2>1 DEF Debt, Exact
  <1>6. /\ Coherent(a, D) /\ Lighter(c, a) /\ SameRest(c, a)
        /\ Mail(a) = {e \in Mail(c) : e.id # m}
        /\ Debt(a, D) \subseteq {m}
    <2>1. CASE c.calls[k].stage = "Queued"
      <3>1. a = Withdraw(c, c.calls[k].target, c.calls[k].ask)
        BY <2>1
      <3>2. AskTaken(c, D, k, a)
        BY <1>2, <1>3, <3>1, TakeAsk
      <3> QED BY <1>4, <1>5, <3>2 DEF AskTaken
    <2>2. CASE c.calls[k].stage # "Queued"
      <3>1. a = c
        BY <2>2
      <3>2. \A e \in Mail(c) : e.id # m
        BY <1>1, <1>4, <2>2, AskCarries DEF Carries
      <3> QED BY <1>1, <1>2, <1>5, <3>1, <3>2 DEF SameRest
    <2> QED BY <2>1, <2>2
  <1>7. k \in OpenCalls(a) /\ a.calls[k] = c.calls[k] /\ a.calls[k].ask = m
    BY <1>4, <1>6 DEF SameRest, OpenCalls
  <1>8. ASSUME NEW e \in Mail(a), MatchesCall(a, e), e.call = k
        PROVE  e.room = None
    <2>1. MailHolds(a, e, D) /\ e.kind # "Ask"
      BY <1>6, <1>7, <1>8, CoherentMail, MatchedMail
    <2>2. e.kind = "Reply"
      BY <1>8, <2>1 DEF MatchesCall
    <2> QED BY <1>7, <1>8, <2>1, <2>2 DEF MailHolds, Carries
  <1>9. Debt(a, D) \subseteq {a.calls[k].ask} /\ \A e \in Mail(a) : e.id # a.calls[k].ask
    BY <1>6, <1>7
  <1>10. d = Retire(EndCall(a, k), a.calls[k].ask, outcome)
    BY <1>4, <1>7
  <1>11. outcome \in States
    OBVIOUS
  <1>12. CallSettled(a, k, d)
    BY ONLY <1>2, <1>6, <1>7, <1>8, <1>9, <1>10, <1>11, LastCallEnds
  <1> QED BY <1>4, <1>6, <1>12 DEF GivenUp

\* No call ends but the one that s asked under ref, and only without a reply.
OnlyAbandons(c, d, s, ref) ==
    \A k \in Calls :
       \/ d.calls[k] = c.calls[k]
       \/ k = ref.call /\ OwnsCall(c, s, ref) /\ c.calls[k].stage # "Replied"

\* The asker of a call leaves.
LEMMA AbandonCallKeeps ==
    ASSUME NEW c, Exact(c), NEW s, NEW ref \in CallRef, NEW d, d = AbandonCall(c, s, ref)
    PROVE  Exact(d) /\ Shrinks(c, d) /\ OnlyAbandons(c, d, s, ref)
  <1>1. c \in CourierType
    BY ExactIsSound
  <1>2. PICK k \in Calls : k = ref.call
    BY DEF CallRef
  <1>3. CASE ~OwnsCall(c, s, ref) \/ c.calls[k].stage = "Replied"
    <2>1. d = c
      BY <1>2, <1>3 DEF AbandonCall
    <2> QED BY <2>1 DEF Shrinks, OnlyAbandons
  <1>4. CASE ~(~OwnsCall(c, s, ref) \/ c.calls[k].stage = "Replied")
    <2>1. k \in OpenCalls(c) /\ c.calls[k].stage # "Replied"
      BY <1>2, <1>4 DEF OwnsCall, OpenCalls
    <2>2. PICK m, t : m = c.calls[k].ask /\ t = c.calls[k].target
      OBVIOUS
    <2>3. PICK a : a = IF c.calls[k].stage = "Queued"
                         THEN Withdraw(c, c.calls[k].target, c.calls[k].ask) ELSE c
      OBVIOUS
    <2>4. PICK outcome \in States :
             d = Retire(IF c.calls[k].stage = "Queued"
                          THEN Withdraw(EndCall(c, k), t, m) ELSE EndCall(c, k),
                        m, outcome)
      BY <1>2, <1>4, <2>2 DEF AbandonCall, States
    <2>5. t \in Sessions
      BY <1>1, <2>1, <2>2, CallFields DEF OpenCalls
    <2>6. d = Retire(EndCall(a, k), c.calls[k].ask, outcome)
      BY <1>1, <2>2, <2>3, <2>4, <2>5, WithdrawAfterEnd
    <2>7. GivenUp(c, k, a, d)
      BY <2>1, <2>3, <2>6, GiveUp
    <2>8. Exact(d) /\ Mail(d) = Mail(a) /\ Mail(a) \subseteq Mail(c) /\ a.calls = c.calls
      BY <2>7 DEF GivenUp, CallSettled, SameMail, SameRest
    <2>9. \A l \in Calls : d.calls[l] = a.calls[l] \/ d.calls[l] = None
      BY <2>7 DEF GivenUp, CallSettled
    <2>10. \A l \in Calls \ {k} : d.calls[l] = c.calls[l]
      BY <2>7, <2>8 DEF GivenUp, CallSettled
    <2>11. OnlyAbandons(c, d, s, ref)
      BY <1>2, <1>4, <2>10 DEF OnlyAbandons
    <2> QED BY <2>8, <2>9, <2>11 DEF Shrinks
  <1> QED BY <1>3, <1>4

-----------------------------------------------------------------------------
(* What a message ends as.  F holds the pairs of a message and a final state  *)
(* that an operation may still give it.                                      *)

\* F holds every end that is open: to mail that waits, to the asks of calls
\* without a reply, and for an ask with a reply that it was replied.
Fated(c, F) ==
    /\ \A e \in Mail(c) : /\ \A outcome \in States : <<e.id, outcome>> \in F
                          /\ e.kind = "Reply" => <<e.replyTo, "Replied">> \in F
    /\ \A k \in Calls : c.calls[k] # None =>
          \A outcome \in States :
             c.calls[k].stage # "Replied" \/ outcome = "Replied"
                => <<c.calls[k].ask, outcome>> \in F

\* Mail and calls only go, and a state that is new is a fate of F and final.
Concludes(c, d, F) ==
    /\ Mail(d) \subseteq Mail(c)
    /\ \A k \in Calls : d.calls[k] \in {None, c.calls[k]}
    /\ \A m \in Messages : m \in Ended(c) \ Ended(d) => d.states[m] = None
    /\ \A m \in Messages :
          \/ d.states[m] \in {None, c.states[m]}
          \/ m \in Ended(d) /\ <<m, d.states[m]>> \in F

LEMMA ConcludesTransitive ==
    ASSUME NEW a, NEW b, NEW c, NEW F, Concludes(a, b, F), Concludes(b, c, F)
    PROVE  Concludes(a, c, F)
  <1>1. Mail(c) \subseteq Mail(a) /\ \A k \in Calls : c.calls[k] \in {None, a.calls[k]}
    BY DEF Concludes
  <1>2. ASSUME NEW m \in Messages
        PROVE  \/ c.states[m] \in {None, a.states[m]}
               \/ m \in Ended(c) /\ <<m, c.states[m]>> \in F
    <2>1. \/ b.states[m] \in {None, a.states[m]}
          \/ m \in Ended(b) /\ <<m, b.states[m]>> \in F
      BY DEF Concludes
    <2>2. \/ c.states[m] \in {None, b.states[m]}
          \/ m \in Ended(c) /\ <<m, c.states[m]>> \in F
      BY DEF Concludes
    <2>3. m \in Ended(b) \ Ended(c) => c.states[m] = None
      BY DEF Concludes
    <2> QED BY <2>1, <2>2, <2>3
  <1>3. ASSUME NEW m \in Messages, m \in Ended(a) \ Ended(c)
        PROVE  c.states[m] = None
    <2>1. m \notin Ended(b) => b.states[m] = None
      BY <1>3 DEF Concludes
    <2>2. m \in Ended(b) => c.states[m] = None
      BY <1>3 DEF Concludes
    <2>3. \/ c.states[m] \in {None, b.states[m]}
          \/ m \in Ended(c) /\ <<m, c.states[m]>> \in F
      BY <1>3 DEF Concludes
    <2> QED BY <1>3, <2>1, <2>2, <2>3
  <1> QED BY <1>1, <1>2, <1>3 DEF Concludes

\* What was fated stays so.
LEMMA ConcludesFated ==
    ASSUME NEW c, NEW d, NEW F, Fated(c, F), Concludes(c, d, F)
    PROVE  Fated(d, F)
  <1>1. /\ Mail(d) \subseteq Mail(c)
        /\ \A k \in Calls : d.calls[k] # None => d.calls[k] = c.calls[k]
    BY DEF Concludes
  <1> QED BY <1>1 DEF Fated

LEMMA ConcludesSame ==
    ASSUME NEW c, NEW d, NEW F, Mail(d) \subseteq Mail(c), d.retired = c.retired,
           d.states = c.states, \A k \in Calls : d.calls[k] \in {None, c.calls[k]}
    PROVE  Concludes(c, d, F)
  BY DEF Concludes, Ended

\* A loop concludes what each of its steps concludes.
LEMMA LoopConcludes ==
    ASSUME NEW c, Sound(c), NEW F, NEW step, NEW q, Len(q) \in Nat,
           \A i \in 1 .. Len(q) : \A d \in CourierType :
              Sound(d) /\ Concludes(c, d, F)
                 => Sound(step[q[i]][d]) /\ Concludes(d, step[q[i]][d], F)
    PROVE  Sound(After(step, c, q)) /\ Concludes(c, After(step, c, q), F)
  <1> DEFINE P == {d \in CourierType : Sound(d) /\ Concludes(c, d, F)}
  <1>1. c \in P
    BY ConcludesSame DEF Sound
  <1>2. ASSUME NEW i \in 1 .. Len(q), NEW d \in P
        PROVE  step[q[i]][d] \in P
    <2>1. PICK e : e = step[q[i]][d]
      OBVIOUS
    <2>2. d \in CourierType /\ Sound(d) /\ Concludes(c, d, F)
      BY <1>2
    <2>3. Sound(e) /\ Concludes(d, e, F)
      BY <2>1, <2>2
    <2>4. e \in CourierType
      BY <2>3 DEF Sound
    <2>5. Concludes(c, e, F)
      BY <2>2, <2>3, ConcludesTransitive
    <2> QED BY <2>1, <2>3, <2>4, <2>5
  <1> HIDE DEF P
  <1>3. After(step, c, q) \in P
    BY <1>1, <1>2, LoopKeeps
  <1> QED BY <1>3 DEF P

LEMMA EndedIsRange ==
    ASSUME NEW c \in CourierType, NEW m
    PROVE  /\ m \in Ended(c) <=> \E i \in 1 .. Len(c.retired) : c.retired[i] = m
           /\ Len(c.retired) \in Nat
  <1>1. c.retired \in Seq(Messages)
    BY CourierFields
  <1>2. DOMAIN c.retired = 1 .. Len(c.retired) /\ Len(c.retired) \in Nat
    BY <1>1, LenProperties
  <1> QED BY <1>2 DEF Ended

LEMMA RetireConcludes ==
    ASSUME NEW c \in CourierType, NEW m \in Messages, NEW outcome \in States,
           NEW F, <<m, outcome>> \in F, NEW d, d = Retire(c, m, outcome)
    PROVE  Concludes(c, d, F)
  <1>1. Mail(d) = Mail(c) /\ d.calls = c.calls /\ d \in CourierType
    BY RetireFields DEF Mail
  <1>2. CASE Contains(c.retired, m)
    <2>1. d = c
      BY <1>2 DEF Retire
    <2> QED BY <2>1, ConcludesSame
  <1>3. CASE ~Contains(c.retired, m)
    <2>1. PICK old, n : old = c.retired /\ n = Len(old)
      OBVIOUS
    <2>2. PICK kept : kept = Append(old, m)
      OBVIOUS
    <2>3. old \in Seq(Messages) /\ n \in Nat
      BY <2>1, CourierFields, LenProperties
    <2>4. /\ kept \in Seq(Messages) /\ Len(kept) = n + 1 /\ kept[n + 1] = m
          /\ \A i \in 1 .. n : kept[i] = old[i]
      BY <2>1, <2>2, <2>3, AppendProperties
    <2>5. kept # <<>> /\ Head(kept) = kept[1] /\ Head(kept) \in Messages
      BY <2>3, <2>4, HeadTailProperties, EmptySeq
    <2>6. CASE Len(kept) <= Remembered
      <3>1. d.retired = kept /\ d.states = [c.states EXCEPT ![m] = outcome]
        BY <1>3, <2>1, <2>2, <2>6, CourierFields DEF Retire, CourierType
      <3>2. m \in Ended(d) /\ Ended(c) \subseteq Ended(d)
        <4>1. \A x : x \in Ended(d) <=> \E i \in 1 .. n + 1 : kept[i] = x
          BY <1>1, <2>4, <3>1, EndedIsRange
        <4>2. \A x : x \in Ended(c) <=> \E i \in 1 .. n : old[i] = x
          BY <2>1, EndedIsRange
        <4> QED BY <2>3, <2>4, <4>1, <4>2
      <3>3. \A x \in Messages : d.states[x] = c.states[x] \/ (x = m /\ d.states[x] = outcome)
        <4>1. PICK f, g : f = c.states /\ g = d.states
          OBVIOUS
        <4>2. f \in [Messages -> Maybe(States)] /\ g = [f EXCEPT ![m] = outcome]
          BY <3>1, <4>1, CourierFields
        <4>3. \A x \in Messages : g[x] = IF x = m THEN outcome ELSE f[x]
          BY <4>2
        <4> QED BY <4>1, <4>3
      <3> QED BY <1>1, <3>2, <3>3 DEF Concludes
    <2>7. CASE ~(Len(kept) <= Remembered)
      <3>1. PICK h, rest : h = Head(kept) /\ rest = Tail(kept)
        OBVIOUS
      <3>2. /\ d.retired = rest
            /\ d.states = [c.states EXCEPT ![m] = outcome, ![h] = None]
        BY <1>3, <2>1, <2>2, <2>7, <3>1, CourierFields DEF Retire, CourierType
      <3>3. /\ rest \in Seq(Messages) /\ Len(rest) = n
            /\ \A i \in 1 .. n : rest[i] = kept[i + 1]
        BY <2>3, <2>4, <2>5, <3>1, HeadTailProperties
      <3>4. \A x : x = kept[1] \/ (x \in Ended(c) \cup {m} => x \in Ended(d))
        <4>1. \A x : x \in Ended(d) <=> \E i \in 1 .. n : kept[i + 1] = x
          <5>1. \A x : x \in Ended(d) <=> \E i \in 1 .. n : rest[i] = x
            BY <1>1, <3>2, <3>3, EndedIsRange
          <5> QED BY <3>3, <5>1
        <4>2. \A x : x \in Ended(c) <=> \E i \in 1 .. n : kept[i] = x
          BY <2>1, <2>4, EndedIsRange
        <4>3. \A i \in 1 .. n + 1 : i = 1 \/ \E j \in 1 .. n : i = j + 1
          <5>1. \A i \in 1 .. n + 1 : i = 1 \/ (i - 1 \in 1 .. n /\ i = (i - 1) + 1)
            BY <2>3
          <5> QED BY <5>1
        <4>4. 1 .. n \subseteq 1 .. n + 1 /\ n + 1 \in 1 .. n + 1
          BY <2>3
        <4> QED BY <2>4, <4>1, <4>2, <4>3, <4>4
      <3>5. \A x \in Messages : \/ x = h /\ d.states[x] = None
                                \/ x # h /\ d.states[x] = c.states[x]
                                \/ x # h /\ x = m /\ d.states[x] = outcome
        BY <3>2, CourierFields
      <3>6. h = kept[1]
        BY <2>5, <3>1
      <3> QED BY <1>1, <3>4, <3>5, <3>6 DEF Concludes
    <2> QED BY <2>6, <2>7
  <1> QED BY <1>2, <1>3

LEMMA RetireMailConcludes ==
    ASSUME NEW c, Sound(c), NEW mail \in Seq(Envelope), NEW outcome \in States, NEW F,
           \A i \in 1 .. Len(mail) : <<mail[i].id, outcome>> \in F,
           NEW d, d = RetireMail(c, mail, outcome)
    PROVE  Concludes(c, d, F)
  <1> DEFINE step == [e \in Envelope |-> [x \in CourierType |-> Retire(x, e.id, outcome)]]
  <1>1. d = After(step, c, mail)
    BY DEF RetireMail
  <1>2. Len(mail) \in Nat /\ \A i \in 1 .. Len(mail) : mail[i] \in Envelope
    BY LenProperties, ElementOfSeq
  <1>3. ASSUME NEW i \in 1 .. Len(mail), NEW x \in CourierType, Sound(x)
        PROVE  Sound(step[mail[i]][x]) /\ Concludes(x, step[mail[i]][x], F)
    <2>1. PICK y : y = Retire(x, mail[i].id, outcome)
      OBVIOUS
    <2>2. step[mail[i]][x] = y
      BY <1>2, <2>1
    <2>3. mail[i].id \in Messages
      BY <1>2 DEF Envelope
    <2>4. Sound(y)
      BY <1>3, <2>1, <2>3, RetireEffect
    <2>5. Concludes(x, y, F)
      BY <2>1, <2>3, RetireConcludes
    <2> QED BY <2>2, <2>4, <2>5
  <1> HIDE DEF step
  <1> QED BY <1>1, <1>2, <1>3, LoopConcludes

LEMMA EndCallConcludes ==
    ASSUME NEW c \in CourierType, NEW k \in Calls, NEW F, NEW d, d = EndCall(c, k)
    PROVE  Concludes(c, d, F)
  <1>1. /\ d.box = c.box /\ d.states = c.states /\ d.retired = c.retired
        /\ d.calls = [l \in Calls |-> IF l = k THEN None ELSE c.calls[l]]
    BY EndCallFields
  <1>2. Mail(d) = Mail(c)
    BY <1>1 DEF Mail
  <1>3. \A l \in Calls : d.calls[l] \in {None, c.calls[l]}
    BY <1>1
  <1> QED BY <1>1, <1>2, <1>3, ConcludesSame

\* A call ends with a fate of its ask.
LEMMA EndedCallConcludes ==
    ASSUME NEW c, Sound(c), NEW k \in Calls, c.calls[k] # None, NEW outcome \in States,
           NEW F, <<c.calls[k].ask, outcome>> \in F,
           NEW d, d = Retire(EndCall(c, k), c.calls[k].ask, outcome)
    PROVE  Concludes(c, d, F)
  <1>1. PICK a, m : a = EndCall(c, k) /\ m = c.calls[k].ask
    OBVIOUS
  <1>2. c \in CourierType
    BY DEF Sound
  <1>3. m \in Messages
    <2>1. c.calls[k] \in Call
      BY <1>2, CourierFields DEF Maybe
    <2> QED BY <1>1, <2>1 DEF Call
  <1>4. a \in CourierType /\ Concludes(c, a, F)
    BY <1>1, <1>2, EndCallFields, EndCallConcludes
  <1>5. Concludes(a, d, F)
    BY <1>1, <1>3, <1>4, RetireConcludes
  <1> QED BY <1>4, <1>5, ConcludesTransitive

LEMMA EndRoundConcludes ==
    ASSUME NEW c, Sound(c), NEW k \in Calls, NEW r, NEW outcome \in States,
           NEW F, Fated(c, F), NEW d, d = EndRound(c, k, r, outcome)
    PROVE  Concludes(c, d, F)
  <1>1. CASE c.calls[k] = None \/ c.calls[k].room # r
    BY <1>1, ConcludesSame DEF EndRound
  <1>2. CASE ~(c.calls[k] = None \/ c.calls[k].room # r)
    <2>1. PICK last : last = IF c.calls[k].stage = "Replied" THEN "Replied" ELSE outcome
      OBVIOUS
    <2>2. d = Retire(EndCall(c, k), c.calls[k].ask, last)
      BY <1>2, <2>1 DEF EndRound
    <2>3. last \in States
      BY <2>1 DEF States
    <2>4. <<c.calls[k].ask, last>> \in F
      BY <1>2, <2>1, <2>3 DEF Fated
    <2> QED BY <1>2, <2>2, <2>3, <2>4, EndedCallConcludes
  <1> QED BY <1>1, <1>2

LEMMA DropConcludes ==
    ASSUME NEW c, Sound(c), NEW gone, NEW F, NEW d, d = Drop(c, gone)
    PROVE  Concludes(c, d, F)
  <1>1. /\ Mail(d) = Mail(c) \ gone /\ d.calls = c.calls
        /\ d.states = c.states /\ d.retired = c.retired
    BY DropEffect
  <1> QED BY <1>1, ConcludesSame

LEMMA RemoveRoomConcludes ==
    ASSUME NEW c, Sound(c), NEW r \in Rooms, NEW outcome \in States,
           NEW F, Fated(c, F), NEW d, d = RemoveRoom(c, r, outcome)
    PROVE  Concludes(c, d, F)
  <1>1. c \in CourierType
    BY DEF Sound
  <1>2. CASE c.rooms[r] = None
    BY <1>2, ConcludesSame DEF RemoveRoom
  <1>3. CASE c.rooms[r] # None
    <2> DEFINE step == [k \in Calls |-> [x \in CourierType |-> EndRound(x, k, r, outcome)]]
    <2>1. PICK tagged : tagged = {e \in Mail(c) : e.room = r}
      OBVIOUS
    <2>2. PICK a : a = Drop(c, tagged)
      OBVIOUS
    <2>3. PICK b : b = [a EXCEPT !.rooms[r] = None]
      OBVIOUS
    <2>4. PICK mail : /\ mail = InBoxOrder(c, tagged) /\ mail \in Seq(Envelope)
                      /\ Range(mail) \subseteq tagged
      BY <1>1, InBoxOrderIsMail
    <2>5. PICK left : left = RetireMail(b, mail, outcome)
      OBVIOUS
    <2>6. PICK q : q = CallOrder /\ q \in Seq(Calls)
      BY OrderProperties
    <2>7. Len(q) \in Nat /\ \A i \in 1 .. Len(q) : q[i] \in Calls
      BY <2>6, LenProperties, ElementOfSeq
    <2>8. d = After(step, left, q)
      BY <1>3, <2>1, <2>2, <2>3, <2>4, <2>5, <2>6 DEF RemoveRoom
    <2>9. Sound(a) /\ Concludes(c, a, F)
      BY <2>2, DropEffect, DropConcludes
    <2>10. Sound(b) /\ Concludes(a, b, F)
      <3>1. Sound(b) /\ Mail(b) = Mail(a) /\ b.calls = a.calls
        BY <2>3, <2>9, ForgetRoomEffect
      <3>2. b.states = a.states /\ b.retired = a.retired
        BY <2>3, <2>9 DEF Sound, CourierType
      <3> QED BY <3>1, <3>2, ConcludesSame
    <2>11. Sound(left) /\ Concludes(b, left, F)
      <3>1. ASSUME NEW i \in 1 .. Len(mail)
            PROVE  <<mail[i].id, outcome>> \in F
        <4>1. mail[i] \in Range(mail)
          BY <2>4, LenProperties DEF Range
        <4>2. mail[i] \in Mail(c)
          BY <2>1, <2>4, <4>1
        <4> QED BY <4>2 DEF Fated
      <3>2. Sound(left)
        BY <2>4, <2>5, <2>10, RetireMailEffect
      <3> QED BY <2>4, <2>5, <2>10, <3>1, <3>2, RetireMailConcludes
    <2>12. Concludes(c, left, F)
      BY <2>9, <2>10, <2>11, ConcludesTransitive
    <2>13. ASSUME NEW i \in 1 .. Len(q), NEW x \in CourierType, Sound(x), Concludes(left, x, F)
           PROVE  Sound(step[q[i]][x]) /\ Concludes(x, step[q[i]][x], F)
      <3>1. PICK k, y : k = q[i] /\ k \in Calls /\ y = EndRound(x, k, r, outcome)
        BY <2>7
      <3>2. step[q[i]][x] = y
        BY <3>1
      <3>3. Fated(x, F)
        BY <2>12, <2>13, ConcludesFated, ConcludesTransitive
      <3>4. Sound(y)
        BY <2>13, <3>1, EndRoundEffect
      <3>5. Concludes(x, y, F)
        BY <2>13, <3>1, <3>3, EndRoundConcludes
      <3> QED BY <3>2, <3>4, <3>5
    <2> HIDE DEF step
    <2>14. Concludes(left, d, F)
      BY <2>7, <2>8, <2>11, <2>13, LoopConcludes
    <2> QED BY <2>12, <2>14, ConcludesTransitive
  <1> QED BY <1>2, <1>3

LEMMA ExpireRoomsConcludes ==
    ASSUME NEW c, Sound(c), NEW F, Fated(c, F), NEW now, NEW d, d = ExpireRooms(c, now)
    PROVE  Concludes(c, d, F)
  <1> DEFINE step == [r \in Rooms |-> [x \in CourierType |-> ExpireRoom(x, r, now)]]
  <1>1. PICK q : q = RoomOrder /\ q \in Seq(Rooms)
    BY OrderProperties
  <1>2. Len(q) \in Nat /\ \A i \in 1 .. Len(q) : q[i] \in Rooms
    BY <1>1, LenProperties, ElementOfSeq
  <1>3. d = After(step, c, q)
    BY <1>1 DEF ExpireRooms
  <1>4. ASSUME NEW i \in 1 .. Len(q), NEW x \in CourierType, Sound(x), Concludes(c, x, F)
        PROVE  Sound(step[q[i]][x]) /\ Concludes(x, step[q[i]][x], F)
    <2>1. PICK r, y : r = q[i] /\ r \in Rooms /\ y = ExpireRoom(x, r, now)
      BY <1>2
    <2>2. step[q[i]][x] = y
      BY <2>1
    <2>3. y = x \/ y = RemoveRoom(x, r, "Expired")
      BY <2>1 DEF ExpireRoom
    <2>4. "Expired" \in States /\ Fated(x, F)
      BY <1>4, ConcludesFated DEF States
    <2>5. Sound(y)
      BY <1>4, <2>1, <2>3, <2>4, RemoveRoomEffect
    <2>6. Concludes(x, y, F)
      BY <1>4, <2>1, <2>3, <2>4, RemoveRoomConcludes, ConcludesSame
    <2> QED BY <2>2, <2>5, <2>6
  <1> HIDE DEF step
  <1> QED BY <1>2, <1>3, <1>4, LoopConcludes

\* A message that expires has the fates it had while it waited.
LEMMA ExpireOneConcludes ==
    ASSUME NEW c, Sound(c), NEW F, Fated(c, F), NEW e \in Envelope,
           e.replyTo = None <=> e.kind \in {"Tell", "Ask"},
           \A outcome \in States : <<e.id, outcome>> \in F,
           e.kind = "Reply" => <<e.replyTo, "Replied">> \in F,
           NEW d, d = ExpireOne(c, e)
    PROVE  Concludes(c, d, F)
  <1>1. /\ e.id \in Messages /\ e.call \in Calls
        /\ e.kind = "Reply" => e.replyTo \in Messages
    BY DEF Envelope, Maybe, Kinds
  <1>2. "Expired" \in States /\ "Replied" \in States
    BY DEF States
  <1>3. PICK a : a = Retire(c, e.id, "Expired")
    OBVIOUS
  <1>4. PICK b : b = IF MatchesCall(a, e) THEN EndCall(a, e.call) ELSE a
    OBVIOUS
  <1>5. d = IF e.kind = "Reply" THEN Retire(b, e.replyTo, "Replied") ELSE b
    BY <1>3, <1>4 DEF ExpireOne
  <1>6. Concludes(c, a, F) /\ a \in CourierType
    BY <1>1, <1>2, <1>3, RetireConcludes, RetireFields DEF Sound
  <1>7. Concludes(a, b, F) /\ b \in CourierType
    <2>1. b = a \/ b = EndCall(a, e.call)
      BY <1>4
    <2> QED BY <1>1, <1>6, <2>1, EndCallConcludes, EndCallFields, ConcludesSame
  <1>8. Concludes(b, d, F)
    <2>1. CASE e.kind = "Reply"
      <3>1. d = Retire(b, e.replyTo, "Replied")
        BY <1>5, <2>1
      <3> QED BY <1>1, <1>2, <1>7, <2>1, <3>1, RetireConcludes
    <2>2. CASE e.kind # "Reply"
      BY <1>5, <2>2, ConcludesSame
    <2> QED BY <2>1, <2>2
  <1> QED BY <1>6, <1>7, <1>8, ConcludesTransitive

LEMMA ExpireWaitingConcludes ==
    ASSUME NEW c, Sound(c), NEW F, Fated(c, F), NEW s \in Sessions, NEW now,
           NEW d, d = ExpireWaiting(c, s, now)
    PROVE  Concludes(c, d, F)
  <1> DEFINE step == [e \in Envelope |-> [x \in CourierType |-> ExpireOne(x, e)]]
  <1>1. c \in CourierType /\ Addressed(c)
    BY DEF Sound
  <1>2. PICK late : late = {e \in Mail(c) : e.target = s /\ e.deadline <= now}
    OBVIOUS
  <1>3. PICK q : q = InBoxOrder(c, late) /\ q \in Seq(Envelope) /\ Range(q) \subseteq late
    BY <1>1, InBoxOrderIsMail
  <1>4. ASSUME NEW i \in 1 .. Len(q)
        PROVE  /\ q[i] \in Envelope
               /\ q[i].replyTo = None <=> q[i].kind \in {"Tell", "Ask"}
               /\ \A outcome \in States : <<q[i].id, outcome>> \in F
               /\ q[i].kind = "Reply" => <<q[i].replyTo, "Replied">> \in F
    <2>1. q[i] \in Envelope /\ q[i] \in Range(q)
      BY <1>3, ElementOfSeq, LenProperties DEF Range
    <2>2. q[i] \in Mail(c)
      BY <1>2, <1>3, <2>1
    <2> QED BY <1>1, <2>1, <2>2 DEF Addressed, Fated
  <1>5. PICK a : a = Drop(c, late)
    OBVIOUS
  <1>6. Sound(a) /\ Concludes(c, a, F)
    BY <1>5, DropEffect, DropConcludes
  <1>7. d = After(step, a, q)
    BY <1>2, <1>3, <1>5 DEF ExpireWaiting
  <1>8. ASSUME NEW i \in 1 .. Len(q), NEW x \in CourierType, Sound(x), Concludes(a, x, F)
        PROVE  Sound(step[q[i]][x]) /\ Concludes(x, step[q[i]][x], F)
    <2>1. PICK e, y : e = q[i] /\ y = ExpireOne(x, e)
      OBVIOUS
    <2>2. /\ e \in Envelope /\ (e.replyTo = None <=> e.kind \in {"Tell", "Ask"})
          /\ \A outcome \in States : <<e.id, outcome>> \in F
          /\ e.kind = "Reply" => <<e.replyTo, "Replied">> \in F
      BY <1>4, <2>1
    <2>3. step[q[i]][x] = y
      BY <2>1, <2>2
    <2>4. Fated(x, F)
      BY <1>6, <1>8, ConcludesFated, ConcludesTransitive
    <2>5. Sound(y)
      BY <1>8, <2>1, <2>2, ExpireOneEffect
    <2>6. Concludes(x, y, F)
      BY <1>8, <2>1, <2>2, <2>4, ExpireOneConcludes
    <2> QED BY <2>3, <2>5, <2>6
  <1> HIDE DEF step
  <1>9. Len(q) \in Nat
    BY <1>3, LenProperties
  <1>10. Concludes(a, d, F)
    BY <1>6, <1>7, <1>8, <1>9, LoopConcludes
  <1> QED BY <1>6, <1>10, ConcludesTransitive

\* A sweep may also give up a call whose reply it has already dropped.
LEMMA SweepConcludes ==
    ASSUME NEW c, Sound(c), NEW F, Fated(c, F),
           \A k \in Calls : c.calls[k] # None => <<c.calls[k].ask, "Expired">> \in F,
           NEW now, NEW d, d = Sweep(c, now)
    PROVE  Concludes(c, d, F)
  <1> DEFINE empty == [s \in Sessions |-> [x \in CourierType |-> ExpireWaiting(x, s, now)]]
             end == [k \in Calls |-> [x \in CourierType |-> ExpireCall(x, k, now)]]
  <1>1. PICK a : a = ExpireRooms(c, now)
    OBVIOUS
  <1>2. PICK p, q : p = SessionOrder /\ q = CallOrder
    OBVIOUS
  <1>3. /\ Len(p) \in Nat /\ \A i \in 1 .. Len(p) : p[i] \in Sessions
        /\ Len(q) \in Nat /\ \A i \in 1 .. Len(q) : q[i] \in Calls
    <2>1. p \in Seq(Sessions) /\ q \in Seq(Calls)
      BY <1>2, OrderProperties
    <2> QED BY <2>1, LenProperties, ElementOfSeq
  <1>4. PICK b : b = After(empty, a, p)
    OBVIOUS
  <1>5. d = c \/ d = After(end, b, q)
    BY <1>1, <1>2, <1>4 DEF Sweep
  <1>6. Sound(a) /\ Concludes(c, a, F)
    BY <1>1, ExpireRoomsEffect, ExpireRoomsConcludes
  <1>7. ASSUME NEW i \in 1 .. Len(p), NEW x \in CourierType, Sound(x), Concludes(a, x, F)
        PROVE  Sound(empty[p[i]][x]) /\ Concludes(x, empty[p[i]][x], F)
    <2>1. PICK s, y : s = p[i] /\ s \in Sessions /\ y = ExpireWaiting(x, s, now)
      BY <1>3
    <2>2. empty[p[i]][x] = y
      BY <2>1
    <2>3. Fated(x, F)
      BY <1>6, <1>7, ConcludesFated, ConcludesTransitive
    <2>4. Sound(y)
      BY <1>7, <2>1, ExpireWaitingEffect
    <2>5. Concludes(x, y, F)
      BY <1>7, <2>1, <2>3, ExpireWaitingConcludes
    <2> QED BY <2>2, <2>4, <2>5
  <1>8. Sound(b) /\ Concludes(c, b, F)
    <2> HIDE DEF empty
    <2>1. Sound(b) /\ Concludes(a, b, F)
      BY <1>3, <1>4, <1>6, <1>7, LoopConcludes
    <2> QED BY <1>6, <2>1, ConcludesTransitive
  <1>9. ASSUME NEW i \in 1 .. Len(q), NEW x \in CourierType, Sound(x), Concludes(b, x, F)
        PROVE  Sound(end[q[i]][x]) /\ Concludes(x, end[q[i]][x], F)
    <2>1. PICK k, y : k = q[i] /\ k \in Calls /\ y = ExpireCall(x, k, now)
      BY <1>3
    <2>2. end[q[i]][x] = y
      BY <2>1
    <2>3. Sound(y)
      BY <1>9, <2>1, ExpireCallEffect
    <2>4. Concludes(x, y, F)
      <3>1. x.calls[k] # None => x.calls[k] = c.calls[k]
        <4>1. Concludes(c, x, F)
          BY <1>8, <1>9, ConcludesTransitive
        <4> QED BY <2>1, <4>1 DEF Concludes
      <3>2. x.calls[k] # None => <<x.calls[k].ask, "Expired">> \in F
        BY <2>1, <3>1
      <3>3. y = x \/ (x.calls[k] # None /\ y = Retire(EndCall(x, k), x.calls[k].ask, "Expired"))
        BY <2>1 DEF ExpireCall
      <3>4. "Expired" \in States
        BY DEF States
      <3> QED BY <1>9, <2>1, <3>2, <3>3, <3>4, EndedCallConcludes, ConcludesSame
    <2> QED BY <2>2, <2>3, <2>4
  <1>10. CASE d = c
    BY <1>10, ConcludesSame
  <1>11. CASE d = After(end, b, q)
    <2> HIDE DEF end
    <2>1. Concludes(b, d, F)
      BY <1>3, <1>8, <1>9, <1>11, LoopConcludes
    <2> QED BY <1>8, <2>1, ConcludesTransitive
  <1> QED BY <1>5, <1>10, <1>11

LEMMA WithdrawConcludes ==
    ASSUME NEW c, Sound(c), NEW s \in Sessions, NEW m, NEW F, NEW d, d = Withdraw(c, s, m)
    PROVE  Sound(d) /\ Concludes(c, d, F)
  <1>1. /\ Sound(d) /\ Lighter(c, d) /\ d.calls = c.calls
        /\ d.states = c.states /\ d.retired = c.retired
    BY WithdrawEffect
  <1> QED BY <1>1, LighterMail, ConcludesSame

\* A call that is given up, with its ask withdrawn or not.
LEMMA GivenUpConcludes ==
    ASSUME NEW c, Sound(c), NEW k \in Calls, c.calls[k] # None, NEW outcome \in States,
           NEW F, <<c.calls[k].ask, outcome>> \in F,
           NEW b, \/ b = EndCall(c, k)
                  \/ b = Withdraw(EndCall(c, k), c.calls[k].target, c.calls[k].ask),
           NEW d, d = Retire(b, c.calls[k].ask, outcome)
    PROVE  Concludes(c, d, F)
  <1>1. PICK a, m, t : a = EndCall(c, k) /\ m = c.calls[k].ask /\ t = c.calls[k].target
    OBVIOUS
  <1>2. c \in CourierType
    BY DEF Sound
  <1>3. m \in Messages /\ t \in Sessions
    <2>1. c.calls[k] \in Call
      BY <1>2, CourierFields DEF Maybe
    <2> QED BY <1>1, <2>1 DEF Call
  <1>4. Sound(a) /\ Concludes(c, a, F)
    BY <1>1, <1>2, EndCallEffect, EndCallConcludes
  <1>5. Sound(b) /\ Concludes(a, b, F)
    <2>1. b = a \/ b = Withdraw(a, t, m)
      BY <1>1
    <2> QED BY <1>3, <1>4, <2>1, WithdrawConcludes, ConcludesSame
  <1>6. Concludes(b, d, F)
    BY <1>1, <1>3, <1>5, RetireConcludes DEF Sound
  <1> QED BY <1>4, <1>5, <1>6, ConcludesTransitive

LEMMA LeaveCallConcludes ==
    ASSUME NEW c, Sound(c), NEW F, Fated(c, F), NEW k \in Calls, NEW s,
           NEW d, d = LeaveCall(c, k, s)
    PROVE  Concludes(c, d, F)
  <1>1. CASE c.calls[k] = None \/ s \notin {c.calls[k].source, c.calls[k].target}
    <2>1. d = c
      BY <1>1 DEF LeaveCall
    <2> QED BY <2>1, ConcludesSame
  <1>2. CASE ~(c.calls[k] = None \/ s \notin {c.calls[k].source, c.calls[k].target})
    <2>1. PICK b, last :
             /\ b = IF c.calls[k].stage = "Queued" /\ c.calls[k].source = s
                      THEN Withdraw(EndCall(c, k), c.calls[k].target, c.calls[k].ask)
                      ELSE EndCall(c, k)
             /\ last = IF c.calls[k].stage = "Replied" THEN "Replied" ELSE "Cancelled"
      OBVIOUS
    <2>2. d = Retire(b, c.calls[k].ask, last)
      BY <1>2, <2>1 DEF LeaveCall
    <2>3. last \in States
      BY <2>1 DEF States
    <2>4. <<c.calls[k].ask, last>> \in F
      BY <1>2, <2>1, <2>3 DEF Fated
    <2>5. \/ b = EndCall(c, k)
          \/ b = Withdraw(EndCall(c, k), c.calls[k].target, c.calls[k].ask)
      BY <2>1
    <2> QED BY <1>2, <2>2, <2>3, <2>4, <2>5, GivenUpConcludes
  <1> QED BY <1>1, <1>2

LEMMA AbandonCallConcludes ==
    ASSUME NEW c, Sound(c), NEW F, Fated(c, F), NEW s, NEW ref \in CallRef,
           NEW d, d = AbandonCall(c, s, ref)
    PROVE  Concludes(c, d, F)
  <1>1. PICK k \in Calls : k = ref.call
    BY DEF CallRef
  <1>2. CASE ~OwnsCall(c, s, ref) \/ c.calls[k].stage = "Replied"
    <2>1. d = c
      BY <1>1, <1>2 DEF AbandonCall
    <2> QED BY <2>1, ConcludesSame
  <1>3. CASE ~(~OwnsCall(c, s, ref) \/ c.calls[k].stage = "Replied")
    <2>1. c.calls[k] # None
      BY <1>1, <1>3 DEF OwnsCall
    <2>2. PICK b : b = IF c.calls[k].stage = "Queued"
                         THEN Withdraw(EndCall(c, k), c.calls[k].target, c.calls[k].ask)
                         ELSE EndCall(c, k)
      OBVIOUS
    <2>3. d = Retire(b, c.calls[k].ask, "Cancelled")
      BY <1>1, <1>3, <2>2 DEF AbandonCall
    <2>4. "Cancelled" \in States
      BY DEF States
    <2>5. <<c.calls[k].ask, "Cancelled">> \in F
      BY <1>3, <2>1, <2>4 DEF Fated
    <2>6. \/ b = EndCall(c, k)
          \/ b = Withdraw(EndCall(c, k), c.calls[k].target, c.calls[k].ask)
      BY <2>2
    <2> QED BY <2>1, <2>3, <2>4, <2>5, <2>6, GivenUpConcludes
  <1> QED BY <1>2, <1>3

LEMMA EndMailboxConcludes ==
    ASSUME NEW c, Sound(c), NEW F, Fated(c, F), NEW s \in Sessions, c.box[s] # None,
           NEW d, d = EndMailbox(c, s)
    PROVE  Sound(d) /\ Concludes(c, d, F)
  <1>1. c \in CourierType /\ "Cancelled" \in States
    BY DEF Sound, States
  <1>2. PICK a : a = ForgetMailbox(c, s)
    OBVIOUS
  <1>3. PICK q : q = c.box[s].queue /\ q \in Seq(Envelope)
    BY <1>1, MailboxFields
  <1>4. d = RetireMail(a, q, "Cancelled")
    BY <1>2, <1>3 DEF EndMailbox, ForgetMailbox
  <1>5. /\ Sound(a) /\ a.calls = c.calls /\ a.states = c.states /\ a.retired = c.retired
        /\ Mail(a) \subseteq Mail(c)
    BY <1>2, ForgetMailboxEffect
  <1>6. Concludes(c, a, F)
    BY <1>5, ConcludesSame
  <1>7. ASSUME NEW i \in 1 .. Len(q)
        PROVE  <<q[i].id, "Cancelled">> \in F
    <2>1. q[i] \in Range(q)
      BY <1>3, LenProperties DEF Range
    <2>2. q[i] \in Mail(c)
      BY <1>1, <1>3, <2>1, MailIsEnvelopes
    <2> QED BY <1>1, <2>2 DEF Fated
  <1>8. Sound(d) /\ Concludes(a, d, F)
    BY <1>1, <1>3, <1>4, <1>5, <1>7, RetireMailEffect, RetireMailConcludes
  <1> QED BY <1>6, <1>8, ConcludesTransitive

LEMMA SessionEndedConcludes ==
    ASSUME NEW c, Sound(c), NEW F, Fated(c, F), NEW s \in Sessions,
           NEW d, d = SessionEnded(c, s)
    PROVE  Concludes(c, d, F)
  <1> DEFINE leave == [r \in Rooms |-> [x \in CourierType |-> LeaveRoom(x, r, s)]]
             end == [k \in Calls |-> [x \in CourierType |-> LeaveCall(x, k, s)]]
  <1>1. PICK p, q : p = RoomOrder /\ q = CallOrder
    OBVIOUS
  <1>2. /\ Len(p) \in Nat /\ \A i \in 1 .. Len(p) : p[i] \in Rooms
        /\ Len(q) \in Nat /\ \A i \in 1 .. Len(q) : q[i] \in Calls
    <2>1. p \in Seq(Rooms) /\ q \in Seq(Calls)
      BY <1>1, OrderProperties
    <2> QED BY <2>1, LenProperties, ElementOfSeq
  <1>3. PICK left : left = After(leave, c, p)
    OBVIOUS
  <1>4. PICK a : a = EndMailbox(left, s)
    OBVIOUS
  <1>5. d = IF left.box[s] = None THEN left ELSE After(end, a, q)
    BY <1>1, <1>3, <1>4 DEF SessionEnded
  <1>6. ASSUME NEW i \in 1 .. Len(p), NEW x \in CourierType, Sound(x), Concludes(c, x, F)
        PROVE  Sound(leave[p[i]][x]) /\ Concludes(x, leave[p[i]][x], F)
    <2>1. PICK r, y : r = p[i] /\ r \in Rooms /\ y = LeaveRoom(x, r, s)
      BY <1>2
    <2>2. leave[p[i]][x] = y
      BY <2>1
    <2>3. y = x \/ y = RemoveRoom(x, r, "Cancelled")
      BY <2>1 DEF LeaveRoom
    <2>4. "Cancelled" \in States /\ Fated(x, F)
      BY <1>6, ConcludesFated DEF States
    <2>5. Sound(y)
      BY <1>6, <2>1, LeaveRoomEffect
    <2>6. Concludes(x, y, F)
      BY <1>6, <2>1, <2>3, <2>4, RemoveRoomConcludes, ConcludesSame
    <2> QED BY <2>2, <2>5, <2>6
  <1>7. Sound(left) /\ Concludes(c, left, F)
    <2> HIDE DEF leave
    <2> QED BY <1>2, <1>3, <1>6, LoopConcludes
  <1>8. CASE left.box[s] = None
    BY <1>5, <1>7, <1>8
  <1>9. CASE left.box[s] # None
    <2>1. d = After(end, a, q)
      BY <1>5, <1>9
    <2>2. Fated(left, F)
      BY <1>7, ConcludesFated
    <2>3. Sound(a) /\ Concludes(left, a, F)
      BY <1>4, <1>7, <1>9, <2>2, EndMailboxConcludes
    <2>4. Concludes(c, a, F)
      BY <1>7, <2>3, ConcludesTransitive
    <2>5. ASSUME NEW i \in 1 .. Len(q), NEW x \in CourierType, Sound(x), Concludes(a, x, F)
          PROVE  Sound(end[q[i]][x]) /\ Concludes(x, end[q[i]][x], F)
      <3>1. PICK k, y : k = q[i] /\ k \in Calls /\ y = LeaveCall(x, k, s)
        BY <1>2
      <3>2. end[q[i]][x] = y
        BY <3>1
      <3>3. Fated(x, F)
        BY <2>4, <2>5, ConcludesFated, ConcludesTransitive
      <3>4. Sound(y)
        BY <2>5, <3>1, LeaveCallEffect
      <3>5. Concludes(x, y, F)
        BY <2>5, <3>1, <3>3, LeaveCallConcludes
      <3> QED BY <3>2, <3>4, <3>5
    <2> HIDE DEF end
    <2>6. Concludes(a, d, F)
      BY <1>2, <2>1, <2>3, <2>5, LoopConcludes
    <2> QED BY <2>4, <2>6, ConcludesTransitive
  <1> QED BY <1>8, <1>9

=============================================================================
