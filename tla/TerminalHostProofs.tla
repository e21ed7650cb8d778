------------------------- MODULE TerminalHostProofs -------------------------
(***************************************************************************)
(* Theorems about TerminalHost for every number of viewers and callers,    *)
(* every ring, queue and admission limit, and every amount of output.      *)
(***************************************************************************)
EXTENDS TerminalHost, SequenceTheorems, TLAPS

-----------------------------------------------------------------------------
(* Types, in three parts: the lanes of the host, the turns, the views.     *)
LaneTypes ==
    /\ child \in {"running", "killed", "exited"}
    /\ console \in {"open", "closed", "kept"}
    /\ reader \in {"reading", "over"}
    /\ incoming \in Seq(Chunks \cup {"fault"}) /\ Len(incoming) <= QueueChunks
    /\ host \in Chunks \cup {"idle", "over"}
    /\ next \in Nat /\ next >= 1
    /\ asks \subseteq 1..(next - 1)
    /\ authority \in {"running", "asleep", "queued", "writing", "over"}
    /\ through \in Nat /\ through < next
    /\ permit \in BOOLEAN
    /\ screen \subseteq 1..through
    /\ available \in BOOLEAN /\ torn \in BOOLEAN
    /\ finished \in BOOLEAN /\ initialized \in BOOLEAN
    /\ failure \in Failures \cup {None}
    /\ watcher \in {"observing", "closing", "draining", "told"}

TurnTypes ==
    /\ order \in Seq(Callers \cup {"authority"})
    /\ caller \in [Callers -> {"out", "queued", "writing"}]
    /\ TurnsMatch

View == [at : {"out", "attaching", "watching", "ended"}, since : Nat, pos : Nat,
         shown : SUBSET Nat]

-----------------------------------------------------------------------------
(* The inductive invariant.                                                *)

\* What the reader hands over is bounded, and a fault is the last of it.
Faulted == incoming # << >> /\ incoming[Len(incoming)] = "fault"

QueueOK ==
    /\ next - 1 + InHand + Len(incoming) <= MaxChunks + (IF Faulted THEN 1 ELSE 0)
    /\ Faulted => reader = "over"
    /\ \A i \in 1..(Len(incoming) - 1) : incoming[i] # "fault"

\* A lane is over for good, for a reason, and in its order; a failure closes input.
LanesOK ==
    /\ ~initialized => /\ authority = "over" /\ host = "over" /\ failure # None
                       /\ next = 1 /\ ~available
    /\ host = "over" => reader = "over" /\ incoming = << >>
    /\ watcher # "observing" => child = "exited" /\ finished
    /\ initialized /\ failure # None => finished
    /\ authority = "over" => \/ host = "over" /\ through + 1 = next
                             \/ failure # None
                             \/ Overrun
    /\ Told => host = "over" /\ authority = "over"

\* The screen holds all that was applied, unless a resize lost it or the authority
\* that lost it has stopped short of what is published.
ScreenOK ==
    \/ torn
    \/ screen = 1..through
    \/ authority = "over" /\ through + 1 < next

LaneInv == LaneTypes /\ QueueOK /\ LanesOK /\ ScreenOK /\ Lossless

\* A view lacks nothing since its picture, or began with a picture a resize lost.
Whole(r) == r.shown = r.since..(r.pos - 1)
Patchy(r) == torn /\ r.since = 1

Exact(r) ==
    /\ r.since <= r.pos /\ r.pos <= next /\ r.shown \subseteq 1..(r.pos - 1)
    /\ r.at \in {"watching", "ended"} =>
          /\ 1 <= r.since
          /\ Whole(r) \/ Patchy(r)
    /\ r.at = "ended" => Told /\ r.pos = next

ViewInv == view \in [Viewers -> View] /\ \A v \in Viewers : Exact(view[v])

IInv == LaneInv /\ TurnTypes /\ ViewInv

-----------------------------------------------------------------------------
(* The lanes of the host.                                                  *)
laneVars == <<child, console, hostVars, authority, screenVars, endVars, initialized, watcher>>

LEMMA LanesStutter ==
    ASSUME LaneInv, UNCHANGED laneVars
    PROVE  LaneInv'
  BY DEF LaneInv, LaneTypes, QueueOK, LanesOK, ScreenOK, Lossless, Faulted, InHand, Overrun,
         Told, Drained, laneVars, hostVars, screenVars, endVars

\* Most steps leave the output itself alone.
LEMMA TypesStay ==
    ASSUME LaneTypes, UNCHANGED <<reader, incoming, host, next, asks, through, initialized>>,
           child' \in {"running", "killed", "exited"},
           console' \in {"open", "closed", "kept"},
           authority' \in {"running", "asleep", "queued", "writing", "over"},
           permit' \in BOOLEAN, finished' \in BOOLEAN,
           screen' \in {screen, {}}, available' \in BOOLEAN, torn' \in BOOLEAN,
           failure' \in Failures \cup {None},
           watcher' \in {"observing", "closing", "draining", "told"}
    PROVE  LaneTypes'
  BY DEF LaneTypes

LaneActions ==
    \/ ChildSteps \/ ReaderSteps \/ HostSteps \/ AuthoritySteps \/ WatcherSteps
    \/ \E c \in Callers : WriteUncertain(c) \/ Resizes(c) \/ ResizeLosesScreen(c)

LEMMA LaneSteps ==
    ASSUME LaneInv, LaneActions
    PROVE  LaneInv'
  <1> USE HostAssumption DEF HostAssumption, Chunks, Failures
  <1> USE DEF LaneInv, LaneTypes, QueueOK, LanesOK, ScreenOK, Lossless, Faulted, InHand, Overrun,
         Told, Drained, hostVars, screenVars, endVars
  <1>1. CASE Exits
    BY <1>1 DEF Exits
  <1>2. CASE Stops
    BY <1>2 DEF Stops, Kill
  <1>4. CASE \E kind \in Chunks : Reads(kind)
    BY <1>4 DEF Reads
  <1>5. CASE ReadFaults
    BY <1>5 DEF ReadFaults
  <1>6. CASE ReadEnds
    BY <1>6 DEF ReadEnds
  <1>7. CASE Takes
    <2>a. /\ incoming' \in Seq(Chunks \cup {"fault"}) /\ Len(incoming') = Len(incoming) - 1
          /\ \A i \in 1..Len(incoming') : incoming'[i] = incoming[i + 1]
          /\ incoming # << >> /\ incoming[1] = Head(incoming)
      BY <1>7 DEF Takes
    <2>b. ASSUME Head(incoming) = "fault" PROVE LaneTypes' /\ QueueOK'
      <3>1. Len(incoming) = 1
        BY <2>a, <2>b
      <3>2. Faulted /\ ~Faulted' /\ Len(incoming') = 0
        BY <2>a, <2>b, <3>1
      <3>3. permit' \in BOOLEAN
        BY <1>7, <2>b, Zenon DEF Takes, Fail, Finish
      <3>4. LaneTypes'
        BY <1>7, <2>a, <2>b, <3>3 DEF Takes, Fail, Finish, Kill
      <3>5. QueueOK'
        BY <1>7, <2>a, <2>b, <3>1, <3>2 DEF Takes
      <3> QED BY <3>4, <3>5
    <2>c. ASSUME Head(incoming) # "fault" PROVE LaneTypes' /\ QueueOK'
      <3>1. Faulted' => Faulted
        BY <2>a, <2>c
      <3>2. LaneTypes'
        BY <1>7, <2>a, <2>c DEF Takes
      <3>3. QueueOK'
        <4>1. host = "idle" /\ host' \in {"plain", "query"} /\ next' = next /\ reader' = reader
          BY <1>7, <2>a, <2>c DEF Takes
        <4>2. next - 1 + InHand' + Len(incoming') <= MaxChunks + (IF Faulted' THEN 1 ELSE 0)
          <5>1. /\ InHand = 0 /\ InHand' = 1 /\ Len(incoming') = Len(incoming) - 1
                /\ Len(incoming) \in Nat /\ next \in Nat /\ MaxChunks \in Nat /\ next' = next
            BY <2>a, <4>1
          <5>2. CASE Faulted
            <6>0. Len(incoming) > 1
              BY <2>a, <2>c, <5>1, <5>2
            <6>1. Faulted' /\ next - 1 + InHand + Len(incoming) <= MaxChunks + 1
              BY <2>a, <5>1, <5>2, <6>0
            <6> HIDE DEF InHand, Faulted, LaneInv
            <6> QED BY <5>1, <6>1
          <5>3. CASE ~Faulted
            <6>1. ~Faulted' /\ next - 1 + InHand + Len(incoming) <= MaxChunks
              BY <3>1, <5>3
            <6> HIDE DEF InHand, Faulted, LaneInv
            <6>2. next' - 1 + InHand' + Len(incoming') <= MaxChunks
              BY <5>1, <6>1
            <6> QED BY <5>1, <6>1, <6>2
          <5> QED BY <5>2, <5>3
        <4>3. Faulted' => reader' = "over"
          BY <3>1, <4>1
        <4>4. ASSUME NEW i \in 1..(Len(incoming') - 1) PROVE incoming'[i] # "fault"
          <5>1. i + 1 \in 1..(Len(incoming) - 1) /\ i \in 1..Len(incoming')
            BY <2>a
          <5>2. incoming'[i] = incoming[i + 1]
            BY <2>a, <5>1
          <5> QED BY <5>1, <5>2
        <4> QED BY <4>1, <4>2, <4>3, <4>4
      <3> QED BY <3>2, <3>3
    <2>1. LaneTypes'
      BY <2>b, <2>c
    <2>2. QueueOK'
      BY <2>b, <2>c
    <2>3. LanesOK'
      BY <1>7 DEF Takes, Fail, Finish, Kill, InHand
    <2>4. ScreenOK'
      BY <1>7 DEF Takes, Fail, Finish, Kill, InHand
    <2>5. Lossless'
      BY <1>7 DEF Takes, Fail, Finish, Kill, InHand
    <2> QED BY <2>1, <2>2, <2>3, <2>4, <2>5
  <1>8. CASE Publishes
    BY <1>8 DEF Publishes, HeldBack, InHand
  <1>9. CASE HostEnds
    BY <1>9 DEF HostEnds
  <1>10. CASE Applies
    BY <1>10 DEF Applies, Unread, Overrun
  <1>11. CASE LosesScreen
    <2>1. LaneTypes'
      BY <1>11 DEF LosesScreen, Fail, Finish, Kill, Unread, Overrun
    <2>2. QueueOK'
      BY <1>11 DEF LosesScreen, Fail, Finish, Kill, Unread, Overrun
    <2>3. LanesOK'
      BY <1>11 DEF LosesScreen, Fail, Finish, Kill, Unread, Overrun
    <2>4. ScreenOK'
      BY <1>11 DEF LosesScreen, Fail, Finish, Kill, Unread, Overrun
    <2>5. Lossless'
      BY <1>11 DEF LosesScreen, Fail, Finish, Kill, Unread, Overrun
    <2> QED BY <2>1, <2>2, <2>3, <2>4, <2>5
  <1>12. CASE IsOverrun
    <2>1. LaneTypes'
      <3>1. permit' \in BOOLEAN
        BY <1>12, Zenon DEF IsOverrun, Fail, Finish, Kill
      <3>2. /\ finished' \in BOOLEAN /\ child' \in {"running", "killed", "exited"}
            /\ failure' \in Failures \cup {None}
        BY <1>12 DEF IsOverrun, Fail, Finish, Kill
      <3>3. /\ UNCHANGED <<reader, incoming, host, next, asks, through, initialized>>
            /\ screen' \in {screen, {}} /\ available' \in BOOLEAN /\ torn' \in BOOLEAN
            /\ console' \in {"open", "closed", "kept"}
            /\ watcher' \in {"observing", "closing", "draining", "told"}
            /\ authority' \in {"running", "asleep", "queued", "writing", "over"}
        BY <1>12 DEF IsOverrun
      <3> QED BY <3>1, <3>2, <3>3, TypesStay
    <2>2. QueueOK'
      BY <1>12 DEF IsOverrun, Fail, Finish, Kill, Overrun
    <2>3. LanesOK'
      BY <1>12 DEF IsOverrun, Fail, Finish, Kill, Overrun
    <2>4. ScreenOK'
      BY <1>12 DEF IsOverrun, Fail, Finish, Kill, Overrun
    <2>5. Lossless'
      BY <1>12 DEF IsOverrun, Fail, Finish, Kill, Overrun
    <2> QED BY <2>1, <2>2, <2>3, <2>4, <2>5
  <1>13. CASE Rests
    BY <1>13 DEF Rests, Unread, Drained
  <1>14. CASE Wakes
    <2>1. LaneTypes'
      <3>1. permit' \in BOOLEAN
        BY <1>14, Zenon DEF Wakes
      <3>2. /\ finished' \in BOOLEAN /\ child' \in {"running", "killed", "exited"}
            /\ failure' \in Failures \cup {None}
        BY <1>14 DEF Wakes
      <3>3. /\ UNCHANGED <<reader, incoming, host, next, asks, through, initialized>>
            /\ screen' \in {screen, {}} /\ available' \in BOOLEAN /\ torn' \in BOOLEAN
            /\ console' \in {"open", "closed", "kept"}
            /\ watcher' \in {"observing", "closing", "draining", "told"}
            /\ authority' \in {"running", "asleep", "queued", "writing", "over"}
        BY <1>14 DEF Wakes
      <3> QED BY <3>1, <3>2, <3>3, TypesStay
    <2>2. QueueOK'
      BY <1>14 DEF Wakes
    <2>3. LanesOK'
      BY <1>14 DEF Wakes
    <2>4. ScreenOK'
      BY <1>14 DEF Wakes
    <2>5. Lossless'
      BY <1>14 DEF Wakes
    <2> QED BY <2>1, <2>2, <2>3, <2>4, <2>5
  <1>15. CASE Answers
    BY <1>15 DEF Answers
  <1>16. CASE AnswerDropped
    BY <1>16 DEF AnswerDropped
  <1>17. CASE AnswerWritten
    BY <1>17 DEF AnswerWritten
  <1>18. CASE AnswerUncertain
    BY <1>18 DEF AnswerUncertain, Fail, Finish, Kill
  <1>19. CASE \E c \in Callers : WriteUncertain(c)
    BY <1>19 DEF WriteUncertain, Fail, Finish, Kill
  <1>20. CASE \E c \in Callers : Resizes(c)
    BY <1>20 DEF Resizes, AtTerminal
  <1>21. CASE \E c \in Callers : ResizeLosesScreen(c)
    <2>1. LaneTypes'
      <3>1. permit' \in BOOLEAN
        BY <1>21, Zenon DEF ResizeLosesScreen, Fail, Finish, Kill
      <3>2. /\ finished' \in BOOLEAN /\ child' \in {"running", "killed", "exited"}
            /\ failure' \in Failures \cup {None}
        BY <1>21 DEF ResizeLosesScreen, Fail, Finish, Kill
      <3>3. /\ UNCHANGED <<reader, incoming, host, next, asks, through, initialized>>
            /\ screen' \in {screen, {}} /\ available' \in BOOLEAN /\ torn' \in BOOLEAN
            /\ console' \in {"open", "closed", "kept"}
            /\ watcher' \in {"observing", "closing", "draining", "told"}
            /\ authority' \in {"running", "asleep", "queued", "writing", "over"}
        BY <1>21 DEF ResizeLosesScreen
      <3> QED BY <3>1, <3>2, <3>3, TypesStay
    <2>2. QueueOK'
      BY <1>21 DEF ResizeLosesScreen, Fail, Finish, Kill, AtTerminal
    <2>3. LanesOK'
      BY <1>21 DEF ResizeLosesScreen, Fail, Finish, Kill, AtTerminal
    <2>4. ScreenOK'
      BY <1>21 DEF ResizeLosesScreen, Fail, Finish, Kill, AtTerminal
    <2>5. Lossless'
      BY <1>21 DEF ResizeLosesScreen, Fail, Finish, Kill, AtTerminal
    <2> QED BY <2>1, <2>2, <2>3, <2>4, <2>5
  <1>22. CASE Observes
    BY <1>22 DEF Observes, Finish
  <1>23. CASE ClosesConsole
    <2>1. LaneTypes'
      <3>1. permit' \in BOOLEAN
        BY <1>23, Zenon DEF ClosesConsole
      <3>2. /\ finished' \in BOOLEAN /\ child' \in {"running", "killed", "exited"}
            /\ failure' \in Failures \cup {None}
        BY <1>23 DEF ClosesConsole
      <3>3. /\ UNCHANGED <<reader, incoming, host, next, asks, through, initialized>>
            /\ screen' \in {screen, {}} /\ available' \in BOOLEAN /\ torn' \in BOOLEAN
            /\ console' \in {"open", "closed", "kept"}
            /\ watcher' \in {"observing", "closing", "draining", "told"}
            /\ authority' \in {"running", "asleep", "queued", "writing", "over"}
        BY <1>23 DEF ClosesConsole
      <3> QED BY <3>1, <3>2, <3>3, TypesStay
    <2>2. QueueOK'
      BY <1>23 DEF ClosesConsole
    <2>3. LanesOK'
      BY <1>23 DEF ClosesConsole
    <2>4. ScreenOK'
      BY <1>23 DEF ClosesConsole
    <2>5. Lossless'
      BY <1>23 DEF ClosesConsole
    <2> QED BY <2>1, <2>2, <2>3, <2>4, <2>5
  <1>24. CASE Tells
    BY <1>24 DEF Tells, Drained
  <1> QED BY <1>1, <1>2, <1>4, <1>5, <1>6, <1>7, <1>8, <1>9, <1>10, <1>11, <1>12, <1>13,
             <1>14, <1>15, <1>16, <1>17, <1>18, <1>19, <1>20, <1>21, <1>22, <1>23, <1>24
          DEF LaneActions, ChildSteps, ReaderSteps, HostSteps, AuthoritySteps, WatcherSteps

-----------------------------------------------------------------------------
(* The turns at the terminal.                                              *)

\* A queue of distinct waiters, one of whom joins at its end or leaves it.
LEMMA Joined ==
    ASSUME NEW S, NEW s \in Seq(S), IsInjective(s), NEW x \in S, x \notin ToSet(s)
    PROVE  /\ Append(s, x) \in Seq(S) /\ IsInjective(Append(s, x))
           /\ ToSet(Append(s, x)) = ToSet(s) \cup {x}
           /\ \A y \in ToSet(s) : Head(s) = y => Head(Append(s, x)) = y
  <1> DEFINE t == Append(s, x)
  <1>1. /\ t \in Seq(S) /\ Len(t) = Len(s) + 1 /\ Len(s) \in Nat
        /\ \A i \in 1..Len(s) : t[i] = s[i]
        /\ t[Len(t)] = x /\ DOMAIN t = 1..Len(t) /\ DOMAIN s = 1..Len(s)
    OBVIOUS
  <1> HIDE DEF t
  <1>2. IsInjective(t)
    BY <1>1 DEF IsInjective, ToSet
  <1>3. ToSet(t) = ToSet(s) \cup {x}
    <2>1. \A y \in ToSet(t) : y \in ToSet(s) \cup {x}
      BY <1>1 DEF ToSet
    <2>2. \A y \in ToSet(s) : y \in ToSet(t)
      BY <1>1 DEF ToSet
    <2>3. x \in ToSet(t)
      BY <1>1 DEF ToSet
    <2> QED BY <2>1, <2>2, <2>3
  <1>4. \A y \in ToSet(s) : Head(s) = y => Head(t) = y
    <2> SUFFICES ASSUME NEW y \in ToSet(s), Head(s) = y PROVE Head(t) = y
      OBVIOUS
    <2>1. Len(s) > 0
      BY <1>1 DEF ToSet
    <2> QED BY <1>1, <2>1
  <1> QED BY <1>1, <1>2, <1>3, <1>4 DEF t

LEMMA Left ==
    ASSUME NEW S, NEW s \in Seq(S), IsInjective(s), NEW i \in DOMAIN s
    PROVE  /\ RemoveAt(s, i) \in Seq(S) /\ IsInjective(RemoveAt(s, i))
           /\ ToSet(RemoveAt(s, i)) = ToSet(s) \ {s[i]}
           /\ \A y \in ToSet(s) \ {s[i]} : Head(s) = y => Head(RemoveAt(s, i)) = y
  <1> DEFINE t == RemoveAt(s, i)
  <1>1. /\ t \in Seq(S) /\ Len(t) = Len(s) - 1 /\ Len(s) \in Nat /\ i \in 1..Len(s)
        /\ DOMAIN t = 1..Len(t) /\ DOMAIN s = 1..Len(s)
        /\ \A j \in 1..Len(t) : t[j] = IF j < i THEN s[j] ELSE s[j + 1]
    <2> DEFINE a == SubSeq(s, 1, i - 1)
               b == SubSeq(s, i + 1, Len(s))
    <2>1. i \in 1..Len(s) /\ Len(s) \in Nat /\ DOMAIN s = 1..Len(s)
      OBVIOUS
    <2>2. a \in Seq(S) /\ Len(a) = i - 1 /\ \A j \in 1..(i - 1) : a[j] = s[j]
      BY <2>1
    <2>3. b \in Seq(S) /\ Len(b) = Len(s) - i /\ \A j \in 1..(Len(s) - i) : b[j] = s[i + j]
      BY <2>1
    <2>4. t = a \o b
      BY DEF RemoveAt
    <2> HIDE DEF a, b, t
    <2>a. /\ t \in Seq(S) /\ Len(t) = Len(a) + Len(b)
          /\ \A j \in 1..(Len(a) + Len(b)) : t[j] = IF j <= Len(a) THEN a[j] ELSE b[j - Len(a)]
      BY <2>2, <2>3, <2>4, ConcatProperties, Zenon
    <2>5. /\ t \in Seq(S) /\ Len(t) = Len(s) - 1
          /\ \A j \in 1..Len(t) : t[j] = IF j <= i - 1 THEN a[j] ELSE b[j - (i - 1)]
      BY <2>1, <2>2, <2>3, <2>a
    <2>6. ASSUME NEW j \in 1..Len(t) PROVE t[j] = IF j < i THEN s[j] ELSE s[j + 1]
      <3>1. CASE j < i
        <4>1. j \in 1..(i - 1) /\ j <= i - 1
          BY <2>1, <2>5, <3>1
        <4>2. t[j] = a[j]
          BY <2>5, <4>1
        <4>3. a[j] = s[j]
          BY <2>2, <4>1
        <4> QED BY <3>1, <4>2, <4>3
      <3>2. CASE ~(j < i)
        <4> DEFINE k == j - (i - 1)
        <4>1. k \in 1..(Len(s) - i) /\ i + k = j + 1
          BY <2>1, <2>5, <3>2
        <4>2. t[j] = b[k]
          BY <2>1, <2>5, <3>2
        <4>3. b[k] = s[i + k]
          BY <2>3, <4>1
        <4> QED BY <3>2, <4>1, <4>2, <4>3
      <3> QED BY <3>1, <3>2
    <2> QED BY <2>1, <2>5, <2>6
  <1> HIDE DEF t
  <1>2. IsInjective(t)
    <2> SUFFICES ASSUME NEW j \in 1..Len(t), NEW k \in 1..Len(t), t[j] = t[k]
                 PROVE  j = k
      BY <1>1 DEF IsInjective
    <2> DEFINE from(n) == IF n < i THEN n ELSE n + 1
    <2>1. /\ from(j) \in 1..Len(s) /\ from(k) \in 1..Len(s)
          /\ s[from(j)] = s[from(k)]
      BY <1>1
    <2>2. from(j) = from(k)
      BY <1>1, <2>1 DEF IsInjective
    <2> QED BY <1>1, <2>2
  <1>3. ToSet(t) = ToSet(s) \ {s[i]}
    <2>1. ASSUME NEW j \in 1..Len(t) PROVE t[j] \in ToSet(s) \ {s[i]}
      <3> DEFINE k == IF j < i THEN j ELSE j + 1
      <3>1. k \in 1..Len(s) /\ k # i /\ t[j] = s[k]
        BY <1>1
      <3>2. s[k] # s[i] /\ s[k] \in ToSet(s)
        BY <1>1, <3>1 DEF ToSet, IsInjective
      <3> QED BY <3>1, <3>2
    <2>2. ASSUME NEW j \in 1..Len(s), j # i PROVE s[j] \in ToSet(t)
      <3>1. CASE j < i
        BY <1>1, <3>1 DEF ToSet
      <3>2. CASE j > i
        <4>1. j - 1 \in 1..Len(t) /\ t[j - 1] = s[j]
          BY <1>1, <3>2
        <4> QED BY <1>1, <4>1 DEF ToSet
      <3> QED BY <1>1, <2>2, <3>1, <3>2
    <2>3. \A y \in ToSet(s) \ {s[i]} : y \in ToSet(t)
      BY <1>1, <2>2 DEF ToSet
    <2>4. \A y \in ToSet(t) : y \in ToSet(s) \ {s[i]}
      BY <1>1, <2>1 DEF ToSet
    <2> QED BY <2>3, <2>4
  <1>4. \A y \in ToSet(s) \ {s[i]} : Head(s) = y => Head(t) = y
    <2> SUFFICES ASSUME NEW y \in ToSet(s) \ {s[i]}, Head(s) = y PROVE Head(t) = y
      OBVIOUS
    <2>1. s[1] = y /\ i # 1 /\ Len(t) >= 1
      BY <1>1
    <2> QED BY <1>1, <2>1
  <1> QED BY <1>1, <1>2, <1>3, <1>4 DEF t

\* Somebody at the terminal asks for a turn, takes it, or gives it up.
LEMMA TurnsStutter ==
    ASSUME TurnTypes, UNCHANGED <<order, caller>>,
           \/ authority' = authority
           \/ {authority, authority'} \cap {"queued", "writing"} = {}
    PROVE  TurnTypes'
  BY DEF TurnTypes, TurnsMatch

LEMMA CallerJoins ==
    ASSUME TurnTypes, NEW c \in Callers, Reserves(c)
    PROVE  TurnTypes'
  <1> USE HostAssumption DEF HostAssumption, TurnTypes, TurnsMatch
  <1>1. /\ c \notin ToSet(order) /\ order' = Append(order, c)
        /\ caller' = [caller EXCEPT ![c] = "queued"] /\ authority' = authority
    BY DEF Reserves
  <1>2. /\ order' \in Seq(Callers \cup {"authority"}) /\ IsInjective(order')
        /\ ToSet(order') = ToSet(order) \cup {c}
        /\ \A y \in ToSet(order) : Head(order) = y => Head(order') = y
    BY <1>1, Joined
  <1> QED BY <1>1, <1>2

LEMMA AuthorityJoins ==
    ASSUME TurnTypes, Applies
    PROVE  TurnTypes'
  <1> USE HostAssumption DEF HostAssumption, TurnTypes, TurnsMatch
  <1>1. CASE UNCHANGED <<authority, order>>
    BY <1>1 DEF Applies
  <1>2. CASE ~UNCHANGED <<authority, order>>
    <2>1. /\ authority = "running" /\ authority' = "queued" /\ UNCHANGED caller
          /\ order' = Append(order, "authority") /\ "authority" \notin ToSet(order)
      BY <1>2 DEF Applies
    <2>2. /\ order' \in Seq(Callers \cup {"authority"}) /\ IsInjective(order')
          /\ ToSet(order') = ToSet(order) \cup {"authority"}
          /\ \A y \in ToSet(order) : Head(order) = y => Head(order') = y
      BY <2>1, Joined
    <2> QED BY <2>1, <2>2
  <1> QED BY <1>1, <1>2

LEMMA TurnTaken ==
    ASSUME TurnTypes, NEW c \in Callers, Writes(c)
    PROVE  TurnTypes'
  <1> USE HostAssumption DEF HostAssumption, TurnTypes, TurnsMatch
  <1> QED BY DEF Writes, AtTerminal

LEMMA CallerLeaves ==
    ASSUME TurnTypes, NEW c \in Callers, Leaves(c),
           caller' = [caller EXCEPT ![c] = "out"], authority' = authority
    PROVE  TurnTypes'
  <1> USE HostAssumption DEF HostAssumption, TurnTypes, TurnsMatch
  <1>1. PICK i \in DOMAIN order : order[i] = c /\ order' = RemoveAt(order, i)
    BY DEF Leaves
  <1>2. /\ order' \in Seq(Callers \cup {"authority"}) /\ IsInjective(order')
        /\ ToSet(order') = ToSet(order) \ {c}
        /\ \A y \in ToSet(order) \ {c} : Head(order) = y => Head(order') = y
    BY <1>1, Left
  <1> QED BY <1>2

LEMMA AuthorityLeaves ==
    ASSUME TurnTypes, Leaves("authority"), UNCHANGED caller, authority' = "running"
    PROVE  TurnTypes'
  <1> USE HostAssumption DEF HostAssumption, TurnTypes, TurnsMatch
  <1>1. PICK i \in DOMAIN order : order[i] = "authority" /\ order' = RemoveAt(order, i)
    BY DEF Leaves
  <1>2. /\ order' \in Seq(Callers \cup {"authority"}) /\ IsInjective(order')
        /\ ToSet(order') = ToSet(order) \ {"authority"}
        /\ \A y \in ToSet(order) \ {"authority"} : Head(order) = y => Head(order') = y
    BY <1>1, Left
  <1> QED BY <1>2

-----------------------------------------------------------------------------
(* Views.                                                                  *)

\* A view's own steps, as the new value of its record.
LEMMA ViewAt ==
    ASSUME NEW r \in View, NEW a \in {"out", "attaching", "watching", "ended"}
    PROVE  \E u \in View : /\ u = [r EXCEPT !.at = a] /\ u.at = a /\ u.since = r.since
                           /\ u.pos = r.pos /\ u.shown = r.shown
  <1>1. PICK u : u = [r EXCEPT !.at = a]
    OBVIOUS
  <1>2. u \in View /\ u.at = a /\ u.since = r.since /\ u.pos = r.pos /\ u.shown = r.shown
    BY <1>1 DEF View
  <1> QED BY <1>1, <1>2, Zenon

LEMMA ViewRead ==
    ASSUME NEW r \in View
    PROVE  \E u \in View : /\ u = [r EXCEPT !.pos = @ + 1, !.shown = @ \cup {r.pos}]
                           /\ u.at = r.at /\ u.since = r.since
                           /\ u.pos = r.pos + 1 /\ u.shown = r.shown \cup {r.pos}
  <1> DEFINE n == r.pos + 1
             S == r.shown \cup {r.pos}
  <1>1. n \in Nat /\ S \in SUBSET Nat
    BY DEF View
  <1> HIDE DEF n, S
  <1>2. PICK u : u = [r EXCEPT !.pos = n, !.shown = S]
    OBVIOUS
  <1>3. u \in View /\ u.at = r.at /\ u.since = r.since /\ u.pos = n /\ u.shown = S
    BY <1>1, <1>2 DEF View
  <1> QED BY <1>2, <1>3, Zenon DEF n, S

\* What the other lanes may do under a view that stays as it is.
LEMMA ViewsStay ==
    ASSUME LaneInv, LaneInv', ViewInv, UNCHANGED view, next' >= next, torn => torn',
           Told => Told' /\ next' = next
    PROVE  ViewInv'
  <1> SUFFICES ASSUME NEW v \in Viewers PROVE Exact(view[v])'
    BY DEF ViewInv
  <1>1. Exact(view[v]) /\ view[v] \in View
    BY DEF ViewInv
  <1> QED BY <1>1 DEF Exact, Whole, Patchy, LaneInv, LaneTypes, View

LEMMA OneView ==
    ASSUME ViewInv, NEW v \in Viewers, NEW r \in View, Exact(r),
           view' = [view EXCEPT ![v] = r], UNCHANGED <<next, torn, watcher>>
    PROVE  ViewInv'
  <1>1. view' \in [Viewers -> View]
    BY DEF ViewInv
  <1>2. \A s \in View : Exact(s) => Exact(s)'
    BY DEF Exact, Whole, Patchy, Told
  <1>3. \A w \in Viewers : view'[w] = r \/ view'[w] = view[w]
    BY DEF ViewInv
  <1>4. \A w \in Viewers : view[w] \in View /\ Exact(view[w])
    BY DEF ViewInv
  <1>5. \A w \in Viewers : Exact(view[w])'
    BY <1>2, <1>3, <1>4
  <1> QED BY <1>1, <1>5 DEF ViewInv

\* A picture is whole up to the boundary, whatever a resize has lost aside.
LEMMA PictureIsExact ==
    ASSUME LaneInv, NEW whole \in BOOLEAN, whole => available /\ through + 1 = next
    PROVE  Watching(whole) \in View /\ Exact(Watching(whole))
  <1> USE DEF LaneInv, LaneTypes, View, Exact, Whole, Patchy
  <1>1. CASE whole
    <2>1. Watching(whole) = [at |-> "watching", since |-> 1, pos |-> next, shown |-> screen]
      BY <1>1 DEF Watching
    <2>2. torn \/ screen = 1..(next - 1)
      BY <1>1 DEF ScreenOK
    <2>3. screen \subseteq 1..(next - 1)
      BY <1>1
    <2> QED BY <2>1, <2>2, <2>3
  <1>2. CASE ~whole
    <2>1. Watching(whole) = [at |-> "watching", since |-> next, pos |-> next, shown |-> {}]
      BY <1>2 DEF Watching
    <2> QED BY <2>1
  <1> QED BY <1>1, <1>2

LEMMA ViewerStep ==
    ASSUME LaneInv, ViewInv, NEW v \in Viewers, ViewerSteps(v)
    PROVE  ViewInv'
  <1> DEFINE r == view[v]
  <1>0. /\ r \in View /\ Exact(r) /\ view \in [Viewers -> View]
        /\ UNCHANGED <<next, torn, watcher>>
    BY DEF ViewInv, ViewerSteps, Attaches, Checkpoint, Unavailable, Receives, Replaced, Detaches,
           LearnsExit, hostVars, screenVars
  <1>1. CASE Attaches(v)
    <2>1. PICK u \in View : /\ u = [r EXCEPT !.at = "attaching"] /\ u.at = "attaching"
                            /\ u.since = r.since /\ u.pos = r.pos /\ u.shown = r.shown
      BY <1>0, ViewAt, ZenonT(40)
    <2>2. view' = [view EXCEPT ![v] = u]
      BY <1>0, <1>1, <2>1, Zenon DEF Attaches
    <2> QED BY <1>0, <2>1, <2>2, OneView DEF Exact
  <1>2. CASE Checkpoint(v)
    <2>1. PICK s \in BOOLEAN : view' = [view EXCEPT ![v] = Watching(available /\ s)]
      BY <1>2 DEF Checkpoint
    <2>2. available /\ s => available /\ through + 1 = next
      BY <1>2 DEF Checkpoint, AtBoundary
    <2>3. Watching(available /\ s) \in View /\ Exact(Watching(available /\ s))
      BY <2>2, PictureIsExact
    <2> QED BY <1>0, <2>1, <2>3, OneView
  <1>3. CASE Unavailable(v)
    <2>1. Watching(FALSE) \in View /\ Exact(Watching(FALSE))
      BY PictureIsExact
    <2> QED BY <1>0, <1>3, <2>1, OneView DEF Unavailable
  <1>4. CASE Receives(v)
    <2>1. r.pos \in Nat /\ r.shown \in SUBSET Nat /\ r.since \in Nat /\ next \in Nat
      BY <1>0 DEF View, LaneInv, LaneTypes
    <2>2. PICK u \in View : /\ u = [r EXCEPT !.pos = @ + 1, !.shown = @ \cup {r.pos}]
                            /\ u.at = r.at /\ u.since = r.since
                            /\ u.pos = r.pos + 1 /\ u.shown = r.shown \cup {r.pos}
      BY <1>0, ViewRead, ZenonT(40)
    <2>3. view' = [view EXCEPT ![v] = u]
      BY <1>0, <1>4, <2>2, Zenon DEF Receives
    <2>4. Exact(u)
      <3>1. r.pos < next /\ r.at = "watching"
        BY <1>4 DEF Receives
      <3>a. r.at \in {"watching", "ended"}
        BY <3>1
      <3> HIDE DEF r
      <3>2. /\ 1 <= r.since /\ r.since <= r.pos /\ r.shown \subseteq 1..(r.pos - 1)
            /\ Whole(r) \/ Patchy(r)
        BY <1>0, <3>a DEF Exact
      <3>3. u.pos = r.pos + 1 /\ u.since <= u.pos /\ u.pos <= next
        BY <2>1, <2>2, <3>1, <3>2
      <3>4. u.shown \subseteq 1..(u.pos - 1) /\ u.pos - 1 = r.pos
        BY <2>1, <2>2, <3>2
      <3>5. CASE Whole(r)
        <4>1. Whole(u)
          BY <2>1, <2>2, <3>2, <3>5 DEF Whole
        <4> QED BY <2>2, <3>1, <3>2, <3>3, <3>4, <4>1 DEF Exact
      <3>6. CASE Patchy(r)
        <4>1. Patchy(u)
          BY <2>2, <3>6 DEF Patchy
        <4> QED BY <2>2, <3>1, <3>2, <3>3, <3>4, <4>1 DEF Exact
      <3> QED BY <3>2, <3>5, <3>6
    <2> QED BY <1>0, <2>3, <2>4, OneView
  <1>5. CASE Replaced(v) \/ Detaches(v)
    <2>1. PICK u \in View : /\ view' = [view EXCEPT ![v] = u] /\ u.at \in {"out", "attaching"}
                            /\ u.since = 0 /\ u.pos = 0 /\ u.shown = {}
      <3>1. /\ Detached \in View /\ Detached.at = "out" /\ Detached.since = 0
            /\ Detached.pos = 0 /\ Detached.shown = {}
        BY DEF Detached, View
      <3>2. PICK u \in View : /\ u = [Detached EXCEPT !.at = "attaching"] /\ u.at = "attaching"
                              /\ u.since = Detached.since /\ u.pos = Detached.pos
                              /\ u.shown = Detached.shown
        BY <3>1, ViewAt, ZenonT(40)
      <3>3. CASE Replaced(v)
        <4>1. view' = [view EXCEPT ![v] = u]
          BY <3>2, <3>3, Zenon DEF Replaced
        <4> QED BY <3>1, <3>2, <4>1
      <3>4. CASE Detaches(v)
        BY <3>1, <3>4 DEF Detaches
      <3> QED BY <1>5, <3>3, <3>4
    <2>2. Exact(u)
      BY <2>1 DEF Exact, LaneInv, LaneTypes
    <2> QED BY <1>0, <2>1, <2>2, OneView
  <1>6. CASE LearnsExit(v)
    <2>1. PICK u \in View : /\ u = [r EXCEPT !.at = "ended"] /\ u.at = "ended"
                            /\ u.since = r.since /\ u.pos = r.pos /\ u.shown = r.shown
      BY <1>0, ViewAt, ZenonT(40)
    <2>2. view' = [view EXCEPT ![v] = u]
      BY <1>0, <1>6, <2>1, Zenon DEF LearnsExit
    <2>3. Exact(u)
      BY <1>0, <1>6, <2>1 DEF Exact, Whole, Patchy, LearnsExit
    <2> QED BY <1>0, <2>1, <2>2, <2>3, OneView
  <1> QED BY <1>1, <1>2, <1>3, <1>4, <1>5, <1>6 DEF ViewerSteps

-----------------------------------------------------------------------------
(* One step of the terminal.                                               *)

LEMMA InitLane == Init => LaneInv
  <1> SUFFICES ASSUME Init PROVE LaneInv
    OBVIOUS
  <1> USE HostAssumption DEF HostAssumption, Init, Failures, Chunks
  <1>1. LaneTypes
    <2>1. initialized \in BOOLEAN /\ available \in BOOLEAN
      BY Zenon
    <2>2. /\ child \in {"running", "killed", "exited"} /\ reader \in {"reading", "over"}
          /\ host \in Chunks \cup {"idle", "over"} /\ failure \in Failures \cup {None}
          /\ authority \in {"running", "asleep", "queued", "writing", "over"}
      OBVIOUS
    <2>3. /\ console \in {"open", "closed", "kept"} /\ incoming = << >> /\ next = 1 /\ asks = {} /\ through = 0
          /\ permit = FALSE /\ screen = {} /\ torn = FALSE /\ finished = FALSE
          /\ watcher = "observing"
      OBVIOUS
    <2>4. incoming \in Seq(Chunks \cup {"fault"}) /\ Len(incoming) <= QueueChunks
      BY <2>3
    <2>5. /\ next \in Nat /\ next >= 1 /\ through \in Nat /\ through < next
          /\ asks \subseteq 1..(next - 1) /\ screen \subseteq 1..through
      BY <2>3
    <2>6. /\ console \in {"open", "closed", "kept"} /\ permit \in BOOLEAN /\ torn \in BOOLEAN
          /\ finished \in BOOLEAN /\ watcher \in {"observing", "closing", "draining", "told"}
      BY <2>3
    <2> HIDE DEF Init, Failures, Chunks
    <2> QED BY <2>1, <2>2, <2>4, <2>5, <2>6, Zenon DEF LaneTypes
  <1>2. QueueOK
    BY DEF QueueOK, Faulted, InHand
  <1>3. LanesOK /\ ScreenOK /\ Lossless
    BY DEF LanesOK, ScreenOK, Lossless, Overrun, Told, Drained
  <1> QED BY <1>1, <1>2, <1>3 DEF LaneInv

LEMMA InitInv == Init => IInv
  <1> SUFFICES ASSUME Init PROVE IInv
    OBVIOUS
  <1>1. TurnTypes
    BY DEF Init, TurnTypes, TurnsMatch, IsInjective, ToSet
  <1>2. ViewInv
    BY DEF Init, ViewInv, View, Exact, Whole, Patchy, Detached
  <1> QED BY InitLane, <1>1, <1>2 DEF IInv

\* What every lane keeps to: numbers only grow, and what is told stays told.
LEMMA LaneStep ==
    ASSUME IInv, Next
    PROVE  /\ LaneInv'
           /\ next' >= next /\ (torn => torn')
           /\ Told => Told' /\ next' = next
  <1> USE DEF IInv
  <1>1. CASE LaneActions
    <2>1. LaneInv'
      BY <1>1, LaneSteps
    <2>2. next' >= next /\ (torn => torn') /\ (Told => Told' /\ next' = next)
      BY <1>1 DEF LaneActions, ChildSteps, ReaderSteps, HostSteps, AuthoritySteps, WatcherSteps,
         LaneInv, LaneTypes, LanesOK, Chunks, Told, hostVars, screenVars, endVars,
         Exits, Stops, ReadFaults, ReadEnds, Takes, Publishes, HostEnds, Applies, LosesScreen, IsOverrun, Rests,
         Wakes, Answers, AnswerDropped, AnswerWritten, AnswerUncertain, Observes, ClosesConsole, Tells,
         Reads, WriteUncertain, Resizes, ResizeLosesScreen
    <2> QED BY <2>1, <2>2
  <1>2. CASE ~LaneActions
    <2>1. UNCHANGED laneVars
      BY <1>2 DEF Next, LaneActions, Attends, ViewerSteps, laneVars, Reserves, Withdraws, Writes,
         Written, Attaches, Checkpoint, Unavailable, Receives, Replaced, Detaches, LearnsExit
    <2> QED BY <2>1, LanesStutter DEF laneVars, hostVars, screenVars, LaneInv, LaneTypes, Told
  <1> QED BY <1>1, <1>2

LEMMA TurnStep ==
    ASSUME IInv, Next
    PROVE  TurnTypes'
  <1> USE DEF IInv
  <1>1. CASE ChildSteps \/ ReaderSteps \/ HostSteps \/ WatcherSteps
    <2>1. UNCHANGED <<order, caller, authority>>
      BY <1>1 DEF ChildSteps, ReaderSteps, HostSteps, WatcherSteps, Exits, Stops, Reads,
         ReadFaults, ReadEnds, Takes, Publishes, HostEnds, Observes, ClosesConsole, Tells
    <2> QED BY <2>1, TurnsStutter
  <1>2. CASE AuthoritySteps
    <2>1. CASE LosesScreen \/ IsOverrun \/ Rests \/ Wakes
      <3>1. UNCHANGED <<order, caller>> /\ {authority, authority'} \cap {"queued", "writing"} = {}
        BY <2>1 DEF LosesScreen, IsOverrun, Rests, Wakes
      <3> QED BY <3>1, TurnsStutter
    <2>2. CASE AnswerDropped \/ AnswerWritten \/ AnswerUncertain
      BY <2>2, AuthorityLeaves DEF AnswerDropped, AnswerWritten, AnswerUncertain
    <2>3. CASE Answers
      BY <2>3 DEF Answers, TurnTypes, TurnsMatch
    <2> QED BY <1>2, <2>1, <2>2, <2>3, AuthorityJoins DEF AuthoritySteps
  <1>3. ASSUME NEW c \in Callers, Reserves(c) \/ Attends(c) PROVE TurnTypes'
    <2>1. CASE Reserves(c)
      BY <2>1, CallerJoins
    <2>2. CASE Writes(c)
      BY <2>2, TurnTaken
    <2>3. CASE \/ Withdraws(c) \/ Written(c) \/ WriteUncertain(c)
               \/ Resizes(c) \/ ResizeLosesScreen(c)
      BY <2>3, CallerLeaves DEF Withdraws, Written, WriteUncertain, Resizes, ResizeLosesScreen
    <2> QED BY <1>3, <2>1, <2>2, <2>3 DEF Attends
  <1>4. ASSUME NEW v \in Viewers, ViewerSteps(v) PROVE TurnTypes'
    BY <1>4, TurnsStutter DEF ViewerSteps, Attaches, Checkpoint, Unavailable, Receives, Replaced,
       Detaches, LearnsExit
  <1> QED BY <1>1, <1>2, <1>3, <1>4 DEF Next

LEMMA ViewStep ==
    ASSUME IInv, Next
    PROVE  ViewInv'
  <1> USE DEF IInv
  <1>1. CASE UNCHANGED view
    BY <1>1, LaneStep, ViewsStay
  <1>2. ASSUME NEW v \in Viewers, ViewerSteps(v) PROVE ViewInv'
    BY <1>2, ViewerStep
  <1>3. UNCHANGED view \/ \E v \in Viewers : ViewerSteps(v)
    BY DEF Next, Attends, Reserves, Withdraws, Writes, Written, WriteUncertain, Resizes,
       ResizeLosesScreen, ChildSteps, ReaderSteps, HostSteps, AuthoritySteps, WatcherSteps,
       Exits, Stops, ReadFaults, ReadEnds, Takes, Publishes, HostEnds, Applies, LosesScreen, IsOverrun, Rests,
       Wakes, Answers, AnswerDropped, AnswerWritten, AnswerUncertain, Observes, ClosesConsole, Tells,
       Reads
  <1> QED BY <1>1, <1>2, <1>3

LEMMA NextInv == IInv /\ [Next]_vars => IInv'
  <1> SUFFICES ASSUME IInv, [Next]_vars PROVE IInv'
    OBVIOUS
  <1>1. CASE Next
    BY <1>1, LaneStep, TurnStep, ViewStep DEF IInv
  <1>2. CASE UNCHANGED vars
    <2>1. LaneInv'
      <3>1. UNCHANGED laneVars
        BY <1>2 DEF vars, laneVars, hostVars, screenVars, endVars
      <3> QED BY <3>1, LanesStutter DEF IInv
    <2>2. TurnTypes'
      BY <1>2, TurnsStutter DEF IInv, vars
    <2>3. ViewInv'
      BY <1>2, <2>1, ViewsStay DEF IInv, vars, hostVars, screenVars, Told, LaneInv, LaneTypes
    <2> QED BY <2>1, <2>2, <2>3 DEF IInv
  <1> QED BY <1>1, <1>2

-----------------------------------------------------------------------------
(* The theorems.                                                           *)

(* Every reachable state satisfies the inductive invariant: lanes, turns   *)
(* and views of a terminal agree.                                          *)
THEOREM HostInvariant == Spec => []IInv
  <1>1. Init => IInv
    BY InitInv
  <1>2. IInv /\ [Next]_vars => IInv'
    BY NextInv
  <1> QED BY <1>1, <1>2, PTL DEF Spec

(* Every variable keeps its type, and the order lock lists each who waits  *)
(* for the terminal once, its holder first (operation.rs).                 *)
THEOREM HostTypeCorrect == Spec => []TypeOK
  <1>1. IInv => TypeOK
    <2> SUFFICES ASSUME IInv PROVE TypeOK
      OBVIOUS
    <2> USE HostAssumption DEF HostAssumption, IInv, LaneInv
    <2>1. incoming \in BoundedSeq(Chunks \cup {"fault"}, QueueChunks)
      <3>1. /\ incoming \in [1..Len(incoming) -> Chunks \cup {"fault"}]
            /\ Len(incoming) \in 0..QueueChunks
        BY DEF LaneTypes
      <3> QED BY <3>1 DEF BoundedSeq, SeqOf
    <2>2. next \in 1..MaxChunks + 1 /\ through \in 0..MaxChunks
      <3>1. next \in Nat /\ next >= 1 /\ through \in Nat /\ through < next /\ Len(incoming) \in Nat
        BY DEF LaneTypes
      <3>2. InHand \in 0..1 /\ (Faulted => Len(incoming) >= 1)
        BY <3>1 DEF InHand, Faulted, LaneTypes
      <3> QED BY <3>1, <3>2 DEF QueueOK
    <2>3. asks \subseteq 1..MaxChunks /\ screen \subseteq 1..MaxChunks
      BY <2>2 DEF LaneTypes
    <2>4. view \in [Viewers -> [at : {"out", "attaching", "watching", "ended"},
                                since : 0..MaxChunks + 1, pos : 0..MaxChunks + 1,
                                shown : SUBSET (1..MaxChunks)]]
      <3>1. \A v \in Viewers : /\ view[v].since \in 0..MaxChunks + 1
                               /\ view[v].pos \in 0..MaxChunks + 1
                               /\ view[v].shown \in SUBSET (1..MaxChunks)
        BY <2>2 DEF ViewInv, View, Exact, Whole, Patchy
      <3> QED BY <3>1 DEF ViewInv, View
    <2> QED BY <2>1, <2>2, <2>3, <2>4 DEF TypeOK, LaneTypes, TurnTypes
  <1> QED BY <1>1, HostInvariant, PTL

(* While input is open the authority has lost no output, whatever the      *)
(* viewers do (mod.rs:1042-1071).                                          *)
THEOREM AuthorityIsLossless == Spec => []Lossless
  <1>1. IInv => Lossless
    BY DEF IInv, LaneInv
  <1> QED BY <1>1, HostInvariant, PTL

(* A view shows exactly what its picture and its position promise          *)
(* (mod.rs:1103-1136).                                                     *)
THEOREM ViewsStayExact == Spec => []ViewsAreExact
  <1>1. IInv => ViewsAreExact
    BY DEF IInv, ViewInv, Exact, Whole, Patchy, ViewsAreExact
  <1> QED BY <1>1, HostInvariant, PTL

(* When the exit is told the reader has ended, all it accepted is          *)
(* published and the authority is done, behind only if a failure is        *)
(* recorded or the ring overran it; and a view told of the exit has         *)
(* received every chunk (mod.rs:1154-1162, 1195-1237).                      *)
THEOREM ExitComesLast == Spec => []ExitIsLast
  <1>1. IInv => ExitIsLast
    BY DEF IInv, LaneInv, LaneTypes, LanesOK, ViewInv, Exact, ExitIsLast, Told, Overrun
  <1> QED BY <1>1, HostInvariant, PTL

(* After a failure nothing new is written to the child, and the first      *)
(* failure is the one that stays (completion.rs:30-45).                    *)
THEOREM FailureStays == Spec => FailureIsFinal
  <1>1. IInv /\ [Next]_vars =>
            [failure # None =>
                /\ failure' = failure
                /\ authority' = "writing" => authority = "writing"
                /\ \A c \in Callers : caller'[c] = "writing" => caller[c] = "writing"]_vars
    <2> SUFFICES ASSUME IInv, Next, failure # None
                 PROVE  /\ failure' = failure
                        /\ authority' = "writing" => authority = "writing"
                        /\ \A c \in Callers : caller'[c] = "writing" => caller[c] = "writing"
      OBVIOUS
    <2>1. /\ initialized => finished
          /\ ~initialized => authority = "over"
          /\ caller \in [Callers -> {"out", "queued", "writing"}]
      BY DEF IInv, LaneInv, LanesOK, TurnTypes
    <2>2. failure' = failure
      BY DEF Next, ChildSteps, ReaderSteps, HostSteps, AuthoritySteps, WatcherSteps, Attends,
         ViewerSteps, Fail, hostVars, screenVars, endVars,
         Exits, Stops, Reads, ReadFaults, ReadEnds, Takes, Publishes, HostEnds, Applies,
         LosesScreen, IsOverrun, Rests, Wakes, Answers, AnswerDropped, AnswerWritten,
         AnswerUncertain, Observes, ClosesConsole, Tells, Reserves, Withdraws, Writes, Written,
         WriteUncertain, Resizes, ResizeLosesScreen, Attaches, Checkpoint, Unavailable,
         Receives, Replaced, Detaches, LearnsExit
    <2>3. authority' = "writing" => authority = "writing"
      BY <2>1 DEF Next, ChildSteps, ReaderSteps, HostSteps, AuthoritySteps, WatcherSteps, Attends,
         ViewerSteps,
         Exits, Stops, Reads, ReadFaults, ReadEnds, Takes, Publishes, HostEnds, Applies,
         LosesScreen, IsOverrun, Rests, Wakes, Answers, AnswerDropped, AnswerWritten,
         AnswerUncertain, Observes, ClosesConsole, Tells, Reserves, Withdraws, Writes, Written,
         WriteUncertain, Resizes, ResizeLosesScreen, Attaches, Checkpoint, Unavailable,
         Receives, Replaced, Detaches, LearnsExit
    <2>4. \A c \in Callers : caller'[c] = "writing" => caller[c] = "writing"
      BY <2>1 DEF Next, ChildSteps, ReaderSteps, HostSteps, AuthoritySteps, WatcherSteps, Attends,
         ViewerSteps, AtTerminal,
         Exits, Stops, Reads, ReadFaults, ReadEnds, Takes, Publishes, HostEnds, Applies,
         LosesScreen, IsOverrun, Rests, Wakes, Answers, AnswerDropped, AnswerWritten,
         AnswerUncertain, Observes, ClosesConsole, Tells, Reserves, Withdraws, Writes, Written,
         WriteUncertain, Resizes, ResizeLosesScreen, Attaches, Checkpoint, Unavailable,
         Receives, Replaced, Detaches, LearnsExit
    <2> QED BY <2>2, <2>3, <2>4
  <1> QED BY <1>1, HostInvariant, PTL DEF Spec, FailureIsFinal
=============================================================================
