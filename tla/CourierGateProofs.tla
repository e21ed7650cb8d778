---------------------------- MODULE CourierGateProofs ----------------------------
(***************************************************************************)
(* Theorems about CourierGate, for every number of sessions, connections,  *)
(* messages, calls and rooms, every limit, every length of the clock, and  *)
(* with the clock set back or not.                                         *)
(***************************************************************************)
EXTENDS CourierGate, CourierProofs

\* What is known of one connection.
GoodConnection(k) ==
    /\ k \in Connection
    /\ k.at # "idle" => k.session \in Sessions
    /\ k.at = "leaving" => k.pending # None

ConnectionsOK == /\ conn \in [Conns -> Connection]
                 /\ \A c \in Conns : GoodConnection(conn[c])
                 /\ expirer \in Expirer

\* A dialogue is on in a running session only, and a session that is not born has
\* had none; a worker whose process is not launched is not born.
GatesOK ==
    /\ gate \in [Sessions -> Registered]
    /\ worker \in [Sessions -> Maybe(Worker)]
    /\ \A s \in Sessions :
          /\ gate[s].enabled => gate[s].phase = "up"
          /\ gate[s].phase = "unborn" => gate[s].activation = 0
          /\ worker[s] # None /\ worker[s].phase = "Pending" => gate[s].phase = "unborn"

IInv == /\ now \in Time
        /\ Sound(courier)
        /\ GatesOK
        /\ MailboxesMatchGate
        /\ ConnectionsOK

-----------------------------------------------------------------------------
(* Connections.                                                            *)
LEMMA ConnectionFields ==
    ASSUME NEW k \in Connection
    PROVE  /\ k.session \in Maybe(Sessions) /\ k.activation \in Nat
           /\ k.source \in Maybe(Sessions) /\ k.pending \in Maybe(CallRef)
           /\ k.due \in Nat /\ k.rung \in BOOLEAN
           /\ k.at \in {"idle", "admitted", "armed", "asleep", "leaving"}
  BY DEF Connection

LEMMA ClosedIsGood == GoodConnection(Closed)
  <1>1. PICK k : k = Closed
    OBVIOUS
  <1>2. k \in Connection /\ k.at = "idle"
    BY <1>1 DEF Closed, Connection, Maybe
  <1> QED BY <1>1, <1>2 DEF GoodConnection

\* A connection that moves to another point of its command and stays the same
\* connection stays good.
LEMMA MovedIsGood ==
    ASSUME NEW k, GoodConnection(k), k.at # "idle",
           NEW at \in {"admitted", "armed", "asleep"}, NEW rung \in BOOLEAN
    PROVE  /\ GoodConnection([k EXCEPT !.at = at])
           /\ GoodConnection([k EXCEPT !.at = at, !.rung = rung])
  <1>1. k \in Connection /\ k.session \in Sessions
    BY DEF GoodConnection
  <1>2. PICK a : a = [k EXCEPT !.at = at]
    OBVIOUS
  <1>3. a \in Connection /\ a.session = k.session /\ a.at = at
    BY <1>1, <1>2 DEF Connection
  <1>4. PICK b : b = [a EXCEPT !.rung = rung]
    OBVIOUS
  <1>5. b \in Connection /\ b.session = k.session /\ b.at = at
    BY <1>3, <1>4 DEF Connection
  <1>6. at # "leaving"
    OBVIOUS
  <1>7. GoodConnection(a) /\ GoodConnection(b)
    BY <1>1, <1>3, <1>5, <1>6 DEF GoodConnection
  <1> QED BY <1>2, <1>4, <1>7

LEMMA RungIsGood ==
    ASSUME ConnectionsOK, NEW c \in Conns
    PROVE  GoodConnection(Rung(c))
  <1>1. GoodConnection(conn[c]) /\ conn[c] \in Connection
    BY DEF ConnectionsOK
  <1>2. CASE conn[c].at \in {"armed", "asleep"}
    <2>1. PICK k, a : k = conn[c] /\ a = [k EXCEPT !.rung = TRUE]
      OBVIOUS
    <2>2. a \in Connection /\ a.session = k.session /\ a.at = k.at /\ a.pending = k.pending
      BY <1>1, <2>1 DEF Connection
    <2>3. GoodConnection(a)
      BY <1>1, <2>1, <2>2 DEF GoodConnection
    <2> QED BY <1>2, <2>1, <2>3 DEF Rung
  <1>3. CASE conn[c].at \notin {"armed", "asleep"}
    BY <1>1, <1>3 DEF Rung
  <1> QED BY <1>2, <1>3

LEMMA LeftIsGood ==
    ASSUME ConnectionsOK, NEW c \in Conns, conn[c].at # "idle"
    PROVE  GoodConnection(Left(c))
  <1>1. CASE conn[c].pending = None
    BY <1>1, ClosedIsGood DEF Left
  <1>2. CASE conn[c].pending # None
    <2>1. PICK k : k = conn[c] /\ GoodConnection(k)
      BY DEF ConnectionsOK
    <2>2. k \in Connection /\ k.session \in Sessions
      BY <2>1 DEF GoodConnection
    <2>3. PICK half : half = [k EXCEPT !.at = "leaving"]
      OBVIOUS
    <2>4. PICK a : a = [half EXCEPT !.rung = FALSE]
      OBVIOUS
    <2>5. half \in Connection /\ half.session = k.session /\ half.pending = k.pending
      BY <2>2, <2>3 DEF Connection
    <2>6. a \in Connection /\ a.session = k.session /\ a.pending = k.pending
      BY <2>4, <2>5 DEF Connection
    <2>7. GoodConnection(a)
      BY <1>2, <2>1, <2>2, <2>6 DEF GoodConnection
    <2> QED BY <1>2, <2>1, <2>3, <2>4, <2>7 DEF Left
  <1> QED BY <1>1, <1>2

LEMMA WaitingIsGood ==
    ASSUME ConnectionsOK, NEW c \in Conns, conn[c].at # "idle",
           NEW source \in Maybe(Sessions), NEW ref \in Maybe(CallRef), NEW due \in Nat
    PROVE  GoodConnection(Waiting(c, source, ref, due))
  <1>1. PICK k : k = conn[c] /\ GoodConnection(k)
    BY DEF ConnectionsOK
  <1>2. k \in Connection /\ k.session \in Sessions
    BY <1>1 DEF GoodConnection
  <1>3. PICK a : a = Waiting(c, source, ref, due)
    OBVIOUS
  <1>4. a \in Connection /\ a.session = k.session /\ a.at = "armed"
    BY <1>1, <1>2, <1>3 DEF Waiting, Connection
  <1> QED BY <1>2, <1>3, <1>4 DEF GoodConnection

LEMMA RingedExpirer ==
    ASSUME ConnectionsOK, RingExpirer
    PROVE  expirer' \in Expirer
  <1>1. PICK e : e = expirer /\ e \in Expirer
    BY DEF ConnectionsOK
  <1>2. PICK t : t = (e.at = "asleep") /\ t \in BOOLEAN
    OBVIOUS
  <1>3. expirer' = [e EXCEPT !.rung = t]
    BY <1>1, <1>2 DEF RingExpirer
  <1> QED BY <1>1, <1>2, <1>3 DEF Expirer

LEMMA NotifyKeeps ==
    ASSUME ConnectionsOK, NEW c \in Conns, NEW k, GoodConnection(k), Notify(c, k)
    PROVE  ConnectionsOK'
  <1>1. conn' = [x \in Conns |-> IF x = c THEN k ELSE Rung(x)]
    BY DEF Notify
  <1>2. ASSUME NEW x \in Conns
        PROVE  GoodConnection(conn'[x]) /\ conn'[x] \in Connection
    <2>1. conn'[x] = k \/ conn'[x] = Rung(x)
      BY <1>1
    <2> QED BY <2>1, RungIsGood DEF GoodConnection
  <1>3. expirer' \in Expirer
    BY RingedExpirer DEF Notify
  <1>4. conn' \in [Conns -> Connection]
    BY <1>1, <1>2
  <1> QED BY <1>2, <1>3, <1>4 DEF ConnectionsOK

LEMMA NotifyAllKeeps ==
    ASSUME ConnectionsOK, conn' = [x \in Conns |-> Rung(x)], expirer' \in Expirer
    PROVE  ConnectionsOK'
  <1>1. ASSUME NEW x \in Conns
        PROVE  GoodConnection(conn'[x]) /\ conn'[x] \in Connection
    <2>1. conn'[x] = Rung(x)
      OBVIOUS
    <2> QED BY <2>1, RungIsGood DEF GoodConnection
  <1>2. conn' \in [Conns -> Connection]
    BY <1>1
  <1> QED BY <1>1, <1>2 DEF ConnectionsOK

LEMMA QuietlyKeeps ==
    ASSUME ConnectionsOK, NEW c \in Conns, NEW k, GoodConnection(k), Quietly(c, k)
    PROVE  ConnectionsOK'
  <1>1. conn' = [conn EXCEPT ![c] = k] /\ expirer' = expirer
    BY DEF Quietly
  <1>2. conn \in [Conns -> Connection] /\ k \in Connection /\ expirer \in Expirer
    BY DEF ConnectionsOK, GoodConnection
  <1>3. conn' \in [Conns -> Connection]
    BY <1>1, <1>2
  <1>4. ASSUME NEW x \in Conns
        PROVE  GoodConnection(conn'[x])
    <2>1. conn'[x] = IF x = c THEN k ELSE conn[x]
      BY <1>1, <1>2
    <2>2. GoodConnection(conn[x])
      BY DEF ConnectionsOK
    <2> QED BY <2>1, <2>2
  <1> QED BY <1>1, <1>2, <1>3, <1>4 DEF ConnectionsOK

LEMMA AfterSweepKeeps ==
    ASSUME ConnectionsOK, NEW c \in Conns, NEW k, GoodConnection(k),
           NEW itself, GoodConnection(itself), AfterSweep(c, k, itself)
    PROVE  ConnectionsOK'
  BY NotifyKeeps, QuietlyKeeps DEF AfterSweep

-----------------------------------------------------------------------------
(* The courier under the lock.                                             *)

\* What moves mail between the mailboxes there are keeps them to their gates.
LEMMA MailMoves ==
    ASSUME IInv, SameBoxes(courier, courier'), UNCHANGED <<gate, worker>>
    PROVE  GatesOK' /\ MailboxesMatchGate'
  <1>1. GatesOK'
    BY DEF IInv, GatesOK
  <1>2. ASSUME NEW s \in Sessions
        PROVE  /\ IsLive(courier', s) <=> gate'[s].enabled
               /\ courier'.box[s] # None /\ ~gate'[s].enabled =>
                     worker'[s] # None /\ gate'[s].phase # "gone" /\ gate'[s].activation = 0
    <2>1. /\ courier'.box[s] = None <=> courier.box[s] = None
          /\ courier.box[s] # None => courier'.box[s].ready = courier.box[s].ready
      BY DEF SameBoxes
    <2>2. /\ IsLive(courier, s) <=> gate[s].enabled
          /\ courier.box[s] # None /\ ~gate[s].enabled =>
                worker[s] # None /\ gate[s].phase # "gone" /\ gate[s].activation = 0
      BY DEF IInv, MailboxesMatchGate
    <2> QED BY <2>1, <2>2 DEF IsLive
  <1> QED BY <1>1, <1>2 DEF MailboxesMatchGate

LEMMA SweptIsSound ==
    ASSUME IInv
    PROVE  Sound(Swept) /\ SameBoxes(courier, Swept)
  <1>1. Sound(courier)
    BY DEF IInv
  <1>2. PICK d : d = Sweep(courier, now)
    OBVIOUS
  <1>3. Sound(d) /\ Lighter(courier, d)
    BY <1>1, <1>2, SweepEffect
  <1> QED BY <1>2, <1>3, LighterHasSameBoxes DEF Swept

\* A step of a connection under the lock.
LEMMA LockedStep ==
    ASSUME IInv, now' = now, UNCHANGED <<gate, worker>>,
           Sound(courier'), SameBoxes(courier, courier'), ConnectionsOK'
    PROVE  IInv'
  BY MailMoves DEF IInv

LEMMA AdmittedSession ==
    ASSUME IInv, NEW c \in Conns, conn[c].at # "idle"
    PROVE  conn[c].session \in Sessions /\ conn[c] \in Connection
  BY DEF IInv, ConnectionsOK, GoodConnection

-----------------------------------------------------------------------------
(* Sessions.                                                               *)
LEMMA InitKeeps == Init => IInv
  <1> SUFFICES ASSUME Init PROVE IInv
    OBVIOUS
  <1>1. now \in Time
    BY GateAssumption DEF Init, Time
  <1>2. Sound(courier) /\ \A s \in Sessions : courier.box[s] = None
    BY NewCourierIsSound DEF Init
  <1>3. GatesOK
    <2>1. /\ gate \in [Sessions -> Registered]
          /\ \A s \in Sessions : gate[s].enabled = FALSE /\ gate[s].activation = 0
      BY DEF Init, Registered
    <2>2. /\ worker \in [Sessions -> Maybe(Worker)]
          /\ \A s \in Sessions : worker[s] = None
      BY DEF Init, Maybe
    <2> QED BY <2>1, <2>2 DEF GatesOK
  <1>4. MailboxesMatchGate
    BY <1>2 DEF Init, MailboxesMatchGate, IsLive
  <1>5. ConnectionsOK
    <2>1. GoodConnection(Closed) /\ Closed \in Connection
      BY ClosedIsGood DEF GoodConnection
    <2>2. expirer \in Expirer
      BY DEF Init, Expirer, Maybe
    <2> QED BY <2>1, <2>2 DEF Init, ConnectionsOK
  <1> QED BY <1>1, <1>2, <1>3, <1>4, <1>5 DEF IInv

\* What the gate of a session says of its mailbox.
MatchesGate(s) ==
    /\ IsLive(courier, s) <=> gate[s].enabled
    /\ courier.box[s] # None /\ ~gate[s].enabled =>
          worker[s] # None /\ gate[s].phase # "gone" /\ gate[s].activation = 0

GateOK(s) ==
    /\ gate[s].enabled => gate[s].phase = "up"
    /\ gate[s].phase = "unborn" => gate[s].activation = 0
    /\ worker[s] # None /\ worker[s].phase = "Pending" => gate[s].phase = "unborn"

\* A step about one session: the others keep their gate, worker and mailbox.
LEMMA OneSession ==
    ASSUME IInv, NEW s \in Sessions, now' = now, Sound(courier'), ConnectionsOK',
           gate' \in [Sessions -> Registered], worker' \in [Sessions -> Maybe(Worker)],
           \A x \in Sessions \ {s} :
              /\ gate'[x] = gate[x] /\ worker'[x] = worker[x]
              /\ courier'.box[x] = None <=> courier.box[x] = None
              /\ courier.box[x] # None => courier'.box[x].ready = courier.box[x].ready,
           GateOK(s)', MatchesGate(s)'
    PROVE  IInv'
  <1>1. now' \in Time
    BY DEF IInv
  <1>2. GatesOK'
    <2>1. ASSUME NEW x \in Sessions
          PROVE  GateOK(x)'
      <3>1. CASE x = s
        BY <3>1
      <3>2. CASE x # s
        <4>1. GateOK(x)
          BY DEF IInv, GatesOK, GateOK
        <4>2. gate'[x] = gate[x] /\ worker'[x] = worker[x]
          BY <3>2
        <4> QED BY <4>1, <4>2 DEF GateOK
      <3> QED BY <3>1, <3>2
    <2> QED BY <2>1 DEF GatesOK, GateOK
  <1>3. MailboxesMatchGate'
    <2>1. ASSUME NEW x \in Sessions
          PROVE  MatchesGate(x)'
      <3>1. CASE x = s
        BY <3>1
      <3>2. CASE x # s
        <4>1. MatchesGate(x)
          BY DEF IInv, MailboxesMatchGate, MatchesGate
        <4>2. /\ gate'[x] = gate[x] /\ worker'[x] = worker[x]
              /\ courier'.box[x] = None <=> courier.box[x] = None
              /\ courier.box[x] # None => courier'.box[x].ready = courier.box[x].ready
          BY <3>2
        <4> QED BY <4>1, <4>2 DEF MatchesGate, IsLive
      <3> QED BY <3>1, <3>2
    <2> QED BY <2>1 DEF MailboxesMatchGate, MatchesGate
  <1> QED BY <1>1, <1>2, <1>3 DEF IInv

LEMMA SessionFacts ==
    ASSUME IInv, NEW s \in Sessions
    PROVE  /\ gate \in [Sessions -> Registered] /\ gate[s] \in Registered
           /\ worker \in [Sessions -> Maybe(Worker)] /\ worker[s] \in Maybe(Worker)
           /\ GateOK(s) /\ MatchesGate(s) /\ Sound(courier) /\ ConnectionsOK
  BY DEF IInv, GatesOK, GateOK, MailboxesMatchGate, MatchesGate

LEMMA NotifiedAll ==
    ASSUME IInv, NotifyAll
    PROVE  ConnectionsOK'
  <1>1. ConnectionsOK
    BY DEF IInv
  <1>2. expirer' \in Expirer
    BY <1>1, RingedExpirer DEF NotifyAll
  <1> QED BY <1>1, <1>2, NotifyAllKeeps DEF NotifyAll

LEMMA LaunchKeeps == ASSUME IInv, NEW s \in Sessions, Launch(s) PROVE IInv'
  <1>1. PICK g : g = gate[s] /\ g \in Registered
    BY SessionFacts
  <1>2. PICK h : h = [g EXCEPT !.phase = "up"]
    OBVIOUS
  <1>3. h \in Registered /\ h.phase = "up" /\ h.enabled = g.enabled /\ h.activation = g.activation
    BY <1>1, <1>2 DEF Registered
  <1>4. /\ gate' = [gate EXCEPT ![s] = h]
        /\ now' = now /\ courier' = courier /\ worker' = worker
    BY <1>1, <1>2 DEF Launch
  <1>5. /\ gate' \in [Sessions -> Registered] /\ gate'[s] = h
        /\ \A x \in Sessions \ {s} : gate'[x] = gate[x]
    BY <1>3, <1>4, SessionFacts
  <1>6. ConnectionsOK'
    BY NotifiedAll DEF Launch
  <1>7. GateOK(s)' /\ MatchesGate(s)'
    <2>1. GateOK(s) /\ MatchesGate(s)
      BY SessionFacts
    <2>2. worker[s] = None /\ g.phase = "unborn"
      BY <1>1 DEF Launch
    <2> QED BY <1>1, <1>3, <1>4, <1>5, <2>1, <2>2 DEF GateOK, MatchesGate
  <1>8. Sound(courier') /\ worker' \in [Sessions -> Maybe(Worker)]
    BY <1>4, SessionFacts
  <1> QED BY <1>4, <1>5, <1>6, <1>7, <1>8, OneSession

LEMMA SetDialogueKeeps == ASSUME IInv, NEW s \in Sessions, SetDialogue(s) PROVE IInv'
  <1>1. PICK g : g = gate[s] /\ g \in Registered
    BY SessionFacts
  <1>2. PICK n, t : n = g.activation + 1 /\ t = ~g.enabled
    OBVIOUS
  <1>3. PICK half : half = [g EXCEPT !.activation = n]
    OBVIOUS
  <1>4. PICK h : h = [half EXCEPT !.enabled = t]
    OBVIOUS
  <1>5. /\ h \in Registered /\ h.phase = g.phase /\ h.enabled = t /\ h.activation = n
        /\ half.enabled = g.enabled
    <2>1. n \in Nat /\ t \in BOOLEAN
      BY <1>1, <1>2 DEF Registered
    <2>2. half \in Registered /\ half.phase = g.phase /\ half.activation = n /\ half.enabled = g.enabled
      BY <1>1, <1>3, <2>1 DEF Registered
    <2> QED BY <1>4, <2>1, <2>2 DEF Registered
  <1>6. gate' = [gate EXCEPT ![s] = h] /\ now' = now /\ worker' = worker
    <2>1. PICK gate1 : gate1 = [gate EXCEPT ![s] = half]
      OBVIOUS
    <2>2. gate1[s] = half
      BY <2>1, SessionFacts
    <2>3. gate1 = [gate EXCEPT ![s].activation = @ + 1]
      BY <1>1, <1>2, <1>3, <2>1
    <2>4. gate' = [gate1 EXCEPT ![s].enabled = ~@]
      BY <2>3 DEF SetDialogue
    <2>5. gate' = [gate1 EXCEPT ![s] = h]
      BY <1>2, <1>4, <1>5, <2>2, <2>4
    <2>6. [gate1 EXCEPT ![s] = h] = [gate EXCEPT ![s] = h]
      BY <2>1, SessionFacts
    <2> QED BY <2>5, <2>6 DEF SetDialogue
  <1>7. /\ gate' \in [Sessions -> Registered] /\ gate'[s] = h
        /\ \A x \in Sessions \ {s} : gate'[x] = gate[x]
    BY <1>5, <1>6, SessionFacts
  <1>8. ConnectionsOK'
    BY NotifiedAll DEF SetDialogue
  <1>9. GateOK(s) /\ MatchesGate(s) /\ Sound(courier) /\ worker \in [Sessions -> Maybe(Worker)]
    BY SessionFacts
  <1>10. g.phase = "up"
    BY <1>1 DEF SetDialogue
  <1>11. GateOK(s)'
    BY <1>1, <1>5, <1>6, <1>7, <1>9, <1>10 DEF GateOK
  <1>12. CASE g.enabled
    <2>1. courier' = SessionEnded(courier, s)
      BY <1>1, <1>12 DEF SetDialogue
    <2>2. Sound(courier') /\ LighterBut(courier, courier', s)
      BY <1>9, <2>1, SessionEndedEffect
    <2>3. courier'.box[s] = None /\ ~t
      BY <1>2, <1>12, <2>2 DEF LighterBut
    <2>4. MatchesGate(s)'
      BY <1>5, <1>7, <2>3 DEF MatchesGate, IsLive
    <2>5. \A x \in Sessions \ {s} :
             /\ courier'.box[x] = None <=> courier.box[x] = None
             /\ courier.box[x] # None => courier'.box[x].ready = courier.box[x].ready
      BY <2>2 DEF LighterBut
    <2> QED BY <1>6, <1>7, <1>8, <1>9, <1>11, <2>2, <2>4, <2>5, OneSession
  <1>13. CASE ~g.enabled
    <2>1. courier' = SessionStarted(courier, s)
      BY <1>1, <1>13 DEF SetDialogue
    <2>2. Started(courier, s, courier')
      BY <1>9, <2>1, SessionStartedEffect, Zenon
    <2>3. Sound(courier') /\ Gains(courier, courier', s, TRUE)
      BY <2>2 DEF Started
    <2>4. courier'.box[s] # None /\ courier'.box[s].ready = TRUE /\ t
      BY <1>2, <1>13, <2>3 DEF Gains
    <2>5. MatchesGate(s)'
      BY <1>5, <1>7, <2>4 DEF MatchesGate, IsLive
    <2>6. \A x \in Sessions \ {s} :
             /\ courier'.box[x] = None <=> courier.box[x] = None
             /\ courier.box[x] # None => courier'.box[x].ready = courier.box[x].ready
      BY <2>3 DEF Gains
    <2> QED BY <1>6, <1>7, <1>8, <1>9, <1>11, <2>3, <2>5, <2>6, OneSession
  <1> QED BY <1>12, <1>13

LEMMA ForgetKeeps == ASSUME IInv, NEW s \in Sessions, Forget(s) PROVE IInv'
  <1>1. PICK h : h = [phase |-> "gone", activation |-> 0, enabled |-> FALSE]
    OBVIOUS
  <1>2. h \in Registered /\ h.phase = "gone" /\ ~h.enabled
    BY <1>1 DEF Registered
  <1>3. /\ gate' = [gate EXCEPT ![s] = h] /\ courier' = SessionEnded(courier, s)
        /\ now' = now /\ worker' = worker
    BY <1>1 DEF Forget
  <1>4. /\ gate' \in [Sessions -> Registered] /\ gate'[s] = h
        /\ \A x \in Sessions \ {s} : gate'[x] = gate[x]
    BY <1>2, <1>3, SessionFacts
  <1>5. ConnectionsOK'
    BY NotifiedAll DEF Forget
  <1>6. /\ GateOK(s) /\ Sound(courier) /\ worker \in [Sessions -> Maybe(Worker)]
        /\ gate[s].phase = "up"
    BY SessionFacts DEF Forget
  <1>7. Sound(courier') /\ LighterBut(courier, courier', s)
    BY <1>3, <1>6, SessionEndedEffect
  <1>8. courier'.box[s] = None
    BY <1>7 DEF LighterBut
  <1>9. GateOK(s)' /\ MatchesGate(s)'
    BY <1>2, <1>3, <1>4, <1>6, <1>8 DEF GateOK, MatchesGate, IsLive
  <1>10. \A x \in Sessions \ {s} :
            /\ courier'.box[x] = None <=> courier.box[x] = None
            /\ courier.box[x] # None => courier'.box[x].ready = courier.box[x].ready
    BY <1>7 DEF LighterBut
  <1> QED BY <1>3, <1>4, <1>5, <1>6, <1>7, <1>9, <1>10, OneSession


LEMMA ClosesLoudly ==
    ASSUME IInv, NEW c \in Conns, Notify(c, Closed)
    PROVE  ConnectionsOK'
  BY NotifyKeeps, ClosedIsGood DEF IInv

LEMMA ClosesQuietly ==
    ASSUME IInv, NEW c \in Conns, Quietly(c, Closed)
    PROVE  ConnectionsOK'
  BY QuietlyKeeps, ClosedIsGood DEF IInv

\* The mail of a worker that is about to be born is a message to it.
LEMMA InitialMailIsMail ==
    ASSUME NEW s \in Sessions, NEW w \in Sessions, NEW e \in InitialMail(s, w)
    PROVE  e \in Envelope /\ e.target = w
  <1>1. Time \subseteq Nat /\ Sizes \subseteq Nat
    BY GateAssumption DEF Time
  <1>2. PICK m \in Messages, k \in Calls, d \in Time, n \in Sizes :
           e = [id |-> m, call |-> k, kind |-> "Tell", source |-> s, target |-> w,
                replyTo |-> None, deadline |-> d, size |-> n, room |-> None]
    BY DEF InitialMail
  <1> QED BY <1>1, <1>2 DEF Envelope, Kinds, Maybe

LEMMA ReserveSpawnKeeps ==
    ASSUME IInv, NEW c \in Conns, NEW w \in Sessions, ReserveSpawn(c, w)
    PROVE  IInv'
  <1>1. PICK k : k = conn[c]
    OBVIOUS
  <1>2. k \in Connection /\ k.session \in Sessions
    <2>1. conn[c].at = "admitted"
      BY DEF ReserveSpawn
    <2> QED BY <1>1, <2>1, AdmittedSession
  <1>3. PICK r : r = [lead |-> k.session, phase |-> "Pending", activation |-> k.activation]
    OBVIOUS
  <1>4. r \in Worker /\ r # None /\ r.phase = "Pending"
    BY <1>2, <1>3, ConnectionFields, WorkerAssumption DEF Worker
  <1>5. /\ worker' = [worker EXCEPT ![w] = r] /\ gate' = gate /\ now' = now
        /\ gate[w].phase = "unborn" /\ worker[w] = None
    BY <1>1, <1>3 DEF ReserveSpawn
  <1>6. /\ worker' \in [Sessions -> Maybe(Worker)] /\ worker'[w] = r
        /\ \A x \in Sessions \ {w} : worker'[x] = worker[x]
    BY <1>4, <1>5, SessionFacts DEF Maybe
  <1>7. ConnectionsOK'
    BY ClosesLoudly DEF ReserveSpawn
  <1>8. /\ GateOK(w) /\ MatchesGate(w) /\ Sound(courier)
        /\ gate' \in [Sessions -> Registered]
    BY <1>5, SessionFacts
  <1>9. gate[w].enabled = FALSE /\ gate[w].activation = 0
    <2>1. gate[w] \in Registered
      BY SessionFacts
    <2> QED BY <1>5, <1>8, <2>1 DEF GateOK, Registered
  <1>10. courier.box[w] = None
    BY <1>5, <1>8, <1>9 DEF MatchesGate
  <1>11. GateOK(w)'
    BY <1>5, <1>8, <1>9 DEF GateOK
  <1>12. CASE courier' = courier
    <2>1. MatchesGate(w)'
      BY <1>5, <1>9, <1>10, <1>12 DEF MatchesGate, IsLive
    <2>2. \A x \in Sessions \ {w} :
             /\ courier'.box[x] = None <=> courier.box[x] = None
             /\ courier.box[x] # None => courier'.box[x].ready = courier.box[x].ready
      BY <1>12
    <2> QED BY <1>5, <1>6, <1>7, <1>8, <1>11, <1>12, <2>1, <2>2, OneSession
  <1>13. ASSUME NEW e \in InitialMail(k.session, w), AcceptsInitial(courier, e, now),
                courier' = ReserveInitial(courier, e)
         PROVE  IInv'
    <2>1. e \in Envelope /\ e.target = w
      BY <1>2, InitialMailIsMail
    <2>2. Sound(courier') /\ Gains(courier, courier', e.target, FALSE)
      BY <1>8, <1>13, <2>1, ReserveInitialEffect, Zenon
    <2>3. courier'.box[w] # None /\ courier'.box[w].ready = FALSE
      BY <2>1, <2>2 DEF Gains
    <2>4. MatchesGate(w)'
      BY <1>4, <1>5, <1>6, <1>9, <2>3 DEF MatchesGate, IsLive
    <2>5. \A x \in Sessions \ {w} :
             /\ courier'.box[x] = None <=> courier.box[x] = None
             /\ courier.box[x] # None => courier'.box[x].ready = courier.box[x].ready
      BY <2>1, <2>2 DEF Gains
    <2> QED BY <1>5, <1>6, <1>7, <1>8, <1>11, <2>2, <2>4, <2>5, OneSession
  <1>14. \/ courier' = courier
         \/ \E e \in InitialMail(k.session, w) :
               AcceptsInitial(courier, e, now) /\ courier' = ReserveInitial(courier, e)
    BY <1>1 DEF ReserveSpawn
  <1> QED BY <1>12, <1>13, <1>14

LEMMA LaunchWorkerKeeps == ASSUME IInv, NEW w \in Sessions, LaunchWorker(w) PROVE IInv'
  <1>1. PICK g, k : g = gate[w] /\ g \in Registered /\ k = worker[w] /\ k \in Worker
    BY SessionFacts DEF LaunchWorker, Maybe
  <1>2. PICK h, l : h = [g EXCEPT !.phase = "up"] /\ l = [k EXCEPT !.phase = "Live"]
    OBVIOUS
  <1>3. h \in Registered /\ h.phase = "up" /\ h.enabled = g.enabled /\ h.activation = g.activation
    BY <1>1, <1>2 DEF Registered
  <1>4. l \in Worker /\ l # None /\ l.phase = "Live"
    BY <1>1, <1>2, WorkerAssumption DEF Worker
  <1>5. /\ gate' = [gate EXCEPT ![w] = h] /\ worker' = [worker EXCEPT ![w] = l]
        /\ now' = now /\ courier' = courier
    BY <1>1, <1>2 DEF LaunchWorker
  <1>6. /\ gate' \in [Sessions -> Registered] /\ gate'[w] = h
        /\ \A x \in Sessions \ {w} : gate'[x] = gate[x]
    BY <1>3, <1>5, SessionFacts
  <1>7. /\ worker' \in [Sessions -> Maybe(Worker)] /\ worker'[w] = l
        /\ \A x \in Sessions \ {w} : worker'[x] = worker[x]
    BY <1>4, <1>5, SessionFacts DEF Maybe
  <1>8. ConnectionsOK'
    BY NotifiedAll DEF LaunchWorker
  <1>9. GateOK(w) /\ MatchesGate(w) /\ Sound(courier)
    BY SessionFacts
  <1>10. GateOK(w)'
    BY <1>1, <1>3, <1>4, <1>6, <1>7, <1>9 DEF GateOK
  <1>11. MatchesGate(w)'
    BY <1>1, <1>3, <1>4, <1>5, <1>6, <1>7, <1>9 DEF MatchesGate
  <1> QED BY <1>5, <1>6, <1>7, <1>8, <1>9, <1>10, <1>11, OneSession

LEMMA CancelSpawnKeeps == ASSUME IInv, NEW w \in Sessions, CancelSpawn(w) PROVE IInv'
  <1>1. PICK g : g = gate[w] /\ g \in Registered
    BY SessionFacts
  <1>2. PICK h : h = [g EXCEPT !.phase = "gone"]
    OBVIOUS
  <1>3. h \in Registered /\ h.phase = "gone" /\ h.enabled = g.enabled /\ h.activation = g.activation
    BY <1>1, <1>2 DEF Registered
  <1>4. /\ gate' = [gate EXCEPT ![w] = h] /\ worker' = [worker EXCEPT ![w] = None]
        /\ now' = now /\ courier' = SessionEnded(courier, w)
    BY <1>1, <1>2 DEF CancelSpawn
  <1>5. /\ gate' \in [Sessions -> Registered] /\ gate'[w] = h
        /\ \A x \in Sessions \ {w} : gate'[x] = gate[x]
    BY <1>3, <1>4, SessionFacts
  <1>6. /\ worker' \in [Sessions -> Maybe(Worker)] /\ worker'[w] = None
        /\ \A x \in Sessions \ {w} : worker'[x] = worker[x]
    BY <1>4, SessionFacts DEF Maybe
  <1>7. ConnectionsOK'
    BY NotifiedAll DEF CancelSpawn
  <1>8. GateOK(w) /\ Sound(courier) /\ worker[w] # None /\ worker[w].phase = "Pending"
    BY SessionFacts DEF CancelSpawn
  <1>9. g.enabled = FALSE
    BY <1>1, <1>8 DEF GateOK, Registered
  <1>10. Sound(courier') /\ LighterBut(courier, courier', w)
    BY <1>4, <1>8, SessionEndedEffect
  <1>11. courier'.box[w] = None
    BY <1>10 DEF LighterBut
  <1>12. GateOK(w)' /\ MatchesGate(w)'
    BY <1>3, <1>5, <1>6, <1>9, <1>11 DEF GateOK, MatchesGate, IsLive
  <1>13. \A x \in Sessions \ {w} :
            /\ courier'.box[x] = None <=> courier.box[x] = None
            /\ courier.box[x] # None => courier'.box[x].ready = courier.box[x].ready
    BY <1>10 DEF LighterBut
  <1> QED BY <1>4, <1>5, <1>6, <1>7, <1>10, <1>12, <1>13, OneSession

LEMMA EndedWorkerKeeps == ASSUME IInv, NEW w \in Sessions, EndedWorker(w) PROVE IInv'
  <1>1. /\ worker' = [worker EXCEPT ![w] = None] /\ gate[w].phase = "gone"
        /\ now' = now /\ courier' = courier /\ gate' = gate
        /\ conn' = conn /\ expirer' = expirer
    BY DEF EndedWorker
  <1>2. /\ worker' \in [Sessions -> Maybe(Worker)] /\ worker'[w] = None
        /\ \A x \in Sessions \ {w} : worker'[x] = worker[x]
    BY <1>1, SessionFacts DEF Maybe
  <1>3. /\ GateOK(w) /\ MatchesGate(w) /\ Sound(courier) /\ ConnectionsOK
        /\ gate \in [Sessions -> Registered] /\ gate[w] \in Registered
    BY SessionFacts
  <1>4. ConnectionsOK'
    BY <1>1, <1>3 DEF ConnectionsOK
  <1>5. GateOK(w)' /\ MatchesGate(w)'
    BY <1>1, <1>2, <1>3 DEF GateOK, MatchesGate
  <1> QED BY <1>1, <1>2, <1>3, <1>4, <1>5, OneSession

-----------------------------------------------------------------------------
(* Commands.                                                               *)

\* What a command does to the swept courier it does to the courier.
LEMMA AfterTheSweep ==
    ASSUME IInv, NEW d, Sound(d), SameBoxes(Swept, d)
    PROVE  Sound(d) /\ SameBoxes(courier, d)
  BY SweptIsSound, SameBoxesTransitive

LEMMA LighterAfterTheSweep ==
    ASSUME IInv, NEW d, Sound(d), Lighter(Swept, d)
    PROVE  Sound(d) /\ SameBoxes(courier, d)
  <1>1. SameBoxes(Swept, d)
    BY LighterHasSameBoxes
  <1> QED BY <1>1, AfterTheSweep

LEMMA SameCourier ==
    ASSUME IInv, courier' = courier
    PROVE  Sound(courier') /\ SameBoxes(courier, courier')
  BY DEF IInv, SameBoxes

LEMMA AdmitKeeps ==
    ASSUME IInv, NEW c \in Conns, NEW s \in Sessions, Admit(c, s)
    PROVE  IInv'
  <1>1. PICK n : n = gate[s].activation /\ n \in Nat
    <2>1. gate[s] \in Registered
      BY SessionFacts
    <2> QED BY <2>1 DEF Registered
  <1>2. PICK k : k = [Closed EXCEPT !.at = "admitted", !.session = s, !.activation = n]
    OBVIOUS
  <1>3. k = [at |-> "admitted", session |-> s, activation |-> n, source |-> None,
             pending |-> None, due |-> 0, rung |-> FALSE]
    BY <1>2 DEF Closed
  <1>4. k \in Connection /\ k.session = s /\ k.at = "admitted"
    BY <1>1, <1>3 DEF Connection, Maybe
  <1>5. GoodConnection(k)
    BY <1>4 DEF GoodConnection
  <1>6. Quietly(c, k) /\ now' = now /\ courier' = courier /\ UNCHANGED <<gate, worker>>
    BY <1>1, <1>2 DEF Admit
  <1>7. ConnectionsOK
    BY DEF IInv
  <1>8. ConnectionsOK'
    BY <1>5, <1>6, <1>7, QuietlyKeeps
  <1> QED BY <1>6, <1>8, SameCourier, LockedStep

LEMMA PostedIsMail ==
    ASSUME NEW s \in Sessions, NEW kind \in Kinds, NEW e \in Posted(s, kind)
    PROVE  e \in Envelope /\ e.kind = kind
  <1>1. Later \subseteq Nat /\ Sizes \subseteq Nat
    BY GateAssumption DEF Later, Time
  <1>2. PICK m \in Messages, k \in Calls, t \in Sessions, d \in Later, n \in Sizes :
           e = [id |-> m, call |-> k, kind |-> kind, source |-> s, target |-> t,
                replyTo |-> None, deadline |-> d, size |-> n, room |-> None]
    BY DEF Posted
  <1> QED BY <1>1, <1>2 DEF Envelope, Maybe

LEMMA AnswersAreMail ==
    ASSUME courier \in CourierType, NEW s \in Sessions, NEW e \in Answers(s)
    PROVE  e \in Envelope
  <1>1. Later \subseteq Nat /\ Sizes \subseteq Nat
    BY GateAssumption DEF Later, Time
  <1>2. PICK m \in Messages, d \in Later, n \in Sizes,
             k \in {x \in OpenCalls(courier) : courier.calls[x].target = s} :
           e = [id |-> m, call |-> k, kind |-> "Reply", source |-> s,
                target |-> courier.calls[k].source, replyTo |-> courier.calls[k].ask,
                deadline |-> d, size |-> n, room |-> None]
    BY DEF Answers
  <1>3. k \in Calls /\ courier.calls[k] # None
    BY DEF OpenCalls
  <1>4. courier.calls[k].source \in Sessions /\ courier.calls[k].ask \in Messages
    BY <1>3, CallFields
  <1> QED BY <1>1, <1>2, <1>3, <1>4 DEF Envelope, Kinds, Maybe

LEMMA CancelsAreMail ==
    ASSUME courier \in CourierType, NEW s \in Sessions, NEW e \in Cancels(s)
    PROVE  e \in Envelope
  <1>1. Later \subseteq Nat /\ Sizes \cup {0} \subseteq Nat
    BY GateAssumption DEF Later, Time
  <1>2. PICK m \in Messages, d \in Later, n \in Sizes \cup {0},
             k \in {x \in OpenCalls(courier) : courier.calls[x].source = s} :
           e = [id |-> m, call |-> k, kind |-> "Cancel", source |-> s,
                target |-> courier.calls[k].target, replyTo |-> courier.calls[k].ask,
                deadline |-> d, size |-> n, room |-> None]
    BY DEF Cancels
  <1>3. k \in Calls /\ courier.calls[k] # None
    BY <1>2 DEF OpenCalls
  <1>4. courier.calls[k].target \in Sessions /\ courier.calls[k].ask \in Messages
    BY <1>3, CallFields
  <1> QED BY <1>1, <1>2, <1>3, <1>4 DEF Envelope, Kinds, Maybe

LEMMA PostCommandKeeps == ASSUME IInv, NEW c \in Conns, PostCommand(c) PROVE IInv'
  <1>1. PICK s : s = conn[c].session
    OBVIOUS
  <1>2. PICK e \in (IF May(c, "tell") THEN Posted(s, "Tell") ELSE {})
                   \cup (IF May(c, "ask") THEN Posted(s, "Ask") ELSE {})
                   \cup (IF May(c, "answer") THEN Answers(s) ELSE {})
                   \cup (IF May(c, "cancel") THEN Cancels(s) ELSE {}) :
           Accepts(Swept, e, now) /\ courier' = Send(Swept, e)
    BY <1>1 DEF PostCommand
  <1>3. conn[c].at = "admitted"
    BY <1>2 DEF May
  <1>4. s \in Sessions
    BY <1>1, <1>3, AdmittedSession
  <1>5. courier \in CourierType
    BY DEF IInv, Sound
  <1>6. e \in Envelope
    <2>1. e \in Posted(s, "Tell") \/ e \in Posted(s, "Ask") \/ e \in Answers(s) \/ e \in Cancels(s)
      BY <1>2
    <2>2. "Tell" \in Kinds /\ "Ask" \in Kinds
      BY DEF Kinds
    <2> QED BY <1>4, <1>5, <2>1, <2>2, PostedIsMail, AnswersAreMail, CancelsAreMail
  <1>7. Sound(courier') /\ SameBoxes(Swept, courier')
    BY <1>2, <1>6, SweptIsSound, SendEffect
  <1>8. ConnectionsOK' /\ now' = now /\ UNCHANGED <<gate, worker>>
    BY ClosesLoudly DEF PostCommand
  <1> QED BY <1>7, <1>8, AfterTheSweep, LockedStep

\* A wait for the reply to an ask that was just sent.
LEMMA WaitingForReply ==
    ASSUME IInv, NEW c \in Conns, conn[c].at # "idle", NEW e \in Envelope,
           Notify(c, Waiting(c, e.target, [call |-> e.call, ask |-> e.id], e.deadline))
    PROVE  ConnectionsOK'
  <1>1. ConnectionsOK
    BY DEF IInv
  <1>2. PICK t, ref, d : t = e.target /\ ref = [call |-> e.call, ask |-> e.id] /\ d = e.deadline
    OBVIOUS
  <1>3. t \in Maybe(Sessions) /\ ref \in Maybe(CallRef) /\ d \in Nat
    BY <1>2 DEF Envelope, CallRef, Maybe
  <1>4. GoodConnection(Waiting(c, t, ref, d))
    BY <1>1, <1>3, WaitingIsGood
  <1>5. Notify(c, Waiting(c, t, ref, d))
    BY <1>2
  <1> QED BY <1>1, <1>4, <1>5, NotifyKeeps

LEMMA AskKeeps == ASSUME IInv, NEW c \in Conns, Ask(c) PROVE IInv'
  <1>1. PICK e \in Posted(conn[c].session, "Ask") :
           /\ Accepts(Swept, e, now)
           /\ courier' = Send(Swept, e)
           /\ Notify(c, Waiting(c, e.target, [call |-> e.call, ask |-> e.id], e.deadline))
    BY DEF Ask
  <1>2. conn[c].at # "idle" /\ now' = now /\ UNCHANGED <<gate, worker>>
    BY DEF Ask, May
  <1>3. e \in Envelope
    <2>1. "Ask" \in Kinds
      BY DEF Kinds
    <2> QED BY <1>2, <2>1, AdmittedSession, PostedIsMail
  <1>4. Sound(courier') /\ SameBoxes(Swept, courier')
    BY <1>1, <1>3, SweptIsSound, SendEffect
  <1>5. ConnectionsOK'
    BY <1>1, <1>2, <1>3, WaitingForReply
  <1> QED BY <1>2, <1>4, <1>5, AfterTheSweep, LockedStep

LEMMA ReceiveCommandKeeps == ASSUME IInv, NEW c \in Conns, ReceiveCommand(c) PROVE IInv'
  <1>1. /\ conn[c].at # "idle" /\ ConnectionsOK /\ courier \in CourierType
        /\ now' = now /\ courier' = courier /\ UNCHANGED <<gate, worker>>
    BY DEF ReceiveCommand, May, IInv, Sound
  <1>2. CASE Quietly(c, Waiting(c, None, None, 0))
    <2>1. GoodConnection(Waiting(c, None, None, 0))
      BY <1>1, WaitingIsGood DEF Maybe
    <2>2. ConnectionsOK'
      BY <1>1, <1>2, <2>1, QuietlyKeeps
    <2> QED BY <1>1, <2>2, SameCourier, LockedStep
  <1>3. ASSUME NEW k \in OpenCalls(courier),
               Quietly(c, Waiting(c, None, [call |-> k, ask |-> courier.calls[k].ask],
                                  courier.calls[k].deadline))
        PROVE  IInv'
    <2>1. k \in Calls /\ courier.calls[k].ask \in Messages /\ courier.calls[k].deadline \in Nat
      BY <1>1, CallFields DEF OpenCalls
    <2>2. PICK ref, d : ref = [call |-> k, ask |-> courier.calls[k].ask]
                        /\ d = courier.calls[k].deadline
      OBVIOUS
    <2>3. ref \in Maybe(CallRef) /\ d \in Nat /\ None \in Maybe(Sessions)
      BY <2>1, <2>2 DEF CallRef, Maybe
    <2>4. GoodConnection(Waiting(c, None, ref, d))
      BY <1>1, <2>3, WaitingIsGood
    <2>5. ConnectionsOK'
      BY <1>1, <1>3, <2>2, <2>4, QuietlyKeeps
    <2> QED BY <1>1, <2>5, SameCourier, LockedStep
  <1> QED BY <1>2, <1>3 DEF ReceiveCommand

LEMMA RefusedLoudlyKeeps == ASSUME IInv, NEW c \in Conns, RefusedLoudly(c) PROVE IInv'
  <1>1. courier' = Swept /\ ConnectionsOK' /\ now' = now /\ UNCHANGED <<gate, worker>>
    BY ClosesLoudly DEF RefusedLoudly
  <1> QED BY <1>1, SweptIsSound, LockedStep

LEMMA RefusedQuietlyKeeps == ASSUME IInv, NEW c \in Conns, RefusedQuietly(c) PROVE IInv'
  <1>1. courier' = Swept /\ ConnectionsOK' /\ now' = now /\ UNCHANGED <<gate, worker>>
    BY ClosesQuietly DEF RefusedQuietly
  <1> QED BY <1>1, SweptIsSound, LockedStep

LEMMA RefusedStaleKeeps == ASSUME IInv, NEW c \in Conns, RefusedStale(c) PROVE IInv'
  <1>1. courier' = courier /\ ConnectionsOK' /\ now' = now /\ UNCHANGED <<gate, worker>>
    BY ClosesQuietly DEF RefusedStale
  <1> QED BY <1>1, SameCourier, LockedStep

LEMMA OpenRoomKeeps == ASSUME IInv, NEW c \in Conns, OpenRoom(c) PROVE IInv'
  <1>1. PICK r \in Rooms, members \in SUBSET Sessions, d \in Later :
           courier' = RoomOpen(Swept, r, members, conn[c].session, d)
    BY DEF OpenRoom
  <1>2. conn[c].session \in Sessions
    BY AdmittedSession DEF OpenRoom, May
  <1>3. d \in Nat
    BY GateAssumption DEF Later, Time
  <1>4. Sound(courier') /\ SameBoxes(Swept, courier')
    BY <1>1, <1>2, <1>3, SweptIsSound, RoomOpenEffect
  <1>5. ConnectionsOK' /\ now' = now /\ UNCHANGED <<gate, worker>>
    BY ClosesLoudly DEF OpenRoom
  <1> QED BY <1>4, <1>5, AfterTheSweep, LockedStep

LEMMA TransferRoomKeeps == ASSUME IInv, NEW c \in Conns, TransferRoom(c) PROVE IInv'
  <1>1. PICK r \in Rooms, s \in Sessions :
           /\ AcceptsTransfer(Swept, conn[c].session, r, s, now)
           /\ courier' = RoomTransfer(Swept, r, s)
    BY DEF TransferRoom
  <1>2. Swept.rooms[r] # None
    BY <1>1 DEF AcceptsTransfer, RoomVisible
  <1>3. Sound(courier') /\ SameBoxes(Swept, courier')
    BY <1>1, <1>2, SweptIsSound, RoomTransferEffect
  <1>4. ConnectionsOK' /\ now' = now /\ UNCHANGED <<gate, worker>>
    BY ClosesLoudly DEF TransferRoom
  <1> QED BY <1>3, <1>4, AfterTheSweep, LockedStep

LEMMA CloseRoomKeeps == ASSUME IInv, NEW c \in Conns, CloseRoom(c) PROVE IInv'
  <1>1. PICK r \in Rooms : courier' = RemoveRoom(Swept, r, "Cancelled")
    BY DEF CloseRoom, RoomClose
  <1>2. "Cancelled" \in States
    BY DEF States
  <1>3. Sound(courier') /\ Lighter(Swept, courier')
    BY <1>1, <1>2, SweptIsSound, RemoveRoomEffect
  <1>4. ConnectionsOK' /\ now' = now /\ UNCHANGED <<gate, worker>>
    BY ClosesLoudly DEF CloseRoom
  <1> QED BY <1>3, <1>4, LighterAfterTheSweep, LockedStep

LEMMA RoomAskCommandKeeps == ASSUME IInv, NEW c \in Conns, RoomAskCommand(c) PROVE IInv'
  <1>1. PICK r \in OpenRooms(courier), e \in Posted(conn[c].session, "Ask") :
           /\ AcceptsRound(Swept, r, e, now)
           /\ courier' = RoomAsk(Swept, r, e)
           /\ Notify(c, Waiting(c, e.target, [call |-> e.call, ask |-> e.id], e.deadline))
    BY DEF RoomAskCommand
  <1>2. conn[c].at # "idle" /\ now' = now /\ UNCHANGED <<gate, worker>> /\ r \in Rooms
    BY DEF RoomAskCommand, May, OpenRooms
  <1>3. e \in Envelope /\ e.kind = "Ask"
    <2>1. "Ask" \in Kinds
      BY DEF Kinds
    <2> QED BY <1>2, <2>1, AdmittedSession, PostedIsMail
  <1>4. Sound(courier') /\ SameBoxes(Swept, courier')
    BY <1>1, <1>2, <1>3, SweptIsSound, RoomAskEffect
  <1>5. ConnectionsOK'
    BY <1>1, <1>2, <1>3, WaitingForReply
  <1> QED BY <1>2, <1>4, <1>5, AfterTheSweep, LockedStep

-----------------------------------------------------------------------------
(* Waits, and what ends them.                                              *)
LEMMA LeavesQuietly ==
    ASSUME IInv, NEW c \in Conns, conn[c].at # "idle", Quietly(c, Left(c))
    PROVE  ConnectionsOK'
  BY LeftIsGood, QuietlyKeeps DEF IInv

LEMMA LeavesAfterSweep ==
    ASSUME IInv, NEW c \in Conns, conn[c].at # "idle", AfterSweep(c, Left(c), Left(c))
    PROVE  ConnectionsOK'
  BY LeftIsGood, AfterSweepKeeps DEF IInv

LEMMA CheckEndedKeeps == ASSUME IInv, NEW c \in Conns, CheckEnded(c) PROVE IInv'
  <1>1. courier' = courier /\ ConnectionsOK' /\ now' = now /\ UNCHANGED <<gate, worker>>
    BY LeavesQuietly DEF CheckEnded
  <1> QED BY <1>1, SameCourier, LockedStep

LEMMA CheckTakesKeeps == ASSUME IInv, NEW c \in Conns, CheckTakes(c) PROVE IInv'
  <1>1. PICK s : s = conn[c].session
    OBVIOUS
  <1>2. /\ s \in Sessions /\ Found(c) # {}
        /\ courier' = Receive(Swept, s, Min(Found(c)))
    BY <1>1, AdmittedSession DEF CheckTakes
  <1>3. Sound(Swept)
    BY SweptIsSound
  <1>4. PICK d : d = Swept
    OBVIOUS
  <1>5. /\ d.box[s] # None
        /\ Found(c) \subseteq DOMAIN d.box[s].queue
    BY <1>1, <1>2, <1>4 DEF Found, Matching, IsLive
  <1>6. DOMAIN d.box[s].queue \subseteq Nat
    <2>1. d \in CourierType
      BY <1>3, <1>4 DEF Sound
    <2>2. d.box[s].queue \in Seq(Envelope)
      BY <1>2, <1>5, <2>1, MailboxFields
    <2> QED BY <2>2
  <1>7. PICK i : i = Min(Found(c)) /\ i \in DOMAIN d.box[s].queue
    <2>1. PICK S : S = Found(c)
      OBVIOUS
    <2>2. S \in SUBSET Nat /\ S # {}
      BY <1>2, <1>5, <1>6, <2>1
    <2>3. Min(S) \in S
      BY <2>2, MinOfNat
    <2> QED BY <1>5, <2>1, <2>3
  <1>8. Sound(courier') /\ Lighter(d, courier')
    <2>1. courier' = Receive(d, s, i) /\ Sound(d)
      BY <1>2, <1>3, <1>4, <1>7
    <2> QED BY <1>2, <1>5, <1>7, <2>1, ReceiveEffect
  <1>9. ConnectionsOK' /\ now' = now /\ UNCHANGED <<gate, worker>>
    BY ClosesLoudly DEF CheckTakes
  <1> QED BY <1>4, <1>8, <1>9, LighterAfterTheSweep, LockedStep

LEMMA CheckLostKeeps == ASSUME IInv, NEW c \in Conns, CheckLost(c) PROVE IInv'
  <1>1. courier' = Swept /\ ConnectionsOK' /\ now' = now /\ UNCHANGED <<gate, worker>>
    BY LeavesAfterSweep DEF CheckLost
  <1> QED BY <1>1, SweptIsSound, LockedStep

LEMMA CheckSleepsKeeps == ASSUME IInv, NEW c \in Conns, CheckSleeps(c) PROVE IInv'
  <1>1. /\ courier' = Swept /\ conn[c].at # "idle" /\ now' = now
        /\ UNCHANGED <<gate, worker>>
        /\ AfterSweep(c, [conn[c] EXCEPT !.at = "asleep"],
                         [conn[c] EXCEPT !.at = "asleep", !.rung = TRUE])
    BY DEF CheckSleeps
  <1>2. ConnectionsOK /\ GoodConnection(conn[c])
    BY DEF IInv, ConnectionsOK
  <1>3. /\ GoodConnection([conn[c] EXCEPT !.at = "asleep"])
        /\ GoodConnection([conn[c] EXCEPT !.at = "asleep", !.rung = TRUE])
    <2>1. PICK k : k = conn[c]
      OBVIOUS
    <2>2. GoodConnection(k) /\ k.at # "idle"
      BY <1>1, <1>2, <2>1
    <2>3. /\ GoodConnection([k EXCEPT !.at = "asleep"])
          /\ GoodConnection([k EXCEPT !.at = "asleep", !.rung = TRUE])
      BY <2>2, MovedIsGood, ZenonT(30)
    <2> QED BY <2>1, <2>3
  <1>4. ConnectionsOK'
    BY <1>1, <1>2, <1>3, AfterSweepKeeps
  <1> QED BY <1>1, <1>4, SweptIsSound, LockedStep

LEMMA RunsOutKeeps == ASSUME IInv, NEW c \in Conns, RunsOut(c) PROVE IInv'
  <1>1. courier' = Swept /\ ConnectionsOK' /\ now' = now /\ UNCHANGED <<gate, worker>>
    BY LeavesAfterSweep DEF RunsOut
  <1> QED BY <1>1, SweptIsSound, LockedStep

LEMMA WakesKeeps ==
    ASSUME IInv, NEW c \in Conns, Wakes(c) \/ TimerRings(c)
    PROVE  IInv'
  <1>1. /\ courier' = courier /\ conn[c].at # "idle" /\ now' = now
        /\ UNCHANGED <<gate, worker>>
        /\ Quietly(c, [conn[c] EXCEPT !.at = "armed", !.rung = FALSE])
    BY DEF Wakes, TimerRings
  <1>2. ConnectionsOK /\ GoodConnection(conn[c])
    BY DEF IInv, ConnectionsOK
  <1>3. GoodConnection([conn[c] EXCEPT !.at = "armed", !.rung = FALSE])
    <2>1. PICK k : k = conn[c]
      OBVIOUS
    <2>2. GoodConnection(k) /\ k.at # "idle"
      BY <1>1, <1>2, <2>1
    <2>3. GoodConnection([k EXCEPT !.at = "armed", !.rung = FALSE])
      BY <2>2, MovedIsGood, ZenonT(30)
    <2> QED BY <2>1, <2>3
  <1>4. ConnectionsOK'
    BY <1>1, <1>2, <1>3, QuietlyKeeps
  <1> QED BY <1>1, <1>4, SameCourier, LockedStep

LEMMA HangUpKeeps == ASSUME IInv, NEW c \in Conns, HangUp(c) PROVE IInv'
  <1>1. courier' = courier /\ ConnectionsOK' /\ now' = now /\ UNCHANGED <<gate, worker>>
    BY LeavesQuietly DEF HangUp
  <1> QED BY <1>1, SameCourier, LockedStep

LEMMA AbandonKeeps == ASSUME IInv, NEW c \in Conns, Abandon(c) PROVE IInv'
  <1>1. PICK k : k = conn[c]
    OBVIOUS
  <1>2. k.at = "leaving" /\ now' = now /\ UNCHANGED <<gate, worker>>
    BY <1>1 DEF Abandon
  <1>3. k.pending \in CallRef
    <2>1. GoodConnection(k)
      BY <1>1 DEF IInv, ConnectionsOK
    <2> QED BY <1>2, <2>1, ConnectionFields DEF GoodConnection, Maybe
  <1>4. CASE Active(k.session, k.activation)
    <2>1. courier' = AbandonCall(Swept, k.session, k.pending) /\ Notify(c, Closed)
      BY <1>1, <1>4 DEF Abandon
    <2>2. Sound(courier') /\ Lighter(Swept, courier')
      BY <1>3, <2>1, SweptIsSound, AbandonCallEffect
    <2>3. ConnectionsOK'
      BY <2>1, ClosesLoudly
    <2> QED BY <1>2, <2>2, <2>3, LighterAfterTheSweep, LockedStep
  <1>5. CASE ~Active(k.session, k.activation)
    <2>1. courier' = courier /\ Quietly(c, Closed)
      BY <1>1, <1>5 DEF Abandon
    <2>2. ConnectionsOK'
      BY <2>1, ClosesQuietly
    <2> QED BY <1>2, <2>1, <2>2, SameCourier, LockedStep
  <1> QED BY <1>4, <1>5

-----------------------------------------------------------------------------
(* The expiry task and the clock.                                          *)
LEMMA ExpirerLooksKeeps == ASSUME IInv, ExpirerLooks \/ ExpirerRearms PROVE IInv'
  <1>1. now' = now /\ courier' = courier /\ conn' = conn /\ UNCHANGED <<gate, worker>>
    BY DEF ExpirerLooks, ExpirerRearms
  <1>2. expirer' \in Expirer
    <2>1. PICK u : u = NextDeadline(courier)
      OBVIOUS
    <2>2. u \in Maybe(Nat) /\ None \in Maybe(Nat)
      BY <2>1, NextDeadlineIsTime DEF IInv, Sound, Maybe
    <2>3. \/ expirer' = [at |-> "asleep", until |-> u, rung |-> FALSE]
          \/ expirer' = [at |-> "looking", until |-> None, rung |-> FALSE]
      BY <2>1 DEF ExpirerLooks, ExpirerRearms
    <2>4. /\ [at |-> "asleep", until |-> u, rung |-> FALSE] \in Expirer
          /\ [at |-> "looking", until |-> None, rung |-> FALSE] \in Expirer
      BY <2>2 DEF Expirer
    <2> QED BY <2>3, <2>4
  <1>3. ConnectionsOK'
    BY <1>1, <1>2 DEF IInv, ConnectionsOK
  <1> QED BY <1>1, <1>3, SameCourier, LockedStep

LEMMA ExpirerFiresKeeps == ASSUME IInv, ExpirerFires PROVE IInv'
  <1>1. /\ courier' = Swept /\ now' = now /\ UNCHANGED <<gate, worker>>
        /\ conn' = [x \in Conns |-> Rung(x)]
        /\ expirer' = [at |-> "looking", until |-> None, rung |-> FALSE]
    BY DEF ExpirerFires
  <1>2. expirer' \in Expirer
    BY <1>1 DEF Expirer, Maybe
  <1>3. ConnectionsOK
    BY DEF IInv
  <1>4. ConnectionsOK'
    BY <1>1, <1>2, <1>3, NotifyAllKeeps
  <1> QED BY <1>1, <1>4, SweptIsSound, LockedStep

LEMMA NothingElseKeeps ==
    ASSUME IInv, now' \in Time, UNCHANGED <<courier, gate, worker, conn, expirer>>
    PROVE  IInv'
  <1>1. Sound(courier') /\ SameBoxes(courier, courier')
    BY SameCourier
  <1>2. ConnectionsOK'
    BY DEF IInv, ConnectionsOK
  <1>3. GatesOK' /\ MailboxesMatchGate'
    BY <1>1, MailMoves
  <1> QED BY <1>1, <1>2, <1>3 DEF IInv

-----------------------------------------------------------------------------
(* The invariant, and what it implies.                                     *)
LEMMA NextKeeps == ASSUME IInv, [Next]_vars PROVE IInv'
  <1>1. ASSUME NEW s \in Sessions, SessionStep(s)
        PROVE  IInv'
    BY <1>1, LaunchKeeps, SetDialogueKeeps, ForgetKeeps, LaunchWorkerKeeps,
       CancelSpawnKeeps, EndedWorkerKeeps DEF SessionStep
  <1>2. ASSUME NEW c \in Conns, Command(c)
        PROVE  IInv'
    BY <1>2, AdmitKeeps, ReserveSpawnKeeps, PostCommandKeeps, AskKeeps,
       ReceiveCommandKeeps, OpenRoomKeeps, TransferRoomKeeps, CloseRoomKeeps,
       RoomAskCommandKeeps, RefusedLoudlyKeeps, RefusedQuietlyKeeps,
       RefusedStaleKeeps DEF Command
  <1>3. ASSUME NEW c \in Conns, Wait(c) \/ HangUp(c) \/ Abandon(c)
        PROVE  IInv'
    BY <1>3, CheckEndedKeeps, CheckTakesKeeps, CheckLostKeeps, CheckSleepsKeeps,
       RunsOutKeeps, WakesKeeps, HangUpKeeps, AbandonKeeps DEF Wait, Check
  <1>4. ASSUME Expire
        PROVE  IInv'
    BY <1>4, ExpirerLooksKeeps, ExpirerFiresKeeps DEF Expire
  <1>5. ASSUME Tick
        PROVE  IInv'
    BY <1>5, NothingElseKeeps DEF Tick
  <1>6. ASSUME UNCHANGED vars
        PROVE  IInv'
    <2>1. now' \in Time
      BY <1>6 DEF IInv, vars
    <2> QED BY <1>6, <2>1, NothingElseKeeps DEF vars
  <1> QED BY <1>1, <1>2, <1>3, <1>4, <1>5, <1>6 DEF Next

\* Every variable of the gate keeps its type, whatever is sent, read, expired,
\* spawned or hung up: all the operations of the courier are defined where the
\* gate uses them.
THEOREM TypeCorrect == Spec => []TypeOK
  <1>1. IInv => TypeOK
    BY DEF IInv, Sound, GatesOK, ConnectionsOK, TypeOK
  <1> QED BY <1>1, InitKeeps, NextKeeps, PTL DEF Spec

\* A mailbox exists exactly while its dialogue is on or its worker is about to be
\* born: no command, sweep, timeout or cleanup, in any order, opens one for a
\* session that ended, ends one that is live, or opens one that is still shut.
THEOREM MailboxesStayMatched == Spec => []MailboxesMatchGate
  <1>1. IInv => MailboxesMatchGate
    BY DEF IInv
  <1> QED BY <1>1, InitKeeps, NextKeeps, PTL DEF Spec

\* The bytes charged are those of the mail that waits.
BytesAreCharged ==
    /\ \A s \in Sessions : courier.box[s] # None => courier.box[s].bytes = Bytes(Box(s))
    /\ courier.charged = Total([s \in Sessions |-> Bytes(Box(s))])

LEMMA SoundIsCharged == ASSUME IInv PROVE BytesAreCharged
  <1>1. courier \in CourierType /\ Charged(courier)
    BY DEF IInv, Sound
  <1>2. Bytes(<<>>) = 0
    BY BytesSteps
  <1>3. \A s \in Sessions : Weights(courier)[s] = Bytes(Box(s))
    BY <1>1, <1>2, WeightsAreNat DEF Box
  <1>4. Weights(courier) = [s \in Sessions |-> Bytes(Box(s))]
    BY <1>1, <1>3, WeightsAreNat
  <1> QED BY <1>1, <1>4 DEF BytesAreCharged, Charged, Box

\* The bytes charged to each mailbox and to the Runtime are exactly those of the
\* mail that waits, also when identifiers are reused and the oldest ones are
\* forgotten: no order of sends, reads, withdrawals, expiries and endings charges
\* for mail that left, or forgets mail that stays.
THEOREM AccountsBalance == Spec => []BytesAreCharged
  BY InitKeeps, NextKeeps, SoundIsCharged, PTL DEF Spec

-----------------------------------------------------------------------------
(* Sends, receipts and rounds keep the agreement of mail, calls, rooms and   *)
(* what is remembered (Exact) that sweeps and endings keep in CourierProofs. *)

\* d is c with the dying call k as the call of an ask that no mail carries.
CallSet(c, k, d) ==
    LET call == d.calls[k] IN
    /\ d.box = c.box /\ d.charged = c.charged
    /\ d.rooms = c.rooms /\ d.retired = c.retired
    /\ \A l \in Calls \ {k} : d.calls[l] = c.calls[l]
    /\ \A x \in Messages : d.states[x] = None <=> c.states[x] = None
    /\ call # None /\ call.source # call.target
    /\ \A e \in Mail(c) : e.id # call.ask
    /\ \A l \in OpenCalls(c) \ {k} : c.calls[l].ask # call.ask

LEMMA SetCallKeeps ==
    ASSUME NEW c, NEW D, Coherent(c, D), NEW k \in Calls, k \in D,
           \A e \in Mail(c) : ~(MatchesCall(c, e) /\ e.call = k),
           NEW d, Sound(d), CallSet(c, k, d)
    PROVE  /\ Coherent(d, D) /\ Debt(d, D) = Debt(c, D) /\ Mail(d) = Mail(c)
           /\ Waits(d) = Waits(c) /\ Asks(d, D) = Asks(c, D)
  <1>1. /\ d.box = c.box /\ d.charged = c.charged
        /\ d.rooms = c.rooms /\ d.retired = c.retired
        /\ \A l \in Calls \ {k} : d.calls[l] = c.calls[l]
        /\ \A x \in Messages : d.states[x] = None <=> c.states[x] = None
    BY DEF CallSet
  <1>2. PICK call : call = d.calls[k]
    OBVIOUS
  <1>3. /\ call # None /\ call.source # call.target
        /\ \A e \in Mail(c) : e.id # call.ask
        /\ \A l \in OpenCalls(c) \ {k} : c.calls[l].ask # call.ask
    BY <1>2 DEF CallSet
  <1>4. /\ Mail(d) = Mail(c) /\ Waits(d) = Waits(c)
        /\ \A s \in Sessions : IsLive(d, s) <=> IsLive(c, s)
    BY <1>1, LiveSame
  <1>5. OpenCalls(d) = OpenCalls(c) \cup {k}
    BY <1>1, <1>2, <1>3 DEF OpenCalls
  <1>6. OpenRooms(d) = OpenRooms(c) /\ Ended(d) = Ended(c) /\ Remaining(d) = Remaining(c)
    BY <1>1 DEF OpenRooms, Ended, Remaining
  <1>7. /\ OpenCalls(d) \ D = OpenCalls(c) \ D /\ Asks(d, D) = Asks(c, D)
        /\ \A l \in OpenCalls(c) \ D : d.calls[l] = c.calls[l] /\ l \in Calls
    BY <1>1, <1>5 DEF Asks, OpenCalls
  <1>8. Fits(d)
    BY <1>1 DEF Coherent, Fits
  <1>9. UniqueMail(d)
    BY <1>4 DEF Coherent, UniqueMail
  <1>10. Remembers(d)
    <2>1. Ended(c) \subseteq Messages
      BY DEF Coherent, Sound, CourierType, Ended
    <2> QED BY <1>1, <1>6, <2>1 DEF Coherent, Remembers
  <1>11. \A r \in OpenRooms(d) : RoomHolds(d, r)
    <2>1. ASSUME NEW r \in OpenRooms(c)
          PROVE  RoomHolds(d, r)
      <3>1. RoomHolds(c, r) /\ c.rooms[r].members \in SUBSET Sessions
        BY RoomFields DEF Coherent, Sound, OpenRooms
      <3> QED BY <1>1, <1>4, <3>1 DEF RoomHolds
    <2> QED BY <1>6, <2>1
  <1>12. CallsDiffer(d)
    <2>1. CallsDiffer(c)
      BY DEF Coherent
    <2>2. ASSUME NEW l \in OpenCalls(d)
          PROVE  /\ \A n \in OpenCalls(d) : d.calls[l].ask = d.calls[n].ask => l = n
                 /\ d.calls[l].source # d.calls[l].target
                 /\ \A e \in Mail(d) : e.id = d.calls[l].ask => e.kind = "Ask" /\ e.call = l
      <3>1. \A n \in OpenCalls(d) : n = k \/ (n \in OpenCalls(c) /\ d.calls[n] = c.calls[n])
        BY <1>1, <1>5 DEF OpenCalls
      <3>2. CASE l = k
        BY <1>2, <1>3, <1>4, <3>1, <3>2
      <3>3. CASE l # k
        <4>1. l \in OpenCalls(c) /\ d.calls[l] = c.calls[l]
          BY <3>1, <3>3
        <4> QED BY <1>2, <1>3, <1>4, <2>1, <3>1, <3>3, <4>1 DEF CallsDiffer
      <3> QED BY <3>2, <3>3
    <2> QED BY <2>2 DEF CallsDiffer
  <1>13. ASSUME NEW l \in OpenCalls(c) \ D
         PROVE  CallHolds(d, l)
    <2>1. CallHolds(c, l) /\ c.calls[l].source \in Sessions /\ c.calls[l].target \in Sessions
      BY CallFields DEF Coherent, Sound, OpenCalls
    <2>2. RoundHolds(c, l) /\ d.rooms = c.rooms /\ d.calls[l] = c.calls[l]
      BY <1>1, <1>7, <2>1 DEF CallHolds
    <2>3. RoundHolds(d, l)
      BY <2>2, RoundStays
    <2> QED BY <1>4, <2>1, <2>2, <2>3, CallStays
  <1>14. ASSUME NEW e \in Mail(c)
         PROVE  MailHolds(d, e, D)
    <2>1. MailHolds(c, e, D) /\ e.call \in Calls
      BY CoherentMail
    <2>2. ASSUME NEW stage, Carries(c, e, stage)
          PROVE  Carries(d, e, stage)
      <3>1. e.call # k
        BY <2>2 DEF Carries
      <3>2. d.calls[e.call] = c.calls[e.call]
        BY <1>1, <2>1, <3>1
      <3> QED BY <2>2, <3>2 DEF Carries, MatchesCall
    <2> QED BY <1>1, <1>4, <1>7, <2>1, <2>2 DEF MailHolds
  <1>15. Coherent(d, D)
    <2>1. Waits(d) \cup Asks(d, D) \subseteq Remaining(d)
      BY <1>4, <1>6, <1>7 DEF Coherent
    <2> QED BY <1>4, <1>7, <1>8, <1>9, <1>10, <1>11, <1>12, <1>13, <1>14, <2>1 DEF Coherent
  <1> QED BY <1>4, <1>6, <1>7, <1>15 DEF Debt

\* A call that holds is dying no longer.
LEMMA CallAdopted ==
    ASSUME NEW c, NEW D, Coherent(c, D), NEW k \in OpenCalls(c), D = {k},
           CallHolds(c, k), c.calls[k].ask \in Remaining(c),
           \A e \in Mail(c) : e.kind = "Reply" /\ e.replyTo = c.calls[k].ask
                                 => Carries(c, e, "Replied"),
           Debt(c, D) \subseteq {c.calls[k].ask}
    PROVE  Exact(c)
  <1>1. Asks(c, {}) = Asks(c, D) \cup {c.calls[k].ask}
    BY DEF Asks
  <1>2. ASSUME NEW e \in Mail(c)
        PROVE  MailHolds(c, e, {})
    <2>1. MailHolds(c, e, D)
      BY CoherentMail
    <2> QED BY <1>1, <2>1 DEF MailHolds
  <1>3. \A l \in OpenCalls(c) \ {} : CallHolds(c, l)
    BY DEF Coherent
  <1>4. Waits(c) \cup Asks(c, {}) \subseteq Remaining(c)
    BY <1>1 DEF Coherent
  <1>5. Coherent(c, {})
    BY <1>2, <1>3, <1>4 DEF Coherent
  <1>6. Debt(c, {}) = {}
    BY <1>1 DEF Debt
  <1> QED BY <1>5, <1>6 DEF Exact

\* The mailbox of t has room for a message of the given size.
HasRoom(c, t, size) ==
    /\ Len(c.box[t].queue) < MailboxEnvelopes
    /\ c.box[t].bytes + size <= MailboxBytes
    /\ c.charged + size <= RuntimeBytes

LEMMA RoomForHasRoom ==
    ASSUME NEW c \in CourierType, NEW t \in Sessions, NEW size, RoomFor(c, t, size, NothingFreed)
    PROVE  c.box[t] # None /\ HasRoom(c, t, size)
  <1>1. c.box[t] # None
    BY DEF RoomFor
  <1>2. Len(c.box[t].queue) \in Nat /\ c.box[t].bytes \in Nat /\ c.charged \in Nat
    BY <1>1, MailboxFields, CourierFields, LenProperties
  <1>3. \A n \in Nat : Minus(n, 0) = n
    BY DEF Minus
  <1> QED BY <1>1, <1>2, <1>3 DEF RoomFor, HasRoom, NothingFreed

\* e may wait: it is new, nothing answers it yet, and it fits and carries its call.
MayWait(c, e) ==
    /\ c.box[e.target] # None /\ HasRoom(c, e.target, e.size)
    /\ e.replyTo = None <=> e.kind \in {"Tell", "Ask"}
    /\ c.states[e.id] = None
    /\ \A f \in Mail(c) : f.kind = "Reply" => f.replyTo # e.id
    /\ \A k \in OpenCalls(c) : c.calls[k].ask = e.id => e.kind = "Ask" /\ e.call = k
    /\ e.kind = "Ask" => Carries(c, e, "Queued")
    /\ e.kind = "Reply" => Carries(c, e, "Replied")
    /\ e.kind = "Reply" => \A f \in Mail(c) : f.kind = "Reply" => f.replyTo # e.replyTo
    /\ e.room # None => c.rooms[e.room] # None

LEMMA EnqueueKeeps ==
    ASSUME NEW c, NEW D, Coherent(c, D), NEW e \in Envelope, MayWait(c, e),
           NEW d, d = Enqueue(c, e)
    PROVE  Coherent(d, D) /\ Queued(c, e, d) /\ Debt(d, D) = Debt(c, D)
  <1>1. /\ c.box[e.target] # None /\ (e.replyTo = None <=> e.kind \in {"Tell", "Ask"})
        /\ Sound(c) /\ c \in CourierType
    BY DEF MayWait, Coherent, Sound
  <1>2. Queued(c, e, d)
    BY <1>1, EnqueueEffect
  <1>3. /\ Sound(d) /\ SameBoxes(c, d) /\ Mail(d) = Mail(c) \cup {e}
        /\ \A x \in Sessions : x # e.target => d.box[x] = c.box[x]
        /\ d.box[e.target].queue = Append(c.box[e.target].queue, e)
        /\ d.box[e.target].bytes = c.box[e.target].bytes + e.size
        /\ d.calls = c.calls /\ d.rooms = c.rooms /\ d.retired = c.retired
        /\ d.states = [c.states EXCEPT ![e.id] = "Accepted"]
        /\ d.charged = c.charged + e.size
    BY <1>2 DEF Queued
  <1>4. e.id \in Messages /\ e.target \in Sessions /\ e.call \in Calls /\ e.size \in Nat
    BY DEF Envelope
  <1>5. /\ d.calls = c.calls /\ d.rooms = c.rooms /\ d.retired = c.retired
        /\ Mail(d) = Mail(c) \cup {e} /\ OpenCalls(d) = OpenCalls(c)
        /\ OpenRooms(d) = OpenRooms(c)
        /\ Asks(d, D) = Asks(c, D) /\ Ended(d) = Ended(c)
    <2>1. /\ d.calls = c.calls /\ d.rooms = c.rooms /\ d.retired = c.retired
          /\ Mail(d) = Mail(c) \cup {e}
      BY <1>3
    <2>2. OpenCalls(d) = OpenCalls(c) /\ OpenRooms(d) = OpenRooms(c)
      BY <2>1 DEF OpenCalls, OpenRooms
    <2>3. Asks(d, D) = Asks(c, D) /\ Ended(d) = Ended(c)
      BY <2>1, <2>2 DEF Asks, Ended
    <2> QED BY <2>1, <2>2, <2>3
  <1>6. Waits(d) = Waits(c) \cup {e.id}
    <2>1. Mail(d) = Mail(c) \cup {e}
      BY <1>5
    <2> QED BY <2>1 DEF Waits
  <1>7. c.states[e.id] = None /\ e.id \notin Remaining(c) /\ e.id \notin Ended(c)
    BY DEF MayWait, Remaining, Coherent, Remembers
  <1>8. e.id \notin Waits(c) \cup Asks(c, D)
    BY <1>7 DEF Coherent
  <1>9. /\ d.states[e.id] # None
        /\ \A x \in Messages : x # e.id => d.states[x] = c.states[x]
    <2>1. c.states \in [Messages -> Maybe(States)] /\ "Accepted" # None
      BY <1>1, CourierFields, NoneAssumption DEF States
    <2> QED BY <1>3, <1>4, <2>1
  <1>10. Remaining(d) = Remaining(c) \cup {e.id}
    BY <1>4, <1>5, <1>7, <1>9 DEF Remaining
  <1>11. \A s \in Sessions : IsLive(d, s) <=> IsLive(c, s)
    BY <1>3 DEF SameBoxes, IsLive
  <1>12. Fits(d)
    <2>1. HasRoom(c, e.target, e.size)
      BY DEF MayWait
    <2>2. PICK q : q = c.box[e.target].queue /\ q \in Seq(Envelope)
      BY <1>1, <1>4, MailboxFields
    <2>3. Len(q) \in Nat /\ Len(Append(q, e)) = Len(q) + 1 /\ MailboxEnvelopes \in Nat
      BY <2>2, AppendProperties, LenProperties, CourierAssumption
    <2>4. Len(d.box[e.target].queue) <= MailboxEnvelopes
      <3>1. Len(q) < MailboxEnvelopes
        BY <2>1, <2>2 DEF HasRoom
      <3>2. d.box[e.target].queue = Append(q, e)
        BY <1>3, <2>2
      <3> QED BY <2>3, <3>1, <3>2
    <2>5. \A f \in Range(q) : f \in Mail(c)
      BY <1>1, <1>4, <2>2 DEF Mail
    <2>6. \A f \in Range(q) : f.id # e.id
      BY <1>8, <2>5 DEF Waits
    <2>7. Distinct(q)
      BY <1>1, <1>4, <2>2 DEF Coherent, Fits
    <2>8. Distinct(d.box[e.target].queue)
      <3>1. d.box[e.target].queue = Append(q, e)
        BY <1>3, <2>2
      <3>2. Distinct(Append(q, e))
        BY <2>2, <2>6, <2>7, DistinctAppend
      <3> QED BY <3>1, <3>2
    <2>9. d.box[e.target].bytes <= MailboxBytes /\ d.charged <= RuntimeBytes
      BY <1>3, <2>1 DEF HasRoom
    <2>10. ASSUME NEW s \in Sessions, d.box[s] # None, s # e.target
           PROVE  /\ d.box[s].bytes <= MailboxBytes
                  /\ Len(d.box[s].queue) <= MailboxEnvelopes
                  /\ Distinct(d.box[s].queue)
      BY <1>3, <2>10 DEF Coherent, Fits
    <2> QED BY <2>4, <2>8, <2>9, <2>10 DEF Fits
  <1>13. UniqueMail(d)
    <2>1. \A f \in Mail(c) : f.id # e.id
      BY <1>8 DEF Waits
    <2>2. e.kind = "Reply" => \A f \in Mail(c) : f.kind = "Reply" => f.replyTo # e.replyTo
      BY DEF MayWait
    <2>3. UniqueMail(c)
      BY DEF Coherent
    <2> QED BY <1>5, <2>1, <2>2, <2>3 DEF UniqueMail
  <1>14. Remembers(d)
    <2>1. Ended(c) \subseteq Messages
      BY <1>1 DEF CourierType, Ended
    <2>2. Remembers(c)
      BY DEF Coherent
    <2> QED BY <1>5, <1>7, <1>9, <2>1, <2>2 DEF Remembers
  <1>15. ASSUME NEW r \in OpenRooms(d)
         PROVE  RoomHolds(d, r)
    <2>1. RoomHolds(c, r) /\ c.rooms[r].members \in SUBSET Sessions
      BY <1>1, <1>5, RoomFields DEF Coherent, OpenRooms
    <2> QED BY <1>3, <1>11, <2>1 DEF RoomHolds
  <1>16. CallsDiffer(d)
    <2>1. \A k \in OpenCalls(c) : c.calls[k].ask = e.id => e.kind = "Ask" /\ e.call = k
      BY DEF MayWait
    <2>2. CallsDiffer(c)
      BY DEF Coherent
    <2> QED BY <1>5, <2>1, <2>2 DEF CallsDiffer
  <1>17. ASSUME NEW k \in OpenCalls(d) \ D
         PROVE  CallHolds(d, k)
    <2>1. /\ CallHolds(c, k) /\ c.calls[k].source \in Sessions /\ c.calls[k].target \in Sessions
      BY <1>1, <1>5, CallFields DEF Coherent, OpenCalls
    <2>2. RoundHolds(d, k)
      BY <1>5, <2>1, RoundStays DEF CallHolds
    <2>3. Mail(c) \subseteq Mail(d) /\ d.calls[k] = c.calls[k]
      BY <1>5
    <2> QED BY <1>11, <2>1, <2>2, <2>3, CallStays
  <1>18. ASSUME NEW f, NEW stage
         PROVE  Carries(d, f, stage) <=> Carries(c, f, stage)
    <2>1. d.calls = c.calls
      BY <1>3
    <2>2. MatchesCall(d, f) <=> MatchesCall(c, f)
      BY ONLY <2>1 DEF MatchesCall
    <2> QED BY ONLY <2>1, <2>2 DEF Carries
  <1>19. ASSUME NEW f \in Mail(c)
         PROVE  MailHolds(d, f, D)
    <2>1. MailHolds(c, f, D) /\ (f.kind = "Reply" => f.replyTo # e.id)
      BY CoherentMail DEF MayWait
    <2> QED BY <1>3, <1>5, <1>6, <1>18, <2>1 DEF MailHolds
  <1>20. MailHolds(d, e, D)
    BY <1>3, <1>18 DEF MailHolds, MayWait
  <1>21. Coherent(d, D)
    <2>1. Waits(d) \cup Asks(d, D) \subseteq Remaining(d)
      BY <1>5, <1>6, <1>10 DEF Coherent
    <2>2. \A f \in Mail(d) : MailHolds(d, f, D)
      BY <1>3, <1>19, <1>20
    <2> QED BY <1>3, <1>12, <1>13, <1>14, <1>15, <1>16, <1>17, <2>1, <2>2 DEF Coherent
  <1>22. Debt(d, D) = Debt(c, D)
    BY <1>5, <1>6, <1>7, <1>10 DEF Debt
  <1> QED BY <1>2, <1>21, <1>22

\* d is c with the call k, whose ask is m, at another stage.
Staged(c, k, m, stage, d) ==
    /\ d \in CourierType /\ d.box = c.box /\ d.charged = c.charged
    /\ d.rooms = c.rooms /\ d.retired = c.retired
    /\ \A l \in Calls \ {k} : d.calls[l] = c.calls[l]
    /\ \A x \in Messages : x # m => d.states[x] = c.states[x]
    /\ d.states[m] = stage /\ d.states[m] # None
    /\ d.calls[k] # None /\ d.calls[k].stage = stage
    /\ d.calls[k].ask = c.calls[k].ask
    /\ d.calls[k].source = c.calls[k].source /\ d.calls[k].target = c.calls[k].target
    /\ d.calls[k].deadline = c.calls[k].deadline /\ d.calls[k].room = c.calls[k].room

SetStage(c, k, m, stage) == [c EXCEPT !.calls[k].stage = stage, !.states[m] = stage]

LEMMA SetStageFields ==
    ASSUME NEW c \in CourierType, NEW k \in Calls, c.calls[k] # None, NEW m \in Messages,
           NEW stage \in Stages \cap States, NEW d, d = SetStage(c, k, m, stage)
    PROVE  Staged(c, k, m, stage, d)
  <1>1. PICK call : call = c.calls[k] /\ call \in Call
    BY CallFields
  <1>2. PICK late : late = [call EXCEPT !.stage = stage]
    OBVIOUS
  <1>3. /\ late \in Call /\ late # None /\ late.stage = stage /\ late.ask = call.ask
        /\ late.source = call.source /\ late.target = call.target
        /\ late.deadline = call.deadline /\ late.room = call.room
    <2>1. late \in Call
      BY <1>1, <1>2 DEF Call
    <2>2. late # None
      BY <2>1, NoneAssumption
    <2> QED BY <1>1, <1>2, <2>1, <2>2 DEF Call
  <1>4. PICK calls : calls = [c.calls EXCEPT ![k] = late]
    OBVIOUS
  <1>5. PICK states : states = [c.states EXCEPT ![m] = stage]
    OBVIOUS
  <1>6. /\ calls \in [Calls -> Maybe(Call)] /\ states \in [Messages -> Maybe(States)]
        /\ calls[k] = late /\ \A l \in Calls \ {k} : calls[l] = c.calls[l]
        /\ states[m] = stage /\ \A x \in Messages : x # m => states[x] = c.states[x]
    BY <1>3, <1>4, <1>5, CourierFields DEF Maybe
  <1>7. d = [c EXCEPT !.calls = calls, !.states = states]
    BY <1>1, <1>2, <1>4, <1>5 DEF SetStage
  <1>8. /\ d \in CourierType /\ d.box = c.box /\ d.charged = c.charged
        /\ d.rooms = c.rooms /\ d.retired = c.retired
        /\ d.calls = calls /\ d.states = states
    BY <1>6, <1>7 DEF CourierType
  <1>9. stage # None
    BY NoneAssumption
  <1> QED BY <1>1, <1>3, <1>6, <1>8, <1>9 DEF Staged

\* What stays when a dying call goes to another stage.
Restaged(c, D, k, d) ==
    /\ Coherent(d, D) /\ Debt(d, D) = Debt(c, D) /\ Mail(d) = Mail(c)
    /\ Waits(d) = Waits(c) /\ Asks(d, D) = Asks(c, D) /\ Remaining(d) = Remaining(c)
    /\ \A s \in Sessions : IsLive(d, s) <=> IsLive(c, s)
    /\ RoundHolds(c, k) => RoundHolds(d, k)

\* A dying call that no mail carries goes to another stage.
LEMMA StagedKeeps ==
    ASSUME NEW c, NEW D, Coherent(c, D), NEW k \in OpenCalls(c), k \in D,
           \A e \in Mail(c) : ~(MatchesCall(c, e) /\ e.call = k),
           c.states[c.calls[k].ask] # None,
           NEW stage, NEW d, Staged(c, k, c.calls[k].ask, stage, d)
    PROVE  Restaged(c, D, k, d)
  <1>1. PICK m : m = c.calls[k].ask
    OBVIOUS
  <1>2. /\ d \in CourierType /\ d.box = c.box /\ d.charged = c.charged
        /\ d.rooms = c.rooms /\ d.retired = c.retired
        /\ \A l \in Calls \ {k} : d.calls[l] = c.calls[l]
        /\ \A x \in Messages : x # m => d.states[x] = c.states[x]
        /\ d.states[m] # None
        /\ d.calls[k] # None
        /\ d.calls[k].ask = m
        /\ d.calls[k].source = c.calls[k].source /\ d.calls[k].target = c.calls[k].target
        /\ d.calls[k].deadline = c.calls[k].deadline /\ d.calls[k].room = c.calls[k].room
    BY <1>1 DEF Staged
  <1>3. Sound(d)
    BY <1>2, NoMailMoves DEF Coherent
  <1>4. \A e \in Mail(c) : e.id # m
    BY <1>1, AskCarries
  <1>5. \A x \in Messages : d.states[x] = None <=> c.states[x] = None
    BY <1>1, <1>2
  <1>6. CallsDiffer(c) /\ k \in Calls
    BY DEF Coherent, OpenCalls
  <1>7. CallSet(c, k, d)
    BY <1>1, <1>2, <1>4, <1>5, <1>6 DEF CallSet, CallsDiffer
  <1>8. /\ Coherent(d, D) /\ Debt(d, D) = Debt(c, D) /\ Mail(d) = Mail(c)
        /\ Waits(d) = Waits(c) /\ Asks(d, D) = Asks(c, D)
    BY <1>3, <1>6, <1>7, SetCallKeeps
  <1>9. Remaining(d) = Remaining(c)
    BY <1>2, <1>5 DEF Remaining, Ended
  <1>10. RoundHolds(c, k) => RoundHolds(d, k)
    BY <1>1, <1>2 DEF RoundHolds
  <1> QED BY <1>2, <1>8, <1>9, <1>10, LiveSame DEF Restaged

\* One message, e, has left its mailbox for its reader: x is c without it.
HandedOver(c, s, e, x) ==
    /\ Sound(x) /\ Lighter(c, x) /\ SameRest(c, x)
    /\ e \in Mail(c) /\ e.target = s /\ Mail(x) = Mail(c) \ {e}


LEMMA HandedOverKeeps ==
    ASSUME NEW c, Exact(c), NEW s, NEW e, NEW x, HandedOver(c, s, e, x),
           NEW E, E = {f.call : f \in {g \in {e} : MatchesCall(c, g)}}
    PROVE  Expiring(x, E, x, {e}) /\ Detached(x, E, e)
  <1>1. Sound(x) /\ Lighter(c, x) /\ SameRest(c, x)
    BY DEF HandedOver
  <1>2. PICK G : G = {e}
    OBVIOUS
  <1>3. G = Mail(c) \ Mail(x) /\ E = {f.call : f \in {g \in G : MatchesCall(c, g)}}
    BY <1>2 DEF HandedOver
  <1>4. Expiring(x, E, x, G) /\ \A g \in G : Detached(x, E, g)
    BY <1>1, <1>3, MailDetaches
  <1> QED BY <1>2, <1>4

LEMMA ReceiveTellKeeps ==
    ASSUME NEW c, Exact(c), NEW s, NEW e, NEW x, HandedOver(c, s, e, x),
           e.kind \in {"Tell", "Cancel"}, NEW outcome \in States,
           NEW d, d = Retire(x, e.id, outcome)
    PROVE  Exact(d)
  <1>1. PICK E : E = {f.call : f \in {g \in {e} : MatchesCall(c, g)}}
    OBVIOUS
  <1>2. Expiring(x, E, x, {e}) /\ Detached(x, E, e)
    BY <1>1, HandedOverKeeps
  <1>3. E = {}
    BY <1>1 DEF MatchesCall
  <1>4. Coherent(x, E) /\ \A m \in Debt(x, E) : m \in DyingAsks(x, E) \/ m = e.id
    BY <1>2 DEF Expiring
  <1>5. e.id \in Messages /\ e.id \notin Waits(x) \cup Asks(x, E)
    <2>1. e \in Mail(c) /\ Coherent(c, {})
      BY DEF HandedOver, Exact
    <2> QED BY <1>2, <2>1, CoherentMail DEF Detached
  <1>6. Coherent(d, E) /\ Debt(d, E) = Debt(x, E) \ {e.id}
    BY <1>4, <1>5, RetireKeeps
  <1>7. Debt(d, E) = {} /\ OpenCalls(d) \cap E = {}
    BY <1>3, <1>4, <1>6 DEF DyingAsks
  <1> QED BY <1>6, <1>7, Settles

LEMMA ReceiveReplyKeeps ==
    ASSUME NEW c, Exact(c), NEW s, NEW e, NEW x, HandedOver(c, s, e, x),
           e.kind = "Reply", NEW d, d = ReadReply(x, e)
    PROVE  Exact(d)
  <1>1. PICK E : E = {f.call : f \in {g \in {e} : MatchesCall(c, g)}}
    OBVIOUS
  <1>2. Expiring(x, E, x, {e}) /\ Detached(x, E, e)
    BY <1>1, HandedOverKeeps
  <1>3. Coherent(x, E) /\ \A m \in Debt(x, E) : m \in DyingAsks(x, E) \/ m = e.id
    BY <1>2 DEF Expiring
  <1>4. e.id \in Messages /\ e.call \in Calls /\ e.replyTo \in Messages
    <2>1. e \in Mail(c) /\ Coherent(c, {})
      BY DEF HandedOver, Exact
    <2>2. e.replyTo # None /\ e.replyTo \in Maybe(Messages)
      BY <2>1, CoherentMail
    <2> QED BY <2>1, <2>2, CoherentMail DEF Maybe
  <1>5. /\ e.id \notin Waits(x) \cup Asks(x, E)
        /\ e.replyTo \notin Waits(x) \cup Asks(x, E)
        /\ MatchesCall(x, e) =>
              e.call \in E /\ \A f \in Mail(x) : ~(MatchesCall(x, f) /\ f.call = e.call)
    BY <1>2 DEF Detached
  <1>6. PICK ended : ended = IF MatchesCall(x, e) THEN EndCall(x, e.call) ELSE x
    OBVIOUS
  <1>7. \A k \in E : k = e.call /\ MatchesCall(x, e)
    BY <1>1 DEF HandedOver, SameRest, MatchesCall
  <1>8. /\ Coherent(ended, E) /\ Debt(ended, E) = Debt(x, E)
        /\ Waits(ended) = Waits(x) /\ Asks(ended, E) = Asks(x, E)
        /\ OpenCalls(ended) \cap E = {}
    <2>1. CASE ~MatchesCall(x, e)
      BY <1>3, <1>6, <1>7, <2>1
    <2>2. CASE MatchesCall(x, e)
      <3>1. e.call \in OpenCalls(x)
        BY <1>4, <2>2 DEF MatchesCall, OpenCalls
      <3>2. \A f \in Mail(x) : f.id # x.calls[e.call].ask
        BY <1>3, <1>5, <2>2, <3>1, AskCarries
      <3>3. ended = EndCall(x, e.call)
        BY <1>6, <2>2
      <3>4. e.call \in E /\ \A f \in Mail(x) : ~(MatchesCall(x, f) /\ f.call = e.call)
        BY <1>5, <2>2
      <3>5. /\ Coherent(ended, E) /\ Debt(ended, E) = Debt(x, E)
            /\ ended.calls[e.call] = None
            /\ Waits(ended) = Waits(x) /\ Asks(ended, E) = Asks(x, E)
        BY <1>3, <1>4, <3>2, <3>3, <3>4, EndCallKeeps
      <3> QED BY <1>7, <3>5 DEF OpenCalls
    <2> QED BY <2>1, <2>2
  <1>9. "Received" \in States /\ "Replied" \in States
    BY DEF States
  <1>10. PICK read : read = Retire(ended, e.id, "Received")
    OBVIOUS
  <1>11. /\ Coherent(read, E) /\ Debt(read, E) = Debt(ended, E) \ {e.id}
         /\ SameMail(ended, read) /\ read.calls = ended.calls
    BY <1>4, <1>5, <1>8, <1>9, <1>10, RetireKeeps
  <1>12. /\ Waits(read) = Waits(x) /\ Asks(read, E) = Asks(x, E)
         /\ OpenCalls(read) \cap E = {}
    BY <1>8, <1>11 DEF SameMail, Waits, Asks, OpenCalls
  <1>13. d = Retire(read, e.replyTo, "Replied")
    BY <1>6, <1>10 DEF ReadReply
  <1>14. /\ Coherent(d, E) /\ Debt(d, E) = Debt(read, E) \ {e.replyTo}
         /\ d.calls = read.calls
    BY <1>4, <1>5, <1>9, <1>11, <1>12, <1>13, RetireKeeps
  <1>15. DyingAsks(x, E) \subseteq {e.replyTo}
    <2>1. ASSUME NEW k \in OpenCalls(x) \cap E
          PROVE  x.calls[k].ask = e.replyTo
      BY <1>7 DEF MatchesCall
    <2> QED BY <2>1 DEF DyingAsks
  <1>16. Debt(d, E) = {}
    BY <1>3, <1>8, <1>11, <1>14, <1>15
  <1>17. OpenCalls(d) \cap E = {}
    BY <1>12, <1>14 DEF OpenCalls
  <1> QED BY <1>14, <1>16, <1>17, Settles

LEMMA ReceiveAskKeeps ==
    ASSUME NEW c, Exact(c), NEW s, NEW e, NEW x, HandedOver(c, s, e, x),
           e.kind = "Ask", NEW d, d = ReadAsk(x, e)
    PROVE  Exact(d)
  <1>1. PICK E : E = {f.call : f \in {g \in {e} : MatchesCall(c, g)}}
    OBVIOUS
  <1>2. Expiring(x, E, x, {e}) /\ Detached(x, E, e)
    BY <1>1, HandedOverKeeps
  <1>3. Coherent(x, E) /\ \A m \in Debt(x, E) : m \in DyingAsks(x, E) \/ m = e.id
    BY <1>2 DEF Expiring
  <1>4. /\ e \in Mail(c) /\ Coherent(c, {}) /\ Lighter(c, x) /\ SameRest(c, x)
        /\ x \in CourierType /\ Mail(x) \subseteq Mail(c)
    BY DEF HandedOver, Exact, Sound
  <1>5. e.id \in Messages /\ e.call \in Calls /\ MailHolds(c, e, {}) /\ e.id \in Remaining(c)
    BY <1>4, CoherentMail
  <1>6. MatchesCall(c, e) /\ c.calls[e.call].stage = "Queued"
    BY <1>5 DEF MailHolds, Carries
  <1>7. PICK k : k = e.call
    OBVIOUS
  <1>8. E = {k} /\ k \in E
    BY <1>1, <1>6, <1>7
  <1>9. /\ k \in Calls /\ c.calls[k] # None /\ c.calls[k].ask = e.id
        /\ k \in OpenCalls(c) /\ k \in OpenCalls(x) /\ x.calls = c.calls
    BY <1>4, <1>5, <1>6, <1>7 DEF MatchesCall, OpenCalls, SameRest
  <1>10. d = SetStage(x, k, e.id, "Received")
    BY <1>7, <1>9 DEF ReadAsk, SetStage
  <1>11. "Received" \in Stages \cap States
    BY DEF Stages, States
  <1>12. Staged(x, k, x.calls[k].ask, "Received", d)
    BY <1>4, <1>5, <1>9, <1>10, <1>11, SetStageFields
  <1>13. \A f \in Mail(x) : ~(MatchesCall(x, f) /\ f.call = k)
    BY <1>2, <1>6, <1>7, <1>9 DEF Detached, MatchesCall
  <1>14. x.states[x.calls[k].ask] # None
    BY <1>4, <1>5, <1>9 DEF Remaining, SameRest
  <1>15. /\ Coherent(d, E) /\ Debt(d, E) = Debt(x, E) /\ Mail(d) = Mail(x)
         /\ Remaining(d) = Remaining(x)
         /\ \A t \in Sessions : IsLive(d, t) <=> IsLive(x, t)
         /\ RoundHolds(x, k) => RoundHolds(d, k)
    <2>1. Restaged(x, E, k, d)
      BY <1>3, <1>8, <1>9, <1>12, <1>13, <1>14, StagedKeeps
    <2> QED BY <2>1 DEF Restaged
  <1>16. /\ d.calls[k] # None /\ d.calls[k].stage = "Received" /\ d.calls[k].ask = e.id
         /\ d.calls[k].source = c.calls[k].source /\ d.calls[k].target = c.calls[k].target
    BY <1>9, <1>12 DEF Staged
  <1>17. k \in OpenCalls(d)
    BY <1>9, <1>16 DEF OpenCalls
  <1>18. CallHolds(d, k)
    <2>1. CallHolds(c, k) /\ c.calls[k].source \in Sessions /\ c.calls[k].target \in Sessions
      BY <1>4, <1>9, CallFields DEF Coherent, Sound
    <2>2. IsLive(d, c.calls[k].source) /\ IsLive(d, c.calls[k].target)
      BY <1>4, <1>15, <2>1, LighterLive DEF CallHolds
    <2>3. RoundHolds(d, k)
      BY <1>4, <1>15, <2>1 DEF CallHolds, RoundHolds, SameRest
    <2> QED BY <1>16, <2>2, <2>3 DEF CallHolds
  <1>19. e.id \in Remaining(d)
    BY <1>4, <1>5, <1>15 DEF Remaining, Ended, SameRest
  <1>20. ASSUME NEW f \in Mail(d), f.kind = "Reply", f.replyTo = e.id
         PROVE  FALSE
    <2>1. f \in Mail(c) /\ k \in OpenCalls(c) \ {} /\ f.replyTo = c.calls[k].ask
      BY <1>4, <1>9, <1>15, <1>20
    <2>2. f.call = k /\ Carries(c, f, "Replied")
      BY <1>4, <1>20, <2>1, ReplyCarries
    <2> QED BY <1>6, <1>7, <2>2 DEF Carries
  <1>21. Debt(d, E) \subseteq {d.calls[k].ask}
    BY <1>3, <1>8, <1>9, <1>15, <1>16 DEF DyingAsks
  <1> QED BY <1>8, <1>15, <1>16, <1>17, <1>18, <1>19, <1>20, <1>21, CallAdopted

LEMMA ReceiveKeeps ==
    ASSUME NEW c, Exact(c), NEW s \in Sessions, c.box[s] # None,
           NEW i \in DOMAIN c.box[s].queue, NEW d, d = Receive(c, s, i)
    PROVE  Exact(d)
  <1>1. Coherent(c, {}) /\ Sound(c) /\ c \in CourierType /\ Fits(c)
    BY ExactIsSound DEF Coherent
  <1>2. PICK q, e : q = c.box[s].queue /\ e = q[i]
    OBVIOUS
  <1>3. q \in Seq(Envelope) /\ i \in 1 .. Len(q) /\ e \in Envelope
    <2>1. q \in Seq(Envelope)
      BY <1>1, <1>2, MailboxFields
    <2>2. DOMAIN q = 1 .. Len(q)
      BY <2>1, LenProperties
    <2> QED BY <1>2, <2>1, <2>2, ElementOfSeq
  <1>4. PICK x : x = Without(c, s, RemoveAt(q, i), e.size)
    OBVIOUS
  <1>5. HandedOver(c, s, e, x)
    <2>1. /\ i \in 1 .. Len(c.box[s].queue)
          /\ x = Without(c, s, RemoveAt(c.box[s].queue, i), c.box[s].queue[i].size)
      BY <1>2, <1>3, <1>4
    <2>2. /\ Sound(x) /\ Lighter(c, x)
          /\ x.calls = c.calls /\ x.rooms = c.rooms
          /\ x.states = c.states /\ x.retired = c.retired
          /\ c.box[s].queue[i] \in Mail(c) /\ c.box[s].queue[i].target = s
          /\ Distinct(c.box[s].queue) => Mail(x) = Mail(c) \ {c.box[s].queue[i]}
      <3>1. Taken(c, s, i, x)
        BY <1>1, <2>1, WithoutEffect
      <3> QED BY <3>1 DEF Taken
    <2>3. Distinct(c.box[s].queue)
      BY <1>1 DEF Fits
    <2> QED BY <1>2, <2>2, <2>3 DEF HandedOver, SameRest
  <1>6. CASE e.kind \in {"Tell", "Cancel"}
    <2>1. d = Retire(x, e.id, "Received") /\ "Received" \in States
      BY <1>2, <1>4, <1>6 DEF Receive, States
    <2> QED BY <1>5, <1>6, <2>1, ReceiveTellKeeps
  <1>7. CASE e.kind = "Ask"
    <2>1. d = ReadAsk(x, e)
      BY <1>2, <1>4, <1>7 DEF Receive
    <2> QED BY <1>5, <1>7, <2>1, ReceiveAskKeeps
  <1>8. CASE e.kind = "Reply"
    <2>1. d = ReadReply(x, e)
      BY <1>2, <1>4, <1>8 DEF Receive
    <2> QED BY <1>5, <1>8, <2>1, ReceiveReplyKeeps
  <1> QED BY <1>3, <1>6, <1>7, <1>8 DEF Envelope, Kinds

\* No reply that waits answers a message of the name m, not yet sent.
Unanswered(c, m) == \A f \in Mail(c) : f.kind = "Reply" => f.replyTo # m

CallOf(e) == [ask |-> e.id, source |-> e.source, target |-> e.target,
              deadline |-> e.deadline, stage |-> "Queued", room |-> e.room]
OpenCall(c, e) == [c EXCEPT !.calls[e.call] = CallOf(e)]

LEMMA OpenCallFields ==
    ASSUME NEW c \in CourierType, NEW e \in Envelope, NEW d, d = OpenCall(c, e)
    PROVE  /\ d \in CourierType /\ d.box = c.box /\ d.charged = c.charged
           /\ d.rooms = c.rooms /\ d.states = c.states /\ d.retired = c.retired
           /\ \A l \in Calls \ {e.call} : d.calls[l] = c.calls[l]
           /\ d.calls[e.call] = CallOf(e) /\ CallOf(e) # None
  <1>1. PICK call : call = CallOf(e)
    OBVIOUS
  <1>2. call \in Call /\ e.call \in Calls
    BY <1>1 DEF CallOf, Call, Envelope, Stages
  <1>3. call # None
    BY <1>2, NoneAssumption
  <1>4. PICK calls : calls = [c.calls EXCEPT ![e.call] = call]
    OBVIOUS
  <1>5. /\ calls \in [Calls -> Maybe(Call)] /\ calls[e.call] = call
        /\ \A l \in Calls \ {e.call} : calls[l] = c.calls[l]
    BY <1>2, <1>4, CourierFields DEF Maybe
  <1>6. d = [c EXCEPT !.calls = calls]
    BY <1>1, <1>4 DEF OpenCall
  <1>7. /\ d \in CourierType /\ d.box = c.box /\ d.charged = c.charged
        /\ d.rooms = c.rooms /\ d.states = c.states /\ d.retired = c.retired
        /\ d.calls = calls
    BY <1>5, <1>6 DEF CourierType
  <1> QED BY <1>1, <1>3, <1>5, <1>7

\* A Tell waits.
LEMMA RouteTellKeeps ==
    ASSUME NEW c, Exact(c), NEW e \in Envelope, e.kind = "Tell", NEW time,
           AdmitShape(c, e, time), AdmitRoute(c, e), Unanswered(c, e.id), e.room = None,
           NEW d, d = Route(c, e)
    PROVE  Exact(d)
  <1>1. Coherent(c, {}) /\ c \in CourierType /\ Debt(c, {}) = {}
    BY ExactIsSound DEF Exact
  <1>2. d = Enqueue(c, e)
    BY DEF Route
  <1>3. /\ c.states[e.id] = None /\ (e.replyTo = None <=> e.kind \in {"Tell", "Ask"})
        /\ e.target \in Sessions
    BY DEF AdmitShape, Envelope
  <1>4. c.box[e.target] # None /\ HasRoom(c, e.target, e.size)
    BY <1>1, <1>3, RoomForHasRoom DEF AdmitRoute
  <1>5. \A k \in OpenCalls(c) : c.calls[k].ask # e.id
    BY <1>1, <1>3 DEF Coherent, Asks, Remaining
  <1>6. MayWait(c, e)
    BY <1>3, <1>4, <1>5 DEF MayWait, Unanswered
  <1>7. Coherent(d, {}) /\ Debt(d, {}) = Debt(c, {})
    BY <1>1, <1>2, <1>6, EnqueueKeeps
  <1> QED BY <1>1, <1>7 DEF Exact

\* d is c with the ask e waiting and its call open, but for the room's part in it.
AskRouted(c, D, e, d) ==
    /\ Coherent(d, D) /\ Debt(d, D) = {} /\ Mail(d) = Mail(c) \cup {e}
    /\ d.rooms = c.rooms
    /\ \A l \in Calls \ {e.call} : d.calls[l] = c.calls[l]
    /\ e.call \in OpenCalls(d) /\ d.calls[e.call] = CallOf(e)
    /\ e.id \in Remaining(d)
    /\ \A s \in Sessions : IsLive(d, s) <=> IsLive(c, s)
    /\ Unanswered(d, e.id)

LEMMA RouteAskKeeps ==
    ASSUME NEW c, Exact(c), NEW e \in Envelope, e.kind = "Ask", NEW time,
           AdmitShape(c, e, time), AdmitRoute(c, e), Unanswered(c, e.id),
           e.room # None => c.rooms[e.room] # None,
           NEW D, D = {e.call}, NEW d, d = Route(c, e)
    PROVE  AskRouted(c, D, e, d)
  <1>1. Coherent(c, {}) /\ c \in CourierType /\ Debt(c, {}) = {} /\ Sound(c)
    BY ExactIsSound DEF Exact
  <1>2. Coherent(c, D)
    <2>1. \A E : Coherent(c, E)
      BY <1>1, CoherentWider
    <2> QED BY <2>1
  <1>3. /\ c.states[e.id] = None /\ (e.replyTo = None <=> e.kind \in {"Tell", "Ask"})
        /\ e.target \in Sessions /\ e.call \in Calls /\ e.id \in Messages
        /\ e.source # e.target
    BY DEF AdmitShape, Envelope
  <1>4. c.box[e.target] # None /\ HasRoom(c, e.target, e.size) /\ c.calls[e.call] = None
    BY <1>1, <1>3, RoomForHasRoom DEF AdmitRoute
  <1>5. e.id \notin Waits(c) /\ \A k \in OpenCalls(c) : c.calls[k].ask # e.id
    BY <1>1, <1>3 DEF Coherent, Asks, Remaining
  <1>6. PICK x : x = OpenCall(c, e)
    OBVIOUS
  <1>7. /\ x \in CourierType /\ x.box = c.box /\ x.charged = c.charged
        /\ x.rooms = c.rooms /\ x.states = c.states /\ x.retired = c.retired
        /\ \A l \in Calls \ {e.call} : x.calls[l] = c.calls[l]
        /\ x.calls[e.call] = CallOf(e) /\ x.calls[e.call] # None
    BY <1>1, <1>6, OpenCallFields
  <1>8. Sound(x)
    BY <1>1, <1>7, NoMailMoves
  <1>9. CallSet(c, e.call, x)
    <2>1. /\ x.calls[e.call].ask = e.id /\ x.calls[e.call].source = e.source
          /\ x.calls[e.call].target = e.target
      BY <1>7 DEF CallOf
    <2> QED BY <1>3, <1>5, <1>7, <2>1 DEF CallSet, Waits
  <1>10. \A f \in Mail(c) : ~(MatchesCall(c, f) /\ f.call = e.call)
    BY <1>4 DEF MatchesCall
  <1>11. e.call \in D
    OBVIOUS
  <1>12. /\ Coherent(x, D) /\ Debt(x, D) = Debt(c, D) /\ Mail(x) = Mail(c)
         /\ Waits(x) = Waits(c) /\ Asks(x, D) = Asks(c, D)
    BY <1>2, <1>3, <1>8, <1>9, <1>10, <1>11, SetCallKeeps
  <1>13. MayWait(x, e)
    <2>1. Carries(x, e, "Queued")
      <3>1. /\ x.calls[e.call].ask = e.id /\ x.calls[e.call].source = e.source
            /\ x.calls[e.call].target = e.target /\ x.calls[e.call].stage = "Queued"
            /\ x.calls[e.call].room = e.room /\ x.calls[e.call].deadline = e.deadline
        BY <1>7 DEF CallOf
      <3>2. e.deadline \in Nat
        BY DEF Envelope
      <3>3. e.deadline <= x.calls[e.call].deadline /\ e.deadline = x.calls[e.call].deadline
        BY <3>1, <3>2
      <3>4. MatchesCall(x, e)
        BY <1>3, <1>7, <3>1 DEF MatchesCall
      <3> QED BY <3>1, <3>3, <3>4 DEF Carries
    <2>2. HasRoom(x, e.target, e.size)
      BY <1>4, <1>7 DEF HasRoom
    <2>3. ASSUME NEW k \in OpenCalls(x), x.calls[k].ask = e.id
          PROVE  e.call = k
      BY <1>5, <1>7, <2>3 DEF OpenCalls
    <2> QED BY <1>3, <1>4, <1>7, <1>12, <2>1, <2>2, <2>3 DEF MayWait, Unanswered
  <1>14. d = Enqueue(x, e)
    BY <1>6 DEF Route, OpenCall, CallOf
  <1>15. Coherent(d, D) /\ Queued(x, e, d) /\ Debt(d, D) = Debt(x, D)
    BY <1>12, <1>13, <1>14, EnqueueKeeps
  <1>16. Debt(c, D) = {}
    <2>1. Asks(c, D) = Asks(c, {})
      BY <1>4 DEF Asks, OpenCalls
    <2> QED BY <1>1, <2>1 DEF Debt
  <1>17. /\ Mail(d) = Mail(c) \cup {e} /\ d.rooms = c.rooms /\ d.calls = x.calls
         /\ SameBoxes(x, d)
    BY <1>7, <1>12, <1>15 DEF Queued
  <1>18. \A s \in Sessions : IsLive(d, s) <=> IsLive(c, s)
    BY <1>7, <1>17 DEF SameBoxes, IsLive
  <1>19. e.id \in Remaining(d)
    <2>1. e.id \in Waits(d)
      BY <1>17 DEF Waits
    <2> QED BY <1>15, <2>1 DEF Coherent
  <1>20. Unanswered(d, e.id)
    BY <1>17 DEF Unanswered
  <1>21. e.call \in OpenCalls(d)
    BY <1>3, <1>7, <1>17 DEF OpenCalls
  <1> QED BY <1>7, <1>12, <1>15, <1>16, <1>17, <1>18, <1>19, <1>20, <1>21 DEF AskRouted

\* An ask outside of rooms is a call.
LEMMA RoutedAskKeeps ==
    ASSUME NEW c, Exact(c), NEW e \in Envelope, e.kind = "Ask", NEW time,
           AdmitShape(c, e, time), AdmitRoute(c, e), Unanswered(c, e.id), e.room = None,
           NEW d, d = Route(c, e)
    PROVE  Exact(d)
  <1>1. PICK D : D = {e.call}
    OBVIOUS
  <1>2. AskRouted(c, D, e, d)
    BY <1>1, RouteAskKeeps
  <1>3. PICK k : k = e.call
    OBVIOUS
  <1>4. /\ Coherent(d, D) /\ Debt(d, D) = {} /\ e \in Mail(d)
        /\ k \in OpenCalls(d) /\ d.calls[k] = CallOf(e) /\ d.calls[k].ask = e.id
        /\ e.id \in Remaining(d) /\ D = {k}
    BY <1>1, <1>2, <1>3 DEF AskRouted, CallOf
  <1>5. IsLive(d, e.source) /\ IsLive(d, e.target)
    BY <1>2 DEF AskRouted, AdmitShape, Envelope
  <1>6. CallHolds(d, k)
    BY <1>4, <1>5 DEF CallHolds, RoundHolds, CallOf
  <1>7. \A f \in Mail(d) : ~(f.kind = "Reply" /\ f.replyTo = d.calls[k].ask)
    BY <1>2, <1>4 DEF AskRouted, Unanswered
  <1> QED BY <1>4, <1>6, <1>7, CallAdopted

\* The reply of e as it is queued: it does not outlive its call, and has its room.
AsQueued(c, e, f) ==
    /\ f \in Envelope /\ f.id = e.id /\ f.kind = e.kind /\ f.replyTo = e.replyTo
    /\ f.call = e.call /\ f.source = e.source /\ f.target = e.target /\ f.size = e.size
    /\ f.room = c.calls[e.call].room /\ f.deadline <= c.calls[e.call].deadline

LEMMA ReplySent ==
    ASSUME NEW c \in CourierType, NEW e \in Envelope, c.calls[e.call] # None
    PROVE  \E f : /\ AsQueued(c, e, f)
                  /\ Reply(c, e) = Enqueue(SetStage(c, e.call, c.calls[e.call].ask, "Replied"), f)
  <1>1. PICK call : call = c.calls[e.call]
    OBVIOUS
  <1>2. call.deadline \in Nat /\ call.room \in Maybe(Rooms) /\ e.deadline \in Nat
    BY <1>1, CallFields DEF Envelope
  <1>3. PICK sooner : sooner = IF e.deadline < call.deadline THEN e.deadline ELSE call.deadline
    OBVIOUS
  <1>4. sooner \in Nat /\ sooner <= call.deadline
    BY <1>2, <1>3
  <1>5. PICK f : f = [e EXCEPT !.deadline = sooner, !.room = call.room]
    OBVIOUS
  <1>6. /\ f \in Envelope /\ f.id = e.id /\ f.kind = e.kind /\ f.replyTo = e.replyTo
        /\ f.call = e.call /\ f.source = e.source /\ f.target = e.target
        /\ f.size = e.size /\ f.room = call.room /\ f.deadline = sooner
    BY <1>2, <1>4, <1>5 DEF Envelope
  <1>7. Reply(c, e) = Enqueue(SetStage(c, e.call, call.ask, "Replied"), f)
    BY <1>1, <1>3, <1>5 DEF Reply, SetStage
  <1>8. AsQueued(c, e, f)
    BY <1>1, <1>4, <1>6 DEF AsQueued
  <1> QED BY <1>1, <1>7, <1>8

\* A reply waits, and its call with it.
LEMMA ReplyKeeps ==
    ASSUME NEW c, Exact(c), NEW e \in Envelope, e.kind = "Reply", NEW time,
           AdmitShape(c, e, time), AdmitReply(c, e, time), Unanswered(c, e.id),
           NEW d, d = Reply(c, e)
    PROVE  Exact(d)
  <1>1. Coherent(c, {}) /\ c \in CourierType /\ Debt(c, {}) = {} /\ Sound(c)
    BY ExactIsSound DEF Exact
  <1>2. PICK k \in Calls : k = e.call
    BY DEF Envelope
  <1>3. PICK m : m = c.calls[k].ask
    OBVIOUS
  <1>4. /\ c.calls[k] # None /\ k \in OpenCalls(c) /\ c.calls[k].stage = "Received"
        /\ m = e.replyTo /\ c.calls[k].target = e.source /\ c.calls[k].source = e.target
    BY <1>2, <1>3 DEF AdmitReply, OpenCalls
  <1>5. /\ c.states[e.id] = None /\ e.target \in Sessions /\ e.id \in Messages
        /\ e.source # e.target /\ (e.replyTo = None <=> e.kind \in {"Tell", "Ask"})
    BY DEF AdmitShape, Envelope
  <1>6. c.box[e.target] # None /\ HasRoom(c, e.target, e.size)
    BY <1>1, <1>5, RoomForHasRoom DEF AdmitReply
  <1>7. PICK f \in Envelope :
             /\ f.id = e.id /\ f.kind = "Reply" /\ f.replyTo = m /\ f.call = k
             /\ f.source = e.source /\ f.target = e.target /\ f.size = e.size
             /\ f.room = c.calls[k].room /\ f.deadline <= c.calls[k].deadline
             /\ d = Enqueue(SetStage(c, k, m, "Replied"), f)
    <2>1. c.calls[e.call] # None
      BY <1>2, <1>4
    <2>2. PICK f : /\ AsQueued(c, e, f)
                   /\ Reply(c, e) = Enqueue(SetStage(c, e.call, c.calls[e.call].ask, "Replied"), f)
      BY <1>1, <2>1, ReplySent
    <2> QED BY <1>2, <1>3, <1>4, <2>2 DEF AsQueued
  <1>8. PICK D : D = {k} /\ Coherent(c, D)
    <2>1. \A D : Coherent(c, D)
      BY <1>1, CoherentWider
    <2> QED BY <2>1
  <1>9. PICK x : x = SetStage(c, k, m, "Replied")
    OBVIOUS
  <1>10. m \in Messages /\ m \in Remaining(c) /\ c.states[m] # None
    <2>1. m \in Asks(c, {})
      BY <1>3, <1>4 DEF Asks
    <2>2. m \in Remaining(c)
      BY <1>1, <2>1 DEF Coherent
    <2> QED BY <2>2 DEF Remaining
  <1>11. Staged(c, k, m, "Replied", x)
    <2>1. "Replied" \in Stages \cap States
      BY DEF Stages, States
    <2> QED BY <1>1, <1>4, <1>9, <1>10, <2>1, SetStageFields
  <1>12. \A g \in Mail(c) : ~(MatchesCall(c, g) /\ g.call = k)
    <2>1. ASSUME NEW g \in Mail(c), MatchesCall(c, g), g.call = k
          PROVE  FALSE
      <3>1. g.kind = "Ask" \/ g.kind = "Reply"
        BY <2>1 DEF MatchesCall
      <3>2. CASE g.kind = "Ask"
        <4>1. g.id = c.calls[k].ask
          BY <2>1, <3>2 DEF MatchesCall
        <4>2. Carries(c, g, "Queued")
          BY <1>1, <1>4, <4>1, AskCarries
        <4> QED BY <1>4, <2>1, <4>2 DEF Carries
      <3>3. CASE g.kind = "Reply"
        <4>1. g.replyTo = c.calls[k].ask
          BY <2>1, <3>3 DEF MatchesCall
        <4>2. k \in OpenCalls(c) \ {}
          BY <1>4
        <4>3. Carries(c, g, "Replied")
          BY <1>1, <3>3, <4>1, <4>2, ReplyCarries
        <4> QED BY <1>4, <2>1, <4>3 DEF Carries
      <3> QED BY <3>1, <3>2, <3>3
    <2> QED BY <2>1
  <1>13. \A g \in Mail(c) : g.kind = "Reply" => g.replyTo # m
    <2>1. ASSUME NEW g \in Mail(c), g.kind = "Reply", g.replyTo = m
          PROVE  FALSE
      <3>1. k \in OpenCalls(c) \ {} /\ g.replyTo = c.calls[k].ask
        BY <1>3, <1>4, <2>1
      <3>2. g.call = k /\ MatchesCall(c, g)
        BY <1>1, <2>1, <3>1, ReplyCarries
      <3> QED BY <1>12, <3>2
    <2> QED BY <2>1
  <1>14. Restaged(c, D, k, x)
    <2>1. k \in D /\ c.states[c.calls[k].ask] # None /\ Staged(c, k, c.calls[k].ask, "Replied", x)
      BY <1>3, <1>8, <1>10, <1>11
    <2> QED BY <1>4, <1>8, <1>12, <2>1, StagedKeeps
  <1>15. /\ x.box = c.box /\ x.charged = c.charged /\ x.rooms = c.rooms
         /\ x.calls[k] # None /\ x.calls[k].stage = "Replied" /\ x.calls[k].ask = m
         /\ x.calls[k].source = e.target /\ x.calls[k].target = e.source
         /\ x.calls[k].deadline = c.calls[k].deadline /\ x.calls[k].room = c.calls[k].room
         /\ \A l \in Calls \ {k} : x.calls[l] = c.calls[l]
         /\ \A n \in Messages : n # m => x.states[n] = c.states[n]
    BY <1>3, <1>4, <1>11 DEF Staged
  <1>16. /\ Coherent(x, D) /\ Debt(x, D) = Debt(c, D) /\ Mail(x) = Mail(c)
         /\ Remaining(x) = Remaining(c)
         /\ \A s \in Sessions : IsLive(x, s) <=> IsLive(c, s)
         /\ RoundHolds(c, k) => RoundHolds(x, k)
    BY <1>14 DEF Restaged
  <1>17. CallHolds(c, k)
    BY <1>1, <1>4 DEF Coherent
  <1>18. Carries(x, f, "Replied")
    <2>1. MatchesCall(x, f)
      BY <1>7, <1>15 DEF MatchesCall
    <2> QED BY <1>7, <1>15, <2>1 DEF Carries
  <1>19. f.room # None => x.rooms[f.room] # None
    BY <1>7, <1>15, <1>17 DEF CallHolds, RoundHolds
  <1>20. \A l \in OpenCalls(x) : x.calls[l].ask # f.id
    <2>1. \A l \in OpenCalls(c) : c.calls[l].ask # e.id
      BY <1>1, <1>5 DEF Coherent, Asks, Remaining
    <2> QED BY <1>4, <1>5, <1>7, <1>10, <1>15, <2>1 DEF OpenCalls
  <1>21. MayWait(x, f)
    <2>1. x.box[f.target] # None /\ HasRoom(x, f.target, f.size)
      BY <1>6, <1>7, <1>15 DEF HasRoom
    <2>2. x.states[f.id] = None
      BY <1>5, <1>7, <1>10, <1>15
    <2>3. \A g \in Mail(x) : g.kind = "Reply" => g.replyTo # f.id /\ g.replyTo # f.replyTo
      BY <1>7, <1>13, <1>16 DEF Unanswered
    <2>4. f.replyTo = None <=> f.kind \in {"Tell", "Ask"}
      BY <1>4, <1>5, <1>7
    <2> QED BY <1>7, <1>18, <1>19, <1>20, <2>1, <2>2, <2>3, <2>4 DEF MayWait
  <1>22. Coherent(d, D) /\ Queued(x, f, d) /\ Debt(d, D) = Debt(x, D)
    BY <1>7, <1>9, <1>16, <1>21, EnqueueKeeps
  <1>23. /\ Mail(d) = Mail(c) \cup {f} /\ d.calls = x.calls /\ d.rooms = x.rooms
         /\ SameBoxes(x, d) /\ d.retired = x.retired
         /\ d.states = [x.states EXCEPT ![f.id] = "Accepted"]
    BY <1>16, <1>22 DEF Queued
  <1>24. \A s \in Sessions : IsLive(d, s) <=> IsLive(c, s)
    BY <1>16, <1>23 DEF SameBoxes, IsLive
  <1>25. CallHolds(d, k)
    <2>1. RoundHolds(d, k)
      <3>1. RoundHolds(x, k)
        BY <1>16, <1>17 DEF CallHolds
      <3> QED BY <1>23, <3>1 DEF RoundHolds
    <2>2. IsLive(d, e.source) /\ IsLive(d, e.target)
      BY <1>5, <1>24 DEF AdmitShape, Envelope
    <2>3. \E g \in Mail(d) : g.kind = "Reply" /\ g.replyTo = m
      BY <1>7, <1>23
    <2> QED BY <1>15, <1>23, <2>1, <2>2, <2>3 DEF CallHolds
  <1>26. m \in Remaining(d)
    <2>1. m \in Remaining(x) /\ x.states \in [Messages -> Maybe(States)]
      BY <1>10, <1>11, <1>16, CourierFields DEF Staged
    <2>2. d.states[m] = x.states[m]
      BY <1>5, <1>7, <1>10, <1>23, <2>1
    <2> QED BY <1>10, <1>23, <2>1, <2>2 DEF Remaining, Ended
  <1>27. ASSUME NEW g \in Mail(d), g.kind = "Reply", g.replyTo = d.calls[k].ask
         PROVE  Carries(d, g, "Replied")
    <2>1. g = f
      BY <1>13, <1>15, <1>23, <1>27
    <2> QED BY <1>18, <1>23, <2>1 DEF Carries, MatchesCall
  <1>28. Debt(d, D) \subseteq {m}
    <2>1. \A n \in Asks(c, {}) : n \in Asks(c, D) \/ n = m
      BY <1>3, <1>8 DEF Asks
    <2>2. Debt(c, D) \subseteq {m}
      BY <1>1, <2>1 DEF Debt
    <2> QED BY <1>16, <1>22, <2>2
  <1>29. k \in OpenCalls(d) /\ d.calls[k].ask = m
    BY <1>15, <1>23 DEF OpenCalls
  <1> QED BY <1>8, <1>22, <1>25, <1>26, <1>27, <1>28, <1>29, CallAdopted

\* The bytes of what is read out of a queue, when that is one message.
LEMMA BytesOfOne ==
    ASSUME NEW q \in Seq(Envelope), Distinct(q), NEW S, NEW x \in Range(q),
           \A e \in Range(q) : e \in S <=> e = x
    PROVE  Bytes(Only(q, S)) = x.size
  <1>1. PICK p : p = Only(q, S)
    OBVIOUS
  <1>2. p \in Seq(Envelope) /\ Range(p) = Range(q) \cap S /\ Distinct(p)
    BY <1>1, OnlyProperties
  <1>3. Len(p) \in Nat /\ DOMAIN p = 1 .. Len(p)
    BY <1>2, LenProperties
  <1>4. \A i \in 1 .. Len(p) : p[i] = x
    BY <1>2, <1>3 DEF Range
  <1>5. \E i \in 1 .. Len(p) : p[i] = x
    BY <1>2, <1>3 DEF Range
  <1>6. \A i, j \in 1 .. Len(p) : i = j
    BY <1>2, <1>4 DEF Distinct
  <1>7. Len(p) = 1
    <2>1. Len(p) >= 1
      BY <1>3, <1>5
    <2>2. ~(Len(p) >= 2)
      <3>1. ASSUME Len(p) >= 2
            PROVE  FALSE
        <4>1. 1 \in 1 .. Len(p) /\ 2 \in 1 .. Len(p)
          BY <1>3, <3>1
        <4>2. 1 = 2
          BY <1>6, <4>1
        <4> QED BY <4>2
      <3> QED BY <3>1
    <2> QED BY <1>3, <2>1, <2>2
  <1>8. 1 \in 1 .. Len(p) /\ p[1] = x
    BY <1>4, <1>7
  <1>9. /\ RemoveAt(p, 1) \in Seq(Envelope) /\ Len(RemoveAt(p, 1)) = Len(p) - 1
        /\ Bytes(p) = Bytes(RemoveAt(p, 1)) + p[1].size
    BY <1>2, <1>8, RemoveAtProperties
  <1>10. RemoveAt(p, 1) = <<>>
    BY <1>7, <1>9, EmptySeq
  <1>11. x.size \in Nat
    <2>1. x \in Envelope
      BY <1>2, <1>8, ElementOfSeq
    <2> QED BY <2>1 DEF Envelope
  <1> QED BY <1>1, <1>7, <1>8, <1>9, <1>10, <1>11, BytesSteps

\* What a withdrawn message leaves is room for another: the check that counted
\* it as freed was right.
LEMMA WithdrawMakesRoom ==
    ASSUME NEW c, Sound(c), Fits(c), UniqueMail(c), NEW s \in Sessions,
           NEW x \in Mail(c), x.target = s, NEW m, x.id = m, NEW size \in Nat,
           RoomFor(c, s, size, [envelopes |-> 1, bytes |-> QueuedBytes(c, s, m)]),
           NEW a, a = Withdraw(c, s, m)
    PROVE  a.box[s] # None /\ HasRoom(a, s, size)
  <1>1. c \in CourierType /\ Addressed(c) /\ c.box[s] # None
    BY DEF Sound, RoomFor
  <1>2. PICK q, named : q = c.box[s].queue /\ named = {i \in DOMAIN q : q[i].id = m}
    OBVIOUS
  <1>3. q \in Seq(Envelope) /\ Range(q) \subseteq Mail(c) /\ x \in Range(q) /\ Distinct(q)
    <2>1. Range(q) \subseteq Mail(c) /\ x \in Range(q)
      BY <1>1, <1>2, MailAt
    <2>2. q \in Seq(Envelope)
      BY <1>1, <1>2, MailboxFields
    <2> QED BY <1>1, <1>2, <2>1, <2>2 DEF Fits
  <1>4. DOMAIN q = 1 .. Len(q) /\ Len(q) \in Nat
    BY <1>3, LenProperties
  <1>5. named \in SUBSET Nat /\ named # {}
    <2>1. PICK i \in DOMAIN q : q[i] = x
      BY <1>3 DEF Range
    <2>2. i \in named
      BY <1>2, <2>1
    <2>3. named \in SUBSET Nat
      BY <1>2, <1>4
    <2> QED BY <2>2, <2>3
  <1>6. PICK i : i = Min(named) /\ i \in named
    BY <1>5, MinOfNat
  <1>7. i \in 1 .. Len(q) /\ q[i] = x
    <2>1. i \in DOMAIN q /\ q[i].id = m
      BY <1>2, <1>6, Zenon
    <2>2. q[i] \in Mail(c)
      BY <1>3, <2>1 DEF Range
    <2> QED BY <1>4, <2>1, <2>2 DEF UniqueMail
  <1>8. PICK n : n = x.size /\ n \in Nat
    <2>1. x \in Envelope
      BY <1>3, <1>7, ElementOfSeq
    <2> QED BY <2>1 DEF Envelope
  <1>9. PICK p : p = RemoveAt(q, i)
    OBVIOUS
  <1>10. p \in Seq(Envelope) /\ Len(p) = Len(q) - 1
    BY <1>3, <1>7, <1>9, RemoveAtProperties
  <1>11. a = Without(c, s, p, n)
    <2>1. Withdraw(c, s, m) = IF c.box[s] = None \/ named = {} THEN c
                              ELSE Without(c, s, RemoveAt(q, Min(named)), q[Min(named)].size)
      BY <1>2 DEF Withdraw
    <2>2. a = Without(c, s, RemoveAt(q, Min(named)), q[Min(named)].size)
      BY <1>1, <1>5, <2>1
    <2> QED BY <1>6, <1>7, <1>8, <1>9, <2>2, Zenon
  <1>12. PICK b, charged : b = c.box[s] /\ charged = Minus(c.charged, n)
    OBVIOUS
  <1>13. /\ a.box = [z \in Sessions |->
                       IF z = s THEN [ready |-> b.ready, queue |-> p, bytes |-> Minus(b.bytes, n)]
                       ELSE c.box[z]]
         /\ a.charged = charged /\ a \in CourierType
    BY <1>1, <1>8, <1>10, <1>11, <1>12, WithoutFields
  <1>14. a.box[s].queue = p /\ a.box[s].bytes = Minus(b.bytes, n) /\ a.box[s] # None
    <2>1. PICK y : y = [ready |-> b.ready, queue |-> p, bytes |-> Minus(b.bytes, n)]
      OBVIOUS
    <2>2. b.bytes \in Nat /\ b.ready \in BOOLEAN
      BY <1>1, <1>12, MailboxFields DEF Mailbox
    <2>3. y # None
      BY <1>8, <1>10, <2>1, <2>2, MakeMailbox, MinusIsNat
    <2>4. a.box[s] = y
      BY <1>13, <2>1
    <2> QED BY <2>1, <2>3, <2>4
  <1>15. QueuedBytes(c, s, m) = n
    <2>1. PICK S : S = {e \in Range(q) : e.id = m}
      OBVIOUS
    <2>2. \A e \in Range(q) : e \in S <=> e = x
      BY <1>3, <2>1 DEF UniqueMail
    <2>3. Bytes(Only(q, S)) = x.size
      BY <1>3, <2>2, BytesOfOne
    <2> QED BY <1>1, <1>2, <1>8, <2>1, <2>3 DEF QueuedBytes
  <1>16. /\ Minus(Len(q), 1) < MailboxEnvelopes
         /\ Minus(b.bytes, n) + size <= MailboxBytes
         /\ charged + size <= RuntimeBytes
    BY <1>2, <1>12, <1>15 DEF RoomFor
  <1>17. Minus(Len(q), 1) = Len(p)
    BY <1>4, <1>7, <1>10 DEF Minus
  <1> QED BY <1>13, <1>14, <1>16, <1>17 DEF HasRoom

\* d is b with the envelope e in the room of call k of c.
SentOf(c, e, k, b, d) ==
    \E f : /\ f \in Envelope /\ f.id = e.id /\ f.kind = e.kind
           /\ f.replyTo = e.replyTo /\ f.target = e.target /\ f.size = e.size
           /\ f.room = c.calls[k].room
           /\ d = Enqueue(b, f)

\* A cancellation as it is queued: it has the room of its call.
LEMMA CancelSent ==
    ASSUME NEW c \in CourierType, NEW e \in Envelope, NEW k \in Calls, k = e.call,
           c.calls[k] # None,
           NEW a, a = IF c.calls[k].stage = "Queued"
                        THEN Withdraw(c, c.calls[k].target, c.calls[k].ask) ELSE c,
           NEW b, b = Retire(EndCall(a, k), c.calls[k].ask, "Cancelled"),
           NEW d, d = Cancel(c, e)
    PROVE  SentOf(c, e, k, b, d)
  <1>1. PICK call : call = c.calls[k]
    OBVIOUS
  <1>2. call.room \in Maybe(Rooms)
    BY <1>1, CallFields DEF Envelope
  <1>3. PICK f : f = [e EXCEPT !.room = call.room]
    OBVIOUS
  <1>4. /\ f \in Envelope /\ f.id = e.id /\ f.kind = e.kind /\ f.replyTo = e.replyTo
        /\ f.target = e.target /\ f.size = e.size /\ f.room = call.room
    BY <1>2, <1>3 DEF Envelope
  <1>5. d = Enqueue(b, f)
    BY <1>1, <1>3 DEF Cancel
  <1>6. f.room = c.calls[k].room
    BY <1>1, <1>4
  <1>7. \E x : /\ x \in Envelope /\ x.id = e.id /\ x.kind = e.kind
               /\ x.replyTo = e.replyTo /\ x.target = e.target /\ x.size = e.size
               /\ x.room = c.calls[k].room
               /\ d = Enqueue(b, x)
    BY ONLY <1>4, <1>5, <1>6
  <1> QED BY <1>7 DEF SentOf

\* A cancellation takes the place of the call, and of its ask if that is unread.
LEMMA CancelKeeps ==
    ASSUME NEW c, Exact(c), NEW e \in Envelope, e.kind = "Cancel", NEW time,
           AdmitShape(c, e, time), AdmitCancel(c, e, time), Unanswered(c, e.id),
           NEW d, d = Cancel(c, e)
    PROVE  Exact(d)
  <1>1. Coherent(c, {}) /\ c \in CourierType /\ Sound(c)
    BY ExactIsSound
  <1>2. PICK k \in Calls : k = e.call
    BY DEF Envelope
  <1>3. PICK m, t : m = c.calls[k].ask /\ t = c.calls[k].target
    OBVIOUS
  <1>4. /\ k \in OpenCalls(c) /\ c.calls[k].stage # "Replied" /\ c.calls[k] # None
        /\ m = e.replyTo /\ t = e.target
        /\ RoomFor(c, e.target, e.size,
                   IF c.calls[k].stage = "Queued"
                     THEN [envelopes |-> 1, bytes |-> QueuedBytes(c, t, m)]
                     ELSE NothingFreed)
    BY <1>2, <1>3 DEF AdmitCancel, OpenCalls
  <1>5. /\ c.states[e.id] = None /\ e.target \in Sessions /\ e.id \in Messages
        /\ (e.replyTo = None <=> e.kind \in {"Tell", "Ask"}) /\ e.size \in Nat
    BY DEF AdmitShape, Envelope
  <1>6. PICK a : a = IF c.calls[k].stage = "Queued" THEN Withdraw(c, c.calls[k].target, c.calls[k].ask)
                     ELSE c
    OBVIOUS
  <1>7. PICK b : b = Retire(EndCall(a, k), m, "Cancelled")
    OBVIOUS
  <1>8. PICK f : /\ f \in Envelope /\ f.id = e.id /\ f.kind = e.kind
                 /\ f.replyTo = e.replyTo /\ f.target = e.target /\ f.size = e.size
                 /\ f.room = c.calls[k].room
                 /\ d = Enqueue(b, f)
    <2>1. b = Retire(EndCall(a, k), c.calls[k].ask, "Cancelled")
      BY <1>3, <1>7
    <2>2. SentOf(c, e, k, b, d)
      BY <1>1, <1>2, <1>4, <1>6, <2>1, CancelSent
    <2> QED BY <2>2 DEF SentOf
  <1>9. GivenUp(c, k, a, b)
    <2>1. PICK outcome \in States : b = Retire(EndCall(a, k), c.calls[k].ask, outcome)
      BY <1>3, <1>7 DEF States
    <2> QED BY <1>4, <1>6, <2>1, GiveUp
  <1>10. /\ Exact(b) /\ b.box = a.box /\ Mail(b) = Mail(a) /\ b.rooms = a.rooms
         /\ b.calls[k] = None /\ \A l \in Calls \ {k} : b.calls[l] = a.calls[l]
         /\ \A x \in Messages :
               b.states[x] # None => a.states[x] # None \/ x = a.calls[k].ask
         /\ a.calls = c.calls /\ a.rooms = c.rooms /\ a.states = c.states
         /\ Mail(a) \subseteq Mail(c) /\ Lighter(a, b)
    BY <1>9 DEF GivenUp, CallSettled, SameMail, SameRest
  <1>11. b.charged <= a.charged
    BY <1>10 DEF Lighter
  <1>12. a.box[t] # None /\ HasRoom(a, t, e.size)
    <2>1. CASE c.calls[k].stage = "Queued"
      <3>1. CallHolds(c, k)
        BY <1>1, <1>4 DEF Coherent
      <3>2. PICK x \in Mail(c) : x.id = m
        BY <1>3, <2>1, <3>1 DEF CallHolds
      <3>3. x.target = t
        <4>1. x.id = c.calls[k].ask
          BY <1>3, <3>2
        <4>2. x.kind = "Ask" /\ x.call = k /\ MatchesCall(c, x)
          BY <1>1, <1>4, <4>1, AskCarries
        <4> QED BY <1>3, <4>2 DEF MatchesCall
      <3>4. Fits(c) /\ UniqueMail(c) /\ t \in Sessions
        BY <1>1, <1>4, <1>5 DEF Coherent
      <3>5. RoomFor(c, t, e.size, [envelopes |-> 1, bytes |-> QueuedBytes(c, t, m)])
        BY <1>4, <2>1
      <3>6. a = Withdraw(c, t, m)
        BY <1>3, <1>6, <2>1
      <3> QED BY <1>1, <1>5, <3>2, <3>3, <3>4, <3>5, <3>6, WithdrawMakesRoom
    <2>2. CASE c.calls[k].stage # "Queued"
      <3>1. RoomFor(c, t, e.size, NothingFreed) /\ a = c
        BY <1>4, <1>6, <2>2
      <3> QED BY <1>1, <1>4, <1>5, <3>1, RoomForHasRoom
    <2> QED BY <2>1, <2>2
  <1>13. b.box[f.target] # None /\ HasRoom(b, f.target, f.size)
    <2>1. /\ a.charged \in Nat /\ b.charged \in Nat /\ RuntimeBytes \in Nat
      <3>1. b \in CourierType
        BY <1>10, ExactIsSound
      <3>2. a \in CourierType
        <4>1. a = c \/ a = Withdraw(c, c.calls[k].target, c.calls[k].ask)
          BY <1>6
        <4> QED BY <1>1, <1>3, <1>4, <1>5, <4>1, WithdrawEffect DEF Sound
      <3> QED BY <3>1, <3>2, CourierFields, CourierAssumption
    <2>2. b.charged + e.size <= RuntimeBytes
      BY <1>5, <1>11, <1>12, <2>1 DEF HasRoom
    <2> QED BY <1>4, <1>8, <1>10, <1>12, <2>2 DEF HasRoom
  <1>14. b.states[f.id] = None
    <2>1. c.states[m] # None
      BY <1>1, <1>3, <1>4 DEF Coherent, Asks, Remaining
    <2> QED BY <1>3, <1>5, <1>8, <1>10, <2>1
  <1>15. \A g \in Mail(b) : g.kind = "Reply" => g.replyTo # f.id
    BY <1>8, <1>10 DEF Unanswered
  <1>16. \A l \in OpenCalls(b) : b.calls[l].ask # f.id
    <2>1. \A l \in OpenCalls(c) : c.calls[l].ask # e.id
      BY <1>1, <1>5 DEF Coherent, Asks, Remaining
    <2> QED BY <1>8, <1>10, <2>1 DEF OpenCalls
  <1>17. f.room # None => b.rooms[f.room] # None
    <2>1. CallHolds(c, k)
      BY <1>1, <1>4 DEF Coherent
    <2> QED BY <1>8, <1>10, <2>1 DEF CallHolds, RoundHolds
  <1>18. MayWait(b, f)
    <2>1. f.kind = "Cancel" /\ (f.replyTo = None <=> f.kind \in {"Tell", "Ask"})
      BY <1>5, <1>8
    <2> QED BY <1>13, <1>14, <1>15, <1>16, <1>17, <2>1 DEF MayWait
  <1>19. Coherent(b, {}) /\ Debt(b, {}) = {}
    BY <1>10 DEF Exact
  <1>20. Coherent(d, {}) /\ Debt(d, {}) = Debt(b, {})
    BY <1>8, <1>18, <1>19, EnqueueKeeps
  <1> QED BY <1>19, <1>20 DEF Exact

\* A message is sent.  A Tell and an ask that a caller sends outside of the
\* rooms have no room; a reply and a cancellation get the room of their call.
LEMMA SendKeeps ==
    ASSUME NEW c, Exact(c), NEW e \in Envelope, NEW time, Accepts(c, e, time),
           Unanswered(c, e.id), e.kind \in {"Tell", "Ask"} => e.room = None,
           NEW d, d = Send(c, e)
    PROVE  Exact(d)
  <1>1. e.kind \in Kinds /\ AdmitShape(c, e, time)
    BY DEF Envelope, Accepts
  <1>2. CASE e.kind = "Tell"
    <2>1. d = Route(c, e) /\ AdmitRoute(c, e) /\ e.room = None
      BY <1>2 DEF Send, Accepts
    <2> QED BY <1>1, <1>2, <2>1, RouteTellKeeps
  <1>3. CASE e.kind = "Ask"
    <2>1. d = Route(c, e) /\ AdmitRoute(c, e) /\ e.room = None
      BY <1>3 DEF Send, Accepts
    <2> QED BY <1>1, <1>3, <2>1, RoutedAskKeeps
  <1>4. CASE e.kind = "Reply"
    <2>1. d = Reply(c, e) /\ AdmitReply(c, e, time)
      BY <1>4 DEF Send, Accepts
    <2> QED BY <1>1, <1>4, <2>1, ReplyKeeps
  <1>5. CASE e.kind = "Cancel"
    <2>1. d = Cancel(c, e) /\ AdmitCancel(c, e, time)
      BY <1>5 DEF Send, Accepts
    <2> QED BY <1>1, <1>5, <2>1, CancelKeeps
  <1> QED BY <1>1, <1>2, <1>3, <1>4, <1>5 DEF Kinds

\* A mailbox opens or closes, and nobody who takes part in a call or a room
\* loses one.
LEMMA BoxesKeep ==
    ASSUME NEW c, Exact(c), NEW d, Sound(d), Fits(d), Mail(d) = Mail(c), SameRest(c, d),
           \A x \in Sessions : IsLive(c, x) =>
              IsLive(d, x) \/ /\ \A k \in OpenCalls(c) : x \notin {c.calls[k].source, c.calls[k].target}
                              /\ \A r \in OpenRooms(c) : x \notin c.rooms[r].members
    PROVE  Exact(d)
  <1>1. Coherent(c, {}) /\ c \in CourierType
    BY ExactIsSound
  <1>2. ASSUME NEW k \in OpenCalls(c) \ {}
        PROVE  IsLive(d, c.calls[k].source) /\ IsLive(d, c.calls[k].target)
    <2>1. c.calls[k].source \in Sessions /\ c.calls[k].target \in Sessions
      BY <1>1, CallFields DEF OpenCalls
    <2>2. IsLive(c, c.calls[k].source) /\ IsLive(c, c.calls[k].target)
      BY <1>1 DEF Coherent, CallHolds
    <2> QED BY <2>1, <2>2
  <1>3. ASSUME NEW r \in OpenRooms(c), NEW x \in c.rooms[r].members
        PROVE  IsLive(d, x)
    <2>1. x \in Sessions
      BY <1>1, RoomFields DEF OpenRooms
    <2>2. IsLive(c, x)
      BY <1>1 DEF Coherent, RoomHolds
    <2> QED BY <2>1, <2>2
  <1>4. Coherent(d, {})
    BY <1>1, <1>2, <1>3, MailLeaves
  <1>5. Debt(d, {}) = Debt(c, {})
    BY DEF Debt, Remaining, Ended, Waits, Asks, OpenCalls, SameRest
  <1> QED BY <1>4, <1>5 DEF Exact

LEMMA SessionStartedKeeps ==
    ASSUME NEW c, Exact(c), NEW s \in Sessions, NEW d, d = SessionStarted(c, s)
    PROVE  Exact(d)
  <1>1. Coherent(c, {}) /\ Sound(c)
    BY ExactIsSound
  <1>2. /\ Sound(d) /\ Gains(c, d, s, TRUE) /\ Mail(d) = Mail(c)
        /\ d.calls = c.calls /\ d.rooms = c.rooms
        /\ d.states = c.states /\ d.retired = c.retired /\ d.charged = c.charged
        /\ \A x \in Sessions : x # s => d.box[x] = c.box[x]
        /\ d.box[s].queue = IF c.box[s] = None THEN <<>> ELSE c.box[s].queue
        /\ d.box[s].bytes = IF c.box[s] = None THEN 0 ELSE c.box[s].bytes
    <2>1. Started(c, s, d)
      BY <1>1, SessionStartedEffect
    <2> QED BY <2>1 DEF Started
  <1>3. SameRest(c, d)
    BY <1>2 DEF SameRest
  <1>4. Fits(d)
    <2>1. 0 <= MailboxBytes /\ 0 <= MailboxEnvelopes
      BY CourierAssumption
    <2>2. PICK none : none = <<>> /\ Len(none) = 0
      OBVIOUS
    <2>3. Distinct(none)
      BY <2>2 DEF Distinct
    <2>4. /\ d.box[s].bytes <= MailboxBytes /\ Len(d.box[s].queue) <= MailboxEnvelopes
          /\ Distinct(d.box[s].queue)
      <3>1. CASE c.box[s] = None
        BY <1>2, <2>1, <2>2, <2>3, <3>1
      <3>2. CASE c.box[s] # None
        BY <1>1, <1>2, <3>2 DEF Coherent, Fits
      <3> QED BY <3>1, <3>2
    <2>5. ASSUME NEW x \in Sessions, x # s, d.box[x] # None
          PROVE  /\ d.box[x].bytes <= MailboxBytes
                 /\ Len(d.box[x].queue) <= MailboxEnvelopes
                 /\ Distinct(d.box[x].queue)
      BY <1>1, <1>2, <2>5 DEF Coherent, Fits
    <2>6. d.charged <= RuntimeBytes
      BY <1>1, <1>2 DEF Coherent, Fits
    <2> QED BY <2>4, <2>5, <2>6 DEF Fits
  <1>5. \A x \in Sessions : IsLive(c, x) => IsLive(d, x)
    BY <1>2 DEF Gains, IsLive
  <1> QED BY <1>2, <1>3, <1>4, <1>5, BoxesKeep

\* The first mail of a recipient whose delivery is still closed.
LEMMA ReserveInitialKeeps ==
    ASSUME NEW c, Exact(c), NEW e \in Envelope, NEW time, AcceptsInitial(c, e, time),
           Unanswered(c, e.id), e.room = None, NEW d, d = ReserveInitial(c, e)
    PROVE  Exact(d)
  <1>1. Coherent(c, {}) /\ Sound(c) /\ c \in CourierType
    BY ExactIsSound
  <1>2. PICK s : s = e.target /\ s \in Sessions
    BY DEF Envelope
  <1>3. PICK a : a = SessionStarted(c, s)
    OBVIOUS
  <1>4. /\ Gains(c, a, s, TRUE) /\ Mail(a) = Mail(c)
        /\ a.calls = c.calls /\ a.rooms = c.rooms /\ Exact(a)
    <2>1. Exact(a)
      BY <1>2, <1>3, SessionStartedKeeps
    <2>2. /\ Gains(c, a, s, TRUE) /\ Mail(a) = Mail(c)
          /\ a.calls = c.calls /\ a.rooms = c.rooms
      <3>1. Started(c, s, a)
        BY <1>1, <1>2, <1>3, SessionStartedEffect
      <3> QED BY <3>1 DEF Started
    <2> QED BY <2>1, <2>2
  <1>5. e.kind = "Tell" /\ Accepts(a, e, time) /\ c.box[s] = None
    BY <1>2, <1>3 DEF AcceptsInitial
  <1>6. PICK b : b = Send(a, e)
    OBVIOUS
  <1>7. Unanswered(a, e.id)
    BY <1>4 DEF Unanswered
  <1>8. Exact(b)
    BY <1>4, <1>5, <1>6, <1>7, SendKeeps
  <1>9. b.calls = c.calls /\ b.rooms = c.rooms /\ b.box[s] # None /\ SameBoxes(a, b)
    <2>1. b = Enqueue(a, e)
      BY <1>5, <1>6 DEF Send, Route
    <2>2. a.box[e.target] # None /\ (e.replyTo = None <=> e.kind \in {"Tell", "Ask"}) /\ Sound(a)
      BY <1>2, <1>4, <1>5, ExactIsSound DEF Gains, Accepts, AdmitShape
    <2>3. Queued(a, e, b)
      BY <2>1, <2>2, EnqueueEffect
    <2> QED BY <1>2, <1>4, <2>2, <2>3 DEF Queued, SameBoxes
  <1>10. Shut(b, s, d)
    <2>1. d = [b EXCEPT !.box[s].ready = FALSE]
      BY <1>2, <1>3, <1>6 DEF ReserveInitial
    <2>2. Sound(b)
      BY <1>8, ExactIsSound
    <2> QED BY <1>2, <1>9, <2>1, <2>2, CloseMailboxEffect
  <1>11. /\ Sound(d) /\ Mail(d) = Mail(b) /\ SameRest(b, d) /\ d.charged = b.charged
         /\ d.box[s].queue = b.box[s].queue /\ d.box[s].bytes = b.box[s].bytes
         /\ \A x \in Sessions : x # s => d.box[x] = b.box[x]
    BY <1>10 DEF Shut, SameRest
  <1>12. Fits(d)
    <2>1. Fits(b)
      BY <1>8, ExactIsSound DEF Coherent
    <2>2. ASSUME NEW x \in Sessions, d.box[x] # None
          PROVE  /\ d.box[x].bytes <= MailboxBytes
                 /\ Len(d.box[x].queue) <= MailboxEnvelopes
                 /\ Distinct(d.box[x].queue)
      BY <1>9, <1>11, <2>1, <2>2 DEF Fits
    <2> QED BY <1>11, <2>1, <2>2 DEF Fits
  <1>13. \A k \in OpenCalls(b) : s \notin {b.calls[k].source, b.calls[k].target}
    <2>1. \A k \in OpenCalls(c) : CallHolds(c, k)
      BY <1>1 DEF Coherent
    <2> QED BY <1>5, <1>9, <2>1 DEF CallHolds, IsLive, OpenCalls
  <1>14. \A r \in OpenRooms(b) : s \notin b.rooms[r].members
    <2>1. \A r \in OpenRooms(c) : RoomHolds(c, r)
      BY <1>1 DEF Coherent
    <2> QED BY <1>5, <1>9, <2>1 DEF RoomHolds, IsLive, OpenRooms
  <1>15. \A x \in Sessions : IsLive(b, x) => IsLive(d, x) \/ x = s
    BY <1>11 DEF IsLive
  <1> QED BY <1>8, <1>11, <1>12, <1>13, <1>14, <1>15, BoxesKeep

-----------------------------------------------------------------------------
(* Rooms.                                                                  *)

\* d is c but for the room r, which is open.
RoomSet(c, r, d) ==
    /\ d.box = c.box /\ d.charged = c.charged /\ d.calls = c.calls
    /\ d.states = c.states /\ d.retired = c.retired
    /\ d.rooms[r] # None /\ \A x \in Rooms \ {r} : d.rooms[x] = c.rooms[x]

\* A room may change as long as it holds, and its rounds with it.
LEMMA SetRoomKeeps ==
    ASSUME NEW c, NEW D, Coherent(c, D), NEW r \in Rooms,
           NEW d, Sound(d), RoomSet(c, r, d), RoomHolds(d, r),
           \A k \in OpenCalls(c) \ D : c.calls[k].room = r => RoundHolds(d, k)
    PROVE  Coherent(d, D) /\ Debt(d, D) = Debt(c, D)
  <1>1. /\ d.box = c.box /\ d.charged = c.charged /\ d.calls = c.calls
        /\ d.states = c.states /\ d.retired = c.retired
        /\ d.rooms[r] # None /\ \A x \in Rooms \ {r} : d.rooms[x] = c.rooms[x]
    BY DEF RoomSet
  <1>2. /\ Mail(d) = Mail(c) /\ Waits(d) = Waits(c)
        /\ \A s : IsLive(d, s) <=> IsLive(c, s)
    BY <1>1, LiveSame DEF IsLive
  <1>3. /\ OpenCalls(d) = OpenCalls(c) /\ OpenRooms(d) = OpenRooms(c) \cup {r}
        /\ Remaining(d) = Remaining(c) /\ Asks(d, D) = Asks(c, D)
    BY <1>1 DEF OpenCalls, OpenRooms, Remaining, Ended, Asks
  <1>4. Fits(d)
    BY <1>1 DEF Coherent, Fits
  <1>5. UniqueMail(d)
    BY <1>2 DEF Coherent, UniqueMail
  <1>6. Remembers(d)
    BY <1>1 DEF Coherent, Remembers, Ended
  <1>7. ASSUME NEW x \in OpenRooms(d)
        PROVE  RoomHolds(d, x)
    <2>1. CASE x = r
      BY <2>1
    <2>2. CASE x # r
      <3>1. x \in OpenRooms(c) /\ d.rooms[x] = c.rooms[x]
        BY <1>1, <1>3, <2>2 DEF OpenRooms
      <3> QED BY <1>2, <3>1 DEF Coherent, RoomHolds
    <2> QED BY <2>1, <2>2
  <1>8. CallsDiffer(d)
    BY <1>1, <1>2, <1>3 DEF Coherent, CallsDiffer
  <1>9. ASSUME NEW k \in OpenCalls(d) \ D
        PROVE  CallHolds(d, k)
    <2>1. k \in OpenCalls(c) \ D /\ d.calls[k] = c.calls[k]
      BY <1>1, <1>3
    <2>2. CallHolds(c, k)
      BY <2>1 DEF Coherent
    <2>3. c.calls[k].room \in Maybe(Rooms)
      BY <2>1, CallFields DEF OpenCalls, Coherent, Sound
    <2>4. RoundHolds(d, k)
      <3>1. CASE c.calls[k].room = r
        BY <2>1, <3>1
      <3>2. CASE c.calls[k].room # r
        <4>1. RoundHolds(c, k)
          BY <2>2 DEF CallHolds
        <4>2. c.calls[k].room # None => d.rooms[c.calls[k].room] = c.rooms[c.calls[k].room]
          BY <1>1, <2>3, <3>2 DEF Maybe
        <4> QED BY <2>1, <4>1, <4>2, RoundStays
      <3> QED BY <3>1, <3>2
    <2> QED BY <1>2, <2>1, <2>2, <2>4 DEF CallHolds
  <1>10. ASSUME NEW e \in Mail(d)
         PROVE  MailHolds(d, e, D)
    <2>1. MailHolds(c, e, D) /\ e.room \in Maybe(Rooms)
      BY <1>2, CoherentMail DEF Envelope
    <2>2. \A stage : Carries(c, e, stage) => Carries(d, e, stage)
      BY <1>1 DEF Carries, MatchesCall
    <2>3. e.room # None => d.rooms[e.room] # None
      BY <1>1, <2>1 DEF MailHolds, Maybe
    <2> QED BY <1>2, <1>3, <2>1, <2>2, <2>3 DEF MailHolds
  <1>11. Waits(d) \cup Asks(d, D) \subseteq Remaining(d)
    BY <1>2, <1>3 DEF Coherent
  <1>12. Coherent(d, D)
    BY <1>3, <1>4, <1>5, <1>6, <1>7, <1>8, <1>9, <1>10, <1>11 DEF Coherent
  <1> QED BY <1>2, <1>3, <1>12 DEF Debt

\* A room is set by its record.
WithRoom(c, r, room) == [c EXCEPT !.rooms = [c.rooms EXCEPT ![r] = room]]

LEMMA WithRoomSets ==
    ASSUME NEW c \in CourierType, NEW r \in Rooms, NEW room \in Room,
           NEW d, d = WithRoom(c, r, room)
    PROVE  RoomSet(c, r, d) /\ d.rooms[r] = room
  <1>1. PICK rooms : rooms = [c.rooms EXCEPT ![r] = room]
    OBVIOUS
  <1>2. rooms[r] = room /\ \A x \in Rooms \ {r} : rooms[x] = c.rooms[x]
    BY <1>1, CourierFields
  <1>3. d = [c EXCEPT !.rooms = rooms]
    BY <1>1 DEF WithRoom
  <1>4. /\ d.box = c.box /\ d.charged = c.charged /\ d.calls = c.calls
        /\ d.states = c.states /\ d.retired = c.retired /\ d.rooms = rooms
    BY <1>3 DEF CourierType
  <1>5. room # None
    BY NoneAssumption
  <1> QED BY <1>2, <1>4, <1>5 DEF RoomSet

LEMMA RoomOpenKeeps ==
    ASSUME NEW c, Exact(c), NEW r \in Rooms, c.rooms[r] = None,
           NEW members \in SUBSET Sessions, NEW owner \in Sessions, NEW deadline \in Nat,
           NEW time, AcceptsRoom(c, members, owner, deadline, time),
           NEW d, d = RoomOpen(c, r, members, owner, deadline)
    PROVE  Exact(d)
  <1>1. Coherent(c, {}) /\ Sound(c) /\ c \in CourierType
    BY ExactIsSound
  <1>2. PICK room : room = [owner |-> owner, speaker |-> owner, members |-> members,
                            rounds |-> 0, current |-> None, deadline |-> deadline]
    OBVIOUS
  <1>3. room \in Room /\ room.members = members /\ room.rounds = 0
    BY <1>2 DEF Room, Maybe
  <1>4. d = WithRoom(c, r, room)
    BY <1>2 DEF RoomOpen, WithRoom
  <1>5. RoomSet(c, r, d) /\ d.rooms[r] = room
    BY ONLY <1>1, <1>3, <1>4, WithRoomSets
  <1>6. Sound(d)
    BY <1>1, RoomOpenEffect
  <1>7. RoomHolds(d, r)
    <2>1. 0 <= RoomRounds
      BY CourierAssumption
    <2> QED BY <1>3, <1>5, <2>1 DEF RoomHolds, RoomSet, IsLive, AcceptsRoom
  <1>8. \A k \in OpenCalls(c) \ {} : c.calls[k].room = r => RoundHolds(d, k)
    <2>1. ASSUME NEW k \in OpenCalls(c), c.calls[k].room = r
          PROVE  FALSE
      <3>1. RoundHolds(c, k)
        BY <1>1 DEF Coherent, CallHolds
      <3>2. r # None
        BY CourierAssumption
      <3> QED BY <2>1, <3>1, <3>2 DEF RoundHolds
    <2> QED BY <2>1
  <1>9. PICK D : D = {}
    OBVIOUS
  <1>10. Coherent(d, D) /\ Debt(d, D) = Debt(c, D)
    BY ONLY <1>1, <1>5, <1>6, <1>7, <1>8, <1>9, SetRoomKeeps
  <1> QED BY <1>9, <1>10 DEF Exact

LEMMA RoomTransferKeeps ==
    ASSUME NEW c, Exact(c), NEW r \in Rooms, NEW speaker \in Sessions, NEW owner, NEW time,
           AcceptsTransfer(c, owner, r, speaker, time),
           NEW d, d = RoomTransfer(c, r, speaker)
    PROVE  Exact(d)
  <1>1. Coherent(c, {}) /\ Sound(c) /\ c \in CourierType /\ c.rooms[r] # None
    BY ExactIsSound DEF AcceptsTransfer, RoomVisible
  <1>2. PICK old : old = c.rooms[r] /\ old \in Room
    BY <1>1, CourierFields DEF Maybe
  <1>3. PICK room : room = [old EXCEPT !.speaker = speaker]
    OBVIOUS
  <1>4. /\ room \in Room /\ room.members = old.members /\ room.rounds = old.rounds
        /\ room.current = old.current /\ room.deadline = old.deadline
    BY <1>2, <1>3 DEF Room
  <1>5. d = WithRoom(c, r, room)
    BY <1>2, <1>3 DEF RoomTransfer, WithRoom
  <1>6. RoomSet(c, r, d) /\ d.rooms[r] = room
    BY ONLY <1>1, <1>4, <1>5, WithRoomSets
  <1>7. Sound(d)
    BY <1>1, RoomTransferEffect
  <1>8. RoomHolds(d, r)
    <2>1. RoomHolds(c, r)
      BY <1>1 DEF Coherent, OpenRooms
    <2> QED BY <1>2, <1>4, <1>6, <2>1 DEF RoomHolds, RoomSet, IsLive
  <1>9. \A k \in OpenCalls(c) \ {} : c.calls[k].room = r => RoundHolds(d, k)
    <2>1. ASSUME NEW k \in OpenCalls(c), c.calls[k].room = r
          PROVE  RoundHolds(d, k)
      <3>1. RoundHolds(c, k)
        BY <1>1 DEF Coherent, CallHolds
      <3> QED BY <1>2, <1>4, <1>6, <2>1, <3>1 DEF RoundHolds, RoomSet
    <2> QED BY <2>1
  <1>10. PICK D : D = {}
    OBVIOUS
  <1>11. Coherent(d, D) /\ Debt(d, D) = Debt(c, D)
    BY ONLY <1>1, <1>6, <1>7, <1>8, <1>9, <1>10, SetRoomKeeps
  <1> QED BY <1>10, <1>11 DEF Exact

\* The room r of a names the round that the ask e begins.
RoundBegun(a, r, e) == [a EXCEPT !.rooms[r].rounds = @ + 1,
                                 !.rooms[r].current = [call |-> e.call, ask |-> e.id]]

LEMMA RoundBeginsInRoom ==
    ASSUME NEW a \in CourierType, NEW r \in Rooms, a.rooms[r] # None, NEW e \in Envelope,
           NEW d, d = RoundBegun(a, r, e)
    PROVE  \E next \in Room : /\ d = WithRoom(a, r, next)
                              /\ next.members = a.rooms[r].members
                              /\ next.deadline = a.rooms[r].deadline
                              /\ next.rounds = a.rooms[r].rounds + 1
                              /\ next.current = [call |-> e.call, ask |-> e.id]
  <1>1. PICK room : room = a.rooms[r] /\ room \in Room
    BY CourierFields DEF Maybe
  <1>2. PICK ref, n : ref = [call |-> e.call, ask |-> e.id] /\ n = room.rounds + 1
    OBVIOUS
  <1>3. ref \in Maybe(CallRef) /\ n \in Nat
    BY <1>1, <1>2 DEF CallRef, Maybe, Envelope, Room
  <1>4. PICK half : half = [room EXCEPT !.rounds = n]
    OBVIOUS
  <1>5. /\ half \in Room /\ half.rounds = n
        /\ half.members = room.members /\ half.deadline = room.deadline
    BY <1>1, <1>3, <1>4 DEF Room
  <1>6. PICK next : next = [half EXCEPT !.current = ref]
    OBVIOUS
  <1>7. /\ next \in Room /\ next.rounds = n /\ next.current = ref
        /\ next.members = room.members /\ next.deadline = room.deadline
    BY <1>3, <1>5, <1>6 DEF Room
  <1>8. PICK rooms1 : rooms1 = [a.rooms EXCEPT ![r] = half]
    OBVIOUS
  <1>9. rooms1[r] = half
    BY <1>8, CourierFields
  <1>10. PICK rooms : rooms = [rooms1 EXCEPT ![r] = next]
    OBVIOUS
  <1>11. rooms = [a.rooms EXCEPT ![r] = next]
    BY <1>8, <1>10, CourierFields
  <1>12. d = [a EXCEPT !.rooms = rooms]
    <2>1. rooms1 = [a.rooms EXCEPT ![r].rounds = @ + 1]
      BY <1>1, <1>2, <1>4, <1>8
    <2>2. rooms = [rooms1 EXCEPT ![r].current = ref]
      BY <1>6, <1>9, <1>10
    <2>3. PICK b : b = [a EXCEPT !.rooms = rooms1]
      OBVIOUS
    <2>4. b.rooms = rooms1
      BY <2>3 DEF CourierType
    <2>5. b = [a EXCEPT !.rooms[r].rounds = @ + 1]
      BY <2>1, <2>3
    <2>6. [b EXCEPT !.rooms[r].current = ref] = [b EXCEPT !.rooms = rooms]
      BY <2>2, <2>4
    <2>7. d = [b EXCEPT !.rooms[r].current = ref]
      BY <1>2, <2>5 DEF RoundBegun
    <2>8. [b EXCEPT !.rooms = rooms] = [a EXCEPT !.rooms = rooms]
      BY <2>3 DEF CourierType
    <2> QED BY <2>6, <2>7, <2>8
  <1>13. d = WithRoom(a, r, next)
    BY <1>11, <1>12 DEF WithRoom
  <1> QED BY <1>1, <1>2, <1>7, <1>13

LEMMA RoomAskKeeps ==
    ASSUME NEW c, Exact(c), NEW r \in Rooms, NEW e \in Envelope, e.kind = "Ask", NEW time,
           AcceptsRound(c, r, e, time), Unanswered(c, e.id),
           e.deadline <= c.rooms[r].deadline,
           NEW d, d = RoomAsk(c, r, e)
    PROVE  Exact(d)
  <1>1. Coherent(c, {}) /\ Sound(c) /\ c \in CourierType
    BY ExactIsSound
  <1>2. /\ c.rooms[r] # None /\ ~InFlight(c, r) /\ c.rooms[r].rounds < RoomRounds
        /\ {e.source, e.target} \subseteq c.rooms[r].members
    BY DEF AcceptsRound, RoomVisible
  <1>3. PICK f : f = [e EXCEPT !.room = r]
    OBVIOUS
  <1>4. /\ f \in Envelope /\ f.kind = e.kind /\ f.replyTo = e.replyTo
        /\ f.target = e.target /\ f.source = e.source /\ f.id = e.id /\ f.call = e.call
        /\ f.deadline = e.deadline /\ f.size = e.size /\ f.room = r
    BY <1>3 DEF Envelope, Maybe
  <1>5. AdmitShape(c, f, time) /\ AdmitRoute(c, f) /\ Unanswered(c, f.id)
    BY <1>4 DEF AcceptsRound, AdmitShape, AdmitRoute
  <1>6. PICK a : a = Route(c, f)
    OBVIOUS
  <1>7. PICK k, D : k = f.call /\ D = {k}
    OBVIOUS
  <1>8. AskRouted(c, D, f, a)
    <2>1. f.room # None => c.rooms[f.room] # None
      BY <1>2, <1>4
    <2>2. f.kind = "Ask" /\ D = {f.call} /\ f \in Envelope
      BY <1>4, <1>7
    <2>3. Exact(c)
      OBVIOUS
    <2> QED BY ONLY <1>5, <1>6, <2>1, <2>2, <2>3, RouteAskKeeps
  <1>9. /\ Coherent(a, D) /\ Debt(a, D) = {} /\ f \in Mail(a) /\ a.rooms = c.rooms
        /\ \A l \in Calls \ {k} : a.calls[l] = c.calls[l]
        /\ k \in OpenCalls(a) /\ a.calls[k] = CallOf(f) /\ f.id \in Remaining(a)
        /\ \A s \in Sessions : IsLive(a, s) <=> IsLive(c, s)
        /\ Unanswered(a, f.id)
    BY <1>7, <1>8 DEF AskRouted
  <1>10. a \in CourierType
    BY <1>9 DEF Coherent, Sound
  <1>11. d = RoundBegun(a, r, f)
    BY <1>3, <1>4, <1>6 DEF RoomAsk, RoundBegun
  <1>12. PICK next \in Room : /\ d = WithRoom(a, r, next)
                              /\ next.members = a.rooms[r].members
                              /\ next.deadline = a.rooms[r].deadline
                              /\ next.rounds = a.rooms[r].rounds + 1
                              /\ next.current = [call |-> f.call, ask |-> f.id]
    <2>1. a.rooms[r] # None
      BY <1>2, <1>9
    <2> QED BY <1>4, <1>10, <1>11, <2>1, RoundBeginsInRoom
  <1>13. RoomSet(a, r, d) /\ d.rooms[r] = next
    BY <1>10, <1>12, WithRoomSets
  <1>14. Sound(d)
    BY <1>1, RoomAskEffect
  <1>15. RoomHolds(d, r)
    <2>1. RoomHolds(c, r) /\ c.rooms[r].members \in SUBSET Sessions /\ c.rooms[r].rounds \in Nat
      BY <1>1, <1>2, RoomFields DEF Coherent, OpenRooms
    <2>2. next.rounds <= RoomRounds
      BY <1>2, <1>9, <1>12, <2>1, CourierAssumption
    <2>3. \A s \in Sessions : IsLive(d, s) <=> IsLive(c, s)
      BY <1>9, <1>13 DEF RoomSet, IsLive
    <2> QED BY <1>9, <1>12, <1>13, <2>1, <2>2, <2>3 DEF RoomHolds
  <1>16. \A l \in OpenCalls(a) \ D : a.calls[l].room = r => RoundHolds(d, l)
    <2>1. ASSUME NEW l \in OpenCalls(a) \ D, a.calls[l].room = r
          PROVE  FALSE
      <3>1. l \in OpenCalls(c) /\ a.calls[l] = c.calls[l] /\ c.calls[l] # None
        BY <1>7, <1>9, <2>1 DEF OpenCalls
      <3>2. RoundHolds(c, l) /\ c.calls[l].room = r /\ r # None
        BY <1>1, <2>1, <3>1, CourierAssumption DEF Coherent, CallHolds
      <3>3. c.rooms[r].current = [call |-> l, ask |-> c.calls[l].ask]
        BY <3>2 DEF RoundHolds
      <3>4. [call |-> l, ask |-> c.calls[l].ask] # None
        <4>1. [call |-> l, ask |-> c.calls[l].ask] \in CallRef
          BY <1>1, <3>1, CallFields DEF OpenCalls, CallRef
        <4> QED BY <4>1, NoneAssumption
      <3>5. InFlight(c, r)
        BY <3>1, <3>2, <3>3, <3>4 DEF InFlight
      <3> QED BY <1>2, <3>5
    <2> QED BY <2>1
  <1>17. Coherent(d, D) /\ Debt(d, D) = {}
    <2>1. Coherent(d, D) /\ Debt(d, D) = Debt(a, D)
      BY ONLY <1>9, <1>13, <1>14, <1>15, <1>16, SetRoomKeeps
    <2> QED BY <1>9, <2>1
  <1>18. /\ d.box = a.box /\ d.calls = a.calls /\ d.states = a.states
         /\ d.retired = a.retired /\ Mail(d) = Mail(a)
    BY <1>13, LiveSame DEF RoomSet
  <1>19. /\ k \in OpenCalls(d) /\ d.calls[k] = CallOf(f) /\ d.calls[k].ask = f.id
         /\ f.id \in Remaining(d)
    BY <1>9, <1>18 DEF OpenCalls, CallOf, Remaining, Ended
  <1>20. CallHolds(d, k)
    <2>1. IsLive(d, f.source) /\ IsLive(d, f.target)
      BY <1>4, <1>5, <1>9, <1>18 DEF AdmitShape, IsLive, Envelope
    <2>2. \E x \in Mail(d) : x.kind = "Ask" /\ x.id = d.calls[k].ask
      BY <1>4, <1>9, <1>18, <1>19
    <2>3. RoundHolds(d, k)
      <3>1. /\ d.calls[k].room = r /\ d.calls[k].source = e.source
            /\ d.calls[k].target = e.target /\ d.calls[k].deadline = e.deadline
        BY <1>4, <1>19 DEF CallOf
      <3>2. d.rooms[r] # None /\ d.rooms[r].current = [call |-> k, ask |-> d.calls[k].ask]
        BY <1>7, <1>12, <1>13, <1>19 DEF RoomSet
      <3>3. d.rooms[r].members = c.rooms[r].members /\ d.rooms[r].deadline = c.rooms[r].deadline
        BY <1>9, <1>12, <1>13
      <3> QED BY <1>2, <3>1, <3>2, <3>3 DEF RoundHolds
    <2>4. d.calls[k].stage = "Queued" /\ d.calls[k].source = f.source
          /\ d.calls[k].target = f.target
      BY <1>19 DEF CallOf
    <2> QED BY <2>1, <2>2, <2>3, <2>4 DEF CallHolds
  <1>21. \A x \in Mail(d) : ~(x.kind = "Reply" /\ x.replyTo = d.calls[k].ask)
    BY <1>9, <1>18, <1>19 DEF Unanswered
  <1> QED BY <1>7, <1>17, <1>19, <1>20, <1>21, CallAdopted

LEMMA NewCourierIsExact ==
    Exact(NewCourier)
  <1>1. PICK c : c = NewCourier
    OBVIOUS
  <1>2. Sound(c) /\ \A s \in Sessions : c.box[s] = None
    BY <1>1, NewCourierIsSound
  <1>3. /\ OpenCalls(c) = {} /\ OpenRooms(c) = {} /\ c.charged = 0
        /\ \A m \in Messages : c.states[m] = None
    BY <1>1 DEF NewCourier, OpenCalls, OpenRooms
  <1>4. c.retired = <<>> /\ Len(c.retired) = 0 /\ Ended(c) = {}
    <2>1. c.retired = <<>>
      BY <1>1 DEF NewCourier
    <2> QED BY <2>1 DEF Ended
  <1>5. Mail(c) = {}
    <2>1. \A e : e \in Mail(c) => FALSE
      BY <1>2 DEF Mail
    <2> QED BY <2>1
  <1>6. Waits(c) = {} /\ Asks(c, {}) = {} /\ Remaining(c) = {}
    BY <1>3, <1>5 DEF Waits, Asks, Remaining
  <1>7. Fits(c)
    BY <1>2, <1>3, CourierAssumption DEF Fits
  <1>8. UniqueMail(c) /\ CallsDiffer(c)
    BY <1>3, <1>5 DEF UniqueMail, CallsDiffer
  <1>9. Remembers(c)
    BY <1>4, CourierAssumption DEF Remembers
  <1>10. Coherent(c, {})
    BY <1>2, <1>3, <1>5, <1>6, <1>7, <1>8, <1>9 DEF Coherent
  <1>11. Debt(c, {}) = {}
    BY <1>6 DEF Debt
  <1> QED BY <1>1, <1>10, <1>11 DEF Exact

\* What is sent waits.
LEMMA EnqueueWaits ==
    ASSUME NEW c \in CourierType, NEW e \in Envelope, c.box[e.target] # None,
           NEW d, d = Enqueue(c, e)
    PROVE  e.id \in Waits(d)
  <1>1. e.target \in Sessions /\ e.size \in Nat
    BY DEF Envelope
  <1>2. PICK s, b : s = e.target /\ b = c.box[s]
    OBVIOUS
  <1>3. /\ s \in Sessions /\ b \in Mailbox /\ b.queue \in Seq(Envelope) /\ b.bytes \in Nat
    BY <1>1, <1>2, MailboxFields
  <1>4. PICK n, p : n = b.bytes + e.size /\ p = Append(b.queue, e)
    OBVIOUS
  <1>5. n \in Nat /\ p \in Seq(Envelope) /\ e \in Range(p)
    BY <1>1, <1>3, <1>4, AppendProperties, RangeOfAppend
  <1>6. PICK half : half = [b EXCEPT !.bytes = n]
    OBVIOUS
  <1>7. half \in Mailbox /\ half.queue = b.queue
    BY <1>3, <1>5, <1>6 DEF Mailbox
  <1>8. PICK a : a = [half EXCEPT !.queue = p]
    OBVIOUS
  <1>9. a \in Mailbox /\ a.queue = p /\ a # None
    BY <1>5, <1>7, <1>8, NoneAssumption DEF Mailbox
  <1>10. Filled(b, e) = a
    <2>1. Filled(b, e) = [half EXCEPT !.queue = Append(half.queue, e)]
      BY <1>4, <1>6, <1>7 DEF Filled
    <2> QED BY <1>4, <1>7, <1>8, <2>1
  <1>11. d.box = [c.box EXCEPT ![s] = a]
    <2>1. PICK box : box = [c.box EXCEPT ![s] = a]
      OBVIOUS
    <2>2. box = [c.box EXCEPT ![s] = Filled(@, e)]
      BY <1>2, <1>10, <2>1
    <2>3. PICK states, m : /\ states = [c.states EXCEPT ![e.id] = "Accepted"]
                           /\ m = c.charged + e.size
      OBVIOUS
    <2>4. d = [c EXCEPT !.states = states, !.box = box, !.charged = m]
      BY <1>2, <2>2, <2>3 DEF Enqueue
    <2> QED BY <2>1, <2>4 DEF CourierType
  <1>12. d.box[s] = a
    BY <1>3, <1>11, CourierFields
  <1>13. e \in Mail(d)
    BY <1>3, <1>5, <1>9, <1>12 DEF Mail
  <1> QED BY <1>13 DEF Waits

LEMMA SendWaits ==
    ASSUME NEW c, Sound(c), NEW e \in Envelope, NEW time, Accepts(c, e, time),
           NEW d, d = Send(c, e)
    PROVE  e.id \in Waits(d)
  <1>1. c \in CourierType /\ e.kind \in Kinds /\ e.call \in Calls /\ e.target \in Sessions
    BY DEF Sound, Envelope
  <1>2. c.box[e.target] # None
    BY DEF Accepts, AdmitShape, IsLive
  <1>3. CASE e.kind \in {"Tell", "Ask"}
    <2>1. PICK b : b = IF e.kind # "Ask" THEN c ELSE OpenCall(c, e)
      OBVIOUS
    <2>2. b \in CourierType /\ b.box = c.box
      BY <1>1, <2>1, OpenCallFields
    <2>3. d = Enqueue(b, e)
      BY <1>3, <2>1 DEF Send, Route, OpenCall, CallOf
    <2> QED BY <1>2, <2>2, <2>3, EnqueueWaits
  <1>4. CASE e.kind = "Reply"
    <2>1. c.calls[e.call] # None /\ d = Reply(c, e)
      BY <1>4 DEF Accepts, AdmitReply, Send
    <2>2. PICK b : b = SetStage(c, e.call, c.calls[e.call].ask, "Replied")
      OBVIOUS
    <2>3. PICK f : AsQueued(c, e, f) /\ d = Enqueue(b, f)
      BY <1>1, <2>1, <2>2, ReplySent
    <2>4. b \in CourierType /\ b.box = c.box
      <3>1. Staged(c, e.call, c.calls[e.call].ask, "Replied", b)
        BY <1>1, <2>1, <2>2, SetStageFields, CallFields DEF Stages, States
      <3> QED BY <3>1 DEF Staged
    <2>5. f \in Envelope /\ f.target = e.target /\ f.id = e.id
      BY <2>3 DEF AsQueued
    <2>6. f.id \in Waits(d)
      BY <1>2, <2>3, <2>4, <2>5, EnqueueWaits
    <2> QED BY <2>5, <2>6
  <1>5. CASE e.kind = "Cancel"
    <2>1. PICK k : k = e.call /\ k \in Calls
      BY <1>1
    <2>2. c.calls[k] # None /\ d = Cancel(c, e) /\ e.replyTo # None
      BY <1>5, <2>1 DEF Accepts, AdmitShape, AdmitCancel, Send
    <2>3. c.calls[k].ask \in Messages /\ c.calls[k].target \in Sessions
      BY <1>1, <2>1, <2>2, CallFields
    <2>4. PICK a : a = IF c.calls[k].stage = "Queued"
                         THEN Withdraw(c, c.calls[k].target, c.calls[k].ask) ELSE c
      OBVIOUS
    <2>5. PICK b : b = Retire(EndCall(a, k), c.calls[k].ask, "Cancelled")
      OBVIOUS
    <2>6. PICK f : /\ f \in Envelope /\ f.id = e.id /\ f.target = e.target /\ d = Enqueue(b, f)
      <3>1. SentOf(c, e, k, b, d)
        BY <1>1, <2>1, <2>2, <2>4, <2>5, CancelSent
      <3> QED BY <3>1 DEF SentOf
    <2>7. b \in CourierType /\ b.box[e.target] # None
      <3>1. Sound(a) /\ Lighter(c, a)
        <4>1. a = c \/ a = Withdraw(c, c.calls[k].target, c.calls[k].ask)
          BY <2>4
        <4> QED BY <1>1, <2>3, <4>1, WithdrawEffect, LighterSame
      <3>2. PICK h : h = EndCall(a, k)
        OBVIOUS
      <3>3. Sound(h) /\ h.box = a.box
        BY <2>1, <3>1, <3>2, EndCallEffect
      <3>4. Sound(b) /\ b.box = h.box
        <4>1. "Cancelled" \in States
          BY DEF States
        <4> QED BY <2>3, <2>5, <3>2, <3>3, <4>1, RetireEffect
      <3> QED BY <1>1, <1>2, <3>1, <3>3, <3>4 DEF Lighter, Sound
    <2>8. f.id \in Waits(d)
      BY <2>6, <2>7, EnqueueWaits
    <2> QED BY <2>6, <2>8
  <1> QED BY <1>1, <1>3, <1>4, <1>5 DEF Kinds

LEMMA ReserveInitialWaits ==
    ASSUME NEW c, Sound(c), NEW e \in Envelope, NEW time, AcceptsInitial(c, e, time),
           NEW d, d = ReserveInitial(c, e)
    PROVE  e.id \in Waits(d)
  <1>1. PICK s : s = e.target /\ s \in Sessions
    BY DEF Envelope
  <1>2. PICK a : a = SessionStarted(c, s)
    OBVIOUS
  <1>3. Sound(a)
    <2>1. Started(c, s, a)
      BY <1>1, <1>2, SessionStartedEffect
    <2> QED BY <2>1 DEF Started
  <1>4. Accepts(a, e, time)
    BY <1>1, <1>2 DEF AcceptsInitial
  <1>5. PICK b : b = Send(a, e)
    OBVIOUS
  <1>6. e.id \in Waits(b)
    BY <1>3, <1>4, <1>5, SendWaits
  <1>7. Sound(b) /\ b.box[s] # None
    <2>1. Sound(b) /\ SameBoxes(a, b)
      BY <1>3, <1>4, <1>5, SendEffect
    <2>2. a.box[s] # None
      BY <1>1, <1>4 DEF Accepts, AdmitShape, IsLive
    <2> QED BY <1>1, <2>1, <2>2 DEF SameBoxes
  <1>8. Shut(b, s, d)
    <2>1. d = [b EXCEPT !.box[s].ready = FALSE]
      BY <1>1, <1>2, <1>5 DEF ReserveInitial
    <2> QED BY <1>1, <1>7, <2>1, CloseMailboxEffect
  <1>9. Mail(d) = Mail(b)
    BY <1>8 DEF Shut
  <1> QED BY <1>6, <1>9 DEF Waits

LEMMA RoomAskWaits ==
    ASSUME NEW c, Sound(c), NEW r \in Rooms, NEW e \in Envelope, e.kind = "Ask",
           NEW time, AcceptsRound(c, r, e, time), NEW d, d = RoomAsk(c, r, e)
    PROVE  e.id \in Waits(d)
  <1>1. c \in CourierType
    BY DEF Sound
  <1>2. c.rooms[r] # None /\ c.box[e.target] # None /\ e.replyTo = None
    BY DEF AcceptsRound, RoomVisible, AdmitShape, IsLive
  <1>3. PICK f : f = [e EXCEPT !.room = r]
    OBVIOUS
  <1>4. /\ f \in Envelope /\ f.kind = e.kind /\ f.replyTo = e.replyTo
        /\ f.target = e.target /\ f.id = e.id /\ f.call = e.call
    BY <1>3 DEF Envelope, Maybe
  <1>5. PICK a : a = Route(c, f)
    OBVIOUS
  <1>6. Sound(a) /\ a.rooms = c.rooms
    <2>1. f.kind \in {"Tell", "Ask"} /\ f.replyTo = None /\ c.box[f.target] # None
      BY <1>2, <1>4
    <2> QED BY <1>4, <1>5, <2>1, RouteEffect
  <1>7. f.id \in Waits(a)
    <2>1. PICK b : b = OpenCall(c, f)
      OBVIOUS
    <2>2. b \in CourierType /\ b.box = c.box
      BY <1>1, <1>4, <2>1, OpenCallFields
    <2>3. a = Enqueue(b, f)
      BY <1>4, <1>5, <2>1 DEF Route, OpenCall, CallOf
    <2> QED BY <1>2, <1>4, <2>2, <2>3, EnqueueWaits
  <1>8. d = RoundBegun(a, r, f)
    BY <1>3, <1>4, <1>5 DEF RoomAsk, RoundBegun
  <1>9. a \in CourierType /\ a.rooms[r] # None
    BY <1>2, <1>6 DEF Sound
  <1>10. PICK next \in Room : /\ d = WithRoom(a, r, next)
                              /\ next.members = a.rooms[r].members
                              /\ next.deadline = a.rooms[r].deadline
                              /\ next.rounds = a.rooms[r].rounds + 1
                              /\ next.current = [call |-> f.call, ask |-> f.id]
    BY <1>4, <1>8, <1>9, RoundBeginsInRoom
  <1>11. d.box = a.box
    BY <1>9, <1>10, WithRoomSets DEF RoomSet
  <1>12. Mail(d) = Mail(a)
    BY <1>11 DEF Mail
  <1> QED BY <1>4, <1>7, <1>12 DEF Waits

\* Nobody waits for what an unread reply answers.
LEMMA WaitingIsUnanswered ==
    ASSUME NEW c, Exact(c), NEW m \in Waits(c)
    PROVE  Unanswered(c, m)
  <1>1. Coherent(c, {})
    BY ExactIsSound
  <1>2. ASSUME NEW f \in Mail(c), f.kind = "Reply", f.replyTo = m
        PROVE  FALSE
    <2>1. MailHolds(c, f, {})
      BY <1>1, CoherentMail
    <2>2. Carries(c, f, "Replied")
      BY <1>2, <2>1 DEF MailHolds
    <2>3. f.call \in OpenCalls(c) /\ c.calls[f.call].ask = m /\ c.calls[f.call].stage = "Replied"
      BY <1>1, <1>2, <2>2, MatchedMail DEF Carries
    <2>4. PICK x \in Mail(c) : x.id = m
      BY DEF Waits
    <2>5. Carries(c, x, "Queued") /\ x.call = f.call
      BY <1>1, <2>3, <2>4, AskCarries
    <2> QED BY <2>3, <2>5 DEF Carries
  <1> QED BY <1>2 DEF Unanswered

-----------------------------------------------------------------------------
(* Mail, calls, rooms and what is remembered agree, in every state, if no     *)
(* message is given the identifier of an ask whose reply still waits.         *)

\* A message that comes to wait in this step was not the ask of an unread reply.
IdsAreNew == \A m \in Waits(courier') \ Waits(courier) : Unanswered(courier, m)

EInv == IInv /\ Exact(courier)

\* The sweep that comes before a command leaves less mail, fewer rooms, and the
\* calls whose time has not come and whose reply nobody has sent.
LEMMA SweptIsExact ==
    ASSUME EInv
    PROVE  /\ Exact(Swept) /\ Sound(Swept) /\ Mail(Swept) \subseteq Mail(courier)
           /\ \A r \in Rooms : Swept.rooms[r] \in {None, courier.rooms[r]}
           /\ Lighter(courier, Swept) /\ Spared(courier, Swept, now)
           /\ Shrinks(courier, Swept) /\ \A e \in Mail(Swept) : ~(e.deadline <= now)
  <1>1. Exact(courier) /\ now \in Nat
    BY GateAssumption DEF EInv, IInv, Time
  <1>2. PICK d : d = Sweep(courier, now)
    OBVIOUS
  <1>3. Exact(d) /\ Fewer(courier, d, now) /\ \A e \in Mail(d) : ~(e.deadline <= now)
    BY <1>1, <1>2, SweepKeeps
  <1>4. /\ Mail(d) \subseteq Mail(courier)
        /\ \A r \in Rooms : d.rooms[r] \in {None, courier.rooms[r]}
        /\ Lighter(courier, d) /\ Spared(courier, d, now) /\ Shrinks(courier, d)
    BY <1>3, LighterMail, FewerShrinks DEF Fewer
  <1> QED BY <1>2, <1>3, <1>4, ExactIsSound DEF Swept

LEMMA UnansweredStays ==
    ASSUME NEW c, NEW d, Mail(d) \subseteq Mail(c), NEW m, Unanswered(c, m)
    PROVE  Unanswered(d, m)
  BY DEF Unanswered

\* A message that waits after the step was the ask of no reply.
LEMMA SentIsNew ==
    ASSUME EInv, IdsAreNew, NEW m \in Waits(courier')
    PROVE  Unanswered(courier, m) /\ Unanswered(Swept, m)
  <1>1. Unanswered(courier, m)
    <2>1. CASE m \in Waits(courier)
      BY <2>1, WaitingIsUnanswered DEF EInv
    <2>2. CASE m \notin Waits(courier)
      BY <2>2 DEF IdsAreNew
    <2> QED BY <2>1, <2>2
  <1>2. Mail(Swept) \subseteq Mail(courier)
    BY SweptIsExact
  <1> QED BY <1>1, <1>2, UnansweredStays

LEMMA LeftAsItIs ==
    ASSUME EInv, courier' = courier \/ courier' = Swept
    PROVE  Exact(courier')
  BY SweptIsExact DEF EInv

-----------------------------------------------------------------------------
(* One step.                                                               *)
LEMMA SetDialogueIsExact == ASSUME EInv, NEW s \in Sessions, SetDialogue(s) PROVE Exact(courier')
  <1>1. Exact(courier)
    BY DEF EInv
  <1>2. CASE gate[s].enabled
    <2>1. courier' = SessionEnded(courier, s)
      BY <1>2 DEF SetDialogue
    <2> QED BY <1>1, <2>1, SessionEndedKeeps
  <1>3. CASE ~gate[s].enabled
    <2>1. courier' = SessionStarted(courier, s)
      BY <1>3 DEF SetDialogue
    <2> QED BY <1>1, <2>1, SessionStartedKeeps
  <1> QED BY <1>2, <1>3

LEMMA EndingIsExact ==
    ASSUME EInv, NEW s \in Sessions, Forget(s) \/ CancelSpawn(s)
    PROVE  Exact(courier')
  <1>1. Exact(courier) /\ courier' = SessionEnded(courier, s)
    BY DEF EInv, Forget, CancelSpawn
  <1> QED BY <1>1, SessionEndedKeeps

LEMMA ReserveSpawnIsExact ==
    ASSUME EInv, IdsAreNew, NEW c \in Conns, NEW w \in Sessions, ReserveSpawn(c, w)
    PROVE  Exact(courier')
  <1>1. PICK s : s = conn[c].session
    OBVIOUS
  <1>2. s \in Sessions
    <2>1. IInv /\ conn[c].at # "idle"
      BY DEF EInv, ReserveSpawn
    <2> QED BY <1>1, <2>1, AdmittedSession
  <1>3. Exact(courier) /\ Sound(courier)
    BY DEF EInv, IInv
  <1>4. ASSUME NEW e \in InitialMail(s, w), AcceptsInitial(courier, e, now),
               courier' = ReserveInitial(courier, e)
        PROVE  Exact(courier')
    <2>1. e \in Envelope /\ e.room = None
      <3>1. e \in Envelope
        BY <1>2, InitialMailIsMail
      <3>2. e.room = None
        BY DEF InitialMail
      <3> QED BY <3>1, <3>2
    <2>2. e.id \in Waits(courier')
      BY <1>3, <1>4, <2>1, ReserveInitialWaits
    <2>3. Unanswered(courier, e.id)
      BY <2>2, SentIsNew
    <2> QED BY <1>3, <1>4, <2>1, <2>3, ReserveInitialKeeps
  <1>5. \/ courier' = courier
        \/ \E e \in InitialMail(s, w) :
              AcceptsInitial(courier, e, now) /\ courier' = ReserveInitial(courier, e)
    BY <1>1 DEF ReserveSpawn
  <1> QED BY <1>3, <1>4, <1>5

\* What a tell or an ask is posted with.
LEMMA PostedBelongsNowhere ==
    ASSUME NEW s, NEW kind, NEW e \in Posted(s, kind)
    PROVE  e.room = None /\ e.kind = kind
  BY DEF Posted

LEMMA PostCommandIsExact ==
    ASSUME EInv, IdsAreNew, NEW c \in Conns, PostCommand(c)
    PROVE  Exact(courier')
  <1>1. PICK s : s = conn[c].session
    OBVIOUS
  <1>2. PICK e \in (IF May(c, "tell") THEN Posted(s, "Tell") ELSE {})
                   \cup (IF May(c, "ask") THEN Posted(s, "Ask") ELSE {})
                   \cup (IF May(c, "answer") THEN Answers(s) ELSE {})
                   \cup (IF May(c, "cancel") THEN Cancels(s) ELSE {}) :
           Accepts(Swept, e, now) /\ courier' = Send(Swept, e)
    BY <1>1 DEF PostCommand
  <1>3. s \in Sessions /\ courier \in CourierType
    <2>1. IInv /\ conn[c].at # "idle" /\ courier \in CourierType
      BY <1>2 DEF EInv, IInv, Sound, May
    <2> QED BY <1>1, <2>1, AdmittedSession
  <1>4. e \in Posted(s, "Tell") \/ e \in Posted(s, "Ask") \/ e \in Answers(s) \/ e \in Cancels(s)
    BY <1>2
  <1>5. e \in Envelope
    <2>1. "Tell" \in Kinds /\ "Ask" \in Kinds
      BY DEF Kinds
    <2> QED BY <1>3, <1>4, <2>1, PostedIsMail, AnswersAreMail, CancelsAreMail
  <1>6. e.kind \in {"Tell", "Ask"} => e.room = None
    <2>1. e \in Answers(s) => e.kind = "Reply"
      BY DEF Answers
    <2>2. e \in Cancels(s) => e.kind = "Cancel"
      BY DEF Cancels
    <2> QED BY <1>4, <2>1, <2>2, PostedBelongsNowhere
  <1>7. Exact(Swept) /\ Sound(Swept)
    BY SweptIsExact
  <1>8. e.id \in Waits(courier')
    BY <1>2, <1>5, <1>7, SendWaits
  <1>9. Unanswered(Swept, e.id)
    BY <1>8, SentIsNew
  <1> QED BY <1>2, <1>5, <1>6, <1>7, <1>9, SendKeeps

LEMMA AskIsExact ==
    ASSUME EInv, IdsAreNew, NEW c \in Conns, Ask(c)
    PROVE  Exact(courier')
  <1>1. PICK s : s = conn[c].session
    OBVIOUS
  <1>2. PICK e \in Posted(s, "Ask") : Accepts(Swept, e, now) /\ courier' = Send(Swept, e)
    BY <1>1 DEF Ask
  <1>3. e \in Envelope /\ e.room = None
    <2>1. IInv /\ conn[c].at # "idle" /\ "Ask" \in Kinds
      BY DEF EInv, Ask, May, Kinds
    <2>2. s \in Sessions
      BY <1>1, <2>1, AdmittedSession
    <2> QED BY <2>1, <2>2, PostedIsMail, PostedBelongsNowhere
  <1>4. Exact(Swept) /\ Sound(Swept)
    BY SweptIsExact
  <1>5. e.id \in Waits(courier')
    BY <1>2, <1>3, <1>4, SendWaits
  <1>6. Unanswered(Swept, e.id)
    BY <1>5, SentIsNew
  <1> QED BY <1>2, <1>3, <1>4, <1>6, SendKeeps

LEMMA OpenRoomIsExact ==
    ASSUME EInv, NEW c \in Conns, OpenRoom(c)
    PROVE  Exact(courier')
  <1>1. PICK s, d : s = conn[c].session /\ d = Swept
    OBVIOUS
  <1>2. PICK r \in Rooms, members \in SUBSET Sessions, t \in Later :
           /\ d.rooms[r] = None
           /\ AcceptsRoom(d, members, s, t, now)
           /\ courier' = RoomOpen(d, r, members, s, t)
    BY <1>1 DEF OpenRoom
  <1>3. s \in Sessions
    <2>1. IInv /\ conn[c].at # "idle"
      BY DEF EInv, OpenRoom, May
    <2> QED BY <1>1, <2>1, AdmittedSession
  <1>4. t \in Nat
    BY GateAssumption DEF Later, Time
  <1>5. Exact(d)
    BY <1>1, SweptIsExact
  <1> QED BY <1>2, <1>3, <1>4, <1>5, RoomOpenKeeps

LEMMA TransferRoomIsExact ==
    ASSUME EInv, NEW c \in Conns, TransferRoom(c)
    PROVE  Exact(courier')
  <1>1. PICK s, d : s = conn[c].session /\ d = Swept
    OBVIOUS
  <1>2. PICK r \in Rooms, speaker \in Sessions :
           /\ AcceptsTransfer(d, s, r, speaker, now)
           /\ courier' = RoomTransfer(d, r, speaker)
    BY <1>1 DEF TransferRoom
  <1>3. Exact(d)
    BY <1>1, SweptIsExact
  <1> QED BY <1>2, <1>3, RoomTransferKeeps

LEMMA CloseRoomIsExact ==
    ASSUME EInv, NEW c \in Conns, CloseRoom(c)
    PROVE  Exact(courier')
  <1>1. PICK d : d = Swept
    OBVIOUS
  <1>2. PICK r \in Rooms : courier' = RemoveRoom(d, r, "Cancelled")
    BY <1>1 DEF CloseRoom, RoomClose
  <1>3. Exact(d) /\ "Cancelled" \in States
    BY <1>1, SweptIsExact DEF States
  <1>4. RoomRemoved(d, courier', r)
    BY <1>2, <1>3, RemoveRoomKeeps
  <1> QED BY <1>4 DEF RoomRemoved

LEMMA RoomAskCommandIsExact ==
    ASSUME EInv, IdsAreNew, NEW c \in Conns, RoomAskCommand(c)
    PROVE  Exact(courier')
  <1>1. PICK s, d : s = conn[c].session /\ d = Swept
    OBVIOUS
  <1>2. PICK r \in OpenRooms(courier), e \in Posted(s, "Ask") :
           /\ e.deadline = courier.rooms[r].deadline
           /\ AcceptsRound(d, r, e, now)
           /\ courier' = RoomAsk(d, r, e)
    BY <1>1 DEF RoomAskCommand
  <1>3. e \in Envelope /\ e.kind = "Ask"
    <2>1. IInv /\ conn[c].at # "idle" /\ "Ask" \in Kinds
      BY DEF EInv, RoomAskCommand, May, Kinds
    <2>2. s \in Sessions
      BY <1>1, <2>1, AdmittedSession
    <2> QED BY <2>1, <2>2, PostedIsMail
  <1>4. Exact(d) /\ Sound(d) /\ r \in Rooms /\ d.rooms[r] \in {None, courier.rooms[r]}
    BY <1>1, SweptIsExact DEF OpenRooms
  <1>5. e.deadline <= d.rooms[r].deadline
    <2>1. d.rooms[r] = courier.rooms[r]
      BY <1>2, <1>4 DEF AcceptsRound, RoomVisible
    <2>2. e.deadline \in Nat
      BY <1>3 DEF Envelope
    <2> QED BY <1>2, <2>1, <2>2
  <1>6. e.id \in Waits(courier')
    BY <1>2, <1>3, <1>4, RoomAskWaits
  <1>7. Unanswered(d, e.id)
    BY <1>1, <1>6, SentIsNew
  <1> QED BY <1>2, <1>3, <1>4, <1>5, <1>7, RoomAskKeeps

\* What a waiter takes is the oldest of the mail it wants.
LEMMA TakesMail ==
    ASSUME EInv, NEW c \in Conns, CheckTakes(c)
    PROVE  /\ conn[c].session \in Sessions /\ Swept.box[conn[c].session] # None
           /\ \E i \in DOMAIN Swept.box[conn[c].session].queue :
                 /\ courier' = Receive(Swept, conn[c].session, i)
                 /\ Wanted(Swept.box[conn[c].session].queue[i], conn[c].source, conn[c].pending)
  <1>1. PICK s, d, S : s = conn[c].session /\ d = Swept /\ S = Found(c)
    OBVIOUS
  <1>2. s \in Sessions /\ S # {} /\ courier' = Receive(d, s, Min(S))
    <2>1. IInv /\ conn[c].at # "idle"
      BY DEF EInv, CheckTakes
    <2> QED BY <1>1, <2>1, AdmittedSession DEF CheckTakes
  <1>3. Exact(d) /\ d \in CourierType
    BY <1>1, SweptIsExact, ExactIsSound
  <1>4. d.box[s] # None /\ S \subseteq DOMAIN d.box[s].queue
        /\ \A i \in S : Wanted(d.box[s].queue[i], conn[c].source, conn[c].pending)
    <2>1. S = Matching(d, s, conn[c].source, conn[c].pending)
      BY <1>1 DEF Found
    <2> QED BY <1>2, <2>1 DEF Matching, IsLive
  <1>5. d.box[s].queue \in Seq(Envelope)
    BY <1>2, <1>3, <1>4, MailboxFields
  <1>6. PICK i : i = Min(S) /\ i \in S
    <2>1. S \in SUBSET Nat
      BY <1>4, <1>5
    <2> QED BY <1>2, <2>1, MinOfNat
  <1> QED BY <1>1, <1>2, <1>4, <1>6

LEMMA CheckTakesIsExact ==
    ASSUME EInv, NEW c \in Conns, CheckTakes(c)
    PROVE  Exact(courier')
  <1>1. Exact(Swept)
    BY SweptIsExact
  <1> QED BY <1>1, TakesMail, ReceiveKeeps

LEMMA AbandonIsExact ==
    ASSUME EInv, NEW c \in Conns, Abandon(c)
    PROVE  Exact(courier')
  <1>1. PICK k, d : k = conn[c] /\ d = Swept
    OBVIOUS
  <1>2. k.pending \in CallRef
    <2>1. GoodConnection(k) /\ k.at = "leaving"
      BY <1>1 DEF EInv, IInv, ConnectionsOK, Abandon
    <2> QED BY <2>1, ConnectionFields DEF GoodConnection, Maybe
  <1>3. Exact(d) /\ Exact(courier)
    BY <1>1, SweptIsExact DEF EInv
  <1>4. courier' = courier \/ courier' = AbandonCall(d, k.session, k.pending)
    BY <1>1 DEF Abandon
  <1> QED BY <1>2, <1>3, <1>4, AbandonCallKeeps

LEMMA NextIsExact ==
    ASSUME EInv, IdsAreNew, [Next]_vars
    PROVE  EInv'
  <1>1. ASSUME NEW s \in Sessions, SessionStep(s)
        PROVE  Exact(courier')
    <2>1. Launch(s) \/ LaunchWorker(s) \/ EndedWorker(s) => courier' = courier
      BY DEF Launch, LaunchWorker, EndedWorker
    <2> QED BY <1>1, <2>1, LeftAsItIs, SetDialogueIsExact, EndingIsExact DEF SessionStep
  <1>2. ASSUME NEW c \in Conns, Command(c)
        PROVE  Exact(courier')
    <2>1. ASSUME NEW s \in Sessions, Admit(c, s)
          PROVE  courier' = courier
      BY <2>1 DEF Admit
    <2>2. ReceiveCommand(c) \/ RefusedStale(c) => courier' = courier
      BY DEF ReceiveCommand, RefusedStale
    <2>3. RefusedLoudly(c) \/ RefusedQuietly(c) => courier' = Swept
      BY DEF RefusedLoudly, RefusedQuietly
    <2> QED BY <1>2, <2>1, <2>2, <2>3, LeftAsItIs, ReserveSpawnIsExact, PostCommandIsExact,
            AskIsExact, OpenRoomIsExact, TransferRoomIsExact, CloseRoomIsExact,
            RoomAskCommandIsExact DEF Command
  <1>3. ASSUME NEW c \in Conns, Wait(c) \/ HangUp(c) \/ Abandon(c)
        PROVE  Exact(courier')
    <2>1. CheckEnded(c) \/ Wakes(c) \/ TimerRings(c) \/ HangUp(c) => courier' = courier
      BY DEF CheckEnded, Wakes, TimerRings, HangUp
    <2>2. CheckLost(c) \/ CheckSleeps(c) \/ RunsOut(c) => courier' = Swept
      BY DEF CheckLost, CheckSleeps, RunsOut
    <2> QED BY <1>3, <2>1, <2>2, LeftAsItIs, CheckTakesIsExact, AbandonIsExact DEF Wait, Check
  <1>4. ASSUME Expire
        PROVE  Exact(courier')
    <2>1. courier' = courier \/ courier' = Swept
      BY <1>4 DEF Expire, ExpirerLooks, ExpirerRearms, ExpirerFires
    <2> QED BY <2>1, LeftAsItIs
  <1>5. ASSUME Tick \/ UNCHANGED vars
        PROVE  Exact(courier')
    <2>1. courier' = courier
      BY <1>5 DEF Tick, vars
    <2> QED BY <2>1, LeftAsItIs
  <1>6. Exact(courier')
    BY <1>1, <1>2, <1>3, <1>4, <1>5 DEF Next
  <1>7. IInv'
    BY NextKeeps DEF EInv
  <1> QED BY <1>6, <1>7 DEF EInv

LEMMA InitIsExact == Init => EInv
  BY InitKeeps, NewCourierIsExact DEF Init, EInv

-----------------------------------------------------------------------------
(* What exactness says of the mailboxes.                                   *)
LEMMA BoxIsMail ==
    ASSUME Exact(courier), NEW s \in Sessions
    PROVE  /\ DOMAIN Box(s) = 1 .. Len(Box(s))
           /\ \A i \in DOMAIN Box(s) : Box(s)[i] \in Mail(courier) /\ Box(s)[i].target = s
           /\ \A e \in Mail(courier) : e.target = s => \E i \in DOMAIN Box(s) : Box(s)[i] = e
           /\ \A i, j \in DOMAIN Box(s) : Box(s)[i].id = Box(s)[j].id => i = j
  <1>1. courier \in CourierType /\ Addressed(courier) /\ Fits(courier)
    BY DEF Exact, Coherent, Sound
  <1>2. CASE courier.box[s] = None
    <2>1. Box(s) = <<>>
      BY <1>2 DEF Box
    <2>2. \A e \in Mail(courier) : e.target # s
      BY <1>1, <1>2, MailAt
    <2> QED BY <2>1, <2>2
  <1>3. CASE courier.box[s] # None
    <2>1. PICK q : q = courier.box[s].queue /\ q \in Seq(Envelope) /\ q = Box(s)
      BY <1>1, <1>3, MailboxFields DEF Box
    <2>2. Range(q) = {e \in Mail(courier) : e.target = s} /\ Distinct(q)
      BY <1>1, <1>3, <2>1, MailAt DEF Fits
    <2>3. DOMAIN q = 1 .. Len(q)
      BY <2>1, LenProperties
    <2>4. \A i \in DOMAIN q : q[i] \in Mail(courier) /\ q[i].target = s
      BY <2>2 DEF Range
    <2>5. \A e \in Mail(courier) : e.target = s => \E i \in DOMAIN q : q[i] = e
      BY <2>2 DEF Range
    <2>6. \A i, j \in DOMAIN q : q[i].id = q[j].id => i = j
      BY <2>2, <2>3 DEF Distinct
    <2> QED BY <2>1, <2>3, <2>4, <2>5, <2>6
  <1> QED BY <1>2, <1>3

\* A set with one member, or none.
LEMMA OneOrNone ==
    ASSUME NEW S
    PROVE  /\ S = {} => Cardinality(S) = 0
           /\ \A x : x \in S /\ (\A y \in S : y = x) => Cardinality(S) = 1
  <1>1. ASSUME NEW x, x \in S, \A y \in S : y = x
        PROVE  Cardinality(S) = 1
    <2>1. S = {x}
      BY <1>1
    <2> QED BY <2>1, FS_Singleton
  <1> QED BY <1>1, FS_EmptySet

\* The places in the mailbox of s where the ask of k waits, or a reply to it.
AskedAt(s, k) == {i \in DOMAIN Box(s) : Box(s)[i].id = courier.calls[k].ask}
RepliedAt(s, k) == {i \in DOMAIN Box(s) : /\ Box(s)[i].kind = "Reply"
                                          /\ Box(s)[i].replyTo = courier.calls[k].ask}

LEMMA AskWaitsOnce ==
    ASSUME Exact(courier), NEW k \in OpenCalls(courier), NEW s \in Sessions
    PROVE  Cardinality(AskedAt(s, k)) =
             IF s = courier.calls[k].target /\ courier.calls[k].stage = "Queued" THEN 1 ELSE 0
  <1>1. Coherent(courier, {}) /\ CallHolds(courier, k) /\ k \in Calls
    BY DEF Exact, Coherent, OpenCalls
  <1>2. ASSUME NEW i \in AskedAt(s, k)
        PROVE  courier.calls[k].target = s /\ courier.calls[k].stage = "Queued"
    <2>1. PICK e \in Mail(courier) : e = Box(s)[i] /\ e.target = s /\ e.id = courier.calls[k].ask
      BY BoxIsMail DEF AskedAt
    <2>2. e.kind = "Ask" /\ e.call = k /\ Carries(courier, e, "Queued") /\ MatchesCall(courier, e)
      BY <1>1, <2>1, AskCarries
    <2> QED BY <2>1, <2>2 DEF Carries, MatchesCall
  <1>3. CASE s = courier.calls[k].target /\ courier.calls[k].stage = "Queued"
    <2>1. PICK e \in Mail(courier) : e.kind = "Ask" /\ e.id = courier.calls[k].ask
      BY <1>1, <1>3 DEF CallHolds
    <2>2. e.kind = "Ask" /\ e.call = k /\ MatchesCall(courier, e)
      BY <1>1, <2>1, AskCarries
    <2>3. e.target = s
      BY <1>3, <2>2 DEF MatchesCall
    <2>4. PICK i \in DOMAIN Box(s) : Box(s)[i] = e
      BY <2>3, BoxIsMail
    <2>5. i \in AskedAt(s, k)
      BY <2>1, <2>4 DEF AskedAt
    <2>6. \A j \in AskedAt(s, k) : j = i
      BY <2>5, BoxIsMail DEF AskedAt
    <2> QED BY <1>3, <2>5, <2>6, OneOrNone
  <1>4. CASE ~(s = courier.calls[k].target /\ courier.calls[k].stage = "Queued")
    <2>1. AskedAt(s, k) = {}
      BY <1>2, <1>4
    <2> QED BY <1>4, <2>1, OneOrNone
  <1> QED BY <1>3, <1>4

LEMMA ReplyWaitsOnce ==
    ASSUME Exact(courier), NEW k \in OpenCalls(courier), NEW s \in Sessions
    PROVE  Cardinality(RepliedAt(s, k)) =
             IF s = courier.calls[k].source /\ courier.calls[k].stage = "Replied" THEN 1 ELSE 0
  <1>1. Coherent(courier, {}) /\ CallHolds(courier, k) /\ UniqueMail(courier)
    BY DEF Exact, Coherent
  <1>2. k \in OpenCalls(courier) \ {}
    OBVIOUS
  <1>3. ASSUME NEW i \in RepliedAt(s, k)
        PROVE  courier.calls[k].source = s /\ courier.calls[k].stage = "Replied"
    <2>1. PICK e \in Mail(courier) : /\ e = Box(s)[i] /\ e.target = s
                                     /\ e.kind = "Reply" /\ e.replyTo = courier.calls[k].ask
      BY BoxIsMail DEF RepliedAt
    <2>2. e.call = k /\ Carries(courier, e, "Replied") /\ MatchesCall(courier, e)
      BY <1>1, <1>2, <2>1, ReplyCarries
    <2> QED BY <2>1, <2>2 DEF Carries, MatchesCall
  <1>4. CASE s = courier.calls[k].source /\ courier.calls[k].stage = "Replied"
    <2>1. PICK e \in Mail(courier) : e.kind = "Reply" /\ e.replyTo = courier.calls[k].ask
      BY <1>1, <1>4 DEF CallHolds
    <2>2. e.call = k /\ MatchesCall(courier, e)
      BY <1>1, <1>2, <2>1, ReplyCarries
    <2>3. e.target = s
      BY <1>4, <2>1, <2>2 DEF MatchesCall
    <2>4. PICK i \in DOMAIN Box(s) : Box(s)[i] = e
      BY <2>3, BoxIsMail
    <2>5. i \in RepliedAt(s, k)
      BY <2>1, <2>4 DEF RepliedAt
    <2>6. ASSUME NEW j \in RepliedAt(s, k)
          PROVE  j = i
      <3>1. /\ j \in DOMAIN Box(s) /\ Box(s)[j] \in Mail(courier)
            /\ Box(s)[j].kind = "Reply" /\ Box(s)[j].replyTo = courier.calls[k].ask
        BY BoxIsMail DEF RepliedAt
      <3>2. Box(s)[j] = e
        BY <1>1, <2>1, <3>1 DEF UniqueMail
      <3> QED BY <2>4, <3>1, <3>2, BoxIsMail
    <2> QED BY <1>4, <2>5, <2>6, OneOrNone
  <1>5. CASE ~(s = courier.calls[k].source /\ courier.calls[k].stage = "Replied")
    <2>1. RepliedAt(s, k) = {}
      BY <1>3, <1>5
    <2> QED BY <1>5, <2>1, OneOrNone
  <1> QED BY <1>4, <1>5

LEMMA ExactCallsMatchMail == ASSUME Exact(courier) PROVE CallsMatchMail
  <1>1. Coherent(courier, {})
    BY DEF Exact
  <1>2. ASSUME NEW e \in Mail(courier), e.kind = "Ask"
        PROVE  MatchesCall(courier, e)
    BY <1>1, <1>2, CoherentMail DEF MailHolds, Carries
  <1>3. ASSUME NEW k \in OpenCalls(courier)
        PROVE  IsLive(courier, courier.calls[k].source) /\ IsLive(courier, courier.calls[k].target)
    BY <1>1 DEF Coherent, CallHolds
  <1>4. ASSUME NEW k \in OpenCalls(courier), NEW s \in Sessions
        PROVE  /\ Count(s, LAMBDA e : e.id = courier.calls[k].ask) =
                    IF s = courier.calls[k].target /\ courier.calls[k].stage = "Queued"
                      THEN 1 ELSE 0
               /\ Count(s, LAMBDA e : e.kind = "Reply" /\ e.replyTo = courier.calls[k].ask) =
                    IF s = courier.calls[k].source /\ courier.calls[k].stage = "Replied"
                      THEN 1 ELSE 0
    BY AskWaitsOnce, ReplyWaitsOnce DEF Count, AskedAt, RepliedAt
  <1> QED BY <1>2, <1>3, <1>4 DEF CallsMatchMail

LEMMA ExactLeaksNothing == ASSUME Exact(courier) PROVE NothingLeaks
  <1>1. /\ Remembers(courier) /\ Waits(courier) \cup Asks(courier, {}) \subseteq Remaining(courier)
        /\ Debt(courier, {}) = {} /\ courier \in CourierType
    BY DEF Exact, Coherent, Sound
  <1>2. Unfinished = Waits(courier) \cup Asks(courier, {})
    BY DEF Unfinished, Asks
  <1>3. Remaining(courier) = Unfinished
    BY <1>1, <1>2 DEF Debt
  <1>4. Ended(courier) \subseteq {m \in Messages : courier.states[m] # None}
    <2>1. PICK q : q = courier.retired /\ q \in Seq(Messages)
      BY <1>1, CourierFields
    <2>2. Ended(courier) \subseteq Messages
      BY <2>1 DEF Ended
    <2> QED BY <1>1, <2>2 DEF Remembers
  <1>5. /\ {m \in Messages : courier.states[m] # None} = Unfinished \cup Ended(courier)
        /\ Ended(courier) \cap Unfinished = {}
    BY <1>3, <1>4 DEF Remaining
  <1> QED BY <1>1, <1>5 DEF Remembers, NothingLeaks

LEMMA ExactBytes == ASSUME EInv PROVE BytesExact
  <1>1. BytesAreCharged /\ Fits(courier)
    BY SoundIsCharged DEF EInv, Exact, Coherent
  <1>2. ASSUME NEW s \in Sessions, courier.box[s] # None
        PROVE  /\ courier.box[s].bytes = Bytes(Box(s))
               /\ courier.box[s].bytes <= MailboxBytes
               /\ Len(Box(s)) <= MailboxEnvelopes
    <2>1. Box(s) = courier.box[s].queue
      BY <1>2 DEF Box
    <2> QED BY <1>1, <1>2, <2>1 DEF BytesAreCharged, Fits
  <1> QED BY <1>1, <1>2 DEF BytesExact, BytesAreCharged, Fits

LEMMA ExactRooms == ASSUME Exact(courier) PROVE RoomsAreExact
  <1>1. Coherent(courier, {}) /\ courier \in CourierType
    BY DEF Exact, Coherent, Sound
  <1>2. ASSUME NEW k \in OpenCalls(courier)
        PROVE  RoundHolds(courier, k)
    BY <1>1 DEF Coherent, CallHolds
  <1>3. RoomsLeaveNothing
    <2>1. \A e \in Mail(courier) : e.room # None => courier.rooms[e.room] # None
      BY <1>1, CoherentMail DEF MailHolds
    <2>2. \A k \in OpenCalls(courier) :
             courier.calls[k].room # None => courier.rooms[courier.calls[k].room] # None
      BY <1>2 DEF RoundHolds
    <2> QED BY <2>1, <2>2 DEF RoomsLeaveNothing
  <1>4. ASSUME NEW r \in OpenRooms(courier)
        PROVE  LET room == courier.rooms[r]
                   rounds == {k \in OpenCalls(courier) : courier.calls[k].room = r}
               IN /\ Cardinality(rounds) <= 1
                  /\ \A k \in rounds :
                        /\ room.current = [call |-> k, ask |-> courier.calls[k].ask]
                        /\ {courier.calls[k].source, courier.calls[k].target} \subseteq room.members
                        /\ courier.calls[k].deadline <= room.deadline
                  /\ room.rounds <= RoomRounds
                  /\ \A s \in room.members : IsLive(courier, s)
                  /\ \A e \in Mail(courier) :
                        e.room = r /\ e.kind = "Reply" => MatchesCall(courier, e)
    <2> DEFINE rounds == {k \in OpenCalls(courier) : courier.calls[k].room = r}
    <2>1. r \in Rooms /\ r # None
      BY CourierAssumption DEF OpenRooms
    <2>2. ASSUME NEW k \in rounds
          PROVE  /\ courier.rooms[r].current = [call |-> k, ask |-> courier.calls[k].ask]
                 /\ {courier.calls[k].source, courier.calls[k].target} \subseteq courier.rooms[r].members
                 /\ courier.calls[k].deadline <= courier.rooms[r].deadline
      BY <1>2, <2>1 DEF RoundHolds
    <2>3. Cardinality(rounds) <= 1
      <3>1. ASSUME NEW k \in rounds, NEW l \in rounds
            PROVE  k = l
        <4>1. [call |-> k, ask |-> courier.calls[k].ask] = [call |-> l, ask |-> courier.calls[l].ask]
          BY <2>2
        <4> QED BY <4>1
      <3>2. rounds = {} \/ \E k \in rounds : \A l \in rounds : l = k
        BY <3>1
      <3>3. Cardinality(rounds) = 0 \/ Cardinality(rounds) = 1
        BY <3>2, OneOrNone
      <3> QED BY <3>3
    <2>4. courier.rooms[r].rounds <= RoomRounds /\ \A s \in courier.rooms[r].members : IsLive(courier, s)
      BY <1>1 DEF Coherent, RoomHolds
    <2>5. ASSUME NEW e \in Mail(courier), e.room = r, e.kind = "Reply"
          PROVE  MatchesCall(courier, e)
      <3>1. MailHolds(courier, e, {})
        BY <1>1, CoherentMail
      <3> QED BY <2>1, <2>5, <3>1 DEF MailHolds, Carries
    <2> QED BY <2>2, <2>3, <2>4, <2>5
  <1>5. OneRoundPerRoom
    BY <1>4 DEF OneRoundPerRoom
  <1> QED BY <1>3, <1>5 DEF RoomsAreExact

LEMMA StepIsExact == EInv /\ [Next]_vars /\ [IdsAreNew]_vars => EInv'
  <1>1. ASSUME EInv, UNCHANGED vars
        PROVE  EInv'
    <2>1. IInv'
      BY <1>1, NextKeeps DEF EInv
    <2> QED BY <1>1, <2>1 DEF EInv, vars
  <1> QED BY <1>1, NextIsExact

\* If no message comes to wait under the identifier of an ask whose reply is
\* still unread, then in every state what the courier counts is what is in its
\* mailboxes, an open call has exactly the mail its stage tells of, and no
\* message that is over is still remembered as under way: no command, sweep or
\* end of a session loses mail, keeps it twice, or leaks a call or an
\* identifier. Senders mint identifiers that do not repeat, which the courier
\* itself does not enforce once an ask has been forgotten.
THEOREM MailStaysExact == Spec /\ [][IdsAreNew]_vars => []MailIsExact
  <1>1. EInv => MailIsExact
    BY ExactBytes, ExactCallsMatchMail, ExactLeaksNothing DEF EInv, MailIsExact
  <1> QED BY <1>1, InitIsExact, StepIsExact, PTL DEF Spec

\* Under the same premise, in every state a room has at most one call under way:
\* the one it names, between two of its members, all of them in a dialogue, due no
\* later than the room itself, and within the ceiling of rounds. An unread reply
\* keeps its round, and no mail and no call outlives its room: whichever way a
\* round is answered, times out, is withdrawn or loses a party.
THEOREM RoomsStayExact == Spec /\ [][IdsAreNew]_vars => []RoomsAreExact
  <1>1. EInv => RoomsAreExact
    BY ExactRooms DEF EInv
  <1> QED BY <1>1, InitIsExact, StepIsExact, PTL DEF Spec

-----------------------------------------------------------------------------
(* No wake-up is lost.  A waiter knows the call it waits for: as long as its  *)
(* time has not come, a call with its ask has its deadline and its partner.   *)
(* So a sweep ends that call only after a reply, and the reply is mail that   *)
(* the waiter would have taken. This fails when the identifier of the ask     *)
(* comes to mean another message, or when the clock is set back.              *)

SameRequest(x, y) == /\ x.ask = y.ask /\ x.source = y.source
                     /\ x.target = y.target /\ x.deadline = y.deadline

\* What is in d and was not in c is the message that was sent, or its call.
Follows(c, d) ==
    /\ \A k \in OpenCalls(d) :
          \/ k \in OpenCalls(c) /\ SameRequest(c.calls[k], d.calls[k])
          \/ d.calls[k].ask \in Waits(d) /\ c.states[d.calls[k].ask] = None
    /\ \A e \in Mail(d) : e \in Mail(c) \/ c.states[e.id] = None

\* d has the call that the ask e opened.
AsksFor(d, e) == LET call == d.calls[e.call] IN
                 /\ call # None /\ call.ask = e.id
                 /\ call.target = e.target /\ call.deadline = e.deadline

\* No call of c has ended in d but by a cancel of its ask, which waits now, and
\* a reply that was not there answers an ask of c.
SentOver(c, d) ==
    /\ \A k \in OpenCalls(c) :
          \/ k \in OpenCalls(d) /\ d.calls[k].ask = c.calls[k].ask
          \/ /\ c.calls[k].stage # "Replied"
             /\ \E f \in Mail(d) : f.kind = "Cancel" /\ f.replyTo = c.calls[k].ask
    /\ \A f \in Mail(d) \ Mail(c) :
          f.kind = "Reply" => \E k \in OpenCalls(c) : c.calls[k].ask = f.replyTo

LEMMA ShrinksFollows == ASSUME NEW c, NEW d, Shrinks(c, d) PROVE Follows(c, d)
  BY DEF Shrinks, Follows, SameRequest, OpenCalls

\* The envelope f comes to wait in b, what is left of c, whose calls are those
\* of c but for the one that f asks for.
LEMMA QueuedFollows ==
    ASSUME NEW c, NEW b, NEW f, NEW d, c.states[f.id] = None,
           Mail(b) \subseteq Mail(c), Mail(d) = Mail(b) \cup {f}, d.calls = b.calls,
           \A k \in OpenCalls(b) : \/ k \in OpenCalls(c) /\ SameRequest(c.calls[k], b.calls[k])
                                   \/ b.calls[k].ask = f.id
    PROVE  Follows(c, d)
  <1>1. OpenCalls(d) = OpenCalls(b) /\ f.id \in Waits(d)
    BY DEF OpenCalls, Waits
  <1>2. \A k \in OpenCalls(d) :
           \/ k \in OpenCalls(c) /\ SameRequest(c.calls[k], d.calls[k])
           \/ d.calls[k].ask \in Waits(d) /\ c.states[d.calls[k].ask] = None
    BY <1>1
  <1> QED BY <1>2 DEF Follows

\* A tell or an ask.
LEMMA RouteFollows ==
    ASSUME NEW c, Sound(c), NEW e \in Envelope, e.kind \in {"Tell", "Ask"},
           e.replyTo = None, c.box[e.target] # None, c.states[e.id] = None,
           e.kind = "Ask" => c.calls[e.call] = None,
           NEW d, d = Route(c, e)
    PROVE  Follows(c, d) /\ SentOver(c, d) /\ (e.kind = "Ask" => AsksFor(d, e))
  <1>1. c \in CourierType
    BY DEF Sound
  <1>2. PICK b : b = IF e.kind # "Ask" THEN c ELSE OpenCall(c, e)
    OBVIOUS
  <1>3. /\ b \in CourierType /\ b.box = c.box /\ b.charged = c.charged
        /\ \A l \in Calls \ {e.call} : b.calls[l] = c.calls[l]
        /\ e.kind # "Ask" => b = c
        /\ e.kind = "Ask" => b.calls[e.call] = CallOf(e) /\ CallOf(e) # None
    BY <1>1, <1>2, OpenCallFields
  <1>4. Sound(b) /\ Mail(b) = Mail(c)
    BY <1>1, <1>3, NoMailMoves
  <1>5. d = Enqueue(b, e)
    BY <1>2 DEF Route, OpenCall, CallOf
  <1>6. Queued(b, e, d)
    BY <1>3, <1>4, <1>5, EnqueueEffect
  <1>7. Mail(d) = Mail(b) \cup {e} /\ d.calls = b.calls
    BY <1>6 DEF Queued
  <1>8. ASSUME NEW k \in OpenCalls(b)
        PROVE  \/ k \in OpenCalls(c) /\ SameRequest(c.calls[k], b.calls[k])
               \/ b.calls[k].ask = e.id
    <2>1. CASE b.calls[k] = c.calls[k]
      BY <2>1 DEF OpenCalls, SameRequest
    <2>2. CASE k = e.call /\ e.kind = "Ask"
      BY <1>3, <2>2 DEF CallOf
    <2> QED BY <1>3, <2>1, <2>2 DEF OpenCalls
  <1>9. Follows(c, d)
    BY <1>4, <1>7, <1>8, QueuedFollows
  <1>10. e.kind = "Ask" => AsksFor(d, e)
    <2>1. e.kind = "Ask" => d.calls[e.call] = CallOf(e) /\ CallOf(e) # None
      BY <1>3, <1>7
    <2> QED BY <2>1 DEF AsksFor, CallOf
  <1>11. ASSUME NEW k \in OpenCalls(c)
         PROVE  d.calls[k] = c.calls[k] /\ k \in OpenCalls(d)
    <2>1. k \in Calls /\ c.calls[k] # None
      BY DEF OpenCalls
    <2>2. k # e.call \/ e.kind # "Ask"
      BY <2>1
    <2>3. b.calls[k] = c.calls[k]
      BY <1>3, <2>1, <2>2
    <2> QED BY <1>7, <2>1, <2>3 DEF OpenCalls
  <1>12. SentOver(c, d)
    BY <1>4, <1>7, <1>11 DEF SentOver
  <1> QED BY <1>9, <1>10, <1>12

LEMMA SendFollows ==
    ASSUME NEW c, Sound(c), NEW e \in Envelope, NEW time, Accepts(c, e, time),
           NEW d, d = Send(c, e)
    PROVE  Follows(c, d) /\ SentOver(c, d) /\ (e.kind = "Ask" => AsksFor(d, e))
  <1>1. /\ c \in CourierType /\ e.kind \in Kinds /\ e.call \in Calls /\ e.target \in Sessions
        /\ c.box[e.target] # None /\ c.states[e.id] = None
        /\ e.replyTo = None <=> e.kind \in {"Tell", "Ask"}
    BY DEF Sound, Envelope, Accepts, AdmitShape, IsLive
  <1>2. CASE e.kind \in {"Tell", "Ask"}
    <2>1. d = Route(c, e) /\ e.replyTo = None /\ c.calls[e.call] = None
      BY <1>1, <1>2 DEF Send, Accepts, AdmitRoute
    <2> QED BY <1>1, <1>2, <2>1, RouteFollows
  <1>3. CASE e.kind = "Reply"
    <2>1. c.calls[e.call] # None /\ d = Reply(c, e)
      BY <1>3 DEF Accepts, AdmitReply, Send
    <2>2. PICK b : b = SetStage(c, e.call, c.calls[e.call].ask, "Replied")
      OBVIOUS
    <2>3. PICK f : AsQueued(c, e, f) /\ d = Enqueue(b, f)
      BY <1>1, <2>1, <2>2, ReplySent
    <2>4. Staged(c, e.call, c.calls[e.call].ask, "Replied", b)
      BY <1>1, <2>1, <2>2, SetStageFields, CallFields DEF Stages, States
    <2>5. b \in CourierType /\ b.box = c.box /\ b.charged = c.charged
      BY <2>4 DEF Staged
    <2>6. Sound(b) /\ Mail(b) = Mail(c)
      BY <1>1, <2>5, NoMailMoves
    <2>7. /\ f \in Envelope /\ f.target = e.target /\ f.id = e.id
          /\ f.kind = e.kind /\ f.replyTo = e.replyTo
      BY <2>3 DEF AsQueued
    <2>8. Queued(b, f, d)
      BY <1>1, <2>3, <2>5, <2>6, <2>7, EnqueueEffect
    <2>9. Mail(d) = Mail(b) \cup {f} /\ d.calls = b.calls
      BY <2>8 DEF Queued
    <2>10. ASSUME NEW k \in OpenCalls(b)
           PROVE  k \in OpenCalls(c) /\ SameRequest(c.calls[k], b.calls[k])
      <3>1. CASE k = e.call
        BY <1>1, <2>1, <2>4, <3>1 DEF Staged, OpenCalls, SameRequest
      <3>2. CASE k # e.call
        BY <2>4, <3>2 DEF Staged, OpenCalls, SameRequest
      <3> QED BY <3>1, <3>2
    <2>11. Follows(c, d)
      BY <1>1, <2>6, <2>7, <2>9, <2>10, QueuedFollows
    <2>12. e.call \in OpenCalls(c) /\ c.calls[e.call].ask = f.replyTo
      BY <1>1, <1>3, <2>1, <2>7 DEF Accepts, AdmitReply, OpenCalls
    <2>13. \A k \in OpenCalls(c) : k \in OpenCalls(d) /\ d.calls[k].ask = c.calls[k].ask
      <3>1. ASSUME NEW k \in OpenCalls(c)
            PROVE  b.calls[k] # None /\ b.calls[k].ask = c.calls[k].ask
        <4>1. CASE k = e.call
          BY <2>4, <4>1 DEF Staged
        <4>2. CASE k # e.call
          BY <2>4, <4>2 DEF Staged, OpenCalls
        <4> QED BY <4>1, <4>2
      <3> QED BY <2>9, <3>1 DEF OpenCalls
    <2>14. SentOver(c, d)
      BY <2>6, <2>9, <2>12, <2>13 DEF SentOver
    <2> QED BY <1>3, <2>11, <2>14
  <1>4. CASE e.kind = "Cancel"
    <2>1. PICK k : k = e.call /\ k \in Calls
      BY <1>1
    <2>2. c.calls[k] # None /\ d = Cancel(c, e) /\ e.replyTo # None
      BY <1>1, <1>4, <2>1 DEF Accepts, AdmitCancel, Send
    <2>3. c.calls[k].ask \in Messages /\ c.calls[k].target \in Sessions
      BY <1>1, <2>1, <2>2, CallFields
    <2>4. PICK a : a = IF c.calls[k].stage = "Queued"
                         THEN Withdraw(c, c.calls[k].target, c.calls[k].ask) ELSE c
      OBVIOUS
    <2>5. PICK b : b = Retire(EndCall(a, k), c.calls[k].ask, "Cancelled")
      OBVIOUS
    <2>6. PICK f : /\ f \in Envelope /\ f.id = e.id /\ f.kind = e.kind
                   /\ f.replyTo = e.replyTo /\ f.target = e.target /\ d = Enqueue(b, f)
      <3>1. SentOf(c, e, k, b, d)
        BY <1>1, <2>1, <2>2, <2>4, <2>5, CancelSent
      <3> QED BY <3>1 DEF SentOf
    <2>7. Sound(a) /\ Lighter(c, a) /\ a.calls = c.calls
      <3>1. a = c \/ a = Withdraw(c, c.calls[k].target, c.calls[k].ask)
        BY <2>4
      <3> QED BY <1>1, <2>3, <3>1, WithdrawEffect, LighterSame
    <2>8. PICK h : h = EndCall(a, k)
      OBVIOUS
    <2>9. /\ Sound(h) /\ h.box = a.box /\ Mail(h) = Mail(a)
          /\ h.calls = [l \in Calls |-> IF l = k THEN None ELSE a.calls[l]]
      <3>1. a \in CourierType
        BY <2>7 DEF Sound
      <3> QED BY <2>1, <2>7, <2>8, <3>1, EndCallEffect, EndCallFields
    <2>10. Sound(b) /\ b.box = h.box /\ Mail(b) = Mail(h) /\ b.calls = h.calls
      <3>1. "Cancelled" \in States
        BY DEF States
      <3> QED BY <2>3, <2>5, <2>8, <2>9, <3>1, RetireEffect
    <2>11. b.box[e.target] # None
      BY <1>1, <2>7, <2>9, <2>10 DEF Lighter
    <2>12. Queued(b, f, d)
      BY <1>1, <2>6, <2>10, <2>11, EnqueueEffect
    <2>13. Mail(d) = Mail(b) \cup {f} /\ d.calls = b.calls
      BY <2>12 DEF Queued
    <2>14. Mail(b) \subseteq Mail(c)
      BY <2>7, <2>9, <2>10, LighterMail
    <2>15. \A l \in OpenCalls(b) : l \in OpenCalls(c) /\ SameRequest(c.calls[l], b.calls[l])
      BY <2>7, <2>9, <2>10 DEF OpenCalls, SameRequest
    <2>16. Follows(c, d)
      BY <1>1, <2>6, <2>13, <2>14, <2>15, QueuedFollows
    <2>17. c.calls[k].ask = f.replyTo /\ c.calls[k].stage # "Replied" /\ f.kind = "Cancel"
      BY <1>1, <1>4, <2>1, <2>6 DEF Accepts, AdmitCancel
    <2>18. \A l \in OpenCalls(c) \ {k} : l \in OpenCalls(d) /\ d.calls[l] = c.calls[l]
      BY <2>7, <2>9, <2>10, <2>13 DEF OpenCalls
    <2>19. f \in Mail(d) /\ Mail(d) \ Mail(c) \subseteq {f}
      BY <2>13, <2>14
    <2>20. SentOver(c, d)
      BY <2>17, <2>18, <2>19 DEF SentOver
    <2> QED BY <1>4, <2>16, <2>20
  <1> QED BY <1>1, <1>2, <1>3, <1>4 DEF Kinds

\* What a value with the same mail and the same calls follows, or is followed by.
LEMMA FollowsSame ==
    ASSUME NEW c, NEW a, Follows(c, a), NEW d, d.calls = a.calls, Mail(d) = Mail(a)
    PROVE  Follows(c, d)
  <1>1. OpenCalls(d) = OpenCalls(a) /\ Waits(d) = Waits(a)
    BY DEF OpenCalls, Waits
  <1> QED BY <1>1 DEF Follows

LEMMA SameFollows ==
    ASSUME NEW c, NEW a, a.calls = c.calls, Mail(a) = Mail(c), a.states = c.states,
           NEW d, Follows(a, d)
    PROVE  Follows(c, d)
  <1>1. OpenCalls(a) = OpenCalls(c)
    BY DEF OpenCalls
  <1> QED BY <1>1 DEF Follows

LEMMA ReserveInitialFollows ==
    ASSUME NEW c, Sound(c), NEW e \in Envelope, NEW time, AcceptsInitial(c, e, time),
           NEW d, d = ReserveInitial(c, e)
    PROVE  Follows(c, d) /\ SentOver(c, d)
  <1>1. PICK s : s = e.target /\ s \in Sessions
    BY DEF Envelope
  <1>2. PICK a : a = SessionStarted(c, s)
    OBVIOUS
  <1>3. Started(c, s, a)
    BY <1>1, <1>2, SessionStartedEffect
  <1>4. /\ Sound(a) /\ a.calls = c.calls /\ Mail(a) = Mail(c) /\ a.states = c.states
        /\ Accepts(a, e, time) /\ a.box[s] # None
    BY <1>1, <1>2, <1>3 DEF Started, Gains, AcceptsInitial
  <1>5. PICK b : b = Send(a, e)
    OBVIOUS
  <1>6. Follows(a, b) /\ SentOver(a, b)
    BY <1>4, <1>5, SendFollows
  <1>7. Follows(c, b)
    BY ONLY <1>4, <1>6, SameFollows
  <1>8. Sound(b) /\ b.box[s] # None
    <2>1. Sound(b) /\ SameBoxes(a, b)
      BY <1>4, <1>5, SendEffect
    <2> QED BY <1>1, <1>4, <2>1 DEF SameBoxes
  <1>9. Shut(b, s, d)
    <2>1. d = [b EXCEPT !.box[s].ready = FALSE]
      BY <1>1, <1>2, <1>5 DEF ReserveInitial
    <2> QED BY <1>1, <1>8, <2>1, CloseMailboxEffect
  <1>10. d.calls = b.calls /\ Mail(d) = Mail(b)
    BY <1>9 DEF Shut
  <1>11. SentOver(c, d)
    BY ONLY <1>4, <1>6, <1>10 DEF SentOver, OpenCalls
  <1>12. Follows(c, d)
    BY ONLY <1>7, <1>10, FollowsSame
  <1> QED BY <1>11, <1>12

LEMMA RoomSetFollows ==
    ASSUME NEW c, NEW a, Follows(c, a), NEW r, NEW d, RoomSet(a, r, d)
    PROVE  Follows(c, d) /\ d.calls = a.calls /\ Mail(d) = Mail(a)
  <1>1. d.calls = a.calls /\ Mail(d) = Mail(a)
    BY DEF RoomSet, Mail
  <1> QED BY <1>1, FollowsSame

LEMMA RoomAskFollows ==
    ASSUME NEW c, Sound(c), NEW r \in Rooms, NEW e \in Envelope, e.kind = "Ask",
           NEW time, AcceptsRound(c, r, e, time), NEW d, d = RoomAsk(c, r, e)
    PROVE  /\ Follows(c, d) /\ SentOver(c, d)
           /\ AsksFor(d, e)
  <1>1. /\ c.rooms[r] # None /\ c.box[e.target] # None /\ c.states[e.id] = None
        /\ e.replyTo = None /\ c.calls[e.call] = None
    BY DEF AcceptsRound, RoomVisible, AdmitShape, AdmitRoute, IsLive
  <1>2. PICK f : f = [e EXCEPT !.room = r]
    OBVIOUS
  <1>3. /\ f \in Envelope /\ f.kind = e.kind /\ f.replyTo = e.replyTo
        /\ f.target = e.target /\ f.id = e.id /\ f.call = e.call /\ f.deadline = e.deadline
    BY <1>2 DEF Envelope, Maybe
  <1>4. PICK a : a = Route(c, f)
    OBVIOUS
  <1>5. /\ f.kind \in {"Tell", "Ask"} /\ f.replyTo = None /\ c.box[f.target] # None
        /\ c.states[f.id] = None /\ c.calls[f.call] = None
    BY <1>1, <1>3
  <1>6. Sound(a) /\ a.rooms = c.rooms
    BY <1>3, <1>4, <1>5, RouteEffect
  <1>7. Follows(c, a) /\ SentOver(c, a) /\ AsksFor(a, f)
    BY <1>3, <1>4, <1>5, RouteFollows
  <1>8. d = RoundBegun(a, r, f)
    BY <1>2, <1>3, <1>4 DEF RoomAsk, RoundBegun
  <1>9. a \in CourierType /\ a.rooms[r] # None
    BY <1>1, <1>6 DEF Sound
  <1>10. PICK next \in Room : /\ d = WithRoom(a, r, next)
                              /\ next.members = a.rooms[r].members
                              /\ next.deadline = a.rooms[r].deadline
                              /\ next.rounds = a.rooms[r].rounds + 1
                              /\ next.current = [call |-> f.call, ask |-> f.id]
    BY <1>3, <1>8, <1>9, RoundBeginsInRoom
  <1>11. RoomSet(a, r, d)
    BY <1>9, <1>10, WithRoomSets
  <1>12. Follows(c, d) /\ d.calls = a.calls /\ Mail(d) = Mail(a)
    BY ONLY <1>7, <1>11, RoomSetFollows
  <1>13. SentOver(c, d)
    BY ONLY <1>7, <1>12 DEF SentOver, OpenCalls
  <1> QED BY <1>3, <1>7, <1>12, <1>13 DEF AsksFor

\* The mail e has left for s, which read it; no call ends but by its reply.
OnlyReads(c, s, e, d) ==
    /\ e \in Mail(c) /\ e.target = s
    /\ Mail(d) \subseteq Mail(c)
    /\ Distinct(c.box[s].queue) => e \notin Mail(d)
    /\ \A k \in OpenCalls(c) :
          \/ k \in OpenCalls(d) /\ d.calls[k].ask = c.calls[k].ask
          \/ k = e.call /\ e.kind = "Reply" /\ MatchesCall(c, e)

\* What was read is gone; an ask that was read keeps its call.
LEMMA ReceiveFollows ==
    ASSUME NEW c, Sound(c), NEW s \in Sessions, c.box[s] # None,
           NEW i \in DOMAIN c.box[s].queue, NEW d, d = Receive(c, s, i)
    PROVE  Follows(c, d) /\ OnlyReads(c, s, c.box[s].queue[i], d)
  <1>1. c \in CourierType
    BY DEF Sound
  <1>2. PICK q, e : q = c.box[s].queue /\ e = q[i]
    OBVIOUS
  <1>3. q \in Seq(Envelope) /\ i \in 1 .. Len(q) /\ e \in Envelope
    <2>1. q \in Seq(Envelope)
      BY <1>1, <1>2, MailboxFields
    <2>2. DOMAIN q = 1 .. Len(q)
      BY <2>1, LenProperties
    <2> QED BY <1>2, <2>1, <2>2, ElementOfSeq
  <1>4. PICK x : x = Without(c, s, RemoveAt(q, i), e.size)
    OBVIOUS
  <1>5. /\ Sound(x) /\ Lighter(c, x) /\ x.calls = c.calls /\ e \in Mail(c) /\ x \in CourierType
        /\ e.target = s /\ (Distinct(q) => e \notin Mail(x))
    <2>1. /\ i \in 1 .. Len(c.box[s].queue)
          /\ x = Without(c, s, RemoveAt(c.box[s].queue, i), c.box[s].queue[i].size)
      BY <1>2, <1>3, <1>4
    <2>2. Taken(c, s, i, x)
      BY <2>1, WithoutEffect
    <2> QED BY <1>2, <2>2 DEF Taken, Sound
  <1>6. Mail(x) \subseteq Mail(c)
    BY <1>5, LighterMail
  <1>7. e.id \in Messages /\ e.call \in Calls /\ e.kind \in Kinds /\ "Received" \in States
        /\ "Replied" \in States /\ (e.kind = "Reply" => e.replyTo \in Messages)
    <2>1. Addressed(c)
      BY DEF Sound
    <2>2. e.replyTo = None <=> e.kind \in {"Tell", "Ask"}
      BY <1>5, <2>1 DEF Addressed
    <2>3. e.replyTo \in Maybe(Messages)
      BY <1>3 DEF Envelope
    <2> QED BY <1>3, <2>2, <2>3 DEF Envelope, States, Maybe
  <1> DEFINE Kept(k) == k \in OpenCalls(d) /\ d.calls[k].ask = c.calls[k].ask
             Answered(k) == k = e.call /\ e.kind = "Reply" /\ MatchesCall(c, e)
  <1> SUFFICES /\ Follows(c, d) /\ Mail(d) = Mail(x)
               /\ \A k \in OpenCalls(c) : Kept(k) \/ Answered(k)
    BY <1>2, <1>5, <1>6, Zenon DEF OnlyReads
  <1>8. CASE e.kind \in {"Tell", "Cancel"}
    <2>1. d = Retire(x, e.id, "Received")
      BY <1>2, <1>4, <1>8 DEF Receive
    <2>2. d.calls = x.calls /\ Mail(d) = Mail(x)
      BY <1>5, <1>7, <2>1, RetireEffect
    <2>3. Shrinks(c, d)
      BY <1>5, <1>6, <2>2 DEF Shrinks
    <2>4. \A k \in OpenCalls(c) : Kept(k)
      BY <1>5, <2>2 DEF OpenCalls
    <2> QED BY <2>2, <2>3, <2>4, ShrinksFollows
  <1>9. CASE e.kind = "Ask"
    <2>1. d = ReadAsk(x, e)
      BY <1>2, <1>4, <1>9 DEF Receive
    <2>2. CASE x.calls[e.call] # None /\ x.calls[e.call].ask = e.id
      <3>1. PICK k : k = e.call
        OBVIOUS
      <3>2. d = SetStage(x, k, e.id, "Received")
        BY <2>1, <2>2, <3>1 DEF ReadAsk, SetStage
      <3>3. "Received" \in Stages \cap States
        BY DEF Stages, States
      <3>4. Staged(x, k, e.id, "Received", d)
        BY <1>5, <1>7, <2>2, <3>1, <3>2, <3>3, SetStageFields
      <3>5. Mail(d) = Mail(x)
        BY <3>4 DEF Staged, Mail
      <3>6. ASSUME NEW l \in OpenCalls(d)
            PROVE  l \in OpenCalls(c) /\ SameRequest(c.calls[l], d.calls[l])
        <4>1. CASE l = k
          BY <1>5, <2>2, <3>1, <3>4, <4>1 DEF Staged, OpenCalls, SameRequest
        <4>2. CASE l # k
          BY <1>5, <3>4, <4>2 DEF Staged, OpenCalls, SameRequest
        <4> QED BY <4>1, <4>2
      <3>7. Follows(c, d)
        BY <1>6, <3>5, <3>6 DEF Follows
      <3>8. ASSUME NEW l \in OpenCalls(c)
            PROVE  Kept(l)
        <4>1. CASE l = k
          BY <1>5, <2>2, <3>1, <3>4, <4>1 DEF Staged, OpenCalls
        <4>2. CASE l # k
          BY <1>5, <3>4, <4>2 DEF Staged, OpenCalls
        <4> QED BY <4>1, <4>2
      <3> QED BY <3>5, <3>7, <3>8
    <2>3. CASE ~(x.calls[e.call] # None /\ x.calls[e.call].ask = e.id)
      <3>1. d = Retire(x, e.id, "Received")
        BY <2>1, <2>3 DEF ReadAsk
      <3>2. d.calls = x.calls /\ Mail(d) = Mail(x)
        BY <1>5, <1>7, <3>1, RetireEffect
      <3>3. Shrinks(c, d)
        BY <1>5, <1>6, <3>2 DEF Shrinks
      <3>4. \A k \in OpenCalls(c) : Kept(k)
        BY <1>5, <3>2 DEF OpenCalls
      <3> QED BY <3>2, <3>3, <3>4, ShrinksFollows
    <2> QED BY <2>2, <2>3
  <1>10. CASE e.kind = "Reply"
    <2>1. PICK a : a = IF MatchesCall(x, e) THEN EndCall(x, e.call) ELSE x
      OBVIOUS
    <2>2. /\ Sound(a) /\ Mail(a) = Mail(x) /\ \A l \in Calls : a.calls[l] \in {None, c.calls[l]}
          /\ \A l \in Calls : a.calls[l] = c.calls[l] \/ (l = e.call /\ MatchesCall(x, e))
      <3>1. CASE ~MatchesCall(x, e)
        <4>1. a = x
          BY <2>1, <3>1
        <4> QED BY <1>5, <4>1
      <3>2. CASE MatchesCall(x, e)
        <4>1. a = EndCall(x, e.call)
          BY <2>1, <3>2
        <4>2. Sound(a) /\ Mail(a) = Mail(x)
          BY <1>5, <1>7, <4>1, EndCallEffect
        <4>3. a.calls = [l \in Calls |-> IF l = e.call THEN None ELSE x.calls[l]]
          BY <1>5, <1>7, <4>1, EndCallFields
        <4>4. \A l \in Calls : a.calls[l] = IF l = e.call THEN None ELSE c.calls[l]
          BY <1>5, <4>3
        <4> QED BY <3>2, <4>2, <4>4
      <3> QED BY <3>1, <3>2
    <2>3. PICK b : b = Retire(a, e.id, "Received")
      OBVIOUS
    <2>4. Sound(b) /\ Mail(b) = Mail(a) /\ b.calls = a.calls
      BY <1>7, <2>2, <2>3, RetireEffect
    <2>5. d = Retire(b, e.replyTo, "Replied")
      <3>1. d = ReadReply(x, e)
        BY <1>2, <1>4, <1>10 DEF Receive
      <3> QED BY <2>1, <2>3, <3>1 DEF ReadReply
    <2>6. Mail(d) = Mail(b) /\ d.calls = b.calls
      BY <1>7, <1>10, <2>4, <2>5, RetireEffect
    <2>7. Shrinks(c, d)
      BY <1>6, <2>2, <2>4, <2>6 DEF Shrinks
    <2>8. MatchesCall(x, e) => MatchesCall(c, e)
      BY <1>5 DEF MatchesCall
    <2>9. \A k \in OpenCalls(c) : Kept(k) \/ Answered(k)
      BY <1>10, <2>2, <2>4, <2>6, <2>8 DEF OpenCalls
    <2> QED BY <2>2, <2>4, <2>6, <2>7, <2>9, ShrinksFollows
  <1> QED BY <1>7, <1>8, <1>9, <1>10 DEF Kinds

-----------------------------------------------------------------------------
(* What a waiter knows of the call it waits for.                           *)
Waiter(k) == k.at \in {"armed", "asleep"} /\ k.pending # None

Agrees(c, ref) == c.calls[ref.call] # None /\ c.calls[ref.call].ask = ref.ask

KnowsItsCall(c, k) ==
    /\ Agrees(c, k.pending) =>
          /\ c.calls[k.pending.call].deadline = k.due
          /\ k.source # None => k.source = c.calls[k.pending.call].target
    /\ k.pending.ask \in Waits(c) => Agrees(c, k.pending)

WaiterOK(c, k, time) == Waiter(k) /\ k.due > time => KnowsItsCall(c, k)

\* An ask that somebody waits for gives its identifier to no other message.
Waited == {conn[x].pending.ask : x \in {y \in Conns : Waiter(conn[y])}}
AsksAreNew == (Waits(courier') \ Waits(courier)) \cap Waited = {}

ClockGoesOn == now' >= now

\* The identifier a waiter waits for is not free.
LEMMA NotAnew ==
    ASSUME EInv, AsksAreNew, NEW x \in Conns, Waiter(conn[x]), conn[x].due > now,
           WaiterOK(courier, conn[x], now), NEW a, a = courier \/ a = Swept,
           NEW m, m = conn[x].pending.ask, m \in Waits(courier')
    PROVE  a.states[m] # None
  <1>1. PICK k, ref : k = conn[x] /\ ref = k.pending
    OBVIOUS
  <1>2. ref \in CallRef /\ now \in Nat /\ k.due \in Nat
    <2>1. GoodConnection(k) /\ ref # None /\ now \in Nat
      BY <1>1, GateAssumption DEF EInv, IInv, ConnectionsOK, Waiter, Time
    <2> QED BY <1>1, <2>1, ConnectionFields DEF GoodConnection, Maybe
  <1>3. m \in Waits(courier)
    BY DEF AsksAreNew, Waited
  <1>4. Agrees(courier, ref) /\ courier.calls[ref.call].deadline = k.due
    BY <1>1, <1>3 DEF WaiterOK, KnowsItsCall
  <1>5. ref.call \in OpenCalls(courier) /\ ref.call \in Calls
        /\ courier.calls[ref.call].ask = m
    BY <1>1, <1>2, <1>4 DEF CallRef, OpenCalls, Agrees
  <1>6. Coherent(courier, {})
    BY DEF EInv, Exact
  <1>7. CASE a = courier
    BY <1>3, <1>6, <1>7 DEF Coherent, Remaining
  <1>8. CASE a = Swept
    <2>1. PICK e \in Mail(courier) : e.id = m
      BY <1>3 DEF Waits
    <2>2. Carries(courier, e, "Queued") /\ e.call = ref.call
      BY <1>5, <1>6, <2>1, AskCarries
    <2>3. courier.calls[ref.call].stage = "Queued"
      BY <2>2 DEF Carries
    <2>4. Coherent(a, {}) /\ Spared(courier, a, now)
      BY <1>8, SweptIsExact DEF Exact
    <2>5. a.calls[ref.call] = courier.calls[ref.call]
      <3>1. ~(k.due <= now)
        BY <1>1, <1>2
      <3> QED BY <1>4, <1>5, <2>3, <2>4, <3>1 DEF Spared
    <2>6. ref.call \in OpenCalls(a) \ {} /\ a.calls[ref.call].ask = m
      BY <1>5, <2>5 DEF OpenCalls
    <2>7. m \in Asks(a, {})
      BY <2>6 DEF Asks
    <2> QED BY <2>4, <2>7 DEF Coherent, Remaining
  <1> QED BY <1>7, <1>8

\* Whatever happens to its call, a waiter knows it.
LEMMA WaiterFollows ==
    ASSUME EInv, AsksAreNew, Exact(courier'), NEW x \in Conns, Waiter(conn[x]),
           conn[x].due > now, WaiterOK(courier, conn[x], now),
           NEW a, a = courier \/ a = Swept, Follows(a, courier')
    PROVE  KnowsItsCall(courier', conn[x])
  <1>1. PICK k, ref, d, m : k = conn[x] /\ ref = k.pending /\ d = courier' /\ m = ref.ask
    OBVIOUS
  <1>2. ref \in CallRef
    <2>1. GoodConnection(k) /\ ref # None
      BY <1>1 DEF EInv, IInv, ConnectionsOK, Waiter
    <2> QED BY <1>1, <2>1, ConnectionFields DEF GoodConnection, Maybe
  <1>3. m \in Waits(d) => a.states[m] # None
    BY <1>1, NotAnew
  <1>4. Shrinks(courier, a)
    BY SweptIsExact DEF Shrinks
  <1>5. /\ Agrees(courier, ref) =>
              /\ courier.calls[ref.call].deadline = k.due
              /\ k.source # None => k.source = courier.calls[ref.call].target
        /\ m \in Waits(courier) => Agrees(courier, ref)
    BY <1>1 DEF WaiterOK, KnowsItsCall
  <1>6. ASSUME Agrees(d, ref)
        PROVE  /\ d.calls[ref.call].deadline = k.due
               /\ k.source # None => k.source = d.calls[ref.call].target
    <2>1. ref.call \in OpenCalls(d) /\ ref.call \in Calls /\ d.calls[ref.call].ask = m
      BY <1>1, <1>2, <1>6 DEF CallRef, OpenCalls, Agrees
    <2>2. ref.call \in OpenCalls(a) /\ SameRequest(a.calls[ref.call], d.calls[ref.call])
      BY <1>1, <1>3, <2>1 DEF Follows
    <2>3. a.calls[ref.call] = courier.calls[ref.call] /\ courier.calls[ref.call] # None
      BY <1>4, <2>1, <2>2 DEF Shrinks, OpenCalls
    <2>4. /\ courier.calls[ref.call].ask = d.calls[ref.call].ask
          /\ courier.calls[ref.call].target = d.calls[ref.call].target
          /\ courier.calls[ref.call].deadline = d.calls[ref.call].deadline
      BY ONLY <2>2, <2>3 DEF SameRequest
    <2>5. Agrees(courier, ref)
      BY ONLY <1>1, <2>1, <2>3, <2>4 DEF Agrees
    <2> QED BY ONLY <1>5, <2>4, <2>5
  <1>7. ASSUME m \in Waits(d)
        PROVE  Agrees(d, ref)
    <2>1. PICK e \in Mail(d) : e.id = m
      BY <1>7 DEF Waits
    <2>2. e \in Mail(courier)
      BY <1>1, <1>3, <1>4, <1>7, <2>1 DEF Follows, Shrinks
    <2>3. m \in Waits(courier)
      BY <2>1, <2>2 DEF Waits
    <2>4. ref.call \in OpenCalls(courier) /\ courier.calls[ref.call].ask = m
      BY <1>1, <1>2, <1>5, <2>3 DEF CallRef, OpenCalls, Agrees
    <2>5. e.kind = "Ask" /\ e.call = ref.call
      <3>1. Coherent(courier, {})
        BY DEF EInv, Exact
      <3> QED BY <2>1, <2>2, <2>4, <3>1, AskCarries
    <2>6. Carries(d, e, "Queued")
      <3>1. Coherent(d, {})
        BY <1>1 DEF Exact
      <3>2. MailHolds(d, e, {})
        BY <2>1, <3>1, CoherentMail
      <3> QED BY <2>5, <3>2 DEF MailHolds
    <2>7. MatchesCall(d, e)
      BY <2>6 DEF Carries
    <2> QED BY <1>1, <2>1, <2>5, <2>7 DEF MatchesCall, Agrees
  <1> QED BY <1>1, <1>6, <1>7 DEF KnowsItsCall

\* There is nothing that k could take, and its call is open or out of time.
Attends(c, k, time) ==
    /\ Matching(c, k.session, k.source, k.pending) = {}
    /\ k.pending # None => OwnsCall(c, k.session, k.pending) \/ k.due <= time

LEMMA SweptAttends ==
    ASSUME EInv, NEW x \in Conns, conn[x].at = "asleep",
           WaiterOK(courier, conn[x], now), Attends(courier, conn[x], now)
    PROVE  Attends(Swept, conn[x], now)
  <1>1. PICK k, s, ref, c, d : /\ k = conn[x] /\ s = k.session /\ ref = k.pending
                               /\ c = courier /\ d = Swept
    OBVIOUS
  <1>2. s \in Sessions /\ ref \in Maybe(CallRef) /\ now \in Nat /\ k.due \in Nat
    <2>1. GoodConnection(k) /\ k.at # "idle" /\ now \in Nat
      BY <1>1, GateAssumption DEF EInv, IInv, ConnectionsOK, Time
    <2> QED BY <1>1, <2>1, ConnectionFields DEF GoodConnection
  <1>3. /\ Coherent(c, {}) /\ c \in CourierType /\ Addressed(c)
        /\ Lighter(c, d) /\ Spared(c, d, now)
    BY <1>1, SweptIsExact DEF EInv, Exact, Coherent, Sound
  <1>4. Matching(c, s, k.source, ref) = {}
    BY <1>1 DEF Attends
  <1>5. ASSUME NEW i \in Matching(d, s, k.source, ref)
        PROVE  FALSE
    <2>1. IsLive(d, s) /\ i \in DOMAIN d.box[s].queue /\ Wanted(d.box[s].queue[i], k.source, ref)
      BY <1>5 DEF Matching
    <2>2. IsLive(c, s) /\ Range(d.box[s].queue) \subseteq Range(c.box[s].queue)
      BY <1>2, <1>3, <2>1 DEF IsLive, Lighter
    <2>3. PICK j \in DOMAIN c.box[s].queue : c.box[s].queue[j] = d.box[s].queue[i]
      BY <2>1, <2>2 DEF Range
    <2>4. j \in Matching(c, s, k.source, ref)
      BY <2>1, <2>2, <2>3 DEF Matching
    <2> QED BY <1>4, <2>4
  <1>6. ASSUME ref # None, ~(k.due <= now)
        PROVE  OwnsCall(d, s, ref)
    <2>1. OwnsCall(c, s, ref)
      BY <1>1, <1>6 DEF Attends
    <2>2. /\ ref.call \in Calls /\ c.calls[ref.call] # None /\ c.calls[ref.call].source = s
          /\ c.calls[ref.call].ask = ref.ask
      BY <1>2, <1>6, <2>1 DEF CallRef, Maybe, OwnsCall
    <2>3. /\ c.calls[ref.call].deadline = k.due
          /\ k.source # None => k.source = c.calls[ref.call].target
      <3>1. Waiter(k) /\ k.due > now /\ Agrees(c, ref)
        BY <1>1, <1>2, <1>6, <2>2 DEF Waiter, Agrees
      <3> QED BY <1>1, <3>1 DEF WaiterOK, KnowsItsCall
    <2>4. CASE d.calls[ref.call] = c.calls[ref.call]
      BY <2>2, <2>4 DEF OwnsCall
    <2>5. CASE d.calls[ref.call] # c.calls[ref.call]
      <3>1. c.calls[ref.call].stage = "Replied"
        BY <1>3, <1>6, <2>2, <2>3, <2>5 DEF Spared
      <3>2. ref.call \in OpenCalls(c) \ {}
        BY <2>2 DEF OpenCalls
      <3>3. CallHolds(c, ref.call)
        BY <1>3, <3>2 DEF Coherent
      <3>4. PICK e \in Mail(c) : e.kind = "Reply" /\ e.replyTo = ref.ask
        BY <2>2, <3>1, <3>3 DEF CallHolds
      <3>5. e.call = ref.call /\ MatchesCall(c, e)
        BY <1>3, <2>2, <3>2, <3>4, ReplyCarries
      <3>6. e.source = c.calls[ref.call].target /\ e.target = s
        BY <2>2, <3>4, <3>5 DEF MatchesCall
      <3>7. Wanted(e, k.source, ref)
        BY <2>3, <3>4, <3>5, <3>6 DEF Wanted
      <3>8. IsLive(c, s)
        BY <2>2, <3>3 DEF CallHolds
      <3>9. e \in Range(c.box[s].queue)
        BY <1>2, <1>3, <3>4, <3>6, MailAt
      <3>10. PICK j \in DOMAIN c.box[s].queue : c.box[s].queue[j] = e
        BY <3>9 DEF Range
      <3>11. j \in Matching(c, s, k.source, ref)
        BY <3>7, <3>8, <3>10 DEF Matching
      <3> QED BY <1>4, <3>11
    <2> QED BY <2>4, <2>5
  <1> QED BY <1>1, <1>5, <1>6 DEF Attends

-----------------------------------------------------------------------------
(* The waits in one step.                                                  *)
SameWait(k, l) ==
    l.at \in {"armed", "asleep"} =>
       /\ k.at \in {"armed", "asleep"}
       /\ l.session = k.session /\ l.activation = k.activation
       /\ l.source = k.source /\ l.pending = k.pending /\ l.due = k.due

Sleeping(k) == k.at = "asleep" /\ ~k.rung

\* Every wait goes on, ends, or has just begun.
WaitsGoOn == \A x \in Conns : \/ SameWait(conn[x], conn'[x])
                              \/ conn'[x].pending = None
                              \/ KnowsItsCall(courier', conn'[x])

\* Everybody asleep is rung, or the step took nothing from those who are not.
AllRung == \A x \in Conns : ~Sleeping(conn'[x])
NothingMissed ==
    /\ courier' = courier \/ courier' = Swept
    /\ gate' = gate
    /\ \A x \in Conns : Sleeping(conn'[x]) =>
          \/ conn'[x] = conn[x]
          \/ /\ Active(conn'[x].session, conn'[x].activation)
             /\ Attends(courier', conn'[x], now)

Heard == WaitsGoOn /\ (AllRung \/ NothingMissed)

LEMMA RungWaits ==
    ASSUME ConnectionsOK, NEW x \in Conns
    PROVE  SameWait(conn[x], Rung(x)) /\ ~Sleeping(Rung(x))
  <1>1. PICK k : k = conn[x] /\ k \in Connection
    BY DEF ConnectionsOK
  <1>2. CASE k.at \in {"armed", "asleep"}
    <2>1. PICK l : l = [k EXCEPT !.rung = TRUE]
      OBVIOUS
    <2>2. /\ l.rung = TRUE /\ l.at = k.at /\ l.session = k.session
          /\ l.activation = k.activation /\ l.source = k.source
          /\ l.pending = k.pending /\ l.due = k.due
      BY <1>1, <2>1 DEF Connection
    <2>3. Rung(x) = l
      BY <1>1, <1>2, <2>1 DEF Rung
    <2> QED BY <1>1, <1>2, <2>2, <2>3 DEF SameWait, Sleeping
  <1>3. CASE k.at \notin {"armed", "asleep"}
    <2>1. Rung(x) = k
      BY <1>1, <1>3 DEF Rung
    <2> QED BY <1>1, <1>3, <2>1 DEF SameWait, Sleeping
  <1> QED BY <1>2, <1>3

\* A ring that reaches all.
LEMMA NotifiedHear ==
    ASSUME ConnectionsOK, conn' = [x \in Conns |-> Rung(x)]
    PROVE  Heard
  <1>1. ASSUME NEW x \in Conns
        PROVE  SameWait(conn[x], conn'[x]) /\ ~Sleeping(conn'[x])
    <2>1. conn'[x] = Rung(x)
      OBVIOUS
    <2> QED BY <2>1, RungWaits
  <1> QED BY <1>1 DEF Heard, WaitsGoOn, AllRung

\* A ring by a connection that is not asleep itself, or rings itself too.
LEMMA NotifyHears ==
    ASSUME ConnectionsOK, NEW c \in Conns, NEW k, Notify(c, k), ~Sleeping(k),
           SameWait(conn[c], k) \/ k.pending = None \/ KnowsItsCall(courier', k)
    PROVE  Heard
  <1>1. conn' = [x \in Conns |-> IF x = c THEN k ELSE Rung(x)]
    BY DEF Notify
  <1>2. ASSUME NEW x \in Conns
        PROVE  /\ \/ SameWait(conn[x], conn'[x])
                  \/ conn'[x].pending = None
                  \/ KnowsItsCall(courier', conn'[x])
               /\ ~Sleeping(conn'[x])
    <2>1. CASE x = c
      <3>1. conn'[x] = k
        BY <1>1, <2>1
      <3> QED BY <2>1, <3>1
    <2>2. CASE x # c
      <3>1. conn'[x] = Rung(x)
        BY <1>1, <2>2
      <3> QED BY <3>1, RungWaits
    <2> QED BY <2>1, <2>2
  <1> QED BY <1>2 DEF Heard, WaitsGoOn, AllRung

\* A step that rings nobody.
LEMMA QuietlyHears ==
    ASSUME ConnectionsOK, NEW c \in Conns, NEW k, Quietly(c, k),
           courier' = courier \/ courier' = Swept, gate' = gate,
           SameWait(conn[c], k) \/ k.pending = None \/ KnowsItsCall(courier', k),
           Sleeping(k) => Active(k.session, k.activation) /\ Attends(courier', k, now)
    PROVE  Heard
  <1>1. conn' = [conn EXCEPT ![c] = k] /\ conn \in [Conns -> Connection]
    BY DEF Quietly, ConnectionsOK
  <1>2. ASSUME NEW x \in Conns
        PROVE  /\ \/ SameWait(conn[x], conn'[x])
                  \/ conn'[x].pending = None
                  \/ KnowsItsCall(courier', conn'[x])
               /\ Sleeping(conn'[x]) =>
                     \/ conn'[x] = conn[x]
                     \/ /\ Active(conn'[x].session, conn'[x].activation)
                        /\ Attends(courier', conn'[x], now)
    <2>1. CASE x = c
      <3>1. conn'[x] = k
        BY <1>1, <2>1
      <3> QED BY <2>1, <3>1
    <2>2. CASE x # c
      <3>1. conn'[x] = conn[x]
        BY <1>1, <2>2
      <3> QED BY <3>1 DEF SameWait
    <2> QED BY <2>1, <2>2
  <1> QED BY <1>2 DEF Heard, WaitsGoOn, NothingMissed

LEMMA NobodyMoves ==
    ASSUME conn' = conn, gate' = gate, courier' = courier
    PROVE  Heard
  BY DEF Heard, WaitsGoOn, NothingMissed, SameWait

\* A connection that does not wait any more.
LEMMA AtRest ==
    ASSUME NEW k, NEW l, l.at \notin {"armed", "asleep"}
    PROVE  SameWait(k, l) /\ ~Sleeping(l)
  BY DEF SameWait, Sleeping

LEMMA ClosedRests == Closed.at \notin {"armed", "asleep"}
  BY DEF Closed

LEMMA LeftRests ==
    ASSUME ConnectionsOK, NEW c \in Conns
    PROVE  Left(c).at \notin {"armed", "asleep"}
  <1>1. PICK k : k = conn[c] /\ k \in Connection
    BY DEF ConnectionsOK
  <1>2. PICK half : half = [k EXCEPT !.at = "leaving"]
    OBVIOUS
  <1>3. PICK l : l = [half EXCEPT !.rung = FALSE]
    OBVIOUS
  <1>4. half \in Connection /\ half.at = "leaving"
    BY <1>1, <1>2 DEF Connection
  <1>5. l.at = "leaving"
    BY <1>3, <1>4 DEF Connection
  <1>6. Left(c) = Closed \/ Left(c) = l
    BY <1>1, <1>2, <1>3 DEF Left
  <1> QED BY <1>5, <1>6, ClosedRests

LEMMA LoudClose ==
    ASSUME IInv, NEW c \in Conns, Notify(c, Closed)
    PROVE  Heard
  <1>1. PICK k : k = Closed
    OBVIOUS
  <1>2. SameWait(conn[c], k) /\ ~Sleeping(k) /\ Notify(c, k)
    BY <1>1, ClosedRests, AtRest
  <1> QED BY <1>2, NotifyHears DEF IInv

LEMMA QuietRest ==
    ASSUME IInv, NEW c \in Conns, NEW k, Quietly(c, k), k.at \notin {"armed", "asleep"},
           courier' = courier \/ courier' = Swept, gate' = gate
    PROVE  Heard
  <1>1. SameWait(conn[c], k) /\ ~Sleeping(k)
    BY AtRest
  <1> QED BY <1>1, QuietlyHears DEF IInv

LEMMA QuietClose ==
    ASSUME IInv, NEW c \in Conns, Quietly(c, Closed),
           courier' = courier \/ courier' = Swept, gate' = gate
    PROVE  Heard
  BY ClosedRests, QuietRest

LEMMA QuietLeave ==
    ASSUME IInv, NEW c \in Conns, Quietly(c, Left(c)),
           courier' = courier \/ courier' = Swept, gate' = gate
    PROVE  Heard
  BY LeftRests, QuietRest DEF IInv

LEMMA LeaveAfterSweep ==
    ASSUME IInv, NEW c \in Conns, AfterSweep(c, Left(c), Left(c)),
           courier' = Swept, gate' = gate
    PROVE  Heard
  <1>1. CASE Quietly(c, Left(c))
    BY <1>1, QuietLeave
  <1>2. CASE Notify(c, Left(c))
    <2>1. PICK k : k = Left(c)
      OBVIOUS
    <2>2. SameWait(conn[c], k) /\ ~Sleeping(k) /\ Notify(c, k)
      BY <1>2, <2>1, LeftRests, AtRest DEF IInv
    <2> QED BY <2>2, NotifyHears DEF IInv
  <1> QED BY <1>1, <1>2 DEF AfterSweep

\* A connection begins to wait.
LEMMA WaitingFields ==
    ASSUME ConnectionsOK, NEW c \in Conns, NEW source, NEW ref, NEW due,
           NEW k, k = Waiting(c, source, ref, due)
    PROVE  k.at = "armed" /\ k.source = source /\ k.pending = ref /\ k.due = due
  <1>1. conn[c] \in Connection
    BY DEF ConnectionsOK
  <1> QED BY <1>1 DEF Waiting, Connection

LEMMA AskerKnows ==
    ASSUME ConnectionsOK, NEW c \in Conns, NEW e, NEW d, AsksFor(d, e),
           NEW k, k = Waiting(c, e.target, [call |-> e.call, ask |-> e.id], e.deadline)
    PROVE  KnowsItsCall(d, k) /\ ~Sleeping(k)
  <1>1. PICK ref : ref = [call |-> e.call, ask |-> e.id]
    OBVIOUS
  <1>2. ref.call = e.call /\ ref.ask = e.id
    BY <1>1
  <1>3. k.at = "armed" /\ k.source = e.target /\ k.pending = ref /\ k.due = e.deadline
    BY <1>1, WaitingFields
  <1> QED BY <1>2, <1>3 DEF AsksFor, KnowsItsCall, Agrees, Sleeping

LEMMA ReceiveCommandHears == ASSUME IInv, NEW c \in Conns, ReceiveCommand(c) PROVE Heard
  <1>1. ConnectionsOK /\ courier' = courier /\ gate' = gate
    BY DEF IInv, ReceiveCommand
  <1>2. CASE Quietly(c, Waiting(c, None, None, 0))
    <2>1. PICK k : k = Waiting(c, None, None, 0)
      OBVIOUS
    <2>2. k.at = "armed" /\ k.pending = None
      BY <1>1, <2>1, WaitingFields
    <2> QED BY <1>1, <1>2, <2>1, <2>2, QuietlyHears DEF Sleeping
  <1>3. ASSUME NEW l \in OpenCalls(courier),
               Quietly(c, Waiting(c, None, [call |-> l, ask |-> courier.calls[l].ask],
                                  courier.calls[l].deadline))
        PROVE  Heard
    <2>1. PICK ref, due : ref = [call |-> l, ask |-> courier.calls[l].ask]
                          /\ due = courier.calls[l].deadline
      OBVIOUS
    <2>2. PICK k : k = Waiting(c, None, ref, due)
      OBVIOUS
    <2>3. k.at = "armed" /\ k.source = None /\ k.pending = ref /\ k.due = due
      BY <1>1, <2>2, WaitingFields
    <2>4. ref.call = l /\ ref.ask = courier.calls[l].ask /\ courier.calls[l] # None
      BY <2>1 DEF OpenCalls
    <2>5. KnowsItsCall(courier', k) /\ ~Sleeping(k)
      BY <1>1, <2>1, <2>3, <2>4 DEF KnowsItsCall, Agrees, Sleeping
    <2>6. Quietly(c, k)
      BY <1>3, <2>1, <2>2
    <2> QED BY <1>1, <2>5, <2>6, QuietlyHears
  <1> QED BY <1>2, <1>3 DEF ReceiveCommand

LEMMA MovedWaits ==
    ASSUME NEW k \in Connection, k.at \in {"armed", "asleep"},
           NEW at \in {"armed", "asleep"}, NEW a, a = [k EXCEPT !.at = at]
    PROVE  /\ SameWait(k, a) /\ a.at = at /\ a.session = k.session
           /\ a.activation = k.activation /\ a.source = k.source
           /\ a.pending = k.pending /\ a.due = k.due
           /\ a \in Connection
  BY DEF Connection, SameWait

LEMMA MovedRungWaits ==
    ASSUME NEW k \in Connection, k.at \in {"armed", "asleep"},
           NEW at \in {"armed", "asleep"}, NEW rung \in BOOLEAN,
           NEW b, b = [k EXCEPT !.at = at, !.rung = rung]
    PROVE  SameWait(k, b) /\ b.at = at /\ b.rung = rung
  BY DEF Connection, SameWait

LEMMA CheckSleepsHears == ASSUME EInv, NEW c \in Conns, CheckSleeps(c) PROVE Heard
  <1>1. PICK k : k = conn[c]
    OBVIOUS
  <1>2. /\ k \in Connection /\ ConnectionsOK /\ k.at = "armed"
        /\ courier' = Swept /\ gate' = gate
        /\ Active(k.session, k.activation)
    BY <1>1 DEF EInv, IInv, ConnectionsOK, CheckSleeps
  <1>3. PICK a, b : a = [k EXCEPT !.at = "asleep"] /\ b = [k EXCEPT !.at = "asleep", !.rung = TRUE]
    OBVIOUS
  <1>4. /\ SameWait(k, a) /\ a.session = k.session
        /\ a.activation = k.activation /\ a.source = k.source
        /\ a.pending = k.pending /\ a.due = k.due
        /\ SameWait(k, b) /\ b.rung = TRUE
    <2>1. k.at \in {"armed", "asleep"}
      BY <1>2
    <2>2. PICK at, rung : /\ at = "asleep" /\ at \in {"armed", "asleep"}
                          /\ rung = TRUE /\ rung \in BOOLEAN
      OBVIOUS
    <2>3. a = [k EXCEPT !.at = at] /\ b = [k EXCEPT !.at = at, !.rung = rung]
      BY <1>3, <2>2
    <2>4. /\ SameWait(k, a) /\ a.session = k.session
          /\ a.activation = k.activation /\ a.source = k.source
          /\ a.pending = k.pending /\ a.due = k.due
      BY ONLY <1>2, <2>1, <2>2, <2>3, MovedWaits
    <2>5. SameWait(k, b) /\ b.rung = rung
      BY ONLY <1>2, <2>1, <2>2, <2>3, MovedRungWaits
    <2> QED BY <2>2, <2>4, <2>5
  <1>5. Attends(courier', a, now)
    <2>1. Matching(Swept, k.session, k.source, k.pending) = {}
      BY <1>1 DEF CheckSleeps, Found
    <2>2. k.pending # None => OwnsCall(Swept, k.session, k.pending)
      BY <1>1 DEF CheckSleeps, Lost
    <2> QED BY <1>2, <1>4, <2>1, <2>2 DEF Attends
  <1>6. AfterSweep(c, a, b)
    BY <1>1, <1>3 DEF CheckSleeps
  <1>7. CASE Quietly(c, a)
    <2>1. Active(a.session, a.activation)
      BY <1>2, <1>4
    <2> QED BY <1>1, <1>2, <1>4, <1>5, <1>7, <2>1, QuietlyHears
  <1>8. CASE Notify(c, b)
    <2>1. ~Sleeping(b)
      BY <1>4 DEF Sleeping
    <2> QED BY <1>1, <1>2, <1>4, <1>8, <2>1, NotifyHears
  <1> QED BY <1>6, <1>7, <1>8 DEF AfterSweep

LEMMA AwakeHears ==
    ASSUME EInv, NEW c \in Conns, Wakes(c) \/ TimerRings(c)
    PROVE  Heard
  <1>1. PICK k : k = conn[c]
    OBVIOUS
  <1>2. /\ k \in Connection /\ ConnectionsOK /\ k.at = "asleep"
        /\ courier' = courier /\ gate' = gate
    BY <1>1 DEF EInv, IInv, ConnectionsOK, Wakes, TimerRings
  <1>3. PICK b : b = [k EXCEPT !.at = "armed", !.rung = FALSE]
    OBVIOUS
  <1>4. SameWait(k, b) /\ b.at = "armed"
    <2>1. k.at \in {"armed", "asleep"}
      BY <1>2
    <2>2. PICK at, rung : /\ at = "armed" /\ at \in {"armed", "asleep"}
                          /\ rung = FALSE /\ rung \in BOOLEAN
      OBVIOUS
    <2>3. b = [k EXCEPT !.at = at, !.rung = rung]
      BY <1>3, <2>2
    <2>4. SameWait(k, b) /\ b.at = at
      BY ONLY <1>2, <2>1, <2>2, <2>3, MovedRungWaits
    <2> QED BY <2>2, <2>4
  <1>5. Quietly(c, b) /\ ~Sleeping(b)
    BY <1>1, <1>3, <1>4 DEF Wakes, TimerRings, Sleeping
  <1> QED BY <1>1, <1>2, <1>4, <1>5, QuietlyHears

LEMMA AdmitHears ==
    ASSUME IInv, NEW c \in Conns, NEW s \in Sessions, Admit(c, s)
    PROVE  Heard
  <1>1. PICK k : k = [Closed EXCEPT !.at = "admitted", !.session = s,
                                    !.activation = gate[s].activation]
    OBVIOUS
  <1>2. k.at = "admitted"
    BY <1>1 DEF Closed
  <1> QED BY <1>1, <1>2, QuietRest DEF Admit

LEMMA SessionStepHears == ASSUME IInv, NEW s \in Sessions, SessionStep(s) PROVE Heard
  <1>1. CASE EndedWorker(s)
    BY <1>1, NobodyMoves DEF EndedWorker
  <1>2. CASE ~EndedWorker(s)
    <2>1. conn' = [x \in Conns |-> Rung(x)]
      BY <1>2 DEF SessionStep, Launch, SetDialogue, Forget, LaunchWorker, CancelSpawn, NotifyAll
    <2> QED BY <2>1, NotifiedHear DEF IInv
  <1> QED BY <1>1, <1>2

LEMMA AbandonHears == ASSUME IInv, NEW c \in Conns, Abandon(c) PROVE Heard
  <1>1. gate' = gate
    BY DEF Abandon
  <1>2. Notify(c, Closed) \/ (Quietly(c, Closed) /\ courier' = courier)
    BY DEF Abandon
  <1> QED BY <1>1, <1>2, LoudClose, QuietClose

LEMMA ExpireHears == ASSUME IInv, Expire PROVE Heard
  <1>1. CASE ExpirerFires
    <2>1. conn' = [x \in Conns |-> Rung(x)]
      BY <1>1 DEF ExpirerFires
    <2> QED BY <2>1, NotifiedHear DEF IInv
  <1>2. CASE ExpirerLooks \/ ExpirerRearms
    <2>1. conn' = conn /\ gate' = gate /\ courier' = courier
      BY <1>2 DEF ExpirerLooks, ExpirerRearms
    <2> QED BY <2>1, NobodyMoves
  <1> QED BY <1>1, <1>2 DEF Expire

-----------------------------------------------------------------------------
(* What a message ends as.  An operation gives a final state only to what     *)
(* still waits for one, and the ask of a reply that waits was replied.        *)

\* The message m of c may be given the final state outcome: it waits, a reply to
\* it waits, or it is the ask of a call.
MayEnd(c, m, outcome) ==
    \/ m \in Waits(c)
    \/ outcome = "Replied" /\ RepliesTo(c, m) # {}
    \/ \E k \in OpenCalls(c) : /\ c.calls[k].ask = m
                               /\ c.calls[k].stage # "Replied" \/ outcome = "Replied"

Ends(c) == {p \in Messages \X States : MayEnd(c, p[1], p[2])}

\* A state of d that c did not have is one that c allowed, or that of a message
\* that waits, and the ask of a reply that has come was replied.
Finishes(c, d) ==
    /\ \A m \in Messages : \/ d.states[m] \in {None, c.states[m]}
                           \/ m \in Waits(d) \/ MayEnd(c, m, d.states[m])
    /\ \A e \in Mail(d) \ Mail(c) : e.kind = "Reply" => d.states[e.replyTo] = "Replied"

LEMMA EndsAreFated == ASSUME NEW c, Sound(c) PROVE Fated(c, Ends(c))
  <1>1. c \in CourierType /\ Addressed(c) /\ "Replied" \in States
    BY DEF Sound, States
  <1>2. ASSUME NEW e \in Mail(c)
        PROVE  /\ \A outcome \in States : <<e.id, outcome>> \in Ends(c)
               /\ e.kind = "Reply" => <<e.replyTo, "Replied">> \in Ends(c)
    <2>1. e \in Envelope /\ (e.replyTo = None <=> e.kind \in {"Tell", "Ask"})
      BY <1>1, MailIsEnvelopes DEF Addressed
    <2>2. e.id \in Messages /\ e.id \in Waits(c)
      BY <2>1 DEF Envelope, Waits
    <2>3. CASE e.kind = "Reply"
      <3>1. e.replyTo \in Messages
        BY <2>1, <2>3 DEF Envelope, Maybe
      <3>2. e \in RepliesTo(c, e.replyTo)
        BY <2>3 DEF RepliesTo
      <3> QED BY <1>1, <2>2, <3>1, <3>2 DEF Ends, MayEnd
    <2> QED BY <2>2, <2>3 DEF Ends, MayEnd
  <1>3. ASSUME NEW k \in Calls, c.calls[k] # None, NEW outcome \in States,
               c.calls[k].stage # "Replied" \/ outcome = "Replied"
        PROVE  <<c.calls[k].ask, outcome>> \in Ends(c)
    <2>1. k \in OpenCalls(c) /\ c.calls[k].ask \in Messages
      BY <1>1, <1>3, CallFields DEF OpenCalls
    <2> QED BY <1>3, <2>1 DEF Ends, MayEnd
  <1> QED BY <1>2, <1>3 DEF Fated

LEMMA ConcludesFinishes ==
    ASSUME NEW c, NEW d, Concludes(c, d, Ends(c))
    PROVE  Finishes(c, d)
  BY DEF Concludes, Finishes, Ends

LEMMA FinishesSame ==
    ASSUME NEW c, NEW d, d.states = c.states, Mail(d) \subseteq Mail(c)
    PROVE  Finishes(c, d)
  BY DEF Finishes

\* Neither does it matter what else is done to rooms and doors.
LEMMA FinishesThen ==
    ASSUME NEW c, NEW a, Finishes(c, a), NEW d, d.states = a.states, Mail(d) = Mail(a)
    PROVE  Finishes(c, d)
  BY DEF Finishes, Waits

LEMMA FinishesBefore ==
    ASSUME NEW c, NEW a, a.states = c.states, Mail(a) = Mail(c), a.calls = c.calls,
           NEW d, Finishes(a, d)
    PROVE  Finishes(c, d)
  <1>1. \A m, outcome : MayEnd(a, m, outcome) <=> MayEnd(c, m, outcome)
    BY DEF MayEnd, Waits, RepliesTo, OpenCalls
  <1> QED BY <1>1 DEF Finishes

\* The envelope e comes to wait in b, what is left of c.
LEMMA QueuedFinishes ==
    ASSUME NEW c, NEW b, Sound(b), Mail(b) \subseteq Mail(c),
           \A x \in Messages : \/ b.states[x] \in {None, c.states[x]}
                               \/ MayEnd(c, x, b.states[x]),
           NEW e \in Envelope, b.states[e.id] = None, NEW d, Queued(b, e, d),
           e.kind = "Reply" => b.states[e.replyTo] = "Replied" /\ e.replyTo \in Messages
    PROVE  Finishes(c, d)
  <1>1. PICK m : m = e.id /\ m \in Messages
    BY DEF Envelope
  <1>2. /\ Mail(d) = Mail(b) \cup {e} /\ d.states = [b.states EXCEPT ![m] = "Accepted"]
        /\ b.states \in [Messages -> Maybe(States)]
    BY <1>1, CourierFields DEF Queued, Sound
  <1>3. m \in Waits(d)
    BY <1>1, <1>2 DEF Waits
  <1>4. \A x \in Messages : x # m => d.states[x] = b.states[x]
    BY <1>2
  <1>5. \A x \in Messages : \/ d.states[x] \in {None, c.states[x]}
                            \/ x \in Waits(d) \/ MayEnd(c, x, d.states[x])
    BY <1>3, <1>4
  <1>6. ASSUME NEW f \in Mail(d) \ Mail(c), f.kind = "Reply"
        PROVE  d.states[f.replyTo] = "Replied"
    <2>1. f = e
      BY <1>2, <1>6
    <2>2. "Replied" # None
      BY NoneAssumption DEF States
    <2> QED BY <1>1, <1>4, <1>6, <2>1, <2>2
  <1> QED BY <1>5, <1>6 DEF Finishes

LEMMA RouteFinishes ==
    ASSUME NEW c, Sound(c), NEW e \in Envelope, e.kind \in {"Tell", "Ask"},
           e.replyTo = None, c.box[e.target] # None, c.states[e.id] = None,
           NEW d, d = Route(c, e)
    PROVE  Finishes(c, d) /\ d \in CourierType
  <1>1. c \in CourierType
    BY DEF Sound
  <1>2. PICK b : b = IF e.kind # "Ask" THEN c ELSE OpenCall(c, e)
    OBVIOUS
  <1>3. /\ b \in CourierType /\ b.box = c.box /\ b.charged = c.charged
        /\ b.states = c.states /\ b.retired = c.retired
    BY <1>1, <1>2, OpenCallFields
  <1>4. Sound(b) /\ Mail(b) = Mail(c)
    BY <1>1, <1>3, NoMailMoves DEF Mail
  <1>5. d = Enqueue(b, e)
    BY <1>2 DEF Route, OpenCall, CallOf
  <1>6. Queued(b, e, d)
    BY <1>3, <1>4, <1>5, EnqueueEffect
  <1>7. Finishes(c, d)
    BY <1>3, <1>4, <1>6, QueuedFinishes
  <1> QED BY <1>6, <1>7 DEF Queued, Sound

LEMMA CancelFinishes ==
    ASSUME NEW c, Exact(c), NEW e \in Envelope, e.kind = "Cancel", NEW time,
           AdmitShape(c, e, time), AdmitCancel(c, e, time), NEW d, d = Cancel(c, e)
    PROVE  Finishes(c, d) /\ d \in CourierType
  <1>1. Coherent(c, {}) /\ c \in CourierType /\ Sound(c)
    BY ExactIsSound
  <1>2. PICK k \in Calls : k = e.call
    BY DEF Envelope
  <1>3. PICK m, t : m = c.calls[k].ask /\ t = c.calls[k].target
    OBVIOUS
  <1>4. /\ k \in OpenCalls(c) /\ c.calls[k].stage # "Replied" /\ c.calls[k] # None
        /\ m \in Messages /\ t \in Sessions /\ "Cancelled" \in States
    <2>1. k \in OpenCalls(c) /\ c.calls[k].stage # "Replied" /\ c.calls[k] # None
      BY <1>2 DEF AdmitCancel, OpenCalls
    <2> QED BY <1>1, <1>3, <2>1, CallFields DEF States
  <1>5. /\ c.states[e.id] = None /\ c.box[e.target] # None /\ e.target \in Sessions
        /\ e.replyTo = None <=> e.kind \in {"Tell", "Ask"}
    BY DEF AdmitShape, IsLive, Envelope
  <1>6. PICK a : a = IF c.calls[k].stage = "Queued" THEN Withdraw(c, c.calls[k].target, c.calls[k].ask)
                     ELSE c
    OBVIOUS
  <1>7. PICK h, b : h = EndCall(a, k) /\ b = Retire(h, m, "Cancelled")
    OBVIOUS
  <1>8. PICK f : /\ f \in Envelope /\ f.id = e.id /\ f.kind = e.kind
                 /\ f.replyTo = e.replyTo /\ f.target = e.target
                 /\ d = Enqueue(b, f)
    <2>1. SentOf(c, e, k, b, d)
      BY <1>1, <1>2, <1>3, <1>4, <1>6, <1>7, CancelSent
    <2> QED BY <2>1 DEF SentOf
  <1>9. Sound(a) /\ Lighter(c, a) /\ a.states = c.states
    <2>1. a = c \/ a = Withdraw(c, t, m)
      BY <1>3, <1>6
    <2> QED BY <1>1, <1>4, <2>1, WithdrawEffect, LighterSame
  <1>10. Sound(h) /\ Lighter(a, h) /\ h.states = a.states
    BY <1>7, <1>9, EndCallEffect, EndCallFields DEF Sound
  <1>11. Sound(b) /\ Lighter(h, b) /\ Concludes(h, b, {<<m, "Cancelled">>})
    BY <1>4, <1>7, <1>10, RetireEffect, RetireConcludes DEF Sound
  <1>12. Mail(b) \subseteq Mail(c)
    BY <1>9, <1>10, <1>11, LighterMail
  <1>13. \A x \in Messages : b.states[x] \in {None, c.states[x]} \/ MayEnd(c, x, b.states[x])
    <2>1. \A x \in Messages : \/ b.states[x] \in {None, c.states[x]}
                              \/ x = m /\ b.states[x] = "Cancelled"
      BY <1>9, <1>10, <1>11 DEF Concludes
    <2>2. MayEnd(c, m, "Cancelled")
      BY <1>3, <1>4 DEF MayEnd
    <2> QED BY <2>1, <2>2
  <1>14. b.states[f.id] = None
    <2>1. c.states[m] # None
      BY <1>1, <1>3, <1>4 DEF Coherent, Asks, Remaining
    <2>2. e.id \in Messages /\ e.id # m
      BY <1>5, <2>1 DEF Envelope
    <2>3. b.states[e.id] \in {None, h.states[e.id]} \/ <<e.id, b.states[e.id]>> = <<m, "Cancelled">>
      BY <1>11, <2>2 DEF Concludes
    <2> QED BY <1>5, <1>8, <1>9, <1>10, <2>2, <2>3
  <1>15. b.box[f.target] # None
    <2>1. a.box[e.target] # None
      BY <1>5, <1>9 DEF Lighter
    <2>2. h.box[e.target] # None
      BY <1>5, <1>10, <2>1 DEF Lighter
    <2> QED BY <1>5, <1>8, <1>11, <2>2 DEF Lighter
  <1>16. Queued(b, f, d)
    BY <1>5, <1>8, <1>11, <1>15, EnqueueEffect
  <1>17. Finishes(c, d)
    BY <1>8, <1>11, <1>12, <1>13, <1>14, <1>16, QueuedFinishes
  <1> QED BY <1>16, <1>17 DEF Queued, Sound

LEMMA ReplyFinishes ==
    ASSUME NEW c, Exact(c), NEW e \in Envelope, e.kind = "Reply", NEW time,
           AdmitShape(c, e, time), AdmitReply(c, e, time), NEW d, d = Reply(c, e)
    PROVE  Finishes(c, d) /\ d \in CourierType
  <1>1. Coherent(c, {}) /\ c \in CourierType /\ Sound(c)
    BY ExactIsSound
  <1>2. PICK k, m : k = e.call /\ m = c.calls[k].ask
    OBVIOUS
  <1>3. /\ k \in OpenCalls(c) /\ c.calls[k] # None /\ c.box[e.target] # None
        /\ c.states[e.id] = None /\ e.id \in Messages /\ "Replied" \in Stages \cap States
        /\ e.replyTo = None <=> e.kind \in {"Tell", "Ask"}
    BY <1>2 DEF AdmitReply, AdmitShape, IsLive, OpenCalls, Envelope, Stages, States
  <1>4. m \in Remaining(c) /\ m \in Messages /\ c.states[m] # None /\ m = e.replyTo
        /\ c.calls[k].stage # "Replied"
    BY <1>1, <1>2, <1>3 DEF Coherent, Asks, Remaining, AdmitReply
  <1>5. PICK b : b = SetStage(c, k, m, "Replied")
    OBVIOUS
  <1>6. PICK f : AsQueued(c, e, f) /\ d = Enqueue(b, f)
    BY <1>1, <1>2, <1>3, <1>5, ReplySent
  <1>7. Staged(c, k, m, "Replied", b)
    BY <1>1, <1>3, <1>4, <1>5, SetStageFields DEF OpenCalls
  <1>8. /\ b \in CourierType /\ b.box = c.box /\ b.charged = c.charged /\ b.states[e.id] = None
        /\ b.states[m] = "Replied" /\ \A x \in Messages : x # m => b.states[x] = c.states[x]
    BY <1>3, <1>4, <1>7 DEF Staged
  <1>9. Sound(b) /\ Mail(b) = Mail(c)
    BY <1>1, <1>8, NoMailMoves DEF Mail
  <1>10. f \in Envelope /\ f.target = e.target /\ f.id = e.id
         /\ f.kind = e.kind /\ f.replyTo = e.replyTo
    BY <1>6 DEF AsQueued
  <1>11. Queued(b, f, d)
    BY <1>3, <1>6, <1>8, <1>9, <1>10, EnqueueEffect
  <1>12. \A x \in Messages : b.states[x] \in {None, c.states[x]} \/ MayEnd(c, x, b.states[x])
    <2>1. MayEnd(c, m, "Replied")
      BY <1>2, <1>3, <1>4 DEF MayEnd
    <2> QED BY <1>8, <2>1
  <1>13. Finishes(c, d)
    BY <1>4, <1>8, <1>9, <1>10, <1>11, <1>12, QueuedFinishes
  <1> QED BY <1>11, <1>13 DEF Queued, Sound

LEMMA SendFinishes ==
    ASSUME NEW c, Exact(c), NEW e \in Envelope, NEW time, Accepts(c, e, time),
           NEW d, d = Send(c, e)
    PROVE  Finishes(c, d) /\ d \in CourierType
  <1>1. e.kind \in Kinds /\ AdmitShape(c, e, time) /\ Sound(c)
    BY ExactIsSound DEF Envelope, Accepts
  <1>2. CASE e.kind \in {"Tell", "Ask"}
    <2>1. d = Route(c, e) /\ e.replyTo = None /\ c.box[e.target] # None /\ c.states[e.id] = None
      BY <1>1, <1>2 DEF Send, AdmitShape, IsLive
    <2> QED BY <1>1, <1>2, <2>1, RouteFinishes
  <1>3. CASE e.kind = "Reply"
    <2>1. d = Reply(c, e) /\ AdmitReply(c, e, time)
      BY <1>3 DEF Send, Accepts
    <2> QED BY <1>1, <1>3, <2>1, ReplyFinishes
  <1>4. CASE e.kind = "Cancel"
    <2>1. d = Cancel(c, e) /\ AdmitCancel(c, e, time)
      BY <1>4 DEF Send, Accepts
    <2> QED BY <1>1, <1>4, <2>1, CancelFinishes
  <1> QED BY <1>1, <1>2, <1>3, <1>4 DEF Kinds

LEMMA ReserveInitialFinishes ==
    ASSUME NEW c, Exact(c), NEW e \in Envelope, NEW time, AcceptsInitial(c, e, time),
           NEW d, d = ReserveInitial(c, e)
    PROVE  Finishes(c, d)
  <1>1. PICK s : s = e.target /\ s \in Sessions
    BY DEF Envelope
  <1>2. PICK a : a = SessionStarted(c, s)
    OBVIOUS
  <1>3. Sound(c) /\ c \in CourierType /\ Exact(a)
    BY <1>1, <1>2, ExactIsSound, SessionStartedKeeps
  <1>4. Started(c, s, a)
    BY <1>1, <1>2, <1>3, SessionStartedEffect
  <1>5. /\ Sound(a) /\ a.states = c.states /\ a.calls = c.calls /\ Mail(a) = Mail(c)
        /\ a.box[s] # None /\ Accepts(a, e, time)
    BY <1>1, <1>2, <1>4 DEF Started, Gains, AcceptsInitial, Sound
  <1>6. PICK b : b = Send(a, e)
    OBVIOUS
  <1>7. Finishes(a, b)
    BY <1>3, <1>5, <1>6, SendFinishes
  <1>8. Sound(b) /\ b.box[s] # None
    <2>1. Sound(b) /\ SameBoxes(a, b)
      BY <1>5, <1>6, SendEffect
    <2> QED BY <1>1, <1>5, <2>1 DEF SameBoxes
  <1>9. Shut(b, s, d)
    <2>1. d = [b EXCEPT !.box[s].ready = FALSE]
      BY <1>1, <1>2, <1>6 DEF ReserveInitial
    <2> QED BY <1>1, <1>8, <2>1, CloseMailboxEffect
  <1>10. d.states = b.states /\ Mail(d) = Mail(b)
    BY <1>9 DEF Shut
  <1>11. Finishes(c, b)
    BY <1>5, <1>7, FinishesBefore
  <1> QED BY <1>10, <1>11, FinishesThen

LEMMA RoomAskFinishes ==
    ASSUME NEW c, Sound(c), NEW r \in Rooms, NEW e \in Envelope, e.kind = "Ask",
           NEW time, AcceptsRound(c, r, e, time), NEW d, d = RoomAsk(c, r, e)
    PROVE  Finishes(c, d)
  <1>1. /\ c.rooms[r] # None /\ c.box[e.target] # None /\ c.states[e.id] = None
        /\ e.replyTo = None /\ c \in CourierType
    BY DEF AcceptsRound, RoomVisible, AdmitShape, IsLive, Sound
  <1>2. PICK f : f = [e EXCEPT !.room = r]
    OBVIOUS
  <1>3. /\ f \in Envelope /\ f.kind = e.kind /\ f.replyTo = e.replyTo
        /\ f.target = e.target /\ f.id = e.id /\ f.call = e.call
    BY <1>2 DEF Envelope, Maybe
  <1>4. PICK a : a = Route(c, f)
    OBVIOUS
  <1>5. Finishes(c, a) /\ a \in CourierType
    BY <1>1, <1>3, <1>4, RouteFinishes
  <1>6. d.states = a.states /\ d.box = a.box
    <2>1. d = RoundBegun(a, r, f)
      BY <1>2, <1>3, <1>4 DEF RoomAsk, RoundBegun
    <2> QED BY <1>5, <2>1 DEF RoundBegun, CourierType
  <1>7. Mail(d) = Mail(a)
    BY <1>6 DEF Mail
  <1> QED BY <1>5, <1>6, <1>7, FinishesThen

LEMMA ReceiveFinishes ==
    ASSUME NEW c, Exact(c), NEW s \in Sessions, c.box[s] # None,
           NEW i \in DOMAIN c.box[s].queue, NEW d, d = Receive(c, s, i)
    PROVE  Finishes(c, d)
  <1>1. c \in CourierType /\ Sound(c) /\ Coherent(c, {})
    BY ExactIsSound
  <1>2. PICK q, e : q = c.box[s].queue /\ e = q[i]
    OBVIOUS
  <1>3. q \in Seq(Envelope) /\ i \in 1 .. Len(q) /\ e \in Envelope
    <2>1. q \in Seq(Envelope)
      BY <1>1, <1>2, MailboxFields
    <2>2. DOMAIN q = 1 .. Len(q)
      BY <2>1, LenProperties
    <2> QED BY <1>2, <2>1, <2>2, ElementOfSeq
  <1>4. PICK x : x = Without(c, s, RemoveAt(q, i), e.size)
    OBVIOUS
  <1>5. /\ Sound(x) /\ x \in CourierType /\ e \in Mail(c) /\ Mail(x) \subseteq Mail(c)
        /\ x.calls = c.calls /\ x.states = c.states /\ x.retired = c.retired
    <2>1. /\ i \in 1 .. Len(c.box[s].queue)
          /\ x = Without(c, s, RemoveAt(c.box[s].queue, i), c.box[s].queue[i].size)
      BY <1>2, <1>3, <1>4
    <2>2. Taken(c, s, i, x)
      BY <1>1, <2>1, WithoutEffect
    <2> QED BY <1>2, <2>2, LighterMail DEF Taken, Sound
  <1>6. PICK F : F = Ends(c)
    OBVIOUS
  <1>7. Concludes(c, x, F)
    BY <1>5, ConcludesSame
  <1>8. e.id \in Messages /\ e.call \in Calls /\ e.kind \in Kinds /\ "Received" \in States
        /\ "Replied" \in States /\ (e.kind = "Reply" => e.replyTo \in Messages)
    <2>1. Addressed(c)
      BY <1>1 DEF Sound
    <2>2. e.replyTo = None <=> e.kind \in {"Tell", "Ask"}
      BY <1>5, <2>1 DEF Addressed
    <2>3. e.replyTo \in Maybe(Messages)
      BY <1>3 DEF Envelope
    <2> QED BY <1>3, <2>2, <2>3 DEF Envelope, States, Maybe
  <1>9. <<e.id, "Received">> \in F /\ (e.kind = "Reply" => <<e.replyTo, "Replied">> \in F)
    BY <1>1, <1>5, <1>6, <1>8, EndsAreFated DEF Fated
  <1>10. ASSUME NEW a, a \in CourierType, Concludes(c, a, F), NEW m \in Messages,
                NEW outcome \in States, <<m, outcome>> \in F
         PROVE  /\ Retire(a, m, outcome) \in CourierType
                /\ Concludes(c, Retire(a, m, outcome), F)
    <2>1. PICK y : y = Retire(a, m, outcome)
      OBVIOUS
    <2>2. Concludes(a, y, F) /\ y \in CourierType
      BY <1>10, <2>1, RetireConcludes, RetireFields
    <2>3. Concludes(c, y, F)
      BY <1>10, <2>2, ConcludesTransitive
    <2> QED BY <2>1, <2>2, <2>3
  <1>11. CASE Concludes(c, d, F)
    BY <1>6, <1>11, ConcludesFinishes
  <1>12. CASE e.kind \in {"Tell", "Cancel"}
    <2>1. d = Retire(x, e.id, "Received")
      BY <1>2, <1>4, <1>12, Zenon DEF Receive
    <2> QED BY <1>5, <1>7, <1>8, <1>9, <1>10, <1>11, <2>1
  <1>13. CASE e.kind = "Ask" /\ x.calls[e.call] # None /\ x.calls[e.call].ask = e.id
    <2>1. PICK k : k = e.call
      OBVIOUS
    <2>2. d = SetStage(x, k, e.id, "Received")
      <3>1. d = ReadAsk(x, e)
        BY <1>2, <1>4, <1>13, Zenon DEF Receive
      <3> QED BY <1>13, <2>1, <3>1 DEF ReadAsk, SetStage
    <2>3. "Received" \in Stages \cap States
      BY DEF Stages, States
    <2>4. Staged(x, k, e.id, "Received", d)
      BY <1>5, <1>8, <1>13, <2>1, <2>2, <2>3, SetStageFields
    <2>5. d.box = x.box /\ \A m \in Messages : m # e.id => d.states[m] = c.states[m]
      BY <1>5, <2>4 DEF Staged
    <2>6. Mail(d) \subseteq Mail(c)
      BY <1>5, <2>5 DEF Mail
    <2>7. e.id \in Waits(c)
      BY <1>5 DEF Waits
    <2> QED BY <2>5, <2>6, <2>7 DEF Finishes, MayEnd
  <1>14. CASE e.kind = "Ask" /\ ~(x.calls[e.call] # None /\ x.calls[e.call].ask = e.id)
    <2>1. d = Retire(x, e.id, "Received")
      <3>1. d = ReadAsk(x, e)
        BY <1>2, <1>4, <1>14, Zenon DEF Receive
      <3> QED BY <1>14, <3>1 DEF ReadAsk
    <2> QED BY <1>5, <1>7, <1>8, <1>9, <1>10, <1>11, <2>1
  <1>15. CASE e.kind = "Reply"
    <2>1. PICK a : a = IF MatchesCall(x, e) THEN EndCall(x, e.call) ELSE x
      OBVIOUS
    <2>2. a \in CourierType /\ Concludes(c, a, F)
      <3>1. a = x \/ a = EndCall(x, e.call)
        BY <2>1
      <3>2. Concludes(x, EndCall(x, e.call), F) /\ EndCall(x, e.call) \in CourierType
        BY <1>5, <1>8, EndCallConcludes, EndCallFields
      <3> QED BY <1>5, <1>7, <3>1, <3>2, ConcludesTransitive
    <2>3. PICK b : b = Retire(a, e.id, "Received")
      OBVIOUS
    <2>4. b \in CourierType /\ Concludes(c, b, F)
      BY <1>8, <1>9, <1>10, <2>2, <2>3
    <2>5. d = Retire(b, e.replyTo, "Replied")
      <3>1. d = ReadReply(x, e)
        BY <1>2, <1>4, <1>15 DEF Receive
      <3> QED BY <2>1, <2>3, <3>1 DEF ReadReply
    <2> QED BY <1>8, <1>9, <1>10, <1>11, <1>15, <2>4, <2>5
  <1> QED BY <1>8, <1>12, <1>13, <1>14, <1>15 DEF Kinds

-----------------------------------------------------------------------------
(* The courier in one step.                                                *)

\* A reason for the call k to end.
Cause(k) ==
    LET call == courier.calls[k] IN
    \/ call.deadline <= now
    \/ courier'.box[call.source] = None \/ courier'.box[call.target] = None
    \/ call.room # None /\ courier'.rooms[call.room] = None
    \/ call.stage = "Replied" /\ RepliesTo(courier', call.ask) = {}
    \/ /\ call.stage # "Replied"
       /\ \/ \E e \in Mail(courier') : e.kind = "Cancel" /\ e.replyTo = call.ask
          \/ \E c \in Conns : /\ conn[c].at = "leaving"
                              /\ conn[c].pending = [call |-> k, ask |-> call.ask]
                              /\ conn[c].session = call.source

\* What is new has been sent, a state is given to what may still end, and what has
\* ended has ended for a reason.
OneOperation ==
    /\ \/ Follows(courier, courier') /\ Finishes(courier, courier')
       \/ Follows(Swept, courier') /\ Finishes(Swept, courier')
    /\ \A k \in OpenCalls(courier) :
          \/ courier'.calls[k] # None /\ courier'.calls[k].ask = courier.calls[k].ask
          \/ Cause(k)

\* A call that the sweep ended had a reason, and no reply has come since.
LEMMA SweptForCause ==
    ASSUME EInv, NEW a, a = courier \/ a = Swept, NEW k \in OpenCalls(courier),
           a.calls[k] # courier.calls[k],
           \A f \in Mail(courier') \ Mail(a) :
              f.kind = "Reply" => \E l \in OpenCalls(a) : a.calls[l].ask = f.replyTo
    PROVE  Cause(k)
  <1>1. PICK m : m = courier.calls[k].ask
    OBVIOUS
  <1>2. k \in Calls /\ Spared(courier, a, now) /\ Shrinks(courier, a)
    BY SweptIsExact DEF OpenCalls
  <1>3. /\ a.calls[k] = None
        /\ \/ courier.calls[k].deadline <= now
           \/ courier.calls[k].stage = "Replied" /\ RepliesTo(a, m) = {}
    BY <1>1, <1>2 DEF Spared
  <1>4. ASSUME RepliesTo(a, m) = {}, NEW f \in RepliesTo(courier', m)
        PROVE  FALSE
    <2>1. f \in Mail(courier') \ Mail(a) /\ f.kind = "Reply" /\ f.replyTo = m
      BY <1>4 DEF RepliesTo
    <2>2. PICK l \in OpenCalls(a) : a.calls[l].ask = m
      BY <2>1
    <2>3. l \in OpenCalls(courier) /\ courier.calls[l].ask = m
      BY <1>2, <2>2 DEF Shrinks, OpenCalls
    <2>4. CallsDiffer(courier)
      BY DEF EInv, Exact, Coherent
    <2>5. l = k
      BY <1>1, <2>3, <2>4 DEF CallsDiffer
    <2> QED BY <1>3, <2>2, <2>5 DEF OpenCalls
  <1> QED BY <1>1, <1>3, <1>4 DEF Cause

LEMMA SentForCause ==
    ASSUME EInv, NEW a, a = courier \/ a = Swept,
           Follows(a, courier'), Finishes(a, courier'), SentOver(a, courier')
    PROVE  OneOperation
  <1>1. ASSUME NEW k \in OpenCalls(courier), a.calls[k] = courier.calls[k]
        PROVE  \/ courier'.calls[k] # None /\ courier'.calls[k].ask = courier.calls[k].ask
               \/ Cause(k)
    <2>1. k \in OpenCalls(a)
      BY <1>1 DEF OpenCalls
    <2>2. CASE k \in OpenCalls(courier') /\ courier'.calls[k].ask = a.calls[k].ask
      BY <1>1, <2>2 DEF OpenCalls
    <2>3. CASE /\ a.calls[k].stage # "Replied"
               /\ \E f \in Mail(courier') : f.kind = "Cancel" /\ f.replyTo = a.calls[k].ask
      BY <1>1, <2>3 DEF Cause
    <2> QED BY <2>1, <2>2, <2>3 DEF SentOver
  <1>2. \A f \in Mail(courier') \ Mail(a) :
           f.kind = "Reply" => \E l \in OpenCalls(a) : a.calls[l].ask = f.replyTo
    BY DEF SentOver
  <1>3. \A k \in OpenCalls(courier) : a.calls[k] = courier.calls[k] \/ Cause(k)
    BY <1>2, SweptForCause
  <1> QED BY <1>1, <1>3 DEF OneOperation

\* A step that sends nothing.
LEMMA ShrunkForCause ==
    ASSUME EInv, NEW a, a = courier \/ a = Swept,
           Follows(a, courier'), Finishes(a, courier'),
           Mail(courier') \subseteq Mail(a),
           \A k \in OpenCalls(courier) : a.calls[k] = courier.calls[k] =>
              \/ courier'.calls[k] # None /\ courier'.calls[k].ask = courier.calls[k].ask
              \/ Cause(k)
    PROVE  OneOperation
  <1>1. \A k \in OpenCalls(courier) : a.calls[k] = courier.calls[k] \/ Cause(k)
    BY SweptForCause
  <1> QED BY <1>1 DEF OneOperation

LEMMA LeftFollows ==
    ASSUME EInv, courier' = courier \/ courier' = Swept
    PROVE  OneOperation
  <1>1. Follows(courier', courier') /\ Finishes(courier', courier')
    BY ShrinksFollows, FinishesSame DEF Shrinks
  <1>2. \A k \in OpenCalls(courier) : courier.calls[k] # None
    BY DEF OpenCalls
  <1> QED BY <1>1, <1>2, ShrunkForCause

\* The calls of a session that ends.
LEMMA LeavesForCause ==
    ASSUME EInv, NEW s \in Sessions, courier' = SessionEnded(courier, s)
    PROVE  OneOperation
  <1>1. Exact(courier)
    BY DEF EInv
  <1>2. Shrinks(courier, courier') /\ OnlyLeaves(courier, courier', s)
        /\ Finishes(courier, courier')
    <2>1. Concludes(courier, courier', Ends(courier))
      BY <1>1, ExactIsSound, EndsAreFated, SessionEndedConcludes
    <2> QED BY <1>1, <2>1, SessionEndedKeeps, ConcludesFinishes
  <1>3. Follows(courier, courier') /\ Mail(courier') \subseteq Mail(courier)
    BY <1>2, ShrinksFollows DEF Shrinks
  <1>4. ASSUME NEW k \in OpenCalls(courier), courier'.calls[k] # courier.calls[k]
        PROVE  Cause(k)
    <2>1. CASE EndedWithRoom(courier, courier', k)
      BY <2>1, CourierAssumption DEF EndedWithRoom, Cause
    <2>2. CASE courier'.box[s] = None /\ s \in {courier.calls[k].source, courier.calls[k].target}
      BY <2>2 DEF Cause
    <2> QED BY <1>2, <1>4, <2>1, <2>2 DEF OnlyLeaves, OpenCalls
  <1>5. \A k \in OpenCalls(courier) : courier.calls[k] # None
    BY DEF OpenCalls
  <1> QED BY <1>2, <1>3, <1>4, <1>5, ShrunkForCause

LEMMA SetDialogueFollows ==
    ASSUME EInv, NEW s \in Sessions, SetDialogue(s) \/ Forget(s) \/ CancelSpawn(s)
    PROVE  OneOperation
  <1>1. Exact(courier) /\ Sound(courier)
    BY DEF EInv, IInv
  <1>2. CASE courier' = SessionEnded(courier, s)
    BY <1>2, LeavesForCause
  <1>3. CASE courier' = SessionStarted(courier, s)
    <2>1. Started(courier, s, courier')
      BY <1>1, <1>3, SessionStartedEffect
    <2>2. /\ courier'.calls = courier.calls /\ Mail(courier') = Mail(courier)
          /\ courier'.states = courier.states
      BY <2>1 DEF Started
    <2>3. Follows(courier, courier') /\ Finishes(courier, courier')
      BY <2>2, ShrinksFollows, FinishesSame DEF Shrinks
    <2>4. SentOver(courier, courier')
      BY <2>2 DEF SentOver, OpenCalls
    <2> QED BY <2>3, <2>4, SentForCause
  <1>4. courier' = SessionEnded(courier, s) \/ courier' = SessionStarted(courier, s)
    BY DEF SetDialogue, Forget, CancelSpawn
  <1> QED BY <1>2, <1>3, <1>4

LEMMA ReserveSpawnFollows ==
    ASSUME EInv, NEW c \in Conns, NEW w \in Sessions, ReserveSpawn(c, w)
    PROVE  OneOperation
  <1>1. PICK s : s = conn[c].session
    OBVIOUS
  <1>2. s \in Sessions
    <2>1. IInv /\ conn[c].at # "idle"
      BY DEF EInv, ReserveSpawn
    <2> QED BY <1>1, <2>1, AdmittedSession
  <1>3. ASSUME NEW e \in InitialMail(s, w), AcceptsInitial(courier, e, now),
               courier' = ReserveInitial(courier, e)
        PROVE  OneOperation
    <2>1. Sound(courier) /\ Exact(courier) /\ e \in Envelope
      BY <1>2, InitialMailIsMail DEF EInv, IInv
    <2> QED BY <1>3, <2>1, ReserveInitialFollows, ReserveInitialFinishes, SentForCause
  <1>4. \/ courier' = courier
        \/ \E e \in InitialMail(s, w) :
              AcceptsInitial(courier, e, now) /\ courier' = ReserveInitial(courier, e)
    BY <1>1 DEF ReserveSpawn
  <1> QED BY <1>3, <1>4, LeftFollows

LEMMA PostCommandFollows ==
    ASSUME EInv, NEW c \in Conns, PostCommand(c)
    PROVE  OneOperation
  <1>1. PICK s : s = conn[c].session
    OBVIOUS
  <1>2. PICK e \in (IF May(c, "tell") THEN Posted(s, "Tell") ELSE {})
                   \cup (IF May(c, "ask") THEN Posted(s, "Ask") ELSE {})
                   \cup (IF May(c, "answer") THEN Answers(s) ELSE {})
                   \cup (IF May(c, "cancel") THEN Cancels(s) ELSE {}) :
           Accepts(Swept, e, now) /\ courier' = Send(Swept, e)
    BY <1>1 DEF PostCommand
  <1>3. s \in Sessions /\ courier \in CourierType
    <2>1. IInv /\ conn[c].at # "idle" /\ courier \in CourierType
      BY <1>2 DEF EInv, IInv, Sound, May
    <2> QED BY <1>1, <2>1, AdmittedSession
  <1>4. e \in Posted(s, "Tell") \/ e \in Posted(s, "Ask") \/ e \in Answers(s) \/ e \in Cancels(s)
    BY <1>2
  <1>5. e \in Envelope
    <2>1. "Tell" \in Kinds /\ "Ask" \in Kinds
      BY DEF Kinds
    <2> QED BY <1>3, <1>4, <2>1, PostedIsMail, AnswersAreMail, CancelsAreMail
  <1>6. Sound(Swept) /\ Exact(Swept)
    BY SweptIsExact
  <1> QED BY <1>2, <1>5, <1>6, SendFollows, SendFinishes, SentForCause

LEMMA AskFollows ==
    ASSUME EInv, NEW c \in Conns, Ask(c)
    PROVE  OneOperation /\ Heard
  <1>1. PICK s : s = conn[c].session
    OBVIOUS
  <1>2. PICK e \in Posted(s, "Ask") :
           /\ Accepts(Swept, e, now)
           /\ courier' = Send(Swept, e)
           /\ Notify(c, Waiting(c, e.target, [call |-> e.call, ask |-> e.id], e.deadline))
    BY <1>1 DEF Ask
  <1>3. e \in Envelope /\ e.kind = "Ask"
    <2>1. IInv /\ conn[c].at # "idle" /\ "Ask" \in Kinds
      BY DEF EInv, Ask, May, Kinds
    <2>2. s \in Sessions
      BY <1>1, <2>1, AdmittedSession
    <2> QED BY <2>1, <2>2, PostedIsMail, PostedBelongsNowhere
  <1>4. Sound(Swept) /\ Exact(Swept) /\ ConnectionsOK
    BY SweptIsExact DEF EInv, IInv
  <1>5. Follows(Swept, courier') /\ SentOver(Swept, courier') /\ AsksFor(courier', e)
    BY <1>2, <1>3, <1>4, SendFollows
  <1>6. PICK k : k = Waiting(c, e.target, [call |-> e.call, ask |-> e.id], e.deadline)
    OBVIOUS
  <1>7. KnowsItsCall(courier', k) /\ ~Sleeping(k)
    BY <1>4, <1>5, <1>6, AskerKnows
  <1>8. Heard
    BY <1>2, <1>4, <1>6, <1>7, NotifyHears
  <1>9. Finishes(Swept, courier')
    BY <1>2, <1>3, <1>4, SendFinishes
  <1> QED BY <1>5, <1>8, <1>9, SentForCause

LEMMA OpenRoomFollows ==
    ASSUME EInv, NEW c \in Conns, OpenRoom(c)
    PROVE  OneOperation
  <1>1. PICK s, d : s = conn[c].session /\ d = Swept
    OBVIOUS
  <1>2. PICK r \in Rooms, members \in SUBSET Sessions, t \in Later :
           /\ d.rooms[r] = None
           /\ AcceptsRoom(d, members, s, t, now)
           /\ courier' = RoomOpen(d, r, members, s, t)
    BY <1>1 DEF OpenRoom
  <1>3. s \in Sessions
    <2>1. IInv /\ conn[c].at # "idle"
      BY DEF EInv, OpenRoom, May
    <2> QED BY <1>1, <2>1, AdmittedSession
  <1>4. t \in Nat /\ d \in CourierType /\ Follows(d, d)
    <2>1. Shrinks(d, d) /\ d \in CourierType
      BY <1>1, SweptIsExact DEF Shrinks, Sound
    <2> QED BY <2>1, ShrinksFollows, GateAssumption DEF Later, Time
  <1>5. PICK room : room = [owner |-> s, speaker |-> s, members |-> members,
                            rounds |-> 0, current |-> None, deadline |-> t]
    OBVIOUS
  <1>6. room \in Room
    BY <1>3, <1>4, <1>5 DEF Room, Maybe
  <1>7. courier' = WithRoom(d, r, room)
    BY <1>2, <1>5 DEF RoomOpen, WithRoom
  <1>8. RoomSet(d, r, courier')
    BY ONLY <1>4, <1>6, <1>7, WithRoomSets
  <1>9. Follows(d, courier') /\ courier'.calls = d.calls /\ Mail(courier') = Mail(d)
    BY ONLY <1>4, <1>8, RoomSetFollows
  <1>10. SentOver(d, courier')
    BY <1>9 DEF SentOver, OpenCalls
  <1>11. Finishes(d, courier')
    BY <1>8, <1>9, FinishesSame DEF RoomSet
  <1> QED BY <1>1, <1>9, <1>10, <1>11, SentForCause

LEMMA TransferRoomFollows ==
    ASSUME EInv, NEW c \in Conns, TransferRoom(c)
    PROVE  OneOperation
  <1>1. PICK s, d : s = conn[c].session /\ d = Swept
    OBVIOUS
  <1>2. PICK r \in Rooms, speaker \in Sessions :
           /\ AcceptsTransfer(d, s, r, speaker, now)
           /\ courier' = RoomTransfer(d, r, speaker)
    BY <1>1 DEF TransferRoom
  <1>3. d \in CourierType /\ Follows(d, d) /\ d.rooms[r] # None
    <2>1. Shrinks(d, d) /\ d \in CourierType
      BY <1>1, SweptIsExact DEF Shrinks, Sound
    <2> QED BY <1>2, <2>1, ShrinksFollows DEF AcceptsTransfer, RoomVisible
  <1>4. PICK old : old = d.rooms[r] /\ old \in Room
    BY <1>3, CourierFields DEF Maybe
  <1>5. PICK room : room = [old EXCEPT !.speaker = speaker]
    OBVIOUS
  <1>6. room \in Room
    BY <1>4, <1>5 DEF Room
  <1>7. courier' = WithRoom(d, r, room)
    BY <1>2, <1>4, <1>5 DEF RoomTransfer, WithRoom
  <1>8. RoomSet(d, r, courier')
    BY ONLY <1>3, <1>6, <1>7, WithRoomSets
  <1>9. Follows(d, courier') /\ courier'.calls = d.calls /\ Mail(courier') = Mail(d)
    BY ONLY <1>3, <1>8, RoomSetFollows
  <1>10. SentOver(d, courier')
    BY <1>9 DEF SentOver, OpenCalls
  <1>11. Finishes(d, courier')
    BY <1>8, <1>9, FinishesSame DEF RoomSet
  <1> QED BY <1>1, <1>9, <1>10, <1>11, SentForCause

LEMMA CloseRoomFollows ==
    ASSUME EInv, NEW c \in Conns, CloseRoom(c)
    PROVE  OneOperation
  <1>1. PICK d : d = Swept
    OBVIOUS
  <1>2. PICK r \in Rooms : courier' = RemoveRoom(d, r, "Cancelled")
    BY <1>1 DEF CloseRoom, RoomClose
  <1>3. Exact(d) /\ "Cancelled" \in States
    BY <1>1, SweptIsExact DEF States
  <1>4. RoomRemoved(d, courier', r)
    BY <1>2, <1>3, RemoveRoomKeeps
  <1>5. Follows(d, courier') /\ Mail(courier') \subseteq Mail(d)
    BY <1>4, LighterMail, ShrinksFollows DEF RoomRemoved, Shrinks
  <1>6. ASSUME NEW k \in OpenCalls(courier), d.calls[k] = courier.calls[k],
               courier'.calls[k] # d.calls[k]
        PROVE  Cause(k)
    <2>1. courier.calls[k].room = r /\ courier'.rooms[r] = None
      BY <1>4, <1>6 DEF RoomRemoved, OpenCalls
    <2> QED BY <2>1, CourierAssumption DEF Cause
  <1>7. \A k \in OpenCalls(courier) : courier.calls[k] # None
    BY DEF OpenCalls
  <1>8. Finishes(d, courier')
    <2>1. Concludes(d, courier', Ends(d))
      BY <1>2, <1>3, ExactIsSound, EndsAreFated, RemoveRoomConcludes
    <2> QED BY <2>1, ConcludesFinishes
  <1> QED BY <1>1, <1>5, <1>6, <1>7, <1>8, ShrunkForCause

LEMMA RoomAskCommandFollows ==
    ASSUME EInv, NEW c \in Conns, RoomAskCommand(c)
    PROVE  OneOperation /\ Heard
  <1>1. PICK s, d : s = conn[c].session /\ d = Swept
    OBVIOUS
  <1>2. PICK r \in OpenRooms(courier), e \in Posted(s, "Ask") :
           /\ AcceptsRound(d, r, e, now)
           /\ courier' = RoomAsk(d, r, e)
           /\ Notify(c, Waiting(c, e.target, [call |-> e.call, ask |-> e.id], e.deadline))
    BY <1>1 DEF RoomAskCommand
  <1>3. e \in Envelope /\ e.kind = "Ask"
    <2>1. IInv /\ conn[c].at # "idle" /\ "Ask" \in Kinds
      BY DEF EInv, RoomAskCommand, May, Kinds
    <2>2. s \in Sessions
      BY <1>1, <2>1, AdmittedSession
    <2> QED BY <2>1, <2>2, PostedIsMail
  <1>4. Sound(d) /\ r \in Rooms /\ ConnectionsOK
    BY <1>1, SweptIsExact DEF OpenRooms, EInv, IInv
  <1>5. Follows(d, courier') /\ SentOver(d, courier') /\ AsksFor(courier', e)
    BY <1>2, <1>3, <1>4, RoomAskFollows
  <1>6. PICK k : k = Waiting(c, e.target, [call |-> e.call, ask |-> e.id], e.deadline)
    OBVIOUS
  <1>7. KnowsItsCall(courier', k) /\ ~Sleeping(k)
    BY <1>4, <1>5, <1>6, AskerKnows
  <1>8. Heard
    BY <1>2, <1>4, <1>6, <1>7, NotifyHears
  <1>9. Finishes(d, courier')
    BY <1>2, <1>3, <1>4, RoomAskFinishes
  <1> QED BY <1>1, <1>5, <1>8, <1>9, SentForCause

LEMMA CheckTakesFollows ==
    ASSUME EInv, NEW c \in Conns, CheckTakes(c)
    PROVE  OneOperation
  <1>1. PICK s, d : s = conn[c].session /\ d = Swept
    OBVIOUS
  <1>2. PICK i \in DOMAIN d.box[s].queue : courier' = Receive(d, s, i)
    BY <1>1, TakesMail
  <1>3. s \in Sessions /\ d.box[s] # None
    BY <1>1, TakesMail
  <1>4. /\ Sound(d) /\ Coherent(d, {}) /\ Distinct(d.box[s].queue)
        /\ d.calls \in [Calls -> Maybe(Call)]
    BY <1>1, <1>3, SweptIsExact, CourierFields DEF Sound, Exact, Coherent, Fits
  <1>5. PICK e : e = d.box[s].queue[i]
    OBVIOUS
  <1>6. Follows(d, courier') /\ OnlyReads(d, s, e, courier')
    BY <1>2, <1>3, <1>4, <1>5, ReceiveFollows
  <1>7. e \in Mail(d) /\ Mail(courier') \subseteq Mail(d) /\ e \notin Mail(courier')
    BY <1>4, <1>6 DEF OnlyReads
  <1>8. ASSUME NEW k \in OpenCalls(courier), d.calls[k] = courier.calls[k],
               ~(k \in OpenCalls(courier') /\ courier'.calls[k].ask = courier.calls[k].ask)
        PROVE  Cause(k)
    <2>1. k \in OpenCalls(d)
      BY <1>8 DEF OpenCalls
    <2>2. k = e.call /\ e.kind = "Reply" /\ MatchesCall(d, e)
      BY <1>6, <1>8, <2>1 DEF OnlyReads
    <2>3. Carries(d, e, "Replied") /\ e.replyTo = d.calls[k].ask
      BY <1>4, <1>7, <2>2, MatchedMail
    <2>4. \A f \in Mail(d) : f.kind = "Reply" /\ f.replyTo = e.replyTo => f = e
      BY <1>4, <1>7, <2>2 DEF Coherent, UniqueMail
    <2>5. RepliesTo(courier', e.replyTo) = {}
      BY <1>7, <2>4 DEF RepliesTo
    <2>6. d.calls[k].stage = "Replied"
      BY <2>2, <2>3 DEF Carries
    <2> QED BY <1>8, <2>3, <2>5, <2>6 DEF Cause
  <1>9. \A k \in OpenCalls(courier') : courier'.calls[k] # None
    BY DEF OpenCalls
  <1>10. Finishes(d, courier')
    BY <1>1, <1>2, <1>3, SweptIsExact, ReceiveFinishes
  <1> QED BY <1>1, <1>6, <1>7, <1>8, <1>9, <1>10, ShrunkForCause

LEMMA AbandonFollows ==
    ASSUME EInv, NEW c \in Conns, Abandon(c)
    PROVE  OneOperation
  <1>1. PICK k, d : k = conn[c] /\ d = Swept
    OBVIOUS
  <1>2. k.pending \in CallRef
    <2>1. GoodConnection(k) /\ k.at = "leaving"
      BY <1>1 DEF EInv, IInv, ConnectionsOK, Abandon
    <2> QED BY <2>1, ConnectionFields DEF GoodConnection, Maybe
  <1>3. Exact(d)
    BY <1>1, SweptIsExact
  <1>4. CASE courier' = courier
    BY <1>4, LeftFollows
  <1>5. CASE courier' = AbandonCall(d, k.session, k.pending)
    <2>1. Shrinks(d, courier') /\ OnlyAbandons(d, courier', k.session, k.pending)
      BY <1>2, <1>3, <1>5, AbandonCallKeeps
    <2>2. Follows(d, courier') /\ Mail(courier') \subseteq Mail(d)
      BY <2>1, ShrinksFollows DEF Shrinks
    <2>3. ASSUME NEW l \in OpenCalls(courier), d.calls[l] = courier.calls[l],
                 courier'.calls[l] # d.calls[l]
          PROVE  Cause(l)
      <3>1. /\ l = k.pending.call /\ OwnsCall(d, k.session, k.pending)
            /\ d.calls[l].stage # "Replied"
        BY <2>1, <2>3 DEF OnlyAbandons, OpenCalls
      <3>2. k.pending = [call |-> l, ask |-> courier.calls[l].ask]
        BY <1>2, <2>3, <3>1 DEF CallRef, OwnsCall
      <3>3. k.at = "leaving" /\ k.session = courier.calls[l].source
        BY <1>1, <2>3, <3>1 DEF Abandon, OwnsCall
      <3> QED BY <1>1, <2>3, <3>1, <3>2, <3>3, Zenon DEF Cause
    <2>4. \A l \in OpenCalls(courier) : courier.calls[l] # None
      BY DEF OpenCalls
    <2>5. Finishes(d, courier')
      <3>1. Concludes(d, courier', Ends(d))
        BY <1>2, <1>3, <1>5, ExactIsSound, EndsAreFated, AbandonCallConcludes
      <3> QED BY <3>1, ConcludesFinishes
    <2> QED BY <1>1, <2>2, <2>3, <2>4, <2>5, ShrunkForCause
  <1>6. courier' = courier \/ courier' = AbandonCall(d, k.session, k.pending)
    BY <1>1 DEF Abandon
  <1> QED BY <1>4, <1>5, <1>6

-----------------------------------------------------------------------------
(* No step takes anything unheard from a sleeper, or ends a call unasked.  *)
LEMMA CommandHears ==
    ASSUME EInv, NEW c \in Conns, Command(c)
    PROVE  OneOperation /\ Heard
  <1>1. IInv
    BY DEF EInv
  <1>2. ASSUME NEW s \in Sessions, Admit(c, s)
        PROVE  OneOperation /\ Heard
    <2>1. courier' = courier
      BY <1>2 DEF Admit
    <2> QED BY <1>1, <1>2, <2>1, AdmitHears, LeftFollows
  <1>3. ASSUME NEW s \in Sessions, ReserveSpawn(c, s)
        PROVE  OneOperation /\ Heard
    <2>1. Notify(c, Closed)
      BY <1>3 DEF ReserveSpawn
    <2> QED BY <1>1, <1>3, <2>1, LoudClose, ReserveSpawnFollows
  <1>4. CASE PostCommand(c) \/ OpenRoom(c) \/ TransferRoom(c) \/ CloseRoom(c)
    <2>1. Notify(c, Closed)
      BY <1>4 DEF PostCommand, OpenRoom, TransferRoom, CloseRoom
    <2> QED BY <1>1, <1>4, <2>1, LoudClose, PostCommandFollows, OpenRoomFollows,
            TransferRoomFollows, CloseRoomFollows
  <1>5. CASE ReceiveCommand(c)
    <2>1. courier' = courier
      BY <1>5 DEF ReceiveCommand
    <2> QED BY <1>1, <1>5, <2>1, ReceiveCommandHears, LeftFollows
  <1>6. CASE RefusedLoudly(c)
    <2>1. Notify(c, Closed) /\ courier' = Swept
      BY <1>6 DEF RefusedLoudly
    <2> QED BY <1>1, <2>1, LoudClose, LeftFollows
  <1>7. CASE RefusedQuietly(c) \/ RefusedStale(c)
    <2>1. Quietly(c, Closed) /\ (courier' = courier \/ courier' = Swept) /\ gate' = gate
      BY <1>7 DEF RefusedQuietly, RefusedStale
    <2> QED BY <1>1, <2>1, QuietClose, LeftFollows
  <1>8. CASE Ask(c) \/ RoomAskCommand(c)
    BY <1>8, AskFollows, RoomAskCommandFollows
  <1> QED BY <1>2, <1>3, <1>4, <1>5, <1>6, <1>7, <1>8 DEF Command

LEMMA WaitHears ==
    ASSUME EInv, NEW c \in Conns, Wait(c) \/ HangUp(c) \/ Abandon(c)
    PROVE  OneOperation /\ Heard
  <1>1. IInv
    BY DEF EInv
  <1>2. CASE CheckEnded(c) \/ HangUp(c)
    <2>1. Quietly(c, Left(c)) /\ courier' = courier /\ gate' = gate
      BY <1>2 DEF CheckEnded, HangUp
    <2> QED BY <1>1, <2>1, QuietLeave, LeftFollows
  <1>3. CASE CheckTakes(c)
    <2>1. Notify(c, Closed)
      BY <1>3 DEF CheckTakes
    <2> QED BY <1>1, <1>3, <2>1, LoudClose, CheckTakesFollows
  <1>4. CASE CheckLost(c) \/ RunsOut(c)
    <2>1. AfterSweep(c, Left(c), Left(c)) /\ courier' = Swept /\ gate' = gate
      BY <1>4 DEF CheckLost, RunsOut
    <2> QED BY <1>1, <2>1, LeaveAfterSweep, LeftFollows
  <1>5. CASE CheckSleeps(c)
    <2>1. courier' = Swept
      BY <1>5 DEF CheckSleeps
    <2> QED BY <1>5, <2>1, CheckSleepsHears, LeftFollows
  <1>6. CASE Wakes(c) \/ TimerRings(c)
    <2>1. courier' = courier
      BY <1>6 DEF Wakes, TimerRings
    <2> QED BY <1>6, <2>1, AwakeHears, LeftFollows
  <1>7. CASE Abandon(c)
    BY <1>1, <1>7, AbandonHears, AbandonFollows
  <1> QED BY <1>2, <1>3, <1>4, <1>5, <1>6, <1>7 DEF Wait, Check

LEMMA NextHears ==
    ASSUME EInv, [Next]_vars
    PROVE  OneOperation /\ Heard
  <1>1. IInv
    BY DEF EInv
  <1>2. ASSUME NEW s \in Sessions, SessionStep(s)
        PROVE  OneOperation /\ Heard
    <2>1. Launch(s) \/ LaunchWorker(s) \/ EndedWorker(s) => courier' = courier
      BY DEF Launch, LaunchWorker, EndedWorker
    <2>2. OneOperation
      BY <1>2, <2>1, LeftFollows, SetDialogueFollows DEF SessionStep
    <2> QED BY <1>1, <1>2, <2>2, SessionStepHears
  <1>3. CASE Expire
    <2>1. courier' = courier \/ courier' = Swept
      BY <1>3 DEF Expire, ExpirerLooks, ExpirerRearms, ExpirerFires
    <2> QED BY <1>1, <1>3, <2>1, ExpireHears, LeftFollows
  <1>4. CASE Tick \/ UNCHANGED vars
    <2>1. conn' = conn /\ gate' = gate /\ courier' = courier
      BY <1>4 DEF Tick, vars
    <2> QED BY <2>1, NobodyMoves, LeftFollows
  <1> QED BY <1>2, <1>3, <1>4, CommandHears, WaitHears DEF Next

WaitersOK == \A x \in Conns : WaiterOK(courier, conn[x], now)
SleepersHeard == \A x \in Conns : Sleeping(conn[x]) =>
                    /\ Active(conn[x].session, conn[x].activation)
                    /\ Attends(courier, conn[x], now)

SInv == EInv /\ WaitersOK /\ SleepersHeard

LEMMA WaitersStayOK ==
    ASSUME EInv, WaitersOK, AsksAreNew, Exact(courier'), OneOperation, WaitsGoOn,
           now \in Nat, now' \in Nat, now' >= now, ConnectionsOK'
    PROVE  WaitersOK'
  <1>1. ASSUME NEW x \in Conns, Waiter(conn'[x]), conn'[x].due > now'
        PROVE  KnowsItsCall(courier', conn'[x])
    <2>1. CASE SameWait(conn[x], conn'[x])
      <3>1. PICK k, l : k = conn[x] /\ l = conn'[x]
        OBVIOUS
      <3>2. /\ Waiter(k) /\ l.pending = k.pending /\ l.due = k.due /\ l.source = k.source
        BY <1>1, <2>1, <3>1 DEF SameWait, Waiter
      <3>3. l.due \in Nat
        BY <3>1, ConnectionFields DEF ConnectionsOK
      <3>4. k.due > now
        BY <1>1, <3>1, <3>2, <3>3
      <3>5. WaiterOK(courier, conn[x], now)
        BY DEF WaitersOK
      <3>6. PICK a : (a = courier \/ a = Swept) /\ Follows(a, courier')
        BY DEF OneOperation
      <3>7. KnowsItsCall(courier', conn[x])
        BY <3>1, <3>2, <3>4, <3>5, <3>6, WaiterFollows
      <3> QED BY <3>1, <3>2, <3>7 DEF KnowsItsCall
    <2>2. CASE conn'[x].pending = None
      BY <1>1, <2>2 DEF Waiter
    <2> QED BY <2>1, <2>2 DEF WaitsGoOn
  <1> QED BY <1>1 DEF WaitersOK, WaiterOK

LEMMA SleepersStayHeard ==
    ASSUME EInv, WaitersOK, SleepersHeard, AllRung \/ NothingMissed,
           now \in Nat, now' \in Nat, now' >= now, ConnectionsOK'
    PROVE  SleepersHeard'
  <1>1. ASSUME NEW x \in Conns, Sleeping(conn'[x])
        PROVE  /\ Active(conn[x].session, conn[x].activation)'
               /\ Attends(courier', conn'[x], now')
    <2>1. PICK l : l = conn'[x]
      OBVIOUS
    <2>2. gate' = gate /\ (courier' = courier \/ courier' = Swept)
      BY <1>1 DEF AllRung, NothingMissed
    <2>3. Active(l.session, l.activation) /\ Attends(courier', l, now)
      <3>1. CASE conn'[x] = conn[x]
        <4>1. /\ Active(l.session, l.activation) /\ Attends(courier, l, now)
          BY <1>1, <2>1, <3>1 DEF SleepersHeard
        <4>2. CASE courier' = courier
          BY <4>1, <4>2
        <4>3. CASE courier' = Swept
          <5>1. conn[x].at = "asleep" /\ WaiterOK(courier, conn[x], now)
            BY <1>1, <3>1 DEF Sleeping, WaitersOK
          <5> QED BY <2>1, <3>1, <4>1, <4>3, <5>1, SweptAttends
        <4> QED BY <2>2, <4>2, <4>3
      <3> QED BY <1>1, <2>1, <3>1 DEF AllRung, NothingMissed
    <2>4. l.due \in Nat
      BY <2>1, ConnectionFields DEF ConnectionsOK
    <2>5. l.due <= now => l.due <= now'
      BY <2>4
    <2>6. Attends(courier', l, now')
      BY <2>3, <2>5 DEF Attends
    <2> QED BY <2>1, <2>2, <2>3, <2>6 DEF Active
  <1> QED BY <1>1 DEF SleepersHeard

LEMMA NextIsHeard ==
    SInv /\ [Next]_vars /\ [IdsAreNew]_vars /\ [AsksAreNew]_vars /\ [ClockGoesOn]_vars => SInv'
  <1> SUFFICES ASSUME SInv, [Next]_vars, [IdsAreNew]_vars, [AsksAreNew]_vars, [ClockGoesOn]_vars
               PROVE  SInv'
    OBVIOUS
  <1>1. EInv /\ WaitersOK /\ SleepersHeard
    BY DEF SInv
  <1>2. EInv'
    BY <1>1, StepIsExact
  <1>3. now \in Nat /\ now' \in Nat /\ Exact(courier') /\ ConnectionsOK'
    <2>1. Time \subseteq Nat
      BY GateAssumption DEF Time
    <2> QED BY <1>1, <1>2, <2>1 DEF EInv, IInv, Time
  <1>4. now' >= now
    BY <1>3 DEF ClockGoesOn, vars
  <1>5. AsksAreNew
    BY DEF AsksAreNew, vars
  <1>6. OneOperation /\ WaitsGoOn /\ (AllRung \/ NothingMissed)
    BY <1>1, NextHears DEF Heard
  <1>7. WaitersOK'
    BY <1>1, <1>3, <1>4, <1>5, <1>6, WaitersStayOK
  <1>8. SleepersHeard'
    BY <1>1, <1>3, <1>4, <1>6, SleepersStayHeard
  <1> QED BY <1>2, <1>7, <1>8 DEF SInv

LEMMA InitIsHeard == Init => SInv
  <1> SUFFICES ASSUME Init PROVE SInv
    OBVIOUS
  <1>1. \A x \in Conns : conn[x].at = "idle"
    BY DEF Init, Closed
  <1>2. WaitersOK /\ SleepersHeard
    BY <1>1 DEF WaitersOK, WaiterOK, Waiter, SleepersHeard, Sleeping
  <1> QED BY <1>2, InitIsExact DEF SInv

LEMMA HeardMissNothing == ASSUME SInv PROVE SleepersMissNothing
  <1>1. ASSUME NEW x \in Conns, conn[x].at = "asleep", ~conn[x].rung
        PROVE  /\ Active(conn[x].session, conn[x].activation)
               /\ Matching(courier, conn[x].session, conn[x].source, conn[x].pending) = {}
               /\ conn[x].pending # None =>
                     \/ OwnsCall(courier, conn[x].session, conn[x].pending)
                     \/ conn[x].due <= now
    BY <1>1 DEF SInv, SleepersHeard, Sleeping, Attends
  <1> QED BY <1>1 DEF SleepersMissNothing

\* If the identifiers of messages are new as above, the ask that a connection
\* waits for gives its identifier to no other message meanwhile, and the clock is
\* not set back, then no wake-up is lost: whoever sleeps without a ring due has
\* nothing to take, is in the dialogue it was admitted to, and still owns the call
\* it waits for until the time of that call has come. A sweep may end a call
\* without a ring, but before its time only one whose reply has been sent, and
\* whoever sent it has rung.
THEOREM NoWakeUpIsLost ==
    /\ Spec
    /\ [][IdsAreNew]_vars /\ [][AsksAreNew]_vars /\ [][ClockGoesOn]_vars
    => []SleepersMissNothing
  <1>1. SInv => SleepersMissNothing
    BY HeardMissNothing
  <1> QED BY <1>1, InitIsHeard, NextIsHeard, PTL DEF Spec

LEMMA CauseIsGiven ==
    ASSUME NEW k, Cause(k)
    PROVE  LET call == courier.calls[k]
               Replies(c) == {e \in Mail(c) : e.kind = "Reply" /\ e.replyTo = call.ask}
           IN  \/ call.deadline <= now
               \/ courier'.box[call.source] = None \/ courier'.box[call.target] = None
               \/ call.room # None /\ courier'.rooms[call.room] = None
               \/ call.stage = "Replied" /\ Replies(courier') = {}
               \/ /\ call.stage # "Replied"
                  /\ \/ \E e \in Mail(courier') : e.kind = "Cancel" /\ e.replyTo = call.ask
                     \/ \E c \in Conns : /\ conn[c].at = "leaving"
                                         /\ conn[c].pending = [call |-> k, ask |-> call.ask]
                                         /\ conn[c].session = call.source
  BY Zenon DEF Cause, RepliesTo

\* If the identifiers of messages are new as above, no exchange is given up
\* silently: a call leaves the table, or is overwritten by another, only when its
\* time is over, when the mailbox of a party or its room has ended, when its reply
\* has left the mail, or when it was cancelled before the reply, by a cancel that
\* now lies in the mail or by the asker whose own wait is being given up.
THEOREM CallsEndOnlyForCause == Spec /\ [][IdsAreNew]_vars => CallsEndForCause
  <1>1. EInv /\ [Next]_vars =>
         [\A k \in OpenCalls(courier) :
            LET call == courier.calls[k]
                Replies(c) == {e \in Mail(c) : e.kind = "Reply" /\ e.replyTo = call.ask}
            IN courier'.calls[k] = None \/ courier'.calls[k].ask # call.ask =>
                 \/ call.deadline <= now
                 \/ courier'.box[call.source] = None \/ courier'.box[call.target] = None
                 \/ call.room # None /\ courier'.rooms[call.room] = None
                 \/ call.stage = "Replied" /\ Replies(courier') = {}
                 \/ /\ call.stage # "Replied"
                    /\ \/ \E e \in Mail(courier') : e.kind = "Cancel" /\ e.replyTo = call.ask
                       \/ \E c \in Conns : /\ conn[c].at = "leaving"
                                           /\ conn[c].pending = [call |-> k, ask |-> call.ask]
                                           /\ conn[c].session = call.source]_vars
    <2> SUFFICES ASSUME EInv, [Next]_vars, NEW k \in OpenCalls(courier),
                        courier'.calls[k] = None \/ courier'.calls[k].ask # courier.calls[k].ask
                 PROVE  Cause(k)
      BY CauseIsGiven
    <2>1. OneOperation
      BY NextHears
    <2> QED BY <2>1 DEF OneOperation
  <1> QED BY <1>1, InitIsExact, StepIsExact, PTL DEF Spec, CallsEndForCause

-----------------------------------------------------------------------------
(* A waiter that stops waiting with an answer has read it.                    *)

\* A ring leaves the others where they are.
LEMMA OthersStay ==
    ASSUME ConnectionsOK, NEW x \in Conns, NEW k, Notify(x, k) \/ Quietly(x, k),
           NEW c \in Conns, c # x
    PROVE  conn'[c].at = conn[c].at
  <1>1. Rung(c).at = conn[c].at
    BY DEF Rung, ConnectionsOK, Connection
  <1>2. conn \in [Conns -> Connection]
    BY DEF ConnectionsOK
  <1>3. CASE Notify(x, k)
    <2>1. conn'[c] = Rung(c)
      BY <1>3 DEF Notify
    <2> QED BY <1>1, <2>1
  <1>4. CASE Quietly(x, k)
    <2>1. conn'[c] = conn[c]
      BY <1>2, <1>4 DEF Quietly
    <2> QED BY <2>1
  <1> QED BY <1>3, <1>4

LEMMA ItselfMoves ==
    ASSUME ConnectionsOK, NEW c \in Conns, NEW k, Notify(c, k) \/ Quietly(c, k)
    PROVE  conn'[c] = k
  BY DEF Notify, Quietly, ConnectionsOK

LEMMA AllStay ==
    ASSUME ConnectionsOK, conn' = conn \/ conn' = [x \in Conns |-> Rung(x)], NEW c \in Conns
    PROVE  conn'[c].at = conn[c].at
  <1>1. Rung(c).at = conn[c].at
    BY DEF Rung, ConnectionsOK, Connection
  <1> QED BY <1>1

LEMMA LeavesForItsCall ==
    ASSUME ConnectionsOK, NEW c \in Conns, conn[c].pending # None
    PROVE  Left(c).at = "leaving"
  <1>1. PICK k : k = conn[c] /\ k \in Connection
    BY DEF ConnectionsOK
  <1>2. PICK half : half = [k EXCEPT !.at = "leaving"]
    OBVIOUS
  <1>3. PICK l : l = [half EXCEPT !.rung = FALSE]
    OBVIOUS
  <1>4. half \in Connection /\ half.at = "leaving"
    BY <1>1, <1>2 DEF Connection
  <1>5. l.at = "leaving"
    BY <1>3, <1>4 DEF Connection
  <1>6. Left(c) = l
    BY <1>1, <1>2, <1>3 DEF Left
  <1> QED BY <1>5, <1>6

\* The wait for a call ends at once only when the waiter takes mail.
LEMMA ArmedTakes ==
    ASSUME IInv, [Next]_vars, NEW c \in Conns, conn[c].at = "armed",
           conn[c].pending # None, conn'[c].at = "idle"
    PROVE  CheckTakes(c)
  <1>1. ConnectionsOK
    BY DEF IInv
  <1>2. ASSUME NEW s \in Sessions, SessionStep(s)
        PROVE  FALSE
    <2>1. conn' = conn \/ conn' = [x \in Conns |-> Rung(x)]
      BY <1>2 DEF SessionStep, Launch, SetDialogue, Forget, LaunchWorker, CancelSpawn,
                  EndedWorker, NotifyAll
    <2> QED BY <1>1, <2>1, AllStay
  <1>3. CASE Expire \/ Tick \/ UNCHANGED vars
    <2>1. conn' = conn \/ conn' = [x \in Conns |-> Rung(x)]
      BY <1>3 DEF Expire, ExpirerLooks, ExpirerRearms, ExpirerFires, Tick, vars
    <2> QED BY <1>1, <2>1, AllStay
  <1>4. ASSUME NEW x \in Conns, NEW k, x # c, Notify(x, k) \/ Quietly(x, k)
        PROVE  FALSE
    BY <1>1, <1>4, OthersStay
  <1>5. ASSUME NEW x \in Conns, Command(x)
        PROVE  FALSE
    <2>1. x # c
      BY <1>5, Zenon DEF Command, Admit, ReserveSpawn, PostCommand, Ask, ReceiveCommand, OpenRoom,
                  TransferRoom, CloseRoom, RoomAskCommand, RefusedLoudly, RefusedQuietly,
                  RefusedStale, May
    <2>2. \E k : Notify(x, k) \/ Quietly(x, k)
      <3>1. ASSUME NEW s \in Sessions, Admit(x, s) \/ ReserveSpawn(x, s)
            PROVE  \E k : Notify(x, k) \/ Quietly(x, k)
        BY <3>1 DEF Admit, ReserveSpawn
      <3>2. CASE Ask(x)
        BY <3>2 DEF Ask
      <3>3. CASE RoomAskCommand(x)
        BY <3>3 DEF RoomAskCommand
      <3>4. CASE ReceiveCommand(x)
        BY <3>4 DEF ReceiveCommand
      <3>5. CASE PostCommand(x) \/ OpenRoom(x) \/ TransferRoom(x) \/ CloseRoom(x)
        BY <3>5 DEF PostCommand, OpenRoom, TransferRoom, CloseRoom
      <3>6. CASE RefusedLoudly(x) \/ RefusedQuietly(x) \/ RefusedStale(x)
        BY <3>6 DEF RefusedLoudly, RefusedQuietly, RefusedStale
      <3> QED BY <1>5, <3>1, <3>2, <3>3, <3>4, <3>5, <3>6 DEF Command
    <2> QED BY <1>4, <2>1, <2>2
  <1>6. ASSUME NEW x \in Conns, Wait(x) \/ HangUp(x) \/ Abandon(x)
        PROVE  CheckTakes(c)
    <2>1. CASE x # c
      <3>1. CASE Abandon(x)
        <4>1. Notify(x, Closed) \/ Quietly(x, Closed)
          BY <3>1 DEF Abandon
        <4> QED BY <1>4, <2>1, <4>1
      <3>2. CASE Wait(x) \/ HangUp(x)
        <4>1. \E k : Notify(x, k) \/ Quietly(x, k)
          BY <3>2 DEF Wait, Check, CheckEnded, CheckTakes, CheckLost, CheckSleeps, RunsOut,
                      Wakes, TimerRings, HangUp, AfterSweep
        <4> QED BY <1>4, <2>1, <4>1
      <3> QED BY <1>6, <3>1, <3>2
    <2>2. CASE x = c
      <3>1. ~Wakes(c) /\ ~TimerRings(c) /\ ~Abandon(c)
        BY DEF Wakes, TimerRings, Abandon
      <3>2. CASE CheckEnded(c) \/ CheckLost(c) \/ RunsOut(c) \/ HangUp(c)
        <4>1. Notify(c, Left(c)) \/ Quietly(c, Left(c))
          BY <3>2 DEF CheckEnded, CheckLost, RunsOut, HangUp, AfterSweep
        <4> QED BY <1>1, <4>1, ItselfMoves, LeavesForItsCall
      <3>3. CASE CheckSleeps(c)
        <4>1. PICK k : /\ Notify(c, k) \/ Quietly(c, k)
                       /\ \/ k = [conn[c] EXCEPT !.at = "asleep"]
                          \/ k = [conn[c] EXCEPT !.at = "asleep", !.rung = TRUE]
          BY <3>3 DEF CheckSleeps, AfterSweep
        <4>2. conn'[c] = k
          BY <1>1, <4>1, ItselfMoves
        <4>3. k.at = "asleep"
          BY <1>1, <4>1 DEF ConnectionsOK, Connection
        <4> QED BY <4>2, <4>3
      <3> QED BY <1>6, <2>2, <3>1, <3>2, <3>3 DEF Wait, Check
    <2> QED BY <2>1, <2>2
  <1> QED BY <1>2, <1>3, <1>5, <1>6 DEF Next

\* What a waiter takes was there, and is there no more.
LEMMA TakesItsReply ==
    ASSUME EInv, NEW c \in Conns, CheckTakes(c), conn[c].pending # None
    PROVE  \E e \in Mail(courier) \ Mail(courier') :
              /\ e.kind = "Reply" /\ e.replyTo = conn[c].pending.ask
              /\ e.target = conn[c].session
  <1>1. PICK s, d : s = conn[c].session /\ d = Swept
    OBVIOUS
  <1>2. PICK i \in DOMAIN d.box[s].queue :
           /\ courier' = Receive(d, s, i)
           /\ Wanted(d.box[s].queue[i], conn[c].source, conn[c].pending)
    BY <1>1, TakesMail
  <1>3. s \in Sessions /\ d.box[s] # None
    BY <1>1, TakesMail
  <1>4. Sound(d) /\ Distinct(d.box[s].queue) /\ Mail(d) \subseteq Mail(courier)
    BY <1>1, <1>3, SweptIsExact DEF Exact, Coherent, Fits
  <1>5. PICK e : e = d.box[s].queue[i]
    OBVIOUS
  <1>6. e \in Mail(courier) \ Mail(courier') /\ e.target = s
    BY <1>2, <1>3, <1>4, <1>5, ReceiveFollows DEF OnlyReads
  <1>7. e.kind = "Reply" /\ e.replyTo = conn[c].pending.ask
    BY <1>2, <1>5 DEF Wanted
  <1> QED BY <1>1, <1>6, <1>7

\* If the identifiers of messages are new as above, a wait for a call that ends
\* without giving the call up has taken the reply to exactly its ask out of its
\* own mailbox, whatever other mail carries the same call identifier.
THEOREM WaitersReadOnlyTheirReply == Spec /\ [][IdsAreNew]_vars => WaitersReadTheirReply
  <1>1. EInv /\ [Next]_vars =>
         [\A c \in Conns :
            /\ conn[c].at = "armed" /\ conn[c].pending # None
            /\ conn'[c].at = "idle"
            => \E e \in Mail(courier) \ Mail(courier') :
                 /\ e.kind = "Reply" /\ e.replyTo = conn[c].pending.ask
                 /\ e.target = conn[c].session]_vars
    BY ArmedTakes, TakesItsReply DEF EInv
  <1> QED BY <1>1, InitIsExact, StepIsExact, PTL DEF Spec, WaitersReadTheirReply

-----------------------------------------------------------------------------
(* A message is handed over once.                                             *)

\* No message takes the identifier of one that the sweep before it has forgotten.
ForgottenIsNotReused ==
    \A m \in Waits(courier') \ Waits(courier) :
       courier.states[m] # None => Swept.states[m] # None

\* If that holds, a message that the courier knows and that waits in no mailbox,
\* be it read, withdrawn, expired or dropped, is in no mailbox after the step
\* either: only a send fills a mailbox, under an identifier not known until then.
THEOREM NoMessageReturns ==
    Spec /\ [][IdsAreNew]_vars /\ [][ForgottenIsNotReused]_vars =>
      [][{m \in Messages : courier.states[m] # None} \cap Waits(courier')
           \subseteq Waits(courier)]_vars
  <1>1. ASSUME EInv, [Next]_vars, ForgottenIsNotReused,
               NEW m \in Waits(courier'), courier.states[m] # None
        PROVE  m \in Waits(courier)
    <2>1. SUFFICES ASSUME m \notin Waits(courier) PROVE FALSE
      OBVIOUS
    <2>2. PICK a : (a = courier \/ a = Swept) /\ Follows(a, courier')
      BY <1>1, NextHears DEF OneOperation
    <2>3. PICK e \in Mail(courier') : e.id = m
      BY <1>1 DEF Waits
    <2>4. Mail(Swept) \subseteq Mail(courier) /\ e \notin Mail(courier)
      BY <1>1, <2>1, <2>3, SweptIsExact DEF Waits
    <2>5. a.states[m] = None
      BY <2>2, <2>3, <2>4 DEF Follows
    <2> QED BY <1>1, <2>1, <2>2, <2>5 DEF ForgottenIsNotReused
  <1>2. EInv /\ [Next]_vars /\ [ForgottenIsNotReused]_vars =>
         [{m \in Messages : courier.states[m] # None} \cap Waits(courier')
            \subseteq Waits(courier)]_vars
    BY <1>1
  <1> QED BY <1>2, InitIsExact, StepIsExact, PTL DEF Spec

-----------------------------------------------------------------------------
(* What is over stays as it is.  The courier may forget a message that is over  *)
(* and give it a final state again: the ask of a reply that still waits.  It is *)
(* then the same state, as long as that ask is known as replied or not at all.  *)

RepliesSettled == \A e \in Mail(courier) :
                     e.kind = "Reply" => courier.states[e.replyTo] \in {None, "Replied"}

HInv == EInv /\ RepliesSettled

\* The ask of a reply that waits can only end as replied.
LEMMA AskOfReply ==
    ASSUME NEW c, Exact(c), NEW e \in Mail(c), e.kind = "Reply", NEW outcome,
           MayEnd(c, e.replyTo, outcome)
    PROVE  outcome = "Replied"
  <1>1. PICK m : m = e.replyTo
    OBVIOUS
  <1>2. Coherent(c, {}) /\ CallsDiffer(c)
    BY ExactIsSound DEF Coherent
  <1>3. m \notin Waits(c)
    <2>1. \A x \in Waits(c) : Unanswered(c, x)
      BY WaitingIsUnanswered
    <2> QED BY <1>1, <2>1 DEF Unanswered
  <1>4. ASSUME NEW k \in OpenCalls(c), c.calls[k].ask = m
        PROVE  c.calls[k].stage = "Replied"
    <2>1. k \in OpenCalls(c) \ {}
      OBVIOUS
    <2>2. e.call = k /\ Carries(c, e, "Replied")
      BY <1>1, <1>2, <1>4, <2>1, ReplyCarries
    <2> QED BY <2>2 DEF Carries
  <1> QED BY <1>1, <1>3, <1>4 DEF MayEnd

\* What is over can only be the ask of a reply that waits.
LEMMA OverMayEnd ==
    ASSUME NEW c, Exact(c), NEW m \in Ended(c)
    PROVE  /\ m \notin Waits(c) /\ m \notin Asks(c, {}) /\ c.states[m] # None
           /\ \A outcome : MayEnd(c, m, outcome) =>
                 outcome = "Replied" /\ RepliesTo(c, m) # {}
  <1>1. Coherent(c, {})
    BY ExactIsSound
  <1>2. c.states[m] # None /\ m \notin Remaining(c) /\ Waits(c) \cup Asks(c, {}) \subseteq Remaining(c)
    BY <1>1 DEF Coherent, Remembers, Remaining
  <1>3. \A k \in OpenCalls(c) : c.calls[k].ask \in Asks(c, {})
    BY DEF Asks
  <1> QED BY <1>2, <1>3 DEF MayEnd

LEMMA MayEndStays ==
    ASSUME NEW c, NEW d, Shrinks(c, d), NEW m, NEW outcome, MayEnd(d, m, outcome)
    PROVE  MayEnd(c, m, outcome)
  <1>1. Mail(d) \subseteq Mail(c) /\ \A k \in OpenCalls(d) : k \in OpenCalls(c) /\ d.calls[k] = c.calls[k]
    BY DEF Shrinks, OpenCalls
  <1>2. Waits(d) \subseteq Waits(c) /\ RepliesTo(d, m) \subseteq RepliesTo(c, m)
    BY <1>1 DEF Waits, RepliesTo
  <1> QED BY <1>1, <1>2 DEF MayEnd

\* The sweep gives a final state to what may still end, and to the asks of calls.
LEMMA SweptConcludes ==
    ASSUME EInv, NEW m \in Messages
    PROVE  \/ Swept.states[m] \in {None, courier.states[m]}
           \/ MayEnd(courier, m, Swept.states[m])
           \/ m \in Ended(Swept) /\ m \in Asks(courier, {})
  <1>1. Exact(courier) /\ Sound(courier) /\ courier \in CourierType
    BY ExactIsSound DEF EInv
  <1>2. PICK d : d = Sweep(courier, now)
    OBVIOUS
  <1>3. PICK F : F = Ends(courier) \cup {<<x, "Expired">> : x \in Asks(courier, {})}
    OBVIOUS
  <1>4. Fated(courier, F)
    <2>1. Fated(courier, Ends(courier))
      BY <1>1, EndsAreFated
    <2> QED BY <1>3, <2>1 DEF Fated
  <1>5. \A k \in Calls : courier.calls[k] # None => <<courier.calls[k].ask, "Expired">> \in F
    BY <1>3 DEF Asks, OpenCalls
  <1>6. Concludes(courier, d, F)
    BY <1>1, <1>2, <1>4, <1>5, SweepConcludes
  <1>7. \/ d.states[m] \in {None, courier.states[m]}
        \/ m \in Ended(d) /\ <<m, d.states[m]>> \in F
    BY <1>6 DEF Concludes
  <1>8. ASSUME <<m, d.states[m]>> \in Ends(courier)
        PROVE  MayEnd(courier, m, d.states[m])
    BY <1>8 DEF Ends
  <1> QED BY <1>2, <1>3, <1>7, <1>8 DEF Swept

\* The ask of a reply that the sweep has left is not given another state by it.
LEMMA SweptStaysReplied ==
    ASSUME HInv, NEW e \in Mail(Swept), e.kind = "Reply"
    PROVE  Swept.states[e.replyTo] \in {None, "Replied"}
  <1>1. PICK m : m = e.replyTo
    OBVIOUS
  <1>2. /\ Exact(courier) /\ e \in Mail(courier) /\ ~(e.deadline <= now)
        /\ Exact(Swept) /\ Spared(courier, Swept, now) /\ courier.states[m] \in {None, "Replied"}
    BY <1>1, SweptIsExact DEF HInv, EInv, RepliesSettled
  <1>3. Coherent(courier, {}) /\ Coherent(Swept, {}) /\ courier \in CourierType
    BY <1>2, ExactIsSound
  <1>4. m \in Messages /\ e.deadline \in Nat /\ now \in Nat
    BY <1>1, <1>2, <1>3, CoherentMail, GateAssumption DEF Maybe, HInv, EInv, IInv, Time
  <1>5. CASE MayEnd(courier, m, Swept.states[m])
    BY <1>1, <1>2, <1>5, AskOfReply
  <1>6. CASE m \in Ended(Swept) /\ m \in Asks(courier, {})
    <2>1. PICK k \in OpenCalls(courier) \ {} : courier.calls[k].ask = m
      BY <1>6 DEF Asks
    <2>2. e.call = k /\ Carries(courier, e, "Replied")
      BY <1>1, <1>2, <1>3, <2>1, ReplyCarries
    <2>3. e.deadline <= courier.calls[k].deadline /\ k \in Calls /\ courier.calls[k] # None
      BY <2>1, <2>2 DEF Carries, OpenCalls
    <2>4. courier.calls[k].deadline \in Nat
      BY <1>3, <2>3, CallFields
    <2>5. ~(courier.calls[k].deadline <= now)
      BY <1>2, <1>4, <2>3, <2>4
    <2>6. e \in RepliesTo(Swept, m)
      BY <1>1 DEF RepliesTo
    <2>7. Swept.calls[k] = courier.calls[k]
      BY <1>2, <2>1, <2>3, <2>5, <2>6 DEF Spared
    <2>8. m \in Asks(Swept, {})
      BY <2>1, <2>3, <2>7 DEF Asks, OpenCalls
    <2> QED BY <1>2, <1>6, <2>8, OverMayEnd
  <1> QED BY <1>1, <1>2, <1>4, <1>5, <1>6, SweptConcludes DEF HInv

LEMMA StepSettlesReplies ==
    ASSUME HInv, [Next]_vars, EInv'
    PROVE  RepliesSettled'
  <1>1. PICK a : (a = courier \/ a = Swept) /\ Follows(a, courier') /\ Finishes(a, courier')
    BY NextHears DEF HInv, OneOperation
  <1>2. Exact(a) /\ Exact(courier')
    BY <1>1, SweptIsExact DEF HInv, EInv
  <1>3. SUFFICES ASSUME NEW e \in Mail(courier'), e.kind = "Reply"
                 PROVE  courier'.states[e.replyTo] \in {None, "Replied"}
    BY DEF RepliesSettled
  <1>4. PICK m : m = e.replyTo
    OBVIOUS
  <1>5. m \in Messages
    <2>1. Coherent(courier', {})
      BY <1>2, ExactIsSound
    <2> QED BY <1>3, <1>4, <2>1, CoherentMail DEF Maybe
  <1>6. CASE e \notin Mail(a)
    BY <1>1, <1>3, <1>6 DEF Finishes
  <1>7. CASE e \in Mail(a)
    <2>1. a.states[m] \in {None, "Replied"}
      BY <1>1, <1>3, <1>4, <1>7, SweptStaysReplied DEF HInv, RepliesSettled
    <2>2. m \notin Waits(courier')
      <3>1. \A x \in Waits(courier') : Unanswered(courier', x)
        BY <1>2, WaitingIsUnanswered
      <3> QED BY <1>3, <1>4, <3>1 DEF Unanswered
    <2>3. MayEnd(a, m, courier'.states[m]) => courier'.states[m] = "Replied"
      BY <1>2, <1>3, <1>4, <1>7, AskOfReply
    <2> QED BY <1>1, <1>4, <1>5, <2>1, <2>2, <2>3 DEF Finishes
  <1> QED BY <1>6, <1>7

\* A message that is over before and after the step has the state it had.
LEMMA StepKeepsFinal ==
    ASSUME HInv, [Next]_vars, EInv', NEW m \in Ended(courier), m \in Ended(courier')
    PROVE  courier'.states[m] = courier.states[m]
  <1>1. PICK a : (a = courier \/ a = Swept) /\ Finishes(a, courier')
    BY NextHears DEF HInv, OneOperation
  <1>2. /\ Exact(courier) /\ Exact(courier') /\ courier \in CourierType
        /\ Shrinks(courier, a)
    BY <1>1, SweptIsExact, ExactIsSound DEF HInv, EInv, Shrinks
  <1>3. /\ m \notin Asks(courier, {}) /\ courier.states[m] # None
        /\ m \notin Waits(courier') /\ courier'.states[m] # None
    BY <1>2, OverMayEnd
  <1>4. m \in Messages
    <2>1. courier.retired \in Seq(Messages)
      BY <1>2, CourierFields
    <2>2. \A i \in DOMAIN courier.retired : courier.retired[i] \in Messages
      BY <2>1, ElementOfSeq, LenProperties
    <2> QED BY <2>2 DEF Ended
  <1>5. ASSUME NEW outcome, MayEnd(courier, m, outcome)
        PROVE  outcome = courier.states[m]
    <2>1. outcome = "Replied" /\ RepliesTo(courier, m) # {}
      BY <1>2, <1>5, OverMayEnd
    <2>2. PICK e \in Mail(courier) : e.kind = "Reply" /\ e.replyTo = m
      BY <2>1 DEF RepliesTo
    <2>3. courier.states[m] \in {None, "Replied"}
      BY <2>2 DEF HInv, RepliesSettled
    <2> QED BY <1>3, <2>1, <2>3
  <1>6. CASE MayEnd(a, m, courier'.states[m])
    BY <1>2, <1>5, <1>6, MayEndStays
  <1>7. CASE courier'.states[m] = a.states[m]
    <2>1. \/ a.states[m] \in {None, courier.states[m]}
          \/ MayEnd(courier, m, a.states[m])
          \/ m \in Asks(courier, {})
      BY <1>1, <1>4, SweptConcludes DEF HInv
    <2> QED BY <1>3, <1>5, <1>7, <2>1
  <1> QED BY <1>1, <1>3, <1>4, <1>6, <1>7 DEF Finishes

LEMMA InitIsSettled == Init => HInv
  <1>1. Init => Mail(courier) = {}
    BY DEF Init, NewCourier, Mail
  <1> QED BY <1>1, InitIsExact DEF HInv, RepliesSettled

LEMMA StepIsSettled == HInv /\ [Next]_vars /\ [IdsAreNew]_vars => HInv'
  <1> SUFFICES ASSUME HInv, [Next]_vars, [IdsAreNew]_vars PROVE HInv'
    OBVIOUS
  <1>1. EInv'
    BY StepIsExact DEF HInv
  <1>2. RepliesSettled'
    BY <1>1, StepSettlesReplies
  <1> QED BY <1>1, <1>2 DEF HInv

\* If the identifiers of messages are new as above, the state in which a message
\* is over stays, as long as it is remembered: nothing that is read, expired,
\* withdrawn or dropped afterwards gives it another, even where a step forgets it
\* and has to note its end again.
THEOREM FinalStatesStay ==
    Spec /\ [][IdsAreNew]_vars =>
      [][\A m \in Ended(courier) \cap Ended(courier') :
            courier'.states[m] = courier.states[m]]_vars
  <1>1. HInv /\ HInv' /\ [Next]_vars =>
         [\A m \in Ended(courier) \cap Ended(courier') :
            courier'.states[m] = courier.states[m]]_vars
    BY StepKeepsFinal DEF HInv
  <1> QED BY <1>1, InitIsSettled, StepIsSettled, PTL DEF Spec

\* If the identifiers of messages are new as above, the handoff is exact: a message
\* that left its mailbox is in none again, the state it was given in the end
\* stays, and a waiter reads a reply only to the ask it waits for.
THEOREM HandoffStaysExact ==
    Spec /\ [][IdsAreNew]_vars /\ [][ForgottenIsNotReused]_vars => HandoffIsExact
  <1>1. Spec /\ [][IdsAreNew]_vars /\ [][ForgottenIsNotReused]_vars => HandedOverOnce
    BY NoMessageReturns, FinalStatesStay, PTL DEF HandedOverOnce
  <1> QED BY <1>1, WaitersReadOnlyTheirReply, PTL DEF HandoffIsExact
=============================================================================
