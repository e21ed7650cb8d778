------------------------------ MODULE CourierGate ------------------------------
(***************************************************************************)
(* The one lock around the courier of a Runtime                            *)
(* (crates/runtrol-daemon/src/courier_gate): the managed sessions and the  *)
(* activations of their dialogue, the connections that send, wait and hang *)
(* up, and the task that expires what nobody read.                         *)
(*                                                                         *)
(* An action is what happens between taking the lock and letting it go.    *)
(* A connection carries one command.  A wait sleeps outside the lock and   *)
(* is rung by notify_waiters; it registers for the ring before it looks,   *)
(* so a waiter here is registered (armed) from the start of each turn of   *)
(* its loop.  A wait may run out at any time: timeouts run on another      *)
(* clock than deadlines and are the caller's choice.                       *)
(*                                                                         *)
(* Left out: the proof that a connection comes from inside the session's   *)
(* process tree (admission.rs), the slots that bound the connections, and  *)
(* the page of List.                                                       *)
(***************************************************************************)
EXTENDS Courier

CONSTANTS Conns,            \* connections that may be open at once
          Verbs,            \* the requests the connections make
          Sizes,            \* lengths of the bodies they send
          MaxTime,          \* bound: the last moment of the clock
          MaxActivation,    \* bound: u64::MAX in the code
          MaxWorkers,       \* MAX_WORKERS_PER_LEAD
          Skews             \* may the wall clock be set back

ASSUME GateAssumption ==
    /\ IsFiniteSet(Conns) /\ None \notin Conns
    /\ Verbs \subseteq {"tell", "ask", "receive", "answer", "cancel", "room",
                        "spawn"}
    /\ Sizes \subseteq Nat
    /\ MaxTime \in Nat /\ MaxActivation \in Nat /\ MaxWorkers \in Nat
    /\ Skews \in BOOLEAN

VARIABLES now,        \* the wall clock
          courier,    \* GateState.courier
          gate,       \* GateState.sessions: a dialogue and its activation
          worker,     \* GateState.workers: the lead a worker was spawned by
          conn,       \* per connection: its session, its wait, its pending call
          expirer     \* the expiry task: asleep until a deadline, or looking

vars == <<now, courier, gate, worker, conn, expirer>>

Time == 0 .. MaxTime
Registered == [phase : {"unborn", "up", "gone"}, activation : Nat,
               enabled : BOOLEAN]
Worker == [lead : Sessions, activation : Nat, phase : {"Pending", "Live"}]

ASSUME WorkerAssumption == None \notin Worker

\* pending is the call the wait is for: its cleanup belongs to the connection.
Connection == [at : {"idle", "admitted", "armed", "asleep", "leaving"},
               session : Maybe(Sessions), activation : Nat,
               source : Maybe(Sessions), pending : Maybe(CallRef),
               due : Nat, rung : BOOLEAN]
Expirer == [at : {"looking", "asleep"}, until : Maybe(Nat), rung : BOOLEAN]

Closed == [at |-> "idle", session |-> None, activation |-> 0, source |-> None,
           pending |-> None, due |-> 0, rung |-> FALSE]

Active(s, a) == gate[s].phase = "up" /\ gate[s].enabled /\ gate[s].activation = a

\* A ring reaches those who are registered and leaves nothing for the others.
Rung(c) == IF conn[c].at \in {"armed", "asleep"}
             THEN [conn[c] EXCEPT !.rung = TRUE] ELSE conn[c]

RingExpirer == expirer' = [expirer EXCEPT !.rung = expirer.at = "asleep"]

\* notify_waiters, with the connection that rings becoming k.
Notify(c, k) ==
    /\ conn' = [x \in Conns |-> IF x = c THEN k ELSE Rung(x)]
    /\ RingExpirer

NotifyAll == /\ conn' = [x \in Conns |-> Rung(x)]
             /\ RingExpirer

Quietly(c, k) == conn' = [conn EXCEPT ![c] = k] /\ UNCHANGED expirer

Swept == Sweep(courier, now)
SweptSomething == Mail(Swept) # Mail(courier) \/ OpenCalls(Swept) # OpenCalls(courier)

Init ==
    /\ now = 0
    /\ courier = NewCourier
    /\ gate = [s \in Sessions |-> [phase |-> "unborn", activation |-> 0,
                                   enabled |-> FALSE]]
    /\ worker = [s \in Sessions |-> None]
    /\ conn = [c \in Conns |-> Closed]
    /\ expirer = [at |-> "looking", until |-> None, rung |-> FALSE]

-----------------------------------------------------------------------------
(* Sessions and their dialogue.                                            *)
Launch(s) ==
    /\ gate[s].phase = "unborn" /\ worker[s] = None
    /\ gate' = [gate EXCEPT ![s].phase = "up"]
    /\ NotifyAll
    /\ UNCHANGED <<now, courier, worker>>

SetDialogue(s) ==
    /\ gate[s].phase = "up" /\ gate[s].activation < MaxActivation
    /\ gate' = [gate EXCEPT ![s].activation = @ + 1, ![s].enabled = ~@]
    /\ courier' = IF gate[s].enabled THEN SessionEnded(courier, s)
                                     ELSE SessionStarted(courier, s)
    /\ NotifyAll
    /\ UNCHANGED <<now, worker>>

Forget(s) ==
    /\ gate[s].phase = "up"
    /\ gate' = [gate EXCEPT ![s] = [phase |-> "gone", activation |-> 0,
                                    enabled |-> FALSE]]
    /\ courier' = SessionEnded(courier, s)
    /\ NotifyAll
    /\ UNCHANGED <<now, worker>>

(* A worker is reserved before its process exists, with its first task      *)
(* waiting in a closed mailbox.                                            *)
WorkersOf(lead) == {w \in Sessions : worker[w] # None /\ worker[w].lead = lead}

InitialMail(lead, w) ==
    {[id |-> m, call |-> k, kind |-> "Tell", source |-> lead, target |-> w,
      replyTo |-> None, deadline |-> d, size |-> n, room |-> None] :
        m \in Messages, k \in Calls, d \in Time, n \in Sizes}

\* Mutant: reserving a worker's mailbox does not ring the expiry task.
ReserveSpawnSilently(c, w) ==
    LET k == conn[c] IN
    /\ "spawn" \in Verbs
    /\ k.at = "admitted" /\ Active(k.session, k.activation)
    /\ worker[k.session] = None
    /\ Cardinality(WorkersOf(k.session)) < MaxWorkers
    /\ gate[w].phase = "unborn" /\ worker[w] = None
    /\ \/ courier' = courier
       \/ \E e \in InitialMail(k.session, w) :
             /\ AcceptsInitial(courier, e, now)
             /\ courier' = ReserveInitial(courier, e)
    /\ worker' = [worker EXCEPT ![w] = [lead |-> k.session, phase |-> "Pending",
                                        activation |-> k.activation]]
    /\ Quietly(c, Closed)
    /\ UNCHANGED <<now, gate>>

ReserveSpawn(c, w) ==
    LET k == conn[c] IN
    /\ "spawn" \in Verbs
    /\ k.at = "admitted" /\ Active(k.session, k.activation)
    /\ worker[k.session] = None
    /\ Cardinality(WorkersOf(k.session)) < MaxWorkers
    /\ gate[w].phase = "unborn" /\ worker[w] = None
    /\ \/ courier' = courier
       \/ \E e \in InitialMail(k.session, w) :
             /\ AcceptsInitial(courier, e, now)
             /\ courier' = ReserveInitial(courier, e)
    /\ worker' = [worker EXCEPT ![w] = [lead |-> k.session, phase |-> "Pending",
                                        activation |-> k.activation]]
    /\ Notify(c, Closed)
    /\ UNCHANGED <<now, gate>>

\* A prepared child is registered even when its lead lost the right to it.
LaunchWorker(w) ==
    /\ worker[w] # None /\ worker[w].phase = "Pending"
    /\ worker' = [worker EXCEPT ![w].phase = "Live"]
    /\ gate' = [gate EXCEPT ![w].phase = "up"]
    /\ NotifyAll
    /\ UNCHANGED <<now, courier>>

\* Mutant: a cancelled spawn leaves the reserved mailbox behind.
CancelSpawnKeepingMail(w) ==
    /\ worker[w] # None /\ worker[w].phase = "Pending"
    /\ worker' = [worker EXCEPT ![w] = None]
    /\ gate' = [gate EXCEPT ![w].phase = "gone"]
    /\ NotifyAll
    /\ UNCHANGED <<now, courier>>

\* The identifier of a cancelled worker is not used again.
CancelSpawn(w) ==
    /\ worker[w] # None /\ worker[w].phase = "Pending"
    /\ worker' = [worker EXCEPT ![w] = None]
    /\ gate' = [gate EXCEPT ![w].phase = "gone"]
    /\ courier' = SessionEnded(courier, w)
    /\ NotifyAll
    /\ UNCHANGED now

EndedWorker(w) ==
    /\ worker[w] # None /\ worker[w].phase = "Live" /\ gate[w].phase = "gone"
    /\ worker' = [worker EXCEPT ![w] = None]
    /\ UNCHANGED <<now, courier, gate, conn, expirer>>

-----------------------------------------------------------------------------
(* Commands of a connection.  One admitted while the dialogue was off is    *)
(* refused everything, so only the others are followed.                    *)
Admit(c, s) ==
    /\ conn[c].at = "idle"
    /\ gate[s].phase = "up" /\ gate[s].enabled
    /\ Quietly(c, [Closed EXCEPT !.at = "admitted", !.session = s,
                                 !.activation = gate[s].activation])
    /\ UNCHANGED <<now, courier, gate, worker>>

May(c, verb) == /\ verb \in Verbs
                /\ conn[c].at = "admitted"
                /\ Active(conn[c].session, conn[c].activation)

Later == {d \in Time : d > now}

Posted(s, kind) ==
    {[id |-> m, call |-> k, kind |-> kind, source |-> s, target |-> t,
      replyTo |-> None, deadline |-> d, size |-> n, room |-> None] :
        m \in Messages, k \in Calls, t \in Sessions, d \in Later, n \in Sizes}

\* answer() and a reply envelope: only the envelope chooses a deadline.
Answers(s) ==
    {[id |-> m, call |-> k, kind |-> "Reply", source |-> s,
      target |-> courier.calls[k].source, replyTo |-> courier.calls[k].ask,
      deadline |-> d, size |-> n, room |-> None] :
        m \in Messages, d \in Later, n \in Sizes,
        k \in {x \in OpenCalls(courier) : courier.calls[x].target = s}}

\* cancel_call(), which sends no body and the deadline of the call, and a
\* cancel envelope, which brings its own.
Cancels(s) ==
    {[id |-> m, call |-> k, kind |-> "Cancel", source |-> s,
      target |-> courier.calls[k].target, replyTo |-> courier.calls[k].ask,
      deadline |-> d, size |-> n, room |-> None] :
        m \in Messages, d \in Later, n \in Sizes \cup {0},
        k \in {x \in OpenCalls(courier) : courier.calls[x].source = s}}

\* An ask sent without a wait has no connection to clean it up.
PostCommand(c) ==
    LET s == conn[c].session IN
    /\ \E e \in (IF May(c, "tell") THEN Posted(s, "Tell") ELSE {})
                \cup (IF May(c, "ask") THEN Posted(s, "Ask") ELSE {})
                \cup (IF May(c, "answer") THEN Answers(s) ELSE {})
                \cup (IF May(c, "cancel") THEN Cancels(s) ELSE {}) :
          Accepts(Swept, e, now) /\ courier' = Send(Swept, e)
    /\ Notify(c, Closed)
    /\ UNCHANGED <<now, gate, worker>>

Waiting(c, source, ref, due) ==
    [conn[c] EXCEPT !.at = "armed", !.source = source, !.pending = ref, !.due = due]

Ask(c) ==
    /\ May(c, "ask")
    /\ \E e \in Posted(conn[c].session, "Ask") :
          /\ Accepts(Swept, e, now)
          /\ courier' = Send(Swept, e)
          /\ Notify(c, Waiting(c, e.target, [call |-> e.call, ask |-> e.id],
                               e.deadline))
    /\ UNCHANGED <<now, gate, worker>>

\* A wait for any mail, or for the reply to one call of the session's own.
ReceiveCommand(c) ==
    /\ May(c, "receive")
    /\ \/ Quietly(c, Waiting(c, None, None, 0))
       \/ \E k \in OpenCalls(courier) :
             Quietly(c, Waiting(c, None, [call |-> k, ask |-> courier.calls[k].ask],
                                courier.calls[k].deadline))
    /\ UNCHANGED <<now, courier, gate, worker>>

\* A refused Send, Reply or Cancel has still swept, and rings.
RefusedLoudly(c) ==
    /\ conn[c].at = "admitted" /\ Active(conn[c].session, conn[c].activation)
    /\ courier' = Swept
    /\ Notify(c, Closed)
    /\ UNCHANGED <<now, gate, worker>>

\* A List, a refused Ask and a refused round sweep and ring nobody.
RefusedQuietly(c) ==
    /\ conn[c].at = "admitted" /\ Active(conn[c].session, conn[c].activation)
    /\ courier' = Swept
    /\ Quietly(c, Closed)
    /\ UNCHANGED <<now, gate, worker>>

\* The activation ended between the hello and the command.
RefusedStale(c) ==
    /\ conn[c].at = "admitted" /\ ~Active(conn[c].session, conn[c].activation)
    /\ Quietly(c, Closed)
    /\ UNCHANGED <<now, courier, gate, worker>>

(* Rooms.  The identifier of a room that ended comes back here: nothing     *)
(* else carries it any more.                                               *)
OpenRoom(c) ==
    /\ May(c, "room")
    /\ \E r \in Rooms, members \in SUBSET Sessions, d \in Later :
          /\ Swept.rooms[r] = None
          /\ AcceptsRoom(Swept, members, conn[c].session, d, now)
          /\ courier' = RoomOpen(Swept, r, members, conn[c].session, d)
    /\ Notify(c, Closed)
    /\ UNCHANGED <<now, gate, worker>>

TransferRoom(c) ==
    /\ May(c, "room")
    /\ \E r \in Rooms, s \in Sessions :
          /\ AcceptsTransfer(Swept, conn[c].session, r, s, now)
          /\ courier' = RoomTransfer(Swept, r, s)
    /\ Notify(c, Closed)
    /\ UNCHANGED <<now, gate, worker>>

CloseRoom(c) ==
    /\ May(c, "room")
    /\ \E r \in Rooms :
          /\ AcceptsClose(Swept, conn[c].session, r)
          /\ courier' = RoomClose(Swept, r)
    /\ Notify(c, Closed)
    /\ UNCHANGED <<now, gate, worker>>

\* The call identifier of a round is new: no mail carries it.
RoomAskCommand(c) ==
    /\ May(c, "room")
    /\ \E r \in OpenRooms(courier), e \in Posted(conn[c].session, "Ask") :
          /\ e.call \notin {x.call : x \in Mail(courier)}
          /\ e.deadline = courier.rooms[r].deadline
          /\ AcceptsRound(Swept, r, e, now)
          /\ courier' = RoomAsk(Swept, r, e)
          /\ Notify(c, Waiting(c, e.target, [call |-> e.call, ask |-> e.id],
                               e.deadline))
    /\ UNCHANGED <<now, gate, worker>>

-----------------------------------------------------------------------------
(* A turn of the wait.                                                     *)

\* A wait that ends empty-handed gives up the call it waited for.
Left(c) == IF conn[c].pending = None THEN Closed
           ELSE [conn[c] EXCEPT !.at = "leaving", !.rung = FALSE]

CheckEnded(c) ==
    /\ conn[c].at = "armed" /\ ~Active(conn[c].session, conn[c].activation)
    /\ Quietly(c, Left(c))
    /\ UNCHANGED <<now, courier, gate, worker>>

\* The sweep of a turn rings everyone registered, the waiter itself included.
AfterSweep(c, k, itself) ==
    IF SweptSomething THEN Notify(c, itself) ELSE Quietly(c, k)

Found(c) == Matching(Swept, conn[c].session, conn[c].source, conn[c].pending)
Lost(c) == /\ conn[c].pending # None
           /\ ~OwnsCall(Swept, conn[c].session, conn[c].pending)

CheckTakes(c) ==
    /\ conn[c].at = "armed" /\ Active(conn[c].session, conn[c].activation)
    /\ Found(c) # {}
    /\ courier' = Receive(Swept, conn[c].session, Min(Found(c)))
    /\ Notify(c, Closed)
    /\ UNCHANGED <<now, gate, worker>>

CheckLost(c) ==
    /\ conn[c].at = "armed" /\ Active(conn[c].session, conn[c].activation)
    /\ Found(c) = {} /\ Lost(c)
    /\ courier' = Swept
    /\ AfterSweep(c, Left(c), Left(c))
    /\ UNCHANGED <<now, gate, worker>>

\* Mutant: the waiter registers after it has looked.
CheckSleepsDeaf(c) ==
    /\ conn[c].at = "armed" /\ Active(conn[c].session, conn[c].activation)
    /\ Found(c) = {} /\ ~Lost(c) /\ ~conn[c].rung
    /\ Quietly(c, [conn[c] EXCEPT !.at = "asleep"])
    /\ UNCHANGED <<now, courier, gate, worker>>

CheckSleeps(c) ==
    /\ conn[c].at = "armed" /\ Active(conn[c].session, conn[c].activation)
    /\ Found(c) = {} /\ ~Lost(c)
    /\ courier' = Swept
    /\ AfterSweep(c, [conn[c] EXCEPT !.at = "asleep"],
                     [conn[c] EXCEPT !.at = "asleep", !.rung = TRUE])
    /\ UNCHANGED <<now, gate, worker>>

RunsOut(c) ==
    /\ conn[c].at = "armed" /\ Active(conn[c].session, conn[c].activation)
    /\ courier' = Swept
    /\ AfterSweep(c, Left(c), Left(c))
    /\ UNCHANGED <<now, gate, worker>>

Wakes(c) ==
    /\ conn[c].at = "asleep" /\ conn[c].rung
    /\ Quietly(c, [conn[c] EXCEPT !.at = "armed", !.rung = FALSE])
    /\ UNCHANGED <<now, courier, gate, worker>>

TimerRings(c) ==
    /\ conn[c].at = "asleep"
    /\ Quietly(c, [conn[c] EXCEPT !.at = "armed", !.rung = FALSE])
    /\ UNCHANGED <<now, courier, gate, worker>>

HangUp(c) ==
    /\ conn[c].at \in {"admitted", "armed", "asleep"}
    /\ Quietly(c, Left(c))
    /\ UNCHANGED <<now, courier, gate, worker>>

Abandon(c) ==
    LET k == conn[c] IN
    /\ k.at = "leaving"
    /\ IF Active(k.session, k.activation)
         THEN /\ courier' = AbandonCall(Swept, k.session, k.pending)
              /\ Notify(c, Closed)
         ELSE Quietly(c, Closed) /\ UNCHANGED courier
    /\ UNCHANGED <<now, gate, worker>>

-----------------------------------------------------------------------------
(* The expiry task, and the clock.                                         *)
ExpirerLooks ==
    /\ expirer.at = "looking"
    /\ expirer' = [at |-> "asleep", until |-> NextDeadline(courier), rung |-> FALSE]
    /\ UNCHANGED <<now, courier, gate, worker, conn>>

ExpirerRearms ==
    /\ expirer.at = "asleep" /\ expirer.rung
    /\ expirer' = [at |-> "looking", until |-> None, rung |-> FALSE]
    /\ UNCHANGED <<now, courier, gate, worker, conn>>

ExpirerFires ==
    /\ expirer.at = "asleep" /\ expirer.until # None
    /\ expirer.until <= now \/ Skews
    /\ courier' = Swept
    /\ conn' = [x \in Conns |-> Rung(x)]
    /\ expirer' = [at |-> "looking", until |-> None, rung |-> FALSE]
    /\ UNCHANGED <<now, gate, worker>>

Tick ==
    /\ now' \in Time /\ now' # now
    /\ Skews \/ now' = now + 1
    /\ UNCHANGED <<courier, gate, worker, conn, expirer>>

SessionStep(s) ==
    \/ Launch(s) \/ SetDialogue(s) \/ Forget(s)
    \/ LaunchWorker(s) \/ CancelSpawn(s) \/ EndedWorker(s)

Command(c) ==
    \/ \E s \in Sessions : Admit(c, s) \/ ReserveSpawn(c, s)
    \/ PostCommand(c) \/ Ask(c) \/ ReceiveCommand(c)
    \/ OpenRoom(c) \/ TransferRoom(c) \/ CloseRoom(c) \/ RoomAskCommand(c)
    \/ RefusedLoudly(c) \/ RefusedQuietly(c) \/ RefusedStale(c)

Check(c) == CheckEnded(c) \/ CheckTakes(c) \/ CheckLost(c) \/ CheckSleeps(c)
Wait(c) == Check(c) \/ RunsOut(c) \/ Wakes(c) \/ TimerRings(c)
Expire == ExpirerLooks \/ ExpirerRearms \/ ExpirerFires

Next == \/ \E s \in Sessions : SessionStep(s)
        \/ \E c \in Conns : Command(c) \/ Wait(c) \/ HangUp(c) \/ Abandon(c)
        \/ Expire
        \/ Tick

Spec == Init /\ [][Next]_vars

(* A connection's task and the expiry task run on; the clock passes; no     *)
(* wait is assumed to run out and nobody is assumed to send or to hang up.  *)
(* Each step below leaves the state that enables it, so weak fairness of it *)
(* says that this state does not last: of Check and Wakes, of Abandon, of   *)
(* the three steps of the expiry task, and of Tick.                         *)
FairSpec ==
    /\ Spec
    /\ \A c \in Conns : []<>(conn[c].at # "armed")
    /\ \A c \in Conns : []<>~(conn[c].at = "asleep" /\ conn[c].rung)
    /\ \A c \in Conns : []<>(conn[c].at # "leaving")
    /\ []<>(expirer.at # "looking")
    /\ []<>~(expirer.at = "asleep" /\ expirer.rung)
    /\ []<>~(expirer.at = "asleep" /\ expirer.until # None /\ expirer.until <= now)
    /\ <>[](now = MaxTime)

-----------------------------------------------------------------------------
(* Properties.                                                             *)

\* Every variable has its type, and nothing is in two states at once.
TypeOK ==
    /\ now \in Time
    /\ courier \in CourierType
    /\ gate \in [Sessions -> Registered]
    /\ worker \in [Sessions -> Maybe(Worker)]
    /\ conn \in [Conns -> Connection]
    /\ expirer \in Expirer

Box(s) == IF courier.box[s] = None THEN <<>> ELSE courier.box[s].queue

\* The bytes charged to a mailbox and to the Runtime are those of the mail that
\* waits, after any sends, withdrawals, expiries and endings, and stay within
\* their ceilings: the courier never refuses for mail that is no longer there.
BytesExact ==
    /\ \A s \in Sessions : courier.box[s] # None =>
          /\ courier.box[s].bytes = Bytes(Box(s))
          /\ courier.box[s].bytes <= MailboxBytes
          /\ Len(Box(s)) <= MailboxEnvelopes
    /\ courier.charged = Total([s \in Sessions |-> Bytes(Box(s))])
    /\ courier.charged <= RuntimeBytes

Count(s, P(_)) == Cardinality({i \in DOMAIN Box(s) : P(Box(s)[i])})

\* A call and the mail that carries it agree: a queued ask waits exactly once,
\* in its target's mailbox, an unread reply exactly once in its asker's, a
\* received ask nowhere; and no ask waits whose call is gone.
CallsMatchMail ==
    /\ \A k \in OpenCalls(courier) :
          LET call == courier.calls[k] IN
          /\ IsLive(courier, call.source) /\ IsLive(courier, call.target)
          /\ \A s \in Sessions :
                /\ Count(s, LAMBDA e : e.id = call.ask) =
                     IF s = call.target /\ call.stage = "Queued" THEN 1 ELSE 0
                /\ Count(s, LAMBDA e : e.kind = "Reply" /\ e.replyTo = call.ask) =
                     IF s = call.source /\ call.stage = "Replied" THEN 1 ELSE 0
    /\ \A e \in Mail(courier) : e.kind = "Ask" => MatchesCall(courier, e)

Unfinished == Waits(courier) \cup {courier.calls[k].ask : k \in OpenCalls(courier)}

\* What is remembered is bounded: a message that is neither waiting nor the ask
\* of an open call has been retired, and is forgotten with the oldest; and, as
\* courier/mod.rs says of the retired identifiers, "Live ones are never here".
NothingLeaks ==
    /\ {m \in Messages : courier.states[m] # None} = Unfinished \cup Ended(courier)
    /\ Ended(courier) \cap Unfinished = {}
    /\ Len(courier.retired) <= Remembered

\* The courier's three accounts of a message agree: bytes and mailboxes, calls,
\* and the identifiers it remembers.
MailIsExact == BytesExact /\ CallsMatchMail /\ NothingLeaks

\* A mailbox exists exactly while its dialogue is on, or while the worker it was
\* reserved for has not had its dialogue turned on: none outlives its session.
MailboxesMatchGate ==
    \A s \in Sessions :
       /\ IsLive(courier, s) <=> gate[s].enabled
       /\ courier.box[s] # None /\ ~gate[s].enabled =>
            worker[s] # None /\ gate[s].phase # "gone" /\ gate[s].activation = 0

\* No wake-up is lost: a waiter asleep with no ring due has no mail to take and
\* still owns the call it waits for, unless that call ran out of time, and then
\* only another connection's refused command can have ended it unheard.
SleepersMissNothing ==
    \A c \in Conns :
       LET k == conn[c] IN
       k.at = "asleep" /\ ~k.rung =>
          /\ Active(k.session, k.activation)
          /\ Matching(courier, k.session, k.source, k.pending) = {}
          /\ k.pending # None =>
               OwnsCall(courier, k.session, k.pending) \/ k.due <= now

\* A room has one round at a time, the one it names, between live members, and
\* within its rounds and its deadline; an unread reply keeps its round open.
OneRoundPerRoom ==
    \A r \in OpenRooms(courier) :
       LET room == courier.rooms[r]
           rounds == {k \in OpenCalls(courier) : courier.calls[k].room = r}
       IN /\ Cardinality(rounds) <= 1
          /\ \A k \in rounds :
                /\ room.current = [call |-> k, ask |-> courier.calls[k].ask]
                /\ {courier.calls[k].source, courier.calls[k].target} \subseteq room.members
                /\ courier.calls[k].deadline <= room.deadline
          /\ room.rounds <= RoomRounds
          /\ \A s \in room.members : IsLive(courier, s)
          /\ \A e \in Mail(courier) :
                e.room = r /\ e.kind = "Reply" => MatchesCall(courier, e)

\* Mail and calls of a room end with it.
RoomsLeaveNothing ==
    /\ \A e \in Mail(courier) : e.room # None => courier.rooms[e.room] # None
    /\ \A k \in OpenCalls(courier) :
          courier.calls[k].room # None => courier.rooms[courier.calls[k].room] # None

\* A room is one conversation, and ends with everything it began.
RoomsAreExact == OneRoundPerRoom /\ RoomsLeaveNothing

\* The handoff is at most once: a message that left its mailbox, read or not,
\* is in no mailbox again, and the state it was retired with stays.
HandedOverOnce ==
    [][/\ {m \in Messages : courier.states[m] # None} \cap Waits(courier')
            \subseteq Waits(courier)
       /\ \A m \in Ended(courier) \cap Ended(courier') :
            courier'.states[m] = courier.states[m]]_vars

\* A call ends before its deadline for a reason of its own only: a party left,
\* its room ended, its reply was read, or its asker withdrew exactly this ask.
\* Neither an old reply nor the cleanup of another connection can end it.
CallsEndForCause ==
    [][\A k \in OpenCalls(courier) :
         LET call == courier.calls[k]
             Replies(c) == {e \in Mail(c) : e.kind = "Reply" /\ e.replyTo = call.ask}
         IN courier'.calls[k] = None \/ courier'.calls[k].ask # call.ask =>
              \/ call.deadline <= now
              \/ courier'.box[call.source] = None \/ courier'.box[call.target] = None
              \/ call.room # None /\ courier'.rooms[call.room] = None
              \/ call.stage = "Replied" /\ Replies(courier') = {}
              \/ /\ call.stage # "Replied"
                 /\ \/ \E e \in Mail(courier') : e.kind = "Cancel" /\ e.replyTo = call.ask
                    \/ \E c \in Conns : /\ conn[c].at = "leaving"
                                        /\ conn[c].pending = [call |-> k, ask |-> call.ask]
                                        /\ conn[c].session = call.source]_vars

\* A wait for a call that succeeds has read a reply to exactly its ask, also when
\* the call identifier was used before and an old reply still waits.
WaitersReadTheirReply ==
    [][\A c \in Conns :
         /\ conn[c].at = "armed" /\ conn[c].pending # None
         /\ conn'[c].at = "idle"
         => \E e \in Mail(courier) \ Mail(courier') :
              /\ e.kind = "Reply" /\ e.replyTo = conn[c].pending.ask
              /\ e.target = conn[c].session]_vars

\* A message reaches its reader once, and a reply only the ask it answers.
HandoffIsExact == HandedOverOnce /\ WaitersReadTheirReply

\* Everything ends: mail nobody reads is dropped, and so are the calls and
\* rooms nobody ends, by the expiry task alone.
MailExpires ==
    \A m \in Messages : (m \in Unfinished) ~> (m \notin Unfinished)
RoomsExpire == \A r \in Rooms : (courier.rooms[r] # None) ~> (courier.rooms[r] = None)

\* Every message and every room ends by itself in time, whoever forgot it: the
\* expiry task is woken by whatever makes a deadline earlier (expirer, next_deadline).
EverythingExpires == MailExpires /\ RoomsExpire
=============================================================================
