-------------------------------- MODULE Courier --------------------------------
(***************************************************************************)
(* The exchange of messages between managed sessions                       *)
(* (crates/runtrol-courier/src/courier): mailboxes, the calls waiting for  *)
(* a reply, rooms, and what is remembered of every message.                *)
(*                                                                         *)
(* The courier owns no thread and no clock: it is a value, and each        *)
(* operator below maps the value c before a call to the value after it.    *)
(* A send is refused as a whole and a refusal changes nothing, so what the *)
(* checks of a call accept is one predicate (Accepts, ...) and its effect  *)
(* another operator (Send, ...).                                           *)
(*                                                                         *)
(* Left out: the hop count and visited set of an envelope.  The caller     *)
(* supplies both, they only refuse further sends, and nothing else reads   *)
(* them.  A body is its length.                                            *)
(***************************************************************************)
EXTENDS Integers, FiniteSets, SequencesExt

CONSTANTS Sessions,           \* managed sessions
          Messages,           \* message identifiers, named by the senders
          Calls,              \* call identifiers, named by the senders
          Rooms,              \* room identifiers
          None,               \* no mailbox, call, room, state or filter
          BodyBytes, MailboxEnvelopes, MailboxBytes, RuntimeBytes,
          ActiveCalls, MaxDeadline, RoomParticipants, RoomRounds,
          Remembered          \* the table Limits

ASSUME CourierAssumption ==
    /\ \A S \in {Sessions, Messages, Calls, Rooms} :
            IsFiniteSet(S) /\ None \notin S
    /\ \A n \in {BodyBytes, MailboxEnvelopes, MailboxBytes, RuntimeBytes,
                 ActiveCalls, MaxDeadline, RoomParticipants, RoomRounds,
                 Remembered} : n \in Nat

Kinds == {"Tell", "Ask", "Reply", "Cancel"}
States == {"Accepted", "Received", "Replied", "Expired", "Cancelled"}
Stages == {"Queued", "Received", "Replied"}
Maybe(S) == S \cup {None}

Envelope == [id : Messages, call : Calls, kind : Kinds, source : Sessions,
             target : Sessions, replyTo : Maybe(Messages), deadline : Nat,
             size : Nat, room : Maybe(Rooms)]
Mailbox == [ready : BOOLEAN, queue : Seq(Envelope), bytes : Nat]
Call == [ask : Messages, source : Sessions, target : Sessions,
         deadline : Nat, stage : Stages, room : Maybe(Rooms)]
CallRef == [call : Calls, ask : Messages]
Room == [owner : Sessions, speaker : Sessions, members : SUBSET Sessions,
         rounds : Nat, current : Maybe(CallRef), deadline : Nat]
CourierType == [box : [Sessions -> Maybe(Mailbox)],
                calls : [Calls -> Maybe(Call)],
                rooms : [Rooms -> Maybe(Room)],
                states : [Messages -> Maybe(States)],
                retired : Seq(Messages),
                charged : Nat]

ASSUME NoneAssumption ==
    None \notin Mailbox \cup Call \cup CallRef \cup Room \cup States \cup Nat

NewCourier == [box |-> [s \in Sessions |-> None],
               calls |-> [k \in Calls |-> None],
               rooms |-> [r \in Rooms |-> None],
               states |-> [m \in Messages |-> None],
               retired |-> <<>>,
               charged |-> 0]

\* The maps are walked in the order of their keys: some order, always the same.
SessionOrder == SetToSeq(Sessions)
CallOrder == SetToSeq(Calls)
RoomOrder == SetToSeq(Rooms)

\* A loop: the value c after a step for each element of q, from the first on.  A
\* step is a function of the element and of the value before it, and not an
\* operator, so that one lemma is about all loops.
After(step, c, q) ==
    LET after[i \in 0 .. Len(q)] == IF i = 0 THEN c ELSE step[q[i]][after[i - 1]]
    IN after[Len(q)]

Only(q, S) ==
    After([e \in Envelope |-> [kept \in Seq(Envelope) |->
             IF e \in S THEN Append(kept, e) ELSE kept]], <<>>, q)

Minus(a, b) == IF a > b THEN a - b ELSE 0
Bytes(q) == After([e \in Envelope |-> [n \in Nat |-> n + e.size]], 0, q)
Total(f) == After([s \in Sessions |-> [n \in Nat |-> n + f[s]]], 0, SessionOrder)

Mail(c) == UNION {Range(c.box[s].queue) : s \in {x \in Sessions : c.box[x] # None}}
OpenCalls(c) == {k \in Calls : c.calls[k] # None}
OpenRooms(c) == {r \in Rooms : c.rooms[r] # None}
IsLive(c, s) == c.box[s] # None /\ c.box[s].ready

Waits(c) == {e.id : e \in Mail(c)}
Ended(c) == {c.retired[i] : i \in DOMAIN c.retired}

-----------------------------------------------------------------------------
(* What every operation is made of.                                        *)

\* The message has its final state; the oldest final identifier is forgotten.
Retire(c, m, outcome) ==
    IF Contains(c.retired, m) THEN c
    ELSE LET kept == Append(c.retired, m) IN
         IF Len(kept) <= Remembered
           THEN [c EXCEPT !.retired = kept, !.states[m] = outcome]
           ELSE [c EXCEPT !.retired = Tail(kept),
                          !.states = [@ EXCEPT ![m] = outcome, ![Head(kept)] = None]]

RetireMail(c, mail, outcome) ==
    After([e \in Envelope |-> [d \in CourierType |-> Retire(d, e.id, outcome)]], c, mail)

\* Take the given mail out of every mailbox.
Freed(c, gone) ==
    [s \in Sessions |-> IF c.box[s] = None THEN 0 ELSE Bytes(Only(c.box[s].queue, gone))]

Thinned(b, gone) == [b EXCEPT !.queue = Only(@, Range(@) \ gone),
                              !.bytes = Minus(@, Bytes(Only(b.queue, gone)))]

Drop(c, gone) ==
    [c EXCEPT !.box = [s \in Sessions |-> IF c.box[s] = None THEN None
                                          ELSE Thinned(c.box[s], gone)],
              !.charged = Minus(@, Total(Freed(c, gone)))]

\* Mutant: the body is taken off the mailbox twice, and the count wraps.
WithoutTwice(c, s, q, size) ==
    [c EXCEPT !.box[s].queue = q, !.box[s].bytes = @ - 2 * size,
              !.charged = Minus(@, size)]

Without(c, s, q, size) ==
    [c EXCEPT !.box[s].queue = q, !.box[s].bytes = Minus(@, size),
              !.charged = Minus(@, size)]

\* Take one message out of a mailbox unread; its state is the caller's.
Withdraw(c, s, m) ==
    LET q == c.box[s].queue
        named == {i \in DOMAIN q : q[i].id = m}
    IN IF c.box[s] = None \/ named = {} THEN c
       ELSE Without(c, s, RemoveAt(q, Min(named)), q[Min(named)].size)

EndCall(c, k) == [c EXCEPT !.calls[k] = None]

MatchesCall(c, e) ==
    LET call == c.calls[e.call] IN
    /\ call # None
    /\ \/ /\ e.kind = "Ask"
          /\ call.ask = e.id
          /\ call.source = e.source /\ call.target = e.target
       \/ /\ e.kind = "Reply"
          /\ call.ask = e.replyTo
          /\ call.target = e.source /\ call.source = e.target

RoomFor(c, target, size, freed) ==
    /\ c.box[target] # None
    /\ Minus(Len(c.box[target].queue), freed.envelopes) < MailboxEnvelopes
    /\ Minus(c.box[target].bytes, freed.bytes) + size <= MailboxBytes
    /\ Minus(c.charged, freed.bytes) + size <= RuntimeBytes

NothingFreed == [envelopes |-> 0, bytes |-> 0]

Filled(b, e) == [b EXCEPT !.bytes = @ + e.size, !.queue = Append(@, e)]

Enqueue(c, e) ==
    [c EXCEPT !.states[e.id] = "Accepted",
              !.box[e.target] = Filled(@, e),
              !.charged = @ + e.size]

-----------------------------------------------------------------------------
(* Expiry and the end of rooms and sessions.                               *)

\* The given mail, mailbox by mailbox and in each from the oldest.
InBoxOrder(c, mail) ==
    After([s \in Sessions |-> [found \in Seq(Envelope) |->
             IF c.box[s] = None THEN found ELSE found \o Only(c.box[s].queue, mail)]],
          <<>>, SessionOrder)

\* A call that ends with its room keeps the reply its ask was given.
EndRound(d, k, r, outcome) ==
    IF d.calls[k] = None \/ d.calls[k].room # r THEN d
    ELSE Retire(EndCall(d, k), d.calls[k].ask,
                IF d.calls[k].stage = "Replied" THEN "Replied" ELSE outcome)

\* A room ends with the mail and the calls that carry its tag.
RemoveRoom(c, r, outcome) ==
    LET tagged == {e \in Mail(c) : e.room = r}
        left == RetireMail([Drop(c, tagged) EXCEPT !.rooms[r] = None],
                           InBoxOrder(c, tagged), outcome)
    IN IF c.rooms[r] = None THEN c
       ELSE After([k \in Calls |-> [d \in CourierType |-> EndRound(d, k, r, outcome)]],
                  left, CallOrder)

Deadlines(c) == {e.deadline : e \in Mail(c)}
                \cup {c.calls[k].deadline : k \in OpenCalls(c)}
                \cup {c.rooms[r].deadline : r \in OpenRooms(c)}

ExpireRoom(d, r, now) ==
    IF d.rooms[r] # None /\ d.rooms[r].deadline <= now
      THEN RemoveRoom(d, r, "Expired") ELSE d

ExpireRooms(c, now) ==
    After([r \in Rooms |-> [d \in CourierType |-> ExpireRoom(d, r, now)]], c, RoomOrder)

\* Mail that outlived its deadline takes the call it carries with it.
ExpireOne(c, e) ==
    LET dead == Retire(c, e.id, "Expired")
        ended == IF MatchesCall(dead, e) THEN EndCall(dead, e.call) ELSE dead
    IN IF e.kind = "Reply" THEN Retire(ended, e.replyTo, "Replied") ELSE ended

ExpireWaiting(c, s, now) ==
    LET late == {e \in Mail(c) : e.target = s /\ e.deadline <= now}
    IN After([e \in Envelope |-> [d \in CourierType |-> ExpireOne(d, e)]],
             Drop(c, late), InBoxOrder(c, late))

ExpireCall(d, k, now) ==
    IF d.calls[k] # None /\ d.calls[k].deadline <= now
      THEN Retire(EndCall(d, k), d.calls[k].ask, "Expired") ELSE d

Sweep(c, now) ==
    LET mail == After([s \in Sessions |-> [d \in CourierType |-> ExpireWaiting(d, s, now)]],
                      ExpireRooms(c, now), SessionOrder)
    IN IF \A d \in Deadlines(c) : d > now THEN c
       ELSE After([k \in Calls |-> [d \in CourierType |-> ExpireCall(d, k, now)]],
                  mail, CallOrder)

SessionStarted(c, s) ==
    [c EXCEPT !.box[s] = IF @ = None
                           THEN [ready |-> TRUE, queue |-> <<>>, bytes |-> 0]
                           ELSE [@ EXCEPT !.ready = TRUE]]

\* The calls of an ended session end; an ask it had queued elsewhere is
\* withdrawn, a reply it had sent stays readable.
LeaveCall(d, k, s) ==
    LET call == d.calls[k]
        ended == EndCall(d, k)
    IN IF call = None \/ s \notin {call.source, call.target} THEN d
       ELSE Retire(IF call.stage = "Queued" /\ call.source = s
                     THEN Withdraw(ended, call.target, call.ask) ELSE ended,
                   call.ask,
                   IF call.stage = "Replied" THEN "Replied" ELSE "Cancelled")

LeaveRoom(d, r, s) ==
    IF d.rooms[r] # None /\ s \in d.rooms[r].members
      THEN RemoveRoom(d, r, "Cancelled") ELSE d

EndMailbox(c, s) ==
    RetireMail([c EXCEPT !.box[s] = None, !.charged = Minus(@, c.box[s].bytes)],
               c.box[s].queue, "Cancelled")

SessionEnded(c, s) ==
    LET left == After([r \in Rooms |-> [d \in CourierType |-> LeaveRoom(d, r, s)]],
                      c, RoomOrder)
    IN IF left.box[s] = None THEN left
       ELSE After([k \in Calls |-> [d \in CourierType |-> LeaveCall(d, k, s)]],
                  EndMailbox(left, s), CallOrder)

-----------------------------------------------------------------------------
(* Sending.                                                                *)
AdmitShape(c, e, now) ==
    /\ e.source # e.target
    /\ IsLive(c, e.source) /\ IsLive(c, e.target)
    /\ c.states[e.id] = None
    /\ e.kind \in {"Tell", "Ask"} <=> e.replyTo = None
    /\ e.deadline > now /\ e.deadline - now <= MaxDeadline
    /\ e.size <= BodyBytes

AdmitRoute(c, e) ==
    /\ e.kind = "Ask" => Cardinality(OpenCalls(c)) < ActiveCalls
    /\ c.calls[e.call] = None
    /\ RoomFor(c, e.target, e.size, NothingFreed)

Route(c, e) ==
    Enqueue(IF e.kind # "Ask" THEN c
            ELSE [c EXCEPT !.calls[e.call] =
                    [ask |-> e.id, source |-> e.source, target |-> e.target,
                     deadline |-> e.deadline, stage |-> "Queued", room |-> e.room]],
            e)

AdmitReply(c, e, now) ==
    LET call == c.calls[e.call] IN
    /\ call # None /\ call.ask = e.replyTo
    /\ call.target = e.source /\ call.source = e.target
    /\ call.deadline > now
    /\ call.stage = "Received"
    /\ RoomFor(c, e.target, e.size, NothingFreed)

Reply(c, e) ==
    LET call == c.calls[e.call]
        sooner == IF e.deadline < call.deadline THEN e.deadline ELSE call.deadline
    IN Enqueue([c EXCEPT !.calls[e.call].stage = "Replied",
                         !.states[call.ask] = "Replied"],
               [e EXCEPT !.deadline = sooner, !.room = call.room])

QueuedBytes(c, s, m) ==
    IF c.box[s] = None THEN 0
    ELSE Bytes(Only(c.box[s].queue, {e \in Range(c.box[s].queue) : e.id = m}))

AdmitCancel(c, e, now) ==
    LET call == c.calls[e.call] IN
    /\ call # None /\ call.ask = e.replyTo
    /\ call.deadline > now
    /\ call.source = e.source /\ call.target = e.target
    /\ call.stage # "Replied"
    /\ RoomFor(c, e.target, e.size,
               IF call.stage = "Queued"
                 THEN [envelopes |-> 1, bytes |-> QueuedBytes(c, call.target, call.ask)]
                 ELSE NothingFreed)

\* Mutant: the cancelled ask stays in the mailbox of its target.
CancelUnread(c, e) ==
    LET call == c.calls[e.call] IN
    Enqueue(Retire(EndCall(c, e.call), call.ask, "Cancelled"),
            [e EXCEPT !.room = call.room])

Cancel(c, e) ==
    LET call == c.calls[e.call]
        unread == IF call.stage = "Queued" THEN Withdraw(c, call.target, call.ask)
                  ELSE c
    IN Enqueue(Retire(EndCall(unread, e.call), call.ask, "Cancelled"),
               [e EXCEPT !.room = call.room])

Accepts(c, e, now) ==
    /\ AdmitShape(c, e, now)
    /\ e.kind \in {"Tell", "Ask"} => AdmitRoute(c, e)
    /\ e.kind = "Reply" => AdmitReply(c, e, now)
    /\ e.kind = "Cancel" => AdmitCancel(c, e, now)

Send(c, e) == CASE e.kind \in {"Tell", "Ask"} -> Route(c, e)
                [] e.kind = "Reply" -> Reply(c, e)
                [] e.kind = "Cancel" -> Cancel(c, e)

\* The first mail of a recipient whose delivery is still closed.
AcceptsInitial(c, e, now) ==
    /\ e.kind = "Tell"
    /\ c.box[e.target] = None
    /\ Accepts(SessionStarted(c, e.target), e, now)

ReserveInitial(c, e) ==
    [Send(SessionStarted(c, e.target), e) EXCEPT !.box[e.target].ready = FALSE]

-----------------------------------------------------------------------------
(* Receiving, and giving up.                                               *)

\* Mutant: the reply filter trusts the call identifier alone.
WantedByCallId(e, source, ref) ==
    /\ source # None => e.source = source
    /\ ref # None => e.kind = "Reply" /\ e.call = ref.call

Wanted(e, source, ref) ==
    /\ source # None => e.source = source
    /\ ref # None => e.kind = "Reply" /\ e.call = ref.call /\ e.replyTo = ref.ask

\* Where the mail waits that a receive could take now: it takes the oldest.
\* The gate has swept under the same lock, so nothing of it has expired.
Matching(c, s, source, ref) ==
    IF ~IsLive(c, s) THEN {}
    ELSE {i \in DOMAIN c.box[s].queue : Wanted(c.box[s].queue[i], source, ref)}

\* An ask that was read waits for its reply; a reply that was read ends its call.
ReadAsk(c, e) ==
    IF c.calls[e.call] # None /\ c.calls[e.call].ask = e.id
      THEN [c EXCEPT !.calls[e.call].stage = "Received", !.states[e.id] = "Received"]
      ELSE Retire(c, e.id, "Received")

ReadReply(c, e) ==
    Retire(Retire(IF MatchesCall(c, e) THEN EndCall(c, e.call) ELSE c, e.id, "Received"),
           e.replyTo, "Replied")

Receive(c, s, i) ==
    LET e == c.box[s].queue[i]
        d == Without(c, s, RemoveAt(c.box[s].queue, i), e.size)
    IN CASE e.kind \in {"Tell", "Cancel"} -> Retire(d, e.id, "Received")
         [] e.kind = "Ask" -> ReadAsk(d, e)
         [] e.kind = "Reply" -> ReadReply(d, e)

OwnsCall(c, s, ref) ==
    LET call == c.calls[ref.call] IN
    call # None /\ call.source = s /\ call.ask = ref.ask

\* Mutant: the abandoned ask is known by its call identifier alone.
AbandonById(c, s, ref) ==
    LET call == c.calls[ref.call] IN
    IF call = None \/ call.stage = "Replied" THEN c
    ELSE Retire(IF call.stage = "Queued"
                  THEN Withdraw(EndCall(c, ref.call), call.target, call.ask)
                  ELSE EndCall(c, ref.call),
                call.ask, "Cancelled")

\* The asker left: an unread ask is withdrawn, an answer stays readable.
AbandonCall(c, s, ref) ==
    LET call == c.calls[ref.call] IN
    IF ~OwnsCall(c, s, ref) \/ call.stage = "Replied" THEN c
    ELSE Retire(IF call.stage = "Queued"
                  THEN Withdraw(EndCall(c, ref.call), call.target, call.ask)
                  ELSE EndCall(c, ref.call),
                call.ask, "Cancelled")

NextDeadline(c) == IF Deadlines(c) = {} THEN None ELSE Min(Deadlines(c))

-----------------------------------------------------------------------------
(* Rooms.                                                                  *)
AcceptsRoom(c, members, owner, deadline, now) ==
    /\ Cardinality(members) \in 2..RoomParticipants
    /\ owner \in members
    /\ deadline > now /\ deadline - now <= MaxDeadline
    /\ Cardinality(OpenRooms(c)) < ActiveCalls
    /\ \A s \in members : IsLive(c, s)

RoomOpen(c, r, members, owner, deadline) ==
    [c EXCEPT !.rooms[r] = [owner |-> owner, speaker |-> owner,
                            members |-> members, rounds |-> 0,
                            current |-> None, deadline |-> deadline]]

RoomVisible(c, s, r, now) ==
    /\ c.rooms[r] # None
    /\ s \in c.rooms[r].members
    /\ c.rooms[r].deadline > now

\* A round stays in flight until its reply is read or its call ends.
InFlight(c, r) ==
    LET ref == c.rooms[r].current IN
    /\ ref # None
    /\ c.calls[ref.call] # None
    /\ c.calls[ref.call].ask = ref.ask /\ c.calls[ref.call].room = r

AcceptsTransfer(c, owner, r, speaker, now) ==
    /\ RoomVisible(c, owner, r, now)
    /\ c.rooms[r].owner = owner
    /\ speaker \in c.rooms[r].members
    /\ ~InFlight(c, r)

RoomTransfer(c, r, speaker) == [c EXCEPT !.rooms[r].speaker = speaker]

\* Mutant: a round begins while the one before is in flight.
AcceptsRoundBeside(c, r, e, now) ==
    /\ RoomVisible(c, e.source, r, now)
    /\ c.rooms[r].speaker = e.source
    /\ e.target \in c.rooms[r].members
    /\ c.rooms[r].rounds < RoomRounds
    /\ AdmitShape(c, e, now)
    /\ AdmitRoute(c, e)

AcceptsRound(c, r, e, now) ==
    /\ RoomVisible(c, e.source, r, now)
    /\ c.rooms[r].speaker = e.source
    /\ e.target \in c.rooms[r].members
    /\ c.rooms[r].rounds < RoomRounds
    /\ ~InFlight(c, r)
    /\ AdmitShape(c, e, now)
    /\ AdmitRoute(c, e)

RoomAsk(c, r, e) ==
    [Route(c, [e EXCEPT !.room = r]) EXCEPT
       !.rooms[r].rounds = @ + 1,
       !.rooms[r].current = [call |-> e.call, ask |-> e.id]]

AcceptsClose(c, owner, r) == c.rooms[r] # None /\ c.rooms[r].owner = owner

RoomClose(c, r) == RemoveRoom(c, r, "Cancelled")
=============================================================================
