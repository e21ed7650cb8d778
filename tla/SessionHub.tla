------------------------------ MODULE SessionHub ------------------------------
(***************************************************************************)
(* One session's event hub and the watchers of it                          *)
(* (crates/runtrol-core/src/events/): the sequencer that stamps frames, the *)
(* replay window, the fan-out with one bounded queue per watcher, the       *)
(* daemon task that writes a watcher's queue to its connection              *)
(* (runtrol-daemon/src/runtime_serve/watch_relay.rs) and the reconnecting   *)
(* consumer of the SDK (runtrol-runtime-client/src/client.rs).              *)
(*                                                                         *)
(* The session owner is one task, so each operation on the hub is one step; *)
(* the writers and consumers of the watchers interleave with it.  A         *)
(* connection and the socket under it hold one item, the one being written. *)
(***************************************************************************)
EXTENDS ReplayRing

CONSTANTS Watchers,      \* consumers of the session's events
          NoCursor,      \* a consumer with no boundary to resume from
          QueueFrames,   \* QUEUE_FRAMES: frames a watcher may have waiting
          QueueBytes,    \* QUEUE_BYTES: bytes a watcher may have waiting
          MaxLive,       \* MAX_LIVE_PAYLOAD_BYTES: largest payload sent live
          Envelope,      \* wire bytes around a frame's payload
          NoticeSize,    \* payload bytes of a notice runtrol writes itself
          Sizes,         \* payload sizes a provider's frames have
          Sources,       \* source boundaries a driver reports
          MaxFrames,     \* bound: frames of all attaches
          MaxEpochs,     \* bound: attaches of one hub
          MaxStreams,    \* bound: hubs (a session closed and opened again)
          MaxDrops       \* bound: connections lost

ASSUME HubAssumption ==
    /\ {QueueFrames, QueueBytes, MaxLive, Envelope, NoticeSize} \subseteq Nat
    /\ QueueFrames > 0
    /\ RingBytes <= MaxLive
    /\ Sizes \subseteq Nat /\ Sources \subseteq Nat
    /\ {MaxFrames, MaxEpochs, MaxStreams, MaxDrops} \subseteq Nat /\ MaxStreams > 0

Cursor == [stream : 1 .. MaxStreams, epoch : 0 .. MaxEpochs, seq : Nat]

\* It is neither a boundary nor the announcement of a gap.
ASSUME NoCursorAssumption == NoCursor \notin Cursor \cup [requested : Cursor, liveAt : Cursor]

Incarnations == (1 .. MaxStreams) \X (0 .. MaxEpochs)

VARIABLES
    live,       \* the session is in the owner's live map, with this hub
    stream,     \* SessionHub.stream, fresh for every hub
    epoch,      \* Sequencer.epoch
    next,       \* Sequencer.next
    srcEnd,     \* Sequencer.src_end
    ring,       \* ReplayRing.entries
    view,       \* per watcher: its SessionView, its Subscriber and its writer
    accepted,   \* per watcher: the consumer's reconnect cursor
    pending,    \* per watcher: delivered and not accepted yet
    gap,        \* per watcher: the gap of its last acknowledgement
    at,         \* history: the boundary each consumer was shown up to
    ends,       \* history: how many frames each attach has published
    drops       \* bound: connections lost so far

hub == <<live, stream, epoch, next, srcEnd, ring, ends>>
consumer == <<accepted, pending, gap, at>>
vars == <<hub, view, consumer, drops>>

LiveAt == [stream |-> stream, epoch |-> epoch, seq |-> next]

-----------------------------------------------------------------------------
(* One watcher.  `open`: its receiving end exists; `tx`: the fan-out still  *)
(* holds the sending end; `expect` and `epoch`: next_expected; `writing`:   *)
(* the item the connection writer holds.                                   *)
View == [open : BOOLEAN, tx : BOOLEAN, stream : 0 .. MaxStreams, epoch : Nat,
         expect : Nat, replay : Seq(Frame), queue : Seq(Frame),
         writing : Seq(Frame), leased : BOOLEAN]

NoView == [open |-> FALSE, tx |-> FALSE, stream |-> 0, epoch |-> 0,
           expect |-> 0, replay |-> <<>>, queue |-> <<>>,
           writing |-> <<>>, leased |-> FALSE]

\* WatchEvent::retained_bytes: the payload and the wire form that repeats it.
Retained(f) == 2 * f.size + Envelope

(* The frames whose lease is held: queued, or taken from the queue and      *)
(* still being written.  Only a retired subscriber has the lag item, which  *)
(* holds no lease, in its queue, and it is offered nothing any more.        *)
Leased(v) == (IF v.leased THEN v.writing ELSE <<>>) \o v.queue

\* The bytes the items of s make the daemon hold.
BytesIn(s) ==
    LET upTo[i \in 0 .. Len(s)] == IF i = 0 THEN 0 ELSE upTo[i - 1] + Retained(s[i])
    IN  upTo[Len(s)]

HeldFrames(v) == Len(Leased(v))
HeldBytes(v) == BytesIn(Leased(v))

\* Mutant: an oversize frame is admitted beside others.
HasRoomBeside(v, f) ==
    IF Retained(f) > QueueBytes
    THEN HeldFrames(v) < QueueFrames /\ f.size <= MaxLive
    ELSE HeldFrames(v) < QueueFrames /\ HeldBytes(v) + Retained(f) <= QueueBytes

HasRoomFor(v, f) ==
    IF Retained(f) > QueueBytes
    THEN HeldFrames(v) = 0 /\ f.size <= MaxLive
    ELSE HeldFrames(v) < QueueFrames /\ HeldBytes(v) + Retained(f) <= QueueBytes

\* Mutant: a frame that does not fit is dropped and the subscriber kept.
FallBehindInSilence(v) == v

\* Mutant: no slot is kept for the lag item.
FallBehindUnreserved(v) ==
    [v EXCEPT !.tx = FALSE,
              !.queue = IF Len(@) < QueueFrames
                        THEN Append(@, [kind |-> "lagged", epoch |-> v.epoch,
                                        seq |-> v.expect, size |-> 0])
                        ELSE @]

(* The subscriber is told the exact next event it needed, in the slot the   *)
(* queue keeps for that, and retired.  try_send into a full channel fails   *)
(* and is ignored.                                                         *)
FallBehind(v) ==
    [v EXCEPT !.tx = FALSE,
              !.queue = IF Len(@) <= QueueFrames
                        THEN Append(@, [kind |-> "lagged", epoch |-> v.epoch,
                                        seq |-> v.expect, size |-> 0])
                        ELSE @]

Offer(v, f) ==
    IF ~v.tx THEN v
    ELSE IF /\ f.size <= MaxLive
            /\ f.epoch = v.epoch
            /\ f.seq = v.expect
            /\ HasRoomFor(v, f)
            /\ Len(v.queue) <= QueueFrames
    THEN [v EXCEPT !.queue = Append(@, f), !.expect = @ + 1]
    ELSE FallBehind(v)

\* FanOut::close, and dropping the hub: what is queued can still be read.
Closed == [w \in Watchers |-> [view[w] EXCEPT !.tx = FALSE]]

-----------------------------------------------------------------------------
Init ==
    /\ live = TRUE
    /\ stream = 1
    /\ epoch = 0 /\ next = 0 /\ srcEnd = 0
    /\ ring = <<>>
    /\ view = [w \in Watchers |-> NoView]
    /\ accepted = [w \in Watchers |-> NoCursor]
    /\ pending = [w \in Watchers |-> NoCursor]
    /\ gap = [w \in Watchers |-> NoCursor]
    /\ at = [w \in Watchers |-> NoCursor]
    /\ ends = [i \in Incarnations |-> 0]
    /\ drops = 0

Stamped(kind, n, size) == [kind |-> kind, epoch |-> epoch, seq |-> n, size |-> size]

Published == FoldFunction(LAMBDA n, m : n + m, 0, ends)

(* SessionHub::publish.  A source boundary behind the one already reached   *)
(* is kept back, and the frame is followed at once by a notice of its own.  *)
Publish(size, reported) ==
    LET event == Stamped("event", next, size)
        notice == Stamped("notice", next + 1, NoticeSize)
        regressed == reported < srcEnd
    IN  /\ live
        /\ Published + 2 <= MaxFrames
        /\ srcEnd' = IF regressed THEN srcEnd ELSE reported
        /\ next' = IF regressed THEN next + 2 ELSE next + 1
        /\ ends' = [ends EXCEPT ![<<stream, epoch>>] = next']
        /\ view' = [w \in Watchers |->
                       IF regressed THEN Offer(Offer(view[w], event), notice)
                                    ELSE Offer(view[w], event)]
        /\ ring' = IF regressed THEN Push(Push(ring, event), notice)
                                ELSE Push(ring, event)
        /\ UNCHANGED <<live, stream, epoch, consumer, drops>>

\* SessionHub::attach: positions restart, so nothing of the last attach stays.
Attach ==
    /\ live
    /\ epoch < MaxEpochs
    /\ view' = Closed
    /\ ring' = <<>>
    /\ epoch' = epoch + 1
    /\ next' = 0 /\ srcEnd' = 0
    /\ UNCHANGED <<live, stream, ends, consumer, drops>>

\* The owner drops the session, and with it the hub and every sending end.
CloseSession ==
    /\ live
    /\ live' = FALSE
    /\ view' = Closed
    /\ UNCHANGED <<stream, epoch, next, srcEnd, ring, ends, consumer, drops>>

\* Mutant: a hub opened again reuses the name of the one before it.
OpenSameStream ==
    /\ ~live
    /\ live' = TRUE
    /\ epoch' = 0 /\ next' = 0 /\ srcEnd' = 0
    /\ ring' = <<>>
    /\ UNCHANGED <<stream, ends, view, consumer, drops>>

\* SessionHub::new for the same session opened again: a new stream.
OpenSession ==
    /\ ~live
    /\ stream < MaxStreams
    /\ live' = TRUE
    /\ stream' = stream + 1
    /\ epoch' = 0 /\ next' = 0 /\ srcEnd' = 0
    /\ ring' = <<>>
    /\ UNCHANGED <<ends, view, consumer, drops>>

-----------------------------------------------------------------------------
\* The first frame a replay delivers, or the live boundary.
StartOf(replay) ==
    IF replay = <<>> THEN LiveAt
    ELSE [stream |-> stream, epoch |-> Head(replay).epoch, seq |-> Head(replay).seq]

\* Mutant: a first subscription is announced a gap as well.
AnswerGapToAll(requested) ==
    [replay |-> Frames(ring), at |-> StartOf(Frames(ring)),
     gap |-> [requested |-> requested, liveAt |-> StartOf(Frames(ring))]]

(* SessionHub::view: what a subscriber asking to resume from `requested` is *)
(* replayed, where that starts, and the gap that is announced before it.    *)
Answer(requested) ==
    LET reach == Reach(ring, requested, LiveAt)
        all == Frames(ring)
    IN  CASE requested = NoCursor ->
               [replay |-> all, at |-> StartOf(all), gap |-> NoCursor]
          [] requested # NoCursor /\ reach = "upToDate" ->
               [replay |-> <<>>, at |-> LiveAt, gap |-> NoCursor]
          [] requested # NoCursor /\ reach = "held" ->
               [replay |-> FramesFrom(ring, requested), at |-> requested, gap |-> NoCursor]
          [] OTHER ->
               [replay |-> all, at |-> StartOf(all),
                gap |-> [requested |-> requested, liveAt |-> StartOf(all)]]

(* A consumer (re)connects from what it accepted.  The subscription is      *)
(* installed and the window copied in one step of the owner.               *)
Subscribe(w) ==
    /\ live
    /\ ~view[w].open
    /\ pending[w] = NoCursor
    /\ LET answer == Answer(accepted[w])
       IN  /\ view' = [view EXCEPT ![w] =
                [open |-> TRUE, tx |-> TRUE, stream |-> stream, epoch |-> epoch,
                 expect |-> next, replay |-> answer.replay, queue |-> <<>>,
                 writing |-> <<>>, leased |-> FALSE]]
           /\ gap' = [gap EXCEPT ![w] = answer.gap]
           /\ at' = [at EXCEPT ![w] = answer.at]
    /\ UNCHANGED <<hub, accepted, pending, drops>>

\* SessionView::recv: the replay first, then the live queue.
Recv(w) ==
    /\ view[w].open
    /\ view[w].writing = <<>>
    /\ \/ /\ view[w].replay # <<>>
          /\ view' = [view EXCEPT ![w].replay = Tail(@),
                                  ![w].writing = <<Head(view[w].replay)>>,
                                  ![w].leased = FALSE]
       \/ /\ view[w].replay = <<>>
          /\ view[w].queue # <<>>
          /\ view' = [view EXCEPT ![w].queue = Tail(@),
                                  ![w].writing = <<Head(view[w].queue)>>,
                                  ![w].leased = TRUE]
    /\ UNCHANGED <<hub, consumer, drops>>

\* Every sending end is gone and the queue is drained: the stream ends.
StreamEnds(w) ==
    /\ view[w].open /\ ~view[w].tx
    /\ view[w].replay = <<>> /\ view[w].queue = <<>> /\ view[w].writing = <<>>
    /\ view' = [view EXCEPT ![w] = NoView]
    /\ UNCHANGED <<hub, consumer, drops>>

(* The consumer reads an event: its cursor is pending until it is accepted, *)
(* and the writer drops the frame and its lease.                           *)
DeliverEvent(w) ==
    LET f == Head(view[w].writing)
        following == [stream |-> view[w].stream, epoch |-> f.epoch, seq |-> f.seq + 1]
    IN  /\ view[w].writing # <<>>
        /\ f.kind # "lagged"
        /\ pending[w] = NoCursor
        /\ pending' = [pending EXCEPT ![w] = following]
        /\ at' = [at EXCEPT ![w] = following]
        /\ view' = [view EXCEPT ![w].writing = <<>>, ![w].leased = FALSE]
        /\ UNCHANGED <<hub, accepted, gap, drops>>

\* The consumer reads the lag boundary, takes it as accepted and disconnects.
DeliverLagged(w) ==
    LET f == Head(view[w].writing)
    IN  /\ view[w].writing # <<>>
        /\ f.kind = "lagged"
        /\ pending[w] = NoCursor
        /\ accepted' = [accepted EXCEPT ![w] =
              [stream |-> view[w].stream, epoch |-> f.epoch, seq |-> f.seq]]
        /\ view' = [view EXCEPT ![w] = NoView]
        /\ UNCHANGED <<hub, pending, gap, at, drops>>

\* ReconnectingEventSubscription::accept.
Accept(w) ==
    /\ pending[w] # NoCursor
    /\ accepted' = [accepted EXCEPT ![w] = pending[w]]
    /\ pending' = [pending EXCEPT ![w] = NoCursor]
    /\ UNCHANGED <<hub, view, gap, at, drops>>

\* The connection is lost; what was queued or being written goes with it.
Drop(w) ==
    /\ view[w].open
    /\ drops < MaxDrops
    /\ drops' = drops + 1
    /\ view' = [view EXCEPT ![w] = NoView]
    /\ UNCHANGED <<hub, consumer>>

\* The consumer's process is started again from the cursor it had accepted.
Restart(w) ==
    /\ view[w].open \/ pending[w] # NoCursor
    /\ drops < MaxDrops
    /\ drops' = drops + 1
    /\ view' = [view EXCEPT ![w] = NoView]
    /\ pending' = [pending EXCEPT ![w] = NoCursor]
    /\ UNCHANGED <<hub, accepted, gap, at>>

-----------------------------------------------------------------------------
Watcher(w) ==
    \/ Subscribe(w) \/ Recv(w) \/ StreamEnds(w)
    \/ DeliverEvent(w) \/ DeliverLagged(w) \/ Accept(w)

Next ==
    \/ \E size \in Sizes, reported \in Sources : Publish(size, reported)
    \/ Attach \/ CloseSession \/ OpenSession
    \/ \E w \in Watchers : Watcher(w) \/ Drop(w) \/ Restart(w)

Spec == Init /\ [][Next]_vars

(* The runtime polls every connection task and a consumer that keeps        *)
(* watching reads, accepts and reconnects.  Nothing obliges a provider to   *)
(* speak, a session to close or a connection to fail.                       *)
FairSpec == Spec /\ \A w \in Watchers : WF_vars(Watcher(w))

-----------------------------------------------------------------------------
(***************************************************************************)
(* Properties                                                              *)
(***************************************************************************)
TypeOK ==
    /\ live \in BOOLEAN
    /\ stream \in 1 .. MaxStreams
    /\ epoch \in 0 .. MaxEpochs
    /\ next \in Nat /\ srcEnd \in Nat /\ drops \in Nat
    /\ ring \in Seq(Frame)
    /\ view \in [Watchers -> View]
    /\ accepted \in [Watchers -> Cursor \cup {NoCursor}]
    /\ pending \in [Watchers -> Cursor \cup {NoCursor}]
    /\ at \in [Watchers -> Cursor \cup {NoCursor}]
    /\ gap \in [Watchers -> [requested : Cursor, liveAt : Cursor] \cup {NoCursor}]
    /\ ends \in [Incarnations -> Nat]

(* The window is a dense run of positions of the current attach that ends   *)
(* right before the next one, and its only loss marker is its oldest entry: *)
(* what lets `reach` decide by the oldest frame alone.                     *)
WindowIsDense ==
    \A i \in DOMAIN ring :
        /\ ring[i].epoch = epoch
        /\ ring[i].seq + Len(ring) + 1 = next + i
        /\ ring[i].kind = "lost" => i = 1

(* Every subscriber the fan-out still holds expects exactly the next frame  *)
(* the sequencer will stamp, so the position check in `offer` never retires *)
(* a watcher that kept up: subscriptions end with the attach they were      *)
(* opened in, and no frame passes a subscriber without retiring it.         *)
SubscribersExpectLive ==
    \A w \in Watchers : view[w].tx =>
        /\ live /\ view[w].open
        /\ [stream |-> view[w].stream, epoch |-> view[w].epoch,
            seq |-> view[w].expect] = LiveAt

(* A watcher the fan-out retired while its attach goes on is always told so *)
(* at the end of what it still has to read, whatever filled its queue: the  *)
(* slot kept for the lag item is never used by data.                       *)
LagIsTold ==
    \A w \in Watchers :
        LET left == view[w].writing \o view[w].queue
        IN  /\ view[w].open /\ ~view[w].tx
            /\ live /\ <<view[w].stream, view[w].epoch>> = <<stream, epoch>>
            => left # <<>> /\ Last(left).kind = "lagged"

\* What is held beside the lag item in its slot at the end.
DataOf(s) == IF s # <<>> /\ Last(s).kind = "lagged" THEN Front(s) ELSE s

WithinBudget(s) ==
    /\ Len(s) <= QueueFrames
    /\ BytesIn(s) <= QueueBytes \/ (Len(s) = 1 /\ s[1].size <= MaxLive)

(* What one watcher makes the daemon hold stays within the queue's frame    *)
(* and byte budgets, counting the frame its writer is still sending; only a *)
(* single frame larger than the whole byte budget may exceed it, and then   *)
(* it is alone and within the live payload ceiling.                        *)
MemoryBounded == \A w \in Watchers : WithinBudget(DataOf(Leased(view[w])))

\* The owner answers a subscription of w in this step.
Subscribing(w) == ~view[w].open /\ view'[w].open

Retains(n) == \E i \in DOMAIN ring :
    ring[i].kind # "lost" /\ ring[i].epoch = epoch /\ ring[i].seq = n

(* Reconnecting from an accepted boundary replays exactly the frames        *)
(* [boundary, live) and announces no gap when the window still retains all  *)
(* of them, and announces a gap whenever one of them is missing: evicted,   *)
(* too large to retain, or of another attach.                              *)
ResumedExactly(w) ==
    accepted[w] # NoCursor =>
      LET c == accepted[w]
          resumable == /\ <<c.stream, c.epoch>> = <<stream, epoch>>
                       /\ \A n \in c.seq .. next - 1 : Retains(n)
      IN  /\ gap'[w] = NoCursor <=> resumable
          /\ resumable =>
               /\ Len(view'[w].replay) = next - c.seq
               /\ \A i \in DOMAIN view'[w].replay :
                      view'[w].replay[i].seq = c.seq + i - 1

(* Whatever the window retains and the consumer did not accept is replayed, *)
(* also behind a gap: resuming at the live boundary instead once froze a    *)
(* watcher whose turn had already ended (comment in SessionHub::view).      *)
ShownAllRetained(w) ==
    \A i \in DOMAIN ring :
        \/ ring[i].kind = "lost"
        \/ /\ accepted[w] # NoCursor
           /\ <<accepted[w].stream, accepted[w].epoch>> = <<stream, epoch>>
           /\ ring[i].seq < accepted[w].seq
        \/ \E j \in DOMAIN view'[w].replay : view'[w].replay[j] = ring[i]

(* A reconnect is shown exactly what is retained beyond what it accepted.   *)
ReplayIsExact ==
    [][\A w \in Watchers : Subscribing(w) =>
          ResumedExactly(w) /\ ShownAllRetained(w)]_vars

(* The hub, its queues, its window and the reconnecting consumer implement  *)
(* the watch the documentation promises: no event is skipped in silence and *)
(* no accepted event is shown again.                                       *)
Promise == INSTANCE WatchStream WITH current <- <<stream, epoch>>
WatchPromise == Promise!AbsSpec

(* A consumer that keeps watching is in the end shown everything up to the  *)
(* live boundary, through however many lags, losses and gaps.              *)
CatchesUp == \A w \in Watchers : <>[](live => at[w] = LiveAt)

-----------------------------------------------------------------------------
(* The inductive invariant behind the theorems of SessionHubProofs.         *)

Now == <<stream, epoch>>
AttachOf(c) == <<c.stream, c.epoch>>
NoLater(i, j) == i[1] < j[1] \/ (i[1] = j[1] /\ i[2] <= j[2])

\* The sequencer continues the log of its attach; later attaches are empty.
HistoryOK ==
    /\ ends[Now] = next
    /\ \A i \in Incarnations : ~NoLater(i, Now) => ends[i] = 0

\* A consumer's boundaries are boundaries of an attach that has happened.
Happened(c) ==
    c # NoCursor => NoLater(AttachOf(c), Now) /\ c.seq <= ends[AttachOf(c)]

ConsumersOK ==
    \A w \in Watchers : /\ Happened(accepted[w])
                        /\ Happened(at[w])
                        /\ pending[w] # NoCursor => pending[w] = at[w]

\* The items of s are the positions from n on of one attach, and the frames
\* among them were published: they are before position m.
RunFrom(s, e, n, m) ==
    \A k \in 1 .. Len(s) : /\ s[k].epoch = e
                           /\ s[k].seq + 1 = n + k
                           /\ s[k].kind # "lagged" => s[k].seq < m

(* What a view still has to deliver, in the order it will, starts at the    *)
(* consumer's position n and reaches the subscriber's next_expected.       *)
Flow(v, n, m) ==
    /\ Len(v.writing) <= 1
    /\ RunFrom(v.writing, v.epoch, n, m)
    /\ RunFrom(v.replay, v.epoch, n + Len(v.writing), m)
    /\ RunFrom(v.queue, v.epoch, n + Len(v.writing) + Len(v.replay), m)
    /\ v.tx => v.expect = n + Len(v.writing) + Len(v.replay) + Len(v.queue)

FlowOK ==
    \A w \in Watchers :
        LET here == <<view[w].stream, view[w].epoch>>
        IN  /\ view[w].tx => view[w].open
            /\ ~view[w].open => view[w].writing = <<>>
            /\ view[w].open => /\ at[w] # NoCursor /\ AttachOf(at[w]) = here
                               /\ Flow(view[w], at[w].seq, ends[here])

\* While it is subscribed, no lag item is on its way and its slot is free.
ReserveOK ==
    \A w \in Watchers : view[w].tx => Len(view[w].queue) <= QueueFrames

IInv == /\ TypeOK /\ WindowIsDense /\ SubscribersExpectLive
        /\ HistoryOK /\ ConsumersOK /\ FlowOK /\ ReserveOK /\ LagIsTold
=============================================================================
