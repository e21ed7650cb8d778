------------------------------ MODULE ReplayRing ------------------------------
(***************************************************************************)
(* The reconnect window of one session: the last few frames, oldest first, *)
(* bounded by a number of frames and by the payload bytes they hold        *)
(* (crates/runtrol-core/src/events/ring.rs).                               *)
(*                                                                         *)
(* A frame is its kind, its position (epoch and sequence number) and the   *)
(* size of its provider payload.  Which provider text it carries does not  *)
(* matter to any property of the window.                                   *)
(***************************************************************************)
EXTENDS Naturals, SequencesExt

CONSTANTS RingFrames,   \* RING_FRAMES: entries the window holds
          RingBytes     \* RING_BYTES: payload bytes the window holds

ASSUME RingAssumption == RingFrames \in Nat \ {0} /\ RingBytes \in Nat

-----------------------------------------------------------------------------
(* "event" and "notice" are frames a watcher is shown; "lost" is the        *)
(* window's marker for a frame it did not retain; "lagged" is the control   *)
(* item of a watcher's queue.                                              *)
Kinds == {"event", "notice", "lost", "lagged"}

Frame == [kind : Kinds, epoch : Nat, seq : Nat, size : Nat]

Lost(f) == [f EXCEPT !.kind = "lost", !.size = 0]

PayloadBytes(ring) ==
    LET upTo[i \in 0 .. Len(ring)] == IF i = 0 THEN 0 ELSE upTo[i - 1] + ring[i].size
    IN  upTo[Len(ring)]

\* Both bounds at once, as the eviction loop tests them; it ends when empty.
Fits(ring) ==
    \/ ring = <<>>
    \/ Len(ring) <= RingFrames /\ PayloadBytes(ring) <= RingBytes

From(ring, k) == SubSeq(ring, k, Len(ring))

\* What popping from the old end until both bounds hold leaves.
Evict(ring) ==
    From(ring, CHOOSE k \in 1 .. Len(ring) + 1 :
                  /\ Fits(From(ring, k))
                  /\ \A j \in 1 .. k - 1 : ~Fits(From(ring, j)))

Push(ring, f) ==
    IF f.size > RingBytes THEN <<Lost(f)>> ELSE Evict(Append(ring, f))

(* The frames a view replays: every entry but the loss markers.  Pushing a  *)
(* marker empties the window first, so a marker is only ever the oldest.   *)
Frames(ring) ==
    IF ring # <<>> /\ Head(ring).kind = "lost" THEN Tail(ring) ELSE ring

(* The held frames at and after a position of the window's own attach.      *)
(* Positions in the window are dense, so they are a suffix of it.          *)
FramesFrom(ring, cursor) ==
    LET held == Frames(ring)
    IN  From(held, 1 + cursor.seq - Head(held).seq)

\* Mutant: positions are compared across the attaches of one hub.
ReachAcrossAttaches(ring, requested, liveAt) ==
    IF requested.stream # liveAt.stream \/ requested.seq > liveAt.seq THEN "gap"
    ELSE IF requested.seq = liveAt.seq THEN "upToDate"
    ELSE IF Frames(ring) # <<>> /\ Head(Frames(ring)).seq <= requested.seq THEN "held" ELSE "gap"

(* What can be done for a subscriber that asks for `requested` while the    *)
(* next frame to be stamped is `liveAt`.                                   *)
Reach(ring, requested, liveAt) ==
    LET sameAttach == /\ requested.stream = liveAt.stream
                      /\ requested.epoch = liveAt.epoch
        crossesLoss == \E i \in DOMAIN ring : /\ ring[i].kind = "lost"
                                              /\ ring[i].epoch = requested.epoch
                                              /\ ring[i].seq >= requested.seq
        held == Frames(ring)
    IN  CASE ~sameAttach \/ requested.seq > liveAt.seq -> "gap"
          [] sameAttach /\ requested.seq = liveAt.seq  -> "upToDate"
          [] OTHER -> IF /\ ~crossesLoss
                         /\ held # <<>>
                         /\ Head(held).epoch = requested.epoch
                         /\ Head(held).seq <= requested.seq
                      THEN "held" ELSE "gap"
=============================================================================
