----------------------------- MODULE WatchStream -----------------------------
(***************************************************************************)
(* What watching a session promises, without its queues, its replay window *)
(* or its connections (docs/coreRuntime.md, "Cursor and gap semantics").   *)
(*                                                                         *)
(* Each attach of a session is a log of its own that only grows.  A        *)
(* watcher stands at a boundary, `at`: everything before it has been shown *)
(* or was announced as missing.  It moves by one event at a time, or       *)
(* forward through an announced gap, or back to the boundary the consumer  *)
(* last accepted.  Nothing else moves it, so no event is ever skipped in   *)
(* silence and none it accepted is shown again.                            *)
(***************************************************************************)
EXTENDS Naturals

CONSTANTS Watchers,       \* consumers of the session's events
          Incarnations,   \* pairs <<stream, epoch>>, one per attach
          NoCursor        \* no boundary yet

VARIABLES current,    \* the attach that events are appended to
          ends,       \* how many events each attach has published
          at,         \* the boundary each watcher was shown up to
          accepted,   \* the boundary each watcher would resume from
          gap         \* the gap the last acknowledgement announced, if any

absVars == <<current, ends, at, accepted, gap>>

Of(c) == <<c.stream, c.epoch>>

Boundary(i, n) == [stream |-> i[1], epoch |-> i[2], seq |-> n]

AbsInit ==
    /\ current \in Incarnations
    /\ ends = [i \in Incarnations |-> 0]
    /\ at = [w \in Watchers |-> NoCursor]
    /\ accepted = [w \in Watchers |-> NoCursor]
    /\ gap = [w \in Watchers |-> NoCursor]

AbsPublish ==
    /\ \E n \in 1 .. 2 : ends' = [ends EXCEPT ![current] = @ + n]
    /\ UNCHANGED <<current, at, accepted, gap>>

\* A later attach: its log starts empty and the earlier ones are closed.
AbsAttach ==
    /\ \E i \in Incarnations :
          /\ \/ i[1] > current[1]
             \/ i[1] = current[1] /\ i[2] > current[2]
          /\ current' = i
    /\ UNCHANGED <<ends, at, accepted, gap>>

\* A watcher with no boundary to resume from starts wherever it is told.
AbsStart(w) ==
    /\ accepted[w] = NoCursor
    /\ \E n \in 0 .. ends[current] :
          at' = [at EXCEPT ![w] = Boundary(current, n)]
    /\ gap' = [gap EXCEPT ![w] = NoCursor]
    /\ UNCHANGED <<current, ends, accepted>>

\* Resuming inside the current attach, exactly where the consumer stopped.
AbsResume(w) ==
    /\ accepted[w] # NoCursor
    /\ Of(accepted[w]) = current
    /\ at' = [at EXCEPT ![w] = accepted[w]]
    /\ gap' = [gap EXCEPT ![w] = NoCursor]
    /\ UNCHANGED <<current, ends, accepted>>

\* Resuming past what is missing: the skip is announced, and goes forward.
AbsGap(w) ==
    /\ accepted[w] # NoCursor
    /\ \E n \in 0 .. ends[current] :
          /\ Of(accepted[w]) = current => n > accepted[w].seq
          /\ at' = [at EXCEPT ![w] = Boundary(current, n)]
          /\ gap' = [gap EXCEPT ![w] = [requested |-> accepted[w],
                                        liveAt |-> Boundary(current, n)]]
    /\ UNCHANGED <<current, ends, accepted>>

AbsDeliver(w) ==
    /\ at[w] # NoCursor
    /\ at[w].seq < ends[Of(at[w])]
    /\ at' = [at EXCEPT ![w].seq = @ + 1]
    /\ UNCHANGED <<current, ends, accepted, gap>>

AbsAccept(w) ==
    /\ accepted' = [accepted EXCEPT ![w] = at[w]]
    /\ UNCHANGED <<current, ends, at, gap>>

AbsNext ==
    \/ AbsPublish
    \/ AbsAttach
    \/ \E w \in Watchers :
          \/ AbsStart(w) \/ AbsResume(w) \/ AbsGap(w)
          \/ AbsDeliver(w) \/ AbsAccept(w)

AbsSpec == AbsInit /\ [][AbsNext]_absVars
=============================================================================
