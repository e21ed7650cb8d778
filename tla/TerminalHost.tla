----------------------------- MODULE TerminalHost -----------------------------
(***************************************************************************)
(* One hosted command line on one pseudo terminal                          *)
(* (runtrol-core/src/terminal/mod.rs).  A reader thread hands what the     *)
(* child wrote to a host task over a bounded queue; the host publishes     *)
(* each chunk, numbered, to a ring that viewers and the terminal authority *)
(* read; the authority applies each chunk to the one screen and writes the *)
(* answers to the child's questions; callers type and resize through a     *)
(* gate that keeps one of them at the terminal; a watcher observes the     *)
(* child's exit and tells it once everything has drained.                  *)
(*                                                                         *)
(* The tasks share one thread of a current-thread runtime, so an action is *)
(* what a task does between two points where it really waits; the reader,  *)
(* the writer and the stop worker are threads and act on their own.        *)
(* Because Shared::finish runs without waiting, its flag and the           *)
(* backpressure it releases are one variable.                              *)
(***************************************************************************)
EXTENDS Integers, Sequences, FiniteSets, SequencesExt

CONSTANTS
    Viewers,      \* attachments: windows, phones, local brokers
    Callers,      \* owners of a reserved terminal operation
    RingChunks,   \* RING_CHUNKS of the output ring
    QueueChunks,  \* RING_CHUNKS of the reader's queue
    Admissions,   \* TERMINAL_OPERATION_ADMISSIONS
    MaxChunks,    \* bound on what the child writes
    None

Failures == {"HostInitializationFailed", "OutputReadFailed", "ControlStateLost",
             "InputDeliveryUnknown"}
Chunks == {"plain", "query"}

ASSUME HostAssumption ==
    /\ RingChunks \in Nat \ {0} /\ QueueChunks \in Nat \ {0}
    /\ Admissions \in Nat \ {0} /\ MaxChunks \in Nat
    /\ "authority" \notin Callers /\ None \notin Failures

VARIABLES
    child,       \* the process: running, told to stop, exited
    console,     \* the pseudo terminal: "kept" where finishing closes nothing
    reader,      \* the reader thread
    incoming,    \* its queue of chunks, then at most one fault
    host,        \* the host task: idle, a chunk in hand, over
    next,        \* the sequence the next published chunk gets
    asks,        \* published chunks, not applied yet, that ask a question
    authority,   \* the projector task
    through,     \* the last chunk it applied
    permit,      \* the stored permit of the `published` notification
    screen,      \* the chunks the screen model holds
    available,   \* whether that screen may be handed out
    torn,        \* history: rebuilding it for a resize has lost it once
    order,       \* the order lock: its holder, then who waits for it
    caller,      \* each caller's place in its operation
    finished,    \* input is closed and publication held back by nobody
    initialized, \* whether every lane of the host came up
    failure,     \* the first host failure
    watcher,     \* the exit watcher; "told" once the exit code is out
    view         \* each viewer's attachment

hostVars == <<reader, incoming, host, next, asks>>
screenVars == <<through, screen, available, torn>>
endVars == <<finished, failure, permit>>
vars == <<child, console, reader, incoming, host, next, asks, authority, through, permit,
          screen, available, torn, order, caller, finished, initialized, failure, watcher, view>>

Detached == [at |-> "out", since |-> 0, pos |-> 0, shown |-> {}]

Told == watcher = "told"
Drained == host = "over"

(* A host whose lanes never came up keeps only its child, which it tried to *)
(* kill, and its watcher.  A Windows pseudo console is open until it is     *)
(* closed; a Unix pseudo terminal is kept until its last holder is gone.    *)
Init ==
    /\ initialized \in BOOLEAN
    /\ child \in {"running", "killed"}
    /\ initialized => child = "running"
    /\ console \in {"open", "kept"}
    /\ reader = IF initialized THEN "reading" ELSE "over"
    /\ incoming = << >>
    /\ host = IF initialized THEN "idle" ELSE "over"
    /\ next = 1
    /\ asks = {}
    /\ authority = IF initialized THEN "running" ELSE "over"
    /\ through = 0
    /\ permit = FALSE
    /\ screen = {}
    /\ available = initialized
    /\ torn = FALSE
    /\ order = << >>
    /\ caller = [c \in Callers |-> "out"]
    /\ finished = FALSE
    /\ failure = IF initialized THEN None ELSE "HostInitializationFailed"
    /\ watcher = "observing"
    /\ view = [v \in Viewers |-> Detached]

(***************************************************************************)
(* Ending: the first failure is kept, input closes, publication is freed.  *)
(***************************************************************************)
Finish ==
    /\ finished' = TRUE
    /\ permit' = (permit \/ ~finished)

(* The child is told to stop on a worker thread and goes in its own time.  A *)
(* kill that fails is reported and not tried again.                        *)
Kill == (child = "running" /\ child' = "killed") \/ UNCHANGED child

\* Mutant of Fail: the failure is noted, but input stays open.
FailNoted(f) ==
    /\ failure' = IF ~Told /\ failure = None THEN f ELSE failure
    /\ UNCHANGED <<finished, permit>>
    /\ Kill

Fail(f) ==
    /\ failure' = IF ~Told /\ failure = None THEN f ELSE failure
    /\ Finish
    /\ Kill

Leaves(who) == \E i \in DOMAIN order : order[i] = who /\ order' = RemoveAt(order, i)

(***************************************************************************)
(* The child and the reader thread.                                        *)
(***************************************************************************)
Exits ==
    /\ child # "exited"
    /\ child' = "exited"
    /\ UNCHANGED <<console, hostVars, authority, screenVars, endVars, order, caller,
                   initialized, watcher, view>>

InHand == IF host \in Chunks THEN 1 ELSE 0

Reads(kind) ==
    /\ reader = "reading"
    /\ Len(incoming) < QueueChunks
    /\ next - 1 + InHand + Len(incoming) < MaxChunks
    /\ incoming' = Append(incoming, kind)
    /\ UNCHANGED <<child, console, reader, host, next, asks, authority, screenVars, endVars,
                   order, caller, initialized, watcher, view>>

ReadFaults ==
    /\ reader = "reading"
    /\ Len(incoming) < QueueChunks
    /\ incoming' = Append(incoming, "fault")
    /\ reader' = "over"
    /\ UNCHANGED <<child, console, host, next, asks, authority, screenVars, endVars, order,
                   caller, initialized, watcher, view>>

ReadEnds ==
    /\ reader = "reading"
    /\ reader' = "over"
    /\ UNCHANGED <<child, console, incoming, host, next, asks, authority, screenVars, endVars,
                   order, caller, initialized, watcher, view>>

(***************************************************************************)
(* The host task.                                                          *)
(***************************************************************************)
Takes ==
    /\ host = "idle"
    /\ incoming # << >>
    /\ incoming' = Tail(incoming)
    /\ IF Head(incoming) = "fault"
       THEN Fail("OutputReadFailed") /\ UNCHANGED host
       ELSE host' = Head(incoming) /\ UNCHANGED <<child, endVars>>
    /\ UNCHANGED <<console, reader, next, asks, authority, screenVars, order, caller,
                   initialized, watcher, view>>

\* Mutant of HeldBack: one chunk too many before publication waits.
HeldBackLate == ~finished /\ next - through > RingChunks + 1

\* Mutant of HeldBack: the end of the terminal does not free publication.
HeldBackForEver == next - through > RingChunks

(* Publication waits only for the authority, and only while it is live.    *)
HeldBack == ~finished /\ next - through > RingChunks

Publishes ==
    /\ host \in Chunks
    /\ ~HeldBack
    /\ next' = next + 1
    /\ asks' = IF host = "query" THEN asks \cup {next} ELSE asks
    /\ host' = "idle"
    /\ permit' = TRUE
    /\ UNCHANGED <<child, console, reader, incoming, authority, screenVars, order, caller,
                   finished, failure, initialized, watcher, view>>

HostEnds ==
    /\ host = "idle"
    /\ reader = "over"
    /\ incoming = << >>
    /\ host' = "over"
    /\ permit' = TRUE
    /\ UNCHANGED <<child, console, reader, incoming, next, asks, authority, screenVars, order,
                   caller, finished, failure, initialized, watcher, view>>

(***************************************************************************)
(* The authority: one chunk at a time, its answer before the next chunk.   *)
(***************************************************************************)
Overrun == next - 1 - through > RingChunks
Unread == next - 1 > through

Applies ==
    /\ authority = "running"
    /\ Unread /\ ~Overrun
    /\ through' = through + 1
    /\ screen' = screen \cup {through'}
    /\ IF through' \in asks /\ ~finished
       THEN authority' = "queued" /\ order' = Append(order, "authority")
       ELSE UNCHANGED <<authority, order>>
    /\ asks' = asks \ {through'}
    /\ UNCHANGED <<child, console, reader, incoming, host, next, available, torn, endVars, caller,
                   initialized, watcher, view>>

(* The screen model panicked over a chunk.                                 *)
LosesScreen ==
    /\ authority = "running"
    /\ Unread /\ ~Overrun
    /\ screen' = {}
    /\ available' = FALSE
    /\ authority' = "over"
    /\ Fail("ControlStateLost")
    /\ UNCHANGED <<console, hostVars, through, torn, order, caller, initialized, watcher,
                   view>>

IsOverrun ==
    /\ authority = "running"
    /\ Overrun
    /\ available' = FALSE
    /\ authority' = "over"
    /\ IF finished THEN UNCHANGED <<child, endVars>> ELSE Fail("ControlStateLost")
    /\ UNCHANGED <<console, hostVars, through, screen, torn, order, caller, initialized,
                   watcher, view>>

Rests ==
    /\ authority = "running"
    /\ ~Unread
    /\ authority' = IF Drained THEN "over" ELSE "asleep"
    /\ UNCHANGED <<child, console, hostVars, screenVars, endVars, order, caller, initialized,
                   watcher, view>>

Wakes ==
    /\ authority = "asleep"
    /\ permit
    /\ permit' = FALSE
    /\ authority' = "running"
    /\ UNCHANGED <<child, console, hostVars, screenVars, finished, failure, order, caller,
                   initialized, watcher, view>>

Answers ==
    /\ authority = "queued"
    /\ ~finished
    /\ Head(order) = "authority"
    /\ authority' = "writing"
    /\ UNCHANGED <<child, console, hostVars, screenVars, endVars, order, caller, initialized,
                   watcher, view>>

AnswerDropped ==
    /\ authority = "queued"
    /\ finished
    /\ authority' = "running"
    /\ Leaves("authority")
    /\ UNCHANGED <<child, console, hostVars, screenVars, endVars, caller, initialized, watcher,
                   view>>

AnswerWritten ==
    /\ authority = "writing"
    /\ authority' = "running"
    /\ Leaves("authority")
    /\ UNCHANGED <<child, console, hostVars, screenVars, endVars, caller, initialized, watcher,
                   view>>

AnswerUncertain ==
    /\ authority = "writing"
    /\ authority' = "running"
    /\ Leaves("authority")
    /\ Fail("InputDeliveryUnknown")
    /\ UNCHANGED <<console, hostVars, screenVars, caller, initialized, watcher, view>>

(***************************************************************************)
(* Callers: a bounded gate, one of them at the terminal.                   *)
(***************************************************************************)
Reserves(c) ==
    /\ caller[c] = "out"
    /\ Cardinality({d \in Callers : caller[d] # "out"}) < Admissions
    /\ caller' = [caller EXCEPT ![c] = "queued"]
    /\ order' = Append(order, c)
    /\ UNCHANGED <<child, console, hostVars, authority, screenVars, endVars, initialized,
                   watcher, view>>

\* Mutant of Withdraws: the retired reservation keeps its place in the order.
WithdrawsInPlace(c) ==
    /\ caller[c] = "queued"
    /\ caller' = [caller EXCEPT ![c] = "out"]
    /\ UNCHANGED <<child, console, hostVars, authority, screenVars, endVars, order, initialized,
                   watcher, view>>

(* Superseded, cancelled, or refused at the terminal.                      *)
Withdraws(c) ==
    /\ caller[c] = "queued"
    /\ caller' = [caller EXCEPT ![c] = "out"]
    /\ Leaves(c)
    /\ UNCHANGED <<child, console, hostVars, authority, screenVars, endVars, initialized,
                   watcher, view>>

AtTerminal(c) == caller[c] = "queued" /\ Head(order) = c /\ initialized

Writes(c) ==
    /\ AtTerminal(c)
    /\ ~finished
    /\ caller' = [caller EXCEPT ![c] = "writing"]
    /\ UNCHANGED <<child, console, hostVars, authority, screenVars, endVars, order, initialized,
                   watcher, view>>

Written(c) ==
    /\ caller[c] = "writing"
    /\ caller' = [caller EXCEPT ![c] = "out"]
    /\ Leaves(c)
    /\ UNCHANGED <<child, console, hostVars, authority, screenVars, endVars, initialized,
                   watcher, view>>

(* A short write, a closed writer, or no answer within the deadline.       *)
WriteUncertain(c) ==
    /\ caller[c] = "writing"
    /\ caller' = [caller EXCEPT ![c] = "out"]
    /\ Leaves(c)
    /\ Fail("InputDeliveryUnknown")
    /\ UNCHANGED <<console, hostVars, authority, screenVars, initialized, watcher, view>>

Resizes(c) ==
    /\ AtTerminal(c)
    /\ console # "closed"
    /\ available' = TRUE
    /\ caller' = [caller EXCEPT ![c] = "out"]
    /\ Leaves(c)
    /\ UNCHANGED <<child, console, hostVars, authority, through, screen, torn, endVars,
                   initialized, watcher, view>>

ResizeLosesScreen(c) ==
    /\ AtTerminal(c)
    /\ console # "closed"
    /\ screen' = {}
    /\ available' = FALSE
    /\ torn' = TRUE
    /\ caller' = [caller EXCEPT ![c] = "out"]
    /\ Leaves(c)
    /\ Fail("ControlStateLost")
    /\ UNCHANGED <<console, hostVars, authority, through, initialized, watcher, view>>

(* The owner stops the child.                                              *)
Stops ==
    /\ child = "running"
    /\ Kill
    /\ UNCHANGED <<console, hostVars, authority, screenVars, endVars, order, caller,
                   initialized, watcher, view>>

(***************************************************************************)
(* The watcher.                                                            *)
(***************************************************************************)
Observes ==
    /\ watcher = "observing"
    /\ child = "exited"
    /\ watcher' = "closing"
    /\ Finish
    /\ UNCHANGED <<child, console, hostVars, authority, screenVars, failure, order, caller,
                   initialized, view>>

ClosesConsole ==
    /\ watcher = "closing"
    /\ watcher' = "draining"
    /\ console' = IF console = "open" THEN "closed" ELSE console
    /\ UNCHANGED <<child, hostVars, authority, screenVars, endVars, order, caller, initialized,
                   view>>

\* Mutant of Tells: the exit waits for the raw output alone.
TellsWhenDrained ==
    /\ watcher = "draining"
    /\ Drained
    /\ watcher' = "told"
    /\ UNCHANGED <<child, console, hostVars, authority, screenVars, endVars, order, caller,
                   initialized, view>>

Tells ==
    /\ watcher = "draining"
    /\ Drained
    /\ authority = "over"
    /\ watcher' = "told"
    /\ UNCHANGED <<child, console, hostVars, authority, screenVars, endVars, order, caller,
                   initialized, view>>

(***************************************************************************)
(* Viewers: a picture at one sequence, then every later chunk.             *)
(***************************************************************************)
Attaches(v) ==
    /\ view[v].at = "out"
    /\ view' = [view EXCEPT ![v].at = "attaching"]
    /\ UNCHANGED <<child, console, hostVars, authority, screenVars, endVars, order, caller,
                   initialized, watcher>>

\* Mutant of AtBoundary: a viewer is given whatever the screen shows.
AtAnyBoundary == TRUE

AtBoundary == ~available \/ through + 1 = next

(* `since` is the first chunk the viewer owes its picture to.               *)
Watching(whole) ==
    [at |-> "watching", since |-> IF whole THEN 1 ELSE next, pos |-> next,
     shown |-> IF whole THEN screen ELSE {}]

(* Serializing the screen may fail for this attachment alone.              *)
Checkpoint(v) ==
    /\ view[v].at = "attaching"
    /\ AtBoundary
    /\ \E serialized \in BOOLEAN :
          view' = [view EXCEPT ![v] = Watching(available /\ serialized)]
    /\ UNCHANGED <<child, console, hostVars, authority, screenVars, endVars, order, caller,
                   initialized, watcher>>

(* CHECKPOINT_WAIT passed before the authority reached the boundary.       *)
Unavailable(v) ==
    /\ view[v].at = "attaching"
    /\ ~AtBoundary
    /\ view' = [view EXCEPT ![v] = Watching(FALSE)]
    /\ UNCHANGED <<child, console, hostVars, authority, screenVars, endVars, order, caller,
                   initialized, watcher>>

Lagged(v) == next - view[v].pos > RingChunks

Receives(v) ==
    /\ view[v].at = "watching"
    /\ view[v].pos < next
    /\ ~Lagged(v)
    /\ view' = [view EXCEPT ![v].pos = @ + 1, ![v].shown = @ \cup {view[v].pos}]
    /\ UNCHANGED <<child, console, hostVars, authority, screenVars, endVars, order, caller,
                   initialized, watcher>>

(* A viewer that fell behind the ring is given one fresh attachment.       *)
Replaced(v) ==
    /\ view[v].at = "watching"
    /\ Lagged(v)
    /\ view' = [view EXCEPT ![v] = [Detached EXCEPT !.at = "attaching"]]
    /\ UNCHANGED <<child, console, hostVars, authority, screenVars, endVars, order, caller,
                   initialized, watcher>>

Detaches(v) ==
    /\ view[v].at = "watching"
    /\ view' = [view EXCEPT ![v] = Detached]
    /\ UNCHANGED <<child, console, hostVars, authority, screenVars, endVars, order, caller,
                   initialized, watcher>>

(* The exit follows the last chunk this view's receiver still held.        *)
LearnsExit(v) ==
    /\ Told
    /\ view[v].at = "watching"
    /\ view[v].pos = next
    /\ view' = [view EXCEPT ![v].at = "ended"]
    /\ UNCHANGED <<child, console, hostVars, authority, screenVars, endVars, order, caller,
                   initialized, watcher>>

-----------------------------------------------------------------------------
ChildSteps == Exits \/ Stops
ReaderSteps == (\E kind \in Chunks : Reads(kind)) \/ ReadFaults \/ ReadEnds
HostSteps == Takes \/ Publishes \/ HostEnds
AuthoritySteps ==
    \/ Applies \/ LosesScreen \/ IsOverrun \/ Rests \/ Wakes
    \/ Answers \/ AnswerDropped \/ AnswerWritten \/ AnswerUncertain
Attends(c) ==
    \/ Withdraws(c) \/ Writes(c) \/ Written(c) \/ WriteUncertain(c)
    \/ Resizes(c) \/ ResizeLosesScreen(c)
WatcherSteps == Observes \/ ClosesConsole \/ Tells
ViewerSteps(v) ==
    \/ Attaches(v) \/ Checkpoint(v) \/ Unavailable(v) \/ Receives(v) \/ Replaced(v)
    \/ Detaches(v) \/ LearnsExit(v)

Next ==
    \/ ChildSteps
    \/ ReaderSteps
    \/ HostSteps
    \/ AuthoritySteps
    \/ \E c \in Callers : Reserves(c) \/ Attends(c)
    \/ WatcherSteps
    \/ \E v \in Viewers : ViewerSteps(v)

(* Tasks are scheduled, a blocked write is given up after its deadline, a  *)
(* killed child exits, and the reader of a closed Windows console ends.    *)
(* Nothing ends the reader of a Unix terminal but its last holder.         *)
Fairness ==
    /\ WF_vars(HostSteps)
    /\ WF_vars(AuthoritySteps)
    /\ WF_vars(WatcherSteps)
    /\ \A c \in Callers : WF_vars(Attends(c))
    /\ WF_vars(child = "killed" /\ Exits)
    /\ WF_vars(console = "closed" /\ ReadEnds)

Spec == Init /\ [][Next]_vars
FairSpec == Spec /\ Fairness
-----------------------------------------------------------------------------
(* The order lock lists exactly those who hold it or wait for it, once.    *)
TurnsMatch ==
    /\ IsInjective(order)
    /\ ToSet(order) = {c \in Callers : caller[c] # "out"}
                      \cup (IF authority \in {"queued", "writing"} THEN {"authority"} ELSE {})
    /\ \A c \in Callers : caller[c] = "writing" => Head(order) = c
    /\ authority = "writing" => Head(order) = "authority"

(* Every variable has its type and the order lock its waiters.             *)
TypeOK ==
    /\ TurnsMatch
    /\ child \in {"running", "killed", "exited"}
    /\ console \in {"open", "closed", "kept"}
    /\ reader \in {"reading", "over"}
    /\ incoming \in BoundedSeq(Chunks \cup {"fault"}, QueueChunks)
    /\ host \in Chunks \cup {"idle", "over"}
    /\ next \in 1..MaxChunks + 1
    /\ asks \subseteq 1..MaxChunks
    /\ authority \in {"running", "asleep", "queued", "writing", "over"}
    /\ through \in 0..MaxChunks
    /\ permit \in BOOLEAN
    /\ screen \subseteq 1..MaxChunks
    /\ available \in BOOLEAN /\ torn \in BOOLEAN
    /\ order \in Seq(Callers \cup {"authority"})
    /\ caller \in [Callers -> {"out", "queued", "writing"}]
    /\ finished \in BOOLEAN /\ initialized \in BOOLEAN
    /\ failure \in Failures \cup {None}
    /\ watcher \in {"observing", "closing", "draining", "told"}
    /\ view \in [Viewers -> [at : {"out", "attaching", "watching", "ended"},
                             since : 0..MaxChunks + 1, pos : 0..MaxChunks + 1,
                             shown : SUBSET (1..MaxChunks)]]

(* A terminal whose input is open never overwrites output its authority    *)
(* has not applied, so an open terminal's authority is live and lossless   *)
(* whatever viewers do (mod.rs:1042-1071, docs/terminalSurface.md:53-55).  *)
Lossless ==
    ~finished /\ initialized =>
        /\ next - 1 - through <= RingChunks
        /\ authority = "over" => Drained

(* What a viewer shows is everything up to where it reads when it was given *)
(* a picture, and exactly what followed its boundary when it was not: no    *)
(* chunk is missed or ahead of the picture, through lag, replacement and    *)
(* exit (mod.rs:569-582, 1103-1136; docs/terminalSurface.md:60-62).  The    *)
(* one exception is a terminal whose screen a resize has lost: it is being  *)
(* closed, but until it is, another resize offers its blank screen as whole.*)
ViewsAreExact ==
    \A v \in Viewers : view[v].at \in {"watching", "ended"} =>
        \/ view[v].shown = view[v].since..(view[v].pos - 1)
        \/ torn /\ view[v].since = 1 /\ view[v].shown \subseteq 1..(view[v].pos - 1)

(* The exit code is the last thing a terminal says.  By then the reader has *)
(* ended, everything it accepted is published, and the authority is done:  *)
(* it has applied it all, or a failure is recorded, or more than the ring   *)
(* was published past it once exit had freed publication, which ends it     *)
(* with no failure recorded (mod.rs:1154-1159).  A view told of the exit    *)
(* has received every chunk (mod.rs:1195-1237).  docs/terminalSurface.md:   *)
(* 121-123 promises more: that the authority always consumes the accepted   *)
(* bytes before the exit.                                                  *)
ExitIsLast ==
    /\ Told =>
        /\ child = "exited" /\ reader = "over" /\ incoming = << >> /\ host = "over"
        /\ authority = "over"
        /\ through + 1 = next \/ failure # None \/ Overrun
    /\ \A v \in Viewers : view[v].at = "ended" => Told /\ view[v].pos = next

(* After a failure is recorded nothing new is written to the child, by a   *)
(* caller or by the authority, whoever was waiting for its turn; and the   *)
(* failure recorded first stays (mod.rs:940-1027, completion.rs:30-45).    *)
FailureIsFinal ==
    [][failure # None =>
          /\ failure' = failure
          /\ authority' = "writing" => authority = "writing"
          /\ \A c \in Callers : caller'[c] = "writing" => caller[c] = "writing"]_vars

(* Once the child has been killed or is gone, and on Unix the last holder   *)
(* of its terminal with it, the exit is told: neither backpressure, a held  *)
(* order lock nor a missed wakeup keeps the watcher waiting                 *)
(* (mod.rs:1195-1237).                                                      *)
ExitIsTold == (child # "running" /\ (console # "kept" \/ reader = "over")) ~> Told
=============================================================================
