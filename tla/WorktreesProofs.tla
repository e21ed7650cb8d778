--------------------------- MODULE WorktreesProofs ---------------------------
(***************************************************************************)
(* Theorems about Worktrees for every number of Runtimes, resuming          *)
(* terminals and sessions.  What a keeper's proof guards is stated under    *)
(* the hypothesis that generations have keepers.                           *)
(***************************************************************************)
EXTENDS Worktrees, TLAPS

-----------------------------------------------------------------------------
(* The inductive invariant.                                                *)

\* Types, with that of the copies, which TypeOK leaves open.
Resume == [t : Resumes \cup {None}, rt : Runtimes \cup {None},
           process : BOOLEAN, done : BOOLEAN]

Row == [state : {"absent", "creating", "ready", "bound", "preserved", "released"},
        rt : Runtimes \cup {None}, done : BOOLEAN, dir : BOOLEAN,
        process : BOOLEAN, sess : Sessions \cup {None}, closed : BOOLEAN,
        resume : Resume]

Operation == [rt : Runtimes \cup {None}, fresh : BOOLEAN,
              does : {"nothing", "prepare", "remove", "resume"},
              step : {"none", "recorded", "made", "captured", "added",
                      "checked", "clean", "removed"}]

Occupancy == [rt : Runtimes \cup {None}, exit : {"no", "owed", "done"},
              at : {"none", "pending", "ready", "born", "up", "over",
                    "opening", "read", "cleared", "running",
                    "closing", "ended", "completing"}]

Copies == [Sessions -> [row : Row, fresh : BOOLEAN]]

\* A row is of one kind, and only processes of that kind begin.
KindOK ==
    /\ kind = "chat" => /\ \A t \in Terminals : occ[t].rt = None
                        /\ ~ row.process /\ row.resume = NoResume
    /\ kind = "worker" => \A s \in Sessions : occ[s].rt = None

\* A Runtime that is up tells where its processes are; one that is gone left
\* them behind, over as far as it could tell.
Follows(p) ==
    /\ occ[p].at # "none" => occ[p].rt # None
    /\ occ[p].at \notin {"none", "over"} => Up(occ[p].rt)
    /\ occ[p].at \notin {"born", "up", "over"} => occ[p].exit = "no"
    /\ occ[p].exit = "owed" => Up(occ[p].rt)
    /\ p \in live =>
         \/ /\ Up(occ[p].rt) /\ occ[p].exit = "no"
            /\ occ[p].at \in {"born", "up", "running", "closing"}
         \/ /\ occ[p].rt \in Runtimes /\ phase[occ[p].rt] = "gone"
            /\ occ[p].at = "over"

ProcessesOK == (\A p \in Processes : Follows(p)) /\ (\A g \in sweeps : Up(g))

\* What the three operations have established about the row when they go on.
Preparing ==
    /\ op.step \in {"recorded", "made", "captured", "added"}
    /\ row.state = "creating"
    /\ kind = "worker" => occ[Worker].at = "pending" /\ occ[Worker].rt = op.rt

Removing ==
    /\ op.step \in {"checked", "clean", "removed"}
    /\ row.state \notin {"absent", "released"}
    /\ op.step = "removed" => disk = "none"
    /\ occ[Worker].at # "ready"
    /\ occ[Worker].at = "born" => occ[Worker].exit # "no"

Resuming ==
    /\ op.step = "none"
    /\ row.state \in {"bound", "preserved"} /\ row.process
    /\ row.resume.t \in Resumes /\ row.resume.rt = op.rt
    /\ occ[row.resume.t].at \in {"pending", "born"}

LeaseOK ==
    /\ op.does = "nothing" => op = NoOp
    /\ op.does # "nothing" => Up(op.rt)
    /\ op.does = "prepare" => Preparing
    /\ op.does = "remove" => Removing
    /\ op.does = "resume" => Resuming
    /\ \A t \in Resumes : occ[t].at \in {"pending", "born"} =>
           op.does = "resume" /\ row.resume.t = t

\* The row names the Runtimes of the terminals it names, and is as far as they are.
OwnersOK ==
    /\ row.state = "absent" => row = NoRow
    /\ row.state # "absent" /\ kind = "worker" =>
           row.rt = occ[Worker].rt /\ occ[Worker].at # "none"
    /\ occ[Worker].at = "ready" => row.state = "ready"
    /\ occ[Worker].at = "born" /\ occ[Worker].exit = "no" => row.state = "ready"
    /\ row.process => occ[Worker].at \in {"up", "over"}
    /\ row.resume # NoResume =>
           /\ row.process /\ row.resume.t \in Resumes
           /\ row.resume.rt = occ[row.resume.t].rt
           /\ occ[row.resume.t].at # "none"

DiskOK ==
    /\ disk # "none" => row.state \notin {"absent", "released"}
    /\ work # "none" => Linked

\* A completed generation is gone and has left no process behind.
Complete(g) ==
    g \in Runtimes /\ phase[g] = "gone" /\ \A p \in live : occ[p].rt # g

\* A session that is recorded as closed has not been opened again, and who wants
\* to open it knows.
ClosedOK(s) ==
    row.closed /\ row.sess = s =>
        /\ Keepers /\ s \notin live
        /\ occ[s].at \notin {"cleared", "running", "closing"}
        /\ occ[s].at = "read" => seen[s].row.closed

CopyOK(s) ==
    /\ seen[s].fresh => seen[s].row = row
    /\ occ[s].at = "completing" => Keepers /\ seen[s].row.sess = s
    /\ occ[s].rt # None => row.state # "absent"

GenerationsOK ==
    /\ row.done => Complete(row.rt)
    /\ row.resume.done => Complete(row.resume.rt)

CopiesOK == \A s \in Sessions : ClosedOK(s) /\ CopyOK(s)

Base == /\ TypeOK /\ seen \in Copies
        /\ KindOK /\ ProcessesOK /\ LeaseOK /\ OwnersOK /\ DiskOK
        /\ GenerationsOK /\ CopiesOK

\* With keepers the lease says who may be there: nobody who is to be removed, and
\* nobody but the terminal that resumes.
NobodyLeft ==
    op.does = "remove" =>
        /\ live = {}
        /\ op.step = "clean" => work = "none"
        /\ kind = "chat" => /\ op.rt = row.rt \/ row.done
                            /\ \A s \in Sessions : occ[s].rt = row.rt =>
                                   occ[s].at \in {"none", "over"}

ResumerAlone == op.does = "resume" => live \subseteq {row.resume.t}

\* A session that has got past its row, or still runs, is of the row's Runtime.
SessionsOfRow ==
    \A s \in Sessions :
        /\ occ[s].at = "read" => seen[s].row.rt = row.rt
        /\ \/ s \in live
           \/ occ[s].at \in {"cleared", "running", "closing", "ended", "completing"}
           => occ[s].rt = row.rt

Vacancy == NobodyLeft /\ ResumerAlone /\ SessionsOfRow /\ OccupancyIsTrue

IInv == Base /\ (Keepers => Vacancy)


-----------------------------------------------------------------------------
(* Parts of the state after a step.                                        *)

Places == {"none", "pending", "ready", "born", "up", "over", "opening", "read",
           "cleared", "running", "closing", "ended", "completing"}
Exits == {"no", "owed", "done"}

\* p's place, Runtime and exit after the step; nobody else's change.
Occupies(p, a, g, e) ==
    /\ occ' \in [Processes -> Occupancy]
    /\ occ'[p].at = a /\ occ'[p].rt = g /\ occ'[p].exit = e
    /\ \A q \in Processes : q # p => occ'[q] = occ[q]

Typed == /\ row \in Row /\ op \in Operation /\ occ \in [Processes -> Occupancy]
         /\ kind \in Kinds /\ phase \in [Runtimes -> {"new", "up", "gone"}]
         /\ live \subseteq Processes

LEMMA StateIsTyped == TypeOK => Typed
  BY DEF TypeOK, Typed, Row, Resume, Operation, Occupancy

\* Who is who.
LEMMA NamesApart ==
    /\ None \notin Processes /\ None \notin Runtimes
    /\ Worker \in Terminals /\ Worker \notin Resumes /\ Worker \notin Sessions
    /\ Resumes \subseteq Terminals /\ Terminals \cap Sessions = {}
    /\ Terminals \subseteq Processes /\ Sessions \subseteq Processes
    /\ Processes = Terminals \cup Sessions /\ Terminals = Resumes \cup {Worker}
  BY WorktreesAssumption DEF Terminals, Processes

\* The step an operation has reached tells which it is.
LEMMA OperationKnown ==
    ASSUME TypeOK, LeaseOK
    PROVE  /\ op.step \in {"recorded", "made", "captured", "added"} =>
                  op.does = "prepare" /\ Preparing
           /\ op.step \in {"checked", "clean", "removed"} => op.does = "remove" /\ Removing
           /\ op.does # "nothing" <=> op # NoOp
  BY DEF TypeOK, LeaseOK, Preparing, Removing, Resuming, NoOp

LEMMA KindsKnown == Kinds \subseteq {"chat", "worker"}
  BY WorktreesAssumption

\* The rest of TypeOK: what the store checks of a row, and the small variables.
Checked ==
    /\ sweeps \subseteq Runtimes
    /\ disk \in {"none", "empty", "partial", "linked"}
    /\ work \in {"none", "dirty", "committed"}
    /\ row.state = "bound" => row.process \/ row.sess # None
    /\ row.state \in {"creating", "ready"} => row.sess = None /\ row.resume = NoResume
    /\ row.closed => row.sess # None
    /\ row.process => row.dir

LEMMA StateIsChecked == TypeOK => Checked
  BY DEF TypeOK, Checked

LEMMA TypesHold ==
    ASSUME row' \in Row, op' \in Operation, occ' \in [Processes -> Occupancy],
           kind' \in Kinds, phase' \in [Runtimes -> {"new", "up", "gone"}],
           live' \subseteq Processes, seen' \in Copies, Checked'
    PROVE  TypeOK'
  BY DEF TypeOK, Row, Resume, Operation, Occupancy, Copies, Checked

\* What the parts of the row and of the operation become.
LEMMA ResumeDone ==
    ASSUME NEW x \in Resume, NEW d \in BOOLEAN, NEW k, k = [x EXCEPT !.done = d]
    PROVE  /\ k \in Resume /\ k.t = x.t /\ k.rt = x.rt
           /\ k.process = x.process /\ k.done = d
           /\ x = NoResume /\ ~ d => k = NoResume
<1>1. /\ k \in Resume /\ k.t = x.t /\ k.rt = x.rt
      /\ k.process = x.process /\ k.done = d
  BY DEF Resume
<1>2. ASSUME x = NoResume, ~ d PROVE k = NoResume
  BY <1>2 DEF NoResume
<1> QED
  BY <1>1, <1>2

LEMMA ResumeCleared ==
    ASSUME NEW x \in Row, NEW k, k = [x EXCEPT !.resume = NoResume]
    PROVE  /\ k \in Row /\ k.state = x.state /\ k.rt = x.rt /\ k.done = x.done
           /\ k.dir = x.dir /\ k.process = x.process /\ k.sess = x.sess
           /\ k.closed = x.closed /\ k.resume = NoResume
  BY DEF Row, Resume, NoResume

LEMMA ClosedChanges ==
    ASSUME NEW x \in Row, NEW b \in BOOLEAN, NEW k, k = [x EXCEPT !.closed = b]
    PROVE  /\ k \in Row /\ k.state = x.state /\ k.rt = x.rt /\ k.done = x.done
           /\ k.dir = x.dir /\ k.process = x.process /\ k.sess = x.sess
           /\ k.resume = x.resume /\ k.closed = b
  BY DEF Row

LEMMA FreshChanges ==
    ASSUME NEW x \in Operation, NEW b \in BOOLEAN, NEW k, k = [x EXCEPT !.fresh = b]
    PROVE  /\ k \in Operation /\ k.rt = x.rt /\ k.does = x.does /\ k.step = x.step
           /\ x.fresh = b => k = x
  BY DEF Operation

LEMMA RemoveBegins ==
    ASSUME op \in Operation, NEW g \in Runtimes, NEW r, Remove(g, r)
    PROVE  /\ op' \in Operation
           /\ \/ op' = op
              \/ /\ op = NoOp /\ op.does = "nothing" /\ op' # NoOp
                 /\ op'.does = "remove" /\ op'.rt = g /\ op'.step = "checked"
                 /\ MayRemove(r)
<1>1. CASE op' = op
  BY <1>1
<1>2. CASE op = NoOp /\ MayRemove(r) /\ op' = Lease(g, "remove", "checked")
  BY <1>2 DEF Lease, NoOp, Operation
<1> QED
  BY <1>1, <1>2 DEF Remove

LEMMA PlaceChanges ==
    ASSUME occ \in [Processes -> Occupancy], NEW p \in Processes, NEW a \in Places,
           occ' = [occ EXCEPT ![p].at = a]
    PROVE  Occupies(p, a, occ[p].rt, occ[p].exit)
  BY DEF Occupies, Occupancy, Places

LEMMA ExitChanges ==
    ASSUME occ \in [Processes -> Occupancy], NEW p \in Processes, NEW e \in Exits,
           occ' = [occ EXCEPT ![p].exit = e]
    PROVE  Occupies(p, occ[p].at, occ[p].rt, e)
  BY DEF Occupies, Occupancy, Exits

LEMMA PlaceAndRuntimeChange ==
    ASSUME occ \in [Processes -> Occupancy], NEW p \in Processes, NEW a \in Places,
           NEW g \in Runtimes, occ' = [occ EXCEPT ![p].at = a, ![p].rt = g]
    PROVE  Occupies(p, a, g, occ[p].exit)
<1> DEFINE o == occ[p]
           k == [o EXCEPT !.at = a, !.rt = g]
<1>1. o \in Occupancy /\ occ' = [occ EXCEPT ![p] = k]
  OBVIOUS
<1> HIDE DEF o
<1>2. k \in Occupancy /\ k.at = a /\ k.rt = g /\ k.exit = o.exit
  BY <1>1 DEF Occupancy, Places
<1> QED
  BY <1>1, <1>2 DEF o, Occupies

LEMMA PlaceAndExitChange ==
    ASSUME occ \in [Processes -> Occupancy], NEW p \in Processes, NEW a \in Places,
           NEW e \in Exits, occ' = [occ EXCEPT ![p].at = a, ![p].exit = e]
    PROVE  Occupies(p, a, occ[p].rt, e)
<1> DEFINE o == occ[p]
           k == [o EXCEPT !.at = a, !.exit = e]
<1>1. o \in Occupancy /\ occ' = [occ EXCEPT ![p] = k]
  OBVIOUS
<1> HIDE DEF o
<1>2. k \in Occupancy /\ k.at = a /\ k.rt = o.rt /\ k.exit = e
  BY <1>1 DEF Occupancy, Places, Exits
<1> QED
  BY <1>1, <1>2 DEF o, Occupies

\* After a write every copy is the same and of an older revision.
Stale == /\ seen' \in Copies
         /\ \A s \in Sessions : seen'[s].row = seen[s].row /\ ~ seen'[s].fresh

\* A step that writes or not: a copy that is still fresh is of the row.
Kept == /\ seen' \in Copies
        /\ \A s \in Sessions : /\ seen'[s].row = seen[s].row
                               /\ seen'[s].fresh => seen[s].fresh /\ row' = row

LEMMA WriteMakesStale ==
    ASSUME seen \in Copies, NEW r, Write(r)
    PROVE  Stale /\ Kept /\ row' = r
<1>1. SUFFICES Stale /\ Kept
  BY DEF Write
<1>2. ASSUME NEW s \in Sessions
      PROVE  /\ seen'[s] \in [row : Row, fresh : BOOLEAN]
             /\ seen'[s].row = seen[s].row /\ ~ seen'[s].fresh
  <2> DEFINE c == seen[s]
             k == [c EXCEPT !.fresh = FALSE]
  <2>1. c \in [row : Row, fresh : BOOLEAN] /\ seen'[s] = k
    BY DEF Copies, Write
  <2> HIDE DEF c
  <2>2. k \in [row : Row, fresh : BOOLEAN] /\ k.row = c.row /\ ~ k.fresh
    BY <2>1
  <2> QED
    BY <2>1, <2>2 DEF c
<1> QED
  BY <1>2 DEF Stale, Kept, Copies, Write


\* A terminal that runs is the worker or the one that resumes, and has kept its
\* Runtime and its exit to itself.
LEMMA NobodyAfterProof ==
    ASSUME TypeOK, KindOK, ProcessesOK, OwnersOK, GenerationsOK, OccupancyIsTrue,
           Keepers, kind = "worker", Worker \notin live, ~ ResumeIsLive
    PROVE  live = {}
<1>1. Typed
  BY StateIsTyped
<1>2. ASSUME NEW p \in live PROVE FALSE
  <2>1. p \in Processes /\ Follows(p)
    BY <1>1, <1>2 DEF Typed, ProcessesOK
  <2>2. p \notin Sessions
    BY <1>1, <1>2, <2>1, NamesApart DEF KindOK, Follows, Up
  <2>3. p \in Resumes /\ row.resume.t = p
    BY <1>2, <2>1, <2>2, NamesApart DEF OccupancyIsTrue, OccupantIsRecorded
  <2>4. row.resume # NoResume /\ row.resume.rt = occ[p].rt
    BY <2>3, NamesApart DEF OwnersOK, NoResume
  <2>5. row.resume.done
    BY <2>4 DEF ResumeIsLive, Proven
  <2> QED
    BY <1>2, <2>4, <2>5 DEF GenerationsOK, Complete
<1> QED
  BY <1>2

LEMMA VacantIsEmpty ==
    ASSUME TypeOK, KindOK, ProcessesOK, OwnersOK, GenerationsOK, OccupancyIsTrue,
           Keepers, kind = "worker", row.process, NEW g \in Runtimes, Up(g), Vacant(g)
    PROVE  live = {}
<1>1. Typed
  BY StateIsTyped
<1>2. ASSUME NEW p \in live PROVE FALSE
  <2>1. p \in Processes /\ Follows(p)
    BY <1>1, <1>2 DEF Typed, ProcessesOK
  <2>2. p \notin Sessions /\ p # Worker
    BY <1>1, <1>2, <2>1, NamesApart DEF KindOK, Follows, Up, Vacant
  <2>3. p \in Resumes /\ row.resume.t = p
    BY <1>2, <2>1, <2>2, NamesApart DEF OccupancyIsTrue, OccupantIsRecorded
  <2>4. row.resume # NoResume /\ row.resume.rt = occ[p].rt
    BY <2>3, NamesApart DEF OwnersOK, NoResume
  <2>5. OwnerEnded(g, row.resume.rt, row.resume.done, p)
    BY <2>3, <2>4 DEF Vacant
  <2>6. ~ row.resume.done
    BY <1>2, <2>4 DEF GenerationsOK, Complete
  <2>7. row.resume.rt = g /\ Retired(p)
    BY <2>5, <2>6 DEF OwnerEnded, Proven
  <2>8. Up(g)
    OBVIOUS
  <2> QED
    BY <1>2, <2>1, <2>4, <2>7, <2>8 DEF Follows, Retired, Up
<1> QED
  BY <1>2

-----------------------------------------------------------------------------
(* Every step keeps the invariant.                                         *)

LEMMA StartKeeps ==
    ASSUME IInv, NEW g \in Runtimes, Start(g)
    PROVE  IInv'
<1>1. /\ TypeOK /\ seen \in Copies /\ KindOK /\ ProcessesOK /\ LeaseOK
      /\ OwnersOK /\ DiskOK /\ GenerationsOK /\ CopiesOK
  BY DEF IInv, Base
<1>2. Typed
  BY <1>1, StateIsTyped
<1>3. TypeOK'
  BY <1>1 DEF Start, TypeOK
<1>4. ProcessesOK'
  BY <1>1, <1>2 DEF Start, Typed, ProcessesOK, Follows, Up
<1>5. LeaseOK'
  BY <1>1 DEF Start, LeaseOK, Preparing, Removing, Resuming, Up
<1>6. GenerationsOK'
  BY <1>1 DEF Start, GenerationsOK, Complete
<1>7. seen' \in Copies /\ KindOK' /\ OwnersOK' /\ DiskOK' /\ CopiesOK'
  BY <1>1 DEF Start, KindOK, OwnersOK, DiskOK, Linked, CopiesOK, ClosedOK, CopyOK
<1>8. ASSUME Keepers PROVE Vacancy'
  <2>1. NobodyLeft /\ ResumerAlone /\ SessionsOfRow /\ OccupancyIsTrue
    BY <1>8 DEF IInv, Vacancy
  <2>2. NobodyLeft' /\ ResumerAlone' /\ SessionsOfRow' /\ OccupancyIsTrue'
    BY <2>1 DEF Start, NobodyLeft, ResumerAlone, SessionsOfRow, OccupancyIsTrue,
       OneOccupant, OccupantIsRecorded
  <2> QED
    BY <2>2 DEF Vacancy
<1> QED
  BY <1>3, <1>4, <1>5, <1>6, <1>7, <1>8 DEF IInv, Base, Copies, Row, Resume

LEMMA CrashKeeps ==
    ASSUME IInv, NEW g \in Runtimes, Crash(g)
    PROVE  IInv'
<1>1. /\ TypeOK /\ seen \in Copies /\ KindOK /\ ProcessesOK /\ LeaseOK
      /\ OwnersOK /\ DiskOK /\ GenerationsOK /\ CopiesOK
  BY DEF IInv, Base
<1>2. Typed
  BY <1>1, StateIsTyped
<1>3. g \in Runtimes /\ phase[g] = "up" /\ phase' \in [Runtimes -> {"new", "up", "gone"}]
      /\ phase'[g] = "gone" /\ \A h \in Runtimes : h # g => phase'[h] = phase[h]
  BY <1>2 DEF Crash, Typed
<1>4. sweeps' = sweeps \ {g}
  BY DEF Crash
<1>5. /\ occ' \in [Processes -> Occupancy]
      /\ \A p \in Processes : /\ occ[p].rt # g => occ'[p] = occ[p]
                              /\ occ[p].rt = g => /\ occ'[p].at = "over" /\ occ'[p].exit = "done"
                                                  /\ occ'[p].rt = g
  <2>1. ASSUME NEW p \in Processes
        PROVE  /\ occ'[p] \in Occupancy
               /\ occ[p].rt # g => occ'[p] = occ[p]
               /\ occ[p].rt = g => /\ occ'[p].at = "over" /\ occ'[p].exit = "done"
                                   /\ occ'[p].rt = g
    <3> DEFINE o == occ[p]
               k == [o EXCEPT !.at = "over", !.exit = "done"]
    <3>1. o \in Occupancy /\ occ'[p] = IF o.rt = g THEN k ELSE o
      BY <1>2 DEF Crash, Typed
    <3> HIDE DEF o
    <3>2. k \in Occupancy /\ k.at = "over" /\ k.exit = "done" /\ k.rt = o.rt
      BY <3>1 DEF Occupancy
    <3> QED
      BY <3>1, <3>2 DEF o
  <2> QED
    BY <2>1 DEF Crash
<1>6. /\ op' \in Operation
      /\ \/ op.rt = g /\ op' = NoOp
         \/ op.rt # g /\ op' = op /\ disk' = disk
  <2>1. CASE op.rt = g
    BY <2>1 DEF Crash, NoOp, Operation
  <2>2. CASE op.rt # g
    BY <1>2, <2>2 DEF Crash, Typed
  <2> QED
    BY <2>1, <2>2
<1>7. \/ disk' = disk
      \/ disk' = "partial" /\ row.state \notin {"absent", "released"}
  <2>1. disk' = disk \/ (disk' = "partial" /\ op.step \in {"captured", "clean"})
    <3>1. HalfDone = IF op.step \in {"captured", "clean"} THEN {disk, "partial"} ELSE {disk}
      BY DEF HalfDone
    <3> QED
      BY <3>1 DEF Crash
  <2>2. op.step \in {"captured", "clean"} => row.state \notin {"absent", "released"}
    BY <1>1, OperationKnown DEF Preparing, Removing
  <2> QED
    BY <2>1, <2>2
<1>8. UNCHANGED <<kind, row, work, live, seen>>
  BY DEF Crash
<1>9. TypeOK'
  <2>1. Checked
    BY <1>1, StateIsChecked
  <2>2. Checked'
    BY <1>4, <1>7, <1>8, <2>1 DEF Checked
  <2>3. /\ row' \in Row /\ op' \in Operation /\ occ' \in [Processes -> Occupancy]
        /\ kind' \in Kinds /\ phase' \in [Runtimes -> {"new", "up", "gone"}]
        /\ live' \subseteq Processes /\ seen' \in Copies
    BY <1>1, <1>2, <1>3, <1>5, <1>6, <1>8 DEF Typed
  <2> QED
    BY <2>2, <2>3, TypesHold
<1>10. KindOK'
  BY <1>1, NamesApart, <1>5, <1>8 DEF KindOK
<1>11. ProcessesOK'
  BY <1>1, NamesApart, <1>3, <1>4, <1>5, <1>8 DEF ProcessesOK, Follows, Up
<1>12. LeaseOK'
  BY <1>1, NamesApart, <1>3, <1>5, <1>6, <1>8 DEF LeaseOK, Preparing, Removing, Resuming,
     Up, NoOp, OwnersOK, NoResume
<1>13. OwnersOK'
  BY <1>1, NamesApart, <1>5, <1>8 DEF OwnersOK
<1>14. DiskOK'
  BY <1>1, <1>7, <1>8 DEF DiskOK, Linked
<1>15. GenerationsOK'
  BY <1>1, <1>2, <1>3, <1>5, <1>8 DEF Typed, GenerationsOK, Complete
<1>16. CopiesOK'
  BY <1>1, NamesApart, <1>5, <1>8 DEF CopiesOK, ClosedOK, CopyOK
<1>17. seen' \in Copies
  BY <1>1 DEF Crash
<1>18. ASSUME Keepers PROVE Vacancy'
  <2>1. NobodyLeft /\ ResumerAlone /\ SessionsOfRow /\ OccupancyIsTrue
    BY <1>18 DEF IInv, Vacancy
  <2>2. NobodyLeft'
    BY NamesApart, <1>5, <1>6, <1>8, <2>1 DEF NobodyLeft, NoOp
  <2>3. ResumerAlone'
    BY <1>6, <1>8, <2>1 DEF ResumerAlone, NoOp
  <2>4. SessionsOfRow'
    BY NamesApart, <1>5, <1>8, <2>1 DEF SessionsOfRow
  <2>5. OccupancyIsTrue'
    BY <2>1 DEF Crash, OccupancyIsTrue, OneOccupant, OccupantIsRecorded
  <2> QED
    BY <2>2, <2>3, <2>4, <2>5 DEF Vacancy
<1> QED
  BY <1>9, <1>10, <1>11, <1>12, <1>13, <1>14, <1>15, <1>16, <1>17, <1>18 DEF IInv, Base,
     Copies, Row, Resume

\* The row after a keeper's proof of the end of g.
Finished(x, g) == [x EXCEPT !.done = @ \/ x.rt = g, !.resume.done = @ \/ x.resume.rt = g]

LEMMA RowCompletes ==
    ASSUME NEW x \in Row, NEW g,
           NEW k, k = Finished(x, g)
    PROVE  /\ k \in Row /\ k.state = x.state /\ k.rt = x.rt /\ k.dir = x.dir
           /\ k.process = x.process /\ k.sess = x.sess /\ k.closed = x.closed
           /\ k.done = (x.done \/ x.rt = g)
           /\ k.resume = [x.resume EXCEPT !.done = x.resume.done \/ x.resume.rt = g]
<1>1. PICK d, e : d = (x.done \/ x.rt = g) /\ e = (x.resume.done \/ x.resume.rt = g)
  OBVIOUS
<1>2. d \in BOOLEAN /\ e \in BOOLEAN
  BY <1>1
<1>3. PICK r : r = [x.resume EXCEPT !.done = e]
  OBVIOUS
<1>4. x.resume \in Resume
  BY DEF Row
<1>5. r \in Resume
  BY <1>2, <1>3, <1>4 DEF Resume
<1>6. k = [x EXCEPT !.done = d, !.resume = r]
  BY <1>1, <1>3 DEF Finished
<1>7. /\ k \in Row /\ k.state = x.state /\ k.rt = x.rt /\ k.dir = x.dir
      /\ k.process = x.process /\ k.sess = x.sess /\ k.closed = x.closed
      /\ k.done = d /\ k.resume = r
  BY <1>2, <1>5, <1>6 DEF Row
<1> QED
  BY <1>1, <1>3, <1>7

LEMMA KeeperCompletesKeeps ==
    ASSUME IInv, NEW g \in Runtimes, KeeperCompletes(g)
    PROVE  IInv'
<1>1. /\ TypeOK /\ seen \in Copies /\ KindOK /\ ProcessesOK /\ LeaseOK
      /\ OwnersOK /\ DiskOK /\ GenerationsOK /\ CopiesOK
  BY DEF IInv, Base
<1>2. Typed
  BY <1>1, StateIsTyped
<1>3. Stale
  BY <1>1, WriteMakesStale DEF KeeperCompletes
<1>4. row.state # "absent" /\ Complete(g) /\ Keepers
  BY <1>1, NamesApart DEF KeeperCompletes, Ended, OwnersOK, NoRow, NoResume, Complete
<1>5. /\ row' \in Row /\ row'.state = row.state /\ row'.rt = row.rt /\ row'.dir = row.dir
      /\ row'.process = row.process /\ row'.sess = row.sess /\ row'.closed = row.closed
      /\ row'.done = (row.done \/ row.rt = g)
      /\ row'.resume = [row.resume EXCEPT !.done = row.resume.done \/ row.resume.rt = g]
  <2>1. row' = Finished(row, g)
    BY DEF KeeperCompletes, Write, Finished
  <2>2. row \in Row
    BY <1>2 DEF Typed
  <2> QED
    BY ONLY <2>1, <2>2, RowCompletes
<1>6. /\ row'.resume \in Resume /\ row'.resume.t = row.resume.t /\ row'.resume.rt = row.resume.rt
      /\ row'.resume.process = row.resume.process
      /\ row'.resume.done = (row.resume.done \/ row.resume.rt = g)
      /\ (row.resume = NoResume => row'.resume = NoResume)
  <2> DEFINE d == row.resume.done \/ row.resume.rt = g
  <2>1. row.resume \in Resume /\ d \in BOOLEAN /\ row'.resume = [row.resume EXCEPT !.done = d]
    BY <1>2, <1>5 DEF Typed, Row
  <2>2. row.resume = NoResume => ~ d
    BY NamesApart DEF NoResume
  <2>3. /\ row'.resume \in Resume /\ row'.resume.t = row.resume.t
        /\ row'.resume.rt = row.resume.rt /\ row'.resume.process = row.resume.process
        /\ row'.resume.done = d /\ (row.resume = NoResume /\ ~ d => row'.resume = NoResume)
    <3> HIDE DEF d
    <3> QED
      BY <2>1, ResumeDone
  <2> QED
    BY <2>2, <2>3
<1>7. /\ op' \in Operation /\ op'.rt = op.rt /\ op'.does = op.does /\ op'.step = op.step
      /\ (op = NoOp => op' = NoOp)
  <2> DEFINE b == (op = NoOp)
  <2>1. op' = [op EXCEPT !.fresh = b] /\ b \in BOOLEAN
    BY DEF KeeperCompletes
  <2>2. op = NoOp => op.fresh /\ b
    BY DEF NoOp
  <2>3. op = NoOp => op.fresh = b
    BY <2>2
  <2> HIDE DEF b
  <2> QED
    BY <1>2, <2>1, <2>3, FreshChanges DEF Typed
<1>8. UNCHANGED <<kind, phase, sweeps, disk, work, occ, live>>
  BY DEF KeeperCompletes
<1>9. TypeOK'
  <2>1. Checked
    BY <1>1, StateIsChecked
  <2>2. Checked'
    BY <1>5, <1>6, <1>8, <2>1 DEF Checked
  <2>3. /\ row' \in Row /\ op' \in Operation /\ occ' \in [Processes -> Occupancy]
        /\ kind' \in Kinds /\ phase' \in [Runtimes -> {"new", "up", "gone"}]
        /\ live' \subseteq Processes /\ seen' \in Copies
    BY <1>2, <1>3, <1>5, <1>7, <1>8 DEF Typed, Stale
  <2> QED
    BY <2>2, <2>3, TypesHold
<1>10. seen' \in Copies
  BY <1>3 DEF Stale
<1>11. KindOK'
  BY <1>1, <1>5, <1>6, <1>8 DEF KindOK
<1>12. LeaseOK'
  BY <1>1, <1>5, <1>7, <1>8 DEF LeaseOK, Preparing, Removing, Resuming, Up
<1>13. OwnersOK'
  BY <1>1, <1>4, <1>5, <1>6, <1>8 DEF OwnersOK
<1>14. DiskOK'
  BY <1>1, <1>5, <1>8 DEF DiskOK, Linked
<1>15. GenerationsOK'
  <2>1. row'.done => Complete(row.rt)
    BY <1>1, <1>4, <1>5 DEF GenerationsOK
  <2>2. row'.resume.done => Complete(row.resume.rt)
    BY <1>1, <1>4, <1>6 DEF GenerationsOK
  <2> QED
    BY <1>1, NamesApart, <1>2, <1>3, <1>4, <1>5, <1>6, <1>7, <1>8, <2>1, <2>2 DEF
       GenerationsOK, Complete
<1>16. CopiesOK'
  BY <1>1, <1>3, <1>5, <1>8 DEF CopiesOK, ClosedOK, CopyOK, Stale
<1>17. ProcessesOK'
  BY <1>1 DEF KeeperCompletes, ProcessesOK, Follows, Up
<1>18. ASSUME Keepers PROVE Vacancy'
  <2>1. NobodyLeft /\ ResumerAlone /\ SessionsOfRow /\ OccupancyIsTrue
    BY <1>18 DEF IInv, Vacancy
  <2>2. NobodyLeft'
    BY <1>5, <1>7, <1>8, <2>1 DEF NobodyLeft
  <2>3. ResumerAlone'
    BY <1>6, <1>7, <1>8, <2>1 DEF ResumerAlone
  <2>4. SessionsOfRow'
    BY <1>3, <1>5, <1>8, <2>1 DEF SessionsOfRow, Stale
  <2>5. OccupancyIsTrue'
    BY <1>5, <1>8, <2>1 DEF OccupancyIsTrue, OneOccupant, OccupantIsRecorded
  <2> QED
    BY <2>2, <2>3, <2>4, <2>5 DEF Vacancy
<1> QED
  BY <1>9, <1>10, <1>11, <1>12, <1>13, <1>14, <1>15, <1>16, <1>17, <1>18 DEF IInv, Base,
     Copies, Row, Resume

LEMMA SpawnKeeps ==
    ASSUME IInv, NEW g \in Runtimes, Spawn(g)
    PROVE  IInv'
<1>1. /\ TypeOK /\ seen \in Copies /\ KindOK /\ ProcessesOK /\ LeaseOK
      /\ OwnersOK /\ DiskOK /\ GenerationsOK /\ CopiesOK
  BY DEF IInv, Base
<1>2. Typed
  BY <1>1, StateIsTyped
<1>3. Occupies(Worker, "pending", g, occ[Worker].exit)
  BY <1>2, NamesApart, PlaceAndRuntimeChange DEF Spawn, Typed, Places
<1>4. Worker \notin live /\ occ[Worker].exit = "no" /\ g \in Runtimes
  BY <1>1, NamesApart DEF Spawn, ProcessesOK, Follows
<1>5. TypeOK'
  BY <1>1, <1>3 DEF Spawn, TypeOK, Occupancy, Occupies
<1>6. KindOK'
  BY <1>1, NamesApart, <1>3 DEF Spawn, KindOK, Occupies
<1>7. ProcessesOK'
  BY <1>1, NamesApart, <1>3 DEF Spawn, ProcessesOK, Follows, Up, Occupies
<1>8. LeaseOK'
  BY <1>1, NamesApart, <1>3 DEF Spawn, LeaseOK, Preparing, Removing, Resuming, Up, NoOp,
     Occupies
<1>9. OwnersOK'
  BY <1>1, <1>3 DEF Spawn, OwnersOK, Occupies
<1>10. GenerationsOK'
  BY <1>1, <1>2, <1>4 DEF Spawn, Typed, GenerationsOK, Complete
<1>11. CopiesOK'
  BY <1>1, NamesApart, <1>3 DEF Spawn, CopiesOK, ClosedOK, CopyOK, Occupies
<1>12. seen' \in Copies /\ DiskOK'
  BY <1>1 DEF Spawn, DiskOK, Linked
<1>13. ASSUME Keepers PROVE Vacancy'
  <2>1. NobodyLeft /\ ResumerAlone /\ SessionsOfRow /\ OccupancyIsTrue
    BY <1>13 DEF IInv, Vacancy
  <2>2. NobodyLeft'
    BY <2>1 DEF Spawn, NobodyLeft
  <2>3. SessionsOfRow'
    BY NamesApart, <1>3, <2>1 DEF Spawn, SessionsOfRow, Occupies
  <2>4. ResumerAlone' /\ OccupancyIsTrue'
    BY <2>1 DEF Spawn, ResumerAlone, OccupancyIsTrue, OneOccupant, OccupantIsRecorded
  <2> QED
    BY <2>2, <2>3, <2>4 DEF Vacancy
<1> QED
  BY <1>5, <1>6, <1>7, <1>8, <1>9, <1>10, <1>11, <1>12, <1>13 DEF IInv, Base, Copies, Row,
     Resume

LEMMA RecordKeeps ==
    ASSUME IInv, NEW g \in Runtimes, Record(g)
    PROVE  IInv'
<1>1. /\ TypeOK /\ seen \in Copies /\ KindOK /\ ProcessesOK /\ LeaseOK
      /\ OwnersOK /\ DiskOK /\ GenerationsOK /\ CopiesOK
  BY DEF IInv, Base
<1>2. Typed
  BY <1>1, StateIsTyped
<1>3. op.does = "nothing"
  BY DEF Record, NoOp
<1>4. /\ op' \in Operation /\ op'.rt = g
      /\ op'.does = "prepare" /\ op'.step = (IF kind = "worker" THEN "recorded" ELSE "captured")
  BY DEF Record, Lease, Operation
<1>5. Stale
  BY <1>1, WriteMakesStale DEF Record
<1>6. /\ Up(g) /\ row.state = "absent"
      /\ kind = "worker" => occ[Worker].at = "pending" /\ occ[Worker].rt = g
  BY DEF Record, NoRow
<1>7. /\ row' \in Row /\ row'.state = "creating" /\ row'.rt = g /\ ~ row'.done
      /\ ~ row'.dir /\ ~ row'.process /\ row'.sess = None /\ ~ row'.closed
      /\ row'.resume = NoResume /\ ~ row'.resume.done
  BY DEF Record, Write, NoRow, NoResume, Row, Resume
<1>8. \A s \in Sessions : s \notin live /\ occ[s].at = "none"
  BY <1>1, NamesApart, <1>6 DEF CopiesOK, CopyOK, ProcessesOK, Follows
<1>9. disk = "none"
  BY <1>1, <1>6 DEF DiskOK
<1>10. UNCHANGED <<kind, phase, sweeps, disk, work, occ, live>>
  BY DEF Record
<1>11. TypeOK'
  <2>1. Checked
    BY <1>1, StateIsChecked
  <2>2. Checked'
    BY <1>7, <1>10, <2>1 DEF Checked
  <2>3. /\ row' \in Row /\ op' \in Operation /\ occ' \in [Processes -> Occupancy]
        /\ kind' \in Kinds /\ phase' \in [Runtimes -> {"new", "up", "gone"}]
        /\ live' \subseteq Processes /\ seen' \in Copies
    BY <1>2, <1>4, <1>5, <1>7, <1>10 DEF Typed, Stale
  <2> QED
    BY <2>2, <2>3, TypesHold
<1>12. seen' \in Copies
  BY <1>5 DEF Stale
<1>13. KindOK'
  BY <1>1, <1>7, <1>10 DEF KindOK
<1>14. LeaseOK'
  BY <1>1, <1>4, <1>6, <1>7, <1>10 DEF LeaseOK, Preparing, Resuming, Up
<1>15. OwnersOK'
  BY <1>1, <1>6, <1>7, <1>10 DEF OwnersOK
<1>16. DiskOK'
  BY <1>1, <1>9, <1>10 DEF DiskOK, Linked
<1>17. GenerationsOK'
  BY <1>7 DEF GenerationsOK
<1>18. CopiesOK'
  BY <1>5, <1>7, <1>8, <1>10 DEF CopiesOK, ClosedOK, CopyOK, Stale
<1>19. ProcessesOK'
  BY <1>1 DEF Record, ProcessesOK, Follows, Up
<1>20. ASSUME Keepers PROVE Vacancy'
  <2>1. NobodyLeft /\ ResumerAlone /\ SessionsOfRow /\ OccupancyIsTrue
    BY <1>20 DEF IInv, Vacancy
  <2>2. NobodyLeft'
    BY <1>4 DEF NobodyLeft
  <2>3. ResumerAlone'
    BY <1>4 DEF ResumerAlone
  <2>4. SessionsOfRow'
    BY <1>8, <1>10 DEF SessionsOfRow
  <2>5. OccupancyIsTrue'
    BY <1>6, <1>10, <2>1 DEF OccupancyIsTrue, OneOccupant, OccupantIsRecorded
  <2> QED
    BY <2>2, <2>3, <2>4, <2>5 DEF Vacancy
<1> QED
  BY <1>11, <1>12, <1>13, <1>14, <1>15, <1>16, <1>17, <1>18, <1>19, <1>20 DEF IInv, Base,
     Copies, Row, Resume

LEMMA RecordAgainKeeps ==
    ASSUME IInv, NEW g \in Runtimes, RecordAgain(g)
    PROVE  IInv'
<1>1. /\ TypeOK /\ seen \in Copies /\ KindOK /\ ProcessesOK /\ LeaseOK
      /\ OwnersOK /\ DiskOK /\ GenerationsOK /\ CopiesOK
  BY DEF IInv, Base
<1>2. Typed
  BY <1>1, StateIsTyped
<1>3. op.does = "nothing"
  BY DEF RecordAgain, NoOp
<1>4. /\ op' \in Operation /\ op'.rt = g
      /\ op'.does = "prepare" /\ op'.step = (IF disk = "none" THEN "captured" ELSE "added")
  BY DEF RecordAgain, Lease, Operation
<1>5. TypeOK'
  BY <1>1 DEF RecordAgain, Lease, TypeOK
<1>6. LeaseOK'
  BY <1>1 DEF RecordAgain, Lease, LeaseOK, Preparing, Up, NoOp
<1>7. seen' \in Copies /\ KindOK' /\ ProcessesOK' /\ OwnersOK' /\ DiskOK' /\ GenerationsOK' /\ CopiesOK'
  BY <1>1 DEF RecordAgain, KindOK, ProcessesOK, Follows, Up, OwnersOK, DiskOK, Linked,
     GenerationsOK, Complete, CopiesOK, ClosedOK, CopyOK
<1>8. ASSUME Keepers PROVE Vacancy'
  <2>1. NobodyLeft /\ ResumerAlone /\ SessionsOfRow /\ OccupancyIsTrue
    BY <1>8 DEF IInv, Vacancy
  <2>2. NobodyLeft'
    BY DEF RecordAgain, Lease, NobodyLeft
  <2>3. ResumerAlone'
    BY DEF RecordAgain, Lease, ResumerAlone
  <2>4. SessionsOfRow' /\ OccupancyIsTrue'
    BY <2>1 DEF RecordAgain, SessionsOfRow, OccupancyIsTrue, OneOccupant, OccupantIsRecorded
  <2> QED
    BY <2>2, <2>3, <2>4 DEF Vacancy
<1> QED
  BY <1>5, <1>6, <1>7, <1>8 DEF IInv, Base, Copies, Row, Resume

LEMMA SweepKeeps ==
    ASSUME IInv, NEW g \in Runtimes, Sweep(g)
    PROVE  IInv'
<1>1. /\ TypeOK /\ seen \in Copies /\ KindOK /\ ProcessesOK /\ LeaseOK
      /\ OwnersOK /\ DiskOK /\ GenerationsOK /\ CopiesOK
  BY DEF IInv, Base
<1>2. Typed
  BY <1>1, StateIsTyped
<1>3. sweeps' = sweeps \ {g} /\ Up(g)
  BY <1>1 DEF Sweep, ProcessesOK
<1>4. /\ op' \in Operation
      /\ \/ op' = op
         \/ /\ op'.does = "remove" /\ op'.rt = g /\ op'.step = "checked" /\ op' # NoOp
            /\ op.does = "nothing" /\ row.state \notin {"absent", "released"}
            /\ ~ (row.process /\ Worker \in live)
            /\ kind = "worker" /\ Recoverable
  BY <1>2, RemoveBegins DEF Sweep, Typed, MayRemove
<1>5. kind = "worker" /\ row.state # "absent" /\ Recoverable => occ[Worker].at \in {"none", "over"}
  BY <1>1, NamesApart DEF Recoverable, OwnersOK, ProcessesOK, Follows
<1>6. Keepers /\ OccupancyIsTrue /\ kind = "worker" /\ row.state # "absent" /\ Recoverable => live = {}
  BY <1>1, NobodyAfterProof DEF Recoverable, Proven, OwnersOK, GenerationsOK, Complete
<1>7. UNCHANGED <<kind, phase, row, disk, work, occ, live, seen>>
  BY DEF Sweep, Write
<1>8. TypeOK'
  <2>1. Checked
    BY <1>1, StateIsChecked
  <2>2. Checked'
    BY <1>3, <1>7, <2>1 DEF Checked
  <2>3. /\ row' \in Row /\ op' \in Operation /\ occ' \in [Processes -> Occupancy]
        /\ kind' \in Kinds /\ phase' \in [Runtimes -> {"new", "up", "gone"}]
        /\ live' \subseteq Processes /\ seen' \in Copies
    BY <1>1, <1>2, <1>4, <1>7 DEF Typed
  <2> QED
    BY <2>2, <2>3, TypesHold
<1>9. ProcessesOK'
  BY <1>1, <1>3, <1>7 DEF ProcessesOK, Follows, Up
<1>10. LeaseOK'
  BY <1>1, <1>3, <1>4, <1>5, <1>7 DEF LeaseOK, Preparing, Removing, Resuming, Up
<1>11. seen' \in Copies /\ KindOK' /\ OwnersOK' /\ DiskOK' /\ GenerationsOK' /\ CopiesOK'
  BY <1>1 DEF Sweep, KindOK, OwnersOK, DiskOK, Linked, GenerationsOK, Complete, CopiesOK,
     ClosedOK, CopyOK
<1>12. ASSUME Keepers PROVE Vacancy'
  <2>1. NobodyLeft /\ ResumerAlone /\ SessionsOfRow /\ OccupancyIsTrue
    BY <1>12 DEF IInv, Vacancy
  <2>2. NobodyLeft'
    BY <1>4, <1>6, <1>7, <1>12, <2>1 DEF NobodyLeft
  <2>3. ResumerAlone'
    BY <1>4, <1>7, <2>1 DEF ResumerAlone
  <2>4. SessionsOfRow' /\ OccupancyIsTrue'
    BY <2>1 DEF Sweep, SessionsOfRow, OccupancyIsTrue, OneOccupant, OccupantIsRecorded
  <2> QED
    BY <2>2, <2>3, <2>4 DEF Vacancy
<1> QED
  BY <1>8, <1>9, <1>10, <1>11, <1>12 DEF IInv, Base, Copies, Row, Resume

LEMMA ReleaseChatKeeps ==
    ASSUME IInv, NEW g \in Runtimes, ReleaseChat(g)
    PROVE  IInv'
<1>1. /\ TypeOK /\ seen \in Copies /\ KindOK /\ ProcessesOK /\ LeaseOK
      /\ OwnersOK /\ DiskOK /\ GenerationsOK /\ CopiesOK
  BY DEF IInv, Base
<1>2. Typed
  BY <1>1, StateIsTyped
<1>3. op.does = "nothing"
  BY DEF ReleaseChat, NoOp
<1>4. /\ op' \in Operation /\ op'.rt = g
      /\ op'.does = "remove" /\ op'.step = "checked"
  BY DEF ReleaseChat, Lease, Operation
<1>5. /\ Up(g) /\ kind = "chat" /\ row.state \notin {"absent", "released"}
      /\ (Keepers => row.rt = g \/ row.done)
      /\ \A s \in Sessions : occ[s].rt = g => occ[s].at \in {"none", "over"}
  BY DEF ReleaseChat, StructuredRelease, Busy
<1>6. \A t \in Terminals : t \notin live /\ occ[t].at = "none"
  BY <1>1, NamesApart DEF ReleaseChat, KindOK, ProcessesOK, Follows
<1>7. Keepers => \A s \in Sessions : occ[s].rt = row.rt => s \notin live /\ occ[s].at \in {"none", "over"}
  BY <1>1, NamesApart DEF ReleaseChat, StructuredRelease, Busy, GenerationsOK, Complete,
     ProcessesOK, Follows, Up
<1>8. UNCHANGED <<kind, phase, sweeps, row, disk, work, occ, live, seen>>
  BY DEF ReleaseChat
<1>9. TypeOK'
  <2>1. Checked
    BY <1>1, StateIsChecked
  <2>2. Checked'
    BY <1>8, <2>1 DEF Checked
  <2>3. /\ row' \in Row /\ op' \in Operation /\ occ' \in [Processes -> Occupancy]
        /\ kind' \in Kinds /\ phase' \in [Runtimes -> {"new", "up", "gone"}]
        /\ live' \subseteq Processes /\ seen' \in Copies
    BY <1>1, <1>2, <1>4, <1>8 DEF Typed
  <2> QED
    BY <2>2, <2>3, TypesHold
<1>10. LeaseOK'
  BY NamesApart, <1>4, <1>5, <1>6, <1>8 DEF LeaseOK, Removing, Up
<1>11. seen' \in Copies /\ KindOK' /\ ProcessesOK' /\ OwnersOK' /\ DiskOK' /\ GenerationsOK' /\ CopiesOK'
  BY <1>1 DEF ReleaseChat, KindOK, ProcessesOK, Follows, Up, OwnersOK, DiskOK, Linked,
     GenerationsOK, Complete, CopiesOK, ClosedOK, CopyOK
<1>12. ASSUME Keepers PROVE Vacancy'
  <2>1. NobodyLeft /\ ResumerAlone /\ SessionsOfRow /\ OccupancyIsTrue
    BY <1>12 DEF IInv, Vacancy
  <2>2. NobodyLeft'
    BY NamesApart, <1>2, <1>4, <1>5, <1>6, <1>7, <1>8, <1>12, <2>1 DEF Typed, NobodyLeft,
       SessionsOfRow
  <2>3. ResumerAlone'
    BY <1>4 DEF ResumerAlone
  <2>4. SessionsOfRow' /\ OccupancyIsTrue'
    BY <2>1 DEF ReleaseChat, SessionsOfRow, OccupancyIsTrue, OneOccupant, OccupantIsRecorded
  <2> QED
    BY <2>2, <2>3, <2>4 DEF Vacancy
<1> QED
  BY <1>9, <1>10, <1>11, <1>12 DEF IInv, Base, Copies, Row, Resume

LEMMA ReserveResumeKeeps ==
    ASSUME IInv, NEW g \in Runtimes, NEW t \in Resumes, ReserveResume(g, t)
    PROVE  IInv'
<1>1. /\ TypeOK /\ seen \in Copies /\ KindOK /\ ProcessesOK /\ LeaseOK
      /\ OwnersOK /\ DiskOK /\ GenerationsOK /\ CopiesOK
  BY DEF IInv, Base
<1>2. Typed
  BY <1>1, StateIsTyped
<1>3. op.does = "nothing"
  BY DEF ReserveResume, NoOp
<1>4. /\ op' \in Operation /\ op'.rt = g
      /\ op'.does = "resume" /\ op'.step = "none"
  BY DEF ReserveResume, Lease, Operation
<1>5. Occupies(t, "pending", g, occ[t].exit)
  BY <1>2, NamesApart, PlaceAndRuntimeChange DEF ReserveResume, Typed, Places
<1>6. Stale
  BY <1>1, WriteMakesStale DEF ReserveResume
<1>7. /\ Up(g) /\ occ[t].at = "none" /\ kind = "worker" /\ row.process /\ Linked
      /\ row.state \in {"bound", "preserved"} /\ Vacant(g)
      /\ row' = [row EXCEPT !.resume = [NoResume EXCEPT !.t = t, !.rt = g]]
  BY DEF ReserveResume, Write
<1>8. t \notin live /\ occ[t].exit = "no" /\ g \in Runtimes
  BY <1>1, NamesApart DEF ReserveResume, ProcessesOK, Follows
<1>9. /\ row' \in Row /\ row'.state = row.state /\ row'.rt = row.rt /\ row'.done = row.done
      /\ row'.dir = row.dir /\ row'.process = row.process /\ row'.sess = row.sess
      /\ row'.closed = row.closed /\ row'.resume.t = t /\ row'.resume.rt = g
      /\ ~ row'.resume.process /\ ~ row'.resume.done
  BY <1>2, <1>7 DEF Typed, Row, Resume, NoResume
<1>10. Keepers /\ OccupancyIsTrue => live = {}
  BY <1>1, <1>7, VacantIsEmpty
<1>11. UNCHANGED <<kind, phase, sweeps, disk, work, live>>
  BY DEF ReserveResume
<1>12. TypeOK'
  <2>1. Checked
    BY <1>1, StateIsChecked
  <2>2. Checked'
    BY <1>7, <1>11, <2>1 DEF Checked
  <2>3. /\ row' \in Row /\ op' \in Operation /\ occ' \in [Processes -> Occupancy]
        /\ kind' \in Kinds /\ phase' \in [Runtimes -> {"new", "up", "gone"}]
        /\ live' \subseteq Processes /\ seen' \in Copies
    BY <1>2, <1>4, <1>5, <1>6, <1>9, <1>11 DEF Typed, Occupies, Stale
  <2> QED
    BY <2>2, <2>3, TypesHold
<1>13. seen' \in Copies
  BY <1>6 DEF Stale
<1>14. KindOK'
  BY <1>1, NamesApart, <1>5, <1>7, <1>11 DEF KindOK, Occupies
<1>15. ProcessesOK'
  BY <1>1, NamesApart, <1>5, <1>7, <1>11 DEF ProcessesOK, Follows, Up, Occupies
<1>16. LeaseOK'
  BY <1>1, NamesApart, <1>3, <1>4, <1>5, <1>7, <1>9, <1>11 DEF LeaseOK, Resuming, Up,
     Occupies
<1>17. OwnersOK'
  BY <1>1, NamesApart, <1>5, <1>7, <1>9 DEF OwnersOK, Occupies
<1>18. DiskOK'
  BY <1>7, <1>11 DEF DiskOK, Linked
<1>19. GenerationsOK'
  BY <1>1, <1>2, <1>5, <1>8, <1>9, <1>11 DEF Typed, GenerationsOK, Complete, Occupies
<1>20. CopiesOK'
  BY <1>1, NamesApart, <1>5, <1>6, <1>9, <1>11 DEF CopiesOK, ClosedOK, CopyOK, Occupies,
     Stale
<1>21. ASSUME Keepers PROVE Vacancy'
  <2>1. NobodyLeft /\ ResumerAlone /\ SessionsOfRow /\ OccupancyIsTrue
    BY <1>21 DEF IInv, Vacancy
  <2>2. NobodyLeft'
    BY <1>4 DEF NobodyLeft
  <2>3. ResumerAlone'
    BY <1>10, <1>11, <1>21, <2>1 DEF ResumerAlone
  <2>4. SessionsOfRow'
    BY NamesApart, <1>5, <1>6, <1>9, <1>11, <2>1 DEF SessionsOfRow, Occupies, Stale
  <2>5. OccupancyIsTrue'
    BY <1>10, <1>11, <1>21, <2>1 DEF OccupancyIsTrue, OneOccupant, OccupantIsRecorded
  <2> QED
    BY <2>2, <2>3, <2>4, <2>5 DEF Vacancy
<1> QED
  BY <1>12, <1>13, <1>14, <1>15, <1>16, <1>17, <1>18, <1>19, <1>20, <1>21 DEF IInv, Base,
     Copies, Row, Resume

LEMMA ReserveOpenKeeps ==
    ASSUME IInv, NEW g \in Runtimes, NEW s \in Sessions, ReserveOpen(g, s)
    PROVE  IInv'
<1>1. /\ TypeOK /\ seen \in Copies /\ KindOK /\ ProcessesOK /\ LeaseOK
      /\ OwnersOK /\ DiskOK /\ GenerationsOK /\ CopiesOK
  BY DEF IInv, Base
<1>2. Typed
  BY <1>1, StateIsTyped
<1>3. /\ kind = "chat" /\ Up(g) /\ row.state \notin {"absent", "creating"}
      /\ s \notin live /\ ~ (op.rt = g /\ op.does = "remove")
  BY DEF ReserveOpen
<1>4. /\ occ' \in [Processes -> Occupancy] /\ occ'[s].rt = g /\ occ'[s].at = "opening"
      /\ occ'[s].exit = "no" /\ \A q \in Processes : q # s => occ'[q] = occ[q]
  BY NamesApart, <1>2 DEF ReserveOpen, Typed, Occupancy
<1>5. UNCHANGED <<kind, phase, sweeps, row, disk, work, op, live, seen>>
  BY DEF ReserveOpen, Write
<1>6. TypeOK'
  <2>1. Checked
    BY <1>1, StateIsChecked
  <2>2. Checked'
    BY <1>5, <2>1 DEF Checked
  <2>3. /\ row' \in Row /\ op' \in Operation /\ occ' \in [Processes -> Occupancy]
        /\ kind' \in Kinds /\ phase' \in [Runtimes -> {"new", "up", "gone"}]
        /\ live' \subseteq Processes /\ seen' \in Copies
    BY <1>1, <1>2, <1>4, <1>5 DEF Typed
  <2> QED
    BY <2>2, <2>3, TypesHold
<1>7. KindOK'
  BY <1>1, NamesApart, <1>3, <1>4, <1>5 DEF KindOK
<1>8. ProcessesOK'
  BY <1>1, NamesApart, <1>3, <1>4, <1>5 DEF ProcessesOK, Follows, Up
<1>9. LeaseOK'
  BY <1>1, NamesApart, <1>4, <1>5 DEF LeaseOK, Preparing, Removing, Resuming, Up
<1>10. OwnersOK'
  BY <1>1, NamesApart, <1>4, <1>5 DEF OwnersOK
<1>11. GenerationsOK'
  BY <1>1, <1>2, <1>3, <1>4, <1>5 DEF Typed, GenerationsOK, Complete
<1>12. CopiesOK'
  BY <1>1, NamesApart, <1>3, <1>4, <1>5 DEF CopiesOK, ClosedOK, CopyOK
<1>13. seen' \in Copies /\ DiskOK'
  BY <1>1 DEF ReserveOpen, DiskOK, Linked
<1>14. ASSUME Keepers PROVE Vacancy'
  <2>1. NobodyLeft /\ ResumerAlone /\ SessionsOfRow /\ OccupancyIsTrue
    BY <1>14 DEF IInv, Vacancy
  <2>2. NobodyLeft'
    BY <1>1, NamesApart, <1>3, <1>4, <1>5, <2>1 DEF NobodyLeft, GenerationsOK, Complete, Up
  <2>3. SessionsOfRow'
    BY NamesApart, <1>3, <1>4, <1>5, <2>1 DEF SessionsOfRow
  <2>4. ResumerAlone' /\ OccupancyIsTrue'
    BY <2>1 DEF ReserveOpen, ResumerAlone, OccupancyIsTrue, OneOccupant, OccupantIsRecorded
  <2> QED
    BY <2>2, <2>3, <2>4 DEF Vacancy
<1> QED
  BY <1>6, <1>7, <1>8, <1>9, <1>10, <1>11, <1>12, <1>13, <1>14 DEF IInv, Base, Copies,
     Row, Resume

LEMMA BindKeeps ==
    ASSUME IInv, NEW g \in Runtimes, NEW s \in Sessions, Bind(g, s)
    PROVE  IInv'
<1>1. /\ TypeOK /\ seen \in Copies /\ KindOK /\ ProcessesOK /\ LeaseOK
      /\ OwnersOK /\ DiskOK /\ GenerationsOK /\ CopiesOK
  BY DEF IInv, Base
<1>2. Typed
  BY <1>1, StateIsTyped
<1>3. op.does = "nothing"
  BY DEF Bind, NoOp
<1>4. Stale
  BY <1>1, WriteMakesStale DEF Bind
<1>5. /\ row' \in Row
      /\ row'.state = "bound" /\ row'.rt = row.rt /\ row'.done = row.done /\ row'.dir = row.dir
      /\ row'.process = row.process /\ row'.sess = s /\ row'.closed = row.closed /\ row'.resume = row.resume
  BY <1>2 DEF Bind, Typed, Write, Row
<1>6. kind = "chat" /\ occ[Worker].at = "none" /\ ~ row.closed /\ row.state = "ready" /\ ~ row.process
  BY <1>1, NamesApart DEF Bind, KindOK, TypeOK, ProcessesOK, Follows
<1>7. TypeOK'
  BY <1>1, NamesApart, <1>5 DEF Bind, TypeOK, Row, Resume, Write
<1>8. seen' \in Copies
  BY <1>4 DEF Stale
<1>9. KindOK'
  BY <1>1 DEF Bind, KindOK, Write
<1>10. LeaseOK'
  BY <1>1 DEF Bind, LeaseOK, NoOp
<1>11. OwnersOK'
  BY <1>1, <1>6 DEF Bind, OwnersOK, Write
<1>12. DiskOK'
  BY <1>1 DEF Bind, DiskOK, Linked, Write
<1>13. GenerationsOK'
  BY <1>1 DEF Bind, GenerationsOK, Complete, Write
<1>14. CopiesOK'
  BY <1>1, <1>4, <1>6 DEF Bind, CopiesOK, ClosedOK, CopyOK, Stale, Write
<1>15. ProcessesOK'
  BY <1>1 DEF Bind, ProcessesOK, Follows, Up
<1>16. ASSUME Keepers PROVE Vacancy'
  <2>1. NobodyLeft /\ ResumerAlone /\ SessionsOfRow /\ OccupancyIsTrue
    BY <1>16 DEF IInv, Vacancy
  <2>2. NobodyLeft'
    BY <2>1 DEF Bind, NobodyLeft, Write
  <2>3. ResumerAlone'
    BY <2>1 DEF Bind, ResumerAlone, Write
  <2>4. SessionsOfRow'
    BY <1>4, <2>1 DEF Bind, SessionsOfRow, Stale, Write
  <2>5. OccupancyIsTrue'
    BY <2>1 DEF Bind, OccupancyIsTrue, OneOccupant, OccupantIsRecorded, Write
  <2> QED
    BY <2>2, <2>3, <2>4, <2>5 DEF Vacancy
<1> QED
  BY <1>7, <1>8, <1>9, <1>10, <1>11, <1>12, <1>13, <1>14, <1>15, <1>16 DEF IInv, Base,
     Copies, Row, Resume

LEMMA MakeDirectoryKeeps ==
    ASSUME IInv, MakeDirectory
    PROVE  IInv'
<1>1. /\ TypeOK /\ seen \in Copies /\ KindOK /\ ProcessesOK /\ LeaseOK
      /\ OwnersOK /\ DiskOK /\ GenerationsOK /\ CopiesOK
  BY DEF IInv, Base
<1>2. Typed
  BY <1>1, StateIsTyped
<1>3. op.does = "prepare" /\ row.state = "creating" /\ (kind = "worker" => occ[Worker].at = "pending" /\ occ[Worker].rt = op.rt)
  BY <1>1, OperationKnown DEF MakeDirectory, Preparing
<1>4. /\ op' \in Operation /\ op'.rt = op.rt
      /\ op'.does = op.does /\ op'.step = "made"
  BY <1>2 DEF MakeDirectory, Operation, Typed
<1>5. TypeOK'
  BY <1>1 DEF MakeDirectory, TypeOK
<1>6. LeaseOK'
  BY <1>1 DEF MakeDirectory, LeaseOK, Preparing, Removing, Resuming, Up, NoOp
<1>7. DiskOK'
  BY <1>1, <1>3 DEF MakeDirectory, DiskOK, Linked
<1>8. seen' \in Copies /\ KindOK' /\ ProcessesOK' /\ OwnersOK' /\ GenerationsOK' /\ CopiesOK'
  BY <1>1 DEF MakeDirectory, KindOK, ProcessesOK, Follows, Up, OwnersOK, GenerationsOK,
     Complete, CopiesOK, ClosedOK, CopyOK
<1>9. ASSUME Keepers PROVE Vacancy'
  <2>1. NobodyLeft /\ ResumerAlone /\ SessionsOfRow /\ OccupancyIsTrue
    BY <1>9 DEF IInv, Vacancy
  <2>2. NobodyLeft'
    BY <2>1 DEF MakeDirectory, NobodyLeft
  <2>3. ResumerAlone'
    BY <2>1 DEF MakeDirectory, ResumerAlone
  <2>4. SessionsOfRow' /\ OccupancyIsTrue'
    BY <2>1 DEF MakeDirectory, SessionsOfRow, OccupancyIsTrue, OneOccupant,
       OccupantIsRecorded
  <2> QED
    BY <2>2, <2>3, <2>4 DEF Vacancy
<1> QED
  BY <1>5, <1>6, <1>7, <1>8, <1>9 DEF IInv, Base, Copies, Row, Resume

LEMMA CaptureDirectoryKeeps ==
    ASSUME IInv, CaptureDirectory
    PROVE  IInv'
<1>1. /\ TypeOK /\ seen \in Copies /\ KindOK /\ ProcessesOK /\ LeaseOK
      /\ OwnersOK /\ DiskOK /\ GenerationsOK /\ CopiesOK
  BY DEF IInv, Base
<1>2. Typed
  BY <1>1, StateIsTyped
<1>3. op.does = "prepare" /\ row.state = "creating" /\ (kind = "worker" => occ[Worker].at = "pending" /\ occ[Worker].rt = op.rt)
  BY <1>1, OperationKnown DEF CaptureDirectory, Preparing
<1>4. /\ op' \in Operation /\ op'.rt = op.rt
      /\ op'.does = op.does /\ op'.step = "captured"
  BY <1>2 DEF CaptureDirectory, Operation, Typed
<1>5. Stale
  BY <1>1, WriteMakesStale DEF CaptureDirectory, Save
<1>6. /\ row' \in Row
      /\ row'.state = row.state /\ row'.rt = row.rt /\ row'.done = row.done /\ row'.dir = TRUE
      /\ row'.process = row.process /\ row'.sess = row.sess /\ row'.closed = row.closed /\ row'.resume = row.resume
  BY <1>2 DEF CaptureDirectory, Save, Typed, Write, Row
<1>7. TypeOK'
  BY <1>1, <1>4, <1>6 DEF CaptureDirectory, Save, TypeOK, Write
<1>8. seen' \in Copies
  BY <1>5 DEF Stale
<1>9. KindOK'
  BY <1>1 DEF CaptureDirectory, Save, KindOK, Write
<1>10. LeaseOK'
  BY <1>1 DEF CaptureDirectory, Save, LeaseOK, Preparing, Removing, Resuming, Up, NoOp,
     Write
<1>11. OwnersOK'
  BY <1>1, <1>3 DEF CaptureDirectory, Save, OwnersOK, Write
<1>12. DiskOK'
  BY <1>1 DEF CaptureDirectory, Save, DiskOK, Linked, Write
<1>13. GenerationsOK'
  BY <1>1 DEF CaptureDirectory, Save, GenerationsOK, Complete, Write
<1>14. CopiesOK'
  BY <1>1, <1>5 DEF CaptureDirectory, Save, CopiesOK, ClosedOK, CopyOK, Stale, Write
<1>15. ProcessesOK'
  BY <1>1 DEF CaptureDirectory, ProcessesOK, Follows, Up
<1>16. ASSUME Keepers PROVE Vacancy'
  <2>1. NobodyLeft /\ ResumerAlone /\ SessionsOfRow /\ OccupancyIsTrue
    BY <1>16 DEF IInv, Vacancy
  <2>2. NobodyLeft'
    BY <2>1 DEF CaptureDirectory, Save, NobodyLeft, Write
  <2>3. ResumerAlone'
    BY <2>1 DEF CaptureDirectory, Save, ResumerAlone, Write
  <2>4. SessionsOfRow'
    BY <1>5, <2>1 DEF CaptureDirectory, Save, SessionsOfRow, Stale, Write
  <2>5. OccupancyIsTrue'
    BY <2>1 DEF CaptureDirectory, Save, OccupancyIsTrue, OneOccupant, OccupantIsRecorded,
       Write
  <2> QED
    BY <2>2, <2>3, <2>4, <2>5 DEF Vacancy
<1> QED
  BY <1>7, <1>8, <1>9, <1>10, <1>11, <1>12, <1>13, <1>14, <1>15, <1>16 DEF IInv, Base,
     Copies, Row, Resume

LEMMA WorktreeAddKeeps ==
    ASSUME IInv, WorktreeAdd
    PROVE  IInv'
<1>1. /\ TypeOK /\ seen \in Copies /\ KindOK /\ ProcessesOK /\ LeaseOK
      /\ OwnersOK /\ DiskOK /\ GenerationsOK /\ CopiesOK
  BY DEF IInv, Base
<1>2. Typed
  BY <1>1, StateIsTyped
<1>3. op.does = "prepare" /\ row.state = "creating" /\ (kind = "worker" => occ[Worker].at = "pending" /\ occ[Worker].rt = op.rt)
  BY <1>1, OperationKnown DEF WorktreeAdd, Preparing
<1>4. /\ op' \in Operation /\ op'.rt = op.rt
      /\ op'.does = op.does /\ op'.step = "added"
  BY <1>2 DEF WorktreeAdd, Operation, Typed
<1>5. TypeOK'
  BY <1>1 DEF WorktreeAdd, TypeOK
<1>6. LeaseOK'
  BY <1>1 DEF WorktreeAdd, LeaseOK, Preparing, Removing, Resuming, Up, NoOp
<1>7. DiskOK'
  BY <1>3 DEF WorktreeAdd, DiskOK, Linked
<1>8. seen' \in Copies /\ KindOK' /\ ProcessesOK' /\ OwnersOK' /\ GenerationsOK' /\ CopiesOK'
  BY <1>1 DEF WorktreeAdd, KindOK, ProcessesOK, Follows, Up, OwnersOK, GenerationsOK,
     Complete, CopiesOK, ClosedOK, CopyOK
<1>9. ASSUME Keepers PROVE Vacancy'
  <2>1. NobodyLeft /\ ResumerAlone /\ SessionsOfRow /\ OccupancyIsTrue
    BY <1>9 DEF IInv, Vacancy
  <2>2. NobodyLeft'
    BY <2>1 DEF WorktreeAdd, NobodyLeft
  <2>3. ResumerAlone'
    BY <2>1 DEF WorktreeAdd, ResumerAlone
  <2>4. SessionsOfRow' /\ OccupancyIsTrue'
    BY <2>1 DEF WorktreeAdd, SessionsOfRow, OccupancyIsTrue, OneOccupant, OccupantIsRecorded
  <2> QED
    BY <2>2, <2>3, <2>4 DEF Vacancy
<1> QED
  BY <1>5, <1>6, <1>7, <1>8, <1>9 DEF IInv, Base, Copies, Row, Resume

LEMMA SaveReadyKeeps ==
    ASSUME IInv, SaveReady
    PROVE  IInv'
<1>1. /\ TypeOK /\ seen \in Copies /\ KindOK /\ ProcessesOK /\ LeaseOK
      /\ OwnersOK /\ DiskOK /\ GenerationsOK /\ CopiesOK
  BY DEF IInv, Base
<1>2. Typed
  BY <1>1, StateIsTyped
<1>3. op.does = "prepare" /\ row.state = "creating" /\ (kind = "worker" => occ[Worker].at = "pending" /\ occ[Worker].rt = op.rt)
  BY <1>1, OperationKnown DEF SaveReady, Preparing
<1>4. op' = NoOp /\ op' \in Operation /\ op'.does = "nothing" /\ op'.step = "none"
  BY DEF SaveReady, NoOp, Operation
<1>5. Stale
  BY <1>1, WriteMakesStale DEF SaveReady, Save
<1>6. /\ row' \in Row
      /\ row'.state = "ready" /\ row'.rt = row.rt /\ row'.done = row.done /\ row'.dir = row.dir
      /\ row'.process = row.process /\ row'.sess = row.sess /\ row'.closed = row.closed /\ row'.resume = row.resume
  BY <1>2 DEF SaveReady, Save, Typed, Write, Row
<1>7. occ' \in [Processes -> Occupancy]
  BY NamesApart, <1>2 DEF SaveReady, Typed, Occupancy
<1>8. TypeOK'
  BY <1>1, <1>3, <1>4, <1>7 DEF SaveReady, Save, TypeOK, Operation, Occupancy, Write
<1>9. seen' \in Copies
  BY <1>5 DEF Stale
<1>10. KindOK'
  BY <1>1 DEF SaveReady, Save, KindOK, Write
<1>11. ProcessesOK'
  BY <1>1, <1>3 DEF SaveReady, ProcessesOK, Follows, Up
<1>12. LeaseOK'
  BY <1>1 DEF SaveReady, LeaseOK, Resuming, NoOp
<1>13. OwnersOK'
  BY <1>1, <1>3 DEF SaveReady, Save, OwnersOK, Write
<1>14. DiskOK'
  BY DEF SaveReady, Save, DiskOK, Linked, Write
<1>15. GenerationsOK'
  BY <1>1 DEF SaveReady, Save, GenerationsOK, Complete, Write
<1>16. CopiesOK'
  BY <1>1, <1>5 DEF SaveReady, Save, CopiesOK, ClosedOK, CopyOK, Stale, Write
<1>17. ASSUME Keepers PROVE Vacancy'
  <2>1. NobodyLeft /\ ResumerAlone /\ SessionsOfRow /\ OccupancyIsTrue
    BY <1>17 DEF IInv, Vacancy
  <2>2. NobodyLeft'
    BY <1>4 DEF NobodyLeft
  <2>3. ResumerAlone'
    BY <1>4 DEF ResumerAlone
  <2>4. SessionsOfRow'
    BY <1>5, <2>1 DEF SaveReady, Save, SessionsOfRow, Stale, Write
  <2>5. OccupancyIsTrue'
    BY <2>1 DEF SaveReady, Save, OccupancyIsTrue, OneOccupant, OccupantIsRecorded, Write
  <2> QED
    BY <2>2, <2>3, <2>4, <2>5 DEF Vacancy
<1> QED
  BY <1>8, <1>9, <1>10, <1>11, <1>12, <1>13, <1>14, <1>15, <1>16, <1>17 DEF IInv, Base,
     Copies, Row, Resume

LEMMA ReleaseAbsentKeeps ==
    ASSUME IInv, ReleaseAbsent
    PROVE  IInv'
<1>1. /\ TypeOK /\ seen \in Copies /\ KindOK /\ ProcessesOK /\ LeaseOK
      /\ OwnersOK /\ DiskOK /\ GenerationsOK /\ CopiesOK
  BY DEF IInv, Base
<1>2. Typed
  BY <1>1, StateIsTyped
<1>3. op.does = "remove" /\ row.state \notin {"absent", "released"} /\ (op.step = "removed" => disk = "none") /\ occ[Worker].at # "ready" /\ (occ[Worker].at = "born" => occ[Worker].exit # "no")
  BY <1>1, OperationKnown DEF ReleaseAbsent, Removing
<1>4. op' = NoOp /\ op' \in Operation /\ op'.does = "nothing" /\ op'.step = "none"
  BY DEF ReleaseAbsent, NoOp, Operation
<1>5. Stale
  BY <1>1, WriteMakesStale DEF ReleaseAbsent, Save
<1>6. /\ row' \in Row
      /\ row'.state = "released" /\ row'.rt = row.rt /\ row'.done = row.done /\ row'.dir = row.dir
      /\ row'.process = row.process /\ row'.sess = row.sess /\ row'.closed = row.closed /\ row'.resume = NoResume
  BY <1>2 DEF ReleaseAbsent, Save, Released, Typed, Write, Row, Resume, NoResume
<1>7. disk = "none"
  BY DEF ReleaseAbsent
<1>8. ~ row'.resume.done /\ row'.resume.t = None
  BY <1>6 DEF NoResume
<1>9. UNCHANGED <<kind, phase, sweeps, disk, work, occ, live>>
  BY DEF ReleaseAbsent
<1>10. TypeOK'
  <2>1. Checked
    BY <1>1, StateIsChecked
  <2>2. Checked'
    BY <1>6, <1>9, <2>1 DEF Checked
  <2>3. /\ row' \in Row /\ op' \in Operation /\ occ' \in [Processes -> Occupancy]
        /\ kind' \in Kinds /\ phase' \in [Runtimes -> {"new", "up", "gone"}]
        /\ live' \subseteq Processes /\ seen' \in Copies
    BY <1>2, <1>4, <1>5, <1>6, <1>9 DEF Typed, Stale
  <2> QED
    BY <2>2, <2>3, TypesHold
<1>11. seen' \in Copies
  BY <1>5 DEF Stale
<1>12. KindOK'
  BY <1>1, <1>6, <1>9 DEF KindOK
<1>13. LeaseOK'
  BY <1>1, <1>3, <1>4, <1>9 DEF LeaseOK
<1>14. OwnersOK'
  BY <1>1, <1>3, <1>6, <1>9 DEF OwnersOK
<1>15. DiskOK'
  BY <1>1, <1>7, <1>9 DEF DiskOK, Linked
<1>16. GenerationsOK'
  BY <1>1, <1>6, <1>8, <1>9 DEF GenerationsOK, Complete
<1>17. CopiesOK'
  BY <1>1, <1>5, <1>6, <1>9 DEF CopiesOK, ClosedOK, CopyOK, Stale
<1>18. ProcessesOK'
  BY <1>1 DEF ReleaseAbsent, ProcessesOK, Follows, Up
<1>19. ASSUME Keepers PROVE Vacancy'
  <2>1. NobodyLeft /\ ResumerAlone /\ SessionsOfRow /\ OccupancyIsTrue
    BY <1>19 DEF IInv, Vacancy
  <2>2. NobodyLeft'
    BY <1>4 DEF NobodyLeft
  <2>3. ResumerAlone'
    BY <1>4 DEF ResumerAlone
  <2>4. SessionsOfRow'
    BY <1>5, <1>6, <1>9, <2>1 DEF SessionsOfRow, Stale
  <2>5. OccupancyIsTrue'
    BY <1>3, <1>9, <2>1 DEF OccupancyIsTrue, OneOccupant, OccupantIsRecorded, NobodyLeft
  <2> QED
    BY <2>2, <2>3, <2>4, <2>5 DEF Vacancy
<1> QED
  BY <1>10, <1>11, <1>12, <1>13, <1>14, <1>15, <1>16, <1>17, <1>18, <1>19 DEF IInv, Base,
     Copies, Row, Resume

LEMMA RemoveEmptyKeeps ==
    ASSUME IInv, RemoveEmpty
    PROVE  IInv'
<1>1. /\ TypeOK /\ seen \in Copies /\ KindOK /\ ProcessesOK /\ LeaseOK
      /\ OwnersOK /\ DiskOK /\ GenerationsOK /\ CopiesOK
  BY DEF IInv, Base
<1>2. Typed
  BY <1>1, StateIsTyped
<1>3. op.does = "remove" /\ row.state \notin {"absent", "released"} /\ (op.step = "removed" => disk = "none") /\ occ[Worker].at # "ready" /\ (occ[Worker].at = "born" => occ[Worker].exit # "no")
  BY <1>1, OperationKnown DEF RemoveEmpty, Removing
<1>4. /\ op' \in Operation /\ op'.rt = op.rt
      /\ op'.does = op.does /\ op'.step = "removed"
  BY <1>2 DEF RemoveEmpty, Operation, Typed
<1>5. TypeOK'
  BY <1>1 DEF RemoveEmpty, TypeOK
<1>6. LeaseOK'
  BY <1>1 DEF RemoveEmpty, LeaseOK, Preparing, Removing, Resuming, Up, NoOp
<1>7. DiskOK'
  BY <1>1 DEF RemoveEmpty, DiskOK, Linked
<1>8. seen' \in Copies /\ KindOK' /\ ProcessesOK' /\ OwnersOK' /\ GenerationsOK' /\ CopiesOK'
  BY <1>1 DEF RemoveEmpty, KindOK, ProcessesOK, Follows, Up, OwnersOK, GenerationsOK,
     Complete, CopiesOK, ClosedOK, CopyOK
<1>9. ASSUME Keepers PROVE Vacancy'
  <2>1. NobodyLeft /\ ResumerAlone /\ SessionsOfRow /\ OccupancyIsTrue
    BY <1>9 DEF IInv, Vacancy
  <2>2. NobodyLeft'
    BY <2>1 DEF RemoveEmpty, NobodyLeft
  <2>3. ResumerAlone'
    BY <2>1 DEF RemoveEmpty, ResumerAlone
  <2>4. SessionsOfRow' /\ OccupancyIsTrue'
    BY <2>1 DEF RemoveEmpty, SessionsOfRow, OccupancyIsTrue, OneOccupant, OccupantIsRecorded
  <2> QED
    BY <2>2, <2>3, <2>4 DEF Vacancy
<1> QED
  BY <1>5, <1>6, <1>7, <1>8, <1>9 DEF IInv, Base, Copies, Row, Resume

LEMMA PreserveKeeps ==
    ASSUME IInv, Preserve
    PROVE  IInv'
<1>1. /\ TypeOK /\ seen \in Copies /\ KindOK /\ ProcessesOK /\ LeaseOK
      /\ OwnersOK /\ DiskOK /\ GenerationsOK /\ CopiesOK
  BY DEF IInv, Base
<1>2. Typed
  BY <1>1, StateIsTyped
<1>3. op.does = "remove" /\ row.state \notin {"absent", "released"} /\ (op.step = "removed" => disk = "none") /\ occ[Worker].at # "ready" /\ (occ[Worker].at = "born" => occ[Worker].exit # "no")
  BY <1>1, OperationKnown DEF Preserve, Removing
<1>4. op' = NoOp /\ op' \in Operation /\ op'.does = "nothing" /\ op'.step = "none"
  BY DEF Preserve, NoOp, Operation
<1>5. Stale
  BY <1>1, WriteMakesStale DEF Preserve, Save
<1>6. /\ row' \in Row
      /\ row'.state = "preserved" /\ row'.rt = row.rt /\ row'.done = row.done /\ row'.dir = row.dir
      /\ row'.process = row.process /\ row'.sess = row.sess /\ row'.closed = row.closed /\ row'.resume = row.resume
  BY <1>2 DEF Preserve, Save, Typed, Write, Row
<1>7. TypeOK'
  BY <1>1, <1>4 DEF Preserve, Save, TypeOK, Operation, Write
<1>8. seen' \in Copies
  BY <1>5 DEF Stale
<1>9. KindOK'
  BY <1>1 DEF Preserve, Save, KindOK, Write
<1>10. LeaseOK'
  BY <1>1 DEF Preserve, LeaseOK, Resuming, NoOp
<1>11. OwnersOK'
  BY <1>1, <1>3 DEF Preserve, Save, OwnersOK, Write
<1>12. DiskOK'
  BY DEF Preserve, Save, DiskOK, Linked, Write
<1>13. GenerationsOK'
  BY <1>1 DEF Preserve, Save, GenerationsOK, Complete, Write
<1>14. CopiesOK'
  BY <1>1, <1>5 DEF Preserve, Save, CopiesOK, ClosedOK, CopyOK, Stale, Write
<1>15. ProcessesOK'
  BY <1>1 DEF Preserve, ProcessesOK, Follows, Up
<1>16. ASSUME Keepers PROVE Vacancy'
  <2>1. NobodyLeft /\ ResumerAlone /\ SessionsOfRow /\ OccupancyIsTrue
    BY <1>16 DEF IInv, Vacancy
  <2>2. NobodyLeft'
    BY <1>4 DEF NobodyLeft
  <2>3. ResumerAlone'
    BY <1>4 DEF ResumerAlone
  <2>4. SessionsOfRow'
    BY <1>5, <2>1 DEF Preserve, Save, SessionsOfRow, Stale, Write
  <2>5. OccupancyIsTrue'
    BY <2>1 DEF Preserve, Save, OccupancyIsTrue, OneOccupant, OccupantIsRecorded, Write
  <2> QED
    BY <2>2, <2>3, <2>4, <2>5 DEF Vacancy
<1> QED
  BY <1>7, <1>8, <1>9, <1>10, <1>11, <1>12, <1>13, <1>14, <1>15, <1>16 DEF IInv, Base,
     Copies, Row, Resume

LEMMA FindCleanKeeps ==
    ASSUME IInv, FindClean
    PROVE  IInv'
<1>1. /\ TypeOK /\ seen \in Copies /\ KindOK /\ ProcessesOK /\ LeaseOK
      /\ OwnersOK /\ DiskOK /\ GenerationsOK /\ CopiesOK
  BY DEF IInv, Base
<1>2. Typed
  BY <1>1, StateIsTyped
<1>3. op.does = "remove" /\ row.state \notin {"absent", "released"} /\ (op.step = "removed" => disk = "none") /\ occ[Worker].at # "ready" /\ (occ[Worker].at = "born" => occ[Worker].exit # "no")
  BY <1>1, OperationKnown DEF FindClean, Removing
<1>4. /\ op' \in Operation /\ op'.rt = op.rt
      /\ op'.does = op.does /\ op'.step = "clean"
  BY <1>2 DEF FindClean, Operation, Typed
<1>5. TypeOK'
  BY <1>1 DEF FindClean, TypeOK
<1>6. LeaseOK'
  BY <1>1 DEF FindClean, LeaseOK, Preparing, Removing, Resuming, Up, NoOp
<1>7. seen' \in Copies /\ KindOK' /\ ProcessesOK' /\ OwnersOK' /\ DiskOK' /\ GenerationsOK' /\ CopiesOK'
  BY <1>1 DEF FindClean, KindOK, ProcessesOK, Follows, Up, OwnersOK, NoRow, DiskOK,
     Linked, GenerationsOK, Complete, CopiesOK, ClosedOK, CopyOK
<1>8. ASSUME Keepers PROVE Vacancy'
  <2>1. NobodyLeft /\ ResumerAlone /\ SessionsOfRow /\ OccupancyIsTrue
    BY <1>8 DEF IInv, Vacancy
  <2>2. NobodyLeft'
    BY <2>1 DEF FindClean, Clean, NobodyLeft
  <2>3. ResumerAlone'
    BY <2>1 DEF FindClean, ResumerAlone
  <2>4. SessionsOfRow' /\ OccupancyIsTrue'
    BY <2>1 DEF FindClean, SessionsOfRow, OccupancyIsTrue, OneOccupant, OccupantIsRecorded
  <2> QED
    BY <2>2, <2>3, <2>4 DEF Vacancy
<1> QED
  BY <1>5, <1>6, <1>7, <1>8 DEF IInv, Base, Copies, Row, Resume

LEMMA WorktreeRemoveKeeps ==
    ASSUME IInv, WorktreeRemove
    PROVE  IInv'
<1>1. /\ TypeOK /\ seen \in Copies /\ KindOK /\ ProcessesOK /\ LeaseOK
      /\ OwnersOK /\ DiskOK /\ GenerationsOK /\ CopiesOK
  BY DEF IInv, Base
<1>2. Typed
  BY <1>1, StateIsTyped
<1>3. op.does = "remove" /\ row.state \notin {"absent", "released"} /\ (op.step = "removed" => disk = "none") /\ occ[Worker].at # "ready" /\ (occ[Worker].at = "born" => occ[Worker].exit # "no")
  BY <1>1, OperationKnown DEF WorktreeRemove, Removing
<1>4. /\ op' \in Operation /\ op'.rt = op.rt
      /\ op'.does = op.does /\ op'.step = "removed"
  BY <1>2 DEF WorktreeRemove, Operation, Typed
<1>5. TypeOK'
  BY <1>1 DEF WorktreeRemove, TypeOK
<1>6. LeaseOK'
  BY <1>1 DEF WorktreeRemove, LeaseOK, Preparing, Removing, Resuming, Up, NoOp
<1>7. DiskOK'
  BY DEF WorktreeRemove, DiskOK
<1>8. seen' \in Copies /\ KindOK' /\ ProcessesOK' /\ OwnersOK' /\ GenerationsOK' /\ CopiesOK'
  BY <1>1 DEF WorktreeRemove, KindOK, ProcessesOK, Follows, Up, OwnersOK, GenerationsOK,
     Complete, CopiesOK, ClosedOK, CopyOK
<1>9. ASSUME Keepers PROVE Vacancy'
  <2>1. NobodyLeft /\ ResumerAlone /\ SessionsOfRow /\ OccupancyIsTrue
    BY <1>9 DEF IInv, Vacancy
  <2>2. NobodyLeft'
    BY <2>1 DEF WorktreeRemove, NobodyLeft
  <2>3. ResumerAlone'
    BY <2>1 DEF WorktreeRemove, ResumerAlone
  <2>4. SessionsOfRow' /\ OccupancyIsTrue'
    BY <2>1 DEF WorktreeRemove, SessionsOfRow, OccupancyIsTrue, OneOccupant,
       OccupantIsRecorded
  <2> QED
    BY <2>2, <2>3, <2>4 DEF Vacancy
<1> QED
  BY <1>5, <1>6, <1>7, <1>8, <1>9 DEF IInv, Base, Copies, Row, Resume

LEMMA SaveReleasedKeeps ==
    ASSUME IInv, SaveReleased
    PROVE  IInv'
<1>1. /\ TypeOK /\ seen \in Copies /\ KindOK /\ ProcessesOK /\ LeaseOK
      /\ OwnersOK /\ DiskOK /\ GenerationsOK /\ CopiesOK
  BY DEF IInv, Base
<1>2. Typed
  BY <1>1, StateIsTyped
<1>3. op.does = "remove" /\ row.state \notin {"absent", "released"} /\ (op.step = "removed" => disk = "none") /\ occ[Worker].at # "ready" /\ (occ[Worker].at = "born" => occ[Worker].exit # "no")
  BY <1>1, OperationKnown DEF SaveReleased, Removing
<1>4. op' = NoOp /\ op' \in Operation /\ op'.does = "nothing" /\ op'.step = "none"
  BY DEF SaveReleased, NoOp, Operation
<1>5. Stale
  BY <1>1, WriteMakesStale DEF SaveReleased, Save
<1>6. /\ row' \in Row
      /\ row'.state = "released" /\ row'.rt = row.rt /\ row'.done = row.done /\ row'.dir = row.dir
      /\ row'.process = row.process /\ row'.sess = row.sess /\ row'.closed = row.closed /\ row'.resume = NoResume
  BY <1>2 DEF SaveReleased, Save, Released, Typed, Write, Row, Resume, NoResume
<1>7. disk = "none"
  BY <1>3 DEF SaveReleased
<1>8. ~ row'.resume.done /\ row'.resume.t = None
  BY <1>6 DEF NoResume
<1>9. UNCHANGED <<kind, phase, sweeps, disk, work, occ, live>>
  BY DEF SaveReleased
<1>10. TypeOK'
  <2>1. Checked
    BY <1>1, StateIsChecked
  <2>2. Checked'
    BY <1>6, <1>9, <2>1 DEF Checked
  <2>3. /\ row' \in Row /\ op' \in Operation /\ occ' \in [Processes -> Occupancy]
        /\ kind' \in Kinds /\ phase' \in [Runtimes -> {"new", "up", "gone"}]
        /\ live' \subseteq Processes /\ seen' \in Copies
    BY <1>2, <1>4, <1>5, <1>6, <1>9 DEF Typed, Stale
  <2> QED
    BY <2>2, <2>3, TypesHold
<1>11. seen' \in Copies
  BY <1>5 DEF Stale
<1>12. KindOK'
  BY <1>1, <1>6, <1>9 DEF KindOK
<1>13. LeaseOK'
  BY <1>1, <1>3, <1>4, <1>9 DEF LeaseOK
<1>14. OwnersOK'
  BY <1>1, <1>3, <1>6, <1>9 DEF OwnersOK
<1>15. DiskOK'
  BY <1>1, <1>7, <1>9 DEF DiskOK, Linked
<1>16. GenerationsOK'
  BY <1>1, <1>6, <1>8, <1>9 DEF GenerationsOK, Complete
<1>17. CopiesOK'
  BY <1>1, <1>5, <1>6, <1>9 DEF CopiesOK, ClosedOK, CopyOK, Stale
<1>18. ProcessesOK'
  BY <1>1 DEF SaveReleased, ProcessesOK, Follows, Up
<1>19. ASSUME Keepers PROVE Vacancy'
  <2>1. NobodyLeft /\ ResumerAlone /\ SessionsOfRow /\ OccupancyIsTrue
    BY <1>19 DEF IInv, Vacancy
  <2>2. NobodyLeft'
    BY <1>4 DEF NobodyLeft
  <2>3. ResumerAlone'
    BY <1>4 DEF ResumerAlone
  <2>4. SessionsOfRow'
    BY <1>5, <1>6, <1>9, <2>1 DEF SessionsOfRow, Stale
  <2>5. OccupancyIsTrue'
    BY <1>3, <1>9, <2>1 DEF OccupancyIsTrue, OneOccupant, OccupantIsRecorded, NobodyLeft
  <2> QED
    BY <2>2, <2>3, <2>4, <2>5 DEF Vacancy
<1> QED
  BY <1>10, <1>11, <1>12, <1>13, <1>14, <1>15, <1>16, <1>17, <1>18, <1>19 DEF IInv, Base,
     Copies, Row, Resume

LEMMA OperationFailsKeeps ==
    ASSUME IInv, OperationFails
    PROVE  IInv'
<1>1. /\ TypeOK /\ seen \in Copies /\ KindOK /\ ProcessesOK /\ LeaseOK
      /\ OwnersOK /\ DiskOK /\ GenerationsOK /\ CopiesOK
  BY DEF IInv, Base
<1>2. Typed
  BY <1>1, StateIsTyped
<1>3. (op.does = "prepare" /\ row.state = "creating" /\ (kind = "worker" => occ[Worker].at = "pending" /\ occ[Worker].rt = op.rt)) \/ (op.does = "remove" /\ row.state \notin {"absent", "released"} /\ (op.step = "removed" => disk = "none") /\ occ[Worker].at # "ready" /\ (occ[Worker].at = "born" => occ[Worker].exit # "no"))
  BY <1>1 DEF OperationFails, LeaseOK, Preparing, Removing
<1>4. op' = NoOp /\ op' \in Operation /\ op'.does = "nothing" /\ op'.step = "none"
  BY DEF OperationFails, NoOp, Operation
<1>5. TypeOK'
  BY <1>1, <1>4 DEF OperationFails, HalfDone, TypeOK, Operation
<1>6. LeaseOK'
  BY <1>1 DEF OperationFails, LeaseOK, NoOp
<1>7. DiskOK'
  BY <1>1, <1>3 DEF OperationFails, HalfDone, DiskOK, Linked
<1>8. seen' \in Copies /\ KindOK' /\ ProcessesOK' /\ OwnersOK' /\ GenerationsOK' /\ CopiesOK'
  BY <1>1 DEF OperationFails, KindOK, ProcessesOK, Follows, Up, OwnersOK, GenerationsOK,
     Complete, CopiesOK, ClosedOK, CopyOK
<1>9. ASSUME Keepers PROVE Vacancy'
  <2>1. NobodyLeft /\ ResumerAlone /\ SessionsOfRow /\ OccupancyIsTrue
    BY <1>9 DEF IInv, Vacancy
  <2>2. NobodyLeft'
    BY <1>4 DEF NobodyLeft
  <2>3. ResumerAlone'
    BY <1>4 DEF ResumerAlone
  <2>4. SessionsOfRow' /\ OccupancyIsTrue'
    BY <2>1 DEF OperationFails, SessionsOfRow, OccupancyIsTrue, OneOccupant,
       OccupantIsRecorded
  <2> QED
    BY <2>2, <2>3, <2>4 DEF Vacancy
<1> QED
  BY <1>5, <1>6, <1>7, <1>8, <1>9 DEF IInv, Base, Copies, Row, Resume

LEMMA CancelSpawnKeeps ==
    ASSUME IInv, CancelSpawn
    PROVE  IInv'
<1>1. /\ TypeOK /\ seen \in Copies /\ KindOK /\ ProcessesOK /\ LeaseOK
      /\ OwnersOK /\ DiskOK /\ GenerationsOK /\ CopiesOK
  BY DEF IInv, Base
<1>2. Typed
  BY <1>1, StateIsTyped
<1>3. Occupies(Worker, "over", occ[Worker].rt, "owed")
  BY <1>2, NamesApart, PlaceAndExitChange DEF CancelSpawn, Typed, Places, Exits
<1>4. TypeOK'
  BY <1>1, <1>3 DEF CancelSpawn, TypeOK, Occupancy, Occupies
<1>5. KindOK'
  BY <1>1, NamesApart, <1>3 DEF CancelSpawn, KindOK, Occupies
<1>6. ProcessesOK'
  BY <1>1, <1>3 DEF CancelSpawn, ProcessesOK, Follows, Up, Occupies
<1>7. LeaseOK'
  BY <1>1, NamesApart, <1>3 DEF CancelSpawn, LeaseOK, Removing, Resuming, Up, Occupies
<1>8. OwnersOK'
  BY <1>1, <1>3 DEF CancelSpawn, OwnersOK, Occupies
<1>9. GenerationsOK'
  BY <1>1, <1>2 DEF CancelSpawn, Typed, GenerationsOK, Complete
<1>10. CopiesOK'
  BY <1>1, NamesApart, <1>3 DEF CancelSpawn, CopiesOK, ClosedOK, CopyOK, Occupies
<1>11. seen' \in Copies /\ DiskOK'
  BY <1>1 DEF CancelSpawn, DiskOK, Linked
<1>12. ASSUME Keepers PROVE Vacancy'
  <2>1. NobodyLeft /\ ResumerAlone /\ SessionsOfRow /\ OccupancyIsTrue
    BY <1>12 DEF IInv, Vacancy
  <2>2. NobodyLeft'
    BY NamesApart, <1>3, <2>1 DEF CancelSpawn, NobodyLeft, Occupies
  <2>3. SessionsOfRow'
    BY NamesApart, <1>3, <2>1 DEF CancelSpawn, SessionsOfRow, Occupies
  <2>4. ResumerAlone' /\ OccupancyIsTrue'
    BY <2>1 DEF CancelSpawn, ResumerAlone, OccupancyIsTrue, OneOccupant, OccupantIsRecorded
  <2> QED
    BY <2>2, <2>3, <2>4 DEF Vacancy
<1> QED
  BY <1>4, <1>5, <1>6, <1>7, <1>8, <1>9, <1>10, <1>11, <1>12 DEF IInv, Base, Copies, Row,
     Resume

LEMMA BindTerminalKeeps ==
    ASSUME IInv, BindTerminal
    PROVE  IInv'
<1>1. /\ TypeOK /\ seen \in Copies /\ KindOK /\ ProcessesOK /\ LeaseOK
      /\ OwnersOK /\ DiskOK /\ GenerationsOK /\ CopiesOK
  BY DEF IInv, Base
<1>2. Typed
  BY <1>1, StateIsTyped
<1>3. op.does = "nothing"
  BY DEF BindTerminal, NoOp
<1>4. Occupies(Worker, "up", occ[Worker].rt, occ[Worker].exit)
  BY <1>2, NamesApart, PlaceChanges DEF BindTerminal, Typed, Places
<1>5. Stale
  BY <1>1, WriteMakesStale DEF BindTerminal
<1>6. /\ row' \in Row
      /\ row'.state = "bound" /\ row'.rt = row.rt /\ row'.done = row.done /\ row'.dir = row.dir
      /\ row'.process = TRUE /\ row'.sess = row.sess /\ row'.closed = row.closed /\ row'.resume = row.resume
  BY <1>2 DEF BindTerminal, Typed, Write, Row
<1>7. kind # "chat"
  BY <1>1, NamesApart DEF BindTerminal, KindOK, ProcessesOK, Follows
<1>8. TypeOK'
  BY <1>1, <1>4, <1>6 DEF BindTerminal, TypeOK, Row, Resume, Occupancy, Occupies, Write
<1>9. seen' \in Copies
  BY <1>5 DEF Stale
<1>10. KindOK'
  BY <1>1, <1>7 DEF BindTerminal, KindOK
<1>11. ProcessesOK'
  BY <1>1 DEF BindTerminal, ProcessesOK, Follows, Up
<1>12. LeaseOK'
  BY <1>1 DEF BindTerminal, LeaseOK, NoOp
<1>13. OwnersOK'
  BY <1>1, <1>4 DEF BindTerminal, OwnersOK, Occupies, Write
<1>14. DiskOK'
  BY DEF BindTerminal, DiskOK, Linked, Write
<1>15. GenerationsOK'
  BY <1>1 DEF BindTerminal, GenerationsOK, Complete, Write
<1>16. CopiesOK'
  BY <1>1, <1>5 DEF BindTerminal, CopiesOK, ClosedOK, CopyOK, Stale, Write
<1>17. ASSUME Keepers PROVE Vacancy'
  <2>1. NobodyLeft /\ ResumerAlone /\ SessionsOfRow /\ OccupancyIsTrue
    BY <1>17 DEF IInv, Vacancy
  <2>2. NobodyLeft'
    BY <2>1 DEF BindTerminal, NobodyLeft, Write
  <2>3. ResumerAlone'
    BY <2>1 DEF BindTerminal, ResumerAlone, Write
  <2>4. SessionsOfRow'
    BY <1>5, <2>1 DEF BindTerminal, SessionsOfRow, Stale, Write
  <2>5. OccupancyIsTrue'
    BY <2>1 DEF BindTerminal, OccupancyIsTrue, OneOccupant, OccupantIsRecorded, Write
  <2> QED
    BY <2>2, <2>3, <2>4, <2>5 DEF Vacancy
<1> QED
  BY <1>8, <1>9, <1>10, <1>11, <1>12, <1>13, <1>14, <1>15, <1>16, <1>17 DEF IInv, Base,
     Copies, Row, Resume

LEMMA BindFailsKeeps ==
    ASSUME IInv, BindFails
    PROVE  IInv'
<1>1. /\ TypeOK /\ seen \in Copies /\ KindOK /\ ProcessesOK /\ LeaseOK
      /\ OwnersOK /\ DiskOK /\ GenerationsOK /\ CopiesOK
  BY DEF IInv, Base
<1>2. Typed
  BY <1>1, StateIsTyped
<1>3. Occupies(Worker, "up", occ[Worker].rt, occ[Worker].exit)
  BY <1>2, NamesApart, PlaceChanges DEF BindFails, Typed, Places
<1>4. TypeOK'
  BY <1>1, <1>3 DEF BindFails, TypeOK, Occupies
<1>5. KindOK'
  BY <1>1 DEF BindFails, KindOK
<1>6. ProcessesOK'
  BY <1>1 DEF BindFails, ProcessesOK, Follows, Up
<1>7. LeaseOK'
  BY <1>1, NamesApart DEF BindFails, LeaseOK, Preparing, Removing, Resuming, Up
<1>8. OwnersOK'
  BY <1>1 DEF BindFails, OwnersOK
<1>9. GenerationsOK'
  BY <1>1 DEF BindFails, GenerationsOK, Complete
<1>10. CopiesOK'
  BY <1>1 DEF BindFails, CopiesOK, ClosedOK, CopyOK
<1>11. seen' \in Copies /\ DiskOK'
  BY <1>1 DEF BindFails, DiskOK, Linked
<1>12. ASSUME Keepers PROVE Vacancy'
  <2>1. NobodyLeft /\ ResumerAlone /\ SessionsOfRow /\ OccupancyIsTrue
    BY <1>12 DEF IInv, Vacancy
  <2>2. NobodyLeft'
    BY <2>1 DEF BindFails, NobodyLeft
  <2>3. SessionsOfRow'
    BY <2>1 DEF BindFails, SessionsOfRow
  <2>4. ResumerAlone' /\ OccupancyIsTrue'
    BY <2>1 DEF BindFails, ResumerAlone, OccupancyIsTrue, OneOccupant, OccupantIsRecorded
  <2> QED
    BY <2>2, <2>3, <2>4 DEF Vacancy
<1> QED
  BY <1>4, <1>5, <1>6, <1>7, <1>8, <1>9, <1>10, <1>11, <1>12 DEF IInv, Base, Copies, Row,
     Resume

LEMMA ReleaseWorkerKeeps ==
    ASSUME IInv, ReleaseWorker
    PROVE  IInv'
<1>1. /\ TypeOK /\ seen \in Copies /\ KindOK /\ ProcessesOK /\ LeaseOK
      /\ OwnersOK /\ DiskOK /\ GenerationsOK /\ CopiesOK
  BY DEF IInv, Base
<1>2. Typed
  BY <1>1, StateIsTyped
<1>3. Occupies(Worker, occ[Worker].at, occ[Worker].rt, "done")
  BY <1>2, NamesApart, ExitChanges DEF ReleaseWorker, Typed, Exits
<1>4. /\ occ[Worker].exit = "owed" /\ Worker \notin live /\ Up(occ[Worker].rt)
      /\ occ[Worker].at \in {"born", "up", "over"}
  BY <1>1, NamesApart DEF ReleaseWorker, ProcessesOK, Follows, Up
<1>5. kind = "worker"
  BY <1>1, NamesApart, <1>2, <1>4, KindsKnown DEF KindOK, Up, Typed
<1>6. /\ op' \in Operation
      /\ \/ op' = op
         \/ /\ op'.does = "remove" /\ op'.rt = occ[Worker].rt /\ op'.step = "checked"
            /\ op' # NoOp /\ op.does = "nothing"
            /\ row.state \notin {"absent", "released"} /\ ~ ResumeIsLive
  BY <1>2, <1>4, RemoveBegins DEF ReleaseWorker, Typed, MayRemove, Up
<1>7. Keepers /\ OccupancyIsTrue /\ ~ ResumeIsLive => live = {}
  BY <1>1, <1>4, <1>5, NobodyAfterProof
<1>8. UNCHANGED <<kind, phase, sweeps, row, disk, work, live, seen>>
  BY DEF ReleaseWorker, Write
<1>9. TypeOK'
  <2>1. Checked
    BY <1>1, StateIsChecked
  <2>2. Checked'
    BY <1>8, <2>1 DEF Checked
  <2>3. /\ row' \in Row /\ op' \in Operation /\ occ' \in [Processes -> Occupancy]
        /\ kind' \in Kinds /\ phase' \in [Runtimes -> {"new", "up", "gone"}]
        /\ live' \subseteq Processes /\ seen' \in Copies
    BY <1>1, <1>2, <1>3, <1>6, <1>8 DEF Typed, Occupies
  <2> QED
    BY <2>2, <2>3, TypesHold
<1>10. KindOK'
  BY <1>1, NamesApart, <1>3, <1>8 DEF KindOK, Occupies
<1>11. ProcessesOK'
  BY <1>1, <1>3, <1>4, <1>8 DEF ProcessesOK, Follows, Up, Occupies
<1>12. LeaseOK'
  BY <1>1, NamesApart, <1>3, <1>4, <1>6, <1>8 DEF LeaseOK, Preparing, Removing, Resuming,
     Up, Occupies
<1>13. OwnersOK'
  BY <1>1, NamesApart, <1>3, <1>8 DEF OwnersOK, Occupies
<1>14. GenerationsOK'
  BY <1>1, <1>2, <1>3, <1>8 DEF Typed, GenerationsOK, Complete, Occupies
<1>15. CopiesOK'
  BY <1>1, NamesApart, <1>3, <1>8 DEF CopiesOK, ClosedOK, CopyOK, Occupies
<1>16. seen' \in Copies /\ DiskOK'
  BY <1>1 DEF ReleaseWorker, DiskOK, Linked
<1>17. ASSUME Keepers PROVE Vacancy'
  <2>1. NobodyLeft /\ ResumerAlone /\ SessionsOfRow /\ OccupancyIsTrue
    BY <1>17 DEF IInv, Vacancy
  <2>2. NobodyLeft'
    BY <1>5, <1>6, <1>7, <1>8, <1>17, <2>1 DEF NobodyLeft
  <2>3. ResumerAlone'
    BY <1>6, <1>8, <2>1 DEF ResumerAlone
  <2>4. SessionsOfRow'
    BY NamesApart, <1>3, <1>8, <2>1 DEF SessionsOfRow, Occupies
  <2>5. OccupancyIsTrue'
    BY <2>1 DEF ReleaseWorker, OccupancyIsTrue, OneOccupant, OccupantIsRecorded
  <2> QED
    BY <2>2, <2>3, <2>4, <2>5 DEF Vacancy
<1> QED
  BY <1>9, <1>10, <1>11, <1>12, <1>13, <1>14, <1>15, <1>16, <1>17 DEF IInv, Base, Copies,
     Row, Resume

LEMMA BirthKeeps ==
    ASSUME IInv, NEW t \in Terminals, Birth(t)
    PROVE  IInv'
<1>1. /\ TypeOK /\ seen \in Copies /\ KindOK /\ ProcessesOK /\ LeaseOK
      /\ OwnersOK /\ DiskOK /\ GenerationsOK /\ CopiesOK
  BY DEF IInv, Base
<1>2. Typed
  BY <1>1, StateIsTyped
<1>3. Occupies(t, "born", occ[t].rt, occ[t].exit)
  BY <1>2, NamesApart, PlaceChanges DEF Birth, Typed, Places
<1>4. t \notin live /\ Up(occ[t].rt) /\ occ[t].exit = "no" /\ live' = live \cup {t}
      /\ occ[t].at = IF t = Worker THEN "ready" ELSE "pending"
  BY <1>1, NamesApart DEF Birth, ProcessesOK, Follows
<1>5. t # Worker => /\ t \in Resumes /\ op.does = "resume" /\ row.resume.t = t
                     /\ row.state \in {"bound", "preserved"}
  BY <1>1, NamesApart DEF Birth, LeaseOK, Resuming
<1>6. t = Worker => /\ op.does \notin {"remove", "resume"} /\ row.state = "ready"
                     /\ ~ row.process /\ row.resume = NoResume
  BY <1>1 DEF Birth, LeaseOK, Removing, Resuming, OwnersOK
<1>7. UNCHANGED <<kind, phase, sweeps, row, disk, work, op, seen>>
  BY DEF Birth, Write
<1>8. TypeOK'
  <2>1. Checked
    BY <1>1, StateIsChecked
  <2>2. Checked'
    BY <1>7, <2>1 DEF Checked
  <2>3. /\ row' \in Row /\ op' \in Operation /\ occ' \in [Processes -> Occupancy]
        /\ kind' \in Kinds /\ phase' \in [Runtimes -> {"new", "up", "gone"}]
        /\ live' \subseteq Processes /\ seen' \in Copies
    BY <1>1, <1>2, <1>3, <1>4, <1>7 DEF Typed, Occupies
  <2> QED
    BY <2>2, <2>3, TypesHold
<1>9. KindOK'
  BY <1>1, NamesApart, <1>3, <1>7 DEF KindOK, Occupies
<1>10. ProcessesOK'
  BY <1>1, <1>3, <1>4, <1>7 DEF ProcessesOK, Follows, Up, Occupies
<1>11. LeaseOK'
  BY <1>1, NamesApart, <1>3, <1>5, <1>6, <1>7 DEF LeaseOK, Preparing, Resuming, Up, Occupies
<1>12. OwnersOK'
  BY <1>1, NamesApart, <1>3, <1>6, <1>7 DEF OwnersOK, Occupies
<1>13. GenerationsOK'
  BY <1>1, <1>2, <1>3, <1>4, <1>7 DEF Typed, GenerationsOK, Complete, Occupies, Up
<1>14. CopiesOK'
  BY <1>1, NamesApart, <1>3, <1>4, <1>7 DEF CopiesOK, ClosedOK, CopyOK, Occupies
<1>15. seen' \in Copies /\ DiskOK'
  BY <1>1 DEF Birth, DiskOK, Linked
<1>16. ASSUME Keepers PROVE Vacancy'
  <2>1. NobodyLeft /\ ResumerAlone /\ SessionsOfRow /\ OccupancyIsTrue
    BY <1>16 DEF IInv, Vacancy
  <2>2. NobodyLeft'
    BY <1>5, <1>6, <1>7 DEF NobodyLeft
  <2>3. ResumerAlone'
    BY <1>4, <1>5, <1>6, <1>7, <2>1 DEF ResumerAlone
  <2>4. SessionsOfRow'
    BY NamesApart, <1>3, <1>4, <1>7, <2>1 DEF SessionsOfRow, Occupies
  <2>5. OccupancyIsTrue'
    BY NamesApart, <1>4, <1>5, <1>6, <1>7, <2>1 DEF OccupancyIsTrue, OneOccupant,
       OccupantIsRecorded, ResumerAlone, NoResume
  <2> QED
    BY <2>2, <2>3, <2>4, <2>5 DEF Vacancy
<1> QED
  BY <1>8, <1>9, <1>10, <1>11, <1>12, <1>13, <1>14, <1>15, <1>16 DEF IInv, Base, Copies,
     Row, Resume

LEMMA ForgetKeeps ==
    ASSUME IInv, NEW t \in Terminals, Forget(t)
    PROVE  IInv'
<1>1. /\ TypeOK /\ seen \in Copies /\ KindOK /\ ProcessesOK /\ LeaseOK
      /\ OwnersOK /\ DiskOK /\ GenerationsOK /\ CopiesOK
  BY DEF IInv, Base
<1>2. Typed
  BY <1>1, StateIsTyped
<1>3. Occupies(t, occ[t].at, occ[t].rt, "owed")
  BY <1>2, NamesApart, ExitChanges DEF Forget, Typed, Exits
<1>4. TypeOK'
  BY <1>1, <1>3 DEF Forget, TypeOK, Occupies
<1>5. KindOK'
  BY <1>1 DEF Forget, KindOK
<1>6. ProcessesOK'
  BY <1>1 DEF Forget, ProcessesOK, Follows, Up
<1>7. LeaseOK'
  BY <1>1 DEF Forget, LeaseOK, Preparing, Removing, Resuming, Up
<1>8. OwnersOK'
  BY <1>1 DEF Forget, OwnersOK
<1>9. GenerationsOK'
  BY <1>1 DEF Forget, GenerationsOK, Complete
<1>10. CopiesOK'
  BY <1>1 DEF Forget, CopiesOK, ClosedOK, CopyOK
<1>11. seen' \in Copies /\ DiskOK'
  BY <1>1 DEF Forget, DiskOK, Linked
<1>12. ASSUME Keepers PROVE Vacancy'
  <2>1. NobodyLeft /\ ResumerAlone /\ SessionsOfRow /\ OccupancyIsTrue
    BY <1>12 DEF IInv, Vacancy
  <2>2. NobodyLeft'
    BY <2>1 DEF Forget, NobodyLeft
  <2>3. SessionsOfRow'
    BY <2>1 DEF Forget, SessionsOfRow
  <2>4. ResumerAlone' /\ OccupancyIsTrue'
    BY <2>1 DEF Forget, ResumerAlone, OccupancyIsTrue, OneOccupant, OccupantIsRecorded
  <2> QED
    BY <2>2, <2>3, <2>4 DEF Vacancy
<1> QED
  BY <1>4, <1>5, <1>6, <1>7, <1>8, <1>9, <1>10, <1>11, <1>12 DEF IInv, Base, Copies, Row,
     Resume

LEMMA AbortResumeKeeps ==
    ASSUME IInv, NEW t \in Resumes, AbortResume(t)
    PROVE  IInv'
<1>1. /\ TypeOK /\ seen \in Copies /\ KindOK /\ ProcessesOK /\ LeaseOK
      /\ OwnersOK /\ DiskOK /\ GenerationsOK /\ CopiesOK
  BY DEF IInv, Base
<1>2. Typed
  BY <1>1, StateIsTyped
<1>3. op.does = "resume" /\ op.step = "none" /\ row.state \in {"bound", "preserved"} /\ row.process /\ row.resume.t = t
  BY <1>1 DEF AbortResume, LeaseOK, Resuming
<1>4. op' = NoOp /\ op' \in Operation /\ op'.does = "nothing" /\ op'.step = "none"
  BY DEF AbortResume, NoOp, Operation
<1>5. Occupies(t, "over", occ[t].rt, "done")
  BY <1>2, NamesApart, PlaceAndExitChange DEF AbortResume, Typed, Places, Exits
<1>6. Kept
  BY <1>1, WriteMakesStale DEF AbortResume, Kept
<1>7. t \notin live /\ Up(occ[t].rt) /\ kind # "chat"
  BY <1>1, NamesApart DEF AbortResume, KindOK, ProcessesOK, Follows
<1>8. /\ row' \in Row /\ row'.state = row.state /\ row'.rt = row.rt /\ row'.done = row.done
      /\ row'.dir = row.dir /\ row'.process = row.process /\ row'.sess = row.sess
      /\ row'.closed = row.closed /\ row'.resume \in {row.resume, NoResume}
  <2>1. CASE row' = [row EXCEPT !.resume = NoResume]
    BY <1>2, <2>1, ResumeCleared DEF Typed
  <2>2. CASE row' = row
    BY <1>2, <2>2 DEF Typed
  <2> QED
    BY <2>1, <2>2 DEF AbortResume, Cancelled, Write
<1>9. UNCHANGED <<kind, phase, sweeps, disk, work, live>>
  BY DEF AbortResume
<1>10. TypeOK'
  <2>1. Checked
    BY <1>1, StateIsChecked
  <2>2. Checked'
    BY <1>8, <1>9, <2>1 DEF Checked
  <2>3. /\ row' \in Row /\ op' \in Operation /\ occ' \in [Processes -> Occupancy]
        /\ kind' \in Kinds /\ phase' \in [Runtimes -> {"new", "up", "gone"}]
        /\ live' \subseteq Processes /\ seen' \in Copies
    BY <1>2, <1>4, <1>5, <1>6, <1>8, <1>9 DEF Typed, Occupies, Kept
  <2> QED
    BY <2>2, <2>3, TypesHold
<1>11. seen' \in Copies
  BY <1>6 DEF Kept
<1>12. KindOK'
  BY <1>1, NamesApart, <1>5, <1>7, <1>9 DEF KindOK, Occupies
<1>13. ProcessesOK'
  BY <1>1, NamesApart, <1>5, <1>7, <1>9 DEF ProcessesOK, Follows, Up, Occupies
<1>14. LeaseOK'
  BY <1>1, NamesApart, <1>3, <1>4, <1>5 DEF LeaseOK, Occupies
<1>15. OwnersOK'
  <2>1. CASE row'.resume = row.resume
    BY <1>1, NamesApart, <1>3, <1>5, <1>8, <1>9, <2>1 DEF OwnersOK, NoResume, Occupies
  <2>2. CASE row'.resume = NoResume
    BY <1>1, NamesApart, <1>3, <1>5, <1>8, <1>9, <2>2 DEF OwnersOK, NoResume, Occupies
  <2> QED
    BY <1>1, NamesApart, <1>2, <1>3, <1>4, <1>5, <1>6, <1>7, <1>8, <1>9, <2>1, <2>2
<1>16. DiskOK'
  BY <1>1, <1>8, <1>9 DEF DiskOK, Linked
<1>17. GenerationsOK'
  BY <1>1, <1>2, <1>5, <1>8, <1>9 DEF Typed, GenerationsOK, Complete, Occupies, NoResume
<1>18. CopiesOK'
  BY <1>1, NamesApart, <1>5, <1>6, <1>8, <1>9 DEF CopiesOK, ClosedOK, CopyOK, Occupies, Kept
<1>19. ASSUME Keepers PROVE Vacancy'
  <2>1. NobodyLeft /\ ResumerAlone /\ SessionsOfRow /\ OccupancyIsTrue
    BY <1>19 DEF IInv, Vacancy
  <2>2. NobodyLeft'
    BY <1>4 DEF NobodyLeft
  <2>3. ResumerAlone'
    BY <1>4 DEF ResumerAlone
  <2>4. SessionsOfRow'
    BY NamesApart, <1>5, <1>6, <1>8, <1>9, <2>1 DEF SessionsOfRow, Occupies, Kept
  <2>5. OccupancyIsTrue'
    BY <1>3, <1>7, <1>8, <1>9, <2>1 DEF OccupancyIsTrue, OneOccupant, OccupantIsRecorded
  <2> QED
    BY <2>2, <2>3, <2>4, <2>5 DEF Vacancy
<1> QED
  BY <1>10, <1>11, <1>12, <1>13, <1>14, <1>15, <1>16, <1>17, <1>18, <1>19 DEF IInv, Base,
     Copies, Row, Resume

LEMMA BindResumeKeeps ==
    ASSUME IInv, NEW t \in Resumes, BindResume(t)
    PROVE  IInv'
<1>1. /\ TypeOK /\ seen \in Copies /\ KindOK /\ ProcessesOK /\ LeaseOK
      /\ OwnersOK /\ DiskOK /\ GenerationsOK /\ CopiesOK
  BY DEF IInv, Base
<1>2. Typed
  BY <1>1, StateIsTyped
<1>3. op.does = "resume" /\ op.step = "none" /\ row.state \in {"bound", "preserved"} /\ row.process /\ row.resume.t = t
  BY <1>1 DEF BindResume, LeaseOK, Resuming
<1>4. op' = NoOp /\ op' \in Operation /\ op'.does = "nothing" /\ op'.step = "none"
  BY DEF BindResume, NoOp, Operation
<1>5. Occupies(t, "up", occ[t].rt, occ[t].exit)
  BY <1>2, NamesApart, PlaceChanges DEF BindResume, Typed, Places
<1>6. Stale
  BY <1>1, WriteMakesStale DEF BindResume
<1>7. /\ row' \in Row
      /\ row'.state = row.state /\ row'.rt = row.rt /\ row'.done = row.done /\ row'.dir = row.dir
      /\ row'.process = row.process /\ row'.sess = row.sess /\ row'.closed = row.closed
  BY <1>2 DEF BindResume, Typed, Write, Row, Resume
<1>8. occ[t].at = "born" /\ Up(occ[t].rt) /\ kind # "chat"
  BY <1>1, NamesApart DEF BindResume, KindOK, ProcessesOK, Follows
<1>9. row'.resume.t = t /\ row'.resume.rt = row.resume.rt /\ row'.resume.done = row.resume.done /\ row.resume # NoResume
  BY NamesApart, <1>7 DEF BindResume, Write, Row, Resume, NoResume
<1>10. UNCHANGED <<kind, phase, sweeps, disk, work, live>>
  BY DEF BindResume, Write
<1>11. TypeOK'
  <2>1. Checked
    BY <1>1, StateIsChecked
  <2>2. Checked'
    BY <1>7, <1>9, <1>10, <2>1 DEF Checked
  <2>3. /\ row' \in Row /\ op' \in Operation /\ occ' \in [Processes -> Occupancy]
        /\ kind' \in Kinds /\ phase' \in [Runtimes -> {"new", "up", "gone"}]
        /\ live' \subseteq Processes /\ seen' \in Copies
    BY <1>2, <1>4, <1>5, <1>6, <1>7, <1>10 DEF Typed, Occupies, Stale
  <2> QED
    BY <2>2, <2>3, TypesHold
<1>12. seen' \in Copies
  BY <1>6 DEF Stale
<1>13. KindOK'
  BY <1>1, NamesApart, <1>5, <1>9, <1>10 DEF KindOK, Occupies
<1>14. ProcessesOK'
  BY <1>1, <1>5, <1>8, <1>10 DEF ProcessesOK, Follows, Up, Occupies
<1>15. LeaseOK'
  BY <1>1, NamesApart, <1>4, <1>5, <1>8 DEF LeaseOK, Occupies
<1>16. OwnersOK'
  BY <1>1, NamesApart, <1>3, <1>5, <1>7, <1>9, <1>10 DEF OwnersOK, Occupies
<1>17. DiskOK'
  BY <1>1, <1>7, <1>10 DEF DiskOK, Linked
<1>18. GenerationsOK'
  BY <1>1, <1>2, <1>5, <1>7, <1>9, <1>10 DEF Typed, GenerationsOK, Complete, Occupies
<1>19. CopiesOK'
  BY <1>1, NamesApart, <1>5, <1>6, <1>7, <1>10 DEF CopiesOK, ClosedOK, CopyOK, Occupies,
     Stale
<1>20. ASSUME Keepers PROVE Vacancy'
  <2>1. NobodyLeft /\ ResumerAlone /\ SessionsOfRow /\ OccupancyIsTrue
    BY <1>20 DEF IInv, Vacancy
  <2>2. NobodyLeft'
    BY <1>4 DEF NobodyLeft
  <2>3. ResumerAlone'
    BY <1>4 DEF ResumerAlone
  <2>4. SessionsOfRow'
    BY NamesApart, <1>5, <1>6, <1>7, <1>10, <1>20, <2>1 DEF SessionsOfRow, Occupies, Stale
  <2>5. OccupancyIsTrue'
    BY <1>3, <1>7, <1>9, <1>10, <2>1 DEF OccupancyIsTrue, OneOccupant, OccupantIsRecorded
  <2> QED
    BY <2>2, <2>3, <2>4, <2>5 DEF Vacancy
<1> QED
  BY <1>11, <1>12, <1>13, <1>14, <1>15, <1>16, <1>17, <1>18, <1>19, <1>20 DEF IInv, Base,
     Copies, Row, Resume

LEMMA BindResumeFailsKeeps ==
    ASSUME IInv, NEW t \in Resumes, BindResumeFails(t)
    PROVE  IInv'
<1>1. /\ TypeOK /\ seen \in Copies /\ KindOK /\ ProcessesOK /\ LeaseOK
      /\ OwnersOK /\ DiskOK /\ GenerationsOK /\ CopiesOK
  BY DEF IInv, Base
<1>2. Typed
  BY <1>1, StateIsTyped
<1>3. op.does = "resume" /\ op.step = "none" /\ row.state \in {"bound", "preserved"} /\ row.process /\ row.resume.t = t
  BY <1>1 DEF BindResumeFails, LeaseOK, Resuming
<1>4. op' = NoOp /\ op' \in Operation /\ op'.does = "nothing" /\ op'.step = "none"
  BY DEF BindResumeFails, NoOp, Operation
<1>5. Occupies(t, "up", occ[t].rt, occ[t].exit)
  BY <1>2, NamesApart, PlaceChanges DEF BindResumeFails, Typed, Places
<1>6. TypeOK'
  BY <1>1, <1>4, <1>5 DEF BindResumeFails, TypeOK, Operation, Occupies
<1>7. KindOK'
  BY <1>1 DEF BindResumeFails, KindOK
<1>8. ProcessesOK'
  BY <1>1 DEF BindResumeFails, ProcessesOK, Follows, Up
<1>9. LeaseOK'
  BY <1>1, <1>5 DEF BindResumeFails, LeaseOK, NoOp, Occupies
<1>10. OwnersOK'
  BY <1>1 DEF BindResumeFails, OwnersOK
<1>11. GenerationsOK'
  BY <1>1 DEF BindResumeFails, GenerationsOK, Complete
<1>12. CopiesOK'
  BY <1>1 DEF BindResumeFails, CopiesOK, ClosedOK, CopyOK
<1>13. seen' \in Copies /\ DiskOK'
  BY <1>1 DEF BindResumeFails, DiskOK, Linked
<1>14. ASSUME Keepers PROVE Vacancy'
  <2>1. NobodyLeft /\ ResumerAlone /\ SessionsOfRow /\ OccupancyIsTrue
    BY <1>14 DEF IInv, Vacancy
  <2>2. NobodyLeft'
    BY <1>4 DEF NobodyLeft
  <2>3. ResumerAlone'
    BY <2>1 DEF BindResumeFails, ResumerAlone
  <2>4. SessionsOfRow'
    BY <2>1 DEF BindResumeFails, SessionsOfRow
  <2>5. OccupancyIsTrue'
    BY <2>1 DEF BindResumeFails, OccupancyIsTrue, OneOccupant, OccupantIsRecorded
  <2> QED
    BY <2>2, <2>3, <2>4, <2>5 DEF Vacancy
<1> QED
  BY <1>6, <1>7, <1>8, <1>9, <1>10, <1>11, <1>12, <1>13, <1>14 DEF IInv, Base, Copies,
     Row, Resume

LEMMA ReleaseResumeKeeps ==
    ASSUME IInv, NEW t \in Resumes, ReleaseResume(t)
    PROVE  IInv'
<1>1. /\ TypeOK /\ seen \in Copies /\ KindOK /\ ProcessesOK /\ LeaseOK
      /\ OwnersOK /\ DiskOK /\ GenerationsOK /\ CopiesOK
  BY DEF IInv, Base
<1>2. Typed
  BY <1>1, StateIsTyped
<1>3. Occupies(t, occ[t].at, occ[t].rt, "done")
  BY <1>2, NamesApart, ExitChanges DEF ReleaseResume, Typed, Exits
<1>4. /\ occ[t].exit = "owed" /\ t \notin live /\ Up(occ[t].rt)
      /\ occ[t].at \in {"up", "over", "born"}
  BY <1>1, NamesApart DEF ReleaseResume, ProcessesOK, Follows, Up
<1>5. Kept
  BY <1>1, WriteMakesStale DEF ReleaseResume, Kept
<1>6. kind # "chat"
  BY <1>1, NamesApart, <1>4 DEF KindOK, Up
<1>7. /\ op' \in Operation
      /\ \/ op' = op
         \/ /\ op'.does = "remove" /\ op'.rt = occ[t].rt /\ op'.step = "checked"
            /\ op' # NoOp /\ op.does = "nothing"
            /\ row.state \notin {"absent", "released"} /\ row.resume.t = t
            /\ ~ (row.process /\ Worker \in live)
  BY <1>2, <1>4, RemoveBegins, ResumeCleared DEF ReleaseResume, Typed, MayRemove, Up
<1>8. /\ row' \in Row /\ row'.state = row.state /\ row'.rt = row.rt /\ row'.done = row.done
      /\ row'.dir = row.dir /\ row'.process = row.process /\ row'.sess = row.sess
      /\ row'.closed = row.closed
      /\ \/ row'.resume = row.resume
         \/ row'.resume = NoResume /\ op.does = "nothing" /\ row.resume.t = t
  BY <1>2, ResumeCleared DEF ReleaseResume, Typed, Write, NoOp
<1>9. row.state = "absent" => row' = NoRow
  BY <1>1 DEF ReleaseResume, OwnersOK, Write, NoRow
<1>10. row.resume.t = t => row.process /\ occ[Worker].at \in {"up", "over"}
  BY <1>1, NamesApart DEF OwnersOK, NoResume
<1>11. \A s \in Sessions : s \notin live
  BY <1>1, <1>2, <1>6, KindsKnown DEF KindOK, ProcessesOK, Follows, Typed
<1>12. UNCHANGED <<kind, phase, sweeps, disk, work, live>>
  BY DEF ReleaseResume, Write
<1>13. TypeOK'
  <2>1. Checked
    BY <1>1, StateIsChecked
  <2>2. Checked'
    BY <1>8, <1>12, <2>1 DEF Checked
  <2>3. /\ row' \in Row /\ op' \in Operation /\ occ' \in [Processes -> Occupancy]
        /\ kind' \in Kinds /\ phase' \in [Runtimes -> {"new", "up", "gone"}]
        /\ live' \subseteq Processes /\ seen' \in Copies
    BY <1>2, <1>3, <1>5, <1>7, <1>8, <1>12 DEF Typed, Occupies, Kept
  <2> QED
    BY <2>2, <2>3, TypesHold
<1>14. seen' \in Copies
  BY <1>5 DEF Kept
<1>15. KindOK'
  BY <1>1, NamesApart, <1>3, <1>8, <1>12 DEF KindOK, Occupies
<1>16. ProcessesOK'
  BY <1>1, <1>3, <1>4, <1>12 DEF ProcessesOK, Follows, Up, Occupies
<1>17. LeaseOK'
  BY <1>1, NamesApart, <1>3, <1>4, <1>7, <1>8, <1>10, <1>11, <1>12 DEF LeaseOK, Preparing,
     Removing, Resuming, Up, Occupies
<1>18. OwnersOK'
  <2>1. CASE row'.resume = row.resume
    BY <1>1, NamesApart, <1>3, <1>8, <1>9, <1>12 DEF OwnersOK, Occupies
  <2>2. CASE row'.resume = NoResume
    BY <1>1, NamesApart, <1>3, <1>8, <1>9, <1>12 DEF OwnersOK, Occupies
  <2> QED
    BY <1>1, NamesApart, <1>2, <1>3, <1>4, <1>5, <1>6, <1>7, <1>8, <1>9, <1>10, <1>11,
       <1>12, <2>1, <2>2
<1>19. DiskOK'
  BY <1>1, <1>8, <1>12 DEF DiskOK, Linked
<1>20. GenerationsOK'
  BY <1>1, <1>2, <1>3, <1>8, <1>12 DEF Typed, GenerationsOK, Complete, Occupies, NoResume
<1>21. CopiesOK'
  BY <1>1, NamesApart, <1>3, <1>5, <1>8, <1>12 DEF CopiesOK, ClosedOK, CopyOK, Occupies,
     Kept
<1>22. ASSUME Keepers PROVE Vacancy'
  <2>1. NobodyLeft /\ ResumerAlone /\ SessionsOfRow /\ OccupancyIsTrue
    BY <1>22 DEF IInv, Vacancy
  <2>2. NobodyLeft'
    BY NamesApart, <1>2, <1>4, <1>6, <1>7, <1>10, <1>11, <1>12, <2>1 DEF Typed,
       NobodyLeft, OccupancyIsTrue, OccupantIsRecorded
  <2>3. ResumerAlone'
    BY <1>7, <1>8, <1>12, <2>1 DEF ResumerAlone
  <2>4. SessionsOfRow'
    BY NamesApart, <1>3, <1>5, <1>8, <1>12, <2>1 DEF SessionsOfRow, Occupies, Kept
  <2>5. OccupancyIsTrue'
    BY <1>4, <1>8, <1>12, <2>1 DEF OccupancyIsTrue, OneOccupant, OccupantIsRecorded
  <2> QED
    BY <2>2, <2>3, <2>4, <2>5 DEF Vacancy
<1> QED
  BY <1>13, <1>14, <1>15, <1>16, <1>17, <1>18, <1>19, <1>20, <1>21, <1>22 DEF IInv, Base,
     Copies, Row, Resume

LEMMA ReopenReadsKeeps ==
    ASSUME IInv, NEW s \in Sessions, ReopenReads(s)
    PROVE  IInv'
<1>1. /\ TypeOK /\ seen \in Copies /\ KindOK /\ ProcessesOK /\ LeaseOK
      /\ OwnersOK /\ DiskOK /\ GenerationsOK /\ CopiesOK
  BY DEF IInv, Base
<1>2. Typed
  BY <1>1, StateIsTyped
<1>3. Occupies(s, "read", occ[s].rt, occ[s].exit)
  BY <1>2, NamesApart, PlaceChanges DEF ReopenReads, At, Typed, Places
<1>4. /\ occ[s].at = "opening" /\ s \notin live /\ Up(occ[s].rt)
  BY <1>1, NamesApart DEF ReopenReads, At, ProcessesOK, Follows
<1>5. /\ seen' \in Copies /\ seen'[s].row = row /\ seen'[s].fresh
      /\ \A q \in Sessions : q # s => seen'[q] = seen[q]
  BY <1>1, <1>2 DEF ReopenReads, Typed, Copies
<1>6. UNCHANGED <<kind, phase, sweeps, row, disk, work, op, live>>
  BY DEF ReopenReads
<1>7. TypeOK'
  <2>1. Checked
    BY <1>1, StateIsChecked
  <2>2. Checked'
    BY <1>6, <2>1 DEF Checked
  <2>3. /\ row' \in Row /\ op' \in Operation /\ occ' \in [Processes -> Occupancy]
        /\ kind' \in Kinds /\ phase' \in [Runtimes -> {"new", "up", "gone"}]
        /\ live' \subseteq Processes /\ seen' \in Copies
    BY <1>2, <1>3, <1>5, <1>6 DEF Typed, Occupies
  <2> QED
    BY <2>2, <2>3, TypesHold
<1>8. seen' \in Copies
  BY <1>5
<1>9. KindOK'
  BY <1>1, NamesApart, <1>3, <1>6 DEF KindOK, Occupies
<1>10. ProcessesOK'
  BY <1>1, <1>3, <1>4, <1>6 DEF ProcessesOK, Follows, Up, Occupies
<1>11. LeaseOK'
  BY <1>1, NamesApart, <1>3, <1>6 DEF LeaseOK, Preparing, Removing, Resuming, Up, Occupies
<1>12. OwnersOK'
  BY <1>1, NamesApart, <1>3, <1>6 DEF OwnersOK, Occupies
<1>13. GenerationsOK'
  BY <1>1, <1>2, <1>3, <1>6 DEF Typed, GenerationsOK, Complete, Occupies
<1>14. CopiesOK'
  BY <1>1, NamesApart, <1>3, <1>5, <1>6 DEF CopiesOK, ClosedOK, CopyOK, Occupies
<1>15. DiskOK'
  BY <1>1 DEF ReopenReads, DiskOK, Linked
<1>16. ASSUME Keepers PROVE Vacancy'
  <2>1. NobodyLeft /\ ResumerAlone /\ SessionsOfRow /\ OccupancyIsTrue
    BY <1>16 DEF IInv, Vacancy
  <2>2. NobodyLeft'
    BY NamesApart, <1>3, <1>4, <1>6, <2>1 DEF NobodyLeft, Occupies
  <2>3. SessionsOfRow'
    BY NamesApart, <1>3, <1>5, <1>6, <2>1 DEF SessionsOfRow, Occupies
  <2>4. ResumerAlone' /\ OccupancyIsTrue'
    BY <2>1 DEF ReopenReads, ResumerAlone, OccupancyIsTrue, OneOccupant, OccupantIsRecorded
  <2> QED
    BY <2>2, <2>3, <2>4 DEF Vacancy
<1> QED
  BY <1>7, <1>8, <1>9, <1>10, <1>11, <1>12, <1>13, <1>14, <1>15, <1>16 DEF IInv, Base,
     Copies, Row, Resume

LEMMA ReopenedKeeps ==
    ASSUME IInv, NEW s \in Sessions, Reopened(s)
    PROVE  IInv'
<1>1. /\ TypeOK /\ seen \in Copies /\ KindOK /\ ProcessesOK /\ LeaseOK
      /\ OwnersOK /\ DiskOK /\ GenerationsOK /\ CopiesOK
  BY DEF IInv, Base
<1>2. Typed
  BY <1>1, StateIsTyped
<1>3. Occupies(s, "cleared", occ[s].rt, occ[s].exit)
  BY <1>2, NamesApart, PlaceChanges DEF Reopened, At, Typed, Places
<1>4. /\ occ[s].at = "read" /\ s \notin live /\ Up(occ[s].rt) /\ op = NoOp
      /\ (Keepers => seen[s].row.rt = occ[s].rt)
  BY <1>1, NamesApart DEF Reopened, At, MayReopen, ProcessesOK, Follows
<1>5. Kept
  BY <1>1, WriteMakesStale DEF Reopened, Kept
<1>6. /\ row' \in Row /\ row'.state = row.state /\ row'.rt = row.rt /\ row'.done = row.done
      /\ row'.dir = row.dir /\ row'.process = row.process /\ row'.sess = row.sess
      /\ row'.resume = row.resume /\ (row'.closed => row.closed)
      /\ (seen[s].row.closed => ~ row'.closed)
  <2>1. CASE row' = [row EXCEPT !.closed = FALSE]
    <3>1. PICK x : x = row /\ x \in Row
      BY <1>2 DEF Typed
    <3>2. PICK k : k = [x EXCEPT !.closed = FALSE]
      OBVIOUS
    <3>3. /\ k \in Row /\ k.state = x.state /\ k.rt = x.rt /\ k.done = x.done
          /\ k.dir = x.dir /\ k.process = x.process /\ k.sess = x.sess
          /\ k.resume = x.resume /\ k.closed = FALSE
      BY <3>1, <3>2 DEF Row
    <3> QED
      BY ONLY <2>1, <3>1, <3>2, <3>3
  <2>2. CASE row' = row /\ ~ seen[s].row.closed
    BY <1>2, <2>2 DEF Typed
  <2> QED
    BY <2>1, <2>2 DEF Reopened, Write
<1>7. row.state = "absent" => row' = NoRow
  BY <1>1 DEF Reopened, OwnersOK, Write, NoRow
<1>8. UNCHANGED <<kind, phase, sweeps, disk, work, op, live>>
  BY DEF Reopened
<1>9. TypeOK'
  <2>1. Checked
    BY <1>1, StateIsChecked
  <2>2. Checked'
    BY <1>6, <1>8, <2>1 DEF Checked
  <2>3. /\ row' \in Row /\ op' \in Operation /\ occ' \in [Processes -> Occupancy]
        /\ kind' \in Kinds /\ phase' \in [Runtimes -> {"new", "up", "gone"}]
        /\ live' \subseteq Processes /\ seen' \in Copies
    BY <1>2, <1>3, <1>5, <1>6, <1>8 DEF Typed, Occupies, Kept
  <2> QED
    BY <2>2, <2>3, TypesHold
<1>10. seen' \in Copies
  BY <1>5 DEF Kept
<1>11. KindOK'
  BY <1>1, NamesApart, <1>3, <1>6, <1>8 DEF KindOK, Occupies
<1>12. ProcessesOK'
  BY <1>1, <1>3, <1>4, <1>8 DEF ProcessesOK, Follows, Up, Occupies
<1>13. LeaseOK'
  BY <1>1, NamesApart, <1>3, <1>6, <1>8 DEF LeaseOK, Preparing, Removing, Resuming, Up,
     Occupies
<1>14. OwnersOK'
  BY <1>1, NamesApart, <1>3, <1>6, <1>7, <1>8 DEF OwnersOK, Occupies
<1>15. DiskOK'
  BY <1>1, <1>6, <1>8 DEF DiskOK, Linked
<1>16. GenerationsOK'
  BY <1>1, <1>2, <1>3, <1>6, <1>8 DEF Typed, GenerationsOK, Complete, Occupies
<1>17. CopiesOK'
  BY <1>1, NamesApart, <1>3, <1>4, <1>5, <1>6, <1>8 DEF CopiesOK, ClosedOK, CopyOK,
     Occupies, Kept
<1>18. ASSUME Keepers PROVE Vacancy'
  <2>1. NobodyLeft /\ ResumerAlone /\ SessionsOfRow /\ OccupancyIsTrue
    BY <1>18 DEF IInv, Vacancy
  <2>2. NobodyLeft'
    BY NamesApart, <1>3, <1>4, <1>6, <1>8, <2>1 DEF NobodyLeft, Occupies
  <2>3. ResumerAlone'
    BY <1>6, <1>8, <2>1 DEF ResumerAlone
  <2>4. SessionsOfRow'
    BY NamesApart, <1>3, <1>4, <1>5, <1>6, <1>8, <1>18, <2>1 DEF SessionsOfRow, Occupies,
       Kept
  <2>5. OccupancyIsTrue'
    BY <1>6, <1>8, <2>1 DEF OccupancyIsTrue, OneOccupant, OccupantIsRecorded
  <2> QED
    BY <2>2, <2>3, <2>4, <2>5 DEF Vacancy
<1> QED
  BY <1>9, <1>10, <1>11, <1>12, <1>13, <1>14, <1>15, <1>16, <1>17, <1>18 DEF IInv, Base,
     Copies, Row, Resume

LEMMA SessionBornKeeps ==
    ASSUME IInv, NEW s \in Sessions, SessionBorn(s)
    PROVE  IInv'
<1>1. /\ TypeOK /\ seen \in Copies /\ KindOK /\ ProcessesOK /\ LeaseOK
      /\ OwnersOK /\ DiskOK /\ GenerationsOK /\ CopiesOK
  BY DEF IInv, Base
<1>2. Typed
  BY <1>1, StateIsTyped
<1>3. Occupies(s, "running", occ[s].rt, occ[s].exit)
  BY <1>2, NamesApart, PlaceChanges DEF SessionBorn, At, Typed, Places
<1>4. /\ occ[s].at = "cleared" /\ s \notin live /\ Up(occ[s].rt) /\ occ[s].exit = "no"
      /\ live' = live \cup {s}
  BY <1>1, NamesApart DEF SessionBorn, At, ProcessesOK, Follows
<1>5. kind = "chat"
  BY <1>1, NamesApart, <1>2, <1>4, KindsKnown DEF KindOK, Up, Typed
<1>6. UNCHANGED <<kind, phase, sweeps, row, disk, work, op, seen>>
  BY DEF SessionBorn
<1>7. TypeOK'
  <2>1. Checked
    BY <1>1, StateIsChecked
  <2>2. Checked'
    BY <1>6, <2>1 DEF Checked
  <2>3. /\ row' \in Row /\ op' \in Operation /\ occ' \in [Processes -> Occupancy]
        /\ kind' \in Kinds /\ phase' \in [Runtimes -> {"new", "up", "gone"}]
        /\ live' \subseteq Processes /\ seen' \in Copies
    BY <1>1, <1>2, <1>3, <1>4, <1>6 DEF Typed, Occupies
  <2> QED
    BY <2>2, <2>3, TypesHold
<1>8. KindOK'
  BY <1>1, NamesApart, <1>3, <1>6 DEF KindOK, Occupies
<1>9. ProcessesOK'
  BY <1>1, <1>3, <1>4, <1>6 DEF ProcessesOK, Follows, Up, Occupies
<1>10. LeaseOK'
  BY <1>1, NamesApart, <1>3, <1>6 DEF LeaseOK, Preparing, Removing, Resuming, Up, Occupies
<1>11. OwnersOK'
  BY <1>1, NamesApart, <1>3, <1>6 DEF OwnersOK, Occupies
<1>12. GenerationsOK'
  BY <1>1, <1>2, <1>3, <1>4, <1>6 DEF Typed, GenerationsOK, Complete, Occupies, Up
<1>13. CopiesOK'
  BY <1>1, NamesApart, <1>3, <1>4, <1>6 DEF CopiesOK, ClosedOK, CopyOK, Occupies
<1>14. seen' \in Copies /\ DiskOK'
  BY <1>1 DEF SessionBorn, DiskOK, Linked
<1>15. ASSUME Keepers PROVE Vacancy'
  <2>1. NobodyLeft /\ ResumerAlone /\ SessionsOfRow /\ OccupancyIsTrue
    BY <1>15 DEF IInv, Vacancy
  <2>2. NobodyLeft'
    BY <1>4, <1>5, <1>6, <2>1 DEF NobodyLeft, SessionsOfRow
  <2>3. ResumerAlone'
    BY <1>1, <1>5, <1>6 DEF ResumerAlone, KindOK, LeaseOK, Resuming
  <2>4. SessionsOfRow'
    BY NamesApart, <1>3, <1>4, <1>6, <2>1 DEF SessionsOfRow, Occupies
  <2>5. OccupancyIsTrue'
    BY NamesApart, <1>4, <1>6, <2>1 DEF OccupancyIsTrue, OneOccupant, OccupantIsRecorded
  <2> QED
    BY <2>2, <2>3, <2>4, <2>5 DEF Vacancy
<1> QED
  BY <1>7, <1>8, <1>9, <1>10, <1>11, <1>12, <1>13, <1>14, <1>15 DEF IInv, Base, Copies,
     Row, Resume

LEMMA OpenFailsKeeps ==
    ASSUME IInv, NEW s \in Sessions, OpenFails(s)
    PROVE  IInv'
<1>1. /\ TypeOK /\ seen \in Copies /\ KindOK /\ ProcessesOK /\ LeaseOK
      /\ OwnersOK /\ DiskOK /\ GenerationsOK /\ CopiesOK
  BY DEF IInv, Base
<1>2. Typed
  BY <1>1, StateIsTyped
<1>3. Occupies(s, "none", occ[s].rt, occ[s].exit)
  BY <1>2, NamesApart, PlaceChanges DEF OpenFails, Typed, Places
<1>4. TypeOK'
  BY <1>1, <1>3 DEF OpenFails, TypeOK, Occupies
<1>5. KindOK'
  BY <1>1 DEF OpenFails, KindOK
<1>6. ProcessesOK'
  BY <1>1 DEF OpenFails, ProcessesOK, Follows, Up
<1>7. LeaseOK'
  BY <1>1 DEF OpenFails, LeaseOK, Preparing, Removing, Resuming, Up
<1>8. OwnersOK'
  BY <1>1, NamesApart DEF OpenFails, OwnersOK
<1>9. GenerationsOK'
  BY <1>1 DEF OpenFails, GenerationsOK, Complete
<1>10. CopiesOK'
  BY <1>1 DEF OpenFails, CopiesOK, ClosedOK, CopyOK
<1>11. seen' \in Copies /\ DiskOK'
  BY <1>1 DEF OpenFails, DiskOK, Linked
<1>12. ASSUME Keepers PROVE Vacancy'
  <2>1. NobodyLeft /\ ResumerAlone /\ SessionsOfRow /\ OccupancyIsTrue
    BY <1>12 DEF IInv, Vacancy
  <2>2. NobodyLeft'
    BY <2>1 DEF OpenFails, NobodyLeft
  <2>3. SessionsOfRow'
    BY <2>1 DEF OpenFails, SessionsOfRow
  <2>4. ResumerAlone' /\ OccupancyIsTrue'
    BY <2>1 DEF OpenFails, ResumerAlone, OccupancyIsTrue, OneOccupant, OccupantIsRecorded
  <2> QED
    BY <2>2, <2>3, <2>4 DEF Vacancy
<1> QED
  BY <1>4, <1>5, <1>6, <1>7, <1>8, <1>9, <1>10, <1>11, <1>12 DEF IInv, Base, Copies, Row,
     Resume

LEMMA CloseSessionKeeps ==
    ASSUME IInv, NEW s \in Sessions, CloseSession(s)
    PROVE  IInv'
<1>1. /\ TypeOK /\ seen \in Copies /\ KindOK /\ ProcessesOK /\ LeaseOK
      /\ OwnersOK /\ DiskOK /\ GenerationsOK /\ CopiesOK
  BY DEF IInv, Base
<1>2. Typed
  BY <1>1, StateIsTyped
<1>3. Occupies(s, "closing", occ[s].rt, occ[s].exit)
  BY <1>2, NamesApart, PlaceChanges DEF CloseSession, At, Typed, Places
<1>4. TypeOK'
  BY <1>1, <1>3 DEF CloseSession, TypeOK, Occupancy, Occupies
<1>5. KindOK'
  BY <1>1 DEF CloseSession, At, KindOK
<1>6. ProcessesOK'
  BY <1>1 DEF CloseSession, At, ProcessesOK, Follows, Up
<1>7. LeaseOK'
  BY <1>1 DEF CloseSession, At, LeaseOK, Preparing, Removing, Resuming, Up
<1>8. OwnersOK'
  BY <1>1 DEF CloseSession, At, OwnersOK
<1>9. GenerationsOK'
  BY <1>1 DEF CloseSession, At, GenerationsOK, Complete
<1>10. CopiesOK'
  BY <1>1 DEF CloseSession, At, CopiesOK, ClosedOK, CopyOK
<1>11. seen' \in Copies /\ DiskOK'
  BY <1>1 DEF CloseSession, DiskOK, Linked
<1>12. ASSUME Keepers PROVE Vacancy'
  <2>1. NobodyLeft /\ ResumerAlone /\ SessionsOfRow /\ OccupancyIsTrue
    BY <1>12 DEF IInv, Vacancy
  <2>2. NobodyLeft'
    BY <2>1 DEF CloseSession, At, NobodyLeft
  <2>3. SessionsOfRow'
    BY <2>1 DEF CloseSession, At, SessionsOfRow
  <2>4. ResumerAlone' /\ OccupancyIsTrue'
    BY <2>1 DEF CloseSession, ResumerAlone, OccupancyIsTrue, OneOccupant, OccupantIsRecorded
  <2> QED
    BY <2>2, <2>3, <2>4 DEF Vacancy
<1> QED
  BY <1>4, <1>5, <1>6, <1>7, <1>8, <1>9, <1>10, <1>11, <1>12 DEF IInv, Base, Copies, Row,
     Resume

LEMMA StoppedKeeps ==
    ASSUME IInv, NEW s \in Sessions, Stopped(s)
    PROVE  IInv'
<1>1. /\ TypeOK /\ seen \in Copies /\ KindOK /\ ProcessesOK /\ LeaseOK
      /\ OwnersOK /\ DiskOK /\ GenerationsOK /\ CopiesOK
  BY DEF IInv, Base
<1>2. Typed
  BY <1>1, StateIsTyped
<1>3. /\ occ[s].at = "closing" /\ Up(occ[s].rt) /\ live' = live \ {s}
  BY <1>1, NamesApart DEF Stopped, At, ProcessesOK, Follows
<1>4. Occupies(s, "ended", occ[s].rt, occ[s].exit) \/ Occupies(s, "over", occ[s].rt, occ[s].exit)
  BY <1>2, NamesApart, PlaceChanges DEF Stopped, At, Typed, Places
<1>5. UNCHANGED <<kind, phase, sweeps, row, disk, work, op, seen>>
  BY DEF Stopped
<1>6. TypeOK'
  <2>1. Checked
    BY <1>1, StateIsChecked
  <2>2. Checked'
    BY <1>5, <2>1 DEF Checked
  <2>3. /\ row' \in Row /\ op' \in Operation /\ occ' \in [Processes -> Occupancy]
        /\ kind' \in Kinds /\ phase' \in [Runtimes -> {"new", "up", "gone"}]
        /\ live' \subseteq Processes /\ seen' \in Copies
    BY <1>1, <1>2, <1>3, <1>4, <1>5 DEF Typed, Occupies
  <2> QED
    BY <2>2, <2>3, TypesHold
<1>7. KindOK'
  BY <1>1, NamesApart, <1>4, <1>5 DEF KindOK, Occupies
<1>8. ProcessesOK'
  BY <1>1, <1>3, <1>4, <1>5 DEF ProcessesOK, Follows, Up, Occupies
<1>9. LeaseOK'
  BY <1>1, NamesApart, <1>4, <1>5 DEF LeaseOK, Preparing, Removing, Resuming, Up, Occupies
<1>10. OwnersOK'
  BY <1>1, NamesApart, <1>4, <1>5 DEF OwnersOK, Occupies
<1>11. GenerationsOK'
  BY <1>1, <1>2, <1>3, <1>4, <1>5 DEF Typed, GenerationsOK, Complete, Occupies
<1>12. CopiesOK'
  BY <1>1, NamesApart, <1>3, <1>4, <1>5 DEF CopiesOK, ClosedOK, CopyOK, Occupies
<1>13. seen' \in Copies /\ DiskOK'
  BY <1>1 DEF Stopped, DiskOK, Linked
<1>14. ASSUME Keepers PROVE Vacancy'
  <2>1. NobodyLeft /\ ResumerAlone /\ SessionsOfRow /\ OccupancyIsTrue
    BY <1>14 DEF IInv, Vacancy
  <2>2. NobodyLeft'
    BY NamesApart, <1>3, <1>4, <1>5, <2>1 DEF NobodyLeft, Occupies
  <2>3. ResumerAlone'
    BY <1>3, <1>5, <2>1 DEF ResumerAlone
  <2>4. SessionsOfRow'
    BY NamesApart, <1>3, <1>4, <1>5, <2>1 DEF SessionsOfRow, Occupies
  <2>5. OccupancyIsTrue'
    BY <1>3, <1>5, <2>1 DEF OccupancyIsTrue, OneOccupant, OccupantIsRecorded
  <2> QED
    BY <2>2, <2>3, <2>4, <2>5 DEF Vacancy
<1> QED
  BY <1>6, <1>7, <1>8, <1>9, <1>10, <1>11, <1>12, <1>13, <1>14 DEF IInv, Base, Copies,
     Row, Resume

LEMMA CompleteReadsKeeps ==
    ASSUME IInv, NEW s \in Sessions, CompleteReads(s)
    PROVE  IInv'
<1>1. /\ TypeOK /\ seen \in Copies /\ KindOK /\ ProcessesOK /\ LeaseOK
      /\ OwnersOK /\ DiskOK /\ GenerationsOK /\ CopiesOK
  BY DEF IInv, Base
<1>2. Typed
  BY <1>1, StateIsTyped
<1>3. /\ occ[s].at = "ended" /\ Up(occ[s].rt) /\ s \notin live
  BY <1>1, NamesApart DEF CompleteReads, At, ProcessesOK, Follows
<1>4. \/ Occupies(s, "completing", occ[s].rt, occ[s].exit) /\ row.sess = s /\ Keepers /\ seen'[s].row = row
      \/ Occupies(s, "over", occ[s].rt, occ[s].exit) /\ seen' = seen
  <2>1. CASE row.sess = s /\ row.rt = occ[s].rt /\ Keepers
    <3>1. occ' = [occ EXCEPT ![s].at = "completing"] /\ seen' = [seen EXCEPT ![s] = [row |-> row, fresh |-> TRUE]]
      BY <2>1 DEF CompleteReads, At
    <3>2. Occupies(s, "completing", occ[s].rt, occ[s].exit)
      BY <1>2, <3>1, NamesApart, PlaceChanges DEF Typed, Places
    <3> QED
      BY <1>1, <2>1, <3>1, <3>2 DEF Copies
  <2>2. CASE ~ (row.sess = s /\ row.rt = occ[s].rt /\ Keepers)
    <3>1. occ' = [occ EXCEPT ![s].at = "over"] /\ seen' = seen
      BY <2>2 DEF CompleteReads, At
    <3>2. Occupies(s, "over", occ[s].rt, occ[s].exit)
      BY <1>2, <3>1, NamesApart, PlaceChanges DEF Typed, Places
    <3> QED
      BY <3>1, <3>2
  <2> QED
    BY <2>1, <2>2
<1>5. /\ seen' \in Copies /\ (seen'[s].row = row \/ seen'[s] = seen[s])
      /\ \A q \in Sessions : q # s => seen'[q] = seen[q]
  <2> DEFINE c == [row |-> row, fresh |-> TRUE]
  <2>1. c \in [row : Row, fresh : BOOLEAN] /\ c.row = row
    BY <1>2 DEF Typed
  <2>2. seen' = seen \/ seen' = [seen EXCEPT ![s] = c]
    BY DEF CompleteReads
  <2> HIDE DEF c
  <2> QED
    BY <1>1, <2>1, <2>2 DEF Copies
<1>6. UNCHANGED <<kind, phase, sweeps, row, disk, work, op, live>>
  BY DEF CompleteReads
<1>7. TypeOK'
  <2>1. Checked
    BY <1>1, StateIsChecked
  <2>2. Checked'
    BY <1>6, <2>1 DEF Checked
  <2>3. /\ row' \in Row /\ op' \in Operation /\ occ' \in [Processes -> Occupancy]
        /\ kind' \in Kinds /\ phase' \in [Runtimes -> {"new", "up", "gone"}]
        /\ live' \subseteq Processes /\ seen' \in Copies
    BY <1>2, <1>4, <1>5, <1>6 DEF Typed, Occupies
  <2> QED
    BY <2>2, <2>3, TypesHold
<1>8. seen' \in Copies
  BY <1>5
<1>9. KindOK'
  BY <1>1, NamesApart, <1>4, <1>6 DEF KindOK, Occupies
<1>10. ProcessesOK'
  BY <1>1, <1>3, <1>4, <1>6 DEF ProcessesOK, Follows, Up, Occupies
<1>11. LeaseOK'
  BY <1>1, NamesApart, <1>4, <1>6 DEF LeaseOK, Preparing, Removing, Resuming, Up, Occupies
<1>12. OwnersOK'
  BY <1>1, NamesApart, <1>4, <1>6 DEF OwnersOK, Occupies
<1>13. GenerationsOK'
  BY <1>1, <1>2, <1>4, <1>6 DEF Typed, GenerationsOK, Complete, Occupies
<1>14. CopiesOK'
  BY <1>1, NamesApart, <1>4, <1>5, <1>6 DEF CopiesOK, ClosedOK, CopyOK, Occupies
<1>15. DiskOK'
  BY <1>1 DEF CompleteReads, DiskOK, Linked
<1>16. ASSUME Keepers PROVE Vacancy'
  <2>1. NobodyLeft /\ ResumerAlone /\ SessionsOfRow /\ OccupancyIsTrue
    BY <1>16 DEF IInv, Vacancy
  <2>2. NobodyLeft'
    BY NamesApart, <1>3, <1>4, <1>6, <2>1 DEF NobodyLeft, Occupies
  <2>3. SessionsOfRow'
    BY NamesApart, <1>3, <1>4, <1>5, <1>6, <2>1 DEF SessionsOfRow, Occupies
  <2>4. ResumerAlone' /\ OccupancyIsTrue'
    BY <2>1 DEF CompleteReads, ResumerAlone, OccupancyIsTrue, OneOccupant,
       OccupantIsRecorded
  <2> QED
    BY <2>2, <2>3, <2>4 DEF Vacancy
<1> QED
  BY <1>7, <1>8, <1>9, <1>10, <1>11, <1>12, <1>13, <1>14, <1>15, <1>16 DEF IInv, Base,
     Copies, Row, Resume

LEMMA CompletedKeeps ==
    ASSUME IInv, NEW s \in Sessions, Completed(s)
    PROVE  IInv'
<1>1. /\ TypeOK /\ seen \in Copies /\ KindOK /\ ProcessesOK /\ LeaseOK
      /\ OwnersOK /\ DiskOK /\ GenerationsOK /\ CopiesOK
  BY DEF IInv, Base
<1>2. Typed
  BY <1>1, StateIsTyped
<1>3. Occupies(s, "over", occ[s].rt, occ[s].exit)
  BY <1>2, NamesApart, PlaceChanges DEF Completed, At, Typed, Places
<1>4. /\ occ[s].at = "completing" /\ Up(occ[s].rt) /\ s \notin live
  BY <1>1, NamesApart DEF Completed, At, ProcessesOK, Follows
<1>5. Keepers /\ (seen[s].fresh => row.sess = s /\ row.state # "absent")
  BY <1>1, NamesApart DEF Completed, At, CopiesOK, CopyOK, OwnersOK, NoRow
<1>6. Kept
  BY <1>1, WriteMakesStale DEF Completed, Kept
<1>7. /\ row' \in Row /\ row'.state = row.state /\ row'.rt = row.rt /\ row'.done = row.done
      /\ row'.dir = row.dir /\ row'.process = row.process /\ row'.sess = row.sess
      /\ row'.resume = row.resume
      /\ (row'.closed => row.closed \/ row.sess = s)
  <2>1. CASE row' = [row EXCEPT !.closed = TRUE] /\ row.sess = s
    BY <1>2, <2>1, ClosedChanges DEF Typed
  <2>2. CASE row' = row
    BY <1>2, <2>2 DEF Typed
  <2> QED
    BY <1>4, <1>5, <2>1, <2>2 DEF Completed, Write
<1>8. row.state = "absent" => row' = NoRow
  BY <1>1, <1>5 DEF Completed, OwnersOK
<1>9. UNCHANGED <<kind, phase, sweeps, disk, work, op, live>>
  BY DEF Completed
<1>10. TypeOK'
  <2>1. Checked
    BY <1>1, StateIsChecked
  <2>2. Checked'
    BY NamesApart, <1>7, <1>9, <2>1 DEF Checked
  <2>3. /\ row' \in Row /\ op' \in Operation /\ occ' \in [Processes -> Occupancy]
        /\ kind' \in Kinds /\ phase' \in [Runtimes -> {"new", "up", "gone"}]
        /\ live' \subseteq Processes /\ seen' \in Copies
    BY <1>2, <1>3, <1>6, <1>7, <1>9 DEF Typed, Occupies, Kept
  <2> QED
    BY <2>2, <2>3, TypesHold
<1>11. seen' \in Copies
  BY <1>6 DEF Kept
<1>12. KindOK'
  BY <1>1, NamesApart, <1>3, <1>7, <1>9 DEF KindOK, Occupies
<1>13. ProcessesOK'
  BY <1>1, <1>3, <1>4, <1>9 DEF ProcessesOK, Follows, Up, Occupies
<1>14. LeaseOK'
  BY <1>1, NamesApart, <1>3, <1>7, <1>9 DEF LeaseOK, Preparing, Removing, Resuming, Up,
     Occupies
<1>15. OwnersOK'
  BY <1>1, NamesApart, <1>3, <1>7, <1>8, <1>9 DEF OwnersOK, Occupies
<1>16. DiskOK'
  BY <1>1, <1>7, <1>9 DEF DiskOK, Linked
<1>17. GenerationsOK'
  BY <1>1, <1>2, <1>3, <1>7, <1>9 DEF Typed, GenerationsOK, Complete, Occupies
<1>18. CopiesOK'
  BY <1>1, NamesApart, <1>3, <1>4, <1>6, <1>7, <1>9 DEF CopiesOK, ClosedOK, CopyOK,
     Occupies, Kept
<1>19. ASSUME Keepers PROVE Vacancy'
  <2>1. NobodyLeft /\ ResumerAlone /\ SessionsOfRow /\ OccupancyIsTrue
    BY <1>19 DEF IInv, Vacancy
  <2>2. NobodyLeft'
    BY NamesApart, <1>3, <1>7, <1>9, <2>1 DEF NobodyLeft, Occupies
  <2>3. ResumerAlone'
    BY <1>7, <1>9, <2>1 DEF ResumerAlone
  <2>4. SessionsOfRow'
    BY NamesApart, <1>3, <1>6, <1>7, <1>9, <2>1 DEF SessionsOfRow, Occupies, Kept
  <2>5. OccupancyIsTrue'
    BY <1>7, <1>9, <2>1 DEF OccupancyIsTrue, OneOccupant, OccupantIsRecorded
  <2> QED
    BY <2>2, <2>3, <2>4, <2>5 DEF Vacancy
<1> QED
  BY <1>10, <1>11, <1>12, <1>13, <1>14, <1>15, <1>16, <1>17, <1>18, <1>19 DEF IInv, Base,
     Copies, Row, Resume

LEMMA ExitKeeps ==
    ASSUME IInv, NEW p \in Processes, Exit(p)
    PROVE  IInv'
<1>1. /\ TypeOK /\ seen \in Copies /\ KindOK /\ ProcessesOK /\ LeaseOK
      /\ OwnersOK /\ DiskOK /\ GenerationsOK /\ CopiesOK
  BY DEF IInv, Base
<1>2. Typed
  BY <1>1, StateIsTyped
<1>3. TypeOK'
  BY <1>1 DEF Exit, TypeOK
<1>4. ProcessesOK'
  BY <1>1 DEF Exit, ProcessesOK, Follows, Up
<1>5. GenerationsOK'
  BY <1>1 DEF Exit, GenerationsOK, Complete
<1>6. CopiesOK'
  BY <1>1 DEF Exit, CopiesOK, ClosedOK, CopyOK
<1>7. seen' \in Copies /\ KindOK' /\ LeaseOK' /\ OwnersOK' /\ DiskOK'
  BY <1>1 DEF Exit, KindOK, LeaseOK, Preparing, Removing, Resuming, Up, NoOp, OwnersOK,
     DiskOK, Linked
<1>8. ASSUME Keepers PROVE Vacancy'
  <2>1. NobodyLeft /\ ResumerAlone /\ SessionsOfRow /\ OccupancyIsTrue
    BY <1>8 DEF IInv, Vacancy
  <2>2. NobodyLeft'
    BY <2>1 DEF Exit, NobodyLeft
  <2>3. ResumerAlone'
    BY <2>1 DEF Exit, ResumerAlone
  <2>4. SessionsOfRow'
    BY <2>1 DEF Exit, SessionsOfRow
  <2>5. OccupancyIsTrue'
    BY <2>1 DEF Exit, OccupancyIsTrue, OneOccupant, OccupantIsRecorded
  <2> QED
    BY <2>2, <2>3, <2>4, <2>5 DEF Vacancy
<1> QED
  BY <1>3, <1>4, <1>5, <1>6, <1>7, <1>8 DEF IInv, Base, Copies, Row, Resume

LEMMA WorksKeeps ==
    ASSUME IInv, NEW p \in Processes, Works(p)
    PROVE  IInv'
<1>1. /\ TypeOK /\ seen \in Copies /\ KindOK /\ ProcessesOK /\ LeaseOK
      /\ OwnersOK /\ DiskOK /\ GenerationsOK /\ CopiesOK
  BY DEF IInv, Base
<1>2. Typed
  BY <1>1, StateIsTyped
<1>3. TypeOK'
  BY <1>1 DEF Works, TypeOK
<1>4. DiskOK'
  BY <1>1 DEF Works, DiskOK, Linked
<1>5. seen' \in Copies /\ KindOK' /\ ProcessesOK' /\ LeaseOK' /\ OwnersOK' /\ GenerationsOK' /\ CopiesOK'
  BY <1>1 DEF Works, KindOK, ProcessesOK, Follows, Up, LeaseOK, Preparing, Removing,
     Resuming, OwnersOK, GenerationsOK, Complete, CopiesOK, ClosedOK, CopyOK
<1>6. ASSUME Keepers PROVE Vacancy'
  <2>1. NobodyLeft /\ ResumerAlone /\ SessionsOfRow /\ OccupancyIsTrue
    BY <1>6 DEF IInv, Vacancy
  <2>2. NobodyLeft'
    BY <2>1 DEF Works, NobodyLeft
  <2>3. ResumerAlone' /\ SessionsOfRow' /\ OccupancyIsTrue'
    BY <2>1 DEF Works, ResumerAlone, SessionsOfRow, OccupancyIsTrue, OneOccupant,
       OccupantIsRecorded
  <2> QED
    BY <2>2, <2>3 DEF Vacancy
<1> QED
  BY <1>3, <1>4, <1>5, <1>6 DEF IInv, Base, Copies, Row, Resume


-----------------------------------------------------------------------------
(* The invariant and what follows from it.                                 *)

LEMMA InitHolds == Init => IInv
<1> SUFFICES ASSUME Init PROVE IInv
  OBVIOUS
<1>1. /\ NoRow \in Row /\ NoOp \in Operation
      /\ NoCopy \in [row : Row, fresh : BOOLEAN] /\ NoCopy.row = NoRow /\ ~ NoCopy.fresh
  BY DEF NoRow, NoResume, NoOp, NoCopy, Row, Resume, Operation
<1>2. /\ seen \in Copies
      /\ \A s \in Sessions : seen[s].row = NoRow /\ ~ seen[s].fresh
  BY <1>1 DEF Init, Copies
<1>3. /\ occ \in [Processes -> Occupancy]
      /\ \A p \in Processes : occ[p].rt = None /\ occ[p].at = "none" /\ occ[p].exit = "no"
  BY DEF Init, Occupancy
<1>4. TypeOK
  <2>1. row.state = "absent" /\ ~ row.closed /\ ~ row.process
    BY DEF Init, NoRow
  <2>2. /\ kind \in Kinds /\ phase \in [Runtimes -> {"new", "up", "gone"}]
        /\ sweeps \subseteq Runtimes /\ disk = "none" /\ work = "none"
        /\ live \subseteq Processes /\ DOMAIN seen = Sessions
    BY DEF Init
  <2> QED
    BY <1>1, <1>3, <2>1, <2>2 DEF TypeOK, Init, Row, Resume, Operation, Occupancy
<1>5. KindOK
  BY <1>3, NamesApart DEF Init, KindOK, NoRow
<1>6. ProcessesOK
  BY <1>3 DEF Init, ProcessesOK, Follows
<1>7. LeaseOK
  BY <1>3, NamesApart DEF Init, LeaseOK, NoOp
<1>8. OwnersOK
  BY <1>3, NamesApart DEF Init, OwnersOK, NoRow
<1>9. DiskOK /\ GenerationsOK
  BY DEF Init, DiskOK, GenerationsOK, NoRow, NoResume
<1>10. CopiesOK
  BY <1>2, <1>3, NamesApart DEF Init, CopiesOK, ClosedOK, CopyOK, NoRow
<1>11. Vacancy
  BY <1>3, NamesApart DEF Init, Vacancy, NobodyLeft, ResumerAlone, SessionsOfRow,
     OccupancyIsTrue,
              OneOccupant, OccupantIsRecorded, NoOp
<1> QED
  BY <1>2, <1>4, <1>5, <1>6, <1>7, <1>8, <1>9, <1>10, <1>11 DEF IInv, Base

LEMMA StutterKeeps == IInv /\ UNCHANGED vars => IInv'
<1> SUFFICES ASSUME IInv, UNCHANGED vars PROVE IInv'
  OBVIOUS
<1>1. /\ TypeOK /\ seen \in Copies /\ KindOK /\ ProcessesOK /\ LeaseOK
      /\ OwnersOK /\ DiskOK /\ GenerationsOK /\ CopiesOK
  BY DEF IInv, Base
<1>2. TypeOK' /\ seen' \in Copies
  BY <1>1 DEF vars, TypeOK
<1>3. KindOK' /\ ProcessesOK' /\ LeaseOK'
  BY <1>1 DEF vars, KindOK, NoResume, ProcessesOK, Follows, Up, LeaseOK, Preparing,
              Removing, Resuming, NoOp
<1>4. OwnersOK' /\ DiskOK' /\ GenerationsOK' /\ CopiesOK'
  BY <1>1 DEF vars, OwnersOK, NoRow, NoResume, DiskOK, Linked, GenerationsOK, Complete,
              CopiesOK, ClosedOK, CopyOK
<1>5. Keepers => Vacancy'
  BY DEF IInv, vars, Vacancy, NobodyLeft, ResumerAlone, SessionsOfRow, OccupancyIsTrue,
         OneOccupant, OccupantIsRecorded
<1> QED
  BY <1>2, <1>3, <1>4, <1>5 DEF IInv, Base, Copies, Row, Resume

LEMMA StepKeeps == IInv /\ [Next]_vars => IInv'
<1> SUFFICES ASSUME IInv, [Next]_vars PROVE IInv'
  OBVIOUS
<1>1. ASSUME NEW g \in Runtimes, RuntimeStep(g) PROVE IInv'
  BY <1>1, StartKeeps, CrashKeeps, KeeperCompletesKeeps, SpawnKeeps, RecordKeeps,
     RecordAgainKeeps, SweepKeeps, ReleaseChatKeeps, ReserveResumeKeeps,
     ReserveOpenKeeps, BindKeeps DEF RuntimeStep
<1>2. CASE LeaseStep
  BY <1>2, MakeDirectoryKeeps, CaptureDirectoryKeeps, WorktreeAddKeeps, SaveReadyKeeps,
     ReleaseAbsentKeeps, RemoveEmptyKeeps, PreserveKeeps, FindCleanKeeps,
     WorktreeRemoveKeeps, SaveReleasedKeeps, OperationFailsKeeps DEF LeaseStep
<1>3. CASE WorkerStep
  BY <1>3, CancelSpawnKeeps, BindTerminalKeeps, BindFailsKeeps, ReleaseWorkerKeeps
     DEF WorkerStep
<1>4. ASSUME NEW t \in Terminals, TerminalStep(t) PROVE IInv'
  BY <1>4, BirthKeeps, ForgetKeeps DEF TerminalStep
<1>5. ASSUME NEW t \in Resumes, ResumeStep(t) PROVE IInv'
  BY <1>5, AbortResumeKeeps, BindResumeKeeps, BindResumeFailsKeeps, ReleaseResumeKeeps
     DEF ResumeStep
<1>6. ASSUME NEW s \in Sessions, SessionStep(s) PROVE IInv'
  BY <1>6, ReopenReadsKeeps, ReopenedKeeps, SessionBornKeeps, OpenFailsKeeps,
     CloseSessionKeeps, StoppedKeeps, CompleteReadsKeeps, CompletedKeeps DEF SessionStep
<1>7. ASSUME NEW p \in Processes, Exit(p) \/ Works(p) PROVE IInv'
  BY <1>7, ExitKeeps, WorksKeeps
<1>8. CASE UNCHANGED vars
  BY <1>8, StutterKeeps
<1> QED
  BY <1>1, <1>2, <1>3, <1>4, <1>5, <1>6, <1>7, <1>8 DEF Next

\* Whatever crashes and whoever comes late, the row, the lease and the processes
\* agree: IInv is inductive, for rows of either kind, with keepers and without.
THEOREM WorktreeInvariant == Spec => []IInv
<1> QED
  BY InitHolds, StepKeeps, PTL DEF Spec

\* Types, and what the store validates of every row it reads (validate_records).
THEOREM WorktreeTypeCorrect == Spec => []TypeOK
<1>1. IInv => TypeOK
  BY DEF IInv, Base
<1> QED
  BY <1>1, WorktreeInvariant, PTL

\* What is on the disk has a row that owns it, and what a row records as ended has
\* ended, with keepers or without (prepare, complete_session, registry::complete).
THEOREM RowStaysTrue == Spec => []RowIsTrue
<1>1. IInv => RowIsTrue
  <2> SUFFICES ASSUME IInv PROVE RowIsTrue
    OBVIOUS
  <2>1. TypeOK /\ DiskOK /\ GenerationsOK /\ CopiesOK
    BY DEF IInv, Base
  <2>2. NothingUnowned
    BY <2>1 DEF DiskOK, NothingUnowned
  <2>3. row.closed => row.sess \in Sessions
    BY <2>1 DEF TypeOK
  <2>4. row.closed => row.sess \notin live
    BY <2>1, <2>3 DEF CopiesOK, ClosedOK
  <2>5. ProofsAreTrue
    BY <2>1, <2>4 DEF GenerationsOK, Complete, ProofsAreTrue
  <2> QED
    BY <2>2, <2>5 DEF RowIsTrue
<1> QED
  BY <1>1, WorktreeInvariant, PTL

\* Where generations have keepers, at most one terminal runs in a worktree, of
\* whatever Runtimes, and the row tells of it (reserve_resume, release_resume).
THEOREM OccupancyStaysTrue == Keepers => (Spec => []OccupancyIsTrue)
<1> SUFFICES ASSUME Keepers PROVE Spec => []OccupancyIsTrue
  OBVIOUS
<1>1. IInv => OccupancyIsTrue
  BY DEF IInv, Vacancy
<1> QED
  BY <1>1, WorktreeInvariant, PTL

LEMMA RemovalFindsNobody ==
    ASSUME Keepers, IInv, [Next]_vars, disk # "none", disk' = "none"
    PROVE  live = {} /\ work = "none"
<1>1. NobodyLeft /\ TypeOK /\ LeaseOK /\ DiskOK
  BY DEF IInv, Base, Vacancy
<1>2. CASE RemoveEmpty
  <2>1. op.does = "remove" /\ disk = "empty"
    BY <1>1, <1>2, OperationKnown DEF RemoveEmpty
  <2>2. live = {}
    BY <1>1, <2>1 DEF NobodyLeft
  <2> QED
    BY <1>1, <2>1, <2>2 DEF DiskOK, Linked
<1>3. CASE WorktreeRemove
  <2>1. op.does = "remove" /\ op.step = "clean"
    BY <1>1, <1>3, OperationKnown DEF WorktreeRemove
  <2> QED
    BY <1>1, <2>1 DEF NobodyLeft
<1>4. HalfDone \subseteq {disk, "partial"}
  BY DEF HalfDone
<1>5. ASSUME NEW g \in Runtimes, RuntimeStep(g) PROVE disk' # "none"
  BY <1>4, <1>5 DEF RuntimeStep, Start, Crash, KeeperCompletes, Spawn, Record, RecordAgain,
     Sweep, ReleaseChat, ReserveResume, ReserveOpen, Bind
<1>6. ASSUME LeaseStep, ~ RemoveEmpty, ~ WorktreeRemove PROVE disk' # "none"
  BY <1>4, <1>6 DEF LeaseStep, MakeDirectory, CaptureDirectory, WorktreeAdd, SaveReady,
     ReleaseAbsent, Preserve, FindClean, SaveReleased, OperationFails
<1>7. ASSUME WorkerStep PROVE disk' # "none"
  BY <1>7 DEF WorkerStep, CancelSpawn, BindTerminal, BindFails, ReleaseWorker
<1>8. ASSUME NEW t \in Terminals, TerminalStep(t) \/ (t \in Resumes /\ ResumeStep(t))
      PROVE  disk' # "none"
  BY <1>8 DEF TerminalStep, ResumeStep, Birth, Forget, AbortResume, BindResume,
     BindResumeFails, ReleaseResume
<1>9. ASSUME NEW s \in Sessions, SessionStep(s) PROVE disk' # "none"
  BY <1>9 DEF SessionStep, ReopenReads, Reopened, SessionBorn, OpenFails, CloseSession,
     Stopped, CompleteReads, Completed
<1>10. ASSUME NEW p \in Processes, Exit(p) \/ Works(p) PROVE disk' # "none"
  BY <1>10 DEF Exit, Works
<1>11. ~ UNCHANGED vars
  BY DEF vars
<1>12. ASSUME NEW t \in Resumes, ResumeStep(t) PROVE disk' # "none"
  BY <1>8, <1>12, NamesApart
<1> QED
  BY <1>2, <1>3, <1>5, <1>6, <1>7, <1>8, <1>9, <1>10, <1>11, <1>12 DEF Next

\* Where generations have keepers, a directory goes only when nobody lives in it
\* and nothing in it would be lost (remove_terminal, recover_terminal, reserve_resume).
THEOREM RemovalIsVacant == Keepers => (Spec => RemovedOnlyWhenVacant)
<1> SUFFICES ASSUME Keepers PROVE Spec => RemovedOnlyWhenVacant
  OBVIOUS
<1>1. IInv /\ [Next]_vars
      => [disk # "none" /\ disk' = "none" => live = {} /\ work = "none"]_vars
  BY RemovalFindsNobody
<1> QED
  BY <1>1, WorktreeInvariant, PTL DEF Spec, RemovedOnlyWhenVacant

=============================================================================
