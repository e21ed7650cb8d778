------------------------------ MODULE Worktrees ------------------------------
(***************************************************************************)
(* One isolated worktree: the durable row that says who owns it, the       *)
(* directory Git made for it, the Runtimes that prepare, bind, resume,     *)
(* release and recover it across crashes, and the processes that live in   *)
(* it.  A row belongs either to a structured chat session or to a worker   *)
(* terminal, which later terminals may resume.                             *)
(*                                                                         *)
(* An operation holds the row's stripe lease (a file lock, freed by the    *)
(* death of its holder); the copy of the row it works on is written back   *)
(* only if nobody wrote the row since.  Only the keeper of a dead Runtime  *)
(* writes without the lease.  With Keepers (Windows) a Runtime's end is    *)
(* proved by a keeper that saw all its processes end; without (elsewhere)  *)
(* proven() answers TRUE.                                                  *)
(***************************************************************************)

CONSTANTS
    None,
    Runtimes,   \* runs of the daemon: each starts once
    Worker,     \* the terminal a worker's row is made for
    Resumes,    \* the terminals that resume in it
    Sessions,   \* the structured sessions of a chat's row
    Kinds,      \* of rows to begin with
    Keepers     \* whether a generation's end needs a proof

Terminals == {Worker} \cup Resumes
Processes == Terminals \cup Sessions

ASSUME WorktreesAssumption ==
    /\ Worker \notin Resumes
    /\ Terminals \cap Sessions = {}
    /\ None \notin Runtimes \cup Processes
    /\ Kinds \subseteq {"chat", "worker"}
    /\ Keepers \in BOOLEAN

VARIABLES
    kind,    \* of the one row
    phase,   \* Runtime -> "new", "up" or "gone"
    sweeps,  \* the Runtimes whose one sweep at start is still to come
    row,     \* the durable row
    disk,    \* the directory: "none", "empty", "partial" or "linked"
    work,    \* against the frozen base: "none", "dirty" or "committed"
    op,      \* the operation that holds the lease
    occ,     \* process -> how far the Runtime that starts it has got
    live,    \* the processes that run
    seen     \* session -> the copy of the row it read before the lease

vars == <<kind, phase, sweeps, row, disk, work, op, occ, live, seen>>

-----------------------------------------------------------------------------
(* The row and the operation on it. *)

NoResume == [t |-> None, rt |-> None, process |-> FALSE, done |-> FALSE]

\* rt and done are the recorded generation and its completion; dir and process
\* say that the identity was captured; closed is session_completed.
NoRow == [state |-> "absent", rt |-> None, done |-> FALSE, dir |-> FALSE,
          process |-> FALSE, resume |-> NoResume, sess |-> None, closed |-> FALSE]

NoOp == [rt |-> None, does |-> "nothing", step |-> "none", fresh |-> TRUE]

Lease(g, does, step) == [rt |-> g, does |-> does, step |-> step, fresh |-> TRUE]

NoCopy == [row |-> NoRow, fresh |-> FALSE]

\* A write of the row: every copy read before is of an older revision.
Write(r) ==
    /\ row' = r
    /\ seen' = [s \in Sessions |-> [seen[s] EXCEPT !.fresh = FALSE]]

\* A write by the holder of the lease, whose copy must be of this revision.
Save(r) == op.fresh /\ Write(r)

Up(g) == g \in Runtimes /\ phase[g] = "up"

\* completion::proven
Proven(done) == Keepers => done

\* Claim absence, as the Runtime that hosted the terminal sees it.
Retired(t) == occ[t].at = "over" \/ occ[t].exit # "no"

\* Mutant of ResumeIsLive: only a recorded process counts.
ResumeIsLiveByProcess ==
    row.resume # NoResume /\ row.resume.process /\ row.resume.t \in live

\* ResumeRecord::is_live
ResumeIsLive ==
    /\ row.resume # NoResume
    /\ \/ Up(row.resume.rt)
       \/ row.resume.process /\ row.resume.t \in live
       \/ ~ Proven(row.resume.done)

Linked == disk \in {"linked", "partial"}

\* The sessions whose reservations, of any kind, Runtime g holds.
Busy(g) == {s \in Sessions : /\ occ[s].rt = g
                             /\ occ[s].at \notin {"none", "over"}}

-----------------------------------------------------------------------------
TypeOK ==
    /\ kind \in Kinds
    /\ phase \in [Runtimes -> {"new", "up", "gone"}]
    /\ sweeps \subseteq Runtimes
    /\ row \in [state : {"absent", "creating", "ready", "bound", "preserved", "released"},
                rt : Runtimes \cup {None}, done : BOOLEAN, dir : BOOLEAN,
                process : BOOLEAN, sess : Sessions \cup {None}, closed : BOOLEAN,
                resume : [t : Resumes \cup {None}, rt : Runtimes \cup {None},
                          process : BOOLEAN, done : BOOLEAN]]
    /\ disk \in {"none", "empty", "partial", "linked"}
    /\ work \in {"none", "dirty", "committed"}
    /\ op \in [rt : Runtimes \cup {None}, fresh : BOOLEAN,
               does : {"nothing", "prepare", "remove", "resume"},
               step : {"none", "recorded", "made", "captured", "added",
                       "checked", "clean", "removed"}]
    /\ occ \in [Processes -> [rt : Runtimes \cup {None}, exit : {"no", "owed", "done"},
                              at : {"none", "pending", "ready", "born", "up", "over",
                                    "opening", "read", "cleared", "running",
                                    "closing", "ended", "completing"}]]
    /\ live \subseteq Processes
    /\ DOMAIN seen = Sessions
    \* validate_records
    /\ row.state = "bound" => row.process \/ row.sess # None
    /\ row.state \in {"creating", "ready"} => row.sess = None /\ row.resume = NoResume
    /\ row.closed => row.sess # None
    /\ row.process => row.dir

Init ==
    /\ kind \in Kinds
    /\ phase = [g \in Runtimes |-> "new"]
    /\ sweeps = {}
    /\ row = NoRow
    /\ disk = "none"
    /\ work = "none"
    /\ op = NoOp
    /\ occ = [p \in Processes |-> [rt |-> None, at |-> "none", exit |-> "no"]]
    /\ live = {}
    /\ seen = [s \in Sessions |-> NoCopy]

-----------------------------------------------------------------------------
(* Runtimes, their keepers and the processes. *)

Start(g) ==
    /\ phase[g] = "new"
    /\ phase' = [phase EXCEPT ![g] = "up"]
    /\ sweeps' = sweeps \cup {g}
    /\ UNCHANGED <<kind, row, disk, work, op, occ, live, seen>>

\* What a Git command that ends in the middle may leave.
HalfDone ==
    CASE op.step = "captured" -> {disk, "partial"}
      [] op.step = "clean"    -> {disk, "partial"}
      [] OTHER                -> {disk}

\* The Runtime ends, cleanly or not; its leases and Git commands end with it,
\* its other processes when the containment reaches them.
Crash(g) ==
    /\ phase[g] = "up"
    /\ phase' = [phase EXCEPT ![g] = "gone"]
    /\ sweeps' = sweeps \ {g}
    /\ op' = IF op.rt = g THEN NoOp ELSE op
    /\ disk' \in IF op.rt = g THEN HalfDone ELSE {disk}
    /\ occ' = [p \in Processes |-> IF occ[p].rt = g
                                   THEN [occ[p] EXCEPT !.at = "over", !.exit = "done"]
                                   ELSE occ[p]]
    /\ UNCHANGED <<kind, row, work, live, seen>>

\* registry::complete: the keeper has seen every process of the Runtime end.
Ended(g) == phase[g] = "gone" /\ \A p \in live : occ[p].rt # g

KeeperCompletes(g) ==
    /\ Keepers
    /\ Ended(g)
    /\ \/ row.rt = g /\ ~ row.done
       \/ row.resume.rt = g /\ ~ row.resume.done
    /\ Write([row EXCEPT !.done = @ \/ row.rt = g,
                         !.resume.done = @ \/ row.resume.rt = g])
    /\ op' = [op EXCEPT !.fresh = (op = NoOp)]
    /\ UNCHANGED <<kind, phase, sweeps, disk, work, occ, live>>

\* A process ends by itself, is killed after a failed binding, or is contained.
Exit(p) ==
    /\ p \in live
    /\ live' = live \ {p}
    /\ UNCHANGED <<kind, phase, sweeps, row, disk, work, op, occ, seen>>

\* A process edits, commits, or undoes what it did.
Works(p) ==
    /\ p \in live
    /\ Linked
    /\ work' \in {"none", "dirty", "committed"} \ {work}
    /\ UNCHANGED <<kind, phase, sweeps, row, disk, op, occ, live, seen>>

-----------------------------------------------------------------------------
(* Preparation. *)

\* The gate reserves a worker: the ticket names its Runtime.
Spawn(g) ==
    /\ kind = "worker" /\ Up(g)
    /\ occ[Worker].at = "none"
    /\ occ' = [occ EXCEPT ![Worker].at = "pending", ![Worker].rt = g]
    /\ UNCHANGED <<kind, phase, sweeps, row, disk, work, op, live, seen>>

\* prepare and prepare_terminal, up to the first save.
Record(g) ==
    /\ Up(g) /\ op = NoOp /\ row = NoRow
    /\ kind = "worker" => occ[Worker].at = "pending" /\ occ[Worker].rt = g
    /\ Write([NoRow EXCEPT !.state = "creating", !.rt = g])
    /\ op' = Lease(g, "prepare", IF kind = "worker" THEN "recorded" ELSE "captured")
    /\ UNCHANGED <<kind, phase, sweeps, disk, work, occ, live>>

\* A repeated chat request, of any Runtime, takes up a preparation that stopped.
RecordAgain(g) ==
    /\ kind = "chat" /\ Up(g) /\ op = NoOp /\ row.state = "creating"
    /\ op' = Lease(g, "prepare", IF disk = "none" THEN "captured" ELSE "added")
    /\ UNCHANGED <<kind, phase, sweeps, row, disk, work, occ, live, seen>>

MakeDirectory ==
    /\ op.step = "recorded" /\ disk = "none"
    /\ disk' = "empty"
    /\ op' = [op EXCEPT !.step = "made"]
    /\ UNCHANGED <<kind, phase, sweeps, row, work, occ, live, seen>>

CaptureDirectory ==
    /\ op.step = "made"
    /\ Save([row EXCEPT !.dir = TRUE])
    /\ op' = [op EXCEPT !.step = "captured"]
    /\ UNCHANGED <<kind, phase, sweeps, disk, work, occ, live>>

WorktreeAdd ==
    /\ op.step = "captured"
    /\ disk' = "linked"
    /\ op' = [op EXCEPT !.step = "added"]
    /\ UNCHANGED <<kind, phase, sweeps, row, work, occ, live, seen>>

\* The checkout counts as made when it is linked and at its base.
SaveReady ==
    /\ op.step = "added" /\ Linked
    /\ Save([row EXCEPT !.state = "ready"])
    /\ op' = NoOp
    /\ occ' = IF kind = "worker" THEN [occ EXCEPT ![Worker].at = "ready"] ELSE occ
    /\ UNCHANGED <<kind, phase, sweeps, disk, work, live>>

\* Any step of preparing or removing may refuse, time out or find the file busy.
OperationFails ==
    /\ op.does \in {"prepare", "remove"}
    /\ op' = NoOp
    /\ disk' \in HalfDone
    /\ UNCHANGED <<kind, phase, sweeps, row, work, occ, live, seen>>

\* cancel_spawn: nothing was published, and the caller owes one release.
CancelSpawn ==
    /\ occ[Worker].at \in {"pending", "ready"}
    /\ op.does # "prepare"
    /\ occ' = [occ EXCEPT ![Worker].at = "over", ![Worker].exit = "owed"]
    /\ UNCHANGED <<kind, phase, sweeps, row, disk, work, op, live, seen>>

-----------------------------------------------------------------------------
(* Terminals in a worker's worktree. *)

\* The process is started before it can be recorded.
Birth(t) ==
    /\ occ[t].at = IF t = Worker THEN "ready" ELSE "pending"
    /\ occ' = [occ EXCEPT ![t].at = "born"]
    /\ live' = live \cup {t}
    /\ UNCHANGED <<kind, phase, sweeps, row, disk, work, op, seen>>

BindTerminal ==
    /\ occ[Worker].at = "born" /\ op = NoOp
    /\ row.state = "ready" /\ row.dir /\ Linked /\ ~ row.process
    /\ Write([row EXCEPT !.state = "bound", !.process = TRUE])
    /\ occ' = [occ EXCEPT ![Worker].at = "up"]
    /\ UNCHANGED <<kind, phase, sweeps, disk, work, op, live>>

\* The binding fails and the process is killed: it will Exit.
BindFails ==
    /\ occ[Worker].at = "born"
    /\ occ' = [occ EXCEPT ![Worker].at = "up"]
    /\ UNCHANGED <<kind, phase, sweeps, row, disk, work, op, live, seen>>

\* Mutant of OwnerEnded: a Runtime that is gone needs no proof.
OwnerEndedUnproven(g, rt, done, t) == ~ Up(rt) \/ (rt = g /\ Retired(t))

\* owner_ended: the Runtime ended and is proved so, or is this very one and
\* has retired the terminal's claim.
OwnerEnded(g, rt, done, t) ==
    \/ ~ Up(rt) /\ Proven(done)
    \/ rt = g /\ Retired(t)

\* reserve_resume
Vacant(g) ==
    /\ ~ (row.process /\ Worker \in live)
    /\ OwnerEnded(g, row.rt, row.done, Worker)
    /\ row.resume # NoResume =>
         /\ OwnerEnded(g, row.resume.rt, row.resume.done, row.resume.t)
         /\ ~ (row.resume.process /\ row.resume.t \in live)

ReserveResume(g, t) ==
    /\ Up(g) /\ op = NoOp /\ occ[t].at = "none"
    /\ kind = "worker" /\ row.state \in {"bound", "preserved"} /\ row.process /\ Linked
    /\ Vacant(g)
    /\ Write([row EXCEPT !.resume = [NoResume EXCEPT !.t = t, !.rt = g]])
    /\ op' = Lease(g, "resume", "none")
    /\ occ' = [occ EXCEPT ![t].at = "pending", ![t].rt = g]
    /\ UNCHANGED <<kind, phase, sweeps, disk, work, live>>

\* cancel_pending
Cancelled(t) == IF row.resume.t = t /\ ~ row.resume.process
                THEN [row EXCEPT !.resume = NoResume] ELSE row

\* Nothing was born: the pending row is cleared, unless the file stays busy.
AbortResume(t) ==
    /\ occ[t].at = "pending" /\ op.does = "resume"
    /\ Write(Cancelled(t)) \/ UNCHANGED <<row, seen>>
    /\ op' = NoOp
    /\ occ' = [occ EXCEPT ![t].at = "over", ![t].exit = "done"]
    /\ UNCHANGED <<kind, phase, sweeps, disk, work, live>>

BindResume(t) ==
    /\ occ[t].at = "born" /\ op.does = "resume" /\ row.resume.t = t
    /\ Write([row EXCEPT !.resume.process = TRUE])
    /\ op' = NoOp
    /\ occ' = [occ EXCEPT ![t].at = "up"]
    /\ UNCHANGED <<kind, phase, sweeps, disk, work, live>>

\* As for the worker, killed; the pending row stays until the exit is heard.
BindResumeFails(t) ==
    /\ occ[t].at = "born" /\ op.does = "resume"
    /\ op' = NoOp
    /\ occ' = [occ EXCEPT ![t].at = "up"]
    /\ UNCHANGED <<kind, phase, sweeps, row, disk, work, live, seen>>

\* The exit observer retires the claim; one release is owed, whose failure is
\* only reported.  A worker's observer runs beside its binding.
Forget(t) ==
    /\ occ[t].at = "up" \/ (t = Worker /\ occ[t].at = "born")
    /\ occ[t].exit = "no"
    /\ t \notin live
    /\ occ' = [occ EXCEPT ![t].exit = "owed"]
    /\ UNCHANGED <<kind, phase, sweeps, row, disk, work, op, live, seen>>

-----------------------------------------------------------------------------
(* Removal. *)

\* The checks of remove_terminal before it looks into the directory.
MayRemove(r) ==
    /\ r.state \notin {"absent", "released"}
    /\ ~ (r.process /\ Worker \in live)
    /\ \/ r.state = "creating" /\ disk = "none"
       \/ r.dir /\ disk # "none"

\* A removal that is begun, or refused.
Remove(g, r) ==
    \/ op = NoOp /\ MayRemove(r) /\ op' = Lease(g, "remove", "checked")
    \/ UNCHANGED op

ReleaseWorker ==
    /\ occ[Worker].exit = "owed"
    /\ occ' = [occ EXCEPT ![Worker].exit = "done"]
    /\ (~ ResumeIsLive /\ Remove(occ[Worker].rt, row)) \/ UNCHANGED op
    /\ UNCHANGED <<kind, phase, sweeps, row, disk, work, live, seen>>

ReleaseResume(t) ==
    /\ t # Worker /\ occ[t].exit = "owed"
    /\ occ' = [occ EXCEPT ![t].exit = "done"]
    /\ \/ /\ op = NoOp /\ row.resume.t = t
          /\ Write([row EXCEPT !.resume = NoResume])
          /\ Remove(occ[t].rt, [row EXCEPT !.resume = NoResume])
       \/ UNCHANGED <<row, seen, op>>
    /\ UNCHANGED <<kind, phase, sweeps, disk, work, live>>

\* recover_terminal
Recoverable == ~ Up(row.rt) /\ Proven(row.done) /\ ~ ResumeIsLive

Sweep(g) ==
    /\ g \in sweeps
    /\ sweeps' = sweeps \ {g}
    /\ (kind = "worker" /\ Recoverable /\ Remove(g, row)) \/ UNCHANGED op
    /\ UNCHANGED <<kind, phase, row, disk, work, occ, live, seen>>

\* require_structured_release
StructuredRelease(g) ==
    Keepers => IF row.rt = g THEN row.sess # None => row.closed
                             ELSE ~ Up(row.rt) /\ row.done

\* The session owner's cleanup reservation lasts as long as the operation.
ReleaseChat(g) ==
    /\ kind = "chat" /\ Up(g) /\ op = NoOp
    /\ Busy(g) = {}
    /\ row.state \notin {"absent", "released"}
    /\ StructuredRelease(g)
    /\ Linked \/ (row.state = "creating" /\ disk = "none")
    /\ op' = Lease(g, "remove", "checked")
    /\ UNCHANGED <<kind, phase, sweeps, row, disk, work, occ, live, seen>>

Released(r) == [r EXCEPT !.state = "released", !.resume = NoResume]

\* Nothing was ever made.
ReleaseAbsent ==
    /\ op.step = "checked" /\ row.state = "creating" /\ disk = "none"
    /\ Save(Released(row))
    /\ op' = NoOp
    /\ UNCHANGED <<kind, phase, sweeps, disk, work, occ, live>>

RemoveEmpty ==
    /\ op.step = "checked" /\ disk = "empty" /\ ~ row.process
    /\ row.state \in {"creating", "preserved"}
    /\ disk' = "none"
    /\ op' = [op EXCEPT !.step = "removed"]
    /\ UNCHANGED <<kind, phase, sweeps, row, work, occ, live, seen>>

\* HEAD at the base and nothing to report by git status.
Clean == disk = "linked" /\ work = "none"

Preserve ==
    /\ op.step = "checked" /\ Linked /\ ~ Clean
    /\ Save([row EXCEPT !.state = "preserved"])
    /\ op' = NoOp
    /\ UNCHANGED <<kind, phase, sweeps, disk, work, occ, live>>

FindClean ==
    /\ op.step = "checked" /\ Clean
    /\ op' = [op EXCEPT !.step = "clean"]
    /\ UNCHANGED <<kind, phase, sweeps, row, disk, work, occ, live, seen>>

\* Git itself refuses a modified tree, though not a moved one.
WorktreeRemove ==
    /\ op.step = "clean" /\ work # "dirty"
    /\ disk' = "none"
    /\ work' = "none"
    /\ op' = [op EXCEPT !.step = "removed"]
    /\ UNCHANGED <<kind, phase, sweeps, row, occ, live, seen>>

SaveReleased ==
    /\ op.step = "removed"
    /\ Save(Released(row))
    /\ op' = NoOp
    /\ UNCHANGED <<kind, phase, sweeps, disk, work, occ, live>>

-----------------------------------------------------------------------------
(* Structured sessions in a chat's worktree. *)

At(s, from, to) == occ[s].at = from /\ occ' = [occ EXCEPT ![s].at = to]

\* The session's reservation excludes its own Runtime's cleanup.  A process that
\* an earlier Runtime left behind is followed until it has ended.
ReserveOpen(g, s) ==
    /\ kind = "chat" /\ Up(g)
    /\ row.state \notin {"absent", "creating"}
    /\ occ[s].at \in {"none", "over"} /\ s \notin live
    /\ ~ (op.rt = g /\ op.does = "remove")
    /\ occ' = [occ EXCEPT ![s] = [rt |-> g, at |-> "opening", exit |-> "no"]]
    /\ UNCHANGED <<kind, phase, sweeps, row, disk, work, op, live, seen>>

\* reopen_session reads the row before it takes the lease.
ReopenReads(s) ==
    /\ At(s, "opening", "read")
    /\ seen' = [seen EXCEPT ![s] = [row |-> row, fresh |-> TRUE]]
    /\ UNCHANGED <<kind, phase, sweeps, row, disk, work, op, live>>

MayReopen(s, r) ==
    /\ Keepers => r.rt = occ[s].rt
    /\ r.sess \in {None, s}
    /\ r.state # "released"

\* Mutant of Reopened: the completion of the last close stays.
ReopenedStillClosed(s) ==
    /\ At(s, "read", "cleared")
    /\ op = NoOp
    /\ MayReopen(s, seen[s].row)
    /\ UNCHANGED <<kind, phase, sweeps, row, disk, work, op, live, seen>>

Reopened(s) ==
    /\ At(s, "read", "cleared")
    /\ op = NoOp
    /\ MayReopen(s, seen[s].row)
    /\ IF seen[s].row.closed
       THEN seen[s].fresh /\ Write([row EXCEPT !.closed = FALSE])
       ELSE UNCHANGED <<row, seen>>
    /\ UNCHANGED <<kind, phase, sweeps, disk, work, op, live>>

SessionBorn(s) ==
    /\ At(s, "cleared", "running")
    /\ Linked
    /\ live' = live \cup {s}
    /\ UNCHANGED <<kind, phase, sweeps, row, disk, work, op, seen>>

OpenFails(s) ==
    /\ occ[s].at \in {"opening", "read", "cleared"}
    /\ occ' = [occ EXCEPT ![s].at = "none"]
    /\ UNCHANGED <<kind, phase, sweeps, row, disk, work, op, live, seen>>

\* The caller binds the session it opened, to any Runtime and as late as it likes.
Bind(g, s) ==
    /\ Up(g) /\ op = NoOp /\ row.state = "ready" /\ kind = "chat"
    /\ occ[s].at \in {"running", "closing", "ended", "completing", "over"}
    /\ Write([row EXCEPT !.sess = s, !.state = "bound"])
    /\ UNCHANGED <<kind, phase, sweeps, disk, work, op, occ, live>>

CloseSession(s) ==
    /\ At(s, "running", "closing")
    /\ UNCHANGED <<kind, phase, sweeps, row, disk, work, op, live, seen>>

\* The provider's process ended, by a close that succeeded or one that failed.
Stopped(s) ==
    /\ At(s, "closing", "ended") \/ At(s, "closing", "over")
    /\ live' = live \ {s}
    /\ UNCHANGED <<kind, phase, sweeps, row, disk, work, op, seen>>

\* Mutant of CompleteReads: any row of the workspace is taken for the session's.
CompleteReadsAny(s) ==
    /\ IF row.rt = occ[s].rt /\ Keepers
       THEN /\ At(s, "ended", "completing")
            /\ seen' = [seen EXCEPT ![s] = [row |-> row, fresh |-> TRUE]]
       ELSE At(s, "ended", "over") /\ UNCHANGED seen
    /\ UNCHANGED <<kind, phase, sweeps, row, disk, work, op, live>>

\* complete_session reads the row before it takes the lease, like reopen_session.
CompleteReads(s) ==
    /\ IF row.sess = s /\ row.rt = occ[s].rt /\ Keepers
       THEN /\ At(s, "ended", "completing")
            /\ seen' = [seen EXCEPT ![s] = [row |-> row, fresh |-> TRUE]]
       ELSE At(s, "ended", "over") /\ UNCHANGED seen
    /\ UNCHANGED <<kind, phase, sweeps, row, disk, work, op, live>>

\* The close is recorded, or is not if the lease or the row was taken meanwhile.
Completed(s) ==
    /\ At(s, "completing", "over")
    /\ \/ /\ op = NoOp /\ seen[s].fresh
          /\ seen[s].row.state # "released" /\ ~ seen[s].row.closed
          /\ Write([row EXCEPT !.closed = TRUE])
       \/ UNCHANGED <<row, seen>>
    /\ UNCHANGED <<kind, phase, sweeps, disk, work, op, live>>

-----------------------------------------------------------------------------
RuntimeStep(g) ==
    \/ Start(g) \/ Crash(g) \/ KeeperCompletes(g)
    \/ Spawn(g) \/ Record(g) \/ RecordAgain(g) \/ Sweep(g) \/ ReleaseChat(g)
    \/ \E t \in Resumes : ReserveResume(g, t)
    \/ \E s \in Sessions : ReserveOpen(g, s) \/ Bind(g, s)

LeaseStep ==
    \/ MakeDirectory \/ CaptureDirectory \/ WorktreeAdd \/ SaveReady
    \/ ReleaseAbsent \/ RemoveEmpty \/ Preserve \/ FindClean
    \/ WorktreeRemove \/ SaveReleased \/ OperationFails

WorkerStep == CancelSpawn \/ BindTerminal \/ BindFails \/ ReleaseWorker

TerminalStep(t) == Birth(t) \/ Forget(t)

ResumeStep(t) ==
    AbortResume(t) \/ BindResume(t) \/ BindResumeFails(t) \/ ReleaseResume(t)

SessionStep(s) ==
    \/ ReopenReads(s) \/ Reopened(s) \/ SessionBorn(s) \/ OpenFails(s)
    \/ CloseSession(s) \/ Stopped(s) \/ CompleteReads(s) \/ Completed(s)

Next ==
    \/ \E g \in Runtimes : RuntimeStep(g)
    \/ LeaseStep
    \/ WorkerStep
    \/ \E t \in Terminals : TerminalStep(t)
    \/ \E t \in Resumes : ResumeStep(t)
    \/ \E s \in Sessions : SessionStep(s)
    \/ \E p \in Processes : Exit(p) \/ Works(p)

Spec == Init /\ [][Next]_vars

-----------------------------------------------------------------------------
(* Properties. *)

\* A directory goes only when no process lives in it and nothing in it differs
\* from the base it was made from, whatever crashed, failed or came late
\* (remove_terminal, Records::release, recover_terminal, reserve_resume).
RemovedOnlyWhenVacant ==
    [][disk # "none" /\ disk' = "none" => live = {} /\ work = "none"]_vars

\* A worker's worktree never holds two running terminals, of one Runtime or of
\* two (reserve_resume's owner_ended and the lease held through birth).
OneOccupant == \A t, u \in Terminals \cap live : t = u

\* What is on the disk is always accounted for by a row that a later release or
\* sweep will find (prepare's first save, the order of removal and save).
NothingUnowned == disk # "none" => row.state \notin {"absent", "released"}

\* A recorded completion is true: the generation's processes have all ended, and
\* a session recorded as closed is not running (complete_session, reopen_session,
\* registry::complete).
ProofsAreTrue ==
    /\ \A p \in live : /\ row.done => occ[p].rt # row.rt
                       /\ row.resume.done => occ[p].rt # row.resume.rt
    /\ row.closed => row.sess \notin live

\* The row accounts for what is on the disk and for who has ended.
RowIsTrue == NothingUnowned /\ ProofsAreTrue

\* A running terminal is one its row still tells of: a later Runtime finds it
\* there however its binding went (ResumeReservation, release_resume).
OccupantIsRecorded ==
    \A t \in Terminals \cap live :
        /\ row.state \notin {"absent", "released"}
        /\ t \in Resumes => row.resume.t = t

\* Whoever runs in the worktree is alone there and can be found by its row.
OccupancyIsTrue == OneOccupant /\ OccupantIsRecorded

=============================================================================
