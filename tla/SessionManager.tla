---------------------------- MODULE SessionManager ----------------------------
(***************************************************************************)
(* The single owner of the live sessions                                   *)
(* (crates/runtrol-core/src/session/manager.rs) and the tasks that ask it  *)
(* for process slots, agents and exclusions                                *)
(* (crates/runtrol-daemon/src/serve.rs, dispatch.rs).                      *)
(*                                                                         *)
(* Provider processes are opened, used and closed by the tasks, outside    *)
(* the owner, so a slot, an agent or an exclusion is handed out as a token *)
(* <<kind, who, generation>> that the task gives back in a message, also   *)
(* when it is dropped half-way.  The owner's channels are unordered here:  *)
(* requests go to one channel, attachments to a second and returned agents *)
(* to a third, and the owner takes them in any order.                      *)
(*                                                                         *)
(* A session belongs to one provider and one working tree for its whole    *)
(* life, so both are functions of the session and the owner's copies of    *)
(* them are not repeated in its state.                                     *)
(***************************************************************************)
EXTENDS Integers, FiniteSets

CONSTANTS Sessions,        \* session identifiers
          Providers,       \* installed CLIs
          Tasks,           \* connections, and the cleanup they leave behind
          None,            \* no entry, no session, no provider
          ProviderOf,      \* the CLI a session runs
          Beside,          \* pairs of sessions whose working trees overlap
          Asks,            \* the kinds of request the tasks make
          Accesses,        \* the workspace access an open asks for
          MaxHot,          \* MAX_HOT: process slots
          MaxGeneration    \* bound: the last generation, u64::MAX in the code

Live == [agent : BOOLEAN, life : {"Idle", "Busy", "Detached"}]
Held == [gen : Nat, state : {"Opening", "Closing", "ReleasingWorkspace"}]

ASSUME ManagerAssumption ==
    /\ IsFiniteSet(Sessions) /\ IsFiniteSet(Tasks)
    /\ None \notin Sessions \cup Providers \cup Nat \cup Live \cup Held
    /\ Sessions \cap Providers = {}
    /\ ProviderOf \in [Sessions -> Providers]
    /\ \A s, o \in Sessions : /\ <<s, s>> \in Beside
                              /\ <<s, o>> \in Beside => <<o, s>> \in Beside
    /\ Asks \subseteq {"open", "close", "send", "clean", "update"}
    /\ Accesses \subseteq {"Exclusive", "Shared"}
    /\ MaxHot \in Nat \ {0}
    /\ MaxGeneration \in Nat \ {0}

VARIABLES
    live,        \* SessionManager.live: is the agent here, and the lifecycle
    opening,     \* SessionManager.opening: generation and state of a hold
    inFlight,    \* SessionManager.in_flight: lease of an agent that is out
    updating,    \* SessionManager.updating_providers: generation of the lease
    nextReservation, nextLease,
    task,        \* per task: what it does and what it holds
    mail,        \* tokens given back and not yet seen by the owner
    working      \* history: sessions with a prompt accepted and not ended

vars == <<live, opening, inFlight, updating, nextReservation, nextLease,
          task, mail, working>>

LiveKeys == {s \in Sessions : live[s] # None}
OpeningKeys == {s \in Sessions : opening[s] # None}

Occupied == Cardinality(LiveKeys) + Cardinality(OpeningKeys)
Overlaps(s, o) == <<s, o>> \in Beside

-----------------------------------------------------------------------------
(* Tokens: the messages that end a hold, a lease or an exclusion.           *)
Token == [kind : {"CancelOpen", "ReleaseClosing", "Abandoned", "ReleaseUpdate"},
          who : Sessions \cup Providers, gen : Nat]

CancelOpen(s, g) == [kind |-> "CancelOpen", who |-> s, gen |-> g]
ReleaseClosing(s, g) == [kind |-> "ReleaseClosing", who |-> s, gen |-> g]
Abandoned(s, g) == [kind |-> "Abandoned", who |-> s, gen |-> g]
ReleaseUpdate(p, g) == [kind |-> "ReleaseUpdate", who |-> p, gen |-> g]

(* What a task does.  Waiting for the owner: asking*, attaching, failing,   *)
(* returning.  Holding a slot: evicting, opening, cleaning, stopping,       *)
(* removing.  Holding a lease: sending; an exclusion: updating.             *)
OpenPhases == {"evicting", "opening", "attaching", "failing", "cleaning",
               "removing"}
AskPhases == {"askOpen", "askClose", "askSend", "askClean", "askUpdate"}
Phases == {"idle", "stopping", "sending", "returning", "updating"}
          \cup OpenPhases \cup AskPhases

Task == [at : Phases, session : Sessions \cup {None}, gen : Nat,
         provider : Providers \cup {None}, victim : Sessions \cup {None},
         vgen : Nat, access : {"Exclusive", "Shared"}, gone : BOOLEAN]

Idle == [at |-> "idle", session |-> None, gen |-> 0, provider |-> None,
         victim |-> None, vgen |-> 0, access |-> "Shared", gone |-> FALSE]

\* Mutant: the displaced session's guard outlives the eviction.
CarriesVictimOn(t) ==
    LET k == task[t] IN
    (IF k.at \in OpenPhases THEN {CancelOpen(k.session, k.gen)} ELSE {})
    \cup (IF k.at \in {"evicting", "opening"}
            THEN {ReleaseClosing(k.victim, k.vgen)} ELSE {})
    \cup (IF k.at = "stopping" THEN {ReleaseClosing(k.session, k.gen)} ELSE {})
    \cup (IF k.at \in {"sending", "returning"}
            THEN {Abandoned(k.session, k.gen)} ELSE {})
    \cup (IF k.at = "updating" THEN {ReleaseUpdate(k.provider, k.gen)} ELSE {})

\* The guards a task owns: what their Drop sends when the task ends.
Carries(t) ==
    LET k == task[t] IN
    (IF k.at \in OpenPhases THEN {CancelOpen(k.session, k.gen)} ELSE {})
    \cup (IF k.at = "evicting" THEN {ReleaseClosing(k.victim, k.vgen)} ELSE {})
    \cup (IF k.at = "stopping" THEN {ReleaseClosing(k.session, k.gen)} ELSE {})
    \cup (IF k.at \in {"sending", "returning"}
            THEN {Abandoned(k.session, k.gen)} ELSE {})
    \cup (IF k.at = "updating" THEN {ReleaseUpdate(k.provider, k.gen)} ELSE {})

Become(t, k) == task' = [task EXCEPT ![t] = k]
Rest(t) == Become(t, Idle)
Holding(t, at, g) == Become(t, [task[t] EXCEPT !.at = at, !.gen = g])

Init ==
    /\ live = [s \in Sessions |-> None]
    /\ opening = [s \in Sessions |-> None]
    /\ inFlight = [s \in Sessions |-> None]
    /\ updating = [p \in Providers |-> None]
    /\ nextReservation = 0 /\ nextLease = 0
    /\ task = [t \in Tasks |-> Idle]
    /\ mail = {}
    /\ working = {}

keys == <<live, opening, inFlight, updating, nextReservation, nextLease>>

-----------------------------------------------------------------------------
(* Requests.                                                               *)
Ask(t, at, kind, s, p, a) ==
    /\ kind \in Asks
    /\ task[t] = Idle
    /\ Become(t, [Idle EXCEPT !.at = at, !.session = s, !.provider = p,
                              !.access = a])
    /\ UNCHANGED <<keys, mail, working>>

AskOpen(t) == \E s \in Sessions, a \in Accesses :
                  Ask(t, "askOpen", "open", s, None, a)
AskClose(t) == \E s \in Sessions : Ask(t, "askClose", "close", s, None, "Shared")
AskSend(t) == \E s \in Sessions : Ask(t, "askSend", "send", s, None, "Shared")
AskClean(t) == \E s \in Sessions : Ask(t, "askClean", "clean", s, None, "Shared")
AskUpdate(t) == \E p \in Providers :
                    Ask(t, "askUpdate", "update", None, p, "Shared")

(* The task is dropped.  One that waits for the owner leaves its request    *)
(* behind; file removal runs on and keeps its guard; every other task drops *)
(* its process and then its guards.                                        *)
HangUp(t) ==
    /\ task[t].at # "idle" /\ ~task[t].gone
    /\ IF task[t].at \in AskPhases \cup {"attaching", "failing", "returning",
                                         "removing"}
         THEN /\ Become(t, [task[t] EXCEPT !.gone = TRUE])
              /\ UNCHANGED mail
         ELSE Rest(t) /\ mail' = mail \cup Carries(t)
    /\ UNCHANGED <<keys, working>>

-----------------------------------------------------------------------------
(* Reserving a slot.                                                       *)
\* Mutant: only live sessions own a tree.
WorkspaceConflictLive(s) == \E o \in LiveKeys : Overlaps(s, o)

WorkspaceConflict(s) ==
    \E o \in LiveKeys \cup OpeningKeys : Overlaps(s, o)

\* Mutant: a session that is still closing may open again.
RefusesOpenLive(s, access) ==
    \/ updating[ProviderOf[s]] # None
    \/ s \in LiveKeys
    \/ access = "Exclusive" /\ WorkspaceConflict(s)
    \/ \E o \in OpeningKeys : /\ opening[o].state = "ReleasingWorkspace"
                              /\ Overlaps(s, o)

\* Mutant: a shared open does not look at trees being removed.
RefusesOpenShared(s, access) ==
    \/ updating[ProviderOf[s]] # None
    \/ s \in LiveKeys \cup OpeningKeys
    \/ access = "Exclusive" /\ WorkspaceConflict(s)

RefusesOpen(s, access) ==
    \/ updating[ProviderOf[s]] # None
    \/ s \in LiveKeys \cup OpeningKeys
    \/ access = "Exclusive" /\ WorkspaceConflict(s)
    \/ \E o \in OpeningKeys : /\ opening[o].state = "ReleasingWorkspace"
                              /\ Overlaps(s, o)

(* tier::admit: the sessions without a running turn.  The code takes the    *)
(* one with the oldest wall-clock stamp; stamps may repeat or step back, so *)
(* here it is any of them.                                                 *)
MayGiveWay == {v \in LiveKeys : live[v].agent /\ live[v].life # "Busy"}

OpenHold(g) == [gen |-> g, state |-> "Opening"]
ClosingHold(g) == [gen |-> g, state |-> "Closing"]

AdmitStraight(t) ==
    /\ Occupied < MaxHot /\ nextReservation < MaxGeneration
    /\ nextReservation' = nextReservation + 1
    /\ IF task[t].gone
         THEN Rest(t) /\ UNCHANGED opening
         ELSE /\ Holding(t, "opening", nextReservation)
              /\ opening' = [opening EXCEPT
                                ![task[t].session] = OpenHold(nextReservation)]
    /\ UNCHANGED <<live, working>>

\* Without a caller the victim is still closed before its two slots are freed.
AdmitEvicting(t) == \E v \in MayGiveWay :
    /\ Cardinality(LiveKeys) >= MaxHot /\ nextReservation + 1 < MaxGeneration
    /\ nextReservation' = nextReservation + 2
    /\ opening' = [opening EXCEPT
                      ![task[t].session] = OpenHold(nextReservation),
                      ![v] = ClosingHold(nextReservation + 1)]
    /\ live' = [live EXCEPT ![v] = None]
    /\ working' = working \ {v}
    /\ Become(t, [task[t] EXCEPT !.at = "evicting", !.gen = nextReservation,
                                 !.victim = v, !.vgen = nextReservation + 1])

(* Refused: OpeningCapacityReserved, NoRoom, or generations used up (which  *)
(* may happen between the two an eviction takes).                          *)
RefuseRoom(t) ==
    /\ \/ /\ Occupied >= MaxHot
          /\ Cardinality(LiveKeys) < MaxHot \/ MayGiveWay = {}
          /\ UNCHANGED nextReservation
       \/ /\ nextReservation = MaxGeneration
          /\ UNCHANGED nextReservation
       \/ /\ Cardinality(LiveKeys) >= MaxHot
          /\ MayGiveWay # {} /\ nextReservation + 1 = MaxGeneration
          /\ nextReservation' = MaxGeneration
    /\ Rest(t)
    /\ UNCHANGED <<live, opening, working>>

ReserveOpen(t) ==
    /\ task[t].at = "askOpen"
    /\ IF RefusesOpen(task[t].session, task[t].access)
         THEN /\ Rest(t)
              /\ UNCHANGED <<live, opening, nextReservation, working>>
         ELSE AdmitStraight(t) \/ AdmitEvicting(t) \/ RefuseRoom(t)
    /\ UNCHANGED <<inFlight, updating, nextLease, mail>>

(* A hold on a working tree whose files are about to be removed; the code   *)
(* makes up a session identifier for it, the model takes one of that tree.  *)
ReserveWorkspaceCleanup(t) ==
    LET s == task[t].session IN
    /\ task[t].at = "askClean"
    /\ IF \/ Occupied >= MaxHot
          \/ WorkspaceConflict(s)
          \/ nextReservation = MaxGeneration
         THEN Rest(t) /\ UNCHANGED <<opening, nextReservation>>
         ELSE /\ nextReservation' = nextReservation + 1
              /\ IF task[t].gone
                   THEN Rest(t) /\ UNCHANGED opening
                   ELSE /\ Holding(t, "removing", nextReservation)
                        /\ opening' = [opening EXCEPT ![s] =
                             [gen |-> nextReservation,
                              state |-> "ReleasingWorkspace"]]
    /\ UNCHANGED <<live, inFlight, updating, nextLease, mail, working>>

ReserveProviderUpdate(t) ==
    LET p == task[t].provider IN
    /\ task[t].at = "askUpdate"
    /\ IF \/ updating[p] # None
          \/ \E s \in LiveKeys : ProviderOf[s] = p
          \/ \E s \in OpeningKeys : /\ opening[s].state # "ReleasingWorkspace"
                                    /\ ProviderOf[s] = p
          \/ nextReservation = MaxGeneration
         THEN Rest(t) /\ UNCHANGED <<updating, nextReservation>>
         ELSE /\ nextReservation' = nextReservation + 1
              /\ IF task[t].gone
                   THEN Rest(t) /\ UNCHANGED updating
                   ELSE /\ Holding(t, "updating", nextReservation)
                        /\ updating' = [updating EXCEPT ![p] = nextReservation]
    /\ UNCHANGED <<live, opening, inFlight, nextLease, mail, working>>

-----------------------------------------------------------------------------
(* Mutant: when the displaced process cannot be stopped, the refusal        *)
(* forgets the slot of the session that was to be opened.                  *)
VictimClosedKeepingSlot(t) ==
    /\ task[t].at = "evicting"
    /\ mail' = mail \cup {ReleaseClosing(task[t].victim, task[t].vgen)}
    /\ \/ /\ ~task[t].gone
          /\ Become(t, [task[t] EXCEPT !.at = "opening", !.victim = None,
                                       !.vgen = 0])
       \/ Rest(t)
    /\ UNCHANGED <<keys, working>>

(* Opening.  A displaced process is stopped first; if that fails, or nobody *)
(* waits any more, both slots go back.                                     *)
VictimClosed(t) ==
    /\ task[t].at = "evicting"
    /\ \/ /\ ~task[t].gone
          /\ mail' = mail \cup {ReleaseClosing(task[t].victim, task[t].vgen)}
          /\ Become(t, [task[t] EXCEPT !.at = "opening", !.victim = None,
                                       !.vgen = 0])
       \/ mail' = mail \cup Carries(t) /\ Rest(t)
    /\ UNCHANGED <<keys, working>>

\* The driver opened its process, or did not; the ask carries the guard along.
DriverOpened(t) ==
    /\ task[t].at = "opening"
    /\ \E at \in {"attaching", "failing"} : Holding(t, at, task[t].gen)
    /\ UNCHANGED <<keys, mail, working>>

Matches(s, g, state) ==
    s \in OpeningKeys /\ opening[s].gen = g /\ opening[s].state = state

Released(s) == [opening EXCEPT ![s] = None]

(* attach_opened, and the session's stored row: when the row cannot be      *)
(* written the session is closed again in the same step.  A driver that     *)
(* answers for another session, provider or directory is refused.           *)
AttachOpened(t) ==
    LET s == task[t].session
        g == task[t].gen
        attached == [live EXCEPT ![s] = [agent |-> TRUE, life |-> "Idle"]] IN
    /\ task[t].at = "attaching"
    /\ \/ /\ Matches(s, g, "Opening") /\ s \notin LiveKeys
          /\ \/ /\ live' = attached
                /\ opening' = Released(s)
                /\ Rest(t)
                /\ UNCHANGED nextReservation
             \/ /\ nextReservation < MaxGeneration
                /\ opening' = [opening EXCEPT ![s] = ClosingHold(nextReservation)]
                /\ nextReservation' = nextReservation + 1
                /\ Holding(t, "stopping", nextReservation)
                /\ UNCHANGED live
       \/ /\ Holding(t, "cleaning", g)
          /\ UNCHANGED <<live, opening, nextReservation>>
    /\ UNCHANGED <<inFlight, updating, nextLease, mail, working>>

OpenFailed(t) ==
    /\ task[t].at = "failing"
    /\ opening' = IF Matches(task[t].session, task[t].gen, "Opening")
                    THEN Released(task[t].session) ELSE opening
    /\ Rest(t)
    /\ UNCHANGED <<live, inFlight, updating, nextReservation, nextLease, mail,
                   working>>

-----------------------------------------------------------------------------
(* Commands: the agent leaves the owner for as long as the driver writes.   *)
TakeAgent(t) ==
    LET s == task[t].session IN
    /\ task[t].at = "askSend"
    /\ IF s \notin LiveKeys \/ ~live[s].agent \/ nextLease = MaxGeneration
         THEN Rest(t) /\ UNCHANGED <<live, inFlight, nextLease, working>>
         ELSE /\ nextLease' = nextLease + 1
              /\ IF task[t].gone
                   THEN /\ live' = [live EXCEPT ![s] = None]
                        /\ working' = working \ {s}
                        /\ Rest(t)
                        /\ UNCHANGED inFlight
                   ELSE /\ live' = [live EXCEPT ![s].agent = FALSE]
                        /\ inFlight' = [inFlight EXCEPT ![s] = nextLease]
                        /\ Holding(t, "sending", nextLease)
                        /\ UNCHANGED working
    /\ UNCHANGED <<opening, updating, nextReservation, mail>>

\* The provider took the command: a prompt, which is work, or something else.
Sent(t) ==
    /\ task[t].at = "sending"
    /\ Holding(t, "returning", task[t].gen)
    /\ \/ working' = working \cup {task[t].session}
       \/ UNCHANGED working
    /\ UNCHANGED <<keys, mail>>

ReturnAgent(t) ==
    LET s == task[t].session IN
    /\ task[t].at = "returning"
    /\ IF inFlight[s] # task[t].gen
         THEN UNCHANGED <<live, inFlight, working>>
         ELSE IF s \notin LiveKeys
                THEN /\ inFlight' = [inFlight EXCEPT ![s] = None]
                     /\ UNCHANGED <<live, working>>
                ELSE /\ live' = [live EXCEPT ![s].agent = TRUE]
                     /\ inFlight' = [inFlight EXCEPT ![s] = None]
                     /\ UNCHANGED working
    /\ Rest(t)
    /\ UNCHANGED <<opening, updating, nextReservation, nextLease, mail>>

-----------------------------------------------------------------------------
(* Closing on request, also in the middle of a turn.                       *)
Close(t) ==
    LET s == task[t].session IN
    /\ task[t].at = "askClose"
    /\ IF s \notin LiveKeys \/ ~live[s].agent \/ nextReservation = MaxGeneration
         THEN /\ Rest(t)
              /\ UNCHANGED <<live, opening, nextReservation, working>>
         ELSE /\ nextReservation' = nextReservation + 1
              /\ live' = [live EXCEPT ![s] = None]
              /\ working' = working \ {s}
              /\ opening' = [opening EXCEPT ![s] = ClosingHold(nextReservation)]
              /\ Holding(t, "stopping", nextReservation)
    /\ UNCHANGED <<inFlight, updating, nextLease, mail>>

\* The process has stopped, the files are removed or the update is over.
Finished(t) ==
    /\ task[t].at \in {"stopping", "cleaning", "removing", "updating"}
    /\ mail' = mail \cup Carries(t)
    /\ Rest(t)
    /\ UNCHANGED <<keys, working>>

-----------------------------------------------------------------------------
(* The owner hears of tokens given back.  Each ends exactly the hold or     *)
(* lease of its generation.                                                *)
HearCancelOpen(k) ==
    /\ opening' = IF \/ Matches(k.who, k.gen, "Opening")
                     \/ Matches(k.who, k.gen, "ReleasingWorkspace")
                    THEN Released(k.who) ELSE opening
    /\ UNCHANGED <<live, inFlight, updating, working>>

\* Mutant: the release looks for the wrong state.
HearReleaseOpening(k) ==
    /\ opening' = IF Matches(k.who, k.gen, "Opening")
                    THEN Released(k.who) ELSE opening
    /\ UNCHANGED <<live, inFlight, updating, working>>

HearReleaseClosing(k) ==
    /\ opening' = IF Matches(k.who, k.gen, "Closing")
                    THEN Released(k.who) ELSE opening
    /\ UNCHANGED <<live, inFlight, updating, working>>

HearAbandoned(k) ==
    /\ IF inFlight[k.who] = k.gen
         THEN /\ inFlight' = [inFlight EXCEPT ![k.who] = None]
              /\ live' = [live EXCEPT ![k.who] = None]
              /\ working' = working \ {k.who}
         ELSE UNCHANGED <<live, inFlight, working>>
    /\ UNCHANGED <<opening, updating>>

HearReleaseUpdate(k) ==
    /\ updating' = IF updating[k.who] = k.gen
                     THEN [updating EXCEPT ![k.who] = None] ELSE updating
    /\ UNCHANGED <<live, opening, inFlight, working>>

Hear(k) ==
    /\ k \in mail
    /\ mail' = mail \ {k}
    /\ \/ k.kind = "CancelOpen" /\ HearCancelOpen(k)
       \/ k.kind = "ReleaseClosing" /\ HearReleaseClosing(k)
       \/ k.kind = "Abandoned" /\ HearAbandoned(k)
       \/ k.kind = "ReleaseUpdate" /\ HearReleaseUpdate(k)
    /\ UNCHANGED <<nextReservation, nextLease, task>>

HearAbout(w) == \E k \in mail : k.who = w /\ Hear(k)

-----------------------------------------------------------------------------
(* pump_any: an event of a session whose agent is here.  Refused            *)
(* observations (another turn's end, a second start) change nothing.        *)
Pump(s, from, to) ==
    /\ s \in LiveKeys /\ live[s].agent /\ live[s].life \in from
    /\ live' = [live EXCEPT ![s].life = to]
    /\ UNCHANGED <<opening, inFlight, updating, nextReservation, nextLease,
                   task, mail>>

TurnStarted(s) == Pump(s, {"Idle"}, "Busy") /\ UNCHANGED working
TurnEnded(s) == Pump(s, {"Busy"}, "Idle") /\ working' = working \ {s}
DetachedSaid(s) == Pump(s, {"Idle", "Busy"}, "Detached") /\ UNCHANGED working

\* The stream failed or ended: the session and its agent are dropped.
StreamOver(s) ==
    /\ s \in LiveKeys /\ live[s].agent
    /\ live' = [live EXCEPT ![s] = None]
    /\ working' = working \ {s}
    /\ UNCHANGED <<opening, inFlight, updating, nextReservation, nextLease,
                   task, mail>>

-----------------------------------------------------------------------------
Client(t) == AskOpen(t) \/ AskClose(t) \/ AskSend(t) \/ AskClean(t)
             \/ AskUpdate(t) \/ HangUp(t)
Owner(t) == \/ ReserveOpen(t) \/ ReserveWorkspaceCleanup(t)
            \/ ReserveProviderUpdate(t) \/ AttachOpened(t) \/ OpenFailed(t)
            \/ TakeAgent(t) \/ ReturnAgent(t) \/ Close(t)
Worker(t) == VictimClosed(t) \/ DriverOpened(t) \/ Sent(t) \/ Finished(t)
Speaks(s) == TurnStarted(s) \/ TurnEnded(s) \/ DetachedSaid(s) \/ StreamOver(s)

Next ==
    \/ \E t \in Tasks : Client(t) \/ Owner(t) \/ Worker(t)
    \/ \E w \in Sessions \cup Providers : HearAbout(w)
    \/ \E s \in Sessions : Speaks(s)

(* The owner's select takes every ready arm in the end, and stopping a      *)
(* process is bounded by its grace and a kill.  Nothing obliges a driver to *)
(* open or to take a command, a removal to finish, or anyone to ask.        *)
Fairness ==
    /\ \A t \in Tasks : /\ WF_vars(Owner(t))
                        /\ WF_vars(VictimClosed(t))
                        /\ WF_vars(task[t].at \in {"stopping", "cleaning"}
                                     /\ Finished(t))
    /\ \A w \in Sessions \cup Providers : WF_vars(HearAbout(w))

Spec == Init /\ [][Next]_vars /\ Fairness
-----------------------------------------------------------------------------
(* Properties.                                                             *)

(* Every variable has its type.                                            *)
TypeOK ==
    /\ live \in [Sessions -> Live \cup {None}]
    /\ opening \in [Sessions -> Held \cup {None}]
    /\ inFlight \in [Sessions -> Nat \cup {None}]
    /\ updating \in [Providers -> Nat \cup {None}]
    /\ nextReservation \in Nat /\ nextLease \in Nat
    /\ task \in [Tasks -> Task]
    /\ mail \subseteq Token
    /\ working \subseteq Sessions

(* A session identifier is in one map only.                                *)
KeysApart == LiveKeys \cap OpeningKeys = {}

\* What the owner has handed out and has not been told the end of.
HandedOut ==
    {CancelOpen(s, opening[s].gen) :
        s \in {o \in OpeningKeys : opening[o].state # "Closing"}}
    \cup {ReleaseClosing(s, opening[s].gen) :
        s \in {o \in OpeningKeys : opening[o].state = "Closing"}}
    \cup {Abandoned(s, inFlight[s]) : s \in {o \in Sessions : inFlight[o] # None}}
    \cup {ReleaseUpdate(p, updating[p]) :
        p \in {q \in Providers : updating[q] # None}}

(* No hold, lease or exclusion is orphaned and none is given back late or   *)
(* twice: what the owner has handed out is exactly what the tasks carry and *)
(* the channels hold, each of it in one place (the guards of serve.rs).     *)
GuardsAreExact ==
    /\ HandedOut = mail \cup UNION {Carries(t) : t \in Tasks}
    /\ \A t \in Tasks : Carries(t) \cap mail = {}
    /\ \A t, u \in Tasks : t # u => Carries(t) \cap Carries(u) = {}

(* An agent is out of the owner's map exactly while its lease is recorded.  *)
LeaseMatchesAgent ==
    \A s \in Sessions : inFlight[s] # None <=> s \in LiveKeys /\ ~live[s].agent

(* What the owner has lent and what is out agree, for holds and for agents. *)
HoldsAreExact == GuardsAreExact /\ LeaseMatchesAgent

\* The processes: with the owner, or with a task.
WithOwner == {s \in LiveKeys : live[s].agent}
AtWork == {t \in Tasks : task[t].at \in {"evicting", "opening", "attaching",
                                          "cleaning", "stopping", "sending",
                                          "returning"}}
ProcessOf(t) == IF task[t].at = "evicting" THEN task[t].victim ELSE task[t].session
ProcessSessions == WithOwner \cup {ProcessOf(t) : t \in AtWork}

(* "the real process count never exceeds MAX_HOT" (manager.rs): counting    *)
(* every process a task is opening, using or stopping, while attachments    *)
(* overtake releases.                                                      *)
ProcessesBounded == Cardinality(WithOwner) + Cardinality(AtWork) <= MaxHot

(* A conversation never runs in two processes: a session is not opened      *)
(* again before the process of its last incarnation is gone.               *)
OneProcessEach ==
    /\ \A t \in AtWork : ProcessOf(t) \notin WithOwner
    /\ \A t, u \in AtWork : ProcessOf(t) = ProcessOf(u) => t = u

(* No process is one too many: not in the machine, not in a conversation.   *)
ProcessesAreExact == ProcessesBounded /\ OneProcessEach

(* While a CLI's files are replaced no process of it exists anywhere, not   *)
(* even one that is being stopped.                                         *)
UpdateAlone ==
    \A t \in Tasks : task[t].at = "updating" =>
        \A s \in ProcessSessions : ProviderOf[s] # task[t].provider

(* While a working tree is removed no process works in it.                  *)
RemovalAlone ==
    \A t \in Tasks : task[t].at = "removing" =>
        \A s \in ProcessSessions : ~Overlaps(task[t].session, s)

(* Neither an update nor a removal ever meets a process.                   *)
ChangesRunAlone == UpdateAlone /\ RemovalAlone

(* A session admitted as the only writer finds no process in its tree, with *)
(* the owner or with any task ("Refuse when another opening, live, or       *)
(* closing process owns the same working tree", path.rs).                  *)
WriterAlone ==
    [][\A t \in Tasks :
          /\ task[t].at = "askOpen" /\ task[t].access = "Exclusive"
          /\ task'[t].at \in {"opening", "evicting"}
          => \A s \in ProcessSessions : ~Overlaps(task[t].session, s)]_vars

\* Nobody will use the hold of s any more.
GivenUp(s) ==
    /\ s \in OpeningKeys
    /\ \/ opening[s].state = "Closing"
       \/ CancelOpen(s, opening[s].gen) \in mail
       \/ \E t \in Tasks : /\ CancelOpen(s, opening[s].gen) \in Carries(t)
                           /\ task[t].gone /\ task[t].at # "removing"

(* Every slot nobody will use comes back, whoever was dropped and when.     *)
SlotsComeBack == \A s \in Sessions : GivenUp(s) ~> ~GivenUp(s)

(* Whoever waits for the owner is answered.                                *)
OwnerAnswers ==
    \A t \in Tasks : task[t].at \in AskPhases \cup {"attaching", "returning"}
        ~> task[t].at \notin AskPhases \cup {"attaching", "returning"}

(* Nobody waits for ever, neither for a slot nor for the owner.             *)
EveryWaitEnds == SlotsComeBack /\ OwnerAnswers

(* "A session with a turn running is never evicted" (tier.rs, and           *)
(* docs/coreRuntime.md): a session that gives way has no prompt its         *)
(* provider took and has not finished.                                     *)
WorkIsNotEvicted ==
    [][\A t \in Tasks :
          task[t].at = "askOpen" /\ task'[t].at = "evicting"
          => task'[t].victim \notin working]_vars
=============================================================================
