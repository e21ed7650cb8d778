----------------------------- MODULE RuntimeControl -----------------------------
(***************************************************************************)
(* Public control of sessions (crates/runtrol-daemon/src/runtime_control.rs): *)
(* leases of control, and mutations that an integration may ask for again   *)
(* under the same identifier, recorded in a ledger that outlives the daemon *)
(* (crates/runtrol-store/src/integration_mutations.rs).                    *)
(*                                                                         *)
(* The owner answers one request in one step; a daemon may die between the  *)
(* two writes of such a step.  A connection carries a command to a process  *)
(* outside the owner and reports back, or is dropped on the way.  What the  *)
(* owner does not answer with a recorded outcome leaves no trace but the    *)
(* purge and is not an action of its own.                                  *)
(***************************************************************************)
EXTENDS Integers, FiniteSets

CONSTANTS Boots,          \* runs of a daemon, each with its own boot_id
          Requests,       \* identifiers of mutations
          Integrations,   \* who mints them
          Sessions,
          Methods,        \* those asked for
          None,
          Window,         \* IDEMPOTENCY_WINDOW_MS
          Skew,           \* MUTATION_CLOCK_SKEW_MS
          Lifetime,       \* CONTROL_LEASE_LIFETIME_MS
          Rows,           \* INTEGRATION_MUTATION_MAX_ROWS
          MaxTime, MaxTokens, MaxStreams   \* bounds: clock, leases and processes

Immediate == {"acquire", "renew", "release", "forget"}
Commands == {"submit", "approve"}
Opens == {"start", "resume"}
Carried == Commands \cup Opens \cup {"cool"}

ASSUME ControlAssumption ==
    /\ IsFiniteSet(Requests)
    /\ Methods \subseteq Immediate \cup Carried
    /\ None \notin Integrations \cup Boots \cup Sessions \cup Nat
    /\ {Window, Skew, Lifetime, Rows, MaxTime, MaxTokens, MaxStreams} \subseteq Nat

VARIABLES
    now,
    who, created,   \* who minted each identifier, and the time written in it
    phase,       \* what each daemon does; the serving one holds the store
    ledger,      \* INTEGRATION_MUTATIONS
    pointers,    \* stored sessions
    memory,      \* RuntimeControl.mutations
    leases,      \* RuntimeControl.leases
    proc,        \* each session's process: SessionManager, seen from here
    flight,      \* the command of a mutation that a connection carries
    tokens, streams,   \* how many leases and processes there have been
    admitted,    \* history: when each mutation was first taken up
    applied,     \* history: how often it reached a provider
    answered,    \* history: what its provider's driver made of an open
    told         \* history: what was recorded, and so answered, of whether it did

store == <<ledger, pointers>>
ids == <<who, created>>
history == <<admitted, applied, answered, told>>
vars == <<now, ids, phase, store, memory, leases, proc, flight, tokens, streams, history>>

\* What a request asks for: the lease it presents is 0 where it needs none.
Params == {p \in [method : Methods, session : Sessions, token : 0 .. MaxTokens] :
               p.method \in {"acquire", "forget"} \cup Opens => p.token = 0}
NoRow == [boot |-> None, at |-> 0, state |-> "none"]
NoLease == [holder |-> None, token |-> 0, until |-> 0, stream |-> 0]
NoProcess == [at |-> "none", stream |-> 0, away |-> FALSE, running |-> FALSE,
              granted |-> NoLease]
NoFlight == [kind |-> "none", session |-> None, at |-> "none"]

\* How a connection carries a method.
Kind(method) == CASE method \in Commands -> "command"
                  [] method \in Opens -> "open"
                  [] OTHER -> "cool"

Init ==
    /\ now = 0
    /\ who \in [Requests -> Integrations]
    /\ created \in [Requests -> 0 .. MaxTime]
    /\ phase = [b \in Boots |-> "new"]
    /\ ledger = [r \in Requests |-> NoRow]
    /\ pointers = {}
    /\ memory = [b \in Boots |-> [r \in Requests |-> "none"]]
    /\ leases = [b \in Boots |-> [s \in Sessions |-> NoLease]]
    /\ proc = [b \in Boots |-> [s \in Sessions |-> NoProcess]]
    /\ flight = [b \in Boots |-> [r \in Requests |-> NoFlight]]
    /\ tokens = 0 /\ streams = 0
    /\ admitted = [r \in Requests |-> None]
    /\ applied = [r \in Requests |-> 0]
    /\ answered = [r \in Requests |-> {}]
    /\ told = [r \in Requests |-> {}]

-----------------------------------------------------------------------------
(* The ledger.                                                             *)
Acceptable(r) == created[r] <= now + Skew /\ now <= created[r] + Window

\* Mutant: a mutation is forgotten as soon as it is over.
PurgedWhenOver == [r \in Requests |->
    IF ledger[r].state \in {"done", "denied"} \/ ledger[r].at < now - Window
    THEN NoRow ELSE ledger[r]]

Purged == [r \in Requests |-> IF ledger[r].at < now - Window THEN NoRow ELSE ledger[r]]

\* A mutation the serving daemon has not seen and the ledger does not hold.
IsNew(b, r) ==
    /\ phase[b] = "serving"
    /\ memory[b][r] = "none"
    /\ Acceptable(r)
    /\ Purged[r] = NoRow
    /\ Cardinality({q \in Requests : Purged[q] # NoRow}) < Rows

TakenUp(r) == admitted' = [admitted EXCEPT ![r] = IF @ = None THEN now ELSE @]

\* Recorded, answered at once or still pending.
Begin(b, r, outcome) ==
    /\ IsNew(b, r)
    /\ ledger' = [Purged EXCEPT ![r] = [boot |-> b, at |-> now, state |-> outcome]]
    /\ memory' = [memory EXCEPT ![b][r] = outcome]
    /\ TakenUp(r)
    /\ told' = IF outcome = "denied" THEN [told EXCEPT ![r] = @ \cup {"denied"}] ELSE told

\* A request that is not taken up purges all the same.
PurgeAlone(b, r) ==
    /\ phase[b] = "serving" /\ memory[b][r] = "none" /\ Acceptable(r)
    /\ Purged # ledger
    /\ ledger' = Purged
    /\ UNCHANGED <<now, ids, phase, pointers, memory, leases, proc, flight,
                   tokens, streams, history>>

\* The store is released by the drain; a purged row cannot be finished.
MayFinish(b, r) ==
    /\ phase[b] = "serving"
    /\ ledger[r].boot = b /\ ledger[r].state = "pending"

\* The answer is that nobody knows.
NotFinished == UNCHANGED <<ledger, memory, told>>

Finish(b, r, outcome) ==
    IF MayFinish(b, r)
    THEN /\ ledger' = [ledger EXCEPT ![r].state = outcome]
         /\ memory' = [memory EXCEPT ![b][r] = outcome]
         /\ told' = [told EXCEPT ![r] = @ \cup {outcome}]
    ELSE NotFinished

-----------------------------------------------------------------------------
(* Leases.                                                                 *)
Live(b, s) == proc[b][s].at = "live"

LeaseOk(b, r, p) ==
    LET lease == leases[b][p.session] IN
    /\ lease # NoLease /\ now <= lease.until
    /\ lease.holder = who[r] /\ lease.token = p.token
    /\ Live(b, p.session) /\ lease.stream = proc[b][p.session].stream

Acquired(b, s, i) == [holder |-> i, token |-> tokens + 1, until |-> now + Lifetime,
                      stream |-> proc[b][s].stream]

\* Mutant: a renewal adds to what is left.
RenewedOnTop(b, s) ==
    [leases[b][s] EXCEPT !.token = tokens + 1, !.until = @ + Lifetime]

Renewed(b, s) == [leases[b][s] EXCEPT !.token = tokens + 1, !.until = now + Lifetime]

Grant(b, s, lease) ==
    /\ tokens < MaxTokens
    /\ tokens' = tokens + 1
    /\ leases' = [leases EXCEPT ![b][s] = lease]
    /\ proc' = [proc EXCEPT ![b][s].granted = lease]

\* Mutant: a lapsed lease is anybody's, whatever its process is doing.
LapsedIsFree(b, s, i) == leases[b][s] = NoLease \/ leases[b][s].until < now

Acquirable(b, s, i) ==
    LET lease == leases[b][s] IN
    \/ lease = NoLease
    \/ lease.until < now /\ (proc[b][s].running => lease.holder = i)

Acquire(b, r, p) ==
    /\ p.method = "acquire"
    /\ Live(b, p.session) /\ Acquirable(b, p.session, who[r])
    /\ Begin(b, r, "done")
    /\ Grant(b, p.session, Acquired(b, p.session, who[r]))
    /\ UNCHANGED <<now, ids, phase, pointers, flight, streams, applied, answered>>

Renew(b, r, p) ==
    /\ p.method = "renew"
    /\ LeaseOk(b, r, p)
    /\ Begin(b, r, "done")
    /\ Grant(b, p.session, Renewed(b, p.session))
    /\ UNCHANGED <<now, ids, phase, pointers, flight, streams, applied, answered>>

\* Mutant: a release is recorded and the lease is left in force.
ReleaseInName(b, r, p) ==
    /\ p.method = "release"
    /\ LeaseOk(b, r, p)
    /\ Begin(b, r, "done")
    /\ proc' = [proc EXCEPT ![b][p.session].granted = NoLease]
    /\ UNCHANGED <<now, ids, phase, pointers, leases, flight, tokens, streams, applied,
                   answered>>

Release(b, r, p) ==
    /\ p.method = "release"
    /\ LeaseOk(b, r, p)
    /\ Begin(b, r, "done")
    /\ leases' = [leases EXCEPT ![b][p.session] = NoLease]
    /\ proc' = [proc EXCEPT ![b][p.session].granted = NoLease]
    /\ UNCHANGED <<now, ids, phase, pointers, flight, tokens, streams, applied, answered>>

Forget(b, r, p) ==
    /\ p.method = "forget"
    /\ ~Live(b, p.session)
    /\ Begin(b, r, "done")
    /\ pointers' = pointers \ {p.session}
    /\ leases' = [leases EXCEPT ![b][p.session] = NoLease]
    /\ UNCHANGED <<now, ids, phase, proc, flight, tokens, streams, applied, answered>>

-----------------------------------------------------------------------------
(* What a connection carries outside the owner.                            *)
Launch(b, r, p) == flight' = [flight EXCEPT ![b][r] =
    [kind |-> Kind(p.method), session |-> p.session, at |-> "taken"]]

\* submit, submit_blocks, set_model, set_mode, interrupt; respond_approval
TakeAgent(b, r, p) ==
    /\ p.method \in Commands
    /\ LeaseOk(b, r, p) /\ ~proc[b][p.session].away
    /\ Begin(b, r, "pending")
    /\ proc' = [proc EXCEPT ![b][p.session].away = TRUE]
    /\ Launch(b, r, p)
    /\ UNCHANGED <<now, ids, phase, pointers, leases, tokens, streams, applied, answered>>

Cool(b, r, p) ==
    /\ p.method = "cool"
    /\ LeaseOk(b, r, p) /\ ~proc[b][p.session].away /\ ~proc[b][p.session].running
    /\ Begin(b, r, "pending")
    /\ proc' = [proc EXCEPT ![b][p.session] = [NoProcess EXCEPT !.at = "closing"]]
    /\ leases' = [leases EXCEPT ![b][p.session] = NoLease]
    /\ Launch(b, r, p)
    /\ UNCHANGED <<now, ids, phase, pointers, tokens, streams, applied, answered>>

PrepareOpen(b, r, p) ==
    /\ p.method \in Opens
    /\ p.method = "resume" <=> p.session \in pointers
    /\ proc[b][p.session] = NoProcess
    /\ Begin(b, r, "pending")
    /\ proc' = [proc EXCEPT ![b][p.session].at = "opening"]
    /\ Launch(b, r, p)
    /\ UNCHANGED <<now, ids, phase, pointers, leases, tokens, streams, applied, answered>>

\* What the code may find against a request once it has recorded it.  Beyond
\* this model: an expected state or generation the session no longer has, an
\* approval that is gone, a refusal of the session manager.
Refusable(b, r, p) ==
    CASE p.method \in {"renew", "release"} -> ~LeaseOk(b, r, p)
      [] p.method = "submit" -> ~LeaseOk(b, r, p) \/ proc[b][p.session].away
      [] p.method = "forget" -> Live(b, p.session)
      [] OTHER -> TRUE

Deny(b, r, p) ==
    /\ Refusable(b, r, p)
    /\ Begin(b, r, "denied")
    /\ UNCHANGED <<now, ids, phase, pointers, leases, proc, flight, tokens, streams, applied,
                   answered>>

At(b, r, at) == flight[b][r].at = at
Carries(b, r, kind) == flight[b][r].kind = kind
Landed(b, r) == flight' = [flight EXCEPT ![b][r] = NoFlight]

\* The provider has it: the prompt, the close, the open.
Deliver(b, r) ==
    /\ At(b, r, "taken")
    /\ flight' = [flight EXCEPT ![b][r].at = "delivered"]
    /\ applied' = [applied EXCEPT ![r] = @ + 1]
    /\ UNCHANGED <<now, ids, phase, store, memory, leases, proc, tokens, streams,
                   admitted, answered, told>>

\* The agent is given back, or abandoned by the guard's Drop.
AgentBack(b, s) ==
    \/ proc' = [proc EXCEPT ![b][s].away = FALSE]
    \/ proc' = [proc EXCEPT ![b][s] = NoProcess]

FinishCommand(b, r) ==
    /\ Carries(b, r, "command") /\ At(b, r, "delivered")
    /\ proc' = [proc EXCEPT ![b][flight[b][r].session].away = FALSE]
    /\ Finish(b, r, "done")
    /\ Landed(b, r)
    /\ UNCHANGED <<now, ids, phase, pointers, leases, tokens, streams, admitted, applied,
                   answered>>

\* The driver failed, or the connection went away with the command.
CommandFails(b, r) ==
    /\ Carries(b, r, "command")
    /\ AgentBack(b, flight[b][r].session)
    /\ NotFinished
    /\ Landed(b, r)
    /\ UNCHANGED <<now, ids, phase, pointers, leases, tokens, streams, admitted, applied,
                   answered>>

FinishCool(b, r) ==
    /\ Carries(b, r, "cool")
    /\ proc' = [proc EXCEPT ![b][flight[b][r].session] = NoProcess]
    /\ \/ At(b, r, "delivered") /\ Finish(b, r, "done")
       \/ NotFinished
    /\ Landed(b, r)
    /\ UNCHANGED <<now, ids, phase, pointers, leases, tokens, streams, admitted, applied,
                   answered>>

Opened(b, s, granted) ==
    [NoProcess EXCEPT !.at = "live", !.stream = streams + 1, !.granted = granted]

\* The driver's answer to an open: an agent, or a provider error, which may come
\* long after the provider had the open.
DriverAnswers(b, r) ==
    /\ Carries(b, r, "open") /\ At(b, r, "delivered")
    /\ \E answer \in {"opened", "failed"} :
          /\ flight' = [flight EXCEPT ![b][r].at = answer]
          /\ answered' = [answered EXCEPT ![r] = @ \cup {answer}]
    /\ UNCHANGED <<now, ids, phase, store, memory, leases, proc, tokens, streams,
                   admitted, applied, told>>

\* Attached, its pointer written when it has one, and granted to who opened it.
FinishOpen(b, r) ==
    LET s == flight[b][r].session
        lease == [holder |-> who[r], token |-> tokens + 1, until |-> now + Lifetime,
                  stream |-> streams + 1] IN
    /\ Carries(b, r, "open") /\ At(b, r, "opened")
    /\ tokens < MaxTokens /\ streams < MaxStreams
    /\ tokens' = tokens + 1 /\ streams' = streams + 1
    /\ leases' = [leases EXCEPT ![b][s] = lease]
    /\ proc' = [proc EXCEPT ![b][s] = Opened(b, s, lease)]
    /\ \/ phase[b] = "serving" /\ pointers' = pointers \cup {s}
       \/ UNCHANGED pointers
    /\ Finish(b, r, "done")
    /\ Landed(b, r)
    /\ UNCHANGED <<now, ids, phase, admitted, applied, answered>>

\* Mutant: an open that is taking too long is recorded as denied.
RefusedOrLate(b, r) == flight[b][r].at \in {"taken", "delivered", "failed"}

\* Refused on the way to the provider, or answered with an error by its driver.
Refused(b, r) == flight[b][r].at \in {"taken", "failed"}

\* The slot of an open that comes to nothing is released.
Released(b, r) ==
    /\ Carries(b, r, "open")
    /\ proc' = [proc EXCEPT ![b][flight[b][r].session] = NoProcess]
    /\ Landed(b, r)
    /\ UNCHANGED <<now, ids, phase, pointers, leases, tokens, streams, admitted, applied,
                   answered>>

OpenDenied(b, r) == Released(b, r) /\ Refused(b, r) /\ Finish(b, r, "denied")

\* Past its deadline, no longer authorized, not attached, or its connection dropped.
OpenAbandoned(b, r) == Released(b, r) /\ NotFinished

-----------------------------------------------------------------------------
(* Sessions that others open, use and end.                                 *)
OpenedElsewhere(b, s) ==
    /\ phase[b] = "serving" /\ proc[b][s] = NoProcess /\ streams < MaxStreams
    /\ streams' = streams + 1
    /\ proc' = [proc EXCEPT ![b][s] = Opened(b, s, NoLease)]
    /\ UNCHANGED <<now, ids, phase, store, memory, leases, flight, tokens, history>>

TurnChanges(b, s) ==
    /\ Live(b, s)
    /\ proc' = [proc EXCEPT ![b][s].running = ~@]
    /\ UNCHANGED <<now, ids, phase, store, memory, leases, flight, tokens, streams, history>>

\* Its process ends, or it is closed or displaced by somebody else.
Ends(b, s) ==
    /\ Live(b, s) /\ ~proc[b][s].away
    /\ proc' = [proc EXCEPT ![b][s] = NoProcess]
    /\ UNCHANGED <<now, ids, phase, store, memory, leases, flight, tokens, streams, history>>

-----------------------------------------------------------------------------
(* Daemons.                                                                *)
Start(b) ==
    /\ phase[b] = "new" /\ \A c \in Boots : phase[c] # "serving"
    /\ phase' = [phase EXCEPT ![b] = "serving"]
    /\ UNCHANGED <<now, ids, store, memory, leases, proc, flight, tokens, streams, history>>

BeginDrain(b) ==
    /\ phase[b] = "serving"
    /\ phase' = [phase EXCEPT ![b] = "draining"]
    /\ UNCHANGED <<now, ids, store, memory, leases, proc, flight, tokens, streams, history>>

Over(b) ==
    /\ phase' = [phase EXCEPT ![b] = "gone"]
    /\ memory' = [memory EXCEPT ![b] = [r \in Requests |-> "none"]]
    /\ leases' = [leases EXCEPT ![b] = [s \in Sessions |-> NoLease]]
    /\ proc' = [proc EXCEPT ![b] = [s \in Sessions |-> NoProcess]]
    /\ flight' = [flight EXCEPT ![b] = [r \in Requests |-> NoFlight]]
    /\ UNCHANGED <<now, ids, tokens, streams>>

Ended(b) ==
    /\ \/ phase[b] \in {"serving", "draining"}    \* it dies
       \/ phase[b] = "draining" /\ \A s \in Sessions : proc[b][s] = NoProcess
    /\ Over(b)
    /\ UNCHANGED <<store, history>>

\* It dies between recording a mutation and finishing it in the same step.
DiesWithin(b, r, p) ==
    /\ p.method \in Immediate
    /\ IsNew(b, r)
    /\ ledger' = [Purged EXCEPT ![r] = [boot |-> b, at |-> now, state |-> "pending"]]
    /\ \/ p.method = "forget" /\ ~Live(b, p.session) /\ pointers' = pointers \ {p.session}
       \/ UNCHANGED pointers
    /\ TakenUp(r)
    /\ Over(b)
    /\ UNCHANGED <<applied, answered, told>>

Tick ==
    /\ now < MaxTime
    /\ now' = now + 1
    /\ UNCHANGED <<ids, phase, store, memory, leases, proc, flight, tokens, streams, history>>

-----------------------------------------------------------------------------
OwnerStep(b, r, p) ==
    \/ Acquire(b, r, p) \/ Renew(b, r, p) \/ Release(b, r, p) \/ Forget(b, r, p)
    \/ TakeAgent(b, r, p) \/ Cool(b, r, p) \/ PrepareOpen(b, r, p)
    \/ Deny(b, r, p) \/ DiesWithin(b, r, p)

FlightStep(b, r) ==
    \/ Deliver(b, r) \/ FinishCommand(b, r) \/ CommandFails(b, r)
    \/ FinishCool(b, r) \/ DriverAnswers(b, r) \/ FinishOpen(b, r)
    \/ OpenDenied(b, r) \/ OpenAbandoned(b, r)

SessionStep(b, s) == OpenedElsewhere(b, s) \/ TurnChanges(b, s) \/ Ends(b, s)

Next ==
    \/ \E b \in Boots, r \in Requests, p \in Params : OwnerStep(b, r, p)
    \/ \E b \in Boots, r \in Requests : FlightStep(b, r) \/ PurgeAlone(b, r)
    \/ \E b \in Boots, s \in Sessions : SessionStep(b, s)
    \/ \E b \in Boots : Start(b) \/ BeginDrain(b) \/ Ended(b)
    \/ Tick

Spec == Init /\ [][Next]_vars

-----------------------------------------------------------------------------
(* Properties.                                                             *)
\* Every variable keeps its type; a lease in force lapses within its lifetime.
TypeOK ==
    /\ now \in 0 .. MaxTime
    /\ who \in [Requests -> Integrations]
    /\ created \in [Requests -> 0 .. MaxTime]
    /\ phase \in [Boots -> {"new", "serving", "draining", "gone"}]
    /\ ledger \in [Requests -> [boot : Boots \cup {None}, at : Nat,
                                state : {"none", "pending", "done", "denied"}]]
    /\ pointers \in SUBSET Sessions
    /\ memory \in [Boots -> [Requests -> {"none", "pending", "done", "denied"}]]
    /\ leases \in [Boots -> [Sessions ->
                    [holder : Integrations \cup {None}, token : 0 .. MaxTokens,
                     until : 0 .. now + Lifetime, stream : 0 .. MaxStreams]]]
    /\ proc \in [Boots -> [Sessions ->
                    [at : {"none", "opening", "live", "closing"}, stream : 0 .. MaxStreams,
                     away : BOOLEAN, running : BOOLEAN,
                     granted : [holder : Integrations \cup {None}, token : 0 .. MaxTokens,
                                until : Nat, stream : 0 .. MaxStreams]]]]
    /\ flight \in [Boots -> [Requests -> [kind : {"none", "command", "open", "cool"},
                    session : Sessions \cup {None},
                    at : {"none", "taken", "delivered", "opened", "failed"}]]]
    /\ tokens \in 0 .. MaxTokens /\ streams \in 0 .. MaxStreams
    /\ admitted \in [Requests -> 0 .. MaxTime \cup {None}]
    /\ applied \in [Requests -> Nat]
    /\ answered \in [Requests -> SUBSET {"opened", "failed"}]
    /\ told \in [Requests -> SUBSET {"done", "denied"}]

\* Taken up before the time its own identifier names.
Early(r) == admitted[r] # None /\ admitted[r] < created[r]

\* docs/runtimeProtocol.md:227-228: a mutation that may have been delivered is
\* never repeated automatically, whatever is asked again and however often the
\* daemon is restarted.
NeverRepeated == \A r \in Requests : applied[r] <= 1

\* The same, for every mutation whose minter's clock was not ahead of the daemon's.
RepeatedOnlyIfEarly == \A r \in Requests : applied[r] > 1 => Early(r)

\* What an integration is told stays true.  A mutation recorded as done has reached
\* its provider.  One recorded as denied has brought no agent and never will: it did
\* not reach its provider, or the provider's own driver answered it with an error; an
\* open given up without an answer, which may still be opening, is never denied.
OutcomesAreTrue == \A r \in Requests :
    /\ "done" \in told[r] => applied[r] > 0
    /\ "denied" \in told[r] =>
          \/ Early(r)
          \/ /\ "opened" \notin answered[r]
             /\ applied[r] > 0 => "failed" \in answered[r]

\* A lease that is accepted was the last one granted on the very process it would
\* command, to the integration that presents it: no lease outlives its process, a
\* release, a renewal or another's grant.
LeaseNamesItsProcess == \A b \in Boots, r \in Requests, p \in Params :
    LeaseOk(b, r, p) => LET last == proc[b][p.session].granted IN
                        last.holder = who[r] /\ last.token = p.token

\* Control of a process goes from one integration to another only by its release,
\* or once its lease has lapsed and no turn is running.
ControlPassesFairly ==
    [][\A b \in Boots, s \in Sessions :
        LET old == proc[b][s].granted  new == proc'[b][s].granted IN
        /\ old # NoLease /\ new # NoLease /\ old.holder # new.holder
        /\ proc[b][s].stream = proc'[b][s].stream
        => old.until < now /\ ~proc[b][s].running]_vars
=================================================================================
