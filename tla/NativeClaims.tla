------------------------------ MODULE NativeClaims ------------------------------
(***************************************************************************)
(* Who holds a provider's conversation, across the generations of the      *)
(* daemon: the claim registry (crates/runtrol-daemon/src/native_claims.rs), *)
(* the sessions and terminals that claim in it, and the relay by which a    *)
(* serving generation and the draining ones exchange their claims           *)
(* (generations.rs, dispatch.rs).                                          *)
(*                                                                         *)
(* All claims are of one provider: claims of two never meet.  A claim names *)
(* a conversation or, until the provider has minted one, only its folder.   *)
(* One generation serves at a time, because it holds the store; the drain   *)
(* of its predecessor is acknowledged after the predecessor's locator entry *)
(* says so, and is one step here.  A relayed request that was given up is   *)
(* not delivered afterwards.                                               *)
(***************************************************************************)
EXTENDS Integers, FiniteSets

CONSTANTS Generations,   \* daemons, each started once
          Sessions,      \* structured sessions, each opened once
          Terminals,     \* terminals, each opened once
          Natives,       \* the provider's conversations
          Stored,        \* those that exist before the first daemon
          Folders,       \* workspaces
          None,          \* no conversation, no generation, no answer
          Patience,      \* GENERATION_PROOF_PATIENCE
          Rechecks,      \* the platform asks again before a birth (Windows)
          MaxWork,       \* bound: sessions and terminals begun
          Crashes,       \* whether a daemon may die
          Unreadable     \* whether reading the locator may fail

ASSUME ClaimsAssumption ==
    /\ IsFiniteSet(Generations) /\ IsFiniteSet(Sessions \cup Terminals)
    /\ Sessions \cap Terminals = {}
    /\ Stored \subseteq Natives
    /\ None \notin Natives \cup Generations
    /\ Patience \in Nat \ {0} /\ MaxWork \in Nat
    /\ {Rechecks, Crashes, Unreadable} \subseteq BOOLEAN

VARIABLES
    phase,       \* what each generation does
    listed,      \* its entry in the home's locator
    structured, pending, terminals,   \* ClaimState, its own claims
    remote,      \* ClaimState.remote: what each peer said it holds
    legacy,      \* ClaimState.legacy_generations: the barrier
    compatible, misses,               \* GenerationRelayProgress
    round,       \* where the relay loop is
    work,        \* every session and terminal, and its process
    stored,      \* conversations that exist
    handed       \* history: claims unchanged since their generation began to drain

registry == <<structured, pending, terminals>>
relay == <<remote, legacy, compatible, misses, round>>
vars == <<phase, listed, registry, relay, work, stored, handed>>

Owners == Sessions \cup Terminals
Claim == [owner : Owners, native : Natives \cup {None}, folder : Folders]
NoClaims == [p \in Generations |-> {}]

Work == [at : {"none", "admitted", "pending", "running", "exited", "done",
               "opening", "live", "closing"},
         gen : Generations \cup {None}, native : Natives \cup {None},
         folder : Folders \cup {None},
         known : BOOLEAN,     \* the roster was asked and did not name it
         moved : BOOLEAN,     \* the CLI went to another conversation itself
         commit : BOOLEAN]    \* a born terminal's claim is to be committed

NoWork == [at |-> "none", gen |-> None, native |-> None, folder |-> None,
           known |-> FALSE, moved |-> FALSE, commit |-> FALSE]

Over == [NoWork EXCEPT !.at = "done"]

Resting == [on |-> FALSE, peers |-> {}, left |-> {}, lines |-> {},
            asked |-> None, answer |-> {}]

Init ==
    /\ phase = [g \in Generations |-> "new"]
    /\ listed = [g \in Generations |-> "no"]
    /\ structured = NoClaims /\ pending = NoClaims /\ terminals = NoClaims
    /\ remote = [g \in Generations |-> NoClaims]
    /\ legacy = NoClaims /\ compatible = NoClaims
    /\ misses = [g \in Generations |-> [p \in Generations |-> 0]]
    /\ round = [g \in Generations |-> Resting]
    /\ work = [o \in Owners |-> NoWork]
    /\ stored = Stored
    /\ handed = NoClaims

-----------------------------------------------------------------------------
(* The registry.                                                           *)
Local(g) == structured[g] \cup pending[g] \cup terminals[g]
Inherited(g) == UNION {remote[g][p] : p \in Generations}
Of(o, claims) == {c \in claims : c.owner = o}
Line(o) == [owner |-> o, native |-> work[o].native, folder |-> work[o].folder]

\* The same conversation, or one nobody has named yet in the same folder.
Conflicts(n, f, c, known) ==
    /\ n # None
    /\ \/ c.native = n
       \/ ~known /\ c.native = None /\ c.folder = f

Free(g, n, f, known, own) ==
    \A c \in (Local(g) \ own) \cup Inherited(g) : ~Conflicts(n, f, c, known)

Barred(g, n) == n # None /\ legacy[g] # {}

BlocksMutation(g, n, f) ==
    \E c \in Local(g) \cup Inherited(g) :
        c.native = n \/ (c.native = None /\ c.folder = f)

\* Mutant: only terminals are exported.
SnapshotOfTerminals(g, peer) ==
    pending[g] \cup terminals[g]
        \cup UNION {remote[g][p] : p \in Generations \ {peer}}

Snapshot(g, peer) ==
    Local(g) \cup UNION {remote[g][p] : p \in Generations \ {peer}}

-----------------------------------------------------------------------------
(* Sessions.  Every step of the owner ends with the claims replaced by what *)
(* the session manager then holds.                                         *)
MayBegin == Cardinality({o \in Owners : work[o].at # "none"}) < MaxWork

Active(w) == w.at \in {"opening", "live", "closing"}

\* Mutant: only live sessions keep their claims.
ReplacedByLive(g, w) ==
    {[owner |-> s, native |-> w[s].native, folder |-> w[s].folder] :
        s \in {x \in Sessions : w[x].gen = g /\ w[x].at = "live"}}

Replaced(g, w) ==
    {c \in structured[g] : Active(w[c.owner]) /\ w[c.owner].at # "live"}
    \cup {[owner |-> s, native |-> w[s].native, folder |-> w[s].folder] :
            s \in {x \in Sessions : w[x].gen = g /\ w[x].at = "live"}}

ReserveStructured(g, s, n, f) ==
    /\ phase[g] = "serving"
    /\ work[s].at = "none" /\ MayBegin
    /\ n \in stored \cup {None}
    /\ ~Barred(g, n)
    /\ Free(g, n, f, FALSE, {})
    /\ work' = [work EXCEPT ![s] = [NoWork EXCEPT !.at = "opening", !.gen = g,
                                      !.native = n, !.folder = f]]
    /\ structured' = [structured EXCEPT ![g] = @ \cup
                        {[owner |-> s, native |-> n, folder |-> f]}]
    /\ UNCHANGED <<phase, listed, pending, terminals, relay, stored, handed>>

OwnerStep(s, w) ==
    /\ work' = [work EXCEPT ![s] = w]
    /\ structured' = [structured EXCEPT ![work[s].gen] =
                        Replaced(work[s].gen, work')]
    /\ UNCHANGED <<phase, listed, pending, terminals, relay, handed>>

Attached(s) ==
    /\ work[s].at = "opening"
    /\ OwnerStep(s, [work[s] EXCEPT !.at = "live"])
    /\ UNCHANGED stored

CancelOpen(s) ==
    /\ work[s].at = "opening"
    /\ OwnerStep(s, Over)
    /\ UNCHANGED stored

\* The agent announces the conversation it minted.
ObserveNative(s) == \E n \in Natives \ stored :
    /\ work[s].at = "live"
    /\ OwnerStep(s, [work[s] EXCEPT !.native = n])
    /\ stored' = stored \cup {n}

Close(s) ==
    /\ work[s].at = "live"
    /\ OwnerStep(s, [work[s] EXCEPT !.at = "closing"])
    /\ UNCHANGED stored

ReleaseClosing(s) ==
    /\ work[s].at = "closing"
    /\ OwnerStep(s, Over)
    /\ UNCHANGED stored

-----------------------------------------------------------------------------
(* Terminals.                                                              *)
Process(o) == work[o].at = "running" \/ (o \in Sessions /\ Active(work[o]))

\* The draining check comes first; the roster, the program and the tables are
\* asked before the claim is.
AdmitTerminal(g, t, n, f, known) ==
    /\ phase[g] = "serving"
    /\ work[t].at = "none" /\ MayBegin
    /\ n \in stored \cup {None}
    /\ known => n # None /\ \A o \in Owners : Process(o) => work[o].native # n
    /\ work' = [work EXCEPT ![t] = [NoWork EXCEPT !.at = "admitted", !.gen = g,
                                      !.native = n, !.folder = f, !.known = known]]
    /\ UNCHANGED <<phase, listed, registry, relay, stored, handed>>

Joins(g, n, f) ==
    n # None /\ \E c \in terminals[g] : c.native = n /\ c.folder = f

TerminalReserved(t) ==
    LET w == work[t] IN
    /\ w.at = "admitted"
    /\ ~Barred(w.gen, w.native)
    /\ ~Joins(w.gen, w.native, w.folder)
    /\ Free(w.gen, w.native, w.folder, w.known, {})
    /\ pending' = [pending EXCEPT ![w.gen] = @ \cup {Line(t)}]
    /\ work' = [work EXCEPT ![t].at = "pending", ![t].known = FALSE]
    /\ UNCHANGED <<phase, listed, structured, terminals, relay, stored, handed>>

\* Refused, joined to the terminal that is there, or given up before.
TerminalNotOpened(t) ==
    /\ work[t].at = "admitted"
    /\ work' = [work EXCEPT ![t] = Over]
    /\ UNCHANGED <<phase, listed, registry, relay, stored, handed>>

Born(t) ==
    /\ work[t].at = "pending"
    /\ Rechecks => phase[work[t].gen] = "serving"
    /\ work' = [work EXCEPT ![t].at = "running", ![t].commit = TRUE]
    /\ UNCHANGED <<phase, listed, registry, relay, stored, handed>>

BirthFails(t) ==
    /\ work[t].at = "pending"
    /\ pending' = [pending EXCEPT ![work[t].gen] = @ \ Of(t, @)]
    /\ work' = [work EXCEPT ![t] = Over]
    /\ UNCHANGED <<phase, listed, structured, terminals, relay, stored, handed>>

\* What pending still holds of it: nothing if the process has ended already.
Committed(t) == Of(t, pending[work[t].gen])

CommitBorn(t) ==
    LET g == work[t].gen IN
    /\ work[t].commit
    /\ terminals' = [terminals EXCEPT ![g] = @ \cup Committed(t)]
    /\ pending' = [pending EXCEPT ![g] = @ \ Of(t, @)]
    /\ work' = [work EXCEPT ![t] = IF @.at = "done" THEN Over
                                   ELSE [@ EXCEPT !.commit = FALSE]]
    /\ UNCHANGED <<phase, listed, structured, relay, stored, handed>>

Exited(t) ==
    /\ work[t].at = "running"
    /\ work' = [work EXCEPT ![t].at = "exited"]
    /\ UNCHANGED <<phase, listed, registry, relay, stored, handed>>

\* The exit observer, which may come before the commit.
TerminalEnded(t) ==
    LET g == work[t].gen IN
    /\ work[t].at = "exited"
    /\ pending' = [pending EXCEPT ![g] = @ \ Of(t, @)]
    /\ terminals' = [terminals EXCEPT ![g] = @ \ Of(t, @)]
    /\ work' = [work EXCEPT ![t] = IF @.commit THEN [@ EXCEPT !.at = "done"]
                                   ELSE Over]
    /\ UNCHANGED <<phase, listed, structured, relay, stored, handed>>

\* The provider mints the conversation of a fresh process, or the person moves
\* the process to a stored one.
Mint(t) == \E n \in Natives \ stored :
    /\ work[t].at = "running" /\ work[t].native = None
    /\ work' = [work EXCEPT ![t].native = n]
    /\ stored' = stored \cup {n}
    /\ UNCHANGED <<phase, listed, registry, relay, handed>>

MoveTo(t, n) ==
    /\ work[t].at = "running" /\ work[t].native # n
    /\ n \in stored
    /\ work' = [work EXCEPT ![t].native = n, ![t].moved = TRUE]
    /\ UNCHANGED <<phase, listed, registry, relay, stored, handed>>

\* One answer of the roster about the terminals of one folder.
Observable(g, batch) ==
    /\ batch # {}
    /\ \A t \in batch : /\ work[t].at = "running" /\ work[t].gen = g
                        /\ work[t].native # None
    /\ \A t, u \in batch : /\ work[t].folder = work[u].folder
                           /\ t # u => work[t].native # work[u].native

OwnClaims(g, batch) == {c \in terminals[g] : c.owner \in batch}

\* Mutant: a conversation the roster names is bound unasked.
BindsUnasked(g, batch) == \A t \in batch : Of(t, terminals[g]) # {}

Binds(g, batch) ==
    /\ \A t \in batch : Of(t, terminals[g]) # {}
    /\ \A t \in batch : Free(g, work[t].native, work[t].folder, FALSE,
                             OwnClaims(g, batch))

BindNatives(g, batch) ==
    /\ Observable(g, batch)
    /\ Binds(g, batch)
    /\ terminals' = [terminals EXCEPT ![g] = (@ \ OwnClaims(g, batch))
                                             \cup {Line(t) : t \in batch}]
    /\ UNCHANGED <<phase, listed, structured, pending, relay, work, stored>>
    /\ handed' = [handed EXCEPT ![g] = @ \cap Local(g)']

-----------------------------------------------------------------------------
(* Generations.                                                            *)
Draining == {p \in Generations : listed[p] = "draining"}

\* Publishing drops the entries nobody answers for; the barrier is primed from
\* what is left.
Start(g) ==
    /\ phase[g] = "new"
    /\ \A p \in Generations : phase[p] # "serving"
    /\ phase' = [phase EXCEPT ![g] = "serving"]
    /\ listed' = [p \in Generations |-> IF p = g THEN "serving"
                                        ELSE IF phase[p] = "gone" THEN "no"
                                        ELSE listed[p]]
    /\ legacy' = [legacy EXCEPT ![g] = {p \in Generations \ {g} : listed'[p] = "draining"}]
    /\ UNCHANGED <<registry, remote, compatible, misses, round, work, stored, handed>>

BeginDrain(g) ==
    /\ phase[g] = "serving"
    /\ phase' = [phase EXCEPT ![g] = "draining"]
    /\ listed' = [listed EXCEPT ![g] = "draining"]
    /\ round' = [round EXCEPT ![g] = Resting]
    /\ handed' = [handed EXCEPT ![g] = Local(g)]
    /\ UNCHANGED <<registry, remote, legacy, compatible, misses, work, stored>>

\* A process that ends takes its memory with it.
Forgotten(g) ==
    /\ structured' = [structured EXCEPT ![g] = {}]
    /\ pending' = [pending EXCEPT ![g] = {}]
    /\ terminals' = [terminals EXCEPT ![g] = {}]
    /\ remote' = [remote EXCEPT ![g] = NoClaims]
    /\ legacy' = [legacy EXCEPT ![g] = {}]
    /\ compatible' = [compatible EXCEPT ![g] = {}]
    /\ misses' = [misses EXCEPT ![g] = [p \in Generations |-> 0]]
    /\ round' = [round EXCEPT ![g] = Resting]
    /\ handed' = [handed EXCEPT ![g] = {}]
    /\ phase' = [phase EXCEPT ![g] = "gone"]
    /\ UNCHANGED stored

WorkOf(g) == {o \in Owners : work[o].gen = g}

\* Nothing a daemon was doing outlives it: its processes are contained.
Ended(g) == [o \in Owners |-> IF o \in WorkOf(g) THEN Over ELSE work[o]]

\* An open that has come no further than its first checks does not keep it.
Leave(g) ==
    /\ phase[g] = "draining"
    /\ \A o \in WorkOf(g) : work[o].at = "admitted"
    /\ listed' = [listed EXCEPT ![g] = "no"]
    /\ work' = Ended(g)
    /\ Forgotten(g)

\* Its locator entry stays.
Crash(g) ==
    /\ Crashes
    /\ phase[g] \in {"serving", "draining"}
    /\ work' = Ended(g)
    /\ Forgotten(g)
    /\ UNCHANGED listed

-----------------------------------------------------------------------------
(* The relay loop of the serving generation.                               *)
\* A locator that cannot be read shows no peers.
Seen(g) == {Draining \ {g}} \cup (IF Unreadable THEN {{}} ELSE {})

BeginRound(g) == \E peers \in Seen(g) :
    /\ phase[g] = "serving" /\ ~round[g].on
    /\ remote' = [remote EXCEPT ![g] = [p \in Generations |->
                    IF p \in peers THEN @[p] ELSE {}]]
    /\ compatible' = [compatible EXCEPT ![g] = @ \cap peers]
    /\ misses' = [misses EXCEPT ![g] = [p \in Generations |->
                    IF p \in peers THEN @[p] ELSE 0]]
    /\ IF peers = {}
         THEN /\ legacy' = [legacy EXCEPT ![g] = {}]
              /\ UNCHANGED round
         ELSE /\ round' = [round EXCEPT ![g] =
                    [on |-> TRUE, peers |-> peers, left |-> peers,
                     lines |-> Local(g) \cup UNION {remote[g][p] : p \in peers},
                     asked |-> None, answer |-> {}]]
              /\ UNCHANGED legacy
    /\ UNCHANGED <<phase, listed, registry, work, stored, handed>>

\* The peer's owner takes the successor's claims and answers with its own.
Handoff(g, p) ==
    /\ p \in round[g].left /\ round[g].asked = None
    /\ phase[p] = "draining"
    /\ remote' = [remote EXCEPT ![p][g] = round[g].lines]
    /\ round' = [round EXCEPT ![g].asked = p, ![g].answer = Snapshot(p, g)]
    /\ UNCHANGED <<phase, listed, registry, legacy, compatible, misses, work, stored, handed>>

\* Mutant: the answer stays to be applied again.
DoneStillAsked(g, p) == [round[g] EXCEPT !.left = @ \ {p}]

Done(g, p) == [round[g] EXCEPT !.left = @ \ {p}, !.asked = None, !.answer = {}]

Proven(g, p) ==
    /\ round[g].asked = p
    /\ remote' = [remote EXCEPT ![g][p] = round[g].answer]
    /\ compatible' = [compatible EXCEPT ![g] = @ \cup {p}]
    /\ misses' = [misses EXCEPT ![g][p] = 0]
    /\ round' = [round EXCEPT ![g] = Done(g, p)]
    /\ UNCHANGED <<phase, listed, registry, legacy, work, stored, handed>>

\* Mutant: an unanswered round is not counted.
MissUncounted(g, p) == misses[g][p]

Counted(g, p) == IF misses[g][p] < Patience THEN misses[g][p] + 1 ELSE Patience

\* Not reached, not understood, or too late.
Miss(g, p) ==
    /\ p \in round[g].left /\ round[g].asked \in {None, p}
    /\ misses' = [misses EXCEPT ![g][p] = Counted(g, p)]
    /\ round' = [round EXCEPT ![g] = Done(g, p)]
    /\ UNCHANGED <<phase, listed, registry, remote, legacy, compatible, work, stored, handed>>

StillBlocking(g, p) == p \notin compatible[g] /\ misses[g][p] < Patience

EndRound(g) ==
    /\ round[g].on /\ round[g].left = {}
    /\ legacy' = [legacy EXCEPT ![g] = {p \in round[g].peers : StillBlocking(g, p)}]
    /\ round' = [round EXCEPT ![g] = Resting]
    /\ UNCHANGED <<phase, listed, registry, remote, compatible, misses, work, stored, handed>>

-----------------------------------------------------------------------------
SessionStep(s) ==
    \/ \E g \in Generations, n \in Natives \cup {None}, f \in Folders :
            ReserveStructured(g, s, n, f)
    \/ Attached(s) \/ CancelOpen(s) \/ ObserveNative(s)
    \/ Close(s) \/ ReleaseClosing(s)

TerminalStep(t) ==
    \/ \E g \in Generations, n \in Natives \cup {None}, f \in Folders, k \in BOOLEAN :
            AdmitTerminal(g, t, n, f, k)
    \/ TerminalReserved(t) \/ TerminalNotOpened(t) \/ Born(t) \/ BirthFails(t)
    \/ CommitBorn(t) \/ Exited(t) \/ TerminalEnded(t) \/ Mint(t)
    \/ \E n \in Natives : MoveTo(t, n)

GenerationStep(g) ==
    \/ Start(g) \/ BeginDrain(g) \/ Leave(g) \/ Crash(g)
    \/ \E batch \in SUBSET Terminals : BindNatives(g, batch)

RelayStep(g) ==
    \/ BeginRound(g) \/ EndRound(g)
    \/ \E p \in Generations : Handoff(g, p) \/ Proven(g, p) \/ Miss(g, p)

Next ==
    \/ \E s \in Sessions : SessionStep(s)
    \/ \E t \in Terminals : TerminalStep(t)
    \/ \E g \in Generations : GenerationStep(g) \/ RelayStep(g)

Spec == Init /\ [][Next]_vars

-----------------------------------------------------------------------------
(* Properties.                                                             *)
Holding(o) == \/ o \in Sessions /\ Active(work[o])
              \/ o \in Terminals /\ work[o].at \in {"pending", "running", "exited"}

\* Every variable keeps its type, a peer's answer is applied once in a round, and
\* a generation that is gone holds nothing.
TypeOK ==
    /\ phase \in [Generations -> {"new", "serving", "draining", "gone"}]
    /\ listed \in [Generations -> {"no", "serving", "draining"}]
    /\ \A own \in {structured, pending, terminals, handed} :
            own \in [Generations -> SUBSET Claim]
    /\ remote \in [Generations -> [Generations -> SUBSET Claim]]
    /\ {legacy, compatible} \subseteq [Generations -> SUBSET Generations]
    /\ misses \in [Generations -> [Generations -> 0 .. Patience]]
    /\ work \in [Owners -> Work]
    /\ stored \in SUBSET Natives
    /\ \A g \in Generations : /\ round[g].left \subseteq round[g].peers
                               /\ round[g].asked \in round[g].left \cup {None}
    /\ \A g \in Generations : phase[g] = "gone" => Local(g) = {} /\ Inherited(g) = {}

\* A generation claims exactly what it is opening, running, closing or waiting
\* to see the end of, once each, however exits, commits, cancellations and
\* releases are ordered: no process runs unclaimed, no claim outlives its work.
ClaimsMatchWork == \A g \in Generations :
    /\ {c.owner : c \in Local(g)} = {o \in Owners : work[o].gen = g /\ Holding(o)}
    /\ \A c, d \in Local(g) : c.owner = d.owner => c = d
    /\ structured[g] \cap (pending[g] \cup terminals[g]) = {}
    /\ pending[g] \cap terminals[g] = {}

\* Nobody deletes or rewrites a conversation under the process that has been in
\* it from the start: its generation says so, whether or not the name its
\* provider minted has been observed.
ConversationsAreHeld == \A o \in Owners :
    Holding(o) /\ work[o].native # None /\ ~work[o].moved
        => BlocksMutation(work[o].gen, work[o].native, work[o].folder)

\* The registry is right about who works and about where.
ClaimsAreTrue == ClaimsMatchWork /\ ConversationsAreHeld

\* One generation never counts two owners of one conversation, whichever of
\* opening, joining and the roster names it last.
SoleOwner == \A g \in Generations : \A c, d \in Local(g) :
    c.native # None /\ c.native = d.native => c = d

Opens(g, n) == \E o \in Owners :
    /\ ~Holding(o) /\ Holding(o)'
    /\ work'[o].gen = g /\ work'[o].native = n

\* A generation opens no conversation that its predecessor held when it began to
\* drain and still holds, unless the predecessor has used up the patience it is
\* given to prove itself; a terminal that was only starting counts.
HandoverHolds ==
    [][\A g, p \in Generations : \A c \in handed[p] \cap Local(p) :
            phase[g] = "serving" /\ p # g /\ c.native # None /\ Opens(g, c.native)
                => p \notin compatible[g] /\ misses[g][p] >= Patience]_vars

\* A barrier that outlives a round is running out: the peer it waits for has not
\* proven itself and the round counted against its patience.
BarrierRunsOut ==
    [][\A g, p \in Generations :
            round[g].on /\ ~round'[g].on /\ phase'[g] = "serving" /\ p \in legacy'[g]
                => p \notin compatible[g] /\ misses[g][p] \in 1 .. Patience - 1]_vars
=================================================================================
