------------------------ MODULE SessionManagerProofs ------------------------
(***************************************************************************)
(* Theorems about SessionManager for every number of sessions, providers   *)
(* and tasks, every capacity and every number of generations.              *)
(***************************************************************************)
EXTENDS SessionManager, FiniteSetTheorems, TLAPS

-----------------------------------------------------------------------------
(* The inductive invariant.                                                *)

\* A request names what it is about.
Named(k) ==
    /\ k.at \in OpenPhases \cup {"stopping", "sending", "returning"}
                 \cup (AskPhases \ {"askUpdate"}) => k.session \in Sessions
    /\ k.at = "evicting" => k.victim \in Sessions
    /\ k.at \in {"askUpdate", "updating"} => k.provider \in Providers

TasksNamed == \A t \in Tasks : Named(task[t])

\* The hold behind an opening and the hold behind a removal differ in state only.
StateFor(at) == IF at = "removing" THEN "ReleasingWorkspace" ELSE "Opening"

PhaseMatches(t) ==
    task[t].at \in OpenPhases =>
        opening[task[t].session].state = StateFor(task[t].at)

HoldsMatchPhases == \A t \in Tasks : PhaseMatches(t)

\* The owner's maps as sets of keys.
Removing == {s \in OpeningKeys : opening[s].state = "ReleasingWorkspace"}
Out == {s \in Sessions : inFlight[s] # None}
BeingUpdated == {p \in Providers : updating[p] # None}

\* An updated CLI has no session, a tree that is removed nobody beside it.
UpdateExcludes ==
    \A s \in LiveKeys \cup (OpeningKeys \ Removing) : ProviderOf[s] \notin BeingUpdated

CleanupExcludes ==
    \A o \in Removing, q \in LiveKeys \cup OpeningKeys : q # o => ~Overlaps(q, o)

OwnerInv == /\ KeysApart
            /\ Out = LiveKeys \ WithOwner
            /\ UpdateExcludes
            /\ CleanupExcludes

TaskInv == TasksNamed /\ HoldsMatchPhases

IInv == TypeOK /\ OwnerInv /\ TaskInv /\ GuardsAreExact /\ ProcessesBounded

-----------------------------------------------------------------------------
(* Tokens.                                                                 *)

(* The kind, the key and the generation of a token tell it from any other.  *)
LEMMA TokensTellApart ==
    \A s, g, o, h :
        /\ CancelOpen(s, g) = CancelOpen(o, h) => s = o /\ g = h
        /\ ReleaseClosing(s, g) = ReleaseClosing(o, h) => s = o /\ g = h
        /\ Abandoned(s, g) = Abandoned(o, h) => s = o /\ g = h
        /\ ReleaseUpdate(s, g) = ReleaseUpdate(o, h) => s = o /\ g = h
        /\ CancelOpen(s, g) # ReleaseClosing(o, h)
        /\ CancelOpen(s, g) # Abandoned(o, h)
        /\ CancelOpen(s, g) # ReleaseUpdate(o, h)
        /\ ReleaseClosing(s, g) # Abandoned(o, h)
        /\ ReleaseClosing(s, g) # ReleaseUpdate(o, h)
        /\ Abandoned(s, g) # ReleaseUpdate(o, h)
  BY DEF CancelOpen, ReleaseClosing, Abandoned, ReleaseUpdate

\* The token of a hold, and those of a map of holds, of leases, of exclusions.
HoldToken(s, h) == IF h.state = "Closing" THEN ReleaseClosing(s, h.gen)
                                          ELSE CancelOpen(s, h.gen)
Holds(f) == {HoldToken(s, f[s]) : s \in {o \in Sessions : f[o] # None}}
Leases(f) == {Abandoned(s, f[s]) : s \in {o \in Sessions : f[o] # None}}
Exclusions(f) == {ReleaseUpdate(p, f[p]) : p \in {q \in Providers : f[q] # None}}

(* Tokens of holds on two sessions differ.                                 *)
LEMMA HoldTokensTellApart ==
    \A s, h, o, i :
        /\ HoldToken(s, h) = HoldToken(o, i) => s = o
        /\ HoldToken(s, h) # Abandoned(o, i)
        /\ HoldToken(s, h) # ReleaseUpdate(o, i)
  BY TokensTellApart DEF HoldToken

(* What the owner has handed out, map by map.                              *)
LEMMA HandedOutByMap ==
  /\ HandedOut = Holds(opening) \cup Leases(inFlight) \cup Exclusions(updating)
  /\ HandedOut' = Holds(opening') \cup Leases(inFlight') \cup Exclusions(updating')
<1> DEFINE Split(f) ==
             Holds(f) = {CancelOpen(s, f[s].gen) : s \in {o \in {q \in Sessions : f[q] # None} :
                                                          f[o].state # "Closing"}}
                   \cup {ReleaseClosing(s, f[s].gen) : s \in {o \in {q \in Sessions : f[q] # None} :
                                                              f[o].state = "Closing"}}
<1>1. \A f : Split(f)
  BY DEF Holds, HoldToken
<1>2. Split(opening) /\ Split(opening')
  BY <1>1
<1>3. HandedOut = Holds(opening) \cup Leases(inFlight) \cup Exclusions(updating)
  BY <1>2 DEF HandedOut, OpeningKeys, Leases, Exclusions
<1>4. HandedOut' = Holds(opening') \cup Leases(inFlight') \cup Exclusions(updating')
  BY <1>2 DEF HandedOut, OpeningKeys, Leases, Exclusions
<1> QED BY <1>3, <1>4

(* A hold that is entered adds its token, one that is dropped takes it out, *)
(* one that is replaced does both.                                         *)
LEMMA HoldEntered ==
  ASSUME NEW f \in [Sessions -> Held \cup {None}], NEW s \in Sessions, f[s] = None,
         NEW h \in Held
  PROVE  /\ Holds([f EXCEPT ![s] = h]) = Holds(f) \cup {HoldToken(s, h)}
         /\ HoldToken(s, h) \notin Holds(f)
<1>1. HoldToken(s, h) \notin Holds(f)
  BY HoldTokensTellApart DEF Holds
<1> DEFINE g == [f EXCEPT ![s] = h]
<1>2. /\ g[s] = h /\ h # None
      /\ \A o \in Sessions : o # s => g[o] = f[o]
  BY ManagerAssumption
<1> HIDE DEF g
<1>3. Holds(g) = Holds(f) \cup {HoldToken(s, h)}
  BY <1>2 DEF Holds
<1> QED BY <1>1, <1>3 DEF g

LEMMA HoldDropped ==
  ASSUME NEW f \in [Sessions -> Held \cup {None}], NEW s \in Sessions, f[s] # None
  PROVE  /\ Holds([f EXCEPT ![s] = None]) = Holds(f) \ {HoldToken(s, f[s])}
         /\ HoldToken(s, f[s]) \in Holds(f)
<1> DEFINE g == [f EXCEPT ![s] = None]
<1>2. /\ g[s] = None
      /\ \A o \in Sessions : o # s => g[o] = f[o]
  OBVIOUS
<1> HIDE DEF g
<1>3. \A o \in Sessions : o # s => HoldToken(o, f[o]) # HoldToken(s, f[s])
  BY HoldTokensTellApart
<1>4. Holds(g) = Holds(f) \ {HoldToken(s, f[s])}
  BY <1>2, <1>3 DEF Holds
<1>5. HoldToken(s, f[s]) \in Holds(f)
  BY DEF Holds
<1> QED BY <1>4, <1>5 DEF g

LEMMA HoldReplaced ==
  ASSUME NEW f \in [Sessions -> Held \cup {None}], NEW s \in Sessions, f[s] # None,
         NEW h \in Held
  PROVE  Holds([f EXCEPT ![s] = h])
             = (Holds(f) \ {HoldToken(s, f[s])}) \cup {HoldToken(s, h)}
<1> DEFINE g == [f EXCEPT ![s] = h]
<1>2. /\ g[s] = h /\ h # None
      /\ \A o \in Sessions : o # s => g[o] = f[o]
  BY ManagerAssumption
<1> HIDE DEF g
<1>3. \A o \in Sessions : o # s => HoldToken(o, f[o]) # HoldToken(s, f[s])
  BY HoldTokensTellApart
<1>4. Holds(g) = (Holds(f) \ {HoldToken(s, f[s])}) \cup {HoldToken(s, h)}
  BY <1>2, <1>3 DEF Holds
<1> QED BY <1>4 DEF g

(* The same of leases and of exclusions.                                   *)
LEMMA LeaseEntered ==
  ASSUME NEW f \in [Sessions -> Nat \cup {None}], NEW s \in Sessions, f[s] = None,
         NEW g \in Nat
  PROVE  /\ Leases([f EXCEPT ![s] = g]) = Leases(f) \cup {Abandoned(s, g)}
         /\ Abandoned(s, g) \notin Leases(f)
<1>1. Abandoned(s, g) \notin Leases(f)
  BY TokensTellApart DEF Leases
<1> DEFINE e == [f EXCEPT ![s] = g]
<1>2. /\ e[s] = g /\ g # None
      /\ \A o \in Sessions : o # s => e[o] = f[o]
  BY ManagerAssumption
<1> HIDE DEF e
<1>3. Leases(e) = Leases(f) \cup {Abandoned(s, g)}
  BY <1>2 DEF Leases
<1> QED BY <1>1, <1>3 DEF e

LEMMA LeaseDropped ==
  ASSUME NEW f \in [Sessions -> Nat \cup {None}], NEW s \in Sessions, f[s] # None
  PROVE  Leases([f EXCEPT ![s] = None]) = Leases(f) \ {Abandoned(s, f[s])}
<1> DEFINE e == [f EXCEPT ![s] = None]
<1>2. /\ e[s] = None
      /\ \A o \in Sessions : o # s => e[o] = f[o]
  OBVIOUS
<1> HIDE DEF e
<1>3. \A o \in Sessions : o # s => Abandoned(o, f[o]) # Abandoned(s, f[s])
  BY TokensTellApart
<1>4. Leases(e) = Leases(f) \ {Abandoned(s, f[s])}
  BY <1>2, <1>3 DEF Leases
<1> QED BY <1>4 DEF e

LEMMA ExclusionEntered ==
  ASSUME NEW f \in [Providers -> Nat \cup {None}], NEW p \in Providers, f[p] = None,
         NEW g \in Nat
  PROVE  /\ Exclusions([f EXCEPT ![p] = g]) = Exclusions(f) \cup {ReleaseUpdate(p, g)}
         /\ ReleaseUpdate(p, g) \notin Exclusions(f)
<1>1. ReleaseUpdate(p, g) \notin Exclusions(f)
  BY TokensTellApart DEF Exclusions
<1> DEFINE e == [f EXCEPT ![p] = g]
<1>2. /\ e[p] = g /\ g # None
      /\ \A q \in Providers : q # p => e[q] = f[q]
  BY ManagerAssumption
<1> HIDE DEF e
<1>3. Exclusions(e) = Exclusions(f) \cup {ReleaseUpdate(p, g)}
  BY <1>2 DEF Exclusions
<1> QED BY <1>1, <1>3 DEF e

LEMMA ExclusionDropped ==
  ASSUME NEW f \in [Providers -> Nat \cup {None}], NEW p \in Providers, f[p] # None
  PROVE  Exclusions([f EXCEPT ![p] = None]) = Exclusions(f) \ {ReleaseUpdate(p, f[p])}
<1> DEFINE e == [f EXCEPT ![p] = None]
<1>2. /\ e[p] = None
      /\ \A q \in Providers : q # p => e[q] = f[q]
  OBVIOUS
<1> HIDE DEF e
<1>3. \A q \in Providers : q # p => ReleaseUpdate(q, f[q]) # ReleaseUpdate(p, f[p])
  BY TokensTellApart
<1>4. Exclusions(e) = Exclusions(f) \ {ReleaseUpdate(p, f[p])}
  BY <1>2, <1>3 DEF Exclusions
<1> QED BY <1>4 DEF e

-----------------------------------------------------------------------------
(* The ledger: what is handed out, what is in the channels, what each task  *)
(* carries.                                                                *)
Exact(h, m, c) ==
    /\ h = m \cup UNION {c[t] : t \in Tasks}
    /\ \A t \in Tasks : c[t] \cap m = {}
    /\ \A t, u \in Tasks : t # u => c[t] \cap c[u] = {}

Load == [t \in Tasks |-> Carries(t)]

LEMMA GuardsAsLedger ==
  /\ GuardsAreExact <=> Exact(HandedOut, mail, Load)
  /\ GuardsAreExact' <=> Exact(HandedOut', mail', Load')
<1>1. /\ \A t \in Tasks : Load[t] = Carries(t)
      /\ \A t \in Tasks : Load'[t] = Carries(t)'
  BY DEF Load
<1>2. /\ {Load[t] : t \in Tasks} = {Carries(t) : t \in Tasks}
      /\ {Load'[t] : t \in Tasks} = {Carries(t)' : t \in Tasks}
  BY <1>1
<1>3. GuardsAreExact <=> Exact(HandedOut, mail, Load)
  <2> HIDE DEF Load, HandedOut
  <2> QED BY <1>1, <1>2 DEF GuardsAreExact, Exact
<1>4. GuardsAreExact' <=> Exact(HandedOut', mail', Load')
  <2> HIDE DEF Load, HandedOut
  <2> QED BY <1>1, <1>2 DEF GuardsAreExact, Exact
<1> QED BY <1>3, <1>4

(* One task takes new tokens, ends some of its own and sends others off.    *)
LEMMA GuardsMove ==
  ASSUME GuardsAreExact, NEW t \in Tasks, NEW new, NEW over, NEW back,
         \A u \in Tasks : u # t => Load'[u] = Load[u],
         over \subseteq Load[t], back \subseteq Load[t], over \cap back = {},
         new \cap HandedOut = {},
         Load'[t] = (Load[t] \ (over \cup back)) \cup new,
         HandedOut' = (HandedOut \ over) \cup new,
         mail' = mail \cup back
  PROVE  GuardsAreExact'
<1>0. Exact(HandedOut, mail, Load)
  BY GuardsAsLedger
<1>1. \A x : x \in HandedOut <=> x \in mail \/ \E u \in Tasks : x \in Load[u]
  BY <1>0 DEF Exact
<1>2. \A u \in Tasks : \A x \in Load[u] : x \notin mail
  BY <1>0 DEF Exact
<1>3. \A u, v \in Tasks : u # v => \A x \in Load[u] : x \notin Load[v]
  BY <1>0 DEF Exact
<1>4. \A x : x \in Load'[t] <=> x \in new \/ (x \in Load[t] /\ x \notin over /\ x \notin back)
  OBVIOUS
<1>5. \A x : x \in HandedOut' => x \in mail' \/ \E u \in Tasks : x \in Load'[u]
  BY <1>1, <1>4
<1>6. \A x : x \in mail' => x \in HandedOut'
  BY <1>1, <1>2
<1>7. \A u \in Tasks : \A x \in Load'[u] : x \in HandedOut'
  <2> TAKE u \in Tasks
  <2>1. CASE u = t
    BY <2>1, <1>1, <1>4
  <2>2. CASE u # t
    <3>1. \A x \in Load[u] : x \notin over
      BY <2>2, <1>3
    <3> QED BY <2>2, <3>1, <1>1
  <2> QED BY <2>1, <2>2
<1>8. \A u \in Tasks : \A x \in Load'[u] : x \notin mail'
  <2> TAKE u \in Tasks
  <2>1. CASE u = t
    BY <2>1, <1>1, <1>2, <1>4
  <2>2. CASE u # t
    BY <2>2, <1>2, <1>3
  <2> QED BY <2>1, <2>2
<1>9. \A u, v \in Tasks : u # v => \A x \in Load'[u] : x \notin Load'[v]
  <2> TAKE u, v \in Tasks
  <2> HAVE u # v
  <2>1. CASE u = t
    BY <2>1, <1>1, <1>3, <1>4
  <2>2. CASE v = t
    BY <2>2, <1>1, <1>3, <1>4
  <2>3. CASE u # t /\ v # t
    BY <2>3, <1>3
  <2> QED BY <2>1, <2>2, <2>3
<1>10. HandedOut' = mail' \cup UNION {Load'[u] : u \in Tasks}
  BY <1>5, <1>6, <1>7
<1>11. Exact(HandedOut', mail', Load')
  BY <1>8, <1>9, <1>10 DEF Exact
<1> QED BY <1>11, GuardsAsLedger

(* The owner hears of one token: it leaves the channel and is not out.      *)
LEMMA GuardsHeard ==
  ASSUME GuardsAreExact, NEW k \in mail, Load' = Load,
         HandedOut' = HandedOut \ {k}, mail' = mail \ {k}
  PROVE  GuardsAreExact'
<1>1. Exact(HandedOut, mail, Load)
  BY GuardsAsLedger
<1>2. \A u \in Tasks : k \notin Load[u]
  BY <1>1 DEF Exact
<1>3. Exact(HandedOut', mail', Load')
  BY <1>1, <1>2 DEF Exact
<1> QED BY <1>3, GuardsAsLedger

-----------------------------------------------------------------------------
(* Tasks.                                                                  *)

\* The guards that go with what a task does.
Burden(k) ==
    (IF k.at \in OpenPhases THEN {CancelOpen(k.session, k.gen)} ELSE {})
    \cup (IF k.at = "evicting" THEN {ReleaseClosing(k.victim, k.vgen)} ELSE {})
    \cup (IF k.at = "stopping" THEN {ReleaseClosing(k.session, k.gen)} ELSE {})
    \cup (IF k.at \in {"sending", "returning"}
            THEN {Abandoned(k.session, k.gen)} ELSE {})
    \cup (IF k.at = "updating" THEN {ReleaseUpdate(k.provider, k.gen)} ELSE {})

\* The phases in which a process of the task's session, or of its victim, exists.
WorkPhases == {"evicting", "opening", "attaching", "cleaning", "stopping",
               "sending", "returning"}

LEMMA BurdenByPhase ==
  ASSUME NEW k
  PROVE  /\ k.at \in AskPhases \cup {"idle"} => Burden(k) = {}
         /\ k.at \in OpenPhases \ {"evicting"} => Burden(k) = {CancelOpen(k.session, k.gen)}
         /\ k.at = "evicting" => Burden(k) = {CancelOpen(k.session, k.gen),
                                              ReleaseClosing(k.victim, k.vgen)}
         /\ k.at = "stopping" => Burden(k) = {ReleaseClosing(k.session, k.gen)}
         /\ k.at \in {"sending", "returning"} => Burden(k) = {Abandoned(k.session, k.gen)}
         /\ k.at = "updating" => Burden(k) = {ReleaseUpdate(k.provider, k.gen)}
<1> DEFINE a == k.at
<1>1. /\ a \in AskPhases \cup {"idle"} => Burden(k) = {}
      /\ a \in OpenPhases \ {"evicting"} => Burden(k) = {CancelOpen(k.session, k.gen)}
  BY DEF Burden, OpenPhases, AskPhases
<1>2. a = "evicting" => Burden(k) = {CancelOpen(k.session, k.gen),
                                     ReleaseClosing(k.victim, k.vgen)}
  BY DEF Burden, OpenPhases
<1>3. /\ a = "stopping" => Burden(k) = {ReleaseClosing(k.session, k.gen)}
      /\ a \in {"sending", "returning"} => Burden(k) = {Abandoned(k.session, k.gen)}
      /\ a = "updating" => Burden(k) = {ReleaseUpdate(k.provider, k.gen)}
  BY DEF Burden, OpenPhases
<1> QED BY <1>1, <1>2, <1>3

LEMMA BurdenIsTokens ==
  ASSUME NEW k \in Task, Named(k)
  PROVE  Burden(k) \subseteq Token
<1>1. \A s \in Sessions, g \in Nat :
          /\ CancelOpen(s, g) \in Token /\ ReleaseClosing(s, g) \in Token
          /\ Abandoned(s, g) \in Token
  BY DEF CancelOpen, ReleaseClosing, Abandoned, Token
<1>2. \A p \in Providers, g \in Nat : ReleaseUpdate(p, g) \in Token
  BY DEF ReleaseUpdate, Token
<1>3. k.gen \in Nat /\ k.vgen \in Nat
  BY DEF Task
<1> QED BY <1>1, <1>2, <1>3 DEF Burden, Named, OpenPhases

(* What changes with one task's record.                                    *)
LEMMA OneTaskMoves ==
  ASSUME TypeOK, TasksNamed, NEW t \in Tasks, NEW k \in Task, Named(k), Become(t, k)
  PROVE  /\ task' \in [Tasks -> Task] /\ task'[t] = k
         /\ \A u \in Tasks : u # t => task'[u] = task[u]
         /\ TasksNamed'
         /\ Load[t] = Burden(task[t]) /\ Load'[t] = Burden(k)
         /\ \A u \in Tasks : u # t => Load'[u] = Load[u]
         /\ AtWork' = IF k.at \in WorkPhases THEN AtWork \cup {t} ELSE AtWork \ {t}
<1>1. /\ task' \in [Tasks -> Task] /\ task'[t] = k
      /\ \A u \in Tasks : u # t => task'[u] = task[u]
  BY DEF TypeOK, Become
<1>2. TasksNamed'
  BY <1>1 DEF TasksNamed
<1>3. /\ \A u \in Tasks : Load[u] = Burden(task[u])
      /\ \A u \in Tasks : Load'[u] = Burden(task'[u])
  BY DEF Load, Carries, Burden
<1>4. \A u \in Tasks : u # t => Load'[u] = Load[u]
  BY <1>1, <1>3
<1>5. AtWork' = IF k.at \in WorkPhases THEN AtWork \cup {t} ELSE AtWork \ {t}
  BY <1>1 DEF AtWork, WorkPhases
<1> QED BY <1>1, <1>2, <1>3, <1>4, <1>5

(* The record of a task that rests, that goes on holding, that is left.     *)
LEMMA IdleIsTask == Idle \in Task /\ Named(Idle) /\ Idle.at = "idle"
  BY DEF Idle, Task, Phases, Named, OpenPhases, AskPhases

LEMMA HoldingBecomes ==
  ASSUME NEW t \in Tasks, task[t] \in Task, NEW at \in Phases, NEW g \in Nat,
         Holding(t, at, g)
  PROVE  \E k \in Task : /\ Become(t, k) /\ k.at = at /\ k.gen = g
                         /\ k.session = task[t].session /\ k.provider = task[t].provider
<1> DEFINE r == task[t]
<1>0. r \in Task
  OBVIOUS
<1> HIDE DEF r
<1>1. PICK k : k = [r EXCEPT !.at = at, !.gen = g]
  OBVIOUS
<1>2. /\ k \in Task /\ k.at = at /\ k.gen = g
      /\ k.session = r.session /\ k.provider = r.provider
  BY <1>0, <1>1 DEF Task
<1>3. Become(t, k)
  BY <1>1, Zenon DEF Holding, r
<1> QED BY <1>2, <1>3 DEF r

LEMMA GoneRecord ==
  ASSUME NEW r \in Task
  PROVE  \E k \in Task : /\ k = [r EXCEPT !.gone = TRUE]
                         /\ k.at = r.at /\ k.gen = r.gen
                         /\ k.session = r.session /\ k.provider = r.provider
                         /\ k.victim = r.victim /\ k.vgen = r.vgen
                         /\ k.access = r.access
<1>1. PICK k : k = [r EXCEPT !.gone = TRUE]
  OBVIOUS
<1>2. /\ k \in Task /\ k.at = r.at /\ k.gen = r.gen /\ k.session = r.session /\ k.provider = r.provider
      /\ k.victim = r.victim /\ k.vgen = r.vgen /\ k.access = r.access
  BY <1>1 DEF Task
<1> QED BY <1>1, <1>2, Zenon

LEMMA EvictingRecord ==
  ASSUME NEW r \in Task, NEW g \in Nat, NEW v \in Sessions, NEW h \in Nat
  PROVE  \E k \in Task : /\ k = [r EXCEPT !.at = "evicting", !.gen = g,
                                          !.victim = v, !.vgen = h]
                         /\ k.at = "evicting" /\ k.gen = g
                         /\ k.session = r.session /\ k.victim = v /\ k.vgen = h
<1>1. PICK k : k = [r EXCEPT !.at = "evicting", !.gen = g, !.victim = v, !.vgen = h]
  OBVIOUS
<1>2. /\ k \in Task /\ k.at = "evicting" /\ k.gen = g /\ k.session = r.session
      /\ k.victim = v /\ k.vgen = h
  BY <1>1 DEF Task, Phases, OpenPhases
<1> QED BY <1>1, <1>2, Zenon

LEMMA OpeningRecord ==
  ASSUME NEW r \in Task
  PROVE  \E k \in Task : /\ k = [r EXCEPT !.at = "opening", !.victim = None, !.vgen = 0]
                         /\ k.at = "opening" /\ k.gen = r.gen
                         /\ k.session = r.session
<1>1. PICK k : k = [r EXCEPT !.at = "opening", !.victim = None, !.vgen = 0]
  OBVIOUS
<1>2. /\ k \in Task /\ k.at = "opening" /\ k.gen = r.gen
      /\ k.session = r.session
  BY <1>1 DEF Task, Phases, OpenPhases
<1> QED BY <1>1, <1>2, Zenon

-----------------------------------------------------------------------------
(* What a token that is out says of the owner's maps.                       *)
LEMMA CarriedIsOwed ==
  ASSUME GuardsAreExact
  PROVE  /\ Exact(HandedOut, mail, Load)
         /\ mail \subseteq HandedOut
         /\ \A t \in Tasks : Load[t] \subseteq HandedOut
  BY GuardsAsLedger DEF Exact

LEMMA OwedTokens ==
  ASSUME TypeOK
  PROVE  /\ \A s, g : CancelOpen(s, g) \in HandedOut =>
               /\ s \in OpeningKeys /\ opening[s] \in Held
               /\ opening[s].gen = g /\ opening[s].state # "Closing"
               /\ HoldToken(s, opening[s]) = CancelOpen(s, g)
         /\ \A s, g : ReleaseClosing(s, g) \in HandedOut =>
               /\ s \in OpeningKeys /\ opening[s] \in Held
               /\ opening[s].gen = g /\ opening[s].state = "Closing"
               /\ HoldToken(s, opening[s]) = ReleaseClosing(s, g)
         /\ \A s, g : Abandoned(s, g) \in HandedOut => s \in Out /\ inFlight[s] = g
         /\ \A p, g : ReleaseUpdate(p, g) \in HandedOut =>
               p \in BeingUpdated /\ updating[p] = g
<1>1. ASSUME NEW s, NEW g, CancelOpen(s, g) \in HandedOut
      PROVE  /\ s \in OpeningKeys /\ opening[s] \in Held
             /\ opening[s].gen = g /\ opening[s].state # "Closing"
             /\ HoldToken(s, opening[s]) = CancelOpen(s, g)
  <2>1. PICK o \in OpeningKeys : /\ opening[o].state # "Closing"
                                 /\ CancelOpen(s, g) = CancelOpen(o, opening[o].gen)
    BY <1>1, TokensTellApart DEF HandedOut
  <2>2. o = s /\ opening[o].gen = g
    BY <2>1, TokensTellApart
  <2> QED BY <2>1, <2>2 DEF OpeningKeys, TypeOK, HoldToken
<1>2. ASSUME NEW s, NEW g, ReleaseClosing(s, g) \in HandedOut
      PROVE  /\ s \in OpeningKeys /\ opening[s] \in Held
             /\ opening[s].gen = g /\ opening[s].state = "Closing"
             /\ HoldToken(s, opening[s]) = ReleaseClosing(s, g)
  <2>1. PICK o \in OpeningKeys : /\ opening[o].state = "Closing"
                                 /\ ReleaseClosing(s, g) = ReleaseClosing(o, opening[o].gen)
    BY <1>2, TokensTellApart DEF HandedOut
  <2>2. o = s /\ opening[o].gen = g
    BY <2>1, TokensTellApart
  <2> QED BY <2>1, <2>2 DEF OpeningKeys, TypeOK, HoldToken
<1>3. ASSUME NEW s, NEW g, Abandoned(s, g) \in HandedOut
      PROVE  s \in Out /\ inFlight[s] = g
  <2>1. PICK o \in Out : Abandoned(s, g) = Abandoned(o, inFlight[o])
    BY <1>3, TokensTellApart DEF HandedOut, Out
  <2> QED BY <2>1, TokensTellApart
<1>4. ASSUME NEW p, NEW g, ReleaseUpdate(p, g) \in HandedOut
      PROVE  p \in BeingUpdated /\ updating[p] = g
  <2>0. /\ ReleaseUpdate(p, g) \notin Holds(opening)
        /\ ReleaseUpdate(p, g) \notin Leases(inFlight)
    BY TokensTellApart, HoldTokensTellApart DEF Holds, Leases
  <2>1. PICK q \in BeingUpdated : ReleaseUpdate(p, g) = ReleaseUpdate(q, updating[q])
    BY <1>4, <2>0, HandedOutByMap DEF Exclusions, BeingUpdated
  <2> QED BY <2>1, TokensTellApart
<1> QED BY <1>1, <1>2, <1>3, <1>4

(* A hold that a task is opening under stays what it is as long as nobody   *)
(* but that task, or the owner on hearing of its token, touches it.         *)
LEMMA PhasesStay ==
  ASSUME TypeOK, TaskInv, GuardsAreExact, NEW A \in SUBSET Tasks,
         \A u \in Tasks : u \notin A => task'[u] = task[u],
         \A o \in Sessions : opening'[o] # opening[o] =>
             \/ o \notin OpeningKeys
             \/ HoldToken(o, opening[o]) \in mail
             \/ \E a \in A : HoldToken(o, opening[o]) \in Load[a],
         \A a \in A : PhaseMatches(a)'
  PROVE  HoldsMatchPhases'
<1> SUFFICES ASSUME NEW u \in Tasks, u \notin A, task[u].at \in OpenPhases
             PROVE  PhaseMatches(u)'
  BY DEF HoldsMatchPhases, PhaseMatches
<1> DEFINE s == task[u].session
           k == CancelOpen(s, task[u].gen)
<1>1. k \in Load[u] /\ s \in Sessions
  BY DEF Load, Carries, TaskInv, TasksNamed, Named
<1>2. /\ s \in OpeningKeys /\ k = HoldToken(s, opening[s])
  BY <1>1, CarriedIsOwed, OwedTokens
<1>3. k \notin mail /\ \A a \in A : k \notin Load[a]
  BY <1>1, CarriedIsOwed DEF Exact
<1>4. opening'[s] = opening[s]
  BY <1>1, <1>2, <1>3
<1> QED BY <1>4 DEF PhaseMatches, TaskInv, HoldsMatchPhases

LEMMA PhasesStayFor ==
  ASSUME TypeOK, TaskInv, GuardsAreExact, NEW t \in Tasks,
         \A u \in Tasks : u # t => task'[u] = task[u],
         \A o \in Sessions : opening'[o] # opening[o] =>
             o \notin OpeningKeys \/ HoldToken(o, opening[o]) \in Load[t],
         PhaseMatches(t)'
  PROVE  HoldsMatchPhases'
<1>1. /\ {t} \in SUBSET Tasks
      /\ \A u \in Tasks : u \notin {t} => task'[u] = task[u]
      /\ \A a \in {t} : PhaseMatches(a)'
  OBVIOUS
<1>2. \A o \in Sessions : opening'[o] # opening[o] =>
          \/ o \notin OpeningKeys
          \/ HoldToken(o, opening[o]) \in mail
          \/ \E a \in {t} : HoldToken(o, opening[o]) \in Load[a]
  OBVIOUS
<1> QED BY <1>1, <1>2, PhasesStay

-----------------------------------------------------------------------------
(* The owner's maps as keys.                                               *)

\* What entering the hold h for the session s does to the map of holds.
Entered(s, h) ==
    /\ opening' \in [Sessions -> Held \cup {None}]
    /\ opening'[s] = h
    /\ \A o \in Sessions : o # s => opening'[o] = opening[o]
    /\ OpeningKeys' = OpeningKeys \cup {s}
    /\ h.state = "ReleasingWorkspace" => Removing' = Removing \cup {s}
    /\ h.state # "ReleasingWorkspace" => Removing' = Removing \ {s}

LEMMA HoldEnters ==
  ASSUME TypeOK, NEW s \in Sessions, NEW h \in Held, opening' = [opening EXCEPT ![s] = h]
  PROVE  Entered(s, h)
<1>1. /\ opening' \in [Sessions -> Held \cup {None}]
      /\ opening'[s] = h /\ h # None
      /\ \A o \in Sessions : o # s => opening'[o] = opening[o]
  BY ManagerAssumption DEF TypeOK
<1>2. OpeningKeys' = OpeningKeys \cup {s}
  BY <1>1 DEF OpeningKeys
<1>3. /\ h.state = "ReleasingWorkspace" => Removing' = Removing \cup {s}
      /\ h.state # "ReleasingWorkspace" => Removing' = Removing \ {s}
  BY <1>1, <1>2 DEF Removing
<1> QED BY <1>1, <1>2, <1>3 DEF Entered

LEMMA HoldLeaves ==
  ASSUME TypeOK, NEW s \in Sessions, opening' = [opening EXCEPT ![s] = None]
  PROVE  /\ opening' \in [Sessions -> Held \cup {None}]
         /\ opening'[s] = None
         /\ \A o \in Sessions : o # s => opening'[o] = opening[o]
         /\ OpeningKeys' = OpeningKeys \ {s}
         /\ Removing' = Removing \ {s}
<1>1. /\ opening' \in [Sessions -> Held \cup {None}]
      /\ opening'[s] = None
      /\ \A o \in Sessions : o # s => opening'[o] = opening[o]
  BY DEF TypeOK
<1>2. OpeningKeys' = OpeningKeys \ {s}
  BY <1>1 DEF OpeningKeys
<1>3. Removing' = Removing \ {s}
  BY <1>1, <1>2 DEF Removing
<1> QED BY <1>1, <1>2, <1>3

LEMMA SessionChanges ==
  ASSUME TypeOK, NEW s \in Sessions, NEW v \in Live, live' = [live EXCEPT ![s] = v]
  PROVE  /\ live' \in [Sessions -> Live \cup {None}]
         /\ LiveKeys' = LiveKeys \cup {s}
         /\ v.agent => WithOwner' = WithOwner \cup {s}
         /\ ~v.agent => WithOwner' = WithOwner \ {s}
<1>1. /\ live' \in [Sessions -> Live \cup {None}]
      /\ live'[s] = v /\ v # None
      /\ \A o \in Sessions : o # s => live'[o] = live[o]
  BY ManagerAssumption DEF TypeOK
<1>2. LiveKeys' = LiveKeys \cup {s}
  BY <1>1 DEF LiveKeys
<1>3. /\ v.agent => WithOwner' = WithOwner \cup {s}
      /\ ~v.agent => WithOwner' = WithOwner \ {s}
  BY <1>1, <1>2 DEF WithOwner
<1> QED BY <1>1, <1>2, <1>3

LEMMA SessionLeaves ==
  ASSUME TypeOK, NEW s \in Sessions, live' = [live EXCEPT ![s] = None]
  PROVE  /\ live' \in [Sessions -> Live \cup {None}]
         /\ LiveKeys' = LiveKeys \ {s}
         /\ WithOwner' = WithOwner \ {s}
<1>1. /\ live' \in [Sessions -> Live \cup {None}]
      /\ live'[s] = None
      /\ \A o \in Sessions : o # s => live'[o] = live[o]
  BY DEF TypeOK
<1>2. LiveKeys' = LiveKeys \ {s}
  BY <1>1 DEF LiveKeys
<1>3. WithOwner' = WithOwner \ {s}
  BY <1>1, <1>2 DEF WithOwner
<1> QED BY <1>1, <1>2, <1>3

LEMMA LeaseChanges ==
  ASSUME TypeOK, NEW s \in Sessions, NEW g \in Nat \cup {None},
         inFlight' = [inFlight EXCEPT ![s] = g]
  PROVE  /\ inFlight' \in [Sessions -> Nat \cup {None}]
         /\ g = None => Out' = Out \ {s}
         /\ g # None => Out' = Out \cup {s}
  BY DEF TypeOK, Out

LEMMA ExclusionChanges ==
  ASSUME TypeOK, NEW p \in Providers, NEW g \in Nat \cup {None},
         updating' = [updating EXCEPT ![p] = g]
  PROVE  /\ updating' \in [Providers -> Nat \cup {None}]
         /\ g = None => BeingUpdated' = BeingUpdated \ {p}
         /\ g # None => BeingUpdated' = BeingUpdated \cup {p}
  BY DEF TypeOK, BeingUpdated

(* An agent that leaves or comes back keeps its session live.               *)
LEMMA AgentRecord ==
  ASSUME NEW s \in Sessions, live \in [Sessions -> Live \cup {None}], live[s] # None,
         NEW b \in BOOLEAN
  PROVE  \E v \in Live : /\ [live EXCEPT ![s].agent = b] = [live EXCEPT ![s] = v]
                         /\ v.agent = b /\ v # None
<1>1. PICK v : v = [live[s] EXCEPT !.agent = b]
  OBVIOUS
<1>2. live[s] \in Live
  OBVIOUS
<1>3. v \in Live /\ v.agent = b
  BY <1>1, <1>2 DEF Live
<1>4. [live EXCEPT ![s].agent = b] = [live EXCEPT ![s] = v]
  BY <1>1, Zenon
<1> QED BY <1>3, <1>4, ManagerAssumption, Zenon

LEMMA LifeRecord ==
  ASSUME NEW s \in Sessions, live \in [Sessions -> Live \cup {None}], live[s] # None,
         NEW l \in {"Idle", "Busy", "Detached"}
  PROVE  \E v \in Live : /\ [live EXCEPT ![s].life = l] = [live EXCEPT ![s] = v]
                         /\ v.agent = live[s].agent /\ v # None
<1>1. PICK v : v = [live[s] EXCEPT !.life = l]
  OBVIOUS
<1>2. live[s] \in Live
  OBVIOUS
<1>3. v \in Live /\ v.agent = live[s].agent
  BY <1>1, <1>2 DEF Live
<1>4. [live EXCEPT ![s].life = l] = [live EXCEPT ![s] = v]
  BY <1>1, Zenon
<1> QED BY <1>3, <1>4, ManagerAssumption, Zenon

-----------------------------------------------------------------------------
(* Processes.                                                              *)

(* Behind every process at work there is a token its task carries.          *)
LEMMA ProcessIsAnchored ==
  ASSUME TypeOK, TaskInv, GuardsAreExact, NEW t \in AtWork
  PROVE  LET p == ProcessOf(t) IN
         \/ /\ p \in OpeningKeys \ Removing
            /\ HoldToken(p, opening[p]) \in Load[t]
         \/ /\ p \in Out
            /\ Abandoned(p, inFlight[p]) \in Load[t]
<1> DEFINE k == task[t]
           p == ProcessOf(t)
<1>1. t \in Tasks /\ Load[t] = Burden(k) /\ Load[t] \subseteq HandedOut
  BY CarriedIsOwed DEF AtWork, Load, Burden, Carries
<1>2. CASE k.at = "evicting"
  <2>1. p = k.victim /\ ReleaseClosing(p, k.vgen) \in Load[t]
    BY <1>1, <1>2, BurdenByPhase DEF ProcessOf
  <2>2. /\ p \in OpeningKeys /\ HoldToken(p, opening[p]) = ReleaseClosing(p, k.vgen)
        /\ opening[p].state = "Closing"
    BY <1>1, <2>1, OwedTokens
  <2> QED BY <2>1, <2>2 DEF Removing
<1>3. CASE k.at \in {"opening", "attaching", "cleaning"}
  <2>1. p = k.session /\ CancelOpen(p, k.gen) \in Load[t]
    BY <1>1, <1>3, BurdenByPhase DEF ProcessOf, OpenPhases
  <2>2. p \in OpeningKeys /\ HoldToken(p, opening[p]) = CancelOpen(p, k.gen)
    BY <1>1, <2>1, OwedTokens
  <2>3. opening[p].state = "Opening"
    BY <1>1, <1>3, <2>1 DEF TaskInv, HoldsMatchPhases, PhaseMatches, StateFor, OpenPhases
  <2> QED BY <2>1, <2>2, <2>3 DEF Removing
<1>4. CASE k.at = "stopping"
  <2>1. p = k.session /\ ReleaseClosing(p, k.gen) \in Load[t]
    BY <1>1, <1>4, BurdenByPhase DEF ProcessOf
  <2>2. /\ p \in OpeningKeys /\ HoldToken(p, opening[p]) = ReleaseClosing(p, k.gen)
        /\ opening[p].state = "Closing"
    BY <1>1, <2>1, OwedTokens
  <2> QED BY <2>1, <2>2 DEF Removing
<1>5. CASE k.at \in {"sending", "returning"}
  <2>1. p = k.session /\ Abandoned(p, k.gen) \in Load[t]
    BY <1>1, <1>5, BurdenByPhase DEF ProcessOf
  <2>2. p \in Out /\ inFlight[p] = k.gen
    BY <1>1, <2>1, OwedTokens
  <2> QED BY <2>1, <2>2
<1> QED BY <1>2, <1>3, <1>4, <1>5 DEF AtWork

(* Hence no session has two processes.                                     *)
LEMMA OneProcessFollows ==
  ASSUME TypeOK, OwnerInv, TaskInv, GuardsAreExact
  PROVE  OneProcessEach
<1>1. ASSUME NEW t \in AtWork PROVE ProcessOf(t) \notin WithOwner
  <2>1. ProcessOf(t) \in OpeningKeys \/ ProcessOf(t) \in Out
    BY ProcessIsAnchored
  <2> QED BY <2>1 DEF OwnerInv, KeysApart, WithOwner
<1>2. ASSUME NEW t \in AtWork, NEW u \in AtWork, ProcessOf(t) = ProcessOf(u) PROVE t = u
  <2> DEFINE p == ProcessOf(t)
  <2>1. ~(p \in OpeningKeys /\ p \in Out)
    BY DEF OwnerInv, KeysApart
  <2>2. \E k : k \in Load[t] /\ k \in Load[u]
    BY <1>2, <2>1, ProcessIsAnchored
  <2>3. \A v, w \in Tasks : v # w => Load[v] \cap Load[w] = {}
    BY CarriedIsOwed DEF Exact
  <2> QED BY <2>2, <2>3 DEF AtWork
<1> QED BY <1>1, <1>2 DEF OneProcessEach

(* Two finite sets apart count together.                                   *)
LEMMA ApartCount ==
  ASSUME NEW S, NEW T, IsFiniteSet(S), IsFiniteSet(T), S \cap T = {}
  PROVE  IsFiniteSet(S \cup T) /\ Cardinality(S \cup T) = Cardinality(S) + Cardinality(T)
<1>1. /\ IsFiniteSet(S \cup T)
      /\ Cardinality(S \cup T) = Cardinality(S) + Cardinality(T) - Cardinality(S \cap T)
  BY FS_Union
<1>2. Cardinality(S \cap T) = 0
  BY FS_EmptySet
<1>3. Cardinality(S) \in Nat /\ Cardinality(T) \in Nat
  BY FS_CardinalityType
<1> QED BY <1>1, <1>2, <1>3

(* A process has a key among the live and the opening ones, so a free slot  *)
(* is room for one more process.                                           *)
LEMMA FreeSlotIsRoom ==
  ASSUME TypeOK, OwnerInv, TaskInv, GuardsAreExact, Occupied < MaxHot
  PROVE  Cardinality(WithOwner) + Cardinality(AtWork) + 1 <= MaxHot
<1> DEFINE Keys == LiveKeys \cup OpeningKeys
           Rest0 == Keys \ WithOwner
           f == [t \in AtWork |-> ProcessOf(t)]
<1>1. /\ IsFiniteSet(LiveKeys) /\ IsFiniteSet(OpeningKeys)
      /\ IsFiniteSet(WithOwner) /\ IsFiniteSet(AtWork)
  BY FS_Subset, ManagerAssumption DEF LiveKeys, OpeningKeys, WithOwner, AtWork
<1>2. IsFiniteSet(Keys) /\ IsFiniteSet(Rest0)
  BY <1>1, FS_Union, FS_Subset
<1>3. f \in Injection(AtWork, Rest0)
  <2>1. \A t \in AtWork : ProcessOf(t) \in Rest0
    <3> TAKE t \in AtWork
    <3>1. ProcessOf(t) \in OpeningKeys \/ ProcessOf(t) \in Out
      BY ProcessIsAnchored
    <3>2. ProcessOf(t) \notin WithOwner
      BY OneProcessFollows DEF OneProcessEach
    <3> QED BY <3>1, <3>2 DEF OwnerInv
  <2>2. \A t, u \in AtWork : ProcessOf(t) = ProcessOf(u) => t = u
    BY OneProcessFollows DEF OneProcessEach
  <2> QED BY <2>1, <2>2 DEF Injection, IsInjective
<1>4. Cardinality(AtWork) <= Cardinality(Rest0)
  BY <1>2, <1>3, FS_Injection
<1>5. Cardinality(Keys) = Cardinality(WithOwner) + Cardinality(Rest0)
  <2>1. Keys = WithOwner \cup Rest0 /\ WithOwner \cap Rest0 = {}
    BY DEF WithOwner
  <2> HIDE DEF Keys, Rest0
  <2> QED BY <1>1, <1>2, <2>1, ApartCount
<1>6. Cardinality(Keys) = Occupied
  <2>1. LiveKeys \cap OpeningKeys = {}
    BY DEF OwnerInv, KeysApart
  <2> QED BY <1>1, <2>1, ApartCount DEF Occupied
<1>7. /\ Cardinality(WithOwner) \in Nat /\ Cardinality(AtWork) \in Nat
      /\ Cardinality(Rest0) \in Nat
  BY <1>1, <1>2, FS_CardinalityType
<1> HIDE DEF Rest0, Keys
<1> QED BY <1>4, <1>5, <1>6, <1>7, ManagerAssumption

(* How many processes there are after one has moved, ended or begun.        *)
LEMMA ProcessesCounted ==
  ASSUME ProcessesBounded,
         \/ WithOwner' \subseteq WithOwner /\ AtWork' \subseteq AtWork
         \/ \E s \in WithOwner, t \in Tasks \ AtWork :
               WithOwner' = WithOwner \ {s} /\ AtWork' = AtWork \cup {t}
         \/ \E s \in Sessions \ WithOwner, t \in AtWork :
               WithOwner' = WithOwner \cup {s} /\ AtWork' = AtWork \ {t}
         \/ /\ Cardinality(WithOwner) + Cardinality(AtWork) + 1 <= MaxHot
            /\ \E t \in Tasks : WithOwner' = WithOwner /\ AtWork' = AtWork \cup {t}
  PROVE  ProcessesBounded'
<1>1. IsFiniteSet(WithOwner) /\ IsFiniteSet(AtWork)
  BY FS_Subset, ManagerAssumption DEF LiveKeys, WithOwner, AtWork
<1>2. Cardinality(WithOwner) \in Nat /\ Cardinality(AtWork) \in Nat
  BY <1>1, FS_CardinalityType
<1>3. CASE WithOwner' \subseteq WithOwner /\ AtWork' \subseteq AtWork
  <2>1. /\ Cardinality(WithOwner') <= Cardinality(WithOwner)
        /\ Cardinality(AtWork') <= Cardinality(AtWork)
        /\ Cardinality(WithOwner') \in Nat /\ Cardinality(AtWork') \in Nat
    BY <1>1, <1>3, FS_Subset, FS_CardinalityType
  <2> QED BY <1>2, <2>1, ManagerAssumption DEF ProcessesBounded
<1>4. ASSUME NEW s \in WithOwner, NEW t \in Tasks \ AtWork,
             WithOwner' = WithOwner \ {s}, AtWork' = AtWork \cup {t}
      PROVE  ProcessesBounded'
  <2>1. /\ Cardinality(WithOwner') = Cardinality(WithOwner) - 1
        /\ Cardinality(AtWork') = Cardinality(AtWork) + 1
    BY <1>1, <1>4, FS_RemoveElement, FS_AddElement
  <2> QED BY <1>2, <2>1, ManagerAssumption DEF ProcessesBounded
<1>5. ASSUME NEW s \in Sessions \ WithOwner, NEW t \in AtWork,
             WithOwner' = WithOwner \cup {s}, AtWork' = AtWork \ {t}
      PROVE  ProcessesBounded'
  <2>1. /\ Cardinality(WithOwner') = Cardinality(WithOwner) + 1
        /\ Cardinality(AtWork') = Cardinality(AtWork) - 1
    BY <1>1, <1>5, FS_RemoveElement, FS_AddElement
  <2> QED BY <1>2, <2>1, ManagerAssumption DEF ProcessesBounded
<1>6. ASSUME Cardinality(WithOwner) + Cardinality(AtWork) + 1 <= MaxHot,
             NEW t \in Tasks, WithOwner' = WithOwner, AtWork' = AtWork \cup {t}
      PROVE  ProcessesBounded'
  <2>1. /\ Cardinality(WithOwner') = Cardinality(WithOwner)
        /\ Cardinality(AtWork') \in {Cardinality(AtWork), Cardinality(AtWork) + 1}
    BY <1>1, <1>6, FS_AddElement
  <2> QED BY <1>2, <1>6, <2>1, ManagerAssumption DEF ProcessesBounded
<1> QED BY <1>3, <1>4, <1>5, <1>6

-----------------------------------------------------------------------------
(* Steps that leave the owner's maps alone: a task moves on, with the       *)
(* guards it keeps, and gives others back.                                 *)
Maps == <<live, opening, inFlight, updating>>

LEMMA OwnerRests ==
  ASSUME UNCHANGED Maps
  PROVE  /\ HandedOut' = HandedOut /\ OwnerInv' = OwnerInv
         /\ WithOwner' = WithOwner /\ opening' = opening
  BY DEF Maps, HandedOut, OwnerInv, KeysApart, UpdateExcludes, CleanupExcludes,
         LiveKeys, OpeningKeys, Removing, Out, BeingUpdated, WithOwner

LEMMA TaskMovesUnder ==
  ASSUME IInv, NEW t \in Tasks, NEW k \in Task, Named(k), Become(t, k),
         UNCHANGED Maps, nextReservation' \in Nat, nextLease' \in Nat,
         working' \subseteq Sessions,
         NEW back \in SUBSET Burden(task[t]), mail' = mail \cup back,
         Burden(k) = Burden(task[t]) \ back,
         k.at \in OpenPhases => /\ task[t].at \in OpenPhases
                                /\ k.session = task[t].session
                                /\ StateFor(k.at) = StateFor(task[t].at),
         k.at \in WorkPhases => task[t].at \in WorkPhases
  PROVE  IInv'
<1>1. /\ TypeOK /\ OwnerInv /\ TaskInv /\ TasksNamed /\ GuardsAreExact /\ ProcessesBounded
  BY DEF IInv, TaskInv
<1>2. /\ task' \in [Tasks -> Task] /\ task'[t] = k
      /\ \A u \in Tasks : u # t => task'[u] = task[u]
      /\ TasksNamed'
      /\ Load[t] = Burden(task[t]) /\ Load'[t] = Burden(k)
      /\ \A u \in Tasks : u # t => Load'[u] = Load[u]
      /\ AtWork' = IF k.at \in WorkPhases THEN AtWork \cup {t} ELSE AtWork \ {t}
  BY <1>1, OneTaskMoves
<1>3. /\ HandedOut' = HandedOut /\ OwnerInv' /\ WithOwner' = WithOwner /\ opening' = opening
  BY <1>1, OwnerRests
<1>4. TypeOK'
  <2>1. task[t] \in Task /\ Named(task[t])
    BY <1>1 DEF TypeOK, TasksNamed
  <2>2. mail' \subseteq Token
    BY <1>1, <2>1, BurdenIsTokens DEF TypeOK
  <2> QED BY <1>1, <1>2, <2>2 DEF TypeOK, Maps
<1>5. GuardsAreExact'
  <2>1. /\ back \subseteq Load[t] /\ {} \subseteq Load[t]
        /\ {} \cap back = {} /\ {} \cap HandedOut = {}
        /\ Load'[t] = (Load[t] \ ({} \cup back)) \cup {}
        /\ HandedOut' = (HandedOut \ {}) \cup {}
    BY <1>2, <1>3
  <2> QED BY <1>1, <1>2, <2>1, GuardsMove
<1>6. HoldsMatchPhases'
  <2>1. PhaseMatches(t)'
    BY <1>1, <1>2, <1>3 DEF TaskInv, HoldsMatchPhases, PhaseMatches
  <2> QED BY <1>1, <1>2, <1>3, <2>1, PhasesStayFor
<1>7. ProcessesBounded'
  <2>1. AtWork' \subseteq AtWork
    BY <1>2 DEF AtWork, WorkPhases
  <2> QED BY <1>1, <1>3, <2>1, ProcessesCounted
<1> QED BY <1>2, <1>3, <1>4, <1>5, <1>6, <1>7 DEF IInv, TaskInv

LEMMA TaskMovesOn ==
  ASSUME IInv, NEW t \in Tasks, NEW k \in Task, Named(k), Become(t, k),
         UNCHANGED keys, working' \subseteq Sessions,
         NEW back \in SUBSET Burden(task[t]), mail' = mail \cup back,
         Burden(k) = Burden(task[t]) \ back,
         k.at \in OpenPhases => /\ task[t].at \in OpenPhases
                                /\ k.session = task[t].session
                                /\ StateFor(k.at) = StateFor(task[t].at),
         k.at \in WorkPhases => task[t].at \in WorkPhases
  PROVE  IInv'
<1>1. UNCHANGED Maps /\ nextReservation' \in Nat /\ nextLease' \in Nat
  BY DEF keys, Maps, IInv, TypeOK
<1> QED BY <1>1, TaskMovesUnder

\* Ending gives everything back.
LEMMA TaskEnds ==
  ASSUME IInv, NEW t \in Tasks, Rest(t), mail' = mail \cup Carries(t),
         UNCHANGED <<keys, working>>
  PROVE  IInv'
<1>0. working' \subseteq Sessions
  BY DEF IInv, TypeOK
<1>1. Become(t, Idle) /\ Burden(Idle) = {} /\ Carries(t) = Burden(task[t])
  BY BurdenByPhase, IdleIsTask DEF Rest, Carries, Burden
<1>2. Idle.at \notin OpenPhases /\ Idle.at \notin WorkPhases
  BY IdleIsTask DEF OpenPhases, WorkPhases
<1>3. /\ Carries(t) \in SUBSET Burden(task[t])
      /\ Burden(Idle) = Burden(task[t]) \ Carries(t)
  BY <1>1
<1> QED BY <1>0, <1>1, <1>2, <1>3, IdleIsTask, TaskMovesOn

LEMMA ClientMovesOn ==
  ASSUME IInv, NEW t \in Tasks, Client(t)
  PROVE  IInv'
<1>0. task[t] \in Task /\ Named(task[t]) /\ working \subseteq Sessions
  BY DEF IInv, TypeOK, TaskInv, TasksNamed
<1>1. ASSUME NEW at \in AskPhases, NEW kind, NEW s \in Sessions \cup {None},
             NEW p \in Providers \cup {None}, NEW a \in {"Exclusive", "Shared"},
             Ask(t, at, kind, s, p, a),
             IF at = "askUpdate" THEN p \in Providers ELSE s \in Sessions
      PROVE  IInv'
  <2> DEFINE k == [Idle EXCEPT !.at = at, !.session = s, !.provider = p, !.access = a]
  <2>1. /\ k \in Task /\ k.at = at /\ k.session = s /\ k.provider = p
    BY DEF Idle, Task, Phases
  <2>2. Named(k)
    BY <1>1, <2>1 DEF Named, AskPhases, OpenPhases
  <2>3. Burden(k) = {} /\ Burden(task[t]) = {}
    BY <1>1, <2>1, BurdenByPhase, IdleIsTask DEF Ask
  <2>4. Become(t, k) /\ UNCHANGED keys /\ working' = working /\ mail' = mail
    BY <1>1 DEF Ask
  <2>5. k.at \notin OpenPhases /\ k.at \notin WorkPhases
    BY <2>1 DEF AskPhases, OpenPhases, WorkPhases
  <2> HIDE DEF k
  <2>6. {} \in SUBSET Burden(task[t]) /\ mail' = mail \cup {} /\ Burden(k) = Burden(task[t]) \ {}
    BY <2>3, <2>4
  <2> QED BY <1>0, <2>1, <2>2, <2>4, <2>5, <2>6, TaskMovesOn
<1>2. CASE AskOpen(t)
  BY <1>1, <1>2, ManagerAssumption DEF AskOpen, AskPhases
<1>3. CASE AskClose(t) \/ AskSend(t) \/ AskClean(t)
  BY <1>1, <1>3 DEF AskClose, AskSend, AskClean, AskPhases
<1>4. CASE AskUpdate(t)
  BY <1>1, <1>4 DEF AskUpdate, AskPhases
<1>5. CASE HangUp(t)
  <2>0. UNCHANGED keys /\ working' = working
    BY <1>5 DEF HangUp
  <2>1. CASE Become(t, [task[t] EXCEPT !.gone = TRUE]) /\ mail' = mail
    <3>1. PICK k \in Task : /\ k = [task[t] EXCEPT !.gone = TRUE]
                            /\ k.at = task[t].at /\ k.gen = task[t].gen
                            /\ k.session = task[t].session /\ k.provider = task[t].provider
                            /\ k.victim = task[t].victim /\ k.vgen = task[t].vgen
      BY <1>0, GoneRecord, ZenonT(40)
    <3>2. Become(t, k)
      BY <2>1, <3>1, Zenon
    <3>3. Named(k) /\ Burden(k) = Burden(task[t])
      BY <1>0, <3>1 DEF Named, Burden
    <3>4. /\ {} \in SUBSET Burden(task[t]) /\ mail' = mail \cup {}
          /\ Burden(k) = Burden(task[t]) \ {}
      BY <2>1, <3>3
    <3> QED BY <1>0, <2>0, <3>1, <3>2, <3>3, <3>4, TaskMovesOn
  <2>2. CASE Rest(t) /\ mail' = mail \cup Carries(t)
    BY <2>0, <2>2, TaskEnds
  <2> QED BY <1>5, <2>1, <2>2 DEF HangUp
<1> QED BY <1>2, <1>3, <1>4, <1>5 DEF Client

LEMMA WorkerMovesOn ==
  ASSUME IInv, NEW t \in Tasks, Worker(t)
  PROVE  IInv'
<1>0. task[t] \in Task /\ Named(task[t]) /\ working \subseteq Sessions
  BY DEF IInv, TypeOK, TaskInv, TasksNamed
<1>1. CASE Finished(t)
  BY <1>1, TaskEnds DEF Finished
<1>2. CASE VictimClosed(t)
  <2>1. CASE mail' = mail \cup Carries(t) /\ Rest(t)
    BY <1>2, <2>1, TaskEnds DEF VictimClosed
  <2>2. CASE /\ mail' = mail \cup {ReleaseClosing(task[t].victim, task[t].vgen)}
             /\ Become(t, [task[t] EXCEPT !.at = "opening", !.victim = None, !.vgen = 0])
    <3>0. task[t].at = "evicting" /\ UNCHANGED keys /\ working' = working
      BY <1>2 DEF VictimClosed
    <3>1. PICK k \in Task : /\ k = [task[t] EXCEPT !.at = "opening", !.victim = None, !.vgen = 0]
                            /\ k.at = "opening" /\ k.gen = task[t].gen
                            /\ k.session = task[t].session
      BY <1>0, OpeningRecord, ZenonT(40)
    <3>2. Become(t, k)
      BY <2>2, <3>1, Zenon
    <3>3. Named(k)
      BY <1>0, <3>0, <3>1 DEF Named, OpenPhases, AskPhases
    <3>4. /\ Burden(k) = {CancelOpen(k.session, k.gen)}
          /\ Burden(task[t]) = {CancelOpen(k.session, k.gen),
                                ReleaseClosing(task[t].victim, task[t].vgen)}
      BY <3>0, <3>1, BurdenByPhase DEF OpenPhases
    <3> DEFINE b == ReleaseClosing(task[t].victim, task[t].vgen)
    <3>5. {b} \in SUBSET Burden(task[t]) /\ Burden(k) = Burden(task[t]) \ {b}
      BY <3>4, TokensTellApart
    <3>6. /\ task[t].at \in OpenPhases /\ StateFor(k.at) = StateFor(task[t].at)
          /\ task[t].at \in WorkPhases
      BY <3>0, <3>1 DEF OpenPhases, WorkPhases, StateFor
    <3> QED BY <1>0, <2>2, <3>0, <3>1, <3>2, <3>3, <3>5, <3>6, TaskMovesOn
  <2> QED BY <1>2, <2>1, <2>2 DEF VictimClosed
<1>3. ASSUME NEW at \in Phases, Holding(t, at, task[t].gen), UNCHANGED <<keys, mail>>,
             working' \subseteq Sessions,
             \/ task[t].at = "opening" /\ at \in {"attaching", "failing"}
             \/ task[t].at = "sending" /\ at = "returning"
      PROVE  IInv'
  <2>0. task[t].gen \in Nat
    BY <1>0 DEF Task
  <2>1. PICK k \in Task : /\ Become(t, k) /\ k.at = at /\ k.gen = task[t].gen
                          /\ k.session = task[t].session
    BY <1>0, <1>3, <2>0, HoldingBecomes
  <2>3. Named(k)
    BY <1>0, <1>3, <2>1 DEF Named, OpenPhases, AskPhases
  <2>4. Burden(k) = Burden(task[t])
    BY <1>3, <2>1, BurdenByPhase DEF OpenPhases
  <2>5. {} \in SUBSET Burden(task[t]) /\ mail' = mail \cup {} /\ Burden(k) = Burden(task[t]) \ {}
    BY <1>3, <2>4
  <2>6. /\ k.at \in OpenPhases => /\ task[t].at \in OpenPhases
                                  /\ StateFor(k.at) = StateFor(task[t].at)
        /\ k.at \in WorkPhases => task[t].at \in WorkPhases
    BY <1>3, <2>1 DEF OpenPhases, WorkPhases, StateFor
  <2> QED BY <1>3, <2>1, <2>3, <2>5, <2>6, TaskMovesOn
<1>4. CASE DriverOpened(t)
  <2>1. PICK at \in {"attaching", "failing"} : Holding(t, at, task[t].gen)
    BY <1>4 DEF DriverOpened
  <2> QED BY <1>0, <1>3, <1>4, <2>1 DEF DriverOpened, Phases, OpenPhases
<1>5. CASE Sent(t)
  <2>1. task[t].session \in Sessions
    BY <1>0, <1>5 DEF Sent, Named
  <2> QED BY <1>0, <1>3, <1>5, <2>1 DEF Sent, Phases
<1> QED BY <1>1, <1>2, <1>4, <1>5 DEF Worker

-----------------------------------------------------------------------------
(* The owner's answers.  A refusal leaves everything as it was.             *)
LEMMA OwnerRefuses ==
  ASSUME IInv, NEW t \in Tasks, task[t].at \in AskPhases, Rest(t), UNCHANGED Maps,
         nextReservation' \in Nat, UNCHANGED <<nextLease, mail, working>>
  PROVE  IInv'
<1>1. Become(t, Idle) /\ Burden(Idle) = {} /\ Burden(task[t]) = {}
  BY BurdenByPhase, IdleIsTask DEF Rest
<1>2. Idle.at \notin OpenPhases /\ Idle.at \notin WorkPhases
  BY IdleIsTask DEF OpenPhases, WorkPhases
<1>3. /\ {} \in SUBSET Burden(task[t]) /\ mail' = mail \cup {}
      /\ Burden(Idle) = Burden(task[t]) \ {}
  BY <1>1
<1>4. nextLease' \in Nat /\ working' \subseteq Sessions
  BY DEF IInv, TypeOK
<1> QED BY <1>1, <1>2, <1>3, <1>4, IdleIsTask, TaskMovesUnder

\* What every step of the owner for one task starts from.
LEMMA Parts ==
  ASSUME IInv, NEW t \in Tasks
  PROVE  /\ TypeOK /\ OwnerInv /\ TaskInv /\ TasksNamed /\ HoldsMatchPhases
         /\ GuardsAreExact /\ ProcessesBounded
         /\ task[t] \in Task /\ Named(task[t]) /\ Load[t] = Burden(task[t])
         /\ nextReservation \in Nat /\ nextLease \in Nat
         /\ live \in [Sessions -> Live \cup {None}]
         /\ opening \in [Sessions -> Held \cup {None}]
         /\ inFlight \in [Sessions -> Nat \cup {None}]
         /\ updating \in [Providers -> Nat \cup {None}]
         /\ mail \subseteq Token /\ working \subseteq Sessions
  BY DEF IInv, TaskInv, TypeOK, TasksNamed, Load, Carries, Burden

\* A hold that is entered for a task, or for what it displaces, is the task's.
LEMMA HoldTaken ==
  ASSUME IInv, NEW t \in Tasks, NEW k \in Task, Burden(task[t]) = {},
         Load'[t] = Burden(k), \A u \in Tasks : u # t => Load'[u] = Load[u],
         NEW s \in Sessions \ OpeningKeys, NEW h \in Held,
         opening' = [opening EXCEPT ![s] = h], Burden(k) = {HoldToken(s, h)},
         UNCHANGED <<inFlight, updating, mail>>
  PROVE  GuardsAreExact'
<1>0. opening[s] = None
  BY DEF OpeningKeys
<1>1. /\ Holds(opening') = Holds(opening) \cup {HoldToken(s, h)}
      /\ HoldToken(s, h) \notin Holds(opening)
  <2>1. opening \in [Sessions -> Held \cup {None}]
    BY Parts
  <2>2. /\ Holds([opening EXCEPT ![s] = h]) = Holds(opening) \cup {HoldToken(s, h)}
        /\ HoldToken(s, h) \notin Holds(opening)
    BY <1>0, <2>1, HoldEntered
  <2> QED BY <2>2
<1>2. HoldToken(s, h) \notin HandedOut
  BY <1>1, HandedOutByMap, HoldTokensTellApart DEF Leases, Exclusions
<1>3. HandedOut' = HandedOut \cup {HoldToken(s, h)}
  BY <1>1, HandedOutByMap
<1> DEFINE n == {HoldToken(s, h)}
<1>4. /\ {} \subseteq Load[t] /\ {} \cap {} = {} /\ n \cap HandedOut = {}
      /\ Load'[t] = (Load[t] \ ({} \cup {})) \cup n
      /\ HandedOut' = (HandedOut \ {}) \cup n /\ mail' = mail \cup {}
  BY <1>2, <1>3, Parts
<1>5. GuardsAreExact
  BY Parts
<1> HIDE DEF n
<1> QED BY <1>4, <1>5, GuardsMove, Zenon

\* A hold that ends in the owner's hands is no longer the task's.
LEMMA HoldEnded ==
  ASSUME IInv, NEW t \in Tasks, NEW s \in OpeningKeys,
         Burden(task[t]) = {HoldToken(s, opening[s])},
         Load'[t] = {}, \A u \in Tasks : u # t => Load'[u] = Load[u],
         opening' = [opening EXCEPT ![s] = None],
         UNCHANGED <<inFlight, updating, mail>>
  PROVE  GuardsAreExact'
<1> DEFINE k == HoldToken(s, opening[s])
           o == {k}
<1>1. Holds(opening') = Holds(opening) \ {k}
  <2>1. s \in Sessions /\ opening[s] # None /\ opening \in [Sessions -> Held \cup {None}]
    BY Parts DEF OpeningKeys
  <2>2. Holds([opening EXCEPT ![s] = None]) = Holds(opening) \ {k}
    BY <2>1, HoldDropped
  <2> QED BY <2>2
<1>2. HandedOut' = HandedOut \ {k}
  <2>1. k \notin Leases(inFlight) /\ k \notin Exclusions(updating)
    BY HoldTokensTellApart DEF Leases, Exclusions
  <2> HIDE DEF k
  <2> QED BY <1>1, <2>1, HandedOutByMap
<1>3. /\ o \subseteq Load[t] /\ {} \subseteq Load[t] /\ o \cap {} = {} /\ {} \cap HandedOut = {}
      /\ Load'[t] = (Load[t] \ (o \cup {})) \cup {}
      /\ HandedOut' = (HandedOut \ o) \cup {} /\ mail' = mail \cup {}
  BY <1>2, Parts
<1> HIDE DEF o
<1>4. GuardsAreExact
  BY Parts
<1> HIDE DEF k
<1> QED BY <1>3, <1>4, GuardsMove, Zenon

\* A hold that becomes another goes on being the task's.
LEMMA HoldChanged ==
  ASSUME IInv, NEW t \in Tasks, NEW s \in OpeningKeys, NEW h \in Held,
         Burden(task[t]) = {HoldToken(s, opening[s])},
         Load'[t] = {HoldToken(s, h)}, \A u \in Tasks : u # t => Load'[u] = Load[u],
         opening' = [opening EXCEPT ![s] = h],
         opening[s].state # "Closing", h.state = "Closing",
         UNCHANGED <<inFlight, updating, mail>>
  PROVE  GuardsAreExact'
<1> DEFINE k == HoldToken(s, opening[s])
           n == HoldToken(s, h)
           o == {k}
           e == {n}
<1>0. k # n /\ n \notin HandedOut
  <2>1. k # n
    BY TokensTellApart DEF HoldToken
  <2>2. n \notin Leases(inFlight) /\ n \notin Exclusions(updating)
    BY HoldTokensTellApart DEF Leases, Exclusions
  <2>3. n \notin Holds(opening)
    BY <2>1, HoldTokensTellApart DEF Holds
  <2> QED BY <2>1, <2>2, <2>3, HandedOutByMap
<1>1. Holds(opening') = (Holds(opening) \ {k}) \cup {n}
  <2>1. s \in Sessions /\ opening[s] # None /\ opening \in [Sessions -> Held \cup {None}]
    BY Parts DEF OpeningKeys
  <2>2. Holds([opening EXCEPT ![s] = h]) = (Holds(opening) \ {k}) \cup {n}
    BY <2>1, HoldReplaced, ZenonT(30)
  <2> QED BY <2>2
<1>2. HandedOut' = (HandedOut \ {k}) \cup {n}
  <2>1. k \notin Leases(inFlight) /\ k \notin Exclusions(updating)
    BY HoldTokensTellApart DEF Leases, Exclusions
  <2> HIDE DEF k, n
  <2> QED BY <1>1, <2>1, HandedOutByMap
<1>3. /\ o \subseteq Load[t] /\ {} \subseteq Load[t] /\ o \cap {} = {} /\ e \cap HandedOut = {}
      /\ Load'[t] = (Load[t] \ (o \cup {})) \cup e
      /\ HandedOut' = (HandedOut \ o) \cup e /\ mail' = mail \cup {}
  BY <1>0, <1>2, Parts
<1>4. GuardsAreExact
  BY Parts
<1> HIDE DEF k, n, o, e
<1> QED BY <1>3, <1>4, GuardsMove, Zenon

-----------------------------------------------------------------------------
(* Slots.                                                                  *)
LEMMA StraightAdmission ==
  ASSUME IInv, NEW t \in Tasks, task[t].at = "askOpen",
         ~RefusesOpen(task[t].session, task[t].access), AdmitStraight(t),
         UNCHANGED <<inFlight, updating, nextLease, mail>>
  PROVE  IInv'
<1> DEFINE s == task[t].session
           g == nextReservation
           h == OpenHold(g)
<1>0. nextReservation' \in Nat /\ nextLease' \in Nat
  BY Parts DEF AdmitStraight
<1>1. CASE task[t].gone
  <2>1. Rest(t) /\ UNCHANGED Maps /\ UNCHANGED <<nextLease, mail, working>>
    BY <1>1 DEF AdmitStraight, Maps
  <2> QED BY <1>0, <2>1, OwnerRefuses DEF AskPhases
<1>2. CASE ~task[t].gone
  <2>0. /\ s \in Sessions /\ s \notin OpeningKeys /\ s \notin LiveKeys
        /\ updating[ProviderOf[s]] = None /\ ProviderOf[s] \in Providers
        /\ \A o \in Removing : ~Overlaps(s, o)
    BY Parts, ManagerAssumption DEF Named, AskPhases, RefusesOpen, Removing
  <2>1. /\ opening' = [opening EXCEPT ![s] = h] /\ Holding(t, "opening", g)
        /\ UNCHANGED <<live, working>> /\ Occupied < MaxHot
    BY <1>2 DEF AdmitStraight
  <2>2. h \in Held /\ h # None /\ h.state = "Opening" /\ h.gen = g
    BY Parts, ManagerAssumption DEF OpenHold, Held
  <2> HIDE DEF h
  <2>3. PICK k \in Task : /\ Become(t, k) /\ k.at = "opening" /\ k.gen = g
                          /\ k.session = s
    BY <2>1, Parts, HoldingBecomes DEF Phases, OpenPhases
  <2>4. Named(k) /\ Burden(k) = {HoldToken(s, h)} /\ Burden(task[t]) = {}
    BY <2>0, <2>2, <2>3, BurdenByPhase DEF Named, OpenPhases, AskPhases, HoldToken
  <2>5. /\ task' \in [Tasks -> Task] /\ task'[t] = k
        /\ \A u \in Tasks : u # t => task'[u] = task[u]
        /\ TasksNamed'
        /\ Load'[t] = Burden(k)
        /\ \A u \in Tasks : u # t => Load'[u] = Load[u]
        /\ AtWork' = AtWork \cup {t}
    BY <2>3, <2>4, Parts, OneTaskMoves DEF WorkPhases
  <2>6. /\ opening' \in [Sessions -> Held \cup {None}]
        /\ opening'[s] = h
        /\ \A o \in Sessions : o # s => opening'[o] = opening[o]
        /\ OpeningKeys' = OpeningKeys \cup {s}
        /\ Removing' = Removing \ {s}
    <3>1. s \in Sessions /\ h \in Held
      BY <2>0, <2>1, <2>2, Parts
    <3>2. opening' = [opening EXCEPT ![s] = h] /\ TypeOK
      BY <2>0, <2>1, <2>2, Parts
    <3>3. Entered(s, h)
      BY ONLY <3>1, <3>2, HoldEnters
    <3> QED BY <2>0, <2>1, <2>2, <3>3 DEF Entered
  <2>7. /\ LiveKeys' = LiveKeys /\ WithOwner' = WithOwner
        /\ Out' = Out /\ BeingUpdated' = BeingUpdated
    BY <2>1 DEF LiveKeys, WithOwner, Out, BeingUpdated
  <2>8. TypeOK'
    BY <1>0, <2>1, <2>5, <2>6, Parts DEF TypeOK
  <2>9. GuardsAreExact'
    BY <2>0, <2>1, <2>2, <2>4, <2>5, HoldTaken
  <2>10. HoldsMatchPhases'
    <3>1. PhaseMatches(t)'
      BY <2>2, <2>3, <2>5, <2>6 DEF PhaseMatches, StateFor
    <3> QED BY <2>0, <2>5, <2>6, <3>1, Parts, PhasesStayFor DEF TaskInv
  <2>11. OwnerInv'
    <3>1. KeysApart' /\ (Out = LiveKeys \ WithOwner)'
      BY <2>0, <2>6, <2>7, Parts DEF OwnerInv, KeysApart
    <3>2. UpdateExcludes'
      BY <2>0, <2>6, <2>7, Parts DEF OwnerInv, UpdateExcludes, BeingUpdated
    <3>3. CleanupExcludes'
      BY <2>0, <2>6, <2>7, Parts DEF OwnerInv, CleanupExcludes, Overlaps
    <3> QED BY <3>1, <3>2, <3>3 DEF OwnerInv
  <2>12. ProcessesBounded'
    BY <2>1, <2>5, <2>7, Parts, FreeSlotIsRoom, ProcessesCounted DEF IInv
  <2> QED BY <2>5, <2>8, <2>9, <2>10, <2>11, <2>12 DEF IInv, TaskInv
<1> QED BY <1>1, <1>2

LEMMA EvictingAdmission ==
  ASSUME IInv, NEW t \in Tasks, task[t].at = "askOpen",
         ~RefusesOpen(task[t].session, task[t].access), AdmitEvicting(t),
         UNCHANGED <<inFlight, updating, nextLease, mail>>
  PROVE  IInv'
<1> DEFINE s == task[t].session
           g == nextReservation
           h == OpenHold(g)
           i == ClosingHold(g + 1)
           f == [opening EXCEPT ![s] = h]
<1>0. PICK v \in MayGiveWay :
        /\ nextReservation' = nextReservation + 2
        /\ opening' = [f EXCEPT ![v] = i]
        /\ live' = [live EXCEPT ![v] = None] /\ working' = working \ {v}
        /\ Become(t, [task[t] EXCEPT !.at = "evicting", !.gen = g,
                                     !.victim = v, !.vgen = g + 1])
  BY DEF AdmitEvicting
<1>1. /\ s \in Sessions /\ s \notin OpeningKeys /\ s \notin LiveKeys
      /\ updating[ProviderOf[s]] = None /\ ProviderOf[s] \in Providers
      /\ \A o \in Removing : ~Overlaps(s, o)
  BY Parts, ManagerAssumption DEF Named, AskPhases, RefusesOpen, Removing
<1>2. /\ v \in WithOwner /\ v \in LiveKeys /\ v \in Sessions /\ v # s /\ v \notin OpeningKeys
  BY <1>1, Parts DEF MayGiveWay, LiveKeys, WithOwner, OwnerInv, KeysApart
<1>3. /\ g \in Nat /\ g + 1 \in Nat /\ nextReservation' \in Nat
  BY <1>0, Parts
<1>4. /\ h \in Held /\ h.state = "Opening" /\ h.gen = g
      /\ i \in Held /\ i.state = "Closing" /\ i.gen = g + 1
  BY <1>3 DEF OpenHold, ClosingHold, Held
<1> HIDE DEF h, i
<1>5. PICK k \in Task : /\ Become(t, k) /\ k.at = "evicting" /\ k.gen = g
                        /\ k.session = s /\ k.victim = v /\ k.vgen = g + 1
  <2> DEFINE r == task[t]
             n == g + 1
  <2>1. r \in Task /\ n \in Nat
    BY <1>3, Parts
  <2> HIDE DEF r, n
  <2>2. PICK k : k = [r EXCEPT !.at = "evicting", !.gen = g, !.victim = v, !.vgen = n]
    OBVIOUS
  <2>3. k \in Task /\ k.at = "evicting" /\ k.gen = g /\ k.session = r.session
        /\ k.victim = v /\ k.vgen = n
    BY <1>2, <1>3, <2>1, <2>2 DEF Task, Phases, OpenPhases
  <2>4. Become(t, k)
    BY <1>0, <2>2, Zenon DEF r, n
  <2> QED BY <2>3, <2>4 DEF r, n
<1>6. /\ Named(k) /\ Burden(task[t]) = {}
      /\ Burden(k) = {HoldToken(s, h), HoldToken(v, i)}
  BY <1>1, <1>2, <1>4, <1>5, BurdenByPhase DEF Named, OpenPhases, AskPhases, HoldToken
<1>7. /\ task' \in [Tasks -> Task] /\ task'[t] = k
      /\ \A u \in Tasks : u # t => task'[u] = task[u]
      /\ TasksNamed'
      /\ Load'[t] = Burden(k)
      /\ \A u \in Tasks : u # t => Load'[u] = Load[u]
      /\ AtWork' = AtWork \cup {t}
  BY <1>5, <1>6, Parts, OneTaskMoves DEF WorkPhases
<1>8. /\ opening' \in [Sessions -> Held \cup {None}]
      /\ opening'[s] = h /\ opening'[v] = i
      /\ \A o \in Sessions : o # s /\ o # v => opening'[o] = opening[o]
  BY <1>0, <1>1, <1>2, <1>4, Parts
<1>9. OpeningKeys' = OpeningKeys \cup {s, v} /\ Removing' = Removing
  <2>1. h # None /\ i # None
    BY <1>4, ManagerAssumption
  <2>2. OpeningKeys' = OpeningKeys \cup {s, v}
    BY <1>1, <1>2, <1>8, <2>1 DEF OpeningKeys
  <2>3. s \notin Removing' /\ v \notin Removing' /\ s \notin Removing /\ v \notin Removing
    BY <1>1, <1>2, <1>4, <1>8 DEF Removing
  <2>4. \A o \in Sessions : o # s /\ o # v => (o \in Removing' <=> o \in Removing)
    BY <1>8, <2>2 DEF Removing
  <2>5. Removing \subseteq Sessions /\ Removing' \subseteq Sessions
    BY DEF Removing, OpeningKeys
  <2> QED BY <2>2, <2>3, <2>4, <2>5
<1>10. /\ live' \in [Sessions -> Live \cup {None}]
       /\ LiveKeys' = LiveKeys \ {v} /\ WithOwner' = WithOwner \ {v}
  BY <1>0, <1>2, Parts, SessionLeaves
<1>11. Out' = Out /\ BeingUpdated' = BeingUpdated
  BY DEF Out, BeingUpdated
<1>12. TypeOK'
  BY <1>0, <1>3, <1>7, <1>8, <1>10, Parts DEF TypeOK
<1>13. GuardsAreExact'
  <2> DEFINE a == HoldToken(s, h)
             b == HoldToken(v, i)
             n == {a, b}
  <2>1. Holds(f) = Holds(opening) \cup {a} /\ a \notin Holds(opening)
    <3>1. opening \in [Sessions -> Held \cup {None}] /\ opening[s] = None
      BY <1>1, Parts DEF OpeningKeys
    <3> QED BY <1>1, <1>4, <3>1, HoldEntered
  <2>2. Holds(opening') = Holds(f) \cup {b} /\ b \notin Holds(f)
    <3>1. f \in [Sessions -> Held \cup {None}] /\ f[v] = None
      BY <1>1, <1>2, <1>4, Parts DEF OpeningKeys
    <3> HIDE DEF f
    <3>2. v \in Sessions /\ i \in Held
      BY <1>2, <1>4
    <3>3. Holds([f EXCEPT ![v] = i]) = Holds(f) \cup {b} /\ b \notin Holds(f)
      BY ONLY <3>1, <3>2, HoldEntered
    <3> QED BY <1>0, <3>3
  <2>3. /\ a \notin Leases(inFlight) /\ a \notin Exclusions(updating)
        /\ b \notin Leases(inFlight) /\ b \notin Exclusions(updating)
    BY HoldTokensTellApart DEF Leases, Exclusions
  <2> HIDE DEF a, b, f
  <2>4. HandedOut' = HandedOut \cup n /\ n \cap HandedOut = {}
    BY <2>1, <2>2, <2>3, HandedOutByMap
  <2>5. /\ {} \subseteq Load[t] /\ {} \cap {} = {} /\ n \cap HandedOut = {}
        /\ Load'[t] = (Load[t] \ ({} \cup {})) \cup n
        /\ HandedOut' = (HandedOut \ {}) \cup n /\ mail' = mail \cup {}
    BY <1>6, <1>7, <2>4, Parts DEF a, b
  <2>6. GuardsAreExact
    BY Parts
  <2> HIDE DEF n
  <2> QED BY <1>7, <2>5, <2>6, GuardsMove, Zenon
<1>14. HoldsMatchPhases'
  <2>1. PhaseMatches(t)'
    BY <1>4, <1>5, <1>7, <1>8 DEF PhaseMatches, StateFor
  <2> QED BY <1>1, <1>2, <1>7, <1>8, <2>1, Parts, PhasesStayFor DEF TaskInv
<1>15. OwnerInv'
  <2>1. KeysApart' /\ (Out = LiveKeys \ WithOwner)'
    BY <1>1, <1>2, <1>9, <1>10, <1>11, Parts DEF OwnerInv, KeysApart
  <2>2. UpdateExcludes'
    BY <1>1, <1>2, <1>9, <1>10, <1>11, Parts DEF OwnerInv, UpdateExcludes, BeingUpdated
  <2>3. CleanupExcludes'
    BY <1>1, <1>2, <1>9, <1>10, <1>11, Parts DEF OwnerInv, CleanupExcludes, Overlaps
  <2> QED BY <2>1, <2>2, <2>3 DEF OwnerInv
<1>16. ProcessesBounded'
  <2>1. t \notin AtWork
    BY DEF AtWork
  <2> QED BY <1>2, <1>7, <1>10, <2>1, Parts, ProcessesCounted
<1> QED BY <1>7, <1>12, <1>13, <1>14, <1>15, <1>16 DEF IInv, TaskInv

LEMMA SlotReserved ==
  ASSUME IInv, NEW t \in Tasks, ReserveOpen(t)
  PROVE  IInv'
<1>1. CASE RefusesOpen(task[t].session, task[t].access) \/ RefuseRoom(t)
  <2>1. task[t].at \in AskPhases
    BY DEF ReserveOpen, AskPhases
  <2>2. /\ Rest(t) /\ UNCHANGED Maps /\ nextReservation' \in Nat
        /\ UNCHANGED <<nextLease, mail, working>>
    <3>1. CASE RefusesOpen(task[t].session, task[t].access)
      BY <3>1, Parts DEF ReserveOpen, Maps
    <3>2. CASE RefuseRoom(t) /\ ~RefusesOpen(task[t].session, task[t].access)
      BY <3>2, Parts, ManagerAssumption DEF ReserveOpen, RefuseRoom, Maps
    <3> QED BY <1>1, <3>1, <3>2
  <2> QED BY <2>1, <2>2, OwnerRefuses
<1>2. CASE ~RefusesOpen(task[t].session, task[t].access) /\ AdmitStraight(t)
  BY <1>2, StraightAdmission DEF ReserveOpen
<1>3. CASE ~RefusesOpen(task[t].session, task[t].access) /\ AdmitEvicting(t)
  BY <1>3, EvictingAdmission DEF ReserveOpen
<1> QED BY <1>1, <1>2, <1>3 DEF ReserveOpen

LEMMA CleanupReserved ==
  ASSUME IInv, NEW t \in Tasks, ReserveWorkspaceCleanup(t)
  PROVE  IInv'
<1> DEFINE s == task[t].session
           g == nextReservation
           h == [gen |-> g, state |-> "ReleasingWorkspace"]
<1>0. /\ task[t].at = "askClean" /\ UNCHANGED <<live, inFlight, updating, nextLease, mail, working>>
      /\ nextReservation' \in Nat /\ s \in Sessions
  BY Parts DEF ReserveWorkspaceCleanup, Named, AskPhases
<1>1. CASE Rest(t) /\ UNCHANGED opening
  <2>1. task[t].at \in AskPhases /\ UNCHANGED Maps
    BY <1>0, <1>1 DEF AskPhases, Maps
  <2> QED BY <1>0, <1>1, <2>1, OwnerRefuses
<1>2. CASE /\ Occupied < MaxHot /\ ~WorkspaceConflict(s)
           /\ Holding(t, "removing", g) /\ opening' = [opening EXCEPT ![s] = h]
  <2>0. /\ \A o \in LiveKeys \cup OpeningKeys : ~Overlaps(s, o)
        /\ s \notin OpeningKeys /\ s \notin LiveKeys
    BY <1>0, <1>2, ManagerAssumption DEF WorkspaceConflict, Overlaps
  <2>2. h \in Held /\ h.state = "ReleasingWorkspace" /\ h.gen = g
    BY Parts DEF Held
  <2> HIDE DEF h
  <2>3. PICK k \in Task : /\ Become(t, k) /\ k.at = "removing" /\ k.gen = g
                          /\ k.session = s
    BY <1>2, Parts, HoldingBecomes DEF Phases, OpenPhases
  <2>4. Named(k) /\ Burden(k) = {HoldToken(s, h)} /\ Burden(task[t]) = {}
    BY <1>0, <2>2, <2>3, BurdenByPhase DEF Named, OpenPhases, AskPhases, HoldToken
  <2>5. /\ task' \in [Tasks -> Task] /\ task'[t] = k
        /\ \A u \in Tasks : u # t => task'[u] = task[u]
        /\ TasksNamed'
        /\ Load'[t] = Burden(k)
        /\ \A u \in Tasks : u # t => Load'[u] = Load[u]
        /\ AtWork' = AtWork \ {t}
    BY <2>3, <2>4, Parts, OneTaskMoves DEF WorkPhases
  <2>6. /\ opening' \in [Sessions -> Held \cup {None}]
        /\ opening'[s] = h
        /\ \A o \in Sessions : o # s => opening'[o] = opening[o]
        /\ OpeningKeys' = OpeningKeys \cup {s}
        /\ Removing' = Removing \cup {s}
    <3>1. s \in Sessions /\ h \in Held
      BY <1>0, <1>2, <2>2, Parts
    <3>2. opening' = [opening EXCEPT ![s] = h] /\ TypeOK
      BY <1>0, <1>2, <2>2, Parts
    <3>3. Entered(s, h)
      BY ONLY <3>1, <3>2, HoldEnters
    <3> QED BY <1>0, <1>2, <2>2, <3>3 DEF Entered
  <2>7. /\ LiveKeys' = LiveKeys /\ WithOwner' = WithOwner
        /\ Out' = Out /\ BeingUpdated' = BeingUpdated
    BY <1>0 DEF LiveKeys, WithOwner, Out, BeingUpdated
  <2>8. TypeOK'
    BY <1>0, <2>5, <2>6, Parts DEF TypeOK
  <2>9. GuardsAreExact'
    BY <1>0, <1>2, <2>0, <2>2, <2>4, <2>5, HoldTaken
  <2>10. HoldsMatchPhases'
    <3>1. PhaseMatches(t)'
      BY <2>2, <2>3, <2>5, <2>6 DEF PhaseMatches, StateFor
    <3> QED BY <2>0, <2>5, <2>6, <3>1, Parts, PhasesStayFor DEF TaskInv
  <2>11. OwnerInv'
    <3>1. KeysApart' /\ (Out = LiveKeys \ WithOwner)'
      BY <2>0, <2>6, <2>7, Parts DEF OwnerInv, KeysApart
    <3>2. UpdateExcludes'
      BY <2>0, <2>6, <2>7, Parts DEF OwnerInv, UpdateExcludes, BeingUpdated
    <3>3. CleanupExcludes'
      <4>1. \A q \in LiveKeys \cup OpeningKeys : ~Overlaps(q, s)
        BY <1>0, <2>0, ManagerAssumption DEF Overlaps, LiveKeys, OpeningKeys
      <4>2. \A o \in Removing : ~Overlaps(s, o)
        BY <2>0 DEF Removing
      <4>3. \A o \in Removing, q \in LiveKeys \cup OpeningKeys : q # o => ~Overlaps(q, o)
        BY Parts DEF OwnerInv, CleanupExcludes
      <4> QED BY <2>6, <2>7, <4>1, <4>2, <4>3 DEF CleanupExcludes, Overlaps
    <3> QED BY <3>1, <3>2, <3>3 DEF OwnerInv
  <2>12. ProcessesBounded'
    BY <2>5, <2>7, Parts, ProcessesCounted
  <2> QED BY <2>5, <2>8, <2>9, <2>10, <2>11, <2>12 DEF IInv, TaskInv
<1> QED
  <2>1. \/ Rest(t) /\ UNCHANGED opening
        \/ /\ ~(Occupied >= MaxHot) /\ ~WorkspaceConflict(s)
           /\ Holding(t, "removing", g) /\ opening' = [opening EXCEPT ![s] = h]
    BY DEF ReserveWorkspaceCleanup
  <2>2. Occupied \in Nat /\ MaxHot \in Nat
    <3>1. IsFiniteSet(LiveKeys) /\ IsFiniteSet(OpeningKeys)
      BY FS_Subset, ManagerAssumption DEF LiveKeys, OpeningKeys
    <3> QED BY <3>1, FS_CardinalityType, ManagerAssumption DEF Occupied
  <2>3. ~(Occupied >= MaxHot) => Occupied < MaxHot
    BY <2>2
  <2> HIDE DEF h
  <2> QED BY <1>1, <1>2, <2>1, <2>3

LEMMA UpdateReserved ==
  ASSUME IInv, NEW t \in Tasks, ReserveProviderUpdate(t)
  PROVE  IInv'
<1> DEFINE p == task[t].provider
           g == nextReservation
<1>0. /\ task[t].at = "askUpdate" /\ UNCHANGED <<live, opening, inFlight, nextLease, mail, working>>
      /\ nextReservation' \in Nat /\ p \in Providers
  BY Parts DEF ReserveProviderUpdate, Named
<1>1. CASE Rest(t) /\ UNCHANGED updating
  <2>1. task[t].at \in AskPhases /\ UNCHANGED Maps
    BY <1>0, <1>1 DEF AskPhases, Maps
  <2> QED BY <1>0, <1>1, <2>1, OwnerRefuses
<1>2. CASE /\ updating[p] = None /\ \A s \in LiveKeys : ProviderOf[s] # p
           /\ \A s \in OpeningKeys : /\ opening[s].state # "ReleasingWorkspace"
                                     => ProviderOf[s] # p
           /\ Holding(t, "updating", g) /\ updating' = [updating EXCEPT ![p] = g]
  <2>1. g \in Nat /\ g # None
    BY Parts, ManagerAssumption
  <2>2. "updating" \in Phases /\ task[t] \in Task
    BY Parts DEF Phases
  <2>3. PICK k \in Task : /\ Become(t, k) /\ k.at = "updating" /\ k.gen = g
                          /\ k.provider = p
    BY <1>2, <2>1, <2>2, HoldingBecomes
  <2>4. Named(k) /\ Burden(k) = {ReleaseUpdate(p, g)} /\ Burden(task[t]) = {}
    BY <1>0, <2>3, BurdenByPhase DEF Named, OpenPhases, AskPhases
  <2>5. /\ task' \in [Tasks -> Task] /\ task'[t] = k
        /\ \A u \in Tasks : u # t => task'[u] = task[u]
        /\ TasksNamed'
        /\ Load'[t] = Burden(k)
        /\ \A u \in Tasks : u # t => Load'[u] = Load[u]
        /\ AtWork' = AtWork \ {t}
    BY <2>3, <2>4, Parts, OneTaskMoves DEF WorkPhases
  <2>6. /\ updating' \in [Providers -> Nat \cup {None}]
        /\ BeingUpdated' = BeingUpdated \cup {p}
    BY <1>0, <1>2, <2>1, Parts, ExclusionChanges
  <2>7. /\ LiveKeys' = LiveKeys /\ WithOwner' = WithOwner
        /\ Out' = Out /\ OpeningKeys' = OpeningKeys /\ Removing' = Removing
    BY <1>0 DEF LiveKeys, WithOwner, Out, OpeningKeys, Removing
  <2>8. TypeOK'
    BY <1>0, <2>5, <2>6, Parts DEF TypeOK
  <2>9. GuardsAreExact'
    <3> DEFINE a == ReleaseUpdate(p, g)
               n == {a}
    <3>1. Exclusions(updating') = Exclusions(updating) \cup {a} /\ a \notin Exclusions(updating)
      <4>1. updating \in [Providers -> Nat \cup {None}]
        BY Parts
      <4>2. /\ Exclusions([updating EXCEPT ![p] = g]) = Exclusions(updating) \cup {a}
            /\ a \notin Exclusions(updating)
        BY <1>0, <1>2, <2>1, <4>1, ExclusionEntered
      <4> QED BY <1>2, <4>2
    <3>2. a \notin Holds(opening) /\ a \notin Leases(inFlight)
      BY TokensTellApart, HoldTokensTellApart DEF Holds, Leases
    <3> HIDE DEF a
    <3>3. HandedOut' = HandedOut \cup {a} /\ a \notin HandedOut
      BY <1>0, <3>1, <3>2, HandedOutByMap
    <3>4. /\ {} \subseteq Load[t] /\ {} \cap {} = {} /\ n \cap HandedOut = {}
          /\ Load'[t] = (Load[t] \ ({} \cup {})) \cup n
          /\ HandedOut' = (HandedOut \ {}) \cup n /\ mail' = mail \cup {}
      BY <1>0, <2>4, <2>5, <3>3, Parts DEF a
    <3>5. GuardsAreExact
      BY Parts
    <3> HIDE DEF n
    <3> QED BY <2>5, <3>4, <3>5, GuardsMove, Zenon
  <2>10. HoldsMatchPhases'
    <3>1. PhaseMatches(t)'
      BY <2>3, <2>5 DEF PhaseMatches, OpenPhases
    <3> QED BY <1>0, <2>5, <3>1, Parts, PhasesStayFor DEF TaskInv
  <2>11. OwnerInv'
    <3>1. \A s \in LiveKeys \cup (OpeningKeys \ Removing) : ProviderOf[s] # p
      BY <1>2 DEF Removing
    <3>2. UpdateExcludes'
      BY <2>6, <2>7, <3>1, Parts DEF OwnerInv, UpdateExcludes
    <3> QED BY <2>7, <3>2, Parts DEF OwnerInv, KeysApart, CleanupExcludes
  <2>12. ProcessesBounded'
    BY <2>5, <2>7, Parts, ProcessesCounted
  <2> QED BY <2>5, <2>8, <2>9, <2>10, <2>11, <2>12 DEF IInv, TaskInv
<1> QED BY <1>1, <1>2 DEF ReserveProviderUpdate

-----------------------------------------------------------------------------
(* Attaching.  The hold of a task that opens is its own and still open.     *)
LEMMA OpenerHolds ==
  ASSUME IInv, NEW t \in Tasks, task[t].at \in OpenPhases \ {"evicting", "removing"}
  PROVE  LET s == task[t].session IN
         /\ s \in Sessions /\ s \in OpeningKeys
         /\ opening[s].gen = task[t].gen /\ opening[s].state = "Opening"
         /\ s \notin LiveKeys /\ s \notin Removing
         /\ Burden(task[t]) = {HoldToken(s, opening[s])}
         /\ Matches(s, task[t].gen, "Opening")
<1> DEFINE s == task[t].session
           c == CancelOpen(s, task[t].gen)
<1>1. s \in Sessions /\ Burden(task[t]) = {c}
  BY Parts, BurdenByPhase DEF Named
<1>2. c \in HandedOut
  BY <1>1, Parts, CarriedIsOwed
<1>3. /\ s \in OpeningKeys /\ opening[s].gen = task[t].gen
      /\ HoldToken(s, opening[s]) = c
  BY <1>2, Parts, OwedTokens
<1>4. opening[s].state = "Opening"
  BY Parts DEF HoldsMatchPhases, PhaseMatches, StateFor
<1> QED BY <1>1, <1>3, <1>4, Parts DEF OwnerInv, KeysApart, Removing, Matches

LEMMA Attached ==
  ASSUME IInv, NEW t \in Tasks, AttachOpened(t)
  PROVE  IInv'
<1> DEFINE s == task[t].session
           g == nextReservation
           h == ClosingHold(g)
           v == [agent |-> TRUE, life |-> "Idle"]
<1>0. /\ task[t].at = "attaching" /\ task[t].gen \in Nat
      /\ UNCHANGED <<inFlight, updating, nextLease, mail, working>>
      /\ s \in Sessions /\ s \in OpeningKeys /\ s \notin LiveKeys /\ s \notin Removing
      /\ opening[s].state = "Opening"
      /\ Burden(task[t]) = {HoldToken(s, opening[s])} /\ t \in AtWork
  BY Parts, OpenerHolds DEF AttachOpened, OpenPhases, Task, AtWork
<1>1. CASE /\ live' = [live EXCEPT ![s] = v] /\ opening' = Released(s)
           /\ Rest(t) /\ UNCHANGED nextReservation
  <2>1. v \in Live /\ v.agent
    BY DEF Live
  <2> HIDE DEF v
  <2>2. /\ live' \in [Sessions -> Live \cup {None}]
        /\ LiveKeys' = LiveKeys \cup {s} /\ WithOwner' = WithOwner \cup {s}
    BY <1>0, <1>1, <2>1, Parts, SessionChanges
  <2>3. /\ opening' \in [Sessions -> Held \cup {None}]
        /\ opening'[s] = None
        /\ \A o \in Sessions : o # s => opening'[o] = opening[o]
        /\ OpeningKeys' = OpeningKeys \ {s}
        /\ Removing' = Removing \ {s}
    BY <1>0, <1>1, Parts, HoldLeaves DEF Released
  <2>4. Become(t, Idle) /\ Burden(Idle) = {}
    BY <1>1, BurdenByPhase, IdleIsTask DEF Rest
  <2>5. /\ task' \in [Tasks -> Task] /\ task'[t] = Idle
        /\ \A u \in Tasks : u # t => task'[u] = task[u]
        /\ TasksNamed'
        /\ Load'[t] = {}
        /\ \A u \in Tasks : u # t => Load'[u] = Load[u]
        /\ AtWork' = AtWork \ {t}
    BY <2>4, Parts, OneTaskMoves, IdleIsTask DEF WorkPhases
  <2>6. Out' = Out /\ BeingUpdated' = BeingUpdated
    BY <1>0 DEF Out, BeingUpdated
  <2>7. TypeOK'
    BY <1>0, <1>1, <2>2, <2>3, <2>5, Parts DEF TypeOK
  <2>8. GuardsAreExact'
    BY <1>0, <1>1, <2>5, HoldEnded DEF Released
  <2>9. HoldsMatchPhases'
    <3>1. PhaseMatches(t)'
      BY <2>5, IdleIsTask DEF PhaseMatches, OpenPhases
    <3> QED BY <1>0, <2>3, <2>5, <3>1, Parts, PhasesStayFor DEF TaskInv
  <2>10. OwnerInv'
    <3>1. KeysApart'
      BY <1>0, <2>2, <2>3, Parts DEF OwnerInv, KeysApart
    <3>2. (Out = LiveKeys \ WithOwner)'
      BY <1>0, <2>2, <2>6, Parts DEF OwnerInv
    <3>3. UpdateExcludes'
      BY <1>0, <2>2, <2>3, <2>6, Parts DEF OwnerInv, UpdateExcludes
    <3>4. CleanupExcludes'
      BY <1>0, <2>2, <2>3, Parts DEF OwnerInv, CleanupExcludes, Overlaps
    <3> QED BY <3>1, <3>2, <3>3, <3>4 DEF OwnerInv
  <2>11. ProcessesBounded'
    <3>1. s \in Sessions \ WithOwner
      BY <1>0 DEF WithOwner
    <3> QED BY <1>0, <2>2, <2>5, <3>1, Parts, ProcessesCounted
  <2> QED BY <2>5, <2>7, <2>8, <2>9, <2>10, <2>11 DEF IInv, TaskInv
<1>2. CASE /\ opening' = [opening EXCEPT ![s] = h] /\ nextReservation' = g + 1
           /\ Holding(t, "stopping", g) /\ UNCHANGED live
  <2>1. h \in Held /\ h.state = "Closing" /\ h.gen = g
    BY Parts DEF Held, ClosingHold
  <2> HIDE DEF h
  <2>2. /\ opening' \in [Sessions -> Held \cup {None}]
        /\ opening'[s] = h
        /\ \A o \in Sessions : o # s => opening'[o] = opening[o]
        /\ OpeningKeys' = OpeningKeys \cup {s}
        /\ Removing' = Removing \ {s}
    <3>1. s \in Sessions /\ h \in Held
      BY <1>0, <1>2, <2>1, Parts
    <3>2. opening' = [opening EXCEPT ![s] = h] /\ TypeOK
      BY <1>0, <1>2, <2>1, Parts
    <3>3. Entered(s, h)
      BY ONLY <3>1, <3>2, HoldEnters
    <3> QED BY <1>0, <1>2, <2>1, <3>3 DEF Entered
  <2>3. "stopping" \in Phases /\ task[t] \in Task /\ g \in Nat
    BY Parts DEF Phases
  <2>4. PICK k \in Task : /\ Become(t, k) /\ k.at = "stopping" /\ k.gen = g
                          /\ k.session = s
    BY <1>2, <2>3, HoldingBecomes
  <2>5. Named(k) /\ Burden(k) = {HoldToken(s, h)}
    BY <1>0, <2>1, <2>4, BurdenByPhase DEF Named, OpenPhases, AskPhases, HoldToken
  <2>6. /\ task' \in [Tasks -> Task] /\ task'[t] = k
        /\ \A u \in Tasks : u # t => task'[u] = task[u]
        /\ TasksNamed'
        /\ Load'[t] = Burden(k)
        /\ \A u \in Tasks : u # t => Load'[u] = Load[u]
        /\ AtWork' = AtWork \cup {t}
    BY <2>4, <2>5, Parts, OneTaskMoves DEF WorkPhases
  <2>7. /\ LiveKeys' = LiveKeys /\ WithOwner' = WithOwner
        /\ Out' = Out /\ BeingUpdated' = BeingUpdated
    BY <1>0, <1>2 DEF LiveKeys, WithOwner, Out, BeingUpdated
  <2>8. TypeOK'
    BY <1>0, <1>2, <2>2, <2>6, Parts DEF TypeOK
  <2>9. GuardsAreExact'
    <3>1. /\ opening[s].state # "Closing" /\ Load'[t] = {HoldToken(s, h)}
          /\ UNCHANGED <<inFlight, updating, mail>>
          /\ opening' = [opening EXCEPT ![s] = h]
      BY <1>0, <1>2, <2>5, <2>6
    <3> QED BY <1>0, <2>1, <2>6, <3>1, HoldChanged, ZenonT(30)
  <2>10. HoldsMatchPhases'
    <3>1. PhaseMatches(t)'
      BY <2>4, <2>6 DEF PhaseMatches, OpenPhases
    <3> QED BY <1>0, <2>2, <2>6, <3>1, Parts, PhasesStayFor DEF TaskInv
  <2>11. OwnerInv'
    <3>1. OpeningKeys' = OpeningKeys /\ Removing' = Removing
      BY <1>0, <2>2
    <3> QED BY <2>7, <3>1, Parts DEF OwnerInv, KeysApart, UpdateExcludes, CleanupExcludes
  <2>12. ProcessesBounded'
    <3>1. AtWork' = AtWork
      BY <1>0, <2>6
    <3> QED BY <2>7, <3>1, Parts, ProcessesCounted
  <2> QED BY <2>6, <2>8, <2>9, <2>10, <2>11, <2>12 DEF IInv, TaskInv
<1>3. CASE Holding(t, "cleaning", task[t].gen) /\ UNCHANGED <<live, opening, nextReservation>>
  <2>1. "cleaning" \in Phases /\ task[t] \in Task
    BY Parts DEF Phases, OpenPhases
  <2>2. PICK k \in Task : /\ Become(t, k) /\ k.at = "cleaning" /\ k.gen = task[t].gen
                          /\ k.session = s
    BY <1>0, <1>3, <2>1, HoldingBecomes
  <2>3. Named(k) /\ Burden(k) = Burden(task[t])
    BY <1>0, <2>2, BurdenByPhase DEF Named, OpenPhases, AskPhases
  <2>4. /\ task[t].at \in OpenPhases /\ StateFor(k.at) = StateFor(task[t].at)
        /\ task[t].at \in WorkPhases
    BY <1>0, <2>2 DEF OpenPhases, WorkPhases, StateFor
  <2>5. /\ {} \in SUBSET Burden(task[t]) /\ mail' = mail \cup {}
        /\ Burden(k) = Burden(task[t]) \ {}
    BY <1>0, <2>3
  <2>6. /\ UNCHANGED Maps /\ nextReservation' \in Nat /\ nextLease' \in Nat
        /\ working' \subseteq Sessions
    BY <1>0, <1>3, Parts DEF Maps
  <2> QED BY <2>2, <2>3, <2>4, <2>5, <2>6, TaskMovesUnder
<1> QED BY <1>1, <1>2, <1>3 DEF AttachOpened

LEMMA Failed ==
  ASSUME IInv, NEW t \in Tasks, OpenFailed(t)
  PROVE  IInv'
<1> DEFINE s == task[t].session
<1>0. /\ task[t].at = "failing"
      /\ UNCHANGED <<live, inFlight, updating, nextReservation, nextLease, mail, working>>
      /\ s \in Sessions /\ s \in OpeningKeys /\ s \notin Removing
      /\ Burden(task[t]) = {HoldToken(s, opening[s])}
      /\ opening' = [opening EXCEPT ![s] = None] /\ Rest(t)
  BY Parts, OpenerHolds DEF OpenFailed, OpenPhases, Released
<1>1. /\ opening' \in [Sessions -> Held \cup {None}]
      /\ opening'[s] = None
      /\ \A o \in Sessions : o # s => opening'[o] = opening[o]
      /\ OpeningKeys' = OpeningKeys \ {s}
      /\ Removing' = Removing \ {s}
  BY <1>0, Parts, HoldLeaves
<1>2. Become(t, Idle) /\ Burden(Idle) = {}
  BY <1>0, BurdenByPhase, IdleIsTask DEF Rest
<1>3. /\ task' \in [Tasks -> Task] /\ task'[t] = Idle
      /\ \A u \in Tasks : u # t => task'[u] = task[u]
      /\ TasksNamed'
      /\ Load'[t] = {}
      /\ \A u \in Tasks : u # t => Load'[u] = Load[u]
      /\ AtWork' = AtWork \ {t}
  BY <1>2, Parts, OneTaskMoves, IdleIsTask DEF WorkPhases
<1>4. /\ LiveKeys' = LiveKeys /\ WithOwner' = WithOwner
      /\ Out' = Out /\ BeingUpdated' = BeingUpdated
  BY <1>0 DEF LiveKeys, WithOwner, Out, BeingUpdated
<1>5. TypeOK'
  BY <1>0, <1>1, <1>3, Parts DEF TypeOK
<1>6. GuardsAreExact'
  BY <1>0, <1>3, HoldEnded
<1>7. HoldsMatchPhases'
  <2>1. PhaseMatches(t)'
    BY <1>3, IdleIsTask DEF PhaseMatches, OpenPhases
  <2> QED BY <1>0, <1>1, <1>3, <2>1, Parts, PhasesStayFor DEF TaskInv
<1>8. OwnerInv'
  BY <1>0, <1>1, <1>4, Parts DEF OwnerInv, KeysApart, UpdateExcludes, CleanupExcludes
<1>9. ProcessesBounded'
  BY <1>3, <1>4, Parts, ProcessesCounted
<1> QED BY <1>3, <1>5, <1>6, <1>7, <1>8, <1>9 DEF IInv, TaskInv

-----------------------------------------------------------------------------
(* Agents.                                                                 *)
LEMMA SessionDropped ==
  ASSUME IInv, NEW s \in WithOwner, live' = [live EXCEPT ![s] = None],
         UNCHANGED <<opening, inFlight, updating>>
  PROVE  /\ live' \in [Sessions -> Live \cup {None}]
         /\ WithOwner' = WithOwner \ {s}
         /\ OwnerInv'
<1>0. TypeOK /\ OwnerInv /\ s \in Sessions
  BY DEF IInv, WithOwner, LiveKeys
<1>1. /\ live' \in [Sessions -> Live \cup {None}]
      /\ LiveKeys' = LiveKeys \ {s} /\ WithOwner' = WithOwner \ {s}
  BY <1>0, SessionLeaves
<1>2. /\ OpeningKeys' = OpeningKeys /\ Removing' = Removing
      /\ Out' = Out /\ BeingUpdated' = BeingUpdated
  BY DEF OpeningKeys, Removing, Out, BeingUpdated
<1> QED BY <1>0, <1>1, <1>2 DEF OwnerInv, KeysApart, UpdateExcludes, CleanupExcludes

LEMMA AgentTaken ==
  ASSUME IInv, NEW t \in Tasks, TakeAgent(t)
  PROVE  IInv'
<1> DEFINE s == task[t].session
           g == nextLease
<1>0. /\ task[t].at = "askSend" /\ s \in Sessions /\ nextLease' \in Nat
      /\ UNCHANGED <<opening, updating, nextReservation, mail>> /\ t \notin AtWork
  BY Parts DEF TakeAgent, Named, AskPhases, AtWork
<1>1. CASE Rest(t) /\ UNCHANGED <<live, inFlight, nextLease, working>>
  <2>1. task[t].at \in AskPhases /\ UNCHANGED Maps /\ nextReservation' \in Nat
    BY <1>0, <1>1, Parts DEF AskPhases, Maps
  <2> QED BY <1>0, <1>1, <2>1, OwnerRefuses
<1>2. CASE /\ s \in WithOwner /\ live' = [live EXCEPT ![s] = None]
           /\ working' = working \ {s} /\ Rest(t) /\ UNCHANGED inFlight
  <2>1. /\ live' \in [Sessions -> Live \cup {None}]
        /\ WithOwner' = WithOwner \ {s} /\ OwnerInv'
    BY <1>0, <1>2, SessionDropped
  <2>2. Become(t, Idle) /\ Burden(Idle) = {} /\ Burden(task[t]) = {}
    BY <1>0, <1>2, BurdenByPhase, IdleIsTask DEF Rest, AskPhases
  <2>3. /\ task' \in [Tasks -> Task] /\ task'[t] = Idle
        /\ \A u \in Tasks : u # t => task'[u] = task[u]
        /\ TasksNamed'
        /\ \A u \in Tasks : Load'[u] = Load[u]
        /\ AtWork' = AtWork \ {t}
    <3>1. TypeOK /\ TasksNamed /\ Load[t] = {} /\ Idle \in Task /\ Named(Idle)
          /\ Idle.at \notin WorkPhases
      BY <2>2, Parts, IdleIsTask DEF WorkPhases
    <3> QED BY <2>2, <3>1, OneTaskMoves
  <2>4. TypeOK'
    BY <1>0, <1>2, <2>1, <2>3, Parts DEF TypeOK
  <2>5. GuardsAreExact'
    <3>1. HandedOut' = HandedOut
      BY <1>0, <1>2, HandedOutByMap
    <3>2. Load' = Load
      BY <2>3 DEF Load
    <3>3. Exact(HandedOut', mail', Load')
      BY <1>0, <3>1, <3>2, Parts, GuardsAsLedger
    <3> QED BY <3>3, GuardsAsLedger
  <2>6. HoldsMatchPhases'
    <3>1. PhaseMatches(t)'
      BY <2>3, IdleIsTask DEF PhaseMatches, OpenPhases
    <3> QED BY <1>0, <2>3, <3>1, Parts, PhasesStayFor DEF TaskInv
  <2>7. ProcessesBounded'
    BY <2>1, <2>3, Parts, ProcessesCounted
  <2> QED BY <2>1, <2>3, <2>4, <2>5, <2>6, <2>7 DEF IInv, TaskInv
<1>3. CASE /\ s \in WithOwner /\ live' = [live EXCEPT ![s].agent = FALSE]
           /\ inFlight' = [inFlight EXCEPT ![s] = g] /\ Holding(t, "sending", g)
           /\ UNCHANGED working
  <2>0. live[s] # None /\ inFlight[s] = None /\ g \in Nat /\ g # None
    BY <1>0, <1>3, Parts, ManagerAssumption DEF WithOwner, LiveKeys, OwnerInv, Out
  <2>1. PICK v \in Live : /\ [live EXCEPT ![s].agent = FALSE] = [live EXCEPT ![s] = v]
                          /\ v.agent = FALSE /\ v # None
    BY <1>0, <2>0, Parts, AgentRecord
  <2>2. /\ live' \in [Sessions -> Live \cup {None}]
        /\ LiveKeys' = LiveKeys \cup {s} /\ WithOwner' = WithOwner \ {s}
    <3>1. live' = [live EXCEPT ![s] = v] /\ ~v.agent
      BY <1>3, <2>1
    <3> QED BY <1>0, <3>1, Parts, SessionChanges
  <2>3. inFlight' \in [Sessions -> Nat \cup {None}] /\ Out' = Out \cup {s}
    BY <1>0, <1>3, <2>0, Parts, LeaseChanges
  <2>4. "sending" \in Phases /\ task[t] \in Task
    BY Parts DEF Phases
  <2>5. PICK k \in Task : /\ Become(t, k) /\ k.at = "sending" /\ k.gen = g
                          /\ k.session = s
    BY <1>3, <2>0, <2>4, HoldingBecomes
  <2>6. Named(k) /\ Burden(k) = {Abandoned(s, g)} /\ Burden(task[t]) = {}
    BY <1>0, <2>5, BurdenByPhase DEF Named, OpenPhases, AskPhases
  <2>7. /\ task' \in [Tasks -> Task] /\ task'[t] = k
        /\ \A u \in Tasks : u # t => task'[u] = task[u]
        /\ TasksNamed'
        /\ Load'[t] = Burden(k)
        /\ \A u \in Tasks : u # t => Load'[u] = Load[u]
        /\ AtWork' = AtWork \cup {t}
    BY <2>5, <2>6, Parts, OneTaskMoves DEF WorkPhases
  <2>8. TypeOK'
    BY <1>0, <1>3, <2>2, <2>3, <2>7, Parts DEF TypeOK
  <2>9. GuardsAreExact'
    <3> DEFINE a == Abandoned(s, g)
               n == {a}
    <3>1. Leases(inFlight') = Leases(inFlight) \cup {a} /\ a \notin Leases(inFlight)
      <4>1. inFlight \in [Sessions -> Nat \cup {None}]
        BY Parts
      <4>2. /\ Leases([inFlight EXCEPT ![s] = g]) = Leases(inFlight) \cup {a}
            /\ a \notin Leases(inFlight)
        BY <1>0, <2>0, <4>1, LeaseEntered
      <4> QED BY <1>3, <4>2
    <3>2. a \notin Holds(opening) /\ a \notin Exclusions(updating)
      BY TokensTellApart, HoldTokensTellApart DEF Holds, Exclusions
    <3> HIDE DEF a
    <3>3. HandedOut' = HandedOut \cup {a} /\ a \notin HandedOut
      BY <1>0, <3>1, <3>2, HandedOutByMap
    <3>4. /\ {} \subseteq Load[t] /\ {} \cap {} = {} /\ n \cap HandedOut = {}
          /\ Load'[t] = (Load[t] \ ({} \cup {})) \cup n
          /\ HandedOut' = (HandedOut \ {}) \cup n /\ mail' = mail \cup {}
      BY <1>0, <2>6, <2>7, <3>3, Parts DEF a
    <3>5. GuardsAreExact
      BY Parts
    <3> HIDE DEF n
    <3> QED BY <2>7, <3>4, <3>5, GuardsMove, Zenon
  <2>10. HoldsMatchPhases'
    <3>1. PhaseMatches(t)'
      BY <2>5, <2>7 DEF PhaseMatches, OpenPhases
    <3> QED BY <1>0, <2>7, <3>1, Parts, PhasesStayFor DEF TaskInv
  <2>11. OwnerInv'
    <3>1. /\ OpeningKeys' = OpeningKeys /\ Removing' = Removing
          /\ BeingUpdated' = BeingUpdated
      BY <1>0 DEF OpeningKeys, Removing, BeingUpdated
    <3>2. LiveKeys' = LiveKeys
      BY <1>3, <2>2 DEF WithOwner
    <3>3. (Out = LiveKeys \ WithOwner)'
      BY <1>3, <2>2, <2>3, <3>2, Parts DEF OwnerInv, WithOwner
    <3> QED BY <3>1, <3>2, <3>3, Parts DEF OwnerInv, KeysApart, UpdateExcludes, CleanupExcludes
  <2>12. ProcessesBounded'
    BY <1>0, <1>3, <2>2, <2>7, Parts, ProcessesCounted
  <2> QED BY <2>7, <2>8, <2>9, <2>10, <2>11, <2>12 DEF IInv, TaskInv
<1>4. s \notin LiveKeys \/ ~live[s].agent \/ s \in WithOwner
  BY DEF WithOwner
<1>5. CASE s \notin LiveKeys \/ ~live[s].agent
  BY <1>1, <1>5 DEF TakeAgent
<1>6. CASE s \in LiveKeys /\ live[s].agent
  BY <1>1, <1>2, <1>3, <1>4, <1>6 DEF TakeAgent
<1> QED BY <1>5, <1>6

LEMMA Returned ==
  ASSUME IInv, NEW t \in Tasks, ReturnAgent(t)
  PROVE  IInv'
<1> DEFINE s == task[t].session
           g == task[t].gen
           a == Abandoned(s, g)
<1>0. /\ task[t].at = "returning" /\ s \in Sessions /\ Burden(task[t]) = {a}
      /\ UNCHANGED <<opening, updating, nextReservation, nextLease, mail>>
      /\ Rest(t) /\ t \in AtWork
  BY Parts, BurdenByPhase DEF ReturnAgent, Named, AtWork
<1>1. a \in HandedOut
  BY <1>0, Parts, CarriedIsOwed
<1>2. s \in Out /\ inFlight[s] = g
  BY <1>1, Parts, OwedTokens
<1>3. s \in LiveKeys /\ s \notin WithOwner /\ live[s] # None
  BY <1>2, Parts DEF OwnerInv, LiveKeys
<1>4. /\ live' = [live EXCEPT ![s].agent = TRUE]
      /\ inFlight' = [inFlight EXCEPT ![s] = None] /\ working' = working
  BY <1>2, <1>3 DEF ReturnAgent
<1>5. PICK v \in Live : /\ [live EXCEPT ![s].agent = TRUE] = [live EXCEPT ![s] = v]
                        /\ v.agent = TRUE /\ v # None
  BY <1>0, <1>3, Parts, AgentRecord
<1>6. /\ live' \in [Sessions -> Live \cup {None}]
      /\ LiveKeys' = LiveKeys /\ WithOwner' = WithOwner \cup {s}
  <2>1. live' = [live EXCEPT ![s] = v] /\ v.agent
    BY <1>4, <1>5
  <2>2. /\ live' \in [Sessions -> Live \cup {None}]
        /\ LiveKeys' = LiveKeys \cup {s} /\ WithOwner' = WithOwner \cup {s}
    BY <1>0, <2>1, Parts, SessionChanges
  <2> QED BY <1>3, <2>2
<1>7. inFlight' \in [Sessions -> Nat \cup {None}] /\ Out' = Out \ {s}
  BY <1>0, <1>4, Parts, LeaseChanges
<1>8. Become(t, Idle) /\ Burden(Idle) = {}
  BY <1>0, BurdenByPhase, IdleIsTask DEF Rest
<1>9. /\ task' \in [Tasks -> Task] /\ task'[t] = Idle
      /\ \A u \in Tasks : u # t => task'[u] = task[u]
      /\ TasksNamed'
      /\ Load'[t] = {}
      /\ \A u \in Tasks : u # t => Load'[u] = Load[u]
      /\ AtWork' = AtWork \ {t}
  BY <1>8, Parts, OneTaskMoves, IdleIsTask DEF WorkPhases
<1>10. TypeOK'
  BY <1>0, <1>4, <1>6, <1>7, <1>9, Parts DEF TypeOK
<1>11. GuardsAreExact'
  <2> DEFINE o == {a}
  <2>1. Leases(inFlight') = Leases(inFlight) \ {a}
    <3>1. inFlight \in [Sessions -> Nat \cup {None}] /\ inFlight[s] # None
      BY <1>2, Parts DEF Out
    <3>2. Leases([inFlight EXCEPT ![s] = None])
             = Leases(inFlight) \ {Abandoned(s, inFlight[s])}
      BY <1>0, <3>1, LeaseDropped
    <3> QED BY <1>2, <1>4, <3>2
  <2>2. a \notin Holds(opening) /\ a \notin Exclusions(updating)
    BY TokensTellApart, HoldTokensTellApart DEF Holds, Exclusions
  <2> HIDE DEF a
  <2>3. HandedOut' = HandedOut \ {a}
    BY <1>0, <2>1, <2>2, HandedOutByMap
  <2>4. /\ o \subseteq Load[t] /\ {} \subseteq Load[t] /\ o \cap {} = {} /\ {} \cap HandedOut = {}
        /\ Load'[t] = (Load[t] \ (o \cup {})) \cup {}
        /\ HandedOut' = (HandedOut \ o) \cup {} /\ mail' = mail \cup {}
    BY <1>0, <1>9, <2>3, Parts
  <2>5. GuardsAreExact
    BY Parts
  <2> HIDE DEF o
  <2> QED BY <1>9, <2>4, <2>5, GuardsMove, Zenon
<1>12. HoldsMatchPhases'
  <2>1. PhaseMatches(t)'
    BY <1>9, IdleIsTask DEF PhaseMatches, OpenPhases
  <2> QED BY <1>0, <1>9, <2>1, Parts, PhasesStayFor DEF TaskInv
<1>13. OwnerInv'
  <2>1. /\ OpeningKeys' = OpeningKeys /\ Removing' = Removing
        /\ BeingUpdated' = BeingUpdated
    BY <1>0 DEF OpeningKeys, Removing, BeingUpdated
  <2> QED BY <1>3, <1>6, <1>7, <2>1, Parts
          DEF OwnerInv, KeysApart, UpdateExcludes, CleanupExcludes
<1>14. ProcessesBounded'
  BY <1>0, <1>3, <1>6, <1>9, Parts, ProcessesCounted
<1> QED BY <1>9, <1>10, <1>11, <1>12, <1>13, <1>14 DEF IInv, TaskInv

LEMMA Closed ==
  ASSUME IInv, NEW t \in Tasks, Close(t)
  PROVE  IInv'
<1> DEFINE s == task[t].session
           g == nextReservation
           h == ClosingHold(g)
<1>0. /\ task[t].at = "askClose" /\ s \in Sessions /\ nextReservation' \in Nat
      /\ UNCHANGED <<inFlight, updating, nextLease, mail>> /\ t \notin AtWork
  BY Parts DEF Close, Named, AskPhases, AtWork
<1>1. CASE Rest(t) /\ UNCHANGED <<live, opening, working>>
  <2>1. task[t].at \in AskPhases /\ UNCHANGED Maps
    BY <1>0, <1>1 DEF AskPhases, Maps
  <2> QED BY <1>0, <1>1, <2>1, OwnerRefuses
<1>2. CASE /\ s \in WithOwner /\ live' = [live EXCEPT ![s] = None]
           /\ working' = working \ {s} /\ opening' = [opening EXCEPT ![s] = h]
           /\ Holding(t, "stopping", g)
  <2>0. s \in LiveKeys /\ s \notin OpeningKeys /\ s \notin Removing
    BY <1>2, Parts DEF WithOwner, OwnerInv, KeysApart, Removing
  <2>1. h \in Held /\ h.state = "Closing" /\ h.gen = g
    BY Parts DEF Held, ClosingHold
  <2> HIDE DEF h
  <2>2. /\ opening' \in [Sessions -> Held \cup {None}]
        /\ opening'[s] = h
        /\ \A o \in Sessions : o # s => opening'[o] = opening[o]
        /\ OpeningKeys' = OpeningKeys \cup {s}
        /\ Removing' = Removing \ {s}
    <3>1. s \in Sessions /\ h \in Held
      BY <1>0, <1>2, <2>1, Parts
    <3>2. opening' = [opening EXCEPT ![s] = h] /\ TypeOK
      BY <1>0, <1>2, <2>1, Parts
    <3>3. Entered(s, h)
      BY ONLY <3>1, <3>2, HoldEnters
    <3> QED BY <1>0, <1>2, <2>1, <3>3 DEF Entered
  <2>3. /\ live' \in [Sessions -> Live \cup {None}]
        /\ LiveKeys' = LiveKeys \ {s} /\ WithOwner' = WithOwner \ {s}
    BY <1>0, <1>2, Parts, SessionLeaves
  <2>4. "stopping" \in Phases /\ task[t] \in Task /\ g \in Nat
    BY Parts DEF Phases
  <2>5. PICK k \in Task : /\ Become(t, k) /\ k.at = "stopping" /\ k.gen = g
                          /\ k.session = s
    BY <1>2, <2>4, HoldingBecomes
  <2>6. Named(k) /\ Burden(k) = {HoldToken(s, h)} /\ Burden(task[t]) = {}
    BY <1>0, <2>1, <2>5, BurdenByPhase DEF Named, OpenPhases, AskPhases, HoldToken
  <2>7. /\ task' \in [Tasks -> Task] /\ task'[t] = k
        /\ \A u \in Tasks : u # t => task'[u] = task[u]
        /\ TasksNamed'
        /\ Load'[t] = Burden(k)
        /\ \A u \in Tasks : u # t => Load'[u] = Load[u]
        /\ AtWork' = AtWork \cup {t}
    BY <2>5, <2>6, Parts, OneTaskMoves DEF WorkPhases
  <2>8. Out' = Out /\ BeingUpdated' = BeingUpdated
    BY <1>0 DEF Out, BeingUpdated
  <2>9. TypeOK'
    BY <1>0, <1>2, <2>2, <2>3, <2>7, Parts DEF TypeOK
  <2>10. GuardsAreExact'
    BY <1>0, <1>2, <2>0, <2>1, <2>6, <2>7, HoldTaken
  <2>11. HoldsMatchPhases'
    <3>1. PhaseMatches(t)'
      BY <2>5, <2>7 DEF PhaseMatches, OpenPhases
    <3> QED BY <2>0, <2>2, <2>7, <3>1, Parts, PhasesStayFor DEF TaskInv
  <2>12. OwnerInv'
    <3>1. KeysApart' /\ (Out = LiveKeys \ WithOwner)'
      BY <1>2, <2>0, <2>2, <2>3, <2>8, Parts DEF OwnerInv, KeysApart
    <3>2. UpdateExcludes'
      BY <2>0, <2>2, <2>3, <2>8, Parts DEF OwnerInv, UpdateExcludes
    <3>3. CleanupExcludes'
      BY <2>0, <2>2, <2>3, Parts DEF OwnerInv, CleanupExcludes, Overlaps
    <3> QED BY <3>1, <3>2, <3>3 DEF OwnerInv
  <2>13. ProcessesBounded'
    BY <1>0, <1>2, <2>3, <2>7, Parts, ProcessesCounted
  <2> QED BY <2>7, <2>9, <2>10, <2>11, <2>12, <2>13 DEF IInv, TaskInv
<1>3. CASE s \notin LiveKeys \/ ~live[s].agent \/ nextReservation = MaxGeneration
  BY <1>1, <1>3 DEF Close
<1>4. CASE s \in LiveKeys /\ live[s].agent /\ nextReservation # MaxGeneration
  <2>1. s \in WithOwner
    BY <1>4 DEF WithOwner
  <2> QED BY <1>2, <1>4, <2>1 DEF Close
<1> QED BY <1>3, <1>4

LEMMA OwnerAnswersSafely ==
  ASSUME IInv, NEW t \in Tasks, Owner(t)
  PROVE  IInv'
  BY SlotReserved, CleanupReserved, UpdateReserved, Attached, Failed, AgentTaken,
     Returned, Closed DEF Owner

-----------------------------------------------------------------------------
(* What the owner hears.                                                   *)
LEMMA NobodyMoves ==
  ASSUME IInv, UNCHANGED task
  PROVE  /\ task' \in [Tasks -> Task] /\ TasksNamed'
         /\ Load' = Load /\ AtWork' = AtWork
  BY DEF IInv, TaskInv, TypeOK, TasksNamed, Load, Carries, AtWork

\* A hold whose token comes back through the channel.
LEMMA HoldHeard ==
  ASSUME IInv, NEW k \in mail, NEW s \in OpeningKeys, k = HoldToken(s, opening[s]),
         opening' = [opening EXCEPT ![s] = None], mail' = mail \ {k},
         UNCHANGED <<live, inFlight, updating, working, nextReservation, nextLease, task>>
  PROVE  IInv'
<1>0. /\ TypeOK /\ OwnerInv /\ TaskInv /\ GuardsAreExact /\ ProcessesBounded
      /\ s \in Sessions /\ opening[s] # None /\ opening \in [Sessions -> Held \cup {None}]
  BY DEF IInv, OpeningKeys, TypeOK
<1>1. /\ opening' \in [Sessions -> Held \cup {None}]
      /\ opening'[s] = None
      /\ \A o \in Sessions : o # s => opening'[o] = opening[o]
      /\ OpeningKeys' = OpeningKeys \ {s}
      /\ Removing' = Removing \ {s}
  BY <1>0, HoldLeaves
<1>2. /\ LiveKeys' = LiveKeys /\ WithOwner' = WithOwner
      /\ Out' = Out /\ BeingUpdated' = BeingUpdated
  BY DEF LiveKeys, WithOwner, Out, BeingUpdated
<1>3. TypeOK'
  BY <1>0, <1>1 DEF TypeOK
<1>4. GuardsAreExact'
  <2>1. Holds(opening') = Holds(opening) \ {k}
    <3>1. Holds([opening EXCEPT ![s] = None]) = Holds(opening) \ {HoldToken(s, opening[s])}
      BY <1>0, HoldDropped
    <3> QED BY <3>1
  <2>2. k \notin Leases(inFlight) /\ k \notin Exclusions(updating)
    BY HoldTokensTellApart DEF Leases, Exclusions
  <2>3. HandedOut' = HandedOut \ {k}
    BY <2>1, <2>2, HandedOutByMap
  <2> QED BY <1>0, <2>3, NobodyMoves, GuardsHeard
<1>5. HoldsMatchPhases'
  <2>1. {} \in SUBSET Tasks /\ \A a \in {} : PhaseMatches(a)'
    OBVIOUS
  <2> QED BY <1>0, <1>1, <2>1, PhasesStay
<1>6. OwnerInv'
  BY <1>0, <1>1, <1>2 DEF OwnerInv, KeysApart, UpdateExcludes, CleanupExcludes
<1>7. ProcessesBounded'
  BY <1>0, <1>2, NobodyMoves, ProcessesCounted
<1> QED BY <1>3, <1>4, <1>5, <1>6, <1>7, NobodyMoves DEF IInv, TaskInv

LEMMA AbandonedHeard ==
  ASSUME IInv, NEW k \in mail, NEW s \in Out, k = Abandoned(s, inFlight[s]),
         inFlight' = [inFlight EXCEPT ![s] = None], live' = [live EXCEPT ![s] = None],
         working' = working \ {s}, mail' = mail \ {k},
         UNCHANGED <<opening, updating, nextReservation, nextLease, task>>
  PROVE  IInv'
<1>0. /\ TypeOK /\ OwnerInv /\ TaskInv /\ GuardsAreExact /\ ProcessesBounded
      /\ s \in Sessions /\ inFlight[s] # None /\ inFlight \in [Sessions -> Nat \cup {None}]
      /\ s \in LiveKeys /\ s \notin WithOwner
  BY DEF IInv, Out, TypeOK, OwnerInv
<1>1. /\ live' \in [Sessions -> Live \cup {None}]
      /\ LiveKeys' = LiveKeys \ {s} /\ WithOwner' = WithOwner \ {s}
  BY <1>0, SessionLeaves
<1>2. inFlight' \in [Sessions -> Nat \cup {None}] /\ Out' = Out \ {s}
  BY <1>0, LeaseChanges
<1>3. /\ OpeningKeys' = OpeningKeys /\ Removing' = Removing
      /\ BeingUpdated' = BeingUpdated
  BY DEF OpeningKeys, Removing, BeingUpdated
<1>4. TypeOK'
  BY <1>0, <1>1, <1>2 DEF TypeOK
<1>5. GuardsAreExact'
  <2>1. Leases(inFlight') = Leases(inFlight) \ {k}
    <3>1. Leases([inFlight EXCEPT ![s] = None]) = Leases(inFlight) \ {Abandoned(s, inFlight[s])}
      BY <1>0, LeaseDropped
    <3> QED BY <3>1
  <2>2. k \notin Holds(opening) /\ k \notin Exclusions(updating)
    BY TokensTellApart, HoldTokensTellApart DEF Holds, Exclusions
  <2>3. HandedOut' = HandedOut \ {k}
    BY <2>1, <2>2, HandedOutByMap
  <2> QED BY <1>0, <2>3, NobodyMoves, GuardsHeard
<1>6. HoldsMatchPhases'
  BY <1>0 DEF TaskInv, HoldsMatchPhases, PhaseMatches
<1>7. OwnerInv'
  BY <1>0, <1>1, <1>2, <1>3 DEF OwnerInv, KeysApart, UpdateExcludes, CleanupExcludes
<1>8. ProcessesBounded'
  BY <1>0, <1>1, NobodyMoves, ProcessesCounted
<1> QED BY <1>4, <1>5, <1>6, <1>7, <1>8, NobodyMoves DEF IInv, TaskInv

LEMMA UpdateHeard ==
  ASSUME IInv, NEW k \in mail, NEW p \in BeingUpdated, k = ReleaseUpdate(p, updating[p]),
         updating' = [updating EXCEPT ![p] = None], mail' = mail \ {k},
         UNCHANGED <<live, opening, inFlight, working, nextReservation, nextLease, task>>
  PROVE  IInv'
<1>0. /\ TypeOK /\ OwnerInv /\ TaskInv /\ GuardsAreExact /\ ProcessesBounded
      /\ p \in Providers /\ updating[p] # None /\ updating \in [Providers -> Nat \cup {None}]
  BY DEF IInv, BeingUpdated, TypeOK
<1>1. updating' \in [Providers -> Nat \cup {None}] /\ BeingUpdated' = BeingUpdated \ {p}
  BY <1>0, ExclusionChanges
<1>2. /\ LiveKeys' = LiveKeys /\ WithOwner' = WithOwner /\ Out' = Out
      /\ OpeningKeys' = OpeningKeys /\ Removing' = Removing
  BY DEF LiveKeys, WithOwner, Out, OpeningKeys, Removing
<1>3. TypeOK'
  BY <1>0, <1>1 DEF TypeOK
<1>4. GuardsAreExact'
  <2>1. Exclusions(updating') = Exclusions(updating) \ {k}
    <3>1. Exclusions([updating EXCEPT ![p] = None])
              = Exclusions(updating) \ {ReleaseUpdate(p, updating[p])}
      BY <1>0, ExclusionDropped
    <3> QED BY <3>1
  <2>2. k \notin Holds(opening) /\ k \notin Leases(inFlight)
    BY TokensTellApart, HoldTokensTellApart DEF Holds, Leases
  <2>3. HandedOut' = HandedOut \ {k}
    BY <2>1, <2>2, HandedOutByMap
  <2> QED BY <1>0, <2>3, NobodyMoves, GuardsHeard
<1>5. HoldsMatchPhases'
  BY <1>0 DEF TaskInv, HoldsMatchPhases, PhaseMatches
<1>6. OwnerInv'
  BY <1>0, <1>1, <1>2 DEF OwnerInv, KeysApart, UpdateExcludes, CleanupExcludes
<1>7. ProcessesBounded'
  BY <1>0, <1>2, NobodyMoves, ProcessesCounted
<1> QED BY <1>3, <1>4, <1>5, <1>6, <1>7, NobodyMoves DEF IInv, TaskInv

LEMMA TokenByKind ==
  ASSUME NEW k \in Token
  PROVE  /\ k.kind = "CancelOpen" => k = CancelOpen(k.who, k.gen)
         /\ k.kind = "ReleaseClosing" => k = ReleaseClosing(k.who, k.gen)
         /\ k.kind = "Abandoned" => k = Abandoned(k.who, k.gen)
         /\ k.kind = "ReleaseUpdate" => k = ReleaseUpdate(k.who, k.gen)
  BY DEF Token, CancelOpen, ReleaseClosing, Abandoned, ReleaseUpdate

LEMMA Heard ==
  ASSUME IInv, NEW k \in mail, Hear(k)
  PROVE  IInv'
<1>0. /\ TypeOK /\ GuardsAreExact /\ k \in Token /\ k \in HandedOut
      /\ mail' = mail \ {k} /\ UNCHANGED <<nextReservation, nextLease, task>>
  <2>1. TypeOK /\ GuardsAreExact
    BY DEF IInv
  <2> QED BY <2>1, CarriedIsOwed DEF TypeOK, Hear
<1> DEFINE w == k.who
<1>1. CASE k.kind = "CancelOpen" /\ HearCancelOpen(k)
  <2>1. k = CancelOpen(w, k.gen)
    BY <1>0, <1>1, TokenByKind
  <2>2. /\ w \in OpeningKeys /\ opening[w] \in Held
        /\ opening[w].gen = k.gen /\ opening[w].state # "Closing"
        /\ HoldToken(w, opening[w]) = k
    BY <1>0, <2>1, OwedTokens
  <2>3. opening[w].state \in {"Opening", "ReleasingWorkspace"}
    BY <2>2 DEF Held
  <2>4. opening' = [opening EXCEPT ![w] = None]
    BY <1>1, <2>2, <2>3 DEF HearCancelOpen, Matches, Released
  <2> QED BY <1>0, <1>1, <2>2, <2>4, HoldHeard DEF HearCancelOpen
<1>2. CASE k.kind = "ReleaseClosing" /\ HearReleaseClosing(k)
  <2>1. k = ReleaseClosing(w, k.gen)
    BY <1>0, <1>2, TokenByKind
  <2>2. /\ w \in OpeningKeys /\ opening[w].gen = k.gen /\ opening[w].state = "Closing"
        /\ HoldToken(w, opening[w]) = k
    BY <1>0, <2>1, OwedTokens
  <2>3. opening' = [opening EXCEPT ![w] = None]
    BY <1>2, <2>2 DEF HearReleaseClosing, Matches, Released
  <2> QED BY <1>0, <1>2, <2>2, <2>3, HoldHeard DEF HearReleaseClosing
<1>3. CASE k.kind = "Abandoned" /\ HearAbandoned(k)
  <2>1. k = Abandoned(w, k.gen)
    BY <1>0, <1>3, TokenByKind
  <2>2. w \in Out /\ inFlight[w] = k.gen
    BY <1>0, <2>1, OwedTokens
  <2> QED BY <1>0, <1>3, <2>1, <2>2, AbandonedHeard DEF HearAbandoned
<1>4. CASE k.kind = "ReleaseUpdate" /\ HearReleaseUpdate(k)
  <2>1. k = ReleaseUpdate(w, k.gen)
    BY <1>0, <1>4, TokenByKind
  <2>2. w \in BeingUpdated /\ updating[w] = k.gen
    BY <1>0, <2>1, OwedTokens
  <2> QED BY <1>0, <1>4, <2>1, <2>2, UpdateHeard DEF HearReleaseUpdate
<1> QED BY <1>1, <1>2, <1>3, <1>4 DEF Hear

-----------------------------------------------------------------------------
(* What the sessions say.                                                  *)
LEMMA Spoken ==
  ASSUME IInv, NEW s \in Sessions, Speaks(s)
  PROVE  IInv'
<1>0. /\ TypeOK /\ OwnerInv /\ TaskInv /\ GuardsAreExact /\ ProcessesBounded
      /\ live \in [Sessions -> Live \cup {None}] /\ working \subseteq Sessions
      /\ s \in LiveKeys /\ live[s].agent /\ s \in WithOwner /\ live[s] # None
      /\ UNCHANGED <<opening, inFlight, updating, nextReservation, nextLease, task, mail>>
  BY DEF IInv, TypeOK, Speaks, TurnStarted, TurnEnded, DetachedSaid, StreamOver, Pump,
         WithOwner, LiveKeys
<1>1. GuardsAreExact'
  <2>1. HandedOut' = HandedOut
    BY <1>0, HandedOutByMap
  <2>2. Exact(HandedOut', mail', Load')
    BY <1>0, <2>1, NobodyMoves, GuardsAsLedger
  <2> QED BY <2>2, GuardsAsLedger
<1>2. HoldsMatchPhases'
  BY <1>0 DEF TaskInv, HoldsMatchPhases, PhaseMatches
<1>3. ASSUME NEW l \in {"Idle", "Busy", "Detached"}, live' = [live EXCEPT ![s].life = l],
             working' \subseteq Sessions
      PROVE  IInv'
  <2>1. PICK v \in Live : /\ [live EXCEPT ![s].life = l] = [live EXCEPT ![s] = v]
                          /\ v.agent = live[s].agent /\ v # None
    BY <1>0, LifeRecord, ZenonT(30)
  <2>2. live' = [live EXCEPT ![s] = v] /\ v.agent
    BY <1>0, <1>3, <2>1
  <2>3. /\ live' \in [Sessions -> Live \cup {None}]
        /\ LiveKeys' = LiveKeys \cup {s} /\ WithOwner' = WithOwner \cup {s}
    BY <1>0, <2>2, SessionChanges
  <2>4. LiveKeys' = LiveKeys /\ WithOwner' = WithOwner
    BY <1>0, <2>3
  <2>5. /\ OpeningKeys' = OpeningKeys /\ Removing' = Removing
        /\ Out' = Out /\ BeingUpdated' = BeingUpdated
    BY <1>0 DEF OpeningKeys, Removing, Out, BeingUpdated
  <2>6. OwnerInv'
    BY <1>0, <2>4, <2>5 DEF OwnerInv, KeysApart, UpdateExcludes, CleanupExcludes
  <2>7. TypeOK'
    BY <1>0, <1>3, <2>3 DEF TypeOK
  <2>8. ProcessesBounded'
    BY <1>0, <2>4, NobodyMoves, ProcessesCounted
  <2> QED BY <1>0, <1>1, <1>2, <2>6, <2>7, <2>8, NobodyMoves DEF IInv, TaskInv
<1>4. CASE TurnStarted(s) \/ TurnEnded(s) \/ DetachedSaid(s)
  <2>1. \E l \in {"Idle", "Busy", "Detached"} : live' = [live EXCEPT ![s].life = l]
    BY <1>4 DEF TurnStarted, TurnEnded, DetachedSaid, Pump
  <2>2. working' \subseteq Sessions
    BY <1>0, <1>4 DEF TurnStarted, TurnEnded, DetachedSaid
  <2> QED BY <1>3, <2>1, <2>2
<1>5. CASE StreamOver(s)
  <2>1. live' = [live EXCEPT ![s] = None] /\ working' = working \ {s}
    BY <1>5 DEF StreamOver
  <2>2. /\ live' \in [Sessions -> Live \cup {None}]
        /\ WithOwner' = WithOwner \ {s} /\ OwnerInv'
    BY <1>0, <2>1, SessionDropped
  <2>3. TypeOK'
    BY <1>0, <2>1, <2>2 DEF TypeOK
  <2>4. ProcessesBounded'
    BY <1>0, <2>2, NobodyMoves, ProcessesCounted
  <2> QED BY <1>0, <1>1, <1>2, <2>2, <2>3, <2>4, NobodyMoves DEF IInv, TaskInv
<1> QED BY <1>4, <1>5 DEF Speaks

-----------------------------------------------------------------------------
(* The inductive invariant holds.                                          *)
LEMMA ManagerInit == Init => IInv
<1> SUFFICES ASSUME Init PROVE IInv
  OBVIOUS
<1>1. \A t \in Tasks : task[t] = Idle
  BY DEF Init
<1>2. TypeOK
  BY IdleIsTask DEF Init, TypeOK
<1>3. LiveKeys = {} /\ OpeningKeys = {} /\ WithOwner = {} /\ Out = {} /\ BeingUpdated = {}
  BY DEF Init, LiveKeys, OpeningKeys, WithOwner, Out, BeingUpdated
<1>4. Removing = {}
  BY <1>3 DEF Removing
<1>5. OwnerInv
  BY <1>3, <1>4 DEF OwnerInv, KeysApart, UpdateExcludes, CleanupExcludes
<1>6. TaskInv
  BY <1>1, IdleIsTask DEF TaskInv, TasksNamed, HoldsMatchPhases, PhaseMatches, OpenPhases
<1>7. GuardsAreExact
  <2>1. HandedOut = {}
    BY <1>3, HandedOutByMap DEF Holds, Leases, Exclusions, OpeningKeys, Out, BeingUpdated
  <2>2. \A t \in Tasks : Load[t] = {}
    <3>1. \A t \in Tasks : Load[t] = Burden(task[t])
      BY DEF Load, Carries, Burden
    <3> QED BY <1>1, <3>1, IdleIsTask, BurdenByPhase
  <2>3. mail = {}
    BY DEF Init
  <2>4. Exact(HandedOut, mail, Load)
    BY <2>1, <2>2, <2>3 DEF Exact
  <2> QED BY <2>4, GuardsAsLedger
<1>8. ProcessesBounded
  <2>1. AtWork = {}
    BY <1>1, IdleIsTask DEF AtWork
  <2> QED BY <1>3, <2>1, FS_EmptySet, ManagerAssumption DEF ProcessesBounded
<1> QED BY <1>2, <1>5, <1>6, <1>7, <1>8 DEF IInv

LEMMA ManagerStep == IInv /\ [Next]_vars => IInv'
<1> SUFFICES ASSUME IInv, [Next]_vars PROVE IInv'
  OBVIOUS
<1>1. ASSUME NEW t \in Tasks, Client(t) \/ Owner(t) \/ Worker(t) PROVE IInv'
  BY <1>1, ClientMovesOn, OwnerAnswersSafely, WorkerMovesOn
<1>2. ASSUME NEW w \in Sessions \cup Providers, HearAbout(w) PROVE IInv'
  BY <1>2, Heard DEF HearAbout
<1>3. ASSUME NEW s \in Sessions, Speaks(s) PROVE IInv'
  BY <1>3, Spoken
<1>4. CASE UNCHANGED vars
  <2>1. UNCHANGED Maps /\ UNCHANGED <<nextReservation, nextLease, task, mail, working>>
    BY <1>4 DEF vars, Maps
  <2>2. /\ OwnerInv' /\ HandedOut' = HandedOut /\ WithOwner' = WithOwner /\ opening' = opening
    BY <2>1, OwnerRests DEF IInv
  <2>3. TypeOK'
    BY <2>1 DEF IInv, TypeOK, Maps
  <2>4. GuardsAreExact'
    <3>1. Exact(HandedOut', mail', Load')
      BY <2>1, <2>2, NobodyMoves, GuardsAsLedger DEF IInv
    <3> QED BY <3>1, GuardsAsLedger
  <2>5. HoldsMatchPhases'
    BY <2>1, <2>2 DEF IInv, TaskInv, HoldsMatchPhases, PhaseMatches
  <2>6. ProcessesBounded'
    BY <2>1, <2>2, NobodyMoves, ProcessesCounted DEF IInv
  <2> QED BY <2>1, <2>2, <2>3, <2>4, <2>5, <2>6, NobodyMoves DEF IInv, TaskInv
<1> QED BY <1>1, <1>2, <1>3, <1>4 DEF Next

(* The owner's maps, what the tasks hold and what is in the channels fit    *)
(* together in every reachable state (manager.rs, serve.rs).               *)
THEOREM ManagerInvariant == Spec => []IInv
  BY ManagerInit, ManagerStep, PTL DEF Spec

(* Every variable of the owner and of its tasks keeps its type.             *)
THEOREM ManagerTypeCorrect == Spec => []TypeOK
<1>1. IInv => TypeOK
  BY DEF IInv
<1> QED BY <1>1, ManagerInvariant, PTL

(* No hold, lease or exclusion of the owner is orphaned, ended twice or     *)
(* ended late, whoever hangs up and in whatever order the owner hears of    *)
(* it, and an agent is away exactly while its lease is recorded.            *)
THEOREM HoldsStayExact == Spec => []HoldsAreExact
<1>1. IInv => HoldsAreExact
  <2> SUFFICES ASSUME IInv PROVE HoldsAreExact
    OBVIOUS
  <2>1. LeaseMatchesAgent
    BY DEF IInv, OwnerInv, LeaseMatchesAgent, Out, WithOwner
  <2> QED BY <2>1 DEF IInv, HoldsAreExact
<1> QED BY <1>1, ManagerInvariant, PTL

(* There are never more processes than MAX_HOT and never two of one         *)
(* session, whatever the capacity and however many tasks.                   *)
THEOREM ProcessesStayExact == Spec => []ProcessesAreExact
<1>1. IInv => ProcessesAreExact
  BY OneProcessFollows DEF IInv, ProcessesAreExact
<1> QED BY <1>1, ManagerInvariant, PTL

\* A process works under a key that no removal and no update may meet.
LEMMA ProcessHasKey ==
  ASSUME IInv, NEW s \in ProcessSessions
  PROVE  s \in LiveKeys \cup (OpeningKeys \ Removing)
<1>1. TypeOK /\ TaskInv /\ GuardsAreExact /\ OwnerInv
  BY DEF IInv
<1>2. CASE s \in WithOwner
  BY <1>2 DEF WithOwner
<1>3. ASSUME NEW t \in AtWork, s = ProcessOf(t)
      PROVE  s \in LiveKeys \cup (OpeningKeys \ Removing)
  <2>1. s \in OpeningKeys \ Removing \/ s \in Out
    BY <1>1, <1>3, ProcessIsAnchored
  <2> QED BY <1>1, <2>1 DEF OwnerInv
<1> QED BY <1>2, <1>3 DEF ProcessSessions

(* No process of a CLI exists while its files are replaced, and none works  *)
(* in a tree that is being removed.                                        *)
THEOREM ChangesAlwaysRunAlone == Spec => []ChangesRunAlone
<1>1. IInv => ChangesRunAlone
  <2> SUFFICES ASSUME IInv PROVE ChangesRunAlone
    OBVIOUS
  <2>1. TypeOK /\ TaskInv /\ GuardsAreExact /\ OwnerInv
    BY DEF IInv
  <2>2. ASSUME NEW t \in Tasks, task[t].at = "updating", NEW s \in ProcessSessions
        PROVE  ProviderOf[s] # task[t].provider
    <3>1. ReleaseUpdate(task[t].provider, task[t].gen) \in HandedOut
      BY <2>1, <2>2, Parts, CarriedIsOwed, BurdenByPhase
    <3>2. task[t].provider \in BeingUpdated
      BY <2>1, <3>1, OwedTokens
    <3> QED BY <2>1, <3>2, ProcessHasKey DEF OwnerInv, UpdateExcludes
  <2>3. ASSUME NEW t \in Tasks, task[t].at = "removing", NEW s \in ProcessSessions
        PROVE  ~Overlaps(task[t].session, s)
    <3> DEFINE o == task[t].session
    <3>1. CancelOpen(o, task[t].gen) \in HandedOut
      BY <2>1, <2>3, Parts, CarriedIsOwed, BurdenByPhase DEF OpenPhases
    <3>2. o \in OpeningKeys /\ o \in Sessions
      BY <2>1, <3>1, OwedTokens DEF OpeningKeys
    <3>3. o \in Removing
      BY <2>1, <2>3, <3>2 DEF TaskInv, HoldsMatchPhases, PhaseMatches, StateFor, OpenPhases,
                              Removing
    <3>4. s \in LiveKeys \cup (OpeningKeys \ Removing) /\ s # o
      BY <2>1, <3>2, <3>3, ProcessHasKey DEF OwnerInv, KeysApart
    <3>5. ~Overlaps(s, o)
      BY <2>1, <3>3, <3>4 DEF OwnerInv, CleanupExcludes
    <3> QED BY <3>2, <3>4, <3>5, ManagerAssumption DEF Overlaps, LiveKeys, OpeningKeys
  <2> QED BY <2>2, <2>3 DEF ChangesRunAlone, UpdateAlone, RemovalAlone
<1> QED BY <1>1, ManagerInvariant, PTL

\* A step is one task's, and leaves the records of the others.
LEMMA OneTaskSteps ==
  ASSUME NEW u \in Tasks, Client(u) \/ Owner(u) \/ Worker(u)
  PROVE  \E k : Become(u, k)
<1>1. CASE Client(u)
  BY <1>1 DEF Client, AskOpen, AskClose, AskSend, AskClean, AskUpdate, Ask, HangUp, Rest
<1>2. CASE ReserveOpen(u)
  BY <1>2 DEF ReserveOpen, AdmitStraight, AdmitEvicting, RefuseRoom, Rest, Holding
<1>3. CASE ReserveWorkspaceCleanup(u) \/ ReserveProviderUpdate(u) \/ Close(u)
  BY <1>3 DEF ReserveWorkspaceCleanup, ReserveProviderUpdate, Close, Rest, Holding
<1>4. CASE AttachOpened(u) \/ OpenFailed(u) \/ TakeAgent(u) \/ ReturnAgent(u)
  BY <1>4 DEF AttachOpened, OpenFailed, TakeAgent, ReturnAgent, Rest, Holding
<1>5. CASE Worker(u)
  BY <1>5 DEF Worker, VictimClosed, DriverOpened, Sent, Finished, Rest, Holding
<1> QED BY <1>1, <1>2, <1>3, <1>4, <1>5 DEF Owner

\* Only the owner's answer takes a task from its request to a slot.
LEMMA OnlyAdmissionOpens ==
  ASSUME IInv, Next, NEW t \in Tasks, task[t].at = "askOpen",
         task'[t].at \in {"opening", "evicting"}
  PROVE  ReserveOpen(t)
<1>1. TypeOK /\ task[t] \in Task /\ task'[t] # task[t]
  BY Parts
<1>2. PICK u \in Tasks : Client(u) \/ Owner(u) \/ Worker(u)
  BY <1>1 DEF Next, HearAbout, Hear, Speaks, TurnStarted, TurnEnded, DetachedSaid,
              StreamOver, Pump
<1>3. u = t
  <2>1. PICK k : Become(u, k)
    BY <1>2, OneTaskSteps
  <2> QED BY <1>1, <2>1 DEF Become, TypeOK
<1>4. ~Client(t)
  <2>1. \A k : Become(t, k) => task'[t] = k
    BY <1>1 DEF Become, TypeOK
  <2>2. task[t] # Idle /\ Idle.at = "idle"
    BY IdleIsTask
  <2>3. ~HangUp(t)
    <3>1. PICK k \in Task : k = [task[t] EXCEPT !.gone = TRUE] /\ k.at = task[t].at
      <4> DEFINE r == task[t]
      <4>0. r \in Task
        BY <1>1
      <4> HIDE DEF r
      <4>1. PICK k : k = [r EXCEPT !.gone = TRUE]
        OBVIOUS
      <4>2. k \in Task /\ k.at = r.at
        BY <4>0, <4>1 DEF Task
      <4> QED BY <4>1, <4>2, Zenon DEF r
    <3>2. HangUp(t) => Become(t, [task[t] EXCEPT !.gone = TRUE]) \/ Become(t, Idle)
      BY DEF HangUp, Rest
    <3>3. Become(t, [task[t] EXCEPT !.gone = TRUE]) => Become(t, k)
      BY <3>1, Zenon
    <3> QED BY <2>1, <2>2, <3>1, <3>2, <3>3
  <2> QED BY <2>2, <2>3 DEF Client, AskOpen, AskClose, AskSend, AskClean, AskUpdate, Ask
<1>5. ~Worker(t)
  BY DEF Worker, VictimClosed, DriverOpened, Sent, Finished
<1> QED BY <1>2, <1>3, <1>4, <1>5
        DEF Owner, ReserveWorkspaceCleanup, ReserveProviderUpdate, AttachOpened, OpenFailed,
            TakeAgent, ReturnAgent, Close

(* A session that is let in as the only writer of its tree finds no         *)
(* process there, not even one that a task still stops.                    *)
THEOREM WritersStartAlone == Spec => WriterAlone
<1> DEFINE Alone ==
             \A t \in Tasks :
                /\ task[t].at = "askOpen" /\ task[t].access = "Exclusive"
                /\ task'[t].at \in {"opening", "evicting"}
                => \A s \in ProcessSessions : ~Overlaps(task[t].session, s)
<1>1. IInv /\ [Next]_vars => [Alone]_vars
  <2> SUFFICES ASSUME IInv, Next, NEW t \in Tasks,
                      task[t].at = "askOpen", task[t].access = "Exclusive",
                      task'[t].at \in {"opening", "evicting"},
                      NEW s \in ProcessSessions
               PROVE  ~Overlaps(task[t].session, s)
    OBVIOUS
  <2>1. ReserveOpen(t)
    BY OnlyAdmissionOpens
  <2>2. ~RefusesOpen(task[t].session, task[t].access)
    <3> SUFFICES ASSUME RefusesOpen(task[t].session, task[t].access) PROVE FALSE
      OBVIOUS
    <3>1. Become(t, Idle)
      BY <2>1 DEF ReserveOpen, Rest
    <3>2. task'[t] = Idle
      BY <3>1, Parts DEF Become, TypeOK
    <3> QED BY <3>2, IdleIsTask
  <2>3. ~WorkspaceConflict(task[t].session)
    BY <2>2 DEF RefusesOpen
  <2>4. s \in LiveKeys \cup OpeningKeys
    BY ProcessHasKey
  <2> QED BY <2>3, <2>4 DEF WorkspaceConflict
<1> QED BY <1>1, ManagerInvariant, PTL DEF Spec, WriterAlone

=============================================================================
