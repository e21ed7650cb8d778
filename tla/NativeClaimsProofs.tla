--------------------------- MODULE NativeClaimsProofs ---------------------------
(***************************************************************************)
(* Theorems about NativeClaims for any number of generations, sessions,     *)
(* terminals, conversations and folders, and any patience.                  *)
(***************************************************************************)
EXTENDS NativeClaims, TLAPS

-----------------------------------------------------------------------------
(* The inductive invariant.                                                *)

Round == [on : BOOLEAN, peers : SUBSET Generations, left : SUBSET Generations,
          lines : SUBSET Claim, asked : Generations \cup {None}, answer : SUBSET Claim]

\* A round is of the serving generation, and asks a peer it has not finished with.
RoundOK(g) ==
    /\ round[g].on => phase[g] = "serving"
    /\ ~ round[g].on => round[g].left = {} /\ round[g].asked = None
    /\ round[g].left \subseteq round[g].peers
    /\ round[g].asked \in round[g].left \cup {None}

RoundsOK == round \in [Generations -> Round] /\ \A g \in Generations : RoundOK(g)

\* One generation serves, who drains says so, and a new one has heard nothing.
PhasesOK ==
    /\ \A g, h \in Generations : phase[g] = "serving" /\ phase[h] = "serving" => g = h
    /\ \A g \in Generations : phase[g] = "draining" => listed[g] = "draining"
    /\ \A g \in Generations : phase[g] = "new" => compatible[g] = {}

\* What is begun belongs to a generation that is there, until it is over.
WorkOK(o) ==
    /\ work[o].gen = None <=> \/ work[o].at = "none"
                              \/ work[o].at = "done" /\ ~ work[o].commit
    /\ work[o].gen # None => /\ phase[work[o].gen] \in {"serving", "draining"}
                             /\ work[o].folder \in Folders
    /\ work[o].native \in stored \cup {None}
    /\ o \in Sessions => /\ work[o].at \in {"none", "opening", "live", "closing", "done"}
                         /\ ~ work[o].commit
    /\ o \in Terminals => work[o].at \in {"none", "admitted", "pending", "running",
                                          "exited", "done"}
    /\ work[o].commit => work[o].at \in {"running", "exited", "done"}
    /\ work[o].at \in {"none", "admitted", "pending"} => ~ work[o].moved

WorksOK == \A o \in Owners : WorkOK(o)

\* A session that is active has exactly its own line.
StructuredOK == \A g \in Generations :
    /\ \A c \in structured[g] : /\ c.owner \in Sessions /\ work[c.owner].gen = g
                                /\ Active(work[c.owner]) /\ c = Line(c.owner)
    /\ \A s \in Sessions : work[s].gen = g /\ Active(work[s]) => Line(s) \in structured[g]

\* A terminal is pending until its claim is committed, then the terminals' own.
Awaited(t, g) == /\ work[t].gen = g
                 /\ \/ work[t].at = "pending"
                    \/ work[t].at \in {"running", "exited"} /\ work[t].commit

Settled(t, g) == /\ work[t].gen = g
                 /\ work[t].at \in {"running", "exited"} /\ ~ work[t].commit

\* The claim of a terminal is of its folder and, unless the person moved it, of its
\* conversation or of none yet.
Faithful(c) == /\ c.folder = work[c.owner].folder
               /\ c.native \in stored \cup {None}
               /\ ~ work[c.owner].moved => c.native \in {None, work[c.owner].native}

TerminalsOK == \A g \in Generations :
    /\ \A c \in pending[g] : c.owner \in Terminals /\ Awaited(c.owner, g) /\ Faithful(c)
    /\ \A c \in terminals[g] : c.owner \in Terminals /\ Settled(c.owner, g) /\ Faithful(c)
    /\ \A t \in Terminals : Awaited(t, g) => \E c \in pending[g] : c.owner = t
    /\ \A t \in Terminals : Settled(t, g) => \E c \in terminals[g] : c.owner = t
    /\ \A c, d \in pending[g] \cup terminals[g] : c.owner = d.owner => c = d

\* A peer the round has finished with has proven itself or been counted.
CountedOK == \A g, p \in Generations :
    round[g].on /\ p \in round[g].peers \ round[g].left
        => p \in compatible[g] \/ misses[g][p] >= 1

\* A claim handed over is still there unless its work is over, or its session has
\* gone on to a conversation of its own.
HandedOK == \A p \in Generations :
    /\ handed[p] # {} => phase[p] = "draining"
    /\ \A c \in handed[p] :
          /\ c.native \in stored \cup {None}
          /\ work[c.owner].at \notin {"none", "admitted"}
          /\ c.native # None /\ c \notin Local(p) =>
                \/ work[c.owner].at = "done"
                \/ c.owner \in Sessions /\ work[c.owner].native # c.native

\* TypeOK by what it types.
PhaseTypes == /\ phase \in [Generations -> {"new", "serving", "draining", "gone"}]
              /\ listed \in [Generations -> {"no", "serving", "draining"}]

RegistryTypes == /\ structured \in [Generations -> SUBSET Claim]
                 /\ pending \in [Generations -> SUBSET Claim]
                 /\ terminals \in [Generations -> SUBSET Claim]
                 /\ handed \in [Generations -> SUBSET Claim]

RelayTypes ==
    /\ remote \in [Generations -> [Generations -> SUBSET Claim]]
    /\ legacy \in [Generations -> SUBSET Generations]
    /\ compatible \in [Generations -> SUBSET Generations]
    /\ misses \in [Generations -> [Generations -> 0 .. Patience]]

WorkTypes == work \in [Owners -> Work] /\ stored \subseteq Natives

GoneOK == \A g \in Generations : phase[g] = "gone" =>
              /\ structured[g] = {} /\ pending[g] = {} /\ terminals[g] = {}
              /\ \A p \in Generations : remote[g][p] = {}

Types == PhaseTypes /\ RegistryTypes /\ RelayTypes /\ WorkTypes /\ GoneOK

Base == /\ Types /\ RoundsOK /\ PhasesOK /\ WorksOK /\ StructuredOK /\ TerminalsOK
        /\ SoleOwner /\ CountedOK /\ HandedOK

\* What a successor must know of p.
Kept(p) == {c \in handed[p] \cap Local(p) : c.native # None}

\* With a locator that can be read, a successor is barred, or knows what p has
\* kept, or has spent its patience on p.
Guarded(g, p) ==
    /\ round[g].on => p \in round[g].peers
    /\ round[g].asked = p => Kept(p) \subseteq round[g].answer
    /\ p \in compatible[g] => Kept(p) \subseteq remote[g][p]
    /\ p \in legacy[g] \/ p \in compatible[g] \/ misses[g][p] >= Patience

HandoverOK == \A g, p \in Generations :
    phase[g] = "serving" /\ phase[p] = "draining" => Guarded(g, p)

IInv == Base /\ (~ Unreadable => HandoverOK)

-----------------------------------------------------------------------------
(* Facts about the state and its changes.                                  *)

LEMMA NoneApart ==
    /\ None \notin Natives /\ None \notin Generations /\ Stored \subseteq Natives
    /\ Sessions \cap Terminals = {} /\ Owners = Sessions \cup Terminals
    /\ Patience \in Nat /\ Patience >= 1
  BY ClaimsAssumption DEF Owners

\* Work does not begin again: what is done stays done, a session keeps its place
\* and only goes on to conversations that are new.
GoesOn(o) ==
    /\ work[o].at = "done" => work'[o].at = "done"
    /\ work[o].at \notin {"none", "admitted"} => work'[o].at \notin {"none", "admitted"}
    /\ o \in Sessions /\ work[o].at # "none" =>
          \/ work'[o].at = "done"
          \/ /\ work'[o].gen = work[o].gen /\ work'[o].folder = work[o].folder
             /\ Active(work'[o])
             /\ \/ work'[o].native = work[o].native
                \/ work'[o].native \notin stored \cup {None}

LEMMA KeptShrinks ==
    ASSUME RegistryTypes, HandedOK, StructuredOK', TerminalsOK', NEW p \in Generations,
           handed'[p] \subseteq handed[p], \A o \in Owners : GoesOn(o)
    PROVE  Kept(p)' \subseteq Kept(p)
<1> SUFFICES ASSUME NEW c \in Kept(p)', c \notin Local(p) PROVE FALSE
  BY DEF Kept
<1>1. c \in handed[p] /\ c.native # None /\ c \in Local(p)'
  BY DEF Kept
<1>2. c.owner \in Owners
  BY <1>1 DEF RegistryTypes, Claim
<1>3. CASE work[c.owner].at = "done"
  <2>1. work'[c.owner].at = "done"
    BY <1>2, <1>3 DEF GoesOn
  <2> QED
    BY <1>1, <2>1 DEF Local, StructuredOK, TerminalsOK, Awaited, Settled, Active
<1>4. CASE c.owner \in Sessions /\ work[c.owner].native # c.native
  <2>1. c \in structured'[p] /\ work'[c.owner].at # "done" /\ work'[c.owner].native = c.native
    BY <1>1, <1>4, NoneApart DEF Local, StructuredOK, TerminalsOK, Active, Line
  <2>2. work'[c.owner].native \notin stored \cup {None}
    BY <1>1, <1>2, <1>4, <2>1 DEF GoesOn, HandedOK
  <2> QED
    BY <1>1, <2>1, <2>2 DEF HandedOK
<1> QED
  BY <1>1, <1>3, <1>4 DEF HandedOK

LEMMA HandedStays ==
    ASSUME RegistryTypes, RegistryTypes', WorksOK, StructuredOK, TerminalsOK, StructuredOK', HandedOK,
           phase' = phase, stored \subseteq stored', \A o \in Owners : GoesOn(o),
           \A p \in Generations : handed'[p] \subseteq handed[p],
           \A p \in Generations : \A c \in handed'[p] :
               c \in pending[p] \cup terminals[p] =>
                   c \in pending'[p] \cup terminals'[p] \/ work'[c.owner].at = "done"
    PROVE  HandedOK'
<1> SUFFICES ASSUME NEW p \in Generations
             PROVE  /\ handed'[p] # {} => phase'[p] = "draining"
                    /\ \A c \in handed'[p] :
                          /\ c.native \in stored' \cup {None}
                          /\ work'[c.owner].at \notin {"none", "admitted"}
                          /\ c.native # None /\ c \notin Local(p)' =>
                                \/ work'[c.owner].at = "done"
                                \/ c.owner \in Sessions /\ work'[c.owner].native # c.native
  BY DEF HandedOK
<1>1. ASSUME NEW c \in handed'[p]
      PROVE  /\ c \in handed[p] /\ c.owner \in Owners /\ GoesOn(c.owner)
             /\ c.native \in stored' \cup {None}
             /\ work'[c.owner].at \notin {"none", "admitted"}
  BY <1>1 DEF RegistryTypes, Claim, HandedOK, GoesOn
<1>2. ASSUME NEW c \in handed'[p], c.native # None, c \notin Local(p)',
             work'[c.owner].at # "done"
      PROVE  c.owner \in Sessions /\ work'[c.owner].native # c.native
  <2>1. c \in handed[p] /\ c.owner \in Owners /\ GoesOn(c.owner)
    BY <1>1, <1>2
  <2>2. c \notin pending[p] \cup terminals[p]
    BY <1>2 DEF Local
  <2>3. CASE c \in structured[p]
    <3>1. /\ c.owner \in Sessions /\ work[c.owner].gen = p /\ Active(work[c.owner])
          /\ c = Line(c.owner)
      BY <2>3 DEF StructuredOK
    <3>2. /\ work'[c.owner].gen = p /\ Active(work'[c.owner])
          /\ work'[c.owner].folder = work[c.owner].folder
      BY <1>2, <2>1, <3>1 DEF GoesOn, Active
    <3>3. Line(c.owner)' \in structured'[p]
      BY <3>1, <3>2 DEF StructuredOK
    <3>4. c # Line(c.owner)'
      BY <1>2, <3>3 DEF Local
    <3> QED
      BY <3>1, <3>2, <3>4 DEF Line
  <2>4. CASE c \notin structured[p]
    <3>1. /\ c.owner \in Sessions /\ work[c.owner].native # c.native
          /\ work[c.owner].at \notin {"none", "done"}
      BY <1>2, <2>1, <2>2, <2>4 DEF HandedOK, Local, GoesOn
    <3>2. c.native \in stored
      BY <1>2, <2>1 DEF HandedOK
    <3> QED
      BY <1>2, <2>1, <3>1, <3>2 DEF GoesOn
  <2> QED
    BY <2>3, <2>4
<1> QED
  BY <1>1, <1>2 DEF HandedOK

-----------------------------------------------------------------------------
(* Every step keeps the invariant.                                         *)

\* A step that is not of the relay leaves what it knows, and a step that is not of
\* the work leaves the work and the tables of claims.
LEMMA RelayStays ==
    ASSUME PhaseTypes, RelayTypes, RoundsOK, PhasesOK, CountedOK,
           UNCHANGED <<phase, listed, remote, legacy, compatible, misses, round>>
    PROVE  PhaseTypes' /\ RelayTypes' /\ RoundsOK' /\ PhasesOK' /\ CountedOK'
<1>1. PhaseTypes' /\ RelayTypes'
  BY DEF PhaseTypes, RelayTypes
<1>2. RoundsOK'
  BY DEF RoundsOK, RoundOK
<1>3. PhasesOK' /\ CountedOK'
  BY DEF PhasesOK, CountedOK
<1> QED
  BY <1>1, <1>2, <1>3

LEMMA ClaimsStay ==
    ASSUME RegistryTypes, GoneOK, SoleOwner,
           UNCHANGED <<phase, structured, pending, terminals, handed, remote>>
    PROVE  RegistryTypes' /\ GoneOK' /\ SoleOwner'
<1>1. RegistryTypes' /\ GoneOK'
  BY DEF RegistryTypes, GoneOK
<1>2. SoleOwner'
  BY DEF SoleOwner, Local
<1> QED
  BY <1>1, <1>2

LEMMA WorkStays ==
    ASSUME PhaseTypes, RegistryTypes, WorkTypes, WorksOK, StructuredOK, TerminalsOK,
           SoleOwner, HandedOK,
           UNCHANGED <<phase, listed, structured, pending, terminals, work, stored, handed>>
    PROVE  /\ PhaseTypes' /\ RegistryTypes' /\ WorkTypes' /\ WorksOK' /\ StructuredOK'
           /\ TerminalsOK' /\ SoleOwner' /\ HandedOK'
<1>1. PhaseTypes' /\ RegistryTypes' /\ WorkTypes'
  BY DEF PhaseTypes, RegistryTypes, WorkTypes
<1>2. WorksOK'
  BY DEF WorksOK, WorkOK
<1>3. StructuredOK'
  BY DEF StructuredOK, Line
<1>4. TerminalsOK'
  BY DEF TerminalsOK, Awaited, Settled, Faithful
<1>5. SoleOwner' /\ HandedOK'
  BY DEF SoleOwner, Local, HandedOK
<1> QED
  BY <1>1, <1>2, <1>3, <1>4, <1>5

\* What happens to sessions leaves the claims of terminals alone.
LEMMA TerminalsStay ==
    ASSUME TerminalsOK, UNCHANGED <<pending, terminals, stored>>,
           \A t \in Terminals : work'[t] = work[t]
    PROVE  TerminalsOK'
  BY DEF TerminalsOK, Awaited, Settled, Faithful

LEMMA ReserveStructuredKeeps ==
    ASSUME IInv, NEW g \in Generations, NEW s \in Sessions, NEW n \in Natives \cup {None}, NEW f \in Folders, ReserveStructured(g, s, n, f)
    PROVE  IInv'
<1>1. /\ PhaseTypes /\ RegistryTypes /\ RelayTypes /\ WorkTypes /\ GoneOK
      /\ RoundsOK /\ PhasesOK /\ WorksOK /\ StructuredOK /\ TerminalsOK
      /\ SoleOwner /\ CountedOK /\ HandedOK
  BY DEF IInv, Base, Types
<1>2. UNCHANGED <<phase, listed, pending, terminals, remote, legacy, compatible, misses, round, stored, handed>>
  BY DEF ReserveStructured, registry, relay
<1>3. phase[g] = "serving" /\ work[s].at = "none" /\ n \in stored \cup {None} /\ Free(g, n, f, FALSE, {})
  BY <1>1, NoneApart, <1>2 DEF ReserveStructured, Free
<1>4. /\ work' \in [Owners -> Work] /\ \A q \in Owners : q # s => work'[q] = work[q]
      /\ work'[s].at = "opening" /\ work'[s].gen = g /\ work'[s].native = n
      /\ work'[s].folder = f /\ work'[s].known = FALSE /\ work'[s].moved = FALSE /\ work'[s].commit = FALSE
  <2> DEFINE x == work[s]
             k == [NoWork EXCEPT !.at = "opening", !.gen = g, !.native = n, !.folder = f]
  <2>1. x \in Work /\ work' = [work EXCEPT ![s] = k]
    BY <1>1, NoneApart, <1>2, <1>3 DEF ReserveStructured, WorkTypes, Owners
  <2> HIDE DEF x
  <2>2. k \in Work /\ k.at = "opening" /\ k.gen = g /\ k.native = n /\ k.folder = f /\ k.known = FALSE /\ k.moved = FALSE /\ k.commit = FALSE
    BY <2>1, NoneApart, <1>1, NoneApart, <1>2, <1>3 DEF Work, NoWork, Over, WorkTypes
  <2> QED
    BY <1>1, NoneApart, <1>2, <1>3, <2>1, <2>2 DEF x, WorkTypes, Owners
<1>5. structured' = [structured EXCEPT ![g] = @ \cup {[owner |-> s, native |-> n, folder |-> f]}]
  BY <1>1, NoneApart, <1>2, <1>3, <1>4 DEF ReserveStructured, Free
<1>6. \A c \in Local(g) : n # None => c.native # n
  BY <1>1, NoneApart, <1>2, <1>3, <1>4, <1>5 DEF Free, Conflicts
<1>7. /\ structured' \in [Generations -> SUBSET Claim]
      /\ \A h \in Generations : h # g => structured'[h] = structured[h]
      /\ structured'[g] = structured[g] \cup {Line(s)'}
  BY <1>1, NoneApart, <1>2, <1>3, <1>4, <1>5, <1>6 DEF RegistryTypes, Claim, Owners, Line
<1>8. Line(s)' \notin structured[g] /\ Line(s)'.owner = s /\ Line(s)'.native = n
  BY <1>1, NoneApart, <1>2, <1>3, <1>4, <1>5, <1>6, <1>7 DEF StructuredOK, Line, Active
<1>9. \A o \in Owners : GoesOn(o)
  BY <1>1, NoneApart, <1>2, <1>3, <1>4, <1>5, <1>6, <1>7, <1>8 DEF GoesOn, WorksOK, WorkOK, Owners, Active
<1>10. \A p \in Generations : handed'[p] \subseteq handed[p]
  BY <1>1, NoneApart, <1>2, <1>3, <1>4, <1>5, <1>6, <1>7, <1>8 DEF RegistryTypes
<1>11. RegistryTypes'
  BY <1>1, NoneApart, <1>2, <1>3, <1>4, <1>5, <1>6, <1>7, <1>8 DEF RegistryTypes, Claim
<1>12. WorkTypes'
  BY <1>1, NoneApart, <1>2, <1>3, <1>4, <1>5, <1>6, <1>7, <1>8 DEF WorkTypes
<1>13. GoneOK'
  BY <1>1, NoneApart, <1>2, <1>3, <1>4, <1>5, <1>6, <1>7, <1>8 DEF GoneOK
<1>14. WorksOK'
  BY <1>1, NoneApart, <1>2, <1>3, <1>4, <1>5, <1>6, <1>7, <1>8 DEF WorksOK, WorkOK
<1>15. StructuredOK'
  BY <1>1, NoneApart, <1>2, <1>3, <1>4, <1>5, <1>6, <1>7, <1>8 DEF StructuredOK, Line, Active
<1>16. TerminalsOK'
  <2>1. \A t \in Terminals : work'[t] = work[t]
    BY NoneApart, <1>4 DEF Owners
  <2>2. UNCHANGED <<pending, terminals, stored>>
    BY <1>2
  <2> QED BY <1>1, <2>1, <2>2, TerminalsStay
<1>17. SoleOwner'
  BY <1>1, NoneApart, <1>2, <1>3, <1>4, <1>5, <1>6, <1>7, <1>8 DEF SoleOwner, Local
<1>18. HandedOK'
  <2>1. \A p \in Generations : \A c \in handed'[p] :
          c \in pending[p] \cup terminals[p] =>
              c \in pending'[p] \cup terminals'[p] \/ work'[c.owner].at = "done"
    BY <1>1, NoneApart, <1>2, <1>3, <1>4, <1>5, <1>6, <1>7, <1>8, <1>10 DEF Local
  <2>2. RegistryTypes' /\ StructuredOK' /\ phase' = phase /\ stored \subseteq stored'
    BY <1>1, NoneApart, <1>2, <1>3, <1>4, <1>5, <1>6, <1>7, <1>8, <1>15, <1>11 DEF Line, Active, RegistryTypes, StructuredOK
  <2> QED
    BY <1>1, <2>1, <2>2, <1>9, <1>10, HandedStays
<1>19. PhaseTypes' /\ RelayTypes' /\ RoundsOK' /\ PhasesOK' /\ CountedOK'
  BY <1>1, <1>2, RelayStays
<1>20. ASSUME ~ Unreadable PROVE HandoverOK'
  <2>1. HandoverOK
    BY <1>20 DEF IInv
  <2>2. \A p \in Generations : Kept(p)' \subseteq Kept(p)
    BY <1>1, <1>15, <1>16, <1>9, <1>10, KeptShrinks
  <2> QED
    BY <1>2, <2>1, <2>2 DEF HandoverOK, Guarded
<1> QED
  BY <1>11, <1>12, <1>13, <1>14, <1>15, <1>16, <1>17, <1>18, <1>19, <1>20 DEF IInv, Base, Types

LEMMA AttachedKeeps ==
    ASSUME IInv, NEW s \in Sessions, Attached(s)
    PROVE  IInv'
<1>1. /\ PhaseTypes /\ RegistryTypes /\ RelayTypes /\ WorkTypes /\ GoneOK
      /\ RoundsOK /\ PhasesOK /\ WorksOK /\ StructuredOK /\ TerminalsOK
      /\ SoleOwner /\ CountedOK /\ HandedOK
  BY DEF IInv, Base, Types
<1>2. UNCHANGED <<phase, listed, pending, terminals, remote, legacy, compatible, misses, round, stored, handed>>
  BY DEF Attached, OwnerStep, registry, relay
<1>3. /\ work[s].at = "opening" /\ OwnerStep(s, [work[s] EXCEPT !.at = "live"])
      /\ work[s].gen \in Generations /\ phase[work[s].gen] \in {"serving", "draining"}
      /\ work[s].folder \in Folders
  BY <1>1, NoneApart, <1>2 DEF Attached, OwnerStep, WorksOK, WorkOK, WorkTypes, Work, Owners
<1>4. /\ work' \in [Owners -> Work] /\ \A q \in Owners : q # s => work'[q] = work[q]
      /\ work'[s].at = "live" /\ work'[s].gen = work[s].gen /\ work'[s].native = work[s].native
      /\ work'[s].folder = work[s].folder /\ work'[s].known = work[s].known /\ work'[s].moved = work[s].moved /\ work'[s].commit = work[s].commit
  <2> DEFINE x == work[s]
             k == [x EXCEPT !.at = "live"]
  <2>1. x \in Work /\ work' = [work EXCEPT ![s] = k]
    BY <1>1, NoneApart, <1>2, <1>3 DEF Attached, OwnerStep, WorkTypes, Owners
  <2> HIDE DEF x
  <2>2. k \in Work /\ k.at = "live" /\ k.gen = x.gen /\ k.native = x.native /\ k.folder = x.folder /\ k.known = x.known /\ k.moved = x.moved /\ k.commit = x.commit
    BY <2>1, NoneApart DEF Work, NoWork, Over, WorkTypes
  <2> QED
    BY <1>1, NoneApart, <1>2, <1>3, <2>1, <2>2 DEF x, WorkTypes, Owners
<1>5. /\ structured' \in [Generations -> SUBSET Claim]
      /\ \A h \in Generations : h # work[s].gen => structured'[h] = structured[h]
      /\ structured'[work[s].gen] = Replaced(work[s].gen, work')
  <2> DEFINE g == work[s].gen
             w == work'
  <2>1. g \in Generations /\ w \in [Owners -> Work]
    BY <1>1, NoneApart, <1>2, <1>3, <1>4
  <2>2. structured' = [structured EXCEPT ![g] = Replaced(g, w)]
    BY <1>1, NoneApart, <1>2, <1>3, <1>4 DEF OwnerStep
  <2>3. Replaced(g, w) \subseteq Claim
    <3>1. \A q \in Sessions : w[q].gen = g /\ w[q].at = "live" => w[q].native \in Natives \cup {None} /\ w[q].folder \in Folders
      BY <1>1, NoneApart, <1>2, <1>3, <1>4 DEF WorksOK, WorkOK, Owners, Work
    <3> HIDE DEF w
    <3> QED
      BY <1>1, NoneApart, <1>2, <1>3, <1>4, <2>1, <3>1 DEF Replaced, RegistryTypes, Claim, Owners
  <2> QED
    BY <1>1, NoneApart, <1>2, <1>3, <1>4, <2>1, <2>2, <2>3 DEF RegistryTypes
<1>6. /\ \A c \in Replaced(work[s].gen, work') : c \in structured[work[s].gen] /\ Active(work'[c.owner])
      /\ \A c \in structured[work[s].gen] : Active(work'[c.owner]) => c \in Replaced(work[s].gen, work')
  BY <1>1, NoneApart, <1>2, <1>3, <1>4, <1>5 DEF Replaced, StructuredOK, Line, Active, WorksOK, WorkOK, Owners
<1>7. \A o \in Owners : GoesOn(o)
  BY <1>1, NoneApart, <1>2, <1>3, <1>4, <1>5, <1>6 DEF GoesOn, WorksOK, WorkOK, Owners, Active
<1>8. \A p \in Generations : handed'[p] \subseteq handed[p]
  BY <1>1, NoneApart, <1>2, <1>3, <1>4, <1>5, <1>6 DEF RegistryTypes
<1>9. RegistryTypes'
  BY <1>1, NoneApart, <1>2, <1>3, <1>4, <1>5, <1>6 DEF RegistryTypes, Claim
<1>10. WorkTypes'
  BY <1>1, NoneApart, <1>2, <1>3, <1>4, <1>5, <1>6 DEF WorkTypes
<1>11. GoneOK'
  BY <1>1, NoneApart, <1>2, <1>3, <1>4, <1>5, <1>6 DEF GoneOK
<1>12. WorksOK'
  BY <1>1, NoneApart, <1>2, <1>3, <1>4, <1>5, <1>6 DEF WorksOK, WorkOK
<1>13. StructuredOK'
  BY <1>1, NoneApart, <1>2, <1>3, <1>4, <1>5, <1>6 DEF StructuredOK, Line, Active
<1>14. TerminalsOK'
  <2>1. \A t \in Terminals : work'[t] = work[t]
    BY NoneApart, <1>4 DEF Owners
  <2>2. UNCHANGED <<pending, terminals, stored>>
    BY <1>2
  <2> QED BY <1>1, <2>1, <2>2, TerminalsStay
<1>15. SoleOwner'
  BY <1>1, NoneApart, <1>2, <1>3, <1>4, <1>5, <1>6 DEF SoleOwner, Local
<1>16. HandedOK'
  <2>1. \A p \in Generations : \A c \in handed'[p] :
          c \in pending[p] \cup terminals[p] =>
              c \in pending'[p] \cup terminals'[p] \/ work'[c.owner].at = "done"
    BY <1>1, NoneApart, <1>2, <1>3, <1>4, <1>5, <1>6, <1>8 DEF Local
  <2>2. RegistryTypes' /\ StructuredOK' /\ phase' = phase /\ stored \subseteq stored'
    BY <1>1, NoneApart, <1>2, <1>3, <1>4, <1>5, <1>6, <1>13, <1>9 DEF Line, Active, RegistryTypes, StructuredOK
  <2> QED
    BY <1>1, <2>1, <2>2, <1>7, <1>8, HandedStays
<1>17. PhaseTypes' /\ RelayTypes' /\ RoundsOK' /\ PhasesOK' /\ CountedOK'
  BY <1>1, <1>2, RelayStays
<1>18. ASSUME ~ Unreadable PROVE HandoverOK'
  <2>1. HandoverOK
    BY <1>18 DEF IInv
  <2>2. \A p \in Generations : Kept(p)' \subseteq Kept(p)
    BY <1>1, <1>13, <1>14, <1>7, <1>8, KeptShrinks
  <2> QED
    BY <1>2, <2>1, <2>2 DEF HandoverOK, Guarded
<1> QED
  BY <1>9, <1>10, <1>11, <1>12, <1>13, <1>14, <1>15, <1>16, <1>17, <1>18 DEF IInv, Base, Types

LEMMA CancelOpenKeeps ==
    ASSUME IInv, NEW s \in Sessions, CancelOpen(s)
    PROVE  IInv'
<1>1. /\ PhaseTypes /\ RegistryTypes /\ RelayTypes /\ WorkTypes /\ GoneOK
      /\ RoundsOK /\ PhasesOK /\ WorksOK /\ StructuredOK /\ TerminalsOK
      /\ SoleOwner /\ CountedOK /\ HandedOK
  BY DEF IInv, Base, Types
<1>2. UNCHANGED <<phase, listed, pending, terminals, remote, legacy, compatible, misses, round, stored, handed>>
  BY DEF CancelOpen, OwnerStep, registry, relay
<1>3. /\ work[s].at = "opening" /\ OwnerStep(s, Over)
      /\ work[s].gen \in Generations /\ phase[work[s].gen] \in {"serving", "draining"}
      /\ work[s].folder \in Folders
  BY <1>1, NoneApart, <1>2 DEF CancelOpen, OwnerStep, WorksOK, WorkOK, WorkTypes, Work, Owners
<1>4. /\ work' \in [Owners -> Work] /\ \A q \in Owners : q # s => work'[q] = work[q]
      /\ work'[s].at = "done" /\ work'[s].gen = None /\ work'[s].native = None
      /\ work'[s].folder = None /\ work'[s].known = FALSE /\ work'[s].moved = FALSE /\ work'[s].commit = FALSE
  <2> DEFINE x == work[s]
             k == Over
  <2>1. x \in Work /\ work' = [work EXCEPT ![s] = k]
    BY <1>1, NoneApart, <1>2, <1>3 DEF CancelOpen, OwnerStep, WorkTypes, Owners
  <2> HIDE DEF x
  <2>2. k \in Work /\ k.at = "done" /\ k.gen = None /\ k.native = None /\ k.folder = None /\ k.known = FALSE /\ k.moved = FALSE /\ k.commit = FALSE
    BY <2>1, NoneApart, <1>1, NoneApart, <1>2, <1>3 DEF Work, NoWork, Over, WorkTypes
  <2> QED
    BY <1>1, NoneApart, <1>2, <1>3, <2>1, <2>2 DEF x, WorkTypes, Owners
<1>5. /\ structured' \in [Generations -> SUBSET Claim]
      /\ \A h \in Generations : h # work[s].gen => structured'[h] = structured[h]
      /\ structured'[work[s].gen] = Replaced(work[s].gen, work')
  <2> DEFINE g == work[s].gen
             w == work'
  <2>1. g \in Generations /\ w \in [Owners -> Work]
    BY <1>1, NoneApart, <1>2, <1>3, <1>4
  <2>2. structured' = [structured EXCEPT ![g] = Replaced(g, w)]
    BY <1>1, NoneApart, <1>2, <1>3, <1>4 DEF OwnerStep
  <2>3. Replaced(g, w) \subseteq Claim
    <3>1. \A q \in Sessions : w[q].gen = g /\ w[q].at = "live" => w[q].native \in Natives \cup {None} /\ w[q].folder \in Folders
      BY <1>1, NoneApart, <1>2, <1>3, <1>4 DEF WorksOK, WorkOK, Owners, Work
    <3> HIDE DEF w
    <3> QED
      BY <1>1, NoneApart, <1>2, <1>3, <1>4, <2>1, <3>1 DEF Replaced, RegistryTypes, Claim, Owners
  <2> QED
    BY <1>1, NoneApart, <1>2, <1>3, <1>4, <2>1, <2>2, <2>3 DEF RegistryTypes
<1>6. /\ \A c \in Replaced(work[s].gen, work') : c \in structured[work[s].gen] /\ Active(work'[c.owner])
      /\ \A c \in structured[work[s].gen] : Active(work'[c.owner]) => c \in Replaced(work[s].gen, work')
  BY <1>1, NoneApart, <1>2, <1>3, <1>4, <1>5 DEF Replaced, StructuredOK, Line, Active, WorksOK, WorkOK, Owners
<1>7. \A o \in Owners : GoesOn(o)
  BY <1>1, NoneApart, <1>2, <1>3, <1>4, <1>5, <1>6 DEF GoesOn, WorksOK, WorkOK, Owners, Active
<1>8. \A p \in Generations : handed'[p] \subseteq handed[p]
  BY <1>1, NoneApart, <1>2, <1>3, <1>4, <1>5, <1>6 DEF RegistryTypes
<1>9. RegistryTypes'
  BY <1>1, NoneApart, <1>2, <1>3, <1>4, <1>5, <1>6 DEF RegistryTypes, Claim
<1>10. WorkTypes'
  BY <1>1, NoneApart, <1>2, <1>3, <1>4, <1>5, <1>6 DEF WorkTypes
<1>11. GoneOK'
  BY <1>1, NoneApart, <1>2, <1>3, <1>4, <1>5, <1>6 DEF GoneOK
<1>12. WorksOK'
  BY <1>1, NoneApart, <1>2, <1>3, <1>4, <1>5, <1>6 DEF WorksOK, WorkOK
<1>13. StructuredOK'
  BY <1>1, NoneApart, <1>2, <1>3, <1>4, <1>5, <1>6 DEF StructuredOK, Line, Active
<1>14. TerminalsOK'
  <2>1. \A t \in Terminals : work'[t] = work[t]
    BY NoneApart, <1>4 DEF Owners
  <2>2. UNCHANGED <<pending, terminals, stored>>
    BY <1>2
  <2> QED BY <1>1, <2>1, <2>2, TerminalsStay
<1>15. SoleOwner'
  BY <1>1, NoneApart, <1>2, <1>3, <1>4, <1>5, <1>6 DEF SoleOwner, Local
<1>16. HandedOK'
  <2>1. \A p \in Generations : \A c \in handed'[p] :
          c \in pending[p] \cup terminals[p] =>
              c \in pending'[p] \cup terminals'[p] \/ work'[c.owner].at = "done"
    BY <1>1, NoneApart, <1>2, <1>3, <1>4, <1>5, <1>6, <1>8 DEF Local
  <2>2. RegistryTypes' /\ StructuredOK' /\ phase' = phase /\ stored \subseteq stored'
    BY <1>1, NoneApart, <1>2, <1>3, <1>4, <1>5, <1>6, <1>13, <1>9 DEF Line, Active, RegistryTypes, StructuredOK
  <2> QED
    BY <1>1, <2>1, <2>2, <1>7, <1>8, HandedStays
<1>17. PhaseTypes' /\ RelayTypes' /\ RoundsOK' /\ PhasesOK' /\ CountedOK'
  BY <1>1, <1>2, RelayStays
<1>18. ASSUME ~ Unreadable PROVE HandoverOK'
  <2>1. HandoverOK
    BY <1>18 DEF IInv
  <2>2. \A p \in Generations : Kept(p)' \subseteq Kept(p)
    BY <1>1, <1>13, <1>14, <1>7, <1>8, KeptShrinks
  <2> QED
    BY <1>2, <2>1, <2>2 DEF HandoverOK, Guarded
<1> QED
  BY <1>9, <1>10, <1>11, <1>12, <1>13, <1>14, <1>15, <1>16, <1>17, <1>18 DEF IInv, Base, Types

LEMMA CloseKeeps ==
    ASSUME IInv, NEW s \in Sessions, Close(s)
    PROVE  IInv'
<1>1. /\ PhaseTypes /\ RegistryTypes /\ RelayTypes /\ WorkTypes /\ GoneOK
      /\ RoundsOK /\ PhasesOK /\ WorksOK /\ StructuredOK /\ TerminalsOK
      /\ SoleOwner /\ CountedOK /\ HandedOK
  BY DEF IInv, Base, Types
<1>2. UNCHANGED <<phase, listed, pending, terminals, remote, legacy, compatible, misses, round, stored, handed>>
  BY DEF Close, OwnerStep, registry, relay
<1>3. /\ work[s].at = "live" /\ OwnerStep(s, [work[s] EXCEPT !.at = "closing"])
      /\ work[s].gen \in Generations /\ phase[work[s].gen] \in {"serving", "draining"}
      /\ work[s].folder \in Folders
  BY <1>1, NoneApart, <1>2 DEF Close, OwnerStep, WorksOK, WorkOK, WorkTypes, Work, Owners
<1>4. /\ work' \in [Owners -> Work] /\ \A q \in Owners : q # s => work'[q] = work[q]
      /\ work'[s].at = "closing" /\ work'[s].gen = work[s].gen /\ work'[s].native = work[s].native
      /\ work'[s].folder = work[s].folder /\ work'[s].known = work[s].known /\ work'[s].moved = work[s].moved /\ work'[s].commit = work[s].commit
  <2> DEFINE x == work[s]
             k == [x EXCEPT !.at = "closing"]
  <2>1. x \in Work /\ work' = [work EXCEPT ![s] = k]
    BY <1>1, NoneApart, <1>2, <1>3 DEF Close, OwnerStep, WorkTypes, Owners
  <2> HIDE DEF x
  <2>2. k \in Work /\ k.at = "closing" /\ k.gen = x.gen /\ k.native = x.native /\ k.folder = x.folder /\ k.known = x.known /\ k.moved = x.moved /\ k.commit = x.commit
    BY <2>1, NoneApart DEF Work, NoWork, Over, WorkTypes
  <2> QED
    BY <1>1, NoneApart, <1>2, <1>3, <2>1, <2>2 DEF x, WorkTypes, Owners
<1>5. /\ structured' \in [Generations -> SUBSET Claim]
      /\ \A h \in Generations : h # work[s].gen => structured'[h] = structured[h]
      /\ structured'[work[s].gen] = Replaced(work[s].gen, work')
  <2> DEFINE g == work[s].gen
             w == work'
  <2>1. g \in Generations /\ w \in [Owners -> Work]
    BY <1>1, NoneApart, <1>2, <1>3, <1>4
  <2>2. structured' = [structured EXCEPT ![g] = Replaced(g, w)]
    BY <1>1, NoneApart, <1>2, <1>3, <1>4 DEF OwnerStep
  <2>3. Replaced(g, w) \subseteq Claim
    <3>1. \A q \in Sessions : w[q].gen = g /\ w[q].at = "live" => w[q].native \in Natives \cup {None} /\ w[q].folder \in Folders
      BY <1>1, NoneApart, <1>2, <1>3, <1>4 DEF WorksOK, WorkOK, Owners, Work
    <3> HIDE DEF w
    <3> QED
      BY <1>1, NoneApart, <1>2, <1>3, <1>4, <2>1, <3>1 DEF Replaced, RegistryTypes, Claim, Owners
  <2> QED
    BY <1>1, NoneApart, <1>2, <1>3, <1>4, <2>1, <2>2, <2>3 DEF RegistryTypes
<1>6. /\ \A c \in Replaced(work[s].gen, work') : c \in structured[work[s].gen] /\ Active(work'[c.owner])
      /\ \A c \in structured[work[s].gen] : Active(work'[c.owner]) => c \in Replaced(work[s].gen, work')
  BY <1>1, NoneApart, <1>2, <1>3, <1>4, <1>5 DEF Replaced, StructuredOK, Line, Active, WorksOK, WorkOK, Owners
<1>7. \A o \in Owners : GoesOn(o)
  BY <1>1, NoneApart, <1>2, <1>3, <1>4, <1>5, <1>6 DEF GoesOn, WorksOK, WorkOK, Owners, Active
<1>8. \A p \in Generations : handed'[p] \subseteq handed[p]
  BY <1>1, NoneApart, <1>2, <1>3, <1>4, <1>5, <1>6 DEF RegistryTypes
<1>9. RegistryTypes'
  BY <1>1, NoneApart, <1>2, <1>3, <1>4, <1>5, <1>6 DEF RegistryTypes, Claim
<1>10. WorkTypes'
  BY <1>1, NoneApart, <1>2, <1>3, <1>4, <1>5, <1>6 DEF WorkTypes
<1>11. GoneOK'
  BY <1>1, NoneApart, <1>2, <1>3, <1>4, <1>5, <1>6 DEF GoneOK
<1>12. WorksOK'
  BY <1>1, NoneApart, <1>2, <1>3, <1>4, <1>5, <1>6 DEF WorksOK, WorkOK
<1>13. StructuredOK'
  BY <1>1, NoneApart, <1>2, <1>3, <1>4, <1>5, <1>6 DEF StructuredOK, Line, Active
<1>14. TerminalsOK'
  <2>1. \A t \in Terminals : work'[t] = work[t]
    BY NoneApart, <1>4 DEF Owners
  <2>2. UNCHANGED <<pending, terminals, stored>>
    BY <1>2
  <2> QED BY <1>1, <2>1, <2>2, TerminalsStay
<1>15. SoleOwner'
  BY <1>1, NoneApart, <1>2, <1>3, <1>4, <1>5, <1>6 DEF SoleOwner, Local
<1>16. HandedOK'
  <2>1. \A p \in Generations : \A c \in handed'[p] :
          c \in pending[p] \cup terminals[p] =>
              c \in pending'[p] \cup terminals'[p] \/ work'[c.owner].at = "done"
    BY <1>1, NoneApart, <1>2, <1>3, <1>4, <1>5, <1>6, <1>8 DEF Local
  <2>2. RegistryTypes' /\ StructuredOK' /\ phase' = phase /\ stored \subseteq stored'
    BY <1>1, NoneApart, <1>2, <1>3, <1>4, <1>5, <1>6, <1>13, <1>9 DEF Line, Active, RegistryTypes, StructuredOK
  <2> QED
    BY <1>1, <2>1, <2>2, <1>7, <1>8, HandedStays
<1>17. PhaseTypes' /\ RelayTypes' /\ RoundsOK' /\ PhasesOK' /\ CountedOK'
  BY <1>1, <1>2, RelayStays
<1>18. ASSUME ~ Unreadable PROVE HandoverOK'
  <2>1. HandoverOK
    BY <1>18 DEF IInv
  <2>2. \A p \in Generations : Kept(p)' \subseteq Kept(p)
    BY <1>1, <1>13, <1>14, <1>7, <1>8, KeptShrinks
  <2> QED
    BY <1>2, <2>1, <2>2 DEF HandoverOK, Guarded
<1> QED
  BY <1>9, <1>10, <1>11, <1>12, <1>13, <1>14, <1>15, <1>16, <1>17, <1>18 DEF IInv, Base, Types

LEMMA ReleaseClosingKeeps ==
    ASSUME IInv, NEW s \in Sessions, ReleaseClosing(s)
    PROVE  IInv'
<1>1. /\ PhaseTypes /\ RegistryTypes /\ RelayTypes /\ WorkTypes /\ GoneOK
      /\ RoundsOK /\ PhasesOK /\ WorksOK /\ StructuredOK /\ TerminalsOK
      /\ SoleOwner /\ CountedOK /\ HandedOK
  BY DEF IInv, Base, Types
<1>2. UNCHANGED <<phase, listed, pending, terminals, remote, legacy, compatible, misses, round, stored, handed>>
  BY DEF ReleaseClosing, OwnerStep, registry, relay
<1>3. /\ work[s].at = "closing" /\ OwnerStep(s, Over)
      /\ work[s].gen \in Generations /\ phase[work[s].gen] \in {"serving", "draining"}
      /\ work[s].folder \in Folders
  BY <1>1, NoneApart, <1>2 DEF ReleaseClosing, OwnerStep, WorksOK, WorkOK, WorkTypes, Work, Owners
<1>4. /\ work' \in [Owners -> Work] /\ \A q \in Owners : q # s => work'[q] = work[q]
      /\ work'[s].at = "done" /\ work'[s].gen = None /\ work'[s].native = None
      /\ work'[s].folder = None /\ work'[s].known = FALSE /\ work'[s].moved = FALSE /\ work'[s].commit = FALSE
  <2> DEFINE x == work[s]
             k == Over
  <2>1. x \in Work /\ work' = [work EXCEPT ![s] = k]
    BY <1>1, NoneApart, <1>2, <1>3 DEF ReleaseClosing, OwnerStep, WorkTypes, Owners
  <2> HIDE DEF x
  <2>2. k \in Work /\ k.at = "done" /\ k.gen = None /\ k.native = None /\ k.folder = None /\ k.known = FALSE /\ k.moved = FALSE /\ k.commit = FALSE
    BY <2>1, NoneApart, <1>1, NoneApart, <1>2, <1>3 DEF Work, NoWork, Over, WorkTypes
  <2> QED
    BY <1>1, NoneApart, <1>2, <1>3, <2>1, <2>2 DEF x, WorkTypes, Owners
<1>5. /\ structured' \in [Generations -> SUBSET Claim]
      /\ \A h \in Generations : h # work[s].gen => structured'[h] = structured[h]
      /\ structured'[work[s].gen] = Replaced(work[s].gen, work')
  <2> DEFINE g == work[s].gen
             w == work'
  <2>1. g \in Generations /\ w \in [Owners -> Work]
    BY <1>1, NoneApart, <1>2, <1>3, <1>4
  <2>2. structured' = [structured EXCEPT ![g] = Replaced(g, w)]
    BY <1>1, NoneApart, <1>2, <1>3, <1>4 DEF OwnerStep
  <2>3. Replaced(g, w) \subseteq Claim
    <3>1. \A q \in Sessions : w[q].gen = g /\ w[q].at = "live" => w[q].native \in Natives \cup {None} /\ w[q].folder \in Folders
      BY <1>1, NoneApart, <1>2, <1>3, <1>4 DEF WorksOK, WorkOK, Owners, Work
    <3> HIDE DEF w
    <3> QED
      BY <1>1, NoneApart, <1>2, <1>3, <1>4, <2>1, <3>1 DEF Replaced, RegistryTypes, Claim, Owners
  <2> QED
    BY <1>1, NoneApart, <1>2, <1>3, <1>4, <2>1, <2>2, <2>3 DEF RegistryTypes
<1>6. /\ \A c \in Replaced(work[s].gen, work') : c \in structured[work[s].gen] /\ Active(work'[c.owner])
      /\ \A c \in structured[work[s].gen] : Active(work'[c.owner]) => c \in Replaced(work[s].gen, work')
  BY <1>1, NoneApart, <1>2, <1>3, <1>4, <1>5 DEF Replaced, StructuredOK, Line, Active, WorksOK, WorkOK, Owners
<1>7. \A o \in Owners : GoesOn(o)
  BY <1>1, NoneApart, <1>2, <1>3, <1>4, <1>5, <1>6 DEF GoesOn, WorksOK, WorkOK, Owners, Active
<1>8. \A p \in Generations : handed'[p] \subseteq handed[p]
  BY <1>1, NoneApart, <1>2, <1>3, <1>4, <1>5, <1>6 DEF RegistryTypes
<1>9. RegistryTypes'
  BY <1>1, NoneApart, <1>2, <1>3, <1>4, <1>5, <1>6 DEF RegistryTypes, Claim
<1>10. WorkTypes'
  BY <1>1, NoneApart, <1>2, <1>3, <1>4, <1>5, <1>6 DEF WorkTypes
<1>11. GoneOK'
  BY <1>1, NoneApart, <1>2, <1>3, <1>4, <1>5, <1>6 DEF GoneOK
<1>12. WorksOK'
  BY <1>1, NoneApart, <1>2, <1>3, <1>4, <1>5, <1>6 DEF WorksOK, WorkOK
<1>13. StructuredOK'
  BY <1>1, NoneApart, <1>2, <1>3, <1>4, <1>5, <1>6 DEF StructuredOK, Line, Active
<1>14. TerminalsOK'
  <2>1. \A t \in Terminals : work'[t] = work[t]
    BY NoneApart, <1>4 DEF Owners
  <2>2. UNCHANGED <<pending, terminals, stored>>
    BY <1>2
  <2> QED BY <1>1, <2>1, <2>2, TerminalsStay
<1>15. SoleOwner'
  BY <1>1, NoneApart, <1>2, <1>3, <1>4, <1>5, <1>6 DEF SoleOwner, Local
<1>16. HandedOK'
  <2>1. \A p \in Generations : \A c \in handed'[p] :
          c \in pending[p] \cup terminals[p] =>
              c \in pending'[p] \cup terminals'[p] \/ work'[c.owner].at = "done"
    BY <1>1, NoneApart, <1>2, <1>3, <1>4, <1>5, <1>6, <1>8 DEF Local
  <2>2. RegistryTypes' /\ StructuredOK' /\ phase' = phase /\ stored \subseteq stored'
    BY <1>1, NoneApart, <1>2, <1>3, <1>4, <1>5, <1>6, <1>13, <1>9 DEF Line, Active, RegistryTypes, StructuredOK
  <2> QED
    BY <1>1, <2>1, <2>2, <1>7, <1>8, HandedStays
<1>17. PhaseTypes' /\ RelayTypes' /\ RoundsOK' /\ PhasesOK' /\ CountedOK'
  BY <1>1, <1>2, RelayStays
<1>18. ASSUME ~ Unreadable PROVE HandoverOK'
  <2>1. HandoverOK
    BY <1>18 DEF IInv
  <2>2. \A p \in Generations : Kept(p)' \subseteq Kept(p)
    BY <1>1, <1>13, <1>14, <1>7, <1>8, KeptShrinks
  <2> QED
    BY <1>2, <2>1, <2>2 DEF HandoverOK, Guarded
<1> QED
  BY <1>9, <1>10, <1>11, <1>12, <1>13, <1>14, <1>15, <1>16, <1>17, <1>18 DEF IInv, Base, Types

LEMMA ObserveNativeKeeps ==
    ASSUME IInv, NEW s \in Sessions, ObserveNative(s)
    PROVE  IInv'
<1>1. /\ PhaseTypes /\ RegistryTypes /\ RelayTypes /\ WorkTypes /\ GoneOK
      /\ RoundsOK /\ PhasesOK /\ WorksOK /\ StructuredOK /\ TerminalsOK
      /\ SoleOwner /\ CountedOK /\ HandedOK
  BY DEF IInv, Base, Types
<1>2. UNCHANGED <<phase, listed, pending, terminals, remote, legacy, compatible, misses, round, handed>>
  BY DEF ObserveNative, OwnerStep, registry, relay
<1>3. PICK n \in Natives \ stored :
        /\ work[s].at = "live" /\ OwnerStep(s, [work[s] EXCEPT !.native = n])
        /\ stored' = stored \cup {n}
  BY <1>1, NoneApart, <1>2 DEF ObserveNative, OwnerStep, OwnerStep
<1>4. /\ work[s].at = "live"
      /\ work[s].gen \in Generations /\ phase[work[s].gen] \in {"serving", "draining"}
      /\ work[s].folder \in Folders
  BY <1>1, NoneApart, <1>2, <1>3 DEF ObserveNative, OwnerStep, WorksOK, WorkOK, WorkTypes, Work, Owners
<1>5. /\ work' \in [Owners -> Work] /\ \A q \in Owners : q # s => work'[q] = work[q]
      /\ work'[s].at = work[s].at /\ work'[s].gen = work[s].gen /\ work'[s].native = n
      /\ work'[s].folder = work[s].folder /\ work'[s].known = work[s].known /\ work'[s].moved = work[s].moved /\ work'[s].commit = work[s].commit
  <2> DEFINE x == work[s]
             k == [x EXCEPT !.native = n]
  <2>1. x \in Work /\ work' = [work EXCEPT ![s] = k]
    BY <1>1, NoneApart, <1>2, <1>3, <1>4 DEF ObserveNative, OwnerStep, WorkTypes, Owners
  <2> HIDE DEF x
  <2>2. k \in Work /\ k.at = x.at /\ k.gen = x.gen /\ k.native = n /\ k.folder = x.folder /\ k.known = x.known /\ k.moved = x.moved /\ k.commit = x.commit
    BY <2>1, NoneApart, <1>1, NoneApart, <1>2, <1>3, <1>4 DEF Work, NoWork, Over, WorkTypes
  <2> QED
    BY <1>1, NoneApart, <1>2, <1>3, <1>4, <2>1, <2>2 DEF x, WorkTypes, Owners
<1>6. /\ structured' \in [Generations -> SUBSET Claim]
      /\ \A h \in Generations : h # work[s].gen => structured'[h] = structured[h]
      /\ structured'[work[s].gen] = Replaced(work[s].gen, work')
  <2> DEFINE g == work[s].gen
             w == work'
  <2>1. g \in Generations /\ w \in [Owners -> Work]
    BY <1>1, NoneApart, <1>2, <1>3, <1>4, <1>5
  <2>2. structured' = [structured EXCEPT ![g] = Replaced(g, w)]
    BY <1>1, NoneApart, <1>2, <1>3, <1>4, <1>5 DEF OwnerStep
  <2>3. Replaced(g, w) \subseteq Claim
    <3>1. \A q \in Sessions : w[q].gen = g /\ w[q].at = "live" => w[q].native \in Natives \cup {None} /\ w[q].folder \in Folders
      BY <1>1, NoneApart, <1>2, <1>3, <1>4, <1>5 DEF WorksOK, WorkOK, Owners, Work
    <3> HIDE DEF w
    <3> QED
      BY <1>1, NoneApart, <1>2, <1>3, <1>4, <1>5, <2>1, <3>1 DEF Replaced, RegistryTypes, Claim, Owners
  <2> QED
    BY <1>1, NoneApart, <1>2, <1>3, <1>4, <1>5, <2>1, <2>2, <2>3 DEF RegistryTypes
<1>7. /\ \A c \in Replaced(work[s].gen, work') : c = Line(s)' \/ (c \in structured[work[s].gen] /\ c.owner # s)
      /\ \A c \in structured[work[s].gen] : c.owner # s => c \in Replaced(work[s].gen, work')
      /\ Line(s)' \in Replaced(work[s].gen, work') /\ Line(s)'.owner = s /\ Line(s)'.native = n
  BY <1>1, NoneApart, <1>2, <1>3, <1>4, <1>5, <1>6 DEF Replaced, StructuredOK, Line, Active, WorksOK, WorkOK, Owners
<1>8. \A h \in Generations : \A c \in Local(h) : c.native # n
  BY <1>1, NoneApart, <1>2, <1>3, <1>4, <1>5, <1>6, <1>7 DEF WorksOK, WorkOK, StructuredOK, TerminalsOK, Faithful, Local, Line, Owners
<1>9. \A o \in Owners : GoesOn(o)
  BY <1>1, NoneApart, <1>2, <1>3, <1>4, <1>5, <1>6, <1>7, <1>8 DEF GoesOn, WorksOK, WorkOK, Owners, Active
<1>10. \A p \in Generations : handed'[p] \subseteq handed[p]
  BY <1>1, NoneApart, <1>2, <1>3, <1>4, <1>5, <1>6, <1>7, <1>8 DEF RegistryTypes
<1>11. RegistryTypes'
  BY <1>1, NoneApart, <1>2, <1>3, <1>4, <1>5, <1>6, <1>7, <1>8 DEF RegistryTypes, Claim
<1>12. WorkTypes'
  BY <1>1, NoneApart, <1>2, <1>3, <1>4, <1>5, <1>6, <1>7, <1>8 DEF WorkTypes
<1>13. GoneOK'
  BY <1>1, NoneApart, <1>2, <1>3, <1>4, <1>5, <1>6, <1>7, <1>8 DEF GoneOK
<1>14. WorksOK'
  BY <1>1, NoneApart, <1>2, <1>3, <1>4, <1>5, <1>6, <1>7, <1>8 DEF WorksOK, WorkOK
<1>15. StructuredOK'
  BY <1>1, NoneApart, <1>2, <1>3, <1>4, <1>5, <1>6, <1>7, <1>8 DEF StructuredOK, Line, Active
<1>16. TerminalsOK'
  BY <1>1, NoneApart, <1>2, <1>3, <1>4, <1>5, <1>6, <1>7, <1>8 DEF TerminalsOK, Awaited, Settled, Faithful
<1>17. SoleOwner'
  BY <1>1, NoneApart, <1>2, <1>3, <1>4, <1>5, <1>6, <1>7, <1>8 DEF SoleOwner, Local
<1>18. HandedOK'
  <2>1. \A p \in Generations : \A c \in handed'[p] :
          c \in pending[p] \cup terminals[p] =>
              c \in pending'[p] \cup terminals'[p] \/ work'[c.owner].at = "done"
    BY <1>1, NoneApart, <1>2, <1>3, <1>4, <1>5, <1>6, <1>7, <1>8, <1>10 DEF Local
  <2>2. RegistryTypes' /\ StructuredOK' /\ phase' = phase /\ stored \subseteq stored'
    BY <1>1, NoneApart, <1>2, <1>3, <1>4, <1>5, <1>6, <1>7, <1>8, <1>15, <1>11 DEF Line, Active, RegistryTypes, StructuredOK
  <2> QED
    BY <1>1, <2>1, <2>2, <1>9, <1>10, HandedStays
<1>19. PhaseTypes' /\ RelayTypes' /\ RoundsOK' /\ PhasesOK' /\ CountedOK'
  BY <1>1, <1>2, RelayStays
<1>20. ASSUME ~ Unreadable PROVE HandoverOK'
  <2>1. HandoverOK
    BY <1>20 DEF IInv
  <2>2. \A p \in Generations : Kept(p)' \subseteq Kept(p)
    BY <1>1, <1>15, <1>16, <1>9, <1>10, KeptShrinks
  <2> QED
    BY <1>2, <2>1, <2>2 DEF HandoverOK, Guarded
<1> QED
  BY <1>11, <1>12, <1>13, <1>14, <1>15, <1>16, <1>17, <1>18, <1>19, <1>20 DEF IInv, Base, Types

LEMMA AdmitTerminalKeeps ==
    ASSUME IInv, NEW g \in Generations, NEW t \in Terminals, NEW n \in Natives \cup {None}, NEW f \in Folders, NEW b \in BOOLEAN, AdmitTerminal(g, t, n, f, b)
    PROVE  IInv'
<1>1. /\ PhaseTypes /\ RegistryTypes /\ RelayTypes /\ WorkTypes /\ GoneOK
      /\ RoundsOK /\ PhasesOK /\ WorksOK /\ StructuredOK /\ TerminalsOK
      /\ SoleOwner /\ CountedOK /\ HandedOK
  BY DEF IInv, Base, Types
<1>2. UNCHANGED <<phase, listed, structured, pending, terminals, remote, legacy, compatible, misses, round, stored, handed>>
  BY DEF AdmitTerminal, registry, relay
<1>3. phase[g] = "serving" /\ work[t].at = "none" /\ n \in stored \cup {None}
  BY <1>1, NoneApart, <1>2 DEF AdmitTerminal, WorkTypes
<1>4. /\ work' \in [Owners -> Work] /\ \A q \in Owners : q # t => work'[q] = work[q]
      /\ work'[t].at = "admitted" /\ work'[t].gen = g /\ work'[t].native = n
      /\ work'[t].folder = f /\ work'[t].known = b /\ work'[t].moved = FALSE /\ work'[t].commit = FALSE
  <2> DEFINE x == work[t]
             k == [NoWork EXCEPT !.at = "admitted", !.gen = g, !.native = n, !.folder = f, !.known = b]
  <2>1. x \in Work /\ work' = [work EXCEPT ![t] = k]
    BY <1>1, NoneApart, <1>2, <1>3 DEF AdmitTerminal, WorkTypes, Owners
  <2> HIDE DEF x
  <2>2. k \in Work /\ k.at = "admitted" /\ k.gen = g /\ k.native = n /\ k.folder = f /\ k.known = b /\ k.moved = FALSE /\ k.commit = FALSE
    BY <2>1, NoneApart, <1>1, NoneApart, <1>2, <1>3 DEF Work, NoWork, Over, WorkTypes
  <2> QED
    BY <1>1, NoneApart, <1>2, <1>3, <2>1, <2>2 DEF x, WorkTypes, Owners
<1>5. \A o \in Owners : GoesOn(o)
  BY <1>1, NoneApart, <1>2, <1>3, <1>4 DEF GoesOn, WorksOK, WorkOK, Owners, Active
<1>6. \A p \in Generations : handed'[p] \subseteq handed[p]
  BY <1>1, NoneApart, <1>2, <1>3, <1>4 DEF RegistryTypes
<1>7. WorkTypes'
  BY <1>1, NoneApart, <1>2, <1>3, <1>4 DEF WorkTypes
<1>8. WorksOK'
  BY <1>1, NoneApart, <1>2, <1>3, <1>4 DEF WorksOK, WorkOK
<1>9. StructuredOK'
  BY <1>1, NoneApart, <1>2, <1>3, <1>4 DEF StructuredOK, Line, Active
<1>10. TerminalsOK'
  BY <1>1, NoneApart, <1>2, <1>3, <1>4 DEF TerminalsOK, Awaited, Settled, Faithful
<1>11. HandedOK'
  <2>1. \A p \in Generations : \A c \in handed'[p] :
          c \in pending[p] \cup terminals[p] =>
              c \in pending'[p] \cup terminals'[p] \/ work'[c.owner].at = "done"
    BY <1>1, NoneApart, <1>2, <1>3, <1>4, <1>6 DEF Local
  <2>2. RegistryTypes' /\ StructuredOK' /\ phase' = phase /\ stored \subseteq stored'
    BY <1>1, NoneApart, <1>2, <1>3, <1>4, <1>9 DEF Line, Active, RegistryTypes, StructuredOK
  <2> QED
    BY <1>1, <2>1, <2>2, <1>5, <1>6, HandedStays
<1>12. PhaseTypes' /\ RegistryTypes' /\ RelayTypes' /\ GoneOK' /\ RoundsOK'
      /\ PhasesOK' /\ SoleOwner' /\ CountedOK'
  BY <1>1, <1>2, RelayStays, ClaimsStay
<1>13. ASSUME ~ Unreadable PROVE HandoverOK'
  <2>1. HandoverOK
    BY <1>13 DEF IInv
  <2>2. \A p \in Generations : Kept(p)' \subseteq Kept(p)
    BY <1>1, <1>9, <1>10, <1>5, <1>6, KeptShrinks
  <2> QED
    BY <1>2, <2>1, <2>2 DEF HandoverOK, Guarded
<1> QED
  BY <1>7, <1>8, <1>9, <1>10, <1>11, <1>12, <1>13 DEF IInv, Base, Types

LEMMA TerminalReservedKeeps ==
    ASSUME IInv, NEW t \in Terminals, TerminalReserved(t)
    PROVE  IInv'
<1>1. /\ PhaseTypes /\ RegistryTypes /\ RelayTypes /\ WorkTypes /\ GoneOK
      /\ RoundsOK /\ PhasesOK /\ WorksOK /\ StructuredOK /\ TerminalsOK
      /\ SoleOwner /\ CountedOK /\ HandedOK
  BY DEF IInv, Base, Types
<1>2. UNCHANGED <<phase, listed, structured, terminals, remote, legacy, compatible, misses, round, stored, handed>>
  BY DEF TerminalReserved, registry, relay
<1>3. /\ work[t].at = "admitted" /\ Free(work[t].gen, work[t].native, work[t].folder, work[t].known, {})
      /\ work[t].gen \in Generations /\ phase[work[t].gen] \in {"serving", "draining"}
      /\ work[t].folder \in Folders
  BY <1>1, NoneApart, <1>2 DEF TerminalReserved, WorksOK, WorkOK, WorkTypes, Work, Owners
<1>4. /\ work' \in [Owners -> Work] /\ \A q \in Owners : q # t => work'[q] = work[q]
      /\ work'[t].at = "pending" /\ work'[t].gen = work[t].gen /\ work'[t].native = work[t].native
      /\ work'[t].folder = work[t].folder /\ work'[t].known = FALSE /\ work'[t].moved = work[t].moved /\ work'[t].commit = work[t].commit
  <2> DEFINE x == work[t]
             k == [x EXCEPT !.at = "pending", !.known = FALSE]
  <2>1. x \in Work /\ work' = [work EXCEPT ![t] = k]
    BY <1>1, NoneApart, <1>2, <1>3 DEF TerminalReserved, WorkTypes, Owners
  <2> HIDE DEF x
  <2>2. k \in Work /\ k.at = "pending" /\ k.gen = x.gen /\ k.native = x.native /\ k.folder = x.folder /\ k.known = FALSE /\ k.moved = x.moved /\ k.commit = x.commit
    BY <2>1, NoneApart DEF Work, NoWork, Over, WorkTypes
  <2> QED
    BY <1>1, NoneApart, <1>2, <1>3, <2>1, <2>2 DEF x, WorkTypes, Owners
<1>5. \A c \in Local(work[t].gen) : work[t].native # None => c.native # work[t].native
  BY <1>1, NoneApart, <1>2, <1>3, <1>4 DEF Free, Conflicts
<1>6. Line(t) \in Claim /\ Line(t).owner = t /\ Line(t).native = work[t].native /\ Line(t).folder = work[t].folder
  BY <1>1, NoneApart, <1>2, <1>3, <1>4, <1>5 DEF Line, Claim, WorkTypes, Work, Owners
<1>7. /\ pending' \in [Generations -> SUBSET Claim]
      /\ \A h \in Generations : h # work[t].gen => pending'[h] = pending[h]
      /\ pending'[work[t].gen] = pending[work[t].gen] \cup {Line(t)}
  BY <1>1, NoneApart, <1>2, <1>3, <1>4, <1>5, <1>6 DEF TerminalReserved, RegistryTypes
<1>8. \A o \in Owners : GoesOn(o)
  BY <1>1, NoneApart, <1>2, <1>3, <1>4, <1>5, <1>6, <1>7 DEF GoesOn, WorksOK, WorkOK, Owners, Active
<1>9. \A p \in Generations : handed'[p] \subseteq handed[p]
  BY <1>1, NoneApart, <1>2, <1>3, <1>4, <1>5, <1>6, <1>7 DEF RegistryTypes
<1>10. RegistryTypes'
  BY <1>1, NoneApart, <1>2, <1>3, <1>4, <1>5, <1>6, <1>7 DEF RegistryTypes, Claim
<1>11. WorkTypes'
  BY <1>1, NoneApart, <1>2, <1>3, <1>4, <1>5, <1>6, <1>7 DEF WorkTypes
<1>12. GoneOK'
  BY <1>1, NoneApart, <1>2, <1>3, <1>4, <1>5, <1>6, <1>7 DEF GoneOK
<1>13. WorksOK'
  BY <1>1, NoneApart, <1>2, <1>3, <1>4, <1>5, <1>6, <1>7 DEF WorksOK, WorkOK
<1>14. StructuredOK'
  BY <1>1, NoneApart, <1>2, <1>3, <1>4, <1>5, <1>6, <1>7 DEF StructuredOK, Line, Active
<1>15. TerminalsOK'
  <2>1. \A h \in Generations : \A c \in pending'[h] : c.owner \in Terminals /\ Awaited(c.owner, h)' /\ Faithful(c)'
    BY <1>1, NoneApart, <1>2, <1>3, <1>4, <1>5, <1>6, <1>7 DEF TerminalsOK, Awaited, Settled, Faithful, WorksOK, WorkOK, Owners
  <2>2. \A h \in Generations : \A c \in terminals'[h] : c.owner \in Terminals /\ Settled(c.owner, h)' /\ Faithful(c)'
    BY <1>1, NoneApart, <1>2, <1>3, <1>4, <1>5, <1>6, <1>7 DEF TerminalsOK, Awaited, Settled, Faithful, WorksOK, WorkOK, Owners
  <2>3. \A h \in Generations : \A u \in Terminals : Awaited(u, h)' => \E c \in pending'[h] : c.owner = u
    BY <1>1, NoneApart, <1>2, <1>3, <1>4, <1>5, <1>6, <1>7 DEF TerminalsOK, Awaited, Settled, Owners
  <2>4. \A h \in Generations : \A u \in Terminals : Settled(u, h)' => \E c \in terminals'[h] : c.owner = u
    BY <1>1, NoneApart, <1>2, <1>3, <1>4, <1>5, <1>6, <1>7 DEF TerminalsOK, Awaited, Settled, Owners
  <2>5. \A h \in Generations : \A c, d \in pending'[h] \cup terminals'[h] : c.owner = d.owner => c = d
    BY <1>1, NoneApart, <1>2, <1>3, <1>4, <1>5, <1>6, <1>7 DEF TerminalsOK, Awaited, Settled
  <2> QED
    BY <2>1, <2>2, <2>3, <2>4, <2>5 DEF TerminalsOK
<1>16. SoleOwner'
  BY <1>1, NoneApart, <1>2, <1>3, <1>4, <1>5, <1>6, <1>7 DEF SoleOwner, Local
<1>17. HandedOK'
  <2>1. \A p \in Generations : \A c \in handed'[p] :
          c \in pending[p] \cup terminals[p] =>
              c \in pending'[p] \cup terminals'[p] \/ work'[c.owner].at = "done"
    BY <1>1, NoneApart, <1>2, <1>3, <1>4, <1>5, <1>6, <1>7, <1>9 DEF Local
  <2>2. RegistryTypes' /\ StructuredOK' /\ phase' = phase /\ stored \subseteq stored'
    BY <1>1, NoneApart, <1>2, <1>3, <1>4, <1>5, <1>6, <1>7, <1>14, <1>10 DEF Line, Active, RegistryTypes, StructuredOK
  <2> QED
    BY <1>1, <2>1, <2>2, <1>8, <1>9, HandedStays
<1>18. PhaseTypes' /\ RelayTypes' /\ RoundsOK' /\ PhasesOK' /\ CountedOK'
  BY <1>1, <1>2, RelayStays
<1>19. ASSUME ~ Unreadable PROVE HandoverOK'
  <2>1. HandoverOK
    BY <1>19 DEF IInv
  <2>2. \A p \in Generations : Kept(p)' \subseteq Kept(p)
    BY <1>1, <1>14, <1>15, <1>8, <1>9, KeptShrinks
  <2> QED
    BY <1>2, <2>1, <2>2 DEF HandoverOK, Guarded
<1> QED
  BY <1>10, <1>11, <1>12, <1>13, <1>14, <1>15, <1>16, <1>17, <1>18, <1>19 DEF IInv, Base, Types

LEMMA TerminalNotOpenedKeeps ==
    ASSUME IInv, NEW t \in Terminals, TerminalNotOpened(t)
    PROVE  IInv'
<1>1. /\ PhaseTypes /\ RegistryTypes /\ RelayTypes /\ WorkTypes /\ GoneOK
      /\ RoundsOK /\ PhasesOK /\ WorksOK /\ StructuredOK /\ TerminalsOK
      /\ SoleOwner /\ CountedOK /\ HandedOK
  BY DEF IInv, Base, Types
<1>2. UNCHANGED <<phase, listed, structured, pending, terminals, remote, legacy, compatible, misses, round, stored, handed>>
  BY DEF TerminalNotOpened, registry, relay
<1>3. /\ work[t].at = "admitted"
      /\ work[t].gen \in Generations /\ phase[work[t].gen] \in {"serving", "draining"}
      /\ work[t].folder \in Folders
  BY <1>1, NoneApart, <1>2 DEF TerminalNotOpened, WorksOK, WorkOK, WorkTypes, Work, Owners
<1>4. /\ work' \in [Owners -> Work] /\ \A q \in Owners : q # t => work'[q] = work[q]
      /\ work'[t].at = "done" /\ work'[t].gen = None /\ work'[t].native = None
      /\ work'[t].folder = None /\ work'[t].known = FALSE /\ work'[t].moved = FALSE /\ work'[t].commit = FALSE
  <2> DEFINE x == work[t]
             k == Over
  <2>1. x \in Work /\ work' = [work EXCEPT ![t] = k]
    BY <1>1, NoneApart, <1>2, <1>3 DEF TerminalNotOpened, WorkTypes, Owners
  <2> HIDE DEF x
  <2>2. k \in Work /\ k.at = "done" /\ k.gen = None /\ k.native = None /\ k.folder = None /\ k.known = FALSE /\ k.moved = FALSE /\ k.commit = FALSE
    BY <2>1, NoneApart, <1>1, NoneApart, <1>2, <1>3 DEF Work, NoWork, Over, WorkTypes
  <2> QED
    BY <1>1, NoneApart, <1>2, <1>3, <2>1, <2>2 DEF x, WorkTypes, Owners
<1>5. \A o \in Owners : GoesOn(o)
  BY <1>1, NoneApart, <1>2, <1>3, <1>4 DEF GoesOn, WorksOK, WorkOK, Owners, Active
<1>6. \A p \in Generations : handed'[p] \subseteq handed[p]
  BY <1>1, NoneApart, <1>2, <1>3, <1>4 DEF RegistryTypes
<1>7. WorkTypes'
  BY <1>1, NoneApart, <1>2, <1>3, <1>4 DEF WorkTypes
<1>8. WorksOK'
  BY <1>1, NoneApart, <1>2, <1>3, <1>4 DEF WorksOK, WorkOK
<1>9. StructuredOK'
  BY <1>1, NoneApart, <1>2, <1>3, <1>4 DEF StructuredOK, Line, Active
<1>10. TerminalsOK'
  BY <1>1, NoneApart, <1>2, <1>3, <1>4 DEF TerminalsOK, Awaited, Settled, Faithful
<1>11. HandedOK'
  <2>1. \A p \in Generations : \A c \in handed'[p] :
          c \in pending[p] \cup terminals[p] =>
              c \in pending'[p] \cup terminals'[p] \/ work'[c.owner].at = "done"
    BY <1>1, NoneApart, <1>2, <1>3, <1>4, <1>6 DEF Local
  <2>2. RegistryTypes' /\ StructuredOK' /\ phase' = phase /\ stored \subseteq stored'
    BY <1>1, NoneApart, <1>2, <1>3, <1>4, <1>9 DEF Line, Active, RegistryTypes, StructuredOK
  <2> QED
    BY <1>1, <2>1, <2>2, <1>5, <1>6, HandedStays
<1>12. PhaseTypes' /\ RegistryTypes' /\ RelayTypes' /\ GoneOK' /\ RoundsOK'
      /\ PhasesOK' /\ SoleOwner' /\ CountedOK'
  BY <1>1, <1>2, RelayStays, ClaimsStay
<1>13. ASSUME ~ Unreadable PROVE HandoverOK'
  <2>1. HandoverOK
    BY <1>13 DEF IInv
  <2>2. \A p \in Generations : Kept(p)' \subseteq Kept(p)
    BY <1>1, <1>9, <1>10, <1>5, <1>6, KeptShrinks
  <2> QED
    BY <1>2, <2>1, <2>2 DEF HandoverOK, Guarded
<1> QED
  BY <1>7, <1>8, <1>9, <1>10, <1>11, <1>12, <1>13 DEF IInv, Base, Types

LEMMA BornKeeps ==
    ASSUME IInv, NEW t \in Terminals, Born(t)
    PROVE  IInv'
<1>1. /\ PhaseTypes /\ RegistryTypes /\ RelayTypes /\ WorkTypes /\ GoneOK
      /\ RoundsOK /\ PhasesOK /\ WorksOK /\ StructuredOK /\ TerminalsOK
      /\ SoleOwner /\ CountedOK /\ HandedOK
  BY DEF IInv, Base, Types
<1>2. UNCHANGED <<phase, listed, structured, pending, terminals, remote, legacy, compatible, misses, round, stored, handed>>
  BY DEF Born, registry, relay
<1>3. /\ work[t].at = "pending"
      /\ work[t].gen \in Generations /\ phase[work[t].gen] \in {"serving", "draining"}
      /\ work[t].folder \in Folders
  BY <1>1, NoneApart, <1>2 DEF Born, WorksOK, WorkOK, WorkTypes, Work, Owners
<1>4. /\ work' \in [Owners -> Work] /\ \A q \in Owners : q # t => work'[q] = work[q]
      /\ work'[t].at = "running" /\ work'[t].gen = work[t].gen /\ work'[t].native = work[t].native
      /\ work'[t].folder = work[t].folder /\ work'[t].known = work[t].known /\ work'[t].moved = work[t].moved /\ work'[t].commit = TRUE
  <2> DEFINE x == work[t]
             k == [x EXCEPT !.at = "running", !.commit = TRUE]
  <2>1. x \in Work /\ work' = [work EXCEPT ![t] = k]
    BY <1>1, NoneApart, <1>2, <1>3 DEF Born, WorkTypes, Owners
  <2> HIDE DEF x
  <2>2. k \in Work /\ k.at = "running" /\ k.gen = x.gen /\ k.native = x.native /\ k.folder = x.folder /\ k.known = x.known /\ k.moved = x.moved /\ k.commit = TRUE
    BY <2>1, NoneApart DEF Work, NoWork, Over, WorkTypes
  <2> QED
    BY <1>1, NoneApart, <1>2, <1>3, <2>1, <2>2 DEF x, WorkTypes, Owners
<1>5. \A o \in Owners : GoesOn(o)
  BY <1>1, NoneApart, <1>2, <1>3, <1>4 DEF GoesOn, WorksOK, WorkOK, Owners, Active
<1>6. \A p \in Generations : handed'[p] \subseteq handed[p]
  BY <1>1, NoneApart, <1>2, <1>3, <1>4 DEF RegistryTypes
<1>7. WorkTypes'
  BY <1>1, NoneApart, <1>2, <1>3, <1>4 DEF WorkTypes
<1>8. WorksOK'
  BY <1>1, NoneApart, <1>2, <1>3, <1>4 DEF WorksOK, WorkOK
<1>9. StructuredOK'
  BY <1>1, NoneApart, <1>2, <1>3, <1>4 DEF StructuredOK, Line, Active
<1>10. TerminalsOK'
  BY <1>1, NoneApart, <1>2, <1>3, <1>4 DEF TerminalsOK, Awaited, Settled, Faithful
<1>11. HandedOK'
  <2>1. \A p \in Generations : \A c \in handed'[p] :
          c \in pending[p] \cup terminals[p] =>
              c \in pending'[p] \cup terminals'[p] \/ work'[c.owner].at = "done"
    BY <1>1, NoneApart, <1>2, <1>3, <1>4, <1>6 DEF Local
  <2>2. RegistryTypes' /\ StructuredOK' /\ phase' = phase /\ stored \subseteq stored'
    BY <1>1, NoneApart, <1>2, <1>3, <1>4, <1>9 DEF Line, Active, RegistryTypes, StructuredOK
  <2> QED
    BY <1>1, <2>1, <2>2, <1>5, <1>6, HandedStays
<1>12. PhaseTypes' /\ RegistryTypes' /\ RelayTypes' /\ GoneOK' /\ RoundsOK'
      /\ PhasesOK' /\ SoleOwner' /\ CountedOK'
  BY <1>1, <1>2, RelayStays, ClaimsStay
<1>13. ASSUME ~ Unreadable PROVE HandoverOK'
  <2>1. HandoverOK
    BY <1>13 DEF IInv
  <2>2. \A p \in Generations : Kept(p)' \subseteq Kept(p)
    BY <1>1, <1>9, <1>10, <1>5, <1>6, KeptShrinks
  <2> QED
    BY <1>2, <2>1, <2>2 DEF HandoverOK, Guarded
<1> QED
  BY <1>7, <1>8, <1>9, <1>10, <1>11, <1>12, <1>13 DEF IInv, Base, Types

LEMMA BirthFailsKeeps ==
    ASSUME IInv, NEW t \in Terminals, BirthFails(t)
    PROVE  IInv'
<1>1. /\ PhaseTypes /\ RegistryTypes /\ RelayTypes /\ WorkTypes /\ GoneOK
      /\ RoundsOK /\ PhasesOK /\ WorksOK /\ StructuredOK /\ TerminalsOK
      /\ SoleOwner /\ CountedOK /\ HandedOK
  BY DEF IInv, Base, Types
<1>2. UNCHANGED <<phase, listed, structured, terminals, remote, legacy, compatible, misses, round, stored, handed>>
  BY DEF BirthFails, registry, relay
<1>3. /\ work[t].at = "pending"
      /\ work[t].gen \in Generations /\ phase[work[t].gen] \in {"serving", "draining"}
      /\ work[t].folder \in Folders
  BY <1>1, NoneApart, <1>2 DEF BirthFails, WorksOK, WorkOK, WorkTypes, Work, Owners
<1>4. /\ work' \in [Owners -> Work] /\ \A q \in Owners : q # t => work'[q] = work[q]
      /\ work'[t].at = "done" /\ work'[t].gen = None /\ work'[t].native = None
      /\ work'[t].folder = None /\ work'[t].known = FALSE /\ work'[t].moved = FALSE /\ work'[t].commit = FALSE
  <2> DEFINE x == work[t]
             k == Over
  <2>1. x \in Work /\ work' = [work EXCEPT ![t] = k]
    BY <1>1, NoneApart, <1>2, <1>3 DEF BirthFails, WorkTypes, Owners
  <2> HIDE DEF x
  <2>2. k \in Work /\ k.at = "done" /\ k.gen = None /\ k.native = None /\ k.folder = None /\ k.known = FALSE /\ k.moved = FALSE /\ k.commit = FALSE
    BY <2>1, NoneApart, <1>1, NoneApart, <1>2, <1>3 DEF Work, NoWork, Over, WorkTypes
  <2> QED
    BY <1>1, NoneApart, <1>2, <1>3, <2>1, <2>2 DEF x, WorkTypes, Owners
<1>5. /\ pending' \in [Generations -> SUBSET Claim]
      /\ \A h \in Generations : h # work[t].gen => pending'[h] = pending[h]
      /\ \A c : c \in pending'[work[t].gen] <=> c \in pending[work[t].gen] /\ c.owner # t
  BY <1>1, NoneApart, <1>2, <1>3, <1>4 DEF BirthFails, RegistryTypes, Of
<1>6. \A o \in Owners : GoesOn(o)
  BY <1>1, NoneApart, <1>2, <1>3, <1>4, <1>5 DEF GoesOn, WorksOK, WorkOK, Owners, Active
<1>7. \A p \in Generations : handed'[p] \subseteq handed[p]
  BY <1>1, NoneApart, <1>2, <1>3, <1>4, <1>5 DEF RegistryTypes
<1>8. RegistryTypes'
  BY <1>1, NoneApart, <1>2, <1>3, <1>4, <1>5 DEF RegistryTypes, Claim
<1>9. WorkTypes'
  BY <1>1, NoneApart, <1>2, <1>3, <1>4, <1>5 DEF WorkTypes
<1>10. GoneOK'
  BY <1>1, NoneApart, <1>2, <1>3, <1>4, <1>5 DEF GoneOK
<1>11. WorksOK'
  BY <1>1, NoneApart, <1>2, <1>3, <1>4, <1>5 DEF WorksOK, WorkOK
<1>12. StructuredOK'
  BY <1>1, NoneApart, <1>2, <1>3, <1>4, <1>5 DEF StructuredOK, Line, Active
<1>13. TerminalsOK'
  BY <1>1, NoneApart, <1>2, <1>3, <1>4, <1>5 DEF TerminalsOK, Awaited, Settled, Faithful
<1>14. SoleOwner'
  BY <1>1, NoneApart, <1>2, <1>3, <1>4, <1>5 DEF SoleOwner, Local
<1>15. HandedOK'
  <2>1. \A p \in Generations : \A c \in handed'[p] :
          c \in pending[p] \cup terminals[p] =>
              c \in pending'[p] \cup terminals'[p] \/ work'[c.owner].at = "done"
    BY <1>1, NoneApart, <1>2, <1>3, <1>4, <1>5, <1>7 DEF Local
  <2>2. RegistryTypes' /\ StructuredOK' /\ phase' = phase /\ stored \subseteq stored'
    BY <1>1, NoneApart, <1>2, <1>3, <1>4, <1>5, <1>12, <1>8 DEF Line, Active, RegistryTypes, StructuredOK
  <2> QED
    BY <1>1, <2>1, <2>2, <1>6, <1>7, HandedStays
<1>16. PhaseTypes' /\ RelayTypes' /\ RoundsOK' /\ PhasesOK' /\ CountedOK'
  BY <1>1, <1>2, RelayStays
<1>17. ASSUME ~ Unreadable PROVE HandoverOK'
  <2>1. HandoverOK
    BY <1>17 DEF IInv
  <2>2. \A p \in Generations : Kept(p)' \subseteq Kept(p)
    BY <1>1, <1>12, <1>13, <1>6, <1>7, KeptShrinks
  <2> QED
    BY <1>2, <2>1, <2>2 DEF HandoverOK, Guarded
<1> QED
  BY <1>8, <1>9, <1>10, <1>11, <1>12, <1>13, <1>14, <1>15, <1>16, <1>17 DEF IInv, Base, Types

LEMMA CommitBornKeeps ==
    ASSUME IInv, NEW t \in Terminals, CommitBorn(t)
    PROVE  IInv'
<1>1. /\ PhaseTypes /\ RegistryTypes /\ RelayTypes /\ WorkTypes /\ GoneOK
      /\ RoundsOK /\ PhasesOK /\ WorksOK /\ StructuredOK /\ TerminalsOK
      /\ SoleOwner /\ CountedOK /\ HandedOK
  BY DEF IInv, Base, Types
<1>2. UNCHANGED <<phase, listed, structured, remote, legacy, compatible, misses, round, stored, handed>>
  BY DEF CommitBorn, registry, relay
<1>3. /\ work[t].commit /\ work[t].at \in {"running", "exited", "done"}
      /\ work[t].gen \in Generations /\ phase[work[t].gen] \in {"serving", "draining"}
      /\ work[t].folder \in Folders
  BY <1>1, NoneApart, <1>2 DEF CommitBorn, WorksOK, WorkOK, WorkTypes, Work, Owners
<1>4. IF work[t].at = "done" THEN work' = [work EXCEPT ![t] = Over] ELSE work' = [work EXCEPT ![t].commit = FALSE]
  BY <1>1, NoneApart, <1>2, <1>3 DEF CommitBorn, WorkTypes, Owners
<1>5. /\ work' \in [Owners -> Work] /\ \A q \in Owners : q # t => work'[q] = work[q]
      /\ work[t].at # "done" => /\ work'[t].at = work[t].at /\ work'[t].gen = work[t].gen
           /\ work'[t].native = work[t].native /\ work'[t].folder = work[t].folder
           /\ work'[t].moved = work[t].moved /\ work'[t].commit = FALSE
      /\ ~ work[t].at # "done" => /\ work'[t].at = "done" /\ work'[t].gen = None /\ work'[t].native = None
           /\ ~ work'[t].moved /\ ~ work'[t].commit
  <2> DEFINE x == work[t]
             k == [x EXCEPT !.commit = FALSE]
  <2>1. x \in Work /\ Over \in Work
    BY <1>1, NoneApart DEF WorkTypes, Owners, Work, Over, NoWork
  <2> HIDE DEF x
  <2>2. /\ k \in Work /\ k.at = x.at /\ k.gen = x.gen /\ k.native = x.native
        /\ k.folder = x.folder /\ k.moved = x.moved /\ k.commit = FALSE
    BY <2>1 DEF Work
  <2>3. work[t].at # "done" => work' = [work EXCEPT ![t] = k]
    BY <1>4 DEF x
  <2>4. ~ work[t].at # "done" => work' = [work EXCEPT ![t] = Over]
    BY <1>4
  <2>5. /\ Over.at = "done" /\ Over.gen = None /\ Over.native = None /\ ~ Over.moved
        /\ ~ Over.commit
    BY DEF Over, NoWork
  <2> QED
    BY <1>1, NoneApart, <2>1, <2>2, <2>3, <2>4, <2>5 DEF x, WorkTypes, Owners
<1>6. /\ pending' \in [Generations -> SUBSET Claim]
      /\ \A h \in Generations : h # work[t].gen => pending'[h] = pending[h]
      /\ \A c : c \in pending'[work[t].gen] <=> c \in pending[work[t].gen] /\ c.owner # t
  BY <1>1, NoneApart, <1>2, <1>3, <1>4, <1>5 DEF CommitBorn, RegistryTypes, Of
<1>7. /\ terminals' \in [Generations -> SUBSET Claim]
      /\ \A h \in Generations : h # work[t].gen => terminals'[h] = terminals[h]
      /\ \A c : c \in terminals'[work[t].gen] <=>
             (c \in terminals[work[t].gen] \/ (c \in pending[work[t].gen] /\ c.owner = t))
  BY <1>1, NoneApart, <1>2, <1>3, <1>4, <1>5, <1>6 DEF CommitBorn, RegistryTypes, Committed, Of
<1>8. \A o \in Owners : GoesOn(o)
  BY <1>1, NoneApart, <1>2, <1>3, <1>4, <1>5, <1>6, <1>7 DEF GoesOn, WorksOK, WorkOK, Owners, Active
<1>9. \A p \in Generations : handed'[p] \subseteq handed[p]
  BY <1>1, NoneApart, <1>2, <1>3, <1>4, <1>5, <1>6, <1>7 DEF RegistryTypes
<1>10. RegistryTypes'
  BY <1>1, NoneApart, <1>2, <1>3, <1>4, <1>5, <1>6, <1>7 DEF RegistryTypes, Claim
<1>11. WorkTypes'
  BY <1>1, NoneApart, <1>2, <1>3, <1>4, <1>5, <1>6, <1>7 DEF WorkTypes
<1>12. GoneOK'
  BY <1>1, NoneApart, <1>2, <1>3, <1>4, <1>5, <1>6, <1>7 DEF GoneOK
<1>13. WorksOK'
  BY <1>1, NoneApart, <1>2, <1>3, <1>4, <1>5, <1>6, <1>7 DEF WorksOK, WorkOK
<1>14. StructuredOK'
  BY <1>1, NoneApart, <1>2, <1>3, <1>4, <1>5, <1>6, <1>7 DEF StructuredOK, Line, Active
<1>15. TerminalsOK'
  <2>1. \A h \in Generations : \A c \in pending'[h] : c.owner \in Terminals /\ Awaited(c.owner, h)' /\ Faithful(c)'
    BY <1>1, NoneApart, <1>2, <1>3, <1>4, <1>5, <1>6, <1>7 DEF TerminalsOK, Awaited, Settled, Faithful, WorksOK, WorkOK, Owners
  <2>2. \A h \in Generations : \A c \in terminals'[h] : c.owner \in Terminals /\ Settled(c.owner, h)' /\ Faithful(c)'
    BY <1>1, NoneApart, <1>2, <1>3, <1>4, <1>5, <1>6, <1>7 DEF TerminalsOK, Awaited, Settled, Faithful, WorksOK, WorkOK, Owners
  <2>3. \A h \in Generations : \A u \in Terminals : Awaited(u, h)' => \E c \in pending'[h] : c.owner = u
    BY <1>1, NoneApart, <1>2, <1>3, <1>4, <1>5, <1>6, <1>7 DEF TerminalsOK, Awaited, Settled, Owners
  <2>4. \A h \in Generations : \A u \in Terminals : Settled(u, h)' => \E c \in terminals'[h] : c.owner = u
    BY <1>1, NoneApart, <1>2, <1>3, <1>4, <1>5, <1>6, <1>7 DEF TerminalsOK, Awaited, Settled, Owners
  <2>5. \A h \in Generations : \A c, d \in pending'[h] \cup terminals'[h] : c.owner = d.owner => c = d
    BY <1>1, NoneApart, <1>2, <1>3, <1>4, <1>5, <1>6, <1>7 DEF TerminalsOK, Awaited, Settled
  <2> QED
    BY <2>1, <2>2, <2>3, <2>4, <2>5 DEF TerminalsOK
<1>16. SoleOwner'
  BY <1>1, NoneApart, <1>2, <1>3, <1>4, <1>5, <1>6, <1>7 DEF SoleOwner, Local
<1>17. HandedOK'
  <2>1. \A p \in Generations : \A c \in handed'[p] :
          c \in pending[p] \cup terminals[p] =>
              c \in pending'[p] \cup terminals'[p] \/ work'[c.owner].at = "done"
    BY <1>1, NoneApart, <1>2, <1>3, <1>4, <1>5, <1>6, <1>7, <1>9 DEF Local
  <2>2. RegistryTypes' /\ StructuredOK' /\ phase' = phase /\ stored \subseteq stored'
    BY <1>1, NoneApart, <1>2, <1>3, <1>4, <1>5, <1>6, <1>7, <1>14, <1>10 DEF Line, Active, RegistryTypes, StructuredOK
  <2> QED
    BY <1>1, <2>1, <2>2, <1>8, <1>9, HandedStays
<1>18. PhaseTypes' /\ RelayTypes' /\ RoundsOK' /\ PhasesOK' /\ CountedOK'
  BY <1>1, <1>2, RelayStays
<1>19. ASSUME ~ Unreadable PROVE HandoverOK'
  <2>1. HandoverOK
    BY <1>19 DEF IInv
  <2>2. \A p \in Generations : Kept(p)' \subseteq Kept(p)
    BY <1>1, <1>14, <1>15, <1>8, <1>9, KeptShrinks
  <2> QED
    BY <1>2, <2>1, <2>2 DEF HandoverOK, Guarded
<1> QED
  BY <1>10, <1>11, <1>12, <1>13, <1>14, <1>15, <1>16, <1>17, <1>18, <1>19 DEF IInv, Base, Types

LEMMA ExitedKeeps ==
    ASSUME IInv, NEW t \in Terminals, Exited(t)
    PROVE  IInv'
<1>1. /\ PhaseTypes /\ RegistryTypes /\ RelayTypes /\ WorkTypes /\ GoneOK
      /\ RoundsOK /\ PhasesOK /\ WorksOK /\ StructuredOK /\ TerminalsOK
      /\ SoleOwner /\ CountedOK /\ HandedOK
  BY DEF IInv, Base, Types
<1>2. UNCHANGED <<phase, listed, structured, pending, terminals, remote, legacy, compatible, misses, round, stored, handed>>
  BY DEF Exited, registry, relay
<1>3. /\ work[t].at = "running"
      /\ work[t].gen \in Generations /\ phase[work[t].gen] \in {"serving", "draining"}
      /\ work[t].folder \in Folders
  BY <1>1, NoneApart, <1>2 DEF Exited, WorksOK, WorkOK, WorkTypes, Work, Owners
<1>4. /\ work' \in [Owners -> Work] /\ \A q \in Owners : q # t => work'[q] = work[q]
      /\ work'[t].at = "exited" /\ work'[t].gen = work[t].gen /\ work'[t].native = work[t].native
      /\ work'[t].folder = work[t].folder /\ work'[t].known = work[t].known /\ work'[t].moved = work[t].moved /\ work'[t].commit = work[t].commit
  <2> DEFINE x == work[t]
             k == [x EXCEPT !.at = "exited"]
  <2>1. x \in Work /\ work' = [work EXCEPT ![t] = k]
    BY <1>1, NoneApart, <1>2, <1>3 DEF Exited, WorkTypes, Owners
  <2> HIDE DEF x
  <2>2. k \in Work /\ k.at = "exited" /\ k.gen = x.gen /\ k.native = x.native /\ k.folder = x.folder /\ k.known = x.known /\ k.moved = x.moved /\ k.commit = x.commit
    BY <2>1, NoneApart DEF Work, NoWork, Over, WorkTypes
  <2> QED
    BY <1>1, NoneApart, <1>2, <1>3, <2>1, <2>2 DEF x, WorkTypes, Owners
<1>5. \A o \in Owners : GoesOn(o)
  BY <1>1, NoneApart, <1>2, <1>3, <1>4 DEF GoesOn, WorksOK, WorkOK, Owners, Active
<1>6. \A p \in Generations : handed'[p] \subseteq handed[p]
  BY <1>1, NoneApart, <1>2, <1>3, <1>4 DEF RegistryTypes
<1>7. WorkTypes'
  BY <1>1, NoneApart, <1>2, <1>3, <1>4 DEF WorkTypes
<1>8. WorksOK'
  BY <1>1, NoneApart, <1>2, <1>3, <1>4 DEF WorksOK, WorkOK
<1>9. StructuredOK'
  BY <1>1, NoneApart, <1>2, <1>3, <1>4 DEF StructuredOK, Line, Active
<1>10. TerminalsOK'
  BY <1>1, NoneApart, <1>2, <1>3, <1>4 DEF TerminalsOK, Awaited, Settled, Faithful
<1>11. HandedOK'
  <2>1. \A p \in Generations : \A c \in handed'[p] :
          c \in pending[p] \cup terminals[p] =>
              c \in pending'[p] \cup terminals'[p] \/ work'[c.owner].at = "done"
    BY <1>1, NoneApart, <1>2, <1>3, <1>4, <1>6 DEF Local
  <2>2. RegistryTypes' /\ StructuredOK' /\ phase' = phase /\ stored \subseteq stored'
    BY <1>1, NoneApart, <1>2, <1>3, <1>4, <1>9 DEF Line, Active, RegistryTypes, StructuredOK
  <2> QED
    BY <1>1, <2>1, <2>2, <1>5, <1>6, HandedStays
<1>12. PhaseTypes' /\ RegistryTypes' /\ RelayTypes' /\ GoneOK' /\ RoundsOK'
      /\ PhasesOK' /\ SoleOwner' /\ CountedOK'
  BY <1>1, <1>2, RelayStays, ClaimsStay
<1>13. ASSUME ~ Unreadable PROVE HandoverOK'
  <2>1. HandoverOK
    BY <1>13 DEF IInv
  <2>2. \A p \in Generations : Kept(p)' \subseteq Kept(p)
    BY <1>1, <1>9, <1>10, <1>5, <1>6, KeptShrinks
  <2> QED
    BY <1>2, <2>1, <2>2 DEF HandoverOK, Guarded
<1> QED
  BY <1>7, <1>8, <1>9, <1>10, <1>11, <1>12, <1>13 DEF IInv, Base, Types

LEMMA TerminalEndedKeeps ==
    ASSUME IInv, NEW t \in Terminals, TerminalEnded(t)
    PROVE  IInv'
<1>1. /\ PhaseTypes /\ RegistryTypes /\ RelayTypes /\ WorkTypes /\ GoneOK
      /\ RoundsOK /\ PhasesOK /\ WorksOK /\ StructuredOK /\ TerminalsOK
      /\ SoleOwner /\ CountedOK /\ HandedOK
  BY DEF IInv, Base, Types
<1>2. UNCHANGED <<phase, listed, structured, remote, legacy, compatible, misses, round, stored, handed>>
  BY DEF TerminalEnded, registry, relay
<1>3. /\ work[t].at = "exited"
      /\ work[t].gen \in Generations /\ phase[work[t].gen] \in {"serving", "draining"}
      /\ work[t].folder \in Folders
  BY <1>1, NoneApart, <1>2 DEF TerminalEnded, WorksOK, WorkOK, WorkTypes, Work, Owners
<1>4. IF work[t].commit THEN work' = [work EXCEPT ![t].at = "done"] ELSE work' = [work EXCEPT ![t] = Over]
  BY <1>1, NoneApart, <1>2, <1>3 DEF TerminalEnded, WorkTypes, Owners
<1>5. /\ work' \in [Owners -> Work] /\ \A q \in Owners : q # t => work'[q] = work[q]
      /\ work[t].commit => /\ work'[t].at = "done" /\ work'[t].gen = work[t].gen
           /\ work'[t].native = work[t].native /\ work'[t].folder = work[t].folder
           /\ work'[t].moved = work[t].moved /\ work'[t].commit = work[t].commit
      /\ ~ work[t].commit => /\ work'[t].at = "done" /\ work'[t].gen = None /\ work'[t].native = None
           /\ ~ work'[t].moved /\ ~ work'[t].commit
  <2> DEFINE x == work[t]
             k == [x EXCEPT !.at = "done"]
  <2>1. x \in Work /\ Over \in Work
    BY <1>1, NoneApart DEF WorkTypes, Owners, Work, Over, NoWork
  <2> HIDE DEF x
  <2>2. /\ k \in Work /\ k.at = "done" /\ k.gen = x.gen /\ k.native = x.native
        /\ k.folder = x.folder /\ k.moved = x.moved /\ k.commit = x.commit
    BY <2>1 DEF Work
  <2>3. work[t].commit => work' = [work EXCEPT ![t] = k]
    BY <1>4 DEF x
  <2>4. ~ work[t].commit => work' = [work EXCEPT ![t] = Over]
    BY <1>4
  <2>5. /\ Over.at = "done" /\ Over.gen = None /\ Over.native = None /\ ~ Over.moved
        /\ ~ Over.commit
    BY DEF Over, NoWork
  <2> QED
    BY <1>1, NoneApart, <2>1, <2>2, <2>3, <2>4, <2>5 DEF x, WorkTypes, Owners
<1>6. /\ pending' \in [Generations -> SUBSET Claim]
      /\ \A h \in Generations : h # work[t].gen => pending'[h] = pending[h]
      /\ \A c : c \in pending'[work[t].gen] <=> c \in pending[work[t].gen] /\ c.owner # t
  BY <1>1, NoneApart, <1>2, <1>3, <1>4, <1>5 DEF TerminalEnded, RegistryTypes, Of
<1>7. /\ terminals' \in [Generations -> SUBSET Claim]
      /\ \A h \in Generations : h # work[t].gen => terminals'[h] = terminals[h]
      /\ \A c : c \in terminals'[work[t].gen] <=> c \in terminals[work[t].gen] /\ c.owner # t
  BY <1>1, NoneApart, <1>2, <1>3, <1>4, <1>5, <1>6 DEF TerminalEnded, RegistryTypes, Of
<1>8. \A o \in Owners : GoesOn(o)
  BY <1>1, NoneApart, <1>2, <1>3, <1>4, <1>5, <1>6, <1>7 DEF GoesOn, WorksOK, WorkOK, Owners, Active
<1>9. \A p \in Generations : handed'[p] \subseteq handed[p]
  BY <1>1, NoneApart, <1>2, <1>3, <1>4, <1>5, <1>6, <1>7 DEF RegistryTypes
<1>10. RegistryTypes'
  BY <1>1, NoneApart, <1>2, <1>3, <1>4, <1>5, <1>6, <1>7 DEF RegistryTypes, Claim
<1>11. WorkTypes'
  BY <1>1, NoneApart, <1>2, <1>3, <1>4, <1>5, <1>6, <1>7 DEF WorkTypes
<1>12. GoneOK'
  BY <1>1, NoneApart, <1>2, <1>3, <1>4, <1>5, <1>6, <1>7 DEF GoneOK
<1>13. WorksOK'
  BY <1>1, NoneApart, <1>2, <1>3, <1>4, <1>5, <1>6, <1>7 DEF WorksOK, WorkOK
<1>14. StructuredOK'
  BY <1>1, NoneApart, <1>2, <1>3, <1>4, <1>5, <1>6, <1>7 DEF StructuredOK, Line, Active
<1>15. TerminalsOK'
  <2>1. \A h \in Generations : \A c \in pending'[h] : c.owner \in Terminals /\ Awaited(c.owner, h)' /\ Faithful(c)'
    BY <1>1, NoneApart, <1>2, <1>3, <1>4, <1>5, <1>6, <1>7 DEF TerminalsOK, Awaited, Settled, Faithful, WorksOK, WorkOK, Owners
  <2>2. \A h \in Generations : \A c \in terminals'[h] : c.owner \in Terminals /\ Settled(c.owner, h)' /\ Faithful(c)'
    BY <1>1, NoneApart, <1>2, <1>3, <1>4, <1>5, <1>6, <1>7 DEF TerminalsOK, Awaited, Settled, Faithful, WorksOK, WorkOK, Owners
  <2>3. \A h \in Generations : \A u \in Terminals : Awaited(u, h)' => \E c \in pending'[h] : c.owner = u
    BY <1>1, NoneApart, <1>2, <1>3, <1>4, <1>5, <1>6, <1>7 DEF TerminalsOK, Awaited, Settled, Owners
  <2>4. \A h \in Generations : \A u \in Terminals : Settled(u, h)' => \E c \in terminals'[h] : c.owner = u
    BY <1>1, NoneApart, <1>2, <1>3, <1>4, <1>5, <1>6, <1>7 DEF TerminalsOK, Awaited, Settled, Owners
  <2>5. \A h \in Generations : \A c, d \in pending'[h] \cup terminals'[h] : c.owner = d.owner => c = d
    BY <1>1, NoneApart, <1>2, <1>3, <1>4, <1>5, <1>6, <1>7 DEF TerminalsOK, Awaited, Settled
  <2> QED
    BY <2>1, <2>2, <2>3, <2>4, <2>5 DEF TerminalsOK
<1>16. SoleOwner'
  BY <1>1, NoneApart, <1>2, <1>3, <1>4, <1>5, <1>6, <1>7 DEF SoleOwner, Local
<1>17. HandedOK'
  <2>1. \A p \in Generations : \A c \in handed'[p] :
          c \in pending[p] \cup terminals[p] =>
              c \in pending'[p] \cup terminals'[p] \/ work'[c.owner].at = "done"
    BY <1>1, NoneApart, <1>2, <1>3, <1>4, <1>5, <1>6, <1>7, <1>9 DEF Local
  <2>2. RegistryTypes' /\ StructuredOK' /\ phase' = phase /\ stored \subseteq stored'
    BY <1>1, NoneApart, <1>2, <1>3, <1>4, <1>5, <1>6, <1>7, <1>14, <1>10 DEF Line, Active, RegistryTypes, StructuredOK
  <2> QED
    BY <1>1, <2>1, <2>2, <1>8, <1>9, HandedStays
<1>18. PhaseTypes' /\ RelayTypes' /\ RoundsOK' /\ PhasesOK' /\ CountedOK'
  BY <1>1, <1>2, RelayStays
<1>19. ASSUME ~ Unreadable PROVE HandoverOK'
  <2>1. HandoverOK
    BY <1>19 DEF IInv
  <2>2. \A p \in Generations : Kept(p)' \subseteq Kept(p)
    BY <1>1, <1>14, <1>15, <1>8, <1>9, KeptShrinks
  <2> QED
    BY <1>2, <2>1, <2>2 DEF HandoverOK, Guarded
<1> QED
  BY <1>10, <1>11, <1>12, <1>13, <1>14, <1>15, <1>16, <1>17, <1>18, <1>19 DEF IInv, Base, Types

LEMMA MintKeeps ==
    ASSUME IInv, NEW t \in Terminals, Mint(t)
    PROVE  IInv'
<1>1. /\ PhaseTypes /\ RegistryTypes /\ RelayTypes /\ WorkTypes /\ GoneOK
      /\ RoundsOK /\ PhasesOK /\ WorksOK /\ StructuredOK /\ TerminalsOK
      /\ SoleOwner /\ CountedOK /\ HandedOK
  BY DEF IInv, Base, Types
<1>2. UNCHANGED <<phase, listed, structured, pending, terminals, remote, legacy, compatible, misses, round, handed>>
  BY DEF Mint, registry, relay
<1>3. PICK n \in Natives \ stored :
        /\ work[t].at = "running" /\ work[t].native = None
        /\ work' = [work EXCEPT ![t].native = n] /\ stored' = stored \cup {n}
  BY <1>1, NoneApart, <1>2 DEF Mint, WorkTypes
<1>4. /\ work[t].at = "running" /\ work[t].native = None
      /\ work[t].gen \in Generations /\ phase[work[t].gen] \in {"serving", "draining"}
      /\ work[t].folder \in Folders
  BY <1>1, NoneApart, <1>2, <1>3 DEF Mint, WorksOK, WorkOK, WorkTypes, Work, Owners
<1>5. /\ work' \in [Owners -> Work] /\ \A q \in Owners : q # t => work'[q] = work[q]
      /\ work'[t].at = work[t].at /\ work'[t].gen = work[t].gen /\ work'[t].native = n
      /\ work'[t].folder = work[t].folder /\ work'[t].known = work[t].known /\ work'[t].moved = work[t].moved /\ work'[t].commit = work[t].commit
  <2> DEFINE x == work[t]
             k == [x EXCEPT !.native = n]
  <2>1. x \in Work /\ work' = [work EXCEPT ![t] = k]
    BY <1>1, NoneApart, <1>2, <1>3, <1>4 DEF Mint, WorkTypes, Owners
  <2> HIDE DEF x
  <2>2. k \in Work /\ k.at = x.at /\ k.gen = x.gen /\ k.native = n /\ k.folder = x.folder /\ k.known = x.known /\ k.moved = x.moved /\ k.commit = x.commit
    BY <2>1, NoneApart, <1>1, NoneApart, <1>2, <1>3, <1>4 DEF Work, NoWork, Over, WorkTypes
  <2> QED
    BY <1>1, NoneApart, <1>2, <1>3, <1>4, <2>1, <2>2 DEF x, WorkTypes, Owners
<1>6. \A o \in Owners : GoesOn(o)
  BY <1>1, NoneApart, <1>2, <1>3, <1>4, <1>5 DEF GoesOn, WorksOK, WorkOK, Owners, Active
<1>7. \A p \in Generations : handed'[p] \subseteq handed[p]
  BY <1>1, NoneApart, <1>2, <1>3, <1>4, <1>5 DEF RegistryTypes
<1>8. WorkTypes'
  BY <1>1, NoneApart, <1>2, <1>3, <1>4, <1>5 DEF WorkTypes
<1>9. WorksOK'
  BY <1>1, NoneApart, <1>2, <1>3, <1>4, <1>5 DEF WorksOK, WorkOK
<1>10. StructuredOK'
  BY <1>1, NoneApart, <1>2, <1>3, <1>4, <1>5 DEF StructuredOK, Line, Active
<1>11. TerminalsOK'
  BY <1>1, NoneApart, <1>2, <1>3, <1>4, <1>5 DEF TerminalsOK, Awaited, Settled, Faithful
<1>12. HandedOK'
  <2>1. \A p \in Generations : \A c \in handed'[p] :
          c \in pending[p] \cup terminals[p] =>
              c \in pending'[p] \cup terminals'[p] \/ work'[c.owner].at = "done"
    BY <1>1, NoneApart, <1>2, <1>3, <1>4, <1>5, <1>7 DEF Local
  <2>2. RegistryTypes' /\ StructuredOK' /\ phase' = phase /\ stored \subseteq stored'
    BY <1>1, NoneApart, <1>2, <1>3, <1>4, <1>5, <1>10 DEF Line, Active, RegistryTypes, StructuredOK
  <2> QED
    BY <1>1, <2>1, <2>2, <1>6, <1>7, HandedStays
<1>13. PhaseTypes' /\ RegistryTypes' /\ RelayTypes' /\ GoneOK' /\ RoundsOK'
      /\ PhasesOK' /\ SoleOwner' /\ CountedOK'
  BY <1>1, <1>2, RelayStays, ClaimsStay
<1>14. ASSUME ~ Unreadable PROVE HandoverOK'
  <2>1. HandoverOK
    BY <1>14 DEF IInv
  <2>2. \A p \in Generations : Kept(p)' \subseteq Kept(p)
    BY <1>1, <1>10, <1>11, <1>6, <1>7, KeptShrinks
  <2> QED
    BY <1>2, <2>1, <2>2 DEF HandoverOK, Guarded
<1> QED
  BY <1>8, <1>9, <1>10, <1>11, <1>12, <1>13, <1>14 DEF IInv, Base, Types

LEMMA MoveToKeeps ==
    ASSUME IInv, NEW t \in Terminals, NEW n \in Natives, MoveTo(t, n)
    PROVE  IInv'
<1>1. /\ PhaseTypes /\ RegistryTypes /\ RelayTypes /\ WorkTypes /\ GoneOK
      /\ RoundsOK /\ PhasesOK /\ WorksOK /\ StructuredOK /\ TerminalsOK
      /\ SoleOwner /\ CountedOK /\ HandedOK
  BY DEF IInv, Base, Types
<1>2. UNCHANGED <<phase, listed, structured, pending, terminals, remote, legacy, compatible, misses, round, stored, handed>>
  BY DEF MoveTo, registry, relay
<1>3. /\ work[t].at = "running" /\ n \in stored
      /\ work[t].gen \in Generations /\ phase[work[t].gen] \in {"serving", "draining"}
      /\ work[t].folder \in Folders
  BY <1>1, NoneApart, <1>2 DEF MoveTo, WorksOK, WorkOK, WorkTypes, Work, Owners
<1>4. /\ work' \in [Owners -> Work] /\ \A q \in Owners : q # t => work'[q] = work[q]
      /\ work'[t].at = work[t].at /\ work'[t].gen = work[t].gen /\ work'[t].native = n
      /\ work'[t].folder = work[t].folder /\ work'[t].known = work[t].known /\ work'[t].moved = TRUE /\ work'[t].commit = work[t].commit
  <2> DEFINE x == work[t]
             k == [x EXCEPT !.native = n, !.moved = TRUE]
  <2>1. x \in Work /\ work' = [work EXCEPT ![t] = k]
    BY <1>1, NoneApart, <1>2, <1>3 DEF MoveTo, WorkTypes, Owners
  <2> HIDE DEF x
  <2>2. k \in Work /\ k.at = x.at /\ k.gen = x.gen /\ k.native = n /\ k.folder = x.folder /\ k.known = x.known /\ k.moved = TRUE /\ k.commit = x.commit
    BY <2>1, NoneApart, <1>1, NoneApart, <1>2, <1>3 DEF Work, NoWork, Over, WorkTypes
  <2> QED
    BY <1>1, NoneApart, <1>2, <1>3, <2>1, <2>2 DEF x, WorkTypes, Owners
<1>5. \A o \in Owners : GoesOn(o)
  BY <1>1, NoneApart, <1>2, <1>3, <1>4 DEF GoesOn, WorksOK, WorkOK, Owners, Active
<1>6. \A p \in Generations : handed'[p] \subseteq handed[p]
  BY <1>1, NoneApart, <1>2, <1>3, <1>4 DEF RegistryTypes
<1>7. WorkTypes'
  BY <1>1, NoneApart, <1>2, <1>3, <1>4 DEF WorkTypes
<1>8. WorksOK'
  BY <1>1, NoneApart, <1>2, <1>3, <1>4 DEF WorksOK, WorkOK
<1>9. StructuredOK'
  BY <1>1, NoneApart, <1>2, <1>3, <1>4 DEF StructuredOK, Line, Active
<1>10. TerminalsOK'
  BY <1>1, NoneApart, <1>2, <1>3, <1>4 DEF TerminalsOK, Awaited, Settled, Faithful
<1>11. HandedOK'
  <2>1. \A p \in Generations : \A c \in handed'[p] :
          c \in pending[p] \cup terminals[p] =>
              c \in pending'[p] \cup terminals'[p] \/ work'[c.owner].at = "done"
    BY <1>1, NoneApart, <1>2, <1>3, <1>4, <1>6 DEF Local
  <2>2. RegistryTypes' /\ StructuredOK' /\ phase' = phase /\ stored \subseteq stored'
    BY <1>1, NoneApart, <1>2, <1>3, <1>4, <1>9 DEF Line, Active, RegistryTypes, StructuredOK
  <2> QED
    BY <1>1, <2>1, <2>2, <1>5, <1>6, HandedStays
<1>12. PhaseTypes' /\ RegistryTypes' /\ RelayTypes' /\ GoneOK' /\ RoundsOK'
      /\ PhasesOK' /\ SoleOwner' /\ CountedOK'
  BY <1>1, <1>2, RelayStays, ClaimsStay
<1>13. ASSUME ~ Unreadable PROVE HandoverOK'
  <2>1. HandoverOK
    BY <1>13 DEF IInv
  <2>2. \A p \in Generations : Kept(p)' \subseteq Kept(p)
    BY <1>1, <1>9, <1>10, <1>5, <1>6, KeptShrinks
  <2> QED
    BY <1>2, <2>1, <2>2 DEF HandoverOK, Guarded
<1> QED
  BY <1>7, <1>8, <1>9, <1>10, <1>11, <1>12, <1>13 DEF IInv, Base, Types

LEMMA BindNativesKeeps ==
    ASSUME IInv, NEW g \in Generations, NEW batch \in SUBSET Terminals, BindNatives(g, batch)
    PROVE  IInv'
<1>1. /\ PhaseTypes /\ RegistryTypes /\ RelayTypes /\ WorkTypes /\ GoneOK
      /\ RoundsOK /\ PhasesOK /\ WorksOK /\ StructuredOK /\ TerminalsOK
      /\ SoleOwner /\ CountedOK /\ HandedOK
  BY DEF IInv, Base, Types
<1>2. UNCHANGED <<phase, listed, structured, pending, remote, legacy, compatible, misses, round, work, stored>>
  BY DEF BindNatives, registry, relay
<1>3. /\ batch # {}
      /\ \A t \in batch : /\ t \in Terminals /\ work[t].at = "running" /\ work[t].gen = g
                         /\ work[t].native # None /\ Of(t, terminals[g]) # {}
                         /\ Free(g, work[t].native, work[t].folder, FALSE, OwnClaims(g, batch))
      /\ \A t, u \in batch : t # u => work[t].native # work[u].native
  BY <1>1, NoneApart, <1>2 DEF BindNatives, Observable, Binds
<1>4. \A t \in batch : Settled(t, g)
  <2>1. \A t \in batch : \E c \in terminals[g] : c.owner = t
    BY <1>3 DEF Of
  <2> QED
    BY <1>1, <2>1 DEF TerminalsOK
<1>5. phase[g] \in {"serving", "draining"}
  <2>1. PICK t \in batch : t \in Owners /\ work[t].gen = g
    BY <1>1, NoneApart, <1>2, <1>3, <1>4 DEF Owners
  <2> QED
    BY <1>1, NoneApart, <1>2, <1>3, <1>4, <2>1 DEF WorksOK, WorkOK
<1>6. \A t \in batch : /\ Line(t) \in Claim /\ Line(t).owner = t
                        /\ Line(t).native = work[t].native /\ Line(t).folder = work[t].folder
  BY <1>1, NoneApart, <1>2, <1>3, <1>4, <1>5 DEF WorksOK, WorkOK, WorkTypes, Work, Owners, Line, Claim
<1>7. \A t \in batch : \A c \in Local(g) : c.owner \notin batch => c.native # work[t].native
  BY <1>1, NoneApart, <1>2, <1>3, <1>4, <1>5, <1>6 DEF Free, Conflicts, OwnClaims, Local
<1>8. /\ terminals' \in [Generations -> SUBSET Claim]
      /\ \A h \in Generations : h # g => terminals'[h] = terminals[h]
      /\ \A c : c \in terminals'[g] <=>
             ((c \in terminals[g] /\ c.owner \notin batch) \/ \E t \in batch : c = Line(t))
  BY <1>1, NoneApart, <1>2, <1>3, <1>4, <1>5, <1>6, <1>7 DEF BindNatives, RegistryTypes, OwnClaims
<1>9. /\ handed' \in [Generations -> SUBSET Claim]
      /\ \A h \in Generations : h # g => handed'[h] = handed[h]
      /\ handed'[g] = handed[g] \cap Local(g)'
  BY <1>1, NoneApart, <1>2, <1>3, <1>4, <1>5, <1>6, <1>7, <1>8 DEF BindNatives, RegistryTypes
<1>10. \A o \in Owners : GoesOn(o)
  BY <1>1, NoneApart, <1>2, <1>3, <1>4, <1>5, <1>6, <1>7, <1>8, <1>9 DEF GoesOn, WorksOK, WorkOK, Owners, Active
<1>11. \A p \in Generations : handed'[p] \subseteq handed[p]
  BY <1>1, NoneApart, <1>2, <1>3, <1>4, <1>5, <1>6, <1>7, <1>8, <1>9 DEF RegistryTypes
<1>12. RegistryTypes'
  BY <1>1, NoneApart, <1>2, <1>3, <1>4, <1>5, <1>6, <1>7, <1>8, <1>9 DEF RegistryTypes, Claim
<1>13. GoneOK'
  BY <1>1, NoneApart, <1>2, <1>3, <1>4, <1>5, <1>6, <1>7, <1>8, <1>9 DEF GoneOK
<1>14. TerminalsOK'
  <2>1. \A h \in Generations : \A c \in pending'[h] : c.owner \in Terminals /\ Awaited(c.owner, h)' /\ Faithful(c)'
    BY <1>1, NoneApart, <1>2, <1>3, <1>4, <1>5, <1>6, <1>7, <1>8, <1>9 DEF TerminalsOK, Awaited, Settled, Faithful, WorksOK, WorkOK, Owners
  <2>2. \A h \in Generations : \A c \in terminals'[h] : c.owner \in Terminals /\ Settled(c.owner, h)' /\ Faithful(c)'
    BY <1>1, NoneApart, <1>2, <1>3, <1>4, <1>5, <1>6, <1>7, <1>8, <1>9 DEF TerminalsOK, Awaited, Settled, Faithful, WorksOK, WorkOK, Owners
  <2>3. \A h \in Generations : \A u \in Terminals : Awaited(u, h)' => \E c \in pending'[h] : c.owner = u
    BY <1>1, NoneApart, <1>2, <1>3, <1>4, <1>5, <1>6, <1>7, <1>8, <1>9 DEF TerminalsOK, Awaited, Settled, Owners
  <2>4. \A h \in Generations : \A u \in Terminals : Settled(u, h)' => \E c \in terminals'[h] : c.owner = u
    BY <1>1, NoneApart, <1>2, <1>3, <1>4, <1>5, <1>6, <1>7, <1>8, <1>9 DEF TerminalsOK, Awaited, Settled, Owners
  <2>5. \A h \in Generations : \A c, d \in pending'[h] \cup terminals'[h] : c.owner = d.owner => c = d
    BY <1>1, NoneApart, <1>2, <1>3, <1>4, <1>5, <1>6, <1>7, <1>8, <1>9 DEF TerminalsOK, Awaited, Settled
  <2> QED
    BY <2>1, <2>2, <2>3, <2>4, <2>5 DEF TerminalsOK
<1>15. SoleOwner'
  <2>1. ASSUME NEW c \in Local(g)', NEW d \in Local(g)', c.native # None, c.native = d.native
        PROVE  c = d
    <3>1. \A x \in Local(g)' : \/ x \in Local(g) /\ x.owner \notin batch
                              \/ \E t \in batch : x = Line(t)
      BY <1>1, NoneApart, <1>2, <1>3, <1>4, <1>5, <1>6, <1>7, <1>8, <1>9 DEF Local, StructuredOK, TerminalsOK, Awaited, Settled
    <3>2. CASE c \in Local(g) /\ c.owner \notin batch /\ d \in Local(g)
      BY <1>1, <2>1, <3>2 DEF SoleOwner
    <3>3. CASE \E t, u \in batch : c = Line(t) /\ d = Line(u)
      BY <1>1, NoneApart, <1>2, <1>3, <1>4, <1>5, <1>6, <1>7, <1>8, <1>9, <2>1, <3>3
    <3>4. CASE c \in Local(g) /\ c.owner \notin batch /\ \E t \in batch : d = Line(t)
      BY <1>1, NoneApart, <1>2, <1>3, <1>4, <1>5, <1>6, <1>7, <1>8, <1>9, <2>1, <3>4
    <3>5. CASE d \in Local(g) /\ d.owner \notin batch /\ \E t \in batch : c = Line(t)
      BY <1>1, NoneApart, <1>2, <1>3, <1>4, <1>5, <1>6, <1>7, <1>8, <1>9, <2>1, <3>5
    <3> QED
      BY <2>1, <3>1, <3>2, <3>3, <3>4, <3>5
  <2>2. ASSUME NEW h \in Generations, h # g PROVE Local(h)' = Local(h)
    BY <1>1, NoneApart, <1>2, <1>3, <1>4, <1>5, <1>6, <1>7, <1>8, <1>9, <2>2 DEF Local
  <2> QED
    BY <1>1, <2>1, <2>2 DEF SoleOwner
<1>16. HandedOK'
  <2>1. ASSUME NEW h \in Generations, NEW c \in handed'[h], c \notin Local(h)'
        PROVE  c \notin Local(h) /\ c \in handed[h]
    <3>1. h # g
      BY <1>1, NoneApart, <1>2, <1>3, <1>4, <1>5, <1>6, <1>7, <1>8, <1>9, <2>1
    <3> QED
      BY <1>1, NoneApart, <1>2, <1>3, <1>4, <1>5, <1>6, <1>7, <1>8, <1>9, <2>1, <3>1 DEF Local
  <2>2. \A h \in Generations : handed'[h] \subseteq handed[h]
    BY <1>1, NoneApart, <1>2, <1>3, <1>4, <1>5, <1>6, <1>7, <1>8, <1>9
  <2> QED
    BY <1>1, NoneApart, <1>2, <1>3, <1>4, <1>5, <1>6, <1>7, <1>8, <1>9, <2>1, <2>2 DEF HandedOK
<1>17. PhaseTypes' /\ RelayTypes' /\ WorkTypes' /\ RoundsOK' /\ PhasesOK'
      /\ WorksOK' /\ StructuredOK' /\ CountedOK'
  BY <1>1, <1>2 DEF PhaseTypes, RelayTypes, WorkTypes, RoundsOK, RoundOK, Round, Claim, PhasesOK, WorksOK, WorkOK, StructuredOK, Line, Active, CountedOK, Line, Active
<1>18. ASSUME ~ Unreadable PROVE HandoverOK'
  <2>1. HandoverOK
    BY <1>18 DEF IInv
  <2>2. \A p \in Generations : Kept(p)' \subseteq Kept(p)
    BY <1>1, <1>17, <1>14, <1>10, <1>11, KeptShrinks
  <2> QED
    BY <1>2, <2>1, <2>2 DEF HandoverOK, Guarded
<1> QED
  BY <1>12, <1>13, <1>14, <1>15, <1>16, <1>17, <1>18 DEF IInv, Base, Types

LEMMA BeginRoundKeeps ==
    ASSUME IInv, NEW g \in Generations, BeginRound(g)
    PROVE  IInv'
<1>1. /\ PhaseTypes /\ RegistryTypes /\ RelayTypes /\ WorkTypes /\ GoneOK
      /\ RoundsOK /\ PhasesOK /\ WorksOK /\ StructuredOK /\ TerminalsOK
      /\ SoleOwner /\ CountedOK /\ HandedOK
  BY DEF IInv, Base, Types
<1>2. UNCHANGED <<phase, listed, structured, pending, terminals, work, stored, handed>>
  BY DEF BeginRound, registry, relay
<1>3. PICK peers \in Seen(g) :
        /\ phase[g] = "serving" /\ ~ round[g].on
        /\ remote' = [remote EXCEPT ![g] = [p \in Generations |-> IF p \in peers THEN @[p] ELSE {}]]
        /\ compatible' = [compatible EXCEPT ![g] = @ \cap peers]
        /\ misses' = [misses EXCEPT ![g] = [p \in Generations |-> IF p \in peers THEN @[p] ELSE 0]]
        /\ peers = {} => legacy' = [legacy EXCEPT ![g] = {}] /\ round' = round
        /\ peers # {} => /\ legacy' = legacy
                         /\ round' = [round EXCEPT ![g] =
                              [on |-> TRUE, peers |-> peers, left |-> peers,
                               lines |-> Local(g) \cup UNION {remote[g][p] : p \in peers},
                               asked |-> None, answer |-> {}]]
  BY <1>1, NoneApart, <1>2 DEF BeginRound
<1>4. peers \subseteq Generations /\ (~ Unreadable => peers = Draining \ {g})
  BY <1>1, NoneApart, <1>2, <1>3 DEF Seen, Draining
<1>5. /\ remote' \in [Generations -> [Generations -> SUBSET Claim]]
      /\ \A h \in Generations : h # g => remote'[h] = remote[h]
      /\ \A p \in peers : remote'[g][p] = remote[g][p]
  BY <1>1, NoneApart, <1>2, <1>3, <1>4 DEF RelayTypes
<1>6. /\ compatible' \in [Generations -> SUBSET Generations]
      /\ \A h \in Generations : h # g => compatible'[h] = compatible[h]
      /\ compatible'[g] = compatible[g] \cap peers
  BY <1>1, NoneApart, <1>2, <1>3, <1>4, <1>5 DEF RelayTypes
<1>7. /\ misses' \in [Generations -> [Generations -> 0 .. Patience]]
      /\ \A h \in Generations : h # g => misses'[h] = misses[h]
      /\ \A p \in peers : misses'[g][p] = misses[g][p]
  BY <1>1, NoneApart, <1>2, <1>3, <1>4, <1>5, <1>6 DEF RelayTypes
<1>8. /\ legacy' \in [Generations -> SUBSET Generations]
      /\ \A h \in Generations : h # g => legacy'[h] = legacy[h]
      /\ peers # {} => legacy'[g] = legacy[g]
  <2>1. CASE peers = {}
    BY <1>1, <1>3, <2>1 DEF RelayTypes
  <2>2. CASE peers # {}
    BY <1>1, NoneApart, <1>3, <1>4, <2>2 DEF RelayTypes
  <2> QED
    BY <2>1, <2>2
<1>9. Local(g) \cup UNION {remote[g][p] : p \in peers} \subseteq Claim
  BY <1>1, NoneApart, <1>2, <1>3, <1>4, <1>5, <1>6, <1>7, <1>8 DEF Local, RegistryTypes, RelayTypes
<1>10. /\ round' \in [Generations -> Round]
       /\ \A h \in Generations : h # g => round'[h] = round[h]
       /\ peers = {} => round'[g] = round[g]
       /\ peers # {} => /\ round'[g].on /\ round'[g].peers = peers /\ round'[g].left = peers
                        /\ round'[g].asked = None
  <2>1. CASE peers = {}
    BY <1>1, <1>3, <2>1 DEF RoundsOK, Round
  <2>2. CASE peers # {}
    <3> DEFINE k == [on |-> TRUE, peers |-> peers, left |-> peers,
                     lines |-> Local(g) \cup UNION {remote[g][p] : p \in peers},
                     asked |-> None, answer |-> {}]
    <3>1. round' = [round EXCEPT ![g] = k]
      BY <1>3, <2>2
    <3>2. k \in Round /\ k.on /\ k.peers = peers /\ k.left = peers /\ k.asked = None
      BY NoneApart, <1>4, <1>9 DEF Round
    <3> HIDE DEF k
    <3> QED
      BY <1>1, <2>2, <3>1, <3>2 DEF RoundsOK
  <2> QED
    BY <2>1, <2>2
<1>11. RelayTypes'
  BY <1>1, NoneApart, <1>2, <1>3, <1>4, <1>5, <1>6, <1>7, <1>8, <1>9, <1>10 DEF RelayTypes
<1>12. GoneOK'
  BY <1>1, NoneApart, <1>2, <1>3, <1>4, <1>5, <1>6, <1>7, <1>8, <1>9, <1>10 DEF GoneOK
<1>13. RoundsOK'
  BY <1>1, NoneApart, <1>2, <1>3, <1>4, <1>5, <1>6, <1>7, <1>8, <1>9, <1>10 DEF RoundsOK, RoundOK, Round, Claim
<1>14. PhasesOK'
  BY <1>1, NoneApart, <1>2, <1>3, <1>4, <1>5, <1>6, <1>7, <1>8, <1>9, <1>10 DEF PhasesOK
<1>15. CountedOK'
  BY <1>1, NoneApart, <1>2, <1>3, <1>4, <1>5, <1>6, <1>7, <1>8, <1>9, <1>10 DEF CountedOK
<1>16. PhaseTypes' /\ RegistryTypes' /\ WorkTypes' /\ WorksOK' /\ StructuredOK'
      /\ TerminalsOK' /\ SoleOwner' /\ HandedOK'
  BY <1>1, <1>2, WorkStays
<1>17. ASSUME ~ Unreadable PROVE HandoverOK'
  <2>1. SUFFICES ASSUME NEW h \in Generations, NEW p \in Generations,
                        phase[h] = "serving", phase[p] = "draining"
                 PROVE  Guarded(h, p)'
    BY <1>1, NoneApart, <1>2, <1>3, <1>4, <1>5, <1>6, <1>7, <1>8, <1>9, <1>10 DEF HandoverOK
  <2>2. h = g /\ p # g /\ p \in peers /\ p # None
    BY <1>1, NoneApart, <1>2, <1>3, <1>4, <1>5, <1>6, <1>7, <1>8, <1>9, <1>10, <1>17, <2>1 DEF PhasesOK, Draining
  <2>3. Guarded(g, p)
    BY <1>1, NoneApart, <1>2, <1>3, <1>4, <1>5, <1>6, <1>7, <1>8, <1>9, <1>10, <1>17, <2>1 DEF IInv, HandoverOK
  <2>4. Kept(p)' = Kept(p)
    BY <1>1, NoneApart, <1>2, <1>3, <1>4, <1>5, <1>6, <1>7, <1>8, <1>9, <1>10 DEF Kept, Local
  <2> QED
    BY <1>1, NoneApart, <1>2, <1>3, <1>4, <1>5, <1>6, <1>7, <1>8, <1>9, <1>10, <2>2, <2>3, <2>4 DEF Guarded
<1> QED
  BY <1>11, <1>12, <1>13, <1>14, <1>15, <1>16, <1>17 DEF IInv, Base, Types

LEMMA EndRoundKeeps ==
    ASSUME IInv, NEW g \in Generations, EndRound(g)
    PROVE  IInv'
<1>1. /\ PhaseTypes /\ RegistryTypes /\ RelayTypes /\ WorkTypes /\ GoneOK
      /\ RoundsOK /\ PhasesOK /\ WorksOK /\ StructuredOK /\ TerminalsOK
      /\ SoleOwner /\ CountedOK /\ HandedOK
  BY DEF IInv, Base, Types
<1>2. UNCHANGED <<phase, listed, structured, pending, terminals, remote, compatible, misses, work, stored, handed>>
  BY DEF EndRound, registry, relay
<1>3. /\ round[g].on /\ legacy' = [legacy EXCEPT ![g] = {p \in round[g].peers : StillBlocking(g, p)}]
      /\ round' = [round EXCEPT ![g] = Resting]
  BY <1>1, NoneApart, <1>2 DEF EndRound
<1>4. round[g] \in Round /\ phase[g] = "serving"
  BY <1>1, NoneApart, <1>2, <1>3 DEF RoundsOK, RoundOK
<1>5. /\ legacy' \in [Generations -> SUBSET Generations]
      /\ \A h \in Generations : h # g => legacy'[h] = legacy[h]
      /\ legacy'[g] = {p \in round[g].peers : StillBlocking(g, p)}
  BY <1>1, NoneApart, <1>2, <1>3, <1>4 DEF RelayTypes, Round
<1>6. /\ round' \in [Generations -> Round]
      /\ \A h \in Generations : h # g => round'[h] = round[h]
      /\ ~ round'[g].on /\ round'[g].left = {} /\ round'[g].asked = None
      /\ round'[g].peers = {}
  BY <1>1, NoneApart, <1>2, <1>3, <1>4, <1>5 DEF RoundsOK, Round, Resting
<1>7. RelayTypes'
  BY <1>1, NoneApart, <1>2, <1>3, <1>4, <1>5, <1>6 DEF RelayTypes
<1>8. RoundsOK'
  BY <1>1, NoneApart, <1>2, <1>3, <1>4, <1>5, <1>6 DEF RoundsOK, RoundOK, Round, Claim
<1>9. CountedOK'
  BY <1>1, NoneApart, <1>2, <1>3, <1>4, <1>5, <1>6 DEF CountedOK
<1>10. PhaseTypes' /\ RegistryTypes' /\ WorkTypes' /\ GoneOK' /\ PhasesOK'
      /\ WorksOK' /\ StructuredOK' /\ TerminalsOK' /\ SoleOwner' /\ HandedOK'
  <2>1. PhaseTypes' /\ RegistryTypes' /\ WorkTypes' /\ WorksOK' /\ StructuredOK'
        /\ TerminalsOK' /\ SoleOwner' /\ HandedOK'
    BY <1>1, <1>2, WorkStays
  <2>2. GoneOK' /\ PhasesOK'
    BY <1>1, <1>2 DEF GoneOK, PhasesOK
  <2> QED
    BY <2>1, <2>2
<1>11. ASSUME ~ Unreadable PROVE HandoverOK'
  <2>1. SUFFICES ASSUME NEW h \in Generations, NEW p \in Generations,
                        phase[h] = "serving", phase[p] = "draining"
                 PROVE  Guarded(h, p)'
    BY <1>1, NoneApart, <1>2, <1>3, <1>4, <1>5, <1>6 DEF HandoverOK
  <2>2. h = g /\ p # None
    BY <1>1, NoneApart, <1>2, <1>3, <1>4, <1>5, <1>6, <2>1 DEF PhasesOK
  <2>3. Guarded(g, p)
    BY <1>1, NoneApart, <1>2, <1>3, <1>4, <1>5, <1>6, <1>11, <2>1, <2>2 DEF IInv, HandoverOK
  <2>4. Kept(p)' = Kept(p)
    BY <1>1, NoneApart, <1>2, <1>3, <1>4, <1>5, <1>6 DEF Kept, Local
  <2>5. misses[g][p] \in 0 .. Patience
    BY <1>1, NoneApart, <1>2, <1>3, <1>4, <1>5, <1>6 DEF RelayTypes
  <2> QED
    BY <1>1, NoneApart, <1>2, <1>3, <1>4, <1>5, <1>6, <2>2, <2>3, <2>4, <2>5 DEF Guarded, StillBlocking
<1> QED
  BY <1>7, <1>8, <1>9, <1>10, <1>11 DEF IInv, Base, Types

LEMMA HandoffKeeps ==
    ASSUME IInv, NEW g \in Generations, NEW p \in Generations, Handoff(g, p)
    PROVE  IInv'
<1>1. /\ PhaseTypes /\ RegistryTypes /\ RelayTypes /\ WorkTypes /\ GoneOK
      /\ RoundsOK /\ PhasesOK /\ WorksOK /\ StructuredOK /\ TerminalsOK
      /\ SoleOwner /\ CountedOK /\ HandedOK
  BY DEF IInv, Base, Types
<1>2. UNCHANGED <<phase, listed, structured, pending, terminals, legacy, compatible, misses, work, stored, handed>>
  BY DEF Handoff, registry, relay
<1>3. /\ p \in round[g].left /\ round[g].asked = None /\ phase[p] = "draining"
      /\ remote' = [remote EXCEPT ![p][g] = round[g].lines]
      /\ round' = [round EXCEPT ![g].asked = p, ![g].answer = Snapshot(p, g)]
  BY <1>1, NoneApart, <1>2 DEF Handoff
<1>4. round[g] \in Round /\ round[g].on /\ phase[g] = "serving" /\ p # g
  BY <1>1, NoneApart, <1>2, <1>3 DEF RoundsOK, RoundOK
<1>5. /\ remote' \in [Generations -> [Generations -> SUBSET Claim]]
      /\ \A h \in Generations : h # p => remote'[h] = remote[h]
  BY <1>1, NoneApart, <1>2, <1>3, <1>4 DEF RelayTypes, Round
<1>6. /\ round' \in [Generations -> Round]
      /\ \A h \in Generations : h # g => round'[h] = round[h]
      /\ round'[g].on /\ round'[g].peers = round[g].peers
      /\ round'[g].left = round[g].left /\ round'[g].asked = p
      /\ round'[g].answer = Snapshot(p, g)
  <2> DEFINE x == round[g]
             k == [x EXCEPT !.asked = p, !.answer = Snapshot(p, g)]
  <2>1. x \in Round /\ round' = [round EXCEPT ![g] = k] /\ x.on
    BY <1>1, NoneApart, <1>2, <1>3, <1>4, <1>5 DEF RoundsOK, Done
  <2>2. Snapshot(p, g) \subseteq Claim
    BY <1>1, NoneApart DEF Snapshot, Local, RegistryTypes, RelayTypes
  <2> HIDE DEF x
  <2>3. k \in Round /\ k.on /\ k.peers = x.peers /\ k.left = x.left /\ k.asked = p /\ k.answer = Snapshot(p, g)
    BY <2>1, <2>2 DEF Round
  <2> HIDE DEF k
  <2> QED
    BY <1>1, <2>1, <2>3 DEF x, RoundsOK
<1>7. RelayTypes'
  BY <1>1, NoneApart, <1>2, <1>3, <1>4, <1>5, <1>6 DEF RelayTypes
<1>8. GoneOK'
  BY <1>1, NoneApart, <1>2, <1>3, <1>4, <1>5, <1>6 DEF GoneOK
<1>9. RoundsOK'
  BY <1>1, NoneApart, <1>2, <1>3, <1>4, <1>5, <1>6 DEF RoundsOK, RoundOK, Round, Claim
<1>10. CountedOK'
  BY <1>1, NoneApart, <1>2, <1>3, <1>4, <1>5, <1>6 DEF CountedOK
<1>11. PhaseTypes' /\ RegistryTypes' /\ WorkTypes' /\ PhasesOK' /\ WorksOK'
      /\ StructuredOK' /\ TerminalsOK' /\ SoleOwner' /\ HandedOK'
  <2>1. PhaseTypes' /\ RegistryTypes' /\ WorkTypes' /\ WorksOK' /\ StructuredOK'
        /\ TerminalsOK' /\ SoleOwner' /\ HandedOK'
    BY <1>1, <1>2, WorkStays
  <2>2. PhasesOK'
    BY <1>1, <1>2 DEF PhasesOK
  <2> QED
    BY <2>1, <2>2
<1>12. ASSUME ~ Unreadable PROVE HandoverOK'
  <2>1. SUFFICES ASSUME NEW h \in Generations, NEW q \in Generations,
                        phase[h] = "serving", phase[q] = "draining"
                 PROVE  Guarded(h, q)'
    BY <1>1, NoneApart, <1>2, <1>3, <1>4, <1>5, <1>6 DEF HandoverOK
  <2>2. h = g /\ q # None
    BY <1>1, NoneApart, <1>2, <1>3, <1>4, <1>5, <1>6, <2>1 DEF PhasesOK
  <2>3. Guarded(g, q)
    BY <1>1, NoneApart, <1>2, <1>3, <1>4, <1>5, <1>6, <1>12, <2>1, <2>2 DEF IInv, HandoverOK
  <2>4. Kept(q)' = Kept(q)
    BY <1>1, NoneApart, <1>2, <1>3, <1>4, <1>5, <1>6 DEF Kept, Local
  <2>5. misses[g][q] \in 0 .. Patience
    BY <1>1, NoneApart, <1>2, <1>3, <1>4, <1>5, <1>6 DEF RelayTypes
  <2>6. Kept(p) \subseteq Snapshot(p, g)
    BY DEF Kept, Snapshot
  <2> QED
    BY <1>1, NoneApart, <1>2, <1>3, <1>4, <1>5, <1>6, <2>2, <2>3, <2>4, <2>6 DEF Guarded
<1> QED
  BY <1>7, <1>8, <1>9, <1>10, <1>11, <1>12 DEF IInv, Base, Types

LEMMA ProvenKeeps ==
    ASSUME IInv, NEW g \in Generations, NEW p \in Generations, Proven(g, p)
    PROVE  IInv'
<1>1. /\ PhaseTypes /\ RegistryTypes /\ RelayTypes /\ WorkTypes /\ GoneOK
      /\ RoundsOK /\ PhasesOK /\ WorksOK /\ StructuredOK /\ TerminalsOK
      /\ SoleOwner /\ CountedOK /\ HandedOK
  BY DEF IInv, Base, Types
<1>2. UNCHANGED <<phase, listed, structured, pending, terminals, legacy, work, stored, handed>>
  BY DEF Proven, registry, relay
<1>3. /\ round[g].asked = p /\ p # None
      /\ remote' = [remote EXCEPT ![g][p] = round[g].answer]
      /\ compatible' = [compatible EXCEPT ![g] = @ \cup {p}]
      /\ misses' = [misses EXCEPT ![g][p] = 0]
      /\ round' = [round EXCEPT ![g] = Done(g, p)]
  BY <1>1, NoneApart, <1>2 DEF Proven
<1>4. round[g] \in Round /\ round[g].on /\ phase[g] = "serving" /\ p \in round[g].left
  BY <1>1, NoneApart, <1>2, <1>3 DEF RoundsOK, RoundOK
<1>5. /\ remote' \in [Generations -> [Generations -> SUBSET Claim]]
      /\ \A h \in Generations : h # g => remote'[h] = remote[h]
      /\ remote'[g][p] = round[g].answer
      /\ \A q \in Generations : q # p => remote'[g][q] = remote[g][q]
  BY <1>1, NoneApart, <1>2, <1>3, <1>4 DEF RelayTypes, Round
<1>6. /\ compatible' \in [Generations -> SUBSET Generations]
      /\ \A h \in Generations : h # g => compatible'[h] = compatible[h]
      /\ compatible'[g] = compatible[g] \cup {p}
  BY <1>1, NoneApart, <1>2, <1>3, <1>4, <1>5 DEF RelayTypes
<1>7. /\ misses' \in [Generations -> [Generations -> 0 .. Patience]]
      /\ \A h \in Generations : h # g => misses'[h] = misses[h]
      /\ \A q \in Generations : q # p => misses'[g][q] = misses[g][q]
  BY <1>1, NoneApart, <1>2, <1>3, <1>4, <1>5, <1>6 DEF RelayTypes
<1>8. /\ round' \in [Generations -> Round]
      /\ \A h \in Generations : h # g => round'[h] = round[h]
      /\ round'[g].on /\ round'[g].peers = round[g].peers
      /\ round'[g].left = round[g].left \ {p} /\ round'[g].asked = None
  <2> DEFINE x == round[g]
             k == [x EXCEPT !.left = @ \ {p}, !.asked = None, !.answer = {}]
  <2>1. x \in Round /\ round' = [round EXCEPT ![g] = k] /\ x.on
    BY <1>1, NoneApart, <1>2, <1>3, <1>4, <1>5, <1>6, <1>7 DEF RoundsOK, Done
  <2> HIDE DEF x
  <2>2. k \in Round /\ k.on /\ k.peers = x.peers /\ k.left = x.left \ {p} /\ k.asked = None
    BY <2>1, NoneApart DEF Round
  <2> HIDE DEF k
  <2> QED
    BY <1>1, <2>1, <2>2 DEF x, RoundsOK
<1>9. RelayTypes'
  BY <1>1, NoneApart, <1>2, <1>3, <1>4, <1>5, <1>6, <1>7, <1>8 DEF RelayTypes
<1>10. GoneOK'
  BY <1>1, NoneApart, <1>2, <1>3, <1>4, <1>5, <1>6, <1>7, <1>8 DEF GoneOK
<1>11. RoundsOK'
  BY <1>1, NoneApart, <1>2, <1>3, <1>4, <1>5, <1>6, <1>7, <1>8 DEF RoundsOK, RoundOK, Round, Claim
<1>12. PhasesOK'
  BY <1>1, NoneApart, <1>2, <1>3, <1>4, <1>5, <1>6, <1>7, <1>8 DEF PhasesOK
<1>13. CountedOK'
  BY <1>1, NoneApart, <1>2, <1>3, <1>4, <1>5, <1>6, <1>7, <1>8 DEF CountedOK
<1>14. PhaseTypes' /\ RegistryTypes' /\ WorkTypes' /\ WorksOK' /\ StructuredOK'
      /\ TerminalsOK' /\ SoleOwner' /\ HandedOK'
  BY <1>1, <1>2, WorkStays
<1>15. ASSUME ~ Unreadable PROVE HandoverOK'
  <2>1. SUFFICES ASSUME NEW h \in Generations, NEW q \in Generations,
                        phase[h] = "serving", phase[q] = "draining"
                 PROVE  Guarded(h, q)'
    BY <1>1, NoneApart, <1>2, <1>3, <1>4, <1>5, <1>6, <1>7, <1>8 DEF HandoverOK
  <2>2. h = g /\ q # None
    BY <1>1, NoneApart, <1>2, <1>3, <1>4, <1>5, <1>6, <1>7, <1>8, <2>1 DEF PhasesOK
  <2>3. Guarded(g, q)
    BY <1>1, NoneApart, <1>2, <1>3, <1>4, <1>5, <1>6, <1>7, <1>8, <1>15, <2>1, <2>2 DEF IInv, HandoverOK
  <2>4. Kept(q)' = Kept(q)
    BY <1>1, NoneApart, <1>2, <1>3, <1>4, <1>5, <1>6, <1>7, <1>8 DEF Kept, Local
  <2>5. misses[g][q] \in 0 .. Patience
    BY <1>1, NoneApart, <1>2, <1>3, <1>4, <1>5, <1>6, <1>7, <1>8 DEF RelayTypes
  <2> QED
    BY <1>1, NoneApart, <1>2, <1>3, <1>4, <1>5, <1>6, <1>7, <1>8, <2>1, <2>2, <2>3, <2>4, <2>5 DEF Guarded
<1> QED
  BY <1>9, <1>10, <1>11, <1>12, <1>13, <1>14, <1>15 DEF IInv, Base, Types

LEMMA MissKeeps ==
    ASSUME IInv, NEW g \in Generations, NEW p \in Generations, Miss(g, p)
    PROVE  IInv'
<1>1. /\ PhaseTypes /\ RegistryTypes /\ RelayTypes /\ WorkTypes /\ GoneOK
      /\ RoundsOK /\ PhasesOK /\ WorksOK /\ StructuredOK /\ TerminalsOK
      /\ SoleOwner /\ CountedOK /\ HandedOK
  BY DEF IInv, Base, Types
<1>2. UNCHANGED <<phase, listed, structured, pending, terminals, remote, legacy, compatible, work, stored, handed>>
  BY DEF Miss, registry, relay
<1>3. /\ p \in round[g].left
      /\ misses' = [misses EXCEPT ![g][p] = Counted(g, p)]
      /\ round' = [round EXCEPT ![g] = Done(g, p)]
  BY <1>1, NoneApart, <1>2 DEF Miss
<1>4. round[g] \in Round /\ round[g].on /\ phase[g] = "serving"
  BY <1>1, NoneApart, <1>2, <1>3 DEF RoundsOK, RoundOK
<1>5. /\ misses[g][p] \in 0 .. Patience
      /\ Counted(g, p) \in 1 .. Patience /\ Counted(g, p) >= misses[g][p]
  BY <1>1, NoneApart, <1>2, <1>3, <1>4 DEF RelayTypes, Counted
<1>6. /\ misses' \in [Generations -> [Generations -> 0 .. Patience]]
      /\ \A h \in Generations : h # g => misses'[h] = misses[h]
      /\ misses'[g][p] = Counted(g, p)
      /\ \A q \in Generations : q # p => misses'[g][q] = misses[g][q]
  BY <1>1, NoneApart, <1>2, <1>3, <1>4, <1>5 DEF RelayTypes
<1>7. /\ round' \in [Generations -> Round]
      /\ \A h \in Generations : h # g => round'[h] = round[h]
      /\ round'[g].on /\ round'[g].peers = round[g].peers
      /\ round'[g].left = round[g].left \ {p} /\ round'[g].asked = None
  <2> DEFINE x == round[g]
             k == [x EXCEPT !.left = @ \ {p}, !.asked = None, !.answer = {}]
  <2>1. x \in Round /\ round' = [round EXCEPT ![g] = k] /\ x.on
    BY <1>1, NoneApart, <1>2, <1>3, <1>4, <1>5, <1>6 DEF RoundsOK, Done
  <2> HIDE DEF x
  <2>2. k \in Round /\ k.on /\ k.peers = x.peers /\ k.left = x.left \ {p} /\ k.asked = None
    BY <2>1, NoneApart DEF Round
  <2> HIDE DEF k
  <2> QED
    BY <1>1, <2>1, <2>2 DEF x, RoundsOK
<1>8. RelayTypes'
  BY <1>1, NoneApart, <1>2, <1>3, <1>4, <1>5, <1>6, <1>7 DEF RelayTypes
<1>9. RoundsOK'
  BY <1>1, NoneApart, <1>2, <1>3, <1>4, <1>5, <1>6, <1>7 DEF RoundsOK, RoundOK, Round, Claim
<1>10. CountedOK'
  BY <1>1, NoneApart, <1>2, <1>3, <1>4, <1>5, <1>6, <1>7 DEF CountedOK
<1>11. PhaseTypes' /\ RegistryTypes' /\ WorkTypes' /\ GoneOK' /\ PhasesOK'
      /\ WorksOK' /\ StructuredOK' /\ TerminalsOK' /\ SoleOwner' /\ HandedOK'
  <2>1. PhaseTypes' /\ RegistryTypes' /\ WorkTypes' /\ WorksOK' /\ StructuredOK'
        /\ TerminalsOK' /\ SoleOwner' /\ HandedOK'
    BY <1>1, <1>2, WorkStays
  <2>2. GoneOK' /\ PhasesOK'
    BY <1>1, <1>2 DEF GoneOK, PhasesOK
  <2> QED
    BY <2>1, <2>2
<1>12. ASSUME ~ Unreadable PROVE HandoverOK'
  <2>1. SUFFICES ASSUME NEW h \in Generations, NEW q \in Generations,
                        phase[h] = "serving", phase[q] = "draining"
                 PROVE  Guarded(h, q)'
    BY <1>1, NoneApart, <1>2, <1>3, <1>4, <1>5, <1>6, <1>7 DEF HandoverOK
  <2>2. h = g /\ q # None
    BY <1>1, NoneApart, <1>2, <1>3, <1>4, <1>5, <1>6, <1>7, <2>1 DEF PhasesOK
  <2>3. Guarded(g, q)
    BY <1>1, NoneApart, <1>2, <1>3, <1>4, <1>5, <1>6, <1>7, <1>12, <2>1, <2>2 DEF IInv, HandoverOK
  <2>4. Kept(q)' = Kept(q)
    BY <1>1, NoneApart, <1>2, <1>3, <1>4, <1>5, <1>6, <1>7 DEF Kept, Local
  <2>5. misses[g][q] \in 0 .. Patience
    BY <1>1, NoneApart, <1>2, <1>3, <1>4, <1>5, <1>6, <1>7 DEF RelayTypes
  <2> QED
    BY <1>1, NoneApart, <1>2, <1>3, <1>4, <1>5, <1>6, <1>7, <2>2, <2>3, <2>4, <2>5 DEF Guarded
<1> QED
  BY <1>8, <1>9, <1>10, <1>11, <1>12 DEF IInv, Base, Types

LEMMA StartKeeps ==
    ASSUME IInv, NEW g \in Generations, Start(g)
    PROVE  IInv'
<1>1. /\ PhaseTypes /\ RegistryTypes /\ RelayTypes /\ WorkTypes /\ GoneOK
      /\ RoundsOK /\ PhasesOK /\ WorksOK /\ StructuredOK /\ TerminalsOK
      /\ SoleOwner /\ CountedOK /\ HandedOK
  BY DEF IInv, Base, Types
<1>2. UNCHANGED <<structured, pending, terminals, remote, compatible, misses, round, work, stored, handed>>
  BY DEF Start, registry, relay
<1>3. /\ phase[g] = "new" /\ \A p \in Generations : phase[p] # "serving"
      /\ phase' = [phase EXCEPT ![g] = "serving"]
      /\ legacy' = [legacy EXCEPT ![g] = {p \in Generations \ {g} : listed'[p] = "draining"}]
  BY <1>1, NoneApart, <1>2 DEF Start
<1>4. /\ phase' \in [Generations -> {"new", "serving", "draining", "gone"}]
      /\ phase'[g] = "serving" /\ \A h \in Generations : h # g => phase'[h] = phase[h]
  BY <1>1, NoneApart, <1>2, <1>3 DEF PhaseTypes
<1>5. /\ listed' \in [Generations -> {"no", "serving", "draining"}]
      /\ \A h \in Generations : h # g /\ phase[h] # "gone" => listed'[h] = listed[h]
  BY <1>1, NoneApart, <1>2, <1>3, <1>4 DEF Start, PhaseTypes
<1>6. /\ legacy' \in [Generations -> SUBSET Generations]
      /\ \A h \in Generations : h # g => legacy'[h] = legacy[h]
      /\ \A p \in Generations : p # g /\ listed'[p] = "draining" => p \in legacy'[g]
  BY <1>1, NoneApart, <1>2, <1>3, <1>4, <1>5 DEF RelayTypes
<1>7. ~ round[g].on /\ round[g].asked = None /\ compatible[g] = {}
  BY <1>1, NoneApart, <1>2, <1>3, <1>4, <1>5, <1>6 DEF RoundsOK, RoundOK, PhasesOK
<1>8. PhaseTypes'
  BY <1>1, NoneApart, <1>2, <1>3, <1>4, <1>5, <1>6, <1>7 DEF PhaseTypes
<1>9. RelayTypes'
  BY <1>1, NoneApart, <1>2, <1>3, <1>4, <1>5, <1>6, <1>7 DEF RelayTypes
<1>10. GoneOK'
  BY <1>1, NoneApart, <1>2, <1>3, <1>4, <1>5, <1>6, <1>7 DEF GoneOK
<1>11. RoundsOK'
  BY <1>1, NoneApart, <1>2, <1>3, <1>4, <1>5, <1>6, <1>7 DEF RoundsOK, RoundOK, Round, Claim
<1>12. PhasesOK'
  BY <1>1, NoneApart, <1>2, <1>3, <1>4, <1>5, <1>6, <1>7 DEF PhasesOK
<1>13. WorksOK'
  BY <1>1, NoneApart, <1>2, <1>3, <1>4, <1>5, <1>6, <1>7 DEF WorksOK, WorkOK
<1>14. HandedOK'
  BY <1>1, NoneApart, <1>2, <1>3, <1>4, <1>5, <1>6, <1>7 DEF HandedOK, Local
<1>15. RegistryTypes' /\ WorkTypes' /\ StructuredOK' /\ TerminalsOK' /\ SoleOwner'
      /\ CountedOK'
  BY <1>1, <1>2 DEF RegistryTypes, Claim, WorkTypes, StructuredOK, Line, Active, TerminalsOK, Awaited, Settled, Faithful, SoleOwner, Local, CountedOK, Line, Active
<1>16. ASSUME ~ Unreadable PROVE HandoverOK'
  <2>1. SUFFICES ASSUME NEW h \in Generations, NEW p \in Generations,
                        phase'[h] = "serving", phase'[p] = "draining"
                 PROVE  Guarded(h, p)'
    BY DEF HandoverOK
  <2>2. h = g /\ p # g /\ p # None /\ phase[p] = "draining"
    BY <1>1, NoneApart, <1>2, <1>3, <1>4, <1>5, <1>6, <1>7, <2>1
  <2>3. p \in legacy'[g]
    BY <1>1, NoneApart, <1>2, <1>3, <1>4, <1>5, <1>6, <1>7, <2>2 DEF PhasesOK
  <2> QED
    BY <1>1, NoneApart, <1>2, <1>3, <1>4, <1>5, <1>6, <1>7, <2>2, <2>3 DEF Guarded
<1> QED
  BY <1>8, <1>9, <1>10, <1>11, <1>12, <1>13, <1>14, <1>15, <1>16 DEF IInv, Base, Types

LEMMA BeginDrainKeeps ==
    ASSUME IInv, NEW g \in Generations, BeginDrain(g)
    PROVE  IInv'
<1>1. /\ PhaseTypes /\ RegistryTypes /\ RelayTypes /\ WorkTypes /\ GoneOK
      /\ RoundsOK /\ PhasesOK /\ WorksOK /\ StructuredOK /\ TerminalsOK
      /\ SoleOwner /\ CountedOK /\ HandedOK
  BY DEF IInv, Base, Types
<1>2. UNCHANGED <<structured, pending, terminals, remote, legacy, compatible, misses, work, stored>>
  BY DEF BeginDrain, registry, relay
<1>3. /\ phase[g] = "serving" /\ phase' = [phase EXCEPT ![g] = "draining"]
      /\ listed' = [listed EXCEPT ![g] = "draining"]
      /\ round' = [round EXCEPT ![g] = Resting]
      /\ handed' = [handed EXCEPT ![g] = Local(g)]
  BY <1>1, NoneApart, <1>2 DEF BeginDrain
<1>4. /\ phase' \in [Generations -> {"new", "serving", "draining", "gone"}]
      /\ phase'[g] = "draining" /\ \A h \in Generations : h # g => phase'[h] = phase[h]
  BY <1>1, NoneApart, <1>2, <1>3 DEF PhaseTypes
<1>5. /\ listed' \in [Generations -> {"no", "serving", "draining"}]
      /\ listed'[g] = "draining" /\ \A h \in Generations : h # g => listed'[h] = listed[h]
  BY <1>1, NoneApart, <1>2, <1>3, <1>4 DEF PhaseTypes
<1>6. /\ round' \in [Generations -> Round]
      /\ \A h \in Generations : h # g => round'[h] = round[h]
      /\ ~ round'[g].on /\ round'[g].left = {} /\ round'[g].asked = None
      /\ round'[g].peers = {}
  BY <1>1, NoneApart, <1>2, <1>3, <1>4, <1>5 DEF RoundsOK, Round, Resting
<1>7. /\ handed' \in [Generations -> SUBSET Claim]
      /\ \A h \in Generations : h # g => handed'[h] = handed[h]
      /\ handed'[g] = Local(g)
  BY <1>1, NoneApart, <1>2, <1>3, <1>4, <1>5, <1>6 DEF RegistryTypes, Local
<1>8. \A c \in Local(g) : c.native \in stored \cup {None} /\ work[c.owner].at \notin {"none", "admitted"}
  <2>1. ASSUME NEW c \in structured[g]
        PROVE  c.native \in stored \cup {None} /\ work[c.owner].at \notin {"none", "admitted"}
    BY <1>1, NoneApart DEF StructuredOK, Line, Active, WorksOK, WorkOK
  <2>2. ASSUME NEW c \in pending[g] \cup terminals[g]
        PROVE  c.native \in stored \cup {None} /\ work[c.owner].at \notin {"none", "admitted"}
    BY <1>1 DEF TerminalsOK, Awaited, Settled, Faithful
  <2> QED
    BY <2>1, <2>2 DEF Local
<1>9. PhaseTypes'
  BY <1>1, NoneApart, <1>2, <1>3, <1>4, <1>5, <1>6, <1>7, <1>8 DEF PhaseTypes
<1>10. RegistryTypes'
  BY <1>1, NoneApart, <1>2, <1>3, <1>4, <1>5, <1>6, <1>7, <1>8 DEF RegistryTypes, Claim
<1>11. GoneOK'
  BY <1>1, NoneApart, <1>2, <1>3, <1>4, <1>5, <1>6, <1>7, <1>8 DEF GoneOK
<1>12. RoundsOK'
  BY <1>1, NoneApart, <1>2, <1>3, <1>4, <1>5, <1>6, <1>7, <1>8 DEF RoundsOK, RoundOK, Round, Claim
<1>13. PhasesOK'
  BY <1>1, NoneApart, <1>2, <1>3, <1>4, <1>5, <1>6, <1>7, <1>8 DEF PhasesOK
<1>14. WorksOK'
  BY <1>1, NoneApart, <1>2, <1>3, <1>4, <1>5, <1>6, <1>7, <1>8 DEF WorksOK, WorkOK
<1>15. CountedOK'
  BY <1>1, NoneApart, <1>2, <1>3, <1>4, <1>5, <1>6, <1>7, <1>8 DEF CountedOK
<1>16. HandedOK'
  <2>1. \A h \in Generations : \A c \in handed'[h] :
          /\ c.native \in stored \cup {None}
          /\ work[c.owner].at \notin {"none", "admitted"}
          /\ h = g => c \in Local(h)
          /\ h # g => c \in handed[h]
    BY <1>1, NoneApart, <1>2, <1>3, <1>4, <1>5, <1>6, <1>7, <1>8 DEF HandedOK
  <2>2. \A h \in Generations : Local(h)' = Local(h)
    BY <1>1, NoneApart, <1>2, <1>3, <1>4, <1>5, <1>6, <1>7, <1>8 DEF Local
  <2> QED
    BY <1>1, NoneApart, <1>2, <1>3, <1>4, <1>5, <1>6, <1>7, <1>8, <2>1, <2>2 DEF HandedOK
<1>17. RelayTypes' /\ WorkTypes' /\ StructuredOK' /\ TerminalsOK' /\ SoleOwner'
  BY <1>1, <1>2 DEF RelayTypes, WorkTypes, StructuredOK, Line, Active, TerminalsOK, Awaited, Settled, Faithful, SoleOwner, Local, Line, Active
<1>18. ASSUME ~ Unreadable PROVE HandoverOK'
  <2>1. \A h \in Generations : phase'[h] # "serving"
    BY <1>1, NoneApart, <1>2, <1>3, <1>4, <1>5, <1>6, <1>7, <1>8 DEF PhasesOK
  <2> QED
    BY <2>1 DEF HandoverOK
<1> QED
  BY <1>9, <1>10, <1>11, <1>12, <1>13, <1>14, <1>15, <1>16, <1>17, <1>18 DEF IInv, Base, Types

LEMMA LeaveKeeps ==
    ASSUME IInv, NEW g \in Generations, Leave(g)
    PROVE  IInv'
<1>1. /\ PhaseTypes /\ RegistryTypes /\ RelayTypes /\ WorkTypes /\ GoneOK
      /\ RoundsOK /\ PhasesOK /\ WorksOK /\ StructuredOK /\ TerminalsOK
      /\ SoleOwner /\ CountedOK /\ HandedOK
  BY DEF IInv, Base, Types
<1>2. UNCHANGED <<stored>>
  BY DEF Leave, Forgotten, registry, relay
<1>3. phase[g] = "draining"
  BY <1>1, NoneApart, <1>2 DEF Leave, Forgotten
<1>4. /\ structured' \in [Generations -> SUBSET Claim] /\ structured'[g] = {}
      /\ pending' \in [Generations -> SUBSET Claim] /\ pending'[g] = {}
      /\ terminals' \in [Generations -> SUBSET Claim] /\ terminals'[g] = {}
      /\ handed' \in [Generations -> SUBSET Claim] /\ handed'[g] = {}
      /\ \A h \in Generations : h # g =>
             /\ structured'[h] = structured[h] /\ pending'[h] = pending[h]
             /\ terminals'[h] = terminals[h] /\ handed'[h] = handed[h]
  BY <1>1, NoneApart, <1>2, <1>3 DEF Leave, Forgotten, RegistryTypes, Forgotten
<1>5. /\ phase' \in [Generations -> {"new", "serving", "draining", "gone"}]
      /\ phase'[g] = "gone" /\ \A h \in Generations : h # g => phase'[h] = phase[h]
  BY <1>1, NoneApart, <1>2, <1>3, <1>4 DEF Leave, Forgotten, PhaseTypes, Forgotten
<1>6. /\ remote' \in [Generations -> [Generations -> SUBSET Claim]]
      /\ \A p \in Generations : remote'[g][p] = {}
      /\ \A h \in Generations : h # g => remote'[h] = remote[h]
  BY <1>1, NoneApart, <1>2, <1>3, <1>4, <1>5 DEF Leave, Forgotten, RelayTypes, Forgotten, NoClaims
<1>7. /\ legacy' \in [Generations -> SUBSET Generations] /\ legacy'[g] = {}
      /\ compatible' \in [Generations -> SUBSET Generations] /\ compatible'[g] = {}
      /\ misses' \in [Generations -> [Generations -> 0 .. Patience]]
      /\ \A h \in Generations : h # g =>
             /\ legacy'[h] = legacy[h] /\ compatible'[h] = compatible[h] /\ misses'[h] = misses[h]
  BY <1>1, NoneApart, <1>2, <1>3, <1>4, <1>5, <1>6 DEF Leave, Forgotten, RelayTypes, Forgotten
<1>8. /\ round' \in [Generations -> Round]
      /\ \A h \in Generations : h # g => round'[h] = round[h]
      /\ ~ round'[g].on /\ round'[g].left = {} /\ round'[g].asked = None
      /\ round'[g].peers = {}
  BY <1>1, NoneApart, <1>2, <1>3, <1>4, <1>5, <1>6, <1>7 DEF Leave, Forgotten, RoundsOK, Round, Resting, Forgotten
<1>9. Over \in Work /\ Over.at = "done" /\ Over.gen = None /\ Over.native = None /\ ~ Over.moved /\ ~ Over.commit
  BY <1>1, NoneApart, <1>2, <1>3, <1>4, <1>5, <1>6, <1>7, <1>8 DEF Over, NoWork, Work
<1>10. /\ work' \in [Owners -> Work] /\ stored' = stored
       /\ \A o \in Owners : work[o].gen = g => work'[o] = Over
       /\ \A o \in Owners : work[o].gen # g => work'[o] = work[o]
  BY <1>1, NoneApart, <1>2, <1>3, <1>4, <1>5, <1>6, <1>7, <1>8, <1>9 DEF Leave, Ended, WorkOf, WorkTypes, Forgotten
<1>11. /\ listed' \in [Generations -> {"no", "serving", "draining"}]
       /\ \A h \in Generations : h # g => listed'[h] = listed[h]
  BY <1>1, NoneApart, <1>2, <1>3, <1>4, <1>5, <1>6, <1>7, <1>8, <1>9, <1>10 DEF Leave, Forgotten, PhaseTypes
<1>12. \A o \in Owners :
         \/ /\ work[o].gen = g /\ work'[o].at = "done" /\ work'[o].gen = None /\ work'[o].native = None
            /\ ~ work'[o].moved /\ ~ work'[o].commit
         \/ work[o].gen # g /\ work'[o] = work[o]
  BY <1>9, <1>10
<1>13. PhaseTypes'
  BY <1>1, NoneApart, <1>2, <1>3, <1>4, <1>5, <1>6, <1>7, <1>8, <1>9, <1>10, <1>11, <1>12 DEF PhaseTypes
<1>14. RegistryTypes'
  BY <1>1, NoneApart, <1>2, <1>3, <1>4, <1>5, <1>6, <1>7, <1>8, <1>9, <1>10, <1>11, <1>12 DEF RegistryTypes, Claim
<1>15. RelayTypes'
  BY <1>1, NoneApart, <1>2, <1>3, <1>4, <1>5, <1>6, <1>7, <1>8, <1>9, <1>10, <1>11, <1>12 DEF RelayTypes
<1>16. WorkTypes'
  BY <1>1, NoneApart, <1>2, <1>3, <1>4, <1>5, <1>6, <1>7, <1>8, <1>9, <1>10, <1>11, <1>12 DEF WorkTypes
<1>17. GoneOK'
  BY <1>1, <1>4, <1>5, <1>6 DEF GoneOK
<1>18. RoundsOK'
  BY <1>1, <1>5, <1>8 DEF RoundsOK, RoundOK
<1>19. PhasesOK'
  <2>1. \A h \in Generations : h = g \/ (phase'[h] = phase[h] /\ compatible'[h] = compatible[h])
    BY <1>5, <1>7
  <2>2. phase'[g] = "gone" /\ \A h \in Generations : h = g \/ listed'[h] = listed[h]
    BY <1>2, <1>5, <1>11
  <2> QED
    BY <1>1, <2>1, <2>2 DEF PhasesOK
<1>20. WorksOK'
  <2>1. \A h \in Generations : h = g \/ phase'[h] = phase[h]
    BY <1>5
  <2>2. ASSUME NEW o \in Owners, work[o].gen = g PROVE WorkOK(o)'
    BY <1>12, <2>2, NoneApart DEF WorkOK
  <2>3. ASSUME NEW o \in Owners, work[o].gen # g PROVE WorkOK(o)'
    <3>1. work'[o] = work[o] /\ WorkOK(o) /\ work[o].gen \in Generations \cup {None}
      BY <1>1, <1>12, <2>3 DEF WorksOK, WorkTypes, Work
    <3> QED
      BY <1>10, <2>1, <2>3, <3>1 DEF WorkOK
  <2> QED
    BY <2>2, <2>3 DEF WorksOK
<1>21. StructuredOK'
  <2>1. \A o \in Owners : \/ work'[o].at = "done" /\ work'[o].gen = None /\ work[o].gen = g
                          \/ work'[o] = work[o] /\ work[o].gen # g
    BY <1>12
  <2>2. \A s \in Sessions : s \in Owners
    BY NoneApart
  <2> QED
    BY <1>1, <1>4, <2>1, <2>2, NoneApart DEF StructuredOK, Line, Active
<1>22. TerminalsOK'
  <2>1. \A o \in Owners : \/ work'[o].at = "done" /\ work'[o].gen = None /\ work[o].gen = g
                          \/ work'[o] = work[o] /\ work[o].gen # g
    BY <1>12
  <2>2. \A t \in Terminals : t \in Owners
    BY NoneApart
  <2> QED
    BY <1>1, <1>4, <1>10, <2>1, <2>2, NoneApart DEF TerminalsOK, Awaited, Settled, Faithful
<1>23. SoleOwner'
  <2>1. Local(g)' = {} /\ \A h \in Generations : h # g => Local(h)' = Local(h)
    BY <1>4 DEF Local
  <2> QED
    BY <1>1, <2>1 DEF SoleOwner
<1>24. CountedOK'
  BY <1>1, <1>7, <1>8 DEF CountedOK
<1>25. HandedOK'
  <2>1. ASSUME NEW h \in Generations, NEW c \in handed'[h]
        PROVE  /\ h # g /\ c \in handed[h] /\ Local(h)' = Local(h) /\ c.owner \in Owners
               /\ phase'[h] = phase[h]
    BY <1>1, <1>4, <1>5, <2>1 DEF RegistryTypes, Local, Claim
  <2> QED
    BY <1>1, <1>10, <1>12, <2>1 DEF HandedOK
<1>26. ASSUME ~ Unreadable PROVE HandoverOK'
  <2>1. SUFFICES ASSUME NEW h \in Generations, NEW p \in Generations,
                        phase'[h] = "serving", phase'[p] = "draining"
                 PROVE  Guarded(h, p)'
    BY DEF HandoverOK
  <2>2. h # g /\ p # g /\ phase[h] = "serving" /\ phase[p] = "draining"
    BY <1>3, <1>5, <2>1
  <2>3. Guarded(h, p)
    BY <1>26, <2>2 DEF IInv, HandoverOK
  <2>4. Kept(p)' = Kept(p)
    BY <1>4, <2>2 DEF Kept, Local
  <2> QED
    BY <1>6, <1>7, <1>8, <2>2, <2>3, <2>4 DEF Guarded
<1> QED
  BY <1>13, <1>14, <1>15, <1>16, <1>17, <1>18, <1>19, <1>20, <1>21, <1>22, <1>23, <1>24, <1>25, <1>26 DEF IInv, Base, Types

LEMMA CrashKeeps ==
    ASSUME IInv, NEW g \in Generations, Crash(g)
    PROVE  IInv'
<1>1. /\ PhaseTypes /\ RegistryTypes /\ RelayTypes /\ WorkTypes /\ GoneOK
      /\ RoundsOK /\ PhasesOK /\ WorksOK /\ StructuredOK /\ TerminalsOK
      /\ SoleOwner /\ CountedOK /\ HandedOK
  BY DEF IInv, Base, Types
<1>2. UNCHANGED <<listed, stored>>
  BY DEF Crash, Forgotten, registry, relay
<1>3. phase[g] \in {"serving", "draining"}
  BY <1>1, NoneApart, <1>2 DEF Crash, Forgotten
<1>4. /\ structured' \in [Generations -> SUBSET Claim] /\ structured'[g] = {}
      /\ pending' \in [Generations -> SUBSET Claim] /\ pending'[g] = {}
      /\ terminals' \in [Generations -> SUBSET Claim] /\ terminals'[g] = {}
      /\ handed' \in [Generations -> SUBSET Claim] /\ handed'[g] = {}
      /\ \A h \in Generations : h # g =>
             /\ structured'[h] = structured[h] /\ pending'[h] = pending[h]
             /\ terminals'[h] = terminals[h] /\ handed'[h] = handed[h]
  BY <1>1, NoneApart, <1>2, <1>3 DEF Crash, Forgotten, RegistryTypes, Forgotten
<1>5. /\ phase' \in [Generations -> {"new", "serving", "draining", "gone"}]
      /\ phase'[g] = "gone" /\ \A h \in Generations : h # g => phase'[h] = phase[h]
  BY <1>1, NoneApart, <1>2, <1>3, <1>4 DEF Crash, Forgotten, PhaseTypes, Forgotten
<1>6. /\ remote' \in [Generations -> [Generations -> SUBSET Claim]]
      /\ \A p \in Generations : remote'[g][p] = {}
      /\ \A h \in Generations : h # g => remote'[h] = remote[h]
  BY <1>1, NoneApart, <1>2, <1>3, <1>4, <1>5 DEF Crash, Forgotten, RelayTypes, Forgotten, NoClaims
<1>7. /\ legacy' \in [Generations -> SUBSET Generations] /\ legacy'[g] = {}
      /\ compatible' \in [Generations -> SUBSET Generations] /\ compatible'[g] = {}
      /\ misses' \in [Generations -> [Generations -> 0 .. Patience]]
      /\ \A h \in Generations : h # g =>
             /\ legacy'[h] = legacy[h] /\ compatible'[h] = compatible[h] /\ misses'[h] = misses[h]
  BY <1>1, NoneApart, <1>2, <1>3, <1>4, <1>5, <1>6 DEF Crash, Forgotten, RelayTypes, Forgotten
<1>8. /\ round' \in [Generations -> Round]
      /\ \A h \in Generations : h # g => round'[h] = round[h]
      /\ ~ round'[g].on /\ round'[g].left = {} /\ round'[g].asked = None
      /\ round'[g].peers = {}
  BY <1>1, NoneApart, <1>2, <1>3, <1>4, <1>5, <1>6, <1>7 DEF Crash, Forgotten, RoundsOK, Round, Resting, Forgotten
<1>9. Over \in Work /\ Over.at = "done" /\ Over.gen = None /\ Over.native = None /\ ~ Over.moved /\ ~ Over.commit
  BY <1>1, NoneApart, <1>2, <1>3, <1>4, <1>5, <1>6, <1>7, <1>8 DEF Over, NoWork, Work
<1>10. /\ work' \in [Owners -> Work] /\ stored' = stored
       /\ \A o \in Owners : work[o].gen = g => work'[o] = Over
       /\ \A o \in Owners : work[o].gen # g => work'[o] = work[o]
  BY <1>1, NoneApart, <1>2, <1>3, <1>4, <1>5, <1>6, <1>7, <1>8, <1>9 DEF Crash, Ended, WorkOf, WorkTypes, Forgotten
<1>11. listed \in [Generations -> {"no", "serving", "draining"}]
  BY <1>1, NoneApart, <1>2, <1>3, <1>4, <1>5, <1>6, <1>7, <1>8, <1>9, <1>10 DEF Crash, Forgotten, PhaseTypes
<1>12. \A o \in Owners :
         \/ /\ work[o].gen = g /\ work'[o].at = "done" /\ work'[o].gen = None /\ work'[o].native = None
            /\ ~ work'[o].moved /\ ~ work'[o].commit
         \/ work[o].gen # g /\ work'[o] = work[o]
  BY <1>9, <1>10
<1>13. PhaseTypes'
  BY <1>1, NoneApart, <1>2, <1>3, <1>4, <1>5, <1>6, <1>7, <1>8, <1>9, <1>10, <1>11, <1>12 DEF PhaseTypes
<1>14. RegistryTypes'
  BY <1>1, NoneApart, <1>2, <1>3, <1>4, <1>5, <1>6, <1>7, <1>8, <1>9, <1>10, <1>11, <1>12 DEF RegistryTypes, Claim
<1>15. RelayTypes'
  BY <1>1, NoneApart, <1>2, <1>3, <1>4, <1>5, <1>6, <1>7, <1>8, <1>9, <1>10, <1>11, <1>12 DEF RelayTypes
<1>16. WorkTypes'
  BY <1>1, NoneApart, <1>2, <1>3, <1>4, <1>5, <1>6, <1>7, <1>8, <1>9, <1>10, <1>11, <1>12 DEF WorkTypes
<1>17. GoneOK'
  BY <1>1, <1>4, <1>5, <1>6 DEF GoneOK
<1>18. RoundsOK'
  BY <1>1, <1>5, <1>8 DEF RoundsOK, RoundOK
<1>19. PhasesOK'
  <2>1. \A h \in Generations : h = g \/ (phase'[h] = phase[h] /\ compatible'[h] = compatible[h])
    BY <1>5, <1>7
  <2>2. phase'[g] = "gone" /\ \A h \in Generations : h = g \/ listed'[h] = listed[h]
    BY <1>2, <1>5, <1>11
  <2> QED
    BY <1>1, <2>1, <2>2 DEF PhasesOK
<1>20. WorksOK'
  <2>1. \A h \in Generations : h = g \/ phase'[h] = phase[h]
    BY <1>5
  <2>2. ASSUME NEW o \in Owners, work[o].gen = g PROVE WorkOK(o)'
    BY <1>12, <2>2, NoneApart DEF WorkOK
  <2>3. ASSUME NEW o \in Owners, work[o].gen # g PROVE WorkOK(o)'
    <3>1. work'[o] = work[o] /\ WorkOK(o) /\ work[o].gen \in Generations \cup {None}
      BY <1>1, <1>12, <2>3 DEF WorksOK, WorkTypes, Work
    <3> QED
      BY <1>10, <2>1, <2>3, <3>1 DEF WorkOK
  <2> QED
    BY <2>2, <2>3 DEF WorksOK
<1>21. StructuredOK'
  <2>1. \A o \in Owners : \/ work'[o].at = "done" /\ work'[o].gen = None /\ work[o].gen = g
                          \/ work'[o] = work[o] /\ work[o].gen # g
    BY <1>12
  <2>2. \A s \in Sessions : s \in Owners
    BY NoneApart
  <2> QED
    BY <1>1, <1>4, <2>1, <2>2, NoneApart DEF StructuredOK, Line, Active
<1>22. TerminalsOK'
  <2>1. \A o \in Owners : \/ work'[o].at = "done" /\ work'[o].gen = None /\ work[o].gen = g
                          \/ work'[o] = work[o] /\ work[o].gen # g
    BY <1>12
  <2>2. \A t \in Terminals : t \in Owners
    BY NoneApart
  <2> QED
    BY <1>1, <1>4, <1>10, <2>1, <2>2, NoneApart DEF TerminalsOK, Awaited, Settled, Faithful
<1>23. SoleOwner'
  <2>1. Local(g)' = {} /\ \A h \in Generations : h # g => Local(h)' = Local(h)
    BY <1>4 DEF Local
  <2> QED
    BY <1>1, <2>1 DEF SoleOwner
<1>24. CountedOK'
  BY <1>1, <1>7, <1>8 DEF CountedOK
<1>25. HandedOK'
  <2>1. ASSUME NEW h \in Generations, NEW c \in handed'[h]
        PROVE  /\ h # g /\ c \in handed[h] /\ Local(h)' = Local(h) /\ c.owner \in Owners
               /\ phase'[h] = phase[h]
    BY <1>1, <1>4, <1>5, <2>1 DEF RegistryTypes, Local, Claim
  <2> QED
    BY <1>1, <1>10, <1>12, <2>1 DEF HandedOK
<1>26. ASSUME ~ Unreadable PROVE HandoverOK'
  <2>1. SUFFICES ASSUME NEW h \in Generations, NEW p \in Generations,
                        phase'[h] = "serving", phase'[p] = "draining"
                 PROVE  Guarded(h, p)'
    BY DEF HandoverOK
  <2>2. h # g /\ p # g /\ phase[h] = "serving" /\ phase[p] = "draining"
    BY <1>3, <1>5, <2>1
  <2>3. Guarded(h, p)
    BY <1>26, <2>2 DEF IInv, HandoverOK
  <2>4. Kept(p)' = Kept(p)
    BY <1>4, <2>2 DEF Kept, Local
  <2> QED
    BY <1>6, <1>7, <1>8, <2>2, <2>3, <2>4 DEF Guarded
<1> QED
  BY <1>13, <1>14, <1>15, <1>16, <1>17, <1>18, <1>19, <1>20, <1>21, <1>22, <1>23, <1>24, <1>25, <1>26 DEF IInv, Base, Types

LEMMA InitHolds == Init => IInv
<1> SUFFICES ASSUME Init PROVE IInv
  OBVIOUS
<1>1. /\ \A g \in Generations :
            /\ phase[g] = "new" /\ listed[g] = "no"
            /\ structured[g] = {} /\ pending[g] = {} /\ terminals[g] = {} /\ handed[g] = {}
            /\ legacy[g] = {} /\ compatible[g] = {} /\ round[g] = Resting
            /\ \A p \in Generations : remote[g][p] = {} /\ misses[g][p] = 0
      /\ \A o \in Owners : work[o] = NoWork
      /\ stored = Stored
  BY DEF Init, NoClaims
<1>2. PhaseTypes /\ RegistryTypes /\ RelayTypes /\ GoneOK
  BY NoneApart DEF Init, NoClaims, PhaseTypes, RegistryTypes, RelayTypes, GoneOK
<1>3. WorkTypes
  BY NoneApart DEF Init, WorkTypes, Work, NoWork
<1>4. RoundsOK
  BY <1>1 DEF Init, RoundsOK, RoundOK, Round, Resting
<1>5. PhasesOK /\ CountedOK
  BY <1>1 DEF PhasesOK, CountedOK, Resting
<1>6. WorksOK
  BY <1>1, NoneApart DEF WorksOK, WorkOK, NoWork
<1>7. StructuredOK /\ TerminalsOK
  BY <1>1, NoneApart DEF StructuredOK, TerminalsOK, Awaited, Settled, Active, NoWork
<1>8. SoleOwner /\ HandedOK
  BY <1>1 DEF SoleOwner, Local, HandedOK
<1>9. HandoverOK
  BY <1>1 DEF HandoverOK
<1> QED
  BY <1>2, <1>3, <1>4, <1>5, <1>6, <1>7, <1>8, <1>9 DEF IInv, Base, Types

LEMMA StutterKeeps == IInv /\ UNCHANGED vars => IInv'
<1> SUFFICES ASSUME IInv, UNCHANGED vars PROVE IInv'
  OBVIOUS
<1>1. /\ UNCHANGED <<phase, listed, structured, pending, terminals, work, stored, handed>>
      /\ UNCHANGED <<remote, legacy, compatible, misses, round>>
  BY DEF vars, registry, relay
<1>2. Types' = Types /\ RoundsOK' = RoundsOK /\ PhasesOK' = PhasesOK
  BY <1>1 DEF Types, PhaseTypes, RegistryTypes, RelayTypes, WorkTypes, GoneOK, RoundsOK,
     RoundOK, PhasesOK
<1>3. WorksOK' = WorksOK /\ StructuredOK' = StructuredOK /\ TerminalsOK' = TerminalsOK
  BY <1>1 DEF WorksOK, WorkOK, StructuredOK, Line, Active, TerminalsOK, Awaited, Settled,
     Faithful
<1>4. SoleOwner' = SoleOwner /\ CountedOK' = CountedOK /\ HandedOK' = HandedOK
  BY <1>1 DEF SoleOwner, Local, CountedOK, HandedOK
<1>5. HandoverOK' = HandoverOK
  BY <1>1 DEF HandoverOK, Guarded, Kept, Local
<1> QED
  BY <1>2, <1>3, <1>4, <1>5 DEF IInv, Base

LEMMA StepKeeps == IInv /\ [Next]_vars => IInv'
<1> SUFFICES ASSUME IInv, [Next]_vars PROVE IInv'
  OBVIOUS
<1>1. ASSUME NEW s \in Sessions, SessionStep(s) PROVE IInv'
  BY <1>1, ReserveStructuredKeeps, AttachedKeeps, CancelOpenKeeps, ObserveNativeKeeps,
     CloseKeeps, ReleaseClosingKeeps DEF SessionStep
<1>2. ASSUME NEW t \in Terminals, TerminalStep(t) PROVE IInv'
  BY <1>2, AdmitTerminalKeeps, TerminalReservedKeeps, TerminalNotOpenedKeeps, BornKeeps,
     BirthFailsKeeps, CommitBornKeeps, ExitedKeeps, TerminalEndedKeeps, MintKeeps,
     MoveToKeeps DEF TerminalStep
<1>3. ASSUME NEW g \in Generations, GenerationStep(g) PROVE IInv'
  BY <1>3, StartKeeps, BeginDrainKeeps, LeaveKeeps, CrashKeeps, BindNativesKeeps
     DEF GenerationStep
<1>4. ASSUME NEW g \in Generations, RelayStep(g) PROVE IInv'
  BY <1>4, BeginRoundKeeps, EndRoundKeeps, HandoffKeeps, ProvenKeeps, MissKeeps
     DEF RelayStep
<1> QED
  BY <1>1, <1>2, <1>3, <1>4, StutterKeeps DEF Next

\* The invariant holds in every behaviour: the registries and the work they are of,
\* what a predecessor handed over, and what a successor has heard of it.
THEOREM ClaimsInvariant == Spec => []IInv
<1> QED
  BY InitHolds, StepKeeps, PTL DEF Spec

-----------------------------------------------------------------------------
(* What the invariant says of the registry.                                *)

\* Every variable keeps its type, whatever is claimed, relayed or lost: an answer
\* is applied to the round that asked for it, and a generation that is gone holds
\* nothing (ClaimState and GenerationRelayProgress).
THEOREM ClaimsTypeCorrect == Spec => []TypeOK
<1>1. IInv => TypeOK
  <2> SUFFICES ASSUME IInv PROVE TypeOK
    OBVIOUS
  <2>1. Types /\ RoundsOK
    BY DEF IInv, Base
  <2>2. \A g \in Generations : phase[g] = "gone" => Local(g) = {} /\ Inherited(g) = {}
    BY <2>1 DEF Types, GoneOK, Local, Inherited
  <2>3. \A g \in Generations : /\ round[g].left \subseteq round[g].peers
                               /\ round[g].asked \in round[g].left \cup {None}
    BY <2>1 DEF RoundsOK, RoundOK
  <2> QED
    BY <2>1, <2>2, <2>3 DEF TypeOK, Types, PhaseTypes, RegistryTypes, RelayTypes, WorkTypes
<1> QED
  BY <1>1, ClaimsInvariant, PTL

LEMMA HoldersHaveGenerations ==
    ASSUME WorksOK, WorkTypes, NEW o \in Owners, Holding(o)
    PROVE  /\ work[o].gen \in Generations
           /\ o \in Terminals => \/ Awaited(o, work[o].gen)
                                 \/ Settled(o, work[o].gen)
<1>1. /\ work[o].gen \in Generations \cup {None} /\ work[o].commit \in BOOLEAN
      /\ WorkOK(o)
  BY DEF WorkTypes, Work, WorksOK
<1>2. work[o].at \notin {"none", "done"}
  BY DEF Holding, Active
<1>3. work[o].gen \in Generations
  BY <1>1, <1>2 DEF WorkOK
<1>4. o \in Terminals => work[o].at \in {"pending", "running", "exited"}
  BY NoneApart DEF Holding
<1> QED
  BY <1>1, <1>3, <1>4 DEF Awaited, Settled

LEMMA ClaimsMatch == ASSUME IInv PROVE ClaimsMatchWork
<1>1. WorksOK /\ WorkTypes /\ RegistryTypes /\ StructuredOK /\ TerminalsOK
  BY DEF IInv, Base, Types
<1> SUFFICES ASSUME NEW g \in Generations
             PROVE  /\ {c.owner : c \in Local(g)} = {o \in Owners : work[o].gen = g /\ Holding(o)}
                    /\ \A c, d \in Local(g) : c.owner = d.owner => c = d
                    /\ structured[g] \cap (pending[g] \cup terminals[g]) = {}
                    /\ pending[g] \cap terminals[g] = {}
  BY DEF ClaimsMatchWork
<1>2. /\ \A c \in structured[g] : /\ c.owner \in Sessions /\ work[c.owner].gen = g
                                  /\ Active(work[c.owner]) /\ c = Line(c.owner)
      /\ \A s \in Sessions : work[s].gen = g /\ Active(work[s]) => Line(s) \in structured[g]
  BY <1>1 DEF StructuredOK
<1>3. /\ \A c \in pending[g] : c.owner \in Terminals /\ Awaited(c.owner, g)
      /\ \A c \in terminals[g] : c.owner \in Terminals /\ Settled(c.owner, g)
      /\ \A t \in Terminals : Awaited(t, g) => \E c \in pending[g] : c.owner = t
      /\ \A t \in Terminals : Settled(t, g) => \E c \in terminals[g] : c.owner = t
      /\ \A c, d \in pending[g] \cup terminals[g] : c.owner = d.owner => c = d
  BY <1>1 DEF TerminalsOK
<1>4. ASSUME NEW c \in Local(g)
      PROVE  c.owner \in Owners /\ work[c.owner].gen = g /\ Holding(c.owner)
  <2>1. CASE c \in structured[g]
    BY <1>2, <2>1, NoneApart DEF Holding
  <2>2. CASE c \in pending[g] \cup terminals[g]
    BY <1>3, <2>2, NoneApart DEF Holding, Awaited, Settled
  <2> QED
    BY <2>1, <2>2 DEF Local
<1>5. ASSUME NEW o \in Owners, work[o].gen = g, Holding(o)
      PROVE  \E c \in Local(g) : c.owner = o
  <2>1. CASE o \in Sessions
    <3>1. Active(work[o])
      BY <1>5, <2>1, NoneApart DEF Holding
    <3>2. Line(o) \in structured[g] /\ Line(o).owner = o
      BY <1>2, <1>5, <2>1, <3>1 DEF Line
    <3> QED
      BY <3>2 DEF Local
  <2>2. CASE o \in Terminals
    <3>1. Awaited(o, g) \/ Settled(o, g)
      BY <1>1, <1>5, <2>2, HoldersHaveGenerations
    <3> QED
      BY <1>3, <2>2, <3>1 DEF Local
  <2> QED
    BY <2>1, <2>2, NoneApart
<1>6. \A c, d \in Local(g) : c.owner = d.owner => c = d
  BY <1>2, <1>3, NoneApart DEF Local
<1>7. structured[g] \cap (pending[g] \cup terminals[g]) = {}
  BY <1>2, <1>3, NoneApart
<1>8. pending[g] \cap terminals[g] = {}
  BY <1>3 DEF Awaited, Settled
<1>9. {c.owner : c \in Local(g)} = {o \in Owners : work[o].gen = g /\ Holding(o)}
  BY <1>4, <1>5
<1> QED
  BY <1>6, <1>7, <1>8, <1>9

LEMMA ConversationsHeld == ASSUME IInv PROVE ConversationsAreHeld
<1>1. WorksOK /\ WorkTypes /\ StructuredOK /\ TerminalsOK
  BY DEF IInv, Base, Types
<1> SUFFICES ASSUME NEW o \in Owners, Holding(o), ~ work[o].moved
             PROVE  BlocksMutation(work[o].gen, work[o].native, work[o].folder)
  BY DEF ConversationsAreHeld
<1> DEFINE g == work[o].gen
<1>2. g \in Generations
  BY <1>1, HoldersHaveGenerations
<1>3. CASE o \in Sessions
  <2>1. Line(o) \in structured[g]
    BY <1>1, <1>2, <1>3, NoneApart DEF StructuredOK, Holding
  <2>2. Line(o) \in Local(g) /\ Line(o).native = work[o].native
    BY <2>1 DEF Line, Local
  <2> QED
    BY <2>2 DEF BlocksMutation
<1>4. CASE o \in Terminals
  <2>1. Awaited(o, g) \/ Settled(o, g)
    BY <1>1, <1>4, HoldersHaveGenerations
  <2>2. PICK c \in pending[g] \cup terminals[g] : c.owner = o /\ Faithful(c)
    BY <1>1, <1>2, <1>4, <2>1 DEF TerminalsOK
  <2>3. c \in Local(g) /\ c.folder = work[o].folder /\ c.native \in {None, work[o].native}
    BY <2>2 DEF Local, Faithful
  <2> QED
    BY <2>3 DEF BlocksMutation
<1> QED
  BY <1>3, <1>4, NoneApart

\* The registry is right about who works and where: a claim for every session that
\* is open, opening or closing and every terminal that is starting, running or
\* waiting to be seen off, none for anybody else, and one that blocks the deletion
\* of the conversation its process is in (ClaimState::replace_structured,
\* reserve_terminal, commit, release, blocks_mutation).
THEOREM ClaimsStayTrue == Spec => []ClaimsAreTrue
<1>1. IInv => ClaimsAreTrue
  BY ClaimsMatch, ConversationsHeld DEF ClaimsAreTrue
<1> QED
  BY <1>1, ClaimsInvariant, PTL

\* Two owners never claim one conversation in one generation, whatever is opened,
\* observed or bound in whichever order (ClaimState::conflicts).
THEOREM OneOwner == Spec => []SoleOwner
<1>1. IInv => SoleOwner
  BY DEF IInv, Base
<1> QED
  BY <1>1, ClaimsInvariant, PTL

-----------------------------------------------------------------------------
(* What the invariant says of the relay.                                   *)

LEMMA RecordsKeep ==
    /\ \A w \in Work : \A n : [w EXCEPT !.native = n].at = w.at
    /\ \A w \in Work : \A n : [w EXCEPT !.native = n, !.moved = TRUE].at = w.at
    /\ \A w \in Work : \A a : [w EXCEPT !.at = a].at = a
    /\ \A w \in Work : [w EXCEPT !.commit = FALSE].at = w.at
    /\ \A w \in Work : [w EXCEPT !.at = "running", !.commit = TRUE].at = "running"
    /\ Over.at = "done"
  BY DEF Work, Over, NoWork

\* Only a reservation begins to hold.
LEMMA OnlyReservationsBegin ==
    ASSUME IInv, [Next]_vars, NEW o \in Owners, ~ Holding(o), Holding(o)'
    PROVE  \/ /\ o \in Sessions
              /\ \E g \in Generations, n \in Natives \cup {None}, f \in Folders :
                    ReserveStructured(g, o, n, f)
           \/ o \in Terminals /\ TerminalReserved(o)
<1> SUFFICES ASSUME ~ (\E g \in Generations, n \in Natives \cup {None}, f \in Folders :
                          o \in Sessions /\ ReserveStructured(g, o, n, f)),
                    ~ (o \in Terminals /\ TerminalReserved(o))
             PROVE  FALSE
  OBVIOUS
<1>1. /\ work \in [Owners -> Work] /\ \A s \in Sessions : s \in Owners
      /\ \A t \in Terminals : t \in Owners
  BY NoneApart DEF IInv, Base, Types, WorkTypes
<1>2. work'[o].at # work[o].at
  BY DEF Holding, Active
<1>3. work' # work
  BY <1>2
<1>4. ASSUME NEW s \in Sessions, SessionStep(s) PROVE FALSE
  <2>1. CASE \E g \in Generations, n \in Natives \cup {None}, f \in Folders :
                ReserveStructured(g, s, n, f)
    <3>1. CASE s = o
      BY <1>4, <2>1, <3>1
    <3>2. CASE s # o
      <4>1. PICK g, n, f, w : ReserveStructured(g, s, n, f) /\ work' = [work EXCEPT ![s] = w]
        BY <2>1 DEF ReserveStructured
      <4>2. work'[o] = work[o]
        BY <1>1, <3>2, <4>1
      <4> QED BY <1>2, <4>2
    <3> QED BY <3>1, <3>2
  <2>2. CASE Attached(s)
    BY <1>1, <1>2, <2>2, RecordsKeep, NoneApart DEF Attached, OwnerStep, Holding, Active
  <2>3. CASE CancelOpen(s) \/ ReleaseClosing(s)
    BY <1>1, <1>2, <2>3, RecordsKeep DEF CancelOpen, ReleaseClosing, OwnerStep, Holding, Active
  <2>4. CASE ObserveNative(s)
    BY <1>1, <1>2, <2>4, RecordsKeep DEF ObserveNative, OwnerStep
  <2>5. CASE Close(s)
    BY <1>1, <1>2, <2>5, RecordsKeep, NoneApart DEF Close, OwnerStep, Holding, Active
  <2> QED
    BY <1>4, <2>1, <2>2, <2>3, <2>4, <2>5 DEF SessionStep
<1>5. ASSUME NEW t \in Terminals, TerminalStep(t) PROVE FALSE
  <2>1. CASE \E g \in Generations, n \in Natives \cup {None}, f \in Folders, k \in BOOLEAN :
                AdmitTerminal(g, t, n, f, k)
    <3>1. PICK g \in Generations, n \in Natives \cup {None}, f \in Folders, k \in BOOLEAN :
             AdmitTerminal(g, t, n, f, k)
      BY <2>1
    <3>2. \A w \in Owners : work'[w] = work[w] \/ work'[w].at = "admitted"
      BY <1>1, <3>1 DEF AdmitTerminal, NoWork
    <3> QED
      BY <1>2, <3>2 DEF Holding, Active
  <2>2. CASE TerminalReserved(t)
    BY <1>1, <1>2, <2>2 DEF TerminalReserved
  <2>3. CASE TerminalNotOpened(t) \/ BirthFails(t)
    BY <1>1, <1>2, <2>3, RecordsKeep DEF TerminalNotOpened, BirthFails, Holding, Active
  <2>4. CASE Born(t)
    <3>1. work' = [work EXCEPT ![t] = [work[t] EXCEPT !.at = "running", !.commit = TRUE]]
      BY <1>1, <2>4 DEF Born
    <3> QED
      BY <1>1, <1>2, <2>4, <3>1, RecordsKeep DEF Born, Holding, Active
  <2>5. CASE CommitBorn(t)
    <3> DEFINE x == work[t]
               k == [x EXCEPT !.commit = FALSE]
    <3>1. x \in Work /\ \E w \in {Over, k} : work' = [work EXCEPT ![t] = w]
      BY <1>1, <2>5 DEF CommitBorn
    <3> HIDE DEF x
    <3>2. k.at \in {x.at, "done"} /\ Over.at = "done"
      BY <3>1, RecordsKeep DEF Work
    <3> HIDE DEF k
    <3>3. work'[o].at \in {work[o].at, "done"}
      BY <1>1, <3>1, <3>2 DEF x
    <3> QED
      BY <1>2, <3>3 DEF Holding, Active
  <2>6. CASE Exited(t)
    <3>1. work' = [work EXCEPT ![t] = [work[t] EXCEPT !.at = "exited"]]
      BY <1>1, <2>6 DEF Exited
    <3> QED
      BY <1>1, <1>2, <2>6, <3>1, RecordsKeep DEF Exited, Holding, Active
  <2>7. CASE TerminalEnded(t)
    <3> DEFINE x == work[t]
               k == [x EXCEPT !.at = "done"]
    <3>1. x \in Work /\ \E w \in {Over, k} : work' = [work EXCEPT ![t] = w]
      BY <1>1, <2>7 DEF TerminalEnded
    <3> HIDE DEF x
    <3>2. k.at \in {x.at, "done"} /\ Over.at = "done"
      BY <3>1, RecordsKeep DEF Work
    <3> HIDE DEF k
    <3>3. work'[o].at \in {work[o].at, "done"}
      BY <1>1, <3>1, <3>2 DEF x
    <3> QED
      BY <1>2, <3>3 DEF Holding, Active
  <2>8. CASE Mint(t)
    <3>1. \E n : work' = [work EXCEPT ![t] = [work[t] EXCEPT !.native = n]]
      BY <1>1, <2>8 DEF Mint
    <3> QED
      BY <1>1, <1>2, <3>1, RecordsKeep
  <2>9. CASE \E n \in Natives : MoveTo(t, n)
    <3>1. \E n : work' = [work EXCEPT ![t] = [work[t] EXCEPT !.native = n, !.moved = TRUE]]
      BY <1>1, <2>9 DEF MoveTo
    <3> QED
      BY <1>1, <1>2, <3>1, RecordsKeep
  <2> QED
    BY <1>5, <2>1, <2>2, <2>3, <2>4, <2>5, <2>6, <2>7, <2>8, <2>9 DEF TerminalStep
<1>6. ASSUME NEW g \in Generations, GenerationStep(g) PROVE FALSE
  <2>1. CASE Leave(g) \/ Crash(g)
    <3>1. work'[o] \in {work[o], Over}
      BY <1>1, <2>1 DEF Leave, Crash, Ended
    <3> QED
      BY <1>2, <3>1, RecordsKeep DEF Holding, Active
  <2> QED
    BY <1>3, <1>6, <2>1 DEF GenerationStep, Start, BeginDrain, BindNatives
<1>7. ASSUME NEW g \in Generations, RelayStep(g) PROVE FALSE
  BY <1>3, <1>7 DEF RelayStep, BeginRound, EndRound, Handoff, Proven, Miss
<1> QED
  BY <1>3, <1>4, <1>5, <1>6, <1>7 DEF Next, vars

LEMMA ReservationIsGuarded ==
    ASSUME ~ Unreadable, IInv, NEW g \in Generations, NEW p \in Generations,
           NEW c \in handed[p] \cap Local(p), c.native # None,
           phase[g] = "serving", NEW f \in Folders, NEW k \in BOOLEAN,
           ~ Barred(g, c.native), Free(g, c.native, f, k, {})
    PROVE  p \notin compatible[g] /\ misses[g][p] >= Patience
<1>1. phase[p] = "draining"
  BY DEF IInv, Base, HandedOK
<1>2. Guarded(g, p)
  BY <1>1 DEF IInv, HandoverOK
<1>3. p \notin legacy[g]
  BY DEF Barred
<1>4. c \in Kept(p)
  BY DEF Kept
<1>5. c \notin remote[g][p]
  BY DEF Free, Inherited, Conflicts
<1> QED
  BY <1>2, <1>3, <1>4, <1>5 DEF Guarded

\* A generation that can read the locator opens no conversation that its predecessor
\* held when it began to drain and still holds, until it has spent its patience on
\* it: the barrier, the claims it inherited and the order of the answers leave no
\* gap (generations.rs, reserve_structured, reserve_terminal).
THEOREM HandoverIsSafe == ~ Unreadable => (Spec => HandoverHolds)
<1> SUFFICES ASSUME ~ Unreadable PROVE Spec => HandoverHolds
  OBVIOUS
<1>1. ASSUME IInv, [Next]_vars, NEW g \in Generations, NEW p \in Generations,
             NEW c \in handed[p] \cap Local(p),
             phase[g] = "serving", p # g, c.native # None, Opens(g, c.native)
      PROVE  p \notin compatible[g] /\ misses[g][p] >= Patience
  <2>1. PICK o \in Owners : /\ ~ Holding(o) /\ Holding(o)'
                            /\ work'[o].gen = g /\ work'[o].native = c.native
    BY <1>1 DEF Opens
  <2>2. work \in [Owners -> Work]
    BY <1>1 DEF IInv, Base, Types, WorkTypes
  <2>3. CASE \E h \in Generations, n \in Natives \cup {None}, f \in Folders :
                ReserveStructured(h, o, n, f)
    <3>1. PICK h \in Generations, n \in Natives \cup {None}, f \in Folders :
             ReserveStructured(h, o, n, f)
      BY <2>3
    <3>2. h = g /\ n = c.native
      BY <2>1, <2>2, <3>1 DEF ReserveStructured, NoWork
    <3>3. ~ Barred(g, c.native) /\ Free(g, c.native, f, FALSE, {})
      BY <3>1, <3>2 DEF ReserveStructured
    <3> QED
      BY <1>1, <3>3, ReservationIsGuarded
  <2>4. CASE TerminalReserved(o)
    <3> DEFINE w == work[o]
    <3>1. /\ w \in Work
          /\ work' = [work EXCEPT ![o] = [w EXCEPT !.at = "pending", !.known = FALSE]]
          /\ ~ Barred(w.gen, w.native) /\ Free(w.gen, w.native, w.folder, w.known, {})
          /\ WorkOK(o)
      BY <1>1, <2>2, <2>4 DEF TerminalReserved, IInv, Base, WorksOK
    <3>2. work'[o] = [w EXCEPT !.at = "pending", !.known = FALSE]
      BY <2>2, <3>1
    <3> HIDE DEF w
    <3>3. w.gen = g /\ w.native = c.native /\ w.known \in BOOLEAN
      <4> DEFINE k == [w EXCEPT !.at = "pending", !.known = FALSE]
      <4>1. w \in Work /\ work'[o] = k
        BY <3>1, <3>2
      <4>2. k.gen = w.gen /\ k.native = w.native /\ w.known \in BOOLEAN
        BY <4>1 DEF Work
      <4> QED
        BY <2>1, <4>1, <4>2
    <3>4. w.folder \in Folders
      BY <3>1, <3>3, NoneApart DEF w, WorkOK
    <3> QED
      BY <1>1, <3>1, <3>3, <3>4, ReservationIsGuarded
  <2> QED
    BY <1>1, <2>1, <2>3, <2>4, OnlyReservationsBegin
<1>2. IInv /\ [Next]_vars
      => \A g, p \in Generations : \A c \in handed[p] \cap Local(p) :
            phase[g] = "serving" /\ p # g /\ c.native # None /\ Opens(g, c.native)
                => p \notin compatible[g] /\ misses[g][p] >= Patience
  BY <1>1
<1> QED
  BY <1>2, ClaimsInvariant, PTL DEF Spec, HandoverHolds

LEMMA OnlyItsEndEndsARound ==
    ASSUME IInv, [Next]_vars, NEW g \in Generations,
           round[g].on, ~ round'[g].on, phase'[g] = "serving"
    PROVE  EndRound(g)
<1>1. round \in [Generations -> Round] /\ phase \in [Generations -> {"new", "serving", "draining", "gone"}]
  BY DEF IInv, Base, Types, PhaseTypes, RoundsOK
<1>2. round' # round
  OBVIOUS
<1>3. ASSUME NEW h \in Generations, BeginRound(h) PROVE FALSE
  <2>1. h # g /\ round'[g] = round[g]
    BY <1>1, <1>2, <1>3 DEF BeginRound
  <2> QED
    BY <2>1
<1>4. ASSUME NEW h \in Generations, EndRound(h) PROVE h = g
  BY <1>1, <1>4 DEF EndRound
<1>5. ASSUME NEW h \in Generations, NEW p \in Generations,
             Handoff(h, p) \/ Proven(h, p) \/ Miss(h, p)
      PROVE  FALSE
  <2>1. \/ round' = [round EXCEPT ![h] = [round[h] EXCEPT !.asked = p, !.answer = Snapshot(p, h)]]
        \/ round' = [round EXCEPT ![h] =
                        [round[h] EXCEPT !.left = @ \ {p}, !.asked = None, !.answer = {}]]
    BY <1>1, <1>5 DEF Handoff, Proven, Miss, Done
  <2> DEFINE r == round[g]
             a == [r EXCEPT !.asked = p, !.answer = Snapshot(p, g)]
             b == [r EXCEPT !.left = @ \ {p}, !.asked = None, !.answer = {}]
  <2>2. r \in Round
    BY <1>1
  <2>3. h # g => round'[g] = round[g]
    BY <1>1, <2>1
  <2>4. h = g => round'[g] \in {a, b}
    BY <1>1, <2>1
  <2> HIDE DEF r
  <2>5. a.on = r.on /\ b.on = r.on
    BY <2>2 DEF Round
  <2> HIDE DEF a, b
  <2> QED
    BY <2>3, <2>4, <2>5 DEF r
<1>6. ASSUME NEW h \in Generations, GenerationStep(h) PROVE FALSE
  <2>1. CASE BeginDrain(h)
    BY <1>1, <2>1 DEF BeginDrain
  <2>2. CASE Leave(h) \/ Crash(h)
    BY <1>1, <2>2 DEF Leave, Crash, Forgotten
  <2> QED
    BY <1>2, <1>6, <2>1, <2>2 DEF GenerationStep, Start, BindNatives, relay
<1>7. ASSUME NEW s \in Sessions, SessionStep(s) PROVE FALSE
  BY <1>2, <1>7 DEF SessionStep, ReserveStructured, Attached, CancelOpen, ObserveNative,
     Close, ReleaseClosing, OwnerStep, relay
<1>8. ASSUME NEW t \in Terminals, TerminalStep(t) PROVE FALSE
  BY <1>2, <1>8 DEF TerminalStep, AdmitTerminal, TerminalReserved, TerminalNotOpened, Born,
     BirthFails, CommitBorn, Exited, TerminalEnded, Mint, MoveTo, relay
<1>9. ~ UNCHANGED vars
  BY <1>2 DEF vars, relay
<1> QED
  BY <1>3, <1>4, <1>5, <1>6, <1>7, <1>8, <1>9 DEF Next, RelayStep

\* A barrier that outlives a round is running out: whoever is still waited for has
\* not answered, and has been counted (GenerationRelayProgress, still_blocking).
THEOREM BarriersRunOut == Spec => BarrierRunsOut
<1>1. ASSUME IInv, [Next]_vars, NEW g \in Generations, NEW p \in Generations,
             round[g].on, ~ round'[g].on, phase'[g] = "serving", p \in legacy'[g]
      PROVE  p \notin compatible[g] /\ misses[g][p] \in 1 .. Patience - 1
  <2>1. EndRound(g)
    BY <1>1, OnlyItsEndEndsARound
  <2>2. RelayTypes /\ CountedOK
    BY <1>1 DEF IInv, Base, Types
  <2>3. p \in round[g].peers /\ round[g].left = {} /\ StillBlocking(g, p)
    BY <1>1, <2>1, <2>2 DEF EndRound, RelayTypes
  <2>4. misses[g][p] \in 0 .. Patience
    BY <2>2 DEF RelayTypes
  <2>5. p \notin compatible[g] /\ misses[g][p] < Patience
    BY <2>3 DEF StillBlocking
  <2>6. misses[g][p] >= 1
    BY <1>1, <2>2, <2>3, <2>5 DEF CountedOK
  <2> QED
    BY <2>4, <2>5, <2>6, NoneApart
<1>2. IInv /\ [Next]_vars
      => \A g, p \in Generations :
            round[g].on /\ ~ round'[g].on /\ phase'[g] = "serving" /\ p \in legacy'[g]
                => p \notin compatible[g] /\ misses[g][p] \in 1 .. Patience - 1
  BY <1>1
<1> QED
  BY <1>2, ClaimsInvariant, PTL DEF Spec, BarrierRunsOut

=============================================================================
