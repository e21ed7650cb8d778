------------------------- MODULE RuntimeControlProofs -------------------------
(***************************************************************************)
(* Theorems about RuntimeControl for every number of daemons, mutations,    *)
(* integrations and sessions, and every window, skew and lifetime.          *)
(***************************************************************************)
EXTENDS RuntimeControl, TLAPS

-----------------------------------------------------------------------------
(* The inductive invariant.                                                *)

\* A mutation nobody has taken up has left no trace, and one that a connection
\* carries is in the memory of its daemon.
TraceOK(r) ==
    /\ admitted[r] = None => /\ applied[r] = 0 /\ answered[r] = {} /\ told[r] = {}
                             /\ \A b \in Boots : memory[b][r] = "none"
    /\ \A b \in Boots : memory[b][r] = "none" => flight[b][r] = NoFlight
    /\ \A b \in Boots : flight[b][r] # NoFlight => flight[b][r].session \in Sessions
    /\ \A b \in Boots : At(b, r, "delivered") \/ At(b, r, "opened") => applied[r] > 0
    /\ "done" \in told[r] => applied[r] > 0

\* The row of a mutation taken up in time stays for as long as its identifier is
\* accepted.
RowOK(r) ==
    \/ admitted[r] = None
    \/ ledger[r].boot # None /\ ledger[r].at = admitted[r]
    \/ now > created[r] + Window

\* Such a mutation is taken up once, so carried once and delivered once; what is
\* recorded of it is what its one driver answered.
OnceOK(r) ==
    /\ applied[r] <= 1
    /\ "denied" \in told[r] => /\ "opened" \notin answered[r]
                               /\ applied[r] > 0 => "failed" \in answered[r]
    /\ \A b \in Boots : At(b, r, "taken") => applied[r] = 0
    /\ \A b \in Boots : At(b, r, "taken") \/ At(b, r, "delivered") => answered[r] = {}
    /\ \A b \in Boots : At(b, r, "failed") => answered[r] = {"failed"}
    /\ \A b \in Boots : flight[b][r] # NoFlight => "denied" \notin told[r]
    /\ \A b, c \in Boots :
            flight[b][r] # NoFlight /\ flight[c][r] # NoFlight => b = c

MutationsOK == \A r \in Requests : TraceOK(r) /\ (~Early(r) => RowOK(r) /\ OnceOK(r))

\* A lease is of no process yet to come, and is the process's last grant if it is
\* of the process that runs; what a process was granted last is in force.
Agree(lease, process, last) ==
    /\ lease.stream <= last /\ process.stream <= last
    /\ lease # NoLease /\ process.at = "live" /\ lease.stream = process.stream
            => process.granted = lease
    /\ process.granted # NoLease => process.at = "live" /\ lease = process.granted

LeasesOK == \A b \in Boots, s \in Sessions : Agree(leases[b][s], proc[b][s], streams)

IInv == TypeOK /\ MutationsOK /\ LeasesOK

-----------------------------------------------------------------------------
(* Types, in two halves that no action ties together.                      *)
Row == [boot : Boots \cup {None}, at : Nat, state : {"none", "pending", "done", "denied"}]
Flight == [kind : {"none", "command", "open", "cool"},
           session : Sessions \cup {None},
           at : {"none", "taken", "delivered", "opened", "failed"}]
Grants == [holder : Integrations \cup {None}, token : 0 .. MaxTokens,
           until : Nat, stream : 0 .. MaxStreams]
InForce == [holder : Integrations \cup {None}, token : 0 .. MaxTokens,
            until : 0 .. now + Lifetime, stream : 0 .. MaxStreams]
Process == [at : {"none", "opening", "live", "closing"}, stream : 0 .. MaxStreams,
            away : BOOLEAN, running : BOOLEAN, granted : Grants]

MutationTypes ==
    /\ now \in 0 .. MaxTime
    /\ created \in [Requests -> 0 .. MaxTime]
    /\ phase \in [Boots -> {"new", "serving", "draining", "gone"}]
    /\ ledger \in [Requests -> Row]
    /\ pointers \in SUBSET Sessions
    /\ memory \in [Boots -> [Requests -> {"none", "pending", "done", "denied"}]]
    /\ flight \in [Boots -> [Requests -> Flight]]
    /\ admitted \in [Requests -> 0 .. MaxTime \cup {None}]
    /\ applied \in [Requests -> Nat]
    /\ answered \in [Requests -> SUBSET {"opened", "failed"}]
    /\ told \in [Requests -> SUBSET {"done", "denied"}]

LeaseTypes ==
    /\ now \in 0 .. MaxTime
    /\ who \in [Requests -> Integrations]
    /\ leases \in [Boots -> [Sessions -> InForce]]
    /\ proc \in [Boots -> [Sessions -> Process]]
    /\ tokens \in 0 .. MaxTokens /\ streams \in 0 .. MaxStreams

LEMMA TypesSplit == TypeOK <=> MutationTypes /\ LeaseTypes
  BY DEF TypeOK, MutationTypes, LeaseTypes, Row, Flight, Grants, InForce, Process

\* Records with one field replaced.
LEMMA RowState ==
    ASSUME NEW row \in Row, NEW o \in {"done", "denied"}
    PROVE  \E new \in Row : /\ new = [row EXCEPT !.state = o]
                            /\ new.boot = row.boot /\ new.at = row.at
  <1>1. PICK new : new = [row EXCEPT !.state = o]
    OBVIOUS
  <1>2. new \in Row /\ new.boot = row.boot /\ new.at = row.at
    BY <1>1 DEF Row
  <1> QED BY <1>1, <1>2, Zenon

LEMMA FlightAt ==
    ASSUME NEW f \in Flight, NEW a \in {"taken", "delivered"}
    PROVE  \E new \in Flight : new = [f EXCEPT !.at = a] /\ new.at = a
  <1>1. PICK new : new = [f EXCEPT !.at = a]
    OBVIOUS
  <1>2. new \in Flight /\ new.at = a
    BY <1>1 DEF Flight
  <1> QED BY <1>1, <1>2, Zenon

LEMMA Together ==
    ASSUME MutationTypes', LeaseTypes', MutationsOK', LeasesOK'
    PROVE  IInv'
  <1>1. TypeOK'
    BY DEF TypeOK, MutationTypes, LeaseTypes, Row, Flight, Grants, InForce, Process
  <1> QED BY <1>1 DEF IInv

LEMMA Constants ==
    /\ Window \in Nat /\ Skew \in Nat /\ Lifetime \in Nat
    /\ MaxTime \in Nat /\ MaxTokens \in Nat /\ MaxStreams \in Nat
    /\ None \notin Integrations /\ None \notin Boots /\ None \notin Sessions
    /\ None \notin Nat
  BY ControlAssumption DEF ControlAssumption

-----------------------------------------------------------------------------
(* Mutations.                                                              *)

LEMMA PurgedType ==
    ASSUME MutationTypes
    PROVE  Purged \in [Requests -> Row]
  BY DEF MutationTypes, Purged, NoRow, Row

\* Purging spares the row of a mutation whose identifier is still accepted.
LEMMA PurgeSpares ==
    ASSUME MutationTypes, NEW r \in Requests, RowOK(r), ~Early(r), admitted[r] # None
    PROVE  \/ Purged[r] = ledger[r] /\ ledger[r].boot # None /\ ledger[r].at = admitted[r]
           \/ now > created[r] + Window
  <1>1. /\ created[r] \in Nat /\ now \in Nat /\ admitted[r] \in Nat
        /\ created[r] <= admitted[r] /\ Window \in Nat
    BY Constants DEF MutationTypes, Early
  <1>2. Purged[r] = IF ledger[r].at < now - Window THEN NoRow ELSE ledger[r]
    BY DEF Purged
  <1> QED BY <1>1, <1>2 DEF RowOK

\* So what is taken up is new, or was taken up too early the first time.
LEMMA NewIsFirst ==
    ASSUME MutationTypes, MutationsOK, NEW b \in Boots, NEW r \in Requests, IsNew(b, r)
    PROVE  admitted[r] = None \/ Early(r)
  <1> SUFFICES ASSUME admitted[r] # None, ~Early(r)
               PROVE  FALSE
    OBVIOUS
  <1>1. RowOK(r)
    BY DEF MutationsOK
  <1>2. Purged[r] = NoRow /\ now <= created[r] + Window
    BY DEF IsNew, Acceptable
  <1>3. NoRow.boot = None
    BY DEF NoRow
  <1>4. created[r] \in Nat /\ now \in Nat /\ Window \in Nat
    BY Constants DEF MutationTypes
  <1> QED BY <1>1, <1>2, <1>3, <1>4, PurgeSpares

\* What another mutation's step does to the row of one it is not about.
LEMMA PurgeKeepsRow ==
    ASSUME MutationTypes, NEW r \in Requests, ~Early(r), RowOK(r),
           ledger'[r] = Purged[r], UNCHANGED <<now, ids>>, admitted'[r] = admitted[r]
    PROVE  RowOK(r)'
  <1>1. CASE admitted[r] = None
    BY <1>1 DEF RowOK
  <1>2. CASE admitted[r] # None
    BY <1>2, PurgeSpares DEF RowOK, ids
  <1> QED BY <1>1, <1>2

\* Nothing a mutation is judged by has changed but its row, or the time.
Same(r) ==
    /\ admitted'[r] = admitted[r] /\ applied'[r] = applied[r]
    /\ answered'[r] = answered[r] /\ told'[r] = told[r]
    /\ \A b \in Boots : memory'[b][r] = memory[b][r] /\ flight'[b][r] = flight[b][r]
    /\ created' = created

LEMMA SameKeeps ==
    ASSUME NEW r \in Requests, Same(r), TraceOK(r) /\ (~Early(r) => RowOK(r) /\ OnceOK(r)),
           ~Early(r) /\ RowOK(r) => RowOK(r)'
    PROVE  (TraceOK(r) /\ (~Early(r) => RowOK(r) /\ OnceOK(r)))'
  <1>1. TraceOK(r)'
    BY DEF Same, TraceOK, At
  <1>2. Early(r)' <=> Early(r)
    BY DEF Same, Early
  <1>3. OnceOK(r) => OnceOK(r)'
    BY DEF Same, OnceOK, At
  <1> QED BY <1>1, <1>2, <1>3

LEMMA BeginTypes ==
    ASSUME MutationTypes, NEW b \in Boots, NEW r \in Requests,
           NEW o \in {"pending", "done", "denied"}, Begin(b, r, o),
           UNCHANGED <<now, ids, phase, applied, answered>>,
           flight' \in [Boots -> [Requests -> Flight]], pointers' \in SUBSET Sessions
    PROVE  MutationTypes'
  <1>1. ledger' \in [Requests -> Row]
    <2>1. [boot |-> b, at |-> now, state |-> o] \in Row
      BY DEF Row, MutationTypes
    <2> QED BY <2>1, PurgedType DEF Begin
  <1>2. memory' \in [Boots -> [Requests -> {"none", "pending", "done", "denied"}]]
    BY DEF Begin, MutationTypes
  <1>3. admitted' \in [Requests -> 0 .. MaxTime \cup {None}]
    BY DEF Begin, TakenUp, MutationTypes
  <1>4. told' \in [Requests -> SUBSET {"done", "denied"}]
    BY DEF Begin, MutationTypes
  <1> QED BY <1>1, <1>2, <1>3, <1>4 DEF MutationTypes, ids

LEMMA BeginKeeps ==
    ASSUME MutationTypes, MutationsOK, NEW b \in Boots, NEW r \in Requests,
           NEW o \in {"pending", "done", "denied"}, Begin(b, r, o),
           UNCHANGED <<now, ids, phase, applied, answered>>,
           \/ o # "pending" /\ flight' = flight
           \/ o = "pending" /\ \E p \in Params : Launch(b, r, p)
    PROVE  MutationsOK'
  <1> SUFFICES ASSUME NEW q \in Requests
               PROVE  (TraceOK(q) /\ (~Early(q) => RowOK(q) /\ OnceOK(q)))'
    BY DEF MutationsOK
  <1>0. TraceOK(q) /\ (~Early(q) => RowOK(q) /\ OnceOK(q))
    BY DEF MutationsOK
  <1>1. CASE q # r
    <2>1. Same(q)
      BY <1>1 DEF Same, Begin, TakenUp, Launch, ids, MutationTypes
    <2>2. ledger'[q] = Purged[q]
      BY <1>1, PurgedType DEF Begin
    <2>3. ~Early(q) /\ RowOK(q) => RowOK(q)'
      BY <2>1, <2>2, PurgeKeepsRow DEF Same
    <2> QED BY <1>0, <2>1, <2>3, SameKeeps
  <1>2. CASE q = r
    <2>1. /\ admitted[r] = None \/ Early(r)
          /\ memory[b][r] = "none" /\ flight[b][r] = NoFlight
      BY <1>0, <1>2, NewIsFirst DEF Begin, IsNew, TraceOK
    <2>2. /\ ledger'[r].boot = b /\ ledger'[r].at = now
          /\ memory'[b][r] = o /\ o # "none"
          /\ applied'[r] = applied[r] /\ answered'[r] = answered[r]
          /\ \A c \in Boots \ {b} : memory'[c][r] = memory[c][r] /\ flight'[c][r] = flight[c][r]
      BY PurgedType DEF Begin, MutationTypes, Launch
    <2>3. /\ flight'[b][r].at \in {"none", "taken"}
          /\ flight'[b][r].at = "taken" => o = "pending"
          /\ flight'[b][r] # NoFlight => flight'[b][r].session \in Sessions
      <3>1. NoFlight.at = "none"
        BY DEF NoFlight
      <3>2. CASE flight' = flight
        BY <2>1, <3>1, <3>2
      <3>3. CASE o = "pending" /\ \E p \in Params : Launch(b, r, p)
        BY <3>3 DEF Launch, MutationTypes, Params
      <3> QED BY <3>2, <3>3
    <2>4. /\ admitted'[r] # None
          /\ admitted[r] = None => admitted'[r] = now
          /\ admitted[r] # None => admitted'[r] = admitted[r]
      BY Constants DEF Begin, TakenUp, MutationTypes
    <2>5. /\ told'[r] = IF o = "denied" THEN told[r] \cup {"denied"} ELSE told[r]
      BY DEF Begin, MutationTypes
    <2>6. TraceOK(r)'
      BY <1>0, <1>2, <2>2, <2>3, <2>4, <2>5 DEF TraceOK, At
    <2>7. Early(r) => Early(r)'
      BY <2>4 DEF Early, ids
    <2>8. ASSUME ~Early(r)'
          PROVE  RowOK(r)' /\ OnceOK(r)'
      <3>1. /\ admitted[r] = None /\ applied[r] = 0 /\ answered[r] = {} /\ told[r] = {}
            /\ \A c \in Boots : flight[c][r] = NoFlight
        BY <1>0, <1>2, <2>1, <2>7, <2>8 DEF TraceOK
      <3>2. RowOK(r)'
        BY <2>2, <2>4, <3>1, Constants DEF RowOK
      <3>3. \A c \in Boots : flight'[c][r] # NoFlight => c = b
        BY <2>2, <3>1
      <3>4. NoFlight.at = "none"
        BY DEF NoFlight
      <3>5. /\ \A c \in Boots : flight'[c][r].at \notin {"failed", "delivered"}
            /\ \A c \in Boots : flight'[c][r] # NoFlight => "denied" \notin told'[r]
        <4>1. flight'[b][r] # NoFlight => o = "pending"
          BY <2>1
        <4> QED BY <2>2, <2>3, <2>5, <3>1, <3>4, <4>1
      <3>6. OnceOK(r)'
        BY <2>2, <3>1, <3>3, <3>5 DEF OnceOK, At
      <3> QED BY <3>2, <3>6
    <2> QED BY <1>2, <2>6, <2>8
  <1> QED BY <1>1, <1>2

\* A connection's report, recorded or not.
Concludes(b, r) ==
    /\ Landed(b, r)
    /\ \/ At(b, r, "delivered") /\ Finish(b, r, "done")
       \/ At(b, r, "opened") /\ Finish(b, r, "done")
       \/ Refused(b, r) /\ Finish(b, r, "denied")
       \/ NotFinished
    /\ UNCHANGED <<now, ids, phase, admitted, applied, answered>>

LEMMA ConcludesTypes ==
    ASSUME MutationTypes, NEW b \in Boots, NEW r \in Requests, Concludes(b, r),
           pointers' \in SUBSET Sessions
    PROVE  MutationTypes'
  <1>1. NoFlight \in Flight
    BY DEF NoFlight, Flight
  <1>2. flight' \in [Boots -> [Requests -> Flight]]
    BY <1>1 DEF Concludes, Landed, MutationTypes
  <1>3. /\ ledger' \in [Requests -> Row]
        /\ memory' \in [Boots -> [Requests -> {"none", "pending", "done", "denied"}]]
        /\ told' \in [Requests -> SUBSET {"done", "denied"}]
    <2>1. CASE NotFinished
      BY <2>1 DEF NotFinished, MutationTypes
    <2>2. ASSUME NEW o \in {"done", "denied"}, Finish(b, r, o)
          PROVE  /\ ledger' \in [Requests -> Row]
                 /\ memory' \in [Boots -> [Requests -> {"none", "pending", "done", "denied"}]]
                 /\ told' \in [Requests -> SUBSET {"done", "denied"}]
      <3>1. CASE MayFinish(b, r)
        <4>1. /\ ledger' = [ledger EXCEPT ![r].state = o]
              /\ memory' = [memory EXCEPT ![b][r] = o]
              /\ told' = [told EXCEPT ![r] = @ \cup {o}]
          BY <2>2, <3>1 DEF Finish
        <4>2. PICK row \in Row : row = [ledger[r] EXCEPT !.state = o]
          <5>1. PICK old \in Row : old = ledger[r]
            BY DEF MutationTypes
          <5>2. PICK new : new = [old EXCEPT !.state = o]
            OBVIOUS
          <5>3. new \in Row
            BY <5>1, <5>2 DEF Row
          <5> QED BY <5>1, <5>2, <5>3
        <4>3. ledger' = [ledger EXCEPT ![r] = row]
          BY <4>1, <4>2, Zenon
        <4>4. ledger' \in [Requests -> Row]
          BY <4>2, <4>3 DEF MutationTypes
        <4>5. memory' \in [Boots -> [Requests -> {"none", "pending", "done", "denied"}]]
          <5>1. memory' = [memory EXCEPT ![b][r] = o]
            BY <4>1
          <5> QED BY <5>1 DEF MutationTypes
        <4>6. told' \in [Requests -> SUBSET {"done", "denied"}]
          <5>1. told' = [told EXCEPT ![r] = @ \cup {o}]
            BY <4>1
          <5> QED BY <5>1 DEF MutationTypes
        <4> QED BY <4>4, <4>5, <4>6
      <3>2. CASE ~MayFinish(b, r)
        BY <2>2, <2>1, <3>2 DEF Finish
      <3> QED BY <3>1, <3>2
    <2> QED BY <2>1, <2>2 DEF Concludes
  <1> QED BY <1>2, <1>3 DEF MutationTypes, Concludes, ids

LEMMA ConcludesKeeps ==
    ASSUME MutationTypes, MutationsOK, NEW b \in Boots, NEW r \in Requests, Concludes(b, r)
    PROVE  MutationsOK'
  <1> SUFFICES ASSUME NEW q \in Requests
               PROVE  (TraceOK(q) /\ (~Early(q) => RowOK(q) /\ OnceOK(q)))'
    BY DEF MutationsOK
  <1>0. TraceOK(q) /\ (~Early(q) => RowOK(q) /\ OnceOK(q))
    BY DEF MutationsOK
  <1>1. /\ ledger'[q].boot = ledger[q].boot /\ ledger'[q].at = ledger[q].at
        /\ now' = now /\ created' = created /\ admitted' = admitted /\ applied' = applied
        /\ answered' = answered
    <2>1. /\ now' = now /\ created' = created /\ admitted' = admitted
          /\ applied' = applied /\ answered' = answered
      BY DEF Concludes, ids
    <2>2. CASE ledger' = ledger
      BY <2>1, <2>2
    <2>3. ASSUME NEW o \in {"done", "denied"}, ledger' = [ledger EXCEPT ![r].state = o]
          PROVE  ledger'[q].boot = ledger[q].boot /\ ledger'[q].at = ledger[q].at
      <3>1. PICK row \in Row : /\ row = [ledger[r] EXCEPT !.state = o]
                               /\ row.boot = ledger[r].boot /\ row.at = ledger[r].at
        BY RowState DEF MutationTypes
      <3>2. ledger' = [ledger EXCEPT ![r] = row]
        BY <2>3, <3>1, Zenon
      <3> QED BY <3>1, <3>2 DEF MutationTypes
    <2>4. \/ ledger' = ledger
          \/ ledger' = [ledger EXCEPT ![r].state = "done"]
          \/ ledger' = [ledger EXCEPT ![r].state = "denied"]
      BY Zenon DEF Concludes, Finish, NotFinished
    <2> QED BY <2>1, <2>2, <2>3, <2>4
  <1>2. RowOK(q) => RowOK(q)'
    BY <1>1 DEF RowOK
  <1>3. CASE q # r
    <2>1. Same(q)
      BY <1>1, <1>3 DEF Same, Concludes, Landed, Finish, NotFinished, MutationTypes
    <2> QED BY <1>0, <1>2, <2>1, SameKeeps
  <1>4. CASE q = r
    <2>1. /\ flight'[b][r] = NoFlight
          /\ \A c \in Boots \ {b} : flight'[c][r] = flight[c][r]
          /\ \A c \in Boots \ {b} : memory'[c][r] = memory[c][r]
      BY DEF Concludes, Landed, Finish, NotFinished, MutationTypes
    <2>2. NoFlight.at = "none"
      BY DEF NoFlight
    <2>3. \/ memory'[b][r] = memory[b][r] /\ told'[r] = told[r]
          \/ /\ At(b, r, "delivered") \/ At(b, r, "opened")
             /\ memory'[b][r] = "done" /\ told'[r] = told[r] \cup {"done"}
          \/ /\ Refused(b, r) /\ memory'[b][r] = "denied"
             /\ told'[r] = told[r] \cup {"denied"}
      BY DEF Concludes, Finish, NotFinished, MutationTypes
    <2>4. At(b, r, "delivered") \/ At(b, r, "opened") \/ Refused(b, r)
            => flight[b][r] # NoFlight
      BY <2>2 DEF At, Refused
    <2>5. TraceOK(r)'
      BY <1>0, <1>1, <1>4, <2>1, <2>2, <2>3, <2>4 DEF TraceOK, At
    <2>6. Early(r)' <=> Early(r)
      BY <1>1 DEF Early
    <2>7. OnceOK(r) => OnceOK(r)'
      <3>1. SUFFICES ASSUME OnceOK(r)
                     PROVE  OnceOK(r)'
        OBVIOUS
      <3>2. "denied" \in told'[r] => "denied" \in told[r] \/ Refused(b, r)
        BY <2>3
      <3>3. \A c \in Boots : flight'[c][r] # NoFlight =>
                c # b /\ flight[c][r] = flight'[c][r]
        BY <2>1
      <3>4. \A c \in Boots : flight'[c][r].at # "none" =>
                flight'[c][r] # NoFlight /\ flight[c][r].at = flight'[c][r].at
        BY <2>2, <3>3
      <3>5. Refused(b, r) => /\ "opened" \notin answered[r]
                             /\ applied[r] > 0 => "failed" \in answered[r]
        BY <3>1 DEF OnceOK, Refused, At
      <3>6. /\ "denied" \in told'[r] => /\ "opened" \notin answered'[r]
                                        /\ applied'[r] > 0 => "failed" \in answered'[r]
            /\ applied'[r] <= 1
        BY <1>1, <3>1, <3>2, <3>5 DEF OnceOK
      <3>7. /\ \A c \in Boots : flight'[c][r] # NoFlight => "denied" \notin told'[r]
            /\ \A c, d \in Boots :
                  flight'[c][r] # NoFlight /\ flight'[d][r] # NoFlight => c = d
        BY <2>4, <3>1, <3>2, <3>3 DEF OnceOK
      <3> QED BY <1>1, <3>1, <3>4, <3>6, <3>7 DEF OnceOK, At
    <2> QED BY <1>0, <1>2, <1>4, <2>5, <2>6, <2>7
  <1> QED BY <1>3, <1>4

LEMMA DeliverKeeps ==
    ASSUME MutationTypes, MutationsOK, NEW b \in Boots, NEW r \in Requests, Deliver(b, r)
    PROVE  MutationTypes' /\ MutationsOK'
  <1>1. MutationTypes'
    <2>0. flight[b][r] \in Flight
      BY DEF MutationTypes
    <2>1. PICK f \in Flight : f = [flight[b][r] EXCEPT !.at = "delivered"]
      BY <2>0, FlightAt, Zenon
    <2>2. flight' = [flight EXCEPT ![b][r] = f]
      BY <2>1, Zenon DEF Deliver
    <2>3. flight' \in [Boots -> [Requests -> Flight]]
      BY <2>1, <2>2 DEF MutationTypes
    <2> QED BY <2>3 DEF MutationTypes, Deliver, ids, store
  <1>2. ASSUME NEW q \in Requests
        PROVE  (TraceOK(q) /\ (~Early(q) => RowOK(q) /\ OnceOK(q)))'
    <2>0. TraceOK(q) /\ (~Early(q) => RowOK(q) /\ OnceOK(q))
      BY DEF MutationsOK
    <2>1. RowOK(q) => RowOK(q)'
      BY DEF RowOK, Deliver, ids, store
    <2>2. CASE q # r
      <3>1. Same(q)
        BY <2>2 DEF Same, Deliver, MutationTypes, ids
      <3> QED BY <2>0, <2>1, <3>1, SameKeeps
    <2>3. CASE q = r
      <3>1. /\ flight[b][r].at = "taken" /\ flight'[b][r].at = "delivered"
            /\ flight'[b][r].session = flight[b][r].session
            /\ \A c \in Boots \ {b} : flight'[c][r] = flight[c][r]
            /\ applied'[r] = applied[r] + 1 /\ applied[r] \in Nat
            /\ told' = told /\ memory' = memory /\ admitted' = admitted
            /\ answered' = answered /\ created' = created
        BY DEF Deliver, At, MutationTypes, Flight, ids
      <3>2. flight[b][r] # NoFlight
        BY <3>1 DEF NoFlight
      <3>3. TraceOK(r)'
        BY <2>0, <2>3, <3>1, <3>2 DEF TraceOK, At
      <3>4. Early(r)' <=> Early(r)
        BY <3>1 DEF Early
      <3>5. OnceOK(r) => OnceOK(r)'
        <4>1. SUFFICES ASSUME OnceOK(r)
                       PROVE  OnceOK(r)'
          OBVIOUS
        <4>2. applied[r] = 0 /\ answered[r] = {} /\ "denied" \notin told[r]
          BY <3>1, <3>2, <4>1 DEF OnceOK, At
        <4>3. \A c \in Boots : flight[c][r] # NoFlight => c = b
          BY <3>2, <4>1 DEF OnceOK
        <4>4. \A c \in Boots : flight'[c][r] # NoFlight => c = b
          BY <3>1, <4>3
        <4>5. \A c \in Boots : flight'[c][r].at \notin {"taken", "failed"}
          <5>1. NoFlight.at = "none"
            BY DEF NoFlight
          <5> QED BY <3>1, <4>4, <5>1
        <4> QED BY <3>1, <4>2, <4>4, <4>5 DEF OnceOK, At
      <3> QED BY <2>0, <2>1, <2>3, <3>3, <3>4, <3>5
    <2> QED BY <2>2, <2>3
  <1> QED BY <1>1, <1>2 DEF MutationsOK

LEMMA DriverAnswersKeeps ==
    ASSUME MutationTypes, MutationsOK, NEW b \in Boots, NEW r \in Requests,
           DriverAnswers(b, r)
    PROVE  MutationTypes' /\ MutationsOK'
  <1>0. PICK a \in {"opened", "failed"} :
           /\ flight' = [flight EXCEPT ![b][r].at = a]
           /\ answered' = [answered EXCEPT ![r] = @ \cup {a}]
    BY DEF DriverAnswers
  <1>1. MutationTypes'
    <2>0. flight[b][r] \in Flight
      BY DEF MutationTypes
    <2>a. PICK f : f = [flight[b][r] EXCEPT !.at = a]
      OBVIOUS
    <2>1. f \in Flight
      BY <2>0, <2>a DEF Flight
    <2>2. flight' = [flight EXCEPT ![b][r] = f]
      BY <1>0, <2>a, Zenon
    <2>3. flight' \in [Boots -> [Requests -> Flight]]
      BY <2>1, <2>2 DEF MutationTypes
    <2>4. answered' \in [Requests -> SUBSET {"opened", "failed"}]
      BY <1>0 DEF MutationTypes
    <2> QED BY <2>3, <2>4 DEF MutationTypes, DriverAnswers, ids, store
  <1>2. ASSUME NEW q \in Requests
        PROVE  (TraceOK(q) /\ (~Early(q) => RowOK(q) /\ OnceOK(q)))'
    <2>0. TraceOK(q) /\ (~Early(q) => RowOK(q) /\ OnceOK(q))
      BY DEF MutationsOK
    <2>1. RowOK(q) => RowOK(q)'
      BY DEF RowOK, DriverAnswers, ids, store
    <2>2. CASE q # r
      <3>1. Same(q)
        BY <1>0, <2>2 DEF Same, DriverAnswers, MutationTypes, ids
      <3> QED BY <2>0, <2>1, <3>1, SameKeeps
    <2>3. CASE q = r
      <3>1. /\ flight[b][r].at = "delivered" /\ flight'[b][r].at = a
            /\ flight'[b][r].session = flight[b][r].session
            /\ \A c \in Boots \ {b} : flight'[c][r] = flight[c][r]
            /\ answered'[r] = answered[r] \cup {a}
            /\ applied' = applied /\ told' = told /\ memory' = memory
            /\ admitted' = admitted /\ created' = created
        BY <1>0 DEF DriverAnswers, At, MutationTypes, Flight, ids
      <3>2. flight[b][r] # NoFlight
        BY <3>1 DEF NoFlight
      <3>3. TraceOK(r)'
        <4>1. admitted[r] # None /\ memory[b][r] # "none" /\ applied[r] > 0
          BY <2>0, <2>3, <3>1, <3>2 DEF TraceOK, At
        <4> QED BY <2>0, <2>3, <3>1, <3>2, <4>1 DEF TraceOK, At
      <3>4. Early(r)' <=> Early(r)
        BY <3>1 DEF Early
      <3>5. OnceOK(r) => OnceOK(r)'
        <4>1. SUFFICES ASSUME OnceOK(r)
                       PROVE  OnceOK(r)'
          OBVIOUS
        <4>2. answered[r] = {} /\ "denied" \notin told[r]
          BY <3>1, <3>2, <4>1 DEF OnceOK, At
        <4>3. \A c \in Boots : flight'[c][r] # NoFlight => c = b
          BY <3>1, <3>2, <4>1 DEF OnceOK
        <4>4. \A c \in Boots : flight'[c][r].at # "none" => c = b
          <5>1. NoFlight.at = "none"
            BY DEF NoFlight
          <5> QED BY <4>3, <5>1
        <4>5. a = "failed" => answered'[r] = {"failed"}
          BY <3>1, <4>2
        <4> QED BY <3>1, <4>1, <4>2, <4>3, <4>4, <4>5 DEF OnceOK, At
      <3> QED BY <2>0, <2>1, <2>3, <3>3, <3>4, <3>5
    <2> QED BY <2>2, <2>3
  <1> QED BY <1>1, <1>2 DEF MutationsOK

\* A daemon forgets everything; what it was recording when it died stays.
Forgets(b) ==
    /\ Over(b)
    /\ applied' = applied /\ answered' = answered /\ told' = told
    /\ \/ ledger' = ledger /\ admitted' = admitted
       \/ \E r \in Requests :
            /\ IsNew(b, r) /\ TakenUp(r)
            /\ ledger' = [Purged EXCEPT ![r] =
                            [boot |-> b, at |-> now, state |-> "pending"]]

LEMMA ForgetsTypes ==
    ASSUME MutationTypes, NEW b \in Boots, Forgets(b), pointers' \in SUBSET Sessions
    PROVE  MutationTypes'
  <1>1. NoFlight \in Flight
    BY DEF NoFlight, Flight
  <1>2. /\ flight' \in [Boots -> [Requests -> Flight]]
        /\ memory' \in [Boots -> [Requests -> {"none", "pending", "done", "denied"}]]
        /\ phase' \in [Boots -> {"new", "serving", "draining", "gone"}]
    BY <1>1 DEF Forgets, Over, MutationTypes
  <1>3. /\ ledger' \in [Requests -> Row]
        /\ admitted' \in [Requests -> 0 .. MaxTime \cup {None}]
    <2>1. [boot |-> b, at |-> now, state |-> "pending"] \in Row
      BY DEF Row, MutationTypes
    <2>2. CASE ledger' = ledger /\ admitted' = admitted
      BY <2>2 DEF MutationTypes
    <2>3. ASSUME NEW r \in Requests, TakenUp(r),
                 ledger' = [Purged EXCEPT ![r] =
                               [boot |-> b, at |-> now, state |-> "pending"]]
          PROVE  /\ ledger' \in [Requests -> Row]
                 /\ admitted' \in [Requests -> 0 .. MaxTime \cup {None}]
      <3>1. ledger' \in [Requests -> Row]
        BY <2>1, <2>3, PurgedType
      <3>2. admitted' \in [Requests -> 0 .. MaxTime \cup {None}]
        BY <2>3 DEF TakenUp, MutationTypes
      <3> QED BY <3>1, <3>2
    <2> QED BY <2>2, <2>3 DEF Forgets
  <1> QED BY <1>2, <1>3 DEF MutationTypes, Forgets, Over, ids

LEMMA ForgetsKeeps ==
    ASSUME MutationTypes, MutationsOK, NEW b \in Boots, Forgets(b)
    PROVE  MutationsOK'
  <1> SUFFICES ASSUME NEW q \in Requests
               PROVE  (TraceOK(q) /\ (~Early(q) => RowOK(q) /\ OnceOK(q)))'
    BY DEF MutationsOK
  <1>0. TraceOK(q) /\ (~Early(q) => RowOK(q) /\ OnceOK(q))
    BY DEF MutationsOK
  <1>1. /\ now' = now /\ created' = created /\ applied' = applied
        /\ answered' = answered /\ told' = told
        /\ memory'[b][q] = "none" /\ flight'[b][q] = NoFlight
        /\ \A c \in Boots \ {b} : memory'[c][q] = memory[c][q] /\ flight'[c][q] = flight[c][q]
    BY DEF Forgets, Over, MutationTypes, ids
  <1>2. NoFlight.at = "none"
    BY DEF NoFlight
  <1>3. OnceOK(q) => OnceOK(q)'
    <2>1. \A c \in Boots : flight'[c][q] # NoFlight => flight'[c][q] = flight[c][q]
      BY <1>1
    <2>2. \A c \in Boots : flight'[c][q].at # "none" => flight[c][q].at = flight'[c][q].at
      BY <1>1, <1>2
    <2> QED BY <1>1, <2>1, <2>2 DEF OnceOK, At
  <1>4. admitted'[q] = admitted[q] => TraceOK(q)'
    BY <1>0, <1>1, <1>2 DEF TraceOK, At
  <1>5. admitted'[q] = admitted[q] => (Early(q)' <=> Early(q))
    BY <1>1 DEF Early
  <1>6. CASE ledger' = ledger /\ admitted' = admitted
    <2>1. RowOK(q) => RowOK(q)'
      BY <1>1, <1>6 DEF RowOK
    <2> QED BY <1>0, <1>3, <1>4, <1>5, <1>6, <2>1
  <1>7. ASSUME NEW r \in Requests, IsNew(b, r), TakenUp(r),
               ledger' = [Purged EXCEPT ![r] = [boot |-> b, at |-> now, state |-> "pending"]]
        PROVE  (TraceOK(q) /\ (~Early(q) => RowOK(q) /\ OnceOK(q)))'
    <2>1. CASE q # r
      <3>1. admitted'[q] = admitted[q] /\ ledger'[q] = Purged[q]
        BY <1>7, <2>1, PurgedType DEF TakenUp, MutationTypes
      <3>2. ~Early(q) /\ RowOK(q) => RowOK(q)'
        BY <3>1, PurgeKeepsRow DEF Forgets, Over
      <3> QED BY <1>0, <1>3, <1>4, <1>5, <3>1, <3>2
    <2>2. CASE q = r
      <3>1. admitted[r] = None \/ Early(r)
        BY <1>7, NewIsFirst
      <3>2. /\ admitted'[r] = IF admitted[r] = None THEN now ELSE admitted[r]
            /\ ledger'[r].boot = b /\ ledger'[r].at = now
        BY <1>7, PurgedType DEF TakenUp, MutationTypes
      <3>3. admitted'[r] # None
        BY <3>2, Constants DEF MutationTypes
      <3>4. TraceOK(r)'
        BY <1>0, <1>1, <1>2, <2>2, <3>3 DEF TraceOK, At
      <3>5. Early(r) => Early(r)'
        BY <1>1, <3>2 DEF Early
      <3>6. ~Early(r)' => RowOK(r)'
        BY <3>1, <3>2, <3>5, Constants DEF RowOK
      <3>7. ~Early(r)' => OnceOK(r)'
        BY <1>0, <1>3, <2>2, <3>5
      <3> QED BY <2>2, <3>4, <3>6, <3>7
    <2> QED BY <2>1, <2>2
  <1> QED BY <1>6, <1>7 DEF Forgets

LEMMA PurgeKeeps ==
    ASSUME MutationTypes, MutationsOK, NEW b \in Boots, NEW r \in Requests, PurgeAlone(b, r)
    PROVE  MutationTypes' /\ MutationsOK'
  <1>1. MutationTypes'
    BY PurgedType DEF MutationTypes, PurgeAlone, ids, history
  <1>2. ASSUME NEW q \in Requests
        PROVE  (TraceOK(q) /\ (~Early(q) => RowOK(q) /\ OnceOK(q)))'
    <2>1. Same(q)
      BY DEF Same, PurgeAlone, ids, history
    <2>2. ~Early(q) /\ RowOK(q) => RowOK(q)'
      BY PurgeKeepsRow DEF PurgeAlone, ids, history
    <2> QED BY <2>1, <2>2, SameKeeps DEF MutationsOK
  <1> QED BY <1>1, <1>2 DEF MutationsOK

\* Nothing but the time, a daemon's phase or a stored pointer changes.
LEMMA TimeKeeps ==
    ASSUME MutationTypes, MutationsOK, now' \in now .. MaxTime,
           UNCHANGED <<ids, ledger, memory, flight, history>>,
           phase' \in [Boots -> {"new", "serving", "draining", "gone"}],
           pointers' \in SUBSET Sessions
    PROVE  MutationTypes' /\ MutationsOK'
  <1>1. MutationTypes'
    BY Constants DEF MutationTypes, ids, history
  <1>2. ASSUME NEW q \in Requests
        PROVE  (TraceOK(q) /\ (~Early(q) => RowOK(q) /\ OnceOK(q)))'
    <2>1. Same(q)
      BY DEF Same, ids, history
    <2>2. RowOK(q) => RowOK(q)'
      BY Constants DEF RowOK, MutationTypes, ids, history
    <2> QED BY <2>1, <2>2, SameKeeps DEF MutationsOK
  <1> QED BY <1>1, <1>2 DEF MutationsOK

-----------------------------------------------------------------------------
(* Leases.                                                                 *)

LEMMA Nothings ==
    ASSUME now \in Nat
    PROVE  /\ NoLease \in InForce /\ NoLease \in Grants /\ NoProcess \in Process
           /\ NoProcess.granted = NoLease /\ NoProcess.at = "none"
           /\ NoProcess.stream = 0 /\ NoLease.stream = 0
  <1>1. ASSUME NEW n \in Nat
        PROVE  0 \in 0 .. n
    OBVIOUS
  <1>2. NoLease \in Grants
    BY <1>1, Constants DEF NoLease, Grants
  <1>3. NoLease.stream = 0
    BY DEF NoLease
  <1>4. NoLease \in InForce
    <2>1. now + Lifetime \in Nat
      BY Constants
    <2> QED BY <1>1, <2>1, Constants DEF NoLease, InForce
  <1>5. NoProcess \in Process
    BY <1>2, Constants DEF NoProcess, Process
  <1>6. NoProcess.granted = NoLease /\ NoProcess.at = "none" /\ NoProcess.stream = 0
    BY DEF NoProcess
  <1> QED BY <1>2, <1>3, <1>4, <1>5, <1>6

\* A process with one field replaced.
LEMMA ProcessAway ==
    ASSUME NEW v \in Process, NEW x \in BOOLEAN
    PROVE  \E u \in Process : /\ u = [v EXCEPT !.away = x]
                              /\ u.at = v.at /\ u.stream = v.stream /\ u.granted = v.granted
  <1>1. PICK u : u = [v EXCEPT !.away = x]
    OBVIOUS
  <1>2. u \in Process /\ u.at = v.at /\ u.stream = v.stream /\ u.granted = v.granted
    BY <1>1 DEF Process
  <1> QED BY <1>1, <1>2, Zenon

LEMMA ProcessRunning ==
    ASSUME NEW v \in Process
    PROVE  \E u \in Process : /\ u = [v EXCEPT !.running = ~@]
                              /\ u.at = v.at /\ u.stream = v.stream /\ u.granted = v.granted
  <1>1. PICK u : u = [v EXCEPT !.running = ~@]
    OBVIOUS
  <1>2. u \in Process /\ u.at = v.at /\ u.stream = v.stream /\ u.granted = v.granted
    BY <1>1 DEF Process
  <1> QED BY <1>1, <1>2, Zenon

LEMMA ProcessGranted ==
    ASSUME NEW v \in Process, NEW l \in Grants
    PROVE  \E u \in Process : /\ u = [v EXCEPT !.granted = l]
                              /\ u.at = v.at /\ u.stream = v.stream /\ u.granted = l
  <1>1. PICK u : u = [v EXCEPT !.granted = l]
    OBVIOUS
  <1>2. u \in Process /\ u.at = v.at /\ u.stream = v.stream /\ u.granted = l
    BY <1>1 DEF Process
  <1> QED BY <1>1, <1>2, Zenon

\* A step about one session of one daemon.
OneSession(b, s, l, v) ==
    /\ UNCHANGED <<now, who>>
    /\ (leases' = leases /\ l = leases[b][s]) \/ leases' = [leases EXCEPT ![b][s] = l]
    /\ (proc' = proc /\ v = proc[b][s]) \/ proc' = [proc EXCEPT ![b][s] = v]
    /\ tokens' \in 0 .. MaxTokens
    /\ streams' \in 0 .. MaxStreams /\ streams <= streams'
    /\ Agree(l, v, streams')

LEMMA OneSessionKeeps ==
    ASSUME LeaseTypes, LeasesOK, NEW b \in Boots, NEW s \in Sessions,
           NEW l \in InForce, NEW v \in Process, OneSession(b, s, l, v)
    PROVE  LeaseTypes' /\ LeasesOK'
  <1>0. InForce' = InForce
    BY DEF OneSession, InForce
  <1> HIDE DEF InForce, Process
  <1>1. leases' \in [Boots -> [Sessions -> InForce]] /\ leases'[b][s] = l
    <2>1. leases \in [Boots -> [Sessions -> InForce]]
      BY DEF LeaseTypes
    <2>2. (leases' = leases /\ l = leases[b][s]) \/ leases' = [leases EXCEPT ![b][s] = l]
      BY DEF OneSession
    <2> QED BY <2>1, <2>2
  <1>2. proc' \in [Boots -> [Sessions -> Process]] /\ proc'[b][s] = v
    <2>1. proc \in [Boots -> [Sessions -> Process]]
      BY DEF LeaseTypes
    <2>2. (proc' = proc /\ v = proc[b][s]) \/ proc' = [proc EXCEPT ![b][s] = v]
      BY DEF OneSession
    <2> QED BY <2>1, <2>2
  <1>3. ASSUME NEW c \in Boots, NEW t \in Sessions
        PROVE  Agree(leases'[c][t], proc'[c][t], streams')
    <2>1. CASE c = b /\ t = s
      BY <1>1, <1>2, <2>1 DEF OneSession
    <2>2. CASE ~(c = b /\ t = s)
      <3>1. leases'[c][t] = leases[c][t] /\ proc'[c][t] = proc[c][t]
        BY <2>2 DEF OneSession, LeaseTypes
      <3>2. Agree(leases[c][t], proc[c][t], streams)
        BY DEF LeasesOK
      <3>3. leases[c][t].stream \in Nat /\ proc[c][t].stream \in Nat
        BY DEF LeaseTypes, InForce, Process
      <3>4. streams \in Nat /\ streams' \in Nat /\ streams <= streams'
        BY DEF OneSession, LeaseTypes
      <3> QED BY <3>1, <3>2, <3>3, <3>4 DEF Agree
    <2> QED BY <2>1, <2>2
  <1>4. LeaseTypes'
    BY <1>0, <1>1, <1>2 DEF LeaseTypes, OneSession
  <1> QED BY <1>3, <1>4 DEF LeasesOK

\* What is known of one session's lease and process.
LEMMA SessionFacts ==
    ASSUME LeaseTypes, LeasesOK, NEW b \in Boots, NEW s \in Sessions
    PROVE  /\ leases[b][s] \in InForce /\ proc[b][s] \in Process
           /\ Agree(leases[b][s], proc[b][s], streams)
           /\ tokens \in 0 .. MaxTokens /\ streams \in 0 .. MaxStreams
           /\ leases[b][s].stream \in Nat /\ proc[b][s].stream \in Nat
  <1>1. leases[b][s] \in InForce /\ proc[b][s] \in Process
    BY DEF LeaseTypes
  <1>2. leases[b][s].stream \in Nat /\ proc[b][s].stream \in Nat
    BY <1>1 DEF InForce, Process
  <1> QED BY <1>1, <1>2 DEF LeaseTypes, LeasesOK

\* A grant is for the process that runs, under a token of its own.
LEMMA GrantKeeps ==
    ASSUME LeaseTypes, LeasesOK, NEW b \in Boots, NEW s \in Sessions, NEW l \in InForce,
           Live(b, s), l.stream = proc[b][s].stream, Grant(b, s, l),
           UNCHANGED <<now, who, streams>>
    PROVE  LeaseTypes' /\ LeasesOK'
  <1>1. l \in Grants
    BY Constants DEF InForce, Grants, LeaseTypes
  <1>2. PICK v \in Process : /\ v = [proc[b][s] EXCEPT !.granted = l]
                             /\ v.at = proc[b][s].at /\ v.stream = proc[b][s].stream
                             /\ v.granted = l
    BY <1>1, SessionFacts, ProcessGranted, Zenon
  <1>3. proc' = [proc EXCEPT ![b][s] = v]
    BY <1>2, Zenon DEF Grant
  <1>4. Agree(l, v, streams)
    BY <1>2, SessionFacts DEF Agree, Live
  <1>5. OneSession(b, s, l, v)
    <2>1. /\ UNCHANGED <<now, who>> /\ leases' = [leases EXCEPT ![b][s] = l]
          /\ streams' = streams
      BY DEF Grant
    <2>2. tokens' \in 0 .. MaxTokens /\ streams \in 0 .. MaxStreams /\ streams <= streams
      BY Constants DEF Grant, LeaseTypes
    <2> QED BY <1>3, <1>4, <2>1, <2>2, Zenon DEF OneSession
  <1> QED BY <1>5, OneSessionKeeps

LEMMA AcquireKeeps ==
    ASSUME LeaseTypes, LeasesOK, NEW b \in Boots, NEW r \in Requests, NEW p \in Params,
           Acquire(b, r, p)
    PROVE  LeaseTypes' /\ LeasesOK'
  <1> DEFINE s == p.session
             l == Acquired(b, s, who[r])
  <1>1. s \in Sessions /\ who[r] \in Integrations
    BY DEF Params, LeaseTypes
  <1>2. proc[b][s].stream \in 0 .. MaxStreams
    BY <1>1 DEF LeaseTypes, Process
  <1>3. tokens + 1 \in 0 .. MaxTokens /\ now + Lifetime \in 0 .. now + Lifetime
    BY Constants DEF Acquire, Grant, LeaseTypes
  <1>4. l \in InForce /\ l.stream = proc[b][s].stream
    BY <1>1, <1>2, <1>3 DEF Acquired, InForce
  <1>5. Live(b, s) /\ Grant(b, s, l) /\ UNCHANGED <<now, who, streams>>
    BY DEF Acquire, ids
  <1> HIDE DEF l, s
  <1> QED BY <1>1, <1>4, <1>5, GrantKeeps

LEMMA RenewKeeps ==
    ASSUME LeaseTypes, LeasesOK, NEW b \in Boots, NEW r \in Requests, NEW p \in Params,
           Renew(b, r, p)
    PROVE  LeaseTypes' /\ LeasesOK'
  <1> DEFINE s == p.session
  <1>1. s \in Sessions
    BY DEF Params
  <1>2. leases[b][s] \in InForce
    BY <1>1 DEF LeaseTypes
  <1>3. tokens + 1 \in 0 .. MaxTokens /\ now + Lifetime \in 0 .. now + Lifetime
    BY Constants DEF Renew, Grant, LeaseTypes
  <1>4. PICK l : l = [leases[b][s] EXCEPT !.token = tokens + 1, !.until = now + Lifetime]
    OBVIOUS
  <1>5. l \in InForce /\ l.stream = leases[b][s].stream
    BY <1>2, <1>3, <1>4 DEF InForce
  <1>6. Renewed(b, s) = l
    BY <1>4, Zenon DEF Renewed
  <1>7. /\ Live(b, s) /\ Grant(b, s, l) /\ UNCHANGED <<now, who, streams>>
        /\ leases[b][s].stream = proc[b][s].stream
    BY <1>6 DEF Renew, LeaseOk, ids
  <1> HIDE DEF s
  <1> QED BY <1>1, <1>5, <1>7, GrantKeeps

LEMMA ReleaseKeeps ==
    ASSUME LeaseTypes, LeasesOK, NEW b \in Boots, NEW r \in Requests, NEW p \in Params,
           Release(b, r, p)
    PROVE  LeaseTypes' /\ LeasesOK'
  <1> DEFINE s == p.session
  <1>0. s \in Sessions /\ now \in Nat
    BY DEF Params, LeaseTypes
  <1>1. PICK v \in Process : /\ v = [proc[b][s] EXCEPT !.granted = NoLease]
                             /\ v.at = proc[b][s].at /\ v.stream = proc[b][s].stream
                             /\ v.granted = NoLease
    BY <1>0, SessionFacts, Nothings, ProcessGranted, Zenon
  <1>2. proc' = [proc EXCEPT ![b][s] = v] /\ leases' = [leases EXCEPT ![b][s] = NoLease]
    BY <1>1, Zenon DEF Release
  <1>3. Agree(NoLease, v, streams)
    BY <1>0, <1>1, SessionFacts, Nothings DEF Agree
  <1> HIDE DEF s
  <1>4. OneSession(b, s, NoLease, v)
    <2>1. tokens \in 0 .. MaxTokens /\ streams \in 0 .. MaxStreams /\ streams <= streams
      BY Constants DEF LeaseTypes
    <2>2. UNCHANGED <<now, who, tokens, streams>>
      BY DEF Release, ids
    <2> QED BY <1>2, <1>3, <2>1, <2>2, Zenon DEF OneSession
  <1> QED BY <1>0, <1>4, Nothings, OneSessionKeeps

LEMMA ForgetKeeps ==
    ASSUME LeaseTypes, LeasesOK, NEW b \in Boots, NEW r \in Requests, NEW p \in Params,
           Forget(b, r, p)
    PROVE  LeaseTypes' /\ LeasesOK'
  <1> DEFINE s == p.session
  <1>0. s \in Sessions /\ now \in Nat
    BY DEF Params, LeaseTypes
  <1>1. Agree(NoLease, proc[b][s], streams)
    BY <1>0, SessionFacts, Nothings DEF Agree, Forget, Live
  <1> HIDE DEF s
  <1>2. OneSession(b, s, NoLease, proc[b][s])
    <2>1. /\ UNCHANGED <<now, who, proc, tokens, streams>>
          /\ leases' = [leases EXCEPT ![b][s] = NoLease]
      BY DEF Forget, ids, s
    <2>2. tokens \in 0 .. MaxTokens /\ streams \in 0 .. MaxStreams /\ streams <= streams
      BY Constants DEF LeaseTypes
    <2> QED BY <1>1, <2>1, <2>2, Zenon DEF OneSession
  <1> QED BY <1>0, <1>2, Nothings, SessionFacts, OneSessionKeeps

\* The agent is out, or is given back.
LEMMA AwayKeeps ==
    ASSUME LeaseTypes, LeasesOK, NEW b \in Boots, NEW s \in Sessions, NEW x \in BOOLEAN,
           proc' = [proc EXCEPT ![b][s].away = x],
           UNCHANGED <<now, who, leases, tokens, streams>>
    PROVE  LeaseTypes' /\ LeasesOK'
  <1>1. PICK v \in Process : /\ v = [proc[b][s] EXCEPT !.away = x]
                             /\ v.at = proc[b][s].at /\ v.stream = proc[b][s].stream
                             /\ v.granted = proc[b][s].granted
    BY SessionFacts, ProcessAway, Zenon
  <1>2. proc' = [proc EXCEPT ![b][s] = v]
    BY <1>1, Zenon
  <1>3. Agree(leases[b][s], v, streams)
    BY <1>1, SessionFacts DEF Agree
  <1>4. OneSession(b, s, leases[b][s], v)
    <2>1. tokens \in 0 .. MaxTokens /\ streams \in 0 .. MaxStreams /\ streams <= streams
      BY Constants DEF LeaseTypes
    <2> QED BY <1>2, <1>3, <2>1, Zenon DEF OneSession
  <1> QED BY <1>4, SessionFacts, OneSessionKeeps

\* The session has no process that a lease could name.
LEMMA NoProcessKeeps ==
    ASSUME LeaseTypes, LeasesOK, NEW b \in Boots, NEW s \in Sessions, NEW v \in Process,
           proc' = [proc EXCEPT ![b][s] = v],
           v.at # "live" /\ v.stream = 0 /\ v.granted = NoLease,
           leases' = leases \/ leases' = [leases EXCEPT ![b][s] = NoLease],
           UNCHANGED <<now, who, tokens, streams>>
    PROVE  LeaseTypes' /\ LeasesOK'
  <1>0. now \in Nat /\ streams \in Nat
    BY DEF LeaseTypes
  <1>1. Agree(leases[b][s], v, streams) /\ Agree(NoLease, v, streams)
    BY <1>0, SessionFacts, Nothings DEF Agree
  <1>2. OneSession(b, s, leases[b][s], v) \/ OneSession(b, s, NoLease, v)
    BY <1>1 DEF OneSession, LeaseTypes
  <1> QED BY <1>0, <1>2, Nothings, SessionFacts, OneSessionKeeps

LEMMA ProcessAt ==
    ASSUME NEW a \in {"opening", "closing"}, now \in Nat
    PROVE  /\ [NoProcess EXCEPT !.at = a] \in Process
           /\ [NoProcess EXCEPT !.at = a].at = a
           /\ [NoProcess EXCEPT !.at = a].stream = 0
           /\ [NoProcess EXCEPT !.at = a].granted = NoLease
  <1>1. NoProcess \in Process /\ NoProcess.stream = 0 /\ NoProcess.granted = NoLease
    BY Nothings
  <1>2. PICK u : u = [NoProcess EXCEPT !.at = a]
    OBVIOUS
  <1>3. u \in Process /\ u.at = a /\ u.stream = 0 /\ u.granted = NoLease
    BY <1>1, <1>2 DEF Process
  <1> QED BY <1>2, <1>3, Zenon

LEMMA OpenedFacts ==
    ASSUME LeaseTypes, NEW b \in Boots, NEW s \in Sessions, NEW g \in Grants,
           streams < MaxStreams
    PROVE  /\ Opened(b, s, g) \in Process /\ Opened(b, s, g).at = "live"
           /\ Opened(b, s, g).stream = streams + 1 /\ Opened(b, s, g).granted = g
  <1>1. NoProcess \in Process
    BY Nothings DEF LeaseTypes
  <1>2. streams + 1 \in 0 .. MaxStreams
    BY Constants DEF LeaseTypes
  <1>3. PICK u : u = [NoProcess EXCEPT !.at = "live", !.stream = streams + 1, !.granted = g]
    OBVIOUS
  <1>4. u \in Process /\ u.at = "live" /\ u.stream = streams + 1 /\ u.granted = g
    BY <1>1, <1>2, <1>3 DEF Process
  <1> QED BY <1>3, <1>4, Zenon DEF Opened

LEMMA FinishOpenKeeps ==
    ASSUME LeaseTypes, LeasesOK, NEW b \in Boots, NEW r \in Requests, FinishOpen(b, r),
           flight[b][r].session \in Sessions
    PROVE  LeaseTypes' /\ LeasesOK'
  <1> DEFINE s == flight[b][r].session
             l == [holder |-> who[r], token |-> tokens + 1, until |-> now + Lifetime,
                   stream |-> streams + 1]
             v == Opened(b, s, l)
  <1>1. /\ who[r] \in Integrations
        /\ tokens + 1 \in 0 .. MaxTokens /\ now + Lifetime \in 0 .. now + Lifetime
        /\ streams + 1 \in 0 .. MaxStreams /\ streams < MaxStreams /\ streams \in Nat
        /\ now + Lifetime \in Nat
    BY Constants DEF FinishOpen, LeaseTypes
  <1>2. l \in InForce /\ l \in Grants /\ l.stream = streams + 1
    BY <1>1 DEF InForce, Grants
  <1>3. /\ leases' = [leases EXCEPT ![b][s] = l] /\ proc' = [proc EXCEPT ![b][s] = v]
        /\ tokens' = tokens + 1 /\ streams' = streams + 1 /\ UNCHANGED <<now, who>>
    BY DEF FinishOpen, ids
  <1> HIDE DEF l
  <1>4. /\ v \in Process /\ v.at = "live" /\ v.stream = streams + 1 /\ v.granted = l
    BY <1>1, <1>2, OpenedFacts
  <1> HIDE DEF v, s
  <1>5. Agree(l, v, streams')
    BY <1>1, <1>2, <1>3, <1>4 DEF Agree
  <1>6. OneSession(b, s, l, v)
    BY <1>1, <1>3, <1>5 DEF OneSession
  <1>7. s \in Sessions
    BY DEF s
  <1> QED BY <1>2, <1>4, <1>6, <1>7, OneSessionKeeps

LEMMA OpenedElsewhereKeeps ==
    ASSUME LeaseTypes, LeasesOK, NEW b \in Boots, NEW s \in Sessions, OpenedElsewhere(b, s)
    PROVE  LeaseTypes' /\ LeasesOK'
  <1> DEFINE v == Opened(b, s, NoLease)
  <1>1. /\ streams < MaxStreams /\ streams \in Nat /\ streams + 1 \in 0 .. MaxStreams
        /\ now \in Nat /\ tokens \in 0 .. MaxTokens
    BY Constants DEF OpenedElsewhere, LeaseTypes
  <1>2. /\ proc' = [proc EXCEPT ![b][s] = v] /\ streams' = streams + 1
        /\ UNCHANGED <<now, who, leases, tokens>>
    BY DEF OpenedElsewhere, ids
  <1>3. /\ v \in Process /\ v.at = "live" /\ v.stream = streams + 1 /\ v.granted = NoLease
    BY <1>1, Nothings, OpenedFacts
  <1> HIDE DEF v
  <1>4. Agree(leases[b][s], v, streams')
    BY <1>1, <1>2, <1>3, SessionFacts DEF Agree
  <1>5. OneSession(b, s, leases[b][s], v)
    BY <1>1, <1>2, <1>4 DEF OneSession
  <1> QED BY <1>3, <1>5, SessionFacts, OneSessionKeeps

LEMMA TurnChangesKeeps ==
    ASSUME LeaseTypes, LeasesOK, NEW b \in Boots, NEW s \in Sessions, TurnChanges(b, s)
    PROVE  LeaseTypes' /\ LeasesOK'
  <1>1. PICK v \in Process : /\ v = [proc[b][s] EXCEPT !.running = ~@]
                             /\ v.at = proc[b][s].at /\ v.stream = proc[b][s].stream
                             /\ v.granted = proc[b][s].granted
    BY SessionFacts, ProcessRunning, Zenon
  <1>2. proc' = [proc EXCEPT ![b][s] = v]
    BY <1>1, Zenon DEF TurnChanges
  <1>3. Agree(leases[b][s], v, streams)
    BY <1>1, SessionFacts DEF Agree
  <1>4. OneSession(b, s, leases[b][s], v)
    <2>1. tokens \in 0 .. MaxTokens /\ streams \in 0 .. MaxStreams /\ streams <= streams
      BY Constants DEF LeaseTypes
    <2>2. UNCHANGED <<now, who, leases, tokens, streams>>
      BY DEF TurnChanges, ids
    <2> QED BY <1>2, <1>3, <2>1, <2>2, Zenon DEF OneSession
  <1> QED BY <1>1, <1>4, SessionFacts, OneSessionKeeps

LEMMA OverKeeps ==
    ASSUME LeaseTypes, LeasesOK, NEW b \in Boots, Over(b)
    PROVE  LeaseTypes' /\ LeasesOK'
  <1>0. now \in Nat /\ streams \in Nat /\ InForce' = InForce
    BY DEF LeaseTypes, Over, InForce
  <1>1. /\ leases' = [leases EXCEPT ![b] = [s \in Sessions |-> NoLease]]
        /\ proc' = [proc EXCEPT ![b] = [s \in Sessions |-> NoProcess]]
        /\ UNCHANGED <<now, who, tokens, streams>>
    BY DEF Over, ids
  <1>2. NoLease \in InForce /\ NoProcess \in Process
    BY <1>0, Nothings
  <1>3. Agree(NoLease, NoProcess, streams)
    BY <1>0, Nothings DEF Agree
  <1> HIDE DEF InForce, Process
  <1>4. LeaseTypes'
    BY <1>0, <1>1, <1>2 DEF LeaseTypes
  <1>5. ASSUME NEW c \in Boots, NEW s \in Sessions
        PROVE  Agree(leases'[c][s], proc'[c][s], streams')
    <2>1. CASE c = b
      BY <1>1, <1>3, <2>1 DEF LeaseTypes
    <2>2. CASE c # b
      <3>1. leases'[c] = leases[c] /\ proc'[c] = proc[c] /\ streams' = streams
        BY <1>1, <2>2 DEF LeaseTypes
      <3> QED BY <3>1 DEF LeasesOK
    <2> QED BY <2>1, <2>2
  <1> QED BY <1>4, <1>5 DEF LeasesOK

\* Only the time, which leases lapse by, may have changed.
LEMMA LeaseFrame ==
    ASSUME LeaseTypes, LeasesOK, now' \in now .. MaxTime,
           UNCHANGED <<who, leases, proc, tokens, streams>>
    PROVE  LeaseTypes' /\ LeasesOK'
  <1>1. ASSUME NEW l \in InForce
        PROVE  l \in InForce'
    BY <1>1, Constants DEF InForce, LeaseTypes
  <1>2. leases' \in [Boots -> [Sessions -> InForce']]
    <2> HIDE DEF InForce
    <2> QED BY <1>1 DEF LeaseTypes
  <1>3. now' \in 0 .. MaxTime
    BY Constants DEF LeaseTypes
  <1> HIDE DEF InForce, Process
  <1>4. LeaseTypes'
    BY <1>2, <1>3 DEF LeaseTypes
  <1> QED BY <1>4 DEF LeasesOK

-----------------------------------------------------------------------------
(* Every step of the owner and of a connection.                            *)

LEMMA OwnerStepKeeps ==
    ASSUME IInv, NEW b \in Boots, NEW r \in Requests, NEW p \in Params, OwnerStep(b, r, p)
    PROVE  IInv'
  <1>0. MutationTypes /\ LeaseTypes /\ MutationsOK /\ LeasesOK
    BY TypesSplit DEF IInv
  <1>1. now \in Nat /\ now \in now .. MaxTime /\ p.session \in Sessions
    BY <1>0, Constants DEF LeaseTypes, Params
  <1>2. pointers \in SUBSET Sessions /\ flight \in [Boots -> [Requests -> Flight]]
    BY <1>0 DEF MutationTypes
  <1>3. ASSUME NEW o \in {"done", "denied"}, Begin(b, r, o),
               UNCHANGED <<now, ids, phase, applied, answered, flight>>, pointers' \in SUBSET Sessions
        PROVE  MutationTypes' /\ MutationsOK'
    BY <1>0, <1>2, <1>3, BeginTypes, BeginKeeps
  <1>4. ASSUME Begin(b, r, "pending"), Launch(b, r, p),
               UNCHANGED <<now, ids, phase, applied, answered, pointers>>
        PROVE  MutationTypes' /\ MutationsOK'
    <2>1. [kind |-> Kind(p.method), session |-> p.session, at |-> "taken"] \in Flight
      BY <1>1 DEF Flight, Kind
    <2>2. flight' \in [Boots -> [Requests -> Flight]]
      BY <1>2, <1>4, <2>1 DEF Launch
    <2> QED BY <1>0, <1>2, <1>4, <2>2, BeginTypes, BeginKeeps
  <1>5. CASE Acquire(b, r, p)
    <2>1. MutationTypes' /\ MutationsOK'
      BY <1>2, <1>3, <1>5 DEF Acquire
    <2> QED BY <1>0, <1>5, <2>1, AcquireKeeps, Together
  <1>6. CASE Renew(b, r, p)
    <2>1. MutationTypes' /\ MutationsOK'
      BY <1>2, <1>3, <1>6 DEF Renew
    <2> QED BY <1>0, <1>6, <2>1, RenewKeeps, Together
  <1>7. CASE Release(b, r, p)
    <2>1. MutationTypes' /\ MutationsOK'
      BY <1>2, <1>3, <1>7 DEF Release
    <2> QED BY <1>0, <1>7, <2>1, ReleaseKeeps, Together
  <1>8. CASE Forget(b, r, p)
    <2>1. MutationTypes' /\ MutationsOK'
      BY <1>2, <1>3, <1>8 DEF Forget
    <2> QED BY <1>0, <1>8, <2>1, ForgetKeeps, Together
  <1>9. CASE TakeAgent(b, r, p)
    <2>1. MutationTypes' /\ MutationsOK'
      BY <1>4, <1>9 DEF TakeAgent
    <2>2. LeaseTypes' /\ LeasesOK'
      BY <1>0, <1>1, <1>9, AwayKeeps DEF TakeAgent, ids
    <2> QED BY <2>1, <2>2, Together
  <1>10. CASE Cool(b, r, p)
    <2>1. MutationTypes' /\ MutationsOK'
      BY <1>4, <1>10 DEF Cool
    <2>2. /\ proc' = [proc EXCEPT ![b][p.session] = [NoProcess EXCEPT !.at = "closing"]]
          /\ leases' = [leases EXCEPT ![b][p.session] = NoLease]
          /\ UNCHANGED <<now, who, tokens, streams>>
      BY <1>10 DEF Cool, ids
    <2>3. PICK v \in Process : /\ v = [NoProcess EXCEPT !.at = "closing"]
                               /\ v.at = "closing" /\ v.stream = 0 /\ v.granted = NoLease
      BY <1>1, ProcessAt, Zenon
    <2>4. LeaseTypes' /\ LeasesOK'
      BY <1>0, <1>1, <2>2, <2>3, NoProcessKeeps
    <2> QED BY <2>1, <2>4, Together
  <1>11. CASE PrepareOpen(b, r, p)
    <2>1. MutationTypes' /\ MutationsOK'
      BY <1>4, <1>11 DEF PrepareOpen
    <2>2. PICK v \in Process : /\ v = [NoProcess EXCEPT !.at = "opening"]
                               /\ v.at = "opening" /\ v.stream = 0 /\ v.granted = NoLease
      BY <1>1, ProcessAt, Zenon
    <2>3. proc' = [proc EXCEPT ![b][p.session].at = "opening"] /\ proc[b][p.session] = NoProcess
      BY <1>11 DEF PrepareOpen
    <2>4. proc' = [proc EXCEPT ![b][p.session] = v]
      BY <2>2, <2>3, Zenon
    <2>5. UNCHANGED <<now, who, leases, tokens, streams>>
      BY <1>11 DEF PrepareOpen, ids
    <2>6. LeaseTypes' /\ LeasesOK'
      BY <1>0, <1>1, <2>2, <2>4, <2>5, NoProcessKeeps
    <2> QED BY <2>1, <2>6, Together
  <1>12. CASE Deny(b, r, p)
    <2>1. MutationTypes' /\ MutationsOK'
      BY <1>2, <1>3, <1>12 DEF Deny
    <2>2. LeaseTypes' /\ LeasesOK'
      BY <1>0, <1>1, <1>12, LeaseFrame DEF Deny, ids
    <2> QED BY <2>1, <2>2, Together
  <1>13. CASE DiesWithin(b, r, p)
    <2>1. Forgets(b) /\ pointers' \in SUBSET Sessions
      BY <1>2, <1>13 DEF DiesWithin, Forgets
    <2>2. Over(b)
      BY <2>1 DEF Forgets
    <2> QED BY <1>0, <2>1, <2>2, ForgetsTypes, ForgetsKeeps, OverKeeps, Together
  <1> QED BY <1>5, <1>6, <1>7, <1>8, <1>9, <1>10, <1>11, <1>12, <1>13 DEF OwnerStep

LEMMA FlightStepKeeps ==
    ASSUME IInv, NEW b \in Boots, NEW r \in Requests, FlightStep(b, r)
    PROVE  IInv'
  <1>0. MutationTypes /\ LeaseTypes /\ MutationsOK /\ LeasesOK
    BY TypesSplit DEF IInv
  <1>1. now \in Nat /\ now \in now .. MaxTime /\ pointers \in SUBSET Sessions
    BY <1>0, Constants DEF LeaseTypes, MutationTypes
  <1>2. flight[b][r].kind # "none" => flight[b][r].session \in Sessions
    <2>1. NoFlight.kind = "none"
      BY DEF NoFlight
    <2> QED BY <1>0, <2>1 DEF MutationsOK, TraceOK
  <1>3. ASSUME Concludes(b, r), pointers' \in SUBSET Sessions
        PROVE  MutationTypes' /\ MutationsOK'
    BY <1>0, <1>3, ConcludesTypes, ConcludesKeeps
  <1>4. ASSUME flight[b][r].session \in Sessions,
               proc' = [proc EXCEPT ![b][flight[b][r].session] = NoProcess],
               UNCHANGED <<now, who, leases, tokens, streams>>
        PROVE  LeaseTypes' /\ LeasesOK'
    BY <1>0, <1>1, <1>4, Nothings, NoProcessKeeps
  <1>5. CASE Deliver(b, r)
    <2>1. LeaseTypes' /\ LeasesOK'
      BY <1>0, <1>1, <1>5, LeaseFrame DEF Deliver, ids
    <2> QED BY <1>0, <1>5, <2>1, DeliverKeeps, Together
  <1>6. CASE FinishCommand(b, r)
    <2>1. Concludes(b, r) /\ pointers' = pointers
      BY <1>6 DEF FinishCommand, Concludes
    <2>2. flight[b][r].session \in Sessions
      BY <1>2, <1>6 DEF FinishCommand, Carries
    <2>3. LeaseTypes' /\ LeasesOK'
      BY <1>0, <1>6, <2>2, AwayKeeps DEF FinishCommand, ids
    <2> QED BY <1>1, <1>3, <2>1, <2>3, Together
  <1>7. CASE CommandFails(b, r)
    <2>1. Concludes(b, r) /\ pointers' = pointers
      BY <1>7 DEF CommandFails, Concludes
    <2>2. flight[b][r].session \in Sessions
      BY <1>2, <1>7 DEF CommandFails, Carries
    <2>3. UNCHANGED <<now, who, leases, tokens, streams>>
      BY <1>7 DEF CommandFails, ids
    <2>4. LeaseTypes' /\ LeasesOK'
      BY <1>0, <1>4, <1>7, <2>2, <2>3, AwayKeeps DEF CommandFails, AgentBack
    <2> QED BY <1>1, <1>3, <2>1, <2>4, Together
  <1>8. CASE FinishCool(b, r)
    <2>1. Concludes(b, r) /\ pointers' = pointers
      BY <1>8 DEF FinishCool, Concludes
    <2>2. flight[b][r].session \in Sessions
      BY <1>2, <1>8 DEF FinishCool, Carries
    <2>3. LeaseTypes' /\ LeasesOK'
      BY <1>4, <1>8, <2>2 DEF FinishCool, ids
    <2> QED BY <1>1, <1>3, <2>1, <2>3, Together
  <1>9. CASE FinishOpen(b, r)
    <2>1. Concludes(b, r)
      BY <1>9 DEF FinishOpen, Concludes
    <2>2. flight[b][r].session \in Sessions
      BY <1>2, <1>9 DEF FinishOpen, Carries
    <2>3. pointers' \in SUBSET Sessions
      BY <1>1, <1>9, <2>2 DEF FinishOpen
    <2> QED BY <1>0, <1>3, <1>9, <2>1, <2>2, <2>3, FinishOpenKeeps, Together
  <1>10. CASE DriverAnswers(b, r)
    <2>1. LeaseTypes' /\ LeasesOK'
      BY <1>0, <1>1, <1>10, LeaseFrame DEF DriverAnswers, ids
    <2> QED BY <1>0, <1>10, <2>1, DriverAnswersKeeps, Together
  <1>11. CASE OpenDenied(b, r) \/ OpenAbandoned(b, r)
    <2>1. Concludes(b, r) /\ pointers' = pointers
      BY <1>11 DEF OpenDenied, OpenAbandoned, Released, Concludes
    <2>2. flight[b][r].session \in Sessions
      BY <1>2, <1>11 DEF OpenDenied, OpenAbandoned, Released, Carries
    <2>3. LeaseTypes' /\ LeasesOK'
      BY <1>4, <1>11, <2>2 DEF OpenDenied, OpenAbandoned, Released, ids
    <2> QED BY <1>1, <1>3, <2>1, <2>3, Together
  <1> QED BY <1>5, <1>6, <1>7, <1>8, <1>9, <1>10, <1>11 DEF FlightStep

-----------------------------------------------------------------------------
(* The invariant is inductive.                                             *)

LEMMA InitIsGood == Init => IInv
  <1> SUFFICES ASSUME Init
               PROVE  IInv
    OBVIOUS
  <1>0. now = 0 /\ now \in Nat
    BY DEF Init
  <1>1. NoFlight \in Flight /\ NoFlight.at = "none" /\ NoRow \in Row
    BY DEF NoFlight, Flight, NoRow, Row
  <1>2. MutationTypes
    BY <1>0, <1>1, Constants DEF Init, MutationTypes
  <1>3. LeaseTypes
    <2> HIDE DEF InForce, Process
    <2> QED BY <1>0, Nothings, Constants DEF Init, LeaseTypes
  <1>4. MutationsOK
    BY <1>1 DEF Init, MutationsOK, TraceOK, RowOK, OnceOK, Early, At
  <1>5. LeasesOK
    BY <1>0, Nothings DEF Init, LeasesOK, Agree
  <1> QED BY <1>2, <1>3, <1>4, <1>5, TypesSplit DEF IInv

LEMMA NextKeeps == IInv /\ [Next]_vars => IInv'
  <1> SUFFICES ASSUME IInv, [Next]_vars
               PROVE  IInv'
    OBVIOUS
  <1>0. MutationTypes /\ LeaseTypes /\ MutationsOK /\ LeasesOK
    BY TypesSplit DEF IInv
  <1>1. /\ now \in Nat /\ now \in now .. MaxTime /\ pointers \in SUBSET Sessions
        /\ phase \in [Boots -> {"new", "serving", "draining", "gone"}]
    BY <1>0, Constants DEF LeaseTypes, MutationTypes
  <1>2. ASSUME NEW b \in Boots, NEW r \in Requests, NEW p \in Params, OwnerStep(b, r, p)
        PROVE  IInv'
    BY <1>2, OwnerStepKeeps
  <1>3. ASSUME NEW b \in Boots, NEW r \in Requests, FlightStep(b, r)
        PROVE  IInv'
    BY <1>3, FlightStepKeeps
  <1>4. ASSUME NEW b \in Boots, NEW r \in Requests, PurgeAlone(b, r)
        PROVE  IInv'
    <2>1. LeaseTypes' /\ LeasesOK'
      BY <1>0, <1>1, <1>4, LeaseFrame DEF PurgeAlone, ids
    <2> QED BY <1>0, <1>4, <2>1, PurgeKeeps, Together
  <1>5. ASSUME NEW b \in Boots, NEW s \in Sessions, SessionStep(b, s)
        PROVE  IInv'
    <2>1. /\ UNCHANGED <<ids, ledger, memory, flight, history, phase, pointers>>
          /\ now' = now
      BY <1>5 DEF SessionStep, OpenedElsewhere, TurnChanges, Ends, store
    <2>2. MutationTypes' /\ MutationsOK'
      BY <1>0, <1>1, <2>1, TimeKeeps
    <2>3. CASE OpenedElsewhere(b, s)
      BY <1>0, <2>2, <2>3, OpenedElsewhereKeeps, Together
    <2>4. CASE TurnChanges(b, s)
      BY <1>0, <2>2, <2>4, TurnChangesKeeps, Together
    <2>5. CASE Ends(b, s)
      <3>1. LeaseTypes' /\ LeasesOK'
        BY <1>0, <1>1, <2>5, Nothings, NoProcessKeeps DEF Ends, ids
      <3> QED BY <2>2, <3>1, Together
    <2> QED BY <1>5, <2>3, <2>4, <2>5 DEF SessionStep
  <1>6. ASSUME NEW b \in Boots, Start(b) \/ BeginDrain(b)
        PROVE  IInv'
    <2>1. /\ UNCHANGED <<ids, ledger, memory, flight, history, pointers>>
          /\ UNCHANGED <<now, who, leases, proc, tokens, streams>>
          /\ phase' \in [Boots -> {"new", "serving", "draining", "gone"}]
      BY <1>1, <1>6 DEF Start, BeginDrain, store, ids
    <2>2. MutationTypes' /\ MutationsOK'
      BY <1>0, <1>1, <2>1, TimeKeeps
    <2>3. LeaseTypes' /\ LeasesOK'
      BY <1>0, <1>1, <2>1, LeaseFrame
    <2> QED BY <2>2, <2>3, Together
  <1>7. ASSUME NEW b \in Boots, Ended(b)
        PROVE  IInv'
    <2>1. Over(b) /\ Forgets(b) /\ pointers' \in SUBSET Sessions
      BY <1>1, <1>7 DEF Ended, Forgets, store, history
    <2> QED BY <1>0, <2>1, ForgetsTypes, ForgetsKeeps, OverKeeps, Together
  <1>8. CASE Tick
    <2>1. now' \in now .. MaxTime
      BY <1>1, <1>8, Constants DEF Tick
    <2>2. /\ UNCHANGED <<ids, ledger, memory, flight, history, phase, pointers>>
          /\ UNCHANGED <<who, leases, proc, tokens, streams>>
      BY <1>8 DEF Tick, store, ids
    <2>3. MutationTypes' /\ MutationsOK'
      BY <1>0, <1>1, <2>1, <2>2, TimeKeeps
    <2>4. LeaseTypes' /\ LeasesOK'
      BY <1>0, <2>1, <2>2, LeaseFrame
    <2> QED BY <2>3, <2>4, Together
  <1>9. CASE UNCHANGED vars
    <2>1. /\ UNCHANGED <<ids, ledger, memory, flight, history, phase, pointers>>
          /\ UNCHANGED <<now, who, leases, proc, tokens, streams>>
      BY <1>9 DEF vars, store, ids
    <2>2. MutationTypes' /\ MutationsOK'
      BY <1>0, <1>1, <2>1, TimeKeeps
    <2>3. LeaseTypes' /\ LeasesOK'
      BY <1>0, <1>1, <2>1, LeaseFrame
    <2> QED BY <2>2, <2>3, Together
  <1> QED BY <1>2, <1>3, <1>4, <1>5, <1>6, <1>7, <1>8, <1>9 DEF Next

\* The invariant holds in every state the daemons reach.
THEOREM ControlInvariant == Spec => []IInv
  <1> QED BY InitIsGood, NextKeeps, PTL DEF Spec

-----------------------------------------------------------------------------
(* What it says of the code.                                               *)

\* RuntimeControl and the ledger it writes keep their types, and no lease lasts
\* longer than its lifetime from now.
THEOREM ControlTypeCorrect == Spec => []TypeOK
  <1>1. IInv => TypeOK
    BY DEF IInv
  <1> QED BY <1>1, ControlInvariant, PTL

\* A mutation taken up no earlier than its identifier says is delivered at most
\* once, however often it is asked for and the daemon restarted: `begin` keeps its
\* row for as long as it accepts its identifier.
THEOREM TimelyIsNotRepeated == Spec => []RepeatedOnlyIfEarly
  <1>1. IInv => RepeatedOnlyIfEarly
    <2> SUFFICES ASSUME IInv, NEW r \in Requests, applied[r] > 1, ~Early(r)
                 PROVE  FALSE
      BY DEF RepeatedOnlyIfEarly
    <2>1. applied[r] <= 1 /\ applied[r] \in Nat
      BY DEF IInv, MutationsOK, OnceOK, TypeOK
    <2> QED BY <2>1
  <1> QED BY <1>1, ControlInvariant, PTL

\* What `finish` records is true and stays true: done only what reached its provider,
\* denied only what did not or what its driver answered with an error
\* (runtime_serve/session_control.rs:653-669).
THEOREM RecordsAreTrue == Spec => []OutcomesAreTrue
  <1>1. IInv => OutcomesAreTrue
    BY DEF IInv, MutationsOK, TraceOK, OnceOK, OutcomesAreTrue
  <1> QED BY <1>1, ControlInvariant, PTL

\* `verify_lease_values` accepts only the last lease granted on the process that
\* runs, from the integration it was granted to.
THEOREM LeasesNameProcesses == Spec => []LeaseNamesItsProcess
  <1>1. IInv => LeaseNamesItsProcess
    <2> SUFFICES ASSUME IInv, NEW b \in Boots, NEW r \in Requests, NEW p \in Params,
                        LeaseOk(b, r, p)
                 PROVE  /\ proc[b][p.session].granted.holder = who[r]
                        /\ proc[b][p.session].granted.token = p.token
      BY DEF LeaseNamesItsProcess
    <2>1. p.session \in Sessions
      BY DEF Params
    <2>2. proc[b][p.session].granted = leases[b][p.session]
      BY <2>1 DEF IInv, LeasesOK, Agree, LeaseOk, Live
    <2> QED BY <2>2 DEF LeaseOk
  <1> QED BY <1>1, ControlInvariant, PTL

-----------------------------------------------------------------------------
(* Passing control on.                                                     *)

\* Nobody new controls the process.
NotPassed(b, s) == \/ proc'[b][s].granted = NoLease
                   \/ proc'[b][s].granted.holder = proc[b][s].granted.holder
                   \/ proc'[b][s].stream # proc[b][s].stream

Replaces(c, t, v) == proc' = [proc EXCEPT ![c][t] = v]

\* A step about one process passes no control of the others.
LEMMA OthersNotPassed ==
    ASSUME LeaseTypes, NEW c \in Boots, NEW t \in Sessions, NEW v,
           Replaces(c, t, v),
           NEW b \in Boots, NEW s \in Sessions,
           \/ v.granted = NoLease
           \/ v.granted.holder = proc[c][t].granted.holder
           \/ v.stream # proc[c][t].stream
    PROVE  NotPassed(b, s)
  <1> HIDE DEF Process
  <1>1. proc \in [Boots -> [Sessions -> Process]]
    BY DEF LeaseTypes
  <1>2. proc'[b][s] = IF b = c /\ s = t THEN v ELSE proc[b][s]
    BY <1>1 DEF Replaces
  <1> QED BY <1>2 DEF NotPassed

LEMMA OwnerPassesFairly ==
    ASSUME IInv, NEW c \in Boots, NEW r \in Requests, NEW p \in Params,
           OwnerStep(c, r, p), NEW b \in Boots, NEW s \in Sessions,
           proc[b][s].granted # NoLease, ~NotPassed(b, s)
    PROVE  proc[b][s].granted.until < now /\ ~proc[b][s].running
  <1>0. LeaseTypes /\ LeasesOK /\ p.session \in Sessions
    BY TypesSplit DEF IInv, Params
  <1>1. proc[c][p.session] \in Process /\ leases[c][p.session] \in InForce /\ now \in Nat
    BY <1>0 DEF LeaseTypes
  <1>2. NoLease \in Grants /\ NoProcess.granted = NoLease
    BY <1>1, Nothings
  <1>3. CASE proc' = proc
    BY <1>3 DEF NotPassed
  <1>4. CASE Acquire(c, r, p)
    <2> DEFINE l == Acquired(c, p.session, who[r])
    <2>1. PICK v : v = [proc[c][p.session] EXCEPT !.granted = l]
      OBVIOUS
    <2>2. Replaces(c, p.session, v)
      BY <1>4, <2>1, Zenon DEF Acquire, Grant, Replaces
    <2>3. v.granted = l
      BY <1>1, <2>1 DEF Process
    <2>4. l.holder = who[r]
      BY DEF Acquired
    <2> HIDE DEF l
    <2>5. proc'[b][s] = IF b = c /\ s = p.session THEN v ELSE proc[b][s]
      <3> HIDE DEF Process
      <3>1. proc \in [Boots -> [Sessions -> Process]]
        BY <1>0 DEF LeaseTypes
      <3> QED BY <2>2, <3>1 DEF Replaces
    <2>6. b = c /\ s = p.session
      BY <2>5 DEF NotPassed
    <2>7. proc[b][s].granted.holder # who[r]
      BY <2>3, <2>4, <2>5, <2>6 DEF NotPassed
    <2>8. leases[b][s] = proc[b][s].granted /\ leases[b][s] # NoLease
      BY <1>0 DEF LeasesOK, Agree
    <2> QED BY <1>4, <2>6, <2>7, <2>8 DEF Acquire, Acquirable
  <1>5. CASE Renew(c, r, p)
    <2>1. PICK l : l = [leases[c][p.session] EXCEPT !.token = tokens + 1, !.until = now + Lifetime]
      OBVIOUS
    <2>2. l.holder = leases[c][p.session].holder
      BY <1>1, <2>1 DEF InForce
    <2>3. PICK v : v = [proc[c][p.session] EXCEPT !.granted = l]
      OBVIOUS
    <2>4. Replaces(c, p.session, v)
      BY <1>5, <2>1, <2>3, Zenon DEF Renew, Grant, Renewed, Replaces
    <2>5. v.granted = l
      BY <1>1, <2>3 DEF Process
    <2>a. /\ leases[c][p.session] # NoLease /\ proc[c][p.session].at = "live"
          /\ leases[c][p.session].stream = proc[c][p.session].stream
      BY <1>5 DEF Renew, LeaseOk, Live
    <2>6. proc[c][p.session].granted = leases[c][p.session]
      BY <1>0, <2>a DEF LeasesOK, Agree
    <2> QED BY <1>0, <2>2, <2>4, <2>5, <2>6, OthersNotPassed
  <1>6. CASE Release(c, r, p)
    <2>1. PICK v \in Process : /\ v = [proc[c][p.session] EXCEPT !.granted = NoLease]
                               /\ v.granted = NoLease
      BY <1>1, <1>2, ProcessGranted, ZenonT(40)
    <2>2. Replaces(c, p.session, v)
      BY <1>6, <2>1, Zenon DEF Release, Replaces
    <2>3. v.granted = NoLease
      BY <2>1, Zenon
    <2> QED BY <1>0, <2>2, <2>3, OthersNotPassed
  <1>7. CASE TakeAgent(c, r, p)
    <2>1. PICK v \in Process : /\ v = [proc[c][p.session] EXCEPT !.away = TRUE]
                               /\ v.granted = proc[c][p.session].granted
      BY <1>1, ProcessAway, Zenon
    <2>2. Replaces(c, p.session, v)
      BY <1>7, <2>1, Zenon DEF TakeAgent, Replaces
    <2>3. v.granted = proc[c][p.session].granted
      BY <2>1, Zenon
    <2> QED BY <1>0, <2>2, <2>3, OthersNotPassed
  <1>8. CASE Cool(c, r, p)
    <2>1. PICK v \in Process : v = [NoProcess EXCEPT !.at = "closing"] /\ v.granted = NoLease
      BY <1>1, ProcessAt, Zenon
    <2>2. Replaces(c, p.session, v)
      BY <1>8, <2>1, Zenon DEF Cool, Replaces
    <2>3. v.granted = NoLease
      BY <2>1, Zenon
    <2> QED BY <1>0, <2>2, <2>3, OthersNotPassed
  <1>9. CASE PrepareOpen(c, r, p)
    <2>1. PICK v \in Process : v = [NoProcess EXCEPT !.at = "opening"] /\ v.granted = NoLease
      BY <1>1, ProcessAt, Zenon
    <2>2. Replaces(c, p.session, v)
      BY <1>9, <2>1, Zenon DEF PrepareOpen, Replaces
    <2>3. v.granted = NoLease
      BY <2>1, Zenon
    <2> QED BY <1>0, <2>2, <2>3, OthersNotPassed
  <1>10. CASE DiesWithin(c, r, p)
    <2>1. proc' = [proc EXCEPT ![c] = [t \in Sessions |-> NoProcess]]
      BY <1>10 DEF DiesWithin, Over
    <2>2. proc'[b][s] = proc[b][s] \/ proc'[b][s] = NoProcess
      <3> HIDE DEF Process
      <3> QED BY <1>0, <2>1 DEF LeaseTypes
    <2> QED BY <1>2, <2>2 DEF NotPassed
  <1>11. CASE Forget(c, r, p) \/ Deny(c, r, p)
    BY <1>3, <1>11 DEF Forget, Deny
  <1> QED BY <1>4, <1>5, <1>6, <1>7, <1>8, <1>9, <1>10, <1>11 DEF OwnerStep

LEMMA FlightPassesNothing ==
    ASSUME IInv, NEW c \in Boots, NEW r \in Requests, FlightStep(c, r),
           NEW b \in Boots, NEW s \in Sessions
    PROVE  NotPassed(b, s)
  <1>0. LeaseTypes /\ LeasesOK /\ MutationsOK
    BY TypesSplit DEF IInv
  <1> DEFINE t == flight[c][r].session
  <1>1. flight[c][r].kind # "none" => t \in Sessions
    <2>1. NoFlight.kind = "none"
      BY DEF NoFlight
    <2> QED BY <1>0, <2>1 DEF MutationsOK, TraceOK
  <1>2. NoProcess.granted = NoLease /\ now \in Nat /\ NoLease \in Grants
    BY <1>0, Nothings DEF LeaseTypes
  <1>3. CASE Deliver(c, r) \/ DriverAnswers(c, r)
    BY <1>3 DEF Deliver, DriverAnswers, NotPassed
  <1>4. ASSUME t \in Sessions, proc' = [proc EXCEPT ![c][t] = NoProcess]
        PROVE  NotPassed(b, s)
    <2>1. Replaces(c, t, NoProcess)
      BY <1>4 DEF Replaces
    <2> QED BY <1>0, <1>2, <1>4, <2>1, OthersNotPassed
  <1>5. ASSUME t \in Sessions, proc' = [proc EXCEPT ![c][t].away = FALSE]
        PROVE  NotPassed(b, s)
    <2>1. PICK v \in Process : /\ v = [proc[c][t] EXCEPT !.away = FALSE]
                               /\ v.granted = proc[c][t].granted
      BY <1>0, <1>5, SessionFacts, ProcessAway, Zenon
    <2>2. Replaces(c, t, v)
      BY <1>5, <2>1, Zenon DEF Replaces
    <2>3. v.granted = proc[c][t].granted
      BY <2>1, Zenon
    <2> QED BY <1>0, <1>5, <2>2, <2>3, OthersNotPassed
  <1>6. CASE FinishCommand(c, r)
    BY <1>1, <1>5, <1>6 DEF FinishCommand, Carries
  <1>7. CASE CommandFails(c, r)
    BY <1>1, <1>4, <1>5, <1>7 DEF CommandFails, Carries, AgentBack
  <1>8. CASE FinishCool(c, r) \/ OpenDenied(c, r) \/ OpenAbandoned(c, r)
    BY <1>1, <1>4, <1>8 DEF FinishCool, OpenDenied, OpenAbandoned, Released, Carries
  <1>9. CASE FinishOpen(c, r)
    <2> DEFINE l == [holder |-> who[r], token |-> tokens + 1, until |-> now + Lifetime,
                     stream |-> streams + 1]
               v == Opened(c, t, l)
    <2>1. t \in Sessions /\ Replaces(c, t, v)
      BY <1>1, <1>9 DEF FinishOpen, Carries, Replaces
    <2>2. v.stream = streams + 1
      BY DEF Opened, NoProcess
    <2>3. /\ proc[c][t].stream \in Nat /\ streams \in Nat
          /\ proc[c][t].stream <= streams
      BY <1>0, <2>1, SessionFacts DEF Agree, LeaseTypes
    <2> HIDE DEF v, t
    <2> QED BY <1>0, <2>1, <2>2, <2>3, OthersNotPassed
  <1> QED BY <1>3, <1>6, <1>7, <1>8, <1>9 DEF FlightStep

LEMMA SessionPassesNothing ==
    ASSUME IInv, NEW c \in Boots, NEW t \in Sessions, SessionStep(c, t),
           NEW b \in Boots, NEW s \in Sessions
    PROVE  NotPassed(b, s)
  <1>0. LeaseTypes /\ LeasesOK
    BY TypesSplit DEF IInv
  <1>1. NoProcess.granted = NoLease /\ now \in Nat
    BY <1>0, Nothings DEF LeaseTypes
  <1>2. CASE OpenedElsewhere(c, t)
    <2>1. NoLease \in Grants /\ streams < MaxStreams
      BY <1>0, <1>2, Nothings DEF OpenedElsewhere, LeaseTypes
    <2>2. Opened(c, t, NoLease).granted = NoLease
      BY <1>0, <2>1, OpenedFacts
    <2>3. Replaces(c, t, Opened(c, t, NoLease))
      BY <1>2 DEF OpenedElsewhere, Replaces
    <2> QED BY <1>0, <2>2, <2>3, OthersNotPassed
  <1>3. CASE TurnChanges(c, t)
    <2>1. PICK v \in Process : /\ v = [proc[c][t] EXCEPT !.running = ~@]
                               /\ v.granted = proc[c][t].granted
      BY <1>0, SessionFacts, ProcessRunning, Zenon
    <2>2. Replaces(c, t, v)
      BY <1>3, <2>1, Zenon DEF TurnChanges, Replaces
    <2>3. v.granted = proc[c][t].granted
      BY <2>1, Zenon
    <2> QED BY <1>0, <2>2, <2>3, OthersNotPassed
  <1>4. CASE Ends(c, t)
    <2>1. Replaces(c, t, NoProcess)
      BY <1>4 DEF Ends, Replaces
    <2> QED BY <1>0, <1>1, <2>1, OthersNotPassed
  <1> QED BY <1>2, <1>3, <1>4 DEF SessionStep

\* `acquire` gives control of a running process to another integration only after
\* a release, or when its lease has lapsed and its turn is over.
THEOREM ControlIsPassedFairly == Spec => ControlPassesFairly
  <1> DEFINE Fair == \A b \in Boots, s \in Sessions :
                LET old == proc[b][s].granted  new == proc'[b][s].granted IN
                /\ old # NoLease /\ new # NoLease /\ old.holder # new.holder
                /\ proc[b][s].stream = proc'[b][s].stream
                => old.until < now /\ ~proc[b][s].running
  <1>1. IInv /\ [Next]_vars => Fair
    <2> SUFFICES ASSUME IInv, [Next]_vars, NEW b \in Boots, NEW s \in Sessions,
                        proc[b][s].granted # NoLease, ~NotPassed(b, s)
                 PROVE  proc[b][s].granted.until < now /\ ~proc[b][s].running
      BY DEF NotPassed
    <2>1. CASE proc' = proc
      BY <2>1 DEF NotPassed
    <2>2. CASE \E c \in Boots : Ended(c)
      <3>1. PICK c \in Boots : proc' = [proc EXCEPT ![c] = [t \in Sessions |-> NoProcess]]
        BY <2>2 DEF Ended, Over
      <3>2. proc'[b][s] = proc[b][s] \/ proc'[b][s] = NoProcess
        <4> HIDE DEF Process
        <4>1. LeaseTypes
          BY TypesSplit DEF IInv
        <4> QED BY <3>1, <4>1 DEF LeaseTypes
      <3>3. NoProcess.granted = NoLease
        BY DEF NoProcess
      <3> QED BY <3>2, <3>3 DEF NotPassed
    <2>3. ASSUME NEW c \in Boots, NEW r \in Requests, FlightStep(c, r) \/ PurgeAlone(c, r)
          PROVE  FALSE
      BY <2>1, <2>3, FlightPassesNothing DEF PurgeAlone, NotPassed
    <2>4. ASSUME NEW c \in Boots, NEW t \in Sessions, SessionStep(c, t)
          PROVE  FALSE
      BY <2>4, SessionPassesNothing
    <2>5. CASE \E c \in Boots, r \in Requests, p \in Params : OwnerStep(c, r, p)
      BY <2>5, OwnerPassesFairly
    <2>6. CASE (\E c \in Boots : Start(c) \/ BeginDrain(c)) \/ Tick \/ UNCHANGED vars
      BY <2>1, <2>6 DEF Start, BeginDrain, Tick, vars
    <2> QED BY <2>2, <2>3, <2>4, <2>5, <2>6 DEF Next
  <1>2. IInv /\ [Next]_vars => [Fair]_vars
    BY <1>1
  <1> HIDE DEF Fair
  <1>3. Spec => [][Fair]_vars
    BY <1>2, ControlInvariant, PTL DEF Spec
  <1> QED BY <1>3 DEF Fair, ControlPassesFairly
===============================================================================
