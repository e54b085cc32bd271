---------------------------- MODULE IngressProofs ----------------------------
(* Theorems about Ingress, for any sources, bodies, requests and bounds. *)
EXTENDS Ingress, TLAPS

USE RegistryAssumption

Stages == {"idle", "arrived", "open", "verified", "stored", "answered", "done", "gone"}
Outcomes == {"none", "accepted", "duplicate", "rejected"}
Record == [at : Stages, path : {"webhook", "generic"}, source : Sources, provider : Sources,
           secret : Secrets \cup {NoSecret}, key : Keys \cup {NoKey},
           src : Rows \cup {None}, outcome : Outcomes]
Op == [id : Sources, edit : Edits, old : Rows \cup {None}]

\* A request that was answered has an outcome for its record.
Answered == \A q \in Requests : req[q].at = "answered" => req[q].outcome # "none"

LEMMA SeededType ==
    ASSUME NEW r \in [Sources -> Rows \cup {None}] PROVE Seeded(r) \in [Sources -> Rows \cup {None}]
  <1>1. CASE r[GitHub] = None /\ SeedSecret # NoSecret
    <2>1. [secret |-> SeedSecret, mode |-> "keyed", enabled |-> TRUE] \in Rows
      BY DEF Rows
    <2> QED
      BY <1>1, <2>1 DEF Seeded
  <1>2. CASE ~ (r[GitHub] = None /\ SeedSecret # NoSecret)
    BY <1>2 DEF Seeded
  <1> QED
    BY <1>1, <1>2

LEMMA MergedType ==
    ASSUME NEW edit \in Edits, NEW old \in Rows \cup {None} PROVE Merged(edit, old) \in Rows
  <1>1. PICK r \in Rows, F \in SUBSET Fields : edit = [f \in F |-> r[f]]
    OBVIOUS
  <1>2. /\ r["secret"] \in Secrets \cup {NoSecret}
        /\ r["mode"] \in {"none", "keyed", "other"}
        /\ r["enabled"] \in BOOLEAN
    BY DEF Rows
  <1>3. \A f \in Fields : Merged(edit, old)[f] =
            IF f \in F THEN r[f] ELSE IF old # None THEN old[f] ELSE Default(edit)[f]
    BY <1>1 DEF Merged
  <1>4. /\ Default(edit)["secret"] = NoSecret
        /\ Default(edit)["enabled"] = TRUE
        /\ Default(edit)["mode"] \in {"none", "keyed", "other"}
    BY DEF Default
  <1>5. old # None => /\ old["secret"] \in Secrets \cup {NoSecret}
                      /\ old["mode"] \in {"none", "keyed", "other"}
                      /\ old["enabled"] \in BOOLEAN
    BY DEF Rows
  <1>6. /\ Merged(edit, old)["secret"] \in Secrets \cup {NoSecret}
        /\ Merged(edit, old)["mode"] \in {"none", "keyed", "other"}
    BY <1>2, <1>3, <1>4, <1>5 DEF Fields
  <1>7. Merged(edit, old)["enabled"] \in BOOLEAN
    BY <1>2, <1>3, <1>4, <1>5 DEF Fields
  <1>8. Merged(edit, old) = [secret |-> Merged(edit, old)["secret"],
                             mode |-> Merged(edit, old)["mode"],
                             enabled |-> Merged(edit, old)["enabled"]]
    BY DEF Merged, Fields
  <1> QED
    BY <1>6, <1>7, <1>8 DEF Rows

LEMMA TypeInit == Init => TypeOK
  <1> SUFFICES ASSUME Init PROVE TypeOK
    OBVIOUS
  <1>1. row \in [Sources -> Rows \cup {None}]
    BY SeededType DEF Init
  <1>2. Idle \in Record
    BY DEF Idle, Record, Stages, Outcomes
  <1> QED
    BY <1>1, <1>2 DEF Init, TypeOK, Record, Stages, Outcomes

\* What closing, moving or opening a request does to it.
LEMMA Closing ==
    ASSUME req \in [Requests -> Record], NEW q \in Requests,
           NEW outcome \in Outcomes, Close(q, outcome)
    PROVE  /\ req' \in [Requests -> Record]
           /\ req'[q].at = "answered" /\ req'[q].outcome = outcome
           /\ \A p \in Requests : /\ p # q => req'[p] = req[p]
                                  /\ req'[p].path = req[p].path /\ req'[p].source = req[p].source
                                  /\ req'[p].provider = req[p].provider
                                  /\ req'[p].secret = req[p].secret /\ req'[p].key = req[p].key
                                  /\ req'[p].src = req[p].src
  <1> DEFINE r == [req[q] EXCEPT !.at = "answered", !.outcome = outcome]
  <1>1. req[q] \in Record
    OBVIOUS
  <1>2. /\ r \in Record /\ r.at = "answered" /\ r.outcome = outcome
        /\ r.path = req[q].path /\ r.source = req[q].source /\ r.provider = req[q].provider
        /\ r.secret = req[q].secret /\ r.key = req[q].key /\ r.src = req[q].src
    BY <1>1 DEF Record, Stages
  <1>3. req' = [req EXCEPT ![q] = r]
    BY DEF Close
  <1> HIDE DEF r
  <1>4. /\ req' \in [Requests -> Record] /\ req'[q] = r
        /\ \A p \in Requests : p # q => req'[p] = req[p]
    BY <1>2, <1>3
  <1> QED
    BY <1>2, <1>4

LEMMA Stepping ==
    ASSUME req \in [Requests -> Record], NEW q \in Requests,
           NEW from, NEW to \in Stages, Step(q, from, to)
    PROVE  /\ req' \in [Requests -> Record]
           /\ req[q].at = from /\ req'[q].at = to
           /\ \A p \in Requests : /\ p # q => req'[p] = req[p]
                                  /\ req'[p].path = req[p].path /\ req'[p].source = req[p].source
                                  /\ req'[p].provider = req[p].provider
                                  /\ req'[p].secret = req[p].secret /\ req'[p].key = req[p].key
                                  /\ req'[p].src = req[p].src
                                  /\ req'[p].outcome = req[p].outcome
  BY DEF Step, Record

\* A request whose source is open keeps the row it found there.
LEMMA Looking ==
    ASSUME req \in [Requests -> Record], row \in [Sources -> Rows \cup {None}],
           NEW q \in Requests, LookupSource(q), ~ Close(q, "rejected")
    PROVE  /\ req' \in [Requests -> Record]
           /\ Open(req[q].path, row[req[q].source])
           /\ req'[q].at = "open" /\ req'[q].src = row[req[q].source]
           /\ \A p \in Requests : /\ p # q => req'[p] = req[p]
                                  /\ req'[p].path = req[p].path /\ req'[p].source = req[p].source
                                  /\ req'[p].provider = req[p].provider
                                  /\ req'[p].secret = req[p].secret /\ req'[p].key = req[p].key
                                  /\ req'[p].outcome = req[p].outcome
  <1> DEFINE found == row[req[q].source]
             r == [req[q] EXCEPT !.at = "open", !.src = found]
  <1>1. req[q] \in Record /\ found \in Rows \cup {None}
    BY DEF Record
  <1>2. /\ r \in Record /\ r.at = "open" /\ r.src = found /\ r.outcome = req[q].outcome
        /\ r.path = req[q].path /\ r.source = req[q].source /\ r.provider = req[q].provider
        /\ r.secret = req[q].secret /\ r.key = req[q].key
    BY <1>1 DEF Record, Stages
  <1>3. Open(req[q].path, found) /\ req' = [req EXCEPT ![q] = r]
    BY DEF LookupSource
  <1> HIDE DEF r
  <1>4. /\ req' \in [Requests -> Record] /\ req'[q] = r
        /\ \A p \in Requests : p # q => req'[p] = req[p]
    BY <1>2, <1>3
  <1> QED
    BY <1>2, <1>3, <1>4

LEMMA Watching ==
    ASSUME seen \in [Requests -> SUBSET (Rows \cup {None})],
           req \in [Requests -> Record], row' \in [Sources -> Rows \cup {None}], Watch
    PROVE  /\ seen' \in [Requests -> SUBSET (Rows \cup {None})]
           /\ \A q \in Requests : /\ seen[q] \subseteq seen'[q]
                                  /\ UnderWay(q) => row'[req[q].source] \in seen'[q]
  BY DEF Watch, Record

\* What the registry and the requests are typed by, without the counters.
LEMMA TypeFacts ==
    ASSUME TypeOK
    PROVE  /\ row \in [Sources -> Rows \cup {None}]
           /\ op \in [Admins -> {None} \cup Op]
           /\ req \in [Requests -> Record]
           /\ seen \in [Requests -> SUBSET (Rows \cup {None})]
  BY DEF TypeOK, Op, Record, Stages, Outcomes

LEMMA FaultType ==
    ASSUME TypeOK, Fault PROVE faults' \in 0..MaxFaults /\ crashes' \in 0..MaxCrashes
  BY DEF Fault, TypeOK

LEMMA EditType ==
    ASSUME TypeOK, edits < MaxEdits, edits' = edits + 1 PROVE edits' \in 0..MaxEdits
  BY DEF TypeOK

LEMMA TypeGetSource ==
    ASSUME TypeOK, NEW a \in Admins, NEW id \in Sources, NEW edit \in Edits,
           GetSource(a, id, edit)
    PROVE  TypeOK'
  <1>1. edits' \in 0..MaxEdits
    BY EditType DEF GetSource
  <1>2. faults' \in 0..MaxFaults /\ crashes' \in 0..MaxCrashes
    BY FaultType DEF GetSource, TypeOK, boundVars
  <1>3. op' \in [Admins -> {None} \cup Op]
    <2>1. PICK old \in Rows \cup {None} :
              op' = [op EXCEPT ![a] = [id |-> id, edit |-> edit, old |-> old]]
      BY TypeFacts DEF GetSource
    <2>2. [id |-> id, edit |-> edit, old |-> old] \in Op
      BY DEF Op
    <2> QED
      BY <2>1, <2>2, TypeFacts
  <1> QED
    BY <1>1, <1>2, <1>3 DEF GetSource, TypeOK, Op

LEMMA TypeUpsert ==
    ASSUME TypeOK, NEW a \in Admins, UpsertSource(a) \/ UpsertFails(a)
    PROVE  TypeOK'
  <1>1. op[a] # None
    BY DEF UpsertSource, UpsertFails
  <1>2. op[a] \in Op
    BY <1>1, TypeFacts
  <1>3. op[a].id \in Sources /\ op[a].edit \in Edits /\ op[a].old \in Rows \cup {None}
    BY <1>2 DEF Op
  <1>4. op' \in [Admins -> {None} \cup Op]
    BY TypeFacts DEF UpsertSource, UpsertFails
  <1>5. CASE UpsertSource(a)
    <2>1. Merged(op[a].edit, op[a].old) \in Rows
      BY <1>3, MergedType
    <2>2. row' \in [Sources -> Rows \cup {None}] /\ row'[op[a].id] \in Rows
      BY <1>3, <1>5, <2>1, TypeFacts DEF UpsertSource
    <2>3. written' \in [Sources -> Rows \cup {None}]
      BY <1>3, <1>5, <2>2 DEF UpsertSource, TypeOK
    <2>4. seen' \in [Requests -> SUBSET (Rows \cup {None})]
      BY <1>5, <2>2, TypeFacts, Watching DEF UpsertSource
    <2> QED
      BY <1>4, <1>5, <2>2, <2>3, <2>4 DEF UpsertSource, TypeOK, boundVars, Op
  <1>6. CASE UpsertFails(a)
    BY <1>4, <1>6, FaultType DEF UpsertFails, TypeOK, Op
  <1> QED
    BY <1>5, <1>6

LEMMA TypeDelete ==
    ASSUME TypeOK, NEW id \in Sources, DeleteSource(id) PROVE TypeOK'
  <1>1. row' \in [Sources -> Rows \cup {None}]
    BY TypeFacts DEF DeleteSource
  <1>2. seen' \in [Requests -> SUBSET (Rows \cup {None})]
    BY <1>1, TypeFacts, Watching DEF DeleteSource
  <1>3. edits' \in 0..MaxEdits
    BY EditType DEF DeleteSource
  <1>4. written' \in [Sources -> Rows \cup {None}]
    BY DEF DeleteSource, TypeOK
  <1> QED
    BY <1>1, <1>2, <1>3, <1>4 DEF DeleteSource, TypeOK, boundVars

LEMMA TypeHandle ==
    ASSUME TypeOK, Answered, NEW q \in Requests, Handle(q) PROVE TypeOK'
  <1> DEFINE Kept == /\ UNCHANGED <<row, op, edits, written>>
                     /\ faults' \in 0..MaxFaults /\ crashes' \in 0..MaxCrashes
             Rest == /\ seen' \in [Requests -> SUBSET (Rows \cup {None})]
                     /\ stored' \subseteq Requests
                     /\ audit' \subseteq [by : Requests, outcome : Outcomes \ {"none"}]
  <1>0. /\ req \in [Requests -> Record] /\ row \in [Sources -> Rows \cup {None}]
        /\ \A o \in Outcomes : Close(q, o) => req' \in [Requests -> Record]
        /\ \A to \in Stages, from \in Stages : Step(q, from, to) => req' \in [Requests -> Record]
    <2>1. req \in [Requests -> Record] /\ row \in [Sources -> Rows \cup {None}]
      BY TypeFacts
    <2> QED
      BY <2>1, Closing, Stepping
  <1>1. Kept
    BY FaultType DEF Handle, Arrive, LookupSource, Verify, BadRequest, Append, Publish,
                     StoreFails, EmitIngress, opVars, boundVars, TypeOK
  <1>2. CASE \E call \in Calls : Arrive(q, call)
    <2>1. PICK call \in Calls : Arrive(q, call)
      BY <1>2
    <2>2. /\ call.path \in {"webhook", "generic"}
          /\ call.source \in Sources /\ call.provider \in Sources
          /\ call.secret \in Secrets \cup {NoSecret} /\ call.key \in Keys \cup {NoKey}
      OBVIOUS
    <2>3. [Idle EXCEPT !.at = "arrived", !.path = call.path, !.source = call.source,
                       !.provider = call.provider, !.secret = call.secret, !.key = call.key]
              \in Record
      BY <2>2 DEF Idle, Record, Stages, Outcomes
    <2>4. req' \in [Requests -> Record]
      BY <2>1, <2>3, TypeFacts DEF Arrive
    <2>5. Rest
      BY <2>1, <2>2, TypeFacts DEF Arrive, TypeOK, Outcomes
    <2> QED
      BY <1>1, <2>4, <2>5 DEF TypeOK, Record, Stages, Outcomes
  <1>3. CASE LookupSource(q)
    <2>1. req' \in [Requests -> Record]
      <3>1. CASE Close(q, "rejected")
        BY <1>0, <3>1 DEF Outcomes
      <3>2. CASE ~ Close(q, "rejected")
        BY <1>0, <1>3, <3>2, Looking
      <3> QED
        BY <3>1, <3>2
    <2> QED
      BY <1>1, <1>3, <2>1 DEF LookupSource, TypeOK, Record, Stages, Outcomes
  <1>4. CASE \/ Verify(q) \/ BadRequest(q) \/ Append(q) \/ Publish(q) \/ StoreFails(q)
    <2>1. req' \in [Requests -> Record]
      BY <1>0, <1>4 DEF Verify, BadRequest, Append, Publish, StoreFails, Outcomes, Stages
    <2>2. Rest
      BY <1>4 DEF Verify, BadRequest, Append, Publish, StoreFails, TypeOK, Outcomes
    <2> QED
      BY <1>1, <2>1, <2>2 DEF TypeOK, Record, Stages, Outcomes
  <1>5. CASE EmitIngress(q)
    <2>1. req' \in [Requests -> Record]
      BY <1>0, <1>5 DEF EmitIngress, Stages
    <2>2. req[q].outcome \in Outcomes \ {"none"}
      BY <1>0, <1>5 DEF EmitIngress, Step, Answered, Record
    <2>3. Rest
      BY <1>5, <2>2 DEF EmitIngress, TypeOK, Outcomes
    <2> QED
      BY <1>1, <2>1, <2>3 DEF TypeOK, Record, Stages, Outcomes
  <1> QED
    BY <1>2, <1>3, <1>4, <1>5 DEF Handle

-----------------------------------------------------------------------------
(* The inductive invariant: what a request has seen and left, stage by      *)
(* stage.                                                                   *)

LetIn(q) == \E v \in seen[q] : /\ v # None
                               /\ v.enabled \/ req[q].path = "webhook"
                               /\ Admits(v, req[q].path, req[q].secret)

\* What the request saw of the registry.
Watched(q) ==
    /\ UnderWay(q) => row[req[q].source] \in seen[q]
    /\ req[q].at = "open" => /\ req[q].src \in seen[q] /\ req[q].src # None
                             /\ req[q].src.enabled \/ req[q].path = "webhook"
    /\ req[q].at = "verified" \/ q \in stored \/ req[q].outcome = "duplicate" => LetIn(q)

\* What it left in the log, and what its record says of that.
Left(q) ==
    /\ req[q].at \in {"idle", "arrived", "open", "verified"} => q \notin stored
    /\ req[q].at \in {"idle", "arrived", "open", "verified", "stored"} => req[q].outcome = "none"
    /\ req[q].at = "stored" => q \in stored
    /\ req[q].outcome = "accepted" => q \in stored
    /\ req[q].outcome = "duplicate" => q \notin stored /\ SameKey(q) # {}
    /\ req[q].outcome = "rejected" /\ faults = 0 => q \notin stored

Logged == \A line \in audit : /\ req[line.by].at = "done"
                              /\ req[line.by].outcome = line.outcome

IInv == /\ TypeOK /\ Answered /\ Logged
        /\ \A q \in Requests : Watched(q) /\ Left(q)

\* A key that was taken stays taken: a stored request keeps its provider and key.
LEMMA KeyStaysTaken ==
    ASSUME IInv, NEW p \in Requests, SameKey(p) # {}, stored \subseteq stored',
           req'[p].provider = req[p].provider, req'[p].key = req[p].key,
           \A r \in Requests : req[r].at # "idle" =>
               req'[r].provider = req[r].provider /\ req'[r].key = req[r].key
    PROVE  SameKey(p)' # {}
  <1>1. PICK r \in stored : /\ req[r].provider = req[p].provider
                            /\ req[r].key = req[p].key /\ req[p].key # NoKey
    BY DEF SameKey
  <1>2. r \in Requests /\ req[r].at # "idle"
    BY DEF IInv, TypeOK, Left
  <1>3. r \in SameKey(p)'
    BY <1>1, <1>2 DEF SameKey
  <1> QED
    BY <1>3

\* The requests a step does not touch.
LEMMA Elsewhere ==
    ASSUME IInv, NEW p \in Requests, req'[p] = req[p],
           stored \subseteq stored', p \in stored' => p \in stored,
           seen[p] \subseteq seen'[p], UnderWay(p) => row'[req[p].source] \in seen'[p],
           faults' = faults \/ faults' # 0,
           \A r \in Requests : req[r].at # "idle" =>
               req'[r].provider = req[r].provider /\ req'[r].key = req[r].key
    PROVE  Watched(p)' /\ Left(p)'
  <1>1. Watched(p) /\ Left(p)
    BY DEF IInv
  <1>2. LetIn(p) => LetIn(p)'
    BY DEF LetIn
  <1>3. Watched(p)'
    BY <1>1, <1>2 DEF Watched, UnderWay
  <1>4. SameKey(p) # {} => SameKey(p)' # {}
    BY KeyStaysTaken
  <1>5. Left(p)'
    BY <1>1, <1>4 DEF Left
  <1> QED
    BY <1>3, <1>5

\* The requests of producers while operators edit the registry.
LEMMA Editing ==
    ASSUME IInv, TypeOK', UNCHANGED <<req, stored, audit>>, faults' = faults \/ faults' # 0,
           \A p \in Requests : /\ seen[p] \subseteq seen'[p]
                               /\ UnderWay(p) => row'[req[p].source] \in seen'[p]
    PROVE  IInv'
  <1>1. \A p \in Requests : Watched(p)' /\ Left(p)'
    BY Elsewhere
  <1>2. Answered' /\ Logged'
    BY DEF IInv, Answered, Logged
  <1> QED
    BY <1>1, <1>2 DEF IInv

\* A request is answered.
LEMMA Closed ==
    ASSUME IInv, TypeOK', NEW q \in Requests, NEW outcome \in Outcomes \ {"none"},
           Close(q, outcome), UNCHANGED <<row, stored, audit, seen>>,
           UnderWay(q), faults' = faults \/ faults' # 0, req[q].at # "answered",
           outcome = "accepted" => q \in stored,
           outcome = "duplicate" => q \notin stored /\ SameKey(q) # {} /\ LetIn(q),
           outcome = "rejected" /\ faults' = 0 => q \notin stored
    PROVE  IInv'
  <1>0. /\ req \in [Requests -> Record] /\ seen \in [Requests -> SUBSET (Rows \cup {None})]
        /\ \A line \in audit : line.by \in Requests
    BY TypeFacts DEF IInv, TypeOK
  <1>1. /\ req'[q].at = "answered" /\ req'[q].outcome = outcome
        /\ \A p \in Requests : /\ p # q => req'[p] = req[p]
                               /\ req'[p].path = req[p].path /\ req'[p].source = req[p].source
                               /\ req'[p].provider = req[p].provider
                               /\ req'[p].secret = req[p].secret /\ req'[p].key = req[p].key
    BY <1>0, Closing
  <1>2. Watched(q) /\ Left(q)
    BY DEF IInv
  <1>3. \A p \in Requests : p # q => Watched(p)' /\ Left(p)'
    <2> SUFFICES ASSUME NEW p \in Requests, p # q PROVE Watched(p)' /\ Left(p)'
      OBVIOUS
    <2>1. UnderWay(p) => row[req[p].source] \in seen[p]
      BY DEF IInv, Watched
    <2> QED
      BY <1>1, <2>1, Elsewhere
  <1>4. Watched(q)'
    <2>1. LetIn(q) => LetIn(q)'
      BY <1>1 DEF LetIn
    <2> QED
      BY <1>1, <1>2, <2>1 DEF Watched, UnderWay
  <1>5. SameKey(q) # {} => SameKey(q)' # {}
    BY <1>1, KeyStaysTaken
  <1>6. Left(q)'
    BY <1>1, <1>2, <1>5 DEF Left
  <1>7. Answered'
    BY <1>1 DEF IInv, Answered
  <1>8. Logged'
    BY <1>0, <1>1 DEF IInv, Logged, UnderWay
  <1> QED
    BY <1>3, <1>4, <1>6, <1>7, <1>8 DEF IInv

\* A request moves on without being answered: the row it looked up and its
\* fields stay as they are, and at most its own event is stored.
LEMMA MovedOn ==
    ASSUME IInv, TypeOK', NEW q \in Requests,
           \A p \in Requests : p # q => req'[p] = req[p] /\ seen'[p] = seen[p],
           req[q].at # "idle" =>
               req'[q].provider = req[q].provider /\ req'[q].key = req[q].key,
           req'[q].at # "answered", req[q].at # "done",
           stored \subseteq stored', stored' \subseteq stored \cup {q},
           UNCHANGED <<row, audit, faults>>, Watched(q)', Left(q)'
    PROVE  IInv'
  <1>1. \A p \in Requests : p # q => Watched(p)' /\ Left(p)'
    <2> SUFFICES ASSUME NEW p \in Requests, p # q PROVE Watched(p)' /\ Left(p)'
      OBVIOUS
    <2>1. UnderWay(p) => row[req[p].source] \in seen[p]
      BY DEF IInv, Watched
    <2>2. \A r \in Requests : req[r].at # "idle" =>
              req'[r].provider = req[r].provider /\ req'[r].key = req[r].key
      OBVIOUS
    <2> QED
      BY <2>1, <2>2, Elsewhere
  <1>2. Answered'
    BY DEF IInv, Answered
  <1>3. \A line \in audit : line.by \in Requests
    BY DEF IInv, TypeOK
  <1>4. Logged'
    BY <1>3 DEF IInv, Logged
  <1> QED
    BY <1>1, <1>2, <1>4 DEF IInv

LEMMA ArriveStep ==
    ASSUME IInv, TypeOK', NEW q \in Requests, NEW call \in Calls, Arrive(q, call) PROVE IInv'
  <1>1. /\ req'[q].at = "arrived" /\ req'[q].source = call.source /\ req'[q].outcome = "none"
        /\ \A p \in Requests : p # q => req'[p] = req[p] /\ seen'[p] = seen[p]
        /\ row[call.source] \in seen'[q] /\ req[q].at = "idle"
    BY TypeFacts DEF Arrive, Idle, IInv
  <1>2. q \notin stored
    BY <1>1 DEF IInv, Left
  <1>3. Watched(q)' /\ Left(q)'
    BY <1>1, <1>2 DEF Arrive, Watched, Left, UnderWay
  <1> QED
    BY <1>1, <1>3, MovedOn DEF Arrive, boundVars

LEMMA LookupStep ==
    ASSUME IInv, TypeOK', NEW q \in Requests, LookupSource(q) PROVE IInv'
  <1>1. Watched(q) /\ Left(q) /\ req[q].at = "arrived" /\ UnderWay(q)
    BY DEF IInv, LookupSource, UnderWay
  <1>2. CASE Close(q, "rejected")
    BY <1>1, <1>2, Closed DEF LookupSource, Left, Outcomes, boundVars
  <1>3. CASE ~ Close(q, "rejected")
    <2>1. /\ Open(req[q].path, row[req[q].source])
          /\ req'[q].at = "open" /\ req'[q].src = row[req[q].source]
          /\ \A p \in Requests : p # q => req'[p] = req[p]
          /\ req'[q].path = req[q].path /\ req'[q].source = req[q].source
          /\ req'[q].provider = req[q].provider /\ req'[q].key = req[q].key
          /\ req'[q].outcome = req[q].outcome
      BY <1>3, Looking, TypeFacts DEF IInv
    <2>2. req[q].path \in {"webhook", "generic"}
      BY DEF IInv, TypeOK
    <2>3. Watched(q)'
      BY <1>1, <2>1, <2>2 DEF Watched, Left, Open, UnderWay, LookupSource
    <2>4. Left(q)'
      BY <1>1, <2>1 DEF Left, LookupSource
    <2> QED
      BY <1>1, <2>1, <2>3, <2>4, MovedOn DEF LookupSource, boundVars
  <1> QED
    BY <1>2, <1>3

LEMMA VerifyStep ==
    ASSUME IInv, TypeOK', NEW q \in Requests, Verify(q) PROVE IInv'
  <1>1. Watched(q) /\ Left(q) /\ req[q].at = "open" /\ UnderWay(q)
    BY DEF IInv, Verify, UnderWay
  <1>2. CASE Close(q, "rejected")
    BY <1>1, <1>2, Closed DEF Verify, Left, Outcomes, boundVars
  <1>3. CASE Verified(q) /\ Step(q, "open", "verified")
    <2>1. /\ req'[q].at = "verified"
          /\ \A p \in Requests : p # q => req'[p] = req[p]
          /\ req'[q].path = req[q].path /\ req'[q].source = req[q].source
          /\ req'[q].provider = req[q].provider /\ req'[q].key = req[q].key
          /\ req'[q].secret = req[q].secret /\ req'[q].outcome = req[q].outcome
      <3>1. req \in [Requests -> Record] /\ "verified" \in Stages
        BY TypeFacts DEF IInv, Stages
      <3> QED
        BY <1>3, <3>1, Stepping
    <2>2. LetIn(q)'
      BY <1>1, <1>3, <2>1 DEF Verify, Verified, Watched, LetIn
    <2>3. Watched(q)' /\ Left(q)'
      BY <1>1, <2>1, <2>2 DEF Verify, Watched, Left, UnderWay
    <2> QED
      BY <1>1, <2>1, <2>3, MovedOn DEF Verify, boundVars
  <1> QED
    BY <1>2, <1>3 DEF Verify

LEMMA AppendStep ==
    ASSUME IInv, TypeOK', NEW q \in Requests, Append(q) PROVE IInv'
  <1>1. Watched(q) /\ Left(q) /\ req[q].at = "verified" /\ UnderWay(q) /\ LetIn(q)
    BY DEF IInv, Append, UnderWay, Watched
  <1>2. CASE SameKey(q) # {} /\ Close(q, "duplicate") /\ UNCHANGED stored
    BY <1>1, <1>2, Closed DEF Append, Left, Outcomes, boundVars
  <1>3. CASE Step(q, "verified", "stored") /\ stored' = stored \cup {q}
    <2>1. /\ req'[q].at = "stored"
          /\ \A p \in Requests : p # q => req'[p] = req[p]
          /\ req'[q].path = req[q].path /\ req'[q].source = req[q].source
          /\ req'[q].provider = req[q].provider /\ req'[q].key = req[q].key
          /\ req'[q].secret = req[q].secret /\ req'[q].outcome = req[q].outcome
      <3>1. req \in [Requests -> Record] /\ "stored" \in Stages
        BY TypeFacts DEF IInv, Stages
      <3> QED
        BY <1>3, <3>1, Stepping
    <2>2. LetIn(q)'
      BY <1>1, <2>1 DEF Append, LetIn
    <2>3. Watched(q)' /\ Left(q)'
      BY <1>1, <1>3, <2>1, <2>2 DEF Append, Watched, Left, UnderWay
    <2> QED
      BY <1>1, <1>3, <2>1, <2>3, MovedOn DEF Append, boundVars
  <1> QED
    BY <1>2, <1>3 DEF Append

LEMMA AnswerStep ==
    ASSUME IInv, TypeOK', NEW q \in Requests, BadRequest(q) \/ Publish(q) \/ StoreFails(q)
    PROVE  IInv'
  <1>1. Watched(q) /\ Left(q)
    BY DEF IInv
  <1>2. CASE BadRequest(q)
    BY <1>1, <1>2, Closed DEF BadRequest, Left, Outcomes, UnderWay, boundVars
  <1>3. CASE Publish(q)
    BY <1>1, <1>3, Closed DEF Publish, Left, Outcomes, UnderWay, boundVars
  <1>4. CASE StoreFails(q)
    <2>1. faults' # 0
      BY <1>4 DEF StoreFails, Fault, IInv, TypeOK
    <2> QED
      BY <1>1, <1>4, <2>1, Closed DEF StoreFails, Outcomes, UnderWay
  <1> QED
    BY <1>2, <1>3, <1>4

LEMMA EmitStep ==
    ASSUME IInv, TypeOK', NEW q \in Requests, EmitIngress(q) PROVE IInv'
  <1>0. /\ req \in [Requests -> Record] /\ "done" \in Stages
        /\ \A line \in audit : line.by \in Requests
    BY TypeFacts DEF IInv, TypeOK, Stages
  <1>1. /\ req[q].at = "answered" /\ req'[q].at = "done"
        /\ \A p \in Requests : /\ p # q => req'[p] = req[p]
                               /\ req'[p].path = req[p].path /\ req'[p].source = req[p].source
                               /\ req'[p].provider = req[p].provider
                               /\ req'[p].secret = req[p].secret /\ req'[p].key = req[p].key
                               /\ req'[p].outcome = req[p].outcome
    BY <1>0, Stepping DEF EmitIngress
  <1>2. Watched(q) /\ Left(q)
    BY DEF IInv
  <1>3. \A p \in Requests : p # q => Watched(p)' /\ Left(p)'
    <2> SUFFICES ASSUME NEW p \in Requests, p # q PROVE Watched(p)' /\ Left(p)'
      OBVIOUS
    <2>1. UnderWay(p) => row[req[p].source] \in seen[p]
      BY DEF IInv, Watched
    <2> QED
      BY <1>1, <2>1, Elsewhere DEF EmitIngress, boundVars
  <1>4. LetIn(q) => LetIn(q)'
    BY <1>1 DEF LetIn, EmitIngress
  <1>5. SameKey(q) # {} => SameKey(q)' # {}
    BY <1>1, KeyStaysTaken DEF EmitIngress
  <1>6. Watched(q)' /\ Left(q)'
    BY <1>1, <1>2, <1>4, <1>5 DEF Watched, Left, UnderWay, EmitIngress, boundVars
  <1>7. Answered'
    BY <1>1 DEF IInv, Answered
  <1>8. Logged'
    BY <1>0, <1>1 DEF IInv, Logged, EmitIngress
  <1> QED
    BY <1>3, <1>6, <1>7, <1>8 DEF IInv

LEMMA RestartType ==
    ASSUME TypeOK, Restart PROVE TypeOK'
  <1>1. row' \in [Sources -> Rows \cup {None}]
    BY SeededType, TypeFacts DEF Restart, SeedSources
  <1>2. \A q \in Requests : [req[q] EXCEPT !.at = "gone"] \in Record
    BY TypeFacts DEF Record, Stages
  <1>3. req' \in [Requests -> Record]
    BY <1>2, TypeFacts DEF Restart
  <1> QED
    BY <1>1, <1>3 DEF Restart, TypeOK, Record, Stages, Outcomes

LEMMA RestartStep ==
    ASSUME IInv, TypeOK', Restart PROVE IInv'
  <1>0. req \in [Requests -> Record] /\ \A line \in audit : line.by \in Requests
    BY TypeFacts DEF IInv, TypeOK
  <1>1. \A p \in Requests : /\ ~ UnderWay(p) => req'[p] = req[p]
                            /\ UnderWay(p) => req'[p].at = "gone"
                            /\ req'[p].path = req[p].path /\ req'[p].source = req[p].source
                            /\ req'[p].provider = req[p].provider
                            /\ req'[p].secret = req[p].secret /\ req'[p].key = req[p].key
                            /\ req'[p].outcome = req[p].outcome
    BY <1>0 DEF Restart, Record
  <1>2. \A p \in Requests : Watched(p)' /\ Left(p)'
    <2> SUFFICES ASSUME NEW p \in Requests PROVE Watched(p)' /\ Left(p)'
      OBVIOUS
    <2>1. Watched(p) /\ Left(p)
      BY DEF IInv
    <2>2. LetIn(p) => LetIn(p)'
      BY <1>1 DEF LetIn, Restart
    <2>3. SameKey(p) # {} => SameKey(p)' # {}
      BY <1>1, KeyStaysTaken DEF Restart
    <2>4. req'[p].at \in {"idle", "done", "gone"} /\ (req'[p].at = "idle" => req[p].at = "idle")
      BY <1>1 DEF UnderWay
    <2>5. Watched(p)'
      BY <1>1, <2>1, <2>2, <2>4 DEF Watched, UnderWay, Restart
    <2>6. Left(p)'
      BY <1>1, <2>1, <2>3, <2>4 DEF Left, Restart
    <2> QED
      BY <2>5, <2>6
  <1>3. Answered'
    BY <1>1 DEF IInv, Answered, UnderWay
  <1>4. Logged'
    BY <1>0, <1>1 DEF IInv, Logged, UnderWay, Restart
  <1> QED
    BY <1>2, <1>3, <1>4 DEF IInv

LEMMA Initially == Init => IInv
  <1> SUFFICES ASSUME Init PROVE IInv
    OBVIOUS
  <1>1. \A q \in Requests : req[q] = Idle
    BY DEF Init
  <1>2. Answered /\ Logged
    BY <1>1 DEF Answered, Logged, Idle, Init
  <1>3. \A q \in Requests : Watched(q) /\ Left(q)
    BY <1>1 DEF Watched, Left, UnderWay, Idle, Init
  <1> QED
    BY <1>2, <1>3, TypeInit DEF IInv

LEMMA TypeStep == IInv /\ [Next]_vars => TypeOK'
  <1> SUFFICES ASSUME IInv, [Next]_vars PROVE TypeOK'
    OBVIOUS
  <1>1. TypeOK /\ Answered
    BY DEF IInv
  <1>2. CASE \E a \in Admins, id \in Sources, edit \in Edits : GetSource(a, id, edit)
    BY <1>1, <1>2, TypeGetSource
  <1>3. CASE \E a \in Admins : UpsertSource(a) \/ UpsertFails(a)
    BY <1>1, <1>3, TypeUpsert
  <1>4. CASE \E id \in Sources : DeleteSource(id)
    BY <1>1, <1>4, TypeDelete
  <1>5. CASE \E q \in Requests : Handle(q)
    BY <1>1, <1>5, TypeHandle
  <1>6. CASE Restart
    BY <1>1, <1>6, RestartType
  <1>7. CASE UNCHANGED vars
    BY <1>1, <1>7 DEF vars, TypeOK
  <1> QED
    BY <1>2, <1>3, <1>4, <1>5, <1>6, <1>7 DEF Next

LEMMA InvStep == IInv /\ [Next]_vars => IInv'
  <1> SUFFICES ASSUME IInv, [Next]_vars PROVE IInv'
    OBVIOUS
  <1>1. TypeOK'
    BY TypeStep
  <1>2. \A q \in Requests : UnderWay(q) => row[req[q].source] \in seen[q]
    BY DEF IInv, Watched
  <1>3. CASE UNCHANGED vars
    BY <1>1, <1>2, <1>3, Editing DEF vars
  <1>4. CASE \E a \in Admins, id \in Sources, edit \in Edits : GetSource(a, id, edit)
    <2>1. UNCHANGED <<row, req, stored, audit, seen>>
      BY <1>4 DEF GetSource
    <2>2. faults' = faults \/ faults' # 0
      BY <1>4 DEF GetSource, Fault, boundVars, IInv, TypeOK
    <2> QED
      BY <1>1, <1>2, <2>1, <2>2, Editing
  <1>5. CASE \E a \in Admins : UpsertSource(a) \/ UpsertFails(a)
    <2>1. PICK a \in Admins : UpsertSource(a) \/ UpsertFails(a)
      BY <1>5
    <2>2. UNCHANGED <<req, stored, audit>>
      BY <2>1 DEF UpsertSource, UpsertFails
    <2>3. faults' = faults \/ faults' # 0
      BY <2>1 DEF UpsertSource, UpsertFails, Fault, boundVars, IInv, TypeOK
    <2>4. Watch \/ UNCHANGED <<row, seen>>
      BY <2>1 DEF UpsertSource, UpsertFails
    <2>5. \A p \in Requests : /\ seen[p] \subseteq seen'[p]
                              /\ UnderWay(p) => row'[req[p].source] \in seen'[p]
      BY <1>1, <1>2, <2>4, Watching, TypeFacts DEF IInv, TypeOK
    <2> QED
      BY <1>1, <2>2, <2>3, <2>5, Editing
  <1>6. CASE \E id \in Sources : DeleteSource(id)
    <2>1. Watch /\ UNCHANGED <<req, stored, audit, faults>>
      BY <1>6 DEF DeleteSource, boundVars
    <2>2. \A p \in Requests : /\ seen[p] \subseteq seen'[p]
                              /\ UnderWay(p) => row'[req[p].source] \in seen'[p]
      BY <1>1, <2>1, Watching, TypeFacts DEF IInv, TypeOK
    <2> QED
      BY <1>1, <2>1, <2>2, Editing
  <1>7. CASE \E q \in Requests : Handle(q)
    BY <1>1, <1>7, ArriveStep, LookupStep, VerifyStep, AppendStep, AnswerStep, EmitStep
       DEF Handle
  <1>8. CASE Restart
    BY <1>1, <1>8, RestartStep
  <1> QED
    BY <1>3, <1>4, <1>5, <1>6, <1>7, <1>8 DEF Next

-----------------------------------------------------------------------------
(* The theorems.                                                            *)

\* Whatever operators edit, whatever call fails and wherever the process is
\* restarted, each request is at a stage its seen and stored facts explain.
THEOREM StagesExplained == Spec => []IInv
  BY Initially, InvStep, PTL DEF Spec

\* The registry, the requests and the audit log keep their types.
THEOREM TypeCorrect == Spec => []TypeOK
  <1>1. IInv => TypeOK
    BY DEF IInv
  <1> QED
    BY <1>1, StagesExplained, PTL

\* An event is stored, or found stored, only for a request that one version of
\* its source's row, current during the request, lets in.
THEOREM AdmissionIsConsistent == Spec => []AdmittedByTheRegistry
  <1>1. IInv => AdmittedByTheRegistry
    BY DEF IInv, Watched, LetIn, AdmittedByTheRegistry
  <1> QED
    BY <1>1, StagesExplained, PTL

\* The ingress log's lines say what became of their requests.
THEOREM AuditIsTrue == Spec => []AuditTellsTheTruth
  <1>1. IInv => AuditTellsTheTruth
    <2> SUFFICES ASSUME IInv, NEW line \in audit
                 PROVE  /\ line.outcome = "accepted" => line.by \in stored
                        /\ line.outcome = "duplicate" =>
                               line.by \notin stored /\ SameKey(line.by) # {}
                        /\ line.outcome = "rejected" /\ faults = 0 => line.by \notin stored
      BY DEF AuditTellsTheTruth
    <2>1. line.by \in Requests /\ req[line.by].outcome = line.outcome
      BY DEF IInv, TypeOK, Logged
    <2> QED
      BY <2>1 DEF IInv, Left
  <1> QED
    BY <1>1, StagesExplained, PTL

\* A start of the process leaves every edited row as the operator wrote it.
THEOREM EditsSurviveRestarts == Spec => []EditSurvives
  <1>1. Init => EditSurvives
    BY DEF Init, EditSurvives
  <1>2. TypeOK /\ EditSurvives /\ [Next]_vars => EditSurvives'
    <2> SUFFICES ASSUME TypeOK, EditSurvives, [Next]_vars PROVE EditSurvives'
      OBVIOUS
    <2>1. CASE \E a \in Admins : UpsertSource(a)
      <3>1. PICK a \in Admins : UpsertSource(a)
        BY <2>1
      <3>2. op[a].id \in Sources
        BY <3>1, TypeFacts DEF UpsertSource, Op
      <3> QED
        BY <3>1, <3>2 DEF UpsertSource, TypeOK, EditSurvives
    <2>2. CASE \E id \in Sources : DeleteSource(id)
      BY <2>2 DEF DeleteSource, TypeOK, EditSurvives
    <2>3. CASE Restart
      BY <2>3 DEF Restart, SeedSources, Seeded, TypeOK, EditSurvives
    <2>4. CASE UNCHANGED <<row, written>>
      BY <2>4 DEF EditSurvives
    <2>5. [Next]_vars => \/ \E a \in Admins : UpsertSource(a)
                         \/ \E id \in Sources : DeleteSource(id)
                         \/ Restart
                         \/ UNCHANGED <<row, written>>
      BY DEF Next, Handle, GetSource, UpsertFails, Arrive, LookupSource, Verify, BadRequest,
             Append, Publish, StoreFails, EmitIngress, vars
    <2> QED
      BY <2>1, <2>2, <2>3, <2>4, <2>5
  <1> QED
    BY <1>1, <1>2, TypeCorrect, PTL DEF Spec

\* The row an upsert has read is still the row it will write over.
OldIsCurrent == \A a \in Admins : op[a] # None => row[op[a].id] \in {op[a].old, None}

\* Nobody else writes between the read and the write of the only operator.
LEMMA OldIsCurrentKept ==
    ASSUME TypeOK, OldIsCurrent, [Next]_vars, \A a, b \in Admins : a = b, MaxFaults = 0
    PROVE  OldIsCurrent'
  <1> SUFFICES ASSUME NEW a \in Admins, op'[a] # None
               PROVE  row'[op'[a].id] \in {op'[a].old, None}
    BY DEF OldIsCurrent
  <1>0. ~ Fault
    BY DEF Fault, TypeOK
  <1>1. ASSUME NEW b \in Admins, NEW id \in Sources, NEW edit \in Edits, GetSource(b, id, edit)
        PROVE  row'[op'[a].id] \in {op'[a].old, None}
    <2>1. a = b /\ row' = row /\ op' = [op EXCEPT ![b] = [id |-> id, edit |-> edit, old |-> row[id]]]
      BY <1>0, <1>1 DEF GetSource
    <2>2. op'[a] = [id |-> id, edit |-> edit, old |-> row[id]]
      BY <2>1 DEF TypeOK
    <2> QED
      BY <2>1, <2>2
  <1>2. ASSUME NEW b \in Admins, UpsertSource(b) \/ UpsertFails(b)
        PROVE  FALSE
    BY <1>2 DEF UpsertSource, UpsertFails, TypeOK
  <1>3. ASSUME NEW id \in Sources, DeleteSource(id)
        PROVE  row'[op'[a].id] \in {op'[a].old, None}
    <2>1. op' = op /\ row' = [row EXCEPT ![id] = None]
      BY <1>3 DEF DeleteSource, opVars
    <2>2. row[op[a].id] \in {op[a].old, None} /\ op[a].id \in Sources
      BY <2>1 DEF OldIsCurrent, TypeOK
    <2> QED
      BY <2>1, <2>2 DEF TypeOK
  <1>4. CASE Restart
    BY <1>4 DEF Restart
  <1>5. CASE UNCHANGED <<row, op>>
    BY <1>5 DEF OldIsCurrent
  <1>6. \/ \E b \in Admins, id \in Sources, edit \in Edits : GetSource(b, id, edit)
        \/ \E b \in Admins : UpsertSource(b) \/ UpsertFails(b)
        \/ \E id \in Sources : DeleteSource(id)
        \/ Restart
        \/ UNCHANGED <<row, op>>
    BY DEF Next, Handle, Arrive, LookupSource, Verify, BadRequest, Append, Publish, StoreFails,
           EmitIngress, vars, opVars
  <1> QED
    BY <1>1, <1>2, <1>3, <1>4, <1>5, <1>6

\* "Omitted fields keep their previous value" (handleUpsertSource) where one
\* operator's request is under way at a time and no GetSource fails: these are
\* all the ways to break it.
THEOREM OmittedKeptAlone ==
    ASSUME \A a, b \in Admins : a = b, MaxFaults = 0
    PROVE  Spec => OmittedFieldsKept
  <1>1. Init => OldIsCurrent
    BY DEF Init, OldIsCurrent
  <1>2. TypeOK /\ OldIsCurrent /\ [Next]_vars => OldIsCurrent'
    BY OldIsCurrentKept
  <1>3. TypeOK /\ OldIsCurrent /\ [Next]_vars =>
            [\A a \in Admins : UpsertSource(a) =>
                LET id == op[a].id IN
                row[id] # None =>
                    \A f \in Fields \ DOMAIN op[a].edit : row'[id][f] = row[id][f]]_vars
    <2> SUFFICES ASSUME TypeOK, OldIsCurrent, NEW a \in Admins, UpsertSource(a),
                        row[op[a].id] # None, NEW f \in Fields \ DOMAIN op[a].edit
                 PROVE  row'[op[a].id][f] = row[op[a].id][f]
      OBVIOUS
    <2>1. op[a] # None /\ op[a].id \in Sources
      BY DEF UpsertSource, TypeOK
    <2>2. row[op[a].id] = op[a].old
      BY <2>1 DEF OldIsCurrent
    <2>3. row'[op[a].id] = Merged(op[a].edit, op[a].old)
      BY <2>1 DEF UpsertSource, TypeOK
    <2>4. Merged(op[a].edit, op[a].old)[f] = op[a].old[f]
      BY <2>2 DEF Merged
    <2> QED
      BY <2>2, <2>3, <2>4
  <1> QED
    BY <1>1, <1>2, <1>3, TypeCorrect, PTL DEF Spec, OmittedFieldsKept
=============================================================================
