------------------------------- MODULE Ingress -------------------------------
(***************************************************************************)
(* The ingest endpoints in front of the log, the source registry they      *)
(* consult and the audit record each request leaves: what a request reads, *)
(* and when, while operators edit the sources, store calls fail and the    *)
(* process is restarted.                                                   *)
(***************************************************************************)
EXTENDS Integers, FiniteSets

CONSTANTS
    Sources,     \* source ids
    GitHub,      \* the source of POST /github-events-ingress
    Secrets,     \* non-empty secrets
    NoSecret,    \* the empty secret
    SeedSecret,  \* EVENTD_GITHUB_SECRET, or NoSecret
    Edits,       \* the bodies operators send: a value for some of Fields
    Admins,      \* operators' requests that may be under way together
    Requests,    \* producers' requests, each made once
    Keys,        \* dedupe keys
    NoKey,       \* no dedupe key
    Calls,       \* what producers may send: endpoint, source, provider, secret used, key
    None,        \* no row, no request
    MaxEdits,    \* bound: upserts and deletions
    MaxFaults,   \* bound: store calls that fail
    MaxCrashes   \* bound: restarts of the process

Fields == {"secret", "mode", "enabled"}

\* A row of table sources. "keyed" stands for hmac_sha256 and bearer, "other" for
\* a verify_mode that verify.Mode does not know: the admin API takes any string.
Rows == [secret : Secrets \cup {NoSecret}, mode : {"none", "keyed", "other"}, enabled : BOOLEAN]

ASSUME RegistryAssumption ==
    /\ GitHub \in Sources /\ None \notin Rows
    /\ NoSecret \notin Secrets /\ SeedSecret \in Secrets \cup {NoSecret}
    /\ \A e \in Edits : \E r \in Rows, F \in SUBSET Fields :
           e = [f \in F |-> r[f]] /\ ~ ("secret" \in F /\ r.secret = NoSecret)
    /\ NoKey \notin Keys
    /\ Calls \subseteq [path : {"webhook", "generic"}, source : Sources,
                         provider : Sources, secret : Secrets \cup {NoSecret},
                         key : Keys \cup {NoKey}]
    /\ \A c \in Calls : c.path = "webhook" => c.source = GitHub /\ c.provider = GitHub
    /\ MaxEdits \in Nat /\ MaxFaults \in Nat /\ MaxCrashes \in Nat

VARIABLES
    row,       \* table sources
    op,        \* handleUpsertSource: the body and the row GetSource returned, or None
    req,       \* the producers' requests
    stored,    \* table events: the requests that put an event there
    audit,     \* the lines of the ingress log
    seen,      \* history: the versions of its source's row during each request
    written,   \* history: what the last upsert of each source left, None after a deletion
    edits, faults, crashes  \* how often each happened

opVars    == <<op, edits>>
boundVars == <<faults, crashes>>
vars == <<row, op, req, stored, audit, seen, written, edits, faults, crashes>>

\* A request: its endpoint, the row it looked up and the outcome of its record.
Idle == [at |-> "idle", path |-> "generic", source |-> GitHub, provider |-> GitHub,
         secret |-> NoSecret, key |-> NoKey, src |-> None, outcome |-> "none"]

Seeded(r) ==
    IF r[GitHub] = None /\ SeedSecret # NoSecret
    THEN [r EXCEPT ![GitHub] = [secret |-> SeedSecret, mode |-> "keyed", enabled |-> TRUE]]
    ELSE r

Init ==
    /\ row = Seeded([id \in Sources |-> None])
    /\ op = [a \in Admins |-> None]
    /\ req = [q \in Requests |-> Idle]
    /\ stored = {}
    /\ audit = {}
    /\ seen = [q \in Requests |-> {}]
    /\ written = [id \in Sources |-> None]
    /\ edits = 0
    /\ faults = 0
    /\ crashes = 0

UnderWay(q) == req[q].at \notin {"idle", "done", "gone"}
Watch == seen' = [q \in Requests |->
    IF UnderWay(q) THEN seen[q] \cup {row'[req[q].source]} ELSE seen[q]]

Fault == faults < MaxFaults /\ faults' = faults + 1 /\ UNCHANGED crashes

-----------------------------------------------------------------------------
(* The admin API over the registry                                         *)

\* GetSource of handleUpsertSource. A read that fails is taken for "no such
\* source", like one that finds nothing.
GetSource(a, id, edit) ==
    /\ op[a] = None
    /\ edits < MaxEdits
    /\ edits' = edits + 1
    /\ \/ /\ op' = [op EXCEPT ![a] = [id |-> id, edit |-> edit, old |-> row[id]]]
          /\ UNCHANGED boundVars
       \/ /\ op' = [op EXCEPT ![a] = [id |-> id, edit |-> edit, old |-> None]]
          /\ Fault
    /\ UNCHANGED <<row, req, stored, audit, seen, written>>

DefaultIsZero(edit) == [secret |-> NoSecret, enabled |-> FALSE, mode |-> ""]
\* A new source verifies by signature when it has a secret.
Default(edit) == [secret |-> NoSecret, enabled |-> TRUE,
                  mode |-> IF "secret" \in DOMAIN edit THEN "keyed" ELSE "none"]

\* What the request names is set; what it leaves out keeps the value read before.
Merged(edit, old) == [f \in Fields |->
    CASE f \in DOMAIN edit -> edit[f]
      [] f \notin DOMAIN edit /\ old # None -> old[f]
      [] OTHER -> Default(edit)[f]]

UpsertSource(a) ==
    /\ op[a] # None
    /\ row' = [row EXCEPT ![op[a].id] = Merged(op[a].edit, op[a].old)]
    /\ written' = [written EXCEPT ![op[a].id] = row'[op[a].id]]
    /\ op' = [op EXCEPT ![a] = None]
    /\ Watch
    /\ UNCHANGED <<req, stored, audit, edits, boundVars>>

UpsertFails(a) ==
    /\ op[a] # None
    /\ Fault
    /\ op' = [op EXCEPT ![a] = None]
    /\ UNCHANGED <<row, req, stored, audit, seen, written, edits>>

DeleteSource(id) ==
    /\ row[id] # None
    /\ edits < MaxEdits
    /\ edits' = edits + 1
    /\ row' = [row EXCEPT ![id] = None]
    /\ written' = [written EXCEPT ![id] = None]
    /\ Watch
    /\ UNCHANGED <<op, req, stored, audit, boundVars>>

-----------------------------------------------------------------------------
(* handleGenericIngest and handleGitHubWebhook                             *)

Step(q, from, to) == req[q].at = from /\ req' = [req EXCEPT ![q].at = to]
Close(q, outcome) == req' = [req EXCEPT ![q].at = "answered", ![q].outcome = outcome]

Arrive(q, call) ==
    /\ req[q].at = "idle"
    /\ req' = [req EXCEPT ![q] =
           [Idle EXCEPT !.at = "arrived", !.path = call.path, !.source = call.source,
                        !.provider = call.provider, !.secret = call.secret, !.key = call.key]]
    /\ seen' = [seen EXCEPT ![q] = {row[call.source]}]
    /\ UNCHANGED <<row, opVars, stored, audit, written, boundVars>>

\* Only the generic endpoint looks at enabled; the webhook serves a source that
\* is switched off (github.go:63), although DESIGN.md:124 has the admin API
\* switch every source on and off, GitHub's among them.
Open(path, src) == src # None /\ (path = "generic" => src.enabled)

LookupSource(q) ==
    /\ req[q].at = "arrived"
    /\ LET src == row[req[q].source] IN
       IF Open(req[q].path, src)
       THEN req' = [req EXCEPT ![q].at = "open", ![q].src = src]
       ELSE Close(q, "rejected")
    /\ UNCHANGED <<row, opVars, stored, audit, seen, written, boundVars>>

\* The webhook asks for a signature whatever the mode. A row without a secret
\* lets nobody in: the fallback to a global secret that the comment at
\* github.go:83 announces is not in the code.
Admits(src, path, secret) ==
    \/ path = "generic" /\ src.mode = "none"
    \/ /\ path = "webhook" \/ src.mode = "keyed"
       /\ src.secret # NoSecret /\ secret = src.secret

VerifiedNow(q) ==
    LET src == row[req[q].source] IN src # None /\ Admits(src, req[q].path, req[q].secret)
\* The body has been read meanwhile; the row is the one looked up before.
Verified(q) == Admits(req[q].src, req[q].path, req[q].secret)

Verify(q) ==
    /\ req[q].at = "open"
    /\ IF Verified(q) THEN Step(q, "open", "verified") ELSE Close(q, "rejected")
    /\ UNCHANGED <<row, opVars, stored, audit, seen, written, boundVars>>

\* A body that cannot be read or is too large; one that is not what is expected.
BadRequest(q) ==
    /\ req[q].at \in {"open", "verified"}
    /\ Close(q, "rejected")
    /\ UNCHANGED <<row, opVars, stored, audit, seen, written, boundVars>>

SameKey(q) == {p \in stored : /\ req[p].provider = req[q].provider
                              /\ req[p].key = req[q].key /\ req[q].key # NoKey}

AppendAccepted(q) ==
    /\ req[q].at = "verified"
    /\ IF SameKey(q) # {}
       THEN Close(q, "accepted") /\ UNCHANGED stored
       ELSE Step(q, "verified", "stored") /\ stored' = stored \cup {q}
    /\ UNCHANGED <<row, opVars, audit, seen, written, boundVars>>
Append(q) ==
    /\ req[q].at = "verified"
    /\ IF SameKey(q) # {}
       THEN Close(q, "duplicate") /\ UNCHANGED stored
       ELSE Step(q, "verified", "stored") /\ stored' = stored \cup {q}
    /\ UNCHANGED <<row, opVars, audit, seen, written, boundVars>>

\* The rest of Ingest: the fan-out has no effect on the record when it succeeds.
Publish(q) ==
    /\ req[q].at = "stored"
    /\ Close(q, "accepted")
    /\ UNCHANGED <<row, opVars, stored, audit, seen, written, boundVars>>

\* GetSource, AppendEvent or MatchingSubscriptions fails: the record says
\* rejected, after MatchingSubscriptions for an event that is stored.
StoreFails(q) ==
    /\ req[q].at \in {"arrived", "verified", "stored"}
    /\ Fault
    /\ Close(q, "rejected")
    /\ UNCHANGED <<row, opVars, stored, audit, seen, written>>

EmitIngress(q) ==
    /\ Step(q, "answered", "done")
    /\ audit' = audit \cup {[by |-> q, outcome |-> req[q].outcome]}
    /\ UNCHANGED <<row, opVars, stored, seen, written, boundVars>>

Handle(q) ==
    \/ \E call \in Calls : Arrive(q, call)
    \/ LookupSource(q)
    \/ Verify(q)
    \/ BadRequest(q)
    \/ Append(q)
    \/ Publish(q)
    \/ StoreFails(q)
    \/ EmitIngress(q)

-----------------------------------------------------------------------------
SeedAlways == [row EXCEPT ![GitHub] =
    IF SeedSecret = NoSecret THEN @ ELSE [secret |-> SeedSecret, mode |-> "keyed", enabled |-> TRUE]]
SeedSources == Seeded(row)

\* The process is restarted: seedSources runs before it listens again.
Restart ==
    /\ crashes < MaxCrashes
    /\ crashes' = crashes + 1
    /\ row' = SeedSources
    /\ op' = [a \in Admins |-> None]
    /\ req' = [q \in Requests |-> IF UnderWay(q) THEN [req[q] EXCEPT !.at = "gone"] ELSE req[q]]
    /\ UNCHANGED <<stored, audit, seen, written, edits, faults>>

Next ==
    \/ \E a \in Admins, id \in Sources, edit \in Edits : GetSource(a, id, edit)
    \/ \E a \in Admins : UpsertSource(a) \/ UpsertFails(a)
    \/ \E id \in Sources : DeleteSource(id)
    \/ \E q \in Requests : Handle(q)
    \/ Restart

Spec == Init /\ [][Next]_vars

-----------------------------------------------------------------------------
(* Properties.                                                             *)

\* The registry, the requests and the audit log hold what the code puts there.
TypeOK ==
    /\ row \in [Sources -> Rows \cup {None}]
    /\ op \in [Admins -> {None} \cup
                  [id : Sources, edit : Edits, old : Rows \cup {None}]]
    /\ req \in [Requests -> [at : {"idle", "arrived", "open", "verified", "stored",
                                   "answered", "done", "gone"},
                             path : {"webhook", "generic"},
                             source : Sources, provider : Sources,
                             secret : Secrets \cup {NoSecret}, key : Keys \cup {NoKey},
                             src : Rows \cup {None},
                             outcome : {"none", "accepted", "duplicate", "rejected"}]]
    /\ stored \subseteq Requests
    /\ audit \subseteq [by : Requests, outcome : {"accepted", "duplicate", "rejected"}]
    /\ seen \in [Requests -> SUBSET (Rows \cup {None})]
    /\ written \in [Sources -> Rows \cup {None}]
    /\ edits \in 0..MaxEdits /\ faults \in 0..MaxFaults /\ crashes \in 0..MaxCrashes

\* One version of its source's row, among those the registry held while the
\* request was under way, lets the request in: the endpoint never mixes two
\* versions, nor uses one from before the request, although it reads the row
\* before the body and verifies after it. The webhook is held to its own rule,
\* that of Open and Admits: it asks for the row's secret and never for enabled.
AdmittedByTheRegistry ==
    \A q \in Requests :
        q \in stored \/ req[q].outcome = "duplicate" =>
            \E v \in seen[q] :
                /\ v # None
                /\ v.enabled \/ req[q].path = "webhook"
                /\ Admits(v, req[q].path, req[q].secret)

\* The audit log says what became of a request: accepted is its own stored
\* event, duplicate an event stored before with its key, and, as long as no
\* store call fails, rejected is nothing stored.
AuditTellsTheTruth ==
    \A line \in audit :
        LET q == line.by IN
        /\ line.outcome = "accepted" => q \in stored
        /\ line.outcome = "duplicate" => q \notin stored /\ SameKey(q) # {}
        /\ line.outcome = "rejected" /\ faults = 0 => q \notin stored

\* Restarts do not undo an operator's edit (seedSources: "an operator edit
\* through the admin API survives restarts"). A deletion is not an edit here:
\* the next start seeds a deleted github source again.
EditSurvives ==
    \A id \in Sources :
        written[id] = None \/ row[id] = written[id]

\* An upsert changes no field it does not mention (handleUpsertSource: "Omitted
\* fields keep their previous value").
OmittedFieldsKept ==
    [][\A a \in Admins : UpsertSource(a) =>
        LET id == op[a].id IN
        row[id] # None =>
            \A f \in Fields \ DOMAIN op[a].edit : row'[id][f] = row[id][f]]_vars
=============================================================================
