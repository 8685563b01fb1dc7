----------------------------- MODULE EntryAudit -----------------------------
(***************************************************************************)
(* The alerts of the deterministic audit (audit/auditor.ts): one alert key *)
(* of each entry.  An alert follows from what was filed, from the catalog  *)
(* and from the reference (tariff and organisation rules).                 *)
(*                                                                         *)
(* auditEntry runs in two settings.  The transaction that changes an entry *)
(* or a part audits last, on what it has written, and commits both.  After *)
(* a tariff or a rule change has committed, a sweep loads the reference    *)
(* once and audits the entries one by one, each statement on its own.      *)
(* People resolve, dismiss and reopen alerts meanwhile.                    *)
(***************************************************************************)
EXTENDS Integers

CONSTANTS
  Audited,      \* entries
  Filings,      \* what a 7501 and its documents say
  Catalogs,     \* what the catalog says
  References,   \* tariff and rules
  Raises,       \* the rules: the text an entry's facts give, or NoText
  NoText,
  Auditors,     \* transactions and sweeps in progress
  Nobody,       \* no row, no reference loaded
  MaxUpdates,   \* bound: edits and reference changes
  MaxJudgments  \* bound: decisions of people

ASSUME RaisesAssumption == DOMAIN Raises = Filings \X Catalogs \X References
ASSUME AuditBoundsAssumption == MaxUpdates \in Nat /\ MaxJudgments \in Nat

VARIABLES
  filing, catalog,  \* the facts of each entry
  reference,        \* the reference in force
  alert,            \* audit_alerts row of each entry, or Nobody
  auditor,          \* what each auditor does and has read
  current,          \* ghost: entries whose last audit nothing has disturbed
  births,           \* rows inserted so far
  updates, judgments

facts == <<filing, catalog, reference>>
auditVars == <<facts, alert, auditor, current, births, updates, judgments>>

-----------------------------------------------------------------------------
Off == [pc |-> "off"]
Statuses == {"open", "resolved", "dismissed"}
Texts == {Raises[f] : f \in DOMAIN Raises} \ {NoText}
Alert == [text : Texts, status : Statuses, id : Nat]

ASSUME NobodyAssumption == Nobody \notin Alert

Auditor ==
  {Off}
  \cup [pc : {"sweep"}, todo : SUBSET Audited, ref : References \cup {Nobody}]
  \cup [pc : {"snapshot", "rows"}, entry : Audited, kind : {"filing", "catalog", "sweep"},
        value : Filings \cup Catalogs \cup {Nobody}, text : Texts \cup {NoText},
        row : Alert \cup {Nobody}, todo : SUBSET Audited, ref : References \cup {Nobody},
        alone : BOOLEAN]

AuditTypeOK ==
  /\ filing \in [Audited -> Filings] /\ catalog \in [Audited -> Catalogs]
  /\ reference \in References
  /\ alert \in [Audited -> Alert \cup {Nobody}]
  /\ auditor \in [Auditors -> Auditor]
  /\ current \subseteq Audited /\ births \in Nat
  /\ updates \in 0..MaxUpdates /\ judgments \in 0..MaxJudgments

\* What the rules say of an entry now.
Deserved(e) == Raises[<<filing[e], catalog[e], reference>>]

\* Seeded entries are audited.
AuditInit ==
  /\ filing \in [Audited -> Filings] /\ catalog \in [Audited -> Catalogs]
  /\ reference \in References
  /\ alert = [e \in Audited |-> IF Deserved(e) = NoText THEN Nobody
                                ELSE [text |-> Deserved(e), status |-> "open", id |-> 0]]
  /\ auditor = [a \in Auditors |-> Off]
  /\ current = {}
  /\ births = 0 /\ updates = 0 /\ judgments = 0

-----------------------------------------------------------------------------
(* Ghosts.                                                                 *)

At(a, e) == auditor[a].pc \in {"snapshot", "rows"} /\ auditor[a].entry = e

\* Nothing that changes an entry goes by the audits under way unnoticed.
Disturbed(others, entries) ==
  [a \in Auditors |-> IF a \in others /\ \E e \in entries : At(a, e)
                      THEN [auditor[a] EXCEPT !.alone = FALSE] ELSE auditor[a]]

-----------------------------------------------------------------------------
(* Who audits.                                                             *)

\* A transaction changes what was filed or what the catalog says, and audits
\* the entry on that; a second one waits for its row locks.
EditFacts(a, e) ==
  /\ auditor[a] = Off /\ updates < MaxUpdates
  /\ \E kind \in {"filing", "catalog"} :
       /\ \A b \in Auditors : At(b, e) => auditor[b].kind # kind
       /\ \E value \in IF kind = "filing" THEN Filings ELSE Catalogs :
            LET text == IF kind = "filing" THEN Raises[<<value, catalog[e], reference>>]
                        ELSE Raises[<<filing[e], value, reference>>] IN
            auditor' = [auditor EXCEPT ![a] =
              [pc |-> "snapshot", entry |-> e, kind |-> kind, value |-> value, text |-> text,
               row |-> Nobody, todo |-> {}, ref |-> Nobody, alone |-> TRUE]]
  /\ updates' = updates + 1
  /\ UNCHANGED <<facts, alert, current, births, judgments>>

\* A tariff apply or a rule change has committed; its sweep starts.
ChangeReference(a) ==
  /\ auditor[a] = Off /\ updates < MaxUpdates
  /\ \E r \in References \ {reference} : reference' = r
  /\ auditor' = [Disturbed(Auditors, Audited) EXCEPT ![a] =
       [pc |-> "sweep", todo |-> Audited, ref |-> Nobody]]
  /\ current' = {}
  /\ updates' = updates + 1
  /\ UNCHANGED <<filing, catalog, alert, births, judgments>>

LoadedBy(a) == IF auditor[a].ref = Nobody THEN {reference} ELSE {auditor[a].ref}

\* loadAuditableSnapshot for the next entry; the reference is loaded once.
SnapshotEntry(a, e) ==
  /\ auditor[a].pc = "sweep" /\ e \in auditor[a].todo
  /\ \E ref \in LoadedBy(a) :
       auditor' = [auditor EXCEPT ![a] =
         [pc |-> "snapshot", entry |-> e, kind |-> "sweep", value |-> Nobody,
          text |-> Raises[<<filing[e], catalog[e], ref>>],
          row |-> Nobody, todo |-> @.todo \ {e}, ref |-> ref, alone |-> ref = reference]]
  /\ UNCHANGED <<facts, alert, current, births, updates, judgments>>

ReadRows(a) ==
  /\ auditor[a].pc = "snapshot"
  /\ auditor' = [auditor EXCEPT ![a] = [@ EXCEPT !.pc = "rows", !.row = alert[auditor[a].entry]]]
  /\ UNCHANGED <<facts, alert, current, births, updates, judgments>>

-----------------------------------------------------------------------------
(* What an audit writes.                                                   *)

\* Mutant: an alert is never deleted.
StaleNever(row, text) == FALSE

Stale(row, text) == row.status = "open" /\ text = NoText

\* Mutant: decided alerts are refreshed as well.
DriftedAny(row, text) == text # NoText /\ row.text # text

Drifted(row, text) == row.status = "open" /\ text # NoText /\ row.text # text

\* The row of the entry after the statements of reconcile: insert by key,
\* update and delete by the id that was read.
Reconciled(e, row, text, born) ==
  IF row = Nobody
  THEN IF text = NoText THEN alert[e] ELSE [text |-> text, status |-> "open", id |-> born]
  ELSE IF alert[e] = Nobody \/ alert[e].id # row.id THEN alert[e]
  ELSE IF Stale(row, text) THEN Nobody
  ELSE IF Drifted(row, text) THEN [alert[e] EXCEPT !.text = text]
  ELSE alert[e]

\* The unique index on (entry, alert key).
KeyTaken(e, row, text) == row = Nobody /\ text # NoText /\ alert[e] # Nobody

WriteAlerts(a) ==
  LET f == auditor[a]
      e == f.entry
      after == Reconciled(e, f.row, f.text, births + 1)
  IN /\ f.pc = "rows" /\ ~KeyTaken(e, f.row, f.text)
     /\ alert' = [alert EXCEPT ![e] = after]
     /\ births' = IF f.row = Nobody /\ f.text # NoText THEN births + 1 ELSE births
     /\ filing' = IF f.kind = "filing" THEN [filing EXCEPT ![e] = f.value] ELSE filing
     /\ catalog' = IF f.kind = "catalog" THEN [catalog EXCEPT ![e] = f.value] ELSE catalog
     /\ auditor' = [Disturbed(Auditors \ {a}, {e}) EXCEPT ![a] =
          IF f.todo = {} THEN Off ELSE [pc |-> "sweep", todo |-> f.todo, ref |-> f.ref]]
     /\ current' = IF f.alone THEN current \cup {e} ELSE current \ {e}
     /\ UNCHANGED <<reference, updates, judgments>>

\* A statement throws (the key is taken) or the process dies: a transaction
\* rolls back, a sweep leaves the other entries as they are.
AbortAudit(a) ==
  /\ auditor[a] # Off
  /\ auditor' = [auditor EXCEPT ![a] = Off]
  /\ UNCHANGED <<facts, alert, current, births, updates, judgments>>

\* PATCH api/alerts: by id, whatever its status.
Judge(e) ==
  /\ judgments < MaxJudgments /\ alert[e] # Nobody
  /\ \E status \in Statuses \ {alert[e].status} : alert' = [alert EXCEPT ![e].status = status]
  /\ judgments' = judgments + 1
  /\ auditor' = Disturbed(Auditors, {e})
  /\ current' = current \ {e}
  /\ UNCHANGED <<facts, births, updates>>

AuditNext ==
  \/ \E a \in Auditors :
       \/ \E e \in Audited : EditFacts(a, e) \/ SnapshotEntry(a, e)
       \/ ChangeReference(a) \/ ReadRows(a) \/ WriteAlerts(a) \/ AbortAudit(a)
  \/ \E e \in Audited : Judge(e)

AuditSpec == AuditInit /\ [][AuditNext]_auditVars

-----------------------------------------------------------------------------
(* Properties.                                                             *)

\* "A sweep that dies part-way leaves stale-but-valid alerts that the next
\* sweep heals": whatever overlapping and dying audits have left, an audit that
\* nothing disturbs leaves the alert the rules give, or a decided one.
AuditHeals ==
  \A e \in current :
    IF alert[e] = Nobody THEN Deserved(e) = NoText
    ELSE alert[e].status = "open" => alert[e].text = Deserved(e)

\* "Writers never touch resolved or dismissed rows": a judgment stands unless
\* an audit had read its row before it was taken.
JudgmentStands ==
  [][\A e \in Audited :
       (/\ alert[e] # Nobody /\ alert[e].status # "open" /\ alert'[e] # alert[e]
        /\ judgments' = judgments) =>
         \E a \in Auditors : At(a, e) /\ auditor[a].pc = "rows" /\ auditor[a].row # Nobody
                               /\ auditor[a].row.status = "open"
                               /\ auditor[a].row.id = alert[e].id]_auditVars
=============================================================================
