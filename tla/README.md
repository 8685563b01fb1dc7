# Verification of the customs-entry back end

TLA+ models, TLC runs and TLAPS proofs for the stateful core of the application
under `src/`: a Next.js back end over Postgres that reads customs documents, keeps
a catalog of parts with dated classifications and costs, follows the tariff, and
audits entries with rules and an AI analyst. Everything runs as short serverless
functions: requests, `after()` callbacks and three cron sweeps (`src/vercel.json`)
share the database and nothing else. They may overlap, they are cut off by the
platform after `maxDuration = 800` seconds, no statement outside an explicit
`db.transaction` is atomic with the next, and a transaction is READ COMMITTED: what it
read may be gone when it writes. That is what the models are about. **Each action is
one SQL statement, one transaction's commit, or one point at which a transaction reads**,
and between any two of them another process may run or the process may die.

Paths below are relative to `src/src/` unless they begin with `src/`.

## 1. Inventory

| component | code | state | operations | hard part |
|---|---|---|---|---|
| Analysis queue | `lib/analysis/service.ts`, `app/api/analysis/sweep`, `app/api/entries/[entryId]/analyze`, `app/api/org-rules/schedule.ts` | `analysis_runs` | queue (touch or insert), list, claim, execute, record, reclaim, re-queue, backfill | overlapping drains, dead runners, changes landing while a run is in flight, uncommitted rows of an apply |
| Findings reconcile | `lib/analysis/service.ts` (`planFindingReconcile`, `reconcileFindings`), `app/api/findings`, `app/api/alerts` | `analysis_findings` | plan, insert, update, delete; a person resolves, dismisses, reopens | not a transaction; rows addressed by id with a status read before |
| Document processing | `lib/processing/run.ts`, `app/api/documents/sweep`, `app/api/documents/[documentId]/process` | `documents` | register, claim, extract, split, link, queue, persist, fail, children | two callers, stale lists, packet re-splits, crashes between link and queue |
| Document linker | `lib/processing/linker.ts`, `reconcile.ts`, `lib/parts/line-parts.ts` | entries, invoices, shipments, orders, `document_links` | link one document of each kind, adopt strays, adopt lines | documents arrive in any order and link concurrently; what they look for is written after their transaction |
| Auditor | `lib/audit/auditor.ts`, `fact-resolver.ts` | `audit_alerts` | audit, re-audit, sweep; people judge | same reconcile shape as the findings, in and outside transactions |
| Audit rules and duty | `lib/audit/rules.ts`, `lib/duty` | none | expected measures, expected base duty, findings about money | displacement, unknown sail dates, tolerances |
| Part classification | `lib/classification/service.ts`, `review.ts` | `parts` (code projection), `part_classifications`, `review_items` | edit, decide, classify | transactions that plan from what they read without locks |
| Effective dating | `lib/effective-dating.ts` | none | `planWindow`, `planCommitWindow`, `planCloseDate`, `resolveWindow` | boundary days |
| Part sources | `app/api/parts/[partId]/sources`, `lib/parts/import-service.ts` | `part_sources` windows | add, edit, remove, import | edits by id of a window read before |
| Quotes | `lib/quotes/service.ts`, `match.ts`, `reconsider.ts` | `quote_lines`, reconsider items | ingest, decide, apply to an order, reopen, dismiss | status checked, then updated by id |
| Tariff sync and review | `lib/tariff-sync/sync.ts`, `differ.ts`, `apply.ts`, `programs.ts`, `app/api/tariff-sync/*` | announcements, `measure_revisions`, groups, review items, `trade_measures` | stage, supersede, approve, reject, apply, resolve | a sync that reads outside its transaction; approvals racing a sync or each other |
| Base releases | `lib/tariff-sync/base-apply.ts`, `base-guard.ts`, `app/api/tariff-sync/base-releases` | `hts_codes` windows | stage, guard, approve, reject, apply | bulk windows, a pending release superseded or applied meanwhile |
| Agent conversations | `lib/agent/service.ts`, `transcript.ts`, `claude.ts` | turn lock, `agent_messages`, proposals | claim a turn, run it, store it, release; decide a proposal | a lock with a cutoff, a transcript cut off anywhere |
| Document intake | `app/api/documents/register`, `upload`, `lib/documents/duplicates.ts` | `documents`, blob store | register a file once | check-then-insert |
| Providers | `lib/analysis/claude.ts`, `lib/agent/claude.ts`, `lib/storage`, ... | external | network calls | may answer, throw or never return |
| Read side, UI, organisations, scripts | `lib/variance`, `lib/events`, `lib/future-entries`, `components`, `app/*`, `src/scripts`, `src/drizzle` | none of their own | queries, pages, one-off jobs | - |

How they interact. A processed document links facts to the entry graph and audits the
entries it touched in the same transaction (`linker.ts`), then queues their analysis
(`run.ts:128-148`). A part edit or a new part re-audits the entries whose lines declare
it. The tariff sync stages what changed; a person's approval rewrites the reference tables,
and after the commit a sweep re-audits the entries and queues re-analyses of the analysed
ones. A rule change does the same for an organisation. The analysis sweep (every ten minutes)
reclaims dead runs, seeds entries that have none and drains; a run ends by
reconciling the entry's findings, which people judge meanwhile. The document sweep
(hourly) takes pending documents and those whose runner died. A classification edit moves
the windows that every audit resolves as of the entry's day; an approved quote moves the
cost windows of its part, and a tariff change may open an item that asks for the quote
to be reconsidered. `PROJECT.json` lists every component with its status, and every
hazard at its line with the property that covers it or the reason none does.

What makes each correct, in one line:

* queue: one pending run per entry, one runner per run, no change lost but where the
  code gives it up, outcomes
  final, retries bounded, nothing pending or running for ever;
* findings and alerts: a clean run or audit leaves exactly what it found, and never
  undoes a judgment it had not read before;
* documents: one processor per document, linked facts always followed by an
  analysis, no document stuck, no outcome rewritten by somebody else;
* linker: the graph does not depend on the order in which documents arrived, and the
  alerts of an entry follow from the graph as it stands;
* duty: what is expected of a line does not depend on row order and says when it is
  a guess; a correct filing is silent and a silent one has paid;
* classifications and sources: one code and one cost per day, closed windows are history,
  decisions stand, a quote is applied once;
* tariff: a change is proposed, waits, and takes effect at most once, by an approval;
  the rates in force are those of the release applied last, past days keep theirs;
* conversations: one turn at a time, and a transcript the model's API accepts.

## 2. Modules

| module | models | extends |
|---|---|---|
| `AnalysisQueue` | the queue, its callers, drains, requests and sweeps | - |
| `FindingReconcile` | the reconcile of one entry's findings and the PATCH of a person | - |
| `DocumentProcessing` | the life of a document row, its packets and parts, requests and sweeps | - |
| `EffectiveDating` | the pure window planners and the as-of lookup | - |
| `PartClassification` | one part: code, windows, review items, three requests | `EffectiveDating` |
| `Sourcing` | the cost windows of one part at one vendor, its quotes and reconsider items | `EffectiveDating` |
| `TariffGate` | abstract: a change is proposed once and applied at most once, by an approval | - |
| `TariffReview` | Chapter 99: sync, decisions, apply; implements `TariffGate` | - |
| `BaseRelease` | chapters 1 to 97: sync, decisions, apply | `EffectiveDating` |
| `EntryLinking` | the entry graph that linked documents build | - |
| `EntryAudit` | the alerts of an entry under edits, sweeps and judgments | - |
| `DutyAudit` | the duty expected of a line and the findings about it | - |
| `AgentTurn` | the turn lock and the transcript of a conversation | - |
| `*Proofs` (7) | the theorems of a component; `ServicesProofs` those of `BaseRelease`, `EntryLinking`, `EntryAudit`, `AgentTurn` and of the four together, `FindingReconcileProofs` also those of `DutyAudit` | the component or its `MC` module, `TLAPS` |
| `Induction` | three lemmas: a set of numbers has a least element; induction and recursion up to a number | `TLAPS` |
| `MC*` | instances for TLC: ranges of the constants, symmetry; `MCServices` puts four components that share no table side by side, `MCRecords` the findings of the analyst, those of the duty rules and the code of a part | the component |

The seams between the modules are facts one needs and another supplies:

* `AnalysisQueue!LinkDocument` starts a document handler that is never cut short,
  because a document whose handler died is processed again. `DocumentProcessing`
  shows it: by `FactsQueued` linked facts without a queued analysis always have a
  document that brings them again, by `ProcessingEnds` and `PendingEnds` it does not
  stay where it is. A *failed* document is the exception that needs a person.
* `DocumentProcessing!Link` is one transaction of `EntryLinking`; that it commits before
  `Persist` is the reason for finding 3.
* `EntryLinking` shows *which* transactions audit an entry last (`AlertsOfFacts`);
  `EntryAudit` shows what one such audit does to the alert rows, and `DutyAudit` what the
  rules say of one line.
* `AnalysisQueue!RecordResult` is where `FindingReconcile` runs; a
  `RecordThrows` is one of its statements throwing. `SoleRunner` does not make two
  reconciles of one entry impossible (two rows of an entry may run at once), so
  `FindingReconcile` has several writers.
* `AnalysisQueue!ApplyTariff` is the commit of a `TariffReview` or `BaseRelease` decision,
  and `EntryAudit!ChangeReference` the sweep after it.

### AnalysisQueue

A row is an element of `RunIds` with functions for its columns: `status` (with
`"abandoned"` for the failed rows whose error begins `abandoned:`), `entryOf`,
`settled` (`updated_at` older than the settle window), `expired` (`started_at` past
the reclaim cutoff). `loaded` and `missed` record whether the row's runner has read the facts and
which changes were committed since, or since the row ended without. `forsaken` is the one ghost
about crashes: dead rows whose sweep was cut off before it re-queued them.

| code | actions |
|---|---|
| `queueAnalysesForEntries` 766-818 | `TouchPending`, `InsertConflict`, `InsertPending`, `InsertInTransaction`, `Queued`; one insert per entry (the code sends chunks of 500) |
| document handler, rule change, tariff apply | `LinkDocument`; `ChangeRule`, `SelectAnalyzed`, `StartAfterResponseDrain`; `ApplyTariff`, `SelectAnalyzed`, `CommitTariff` |
| cron sweep | `StartSweep`, `ReclaimExpired`, `CountDeaths`, `RequeueReclaimed` (once per trigger: any grouping of the rows), `SeedUnanalyzed`, `ListPending` |
| drain | `ListPending`, `ClaimListed`, `SkipListed`, `StopSlot`, `EndDrain` |
| manual request 237-273 | `ManualRead`, `ManualClaim`, `ManualInsert` |
| `executeRun`, `recordAnalysisResult` | `LoadBundle`, `LoadFails`, `RecordResult`, `RecordThrows` |
| time, platform | `Settle`, `Expire`, `CrashDrain`, `CrashChanger`, `CrashManual` |

An apply transaction holds the rows it touched (`locked`) and reserves the entries
it inserted (`inserted`) until `CommitTariff`; the partial unique index makes others
wait for it. `Expire` is enabled only when nobody holds the row: the platform stops
a function after 800 s, the cutoff is 20 minutes (`service.ts` `failAbandonedRuns`).
The assumption is about the deployment; `src/scripts/analyze-all-entries.ts` runs
outside it.

### FindingReconcile

`row` maps a finding key (base, ordinal) to a row or `NoRow`. A writer reads the rows
and plans (`Plan`), inserts (`InsertNew`, or `InsertThrows` on the unique key), updates
one drifted row per step (`UpdateOne`, `UpdatesEnd`), deletes (`DeleteStale`), and may
die in between (`Crash`). A person reads (`PatchFinds`) and writes by id
(`PatchWrites`). `KeyOf` is `assignFindingKeys`. The text of a finding stands for all
the columns the plan compares. An `UPDATE` or `DELETE` by id reaches a row only while
that id is there: `issued` gives every insert a fresh id.

### DocumentProcessing

`status` holds `documents.status` per row; a part of a packet is a record of its
packet, its role and the number of the split that created it, so that a re-split makes
new rows. A `worker` is a request or a slot of a sweep with the step of
`processDocumentRow` it is at; a packet's call works through its parts, so a worker may be
`nested` in one of them. `owed` abstracts what `linkExtraction` writes: facts on an
entry that no queue call has followed yet.

| code | actions |
|---|---|
| register 100-117, process route 22-59 | `Register`, `Request` |
| sweep 71-101 | `List`, `TakeListed`, `SkipListed`, `EndSweep` |
| claim, `run.ts:44-62` | `Claim`, guarded by `Free` (interactive, children) or `SweptFor` (sweep) |
| extraction 66-76 and refusals | `Extracted`, `ExtractFails` |
| split 84-126: check, DELETE, INSERT | `CheckParts`, `DeleteParts`, `InsertParts` |
| link 128, queue 142, persist 150 | `Link`, `Queue`, `Persist` |
| quote-sheet follow-up 165-180 | `FollowUp` |
| children 187-189 | `TakePart`, `PartsEnd` |
| catch 191-220 and what throws into it | `Fail`, `Throw`, `FollowUpThrows`, `FailThrows` |
| time, platform | `Age`, `CrashRequest`, `CrashSweep` |

Outcomes are `UPDATE`s by id and do nothing to a row that is gone; deleting a part
takes its `document_links` with it (cascade, `lib/db/schema.ts:615`), so a link of
a deleted row fails on its foreign key and its queue call finds no entry. `Age` is
enabled only when nobody works on the row (800 s against a cutoff of 15 minutes). A
sweep takes its list, and a packet its parts, in any order, which covers the order of
the code. Abstracted: what kind an upload is does not change between extractions and a
packet always yields all of `Roles`. Left out: a top-level claim that throws (it has
no effect), the hash backfill, what the deferred classification of a quote sheet's parts does, the refusal of
`part_catalog` rows by the route. Everything after the persist is still inside the `try`: the query for the parts a quote
sheet created (`FollowUp`), the claim of a child and the UPDATE of a child's catch block can throw into the catch block
of an upload that is already processed (finding 5). `upset` holds those uploads: before the catch block runs, another
caller may have claimed the upload again and works on under the wrong status, so `SoleProcessor` and `FactsQueued` except
them. `OutcomeStands` says that nothing else fails a processed document, and `ParentStands` is what the comment promises.

### EffectiveDating and PartClassification

Days are numbers, a null start is day 0, a null end is `Open`. A request reads
(`EditReadsPart`, `EditReadsWindow`; `DecideReadsItem`, `DecideReadsPart`;
`ClassifyReadsPart`) and writes in one step (`EditWrites`, `DecideWrites`,
`ClassifyWrites`, `ClassifyFindsNothing`): every writing transaction updates the part's
row, whose lock orders the writers, and what cannot wait (a deadlock, a unique index)
aborts (`Abort`). `CommitWindow` is `commitClassificationWindow` with the window it has
read. A provisional code opens no window. `Allowed`, `NextItem` and `NextReview` are
`applyReviewAction`. Abstracted: the candidates and `hts_classifications`,
`field_changes`, the re-audit that follows.

### Sourcing

One part at one vendor: `source` (the dated cost windows), `line` (quote lines, of a sheet
that names the vendor or none), `items` (reconsider items), `status` of the part. A
request is two steps, its reads (`Read...`, into a frame) and its writes; `Saw` is the
window a query for the current one answered, and a write by id is a write to that row
whatever it has become. `NextDay` is the clock the routes read.

| code | reads, writes |
|---|---|
| POST, PATCH, DELETE of a source | `ReadAdd`, `Add`; `ReadEdit`, `Edit` (`Tile` or `Correct`); `ReadRemove`, `Remove` |
| status of a part | `ReadStatus`, `SetStatus` |
| `ingestQuoteSheet` | `ReadIngest` (`Superseded`), `Ingest`: an unknown SKU becomes a draft part |
| `decideQuoteLine` | `ReadReject`, `Reject`; `ReadApprove`, `Approve` |
| `applyQuotesForPo` | `ReadConfirm` (`MatchesOrder`, `WinningQuote`), `Confirm` (`PatchSource`) |
| reconsider items | `OpenReconsider`, `ReadDismiss`, `Dismiss`, answered by `Approve` |

Abstracted: the landed cost that decides whether a tariff change opens an item (a choice),
automatic classification of a draft, the catalog import's batch upsert. The ghosts `uses`
and `mishaps` (`"race"`: two requests have overlapped; a removal on or before a first day)
are what the properties are conditional on.

### TariffGate and TariffReview

`TariffGate` is the promise: `Propose` adds proposals, `Approve` applies
some that wait, each of them once, in the step that changes the measures; when the
world is not `quiet` nothing is promised. `TariffReview` is the code: a release is a
function from codes to contents; `revision` has a row per (release, code), grouped into a
family or with a review item of its own; `familyItems` the successive items of a family
(a newer generation re-opens it); `measure` the windows.

| code | actions |
|---|---|
| `runTariffSync`: fetch and `loadTariffSyncState`, open revisions and diff, staging transaction | `SyncState`, `SyncDiff`, `SyncBegin`, `SyncCommit`, `SyncFails` |
| PATCH of a revision or a family | `ReadRevision`, `ReadFamily`; `Reject`, `ApproveRevision`, `ApproveFamily` |
| `applyOne`: plan from the live windows and program conflicts, write by id | `PlanMember`, `WriteMember` |
| `resolveAnnouncementIfTerminal`, commit, rollback | `Resolve`, `Commit`, `Abort` |
| a new release | `Publish` |

Row locks are explicit (`HeldBy`, `HeldBySync`, `Free`, `FreeMeasures`): a transaction's
writes stay in its frame until `Commit`, and others wait for the rows it has updated.
Abstracted: the text diff of a heading is a comparison of contents, the model's grouping
is "new codes of one release are a family", the reviewer's overrides are the choice of the
effective day. Left out: Federal Register notices, `update_in_place`, the heading-to-HTS mapping.

### BaseRelease

`windows` of `hts_codes` as a set of records with the release that last confirmed them
(`stamp`; `Seed` for the rows a bootstrap invented), `release` (announcement status and
archived schedule) and `item` (review items). A decision reads the pending item
(`ReadItem`), updates it and keeps its lock, reads the rest (`Derive`) and, past the guard
(`Sane`) or by the reviewer's override, writes (`ApplyRelease`); or `RejectRelease`. A sync
reads the live windows (`ReadLive`), then the pending items (`ReadPending`), then writes by
id (`StageRelease`). `PublishRelease` is a new or a reissued release. `RowAfter` and
`Opened` are `applyBaseSchedule`: close or correct by predicate, with the plan of the window
that was read. The parse of a rate and the indentation walk of the schedule are abstracted
to a rate per code.

### EntryLinking

`graph` holds the tables as sets: `rows` that exist, `filled` (created by their own
document, not as a stub), `edges` between business rows, `links` from documents, the
declared part of an entry's `line` and the `sheet` whose rows it has. `MatchDocument` takes
what the transaction looks up, `CommitLink` writes it (or waits for `FailDocument` when a
business number has been taken meanwhile: all have unique indexes), `PersistExtraction` is the
statement of `processDocumentRow` afterwards. Every case of `linkExtraction` is an operator that
says what it creates, attaches to and joins (`PortEntry`, `CargoRelease`,
`TariffCodeSheet`, `RefundReport`, `ShipmentPapers`, `PurchaseOrder`, `CommercialInvoice`,
`PackingList`, `QuotedPart`); `Reaudited` the entries the transaction audits last, `Facts`
what their audit reads. A `"new_part"` is a request that creates a part rather than a document.
Abstracted: header and line values, vendors, citations, one line per entry, the split of
packed order numbers.

### EntryAudit

One alert key per entry. `EditFacts`, `ReadRows`, `WriteAlerts` is a transaction that
changes what was filed or the catalog and audits on what it has written;
`ChangeReference`, `SnapshotEntry`, `ReadRows`, `WriteAlerts` is the sweep after a tariff or
rule change, which loads the reference once. `Reconciled` is `reconcile`: insert by key,
update and delete by id of the row that was read; `KeyTaken` the unique index; `Judge` the
PATCH of a person. `Raises` is the rules: which text follows from filing, catalog and
reference. The ghost `current` holds the entries whose last audit nothing has disturbed.

### DutyAudit

Both halves are pure, and the actions only vary their arguments: the measures in the
reference and the line (`DutyInit`), one more shipment (`LinkShipment`), the charges of a filing
(`Ingest`, over `Ways` and `BaseWays` to declare a measure and the base duty).
`Expected` is `computeExpectedDuties`: gates and sail dates (`Candidates`), one per code,
one per program, stacking, carve-outs, in the code's order and on a *sequence* of rows,
because the query has no ORDER BY. `Findings` is rules 1 to 4 of `rules.ts`
(`MissingMeasures`, `MissingBase`, `UnexpectedMeasures`, `Mismatches`). Amounts are percent
of the entered value. Assumed: the entry is past the trust gate, the line's code agrees with
the catalog, its country is known, an exclusion is in force as long as its measure. Rows of one code
and one rate, split by sail dates, are the reference's normal case (`db/seed-data/tariff.ts:298-327`): when the sail
date decides neither, the code keeps the row it reads first (`calculator.ts:268-284`). `HeadingsAssumption`, which both
theorems need, therefore allows them and asks that they have one `Duty` (the same exclusion, program, authority,
trigger and kind of rate), that other rows of equal rate in a program differ in age, and that ceilings which reach one
line have one code. A loop of the code is
`Loop`, a recursive function over the rows; the carve-outs run as many rounds as there are rows, after which
none is left to displace (`CarvedOutFacts`). Left out: the estimated sail basis, the other rules
(which compare two printed values each), invoices, fees, landed cost.

### AgentTurn

`turnLock` is `turn_started_at` (unset, recent, past the cutoff), `messages` the rows in the
order of `seq`. A turn claims the lock (`ClaimTurn`), reads the transcript and takes the next
seq (`ReadTranscript`), stores the question (`SaveQuestion`), asks the model (`Ask`), stores
what is new (`SaveFresh`) and releases (`Settle`); `CutOff` is the deadline or an error,
`SeqTaken` the unique index, `CrashTurn` the platform, `PassCutoff` time. `Wire` is what is
sent: `rebuildMessages` (`Repair`) and the new question, which joins a message of the user at
the end. Left out: titles,
the budget that elides old results, proposals (their decision is one guarded UPDATE).

## 3. Properties and runs

| run | instance | properties | shows |
|---|---|---|---|
| `recovery` | 2 drains, 1 handler, 1 entry, 3 rows, 2 faults, 1 retry | `OnePending`, `DocumentChangeServed`, `SoleRunner`, `RetriesBounded`, `OutcomeFinal` | overlapping sweeps both reclaim, count and re-queue without sharing a row, rewriting an outcome or exceeding the bound, and a linked document has a run that reads it unless that run ended in one of the ways `Excused` names |
| `fair` | 2 entries, 1 drain, a limit of one row, 1 manual request, 1 fault | `FirstRun`, `PendingClaimed`, `RunningEnds` | nothing waits for ever although a drain considers one row |
| `tariff` | 1 drain, 1 handler | `TariffChangeServed` (violated) | finding 1 |
| `records` | 2 runs, 1 person, 2 bases, 2 texts, reports of up to 2, 2 reconciles, 2 decisions; or up to three of eight measures, two of them the surcharge split by sail dates, with four kinds of line, two sail days and every way to declare them; or 2 requests of one part at a time, 4 in all, 2 codes, 2 days, 3 windows, 2 items | `Healed`, `JudgmentKept`, `ExpectationStands`, `FindingsFair`, `Tiled`, `CodeIsCurrentWindow`, `PendingShown` | a run nobody interfered with leaves exactly its report, whatever an earlier one left half done; the duty rules find what is wrong with a declaration and nothing about a right one; windows planned from stale reads still tile, and one after another, requests keep the projections of the windows and of the queue |
| `parent` | as `documents` | `ParentStands` (violated) | finding 5 |
| `documents` | 1 packet of 1 primary part, or a quote sheet, 1 request, 1 sweep of 2 slots, 2 faults, up to 4 splits | `SoleProcessor`, `FactsQueued`, `OutcomeStands`, `PendingEnds`, `ProcessingEnds` | one processor per document, no linked facts forgotten, no document stuck, no outcome rewritten by others. No statement touches the rows of two uploads, so a behaviour has one |
| `review` | 3 releases of 2 codes in two feeds, 2 decisions and a sync overlapping, 3 decisions and 3 syncs in all | `Implements`, `OneOpenRevision`, `WindowsTile`, `EveryChangeProposed`, `NothingStranded` | the review is the abstract gate; nothing is proposed twice, lost, stranded or overlapping |
| `sourcing` | 4 requests of every kind, 2 of them overlapping, 2 days, 2 costs, 3 windows, 2 quotes, 1 item | `SourcesTile`, `NeverInverted`, `AppliedOnce`, `HistoryStands`, `DecisionStands` | windows stay upright in every overlap, and disjoint one request at a time; history, decisions and applied quotes stand |
| `overlap` | as `sourcing` | `NeverOverlap` (violated) | finding 2 |
| `services` | see below | `ServicesTypeOK`, `RatesInForce`, `ReleaseAppliedOnce`, `PastRatesStand`, `WhicheverCameFirst`, `AlertsOfFacts`, `AuditHeals`, `JudgmentStands`, `TranscriptAccepted`, `OneTurn` | the base schedule, the entry graph, the alerts and a conversation, each in every interleaving of its own statements |
| `stranded` | as `services` | `StraysAdopted` (violated) | finding 3 |
| `polluted` | as `services` | `InferenceYields` (violated) | finding 4 |

`services` explores four components that share no table: a behaviour picks one and leaves the
others at their start, which reaches every state of each (`records` does the same for three). Its instances: two releases of two
codes with two rates, two items, two reviewers, a sync, two days besides the seed rows' (one per
effective date), two editions (a reissue) and two approvals; up to three of twelve documents in every order (7501s of two entries of
one order, a third that files the first again and prints its bill of lading in two ways, a release, a sheet and a refund report that print the entry number in their own
way, two invoices, shipment papers and a packing list that print the bill of lading in
theirs, two requests that create one part), two of them in process at once, one processed again;
one entry with two filings, two catalogs and two references under two auditors, two
updates and two judgments; three turns with two tool calls and two crashes, cut-offs
or outlived locks.

Every property of a passing run has a mutant in the module it is about (operators
preceded by a comment that begins "Mutant:"): a plausible bug of the code, put in the
place of the definition it mutates, violates the property under the run's own
configuration.

*Conditional properties.* Where the code is correct only for requests that do not overlap, the
property says so with a ghost variable and the run lets them overlap all the same:
`overlapped` (`PartClassification`, `EntryLinking`), `mishaps` (`Sourcing`, `TariffReview`),
`overlaps` (`BaseRelease`), `outlived` (`AgentTurn`), `upset` (`DocumentProcessing`).
The ghosts name *which* overlap it takes:

* `TariffReview`: decisions may overlap each other for all of the properties but `WindowsTile`
  (which needs decisions one after another and none that moves a first day back); only a sync that
  overlaps a decision excuses the rest.
* `Sourcing`: two requests that overlap (`"race"`) excuse `SourcesTile`, `HistoryStands`, `DecisionStands` and
  `AppliedOnce`; a removal on or before a first day excuses `SourcesTile`. `DecisionStands` is about *answered*
  items: an item that a sweep has superseded may still be dismissed (the PATCH accepts the status it
  read), which the attempt to prove an earlier form of the property brought out; with one item in
  the bounds that case was never reached, so the run has two.
* `EntryLinking`: `WhicheverCameFirst` is about a 7501 and a paper of which `Undisturbed` says that nobody who
  writes what they meet at was in process beside another: the two themselves, or, when they meet at a row
  that third documents write as well (a shipment, a part, the lines of the entry), all of those; and, for a
  release or a sheet, that no other 7501 has an entry number of the same digits. `AlertsOfFacts` excepts an entry one of whose
  7501s was in process beside an invoice (`Raced`). Both held in a weaker form only for the documents
  the run happened to have; the proof asked for these conditions, and the run got a document (`e3`, a second
  print of one 7501, with two prints of its bill of lading) that needs them. What documents say is a
  constant; `ContentAssumption` says what each kind is sure to carry.
* `AnalysisQueue`: after a run has missed a document, `DocumentChangeServed` wants a successor that is
  pending, running or succeeded with the document read, or a handler still queueing one. A successor
  that ended otherwise counts only where the code means it to (`Excused`): it *failed* and says so
  (failed entries are not re-seeded), it died and the sweep owes its retry, or the entry has spent
  its retries; and where the code loses it, which the property names rather than hides: it died and
  its sweep was cut off between the UPDATE and the INSERT (`forsaken`). A reclaim that drops an owed retry
  for any other reason violates it.
* `Tiled`, `NeverInverted`, `SoleRunner`, `OnePending` and `TranscriptAccepted` need no such excuse.
  `Healed` and `AuditHeals` speak of a run or an audit that nothing disturbed.

Bounds, and why they are enough. `MaxRequests` (requests or claims a behaviour
makes), `MaxFaults` and `MaxFails` (crashes and throwing statements), `MaxRuns` (rows),
`MaxReconciles`, `MaxDecisions`, `MaxSyncs`, `MaxReport`, `MaxSplits`, `MaxUpdates`,
`MaxJudgments`, `MaxArrivals`, `MaxReruns`, `MaxAtOnce`, `MaxEditions`, `MaxApprovals`, `MaxItems`, `MaxHeadings`, the days and the sizes of
`WindowIds`, `ItemIds`, `MeasureIds` and `SourceIds` cut behaviours short. The rows of different entries, parts,
codes or uploads hardly meet in a statement, so the races of the code are between actors over
the rows of one entry, one part, one release or one packet, and each run has at least two
such actors; the runs about what must happen in the end have two entries, or a packet and
its part, to compete for a drain. Every run finds the mutants of its properties well
inside its bounds. `MaxSplits` is `MaxRequests + MaxFaults + 1`, so the
bound never blocks a split and liveness is not blocked by it. `MaxArrivals` is three
because docking is about a pair of documents and a third that creates what they share.
The inductive invariants hold for every value of the constants (section 5), so
for those properties the bounds do not matter; one bound did: `ReleaseAppliedOnce` without its
exception for a late rejection holds with two overlapping reviewers and fails with three, which
came out of the attempt to prove it. Symmetry is used in the safety runs
over processes, codes, rates, rows and texts, never over days, releases or `RunIds` (which are
ordered) and never with liveness.

Deadlock is checked in the queue and document runs, where a sweep can always start; in
the others the requests, decisions or documents of a behaviour are bounded and
the system may come to rest, so `CHECK_DEADLOCK FALSE` is set.

Fairness (`FairSpec` of `AnalysisQueue` and `DocumentProcessing`): weak fairness of the
sweeps, because the cron fires again and again (`src/vercel.json`); of each step of a
started function, because the platform lets it run until it ends or is cut off (a crash
is an action, not a lack of fairness); of `Settle`, `Expire` and `Age`, because time passes.
Requests, registrations and faults are not fair, and faults are finite. The other components
promise nothing in time: they wait for people, and what a request does not finish the
database rolls back.

## 4. Findings

1. `tariff`: an apply that commits while an entry's *first* run is in flight queues
   nothing for it: the entry has no succeeded run yet, and it is not in the backfill's
   set either since it has a row. It ends analysed on replaced measures
   (`lib/analysis/service.ts:385`).
2. `overlap`: a source that is removed on its first day keeps that day (`planCloseDate`) and
   its successor may start on it, so two windows contain the day and `resolveWindow`
   answers by row order (`lib/effective-dating.ts:57`, against the comment at line 96).
   `SourcesTile` is what does hold.
3. `stranded`: a release or a sheet that is in process at the same time as its 7501 can
   miss it and be missed by it, since its extraction is stored after its link transaction; nothing
   looks again (`lib/processing/linker.ts:524`). `WhicheverCameFirst` is what does hold.
4. `polluted`: an invoice processed before the 7501 that names it is linked to every entry of its
   order, and the direct link that follows removes none of them
   (`lib/processing/linker.ts:1085`, against the comment at 1072).
5. `parent`: the claim of a child, or the UPDATE of a child's catch block, throws into the catch block of its
   packet and marks the packet failed after it was processed (`lib/processing/run.ts:188`, against the comment at
   185). `OutcomeStands` is what does hold. A quote sheet can be marked failed the same way by the query of its
   follow-up (`run.ts:170`), although "the document is already processed either way" (`run.ts:168`).

Behaviour worth knowing that is not among the runs.

*Queue, findings, documents.* The reclaim's UPDATE commits before the re-queue, so a sweep cut off in
between leaves the entry without a run although `service.ts:1036` promises one; the entry then waits for
its next change or a person (`forsaken` in `DocumentChangeServed`). The reconcile is not
one transaction (a run that dies mid-way leaves a mixture until the next clean run,
which `Healed` covers), and its UPDATE or DELETE by id may reach a row decided in between
(`JudgmentKept` says which). A classification that finds nothing supersedes the pending item and
leaves the part marked as awaiting review. A document that kills its runner every time is
reclaimed by every sweep, with no bound like `MAX_ABANDONED_RETRIES`.

*Tariff.* Approve against reject: both update the item by id, and the later one wins its status
while the measures stay applied. A sync that overlaps an approval may supersede what is being applied, or
re-open a family with a newer item through which it can be applied a second time (`sync.ts:63-66` calls the race theoretical). Two decisions that
settle the last two revisions of an announcement at once each miss the other's write, and neither
resolves it (`apply.ts:249`). A window is closed by id, so a plan from a stale read can extend a
window that was closed earlier (`apply.ts:589`); an in-place update may move a first day back or
re-open a window (`apply.ts:686`). A creation whose code has vanished from a later release stays
open, since the diff goes through the live codes; and a release fetched again after its rejection
re-opens the announcement. For a base release, a sync that has read the
pending item re-opens the announcement of a release applied meanwhile; a rejection that has read
it marks the applied item rejected and dismisses the announcement, and then a third overlapping approval can apply the release
again. The comment at `sync.ts:709` that the diff can never race an apply does not hold under READ COMMITTED,
though the apply derives again (`RatesInForce`). Overlapping approvals of two
releases may mix their windows.

*Sources.* Archiving and un-archiving a draft activates it without an approved quote; an
ingest may supersede a line approved after it looked; a removal by id may extend a window that an
edit closed meanwhile.

*Entries.* The audit of an invoice line counts the entries the invoice is linked to, and that of a
part depends on whether the organisation has a catalog at all (`auditor.ts:117`, `:228`): neither
is among the facts of the entries that are re-audited. Two stray sheets of one entry are
ingested in no particular order, and the later one's rows stay. A packing list finds
its shipment only when it prints the bill of lading as the shipment does.

*Duty.* A measure conditional on the sail date is dropped when an undated shipment is linked
beside one whose date is outside its window (`duty/sail.ts` skips unknown dates), although the
comment says "provably". Two base-duty charges of one line, or one Chapter 99 code declared
twice, can raise one alert key twice, which the unique index then refuses and aborts the link
transaction or the sweep. A heading suppressed only because no sail date is known can displace a
costlier one of its program. Of the two rows of the surcharge the one the query returns first lends its name
to the alert (`rules.ts:549-552`) when no sail date decides, so the text can change from one audit to the next
although the duty cannot. A charge of the right amount declared twice is silent.

*Conversations.* Releasing the lock does not check who holds it; its cutoff (360 s) is below
the 800 s a turn may live, so an outlived turn's end frees the lock of the next.
Two consecutive messages of the user can be stored, although a comment wants roles to alternate;
the API accepts that.

## 5. Proofs

All theorems hold for every value of the constants that satisfies the named `ASSUME`s
of the modules: the constants are of the expected kinds and null values
(`NoRun`, `None`, `Open`, `NoRow`, ...) and process sets are distinct from what they are compared with.
TLC evaluates the assumptions in every run. The bounds are arbitrary naturals, so no theorem
depends on how large they are.

| module | theorems |
|---|---|
| `AnalysisQueueProofs` | `TypeCorrect`, `QueueInvariant`, `OnePendingAlways`, `SoleRunnerAlways`, `DocumentChangeServedAlways`, `OutcomeFinalAlways`, `RetriesBoundedAlways` |
| `FindingReconcileProofs` | `FindingTypes`, `FindingInvariant`, `HealedAlways`, `JudgmentKeptAlways`, `KeysDistinct`, `DutyTypeCorrect`, `ExpectationStandsAlways`, `FindingsFairAlways` |
| `DocumentProcessingProofs` | `DocumentTypes`, `DocumentInvariant`, `SoleProcessorAlways`, `FactsQueuedAlways`, `OutcomeStandsAlways` |
| `PartClassificationProofs` | `ClassificationTypes`, `TilingInvariant`, `TiledAlways`, `OneAnswerAlways`, `CodeIsCurrentWindowAlways`, `PendingShownAlways` |
| `SourcingProofs` | `SourcingTypeCorrect`, `NeverInvertedAlways`, `SourcesTileAlways`, `AppliedOnceAlways`, `HistoryStandsAlways`, `DecisionStandsAlways` |
| `TariffReviewProofs` | `ReviewTypeCorrect`, `ReviewInvariant`, `OneOpenRevisionAlways`, `NothingStrandedAlways`, `EveryChangeProposedAlways`, `WindowsTileAlways`, `ReviewImplementsGate` |
| `ServicesProofs`, base releases | `BaseTypeCorrect`, `ReleaseAppliedOnceAlways`, `RatesInForceAlways`, `PastRatesStandAlways` |
| `ServicesProofs`, alerts | `AuditTypeCorrect`, `AuditHealsAlways`, `JudgmentStandsAlways` |
| `ServicesProofs`, conversations | `TurnTypeCorrect`, `OneTurnAlways`, `TranscriptAcceptedAlways` |
| `ServicesProofs`, entry graph | `LinkInvariant`, `LinkTypeCorrect`, `WhicheverCameFirstAlways`, `AlertsOfFactsAlways` |
| `ServicesProofs`, together | `ServicesTypeCorrect` |

*Queue.* `OnePending` alone is not inductive: an apply transaction's rows appear at its
commit. `Uncommitted` says that nobody has a pending row of an entry such a transaction
has inserted, because the unique index makes others wait. `SoleRunner` needs
`HeldRunning` (a held row is running and inside the cutoff, so no claim and no
reclaim can take it) and `ExpiredRunning`. `DocumentChangeServed` needs `Unread`
(a row still to read has missed nothing: the pending row that a touch
relies on will read the change), `QueueShape`, and `ReclaimShape` (a sweep has given up on dead rows only,
each by one sweep, and only a sweep's call re-queues). Its step says what becomes of the row that serves
or is excused (`StandStep`): alive it goes on, ends, or dies in a reclaim whose sweep owes the retry
(`AliveStep`); dead it stays dead, and the debt stays until the entry has a pending row, has spent
its retries or the sweep is cut off (`OwedStep`), through the count, the batches by trigger, the touch and
the conflict. `OutcomeFinal` is an action
property of the same invariant. `RetriesBounded` compares a counter with a number of rows, which two overlapping
sweeps read before either writes. `RetriesPaid` pays for every retry with a death: the re-queues of an entry and the calls that may
still insert one never outnumber its dead runs that no sweep owes any more, and together with the rows granted
a retry they never exceed the bound. To an entry a step is one of four things (`TokenStep`: it spends nothing,
inserts, grants what was counted, or turns a granted row into a call's target); the dead stay dead
(`DeadStay`), and the rest is the cardinality of finite sets.

*Findings.* `Reached` tells how far an undisturbed reconcile has come, statement by
statement; `Planning` and `Guarded` say that only rows read as open are in a plan and that a
judged row is in none. `Healed` and `JudgmentKept` follow. `KeysDistinct` (two
findings of a report never get one key) counts ordinals with the cardinality theorems.

*Documents.* `HeldProcessing` (a document in work is processing and inside the cutoff,
unless its row was deleted) gives `SoleProcessor` and `OutcomeStands`. `FactsQueued` is derived from four
parts rather than carried through each step: `Registered` (nothing is known of a part
without its upload), `OneGeneration` (all parts on file are of the last split),
`PartsOnFile` (a processed packet has all of its parts on file) and `NothingOwed` (a
processed document owes nothing). If a fact is owed, then either its document is not
processed, or its part was deleted by a re-split; then its packet is either not
processed yet, or has a part of the same role on file, which owes the fact and so is
not processed. The steps are proved in classes
(resting, stepping, claiming, ending, advancing) that disturb the same parts.

*Classifications.* `Tiled` needs `StartsSeen`: the start of the window a request has
read does not move before the request commits, because a correction leaves it and a
successor only sets the end; and `Covered`: a part with a history has a current window.
`SuccessorKeeps`, `SameDatesKeeps` and `FirstWindowKeeps` are the three things a commit
may do. `OneAnswer` is then a fact about `Resolved` on disjoint windows. `CodeIsCurrentWindow` and
`PendingShown` hold while requests take turns, so their invariant `SerialInv` is itself conditional on that
(`StartsAlone`, `GoesOnAlone`): the one request in flight has read what is there, the part's code is that of its
current window and its status that of its pending item. The step that begins a second request falsifies
the condition, and every other step belongs to the one in flight.

*Sources.* `NeverInverted` is about writes by id of a window that was read: `SawHeld` says that
the row is still there and begins where it did when it was read (rows are never deleted and no
write moves a first day), so the comparison of the read still bounds the write. Every write is
shown to make the table "grow" (`SourcesGrow`), which keeps every other request's `SawHeld`.
The other four rest on `SerialInv` (what a request has read is still true; a line was used once if it
is applied and never otherwise; a part that is not in the catalog has nothing) and, for `SourcesTile`, on
`TilingInv`: two windows are apart, and where the next one will begin every window has ended.
Both are conditional on the same mishaps as the properties.

*Tariff review.* The invariant has three layers. `Sound` holds whatever overlaps: the subject of a decision is
there (`SubjectSound`), what it has written are rows of the codes it has done or rows with another end
(`PutsSound`), and the row locks keep two transactions from writing one item or one measure (`LocksApart`).
`Calm` holds until a sync has overlapped something: what a sync has found about a code still
holds when it commits (`SyncFound`), a revision that has a successor is closed (`OlderClosed`), decisions on one
family are on one item (`OneFamilyItem`), what a transaction has locked nobody else applies (`Unapplied`), and every
revision that is open or being decided says what the newest release says (`AllAccounted`). `Orderly`
holds while decisions take turns: the windows with the writes of the decision in flight laid over them tile
(`ViewTiles`), and the plan it has made fits them (`PlanFits`, `NewestFits`). The four safety
properties follow from one layer each; `EveryChangeProposed` once excepted approvals that move a first day
back, which the proof showed to be unnecessary. `ReviewImplementsGate` maps each step: the commit of a
staging transaction proposes what it stages (`SyncCommitProposes`), the commit of a decision applies
what waits, once each, by `Unapplied` (`CommitApproves`), and every other step stutters.

*Entry graph.* Documents are linked concurrently, so what one has matched may be out of date when it
commits. `Reads` bounds by how much: what a document in process has read is behind the tables only by rows that a
document in process beside it wrote. `Left` says what a committed document has left in the tables;
`MeetByDigits`, `MeetByPacket`, `MeetByPart` and `OneShipment` say for each way in which two papers find each other
that the one that comes second finds what the first left. `WhicheverCameFirst` is then a case per kind
of paper. `AlertsOfFacts` is inductive together with these: the entries a transaction does not audit
keep the facts their audit read. TLC checked `LinkInv` on the instance of `services` and on a larger one
before it was proved.

*Base releases.* `OneDerived` is the row lock of the item, `OnePending` the unique index. `Unused`
says why one approval is enough: an item that is pending was never applied, and an item that
a decision has read is either unused, or the decision is before its lock and will find
the release resolved. It holds while nothing has re-opened a release (`Clean`): without the
second half of that condition, a late rejection, the step of `RejectRelease` could not be
proved, and TLC then showed the behaviour of three reviewers that section 4 tells.
`RatesInForce` needs `OneLive` and `DecisionsApart` (while decisions on two
items have not overlapped, the decision that holds the item knows the live windows).
`PastRatesStand` follows from a lemma about each window before and after an apply.

*Alerts.* `FreshAll`: an audit that nothing has disturbed knows the text its entry deserves
and, once it has read, the row that stands, so what it writes heals. Every other step
either disturbs the frame or leaves what it knows true. `JudgmentStands` needs only types.

*Conversations.* `LockHeld`: while no living turn's lock has passed the cutoff, the lock is held
as long as a turn runs, since only the turn that took it releases it. `OneTurn` follows. `TranscriptAccepted` is about transcripts
of any length and goes by induction over their rows (`UpTo` of `Induction`): the rows stay `Paired` (a row's results answer the row before it), even when
a turn is cut off between a use and its result or another turn's rows come in between, and by `RepairChained`
each piece of the rebuilt transcript answers exactly what the pieces before it leave open.

*Duty rules.* Each loop of the calculator is characterised as a function of the *set* of rows it gets: one
lemma says that its recursive function exists and what it does at a row (`AmongExists` and the like), one what has
been computed after the first n rows (by `UpTo`). A filter keeps the rows it lets through (`AmongFacts`), one row of each
code is among the costliest (`OnePerCodeFacts`), of a program the row stands that none of its tier beats
(`OnePerProgramFacts`), a stacking rule removes a loser (`StackedOrderFree`), and the rounds
of the carve-outs remove exactly the rows displaced at the start, because what displaces is not displaced itself
(`CarvedOutFacts`). Which of two rows of one code and rate comes through depends on the order, so two orders are compared
by `Alike`: one row of each code on either side, with the same duty. The choice by code makes two orders alike
(`OnePerCodeAlike`), and programs, stacking and carve-outs keep them alike (`UnbeatenAlike`, `StackedAlike`,
`DisplacedAlike`). So the duty is a function of the set, which is half of `ExpectationStands`; the
other half is that, where nothing is undecided, every day passes the same rows (`CandidateEachDay`). `FindingsFair` needs of the expectation only
that it reaches the line and has one measure of each code (`ExpectedFacts`): then the rate a charge is compared
with is that of the expected measure of its code (`OfficialRateFacts`), and the ceiling that replaces the base duty is unique
(`InLieuFacts`). The inductive invariant is a type, `DutyTypeOK`, whose one further conjunct, that only base charges have no
code, keeps a base charge from passing for a measure's; both hold for charges of any number and amount,
not only those of `Ways`.

*The services together.* `ServicesTypeCorrect`: a behaviour of `MCServices` is a behaviour of each of its four
components (`ServicesRunApart`), so what is proved of one holds beside the others.

*Induction.* The induction theorems of the library take an operator as a parameter, which the provers cannot
instantiate. `Induction` states them for sets: `Least` (a nonempty set of naturals has a least element, from the
well-foundedness of strict inclusion of finite sets) and `UpTo`; `Recursion` follows: a step within a set has iterates. With them each recursive function is shown
to exist and to have its values (`RepairExists`, and one lemma for each loop of the duty calculator).

Only model-checked: all liveness (`FirstRun`, `PendingClaimed`, `RunningEnds`,
`PendingEnds`, `ProcessingEnds`), since it rests on fairness, which the prover cannot
treat; and the violated properties. Every invariant and every action property that a passing run checks is also a
theorem.

## 6. Plan

Written, in this order: `AnalysisQueue` (the part that spends money and decides what
users see), `FindingReconcile`, `EffectiveDating` and `PartClassification`,
`DocumentProcessing` (which discharges an assumption of the first); then `TariffGate` and
`TariffReview`, `Sourcing` with its quotes, `BaseRelease`, `EntryLinking`, `EntryAudit`, `DutyAudit`,
`AgentTurn`, and the proofs of all of them. Next:

1. Composition: an abstract "an entry's facts are analysed" specification, with
   `DocumentProcessing` and `AnalysisQueue` as its two halves.
2. `Intake`: registration of a file by key and content hash, and the catalog import's batch upsert.
3. The trust gate and the invoice rules in `DutyAudit`.

## 7. Not modelled, and why

Of the implementation's lines the models map about one in eight. The rest is, by size:

* pages and components (`src/components`, `app/**/*.tsx`): they render, and call the routes that are
  modelled;
* queries (`lib/db/queries`), `lib/variance`, `lib/events`, `lib/future-entries`, exports: read-side
  projections computed per request, without state of their own;
* seed data, generated migrations and one-off maintenance scripts (`src/scripts`,
  `lib/db/seed-data`, `src/drizzle`);
* extraction schemas, prompts and parsers of printed formats (`lib/processing/reducto`,
  `normalize.ts`, `import-file.ts`, `base-etl.ts`'s indentation walk, special-rate and quantity-unit parsers): text in, fields
  out, with unit tests of their own; the models take their results as values;
* providers (storage, models, feeds): external; a call answers, throws or is cut off;
* landed cost, fees, quantity units, refund amounts and the audit rules that compare two printed
  values: arithmetic without a choice of order;
* document intake beyond the new row: key re-use and content-hash dedupe are check-then-insert
  without a unique index, so a double submit registers a file twice; its hazard is listed
  without a property;
* sign-in, organisations and pins: thin wrappers of a hosted service.

Within the modelled components, section 2 names what each module abstracts or leaves out, and
`PROJECT.json` gives each component its status.

## 8. Running

    tlc -workers 2 -config MCAnalysisQueue_recovery.cfg MCAnalysisQueue
    tlapm DocumentProcessingProofs.tla

`PROJECT.json` names every run with its module and configuration. The longest runs
(`records`, `services`, `recovery`, `fair`, `documents`, `review`, `sourcing`) take one to four minutes on two workers; the proofs
take up to eight minutes per module (`TariffReviewProofs`, `ServicesProofs`).
