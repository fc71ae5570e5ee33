# paperscraper in TLA+

This directory holds formal models of the server side of paperscraper, the TLC
configurations that check them on small instances, and theorems about them
with proofs for TLAPS. Paths are relative to the repository; `modules/`,
`jobs/` and `core/` are short for the directories of those names in
`src/paper_scraper/`.

Contents: [the system](#the-system), [components](#components),
[what the models share](#what-the-models-share), [the modules](#the-modules),
[runs and bounds](#runs-and-bounds), [fairness](#fairness), [proofs](#proofs),
[where code and text disagree](#where-code-and-text-disagree),
[what is not modelled](#what-is-not-modelled), [plan](#plan),
[how to run it](#how-to-run-it).

## The system

paperscraper collects scientific papers for universities and technology
transfer offices, scores them with a language model, and follows what becomes
of them. It consists of

* an HTTP API (FastAPI). A handler is an async function with a database
  session of its own (`core/database.py`, `get_db`): the session commits when
  the handler returns and rolls back when it raises;
* a worker (arq on Redis, `jobs/worker.py`) that runs about thirty kinds of
  tasks, enqueued by handlers, by other tasks or by a cron table. Most tasks
  open one session with `get_db_session`, which has the same rule;
* PostgreSQL, where all lasting state is, at READ COMMITTED, with unique
  indexes and foreign keys and almost no explicit locks;
* Redis (queue, job results, login lockout, token blacklist), an object store
  (MinIO/S3), an embedding service, an LLM, source APIs (OpenAlex, Crossref,
  arXiv, PubMed, Semantic Scholar, Lens, EPO, USPTO), a mail service, a search engine.

The components hardly ever call one another across processes. They interact
through rows: a handler writes a row and enqueues a job with its id, the job
reads the row in another session and writes it, handlers of other requests
read and write it meanwhile. What is hard in this code is therefore

* a check in one statement and the write that relies on it in a later one,
  with an `await` in between and no lock;
* the order of "enqueue the job" and "commit the row";
* several commits in one task, and what the state is when the task is
  cancelled by `job_timeout`, crashes, or raises between two of them;
* an exception handler that writes a failure into the session that its own
  exception is about to roll back, or that a failed statement made unusable;
* a session shared by a loop over independent items;
* caches and lookup tables filled before something changes.

## Components

State, operations, difficult behaviour, and what makes each component correct.
`PROJECT.json` lists the same components with their sources, and the hazards
with their lines.

**Ingestion** (`modules/ingestion`, `jobs/ingestion.py`,
`jobs/repository_sync.py`). State: runs with a status, source records (one per
organization, source, id and content hash), a cursor per source and scope,
papers. Operations: queue a run; execute it: claim, fetch a batch after the
cursor, insert the records that are new, normalize and resolve them to papers,
move the cursor, complete; sync a repository source. Hard: overlapping runs of
one scope, redelivery of a finished run, failures at every statement,
transactions that wait for each other, papers deleted under a run. Correct when
the cursor never passes what was not stored, a stored record is resolved, no paper
is inserted twice, and a failed job leaves nothing behind.

**Paper identity** (`modules/papers/upsert_service.py`). State: the papers and
the lookup tables of one batch. Operations: prefetch, merge a record into a
paper, create a paper. Hard: three keys with a precedence, of which a paper may
gain some while the tables do not. Correct when importing is idempotent, the
precedence is followed and a merge replaces nothing.

**Research groups** (`modules/projects`, `jobs/research_groups.py`). State: a
group with a sync status and counts, memberships, clusters, embeddings.
Operations: create, sync, delete; the job imports, embeds, clusters and
publishes in several commits. Hard: the job is enqueued before the handler
commits, papers are deleted during the job, timeouts. Correct when READY means
nothing is under way, clusters and counts are published together, and clusters
hold members.

**Submissions** (`modules/submissions`). State: a submission with a status,
decision and link to a paper, attachments, analyses. Operations: create, edit,
submit, attach, review, analyze, convert. Hard: every handler checks a status
it read and writes without looking again. Correct when papers come from
decided submissions, the link is exact and the workflow does not run backwards.

**Scoring** (`modules/scoring`, `jobs/scoring.py`). State: jobs with counters,
scores, a score cache by DOI that all organizations share. Operations: score a
paper on request, score the papers of a job, read and write the cache, expire
it. Hard: one session for all papers of a job, papers deleted during an LLM
call, reruns, knowledge sources changed during a call. Correct when the final
status and counters tell the truth and the cache carries nothing that belongs
to one organization.

**Members and invitations** (`modules/auth`). State: users with roles, pending
invitations. Operations: register, invite, accept, cancel, change a role,
deactivate, reactivate, delete an account. Hard: counting the administrators
that remain and then changing one; two invitations at once. Correct when an
invitation makes one account, an address is offered one place, and an
organization keeps an administrator.

**Sessions, lockout and blacklist** (`modules/auth`, `core/token_blacklist.py`,
`core/account_lockout.py`). State: signed tokens that nobody stores, and Redis
keys that expire. Operations: login, refresh, logout, change or reset of the
password, deactivation. Hard: counter, window and lockout are three commands;
a revocation is a key that is overwritten and forgotten. Correct when a revoked
token stays revoked until its last second and a counter at its limit means a locked account.

**Library** (`modules/library`). State: the full text of a paper, its chunks,
highlights that quote chunks; a tree of collections. Operations: hydrate,
generate, edit, and the deletion of the paper. Hard: a request waits for the
network or the LLM in the middle of its transaction, and three kinds of requests
lock the same rows in different orders. Correct when the chunks are those of one
text, a highlight is linked to what it quotes, a deleted paper leaves nothing
behind, and nobody waits for ever.

**Alerts, reports, retention** (`modules/alerts`, `modules/reports`,
`modules/compliance`, `jobs/alerts.py`, `jobs/reports.py`,
`jobs/retention.py`). State: results of the day, `last_sent_at`, logs.
Operations: the three nightly jobs, and users who edit the rows they go over.
Hard: mail leaves before the commit that records it; where a transaction ends
differs from job to job. Correct when what is recorded as sent was sent, a mail
is repeated only after a crash, a deletion is logged, and one organization's
trouble stays its own.

**Webhooks** (`modules/developer`, `jobs/webhooks.py`). Deliveries with retries;
nothing in the repository dispatches an event to them.

**Discovery** (`modules/discovery`, `jobs/discovery.py`). A loop over all
profiles in one session; a statement refused for one profile takes the others
with it. Its effect on groups is an action of GroupSync.

**Technology transfer** (`modules/transfer`), **badges** (`modules/badges`).
Stages of a conversation and awards of users, each a read and a write.

**Zotero** (`modules/integrations`). Runs of a sync, items imported through the
upsert service. Its items are bundles of PaperUpsert.

**Queue and sessions** (`jobs/worker.py`, `core/database.py`). Modelled in every
module as they appear there, see below.

CRUD without asynchronous parts, read-only aggregation, clients of remote
services, migrations and the frontend are listed in `PROJECT.json` with the
reason they are left out.

## What the models share

The modules describe the code in terms of what PostgreSQL, SQLAlchemy and arq
do. These are the assumptions; everything else is translated from the source.

* **Transactions.** A transaction reads what is committed when its statement
  starts. Where no step of another actor can tell the difference, writing and
  committing are one step: from its first UPDATE to the commit a transaction
  holds the row lock, so others wait. Where the difference matters (Ingestion,
  Reader) each statement is a step and the waits are explicit.
* **Unique indexes.** An insert whose key an open transaction has inserted
  waits for it, and fails if that transaction commits. PostgreSQL breaks a
  cycle of waits by aborting one of its transactions. `ON CONFLICT DO NOTHING`
  waits as well and then inserts nothing.
* **A failed flush** leaves a SQLAlchemy session unusable: every later
  statement raises until somebody calls `rollback()`. That is why the
  per-record fallback of the pipeline cannot help after a refused row, and why
  one refused score ends a scoring job (`broken` in Scoring).
* **The ORM writes the attributes that changed** against the value it loaded;
  an attribute set to the value it had is not in the UPDATE.
* **arq** does not enqueue a job id whose job or result is still in Redis,
  keeps a result for an hour, runs a job again when its worker died (up to a
  number of tries), and does not run again a job that raised or was cancelled
  by `job_timeout`. The cancellation is a `CancelledError`, which
  `except Exception` does not catch.

Data is abstracted to what the properties tell apart: records, papers, DOIs
and texts are model values, remote answers are nondeterministic choices, time
is the possibility that something has expired.

## The modules

| module | models | state (code) |
| --- | --- | --- |
| `Ingestion` | pipeline, run service, router, resolver, both tasks | `run` = ingest_runs.status, `srcrec` = source_records, `papers`, `checkpoint` = ingest_checkpoints; `job` = arq; `api` = the handler; from `pc` on, the session that executes a run |
| `IngestLedger` | what ingestion promises: atomic import of one window of a source | `recorded`, `library`, `cursor` |
| `PaperUpsert` | `upsert_many` | `papers`, and of the open batch `work` (its view), `lookup` (three tables), `found` (results), `todo` |
| `GroupPage` | what the page of a research group promises | status, counts, members, clusters |
| `GroupSync` | projects router and service, sync task | `group`, `members`, `rows`/`clusterOf` = clusters, `stored`/`papers`/`embedded`; `create`, `request` = handlers; `job` = arq; `pc`, `fresh`, `read`, `total` = the task |
| `Submissions` | every writing handler | `sub`, `paper`, `attached`, `files`, `scores`; per request `phase`, `kind`, `about`, `seen` |
| `Scoring` | `score_paper`, batch task, job rows, cache | `papers`, `embedded`, `latest`, `cache`, `knowledge`, `job`; `arq`, `tries`; `work` = a call of `score_paper`, `batch` = the locals of a task |
| `ScoreBoard` | what the row of a scoring job promises to a client that polls it | `job`, `tries`, `papers`, `scored` |
| `Accounts` | nothing: the constants that the next two share | none |
| `Membership` | members, invitations, accounts | `user`, `inv`, `orgs`; per request `phase` and `ask` (caller, kind and arguments) |
| `Sessions` | login, tokens, lockout, blacklist | `active`, `resets` = users; `token` = what clients hold; `blacklist`, `invalid`, `failed`, `lockout` = Redis keys with their expiry; `now` |
| `Reader` | full text, chunks, highlights | `library`, `full`, `chunks`, `high`; per request `phase`, `about`, `text`, `stored`, `seen`, `shown` (what its statement sees), `gone`, `held`, `made` (rows it has locked) |
| `Nightly` | alerts, scheduled reports, retention | `job` = the one that is followed, `row`, `record`, `aged`, `mails`; of the attempt `todo`, `at`, `left`, `pend`, `broken` |

`MC*` modules name the model values and give the constants that are functions;
`*Proofs` hold theorems. Definitions whose comment
begins with "Mutant:" are variants of a definition with a plausible bug. No
specification uses them. `Sessions` calls its parts `SessionInit`, `SessionNext`,
`SessionSpec` and `SessionTypeOK`, because `AuthProofs` extends it together with
`Membership`. Each property has one that violates it
(`PROJECT.json`, "mutants"): this is how the properties themselves are tested.

### Ingestion

`POST /ingestion/sources/.../runs` commits a QUEUED run and then enqueues it
(`CreateQueuedRun`, `EnqueueJob`, `EnqueueReturns`); when the enqueue raises it
marks the run FAILED, whether or not Redis has the job (`EnqueueRaises`). The
task is one transaction: it reads the checkpoint, then the run (`StartJob`,
`CheckRun` or `RejectRun`, `ClaimRun`), fetches (`Fetch`, `FetchRaises`),
inserts the records one by one (`PersistRow`), normalizes them
(`NormalizeBatch`), prefetches papers and resolves record by record
(`Prefetch`, `SkipRecord`, `FailRecord`, `MatchPaper`, `CreatePaper`,
`CreateRaises`; `bulk` tells `resolve_many` from the fallback), enters the outcomes
into the records (`ResolutionRaises` when one names a paper that is gone), writes the
checkpoint (`ChooseCheckpoint`, `WriteCheckpoint`, `CheckpointRaises`) and
commits (`Commit`). A repository sync creates its run inside the transaction.
The two tasks differ in how they lose: `ingest_source_task` lets the exception
out, so what the except clause wrote is rolled back (`LoseFailure`); the sync
task catches it, so FAILED is committed (`CommitFailure`). The environment
aborts, picks a deadlock victim, crashes the worker and redelivers; users delete
papers (`DeletePaper`), which takes the paper from the records that name it.

`Papers` are rows by what the unique indexes of `modules/papers/models.py:160-177`
compare, a DOI or a source and its id. `Works` are titles with their years, the
third key of the upsert (`modules/papers/upsert_service.py:102-107`): it is looked
up (`Matches`) and no index covers it, so an insert waits for and collides with a
row of the same keys only (`ResolveWaitsFor`, `CreateRaises`), and two batches that
overlap may both create a work whose rows share no such key. What a merge adds to
the keys of a row is in PaperUpsert. The row locks a merge takes are left out, and so
is the refusal of a merge into a deleted row, which ends the job as
`ResolutionRaises` does.

Properties: `CursorCovered`, `RecordsResolved`, `OneCreator`,
`RedeliveryHarmless`, the refinement `AtomicImport`, the liveness
`EveryJobEnds`. `RecordsResolved` says that a record has lost its paper only to a
deletion (`gone` is the history of those). `OneCreator` is as strong as the indexes
allow: a row has one creator, and one run creates a work once; it does not say that
a work has one row. `RedeliveryHarmless` is worth a look: a redelivered
job of a completed run does write FAILED into it, and only the rollback undoes
that. Its mutant is the harmless-looking repair of the lost FAILED (below).

The feed of a scope is a sequence and the cursor an offset into it: what
Crossref, arXiv, PubMed, Semantic Scholar, Lens and USPTO are asked for.
OpenAlex's cursor is a token that stays on the last page, which is then fetched
again and consists of duplicates. The EPO connector is outside the model: it
moves its cursor by what it got and always asks for the first page
(`modules/ingestion/connectors.py:320-356`, `modules/papers/clients/epo_ops.py:112`),
so its cursor passes records it never fetched.

### PaperUpsert

`StartBatch` is the prefetch. The query by title returns its rows in no stated
order and the code keeps the first, under (title, year) and (title, no year):
`first` and `ofYear` are any choices an order allows. A bundle is merged
(`MergeExisting`) or creates a paper that is entered into the tables
(`CreatePaper`); `CommitBatch` or `RollBack` end the batch, and rows that break
a unique index (`Refused`) leave only `RollBack`. Between batches papers are
created in other ways and deleted.

`KnownStays` and `CreatesOnce` hold, and `NonDestructive` (nothing of a stored
paper is replaced) is proved. The first two assume `TidyTitles`: `lower(title)` in the query
(`modules/papers/upsert_service.py:211`) is compared with a title in which
runs of white space have been replaced by one blank. A stored title with odd
white space is thus found in the batch that creates it and never again.

Left out: letter case (queries and index ignore it alike), coercion of unknown
sources, blanks around ids, authors. Batches that overlap are in Ingestion.

### GroupSync

The handlers are split at the enqueue: `CreateProject` (flush),
`CreateEnqueue`, `CreateCommit`; `SyncLoad`, `SyncEnqueue`, `SyncCommit`. The
job has a step per commit or per read whose result is used later: `StartJob`,
`MarkImporting`, `GroupNotFound` or `NothingTracked`, `Import`, `AddPapers`,
`EmbedPapers`, `MarkClustering`, `ReadEmbedded`, `CountPapers`, and
`SkipClustering` or `SaveClusters`. `JobFails`, `JobTimesOut` and `Crash` may
come at each of them. Around it, groups and papers are deleted and a discovery
profile adds papers. k-means is any partition of the papers it is given.

`ReadyIsSettled` and `ClustersHoldMembers` hold, and so does the refinement
`PageIsTrue`: seen from the page, which `GroupPage` describes without handlers,
queue and crashes, a sync adds papers and then publishes clusters, counts and
READY in one step, with clusters of papers the group has at that moment and a
count no smaller than the papers in them. `GroupPage` says `Settle` where the code
publishes no clusters: with fewer than two embedded papers
(`jobs/research_groups.py:191`) the group becomes READY with `cluster_count` 0
while its old clusters stay, of which at most one paper is then in one.
`PublishedTogether`, the action property about replaced clusters, is proved.

### Submissions

A request reads the row and checks it (`Check`; an upload stores its file
before that, `StoreFile`), and later writes what differs from what it read
(`Write`) in the step that commits. Between the two, other requests may do the
same: `seen` is the row as it was read. The status "under_review" is accepted
by the code and written by none of it.

`LinkedToItsPaper`, `PaperWasReviewed` and `AttachmentsAreStored` hold
whatever overlaps. What the error messages promise holds only of requests that
work on a current row (`NoneStale`); stated that way it is `OnlyDraftsAreEdited`,
`OnlyDraftsAreSubmitted` and `ApprovalIsKept`. The runs check the three that
relate several requests; all are proved.

### Scoring

Requests and jobs share `score_paper` (`Embed`, `BuildContext`, `SaveScore`
with `WriteCache`, `ScoreVanishes`); a request may be answered with a score of
the last 24 hours (`ReturnRecent`) or from the cache (`StartFromCache`,
`SaveFromCache`). A job has one session: `broken` says that the database has
refused a statement and nobody rolled back, so every later paper fails
(`PaperFails`) and so does the last status update (`FinishFails`). The loop counts
a paper as completed before it writes its progress, in the `try` whose `except`
counts it as failed: when the write raises, the paper counts twice and the page is
left as it was (`ProgressRaises`). A paper whose score is committed but not read
back counts as failed only (`AfterSaveFails`). A set of weights stands for the
overall value computed with it: `weights` is what a score names, `used` is what
its value was computed with.

`CompletedIsScored`, `KnowledgeStaysHome`, `CacheCommitsWithScore`, the
refinement `BoardIsTrue` and the liveness `JobEnds` hold. `ScoreBoard` is what a
client that polls a job sees: the row changes only when another attempt begins,
when one more paper is done, which has its score or was deleted, and when a
final status tells how many failed. The counters leave no paper out and neither
exceeds the papers, but their sum may: that is the double count above, which
`Advance` and `Finish` admit and bound (whatever was completed and is not on the
page counts as failed too). An attempt does not reset the counters, so the page
shows those of the attempt before until the first paper of the new one is done.
`JobEnds` names the two ways a job stays open: its session broke in its
last attempt, or arq gave it up after a timeout or its last crash.

`KnowledgeStaysHome` is about the knowledge sources of an organization. The
prompt also holds abstracts of similar papers, private market feeds and
references (`dimension_context_builder.py:186`, `context_service.py:172-204`);
they do not count as knowledge there, neither in the code (`service.py:169`) nor
in the model.

Left out: usage rows (that logging them fails is in `AfterSaveFails`), a commit
that succeeds while its answer is lost, the `arq_job_id` column, scores of single
dimensions, classification, pitches.

### Membership

Three steps per request: `Admit` reads the caller (`get_current_user`,
`require_admin`), `Check` reads what the request is about and applies the checks
of the service (`CanInvite`, `CanAccept`, `CanChangeRole`, ...), `Commit` applies
the writes (`CreateTeamInvitation`, `AcceptInvitation`, `UpdateUserRole`,
`SetActive`, `DeleteAccount`, `Register`) if the database lets it: the unique
index on addresses, the foreign key of the inviter, a row that is gone. Between
the steps anything may be committed; `Fails` may come at each.

`JoinedByInvitation` is about the accept of an invitation that overlaps other
accepts and its cancellation. `OffersBounded` says how many places an address
can be offered: as many as requests overlap, so one when none do.
`LastAdminLeaves` is the exact reach of the guard "Cannot remove the last
admin": beyond it are only the deletion of one's own account, whose guard
compares a column with `is True` and never fires, and a request whose caller
has lost the role, or the account, while it was in flight.

### Sessions

A token is valid until it expires unless a key says otherwise: `blacklist` for a
token that was logged out, `invalid` for all tokens of a user issued before a
second. Every Redis command is a step: `CountAttempt` (INCR), `SetWindow`
(EXPIRE), `Lock` (SETEX), `RecordSuccessfulLogin` and `UnlockAccount` (DEL),
`Logout`, `InvalidateUserTokens`, the latter before the `CommitChange` of the request
that called it. `Tick` lets a second pass and removes the keys and tokens that
expire. The commands that record one failed attempt fall into one second, and
Redis answers.

`RevokedIsRefused` relates the keys to a history of what was revoked: keys are
overwritten, expire, and the account may be activated again; tokens may be issued
in between by a refresh that had been checked before. It is an invariant because
the key of a user outlives every token it is about. The key of a single token does
not: `Logout` writes it for the whole seconds that are left (`lag`), or not at all
when there is none, so in its last second or two a logged-out token may be accepted
again, and the property claims no more than that it is refused until then.
`LockedAtTheLimit` needs `Window <= LockTime`, which the
constants of the code satisfy.

### Reader

A hydration is `Fetch`, `DeleteChunks` (the DELETE begins), `LockChunk` for each
chunk, `LockHighlight` for each highlight of one (ON DELETE SET NULL), `WriteText`
if the text was fetched, and `Hydrate` or `HydrateRefused`. The session has
`autoflush=False` (`core/database.py:40`), so `paper.full_text = ...` reaches the
database with the flush of the new chunks, after the DELETE: the row of the paper is
locked last. The INSERT waits for a transaction that deletes the chunk at its place,
and fails if one is left there (`Clash`), which is how two first hydrations from
different sources end. A generation is `ReadChunks`, `DeactivateOld` and
`LockHighlight` (the UPDATE), `AskLLM`, then `SaveHighlight` for each quote, which
locks the paper and the quoted chunk FOR KEY SHARE, or `SaveRefused` (the foreign
key), and `CommitHighlights`. The deletion of the paper is `FindPaper`, `LockPaper`,
the locks of the cascade, and `DeletePaper` or `AlreadyDeleted`. `seen` and `shown`
are what a statement saw when it began, `gone`, `held` and `made` the rows a
transaction has locked. `Abort` is the deadlock detector, for a ring of any length.
Highlights may be switched and deleted by users meanwhile.

`ChunksOfOneText` and `LinkedToTheQuotedChunk` hold because the database refuses
one of the two requests, `NothingOutlivesItsPaper` because rows refer to a paper that
is there; `RequestsEnd` holds because deadlocks are broken. They occur between two
requests (a generation holds the highlights and needs a chunk, a hydration holds the
chunk and needs the highlights) and in a ring of three: the deletion holds the paper
and needs a chunk, the hydration holds the chunk and needs a highlight, the
generation holds the highlight and needs the paper. The instance reaches both.
What does not hold, and is not claimed: that `papers.full_text` is the text of the
chunks, and that the highlights of only one generation are active.

### Nightly

The three jobs share no rows and run at different hours, so a behaviour follows
one of them (`job`, chosen in `Init`). They have the same shape and differ in
where a transaction ends: `CommitAlerts` once for all alerts, `CommitReport` after
each report and without a rollback when it fails, `CommitOrg` once for the
policies of an organization. `Crash` makes arq run the job again, `Timeout` ends
it, `NewDay` starts the next day. Users create, switch and delete what the job
goes over (`Create`, `Switch`, `Delete`), and a report may be stamped by hand
(`RunReport`). The tasks for single, weekly and immediate alerts have the body
of the daily one.

Whether mails leave at all is the configuration's, `keyed` (`RESEND_API_KEY`, unset
by default), chosen in `Init`: without the key `send_email` returns as if it had
sent, and alerts and reports are recorded as sent all the same (`Sends`).

`SentWasMailed` and `MailedAgainOnlyIfLost` say what "mail, then commit" gives: no
record without a mail where there is a key, and a second mail only for an attempt
that was lost. Without a key `SentWasMailed` claims nothing, because there the code
records what was never mailed. The converse does not hold: a failure after the
mails leaves them unrecorded, and as the next search covers one day only they are
not repeated either.
`DeletedIsLogged` is the transaction of a policy and its log; `OrgsAreIndependent`
is a liveness property: an organization all of whose policies can be applied
gets them applied, some day.

## Runs and bounds

Twelve runs: eleven pass, one shows a disagreement (below). States are the
distinct ones TLC reports. A property that needs nothing its neighbours do not
already exercise is proved and not run (`AttachmentsAreStored`,
`OnlyDraftsAreEdited`, `OnlyDraftsAreSubmitted`, `NonDestructive`,
`PublishedTogether`, `CountsAddUp`, `AttemptShrinks`, `JobShrinks`, `RunGoesOn`,
the type invariant of Reader).

| run | what it asks | instance | states |
| --- | --- | --- | --- |
| `ingestion_cross` | deadlocks, redelivery, liveness: `TypeOK`, `RecordsResolved`, `OneCreator`, `EveryJobEnds` | one API run and one sync of two scopes that publish one common record, two papers in opposite order and a work under two identifiers; deletions; two crashes | 141,717 |
| `ingestion_batch` | cursors and batches: `CursorCovered`, `RedeliveryHarmless`, `AtomicImport` | one API run and two syncs of one scope of five items in batches of two: a duplicate, a malformed, an unresolvable and a refused record; deletions; one crash | 888,723 |
| `group_sync` | `TypeOK`, `ReadyIsSettled`, `ClustersHoldMembers`, `PageIsTrue` | two groups, one without OpenAlex ids, two papers, two jobs, a re-sync, deletions, discovery, one crash | 636,849 |
| `submissions` | `TypeOK`, `LinkedToItsPaper`, `PaperWasReviewed`, `ApprovalIsKept` | one submission, five requests of any kind, three in flight, three texts | 111,498 |
| `scoring_job` | `TypeOK`, `CompletedIsScored`, `BoardIsTrue`, `JobEnds` | a job of two papers, one with a DOI; two tries | 89,928 |
| `scoring_cache` | `KnowledgeStaysHome`, `CacheCommitsWithScore` | two organizations, a paper each with one DOI, two sets of weights, two requests | 80,636 |
| `paper_upsert` | `TypeOK`, `KnownStays`, `CreatesOnce` | five records and three direct papers that share DOIs, ids and titles; batches of two; three rows | 73,364 |
| `membership` | `TypeOK`, `JoinedByInvitation`, `OffersBounded`, `LastAdminLeaves` | three accounts, two addresses, two organizations, two invitations, two requests in flight | 203,063 |
| `sessions` | `SessionTypeOK`, `RevokedIsRefused`, `LockedAtTheLimit` | one account, three tokens, two requests in flight, lives of three and four seconds, four seconds | 548,740 |
| `reader` | `ChunksOfOneText`, `LinkedToTheQuotedChunk`, `NothingOutlivesItsPaper`, `RequestsEnd` | one paper, with or without text, chunks and highlights; a text of one chunk and one of two; three requests; one highlight that is edited by hand | 111,716 |
| `nightly` | `TypeOK`, `SentWasMailed`, `MailedAgainOnlyIfLost`, `DeletedIsLogged`, `OrgsAreIndependent` | three alerts, one of them in-app; two reports; two organizations with three policies, one of which always raises; with and without a mail key; two cuts | 354,035 |
| `group_sync_lost` | does a sync settle? | one group, one re-sync, two jobs | violated |

**Why these bounds.** Each hazard needs two actors and one disturbance, some
need three actors.

* `MaxCrashes` (1 or 2): a crash returns the session to where it began, so a
  second one meets states a first one can leave behind; with two, both jobs of
  `ingestion_cross` can crash, or one job twice.
* The feeds of `ingestion_cross`: each scope publishes the common record at the other
  end of its batch, so the run that comes to it second waits for the other transaction
  and then has a duplicate, or the row to itself when the other aborted; the twins of one title make a row of which the other batch knows nothing.
* `Limit` 2 with five items: a run needs three batches to reach the end, so runs
  start before, at and behind the cursor of others, and a batch may be full,
  partial or empty. The bad records each share a batch with a good one.
* `Requests`, `Jobs`: every conflict in the code is between two; with a third in
  flight (`Overlap` 3 in `submissions`) one request can change what two others
  have read. Five requests suffice to submit, review twice, convert and edit.
* `MaxTries` 2: a job is crashed once and runs again; the third try adds nothing
  that the second does not.
* `MaxBatch` 2 and three `Ids`: an identity conflict is between two bundles of a
  batch and a stored paper. When no id is free `CreatePaper` is disabled; an
  open batch can then still roll back.
* `Users`, `Invs`, `Requests` in `membership`: two administrators of one
  organization who act on each other need two accounts and two requests; the
  third account is who joins. Ids are not given out twice, so three accounts also
  bound the length of a behaviour.
* `sessions`: a refresh token outlives an access token by one second, a key has
  to survive the longest of them, and the third second lets a token issued at the
  revocation be told from one issued before and one issued after it. Users share
  no key, so there is one.
* `reader`: a ring of three needs a hydration, a generation and a deletion. The
  chunks and highlights of former requests are in the initial states.
* `nightly`: with two cuts an attempt can be lost twice in a day, or once in each
  of two days. One organization has a policy that works and one that raises, the
  other one a policy that works.
* Groups, papers: two, so that papers are shared and clusters may have one or two
  members; fewer than two embedded papers is the early exit.

The theorems have no bounds; the runs are the place where actions that are
never enabled or properties that are vacuous show.

**Symmetry** is used in runs without liveness only: sync runs of one scope
(`ingestion_batch`), papers, requests and jobs of groups that list the same
papers (`group_sync`), requests and complete texts (`submissions`), requests
(`scoring_cache`), ids of papers (`paper_upsert`; its `CHOOSE` picks from sets
that the unique indexes keep at one element), everything (`membership`), tokens
and requests (`sessions`). `reader` has a liveness property; there the requests,
which are alike, are named in the order in which they start (the action
constraint `InOrder`), which leaves out renamed behaviours only.

**Deadlock.** `paper_upsert` is checked for it. Elsewhere
`CHECK_DEADLOCK FALSE`: runs, requests, jobs and crashes are finite sets that a
behaviour may use up, and a system nobody asks anything of rests. That accepted
work does not get stuck is `EveryJobEnds` and `JobEnds`.

## Fairness

`Ingestion!Fairness`: weak fairness of `Worker(r)` and `DeadlockVictim(r)` for
every run. arq hands out what is queued and its event loop keeps executing the
task it holds; a statement that waits for a row resumes when the other
transaction ends; PostgreSQL's deadlock detector runs. Weak fairness is enough:
a disabled `Worker(r)` waits for an open transaction, and if these wait in a
circle the detector's step stays enabled. Nothing obliges a client to create a
run, the cron to enqueue a sync, Redis to accept a job, or anything to fail.

`Scoring!FairSpec`: weak fairness of `TaskStep(j)` for every job, for the same
reason. Requests, enqueueing, deletions, timeouts and failures are under no
obligation.

`Reader!FairSpec`: weak fairness of `\E q : Step(q)`: as long as some handler can go
on, one does. A handler goes on when its statement does; a statement that waits
resumes when the other transaction ends, and of those that wait in a ring one is
aborted (`deadlock_timeout`). More is not needed, because a request has finitely many
steps. Clients owe nothing, and nothing has to fail.

`Nightly!FairSpec`: weak fairness of `Work` and `NewDay`. The worker holds its job
and goes on, and the cron starts the next one. `Work` is one action, because the
job is one coroutine; crashes and timeouts are bounded, mails and searches may
fail for ever.

The violated property is a safety property, so its counterexample does not
depend on fairness.

## Proofs

Eight modules. The constants are any that satisfy the named ASSUMEs of the
module, which TLC evaluates in the runs. Beyond them nothing is assumed.

| theorem | states |
| --- | --- |
| `IngestionProofs!TypeCorrect`, `CursorNeverPasses`, `RecordsAreResolved`, `PapersHaveOneCreator`, `RedeliveriesAreHarmless` | `[]TypeOK`, `[]CursorCovered`, `[]RecordsResolved`, `[]OneCreator`, `RedeliveryHarmless` |
| `IngestionProofs!ImportsAreAtomic` | `Spec => AtomicImport`: Ingestion implements IngestLedger |
| `IngestionProofs!JobsEnd` | `Spec => JobShrinks`: each step of the worker at an accepted job leaves less to do |
| `GroupSyncProofs!TypeCorrect`, `ReadySettled`, `ClustersAreSound`, `ClustersPublishedTogether` | `[]TypeOK`, `[]ReadyIsSettled`, `[]ClustersHoldMembers`, `PublishedTogether` |
| `GroupSyncProofs!PagesAreTrue` | `Spec => PageIsTrue`: GroupSync implements GroupPage |
| `SubmissionsProofs!TypeCorrect`, `LinkIsExact`, `ConversionFollowsReview`, `AttachmentsHaveFiles`, `EditsNeedADraft`, `SubmissionNeedsADraft`, `ApprovalPersists` | `[]` of the invariants, and the three action properties |
| `PaperUpsertProofs!TypeCorrect`, `IdentityStays`, `ImportCreatesOnce`, `NothingIsReplaced` | `[]TypeOK`, `[]KnownStays`, `CreatesOnce`, `NonDestructive` |
| `ScoringProofs!TypeCorrect`, `CompletedScored`, `CountsRight`, `KnowledgeIsHome`, `CacheWithScore` | `[]TypeOK`, `[]CompletedIsScored`, `[]CountsAddUp`, `[]KnowledgeStaysHome`, `CacheCommitsWithScore` |
| `ScoringProofs!BoardTrue` | `Spec => BoardIsTrue`: Scoring implements ScoreBoard |
| `ScoringProofs!AttemptsEnd` | `Spec => AttemptShrinks`: each step of an attempt at a job leaves less to do |
| `AuthProofs!TypeCorrect`, `OneAccountPerInvitation`, `LastAdminIsKept`, `OffersStayBounded` | of Membership: `[]TypeOK`, `[]JoinedByInvitation`, `LastAdminLeaves`, `[]OffersBounded` |
| `AuthProofs!SessionTypeCorrect`, `RevokedStaysRefused`, `LimitMeansLocked` | of Sessions: `[]SessionTypeOK`, `[]RevokedIsRefused`, `[]LockedAtTheLimit` |
| `ReaderProofs!TypeCorrect`, `ChunksAreOfOneText`, `LinksAreRight`, `DeletionIsComplete` | `[]TypeOK`, `[]ChunksOfOneText`, `[]LinkedToTheQuotedChunk`, `[]NothingOutlivesItsPaper` |
| `NightlyProofs!TypeCorrect`, `SentAlertsWereMailed`, `RepeatedMailsAreLostAttempts`, `DeletionsAreLogged` | `[]TypeOK`, `[]SentWasMailed`, `[]MailedAgainOnlyIfLost`, `DeletedIsLogged` |
| `NightlyProofs!RunsEnd` | `Spec => RunGoesOn`: each step of a nightly run takes something off its lists |

Hardly any of these invariants is inductive. Each module defines `IInv`, proves
`Init => IInv` and `IInv /\ [Next]_vars => IInv'` with one lemma or step per
action, and reads the theorems off it. What the strengthenings say:

* **Ingestion.** The cursor is written from values that a session fetched long
  before, so `SessionInv` says what an open session knows. `BaseCovered`:
  everything before the cursor it started from is committed. `BatchCovered`:
  every record of the window up to its position is committed or in its own
  inserts. `OutcomeKnown`: what it inserted has an outcome by the time it
  commits. `PaperKnown`: the paper of an outcome is of the record's work and is committed, its
  own, or one whose deletion will stop the session.
  `Ordered`: a run exists before its job, a job before its session. Only papers are
  ever taken away: `lost` holds those a session found and has missed the deletion of, and a
  session that writes has none of them in its links, which keeps these facts about one
  session through the steps of all others.
* **Creators.** `OwnPapers`: the papers a session has inserted are in no table and
  in no other session, which is what waiting for the unique index gives;
  `OwnRecords`: each was created by one of its records, and no two of a work. `Once`: a run
  commits once, so what it has written before cannot meet what it writes now.
* **Redelivery.** `Unfinished`: a session is at work only on a run that has not
  succeeded. A run of the API was found queued; a sync creates its run, and a job
  whose sync has committed is not handed out for the same run again.
* **Refinement.** Only `Commit` changes `srcrec`, `papers` and `checkpoint`; every
  other step is a stutter of IngestLedger. That a commit is an `Import` needs
  `Provenance`: the window is not longer than `Limit` (`Bounded`), the rows of
  a session are in no table and in no other session (`Exclusive`; this is where
  waiting for the other inserter counts), and its papers come from its rows
  (`MadeFromRows`).
* **Jobs of Ingestion.** `Left(r)` bounds the steps a delivery has left, `10 + 3 * Limit`
  when it is handed out: both loops walk the window, the second one with a lookup, a
  fallback and a resolution for each record. Its steps lower it, whatever waits and
  aborts come between, and only arq raises it, once for the job and once for each
  crash. Only what `IInv` knows about positions (`WindowBounds`) is needed: a session
  never stands past its window.
* **GroupSync.** `OneJob`: arq's id leaves at most one job of a group queued,
  running or kept, so nobody else is at work when one publishes; `Working`: a
  job is at work exactly while it runs. `Library`, `FreshRecords` and
  `ReadMembers`: what the job read is still a member with an embedding unless
  the paper, or the group, is gone; `NotYetCreated` and `RequestsAsk` tie the
  handlers to their rows.
* **Pages.** That a step of GroupSync is one of GroupPage needs what a job that has
  counted still knows when it publishes: `JobPage`, that the count is of a set of
  papers that includes those in clusters and those it is about to cluster unless
  one of them is gone, in which case `SaveClusters` fails. `Forward`: papers and
  groups that are gone stay away.
* **Submissions.** `SessionKnows`: what a request that passed its checks may rely
  on although the row may have changed: the row is there, and a decision once
  made does not disappear. `ApprovedIsDecided`: an approved row has one. The
  action properties rest on a lemma that the UPDATE of a request whose row is
  current writes what its handler meant.
* **PaperUpsert.** `Sound`: an entry of a lookup table names a paper with the key
  it is under. `WorkKeeps`: the open batch has taken nothing from a committed
  paper. `Full`: a bundle that has a paper finds one in the tables, which is the
  heart of `CreatesOnce`. `FoundMatches`: results match their bundles.
* **Scoring.** `Tally`: the counters of a task leave out no paper before its
  position, each of them counts a paper at most once, and without a failure every paper before its position is scored or gone.
  `CacheIsClean`: no entry of the cache was computed with knowledge. `Placed`:
  an actor knows nothing but what the organization of its paper knows.
  `Attempts`: a job that waits has a try left.
* **Score board.** `OnBoard` ties the counters on the page to those of the attempt:
  what it completed since it last wrote, or since it began, failed as well, because
  the write did. `CountsOn` is what a step does to them that writes nothing.
  Everything else in Scoring is a stutter of ScoreBoard, but for
  the steps that save a score or delete a paper.
* **Attempts.** `Steps(j)` bounds the steps an attempt has left: seven for each
  paper that is not done, and a few before and after. Every step of the task
  lowers it and nobody else raises it, so fairness only has to say that the steps
  are taken, and `MaxTries` bounds the attempts.
* **Membership.** `WellFormed`: what a request that passed its checks is about.
  `IdsUsed`: the ids of rows have been given out, so a new account is nobody
  else's. `LastAdminLeaves` is proved from the commit of each kind of request: a
  caller who still is an active administrator is the one who remains.
* **Offers.** `OffersBounded` counts, and its bound is not inductive: an acceptance
  whose invitation was used up by another one (`Stale`) brings an account and takes
  no offer away. `Room`: as long as there is such a request, one place is free.
  `OneAddressEach` is the unique index; `OrgsGiven` says that rows are about
  organizations that exist.
* **Sessions.** `Lifetimes` bounds the life of a token, `KeyOutlives` says when the
  key of a user is the last invalidation and when it may be gone, `LoggedOut` the
  same of a single token, whose key may go a second early; together they give `RevokedIsRefused`. `CounterSafe`:
  the counter at its limit either has a request that is about to lock the account,
  or a lockout that outlives the counter. This is where `Window <= LockTime` is used.
* **Reader.** `Sees`: of the chunks a paper has now, a deletion sees either all or
  none, because they are replaced as a whole, and what it sees is by requests that are
  over (`MadeBefore`), so the chunks of an open one are new to it. `Locked`: rows that
  are locked are still there, and a text is written only after all the chunks that were
  seen are deleted. `Apart`: no chunk is locked twice if one of the two deletes it, and no
  highlight is made of a paper that is being deleted. What the unique index lets through
  replaces all the chunks (`HydrationReplaces`), since every text has a chunk 0.
* **Nightly.** `Unsent`: what an attempt has not come to was mailed by lost attempts
  only (`MailsCounted`). `PendingTrue`: what the transaction will record has
  happened. `Idle` and `AtHand` say where the job stands.
* **Nightly runs.** The steps of a run go down in the order of the items that are left,
  then of the policies left of one organization, then of what is at hand. No number is
  needed, and no bound on the rows: users can neither lengthen the lists a run has read
  nor put back what it has taken off them.

Left to TLC: liveness (`EveryJobEnds`, `JobEnds`, `RequestsEnd`,
`OrgsAreIndependent`), because fairness and ENABLED are out of the prover's reach,
and the violation, of which a single behaviour is the proof. Their parts
that are safety are proved: `JobShrinks`, `AttemptShrinks` and `RunGoesOn` say that work
that is taken up is finite; what TLC adds is that the steps are taken. No module declares a recursive operator.

## Where code and text disagree

One of them is a run; its counterexample is the scenario.

* `group_sync_lost`: `modules/projects/router.py:105` and `:233` enqueue before
  the commit. The job of a new group may find no row and end; the job of a
  re-sync may reach READY before the handler's commit sets "importing". Either
  way the group is shown as importing and no job is left.

Modelled, and visible in the models as behaviours that are allowed:

* `jobs/ingestion.py:31` lets the exception of the pipeline leave
  `get_db_session`, which rolls back the FAILED the pipeline had just flushed
  (`LoseFailure`): the run stays QUEUED for ever.
  `tests/test_ingestion_pipeline.py:321` asserts FAILED, in the session that was
  not rolled back.
* `modules/submissions/service.py:361` checks a status that may be out of date, so a
  second reviewer decides on a converted submission, and two submits of one
  draft both succeed.
* `jobs/scoring.py:98`: a paper is counted as completed before its progress is
  written, and as failed when the write raises; `completed + failed` then exceeds
  the papers of the job (`ProgressRaises`).
* `modules/scoring/service.py:714` caches the overall value computed with the
  caller's weights, where `modules/scoring/models.py:157` says "default equal
  weights".
* `modules/papers/models.py:160-177` has no unique index over title and year, the third
  key of `upsert_many`: overlapping batches may both create such a paper (`CreatePaper`).
* A merge gives a paper its DOI and does not enter it into the lookup table
  (`modules/papers/upsert_service.py:357`), so a second record of that DOI in the
  batch creates a paper that the unique index refuses, and the batch is lost at
  every attempt (`Refused`).
* `modules/auth/service.py:1037`: `User.is_active is True` compares a column
  object with `True`; the guard for the sole administrator never fires
  (`DeleteAccount`). `:813` counts inactive administrators, and `:848` looks at
  no count at all, because one cannot deactivate oneself.
* `modules/auth/service.py:593`: EXPIRED is flushed and rolled back by the error
  that follows, so the invitation stays pending and blocks a new one. With two
  pending ones `scalar_one_or_none` at `:543` raises.
* `core/token_blacklist.py:49`, "Store with expiration matching token expiry": the
  lifetime is truncated to whole seconds (`:43`), so the key lapses up to a second
  before the expiry and is not written at all when less than a second is left, and
  the token is accepted again until the second of its expiry is over (`Logout`).
* `modules/library/service.py:356`: of two first hydrations that overlap the unique
  index refuses the one that inserts last, after both have fetched, and its request
  fails; nothing ties `full_text` to the chunks when it is edited elsewhere.
* `modules/alerts/email_service.py:43-45`: without `RESEND_API_KEY` sending a mail
  answers "skipped" and does not raise; `modules/alerts/service.py:508` ignores the
  answer and records SENT (`Notify`).
* `modules/alerts/service.py:489`: mails leave before the one transaction of all
  alerts commits; when a later alert makes it fail, the results of those already
  mailed are lost.
* `jobs/reports.py:197`: there is no rollback in the except clause, so after a
  report whose row was deleted the remaining ones fail too. `:142` swallows the
  errors of the mail service, and the report is stamped as sent.
* `modules/reports/service.py:205`: running a report by hand stamps
  `last_sent_at` and queues nothing (`RunReport`).
* `modules/compliance/service.py:294`: "Persist the error log" is rolled back by
  the exception it precedes, and with it the other policies of the organization.
  Policies on conversations and submissions always raise (`:382`, `:410`), as
  does anonymizing papers (`:361`), and so stop the others every night.

Seen while reading, without a run:

* `modules/ingestion/pipeline.py:167` says "Fallback to single-record resolution
  to preserve per-record outcomes". After a refused row the session raises at
  every statement, so all outcomes of the batch are lost (`CreateRaises`). For
  a record the resolver itself rejects the fallback works (`FailRecord`).
* `jobs/repository_sync.py:240`: a schedule must match the very minute at which
  the cron looks (00:00, 06:00, 12:00, 18:00); "30 6 * * *" is never due.
* `modules/scoring/service.py:420`: `completed_at` is not set for
  "completed_with_errors" (`ended` in Scoring).
* `modules/integrations/service.py:541-548`: a Zotero item is looked up by its bare
  key and stored under `zotero:<key>`, so an item without DOI whose title was
  changed misses its own paper and is refused (`Refused` in PaperUpsert, with
  the bundles called `Item`).
* `jobs/bulk_score.py:209`: the checkpoints import `core.redis`, which does not
  exist; every load and save of a checkpoint is a logged error.
* `modules/ingestion/connectors.py:320`: the EPO cursor, see Ingestion.
* `jobs/reports.py:50` and `:70` format a number with a conditional inside the
  format specification, which always raises: two of the report types are never
  sent.
* `modules/scoring/orchestrator.py:219`: a dimension whose LLM call fails gets 5.0,
  which is stored and cached for every organization like an answer.
* `modules/library/service.py:453`: two collections moved under each other at once
  both pass the check for cycles.
* `modules/badges/service.py:394`: an award that exists already rolls back the
  whole session, and with it the awards of the users handled before.
* `jobs/webhooks.py:90`: `dispatch_event_to_webhooks` has no caller.

## What is not modelled

`PROJECT.json` has the full list with reasons. In short: HTTP clients and
connectors, prompts and parsing, embeddings and search (data, or external
engines); CRUD without a second actor; analytics, trends, export, audit
(read-only); billing and webhooks (nothing calls them); sharded scoring,
embedding and ingestion and Bedrock polling (no route or cron enqueues them);
migrations and frontend. These are most of the lines of the repository: of the
about 58,000 lines of implementation the part with state that several actors
share is a fraction, and that part is what the modules stand for. Modelling the
rest would add definitions without a property that could fail. Within modelled
components: the wording of errors, counters in statistics, audit rows,
pagination, authors, the tree of collections, tags, branding, the export of
personal data.

## Plan

What remains, in the order of what it would add:

1. **Collections** and **badges**: the tree under concurrent moves, and the rollback
   inside the loop over users; both only show what the lists above already say.
2. **Discovery**: the loop over profiles composed with GroupSync through `Discover`,
   and the loop over due sources that one refused enqueue ends.
3. **A converse for Nightly**: what would have to be stored before the mail so that
   a lost run is reported on the next day.
4. **The composition** of GroupSync's `Import` with Ingestion.

## How to run it

In this directory:

    tlasany Ingestion.tla                                   parse a module
    tlc -workers 2 -config IngestionBatch.cfg MCIngestion   check a run
    tlapm IngestionProofs.tla                               check proofs

`PROJECT.json` names the module, the configuration and the expected outcome of
each run, the lines each definition stands for (`map`), the hazards, and the
theorems. The longest run takes about two minutes on two cores, the longest proof
module a few minutes.
