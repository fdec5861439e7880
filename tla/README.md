# Verification of a Civic Hub

TLA+ models of the parts of Civic Hub whose correctness depends on what happens
when people act at the same moment, on requests that die half way, and on writes
that lose a race. The modules are translated from the source at one commit;
`PROJECT.json` maps every definition to the lines it models.

## The system

A hub is an Express application on serverless functions with a Postgres
database (Supabase). There is no long-lived server state that matters: every
request is a separate invocation, the requests of a hub run at the same time,
and all coordination goes through the database. Writes that must be atomic are
SQL functions (`transition_process`, `cast_ballot`, `submit_for_review`, ...)
or single conditional UPDATEs; everything between two database calls
interleaves with every other request, and an invocation can end at any point
(timeout, deploy, failed call).

| Component | State it keeps | Operations | Hard because |
|---|---|---|---|
| `civic.vote` (`packages/civic.vote`) | `state` of a vote: status, supporters, total_votes, result | propose, support, unsupport, activate, vote, close | actions computed from an image of the row that may be stale |
| process engine (`services/processService.ts`, `transition_process`) | the `processes` row: status, state, version, `close_claimed_until` | executeAction, archive, restore, deadline close | read, compute, conditional write, retry; descriptor check that only reports in production |
| ballots and receipts (`civic.receipts`, `cast_ballot`) | `vote_records`, `vote_participation`, `active_vote_keys` | cast, change, count, forget keys | a ballot and a close at the same moment; the answer to a voter lost |
| event log (`events/`) | `events` | insert with the write it reports | events of a write that lost must not be there |
| briefs (`processes/spawnBrief.ts`, `packages/civic.brief`, `services/briefRegenerate.ts`) | one brief process per closed source, its versions, officials' responses, the source's summary | spawn, edit, approve, regenerate, publish or discard a revision, respond | spawned outside the close's transaction; mails and events go out before the save that may be refused; two rows written one after the other |
| review queue (`modules/civic.review`) | `process_reviews`, `review_turns`, the row's `pending_review` | submit, approve, request changes, revise, decline, withdraw | several writes per decision, compensation on failure |
| sign-in codes and sessions (`modules/civic.auth`, `control/auth.ts`) | codes with tries, rate-limit buckets, accounts, sessions | ask, type, follow a link, sign in on a demo, designate, leave the demo, delete the account | two guesses at once, limits read before they are taken, an email that fails after it was counted |
| meeting summaries (`packages/civic.meeting_summary`) | one process per meeting, with its text, sources, flag, staged revision | the scheduled run; edit, approve, accept, discard, archive, restore | a run that works for minutes on what it read at its start, is cut off, and matches meetings by id, documents or date |
| digest (`jobs/digest.ts`) | each subscriber's `last_digest_sent_at` | run on schedule or by hand, subscribe, mark sent | send and mark are two calls; events and hidden processes are read at different moments |
| events (`packages/civic.event`) and edits of a live process (`services/processEdits.ts`) | the event's row, its row on the calendar, who is going | publish, go, leave, announce, edit, cancel, close, archive, restore | the calendar and the mails follow the commit in calls of their own; words are written with no version check |
| settings cache, plugins, AI budget | per-instance caches, counters | switch on/off, spend | stale caches, counters at their limit |
| the other process types | rows of their own | as declared in their manifests | the engine's hazards, with simpler lifecycles |
| control plane, feeds, news, UI | copies and renderings | export, import, format, send | external services and formatting |

What makes each correct: a result counts every voter and never changes; no
endorsement or ballot is overwritten; the log says exactly what happened; a
submission is published once or not at all; a code signs in once and a limit is a
limit; the job never overwrites an admin's words or a published page; an event is
mailed once and not skipped; a brief's officials get what was published, and no
version of it is lost; an event's calendar row follows it, a takedown and a
cancellation stay, and the people going hear of what happened and nothing else.

## Modules

- **VoteLifecycle** - the constant part: statuses, which are public, which take
  actions, the vote's transitions, what the descriptor declares.
- **VoteProcess** - one vote with its row, ballots, poll book, log and brief,
  and the concurrent requests on it. A request is a record in `req[t]` whose
  `pc` says which database call comes next: `attempt` (read the row and decide),
  `ballots` (a close counts), `write` (`transition_process`), `check` and `cast`
  (`cast_ballot`), `reply`, `claim` (the deadline job), `after`, `find`, `spawn`,
  `created`, `aggregated` (the brief). `Crash` drops a request anywhere.
- **VoteOutcome** - what a vote promises, with no requests in it. VoteProcess
  implements it (`ImplementsOutcome`).
- **MCVoteProcess** - VoteProcess for TLC, with its symmetry.
- **VoteProcess_proofs**, **VoteLog_proofs**, **ReviewQueue_proofs**, **SignInCodes_proofs**,
  **MeetingSummaries_proofs**, **Digest_proofs**, **Briefs_proofs**, **Events_proofs** - the
  theorems about each module. VoteLog_proofs is about VoteProcess too, and rests on
  VoteProcess_proofs.
- **ReviewQueue** - one draft on its way to the public: the draft, its review, the
  review's turns, the process row, the type's own row (proposals) and the log are
  separate tables that a decision writes one call at a time. `req[t].pc` is again
  the next call. `Fail` is a call that did nothing, the second disjunct of
  `becomes` one that took effect and whose answer was lost, `Crash` an invocation
  that died before its catch block; `thrown` is what the catch blocks do.
  `ProcessType` chooses how an approval publishes: a vote by an action that must
  run (`activate`), a proposal by a write and then its own row (`goLive`,
  `onApproved`), a conversation by a write and then a start at an outside service
  that may be down.
- **SignInCodes** - the codes, account and sessions of one address, in a hub or in
  the console (`realm`). One set of rules (`codeRules.ts`) serves both; they differ in
  links, in the account and in what a failed email leaves behind. `Type` and `Link`
  may come from anyone who has, or guesses, a code.
- **MeetingSummaries** - the meetings of one date and title, which is the hard case of
  the job's matching; the job's run (`job[r]`, from `Discover` to `PassEnds` over a
  creating and an upgrading pass, one meeting a step) and the admin's requests. The maps
  that match meetings to summaries are built once, from what the run read at its start
  (`asRead`), and are not brought up to date as it saves.
- **Digest** - the log, the subscribers' cursors and the runs over them. Time is ticks
  since each cursor was moved, not a growing clock, so the state space is finite and
  liveness is checked without a horizon.
- **Briefs** - one brief and its source: every request reads, mails or emits, and saves
  last.
- **Events** - one event and its edits. A request holds the calls it still has to make
  (`todo`), so the order in which the code makes them is data: `calls`, `cancelCalls`,
  `editCalls`. `attemptAction` and `transitionProcess` are the engine's, as in
  VoteProcess; the rules of public statuses come from VoteLifecycle.
- **MCReviewQueue**, **MCSignInCodes**, **MCMeetingSummaries**, **MCDigest**,
  **MCBriefs**, **MCEvents** - the same for TLC, with symmetry where it is sound (not with liveness).

### How the state corresponds

| Variable | In the hub |
|---|---|
| `row` | the `processes` row: status, version (bumped by the `processes_version` trigger on every UPDATE) and `state` |
| `claim` | `close_claimed_until` is in the future |
| `ballots`, `voted` | `vote_records` by receipt, and the poll book `vote_participation` |
| `browser` | the receipt and change key a browser keeps |
| `production` | whether the deployment is one that only reports undeclared writes |
| `past` | the vote's deadline has passed |
| `log` | `events`, counted by type |
| `brief` | the tally in the brief's content, None when there is none |
| `draft`, `review`, `turns` | the draft's status, `process_reviews.status`, `review_turns` |
| `proc`, `own` | the submitted process's row, the `proposals` row with its id |
| `codes`, `emails`, `hour`, `wrong` | `sign_in_codes` rows, and the hits of the minute's, the hour's and the wrong tries' rate-limit buckets |
| `account`, `sessions` | the `users` row of the address with its `demo_only` mark, `sessions` by assurance |
| `docs`, `scheme` | what the connector lists for a meeting, and which connector makes its `source_id` |
| `rows`, `job`, `req` | the summary processes; a run's snapshot, pass and position; an admin's request with the row it read |
| `cursor`, `age`, `inbox` | `last_digest_sent_at` as a position in the log and as ticks since it; what each mailbox got |
| `brief`, `source` | the brief process with its versions and `source_state_on_publish` (`owed`); the source's summary and `kept` earlier ones |
| `cal`, `going` | the event's row in `calendar_events`; `calendar_attendance` |

Variables marked "history" in a module are read by its properties alone.

### What the models abstract

- A database function or a single conditional UPDATE is one step; everything
  between two of them interleaves. `cast_ballot` re-reads the status under the row
  lock, so it is one step; paged ballot reads count as one read.
- The version decides whether a write lands, as `transition_process` does. The
  deadline job's claim is an UPDATE and moves the version; changing a ballot writes
  only `vote_records` and does not.
- A vote's reply is lost when the vote is no longer open by the time the handler
  answers; the ballot stays cast. Shared browsers can present each other's receipt.
- Archive and restore are not retried. The instant equal to the deadline is not
  told apart from before it. The note an early close needs is request parsing.
- The bridge table of receipts from before change keys is empty for the votes
  modelled here. The order of ballots, which a close rewrites, is not kept.
- In production a write the descriptor does not declare is only reported
  (`production`, chosen from `Productions`); elsewhere it is refused.
- In ReviewQueue, links, mails and the seen-at badge are left out, a vote is one
  that needs endorsements (approval proposes it), and texts are numbered in the
  order they are written. The Code of Conduct check either passes or refuses.
- In SignInCodes the counters cover one hour, and the caps on an IP, which other
  addresses share, refuse whenever they like (`Refused`). Hashing is left out: a guess is
  one of the address's codes or none of them.
- In MeetingSummaries a text is its number, the documents it was written from, and
  whether it has timestamps, is flagged or predates its meeting. What the connector
  and the model return is chosen freely. Discovery is one read.
- In Digest a run ends within a tick; restricted and sample events are left out.
- In Briefs the recipients are fixed, audit rows are left out, and the source's own
  event, emitted after its save, is part of the save.
- In Events an event is its words, their layout, its end and its limit; start, place and
  picture change as the end does. Its own `updated` event goes out with the calendar row.
  Title and description are one text.
  An approval is the single step of ReviewQueue that publishes.

## Runs

| Run | Question |
|---|---|
| `vote_direct` | A vote opened directly, in production and outside it: ballots, changes of ballot, admin closes, the deadline job, archives, restores and a lost request. The brief agrees with the result; implements VoteOutcome; under fairness it closes, and gets its brief unless a request was lost |
| `vote_support` | A vote that must be endorsed first, in production and outside it, with up to six requests: no endorsement lost, never opened one short, ballots, poll book and count agree, the log agrees with the row, nothing replaces a result, every removal and restoration is accounted for |
| `vote_removal` | expected violation: in production, a removal that was announced and is never undone |
| `review_decisions` | Every kind of decision on a vote and on a conversation, in production and outside it, creator and admin each with one request in flight, with one failed call, one lost answer and one crash: a vote announced once for each text, never public without an approval on record; the public text is the approved one; decisions made one after another agree |
| `review_approvals` | Two tabs, two admins and the automatic approval of a proposal, with failures: one claim at a time, nothing approved but unposted, nothing queued or posted twice, no draft stranded |
| `sign_in` | Two requests at once among asking, typing, links and deletion, in hub and console, with a failed email or a request that dies: a code signs in once, guesses and mails stay within their limits, demo sessions end with the demo, asking for codes, or an email that fails, never ends a code that was sent (guesses do burn it, by design) |
| `code_minute` | expected violation: two emails within the minute |
| `summaries` | The run, cut off anywhere, against an admin's request: one summary per meeting, edits and published pages are kept, a flagged text is public only when confirmed, minutes arrive (liveness) |
| `same_day` | expected violation: a summary overwritten by another meeting's minutes |
| `digest` | Runs missed, cut off, forced by hand; sends and marks that fail; processes hidden and shown: mailed once while runs do not overlap, none skipped but those recorded between a run's read and its mark, nothing that was never shown, and mailed in the end (liveness) |
| `briefs` | Edits, approvals, regenerations, revisions and responses, two at once, failing anywhere: no version lost, mailed once per approval and before it is published, source and brief agree |
| `events` | Publishing, going, leaving, announcing, editing, cancelling, closing, archiving and restoring, two at once, in production and outside it, with calls that fail: the limit holds, the calendar follows the event, a takedown and a cancellation stay, the people going are told what was written and nothing else, attendance and edits are on record |

Each module's `TypeOK` documents the shape of its state; all of them are
proved. `ResultCountsEveryVoter`, `StatusAgrees`, `NothingSilent` and
`OneCardADay` are proved too and in no run, which is kept for what only TLC reaches and
for the properties that carry most.

### Bounds

Two requests in flight are enough for every race of this code: a conflict is
always between a request that read something and another that wrote it before
the first used it. `review_approvals` has four, because an approval's rollback can
meet two others. `MaxRequests` (3 to 6, fewer in `summaries`, `same_day` and `code_minute`) is long enough for opening, a ballot
and a close (`vote_direct`); for two endorsements, a ballot, a close, an archive and a
restore (`vote_support`); for submit, request changes,
reopen, resubmit, approve; and for approve, regenerate, publish and regenerate
again. `MaxAttempts` is 2 where the code has more: the first retry and giving up
both happen. `Threshold` is 2, so two endorsements at once meet it. Two receipts
and two choices tell a first ballot, a changed one and a stranger's receipt apart.
In `sign_in` `MaxTries`, `LiveCodes` and `PerHour` are 2 and `WrongTries` 1, with
three codes made, so each limit is met and passed by one. In `digest` a day is three
ticks, the slack one, and the window seven: a run by hand marks late in the day, the
next one is due within the slack, and with a missed or failed run as well no room is
left for a day lost to an exact comparison or a forgotten slack. `summaries` has one meeting, with and without a summary from before the
rules, and one admin request at any moment of any run: the races it looks for are
between one request and the runs around it. `same_day` has two meetings. `events` has
two people for one or two places, two ends, one on each side of where the clock stops,
and starts both before and after publication, so four requests and failures reach past
a cancelled, a taken-down and an over event. Deadlock
checking is off because a hub with no request in flight and the request bound used
up may stop.

### Fairness

A request or a run that is not cut off takes its next step: serverless invocations
run to their end or are killed (`Crash`, `Cut`, `Die`). The scheduler runs its jobs
again and again (`jobs/scheduled.ts`): `vote_direct` assumes it of the deadline job,
that claims lapse (`CLOSE_CLAIM_MS`) and that the clock advances; `digest` of the
daily run and the clock (`Tick`, `Scheduled`, `RunStep`), with missed runs bounded;
`summaries` of `Discover` and `RunStep`, and that from some moment on runs are not
cut off, without which no run ever finishes and nothing can be said. Nobody is ever
assumed to act: residents' and admins' requests have no fairness.

## Findings

1. `code_minute`: `issueCode` says its take of the minute is atomic "so racing
   requests can't slip past the minute". The live codes are read before the take, and
   with none live the take has no limit to speak of, so two requests at the same
   moment are both mailed.
2. `same_day`: the upgrade falls back to `provisionalFor(entry)` when the documents
   name no upgradeable summary. With one provisional summary of the same date and title
   it takes that one, though it was built from another meeting's recording, and
   overwrites what the comment above it says must not be clobbered.
3. `vote_removal`: `ArchiveMeta` says "A restore undoes exactly what was announced"
   (`processService.ts:889`). In production an undeclared action is only reported, so an
   admin's, or a resident's let through just before an archive, is written over it: the vote is public again, with
   the mark and a public Delete and no Undo. Archived again it announces a second removal,
   and the restore undoes only the newest. What does hold there is `RemovalsAccounted`.

### Known deviations

Each is stated in its module and refuted by TLC when added to a configuration;
none is in a run.

| Property | Add to | What the code does, and what its text says |
|---|---|---|
| `ResultCountsEveryBallot` (VoteProcess) | `vote_direct.cfg`, INVARIANT | A change of an existing ballot does not move the row's version, so it can land between a close's count and its write: the tally has the old choice, the brief the new. `20261011200000_concurrency.sql:173`: "a ballot either lands before the close (and the close, refused on its version, counts it) or is refused." |
| `ArchivedTakesNoAction` (VoteProcess) | `vote_support.cfg`, PROPERTY | In production an action let through by the controller just before an archive is still written. `processController.ts:154`: "Non-public processes (pending_review, archived) accept no actions from non-admins" |
| `FollowsTransitions` (ReviewQueue) | `review_decisions.cfg`, PROPERTY | Decisions other than approval write the review's status without checking it again, so two at once leave the table of `transitions.ts`. |
| `RetryIsClean` (ReviewQueue) | `review_decisions.cfg`, INVARIANT | An approval that fails after a vote went live puts the review back, but the vote's own state stays proposed and every further approval is refused. `service.ts:473`: "so the admin can retry cleanly" |
| `ArchivedNotUpgraded` (MeetingSummaries) | `summaries.cfg`, PROPERTY | A run that read the summary before the archive attaches minutes or upgrades it if its save is not refused; approving an archived pending summary brings it back. `job.ts:380`: "it is never upgraded" |
| `EveryCardResolves` (MeetingSummaries) | `summaries.cfg`, INVARIANT | The publication is announced before the save, which may be refused. |
| `NotSummarizedAgain` (MeetingSummaries) | `summaries.cfg`, INVARIANT | Live and archived summaries are two reads, and one restored in between is in neither: its meeting gets a second summary. `job.ts:379`: "it counts as "already covered" for every match below, so the meeting is not summarized again" |
| `ArrivalNeverMissed` (Digest) | `digest.cfg`, INVARIANT | The cursor moves to the time of the mark, not of the read: an event recorded in between is behind it and was not mailed. `eventStore.ts:201`: "Selecting by the stamp let a backdated event fall outside every digest window; selecting by arrival cannot" |
| `OthersEditsKept` (Events) | `events.cfg`, PROPERTY | The form sends every field, and the version checked is the one read when it is sent, not when it was opened: an editor who changes the words puts back a time another editor changed meanwhile. `processEdits.ts:280`: "This changed while you were editing it. Open it again and make your edit." |
| `OnlyUpcomingEdited` (Events) | `events.cfg`, PROPERTY | An edit of the words, under way when the event is cancelled, closed or archived, is still written. `handler.ts:255`: "Only an upcoming event can be edited." |
| `CalendarAsItIs` (Events) | `events.cfg`, INVARIANT | Of two requests that have committed, the earlier may write the calendar last: a cancelled event is listed as taking place. `handler.ts:102`: "Put the event's row on the calendar as it now is" |
| `CancelsUpcoming` (Events) | `events.cfg`, PROPERTY | In production the descriptor only reports, and the handler does not look at the status: an event that is over, or taken down, can be cancelled, and everyone who went is mailed. `manifest.ts:64`: "Cancel an upcoming event" |
| `ClosedAtItsEnd` (Events) | `events.cfg`, INVARIANT | The job's close does not look at the end again: an event moved to a later day meanwhile is closed. `manifest.ts:110`: "Mark the event past at its end time" |

### Also visible in the models, and promised by no text

- Reviews: in production an approval can publish a row that a concurrent decline or
  withdrawal archived; a conversation approved again after a failed approval is
  announced twice, and so is a vote whose draft is resubmitted after one; turns decided at once share a number; a crash after the claim of a
  draft leaves it submitted.
- Meeting summaries: `initializeState` drops the quality flag, which is why
  `effectiveQualityFlag` has to work it out again; a flagged summary that auto-publish
  refuses counts as a failure of the run; a refused save of attached minutes ends the
  whole run; a discarded revision is staged again by the next run; a revision left
  waiting keeps minutes from arriving.
- Digest: overlapping runs mail twice, and so does the run after one whose mark failed or
  was cut off; a process archived after the lookup is mailed about; when the lookup of hidden processes fails, hidden events are mailed; with
  a frequency as long as the window one missed run loses events.
- Briefs: publishing and discarding a revision at once, or a publish that dies before
  its save and is then discarded, leaves the source with a summary no brief published;
  when `applyOnApproval` fails nothing applies the summary again, though the comment
  at `briefRegenerate.ts:108` says it is kept for that; a retried approval mails
  everyone again; two responses at once both get a card.
- Events: in production someone can still say they are going to a closed or cancelled
  event, and outside production the refusal comes after the attendance is written; who
  joins after the mail of a cancellation is not told; before the calendar row is written
  there is no limit; an edit of the layout alone emits `civic.event.updated`, though
  `processEdits.ts:306` says "no event"; an archive between a publication's commit and
  its calendar row leaves the event on the calendar.

## Proofs

`VoteProcess_proofs` proves, for any finite set of accounts, receipts, choices
and concurrent requests, any bounds, both activation modes, in production and
outside it: `TypeOK`, `CountMatches`, `ResultCountsEveryVoter`, `StatusAgrees`,
the action properties `ResultFrozen` and `EndorsementsKept`, and that VoteProcess
implements VoteOutcome. The assumptions are those VoteProcess names on its
constants (finite sets, the kinds of request, None outside the sets).

The inductive invariant `IInv` has five parts:

- `TypeInv`: the types, and that a request in flight has what its next call reads
  and was accepted on the image it holds;
- `SnapshotInv`: an image of the current version is the row as it is. This is
  what optimistic locking has to give, and it needs that every write moves the
  version (`VersionMoves`);
- `StatusInv`: a public row's two statuses agree, an archived row knows what it
  was, and a result is there exactly when the vote is finalized;
- `CloseTallyInv`: a close about to write at the current version has counted as
  many ballots as there are. It is true of the number of ballots and not of the
  choices, which is why `ResultCountsEveryBallot` fails;
- `CountInv`: the count on the row, the ballots and the poll book agree, and the
  result has that number.

None of the properties is inductive alone: that a result counts every voter rests
on the tally a close carries, which rests on the version check. The refinement
(`StepImplements`) has one case per step that writes; every other is a stutter.

`Briefs_proofs` proves, for any finite set of requests, any officials and any
bounds (`BriefsAssumption`): `TypeOK`, `NothingLost`, `MailedPerApproval`,
`PublishedAsMailed`, `NothingSilent` and `OneCardADay`. Its `IInv` has, besides the
properties themselves:

- `TypeInv`: the types, and what a request holds at each `pc`;
- `SnapshotInv`: a copy at the brief's current version is the brief as it is, so the
  save that lands writes over nothing it did not read;
- `MailInv`: an approval past its mails holds the text that was mailed, which
  carries `PublishedAsMailed` from the mail to the save;
- `EventInv`: the writes that must be reported, plus the events announced by
  requests that have not saved yet, are at most the events. An event goes out before
  its save, so the events alone say nothing about the saves still to come;
- `ChargeInv`: the mails are at most the approvals spoiled after mailing, the one
  that published, and those now between mail and save;
- `CardInv`: until two requests overlap there is one at most, and a response about to
  make a card has read that there is none.

`VoteLog_proofs` goes on from that `IInv` to what the vote tells the public:
`LogMatchesRow`, `BriefIsFinalTally`, `OpenedByThreshold` and `RemovalsAccounted`, in
production and outside it. Its `LogInv` says which request is between a committed close and
the brief's events, that there is one such request at most, and that the ballots it
read are the final ones. A removal left without a
restoration is always explained: the vote is down, or the log has the action that was
written over the archive, which outside production there is none of.

`SignInCodes_proofs` proves `TypeOK`, `CodeOpensOneSession`, `OwnersCodeStays`,
`GuessesBounded`, `HourlyLimit` and `DemoSessionsEnd`, for any number of requests,
machines and codes and any limits, in hub and console (`SignInAssumption`):

- `CodesInv`: a code not made yet is untouched, and two requests never send the same one;
- `SpendInv`: a code that a request has spent is gone, nobody else has spent it, and no
  session was opened with it yet;
- `TriesInv`, `MissInv`: the guesses are the tries the codes count; an IP's misses are its
  bucket, or, once that is full, at most what was in flight when it filled;
- `HourInv`: the emails sent and the hits not yet mailed or given back are at most the hour's
  bucket. A mail counts from its hit, because other requests hit the bucket in between;
- `DemoInv`: what a visitor's request can be doing, and that no request of a demo's day is
  past the point where its account would be taken for an ordinary one.

`Events_proofs` proves `TypeOK`, `CancellationFinal`, `WithinLimit`,
`ToldWhatHappened`, `OnRecord` and `CalendarMatches`, for any people, requests, limits and
ends:

- `PrevInv`, `CopyInv`, `CancelInv`: an archived row knows what it was; a request about to
  write holds an earlier version, or the row; a cancelled event is closed, or was when it
  was archived;
- `SavedInv`: what is about to be put on the calendar, or mailed, was written;
- `ToldInv`, `RecordInv`: who is owed the mail of a cancellation has a request that will
  send it, and attendance and edits are on record but for what requests still owe;
- `CalendarInv`: requests that were never in flight together do not conflict
  (`AloneInv`); with no other change under way the calendar is the row (`FollowInv`); an
  archived event that nothing is bringing back is not shown (`DownInv`).

`ReviewQueue_proofs` proves `TypeOK`, `QueuedOnce`, `ApprovalOnRecord`, `AnnouncedOnce`,
`ClaimExclusive`, `PublicTextKept`, `DecisionsAgree` and `ApprovedIsPosted`; the first
four for any requests of any kinds, any failures, lost answers and crashes, the others
under the hypotheses given here:

- `TypeInv`: also which kinds of request reach which call (`Plan`), and that one of the
  turns has the highest number, without which the next number is not defined;
- `QueueInv`: a submitted draft not in the queue has a request that queues or releases it;
- `VersionInv`, `RecordInv`, `AnnounceInv`: a request about to write the process knows an
  earlier version, or the process; whoever publishes has the approval on record; an
  announcement under way counts as made;
- `ClaimInv`: whoever holds the claim, or is about to give it back, is alone, and while
  there is one the review is not pending. `ClaimExclusive` assumes that nobody revises: a
  revision on its way puts the review back to pending whatever it has become
  (`updateReview`), and TLC finds the second approval that then claims it.
- `PairInv`, for `PublicTextKept`: with one request each of the creator and of an admin,
  a revision is under way only while changes are asked for, an approval that holds its
  claim finds the review approved or withdrawn, and what is out is never in the queue
  again. The hypothesis is needed: a second admin's request for changes, which read the
  review before an approval published, opens a public text to revision;
- `SeqInv`, for `DecisionsAgree`: at each place of the one request there is, the tables
  agree, or are as the request has left them so far; turns are numbered in order, and each
  has its event, but for the one about to get it. No hypothesis: the property is itself
  about requests that follow one another;
- `FreshInv` and `PostInv`, for `ApprovedIsPosted`: while nothing failed, an approval
  finds the process as it was submitted, so that no claim is given back; after one
  failure, what was published stays public until the one request that takes it back does.
  The theorem assumes that nobody declines, withdraws or revises: a withdrawal that
  read the review before an approval, archives the process after it and then fails to
  write the review leaves an approved review whose process is not public.

`Digest_proofs` proves `TypeOK`, `MailedOnce`, `NoneSkipped` and `UnshownNotMailed`, for
any residents, processes, frequencies and runs: `MailInv` (what a user was mailed is
behind the cursor, or the run that mailed it is about to move the cursor; a run's copies
of the cursors it has not come to are current while runs do not overlap), `SkipInv` (every
event behind a cursor, a run's or the user's, was mailed or need not be) and `ShownInv`
(what a run leaves out and what was shown are together everything it read).

`MeetingSummaries_proofs` proves `TypeOK`, `FlaggedNeedsConfirm`, `EditsKept` and
`OneSummary`: `VersionInv` (what runs and requests hold of a row is an earlier version, or
the row), `FlagInv` (a revision carries its flag, and what the job is about to publish is
not flagged) and `OneInv` (a run that is alone has read every row and counts one against
the first entry before it makes any). `OneSummary` is proved for one meeting per date and
title: with two, the matching by order that `same_day` is about makes it false, and TLC
shows how.

`Briefs_proofs` also proves `OneSummary`, that source and brief have the same summary:
`SummaryInv` says what each request, by its `pc`, has already changed of the source and
not yet of the brief.

Only model-checked: liveness under fairness, which the prover does not reach
(`DeadlineCloses`, `BriefFollows`, `MinutesArrive`, `Mailed`). Every invariant and every
action property that a passing run checks is stated by a theorem.

## Not modelled

`PROJECT.json` lists every component with its status. Out of reach or of no
interest to a model: HTTP parsing, rendering, AI and news services, feeds, exports,
and most of the user interface, which are the bulk of the repository's lines. In
reach and planned:

1. plugin switches (wind-down) and the settings cache of a stale instance;
2. invite links and the start page's hand-off into a session;
3. proposals' and conversations' own actions on the engine.

## Running

`tlc -config vote_direct.cfg MCVoteProcess` (each run's module and config are in
`PROJECT.json`); `tlapm VoteProcess_proofs.tla`, and the same for each `*_proofs` module
(the largest, Events and ReviewQueue, take some minutes).
