# A verification development for gmail-visibility-manager

TLA+ models of the program in `src/`, model-checked with TLC on small
instances, with theorems checked by TLAPS for all values of the constants.

An untrusted client asks that mail of one exact sender be made visible to an
assistant. A trusted owner approves or denies. The program keeps the requests
and the grants in SQLite, creates Gmail filters that put labels on the
sender's mail, labels the old mail, and can repeat all this ("gmail
reconcile"). Everything interesting happens between these steps: decisions
race, processes die half way, Gmail calls fail or act without an answer, two
runs plan from lists of filters taken at different times, and the owner changes
the rules while a request waits.

## 1. Inventory

| component | state | operations | what makes it correct |
|---|---|---|---|
| **state store** `internal/state` | tables `requests`, `grants`; WAL snapshots, one write lock | Submit, Approve, Deny, MarkRequestApplied, SetGrantFilterID, reads | one decision per request; a grant and its request's row never disagree |
| **approval workflow** `internal/manager` | none of its own; a run holds the grants it loaded | Submit, Approve, Deny, ReconcileAll | applied means in force; every current grant is in the end applied |
| **visibility filters** `gmail.reconcileVisibilityGroup` | the mailbox's filters; a plan of creations and deletions | list, create shards, delete what is superfluous | a sender never loses its filter; nothing is filtered without a reason |
| **classification filters, backfill** `gmail.ReconcileGrants`, `BackfillLabelsForSender` | per-sender filters; message labels | create, list messages, batch modify | old and new mail of a sender gets the granted labels and no others |
| **daemon socket, rpc** `internal/daemon`, `internal/rpc` | the socket file, connections, the configuration the daemon started with | Run, handleConn, dispatch; Call | answers are true; requests reach the owner |
| **discord bot** `internal/discordbot` | none (an open session) | NotifyPending, commands | only the owner commands it; decisions are taken on what was shown |
| **oauth tokens** `internal/auth` | the keyring's token, a token per client | login, load, refresh, save | only the configured account; a login repairs |
| **policy, request syntax** `internal/policy`, `internal/request`, `internal/gmailfilter` | none | Evaluate, ParseStrict, Normalize, CompileGrant | nothing is granted that was not asked for and allowed; one mailbox is one sender |
| **configuration** `internal/config` | one file, read anew by each command and once by the daemon | WriteSample, Load, Validate, ValidateDaemon | only valid rules are in use |
| **command line** `cmd/gmail-visibility-manager` | none; each command is a process | config init, submit, approve, deny, list, gmail reconcile, auth login, client | the same as the daemon's |
| audit log, service installation, peer credentials | none that decisions read | append, render, one system call | not modelled, see section 7 |

How they interact. `main.go run` starts one process with the daemon and the
bot; each connection and each Discord message has a goroutine. Every
command-line invocation is a process of its own. They share the SQLite file,
the mailbox, the keyring and the socket path, and nothing in memory: there is
no lock around an approval or a reconciliation, so any number of them overlap.
The client calls the daemon over the socket; the daemon calls
`manager.Submit` and the bot's `NotifyPending`; the bot and the command line
call `manager.Approve`, `Deny` and `ReconcileAll`, which call the store and
`gmail.ReconcileGrants`. The configuration file is a channel too: the owner
edits it, the daemon goes on with what it read at its start, and the next
command reads the new one.

Hard behaviours, listed with their lines under "hazards" in `PROJECT.json`:
racing decisions and stale snapshots; a failure after the commit; an approval
overtaken by another one for the same sender; a crash between filters and
labels; lists of filters that are out of date; shards whose boundaries move;
lost answers; mailboxes that change between two pages of a listing; a batch that
is full at the end of a page; labels that do not exist in Gmail; rules that
change between judgement and approval; labels dropped while a request is
judged; clients that time out and repeat; notices that get lost; sockets
removed by path; a token refresh that overtakes a login.

## 2. Modules

    RequestLifecycle: what the         SenderCoverage: what a run promises
    store promises, in one step each   about the group filters
       ^ implemented by      ^            ^                 ^ implemented by
    StateStore               Manager                        VisibilityFilters
    one SQL statement        one store method or            one Gmail call a step,
    a step                   Gmail call a step              one visibility label
       ^                        ^                              ^
    StateStoreProofs         ManagerProofs                  VisibilityFiltersProofs

    OldMail                             what labelling old mail promises
       ^ implemented by
    Backfill                            one page or batch a step (BackfillProofs)

    Policy, PolicyProofs      what is asked for, judged, approved and compiled
    Intake, IntakeProofs      from the client to the owner's decision
    Tokens, TokensProofs      logins and token sources

`MC*.tla` give the constants values and symmetries, one `.cfg` per run. The
state and the actions keep the code's names: `requests`, `grants`, `Submit`,
`ListFilters`, `MarkGrant`. `PROJECT.json` maps each definition to its lines.

**RequestLifecycle** is the abstract specification: a request is received,
approved or denied once, and applied after its approval; an update needs a
grant. It speaks of the request rows and of which request governs an address.

**StateStore** takes the methods of `state.go` apart into SQL statements. A
transaction is its snapshot read, its first write (which takes SQLite's lock
and is refused when the snapshot is old), and its commit; the read that
`Approve` does after its commit is a step of its own. A caller may stop
between any two statements: `Rollback` stands for an error, an expired context
and a crash alike.

**VisibilityFilters** is `reconcileVisibilityGroup` for one label. A run loads
the grants, lists the filters, and works off a plan, first the creations, then
the deletions, one Gmail call a step. It may fail anywhere (`Abandon`), Gmail
may act without an answer (`CreateUnanswered`), and a filter it wants to
delete may be gone (`DeleteGone`). People add filters too, plain address
filters and others. `Shards` is the greedy loop of `shardExactSenders`, said
without a loop: a sender begins a filter exactly if the filter at hand would
exceed the number of senders (`MaxTerms`) or the length of the query
(`MaxLength`) with it.

**SenderCoverage** is the promise between these two: senders that are covered
stay covered, a run covers no others than those whose grants it has loaded,
some of them with each call, and it succeeds with all of them covered. The
filters keep it in two cases: one filter has room for all senders, or runs are
not made at the same time (section 5).

**Manager** is the workflow above both: store methods are single steps, and of
the group filters it has the steps of `SenderCoverage`: `CreateGroupFilter`
covers some senders of the run, with `ReconcileGroup` all are covered, and a
failure may come before, between or after. Where the promise of
`SenderCoverage` does not hold, with senders that need several filters
(`SendersFit` is false) and runs that overlap, `ReconcileGroup` may also take
the coverage of any sender away, as the deletions of a run do there;
`CoverageKept` says that this is not so. A run knows of each sender whether it
created the filter the sender is in (`grew`). The module models the order of
the loop over grants, the labels created for the grant at hand, the search for
old mail, batches, the marks at the end, mail that arrives at any time, Gmail
that is configured before or after the first approval, for each process from
its next start, and labels nobody has created yet: one that is missing fails
the run for all senders (`LabelMissing`).

**Backfill** is `BackfillLabelsForSender`. `ListPage` asks for the page after a
token, `Collect` moves its messages one by one into the batch, `Flush` sends
the batch when it is full and what is left after the last page. Gmail's side
is a list from the newest message to the oldest, a token that stands for a
place in it, and a mailbox that changes meanwhile. **OldMail** is the promise:
labels are only added, and a run that succeeds leaves no message of the sender
without them. `Manager!ListMessages` and `ModifyBatch` use that promise with
any partition into batches.

**Policy** has the operators of `config`, `request`, `policy` and
`gmailfilter` as they are called one after the other: a file is loaded,
defaulted and validated, or, by a process started without `--config`, no file
and the defaults are used; a request is normalised and evaluated against the
rules of the process it reaches; an approval stores the labels that were
judged, with the visibility label of the process that approves. Addresses and
labels are pairs of what they denote and how they are written, so that a
normal form is a choice of spelling and not the identity. The history variables
`asked` and `under` remember the file behind a row and the rules it met.

**Intake** is the daemon's life (start, listen, set the socket's mode and open
it or fail, close on a signal, exit, crash), the connections, the insert, the
notice and the owner's decision. A socket file is known by who bound it,
because the code removes by path. A client's time-out disconnects it while its
handler goes on. The bot's list of pending requests is one message with room
for `MaxReply` of them; the command line's (`ListPending`) has room for all.

**Tokens** is `auth login` and the token sources. A token stands for its
refresh token; a refresh and the save that follows it are two steps.

## 3. Runs

| run | instance | shows |
|---|---|---|
| `StateStore` | 3 requests, 2 addresses, 2 label sets, 3 callers | grants and approvals agree, transactions that can still write have read current rows, updates never come first, decisions are final, a recorded filter id survives later approvals, the store implements the lifecycle |
| `VisibilityRaces` | 2 racing reconcilers, 2 senders in one filter, 8 filter ids, 1 filter by hand | runs implement `SenderCoverage` (no sender loses coverage, success means covered), nothing is filtered without a reason, hand-made filters are kept, and the filters settle |
| `VisibilityShards` | 1 reconciler, 3 senders of lengths 10, 20, 40 in filters of 2 and at most 60, 8 ids, 1 by hand | plans keep the limits, success and coverage across a moving shard boundary, and convergence although calls may fail again and again |
| `VisibilityStaleList` | 2 reconcilers, 3 senders in filters of 2 | **violation**, see section 6 |
| `ManagerRaces` | grant, its update, a second sender, in one filter; 2 processes; 1 message | whatever governs and is applied is in force on old and new mail; mail gets only labels approved for its sender |
| `ManagerRepairs` | 3 requests for one sender, one of them blocked; 2 processes; Gmail set up later, one label created later | every current grant is in the end applied; the lifecycle is kept; the group filters are used as `SenderCoverage` has it |
| `ManagerLostBackfill` | 2 senders, 1 process, 1 message | **violation** |
| `Backfill` | 5 old messages, 1 that arrives, pages of 2, batches of 3 | a success leaves nothing unlabelled and its report is true, whatever arrives, vanishes or fails; repeating labels everything |
| `Policy` | 3 requests, 9 files, 5 configurations, the sample and the defaults | what is granted was asked for and allowed, whatever the spelling and whenever the rules change; lookups find the mailbox; announced labels are honoured |
| `Intake` | 1 daemon, 1 client, 2 connections, 5 files, 3 of them with one id, room for 1 in Discord's list | answers are true, decisions are taken on what was shown, stored requests are decided, submissions settle |
| `Tokens` | 2 token sources, 4 tokens, 2 accounts | only the configured account's tokens are kept, and a login repairs the store for good |
| `TokensPasted` | the same | **violation** |

Why these bounds. Two actors are enough for every race found here: each
property relates one actor's plan to one intervening step, and the store has a
third caller for an interleaving in which the lock holder is neither of the two
that read. Three senders in filters of two are the smallest instance in which
adding a sender moves another one into a different shard; with lengths 10, 20
and 40 and a limit of 60 the length cuts where the number of senders does not.
Five messages in pages of two and batches of three fill a batch in the middle
of a page and leave a rest; the sixth arrives in between. The configurations of
`Policy` include each way to be invalid, two visibility labels, a sensitive
label, a list with repetitions and blanks, a channel and direct messages; the
files include each way to be blocked or refused, both actions and both
spellings. Three requests are a grant, its update and another sender. The
update of a grant, its predecessor and a second sender are the shortest history
in which labels created for one grant could be used for another. Three files
under one id cover a repeated submission, a different content and a blocked
one. Four tokens are one more than a keyring and two sources hold. The bounds
on filter ids, messages, connections and ids are named in the modules
(`FilterIDs`, `MaxByHand`, `Messages`, `MaxMail`, `Handlers`, `SpareId`); where
an id could run out, an action needs a free one and liveness does not depend on
it. New filters get the least free id in the runs (`LeastSpec`); the proofs do
without. SYMMETRY is used only where all properties of a run are safety or step
properties.

Deadlock is checked except for `StateStore` and the runs of
`VisibilityFilters`, where nothing need happen any more once all is decided
and filtered.

## 4. Fairness

- `VisibilityFilters!Fairness` (strong, per call): the manager is run again
  until it succeeds, and no Gmail call fails whenever it is tried.
  `Convergence` then holds although each call may fail any finite number of
  times.
- `VisibilityFilters!Calm`, `Manager!Calm` and `Backfill!Calm`: the operator
  repeats the reconciliation, a process that can go on does, and from some time
  on nothing fails. `Manager!Calm` also wants labels that are missing created,
  without which no reconciliation succeeds. A failing step leads to a state of
  its own ("failed"), so that excluding failures for ever does not exclude a
  successful step.
- `Intake!Fairness`: the service manager starts the daemon again (KeepAlive in
  `launchd.go:26`, Restart in `systemd.go:19`), goroutines run, the client
  repeats its call, the owner looks at the pending list, on the command line
  because Discord's may have no room for it, and decides what is on it.
  Connecting is strongly fair because the number of connections is bounded by
  the model only. `PendingIsDecided` allows crashes for ever;
  `CalmSubmissionsSettle` allows the client's time-outs for ever but wants the
  daemon to stay up from some time on.
- `Tokens!Fairness`: while the stored token is refused the owner logs in again
  and follows the printed URL.

Nothing in the code repeats a reconciliation or a submission by itself. The
liveness results are about what repeating achieves.

## 5. Proofs

**StateStoreProofs**, for any number of requests, addresses and callers. The
inductive invariant `StoreInv` is the types, `GrantsFollowApprovals` and
`DecisionsReadCurrentRows`. The last one is the reason for everything else: a
transaction not yet refused has read rows that are still current, because
every commit outdates the snapshots of the others and the write lock excludes
commits between a first write and its own. From it follow `DecisionIsFinal`
and, step by step, that the store implements `RequestLifecycle`
(`StoreImplementsLifecycle`). `GrantComesFirst` is proved of the lifecycle,
with `LifecycleInv`, and carried over by the refinement.

**VisibilityFiltersProofs**, for any number of senders and reconcilers.
`PlansInv` (types, what plans and filters may name) gives type correctness,
`NoOverreach` and `HandMadeKept` for any number of shards.

`PlansFit` holds for any number of shards too. `Shards` chooses a cut that is
greedy, so first such a cut has to exist (`CutExists`): the senders are finite,
a cut for all senders before the last extends to one with it (`CutExtends`),
and a smallest set without a cut would contradict that. Of a greedy cut the
shards are a partition that keeps the limits (`ShardsPartition`).

`CoverageNeverLost` and `ReconcileCovers` hold under either of two hypotheses,
which are hypotheses of the theorems and not assumptions of the module.

The first is that every set of senders fits one filter (`OneFilterFits`: by
number, 100 in the code, and by length); then any number of runs may race.
`Shards` has one element in this case, and `ReplacementInv` gives both properties.
Filters are ordered: more senders is later, and of equal filters the one listed
first is later. A filter is planned for deletion only if a later one exists or is
about to be created; this survives every deletion because the order has no
cycle.

The second is that runs are not made at the same time (`OneReconciler`); then
there may be any number of shards. `SoleInv`: the senders of a filter that is to
be deleted, and those the run was given, are each in a filter that stays or in
a shard about to be created (`Secured`). It holds when the filters are listed,
because the shards of a set cover it (`FullPlan`), and nobody else deletes
anything afterwards.

With several shards and several runs both properties are false, which
`VisibilityStaleList` shows of `ReconcileCovers`.

`FiltersImplementCoverage` puts this together: under either hypothesis the calls
of all runs implement `SenderCoverage`. It needs one invariant more
(`OwnPlans`), that a shard has senders of the run or senders that are covered
anyhow.

**ManagerProofs**, for any number of requests, senders, labels, messages and
processes. No lock keeps runs apart. What makes them safe is that no step takes
back what another run relies on (`Grows`): decisions, filters and labels stay,
and a grant gives way only to a request that has just been approved. Two
invariants are proved one after the other.

`ApprovedInv`: whatever a grant, a run, a filter or a message holds comes from an
approved request of its sender; of a run it says, stage by stage, what it may
rely on (`Sound`), such as that the labels at hand are labels of the grant at
hand. From it follow `TypeOK` and `OnlyApprovedLabels`.

`EnforcedInv`: the addresses a run is through with have all their filters, and
their old mail all labels if the run set out to label it (`Progress`); a run
leaves old mail out only where the request was applied before, and an approval
that has been overtaken no longer governs (`Thorough`). From it follows
`CurrentGrantEnforced`, under two hypotheses. `GmailAtStart`: an approval without
Gmail is marked applied at once (`manager.go:112`), with nothing in force.
`CoverageKept`: one filter has room for all senders, or there is one process.
Without it another run may delete the filter a run relies on before that run
marks its request applied, and TLC finds `CurrentGrantEnforced` violated in a
few steps when the `ManagerRaces` instance is given `SendersFit = FALSE`.

Two refinements follow: every step is one of `RequestLifecycle` or leaves it
alone, and, under `CoverageKept`, likewise of `SenderCoverage`. `TypeOK`,
`OnlyApprovedLabels` and the refinement of the lifecycle need no hypothesis:
they hold of overlapping runs with several filters too. So what the workflow
takes for the calls for the group filters is covered by the promise that
`FiltersImplementCoverage` shows them to keep. That it takes all of the promise
is not a theorem but can be read off the actions: `Cover` is
`CreateGroupFilter`, `Succeed` is `ReconcileGroup` where it takes nothing away,
and `End` is `Fail`, after a last `CreateGroupFilter` if its answer was lost,
or the end of the marks. Filters made by hand (`CoverByHand`) are not in
`Manager`.

**PolicyProofs**, for any sets of requests, files and configurations.
`PolicyInv`: a row was written for a file that passed `ValidateBasic`, under rules
the program had loaded (`Vetted`); unless it is blocked it holds the whole
request, as these rules spell it (`NothingDropped`); a grant is a copy of an
approved row (`GrantsCopied`), and the mailbox of every approved request has one
(`ApprovedGranted`). The lemmas about lists say that normalising and
deduplicating keep each label, filed under what it denotes, in a spelling it has
in the list. From the invariant follow `GrantsAsVetted`, however the
configuration changes, `LookupFindsMailbox` and `InfoIsHonoured`.

**IntakeProofs**, for any number of daemons (overlapping too), clients and
connections. `IntakeInv`: what a handler, a client or the owner knows of an id
is what the table holds under it, for the content under an id never changes.
Who has the socket's path plays no part in it: of two daemons on one path the
second takes the socket of the first away, and nothing is promised of it.

**TokensProofs**, for any number of sources. `TokensInv` adds that what a
login is about to save has passed the account check, and that a token newly
issued is held by nobody.

**BackfillProofs**, for any sizes of pages and batches and any number of
messages. `BackfillInv`: a run meets the messages in falling order, so it
collects none twice and its counts are those of the batches (`Counted`); and a
message without the labels that is still in the mailbox waits in the batch, on
the page or beyond the token (`NothingSkipped`). From it follow `ReportIsTrue`
and the refinement of `OldMail`.

The named assumptions are that stand-ins for "nothing" are not ordinary
values, that the limits are positive, that senders are numbers, which gives
their order, that lists of labels are sequences, and that the tables of a
module's requests have the right types. TLC evaluates them in every run.

Only model-checked, because liveness under fairness is beyond TLAPS:
`Convergence`, `RacesSettle`, `CalmAppliesCurrentGrant`, `CalmLabelsAll`,
`PendingIsDecided`, `CalmSubmissionsSettle` and `UsableAgain`. Every invariant,
step property and refinement that a passing run checks is proved.

## 6. Where the program and what it says of itself disagree

- **Success without coverage** (`VisibilityStaleList`). Two runs plan from
  lists taken once. One counts on a filter that the other then deletes, and
  reports success although a sender has no filter left.
- **Backfill lost** (`ManagerLostBackfill`). Labels are backfilled by the run
  that creates their filter. If that run fails in between, the next one finds
  the filter, labels no old mail and reports ok.
- **`auth login --auth-url` cannot succeed** (`TokensPasted`). The state it
  compares is drawn by the same process, after the URL was made.

Noted on the way, without a promise of the program that they would break:
a request whose grant was replaced before its filters were made is marked
applied all the same (`manager.go:112`; `CurrentGrantEnforced` speaks of the
grant that governs); a second daemon on the same path removes the socket of the
first (`server.go:51`); `grants lookup` prints what a grant compiles to under
today's visibility label (`main.go:877`); a sensitive label whose name contains
"not allowlisted" or "visibility label" is announced but blocks
(`policy.go:103`, the exception in `InfoIsHonoured`).

## 7. What is left out

- Listings (grants, recent, show), columns no decision reads (hashes,
  rationale, times, who decided), the audit log (append-only, errors ignored,
  read by nobody), unit files, peer credentials, flags and printing.
- In `VisibilityFilters`: that deletions go in the order of ids as strings (any
  order here).
- In `Manager`: paging (any partition into batches; `Backfill` has the pages),
  filters made by hand and the recorded filter ids. Which senders two
  overlapping runs uncover when senders need several filters (section 6) is
  left open, any of them in the model, and that case is in the proofs that have
  no hypothesis `CoverageKept` but in none of the runs.
- In `Backfill`: messages without an id, and a run without labels, which
  `Manager` skips.
- In `Policy`: that a process without `--config` uses the tables of the default
  path, which are taken to be those of the others, as after `config init`;
  blanks around a value, lengths, control characters and the bytes
  of JSON; paths, socket mode, Gmail and keyring settings, whose checks only
  ask for presence; what an approval does in Gmail. A request file has an id
  of its own here, `Intake` has files that share one.
- In `Intake`: peers of another user (refused before anything is read), the
  frame format, Discord's guards, which are `Policy!Accepts`.
- In `Tokens`: access tokens other than expired or not, and rotation of
  refresh tokens, which Google does not do.

Taken as given: Gmail lists filters in a stable order, may hold equal filters
and applies filters to mail on arrival; SQLite's WAL mode has snapshot reads
and one writer; people add filters and do not delete the manager's; a page token
names a place in the listing and not a page number, and an id that is gone does
not fail a batch.

## 8. Plan

Done: the store, the filters with both limits, the workflow with missing
labels, the backfill, the policy with its configuration, the way from client
to decision, the tokens; proofs of every safety property and refinement the
passing runs check; the workflow composed with the group filters. Next, in this
order:

1. **Compose the backfill**: `Manager!ListMessages` and `ModifyBatch` as steps of
   `OldMail`, so that `AppliedIsInForce` rests on the pages of `Backfill` as it
   rests on the calls of `VisibilityFilters`.
2. **Several runs and several shards**: what is left of coverage there. A run may
   lose a sender it relies on; what it deletes itself it replaces.
3. **A request approved with Gmail set up** is in force once applied, whatever was
   approved before Gmail was: `CurrentGrantEnforced` without `GmailAtStart`.
