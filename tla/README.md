# pbps: TLA+ models, checks and proofs

`pbps` keeps a relational database (PostgreSQL or SQL Server) equal to a set of
declarations: it reads the database, computes a plan, has the plan approved as a file
pinned by checksum to the state it was computed against, and applies exactly that file.
Beside that core it creates and republishes project directories (`init`, `pull`, `state
export`), rehearses plans on scratch servers it creates and cleans up, and publishes
reviewed edits as commits and branches from a browser (`pbps ui`). Every one of these is a
protocol over something several processes share: two tables of the managed database, a
directory, a scratch server, a Git repository and its remote. This directory models those
protocols, checks them with TLC and proves the most important properties with TLAPS.

## Inventory of the system

| Component | State | Operations | Correct when |
|---|---|---|---|
| Ledger (`pbps-db/ledger.rs`, `pbps-pg/state.rs`, `pbps-model/state.rs`) | rows of `__pbps_state`, identity column | `record`, `latest`, `has_applied_plan`, `prune` | the newest row is the current state and is never lost; an audit row never changes the state |
| Lock (`pbps-pg/state.rs`) | the row of `__pbps_lock` | `lock`, `lock_holder`, `unlock`, `pbps unlock` | one deployment at a time; every error path releases |
| apply, transactional (`deploy.rs: apply_under_lock`) | one server transaction | baseline check, statements, read-back, row, commit | the recorded state is the plan over the approved baseline, or nothing happened |
| apply, staged and `--resume` (`deploy.rs: apply_staged_under_lock`, `pbps-pg/staged.rs`) | committed statements and their checkpoints | statement, checkpoint, comparison, closing row, recovery of a failed VALIDATE | no statement skipped; nothing else runs in between; no change of another session is adopted in silence |
| snapshot, baseline, bootstrap (`deploy.rs`) | – | read, judge, record; removal of standing temporary CHECKs | the state recorded is the state read; a refused baseline changes nothing |
| state record-data-work (`state_data_work.rs`) | – | probe, evidence, copy | only for a plan that was applied here |
| state prune | – | select ids, delete | keeps the newest row beside any writer |
| plan `--db` (`deploy.rs: plan_db_selected`) | plan artifacts | admission, drift check, pinning | never planned over a half-done deployment or drift |
| Read-back guard (`deploy.rs: refuse_pinned_movement`) | – | comparison of two reads | every change outside the plan is named |
| Pins (`pins.rs`) | fingerprints in the plan | `check` | a routine the plan relies on is as approved when it is used |
| Hooks, verify, status, doctor, listing commands | – | read or report only | never change the verdict or the state |
| Concurrent index builds (`pbps-pg/staged.rs: execute, recover`) | the relation under the index's name | capture, build, recover, drop | recovery removes only what a failed build left, and leaves nothing that blocks the next attempt |
| init (`init.rs`) | `pbps.yml`, `schema.ids.json`, `schema/`, staging trees | look, stage, look again, install without replacing, roll back | a visible project is whole; losers never remove a winner's or a user's files; a failure leaves nothing |
| Publication (`publication.rs`; `pull`, `state export`) | the declarations, one backup directory | list, move aside, create, commit, restore | nothing is lost before a whole publication replaces it; "unchanged" is true |
| Identity files (`pbps-model/ids*.rs`, `ids_cmd.rs`, …) | `schema.ids.json` | merge, check, intent | an object keeps its id over renames and merges |
| Diff and ordering (`pbps-diff`, `pbps-model/change.rs`) | – | pure | statements respect dependencies |
| Scratch lifecycle (`resolver/server/…`, `pbps-pg/resolver/…`) | login, database, roles of a run; in a supplied database the claim, its objects, ACL and roles; an advisory lock; named sessions | sweep, create, claim, work, release, recover | nothing is taken from a run that is alive; whatever is left is under a record a later run finds and removes |
| Compose (`pbps-ui/src/compose*`) | receipts, resource records, private refs, two file locks, branches, the remote | preview, confirm, list, recover, retry, republish, alternative, cleanup, forget, resources | one commit, one branch and one push per authorization; every definite answer is true; every root is owned |
| Compose capture, UI pages and trigger | – | read, run one command | outside the publication protocol |
| Resolver capture and binding; SQL Server and Docker adapters | – | queries; the same sweep over other servers | – |
| Introspection, emitters, preflight, loading, configuration, docs | – | text and queries | outside the protocol |

How they interact: every deployment command connects, takes the lock, reads the ledger's
newest row, reads the live database, does its work on the same connection, appends a row
and releases the lock. The components share nothing but the database: no command holds
state between two runs except the approved plan file. Hence the hard behaviours there: two
processes or a process and `pbps unlock`, `state prune` or `plan --db` interleaving
(neither of the last two takes the lock), other sessions changing the database at any
time, a process dying between any two exchanges with the server, a statement that fails
half-way through a staged plan, and operators retrying (`--resume`, a fresh apply, a
baseline, a snapshot) from whatever state that left behind.

The other protocols share a pattern: a durable record that must exist before what it
names and go after it (the receipt and the resource record of compose, the login or claim of a scratch run, the
backup directory of a publication, the identity file of an init), and a process that may die
between any two steps. What is hard is what comes back later: a second viewer, a later run, a
repeated request, a statement the server finishes after its client is gone, a push whose answer was lost.
`PROJECT.json` lists the hazards at the lines where they bite.

## Modules

| Module | What it is |
|---|---|
| `Ledger` | rows of `__pbps_state`, and the pure decisions over them and over plans |
| `Deploy` | the database, the lock, the commands and their surroundings as one state machine |
| `Environment` | abstract specification: what the ledger promises, with no processes |
| `MCDeploy` | plans and symmetry for TLC's instances |
| `DeployProofs` | ledger lemmas, the inductive invariant `Inv`; `TypeCorrect`, `MutualExclusion`, `CurrentStateSurvives`, `TransactionalKeepsItsPromise` |
| `IndexRecovery`, `MCIndexRecovery` | attempts at a concurrent index build, and the server that goes on without them |
| `Compose`, `MCCompose` | the compose publisher: viewers, receipts, resource records, refs, remote |
| `Publication` | abstract specification of what compose promises the repository and the remote |
| `Sessions` | the proof of death both scratch layouts share |
| `ScratchOwned`, `MCScratchOwned` | the run-owned scratch layout |
| `ScratchSupplied`, `MCScratchSupplied` | the supplied scratch database |
| `ProjectInit`, `MCProjectInit` | racing inits and the user on one root |
| `Republish`, `MCRepublish` | publishers and the user in one declaration directory |
| `ProjectInitProofs` | `ProjectIsWhole`, `WinnerIsKept`, `UserIsKept`, `FailedInitsLeaveNothing` |
| `IndexRecoveryProofs` | `EarlierIsKept`, `ValidIsKept`, `NothingIsLeft` |
| `DeployStaged` | staged deployments: `StatementsRunInOrder`, `OnlyItsOwnStatements`, `EntriesKeepTheirPromise`, `BaselineIsAtomic`, `ReportsRestOnAnApply`, and the refinement `DeployImplementsEnvironment` |
| `ScratchOwnedProofs` | `RecordOutlives`, `NothingTaken` |
| `ScratchSuppliedProofs` | `SuppliedTyped`, `ClaimNamesWhatIsLeft`, `LiveRunsAreSpared` |
| `ComposeProofs` | the refinement `PublisherKeepsItsPromise`; `NothingPublishedIsTrue`, `GivenUpStaysUnpublished`, `PreviewsStartOneResult`, `RecordsStayValid`, `NoRootOrphaned`, `PreparedStaysRooted`, `DeliveredIsTrue` |
| `RepublishProofs` | `PublishersExclude`, `CommittedIsWhole`, `SaysUnchangedTruly`, `DeclarationsAreKept` |

### Deploy: state and its counterpart in the code

* `live`: the committed managed objects, a function from objects to definitions. The
  program compares states by checksum and by the read-back guard, both of which only ask
  whether definitions are equal. `NotValid` is the definition of a temporary CHECK that
  was added `NOT VALID`: introspection notes it and every read of its table is then refused
  (`Readable`).
* `pin`: the definition of the unmanaged routines a plan is pinned to, one bit.
* `ledger`, `nextId`: the rows and the identity column. A row keeps id, kind, schema,
  plan checksum, number of completed statements (`StagedProgress.completed`, 0 for none)
  and the reported expand plan of data work. Who, when and the remaining columns are left out.
* `lock`: the holder named by the lock row.
* `pc`, `mem`: where a process is, and its locals (arguments, newest row read, statement
  index, previous read, last read).
* `txn`: the open server transaction, its writes and the ledger row it inserted.
* `planned`: what `plan --db` wrote: the plan's `PlanBaseline`.
* `holder`: what each running `pbps unlock` has read.
* `left`: the bounds. `hist`: history variables that properties refer to and no step
  reads (`ran`, `open`, `applied`, `reported`, `unchecked`).

A plan is a checksum and a sequence of statements, each of which gives one object one
definition; `scan` marks the two statements (`ScanCheck`) of a staged attach.

### Deploy: actions

One action is one exchange of a process with the server and what the process decides on the
answer. `Lock`, `LockBusy`, `Unlock` are the lock row. `ReadLatest` and `CheckBaseline` are the
admission of an apply; `Exec`, `ReadBack`, `Insert`, `Commit` the transactional body (shared by
bootstrap and by a baseline that removes CHECKs); `Step`, `StepFails`, `StepRead`, `Checkpoint`,
`Compare`, `Closing`, `Close` the staged body; `FailRead`, `FailRecord`, `FailUnrecorded` the audit
row of a failure; `SurveySnapshot`, `SurveyBaseline`, `SurveyBootstrap`, `Judge`, `Record` the
commands that record a state as read; `Probe`, `Evidence` the report of data work; `PruneSelect`,
`PruneDelete` the prune; `PlanDb`, `UnlockRead`, `UnlockDelete` what happens without the lock.
`Drift` and `PinMove` are other sessions, `Crash` the death of a process (and, as the process
can then neither learn nor release anything, a lost connection, a lost acknowledgement of a
commit and a failed unlock). `BodyFails` stands for every other refusal of a body (preflight
probes, permissions, a query that fails).

Where the code makes several calls and the model one step:

* `plan --db` reads the ledger and the database in one step. A plan pinned to a torn pair is
  refused like one pinned to a state that has since moved: `CheckBaseline` compares again.
* `Evidence` reads the newest row and the evidence at once. Under the lock only a prune can
  come between, and it can only turn evidence into a refusal.
* The pin check and the insert of a checkpoint are one step, with the code's order of
  effects: the row is written and the run then stops on a moved pin before it compares.
* A statement's own transaction and the closing transaction of a staged apply either commit
  or fail; failure is `StepFails` or `BodyFails` before the effect.
* `--resume` of a plan is refused unless the checkpoint names its checksum; the code's
  further check of the number of statements is implied by that and left out.

### Deploy: what the abstract specification says

`Environment` knows only the recorded state (schema, plan and number of statements done),
the plans pinned so far and the plans recorded as applied. The state is adopted, moved by a
whole transactional plan over exactly its pinned baseline, or walks through the checkpoints of
one staged plan in order until all of it is as promised. `RefinesEnvironment` maps the newest
row of `Deploy`'s ledger to it: failed rows, data-work rows, prunes, uncommitted transactions,
locks and deaths must all be stutters. `Adopt` is permissive on purpose, as baseline and a forced
snapshot may record any readable database.

### Compose

The state is what is durable (`receipt`, the phase of each operation's receipt, with `gen`, its delivery
generation; `res`, the resource record; `roots`, the private refs; `litter`, temporary files nobody
acknowledged), the two locks, the branches here and at the remote, pushes whose answer was lost (`flight`),
and per viewer the request it is answering (`run`) and what it keeps in memory (`mem`). One action
is the code between two durable writes, Git commands or remote exchanges; its name is the name of the point in the
code (`Preparing`, `CommitTree`, `CommitKnown`, `PinCommit`, `Prepared`, `LocalAttempt`, `Install`,
`LocalPublished`, `RemoteAttempt`, `Authorize`, `Push`, `RemoteDelivered`; retirement step by step). Both
locks are tried and never waited for. A durable write may fail with or without having landed, and
either way may leave a temporary file, which closes the directory until a person resolves it. All operations share one
base, the case in which they are not independent. What a candidate contains is abstracted to whether
its capture is sealed, rejected or fails.

`Publication` knows only how often Git was asked for a commit, a branch was created and a push was sent under
each authorization (the confirmation and each informed republish). `Promised` says that `Compose`, with all its
faults, implements it.

### Scratch layouts

`Sessions` is the proof of death: a run is dead when the reader sees itself in `pg_stat_activity` and does not see the
run. In `ScratchOwned` the login is the record: a sweep lists the tokens that have one with their resources, then reads
the sessions, then removes database, roles and login in that order, never forcing; the run then creates its own
and releases them. In `ScratchSupplied` the claim schema is the record, and an advisory lock covers recovery and claiming;
`DROP OWNED` removes the claim with the rest and puts it back in one transaction, and the claim goes last. A kill, a lost session, a refused
statement and a list of sessions seen through a pooler that renames them are faults. A token is
reused only when nothing carries it (`Fresh`): in the code tokens are random. A pooler that moves a connection to another server session
appears as the loss of the session.

### init, publication and index recovery

One action is one system call (or one statement) and the decision on its answer. In `ProjectInit` an init looks at the
three names, stages, looks again, links the identity file (the claim; a link never replaces), removes the empty
`schema/`, renames its own tree in, links `pbps.yml`, and undoes this in reverse on an error, ignoring what
the undoing calls answer. The user may create each of the files at any time. In `Republish` the caller lists the files before
`publish` creates the backup directory exclusively; files are moved into it, outputs created exclusively, and the
backup removed at the commit point, or everything restored. The user creates files where there are none. In
`IndexRecovery` successive attempts of one deployment send the same statement; the server may finish or cancel the statement
of a client that is gone, and builds and drops of one table exclude each other. That nobody else
works on the index's name while an attempt runs is the single deployer of the lock.

## Runs

| Run | Checks | Shows |
|---|---|---|
| `core` | `TypeOK`, `OneWriter`, `NothingElseRuns`, `NoStatementSkipped`, `AppliedAsPromised`, `BaselineTakesAllOrNothing`, `RefinesEnvironment` | a staged attach with its `NOT VALID` add, a VALIDATE that fails and is or is not cleaned up, and a transactional plan over the same object; two processes, resumes, failures at every point, a death, a stale lock cleared by an operator, a baseline over the standing CHECK, a change or pin move by another session |
| `adopt` | `ReportHasEvidence`, `NewestSurvives`, `RefinesEnvironment` | every command that writes a row, an empty plan, prunes with `--keep` 0 and 1 beside writers and each other, a death; no staged plan here, so a report in the middle of a deployment rests on the theorem `ReportsRestOnAnApply` |
| `live` | `TransactionalAsPromised`, `LockComesFree` | operators clear the locks of live processes and two applies run at once; with fairness every lock is released or its holder is dead |
| `compose` | `ShapeValid`, `NoOrphanRoot`, `NothingPublished`, `CommitRooted`, `DeliveredHappened`, `Promised`, `RequestsEnd` | one operation, two viewers, all requests, two faults of nine kinds |
| `siblings` | `GivenUpIsFinal`, `PreviewStartsNoSibling` | two operations from one base in two viewers, one fault |
| `owned` | `RecordOutlivesUnraced`, `NothingTakenFromRunning` | three run-owned runs, two faults: two sweeps race over one killed run while its sessions linger |
| `supplied` | `TypeOK`, `ClaimOutlives`, `NothingTakenFromLive`, `DeadClaimGoes` | two runs in one supplied database, three faults |
| `init` | `WholeProject`, `FailureLeavesNothing`, `WinnerKept`, `UserWins`, `SomeInitWins` | three inits and the user, two faults |
| `publish` | `UnchangedIsTrue`, `OneAtATime`, `CommitIsWhole`, `NothingLost` | two publishers and the user, two faults |
| `index` | `LeavesNothing`, `OthersKept`, `ValidKept`, `RetrySucceeds` | four attempts, three faults |

In `Compose`, `ScratchOwned`, `Republish` and `IndexRecovery` the type invariant is a conjunct of the first invariant the
run names; in `ProjectInit` it is a conjunct of the invariant that is proved.

Violations, each a disagreement between the code and what is written about it
(`PROJECT.json`, "findings", quotes both sides):

| Run | Property | Shortest story |
|---|---|---|
| `snapshot_mid` | `NothingElseRuns` | a checkpoint, then `snapshot` (no `--force` needed as nothing differs): the newest row is no checkpoint any more, and another plan is planned and applied |
| `reconfirm` | `ConfirmationRechecked` | a confirmation is Refused because the remote cannot be read; another viewer publishes from the same base; the page offers the first candidate again and it publishes beside the other without the gate |

`NothingElseRuns` is therefore checked without `snapshot` in `core`.

### Observed while modelling

Behaviours the models show that differ from a comment or document, or that the properties above name as their
exceptions. No run is spent on them.

* A failed resume writes an audit row that carries the staged marker (`deploy.rs:10085`), which the field's comment excludes
  (`pbps-model/src/state.rs:371`); `--resume` relies on it.
* A checkpoint is recorded before the pin error of its step returns and before it is compared
  (`deploy.rs:11406`): a change of another session in it is adopted by the resume without having been named. `AppliedAsPromised` excepts it (`hist.unchecked`), so no property covers it.
* `pbps unlock` deletes whatever lock row is there and names the holder it read (`deploy.rs:7961`). `MutualExclusion` therefore assumes one operator.
* `republish` consumes its request before it looks at the resources (`compose/run.rs:823`): after an interrupted `forget` the
  receipt becomes an attempted one without a root. `CommitRooted` excepts a record that is being forgotten.
* A confirmation whose receipt is missing is answered Refused when the resources cannot be read (`compose/run.rs:211`). `NothingPublished` excepts lost receipts.
* A sweep lists a run's resources before it reads the sessions (`scratch/recovery.rs:144`): what the run creates in between,
  if it then loses its session, stays without a record. `RecordOutlivesUnraced` excepts a run that has created after it was listed (`raced`) and
  has no session any more.
* `init` removes `schema/.gitkeep` without looking at its length again (`init.rs:605`), so content the user writes into it after the recheck is lost,
  although the comments say that what appeared must win (`init.rs:571`), that only a file init writes itself is removed (`init.rs:600`) and that a
  `.gitkeep` someone wrote into is project data (the test at `init.rs:818`). A rollback removes what the user added to a `schema/` that
  was just moved in (`init.rs:637`). `UserWins` therefore speaks of entries before the move, and of `.gitkeep` only while no init has passed its recheck (`Behind`).
* `pull` lists the files before the exclusive step (`main.rs:2195`), so another pull's files can survive beside its own; and `restore` looks
  at a destination and renames onto it in two calls (`publication.rs:278`). `CommitIsWhole` and `NothingLost` name both.
* bootstrap looks only at the database, never at the ledger: one that fails over an environment whose objects were
  dropped outside records an empty schema as the newest (failed) state.

### Bounds, and why they are enough

Every bound is a constant. In `Deploy`: `MaxCommands` (commands started; it also bounds the ledger),
`MaxMoves` (changes by other sessions), `MaxCrashes`. Two processes are enough for every race on
one lock row and for a prune beside a writer or a prune; a third would wait like the second.
Four commands allow the longest story the protocol distinguishes: baseline, staged apply that
stops half-way, another command or a failed resume, and a resume; three are enough for two applies at once over a recorded state (`live`). The staged plan of `core` has
four statements and both plans share an object; a third object belongs to neither, for what another session does beside them. Values are "absent", `NotValid` and one
definition, since the protocol only asks whether definitions are equal. `live` has the commands that fail in different ways under the lock (apply,
snapshot, data work); baseline and bootstrap fail through the same actions. `Rest` stands for a system whose
bounds are used up, so that TLC's deadlock check stays on and would find a process that cannot go on.

In the other modules `MaxFaults` bounds kills, lost connections, refused calls and whatever else can happen at most so often: two let a
recovery be interrupted or fail after the failure it recovers from. `MaxGen = 2` allows one republish after the first delivery and every stale
request for it. Two viewers race for two locks; two operations from one base are the smallest pair of siblings. Three scratch runs are
a victim and two sweepers; two runs of a supplied database are the dead and the live, the lock keeping a third
out. Three inits are a winner, a loser and one that starts while the loser undoes. Processes are interchangeable, so their permutations are
symmetries; the runs with a liveness property use none. `init`, `publish` and `index` may end (every process is over), and only they switch TLC's deadlock check off.

Mutants: for every property of a passing run `PROJECT.json` names a changed definition (a lock that
upserts, a resume that is off by one, a receipt consumed after the push, a claim dropped with the rest and not restored, an
identity file that is replaced, a recovery that ignores what existed, …) under which TLC finds the property violated.

### Fairness

Everywhere it is weak fairness of a running process: a process whose next step is possible takes it. That is what an
async runtime and a server or file system that answers give. In `Deploy` (`FairSpec`) a statement waiting for a lock of another
transaction is not enabled and therefore not promised to run until that transaction ends; nothing is assumed about operators, other
sessions, planning, failures or deaths. In `Compose` (`FairSpec`) a viewer runs its request to the end; nobody is assumed to make requests. The
scratch modules also assume that the server notices a client that is gone and that runs are started again, which is what "a
later run" means; `IndexRecovery` that the server works on a statement it has and that the operator makes the next attempt.

## Proofs

The theorems about `Deploy` hold for every set of processes, operators, objects, definitions and plans and every
bound, under the named assumptions of `Ledger` and `Deploy` (`ValuesAssumption`, `PlansAssumption`,
`StepsAssumption`, `ConstantsAssumption`): the special values are distinct from the ordinary
ones where the model needs it, and a `NOT VALID` add is never a plan's last statement.

* `TypeCorrect`: `Spec => []TypeOK`. Types alone are not inductive: that `Exec` and `Step` index
  a statement that exists depends on the command and on the checkpoint the run resumed from. `Inv`
  adds `Control` (what a process at each point remembers: which command it runs, that
  its statement index is inside its plan) and `Rows` (a progress marker never exceeds the number of statements of the
  plan the row names; every id, also of an uncommitted row, is below the identity column). It has
  one lemma per action. That the newest row exists at all rests on `NewestRow`, from the
  well-foundedness of the naturals.
* `MutualExclusion`: with at most one operator, who clears only locks of dead processes,
  `Spec => []OneWriter`. As `unlock` deletes whatever row is there, the lock's exclusion depends
  on what an operator has read still being true; `Held` says so (the row names the process that is
  inside, and an operator about to delete read a dead holder that still holds). With two operators it is
  false: the second deletes the lock of a process it never read.
* `CurrentStateSurvives`: `Spec => NewestSurvives`. `prune` selects and deletes in two statements
  without a lock. `Spared` says that a row above the selected ids is there until the delete; two
  prunes preserve it for each other because each keeps the newest row and no row gets an older id.
* `TransactionalKeepsItsPromise`: `Spec => []TransactionalAsPromised`, with no hypothesis about the
  lock or operators. `Promised` follows the promise from the baseline check (`prev` is the pinned baseline)
  through the read-back (the state read is the plan over that baseline) and the uncommitted row to
  the ledger; a plan's baseline never changes once it is written. So the transactional body is safe
  even when the lock is cleared under it, which is why the read-back and the row are inside
  its transaction.

`DeployStaged` is about what spans several runs: a staged plan whose checkpoints are written by one process and
resumed by another. `OverrideLive = FALSE` and at most one operator are the hypotheses of `MutualExclusion`, and are
assumed wherever a theorem says "under the lock's hypotheses": with a lock cleared under a live process two runs interleave their statements and none of
these is true. They are proved from `Inv`, `Held`, `Spared`, `Promised` and `Order`, which has five parts:

* `Ids`: rows have ids of their own, so the newest row is one row;
* `Marks`: the newest checkpoint names a plan that was pinned and counts no more statements than were run (`hist.ran`),
  so that a resume skips none, whether or not the run before it died between executing a statement and recording it;
* `Compared`: what moved outside the plan of the newest checkpoint is accounted for, or its writer is just comparing it;
* `StagedKept`: the entry that closed a staged plan keeps its promise, but for what is accounted for;
* `Knows`: what a process inside remembers of the newest row (its progress, its plan, its state) is still true of it.

The theorems:

* `StatementsRunInOrder`: `Spec => []NoStatementSkipped`; `EntriesKeepTheirPromise`: `Spec => []AppliedAsPromised`;
  `BaselineIsAtomic`: `Spec => BaselineTakesAllOrNothing`.
* `DeployImplementsEnvironment`: `Spec => RefinesEnvironment`. Initial states map to initial states; a step that commits a
  row is, by `Knows`, a step of `Environment` from the state the process read, one step of the abstract ledger per kind of row; a prune keeps
  the newest row (`Spared`), and everything else is a stutter.
* `OnlyItsOwnStatements`: `Spec => []NothingElseRuns`, where no `snapshot` and no `bootstrap` is run. `Open` says that the open deployment is the
  newest row's. With a snapshot the property is false, which the run `snapshot_mid` shows; a bootstrap may reset a ledger that has one open.
* `ReportsRestOnAnApply`: `Spec => []ReportHasEvidence`, with no hypothesis about the lock: `Evidenced` follows the evidence from the row that was
  read into the row that is written, whatever is pruned in between.

The theorems about `ProjectInit` hold for any number of inits, any of the user's acts and any number of faults, from
`InitAssumption` (an init is neither the user nor no one). `WholeProject` is not inductive: that the rollback of one init
cannot hit another's files depends on who holds the claim. `Inv` adds `Holds`: whoever is past its claim is named by the
identity file, so at most one init is; between moving its declarations in and marking or taking them back
they are the only ones; and a marker belongs to an init that is done. One lemma per action shows that `Inv` is kept (`Invariance`).

* `ProjectIsWhole`: `Spec => []WholeProject`.
* `WinnerIsKept`: `Spec => WinnerKept`, and `UserIsKept`: `Spec => UserWins`. Both follow from `StepKeeps`: under `Inv` a step of
  an init only adds to the root, except when it takes back its own declarations or releases its own claim. What `UserWins` says of `.gitkeep` is
  `NotesStay`: while it has content and nobody is past the recheck, every recheck refuses, so nobody ever is.
* `FailedInitsLeaveNothing`: `Spec => []FailureLeavesNothing`. `Inv` says who owns what is there and not that what was made is
  remembered. `Trail` adds it: as long as nobody was killed, no rollback was refused and the user stayed away (`Clear`), each point of an
  installation says how far the root is from what was found (`Trace`), and what the init remembers having displaced is what was there (`Remembers`).

The theorems about `IndexRecovery` hold for any number of attempts and faults, from `RecoveryAssumption`. Neither action property
follows from the types: whether `Drop` may remove what is under the name depends on what was read before the statement and
after the failure, and the server may still work on the statements of attempts that are gone. `Inv` adds `InTurn` (attempts take turns),
`Seen` (a relation that an attempt found at its start is still there and every later attempt found it too), `Quiet` (between a failure and the
end of its recovery nothing is built under the name, and what is about to be dropped is invalid) and `Own` (where a statement of an attempt,
and an index it made, can still be). One lemma per action shows that `Inv` is kept.

* `EarlierIsKept`: `Spec => OthersKept`, and `ValidIsKept`: `Spec => ValidKept`. Both follow from `Touches`: under `Inv` a step
  changes a relation under the name only if the deployment made it and it is invalid.
* `NothingIsLeft`: `Spec => []LeavesNothing`.

The theorems about `ScratchSupplied` hold for any number of runs, tokens and faults, from `NobodyAssumption` and `FaultsAssumption`. A
claim is read in one step and acted on in later ones, and a run may lose its session, and with it the server's lock, between any two. `IInv` says that whoever sweeps
with a session holds the lock (`HolderOK`), that a run knows whether it has a claim of its own (`KnowingOK`), what a run with a session knows of the claim and
of what its cleanup has already removed (`RunOK`: the claim it read is there or gone, and its run has no session), and `ClaimOutlives`.

* `SuppliedTyped`: `Spec => []TypeOK`; `ClaimNamesWhatIsLeft`: `Spec => []ClaimOutlives`.
* `LiveRunsAreSpared`: `Spec => NothingTakenFromLive`. Whoever is about to write or remove is alone (`Lone`): a run at work is the claim's
  and is live, and a sweep past its check of liveness found the claim's run dead.

The theorems about `ScratchOwned` hold for any number of runs, roles and faults, from `FaultsAssumption`. Here a sweep takes no lock: it lists in one step, reads the
sessions in another and removes in later ones, while the runs on its list go on. `IInv` says what a run has at each point of its way (`RunOK`) and what of a sweep's list is still
true when it is acted on (`SweepOK`): the list is the rest of database, roles, login in that order (`Shaped`); once the sessions are read, a run on it has no named session, and it gets none back, since a token is
used once (`Fresh`); a list with more than the record names no run that is still before its first database; the roles are next only when the database is gone; and unless the run is `raced`, the list has all that
the run has, so that the login goes last.

* `RecordOutlives`: `Spec => []RecordOutlivesUnraced`. A run that creates while some sweep has it on its list is the one way a list stops having
  all there is; as long as that run has its session no sweep acts on the list, so the exception begins when the session is lost.
* `NothingTaken`: `Spec => NothingTakenFromRunning`. A run the sweep has found without a named session may still be inside its database. It then owns that database
  (`RunOK`), so the server refuses the database as in use and the login as an owner, and the roles are not next.

The theorems about `Republish` hold for any number of publishers and any set of names, from `RepublishAssumption`. The loops over the
files go in the order of the names, so the next file of a loop is a least or greatest element: `MinIn` and `MaxIn` show, by well-founded
induction, that it exists. `IInv` says for each publisher at each point (`RunOK`) what it then has (`PlaceOK`), that it knows every file it wrote (`KnownOK`), and, while it owns the
backup, for each file whether it is in its place, in the backup, or replaced by an output (`OutputsOK`), and how that relates to what was there before (`BackupOK`).

* `PublishersExclude`: `Spec => []OneAtATime`; `CommittedIsWhole`: `Spec => []CommitIsWhole`; `SaysUnchangedTruly`: `Spec => []UnchangedIsTrue`.
* `DeclarationsAreKept`: `Spec => NothingLost`.

The theorems about `Compose` hold for any number of operations, viewers, generations and faults of any kinds, from `ComposeAssumption` (no operation
is an operation, nobody is a viewer). `IInv` has three layers:

* `OpOK`, of one operation: its record is valid and agrees with its private refs (`RecordOK`); its receipt agrees with its record (`ReceiptOK`: for example, what
  has no receipt and was started is spent or lost its receipt with a pinned commit); and what was done for it agrees with both (`DoneOK`: no commit, then no branch and no push; a
  generation not yet drawn has no push);
* `ViewerOK`, of one viewer: which locks it holds at which point (`PlaceOK`), what it remembers (`MemoryOK`), what it has said or is about to say
  (`SayingOK`), what it knows of the record while it captures or retires (`HandsOK`, `RetireOK`) and of the receipt while it publishes (`StageOK`);
* `Alone`: an operation that some viewer still holds as a candidate or is giving up (`Claims`) is no other viewer's. A second viewer may work on a receipt, but
  no second viewer can start the operation, which is what makes "nothing was published" stay true after it was said.

A step of one viewer must not falsify what another knows. `Frame` says what a step leaves alone and `Spares` what the locks and claims promise of the rest (receipts change only under
`owner.lock`, records only under `resources.lock`, an unstarted operation is started only by the viewer that holds its confirmed candidate); the `Others...` lemmas
conclude from these two that every other viewer's part is kept, so that each action has one lemma about the operation and the viewer it concerns.

* `RecordsStayValid`, `NoRootOrphaned`, `PreparedStaysRooted`, `DeliveredIsTrue`, `NothingPublishedIsTrue` and `GivenUpStaysUnpublished`: the six invariants
  the runs check, each a consequence of `IInv`.
* `PublisherKeepsItsPromise`: `Spec => Promised`. `StepsThatCount` shows that only `CommitTree`, `Install` and `Push` (and a death while pushing) do what
  `Publication` counts; `StageOK` and `DoneOK` give the guard of its action in each case, and everything else is a stutter.
* `PreviewsStartOneResult`: `Spec => PreviewStartsNoSibling`. `Gate` says that what the listing has passed still passes until the receipt is written: `GateHeld` needs only
  that whoever is at the gate holds `owner.lock` and that `ReceiptsOwned`.

What proving found about the models: `Environment` let a staged plan be closed only by the row its last statement left, and the code
closes a staged plan that has no statements right away, so the refinement failed there and `Finish` now admits it; and `ScratchSupplied` counted what
a run's recovery of a dead claim could not remove against the run's own cleanup. `Compose` needed no change. Two facts its promise rests on, and that no property says, came out of the attempts: a push
is always made under a generation older than the one in the receipt (`run[v].req < gen[o]`), so the one drawn for the next authorization is unused; and a confirmation refused as
stale has made no commit, whatever was lost before, since it reads the pinned commit of the record as well as the receipt.

Only model-checked: the liveness properties `LockComesFree`, `RequestsEnd`, `DeadClaimGoes`, `SomeInitWins` and
`RetrySucceeds`, which need fairness and are out of the prover's reach. Every other property a passing run checks is the statement of a theorem.

## Not modelled, and why

* What a plan contains and how it is ordered: `Steps` is a constant. The read-back guard is modelled by
  its promise (nothing outside the plan moved, everything in it is where the plan leaves it), not
  kind by kind. At a checkpoint some kinds are also held to the values their own chain of changes
  passes through (the extensions, for one); the model lets a touched object have any value there, so it
  allows more behaviours than the code.
* The keys, seals and type pins of `pins.rs`: one fingerprint, checked where the code checks it.
* Split renames in staged plans. `IndexRecovery` models the build of one index by itself and is not composed with `Deploy`, where a failed
  statement is `StepFails`.
* What a compose candidate contains and how Git and `pbps` are invoked; what is compiled in a scratch database; the scratch adapters for
  SQL Server and Docker, which follow the same sweep; nested directories and access rights in publications.
* Most of the repository by size is query text, introspection of two catalogs, SQL emission, comparison of definitions kind by kind, and tests:
  functions of their input, without state that processes share. The map therefore covers a small share of all lines; it covers
  the code in which interleavings, crashes and retries decide the outcome.
* Reading commands (verify, status, doctor, listings): they change nothing. Introspection,
  emitters, preflight, loading, configuration, policies and documentation: queries and text.
* SQL Server's ledger module follows the same protocol; the lines mapped are PostgreSQL's.

## Plan

1. The removal of leftovers as a liveness property of `ScratchOwned`, on an instance with more tokens than faults.
2. Split renames in staged plans, in `Deploy`.
3. Pure algorithms against reference definitions: ids merge and check, plan ordering against its
   dependency relation, the guard's postconditions per change kind.
4. Hooks and the reporting of outcomes: one attempt event for each attempt, verdict unchanged.
