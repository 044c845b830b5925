# OneSSH in TLA+

OneSSH is a gateway between AI agents and SSH hosts: one Go process, one SQLite
database, a pool of SSH connections, an MCP endpoint for the agents and a web
console for the administrator. This directory holds TLA+ models of its core
logic, the TLC configurations that check them and proofs checked by TLAPS.

Run from this directory:

    tlc -workers 2 -config jobs_race.cfg MCJobLifecycle
    tlapm JobLifecycle_proofs.tla
    tlc -workers 2 -config grants.cfg MCOAuthGrants
    tlapm OAuthGrants_proofs.tla
    tlc -workers 2 -config registry.cfg MCHostRegistry
    tlc -workers 2 -config pool.cfg MCSSHPool
    tlapm HostRegistry_proofs.tla
    tlapm SSHPool_proofs.tla
    tlc -workers 2 -config commands.cfg MCCommands
    tlapm CommandRuns_proofs.tla
    tlapm Parts_proofs.tla
    tlc -workers 2 -config services.cfg MCServices
    tlapm Services_proofs.tla
    tlapm RemoteSearch_proofs.tla

## 1. Inventory

`internal/` is left out of the paths. "DB" is the SQLite database: one
connection writes at a time, so a statement or a transaction is atomic; nothing
else in the program is atomic across goroutines.

| Component | State | Operations | Hard behaviour | What makes it correct |
|---|---|---|---|---|
| Background jobs (`jobs/`, `store/jobs.go`, `mcpserver/jobs.go`) | rows of `jobs`; the process, its pid and exit file on the host; `Manager.stuck` | start, refresh one or a list, kill, logs; hourly maintenance: probe, expire, prune | answers written long after they were read, workers that hang and come back, restarts, processes that end on their own | an ended job stays ended; its run ends once, after it, with a true verdict; nothing is left open for ever |
| Command runs (`store/command_runs.go`, `mcpserver/command_runs.go`) | rows of `command_runs`, output files in the data directory | create, finish, finish by job, recover after restart, expire and clean outputs | two writers of one end, restart between two writes, cleaning beside running commands | one verdict per run, announced once; an available output has its file |
| Hosts (`hostmanager/`, `store/hosts_keys.go`) | rows of `hosts` with jump host, archive time, fingerprint | create, update, delete, archive, unarchive, reset fingerprint, test | checks made before the write they guard | no cycle and at most five levels of jump hosts; an active host is not reached through an archived one |
| Connection pool (`sshpool/`) | one entry per host name: lock, client, online; closed flag | get (dials, recursively for jump hosts), keepalive, invalidate, close | a lock held across a dial and over a chain of entries | no deadlock; a stale keepalive does not drop a new client; an invalidated client is not handed out |
| Command execution (`execx/`, `mcpserver/exec.go`, `fanout.go`) | sessions (cwd, env) in the DB, output limiters, captured files | exec, exec on many hosts, output paging | exit, timer and cancellation race; read-run-write of a session | one end per run; following the pages loses nothing |
| OAuth (`oauthserver/`, `store/oauth.go`) and tokens (`store/auth_sessions.go`, `mcpserver/auth.go`) | codes, grants, refresh and access tokens, hosts a token may use | authorise, exchange, refresh, replay, edit, delete; principal of a request | retries, replays, host deletion between the steps | a code or refresh token is redeemed once; a replay ends the family |
| Remote files (`files/`) | the files, a cache of SFTP clients | read, write, edit, transfer | edit is read, compare, write; rename fallback | a reader sees a whole file; no call loses a file and reports success |
| Events (`events/`) | subscribers and their buffers | publish, subscribe, unsubscribe | full buffers; close during publish | no send on a closed channel; a subscriber sees a subsequence in order |
| Monitoring (`monitor/`, `store/observability.go`) | latest samples, polling flag | poll, sample, read | overlapping polls | one poll at a time, at most five samples at once |
| Memory bank (`memoryx/`, `store/memories.go`) | rows of memories, FTS index, embeddings | remember, update, recall, sleep | find-then-write | a vector belongs to the text beside it; what is recalled outlives Sleep |
| Search (`searchx/`, `searchcore/`) | platform per connection, staged helper | search with helper or fallback | connection replaced between steps | a failure on an old connection does not disable a new one; nothing staged is left behind; an answer that is not complete says so |
| Migrations (`store/store.go`) | schema version | migrate | restart between versions | versions applied in order, each wholly or not at all |
| Tool access (`toolgroups/`, `mcpserver/denylist.go`, `apps.go`, `instructions.go`) | groups disabled by instance and token | list, call, read a card, initialize | six methods decide by one set; rows of other versions | what a client is told of is what it can use |
| Web API, terminal, images, configuration, cryptography | (little or none) | request decoding, copying | – | see section 8 |

Interaction: the MCP tools and the web API call the managers; the managers
share the DB and the pool; `jobs` is called by both and by a maintenance
goroutine; ends of runs are published on the event bus; host operations
invalidate pool entries; deleting a host also revokes grants, deletes the ended
jobs and refuses if a job runs. There is no lock around a job: its row, its run
and its process are kept in step only by the order of statements and their WHERE
clauses. That is why it comes first.

`PROJECT.json` lists every hazard of these components at the line where it
bites, and the properties that would catch it going wrong.

## 2. Layout

| Modules | Subject | Section |
|---|---|---|
| `JobLifecycle`, abstract `RunLedger` | background jobs and the end of their runs | 3 |
| `OAuthGrants`, abstract `TokenFamily` | grants, codes and tokens | 4 |
| `HostRegistry`, and `SSHPool` composed with it | host rows; connections | 5 |
| `CommandRuns`, `FanOut`, `ExecSession` | commands that are waited for | 6 |
| `OutputCapture`, `OutputPaging`, `OutputLines` | the bytes they print | 6 |
| `MonitorPoll` | polls | 6 |
| `RemoteFiles`, `EventBus`, `MemoryBank`, `RemoteSearch`, `SearchWalk`, `GrepScan`, `Migrations`, `ToolAccess` | the other services | 7 |

The order is that of the importance of what is kept: jobs, grants and hosts are
rows several goroutines write without a lock; then come commands and their
outputs, then the services. Each `MC...` module instantiates components for TLC;
each `..._proofs` module extends one component and holds its theorems, but for three:
`Parts_proofs` is about the six parts beside `CommandRuns`, `RemoteSearch_proofs` about
`RemoteSearch`, `GrepScan` and `SearchWalk`, and `Services_proofs` about the other five
services.

Every safety property of a passing run, invariant or action property, is also the
subject of a theorem, for every value of the constants; what is only model-checked is
the two liveness properties, `RunConverges` and `EverythingReturns`. Typing, and the
inductive invariants behind the theorems, are run where TLC says something the proof
needed to know first (`IInv` in `jobs_order`, `RegInv` in `registry`); the others are
parts of theorems only.

Runs use two actors per race and one or two data values; proofs are for every
value of the constants. The components of sections 6 and 7 share no variables, so
`MCCommands` and `MCServices` check several side by side: `part` names the one
that moves, the others stay at their start. The states of a run are the sum of
those of its parts and not the product, and a property of one part is checked in
all of them, trivially in those where its part does not move.

## 3. JobLifecycle

### State and correspondence

| Variable | In the program |
|---|---|
| `job` | the row of `jobs`: none, running, ended (with its exit code folded in: `exit0`, `exit1` for any other code, `exitNull`), `killed`, `lost`, deleted |
| `run` | the row of `command_runs`; its `job_id` is set exactly when the job row exists, `CreateJobForCommandRun` writes both in one transaction |
| `remote` | the process and its exit file: running, `opened` (file created, still empty), `exit0`/`exit1` (written), `blank` (died with the file empty), `gone` (died without one) |
| `host` | archived or deleted host rows |
| `aged` | the row is beyond its limit: a running one unchecked for seven days, an ended one for thirty |
| `stuck` | `Manager.stuck`: the abandoned worker of each host |
| `failed` | the ids a maintenance round could not confirm (and why, for a property) |
| `pc`, `kind`, `batch`, `todo`, `cur`, `seen` | where each goroutine is and its local variables: the snapshot it works from and the status it is about to write |
| `published` | counts `command_finished` events |

A worker is a goroutine serving `job_start`, `job_status`, a list refresh, a
kill, or one host of a maintenance round; `Maint` is the maintenance goroutine.
One action is one database statement, or one exchange with a host:

* **start**: `StartRun`, `Launch`, `LinkJob`, and on errors `Cleanup`, `AbortRun`;
* **refresh**: `ReadStatus` or `ListHost`, `Connect`, `Probe`, then `RecordCheck`
  or `UpdateRow`, and `ReadRun`, `FinishRun`, `Publish` (`syncCommandRun`);
  `Return` hands the answers over and `Abandon` is the caller that stops waiting,
  after which the worker goes on as "hung";
* **kill**: `BeginKill`, `Reach`, `Inspect`, `Signal`, then `UpdateRow` and the
  synchronisation;
* **maintenance**: `BeginRound`, `ProbeHost` or `SkipHost` per host, `Expire`,
  `SyncExpired` per expired job, `Prune`;
* **hosts**: `ArchiveHost`, `UnarchiveHost`, `DeleteHost`;
* **the world**: `OpenExitFile`, `WriteExitFile`, `Die`, `Age`, `Crash` (the
  gateway stops at any point and recovers on its next start).

A remote call can fail at every point where the code has an error branch. With
`StoreFaults` every write of the DB can fail as well, taking the branch the code
has for it (most log the error and go on).

### Abstractions

The kill script's check that the process group is still the job's own is taken
to be right. Logs and output bytes, names, times and formats are left out; a
time appears only as `aged`. `Age` is guarded by what a week means to the code:
no request lasts that long, except that a worker may be just about to write the
check that would have kept the row young. `Delete` of a host that is a jump host
is not part of this module, and a host name stands for one machine throughout:
hosts are not created, so no id is reused (section 4 has that). Events other than `command_finished` are left out.

### Runs

All runs use `MCJobLifecycle`. `MaxCrashes` bounds the restarts, the only
unbounded behaviour.

| Run | Bounds | Question |
|---|---|---|
| `jobs_race` | 1 job, 2 workers + maintenance, 1 restart, failing writes; workers symmetric | do verdict, publication and truth survive every interleaving, is the abstract ledger implemented? |
| `jobs_order` | the same without failing writes, fair | does the job always end before its run, is no run forgotten and does it end although nobody asks, does the inductive invariant hold? |

Jobs do not share anything but their host's reachability, so one job with two
requests and a maintenance round has every race of a row and its run; the
proofs cover any number of jobs, hosts and workers.

`jobs_exit_code` checks a statement that the code does not keep: README.md:279 of
the repository says that a run ends by the real exit code. A probe can read the
exit file after the wrapper has opened it and before the code is in it.

Three more disagreements with the repository's text are reachable in this model
and have no run of their own:

* README.md:467 says a lost job is not tracked any more, even if its host
  recovers. A worker the round has given up on goes on, and its late answer
  replaces `lost` in the row (the UPDATE of `UpdateJobState` does not look at the
  old status); the run stays lost, by `VerdictFinal`.
* `store/jobs.go:73` says jobs of an archived host are not to be declared lost for
  it. `Maintain` lists the jobs once; those of a host archived after that count as
  failed probes, and `Expire` may mark them.
* README.md:279 says runs converge through later refreshes after a restart. If the
  gateway stops between the end of a row and the end of its run, no round lists
  the row again, and once it is pruned nothing can close the run. This is why
  `NoRunLeftBehind` and `RunConverges` speak of behaviours without a restart.

### Fairness

`FairSpec` is weakly fair only for steps that wait for nothing but the local
database: `ReadRun`, `FinishRun`, and `SyncExpired`. A goroutine that has
reached them is runnable and SQLite answers. No remote answer, request, timer
or maintenance round is assumed.

### Proofs

`JobLifecycle_proofs` is about every instance: any sets of jobs, hosts and
workers, any number of restarts, with or without failing writes, from
`ConstantsOK` alone. The properties are not inductive; `IInv` adds what they rest on:

* `OneStarter`, `RunBeforeJob`: until it links the job, a `job_start` is alone
  with its run, so when `AbortRun` ends that run nobody else can be ending it;
* `HeldJobs`, `DecidedEnds`: whoever refreshes, kills or expires found a row, and
  what is on its way into a row or run is an end;
* `JobEndsFirst`: everyone who is about to synchronise a run has ended the row
  before, and rows never go back to running: this is why a run cannot end early;
* `OnePublisher`: the only publisher is the one whose UPDATE found the run open;
* `TrueAnswers`: what a goroutine carries from a host stays true while it waits,
  because an exit file is written once and the dead stay dead.

There is one lemma per action group and conjunct, combined in `Invariance`; the
action properties (`VerdictsAreFinal`, `EndedRowsStayEnded`) and the refinement
(`RefinesLedger`) follow from it step by step. `RunLedger` is the abstract
specification: a run is opened, linked to its job, settled once after the job
(or closed as interrupted by recovery) and announced once; which of the ended
statuses a job row shows is below its level, since the code lets late writers
correct it.

Only model-checked: `RunConverges` (liveness is beyond the prover).

## 4. OAuthGrants

### State and correspondence

| Variable | In the program |
|---|---|
| `code`, `grantOf`, `asked` | rows of `oauth_authorization_codes`: none, issued, used; `grant_id` once used; `host_ids_json` with `all_hosts` |
| `access`, `tokenRights` | rows of `tokens` (none, live, expired, deleted) and of `token_hosts` |
| `refresh`, `revoked`, `grant`, `refreshRights` | rows of `oauth_refresh_tokens`: `used_at`, `revoked_at`, `grant_id`, `host_ids_json` with `all_hosts` |
| `outdated` | codes and refresh tokens whose `expires_at` has passed |
| `present`, `tenant` | rows of `hosts`; how many hosts have borne an id |
| `picked` | the hosts a console request has looked up so far |

Every store call is one transaction and one action. What interleaves are whole
requests: a client may present any code or refresh token, of any age and any
number of times (an answer that got lost is a code or token presented again), and
the administrator's console looks up the hosts of its list one by one (`Pick`)
before `Approve` or `UpdateToken` writes the list.

* **console**: `Pick`, `Approve`, `UpdateToken`, `DeleteToken`, `CreateHost`,
  `DeleteHost`;
* **clients**: `Exchange`, `ReplayCode`, `Rotate`, `ReplayRefresh`. A request that
  is refused without a write (unknown, expired or revoked) changes nothing and is
  no action;
* **time**: `OutdateCode`, `ExpireAccess`, `OutdateRefresh`, in the order the three
  lifetimes (five minutes, an hour, thirty days) give to rows written together.

### Abstractions

An access token and the refresh token written with it are one element of `Pairs`;
the grant id minted by an exchange is named after the grant's first pair. A right
is `all_hosts` or an id together with the host that bore it when it was looked up:
the code only keeps the id, and no action of the model decides by anything else,
but the property about reused ids needs to tell two hosts of one id apart.
`manage_hosts` and `disabled_tools` are copied along with the hosts and left out.
The client, redirect address, resource and PKCE challenge are taken to match.
`DeleteHost` is the deletion that is not refused (no running job, nobody's jump
host). Manual tokens are left out: no step of a grant touches them.

### Runs

| Run | Bounds | Question |
|---|---|---|
| `grants` | 1 code, 3 pairs, 1 console request, 1 host id with 1 bearer; pairs are symmetric | does a family die as a whole and for good, with one heir, edits inherited and host deletion final; is `TokenFamily` implemented? |
| `grants_reused_id` | 1 code, 2 pairs, 1 host id with 2 bearers | does the authorisation of an old host ever reach a new one? |

Three pairs are a first exchange and two rotations: a used token, its used
successor and the heir, which is what it takes for an edit, a replay or a deletion
to hit a family between two generations. Families share nothing but the hosts;
two codes with two pairs, or a second bearer of the host's id, change nothing (both
were checked with no error, 2.9 million states each) and the proofs need no bound.
The system may stop when everything has expired, so deadlock is not checked.

`grants_reused_id` is a disagreement with a test: the test of `DeleteHost` fails
if a token granted before the deletion reaches the host that is given the old id.
A code approved before the deletion and exchanged after it does: codes are not
among what `DeleteHost` cleans, `token_hosts` has no foreign key and the exchange
does not look the hosts up again. The same holds for an edit whose list was looked
up before the deletion.

No fairness is assumed: nothing here must happen.

### Proofs

`OAuthGrants_proofs` is about any sets of codes, pairs and console requests and any
numbers of hosts and bearers, from `GrantConstantsOK` alone. `IInv` adds to the
properties what they rest on:

* `Registered`: rows come in pairs, a grant's first pair exists as long as any of
  its pairs does, and a deleted access token has taken its grant with it. Without it
  a revocation could miss a member, or a rotation join a revoked grant;
* `ProperRights`: `all_hosts` and a list exclude each other. `restrictedGrant`
  passes over rows with `all_hosts=1`, so a row with both would survive the
  deletion of a host it lists;
* `InStep`: a refresh token that may still be rotated has the rights of its access
  token. `UpdateToken` changes both and a host deletion takes an id off access
  tokens only, but revokes every refresh token that lists it.

`WholeGrants` and `OneHeir` are conjuncts of it. `Inheritance` and
`HostDeletionEnds` are proved of each step from `IInv`, after lemmas that say which
action a change of `used_at` or of `hosts` comes from. `RefinesFamilies` maps each
action to a step of `TokenFamily`: approval grants a secret, exchange and rotation
redeem one, replays and deletions close families, expiry lets keys lapse, and
console look-ups, edits and the passing of time for a refresh token are stutters.

## 5. HostRegistry and SSHPool

### State and correspondence

| Variable | In the program |
|---|---|
| `present`, `jump`, `archived` | rows of `hosts`, their `jump_host_id` and `archived_at` |
| `rev` | counts the writes to the row of a name; stands for all other columns |
| `step`, `req`, `owed` | a request of the console or of an MCP tool: where it is, the local variables of `hostFromInput` (`old`, `jump`, `seen`, `cur`), the names it has yet to pass to `Invalidate` |
| `lock`, `client`, `online` | the fields of a pool `entry` |
| `conn`, `open`, `keepalive` | an `ssh.Client`: host, the row and the jump connection it was dialled with; whether it is closed; its keepalive goroutine |
| `stack`, `stage`, `jumpConn` | the nested calls `get` – `dial` – `get` of a request, with the row each has read, and where the innermost is |
| `raced`, `base`, `missed` | histories, read by properties only |

`HostRegistry` has one action per query or transaction of `hostmanager.Manager`.
An update or creation is `BeginUpdate` or `BeginCreate`, `FindJump`, one `Walk` per
row of the chain, `WriteUpdate` or `WriteCreate`; an update goes on with `Dropped`
for its own connection, `ListDependents`, and `Dropped` for each of these.
`BeginDelete` drops first and then does `DeleteRow`. `Archive`, `Unarchive` and
`DeleteRow` check and write in one transaction. `Reconnect` is `ResetFingerprint`
or `Test`, whose `Get` is any request of the pool.

`SSHPool` runs these requests (`HostStep`, `Drop`) beside the requests that use
connections: `Get`, then `Hit` (a pooled client is handed out) or `Lock`, `ReadRow`
or `NoRow`, `EnterJump` for the recursion, `Connect` or `Fail`. `KeepaliveFails` is
a goroutine that has had no answer and `KeepaliveDrops` the same goroutine once it
has the entry's lock; `NoSftp` is `files.ClientPool.Get` invalidating a name.

### Abstractions

A host is its name: renaming is left out, and a name may be used again after a
deletion. Credentials, tags, fingerprints and tests of reachability are not
modelled; a dial may succeed whenever the way there is open and fail at any time.
A queued goroutine of a mutex is a disabled action: which one gets the lock next is
left open. Nobody acts on an entry that is locked, so the look at an entry that has
a usable client is one step with its lock and unlock. `Pool.mu` is held for a map
look-up; `Close` runs only when `main` returns, which `ListenAndServe` never lets it.
A cancelled host request is one that takes no further step, except that a failed
`JumpDependentNames` is a branch of `ListDependents`, since `Update` goes on after it.

### Runs

| Run | Bounds | Question |
|---|---|---|
| `registry` | 3 hosts, 2 requests, any jump host, chains of 2, 5 writes; hosts and requests symmetric | do the checks before the write keep out cycles and archived jump hosts? does the inductive invariant hold? |
| `pool` | 2 hosts, 2 connections, 2 users of connections, 1 administrator, any jump host, 3 writes; all symmetric | is every connection that is not pooled closed, every lock given back, no connection of an old row left after its update was answered? |
| `pool_ring` | 2 hosts, 2 users, 2 administrators, 4 writes, no dial completes | can requests wait for each other in a ring? |

Three hosts and five writes are a chain of two jumps that is then closed or
archived at any point, with a write to spare for another request. Three writes in `pool` are two hosts, one
through the other, and an update of either; or a host deleted and created again.
Two connections are the two of a chain, or one and its successor: `Fresh` makes a
dial wait for the keepalive of an old connection to end, which no other step waits
for, and `open` shows a connection without an entry as long as that is the case.
Nothing must happen in these systems, so deadlock is not checked and no fairness is
assumed.

The properties and their conditions:

* `Acyclic` and `ActiveViaActive` are what `hostFromInput` checks, and hold as long
  as no row is written between the checks of another request and its write
  (`raced`). The condition is not a convenience: without it both are false, because
  the UPDATE does not repeat the checks. `Chain`, in `RegInv`, is the reason they
  hold: what was walked is still so.
* `CurrentRows` and `CurrentTunnels`: an update that has been answered leaves no
  pooled client dialled from the old row, nor through a jump connection of the old
  row, although dials read the row long before they pool the client. It holds because
  `Invalidate` waits for the entry's lock. `CurrentTunnels` excludes the hosts whose
  dependents could not be listed (`missed`): there `Update` ignores the error and the
  old tunnels stay until their keepalive fails. A host deleted and created again
  counts as new (`base`): `Delete` drops the connection before the row, and a request
  in between pools one that the next host of that name inherits.
* `NoOrphans`: a client that is open is the one in its host's entry, so somebody will
  close it; a stale keepalive is what could lose it.
* `HoldsChain`: a request holds exactly the locks of its calls in progress, each once.

`pool_ring` shows that the chain of locks is not ordered by anything that lasts. The
check for cycles in `get` sees the caller's own chain only. One request holds h2 and
has read that its jump host is h1; h2 is made direct and h1 led through h2; another
request holds h1 and wants h2. Both wait in `e.mu.Lock()`, which no context ends. There
is no cycle in the table at any time, and the second update may begin after the first
has been committed: it is enough that both happen between the two steps of the first
request. Updates whose checks race can also leave a cycle in the table. The depth of a chain is not kept by the checks
either: `hostFromInput` counts the rows above the jump host, not the hosts below the
one it updates, so a chain can get longer than five; `get` then refuses it.

### Proofs

`HostRegistry_proofs` is about any hosts, requests and chain lengths, from
`RegistryConstantsOK` alone. `Typing` needs no condition. `RegInvariance` rests on
`Chain` and `Finding`: the rows walked so far are closed under `jump` but for the
current one, do not contain the host (unless it is being created, when it is no row
yet), and contain the wanted jump host; and an archived jump host is only on the way
if the host itself is archived. `NoNewCycle` is the heart: a cycle through the new
edge meets the walked rows, its part there is closed under `jump` and does not
contain the host, so it is a cycle that was there before. Steps that leave the table
alone disturb nobody (`Undisturbed`); a step that writes while anybody else is
checking sets `raced`, so after an unraced write nobody has findings to keep.

`SSHPool_proofs` extends it: any hosts, administrators, users and connections, chains
of any length, from the two assumptions on the constants. `PoolInvariance` states
`PoolInv`, which adds to the properties what makes them inductive:

* `FramesFit` and `PooledFit`: the row a dial has read, or a pooled client was dialled
  from, is the present one of its host, or an administrator is still at the step that
  drops exactly this host's connection (`DropOwed`). An update that writes the row
  while the host is being dialled gets there at once, and cannot finish it before the
  dial is over, because the dial holds the entry's lock. `FrontOf` to `Leaving` follow
  the locks through the nested calls of `get`.
* `EntriesFit`: an entry that is locked has no client, so a dial never replaces one;
  with `OpenFit` that is why nothing is orphaned (`NothingOrphaned`), and why a
  keepalive that ends late only clears its own entry.
* `JumpFit`: an open connection that a call is given to dial through is the pooled one
  of its jump host. If it is from an old row, the writer of that row has yet to drop
  it, and to list the dependents afterwards: either the new client is then in that
  list (`ListAfter`), or its own row has changed and it is owed for that reason
  (`TunnelsAfter`).

`PoolTyped`, `ChainsHeld`, `RowsCurrent` and `TunnelsCurrent` are the other corollaries.
Only model-checked: the ring of `NoWaitCycle`, which is a violation.

## 6. Commands, their outputs and polls (`MCCommands`)

### State and correspondence

**`CommandRuns`** is what the handlers of `exec` and `exec_many` do for one host.

| Variable | In the program |
|---|---|
| `stage`, `cancelled` | where the call is in its handler and in `Runner.Run`; whether its context is done |
| `res` | the `Result` and error `Run` is putting together |
| `remote`, `copied` | chunks and trailer the command has produced, its exit, its link; how much of it went through `limitedWriter.Write` |
| `file` | the kept output in the data directory: open, broken by a failed write, closed; its bytes |
| `row`, `finished` | the row of `command_runs`; runs whose `command_finished` was published |
| `sweep`, `doomed` | the hourly clean-up between its three steps, and the ids it was told to delete |
| `late`, `unsaved` | histories, read by properties and by nothing else |

`StartCommandRun`, `GetClient`, `StartSession`, then the copying goroutine's
`Write` beside `Select`, which takes the end of the command, or the timer or the
context, and then has to kill it over a link that may not answer
(`TerminateSession`); `CloseCapture` closes the file and cuts the trailer,
`Collect` counts and keeps it, `FinishCommandRun` writes the row. `Remote`,
`Cancel` and `Restart` are the world. The clean-up is `ExpireOutputs`,
`ListDeletable`, `RemoveOutputs` and `MarkCleaned`, each a statement or a loop of
removals any of which may fail. `CloseCapture` and `Collect` are two actions
because a broken-off command goes on writing between them.

**`FanOut`** is `execMany`: the loop that starts goroutines (`Spawn`), the channel
used as a semaphore (`Acquire`, `Release`), a result per host (`Report`), the wait
group (`Done`, `Answer`). What a goroutine does with its slot is `CommandRuns`; here it
ends or never does (`Hang`).

**`ExecSession`** is the row of a persistent session: `GetSession`, a command of any
length (`RunExec`), and `SaveSession` of the whole row, by `exec` (`SaveExec`) and by
`session_env` (`SaveEnv`).

**`OutputCapture`** is `limitedWriter`: the head and tail it keeps, and
`emitCallback`, which holds back what may be the beginning of the trailer. `EndSession`
is what `Run`'s select takes; only a session that was waited for ends the writes, and
`finishCallback` is two steps (`PublishPending`, `DropPending`) since after a timeout or
a cancellation it runs beside them, without a lock.
**`OutputPaging`** is `UTF8Page` behind `ReadCommandOutput` and `LogChunk`, on a file
that may grow while it is read. **`OutputLines`** is `selectLines` and `ReadArtifact`.

**`MonitorPoll`** is `Manager.Poll`: the flag that keeps polls apart (`Enter`), the
list of hosts, the workers on an unbuffered channel (`Send`, `EndSample`, or `HangSample`
of a host that never answers), the closing of the channel and the wait, and `Stop` at any
moment.

### Runs

| Run | Bounds | Questions |
|---|---|---|
| `commands` | see below | one per property |
| `output_trailer` | those of `CaptureExact` | does the live output never contain the trailer? |
| `output_tail` | 4 lines of 3 contents | is the tail of an output its last lines? |

| Property | Part and its bounds | What it says |
|---|---|---|
| `AvailableIsWhole` | `CommandRuns`: one new run, one that ended before, 1 chunk and the trailer, 1 restart | an output the row calls available is there, closed, and complete unless the command was broken off; a row marked cleaned has no file |
| `VerdictOfCommand` | the same | succeeded means exit 0; a recorded code is the command's own; a returned call has closed its run |
| `NothingAfterFinished` | the same | output published after `command_finished` is that of a broken-off run |
| `EveryHostAnswered` | `FanOut`: 4 hosts, 2 slots | the answer has an entry for every host |
| `EnvKeptAlone` | `ExecSession`: 2 `exec`, 2 `session_env`, 2 directories | a variable stays set whatever follows, unless a call overlapped the one that set it |
| `CaptureExact` | `OutputCapture`: 5 bytes in chunks up to 3, a marker of 3, 3 kept | what is kept is the output or its two ends; until `finishCallback` what is published live is the output before the trailer but for its last bytes, and after a command that was waited for all of it |
| `PagesExact` | `OutputPaging`: 4 bytes of any kind, pages of 1 to 3 | following the offsets reads each byte once, gets on and splits no character that was whole |
| `LinesExact` | `OutputLines`: 4 lines | the first lines, whether some are missing, and the pages of a pattern are those of the output |
| `OnePoll` | `MonitorPoll`: 2 polls, 2 workers, 3 hosts | polls do not overlap, leave no worker and no flag behind, and skip no host, though samples may hang |
| `EverythingReturns` | `CommandRuns`, `FanOut`, `MonitorPoll` | a command does not hold up its call; a fan-out and a poll end unless the work on a host never does; a host that hangs delays the others only when no slot or worker is left |

One new run beside an old one is what the clean-up can confuse; a chunk and the
trailer are what can be missing from a file. Two hosts more than slots make
goroutines wait. A marker of three bytes can be split over three chunks and can
overlap its own beginning; the stream has room for it on either side. Three hosts
for two workers leave one to be handed over when the monitor is halted.

`AvailableIsWhole` exempts timeouts and cancellations: `Run` returns without
waiting for the goroutine that copies, so the file can miss bytes that the row
counts. `EnvKeptAlone` exempts overlapping calls (`mixed`): `SaveSession` writes the
whole row, and an `exec` of minutes takes the environment back to what it had read.
`CaptureExact` stops short of what a broken-off command still publishes after
`finishCallback`, because of `output_trailer`: a timer that fires while the beginning of
the trailer is held back makes `finishCallback` publish it, and the copying goroutine,
for which nobody has waited, brings the rest, which is no marker any more. The test of
`limitedWriter` and the comment on `emitCallback` say that the trailer never shows.
`OutputLines` has no property about the tail because of `output_tail`:
`selectLines` counts the empty piece after the last line end, so the tail of an
output that ends with one is a line short, and empty with `max_lines=1`.

### Fairness

`Pool.Get` waits for an entry's lock without looking at the context (section 5 shows a ring
of such waits), `NewSession` and `Start` come before `Run` sets its timer, and the kill
signal goes over a link that may be dead: nothing in the code bounds them, and
`jobs/maintenance.go:109` reckons with it. `CmdFairness` therefore is weak fairness of
`Local` steps alone: `Select`, which its timer always enables, and what comes after the
session, on the gateway's disk and database. `GetClient`, `StartSession` and
`TerminateSession` get none, and `EverythingReturns` promises of a call that a session that
has begun is left, for its result or for the kill, and that a call whose session is over
returns; not that every call does.

In `FanOut` and `MonitorPoll` the work on a host ends or turns into work that never does
(`Hang`, `HangSample`), which keeps its slot, its poll and the flag. `FanFairness` asks no
more than that some goroutine of the fan-out goes on while one can, and that the loop does:
which one gets a slot first is left open, and every step is taken once. `PollFairness` is weak
fairness of each poll's next step. Both are Go's scheduler. A host that hangs for ever thus
stops the monitor for all hosts, as it does in the program: `poll[p] = "called"` leads to its
end or to a sample that hangs, and no other poll begins.

### Proofs

`CommandRuns_proofs` is about any set of runs and any bounds, from `CmdConstantsOK`.
`CmdInv` holds of one run at a time, and `OneMoves` reduces each step to the run that
moves. It needs, beyond the three properties: that a run has no open file before its
session and that an open file holds what has been copied (`WireInv`); that `res` is
already true of the command and of the file at each stage after the session (`ResInv`),
which is where the order of closing, cutting and counting matters; and that what the
clean-up was told to delete belongs to ended runs no row calls available (`SweepInv`),
which is why a run that finishes between two of its steps cannot lose its file.

`Parts_proofs` is about the other parts of this section:

* `FanOutSafe`, any number of hosts and slots: `FanSafe` counts. The semaphore holds as
  many values as goroutines have a slot, the wait group is what the loop has started
  less what has ended; at zero after the loop, as many have ended as there are places,
  so all have (`Counted`), and each wrote its place before it released its slot.
* `EnvironmentKept`, any calls: a call that nobody has overlapped is alone (`Lone`), so
  when it saves, no copy of the row without its variable is left, and every later copy
  has it (`Spread`).
* `PollsAlone`, any calls of `Poll`: at most one is inside and the flag says so
  (`Alone`); workers are gone from all others (`Staffed`).
* `CapturedExactly`, any stream, chunks, limits and marker: `Kept` says that head and
  tail are what their two limits leave of the stream, whichever way it was cut into
  chunks. `Withheld` says that before the marker, and until `finishCallback`, exactly the
  bytes are held back that could begin one, `EndKnown` that with it the end is that of its first occurrence;
  a marker that is first complete now begins no earlier than what was held back.
* `PagesAreExact`, any bytes and page sizes: `GoodPage` is what `UTF8Page` promises of
  one page, including that the only page above its limit is a single character. The
  induction is over the pages read. Bytes may be added between two pages: a character is
  whole in a page by the bytes that were there when it was read (`ends`).
* `LinesAnswered`, any output, page size and pattern: `ListsUpTo` says what the scan has
  gathered so far. `Gathered` is a recursive function; that the recursion has a solution
  is proved by its least counterexample, since no induction rule can be cited.

Only model-checked: `EverythingReturns`, which is liveness, and the violation of
`TrailerHidden`.

## 7. The other services (`MCServices`)

### State and correspondence

* **`RemoteFiles`**: one path of a host, and for each call its temporary file, the
  content it is to write and where it is. `BeginEdit` reads and compares; `OpenTemp`,
  `CopyTemp` and `MoveTemp` (or `RemoveTarget` and `RenameAgain` where the server's
  rename does not replace) write; `Discard` removes the temporary file on an error;
  `Answer` includes the verification of a transfer. Each may be refused, or lose its
  link before or after it took effect (`Attempt`), the two removals included, whose errors
  the code ignores. `GatewayStops` ends the calls under way between any two operations.
* **`EventBus`**: subscribers in the map, closed channels, their queues, and where
  each publisher is in its loop under the read lock.
* **`MemoryBank`**: the table of memories, with a vector named by the text it was made
  for; calls of `Remember` and `Update` between their read and their write; `Recall`'s
  counting, deletion, the loss of a host, and the three passes of `Sleep` in order.
* **`RemoteSearch`**: the pooled connection as a number, what is remembered of the
  helper and of which connection, and each search with its file in `/tmp`, from
  `Native` over `ProbeGet`, `ProbeCached` or `ProbeRemote`, `StageHelper`, `RunHelper`
  and `Cleanup` to `SearchSFTP`; `Reconnect` at any moment. uname, the upload and the run each
  take the pool's connection of the moment (`TakeConnection`, kept in `on`), which may be
  a successor of the one that was probed, or none. A helper of another search may look old to
  a sweep at any time, since its age is the host's clock by the gateway's.
* **`SearchWalk`** and **`GrepScan`**: the recursion of `walkDir` as a stack of frames
  over any tree of the size, and the scan of a file with its context lines.
* **`Migrations`**: processes that open the database at once, each version in an
  immediate transaction: `BeginMigration`, `SkipVersion` or `Apply`, `RecordVersion`,
  and `Rollback` for an error or a death at any point.
* **`ToolAccess`**: groups switched off by the instance and by the row of the token,
  and what six methods answer; `ChangeOutside` is a row another version has left.

### Run

`services` checks one or two properties of each part.

| Property | Part and its bounds | What it says |
|---|---|---|
| `FilesWhole` | 1 transfer, 2 edits, both kinds of server | nobody reads part of a content; the very call that removed a target that is gone has not reported success; a temporary file outlives its call only if the host did not remove it or the link broke |
| `Delivery` | 2 publishers of 2 events, 2 subscribers, buffers of 2 | no send on a closed channel; a subscriber gets each publisher's events in order |
| `EmbeddingMatches` | 2 rows, 1 bank and the global one, 2 texts, 1 `Remember`, 1 `Update` | a vector is that of the text beside it |
| `SleepKeepsRecalled` | the same | `Sleep` loses no text that was recalled and touches no other bank |
| `HelperHonest` | 2 searches, 2 connections, either platform | the helper is held unusable on a connection only by a failure of a search that had probed it, met on it or on a successor or for want of one; no helper stays in `/tmp` unless the host refuses |
| `WalkHonest` | trees of 3 entries with 2 ignore files, depth 2 | the walk sees nothing it should not, each entry once, and everything unless it says truncated |
| `ContextExact` | files of 7 lines | a match comes with its context, each line once and in order; a search that was stopped lacks only later lines |
| `RecordedIsMade` | 2 processes, 3 versions, guarded changes already there | recorded versions are the first ones and made; no start fails for good |
| `AccessTruthful` | 2 groups, 2 requests, every row and instance | what a client is told of is what it can call or read |

Two connections are an old and a new one. Seven lines hold two matches whose
contexts of two meet, touch or stay apart. Three entries are a directory, an entry in
it and one beside it, with limits that bite and that do not. Texts are symmetric.

`HelperHonest` does not say that a failure is held against the connection it was met on: the
code does not do that. It keeps every failure for the connection the search has probed, and a
step that ran on a successor counts against the predecessor, which is no longer in the pool:
the next search probes the successor and tries it again. What must not happen, and does not, is the other direction: a search
that began on an old connection switching the helper off for a new one.

Concurrent edits can lose one of two changes, and concurrent remembers can keep a
text twice: both are reachable, nothing promises otherwise, and the properties do
not hide it (`FilesWhole` is about the one that wins). No fairness is assumed in
these parts: their promises are about what has been done. Deadlock is not checked,
since each part stops when its bounded calls are over.

### Proofs

`Services_proofs`:

* `MigrationsRecordedIsMade`: any processes, versions and changes. `MigInv` adds to
  `RecordedIsMade` that the holder of the write lock is the one in a transaction and
  its draft belongs to its version, and that a process has seen every version below
  its own recorded. With `MadeInv` this gives that an unguarded change met in a
  transaction is not there yet: `Apply` cannot fail for having been made before.
* `NothingPartial`: any writers and editors. `TempFits` says what the temporary file of a
  call holds at each of its steps: a call gets to a rename only with its whole content
  there, and has no temporary file once its rename has worked. `Owned` follows the absence of
  the target to the call whose `Remove` caused it.
* `ToldIsUsable`: any groups, rows and requests. An answer is a function of the row its
  own request has found (`Answered`), and the six methods agree on that function
  (`AnswersAgree`): rows written in between cannot make two methods differ in one answer.
* `VectorsOfTexts`: any rows, banks, texts and calls. `VectorsOnTheWay` says it of what a
  call has yet to write: an update may find that its row has changed since it was read,
  but writes text and vector together over whatever it has become.
* `RecalledIsKept`: each pass of `Sleep` keeps a row of every recalled text of its bank,
  and at least as many recalls. The merge of duplicates keeps the row that ranks first and
  adds up the counts of its group: this is where the lemmas on sums over a set are for.
* `EventsInOrder`: any publishers, readers, events and buffers.
  `Locked` says that a publisher only has subscribers of the map left to offer to, and
  the map has no closed channel; `NotAhead` that an event still to be offered to a
  reader is newer than all it has read or has in its channel.

`RemoteSearch_proofs`:

* `SearchHelperHonest`: any searches and connections. `SearchInv` adds `NotYet`: no
  helper is on the host before the search has staged one, without which `HelperGone`
  is not inductive for a search that skips the helper, and `Ordered`: a step runs on the
  connection its search has probed or on a later one, since connections only get newer.
* `AnswerIsContext`: any file, context and limits. `Window` says that the buffer is the
  last lines read, `Reach` that as many lines are still to come as the last match
  reaches further, `LastGiven` that `lastEmitted` is the greatest number given out;
  so what a new match adds and what is there already join without a gap or an overlap.
* `WalkedHonestly`: any tree, ignore files, depth and limit of entries. `Stack` says that
  what each call has left are entries of its directory that were not met, and that the
  directories of nested calls get deeper; `NoneLost`, as long as nothing was cut off, that
  every entry of a directory that was met has been met or waits in a call. When the
  last call has ended nobody waits, so everything below a met directory was met. The
  rules that hold in a directory are a recursive function too, solvable because a
  parent comes before its entries.

## 8. Not modelled

* The web terminal: two copying goroutines between a WebSocket and an SSH session;
  nothing is kept. The front end, configuration, AES-GCM and image decoding: no
  behaviour over time.
* Text matching (globs, regular expressions, the parsing of native search output, of
  `df` and of `/proc`), scores of memories, wording and layout: no property is about
  them. The walk and the scan take a match as given.
* `CleanupArtifacts` and the deletion of old samples and audit rows: one statement
  or loop by age, that nothing else reads beside.
* `SSHPool` leaves out trust on first use and authentication; `OAuthGrants` leaves out
  client registration and PKCE, whose comparisons it takes to match.
* A kill script's check that a process group is still the job's own.
* `OutputPaging` has a file that only grows; a reader of a running command's output may also
  meet the moment at which `Run` cuts the trailer off it (`runner.go:330`, `stripCaptureTrailer`),
  and sees the bytes of the trailer before that. `AvailableIsWhole` is about the file after it.
* `SearchWalk` begins at a directory: a root that is a link gives an empty answer and one that
  is a file is visited alone (`searchcore/core.go:207-219`). A file that cannot be opened or
  read, and the end of the context, end the whole walk with an error and no answer; `GrepScan`
  is about a file that has been opened.
* `JobLifecycle` reads the pid and the exit file of one probe or inspection in one step: both
  are one script, and the two-step writing of the exit file, on the other side, is kept.
* `SSHPool`'s `KeepaliveDrops` clears the entry and closes the client in one step. Close comes
  right after the unlock; nobody can reach the client any more, and its tunnels close later.
* `ToolAccess` leaves out `server/discover`, whose instructions are those of `initialize` by the
  same expression, and calls whose tool name cannot be parsed, which are refused as soon as any
  group is switched off.

`PROJECT.json` names what is left out of each component that is partly modelled.
