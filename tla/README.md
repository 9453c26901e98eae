# Verification of rproxy-ui

rproxy-ui is a web interface (Next.js) that manages the forwarding rules of one
or several `rproxy-api` proxies.  Rules live in a MariaDB database; every change
of a rule is written to the database and sent to the proxies.  This directory
holds TLA+ models of that program, TLC configurations that check them on small
instances, and theorems about them that TLAPS checks.

Everything below names files relative to `src/`.  `forward.ts` stands for
`pages/api/forward/[forward].ts`.

## 1. The system

| Part | Source | State it keeps | Operations |
|---|---|---|---|
| Placement of a rule | `forward.ts`, `components/fanout.ts`, `components/ruledb.ts`, `components/overrides.ts` | a row of `forward_rules`, its rows of `forward_rule_overrides`, and one listener per node in rproxy | add, modify, delete, pause, resume, override, resend |
| Compound rule operations | `forward.ts` (replace, import, copy/move, revert, pause-node, overlap and port checks) | nothing of their own: several placements, one transaction each | import, revert, copy, move, pause-node |
| Rules of API clients | `forward.ts` (`api-modify`, `api-delete`), `components/apirules.ts` | none (they live in rproxy) | modify, delete |
| Act/standby synchronisation | `components/hasync.ts`, `components/ha.ts` | the `running` flag, the timer and the failure counts of a process, and a named lock of the database | inspect, resend, readiness, overview |
| Sign-in with Keycloak | `components/session.ts`, `pages/api/auth/[...nextauth].ts` | the session cookie (roles, times, refresh token), the shared refreshes in flight | sign in, check, refresh, sign out |
| Sign-in with tokens | `components/tokenauth.ts` | the cached token file, the failures per source | verify, check, count a failure |
| Usage accounting | `components/usagecollect.ts`, `components/usage.ts` | the last sample of every counter, hourly and daily sums | collect, expire, report |
| Global settings | `components/globalapi.ts`, `pages/api/forward/global.ts`, `pages/global.tsx`, `components/globalacme.ts` | the page's form, plan and request (the settings live in rproxy) | load, dry run, apply to the nodes with undo |
| Nodes, groups, discovery | `components/nodes.ts`, `components/rproxy.ts` | the cached configuration, the discovery file by its mtime, the nodes whose token was refused, `forward_rule_targets` | load, look up, synchronise the membership |
| Migrations | `db/migrate.mjs` | `schema_migrations` and the schema itself | plan, apply, baseline |
| Access control | `components/roles.ts`, `components/cidr.ts`, `components/userlimits.ts`, `components/usertargets.ts` | none (pure) | roles, ports, nodes, addresses a user may use |
| Forms, formats and validation | `components/RuleForm.tsx`, `HttpEditor.tsx`, `v04.ts`, `v04form.ts`, `httpspec.ts`, `tls.ts`, `targets.ts`, `settingsdoc.ts`, ... | the fields of a form and the row it was loaded from | edit, check, build, parse, write, merge |
| Dashboard and drift | `components/dashboard.ts`, `drift.ts`, `pages/index.tsx` | none (computed from answers of the nodes) | list, compare, summarise |
| Screens | `pages/**/*.tsx`, `components/*.tsx`, `i18n`, `styles` | browser state | display |

How they interact.  The screens call the API routes; `forward.ts` resolves the
place of a rule (one node or one group) through `nodes.ts`, runs a transaction on
the database and, while the row is locked, calls rproxy on every node of the
place in parallel (`applyToNodes`).  `hasync.ts` and `usagecollect.ts` run on
timers in every UI process and exclude each other with `GET_LOCK`.  rproxy
itself, when it starts, reads the UI's rules from the same database, so the row
and the listeners meet again after a restart.  Sessions are checked on every
request before any of this.

What is hard here:

* a change spans a database transaction and calls to several proxies, and no
  protocol commits them together: calls time out after they were carried out,
  undo calls fail, COMMIT fails after the calls succeeded, the process dies;
* the row lock is held during the calls, but not by the undo that follows a
  failed COMMIT, not by a call that lands late, and not by other writers of the
  proxies (API clients, a configuration file, a restart);
* compound operations read without a lock and then run several transactions;
* timers of several processes look at the same rows and nodes;
* sessions, tokens, discovery and usage work on cached or sampled state;
* a form is filled in from a row, and from what a node said it can do, that may
  both be out of date when it is saved; what it does not show must survive;
* rproxy's PATCH keeps what it is not told, so every change has to say what goes;
* a screen takes answers that arrive late, after the page has gone elsewhere.

## 2. The modules

| Module | What it models |
|---|---|
| `RulePlacement` | one rule at one place: all seven operations, the fan-out, its undo, and what interrupts them |
| `GroupRule` | the abstract promise of those operations: in one step on every listener, or not at all |
| `PlacementRefinement` | the mapping from `RulePlacement` to `GroupRule` |
| `RulePlacementProofs` | the inductive invariant of `RulePlacement`, its type invariant, its main safety property and that rules of API clients are spared, proved with TLAPS |
| `PlacementRefinementProofs` | that `RulePlacement` implements `GroupRule`, and agrees with it wholly without faults, proved with TLAPS |
| `RuleCompound` | requests of several transactions on one key at overlapping places, two actors and an API client |
| `RuleCompoundProofs` | its inductive invariant and its three properties, proved with TLAPS |
| `HaSync` | the rounds and visits that keep act/standby nodes equal to the database, among users, other clients and faults |
| `HaSyncProofs` | its inductive invariant, the agreement of undisturbed nodes and the return of the named lock, proved with TLAPS |
| `Session` | sign-in with Keycloak: session age, role refresh, grace period, shared refreshes, cookies in any order |
| `SessionProofs` | its inductive invariant, the age of roles, the end of sessions and who is refused, and what users may add (`UserLimits`), proved with TLAPS |
| `TokenFile` | sign-in with tokens: the file, its cache, the sessions, and the command and editors that rewrite it |
| `Lockout` | counting the wrong tokens of a source |
| `UsageCollect` | the collection of usage: named lock, listing, deltas and transaction, among restarts of rproxy and faults |
| `UsageCollectProofs` | its inductive invariant, that nothing is counted twice, and who is charged, proved with TLAPS |
| `GlobalApply` | one change of global settings on the nodes of a group: dry run, lost answers, undo |
| `GlobalPage` | the page that asks for such a change: target, form, plan and answers that come late |
| `AcmeForm` | its form for accounts, providers and resolvers of the item `acme` |
| `Discovery` | the Secret with the Kubernetes nodes and the token, its cache, and pods that refuse the token |
| `Migrate` | the runs of `migrate.mjs`, their lock, plan and records, cut off anywhere |
| `PartsProofs` | the inductive invariants and properties of `GlobalApply`, `Migrate`, `TokenFile`, `Lockout` and `AcmeForm`, proved with TLAPS |
| `RuleEdit` | a rule from its row into the form, through edits and late capabilities, back over the row and to rproxy as a PATCH |
| `HttpDraft` | the editor of HTTP routes, services and middlewares that name one another, and what is checked and sent |
| `RuleValues` | single sections on their way between request, row, form, export, and the comparison with a node |
| `UserLimits` | what a user who is no administrator may add to a rule |
| `Dashboard` | the rows, links and troubles the dashboard makes of the row and the nodes' answers |
| `Screen` | a page that loads, refreshes itself and runs actions |
| `FormsProofs` | the inductive invariants and properties of `Discovery`, `RuleEdit`, `GlobalPage`, `Dashboard` and `HttpDraft`, and the order of answers in `Screen`, proved with TLAPS |
| `MCRulePlacement`, `MCPlacementGroup`, `MCPlacementEnds`, `MCRuleCompound`, `MCHaSync`, `MCHaSyncRounds`, `MCSession`, `MCSignIn`, `MCParts`, `MCForms` | constants for TLC, and several parts in one run |

The components share the database and the nodes but no state of the UI.
`RulePlacement` has one rule in full detail.  `RuleCompound` takes from it only
that an operation happens as a whole or not at all, which is what `GroupRule`
states and `PlacementRefinement` shows, and has the requests made of several.
`HaSync` has several rules, keeps of a user's operation only its lock, its effect
on the nodes and its end, and has the visits in full.  `RuleEdit` follows the
contents of a rule, which are one value elsewhere.

`MCParts` and `MCForms` put parts that need nothing of each other into one run:
an initial choice says which of them moves, the others rest.  `MCPlacementGroup`,
`MCPlacementEnds`, `MCHaSyncRounds` and `MCSignIn` do so with two instances of one
module.

### RulePlacement

State.  `row` is the committed row (body and paused flag; `NoRow` when there is
none) and `ovs` its overrides per node.  `live[<<n, a>>]` is what node `n` runs
on address `a`: nothing, a rule of this UI, a rule of an API client or rule set,
or a static rule.  A rule's content apart from its address is one value
(`body`); port, protocol and alias addresses are part of the key and do not
change in any of the operations.  `tx` is the one transaction that may hold the
row lock: the operation, the row and overrides it has written, and the node for
the operations on one node.  `call[n]` is the call node `n` makes next, `Done`
or `Failed`; `undo[n]` the calls that take its change back (the closure the
code returns); `tail` the undo calls still running after a failed COMMIT, when
the lock may already be gone; `orphans` the calls whose answer was not awaited.
`suspect` and `raced` are history variables and influence nothing.

Actions.  `Begin*` are the seven handlers up to the fan-out: the lock, the 404
and 409 guards, the statements.  A pair (operation, answer) then decides the
next call of a node: `AddReply`, `EditReply`, `RemoveReply` (delete and pause),
`ResumeReply`, `OverrideReply` (`applyNodeChange`) and `ResendReply`
(`resendOne`) follow the code's branches one by one.  `Answered`, `Refused` and
`TimedOut` are the three ways a call ends.  `Undo` and `UndoLost` are the undo
of the nodes that succeeded when another failed; `Rollback`, `Commit`,
`CommitFails`, `TailUndo` and `TailLost` the end of `withTransaction`.
`OrphanLands`, `Crash`, `Restart` and `External` are the environment; `External`
is an API client or an administrator of rproxy.  `Faults`
selects which of them may happen.

rproxy is external: `Answers` and `Restart` are what the code relies on (a POST
on a used key is refused, a DELETE or PATCH of a missing rule is `not_found`, a
static rule cannot be changed; a PATCH laid over other content than the one it
was computed from may leave a mixture).

Properties.

* `TypeOK`.
* `DivergenceAccounted`: between transactions, every listener which no lost
  answer, lost undo, failed COMMIT, crash, restart or outside change has touched
  runs exactly what the database says.
* `FaultlessAllOrNothing` (`AllOrNothing` of the instance without faults): there
  is no divergence at all; refusals, rules of others and static rules alone never
  leave a group half changed.
* `KeepsPromise`: the refinement of `GroupRule`.
* `ApiRulesSpared`: no operation, its undo included, changes or deletes a rule
  of an API client that was there when the operation began.
* `LockReleased` (checked with two nodes as `GroupLockReleased`): every transaction ends.
* `IInv`, the inductive invariant of the proofs, is also checked by TLC.

`GroupRule` has the row, the overrides and what runs on each listener, and one
action per operation, which changes all three in one step.  `Outside` is what
faults and others do where they are possible at all (`Disturbed`): they make a
listener `Lost`, or use one for a rule of their own.  Under the mapping
(`Promised`) a listener is as it was for as long as a transaction runs, and takes
its new rule when COMMIT does; a suspect listener is `Lost`.  So every call, every
undo and every rollback has to be invisible, and a commit has to be one whole
operation on every listener that is not lost.  Without faults nothing is ever
lost, and `Outside` is not possible.

Fairness.  `WF(NodeStep(n))`, `WF(EndStep)`, `WF(TailStep)`: every rproxy call
has a timeout (`request`, 10 s), so each ends; COMMIT ends or fails; promises
once started are driven by the event loop.  No fairness for users, for orphans,
or for the environment.

### RuleCompound

State.  One key (protocol, port).  `rows` has, per place (a node or a group that
holds it), the row: its owner, its paused flag and its content, in two parts,
the one a PATCH can change and the one that needs the rule to be made anew; and
its overrides.  `live` is what each node runs under the key.  A request in
progress (`run[a]`) has its actor, its place, what it has read without a lock
(`snap`), the row it makes of that (`rule`), the rules still to go through
(`todo`) and whether taking something back was refused (`stuck`); a step of it is
one transaction (`Tx`), refused or carried out as `GroupRule` says.  History:
`was[a]`, the rows when the request of `a` began, until somebody else changes the
key, and `astray`, the nodes where rules of an API client came in between.

Actions follow the handlers: single operations (`add`, `edit`, `delete`, `pause`,
`stop`), `import` and revert (`replaceRule`: edit when a PATCH will do, otherwise
delete, add, and add the old one when that is refused), `copy` and `move` (in the
order the common nodes ask for, with the undo of the first when the second is
refused), `pauseNode`/`resumeNode` (the list is read first, one rule after the
other, own rules only), `apiEdit`/`apiDelete` (`currentApiRule`, then the call),
and the API client itself.  `checkOverlap` and `checkPorts` (`Barred` are the
contents whose ports users may not use) are where the code has them: before the
transaction of an addition.

Properties.

* `RunningIsWritten`: whatever requests overlap, a node runs the rule of the one
  row that wants it there, and no rule of the UI otherwise.
* `AsIfAtomic`: for as long as nobody else changes the key, a request of several
  transactions is like one (`Effect`): it does all of it, or leaves everything as it
  was, unless taking something back was refused too, by a fault (`stuck`) or by
  the checks of a new rule, which the old row has to pass as well (`Restorable`).
* `OwnRowsOnly`: only an administrator touches a row of another owner, whatever was
  read before.
* `ApiRequestsSpareUi`, `OldRuleIsBack` (violated, see 4).

### HaSync

State.  `row[r]` is the committed rule with its overrides, `draft[r]` what the
transaction of a user has written; `lock[r]` says who has the row lock and
`named` which process has `GET_LOCK('rproxy_ui_ha_sync')`.  `live[<<n, r>>]` is
what node `n` runs under the key of rule `r`.  `worker[w]` is a visit under way,
one per process and way to start it (`"timer"`; `"notify"` also stands for the
button): the nodes left, the rules read first (`seen`), the listing, the rules
to send again (`todo`), and inside `resendLocked` the rule, what it should be,
and the change decided on.  `failures` are the counts of `state().failures`, up
to `WarnCount`.  `suspect` and `streak` are history: the slots touched by
something other than a completed operation, and how many visits in a row have
really failed for a slot.

Actions follow `inspectNode` and `resendLocked` from await to await:
`StartRound`, `StartNotify`, `ReadRules`, `List`, `ReadOverrides`, `LockRow`,
`Look`, `Change`, `Commit`, `End`, and the failure of each.  Because the reads
of a visit come before the row lock, everything may change between them; the
code repairs this by reading row and overrides again under the lock, and the
listener again before it decides (`Look`).  `LoseNamed` and `LoseRow` are the
loss of a database connection: the visit goes on without its lock until it
touches the connection again.  `Crash`, `OrphanLands` and `External` are as in
`RulePlacement`.  `UserApply`, `UserCommit` and `UserRollback` are any of the
user's operations on one rule.

A rule's key does not change in this model; overrides that change the listening
address and the fields a PATCH consists of are part of `RulePlacement`.

Properties.

* `SlotsAgree`: a slot that nothing else has touched since the last completed
  operation runs what the committed row says whenever the row is not locked.  A
  resend that reports success thus leaves what the row said then, however stale
  the look that started it.
* `NamedLockInRound`: only a process in a round has the named lock.
* `Converges`: when users, others and faults are quiet, every rule with
  `auto_resend` runs as defined on every node.  What a node runs without a row
  is not looked at by the code, and not by the property.
* `IInv`, the inductive invariant of the proofs.
* `WarnedFailuresInARow` (violated, see 4): a rule that is warned of has failed in
  as many visits in a row.

Fairness (`LiveSpec`, used by `Converges` only).  `WF(StartRound)`: the timer
goes off again and again and asks for the named lock each time, and the lock is
free between rounds.  `WF(Step)`: queries and calls end (timeouts).
`SF(LockRow)`: InnoDB queues transactions that wait for a row lock, so a visit
that waits gets it although users come and go.  `WF(UserCommit)`: a user's
transaction ends, which is `LockReleased` of `RulePlacement`.  Users, outside
changes and faults have no fairness and are bounded by `MaxEvents`.

### Session

State.  `cookie` is the browser's session cookie: `auth` (Keycloak's
`auth_time`), `rolesAt`, `retryAt`, the role and the refresh token.  `req` are
the requests of this browser under way; each carries the cookie it was sent
with.  `inflight` is the map of `sharedRefresher`: per refresh token the question
under way or its answer, for `Share` after the question.  `kc` is Keycloak
(external): the user's role, the last real authentication, and the refresh
tokens.  `got` and `real` in a cookie, and `kc.changed` and `kc.used`, are
history.

Actions.  `Check` is `checkSession` up to the question, with the shared
questions; `KeycloakGives`, `KeycloakRefuses` and `KeycloakUnavailable` are the
outcomes of `keycloakRefresh`, each of which continues every request that waits
(`Settle`, `Finish`).  `Deliver` and `Lose` are the browser: answers, each with
a new cookie, arrive in any order or not at all.  `SignIn` may be silent (no
password asked), with or without a refresh token.  `Tick` is time; a question
never takes longer than `Timeout`.  The sliding `maxAge` of the cookie itself is
left out: it only shortens sessions.  `SignOut` and `Revoke` end Keycloak's
session.

Properties.

* `RoleAge`: no request is served with roles older than `RoleLimit`, which is an
  interval plus `Share` without outages, and `Grace` intervals plus `Retry` - 1
  plus `Share` with them.  One unit less is violated in these instances.  Nor is one
  served with a role that was changed in Keycloak so long ago, if the changed one
  is still not its own.
* `SessionEnds`: no request is served `MaxAge` or more after the last real
  authentication behind its session.
* `SharedAnswer`: where refresh tokens work once, a user whose session goes on is
  refused only when a cookie comes back after its answer is no longer shared.
* `IInv`, the inductive invariant of the proofs.
* `GraceKept` and `RoleTakenAway` (violated, see 4).

No liveness: nothing here has to happen without a request.

### TokenFile and Lockout

`TokenFile`.  `file` is the file (rows, whether it can be parsed, its stamp); the
cache of the process is the stamp it took and the rows it read.  `Stat`, `Read`
and the answer of a request are separate steps, because the file is rewritten
between them, by the command (read, then rename) or by hand (in place, so a half
written file can be read).  `Verify` makes a session, `Check` judges one on every
request.

* `AnswerWasTrue`: an answer is right for the file as it was at some moment of the
  request.

`Lockout` is the class of that name: the entry of a source, its window, and the
oldest entry, forgotten at `MaxEntries`.

* `WrongAnswersBounded`: a source told to wait gets no other answer before that
  time, and within any `Secs` seconds less than twice `MaxAttempts` answers 401.
* `ForgottenLast`: a source is only forgotten after `MaxEntries` others have been
  counted since.

### UsageCollect

State.  `rule` is what rproxy runs and counts per key (`since` is
`counters_since`), `owner` the owner in `forward_rules`, `sample` the rows of
`usage_counters`, `usage` the sums of `usage_hourly` and `usage_daily` as one,
per key and attribution.  `named` is who has `GET_LOCK('rproxy_ui_usage')`, and
`run[p]` the run of process `p`: the time it began, the attributions it read and
the listing it got.  History: the `epoch` of a counter (which start of the rule
it belongs to, which the code can only guess from `counters_since`), `whole` of
a sample (all of the rule is to be counted), `counted`, and who has had a key
since the listing of the last saved run (`held`) and of the run under way
(`later`).

Actions.  `Begin`, `Lock`, `Attrs`, `List`, `Save`, `End` are `runUsageOnce` from
await to await; `Written` is `collectNode` with `usageDelta`; `RunFails` any
error.  `Lose` is a lost connection, which takes lock and transaction along;
`LoseAnswer` the same when COMMIT had been carried out.  `Traffic`, `Create`,
`Delete`, `Reassign`, `Restart` are rproxy and its users, at any moment of a run.

One node: the runs of several nodes follow each other and share nothing but the
lock and the attributions.  A row and its rproxy rule change in one step.  One
number stands for the three counters; the clocks of the UIs, the database and
rproxy agree.  Rules without `stats`, the deletion of old hours and days, and of
the samples of Kubernetes nodes not seen for 24 hours, are left out.

Properties.

* `CountedOnce`: of the rule in a sample, never more has been added than it had
  carried; and exactly that, when it began after a run and not within the second
  in which its predecessor did (the code has no more than whole seconds).
* `BilledToHolder`: traffic goes to an attribution the key has had since the
  listing of the last saved run.  It need not be the owner of the moment the
  traffic flowed: the code asks once per run.
* `IInv`, the inductive invariant of the proofs.

No liveness: a run that fails is made up for by the next one, as `CountedOnce`
says.

### GlobalApply, GlobalPage, AcmeForm

`GlobalApply` is `applyGlobal` for one change of one administrator: read every
node, try a change first where the undo could not put back a masked value, send
to all nodes at once, read a node again that gave no answer, and put the others
back when one refuses.  Requests and answers are lost, a request without an answer
may be carried out later, an answer may be there and of no use (`Useless`), and others
change the same items at any moment.

* `AnswerIsTrue`: what the answer says of a node is so, unless another changed it.
  Exception of the code: `applyOne` reads a node again only when there was no answer
  at all (status 0, `globalapi.ts:117`).  An answer that is cut off in its body
  (`rproxy.ts:410`, outside the `try`) or cannot be read (`rproxy.ts:430`) counts as
  refused, and an empty one (`rproxy.ts:428`) as a PATCH that changed nothing; the node
  has the change in either case, and the undo leaves it there.  The property says so
  of such a node: the change is in place and stays.
* `GroupAllOrNone`: without trouble a group takes the change as a whole or is left
  as it was, masked values included.
* `UndoSparesOthers`: what another has set before the node was read again stays.

`GlobalPage` is the page: the target, the values loaded from it, the edit of an
item, the plan (the answer of a dry run) and the request under way, while the user
goes on picking other targets.

* `AppliedWasPlanned`: what is applied was tried on the same nodes with the same
  values, and a field nobody typed keeps its value.

`AcmeForm` builds the item `acme` from fields that depend on one another.

* `BlameIsShown`: the form refuses only for something that is on the screen, and
  an untouched form gives back the value it was filled from.

### Discovery

The process looks at the time of the list before each use, and reads list and
token, two files of one Secret, when it has changed; the kubelet swaps all files
at once, at any moment in between.  A pod that answered 401 is left alone until
the next reading.

* `NotLockedOut`: between two readings a pod answers 401 at most once per request
  that can be under way at once.
* `ListedIsCurrent`: what is used was in the Secret since it was last looked for.

### Migrate

Two runs from await to await: lock, `schema_migrations`, plan, then each migration
(its SQL, then its record).  A run, and with it its lock, is cut off anywhere; some
migrations can be carried out once only.

* `RecordedIsThere`: what is recorded as done is in effect.
* `NothingTwice`: unless a run was cut off, no migration is carried out twice.  It is
  proved, and no run checks it.

A run cut off after `schema.sql`, or in the middle of `--baseline`, leaves a
database in which the next run repeats migrations that are in effect; the code
does so, and no property says otherwise.

### RuleEdit, HttpDraft, RuleValues

`RuleEdit`.  `stored` is the row, `live` what the node runs, `form` the fields with
the row they were loaded from.  `Load`, the late `Answer` with the capabilities,
`Type...` (one disjunct per group of fields) and `Save` are the form; the
request is built (`BuildRule`), merged over the row as it is by then
(`mergeEdit`), sent as a PATCH (`toRproxyPatch`) and, when the transaction fails,
undone.  Others change or pause the rule meanwhile.

* `RunsWhatIsStored`: the node runs what the row says, or nothing: every PATCH and
  every undo leads there, whatever was there before.
* `OnlyWhatWasTouched`: saving changes what was typed into, and besides only puts
  back what the form had loaded, whichever features were known.

`HttpDraft` has the routes, services and middlewares of one HTTP rule by name, and
the editor's operations: add, remove, rename, choose.  `Does` is what the routes and the
default do, with names followed to the services they stand for; those of mirrors and
of errors pages too.  A service's TLS, health check and stickiness (`Blocks`) are unset,
there with nothing in them, or filled.

* `RenameChangesNothing`: a rename changes nothing of what the routes and the default do,
  with one exception of the code, for which `DoesApart` leaves out what an errors page
  takes from a service of the old or the new name.  `renameService` follows
  routes, default and mirrors, not the service of an `errors` middleware
  (`HttpEditor.tsx:641-662`), and nothing checks that one afterwards (`httpspec.ts:472`):
  the page loses its service, or gets the one that has taken its name.
* `SentIsWhatWasChecked`: what the form lets through, the API takes, and stores
  with the same meaning, and saving it again changes nothing.  Exception of the code:
  `cleanHttp` leaves out TLS with nothing filled in and stickiness without a
  cookie (`httpspec.ts:756-767`, `:792`, `:797`), so a service whose own TLS was switched on
  "instead of the rule's" (`HttpEditor.tsx:477-478`) and left empty has the TLS of the rule again.
  The property compares with the draft without these (`WithoutEmpty`): nothing
  else goes with them.  A health check without a path does not get that far, because
  `validateHttp` refuses it first.

A mirror may keep the name of a removed service and be captured by a new one of
that name (`HttpEditor.tsx:641`): the property leaves that case out by name
(`MirrorsFound`).

`RuleValues` follows one section of a rule at a time through reading, writing, the
form, export, import and comparison.

The section `http` is one service and one middleware, with the values that `canon`
and `cleanHttp` treat as none (`false`, `{}`) among those asked for.

* `KeptAsItIs`: reading a row, saving an untouched form and importing an export
  change nothing.  Exceptions of the code, written out in the property, all of the form
  (`LeftOutByForm`): a label
  whose key is a property of every object (`constructor`) cannot be saved
  (`v04form.ts:129`); the form of an override drops its health check
  (`OverrideEditor.tsx:67`); a service loses TLS in which nothing is filled
  (`httpspec.ts:792`), and with it a `pass_host_header` that is the default.
* `ResendRepairs`: a resend makes the node run exactly what is stored when it does
  anything, and does nothing only when nothing differs but the values of `AsGoodAsNone`.
  These are the exception of the code: `canon` removes every `false` and every empty
  object at any depth (`drift.ts:37`, `:48`), so it does not tell them from
  nothing, though each means something: a health check or an outlier detection with
  the defaults (`{}`), `pass_host_header: false` (`httpspec.ts:798-801`), TLS of a service apart
  from the rule's, a middleware with its defaults.  A node that
  differs by these alone is shown as in order, and no resend puts it right.

### UserLimits

Destinations, names of certificates and files, and caches of a rule, as a user who
is no administrator changes it: limits of the role, rules that had the value
already, overrides of one node, reserved ports, and names that resolve to other
addresses later.

* `UsersAddWhatIsAllowed`: what a user brings in is allowed, or was there before.

### Dashboard and Screen

`Dashboard` is pure: the initial states are every row and every combination of
answers of the nodes, and a tab is picked.

* `ListIsTrue`: every rule is listed once, those with troubles are pointed at, and
  the link of a row opens that rule.  In the tab of a node whose override changes
  the listening address the link carries the override's address
  (`dashboard.ts:889`); that case is left out by name.  Two more are left out of what
  the list points at.  Over all nodes, a later node's certificates and ACME are overlooked
  behind those of an earlier one (`Overlooked`, `dashboard.ts:709`).  In the tab of a node,
  a static rule or one of an API client is listed without its certificates and
  ACME (`LeftOut`): the server builds its entry of the node without them (`forward.ts:903`,
  `:1005`), and `projectRule` takes them from that entry only (`dashboard.ts:901`).

`Screen` is `useRule` and `useAutoRefresh`: loads, of which one is under way at a
time, actions, the timer, the browser tab that is hidden, and a page that goes to
a copy of its rule.

* `ShownNeverOlder`: the page never goes back to an older version.
* `CatchesUp`: a page that refreshes itself ends up showing what is there.  A page
  that shows no rule does not refresh itself; the property names these cases.

Fairness (`ScreenFairness`): the timer runs, a question that was asked is
answered or fails (`fetch` settles), and what has settled is taken.

## 3. Runs and bounds

| Run | Instance | Shows |
|---|---|---|
| `placement_group` | 2 nodes, 1 address, 2 bodies; timeouts, lost undo, failed COMMIT, crash; beside it the same without faults, 2 addresses, every override | `DivergenceAccounted`, `FaultlessAllOrNothing`, `KeepsPromise` |
| `placement_ends` | 1 node, 2 addresses, overrides; timeouts, failed undo and COMMIT, crash, API clients, restarts, late calls; beside it 2 nodes, and a page with 4 events | `IInv`, `ApiRulesSpared`, `GroupLockReleased`, `ShownNeverOlder`, `CatchesUp` |
| `compound` | 2 nodes and their group, 2 actors, 3 contents, 1 refusal; 2 requests at once | `RunningIsWritten`, `AsIfAtomic`, `OwnRowsOnly` |
| `compound_lost` | the same, 1 request, one content with barred ports, no refusal | violates `OldRuleIsBack` |
| `compound_api` | the same, 1 request, an API client | violates `ApiRequestsSpareUi` |
| `ha_rounds` | 2 processes, timers, 1 node, 1 rule, an override, 3 events, fairness; beside it 1 process, timer and notifications, 2 nodes | `SlotsAgree`, `NamedLockInRound`, `BothInv`, `Converges` |
| `ha_warn` | 1 process, 1 node, 1 rule, `WarnCount` 3; 5 events | violates `WarnedFailuresInARow` |
| `sign_in` | 1 request at a time, roles that change, maximal age 5; beside it 2 requests at once, one role, maximal age 4; interval 1, grace 2, retry 2, share 1; outages, refresh tokens that work once, silent sign-ins | `BothInv`, `RoleAge`, `SharedAnswer`, `SessionEnds` |
| `session_grace` | the default times in units of 20 s | violates `GraceKept` |
| `session_role` | interval 3, share 2, no outages | violates `RoleTakenAway` |
| `parts` | `UsageCollect` (2 processes, 2 keys, 2 owners), `TokenFile`, `Lockout` (3 sources, 2 remembered), `GlobalApply` (2 nodes, 2 items), `Migrate` (2 runs, 4 migrations), `AcmeForm` | `CountedOnce`, `BilledToHolder`, `AnswerWasTrue`, `WrongAnswersBounded`, `ForgottenLast`, `AnswerIsTrue`, `GroupAllOrNone`, `UndoSparesOthers`, `RecordedIsThere`, `BlameIsShown` |
| `forms` | `HttpDraft` (3 names, 3 edits), `RuleEdit` (3 steps), `RuleValues`, `UserLimits`, `Discovery` (2 pods, 2 requests), `Dashboard` (2 nodes), `GlobalPage` (3 uses) | `SentIsWhatWasChecked`, `RenameChangesNothing`, `RunsWhatIsStored`, `OnlyWhatWasTouched`, `KeptAsItIs`, `ResendRepairs`, `UsersAddWhatIsAllowed`, `NotLockedOut`, `ListedIsCurrent`, `ListIsTrue`, `AppliedWasPlanned` |

`RulePlacement`.  Two nodes are enough to have one succeed and the other fail; two bodies to tell
an old rule from a new one; two addresses to move a rule.  `MaxOrphans` (1 or 2)
bounds the calls that may still land; two let a late call of one operation meet
one of the next.  Without symmetry in the liveness run.

`RuleCompound`.  A group, a node in it and a node beside it are all the ways two
places can overlap; `MaxRequests` 2 lets one request run between the transactions
of another; one refusal is one failed step.

`HaSync`.  `MaxEvents` counts changes by users and others and faults together:
three let a user change a rule while a first fault is open and a second one
follows.  Two processes are needed for two rounds after a lost named lock; two
kinds of visit in one process for the row lock between them.

`Session`.  `Horizon` is beyond every limit a property speaks of (as
long as one whole session, and beyond `RoleLimit`); two requests let one cookie overtake
another, and two roles let one be changed while the cookie has the other; `MaxTokens` lets a token be replaced.  `Timeout` <= `Share`, as
in the code (10 s and 30 s).

`UsageCollect` (`parts`).  Two keys: one sampled gives the other a last run.  `MaxEvents`
counts changes of rules, units of traffic and faults; two let a rule carry
traffic and start anew, change hands, or a run be lost.  One second boundary
(`Horizon`) is enough for "the same second" and "later".  Longer ones are left to
the proofs.

The other parts.  `MaxWrites` (4) lets both editors and the command change the
file during one request.  `LastSecond` (3) is one window of `Secs` (2) and part of
the next; three sources with two remembered make the oldest go.  `MaxTrouble` (1)
is one answer that is lost or of no use; two nodes are one that refuses and one that is put back.  Four
migrations, one of them skipped and one that cannot be repeated, two runs.
`MaxNames` (3), `MaxEdits` and `MaxSteps` (3) let a name be removed, taken again and
renamed, and a late answer come between two edits and a save.  `MaxRewrites` (2): a
Secret changed while it is read, and again.  `MaxScreenEvents` (4) counts actions,
changes by others and failures.  The values of a section, the capabilities, the
limits of a role and the answers of a node are small sets in which every branch of
the code has a member.

Deadlock is not checked where the bounds on events, tokens or time stop the
model.  The largest runs are `forms` (1,244,179 distinct states) and `parts`
(819,238).

## 4. Where code and documents differ

* `compound_api`: `currentApiRule` (`forward.ts:1361`) looks only for a UI row whose
  place is the node itself; with a UI rule of a group the node belongs to,
  `api-modify` and `api-delete` change the UI's listener on that node.  The comment
  (`forward.ts:1359`) says such a request is answered 409.
* `compound_lost`: a user moves, or replaces, a rule whose ports have been closed to
  users.  The deletion does not check ports; the addition refuses the new rule, and
  then the old one too, so the rule is lost although `forward.ts:1521` and
  `README.md:596` say it is put back.
* `session_grace`: `README.md:265` ends a session when the last confirmation of
  its roles is more than 3 intervals ago; `checkSession` looks at `retryAt`
  first, so it goes on for up to a minute more.
* `session_role`: `README.md:195` says a role taken away in Keycloak stops
  counting after the interval at the latest; a request given a shared answer
  stamps it with its own time, so it may take up to 30 s more.
* `ha_warn`: the dashboard warns of rules that failed to be sent again "three
  times in a row" (`README.md:599`, `lib.ts:471`); the count is only reset by a
  successful resend, not by a visit that finds the rule in order, so the
  warning stays after the rule was repaired otherwise.

Four more are not runs of their own.  The passing properties name them as exceptions
(section 2), and say what holds all the same:

* `globalapi.ts:71-72` has "refused" for a node on which nothing changed; a node whose answer
  is cut off or cannot be read is "refused" with the change in place (`AnswerIsTrue`).
* `dashboard.ts:883` says a tab shows the certificates as the node has them; for
  rules of another origin it shows none (`ListIsTrue`).
* `HttpEditor.tsx:478` offers TLS "instead of the rule's"; left empty, it is dropped
  when it is sent, and the rule's is used (`SentIsWhatWasChecked`).
* `httpspec.ts:800` says that `{}` enables outlier detection with rproxy's defaults;
  the comparison takes it for none (`drift.ts:48`), and so a node
  without it is said to run what is stored (`ResendRepairs`).

## 5. Proofs

`RulePlacementProofs` proves, for any sets of nodes, addresses, bodies and
overrides, any bound on orphans and any combination of faults,

* `Inductive`: `Spec => []IInv`;
* `TypeCorrect`: `Spec => []TypeOK`;
* `Accounted`: `Spec => []DivergenceAccounted`;
* `SparesApiRules`: `Spec => ApiRulesSpared`.

The only assumption is `PlacementAssumption` (distinct model values, the empty
override among the overrides).  `DivergenceAccounted` alone is not inductive: it
says nothing while a transaction runs.  `IInv` adds what holds in between:

* `TxShape`: how the new row and overrides relate to the committed ones in each
  operation;
* `CallShape`: which calls a node may be about to make, and that a call made
  because a rule was missing or different concerns a suspect listener;
* `DoneAgrees`: on a node that has ended well, every listener with an undo call
  runs the new rule and the call leads back to the old one, and a listener
  without one runs a rule that satisfies the old and (before the undo) the new;
* `HalfMoved`: what a move has already taken away;
* `NodeInv` for nodes not yet done, `TailInv` for the undo after a failed
  COMMIT, `IdleInv` between transactions;
* `OrphansSuspect`: a call that may still land makes its listener suspect.

The argument: before its first change a node still agrees with the old row; each
reply either keeps that, or changes the listener and records the undo that
reverses it, or marks the listener suspect.  At COMMIT all nodes satisfy the new
row; at ROLLBACK all undo calls have been made or given up, and every listener
satisfies the old one.

`ApiRulesSpared` needs `ApiInv` besides.  A DELETE or PATCH that is about to be made,
as a change or as an undo, aims at a listener which has been found not to be an API
client's, and has not become one except where somebody else has changed it since
(`raced`): a change follows a GET of the same listener, and an undo a change of it.

`PlacementRefinementProofs` proves, under the same assumption and
`LostAssumption` (the mark of a lost listener is no content),

* `RefinementInductive`: `Spec => []PInv`;
* `RefinesGroupRule`: `Spec => KeepsPromise`, the refinement;
* `FaultlessAgrees`: `Spec => []AllOrNothing`, of which `FaultlessAllOrNothing` is the
  instance without faults.

`PInv` is `IInv`, the guards of the operations that `IInv` does not keep (`OpShape`),
that an undo deletes only where the operation has put a rule (`UndoesOwn`), and
that without faults nothing is suspect, late or raced (`Calm`).  Every step but
COMMIT leaves the promise of every listener as it is, or loses it, or is an outside
change of it; a COMMIT is, listener by listener, the operation of `GroupRule`,
because by then each one not suspect runs what the new row says.

`RuleCompoundProofs` proves, for any nodes, groups, contents and actors, any number
of requests at once and of refusals (`CompoundAssumption`: a node as a place has
itself as its only member, and the owner of no row is no actor),

* `CompoundInductive`: `Spec => []CInv`;
* `RunsWhatIsWritten`: `Spec => []RunningIsWritten`;
* `CompoundAtomic`: `Spec => []AsIfAtomic`;
* `UsersKeepToTheirRows`: `Spec => OwnRowsOnly`.

`RunningIsWritten` is inductive with hardly more than the types, since each
transaction looks under its lock at what the nodes of its place run.  `AsIfAtomic`
is not: `RunOK` says what a request remembers at each stage, and that it may change
the row it remembers; `Progress` how far it has come from `was` as long as that is
kept (nothing done yet; the old row gone and nothing running in its place; the new
row there beside the old).  A step of another actor that changes a row of the key
ends `was`, so nothing is left to be shown.

`SessionProofs` proves, for any number of requests, any intervals, timeouts and
bounds with `Timeout <= Share` (`SessionAssumption`),

* `SessionInductive`: `Spec => []IInv`;
* `RolesAreFresh`: `Spec => []RoleAge`;
* `SessionsEnd`: `Spec => []SessionEnds`;
* `RefusalsAreLate`: `Spec => []SharedAnswer`,

and, for any nodes, settings and reserved addresses,

* `UsersBringAllowed`: `UserSpec => UsersAddWhatIsAllowed`.

`IInv` says of every cookie, in the browser or in a request, that its roles are
at most `Share` older than `rolesAt` claims and that `retryAt` was set within the
grace period (`CookieOk`); that a role which is not the user's any more was given before it
changed; of every shared answer that it came after its question (`CallOk`); of every
token that its one use was within `Timeout` of the question whose answer is shared,
and that no second question is asked for as long as it is (`TokenOk`); and of every request that it waits for an open question, or
was served under the conditions `checkSession` tests (`RequestOk`).  The bound
of `RoleAge` is the sum of the three.  For `UsersBringAllowed` no more is known of a
state than that one request has one matter: what is tested destination by destination,
where the rule is (`userTargetRefusal`) and at each node that differs, is proved to judge
every destination at every node as the property does (`DestsJudged`).

`HaSyncProofs` proves, for any processes, nodes, rules, contents and number of
events (`HaSyncAssumption`: the model values are distinct),

* `HaSyncInductive`: `Spec => []IInv`;
* `UndisturbedSlotsAgree`: `Spec => []SlotsAgree`;
* `NamedLockReturned`: `Spec => []NamedLockInRound`.

`SlotsAgree` is not inductive: it says nothing while a row is locked.  `SlotOk`
adds that the nodes are then at the user's draft, and `HolderOk` that the visit
that has the row lock sends what the row says.  A visit that has lost its lock
(`LoseRow`) fails `HolderOk`'s premise, and every change it makes is suspect.

`UsageCollectProofs` proves, for any processes, keys, owners, seconds and number
of events (`UsageAssumption`: the model values are distinct),

* `UsageInductive`: `Spec => []IInv`;
* `CountedOnceAlways`: `Spec => []CountedOnce`;
* `Billed`: `Spec => BilledToHolder`.

`CountedOnce` speaks of samples only, so `IInv` adds what makes the next delta
right: `CountersOk` says that the counters of a running or listed rule go on
from the sample, or belong to a start that is later than the last run and has
not been counted; `ListingOk` relates the listing about to be saved to what runs
by then, so that after `Save` the same holds of the new samples; `LockOk` that
no other run saves in between.  `DeltaCounts` is the lemma on `usageDelta` all
this comes down to.

`PartsProofs` proves, for any finite set of nodes, any items and values and any
number of lost answers and other administrators (`GlobalAssumption`),

* `GlobalInductive`: `GlobalSpec => []GInv`;
* `AnswersAreTrue`: `GlobalSpec => []AnswerIsTrue`;
* `GroupsTakeAllOrNone`: `GlobalSpec => []GroupAllOrNone`;
* `UndoLeavesOthers`: `GlobalSpec => UndoSparesOthers`.

`GInv` follows each node on its own.  One that nobody else has changed is as it was
(`Untouched`), has the change (`Made`), or is as it was with the change still on its
way (`Open`), which of them by its outcome and how far the undo has come (`DataOk`).
A node whose answer was of no use has the change, whatever its outcome and the undo say:
nothing is named as changed on it, so nothing is put back.
Of every node, whoever has changed it, an answer that came names items of the
change, and what is about to be put back is as the change left it (`SureOk`).
`GroupAllOrNone` speaks of all nodes together, and of behaviours without trouble; for
them `Smooth` adds that a group is only sent the change when no masked value
is in the way of an undo, or every node has said in the dry run that it takes it.

It proves besides, for any number of runs and migrations (`MigrateAssumption`), any
rows and editors (`TokenAssumption`), and any sources, attempts, lengths of a window
and sizes of the map (`LockoutAssumption`),

* `MigrateInductive`, `NothingLeftOut`, `CarriedOutOnce`:
  `MigrateSpec => []MInv`, `[]RecordedIsThere`, `[]NothingTwice`;
* `TokenInductive`, `AnswersWereTrue`: `TokenSpec => []TokenInv`, `[]AnswerWasTrue`;
* `LockInductive`, `GuessesAreFew`, `FirstIsForgotten`:
  `LockSpec => []LockInv`, `[]WrongAnswersBounded`, `ForgottenLast`;
* `AcmeInductive`, `AcmeBlameIsShown`: `AcmeSpec => []AcmeInv`, `[]BlameIsShown`,
  for any number of edits.

`MInv`: the run with the lock is alone past it, so its plan stays in accord with the
database (`RunOk`); until a run has been cut off, what is in effect
and what is recorded differ only by the migration whose record comes next (`Clean`,
`StepsExact`), which is why nothing is carried out twice.  `TokenInv`: the stamp that
is kept was taken before the rows were read, so it is never later than they are.
`LockInv`: the 401 answers of a source are numbered in windows that are apart, the
last of which is its entry's (`AnswersOk`), so that a length of a window meets two of
them at most, and misses the first answer of the earlier; and each source in the map
has all that come after it among those counted since it was (`OrderOk`).  What is
counted is a set of answers, not a sum of numbers, which is why no induction is needed.
`AcmeInv`: each list of the form is one of accounts, of providers, of resolvers, and
until the first edit the form is the stored value's (`StoredFacts`).  A refusal of the
API is of a row, by its index, and of a field of it (`PartsOfRefusals`); the form shows
a field of a provider only for the types that take it, so the proof goes by the type
(`ProviderBlamed`), and by the challenge for resolvers (`ResolverBlamed`).  That opening
and saving changes nothing is proved for each stored value (`StoredIsKept`).

`FormsProofs` proves, for any pods, tokens and finite set of requests
(`DiscoveryAssumption`), any nodes (`PageAssumption`, `DashAssumption`: there is one), and
any number of edits, uses and events,

* `DiscoveryInductive`, `WrongTokensEnd`, `UsedIsCurrent`:
  `DiscoverySpec => []DInv`, `[]NotLockedOut`, `[]ListedIsCurrent`;
* `EditInductive`, `PatchesLeadThere`, `SavesOnlyTouched`:
  `EditSpec => []EInv`, `[]RunsWhatIsStored`, `OnlyWhatWasTouched`;
* `PageInductive`, `AppliesWhatWasTried`: `PageSpec => []PageInv`, `AppliedWasPlanned`;
* `ScreenInductive`, `AnswersInOrder`: `ScreenSpec => []ScreenInv`, `ShownNeverOlder`;
* `DashInductive`, `ListTrue`: `DashSpec => []DashInv`, `[]ListIsTrue`;
* `HttpInductive`, `SentWasChecked`, `RenamesChangeNothing`, for any number of names
  (`HttpAssumption`): `HttpSpec => []HttpInv`, `[]SentIsWhatWasChecked`,
  `RenameChangesNothing`.

`DInv`: a pod whose answers are counted is
refused, and the requests to it that go on are among those there were, so that
counted and open ones together never exceed `Requests`; and a list kept under the
time of the Secret is the Secret's, because the time is taken before the two files
are read: what has changed in between has a later time, and is read again at the
next use.  `EInv`: a field nobody typed into is the one of the row that was loaded,
whatever the mode was changed to and back; the row is one a form can have
built (its sections are those of its protocol), for which a PATCH made of two rows leads
from the one to the other.  `PageInv`: until it is typed into, a field has what all the
nodes had when the form was opened, or nothing where they did not agree, and a plan, or
one that is on its way, is for the nodes that are picked, or `late`.  `ScreenInv`: one
load is under way at most, and what it has read is no older than what is shown, since
versions only grow as long as a rule is there, and a rule that is gone does not come
back: the copy is made once, and nothing of it is asked for before the page goes to it.
`DashInv` says what a node can answer (nothing is the matter with a rule that is not
there) and whose tab is open.  The work is in `Told`: each thing that is said of a
rule in the list (its state, certificates, ACME, targets, drift) is so of one of its
nodes, and what is so of one of its nodes is said, but for what is `Overlooked` or `LeftOut`.  It
is proved for the row's rule over all nodes (`RowTold`, from the worst of the states
and the first of the worst ACME statuses), in a tab (`RowInTabTold`) and for rules of
other origins (`ExternalTold`).  `HttpInv`: the names that routes, lists and the default
use are names of services and middlewares there are, and only a mirror or an errors page may
keep the name of a service that was removed.  A draft that is renamed differs from the one before by
the name alone (`ServiceRenamed`, `MiddlewareRenamed`), so each of its parts does what
it did (`RenamedDoes`, `MiddlewareRenamedDoes`): a service by its servers, a middleware by
its service if it is a mirror, or an errors page of a service with another name than the two,
a list by its middlewares, one after the other.
What is cleaned has the same kinds under the same names (`CleanedIs`), so each check has
the same answer; and a service does the same without what has nothing in it, whether that was
left out by `cleanHttp` or by `WithoutEmpty` (`OneEmptied`, `EmptiedIs`).

Only model-checked: `KeptAsItIs` and `ResendRepairs` of `RuleValues`, whose only
parameter is a model value: its run goes through every value the model has, so a
proof would show no more; and `FaultlessAllOrNothing` and the two `BothInv`, which
are the properties and invariants proved above in the instances of their runs
(without faults by `FaultlessAgrees`).
Out of the prover's reach: the liveness properties `GroupLockReleased`, `Converges`
and `CatchesUp`.

## 6. Not modelled

* Packaging, charts, styles, translations and documentation hold no program state.
* The history, usage, system and profile pages, the charts of the dashboard, and
  the reports of usage only read.
* The syntax of single fields (addresses, ports, durations, names of hosts, CIDR
  arithmetic) is pure and covered by unit tests; the models have one good and one
  bad value where a property depends on it.
* The configuration file of nodes is read once, without anything else going on.
* The right of each role to open a page is one test per request.
* Deletion of old usage, and of samples of Kubernetes nodes that are gone.
* The views `forward_rule_targets` serves: two processes with different
  configuration files rewrite it in turn, and only views of the database read it.
* The command for tokens takes no lock on the file, so of two that read it before
  either writes, the later undoes the earlier; `TokenFile` has both, and its
  properties speak of what is in the file.

## 7. Plan

What would add most from here:

1. Deletion of old usage together with the collection, which share the lock.
2. `RuleCompound` with two keys, for imports of several rules.
