# A verification project for the Xray panel

The repository is the control plane of a VPN service: a Flask code base that is started in five
roles, a Telegram bot, a React front end and a few sidecars. This directory holds TLA+ modules of its
coordination core, TLC configurations that check them on small instances, and proofs that TLAPS
checks for every value of the constants.

Paths below are relative to `src/`; `core/` stands for
`backend/packages/panel-core/src/panel_core/`, `botapi/`, `cron/`, `master/`, `worker/` and
`adminapi/` for the same directory of the other packages.

## The system

| Part | State it keeps | Operations | Talks to |
| --- | --- | --- | --- |
| master (`panel-master`, `panel-adminapi`) | tariffs, users, grants, linked panels, transfer keys, operations (Postgres) | admin API, grants, blocks, tariffs and their rollout, linking and relinking nodes, node transfer | nodes over federation HTTP, Redis |
| node (`panel-worker`) | outbounds, balancers, routing profiles, inbounds, clients, the entitlement ledger, receipts, traffic baselines, its outbox (SQLite) | federation API, node pages, stats job, state import and export, runtime apply | its Xray core by gRPC and restart |
| bot API (`panel-botapi`) | payments, users, trials, the delivery inbox (shared Postgres) | checkout, webhook, poll and refund jobs, trial, event claims | YooKassa, nodes, the bot |
| cron (`panel-cron`) | job status, mirrors of the nodes' state, grant traffic cycles | operation retry, panel poll, mirror, rollouts and backfill, grant renewal, schema migration | nodes, Redis |
| sub (`panel-sub`) | nothing of its own | renders subscription links and pages | shared database |
| bot (`tg_bot`) | an in-memory queue of events | conversations, event consumer | bot API, Redis, Telegram |
| front end, Caddy, egress, offsite backup | - | pages, TLS, egress proxies, backups | master |

How they interact:

- *Shared database.* Master, bot API and cron are separate processes on one Postgres. What one stores
  another one continues: an operation is stored by a request and retried by cron, a payment is moved
  by webhooks and by two jobs. They coordinate by conditional updates on owner and lease columns, not
  by locks, and every call to a node happens outside of any transaction.
- *Federation calls.* A call to a node may be lost, answered too late, repeated by a retry, or
  executed after its sender gave up. The node defends itself with receipts, revisions and tombstones.
- *Payment provider.* A call that is not answered may have made an invoice. An idempotency key, which
  the provider forgets after a day, makes a repeated call harmless.
- *Bus.* Events go over Redis publish/subscribe, which forgets what nobody hears; an outbox table and
  an inbox table make up for it.
- *Runtime.* A node commits to its database, then tells Xray; the two differ until the change is
  applied. Xray counts traffic in memory, and forgets it when it stops.

### What is hard, and what makes each component correct

| Component | Hard behaviour | What must hold |
| --- | --- | --- |
| Payment settlement (`botapi/services/billing.py`, `botapi/jobs/payments.py`) | webhooks and two jobs race for one row; leases run out under slow owners; a refund during a delivery; a call executed after its sender gave up | the user is told each outcome once; access only for money received, none after a completed refund; what is paid is delivered, what is returned is revoked |
| Checkout and trial (`create_checkout`, `resume_checkout`, `activate_trial`) | a button pressed again, the poller resuming the same row, calls executed late, a key that expires at the provider, tariffs changed meanwhile | one invoice per row, one open row per tariff, one trial per user; every row gets an invoice or a review |
| Bot event delivery (`core/services/bot_events.py`, `core/services/bot_delivery.py`, `tg_bot/bot_events_consumer.py`) | outages of the bus, lost acknowledgments, abandoned claims, restarts, the same warning from two nodes | no event is lost or sent for ever; one warning per cause; a concluded event stays concluded |
| Entitlement ledger (`core/services/entitlements.py`, `core/services/runtime_apply.py`, `worker/services/stats.py`) | repeated and reordered calls about several sources of one client, an admin's edits beside them, failed applications | a revocation stands; no time and no traffic is given away; the client is on exactly if some source, the quota, the account and the admin let it; Xray follows |
| Provisioning operations (`core/services/provisioning_operations.py`, `core/services/grants.py`) | a request and the retry job run the same operation; leases; a revocation or a block meets a grant that is under way; some targets fail | success means every target, for good; the account on each node is as decided; delivered means live; everything ends |
| Tariff rollout (`core/services/provisioning.py`) | a long job under a two-minute lease, over panels that are away, while its sources are refunded, renewed or revoked | a rollout never brings back what was revoked; done means every panel asked and every missing item given |
| Node configuration (`adminapi/api/`, `worker/xray/engine.py`) | rows of five tables refer to each other by tag; one bad row stops the generation for everybody | the configuration can always be generated |
| Runtime and traffic (`core/services/runtime_apply.py`, `core/services/traffic_store.py`) | Xray or the worker stops at any step; counters restart, names move from user to user; partial alterations beside full restarts | applied means running; no byte is counted twice or lost by the code; what is saved is applied in the end |
| Panel polling and mirror (`cron/jobs/panels.py`, `core/services/panel_proxy.py`) | polls of one node overlap and end out of order, a poll may bring only a part of the state, Redis and the database commit apart | the mirror is a state the node was in, and never goes back |
| Node transfer (`master/services/panel_transfer.py`) | several machines with one key, lost answers, crashes between the new machine's commits, a poll of the old machine in between | one key gives one state to one machine; the transfer ends; the replaced machine learns of it |

`PROJECT.json` lists the components with their sources, and the hazards at their lines with the
properties that watch over them.

## The modules

| Module | What it is |
| --- | --- |
| `Payment` | one payment row and the processes that settle it |
| `PaymentPromise` | what the bot API promises the user about one payment: the abstract specification of `Payment` |
| `PaymentProofs` | type correctness, safety, that `Payment` implements `PaymentPromise`, and that its targets keep `NodeContract` |
| `Checkout`, `CheckoutProofs` | how a user comes to an invoice, and to the trial |
| `BotDelivery`, `BotDeliveryProofs` | outbox, bus, the bot's queue, inbox and claims |
| `Entitlements`, `EntitlementsProofs` | a node's ledger of one client, and its application to Xray |
| `Operations`, `OperationsProofs` | the master's durable operations on one user's grant and account |
| `Rollout`, `RolloutProofs` | a changed tariff on its way to those who have it already |
| `NodeContract` | what the master may count on at a node: the abstract specification that `Entitlements` implements, and that the nodes of `Operations`, the panels of `Rollout` and the targets of `Payment` keep to |
| `NodeConfig` | the rows of a node from which Xray's configuration is generated |
| `NodeRuntime` | how those rows come to Xray and its counters to the rows |
| `NodeProofs` | the safety of `NodeRuntime`, and in its second part of `NodeConfig` |
| `Fleet`, `FleetProofs` | a node as the master sees it: polls, mirror, links, transfer |
| `MC...` | the sets the configurations use |

The modules meet at their edges. What `Checkout` creates, `Payment` settles; what `Payment`,
`Operations` and `Rollout` call on a node, `Entitlements` answers; what `Entitlements` and
`NodeConfig` change, `NodeRuntime` applies; the state `Fleet` mirrors is all of the node's. Each sees
its neighbour as coarsely as its own properties allow, and says so in its heading.

Where the master meets a node, the edge is a module. `NodeContract` holds of each source only what was
given or withdrawn at which revision, and of the account whether it blocks. The ledger of
`Entitlements`, with its clients, time, traffic, limits and Xray, is shown to implement it under a
refinement mapping (`Held`); each node of `Operations`, each panel of `Rollout` and each target of
`Payment` is shown to move only as it allows (`Node(t)`, `Panel(i)`, `Target(t)`). So the master's
modules assume of a node nothing that the ledger's code does not do, and a late or repeated call means
the same on both sides. `Payment` sees a target more coarsely than the others (none, granted, revoked):
one payment is one source, given at revision 0 and withdrawn at revision 1, and the mapping (`HeldAt`)
puts these revisions in.

Definitions beside which a comment says "Mutant" are wrong on purpose: each is a plausible bug in the
definition that follows it, kept to show that a property notices it. No specification uses them.

### Payment

`pay` is the row of table `payment` (provider status, status, fulfillment and refund status, amount
returned, owner, lease), `ctx[w]` the local variables of one webhook handler or job run. A commit, a
call to YooKassa, and a call to a node are one action each, because other processes run between them:
`Claim` is the conditional UPDATE of `_claim`, `Guard`, `ItemGuard`, `Fence` and `SecondGuard` are the
places where the code reads the row again, `Finish` is `_finish`. The provider (`Settle`,
`RefundAtProvider`) and the operator who blocks a user act at any time. `wire` holds calls whose
senders gave up: a node may execute them later, which `LateCall` does. A node is seen here as one of
"none", "granted", "revoked" per target: the state of one source in `NodeContract`, of which a payment
uses one revision to give and one to withdraw.

### Checkout

One user and one tariff, because every query of the code is by that pair. `row[r]` is a row of table
`payment` while it is on its way to an invoice, with the age of its idempotency key ("live", "old"
after 23 h 55 min, "forgotten" by the provider); `invoices[r]` what the provider made for it, `late`
the rows with an unanswered call it may still execute. `caller[c]` is a request the backend serves, or
the poller. `Begin` is the look-up of `create_checkout` and `Insert` its commit; `ResumeNew`,
`Answered`, `Unanswered` and `Bind` are `resume_checkout` up to `_bind_remote`; `Webhook` is a
notification that binds a row. The bot sends one request of a user at a time as long as it remembers
it (`start_checkout`); `BotForgets` is its restart. `AskTrial`, `ClaimTrial` and `RunTrial` are
`activate_trial`. `wish` keeps a purchase and a trial in separate behaviours, since they share nothing
that either writes.

### BotDelivery

`outbox` and `inbox` are tables `bot_event` and `bot_delivery`. A worker is one of the bot's four
workers with its request at the API; `claim_event` commits several times, and each commit is an
action (`Persist`, `AckSource`, `ReadRow`, `Judge`, `Lease`). When the bot gives up on a request or
restarts, the request goes on (`lost`). `Publish` is both the publication after a commit and the
replay job. Redis, the subscription, Telegram and the bot itself fail by actions of their own.

### Entitlements

A call of the master is one transaction under the node's runtime lock and is one action; each of the
constant operations may arrive at any time, any number of times. `Refreshed` is
`refresh_client_entitlements`, the function through which nearly every call passes: which source is
the owner, what the client row shows, whose usage starts again. `Sync` is the application to Xray
after the commit, which may fail before or after it took effect. `CheckLimits` is the limits job,
`Edit` and `ResetTraffic` are the admin's. Time is counted in periods of a tariff, creation times are
the relation `older`.

### Operations

`ops` is table `provision_operation`, by (kind, revision); `user` and `grant` are the rows the
operations are about; `node[t]` is what target `t` holds of the grant and of the account. A request
(`RequestGrant`, `RequestOffer`, `RequestState`, `RequestRevoke`) stores what it changes with its
operation in one transaction and then runs the operation; the job selects the pending rows
(`JobStarts`) and runs them one by one. `Claim` is the conditional UPDATE of `run_operation`, `Fence`
the check before each target (`_guard`, `_fence`), `Call` the call, `Back` the UPDATE after it,
`Finish` and `Complete` the end, `Release` the release of the lease. `ctx[p].status` is
`operation.status` as it was read before the call: two of the divergences below live between that
read and the write.

### Rollout

One user with a payment and a grant, one tariff, one panel per item. `op[s]` is the latest operation
of source `s`, whose delivery is a step per panel here (`Deliver`; the rest is in `Operations` and
`Payment`), `ent[i][s]` what the panel of item `i` holds of it. `rollout[k]` is the operation that
saving the tariff queues (`UpdateTariff`), `child[k][s]` the child grant it queues for a source.
A worker claims a rollout (`Claim`), asks the panels who holds the tariff (`Collect`), looks for live
sources among the succeeded operations (`Find`), queues a child for each (`QueueChild`), runs it panel
by panel (`RunChild`, `Fence`, `Call`) and marks the rollout (`Finish`). A child whose call failed is
also run by the retry job alone (`RetryChild`). The lease runs out at any moment (`LeaseExpires`), and
the worker may die at any step. `Give`, `Refund` and `RevokeTariff` go on meanwhile.

### NodeConfig

Rows of outbounds, balancers, routing profiles, inbounds and users, and what they refer to: a profile
to a tag, an inbound to a profile, a user to a preferred outbound. `KnownOutbounds`,
`UsableBalancers` and `Generates` are the generation of the configuration, in which a tag that Xray
will not have is an error. A handler holds the runtime lock from its first read to its commit, and
generates before it commits (`Prepared`), so it is one step. Creating a profile is two (`FindTarget`,
`StoreProfile`): `create_profile` takes no lock. `LimitsPass` is `check_limits` with the monthly
reset, `Provision` what a purchase does, `Transfer` the import on another machine, which leaves
outbounds in quarantine (`pending`).

### NodeRuntime

`desired` and `applied` are the revisions of `RuntimeApplyState`, `file` the published configuration,
`xray` the container with its epoch, `counter` what Xray has counted in this epoch. `worker` is whoever
holds the runtime lock: it publishes (`Publish`), alters users by gRPC (`AlterUsers`) or restarts
(`RestartOnly`), or settles the traffic and restarts (`SettleBeforeRestart`, `FullRestart`), and then
records (`Record`). `Read` takes a sample of the counters outside of any transaction; `Settle` adds it
to the rows by the baselines `base`, in the transaction that also starts a new cycle. Xray stops and
starts, and the worker dies, at any step; `Boot` and `BootPreserving` are the two ways in which the
worker starts. `carried` is what Xray carried for a user in its cycle, and `exact` the users no
counter of which may be read twice; both serve the properties only.

### Fleet

`panel` is the row of `LinkedPanel`, `mirror` the current `PanelStateMirror` in its hot part (what
every poll brings) and its cold part (what is fetched when its fingerprint changed), `shown` the keys
in Redis the pages read. A poll begins with a generation, asks the machine that the address leads to,
fetches a part (`PrepareHot`, `PrepareFull`), and is recorded under the lock of the row (`Record`)
before or after its snapshot is put into Redis (`Put`). Only whether a later generation has been
recorded or shown matters of a generation, so that is what is kept (`late`, `hidden`). An installation
claims a transfer key (`Claim`), applies the state (`Apply`), links (`LinkUp`) and remembers that it
did (`MarkClaimed`), each in a commit of its own; a machine that was replaced asks for its verdict
(`AskVerdict`) and falls silent (`Heed`). `truth` remembers, for a property, which cold part a hot part
really went with. `SteadySpec` is the same system in a world that spares it two things the code has no
answer to (`Steady`): while a poll holds an answer of a machine that is not recorded yet, the
configuration of that machine does not become again what it once was, and the panel does not return
to that machine from another. Everything else may happen meanwhile: other changes, overlapping polls,
relinks, claims, deletions, faults.

## The runs

Every run is an instance of TLC, with breadth-first search over all reachable states.

| Run | Instance | Shows |
| --- | --- | --- |
| `payment` | one webhook handler, one poller, two targets, two faults, one change of `blocked` | no row is left claimed, or shown at work, for nobody; a completed refund leaves nothing, "succeeded" is delivered everywhere; each step is one of the promise, so access follows the money |
| `live` | a poller and the reconciler, no webhooks, two targets, one fault | what is paid is delivered, what is returned is revoked |
| `checkout` | two rows, two requests (one of which may buy), the poller, two trial tariffs, one change by the administrator | one invoice per row, one row open at a time, a shown link is of the bound invoice, one trial; every row gets its invoice or its review |
| `delivery` | two events that warn of the same thing, one of them of a node; two workers; a queue of one; one fault | one warning, nothing repeated without a fault, nothing concluded is opened again, every event ends |
| `ledger` | a grant given twice, revoked alone and with its tariff, a cycle reset, block and unblock, one edit, one failed application | a revocation stands, the client is on exactly as the ledger says, the blocked stay off; the node keeps its contract |
| `ledger_time` | two purchases, their refunds, a tariff revocation, three periods of time, one failed application | no time and no traffic is given away; whoever is out of time is cut off |
| `operations` | one request after the other, the retry job, two revisions of a grant, a revocation, a block or unblock, one fault | success is everywhere, the account is as decided, every operation ends; nodes are taken to do only what their contract lets them |
| `rollout` | a payment, a grant that is renewed, two items, a worker that may die or lose its lease, one growth of the tariff | a rollout brings nothing revoked back; "done" is done; panels are taken to do only what their contract lets them |
| `node_config` | two tags, one profile, one inbound, one user, five changes | the configuration can be generated after any handler, the limits job, a purchase, a transfer |
| `node_runtime` | one user with two e-mails, two changes, two units of traffic, one fault | applied is running; nothing counted twice or lost; pending changes are applied and traffic is counted |
| `fleet` | two machines, two overlapping polls, two changes of the nodes' states, the second of which may undo the first (`Steady` constrains the steps, which makes it `SteadySpec`), three acts of the admin | the mirror is a real state and only moves forward |
| `fleet_transfer` | three machines, one poll, one transfer key, three acts, one fault | one key gives one state to one machine, a transfer ends, verdicts arrive |

*Bounds.* Faults are bounded by `MaxFaults` or `MaxFailures`: one is enough for each of the failures,
and two in `payment` put a lost lease beside a call that is executed late. Two targets are needed for a
partial failure, two workers or polls for a duplicate or an overtaking, two revisions for a call that
is out of date, three machines for a claim between two others. `MaxEdits`, `MaxActs`, `MaxRevision`,
`MaxStates`, `MaxRevocations`, `MaxRollouts` and `MaxBlocks` bound how often an admin changes his mind.

- `payment`: `Price` is 2 so that a part of it can be returned.
- `ledger`: the clock (`MaxClock`), usage (`MaxUsed`) and limits (`MaxLimit`) are as small as
  "expired", "over quota" and "another limit" allow. `ledger` stops the clock at 2, its initial value,
  because legacy clients, edits of the expiry and the expiries of grants on both sides of it need no
  more; the passage of time, and several purchases beside each other, are `ledger_time`'s, which in
  turn leaves accounts and edits to `ledger`.
- `operations`: one handler makes one request after the other; the concurrency is with the job and with
  the calls of earlier requests.
- `checkout`: both requests may ask for the trial, which is where two requests at a time matter. Only
  one of them buys, because the bot sends one at a time. `Overlap` is FALSE: the bot is restarted only
  once the request it forgets has inserted its row (see the divergences). A row that is settled or
  closed makes room for the next one, so two rows show a second purchase beside the first.
- `rollout`: one worker, because only the retry job of the one cron process runs rollouts; its crash
  and its lease cover what a second one could find. `Shrinks` is FALSE and `MaxRollouts` is 1 (see the
  divergences for what two rollouts can do).
- `node_config`: five changes are what a row of each of the tables takes; the tags are symmetric.
- `node_runtime`: the second e-mail is for renames and for a name that another row had.
- `fleet` has no faults, no transfer keys and no verdicts; `fleet_transfer` has no change of the node's
  state but what a claim brings, and one poll. Together they would be too many states: polls overtake
  each other in the first, transfers fail in the second. Polls are symmetric.

The proofs need none of these bounds, nor the numbers of processes.

`CHECK_DEADLOCK FALSE` stands where the bounded system really comes to rest: a settled payment whose
jobs are between runs, a checkout or a rollout that is over, a node or a fleet whose edits, traffic and
faults are used up.

*Fairness.* Safety is checked and proved without any. For liveness: the scheduler starts each job
again and again (`scheduler.py`; intervals of 10 seconds to an hour), a thread that runs goes on, a
lease nobody renews runs out, and in `BotDelivery` what broke comes back and clocks advance. Nothing
obliges a webhook to arrive, a late call to be executed, an admin to ask, a provider to answer, or a
lease at work to be lost. In particular:

- `Payment`: the strong fairness of the reconciler says that it does not run in lockstep with the
  poller, meeting an owned row at each of its own steps for ever: the poller owns the row for moments
  of its interval.
- `Checkout`: strong fairness of the poller's start, for the same reason; time passes, so a key ages.
- `NodeRuntime`: whoever holds the runtime lock goes on, and Docker starts a worker that died and an
  Xray that stopped; the retry job and the traffic job find the lock free again and again (strong
  fairness). A worker told to preserve what runs (`XRAY_STARTUP_MODE=preserve`) does not start while a
  change is pending; it is assumed to be started in the default mode then.
- `Fleet`: polls go on, a machine goes on with its claim and asks for its verdict, a key expires after
  its hour and is cleared; and the admin who lets a machine claim a node moves the A record to it. If he
  does not, the key's expiry ends the transfer.

## What is proved

Every safety property of the runs is a theorem for any targets, processes, events, sources, machines, rows and bounds. The assumptions are on the constants and named
in the module that declares them: the classes of processes are disjoint, "nobody" is not a process or
a machine, bounds are natural numbers (a machine makes at least one link, `MaxLinks`, because the first
state has one), sources, rows and the bot's workers are finite, and the ledger's operations name their
own tariff. Three theorems assume more, for a reason given below: `OneRowIsOpen` that the bot does not
forget a request at work (`~Overlap`), `NothingRevived` that the tariff loses no item (`~Shrinks`),
`MirrorStaysReal` that the machines are `Steady`.

**Payment.** `PaymentInv` is inductive. It says, for each process on its own, what it knows where it
stands: what it has read of the provider is final (`Knows`), whoever owns the row and is at work left
its mark there (`Marked`), and which targets its verdict rests on (`Done`). The safety properties
alone are not inductive: that a refund completes only when nothing is granted needs that a node's
tombstone is never undone, that a process's list of targets is complete, and that no claim that
writes "completed" has lost its row. Theorems: `PaymentInvariant`, `OutcomeToldOnce`,
`AccessIsPaidFor`, `RefundIsFinal`, `DeliveryIsComplete`, `RowIsHonest`, `NothingForgotten`,
`TypeCorrect`. `KeepsThePromise` is the refinement: `Spec => Promise!Spec`,
where the promise sees the money, the access and the messages and none of the machinery.
`NothingStranded` has an invariant of its own (`Stranding`): a claim and its release change the owner
and what the row shows in one update, and a process that concludes still finds its own mark (`Marked`),
so it clears the one kind of work the row shows. `TargetsKeepTheContract` is the step from "granted" and
"revoked" to the contract's revisions: a call changes its target as `Withdraw` or `Give` would, or not
at all, which needs of the invariant only that a call has a target and a kind.

**Checkout.** Whoever calls the provider, and any call that is still on its way, carries a key of the
day (`CallsWithKey`), so the invoice a row already has is found again; with `OnARow`, that a caller at
work has a row, this makes `OneInvoice` inductive, and the types with it. The theorems hold whether or
not requests overlap: `TypeCorrect`, `RowHasOneInvoice`, `LinkIsOfTheRow`, and `OneTrial` by an
invariant of its own (`TrialInv`): who runs a trial has claimed it. `OneRowIsOpen` needs that the bot
sends one request of a user at a time. Then the caller between the look-up and the insertion is the one
the bot waits for, and it found nothing open (`Inserting`); that stays so because a row that is not
open only opens again by a call at work on it (`Begun`). Nobody else inserts in between, so one row is
open (`OneOpen`).

**BotDelivery.** A worker sends under a key it took in its own transaction (`Keyed`), the key of a
warning belongs to one event (`OneKey`), and "delivered" is only stored by a worker whose message was
sent (`Reported`). None of it needs the lease, so none of it is lost with it. `RepeatsArePaid` is an account
(`Budget`): of each event, the messages sent, the workers about to send it, and one more if another
claim may lease it, are together no more than one and the number of faults. A claim turns the right to
lease into a worker about to send, a send turns that worker into a message, and only a fault adds to
the sum: a lease that runs out under a worker, an acknowledgment that is lost, an answer of Telegram
that never arrives. Theorems: `WarnedOnce`, `RepeatsArePaid`, `DeliveredIsSent`, `ConcludedForGood`,
`DeliveryInvariant`, `TypeCorrect`.

**Entitlements.** The owner of a client is the greatest live source, in an order that has the time of
writing in it; a finite nonempty set has one (`HasMaximal`), so `CHOOSE` in `Refreshed` is defined.
Then there is one lemma per call about the rows it writes (`Kept`, `Access`) and one about Xray.
Theorems: `RevocationStands`, `AccountLatest`, `BlockedStaysOff`, `AccessIsJustified`,
`NewestAlwaysWins`, `RuntimeIsFollowed`, `LedgerInvariant`, `TypeCorrect`. `RuntimeIsFollowed` has an
invariant of its own, because whether a change is pending has nothing to do with which.

`KeepsTheContract` is the refinement `Spec => Contract!Spec`, one lemma per call: a grant gives, or
answers again what it gave and tells the account's state; the revocations withdraw one source or all of
a tariff; a cycle reset may take over a client from before the ledger; `ApplyAccount` decides; and the
limits job, edits, traffic, the clock and Xray touch nothing a master counts on. It needs
`LedgerInvariant`: that a refresh leaves revisions and tombstones alone, and that a call which is not
newer than what it meets changes nothing, rests on the types and on what the ledger's rows say of each
other.

That nothing is given twice is about steps, and needs to know what the client row shows before one:
as long as no administrator edited it, no live source lasts longer (`Shown`). Any refresh then finds
nothing to give but what the call itself brought (`TimeIsGiven`), and the usage of a source is either
in its own row or, if it is the owner, in the client's (`UsageOf`); a change of owner must carry it
over. Theorems: `SourcesAreShown`, `TimeIsPaidFor`, `UsageIsRemembered`.

**Operations.** Who owns a row plays no part: a lease may be lost at any moment, and calls of owners
who gave up arrive when they like. The safety of the nodes rests on revisions. Each is handed out
once (`Rows`), a node only takes a call that is not behind it, and so what reached a node stays there
(`ReachedStays`). A process that saw a target answer may therefore count on it until it concludes
(`TaskInv`). `Sent` is what makes the account right: a grant carries the account's revision to a
node, and it is only sent with one that does not block the account. Theorems: `SuccessStands`,
`DecisionsArrive`, `DeliveryStands`, `TypeCorrect`. `NodesKeepTheContract` is shown call by call
(`ExecuteContract`): whatever is sent, by whoever, in time or late, a node takes it as `NodeContract`
lets it.

**Rollout.** That a rollout marked as done was done rests on three facts. A panel never goes back to a
lower revision of a source (`Landed`). A worker that met no failure has landed every item it no longer
tries (`Trying`), so a child that succeeded has all its items (`Settled`). And the owner of a rollout
that has counted no failure has only those children left that are still in its list (`Counted`).
`DoneInv` is their conjunction; since it speaks of panels, children and owners which every action
moves only onward (`PanelsOnward`, `ChildrenOnward`, `OwnedAsBefore`), most actions need only that
fact about them.

That nothing comes back has two halves. A refund has its own revision, and aims at everything any
delivery or child of the payment ever had (`Aimed`, `FirstRevision`), so what it has not barred it is
still to reach (`Cut`). This holds for any number of rollouts, whether or not tariffs lose items
(`RefundedStaysOff`). For the revocation of a tariff (`NothingRevived`) what is above its cover was
given anew (`Fresh`), what is below it lies at items the revocation reaches (`Within`, `Left`) or has
reached (`Reached`), and that uses that a tariff only gains items (`Grows`). With `Shrinks` it is false:
a worker that has found its sources may queue a child at an item the tariff lost before the
revocation, which therefore does not aim there. Theorems: `TypeCorrect`, `DoneWasDone`,
`RefundedStaysOff`, `NothingRevived`, for any number of workers and rollouts; and `PanelsKeepTheContract`,
that every delivery, child, refund and revocation moves a panel as `NodeContract` lets it.

**NodeRuntime.** `Brought` says, for each step of whoever holds the runtime lock, which file is
published and which users Xray has: the ones before the change, those after it, or either while a gRPC
call is under way. It must hold with Xray stopped and started at any of these steps, which is why it
speaks of the file as well. Nothing is charged twice because baselines and samples never run ahead of
the counters of their epoch, and no baseline ahead of the sample that is about to be settled
(`InTime`); what is charged and what is due (`Due`) together then only grow by what Xray carries. Most
steps are quiet: they touch no row, and leave the counters or begin an epoch (`Quiet`). Theorems:
`TypeCorrect`, `AppliedRuns`, `ChargedOnce`, `ChargedInFull`.

**NodeConfig.** `ConfigGenerates` is inductive with the types. Each handler is shown to keep the
routes of the rows it leaves alone (a tag that stays known, a profile that stays), and to give only
such routes to the row it writes. Theorems: `ConfigTypeCorrect`, `RowsGenerate`, in the second part of
`NodeProofs`, where `NodeConfig` is instantiated under the name `Config`.

**Fleet.** That the mirror goes forward needs what an answer names (`PollKnows`) and that a mirror of
nobody is empty; the comparison of generations does the rest. That a key gives one state to one
machine needs that keys are numbered as they are issued (`KeysIssued`), so an old claim cannot pass for
one of the key in force, and that whoever was answered under the key in force is the machine the row
names, with the state that is frozen there (`OneAnswered`). Theorems: `TypeCorrect`, `MirrorAdvances`,
`OneStateToOneMachine`, for any faults, which the runs do not have beside overlapping polls.

That the mirror is real is about what polls know. Of any one machine, whatever was read between two
readings of the same cold part is that cold part (`NoReturn`); what the machine has now counts as the
last reading (`ReadNow`), and what the mirror has as one made at the time of its hot part. So a poll
that found the cold part fresh still finds it so when it is recorded (`StillFresh`): each full answer
that was recorded meanwhile, and that the comparison of generations lets it follow, lies between the
mirror it saw and its own answer, or the mirror is of another machine by then, and the poll is refused.
From this it does not matter of a recorded poll which part it brought (`Taken`): hot and cold part of
the mirror are those of its answer. The two conditions of `Steady` are where `NoReturn` and
`StillFresh` would break, and both are needed: see the divergences. Theorem: `MirrorStaysReal`, for any
numbers of polls, machines, keys, relinks and faults, with changes that may be undone.

What no run repeats, because it is proved: type correctness of every module; `ToldOnce`, `AccessFollowsMoney`,
`RowFollowsProvider`, `MoneyNeverForgotten` and `TargetsKeepContract` of `Payment`, `DeliveredWasSent` of `BotDelivery`, `AccountIsLatest`,
`NewestWins` and `RuntimeFollows` of `Entitlements`, and `DeliveredIsLive` of `Operations`.

*Only model-checked.*

- Everything under fairness (`PaidIsDelivered`, `ReturnedIsRevoked`, `CheckoutSettles`,
  `EveryEventEnds`, `EveryOperationEnds`, `ExpiredIsCut`, `PendingIsApplied`, `TrafficIsCounted`,
  `TransferEnds`, `VerdictsArrive`): the prover used here proves no liveness and no ENABLED.

No module declares a RECURSIVE operator or needs induction over data.

## Known divergences

Where a doc, a comment or a test says one thing and the code does another, or where the code leaves a
gap that the models show. For the first table a property states what is said, and a configuration
beside the runs finds it violated: `tlc -config <configuration> <module>`.

| Configuration | Property | What happens |
| --- | --- | --- |
| `MCPaymentTerminal` | `RefundedIsTerminal` | The claim of a delivery (`billing.py:447`) looks at the owner but not at the status that was read before it. A refund that completes in between is overwritten, and the refunded row is pending, or blocked, for ever. Access is not affected: `RefundRevokes` holds. |
| `MCPaymentRenewed` | `EveryRefundConcludes` | The refund of a purchase that never reached a target, at which another purchase of the tariff has a client, is refused as legacy (`entitlements.py:436`) and retried for ever. |
| `MCBotDeliveryOutage` | `OutboxKeepsUntilInbox` | A publication that nobody hears is stamped as delivered (`bot_events.py:104`); an event published between the return of Redis and the bot's new subscription never arrives. |
| `MCEntitlementsManual` | `ManualIsAdmin` | An edit of days or traffic of a client that is off records it as switched off by hand, so the renewal that follows does not switch it on (`entitlements.py:136`). |
| `MCOperationsObsolete` | `ObsoleteIsTerminal` | A revocation supersedes a grant during one of its calls; the status read before the call is written back, and the operation is alive again (`provisioning_operations.py:357`). |
| `MCOperationsRevoked` | `RevokedMeansNone` | A grant saved while a revocation is under way is delivered, and then shown as revoked while it is live on every node (`grants.py:206-211`). |
| `MCNodeConfigLimits` | `OverLimitIsRemoved` | `check_limits` handles all users in one transaction (`stats.py:178`). If re-enabling one of them would give a route Xray does not have (`engine.py:338`, `353`), the transaction is rolled back, and those who are over their limit stay, as long as that row is there. |
| `MCNodeRuntimeStuck` | `TrafficIsAlwaysCounted` | A user deleted and added again with the same id and e-mail, after a reset in the same epoch, has a baseline of another generation (`traffic_store.py:128`): the settlement of all users fails until Xray starts again. |
| `MCFleetUndo` | `MirrorIsReal` | Polls overlap while a configuration is changed and changed back: the cold part is taken for fresh by its fingerprint (`panels.py:100`) beside a hot part of another time (`panel_transfer.py:170`). The machines are not `Steady`. |

Further gaps, met while reading and modelling:

- *Checkout.* Two purchases at once both find no open row and insert two (`Overlap` TRUE with both
  requests in `Buyers` violates `OneOpenInvoice`); a bot restarted at the wrong moment is needed. An
  invoice the user closed can still be paid by its link, beside a new one.
- *Runtime.* The handlers' own restart callback restarts Xray without settling the traffic first. A
  user renamed back to an e-mail it had in this epoch, and every user after a restore (`backup.py:136`),
  has a counter read again from zero (`exact` in `NodeRuntime` excepts them).
- *Configuration.* `create_profile` checks its target and stores the profile without the lock
  (`routing.py:205`), and the id of a deleted profile that an inbound still names may be given to a
  new one (`adopted` in `NodeConfig`).
- *Mirror.* `MirrorIsReal` also fails without an undo. A machine that crashes between its link and its
  mark applies the claimed state again, so its cold part returns to an earlier one with the
  fingerprint of that time; and four polls that overlap a relink to another machine and back can
  leave a cold part beside a hot part of another time. Each takes several events within
  one poll. They are what `Steady` excludes, and by `MirrorStaysReal` all there is to exclude.
- *Transfer.* A crash between the new machine's link and its mark makes it apply the old state again at
  the next start. A claim whose answer is lost for more than five minutes cannot be repeated. A
  machine that was replaced twice over is told "unknown" for ever.
- *Rollout.* Two rollouts that overlap may queue two children of one revision for a source and an item;
  the panel takes one, refuses the other as superseded (`entitlements.py:292`), and its rollout stays
  pending. With a shrinking tariff and two rollouts, `NoRevivedSource` fails in a window of
  milliseconds between the fence and the call. An item at which the user has only a revoked record, or
  that of another source, is not missing (`provisioning.py:362`), so a live source may never get it. A
  purchase with frozen terms that is delivered after the rollout does not get the new item, and a
  renewal after the tariff shrank leaves the removed item with its old end. The claim of a rollout
  does not look at its status (`provisioning.py:485`).

Hazards that are real but not among those of `PROJECT.json`, because another property of the same code
already stands for them or because they are listed above: `provisioning_operations.py:357` and `432`
(the status read before a call), `grants.py:187`, `206` and `208` (revisions and states computed from
rows read earlier), `billing.py:289`, `434` and `447` (claims), `entitlements.py:136` and `436`,
`inbound.py:335` and `1244` (an admin's edit beside the ledger), `bot_events.py:104`,
`notifications.py:94` (pruning of the inbox and the outbox on different schedules),
`bot_delivery.py:278`, `bot_events_consumer.py:319`, `stats.py:178`, `runtime_apply.py:124`,
`panels.py:245` and `253`, `provisioning.py:485` and `539`.

## Not modelled, and why

- *Payment*: amounts other than "a part" and "all", currencies and receipts, and rows from before the
  stored operations. *Checkout*: rows from before idempotency keys (`billing.py:172`).
- *BotDelivery*: pruning of old rows, the rendering of messages, the transfer of a node's outbox.
- *Entitlements*: several inbounds of a user, rows marked invalid (a branch of the limits job), and
  deletion of users.
- *Operations*: cycle resets, which are operations of a further kind; terms of a grant other than "the
  same" and "new ones"; a revocation where no grant was saved; announcements of grants; targets that
  are linked or removed meanwhile.
- *Rollout*: the discovery of holders from before the stored operations and of open-ended grants
  (`jobs/grant_backfill.py`); the lease of a child (two minutes, under that of its rollout); a child
  that is found obsolete at its end is superseded at once instead of at the next run; a snapshot of
  the tariff torn by READ COMMITTED.
- *NodeConfig*: what is inside a row (streams, keys, ports, addresses) and the egress addresses.
- *NodeRuntime*: an inbound's own counters, which follow the same code without generations; access
  logs, domain statistics and the snapshots for charts.
- *Fleet*: the daily copies of the mirror, which nothing reads back; the check of a machine's domain;
  calls that `panel_proxy` forwards.
- *Job status*: one update, conditional on the run's id. *Device gate*: a count and an insert under a
  lock of the user's row. *Notification evaluators*: thresholds; what they raise enters `BotDelivery`.
  *Subscription links, front end, conversations*: rendering. *Admin API*: what changes a node's
  configuration is in `NodeConfig`; the rest is one request, one row. *Migrations*: run alone.
  *Backup, sidecars*: files and shell, but for the export in `Fleet` and the restore in `NodeRuntime`.

## The plan

Done, in this order: `Payment` with its promise, `BotDelivery`, `Entitlements`, `Operations`, each with
its invariants proved; then `NodeConfig`, `NodeRuntime`, `Fleet`; then `Checkout` and `Rollout`; then
the proofs of what was left of their safety; then `NodeContract`, which makes the views of a node one,
for `Payment` too.

Next, most important first:

1. Pruning in `BotDelivery`: inbox and outbox rows leave on different schedules.
2. `Rollout` with two rollouts, once the two divergences it would meet are settled one way or the
   other.
