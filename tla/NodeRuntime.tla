---------------------------- MODULE NodeRuntime ----------------------------
(***************************************************************************)
(* How a node brings its rows to Xray and Xray's counters to its rows.      *)
(*                                                                          *)
(* A change of the rows takes the next desired revision in the transaction  *)
(* that makes it. synchronize_runtime then publishes a configuration file   *)
(* and acts: it alters users by gRPC, restarts the container, or, when it   *)
(* is behind or the alteration failed, settles the traffic and restarts.    *)
(* Only then is the revision applied. Whoever does any of this holds the    *)
(* runtime lock, so there is one worker here; but Xray carries traffic,     *)
(* stops and starts at any of its steps, and so may the worker's process.   *)
(*                                                                          *)
(* Xray's counters live as long as its process (an epoch). What has been    *)
(* read from a counter is kept in a baseline, and what it shows above its   *)
(* baseline is added to the user's total.                                   *)
(***************************************************************************)
EXTENDS Integers, FiniteSets

CONSTANTS
  Clients,      \* credentials of users
  Names,        \* e-mails they may have; a counter is named after the e-mail
  MaxEdits,     \* bound: changes of rows
  MaxTraffic,   \* bound: units Xray carries
  MaxFaults     \* bound: stops of Xray or of the worker, and failed calls

ASSUME NodeRuntimeAssumption ==
  /\ Clients # {} /\ Names # {}
  /\ MaxEdits \in Nat /\ MaxTraffic \in Nat /\ MaxFaults \in Nat

VARIABLES
  row,       \* rows of Client: state, email, up + down, traffic_generation
  other,     \* whatever else is configured
  base,      \* TrafficCounterBaseline
  desired, applied,   \* RuntimeApplyState
  file,      \* the published configuration
  xray,      \* the container: what it runs, and its epoch
  counter,   \* what Xray has counted in this epoch, by credential and e-mail
  worker,    \* who holds the runtime lock, and how far it is
  carried,   \* what Xray carried for a user since its cycle began
  exact,     \* users no counter of which may be read twice (see NothingTwice)
  edits, faults

rows == <<row, other, base, desired>>
ghosts == <<carried, exact>>
vars == <<rows, applied, file, xray, counter, worker, ghosts, edits, faults>>

Users == Clients \X Names
User(c) == IF row[c].state = "on" THEN {<<c, row[c].name>>} ELSE {}

\* What a configuration generated now says.
Wanted == [users |-> UNION {User(c) : c \in Clients}, other |-> other]
Running == [users |-> xray.users, other |-> xray.other]

AnyClient == CHOOSE c \in Clients : TRUE
AnyName == CHOOSE n \in Names : TRUE
Zero == [c \in Clients |-> [n \in Names |-> 0]]
NoSample == [epoch |-> 0, values |-> Zero]
Idle == [pc |-> "idle", how |-> "none", who |-> AnyClient, was |-> {}, next |-> "idle",
         sample |-> NoSample]
NoBase == [epoch |-> 0, name |-> AnyName, value |-> 0, gen |-> 0]

TypeOK ==
  /\ row \in [Clients -> [state: {"gone", "off", "on"}, name: Names,
                          used: Nat, gen: Nat]]
  /\ other \in Nat /\ desired \in Nat /\ applied \in 0..desired
  /\ base \in [Clients -> [epoch: Nat, name: Names, value: Nat, gen: Nat]]
  /\ file \in [users: SUBSET Users, other: Nat]
  /\ xray \in [up: BOOLEAN, epoch: Nat \ {0}, users: SUBSET Users, other: Nat]
  /\ counter \in [Clients -> [Names -> Nat]]
  /\ worker \in [pc: {"idle", "down", "publish", "act", "settle", "sampled", "restart", "record"},
                 how: {"none", "restart", "users"}, who: Clients, was: SUBSET Users,
                 next: {"idle", "restart", "cycle", "zero", "enable", "delete"},
                 sample: [epoch: Nat, values: [Clients -> [Names -> Nat]]]]
  /\ carried \in [Clients -> Nat] /\ exact \subseteq Clients
  /\ edits \in 0..MaxEdits /\ faults \in 0..MaxFaults

-----------------------------------------------------------------------------
(* Changes of the rows. Each takes the lock, the next revision and, in the  *)
(* same step, the way it wants its change brought to Xray: "users" alters   *)
(* the user by gRPC, "restart" restarts the container without more, "none"  *)
(* leaves it to a full restart. The first two are for a worker that is not  *)
(* behind.                                                                  *)

Edit == worker.pc = "idle" /\ edits < MaxEdits /\ edits' = edits + 1
Fault == faults < MaxFaults /\ faults' = faults + 1

Dirty(c, how) ==
  /\ desired' = desired + 1
  /\ worker' = [Idle EXCEPT !.pc = "publish", !.how = IF desired = applied THEN how ELSE "none",
                            !.who = c, !.was = User(c)]

\* What of a counter has been read.
Last(c, n) == IF base[c].epoch = xray.epoch /\ base[c].name = n THEN base[c].value ELSE 0

Outside == <<applied, file, xray, counter, faults>>

\* Whatever switches a user on or off: update_user, bulk_enable_users, check_limits, provision.
SwitchUser(c, how) ==
  /\ Edit /\ row[c].state # "gone"
  /\ row' = [row EXCEPT ![c].state = IF @ = "on" THEN "off" ELSE "on"]
  /\ Dirty(c, how)
  /\ UNCHANGED <<other, base, ghosts, Outside>>

\* The traffic counted under the old e-mail since the last sample is not read.
\* A counter that was read already is read again from zero.
RenameUser(c, n, how) ==
  /\ Edit /\ row[c].state # "gone" /\ row[c].name # n
  /\ row' = [row EXCEPT ![c].name = n]
  /\ exact' = IF counter[c][n] > Last(c, n) THEN exact \ {c} ELSE exact
  /\ Dirty(c, how)
  /\ UNCHANGED <<other, base, carried, Outside>>

\* The baseline of a deleted credential stays. (bulk_delete_users settles first.)
DeleteUser(c, how) ==
  /\ Edit /\ row[c].state # "gone"
  /\ row' = [row EXCEPT ![c].state = "gone"]
  /\ Dirty(c, how)
  /\ UNCHANGED <<other, base, ghosts, Outside>>

\* What is above the baseline of this id and e-mail, if there is one, is the new user's.
AddUser(c, how) ==
  /\ Edit /\ row[c].state = "gone"
  /\ row' = [row EXCEPT ![c] = [state |-> "on", name |-> @.name, used |-> 0, gen |-> 0]]
  /\ carried' = [carried EXCEPT ![c] = counter[c][row[c].name] - Last(c, row[c].name)]
  /\ exact' = exact \cup {c}
  /\ Dirty(c, how)
  /\ UNCHANGED <<other, base, Outside>>

\* Inbounds, outbounds, balancers, profiles, the log level, a restart asked for.
Reconfigure(how) ==
  /\ Edit
  /\ other' = other + 1
  /\ Dirty(AnyClient, how)
  /\ UNCHANGED <<row, base, ghosts, Outside>>

\* A restored database (here: the newest copy) comes without its baselines.
Restore ==
  /\ Edit
  /\ base' = [c \in Clients |-> NoBase]
  /\ exact' = {c \in exact : Last(c, row[c].name) = 0}
  /\ Dirty(AnyClient, "none")
  /\ UNCHANGED <<row, other, carried, Outside>>

-----------------------------------------------------------------------------
(* synchronize_runtime, after its comparison of the two revisions           *)

Goto(pc) == worker' = [worker EXCEPT !.pc = pc]

Publish ==
  /\ worker.pc = "publish"
  /\ file' = Wanted
  /\ Goto(IF worker.how = "none" THEN "settle" ELSE "act")
  /\ UNCHANGED <<rows, applied, xray, counter, ghosts, edits, faults>>

\* Start: a new process, with what the file says and counters at zero.
Starts == xray' = [up |-> TRUE, epoch |-> xray.epoch + 1, users |-> file.users, other |-> file.other]
          /\ counter' = Zero
Stops == xray' = [xray EXCEPT !.up = FALSE, !.epoch = @ + 1] /\ counter' = Zero

RestartOnly ==
  /\ worker.pc = "act" /\ worker.how = "restart"
  /\ Starts
  /\ Goto("record")
  /\ UNCHANGED <<rows, applied, file, ghosts, edits, faults>>

\* AlterInbound: the user as it was is removed, which may find nothing, then the
\* user as it is is added, which may not find it there.
(* Mutant: of a renamed user only the new entry is sent.                    *)
AlteredByAdding == xray.users \cup User(worker.who)
Altered == (xray.users \ worker.was) \cup User(worker.who)
AlterUsers ==
  /\ worker.pc = "act" /\ worker.how = "users" /\ xray.up
  /\ IF User(worker.who) \cap (xray.users \ worker.was) = {}
     THEN xray' = [xray EXCEPT !.users = Altered] /\ Goto("record")
     ELSE xray' = [xray EXCEPT !.users = @ \ worker.was] /\ Goto("settle")
  /\ UNCHANGED <<rows, applied, file, counter, ghosts, edits, faults>>

\* A call fails, with or without its effect.
AlterFails ==
  /\ worker.pc = "act" /\ worker.how = "users"
  /\ \/ ~xray.up /\ UNCHANGED <<xray, faults>>
     \/ /\ Fault /\ xray.up
        /\ \E users \in {xray.users, xray.users \ worker.was, Altered} :
              xray' = [xray EXCEPT !.users = users]
  /\ Goto("settle")
  /\ UNCHANGED <<rows, applied, file, counter, ghosts, edits>>

Record ==
  /\ worker.pc = "record"
  /\ applied' = desired
  /\ worker' = Idle
  /\ UNCHANGED <<rows, file, xray, counter, ghosts, edits, faults>>

FullRestart ==
  /\ worker.pc = "restart"
  /\ Starts
  /\ Goto("record")
  /\ UNCHANGED <<rows, applied, file, ghosts, edits, faults>>

\* Docker refuses, or the file cannot be written: last_error, and the retry job.
ApplyFails ==
  /\ Fault
  /\ worker.pc \in {"publish", "restart"} \/ (worker.pc = "act" /\ worker.how = "restart")
  /\ worker' = Idle
  /\ UNCHANGED <<rows, applied, file, xray, counter, ghosts, edits>>

\* retry_pending_runtime; every request that changes nothing does the same.
(* Mutant: the job compares the published file, not the revisions.          *)
RetryUnpublished ==
  /\ worker.pc = "idle" /\ desired # applied /\ file # Wanted
  /\ worker' = [Idle EXCEPT !.pc = "publish"]
  /\ UNCHANGED <<rows, applied, file, xray, counter, ghosts, edits, faults>>
Retry ==
  /\ worker.pc = "idle" /\ desired # applied
  /\ worker' = [Idle EXCEPT !.pc = "publish"]
  /\ UNCHANGED <<rows, applied, file, xray, counter, ghosts, edits, faults>>

-----------------------------------------------------------------------------
(* Traffic                                                                  *)

Carry(c, n) ==
  /\ xray.up /\ <<c, n>> \in xray.users
  /\ \A d \in Clients : carried[d] + counter[d][n] < MaxTraffic
  /\ counter' = [counter EXCEPT ![c][n] = @ + 1]
  /\ carried' = IF row[c].state = "gone" THEN carried ELSE [carried EXCEPT ![c] = @ + 1]
  /\ UNCHANGED <<rows, applied, file, xray, worker, exact, edits, faults>>

\* Every holder of the lock reads a sample before it settles: sync_traffic_stats,
\* whoever starts a cycle or deletes users in bulk, and _settle_before_restart.
Read(next, c) ==
  /\ xray.up
  /\ worker' = [worker EXCEPT !.pc = "sampled", !.next = next, !.who = c,
                              !.sample = [epoch |-> xray.epoch, values |-> counter]]
  /\ UNCHANGED <<rows, applied, file, xray, counter, ghosts, faults>>

(* Mutant: the job is not scheduled again after an error.                   *)
SyncTrafficUntilError ==
  worker.pc = "idle" /\ faults = 0 /\ Read("idle", AnyClient) /\ UNCHANGED edits
SyncTraffic == worker.pc = "idle" /\ Read("idle", AnyClient) /\ UNCHANGED edits
SettleBeforeRestart == worker.pc = "settle" /\ Read("restart", worker.who) /\ UNCHANGED edits
StartCycle(c, next) == Edit /\ row[c].state # "gone" /\ Read(next, c)

Goes(next) == IF next = "restart" THEN [worker EXCEPT !.pc = "restart", !.sample = NoSample] ELSE Idle

\* A baseline of another cycle in the same epoch, and nothing to tell where the
\* cycle began: RuntimeError, for all users.
Present == {c \in Clients : row[c].state # "gone"}
(* Mutant: a baseline is taken for this epoch's, whichever it was read in.  *)
SameName(c) == base[c].name = row[c].name
SameCounter(c) == base[c].epoch = worker.sample.epoch /\ base[c].name = row[c].name
NoBoundary(c) == SameCounter(c) /\ base[c].gen # row[c].gen

\* start_traffic_cycle and bulk_delete_users settle their own user; the others are
\* settled with the next sample.
SettledNow == IF worker.next \in {"idle", "restart"} THEN Present ELSE {worker.who}
Settles == \A c \in SettledNow : ~NoBoundary(c)

\* Nothing is settled: the error above, a commit that fails, or no sample at all.
SettleFails ==
  /\ worker.pc \in {"sampled", "settle"}
  /\ \/ Fault
     \/ UNCHANGED faults /\ IF worker.pc = "sampled" THEN ~Settles ELSE ~xray.up
  /\ worker' = Goes(IF worker.pc = "settle" THEN "restart" ELSE worker.next)
  /\ UNCHANGED <<rows, applied, file, xray, counter, ghosts, edits>>

Value(c) == worker.sample.values[c][row[c].name]
Previous(c) == IF SameCounter(c) THEN base[c].value ELSE 0
Delta(c) == IF Value(c) >= Previous(c) THEN Value(c) - Previous(c) ELSE Value(c)

\* start_traffic_cycle, after it has settled.
Cycles(c) == c = worker.who /\ worker.next \in {"cycle", "zero", "enable"}
Zeroes(c) == Cycles(c) /\ worker.next # "cycle"
Gen(c) == IF Cycles(c) THEN row[c].gen + 1 ELSE row[c].gen
(* Mutant: the counter is added, not its increase.                          *)
TotalOfCounter(c) == IF Zeroes(c) THEN 0 ELSE row[c].used + Value(c)
Total(c) == IF Zeroes(c) THEN 0 ELSE row[c].used + Delta(c)

\* What Xray counted after the sample belongs to the cycle that begins.
AfterSample(c) == IF worker.sample.epoch = xray.epoch
                  THEN counter[c][row[c].name] - Value(c) ELSE counter[c][row[c].name]

Settle ==
  LET state == CASE worker.next = "delete" -> "gone"
                 [] worker.next = "enable" /\ row[worker.who].state = "off" -> "on"
                 [] OTHER -> row[worker.who].state
  IN /\ worker.pc = "sampled" /\ Settles
     /\ row' = [c \in Clients |->
                  IF c \in SettledNow
                  THEN [row[c] EXCEPT !.used = Total(c), !.gen = Gen(c),
                                      !.state = IF c = worker.who THEN state ELSE @]
                  ELSE row[c]]
     /\ base' = [c \in Clients |->
                  IF c \in SettledNow
                  THEN [epoch |-> worker.sample.epoch, name |-> row[c].name,
                        value |-> Value(c), gen |-> Gen(c)]
                  ELSE base[c]]
     /\ carried' = [c \in Clients |-> IF Zeroes(c) THEN AfterSample(c) ELSE carried[c]]
     /\ exact' = exact \cup {c \in Clients : Zeroes(c)}
     /\ IF state # row[worker.who].state
        THEN Dirty(worker.who, IF state = "on" THEN "users" ELSE "none")
        ELSE worker' = Goes(worker.next) /\ UNCHANGED desired
     /\ UNCHANGED <<other, applied, file, xray, counter, edits, faults>>

-----------------------------------------------------------------------------
(* What happens to the two processes                                        *)

XrayStops == Fault /\ xray.up /\ Stops /\ UNCHANGED <<rows, applied, file, worker, ghosts, edits>>
XrayStarts == ~xray.up /\ Starts /\ UNCHANGED <<rows, applied, file, worker, ghosts, edits, faults>>

\* update_geo_db restarts the container under the lock and settles nothing.
UpdateGeo == Edit /\ Starts /\ UNCHANGED <<rows, applied, file, worker, ghosts, faults>>

WorkerDies ==
  /\ Fault /\ worker.pc # "down"
  /\ worker' = [Idle EXCEPT !.pc = "down"]
  /\ UNCHANGED <<rows, applied, file, xray, counter, ghosts, edits>>

\* The worker starts: everything is applied again ...
Boot ==
  /\ worker.pc = "down"
  /\ desired' = desired + 1
  /\ worker' = [Idle EXCEPT !.pc = "publish"]
  /\ UNCHANGED <<row, other, base, applied, file, xray, counter, ghosts, edits, faults>>

\* ... or, if it was told to preserve what runs, nothing is, if nothing needs to be.
BootPreserving ==
  /\ worker.pc = "down" /\ desired = applied /\ xray.up /\ file = Wanted
  /\ worker' = Idle
  /\ UNCHANGED <<rows, applied, file, xray, counter, ghosts, edits, faults>>

Init ==
  /\ row = [c \in Clients |-> [state |-> "on", name |-> AnyName, used |-> 0, gen |-> 0]]
  /\ other = 0
  /\ base = [c \in Clients |-> NoBase]
  /\ desired = 0 /\ applied = 0
  /\ file = Wanted
  /\ xray = [up |-> TRUE, epoch |-> 1, users |-> Wanted.users, other |-> 0]
  /\ counter = Zero
  /\ worker = Idle
  /\ carried = [c \in Clients |-> 0] /\ exact = Clients
  /\ edits = 0 /\ faults = 0

Change ==
  \E how \in {"none", "restart", "users"} :
    \/ how # "users" /\ Reconfigure(how)
    \/ \E c \in Clients : \/ SwitchUser(c, how) \/ DeleteUser(c, how)
                          \/ how # "none" /\ AddUser(c, how)
                          \/ \E n \in Names : how # "none" /\ RenameUser(c, n, how)
Proceed ==
  \/ Publish \/ RestartOnly \/ AlterUsers \/ AlterFails \/ Record \/ FullRestart
  \/ SettleBeforeRestart \/ SettleFails \/ Settle \/ Boot
Jobs == Retry \/ SyncTraffic
Requests ==
  \/ Change \/ Restore \/ UpdateGeo
  \/ \E c \in Clients, next \in {"cycle", "zero", "enable", "delete"} : StartCycle(c, next)
Traffic == \E c \in Clients, n \in Names : Carry(c, n)
Faults == ApplyFails \/ XrayStops \/ XrayStarts \/ WorkerDies \/ BootPreserving

Next == Proceed \/ Jobs \/ Requests \/ Traffic \/ Faults
Spec == Init /\ [][Next]_vars

\* The holder of the lock goes on, and Docker starts a worker that died. The two
\* jobs run every ten seconds, and find the lock free again and again.
Fairness == WF_vars(Proceed) /\ SF_vars(Retry) /\ SF_vars(SyncTraffic) /\ WF_vars(XrayStarts)
FairSpec == Spec /\ Fairness

-----------------------------------------------------------------------------
(* The revision is applied exactly when Xray runs what the rows say, through*)
(* partial alterations, failed calls and starts of Xray on its own.         *)
AppliedIsRunning ==
  desired = applied /\ xray.up => Running = Wanted

(* Traffic of a user that is still to be counted.                           *)
InFlight(c) ==
  IF worker.pc = "sampled" /\ worker.sample.epoch # xray.epoch /\ c \in SettledNow
  THEN Delta(c) ELSE 0
Due(c) == counter[c][row[c].name] - Last(c, row[c].name) + InFlight(c)

(* No unit of traffic is charged to a user twice or to two of its cycles,   *)
(* whatever restarts, retries and resets happen. Excepted is a user renamed *)
(* back to an e-mail it had in this epoch, and all users after a restore,   *)
(* until their next cycle: there the code reads a counter again.            *)
NothingTwice ==
  \A c \in Present \cap exact : row[c].used + Due(c) <= carried[c]

(* Traffic goes uncounted only when Xray stops, when a sample of an Xray    *)
(* that stopped is dropped, or under an e-mail that is no longer the user's;*)
(* never by a settlement, a reset or what the worker does otherwise.        *)
Uncounted(c) == carried[c] - (row[c].used + Due(c))
NothingLost ==
  [][\A c \in Present \cap exact :
       /\ c \in exact' /\ row'[c].state # "gone" /\ row'[c].name = row[c].name
       /\ xray'.epoch = xray.epoch /\ worker.sample.epoch \in {0, xray.epoch}
       /\ \A n \in Names \ {row[c].name} : counter'[c][n] = counter[c][n]
       => Uncounted(c)' \in {0, Uncounted(c)}]_vars

(* What was saved is applied in the end, and nothing else has to be asked   *)
(* for it: the retry job sees to it whatever failed or died.                *)
PendingIsApplied == []<>(desired = applied)

(* What Xray carries is counted in the end, unless a user was deleted and   *)
(* added again with the same id and e-mail after a reset in this epoch: its *)
(* baseline has no boundary then, and nobody's traffic is counted.          *)
Stuck == \E c \in Present : /\ base[c].epoch = xray.epoch /\ base[c].name = row[c].name
                            /\ base[c].gen # row[c].gen
TrafficIsCounted == []<>(Stuck \/ \A c \in Present : Due(c) = 0)

(* "sync_traffic, 10s: Per-user up/down from Xray" (README): without that   *)
(* exception.                                                               *)
(* The code does not keep this: see the known divergences in the README.    *)
TrafficIsAlwaysCounted == []<>(\A c \in Present : Due(c) = 0)
=============================================================================
