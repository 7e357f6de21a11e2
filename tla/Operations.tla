----------------------------- MODULE Operations -----------------------------
(***************************************************************************)
(* The master's durable operations: what an admin asks of the nodes is     *)
(* stored with the change it belongs to, carried out by the request that   *)
(* stored it, and taken up again by a job until every node has answered.   *)
(* One user and one tariff, all of whose targets are nodes; three kinds of *)
(* operation, which meet on the user's account, on the grant and on the    *)
(* nodes: a grant of the tariff, its revocation, and a block or unblock.   *)
(*                                                                         *)
(* A transaction is one step, unless the code calls a node in it.          *)
(***************************************************************************)
EXTENDS Naturals, FiniteSets

CONSTANTS
  Targets,         \* the targets of the tariff, each on a node of its own
  Handlers,        \* requests of admins, each a thread of the master
  Jobs,            \* the retry job of the cron process
  MaxRevision,     \* bound: revisions of the grant
  MaxRevocations,  \* bound: revocations of the tariff
  MaxStates,       \* bound: states of the account
  MaxFaults,       \* bound: failed calls, crashes and leases lost by the living
  Nobody           \* no owner

ASSUME OperationsAssumption ==
  /\ Handlers \cap Jobs = {} /\ Nobody \notin Handlers \cup Jobs
  /\ {MaxRevision, MaxRevocations, MaxStates, MaxFaults} \subseteq Nat

VARIABLES
  user,    \* TelegramUser: blocked, access_revision
  grant,   \* UserTariffAccess: billing, provisioning_status, provisioning_revision
  ops,     \* ProvisionOperation, by id
  node,    \* what each node holds of the grant, and of the account
  late,    \* calls whose senders gave up on them
  ctx,     \* what each process is doing
  faults

vars == <<user, grant, ops, node, late, ctx, faults>>

Procs == Handlers \cup Jobs
OpIds == ({"grant"} \X (1..MaxRevision)) \cup ({"revoke"} \X (1..MaxRevocations)) \cup ({"account"} \X (1..MaxStates))
Kind(o) == o[1]
Revision(o) == o[2]

(* A row: target_states is the set of targets that succeeded; revoked is   *)
(* the revision of the grant that a revocation names (revoked_sources),    *)
(* and blocks what a state of the account asks for; told counts the        *)
(* announcements of such a state.                                          *)
Row == [status: {"none", "pending", "succeeded", "superseded"}, owner: Procs \cup {Nobody}, expired: BOOLEAN,
        done: SUBSET Targets, revoked: 0..MaxRevision, blocks: BOOLEAN, told: Nat]
NoRow == [status |-> "none", owner |-> Nobody, expired |-> FALSE, done |-> {}, revoked |-> 0, blocks |-> FALSE, told |-> 0]
Fresh == [NoRow EXCEPT !.status = "pending"]

Idle == [pc |-> "idle", op |-> <<"none", 0>>, revokes |-> FALSE, todo |-> {}, target |-> "none", seen |-> 0,
         status |-> "none", failed |-> FALSE, ok |-> FALSE, list |-> {}]

Init ==
  /\ user = [blocked |-> FALSE, rev |-> 0]
  /\ grant = [billing |-> "none", status |-> "none", rev |-> 0]
  /\ ops = [o \in OpIds |-> NoRow]
  /\ node = [t \in Targets |-> [rev |-> 0, live |-> FALSE, account |-> 0, blocked |-> FALSE]]
  /\ late = {}
  /\ ctx = [p \in Procs |-> Idle]
  /\ faults = 0

At(p, pc) == ctx[p].pc = pc
Go(p, pc) == ctx' = [ctx EXCEPT ![p].pc = pc]
Fault == faults < MaxFaults /\ faults' = faults + 1

(* The process turns to operation o; revokes: with the work of             *)
(* revoke_tariff to do afterwards.                                         *)
Turn(p, o, revokes) == ctx' = [ctx EXCEPT ![p].pc = "claim", ![p].op = o, ![p].revokes = revokes]
(* ... and is done with it. *)
Done(p) == [Idle EXCEPT !.pc = IF p \in Jobs THEN "next" ELSE "idle", !.list = ctx[p].list]
Result(p, ok) ==
  ctx' = [ctx EXCEPT ![p] = [Idle EXCEPT !.pc = "release", !.op = ctx[p].op, !.revokes = ctx[p].revokes,
                                         !.ok = ok, !.list = ctx[p].list]]

-----------------------------------------------------------------------------
(* Requests.  Each stores what it changes and its operation in one         *)
(* transaction, and runs the operation.                                    *)

(* save_grant, of free access: the same terms again while they are         *)
(* pending, or new ones.                                                   *)
RequestGrant(p) ==
  /\ At(p, "idle")
  /\ ~user.blocked
  /\ \/ /\ grant.status = "pending"
        /\ Turn(p, <<"grant", grant.rev>>, FALSE)
        /\ UNCHANGED <<grant, ops>>
     \/ /\ grant.rev < MaxRevision
        /\ grant' = [billing |-> "free", status |-> "pending", rev |-> grant.rev + 1]
        /\ ops' = [ops EXCEPT ![<<"grant", grant.rev + 1>>] = Fresh]
        /\ Turn(p, <<"grant", grant.rev + 1>>, FALSE)
  /\ UNCHANGED <<user, node, late, faults>>

(* save_grant, of the right to buy: nothing is delivered. *)
RequestOffer(p) ==
  /\ At(p, "idle")
  /\ ~user.blocked
  /\ grant.billing = "free" => grant.status = "revoked"
  /\ grant' = [grant EXCEPT !.billing = "paid", !.status = "succeeded"]
  /\ UNCHANGED <<user, ops, node, late, ctx, faults>>

(* set_account_block *)
RequestState(p, blocked) ==
  LET next == <<"account", user.rev + 1>>
  IN
  /\ At(p, "idle")
  /\ user.rev < MaxStates
  /\ user' = [blocked |-> blocked, rev |-> user.rev + 1]
  /\ ops' = [ops EXCEPT ![next] = [Fresh EXCEPT !.blocks = blocked]]
  /\ Turn(p, next, FALSE)
  /\ UNCHANGED <<grant, node, late, faults>>

(* revoke_tariff, up to its operation: a revocation that is pending is     *)
(* taken up again, and otherwise a new one names a revision of the grant   *)
(* past every grant so far.                                                *)
Pending(kind) == {o \in OpIds : Kind(o) = kind /\ ops[o].status = "pending"}

RequestRevoke(p) ==
  /\ At(p, "idle")
  /\ grant.status # "none"
  /\ \/ \E o \in Pending("revoke") :
          /\ \A other \in Pending("revoke") : Revision(other) <= Revision(o)
          /\ grant' = [grant EXCEPT !.status = "revoking"]
          /\ Turn(p, o, TRUE)
          /\ UNCHANGED ops
     \/ \E k \in 1..MaxRevocations :
          /\ Pending("revoke") = {}
          /\ \A i \in 1..MaxRevocations : (ops[<<"revoke", i>>].status = "none") <=> (i >= k)
          /\ grant.rev < MaxRevision
          /\ grant' = [grant EXCEPT !.status = "revoking", !.rev = @ + 1]
          /\ ops' = [o \in OpIds |->
                       IF o = <<"revoke", k>> THEN [Fresh EXCEPT !.revoked = grant.rev + 1]
                       ELSE IF Kind(o) = "grant" /\ ops[o].status # "none" THEN [ops[o] EXCEPT !.status = "superseded"]
                       ELSE ops[o]]
          /\ Turn(p, <<"revoke", k>>, TRUE)
  /\ UNCHANGED <<user, node, late, faults>>

-----------------------------------------------------------------------------
(* retry_pending_operations: the rows are selected once, and run one after *)
(* the other.                                                              *)
(* Mutant: rows that somebody claimed once are left to him. *)
SelectedUnclaimed == {o \in OpIds : ops[o].status = "pending" /\ ops[o].owner = Nobody}
Selected == {o \in OpIds : ops[o].status = "pending"}

JobStarts(p) ==
  /\ At(p, "idle")
  /\ ctx' = [ctx EXCEPT ![p].pc = "next", ![p].list = Selected]
  /\ UNCHANGED <<user, grant, ops, node, late, faults>>

-----------------------------------------------------------------------------
(* run_operation *)

(* One conditional UPDATE takes the row over. *)
Claimable(o) == ops[o].status # "superseded" /\ (ops[o].owner = Nobody \/ ops[o].expired)
Claimed(p, o) == [ops EXCEPT ![o].owner = p, ![o].expired = FALSE]

Claim(p) ==
  LET o == ctx[p].op
  IN
  /\ At(p, "claim")
  /\ IF Claimable(o)
     THEN ops' = Claimed(p, o) /\ ctx' = [ctx EXCEPT ![p].pc = "fence", ![p].todo = Targets]
     ELSE ctx' = [ctx EXCEPT ![p] = Idle] /\ UNCHANGED ops
  /\ UNCHANGED <<user, grant, node, late, faults>>

(* The job goes through its list, in any order. *)
JobTakes(p, o) ==
  /\ At(p, "next") /\ o \in ctx[p].list
  /\ IF Claimable(o)
     THEN /\ ops' = Claimed(p, o)
          /\ ctx' = [ctx EXCEPT ![p] = [ctx[p] EXCEPT !.pc = "fence", !.op = o, !.todo = Targets, !.list = ctx[p].list \ {o}]]
     ELSE ctx' = [ctx EXCEPT ![p].list = @ \ {o}] /\ UNCHANGED ops
  /\ UNCHANGED <<user, grant, node, late, faults>>

JobEnds(p) ==
  /\ At(p, "next") /\ ctx[p].list = {}
  /\ ctx' = [ctx EXCEPT ![p] = Idle]
  /\ UNCHANGED <<user, grant, ops, node, late, faults>>

(* _guard *)
Newer(o) == \E other \in OpIds : Kind(other) = Kind(o) /\ Revision(other) > Revision(o) /\ ops[other].status # "none"
Obsolete(o) == ops[o].status = "superseded" \/ Newer(o)
(* Mutant: a grant under way is not stopped by a block. *)
BarredNever(o) == FALSE
Barred(o) == Kind(o) = "grant" /\ user.blocked
Holds(p, o) == ops[o].owner = p /\ ~ops[o].expired

(* A state of the account is not sent again to a node that has it. *)
Skips(o, t) == Kind(o) = "account" /\ t \in ops[o].done

Superseded(p, o) ==
  /\ Obsolete(o)
  /\ ops' = IF ops[o].owner = p THEN [ops EXCEPT ![o].status = "superseded"] ELSE ops
  /\ Result(p, FALSE)

(* One target: the fence before its call, *)
Fence(p, t) ==
  LET o == ctx[p].op
  IN
  /\ At(p, "fence") /\ t \in ctx[p].todo
  /\ \/ Superseded(p, o)
     \/ /\ ~Obsolete(o) /\ Barred(o)
        /\ ctx' = [ctx EXCEPT ![p].pc = "back", ![p].target = t, ![p].ok = FALSE]
        /\ UNCHANGED ops
     \/ /\ ~Obsolete(o) /\ ~Barred(o) /\ ~Holds(p, o)
        /\ Result(p, FALSE)
        /\ UNCHANGED ops
     \/ /\ ~Obsolete(o) /\ ~Barred(o) /\ Holds(p, o)
        /\ ctx' = IF Skips(o, t)
                  THEN [ctx EXCEPT ![p].todo = @ \ {t}]
                  ELSE [ctx EXCEPT ![p].pc = "call", ![p].target = t, ![p].seen = user.rev]
        /\ UNCHANGED ops
  /\ UNCHANGED <<user, grant, node, late, faults>>

(* Mutant: a grant that comes late is taken. *)
AcceptsLate(n, o, a) ==
  CASE Kind(o) = "grant" -> ~n.blocked /\ a >= n.account
    [] Kind(o) = "revoke" -> TRUE
    [] Kind(o) = "account" -> Revision(o) > n.account \/ (Revision(o) = n.account /\ n.blocked = ops[o].blocks)

(* what the node does with a call sent at access revision a,               *)
Accepts(n, o, a) ==
  CASE Kind(o) = "grant" -> ~n.blocked /\ a >= n.account /\ (Revision(o) > n.rev \/ (Revision(o) = n.rev /\ n.live))
    [] Kind(o) = "revoke" -> TRUE
    [] Kind(o) = "account" -> Revision(o) > n.account \/ (Revision(o) = n.account /\ n.blocked = ops[o].blocks)

After(n, o, a) ==
  CASE Kind(o) = "grant" -> [n EXCEPT !.rev = Revision(o), !.live = TRUE, !.account = a]
    [] Kind(o) = "revoke" -> IF n.rev <= ops[o].revoked THEN [n EXCEPT !.rev = ops[o].revoked, !.live = FALSE] ELSE n
    [] Kind(o) = "account" -> [n EXCEPT !.account = Revision(o), !.blocked = ops[o].blocks]

Execute(o, t, a) == node' = IF Accepts(node[t], o, a) THEN [node EXCEPT ![t] = After(@, o, a)] ELSE node

(* the call itself, for which the row is read again, *)
Call(p) ==
  LET o == ctx[p].op  t == ctx[p].target
  IN
  /\ At(p, "call")
  /\ Execute(o, t, ctx[p].seen)
  /\ ctx' = [ctx EXCEPT ![p].pc = "back", ![p].status = ops[o].status, ![p].ok = Accepts(node[t], o, ctx[p].seen)]
  /\ UNCHANGED <<user, grant, ops, late, faults>>

CallFails(p) ==
  /\ At(p, "call")
  /\ Fault
  /\ late' = late \cup {[op |-> ctx[p].op, target |-> ctx[p].target, seen |-> ctx[p].seen]}
  /\ ctx' = [ctx EXCEPT ![p].pc = "back", ![p].ok = FALSE]
  /\ UNCHANGED <<user, grant, ops, node>>

LateCall ==
  /\ \E c \in late : Execute(c.op, c.target, c.seen) /\ late' = late \ {c}
  /\ UNCHANGED <<user, grant, ops, ctx, faults>>

(* and the row afterwards. *)
Back(p) ==
  LET o == ctx[p].op
      failed == ctx[p].failed \/ ~ctx[p].ok
      done == IF ctx[p].ok THEN ops[o].done \cup {ctx[p].target} ELSE ops[o].done \ {ctx[p].target}
  IN
  /\ At(p, "back")
  /\ IF Holds(p, o)
     THEN /\ ops' = [ops EXCEPT ![o].done = done, ![o].status = IF failed THEN "pending" ELSE ctx[p].status]
          /\ ctx' = [ctx EXCEPT ![p] = [ctx[p] EXCEPT !.pc = "fence", !.todo = ctx[p].todo \ {ctx[p].target}, !.failed = failed,
                                                      !.target = "none", !.seen = 0, !.status = "none", !.ok = FALSE]]
     ELSE /\ Result(p, FALSE)
          /\ UNCHANGED ops
  /\ UNCHANGED <<user, grant, node, late, faults>>

(* Mutant of Finish: failures of single targets are not looked at. *)
FinishAnyway(p) ==
  LET o == ctx[p].op
  IN
  /\ At(p, "fence") /\ ctx[p].todo = {}
  /\ IF Obsolete(o) \/ Barred(o) \/ ~Holds(p, o) THEN Result(p, FALSE) ELSE Go(p, "complete")
  /\ UNCHANGED <<user, grant, ops, node, late, faults>>

(* The last fence. *)
Finish(p) ==
  LET o == ctx[p].op
  IN
  /\ At(p, "fence") /\ ctx[p].todo = {}
  /\ IF ctx[p].failed \/ Obsolete(o) \/ Barred(o) \/ ~Holds(p, o) THEN Result(p, FALSE) ELSE Go(p, "complete")
  /\ UNCHANGED <<user, grant, ops, node, late, faults>>

(* _complete *)
Settles(o) == Kind(o) = "grant" /\ grant.rev = Revision(o)

Complete(p) ==
  LET o == ctx[p].op
      first == Holds(p, o) /\ ~Newer(o) /\ ~Barred(o) /\ ops[o].status # "succeeded"
  IN
  /\ At(p, "complete")
  /\ ops' = IF first THEN [ops EXCEPT ![o].status = "succeeded", ![o].told = IF Kind(o) = "account" THEN @ + 1 ELSE @]
            ELSE ops
  /\ grant' = IF first /\ Settles(o) THEN [grant EXCEPT !.status = "succeeded"] ELSE grant
  /\ Result(p, ops'[o].status = "succeeded")
  /\ UNCHANGED <<user, node, late, faults>>

Release(p) ==
  LET o == ctx[p].op
  IN
  /\ At(p, "release")
  /\ ops' = IF ops[o].owner = p THEN [ops EXCEPT ![o].owner = Nobody, ![o].expired = FALSE] ELSE ops
  /\ ctx' = [ctx EXCEPT ![p] = IF ctx[p].ok /\ ctx[p].revokes THEN [Idle EXCEPT !.pc = "mark"] ELSE Done(p)]
  /\ UNCHANGED <<user, grant, node, late, faults>>

(* revoke_tariff, after its operation. *)
MarkRevoked(p) ==
  /\ At(p, "mark")
  /\ grant' = [grant EXCEPT !.status = "revoked"]
  /\ ctx' = [ctx EXCEPT ![p] = Idle]
  /\ UNCHANGED <<user, ops, node, late, faults>>

-----------------------------------------------------------------------------
(* A lease of two minutes runs out: its holder is dead, or slow.           *)
WorksOn(p, o) == ctx[p].op = o /\ ctx[p].pc \in {"fence", "call", "back", "complete", "release"}

Expire(o) ==
  /\ ops[o].owner # Nobody /\ ~ops[o].expired
  /\ ops' = [ops EXCEPT ![o].expired = TRUE]
  /\ IF WorksOn(ops[o].owner, o) THEN Fault ELSE UNCHANGED faults
  /\ UNCHANGED <<user, grant, node, late, ctx>>

Crash(p) ==
  /\ ~At(p, "idle")
  /\ Fault
  /\ ctx' = [ctx EXCEPT ![p] = Idle]
  /\ UNCHANGED <<user, grant, ops, node, late>>

Request(p) ==
  \/ RequestGrant(p) \/ RequestOffer(p) \/ RequestRevoke(p)
  \/ \E blocked \in BOOLEAN : RequestState(p, blocked)
Step(p) ==
  \/ Claim(p) \/ (\E t \in Targets : Fence(p, t)) \/ Call(p) \/ Back(p) \/ Finish(p) \/ Complete(p) \/ Release(p) \/ MarkRevoked(p)

Next ==
  \/ \E p \in Handlers : Request(p)
  \/ \E p \in Jobs : JobStarts(p) \/ (\E o \in OpIds : JobTakes(p, o)) \/ JobEnds(p)
  \/ \E p \in Procs : Step(p) \/ CallFails(p) \/ Crash(p)
  \/ \E o \in OpIds : Expire(o)
  \/ LateCall

Spec == Init /\ [][Next]_vars

(* Threads go on, the scheduler starts the job again and again, and a lease *)
(* nobody renews runs out.                                                 *)
FairSpec ==
  /\ Spec
  /\ \A p \in Procs : WF_vars(Step(p))
  /\ \A p \in Jobs : WF_vars(JobStarts(p) \/ (\E o \in OpIds : JobTakes(p, o)) \/ JobEnds(p))
  /\ \A o \in OpIds : WF_vars(Expire(o) /\ ~WorksOn(ops[o].owner, o))

-----------------------------------------------------------------------------
(* Properties *)

Calls == [op: OpIds, target: Targets, seen: 0..MaxStates]
(* Users, grants, operations, nodes and calls keep the types of their columns. *)
TypeOK ==
  /\ user \in [blocked: BOOLEAN, rev: 0..MaxStates]
  /\ grant \in [billing: {"none", "free", "paid"}, status: {"none", "pending", "succeeded", "revoking", "revoked"},
                rev: 0..MaxRevision]
  /\ ops \in [OpIds -> Row]
  /\ node \in [Targets -> [rev: 0..MaxRevision, live: BOOLEAN, account: 0..MaxStates, blocked: BOOLEAN]]
  /\ late \subseteq Calls
  /\ faults \in 0..MaxFaults

(* A target as its contract with the master describes it, for the one      *)
(* source that is the grant.                                               *)
HeldAt(n) == [state |-> IF n.rev = 0 THEN "none" ELSE IF n.live THEN "given" ELSE "withdrawn", rev |-> n.rev]
Node(t) ==
  INSTANCE NodeContract WITH
    Sources <- {"grant"}, Revisions <- 0..MaxRevision, Decisions <- 0..MaxStates,
    held <- [s \in {"grant"} |-> HeldAt(node[t])],
    account <- [rev |-> node[t].account, blocked |-> node[t].blocked]

(* What operations, retries and late calls take a node to do is what its   *)
(* contract lets it do (federation.py, entitlements.py), node by node.     *)
NodesKeepContract ==
  /\ \A t \in Targets : Node(t)!Init
  /\ [][\A t \in Targets : node'[t] = node[t] \/ Node(t)!Next \/ UNCHANGED Node(t)!cvars]_node

(* An operation recorded as succeeded reached every target, whatever       *)
(* failed or was repeated on the way, and no later call of an older one    *)
(* undoes it: no node is behind it (_run_claimed, _complete).              *)
Reached(o, n) ==
  CASE Kind(o) = "grant" -> n.rev >= Revision(o)
    [] Kind(o) = "revoke" -> n.rev >= ops[o].revoked /\ (n.rev = ops[o].revoked => ~n.live)
    [] Kind(o) = "account" -> n.account >= Revision(o)
SuccessIsEverywhere == \A o \in OpIds : ops[o].status = "succeeded" => \A t \in Targets : Reached(o, node[t])

(* A node blocks the account exactly if the admin decided so at the        *)
(* revision the node is at, also when the revision came with a grant that  *)
(* was sent while the decision was under way (_guard, provision).          *)
AccountAsDecided ==
  \A t \in Targets : LET n == node[t].account IN node[t].blocked = (n > 0 /\ ops[<<"account", n>>].blocks)

(* A grant of free access that the panel shows as delivered is live on     *)
(* every node of the tariff, at the revision shown (_complete, save_grant). *)
DeliveredIsLive ==
  grant.status = "succeeded" /\ grant.billing = "free" => \A t \in Targets : node[t].live /\ node[t].rev = grant.rev

(* Every block, unblock and revocation comes to an end, though processes   *)
(* die with its lease in hand (retry_pending_operations).                  *)
EveryOperationEnds ==
  \A o \in OpIds : Kind(o) # "grant" => []<>(ops[o].status # "pending")

(* A superseded operation stays superseded (run_operation's condition,     *)
(* and what the tests assert).                                             *)
(* The code does not keep this: see the known divergences in the README.    *)
ObsoleteIsTerminal == [][\A o \in OpIds : ops[o].status = "superseded" => ops'[o].status = "superseded"]_vars

(* Once everything asked for is done, a grant shown as revoked is live      *)
(* nowhere (revoke_tariff, _complete).                                     *)
AtRest == (\A p \in Procs : At(p, "idle")) /\ (\A o \in OpIds : ops[o].status # "pending")
(* The code does not keep this: see the known divergences in the README.    *)
RevokedMeansNone == AtRest /\ grant.status = "revoked" => \A t \in Targets : ~node[t].live
=============================================================================
