------------------------------ MODULE Payment ------------------------------
(***************************************************************************)
(* One row of the payment table, from the moment its provider invoice      *)
(* exists, and the processes of the bot API role that settle it:           *)
(*                                                                         *)
(*   - webhook handlers (api/billing.py, yookassa_webhook): they re-read   *)
(*     the invoice at the provider and never trust the message itself;     *)
(*   - the poller (poll_pending_payments, cleanup_old_payments), which     *)
(*     stands in for webhooks that never arrive;                           *)
(*   - the reconciler (reconcile_refunds).                                 *)
(*                                                                         *)
(* Every database statement that commits is one action, so are the call to *)
(* the provider and the call to a node: the processes interleave there.    *)
(* A process takes the row over by writing itself into processing_owner.   *)
(* The code writes a fresh uuid and a version; here the owner is the       *)
(* process itself, which is as fresh, since a process only claims a row    *)
(* nobody owns and forgets its claim when it stops.  Time is one bit: the  *)
(* lease in processing_expires_at has run out or it has not.               *)
(***************************************************************************)
EXTENDS Naturals, FiniteSets

CONSTANTS
  Hooks,        \* webhook handlers that may run at the same time
  Pollers,      \* runs of the polling job
  Reconcilers,  \* runs of the refund job
  Targets,      \* the (panel, inbound) items of the purchased tariff
  Renewed,      \* targets where another purchase of the tariff has a client
  Price,        \* amount_rub * 100, in units that tell a partial refund apart
  MaxFaults,    \* bound: crashes, lost leases and failed calls in a behaviour
  MaxBlocks,    \* bound: how often an operator blocks or unblocks the user
  NoOwner,      \* processing_owner IS NULL
  NoTarget      \* no call is being made

Workers == Hooks \cup Pollers \cup Reconcilers

ASSUME WorkersAssumption ==
  /\ NoOwner \notin Workers
  /\ Hooks \cap Pollers = {} /\ Hooks \cap Reconcilers = {}
  /\ Pollers \cap Reconcilers = {}
ASSUME TargetsAssumption == NoTarget \notin Targets
ASSUME RenewedAssumption == Renewed \subseteq Targets
ASSUME PriceAssumption == Price \in Nat \ {0}
ASSUME BoundsAssumption == MaxFaults \in Nat /\ MaxBlocks \in Nat

VARIABLES
  pay,       \* the row: provider, status, fulfillment, refund, refunded, owner, expired
  readable,  \* the stored purchase terms can be read (_purchased_tariff)
  told,      \* bot events committed with the row, by kind
  remote,    \* the invoice as YooKassa has it
  blocked,   \* TelegramUser.blocked
  blocks,    \* how often blocked has changed
  revoking,  \* the operation "revoke:pay:<id>:1" is stored
  node,      \* what each target holds for the source "pay:<id>"
  wire,      \* calls given up by their caller that a node may still execute
  ctx,       \* the local state of each process
  faults

vars == <<pay, readable, told, remote, blocked, blocks, revoking, node, wire, ctx, faults>>

Kinds == {"fulfillment", "refund"}
Observation == [status : {"pending", "succeeded", "canceled"}, refunded : 0..Price]
PayRow == [provider : {"pending", "succeeded", "canceled"},
           status : {"pending", "processing", "succeeded", "refunded", "cancelled"},
           fulfillment : {"pending", "processing", "succeeded", "blocked", "review", "retry"},
           refund : {"none", "partial", "processing", "pending", "completed"},
           refunded : 0..Price,
           owner : Workers \cup {NoOwner},
           expired : BOOLEAN]
Steps == {"idle", "select", "record", "accept", "apply", "handle", "store", "partial",
          "claim", "guard", "queue", "item", "call", "fence", "complete", "guard2", "finish"}
Verdicts == {"succeeded", "blocked", "review", "retry", "completed", "pending", "error"}
Context == [pc : Steps,
            kind : Kinds \cup {"none"},
            seen : Observation,
            todo : SUBSET Targets,
            target : Targets \cup {NoTarget},
            failed : BOOLEAN,
            out : Verdicts \cup {"none"}]
Calls == [kind : Kinds, target : Targets]

TypeOK ==
  /\ pay \in PayRow
  /\ readable \in BOOLEAN
  /\ told \in [{"succeeded", "refunded", "cancelled"} -> Nat]
  /\ remote \in Observation
  /\ blocked \in BOOLEAN
  /\ blocks \in Nat
  /\ revoking \in BOOLEAN
  /\ node \in [Targets -> {"none", "granted", "revoked"}]
  /\ wire \in SUBSET Calls
  /\ ctx \in [Workers -> Context]
  /\ faults \in Nat

Unseen == [status |-> "pending", refunded |-> 0]
Idle == [pc |-> "idle", kind |-> "none", seen |-> Unseen, todo |-> {},
         target |-> NoTarget, failed |-> FALSE, out |-> "none"]

Init ==
  /\ pay = [provider |-> "pending", status |-> "pending", fulfillment |-> "pending",
            refund |-> "none", refunded |-> 0, owner |-> NoOwner, expired |-> FALSE]
  /\ readable \in BOOLEAN
  /\ told = [k \in {"succeeded", "refunded", "cancelled"} |-> 0]
  /\ remote = Unseen
  /\ blocked = FALSE
  /\ blocks = 0
  /\ revoking = FALSE
  /\ node = [t \in Targets |-> "none"]
  /\ wire = {}
  /\ ctx = [w \in Workers |-> Idle]
  /\ faults = 0

At(w, pc) == ctx[w].pc = pc
Go(w, pc) == ctx' = [ctx EXCEPT ![w].pc = pc]
Stop(w) == ctx' = [ctx EXCEPT ![w] = Idle]
Conclude(w, out) == ctx' = [ctx EXCEPT ![w].pc = "finish", ![w].out = out]
Fault == faults < MaxFaults /\ faults' = faults + 1

(* What lies outside the processes of the bot API.                         *)
World == <<readable, remote, blocked, blocks>>
(* What only a call to a node changes.                                     *)
Delivery == <<node, wire, revoking>>

-----------------------------------------------------------------------------
(* The provider, external: an invoice is paid or canceled once, and a paid *)
(* one may be refunded in parts.                                           *)

Settle(outcome) ==
  /\ remote.status = "pending"
  /\ remote' = [remote EXCEPT !.status = outcome]
  /\ UNCHANGED <<pay, readable, told, blocked, blocks, Delivery, ctx, faults>>

RefundAtProvider ==
  /\ remote.status = "succeeded"
  /\ remote.refunded < Price
  /\ \E amount \in (remote.refunded + 1)..Price : remote' = [remote EXCEPT !.refunded = amount]
  /\ UNCHANGED <<pay, readable, told, blocked, blocks, Delivery, ctx, faults>>

SetBlocked ==
  /\ blocks < MaxBlocks
  /\ blocks' = blocks + 1
  /\ blocked' = ~blocked
  /\ UNCHANGED <<pay, readable, told, remote, Delivery, ctx, faults>>

-----------------------------------------------------------------------------
(* Mutant: only the owner is cleared, not what the row shows of its work. *)
ReleasedOwnerOnly ==
  IF pay.owner # NoOwner /\ pay.expired THEN [pay EXCEPT !.owner = NoOwner, !.expired = FALSE] ELSE pay

(* release_stranded_claims: the first thing both jobs do.                  *)
Released ==
  IF pay.owner # NoOwner /\ pay.expired
  THEN [pay EXCEPT !.owner = NoOwner, !.expired = FALSE,
                   !.fulfillment = IF @ = "processing" THEN "retry" ELSE @,
                   !.status = IF pay.fulfillment = "processing" THEN "pending" ELSE @,
                   !.refund = IF @ = "processing" THEN "pending" ELSE @]
  ELSE pay

StartJob(w) ==
  /\ w \in Pollers \cup Reconcilers
  /\ At(w, "idle")
  /\ pay' = Released
  /\ Go(w, "select")
  /\ UNCHANGED <<told, World, Delivery, faults>>

(* _poll_batch picks the row, then reads the invoice unless it already     *)
(* knows it is paid.                                                       *)
(* Mutant: deliveries that failed are not among the candidates. *)
PollCandidateWithoutRetry ==
  /\ pay.owner = NoOwner
  /\ \/ pay.provider = "pending"
     \/ pay.provider = "succeeded" /\ pay.fulfillment \in {"pending", "blocked"}
  /\ pay.status # "refunded"

PollCandidate ==
  /\ pay.owner = NoOwner
  /\ \/ pay.provider = "pending"
     \/ pay.provider = "succeeded" /\ pay.fulfillment \in {"pending", "retry", "blocked"}
  /\ pay.status # "refunded"

PollSelect(w) ==
  /\ w \in Pollers
  /\ At(w, "select")
  /\ IF ~PollCandidate THEN Stop(w)
     ELSE IF pay.provider = "succeeded" THEN Go(w, "apply")
     ELSE ctx' = [ctx EXCEPT ![w].pc = "record", ![w].seen = remote]
  /\ UNCHANGED <<pay, told, World, Delivery, faults>>

(* Mutant: a refund that was attempted once is not looked at again. *)
ReconcileCandidateOnce ==
  /\ pay.provider = "succeeded" \/ pay.status \in {"succeeded", "refunded"}
  /\ pay.refund \notin {"pending", "completed"}
  /\ pay.owner = NoOwner

ReconcileCandidate ==
  /\ pay.provider = "succeeded" \/ pay.status \in {"succeeded", "refunded"}
  /\ pay.refund # "completed"
  /\ pay.owner = NoOwner

ReconcileSelect(w) ==
  /\ w \in Reconcilers
  /\ At(w, "select")
  /\ IF ReconcileCandidate THEN Go(w, "handle") ELSE Stop(w)
  /\ UNCHANGED <<pay, told, World, Delivery, faults>>

(* A webhook of either kind, late or repeated, makes its handler read the  *)
(* invoice (resolve_remote_payment).                                       *)
Webhook(w) ==
  /\ w \in Hooks
  /\ At(w, "idle")
  /\ \E kind \in Kinds :
       /\ kind = "refund" => remote.refunded > 0
       /\ ctx' = [ctx EXCEPT ![w].pc = "record", ![w].seen = remote, ![w].kind = kind]
  /\ UNCHANGED <<pay, told, World, Delivery, faults>>

(* _record_remote_refund: what was read may be older than what is stored.  *)
RecordRefund(w) ==
  /\ At(w, "record")
  /\ pay' = IF ctx[w].seen.status = "succeeded" /\ pay.refunded <= ctx[w].seen.refunded
            THEN [pay EXCEPT !.refunded = ctx[w].seen.refunded, !.provider = "succeeded"]
            ELSE pay
  /\ Go(w, IF ctx[w].kind = "refund" THEN "handle" ELSE "accept")
  /\ UNCHANGED <<told, World, Delivery, faults>>

(* accept_remote_status                                                    *)
Accept(w) ==
  /\ At(w, "accept")
  /\ \/ /\ ctx[w].seen.status = "succeeded"
        /\ pay' = [pay EXCEPT !.provider = "succeeded"]
        /\ Go(w, "apply")
        /\ UNCHANGED told
     \/ /\ ctx[w].seen.status = "canceled"
        /\ IF pay.provider # "succeeded" /\ pay.status \notin {"succeeded", "refunded", "cancelled"}
           THEN /\ pay' = [pay EXCEPT !.provider = "canceled", !.status = "cancelled"]
                /\ told' = [told EXCEPT !["cancelled"] = @ + 1]
           ELSE UNCHANGED <<pay, told>>
        /\ Stop(w)
     \/ /\ ctx[w].seen.status = "pending"
        /\ UNCHANGED <<pay, told>>
        /\ Stop(w)
  /\ UNCHANGED <<World, Delivery, faults>>

-----------------------------------------------------------------------------
(* apply_payment, up to the claim *)
Apply(w) ==
  /\ At(w, "apply")
  /\ IF pay.fulfillment = "succeeded" \/ pay.status \in {"succeeded", "refunded"}
     THEN Stop(w) /\ UNCHANGED pay
     ELSE /\ pay' = [pay EXCEPT !.provider = "succeeded"]
          /\ ctx' = [ctx EXCEPT ![w].pc = "claim", ![w].kind = "fulfillment"]
  /\ UNCHANGED <<told, World, Delivery, faults>>

(* handle_refund, up to the claim: the row is read, and the invoice again  *)
(* when the row does not show the whole amount returned.                   *)
Handle(w) ==
  /\ At(w, "handle")
  /\ IF \/ pay.refund = "completed"
        \/ pay.provider # "succeeded" /\ pay.status \notin {"succeeded", "refunded"}
     THEN Stop(w)
     ELSE IF pay.refunded < Price
     THEN ctx' = [ctx EXCEPT ![w].pc = "store", ![w].seen = remote]
     ELSE ctx' = [ctx EXCEPT ![w].pc = "claim", ![w].kind = "refund"]
  /\ UNCHANGED <<pay, told, World, Delivery, faults>>

StoreRefund(w) ==
  LET stored == IF pay.refunded <= ctx[w].seen.refunded
                THEN [pay EXCEPT !.refunded = ctx[w].seen.refunded, !.provider = "succeeded"]
                ELSE pay
  IN
  /\ At(w, "store")
  /\ IF ctx[w].seen.status # "succeeded"
     THEN Stop(w) /\ UNCHANGED pay
     ELSE /\ pay' = stored
          /\ IF stored.refunded = 0 THEN Stop(w)
             ELSE IF stored.refunded < Price THEN Go(w, "partial")
             ELSE ctx' = [ctx EXCEPT ![w].pc = "claim", ![w].kind = "refund"]
  /\ UNCHANGED <<told, World, Delivery, faults>>

PartialRefund(w) ==
  /\ At(w, "partial")
  /\ pay' = IF pay.refunded < Price /\ pay.refund \notin {"processing", "completed"}
            THEN [pay EXCEPT !.refund = "partial",
                             !.status = IF @ = "refunded" THEN "succeeded" ELSE @]
            ELSE pay
  /\ Stop(w)
  /\ UNCHANGED <<told, World, Delivery, faults>>

-----------------------------------------------------------------------------

(* _claim: one conditional UPDATE takes the row over.                      *)
Claimable(kind) ==
  /\ pay.owner = NoOwner
  /\ IF kind = "fulfillment" THEN pay.fulfillment # "succeeded" ELSE pay.refund # "completed"

Claimed(w, kind) ==
  IF kind = "fulfillment"
  THEN [pay EXCEPT !.owner = w, !.expired = FALSE,
                   !.fulfillment = "processing", !.status = "processing"]
  ELSE [pay EXCEPT !.owner = w, !.expired = FALSE, !.refund = "processing"]

Claim(w) ==
  /\ At(w, "claim")
  /\ IF ~Claimable(ctx[w].kind) THEN Stop(w) /\ UNCHANGED pay
     ELSE /\ pay' = Claimed(w, ctx[w].kind)
          /\ IF ctx[w].kind = "fulfillment" /\ ~readable
             THEN Conclude(w, "review")
             ELSE Go(w, "guard")
  /\ UNCHANGED <<told, World, Delivery, faults>>

(* _lease_where, and the two reasons for which guard() refuses delivery.   *)
Holds(w) == pay.owner = w /\ ~pay.expired
Barred(w) == ctx[w].kind = "fulfillment" /\ (blocked \/ pay.refunded >= Price)

(* guard() outside of the loop over the targets: a lost lease ends the     *)
(* work, a barred delivery is concluded as such.                           *)
Guarded(w, next) ==
  IF ~Holds(w) THEN Stop(w)
  ELSE IF Barred(w) THEN Conclude(w, "blocked")
  ELSE ctx' = next

Guard(w) ==
  /\ At(w, "guard")
  /\ Guarded(w, [ctx EXCEPT ![w].pc = IF ctx[w].kind = "refund" THEN "queue" ELSE "item",
                            ![w].todo = Targets])
  /\ UNCHANGED <<pay, told, World, Delivery, faults>>

(* revoke_source_operation stores the revocation before it runs it.        *)
QueueRevoke(w) ==
  /\ At(w, "queue")
  /\ revoking' = TRUE
  /\ Go(w, "item")
  /\ UNCHANGED <<pay, told, World, node, wire, faults>>

(* _run_claimed, the fence before each target.  What guard() raises here   *)
(* is caught by the loop and only fails this target; a newer operation of  *)
(* the same source ends the loop.                                          *)
ItemGuard(w) ==
  /\ At(w, "item")
  /\ \E t \in ctx[w].todo :
       IF ~Holds(w) \/ Barred(w)
       THEN ctx' = [ctx EXCEPT ![w].todo = @ \ {t}, ![w].failed = TRUE]
       ELSE IF ctx[w].kind = "fulfillment" /\ revoking
       THEN ctx' = [ctx EXCEPT ![w].todo = {}, ![w].failed = TRUE]
       ELSE ctx' = [ctx EXCEPT ![w].todo = @ \ {t}, ![w].pc = "call", ![w].target = t]
  /\ UNCHANGED <<pay, told, World, Delivery, faults>>

(* Mutant: a target executes whatever arrives last. *)
ExecutedInAnyOrder(kind, t) ==
  [node EXCEPT ![t] = IF kind = "refund" THEN "revoked" ELSE "granted"]

(* A revocation leaves a tombstone of a higher revision, which refuses     *)
(* every later grant.  A purchase that never reached the target cannot be  *)
(* revoked while another one of the same tariff has a client there.        *)
Refused(kind, t) ==
  \/ kind = "fulfillment" /\ node[t] = "revoked"
  \/ kind = "refund" /\ node[t] = "none" /\ t \in Renewed

(* What a target does with a call for this source.                         *)
Executed(kind, t) ==
  IF Refused(kind, t) THEN node
  ELSE [node EXCEPT ![t] = IF kind = "refund" THEN "revoked" ELSE "granted"]

Call(w) ==
  /\ At(w, "call")
  /\ node' = Executed(ctx[w].kind, ctx[w].target)
  /\ ctx' = [ctx EXCEPT ![w].pc = "item", ![w].target = NoTarget,
                        ![w].failed = @ \/ Refused(ctx[w].kind, ctx[w].target)]
  /\ UNCHANGED <<pay, told, World, wire, revoking, faults>>

(* The caller gives up; the node has executed the call, will, or never.    *)
CallFails(w) ==
  /\ At(w, "call")
  /\ Fault
  /\ \/ wire' = wire \cup {[kind |-> ctx[w].kind, target |-> ctx[w].target]}
     \/ UNCHANGED wire
  /\ ctx' = [ctx EXCEPT ![w].pc = "item", ![w].target = NoTarget, ![w].failed = TRUE]
  /\ UNCHANGED <<pay, told, World, node, revoking>>

LateCall(call) ==
  /\ call \in wire
  /\ node' = Executed(call.kind, call.target)
  /\ wire' = wire \ {call}
  /\ UNCHANGED <<pay, told, World, revoking, ctx, faults>>

(* Another run still has the operation: it answers with a failure for the  *)
(* whole call.                                                             *)
OperationBusy(w) ==
  /\ At(w, "item")
  /\ ctx[w].todo = Targets
  /\ Fault
  /\ ctx' = [ctx EXCEPT ![w].todo = {}, ![w].failed = TRUE]
  /\ UNCHANGED <<pay, told, World, Delivery>>

(* The lease of the operation itself ran out: _run_claimed raises.         *)
OperationLost(w) ==
  /\ At(w, "item") \/ At(w, "fence") \/ At(w, "complete")
  /\ Fault
  /\ Conclude(w, IF ctx[w].kind = "refund" THEN "error" ELSE "retry")
  /\ UNCHANGED <<pay, told, World, Delivery>>

(* Mutant: failed targets are not reported. *)
ReturnIgnoresFailures(w) ==
  /\ At(w, "item")
  /\ ctx[w].todo = {}
  /\ Go(w, "fence")
  /\ UNCHANGED <<pay, told, World, Delivery, faults>>

(* After the last target.  apply_grant raises when a target failed;        *)
(* a revocation reports the failures and goes on.                          *)
Return(w) ==
  /\ At(w, "item")
  /\ ctx[w].todo = {}
  /\ IF ~ctx[w].failed THEN Go(w, "fence")
     ELSE IF ctx[w].kind = "fulfillment" THEN Conclude(w, "retry")
     ELSE ctx' = [ctx EXCEPT ![w].pc = "guard2", ![w].out = "pending"]
  /\ UNCHANGED <<pay, told, World, Delivery, faults>>

Fence(w) ==
  /\ At(w, "fence")
  /\ Guarded(w, [ctx EXCEPT ![w].pc = "complete"])
  /\ UNCHANGED <<pay, told, World, Delivery, faults>>

(* The operation's own checks (_guard, then _complete): a user blocked, or *)
(* a revocation stored, since the last check is a ValueError in the one, a *)
(* RuntimeError in the other.                                              *)
Complete(w) ==
  /\ At(w, "complete")
  /\ IF ctx[w].kind = "refund"
     THEN ctx' = [ctx EXCEPT ![w].pc = "guard2", ![w].out = "completed"]
     ELSE IF blocked \/ revoking THEN \E out \in {"review", "retry"} : Conclude(w, out)
     ELSE ctx' = [ctx EXCEPT ![w].pc = "guard2", ![w].out = "succeeded"]
  /\ UNCHANGED <<pay, told, World, Delivery, faults>>

SecondGuard(w) ==
  /\ At(w, "guard2")
  /\ Guarded(w, [ctx EXCEPT ![w].pc = "finish"])
  /\ UNCHANGED <<pay, told, World, Delivery, faults>>

(* _finish: the outcome, the release of the row and the bot event commit   *)
(* together, and only for the process that still holds the lease.          *)

Outcome(out) ==
  CASE out = "succeeded" -> [pay EXCEPT !.status = "succeeded", !.fulfillment = "succeeded"]
    [] out \in {"blocked", "review", "retry"} -> [pay EXCEPT !.status = "pending", !.fulfillment = out]
    [] out \in {"completed", "pending"} -> [pay EXCEPT !.status = "refunded", !.refund = out]
    [] out = "error" -> [pay EXCEPT !.refund = "pending"]

(* Mutant: a refund is announced whether or not it reached every target. *)
AnnounceEarly(out) ==
  CASE out = "succeeded" -> [told EXCEPT !["succeeded"] = @ + 1]
    [] out \in {"completed", "pending"} -> [told EXCEPT !["refunded"] = @ + 1]
    [] OTHER -> told

Announce(out) ==
  CASE out = "succeeded" -> [told EXCEPT !["succeeded"] = @ + 1]
    [] out = "completed" -> [told EXCEPT !["refunded"] = @ + 1]
    [] OTHER -> told

Finish(w) ==
  /\ At(w, "finish")
  /\ IF Holds(w)
     THEN /\ pay' = [Outcome(ctx[w].out) EXCEPT !.owner = NoOwner, !.expired = FALSE]
          /\ told' = Announce(ctx[w].out)
     ELSE UNCHANGED <<pay, told>>
  /\ Stop(w)
  /\ UNCHANGED <<World, Delivery, faults>>

-----------------------------------------------------------------------------
(* A process dies anywhere, or the provider does not answer it; its row    *)
(* stays claimed until the lease runs out, and a call it had sent may      *)
(* still be executed.                                                      *)
Crash(w) ==
  /\ ctx[w].pc # "idle"
  /\ Fault
  /\ \/ At(w, "call") /\ wire' = wire \cup {[kind |-> ctx[w].kind, target |-> ctx[w].target]}
     \/ UNCHANGED wire
  /\ Stop(w)
  /\ UNCHANGED <<pay, told, World, node, revoking>>

(* Who claimed the row is still at work on it, its heartbeat renewing the  *)
(* lease; a heartbeat that fails stops for good.                           *)
Working == {"guard", "queue", "item", "call", "fence", "complete", "guard2", "finish"}
AtWork(w) == ctx[w].pc \in Working

ExpireLease ==
  /\ pay.owner # NoOwner
  /\ ~pay.expired
  /\ IF AtWork(pay.owner) THEN Fault ELSE UNCHANGED faults
  /\ pay' = [pay EXCEPT !.expired = TRUE]
  /\ UNCHANGED <<told, World, Delivery, ctx>>

-----------------------------------------------------------------------------
(* Every step of a process short of a failure. *)
Work(w) ==
  \/ PollSelect(w) \/ ReconcileSelect(w) \/ RecordRefund(w) \/ Accept(w)
  \/ Apply(w) \/ Handle(w) \/ StoreRefund(w) \/ PartialRefund(w)
  \/ Claim(w) \/ Guard(w) \/ QueueRevoke(w) \/ ItemGuard(w) \/ Call(w) \/ Return(w)
  \/ Fence(w) \/ Complete(w) \/ SecondGuard(w) \/ Finish(w)

Next ==
  \/ \E outcome \in {"succeeded", "canceled"} : Settle(outcome)
  \/ RefundAtProvider
  \/ SetBlocked
  \/ ExpireLease
  \/ \E w \in Workers :
       \/ StartJob(w) \/ Webhook(w) \/ Work(w)
       \/ CallFails(w) \/ OperationBusy(w) \/ OperationLost(w) \/ Crash(w)
  \/ \E call \in wire : LateCall(call)

Spec == Init /\ [][Next]_vars

(* The scheduler starts the jobs again and again, a started process goes   *)
(* on unless it fails, and a lease nobody renews runs out.  Webhooks need  *)
(* not arrive and late calls need not be executed.                         *)
(* The poller owns the row for moments of its 30 seconds: the strong       *)
(* conjuncts say that the reconciler does not run in lockstep with it,     *)
(* meeting an owned row at every one of its own steps for ever.            *)
Unhindered(A) == A /\ pay.owner = NoOwner

Fairness ==
  /\ \A w \in Workers : WF_vars(Work(w))
  /\ \A w \in Pollers \cup Reconcilers : WF_vars(StartJob(w))
  /\ \A w \in Reconcilers :
       /\ SF_vars(Unhindered(StartJob(w)))
       /\ SF_vars(Unhindered(ReconcileSelect(w)))
       /\ SF_vars(Unhindered(Handle(w)))
       /\ SF_vars(Unhindered(StoreRefund(w)))
       /\ SF_vars(Unhindered(Claim(w)))
  /\ WF_vars(ExpireLease)

FairSpec == Spec /\ Fairness

-----------------------------------------------------------------------------
(* The payment as its user sees it. *)
Money ==
  CASE remote.status = "pending" -> "open"
    [] remote.status = "canceled" -> "canceled"
    [] OTHER -> IF remote.refunded = Price THEN "returned" ELSE "paid"

Promise == INSTANCE PaymentPromise WITH money <- Money, access <- node, heard <- told

(* A target as its contract with the master describes it, for the one      *)
(* source that is the payment: it is given at revision 0 and withdrawn at  *)
(* revision 1.  The state of the account is not told apart here.           *)
HeldAt(n) ==
  CASE n = "none" -> [state |-> "none", rev |-> 0]
    [] n = "granted" -> [state |-> "given", rev |-> 0]
    [] OTHER -> [state |-> "withdrawn", rev |-> 1]
Target(t) ==
  INSTANCE NodeContract WITH
    Sources <- {"pay"}, Revisions <- {0, 1}, Decisions <- {0},
    held <- [s \in {"pay"} |-> HeldAt(node[t])],
    account <- [rev |-> 0, blocked |-> FALSE]

-----------------------------------------------------------------------------
(* Properties *)

(* The processes, leases, retries and lost calls keep the promise made to  *)
(* the user (billing.py as a whole): every step is one of its steps, or    *)
(* invisible.                                                              *)
KeepsPromise == Promise!Spec

(* What deliveries, refunds, retries and late calls take a target to do is *)
(* what its contract lets it do (entitlements.py), target by target.       *)
TargetsKeepContract ==
  /\ \A t \in Targets : Target(t)!Init
  /\ [][\A t \in Targets : node'[t] = node[t] \/ Target(t)!Next \/ UNCHANGED Target(t)!cvars]_node

(* The user is told of the outcome of a payment at most once per outcome,  *)
(* whatever the number of webhooks, polls and lease takeovers that settle  *)
(* it (_claim and _finish).                                                *)
ToldOnce ==
  /\ told["succeeded"] = IF pay.fulfillment = "succeeded" THEN 1 ELSE 0
  /\ told["refunded"] = IF pay.refund = "completed" THEN 1 ELSE 0
  /\ told["cancelled"] <= 1

(* No target holds access for an invoice the provider does not report as   *)
(* paid, and none loses it before the provider returned the whole amount.  *)
AccessFollowsMoney ==
  \A t \in Targets :
    /\ node[t] # "none" => remote.status = "succeeded"
    /\ node[t] = "revoked" => remote.refunded = Price

(* A refund is completed only when no target grants access any more: no    *)
(* claim that was taken over, no late call and no retry brings it back.    *)
RefundRevokes ==
  pay.refund = "completed" => \A t \in Targets : node[t] = "revoked"

(* A payment counts as delivered only when every target received it.       *)
SuccessDelivers ==
  pay.fulfillment = "succeeded" => \A t \in Targets : node[t] # "none"

(* What the row says of the provider is never ahead of it, and never goes  *)
(* back, in whatever order the answers of the provider are processed.      *)
RowFollowsProvider ==
  /\ pay.provider = "succeeded" => remote.status = "succeeded"
  /\ pay.refunded <= remote.refunded

(* What the row has learned is never unlearned by a step, late or not: how *)
(* much was returned, that it was paid, that it was delivered or revoked   *)
(* (_record_remote_refund, _claim, release_stranded_claims, _finish).      *)
MoneyNeverForgotten ==
  [][ /\ pay'.refunded >= pay.refunded
      /\ pay.provider = "succeeded" => pay'.provider = "succeeded"
      /\ pay.refund = "completed" => pay'.refund = "completed"
      /\ pay.fulfillment = "succeeded" => pay'.fulfillment = "succeeded" ]_pay

(* Whoever stops, crashes or loses its lease at whatever step leaves a row *)
(* that somebody owns, so it is released, or one that shows no work under  *)
(* way, so a job takes it up (_claim, _finish, release_stranded_claims).   *)
NeverStranded ==
  /\ pay.owner = NoOwner => /\ pay.fulfillment # "processing" /\ pay.refund # "processing"
                            /\ pay.status # "processing"
  /\ pay.owner # NoOwner => (pay.fulfillment = "processing" <=> pay.refund # "processing")

(* A payment that is paid, not refunded in full, whose terms are readable  *)
(* and whose user is not blocked for good is delivered in the end, unless  *)
(* it is put aside for review, webhooks or not.                            *)
PaidIsDelivered ==
  (<>[](remote.status = "succeeded" /\ remote.refunded < Price /\ readable /\ ~blocked))
    => <>(pay.fulfillment \in {"succeeded", "review"})

(* A payment whose whole amount the provider returned loses its access in  *)
(* the end, webhooks or not, delivered or in the middle of its delivery,   *)
(* if no target refuses the revocation.                                    *)
ReturnedIsRevoked ==
  Renewed = {} => [](remote.refunded = Price => <>(pay.refund = "completed"))

(* The reconciler brings every refund to its end (reconcile_refunds).      *)
(* The code does not keep this: see the known divergences in the README.    *)
EveryRefundConcludes ==
  [](remote.refunded = Price => <>(pay.refund = "completed"))

(* "refunded" is a terminal status of a payment.                           *)
(* The code does not keep this: see the known divergences in the README.    *)
RefundedIsTerminal ==
  pay.refund = "completed" => pay.status = "refunded"

-----------------------------------------------------------------------------
(* The inductive invariant: what every process knows where it stands. *)

(* What the context c of a process can be at each of its steps.            *)
Stage(c) ==
  /\ c.pc \in Working \cup {"claim"} => c.kind \in Kinds
  /\ c.pc = "queue" => c.kind = "refund"
  /\ IF c.pc = "call" THEN c.target \in Targets ELSE c.target = NoTarget
  /\ c.pc \in {"guard2", "finish"} =>
       c.out \in IF c.kind = "refund" THEN {"completed", "pending", "error"}
                 ELSE {"succeeded", "blocked", "review", "retry"}

StageInv == \A w \in Workers : Stage(ctx[w])

(* What a process has read of the provider, or concluded from the row,     *)
(* stays true: it only learns of final states.                             *)
Knows(w) ==
  /\ ctx[w].seen.status # "pending" => remote.status = ctx[w].seen.status
  /\ ctx[w].seen.refunded <= remote.refunded
  /\ ctx[w].pc \in Working \cup {"apply", "claim"} => remote.status = "succeeded"
  /\ ctx[w].pc \in Working \cup {"claim"} /\ ctx[w].kind = "refund" => remote.refunded = Price

(* Whoever owns the row and is at work on it left its mark there.          *)
Marked(w) ==
  AtWork(w) /\ pay.owner = w =>
    IF ctx[w].kind = "refund" THEN pay.refund = "processing"
    ELSE pay.fulfillment = "processing"

Served(kind, t) == IF kind = "refund" THEN node[t] = "revoked" ELSE node[t] # "none"

(* What a process has done so far, and what its verdict rests on.          *)
Done(w) ==
  /\ ctx[w].pc \in {"queue", "item", "call"} /\ ~ctx[w].failed =>
       \A t \in Targets \ (ctx[w].todo \cup {ctx[w].target}) : Served(ctx[w].kind, t)
  /\ ctx[w].pc \in {"fence", "complete"} => \A t \in Targets : Served(ctx[w].kind, t)
  /\ ctx[w].pc \in {"guard2", "finish"} /\ ctx[w].out \in {"succeeded", "completed"} =>
       \A t \in Targets : Served(ctx[w].kind, t)

(* The row says nothing of the provider that is not so, and nothing is     *)
(* done for an invoice that is not paid.                                   *)
PaidInv ==
  /\ remote.refunded > 0 => remote.status = "succeeded"
  /\ pay.provider # "pending" => remote.status = pay.provider
  /\ pay.refunded <= remote.refunded
  /\ pay.status = "cancelled" => remote.status = "canceled"
  /\ pay.status \in {"processing", "succeeded", "refunded"} => remote.status = "succeeded"
  /\ pay.fulfillment # "pending" => remote.status = "succeeded"
  /\ wire # {} => remote.status = "succeeded"
  /\ \A t \in Targets : node[t] # "none" => remote.status = "succeeded"

(* A revocation is only under way for an invoice returned in full.         *)
ReturnedInv ==
  /\ revoking => remote.refunded = Price
  /\ \A call \in wire : call.kind = "refund" => remote.refunded = Price
  /\ \A t \in Targets : node[t] = "revoked" => remote.refunded = Price

(* A cancellation that was announced is still there.                       *)
CancelInv ==
  told["cancelled"] = IF pay.status = "cancelled" THEN 1 ELSE 0

RowInv ==
  PaidInv /\ ReturnedInv /\ CancelInv /\ ToldOnce /\ RefundRevokes /\ SuccessDelivers

PaymentInv ==
  /\ StageInv
  /\ \A w \in Workers : Knows(w) /\ Marked(w) /\ Done(w)
  /\ RowInv
=============================================================================
