--------------------------- MODULE PaymentProofs ---------------------------
(***************************************************************************)
(* The safety of Payment, for any number of processes, targets, faults and *)
(* any price: type correctness; the invariant, for which a process w is    *)
(* looked at by itself, Kept(w) saying what the others may rely on while w *)
(* makes a step, so that each action is left with what w itself knows      *)
(* afterwards and with the row; that Payment implements PaymentPromise:    *)
(* every step of its processes is a step of the promise, or changes        *)
(* nothing the user can see; and that each target moves only as            *)
(* NodeContract lets a node move.                                          *)
(***************************************************************************)
EXTENDS Payment, TLAPS

-----------------------------------------------------------------------------
(* Types.  A process needs more than its types to be kept: only at some    *)
(* steps has it a target to call or a verdict to write.                    *)

TypeInv == TypeOK /\ StageInv
Local == {c \in Context : Stage(c)}

(* Released yields a row.                                                  *)
LEMMA ReleasedType == ASSUME pay \in PayRow PROVE Released \in PayRow
  BY DEF Released, PayRow

(* A claim yields a row.                                                   *)
LEMMA ClaimedType ==
  ASSUME pay \in PayRow, NEW w \in Workers, NEW kind PROVE Claimed(w, kind) \in PayRow
  BY DEF Claimed, PayRow

(* What a process has seen of the provider.                                *)
LEMMA SeenType ==
  ASSUME TypeInv, NEW w \in Workers
  PROVE  /\ ctx[w].seen.status \in {"pending", "succeeded", "canceled"}
         /\ ctx[w].seen.refunded \in 0..Price
  BY DEF TypeInv, TypeOK, Context, Observation

(* The row after _finish is a row, whatever the verdict.                   *)
LEMMA OutcomeType ==
  ASSUME pay \in PayRow, NEW out \in Verdicts
  PROVE  [Outcome(out) EXCEPT !.owner = NoOwner, !.expired = FALSE] \in PayRow
  BY DEF Outcome, PayRow, Verdicts

(* Announce keeps the counters natural numbers.                            *)
LEMMA AnnounceType ==
  ASSUME told \in [{"succeeded", "refunded", "cancelled"} -> Nat], NEW out
  PROVE  Announce(out) \in [{"succeeded", "refunded", "cancelled"} -> Nat]
  BY DEF Announce

(* A context stays one when its fields change within their types: the step *)
(* it stands at, with what it claims, and with the verdict it has reached. *)
LEMMA StepFits ==
  ASSUME NEW c \in Context, NEW pc \in Steps
  PROVE  [c EXCEPT !.pc = pc] \in Context
  BY DEF Context

LEMMA KindFits ==
  ASSUME NEW c \in Context, NEW pc \in Steps, NEW kind \in Kinds
  PROVE  [c EXCEPT !.pc = pc, !.kind = kind] \in Context
  BY DEF Context

LEMMA VerdictFits ==
  ASSUME NEW c \in Context, NEW pc \in {"finish", "guard2"}, NEW out \in Verdicts
  PROVE  [c EXCEPT !.pc = pc, !.out = out] \in Context
<1>1. pc \in Steps
  BY DEF Steps
<1> QED BY <1>1 DEF Context

(* The targets left to do, and whether one failed, change within a context. *)
LEMMA TodoFits ==
  ASSUME NEW c \in Context, NEW todo \in SUBSET Targets, NEW failed \in BOOLEAN
  PROVE  [c EXCEPT !.todo = todo, !.failed = failed] \in Context
  BY DEF Context

(* A call is made to one of the targets left to do.                        *)
LEMMA TargetFits ==
  ASSUME NEW c \in Context, NEW todo \in SUBSET Targets, NEW target \in Targets
  PROVE  [c EXCEPT !.todo = todo, !.pc = "call", !.target = target] \in Context
  BY DEF Context, Steps

(* The reply to a call takes the context back to its loop.                 *)
LEMMA ReplyFits ==
  ASSUME NEW c \in Context, NEW failed \in BOOLEAN
  PROVE  [c EXCEPT !.pc = "item", !.target = NoTarget, !.failed = failed] \in Context
  BY DEF Context, Steps

(* A stopped process has a context of its own.                             *)
LEMMA IdleLocal == Idle \in Local
  BY PriceAssumption
     DEF Idle, Local, Stage, Context, Unseen, Observation, Kinds, Steps, Working, Verdicts

(* A process moves by writing a sound context into its place.              *)
LEMMA MoveType ==
  ASSUME TypeInv, NEW w \in Workers, NEW c \in Context, Stage(c), ctx' = [ctx EXCEPT ![w] = c]
  PROVE  ctx' \in [Workers -> Local]
  BY DEF TypeInv, TypeOK, StageInv, Local

(* A process that stops leaves the types as they are.                      *)
LEMMA StopType ==
  ASSUME TypeInv, NEW w \in Workers, Stop(w) PROVE ctx' \in [Workers -> Local]
  BY IdleLocal, MoveType DEF Stop, Local

(* A conclusion that fits the kind of work, reached from any step of it.   *)
LEMMA ConcludeType ==
  ASSUME TypeInv, NEW w \in Workers, ctx[w].pc \in Working \cup {"claim"},
         NEW out \in IF ctx[w].kind = "refund" THEN {"completed", "pending", "error"}
                     ELSE {"succeeded", "blocked", "review", "retry"},
         Conclude(w, out), ctx[w].target = NoTarget
  PROVE  ctx' \in [Workers -> Local]
<1>0. out \in Verdicts
  BY DEF Verdicts
<1>1. [ctx[w] EXCEPT !.pc = "finish", !.out = out] \in Context
  BY <1>0, VerdictFits DEF TypeInv, TypeOK
<1>2. Stage([ctx[w] EXCEPT !.pc = "finish", !.out = out])
  BY DEF TypeInv, TypeOK, Context, StageInv, Stage, Working
<1>3. ctx' = [ctx EXCEPT ![w] = [ctx[w] EXCEPT !.pc = "finish", !.out = out]]
  BY DEF Conclude
<1> QED BY <1>1, <1>2, <1>3, MoveType

(* guard() stops the process, concludes its work, or lets it go on.        *)
LEMMA GuardedType ==
  ASSUME TypeInv, NEW w \in Workers, NEW next \in [Workers -> Local],
         ctx[w].pc \in Working \ {"call"}, Guarded(w, next)
  PROVE  ctx' \in [Workers -> Local]
<1>1. ctx[w].target = NoTarget
  BY DEF TypeInv, StageInv, Stage
<1> QED BY <1>1, StopType, ConcludeType DEF Guarded, Barred

(* The step of an action in which only the contexts change.                *)
LEMMA LocalType ==
  ASSUME TypeInv, ctx' \in [Workers -> Local],
         UNCHANGED <<pay, told, World, Delivery>>, faults' \in Nat
  PROVE  TypeInv'
  BY DEF TypeInv, TypeOK, StageInv, Local, World, Delivery

(* Every reachable state has the types the code's columns and locals have, *)
(* and no process is at a step it has no data for.                         *)
LEMMA Typing == Spec => []TypeInv
<1>1. Init => TypeInv
  <2> SUFFICES ASSUME Init PROVE TypeInv
    OBVIOUS
  <2>1. ctx \in [Workers -> Local]
    BY IdleLocal DEF Init
  <2>2. remote \in Observation
    BY PriceAssumption DEF Init, Unseen, Observation
  <2>3. pay \in PayRow
    BY PriceAssumption DEF Init, PayRow
  <2> QED
    BY <2>1, <2>2, <2>3 DEF Init, TypeInv, TypeOK, StageInv, Local
<1>2. TypeInv /\ [Next]_vars => TypeInv'
  <2> SUFFICES ASSUME TypeInv, [Next]_vars PROVE TypeInv'
    OBVIOUS
  <2>0. CASE UNCHANGED vars
    BY <2>0 DEF TypeInv, TypeOK, StageInv, vars
  <2>1. ASSUME NEW outcome \in {"succeeded", "canceled"}, Settle(outcome) PROVE TypeInv'
    BY <2>1 DEF TypeInv, TypeOK, StageInv, Settle, Observation, Delivery
  <2>2. CASE RefundAtProvider
    BY <2>2, PriceAssumption DEF TypeInv, TypeOK, StageInv, RefundAtProvider, Observation, Delivery
  <2>3. CASE SetBlocked
    BY <2>3 DEF TypeInv, TypeOK, StageInv, SetBlocked, Delivery
  <2>4. CASE ExpireLease
    <3>1. pay' \in PayRow
      BY <2>4 DEF TypeInv, TypeOK, ExpireLease, PayRow
    <3> QED
      BY <2>4, <3>1 DEF TypeInv, TypeOK, StageInv, ExpireLease, Fault, World, Delivery
  <2>5. ASSUME NEW w \in Workers, StartJob(w) PROVE TypeInv'
    <3>1. ctx' \in [Workers -> Local]
      <4>1. ASSUME ctx' = [ctx EXCEPT ![w].pc = "select"] PROVE ctx' \in [Workers -> Local]
        <5>1. [ctx[w] EXCEPT !.pc = "select"] \in Context
          BY StepFits DEF TypeInv, TypeOK, Steps
        <5>2. Stage([ctx[w] EXCEPT !.pc = "select"])
          BY <2>5 DEF StartJob, At, TypeInv, TypeOK, StageInv, Stage, Context, Working, Kinds
        <5>3. ctx' = [ctx EXCEPT ![w] = [ctx[w] EXCEPT !.pc = "select"]]
          BY <4>1
        <5> QED BY <5>1, <5>2, <5>3, MoveType
      <4> QED BY <2>5, <4>1, StopType DEF StartJob, Go
    <3>2. pay' \in PayRow
      BY <2>5, ReleasedType DEF TypeInv, TypeOK, StartJob
    <3> QED
      BY <2>5, <3>1, <3>2 DEF TypeInv, TypeOK, StageInv, Local, StartJob, World, Delivery, Fault
  <2>6. ASSUME NEW w \in Workers, Webhook(w) PROVE TypeInv'
    <3>1. PICK kind \in Kinds : ctx' = [ctx EXCEPT ![w].pc = "record", ![w].seen = remote, ![w].kind = kind]
      BY <2>6 DEF Webhook
    <3> DEFINE c == [ctx[w] EXCEPT !.pc = "record", !.seen = remote, !.kind = kind]
    <3>2. c \in Context
      BY DEF TypeInv, TypeOK, Context, Steps
    <3>3. Stage(c)
      BY <2>6 DEF Webhook, At, TypeInv, TypeOK, StageInv, Stage, Context, Working, Kinds
    <3>4. ctx' = [ctx EXCEPT ![w] = c]
      BY <3>1
    <3>5. ctx' \in [Workers -> Local]
      BY <3>2, <3>3, <3>4, MoveType
    <3> QED
      BY <2>6, <3>5, LocalType DEF Webhook, Delivery, TypeInv, TypeOK
  <2>7. ASSUME NEW w \in Workers, PollSelect(w) PROVE TypeInv'
    <3>1. ctx' \in [Workers -> Local]
      <4>1. ASSUME ctx' = [ctx EXCEPT ![w].pc = "apply"] PROVE ctx' \in [Workers -> Local]
        <5>1. [ctx[w] EXCEPT !.pc = "apply"] \in Context
          BY StepFits DEF TypeInv, TypeOK, Steps
        <5>2. Stage([ctx[w] EXCEPT !.pc = "apply"])
          BY <2>7 DEF PollSelect, At, TypeInv, TypeOK, StageInv, Stage, Context, Working, Kinds
        <5>3. ctx' = [ctx EXCEPT ![w] = [ctx[w] EXCEPT !.pc = "apply"]]
          BY <4>1
        <5> QED BY <5>1, <5>2, <5>3, MoveType
      <4>2. ASSUME ctx' = [ctx EXCEPT ![w].pc = "record", ![w].seen = remote] PROVE ctx' \in [Workers -> Local]
        <5>1. [ctx[w] EXCEPT !.pc = "record", !.seen = remote] \in Context
          BY DEF TypeInv, TypeOK, Context, Steps
        <5>2. Stage([ctx[w] EXCEPT !.pc = "record", !.seen = remote])
          BY <2>7 DEF PollSelect, At, TypeInv, TypeOK, StageInv, Stage, Context, Working, Kinds
        <5>3. ctx' = [ctx EXCEPT ![w] = [ctx[w] EXCEPT !.pc = "record", !.seen = remote]]
          BY <4>2
        <5> QED BY <5>1, <5>2, <5>3, MoveType
      <4> QED BY <2>7, <4>1, <4>2, StopType DEF PollSelect, Go
    <3> QED
      BY <2>7, <3>1, LocalType DEF PollSelect, Delivery, Fault, TypeInv, TypeOK
  <2>8. ASSUME NEW w \in Workers, ReconcileSelect(w) PROVE TypeInv'
    <3>1. ctx' \in [Workers -> Local]
      <4>1. ASSUME ctx' = [ctx EXCEPT ![w].pc = "handle"] PROVE ctx' \in [Workers -> Local]
        <5>1. [ctx[w] EXCEPT !.pc = "handle"] \in Context
          BY StepFits DEF TypeInv, TypeOK, Steps
        <5>2. Stage([ctx[w] EXCEPT !.pc = "handle"])
          BY <2>8 DEF ReconcileSelect, At, TypeInv, TypeOK, StageInv, Stage, Context, Working, Kinds
        <5>3. ctx' = [ctx EXCEPT ![w] = [ctx[w] EXCEPT !.pc = "handle"]]
          BY <4>1
        <5> QED BY <5>1, <5>2, <5>3, MoveType
      <4> QED BY <2>8, <4>1, StopType DEF ReconcileSelect, Go
    <3> QED
      BY <2>8, <3>1, LocalType DEF ReconcileSelect, Delivery, Fault, TypeInv, TypeOK
  <2>9. ASSUME NEW w \in Workers, RecordRefund(w) PROVE TypeInv'
    <3>1. ctx' \in [Workers -> Local]
      <4>1. ASSUME ctx' = [ctx EXCEPT ![w].pc = "handle"] PROVE ctx' \in [Workers -> Local]
        <5>1. [ctx[w] EXCEPT !.pc = "handle"] \in Context
          BY StepFits DEF TypeInv, TypeOK, Steps
        <5>2. Stage([ctx[w] EXCEPT !.pc = "handle"])
          BY <2>9 DEF RecordRefund, At, TypeInv, TypeOK, StageInv, Stage, Context, Working, Kinds
        <5>3. ctx' = [ctx EXCEPT ![w] = [ctx[w] EXCEPT !.pc = "handle"]]
          BY <4>1
        <5> QED BY <5>1, <5>2, <5>3, MoveType
      <4>2. ASSUME ctx' = [ctx EXCEPT ![w].pc = "accept"] PROVE ctx' \in [Workers -> Local]
        <5>1. [ctx[w] EXCEPT !.pc = "accept"] \in Context
          BY StepFits DEF TypeInv, TypeOK, Steps
        <5>2. Stage([ctx[w] EXCEPT !.pc = "accept"])
          BY <2>9 DEF RecordRefund, At, TypeInv, TypeOK, StageInv, Stage, Context, Working, Kinds
        <5>3. ctx' = [ctx EXCEPT ![w] = [ctx[w] EXCEPT !.pc = "accept"]]
          BY <4>2
        <5> QED BY <5>1, <5>2, <5>3, MoveType
      <4> QED BY <2>9, <4>1, <4>2, StopType DEF RecordRefund, Go
    <3>2. pay' \in PayRow
      BY <2>9, SeenType DEF TypeInv, TypeOK, RecordRefund, PayRow
    <3> QED
      BY <2>9, <3>1, <3>2 DEF TypeInv, TypeOK, StageInv, Local, RecordRefund, World, Delivery, Fault
  <2>10. ASSUME NEW w \in Workers, Accept(w) PROVE TypeInv'
    <3>1. ctx' \in [Workers -> Local]
      <4>1. ASSUME ctx' = [ctx EXCEPT ![w].pc = "apply"] PROVE ctx' \in [Workers -> Local]
        <5>1. [ctx[w] EXCEPT !.pc = "apply"] \in Context
          BY StepFits DEF TypeInv, TypeOK, Steps
        <5>2. Stage([ctx[w] EXCEPT !.pc = "apply"])
          BY <2>10 DEF Accept, At, TypeInv, TypeOK, StageInv, Stage, Context, Working, Kinds
        <5>3. ctx' = [ctx EXCEPT ![w] = [ctx[w] EXCEPT !.pc = "apply"]]
          BY <4>1
        <5> QED BY <5>1, <5>2, <5>3, MoveType
      <4> QED BY <2>10, <4>1, StopType DEF Accept, Go
    <3>2. pay' \in PayRow
      BY <2>10 DEF TypeInv, TypeOK, Accept, PayRow
    <3>3. told' \in [{"succeeded", "refunded", "cancelled"} -> Nat]
      BY <2>10 DEF TypeInv, TypeOK, Accept
    <3> QED
      BY <2>10, <3>1, <3>2, <3>3 DEF TypeInv, TypeOK, StageInv, Local, Accept, World, Delivery, Fault
  <2>11. ASSUME NEW w \in Workers, Apply(w) PROVE TypeInv'
    <3>1. ctx' \in [Workers -> Local]
      <4>1. ASSUME ctx' = [ctx EXCEPT ![w].pc = "claim", ![w].kind = "fulfillment"] PROVE ctx' \in [Workers -> Local]
        <5>1. [ctx[w] EXCEPT !.pc = "claim", !.kind = "fulfillment"] \in Context
          BY KindFits DEF TypeInv, TypeOK, Steps, Kinds
        <5>2. Stage([ctx[w] EXCEPT !.pc = "claim", !.kind = "fulfillment"])
          BY <2>11 DEF Apply, At, TypeInv, TypeOK, StageInv, Stage, Context, Working, Kinds
        <5>3. ctx' = [ctx EXCEPT ![w] = [ctx[w] EXCEPT !.pc = "claim", !.kind = "fulfillment"]]
          BY <4>1
        <5> QED BY <5>1, <5>2, <5>3, MoveType
      <4> QED BY <2>11, <4>1, StopType DEF Apply, Go
    <3>2. pay' \in PayRow
      BY <2>11 DEF TypeInv, TypeOK, Apply, PayRow
    <3> QED
      BY <2>11, <3>1, <3>2 DEF TypeInv, TypeOK, StageInv, Local, Apply, World, Delivery, Fault
  <2>12. ASSUME NEW w \in Workers, Handle(w) PROVE TypeInv'
    <3>1. ctx' \in [Workers -> Local]
      <4>1. ASSUME ctx' = [ctx EXCEPT ![w].pc = "store", ![w].seen = remote] PROVE ctx' \in [Workers -> Local]
        <5>1. [ctx[w] EXCEPT !.pc = "store", !.seen = remote] \in Context
          BY DEF TypeInv, TypeOK, Context, Steps
        <5>2. Stage([ctx[w] EXCEPT !.pc = "store", !.seen = remote])
          BY <2>12 DEF Handle, At, TypeInv, TypeOK, StageInv, Stage, Context, Working, Kinds
        <5>3. ctx' = [ctx EXCEPT ![w] = [ctx[w] EXCEPT !.pc = "store", !.seen = remote]]
          BY <4>1
        <5> QED BY <5>1, <5>2, <5>3, MoveType
      <4>2. ASSUME ctx' = [ctx EXCEPT ![w].pc = "claim", ![w].kind = "refund"] PROVE ctx' \in [Workers -> Local]
        <5>1. [ctx[w] EXCEPT !.pc = "claim", !.kind = "refund"] \in Context
          BY KindFits DEF TypeInv, TypeOK, Steps, Kinds
        <5>2. Stage([ctx[w] EXCEPT !.pc = "claim", !.kind = "refund"])
          BY <2>12 DEF Handle, At, TypeInv, TypeOK, StageInv, Stage, Context, Working, Kinds
        <5>3. ctx' = [ctx EXCEPT ![w] = [ctx[w] EXCEPT !.pc = "claim", !.kind = "refund"]]
          BY <4>2
        <5> QED BY <5>1, <5>2, <5>3, MoveType
      <4> QED BY <2>12, <4>1, <4>2, StopType DEF Handle, Go
    <3> QED
      BY <2>12, <3>1, LocalType DEF Handle, Delivery, Fault, TypeInv, TypeOK
  <2>13. ASSUME NEW w \in Workers, StoreRefund(w) PROVE TypeInv'
    <3>1. ctx' \in [Workers -> Local]
      <4>1. ASSUME ctx' = [ctx EXCEPT ![w].pc = "partial"] PROVE ctx' \in [Workers -> Local]
        <5>1. [ctx[w] EXCEPT !.pc = "partial"] \in Context
          BY StepFits DEF TypeInv, TypeOK, Steps
        <5>2. Stage([ctx[w] EXCEPT !.pc = "partial"])
          BY <2>13 DEF StoreRefund, At, TypeInv, TypeOK, StageInv, Stage, Context, Working, Kinds
        <5>3. ctx' = [ctx EXCEPT ![w] = [ctx[w] EXCEPT !.pc = "partial"]]
          BY <4>1
        <5> QED BY <5>1, <5>2, <5>3, MoveType
      <4>2. ASSUME ctx' = [ctx EXCEPT ![w].pc = "claim", ![w].kind = "refund"] PROVE ctx' \in [Workers -> Local]
        <5>1. [ctx[w] EXCEPT !.pc = "claim", !.kind = "refund"] \in Context
          BY KindFits DEF TypeInv, TypeOK, Steps, Kinds
        <5>2. Stage([ctx[w] EXCEPT !.pc = "claim", !.kind = "refund"])
          BY <2>13 DEF StoreRefund, At, TypeInv, TypeOK, StageInv, Stage, Context, Working, Kinds
        <5>3. ctx' = [ctx EXCEPT ![w] = [ctx[w] EXCEPT !.pc = "claim", !.kind = "refund"]]
          BY <4>2
        <5> QED BY <5>1, <5>2, <5>3, MoveType
      <4> QED BY <2>13, <4>1, <4>2, StopType DEF StoreRefund, Go
    <3>2. pay' \in PayRow
      BY <2>13, SeenType DEF TypeInv, TypeOK, StoreRefund, PayRow
    <3> QED
      BY <2>13, <3>1, <3>2 DEF TypeInv, TypeOK, StageInv, Local, StoreRefund, World, Delivery, Fault
  <2>14. ASSUME NEW w \in Workers, PartialRefund(w) PROVE TypeInv'
    <3>1. ctx' \in [Workers -> Local]
      BY <2>14, StopType DEF PartialRefund, At, Working
    <3>2. pay' \in PayRow
      BY <2>14 DEF TypeInv, TypeOK, PartialRefund, PayRow
    <3> QED
      BY <2>14, <3>1, <3>2 DEF TypeInv, TypeOK, StageInv, Local, PartialRefund, World, Delivery, Fault
  <2>15. ASSUME NEW w \in Workers, Claim(w) PROVE TypeInv'
    <3>1. ctx' \in [Workers -> Local]
      <4>1. ctx[w].pc = "claim" /\ ctx[w].target = NoTarget
        BY <2>15 DEF Claim, At, TypeInv, StageInv, Stage
      <4>2. ASSUME ctx' = [ctx EXCEPT ![w].pc = "guard"] PROVE ctx' \in [Workers -> Local]
        <5>1. [ctx[w] EXCEPT !.pc = "guard"] \in Context
          BY StepFits DEF TypeInv, TypeOK, Steps
        <5>2. Stage([ctx[w] EXCEPT !.pc = "guard"])
          BY <4>1 DEF TypeInv, TypeOK, StageInv, Stage, Context, Working
        <5>3. ctx' = [ctx EXCEPT ![w] = [ctx[w] EXCEPT !.pc = "guard"]]
          BY <4>2
        <5> QED BY <5>1, <5>2, <5>3, MoveType
      <4>3. ASSUME ctx[w].kind = "fulfillment", Conclude(w, "review")
            PROVE  ctx' \in [Workers -> Local]
        BY <4>1, <4>3, ConcludeType
      <4> QED BY <2>15, <4>2, <4>3, StopType DEF Claim, Go
    <3>2. pay' \in PayRow
      BY <2>15, ClaimedType DEF TypeInv, TypeOK, Claim
    <3> QED
      BY <2>15, <3>1, <3>2 DEF TypeInv, TypeOK, StageInv, Local, Claim, World, Delivery
  <2>16. ASSUME NEW w \in Workers, Guard(w) PROVE TypeInv'
    <3> DEFINE next == [ctx EXCEPT ![w].pc = IF ctx[w].kind = "refund" THEN "queue" ELSE "item", ![w].todo = Targets]
               c == [ctx[w] EXCEPT !.pc = IF ctx[w].kind = "refund" THEN "queue" ELSE "item", !.todo = Targets]
    <3>1. c \in Context
      <4>1. ctx[w] \in Context
        BY DEF TypeInv, TypeOK
      <4>2. "queue" \in Steps /\ "item" \in Steps
        BY DEF Steps
      <4>3. \A pc \in Steps : [ctx[w] EXCEPT !.pc = pc, !.todo = Targets] \in Context
        BY <4>1 DEF Context
      <4> QED
        BY <4>2, <4>3
    <3>2. Stage(c)
      BY <2>16 DEF Guard, At, TypeInv, TypeOK, StageInv, Stage, Context, Working, Kinds
    <3>3. next \in [Workers -> Local]
      BY <3>1, <3>2 DEF TypeInv, TypeOK, StageInv, Local
    <3>4. ctx' \in [Workers -> Local]
      BY <2>16, <3>3, GuardedType DEF Guard, At, Working
    <3> QED
      BY <2>16, <3>4, LocalType DEF Guard, Delivery, TypeInv, TypeOK
  <2>17. ASSUME NEW w \in Workers, QueueRevoke(w) PROVE TypeInv'
    <3>1. ctx' \in [Workers -> Local]
      <4>1. ASSUME ctx' = [ctx EXCEPT ![w].pc = "item"] PROVE ctx' \in [Workers -> Local]
        <5>1. [ctx[w] EXCEPT !.pc = "item"] \in Context
          BY StepFits DEF TypeInv, TypeOK, Steps
        <5>2. Stage([ctx[w] EXCEPT !.pc = "item"])
          BY <2>17 DEF QueueRevoke, At, TypeInv, TypeOK, StageInv, Stage, Context, Working, Kinds
        <5>3. ctx' = [ctx EXCEPT ![w] = [ctx[w] EXCEPT !.pc = "item"]]
          BY <4>1
        <5> QED BY <5>1, <5>2, <5>3, MoveType
      <4> QED BY <2>17, <4>1, StopType DEF QueueRevoke, Go
    <3>2. revoking' \in BOOLEAN
      BY <2>17 DEF QueueRevoke
    <3> QED
      BY <2>17, <3>1, <3>2 DEF TypeInv, TypeOK, StageInv, Local, QueueRevoke, World, Delivery, Fault
  <2>18. ASSUME NEW w \in Workers, ItemGuard(w) PROVE TypeInv'
    <3>1. ASSUME NEW t \in ctx[w].todo,
                 \/ ctx' = [ctx EXCEPT ![w].todo = @ \ {t}, ![w].failed = TRUE]
                 \/ ctx' = [ctx EXCEPT ![w].todo = {}, ![w].failed = TRUE]
                 \/ ctx' = [ctx EXCEPT ![w].todo = @ \ {t}, ![w].pc = "call", ![w].target = t]
          PROVE  ctx' \in [Workers -> Local]
      <4>0. t \in Targets /\ ctx[w] \in Context /\ ctx[w].todo \ {t} \in SUBSET Targets
        BY DEF TypeInv, TypeOK, Context
      <4>1. ASSUME ctx' = [ctx EXCEPT ![w].todo = @ \ {t}, ![w].failed = TRUE] PROVE ctx' \in [Workers -> Local]
        <5>1. [ctx[w] EXCEPT !.todo = @ \ {t}, !.failed = TRUE] \in Context
          BY <4>0, TodoFits
        <5>2. Stage([ctx[w] EXCEPT !.todo = @ \ {t}, !.failed = TRUE])
          BY <2>18 DEF ItemGuard, At, TypeInv, TypeOK, StageInv, Stage, Context, Working, Kinds
        <5>3. ctx' = [ctx EXCEPT ![w] = [ctx[w] EXCEPT !.todo = @ \ {t}, !.failed = TRUE]]
          BY <4>1
        <5> QED BY <5>1, <5>2, <5>3, MoveType
      <4>2. ASSUME ctx' = [ctx EXCEPT ![w].todo = {}, ![w].failed = TRUE] PROVE ctx' \in [Workers -> Local]
        <5>1. [ctx[w] EXCEPT !.todo = {}, !.failed = TRUE] \in Context
          BY <4>0, TodoFits
        <5>2. Stage([ctx[w] EXCEPT !.todo = {}, !.failed = TRUE])
          BY <2>18 DEF ItemGuard, At, TypeInv, TypeOK, StageInv, Stage, Context, Working, Kinds
        <5>3. ctx' = [ctx EXCEPT ![w] = [ctx[w] EXCEPT !.todo = {}, !.failed = TRUE]]
          BY <4>2
        <5> QED BY <5>1, <5>2, <5>3, MoveType
      <4>3. ASSUME ctx' = [ctx EXCEPT ![w].todo = @ \ {t}, ![w].pc = "call", ![w].target = t] PROVE ctx' \in [Workers -> Local]
        <5>1. [ctx[w] EXCEPT !.todo = @ \ {t}, !.pc = "call", !.target = t] \in Context
          BY <4>0, TargetFits
        <5>2. Stage([ctx[w] EXCEPT !.todo = @ \ {t}, !.pc = "call", !.target = t])
          BY <2>18, <4>0 DEF ItemGuard, At, TypeInv, TypeOK, StageInv, Stage, Context, Working, Kinds
        <5>3. ctx' = [ctx EXCEPT ![w] = [ctx[w] EXCEPT !.todo = @ \ {t}, !.pc = "call", !.target = t]]
          BY <4>3
        <5> QED BY <5>1, <5>2, <5>3, MoveType
      <4> QED BY <3>1, <4>1, <4>2, <4>3
    <3>2. ctx' \in [Workers -> Local]
      BY <2>18, <3>1 DEF ItemGuard
    <3> QED
      BY <2>18, <3>2, LocalType DEF ItemGuard, Delivery, TypeInv, TypeOK
  <2>19. ASSUME NEW w \in Workers, Call(w) PROVE TypeInv'
    <3> DEFINE failed == ctx[w].failed \/ Refused(ctx[w].kind, ctx[w].target)
               c == [ctx[w] EXCEPT !.pc = "item", !.target = NoTarget, !.failed = failed]
    <3>1. ctx[w] \in Context /\ failed \in BOOLEAN
      BY DEF TypeInv, TypeOK, Context, Refused
    <3>2. c \in Context
      BY <3>1, ReplyFits
    <3>3. Stage(c)
      BY <2>19 DEF Call, At, TypeInv, TypeOK, StageInv, Stage, Context, Working
    <3>4. ctx' = [ctx EXCEPT ![w] = c]
      BY <2>19 DEF Call
    <3>5. ctx' \in [Workers -> Local]
      BY <3>2, <3>3, <3>4, MoveType
    <3>6. node' \in [Targets -> {"none", "granted", "revoked"}]
      BY <2>19 DEF TypeInv, TypeOK, Call, Executed, Refused
    <3> QED
      BY <2>19, <3>5, <3>6 DEF TypeInv, TypeOK, StageInv, Local, Call, World
  <2>20. ASSUME NEW w \in Workers, CallFails(w) PROVE TypeInv'
    <3>1. ctx' \in [Workers -> Local]
      <4>1. ASSUME ctx' = [ctx EXCEPT ![w].pc = "item", ![w].target = NoTarget, ![w].failed = TRUE] PROVE ctx' \in [Workers -> Local]
        <5>1. [ctx[w] EXCEPT !.pc = "item", !.target = NoTarget, !.failed = TRUE] \in Context
          BY DEF TypeInv, TypeOK, Context, Steps
        <5>2. Stage([ctx[w] EXCEPT !.pc = "item", !.target = NoTarget, !.failed = TRUE])
          BY <2>20 DEF CallFails, At, TypeInv, TypeOK, StageInv, Stage, Context, Working, Kinds
        <5>3. ctx' = [ctx EXCEPT ![w] = [ctx[w] EXCEPT !.pc = "item", !.target = NoTarget, !.failed = TRUE]]
          BY <4>1
        <5> QED BY <5>1, <5>2, <5>3, MoveType
      <4> QED BY <2>20, <4>1, StopType DEF CallFails, Go
    <3>2. wire' \in SUBSET Calls
      BY <2>20 DEF TypeInv, TypeOK, StageInv, Stage, CallFails, At, Working, Calls, Kinds
    <3> QED
      BY <2>20, <3>1, <3>2 DEF TypeInv, TypeOK, StageInv, Local, CallFails, World, Delivery, Fault
  <2>21. ASSUME NEW w \in Workers, OperationBusy(w) PROVE TypeInv'
    <3>1. ctx' \in [Workers -> Local]
      <4>1. ASSUME ctx' = [ctx EXCEPT ![w].todo = {}, ![w].failed = TRUE] PROVE ctx' \in [Workers -> Local]
        <5>1. [ctx[w] EXCEPT !.todo = {}, !.failed = TRUE] \in Context
          BY DEF TypeInv, TypeOK, Context, Steps
        <5>2. Stage([ctx[w] EXCEPT !.todo = {}, !.failed = TRUE])
          BY <2>21 DEF OperationBusy, At, TypeInv, TypeOK, StageInv, Stage, Context, Working, Kinds
        <5>3. ctx' = [ctx EXCEPT ![w] = [ctx[w] EXCEPT !.todo = {}, !.failed = TRUE]]
          BY <4>1
        <5> QED BY <5>1, <5>2, <5>3, MoveType
      <4> QED BY <2>21, <4>1, StopType DEF OperationBusy, Go
    <3> QED
      BY <2>21, <3>1, LocalType DEF OperationBusy, Delivery, Fault, TypeInv, TypeOK
  <2>22. ASSUME NEW w \in Workers, OperationLost(w) PROVE TypeInv'
    <3>1. ctx[w].target = NoTarget /\ ctx[w].pc \in Working
      BY <2>22 DEF OperationLost, At, TypeInv, StageInv, Stage, Working
    <3>2. ctx' \in [Workers -> Local]
      BY <2>22, <3>1, ConcludeType DEF OperationLost
    <3> QED
      BY <2>22, <3>2, LocalType DEF OperationLost, Delivery, Fault, TypeInv, TypeOK
  <2>23. ASSUME NEW w \in Workers, Return(w) PROVE TypeInv'
    <3>1. ctx[w].target = NoTarget /\ ctx[w].pc \in Working /\ ctx[w].kind \in Kinds
      BY <2>23 DEF Return, At, TypeInv, StageInv, Stage, Working
    <3>2. ctx' \in [Workers -> Local]
      <4>1. ASSUME ctx' = [ctx EXCEPT ![w].pc = "fence"] PROVE ctx' \in [Workers -> Local]
        <5>1. [ctx[w] EXCEPT !.pc = "fence"] \in Context
          BY StepFits DEF TypeInv, TypeOK, Steps
        <5>2. Stage([ctx[w] EXCEPT !.pc = "fence"])
          BY <2>23, <3>1 DEF Return, At, TypeInv, TypeOK, StageInv, Stage, Context, Working, Kinds
        <5>3. ctx' = [ctx EXCEPT ![w] = [ctx[w] EXCEPT !.pc = "fence"]]
          BY <4>1
        <5> QED BY <5>1, <5>2, <5>3, MoveType
      <4>2. ASSUME ctx[w].kind # "fulfillment", ctx' = [ctx EXCEPT ![w].pc = "guard2", ![w].out = "pending"]
            PROVE  ctx' \in [Workers -> Local]
        <5>1. [ctx[w] EXCEPT !.pc = "guard2", !.out = "pending"] \in Context
          BY VerdictFits DEF TypeInv, TypeOK, Verdicts
        <5>2. Stage([ctx[w] EXCEPT !.pc = "guard2", !.out = "pending"])
          BY <3>1, <4>2 DEF TypeInv, TypeOK, StageInv, Stage, Context, Working, Kinds
        <5>3. ctx' = [ctx EXCEPT ![w] = [ctx[w] EXCEPT !.pc = "guard2", !.out = "pending"]]
          BY <4>2
        <5> QED BY <5>1, <5>2, <5>3, MoveType
      <4>3. ASSUME ctx[w].kind = "fulfillment", Conclude(w, "retry")
            PROVE  ctx' \in [Workers -> Local]
        BY <3>1, <4>3, ConcludeType
      <4> QED BY <2>23, <4>1, <4>2, <4>3 DEF Return, Go
    <3> QED
      BY <2>23, <3>2, LocalType DEF Return, Delivery, TypeInv, TypeOK
  <2>24. ASSUME NEW w \in Workers, Fence(w) PROVE TypeInv'
    <3> DEFINE next == [ctx EXCEPT ![w].pc = "complete"]
               c == [ctx[w] EXCEPT !.pc = "complete"]
    <3>1. c \in Context
      <4>1. ctx[w] \in Context
        BY DEF TypeInv, TypeOK
      <4>2. "complete" \in Steps
        BY DEF Steps
      <4>3. \A pc \in Steps : [ctx[w] EXCEPT !.pc = pc] \in Context
        BY <4>1 DEF Context
      <4> QED
        BY <4>2, <4>3
    <3>2. Stage(c)
      BY <2>24 DEF Fence, At, TypeInv, TypeOK, StageInv, Stage, Context, Working, Kinds
    <3>3. next \in [Workers -> Local]
      BY <3>1, <3>2 DEF TypeInv, TypeOK, StageInv, Local
    <3>4. ctx' \in [Workers -> Local]
      BY <2>24, <3>3, GuardedType DEF Fence, At, Working
    <3> QED
      BY <2>24, <3>4, LocalType DEF Fence, Delivery, TypeInv, TypeOK
  <2>25. ASSUME NEW w \in Workers, Complete(w) PROVE TypeInv'
    <3>1. ctx[w].target = NoTarget /\ ctx[w].pc \in Working /\ ctx[w].kind \in Kinds
      BY <2>25 DEF Complete, At, TypeInv, StageInv, Stage, Working
    <3>2. ctx' \in [Workers -> Local]
      <4>1. ASSUME ctx[w].kind = "refund", ctx' = [ctx EXCEPT ![w].pc = "guard2", ![w].out = "completed"]
            PROVE  ctx' \in [Workers -> Local]
        <5>1. [ctx[w] EXCEPT !.pc = "guard2", !.out = "completed"] \in Context
          BY VerdictFits DEF TypeInv, TypeOK, Verdicts
        <5>2. Stage([ctx[w] EXCEPT !.pc = "guard2", !.out = "completed"])
          BY <3>1, <4>1 DEF TypeInv, TypeOK, StageInv, Stage, Context, Working, Kinds
        <5>3. ctx' = [ctx EXCEPT ![w] = [ctx[w] EXCEPT !.pc = "guard2", !.out = "completed"]]
          BY <4>1
        <5> QED BY <5>1, <5>2, <5>3, MoveType
      <4>2. ASSUME ctx[w].kind # "refund", ctx' = [ctx EXCEPT ![w].pc = "guard2", ![w].out = "succeeded"]
            PROVE  ctx' \in [Workers -> Local]
        <5>1. [ctx[w] EXCEPT !.pc = "guard2", !.out = "succeeded"] \in Context
          BY VerdictFits DEF TypeInv, TypeOK, Verdicts
        <5>2. Stage([ctx[w] EXCEPT !.pc = "guard2", !.out = "succeeded"])
          BY <3>1, <4>2 DEF TypeInv, TypeOK, StageInv, Stage, Context, Working, Kinds
        <5>3. ctx' = [ctx EXCEPT ![w] = [ctx[w] EXCEPT !.pc = "guard2", !.out = "succeeded"]]
          BY <4>2
        <5> QED BY <5>1, <5>2, <5>3, MoveType
      <4>3. ASSUME ctx[w].kind # "refund", NEW out \in {"review", "retry"}, Conclude(w, out)
            PROVE  ctx' \in [Workers -> Local]
        BY <3>1, <4>3, ConcludeType
      <4> QED BY <2>25, <4>1, <4>2, <4>3 DEF Complete
    <3> QED
      BY <2>25, <3>2, LocalType DEF Complete, Delivery, TypeInv, TypeOK
  <2>26. ASSUME NEW w \in Workers, SecondGuard(w) PROVE TypeInv'
    <3> DEFINE next == [ctx EXCEPT ![w].pc = "finish"]
               c == [ctx[w] EXCEPT !.pc = "finish"]
    <3>1. c \in Context
      <4>1. ctx[w] \in Context
        BY DEF TypeInv, TypeOK
      <4>2. "finish" \in Steps
        BY DEF Steps
      <4>3. \A pc \in Steps : [ctx[w] EXCEPT !.pc = pc] \in Context
        BY <4>1 DEF Context
      <4> QED
        BY <4>2, <4>3
    <3>2. Stage(c)
      BY <2>26 DEF SecondGuard, At, TypeInv, TypeOK, StageInv, Stage, Context, Working, Kinds
    <3>3. next \in [Workers -> Local]
      BY <3>1, <3>2 DEF TypeInv, TypeOK, StageInv, Local
    <3>4. ctx' \in [Workers -> Local]
      BY <2>26, <3>3, GuardedType DEF SecondGuard, At, Working
    <3> QED
      BY <2>26, <3>4, LocalType DEF SecondGuard, Delivery, TypeInv, TypeOK
  <2>27. ASSUME NEW w \in Workers, Finish(w) PROVE TypeInv'
    <3>1. ctx' \in [Workers -> Local]
      BY <2>27, StopType DEF Finish, At, Working
    <3>2. ctx[w].out \in Verdicts
      BY <2>27 DEF Finish, At, TypeInv, StageInv, Stage, Verdicts
    <3>3. pay' \in PayRow
      BY <2>27, <3>2, OutcomeType DEF Finish, TypeInv, TypeOK
    <3>4. told' \in [{"succeeded", "refunded", "cancelled"} -> Nat]
      BY <2>27, AnnounceType DEF Finish, TypeInv, TypeOK
    <3> QED
      BY <2>27, <3>1, <3>2, <3>3, <3>4 DEF TypeInv, TypeOK, StageInv, Local, Finish, World, Delivery, Fault
  <2>28. ASSUME NEW w \in Workers, Crash(w) PROVE TypeInv'
    <3>1. ctx' \in [Workers -> Local]
      BY <2>28, StopType DEF Crash, At, Working
    <3>2. wire' \in SUBSET Calls
      BY <2>28 DEF TypeInv, TypeOK, StageInv, Stage, Crash, At, Working, Calls, Kinds
    <3> QED
      BY <2>28, <3>1, <3>2 DEF TypeInv, TypeOK, StageInv, Local, Crash, World, Delivery, Fault
  <2>29. ASSUME NEW call \in wire, LateCall(call) PROVE TypeInv'
    <3>1. node' \in [Targets -> {"none", "granted", "revoked"}]
      BY <2>29 DEF TypeInv, TypeOK, LateCall, Executed, Refused
    <3> QED
      BY <2>29, <3>1 DEF TypeInv, TypeOK, StageInv, LateCall, World
  <2> QED
    BY <2>0, <2>1, <2>2, <2>3, <2>4, <2>5, <2>6, <2>7, <2>8, <2>9, <2>10, <2>11, <2>12, <2>13, <2>14, <2>15, <2>16, <2>17, <2>18, <2>19, <2>20, <2>21, <2>22, <2>23, <2>24, <2>25, <2>26, <2>27, <2>28, <2>29 DEF Next, Work
<1> QED
  BY <1>1, <1>2, PTL DEF Spec

(* The row, the contexts, the targets and the counters of the bot API's    *)
(* processes always have the types their columns and variables have.       *)
THEOREM TypeCorrect == Spec => []TypeOK
<1>1. TypeInv => TypeOK BY DEF TypeInv
<1> QED BY <1>1, Typing, PTL

-----------------------------------------------------------------------------
(* The invariant.                                                          *)

(* Nothing w does takes back what the provider or a node has done, or the  *)
(* mark of another process on a row that it still owns.                    *)
Grows ==
  /\ remote.status # "pending" => remote'.status = remote.status
  /\ remote.refunded <= remote'.refunded
  /\ \A t \in Targets : /\ node[t] = "revoked" => node'[t] = "revoked"
                        /\ node[t] # "none" => node'[t] # "none"

Spares(v) ==
  /\ ctx'[v] = ctx[v]
  /\ pay'.owner = v =>
       /\ pay.owner = v
       /\ pay.refund = "processing" => pay'.refund = "processing"
       /\ pay.fulfillment = "processing" => pay'.fulfillment = "processing"

Kept(w) == Grows /\ \A v \in Workers \ {w} : Spares(v)

Sound(w) == Knows(w) /\ Marked(w) /\ Done(w)

(* The numbers that are compared.                                          *)
LEMMA RowTypes ==
  ASSUME TypeInv
  PROVE  /\ pay.refunded \in 0..Price /\ remote.refunded \in 0..Price
         /\ remote.status \in {"pending", "succeeded", "canceled"}
  BY DEF TypeInv, TypeOK, PayRow, Observation

(* A process that did not move is as sound as before.                      *)
LEMMA Unmoved ==
  ASSUME TypeInv, TypeInv', NEW v \in Workers, Sound(v), Grows, Spares(v)
  PROVE  Sound(v)'
<1>1. Knows(v)'
  <2>1. ctx[v].seen.refunded \in 0..Price /\ remote.refunded \in 0..Price /\ remote'.refunded \in 0..Price
    BY SeenType DEF TypeInv, TypeOK, Observation
  <2>2. ctx[v].pc \in Working \cup {"claim"} /\ ctx[v].kind = "refund" => remote'.refunded = Price
    BY <2>1, PriceAssumption DEF Sound, Knows, Grows
  <2> QED
    BY <2>1, <2>2 DEF Sound, Knows, Grows, Spares
<1>2. Marked(v)'
  BY DEF Sound, Marked, AtWork, Spares
<1>3. Done(v)'
  BY DEF Sound, Done, Served, Grows, Spares
<1> QED
  BY <1>1, <1>2, <1>3 DEF Sound

(* What is left to show of a step of w.                                    *)
LEMMA StepOf ==
  ASSUME TypeInv, TypeInv', PaymentInv, NEW w \in Workers, Kept(w), Sound(w)', RowInv'
  PROVE  PaymentInv'
  BY Unmoved DEF PaymentInv, Kept, Sound, TypeInv

(* A step of no process at all.                                            *)
LEMMA StepOfNone ==
  ASSUME TypeInv, TypeInv', PaymentInv, Grows, \A v \in Workers : Spares(v), RowInv'
  PROVE  PaymentInv'
  BY Unmoved DEF PaymentInv, Sound, TypeInv

(* A step of w that changes nothing but its context.                       *)
LEMMA LocalStep ==
  ASSUME TypeInv, TypeInv', PaymentInv, NEW w \in Workers, NEW c, ctx' = [ctx EXCEPT ![w] = c],
         UNCHANGED <<pay, told, World, Delivery>>, Sound(w)'
  PROVE  PaymentInv'
<1>1. Kept(w)
  BY DEF Kept, Grows, Spares, World, Delivery, TypeInv, TypeOK, Observation
<1>2. RowInv'
  BY DEF PaymentInv, RowInv, PaidInv, ReturnedInv, CancelInv, ToldOnce, RefundRevokes,
         SuccessDelivers, World, Delivery
<1> QED
  BY <1>1, <1>2, StepOf

(* A process that stops has nothing left to answer for.                    *)
LEMMA Stopped ==
  ASSUME TypeInv, TypeInv', NEW w \in Workers, ctx'[w] = Idle
  PROVE  Sound(w)'
  BY DEF Sound, Knows, Marked, Done, AtWork, Working, Idle, Unseen, TypeInv, TypeOK, Observation

(* A process that does not hold the row has nothing to show yet.           *)
LEMMA Prepares ==
  ASSUME NEW w, ctx'[w].pc \notin Working, Knows(w)' PROVE Sound(w)'
  BY DEF Sound, Marked, Done, AtWork, Working

(* A process that goes on with its work knows what it knew.                *)
LEMMA Continues ==
  ASSUME TypeInv, TypeInv', PaymentInv, NEW w \in Workers, AtWork(w), UNCHANGED <<pay, remote>>,
         ctx'[w].pc \in Working, ctx'[w].kind = ctx[w].kind, ctx'[w].seen = ctx[w].seen
  PROVE  Knows(w)' /\ Marked(w)'
  BY DEF PaymentInv, Knows, Marked, AtWork, Working

(* A process that concludes without a success has nothing more to show.    *)
LEMMA Concluded ==
  ASSUME TypeInv, TypeInv', PaymentInv, NEW w \in Workers, AtWork(w),
         NEW out \in {"blocked", "review", "retry", "error"}, Conclude(w, out),
         UNCHANGED <<pay, remote>>
  PROVE  Sound(w)'
<1>1. ctx'[w] = [ctx[w] EXCEPT !.pc = "finish", !.out = out]
  BY DEF Conclude, TypeInv, TypeOK
<1>2. /\ ctx'[w].pc = "finish" /\ ctx'[w].out = out
      /\ ctx'[w].kind = ctx[w].kind /\ ctx'[w].seen = ctx[w].seen
  BY <1>1 DEF TypeInv, TypeOK, Context
<1>3. Knows(w)' /\ Marked(w)'
  BY <1>2, Continues DEF Working
<1>4. Done(w)'
  BY <1>2 DEF Done
<1> QED
  BY <1>3, <1>4 DEF Sound

(* guard() leaves a process stopped, or with a conclusion, or going on.    *)
LEMMA GuardedStep ==
  ASSUME TypeInv, TypeInv', PaymentInv, NEW w \in Workers, AtWork(w), NEW c,
         Guarded(w, [ctx EXCEPT ![w] = c]), UNCHANGED <<pay, told, World, Delivery>>,
         ctx'[w] = c => Sound(w)'
  PROVE  PaymentInv'
<1>1. CASE Stop(w)
  <2>1. ctx' = [ctx EXCEPT ![w] = Idle] /\ ctx'[w] = Idle
    BY <1>1 DEF Stop, TypeInv, TypeOK
  <2> QED BY <2>1, Stopped, LocalStep
<1>2. CASE Conclude(w, "blocked")
  <2>1. ctx' = [ctx EXCEPT ![w] = [ctx[w] EXCEPT !.pc = "finish", !.out = "blocked"]]
    BY <1>2 DEF Conclude
  <2>2. Sound(w)'
    BY <1>2, Concluded DEF World
  <2> QED BY <2>1, <2>2, LocalStep
<1>3. CASE ctx' = [ctx EXCEPT ![w] = c]
  <2>1. ctx'[w] = c
    BY <1>3 DEF TypeInv, TypeOK
  <2> QED BY <1>3, <2>1, LocalStep
<1> QED
  BY <1>1, <1>2, <1>3 DEF Guarded

(* What a call leaves at its target.                                       *)
LEMMA ExecutedCases ==
  ASSUME NEW kind \in Kinds, NEW t \in Targets
  PROVE  \/ Executed(kind, t) = node
         \/ kind = "refund" /\ Executed(kind, t) = [node EXCEPT ![t] = "revoked"]
         \/ kind = "fulfillment" /\ node[t] # "revoked" /\ Executed(kind, t) = [node EXCEPT ![t] = "granted"]
<1>1. CASE Refused(kind, t)
  BY <1>1 DEF Executed
<1>2. CASE ~Refused(kind, t) /\ kind = "refund"
  <2>1. Executed(kind, t) = [node EXCEPT ![t] = "revoked"]
    BY <1>2 DEF Executed
  <2> QED BY <1>2, <2>1
<1>3. CASE ~Refused(kind, t) /\ kind = "fulfillment"
  <2>1. Executed(kind, t) = [node EXCEPT ![t] = "granted"]
    BY <1>3 DEF Executed
  <2> QED BY <1>3, <2>1 DEF Refused
<1> QED BY <1>1, <1>2, <1>3 DEF Kinds

(* A target keeps a tombstone, and whatever it has.                        *)
LEMMA ExecutedGrows ==
  ASSUME TypeInv, NEW kind \in Kinds, NEW t \in Targets, node' = Executed(kind, t), NEW u \in Targets
  PROVE  /\ node[u] = "revoked" => node'[u] = "revoked"
         /\ node[u] # "none" => node'[u] # "none"
<1>1. CASE node' = node
  BY <1>1
<1>2. CASE node' = [node EXCEPT ![t] = "revoked"]
  BY <1>2 DEF TypeInv, TypeOK
<1>3. CASE node[t] # "revoked" /\ node' = [node EXCEPT ![t] = "granted"]
  BY <1>3 DEF TypeInv, TypeOK
<1> QED BY <1>1, <1>2, <1>3, ExecutedCases

(* The first state of a payment satisfies the invariant.                   *)
LEMMA PaymentInit == Init => PaymentInv
<1> SUFFICES ASSUME Init PROVE PaymentInv
  OBVIOUS
<1>1. StageInv
  BY IdleLocal DEF Init, StageInv, Local
<1>2. \A w \in Workers : Sound(w)
  BY WorkersAssumption DEF Init, Sound, Knows, Marked, Done, AtWork, Working, Idle, Unseen
<1>3. RowInv
  BY DEF Init, RowInv, PaidInv, ReturnedInv, CancelInv, ToldOnce, RefundRevokes, SuccessDelivers, Unseen
<1> QED
  BY <1>1, <1>2, <1>3 DEF PaymentInv, Sound

(* Every step of every process preserves the invariant.                    *)
LEMMA PaymentStep ==
  ASSUME TypeInv, TypeInv', PaymentInv, [Next]_vars PROVE PaymentInv'
<1>1. ASSUME NEW w \in Workers, PollSelect(w) PROVE PaymentInv'
  <2>1. CASE Stop(w)
    <3>1. ctx' = [ctx EXCEPT ![w] = Idle] /\ ctx'[w] = Idle
      BY <2>1 DEF Stop, TypeInv, TypeOK
    <3> QED BY <1>1, <3>1, Stopped, LocalStep DEF PollSelect
  <2>2. CASE pay.provider = "succeeded" /\ ctx' = [ctx EXCEPT ![w].pc = "apply"]
    <3> DEFINE c == [ctx[w] EXCEPT !.pc = "apply"]
    <3>1. ctx' = [ctx EXCEPT ![w] = c] /\ ctx'[w] = c
      BY <2>2 DEF TypeInv, TypeOK
    <3>2. ctx'[w].pc = "apply" /\ ctx'[w].seen = ctx[w].seen
      BY <3>1 DEF TypeInv, TypeOK, Context
    <3>3. Knows(w)'
      BY <1>1, <2>2, <3>2, SeenType, RowTypes DEF PollSelect, World, Working, PaymentInv, Knows, RowInv, PaidInv
    <3> QED
      BY <1>1, <3>1, <3>2, <3>3, Prepares, LocalStep DEF PollSelect, Working
  <2>3. CASE ctx' = [ctx EXCEPT ![w].pc = "record", ![w].seen = remote]
    <3> DEFINE c == [ctx[w] EXCEPT !.pc = "record", !.seen = remote]
    <3>1. ctx' = [ctx EXCEPT ![w] = c] /\ ctx'[w] = c
      BY <2>3 DEF TypeInv, TypeOK
    <3>2. ctx'[w].pc = "record" /\ ctx'[w].seen = remote
      BY <3>1 DEF TypeInv, TypeOK, Context
    <3>3. Knows(w)'
      BY <1>1, <2>3, <3>2, SeenType, RowTypes DEF PollSelect, World, Working, PaymentInv, Knows, RowInv, PaidInv
    <3> QED
      BY <1>1, <3>1, <3>2, <3>3, Prepares, LocalStep DEF PollSelect, Working
  <2> QED
    BY <1>1, <2>1, <2>2, <2>3, RowTypes DEF PollSelect, Go
<1>2. ASSUME NEW w \in Workers, ReconcileSelect(w) PROVE PaymentInv'
  <2>1. CASE Stop(w)
    <3>1. ctx' = [ctx EXCEPT ![w] = Idle] /\ ctx'[w] = Idle
      BY <2>1 DEF Stop, TypeInv, TypeOK
    <3> QED BY <1>2, <3>1, Stopped, LocalStep DEF ReconcileSelect
  <2>2. CASE ctx' = [ctx EXCEPT ![w].pc = "handle"]
    <3> DEFINE c == [ctx[w] EXCEPT !.pc = "handle"]
    <3>1. ctx' = [ctx EXCEPT ![w] = c] /\ ctx'[w] = c
      BY <2>2 DEF TypeInv, TypeOK
    <3>2. ctx'[w].pc = "handle" /\ ctx'[w].seen = ctx[w].seen
      BY <3>1 DEF TypeInv, TypeOK, Context
    <3>3. Knows(w)'
      BY <1>2, <2>2, <3>2, SeenType, RowTypes DEF ReconcileSelect, World, Working, PaymentInv, Knows, RowInv, PaidInv
    <3> QED
      BY <1>2, <3>1, <3>2, <3>3, Prepares, LocalStep DEF ReconcileSelect, Working
  <2> QED
    BY <1>2, <2>1, <2>2, RowTypes DEF ReconcileSelect, Go
<1>3. ASSUME NEW w \in Workers, Webhook(w) PROVE PaymentInv'
  <2>1. ctx' = [ctx EXCEPT ![w] = ctx'[w]]
    BY <1>3 DEF Webhook, Go, Stop, TypeInv, TypeOK
  <2>2. Knows(w)'
    BY <1>3, SeenType, PriceAssumption
       DEF Webhook, Go, Stop, At, Working, Idle, Unseen, World, TypeInv, TypeOK, Observation,
           PayRow, PaymentInv, Knows, RowInv, PaidInv
  <2>3. Marked(w)' /\ Done(w)'
    BY <1>3 DEF Webhook, Go, Stop, At, Working, Idle, TypeInv, TypeOK, Marked, Done, AtWork
  <2> QED
    BY <1>3, <2>1, <2>2, <2>3, LocalStep DEF Webhook, Sound
<1>4. ASSUME NEW w \in Workers, Handle(w) PROVE PaymentInv'
  <2>1. CASE Stop(w)
    <3>1. ctx' = [ctx EXCEPT ![w] = Idle] /\ ctx'[w] = Idle
      BY <2>1 DEF Stop, TypeInv, TypeOK
    <3> QED BY <1>4, <3>1, Stopped, LocalStep DEF Handle
  <2>2. CASE ctx' = [ctx EXCEPT ![w].pc = "store", ![w].seen = remote]
    <3> DEFINE c == [ctx[w] EXCEPT !.pc = "store", !.seen = remote]
    <3>1. ctx' = [ctx EXCEPT ![w] = c] /\ ctx'[w] = c
      BY <2>2 DEF TypeInv, TypeOK
    <3>2. ctx'[w].pc = "store" /\ ctx'[w].seen = remote
      BY <3>1 DEF TypeInv, TypeOK, Context
    <3>3. Knows(w)'
      BY <1>4, <2>2, <3>2, SeenType, RowTypes, PriceAssumption DEF Handle, World, Working, PaymentInv, Knows, RowInv, PaidInv
    <3> QED
      BY <1>4, <3>1, <3>2, <3>3, Prepares, LocalStep DEF Handle, Working
  <2>3. CASE /\ pay.provider = "succeeded" \/ pay.status \in {"succeeded", "refunded"}
            /\ pay.refunded >= Price
             /\ ctx' = [ctx EXCEPT ![w].pc = "claim", ![w].kind = "refund"]
    <3> DEFINE c == [ctx[w] EXCEPT !.pc = "claim", !.kind = "refund"]
    <3>1. ctx' = [ctx EXCEPT ![w] = c] /\ ctx'[w] = c
      BY <2>3 DEF TypeInv, TypeOK
    <3>2. ctx'[w].pc = "claim" /\ ctx'[w].seen = ctx[w].seen
      BY <3>1 DEF TypeInv, TypeOK, Context
    <3>3. Knows(w)'
      BY <1>4, <2>3, <3>2, SeenType, RowTypes, PriceAssumption DEF Handle, World, Working, PaymentInv, Knows, RowInv, PaidInv
    <3> QED
      BY <1>4, <3>1, <3>2, <3>3, Prepares, LocalStep DEF Handle, Working
  <2> QED
    BY <1>4, <2>1, <2>2, <2>3, RowTypes, PriceAssumption DEF Handle, Go
<1>5. ASSUME NEW w \in Workers, Guard(w) PROVE PaymentInv'
  <2> DEFINE c == [ctx[w] EXCEPT !.pc = IF ctx[w].kind = "refund" THEN "queue" ELSE "item", !.todo = Targets]
  <2>1. Guarded(w, [ctx EXCEPT ![w] = c]) /\ AtWork(w)
    BY <1>5 DEF Guard, At, AtWork, Working
  <2>2. ASSUME ctx'[w] = c PROVE Sound(w)'
    <3>1. /\ ctx'[w].pc \in {"queue", "item"} /\ ctx'[w].todo = Targets
          /\ ctx'[w].kind = ctx[w].kind /\ ctx'[w].seen = ctx[w].seen
      BY <2>2 DEF TypeInv, TypeOK, Context
    <3>2. Knows(w)' /\ Marked(w)'
      BY <1>5, <2>1, <3>1, Continues DEF Guard, Working, World
    <3>3. Done(w)'
      BY <1>5, <3>1 DEF Guard, At, Delivery, PaymentInv, Done, Served
    <3> QED
      BY <3>2, <3>3 DEF Sound
  <2> QED
    BY <1>5, <2>1, <2>2, GuardedStep DEF Guard
<1>6. ASSUME NEW w \in Workers, Fence(w) PROVE PaymentInv'
  <2> DEFINE c == [ctx[w] EXCEPT !.pc = "complete"]
  <2>1. Guarded(w, [ctx EXCEPT ![w] = c]) /\ AtWork(w)
    BY <1>6 DEF Fence, At, AtWork, Working
  <2>2. ASSUME ctx'[w] = c PROVE Sound(w)'
    <3>1. /\ ctx'[w].pc = "complete"
          /\ ctx'[w].kind = ctx[w].kind /\ ctx'[w].seen = ctx[w].seen
      BY <2>2 DEF TypeInv, TypeOK, Context
    <3>2. Knows(w)' /\ Marked(w)'
      BY <1>6, <2>1, <3>1, Continues DEF Fence, Working, World
    <3>3. Done(w)'
      BY <1>6, <3>1 DEF Fence, At, Delivery, PaymentInv, Done, Served
    <3> QED
      BY <3>2, <3>3 DEF Sound
  <2> QED
    BY <1>6, <2>1, <2>2, GuardedStep DEF Fence
<1>7. ASSUME NEW w \in Workers, SecondGuard(w) PROVE PaymentInv'
  <2> DEFINE c == [ctx[w] EXCEPT !.pc = "finish"]
  <2>1. Guarded(w, [ctx EXCEPT ![w] = c]) /\ AtWork(w)
    BY <1>7 DEF SecondGuard, At, AtWork, Working
  <2>2. ASSUME ctx'[w] = c PROVE Sound(w)'
    <3>1. /\ ctx'[w].pc = "finish" /\ ctx'[w].out = ctx[w].out
          /\ ctx'[w].kind = ctx[w].kind /\ ctx'[w].seen = ctx[w].seen
      BY <2>2 DEF TypeInv, TypeOK, Context
    <3>2. Knows(w)' /\ Marked(w)'
      BY <1>7, <2>1, <3>1, Continues DEF SecondGuard, Working, World
    <3>3. Done(w)'
      BY <1>7, <3>1 DEF SecondGuard, At, Delivery, PaymentInv, Done, Served
    <3> QED
      BY <3>2, <3>3 DEF Sound
  <2> QED
    BY <1>7, <2>1, <2>2, GuardedStep DEF SecondGuard
<1>8. ASSUME NEW w \in Workers, ItemGuard(w) PROVE PaymentInv'
  <2>1. ctx[w].pc = "item" /\ AtWork(w) /\ ctx[w].target = NoTarget
    BY <1>8 DEF ItemGuard, At, AtWork, Working, TypeInv, StageInv, Stage
  <2>2. /\ ctx' = [ctx EXCEPT ![w] = ctx'[w]]
        /\ ctx'[w].pc \in {"item", "call"} \cap Working
        /\ ctx'[w].kind = ctx[w].kind /\ ctx'[w].seen = ctx[w].seen
        /\ \/ ctx'[w].failed
           \/ /\ ctx'[w].pc = "call"
              /\ ctx'[w].failed = ctx[w].failed
              /\ ctx'[w].todo \cup {ctx'[w].target} = ctx[w].todo
    <3>1. PICK t \in ctx[w].todo :
            \/ ctx' = [ctx EXCEPT ![w] = [ctx[w] EXCEPT !.todo = @ \ {t}, !.failed = TRUE]]
            \/ ctx' = [ctx EXCEPT ![w] = [ctx[w] EXCEPT !.todo = {}, !.failed = TRUE]]
            \/ ctx' = [ctx EXCEPT ![w] = [ctx[w] EXCEPT !.todo = @ \ {t}, !.pc = "call", !.target = t]]
      BY <1>8 DEF ItemGuard
    <3>2. ctx[w] \in Context /\ t \in Targets
      BY DEF TypeInv, TypeOK, Context
    <3>3. ctx' = [ctx EXCEPT ![w] = ctx'[w]]
      BY <3>1 DEF TypeInv, TypeOK
    <3>4. CASE ctx' = [ctx EXCEPT ![w] = [ctx[w] EXCEPT !.todo = @ \ {t}, !.failed = TRUE]]
      <4>1. ctx'[w] = [ctx[w] EXCEPT !.todo = @ \ {t}, !.failed = TRUE]
        BY <3>4 DEF TypeInv, TypeOK
      <4> QED BY <2>1, <3>2, <3>3, <4>1 DEF Context, Working
    <3>5. CASE ctx' = [ctx EXCEPT ![w] = [ctx[w] EXCEPT !.todo = {}, !.failed = TRUE]]
      <4>1. ctx'[w] = [ctx[w] EXCEPT !.todo = {}, !.failed = TRUE]
        BY <3>5 DEF TypeInv, TypeOK
      <4> QED BY <2>1, <3>2, <3>3, <4>1 DEF Context, Working
    <3>6. CASE ctx' = [ctx EXCEPT ![w] = [ctx[w] EXCEPT !.todo = @ \ {t}, !.pc = "call", !.target = t]]
      <4>1. ctx'[w] = [ctx[w] EXCEPT !.todo = @ \ {t}, !.pc = "call", !.target = t]
        BY <3>6 DEF TypeInv, TypeOK
      <4>2. /\ ctx'[w].pc = "call" /\ ctx'[w].failed = ctx[w].failed
            /\ ctx'[w].kind = ctx[w].kind /\ ctx'[w].seen = ctx[w].seen
            /\ ctx'[w].todo = ctx[w].todo \ {t} /\ ctx'[w].target = t
        BY <3>2, <4>1 DEF Context
      <4> QED BY <3>3, <4>2 DEF Working
    <3> QED
      BY <3>1, <3>4, <3>5, <3>6
  <2>3. Knows(w)' /\ Marked(w)'
    BY <1>8, <2>1, <2>2, Continues DEF ItemGuard, World
  <2>4. Done(w)'
    <3>1. ~ctx[w].failed => \A t \in Targets \ ctx[w].todo : Served(ctx[w].kind, t)
      BY <2>1, TargetsAssumption DEF PaymentInv, Done
    <3>2. \A t : Served(ctx[w].kind, t)' <=> Served(ctx[w].kind, t)
      BY <1>8, <2>2 DEF ItemGuard, Delivery, Served
    <3>3. ctx'[w].pc \in {"item", "call"}
      BY <2>2
    <3> QED
      BY <2>2, <3>1, <3>2, <3>3 DEF Done
  <2> QED
    BY <1>8, <2>2, <2>3, <2>4, LocalStep DEF ItemGuard, Sound
<1>9. ASSUME NEW w \in Workers, OperationBusy(w) PROVE PaymentInv'
  <2> DEFINE c == [ctx[w] EXCEPT !.todo = {}, !.failed = TRUE]
  <2>1. AtWork(w) /\ ctx[w].pc = "item"
    BY <1>9 DEF OperationBusy, At, AtWork, Working
  <2>2. ctx' = [ctx EXCEPT ![w] = c] /\ ctx'[w] = c
    BY <1>9 DEF OperationBusy, TypeInv, TypeOK
  <2>3. /\ ctx'[w].pc = "item" /\ ctx'[w].failed
        /\ ctx'[w].kind = ctx[w].kind /\ ctx'[w].seen = ctx[w].seen
    BY <2>1, <2>2 DEF TypeInv, TypeOK, Context
  <2>4. Sound(w)'
    BY <1>9, <2>1, <2>3, Continues DEF OperationBusy, World, Working, Sound, Done
  <2> QED
    BY <1>9, <2>2, <2>4, LocalStep DEF OperationBusy
<1>10. ASSUME NEW w \in Workers, OperationLost(w) PROVE PaymentInv'
  <2>1. PICK out \in {"error", "retry"} : Conclude(w, out)
    BY <1>10 DEF OperationLost
  <2>2. AtWork(w)
    BY <1>10 DEF OperationLost, At, AtWork, Working
  <2>3. Sound(w)'
    BY <1>10, <2>1, <2>2, Concluded DEF OperationLost, World
  <2>4. ctx' = [ctx EXCEPT ![w] = [ctx[w] EXCEPT !.pc = "finish", !.out = out]]
    BY <2>1 DEF Conclude
  <2> QED
    BY <1>10, <2>3, <2>4, LocalStep DEF OperationLost
<1>11. ASSUME NEW w \in Workers, Return(w) PROVE PaymentInv'
  <2>1. AtWork(w) /\ ctx[w].target = NoTarget /\ ctx[w].kind \in Kinds
    BY <1>11 DEF Return, At, AtWork, Working, TypeInv, StageInv, Stage
  <2>2. CASE ~ctx[w].failed /\ ctx' = [ctx EXCEPT ![w].pc = "fence"]
    <3> DEFINE c == [ctx[w] EXCEPT !.pc = "fence"]
    <3>1. ctx' = [ctx EXCEPT ![w] = c] /\ ctx'[w] = c
      BY <2>2 DEF TypeInv, TypeOK
    <3>2. /\ ctx'[w].pc = "fence"
          /\ ctx'[w].kind = ctx[w].kind /\ ctx'[w].seen = ctx[w].seen
      BY <3>1 DEF TypeInv, TypeOK, Context
    <3>3. Knows(w)' /\ Marked(w)'
      BY <1>11, <2>1, <3>2, Continues DEF Return, World, Working
    <3>4. Done(w)'
      BY <1>11, <2>2, <2>1, <3>2, TargetsAssumption DEF Return, At, Delivery, PaymentInv, Done, Served, Kinds
    <3> QED
      BY <1>11, <3>1, <3>3, <3>4, LocalStep DEF Return, Sound
  <2>3. CASE TRUE /\ ctx' = [ctx EXCEPT ![w].pc = "guard2", ![w].out = "pending"]
    <3> DEFINE c == [ctx[w] EXCEPT !.pc = "guard2", !.out = "pending"]
    <3>1. ctx' = [ctx EXCEPT ![w] = c] /\ ctx'[w] = c
      BY <2>3 DEF TypeInv, TypeOK
    <3>2. /\ ctx'[w].pc = "guard2" /\ ctx'[w].out = "pending"
          /\ ctx'[w].kind = ctx[w].kind /\ ctx'[w].seen = ctx[w].seen
      BY <3>1 DEF TypeInv, TypeOK, Context
    <3>3. Knows(w)' /\ Marked(w)'
      BY <1>11, <2>1, <3>2, Continues DEF Return, World, Working
    <3>4. Done(w)'
      BY <1>11, <2>3, <2>1, <3>2, TargetsAssumption DEF Return, At, Delivery, PaymentInv, Done, Served, Kinds
    <3> QED
      BY <1>11, <3>1, <3>3, <3>4, LocalStep DEF Return, Sound
  <2>4. ASSUME NEW out \in {"retry"}, Conclude(w, out) PROVE PaymentInv'
    <3>1. Sound(w)'
      BY <1>11, <2>1, <2>4, Concluded DEF Return, World
    <3>2. ctx' = [ctx EXCEPT ![w] = [ctx[w] EXCEPT !.pc = "finish", !.out = out]]
      BY <2>4 DEF Conclude
    <3> QED
      BY <1>11, <3>1, <3>2, LocalStep DEF Return
  <2> QED
    BY <1>11, <2>2, <2>3, <2>4 DEF Return, Go
<1>12. ASSUME NEW w \in Workers, Complete(w) PROVE PaymentInv'
  <2>1. AtWork(w) /\ ctx[w].target = NoTarget /\ ctx[w].kind \in Kinds
    BY <1>12 DEF Complete, At, AtWork, Working, TypeInv, StageInv, Stage
  <2>2. CASE ctx[w].kind = "refund" /\ ctx' = [ctx EXCEPT ![w].pc = "guard2", ![w].out = "completed"]
    <3> DEFINE c == [ctx[w] EXCEPT !.pc = "guard2", !.out = "completed"]
    <3>1. ctx' = [ctx EXCEPT ![w] = c] /\ ctx'[w] = c
      BY <2>2 DEF TypeInv, TypeOK
    <3>2. /\ ctx'[w].pc = "guard2" /\ ctx'[w].out = "completed"
          /\ ctx'[w].kind = ctx[w].kind /\ ctx'[w].seen = ctx[w].seen
      BY <3>1 DEF TypeInv, TypeOK, Context
    <3>3. Knows(w)' /\ Marked(w)'
      BY <1>12, <2>1, <3>2, Continues DEF Complete, World, Working
    <3>4. Done(w)'
      BY <1>12, <2>2, <2>1, <3>2, TargetsAssumption DEF Complete, At, Delivery, PaymentInv, Done, Served, Kinds
    <3> QED
      BY <1>12, <3>1, <3>3, <3>4, LocalStep DEF Complete, Sound
  <2>3. CASE ctx[w].kind # "refund" /\ ctx' = [ctx EXCEPT ![w].pc = "guard2", ![w].out = "succeeded"]
    <3> DEFINE c == [ctx[w] EXCEPT !.pc = "guard2", !.out = "succeeded"]
    <3>1. ctx' = [ctx EXCEPT ![w] = c] /\ ctx'[w] = c
      BY <2>3 DEF TypeInv, TypeOK
    <3>2. /\ ctx'[w].pc = "guard2" /\ ctx'[w].out = "succeeded"
          /\ ctx'[w].kind = ctx[w].kind /\ ctx'[w].seen = ctx[w].seen
      BY <3>1 DEF TypeInv, TypeOK, Context
    <3>3. Knows(w)' /\ Marked(w)'
      BY <1>12, <2>1, <3>2, Continues DEF Complete, World, Working
    <3>4. Done(w)'
      BY <1>12, <2>3, <2>1, <3>2, TargetsAssumption DEF Complete, At, Delivery, PaymentInv, Done, Served, Kinds
    <3> QED
      BY <1>12, <3>1, <3>3, <3>4, LocalStep DEF Complete, Sound
  <2>4. ASSUME NEW out \in {"review", "retry"}, Conclude(w, out) PROVE PaymentInv'
    <3>1. Sound(w)'
      BY <1>12, <2>1, <2>4, Concluded DEF Complete, World
    <3>2. ctx' = [ctx EXCEPT ![w] = [ctx[w] EXCEPT !.pc = "finish", !.out = out]]
      BY <2>4 DEF Conclude
    <3> QED
      BY <1>12, <3>1, <3>2, LocalStep DEF Complete
  <2> QED
    BY <1>12, <2>2, <2>3, <2>4 DEF Complete, Go
<1>13. ASSUME NEW outcome \in {"succeeded", "canceled"}, Settle(outcome) PROVE PaymentInv'
  <2>1. Grows /\ \A v \in Workers : Spares(v)
    BY <1>13, RowTypes DEF Settle, Grows, Spares, World, Delivery, TypeInv, TypeOK, Observation
  <2>2. PaidInv' /\ ReturnedInv'
    BY <1>13, RowTypes DEF Settle, PaymentInv, RowInv, PaidInv, ReturnedInv, TypeInv, TypeOK, PayRow, World, Delivery, Observation
  <2>3. CancelInv' /\ ToldOnce' /\ RefundRevokes' /\ SuccessDelivers'
    BY <1>13 DEF Settle, PaymentInv, RowInv, CancelInv, ToldOnce, RefundRevokes, SuccessDelivers,
       TypeInv, TypeOK, PayRow, World, Delivery, Observation
  <2> QED
    BY <2>1, <2>2, <2>3, StepOfNone DEF RowInv
<1>14. CASE RefundAtProvider
  <2>1. Grows /\ \A v \in Workers : Spares(v)
    BY <1>14, RowTypes DEF RefundAtProvider, Grows, Spares, World, Delivery, TypeInv, TypeOK, Observation
  <2>2. PaidInv' /\ ReturnedInv'
    BY <1>14, RowTypes DEF RefundAtProvider, PaymentInv, RowInv, PaidInv, ReturnedInv, TypeInv, TypeOK, PayRow, World, Delivery, Observation
  <2>3. CancelInv' /\ ToldOnce' /\ RefundRevokes' /\ SuccessDelivers'
    BY <1>14 DEF RefundAtProvider, PaymentInv, RowInv, CancelInv, ToldOnce, RefundRevokes, SuccessDelivers,
       TypeInv, TypeOK, PayRow, World, Delivery, Observation
  <2> QED
    BY <2>1, <2>2, <2>3, StepOfNone DEF RowInv
<1>15. CASE SetBlocked
  <2>1. Grows /\ \A v \in Workers : Spares(v)
    BY <1>15, RowTypes DEF SetBlocked, Grows, Spares, World, Delivery, TypeInv, TypeOK
  <2>2. PaidInv' /\ ReturnedInv'
    BY <1>15, RowTypes DEF SetBlocked, PaymentInv, RowInv, PaidInv, ReturnedInv, TypeInv, TypeOK, PayRow, World, Delivery
  <2>3. CancelInv' /\ ToldOnce' /\ RefundRevokes' /\ SuccessDelivers'
    BY <1>15 DEF SetBlocked, PaymentInv, RowInv, CancelInv, ToldOnce, RefundRevokes, SuccessDelivers,
       TypeInv, TypeOK, PayRow, World, Delivery
  <2> QED
    BY <2>1, <2>2, <2>3, StepOfNone DEF RowInv
<1>16. CASE ExpireLease
  <2>1. Grows /\ \A v \in Workers : Spares(v)
    BY <1>16, RowTypes DEF ExpireLease, Grows, Spares, World, Delivery, TypeInv, TypeOK
  <2>2. PaidInv' /\ ReturnedInv'
    BY <1>16, RowTypes DEF ExpireLease, PaymentInv, RowInv, PaidInv, ReturnedInv, TypeInv, TypeOK, PayRow, World, Delivery
  <2>3. CancelInv' /\ ToldOnce' /\ RefundRevokes' /\ SuccessDelivers'
    BY <1>16 DEF ExpireLease, PaymentInv, RowInv, CancelInv, ToldOnce, RefundRevokes, SuccessDelivers,
       TypeInv, TypeOK, PayRow, World, Delivery
  <2> QED
    BY <2>1, <2>2, <2>3, StepOfNone DEF RowInv
<1>17. ASSUME NEW call \in wire, LateCall(call) PROVE PaymentInv'
  <2>1. Grows /\ \A v \in Workers : Spares(v)
    BY <1>17, RowTypes DEF LateCall, Grows, Spares, World, Delivery, TypeInv, TypeOK, Executed, Refused, Calls, Kinds
  <2>2. PaidInv' /\ ReturnedInv'
    BY <1>17, RowTypes DEF LateCall, PaymentInv, RowInv, PaidInv, ReturnedInv, TypeInv, TypeOK, PayRow, World, Delivery, Executed, Refused, Calls, Kinds
  <2>3. CancelInv' /\ ToldOnce' /\ RefundRevokes' /\ SuccessDelivers'
    BY <1>17 DEF LateCall, PaymentInv, RowInv, CancelInv, ToldOnce, RefundRevokes, SuccessDelivers,
       TypeInv, TypeOK, PayRow, World, Delivery, Executed, Refused, Calls, Kinds
  <2> QED
    BY <2>1, <2>2, <2>3, StepOfNone DEF RowInv
<1>18. ASSUME NEW w \in Workers, StartJob(w) PROVE PaymentInv'
  <2>1. Kept(w)
    BY <1>18, RowTypes, WorkersAssumption
       DEF StartJob, Kept, Grows, Spares, Go, Stop, World, Delivery, TypeInv, TypeOK, PayRow, Released
  <2>2. Sound(w)'
    <3>1. CASE Stop(w)
      BY <3>1, Stopped DEF Stop, TypeInv, TypeOK
    <3>2. CASE ctx' = [ctx EXCEPT ![w].pc = "select"]
      <4>1. ctx'[w] = [ctx[w] EXCEPT !.pc = "select"]
        BY <3>2 DEF TypeInv, TypeOK
      <4>2. ctx'[w].pc = "select" /\ ctx'[w].seen = ctx[w].seen
        BY <4>1 DEF TypeInv, TypeOK, Context
      <4>3. Knows(w)'
        BY <1>18, <3>2, <4>2, SeenType, RowTypes
           DEF StartJob, At, World, Working, PaymentInv, Knows, RowInv, PaidInv, PayRow, TypeInv, TypeOK
      <4> QED BY <4>2, <4>3, Prepares DEF Working
    <3> QED
      BY <1>18, <3>1, <3>2 DEF StartJob, Go, At
  <2>3. PaidInv' /\ ReturnedInv'
    BY <1>18, RowTypes, SeenType
       DEF StartJob, At, Go, Stop, PaymentInv, Knows, Working, RowInv, PaidInv, ReturnedInv, World,
           Delivery, TypeInv, TypeOK, PayRow, Released
  <2>4. CancelInv' /\ ToldOnce' /\ RefundRevokes' /\ SuccessDelivers'
    BY <1>18 DEF StartJob, At, PaymentInv, Knows, Working, RowInv, PaidInv, CancelInv, ToldOnce,
       RefundRevokes, SuccessDelivers, World, Delivery, TypeInv, TypeOK, PayRow, Released
  <2> QED
    BY <2>1, <2>2, <2>3, <2>4, StepOf DEF RowInv
<1>19. ASSUME NEW w \in Workers, RecordRefund(w) PROVE PaymentInv'
  <2>1. Kept(w)
    BY <1>19, RowTypes, WorkersAssumption
       DEF RecordRefund, Kept, Grows, Spares, Go, Stop, World, Delivery, TypeInv, TypeOK, PayRow
  <2>2. Sound(w)'
    <3>1. CASE Stop(w)
      BY <3>1, Stopped DEF Stop, TypeInv, TypeOK
    <3>2. CASE ctx' = [ctx EXCEPT ![w].pc = "handle"]
      <4>1. ctx'[w] = [ctx[w] EXCEPT !.pc = "handle"]
        BY <3>2 DEF TypeInv, TypeOK
      <4>2. ctx'[w].pc = "handle" /\ ctx'[w].seen = ctx[w].seen
        BY <4>1 DEF TypeInv, TypeOK, Context
      <4>3. Knows(w)'
        BY <1>19, <3>2, <4>2, SeenType, RowTypes
           DEF RecordRefund, At, World, Working, PaymentInv, Knows, RowInv, PaidInv, PayRow, TypeInv, TypeOK
      <4> QED BY <4>2, <4>3, Prepares DEF Working
    <3>3. CASE ctx' = [ctx EXCEPT ![w].pc = "accept"]
      <4>1. ctx'[w] = [ctx[w] EXCEPT !.pc = "accept"]
        BY <3>3 DEF TypeInv, TypeOK
      <4>2. ctx'[w].pc = "accept" /\ ctx'[w].seen = ctx[w].seen
        BY <4>1 DEF TypeInv, TypeOK, Context
      <4>3. Knows(w)'
        BY <1>19, <3>3, <4>2, SeenType, RowTypes
           DEF RecordRefund, At, World, Working, PaymentInv, Knows, RowInv, PaidInv, PayRow, TypeInv, TypeOK
      <4> QED BY <4>2, <4>3, Prepares DEF Working
    <3> QED
      BY <1>19, <3>1, <3>2, <3>3 DEF RecordRefund, Go, At
  <2>3. PaidInv' /\ ReturnedInv'
    BY <1>19, RowTypes, SeenType
       DEF RecordRefund, At, Go, Stop, PaymentInv, Knows, Working, RowInv, PaidInv, ReturnedInv, World,
           Delivery, TypeInv, TypeOK, PayRow
  <2>4. CancelInv' /\ ToldOnce' /\ RefundRevokes' /\ SuccessDelivers'
    BY <1>19 DEF RecordRefund, At, PaymentInv, Knows, Working, RowInv, PaidInv, CancelInv, ToldOnce,
       RefundRevokes, SuccessDelivers, World, Delivery, TypeInv, TypeOK, PayRow
  <2> QED
    BY <2>1, <2>2, <2>3, <2>4, StepOf DEF RowInv
<1>20. ASSUME NEW w \in Workers, Accept(w) PROVE PaymentInv'
  <2>1. \A v \in Workers \ {w} : ctx'[v] = ctx[v]
    BY <1>20 DEF Accept, Go, Stop, TypeInv, TypeOK
  <2>2. Sound(w)'
    <3>1. CASE Stop(w)
      BY <3>1, Stopped DEF Stop, TypeInv, TypeOK
    <3>2. CASE ctx[w].seen.status = "succeeded" /\ ctx' = [ctx EXCEPT ![w].pc = "apply"]
      <4>1. ctx'[w] = [ctx[w] EXCEPT !.pc = "apply"]
        BY <3>2 DEF TypeInv, TypeOK
      <4>2. ctx'[w].pc = "apply" /\ ctx'[w].seen = ctx[w].seen
        BY <4>1 DEF TypeInv, TypeOK, Context
      <4>3. Knows(w)'
        BY <1>20, <3>2, <4>2, SeenType, RowTypes
           DEF Accept, At, World, Working, PaymentInv, Knows, RowInv, PaidInv, PayRow, TypeInv, TypeOK
      <4> QED BY <4>2, <4>3, Prepares DEF Working
    <3> QED
      BY <1>20, <3>1, <3>2 DEF Accept, Go, At
  <2>3. /\ pay'.owner = pay.owner /\ pay'.refund = pay.refund /\ pay'.refunded = pay.refunded
        /\ pay'.fulfillment = pay.fulfillment
        /\ UNCHANGED <<remote, node, wire, revoking>>
    <3>1. \/ pay' = pay
          \/ pay' = [pay EXCEPT !.provider = "succeeded"]
          \/ pay' = [pay EXCEPT !.provider = "canceled", !.status = "cancelled"]
      BY <1>20 DEF Accept
    <3>2. UNCHANGED <<remote, node, wire, revoking>>
      BY <1>20 DEF Accept, World, Delivery
    <3>3. CASE pay' = pay
      BY <3>2, <3>3
    <3>4. CASE pay' = [pay EXCEPT !.provider = "succeeded"]
      BY <3>2, <3>4 DEF TypeInv, TypeOK, PayRow
    <3>5. CASE pay' = [pay EXCEPT !.provider = "canceled", !.status = "cancelled"]
      BY <3>2, <3>5 DEF TypeInv, TypeOK, PayRow
    <3> QED
      BY <3>1, <3>3, <3>4, <3>5
  <2>4. \/ /\ pay'.provider = "succeeded" /\ remote.status = "succeeded"
           /\ pay'.status = pay.status /\ told' = told
        \/ /\ pay'.provider = "canceled" /\ remote.status = "canceled"
           /\ pay'.status = "cancelled" /\ pay.status # "cancelled"
           /\ told' = [told EXCEPT !["cancelled"] = @ + 1]
        \/ pay' = pay /\ told' = told
    BY <1>20 DEF Accept, PaymentInv, Knows, TypeInv, TypeOK, PayRow
  <2>5. Kept(w)
    BY <2>1, <2>3, RowTypes DEF Kept, Grows, Spares
  <2>6. PaidInv' /\ ReturnedInv'
    BY <2>3, <2>4 DEF PaymentInv, RowInv, PaidInv, ReturnedInv
  <2>7. CancelInv' /\ ToldOnce' /\ RefundRevokes' /\ SuccessDelivers'
    BY <2>3, <2>4 DEF PaymentInv, RowInv, CancelInv, ToldOnce, RefundRevokes, SuccessDelivers, TypeInv, TypeOK
  <2> QED
    BY <2>2, <2>5, <2>6, <2>7, StepOf DEF RowInv
<1>21. ASSUME NEW w \in Workers, Apply(w) PROVE PaymentInv'
  <2>1. Kept(w)
    BY <1>21, RowTypes, WorkersAssumption
       DEF Apply, Kept, Grows, Spares, Go, Stop, World, Delivery, TypeInv, TypeOK, PayRow
  <2>2. Sound(w)'
    <3>1. CASE Stop(w)
      BY <3>1, Stopped DEF Stop, TypeInv, TypeOK
    <3>2. CASE ctx[w].pc = "apply" /\ ctx' = [ctx EXCEPT ![w].pc = "claim", ![w].kind = "fulfillment"]
      <4>1. ctx'[w] = [ctx[w] EXCEPT !.pc = "claim", !.kind = "fulfillment"]
        BY <3>2 DEF TypeInv, TypeOK
      <4>2. ctx'[w].pc = "claim" /\ ctx'[w].seen = ctx[w].seen /\ ctx'[w].kind = "fulfillment"
        BY <4>1 DEF TypeInv, TypeOK, Context
      <4>3. Knows(w)'
        BY <1>21, <3>2, <4>2, SeenType, RowTypes
           DEF Apply, At, World, Working, PaymentInv, Knows, RowInv, PaidInv, PayRow, TypeInv, TypeOK
      <4> QED BY <4>2, <4>3, Prepares DEF Working
    <3> QED
      BY <1>21, <3>1, <3>2 DEF Apply, Go, At
  <2>3. PaidInv' /\ ReturnedInv'
    BY <1>21, RowTypes, SeenType
       DEF Apply, At, Go, Stop, PaymentInv, Knows, Working, RowInv, PaidInv, ReturnedInv, World,
           Delivery, TypeInv, TypeOK, PayRow
  <2>4. CancelInv' /\ ToldOnce' /\ RefundRevokes' /\ SuccessDelivers'
    BY <1>21 DEF Apply, At, PaymentInv, Knows, Working, RowInv, PaidInv, CancelInv, ToldOnce,
       RefundRevokes, SuccessDelivers, World, Delivery, TypeInv, TypeOK, PayRow
  <2> QED
    BY <2>1, <2>2, <2>3, <2>4, StepOf DEF RowInv
<1>22. ASSUME NEW w \in Workers, StoreRefund(w) PROVE PaymentInv'
  <2>1. \A v \in Workers \ {w} : ctx'[v] = ctx[v]
    BY <1>22 DEF StoreRefund, Go, Stop, TypeInv, TypeOK
  <2>3. /\ pay'.owner = pay.owner /\ pay'.refund = pay.refund /\ pay'.status = pay.status
        /\ pay'.fulfillment = pay.fulfillment
        /\ UNCHANGED <<remote, node, wire, revoking, told>>
        /\ pay'.provider = pay.provider \/ (pay'.provider = "succeeded" /\ remote.status = "succeeded")
        /\ pay'.refunded = pay.refunded \/ pay'.refunded = ctx[w].seen.refunded
    <3>1. \/ pay' = pay
          \/ /\ ctx[w].seen.status = "succeeded"
             /\ pay' = [pay EXCEPT !.refunded = ctx[w].seen.refunded, !.provider = "succeeded"]
      BY <1>22 DEF StoreRefund
    <3>2. UNCHANGED <<remote, node, wire, revoking, told>>
      BY <1>22 DEF StoreRefund, World, Delivery
    <3>3. ctx[w].seen.status = "succeeded" => remote.status = "succeeded"
      BY DEF PaymentInv, Knows
    <3>4. CASE pay' = pay
      BY <3>2, <3>4
    <3>5. CASE /\ ctx[w].seen.status = "succeeded"
               /\ pay' = [pay EXCEPT !.refunded = ctx[w].seen.refunded, !.provider = "succeeded"]
      BY <3>2, <3>3, <3>5 DEF TypeInv, TypeOK, PayRow
    <3> QED
      BY <3>1, <3>4, <3>5
  <2>5. Kept(w)
    BY <2>1, <2>3, RowTypes DEF Kept, Grows, Spares
  <2>6. PaidInv' /\ ReturnedInv'
    BY <2>3, RowTypes, SeenType DEF PaymentInv, RowInv, PaidInv, ReturnedInv, Knows
  <2>7. CancelInv' /\ ToldOnce' /\ RefundRevokes' /\ SuccessDelivers'
    BY <2>3 DEF PaymentInv, RowInv, CancelInv, ToldOnce, RefundRevokes, SuccessDelivers
  <2>8. Sound(w)'
    <3>1. CASE Stop(w)
      BY <3>1, Stopped DEF Stop, TypeInv, TypeOK
    <3>2. CASE ctx' = [ctx EXCEPT ![w].pc = "partial"]
      <4>1. ctx'[w] = [ctx[w] EXCEPT !.pc = "partial"]
        BY <3>2 DEF TypeInv, TypeOK
      <4>2. ctx'[w].pc = "partial" /\ ctx'[w].seen = ctx[w].seen
        BY <4>1 DEF TypeInv, TypeOK, Context
      <4> QED BY <2>3, <4>2, Prepares DEF PaymentInv, Knows, Working
    <3>3. CASE /\ ctx' = [ctx EXCEPT ![w].pc = "claim", ![w].kind = "refund"]
               /\ ctx[w].seen.status = "succeeded" /\ ~(pay'.refunded < Price)
      <4>1. ctx'[w] = [ctx[w] EXCEPT !.pc = "claim", !.kind = "refund"]
        BY <3>3 DEF TypeInv, TypeOK
      <4>2. ctx'[w].pc = "claim" /\ ctx'[w].seen = ctx[w].seen
        BY <4>1 DEF TypeInv, TypeOK, Context
      <4>3. remote.refunded = Price /\ remote.status = "succeeded"
        BY <3>3, <2>3, RowTypes, SeenType, PriceAssumption DEF PaymentInv, Knows, RowInv, PaidInv
      <4> QED BY <2>3, <4>2, <4>3, Prepares DEF PaymentInv, Knows, Working
    <3> QED
      BY <1>22, <3>1, <3>2, <3>3 DEF StoreRefund, Go
  <2> QED
    BY <2>5, <2>6, <2>7, <2>8, StepOf DEF RowInv
<1>23. ASSUME NEW w \in Workers, PartialRefund(w) PROVE PaymentInv'
  <2>1. Kept(w)
    BY <1>23, RowTypes, WorkersAssumption
       DEF PartialRefund, Kept, Grows, Spares, Go, Stop, World, Delivery, TypeInv, TypeOK, PayRow
  <2>2. Sound(w)'
    BY <1>23, Stopped DEF PartialRefund, Stop, TypeInv, TypeOK
  <2>3. PaidInv' /\ ReturnedInv'
    BY <1>23, RowTypes, SeenType
       DEF PartialRefund, At, Go, Stop, PaymentInv, Knows, Working, RowInv, PaidInv, ReturnedInv, World,
           Delivery, TypeInv, TypeOK, PayRow
  <2>4. CancelInv' /\ ToldOnce' /\ RefundRevokes' /\ SuccessDelivers'
    BY <1>23 DEF PartialRefund, At, PaymentInv, Knows, Working, RowInv, PaidInv, CancelInv, ToldOnce,
       RefundRevokes, SuccessDelivers, World, Delivery, TypeInv, TypeOK, PayRow
  <2> QED
    BY <2>1, <2>2, <2>3, <2>4, StepOf DEF RowInv
<1>24. ASSUME NEW w \in Workers, Claim(w) PROVE PaymentInv'
  <2>1. /\ ctx[w].pc = "claim" /\ ctx[w].kind \in Kinds
        /\ UNCHANGED <<remote, node, wire, revoking, told>>
    BY <1>24 DEF Claim, At, World, Delivery, TypeInv, StageInv, Stage
  <2>2. CASE Stop(w) /\ UNCHANGED pay
    <3>1. ctx' = [ctx EXCEPT ![w] = Idle] /\ ctx'[w] = Idle
      BY <2>2 DEF Stop, TypeInv, TypeOK
    <3> QED BY <1>24, <2>2, <3>1, Stopped, LocalStep DEF Claim
  <2>3. CASE Claimable(ctx[w].kind) /\ pay' = Claimed(w, ctx[w].kind)
    <3>1. /\ \A v \in Workers \ {w} : ctx'[v] = ctx[v]
          /\ \/ ctx'[w] = [ctx[w] EXCEPT !.pc = "guard"]
             \/ ctx'[w] = [ctx[w] EXCEPT !.pc = "finish", !.out = "review"]
      BY <1>24, <2>3 DEF Claim, Go, Conclude, TypeInv, TypeOK
    <3>2. /\ ctx'[w].kind = ctx[w].kind /\ ctx'[w].seen = ctx[w].seen
          /\ ctx'[w].pc = "guard" \/ (ctx'[w].pc = "finish" /\ ctx'[w].out = "review")
      <4>1. CASE ctx'[w] = [ctx[w] EXCEPT !.pc = "guard"]
        <5>1. ctx[w] \in Context
          BY DEF TypeInv, TypeOK
        <5> QED BY <4>1, <5>1 DEF Context
      <4>2. CASE ctx'[w] = [ctx[w] EXCEPT !.pc = "finish", !.out = "review"]
        BY <4>2 DEF TypeInv, TypeOK, Context
      <4> QED BY <3>1, <4>1, <4>2
    <3>3. /\ pay'.owner = w /\ pay.owner = NoOwner
          /\ pay'.provider = pay.provider /\ pay'.refunded = pay.refunded
      BY <2>3 DEF Claimable, Claimed, TypeInv, TypeOK, PayRow
    <3>4. \/ /\ ctx[w].kind = "refund" /\ pay.refund # "completed"
             /\ pay'.refund = "processing" /\ UNCHANGED <<pay.status, pay.fulfillment>>
          \/ /\ ctx[w].kind = "fulfillment" /\ pay.fulfillment # "succeeded"
             /\ pay'.fulfillment = "processing" /\ pay'.status = "processing"
             /\ UNCHANGED pay.refund
      BY <2>1, <2>3 DEF Claimable, Claimed, TypeInv, TypeOK, PayRow, Kinds
    <3>5. remote.status = "succeeded"
      BY <2>1 DEF PaymentInv, Knows
    <3>6. Kept(w)
      BY <2>1, <3>1, <3>3, RowTypes DEF Kept, Grows, Spares
    <3>7. Sound(w)'
      BY <2>1, <3>2, <3>3, <3>4 DEF PaymentInv, Sound, Knows, Marked, Done, AtWork, Working, Kinds
    <3>8. PaidInv' /\ ReturnedInv'
      BY <2>1, <3>3, <3>4, <3>5 DEF PaymentInv, RowInv, PaidInv, ReturnedInv
    <3>9. CancelInv' /\ ToldOnce' /\ RefundRevokes' /\ SuccessDelivers'
      BY <2>1, <3>4, <3>5 DEF PaymentInv, RowInv, PaidInv, CancelInv, ToldOnce, RefundRevokes, SuccessDelivers
    <3> QED
      BY <3>6, <3>7, <3>8, <3>9, StepOf DEF RowInv
  <2> QED
    BY <1>24, <2>2, <2>3 DEF Claim
<1>25. ASSUME NEW w \in Workers, QueueRevoke(w) PROVE PaymentInv'
  <2>1. ctx'[w] = [ctx[w] EXCEPT !.pc = "item"] /\ ctx[w].pc = "queue" /\ ctx[w].kind = "refund"
    BY <1>25 DEF QueueRevoke, At, Go, TypeInv, TypeOK, StageInv, Stage
  <2>2. /\ ctx'[w].pc = "item" /\ ctx'[w].kind = ctx[w].kind /\ ctx'[w].seen = ctx[w].seen
        /\ ctx'[w].todo = ctx[w].todo /\ ctx'[w].target = ctx[w].target
        /\ ctx'[w].failed = ctx[w].failed
    BY <2>1 DEF TypeInv, TypeOK, Context
  <2>3. UNCHANGED <<pay, told, remote, node, wire>> /\ remote.refunded = Price
    BY <1>25, <2>1 DEF QueueRevoke, World, PaymentInv, Knows, Working
  <2>4. Kept(w)
    BY <1>25, <2>3, RowTypes DEF QueueRevoke, Go, Kept, Grows, Spares, TypeInv, TypeOK
  <2>5. Sound(w)'
    BY <2>1, <2>2, <2>3 DEF PaymentInv, Sound, Knows, Marked, Done, Served, AtWork, Working
  <2>6. RowInv'
    BY <2>3 DEF PaymentInv, RowInv, PaidInv, ReturnedInv, CancelInv, ToldOnce, RefundRevokes, SuccessDelivers
  <2> QED
    BY <2>4, <2>5, <2>6, StepOf
<1>26. ASSUME NEW w \in Workers, Call(w) PROVE PaymentInv'
  <2>1. /\ ctx[w].pc = "call" /\ ctx[w].target \in Targets /\ ctx[w].kind \in Kinds
        /\ node' = Executed(ctx[w].kind, ctx[w].target)
        /\ UNCHANGED <<pay, told, remote, wire, revoking>>
    BY <1>26 DEF Call, At, World, Working, TypeInv, TypeOK, StageInv, Stage
  <2>2. ctx'[w] = [ctx[w] EXCEPT !.pc = "item", !.target = NoTarget,
                                 !.failed = @ \/ Refused(ctx[w].kind, ctx[w].target)]
    BY <1>26 DEF Call, TypeInv, TypeOK
  <2>3. /\ ctx'[w].pc = "item" /\ ctx'[w].kind = ctx[w].kind /\ ctx'[w].seen = ctx[w].seen
        /\ ctx'[w].todo = ctx[w].todo /\ ctx'[w].target = NoTarget
        /\ ctx'[w].failed = (ctx[w].failed \/ Refused(ctx[w].kind, ctx[w].target))
    BY <2>2 DEF TypeInv, TypeOK, Context
  <2>4. /\ remote.status = "succeeded"
        /\ ctx[w].kind = "refund" => remote.refunded = Price
    BY <2>1 DEF PaymentInv, Knows, Working
  <2>5. Kept(w)
    <3>1. Grows
      BY <2>1, RowTypes, ExecutedGrows DEF Grows
    <3> QED
      BY <1>26, <2>1, <3>1 DEF Call, Kept, Spares, TypeInv, TypeOK
  <2>6. Knows(w)' /\ Marked(w)'
    BY <2>1, <2>3, Continues DEF AtWork, Working
  <2>7. Done(w)'
    <3>1. ASSUME ~ctx'[w].failed, NEW t \in Targets \ ctx[w].todo
          PROVE  IF ctx[w].kind = "refund" THEN node'[t] = "revoked" ELSE node'[t] # "none"
      <4>1. CASE t = ctx[w].target
        BY <2>1, <2>3, <3>1, <4>1 DEF Executed, Refused, Kinds, TypeInv, TypeOK
      <4>2. CASE t # ctx[w].target
        BY <2>1, <2>3, <3>1, <4>2 DEF Executed, Refused, PaymentInv, Done, Served, TypeInv, TypeOK
      <4> QED BY <4>1, <4>2
    <3> QED
      BY <2>3, <3>1 DEF Done, Served
  <2>8. PaidInv' /\ ReturnedInv'
    BY <2>1, <2>4 DEF Executed, Refused, PaymentInv, RowInv, PaidInv, ReturnedInv, TypeInv, TypeOK
  <2>9. CancelInv' /\ ToldOnce' /\ RefundRevokes' /\ SuccessDelivers'
    BY <2>1, ExecutedGrows DEF PaymentInv, RowInv, CancelInv, ToldOnce, RefundRevokes, SuccessDelivers
  <2> QED
    BY <2>5, <2>6, <2>7, <2>8, <2>9, StepOf DEF RowInv, Sound
<1>27. ASSUME NEW w \in Workers, CallFails(w) PROVE PaymentInv'
  <2>1. Kept(w)
    BY <1>27, RowTypes, WorkersAssumption
       DEF CallFails, Kept, Grows, Spares, Go, Stop, World, Delivery, TypeInv, TypeOK, PayRow, Kinds
  <2>2. Sound(w)'
    <3>1. ctx'[w] = [ctx[w] EXCEPT !.pc = "item", !.target = NoTarget, !.failed = TRUE] /\ AtWork(w)
      BY <1>27 DEF CallFails, At, AtWork, Working, TypeInv, TypeOK
    <3>2. /\ ctx'[w].pc = "item" /\ ctx'[w].failed
          /\ ctx'[w].kind = ctx[w].kind /\ ctx'[w].seen = ctx[w].seen
      BY <3>1 DEF TypeInv, TypeOK, Context
    <3> QED
      BY <1>27, <3>1, <3>2, Continues DEF CallFails, World, Working, Sound, Done
  <2>3. PaidInv' /\ ReturnedInv'
    BY <1>27, RowTypes, SeenType
       DEF CallFails, At, Go, Stop, PaymentInv, Knows, Working, RowInv, PaidInv, ReturnedInv, World,
           Delivery, TypeInv, TypeOK, PayRow, Kinds
  <2>4. CancelInv' /\ ToldOnce' /\ RefundRevokes' /\ SuccessDelivers'
    BY <1>27 DEF CallFails, At, PaymentInv, Knows, Working, RowInv, PaidInv, CancelInv, ToldOnce,
       RefundRevokes, SuccessDelivers, World, Delivery, TypeInv, TypeOK, PayRow, Kinds
  <2> QED
    BY <2>1, <2>2, <2>3, <2>4, StepOf DEF RowInv
<1>28. ASSUME NEW w \in Workers, Finish(w) PROVE PaymentInv'
  <2>1. /\ AtWork(w) /\ ctx[w].pc = "finish" /\ ctx[w].kind \in Kinds
        /\ ctx[w].out \in IF ctx[w].kind = "refund" THEN {"completed", "pending", "error"}
                          ELSE {"succeeded", "blocked", "review", "retry"}
        /\ ctx' = [ctx EXCEPT ![w] = Idle]
        /\ UNCHANGED <<remote, node, wire, revoking>>
    BY <1>28 DEF Finish, At, AtWork, Working, Stop, World, Delivery, TypeInv, StageInv, Stage
  <2>2. Sound(w)' /\ \A v \in Workers \ {w} : ctx'[v] = ctx[v]
    BY <2>1, Stopped DEF TypeInv, TypeOK
  <2>3. CASE UNCHANGED <<pay, told>>
    BY <1>28, <2>1, <2>2, <2>3, LocalStep DEF Finish
  <2>4. CASE /\ Holds(w)
             /\ pay' = [Outcome(ctx[w].out) EXCEPT !.owner = NoOwner, !.expired = FALSE]
             /\ told' = Announce(ctx[w].out)
    <3>1. pay' = [Outcome(ctx[w].out) EXCEPT !.owner = NoOwner, !.expired = FALSE]
      BY <2>4
    <3>2. IF ctx[w].kind = "refund" THEN pay.refund = "processing" ELSE pay.fulfillment = "processing"
      BY <2>1, <2>4 DEF Holds, PaymentInv, Marked
    <3>3. remote.status = "succeeded"
      BY <2>1 DEF PaymentInv, Knows, AtWork
    <3>4. /\ pay'.owner = NoOwner /\ pay'.provider = pay.provider /\ pay'.refunded = pay.refunded
          /\ \/ /\ ctx[w].kind = "fulfillment"
                /\ pay'.status \in {"succeeded", "pending"}
                /\ pay'.fulfillment = ctx[w].out /\ pay'.refund = pay.refund
             \/ /\ ctx[w].kind = "refund"
                /\ pay'.status \in {"refunded", pay.status}
                /\ pay'.fulfillment = pay.fulfillment
                /\ pay'.refund = IF ctx[w].out = "completed" THEN "completed" ELSE "pending"
      <4>1. CASE ctx[w].out = "succeeded"
        <5>1. Outcome(ctx[w].out) = [pay EXCEPT !.status = "succeeded", !.fulfillment = "succeeded"]
          BY <4>1 DEF Outcome
        <5>2. pay' = [pay EXCEPT !.status = "succeeded", !.fulfillment = "succeeded",
                                 !.owner = NoOwner, !.expired = FALSE]
          BY <3>1, <5>1
        <5>3. ctx[w].kind = "fulfillment"
          BY <2>1, <4>1 DEF Kinds
        <5> QED BY <4>1, <5>2, <5>3 DEF TypeInv, TypeOK, PayRow
      <4>2. CASE ctx[w].out \in {"blocked", "review", "retry"}
        BY <2>1, <3>1, <4>2 DEF Outcome, Kinds, TypeInv, TypeOK, PayRow
      <4>3. CASE ctx[w].out \in {"completed", "pending"}
        BY <2>1, <3>1, <4>3 DEF Outcome, Kinds, TypeInv, TypeOK, PayRow
      <4>4. CASE ctx[w].out = "error"
        BY <2>1, <3>1, <4>4 DEF Outcome, Kinds, TypeInv, TypeOK, PayRow
      <4> QED BY <2>1, <4>1, <4>2, <4>3, <4>4
    <3>5. \/ ctx[w].out = "succeeded" /\ told' = [told EXCEPT !["succeeded"] = @ + 1]
          \/ ctx[w].out = "completed" /\ told' = [told EXCEPT !["refunded"] = @ + 1]
          \/ ctx[w].out \notin {"succeeded", "completed"} /\ told' = told
      BY <2>4 DEF Announce
    <3>6. /\ ctx[w].out = "succeeded" => \A t \in Targets : node[t] # "none"
          /\ ctx[w].out = "completed" => \A t \in Targets : node[t] = "revoked"
      BY <2>1 DEF PaymentInv, Done, Served
    <3>7. Kept(w)
      BY <2>1, <2>2, <3>4, RowTypes, WorkersAssumption DEF Kept, Grows, Spares
    <3>8. PaidInv' /\ ReturnedInv'
      BY <2>1, <3>3, <3>4 DEF PaymentInv, RowInv, PaidInv, ReturnedInv
    <3>9. CancelInv' /\ ToldOnce'
      BY <2>1, <3>2, <3>3, <3>4, <3>5 DEF PaymentInv, RowInv, PaidInv, CancelInv, ToldOnce, TypeInv, TypeOK
    <3>10. RefundRevokes' /\ SuccessDelivers'
      BY <2>1, <3>2, <3>4, <3>6 DEF PaymentInv, RowInv, RefundRevokes, SuccessDelivers
    <3> QED
      BY <2>2, <3>7, <3>8, <3>9, <3>10, StepOf DEF RowInv
  <2> QED
    BY <1>28, <2>3, <2>4 DEF Finish
<1>29. ASSUME NEW w \in Workers, Crash(w) PROVE PaymentInv'
  <2>1. Kept(w)
    BY <1>29, RowTypes, WorkersAssumption
       DEF Crash, Kept, Grows, Spares, Go, Stop, World, Delivery, TypeInv, TypeOK, PayRow, Kinds
  <2>2. Sound(w)'
    BY <1>29, Stopped DEF Crash, Stop, TypeInv, TypeOK
  <2>3. PaidInv' /\ ReturnedInv'
    BY <1>29, RowTypes, SeenType
       DEF Crash, At, Go, Stop, PaymentInv, Knows, Working, RowInv, PaidInv, ReturnedInv, World,
           Delivery, TypeInv, TypeOK, PayRow, Kinds
  <2>4. CancelInv' /\ ToldOnce' /\ RefundRevokes' /\ SuccessDelivers'
    BY <1>29 DEF Crash, At, PaymentInv, Knows, Working, RowInv, PaidInv, CancelInv, ToldOnce,
       RefundRevokes, SuccessDelivers, World, Delivery, TypeInv, TypeOK, PayRow, Kinds
  <2> QED
    BY <2>1, <2>2, <2>3, <2>4, StepOf DEF RowInv
<1>30. CASE UNCHANGED vars
  <2>1. Grows /\ \A v \in Workers : Spares(v)
    BY <1>30, RowTypes DEF vars, Grows, Spares
  <2>2. RowInv'
    BY <1>30 DEF vars, PaymentInv, RowInv, PaidInv, ReturnedInv, CancelInv, ToldOnce,
       RefundRevokes, SuccessDelivers
  <2> QED
    BY <2>1, <2>2, StepOfNone
<1> QED
  BY <1>1, <1>2, <1>3, <1>4, <1>5, <1>6, <1>7, <1>8, <1>9, <1>10, <1>11, <1>12, <1>13, <1>14, <1>15, <1>16, <1>17, <1>18, <1>19, <1>20, <1>21, <1>22, <1>23, <1>24, <1>25, <1>26, <1>27, <1>28, <1>29, <1>30 DEF Next, Work

(* What every process knows where it stands, and what the row says, holds  *)
(* in every reachable state of billing.py's processes.                     *)
THEOREM PaymentInvariant == Spec => []PaymentInv
<1>1. TypeInv /\ TypeInv' /\ PaymentInv /\ [Next]_vars => PaymentInv'
  BY PaymentStep
<1> QED
  BY <1>1, PaymentInit, Typing, PTL DEF Spec

-----------------------------------------------------------------------------
(* What the runs check on small instances. *)

(* However many webhooks, polls and takeovers settle a payment, its user   *)
(* is told of each outcome once, and only of the outcome the row has.      *)
THEOREM OutcomeToldOnce == Spec => []ToldOnce
<1>1. PaymentInv => ToldOnce BY DEF PaymentInv, RowInv
<1> QED BY <1>1, PaymentInvariant, PTL

(* Access is granted only for money received, and withdrawn only for money *)
(* returned.                                                               *)
THEOREM AccessIsPaidFor == Spec => []AccessFollowsMoney
<1>1. PaymentInv => AccessFollowsMoney
  BY DEF PaymentInv, RowInv, PaidInv, ReturnedInv, AccessFollowsMoney
<1> QED BY <1>1, PaymentInvariant, PTL

(* After a completed refund no call, however late, restores access.        *)
THEOREM RefundIsFinal == Spec => []RefundRevokes
<1>1. PaymentInv => RefundRevokes BY DEF PaymentInv, RowInv
<1> QED BY <1>1, PaymentInvariant, PTL

(* A payment recorded as delivered was delivered to every target.          *)
THEOREM DeliveryIsComplete == Spec => []SuccessDelivers
<1>1. PaymentInv => SuccessDelivers BY DEF PaymentInv, RowInv
<1> QED BY <1>1, PaymentInvariant, PTL

(* The row is never ahead of the provider, whatever order answers come in. *)
THEOREM RowIsHonest == Spec => []RowFollowsProvider
<1>1. PaymentInv => RowFollowsProvider
  BY DEF PaymentInv, RowInv, PaidInv, RowFollowsProvider
<1> QED BY <1>1, PaymentInvariant, PTL

(* No step takes back an amount, a payment, a delivery or a refund that    *)
(* the row has recorded.                                                   *)
THEOREM NothingForgotten == Spec => MoneyNeverForgotten
<1> DEFINE Keeps ==
      /\ pay'.refunded >= pay.refunded
      /\ pay.provider = "succeeded" => pay'.provider = "succeeded"
      /\ pay.refund = "completed" => pay'.refund = "completed"
      /\ pay.fulfillment = "succeeded" => pay'.fulfillment = "succeeded"
<1>1. ASSUME TypeInv, PaymentInv, [Next]_vars PROVE [Keeps]_pay
  <2> SUFFICES ASSUME pay' # pay PROVE Keeps
    OBVIOUS
  <2> USE <1>1, RowTypes, PriceAssumption
  <2>1. CASE ExpireLease
    BY <2>1 DEF ExpireLease, TypeInv, TypeOK, PayRow
  <2>2. ASSUME NEW w \in Workers, StartJob(w) PROVE Keeps
    BY <2>2 DEF StartJob, Released, TypeInv, TypeOK, PayRow
  <2>3. ASSUME NEW w \in Workers, RecordRefund(w) PROVE Keeps
    BY <2>3, SeenType DEF RecordRefund, TypeInv, TypeOK, PayRow
  <2>4. ASSUME NEW w \in Workers, Accept(w) PROVE Keeps
    <3>1. \/ pay' = [pay EXCEPT !.provider = "succeeded"]
          \/ pay' = [pay EXCEPT !.provider = "canceled", !.status = "cancelled"] /\ pay.provider # "succeeded"
      BY <2>4 DEF Accept
    <3>2. CASE pay' = [pay EXCEPT !.provider = "succeeded"]
      BY <3>2 DEF TypeInv, TypeOK, PayRow
    <3>3. CASE pay' = [pay EXCEPT !.provider = "canceled", !.status = "cancelled"] /\ pay.provider # "succeeded"
      BY <3>3 DEF TypeInv, TypeOK, PayRow
    <3> QED BY <3>1, <3>2, <3>3
  <2>5. ASSUME NEW w \in Workers, Apply(w) PROVE Keeps
    BY <2>5 DEF Apply, TypeInv, TypeOK, PayRow
  <2>6. ASSUME NEW w \in Workers, StoreRefund(w) PROVE Keeps
    <3>1. /\ pay.refunded <= ctx[w].seen.refunded
          /\ pay' = [pay EXCEPT !.refunded = ctx[w].seen.refunded, !.provider = "succeeded"]
      BY <2>6 DEF StoreRefund
    <3> QED BY <3>1, SeenType DEF TypeInv, TypeOK, PayRow
  <2>7. ASSUME NEW w \in Workers, PartialRefund(w) PROVE Keeps
    BY <2>7 DEF PartialRefund, TypeInv, TypeOK, PayRow
  <2>8. ASSUME NEW w \in Workers, Claim(w) PROVE Keeps
    <3>1. \/ pay.refund # "completed" /\ pay' = [pay EXCEPT !.owner = w, !.expired = FALSE, !.refund = "processing"]
          \/ /\ pay.fulfillment # "succeeded"
             /\ pay' = [pay EXCEPT !.owner = w, !.expired = FALSE,
                                   !.fulfillment = "processing", !.status = "processing"]
      BY <2>8 DEF Claim, Claimable, Claimed
    <3>2. CASE pay.refund # "completed" /\ pay' = [pay EXCEPT !.owner = w, !.expired = FALSE, !.refund = "processing"]
      BY <3>2 DEF TypeInv, TypeOK, PayRow
    <3>3. CASE /\ pay.fulfillment # "succeeded"
               /\ pay' = [pay EXCEPT !.owner = w, !.expired = FALSE,
                                     !.fulfillment = "processing", !.status = "processing"]
      BY <3>3 DEF TypeInv, TypeOK, PayRow
    <3> QED BY <3>1, <3>2, <3>3
  <2>9. ASSUME NEW w \in Workers, Finish(w) PROVE Keeps
    <3>1. /\ pay' = [Outcome(ctx[w].out) EXCEPT !.owner = NoOwner, !.expired = FALSE]
          /\ Holds(w) /\ AtWork(w)
      BY <2>9 DEF Finish, At, AtWork, Working
    <3>2. IF ctx[w].kind = "refund" THEN pay.refund = "processing" ELSE pay.fulfillment = "processing"
      BY <3>1 DEF Holds, PaymentInv, Marked
    <3>3. ctx[w].out \in IF ctx[w].kind = "refund" THEN {"completed", "pending", "error"}
                         ELSE {"succeeded", "blocked", "review", "retry"}
      BY <2>9 DEF Finish, At, TypeInv, StageInv, Stage
    <3>4. CASE ctx[w].out = "succeeded"
      <4>1. Outcome(ctx[w].out) = [pay EXCEPT !.status = "succeeded", !.fulfillment = "succeeded"]
        BY <3>4 DEF Outcome
      <4>2. pay' = [pay EXCEPT !.status = "succeeded", !.fulfillment = "succeeded",
                               !.owner = NoOwner, !.expired = FALSE]
        BY <3>1, <4>1
      <4> QED BY <4>2 DEF TypeInv, TypeOK, PayRow
    <3>5. CASE ctx[w].out \in {"blocked", "review", "retry"}
      <4>1. Outcome(ctx[w].out) = [pay EXCEPT !.status = "pending", !.fulfillment = ctx[w].out]
        BY <3>5 DEF Outcome
      <4> QED BY <3>1, <3>2, <3>3, <3>5, <4>1 DEF TypeInv, TypeOK, PayRow
    <3>6. CASE ctx[w].out \in {"completed", "pending"}
      <4>1. Outcome(ctx[w].out) = [pay EXCEPT !.status = "refunded", !.refund = ctx[w].out]
        BY <3>6 DEF Outcome
      <4> QED BY <3>1, <3>2, <3>3, <3>6, <4>1 DEF TypeInv, TypeOK, PayRow
    <3>7. CASE ctx[w].out = "error"
      <4>1. Outcome(ctx[w].out) = [pay EXCEPT !.refund = "pending"]
        BY <3>7 DEF Outcome
      <4> QED BY <3>1, <3>2, <3>3, <3>7, <4>1 DEF TypeInv, TypeOK, PayRow
    <3> QED BY <3>3, <3>4, <3>5, <3>6, <3>7
  <2>10. UNCHANGED pay \/ ExpireLease
         \/ \E w \in Workers : \/ StartJob(w) \/ RecordRefund(w) \/ Accept(w) \/ Apply(w) \/ StoreRefund(w)
                               \/ PartialRefund(w) \/ Claim(w) \/ Finish(w)
    BY DEF Next, vars, Settle, RefundAtProvider, SetBlocked, Webhook, Work, PollSelect, ReconcileSelect,
       Handle, Guard, QueueRevoke, ItemGuard, Call, Return, Fence, Complete, SecondGuard, CallFails,
       OperationBusy, OperationLost, Crash, LateCall
  <2> QED
    BY <2>1, <2>2, <2>3, <2>4, <2>5, <2>6, <2>7, <2>8, <2>9, <2>10
<1>2. MoneyNeverForgotten <=> [][Keeps]_pay
  BY DEF MoneyNeverForgotten
<1> QED
  BY <1>1, <1>2, Typing, PaymentInvariant, PTL DEF Spec

-----------------------------------------------------------------------------
(* Nothing is left stranded.                                               *)

(* A row that shows work under way to its user is the row of a delivery.   *)
Stranding == NeverStranded /\ (pay.status = "processing" => pay.fulfillment = "processing")

(* A step either leaves what is under way alone, or it claims or releases  *)
(* the row and says so in the same update.                                 *)
LEMMA StrandingStep ==
  ASSUME TypeInv, PaymentInv, Stranding, [Next]_vars
  PROVE  Stranding'
<1> USE WorkersAssumption
<1>1. pay \in PayRow
  BY DEF TypeInv, TypeOK
<1>2. CASE UNCHANGED pay
  BY <1>2 DEF Stranding, NeverStranded
<1>3. CASE ExpireLease
  BY <1>1, <1>3 DEF ExpireLease, PayRow, Stranding, NeverStranded
<1>4. ASSUME NEW w \in Workers, StartJob(w) PROVE Stranding'
  BY <1>1, <1>4 DEF StartJob, Released, PayRow, Stranding, NeverStranded
<1>5. ASSUME NEW w \in Workers, RecordRefund(w) PROVE Stranding'
  BY <1>1, <1>5 DEF RecordRefund, PayRow, Stranding, NeverStranded
<1>6. ASSUME NEW w \in Workers, Accept(w) PROVE Stranding'
  <2>1. \/ pay' = [pay EXCEPT !.provider = "succeeded"]
        \/ pay' = [pay EXCEPT !.provider = "canceled", !.status = "cancelled"]
        \/ pay' = pay
    BY <1>6 DEF Accept
  <2>2. UNCHANGED <<pay.owner, pay.fulfillment, pay.refund>> /\ pay'.status \in {pay.status, "cancelled"}
    BY <1>1, <2>1 DEF PayRow
  <2> QED BY <2>2 DEF Stranding, NeverStranded
<1>7. ASSUME NEW w \in Workers, Apply(w) PROVE Stranding'
  BY <1>1, <1>7 DEF Apply, PayRow, Stranding, NeverStranded
<1>8. ASSUME NEW w \in Workers, StoreRefund(w) PROVE Stranding'
  BY <1>1, <1>8 DEF StoreRefund, PayRow, Stranding, NeverStranded
<1>9. ASSUME NEW w \in Workers, PartialRefund(w) PROVE Stranding'
  BY <1>1, <1>9 DEF PartialRefund, PayRow, Stranding, NeverStranded
<1>10. ASSUME NEW w \in Workers, Claim(w) PROVE Stranding'
  <2>1. CASE UNCHANGED pay
    BY <1>2, <2>1
  <2>2. CASE pay.owner = NoOwner /\ pay' = Claimed(w, ctx[w].kind)
    BY <1>1, <2>2 DEF Claimed, PayRow, Stranding, NeverStranded
  <2> QED BY <1>10, <2>1, <2>2 DEF Claim, Claimable
<1>11. ASSUME NEW w \in Workers, Finish(w) PROVE Stranding'
  <2>1. CASE UNCHANGED pay
    BY <1>2, <2>1
  <2>2. CASE Holds(w) /\ pay' = [Outcome(ctx[w].out) EXCEPT !.owner = NoOwner, !.expired = FALSE]
    <3>1. /\ AtWork(w)
          /\ ctx[w].out \in IF ctx[w].kind = "refund" THEN {"completed", "pending", "error"}
                            ELSE {"succeeded", "blocked", "review", "retry"}
      BY <1>11 DEF Finish, At, AtWork, Working, TypeInv, StageInv, Stage
    <3>2. IF ctx[w].kind = "refund" THEN pay.refund = "processing" /\ pay.fulfillment # "processing"
          ELSE pay.fulfillment = "processing" /\ pay.refund # "processing"
      BY <2>2, <3>1 DEF Holds, PaymentInv, Marked, Stranding, NeverStranded
    <3>3. CASE ctx[w].kind = "refund"
      BY <1>1, <2>2, <3>1, <3>2, <3>3 DEF Outcome, PayRow, Stranding, NeverStranded
    <3>4. CASE ctx[w].kind # "refund"
      BY <1>1, <2>2, <3>1, <3>2, <3>4 DEF Outcome, PayRow, Stranding, NeverStranded
    <3> QED BY <3>3, <3>4
  <2> QED BY <1>11, <2>1, <2>2 DEF Finish
<1>12. UNCHANGED pay \/ ExpireLease
       \/ \E w \in Workers : \/ StartJob(w) \/ RecordRefund(w) \/ Accept(w) \/ Apply(w) \/ StoreRefund(w)
                             \/ PartialRefund(w) \/ Claim(w) \/ Finish(w)
  BY DEF Next, vars, Settle, RefundAtProvider, SetBlocked, Webhook, Work, PollSelect, ReconcileSelect,
     Handle, Guard, QueueRevoke, ItemGuard, Call, Return, Fence, Complete, SecondGuard, CallFails,
     OperationBusy, OperationLost, Crash, LateCall
<1> QED
  BY <1>2, <1>3, <1>4, <1>5, <1>6, <1>7, <1>8, <1>9, <1>10, <1>11, <1>12

(* A row that nobody owns shows no work under way, and an owned one shows  *)
(* exactly one kind of it, whoever stopped, crashed or lost its lease      *)
(* (_claim, _finish, release_stranded_claims).                             *)
THEOREM NothingStranded == Spec => []NeverStranded
<1>1. Init => Stranding
  BY DEF Init, Stranding, NeverStranded
<1>2. TypeInv /\ PaymentInv /\ Stranding /\ [Next]_vars => Stranding'
  BY StrandingStep
<1>3. Stranding => NeverStranded
  BY DEF Stranding
<1> QED
  BY <1>1, <1>2, <1>3, Typing, PaymentInvariant, PTL DEF Spec

-----------------------------------------------------------------------------
(* The refinement.                                                         *)

Visible == <<Money, node, told>>

(* A call to a node is a grant, a revocation, or nothing new.              *)
LEMMA CallStep ==
  ASSUME TypeInv, NEW kind \in Kinds, NEW t \in Targets, node' = Executed(kind, t),
         remote.status = "succeeded", kind = "refund" => remote.refunded = Price,
         UNCHANGED <<remote, told>>
  PROVE  Promise!Next \/ UNCHANGED Visible
<1>1. UNCHANGED Money
  BY DEF Money
<1>2. Money \in {"paid", "returned"} /\ (kind = "refund" => Money = "returned")
  BY DEF Money
<1>3. CASE node' = node
  BY <1>1, <1>3 DEF Visible
<1>4. CASE kind = "refund" /\ node[t] # "revoked" /\ node' = [node EXCEPT ![t] = "revoked"]
  <2>1. Promise!Revoke(t)
    BY <1>1, <1>2, <1>4 DEF Promise!Revoke
  <2> QED BY <2>1 DEF Promise!Next
<1>5. CASE node[t] = "none" /\ node' = [node EXCEPT ![t] = "granted"]
  <2>1. Promise!Grant(t)
    BY <1>1, <1>2, <1>5 DEF Promise!Grant
  <2> QED BY <2>1 DEF Promise!Next
<1>6. CASE kind = "refund" /\ node' = [node EXCEPT ![t] = "revoked"]
  <2>1. node[t] = "revoked" => node' = node
    BY <1>6 DEF TypeInv, TypeOK
  <2> QED BY <1>3, <1>4, <1>6, <2>1
<1>7. CASE node[t] # "revoked" /\ node' = [node EXCEPT ![t] = "granted"]
  <2>1. node[t] \in {"none", "granted"}
    BY <1>7 DEF TypeInv, TypeOK
  <2>2. node[t] = "granted" => node' = node
    BY <1>7 DEF TypeInv, TypeOK
  <2> QED BY <1>3, <1>5, <1>7, <2>1, <2>2
<1> QED
  BY <1>3, <1>6, <1>7, ExecutedCases

(* A message is one of the three the promise knows, and a fact.            *)
LEMMA TellStep ==
  ASSUME NEW k \in {"succeeded", "refunded", "cancelled"}, Promise!Fact(k), TypeInv,
         told[k] = 0, told' = [told EXCEPT ![k] = @ + 1], UNCHANGED <<remote, node>>
  PROVE  Promise!Next
<1>1. UNCHANGED Money
  BY DEF Money
<1>2. told' = [told EXCEPT ![k] = 1]
  OBVIOUS
<1>3. Promise!Tell(k)
  BY <1>1, <1>2 DEF Promise!Tell
<1> QED BY <1>3 DEF Promise!Next

(* Every step is a step of the promise or invisible.                       *)
LEMMA PromiseStep ==
  ASSUME TypeInv, PaymentInv, [Next]_vars PROVE Promise!Next \/ UNCHANGED Visible
<1> USE RowTypes, PriceAssumption
<1>1. ASSUME NEW outcome \in {"succeeded", "canceled"}, Settle(outcome)
      PROVE  Promise!Next \/ UNCHANGED Visible
  <2>1. remote' = [remote EXCEPT !.status = outcome] /\ remote.status = "pending" /\ remote.refunded = 0
    BY <1>1 DEF Settle, PaymentInv, RowInv, PaidInv
  <2>2. remote'.status = outcome /\ remote'.refunded = 0
    BY <2>1 DEF TypeInv, TypeOK, Observation
  <2>3. UNCHANGED <<node, told>>
    BY <1>1 DEF Settle, Delivery
  <2>4. CASE outcome = "succeeded"
    <3>1. Promise!Pay
      BY <2>1, <2>2, <2>3, <2>4 DEF Money, Promise!Pay
    <3> QED BY <3>1 DEF Promise!Next
  <2>5. CASE outcome = "canceled"
    <3>1. Promise!Cancel
      BY <2>1, <2>2, <2>3, <2>5 DEF Money, Promise!Cancel
    <3> QED BY <3>1 DEF Promise!Next
  <2> QED BY <2>4, <2>5
<1>2. CASE RefundAtProvider
  <2>1. remote.status = "succeeded" /\ remote.refunded < Price /\ remote'.status = "succeeded"
    BY <1>2 DEF RefundAtProvider, TypeInv, TypeOK, Observation
  <2>2. UNCHANGED <<node, told>>
    BY <1>2 DEF RefundAtProvider, Delivery
  <2>3. CASE remote'.refunded = Price
    <3>1. Promise!Return
      BY <2>1, <2>2, <2>3 DEF Money, Promise!Return
    <3> QED BY <3>1 DEF Promise!Next
  <2>4. CASE remote'.refunded # Price
    BY <2>1, <2>2, <2>4 DEF Money, Visible
  <2> QED BY <2>3, <2>4
<1>3. ASSUME NEW w \in Workers, Accept(w) PROVE Promise!Next \/ UNCHANGED Visible
  <2>1. UNCHANGED <<remote, node>>
    BY <1>3 DEF Accept, World, Delivery
  <2>2. CASE told' = told
    BY <2>1, <2>2 DEF Money, Visible
  <2>3. CASE /\ told' = [told EXCEPT !["cancelled"] = @ + 1]
             /\ ctx[w].seen.status = "canceled" /\ pay.status # "cancelled"
    <3>1. Promise!Fact("cancelled")
      BY <2>3 DEF PaymentInv, Knows, Money, Promise!Fact
    <3>2. told["cancelled"] = 0
      BY <2>3 DEF PaymentInv, RowInv, CancelInv
    <3> QED BY <2>1, <2>3, <3>1, <3>2, TellStep
  <2> QED BY <1>3, <2>2, <2>3 DEF Accept
<1>4. ASSUME NEW w \in Workers, Finish(w) PROVE Promise!Next \/ UNCHANGED Visible
  <2>1. UNCHANGED <<remote, node>>
    BY <1>4 DEF Finish, World, Delivery
  <2>2. /\ ctx[w].pc = "finish" /\ AtWork(w)
        /\ ctx[w].out \in IF ctx[w].kind = "refund" THEN {"completed", "pending", "error"}
                         ELSE {"succeeded", "blocked", "review", "retry"}
    BY <1>4 DEF Finish, At, AtWork, Working, TypeInv, StageInv, Stage
  <2>3. CASE told' = told
    BY <2>1, <2>3 DEF Money, Visible
  <2>4. CASE Holds(w) /\ ctx[w].out = "succeeded" /\ told' = [told EXCEPT !["succeeded"] = @ + 1]
    <3>1. Promise!Fact("succeeded")
      BY <2>2, <2>4 DEF PaymentInv, Done, Served, Promise!Fact
    <3>2. told["succeeded"] = 0
      BY <2>2, <2>4 DEF Holds, PaymentInv, Marked, RowInv, ToldOnce
    <3> QED BY <2>1, <2>4, <3>1, <3>2, TellStep
  <2>5. CASE Holds(w) /\ ctx[w].out = "completed" /\ told' = [told EXCEPT !["refunded"] = @ + 1]
    <3>1. Promise!Fact("refunded")
      BY <2>2, <2>5 DEF PaymentInv, Done, Served, Promise!Fact
    <3>2. told["refunded"] = 0
      BY <2>2, <2>5 DEF Holds, PaymentInv, Marked, RowInv, ToldOnce
    <3> QED BY <2>1, <2>5, <3>1, <3>2, TellStep
  <2> QED BY <1>4, <2>3, <2>4, <2>5 DEF Finish, Announce
<1>5. ASSUME NEW w \in Workers, Call(w) PROVE Promise!Next \/ UNCHANGED Visible
  <2>1. /\ ctx[w].pc = "call" /\ ctx[w].target \in Targets /\ ctx[w].kind \in Kinds
        /\ node' = Executed(ctx[w].kind, ctx[w].target) /\ UNCHANGED <<remote, told>>
    BY <1>5 DEF Call, At, World, Working, TypeInv, StageInv, Stage
  <2>2. remote.status = "succeeded" /\ (ctx[w].kind = "refund" => remote.refunded = Price)
    BY <2>1 DEF PaymentInv, Knows, Working
  <2> QED BY <2>1, <2>2, CallStep
<1>6. ASSUME NEW call \in wire, LateCall(call) PROVE Promise!Next \/ UNCHANGED Visible
  <2>1. /\ call.target \in Targets /\ call.kind \in Kinds
        /\ node' = Executed(call.kind, call.target) /\ UNCHANGED <<remote, told>>
    BY <1>6 DEF LateCall, World, TypeInv, TypeOK, Calls
  <2>2. remote.status = "succeeded" /\ (call.kind = "refund" => remote.refunded = Price)
    BY DEF PaymentInv, RowInv, PaidInv, ReturnedInv
  <2> QED BY <2>1, <2>2, CallStep
<1>7. \/ UNCHANGED <<remote, node, told>>
      \/ \E outcome \in {"succeeded", "canceled"} : Settle(outcome)
      \/ RefundAtProvider
      \/ \E w \in Workers : Accept(w) \/ Finish(w) \/ Call(w)
      \/ \E call \in wire : LateCall(call)
  <2>1. ASSUME UNCHANGED vars \/ SetBlocked \/ ExpireLease PROVE UNCHANGED <<remote, node, told>>
    BY <2>1 DEF vars, SetBlocked, ExpireLease, World, Delivery
  <2>2. ASSUME NEW w \in Workers,
               StartJob(w) \/ Webhook(w) \/ CallFails(w) \/ OperationBusy(w) \/ OperationLost(w) \/ Crash(w)
        PROVE  UNCHANGED <<remote, node, told>>
    BY <2>2 DEF StartJob, Webhook, CallFails, OperationBusy, OperationLost, Crash, World, Delivery
  <2>3. ASSUME NEW w \in Workers,
               \/ PollSelect(w) \/ ReconcileSelect(w) \/ RecordRefund(w) \/ Apply(w) \/ Handle(w)
               \/ StoreRefund(w) \/ PartialRefund(w) \/ Claim(w)
        PROVE  UNCHANGED <<remote, node, told>>
    BY <2>3 DEF PollSelect, ReconcileSelect, RecordRefund, Apply, Handle, StoreRefund, PartialRefund,
       Claim, World, Delivery
  <2>4. ASSUME NEW w \in Workers,
               \/ Guard(w) \/ QueueRevoke(w) \/ ItemGuard(w) \/ Return(w) \/ Fence(w) \/ Complete(w)
               \/ SecondGuard(w)
        PROVE  UNCHANGED <<remote, node, told>>
    BY <2>4 DEF Guard, QueueRevoke, ItemGuard, Return, Fence, Complete, SecondGuard, World, Delivery
  <2> QED BY <2>1, <2>2, <2>3, <2>4 DEF Next, Work
<1>8. CASE UNCHANGED <<remote, node, told>>
  BY <1>8 DEF Money, Visible
<1> QED
  BY <1>1, <1>2, <1>3, <1>4, <1>5, <1>6, <1>7, <1>8

(* The processes of the bot API keep the promise made to the user.         *)
THEOREM KeepsThePromise == Spec => KeepsPromise
<1>1. Init => Promise!Init
  BY PriceAssumption DEF Init, Promise!Init, Money, Unseen
<1>2. TypeInv /\ PaymentInv /\ [Next]_vars => [Promise!Next]_(Promise!pvars)
  BY PromiseStep DEF Visible, Promise!pvars
<1> QED
  BY <1>1, <1>2, Typing, PaymentInvariant, PTL DEF Spec, KeepsPromise, Promise!Spec

-----------------------------------------------------------------------------
(* The targets' contracts.                                                 *)

(* What a target has changes as its contract says, or not at all. *)
TargetStep(t) == Target(t)!Next \/ UNCHANGED Target(t)!cvars

LEMMA TargetCalled ==
  ASSUME TypeInv, NEW kind \in Kinds, NEW t \in Targets, node' = Executed(kind, t), NEW u \in Targets
  PROVE  TargetStep(u)
<1>1. node \in [Targets -> {"none", "granted", "revoked"}]
  BY DEF TypeInv, TypeOK
<1>2. CASE node'[u] = node[u]
  BY <1>2 DEF TargetStep, Target!cvars
<1>3. CASE node[u] # "revoked" /\ node'[u] = "revoked"
  <2>1. [s \in {"pay"} |-> HeldAt(node'[u])]["pay"] = [state |-> "withdrawn", rev |-> 1]
    BY <1>3 DEF HeldAt
  <2>2. HeldAt(node[u]).rev <= 1
    BY <1>1, <1>3 DEF HeldAt
  <2>3. Target(u)!Withdraw({"pay"})
    BY <2>1, <2>2 DEF Target!Withdraw, Target!Withdrawn
  <2> QED BY <2>3 DEF TargetStep, Target!Next
<1>4. CASE node[u] = "none" /\ node'[u] = "granted"
  <2>1. HeldAt(node[u]) = [state |-> "none", rev |-> 0] /\ HeldAt(node'[u]) = [state |-> "given", rev |-> 0]
    BY <1>4 DEF HeldAt
  <2>2. Target(u)!Told
    BY DEF Target!Told
  <2>3. Target(u)!Give("pay", 0)
    BY <2>1, <2>2 DEF Target!Give, Target!Unknown, Target!Given
  <2> QED BY <2>3 DEF TargetStep, Target!Next
<1>5. CASE node' = node
  BY <1>2, <1>5
<1>6. CASE node' = [node EXCEPT ![t] = "revoked"]
  BY <1>1, <1>2, <1>3, <1>6
<1>7. CASE node[t] # "revoked" /\ node' = [node EXCEPT ![t] = "granted"]
  BY <1>1, <1>2, <1>4, <1>7
<1> QED
  BY <1>5, <1>6, <1>7, ExecutedCases

LEMMA TargetsStep ==
  ASSUME TypeInv, [Next]_vars, NEW u \in Targets
  PROVE  TargetStep(u)
<1>1. CASE UNCHANGED node
  BY <1>1 DEF TargetStep, Target!cvars
<1>2. ASSUME NEW w \in Workers, Call(w) PROVE TargetStep(u)
  <2>1. /\ ctx[w].target \in Targets /\ ctx[w].kind \in Kinds
        /\ node' = Executed(ctx[w].kind, ctx[w].target)
    BY <1>2 DEF Call, At, Working, TypeInv, StageInv, Stage
  <2> QED BY <2>1, TargetCalled
<1>3. ASSUME NEW call \in wire, LateCall(call) PROVE TargetStep(u)
  <2>1. call.target \in Targets /\ call.kind \in Kinds /\ node' = Executed(call.kind, call.target)
    BY <1>3 DEF LateCall, TypeInv, TypeOK, Calls
  <2> QED BY <2>1, TargetCalled
<1>4. UNCHANGED node \/ (\E w \in Workers : Call(w)) \/ \E call \in wire : LateCall(call)
  <2>1. ASSUME NEW w \in Workers, Work(w) PROVE UNCHANGED node \/ Call(w)
    BY <2>1 DEF Work, PollSelect, ReconcileSelect, RecordRefund, Accept, Apply, Handle, StoreRefund,
       PartialRefund, Claim, Guard, QueueRevoke, ItemGuard, Return, Fence, Complete, SecondGuard, Finish,
       Delivery
  <2> QED
    BY <2>1 DEF Next, vars, Settle, RefundAtProvider, SetBlocked, ExpireLease, StartJob, Webhook, CallFails,
       OperationBusy, OperationLost, Crash, Delivery
<1> QED
  BY <1>1, <1>2, <1>3, <1>4

(* Whatever deliveries and refunds come, retried, abandoned or late, each  *)
(* target only does what its contract with the master says                 *)
(* (entitlements.py, provisioning_operations.py).                          *)
THEOREM TargetsKeepTheContract == Spec => TargetsKeepContract
<1>. DEFINE Begins == \A t \in Targets : Target(t)!Init
            Moves == \A t \in Targets : node'[t] = node[t] \/ Target(t)!Next \/ UNCHANGED Target(t)!cvars
<1>1. Init => Begins
  <2>. SUFFICES ASSUME Init, NEW t \in Targets PROVE Target(t)!Init
    OBVIOUS
  <2>1. HeldAt(node[t]) = [state |-> "none", rev |-> 0]
    BY DEF Init, HeldAt
  <2>. QED
    BY <2>1 DEF Target!Init
<1>2. TypeInv /\ [Next]_vars => [Moves]_node
  <2>1. ASSUME TypeInv, [Next]_vars, NEW t \in Targets PROVE Target(t)!Next \/ UNCHANGED Target(t)!cvars
    BY <2>1, TargetsStep DEF TargetStep
  <2>. QED
    BY <2>1
<1>3. TargetsKeepContract <=> Begins /\ [][Moves]_node
  BY DEF TargetsKeepContract
<1>. HIDE DEF Begins, Moves
<1>. QED
  BY <1>1, <1>2, <1>3, Typing, PTL DEF Spec
=============================================================================
