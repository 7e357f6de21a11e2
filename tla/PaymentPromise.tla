--------------------------- MODULE PaymentPromise ---------------------------
(***************************************************************************)
(* What the bot API promises about one payment, without its processes,     *)
(* leases and retries: access to a target only for money received, no      *)
(* access after a completed refund, and one message per outcome, sent      *)
(* when the outcome is a fact on every target.                             *)
(***************************************************************************)
EXTENDS Naturals

CONSTANT Targets

VARIABLES
  money,   \* what the provider says of the invoice
  access,  \* what each target grants for it
  heard    \* how often the user was told of each outcome

pvars == <<money, access, heard>>

Init ==
  /\ money = "open"
  /\ access = [t \in Targets |-> "none"]
  /\ heard = [k \in {"succeeded", "refunded", "cancelled"} |-> 0]

Pay == money = "open" /\ money' = "paid" /\ UNCHANGED <<access, heard>>
Cancel == money = "open" /\ money' = "canceled" /\ UNCHANGED <<access, heard>>
Return == money = "paid" /\ money' = "returned" /\ UNCHANGED <<access, heard>>

(* A delivery already under way may arrive after the money went back, but  *)
(* never after the target was revoked.                                     *)
Grant(t) ==
  /\ money \in {"paid", "returned"}
  /\ access[t] = "none"
  /\ access' = [access EXCEPT ![t] = "granted"]
  /\ UNCHANGED <<money, heard>>

Revoke(t) ==
  /\ money = "returned"
  /\ access[t] # "revoked"
  /\ access' = [access EXCEPT ![t] = "revoked"]
  /\ UNCHANGED <<money, heard>>

Fact(k) ==
  CASE k = "succeeded" -> \A t \in Targets : access[t] # "none"
    [] k = "refunded"  -> \A t \in Targets : access[t] = "revoked"
    [] k = "cancelled" -> money = "canceled"

Tell(k) ==
  /\ Fact(k)
  /\ heard[k] = 0
  /\ heard' = [heard EXCEPT ![k] = 1]
  /\ UNCHANGED <<money, access>>

Next ==
  \/ Pay \/ Cancel \/ Return
  \/ \E t \in Targets : Grant(t) \/ Revoke(t)
  \/ \E k \in {"succeeded", "refunded", "cancelled"} : Tell(k)

Spec == Init /\ [][Next]_pvars
=============================================================================
