-------------------------- MODULE BotDeliveryProofs --------------------------
(***************************************************************************)
(* What is proved of BotDelivery for any events, workers and queue.        *)
(*                                                                         *)
(* The argument: a worker sends under a key it took in its own transaction *)
(* (Keyed), the key of a warning belongs to one event (OneKey), and        *)
(* "delivered" is only stored by a worker whose message was sent           *)
(* (Reported).  None of it needs the lease, so none of it is lost when a   *)
(* lease runs out, a claim is abandoned or the bot restarts.               *)
(*                                                                         *)
(* How often a message is repeated does need the lease.  Its invariant is  *)
(* a budget (Affordable): the messages sent, those about to be sent and    *)
(* the one that a claim may still start are one, and one more for each     *)
(* failure.  That the next claim needs no failure is Renewable; that the   *)
(* holder of the lease rules it out is Closing.                            *)
(***************************************************************************)
EXTENDS BotDelivery, FiniteSetTheorems, TLAPS

(* A worker that does anything does it for an event, and what it reports   *)
(* is an outcome.                                                          *)
Stage(w) ==
  /\ ~At(w, "idle") => ctx[w].event \in Events
  /\ At(w, "ack") => ctx[w].outcome \in {"delivered", "permanent_failure", "retry"}
TypeInv == TypeOK /\ \A w \in Workers : Stage(w)

Keyed(w) == (At(w, "send") \/ At(w, "ack")) /\ ctx[w].event \in Warnings => inbox[ctx[w].event].keyed
Reported(w) == At(w, "ack") /\ ctx[w].outcome = "delivered" => sent[ctx[w].event] > 0
SentWasKeyed == \A e \in Warnings : sent[e] > 0 => inbox[e].keyed
OneKey == \A e, f \in Warnings : e # f => ~inbox[e].keyed \/ ~inbox[f].keyed
DeliveryInv ==
  /\ \A w \in Workers : Keyed(w) /\ Reported(w)
  /\ SentWasKeyed
  /\ OneKey
  /\ DeliveredWasSent

-----------------------------------------------------------------------------
(* Type correctness *)

(* A worker that goes idle, or on to the next step of its claim, stays     *)
(* well typed.                                                             *)
LEMMA StopType ==
  ASSUME TypeInv, NEW w \in Workers, Stop(w)
  PROVE  ctx' \in [Workers -> Task] /\ \A v \in Workers : Stage(v)'
<1>1. Idle \in Task /\ Idle.pc = "idle"
  BY DEF Idle, Task, AtServer
<1>. QED
  BY <1>1 DEF TypeInv, TypeOK, Stage, Stop, At

(* A worker that goes on to its next step. *)
LEMMA GoType ==
  ASSUME TypeInv, NEW w \in Workers, NEW pc \in AtServer \cup {"send"},
         ~At(w, "idle"), Go(w, pc)
  PROVE  ctx' \in [Workers -> Task] /\ \A v \in Workers : Stage(v)'
<1>1. /\ ctx' = [ctx EXCEPT ![w] = [ctx[w] EXCEPT !.pc = pc]]
      /\ pc # "idle" /\ pc # "ack"
  BY DEF Go, AtServer, TypeInv, TypeOK
<1>2. ASSUME NEW t \in Task PROVE [t EXCEPT !.pc = pc] \in Task /\ [t EXCEPT !.pc = pc].pc = pc
                                /\ [t EXCEPT !.pc = pc].event = t.event
  BY <1>2 DEF Task, AtServer
<1>. QED
  BY <1>1, <1>2 DEF TypeInv, TypeOK, Stage, At

(* A restart that loses what a worker does leaves a task. *)
LEMMA LoseType ==
  ASSUME NEW t \in Task
  PROVE  /\ [t EXCEPT !.lost = TRUE] \in Task
         /\ [t EXCEPT !.lost = TRUE].pc = t.pc
         /\ [t EXCEPT !.lost = TRUE].event = t.event
         /\ [t EXCEPT !.lost = TRUE].outcome = t.outcome
  BY DEF Task

(* Each way a row is written leaves a row. *)
LEMMA StateType ==
  ASSUME TypeOK, NEW e \in Events, NEW s \in {"pending"} \cup Terminal
  PROVE  [inbox EXCEPT ![e].state = s] \in [Events -> Row]
<1>1. ASSUME NEW r \in Row PROVE [r EXCEPT !.state = s] \in Row
  BY <1>1 DEF Row
<1>. QED
  BY <1>1 DEF TypeOK

(* The source's acknowledgment is noted. *)
LEMMA AckedType ==
  ASSUME TypeOK, NEW e \in Events
  PROVE  [inbox EXCEPT ![e].acked = TRUE] \in [Events -> Row]
<1>1. ASSUME NEW r \in Row PROVE [r EXCEPT !.acked = TRUE] \in Row
  BY <1>1 DEF Row
<1>. QED
  BY <1>1 DEF TypeOK

(* A row is put off, or due again. *)
LEMMA LaterType ==
  ASSUME TypeOK, NEW e \in Events, NEW b \in BOOLEAN
  PROVE  [inbox EXCEPT ![e].later = b] \in [Events -> Row]
<1>1. ASSUME NEW r \in Row PROVE [r EXCEPT !.later = b] \in Row
  BY <1>1 DEF Row
<1>. QED
  BY <1>1 DEF TypeOK

(* A lease runs out. *)
LEMMA OverType ==
  ASSUME TypeOK, NEW e \in Events
  PROVE  [inbox EXCEPT ![e].lease = "over"] \in [Events -> Row]
<1>1. ASSUME NEW r \in Row PROVE [r EXCEPT !.lease = "over"] \in Row
  BY <1>1 DEF Row
<1>. QED
  BY <1>1 DEF TypeOK

(* A claim leases a row. *)
LEMMA LeasedType ==
  ASSUME TypeOK, NEW e \in Events, NEW w \in Workers, NEW k \in BOOLEAN
  PROVE  [inbox EXCEPT ![e].state = "leased", ![e].token = w,
                       ![e].lease = "live", ![e].keyed = k] \in [Events -> Row]
<1>1. ASSUME NEW r \in Row
      PROVE  [r EXCEPT !.state = "leased", !.token = w, !.lease = "live", !.keyed = k] \in Row
  BY <1>1 DEF Row
<1>. QED
  BY <1>1 DEF TypeOK

(* An acknowledgment concludes a row, or gives it back. *)
LEMMA ConcludedType ==
  ASSUME TypeOK, NEW e \in Events, NEW s \in {"pending"} \cup Terminal, NEW b \in BOOLEAN
  PROVE  [inbox EXCEPT ![e].state = s, ![e].lease = "none", ![e].later = b] \in [Events -> Row]
<1>1. ASSUME NEW r \in Row
      PROVE  [r EXCEPT !.state = s, !.lease = "none", !.later = b] \in Row
  BY <1>1 DEF Row
<1>. QED
  BY <1>1 DEF TypeOK

(* What an outcome is stored as. *)
LEMMA StoredCases ==
  ASSUME NEW o \in {"delivered", "permanent_failure", "retry"}
  PROVE  /\ Stored(o) \in {"pending"} \cup Terminal
         /\ Stored(o) = "delivered" => o = "delivered"
<1>1. CASE o = "delivered"
  BY <1>1 DEF Stored, Terminal
<1>2. CASE o = "permanent_failure"
  <2>1. Stored(o) = "permanent"
    BY <1>2 DEF Stored
  <2>. QED
    BY <2>1 DEF Terminal
<1>3. CASE o = "retry"
  <2>1. Stored(o) = "pending"
    BY <1>3 DEF Stored
  <2>. QED
    BY <2>1
<1>. QED
  BY <1>1, <1>2, <1>3

(* The steps of a worker. *)
LEMMA WorkType ==
  ASSUME TypeInv, NEW w \in Workers,
         Take(w) \/ Work(w) \/ AckLost(w) \/ Abandon(w) \/ ClaimFails(w)
  PROVE  TypeInv'
<1>. DEFINE e == ctx[w].event
<1>. USE DEF World, Bus
<1>0. TypeOK /\ \A v \in Workers : Stage(v)
  BY DEF TypeInv
<1>1. CASE Take(w)
  <2>1. PICK f \in queue : /\ queue' = queue \ {f}
                           /\ ctx' = [ctx EXCEPT ![w] = [Idle EXCEPT !.pc = "persist", !.event = f]]
    BY <1>1 DEF Take
  <2>2. /\ f \in Events
        /\ [Idle EXCEPT !.pc = "persist", !.event = f] \in Task
        /\ [Idle EXCEPT !.pc = "persist", !.event = f].pc = "persist"
        /\ [Idle EXCEPT !.pc = "persist", !.event = f].event = f
    BY <1>0 DEF TypeOK, Idle, Task, AtServer
  <2>3. ctx' \in [Workers -> Task] /\ \A v \in Workers : Stage(v)'
    BY <1>0, <2>1, <2>2 DEF TypeOK, Stage, At
  <2>. QED
    BY <1>0, <1>1, <2>1, <2>3 DEF TypeInv, TypeOK, Take
<1>2. CASE Persist(w)
  <2>1. e \in Events /\ ~At(w, "idle")
    BY <1>0, <1>2 DEF Persist, Stage, At
  <2>2. ctx' \in [Workers -> Task] /\ \A v \in Workers : Stage(v)'
    BY <2>1, <1>2, GoType DEF Persist, AtServer
  <2>3. inbox' \in [Events -> Row]
    <3>1. (IF outbox[e] = "acked" THEN "suppressed" ELSE "pending") \in {"pending"} \cup Terminal
      BY DEF Terminal
    <3>. QED
      BY <1>0, <1>2, <2>1, <3>1, StateType DEF Persist, TypeOK
  <2>. QED
    BY <1>0, <1>2, <2>2, <2>3 DEF TypeInv, TypeOK, Persist
<1>3. CASE AckSource(w)
  <2>1. e \in Events /\ ~At(w, "idle")
    BY <1>0, <1>3 DEF AckSource, Stage, At
  <2>2. ctx' \in [Workers -> Task] /\ \A v \in Workers : Stage(v)'
    BY <2>1, <1>3, GoType DEF AckSource, AtServer
  <2>3. inbox' \in [Events -> Row]
    BY <1>0, <1>3, <2>1, AckedType DEF AckSource, TypeOK
  <2>4. outbox' \in [Events -> {"none", "stored", "acked"}] /\ faults' \in Nat
    BY <1>0, <1>3, <2>1 DEF AckSource, TypeOK, Fault
  <2>. QED
    BY <1>0, <1>3, <2>2, <2>3, <2>4 DEF TypeInv, TypeOK, AckSource
<1>4. CASE ReadRow(w)
  <2>1. e \in Events /\ ~At(w, "idle")
    BY <1>0, <1>4 DEF ReadRow, Stage, At
  <2>2. ctx' \in [Workers -> Task] /\ \A v \in Workers : Stage(v)'
    BY <2>1, <1>4, GoType, StopType DEF ReadRow, AtServer
  <2>. QED
    BY <1>0, <1>4, <2>2 DEF TypeInv, TypeOK, ReadRow
<1>5. CASE Judge(w)
  <2>1. e \in Events /\ ~At(w, "idle")
    BY <1>0, <1>5 DEF Judge, Stage, At
  <2>2. ctx' \in [Workers -> Task] /\ \A v \in Workers : Stage(v)'
    <3>1. CASE Stop(w)
      BY <3>1, StopType
    <3>2. CASE Go(w, "lease")
      BY <2>1, <3>2, GoType DEF AtServer
    <3>. QED
      BY <1>5, <3>1, <3>2 DEF Judge
  <2>3. inbox' \in [Events -> Row]
    <3>1. [inbox EXCEPT ![e].later = TRUE] \in [Events -> Row]
      BY <1>0, <2>1, LaterType
    <3>2. \A s \in {"suppressed", "review"} : [inbox EXCEPT ![e].state = s] \in [Events -> Row]
      BY <1>0, <2>1, StateType DEF Terminal
    <3>. QED
      BY <1>0, <1>5, <3>1, <3>2 DEF Judge, TypeOK
  <2>4. faults' \in Nat
    BY <1>0, <1>5 DEF Judge, TypeOK, Fault
  <2>. QED
    BY <1>0, <1>5, <2>2, <2>3, <2>4 DEF TypeInv, TypeOK, Judge
<1>6. CASE Lease(w)
  <2>1. e \in Events /\ ~At(w, "idle")
    BY <1>0, <1>6 DEF Lease, Stage, At
  <2>2. ctx' \in [Workers -> Task] /\ \A v \in Workers : Stage(v)'
    <3>1. CASE Stop(w)
      BY <3>1, StopType
    <3>2. CASE Go(w, "send")
      BY <2>1, <3>2, GoType DEF AtServer
    <3>. QED
      BY <1>6, <3>1, <3>2 DEF Lease
  <2>3. inbox' \in [Events -> Row]
    <3>1. [inbox EXCEPT ![e].state = "suppressed"] \in [Events -> Row]
      BY <1>0, <2>1, StateType DEF Terminal
    <3>2. \A k \in BOOLEAN : [inbox EXCEPT ![e].state = "leased", ![e].token = w,
                               ![e].lease = "live", ![e].keyed = k] \in [Events -> Row]
      BY <1>0, <2>1, LeasedType
    <3>3. (e \in Warnings) \in BOOLEAN
      OBVIOUS
    <3>. QED
      BY <1>0, <1>6, <3>1, <3>2, <3>3 DEF Lease, TypeOK
  <2>. QED
    BY <1>0, <1>6, <2>2, <2>3 DEF TypeInv, TypeOK, Lease
<1>7. CASE Send(w)
  <2>1. e \in Events
    BY <1>0, <1>7 DEF Send, Stage, At
  <2>2. PICK o \in {"delivered", "permanent_failure", "retry"} :
          ctx' = [ctx EXCEPT ![w] = [ctx[w] EXCEPT !.pc = "ack", !.outcome = o]]
    BY <1>0, <1>7 DEF Send, TypeOK
  <2>3. ASSUME NEW t \in Task
        PROVE  /\ [t EXCEPT !.pc = "ack", !.outcome = o] \in Task
               /\ [t EXCEPT !.pc = "ack", !.outcome = o].event = t.event
               /\ [t EXCEPT !.pc = "ack", !.outcome = o].outcome = o
               /\ [t EXCEPT !.pc = "ack", !.outcome = o].pc = "ack"
    BY <2>3 DEF Task
  <2>4. ctx' \in [Workers -> Task] /\ \A v \in Workers : Stage(v)'
    BY <1>0, <2>1, <2>2, <2>3 DEF TypeOK, Stage, At
  <2>5. sent' \in [Events -> Nat] /\ faults' \in Nat
    BY <1>0, <1>7, <2>1 DEF Send, TypeOK, Fault
  <2>. QED
    BY <1>0, <1>7, <2>4, <2>5 DEF TypeInv, TypeOK, Send
<1>8. CASE Ack(w)
  <2>1. e \in Events /\ ctx[w].outcome \in {"delivered", "permanent_failure", "retry"}
    BY <1>0, <1>8 DEF Ack, Stage, At
  <2>2. ctx' \in [Workers -> Task] /\ \A v \in Workers : Stage(v)'
    BY <1>8, StopType DEF Ack
  <2>3. inbox' \in [Events -> Row]
    <3>1. (ctx[w].outcome = "retry") \in BOOLEAN
      OBVIOUS
    <3>2. [inbox EXCEPT ![e].state = Stored(ctx[w].outcome), ![e].lease = "none",
                        ![e].later = ctx[w].outcome = "retry"] \in [Events -> Row]
      BY <1>0, <2>1, <3>1, StoredCases, ConcludedType
    <3>. QED
      BY <1>0, <1>8, <3>2 DEF Ack, TypeOK
  <2>. QED
    BY <1>0, <1>8, <2>2, <2>3 DEF TypeInv, TypeOK, Ack
<1>9. CASE AckLost(w) \/ ClaimFails(w)
  <2>1. Stop(w) /\ faults' \in Nat
    BY <1>0, <1>9 DEF AckLost, ClaimFails, Fault, TypeOK
  <2>2. ctx' \in [Workers -> Task] /\ \A v \in Workers : Stage(v)'
    BY <2>1, StopType
  <2>. QED
    BY <1>0, <1>9, <2>1, <2>2 DEF TypeInv, TypeOK, AckLost, ClaimFails
<1>10. CASE Abandon(w)
  <2>1. ctx' = [ctx EXCEPT ![w] = [ctx[w] EXCEPT !.lost = TRUE]] /\ faults' \in Nat
    BY <1>0, <1>10 DEF Abandon, Fault, TypeOK
  <2>2. ctx' \in [Workers -> Task] /\ \A v \in Workers : Stage(v)'
    BY <1>0, <2>1, LoseType DEF TypeOK, Stage, At
  <2>. QED
    BY <1>0, <1>10, <2>1, <2>2 DEF TypeInv, TypeOK, Abandon
<1>. QED
  BY <1>1, <1>2, <1>3, <1>4, <1>5, <1>6, <1>7, <1>8, <1>9, <1>10 DEF Work

(* The steps of events, leases and clocks. *)
LEMMA WorldType ==
  ASSUME TypeInv, NEW e \in Events,
         \/ Enqueue(e) \/ Publish(e) \/ RetryPending(e)
         \/ LeaseRunsOut(e) \/ TimePasses(e) \/ Outdated(e)
  PROVE  TypeInv'
<1>. USE DEF World, Bus
<1>0. TypeOK /\ \A v \in Workers : Stage(v)
  BY DEF TypeInv
<1>1. CASE Enqueue(e) \/ Publish(e) \/ RetryPending(e) \/ Outdated(e)
  BY <1>0, <1>1 DEF TypeInv, TypeOK, Stage, At, Enqueue, Publish, Undelivered, RetryPending, Outdated, Offer
<1>2. CASE LeaseRunsOut(e)
  <2>1. inbox' \in [Events -> Row] /\ faults' \in Nat
    BY <1>0, <1>2, OverType DEF LeaseRunsOut, Fault, TypeOK
  <2>. QED
    BY <1>0, <1>2, <2>1 DEF TypeInv, TypeOK, Stage, At, LeaseRunsOut
<1>3. CASE TimePasses(e)
  <2>1. inbox' \in [Events -> Row]
    BY <1>0, <1>3, LaterType DEF TimePasses
  <2>. QED
    BY <1>0, <1>3, <2>1 DEF TypeInv, TypeOK, Stage, At, TimePasses
<1>. QED
  BY <1>1, <1>2, <1>3

(* The steps of the bus, the bot and the user. *)
LEMMA BusType ==
  ASSUME TypeInv,
         Subscribe \/ Unsubscribe \/ RedisFails \/ RedisReturns \/ BotRestarts \/ SetBlocked
  PROVE  TypeInv'
<1>. USE DEF World, Bus
<1>0. TypeOK /\ \A v \in Workers : Stage(v)
  BY DEF TypeInv
<1>1. redis' \in BOOLEAN /\ subscribed' \in BOOLEAN /\ blocked' \in BOOLEAN
  BY <1>0, Zenon DEF TypeOK, Subscribe, Unsubscribe, RedisFails, RedisReturns, BotRestarts, SetBlocked
<1>2. faults' \in Nat
  BY <1>0 DEF TypeOK, Fault, Subscribe, Unsubscribe, RedisFails, RedisReturns, BotRestarts, SetBlocked
<1>3. /\ UNCHANGED <<outbox, inbox, current, sent>>
      /\ queue' \in SUBSET Events
  BY <1>0 DEF TypeOK, Subscribe, Unsubscribe, RedisFails, RedisReturns, BotRestarts, SetBlocked
<1>4. ctx' \in [Workers -> Task] /\ \A v \in Workers : Stage(v)'
  <2>1. CASE BotRestarts
    <3>1. Idle \in Task /\ Idle.pc = "idle"
      BY DEF Idle, Task
    <3>. QED
      BY <1>0, <2>1, <3>1, LoseType DEF BotRestarts, TypeOK, Stage, At
  <2>2. CASE UNCHANGED ctx
    BY <1>0, <2>2 DEF TypeOK, Stage, At
  <2>. QED
    BY <2>1, <2>2 DEF Subscribe, Unsubscribe, RedisFails, RedisReturns, SetBlocked
<1>. QED
  BY <1>0, <1>1, <1>2, <1>3, <1>4, Zenon DEF TypeInv, TypeOK

(* The types, and what a worker knows at its message, always hold. *)
THEOREM Typing == Spec => []TypeInv
<1>1. Init => TypeInv
  <2>1. Idle \in Task /\ Idle.pc = "idle"
    BY DEF Idle, Task
  <2>2. NoRow \in Row
    BY DEF NoRow, Row
  <2>. QED
    BY <2>1, <2>2 DEF Init, TypeInv, TypeOK, Stage, At
<1>2. TypeInv /\ [Next]_vars => TypeInv'
  <2>. SUFFICES ASSUME TypeInv, [Next]_vars PROVE TypeInv'
    OBVIOUS
  <2>1. CASE UNCHANGED vars
    BY <2>1 DEF vars, TypeInv, TypeOK, Stage, At
  <2>2. CASE \E w \in Workers : Take(w) \/ Work(w) \/ AckLost(w) \/ Abandon(w) \/ ClaimFails(w)
    BY <2>2, WorkType
  <2>3. CASE \E e \in Events : \/ Enqueue(e) \/ Publish(e) \/ RetryPending(e)
                               \/ LeaseRunsOut(e) \/ TimePasses(e) \/ Outdated(e)
    <3>1. PICK e \in Events : \/ Enqueue(e) \/ Publish(e) \/ RetryPending(e)
                              \/ LeaseRunsOut(e) \/ TimePasses(e) \/ Outdated(e)
      BY <2>3
    <3>. QED
      BY <3>1, WorldType
  <2>4. CASE Subscribe \/ Unsubscribe \/ RedisFails \/ RedisReturns \/ BotRestarts \/ SetBlocked
    BY <2>4, BusType
  <2>. QED
    BY <2>1, <2>2, <2>3, <2>4 DEF Next
<1>. QED
  BY <1>1, <1>2, PTL DEF Spec

(* The inbox, the queue and the workers always have the types their        *)
(* columns and variables have.                                             *)
THEOREM TypeCorrect == Spec => []TypeOK
<1>1. TypeInv => TypeOK BY DEF TypeInv
<1> QED BY <1>1, Typing, PTL

-----------------------------------------------------------------------------
(* One message per warning, and no false delivery *)

(* A step that sends nothing, keys nothing, delivers nothing and brings no *)
(* worker to its message keeps the invariant.                              *)
LEMMA QuietKeeps ==
  ASSUME TypeInv, DeliveryInv, UNCHANGED sent,
         \A e \in Events : /\ (inbox'[e].keyed <=> inbox[e].keyed)
                           /\ inbox'[e].state = "delivered" => inbox[e].state = "delivered",
         \A v \in Workers : \/ ctx'[v].pc # "send" /\ ctx'[v].pc # "ack"
                            \/ ctx'[v] = ctx[v]
  PROVE  DeliveryInv'
<1>1. \A v \in Workers : Keyed(v) /\ Reported(v) /\ Stage(v)
  BY DEF DeliveryInv, TypeInv
<1>2. Warnings \subseteq Events
  BY EventsAssumption
<1>3. \A v \in Workers : Keyed(v)' /\ Reported(v)'
  <2>. SUFFICES ASSUME NEW v \in Workers PROVE Keyed(v)' /\ Reported(v)'
    OBVIOUS
  <2>1. CASE ctx'[v].pc # "send" /\ ctx'[v].pc # "ack"
    BY <2>1 DEF Keyed, Reported, At
  <2>2. CASE ctx'[v] = ctx[v]
    <3>1. CASE ctx[v].pc # "send" /\ ctx[v].pc # "ack"
      BY <2>2, <3>1 DEF Keyed, Reported, At
    <3>2. CASE ctx[v].pc \in {"send", "ack"}
      <4>1. ctx[v].event \in Events
        BY <1>1, <3>2 DEF Stage, At
      <4>2. inbox'[ctx[v].event].keyed <=> inbox[ctx[v].event].keyed
        BY <4>1
      <4>3. (Keyed(v) => Keyed(v)') /\ (Reported(v) => Reported(v)')
        BY <2>2, <4>2, Zenon DEF Keyed, Reported, At
      <4>. QED
        BY <1>1, <4>3
    <3>. QED
      BY <3>1, <3>2
  <2>. QED
    BY <2>1, <2>2
<1>4. \A f \in Warnings : inbox'[f].keyed <=> inbox[f].keyed
  BY <1>2
<1>5. SentWasKeyed' /\ OneKey'
  BY <1>4, Zenon DEF DeliveryInv, SentWasKeyed, OneKey
<1>6. DeliveredWasSent'
  BY DEF DeliveryInv, DeliveredWasSent
<1>. QED
  BY <1>3, <1>5, <1>6 DEF DeliveryInv

(* The claim takes the key of a warning only if no other event has it. *)
LEMMA LeaseKeeps ==
  ASSUME TypeInv, DeliveryInv, NEW w \in Workers, Lease(w)
  PROVE  DeliveryInv'
<1>. DEFINE e == ctx[w].event
<1>1. e \in Events /\ Warnings \subseteq Events /\ inbox \in [Events -> Row]
      /\ ctx \in [Workers -> Task]
  BY EventsAssumption DEF Lease, TypeInv, TypeOK, Stage, At
<1>2. \A v \in Workers : Keyed(v) /\ Reported(v) /\ Stage(v)
  BY DEF DeliveryInv, TypeInv
<1>3. Idle.pc = "idle"
  BY DEF Idle
<1>4. CASE ~Leasable(inbox[e])
  BY <1>1, <1>3, <1>4, QuietKeeps DEF Lease, Stop
<1>5. CASE Leasable(inbox[e]) /\ Duplicate(e)
  <2>1. inbox' = [inbox EXCEPT ![e].state = "suppressed"] /\ Stop(w) /\ UNCHANGED sent
    BY <1>5 DEF Lease
  <2>2. \A f \in Events : /\ (inbox'[f].keyed <=> inbox[f].keyed)
                          /\ inbox'[f].state = "delivered" => inbox[f].state = "delivered"
    BY <1>1, <2>1 DEF Row
  <2>. QED
    BY <1>1, <1>3, <2>1, <2>2, QuietKeeps DEF Stop
<1>6. CASE Leasable(inbox[e]) /\ ~Duplicate(e)
  <2>1. /\ inbox' = [inbox EXCEPT ![e] = [inbox[e] EXCEPT !.state = "leased", !.token = w,
                                          !.lease = "live", !.keyed = e \in Warnings]]
        /\ Stop(w) \/ Go(w, "send")
        /\ UNCHANGED sent
    BY <1>1, <1>6 DEF Lease
  <2>2. /\ inbox'[e].state = "leased" /\ inbox'[e].keyed = (e \in Warnings)
        /\ \A f \in Events \ {e} : inbox'[f] = inbox[f]
    BY <1>1, <2>1 DEF Row
  <2>3. \A f \in Warnings : inbox[f].keyed => inbox'[f].keyed
    BY <1>1, <2>2, Zenon
  <2>4. \A v \in Workers : Keyed(v)' /\ Reported(v)'
    <3>. SUFFICES ASSUME NEW v \in Workers PROVE Keyed(v)' /\ Reported(v)'
      OBVIOUS
    <3>1. CASE v # w
      <4>1. ctx'[v] = ctx[v]
        BY <1>1, <2>1, <3>1 DEF Stop, Go
      <4>. QED
        BY <1>2, <2>1, <2>3, <4>1 DEF Keyed, Reported, At
    <3>2. CASE v = w
      <4>1. \/ ctx'[v].pc = "idle"
            \/ ctx'[v].pc = "send" /\ ctx'[v].event = e
        BY <1>1, <1>3, <2>1, <3>2 DEF Stop, Go, Task
      <4>2. e \in Warnings => inbox'[e].keyed
        BY <2>2
      <4>. QED
        BY <4>1, <4>2 DEF Keyed, Reported, At
    <3>. QED
      BY <3>1, <3>2
  <2>5. SentWasKeyed'
    BY <2>1, <2>3 DEF DeliveryInv, SentWasKeyed
  <2>6. OneKey'
    <3>1. e \in Warnings => \A f \in Warnings \ {e} : ~inbox[f].keyed
      BY <1>6 DEF Duplicate
    <3>2. \A f, g \in Warnings : f # g => ~inbox[f].keyed \/ ~inbox[g].keyed
      BY DEF DeliveryInv, OneKey
    <3>3. \A f \in Warnings \ {e} : inbox'[f] = inbox[f]
      BY <1>1, <2>2
    <3>. QED
      BY <3>1, <3>2, <3>3 DEF OneKey
  <2>7. DeliveredWasSent'
    BY <2>1, <2>2 DEF DeliveryInv, DeliveredWasSent
  <2>. QED
    BY <2>4, <2>5, <2>6, <2>7 DEF DeliveryInv
<1>. QED
  BY <1>4, <1>5, <1>6

(* What is sent is sent under the key. *)
LEMMA SendKeeps ==
  ASSUME TypeInv, DeliveryInv, NEW w \in Workers, Send(w)
  PROVE  DeliveryInv'
<1>. DEFINE e == ctx[w].event
<1>1. e \in Events /\ Warnings \subseteq Events /\ sent \in [Events -> Nat]
      /\ ctx \in [Workers -> Task] /\ At(w, "send") /\ UNCHANGED inbox
  BY EventsAssumption DEF Send, TypeInv, TypeOK, Stage, At
<1>2. \A v \in Workers : Keyed(v) /\ Reported(v) /\ Stage(v)
  BY DEF DeliveryInv, TypeInv
<1>3. PICK o \in {"delivered", "permanent_failure", "retry"} :
        /\ ctx' = [ctx EXCEPT ![w] = [ctx[w] EXCEPT !.pc = "ack", !.outcome = o]]
        /\ sent' = sent \/ sent' = [sent EXCEPT ![e] = @ + 1]
        /\ o = "delivered" => sent' = [sent EXCEPT ![e] = @ + 1]
  BY <1>1 DEF Send
<1>4. \A f \in Events : sent[f] > 0 => sent'[f] > 0
  BY <1>1, <1>3
<1>5. /\ ctx'[w].pc = "ack" /\ ctx'[w].event = e /\ ctx'[w].outcome = o
      /\ \A v \in Workers \ {w} : ctx'[v] = ctx[v]
  BY <1>1, <1>3 DEF Task
<1>6. \A v \in Workers : Keyed(v)'
  BY <1>1, <1>2, <1>5 DEF Keyed, At
<1>7. \A v \in Workers : Reported(v)'
  <2>1. o = "delivered" => sent'[e] > 0
    BY <1>1, <1>3
  <2>. QED
    BY <1>2, <1>4, <1>5, <2>1 DEF Reported, Stage, At
<1>8. SentWasKeyed'
  <2>1. e \in Warnings => inbox[e].keyed
    BY <1>1, <1>2 DEF Keyed
  <2>2. \A f \in Events \ {e} : sent'[f] = sent[f]
    BY <1>1, <1>3
  <2>. QED
    BY <1>1, <2>1, <2>2 DEF DeliveryInv, SentWasKeyed
<1>9. OneKey' /\ DeliveredWasSent'
  BY <1>1, <1>4 DEF DeliveryInv, OneKey, DeliveredWasSent
<1>. QED
  BY <1>6, <1>7, <1>8, <1>9 DEF DeliveryInv

(* Only a worker whose message was sent reports a delivery. *)
LEMMA AckKeeps ==
  ASSUME TypeInv, DeliveryInv, NEW w \in Workers, Ack(w)
  PROVE  DeliveryInv'
<1>. DEFINE e == ctx[w].event
<1>1. e \in Events /\ Warnings \subseteq Events /\ inbox \in [Events -> Row]
      /\ ctx \in [Workers -> Task] /\ UNCHANGED sent /\ Stop(w) /\ At(w, "ack")
      /\ ctx[w].outcome \in {"delivered", "permanent_failure", "retry"}
  BY EventsAssumption DEF Ack, TypeInv, TypeOK, Stage, At
<1>2. \A v \in Workers : Keyed(v) /\ Reported(v) /\ Stage(v)
  BY DEF DeliveryInv, TypeInv
<1>3. Idle.pc = "idle"
  BY DEF Idle
<1>4. \A v \in Workers : ctx'[v].pc = "idle" \/ ctx'[v] = ctx[v]
  BY <1>1, <1>3 DEF Stop
<1>5. CASE ~Holds(w, e)
  BY <1>1, <1>4, <1>5, QuietKeeps DEF Ack
<1>6. CASE Holds(w, e)
  <2>1. inbox' = [inbox EXCEPT ![e] = [inbox[e] EXCEPT !.state = Stored(ctx[w].outcome),
                                        !.lease = "none", !.later = ctx[w].outcome = "retry"]]
    BY <1>1, <1>6 DEF Ack
  <2>2. /\ inbox'[e].state = Stored(ctx[w].outcome) /\ (inbox'[e].keyed <=> inbox[e].keyed)
        /\ \A f \in Events \ {e} : inbox'[f] = inbox[f]
    BY <1>1, <2>1 DEF Row
  <2>3. \A v \in Workers : Keyed(v)' /\ Reported(v)'
    BY <1>1, <1>2, <1>4, <2>2 DEF Keyed, Reported, Stage, At
  <2>4. SentWasKeyed' /\ OneKey'
    BY <1>1, <2>2 DEF DeliveryInv, SentWasKeyed, OneKey
  <2>5. DeliveredWasSent'
    <3>1. Stored(ctx[w].outcome) = "delivered" => sent[e] > 0
      BY <1>1, <1>2, StoredCases DEF Reported
    <3>. QED
      BY <1>1, <2>2, <3>1 DEF DeliveryInv, DeliveredWasSent
  <2>. QED
    BY <2>3, <2>4, <2>5 DEF DeliveryInv
<1>. QED
  BY <1>5, <1>6

(* The other steps are quiet: they key nothing and deliver nothing, and    *)
(* whoever they move is not at its message.                                *)
LEMMA OtherKeeps ==
  ASSUME TypeInv, DeliveryInv,
         \/ \E w \in Workers : \/ Take(w) \/ Persist(w) \/ AckSource(w) \/ ReadRow(w) \/ Judge(w)
                               \/ AckLost(w) \/ Abandon(w) \/ ClaimFails(w)
         \/ \E e \in Events : \/ Enqueue(e) \/ Publish(e) \/ RetryPending(e)
                              \/ LeaseRunsOut(e) \/ TimePasses(e) \/ Outdated(e)
         \/ Subscribe \/ Unsubscribe \/ RedisFails \/ RedisReturns \/ BotRestarts \/ SetBlocked
  PROVE  DeliveryInv'
<1>. USE DEF World, Bus
<1>1. inbox \in [Events -> Row] /\ ctx \in [Workers -> Task] /\ \A v \in Workers : Stage(v)
  BY DEF TypeInv, TypeOK
<1>2. Idle.pc = "idle"
  BY DEF Idle
<1>3. CASE \E w \in Workers : \/ Take(w) \/ Persist(w) \/ AckSource(w) \/ ReadRow(w) \/ Judge(w)
                              \/ AckLost(w) \/ Abandon(w) \/ ClaimFails(w)
  <2>1. PICK w \in Workers : \/ Take(w) \/ Persist(w) \/ AckSource(w) \/ ReadRow(w) \/ Judge(w)
                             \/ AckLost(w) \/ Abandon(w) \/ ClaimFails(w)
    BY <1>3
  <2>. DEFINE e == ctx[w].event
  <2>2. UNCHANGED sent
    BY <2>1 DEF Take, Persist, AckSource, ReadRow, Judge, AckLost, Abandon, ClaimFails
  <2>3. \/ UNCHANGED inbox
        \/ e \in Events /\ \/ \E s \in {"pending", "suppressed", "review"} :
                               inbox' = [inbox EXCEPT ![e].state = s]
                            \/ inbox' = [inbox EXCEPT ![e].acked = TRUE]
                            \/ inbox' = [inbox EXCEPT ![e].later = TRUE]
    BY <1>1, <2>1 DEF Take, Persist, AckSource, ReadRow, Judge, AckLost, Abandon, ClaimFails, Stage, At
  <2>4. \A f \in Events : /\ (inbox'[f].keyed <=> inbox[f].keyed)
                          /\ inbox'[f].state = "delivered" => inbox[f].state = "delivered"
    BY <1>1, <2>3 DEF Row
  <2>5. /\ ctx' \in [Workers -> Task]
        /\ ctx'[w].pc # "send" /\ ctx'[w].pc # "ack"
        /\ \A v \in Workers \ {w} : ctx'[v] = ctx[v]
    <3>1. ctx' \in [Workers -> Task]
      BY <2>1, WorkType DEF Work, TypeInv, TypeOK
    <3>2. \/ \E f \in queue : ctx' = [ctx EXCEPT ![w] = [Idle EXCEPT !.pc = "persist", !.event = f]]
          \/ Stop(w)
          \/ \E pc \in {"ack_source", "read", "judge", "lease"} :
                ctx' = [ctx EXCEPT ![w] = [ctx[w] EXCEPT !.pc = pc]]
          \/ ctx[w].pc \in AtServer /\ ctx' = [ctx EXCEPT ![w] = [ctx[w] EXCEPT !.lost = TRUE]]
      BY <1>1, <2>1 DEF Take, Persist, AckSource, ReadRow, Judge, AckLost, Abandon, ClaimFails, Go
    <3>3. \A f \in Events : [Idle EXCEPT !.pc = "persist", !.event = f].pc = "persist"
      BY DEF Idle
    <3>4. \A v \in Workers \ {w} : ctx'[v] = ctx[v]
      BY <1>1, <3>2 DEF Stop
    <3>5. ctx'[w].pc # "send" /\ ctx'[w].pc # "ack"
      <4>1. CASE Stop(w)
        BY <1>1, <1>2, <4>1 DEF Stop
      <4>2. CASE \E f \in queue : ctx' = [ctx EXCEPT ![w] = [Idle EXCEPT !.pc = "persist", !.event = f]]
        BY <1>1, <3>3, <4>2 DEF TypeInv, TypeOK
      <4>3. CASE \E pc \in {"ack_source", "read", "judge", "lease"} :
                   ctx' = [ctx EXCEPT ![w] = [ctx[w] EXCEPT !.pc = pc]]
        BY <1>1, <4>3 DEF Task
      <4>4. CASE ctx[w].pc \in AtServer /\ ctx' = [ctx EXCEPT ![w] = [ctx[w] EXCEPT !.lost = TRUE]]
        <5>1. ctx'[w].pc = ctx[w].pc
          BY <1>1, <4>4, LoseType
        <5>. QED
          BY <4>4, <5>1 DEF AtServer
      <4>. QED
        BY <3>2, <4>1, <4>2, <4>3, <4>4
    <3>. QED
      BY <3>1, <3>4, <3>5
  <2>. QED
    BY <2>2, <2>4, <2>5, QuietKeeps
<1>4. CASE \E e \in Events : \/ Enqueue(e) \/ Publish(e) \/ RetryPending(e)
                             \/ LeaseRunsOut(e) \/ TimePasses(e) \/ Outdated(e)
  <2>1. PICK e \in Events : \/ Enqueue(e) \/ Publish(e) \/ RetryPending(e)
                            \/ LeaseRunsOut(e) \/ TimePasses(e) \/ Outdated(e)
    BY <1>4
  <2>2. UNCHANGED <<ctx, sent>>
    BY <2>1 DEF Enqueue, Publish, Undelivered, RetryPending, LeaseRunsOut, TimePasses, Outdated
  <2>3. \/ UNCHANGED inbox
        \/ inbox' = [inbox EXCEPT ![e].lease = "over"]
        \/ inbox' = [inbox EXCEPT ![e].later = FALSE]
    BY <2>1 DEF Enqueue, Publish, Undelivered, RetryPending, LeaseRunsOut, TimePasses, Outdated
  <2>4. \A f \in Events : /\ (inbox'[f].keyed <=> inbox[f].keyed)
                          /\ inbox'[f].state = "delivered" => inbox[f].state = "delivered"
    BY <1>1, <2>3 DEF Row
  <2>. QED
    BY <2>2, <2>4, QuietKeeps
<1>5. CASE Subscribe \/ Unsubscribe \/ RedisFails \/ RedisReturns \/ BotRestarts \/ SetBlocked
  <2>1. UNCHANGED <<inbox, sent>>
    BY <1>5 DEF Subscribe, Unsubscribe, RedisFails, RedisReturns, BotRestarts, SetBlocked
  <2>2. \A v \in Workers : \/ ctx'[v].pc # "send" /\ ctx'[v].pc # "ack"
                           \/ ctx'[v] = ctx[v]
    <3>1. CASE BotRestarts
      BY <1>1, <1>2, <3>1, LoseType DEF BotRestarts, AtServer
    <3>2. CASE UNCHANGED ctx
      BY <3>2
    <3>. QED
      BY <1>5, <3>1, <3>2 DEF Subscribe, Unsubscribe, RedisFails, RedisReturns, SetBlocked
  <2>. QED
    BY <2>1, <2>2, QuietKeeps
<1>. QED
  BY <1>3, <1>4, <1>5

(* What holds of the inbox, the workers and the messages sent, always.    *)
THEOREM DeliveryInvariant == Spec => []DeliveryInv
<1>1. Init => DeliveryInv
  <2>1. Idle.pc = "idle" /\ ~NoRow.keyed /\ NoRow.state = "none"
    BY DEF Idle, NoRow
  <2>2. Warnings \subseteq Events
    BY EventsAssumption
  <2>. QED
    BY <2>1, <2>2 DEF Init, DeliveryInv, Keyed, Reported, SentWasKeyed, OneKey, DeliveredWasSent, At
<1>2. TypeInv /\ DeliveryInv /\ [Next]_vars => DeliveryInv'
  <2>. SUFFICES ASSUME TypeInv, DeliveryInv, [Next]_vars PROVE DeliveryInv'
    OBVIOUS
  <2>1. CASE UNCHANGED vars
    BY <2>1, QuietKeeps DEF vars
  <2>2. CASE \E w \in Workers : Lease(w) \/ Send(w) \/ Ack(w)
    BY <2>2, LeaseKeeps, SendKeeps, AckKeeps
  <2>3. CASE Next /\ ~\E w \in Workers : Lease(w) \/ Send(w) \/ Ack(w)
    BY <2>3, OtherKeeps, Zenon DEF Next, Work
  <2>. QED
    BY <2>1, <2>2, <2>3
<1>. QED
  BY <1>1, <1>2, Typing, PTL DEF Spec

(* Of several warnings of the same thing the user receives one, whatever   *)
(* fails, times out or restarts.                                           *)
THEOREM WarnedOnce == Spec => []OneWarning
<1>1. TypeInv /\ DeliveryInv => OneWarning
  <2>. SUFFICES ASSUME TypeInv, DeliveryInv, NEW e \in Warnings, NEW f \in Warnings, e # f
                PROVE  sent[e] = 0 \/ sent[f] = 0
    BY DEF OneWarning
  <2>1. sent[e] \in Nat /\ sent[f] \in Nat
    BY EventsAssumption DEF TypeInv, TypeOK
  <2>. QED
    BY <2>1 DEF DeliveryInv, SentWasKeyed, OneKey
<1>. QED
  BY <1>1, Typing, DeliveryInvariant, PTL

(* The inbox only calls delivered what was sent. *)
THEOREM DeliveredIsSent == Spec => []DeliveredWasSent
<1>1. DeliveryInv => DeliveredWasSent
  BY DEF DeliveryInv
<1>. QED
  BY <1>1, DeliveryInvariant, PTL

(* What was concluded is never taken up again. *)
THEOREM ConcludedForGood == Spec => NeverReopened
<1>. DEFINE Stays == \A e \in Events : inbox[e].state \in Terminal => inbox'[e].state \in Terminal
<1>1. TypeInv /\ [Next]_vars => [Stays]_inbox
  <2>. SUFFICES ASSUME TypeInv, Next PROVE Stays
    BY DEF vars
  <2>1. inbox \in [Events -> Row]
    BY DEF TypeInv, TypeOK
  <2>2. ASSUME NEW w \in Workers, Work(w) PROVE Stays
    <3>. DEFINE e == ctx[w].event
    <3>1. CASE Persist(w) \/ Ack(w) \/ Lease(w)
      <4>1. \/ UNCHANGED inbox
            \/ inbox[e].state \notin Terminal /\ \A f \in Events \ {e} : inbox'[f] = inbox[f]
            \/ inbox' = [inbox EXCEPT ![e].state = "suppressed"]
        BY <2>1, <3>1 DEF Persist, Ack, Lease, Leasable, Holds, Terminal
      <4>. QED
        BY <2>1, <4>1 DEF Terminal, Row
    <3>2. CASE Judge(w) \/ AckSource(w)
      <4>1. \/ UNCHANGED inbox
            \/ \E s \in Terminal : inbox' = [inbox EXCEPT ![e].state = s]
            \/ inbox' = [inbox EXCEPT ![e].acked = TRUE]
            \/ inbox' = [inbox EXCEPT ![e].later = TRUE]
        BY <3>2 DEF Judge, AckSource, Terminal
      <4>2. ASSUME NEW s \in Terminal, inbox' = [inbox EXCEPT ![e].state = s] PROVE Stays
        BY <2>1, <4>2 DEF Row
      <4>3. CASE \/ inbox' = [inbox EXCEPT ![e].acked = TRUE]
                \/ inbox' = [inbox EXCEPT ![e].later = TRUE]
        BY <2>1, <4>3 DEF Row
      <4>. QED
        BY <4>1, <4>2, <4>3
    <3>3. CASE ReadRow(w) \/ Send(w)
      BY <3>3 DEF ReadRow, Send
    <3>. QED
      BY <2>2, <3>1, <3>2, <3>3 DEF Work
  <2>3. ASSUME NEW e \in Events, LeaseRunsOut(e) \/ TimePasses(e) PROVE Stays
    <3>1. \/ inbox' = [inbox EXCEPT ![e].lease = "over"]
          \/ inbox' = [inbox EXCEPT ![e].later = FALSE]
      BY <2>3 DEF LeaseRunsOut, TimePasses
    <3>. QED
      BY <2>1, <3>1 DEF Row
  <2>4. CASE UNCHANGED inbox
    BY <2>4
  <2>. QED
    BY <2>2, <2>3, <2>4 DEF Next, Take, AckLost, Abandon, ClaimFails, Enqueue, Publish, Undelivered, RetryPending,
       Outdated, Subscribe, Unsubscribe, RedisFails, RedisReturns, BotRestarts, SetBlocked
<1>2. NeverReopened <=> [][Stays]_inbox
  BY DEF NeverReopened
<1>. QED
  BY <1>1, <1>2, Typing, PTL DEF Spec

-----------------------------------------------------------------------------
(* Repeats are paid for by faults                                          *)

(* The workers whose next step sends the event.                            *)
Sending(e) == {w \in Workers : At(w, "send") /\ ctx[w].event = e}

(* The holder of the lease will not give the event back.                   *)
Closing(e) ==
  \E w \in Workers : /\ inbox[e].token = w /\ ctx[w].event = e
                     /\ At(w, "send") \/ (At(w, "ack") /\ ctx[w].outcome # "retry")

(* Another claim may lease the event without a fault.                      *)
Renewable(e) ==
  \/ inbox[e].state \in {"none", "pending"}
  \/ inbox[e].state = "leased" /\ ~(inbox[e].lease = "live" /\ Closing(e))

Owed(e) == IF Renewable(e) THEN 1 ELSE 0

(* What was sent of an event, and what may be sent of it with no further   *)
(* fault, is one message and one more for each fault there was.            *)
Affordable(e) == Cardinality(Sending(e)) + Owed(e) + sent[e] <= 1 + faults
Budget == \A e \in Events : Affordable(e)

LEMMA Counts ==
  ASSUME TypeInv, NEW e \in Events
  PROVE  /\ IsFiniteSet(Sending(e)) /\ Cardinality(Sending(e)) \in Nat
         /\ Owed(e) \in {0, 1} /\ sent[e] \in Nat /\ faults \in Nat
<1>1. Sending(e) \in SUBSET Workers
  BY DEF Sending
<1>2. IsFiniteSet(Sending(e))
  BY <1>1, DeliveryWorkersAssumption, FS_Subset
<1>. QED
  BY <1>2, FS_CardinalityType DEF TypeInv, TypeOK, Owed

LEMMA Fewer ==
  ASSUME TypeInv, TypeInv', NEW e \in Events, Affordable(e),
         Sending(e)' \subseteq Sending(e), sent'[e] = sent[e],
         \/ faults' = faults + 1
         \/ faults' = faults /\ (Renewable(e)' => Renewable(e))
  PROVE  Affordable(e)'
<1>1. /\ Cardinality(Sending(e)) \in Nat /\ sent[e] \in Nat /\ faults \in Nat
      /\ Cardinality(Sending(e)') <= Cardinality(Sending(e))
  BY Counts, FS_Subset
<1>2. Sending(e)' \in SUBSET Workers
  BY DEF Sending
<1>3. Cardinality(Sending(e)') \in Nat
  BY <1>2, DeliveryWorkersAssumption, FS_Subset, FS_CardinalityType
<1>4. Owed(e) \in {0, 1} /\ Owed(e)' \in {0, 1} /\ ((Renewable(e)' => Renewable(e)) => Owed(e)' <= Owed(e))
  BY DEF Owed
<1>. QED
  BY <1>1, <1>3, <1>4 DEF Affordable

LEMMA OneMore ==
  ASSUME TypeInv, NEW e \in Events, Affordable(e), NEW w,
         Sending(e)' = Sending(e) \cup {w}, sent'[e] = sent[e], faults' = faults,
         Renewable(e), ~Renewable(e)'
  PROVE  Affordable(e)'
<1>0. IsFiniteSet(Sending(e)) /\ Cardinality(Sending(e)) \in Nat /\ sent[e] \in Nat /\ faults \in Nat
  BY Counts
<1>a. /\ IsFiniteSet(Sending(e) \cup {w})
      /\ Cardinality(Sending(e) \cup {w}) = IF w \in Sending(e) THEN Cardinality(Sending(e))
                                                                ELSE Cardinality(Sending(e)) + 1
  BY <1>0, FS_AddElement
<1>b. Cardinality(Sending(e) \cup {w}) \in Nat
  BY <1>a, FS_CardinalityType
<1>1. /\ Cardinality(Sending(e)') <= Cardinality(Sending(e)) + 1
      /\ Cardinality(Sending(e)') \in Nat
  BY <1>0, <1>a, <1>b
<1>2. Owed(e) = 1 /\ Owed(e)' = 0
  BY DEF Owed
<1>. QED
  BY <1>0, <1>1, <1>2 DEF Affordable

LEMMA OneLess ==
  ASSUME TypeInv, TypeInv', NEW e \in Events, Affordable(e), NEW w \in Sending(e),
         Sending(e)' = Sending(e) \ {w}, sent'[e] <= sent[e] + 1,
         \/ faults' = faults + 1
         \/ faults' = faults /\ (Renewable(e)' => Renewable(e))
  PROVE  Affordable(e)'
<1>1. /\ Cardinality(Sending(e)) \in Nat /\ sent[e] \in Nat /\ faults \in Nat
      /\ Cardinality(Sending(e)') = Cardinality(Sending(e)) - 1
      /\ Cardinality(Sending(e)') \in Nat
  BY Counts, FS_RemoveElement, FS_CardinalityType
<1>2. Owed(e) \in {0, 1} /\ Owed(e)' \in {0, 1} /\ ((Renewable(e)' => Renewable(e)) => Owed(e)' <= Owed(e))
  BY DEF Owed
<1>3. sent'[e] \in Nat
  BY DEF TypeInv, TypeOK
<1>. QED
  BY <1>1, <1>2, <1>3 DEF Affordable

(* A step that brings nobody to its message is affordable when it is a     *)
(* fault, or opens no event again.                                         *)
LEMMA BudgetQuiet ==
  ASSUME TypeInv, TypeInv', Budget, UNCHANGED sent,
         \A v \in Workers : ctx'[v].pc # "send" \/ ctx'[v] = ctx[v],
         \/ faults' = faults + 1
         \/ faults' = faults /\ \A e \in Events : Renewable(e)' => Renewable(e)
  PROVE  Budget'
<1>. SUFFICES ASSUME NEW e \in Events PROVE Affordable(e)'
  BY DEF Budget
<1>1. Sending(e)' \subseteq Sending(e)
  BY DEF Sending, At
<1>. QED
  BY <1>1, Fewer DEF Budget

(* While those at a message go on as they are, what closes an event does.  *)
LEMMA ClosingStays ==
  ASSUME \A v \in Workers : ctx[v].pc \in {"send", "ack"} => ctx'[v] = ctx[v],
         NEW e \in Events, inbox'[e].token = inbox[e].token, Closing(e)
  PROVE  Closing(e)'
  BY DEF Closing, At

(* An event is not opened again by a step that leaves its lease alone, or  *)
(* concludes it, or brings its row to the inbox.                           *)
LEMMA NotOpened ==
  ASSUME \A v \in Workers : ctx[v].pc \in {"send", "ack"} => ctx'[v] = ctx[v],
         NEW e \in Events, inbox'[e].token = inbox[e].token,
         \/ inbox'[e].state = inbox[e].state /\ inbox'[e].lease = inbox[e].lease
         \/ inbox'[e].state \in Terminal
         \/ inbox[e].state = "none"
  PROVE  Renewable(e)' => Renewable(e)
  BY ClosingStays DEF Renewable, Terminal

(* The same for all events, when one row is written at most. *)
LEMMA RowQuiet ==
  ASSUME TypeInv, TypeInv', Budget, UNCHANGED <<sent, faults>>, NEW e \in Events,
         \A v \in Workers : ctx[v].pc \in {"send", "ack"} => ctx'[v] = ctx[v],
         \A v \in Workers : ctx'[v].pc # "send" \/ ctx'[v] = ctx[v],
         \A f \in Events \ {e} : inbox'[f] = inbox[f],
         inbox'[e].token = inbox[e].token,
         \/ inbox'[e].state = inbox[e].state /\ inbox'[e].lease = inbox[e].lease
         \/ inbox'[e].state \in Terminal
         \/ inbox[e].state = "none"
  PROVE  Budget'
<1>1. \A f \in Events : Renewable(f)' => Renewable(f)
  BY NotOpened
<1>. QED
  BY <1>1, BudgetQuiet

(* A worker that goes on or stops leaves the others as they are.           *)
LEMMA WorkerAlone ==
  ASSUME TypeInv, NEW w \in Workers, NEW pc \in AtServer, Stop(w) \/ Go(w, pc)
  PROVE  /\ \A v \in Workers \ {w} : ctx'[v] = ctx[v]
         /\ ctx'[w].pc # "send"
<1>1. CASE Stop(w)
  BY <1>1 DEF Stop, Idle, TypeInv, TypeOK
<1>2. CASE Go(w, pc)
  <2>1. /\ ctx' = [ctx EXCEPT ![w] = [ctx[w] EXCEPT !.pc = pc]]
        /\ pc # "send"
    BY <1>2 DEF Go, AtServer, TypeInv, TypeOK
  <2>2. ASSUME NEW t \in Task PROVE [t EXCEPT !.pc = pc].pc = pc
    BY <2>2 DEF Task, AtServer
  <2>. QED
    BY <2>1, <2>2 DEF TypeInv, TypeOK
<1>. QED
  BY <1>1, <1>2

(* The steps of a claim before its lease. *)
LEMMA ClaimBudget ==
  ASSUME TypeInv, TypeInv', Budget, NEW w \in Workers,
         Persist(w) \/ AckSource(w) \/ ReadRow(w) \/ Judge(w)
  PROVE  Budget'
<1>. DEFINE e == ctx[w].event
<1>0. /\ e \in Events
      /\ ctx[w].pc \in {"persist", "ack_source", "read", "judge"}
      /\ inbox \in [Events -> Row] /\ UNCHANGED sent
  BY DEF TypeInv, TypeOK, Stage, At, Persist, AckSource, ReadRow, Judge
<1>1. /\ \A v \in Workers \ {w} : ctx'[v] = ctx[v]
      /\ ctx'[w].pc # "send"
  <2>1. Stop(w) \/ Go(w, "ack_source") \/ Go(w, "read") \/ Go(w, "judge") \/ Go(w, "lease")
    BY DEF Persist, AckSource, ReadRow, Judge
  <2>. QED
    BY <2>1, WorkerAlone DEF AtServer
<1>2. /\ \A v \in Workers : ctx[v].pc \in {"send", "ack"} => ctx'[v] = ctx[v]
      /\ \A v \in Workers : ctx'[v].pc # "send" \/ ctx'[v] = ctx[v]
  BY <1>0, <1>1
<1>. HIDE DEF e
<1>3. CASE Persist(w)
  <2>1. /\ UNCHANGED faults
        /\ \/ UNCHANGED inbox
           \/ /\ inbox[e].state = "none"
              /\ \E s \in {"suppressed", "pending"} : inbox' = [inbox EXCEPT ![e].state = s]
    BY <1>3 DEF Persist, e
  <2>2. /\ \A f \in Events \ {e} : inbox'[f] = inbox[f]
        /\ inbox'[e].token = inbox[e].token
    BY <1>0, <2>1 DEF Row
  <2>. QED
    BY <1>0, <1>2, <2>1, <2>2, RowQuiet
<1>4. CASE AckSource(w)
  <2>1. CASE faults' = faults + 1
    BY <1>0, <1>2, <2>1, BudgetQuiet
  <2>2. CASE faults' # faults + 1
    <3>1. UNCHANGED faults /\ (UNCHANGED inbox \/ inbox' = [inbox EXCEPT ![e].acked = TRUE])
      BY <1>4, <2>2 DEF AckSource, Fault, e
    <3>2. /\ \A f \in Events \ {e} : inbox'[f] = inbox[f]
          /\ inbox'[e].token = inbox[e].token
          /\ inbox'[e].state = inbox[e].state
          /\ inbox'[e].lease = inbox[e].lease
      BY <1>0, <3>1 DEF Row
    <3>. QED
      BY <1>0, <1>2, <3>1, <3>2, RowQuiet
  <2>. QED
    BY <2>1, <2>2
<1>5. CASE ReadRow(w)
  BY <1>0, <1>2, <1>5, RowQuiet DEF ReadRow
<1>6. CASE Judge(w)
  <2>1. CASE faults' = faults + 1
    BY <1>0, <1>2, <2>1, BudgetQuiet
  <2>2. CASE faults' # faults + 1
    <3>1. /\ UNCHANGED faults
          /\ \/ UNCHANGED inbox
             \/ \E s \in {"suppressed", "review"} : inbox' = [inbox EXCEPT ![e].state = s]
      BY <1>6, <2>2 DEF Judge, Fault, e
    <3>2. /\ \A f \in Events \ {e} : inbox'[f] = inbox[f]
          /\ inbox'[e].token = inbox[e].token
          /\ \/ inbox'[e].state \in Terminal
             \/ inbox'[e].state = inbox[e].state /\ inbox'[e].lease = inbox[e].lease
      BY <1>0, <3>1 DEF Row, Terminal
    <3>. QED
      BY <1>0, <1>2, <3>1, <3>2, RowQuiet
  <2>. QED
    BY <2>1, <2>2
<1>. QED
  BY <1>3, <1>4, <1>5, <1>6

(* A claim that takes the lease answers for one message: no other claim    *)
(* can take it while its holder is at work.                                *)
LEMMA LeaseBudget ==
  ASSUME TypeInv, TypeInv', Budget, NEW w \in Workers, Lease(w)
  PROVE  Budget'
<1>e. PICK e \in Events : e = ctx[w].event
  BY DEF TypeInv, TypeOK, Stage, At, Lease
<1>0. /\ ctx[w].pc = "lease"
      /\ inbox \in [Events -> Row] /\ ctx \in [Workers -> Task]
      /\ UNCHANGED <<sent, faults>>
  BY DEF TypeInv, TypeOK, Stage, At, Lease
<1>. DEFINE leased == [inbox EXCEPT ![e].state = "leased", ![e].token = w,
                                    ![e].lease = "live", ![e].keyed = e \in Warnings]
<1>1. CASE Stop(w)
  <2>1. /\ \A v \in Workers \ {w} : ctx'[v] = ctx[v]
        /\ ctx'[w].pc # "send"
    BY <1>1, WorkerAlone DEF AtServer
  <2>2. /\ \A v \in Workers : ctx[v].pc \in {"send", "ack"} => ctx'[v] = ctx[v]
        /\ \A v \in Workers : ctx'[v].pc # "send" \/ ctx'[v] = ctx[v]
    BY <1>0, <2>1
  <2>3. CASE UNCHANGED inbox \/ inbox' = [inbox EXCEPT ![e].state = "suppressed"]
    <3>1. /\ \A f \in Events \ {e} : inbox'[f] = inbox[f]
          /\ inbox'[e].token = inbox[e].token
          /\ \/ inbox'[e].state \in Terminal
             \/ inbox'[e].state = inbox[e].state /\ inbox'[e].lease = inbox[e].lease
      BY <1>0, <2>3 DEF Row, Terminal
    <3>. QED
      BY <1>0, <2>2, <3>1, RowQuiet
  <2>4. CASE inbox' = leased /\ Leasable(inbox[e])
    <3>1. \A f \in Events \ {e} : inbox'[f] = inbox[f]
      BY <1>0, <2>4
    <3>2. Renewable(e)
      BY <2>4 DEF Leasable, Renewable
    <3>3. \A f \in Events : Renewable(f)' => Renewable(f)
      BY <2>2, <3>1, <3>2, NotOpened
    <3>. QED
      BY <1>0, <2>2, <3>3, BudgetQuiet
  <2>. QED
    BY <1>e, <1>0, <2>3, <2>4 DEF Lease
<1>2. CASE ~Stop(w)
  <2>1. Leasable(inbox[e]) /\ inbox' = leased /\ Go(w, "send")
    BY <1>e, <1>2 DEF Lease
  <2>2. /\ ctx' = [ctx EXCEPT ![w] = [ctx[w] EXCEPT !.pc = "send"]]
    BY <1>0, <2>1 DEF Go
  <2>3. ASSUME NEW t \in Task PROVE [t EXCEPT !.pc = "send"].pc = "send" /\ [t EXCEPT !.pc = "send"].event = t.event
    BY <2>3 DEF Task
  <2>4. ctx'[w].pc = "send" /\ ctx'[w].event = e /\ \A v \in Workers \ {w} : ctx'[v] = ctx[v]
    BY <1>e, <1>0, <2>2, <2>3
  <2>5. /\ \A f \in Events \ {e} : inbox'[f] = inbox[f]
        /\ inbox'[e].token = w /\ inbox'[e].state = "leased" /\ inbox'[e].lease = "live"
    BY <1>0, <2>1 DEF Row
  <2>. SUFFICES ASSUME NEW f \in Events PROVE Affordable(f)'
    BY DEF Budget
  <2>6. CASE f = e
    <3>1. Sending(e)' = Sending(e) \cup {w}
      BY <1>e, <1>0, <2>4 DEF Sending, At
    <3>2. Renewable(e)
      BY <2>1 DEF Leasable, Renewable
    <3>3. Closing(e)'
      BY <2>4, <2>5 DEF Closing, At
    <3>4. ~Renewable(e)'
      BY <2>5, <3>3 DEF Renewable
    <3>5. sent'[e] = sent[e] /\ Affordable(e)
      BY <1>0, <2>6 DEF Budget
    <3>. QED
      BY <1>0, <2>6, <3>1, <3>2, <3>4, <3>5, OneMore
  <2>7. CASE f # e
    <3>1. Sending(f)' \subseteq Sending(f)
      BY <1>0, <2>4, <2>7 DEF Sending, At
    <3>2. \A v \in Workers : ctx[v].pc \in {"send", "ack"} => ctx'[v] = ctx[v]
      BY <1>0, <2>4
    <3>3. Renewable(f)' => Renewable(f)
      BY <2>5, <2>7, <3>2, NotOpened
    <3>. QED
      BY <1>0, <3>1, <3>3, Fewer DEF Budget
  <2>. QED
    BY <2>6, <2>7
<1>. QED
  BY <1>1, <1>2

(* A message that goes out was paid for when it was claimed, and its       *)
(* sender still answers for the event unless something failed.             *)
LEMMA SendBudget ==
  ASSUME TypeInv, TypeInv', Budget, NEW w \in Workers, Send(w)
  PROVE  Budget'
<1>e. PICK e \in Events : e = ctx[w].event
  BY DEF TypeInv, TypeOK, Stage, At, Send
<1>0. /\ ctx[w].pc = "send"
      /\ inbox \in [Events -> Row] /\ ctx \in [Workers -> Task]
      /\ UNCHANGED inbox
      /\ sent \in [Events -> Nat] /\ faults \in Nat
  BY DEF TypeInv, TypeOK, Stage, At, Send
<1>1. PICK o \in {"delivered", "permanent_failure", "retry"} :
        /\ ctx' = [ctx EXCEPT ![w] = [ctx[w] EXCEPT !.pc = "ack", !.outcome = o]]
        /\ faults' = faults + 1 \/ (faults' = faults /\ o # "retry")
  <2>. DEFINE Note(o) == ctx' = [ctx EXCEPT ![w] = [ctx[w] EXCEPT !.pc = "ack", !.outcome = o]]
  <2>1. \/ Note("delivered") /\ faults' = faults
        \/ Note("permanent_failure") /\ faults' = faults
        \/ Note("retry") /\ faults' = faults + 1
    BY <1>0 DEF Send, Fault
  <2>. QED
    BY <2>1
<1>2. ASSUME NEW t \in Task
      PROVE  /\ [t EXCEPT !.pc = "ack", !.outcome = o].event = t.event
             /\ [t EXCEPT !.pc = "ack", !.outcome = o].outcome = o
             /\ [t EXCEPT !.pc = "ack", !.outcome = o].pc = "ack"
  BY <1>2 DEF Task
<1>3. /\ ctx'[w].pc = "ack" /\ ctx'[w].event = e /\ ctx'[w].outcome = o
      /\ \A v \in Workers \ {w} : ctx'[v] = ctx[v]
  BY <1>e, <1>0, <1>1, <1>2
<1>4. sent' = sent \/ sent' = [sent EXCEPT ![e] = @ + 1]
  BY <1>e DEF Send
<1>5. /\ sent'[e] <= sent[e] + 1
      /\ \A f \in Events \ {e} : sent'[f] = sent[f]
  BY <1>0, <1>4
<1>. SUFFICES ASSUME NEW f \in Events PROVE Affordable(f)'
  BY DEF Budget
<1>6. \/ faults' = faults + 1
      \/ faults' = faults /\ (Renewable(f)' => Renewable(f))
  <2>1. ASSUME faults' # faults + 1, Closing(f) PROVE Closing(f)'
    <3>1. o # "retry" /\ faults' = faults
      BY <1>1, <2>1
    <3>2. PICK v \in Workers : /\ inbox[f].token = v /\ ctx[v].event = f
                               /\ At(v, "send") \/ (At(v, "ack") /\ ctx[v].outcome # "retry")
      BY <2>1 DEF Closing
    <3>3. inbox'[f].token = v /\ ctx'[v].event = f /\ ((ctx'[v].pc = "send") \/ (ctx'[v].pc = "ack" /\ ctx'[v].outcome # "retry"))
      BY <1>e, <1>0, <1>3, <3>1, <3>2 DEF At
    <3>. QED
      BY <3>3 DEF Closing, At
  <2>. QED
    BY <1>0, <1>1, <2>1 DEF Renewable
<1>7. CASE f = e
  <2>1. w \in Sending(e) /\ Sending(e)' = Sending(e) \ {w}
    BY <1>e, <1>0, <1>3 DEF Sending, At
  <2>2. Affordable(e)
    BY DEF Budget
  <2>. QED
    BY <1>5, <1>6, <1>7, <2>1, <2>2, OneLess
<1>8. CASE f # e
  <2>1. Sending(f)' \subseteq Sending(f)
    BY <1>0, <1>3, <1>8 DEF Sending, At
  <2>. QED
    BY <1>5, <1>6, <1>8, <2>1, Fewer DEF Budget
<1>. QED
  BY <1>7, <1>8

(* An outcome that gives the event back was a failure to begin with; any   *)
(* other concludes it.                                                     *)
LEMMA AckBudget ==
  ASSUME TypeInv, TypeInv', Budget, NEW w \in Workers, Ack(w)
  PROVE  Budget'
<1>. DEFINE e == ctx[w].event
            o == ctx[w].outcome
<1>0. /\ e \in Events /\ ctx[w].pc = "ack" /\ o \in {"delivered", "permanent_failure", "retry"}
      /\ inbox \in [Events -> Row] /\ ctx \in [Workers -> Task]
      /\ UNCHANGED <<sent, faults>>
  BY DEF TypeInv, TypeOK, Stage, At, Ack
<1>1. /\ \A v \in Workers \ {w} : ctx'[v] = ctx[v]
      /\ ctx'[w].pc # "send"
  BY WorkerAlone DEF AtServer, Ack
<1>2. \A v \in Workers : ctx'[v].pc # "send" \/ ctx'[v] = ctx[v]
  BY <1>1
<1>. SUFFICES ASSUME NEW f \in Events PROVE Renewable(f)' => Renewable(f)
  BY <1>0, <1>2, BudgetQuiet
<1>3. ASSUME Closing(f), inbox'[f].token = inbox[f].token, inbox[f].token # w PROVE Closing(f)'
  BY <1>1, <1>3 DEF Closing, At
<1>4. CASE Holds(w, e) /\ f = e
  <2>1. inbox[e].state = "leased" /\ inbox[e].token = w
    BY <1>4 DEF Holds
  <2>2. inbox' = [inbox EXCEPT ![e].state = Stored(o), ![e].lease = "none", ![e].later = o = "retry"]
    BY <1>4 DEF Ack
  <2>3. inbox'[e].state = Stored(o)
    BY <1>0, <2>2 DEF Row
  <2>4. CASE o = "retry"
    <3>1. ~Closing(e)
      BY <1>0, <2>1, <2>4 DEF Closing, At
    <3>. QED
      BY <1>4, <2>1, <3>1 DEF Renewable
  <2>5. CASE o # "retry"
    <3>1. Stored(o) \in Terminal
      <4>1. CASE o = "delivered"
        BY <4>1 DEF Stored, Terminal
      <4>2. CASE o = "permanent_failure"
        <5>1. Stored(o) = "permanent"
          BY <4>2 DEF Stored
        <5>. QED
          BY <5>1 DEF Terminal
      <4>. QED
        BY <1>0, <2>5, <4>1, <4>2
    <3>. QED
      BY <1>4, <2>3, <3>1 DEF Renewable, Terminal
  <2>. QED
    BY <2>4, <2>5
<1>5. CASE ~(Holds(w, e) /\ f = e)
  <2>1. inbox'[f] = inbox[f]
    BY <1>0, <1>5 DEF Ack
  <2>2. CASE inbox[f].token # w
    BY <1>3, <2>1, <2>2 DEF Renewable
  <2>3. CASE inbox[f].token = w /\ f = e
    <3>1. ~(inbox[e].state = "leased" /\ inbox[e].lease = "live")
      BY <1>5, <2>3 DEF Holds
    <3>. QED
      BY <2>1, <2>3, <3>1 DEF Renewable
  <2>4. CASE inbox[f].token = w /\ f # e
    <3>1. ~Closing(f)
      BY <2>4 DEF Closing
    <3>. QED
      BY <2>1, <3>1 DEF Renewable
  <2>. QED
    BY <2>2, <2>3, <2>4
<1>. QED
  BY <1>4, <1>5

(* Failures pay for what they undo. *)
LEMMA FaultBudget ==
  ASSUME TypeInv, TypeInv', Budget,
         \/ \E w \in Workers : AckLost(w) \/ Abandon(w) \/ ClaimFails(w)
         \/ Unsubscribe \/ RedisFails \/ BotRestarts
  PROVE  Budget'
<1>1. faults' = faults + 1 /\ UNCHANGED sent
  BY DEF AckLost, Abandon, ClaimFails, Unsubscribe, RedisFails, BotRestarts, Fault
<1>2. ASSUME NEW v \in Workers PROVE ctx'[v].pc # "send" \/ ctx'[v] = ctx[v]
  <2>0. ctx \in [Workers -> Task]
    BY DEF TypeInv, TypeOK
  <2>1. ASSUME NEW w \in Workers, AckLost(w) \/ ClaimFails(w) PROVE ctx'[v].pc # "send" \/ ctx'[v] = ctx[v]
    <3>1. Stop(w)
      BY <2>1 DEF AckLost, ClaimFails
    <3>. QED
      BY <2>0, <3>1 DEF Stop, Idle
  <2>2. ASSUME NEW w \in Workers, Abandon(w) PROVE ctx'[v].pc # "send" \/ ctx'[v] = ctx[v]
    <3>1. ctx' = [ctx EXCEPT ![w] = [ctx[w] EXCEPT !.lost = TRUE]] /\ ctx[w].pc # "send"
      BY <2>0, <2>2 DEF Abandon, AtServer
    <3>2. [ctx[w] EXCEPT !.lost = TRUE].pc = ctx[w].pc
      BY <2>0, LoseType
    <3>. QED
      BY <2>0, <3>1, <3>2
  <2>3. CASE Unsubscribe \/ RedisFails
    BY <2>3 DEF Unsubscribe, RedisFails
  <2>4. CASE BotRestarts
    <3>1. ctx'[v] = IF ctx[v].pc \in AtServer THEN [ctx[v] EXCEPT !.lost = TRUE] ELSE Idle
      BY <2>4 DEF BotRestarts
    <3>2. [ctx[v] EXCEPT !.lost = TRUE].pc = ctx[v].pc
      BY <2>0, LoseType
    <3>3. Idle.pc = "idle"
      BY DEF Idle
    <3>. QED
      BY <3>1, <3>2, <3>3 DEF AtServer
  <2>. QED
    BY <2>1, <2>2, <2>3, <2>4
<1>. QED
  BY <1>1, <1>2, BudgetQuiet

(* The bus, the clock and the user send nothing, and a lease runs out      *)
(* under its holder by a failure only.                                     *)
LEMMA WorldBudget ==
  ASSUME TypeInv, TypeInv', Budget, UNCHANGED <<ctx, sent>>,
         \/ \E e \in Events : \/ Enqueue(e) \/ Publish(e) \/ RetryPending(e)
                              \/ LeaseRunsOut(e) \/ TimePasses(e) \/ Outdated(e)
         \/ Subscribe \/ RedisReturns \/ SetBlocked
  PROVE  Budget'
<1>0. inbox \in [Events -> Row]
  BY DEF TypeInv, TypeOK
<1>1. ASSUME UNCHANGED <<inbox, faults>> PROVE Budget'
  <2>1. \A e \in Events : Renewable(e)' => Renewable(e)
    BY <1>1, NotOpened
  <2>. QED
    BY <1>1, <2>1, BudgetQuiet
<1>2. ASSUME NEW e \in Events, TimePasses(e) PROVE Budget'
  <2>1. UNCHANGED faults /\ inbox' = [inbox EXCEPT ![e].later = FALSE]
    BY <1>2 DEF TimePasses
  <2>2. /\ \A f \in Events \ {e} : inbox'[f] = inbox[f]
        /\ inbox'[e].token = inbox[e].token
        /\ inbox'[e].state = inbox[e].state
        /\ inbox'[e].lease = inbox[e].lease
    BY <1>0, <2>1 DEF Row
  <2>. QED
    BY <2>1, <2>2, RowQuiet
<1>3. ASSUME NEW e \in Events, LeaseRunsOut(e) PROVE Budget'
  <2>1. CASE AtWork(e)
    <3>1. faults' = faults + 1
      BY <1>3, <2>1 DEF LeaseRunsOut, Fault
    <3>. QED
      BY <3>1, BudgetQuiet
  <2>2. CASE ~AtWork(e)
    <3>1. UNCHANGED faults /\ inbox' = [inbox EXCEPT ![e].lease = "over"]
      BY <1>3, <2>2 DEF LeaseRunsOut
    <3>2. /\ \A f \in Events \ {e} : inbox'[f] = inbox[f]
          /\ inbox'[e].state = inbox[e].state
      BY <1>0, <3>1 DEF Row
    <3>3. ~Closing(e)
      BY <2>2 DEF Closing, AtWork, At
    <3>4. \A f \in Events \ {e} : Renewable(f)' => Renewable(f)
      BY <3>2, NotOpened
    <3>5. Renewable(e)' => Renewable(e)
      BY <3>2, <3>3 DEF Renewable
    <3>. QED
      BY <3>1, <3>4, <3>5, BudgetQuiet
  <2>. QED
    BY <2>1, <2>2
<1>. QED
  BY <1>1, <1>2, <1>3 DEF Enqueue, Publish, RetryPending, Outdated, Subscribe, RedisReturns, SetBlocked, World, Bus

(* Every step keeps the budget. *)
LEMMA BudgetStep ==
  ASSUME TypeInv, TypeInv', Budget, [Next]_vars
  PROVE  Budget'
<1>1. CASE UNCHANGED vars
  <2>1. \A e \in Events : Renewable(e)' => Renewable(e)
    BY <1>1, NotOpened DEF vars
  <2>. QED
    BY <1>1, <2>1, BudgetQuiet DEF vars
<1>2. ASSUME NEW w \in Workers, Take(w) PROVE Budget'
  <2>0. ctx \in [Workers -> Task] /\ ctx[w].pc = "idle" /\ UNCHANGED <<inbox, sent, faults>>
    BY <1>2 DEF TypeInv, TypeOK, Take, At
  <2>1. PICK f \in queue : ctx' = [ctx EXCEPT ![w] = [Idle EXCEPT !.pc = "persist", !.event = f]]
    BY <1>2 DEF Take
  <2>2. ctx'[w].pc = "persist" /\ \A v \in Workers \ {w} : ctx'[v] = ctx[v]
    BY <2>0, <2>1 DEF Idle
  <2>3. /\ \A v \in Workers : ctx[v].pc \in {"send", "ack"} => ctx'[v] = ctx[v]
        /\ \A v \in Workers : ctx'[v].pc # "send" \/ ctx'[v] = ctx[v]
    BY <2>0, <2>2
  <2>4. \A e \in Events : Renewable(e)' => Renewable(e)
    BY <2>0, <2>3, NotOpened
  <2>. QED
    BY <2>0, <2>3, <2>4, BudgetQuiet
<1>3. CASE \E e \in Events : \/ Enqueue(e) \/ Publish(e) \/ RetryPending(e)
                             \/ LeaseRunsOut(e) \/ TimePasses(e) \/ Outdated(e)
  <2>1. UNCHANGED <<ctx, sent>>
    BY <1>3 DEF Enqueue, Publish, RetryPending, LeaseRunsOut, TimePasses, Outdated
  <2>. QED
    BY <1>3, <2>1, WorldBudget
<1>4. CASE Subscribe \/ RedisReturns \/ SetBlocked
  <2>1. UNCHANGED <<ctx, sent>>
    BY <1>4 DEF Subscribe, RedisReturns, SetBlocked
  <2>. QED
    BY <1>4, <2>1, WorldBudget
<1>. QED
  BY <1>1, <1>2, <1>3, <1>4, ClaimBudget, LeaseBudget, SendBudget, AckBudget, FaultBudget DEF Next, Work

(* A user receives an event once, and once more at most for each failure   *)
(* on the way, whatever the workers, leases and restarts                   *)
(* (bot_delivery.claim_event, ack_event).                                  *)
THEOREM RepeatsArePaid == Spec => []RepeatsAreFaults
<1>1. Init /\ TypeInv => Budget
  <2>. SUFFICES ASSUME Init, TypeInv, NEW e \in Events PROVE Affordable(e)
    BY DEF Budget
  <2>1. Sending(e) = {}
    BY DEF Init, Sending, At, Idle
  <2>2. Cardinality(Sending(e)) = 0
    BY <2>1, FS_EmptySet
  <2>3. sent[e] = 0 /\ faults = 0 /\ Owed(e) \in {0, 1}
    BY DEF Init, Owed
  <2>. QED
    BY <2>2, <2>3 DEF Affordable
<1>2. TypeInv /\ TypeInv' /\ Budget /\ [Next]_vars => Budget'
  BY BudgetStep
<1>3. TypeInv /\ Budget => RepeatsAreFaults
  BY Counts DEF Budget, Affordable, RepeatsAreFaults
<1>. QED
  BY <1>1, <1>2, <1>3, Typing, PTL DEF Spec

====
