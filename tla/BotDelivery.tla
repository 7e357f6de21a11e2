---------------------------- MODULE BotDelivery ----------------------------
(***************************************************************************)
(* How an event reaches a Telegram user.  Whoever has something to tell    *)
(* commits an event with its own change (the outbox, table bot_event) and  *)
(* publishes it on Redis; a job publishes again what nobody acknowledged.  *)
(* The bot queues what it hears, and for each event asks the bot API for a *)
(* claim: the API copies the event into the inbox (bot_delivery),          *)
(* acknowledges the outbox, and leases the row to that claim.  The bot     *)
(* then sends the message and reports the outcome under its lease token.   *)
(*                                                                         *)
(* A worker is one of the bot's four workers together with the request it  *)
(* has at the API.  When the bot gives up on that request, or restarts,    *)
(* the request goes on alone (lost).  The token a claim returns is         *)
(* written here as the worker that received it.                            *)
(***************************************************************************)
EXTENDS Naturals, FiniteSets

CONSTANTS
  Events,
  Remote,     \* events of a node: their outbox is in the node's own database
  Warnings,   \* events that warn of the same thing: they share a dedup_key
  Workers,
  QueueSize,  \* asyncio.Queue(maxsize=256)
  MaxFaults,  \* bound: crashes, outages, timeouts and failures in a behaviour
  NoWorker,   \* lease_token IS NULL
  NoEvent

ASSUME EventsAssumption == Remote \subseteq Events /\ Warnings \subseteq Events /\ NoEvent \notin Events
ASSUME DeliveryWorkersAssumption == IsFiniteSet(Workers) /\ NoWorker \notin Workers
ASSUME DeliveryBoundsAssumption == QueueSize \in Nat \ {0} /\ MaxFaults \in Nat

VARIABLES
  outbox,      \* bot_event: "stored" until delivered_at is set
  inbox,       \* bot_delivery: state, lease_token, lease_until, next_attempt_at, source_acked, dedup_key
  redis,       \* Redis answers
  subscribed,  \* the bot is subscribed to the channel
  queue,       \* what the bot has queued
  ctx,         \* what each worker does
  blocked,     \* TelegramUser.blocked
  current,     \* the warning still describes the client (_warning_key)
  sent,        \* messages the user received, per event
  faults

vars == <<outbox, inbox, redis, subscribed, queue, ctx, blocked, current, sent, faults>>

Terminal == {"delivered", "permanent", "review", "suppressed"}
Row == [state : {"none", "pending", "leased"} \cup Terminal,
        token : Workers \cup {NoWorker},
        lease : {"none", "live", "over"},
        later : BOOLEAN,
        acked : BOOLEAN,
        keyed : BOOLEAN]
AtServer == {"persist", "ack_source", "read", "judge", "lease"}
Task == [pc : {"idle", "send", "ack"} \cup AtServer,
         event : Events \cup {NoEvent},
         lost : BOOLEAN,
         outcome : {"none", "delivered", "permanent_failure", "retry"}]

TypeOK ==
  /\ outbox \in [Events -> {"none", "stored", "acked"}]
  /\ inbox \in [Events -> Row]
  /\ redis \in BOOLEAN /\ subscribed \in BOOLEAN
  /\ queue \in SUBSET Events
  /\ ctx \in [Workers -> Task]
  /\ blocked \in BOOLEAN
  /\ current \in [Events -> BOOLEAN]
  /\ sent \in [Events -> Nat]
  /\ faults \in Nat

NoRow == [state |-> "none", token |-> NoWorker, lease |-> "none", later |-> FALSE,
          acked |-> FALSE, keyed |-> FALSE]
Idle == [pc |-> "idle", event |-> NoEvent, lost |-> FALSE, outcome |-> "none"]

Init ==
  /\ outbox = [e \in Events |-> "none"]
  /\ inbox = [e \in Events |-> NoRow]
  /\ redis = TRUE
  /\ subscribed = TRUE
  /\ queue = {}
  /\ ctx = [w \in Workers |-> Idle]
  /\ blocked \in BOOLEAN
  /\ current = [e \in Events |-> TRUE]
  /\ sent = [e \in Events |-> 0]
  /\ faults = 0

At(w, pc) == ctx[w].pc = pc
Go(w, pc) == ctx' = [ctx EXCEPT ![w].pc = pc]
Stop(w) == ctx' = [ctx EXCEPT ![w] = Idle]
Fault == faults < MaxFaults /\ faults' = faults + 1

Bus == <<redis, subscribed, queue>>
World == <<blocked, current>>

-----------------------------------------------------------------------------
(* The outbox and the bus *)

(* enqueue, in the transaction of the change it reports. *)
Enqueue(e) ==
  /\ outbox[e] = "none"
  /\ outbox' = [outbox EXCEPT ![e] = "stored"]
  /\ UNCHANGED <<inbox, Bus, ctx, World, sent, faults>>

(* run_consumer's enqueue: one task per event at a time, and a full queue  *)
(* leaves the event to a later copy.                                       *)
Active == queue \cup {ctx[w].event : w \in {v \in Workers : ~ctx[v].lost}}
Offer(e) ==
  /\ e \notin Active
  /\ Cardinality(queue) < QueueSize
  /\ queue' = queue \cup {e}

(* What replay_undelivered_bot_events publishes again.                      *)
Undelivered(e) == outbox[e] = "stored"

(* publish_stored after the commit, and replay_undelivered_bot_events ever *)
(* after: a publication that nobody heard acknowledges the event.          *)
Publish(e) ==
  /\ Undelivered(e)
  /\ redis
  /\ IF subscribed THEN Offer(e) /\ UNCHANGED outbox
     ELSE outbox' = [outbox EXCEPT ![e] = "acked"] /\ UNCHANGED queue
  /\ UNCHANGED <<inbox, redis, subscribed, ctx, World, sent, faults>>

(* Mutant: leases that ran out are not retried. *)
DueUnleased(e) == inbox[e].state = "pending" /\ ~inbox[e].later /\ inbox[e].lease # "live"

(* pending_events, which the bot asks for every 5 seconds. *)
Due(e) == inbox[e].state \in {"pending", "leased"} /\ ~inbox[e].later /\ inbox[e].lease # "live"
RetryPending(e) ==
  /\ Due(e)
  /\ Offer(e)
  /\ UNCHANGED <<outbox, inbox, redis, subscribed, ctx, World, sent, faults>>

Subscribe ==
  /\ redis /\ ~subscribed
  /\ subscribed' = TRUE
  /\ UNCHANGED <<outbox, inbox, redis, queue, ctx, World, sent, faults>>

Unsubscribe ==
  /\ subscribed
  /\ Fault
  /\ subscribed' = FALSE
  /\ UNCHANGED <<outbox, inbox, redis, queue, ctx, World, sent>>

RedisFails ==
  /\ redis
  /\ Fault
  /\ redis' = FALSE /\ subscribed' = FALSE
  /\ UNCHANGED <<outbox, inbox, queue, ctx, World, sent>>

RedisReturns ==
  /\ ~redis
  /\ redis' = TRUE
  /\ UNCHANGED <<outbox, inbox, subscribed, queue, ctx, World, sent, faults>>

-----------------------------------------------------------------------------
(* A worker's claim, in the steps in which claim_event commits. *)

Take(w) ==
  /\ At(w, "idle")
  /\ \E e \in queue :
       /\ queue' = queue \ {e}
       /\ ctx' = [ctx EXCEPT ![w] = [Idle EXCEPT !.pc = "persist", !.event = e]]
  /\ UNCHANGED <<outbox, inbox, redis, subscribed, World, sent, faults>>

(* _persist: the event is copied as its outbox has it, once. *)
Persist(w) ==
  LET e == ctx[w].event IN
  /\ At(w, "persist")
  /\ inbox' = IF inbox[e].state # "none" THEN inbox
              ELSE [inbox EXCEPT ![e].state = IF outbox[e] = "acked" THEN "suppressed" ELSE "pending"]
  /\ Go(w, "ack_source")
  /\ UNCHANGED <<outbox, Bus, World, sent, faults>>

(* _ack_source: for an event of a node this is a call, whose answer may    *)
(* fail to come, and which the next claim repeats.                         *)
AckSource(w) ==
  LET e == ctx[w].event IN
  /\ At(w, "ack_source")
  /\ \/ /\ inbox[e].acked
        /\ UNCHANGED <<outbox, inbox, faults>>
     \/ /\ ~inbox[e].acked
        /\ outbox' = [outbox EXCEPT ![e] = "acked"]
        /\ inbox' = [inbox EXCEPT ![e].acked = TRUE]
        /\ UNCHANGED faults
     \/ /\ ~inbox[e].acked /\ e \in Remote /\ Fault
        /\ outbox' = outbox \/ outbox' = [outbox EXCEPT ![e] = "acked"]
        /\ UNCHANGED inbox
  /\ Go(w, "read")
  /\ UNCHANGED <<Bus, World, sent>>

ReadRow(w) ==
  LET row == inbox[ctx[w].event] IN
  /\ At(w, "read")
  /\ IF row.state \in Terminal \/ row.later \/ (row.state = "leased" /\ row.lease = "live")
     THEN Stop(w)
     ELSE Go(w, "judge")
  /\ UNCHANGED <<outbox, inbox, Bus, World, sent, faults>>

(* The user, and for a warning the client as it is now, decide.  What they *)
(* decide against is written without another look at the row.              *)
Judge(w) ==
  LET e == ctx[w].event IN
  /\ At(w, "judge")
  /\ \/ /\ blocked
        /\ inbox' = [inbox EXCEPT ![e].state = "suppressed"]
        /\ Stop(w)
        /\ UNCHANGED faults
     \/ /\ ~blocked /\ e \in Warnings /\ ~current[e]
        /\ \E state \in {"suppressed", "review"} : inbox' = [inbox EXCEPT ![e].state = state]
        /\ Stop(w)
        /\ UNCHANGED faults
     \/ /\ ~blocked /\ e \in Warnings /\ Fault
        /\ inbox' = [inbox EXCEPT ![e].later = TRUE]
        /\ Stop(w)
     \/ /\ ~blocked /\ (e \in Warnings => current[e])
        /\ Go(w, "lease")
        /\ UNCHANGED <<inbox, faults>>
  /\ UNCHANGED <<outbox, Bus, World, sent>>

(* Mutant: the lease is taken whatever the state of the row. *)
LeasableInAnyState(row) == row.lease # "live"

Leasable(row) == row.state \in {"pending", "leased"} /\ row.lease # "live"

(* Mutant: the key of a warning is only taken when it was delivered. *)
DuplicateOfDelivered(e) ==
  e \in Warnings /\ \E f \in Warnings \ {e} : inbox[f].keyed /\ inbox[f].state = "delivered"

(* The dedup_key is unique over all rows. *)
Duplicate(e) == e \in Warnings /\ \E f \in Warnings \ {e} : inbox[f].keyed

Lease(w) ==
  LET e == ctx[w].event IN
  /\ At(w, "lease")
  /\ IF ~Leasable(inbox[e]) THEN Stop(w) /\ UNCHANGED inbox
     ELSE IF Duplicate(e)
     THEN /\ inbox' = [inbox EXCEPT ![e].state = "suppressed"]
          /\ Stop(w)
     ELSE /\ inbox' = [inbox EXCEPT ![e].state = "leased", ![e].token = w,
                                    ![e].lease = "live", ![e].keyed = e \in Warnings]
          /\ IF ctx[w].lost THEN Stop(w) ELSE Go(w, "send")
  /\ UNCHANGED <<outbox, Bus, World, sent, faults>>

(* Telegram, external to src/backend: the message is sent, refused for     *)
(* good, fails, or is sent while its sender sees a timeout.                *)
Send(w) ==
  LET e == ctx[w].event
      Note(outcome) == ctx' = [ctx EXCEPT ![w].pc = "ack", ![w].outcome = outcome]
      Received == sent' = [sent EXCEPT ![e] = @ + 1]
  IN
  /\ At(w, "send")
  /\ \/ Received /\ Note("delivered") /\ UNCHANGED faults
     \/ Note("permanent_failure") /\ UNCHANGED <<sent, faults>>
     \/ Note("retry") /\ Fault /\ UNCHANGED sent
     \/ Received /\ Note("retry") /\ Fault
  /\ UNCHANGED <<outbox, inbox, Bus, World>>

Holds(w, e) == inbox[e].state = "leased" /\ inbox[e].token = w /\ inbox[e].lease = "live"

Stored(outcome) ==
  CASE outcome = "delivered" -> "delivered"
    [] outcome = "permanent_failure" -> "permanent"
    [] outcome = "retry" -> "pending"

(* ack_event: only under a lease that still runs. *)
Ack(w) ==
  LET e == ctx[w].event IN
  /\ At(w, "ack")
  /\ inbox' = IF Holds(w, e)
              THEN [inbox EXCEPT ![e].state = Stored(ctx[w].outcome), ![e].lease = "none",
                                 ![e].later = ctx[w].outcome = "retry"]
              ELSE inbox
  /\ Stop(w)
  /\ UNCHANGED <<outbox, Bus, World, sent, faults>>

-----------------------------------------------------------------------------
(* Failures and time *)

(* All three attempts to report the outcome fail. *)
AckLost(w) ==
  /\ At(w, "ack")
  /\ Fault
  /\ Stop(w)
  /\ UNCHANGED <<outbox, inbox, Bus, World, sent>>

(* The bot stops waiting for its claim, which goes on at the API. *)
Abandon(w) ==
  /\ ctx[w].pc \in AtServer /\ ~ctx[w].lost
  /\ Fault
  /\ ctx' = [ctx EXCEPT ![w].lost = TRUE]
  /\ UNCHANGED <<outbox, inbox, Bus, World, sent>>

(* The request dies at the API, or cannot read the event at its node. *)
ClaimFails(w) ==
  /\ ctx[w].pc \in AtServer
  /\ Fault
  /\ Stop(w)
  /\ UNCHANGED <<outbox, inbox, Bus, World, sent>>

BotRestarts ==
  /\ Fault
  /\ queue' = {}
  /\ subscribed' = FALSE
  /\ ctx' = [w \in Workers |-> IF ctx[w].pc \in AtServer THEN [ctx[w] EXCEPT !.lost = TRUE] ELSE Idle]
  /\ UNCHANGED <<outbox, inbox, redis, World, sent>>

(* Mutant: the lease is shorter than the time a message may take. *)
ShortLease(e) == FALSE

(* Sending takes 45 seconds at most, a lease lasts 120: it runs out on a   *)
(* holder at work only by a fault.                                         *)
AtWork(e) == \E w \in Workers : ctx[w].pc \in {"send", "ack"} /\ ctx[w].event = e /\ inbox[e].token = w
LeaseRunsOut(e) ==
  /\ inbox[e].lease = "live"
  /\ IF AtWork(e) THEN Fault ELSE UNCHANGED faults
  /\ inbox' = [inbox EXCEPT ![e].lease = "over"]
  /\ UNCHANGED <<outbox, Bus, ctx, World, sent>>

TimePasses(e) ==
  /\ inbox[e].later
  /\ inbox' = [inbox EXCEPT ![e].later = FALSE]
  /\ UNCHANGED <<outbox, Bus, ctx, World, sent, faults>>

SetBlocked ==
  /\ blocked' = ~blocked
  /\ UNCHANGED <<outbox, inbox, Bus, ctx, current, sent, faults>>

Outdated(e) ==
  /\ current[e]
  /\ current' = [current EXCEPT ![e] = FALSE]
  /\ UNCHANGED <<outbox, inbox, Bus, ctx, blocked, sent, faults>>

-----------------------------------------------------------------------------
Work(w) ==
  Persist(w) \/ AckSource(w) \/ ReadRow(w) \/ Judge(w) \/ Lease(w) \/ Send(w) \/ Ack(w)

Next ==
  \/ \E e \in Events : \/ Enqueue(e) \/ Publish(e) \/ RetryPending(e)
                       \/ LeaseRunsOut(e) \/ TimePasses(e) \/ Outdated(e)
  \/ \E w \in Workers : Take(w) \/ Work(w) \/ AckLost(w) \/ Abandon(w) \/ ClaimFails(w)
  \/ Subscribe \/ Unsubscribe \/ RedisFails \/ RedisReturns \/ BotRestarts \/ SetBlocked

Spec == Init /\ [][Next]_vars

(* Jobs and polls run again and again, started work goes on, what broke    *)
(* comes back, clocks advance.                                             *)
Fairness ==
  /\ \A w \in Workers : WF_vars(Take(w)) /\ WF_vars(Work(w))
  /\ \A e \in Events : /\ WF_vars(Publish(e)) /\ WF_vars(RetryPending(e))
                       /\ WF_vars(LeaseRunsOut(e)) /\ WF_vars(TimePasses(e))
  /\ WF_vars(Subscribe) /\ WF_vars(RedisReturns)

FairSpec == Spec /\ Fairness

-----------------------------------------------------------------------------
(* Properties *)

(* A user receives an event once, and again only if something failed: a    *)
(* lost answer, a lease that ran out under its holder, a restart (the      *)
(* consumer's "a later retry may repeat a Telegram message").              *)
RepeatsAreFaults == \A e \in Events : sent[e] <= 1 + faults

(* Of several warnings of the same thing, raised by different nodes, the   *)
(* user receives one (claim_event's dedup_key).                            *)
OneWarning ==
  \A e, f \in Warnings : e # f => sent[e] = 0 \/ sent[f] = 0

(* The inbox only calls delivered what was sent (ack_event).               *)
DeliveredWasSent ==
  \A e \in Events : inbox[e].state = "delivered" => sent[e] > 0

(* What was concluded is never taken up again, however late a claim, an    *)
(* acknowledgment or a copy on the bus arrives.                            *)
NeverReopened ==
  [][\A e \in Events : inbox[e].state \in Terminal => inbox'[e].state \in Terminal]_inbox

(* Every event comes to an end: delivered, refused, suppressed, or unheard *)
(* because the bot was not subscribed; none is left in the outbox, in the  *)
(* inbox or under a dead worker's lease (replay_undelivered_bot_events,    *)
(* retry_pending).                                                         *)
Over(e) == inbox[e].state \in Terminal \/ (outbox[e] = "acked" /\ inbox[e].state = "none")
EveryEventEnds == \A e \in Events : outbox[e] # "none" ~> Over(e)

(* A transient outage loses no event: the recovery table keeps it until    *)
(* the inbox has it.                                                       *)
(* The code does not keep this: see the known divergences in the README.    *)
OutboxKeepsUntilInbox ==
  \A e \in Events : outbox[e] = "acked" => inbox[e].state # "none"
=============================================================================
