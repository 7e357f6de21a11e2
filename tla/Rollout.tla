------------------------------ MODULE Rollout ------------------------------
(***************************************************************************)
(* The rollout of a changed tariff to a user who already has it.           *)
(*                                                                         *)
(* A user holds a tariff through sources: payments and one grant of the    *)
(* administrator.  A source is delivered to the panels of the tariff's     *)
(* items by an operation with a revision; a panel keeps the highest        *)
(* revision of a source and refuses a lower one.  Saving a tariff queues a *)
(* rollout, which the retry job runs under a lease of two minutes: it asks *)
(* the panels who holds the tariff (_collect_tariff_holders), finds the    *)
(* user's live sources in the records of the operations                    *)
(* (_backfill_sources), queues one child grant per source for the items    *)
(* that are missing, and runs the children (run_tariff_backfill).          *)
(*                                                                         *)
(* Meanwhile sources come and go: a payment is refunded, the grant is      *)
(* renewed, the whole tariff is taken from the user (revoke_tariff).       *)
(* Delivering one operation is the matter of Operations and Payment and is *)
(* a step per panel here; what the calls of a child may meet is kept.      *)
(***************************************************************************)
EXTENDS Naturals, FiniteSets

CONSTANTS
  Items,       \* items a tariff may have, each on a panel of its own
  Payments,    \* sources that are payments
  Grants,      \* sources that are grants of the administrator
  Workers,     \* processes that may run a rollout
  MaxRollouts, \* bound on the changes of the tariff
  MaxRevision, \* bound on the revisions of a grant
  Shrinks      \* whether a change may take an item from the tariff

Sources == Payments \cup Grants
Rollouts == 1 .. MaxRollouts

ASSUME RolloutAssumption ==
  /\ IsFiniteSet(Items) /\ Items # {}
  /\ IsFiniteSet(Sources) /\ Payments \cap Grants = {}
  /\ MaxRollouts \in Nat /\ MaxRevision \in Nat
  /\ Shrinks \in BOOLEAN
  /\ "none" \notin Workers

VARIABLES
  tariff,      \* the items of the tariff
  former,      \* what the tariff has been: a payment is for the terms at its checkout
  op,          \* the latest operation of a source, with its items while it is pending
  targets,     \* the items of every operation of a source
  removal,     \* the revocation of the whole tariff
  ent,         \* what a panel knows of a source
  rollout,
  child,       \* the child grants of a rollout, by source
  worker

vars == <<tariff, former, op, targets, removal, ent, rollout, child, worker>>

NoOp == [kind |-> "none", rev |-> 0, status |-> "none", items |-> {}, done |-> {}]
NoChild == [rev |-> 0, status |-> "none", items |-> {}, taken |-> {}]
NoEnt == [state |-> "none", rev |-> 0]
NoRemoval == [status |-> "none", items |-> {}, done |-> {}, covers |-> [s \in Sources |-> 0]]
NoRollout == [status |-> "none", items |-> {}, asked |-> {}, owner |-> "none",
              children |-> {}]
Idle == [pc |-> "idle", rollout |-> 0, missing |-> {}, rev |-> [s \in Sources |-> 0],
         todo |-> {}, complete |-> TRUE,
         source |-> "none", alone |-> FALSE, tries |-> {}, ok |-> TRUE]

Init ==
  /\ tariff \in (SUBSET Items) \ {{}}
  /\ former = {tariff}
  /\ op = [s \in Sources |-> NoOp]
  /\ targets = [s \in Sources |-> {}]
  /\ removal = NoRemoval
  /\ ent = [i \in Items |-> [s \in Sources |-> NoEnt]]
  /\ rollout = [k \in Rollouts |-> NoRollout]
  /\ child = [k \in Rollouts |-> [s \in Sources |-> NoChild]]
  /\ worker = [w \in Workers |-> Idle]

-----------------------------------------------------------------------------
(* The sources of the user.                                                *)

Operation(kind, rev, items) ==
  [kind |-> kind, rev |-> rev, status |-> "pending", items |-> items, done |-> {}]

Queue(s, o) ==
  /\ op' = [op EXCEPT ![s] = o]
  /\ targets' = [targets EXCEPT ![s] = @ \cup o.items]
  /\ UNCHANGED <<tariff, former, removal, ent, rollout, child, worker>>

(* A payment is delivered with the terms of its checkout.                  *)
Buy(s) ==
  /\ s \in Payments /\ op[s].kind = "none"
  /\ \E items \in former : Queue(s, Operation("grant", 0, items))

(* save_grant: a grant is given, or given anew with another revision.      *)
Give(s) ==
  /\ s \in Grants /\ op[s].rev < MaxRevision
  /\ Queue(s, Operation("grant", op[s].rev + 1, tariff))

(* revoke_source_operation, for every item the source ever had.            *)
Refund(s) ==
  /\ s \in Payments /\ op[s].kind = "grant" /\ op[s].status # "superseded"
  /\ Queue(s, Operation("revoke", op[s].rev + 1, targets[s]))

(* Mutant: a panel takes any revision.                                     *)
AcceptsAny(i, s, rev) == ent[i][s].rev >= 0 /\ rev >= 0

(* A panel refuses a revision of a source that is not above its own.       *)
Accepts(i, s, rev) == ent[i][s].state = "none" \/ ent[i][s].rev < rev

(* What a panel keeps of a revoked source: a client's row, or a row that   *)
(* only bars the source.                                                   *)
Barred(i, s, rev) ==
  [state |-> IF ent[i][s].state \in {"none", "barred"} THEN "barred" ELSE "revoked",
   rev |-> rev]

Concluded(o, status) == [o EXCEPT !.status = status, !.items = {}, !.done = {}]

Delivered(s, i) ==
  LET o == op[s] IN
  [op EXCEPT ![s] = IF o.done \cup {i} = o.items THEN Concluded(o, "succeeded")
                    ELSE [o EXCEPT !.done = @ \cup {i}]]

(* The operation of a source reaches a panel.                              *)
Deliver(s, i) ==
  /\ op[s].status = "pending" /\ i \in op[s].items \ op[s].done
  /\ \/ /\ op[s].kind = "grant" /\ Accepts(i, s, op[s].rev)
        /\ ent' = [ent EXCEPT ![i][s] = [state |-> "live", rev |-> op[s].rev]]
     \/ /\ op[s].kind = "revoke" /\ ent[i][s].rev <= op[s].rev
        /\ ent' = [ent EXCEPT ![i][s] = Barred(i, s, op[s].rev)]
  /\ op' = Delivered(s, i)
  /\ UNCHANGED <<tariff, former, targets, removal, rollout, child, worker>>

(* revoke_tariff: every grant of the tariff is superseded, the children of *)
(* rollouts among them; the revocation goes to all their panels and those  *)
(* of the tariff as it is now.                                             *)
Superseded(o) == IF o.status = "none" THEN o ELSE [o EXCEPT !.status = "superseded"]

RevokeTariff ==
  /\ removal.status = "none"
  /\ removal' = [status |-> "pending", done |-> {},
                 items |-> tariff \cup UNION {targets[s] : s \in Sources},
                 covers |-> [s \in Sources |-> CASE op[s].kind = "none" -> 0
                                                [] op[s].kind = "grant" -> op[s].rev + 1
                                                [] op[s].kind = "revoke" -> op[s].rev]]
  /\ op' = [s \in Sources |->
              IF op[s].kind = "revoke" THEN op[s]
              ELSE [Concluded(op[s], IF op[s].status = "none" THEN "none" ELSE "superseded")
                      EXCEPT !.rev = IF s \in Grants THEN @ + 1 ELSE @]]
  /\ child' = [k \in Rollouts |-> [s \in Sources |-> Superseded(child[k][s])]]
  /\ UNCHANGED <<tariff, former, targets, ent, rollout, worker>>

RemoveAt(i) ==
  /\ removal.status = "pending" /\ i \in removal.items \ removal.done
  /\ ent' = [ent EXCEPT ![i] = [s \in Sources |->
               IF removal.covers[s] > 0 /\ removal.covers[s] >= ent[i][s].rev
                 THEN Barred(i, s, removal.covers[s]) ELSE ent[i][s]]]
  /\ removal' = [removal EXCEPT !.done = @ \cup {i},
                   !.status = IF removal.done \cup {i} = removal.items THEN "succeeded" ELSE @]
  /\ UNCHANGED <<tariff, former, op, targets, rollout, child, worker>>

-----------------------------------------------------------------------------
(* The rollout.                                                            *)

(* update_tariff queues the rollout in the transaction that changes the    *)
(* tariff; the panels the tariff had are asked for holders too.            *)
UpdateTariff(items) ==
  /\ items # {} /\ items # tariff
  /\ Shrinks \/ tariff \subseteq items
  /\ \E k \in Rollouts :
       /\ \A j \in Rollouts : rollout[j].status = "none" <=> j >= k
       /\ rollout' = [rollout EXCEPT ![k] = [NoRollout EXCEPT !.status = "pending",
                        !.items = items, !.asked = items \cup tariff]]
  /\ tariff' = items
  /\ former' = former \cup {items}
  /\ UNCHANGED <<op, targets, removal, ent, child, worker>>

Holds(w) == rollout[worker[w].rollout].owner = w

(* The retry job has a pending rollout before it.                          *)
Take(w, k) ==
  /\ worker[w].pc = "idle" /\ rollout[k].status = "pending"
  /\ worker' = [worker EXCEPT ![w] = [Idle EXCEPT !.pc = "claim", !.rollout = k]]
  /\ UNCHANGED <<tariff, former, op, targets, removal, ent, rollout, child>>

(* The claim looks at the lease and no more at the status.                 *)
Claim(w) ==
  /\ worker[w].pc = "claim"
  /\ LET k == worker[w].rollout IN
     IF rollout[k].owner = "none"
       THEN /\ rollout' = [rollout EXCEPT ![k].owner = w]
            /\ worker' = [worker EXCEPT ![w].pc = "collect"]
       ELSE /\ worker' = [worker EXCEPT ![w] = Idle]
            /\ UNCHANGED rollout
  /\ UNCHANGED <<tariff, former, op, targets, removal, ent, child>>

(* Two minutes pass without a renewal: the owner owns no more.             *)
LeaseExpires(k) ==
  /\ rollout[k].owner # "none"
  /\ rollout' = [rollout EXCEPT ![k].owner = "none"]
  /\ UNCHANGED <<tariff, former, op, targets, removal, ent, child, worker>>

Crash(w) ==
  /\ worker[w].pc # "idle"
  /\ worker' = [worker EXCEPT ![w] = Idle]
  /\ UNCHANGED <<tariff, former, op, targets, removal, ent, rollout, child>>

(* An exception: the rollout stays pending and is released, unless another *)
(* worker has it by now, or the child was run on its own.                  *)
Fail(w) ==
  LET k == worker[w].rollout IN
  /\ rollout' = IF rollout[k].owner = w /\ ~worker[w].alone
                  THEN [rollout EXCEPT ![k].status = "pending", ![k].owner = "none"]
                  ELSE rollout
  /\ worker' = [worker EXCEPT ![w] = Idle]

(* _collect_tariff_holders: a panel that does not answer is left for the   *)
(* next time; an item at which the user has any source of the tariff, be   *)
(* it revoked, is not missing.                                             *)
Listed(i) == {s \in Sources : ent[i][s].state \in {"live", "revoked"}}

Has(i) == Listed(i) # {}

Holder(panels) == \E i \in panels, s \in Sources : ent[i][s].state = "live"

Running(k, children, complete) ==
  [Idle EXCEPT !.pc = "run", !.rollout = k, !.todo = children, !.complete = complete]

Collect(w) ==
  /\ worker[w].pc = "collect"
  /\ LET k == worker[w].rollout IN
     \E away \in SUBSET rollout[k].asked :
       LET missing == {i \in rollout[k].items \ away : ~Has(i)} IN
       IF Holder(rollout[k].asked \ away) /\ missing # {}
         THEN worker' = [worker EXCEPT ![w].pc = "find", ![w].complete = away = {},
                                       ![w].missing = missing]
         ELSE worker' = [worker EXCEPT ![w] = Running(k, rollout[k].children, away = {})]
  /\ UNCHANGED <<tariff, former, op, targets, removal, ent, rollout, child>>

(* _backfill_sources: the sources whose latest operation is a grant that   *)
(* was delivered, each with its revision.                                  *)
LiveSources == {s \in Sources : op[s].kind = "grant" /\ op[s].status = "succeeded"}

Find(w) ==
  /\ worker[w].pc = "find"
  /\ IF LiveSources = {} THEN Fail(w)
     ELSE /\ worker' = [worker EXCEPT ![w].pc = "queue", ![w].todo = LiveSources,
                          ![w].rev = [s \in Sources |-> IF s \in LiveSources THEN op[s].rev ELSE 0]]
          /\ UNCHANGED rollout
  /\ UNCHANGED <<tariff, former, op, targets, removal, ent, child>>

(* The child of a source is queued, unless an earlier run did; then the    *)
(* lease is renewed and the child noted.                                   *)
QueueChild(w, s) ==
  /\ worker[w].pc = "queue" /\ s \in worker[w].todo
  /\ LET k == worker[w].rollout IN
     /\ IF child[k][s].status = "none"
          THEN /\ child' = [child EXCEPT ![k][s] =
                             [rev |-> worker[w].rev[s], status |-> "pending",
                              items |-> worker[w].missing, taken |-> {}]]
               /\ targets' = [targets EXCEPT ![s] = @ \cup worker[w].missing]
          ELSE UNCHANGED <<child, targets>>
     /\ IF Holds(w)
          THEN /\ rollout' = [rollout EXCEPT ![k].children = @ \cup {s}]
               /\ worker' = [worker EXCEPT ![w] =
                    IF worker[w].todo = {s}
                      THEN Running(k, rollout[k].children \cup {s}, worker[w].complete)
                      ELSE [worker[w] EXCEPT !.todo = @ \ {s}]]
          ELSE Fail(w)
  /\ UNCHANGED <<tariff, former, op, removal, ent>>

(* The lease is renewed; a child that is done is done; the others run.     *)
RunChild(w, s) ==
  /\ worker[w].pc = "run" /\ s \in worker[w].todo
  /\ LET k == worker[w].rollout IN
     IF ~Holds(w) THEN Fail(w)
     ELSE /\ worker' = IF child[k][s].status \in {"succeeded", "superseded"}
                         THEN [worker EXCEPT ![w].todo = @ \ {s}]
                         ELSE [worker EXCEPT ![w].pc = "fence", ![w].source = s,
                                             ![w].tries = child[k][s].items]
          /\ UNCHANGED rollout
  /\ UNCHANGED <<tariff, former, op, targets, removal, ent, child>>

(* The retry job also runs a child as an operation of its own.             *)
RetryChild(w, k, s) ==
  /\ worker[w].pc = "idle" /\ child[k][s].status = "pending"
  /\ worker' = [worker EXCEPT ![w] = [Idle EXCEPT !.pc = "fence", !.rollout = k, !.source = s,
                                       !.alone = TRUE, !.tries = child[k][s].items]]
  /\ UNCHANGED <<tariff, former, op, targets, removal, ent, rollout, child>>

(* _guard: a newer operation of the source supersedes the child; a         *)
(* revocation of the tariff has raised the revision of a grant without one. *)
QueuedRevision(s) ==
  IF s \in Grants /\ op[s].status = "superseded" THEN op[s].rev - 1 ELSE op[s].rev

Obsolete(k, s) == child[k][s].status = "superseded" \/ QueuedRevision(s) > child[k][s].rev

(* run_operation returns.                                                  *)
Return(w, done) ==
  LET c == worker[w] IN
  worker' = [worker EXCEPT ![w] =
               IF c.alone THEN Idle
               ELSE Running(c.rollout, c.todo \ {c.source}, c.complete /\ done)]

(* The fence before a call and before the end.  A child that is obsolete   *)
(* at its end raises, and is superseded when it is run again.              *)
Fence(w) ==
  /\ worker[w].pc = "fence"
  /\ LET k == worker[w].rollout
         s == worker[w].source
         left == worker[w].tries IN
     \/ /\ left # {} /\ Obsolete(k, s)
        /\ child' = [child EXCEPT ![k][s].status = "superseded"]
        /\ Return(w, TRUE)
        /\ UNCHANGED rollout
     \/ /\ left # {} /\ ~Obsolete(k, s)
        /\ worker' = [worker EXCEPT ![w].pc = "call"]
        /\ UNCHANGED <<child, rollout>>
     \/ /\ left = {} /\ ~worker[w].ok
        /\ Return(w, FALSE)
        /\ UNCHANGED <<child, rollout>>
     \/ /\ left = {} /\ worker[w].ok /\ Obsolete(k, s)
        /\ Fail(w)
        /\ UNCHANGED child
     \/ /\ left = {} /\ worker[w].ok /\ ~Obsolete(k, s)
        /\ child' = [child EXCEPT ![k][s].status = "succeeded"]
        /\ Return(w, TRUE)
        /\ UNCHANGED rollout
  /\ UNCHANGED <<tariff, former, op, targets, removal, ent>>

(* proxy_provision: the panel takes the child, answers a repeated call as  *)
(* before while the source is as the child made it, or refuses; the answer *)
(* may be lost.                                                            *)
Given(k, s) == [state |-> "live", rev |-> child[k][s].rev]

Tried(w, i, answered) ==
  worker' = [worker EXCEPT ![w].pc = "fence", ![w].tries = @ \ {i}, ![w].ok = @ /\ answered]

Call(w, i) ==
  /\ worker[w].pc = "call" /\ i \in worker[w].tries
  /\ LET k == worker[w].rollout
         s == worker[w].source
         new == i \notin child[k][s].taken /\ Accepts(i, s, child[k][s].rev)
         again == i \in child[k][s].taken /\ ent[i][s] = Given(k, s) IN
     \/ /\ new
        /\ ent' = [ent EXCEPT ![i][s] = Given(k, s)]
        /\ child' = [child EXCEPT ![k][s].taken = @ \cup {i}]
        /\ \E answered \in BOOLEAN : Tried(w, i, answered)
     \/ /\ again /\ Tried(w, i, TRUE)
        /\ UNCHANGED <<ent, child>>
     \/ /\ Tried(w, i, FALSE)
        /\ UNCHANGED <<ent, child>>
  /\ UNCHANGED <<tariff, former, op, targets, removal, rollout>>

(* Mutant: the failures of the children are not counted.                   *)
CompleteAnyway(w) == worker[w].tries = {}

(* The rollout is done if every panel answered and no child failed.        *)
Complete(w) == worker[w].complete

Finish(w) ==
  /\ worker[w].pc = "run" /\ worker[w].todo = {}
  /\ IF ~Holds(w) THEN Fail(w)
     ELSE /\ rollout' = [rollout EXCEPT ![worker[w].rollout].status =
                                          IF Complete(w) THEN "succeeded" ELSE "pending",
                                        ![worker[w].rollout].owner = "none"]
          /\ worker' = [worker EXCEPT ![w] = Idle]
  /\ UNCHANGED <<tariff, former, op, targets, removal, ent, child>>

-----------------------------------------------------------------------------

Next ==
  \/ \E s \in Sources :
       \/ Buy(s) \/ Give(s) \/ Refund(s)
       \/ \E i \in Items : Deliver(s, i)
  \/ RevokeTariff
  \/ \E i \in Items : RemoveAt(i)
  \/ \E items \in SUBSET Items : UpdateTariff(items)
  \/ \E k \in Rollouts : LeaseExpires(k)
  \/ \E w \in Workers :
       \/ \E k \in Rollouts : Take(w, k)
       \/ Claim(w) \/ Collect(w) \/ Find(w) \/ Fence(w) \/ Finish(w) \/ Crash(w)
       \/ \E s \in Sources :
            \/ QueueChild(w, s) \/ RunChild(w, s)
            \/ \E k \in Rollouts : RetryChild(w, k, s)
       \/ \E i \in Items : Call(w, i)

Spec == Init /\ [][Next]_vars

-----------------------------------------------------------------------------
(* Properties.                                                             *)

Revisions == 0 .. MaxRevision + 1

(* The variables have their types.                                         *)
TypeOK ==
  /\ tariff \subseteq Items /\ former \subseteq SUBSET Items
  /\ targets \in [Sources -> SUBSET Items]
  /\ \A s \in Sources : op[s].rev \in Revisions /\ op[s].done \subseteq op[s].items
  /\ ent \in [Items -> [Sources -> [state : {"none", "live", "revoked", "barred"}, rev : Revisions]]]
  /\ \A k \in Rollouts : rollout[k].owner \in Workers \cup {"none"}
  /\ \A k \in Rollouts, s \in Sources :
       child[k][s].items \subseteq rollout[k].items /\ child[k][s].taken \subseteq child[k][s].items

(* A panel as its contract with the master describes it; nobody is blocked *)
(* here.                                                                   *)
HeldAt(e) ==
  [state |-> CASE e.state = "none" -> "none" [] e.state = "live" -> "given" [] OTHER -> "withdrawn",
   rev |-> e.rev]
Panel(i) ==
  INSTANCE NodeContract WITH
    Decisions <- {0}, held <- [s \in Sources |-> HeldAt(ent[i][s])],
    account <- [rev |-> 0, blocked |-> FALSE]

(* What deliveries, rollouts, refunds and revocations take a panel to do   *)
(* is what its contract lets it do (entitlements.py), panel by panel.      *)
PanelsKeepContract ==
  /\ \A i \in Items : Panel(i)!Init
  /\ [][\A i \in Items : ent'[i] = ent[i] \/ Panel(i)!Next \/ UNCHANGED Panel(i)!cvars]_ent

(* The last step of a revocation has been taken: what it covers is gone    *)
(* from every panel, and no call of a rollout that was computed before     *)
(* brings it back (the targets of source_targets and the revisions).       *)
NoRevivedSource ==
  /\ \A s \in Sources : op[s].kind = "revoke" /\ op[s].status = "succeeded"
       => \A i \in Items : ent[i][s].state # "live"
  /\ removal.status = "succeeded"
       => \A s \in Sources, i \in Items :
            ent[i][s].state = "live" => ent[i][s].rev > removal.covers[s] \/ removal.covers[s] = 0

(* A rollout that is marked as done reached every panel it asked, and the  *)
(* sources it found have the items that were missing, or something newer.  *)
DoneIsDone ==
  [][\A k \in Rollouts :
       rollout[k].status # "succeeded" /\ rollout'[k].status = "succeeded"
         => \A s \in rollout[k].children, i \in Items :
              i \in child[k][s].items =>
                \/ ent[i][s].state # "none" /\ ent[i][s].rev >= child[k][s].rev
                \/ child[k][s].status = "superseded"]_vars

=============================================================================
