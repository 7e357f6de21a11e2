--------------------------- MODULE RolloutProofs ----------------------------
(***************************************************************************)
(* What is proved of Rollout, for any items, sources, workers and bounds.  *)
(*                                                                         *)
(* That a rollout which is marked as done was done rests on three facts.   *)
(* A panel never goes back to a lower revision of a source and never       *)
(* forgets one, so what landed stays (Landed).  A worker that has not met  *)
(* a failure has landed every item it no longer tries (Trying), so a child *)
(* that succeeded has all its items (Settled).  And the owner of a rollout *)
(* who has counted no failure has only those children left to run that it  *)
(* still holds in its list (Counted): nobody else adds one meanwhile, as   *)
(* only the owner does.                                                    *)
(*                                                                         *)
(* That nothing which was taken from the user comes back rests on where a  *)
(* source may show: only among its targets (Aimed), which a refund goes to *)
(* all of, and of its first revision, which a refund is above (Cut).  A    *)
(* revocation of the tariff is above what was granted before it (Fresh)    *)
(* and goes to whatever still shows (Left), children under way included    *)
(* (Within): the last needs that the tariff loses no item.                 *)
(***************************************************************************)
EXTENDS Rollout, TLAPS

OpType == [kind : {"none", "grant", "revoke"}, rev : Revisions,
           status : {"none", "pending", "succeeded", "superseded"},
           items : SUBSET Items, done : SUBSET Items]
ChildType == [rev : Revisions, status : {"none", "pending", "succeeded", "superseded"},
              items : SUBSET Items, taken : SUBSET Items]
EntType == [state : {"none", "live", "revoked", "barred"}, rev : Revisions]
RemovalType == [status : {"none", "pending", "succeeded"}, items : SUBSET Items,
                done : SUBSET Items, covers : [Sources -> Revisions]]
RolloutType == [status : {"none", "pending", "succeeded"}, items : SUBSET Items,
                asked : SUBSET Items, owner : Workers \cup {"none"}, children : SUBSET Sources]
WorkerType == [pc : {"idle", "claim", "collect", "find", "queue", "run", "fence", "call"},
               rollout : Rollouts \cup {0}, missing : SUBSET Items,
               rev : [Sources -> Revisions], todo : SUBSET Sources, complete : BOOLEAN,
               source : Sources \cup {"none"}, alone : BOOLEAN, tries : SUBSET Items, ok : BOOLEAN]

(* Revisions stay within their bound: a payment has two, and the tariff is *)
(* taken from the user once.                                               *)
Bounded ==
  \A s \in Sources :
    /\ s \in Payments => /\ op[s].kind \in {"none", "grant"} => op[s].rev = 0
                         /\ op[s].rev <= 1
    /\ s \in Grants => /\ op[s].kind # "revoke"
                       /\ removal.status = "none" => op[s].rev <= MaxRevision

(* Of the rollouts r and the children h: a child is of a rollout there is. *)
ChildrenOf(r, h) ==
  \A k \in Rollouts, s \in Sources :
    /\ h[k][s].items \subseteq r[k].items
    /\ h[k][s].taken \subseteq h[k][s].items
    /\ h[k][s].status = "none" => h[k][s].items = {} /\ s \notin r[k].children
    /\ h[k][s].status # "none" => r[k].status # "none"

(* What a worker works on exists.                                          *)
Staged(c, r, h) ==
  /\ c.pc # "idle" => c.rollout \in Rollouts /\ r[c.rollout].status # "none"
  /\ c.pc \in {"find", "queue"} => c.missing \subseteq r[c.rollout].items
  /\ c.pc \in {"run", "fence", "call"} =>
       \A s \in c.todo : h[c.rollout][s].status # "none"
  /\ c.pc \in {"fence", "call"} =>
       /\ c.source \in Sources
       /\ h[c.rollout][c.source].status # "none"
       /\ c.tries \subseteq h[c.rollout][c.source].items

(* No step takes a rollout or a child away, or changes its items.          *)
Grown(r, h, rr, hh) ==
  \A k \in Rollouts :
    /\ r[k].status # "none" => rr[k].status # "none" /\ rr[k].items = r[k].items
    /\ \A s \in Sources : h[k][s].status # "none" =>
         hh[k][s].status # "none" /\ hh[k][s].items = h[k][s].items

Tables ==
  /\ tariff \subseteq Items /\ former \subseteq SUBSET Items
  /\ targets \in [Sources -> SUBSET Items]
  /\ op \in [Sources -> OpType]
  /\ \A s \in Sources : op[s].done \subseteq op[s].items
  /\ removal \in RemovalType
  /\ ent \in [Items -> [Sources -> EntType]]
  /\ child \in [Rollouts -> [Sources -> ChildType]]
  /\ rollout \in [Rollouts -> RolloutType]

TypeInv ==
  /\ Tables
  /\ Bounded
  /\ ChildrenOf(rollout, child)
  /\ worker \in [Workers -> WorkerType]
  /\ \A w \in Workers : Staged(worker[w], rollout, child)

-----------------------------------------------------------------------------
(* Records.                                                                *)

LEMMA Bounds ==
  /\ MaxRevision \in Nat /\ MaxRollouts \in Nat
  /\ Revisions = 0 .. MaxRevision + 1
  /\ 0 \in Revisions /\ 1 \in Revisions
  /\ 0 \notin Rollouts
  /\ \A n \in Revisions : n \in Nat
  /\ \A s \in Sources : s \in Payments \/ s \in Grants
  /\ \A s \in Payments : s \notin Grants
  BY RolloutAssumption DEF Revisions, Rollouts, Sources

LEMMA Blanks ==
  /\ NoOp \in OpType /\ NoChild \in ChildType /\ NoEnt \in EntType
  /\ NoRemoval \in RemovalType /\ NoRollout \in RolloutType
  /\ Idle \in WorkerType /\ Idle.pc = "idle"
<1>1. [s \in Sources |-> 0] \in [Sources -> Revisions]
  BY Bounds
<1>. QED
  BY <1>1, Bounds DEF NoOp, OpType, NoChild, ChildType, NoEnt, EntType, NoRemoval, RemovalType,
                      NoRollout, RolloutType, Idle, WorkerType

LEMMA OpForms ==
  ASSUME NEW o \in OpType, NEW items \in SUBSET Items
  PROVE  /\ \A kind \in {"grant", "revoke"}, n \in Revisions : Operation(kind, n, items) \in OpType
         /\ \A st \in {"none", "pending", "succeeded", "superseded"} :
              /\ Concluded(o, st) \in OpType
              /\ \A n \in Revisions : [Concluded(o, st) EXCEPT !.rev = n] \in OpType
         /\ [o EXCEPT !.done = items] \in OpType
  BY DEF OpType, Operation, Concluded

LEMMA EntForms ==
  ASSUME NEW n \in Revisions, NEW i, NEW s
  PROVE  /\ Barred(i, s, n) \in EntType
         /\ [state |-> "live", rev |-> n] \in EntType
  BY DEF Barred, EntType

LEMMA RolloutForms ==
  ASSUME NEW o \in RolloutType
  PROVE  /\ \A q \in Workers \cup {"none"} : [o EXCEPT !.owner = q] \in RolloutType
         /\ \A st \in {"pending", "succeeded"} :
              [o EXCEPT !.status = st, !.owner = "none"] \in RolloutType
         /\ \A c \in SUBSET Sources : [o EXCEPT !.children = c] \in RolloutType
         /\ \A items, asked \in SUBSET Items :
              [NoRollout EXCEPT !.status = "pending", !.items = items, !.asked = asked] \in RolloutType
  BY DEF RolloutType, NoRollout

LEMMA ChildForms ==
  ASSUME NEW o \in ChildType
  PROVE  /\ \A st \in {"succeeded", "superseded"} : [o EXCEPT !.status = st] \in ChildType
         /\ \A t \in SUBSET Items : [o EXCEPT !.taken = t] \in ChildType
         /\ Superseded(o) \in ChildType
         /\ \A n \in Revisions, m \in SUBSET Items :
              [rev |-> n, status |-> "pending", items |-> m, taken |-> {}] \in ChildType
  BY DEF ChildType, Superseded

(* Each way a worker goes on.                                              *)
LEMMA WorkerForms ==
  ASSUME NEW c \in WorkerType, NEW k \in Rollouts, NEW todo \in SUBSET Sources, NEW b \in BOOLEAN,
         NEW m \in SUBSET Items
  PROVE  /\ [Idle EXCEPT !.pc = "claim", !.rollout = k] \in WorkerType
         /\ [c EXCEPT !.pc = "collect"] \in WorkerType
         /\ [c EXCEPT !.pc = "find", !.complete = b, !.missing = m] \in WorkerType
         /\ \A f \in [Sources -> Revisions] :
              [c EXCEPT !.pc = "queue", !.todo = todo, !.rev = f] \in WorkerType
         /\ Running(k, todo, b) \in WorkerType
         /\ [c EXCEPT !.todo = todo] \in WorkerType
         /\ \A s \in Sources : [c EXCEPT !.pc = "fence", !.source = s, !.tries = m] \in WorkerType
         /\ \A s \in Sources :
              [Idle EXCEPT !.pc = "fence", !.rollout = k, !.source = s, !.alone = TRUE, !.tries = m]
                \in WorkerType
         /\ [c EXCEPT !.pc = "call"] \in WorkerType
         /\ [c EXCEPT !.pc = "fence", !.tries = m, !.ok = b] \in WorkerType
<1>1. Idle \in WorkerType
  BY Blanks
<1>2. /\ [c EXCEPT !.pc = "collect"] \in WorkerType
      /\ [c EXCEPT !.pc = "call"] \in WorkerType
      /\ [c EXCEPT !.todo = todo] \in WorkerType
  BY DEF WorkerType
<1>3. /\ [c EXCEPT !.pc = "find", !.complete = b, !.missing = m] \in WorkerType
      /\ [c EXCEPT !.pc = "fence", !.tries = m, !.ok = b] \in WorkerType
  BY DEF WorkerType
<1>4. /\ \A f \in [Sources -> Revisions] :
           [c EXCEPT !.pc = "queue", !.todo = todo, !.rev = f] \in WorkerType
      /\ \A s \in Sources : [c EXCEPT !.pc = "fence", !.source = s, !.tries = m] \in WorkerType
  BY DEF WorkerType
<1>5. /\ [Idle EXCEPT !.pc = "claim", !.rollout = k] \in WorkerType
      /\ [Idle EXCEPT !.pc = "run", !.rollout = k, !.todo = todo, !.complete = b] \in WorkerType
  BY <1>1 DEF WorkerType
<1>6. \A s \in Sources :
        [Idle EXCEPT !.pc = "fence", !.rollout = k, !.source = s, !.alone = TRUE, !.tries = m] \in WorkerType
  BY <1>1 DEF WorkerType
<1>. QED
  BY <1>2, <1>3, <1>4, <1>5, <1>6 DEF Running

LEMMA Fields ==
  /\ Idle.pc = "idle"
  /\ \A k, todo, b :
       /\ Running(k, todo, b).pc = "run" /\ Running(k, todo, b).rollout = k
       /\ Running(k, todo, b).todo = todo /\ Running(k, todo, b).complete = b
       /\ ~Running(k, todo, b).alone
  /\ \A k, s, m : LET c == [Idle EXCEPT !.pc = "fence", !.rollout = k, !.source = s, !.alone = TRUE,
                                      !.tries = m]
                  IN /\ c.pc = "fence" /\ c.rollout = k /\ c.source = s /\ c.alone
                     /\ c.tries = m /\ c.ok /\ c.todo = {}
  BY DEF Idle, Running

(* Fields a step of a worker sets, and those it keeps.                     *)
LEMMA Kept ==
  ASSUME NEW c \in WorkerType, NEW todo, NEW b, NEW m, NEW f, NEW s
  PROVE  /\ [c EXCEPT !.pc = "collect"].pc = "collect"
         /\ [c EXCEPT !.pc = "collect"].rollout = c.rollout
         /\ LET d == [c EXCEPT !.pc = "find", !.complete = b, !.missing = m]
            IN d.pc = "find" /\ d.rollout = c.rollout /\ d.missing = m
         /\ LET d == [c EXCEPT !.pc = "queue", !.todo = todo, !.rev = f]
            IN d.pc = "queue" /\ d.rollout = c.rollout /\ d.missing = c.missing
         /\ LET d == [c EXCEPT !.todo = todo]
            IN /\ d.pc = c.pc /\ d.rollout = c.rollout /\ d.missing = c.missing /\ d.todo = todo
               /\ d.source = c.source /\ d.tries = c.tries /\ d.alone = c.alone
               /\ d.ok = c.ok /\ d.complete = c.complete
         /\ LET d == [c EXCEPT !.pc = "fence", !.source = s, !.tries = m]
            IN /\ d.pc = "fence" /\ d.rollout = c.rollout /\ d.todo = c.todo /\ d.source = s
               /\ d.tries = m /\ d.alone = c.alone /\ d.ok = c.ok /\ d.complete = c.complete
         /\ LET d == [c EXCEPT !.pc = "call"]
            IN /\ d.pc = "call" /\ d.rollout = c.rollout /\ d.todo = c.todo /\ d.source = c.source
               /\ d.tries = c.tries /\ d.alone = c.alone /\ d.ok = c.ok /\ d.complete = c.complete
         /\ LET d == [c EXCEPT !.pc = "fence", !.tries = m, !.ok = b]
            IN /\ d.pc = "fence" /\ d.rollout = c.rollout /\ d.todo = c.todo /\ d.source = c.source
               /\ d.tries = m /\ d.alone = c.alone /\ d.ok = b /\ d.complete = c.complete
  BY DEF WorkerType

-----------------------------------------------------------------------------
(* Steps.                                                                  *)

LEMMA StageKept ==
  ASSUME NEW c, NEW r, NEW h, NEW rr, NEW hh, Staged(c, r, h), Grown(r, h, rr, hh),
         c.todo \subseteq Sources
  PROVE  Staged(c, rr, hh)
  BY DEF Staged, Grown

LEMMA Unchanged ==
  ASSUME NEW r, NEW h
  PROVE  Grown(r, h, r, h)
  BY DEF Grown

LEMMA QuietStep ==
  ASSUME TypeInv, UNCHANGED worker, Tables', Bounded', ChildrenOf(rollout', child'),
         Grown(rollout, child, rollout', child')
  PROVE  TypeInv'
<1>1. ASSUME NEW w \in Workers PROVE Staged(worker[w], rollout', child')
  <2>1. Staged(worker[w], rollout, child) /\ worker[w].todo \subseteq Sources
    BY DEF TypeInv, WorkerType
  <2>. QED
    BY <2>1, StageKept
<1>. QED
  BY <1>1 DEF TypeInv

LEMMA WorkerStep ==
  ASSUME TypeInv, NEW w \in Workers, NEW c \in WorkerType,
         worker' = [worker EXCEPT ![w] = c], Tables', Bounded', ChildrenOf(rollout', child'),
         Grown(rollout, child, rollout', child'), Staged(c, rollout', child')
  PROVE  TypeInv'
<1>1. ASSUME NEW v \in Workers PROVE Staged(worker'[v], rollout', child')
  <2>1. CASE v = w
    BY <2>1 DEF TypeInv
  <2>2. CASE v # w
    <3>1. Staged(worker[v], rollout, child) /\ worker[v].todo \subseteq Sources
      BY DEF TypeInv, WorkerType
    <3>2. worker'[v] = worker[v]
      BY <2>2 DEF TypeInv
    <3>. QED
      BY <3>1, <3>2, StageKept
  <2>. QED
    BY <2>1, <2>2
<1>. QED
  BY <1>1 DEF TypeInv

(* A step of a worker that only reads the tables.                          *)
LEMMA ReadStep ==
  ASSUME TypeInv, NEW w \in Workers, NEW c \in WorkerType,
         worker' = [worker EXCEPT ![w] = c], Staged(c, rollout, child),
         UNCHANGED <<tariff, former, op, targets, removal, ent, rollout, child>>
  PROVE  TypeInv'
<1>1. Tables' /\ Bounded' /\ ChildrenOf(rollout', child')
  BY DEF TypeInv, Tables, Bounded
<1>2. Grown(rollout, child, rollout', child')
  BY Unchanged
<1>. QED
  BY <1>1, <1>2, WorkerStep

LEMMA IdleStaged ==
  ASSUME NEW r, NEW h
  PROVE  Staged(Idle, r, h)
  BY Blanks DEF Staged

(* A rollout whose lease, status or list of children changes.              *)
LEMMA RolloutPut ==
  ASSUME TypeInv, NEW k \in Rollouts, NEW o \in RolloutType,
         rollout' = [rollout EXCEPT ![k] = o], UNCHANGED child,
         o.items = rollout[k].items,
         rollout[k].status # "none" => o.status # "none",
         \A s \in o.children : s \in rollout[k].children \/ child[k][s].status # "none"
  PROVE  /\ rollout' \in [Rollouts -> RolloutType]
         /\ ChildrenOf(rollout', child')
         /\ Grown(rollout, child, rollout', child')
<1>1. /\ rollout'[k] = o
      /\ \A j \in Rollouts \ {k} : rollout'[j] = rollout[j]
      /\ rollout' \in [Rollouts -> RolloutType]
  BY DEF TypeInv, Tables
<1>2. ChildrenOf(rollout', child)
  BY <1>1 DEF TypeInv, ChildrenOf
<1>3. Grown(rollout, child, rollout', child)
  BY <1>1 DEF Grown
<1>. QED
  BY <1>1, <1>2, <1>3

(* A child that is queued, taken by a panel or concluded.                  *)
LEMMA ChildPut ==
  ASSUME TypeInv, NEW k \in Rollouts, NEW s \in Sources, NEW o \in ChildType,
         child' = [child EXCEPT ![k][s] = o], UNCHANGED rollout,
         o.status # "none", rollout[k].status # "none",
         o.items \subseteq rollout[k].items, o.taken \subseteq o.items,
         child[k][s].status # "none" => o.items = child[k][s].items
  PROVE  /\ child' \in [Rollouts -> [Sources -> ChildType]]
         /\ child'[k][s] = o
         /\ ChildrenOf(rollout', child')
         /\ Grown(rollout, child, rollout', child')
<1>1. /\ child'[k][s] = o
      /\ \A j \in Rollouts, q \in Sources : j # k \/ q # s => child'[j][q] = child[j][q]
      /\ child' \in [Rollouts -> [Sources -> ChildType]]
  BY DEF TypeInv, Tables
<1>2. ChildrenOf(rollout, child')
  BY <1>1 DEF TypeInv, ChildrenOf
<1>3. Grown(rollout, child, rollout, child')
  BY <1>1 DEF Grown
<1>. QED
  BY <1>1, <1>2, <1>3

-----------------------------------------------------------------------------
(* Types: the sources.                                                     *)

LEMMA QueueType ==
  ASSUME TypeInv, NEW s \in Sources, NEW o \in OpType, Queue(s, o), o.done = {},
         s \in Payments => (o.kind \in {"none", "grant"} => o.rev = 0),
         s \in Payments => o.rev <= 1,
         s \in Grants => o.kind # "revoke" /\ o.rev <= MaxRevision
  PROVE  TypeInv'
<1>1. /\ op'[s] = o /\ \A q \in Sources \ {s} : op'[q] = op[q]
      /\ op' \in [Sources -> OpType]
  BY DEF TypeInv, Tables, Queue
<1>2. targets' \in [Sources -> SUBSET Items]
  <2>1. o.items \in SUBSET Items
    BY DEF OpType
  <2>. QED
    BY <2>1 DEF TypeInv, Tables, Queue
<1>3. Tables'
  BY <1>1, <1>2 DEF TypeInv, Tables, Queue
<1>4. Bounded'
  BY <1>1 DEF TypeInv, Bounded, Queue
<1>. QED
  BY <1>3, <1>4, QuietStep, Unchanged DEF Queue, TypeInv

LEMMA EntPut ==
  ASSUME TypeInv, NEW i \in Items, NEW s \in Sources, NEW e \in EntType,
         ent' = [ent EXCEPT ![i][s] = e]
  PROVE  /\ ent' \in [Items -> [Sources -> EntType]]
         /\ ent'[i][s] = e
         /\ \A j \in Items, q \in Sources : j # i \/ q # s => ent'[j][q] = ent[j][q]
  BY DEF TypeInv, Tables

LEMMA SourceType ==
  ASSUME TypeInv, NEW s \in Sources, Buy(s) \/ Give(s) \/ Refund(s)
  PROVE  TypeInv'
<1>0. op[s] \in OpType /\ NoOp \in OpType /\ targets[s] \in SUBSET Items /\ tariff \in SUBSET Items
  BY Blanks DEF TypeInv, Tables
<1>1. CASE Buy(s)
  <2>1. PICK items \in former : Queue(s, Operation("grant", 0, items))
    BY <1>1 DEF Buy
  <2>2. Operation("grant", 0, items) \in OpType
    <3>1. items \in SUBSET Items
      BY DEF TypeInv, Tables
    <3>. QED
      BY <1>0, <3>1, OpForms, Bounds
  <2>3. s \in Payments /\ s \notin Grants
    BY <1>1, Bounds DEF Buy
  <2>. QED
    BY <2>1, <2>2, <2>3, QueueType DEF Operation
<1>2. CASE Give(s)
  <2>1. op[s].rev + 1 \in Revisions /\ op[s].rev + 1 <= MaxRevision
    <3>1. op[s].rev \in Revisions /\ op[s].rev < MaxRevision
      BY <1>0, <1>2 DEF Give, OpType
    <3>. QED
      BY <3>1, Bounds
  <2>2. Operation("grant", op[s].rev + 1, tariff) \in OpType
    BY <1>0, <2>1, OpForms
  <2>3. s \in Grants /\ s \notin Payments
    BY <1>2, Bounds DEF Give
  <2>. QED
    BY <1>2, <2>1, <2>2, <2>3, QueueType DEF Give, Operation
<1>3. CASE Refund(s)
  <2>1. s \in Payments /\ s \notin Grants /\ op[s].rev = 0
    BY <1>3, Bounds DEF Refund, TypeInv, Bounded
  <2>2. op[s].rev + 1 = 1 /\ 1 \in Revisions
    BY <2>1, Bounds
  <2>3. Operation("revoke", 1, targets[s]) \in OpType
    BY <1>0, <2>2, OpForms
  <2>. QED
    BY <1>3, <2>1, <2>2, <2>3, QueueType DEF Refund, Operation
<1>. QED
  BY <1>1, <1>2, <1>3

LEMMA DeliverType ==
  ASSUME TypeInv, NEW s \in Sources, NEW i \in Items, Deliver(s, i)
  PROVE  TypeInv'
<1>0. op[s] \in OpType /\ op[s].rev \in Revisions /\ op[s].done \cup {i} \in SUBSET Items
  BY DEF TypeInv, Tables, OpType
<1>1. PICK e \in EntType : ent' = [ent EXCEPT ![i][s] = e]
  BY <1>0, EntForms DEF Deliver
<1>2. ent' \in [Items -> [Sources -> EntType]]
  BY <1>1, EntPut
<1>3. PICK o \in OpType : /\ op' = [op EXCEPT ![s] = o]
                          /\ o.kind = op[s].kind /\ o.rev = op[s].rev /\ o.done \subseteq o.items
  <2>1. CASE op[s].done \cup {i} = op[s].items
    <3>1. Concluded(op[s], "succeeded") \in OpType
      BY <1>0, OpForms
    <3>2. LET o == Concluded(op[s], "succeeded") IN o.kind = op[s].kind /\ o.rev = op[s].rev /\ o.done = {}
      BY <1>0 DEF Concluded, OpType
    <3>. QED
      BY <2>1, <3>1, <3>2 DEF Deliver, Delivered
  <2>2. CASE op[s].done \cup {i} # op[s].items
    <3>. DEFINE o == [op[s] EXCEPT !.done = op[s].done \cup {i}]
    <3>1. o \in OpType
      BY <1>0, OpForms
    <3>2. o.kind = op[s].kind /\ o.rev = op[s].rev /\ o.done = op[s].done \cup {i} /\ o.items = op[s].items
      BY <1>0 DEF OpType
    <3>3. i \in op[s].items /\ op[s].done \subseteq op[s].items
      BY DEF Deliver, TypeInv, Tables
    <3>4. op' = [op EXCEPT ![s] = o]
      BY <2>2 DEF Deliver, Delivered
    <3>. HIDE DEF o
    <3>. QED
      BY <3>1, <3>2, <3>3, <3>4
  <2>. QED
    BY <2>1, <2>2
<1>4. /\ op'[s] = o /\ \A q \in Sources \ {s} : op'[q] = op[q]
      /\ op' \in [Sources -> OpType]
  BY <1>3 DEF TypeInv, Tables
<1>5. Tables'
  BY <1>2, <1>3, <1>4 DEF TypeInv, Tables, Deliver
<1>6. Bounded'
  BY <1>3, <1>4 DEF TypeInv, Bounded, Deliver
<1>. QED
  BY <1>5, <1>6, QuietStep, Unchanged DEF Deliver, TypeInv

LEMMA RevokeTariffType ==
  ASSUME TypeInv, RevokeTariff
  PROVE  TypeInv'
<1>. DEFINE o(q) == IF op[q].kind = "revoke" THEN op[q]
                    ELSE [Concluded(op[q], IF op[q].status = "none" THEN "none" ELSE "superseded")
                            EXCEPT !.rev = IF q \in Grants THEN @ + 1 ELSE @]
            covers(q) == CASE op[q].kind = "none" -> 0
                           [] op[q].kind = "grant" -> op[q].rev + 1
                           [] op[q].kind = "revoke" -> op[q].rev
<1>0. \A q \in Sources : op[q] \in OpType /\ op[q].rev \in Revisions
  BY DEF TypeInv, Tables, OpType
<1>1. ASSUME NEW q \in Sources
      PROVE  /\ o(q) \in OpType /\ o(q).kind = op[q].kind /\ o(q).done \subseteq o(q).items
             /\ q \in Payments => o(q).rev = op[q].rev
             /\ covers(q) \in Revisions
  <2>1. CASE op[q].kind = "revoke"
    <3>1. q \in Payments
      BY <2>1, Bounds DEF TypeInv, Bounded
    <3>. QED
      BY <1>0, <2>1, <3>1 DEF TypeInv, Tables
  <2>2. CASE op[q].kind # "revoke"
    <3>. DEFINE n == IF q \in Grants THEN op[q].rev + 1 ELSE op[q].rev
                st == IF op[q].status = "none" THEN "none" ELSE "superseded"
    <3>1. /\ n \in Revisions
          /\ q \in Payments => n = op[q].rev
          /\ op[q].rev + 1 \in Revisions
      <4>1. (op[q].rev \in Nat /\ op[q].rev <= MaxRevision) \/ op[q].rev = 0
        BY <1>0, <2>2, Bounds DEF TypeInv, Bounded, RevokeTariff, OpType
      <4>2. op[q].rev + 1 \in Revisions
        BY <4>1, Bounds
      <4>. QED
        BY <1>0, <4>2, Bounds
    <3>2. st \in {"none", "superseded"}
      OBVIOUS
    <3>3. o(q) = [Concluded(op[q], st) EXCEPT !.rev = n]
      BY <1>0, <2>2 DEF Concluded, OpType
    <3>4. ASSUME NEW m \in Revisions, NEW t \in {"none", "superseded"}
          PROVE  LET p == [Concluded(op[q], t) EXCEPT !.rev = m]
                 IN p \in OpType /\ p.kind = op[q].kind /\ p.rev = m /\ p.done = {}
      <4>1. Concluded(op[q], t) \in OpType /\ [Concluded(op[q], t) EXCEPT !.rev = m] \in OpType
        BY <1>0, OpForms
      <4>2. Concluded(op[q], t).kind = op[q].kind /\ Concluded(op[q], t).done = {}
        BY <1>0 DEF Concluded, OpType
      <4>. QED
        BY <4>1, <4>2 DEF OpType
    <3>5. covers(q) \in Revisions
      <4>1. op[q].kind \in {"none", "grant"}
        BY <1>0, <2>2 DEF OpType
      <4>2. CASE op[q].kind = "none"
        BY <4>2, Bounds
      <4>3. CASE op[q].kind = "grant"
        BY <3>1, <4>3
      <4>. QED
        BY <4>1, <4>2, <4>3
    <3>. HIDE DEF n, st
    <3>6. LET p == [Concluded(op[q], st) EXCEPT !.rev = n]
          IN p \in OpType /\ p.kind = op[q].kind /\ p.rev = n /\ p.done = {}
      BY <3>1, <3>2, <3>4
    <3>. HIDE DEF o, covers
    <3>7. o(q) \in OpType /\ o(q).kind = op[q].kind /\ o(q).rev = n /\ o(q).done = {}
      BY <3>3, <3>6
    <3>. QED
      BY <3>1, <3>5, <3>7
  <2>. QED
    BY <2>1, <2>2
<1>2. op' = [q \in Sources |-> o(q)]
  BY DEF RevokeTariff
<1>3. removal' = [status |-> "pending", done |-> {},
                  items |-> tariff \cup UNION {targets[q] : q \in Sources},
                  covers |-> [q \in Sources |-> covers(q)]]
  BY DEF RevokeTariff
<1>. HIDE DEF o, covers
<1>4. removal' \in RemovalType /\ removal'.status = "pending"
  <2>1. tariff \cup UNION {targets[q] : q \in Sources} \in SUBSET Items
    BY DEF TypeInv, Tables
  <2>2. [q \in Sources |-> covers(q)] \in [Sources -> Revisions]
    BY <1>1
  <2>. QED
    BY <1>3, <2>1, <2>2 DEF RemovalType
<1>5. /\ op' \in [Sources -> OpType]
      /\ \A q \in Sources : op'[q] = o(q)
  BY <1>1, <1>2
<1>6. Bounded'
  BY <1>1, <1>4, <1>5 DEF TypeInv, Bounded
<1>7. ASSUME NEW k \in Rollouts, NEW q \in Sources
      PROVE  /\ child'[k][q] = Superseded(child[k][q])
             /\ Superseded(child[k][q]) \in ChildType
             /\ Superseded(child[k][q]).items = child[k][q].items
             /\ Superseded(child[k][q]).taken = child[k][q].taken
             /\ Superseded(child[k][q]).status = "none" <=> child[k][q].status = "none"
  <2>1. child[k][q] \in ChildType
    BY DEF TypeInv, Tables
  <2>2. child'[k][q] = Superseded(child[k][q])
    BY DEF RevokeTariff
  <2>3. Superseded(child[k][q]) \in ChildType
    BY <2>1, ChildForms
  <2>. QED
    BY <2>1, <2>2, <2>3 DEF Superseded, ChildType
<1>8. child' \in [Rollouts -> [Sources -> ChildType]]
  BY <1>7 DEF RevokeTariff
<1>9. Tables'
  BY <1>1, <1>4, <1>5, <1>8 DEF TypeInv, Tables, RevokeTariff
<1>10. ChildrenOf(rollout', child')
  BY <1>7 DEF TypeInv, ChildrenOf, RevokeTariff
<1>11. Grown(rollout, child, rollout', child')
  BY <1>7 DEF Grown, RevokeTariff
<1>. QED
  BY <1>6, <1>9, <1>10, <1>11, QuietStep DEF RevokeTariff

LEMMA RemoveAtType ==
  ASSUME TypeInv, NEW i \in Items, RemoveAt(i)
  PROVE  TypeInv'
<1>. DEFINE e(q) == IF removal.covers[q] > 0 /\ removal.covers[q] >= ent[i][q].rev
                      THEN Barred(i, q, removal.covers[q]) ELSE ent[i][q]
<1>1. \A q \in Sources : e(q) \in EntType
  <2>1. \A q \in Sources : removal.covers[q] \in Revisions /\ ent[i][q] \in EntType
    BY DEF TypeInv, Tables, RemovalType
  <2>. QED
    BY <2>1, EntForms
<1>2. ent' = [ent EXCEPT ![i] = [q \in Sources |-> e(q)]]
  BY DEF RemoveAt
<1>. HIDE DEF e
<1>3. ent' \in [Items -> [Sources -> EntType]]
  BY <1>1, <1>2 DEF TypeInv, Tables
<1>4. removal' \in RemovalType /\ removal'.status # "none"
  <2>. DEFINE d == removal.done \cup {i}
              st == IF d = removal.items THEN "succeeded" ELSE removal.status
  <2>1. d \in SUBSET Items /\ st \in {"pending", "succeeded"}
    BY DEF TypeInv, Tables, RemovalType, RemoveAt
  <2>2. removal' = [removal EXCEPT !.done = d, !.status = st]
    BY DEF RemoveAt
  <2>. HIDE DEF d, st
  <2>. QED
    BY <2>1, <2>2 DEF TypeInv, Tables, RemovalType
<1>5. Tables'
  BY <1>3, <1>4 DEF TypeInv, Tables, RemoveAt
<1>6. Bounded'
  BY <1>4 DEF TypeInv, Bounded, RemoveAt
<1>. QED
  BY <1>5, <1>6, QuietStep, Unchanged DEF RemoveAt, TypeInv

LEMMA UpdateTariffType ==
  ASSUME TypeInv, NEW items \in SUBSET Items, UpdateTariff(items)
  PROVE  TypeInv'
<1>. DEFINE o == [NoRollout EXCEPT !.status = "pending", !.items = items, !.asked = items \cup tariff]
<1>1. PICK k \in Rollouts :
        /\ \A j \in Rollouts : rollout[j].status = "none" <=> j >= k
        /\ rollout' = [rollout EXCEPT ![k] = o]
  BY DEF UpdateTariff
<1>2. rollout[k].status = "none"
  <2>1. k >= k
    BY Bounds DEF Rollouts
  <2>. QED
    BY <1>1, <2>1
<1>3. o \in RolloutType /\ o.status = "pending" /\ o.items = items /\ o.children = {}
  <2>1. items \cup tariff \in SUBSET Items
    BY DEF TypeInv, Tables
  <2>2. o \in RolloutType
    BY <2>1, Blanks, RolloutForms
  <2>. QED
    BY <2>2 DEF NoRollout
<1>. HIDE DEF o
<1>4. /\ rollout'[k] = o /\ \A j \in Rollouts \ {k} : rollout'[j] = rollout[j]
      /\ rollout' \in [Rollouts -> RolloutType]
  BY <1>1, <1>3 DEF TypeInv, Tables
<1>5. \A q \in Sources : child[k][q].status = "none"
  BY <1>2 DEF TypeInv, ChildrenOf
<1>6. ChildrenOf(rollout', child)
  <2>1. \A q \in Sources : child[k][q].items = {} /\ child[k][q].taken \subseteq child[k][q].items
    BY <1>5 DEF TypeInv, ChildrenOf
  <2>. QED
    BY <1>3, <1>4, <1>5, <2>1 DEF TypeInv, ChildrenOf
<1>7. Grown(rollout, child, rollout', child)
  BY <1>2, <1>4 DEF Grown
<1>8. Tables'
  BY <1>4 DEF TypeInv, Tables, UpdateTariff
<1>9. Bounded'
  BY DEF TypeInv, Bounded, UpdateTariff
<1>. QED
  BY <1>6, <1>7, <1>8, <1>9, QuietStep DEF UpdateTariff

LEMMA LeaseExpiresType ==
  ASSUME TypeInv, NEW k \in Rollouts, LeaseExpires(k)
  PROVE  TypeInv'
<1>. DEFINE o == [rollout[k] EXCEPT !.owner = "none"]
<1>1. o \in RolloutType /\ o.items = rollout[k].items /\ o.status = rollout[k].status
      /\ o.children = rollout[k].children
  <2>1. rollout[k] \in RolloutType
    BY DEF TypeInv, Tables
  <2>. QED
    BY <2>1, RolloutForms DEF RolloutType
<1>2. rollout' = [rollout EXCEPT ![k] = o]
  BY DEF LeaseExpires
<1>. HIDE DEF o
<1>3. /\ rollout' \in [Rollouts -> RolloutType]
      /\ ChildrenOf(rollout', child')
      /\ Grown(rollout, child, rollout', child')
  BY <1>1, <1>2, RolloutPut DEF LeaseExpires
<1>4. Tables' /\ Bounded'
  BY <1>3 DEF TypeInv, Tables, Bounded, LeaseExpires
<1>. QED
  BY <1>3, <1>4, QuietStep DEF LeaseExpires

-----------------------------------------------------------------------------
(* Types: the workers.                                                     *)

LEMMA TakeType ==
  ASSUME TypeInv, NEW w \in Workers, NEW k \in Rollouts, Take(w, k)
  PROVE  TypeInv'
<1>. DEFINE c == [Idle EXCEPT !.pc = "claim", !.rollout = k]
<1>1. c \in WorkerType /\ c.pc = "claim" /\ c.rollout = k
  <2>1. {} \in SUBSET Sources /\ {} \in SUBSET Items /\ TRUE \in BOOLEAN
    OBVIOUS
  <2>2. c \in WorkerType
    BY <2>1, Blanks, WorkerForms
  <2>3. c.pc = "claim" /\ c.rollout = k
    BY DEF Idle
  <2>. QED
    BY <2>2, <2>3
<1>2. worker' = [worker EXCEPT ![w] = c]
  BY DEF Take
<1>. HIDE DEF c
<1>3. Staged(c, rollout, child)
  BY <1>1 DEF Staged, Take
<1>. QED
  BY <1>1, <1>2, <1>3, ReadStep DEF Take

LEMMA WorkerFacts ==
  ASSUME TypeInv, NEW w \in Workers
  PROVE  /\ worker[w] \in WorkerType
         /\ Staged(worker[w], rollout, child)
         /\ worker[w].pc # "idle" => /\ worker[w].rollout \in Rollouts
                                     /\ rollout[worker[w].rollout] \in RolloutType
                                     /\ rollout[worker[w].rollout].status # "none"
         /\ worker[w].todo \in SUBSET Sources /\ worker[w].missing \in SUBSET Items
         /\ worker[w].tries \in SUBSET Items /\ worker[w].complete \in BOOLEAN
         /\ worker[w].ok \in BOOLEAN /\ worker[w].alone \in BOOLEAN
         /\ worker[w].rev \in [Sources -> Revisions]
  BY DEF TypeInv, Tables, WorkerType, Staged

LEMMA ClaimType ==
  ASSUME TypeInv, NEW w \in Workers, Claim(w)
  PROVE  TypeInv'
<1>. DEFINE k == worker[w].rollout
<1>1. CASE /\ rollout' = [rollout EXCEPT ![k].owner = w]
           /\ worker' = [worker EXCEPT ![w].pc = "collect"]
  <2>. DEFINE o == [rollout[k] EXCEPT !.owner = w]
              c == [worker[w] EXCEPT !.pc = "collect"]
  <2>1. /\ k \in Rollouts /\ rollout[k] \in RolloutType /\ rollout[k].status # "none"
        /\ worker[w] \in WorkerType
    BY WorkerFacts DEF Claim
  <2>2. o \in RolloutType /\ o.items = rollout[k].items /\ o.status = rollout[k].status
        /\ o.children = rollout[k].children
    BY <2>1, RolloutForms DEF RolloutType
  <2>3. c \in WorkerType
    BY <2>1, WorkerForms, Blanks
  <2>4. c.pc = "collect" /\ c.rollout = k
    BY <2>1, Kept
  <2>5. rollout' = [rollout EXCEPT ![k] = o] /\ worker' = [worker EXCEPT ![w] = c]
    BY <1>1, <2>1 DEF TypeInv, Tables
  <2>. HIDE DEF o, c, k
  <2>6. /\ rollout' \in [Rollouts -> RolloutType]
        /\ ChildrenOf(rollout', child')
        /\ Grown(rollout, child, rollout', child')
    BY <2>1, <2>2, <2>5, RolloutPut DEF Claim
  <2>7. Staged(c, rollout', child')
    BY <2>1, <2>4, <2>6 DEF Staged, Grown
  <2>8. Tables' /\ Bounded'
    BY <2>6 DEF TypeInv, Tables, Bounded, Claim
  <2>. QED
    BY <2>3, <2>5, <2>6, <2>7, <2>8, WorkerStep
<1>2. CASE worker' = [worker EXCEPT ![w] = Idle] /\ UNCHANGED rollout
  BY <1>2, Blanks, IdleStaged, ReadStep DEF Claim
<1>. QED
  BY <1>1, <1>2 DEF Claim

LEMMA CrashType ==
  ASSUME TypeInv, NEW w \in Workers, Crash(w)
  PROVE  TypeInv'
  BY Blanks, IdleStaged, ReadStep DEF Crash

(* The rollout is released, whatever its status was.                       *)
LEMMA Released ==
  ASSUME TypeInv, NEW k \in Rollouts, NEW st \in {"pending", "succeeded"},
         rollout' = [rollout EXCEPT ![k].status = st, ![k].owner = "none"], UNCHANGED child
  PROVE  /\ rollout' \in [Rollouts -> RolloutType]
         /\ ChildrenOf(rollout', child')
         /\ Grown(rollout, child, rollout', child')
<1>. DEFINE o == [rollout[k] EXCEPT !.status = st, !.owner = "none"]
<1>1. rollout[k] \in RolloutType
  BY DEF TypeInv, Tables
<1>2. o \in RolloutType /\ o.items = rollout[k].items /\ o.status = st
      /\ o.children = rollout[k].children
  BY <1>1, RolloutForms DEF RolloutType
<1>3. rollout' = [rollout EXCEPT ![k] = o]
  BY <1>1 DEF TypeInv, Tables
<1>. HIDE DEF o
<1>. QED
  BY <1>2, <1>3, RolloutPut

LEMMA FailType ==
  ASSUME TypeInv, NEW w \in Workers, worker[w].pc # "idle", Fail(w), UNCHANGED child
  PROVE  /\ rollout' \in [Rollouts -> RolloutType]
         /\ ChildrenOf(rollout', child')
         /\ Grown(rollout, child, rollout', child')
         /\ worker' = [worker EXCEPT ![w] = Idle]
<1>. DEFINE k == worker[w].rollout
<1>1. k \in Rollouts
  BY WorkerFacts
<1>2. CASE rollout' = [rollout EXCEPT ![k].status = "pending", ![k].owner = "none"]
  BY <1>1, <1>2, Released DEF Fail
<1>3. CASE UNCHANGED rollout
  BY <1>3, Unchanged DEF Fail, TypeInv, Tables
<1>. QED
  BY <1>2, <1>3 DEF Fail

LEMMA FailKeeps ==
  ASSUME TypeInv, NEW w \in Workers, worker[w].pc # "idle", Fail(w),
         UNCHANGED <<tariff, former, op, targets, removal, ent, child>>
  PROVE  TypeInv'
<1>1. Tables' /\ Bounded'
  BY FailType DEF TypeInv, Tables, Bounded
<1>. QED
  BY <1>1, FailType, Blanks, IdleStaged, WorkerStep

LEMMA CollectType ==
  ASSUME TypeInv, NEW w \in Workers, Collect(w)
  PROVE  TypeInv'
<1>. DEFINE k == worker[w].rollout
<1>1. k \in Rollouts /\ rollout[k] \in RolloutType /\ rollout[k].status # "none"
      /\ worker[w] \in WorkerType
  BY WorkerFacts DEF Collect
<1>2. ASSUME NEW away \in SUBSET rollout[k].asked,
             worker' = [worker EXCEPT ![w].pc = "find", ![w].complete = away = {},
                                      ![w].missing = {i \in rollout[k].items \ away : ~Has(i)}]
      PROVE  TypeInv'
  <2>. DEFINE m == {i \in rollout[k].items \ away : ~Has(i)}
              b == away = {}
              c == [worker[w] EXCEPT !.pc = "find", !.complete = b, !.missing = m]
  <2>1. m \in SUBSET Items /\ m \subseteq rollout[k].items /\ b \in BOOLEAN
    BY <1>1 DEF RolloutType
  <2>2. worker' = [worker EXCEPT ![w] = c]
    BY <1>2, <1>1 DEF TypeInv
  <2>. HIDE DEF m, b
  <2>3. c \in WorkerType
    BY <1>1, <2>1, WorkerForms
  <2>4. c.pc = "find" /\ c.rollout = k /\ c.missing = m
    BY <1>1, Kept
  <2>. HIDE DEF c, k
  <2>5. Staged(c, rollout, child)
    BY <1>1, <2>1, <2>4 DEF Staged
  <2>. QED
    BY <2>2, <2>3, <2>5, ReadStep DEF Collect
<1>3. ASSUME NEW b \in BOOLEAN,
             worker' = [worker EXCEPT ![w] = Running(k, rollout[k].children, b)]
      PROVE  TypeInv'
  <2>. DEFINE c == Running(k, rollout[k].children, b)
  <2>1. rollout[k].children \in SUBSET Sources
    BY <1>1 DEF RolloutType
  <2>2. c \in WorkerType
    BY <1>1, <2>1, WorkerForms
  <2>3. c.pc = "run" /\ c.rollout = k /\ c.todo = rollout[k].children
    BY Fields
  <2>4. \A q \in rollout[k].children : child[k][q].status # "none"
    BY <1>1, <2>1 DEF TypeInv, ChildrenOf
  <2>. HIDE DEF c
  <2>5. Staged(c, rollout, child)
    BY <1>1, <2>3, <2>4 DEF Staged
  <2>. QED
    BY <1>3, <2>2, <2>5, ReadStep DEF Collect, c
<1>. QED
  BY <1>2, <1>3 DEF Collect

LEMMA FindType ==
  ASSUME TypeInv, NEW w \in Workers, Find(w)
  PROVE  TypeInv'
<1>1. CASE Fail(w)
  BY <1>1, FailKeeps DEF Find
<1>2. CASE /\ worker' = [worker EXCEPT ![w].pc = "queue", ![w].todo = LiveSources,
                ![w].rev = [s \in Sources |-> IF s \in LiveSources THEN op[s].rev ELSE 0]]
           /\ UNCHANGED rollout
  <2>. DEFINE f == [s \in Sources |-> IF s \in LiveSources THEN op[s].rev ELSE 0]
              c == [worker[w] EXCEPT !.pc = "queue", !.todo = LiveSources, !.rev = f]
  <2>1. f \in [Sources -> Revisions]
    <3>1. \A s \in Sources : op[s].rev \in Revisions
      BY DEF TypeInv, Tables, OpType
    <3>. QED
      BY <3>1, Bounds
  <2>2. LiveSources \in SUBSET Sources
    BY DEF LiveSources
  <2>3. worker' = [worker EXCEPT ![w] = c]
    BY <1>2 DEF TypeInv
  <2>. HIDE DEF f
  <2>4. worker[w] \in WorkerType /\ Staged(worker[w], rollout, child)
    BY WorkerFacts
  <2>5. c \in WorkerType
    <3>1. worker[w].rollout \in Rollouts
      BY WorkerFacts DEF Find
    <3>. QED
      BY <2>1, <2>2, <2>4, <3>1, WorkerForms
  <2>6. c.pc = "queue" /\ c.rollout = worker[w].rollout /\ c.missing = worker[w].missing
    BY <2>4, Kept
  <2>. HIDE DEF c
  <2>7. Staged(c, rollout, child)
    BY <2>4, <2>6 DEF Staged, Find
  <2>. QED
    BY <1>2, <2>3, <2>5, <2>7, ReadStep DEF Find
<1>. QED
  BY <1>1, <1>2 DEF Find

LEMMA QueueChildType ==
  ASSUME TypeInv, NEW w \in Workers, NEW s \in Sources, QueueChild(w, s)
  PROVE  TypeInv'
<1>. DEFINE k == worker[w].rollout
            cur == worker[w]
            o == [rev |-> cur.rev[s], status |-> "pending", items |-> cur.missing, taken |-> {}]
<1>0. /\ k \in Rollouts /\ rollout[k] \in RolloutType /\ rollout[k].status # "none"
      /\ cur \in WorkerType /\ cur.missing \subseteq rollout[k].items /\ cur.missing \in SUBSET Items
      /\ cur.rev[s] \in Revisions /\ cur.todo \in SUBSET Sources /\ cur.complete \in BOOLEAN
      /\ child[k][s] \in ChildType /\ targets[s] \in SUBSET Items
      /\ cur.pc = "queue" /\ s \in cur.todo
  BY WorkerFacts DEF QueueChild, Staged, TypeInv, Tables
<1>1. /\ child' \in [Rollouts -> [Sources -> ChildType]]
      /\ child'[k][s].status # "none"
      /\ ChildrenOf(rollout, child')
      /\ Grown(rollout, child, rollout, child')
      /\ targets' \in [Sources -> SUBSET Items]
  <2>1. CASE /\ child[k][s].status = "none"
             /\ child' = [child EXCEPT ![k][s] = o]
             /\ targets' = [targets EXCEPT ![s] = @ \cup cur.missing]
    <3>1. o \in ChildType /\ o.status = "pending" /\ o.items = cur.missing /\ o.taken = {}
      BY <1>0 DEF ChildType
    <3>. HIDE DEF o
    <3>2. child' \in [Rollouts -> [Sources -> ChildType]] /\ child'[k][s] = o
      BY <2>1, <3>1, <1>0 DEF TypeInv, Tables
    <3>3. \A j \in Rollouts, q \in Sources : j # k \/ q # s => child'[j][q] = child[j][q]
      BY <2>1, <1>0 DEF TypeInv, Tables
    <3>4. ChildrenOf(rollout, child')
      BY <1>0, <3>1, <3>2, <3>3 DEF TypeInv, ChildrenOf
    <3>5. Grown(rollout, child, rollout, child')
      BY <2>1, <3>3 DEF Grown
    <3>6. targets' \in [Sources -> SUBSET Items]
      BY <1>0, <2>1 DEF TypeInv, Tables
    <3>. QED
      BY <3>1, <3>2, <3>4, <3>5, <3>6
  <2>2. CASE child[k][s].status # "none" /\ UNCHANGED <<child, targets>>
    BY <2>2, Unchanged DEF TypeInv, Tables
  <2>. QED
    BY <2>1, <2>2 DEF QueueChild
<1>. HIDE DEF k, cur, o
<1>2. CASE rollout[k].owner = w
  <2>. DEFINE p == [rollout[k] EXCEPT !.children = rollout[k].children \cup {s}]
  <2>1. p \in RolloutType /\ p.items = rollout[k].items /\ p.status = rollout[k].status
        /\ p.children = rollout[k].children \cup {s} /\ p.children \in SUBSET Sources
    BY <1>0, RolloutForms DEF RolloutType
  <2>2. rollout' = [rollout EXCEPT ![k] = p]
    BY <1>0, <1>2 DEF QueueChild, Holds, k, TypeInv, Tables
  <2>. HIDE DEF p
  <2>3. /\ rollout'[k] = p /\ \A j \in Rollouts \ {k} : rollout'[j] = rollout[j]
        /\ rollout' \in [Rollouts -> RolloutType]
    BY <1>0, <2>1, <2>2 DEF TypeInv, Tables
  <2>4. ChildrenOf(rollout', child')
    BY <1>0, <1>1, <2>1, <2>3 DEF ChildrenOf
  <2>5. Grown(rollout, child, rollout', child')
    BY <1>0, <1>1, <2>1, <2>3 DEF Grown
  <2>6. Tables' /\ Bounded'
    BY <1>1, <2>3 DEF TypeInv, Tables, Bounded, QueueChild
  <2>7. CASE worker' = [worker EXCEPT ![w] = Running(k, rollout[k].children \cup {s}, cur.complete)]
    <3>. DEFINE c == Running(k, p.children, cur.complete)
    <3>1. c \in WorkerType
      BY <1>0, <2>1, WorkerForms
    <3>2. c.pc = "run" /\ c.rollout = k /\ c.todo = p.children
      BY Fields
    <3>3. worker' = [worker EXCEPT ![w] = c]
      BY <2>1, <2>7
    <3>. HIDE DEF c
    <3>4. \A q \in p.children : child'[k][q].status # "none"
      BY <1>0, <2>1, <2>3, <2>4 DEF ChildrenOf
    <3>5. Staged(c, rollout', child')
      BY <1>0, <2>1, <2>3, <3>2, <3>4 DEF Staged
    <3>. QED
      BY <2>4, <2>5, <2>6, <3>1, <3>3, <3>5, WorkerStep
  <2>8. CASE worker' = [worker EXCEPT ![w] = [cur EXCEPT !.todo = cur.todo \ {s}]]
    <3>. DEFINE c == [cur EXCEPT !.todo = cur.todo \ {s}]
    <3>0. cur.todo \ {s} \in SUBSET Sources
      BY <1>0
    <3>1. c \in WorkerType
      BY <1>0, <3>0, WorkerForms
    <3>2. c.pc = "queue" /\ c.rollout = k /\ c.missing = cur.missing
      BY <1>0, Kept DEF k, cur
    <3>. HIDE DEF c
    <3>3. Staged(c, rollout', child')
      BY <1>0, <2>1, <2>3, <3>2 DEF Staged
    <3>. QED
      BY <2>4, <2>5, <2>6, <2>8, <3>1, <3>3, WorkerStep DEF c
  <2>. QED
    BY <1>2, <2>7, <2>8 DEF QueueChild, Holds, k, cur
<1>3. CASE rollout[k].owner # w
  <2>1. Fail(w)
    BY <1>3 DEF QueueChild, Holds, k
  <2>2. UNCHANGED rollout /\ worker' = [worker EXCEPT ![w] = Idle]
    BY <1>3, <2>1 DEF Fail, k
  <2>3. Tables' /\ Bounded'
    BY <1>1, <2>2 DEF TypeInv, Tables, Bounded, QueueChild
  <2>. QED
    BY <1>1, <2>2, <2>3, Blanks, IdleStaged, WorkerStep
<1>. QED
  BY <1>2, <1>3

LEMMA RunChildType ==
  ASSUME TypeInv, NEW w \in Workers, NEW s \in Sources, RunChild(w, s)
  PROVE  TypeInv'
<1>. DEFINE k == worker[w].rollout
            cur == worker[w]
<1>0. /\ k \in Rollouts /\ cur \in WorkerType /\ cur.pc = "run" /\ s \in cur.todo
      /\ cur.todo \in SUBSET Sources /\ cur.todo \ {s} \in SUBSET Sources
      /\ Staged(cur, rollout, child)
      /\ child[k][s] \in ChildType /\ child[k][s].items \in SUBSET Items
      /\ cur.complete \in BOOLEAN /\ cur.tries \in SUBSET Items
  BY WorkerFacts DEF RunChild, TypeInv, Tables, ChildType
<1>1. CASE Fail(w)
  BY <1>1, FailKeeps DEF RunChild
<1>2. CASE UNCHANGED rollout /\ worker' = [worker EXCEPT ![w].todo = @ \ {s}]
  <2>. DEFINE c == [cur EXCEPT !.todo = cur.todo \ {s}]
  <2>1. c \in WorkerType
    BY <1>0, WorkerForms
  <2>2. c.pc = "run" /\ c.rollout = k /\ c.todo = cur.todo \ {s} /\ c.alone = cur.alone
    BY <1>0, Kept
  <2>3. worker' = [worker EXCEPT ![w] = c]
    BY <1>2 DEF TypeInv
  <2>. HIDE DEF c
  <2>4. Staged(c, rollout, child)
    BY <1>0, <2>2 DEF Staged
  <2>. QED
    BY <1>2, <2>1, <2>3, <2>4, ReadStep DEF RunChild
<1>3. CASE /\ UNCHANGED rollout
           /\ worker' = [worker EXCEPT ![w].pc = "fence", ![w].source = s, ![w].tries = child[k][s].items]
  <2>. DEFINE c == [cur EXCEPT !.pc = "fence", !.source = s, !.tries = child[k][s].items]
  <2>1. c \in WorkerType
    BY <1>0, WorkerForms
  <2>2. /\ c.pc = "fence" /\ c.rollout = k /\ c.todo = cur.todo /\ c.source = s
        /\ c.tries = child[k][s].items /\ c.alone = cur.alone
    BY <1>0, Kept
  <2>3. worker' = [worker EXCEPT ![w] = c]
    BY <1>3 DEF TypeInv
  <2>. HIDE DEF c
  <2>4. Staged(c, rollout, child)
    BY <1>0, <1>3, <2>2 DEF Staged
  <2>. QED
    BY <1>3, <2>1, <2>3, <2>4, ReadStep DEF RunChild
<1>. QED
  BY <1>1, <1>2, <1>3 DEF RunChild

LEMMA RetryChildType ==
  ASSUME TypeInv, NEW w \in Workers, NEW k \in Rollouts, NEW s \in Sources, RetryChild(w, k, s)
  PROVE  TypeInv'
<1>. DEFINE c == [Idle EXCEPT !.pc = "fence", !.rollout = k, !.source = s, !.alone = TRUE,
                              !.tries = child[k][s].items]
<1>1. child[k][s].items \in SUBSET Items /\ child[k][s].status = "pending"
      /\ rollout[k].status # "none"
  BY DEF RetryChild, TypeInv, Tables, ChildType, ChildrenOf
<1>2. c \in WorkerType
  <2>1. {} \in SUBSET Sources /\ TRUE \in BOOLEAN
    OBVIOUS
  <2>. QED
    BY <1>1, <2>1, Blanks, WorkerForms
<1>3. /\ c.pc = "fence" /\ c.rollout = k /\ c.source = s /\ c.todo = {}
      /\ c.tries = child[k][s].items
  BY Fields
<1>4. worker' = [worker EXCEPT ![w] = c]
  BY DEF RetryChild
<1>. HIDE DEF c
<1>5. Staged(c, rollout, child)
  BY <1>1, <1>3 DEF Staged
<1>. QED
  BY <1>2, <1>4, <1>5, ReadStep DEF RetryChild

LEMMA ReturnForm ==
  ASSUME TypeInv, NEW w \in Workers, worker[w].pc # "idle", NEW done \in BOOLEAN, Return(w, done)
  PROVE  \E c \in WorkerType :
           /\ worker' = [worker EXCEPT ![w] = c]
           /\ \/ c = Idle
              \/ /\ ~worker[w].alone
                 /\ c.pc = "run" /\ c.rollout = worker[w].rollout /\ ~c.alone
                 /\ c.todo = worker[w].todo \ {worker[w].source}
                 /\ c.complete = (worker[w].complete /\ done)
<1>. DEFINE b == worker[w].complete /\ done
            t == worker[w].todo \ {worker[w].source}
            k == worker[w].rollout
<1>1. b \in BOOLEAN /\ t \in SUBSET Sources /\ k \in Rollouts
  BY WorkerFacts
<1>2. worker' = [worker EXCEPT ![w] = IF worker[w].alone THEN Idle ELSE Running(k, t, b)]
  BY DEF Return
<1>. HIDE DEF b, t, k
<1>3. Running(k, t, b) \in WorkerType
  <2>1. {} \in SUBSET Items
    OBVIOUS
  <2>. QED
    BY <1>1, <2>1, Blanks, WorkerForms
<1>4. /\ Running(k, t, b).pc = "run" /\ Running(k, t, b).rollout = k /\ ~Running(k, t, b).alone
      /\ Running(k, t, b).todo = t /\ Running(k, t, b).complete = b
  BY Fields
<1>5. CASE worker[w].alone
  BY <1>2, <1>5, Blanks
<1>6. CASE ~worker[w].alone
  <2>1. worker' = [worker EXCEPT ![w] = Running(k, t, b)]
    BY <1>2, <1>6
  <2>. QED
    BY <1>3, <1>4, <1>6, <2>1 DEF b, t, k
<1>. QED
  BY <1>5, <1>6

LEMMA ReturnStaged ==
  ASSUME TypeInv, NEW w \in Workers, worker[w].pc = "fence", NEW done \in BOOLEAN, Return(w, done),
         Tables', Bounded', ChildrenOf(rollout', child'), Grown(rollout, child, rollout', child')
  PROVE  TypeInv'
<1>1. PICK c \in WorkerType :
           /\ worker' = [worker EXCEPT ![w] = c]
           /\ \/ c = Idle
              \/ /\ c.pc = "run" /\ c.rollout = worker[w].rollout
                 /\ c.todo = worker[w].todo \ {worker[w].source}
  BY ReturnForm
<1>2. Staged(c, rollout', child')
  <2>1. CASE c = Idle
    BY <2>1, IdleStaged
  <2>2. CASE c # Idle
    <3>1. Staged(worker[w], rollout, child) /\ worker[w].todo \in SUBSET Sources
      BY WorkerFacts
    <3>2. /\ c.rollout \in Rollouts /\ rollout[c.rollout].status # "none"
          /\ c.todo \subseteq Sources
          /\ \A s \in c.todo : child[c.rollout][s].status # "none"
      BY <1>1, <2>2, <3>1 DEF Staged
    <3>. QED
      BY <1>1, <2>2, <3>2 DEF Staged, Grown
  <2>. QED
    BY <2>1, <2>2
<1>. QED
  BY <1>1, <1>2, WorkerStep

LEMMA ConcludeChild ==
  ASSUME TypeInv, NEW k \in Rollouts, NEW s \in Sources, NEW st \in {"succeeded", "superseded"},
         rollout[k].status # "none", child[k][s].status # "none",
         child' = [child EXCEPT ![k][s].status = st], UNCHANGED rollout
  PROVE  /\ child' \in [Rollouts -> [Sources -> ChildType]]
         /\ child'[k][s].status = st
         /\ child'[k][s].items = child[k][s].items /\ child'[k][s].rev = child[k][s].rev
         /\ \A j \in Rollouts, q \in Sources : j # k \/ q # s => child'[j][q] = child[j][q]
         /\ ChildrenOf(rollout', child')
         /\ Grown(rollout, child, rollout', child')
<1>. DEFINE o == [child[k][s] EXCEPT !.status = st]
<1>1. child[k][s] \in ChildType /\ child[k][s].items \subseteq rollout[k].items
      /\ child[k][s].taken \subseteq child[k][s].items
  BY DEF TypeInv, Tables, ChildrenOf
<1>2. o \in ChildType
  BY <1>1, ChildForms
<1>3. /\ o.status = st /\ o.items = child[k][s].items /\ o.taken = child[k][s].taken
      /\ o.rev = child[k][s].rev
  BY <1>1 DEF ChildType
<1>4. child' = [child EXCEPT ![k][s] = o]
  BY <1>1 DEF TypeInv, Tables
<1>. HIDE DEF o
<1>5. \A j \in Rollouts, q \in Sources : j # k \/ q # s => child'[j][q] = child[j][q]
  BY <1>4 DEF TypeInv, Tables
<1>6. o.status # "none"
  BY <1>3
<1>7. o.items \subseteq rollout[k].items /\ o.taken \subseteq o.items
  BY <1>1, <1>3
<1>8. /\ child' \in [Rollouts -> [Sources -> ChildType]]
      /\ child'[k][s] = o
      /\ ChildrenOf(rollout', child')
      /\ Grown(rollout, child, rollout', child')
  BY <1>2, <1>3, <1>4, <1>6, <1>7, ChildPut
<1>. QED
  BY <1>3, <1>5, <1>8

LEMMA FenceType ==
  ASSUME TypeInv, NEW w \in Workers, Fence(w)
  PROVE  TypeInv'
<1>. DEFINE k == worker[w].rollout
            s == worker[w].source
            cur == worker[w]
<1>0. /\ k \in Rollouts /\ s \in Sources /\ cur \in WorkerType /\ cur.pc = "fence"
      /\ rollout[k].status # "none" /\ child[k][s].status # "none"
      /\ Staged(cur, rollout, child)
  BY WorkerFacts DEF Fence, Staged
<1>1. ASSUME NEW st \in {"succeeded", "superseded"}, NEW done \in BOOLEAN,
             child' = [child EXCEPT ![k][s].status = st], UNCHANGED rollout, Return(w, done)
      PROVE  TypeInv'
  <2>1. /\ child' \in [Rollouts -> [Sources -> ChildType]]
        /\ ChildrenOf(rollout', child')
        /\ Grown(rollout, child, rollout', child')
    BY <1>0, <1>1, ConcludeChild
  <2>2. Tables' /\ Bounded'
    BY <1>1, <2>1 DEF TypeInv, Tables, Bounded, Fence
  <2>. QED
    BY <1>0, <1>1, <2>1, <2>2, ReturnStaged
<1>2. CASE worker' = [worker EXCEPT ![w].pc = "call"] /\ UNCHANGED <<child, rollout>>
  <2>. DEFINE c == [cur EXCEPT !.pc = "call"]
  <2>1. c \in WorkerType
    <3>1. {} \in SUBSET Sources /\ {} \in SUBSET Items /\ TRUE \in BOOLEAN
      OBVIOUS
    <3>. QED
      BY <1>0, <3>1, WorkerForms
  <2>2. /\ c.pc = "call" /\ c.rollout = k /\ c.todo = cur.todo /\ c.source = s /\ c.tries = cur.tries
    BY <1>0, Kept
  <2>3. worker' = [worker EXCEPT ![w] = c]
    BY <1>2 DEF TypeInv
  <2>. HIDE DEF c
  <2>4. Staged(c, rollout, child)
    BY <1>0, <2>2 DEF Staged
  <2>. QED
    BY <1>2, <2>1, <2>3, <2>4, ReadStep DEF Fence
<1>3. CASE Return(w, FALSE) /\ UNCHANGED <<child, rollout>>
  <2>1. Tables' /\ Bounded' /\ ChildrenOf(rollout', child')
    BY <1>3 DEF TypeInv, Tables, Bounded, Fence
  <2>. QED
    BY <1>0, <1>3, <2>1, Unchanged, ReturnStaged
<1>4. CASE Fail(w) /\ UNCHANGED child
  BY <1>0, <1>4, FailKeeps DEF Fence
<1>. QED
  BY <1>1, <1>2, <1>3, <1>4 DEF Fence

LEMMA TriedForm ==
  ASSUME TypeInv, NEW w \in Workers, worker[w].pc = "call", NEW i \in Items, NEW b \in BOOLEAN,
         Tried(w, i, b)
  PROVE  \E c \in WorkerType :
           /\ worker' = [worker EXCEPT ![w] = c]
           /\ c.pc = "fence" /\ c.rollout = worker[w].rollout /\ c.todo = worker[w].todo
           /\ c.source = worker[w].source /\ c.tries = worker[w].tries \ {i}
           /\ c.alone = worker[w].alone /\ c.ok = (worker[w].ok /\ b)
           /\ c.complete = worker[w].complete
<1>. DEFINE m == worker[w].tries \ {i}
            ok == worker[w].ok /\ b
            c == [worker[w] EXCEPT !.pc = "fence", !.tries = m, !.ok = ok]
<1>1. /\ worker[w] \in WorkerType /\ worker[w].rollout \in Rollouts
      /\ m \in SUBSET Items /\ ok \in BOOLEAN /\ {} \in SUBSET Sources
  BY WorkerFacts
<1>2. worker' = [worker EXCEPT ![w] = c]
  BY DEF Tried, TypeInv
<1>. HIDE DEF m, ok
<1>3. c \in WorkerType
  BY <1>1, WorkerForms
<1>4. /\ c.pc = "fence" /\ c.rollout = worker[w].rollout /\ c.todo = worker[w].todo
      /\ c.source = worker[w].source /\ c.tries = m
      /\ c.alone = worker[w].alone /\ c.ok = ok
      /\ c.complete = worker[w].complete
  BY <1>1, Kept
<1>. HIDE DEF c
<1>. QED
  BY <1>2, <1>3, <1>4 DEF m, ok

(* What a call leaves behind.                                              *)
LEMMA CallForm ==
  ASSUME TypeInv, NEW w \in Workers, NEW i \in Items, Call(w, i)
  PROVE  LET k == worker[w].rollout
             s == worker[w].source
         IN /\ k \in Rollouts /\ s \in Sources /\ child[k][s].status # "none"
            /\ rollout[k].status # "none" /\ i \in child[k][s].items
            /\ \E b \in BOOLEAN : Tried(w, i, b)
            /\ \/ UNCHANGED <<ent, child>>
               \/ /\ Accepts(i, s, child[k][s].rev)
                  /\ ent' = [ent EXCEPT ![i][s] = Given(k, s)]
                  /\ child' = [child EXCEPT ![k][s].taken = @ \cup {i}]
  BY WorkerFacts DEF Call, Staged

LEMMA TakenChild ==
  ASSUME TypeInv, NEW k \in Rollouts, NEW s \in Sources, NEW i \in child[k][s].items,
         rollout[k].status # "none", child[k][s].status # "none",
         child' = [child EXCEPT ![k][s].taken = @ \cup {i}], UNCHANGED rollout
  PROVE  /\ child' \in [Rollouts -> [Sources -> ChildType]]
         /\ \A j \in Rollouts, q \in Sources :
              /\ child'[j][q].items = child[j][q].items /\ child'[j][q].rev = child[j][q].rev
              /\ child'[j][q].status = child[j][q].status
         /\ ChildrenOf(rollout', child')
         /\ Grown(rollout, child, rollout', child')
<1>. DEFINE t == child[k][s].taken \cup {i}
            o == [child[k][s] EXCEPT !.taken = t]
<1>1. child[k][s] \in ChildType /\ child[k][s].items \subseteq rollout[k].items
      /\ child[k][s].taken \subseteq child[k][s].items
  BY DEF TypeInv, Tables, ChildrenOf
<1>2. t \in SUBSET Items /\ t \subseteq child[k][s].items
  BY <1>1 DEF ChildType
<1>3. child' = [child EXCEPT ![k][s] = o]
  BY <1>1 DEF TypeInv, Tables
<1>. HIDE DEF t
<1>4. o \in ChildType
  BY <1>1, <1>2, ChildForms
<1>5. /\ o.status = child[k][s].status /\ o.items = child[k][s].items /\ o.taken = t
      /\ o.rev = child[k][s].rev
  BY <1>1 DEF ChildType
<1>. HIDE DEF o
<1>6. \A j \in Rollouts, q \in Sources : j # k \/ q # s => child'[j][q] = child[j][q]
  BY <1>3 DEF TypeInv, Tables
<1>7. /\ child' \in [Rollouts -> [Sources -> ChildType]]
      /\ child'[k][s] = o
      /\ ChildrenOf(rollout', child')
      /\ Grown(rollout, child, rollout', child')
  BY <1>1, <1>2, <1>3, <1>4, <1>5, ChildPut
<1>. QED
  BY <1>5, <1>6, <1>7

LEMMA CallType ==
  ASSUME TypeInv, NEW w \in Workers, NEW i \in Items, Call(w, i)
  PROVE  TypeInv'
<1>. DEFINE k == worker[w].rollout
            s == worker[w].source
            cur == worker[w]
<1>0. /\ k \in Rollouts /\ s \in Sources /\ child[k][s].status # "none"
      /\ rollout[k].status # "none" /\ i \in child[k][s].items
      /\ \/ UNCHANGED <<ent, child>>
         \/ /\ ent' = [ent EXCEPT ![i][s] = Given(k, s)]
            /\ child' = [child EXCEPT ![k][s].taken = @ \cup {i}]
      /\ UNCHANGED <<tariff, former, op, targets, removal, rollout>>
      /\ cur.pc = "call"
  BY CallForm DEF Call
<1>1. PICK c \in WorkerType :
           /\ worker' = [worker EXCEPT ![w] = c]
           /\ c.pc = "fence" /\ c.rollout = k /\ c.todo = cur.todo
           /\ c.source = s /\ c.tries = cur.tries \ {i}
  <2>1. PICK b \in BOOLEAN : Tried(w, i, b)
    BY CallForm
  <2>. QED
    BY <1>0, <2>1, TriedForm
<1>2. /\ child' \in [Rollouts -> [Sources -> ChildType]]
      /\ ChildrenOf(rollout', child')
      /\ Grown(rollout, child, rollout', child')
  <2>1. CASE UNCHANGED child
    BY <1>0, <2>1, Unchanged DEF TypeInv, Tables
  <2>2. CASE child' = [child EXCEPT ![k][s].taken = @ \cup {i}]
    BY <1>0, <2>2, TakenChild
  <2>. QED
    BY <1>0, <2>1, <2>2
<1>3. ent' \in [Items -> [Sources -> EntType]]
  <2>1. child[k][s].rev \in Revisions
    BY <1>0 DEF TypeInv, Tables, ChildType
  <2>2. Given(k, s) \in EntType
    BY <2>1, EntForms DEF Given
  <2>3. CASE UNCHANGED ent
    BY <2>3 DEF TypeInv, Tables
  <2>. QED
    BY <1>0, <2>2, <2>3, EntPut
<1>4. Tables' /\ Bounded'
  BY <1>0, <1>2, <1>3 DEF TypeInv, Tables, Bounded
<1>5. Staged(c, rollout', child')
  <2>1. Staged(cur, rollout, child) /\ cur.todo \in SUBSET Sources
    BY WorkerFacts
  <2>. HIDE DEF k, s, cur
  <2>2. Staged(cur, rollout', child')
    BY <1>2, <2>1, StageKept
  <2>3. /\ rollout'[k].status # "none" /\ child'[k][s].status # "none"
        /\ \A q \in cur.todo : child'[k][q].status # "none"
        /\ cur.tries \subseteq child'[k][s].items
    BY <1>0, <2>2 DEF Staged, k, s, cur
  <2>4. c.tries \subseteq child'[k][s].items
    BY <1>1, <2>3
  <2>. QED
    BY <1>0, <1>1, <2>3, <2>4 DEF Staged
<1>. QED
  BY <1>1, <1>2, <1>4, <1>5, WorkerStep

LEMMA FinishType ==
  ASSUME TypeInv, NEW w \in Workers, Finish(w)
  PROVE  TypeInv'
<1>. DEFINE k == worker[w].rollout
<1>0. k \in Rollouts
  BY WorkerFacts DEF Finish
<1>1. CASE Fail(w)
  BY <1>1, FailKeeps DEF Finish
<1>2. ASSUME NEW st \in {"pending", "succeeded"},
             rollout' = [rollout EXCEPT ![k].status = st, ![k].owner = "none"],
             worker' = [worker EXCEPT ![w] = Idle]
      PROVE  TypeInv'
  <2>1. /\ rollout' \in [Rollouts -> RolloutType]
        /\ ChildrenOf(rollout', child')
        /\ Grown(rollout, child, rollout', child')
    BY <1>0, <1>2, Released DEF Finish
  <2>2. Tables' /\ Bounded'
    BY <2>1 DEF TypeInv, Tables, Bounded, Finish
  <2>. QED
    BY <1>2, <2>1, <2>2, Blanks, IdleStaged, WorkerStep
<1>. QED
  BY <1>1, <1>2 DEF Finish

LEMMA InitType == Init => TypeInv
<1>. SUFFICES ASSUME Init PROVE TypeInv
  OBVIOUS
<1>1. /\ \A s \in Sources : op[s] = NoOp
      /\ \A k \in Rollouts : rollout[k] = NoRollout /\ \A s \in Sources : child[k][s] = NoChild
      /\ \A w \in Workers : worker[w] = Idle
      /\ removal = NoRemoval
  BY DEF Init
<1>2. Tables
  <2>1. \A s \in Sources : op[s].done \subseteq op[s].items
    BY <1>1 DEF NoOp
  <2>. QED
    BY <1>1, <2>1, Blanks DEF Init, Tables
<1>3. Bounded
  BY <1>1, Bounds DEF Bounded, NoOp
<1>4. ChildrenOf(rollout, child)
  BY <1>1 DEF ChildrenOf, NoChild, NoRollout
<1>5. worker \in [Workers -> WorkerType] /\ \A w \in Workers : Staged(worker[w], rollout, child)
  BY <1>1, Blanks, IdleStaged DEF Init
<1>. QED
  BY <1>2, <1>3, <1>4, <1>5 DEF TypeInv

LEMMA NextType == TypeInv /\ [Next]_vars => TypeInv'
<1>. SUFFICES ASSUME TypeInv, [Next]_vars PROVE TypeInv'
  OBVIOUS
<1>1. CASE UNCHANGED vars
  BY <1>1, QuietStep, Unchanged DEF vars, TypeInv, Tables, Bounded
<1>. QED
  BY <1>1, SourceType, DeliverType, RevokeTariffType, RemoveAtType, UpdateTariffType,
     LeaseExpiresType, TakeType, ClaimType, CrashType, CollectType, FindType, QueueChildType,
     RunChildType, RetryChildType, FenceType, CallType, FinishType DEF Next

LEMMA TypeOfInv == TypeInv => TypeOK
  BY DEF TypeInv, Tables, TypeOK, ChildrenOf, OpType, EntType, RolloutType

LEMMA Invariance == Spec => []TypeInv
<1>1. Init => TypeInv
  BY InitType
<1>2. TypeInv /\ [Next]_vars => TypeInv'
  BY NextType
<1>. QED
  BY <1>1, <1>2, PTL DEF Spec

(* The variables have their types: revisions stay within their bound, what *)
(* is done is of the operation, a child only has items of its rollout.     *)
THEOREM TypeCorrect == Spec => []TypeOK
  BY Invariance, TypeOfInv, PTL

-----------------------------------------------------------------------------
(* What landed stays.                                                      *)

Over == {"succeeded", "superseded"}

(* The panel of item i has the source s at the child's revision or higher. *)
Landed(e, c, i, s) == e[i][s].state # "none" /\ e[i][s].rev >= c.rev

(* A child that succeeded has all its items.                               *)
Settled(e, h) ==
  \A k \in Rollouts, s \in Sources :
    h[k][s].status = "succeeded" => \A i \in h[k][s].items : Landed(e, h[k][s], i, s)

(* A worker that has met no failure has landed what it no longer tries.    *)
Trying(c, e, h) ==
  c.pc \in {"fence", "call"} /\ c.ok =>
    \A i \in h[c.rollout][c.source].items \ c.tries :
      Landed(e, h[c.rollout][c.source], i, c.source)

(* The owner that has counted no failure has the children it has not run.  *)
Counted(w, c, r, h) ==
  /\ c.pc = "run" \/ (c.pc \in {"fence", "call"} /\ ~c.alone)
  /\ c.complete /\ r[c.rollout].owner = w
  => \A s \in r[c.rollout].children : s \in c.todo \/ h[c.rollout][s].status \in Over

DoneInv ==
  /\ Settled(ent, child)
  /\ \A w \in Workers : Trying(worker[w], ent, child) /\ Counted(w, worker[w], rollout, child)

(* Panels and children only go forward.                                    *)
PanelsOnward ==
  \A i \in Items, s \in Sources :
    ent[i][s].state # "none" => ent'[i][s].state # "none" /\ ent'[i][s].rev >= ent[i][s].rev

ChildrenOnward ==
  \A k \in Rollouts, s \in Sources :
    child[k][s].status # "none" =>
      /\ child'[k][s].status # "none"
      /\ child'[k][s].items = child[k][s].items /\ child'[k][s].rev = child[k][s].rev
      /\ child[k][s].status \in Over => child'[k][s].status \in Over

(* The worker v owns no rollout it did not own, and the list of its        *)
(* children is as it was.                                                  *)
OwnedAsBefore(v) ==
  \A k \in Rollouts :
    rollout[k].status # "none" /\ rollout'[k].owner = v
      => rollout[k].owner = v /\ rollout'[k].children = rollout[k].children

(* No child succeeds in this step.                                         *)
NoneSucceeds ==
  \A k \in Rollouts, s \in Sources :
    child'[k][s].status = "succeeded" => child[k][s].status = "succeeded"

LEMMA PanelsStay ==
  ASSUME TypeInv, UNCHANGED ent
  PROVE  PanelsOnward
<1>1. \A i \in Items, s \in Sources : ent[i][s].rev \in Nat
  BY Bounds DEF TypeInv, Tables, EntType
<1>. QED
  BY <1>1 DEF PanelsOnward

LEMMA ChildrenStay ==
  ASSUME UNCHANGED child
  PROVE  ChildrenOnward /\ NoneSucceeds
  BY DEF ChildrenOnward, NoneSucceeds

LEMMA PanelPut ==
  ASSUME TypeInv, NEW i \in Items, NEW s \in Sources, NEW e \in EntType,
         ent' = [ent EXCEPT ![i][s] = e], e.state # "none",
         ent[i][s].state # "none" => e.rev >= ent[i][s].rev
  PROVE  PanelsOnward
<1>1. \A j \in Items, q \in Sources : ent[j][q].rev \in Nat
  BY Bounds DEF TypeInv, Tables, EntType
<1>2. ent'[i][s] = e
  BY EntPut
<1>3. \A j \in Items, q \in Sources : j # i \/ q # s => ent'[j][q] = ent[j][q]
  BY EntPut
<1>. QED
  BY <1>1, <1>2, <1>3 DEF PanelsOnward

LEMMA LandedStays ==
  ASSUME TypeInv, TypeInv', PanelsOnward, NEW i \in Items, NEW s \in Sources, NEW c, NEW d,
         c.rev \in Nat, d.rev = c.rev, Landed(ent, c, i, s)
  PROVE  Landed(ent', d, i, s)
<1>1. ent[i][s].rev \in Nat /\ ent'[i][s].rev \in Nat
  BY Bounds DEF TypeInv, Tables, EntType
<1>. QED
  BY <1>1 DEF Landed, PanelsOnward

LEMMA ChildNat ==
  ASSUME TypeInv, NEW k \in Rollouts, NEW s \in Sources
  PROVE  child[k][s].rev \in Nat /\ child[k][s].items \subseteq Items
         /\ child[k][s].status \in {"none", "pending", "succeeded", "superseded"}
  BY Bounds DEF TypeInv, Tables, ChildType

LEMMA SettledKept ==
  ASSUME TypeInv, TypeInv', DoneInv, PanelsOnward, ChildrenOnward, NoneSucceeds
  PROVE  Settled(ent', child')
<1>. SUFFICES ASSUME NEW k \in Rollouts, NEW s \in Sources, child'[k][s].status = "succeeded",
                     NEW i \in child'[k][s].items
              PROVE  Landed(ent', child'[k][s], i, s)
  BY DEF Settled
<1>1. child[k][s].status = "succeeded"
  BY DEF NoneSucceeds
<1>2. child'[k][s].items = child[k][s].items /\ child'[k][s].rev = child[k][s].rev
  BY <1>1 DEF ChildrenOnward
<1>3. Landed(ent, child[k][s], i, s)
  BY <1>1, <1>2 DEF DoneInv, Settled
<1>. QED
  BY <1>2, <1>3, ChildNat, LandedStays

(* Another worker is not disturbed.                                        *)
LEMMA OtherWorker ==
  ASSUME TypeInv, TypeInv', DoneInv, PanelsOnward, ChildrenOnward,
         NEW v \in Workers, OwnedAsBefore(v)
  PROVE  /\ Trying(worker[v], ent', child')
         /\ Counted(v, worker[v], rollout', child')
<1>. DEFINE c == worker[v]
<1>0. /\ Staged(c, rollout, child)
      /\ c.pc # "idle" => c.rollout \in Rollouts /\ rollout[c.rollout].status # "none"
                          /\ rollout[c.rollout].children \subseteq Sources
  BY WorkerFacts DEF RolloutType
<1>1. Trying(c, ent', child')
  <2>. SUFFICES ASSUME c.pc \in {"fence", "call"}, c.ok,
                       NEW i \in child'[c.rollout][c.source].items \ c.tries
                PROVE  Landed(ent', child'[c.rollout][c.source], i, c.source)
    BY DEF Trying
  <2>1. /\ c.rollout \in Rollouts /\ c.source \in Sources
        /\ child[c.rollout][c.source].status # "none"
    BY <1>0 DEF Staged
  <2>2. /\ child'[c.rollout][c.source].items = child[c.rollout][c.source].items
        /\ child'[c.rollout][c.source].rev = child[c.rollout][c.source].rev
    BY <2>1 DEF ChildrenOnward
  <2>3. Landed(ent, child[c.rollout][c.source], i, c.source)
    BY <2>2 DEF DoneInv, Trying
  <2>. QED
    BY <2>1, <2>2, <2>3, ChildNat, LandedStays
<1>2. Counted(v, c, rollout', child')
  <2>. SUFFICES ASSUME c.pc = "run" \/ (c.pc \in {"fence", "call"} /\ ~c.alone), c.complete,
                       rollout'[c.rollout].owner = v, NEW s \in rollout'[c.rollout].children
                PROVE  s \in c.todo \/ child'[c.rollout][s].status \in Over
    BY DEF Counted
  <2>1. c.rollout \in Rollouts /\ rollout[c.rollout].status # "none"
        /\ rollout[c.rollout].children \subseteq Sources
    BY <1>0
  <2>2. rollout[c.rollout].owner = v /\ s \in rollout[c.rollout].children /\ s \in Sources
    BY <2>1 DEF OwnedAsBefore
  <2>3. s \in c.todo \/ child[c.rollout][s].status \in Over
    BY <2>2 DEF DoneInv, Counted
  <2>. QED
    BY <2>1, <2>2, <2>3 DEF ChildrenOnward, Over
<1>. QED
  BY <1>1, <1>2

LEMMA DoneQuiet ==
  ASSUME TypeInv, TypeInv', DoneInv, PanelsOnward, ChildrenOnward, NoneSucceeds,
         UNCHANGED worker, \A v \in Workers : OwnedAsBefore(v)
  PROVE  DoneInv'
  BY SettledKept, OtherWorker DEF DoneInv

LEMMA DoneWorker ==
  ASSUME TypeInv, TypeInv', DoneInv, PanelsOnward, ChildrenOnward, Settled(ent', child'),
         NEW w \in Workers, NEW c, worker' = [worker EXCEPT ![w] = c],
         \A v \in Workers \ {w} : OwnedAsBefore(v),
         Trying(c, ent', child'), Counted(w, c, rollout', child')
  PROVE  DoneInv'
<1>1. ASSUME NEW v \in Workers
      PROVE  Trying(worker'[v], ent', child') /\ Counted(v, worker'[v], rollout', child')
  <2>1. CASE v = w
    BY <2>1 DEF TypeInv
  <2>2. CASE v # w
    <3>1. worker'[v] = worker[v]
      BY <2>2 DEF TypeInv
    <3>2. OwnedAsBefore(v)
      BY <2>2
    <3>. QED
      BY <3>1, <3>2, OtherWorker
  <2>. QED
    BY <2>1, <2>2
<1>. QED
  BY <1>1 DEF DoneInv

LEMMA Passive ==
  ASSUME NEW c, c.pc \notin {"run", "fence", "call"}, NEW w, NEW e, NEW r, NEW h
  PROVE  Trying(c, e, h) /\ Counted(w, c, r, h)
  BY DEF Trying, Counted

LEMMA OwnersStay ==
  ASSUME UNCHANGED rollout
  PROVE  \A v \in Workers : OwnedAsBefore(v)
  BY DEF OwnedAsBefore

-----------------------------------------------------------------------------
(* What landed stays: the sources.                                         *)

LEMMA DeliverDone ==
  ASSUME TypeInv, TypeInv', DoneInv, NEW s \in Sources, NEW i \in Items, Deliver(s, i)
  PROVE  DoneInv'
<1>1. op[s].rev \in Revisions /\ op[s].rev \in Nat /\ ent[i][s].rev \in Nat
  BY Bounds DEF TypeInv, Tables, OpType, EntType
<1>2. PanelsOnward
  <2>1. CASE /\ Accepts(i, s, op[s].rev)
             /\ ent' = [ent EXCEPT ![i][s] = [state |-> "live", rev |-> op[s].rev]]
    <3>. DEFINE e == [state |-> "live", rev |-> op[s].rev]
    <3>1. e \in EntType /\ e.state # "none" /\ e.rev = op[s].rev
      BY <1>1, EntForms
    <3>2. ent[i][s].state # "none" => op[s].rev >= ent[i][s].rev
      BY <1>1, <2>1 DEF Accepts
    <3>. QED
      BY <2>1, <3>1, <3>2, PanelPut
  <2>2. CASE ent[i][s].rev <= op[s].rev /\ ent' = [ent EXCEPT ![i][s] = Barred(i, s, op[s].rev)]
    <3>1. Barred(i, s, op[s].rev) \in EntType
      BY <1>1, EntForms
    <3>2. Barred(i, s, op[s].rev).state # "none" /\ Barred(i, s, op[s].rev).rev = op[s].rev
      BY DEF Barred
    <3>3. op[s].rev >= ent[i][s].rev
      BY <1>1, <2>2
    <3>. QED
      BY <2>2, <3>1, <3>2, <3>3, PanelPut
  <2>. QED
    BY <2>1, <2>2 DEF Deliver
<1>. QED
  BY <1>2, ChildrenStay, OwnersStay, DoneQuiet DEF Deliver

LEMMA RevokeTariffDone ==
  ASSUME TypeInv, TypeInv', DoneInv, RevokeTariff
  PROVE  DoneInv'
<1>1. ASSUME NEW k \in Rollouts, NEW s \in Sources
      PROVE  /\ child[k][s].status # "none" =>
                  /\ child'[k][s].status = "superseded"
                  /\ child'[k][s].items = child[k][s].items /\ child'[k][s].rev = child[k][s].rev
             /\ child[k][s].status = "none" => child'[k][s] = child[k][s]
  <2>1. child[k][s] \in ChildType /\ child'[k][s] = Superseded(child[k][s])
    BY DEF TypeInv, Tables, RevokeTariff
  <2>. QED
    BY <2>1 DEF Superseded, ChildType
<1>2. ChildrenOnward /\ NoneSucceeds
  BY <1>1 DEF ChildrenOnward, NoneSucceeds, Over
<1>. QED
  BY <1>2, PanelsStay, OwnersStay, DoneQuiet DEF RevokeTariff

LEMMA RemoveAtDone ==
  ASSUME TypeInv, TypeInv', DoneInv, NEW i \in Items, RemoveAt(i)
  PROVE  DoneInv'
<1>1. ASSUME NEW j \in Items, NEW s \in Sources, ent[j][s].state # "none"
      PROVE  ent'[j][s].state # "none" /\ ent'[j][s].rev >= ent[j][s].rev
  <2>1. ent[j][s].rev \in Nat /\ removal.covers[s] \in Nat
    BY Bounds DEF TypeInv, Tables, EntType, RemovalType
  <2>2. ent'[j][s] = ent[j][s] \/ /\ removal.covers[s] >= ent[j][s].rev
                                  /\ ent'[j][s] = Barred(i, s, removal.covers[s])
    BY DEF RemoveAt, TypeInv, Tables
  <2>3. Barred(i, s, removal.covers[s]).state # "none"
        /\ Barred(i, s, removal.covers[s]).rev = removal.covers[s]
    BY DEF Barred
  <2>4. CASE ent'[j][s] = ent[j][s]
    BY <1>1, <2>1, <2>4
  <2>5. CASE removal.covers[s] >= ent[j][s].rev /\ ent'[j][s] = Barred(i, s, removal.covers[s])
    BY <2>3, <2>5
  <2>. QED
    BY <2>2, <2>4, <2>5
<1>2. PanelsOnward
  BY <1>1 DEF PanelsOnward
<1>. QED
  BY <1>2, ChildrenStay, OwnersStay, DoneQuiet DEF RemoveAt

LEMMA UpdateTariffDone ==
  ASSUME TypeInv, TypeInv', DoneInv, NEW items \in SUBSET Items, UpdateTariff(items)
  PROVE  DoneInv'
<1>1. PICK k \in Rollouts :
        /\ rollout[k].status = "none"
        /\ \A j \in Rollouts \ {k} : rollout'[j] = rollout[j]
  <2>1. \A k \in Rollouts : k >= k
    BY Bounds DEF Rollouts
  <2>. QED
    BY <2>1 DEF UpdateTariff, TypeInv, Tables
<1>2. \A v \in Workers : OwnedAsBefore(v)
  BY <1>1 DEF OwnedAsBefore
<1>. QED
  BY <1>2, PanelsStay, ChildrenStay, DoneQuiet DEF UpdateTariff

LEMMA LeaseExpiresDone ==
  ASSUME TypeInv, TypeInv', DoneInv, NEW k \in Rollouts, LeaseExpires(k)
  PROVE  DoneInv'
<1>1. /\ rollout'[k].owner = "none"
      /\ \A j \in Rollouts \ {k} : rollout'[j] = rollout[j]
  BY DEF LeaseExpires, TypeInv, Tables, RolloutType
<1>2. \A v \in Workers : OwnedAsBefore(v)
  BY <1>1, RolloutAssumption DEF OwnedAsBefore
<1>. QED
  BY <1>2, PanelsStay, ChildrenStay, DoneQuiet DEF LeaseExpires

-----------------------------------------------------------------------------
(* What landed stays: the workers.                                         *)

(* A step that only changes the worker.                                    *)
LEMMA ReadDone ==
  ASSUME TypeInv, TypeInv', DoneInv, UNCHANGED <<ent, rollout, child>>,
         NEW w \in Workers, NEW c, worker' = [worker EXCEPT ![w] = c],
         Trying(c, ent, child), Counted(w, c, rollout, child)
  PROVE  DoneInv'
<1>1. PanelsOnward /\ ChildrenOnward /\ NoneSucceeds
  BY PanelsStay, ChildrenStay
<1>2. Settled(ent', child')
  BY <1>1, SettledKept
<1>. QED
  BY <1>1, <1>2, OwnersStay, DoneWorker

LEMMA FailDone ==
  ASSUME TypeInv, TypeInv', DoneInv, NEW w \in Workers, worker[w].pc # "idle", Fail(w),
         UNCHANGED ent, ChildrenOnward, NoneSucceeds
  PROVE  DoneInv'
<1>1. \A v \in Workers : OwnedAsBefore(v)
  <2>. DEFINE k == worker[w].rollout
  <2>1. k \in Rollouts
    BY WorkerFacts
  <2>2. CASE rollout' = [rollout EXCEPT ![k].status = "pending", ![k].owner = "none"]
    <3>1. rollout'[k].owner = "none" /\ \A j \in Rollouts \ {k} : rollout'[j] = rollout[j]
      BY <2>1, <2>2 DEF TypeInv, Tables, RolloutType
    <3>. QED
      BY <3>1, RolloutAssumption DEF OwnedAsBefore
  <2>3. CASE UNCHANGED rollout
    BY <2>3, OwnersStay
  <2>. QED
    BY <2>2, <2>3 DEF Fail
<1>2. worker' = [worker EXCEPT ![w] = Idle]
  BY DEF Fail
<1>3. Idle.pc \notin {"run", "fence", "call"}
  BY Fields
<1>4. PanelsOnward
  BY PanelsStay
<1>5. Settled(ent', child')
  BY <1>4, SettledKept
<1>. QED
  BY <1>1, <1>2, <1>3, <1>4, <1>5, Passive, DoneWorker

LEMMA TakeDone ==
  ASSUME TypeInv, TypeInv', DoneInv, NEW w \in Workers,
         \/ \E k \in Rollouts : Take(w, k)
         \/ Crash(w)
  PROVE  DoneInv'
<1>1. \A k : [Idle EXCEPT !.pc = "claim", !.rollout = k].pc = "claim" /\ Idle.pc = "idle"
  BY DEF Idle
<1>. QED
  BY <1>1, Passive, ReadDone DEF Take, Crash

LEMMA ClaimDone ==
  ASSUME TypeInv, TypeInv', DoneInv, NEW w \in Workers, Claim(w)
  PROVE  DoneInv'
<1>. DEFINE k == worker[w].rollout
            c == [worker[w] EXCEPT !.pc = "collect"]
<1>1. k \in Rollouts /\ rollout[k] \in RolloutType /\ worker[w] \in WorkerType
  BY WorkerFacts DEF Claim
<1>2. CASE /\ rollout' = [rollout EXCEPT ![k].owner = w]
           /\ worker' = [worker EXCEPT ![w].pc = "collect"]
  <2>1. c.pc = "collect" /\ worker' = [worker EXCEPT ![w] = c]
    BY <1>1, <1>2, Kept
  <2>2. /\ rollout'[k].owner = w
        /\ \A j \in Rollouts \ {k} : rollout'[j] = rollout[j]
    BY <1>1, <1>2 DEF TypeInv, Tables, RolloutType
  <2>. HIDE DEF c
  <2>3. \A v \in Workers \ {w} : OwnedAsBefore(v)
    BY <2>2 DEF OwnedAsBefore
  <2>4. PanelsOnward /\ ChildrenOnward /\ NoneSucceeds
    BY PanelsStay, ChildrenStay DEF Claim
  <2>5. Settled(ent', child')
    BY <2>4, SettledKept
  <2>6. Trying(c, ent', child') /\ Counted(w, c, rollout', child')
    BY <2>1, Passive
  <2>. QED
    BY <2>1, <2>3, <2>4, <2>5, <2>6, DoneWorker
<1>3. CASE worker' = [worker EXCEPT ![w] = Idle] /\ UNCHANGED rollout
  BY <1>3, Fields, Passive, ReadDone DEF Claim
<1>. QED
  BY <1>2, <1>3 DEF Claim

LEMMA CollectDone ==
  ASSUME TypeInv, TypeInv', DoneInv, NEW w \in Workers, Collect(w)
  PROVE  DoneInv'
<1>. DEFINE k == worker[w].rollout
<1>1. worker[w] \in WorkerType
  BY WorkerFacts
<1>2. ASSUME NEW b, NEW m,
             worker' = [worker EXCEPT ![w].pc = "find", ![w].complete = b, ![w].missing = m]
      PROVE  DoneInv'
  <2>. DEFINE c == [worker[w] EXCEPT !.pc = "find", !.complete = b, !.missing = m]
  <2>1. c.pc = "find"
    BY <1>1, Kept
  <2>2. worker' = [worker EXCEPT ![w] = c]
    BY <1>2 DEF TypeInv
  <2>. HIDE DEF c
  <2>. QED
    BY <2>1, <2>2, Passive, ReadDone DEF Collect
<1>3. ASSUME NEW b, worker' = [worker EXCEPT ![w] = Running(k, rollout[k].children, b)]
      PROVE  DoneInv'
  <2>. DEFINE c == Running(k, rollout[k].children, b)
  <2>1. c.pc = "run" /\ c.rollout = k /\ c.todo = rollout[k].children
    BY Fields
  <2>. HIDE DEF c
  <2>2. Trying(c, ent, child) /\ Counted(w, c, rollout, child)
    BY <2>1 DEF Trying, Counted
  <2>. QED
    BY <1>3, <2>2, ReadDone DEF Collect, c
<1>. QED
  BY <1>2, <1>3 DEF Collect

LEMMA FindDone ==
  ASSUME TypeInv, TypeInv', DoneInv, NEW w \in Workers, Find(w)
  PROVE  DoneInv'
<1>1. CASE Fail(w)
  BY <1>1, ChildrenStay, FailDone DEF Find
<1>2. ASSUME NEW f, UNCHANGED rollout,
             worker' = [worker EXCEPT ![w].pc = "queue", ![w].todo = LiveSources, ![w].rev = f]
      PROVE  DoneInv'
  <2>. DEFINE c == [worker[w] EXCEPT !.pc = "queue", !.todo = LiveSources, !.rev = f]
  <2>1. c.pc = "queue"
    BY WorkerFacts, Kept
  <2>2. worker' = [worker EXCEPT ![w] = c]
    BY <1>2 DEF TypeInv
  <2>. HIDE DEF c
  <2>. QED
    BY <1>2, <2>1, <2>2, Passive, ReadDone DEF Find
<1>. QED
  BY <1>1, <1>2 DEF Find

LEMMA QueueChildDone ==
  ASSUME TypeInv, TypeInv', DoneInv, NEW w \in Workers, NEW s \in Sources, QueueChild(w, s)
  PROVE  DoneInv'
<1>. DEFINE k == worker[w].rollout
            cur == worker[w]
<1>0. /\ k \in Rollouts /\ rollout[k] \in RolloutType
      /\ cur \in WorkerType /\ cur.pc = "queue"
  BY WorkerFacts DEF QueueChild
<1>1. ChildrenOnward /\ NoneSucceeds
  <2>1. CASE /\ child[k][s].status = "none"
             /\ child' = [child EXCEPT ![k][s] =
                           [rev |-> cur.rev[s], status |-> "pending",
                            items |-> cur.missing, taken |-> {}]]
    <3>1. /\ child'[k][s].status = "pending"
          /\ \A j \in Rollouts, q \in Sources : j # k \/ q # s => child'[j][q] = child[j][q]
      BY <1>0, <2>1 DEF TypeInv, Tables
    <3>. QED
      BY <2>1, <3>1 DEF ChildrenOnward, NoneSucceeds
  <2>2. CASE UNCHANGED child
    BY <2>2, ChildrenStay
  <2>. QED
    BY <2>1, <2>2 DEF QueueChild
<1>2. CASE Fail(w)
  BY <1>0, <1>1, <1>2, FailDone DEF QueueChild
<1>3. ASSUME NEW c, worker' = [worker EXCEPT ![w] = c],
             rollout' = [rollout EXCEPT ![k].children = @ \cup {s}],
             \/ c.pc = "queue"
             \/ c.pc = "run" /\ c.rollout = k /\ c.todo = rollout[k].children \cup {s}
      PROVE  DoneInv'
  <2>1. /\ rollout'[k].children = rollout[k].children \cup {s}
        /\ rollout'[k].owner = rollout[k].owner
        /\ \A j \in Rollouts \ {k} : rollout'[j] = rollout[j]
    BY <1>0, <1>3 DEF TypeInv, Tables, RolloutType
  <2>2. rollout[k].owner = w \/ DoneInv'
    BY <1>2 DEF QueueChild, Holds
  <2>3. CASE rollout[k].owner = w
    <3>1. \A v \in Workers \ {w} : OwnedAsBefore(v)
      BY <2>1, <2>3 DEF OwnedAsBefore
    <3>2. PanelsOnward
      BY PanelsStay DEF QueueChild
    <3>3. Settled(ent', child')
      BY <1>1, <3>2, SettledKept
    <3>4. Trying(c, ent', child') /\ Counted(w, c, rollout', child')
      BY <1>3, <2>1 DEF Trying, Counted
    <3>. QED
      BY <1>1, <1>3, <3>1, <3>2, <3>3, <3>4, DoneWorker
  <2>. QED
    BY <2>2, <2>3
<1>4. CASE /\ rollout' = [rollout EXCEPT ![k].children = @ \cup {s}]
           /\ worker' = [worker EXCEPT ![w] = Running(k, rollout[k].children \cup {s}, cur.complete)]
  <2>. DEFINE c == Running(k, rollout[k].children \cup {s}, cur.complete)
  <2>1. c.pc = "run" /\ c.rollout = k /\ c.todo = rollout[k].children \cup {s}
    BY Fields
  <2>2. worker' = [worker EXCEPT ![w] = c]
    BY <1>4
  <2>. HIDE DEF c
  <2>. QED
    BY <1>3, <1>4, <2>1, <2>2
<1>5. CASE /\ rollout' = [rollout EXCEPT ![k].children = @ \cup {s}]
           /\ worker' = [worker EXCEPT ![w] = [cur EXCEPT !.todo = @ \ {s}]]
  <2>. DEFINE c == [cur EXCEPT !.todo = cur.todo \ {s}]
  <2>1. c.pc = "queue"
    BY <1>0, Kept
  <2>2. worker' = [worker EXCEPT ![w] = c]
    BY <1>5
  <2>. HIDE DEF c
  <2>. QED
    BY <1>3, <1>5, <2>1, <2>2
<1>. QED
  BY <1>2, <1>4, <1>5 DEF QueueChild

LEMMA RunChildDone ==
  ASSUME TypeInv, TypeInv', DoneInv, NEW w \in Workers, NEW s \in Sources, RunChild(w, s)
  PROVE  DoneInv'
<1>. DEFINE k == worker[w].rollout
            cur == worker[w]
<1>0. /\ cur \in WorkerType /\ cur.pc = "run" /\ Counted(w, cur, rollout, child)
  BY WorkerFacts DEF RunChild, DoneInv
<1>1. CASE Fail(w)
  BY <1>0, <1>1, ChildrenStay, FailDone DEF RunChild
<1>2. CASE /\ UNCHANGED rollout /\ child[k][s].status \in Over
           /\ worker' = [worker EXCEPT ![w].todo = @ \ {s}]
  <2>. DEFINE c == [cur EXCEPT !.todo = cur.todo \ {s}]
  <2>1. /\ c.pc = "run" /\ c.rollout = k /\ c.todo = cur.todo \ {s} /\ c.alone = cur.alone
        /\ c.complete = cur.complete
    BY <1>0, Kept
  <2>2. worker' = [worker EXCEPT ![w] = c]
    BY <1>2 DEF TypeInv
  <2>. HIDE DEF c
  <2>3. Trying(c, ent, child) /\ Counted(w, c, rollout, child)
    BY <1>0, <1>2, <2>1 DEF Trying, Counted
  <2>. QED
    BY <1>2, <2>2, <2>3, ReadDone DEF RunChild
<1>3. CASE /\ UNCHANGED rollout
           /\ worker' = [worker EXCEPT ![w].pc = "fence", ![w].source = s, ![w].tries = child[k][s].items]
  <2>. DEFINE c == [cur EXCEPT !.pc = "fence", !.source = s, !.tries = child[k][s].items]
  <2>1. /\ c.pc = "fence" /\ c.rollout = k /\ c.todo = cur.todo /\ c.source = s
        /\ c.tries = child[k][s].items /\ c.alone = cur.alone /\ c.complete = cur.complete
    BY <1>0, Kept
  <2>2. worker' = [worker EXCEPT ![w] = c]
    BY <1>3 DEF TypeInv
  <2>. HIDE DEF c
  <2>3. Trying(c, ent, child)
    BY <2>1 DEF Trying
  <2>4. Counted(w, c, rollout, child)
    BY <1>0, <2>1 DEF Counted
  <2>. QED
    BY <1>3, <2>2, <2>3, <2>4, ReadDone DEF RunChild
<1>. QED
  BY <1>1, <1>2, <1>3 DEF RunChild, Over

LEMMA RetryChildDone ==
  ASSUME TypeInv, TypeInv', DoneInv, NEW w \in Workers, NEW k \in Rollouts, NEW s \in Sources,
         RetryChild(w, k, s)
  PROVE  DoneInv'
<1>. DEFINE c == [Idle EXCEPT !.pc = "fence", !.rollout = k, !.source = s, !.alone = TRUE,
                              !.tries = child[k][s].items]
<1>1. c.pc = "fence" /\ c.rollout = k /\ c.source = s /\ c.alone /\ c.tries = child[k][s].items
  BY Fields
<1>2. worker' = [worker EXCEPT ![w] = c]
  BY DEF RetryChild
<1>. HIDE DEF c
<1>3. Trying(c, ent, child) /\ Counted(w, c, rollout, child)
  BY <1>1 DEF Trying, Counted
<1>. QED
  BY <1>2, <1>3, ReadDone DEF RetryChild

(* A worker that goes on after a child leaves one that is over.            *)
LEMMA ReturnDone ==
  ASSUME TypeInv, TypeInv', DoneInv, NEW w \in Workers, worker[w].pc = "fence", NEW done \in BOOLEAN,
         Return(w, done), UNCHANGED <<ent, rollout>>, ChildrenOnward, Settled(ent', child'),
         done => child'[worker[w].rollout][worker[w].source].status \in Over
  PROVE  DoneInv'
<1>. DEFINE cur == worker[w]
            k == worker[w].rollout
<1>0. /\ cur \in WorkerType /\ k \in Rollouts /\ rollout[k].children \subseteq Sources
      /\ Counted(w, cur, rollout, child) /\ cur.complete \in BOOLEAN
  BY WorkerFacts DEF DoneInv, RolloutType
<1>1. PICK c \in WorkerType :
           /\ worker' = [worker EXCEPT ![w] = c]
           /\ \/ c = Idle
              \/ /\ ~cur.alone
                 /\ c.pc = "run" /\ c.rollout = k /\ ~c.alone
                 /\ c.todo = cur.todo \ {cur.source}
                 /\ c.complete = (cur.complete /\ done)
  BY ReturnForm
<1>2. Trying(c, ent', child')
  BY <1>1, Fields DEF Trying
<1>3. Counted(w, c, rollout', child')
  <2>1. CASE c = Idle
    BY <2>1, Fields DEF Counted
  <2>2. CASE c # Idle
    <3>. SUFFICES ASSUME c.complete, rollout[k].owner = w, NEW s \in rollout[k].children
                  PROVE  s \in c.todo \/ child'[k][s].status \in Over
      BY <1>1, <2>2 DEF Counted
    <3>1. cur.complete /\ done
      BY <1>1, <2>2
    <3>2. s \in cur.todo \/ child[k][s].status \in Over
      BY <1>0, <1>1, <2>2, <3>1 DEF Counted
    <3>3. s \in Sources
      BY <1>0
    <3>4. CASE child[k][s].status \in Over
      BY <1>0, <3>3, <3>4 DEF ChildrenOnward, Over
    <3>5. CASE s \in cur.todo
      <4>1. s \in cur.todo \ {cur.source} \/ s = cur.source
        BY <3>5
      <4>. QED
        BY <1>1, <2>2, <3>1, <4>1
    <3>. QED
      BY <3>2, <3>4, <3>5
  <2>. QED
    BY <2>1, <2>2
<1>4. PanelsOnward /\ \A v \in Workers : OwnedAsBefore(v)
  BY PanelsStay, OwnersStay
<1>. QED
  BY <1>1, <1>2, <1>3, <1>4, DoneWorker

LEMMA FenceDone ==
  ASSUME TypeInv, TypeInv', DoneInv, NEW w \in Workers, Fence(w)
  PROVE  DoneInv'
<1>. DEFINE k == worker[w].rollout
            s == worker[w].source
            cur == worker[w]
<1>0. /\ k \in Rollouts /\ s \in Sources /\ cur \in WorkerType /\ cur.pc = "fence"
      /\ rollout[k].status # "none" /\ child[k][s].status # "none"
      /\ Trying(cur, ent, child) /\ Counted(w, cur, rollout, child)
  BY WorkerFacts DEF Fence, Staged, DoneInv
<1>1. PanelsOnward
  BY PanelsStay DEF Fence
<1>2. ASSUME NEW st \in {"succeeded", "superseded"}, child' = [child EXCEPT ![k][s].status = st],
             UNCHANGED rollout, Return(w, TRUE),
             st = "succeeded" => cur.tries = {} /\ cur.ok
      PROVE  DoneInv'
  <2>1. /\ child'[k][s].status = st
        /\ child'[k][s].items = child[k][s].items /\ child'[k][s].rev = child[k][s].rev
        /\ \A j \in Rollouts, q \in Sources : j # k \/ q # s => child'[j][q] = child[j][q]
    <3>. HIDE DEF k, s, cur
    <3>1. /\ k \in Rollouts /\ s \in Sources /\ UNCHANGED rollout
          /\ rollout[k].status # "none" /\ child[k][s].status # "none"
          /\ child' = [child EXCEPT ![k][s].status = st]
          /\ st \in {"succeeded", "superseded"}
      BY <1>0, <1>2
    <3>2. child \in [Rollouts -> [Sources -> ChildType]] /\ child[k][s] \in ChildType
      BY <3>1 DEF TypeInv, Tables
    <3>. QED
      BY <3>1, <3>2 DEF ChildType
  <2>2. ChildrenOnward
    BY <1>0, <2>1 DEF ChildrenOnward, Over
  <2>3. ASSUME st = "succeeded", NEW i \in child'[k][s].items
        PROVE  Landed(ent', child'[k][s], i, s)
    <3>1. Landed(ent, child[k][s], i, s)
      BY <1>0, <1>2, <2>1, <2>3 DEF Trying
    <3>2. i \in Items
      BY <1>0, <2>1, ChildNat
    <3>. QED
      BY <1>0, <1>1, <2>1, <3>1, <3>2, ChildNat, LandedStays
  <2>4. ASSUME NEW j \in Rollouts, NEW q \in Sources, j # k \/ q # s,
               child'[j][q].status = "succeeded", NEW i \in child'[j][q].items
        PROVE  Landed(ent', child'[j][q], i, q)
    <3>1. child'[j][q] = child[j][q]
      BY <2>1, <2>4
    <3>2. Landed(ent, child[j][q], i, q)
      BY <2>4, <3>1 DEF DoneInv, Settled
    <3>3. i \in Items
      BY <3>1, ChildNat
    <3>. QED
      BY <1>1, <3>1, <3>2, <3>3, ChildNat, LandedStays
  <2>5. Settled(ent', child')
    BY <2>1, <2>3, <2>4 DEF Settled
  <2>6. child'[k][s].status \in Over
    BY <2>1 DEF Over
  <2>. QED
    BY <1>0, <1>2, <2>2, <2>5, <2>6, ReturnDone DEF Fence
<1>3. CASE worker' = [worker EXCEPT ![w].pc = "call"] /\ UNCHANGED <<child, rollout>>
  <2>. DEFINE c == [cur EXCEPT !.pc = "call"]
  <2>1. /\ c.pc = "call" /\ c.rollout = k /\ c.todo = cur.todo /\ c.source = s /\ c.tries = cur.tries
        /\ c.alone = cur.alone /\ c.ok = cur.ok /\ c.complete = cur.complete
    BY <1>0, Kept
  <2>2. worker' = [worker EXCEPT ![w] = c]
    BY <1>3 DEF TypeInv
  <2>. HIDE DEF c
  <2>3. Trying(c, ent, child)
    BY <1>0, <2>1 DEF Trying
  <2>4. Counted(w, c, rollout, child)
    BY <1>0, <2>1 DEF Counted
  <2>. QED
    BY <1>3, <2>2, <2>3, <2>4, ReadDone DEF Fence
<1>4. CASE Return(w, FALSE) /\ UNCHANGED <<child, rollout>>
  <2>1. ChildrenOnward /\ NoneSucceeds
    BY <1>4, ChildrenStay
  <2>2. Settled(ent', child')
    BY <1>1, <2>1, SettledKept
  <2>. QED
    BY <1>0, <1>4, <2>1, <2>2, ReturnDone DEF Fence
<1>5. CASE Fail(w) /\ UNCHANGED child
  BY <1>0, <1>5, ChildrenStay, FailDone DEF Fence
<1>. QED
  BY <1>2, <1>3, <1>4, <1>5 DEF Fence

LEMMA CallDone ==
  ASSUME TypeInv, TypeInv', DoneInv, NEW w \in Workers, NEW i \in Items, Call(w, i)
  PROVE  DoneInv'
<1>. DEFINE k == worker[w].rollout
            s == worker[w].source
            cur == worker[w]
<1>0. /\ k \in Rollouts /\ s \in Sources /\ child[k][s].status # "none"
      /\ rollout[k].status # "none" /\ i \in child[k][s].items
      /\ cur.pc = "call" /\ cur.ok \in BOOLEAN
      /\ Trying(cur, ent, child) /\ Counted(w, cur, rollout, child)
      /\ UNCHANGED rollout
  BY CallForm, WorkerFacts DEF Call, DoneInv
<1>1. child[k][s].rev \in Revisions /\ child[k][s].rev \in Nat /\ ent[i][s].rev \in Nat
  BY <1>0, Bounds DEF TypeInv, Tables, ChildType, EntType
<1>2. /\ PanelsOnward
      /\ \A j \in Rollouts, q \in Sources :
           /\ child'[j][q].items = child[j][q].items /\ child'[j][q].rev = child[j][q].rev
           /\ child'[j][q].status = child[j][q].status
  <2>1. CASE UNCHANGED <<ent, child>>
    BY <2>1, PanelsStay
  <2>2. CASE /\ Accepts(i, s, child[k][s].rev)
             /\ ent' = [ent EXCEPT ![i][s] = Given(k, s)]
             /\ child' = [child EXCEPT ![k][s].taken = @ \cup {i}]
    <3>1. Given(k, s) \in EntType /\ Given(k, s).state # "none" /\ Given(k, s).rev = child[k][s].rev
      BY <1>1, EntForms DEF Given
    <3>2. ent[i][s].state # "none" => Given(k, s).rev >= ent[i][s].rev
      BY <1>1, <2>2, <3>1 DEF Accepts
    <3>3. PanelsOnward
      BY <1>0, <2>2, <3>1, <3>2, PanelPut
    <3>. QED
      BY <1>0, <2>2, <3>3, TakenChild
  <2>. QED
    BY <2>1, <2>2, CallForm
<1>3. ChildrenOnward /\ NoneSucceeds
  BY <1>2 DEF ChildrenOnward, NoneSucceeds
<1>4. PICK b \in BOOLEAN : Tried(w, i, b) /\ (b => Landed(ent', child[k][s], i, s))
  <2>1. CASE ent' = [ent EXCEPT ![i][s] = Given(k, s)] /\ \E b \in BOOLEAN : Tried(w, i, b)
    <3>1. ent'[i][s] = Given(k, s)
      BY <1>0, <2>1 DEF TypeInv, Tables
    <3>2. ent'[i][s].state = "live" /\ ent'[i][s].rev = child[k][s].rev
      BY <3>1 DEF Given
    <3>3. Landed(ent', child[k][s], i, s)
      BY <1>1, <3>2 DEF Landed
    <3>. QED
      BY <2>1, <3>3
  <2>2. CASE ent[i][s] = Given(k, s) /\ UNCHANGED ent /\ Tried(w, i, TRUE)
    <3>1. ent'[i][s].state = "live" /\ ent'[i][s].rev = child[k][s].rev
      BY <2>2 DEF Given
    <3>2. Landed(ent', child[k][s], i, s)
      BY <1>1, <3>1 DEF Landed
    <3>. QED
      BY <2>2, <3>2
  <2>3. CASE Tried(w, i, FALSE)
    BY <2>3
  <2>. QED
    BY <2>1, <2>2, <2>3 DEF Call
<1>5. PICK c \in WorkerType :
           /\ worker' = [worker EXCEPT ![w] = c]
           /\ c.pc = "fence" /\ c.rollout = k /\ c.todo = cur.todo
           /\ c.source = s /\ c.tries = cur.tries \ {i}
           /\ c.alone = cur.alone /\ c.ok = (cur.ok /\ b)
           /\ c.complete = cur.complete
  BY <1>0, <1>4, TriedForm
<1>6. Trying(c, ent', child')
  <2>. SUFFICES ASSUME c.ok, NEW j \in child'[k][s].items \ c.tries
                PROVE  Landed(ent', child'[k][s], j, s)
    BY <1>5 DEF Trying
  <2>1. cur.ok /\ b
    BY <1>5
  <2>2. child'[k][s].items = child[k][s].items /\ child'[k][s].rev = child[k][s].rev
    BY <1>0, <1>2
  <2>3. CASE j = i
    BY <1>4, <2>1, <2>2, <2>3 DEF Landed
  <2>4. CASE j # i
    <3>1. j \in child[k][s].items \ cur.tries /\ j \in Items
      BY <1>0, <1>5, <2>2, <2>4, ChildNat
    <3>2. Landed(ent, child[k][s], j, s)
      BY <1>0, <2>1, <3>1 DEF Trying
    <3>. QED
      BY <1>0, <1>1, <1>2, <2>2, <3>1, <3>2, LandedStays
  <2>. QED
    BY <2>3, <2>4
<1>7. Counted(w, c, rollout', child')
  <2>1. rollout[k].children \subseteq Sources
    BY <1>0 DEF TypeInv, Tables, RolloutType
  <2>. QED
    BY <1>0, <1>2, <1>5, <2>1 DEF Counted
<1>8. Settled(ent', child') /\ \A v \in Workers : OwnedAsBefore(v)
  BY <1>0, <1>2, <1>3, SettledKept, OwnersStay
<1>. QED
  BY <1>2, <1>3, <1>5, <1>6, <1>7, <1>8, DoneWorker

LEMMA FinishDone ==
  ASSUME TypeInv, TypeInv', DoneInv, NEW w \in Workers, Finish(w)
  PROVE  DoneInv'
<1>. DEFINE k == worker[w].rollout
<1>0. k \in Rollouts
  BY WorkerFacts DEF Finish
<1>1. CASE Fail(w)
  BY <1>1, ChildrenStay, FailDone DEF Finish
<1>2. ASSUME NEW st,
             rollout' = [rollout EXCEPT ![k].status = st, ![k].owner = "none"],
             worker' = [worker EXCEPT ![w] = Idle]
      PROVE  DoneInv'
  <2>1. rollout'[k].owner = "none" /\ \A j \in Rollouts \ {k} : rollout'[j] = rollout[j]
    BY <1>0, <1>2 DEF TypeInv, Tables, RolloutType
  <2>2. \A v \in Workers : OwnedAsBefore(v)
    BY <2>1, RolloutAssumption DEF OwnedAsBefore
  <2>3. PanelsOnward /\ ChildrenOnward /\ NoneSucceeds
    BY PanelsStay, ChildrenStay DEF Finish
  <2>4. Settled(ent', child')
    BY <2>3, SettledKept
  <2>. QED
    BY <1>2, <2>2, <2>3, <2>4, Fields, Passive, DoneWorker
<1>. QED
  BY <1>1, <1>2 DEF Finish

LEMMA DoneInvInit == Init => DoneInv
<1>. SUFFICES ASSUME Init PROVE DoneInv
  OBVIOUS
<1>1. /\ \A k \in Rollouts, s \in Sources : child[k][s].status = "none"
      /\ \A w \in Workers : worker[w] = Idle
  BY DEF Init, NoChild
<1>2. Settled(ent, child)
  BY <1>1 DEF Settled
<1>3. Idle.pc \notin {"run", "fence", "call"}
  BY Fields
<1>. QED
  BY <1>1, <1>2, <1>3, Passive DEF DoneInv

LEMMA DoneInvNext == TypeInv /\ TypeInv' /\ DoneInv /\ [Next]_vars => DoneInv'
<1>. SUFFICES ASSUME TypeInv, TypeInv', DoneInv, [Next]_vars PROVE DoneInv'
  OBVIOUS
<1>1. ASSUME UNCHANGED <<ent, rollout, child, worker>> PROVE DoneInv'
  BY <1>1, PanelsStay, ChildrenStay, OwnersStay, DoneQuiet
<1>2. ASSUME NEW s \in Sources, Buy(s) \/ Give(s) \/ Refund(s) PROVE DoneInv'
  BY <1>1, <1>2 DEF Buy, Give, Refund, Queue
<1>3. CASE UNCHANGED vars
  BY <1>1, <1>3 DEF vars
<1>. QED
  BY <1>2, <1>3, DeliverDone, RevokeTariffDone, RemoveAtDone, UpdateTariffDone,
     LeaseExpiresDone, TakeDone, ClaimDone, CollectDone, FindDone, QueueChildDone,
     RunChildDone, RetryChildDone, FenceDone, CallDone, FinishDone DEF Next

(* Only the end of a run that counted no failure marks a rollout as done.  *)
LEMMA DoneByFinish ==
  ASSUME TypeInv, [Next]_vars, NEW k \in Rollouts,
         rollout[k].status # "succeeded", rollout'[k].status = "succeeded"
  PROVE  \E w \in Workers : Finish(w) /\ Holds(w) /\ Complete(w) /\ worker[w].rollout = k
<1>0. ASSUME UNCHANGED rollout PROVE FALSE
  BY <1>0
<1>1. ASSUME NEW w \in Workers, worker[w].pc # "idle", Fail(w) PROVE FALSE
  <2>1. worker[w].rollout \in Rollouts
    BY <1>1, WorkerFacts
  <2>. QED
    BY <1>0, <1>1, <2>1 DEF Fail, TypeInv, Tables, RolloutType
<1>2. ASSUME NEW items \in SUBSET Items, UpdateTariff(items) PROVE FALSE
  <2>1. PICK j \in Rollouts :
          rollout' = [rollout EXCEPT ![j] = [NoRollout EXCEPT !.status = "pending",
                        !.items = items, !.asked = items \cup tariff]]
    BY <1>2 DEF UpdateTariff
  <2>2. rollout'[j].status = "pending" /\ \A i \in Rollouts \ {j} : rollout'[i] = rollout[i]
    BY <2>1 DEF TypeInv, Tables, NoRollout
  <2>. QED
    BY <2>2
<1>3. ASSUME NEW j \in Rollouts, LeaseExpires(j) PROVE FALSE
  BY <1>3 DEF LeaseExpires, TypeInv, Tables, RolloutType
<1>4. ASSUME NEW w \in Workers, Claim(w) PROVE FALSE
  <2>1. worker[w].rollout \in Rollouts
    BY <1>4, WorkerFacts DEF Claim
  <2>2. CASE rollout' = [rollout EXCEPT ![worker[w].rollout].owner = w]
    BY <2>1, <2>2 DEF TypeInv, Tables, RolloutType
  <2>. QED
    BY <1>0, <1>4, <2>2 DEF Claim
<1>5. ASSUME NEW w \in Workers, NEW s \in Sources, QueueChild(w, s) PROVE FALSE
  <2>1. worker[w].rollout \in Rollouts /\ worker[w].pc # "idle"
    BY <1>5, WorkerFacts DEF QueueChild
  <2>2. CASE rollout' = [rollout EXCEPT ![worker[w].rollout].children = @ \cup {s}]
    BY <2>1, <2>2 DEF TypeInv, Tables, RolloutType
  <2>. QED
    BY <1>1, <1>5, <2>1, <2>2 DEF QueueChild
<1>6. ASSUME NEW w \in Workers, Find(w) \/ Fence(w) PROVE FALSE
  BY <1>0, <1>1, <1>6 DEF Find, Fence
<1>7. ASSUME NEW w \in Workers, NEW s \in Sources, RunChild(w, s) PROVE FALSE
  BY <1>0, <1>1, <1>7 DEF RunChild
<1>8. ASSUME NEW w \in Workers, Finish(w)
      PROVE  Holds(w) /\ Complete(w) /\ worker[w].rollout = k
  <2>1. worker[w].rollout \in Rollouts /\ worker[w].pc # "idle"
    BY <1>8, WorkerFacts DEF Finish
  <2>2. Holds(w)
    BY <1>1, <1>8, <2>1 DEF Finish
  <2>3. rollout' = [rollout EXCEPT ![worker[w].rollout].status =
                                     IF Complete(w) THEN "succeeded" ELSE "pending",
                                   ![worker[w].rollout].owner = "none"]
    BY <1>8, <2>2 DEF Finish
  <2>. QED
    BY <2>1, <2>2, <2>3 DEF TypeInv, Tables, RolloutType
<1>9. ~UNCHANGED vars
  BY <1>0 DEF vars
<1>. QED
  BY <1>0, <1>2, <1>3, <1>4, <1>5, <1>6, <1>7, <1>8, <1>9
  DEF Next, Buy, Give, Refund, Queue, Deliver, RevokeTariff, RemoveAt, Take, Collect, Crash,
      RetryChild, Call

LEMMA DoneStep ==
  ASSUME TypeInv, DoneInv, [Next]_vars, NEW k \in Rollouts,
         rollout[k].status # "succeeded", rollout'[k].status = "succeeded",
         NEW s \in rollout[k].children, NEW i \in Items, i \in child[k][s].items
  PROVE  \/ ent[i][s].state # "none" /\ ent[i][s].rev >= child[k][s].rev
         \/ child[k][s].status = "superseded"
<1>1. PICK w \in Workers : Finish(w) /\ Holds(w) /\ Complete(w) /\ worker[w].rollout = k
  BY DoneByFinish
<1>2. s \in Sources
  BY DEF TypeInv, Tables, RolloutType
<1>3. child[k][s].status \in Over
  <2>1. worker[w].pc = "run" /\ worker[w].todo = {} /\ worker[w].complete
        /\ rollout[k].owner = w
    BY <1>1 DEF Finish, Complete, Holds
  <2>2. Counted(w, worker[w], rollout, child)
    BY DEF DoneInv
  <2>. QED
    BY <1>1, <2>1, <2>2 DEF Counted
<1>. QED
  BY <1>2, <1>3 DEF DoneInv, Settled, Landed, Over

(* A rollout that is marked as done reached every panel it asked, and the  *)
(* children it noted have their items or were superseded: whoever ran it,  *)
(* whatever was delivered, refunded or revoked meanwhile, and however often *)
(* its lease went to another worker.                                       *)
THEOREM DoneWasDone == Spec => DoneIsDone
<1>1. Init => DoneInv
  BY DoneInvInit
<1>2. TypeInv /\ TypeInv' /\ DoneInv /\ [Next]_vars => DoneInv'
  BY DoneInvNext
<1>3. TypeInv /\ DoneInv /\ [Next]_vars =>
        [\A k \in Rollouts :
           rollout[k].status # "succeeded" /\ rollout'[k].status = "succeeded"
             => \A s \in rollout[k].children, i \in Items :
                  i \in child[k][s].items =>
                    \/ ent[i][s].state # "none" /\ ent[i][s].rev >= child[k][s].rev
                    \/ child[k][s].status = "superseded"]_vars
  BY DoneStep
<1>. QED
  BY <1>1, <1>2, <1>3, Invariance, PTL DEF Spec, DoneIsDone

-----------------------------------------------------------------------------
(* What was taken from the user stays taken.                               *)

Shown(i, s) == ent[i][s].state = "live"

(* A worker is about to call the panel of item i for the source s.         *)
Called(s, i) ==
  \E w \in Workers : worker[w].pc = "call" /\ worker[w].source = s /\ i \in worker[w].tries

(* The revocation of the tariff covers the revision n of the source s.     *)
Covered(s, n) == removal.status # "none" /\ removal.covers[s] > 0 /\ n <= removal.covers[s]

(* Everything that is sent, or shows at a panel, is among the targets.     *)
Aimed ==
  \A s \in Sources :
    /\ op[s].items \subseteq targets[s]
    /\ \A k \in Rollouts : child[k][s].items \subseteq targets[s]
    /\ \A i \in Items : Shown(i, s) => i \in targets[s]

(* A payment is delivered with revision 0, by its operation and by every   *)
(* child; its refund has revision 1.                                       *)
FirstRevision ==
  \A s \in Payments :
    /\ op[s].kind = "revoke" => op[s].rev = 1
    /\ \A k \in Rollouts : child[k][s].rev = 0
    /\ \A w \in Workers : worker[w].pc = "queue" => worker[w].rev[s] = 0

(* A refund that has not reached a panel will; one that has bars the       *)
(* payment there; and elsewhere nothing shows, and no call is on its way.  *)
Cut ==
  \A s \in Payments, i \in Items :
    op[s].kind = "revoke" =>
      \/ op[s].status = "pending" /\ i \in op[s].items \ op[s].done
      \/ ent[i][s].state \in {"revoked", "barred"} /\ ent[i][s].rev >= 1
      \/ ~Shown(i, s) /\ ~Called(s, i)

(* What a source has delivered or will deliver is above the revocation.    *)
Fresh ==
  \A s \in Sources :
    /\ op[s].kind = "grant" /\ op[s].status \in {"pending", "succeeded"} => ~Covered(s, op[s].rev)
    /\ removal.status # "none" /\ removal.covers[s] > 0 => op[s].kind # "none"
    /\ s \in Grants /\ Covered(s, 0) => op[s].rev >= removal.covers[s]

Blank == \A i \in Items, s \in Sources : ent[i][s].state = "none" => ent[i][s].rev = 0

(* The panels the revocation has reached know it, or something newer.      *)
Reached ==
  /\ removal.done \subseteq removal.items
  /\ removal.status = "succeeded" => removal.done = removal.items
  /\ \A i \in removal.done, s \in Sources :
       Covered(s, 0) => ent[i][s].state # "none" /\ ent[i][s].rev >= removal.covers[s]

(* A child that the revocation covers, queued or about to be, is for items *)
(* the revocation goes to.                                                 *)
Within ==
  \A s \in Sources :
    /\ \A k \in Rollouts :
         child[k][s].status # "none" /\ Covered(s, child[k][s].rev)
           => child[k][s].items \subseteq removal.items
    /\ \A w \in Workers :
         worker[w].pc = "queue" /\ s \in worker[w].todo /\ Covered(s, worker[w].rev[s])
           => worker[w].missing \subseteq removal.items

(* What still shows of a covered source, the revocation has yet to reach.  *)
Left ==
  \A s \in Sources, i \in Items :
    Shown(i, s) /\ Covered(s, ent[i][s].rev) => i \in removal.items \ removal.done

(* The tariff has the items of every rollout: it loses none.               *)
Grows == \A k \in Rollouts : rollout[k].items \subseteq tariff

RefundInv == Aimed /\ FirstRevision /\ Cut
TakenInv == Fresh /\ Blank /\ Reached /\ Within /\ Left /\ Grows

(* Children keep what they are for.                                        *)
ChildrenKept ==
  \A k \in Rollouts, s \in Sources :
    /\ child'[k][s].items = child[k][s].items /\ child'[k][s].rev = child[k][s].rev
    /\ child'[k][s].status # "none" => child[k][s].status # "none"

ItemsKept == \A k \in Rollouts : rollout'[k].items = rollout[k].items

(* No worker comes to queue children or to call a panel.                   *)
WorkersQuiet ==
  \A w \in Workers :
    /\ worker'[w].pc = "call" => worker'[w] = worker[w]
    /\ worker'[w].pc = "queue" =>
         /\ worker[w].pc = "queue" /\ worker'[w].todo \subseteq worker[w].todo
         /\ worker'[w].rev = worker[w].rev /\ worker'[w].missing = worker[w].missing

LEMMA Numbers ==
  ASSUME TypeInv
  PROVE  /\ \A s \in Sources : removal.covers[s] \in Nat /\ op[s].rev \in Nat
         /\ \A i \in Items, s \in Sources : ent[i][s].rev \in Nat
         /\ \A k \in Rollouts, s \in Sources : child[k][s].rev \in Nat
         /\ \A w \in Workers, s \in Sources : worker[w].rev[s] \in Nat
         /\ \A s \in Payments : s \in Sources
<1>1. /\ \A s \in Sources : removal.covers[s] \in Revisions /\ op[s].rev \in Revisions
      /\ \A i \in Items, s \in Sources : ent[i][s].rev \in Revisions
      /\ \A k \in Rollouts, s \in Sources : child[k][s].rev \in Revisions
  BY DEF TypeInv, Tables, RemovalType, OpType, EntType, ChildType
<1>2. \A w \in Workers, s \in Sources : worker[w].rev[s] \in Revisions
  BY DEF TypeInv, WorkerType
<1>. QED
  BY <1>1, <1>2, Bounds DEF Sources

LEMMA FewerCalls ==
  ASSUME TypeInv, WorkersQuiet, NEW s, NEW i, Called(s, i)'
  PROVE  Called(s, i)
  BY DEF Called, WorkersQuiet

LEMMA RefundQuiet ==
  ASSUME TypeInv, RefundInv, UNCHANGED <<op, targets, ent>>, ChildrenKept, WorkersQuiet
  PROVE  RefundInv'
<1>1. Aimed'
  BY DEF RefundInv, Aimed, Shown, ChildrenKept
<1>2. FirstRevision'
  BY Numbers DEF RefundInv, FirstRevision, ChildrenKept, WorkersQuiet
<1>3. Cut'
  BY FewerCalls DEF RefundInv, Cut, Shown
<1>. QED
  BY <1>1, <1>2, <1>3 DEF RefundInv

LEMMA TakenQuiet ==
  ASSUME TypeInv, TakenInv, UNCHANGED <<op, removal, ent>>, ChildrenKept, WorkersQuiet, Grows'
  PROVE  TakenInv'
<1>1. Fresh' /\ Blank' /\ Reached' /\ Left'
  BY DEF TakenInv, Fresh, Blank, Reached, Left, Shown, Covered
<1>2. Within'
  <2>1. ASSUME NEW s \in Sources, NEW k \in Rollouts, child'[k][s].status # "none",
               Covered(s, child'[k][s].rev)
        PROVE  child'[k][s].items \subseteq removal.items
    BY <2>1 DEF TakenInv, Within, ChildrenKept
  <2>2. ASSUME NEW s \in Sources, NEW w \in Workers, worker'[w].pc = "queue", s \in worker'[w].todo,
               Covered(s, worker'[w].rev[s])
        PROVE  worker'[w].missing \subseteq removal.items
    BY <2>2 DEF TakenInv, Within, WorkersQuiet
  <2>. QED
    BY <2>1, <2>2 DEF Within, Covered
<1>. QED
  BY <1>1, <1>2 DEF TakenInv

SafeInv == RefundInv /\ (~Shrinks => TakenInv)

(* A step of the workers that queues no child and calls no panel.          *)
LEMMA SafeQuiet ==
  ASSUME TypeInv, SafeInv, UNCHANGED <<tariff, op, targets, removal, ent>>, ChildrenKept, WorkersQuiet,
         ItemsKept
  PROVE  SafeInv'
<1>1. ASSUME TakenInv PROVE TakenInv'
  <2>1. Grows'
    BY <1>1 DEF TakenInv, Grows, ItemsKept
  <2>. QED
    BY <1>1, <2>1, TakenQuiet
<1>. QED
  BY <1>1, RefundQuiet DEF SafeInv

LEMMA AllStay ==
  ASSUME TypeInv
  PROVE  /\ UNCHANGED child => ChildrenKept
         /\ UNCHANGED rollout => ItemsKept
         /\ UNCHANGED worker => WorkersQuiet
         /\ \A w \in Workers : \A c :
              worker' = [worker EXCEPT ![w] = c] /\ c.pc \notin {"queue", "call"} => WorkersQuiet
         /\ \A w \in Workers : worker' = [worker EXCEPT ![w] = Idle] => WorkersQuiet
  BY Blanks DEF ChildrenKept, ItemsKept, WorkersQuiet, TypeInv

LEMMA ItemsStay ==
  ASSUME TypeInv, NEW k \in Rollouts
  PROVE  /\ \A q : rollout' = [rollout EXCEPT ![k].owner = q] => ItemsKept
         /\ \A st : rollout' = [rollout EXCEPT ![k].status = st, ![k].owner = "none"] => ItemsKept
         /\ \A c : rollout' = [rollout EXCEPT ![k].children = c] => ItemsKept
<1>1. \A j \in Rollouts : rollout[j] \in RolloutType
  BY DEF TypeInv, Tables
<1>. QED
  <2>1. ASSUME NEW o, o.items = rollout[k].items, rollout' = [rollout EXCEPT ![k] = o]
        PROVE  ItemsKept
    BY <2>1 DEF ItemsKept, TypeInv, Tables
  <2>2. \A q : [rollout[k] EXCEPT !.owner = q].items = rollout[k].items
    BY <1>1 DEF RolloutType
  <2>3. \A st : [rollout[k] EXCEPT !.status = st, !.owner = "none"].items = rollout[k].items
    BY <1>1 DEF RolloutType
  <2>4. \A c : [rollout[k] EXCEPT !.children = c].items = rollout[k].items
    BY <1>1 DEF RolloutType
  <2>5. \A st : [rollout EXCEPT ![k].status = st, ![k].owner = "none"]
                  = [rollout EXCEPT ![k] = [rollout[k] EXCEPT !.status = st, !.owner = "none"]]
    BY DEF TypeInv, Tables
  <2>. QED
    BY <2>1, <2>2, <2>3, <2>4, <2>5

LEMMA FailSafe ==
  ASSUME TypeInv, SafeInv, NEW w \in Workers, worker[w].pc # "idle", Fail(w),
         UNCHANGED <<tariff, op, targets, removal, ent>>, ChildrenKept
  PROVE  SafeInv'
<1>1. worker[w].rollout \in Rollouts
  BY WorkerFacts
<1>2. ItemsKept
  BY <1>1, AllStay, ItemsStay DEF Fail
<1>3. WorkersQuiet
  BY AllStay DEF Fail
<1>. QED
  BY <1>2, <1>3, SafeQuiet

LEMMA LeaseExpiresSafe ==
  ASSUME TypeInv, SafeInv, NEW k \in Rollouts, LeaseExpires(k)
  PROVE  SafeInv'
<1>1. ItemsKept
  BY ItemsStay DEF LeaseExpires
<1>. QED
  BY <1>1, AllStay, SafeQuiet DEF LeaseExpires

LEMMA TakeSafe ==
  ASSUME TypeInv, SafeInv, NEW w \in Workers, NEW k \in Rollouts, Take(w, k)
  PROVE  SafeInv'
<1>1. [Idle EXCEPT !.pc = "claim", !.rollout = k].pc = "claim"
  BY DEF Idle
<1>2. WorkersQuiet
  BY <1>1, AllStay DEF Take
<1>. QED
  BY <1>2, AllStay, SafeQuiet DEF Take

LEMMA ClaimSafe ==
  ASSUME TypeInv, SafeInv, NEW w \in Workers, Claim(w)
  PROVE  SafeInv'
<1>1. worker[w].rollout \in Rollouts
  BY WorkerFacts DEF Claim
<1>2. ItemsKept
  BY <1>1, AllStay, ItemsStay DEF Claim
<1>3. WorkersQuiet
  <2>1. CASE worker' = [worker EXCEPT ![w].pc = "collect"]
    BY <2>1 DEF WorkersQuiet, TypeInv, WorkerType
  <2>. QED
    BY <2>1, AllStay DEF Claim
<1>. QED
  BY <1>2, <1>3, AllStay, SafeQuiet DEF Claim

LEMMA CrashSafe ==
  ASSUME TypeInv, SafeInv, NEW w \in Workers, Crash(w)
  PROVE  SafeInv'
  BY AllStay, SafeQuiet DEF Crash

LEMMA CollectSafe ==
  ASSUME TypeInv, SafeInv, NEW w \in Workers, Collect(w)
  PROVE  SafeInv'
<1>. DEFINE k == worker[w].rollout
<1>1. ASSUME NEW b \in BOOLEAN, worker' = [worker EXCEPT ![w] = Running(k, rollout[k].children, b)]
      PROVE  WorkersQuiet
  <2>1. Running(k, rollout[k].children, b).pc = "run"
    BY Fields
  <2>. QED
    BY <1>1, <2>1, AllStay
<1>2. ASSUME NEW away \in SUBSET rollout[k].asked,
             worker' = [worker EXCEPT ![w].pc = "find", ![w].complete = away = {},
                                      ![w].missing = {i \in rollout[k].items \ away : ~Has(i)}]
      PROVE  WorkersQuiet
  <2>. DEFINE m == {i \in rollout[k].items \ away : ~Has(i)}
              b == away = {}
              c == [worker[w] EXCEPT !.pc = "find", !.complete = b, !.missing = m]
  <2>1. worker' = [worker EXCEPT ![w] = c]
    BY <1>2 DEF TypeInv
  <2>. HIDE DEF m, b
  <2>2. c.pc = "find"
    BY Kept, WorkerFacts
  <2>. HIDE DEF c
  <2>. QED
    BY <2>1, <2>2, AllStay
<1>3. WorkersQuiet
  BY <1>1, <1>2 DEF Collect
<1>. QED
  BY <1>3, AllStay, SafeQuiet DEF Collect

LEMMA RunChildSafe ==
  ASSUME TypeInv, SafeInv, NEW w \in Workers, NEW s \in Sources, RunChild(w, s)
  PROVE  SafeInv'
<1>1. CASE Fail(w)
  BY <1>1, AllStay, FailSafe DEF RunChild
<1>2. CASE UNCHANGED rollout /\ worker' = [worker EXCEPT ![w].todo = @ \ {s}]
  <2>1. WorkersQuiet
    BY <1>2 DEF WorkersQuiet, TypeInv, WorkerType, RunChild
  <2>. QED
    BY <1>2, <2>1, AllStay, SafeQuiet DEF RunChild
<1>3. CASE /\ UNCHANGED rollout
           /\ worker' = [worker EXCEPT ![w].pc = "fence", ![w].source = s,
                                       ![w].tries = child[worker[w].rollout][s].items]
  <2>1. WorkersQuiet
    BY <1>3 DEF WorkersQuiet, TypeInv, WorkerType
  <2>. QED
    BY <1>3, <2>1, AllStay, SafeQuiet DEF RunChild
<1>. QED
  BY <1>1, <1>2, <1>3 DEF RunChild

LEMMA RetryChildSafe ==
  ASSUME TypeInv, SafeInv, NEW w \in Workers, NEW k \in Rollouts, NEW s \in Sources, RetryChild(w, k, s)
  PROVE  SafeInv'
<1>1. WorkersQuiet
  BY Fields, AllStay DEF RetryChild
<1>. QED
  BY <1>1, AllStay, SafeQuiet DEF RetryChild

LEMMA FinishSafe ==
  ASSUME TypeInv, SafeInv, NEW w \in Workers, Finish(w)
  PROVE  SafeInv'
<1>1. worker[w].rollout \in Rollouts /\ worker[w].pc # "idle"
  BY WorkerFacts DEF Finish
<1>2. CASE Fail(w)
  BY <1>1, <1>2, AllStay, FailSafe DEF Finish
<1>3. CASE ~Fail(w)
  <2>1. ItemsKept /\ WorkersQuiet
    BY <1>1, <1>3, ItemsStay, AllStay DEF Finish
  <2>. QED
    BY <2>1, AllStay, SafeQuiet DEF Finish
<1>. QED
  BY <1>2, <1>3

LEMMA UpdateTariffSafe ==
  ASSUME TypeInv, SafeInv, NEW items \in SUBSET Items, UpdateTariff(items)
  PROVE  SafeInv'
<1>1. ChildrenKept /\ WorkersQuiet
  BY AllStay DEF UpdateTariff
<1>2. ASSUME ~Shrinks PROVE Grows'
  <2>1. PICK k \in Rollouts :
          rollout' = [rollout EXCEPT ![k] = [NoRollout EXCEPT !.status = "pending",
                        !.items = items, !.asked = items \cup tariff]]
    BY DEF UpdateTariff
  <2>2. /\ rollout'[k].items = items /\ \A j \in Rollouts \ {k} : rollout'[j] = rollout[j]
    BY <2>1 DEF TypeInv, Tables, NoRollout
  <2>3. tariff \subseteq items /\ tariff' = items /\ Grows
    BY <1>2 DEF UpdateTariff, SafeInv, TakenInv
  <2>. QED
    BY <2>2, <2>3 DEF Grows
<1>. QED
  BY <1>1, <1>2, RefundQuiet, TakenQuiet DEF SafeInv, UpdateTariff

-----------------------------------------------------------------------------
(* A source gets an operation.                                             *)

LEMMA QueueRefund ==
  ASSUME TypeInv, RefundInv, NEW s \in Sources, NEW o \in OpType, Queue(s, o),
         o.kind = "revoke" => s \in Grants \/ (o.rev = 1 /\ o.status = "pending" /\ o.items = targets[s]
                                               /\ o.done = {}),
         s \in Grants => o.kind # "revoke"
  PROVE  RefundInv'
<1>1. /\ op'[s] = o /\ \A q \in Sources \ {s} : op'[q] = op[q]
      /\ targets'[s] = targets[s] \cup o.items /\ \A q \in Sources \ {s} : targets'[q] = targets[q]
  BY DEF TypeInv, Tables, Queue
<1>2. UNCHANGED <<child, ent, worker>>
  BY DEF Queue
<1>3. Aimed'
  BY <1>1, <1>2 DEF RefundInv, Aimed, Shown
<1>4. FirstRevision'
  BY <1>1, <1>2, Numbers DEF RefundInv, FirstRevision, Sources
<1>5. Cut'
  <2>1. ASSUME NEW p \in Payments, NEW i \in Items, op'[p].kind = "revoke"
        PROVE  \/ op'[p].status = "pending" /\ i \in op'[p].items \ op'[p].done
               \/ ent[i][p].state \in {"revoked", "barred"} /\ ent[i][p].rev >= 1
               \/ ~Shown(i, p) /\ ~Called(p, i)
    <3>0. p \in Sources
      BY Numbers
    <3>1. CASE p # s
      BY <1>1, <2>1, <3>0, <3>1 DEF RefundInv, Cut
    <3>2. CASE p = s /\ i \in targets[s]
      BY <1>1, <2>1, <3>2, Bounds
    <3>3. CASE p = s /\ i \notin targets[s]
      <4>1. ~Shown(i, p)
        BY <3>3 DEF RefundInv, Aimed
      <4>2. ASSUME NEW w \in Workers, worker[w].pc = "call", worker[w].source = s, i \in worker[w].tries
            PROVE  FALSE
        <5>1. worker[w].rollout \in Rollouts /\ worker[w].tries \subseteq child[worker[w].rollout][s].items
          BY <4>2, WorkerFacts DEF Staged
        <5>. QED
          BY <3>3, <4>2, <5>1 DEF RefundInv, Aimed
      <4>. QED
        BY <3>3, <4>1, <4>2 DEF Called
    <3>. QED
      BY <3>1, <3>2, <3>3
  <2>. QED
    BY <1>2, <2>1 DEF Cut, Shown, Called
<1>. QED
  BY <1>3, <1>4, <1>5 DEF RefundInv

LEMMA QueueTaken ==
  ASSUME TypeInv, TakenInv, NEW s \in Sources, NEW o \in OpType, Queue(s, o), o.kind # "none",
         o.kind = "grant" => ~Covered(s, o.rev),
         s \in Grants => o.rev >= op[s].rev
  PROVE  TakenInv'
<1>1. /\ op'[s] = o /\ \A q \in Sources \ {s} : op'[q] = op[q]
  BY DEF TypeInv, Tables, Queue
<1>2. UNCHANGED <<child, ent, worker, removal, rollout, tariff>>
  BY DEF Queue
<1>3. Fresh'
  <2>1. o.rev \in Nat
    BY Bounds DEF OpType
  <2>. QED
    BY <1>1, <1>2, <2>1, Numbers DEF TakenInv, Fresh, Covered
<1>. QED
  BY <1>2, <1>3 DEF TakenInv, Blank, Reached, Within, Left, Grows, Shown, Covered

LEMMA SourceSafe ==
  ASSUME TypeInv, SafeInv, NEW s \in Sources, Buy(s) \/ Give(s) \/ Refund(s)
  PROVE  SafeInv'
<1>0. op[s] \in OpType /\ targets[s] \in SUBSET Items /\ tariff \in SUBSET Items /\ NoOp \in OpType
  BY Blanks DEF TypeInv, Tables
<1>1. CASE Buy(s)
  <2>1. PICK items \in former : Queue(s, Operation("grant", 0, items))
    BY <1>1 DEF Buy
  <2>. DEFINE o == Operation("grant", 0, items)
  <2>2. o \in OpType
    <3>1. items \in SUBSET Items
      BY DEF TypeInv, Tables
    <3>. QED
      BY <1>0, <3>1, OpForms, Bounds
  <2>3. o.kind = "grant" /\ o.rev = 0 /\ s \notin Grants /\ op[s].kind = "none"
    BY <1>1, Bounds DEF Operation, Buy
  <2>. HIDE DEF o
  <2>4. RefundInv'
    BY <2>1, <2>2, <2>3, QueueRefund DEF SafeInv, o
  <2>5. ASSUME TakenInv PROVE TakenInv'
    <3>1. ~Covered(s, o.rev)
      BY <2>3, <2>5 DEF TakenInv, Fresh, Covered
    <3>. QED
      BY <2>1, <2>2, <2>3, <2>5, <3>1, QueueTaken DEF o
  <2>. QED
    BY <2>4, <2>5 DEF SafeInv, Buy, Queue
<1>2. CASE Give(s)
  <2>. DEFINE o == Operation("grant", op[s].rev + 1, tariff)
  <2>1. op[s].rev + 1 \in Revisions
    <3>1. op[s].rev \in Revisions /\ op[s].rev < MaxRevision
      BY <1>0, <1>2 DEF Give, OpType
    <3>. QED
      BY <3>1, Bounds
  <2>2. o \in OpType /\ Queue(s, o)
    BY <1>0, <1>2, <2>1, OpForms DEF Give
  <2>3. o.kind = "grant" /\ o.rev = op[s].rev + 1 /\ s \in Grants
    BY <1>2 DEF Operation, Give
  <2>. HIDE DEF o
  <2>4. RefundInv'
    BY <2>2, <2>3, QueueRefund DEF SafeInv
  <2>5. ASSUME TakenInv PROVE TakenInv'
    <3>1. ~Covered(s, o.rev) /\ o.rev >= op[s].rev
      BY <2>3, <2>5, Numbers DEF TakenInv, Fresh, Covered
    <3>. QED
      BY <2>2, <2>3, <2>5, <3>1, QueueTaken
  <2>. QED
    BY <2>4, <2>5 DEF SafeInv
<1>3. CASE Refund(s)
  <2>. DEFINE o == Operation("revoke", 1, targets[s])
  <2>1. s \in Payments /\ s \notin Grants /\ op[s].rev + 1 = 1
    BY <1>3, Bounds DEF Refund, TypeInv, Bounded
  <2>2. o \in OpType
    BY <1>0, OpForms, Bounds
  <2>3. Queue(s, o)
    BY <1>3, <2>1 DEF Refund
  <2>4. o.kind = "revoke" /\ o.rev = 1 /\ o.status = "pending" /\ o.items = targets[s] /\ o.done = {}
    BY DEF Operation
  <2>. HIDE DEF o
  <2>5. RefundInv'
    BY <2>1, <2>2, <2>3, <2>4, QueueRefund DEF SafeInv
  <2>6. TakenInv => TakenInv'
    BY <2>1, <2>2, <2>3, <2>4, QueueTaken
  <2>. QED
    BY <2>5, <2>6 DEF SafeInv
<1>. QED
  BY <1>1, <1>2, <1>3

(* What a panel has learned it does not forget.                            *)
LEMMA ReachedStays ==
  ASSUME TypeInv, TypeInv', Reached, PanelsOnward, UNCHANGED removal
  PROVE  Reached'
<1>1. removal.done \subseteq Items
  BY DEF TypeInv, Tables, RemovalType
<1>2. ASSUME NEW i \in removal.done, NEW s \in Sources, Covered(s, 0)
      PROVE  ent'[i][s].state # "none" /\ ent'[i][s].rev >= removal.covers[s]
  <2>1. i \in Items
    BY <1>1
  <2>2. /\ ent[i][s].state # "none" /\ ent[i][s].rev >= removal.covers[s]
        /\ ent'[i][s].state # "none" /\ ent'[i][s].rev >= ent[i][s].rev
    BY <1>2, <2>1 DEF Reached, PanelsOnward
  <2>3. ent'[i][s].rev \in Nat /\ ent[i][s].rev \in Nat /\ removal.covers[s] \in Nat
    <3>1. ent'[i][s].rev \in Revisions
      BY <2>1 DEF TypeInv, Tables, EntType
    <3>. QED
      BY <2>1, <3>1, Bounds, Numbers
  <2>. QED
    BY <2>2, <2>3
<1>. QED
  BY <1>2 DEF Reached, Covered

LEMMA DeliverSafe ==
  ASSUME TypeInv, TypeInv', SafeInv, NEW s \in Sources, NEW i \in Items, Deliver(s, i)
  PROVE  SafeInv'
<1>. DEFINE o == op[s]
<1>0. /\ o \in OpType /\ o.status = "pending" /\ i \in o.items /\ i \notin o.done
      /\ o.rev \in Revisions /\ o.rev \in Nat /\ o.done \subseteq o.items
      /\ i \in targets[s] /\ o.items \subseteq targets[s]
      /\ o.kind \in {"none", "grant", "revoke"} /\ ent[i][s].rev \in Nat
  BY Bounds, Numbers DEF Deliver, TypeInv, Tables, OpType, SafeInv, RefundInv, Aimed
<1>1. /\ op'[s].kind = o.kind /\ op'[s].rev = o.rev
      /\ op'[s].items \subseteq o.items
      /\ \/ op'[s].status = "pending" /\ op'[s].items = o.items /\ op'[s].done = o.done \cup {i}
         \/ op'[s].status = "succeeded" /\ o.done \cup {i} = o.items
      /\ \A q \in Sources \ {s} : op'[q] = op[q]
  <2>1. CASE o.done \cup {i} = o.items
    <3>1. LET p == Concluded(o, "succeeded")
          IN p.kind = o.kind /\ p.rev = o.rev /\ p.status = "succeeded" /\ p.items = {}
      BY <1>0 DEF Concluded, OpType
    <3>2. op' = [op EXCEPT ![s] = Concluded(o, "succeeded")]
      BY <2>1 DEF Deliver, Delivered
    <3>. QED
      BY <2>1, <3>1, <3>2 DEF TypeInv, Tables
  <2>2. CASE o.done \cup {i} # o.items
    <3>1. LET p == [o EXCEPT !.done = o.done \cup {i}]
          IN p.kind = o.kind /\ p.rev = o.rev /\ p.status = o.status /\ p.items = o.items
             /\ p.done = o.done \cup {i}
      BY <1>0 DEF OpType
    <3>2. op' = [op EXCEPT ![s] = [o EXCEPT !.done = o.done \cup {i}]]
      BY <2>2 DEF Deliver, Delivered
    <3>. QED
      BY <1>0, <3>1, <3>2 DEF TypeInv, Tables
  <2>. QED
    BY <2>1, <2>2
<1>2. \/ o.kind = "grant" /\ Accepts(i, s, o.rev)
         /\ ent'[i][s].state = "live" /\ ent'[i][s].rev = o.rev
      \/ o.kind = "revoke" /\ ent[i][s].rev <= o.rev
         /\ ent'[i][s].state \in {"barred", "revoked"} /\ ent'[i][s].rev = o.rev
  <2>1. CASE o.kind = "grant"
    <3>. DEFINE e == [state |-> "live", rev |-> o.rev]
    <3>1. e \in EntType
      BY <1>0, EntForms
    <3>2. ent' = [ent EXCEPT ![i][s] = e] /\ Accepts(i, s, o.rev)
      BY <2>1 DEF Deliver
    <3>. HIDE DEF e
    <3>3. ent'[i][s] = e
      BY <3>1, <3>2, EntPut
    <3>. QED
      BY <2>1, <3>2, <3>3 DEF e
  <2>2. CASE o.kind # "grant"
    <3>. DEFINE e == Barred(i, s, o.rev)
    <3>1. e \in EntType
      BY <1>0, EntForms
    <3>2. o.kind = "revoke" /\ ent[i][s].rev <= o.rev /\ ent' = [ent EXCEPT ![i][s] = e]
      BY <2>2 DEF Deliver
    <3>3. e.state \in {"barred", "revoked"} /\ e.rev = o.rev
      BY DEF Barred
    <3>. HIDE DEF e
    <3>4. ent'[i][s] = e
      BY <3>1, <3>2, EntPut
    <3>. QED
      BY <3>2, <3>3, <3>4
  <2>. QED
    BY <2>1, <2>2
<1>3. \A j \in Items, q \in Sources : j # i \/ q # s => ent'[j][q] = ent[j][q]
  BY DEF Deliver, TypeInv, Tables
<1>4. UNCHANGED <<tariff, targets, removal, rollout, child, worker>>
  BY DEF Deliver
<1>. HIDE DEF o
<1>5. Aimed'
  BY <1>0, <1>1, <1>2, <1>3, <1>4 DEF SafeInv, RefundInv, Aimed, Shown
<1>6. FirstRevision'
  BY <1>1, <1>4, Numbers DEF SafeInv, RefundInv, FirstRevision, o
<1>7. Cut'
  <2>1. ASSUME NEW p \in Payments, NEW j \in Items, op'[p].kind = "revoke"
        PROVE  \/ op'[p].status = "pending" /\ j \in op'[p].items \ op'[p].done
               \/ ent'[j][p].state \in {"revoked", "barred"} /\ ent'[j][p].rev >= 1
               \/ ent'[j][p].state # "live" /\ ~Called(p, j)
    <3>1. p \in Sources
      BY Numbers
    <3>2. CASE p # s
      BY <1>1, <1>3, <2>1, <3>1, <3>2 DEF SafeInv, RefundInv, Cut, Shown
    <3>3. CASE p = s /\ j = i
      <4>1. o.rev = 1 /\ o.kind = "revoke"
        BY <1>1, <2>1, <3>3 DEF SafeInv, RefundInv, FirstRevision, o
      <4>. QED
        BY <1>2, <3>3, <4>1
    <3>4. CASE p = s /\ j # i
      <4>1. ent'[j][p] = ent[j][p] /\ o.kind = "revoke"
        BY <1>1, <1>3, <2>1, <3>1, <3>4
      <4>2. \/ j \in o.items \ o.done
            \/ ent[j][p].state \in {"revoked", "barred"} /\ ent[j][p].rev >= 1
            \/ ent[j][p].state # "live" /\ ~Called(p, j)
        BY <3>4, <4>1 DEF SafeInv, RefundInv, Cut, Shown, o
      <4>. QED
        BY <1>1, <3>4, <4>1, <4>2
    <3>. QED
      BY <3>2, <3>3, <3>4
  <2>. QED
    BY <1>4, <2>1 DEF Cut, Shown, Called
<1>8. ASSUME TakenInv PROVE TakenInv'
  <2>1. Fresh'
    BY <1>0, <1>1, <1>4, <1>8 DEF TakenInv, Fresh, Covered, o
  <2>2. Blank'
    BY <1>2, <1>3, <1>8 DEF TakenInv, Blank
  <2>3. ent'[i][s].state # "none" /\ (ent[i][s].state # "none" => ent'[i][s].rev >= ent[i][s].rev)
    BY <1>0, <1>2 DEF Accepts
  <2>4. Reached'
    <3>1. PanelsOnward
      BY <1>3, <2>3, Numbers DEF PanelsOnward
    <3>. QED
      BY <1>4, <1>8, <3>1, ReachedStays DEF TakenInv
  <2>5. Within' /\ Grows'
    BY <1>4, <1>8 DEF TakenInv, Within, Grows, Covered
  <2>6. Left'
    <3>1. o.kind = "grant" => ~Covered(s, o.rev)
      BY <1>0, <1>8 DEF TakenInv, Fresh, o
    <3>. QED
      BY <1>2, <1>3, <1>4, <1>8, <3>1 DEF TakenInv, Left, Shown, Covered
  <2>. QED
    BY <2>1, <2>2, <2>4, <2>5, <2>6 DEF TakenInv
<1>. QED
  BY <1>5, <1>6, <1>7, <1>8 DEF SafeInv, RefundInv

-----------------------------------------------------------------------------
(* The tariff is taken from the user.                                      *)

LEMMA RevokeTariffSafe ==
  ASSUME TypeInv, TypeInv', SafeInv, RevokeTariff
  PROVE  SafeInv'
<1>1. ASSUME NEW s \in Sources
      PROVE  /\ op'[s].kind = op[s].kind
             /\ op[s].kind = "revoke" => op'[s] = op[s]
             /\ op[s].kind # "revoke" => /\ op'[s].items = {}
                                         /\ op'[s].status \notin {"pending", "succeeded"}
             /\ s \in Grants => op'[s].rev = op[s].rev + 1
  <2>. DEFINE st == IF op[s].status = "none" THEN "none" ELSE "superseded"
              n == IF s \in Grants THEN op[s].rev + 1 ELSE op[s].rev
              p == Concluded(op[s], st)
  <2>1. op[s] \in OpType
    BY DEF TypeInv, Tables
  <2>2. CASE op[s].kind = "revoke"
    BY <2>2, Bounds DEF RevokeTariff, TypeInv, Bounded
  <2>3. CASE op[s].kind # "revoke"
    <3>1. st \notin {"pending", "succeeded"}
      OBVIOUS
    <3>. HIDE DEF st
    <3>2. p.kind = op[s].kind /\ p.items = {} /\ p.status = st /\ p.rev = op[s].rev
      BY <2>1 DEF Concluded, OpType
    <3>3. \A m : LET q == [p EXCEPT !.rev = m]
                IN q.kind = op[s].kind /\ q.items = {} /\ q.status = st /\ q.rev = m
      BY <2>1 DEF Concluded, OpType
    <3>4. op'[s] = [p EXCEPT !.rev = n]
      BY <2>3, <3>2 DEF RevokeTariff, st
    <3>. HIDE DEF p, n
    <3>. QED
      BY <2>3, <3>1, <3>3, <3>4 DEF n
  <2>. QED
    BY <2>2, <2>3
<1>2. /\ removal'.status = "pending" /\ removal'.done = {} /\ removal.status = "none"
      /\ tariff \subseteq removal'.items
      /\ \A s \in Sources : targets[s] \subseteq removal'.items
  BY DEF RevokeTariff
<1>3. ASSUME NEW s \in Sources
      PROVE  /\ op[s].kind = "none" => removal'.covers[s] = 0
             /\ op[s].kind = "grant" => removal'.covers[s] = op[s].rev + 1
  BY DEF RevokeTariff
<1>4. ChildrenKept
  <2>1. \A k \in Rollouts, s \in Sources :
          child[k][s] \in ChildType /\ child'[k][s] = Superseded(child[k][s])
    BY DEF RevokeTariff, TypeInv, Tables
  <2>2. \A o \in ChildType : /\ Superseded(o).items = o.items /\ Superseded(o).rev = o.rev
                             /\ Superseded(o).status # "none" => o.status # "none"
    BY DEF Superseded, ChildType
  <2>. QED
    BY <2>1, <2>2 DEF ChildrenKept
<1>5. UNCHANGED <<tariff, targets, ent, rollout, worker>>
  BY DEF RevokeTariff
<1>6. Aimed'
  BY <1>1, <1>4, <1>5 DEF SafeInv, RefundInv, Aimed, Shown, ChildrenKept
<1>7. FirstRevision'
  BY <1>1, <1>4, <1>5, Numbers DEF SafeInv, RefundInv, FirstRevision, ChildrenKept
<1>8. Cut'
  BY <1>1, <1>5, Numbers DEF SafeInv, RefundInv, Cut, Shown, Called
<1>9. ASSUME TakenInv PROVE TakenInv'
  <2>1. Fresh'
    <3>1. ASSUME NEW s \in Sources
          PROVE  op'[s].kind = "grant" => op'[s].status \notin {"pending", "succeeded"}
      BY <1>1
    <3>2. ASSUME NEW s \in Sources, removal'.covers[s] > 0
          PROVE  op'[s].kind # "none"
      BY <1>1, <1>3, <3>2
    <3>3. ASSUME NEW s \in Grants, removal'.covers[s] > 0
          PROVE  op'[s].rev >= removal'.covers[s]
      <4>1. s \in Sources /\ op[s].kind # "revoke"
        BY DEF Sources, TypeInv, Bounded
      <4>2. op[s].kind \in {"none", "grant", "revoke"}
        BY <4>1 DEF TypeInv, Tables, OpType
      <4>. QED
        BY <1>1, <1>3, <3>3, <4>1, <4>2, Numbers
    <3>. QED
      BY <3>1, <3>2, <3>3 DEF Fresh, Covered
  <2>2. Reached'
    BY <1>2 DEF Reached
  <2>3. Within'
    <3>1. ASSUME NEW s \in Sources, NEW k \in Rollouts
          PROVE  child'[k][s].items \subseteq removal'.items
      BY <1>2, <1>4 DEF SafeInv, RefundInv, Aimed, ChildrenKept
    <3>2. ASSUME NEW w \in Workers, worker[w].pc = "queue"
          PROVE  worker[w].missing \subseteq removal'.items
      <4>1. worker[w].rollout \in Rollouts /\ worker[w].missing \subseteq rollout[worker[w].rollout].items
        BY <3>2, WorkerFacts DEF Staged
      <4>. QED
        BY <1>2, <1>9, <4>1 DEF TakenInv, Grows
    <3>. QED
      BY <1>5, <3>1, <3>2 DEF Within
  <2>4. Left'
    BY <1>2, <1>5 DEF SafeInv, RefundInv, Aimed, Left, Shown
  <2>5. Blank' /\ Grows'
    BY <1>5, <1>9 DEF TakenInv, Blank, Grows
  <2>. QED
    BY <2>1, <2>2, <2>3, <2>4, <2>5 DEF TakenInv
<1>. QED
  BY <1>6, <1>7, <1>8, <1>9 DEF SafeInv, RefundInv

LEMMA RemoveAtSafe ==
  ASSUME TypeInv, TypeInv', SafeInv, NEW i \in Items, RemoveAt(i)
  PROVE  SafeInv'
<1>1. ASSUME NEW s \in Sources
      PROVE  \/ /\ removal.covers[s] > 0 /\ removal.covers[s] >= ent[i][s].rev
                /\ ent'[i][s].state \in {"barred", "revoked"} /\ ent'[i][s].rev = removal.covers[s]
             \/ /\ ~(removal.covers[s] > 0 /\ removal.covers[s] >= ent[i][s].rev)
                /\ ent'[i][s] = ent[i][s]
  BY DEF RemoveAt, TypeInv, Tables, Barred
<1>2. \A j \in Items \ {i}, s \in Sources : ent'[j][s] = ent[j][s]
  BY DEF RemoveAt, TypeInv, Tables
<1>3. /\ removal.status = "pending" /\ removal'.status \in {"pending", "succeeded"}
      /\ removal'.items = removal.items /\ removal'.covers = removal.covers
      /\ removal'.done = removal.done \cup {i} /\ i \in removal.items
      /\ removal'.status = "succeeded" => removal'.done = removal'.items
  BY DEF RemoveAt, TypeInv, Tables, RemovalType
<1>4. UNCHANGED <<tariff, op, targets, rollout, child, worker>>
  BY DEF RemoveAt
<1>5. Aimed'
  BY <1>1, <1>2, <1>4 DEF SafeInv, RefundInv, Aimed, Shown
<1>6. FirstRevision'
  BY <1>4 DEF SafeInv, RefundInv, FirstRevision
<1>7. Cut'
  <2>1. ASSUME NEW p \in Payments, NEW j \in Items, op[p].kind = "revoke"
        PROVE  \/ op[p].status = "pending" /\ j \in op[p].items \ op[p].done
               \/ ent'[j][p].state \in {"revoked", "barred"} /\ ent'[j][p].rev >= 1
               \/ ent'[j][p].state # "live" /\ ~Called(p, j)
    <3>1. \/ op[p].status = "pending" /\ j \in op[p].items \ op[p].done
          \/ ent[j][p].state \in {"revoked", "barred"} /\ ent[j][p].rev >= 1
          \/ ent[j][p].state # "live" /\ ~Called(p, j)
      BY <2>1 DEF SafeInv, RefundInv, Cut, Shown
    <3>. QED
      BY <1>1, <1>2, <3>1, Numbers
  <2>. QED
    BY <1>4, <2>1 DEF Cut, Shown, Called
<1>8. ASSUME TakenInv PROVE TakenInv'
  <2>1. Fresh'
    BY <1>3, <1>4, <1>8 DEF TakenInv, Fresh, Covered
  <2>2. Blank'
    BY <1>1, <1>2, <1>8 DEF TakenInv, Blank
  <2>3. Reached'
    <3>1. ASSUME NEW s \in Sources, Covered(s, 0)
          PROVE  ent'[i][s].state # "none" /\ ent'[i][s].rev >= removal.covers[s]
      BY <1>1, <1>8, <3>1, Numbers DEF TakenInv, Blank, Covered
    <3>2. ASSUME NEW s \in Sources, Covered(s, 0), NEW j \in removal.done, j # i
          PROVE  ent'[j][s].state # "none" /\ ent'[j][s].rev >= removal.covers[s]
      <4>1. j \in Items
        BY DEF TypeInv, Tables, RemovalType
      <4>. QED
        BY <1>2, <1>8, <3>2, <4>1 DEF TakenInv, Reached
    <3>3. removal'.done \subseteq removal'.items
      BY <1>3, <1>8 DEF TakenInv, Reached
    <3>4. \A s \in Sources : Covered(s, 0)' => Covered(s, 0)
      BY <1>3 DEF Covered
    <3>. QED
      BY <1>3, <3>1, <3>2, <3>3, <3>4 DEF Reached
  <2>4. Within' /\ Grows'
    BY <1>3, <1>4, <1>8 DEF TakenInv, Within, Grows, Covered
  <2>5. Left'
    <3>1. ASSUME NEW s \in Sources, ent'[i][s].state = "live"
          PROVE  ~(removal.covers[s] > 0 /\ ent'[i][s].rev <= removal.covers[s])
      BY <1>1, <3>1, Numbers
    <3>. QED
      BY <1>2, <1>3, <1>8, <3>1 DEF TakenInv, Left, Shown, Covered
  <2>. QED
    BY <2>1, <2>2, <2>3, <2>4, <2>5 DEF TakenInv
<1>. QED
  BY <1>4, <1>5, <1>6, <1>7, <1>8 DEF SafeInv, RefundInv

-----------------------------------------------------------------------------
(* The worker finds sources, queues their children and calls the panels.   *)

LEMMA FindSafe ==
  ASSUME TypeInv, SafeInv, NEW w \in Workers, Find(w)
  PROVE  SafeInv'
<1>1. CASE Fail(w)
  BY <1>1, AllStay, FailSafe DEF Find
<1>2. CASE /\ worker' = [worker EXCEPT ![w].pc = "queue", ![w].todo = LiveSources,
                ![w].rev = [s \in Sources |-> IF s \in LiveSources THEN op[s].rev ELSE 0]]
           /\ UNCHANGED rollout
  <2>1. UNCHANGED <<tariff, op, targets, removal, ent, rollout, child>>
    BY <1>2 DEF Find
  <2>2. /\ worker'[w].pc = "queue" /\ worker'[w].todo = LiveSources
        /\ \A s \in Sources : worker'[w].rev[s] = IF s \in LiveSources THEN op[s].rev ELSE 0
        /\ \A v \in Workers \ {w} : worker'[v] = worker[v]
    <3>. DEFINE f == [s \in Sources |-> IF s \in LiveSources THEN op[s].rev ELSE 0]
    <3>1. \A s \in Sources : f[s] = IF s \in LiveSources THEN op[s].rev ELSE 0
      OBVIOUS
    <3>2. worker' = [worker EXCEPT ![w].pc = "queue", ![w].todo = LiveSources, ![w].rev = f]
      BY <1>2
    <3>. HIDE DEF f
    <3>. QED
      BY <3>1, <3>2 DEF TypeInv, WorkerType
  <2>3. Aimed'
    BY <2>1 DEF SafeInv, RefundInv, Aimed, Shown
  <2>4. FirstRevision'
    <3>1. \A s \in Payments : s \in LiveSources => op[s].rev = 0
      BY Numbers DEF LiveSources, TypeInv, Bounded
    <3>. QED
      BY <2>1, <2>2, <3>1, Numbers DEF SafeInv, RefundInv, FirstRevision
  <2>5. Cut'
    <3>1. \A s, i : Called(s, i)' => Called(s, i)
      BY <2>2 DEF Called
    <3>. QED
      BY <2>1, <3>1 DEF SafeInv, RefundInv, Cut, Shown
  <2>6. ASSUME TakenInv PROVE TakenInv'
    <3>1. \A s \in LiveSources : s \in Sources /\ ~Covered(s, op[s].rev)
      BY <2>6 DEF TakenInv, Fresh, LiveSources
    <3>2. Within'
      <4>1. ASSUME NEW s \in Sources, s \in LiveSources PROVE ~Covered(s, worker'[w].rev[s])
        BY <2>2, <3>1, <4>1
      <4>2. ASSUME NEW s \in Sources, NEW v \in Workers, worker'[v].pc = "queue",
                   s \in worker'[v].todo, Covered(s, worker'[v].rev[s])
            PROVE  worker'[v].missing \subseteq removal.items
        BY <2>2, <2>6, <4>1, <4>2 DEF TakenInv, Within
      <4>. QED
        BY <2>1, <2>6, <4>2 DEF TakenInv, Within, Covered
    <3>. QED
      BY <2>1, <2>6, <3>2 DEF TakenInv, Fresh, Blank, Reached, Left, Grows, Shown, Covered
  <2>. QED
    BY <2>1, <2>3, <2>4, <2>5, <2>6 DEF SafeInv, RefundInv
<1>. QED
  BY <1>1, <1>2 DEF Find

(* A child comes into being; what its worker does next is not of interest. *)
LEMMA NewChild ==
  ASSUME TypeInv, SafeInv, NEW k \in Rollouts, NEW s \in Sources, NEW o \in ChildType,
         child' = [child EXCEPT ![k][s] = o], targets' = [targets EXCEPT ![s] = @ \cup o.items],
         UNCHANGED <<tariff, op, removal, ent>>, WorkersQuiet, ItemsKept,
         s \in Payments => o.rev = 0,
         TakenInv => (Covered(s, o.rev) => o.items \subseteq removal.items)
  PROVE  SafeInv'
<1>1. /\ child'[k][s] = o /\ targets'[s] = targets[s] \cup o.items
      /\ \A j \in Rollouts, q \in Sources : j # k \/ q # s => child'[j][q] = child[j][q]
      /\ \A q \in Sources \ {s} : targets'[q] = targets[q]
  BY DEF TypeInv, Tables
<1>2. Aimed'
  BY <1>1 DEF SafeInv, RefundInv, Aimed, Shown
<1>3. FirstRevision'
  BY <1>1, Numbers DEF SafeInv, RefundInv, FirstRevision, WorkersQuiet
<1>4. Cut'
  BY FewerCalls DEF SafeInv, RefundInv, Cut, Shown
<1>5. ASSUME TakenInv PROVE TakenInv'
  <2>1. Within'
    <3>1. ASSUME NEW q \in Sources, NEW j \in Rollouts, child'[j][q].status # "none",
                 Covered(q, child'[j][q].rev)
          PROVE  child'[j][q].items \subseteq removal.items
      BY <1>1, <1>5, <3>1 DEF TakenInv, Within
    <3>2. ASSUME NEW q \in Sources, NEW v \in Workers, worker'[v].pc = "queue",
                 q \in worker'[v].todo, Covered(q, worker'[v].rev[q])
          PROVE  worker'[v].missing \subseteq removal.items
      BY <1>5, <3>2 DEF TakenInv, Within, WorkersQuiet
    <3>. QED
      BY <3>1, <3>2 DEF Within, Covered
  <2>. QED
    BY <1>5, <2>1 DEF TakenInv, Fresh, Blank, Reached, Left, Grows, Shown, Covered, ItemsKept
<1>. QED
  BY <1>2, <1>3, <1>4, <1>5 DEF SafeInv, RefundInv

LEMMA QueueChildSafe ==
  ASSUME TypeInv, SafeInv, NEW w \in Workers, NEW s \in Sources, QueueChild(w, s)
  PROVE  SafeInv'
<1>. DEFINE k == worker[w].rollout
            o == [rev |-> worker[w].rev[s], status |-> "pending", items |-> worker[w].missing,
                  taken |-> {}]
<1>1. /\ k \in Rollouts /\ worker[w] \in WorkerType /\ worker[w].missing \in SUBSET Items
      /\ worker[w].rev[s] \in Revisions /\ worker[w].pc = "queue" /\ s \in worker[w].todo
  BY WorkerFacts DEF QueueChild
<1>2. UNCHANGED <<tariff, op, removal, ent>>
  BY DEF QueueChild
<1>3. ItemsKept
  BY <1>1, AllStay, ItemsStay DEF QueueChild, Fail
<1>4. WorkersQuiet
  <2>1. CASE worker' = [worker EXCEPT ![w] = [worker[w] EXCEPT !.todo = @ \ {s}]]
    <3>. DEFINE c == [worker[w] EXCEPT !.todo = @ \ {s}]
    <3>1. /\ c.pc = "queue" /\ c.todo = worker[w].todo \ {s} /\ c.rev = worker[w].rev
          /\ c.missing = worker[w].missing
      BY <1>1 DEF WorkerType
    <3>2. worker'[w] = c /\ \A v \in Workers \ {w} : worker'[v] = worker[v]
      BY <2>1 DEF TypeInv
    <3>. HIDE DEF c
    <3>. QED
      BY <1>1, <3>1, <3>2 DEF WorkersQuiet
  <2>2. CASE worker' = [worker EXCEPT ![w] = Running(k, rollout[k].children \cup {s}, worker[w].complete)]
    <3>1. Running(k, rollout[k].children \cup {s}, worker[w].complete).pc = "run"
      BY Fields
    <3>. QED
      BY <2>2, <3>1, AllStay
  <2>3. CASE worker' = [worker EXCEPT ![w] = Idle]
    BY <2>3, AllStay
  <2>. QED
    BY <2>1, <2>2, <2>3 DEF QueueChild, Fail
<1>5. CASE /\ child[k][s].status = "none"
           /\ child' = [child EXCEPT ![k][s] = o]
           /\ targets' = [targets EXCEPT ![s] = @ \cup worker[w].missing]
  <2>1. o \in ChildType /\ o.items = worker[w].missing /\ o.rev = worker[w].rev[s]
    BY <1>1 DEF ChildType
  <2>2. s \in Payments => o.rev = 0
    BY <1>1 DEF SafeInv, RefundInv, FirstRevision
  <2>3. TakenInv => (Covered(s, o.rev) => o.items \subseteq removal.items)
    BY <1>1, <2>1 DEF TakenInv, Within
  <2>. HIDE DEF o
  <2>. QED
    BY <1>1, <1>2, <1>3, <1>4, <1>5, <2>1, <2>2, <2>3, NewChild
<1>6. CASE UNCHANGED <<child, targets>>
  BY <1>2, <1>3, <1>4, <1>6, AllStay, SafeQuiet
<1>. QED
  BY <1>5, <1>6 DEF QueueChild

LEMMA ConcludedKept ==
  ASSUME TypeInv, NEW k \in Rollouts, NEW s \in Sources, NEW st, child[k][s].status # "none",
         child' = [child EXCEPT ![k][s].status = st]
  PROVE  ChildrenKept
<1>1. /\ child'[k][s] = [child[k][s] EXCEPT !.status = st]
      /\ \A j \in Rollouts, q \in Sources : j # k \/ q # s => child'[j][q] = child[j][q]
      /\ child[k][s] \in ChildType
  BY DEF TypeInv, Tables
<1>2. child'[k][s].items = child[k][s].items /\ child'[k][s].rev = child[k][s].rev
  BY <1>1 DEF ChildType
<1>. QED
  BY <1>1, <1>2 DEF ChildrenKept

LEMMA ReturnQuiet ==
  ASSUME TypeInv, NEW w \in Workers, worker[w].pc # "idle", NEW done \in BOOLEAN, Return(w, done)
  PROVE  WorkersQuiet
  BY ReturnForm, Blanks, AllStay

LEMMA FenceSafe ==
  ASSUME TypeInv, SafeInv, NEW w \in Workers, Fence(w)
  PROVE  SafeInv'
<1>. DEFINE k == worker[w].rollout
            s == worker[w].source
<1>0. /\ k \in Rollouts /\ s \in Sources /\ worker[w] \in WorkerType /\ worker[w].pc = "fence"
      /\ rollout[k].status # "none" /\ child[k][s].status # "none"
  BY WorkerFacts DEF Fence, Staged
<1>1. UNCHANGED <<tariff, op, targets, removal, ent>>
  BY DEF Fence
<1>2. ASSUME NEW st \in {"succeeded", "superseded"}, NEW done \in BOOLEAN,
             child' = [child EXCEPT ![k][s].status = st], UNCHANGED rollout, Return(w, done)
      PROVE  SafeInv'
  <2>1. ChildrenKept
    BY <1>0, <1>2, ConcludedKept
  <2>. QED
    BY <1>0, <1>1, <1>2, <2>1, ReturnQuiet, AllStay, SafeQuiet
<1>3. CASE Return(w, FALSE) /\ UNCHANGED <<child, rollout>>
  BY <1>0, <1>1, <1>3, ReturnQuiet, AllStay, SafeQuiet
<1>4. CASE Fail(w) /\ UNCHANGED child
  BY <1>0, <1>1, <1>4, AllStay, FailSafe
<1>5. CASE ~Obsolete(k, s) /\ worker' = [worker EXCEPT ![w].pc = "call"] /\ UNCHANGED <<child, rollout>>
  <2>1. /\ worker'[w].pc = "call" /\ worker'[w].source = s
        /\ \A v \in Workers \ {w} : worker'[v] = worker[v]
    BY <1>0, <1>5 DEF TypeInv, WorkerType
  <2>2. FirstRevision'
    BY <1>1, <1>5, <2>1 DEF SafeInv, RefundInv, FirstRevision
  <2>3. Cut'
    <3>1. s \in Payments => op[s].kind # "revoke"
      <4>1. ASSUME s \in Payments, op[s].kind = "revoke" PROVE FALSE
        <5>1. op[s].rev = 1 /\ child[k][s].rev = 0 /\ s \notin Grants
          BY <1>0, <4>1, Bounds DEF SafeInv, RefundInv, FirstRevision
        <5>. QED
          BY <1>5, <5>1 DEF Obsolete, QueuedRevision
      <4>. QED
        BY <4>1
    <3>2. \A q, i : q # s /\ Called(q, i)' => Called(q, i)
      BY <2>1 DEF Called
    <3>. HIDE DEF s, k
    <3>. QED
      BY <1>1, <3>1, <3>2 DEF SafeInv, RefundInv, Cut, Shown
  <2>4. RefundInv'
    BY <1>1, <1>5, <2>2, <2>3 DEF SafeInv, RefundInv, Aimed, Shown
  <2>5. ASSUME TakenInv PROVE TakenInv'
    <3>1. Within'
      BY <1>1, <1>5, <2>1, <2>5 DEF TakenInv, Within, Covered
    <3>. QED
      BY <1>1, <1>5, <2>5, <3>1 DEF TakenInv, Fresh, Blank, Reached, Left, Grows, Shown, Covered
  <2>. QED
    BY <2>4, <2>5 DEF SafeInv
<1>. QED
  BY <1>2, <1>3, <1>4, <1>5 DEF Fence

LEMMA CallSafe ==
  ASSUME TypeInv, TypeInv', SafeInv, NEW w \in Workers, NEW i \in Items, Call(w, i)
  PROVE  SafeInv'
<1>. DEFINE k == worker[w].rollout
            s == worker[w].source
            n == child[k][s].rev
<1>0. /\ k \in Rollouts /\ s \in Sources /\ child[k][s].status # "none"
      /\ rollout[k].status # "none" /\ i \in child[k][s].items
      /\ worker[w].pc = "call" /\ i \in worker[w].tries
      /\ n \in Nat /\ ent[i][s].rev \in Nat
  BY CallForm, Numbers DEF Call
<1>1. UNCHANGED <<tariff, op, targets, removal, rollout>>
  BY DEF Call
<1>2. WorkersQuiet
  <2>1. PICK b \in BOOLEAN : Tried(w, i, b)
    BY CallForm
  <2>. QED
    BY <1>0, <2>1, TriedForm, AllStay
<1>3. CASE UNCHANGED <<ent, child>>
  BY <1>1, <1>2, <1>3, AllStay, SafeQuiet
<1>4. CASE /\ Accepts(i, s, n)
           /\ ent' = [ent EXCEPT ![i][s] = Given(k, s)]
           /\ child' = [child EXCEPT ![k][s].taken = @ \cup {i}]
  <2>1. /\ ent'[i][s].state = "live" /\ ent'[i][s].rev = n
        /\ \A j \in Items, q \in Sources : j # i \/ q # s => ent'[j][q] = ent[j][q]
    <3>1. n \in Revisions
      BY <1>0 DEF TypeInv, Tables, ChildType
    <3>2. Given(k, s) \in EntType /\ Given(k, s).state = "live" /\ Given(k, s).rev = n
      BY <3>1, EntForms DEF Given
    <3>. QED
      BY <1>0, <1>4, <3>2, EntPut
  <2>2. ChildrenKept
    BY <1>0, <1>1, <1>4, TakenChild DEF ChildrenKept
  <2>3. Called(s, i)
    BY <1>0 DEF Called
  <2>4. PanelsOnward
    <3>1. ent'[i][s].state # "none" /\ (ent[i][s].state # "none" => ent'[i][s].rev >= ent[i][s].rev)
      BY <1>0, <1>4, <2>1 DEF Accepts
    <3>. QED
      BY <2>1, <3>1, Numbers DEF PanelsOnward
  <2>5. i \in targets[s]
    BY <1>0 DEF SafeInv, RefundInv, Aimed
  <2>6. s \in Payments => n = 0
    BY <1>0 DEF SafeInv, RefundInv, FirstRevision
  <2>. HIDE DEF s, k, n
  <2>7. Aimed'
    BY <1>1, <2>1, <2>2, <2>5 DEF SafeInv, RefundInv, Aimed, Shown, ChildrenKept
  <2>8. FirstRevision'
    BY <1>1, <1>2, <2>2, Numbers DEF SafeInv, RefundInv, FirstRevision, WorkersQuiet, ChildrenKept
  <2>9. Cut'
    <3>1. ASSUME s \in Payments, op[s].kind = "revoke"
          PROVE  op[s].status = "pending" /\ i \in op[s].items \ op[s].done
      BY <1>0, <1>4, <2>3, <2>6, <3>1 DEF SafeInv, RefundInv, Cut, Accepts
    <3>2. \A q, j : Called(q, j)' => Called(q, j)
      BY <1>2, FewerCalls
    <3>. QED
      BY <1>1, <2>1, <3>1, <3>2, Numbers DEF SafeInv, RefundInv, Cut, Shown
  <2>10. ASSUME TakenInv PROVE TakenInv'
    <3>1. Reached'
      BY <1>1, <2>4, <2>10, ReachedStays DEF TakenInv
    <3>2. Left'
      <4>1. ASSUME Covered(s, n) PROVE i \in removal.items \ removal.done
        <5>1. i \in removal.items
          BY <1>0, <2>10, <4>1 DEF TakenInv, Within, n
        <5>2. CASE i \in removal.done
          <6>1. ent[i][s].state # "none" /\ ent[i][s].rev >= removal.covers[s]
            <7>1. Covered(s, 0)
              BY <1>0, <4>1, Numbers DEF Covered
            <7>. QED
              BY <1>0, <2>10, <5>2, <7>1 DEF TakenInv, Reached
          <6>. QED
            BY <1>0, <1>4, <4>1, <6>1, Numbers DEF Accepts, Covered
        <5>. QED
          BY <5>1, <5>2
      <4>. QED
        BY <1>1, <2>1, <2>10, <4>1 DEF TakenInv, Left, Shown, Covered
    <3>3. Blank'
      BY <2>1, <2>10 DEF TakenInv, Blank
    <3>4. Within'
      <4>1. ASSUME NEW q \in Sources, NEW j \in Rollouts, child'[j][q].status # "none",
                   Covered(q, child'[j][q].rev)
            PROVE  child'[j][q].items \subseteq removal.items
        BY <2>2, <2>10, <4>1 DEF TakenInv, Within, ChildrenKept
      <4>2. ASSUME NEW q \in Sources, NEW v \in Workers, worker'[v].pc = "queue",
                   q \in worker'[v].todo, Covered(q, worker'[v].rev[q])
            PROVE  worker'[v].missing \subseteq removal.items
        BY <1>2, <2>10, <4>2 DEF TakenInv, Within, WorkersQuiet
      <4>. QED
        BY <1>1, <4>1, <4>2 DEF Within, Covered
    <3>. QED
      BY <1>1, <2>10, <3>1, <3>2, <3>3, <3>4 DEF TakenInv, Fresh, Grows, Covered
  <2>. QED
    BY <2>7, <2>8, <2>9, <2>10 DEF SafeInv, RefundInv
<1>. QED
  BY <1>3, <1>4, CallForm

LEMMA SafeInit == Init => SafeInv
<1>. SUFFICES ASSUME Init PROVE SafeInv
  OBVIOUS
<1>1. /\ \A s \in Sources : op[s] = NoOp /\ targets[s] = {}
      /\ \A k \in Rollouts : rollout[k] = NoRollout /\ \A s \in Sources : child[k][s] = NoChild
      /\ \A w \in Workers : worker[w] = Idle
      /\ \A i \in Items, s \in Sources : ent[i][s] = NoEnt
      /\ removal = NoRemoval
  BY DEF Init
<1>2. Aimed /\ FirstRevision /\ Cut
  BY <1>1, Blanks DEF Aimed, FirstRevision, Cut, Shown, NoOp, NoChild, NoEnt, Sources
<1>3. Fresh /\ Blank /\ Reached /\ Within /\ Left
  BY <1>1, Blanks DEF Fresh, Blank, Reached, Within, Left, Shown, Covered, NoOp, NoEnt, NoRemoval
<1>4. Grows
  BY <1>1 DEF Grows, NoRollout
<1>. QED
  BY <1>2, <1>3, <1>4 DEF SafeInv, RefundInv, TakenInv

LEMMA SafeNext == TypeInv /\ TypeInv' /\ SafeInv /\ [Next]_vars => SafeInv'
<1>. SUFFICES ASSUME TypeInv, TypeInv', SafeInv, [Next]_vars PROVE SafeInv'
  OBVIOUS
<1>1. CASE UNCHANGED vars
  BY <1>1, AllStay, SafeQuiet DEF vars
<1>. QED
  BY <1>1, SourceSafe, DeliverSafe, RevokeTariffSafe, RemoveAtSafe, UpdateTariffSafe,
     LeaseExpiresSafe, TakeSafe, ClaimSafe, CrashSafe, CollectSafe, FindSafe, QueueChildSafe,
     RunChildSafe, RetryChildSafe, FenceSafe, CallSafe, FinishSafe DEF Next

LEMMA SafeAlways == Spec => []SafeInv
<1>1. Init => SafeInv
  BY SafeInit
<1>2. TypeInv /\ TypeInv' /\ SafeInv /\ [Next]_vars => SafeInv'
  BY SafeNext
<1>. QED
  BY <1>1, <1>2, Invariance, PTL DEF Spec

(* A refund that has reached its last panel leaves nothing of the payment  *)
(* at any panel, though the tariff changes and rollouts computed before it *)
(* are still under way: its targets have the items of every child, and no  *)
(* child that was queued before it is above its revision.                  *)
THEOREM RefundedStaysOff ==
  Spec => [](\A s \in Sources : op[s].kind = "revoke" /\ op[s].status = "succeeded"
               => \A i \in Items : ent[i][s].state # "live")
<1>1. TypeInv /\ SafeInv =>
        \A s \in Sources : op[s].kind = "revoke" /\ op[s].status = "succeeded"
          => \A i \in Items : ent[i][s].state # "live"
  BY Bounds DEF TypeInv, Bounded, SafeInv, RefundInv, Cut, Shown
<1>. QED
  BY <1>1, Invariance, SafeAlways, PTL

(* While a tariff only gains items, neither a refund nor the revocation of *)
(* the whole tariff is undone by a child, a delivery or a panel that is    *)
(* late.                                                                   *)
THEOREM NothingRevived ==
  ASSUME ~Shrinks
  PROVE  Spec => []NoRevivedSource
<1>1. TypeInv /\ SafeInv => NoRevivedSource
  <2>. SUFFICES ASSUME TypeInv, SafeInv PROVE NoRevivedSource
    OBVIOUS
  <2>1. ASSUME NEW s \in Sources, op[s].kind = "revoke", op[s].status = "succeeded", NEW i \in Items
        PROVE  ent[i][s].state # "live"
    BY <2>1, Bounds DEF TypeInv, Bounded, SafeInv, RefundInv, Cut, Shown
  <2>2. ASSUME removal.status = "succeeded", NEW s \in Sources, NEW i \in Items, ent[i][s].state = "live"
        PROVE  ent[i][s].rev > removal.covers[s] \/ removal.covers[s] = 0
    BY <2>2, Numbers DEF SafeInv, TakenInv, Reached, Left, Shown, Covered
  <2>. QED
    BY <2>1, <2>2 DEF NoRevivedSource
<1>. QED
  BY <1>1, Invariance, SafeAlways, PTL

-----------------------------------------------------------------------------
(* The panels' contracts *)

(* What a panel has changes as its contract says, or not at all. *)
PanelStep(i) == Panel(i)!Next \/ UNCHANGED Panel(i)!cvars

LEMMA PanelGiven ==
  ASSUME TypeInv, NEW i \in Items, NEW s \in Sources, NEW n \in Revisions,
         Accepts(i, s, n), ent' = [ent EXCEPT ![i][s] = [state |-> "live", rev |-> n]], NEW j \in Items
  PROVE  PanelStep(j)
<1>1. ent \in [Items -> [Sources -> EntType]]
  BY DEF TypeInv, Tables
<1>2. CASE j # i
  <2>1. ent'[j] = ent[j]
    BY <1>1, <1>2
  <2>. QED
    BY <2>1 DEF PanelStep, Panel!cvars
<1>3. CASE j = i
  <2>1. ent'[i] = [ent[i] EXCEPT ![s] = [state |-> "live", rev |-> n]]
    BY <1>1
  <2>2. Panel(i)!Told
    BY DEF Panel!Told
  <2>3. Panel(i)!Give(s, n)
    <3>1. HeldAt([state |-> "live", rev |-> n]) = [state |-> "given", rev |-> n]
      BY DEF HeldAt
    <3>2. HeldAt(ent[i][s]).rev = ent[i][s].rev
          /\ (ent[i][s].state = "none" => HeldAt(ent[i][s]).state = "none")
      BY DEF HeldAt
    <3>3. [t \in Sources |-> HeldAt(ent'[i][t])]
          = [[t \in Sources |-> HeldAt(ent[i][t])] EXCEPT ![s] = [state |-> "given", rev |-> n]]
      BY <1>1, <2>1, <3>1
    <3>. QED
      BY <2>2, <3>2, <3>3 DEF Panel!Give, Panel!Unknown, Panel!Given, Accepts
  <2>. QED
    BY <1>3, <2>3 DEF PanelStep, Panel!Next
<1>. QED
  BY <1>2, <1>3

(* Some sources of a panel are barred, none later than its revision.       *)
LEMMA PanelBarred ==
  ASSUME TypeInv, NEW i \in Items, NEW S \in SUBSET Sources, NEW n \in [Sources -> Revisions],
         \A s \in S : ent[i][s].rev <= n[s],
         ent' = [ent EXCEPT ![i] = [s \in Sources |-> IF s \in S THEN Barred(i, s, n[s]) ELSE ent[i][s]]],
         NEW j \in Items
  PROVE  PanelStep(j)
<1>1. ent \in [Items -> [Sources -> EntType]]
  BY DEF TypeInv, Tables
<1>2. CASE j # i
  <2>1. ent'[j] = ent[j]
    BY <1>1, <1>2
  <2>. QED
    BY <2>1 DEF PanelStep, Panel!cvars
<1>3. CASE j = i
  <2>1. ent'[i] = [s \in Sources |-> IF s \in S THEN Barred(i, s, n[s]) ELSE ent[i][s]]
    BY <1>1
  <2>2. ASSUME NEW s \in S
        PROVE  HeldAt(ent'[i][s]) = [state |-> "withdrawn", rev |-> n[s]] /\ HeldAt(ent[i][s]).rev = ent[i][s].rev
    BY <2>1 DEF HeldAt, Barred
  <2>3. \A s \in Sources \ S : HeldAt(ent'[i][s]) = HeldAt(ent[i][s])
    BY <2>1
  <2>4. Panel(i)!Withdraw(S)
    BY <2>2, <2>3 DEF Panel!Withdraw, Panel!Withdrawn
  <2>. QED
    BY <1>3, <2>4 DEF PanelStep, Panel!Next
<1>. QED
  BY <1>2, <1>3

LEMMA PanelsStep ==
  ASSUME TypeInv, [Next]_vars, NEW j \in Items
  PROVE  PanelStep(j)
<1>1. CASE UNCHANGED ent
  BY <1>1 DEF PanelStep, Panel!cvars
<1>2. ASSUME NEW s \in Sources, NEW i \in Items, Deliver(s, i) PROVE PanelStep(j)
  <2>1. op[s].rev \in Revisions
    BY DEF TypeInv, Tables, OpType
  <2>2. CASE Accepts(i, s, op[s].rev) /\ ent' = [ent EXCEPT ![i][s] = [state |-> "live", rev |-> op[s].rev]]
    BY <2>1, <2>2, PanelGiven
  <2>3. CASE ent[i][s].rev <= op[s].rev /\ ent' = [ent EXCEPT ![i][s] = Barred(i, s, op[s].rev)]
    <3>. DEFINE n == [t \in Sources |-> op[s].rev]
    <3>1. n \in [Sources -> Revisions] /\ {s} \in SUBSET Sources /\ \A t \in {s} : ent[i][t].rev <= n[t]
      BY <2>1, <2>3
    <3>2. ent' = [ent EXCEPT ![i] = [t \in Sources |-> IF t \in {s} THEN Barred(i, t, n[t]) ELSE ent[i][t]]]
      <4>1. ent \in [Items -> [Sources -> EntType]]
        BY DEF TypeInv, Tables
      <4>. QED
        BY <2>3, <4>1
    <3>. HIDE DEF n
    <3>. QED
      BY <3>1, <3>2, PanelBarred
  <2>. QED
    BY <1>2, <2>2, <2>3 DEF Deliver
<1>3. ASSUME NEW i \in Items, RemoveAt(i) PROVE PanelStep(j)
  <2>. DEFINE n == removal.covers
              S == {s \in Sources : n[s] > 0 /\ n[s] >= ent[i][s].rev}
  <2>1. n \in [Sources -> Revisions] /\ ent \in [Items -> [Sources -> EntType]]
    BY DEF TypeInv, Tables, RemovalType
  <2>2. S \in SUBSET Sources /\ \A s \in S : ent[i][s].rev <= n[s]
    BY <2>1 DEF EntType, Revisions
  <2>3. ent' = [ent EXCEPT ![i] = [s \in Sources |-> IF s \in S THEN Barred(i, s, n[s]) ELSE ent[i][s]]]
    BY <1>3 DEF RemoveAt
  <2>. HIDE DEF n, S
  <2>. QED
    BY <2>1, <2>2, <2>3, PanelBarred
<1>4. ASSUME NEW w \in Workers, NEW i \in Items, Call(w, i) PROVE PanelStep(j)
  <2>. DEFINE k == worker[w].rollout
              s == worker[w].source
  <2>1. k \in Rollouts /\ s \in Sources /\ child[k][s].rev \in Revisions
    <3>1. worker[w].pc = "call"
      BY <1>4 DEF Call
    <3>2. k \in Rollouts /\ s \in Sources
      BY <3>1, WorkerFacts DEF Staged
    <3>. QED
      BY <3>2 DEF TypeInv, Tables, ChildType
  <2>2. \/ ent' = ent
        \/ Accepts(i, s, child[k][s].rev) /\ ent' = [ent EXCEPT ![i][s] = [state |-> "live", rev |-> child[k][s].rev]]
    BY <1>4 DEF Call, Given
  <2>. HIDE DEF k, s
  <2>. QED
    BY <1>1, <2>1, <2>2, PanelGiven
<1>5. CASE UNCHANGED vars
  BY <1>1, <1>5 DEF vars
<1>6. ASSUME NEW s \in Sources, Buy(s) \/ Give(s) \/ Refund(s) PROVE UNCHANGED ent
  BY <1>6 DEF Buy, Give, Refund, Queue
<1>7. CASE RevokeTariff \/ (\E items \in SUBSET Items : UpdateTariff(items)) \/ \E k \in Rollouts : LeaseExpires(k)
  BY <1>1, <1>7 DEF RevokeTariff, UpdateTariff, LeaseExpires
<1>8. ASSUME NEW w \in Workers,
             \/ \E k \in Rollouts : Take(w, k)
             \/ Claim(w) \/ Collect(w) \/ Find(w) \/ Fence(w) \/ Finish(w) \/ Crash(w)
             \/ \E s \in Sources :
                  \/ QueueChild(w, s) \/ RunChild(w, s)
                  \/ \E k \in Rollouts : RetryChild(w, k, s)
      PROVE  UNCHANGED ent
  BY <1>8 DEF Take, Claim, Collect, Find, Fence, Finish, Crash, QueueChild, RunChild, RetryChild
<1>. QED
  BY <1>1, <1>2, <1>3, <1>4, <1>5, <1>6, <1>7, <1>8 DEF Next

(* Whatever deliveries, rollouts, refunds and revocations come, repeated   *)
(* or late, each panel only does what its contract with the master says    *)
(* (entitlements.py, provision_operations.py).                             *)
THEOREM PanelsKeepTheContract == Spec => PanelsKeepContract
<1>. DEFINE Begins == \A i \in Items : Panel(i)!Init
            Moves == \A i \in Items : ent'[i] = ent[i] \/ Panel(i)!Next \/ UNCHANGED Panel(i)!cvars
<1>1. Init => Begins
  <2>. SUFFICES ASSUME Init, NEW i \in Items PROVE Panel(i)!Init
    OBVIOUS
  <2>1. \A s \in Sources : HeldAt(ent[i][s]) = [state |-> "none", rev |-> 0]
    BY DEF Init, NoEnt, HeldAt
  <2>. QED
    BY <2>1 DEF Panel!Init
<1>2. TypeInv /\ [Next]_vars => [Moves]_ent
  <2>1. ASSUME TypeInv, [Next]_vars, NEW i \in Items PROVE Panel(i)!Next \/ UNCHANGED Panel(i)!cvars
    BY <2>1, PanelsStep DEF PanelStep
  <2>. QED
    BY <2>1
<1>3. PanelsKeepContract <=> Begins /\ [][Moves]_ent
  BY DEF PanelsKeepContract
<1>. HIDE DEF Begins, Moves
<1>. QED
  BY <1>1, <1>2, <1>3, Invariance, PTL DEF Spec

=============================================================================
