-------------------------- MODULE OperationsProofs --------------------------
(***************************************************************************)
(* What is proved of Operations, for any targets, requests, jobs and       *)
(* bounds.                                                                 *)
(*                                                                         *)
(* Who owns a row plays no part: a lease may be lost at any moment, and    *)
(* calls of owners who gave up arrive when they like.  The safety of the   *)
(* nodes rests on revisions.  Each is handed out once (Rows), a node only  *)
(* takes a call that is not behind it, and so what reached a node stays    *)
(* there (ReachedStays).  A process that saw a target answer may therefore *)
(* count on it until it concludes (TaskInv), and what it concludes is true *)
(* of every node from then on.  Sent is what makes the account right: a    *)
(* grant carries the account's revision to a node, and it is only sent     *)
(* with one that does not block the account (_guard).                      *)
(***************************************************************************)
EXTENDS Operations, TLAPS

NoOp == <<"none", 0>>
Statuses == {"none", "pending", "succeeded", "superseded"}
Busy == {"claim", "fence", "call", "back", "complete", "release"}
Task == [pc: Busy \cup {"idle", "next", "mark"}, op: OpIds \cup {NoOp}, revokes: BOOLEAN, todo: SUBSET Targets,
         target: Targets \cup {"none"}, seen: 0..MaxStates, status: Statuses, failed: BOOLEAN, ok: BOOLEAN,
         list: SUBSET OpIds]
Works(c) ==
  /\ c.pc \in Busy => c.op \in OpIds
  /\ c.pc \in {"call", "back"} => c.target \in Targets
TypeInv ==
  /\ TypeOK
  /\ ctx \in [Procs -> Task]
  /\ \A p \in Procs : Works(ctx[p])
  /\ grant.status = "pending" => grant.rev > 0

-----------------------------------------------------------------------------
(* Identifiers, rows and tasks *)

LEMMA OpIdParts ==
  ASSUME NEW o \in OpIds
  PROVE  /\ o = <<Kind(o), Revision(o)>>
         /\ Kind(o) \in {"grant", "revoke", "account"}
         /\ Revision(o) \in Nat /\ Revision(o) > 0
         /\ Kind(o) = "grant" => Revision(o) <= MaxRevision
         /\ Kind(o) = "account" => Revision(o) <= MaxStates
  BY OperationsAssumption DEF OpIds, Kind, Revision

LEMMA OpIdOf ==
  /\ \A i \in 1..MaxRevision : <<"grant", i>> \in OpIds
  /\ \A i \in 1..MaxRevocations : <<"revoke", i>> \in OpIds
  /\ \A i \in 1..MaxStates : <<"account", i>> \in OpIds
  BY DEF OpIds

LEMMA RowForms ==
  /\ Fresh \in Row
  /\ \A b \in BOOLEAN : [Fresh EXCEPT !.blocks = b] \in Row
  /\ \A i \in 0..MaxRevision : [Fresh EXCEPT !.revoked = i] \in Row
  /\ \A r \in Row :
       /\ [r EXCEPT !.status = "superseded"] \in Row
       /\ \A q \in Procs \cup {Nobody} : [r EXCEPT !.owner = q, !.expired = FALSE] \in Row
       /\ \A d \in SUBSET Targets, s \in Statuses : [r EXCEPT !.done = d, !.status = s] \in Row
       /\ \A n \in Nat : [r EXCEPT !.status = "succeeded", !.told = n] \in Row
       /\ [r EXCEPT !.expired = TRUE] \in Row
<1>1. NoRow \in Row
  BY OperationsAssumption DEF NoRow, Row
<1>2. Fresh \in Row /\ Fresh = [NoRow EXCEPT !.status = "pending"]
  BY <1>1 DEF Fresh, Row
<1>. QED
  BY <1>2, OperationsAssumption DEF Row, Statuses

LEMMA IdleTask == Idle \in Task /\ Works(Idle)
  BY OperationsAssumption DEF Idle, Task, Works, NoOp, Busy, Statuses

(* Each way a task goes on leaves a task. *)
LEMMA TurnTask ==
  ASSUME NEW c \in Task, NEW o \in OpIds, NEW b \in BOOLEAN
  PROVE  [c EXCEPT !.pc = "claim", !.op = o, !.revokes = b] \in Task
         /\ Works([c EXCEPT !.pc = "claim", !.op = o, !.revokes = b])
  BY DEF Task, Works, Busy

LEMMA TakeTask ==
  ASSUME NEW c \in Task, NEW o \in OpIds, NEW l \in SUBSET OpIds
  PROVE  [c EXCEPT !.pc = "fence", !.op = o, !.todo = Targets, !.list = l] \in Task
         /\ Works([c EXCEPT !.pc = "fence", !.op = o, !.todo = Targets, !.list = l])
  BY DEF Task, Works, Busy

LEMMA ListTask ==
  ASSUME NEW c \in Task, Works(c), NEW l \in SUBSET OpIds
  PROVE  /\ [c EXCEPT !.list = l] \in Task
         /\ Works([c EXCEPT !.list = l])
         /\ [c EXCEPT !.pc = "next", !.list = l] \in Task
         /\ Works([c EXCEPT !.pc = "next", !.list = l])
  BY DEF Task, Works, Busy

LEMMA DoneTask ==
  ASSUME NEW c \in Task, NEW pc \in {"next", "idle"}
  PROVE  /\ [Idle EXCEPT !.pc = pc, !.list = c.list] \in Task
         /\ Works([Idle EXCEPT !.pc = pc, !.list = c.list])
         /\ [Idle EXCEPT !.pc = "mark"] \in Task
         /\ Works([Idle EXCEPT !.pc = "mark"])
<1>1. Idle \in Task
  BY IdleTask
<1>. QED
  BY <1>1 DEF Task, Works, Busy

LEMMA ResultTask ==
  ASSUME NEW c \in Task, NEW ok \in BOOLEAN, c.op \in OpIds
  PROVE  /\ [Idle EXCEPT !.pc = "release", !.op = c.op, !.revokes = c.revokes, !.ok = ok, !.list = c.list] \in Task
         /\ Works([Idle EXCEPT !.pc = "release", !.op = c.op, !.revokes = c.revokes, !.ok = ok, !.list = c.list])
<1>1. Idle \in Task
  BY IdleTask
<1>. QED
  BY <1>1 DEF Task, Works, Busy

LEMMA FenceTask ==
  ASSUME NEW c \in Task, c.op \in OpIds, NEW d \in SUBSET Targets
  PROVE  /\ [c EXCEPT !.pc = "fence", !.todo = d] \in Task
         /\ Works([c EXCEPT !.pc = "fence", !.todo = d])
         /\ c.pc = "fence" => [c EXCEPT !.todo = d] \in Task /\ Works([c EXCEPT !.todo = d])
         /\ [c EXCEPT !.pc = "complete"] \in Task
         /\ Works([c EXCEPT !.pc = "complete"])
  BY DEF Task, Works, Busy

LEMMA CallTask ==
  ASSUME NEW c \in Task, c.op \in OpIds, NEW t \in Targets, NEW n \in 0..MaxStates
  PROVE  /\ [c EXCEPT !.pc = "back", !.target = t, !.ok = FALSE] \in Task
         /\ Works([c EXCEPT !.pc = "back", !.target = t, !.ok = FALSE])
         /\ [c EXCEPT !.pc = "call", !.target = t, !.seen = n] \in Task
         /\ Works([c EXCEPT !.pc = "call", !.target = t, !.seen = n])
  BY DEF Task, Works, Busy

LEMMA AnswerTask ==
  ASSUME NEW c \in Task, c.op \in OpIds, c.target \in Targets, NEW s \in Statuses, NEW ok \in BOOLEAN
  PROVE  /\ [c EXCEPT !.pc = "back", !.status = s, !.ok = ok] \in Task
         /\ Works([c EXCEPT !.pc = "back", !.status = s, !.ok = ok])
         /\ [c EXCEPT !.pc = "back", !.ok = ok] \in Task
         /\ Works([c EXCEPT !.pc = "back", !.ok = ok])
  BY DEF Task, Works, Busy

LEMMA BackTask ==
  ASSUME NEW c \in Task, c.op \in OpIds, NEW d \in SUBSET Targets, NEW f \in BOOLEAN
  PROVE  LET e == [c EXCEPT !.pc = "fence", !.todo = d, !.failed = f, !.target = "none", !.seen = 0,
                            !.status = "none", !.ok = FALSE]
         IN e \in Task /\ Works(e)
<1>1. 0 \in 0..MaxStates
  BY OperationsAssumption
<1>. QED
  BY <1>1 DEF Task, Works, Busy, Statuses
-----------------------------------------------------------------------------
(* Type correctness *)

LEMMA InitType == Init => TypeInv
<1>. SUFFICES ASSUME Init PROVE TypeInv
  OBVIOUS
<1>1. NoRow \in Row
  BY OperationsAssumption DEF NoRow, Row
<1>2. TypeOK
  <2>. 0 \in 0..MaxStates /\ 0 \in 0..MaxRevision /\ 0 \in 0..MaxFaults
    BY OperationsAssumption
  <2>. QED
    BY <1>1 DEF Init, TypeOK
<1>. QED
  BY <1>2, IdleTask DEF Init, TypeInv

(* A process whose task stays a task. *)
LEMMA PutTask ==
  ASSUME TypeInv, NEW p \in Procs, NEW c \in Task, Works(c), ctx' = [ctx EXCEPT ![p] = c]
  PROVE  ctx' \in [Procs -> Task] /\ \A q \in Procs : Works(ctx'[q])
  BY DEF TypeInv

(* The operation of a process that is busy. *)
LEMMA OpOf ==
  ASSUME TypeInv, NEW p \in Procs
  PROVE  /\ ctx[p] \in Task /\ Works(ctx[p])
         /\ ctx[p].pc \in Busy => ctx[p].op \in OpIds /\ ops[ctx[p].op] \in Row /\ ops[ctx[p].op].status \in Statuses
         /\ ctx[p].pc \in {"call", "back"} => ctx[p].target \in Targets
         /\ ctx[p].list \in SUBSET OpIds
<1>1. \A r \in Row : r.status \in Statuses
  BY DEF Row, Statuses
<1>. QED
  BY <1>1 DEF TypeInv, TypeOK, Works, Task

(* The result of an operation. *)
LEMMA ResultType ==
  ASSUME TypeInv, NEW p \in Procs, NEW ok \in BOOLEAN, ctx[p].pc \in Busy, Result(p, ok)
  PROVE  ctx' \in [Procs -> Task] /\ \A q \in Procs : Works(ctx'[q])
  BY OpOf, PutTask, ResultTask DEF Result

(* A row that is written stays a row. *)
LEMMA PutRow ==
  ASSUME TypeInv, NEW o \in OpIds, NEW r \in Row, ops' = [ops EXCEPT ![o] = r]
  PROVE  ops' \in [OpIds -> Row]
  BY DEF TypeInv, TypeOK

LEMMA RequestType ==
  ASSUME TypeInv, NEW p \in Procs, Request(p)
  PROVE  TypeInv'
<1>1. \A o \in OpIds, b \in BOOLEAN : Turn(p, o, b) => ctx' \in [Procs -> Task] /\ \A q \in Procs : Works(ctx'[q])
  <2>. TAKE o \in OpIds, b \in BOOLEAN
  <2>. HAVE Turn(p, o, b)
  <2>1. ctx' = [ctx EXCEPT ![p] = [ctx[p] EXCEPT !.pc = "claim", !.op = o, !.revokes = b]]
    BY DEF Turn, TypeInv
  <2>. QED
    BY <2>1, OpOf, TurnTask, PutTask
<1>2. CASE RequestGrant(p)
  <2>1. grant.rev \in 0..MaxRevision /\ MaxRevision \in Nat
    BY OperationsAssumption DEF TypeInv, TypeOK
  <2>2. CASE grant.status = "pending" /\ Turn(p, <<"grant", grant.rev>>, FALSE) /\ UNCHANGED <<grant, ops>>
    <3>1. <<"grant", grant.rev>> \in OpIds
      BY <2>1, <2>2, OpIdOf DEF TypeInv
    <3>. QED
      BY <1>1, <1>2, <2>2, <3>1 DEF RequestGrant, TypeInv, TypeOK, Calls
  <2>3. CASE /\ grant.rev < MaxRevision
             /\ grant' = [billing |-> "free", status |-> "pending", rev |-> grant.rev + 1]
             /\ ops' = [ops EXCEPT ![<<"grant", grant.rev + 1>>] = Fresh]
             /\ Turn(p, <<"grant", grant.rev + 1>>, FALSE)
    <3>1. <<"grant", grant.rev + 1>> \in OpIds
      BY <2>1, <2>3, OpIdOf
    <3>2. ops' \in [OpIds -> Row]
      BY <2>3, <3>1, RowForms, PutRow
    <3>3. grant.rev + 1 \in 0..MaxRevision /\ grant.rev + 1 > 0
      BY <2>1, <2>3
    <3>4. /\ grant' \in [billing: {"none", "free", "paid"}, status: {"none", "pending", "succeeded", "revoking", "revoked"},
                         rev: 0..MaxRevision]
          /\ grant'.rev > 0
      BY <2>3, <3>3
    <3>. QED
      BY <1>1, <1>2, <2>3, <3>1, <3>2, <3>4 DEF RequestGrant, TypeInv, TypeOK, Calls
  <2>. QED
    BY <1>2, <2>2, <2>3 DEF RequestGrant
<1>3. CASE RequestOffer(p)
  BY <1>3 DEF RequestOffer, TypeInv, TypeOK, Calls
<1>4. CASE RequestRevoke(p)
  <2>1. grant.rev \in 0..MaxRevision /\ MaxRevision \in Nat
    BY OperationsAssumption DEF TypeInv, TypeOK
  <2>2. ASSUME NEW o \in Pending("revoke"), grant' = [grant EXCEPT !.status = "revoking"], Turn(p, o, TRUE), UNCHANGED ops
        PROVE  TypeInv'
    BY <1>1, <1>4, <2>2 DEF RequestRevoke, Pending, TypeInv, TypeOK, Calls
  <2>3. ASSUME NEW k \in 1..MaxRevocations,
               grant.rev < MaxRevision,
               grant' = [grant EXCEPT !.status = "revoking", !.rev = @ + 1],
               ops' = [o \in OpIds |->
                       IF o = <<"revoke", k>> THEN [Fresh EXCEPT !.revoked = grant.rev + 1]
                       ELSE IF Kind(o) = "grant" /\ ops[o].status # "none" THEN [ops[o] EXCEPT !.status = "superseded"]
                       ELSE ops[o]],
               Turn(p, <<"revoke", k>>, TRUE)
        PROVE  TypeInv'
    <3>1. <<"revoke", k>> \in OpIds
      BY OpIdOf
    <3>2. ops' \in [OpIds -> Row]
      <4>1. grant.rev + 1 \in 0..MaxRevision
        BY <2>1, <2>3
      <4>. QED
        BY <2>3, <4>1, RowForms DEF TypeInv, TypeOK
    <3>3. grant' \in [billing: {"none", "free", "paid"}, status: {"none", "pending", "succeeded", "revoking", "revoked"},
                      rev: 0..MaxRevision] /\ grant'.status = "revoking"
      <4>1. grant.rev + 1 \in 0..MaxRevision
        BY <2>1, <2>3
      <4>2. grant' = [billing |-> grant.billing, status |-> "revoking", rev |-> grant.rev + 1]
        BY <2>3 DEF TypeInv, TypeOK
      <4>. QED
        BY <4>1, <4>2 DEF TypeInv, TypeOK
    <3>4. ctx' \in [Procs -> Task] /\ \A q \in Procs : Works(ctx'[q])
      BY <1>1, <2>3, <3>1
    <3>5. UNCHANGED <<user, node, late, faults>>
      BY <1>4 DEF RequestRevoke
    <3>. QED
      BY <3>2, <3>3, <3>4, <3>5 DEF TypeInv, TypeOK, Calls
  <2>. QED
    BY <1>4, <2>2, <2>3 DEF RequestRevoke
<1>5. ASSUME NEW b \in BOOLEAN, RequestState(p, b) PROVE TypeInv'
  <2>1. user.rev + 1 \in 1..MaxStates
    BY <1>5, OperationsAssumption DEF RequestState, TypeInv, TypeOK
  <2>2. <<"account", user.rev + 1>> \in OpIds
    BY <2>1, OpIdOf
  <2>3. ops' \in [OpIds -> Row]
    BY <1>5, <2>2, RowForms, PutRow DEF RequestState
  <2>4. user' \in [blocked: BOOLEAN, rev: 0..MaxStates]
    BY <1>5, <2>1 DEF RequestState
  <2>5. ctx' \in [Procs -> Task] /\ \A q \in Procs : Works(ctx'[q])
    BY <1>1, <1>5, <2>2 DEF RequestState
  <2>. QED
    BY <1>5, <2>3, <2>4, <2>5 DEF RequestState, TypeInv, TypeOK, Calls
<1>. QED
  BY <1>2, <1>3, <1>4, <1>5 DEF Request

(* What the nodes do with a call. *)
LEMMA ExecuteType ==
  ASSUME TypeInv, NEW o \in OpIds, NEW t \in Targets, NEW a \in 0..MaxStates, Execute(o, t, a)
  PROVE  node' \in [Targets -> [rev: 0..MaxRevision, live: BOOLEAN, account: 0..MaxStates, blocked: BOOLEAN]]
<1>. DEFINE N == [rev: 0..MaxRevision, live: BOOLEAN, account: 0..MaxStates, blocked: BOOLEAN]
<1>1. ops[o].revoked \in 0..MaxRevision /\ ops[o].blocks \in BOOLEAN
  BY DEF TypeInv, TypeOK, Row
<1>2. node[t] \in N
  BY DEF TypeInv, TypeOK
<1>3. After(node[t], o, a) \in N
  <2>1. /\ node[t].rev \in 0..MaxRevision /\ node[t].live \in BOOLEAN
        /\ node[t].account \in 0..MaxStates /\ node[t].blocked \in BOOLEAN
    BY <1>2
  <2>2. CASE Kind(o) = "grant"
    <3>1. After(node[t], o, a) = [rev |-> Revision(o), live |-> TRUE, account |-> a, blocked |-> node[t].blocked]
      BY <1>2, <2>2 DEF After
    <3>2. Revision(o) \in 0..MaxRevision
      BY <2>2, OpIdParts, OperationsAssumption
    <3>. QED
      BY <2>1, <3>1, <3>2
  <2>3. CASE Kind(o) = "revoke"
    BY <1>1, <1>2, <2>3 DEF After
  <2>4. CASE Kind(o) = "account"
    <3>1. After(node[t], o, a) = [rev |-> node[t].rev, live |-> node[t].live, account |-> Revision(o), blocked |-> ops[o].blocks]
      BY <1>2, <2>4 DEF After
    <3>2. Revision(o) \in 0..MaxStates
      BY <2>4, OpIdParts, OperationsAssumption
    <3>. QED
      BY <1>1, <2>1, <3>1, <3>2
  <2>. QED
    BY <2>2, <2>3, <2>4, OpIdParts
<1>4. node \in [Targets -> N]
  BY DEF TypeInv, TypeOK
<1>. HIDE DEF N
<1>5. node' \in [Targets -> N]
  BY <1>3, <1>4 DEF Execute
<1>. QED
  BY <1>5 DEF N

(* Everything but the rows and the tasks is left alone. *)
LEMMA RowStep ==
  ASSUME TypeInv, UNCHANGED <<user, grant, node, late>>, faults' \in 0..MaxFaults,
         ops' \in [OpIds -> Row], ctx' \in [Procs -> Task], \A q \in Procs : Works(ctx'[q])
  PROVE  TypeInv'
  BY DEF TypeInv, TypeOK, Calls

LEMMA FaultType == ASSUME TypeInv, Fault PROVE faults' \in 0..MaxFaults
  BY OperationsAssumption DEF TypeInv, TypeOK, Fault

LEMMA JobType ==
  ASSUME TypeInv, NEW p \in Jobs,
         JobStarts(p) \/ (\E o \in OpIds : JobTakes(p, o)) \/ JobEnds(p)
  PROVE  TypeInv'
<1>. p \in Procs
  BY DEF Procs
<1>. DEFINE c == ctx[p]
<1>0. c \in Task /\ Works(c) /\ c.list \in SUBSET OpIds /\ faults \in 0..MaxFaults /\ ops \in [OpIds -> Row]
  BY OpOf DEF TypeInv, TypeOK
<1>1. CASE JobStarts(p)
  <2>1. ctx' = [ctx EXCEPT ![p] = [c EXCEPT !.pc = "next", !.list = Selected]] /\ Selected \in SUBSET OpIds
    BY <1>1 DEF JobStarts, Selected, TypeInv
  <2>. QED
    BY <1>0, <1>1, <2>1, ListTask, PutTask, RowStep DEF JobStarts
<1>2. ASSUME NEW o \in OpIds, JobTakes(p, o) PROVE TypeInv'
  <2>1. CASE Claimable(o)
    <3>1. ops' = [ops EXCEPT ![o] = [ops[o] EXCEPT !.owner = p, !.expired = FALSE]]
      BY <1>0, <1>2, <2>1 DEF JobTakes, Claimed
    <3>2. ops' \in [OpIds -> Row]
      <4>1. [ops[o] EXCEPT !.owner = p, !.expired = FALSE] \in Row
        BY <1>0, RowForms
      <4>. QED
        BY <3>1, <4>1, PutRow
    <3>3. ctx' = [ctx EXCEPT ![p] = [c EXCEPT !.pc = "fence", !.op = o, !.todo = Targets, !.list = c.list \ {o}]]
      BY <1>2, <2>1 DEF JobTakes
    <3>4. [c EXCEPT !.pc = "fence", !.op = o, !.todo = Targets, !.list = c.list \ {o}] \in Task
          /\ Works([c EXCEPT !.pc = "fence", !.op = o, !.todo = Targets, !.list = c.list \ {o}])
      BY <1>0, TakeTask
    <3>5. ctx' \in [Procs -> Task] /\ \A q \in Procs : Works(ctx'[q])
      BY <3>3, <3>4, PutTask
    <3>. QED
      BY <1>0, <1>2, <3>2, <3>5, RowStep DEF JobTakes
  <2>2. CASE ~Claimable(o)
    <3>1. ctx' = [ctx EXCEPT ![p] = [c EXCEPT !.list = c.list \ {o}]] /\ UNCHANGED ops
      BY <1>2, <2>2 DEF JobTakes, TypeInv
    <3>2. ctx' \in [Procs -> Task] /\ \A q \in Procs : Works(ctx'[q])
      BY <1>0, <3>1, ListTask, PutTask
    <3>. QED
      BY <1>0, <1>2, <3>1, <3>2, RowStep DEF JobTakes
  <2>. QED
    BY <2>1, <2>2
<1>3. CASE JobEnds(p)
  BY <1>0, <1>3, IdleTask, PutTask, RowStep DEF JobEnds
<1>. QED
  BY <1>1, <1>2, <1>3

LEMMA ClaimType == ASSUME TypeInv, NEW p \in Procs, Claim(p) PROVE TypeInv'
<1>. DEFINE c == ctx[p]
            o == c.op
<1>0. /\ c \in Task /\ o \in OpIds /\ faults \in 0..MaxFaults /\ ops \in [OpIds -> Row]
  BY OpOf DEF TypeInv, TypeOK, Claim, At, Busy
<1>1. CASE Claimable(o)
  <2>1. ops' = [ops EXCEPT ![o] = [ops[o] EXCEPT !.owner = p, !.expired = FALSE]]
    BY <1>0, <1>1 DEF Claim, Claimed
  <2>2. ops' \in [OpIds -> Row]
    BY <1>0, <2>1, RowForms, PutRow
  <2>3. ctx' = [ctx EXCEPT ![p] = [c EXCEPT !.pc = "fence", !.todo = Targets]]
    BY <1>1 DEF Claim, TypeInv
  <2>4. ctx' \in [Procs -> Task] /\ \A q \in Procs : Works(ctx'[q])
    BY <1>0, <2>3, FenceTask, PutTask
  <2>. QED
    BY <1>0, <2>2, <2>4, RowStep DEF Claim
<1>2. CASE ~Claimable(o)
  <2>1. ctx' \in [Procs -> Task] /\ \A q \in Procs : Works(ctx'[q])
    BY <1>0, <1>2, IdleTask, PutTask DEF Claim
  <2>. QED
    BY <1>0, <1>2, <2>1, RowStep DEF Claim
<1>. QED
  BY <1>1, <1>2

LEMMA FenceType == ASSUME TypeInv, NEW p \in Procs, NEW t \in Targets, Fence(p, t) PROVE TypeInv'
<1>. DEFINE c == ctx[p]
            o == c.op
<1>0. /\ c \in Task /\ o \in OpIds /\ faults \in 0..MaxFaults /\ ops \in [OpIds -> Row] /\ c.pc = "fence"
      /\ user.rev \in 0..MaxStates /\ c.todo \in SUBSET Targets /\ ops[o] \in Row
  BY OpOf DEF TypeInv, TypeOK, Fence, At, Busy, Task
<1>1. UNCHANGED <<user, grant, node, late, faults>>
  BY DEF Fence
<1>2. CASE Superseded(p, o)
  <2>1. ops' \in [OpIds -> Row]
    <3>1. [ops[o] EXCEPT !.status = "superseded"] \in Row
      BY <1>0, RowForms
    <3>2. ops' = ops \/ ops' = [ops EXCEPT ![o] = [ops[o] EXCEPT !.status = "superseded"]]
      BY <1>0, <1>2 DEF Superseded
    <3>. QED
      BY <1>0, <3>1, <3>2, PutRow
  <2>2. ctx' \in [Procs -> Task] /\ \A q \in Procs : Works(ctx'[q])
    BY <1>0, <1>2, ResultType DEF Superseded, Busy
  <2>. QED
    BY <1>0, <1>1, <2>1, <2>2, RowStep
<1>3. CASE ctx' = [ctx EXCEPT ![p].pc = "back", ![p].target = t, ![p].ok = FALSE] /\ UNCHANGED ops
  <2>1. ctx' = [ctx EXCEPT ![p] = [c EXCEPT !.pc = "back", !.target = t, !.ok = FALSE]]
    BY <1>3 DEF TypeInv
  <2>2. ctx' \in [Procs -> Task] /\ \A q \in Procs : Works(ctx'[q])
    BY <1>0, <2>1, CallTask, PutTask
  <2>. QED
    BY <1>0, <1>1, <1>3, <2>2, RowStep
<1>4. CASE Result(p, FALSE) /\ UNCHANGED ops
  <2>1. ctx' \in [Procs -> Task] /\ \A q \in Procs : Works(ctx'[q])
    BY <1>0, <1>4, ResultType DEF Busy
  <2>. QED
    BY <1>0, <1>1, <1>4, <2>1, RowStep
<1>5. CASE ctx' = [ctx EXCEPT ![p].todo = @ \ {t}] /\ UNCHANGED ops
  <2>1. ctx' = [ctx EXCEPT ![p] = [c EXCEPT !.todo = c.todo \ {t}]]
    BY <1>5 DEF TypeInv
  <2>2. ctx' \in [Procs -> Task] /\ \A q \in Procs : Works(ctx'[q])
    BY <1>0, <2>1, FenceTask, PutTask
  <2>. QED
    BY <1>0, <1>1, <1>5, <2>2, RowStep
<1>6. CASE ctx' = [ctx EXCEPT ![p].pc = "call", ![p].target = t, ![p].seen = user.rev] /\ UNCHANGED ops
  <2>1. ctx' = [ctx EXCEPT ![p] = [c EXCEPT !.pc = "call", !.target = t, !.seen = user.rev]]
    BY <1>6 DEF TypeInv
  <2>2. ctx' \in [Procs -> Task] /\ \A q \in Procs : Works(ctx'[q])
    BY <1>0, <2>1, CallTask, PutTask
  <2>. QED
    BY <1>0, <1>1, <1>6, <2>2, RowStep
<1>. QED
  BY <1>2, <1>3, <1>4, <1>5, <1>6 DEF Fence

(* A task changes, and nothing else that has a type to lose. *)
LEMMA TaskStep ==
  ASSUME TypeInv, UNCHANGED <<user, grant, ops>>, faults' \in 0..MaxFaults, late' \subseteq Calls,
         node' \in [Targets -> [rev: 0..MaxRevision, live: BOOLEAN, account: 0..MaxStates, blocked: BOOLEAN]],
         NEW p \in Procs, NEW c \in Task, Works(c), ctx' = [ctx EXCEPT ![p] = c] \/ ctx' = ctx
  PROVE  TypeInv'
<1>1. ctx' \in [Procs -> Task] /\ \A q \in Procs : Works(ctx'[q])
  BY PutTask DEF TypeInv
<1>. QED
  BY <1>1 DEF TypeInv, TypeOK, Calls

LEMMA CallType == ASSUME TypeInv, NEW p \in Procs, Call(p) \/ CallFails(p) PROVE TypeInv'
<1>. DEFINE c == ctx[p]
            o == c.op
            N == [rev: 0..MaxRevision, live: BOOLEAN, account: 0..MaxStates, blocked: BOOLEAN]
<1>0. /\ c \in Task /\ o \in OpIds /\ c.target \in Targets /\ c.seen \in 0..MaxStates /\ c.pc = "call"
      /\ ops[o].status \in Statuses /\ faults \in 0..MaxFaults /\ late \subseteq Calls
      /\ node \in [Targets -> N]
  BY OpOf DEF TypeInv, TypeOK, Call, CallFails, At, Busy, Task, Calls
<1>1. CASE Call(p)
  <2>1. node' \in [Targets -> N]
    BY <1>0, <1>1, ExecuteType DEF Call
  <2>. DEFINE ok == Accepts(node[c.target], o, c.seen)
  <2>2. ok \in BOOLEAN
    <3>1. node[c.target].blocked \in BOOLEAN /\ node[c.target].live \in BOOLEAN
      BY <1>0
    <3>. QED
      BY <3>1, OpIdParts, <1>0 DEF Accepts
  <2>3. ctx' = [ctx EXCEPT ![p] = [c EXCEPT !.pc = "back", !.status = ops[o].status, !.ok = ok]]
    BY <1>1 DEF Call, TypeInv
  <2>4. [c EXCEPT !.pc = "back", !.status = ops[o].status, !.ok = ok] \in Task
        /\ Works([c EXCEPT !.pc = "back", !.status = ops[o].status, !.ok = ok])
    BY <1>0, <2>2, AnswerTask
  <2>. QED
    BY <1>0, <1>1, <2>1, <2>3, <2>4, TaskStep DEF Call
<1>2. CASE CallFails(p)
  <2>1. ctx' = [ctx EXCEPT ![p] = [c EXCEPT !.pc = "back", !.ok = FALSE]]
    BY <1>2 DEF CallFails, TypeInv
  <2>2. [c EXCEPT !.pc = "back", !.ok = FALSE] \in Task /\ Works([c EXCEPT !.pc = "back", !.ok = FALSE])
    BY <1>0, AnswerTask
  <2>3. late' \subseteq Calls
    BY <1>0, <1>2 DEF CallFails, Calls
  <2>. QED
    BY <1>0, <1>2, <2>1, <2>2, <2>3, FaultType, TaskStep DEF CallFails
<1>. QED
  BY <1>1, <1>2

LEMMA LateCallType == ASSUME TypeInv, LateCall PROVE TypeInv'
<1>1. PICK c \in late : Execute(c.op, c.target, c.seen) /\ late' = late \ {c}
  BY DEF LateCall
<1>2. c.op \in OpIds /\ c.target \in Targets /\ c.seen \in 0..MaxStates
  BY DEF TypeInv, TypeOK, Calls
<1>3. node' \in [Targets -> [rev: 0..MaxRevision, live: BOOLEAN, account: 0..MaxStates, blocked: BOOLEAN]]
  BY <1>1, <1>2, ExecuteType
<1>. QED
  BY <1>1, <1>3 DEF LateCall, TypeInv, TypeOK, Calls

LEMMA BackType == ASSUME TypeInv, NEW p \in Procs, Back(p) PROVE TypeInv'
<1>. DEFINE c == ctx[p]
            o == c.op
            failed == c.failed \/ ~c.ok
            done == IF c.ok THEN ops[o].done \cup {c.target} ELSE ops[o].done \ {c.target}
            status == IF failed THEN "pending" ELSE c.status
<1>0. /\ c \in Task /\ o \in OpIds /\ c.target \in Targets /\ c.pc = "back" /\ c.todo \in SUBSET Targets
      /\ ops \in [OpIds -> Row] /\ ops[o] \in Row /\ faults \in 0..MaxFaults
      /\ c.failed \in BOOLEAN /\ c.ok \in BOOLEAN /\ c.status \in Statuses
  BY OpOf DEF TypeInv, TypeOK, Back, At, Busy, Task
<1>1. CASE Holds(p, o)
  <2>1. ops' = [ops EXCEPT ![o] = [ops[o] EXCEPT !.done = done, !.status = status]]
    BY <1>0, <1>1 DEF Back
  <2>2. done \in SUBSET Targets /\ status \in Statuses /\ failed \in BOOLEAN
    BY <1>0 DEF Row, Statuses
  <2>3. ctx' = [ctx EXCEPT ![p] = [c EXCEPT !.pc = "fence", !.todo = c.todo \ {c.target}, !.failed = failed,
                                            !.target = "none", !.seen = 0, !.status = "none", !.ok = FALSE]]
    BY <1>1 DEF Back
  <2>. HIDE DEF done, status, failed
  <2>4. ops' \in [OpIds -> Row]
    <3>1. [ops[o] EXCEPT !.done = done, !.status = status] \in Row
      BY <1>0, <2>2, RowForms
    <3>. QED
      BY <1>0, <2>1, <3>1, PutRow
  <2>5. c.todo \ {c.target} \in SUBSET Targets
    BY <1>0
  <2>6. ctx' \in [Procs -> Task] /\ \A q \in Procs : Works(ctx'[q])
    BY <1>0, <2>2, <2>3, <2>5, BackTask, PutTask
  <2>. QED
    BY <1>0, <2>4, <2>6, RowStep DEF Back
<1>2. CASE ~Holds(p, o)
  <2>1. ctx' \in [Procs -> Task] /\ \A q \in Procs : Works(ctx'[q])
    BY <1>0, <1>2, ResultType DEF Back, Busy
  <2>. QED
    BY <1>0, <1>2, <2>1, RowStep DEF Back
<1>. QED
  BY <1>1, <1>2

LEMMA FinishType == ASSUME TypeInv, NEW p \in Procs, Finish(p) PROVE TypeInv'
<1>. DEFINE c == ctx[p]
<1>0. c \in Task /\ c.op \in OpIds /\ c.pc = "fence" /\ faults \in 0..MaxFaults /\ ops \in [OpIds -> Row]
  BY OpOf DEF TypeInv, TypeOK, Finish, At, Busy, Task
<1>1. CASE Result(p, FALSE)
  <2>1. ctx' \in [Procs -> Task] /\ \A q \in Procs : Works(ctx'[q])
    BY <1>0, <1>1, ResultType DEF Busy
  <2>. QED
    BY <1>0, <2>1, RowStep DEF Finish
<1>2. CASE Go(p, "complete")
  <2>1. ctx' = [ctx EXCEPT ![p] = [c EXCEPT !.pc = "complete"]]
    BY <1>2 DEF Go, TypeInv
  <2>2. ctx' \in [Procs -> Task] /\ \A q \in Procs : Works(ctx'[q])
    BY <1>0, <2>1, FenceTask, PutTask
  <2>. QED
    BY <1>0, <2>2, RowStep DEF Finish
<1>. QED
  BY <1>1, <1>2 DEF Finish

LEMMA CompleteType == ASSUME TypeInv, NEW p \in Procs, Complete(p) PROVE TypeInv'
<1>. DEFINE c == ctx[p]
            o == c.op
            first == Holds(p, o) /\ ~Newer(o) /\ ~Barred(o) /\ ops[o].status # "succeeded"
            told == IF Kind(o) = "account" THEN ops[o].told + 1 ELSE ops[o].told
<1>0. /\ o \in OpIds /\ c.pc = "complete" /\ ops[o] \in Row /\ ops \in [OpIds -> Row]
  BY OpOf DEF TypeInv, TypeOK, Complete, At, Busy
<1>1. ops' \in [OpIds -> Row]
  <2>1. told \in Nat
    BY <1>0 DEF Row
  <2>2. [ops[o] EXCEPT !.status = "succeeded", !.told = told] \in Row
    BY <1>0, <2>1, RowForms
  <2>3. ops' = ops \/ ops' = [ops EXCEPT ![o] = [ops[o] EXCEPT !.status = "succeeded", !.told = told]]
    BY <1>0 DEF Complete
  <2>. QED
    BY <1>0, <2>2, <2>3, PutRow
<1>2. ctx' \in [Procs -> Task] /\ \A q \in Procs : Works(ctx'[q])
  BY <1>0, ResultType DEF Complete, Busy
<1>3. grant' = grant \/ grant' = [grant EXCEPT !.status = "succeeded"]
  BY DEF Complete
<1>4. UNCHANGED <<user, node, late, faults>>
  BY DEF Complete
<1>. QED
  BY <1>1, <1>2, <1>3, <1>4 DEF TypeInv, TypeOK, Calls

LEMMA ReleaseType == ASSUME TypeInv, NEW p \in Procs, Release(p) PROVE TypeInv'
<1>. DEFINE c == ctx[p]
            o == c.op
<1>0. /\ c \in Task /\ o \in OpIds /\ ops[o] \in Row /\ ops \in [OpIds -> Row] /\ faults \in 0..MaxFaults
  BY OpOf DEF TypeInv, TypeOK, Release, At, Busy
<1>1. ops' \in [OpIds -> Row]
  <2>1. [ops[o] EXCEPT !.owner = Nobody, !.expired = FALSE] \in Row
    BY <1>0, RowForms
  <2>2. ops' = ops \/ ops' = [ops EXCEPT ![o] = [ops[o] EXCEPT !.owner = Nobody, !.expired = FALSE]]
    BY <1>0 DEF Release
  <2>. QED
    BY <1>0, <2>1, <2>2, PutRow
<1>2. ctx' \in [Procs -> Task] /\ \A q \in Procs : Works(ctx'[q])
  <2>1. CASE ctx' = [ctx EXCEPT ![p] = [Idle EXCEPT !.pc = "mark"]]
    BY <1>0, <2>1, DoneTask, PutTask
  <2>2. CASE ctx' = [ctx EXCEPT ![p] = Done(p)]
    <3>1. \E pc \in {"next", "idle"} : Done(p) = [Idle EXCEPT !.pc = pc, !.list = c.list]
      BY DEF Done
    <3>. QED
      BY <1>0, <2>2, <3>1, DoneTask, PutTask
  <2>. QED
    BY <2>1, <2>2 DEF Release
<1>. QED
  BY <1>0, <1>1, <1>2, RowStep DEF Release

LEMMA MarkType == ASSUME TypeInv, NEW p \in Procs, MarkRevoked(p) PROVE TypeInv'
<1>1. ctx' \in [Procs -> Task] /\ \A q \in Procs : Works(ctx'[q])
  BY IdleTask, PutTask DEF MarkRevoked
<1>. QED
  BY <1>1 DEF MarkRevoked, TypeInv, TypeOK, Calls

LEMMA ExpireType == ASSUME TypeInv, NEW o \in OpIds, Expire(o) PROVE TypeInv'
<1>1. ops[o] \in Row /\ ops \in [OpIds -> Row] /\ ctx \in [Procs -> Task] /\ faults \in 0..MaxFaults
  BY DEF TypeInv, TypeOK
<1>2. ops' = [ops EXCEPT ![o] = [ops[o] EXCEPT !.expired = TRUE]] /\ [ops[o] EXCEPT !.expired = TRUE] \in Row
  BY <1>1, RowForms DEF Expire
<1>3. ops' \in [OpIds -> Row]
  BY <1>2, PutRow
<1>4. faults' \in 0..MaxFaults
  BY <1>1, FaultType DEF Expire
<1>5. ctx' = ctx /\ \A q \in Procs : Works(ctx'[q])
  BY DEF Expire, TypeInv
<1>. QED
  BY <1>1, <1>3, <1>4, <1>5, RowStep DEF Expire

LEMMA CrashType == ASSUME TypeInv, NEW p \in Procs, Crash(p) PROVE TypeInv'
  BY IdleTask, FaultType, TaskStep DEF Crash, TypeInv, TypeOK

(* No step leaves the types. *)
LEMMA NextType == TypeInv /\ [Next]_vars => TypeInv'
<1>. SUFFICES ASSUME TypeInv, [Next]_vars PROVE TypeInv'
  OBVIOUS
<1>1. CASE UNCHANGED vars
  BY <1>1 DEF vars, TypeInv, TypeOK, Calls
<1>2. ASSUME NEW p \in Procs, Step(p) PROVE TypeInv'
  BY <1>2, ClaimType, FenceType, CallType, BackType, FinishType, CompleteType, ReleaseType, MarkType DEF Step
<1>. QED
  BY <1>1, <1>2, RequestType, JobType, CallType, CrashType, ExpireType, LateCallType DEF Next, Procs

(* Users, grants, operations, nodes and calls are well typed in every      *)
(* reachable state, for any targets, processes and bounds.                 *)
THEOREM TypeCorrect == Spec => []TypeOK
<1>1. TypeInv => TypeOK
  BY DEF TypeInv
<1>. QED
  BY <1>1, InitType, NextType, PTL DEF Spec

-----------------------------------------------------------------------------
(* The invariant *)

Exists(o) == ops[o].status # "none"

(* Revisions are handed out once: a grant and a revocation never share one, *)
(* and the account's are the states asked for so far.                      *)
Rows ==
  /\ \A o \in OpIds : Exists(o) /\ Kind(o) = "grant" => Revision(o) <= grant.rev
  /\ \A o \in OpIds : Exists(o) /\ Kind(o) = "revoke" => ops[o].revoked <= grant.rev
  /\ \A o, q \in OpIds : Exists(o) /\ Kind(o) = "revoke" /\ Exists(q) /\ Kind(q) = "grant" => Revision(q) # ops[o].revoked
  /\ \A o \in OpIds : Kind(o) = "account" => (Exists(o) <=> Revision(o) <= user.rev)
  /\ user.blocked <=> (user.rev > 0 /\ ops[<<"account", user.rev>>].blocks)
  /\ grant.status = "pending" => Exists(<<"grant", grant.rev>>)

(* No node is ahead of the master, and what it holds is what was decided.  *)
Nodes ==
  \A t \in Targets :
    /\ node[t].rev <= grant.rev
    /\ node[t].account <= user.rev
    /\ node[t].blocked <=> (node[t].account > 0 /\ ops[<<"account", node[t].account>>].blocks)
    /\ node[t].rev > 0 /\ Exists(<<"grant", node[t].rev>>) => node[t].live

(* A call is of a stored operation, and a grant is sent with a state of    *)
(* the account that does not block it.                                     *)
Sent(o, a) ==
  /\ Exists(o)
  /\ Kind(o) = "grant" => a <= user.rev /\ (a > 0 => ~ops[<<"account", a>>].blocks)

(* What a process knows of its operation.                                  *)
TaskInv(c) ==
  /\ c.pc \in Busy => Exists(c.op)
  /\ \A o \in c.list : Exists(o)
  /\ c.pc = "call" => Sent(c.op, c.seen)
  /\ c.pc \in {"fence", "call", "back"} /\ ~c.failed => \A t \in Targets \ c.todo : Reached(c.op, node[t])
  /\ c.pc = "back" /\ c.ok => Reached(c.op, node[c.target]) /\ c.status # "none"
  /\ c.pc = "back" /\ c.ok /\ c.status = "succeeded" => \A t \in Targets : Reached(c.op, node[t])
  /\ c.pc = "complete" => \A t \in Targets : Reached(c.op, node[t])

DoneIsReached == \A o \in OpIds : Exists(o) => \A t \in ops[o].done : Reached(o, node[t])
Delivered ==
  grant.status = "succeeded" /\ grant.billing = "free" =>
    grant.rev > 0 /\ Exists(<<"grant", grant.rev>>) /\ \A t \in Targets : node[t].rev >= grant.rev

Inv ==
  /\ TypeInv
  /\ Rows /\ Nodes /\ DoneIsReached /\ Delivered /\ SuccessIsEverywhere
  /\ \A p \in Procs : TaskInv(ctx[p])
  /\ \A c \in late : Sent(c.op, c.seen)

-----------------------------------------------------------------------------
(* Steps of the nodes *)

(* Rows stay, with what they ask for ... *)
RowsStay ==
  /\ \A o \in OpIds : Exists(o) => ops'[o].status # "none" /\ ops'[o].revoked = ops[o].revoked /\ ops'[o].blocks = ops[o].blocks
  /\ user'.rev >= user.rev
(* ... and nodes change by the calls they accept. *)
NodesMove ==
  \A t \in Targets :
    node'[t] = node[t] \/ \E o \in OpIds, a \in 0..MaxStates :
      Sent(o, a) /\ Accepts(node[t], o, a) /\ node'[t] = After(node[t], o, a)

(* What a call leaves of a node that accepts it. *)
LEMMA AfterCall ==
  ASSUME TypeInv, NEW o \in OpIds, NEW t \in Targets, NEW a \in 0..MaxStates, Accepts(node[t], o, a)
  PROVE  LET n == After(node[t], o, a) IN
         /\ n.rev >= node[t].rev /\ n.account >= node[t].account
         /\ Kind(o) = "grant" => n.rev = Revision(o) /\ n.live /\ n.account = a /\ ~node[t].blocked /\ ~n.blocked
                                 /\ (Revision(o) = node[t].rev => node[t].live)
         /\ Kind(o) = "revoke" => /\ n.account = node[t].account /\ (n.blocked <=> node[t].blocked)
                                  /\ n.rev >= ops[o].revoked
                                  /\ \/ n.rev = ops[o].revoked /\ ~n.live
                                     \/ n.rev = node[t].rev /\ n.rev > ops[o].revoked /\ (n.live <=> node[t].live)
         /\ Kind(o) = "account" => /\ n.rev = node[t].rev /\ (n.live <=> node[t].live)
                                   /\ n.account = Revision(o) /\ (n.blocked <=> ops[o].blocks)
<1>1. node[t] \in [rev: 0..MaxRevision, live: BOOLEAN, account: 0..MaxStates, blocked: BOOLEAN]
      /\ ops[o].revoked \in 0..MaxRevision /\ ops[o].blocks \in BOOLEAN
  BY DEF TypeInv, TypeOK, Row
<1>2. MaxRevision \in Nat /\ MaxStates \in Nat
  BY OperationsAssumption
<1>3. CASE Kind(o) = "grant"
  <2>1. After(node[t], o, a) = [rev |-> Revision(o), live |-> TRUE, account |-> a, blocked |-> node[t].blocked]
    BY <1>1, <1>3 DEF After
  <2>2. /\ ~node[t].blocked /\ a >= node[t].account
        /\ Revision(o) > node[t].rev \/ (Revision(o) = node[t].rev /\ node[t].live)
    BY <1>3 DEF Accepts
  <2>. QED
    BY <1>1, <1>2, <1>3, <2>1, <2>2, OpIdParts
<1>4. CASE Kind(o) = "revoke"
  BY <1>1, <1>2, <1>4, OpIdParts DEF Accepts, After
<1>5. CASE Kind(o) = "account"
  <2>1. After(node[t], o, a) = [rev |-> node[t].rev, live |-> node[t].live, account |-> Revision(o), blocked |-> ops[o].blocks]
    BY <1>1, <1>5 DEF After
  <2>2. Revision(o) > node[t].account \/ Revision(o) = node[t].account
    BY <1>5 DEF Accepts
  <2>. QED
    BY <1>1, <1>2, <1>5, <2>1, <2>2, OpIdParts
<1>. QED
  BY <1>3, <1>4, <1>5, OpIdParts

(* What reached a node stays there. *)
LEMMA ReachedStays ==
  ASSUME TypeInv, TypeInv', RowsStay, NodesMove, NEW o \in OpIds, Exists(o), NEW t \in Targets, Reached(o, node[t])
  PROVE  CASE Kind(o) = "grant" -> node'[t].rev >= Revision(o)
           [] Kind(o) = "revoke" -> node'[t].rev >= ops'[o].revoked /\ (node'[t].rev = ops'[o].revoked => ~node'[t].live)
           [] Kind(o) = "account" -> node'[t].account >= Revision(o)
<1>0. ops'[o].revoked = ops[o].revoked
  BY DEF RowsStay
<1>1. CASE node'[t] = node[t]
  BY <1>0, <1>1 DEF Reached
<1>2. ASSUME NEW q \in OpIds, NEW a \in 0..MaxStates, Accepts(node[t], q, a), node'[t] = After(node[t], q, a)
      PROVE  CASE Kind(o) = "grant" -> node'[t].rev >= Revision(o)
               [] Kind(o) = "revoke" -> node'[t].rev >= ops'[o].revoked /\ (node'[t].rev = ops'[o].revoked => ~node'[t].live)
               [] Kind(o) = "account" -> node'[t].account >= Revision(o)
  <2>1. /\ node[t].rev \in Nat /\ node[t].account \in Nat /\ node'[t].rev \in Nat /\ node'[t].account \in Nat
        /\ ops[o].revoked \in Nat /\ Revision(o) \in Nat
    BY OperationsAssumption, OpIdParts DEF TypeInv, TypeOK, Row
  <2>2. CASE Kind(o) = "grant"
    BY <1>2, <2>1, <2>2, AfterCall DEF Reached
  <2>3. CASE Kind(o) = "account"
    BY <1>2, <2>1, <2>3, AfterCall DEF Reached
  <2>4. CASE Kind(o) = "revoke"
    <3>1. node[t].rev >= ops[o].revoked /\ (node[t].rev = ops[o].revoked => ~node[t].live)
      BY <2>4 DEF Reached
    <3>2. node'[t].rev >= node[t].rev
      BY <1>2, AfterCall
    <3>3. ASSUME node'[t].rev = ops[o].revoked PROVE ~node'[t].live
      <4>1. node[t].rev = ops[o].revoked /\ ~node[t].live
        BY <2>1, <3>1, <3>2, <3>3
      <4>. QED
        BY <1>2, <2>1, <3>3, <4>1, AfterCall, OpIdParts
    <3>. QED
      BY <1>0, <2>1, <2>4, <3>1, <3>2, <3>3
  <2>. QED
    BY <2>2, <2>3, <2>4, OpIdParts
<1>. QED
  BY <1>1, <1>2 DEF NodesMove

(* A call may still be sent after any step. *)
LEMMA SentStays ==
  ASSUME Inv, RowsStay, TypeInv', NEW o \in OpIds, NEW a \in 0..MaxStates, Sent(o, a)
  PROVE  /\ ops'[o].status # "none"
         /\ Kind(o) = "grant" => a <= user'.rev /\ (a > 0 => ~ops'[<<"account", a>>].blocks)
<1>1. /\ a \in Nat /\ user.rev \in Nat /\ user'.rev \in Nat /\ user.rev <= MaxStates /\ MaxStates \in Nat
  BY OperationsAssumption DEF Inv, TypeInv, TypeOK
<1>2. ASSUME Kind(o) = "grant", a > 0 PROVE ops'[<<"account", a>>].blocks = ops[<<"account", a>>].blocks
  <2>1. <<"account", a>> \in OpIds /\ Kind(<<"account", a>>) = "account" /\ Revision(<<"account", a>>) = a
    BY <1>1, <1>2, OpIdOf DEF Sent, Kind, Revision
  <2>2. Exists(<<"account", a>>)
    BY <1>2, <2>1 DEF Sent, Inv, Rows
  <2>. QED
    BY <2>1, <2>2 DEF RowsStay
<1>3. user'.rev >= user.rev /\ ops'[o].status # "none"
  BY DEF RowsStay, Sent
<1>4. ASSUME Kind(o) = "grant" PROVE a <= user'.rev
  BY <1>1, <1>3, <1>4 DEF Sent
<1>5. ASSUME Kind(o) = "grant", a > 0 PROVE ~ops'[<<"account", a>>].blocks
  BY <1>2, <1>5 DEF Sent
<1>. QED
  BY <1>3, <1>4, <1>5

(* A process that does nothing keeps knowing what it knew. *)
LEMMA TaskStays ==
  ASSUME Inv, TypeInv', RowsStay, NodesMove, NEW q \in Procs, ctx'[q] = ctx[q]
  PROVE  TaskInv(ctx[q])'
<1>. DEFINE c == ctx[q]
<1>1. c \in Task /\ Works(c) /\ TaskInv(c)
  BY OpOf DEF Inv
<1>2. c.seen \in 0..MaxStates /\ c.todo \in SUBSET Targets /\ c.list \in SUBSET OpIds
  BY <1>1 DEF Task
<1>3. ASSUME c.pc \in Busy
      PROVE  /\ c.op \in OpIds /\ Exists(c.op) /\ ops'[c.op].status # "none"
             /\ \A t \in Targets : Reached(c.op, node[t]) => Reached(c.op, node[t])'
  <2>1. c.op \in OpIds /\ Exists(c.op)
    BY <1>1, <1>3 DEF Works, TaskInv
  <2>2. ASSUME NEW t \in Targets, Reached(c.op, node[t]) PROVE Reached(c.op, node[t])'
    BY <2>1, <2>2, ReachedStays DEF Reached, Inv
  <2>. QED
    BY <2>1, <2>2 DEF RowsStay
<1>4. \A o \in c.list : ops'[o].status # "none"
  BY <1>1, <1>2 DEF TaskInv, RowsStay
<1>5. ASSUME c.pc = "call"
      PROVE  Kind(c.op) = "grant" => c.seen <= user'.rev /\ (c.seen > 0 => ~ops'[<<"account", c.seen>>].blocks)
  BY <1>1, <1>2, <1>3, <1>5, SentStays DEF TaskInv, Busy
<1>6. c.pc \in {"call", "back"} => c.target \in Targets
  BY <1>1 DEF Works
<1>. QED
  BY <1>1, <1>2, <1>3, <1>4, <1>5, <1>6 DEF TaskInv, Exists, Sent, Reached, Busy

-----------------------------------------------------------------------------
(* Steps that add no row and reach no node *)

(* The row of o is written, to no more than what the nodes hold. *)
Writes(o) ==
  /\ \A q \in OpIds : q # o => ops'[q] = ops[q]
  /\ o \in OpIds => /\ ops'[o].status # "none" <=> Exists(o)
                    /\ ops'[o].revoked = ops[o].revoked /\ ops'[o].blocks = ops[o].blocks
                    /\ Exists(o) => \A t \in ops'[o].done : Reached(o, node[t])
                    /\ ops'[o].status = "succeeded" => \A t \in Targets : Reached(o, node[t])

LEMMA QuietRows ==
  ASSUME Inv, UNCHANGED <<user, node>>, NEW o, Writes(o) \/ ops' = ops
  PROVE  /\ RowsStay /\ NodesMove
         /\ \A q \in OpIds : (ops'[q].status # "none" <=> Exists(q)) /\ ops'[q].revoked = ops[q].revoked /\ ops'[q].blocks = ops[q].blocks
<1>1. \A q \in OpIds : (ops'[q].status # "none" <=> Exists(q)) /\ ops'[q].revoked = ops[q].revoked /\ ops'[q].blocks = ops[q].blocks
  BY DEF Writes, Exists
<1>2. user.rev \in Nat
  BY OperationsAssumption DEF Inv, TypeInv, TypeOK
<1>. QED
  BY <1>1, <1>2 DEF RowsStay, NodesMove

LEMMA QuietStep ==
  ASSUME Inv, TypeInv', UNCHANGED <<user, node>>, NEW o, Writes(o) \/ ops' = ops,
         grant' = grant \/ (grant'.rev = grant.rev /\ grant'.status # "pending" /\ Delivered'),
         NEW p \in Procs, \A q \in Procs : q # p => ctx'[q] = ctx[q], TaskInv(ctx[p])',
         \A c \in late' : Sent(c.op, c.seen)
  PROVE  Inv'
<1>1. RowsStay /\ NodesMove
  BY QuietRows
<1>2. \A q \in OpIds : (ops'[q].status # "none" <=> Exists(q)) /\ ops'[q].revoked = ops[q].revoked /\ ops'[q].blocks = ops[q].blocks
  BY QuietRows
<1>3. \A q \in Procs : TaskInv(ctx[q])'
  BY <1>1, TaskStays
<1>4. user.rev \in 0..MaxStates /\ grant.rev \in 0..MaxRevision /\ grant'.rev = grant.rev /\ MaxStates \in Nat /\ MaxRevision \in Nat
      /\ \A t \in Targets : node[t].rev \in 0..MaxRevision /\ node[t].account \in 0..MaxStates
  BY OperationsAssumption DEF Inv, TypeInv, TypeOK
<1>5. /\ \A i \in 1..MaxStates : ops'[<<"account", i>>].blocks = ops[<<"account", i>>].blocks
      /\ \A i \in 1..MaxRevision : ops'[<<"grant", i>>].status # "none" <=> Exists(<<"grant", i>>)
  BY <1>2, OpIdOf
<1>6. Rows'
  <2>1. Rows
    BY DEF Inv
  <2>2. /\ \A q \in OpIds : Exists(q)' /\ Kind(q) = "grant" => Revision(q) <= grant'.rev
        /\ \A q \in OpIds : Exists(q)' /\ Kind(q) = "revoke" => ops'[q].revoked <= grant'.rev
        /\ \A q \in OpIds : Kind(q) = "account" => (Exists(q)' <=> Revision(q) <= user'.rev)
        /\ \A q, r \in OpIds : Exists(q)' /\ Kind(q) = "revoke" /\ Exists(r)' /\ Kind(r) = "grant" => Revision(r) # ops'[q].revoked
    BY <1>2, <1>4, <2>1 DEF Rows, Exists
  <2>3. user'.blocked <=> (user'.rev > 0 /\ ops'[<<"account", user'.rev>>].blocks)
    BY <1>4, <1>5, <2>1 DEF Rows
  <2>4. grant'.status = "pending" => ops'[<<"grant", grant'.rev>>].status # "none"
    BY <1>4, <1>5, <2>1 DEF Rows, Inv, TypeInv
  <2>. QED
    BY <2>2, <2>3, <2>4 DEF Rows, Exists
<1>7. Nodes'
  BY <1>4, <1>5 DEF Inv, Nodes, Exists
<1>8. DoneIsReached' /\ SuccessIsEverywhere'
  BY <1>2 DEF Inv, DoneIsReached, SuccessIsEverywhere, Writes, Reached, Exists
<1>9. Delivered'
  BY <1>4, <1>5 DEF Inv, Delivered, Exists
<1>10. ASSUME NEW c \in late' PROVE Sent(c.op, c.seen)'
  <2>1. c.op \in OpIds /\ c.seen \in 0..MaxStates
    BY <1>10 DEF TypeInv, TypeOK, Calls
  <2>. QED
    BY <1>1, <1>10, <2>1, SentStays DEF Sent, Exists
<1>. QED
  BY <1>3, <1>6, <1>7, <1>8, <1>9, <1>10 DEF Inv

(* A process between operations, or at their beginning or end, has little  *)
(* to know.                                                                *)
LEMMA LightTask ==
  ASSUME NEW p \in Procs, ctx'[p].pc \in {"idle", "next", "mark", "claim", "release"},
         ctx'[p].pc \in Busy => ops'[ctx'[p].op].status # "none",
         \A o \in ctx'[p].list : ops'[o].status # "none"
  PROVE  TaskInv(ctx[p])'
  BY DEF TaskInv, Exists, Busy

(* The result of an operation. *)
LEMMA ResultInv ==
  ASSUME Inv, UNCHANGED <<user, node>>, NEW o, Writes(o) \/ ops' = ops, NEW p \in Procs, NEW ok \in BOOLEAN, ctx[p].pc \in Busy, Result(p, ok)
  PROVE  TaskInv(ctx[p])' /\ \A q \in Procs : q # p => ctx'[q] = ctx[q]
<1>1. ctx \in [Procs -> Task] /\ ctx[p] \in Task
  BY DEF Inv, TypeInv
<1>2. \A q \in OpIds : ops'[q].status # "none" <=> Exists(q)
  BY QuietRows
<1>3. ctx'[p] = [Idle EXCEPT !.pc = "release", !.op = ctx[p].op, !.revokes = ctx[p].revokes, !.ok = ok, !.list = ctx[p].list]
      /\ \A q \in Procs : q # p => ctx'[q] = ctx[q]
  BY <1>1 DEF Result
<1>4. ctx'[p].pc = "release" /\ ctx'[p].op = ctx[p].op /\ ctx'[p].list = ctx[p].list
  BY <1>3 DEF Idle
<1>5. ctx[p].op \in OpIds /\ Exists(ctx[p].op) /\ ctx[p].list \subseteq OpIds /\ \A q \in ctx[p].list : Exists(q)
  BY <1>1, OpOf DEF Inv, TaskInv
<1>. QED
  BY <1>2, <1>3, <1>4, <1>5, LightTask

(* A claim leaves the row as it was, but for its owner. *)
LEMMA ClaimWrites ==
  ASSUME Inv, NEW o \in OpIds, NEW p \in Procs, ops' = Claimed(p, o), Exists(o)
  PROVE  Writes(o)
<1>1. ops[o] \in Row
  BY DEF Inv, TypeInv, TypeOK
<1>2. /\ ops'[o].status = ops[o].status /\ ops'[o].revoked = ops[o].revoked /\ ops'[o].blocks = ops[o].blocks
      /\ ops'[o].done = ops[o].done /\ \A q \in OpIds : q # o => ops'[q] = ops[q]
  BY <1>1 DEF Claimed, Row, Inv, TypeInv, TypeOK
<1>. QED
  BY <1>2 DEF Writes, Exists, Inv, DoneIsReached, SuccessIsEverywhere

LEMMA JobInv ==
  ASSUME Inv, TypeInv', NEW p \in Jobs, JobStarts(p) \/ (\E o \in OpIds : JobTakes(p, o)) \/ JobEnds(p)
  PROVE  Inv'
<1>. p \in Procs
  BY DEF Procs
<1>. DEFINE c == ctx[p]
<1>0. /\ ctx \in [Procs -> Task] /\ c \in Task /\ c.list \subseteq OpIds /\ (\A o \in c.list : Exists(o))
      /\ \A l \in late : Sent(l.op, l.seen)
  BY OpOf DEF Inv, TypeInv, TaskInv
<1>1. CASE JobStarts(p)
  <2>1. ctx' = [ctx EXCEPT ![p] = [c EXCEPT !.pc = "next", !.list = Selected]]
    BY <1>1 DEF JobStarts, TypeInv
  <2>2. ctx'[p].pc = "next" /\ ctx'[p].list = Selected /\ \A q \in Procs : q # p => ctx'[q] = ctx[q]
    BY <1>0, <2>1 DEF Task
  <2>3. TaskInv(ctx[p])'
    BY <1>1, <2>2, LightTask DEF JobStarts, Selected, Busy
  <2>. QED
    BY <1>0, <1>1, <2>2, <2>3, QuietStep DEF JobStarts
<1>2. ASSUME NEW o \in OpIds, JobTakes(p, o) PROVE Inv'
  <2>0. o \in c.list /\ Exists(o) /\ UNCHANGED <<user, grant, node, late>>
    BY <1>0, <1>2 DEF JobTakes
  <2>1. CASE Claimable(o)
    <3>1. ops' = Claimed(p, o) /\ Writes(o)
      BY <1>2, <2>0, <2>1, ClaimWrites DEF JobTakes
    <3>2. ctx' = [ctx EXCEPT ![p] = [c EXCEPT !.pc = "fence", !.op = o, !.todo = Targets, !.list = c.list \ {o}]]
      BY <1>2, <2>1 DEF JobTakes
    <3>3. /\ ctx'[p].pc = "fence" /\ ctx'[p].op = o /\ ctx'[p].todo = Targets /\ ctx'[p].list \subseteq c.list
          /\ \A q \in Procs : q # p => ctx'[q] = ctx[q]
      BY <1>0, <3>2 DEF Task
    <3>4. \A q \in OpIds : ops'[q].status # "none" <=> Exists(q)
      BY <2>0, <3>1, QuietRows
    <3>5. TaskInv(ctx[p])'
      BY <1>0, <2>0, <3>3, <3>4 DEF TaskInv, Exists
    <3>. QED
      BY <1>0, <2>0, <3>1, <3>3, <3>5, QuietStep
  <2>2. CASE ~Claimable(o)
    <3>1. ctx' = [ctx EXCEPT ![p] = [c EXCEPT !.list = c.list \ {o}]] /\ UNCHANGED ops
      BY <1>2, <2>2 DEF JobTakes, TypeInv
    <3>2. c.pc = "next"
      BY <1>2 DEF JobTakes, At
    <3>3. ctx'[p].pc = "next" /\ ctx'[p].list \subseteq c.list /\ \A q \in Procs : q # p => ctx'[q] = ctx[q]
      BY <1>0, <3>1, <3>2 DEF Task
    <3>4. TaskInv(ctx[p])'
      BY <1>0, <3>1, <3>3, LightTask DEF Exists, Busy
    <3>. QED
      BY <1>0, <2>0, <3>1, <3>3, <3>4, QuietStep
  <2>. QED
    BY <2>1, <2>2
<1>3. CASE JobEnds(p)
  <2>1. ctx' = [ctx EXCEPT ![p] = Idle]
    BY <1>3 DEF JobEnds
  <2>2. ctx'[p].pc = "idle" /\ ctx'[p].list = {} /\ \A q \in Procs : q # p => ctx'[q] = ctx[q]
    BY <1>0, <2>1 DEF Idle
  <2>3. TaskInv(ctx[p])'
    BY <2>2, LightTask DEF Busy
  <2>. QED
    BY <1>0, <1>3, <2>2, <2>3, QuietStep DEF JobEnds
<1>. QED
  BY <1>1, <1>2, <1>3

LEMMA ClaimInv == ASSUME Inv, TypeInv', NEW p \in Procs, Claim(p) PROVE Inv'
<1>. DEFINE c == ctx[p]
            o == c.op
<1>0. /\ ctx \in [Procs -> Task] /\ c \in Task /\ c.list \subseteq OpIds /\ (\A q \in c.list : Exists(q))
      /\ o \in OpIds /\ Exists(o) /\ (\A l \in late : Sent(l.op, l.seen)) /\ UNCHANGED <<user, grant, node, late>>
  BY OpOf DEF Inv, TypeInv, TaskInv, Claim, At, Busy
<1>1. CASE Claimable(o)
  <2>1. ops' = Claimed(p, o) /\ Writes(o)
    BY <1>0, <1>1, ClaimWrites DEF Claim
  <2>2. ctx' = [ctx EXCEPT ![p] = [c EXCEPT !.pc = "fence", !.todo = Targets]]
    BY <1>1 DEF Claim, Inv, TypeInv
  <2>3. /\ ctx'[p].pc = "fence" /\ ctx'[p].op = o /\ ctx'[p].todo = Targets /\ ctx'[p].list = c.list
        /\ \A q \in Procs : q # p => ctx'[q] = ctx[q]
    BY <1>0, <2>2 DEF Task
  <2>4. \A q \in OpIds : ops'[q].status # "none" <=> Exists(q)
    BY <1>0, <2>1, QuietRows
  <2>5. TaskInv(ctx[p])'
    BY <1>0, <2>3, <2>4 DEF TaskInv, Exists
  <2>. QED
    BY <1>0, <2>1, <2>3, <2>5, QuietStep
<1>2. CASE ~Claimable(o)
  <2>1. ctx'[p].pc = "idle" /\ ctx'[p].list = {} /\ (\A q \in Procs : q # p => ctx'[q] = ctx[q]) /\ ops' = ops
    BY <1>0, <1>2 DEF Claim, Idle
  <2>2. TaskInv(ctx[p])'
    BY <2>1, LightTask DEF Busy
  <2>. QED
    BY <1>0, <2>1, <2>2, QuietStep
<1>. QED
  BY <1>1, <1>2

LEMMA FenceInv == ASSUME Inv, TypeInv', NEW p \in Procs, NEW t \in Targets, Fence(p, t) PROVE Inv'
<1>. DEFINE c == ctx[p]
            o == c.op
<1>0. /\ ctx \in [Procs -> Task] /\ c \in Task /\ c.list \subseteq OpIds /\ (\A q \in c.list : Exists(q))
      /\ o \in OpIds /\ Exists(o) /\ (\A l \in late : Sent(l.op, l.seen)) /\ UNCHANGED <<user, grant, node, late>>
      /\ c.pc = "fence" /\ c.failed \in BOOLEAN
      /\ ~c.failed => \A u \in Targets \ c.todo : Reached(o, node[u])
      /\ user.rev \in Nat
  BY OpOf, OperationsAssumption DEF Inv, TypeInv, TypeOK, TaskInv, Fence, At, Busy, Task
<1>1. CASE Superseded(p, o)
  <2>1. ops[o] \in Row /\ ops \in [OpIds -> Row]
    BY <1>0 DEF Inv, TypeInv, TypeOK
  <2>2. ops' = ops \/ Writes(o)
    <3>1. CASE ops' = [ops EXCEPT ![o].status = "superseded"]
      <4>1. /\ ops'[o].status = "superseded" /\ ops'[o].revoked = ops[o].revoked /\ ops'[o].blocks = ops[o].blocks
            /\ ops'[o].done = ops[o].done /\ \A q \in OpIds : q # o => ops'[q] = ops[q]
        BY <1>0, <2>1, <3>1 DEF Row
      <4>. QED
        BY <1>0, <4>1 DEF Writes, Exists, Inv, DoneIsReached
    <3>. QED
      BY <1>1, <3>1 DEF Superseded
  <2>3. TaskInv(ctx[p])' /\ \A q \in Procs : q # p => ctx'[q] = ctx[q]
    BY <1>0, <1>1, <2>2, ResultInv DEF Superseded, Busy
  <2>. QED
    BY <1>0, <2>2, <2>3, QuietStep
<1>2. CASE ctx' = [ctx EXCEPT ![p].pc = "back", ![p].target = t, ![p].ok = FALSE] /\ UNCHANGED ops
  <2>1. ctx' = [ctx EXCEPT ![p] = [c EXCEPT !.pc = "back", !.target = t, !.ok = FALSE]]
    BY <1>2 DEF Inv, TypeInv
  <2>2. /\ ctx'[p].pc = "back" /\ ctx'[p].op = o /\ ctx'[p].todo = c.todo /\ ctx'[p].list = c.list /\ ~ctx'[p].ok
        /\ ctx'[p].failed = c.failed /\ \A q \in Procs : q # p => ctx'[q] = ctx[q]
    BY <1>0, <2>1 DEF Task
  <2>3. TaskInv(ctx[p])'
    BY <1>0, <1>2, <2>2 DEF TaskInv, Exists, Reached
  <2>. QED
    BY <1>0, <1>2, <2>2, <2>3, QuietStep
<1>3. CASE Result(p, FALSE) /\ UNCHANGED ops
  <2>1. TaskInv(ctx[p])' /\ \A q \in Procs : q # p => ctx'[q] = ctx[q]
    BY <1>0, <1>3, ResultInv DEF Busy
  <2>. QED
    BY <1>0, <1>3, <2>1, QuietStep
<1>4. CASE Skips(o, t) /\ ctx' = [ctx EXCEPT ![p].todo = @ \ {t}] /\ UNCHANGED ops
  <2>1. ctx' = [ctx EXCEPT ![p] = [c EXCEPT !.todo = c.todo \ {t}]]
    BY <1>4 DEF Inv, TypeInv
  <2>2. /\ ctx'[p].pc = "fence" /\ ctx'[p].op = o /\ ctx'[p].todo = c.todo \ {t} /\ ctx'[p].list = c.list
        /\ ctx'[p].failed = c.failed /\ \A q \in Procs : q # p => ctx'[q] = ctx[q]
    BY <1>0, <2>1 DEF Task
  <2>3. Reached(o, node[t])
    BY <1>0, <1>4 DEF Skips, Inv, DoneIsReached
  <2>4. TaskInv(ctx[p])'
    BY <1>0, <1>4, <2>2, <2>3 DEF TaskInv, Exists, Reached
  <2>. QED
    BY <1>0, <1>4, <2>2, <2>4, QuietStep
<1>5. CASE ~Barred(o) /\ ctx' = [ctx EXCEPT ![p].pc = "call", ![p].target = t, ![p].seen = user.rev] /\ UNCHANGED ops
  <2>1. ctx' = [ctx EXCEPT ![p] = [c EXCEPT !.pc = "call", !.target = t, !.seen = user.rev]]
    BY <1>5 DEF Inv, TypeInv
  <2>2. /\ ctx'[p].pc = "call" /\ ctx'[p].op = o /\ ctx'[p].todo = c.todo /\ ctx'[p].list = c.list /\ ctx'[p].seen = user.rev
        /\ ctx'[p].failed = c.failed /\ \A q \in Procs : q # p => ctx'[q] = ctx[q]
    BY <1>0, <2>1 DEF Task
  <2>3. Sent(o, user.rev)
    BY <1>0, <1>5 DEF Sent, Barred, Inv, Rows
  <2>4. TaskInv(ctx[p])'
    BY <1>0, <1>5, <2>2, <2>3 DEF TaskInv, Exists, Reached, Sent
  <2>. QED
    BY <1>0, <1>5, <2>2, <2>4, QuietStep
<1>. QED
  BY <1>1, <1>2, <1>3, <1>4, <1>5 DEF Fence

LEMMA CallFailsInv == ASSUME Inv, TypeInv', NEW p \in Procs, CallFails(p) PROVE Inv'
<1>. DEFINE c == ctx[p]
            o == c.op
<1>0. /\ ctx \in [Procs -> Task] /\ c \in Task /\ c.list \subseteq OpIds /\ (\A q \in c.list : Exists(q))
      /\ o \in OpIds /\ Exists(o) /\ Sent(o, c.seen) /\ (\A l \in late : Sent(l.op, l.seen)) /\ UNCHANGED <<user, grant, node, ops>>
      /\ c.failed \in BOOLEAN
      /\ ~c.failed => \A u \in Targets \ c.todo : Reached(o, node[u])
  BY OpOf DEF Inv, TypeInv, TaskInv, CallFails, At, Busy, Task
<1>1. ctx' = [ctx EXCEPT ![p] = [c EXCEPT !.pc = "back", !.ok = FALSE]]
  BY DEF CallFails, Inv, TypeInv
<1>2. /\ ctx'[p].pc = "back" /\ ctx'[p].op = o /\ ctx'[p].todo = c.todo /\ ctx'[p].list = c.list /\ ~ctx'[p].ok
      /\ ctx'[p].failed = c.failed /\ \A q \in Procs : q # p => ctx'[q] = ctx[q]
  BY <1>0, <1>1 DEF Task
<1>3. TaskInv(ctx[p])'
  BY <1>0, <1>2 DEF TaskInv, Exists, Reached
<1>4. \A l \in late' : Sent(l.op, l.seen)
  BY <1>0 DEF CallFails
<1>. QED
  BY <1>0, <1>2, <1>3, <1>4, QuietStep

LEMMA BackInv == ASSUME Inv, TypeInv', NEW p \in Procs, Back(p) PROVE Inv'
<1>. DEFINE c == ctx[p]
            o == c.op
            failed == c.failed \/ ~c.ok
            done == IF c.ok THEN ops[o].done \cup {c.target} ELSE ops[o].done \ {c.target}
            status == IF failed THEN "pending" ELSE c.status
<1>0. /\ ctx \in [Procs -> Task] /\ c \in Task /\ c.list \subseteq OpIds /\ (\A q \in c.list : Exists(q))
      /\ o \in OpIds /\ Exists(o) /\ (\A l \in late : Sent(l.op, l.seen)) /\ UNCHANGED <<user, grant, node, late>>
      /\ c.failed \in BOOLEAN /\ c.ok \in BOOLEAN /\ c.target \in Targets /\ c.status \in Statuses
      /\ c.pc = "back" /\ TaskInv(c) /\ ops[o] \in Row /\ ops \in [OpIds -> Row]
  BY OpOf DEF Inv, TypeInv, TypeOK, TaskInv, Back, At, Busy, Task
<1>1. CASE Holds(p, o)
  <2>1. ops' = [ops EXCEPT ![o] = [ops[o] EXCEPT !.done = done, !.status = status]]
    BY <1>0, <1>1 DEF Back
  <2>2. ctx' = [ctx EXCEPT ![p] = [c EXCEPT !.pc = "fence", !.todo = c.todo \ {c.target}, !.failed = failed,
                                            !.target = "none", !.seen = 0, !.status = "none", !.ok = FALSE]]
    BY <1>1 DEF Back
  <2>3. /\ failed \in BOOLEAN /\ failed <=> c.failed \/ ~c.ok
        /\ done \in SUBSET (ops[o].done \cup {c.target}) /\ (~c.ok => c.target \notin done)
        /\ status = "succeeded" => ~failed /\ c.ok /\ c.status = "succeeded"
        /\ status = "pending" \/ (status = c.status /\ c.ok)
    BY <1>0
  <2>. HIDE DEF failed, done, status
  <2>4. /\ ops'[o].status = status /\ ops'[o].revoked = ops[o].revoked /\ ops'[o].blocks = ops[o].blocks
        /\ ops'[o].done = done /\ \A q \in OpIds : q # o => ops'[q] = ops[q]
    BY <1>0, <2>1 DEF Row
  <2>5. status # "none"
    BY <1>0, <2>3 DEF TaskInv
  <2>6. Writes(o)
    <3>1. \A t \in done : Reached(o, node[t])
      BY <1>0, <2>3 DEF TaskInv, Inv, DoneIsReached
    <3>2. status = "succeeded" => \A t \in Targets : Reached(o, node[t])
      BY <1>0, <2>3 DEF TaskInv
    <3>. QED
      BY <1>0, <2>4, <2>5, <3>1, <3>2 DEF Writes, Exists
  <2>7. /\ ctx'[p].pc = "fence" /\ ctx'[p].op = o /\ ctx'[p].todo = c.todo \ {c.target} /\ ctx'[p].list = c.list
        /\ ctx'[p].failed = failed /\ \A q \in Procs : q # p => ctx'[q] = ctx[q]
    BY <1>0, <2>2 DEF Task
  <2>8. \A q \in OpIds : (ops'[q].status # "none" <=> Exists(q)) /\ ops'[q].revoked = ops[q].revoked
    BY <1>0, <2>6, QuietRows
  <2>9. ~failed => \A t \in Targets \ (c.todo \ {c.target}) : Reached(o, node[t])
    BY <1>0, <2>3 DEF TaskInv
  <2>10. TaskInv(ctx[p])'
    BY <1>0, <2>7, <2>8, <2>9 DEF TaskInv, Exists, Reached
  <2>. QED
    BY <1>0, <2>6, <2>7, <2>10, QuietStep
<1>2. CASE ~Holds(p, o)
  <2>1. Result(p, FALSE) /\ ops' = ops
    BY <1>2 DEF Back
  <2>2. TaskInv(ctx[p])' /\ \A q \in Procs : q # p => ctx'[q] = ctx[q]
    BY <1>0, <2>1, ResultInv DEF Busy
  <2>. QED
    BY <1>0, <2>1, <2>2, QuietStep
<1>. QED
  BY <1>1, <1>2

LEMMA FinishInv == ASSUME Inv, TypeInv', NEW p \in Procs, Finish(p) PROVE Inv'
<1>. DEFINE c == ctx[p]
            o == c.op
<1>0. /\ ctx \in [Procs -> Task] /\ c \in Task /\ c.list \subseteq OpIds /\ (\A q \in c.list : Exists(q))
      /\ o \in OpIds /\ Exists(o) /\ (\A l \in late : Sent(l.op, l.seen)) /\ UNCHANGED <<user, grant, ops, node, late>>
      /\ c.pc = "fence" /\ c.todo = {} /\ c.failed \in BOOLEAN
      /\ ~c.failed => \A u \in Targets \ c.todo : Reached(o, node[u])
  BY OpOf DEF Inv, TypeInv, TaskInv, Finish, At, Busy, Task
<1>1. CASE Result(p, FALSE)
  <2>1. TaskInv(ctx[p])' /\ \A q \in Procs : q # p => ctx'[q] = ctx[q]
    BY <1>0, <1>1, ResultInv DEF Busy
  <2>. QED
    BY <1>0, <2>1, QuietStep
<1>2. CASE Go(p, "complete") /\ ~c.failed
  <2>1. ctx' = [ctx EXCEPT ![p] = [c EXCEPT !.pc = "complete"]]
    BY <1>2 DEF Go, Inv, TypeInv
  <2>2. /\ ctx'[p].pc = "complete" /\ ctx'[p].op = o /\ ctx'[p].list = c.list
        /\ \A q \in Procs : q # p => ctx'[q] = ctx[q]
    BY <1>0, <2>1 DEF Task
  <2>3. TaskInv(ctx[p])'
    BY <1>0, <1>2, <2>2 DEF TaskInv, Exists, Reached
  <2>. QED
    BY <1>0, <2>2, <2>3, QuietStep
<1>. QED
  BY <1>0, <1>1, <1>2 DEF Finish

LEMMA CompleteInv == ASSUME Inv, TypeInv', NEW p \in Procs, Complete(p) PROVE Inv'
<1>. DEFINE c == ctx[p]
            o == c.op
            first == Holds(p, o) /\ ~Newer(o) /\ ~Barred(o) /\ ops[o].status # "succeeded"
            told == IF Kind(o) = "account" THEN ops[o].told + 1 ELSE ops[o].told
<1>0. /\ o \in OpIds /\ Exists(o) /\ (\A l \in late : Sent(l.op, l.seen)) /\ UNCHANGED <<user, node, late>>
      /\ c.pc = "complete" /\ (\A u \in Targets : Reached(o, node[u])) /\ ops[o] \in Row /\ ops \in [OpIds -> Row]
  BY OpOf DEF Inv, TypeInv, TypeOK, TaskInv, Complete, At, Busy
<1>1. ops' = ops \/ Writes(o)
  <2>1. CASE ops' = [ops EXCEPT ![o] = [ops[o] EXCEPT !.status = "succeeded", !.told = told]]
    <3>1. /\ ops'[o].status = "succeeded" /\ ops'[o].revoked = ops[o].revoked /\ ops'[o].blocks = ops[o].blocks
          /\ ops'[o].done = ops[o].done /\ \A q \in OpIds : q # o => ops'[q] = ops[q]
      BY <1>0, <2>1 DEF Row
    <3>. QED
      BY <1>0, <3>1 DEF Writes, Exists, Inv, DoneIsReached
  <2>2. ops' = ops \/ ops' = [ops EXCEPT ![o] = [ops[o] EXCEPT !.status = "succeeded", !.told = told]]
    BY <1>0 DEF Complete
  <2>. QED
    BY <2>1, <2>2
<1>2. TaskInv(ctx[p])' /\ \A q \in Procs : q # p => ctx'[q] = ctx[q]
  <2>1. (ops'[o].status = "succeeded") \in BOOLEAN /\ Result(p, ops'[o].status = "succeeded")
    BY DEF Complete
  <2>. QED
    BY <1>0, <1>1, <2>1, ResultInv DEF Busy
<1>3. grant' = grant \/ (grant'.rev = grant.rev /\ grant'.status # "pending" /\ Delivered')
  <2>1. CASE Settles(o) /\ grant' = [grant EXCEPT !.status = "succeeded"]
    <3>1. grant'.rev = grant.rev /\ grant'.status = "succeeded"
      BY <2>1 DEF Inv, TypeInv, TypeOK
    <3>2. o = <<"grant", grant.rev>> /\ grant.rev > 0 /\ Kind(o) = "grant" /\ Revision(o) = grant.rev
      BY <1>0, <2>1, OpIdParts DEF Settles
    <3>3. \A u \in Targets : node[u].rev >= grant.rev
      BY <1>0, <3>2 DEF Reached
    <3>4. ops'[o].status # "none"
      BY <1>0, <1>1, QuietRows
    <3>. QED
      BY <1>0, <3>1, <3>2, <3>3, <3>4 DEF Delivered, Exists
  <2>. QED
    BY <2>1 DEF Complete
<1>. QED
  BY <1>0, <1>1, <1>2, <1>3, QuietStep

LEMMA ReleaseInv == ASSUME Inv, TypeInv', NEW p \in Procs, Release(p) PROVE Inv'
<1>. DEFINE c == ctx[p]
            o == c.op
<1>0. /\ ctx \in [Procs -> Task] /\ c \in Task /\ c.list \subseteq OpIds /\ (\A q \in c.list : Exists(q))
      /\ o \in OpIds /\ Exists(o) /\ (\A l \in late : Sent(l.op, l.seen)) /\ UNCHANGED <<user, grant, node, late>>
      /\ ops[o] \in Row /\ ops \in [OpIds -> Row]
  BY OpOf DEF Inv, TypeInv, TypeOK, TaskInv, Release, At, Busy
<1>1. ops' = ops \/ Writes(o)
  <2>1. CASE ops' = [ops EXCEPT ![o] = [ops[o] EXCEPT !.owner = Nobody, !.expired = FALSE]]
    <3>1. /\ ops'[o].status = ops[o].status /\ ops'[o].revoked = ops[o].revoked /\ ops'[o].blocks = ops[o].blocks
          /\ ops'[o].done = ops[o].done /\ \A q \in OpIds : q # o => ops'[q] = ops[q]
      BY <1>0, <2>1 DEF Row
    <3>. QED
      BY <1>0, <3>1 DEF Writes, Exists, Inv, DoneIsReached, SuccessIsEverywhere
  <2>2. ops' = ops \/ ops' = [ops EXCEPT ![o] = [ops[o] EXCEPT !.owner = Nobody, !.expired = FALSE]]
    BY <1>0 DEF Release
  <2>. QED
    BY <2>1, <2>2
<1>2. /\ ctx'[p].pc \in {"mark", "next", "idle"} /\ ctx'[p].list \subseteq c.list
      /\ \A q \in Procs : q # p => ctx'[q] = ctx[q]
  <2>1. CASE ctx' = [ctx EXCEPT ![p] = [Idle EXCEPT !.pc = "mark"]]
    BY <1>0, <2>1 DEF Idle
  <2>2. CASE ctx' = [ctx EXCEPT ![p] = Done(p)]
    BY <1>0, <2>2 DEF Done, Idle
  <2>. QED
    BY <2>1, <2>2 DEF Release
<1>3. TaskInv(ctx[p])'
  <2>1. \A q \in OpIds : ops'[q].status # "none" <=> Exists(q)
    BY <1>0, <1>1, QuietRows
  <2>. QED
    BY <1>0, <1>2, <2>1, LightTask DEF Busy
<1>. QED
  BY <1>0, <1>1, <1>2, <1>3, QuietStep

LEMMA MarkInv == ASSUME Inv, TypeInv', NEW p \in Procs, MarkRevoked(p) PROVE Inv'
<1>0. ctx \in [Procs -> Task] /\ (\A l \in late : Sent(l.op, l.seen)) /\ UNCHANGED <<user, ops, node, late>>
  BY DEF Inv, TypeInv, MarkRevoked
<1>1. grant'.rev = grant.rev /\ grant'.status = "revoked"
  BY DEF MarkRevoked, Inv, TypeInv, TypeOK
<1>2. Delivered'
  BY <1>1 DEF Delivered
<1>3. ctx'[p].pc = "idle" /\ ctx'[p].list = {} /\ (\A q \in Procs : q # p => ctx'[q] = ctx[q])
  BY <1>0 DEF MarkRevoked, Idle
<1>4. TaskInv(ctx[p])'
  BY <1>3, LightTask DEF Busy
<1>. QED
  BY <1>0, <1>1, <1>2, <1>3, <1>4, QuietStep

LEMMA CrashInv == ASSUME Inv, TypeInv', NEW p \in Procs, Crash(p) PROVE Inv'
<1>0. ctx \in [Procs -> Task] /\ (\A l \in late : Sent(l.op, l.seen)) /\ UNCHANGED <<user, grant, ops, node, late>>
  BY DEF Inv, TypeInv, Crash
<1>1. ctx'[p].pc = "idle" /\ ctx'[p].list = {} /\ (\A q \in Procs : q # p => ctx'[q] = ctx[q])
  BY <1>0 DEF Crash, Idle
<1>2. TaskInv(ctx[p])'
  BY <1>1, LightTask DEF Busy
<1>. QED
  BY <1>0, <1>1, <1>2, QuietStep

LEMMA ExpireInv == ASSUME Inv, TypeInv', NEW o \in OpIds, Expire(o), NEW p \in Procs PROVE Inv'
<1>0. /\ (\A l \in late : Sent(l.op, l.seen)) /\ UNCHANGED <<user, grant, node, late, ctx>>
      /\ ops[o] \in Row /\ ops \in [OpIds -> Row]
  BY DEF Inv, TypeInv, TypeOK, Expire
<1>1. Writes(o)
  <2>1. /\ ops'[o].status = ops[o].status /\ ops'[o].revoked = ops[o].revoked /\ ops'[o].blocks = ops[o].blocks
        /\ ops'[o].done = ops[o].done /\ \A q \in OpIds : q # o => ops'[q] = ops[q]
    BY <1>0 DEF Row, Expire
  <2>2. Exists(o) => \A t \in ops[o].done : Reached(o, node[t])
    BY DEF Inv, DoneIsReached
  <2>3. ops[o].status = "succeeded" => \A t \in Targets : Reached(o, node[t])
    BY DEF Inv, SuccessIsEverywhere
  <2>. QED
    BY <2>1, <2>2, <2>3 DEF Writes, Exists
<1>2. TaskInv(ctx[p])'
  BY <1>0, <1>1, QuietRows, TaskStays
<1>. QED
  BY <1>0, <1>1, <1>2, QuietStep

-----------------------------------------------------------------------------
(* Calls *)

LEMMA CallNodes ==
  ASSUME Inv, TypeInv', UNCHANGED <<user, grant, ops>>,
         NEW o \in OpIds, NEW t \in Targets, NEW a \in 0..MaxStates, Sent(o, a), Execute(o, t, a)
  PROVE  RowsStay /\ NodesMove /\ Rows' /\ Nodes' /\ DoneIsReached' /\ Delivered' /\ SuccessIsEverywhere'
<1>0. /\ user.rev \in Nat /\ grant.rev \in Nat /\ TypeInv
      /\ \A u \in Targets : node[u].rev \in Nat /\ node[u].account \in Nat /\ node'[u].rev \in Nat /\ node'[u].account \in Nat
  BY OperationsAssumption DEF Inv, TypeInv, TypeOK
<1>1. RowsStay
  BY <1>0 DEF RowsStay, Exists
<1>2. \A u \in Targets : node'[u] = node[u] \/ (u = t /\ Accepts(node[t], o, a) /\ node'[t] = After(node[t], o, a))
  BY DEF Execute, Inv, TypeInv, TypeOK
<1>3. NodesMove
  BY <1>2 DEF NodesMove
<1>4. Rows'
  BY DEF Inv, Rows, Exists
<1>5. \A q \in OpIds, u \in Targets : Exists(q) /\ Reached(q, node[u]) => Reached(q, node'[u])
  BY <1>0, <1>1, <1>3, ReachedStays DEF Reached
<1>6. DoneIsReached' /\ SuccessIsEverywhere'
  BY <1>5 DEF Inv, DoneIsReached, SuccessIsEverywhere, Exists, Reached, TypeInv, TypeOK, Row
<1>7. Nodes'
  <2>. SUFFICES ASSUME NEW u \in Targets
                PROVE  /\ node'[u].rev <= grant.rev
                       /\ node'[u].account <= user.rev
                       /\ node'[u].blocked <=> (node'[u].account > 0 /\ ops[<<"account", node'[u].account>>].blocks)
                       /\ node'[u].rev > 0 /\ Exists(<<"grant", node'[u].rev>>) => node'[u].live
    BY DEF Nodes, Exists
  <2>1. CASE node'[u] = node[u]
    BY <2>1 DEF Inv, Nodes
  <2>2. CASE u = t /\ Accepts(node[t], o, a) /\ node'[t] = After(node[t], o, a)
    <3>. DEFINE n == After(node[t], o, a)
    <3>0. /\ node[t].rev <= grant.rev /\ node[t].account <= user.rev
          /\ node[t].blocked <=> (node[t].account > 0 /\ ops[<<"account", node[t].account>>].blocks)
          /\ node[t].rev > 0 /\ Exists(<<"grant", node[t].rev>>) => node[t].live
      BY DEF Inv, Nodes
    <3>1. Exists(o) /\ Rows /\ o = <<Kind(o), Revision(o)>> /\ Revision(o) \in Nat /\ n.rev \in Nat
      BY <1>0, <2>2, OpIdParts DEF Sent, Inv
    <3>2. CASE Kind(o) = "grant"
      <4>1. n.rev = Revision(o) /\ n.live /\ n.account = a /\ ~n.blocked
        BY <1>0, <2>2, <3>2, AfterCall
      <4>2. Revision(o) <= grant.rev /\ a <= user.rev /\ (a > 0 => ~ops[<<"account", a>>].blocks)
        BY <3>1, <3>2 DEF Rows, Sent
      <4>. QED
        BY <2>2, <4>1, <4>2
    <3>3. CASE Kind(o) = "revoke"
      <4>1. /\ n.account = node[t].account /\ (n.blocked <=> node[t].blocked)
            /\ \/ n.rev = ops[o].revoked /\ ~n.live
               \/ n.rev = node[t].rev /\ (n.live <=> node[t].live)
        BY <1>0, <2>2, <3>3, AfterCall
      <4>2. ops[o].revoked <= grant.rev
        BY <3>1, <3>3 DEF Rows
      <4>3. n.rev <= grant.rev
        BY <3>0, <4>1, <4>2
      <4>4. ASSUME n.rev = ops[o].revoked, n.rev > 0 PROVE ~Exists(<<"grant", n.rev>>)
        <5>1. MaxRevision \in Nat /\ ops[o].revoked \in 0..MaxRevision
          BY OperationsAssumption DEF Inv, TypeInv, TypeOK, Row
        <5>2. <<"grant", n.rev>> \in OpIds /\ Kind(<<"grant", n.rev>>) = "grant" /\ Revision(<<"grant", n.rev>>) = n.rev
          BY <4>4, <5>1, OpIdOf DEF Kind, Revision
        <5>. QED
          BY <3>1, <3>3, <4>4, <5>2 DEF Rows
      <4>5. n.rev > 0 /\ Exists(<<"grant", n.rev>>) => n.live
        BY <3>0, <4>1, <4>4
      <4>. QED
        BY <2>2, <3>0, <4>1, <4>3, <4>5
    <3>4. CASE Kind(o) = "account"
      <4>1. n.rev = node[t].rev /\ (n.live <=> node[t].live) /\ n.account = Revision(o) /\ (n.blocked <=> ops[o].blocks)
        BY <1>0, <2>2, <3>4, AfterCall
      <4>2. Revision(o) <= user.rev /\ Revision(o) > 0 /\ o = <<"account", Revision(o)>>
        BY <3>1, <3>4, OpIdParts DEF Rows
      <4>. QED
        BY <2>2, <3>0, <4>1, <4>2
    <3>. QED
      BY <3>2, <3>3, <3>4, OpIdParts
  <2>. QED
    BY <1>2, <2>1, <2>2
<1>8. Delivered'
  <2>1. \A u \in Targets : node'[u].rev >= node[u].rev
    BY <1>0, <1>2, AfterCall
  <2>. QED
    BY <1>0, <2>1 DEF Inv, Delivered, Exists
<1>. QED
  BY <1>1, <1>3, <1>4, <1>6, <1>7, <1>8

(* A call that is accepted reaches its node. *)
LEMMA CallReaches ==
  ASSUME TypeInv, TypeInv', NEW o \in OpIds, NEW t \in Targets, NEW a \in 0..MaxStates, Execute(o, t, a), Accepts(node[t], o, a)
  PROVE  Reached(o, node'[t])
<1>1. node'[t] = After(node[t], o, a)
  BY DEF Execute, TypeInv, TypeOK
<1>2. Revision(o) \in Nat /\ node'[t].rev \in Nat /\ node'[t].account \in Nat /\ ops[o].revoked \in Nat
  BY OpIdParts, OperationsAssumption DEF TypeInv, TypeOK, Row
<1>3. CASE Kind(o) = "grant"
  BY <1>1, <1>2, <1>3, AfterCall DEF Reached
<1>4. CASE Kind(o) = "revoke"
  BY <1>1, <1>2, <1>4, AfterCall DEF Reached
<1>5. CASE Kind(o) = "account"
  BY <1>1, <1>2, <1>5, AfterCall DEF Reached
<1>. QED
  BY <1>3, <1>4, <1>5, OpIdParts

LEMMA CallInv == ASSUME Inv, TypeInv', NEW p \in Procs, Call(p) PROVE Inv'
<1>. DEFINE c == ctx[p]
            o == c.op
            t == c.target
            ok == Accepts(node[t], o, c.seen)
<1>0. /\ ctx \in [Procs -> Task] /\ c \in Task /\ c.list \subseteq OpIds /\ (\A q \in c.list : Exists(q))
      /\ o \in OpIds /\ Exists(o) /\ t \in Targets /\ c.seen \in 0..MaxStates /\ Sent(o, c.seen)
      /\ (\A l \in late : Sent(l.op, l.seen)) /\ UNCHANGED <<user, grant, ops, late>> /\ Execute(o, t, c.seen)
      /\ c.failed \in BOOLEAN /\ TypeInv
      /\ ~c.failed => \A u \in Targets \ c.todo : Reached(o, node[u])
  BY OpOf DEF Inv, TypeInv, TaskInv, Call, At, Busy, Task
<1>1. RowsStay /\ NodesMove /\ Rows' /\ Nodes' /\ DoneIsReached' /\ Delivered' /\ SuccessIsEverywhere'
  BY <1>0, CallNodes
<1>2. \A u \in Targets : Reached(o, node[u]) => Reached(o, node'[u])
  <2>. SUFFICES ASSUME NEW q \in OpIds, NEW u \in Targets, Exists(q), Reached(q, node[u]) PROVE Reached(q, node'[u])
    BY <1>0
  <2>. QED
    BY <1>0, <1>1, ReachedStays DEF Reached
<1>3. ctx' = [ctx EXCEPT ![p] = [c EXCEPT !.pc = "back", !.status = ops[o].status, !.ok = ok]]
  BY DEF Call, Inv, TypeInv
<1>4. /\ ctx'[p].pc = "back" /\ ctx'[p].op = o /\ ctx'[p].todo = c.todo /\ ctx'[p].list = c.list /\ ctx'[p].target = t
      /\ ctx'[p].failed = c.failed /\ ctx'[p].status = ops[o].status /\ ctx'[p].ok = ok
      /\ \A q \in Procs : q # p => ctx'[q] = ctx[q]
  BY <1>0, <1>3 DEF Task
<1>5. ok => Reached(o, node'[t])
  BY <1>0, CallReaches
<1>6. ops[o].status = "succeeded" => \A u \in Targets : Reached(o, node[u])
  BY <1>0 DEF Inv, SuccessIsEverywhere
<1>7. TaskInv(ctx[p])'
  <2>1. /\ ctx'[p].pc \in Busy => ops'[ctx'[p].op].status # "none"
        /\ \A q \in ctx'[p].list : ops'[q].status # "none"
        /\ ctx'[p].pc # "call" /\ ctx'[p].pc # "complete"
    BY <1>0, <1>4 DEF Exists
  <2>2. ~c.failed => \A u \in Targets \ c.todo : Reached(o, node'[u])
    BY <1>0, <1>2
  <2>3. ok /\ ops[o].status = "succeeded" => \A u \in Targets : Reached(o, node'[u])
    BY <1>2, <1>6
  <2>. HIDE DEF ok
  <2>. QED
    BY <1>0, <1>4, <1>5, <2>1, <2>2, <2>3 DEF TaskInv, Exists, Reached
<1>8. \A q \in Procs : TaskInv(ctx[q])'
  BY <1>1, <1>4, <1>7, TaskStays
<1>9. \A l \in late' : Sent(l.op, l.seen)'
  BY <1>0 DEF Sent, Exists
<1>. QED
  BY <1>1, <1>8, <1>9 DEF Inv

LEMMA LateCallInv == ASSUME Inv, TypeInv', LateCall PROVE Inv'
<1>1. PICK l \in late : Execute(l.op, l.target, l.seen) /\ late' = late \ {l}
  BY DEF LateCall
<1>2. l.op \in OpIds /\ l.target \in Targets /\ l.seen \in 0..MaxStates /\ Sent(l.op, l.seen)
      /\ UNCHANGED <<user, grant, ops, ctx>>
  BY DEF Inv, TypeInv, TypeOK, Calls, LateCall
<1>3. RowsStay /\ NodesMove /\ Rows' /\ Nodes' /\ DoneIsReached' /\ Delivered' /\ SuccessIsEverywhere'
  BY <1>1, <1>2, CallNodes
<1>4. \A q \in Procs : TaskInv(ctx[q])'
  BY <1>2, <1>3, TaskStays
<1>5. \A k \in late' : Sent(k.op, k.seen)'
  BY <1>1, <1>2 DEF Sent, Exists, Inv
<1>. QED
  BY <1>3, <1>4, <1>5 DEF Inv

-----------------------------------------------------------------------------
(* Requests *)

(* The process turns to an operation that is stored. *)
LEMMA TurnInv ==
  ASSUME Inv, NEW p \in Procs, NEW o \in OpIds, NEW b \in BOOLEAN, Turn(p, o, b), RowsStay, ops'[o].status # "none"
  PROVE  TaskInv(ctx[p])' /\ \A q \in Procs : q # p => ctx'[q] = ctx[q]
<1>1. ctx \in [Procs -> Task] /\ ctx[p] \in Task /\ ctx[p].list \subseteq OpIds /\ \A q \in ctx[p].list : Exists(q)
  BY OpOf DEF Inv, TypeInv, TaskInv
<1>2. ctx' = [ctx EXCEPT ![p] = [ctx[p] EXCEPT !.pc = "claim", !.op = o, !.revokes = b]]
  BY <1>1 DEF Turn
<1>3. ctx'[p].pc = "claim" /\ ctx'[p].op = o /\ ctx'[p].list = ctx[p].list /\ \A q \in Procs : q # p => ctx'[q] = ctx[q]
  BY <1>1, <1>2 DEF Task
<1>. QED
  BY <1>1, <1>3, LightTask DEF RowsStay

(* A row is added. *)
LEMMA NewRow ==
  ASSUME Inv, TypeInv', UNCHANGED <<node, late>>, user'.rev >= user.rev,
         NEW p \in Procs, NEW o \in OpIds, NEW b \in BOOLEAN, Turn(p, o, b), ~Exists(o),
         ops'[o].status = "pending", ops'[o].done = {},
         \A q \in OpIds : q # o => /\ ops'[q].status # "none" <=> Exists(q)
                                   /\ ops'[q].status = "succeeded" => ops[q].status = "succeeded"
                                   /\ ops'[q].revoked = ops[q].revoked /\ ops'[q].blocks = ops[q].blocks
                                   /\ ops'[q].done = ops[q].done,
         Rows', Nodes', Delivered'
  PROVE  Inv'
<1>1. RowsStay /\ NodesMove
  BY DEF RowsStay, NodesMove
<1>2. \A q \in Procs : TaskInv(ctx[q])'
  BY <1>1, TurnInv, TaskStays
<1>3. \A q \in OpIds, t \in Targets : q # o /\ Reached(q, node[t]) => Reached(q, node[t])'
  BY DEF Reached
<1>4. DoneIsReached' /\ SuccessIsEverywhere'
  <2>1. ASSUME NEW q \in OpIds, Exists(q)', NEW t \in ops'[q].done PROVE Reached(q, node[t])'
    <3>1. q # o /\ t \in ops[q].done /\ Exists(q)
      BY <2>1 DEF Exists
    <3>2. t \in Targets
      BY <3>1 DEF Inv, TypeInv, TypeOK, Row
    <3>. QED
      BY <1>3, <3>1, <3>2 DEF Inv, DoneIsReached
  <2>2. ASSUME NEW q \in OpIds, ops'[q].status = "succeeded", NEW t \in Targets PROVE Reached(q, node[t])'
    BY <1>3, <2>2 DEF Inv, SuccessIsEverywhere
  <2>. QED
    BY <2>1, <2>2 DEF DoneIsReached, SuccessIsEverywhere
<1>5. ASSUME NEW c \in late' PROVE Sent(c.op, c.seen)'
  <2>1. c.op \in OpIds /\ c.seen \in 0..MaxStates /\ Sent(c.op, c.seen)
    BY <1>5 DEF Inv, TypeInv, TypeOK, Calls
  <2>. QED
    BY <1>1, <2>1, SentStays DEF Sent, Exists
<1>. QED
  BY <1>2, <1>4, <1>5 DEF Inv

(* What a row that is added does not touch. *)
LEMMA Bounds ==
  ASSUME Inv
  PROVE  /\ Rows /\ Nodes /\ Delivered
         /\ user.rev \in Nat /\ grant.rev \in Nat /\ user.rev <= MaxStates /\ grant.rev <= MaxRevision
         /\ MaxStates \in Nat /\ MaxRevision \in Nat
         /\ ops \in [OpIds -> Row] /\ ctx \in [Procs -> Task]
         /\ \A l \in late : Sent(l.op, l.seen)
         /\ \A o \in OpIds : Revision(o) \in Nat /\ ops[o].revoked \in Nat /\ o = <<Kind(o), Revision(o)>>
         /\ \A t \in Targets : node[t].rev \in Nat /\ node[t].account \in Nat
  BY OpIdParts, OperationsAssumption DEF Inv, TypeInv, TypeOK, Row

LEMMA GrantInv == ASSUME Inv, TypeInv', NEW p \in Procs, RequestGrant(p) PROVE Inv'
<1>. DEFINE o == <<"grant", grant.rev + 1>>
<1>0. UNCHANGED <<user, node, late>>
  BY DEF RequestGrant
<1>1. CASE grant.status = "pending" /\ Turn(p, <<"grant", grant.rev>>, FALSE) /\ UNCHANGED <<grant, ops>>
  <2>1. <<"grant", grant.rev>> \in OpIds /\ Exists(<<"grant", grant.rev>>)
    BY <1>1, Bounds, OpIdOf DEF Rows, Inv, TypeInv
  <2>2. RowsStay
    BY <1>0, <1>1, QuietRows
  <2>3. TaskInv(ctx[p])' /\ \A q \in Procs : q # p => ctx'[q] = ctx[q]
    BY <1>1, <2>1, <2>2, TurnInv DEF Exists
  <2>. QED
    BY <1>0, <1>1, <2>3, Bounds, QuietStep
<1>2. CASE /\ grant.rev < MaxRevision
           /\ grant' = [billing |-> "free", status |-> "pending", rev |-> grant.rev + 1]
           /\ ops' = [ops EXCEPT ![o] = Fresh]
           /\ Turn(p, o, FALSE)
  <2>1. o \in OpIds /\ Kind(o) = "grant" /\ Revision(o) = grant.rev + 1
    BY <1>2, Bounds, OpIdOf DEF Kind, Revision
  <2>2. ~Exists(o)
    BY <2>1, Bounds DEF Rows
  <2>3. ops'[o] = Fresh /\ \A q \in OpIds : q # o => ops'[q] = ops[q]
    BY <1>2, <2>1, Bounds
  <2>4. Fresh.status = "pending" /\ Fresh.done = {}
    BY DEF Fresh, NoRow
  <2>5. grant'.rev = grant.rev + 1 /\ grant'.status = "pending"
    BY <1>2
  <2>6. /\ \A i \in 1..MaxStates : ops'[<<"account", i>>] = ops[<<"account", i>>]
        /\ \A i \in 1..MaxRevision : i <= grant.rev => ops'[<<"grant", i>>] = ops[<<"grant", i>>]
    BY <2>3, Bounds, OpIdOf
  <2>. HIDE DEF o
  <2>7. Rows'
    <3>1. \A q \in OpIds : Exists(q)' <=> q = o \/ Exists(q)
      BY <2>3, <2>4 DEF Exists
    <3>2. \A q \in OpIds : Kind(q) # "grant" => ops'[q] = ops[q]
      BY <2>1, <2>3
    <3>3. \A q \in OpIds : Exists(q)' /\ Kind(q) = "grant" => Revision(q) <= grant'.rev
      BY <2>1, <2>5, <3>1, Bounds DEF Rows
    <3>4. \A q \in OpIds : Exists(q)' /\ Kind(q) = "revoke" => ops'[q].revoked <= grant'.rev
      BY <2>1, <2>5, <3>1, <3>2, Bounds DEF Rows
    <3>5. \A q, r \in OpIds : Exists(q)' /\ Kind(q) = "revoke" /\ Exists(r)' /\ Kind(r) = "grant" => Revision(r) # ops'[q].revoked
      <4>. SUFFICES ASSUME NEW q \in OpIds, NEW r \in OpIds, Exists(q)', Kind(q) = "revoke", Exists(r)', Kind(r) = "grant"
                    PROVE  Revision(r) # ops'[q].revoked
        OBVIOUS
      <4>1. Exists(q) /\ ops'[q].revoked = ops[q].revoked /\ ops[q].revoked <= grant.rev
        BY <2>1, <3>1, <3>2, Bounds DEF Rows
      <4>2. CASE r = o
        BY <2>1, <4>1, <4>2, Bounds
      <4>3. CASE r # o
        BY <3>1, <4>1, <4>3, Bounds DEF Rows
      <4>. QED
        BY <4>2, <4>3
    <3>6. \A q \in OpIds : Kind(q) = "account" => (Exists(q)' <=> Revision(q) <= user'.rev)
      BY <1>0, <2>1, <3>1, Bounds DEF Rows
    <3>7. user'.blocked <=> (user'.rev > 0 /\ ops'[<<"account", user'.rev>>].blocks)
      BY <1>0, <2>6, Bounds DEF Rows
    <3>8. ops'[<<"grant", grant'.rev>>].status # "none"
      BY <2>3, <2>4, <2>5 DEF o
    <3>. QED
      BY <3>3, <3>4, <3>5, <3>6, <3>7, <3>8 DEF Rows, Exists
  <2>8. Nodes'
    <3>. SUFFICES ASSUME NEW t \in Targets
                  PROVE  /\ node[t].rev <= grant'.rev
                         /\ node[t].account <= user.rev
                         /\ node[t].blocked <=> (node[t].account > 0 /\ ops'[<<"account", node[t].account>>].blocks)
                         /\ node[t].rev > 0 /\ ops'[<<"grant", node[t].rev>>].status # "none" => node[t].live
      BY <1>0 DEF Nodes, Exists
    <3>. QED
      BY <2>5, <2>6, Bounds DEF Nodes, Exists
  <2>9. Delivered'
    BY <2>5 DEF Delivered
  <2>10. Turn(p, o, FALSE)
    BY <1>2 DEF o
  <2>. QED
    <3>1. user'.rev >= user.rev /\ ops'[o].status = "pending" /\ ops'[o].done = {}
      BY <1>0, <2>3, <2>4, Bounds
    <3>2. \A q \in OpIds : q # o => /\ ops'[q].status # "none" <=> Exists(q)
                                    /\ ops'[q].status = "succeeded" => ops[q].status = "succeeded"
                                    /\ ops'[q].revoked = ops[q].revoked /\ ops'[q].blocks = ops[q].blocks
                                    /\ ops'[q].done = ops[q].done
      BY <2>3 DEF Exists
    <3>. QED
      BY <1>0, <2>1, <2>2, <2>7, <2>8, <2>9, <2>10, <3>1, <3>2, NewRow
<1>. QED
  BY <1>1, <1>2 DEF RequestGrant

LEMMA OfferInv == ASSUME Inv, TypeInv', NEW p \in Procs, RequestOffer(p) PROVE Inv'
<1>0. UNCHANGED <<user, ops, node, late, ctx>> /\ grant' = [grant EXCEPT !.billing = "paid", !.status = "succeeded"]
  BY DEF RequestOffer
<1>1. grant'.rev = grant.rev /\ grant'.status = "succeeded" /\ grant'.billing = "paid"
  BY <1>0 DEF Inv, TypeInv, TypeOK
<1>2. Delivered'
  BY <1>1 DEF Delivered
<1>3. TaskInv(ctx[p])'
  BY <1>0, QuietRows, TaskStays
<1>. QED
  BY <1>0, <1>1, <1>2, <1>3, Bounds, QuietStep

LEMMA StateInv == ASSUME Inv, TypeInv', NEW p \in Procs, NEW b \in BOOLEAN, RequestState(p, b) PROVE Inv'
<1>. DEFINE o == <<"account", user.rev + 1>>
<1>0. /\ UNCHANGED <<grant, node, late>> /\ user.rev < MaxStates
      /\ user' = [blocked |-> b, rev |-> user.rev + 1]
      /\ ops' = [ops EXCEPT ![o] = [Fresh EXCEPT !.blocks = b]]
      /\ Turn(p, o, FALSE)
  BY DEF RequestState
<1>1. o \in OpIds /\ Kind(o) = "account" /\ Revision(o) = user.rev + 1
  BY <1>0, Bounds, OpIdOf DEF Kind, Revision
<1>2. ~Exists(o)
  BY <1>1, Bounds DEF Rows
<1>3. /\ ops'[o].status = "pending" /\ ops'[o].done = {} /\ ops'[o].blocks = b
      /\ \A q \in OpIds : q # o => ops'[q] = ops[q]
  <2>1. ops'[o] = [Fresh EXCEPT !.blocks = b]
    BY <1>0, <1>1, Bounds
  <2>2. \A q \in OpIds : q # o => ops'[q] = ops[q]
    BY <1>0, <1>1, Bounds
  <2>. QED
    BY <2>1, <2>2 DEF Fresh, NoRow
<1>4. user'.rev = user.rev + 1 /\ (user'.blocked <=> b) /\ user'.rev >= user.rev
  BY <1>0, Bounds
<1>5. /\ \A i \in 1..MaxStates : i <= user.rev => ops'[<<"account", i>>] = ops[<<"account", i>>]
      /\ \A i \in 1..MaxRevision : ops'[<<"grant", i>>] = ops[<<"grant", i>>]
  BY <1>3, Bounds, OpIdOf
<1>6. ops'[<<"account", user'.rev>>].blocks = b
  BY <1>3, <1>4
<1>7. Turn(p, o, FALSE)
  BY <1>0
<1>8. grant' = grant /\ node' = node /\ (grant.rev > 0 => ops'[<<"grant", grant.rev>>] = ops[<<"grant", grant.rev>>])
  BY <1>0, <1>5, Bounds
<1>. HIDE DEF o
<1>9. Rows'
  <2>1. \A q \in OpIds : Exists(q)' <=> q = o \/ Exists(q)
    BY <1>3 DEF Exists
  <2>2. \A q \in OpIds : Kind(q) # "account" => (Exists(q)' <=> Exists(q)) /\ ops'[q] = ops[q]
    BY <1>1, <1>3, <2>1
  <2>3. /\ \A q \in OpIds : Exists(q)' /\ Kind(q) = "grant" => Revision(q) <= grant'.rev
        /\ \A q \in OpIds : Exists(q)' /\ Kind(q) = "revoke" => ops'[q].revoked <= grant'.rev
        /\ \A q, r \in OpIds : Exists(q)' /\ Kind(q) = "revoke" /\ Exists(r)' /\ Kind(r) = "grant" => Revision(r) # ops'[q].revoked
    BY <1>0, <2>2, Bounds DEF Rows
  <2>4. \A q \in OpIds : Kind(q) = "account" => (Exists(q)' <=> Revision(q) <= user'.rev)
    <3>. SUFFICES ASSUME NEW q \in OpIds, Kind(q) = "account" PROVE Exists(q)' <=> Revision(q) <= user'.rev
      OBVIOUS
    <3>1. CASE q = o
      BY <1>1, <1>4, <2>1, <3>1, Bounds
    <3>2. CASE q # o
      <4>1. Revision(q) # user.rev + 1
        BY <1>1, <3>2, Bounds
      <4>. QED
        BY <1>4, <2>1, <3>2, <4>1, Bounds DEF Rows
    <3>. QED
      BY <3>1, <3>2
  <2>5. user'.blocked <=> (user'.rev > 0 /\ ops'[<<"account", user'.rev>>].blocks)
    BY <1>4, <1>6, Bounds
  <2>6. grant'.status = "pending" => ops'[<<"grant", grant'.rev>>].status # "none"
    <3>1. grant.status = "pending" => grant.rev > 0 /\ Exists(<<"grant", grant.rev>>)
      BY DEF Inv, Rows, TypeInv
    <3>. QED
      BY <1>8, <3>1 DEF Exists
  <2>. QED
    BY <2>3, <2>4, <2>5, <2>6 DEF Rows, Exists
<1>10. Nodes'
  <2>. SUFFICES ASSUME NEW t \in Targets
                PROVE  /\ node[t].rev <= grant.rev
                       /\ node[t].account <= user'.rev
                       /\ node[t].blocked <=> (node[t].account > 0 /\ ops'[<<"account", node[t].account>>].blocks)
                       /\ node[t].rev > 0 /\ ops'[<<"grant", node[t].rev>>].status # "none" => node[t].live
    BY <1>0 DEF Nodes, Exists
  <2>. QED
    BY <1>4, <1>5, Bounds DEF Nodes, Exists
<1>11. Delivered'
  BY <1>8, Bounds DEF Delivered, Exists
<1>12. \A q \in OpIds : q # o => /\ ops'[q].status # "none" <=> Exists(q)
                                 /\ ops'[q].status = "succeeded" => ops[q].status = "succeeded"
                                 /\ ops'[q].revoked = ops[q].revoked /\ ops'[q].blocks = ops[q].blocks
                                 /\ ops'[q].done = ops[q].done
  BY <1>3 DEF Exists
<1>. QED
  BY <1>0, <1>1, <1>2, <1>3, <1>4, <1>7, <1>9, <1>10, <1>11, <1>12, NewRow

LEMMA RevokeInv == ASSUME Inv, TypeInv', NEW p \in Procs, RequestRevoke(p) PROVE Inv'
<1>0. UNCHANGED <<user, node, late>>
  BY DEF RequestRevoke
<1>1. ASSUME NEW o \in Pending("revoke"), grant' = [grant EXCEPT !.status = "revoking"], Turn(p, o, TRUE), UNCHANGED ops
      PROVE  Inv'
  <2>1. o \in OpIds /\ Exists(o)
    BY DEF Pending, Exists
  <2>2. RowsStay
    BY <1>0, <1>1, QuietRows
  <2>3. TaskInv(ctx[p])' /\ \A q \in Procs : q # p => ctx'[q] = ctx[q]
    BY <1>1, <2>1, <2>2, TurnInv DEF Exists
  <2>4. grant'.rev = grant.rev /\ grant'.status = "revoking"
    BY <1>1 DEF Inv, TypeInv, TypeOK
  <2>5. Delivered'
    BY <2>4 DEF Delivered
  <2>. QED
    BY <1>0, <1>1, <2>3, <2>4, <2>5, Bounds, QuietStep
<1>2. ASSUME NEW k \in 1..MaxRevocations,
             \A i \in 1..MaxRevocations : (ops[<<"revoke", i>>].status = "none") <=> (i >= k),
             grant.rev < MaxRevision,
             grant' = [grant EXCEPT !.status = "revoking", !.rev = @ + 1],
             ops' = [o \in OpIds |->
                       IF o = <<"revoke", k>> THEN [Fresh EXCEPT !.revoked = grant.rev + 1]
                       ELSE IF Kind(o) = "grant" /\ ops[o].status # "none" THEN [ops[o] EXCEPT !.status = "superseded"]
                       ELSE ops[o]],
             Turn(p, <<"revoke", k>>, TRUE)
      PROVE  Inv'
  <2>. DEFINE o == <<"revoke", k>>
  <2>1. o \in OpIds /\ Kind(o) = "revoke" /\ ~Exists(o)
    BY <1>2, OpIdOf DEF Kind, Exists
  <2>2. ops'[o].status = "pending" /\ ops'[o].done = {} /\ ops'[o].revoked = grant.rev + 1
    <3>1. ops'[o] = [Fresh EXCEPT !.revoked = grant.rev + 1]
      BY <1>2, <2>1
    <3>. QED
      BY <3>1 DEF Fresh, NoRow
  <2>3. \A q \in OpIds : q # o => /\ ops'[q].status # "none" <=> Exists(q)
                                  /\ ops'[q].status = "succeeded" => ops[q].status = "succeeded"
                                  /\ ops'[q].revoked = ops[q].revoked /\ ops'[q].blocks = ops[q].blocks
                                  /\ ops'[q].done = ops[q].done
    <3>. SUFFICES ASSUME NEW q \in OpIds, q # o
                  PROVE  /\ ops'[q].status # "none" <=> Exists(q)
                         /\ ops'[q].status = "succeeded" => ops[q].status = "succeeded"
                         /\ ops'[q].revoked = ops[q].revoked /\ ops'[q].blocks = ops[q].blocks
                         /\ ops'[q].done = ops[q].done
      OBVIOUS
    <3>1. ops[q] \in Row
      BY Bounds
    <3>2. CASE Kind(q) = "grant" /\ Exists(q)
      <4>1. ops'[q] = [ops[q] EXCEPT !.status = "superseded"]
        BY <1>2, <3>2 DEF Exists
      <4>2. /\ ops'[q].status = "superseded" /\ ops'[q].revoked = ops[q].revoked /\ ops'[q].blocks = ops[q].blocks
            /\ ops'[q].done = ops[q].done
        BY <3>1, <4>1 DEF Row
      <4>. QED
        BY <3>2, <4>2
    <3>3. CASE ~(Kind(q) = "grant" /\ Exists(q))
      <4>1. ops'[q] = ops[q]
        BY <1>2, <3>3 DEF Exists
      <4>. QED
        BY <4>1 DEF Exists
    <3>. QED
      BY <3>2, <3>3
  <2>. HIDE DEF o
  <2>4. grant'.rev = grant.rev + 1 /\ grant'.status = "revoking"
    <3>1. grant' = [billing |-> grant.billing, status |-> "revoking", rev |-> grant.rev + 1]
      BY <1>2 DEF Inv, TypeInv, TypeOK
    <3>. QED
      BY <3>1
  <2>5. /\ \A i \in 1..MaxStates : ops'[<<"account", i>>].blocks = ops[<<"account", i>>].blocks
        /\ \A i \in 1..MaxRevision : ops'[<<"grant", i>>].status # "none" <=> Exists(<<"grant", i>>)
    <3>1. \A i : <<"account", i>> # o /\ <<"grant", i>> # o
      BY DEF o
    <3>. QED
      BY <2>3, <3>1, OpIdOf
  <2>6. Rows'
    <3>1. \A q \in OpIds : Exists(q)' <=> q = o \/ Exists(q)
      BY <2>2, <2>3 DEF Exists
    <3>2. /\ \A q \in OpIds : Exists(q)' /\ Kind(q) = "grant" => Revision(q) <= grant'.rev
          /\ \A q \in OpIds : Kind(q) = "account" => (Exists(q)' <=> Revision(q) <= user'.rev)
      BY <1>0, <2>1, <2>4, <3>1, Bounds DEF Rows
    <3>3. \A q \in OpIds : Exists(q)' /\ Kind(q) = "revoke" => ops'[q].revoked <= grant'.rev
      BY <2>2, <2>3, <2>4, <3>1, Bounds DEF Rows
    <3>4. \A q, r \in OpIds : Exists(q)' /\ Kind(q) = "revoke" /\ Exists(r)' /\ Kind(r) = "grant" => Revision(r) # ops'[q].revoked
      <4>. SUFFICES ASSUME NEW q \in OpIds, NEW r \in OpIds, Exists(q)', Kind(q) = "revoke", Exists(r)', Kind(r) = "grant"
                    PROVE  Revision(r) # ops'[q].revoked
        OBVIOUS
      <4>1. Exists(r) /\ Revision(r) <= grant.rev
        BY <2>1, <3>1, Bounds DEF Rows
      <4>2. CASE q = o
        BY <2>2, <4>1, <4>2, Bounds
      <4>3. CASE q # o
        BY <2>3, <3>1, <4>1, <4>3, Bounds DEF Rows
      <4>. QED
        BY <4>2, <4>3
    <3>5. user'.blocked <=> (user'.rev > 0 /\ ops'[<<"account", user'.rev>>].blocks)
      BY <1>0, <2>5, Bounds DEF Rows
    <3>. QED
      BY <2>4, <3>2, <3>3, <3>4, <3>5 DEF Rows
  <2>7. Nodes'
    <3>. SUFFICES ASSUME NEW t \in Targets
                  PROVE  /\ node[t].rev <= grant'.rev
                         /\ node[t].account <= user.rev
                         /\ node[t].blocked <=> (node[t].account > 0 /\ ops'[<<"account", node[t].account>>].blocks)
                         /\ node[t].rev > 0 /\ ops'[<<"grant", node[t].rev>>].status # "none" => node[t].live
      BY <1>0 DEF Nodes, Exists
    <3>. QED
      BY <2>4, <2>5, Bounds DEF Nodes
  <2>8. Delivered'
    BY <2>4 DEF Delivered
  <2>9. Turn(p, o, TRUE)
    BY <1>2 DEF o
  <2>10. user'.rev >= user.rev
    BY <1>0, Bounds
  <2>. QED
    BY <1>0, <2>1, <2>2, <2>3, <2>6, <2>7, <2>8, <2>9, <2>10, NewRow
<1>. QED
  BY <1>1, <1>2 DEF RequestRevoke

-----------------------------------------------------------------------------
(* The invariant holds *)

LEMMA InitInv == Init => Inv
<1>. SUFFICES ASSUME Init PROVE Inv
  OBVIOUS
<1>1. TypeInv
  BY InitType
<1>2. /\ \A o \in OpIds : ops[o].status = "none" /\ Revision(o) > 0 /\ Revision(o) \in Nat
      /\ grant.status = "none" /\ grant.rev = 0 /\ user.rev = 0 /\ ~user.blocked /\ late = {}
      /\ \A t \in Targets : node[t].rev = 0 /\ node[t].account = 0 /\ ~node[t].blocked
      /\ \A p \in Procs : ctx[p] = Idle
  BY OpIdParts DEF Init, NoRow
<1>3. Rows /\ Nodes /\ DoneIsReached /\ Delivered /\ SuccessIsEverywhere
  BY <1>2 DEF Rows, Nodes, DoneIsReached, Delivered, SuccessIsEverywhere, Exists
<1>4. Idle.pc = "idle" /\ Idle.list = {}
  BY DEF Idle
<1>5. \A p \in Procs : TaskInv(ctx[p])
  BY <1>2, <1>4 DEF TaskInv, Busy
<1>. QED
  BY <1>1, <1>2, <1>3, <1>5 DEF Inv

LEMMA StutterInv == ASSUME Inv, UNCHANGED vars PROVE Inv'
<1>1. UNCHANGED <<user, grant, ops, node, late, ctx, faults>>
  BY DEF vars
<1>2. TypeInv'
  BY <1>1, NextType DEF Inv, vars
<1>3. Rows' /\ Nodes' /\ DoneIsReached' /\ Delivered' /\ SuccessIsEverywhere'
  BY <1>1 DEF Inv, Rows, Nodes, DoneIsReached, Delivered, SuccessIsEverywhere, Exists, Reached
<1>4. \A p \in Procs : TaskInv(ctx[p])'
  BY <1>1 DEF Inv, TaskInv, Exists, Reached, Sent
<1>5. \A c \in late' : Sent(c.op, c.seen)'
  BY <1>1 DEF Inv, Sent, Exists
<1>. QED
  BY <1>2, <1>3, <1>4, <1>5 DEF Inv

LEMMA NextInv == Inv /\ [Next]_vars => Inv'
<1>. SUFFICES ASSUME Inv, [Next]_vars PROVE Inv'
  OBVIOUS
<1>0. TypeInv'
  BY NextType DEF Inv
<1>1. CASE UNCHANGED vars
  BY <1>1, StutterInv
<1>2. ASSUME NEW p \in Procs, Request(p) PROVE Inv'
  BY <1>0, <1>2, GrantInv, OfferInv, StateInv, RevokeInv DEF Request
<1>3. ASSUME NEW p \in Procs, Step(p) PROVE Inv'
  BY <1>0, <1>3, ClaimInv, FenceInv, CallInv, BackInv, FinishInv, CompleteInv, ReleaseInv, MarkInv DEF Step
<1>4. ASSUME NEW o \in OpIds, Expire(o) PROVE Inv'
  <2>1. CASE Procs = {}
    <3>1. UNCHANGED <<user, grant, node, late, ctx>> /\ ops[o] \in Row /\ ops \in [OpIds -> Row]
      BY <1>4 DEF Inv, TypeInv, TypeOK, Expire
    <3>. QED
      BY <1>4, <2>1, <3>1 DEF Expire, Row
  <2>2. CASE Procs # {}
    BY <1>0, <1>4, <2>2, ExpireInv
  <2>. QED
    BY <2>1, <2>2
<1>. QED
  BY <1>0, <1>1, <1>2, <1>3, <1>4, JobInv, CallFailsInv, CrashInv, LateCallInv DEF Next, Procs

(* An operation recorded as succeeded reached every target and is undone   *)
(* on none, whatever failed, was repeated, or arrived late                 *)
(* (_run_claimed, _complete, the node's revision checks).                  *)
THEOREM SuccessStands == Spec => []SuccessIsEverywhere
<1>1. Inv => SuccessIsEverywhere
  BY DEF Inv
<1>. QED
  BY <1>1, InitInv, NextInv, PTL DEF Spec

(* A node blocks the account exactly as the admin decided at the revision  *)
(* the node is at (_guard, provision).                                     *)
THEOREM DecisionsArrive == Spec => []AccountAsDecided
<1>1. Inv => AccountAsDecided
  <2>. SUFFICES ASSUME Inv, NEW t \in Targets
                PROVE  node[t].blocked = (node[t].account > 0 /\ ops[<<"account", node[t].account>>].blocks)
    BY DEF AccountAsDecided
  <2>1. node[t].blocked <=> (node[t].account > 0 /\ ops[<<"account", node[t].account>>].blocks)
    BY DEF Inv, Nodes
  <2>2. node[t].blocked \in BOOLEAN
    BY DEF Inv, TypeInv, TypeOK
  <2>. QED
    BY <2>1, <2>2
<1>. QED
  BY <1>1, InitInv, NextInv, PTL DEF Spec

(* A grant of free access shown as delivered is live on every node, at the *)
(* revision shown (_complete, save_grant).                                 *)
THEOREM DeliveryStands == Spec => []DeliveredIsLive
<1>1. Inv => DeliveredIsLive
  <2>. SUFFICES ASSUME Inv, grant.status = "succeeded", grant.billing = "free", NEW t \in Targets
                PROVE  node[t].live /\ node[t].rev = grant.rev
    BY DEF DeliveredIsLive
  <2>1. grant.rev > 0 /\ Exists(<<"grant", grant.rev>>) /\ node[t].rev >= grant.rev
    BY DEF Inv, Delivered
  <2>2. node[t].rev = grant.rev
    <3>1. node[t].rev <= grant.rev
      BY DEF Inv, Nodes
    <3>2. node[t].rev \in Nat /\ grant.rev \in Nat
      BY Bounds
    <3>. QED
      BY <2>1, <3>1, <3>2
  <2>. QED
    BY <2>1, <2>2 DEF Inv, Nodes
<1>. QED
  BY <1>1, InitInv, NextInv, PTL DEF Spec

-----------------------------------------------------------------------------
(* The nodes' contracts *)

(* A call a node accepts is one of its contract: a grant gives, or is      *)
(* answered again, a revocation withdraws what is not newer, and a state   *)
(* of the account decides.                                                 *)
LEMMA NodeStep ==
  ASSUME TypeInv, NEW o \in OpIds, NEW t \in Targets, NEW a \in 0..MaxStates,
         Accepts(node[t], o, a), node'[t] = After(node[t], o, a)
  PROVE  Node(t)!Next \/ UNCHANGED Node(t)!cvars
<1>. DEFINE n == node[t]
            m == node'[t]
            s == "grant"
<1>1. /\ n \in [rev: 0..MaxRevision, live: BOOLEAN, account: 0..MaxStates, blocked: BOOLEAN]
      /\ n.rev \in Nat /\ n.account \in Nat /\ MaxRevision \in Nat /\ MaxStates \in Nat
      /\ ops[o].revoked \in 0..MaxRevision /\ ops[o].blocks \in BOOLEAN
  BY OperationsAssumption DEF TypeInv, TypeOK, Row
<1>2. CASE Kind(o) = "grant"
  <2>1. m = [n EXCEPT !.rev = Revision(o), !.live = TRUE, !.account = a]
    BY <1>2 DEF After
  <2>2. m.rev = Revision(o) /\ m.live /\ m.account = a /\ m.blocked = n.blocked
    BY <1>1, <2>1
  <2>3. Revision(o) \in 0..MaxRevision /\ Revision(o) > 0
    BY <1>1, <1>2, OpIdParts
  <2>4. ~n.blocked /\ a >= n.account /\ (Revision(o) > n.rev \/ (Revision(o) = n.rev /\ n.live))
    BY <1>2 DEF Accepts
  <2>5. Node(t)!Told
    BY <2>2, <2>4 DEF Node!Told
  <2>6. HeldAt(m) = [state |-> "given", rev |-> Revision(o)]
    BY <2>2, <2>3 DEF HeldAt
  <2>7. CASE Revision(o) > n.rev
    <3>1. Node(t)!Give(s, Revision(o))
      BY <1>1, <2>3, <2>5, <2>6, <2>7 DEF Node!Give, Node!Given, HeldAt
    <3>. QED
      BY <2>3, <3>1 DEF Node!Next
  <2>8. CASE Revision(o) = n.rev /\ n.live
    <3>1. HeldAt(n) = [state |-> "given", rev |-> Revision(o)]
      BY <2>3, <2>8 DEF HeldAt
    <3>2. Node(t)!GiveAgain(s)
      BY <2>5, <2>6, <3>1 DEF Node!GiveAgain
    <3>. QED
      BY <3>2 DEF Node!Next
  <2>. QED
    BY <2>4, <2>7, <2>8
<1>3. CASE Kind(o) = "revoke"
  <2>1. CASE n.rev <= ops[o].revoked /\ ops[o].revoked > 0
    <3>1. m = [n EXCEPT !.rev = ops[o].revoked, !.live = FALSE]
      BY <1>3, <2>1 DEF After
    <3>2. m.rev = ops[o].revoked /\ ~m.live /\ m.account = n.account /\ m.blocked = n.blocked
      BY <1>1, <3>1
    <3>3. HeldAt(m) = [state |-> "withdrawn", rev |-> ops[o].revoked]
      BY <2>1, <3>2 DEF HeldAt
    <3>4. Node(t)!Withdraw({s})
      BY <1>1, <2>1, <3>2, <3>3 DEF Node!Withdraw, Node!Withdrawn, HeldAt
    <3>. QED
      BY <3>4 DEF Node!Next
  <2>2. CASE n.rev = 0 /\ ops[o].revoked = 0
    <3>1. m = [n EXCEPT !.rev = ops[o].revoked, !.live = FALSE]
      BY <1>1, <1>3, <2>2 DEF After
    <3>2. m.rev = n.rev /\ m.account = n.account /\ m.blocked = n.blocked
      BY <1>1, <2>2, <3>1
    <3>3. HeldAt(m) = HeldAt(n)
      BY <2>2, <3>2 DEF HeldAt
    <3>. QED
      BY <3>2, <3>3 DEF Node!cvars
  <2>3. CASE ~(n.rev <= ops[o].revoked)
    <3>1. m = n
      BY <1>3, <2>3 DEF After
    <3>. QED
      BY <3>1 DEF Node!cvars
  <2>. QED
    BY <1>1, <2>1, <2>2, <2>3
<1>4. CASE Kind(o) = "account"
  <2>1. m = [n EXCEPT !.account = Revision(o), !.blocked = ops[o].blocks]
    BY <1>4 DEF After
  <2>2. m.rev = n.rev /\ m.live = n.live /\ m.account = Revision(o) /\ m.blocked = ops[o].blocks
    BY <1>1, <2>1
  <2>3. Revision(o) \in 0..MaxStates
    BY <1>1, <1>4, OpIdParts
  <2>4. HeldAt(m) = HeldAt(n)
    BY <2>2 DEF HeldAt
  <2>5. Revision(o) > n.account \/ (Revision(o) = n.account /\ n.blocked = ops[o].blocks)
    BY <1>4 DEF Accepts
  <2>6. CASE Revision(o) > n.account
    <3>1. Node(t)!Decide(Revision(o), ops[o].blocks)
      BY <2>2, <2>4, <2>6 DEF Node!Decide
    <3>. QED
      BY <1>1, <2>3, <3>1 DEF Node!Next
  <2>7. CASE Revision(o) = n.account /\ n.blocked = ops[o].blocks
    BY <2>2, <2>4, <2>7 DEF Node!cvars
  <2>. QED
    BY <2>5, <2>6, <2>7
<1>. QED
  BY <1>2, <1>3, <1>4, OpIdParts

(* A call changes one node, if it accepts, and no other.                   *)
LEMMA ExecuteContract ==
  ASSUME TypeInv, NEW o \in OpIds, NEW u \in Targets, NEW a \in 0..MaxStates, Execute(o, u, a), NEW t \in Targets
  PROVE  Node(t)!Next \/ UNCHANGED Node(t)!cvars
<1>1. node'[t] = node[t] \/ (t = u /\ Accepts(node[t], o, a) /\ node'[t] = After(node[t], o, a))
  BY DEF Execute, TypeInv, TypeOK
<1>2. CASE node'[t] = node[t]
  BY <1>2 DEF Node!cvars
<1>3. CASE Accepts(node[t], o, a) /\ node'[t] = After(node[t], o, a)
  BY <1>3, NodeStep
<1>. QED
  BY <1>1, <1>2, <1>3

LEMMA NodesStep ==
  ASSUME TypeInv, [Next]_vars, NEW t \in Targets
  PROVE  Node(t)!Next \/ UNCHANGED Node(t)!cvars
<1>1. CASE UNCHANGED node
  BY <1>1 DEF Node!cvars
<1>2. ASSUME NEW p \in Procs, Call(p) PROVE Node(t)!Next \/ UNCHANGED Node(t)!cvars
  <2>1. /\ ctx[p].op \in OpIds /\ ctx[p].target \in Targets /\ ctx[p].seen \in 0..MaxStates
        /\ Execute(ctx[p].op, ctx[p].target, ctx[p].seen)
    BY <1>2, OpOf DEF TypeInv, Call, At, Busy, Task
  <2>. QED
    BY <2>1, ExecuteContract
<1>3. CASE LateCall
  <2>1. PICK l \in late : Execute(l.op, l.target, l.seen)
    BY <1>3 DEF LateCall
  <2>2. l.op \in OpIds /\ l.target \in Targets /\ l.seen \in 0..MaxStates
    BY DEF TypeInv, TypeOK, Calls
  <2>. QED
    BY <2>1, <2>2, ExecuteContract
<1>4. CASE UNCHANGED vars
  BY <1>1, <1>4 DEF vars
<1>5. ASSUME NEW p \in Handlers, Request(p) PROVE UNCHANGED node
  BY <1>5 DEF Request, RequestGrant, RequestOffer, RequestRevoke, RequestState
<1>6. ASSUME NEW p \in Jobs, JobStarts(p) \/ (\E o \in OpIds : JobTakes(p, o)) \/ JobEnds(p) PROVE UNCHANGED node
  BY <1>6 DEF JobStarts, JobTakes, JobEnds
<1>7. ASSUME NEW p \in Procs, Step(p) \/ CallFails(p) \/ Crash(p), ~Call(p) PROVE UNCHANGED node
  BY <1>7 DEF Step, Claim, Fence, Back, Finish, Complete, Release, MarkRevoked, CallFails, Crash
<1>8. ASSUME NEW o \in OpIds, Expire(o) PROVE UNCHANGED node
  BY <1>8 DEF Expire
<1>. QED
  BY <1>1, <1>2, <1>3, <1>4, <1>5, <1>6, <1>7, <1>8 DEF Next

(* Whatever operations are asked for, retried, lost or late, each node     *)
(* only does what its contract with the master says (federation.py,        *)
(* entitlements.py).                                                       *)
THEOREM NodesKeepTheContract == Spec => NodesKeepContract
<1>. DEFINE Begins == \A t \in Targets : Node(t)!Init
            Moves == \A t \in Targets : node'[t] = node[t] \/ Node(t)!Next \/ UNCHANGED Node(t)!cvars
<1>1. Init => Begins
  <2>. SUFFICES ASSUME Init, NEW t \in Targets PROVE Node(t)!Init
    OBVIOUS
  <2>1. /\ node[t].rev = 0 /\ node[t].account = 0 /\ node[t].blocked = FALSE
    BY DEF Init
  <2>2. HeldAt(node[t]) = [state |-> "none", rev |-> 0]
    BY <2>1 DEF HeldAt
  <2>. QED
    BY <2>1, <2>2 DEF Node!Init
<1>2. TypeInv /\ [Next]_vars => [Moves]_node
  <2>1. ASSUME TypeInv, [Next]_vars, NEW t \in Targets PROVE Node(t)!Next \/ UNCHANGED Node(t)!cvars
    BY <2>1, NodesStep
  <2>. QED
    BY <2>1
<1>3. NodesKeepContract <=> Begins /\ [][Moves]_node
  BY DEF NodesKeepContract
<1>. HIDE DEF Begins, Moves
<1>. QED
  BY <1>1, <1>2, <1>3, InitType, NextType, PTL DEF Spec

=============================================================================
