------------------------- MODULE NodeProofs -------------------------
(***************************************************************************)
(* The safety of the two modules of a node, for any numbers of users,      *)
(* e-mails, tags, changes, units of traffic and faults.                    *)
(*                                                                         *)
(* NodeRuntime: what Xray runs and what has been counted are two           *)
(* invariants.  Brought says what has been reached at each step of the     *)
(* worker, InTime how baselines and samples stand to the counters of the   *)
(* epoch they were read in.  NodeConfig (the second part): its invariant   *)
(* is inductive with the types, and a transfer loses no route.             *)
(***************************************************************************)
EXTENDS NodeRuntime, TLAPS

-----------------------------------------------------------------------------
(* Types.                                                                   *)

Row == [state: {"gone", "off", "on"}, name: Names, used: Nat, gen: Nat]
Base == [epoch: Nat, name: Names, value: Nat, gen: Nat]
Values == [Clients -> [Names -> Nat]]
Worker == [pc: {"idle", "down", "publish", "act", "settle", "sampled", "restart", "record"},
           how: {"none", "restart", "users"}, who: Clients, was: SUBSET Users,
           next: {"idle", "restart", "cycle", "zero", "enable", "delete"},
           sample: [epoch: Nat, values: Values]]
Xray == [up: BOOLEAN, epoch: Nat \ {0}, users: SUBSET Users, other: Nat]

(* Baselines and samples never run ahead of the counters they were read    *)
(* from, nor baselines ahead of a sample that is to be settled.            *)
BaseInTime ==
  \A c \in Clients : /\ base[c].epoch <= xray.epoch
                     /\ base[c].epoch = xray.epoch => base[c].value <= counter[c][base[c].name]
SampleInTime ==
  worker.pc = "sampled" =>
    /\ worker.sample.epoch \in 1..xray.epoch
    /\ worker.sample.epoch = xray.epoch =>
         \A c \in Clients, n \in Names : worker.sample.values[c][n] <= counter[c][n]
BaseBeforeSample ==
  worker.pc = "sampled" =>
    \A c \in Clients : /\ base[c].epoch <= worker.sample.epoch
                       /\ base[c].epoch = worker.sample.epoch =>
                            base[c].value <= worker.sample.values[c][base[c].name]
(* Whoever starts a cycle of a user or deletes it holds the lock: it is    *)
(* there until then.                                                       *)
Held == worker.pc = "sampled" /\ worker.next \notin {"idle", "restart"} => row[worker.who].state # "gone"
InTime == BaseInTime /\ SampleInTime /\ BaseBeforeSample /\ Held

LEMMA Constants == AnyClient \in Clients /\ AnyName \in Names
<1>1. \E c \in Clients : TRUE BY NodeRuntimeAssumption
<1>2. \E n \in Names : TRUE BY NodeRuntimeAssumption
<1> QED BY <1>1, <1>2 DEF AnyClient, AnyName

LEMMA ZeroType == Zero \in Values
  BY DEF Zero, Values

LEMMA TypeIs ==
  TypeOK <=> /\ row \in [Clients -> Row] /\ other \in Nat /\ desired \in Nat /\ applied \in 0..desired
             /\ base \in [Clients -> Base] /\ file \in [users: SUBSET Users, other: Nat]
             /\ xray \in Xray /\ counter \in Values /\ worker \in Worker
             /\ carried \in [Clients -> Nat] /\ exact \subseteq Clients
             /\ edits \in 0..MaxEdits /\ faults \in 0..MaxFaults
  BY DEF TypeOK, Row, Base, Values, Worker, Xray

LEMMA IdleType == Idle \in Worker
  BY Constants, ZeroType DEF Idle, NoSample, Worker

LEMMA UserType ==
  ASSUME row \in [Clients -> Row], NEW c \in Clients
  PROVE  User(c) \subseteq {c} \X Names /\ User(c) \subseteq Users
  BY DEF User, Users, Row

LEMMA WantedType ==
  ASSUME row \in [Clients -> Row], other \in Nat
  PROVE  Wanted \in [users: SUBSET Users, other: Nat]
<1>1. \A c \in Clients : User(c) \subseteq Users BY UserType
<1>2. UNION {User(c) : c \in Clients} \subseteq Users BY <1>1
<1> QED BY <1>2 DEF Wanted

(* A change of the rows leaves a worker about to publish.                  *)
LEMMA DirtyType ==
  ASSUME TypeOK, NEW c \in Clients, NEW how \in {"none", "restart", "users"}, Dirty(c, how)
  PROVE  /\ desired' = desired + 1 /\ desired' \in Nat /\ applied \in 0..desired'
         /\ worker' \in Worker /\ worker'.pc = "publish" /\ worker'.who = c /\ worker'.was = User(c)
         /\ worker'.how \in {how, "none"} /\ (worker'.how = "users" => desired = applied)
<1>1. User(c) \subseteq Users BY UserType, TypeIs
<1>2. Idle \in Worker BY IdleType
<1>3. worker' = [Idle EXCEPT !.pc = "publish", !.how = IF desired = applied THEN how ELSE "none",
                             !.who = c, !.was = User(c)]
  BY DEF Dirty
<1>4. worker' \in Worker /\ worker'.pc = "publish" /\ worker'.who = c /\ worker'.was = User(c)
      /\ worker'.how = IF desired = applied THEN how ELSE "none"
  BY <1>1, <1>2, <1>3 DEF Worker
<1>5. desired' = desired + 1 BY DEF Dirty
<1>6. desired \in Nat /\ applied \in 0..desired BY TypeIs
<1> QED BY <1>4, <1>5, <1>6

LEMMA GotoType ==
  ASSUME worker \in Worker, NEW pc \in {"idle", "down", "publish", "act", "settle", "sampled", "restart", "record"},
         Goto(pc)
  PROVE  worker' \in Worker /\ worker'.pc = pc /\ worker'.sample = worker.sample /\ worker'.next = worker.next
         /\ worker'.how = worker.how /\ worker'.who = worker.who /\ worker'.was = worker.was
  BY DEF Goto, Worker

LEMMA StartsType ==
  ASSUME xray \in Xray, file \in [users: SUBSET Users, other: Nat], Starts
  PROVE  xray' \in Xray /\ counter' \in Values /\ xray'.epoch = xray.epoch + 1 /\ xray'.up
         /\ xray'.users = file.users /\ xray'.other = file.other
  BY ZeroType DEF Starts, Xray

LEMMA StopsType ==
  ASSUME xray \in Xray, Stops
  PROVE  xray' \in Xray /\ counter' \in Values /\ xray'.epoch = xray.epoch + 1 /\ ~xray'.up
<1>1. xray' = [xray EXCEPT !.up = FALSE, !.epoch = @ + 1] /\ counter' = Zero
  BY DEF Stops
<1>2. xray.epoch + 1 \in Nat \ {0} BY DEF Xray
<1>3. xray' \in Xray BY <1>1, <1>2 DEF Xray
<1> QED BY <1>1, <1>3, ZeroType DEF Xray

LEMMA GoesType ==
  ASSUME worker \in Worker, NEW next
  PROVE  /\ Goes(next) \in Worker
         /\ Goes(next).pc = IF next = "restart" THEN "restart" ELSE "idle"
<1>1. NoSample \in [epoch: Nat, values: Values] BY ZeroType DEF NoSample
<1>2. CASE next = "restart"
  BY <1>1, <1>2 DEF Goes, Worker
<1>3. CASE next # "restart"
  BY <1>3, IdleType DEF Goes, Idle
<1> QED BY <1>2, <1>3

LEMMA ReadType ==
  ASSUME TypeOK, NEW c \in Clients, NEW next \in {"idle", "restart", "cycle", "zero", "enable", "delete"},
         Read(next, c)
  PROVE  /\ worker' \in Worker /\ worker'.pc = "sampled" /\ worker'.next = next /\ worker'.who = c
         /\ worker'.sample.epoch = xray.epoch /\ worker'.sample.values = counter
<1>1. [epoch |-> xray.epoch, values |-> counter] \in [epoch: Nat, values: Values]
  BY TypeIs DEF Xray
<1> QED BY <1>1, TypeIs DEF Read, Worker

(* What is read of a baseline is not more than the counter.                *)
LEMMA LastType ==
  ASSUME TypeOK, BaseInTime, NEW c \in Clients, NEW n \in Names
  PROVE  Last(c, n) \in Nat /\ counter[c][n] \in Nat /\ Last(c, n) <= counter[c][n]
<1>1. base[c] \in Base /\ counter[c][n] \in Nat BY TypeIs DEF Values
<1> QED BY <1>1 DEF Last, Base, BaseInTime
LEMMA ValueType ==
  ASSUME TypeOK, NEW c \in Clients
  PROVE  /\ Value(c) \in Nat /\ Previous(c) \in Nat /\ Delta(c) \in Nat
         /\ row[c].used \in Nat /\ row[c].gen \in Nat /\ row[c].name \in Names
<1>1. row[c] \in Row /\ worker.sample \in [epoch: Nat, values: Values] /\ base[c] \in Base
  BY TypeIs DEF Worker
<1>2. row[c].name \in Names /\ row[c].used \in Nat /\ row[c].gen \in Nat /\ base[c].value \in Nat
  BY <1>1 DEF Row, Base
<1>3. worker.sample.values \in Values BY <1>1
<1>4. Value(c) \in Nat BY <1>2, <1>3 DEF Value, Values
<1>5. Previous(c) \in Nat BY <1>2 DEF Previous
<1> QED BY <1>2, <1>4, <1>5 DEF Delta

(* A change of the rows.                                                    *)
LEMMA ChangeTypes ==
  ASSUME TypeOK, InTime, Change \/ Restore
  PROVE  TypeOK'
<1>0. /\ \A c \in Clients, n \in Names : Last(c, n) \in Nat /\ counter[c][n] \in Nat /\ Last(c, n) <= counter[c][n]
      /\ \A c \in Clients : row[c] \in Row /\ row[c].name \in Names
  BY LastType, TypeIs DEF InTime, Row
<1>1. ASSUME NEW c \in Clients, NEW how \in {"none", "restart", "users"}, Dirty(c, how), Edit, UNCHANGED Outside,
             row' \in [Clients -> Row], other' \in Nat, base' \in [Clients -> Base],
             carried' \in [Clients -> Nat], exact' \subseteq Clients
      PROVE  TypeOK'
  <2>1. desired' \in Nat /\ applied' \in 0..desired' /\ worker' \in Worker BY <1>1, DirtyType DEF Outside
  <2>2. edits' \in 0..MaxEdits BY <1>1, NodeRuntimeAssumption, TypeIs DEF Edit
  <2> QED BY <1>1, <2>1, <2>2, TypeIs DEF Outside, TypeOK, Row, Base, Values, Worker, Xray
<1>2. ASSUME NEW c \in Clients, NEW how \in {"none", "restart", "users"}, SwitchUser(c, how)
      PROVE  TypeOK'
  <2>1. [row[c] EXCEPT !.state = IF @ = "on" THEN "off" ELSE "on"] \in Row BY <1>0 DEF Row
  <2>2. row' \in [Clients -> Row] BY <1>2, <2>1, TypeIs DEF SwitchUser
  <2> QED BY <1>1, <1>2, <2>2, TypeIs DEF SwitchUser, ghosts
<1>3. ASSUME NEW c \in Clients, NEW how \in {"none", "restart", "users"}, DeleteUser(c, how)
      PROVE  TypeOK'
  <2>1. [row[c] EXCEPT !.state = "gone"] \in Row BY <1>0 DEF Row
  <2>2. row' \in [Clients -> Row] BY <1>3, <2>1, TypeIs DEF DeleteUser
  <2> QED BY <1>1, <1>3, <2>2, TypeIs DEF DeleteUser, ghosts
<1>4. ASSUME NEW c \in Clients, NEW n \in Names, NEW how \in {"none", "restart", "users"}, RenameUser(c, n, how)
      PROVE  TypeOK'
  <2>1. [row[c] EXCEPT !.name = n] \in Row BY <1>0 DEF Row
  <2>2. row' \in [Clients -> Row] BY <1>4, <2>1, TypeIs DEF RenameUser
  <2> QED BY <1>1, <1>4, <2>2, TypeIs DEF RenameUser
<1>5. ASSUME NEW c \in Clients, NEW how \in {"none", "restart", "users"}, AddUser(c, how)
      PROVE  TypeOK'
  <2>1. [state |-> "on", name |-> row[c].name, used |-> 0, gen |-> 0] \in Row BY <1>0 DEF Row
  <2>2. row' \in [Clients -> Row] BY <1>5, <2>1, TypeIs DEF AddUser
  <2>3. counter[c][row[c].name] - Last(c, row[c].name) \in Nat BY <1>0
  <2>4. carried' \in [Clients -> Nat] BY <1>5, <2>3, TypeIs DEF AddUser
  <2> QED BY <1>1, <1>5, <2>2, <2>4, TypeIs DEF AddUser
<1>6. ASSUME NEW how \in {"none", "restart", "users"}, Reconfigure(how)
      PROVE  TypeOK'
  BY <1>1, <1>6, Constants, TypeIs DEF Reconfigure, ghosts
<1>7. CASE Restore
  <2>1. NoBase \in Base BY Constants DEF NoBase, Base
  <2>2. base' \in [Clients -> Base] BY <1>7, <2>1 DEF Restore
  <2>3. exact' \subseteq Clients BY <1>7, TypeIs DEF Restore
  <2> QED BY <1>1, <1>7, <2>2, <2>3, Constants, TypeIs DEF Restore
<1> QED BY <1>2, <1>3, <1>4, <1>5, <1>6, <1>7 DEF Change

(* A settlement.                                                            *)
LEMMA SettleTypes ==
  ASSUME TypeOK, InTime, Settle
  PROVE  TypeOK'
<1> DEFINE state == CASE worker.next = "delete" -> "gone"
                      [] worker.next = "enable" /\ row[worker.who].state = "off" -> "on"
                      [] OTHER -> row[worker.who].state
<1>0. worker.who \in Clients /\ state \in {"gone", "off", "on"}
  BY TypeIs DEF Worker, Row
<1>1. \A c \in Clients : /\ Value(c) \in Nat /\ Delta(c) \in Nat
                         /\ row[c].used \in Nat /\ row[c].gen \in Nat /\ row[c].name \in Names
  BY ValueType
<1>2. \A c \in Clients : Gen(c) \in Nat /\ Total(c) \in Nat
  BY <1>1 DEF Gen, Total
<1>3. row' \in [Clients -> Row]
  <2>1. \A c \in Clients : row[c] \in Row BY TypeIs
  <2>2. \A c \in Clients : [row[c] EXCEPT !.used = Total(c), !.gen = Gen(c),
                                          !.state = IF c = worker.who THEN state ELSE @] \in Row
    BY <1>0, <1>2, <2>1 DEF Row
  <2>3. row' = [c \in Clients |-> IF c \in SettledNow
                  THEN [row[c] EXCEPT !.used = Total(c), !.gen = Gen(c),
                                      !.state = IF c = worker.who THEN state ELSE @]
                  ELSE row[c]]
    BY DEF Settle
  <2> HIDE DEF state
  <2> QED BY <2>1, <2>2, <2>3
<1>4. base' \in [Clients -> Base]
  <2>1. \A c \in Clients : base[c] \in Base BY TypeIs
  <2>2. worker.sample.epoch \in Nat BY TypeIs DEF Worker
  <2> QED BY <1>1, <1>2, <2>1, <2>2 DEF Settle, Base
<1>5. carried' \in [Clients -> Nat]
  <2>1. \A c \in Clients : AfterSample(c) \in Nat
    <3> SUFFICES ASSUME NEW c \in Clients PROVE AfterSample(c) \in Nat
      OBVIOUS
    <3>1. counter[c][row[c].name] \in Nat BY <1>1, TypeIs DEF Values
    <3>2. worker.sample.epoch = xray.epoch => Value(c) <= counter[c][row[c].name]
      BY <1>1 DEF InTime, SampleInTime, Settle, Value
    <3> QED BY <1>1, <3>1, <3>2 DEF AfterSample
  <2> QED BY <2>1, TypeIs DEF Settle
<1>6. exact' \subseteq Clients BY TypeIs DEF Settle
<1>7. desired' \in Nat /\ applied' \in 0..desired' /\ worker' \in Worker
  <2>1. CASE state # row[worker.who].state
    <3>1. Dirty(worker.who, IF state = "on" THEN "users" ELSE "none") BY <2>1 DEF Settle
    <3> QED BY <1>0, <3>1, DirtyType DEF Settle
  <2>2. CASE state = row[worker.who].state
    <3>1. worker' = Goes(worker.next) /\ UNCHANGED desired BY <2>2 DEF Settle
    <3> QED BY <3>1, GoesType, TypeIs DEF Settle
  <2> QED BY <2>1, <2>2
<1> HIDE DEF state
<1>8. UNCHANGED <<other, file, xray, counter, edits, faults>> BY DEF Settle
<1> QED BY <1>3, <1>4, <1>5, <1>6, <1>7, <1>8, TypeIs DEF TypeOK, Row, Base, Values, Worker, Xray

(* What the worker does otherwise.                                          *)
LEMMA WorkTypes ==
  ASSUME TypeOK, Proceed \/ Jobs, ~Settle
  PROVE  TypeOK'
<1> DEFINE Work == worker' \in Worker /\ file' \in [users: SUBSET Users, other: Nat]
                   /\ xray' \in Xray /\ counter' \in Values /\ desired' \in Nat /\ applied' \in 0..desired'
                   /\ faults' \in 0..MaxFaults
<1>0. /\ \A c \in Clients : User(c) \subseteq Users /\ row[c] \in Row
      /\ worker \in Worker /\ worker.was \subseteq Users /\ worker.who \in Clients
      /\ xray \in Xray /\ xray.users \subseteq Users
  BY TypeIs, UserType DEF Worker, Xray
<1>1. ASSUME Work, UNCHANGED <<row, other, base, ghosts, edits>>
      PROVE  TypeOK'
  BY <1>1, TypeIs DEF ghosts, TypeOK, Row, Base, Values, Worker, Xray
<1>2. CASE Publish
  <2>1. Wanted \in [users: SUBSET Users, other: Nat] BY WantedType, TypeIs
  <2>2. worker' \in Worker BY <1>0, <1>2, GotoType DEF Publish
  <2> QED BY <1>1, <1>2, <2>1, <2>2, TypeIs DEF Publish, rows
<1>3. CASE RestartOnly
  BY <1>0, <1>1, <1>3, StartsType, GotoType, TypeIs DEF RestartOnly, rows
<1>4. CASE FullRestart
  BY <1>0, <1>1, <1>4, StartsType, GotoType, TypeIs DEF FullRestart, rows
<1>5. ASSUME NEW users \in SUBSET Users, xray' = [xray EXCEPT !.users = users]
      PROVE  xray' \in Xray
  BY <1>0, <1>5 DEF Xray
<1>6. Altered \subseteq Users /\ xray.users \ worker.was \subseteq Users
  BY <1>0 DEF Altered
<1>7. CASE AlterUsers
  <2>1. xray' \in Xray BY <1>5, <1>6, <1>7 DEF AlterUsers
  <2>2. worker' \in Worker BY <1>0, <1>7, GotoType DEF AlterUsers
  <2> QED BY <1>1, <1>7, <2>1, <2>2, TypeIs DEF AlterUsers, rows
<1>8. CASE AlterFails
  <2>1. xray' \in Xray /\ faults' \in 0..MaxFaults
    BY <1>0, <1>5, <1>6, <1>8, TypeIs, NodeRuntimeAssumption DEF AlterFails, Fault
  <2>2. worker' \in Worker BY <1>0, <1>8, GotoType DEF AlterFails
  <2> QED BY <1>1, <1>8, <2>1, <2>2, TypeIs DEF AlterFails, rows
<1>9. CASE Record
  BY <1>1, <1>9, IdleType, TypeIs DEF Record, rows
<1>10. CASE SettleBeforeRestart
  BY <1>0, <1>1, <1>10, ReadType, TypeIs DEF SettleBeforeRestart, Read, rows
<1>11. CASE SettleFails
  <2>1. faults' \in 0..MaxFaults BY <1>11, TypeIs, NodeRuntimeAssumption DEF SettleFails, Fault
  <2>2. worker' \in Worker BY <1>0, <1>11, GoesType DEF SettleFails
  <2> QED BY <1>1, <1>11, <2>1, <2>2, TypeIs DEF SettleFails, rows
<1>12. ASSUME worker' = [Idle EXCEPT !.pc = "publish"]
       PROVE  worker' \in Worker
  BY <1>12, IdleType DEF Worker
<1>13. CASE Boot
  BY <1>1, <1>12, <1>13, TypeIs DEF Boot, ghosts
<1>14. CASE Retry
  BY <1>1, <1>12, <1>14, TypeIs DEF Retry, rows
<1>15. CASE SyncTraffic
  BY <1>1, <1>15, ReadType, Constants, TypeIs DEF SyncTraffic, Read, rows
<1> QED BY <1>2, <1>3, <1>4, <1>7, <1>8, <1>9, <1>10, <1>11, <1>13, <1>14, <1>15 DEF Proceed, Jobs

(* Requests that leave the rows alone, traffic and faults.                  *)
LEMMA OtherTypes ==
  ASSUME TypeOK, Requests \/ Traffic \/ Faults, ~Change, ~Restore
  PROVE  TypeOK'
<1>1. ASSUME worker' \in Worker, xray' \in Xray, counter' \in Values, carried' \in [Clients -> Nat],
             edits' \in 0..MaxEdits, faults' \in 0..MaxFaults, UNCHANGED <<rows, applied, file, exact>>
      PROVE  TypeOK'
  BY <1>1, TypeIs DEF rows, TypeOK, Row, Base, Values, Worker, Xray
<1>2. Edit => edits' \in 0..MaxEdits BY TypeIs, NodeRuntimeAssumption DEF Edit
<1>3. Fault => faults' \in 0..MaxFaults BY TypeIs, NodeRuntimeAssumption DEF Fault
<1>4. CASE UpdateGeo
  BY <1>1, <1>2, <1>4, StartsType, TypeIs DEF UpdateGeo, ghosts
<1>5. ASSUME NEW c \in Clients, NEW next \in {"cycle", "zero", "enable", "delete"}, StartCycle(c, next)
      PROVE  TypeOK'
  BY <1>1, <1>2, <1>5, ReadType, TypeIs DEF StartCycle, Read, ghosts
<1>6. ASSUME NEW c \in Clients, NEW n \in Names, Carry(c, n)
      PROVE  TypeOK'
  <2>1. counter[c] \in [Names -> Nat] /\ counter[c][n] \in Nat /\ carried[c] \in Nat BY TypeIs DEF Values
  <2>2. counter' = [counter EXCEPT ![c][n] = counter[c][n] + 1] BY <1>6 DEF Carry
  <2>3. counter' \in Values BY <2>1, <2>2, TypeIs DEF Values
  <2>4. carried' \in [Clients -> Nat] BY <1>6, <2>1, TypeIs DEF Carry
  <2> QED BY <1>1, <1>6, <2>3, <2>4, TypeIs DEF Carry
<1>7. CASE ApplyFails
  BY <1>1, <1>3, <1>7, IdleType, TypeIs DEF ApplyFails, ghosts
<1>8. CASE XrayStops
  BY <1>1, <1>3, <1>8, StopsType, TypeIs DEF XrayStops, ghosts
<1>9. CASE XrayStarts
  BY <1>1, <1>9, StartsType, TypeIs DEF XrayStarts, ghosts
<1>10. CASE WorkerDies
  <2>1. [Idle EXCEPT !.pc = "down"] \in Worker BY IdleType DEF Worker
  <2> QED BY <1>1, <1>3, <1>10, <2>1, TypeIs DEF WorkerDies, ghosts
<1>11. CASE BootPreserving
  BY <1>1, <1>11, IdleType, TypeIs DEF BootPreserving, ghosts
<1> QED BY <1>4, <1>5, <1>6, <1>7, <1>8, <1>9, <1>10, <1>11 DEF Requests, Traffic, Faults

LEMMA TypeStep ==
  ASSUME TypeOK, InTime, [Next]_vars
  PROVE  TypeOK'
<1>1. CASE UNCHANGED vars
  BY <1>1 DEF vars, rows, ghosts, TypeOK, Users
<1>2. CASE Next
  BY <1>2, ChangeTypes, SettleTypes, WorkTypes, OtherTypes DEF Next, Requests, Proceed
<1> QED BY <1>1, <1>2

-----------------------------------------------------------------------------
(* Counters, baselines and samples.                                         *)

(* Another step than a settlement, a restore or a change of the rows leaves *)
(* the baselines; Xray counts on, or in a new epoch from zero.              *)
CountsOn == xray'.epoch = xray.epoch /\ \A c \in Clients, n \in Names : counter'[c][n] >= counter[c][n]

LEMMA Counting ==
  ASSUME TypeOK, TypeOK', InTime, UNCHANGED base,
         CountsOn \/ xray'.epoch = xray.epoch + 1,
         \/ worker'.pc # "sampled"
         \/ UNCHANGED <<worker, row>>
         \/ /\ worker'.sample.epoch = xray.epoch /\ worker'.sample.values = counter
            /\ UNCHANGED <<xray, counter, row>>
            /\ worker'.next \in {"idle", "restart"} \/ row[worker'.who].state # "gone"
  PROVE  InTime'
<1>0. /\ \A c \in Clients : base[c] \in Base /\ base[c].name \in Names /\ base[c].epoch \in Nat
      /\ \A c \in Clients, n \in Names : counter[c][n] \in Nat /\ counter'[c][n] \in Nat
      /\ \A c \in Clients : base[c].value \in Nat
      /\ xray.epoch \in Nat \ {0} /\ xray'.epoch \in Nat \ {0}
  BY DEF TypeOK, Base
<1>1. BaseInTime'
  <2>1. BaseInTime BY DEF InTime
  <2>2. CASE CountsOn
    BY <1>0, <2>1, <2>2 DEF BaseInTime, CountsOn
  <2>3. CASE xray'.epoch = xray.epoch + 1
    BY <1>0, <2>1, <2>3 DEF BaseInTime
  <2> QED BY <2>2, <2>3
<1>2. CASE worker'.pc # "sampled"
  BY <1>1, <1>2 DEF InTime, SampleInTime, BaseBeforeSample, Held
<1>3. CASE UNCHANGED <<worker, row>>
  <2>1. \A c \in Clients, n \in Names : worker.sample.values[c][n] \in Nat
    BY TypeIs DEF Worker, Values
  <2>2. worker.sample.epoch \in Nat BY TypeIs DEF Worker
  <2>3. SampleInTime' BY <1>0, <1>3, <2>1, <2>2 DEF InTime, SampleInTime, CountsOn
  <2>4. BaseBeforeSample' /\ Held' BY <1>3 DEF InTime, BaseBeforeSample, Held
  <2> QED BY <1>1, <2>3, <2>4 DEF InTime
<1>4. CASE /\ worker'.sample.epoch = xray.epoch /\ worker'.sample.values = counter
           /\ UNCHANGED <<xray, counter, row>>
           /\ worker'.next \in {"idle", "restart"} \/ row[worker'.who].state # "gone"
  <2>1. SampleInTime' BY <1>0, <1>4 DEF SampleInTime
  <2>2. BaseBeforeSample' BY <1>0, <1>4 DEF InTime, BaseBeforeSample, BaseInTime
  <2>3. Held' BY <1>4 DEF Held
  <2> QED BY <1>1, <2>1, <2>2, <2>3 DEF InTime
<1> QED BY <1>2, <1>3, <1>4

LEMMA InTimeStep ==
  ASSUME TypeOK, InTime, [Next]_vars
  PROVE  InTime'
<1>0. TypeOK' BY TypeStep
<1>1. CASE UNCHANGED vars
  BY <1>1 DEF vars, rows, InTime, BaseInTime, SampleInTime, BaseBeforeSample, Held
<1>2. UNCHANGED counter => \A c \in Clients, n \in Names : counter'[c][n] >= counter[c][n]
  BY TypeIs DEF Values
<1>3. CASE Settle
  <2>1. worker'.pc # "sampled"
    <3>1. ASSUME NEW how \in {"none", "users"}, Dirty(worker.who, how) PROVE worker'.pc # "sampled"
      BY <3>1, DirtyType, TypeIs DEF Worker
    <3>2. ASSUME worker' = Goes(worker.next) PROVE worker'.pc # "sampled"
      BY <3>2, GoesType, TypeIs
    <3> QED BY <1>3, <3>1, <3>2 DEF Settle
  <2>2. UNCHANGED <<xray, counter>> BY <1>3 DEF Settle
  <2>3. BaseInTime'
    <3> SUFFICES ASSUME NEW c \in Clients
                 PROVE  /\ base'[c].epoch <= xray.epoch
                        /\ base'[c].epoch = xray.epoch => base'[c].value <= counter[c][base'[c].name]
      BY <2>2 DEF BaseInTime
    <3>1. CASE c \in SettledNow
      <4>1. base'[c] = [epoch |-> worker.sample.epoch, name |-> row[c].name,
                        value |-> Value(c), gen |-> Gen(c)]
        BY <1>3, <3>1 DEF Settle
      <4>2. worker.pc = "sampled" /\ row[c].name \in Names BY <1>3, ValueType DEF Settle
      <4>3. worker.sample.epoch <= xray.epoch BY <4>2, TypeIs DEF InTime, SampleInTime, Xray
      <4> QED BY <4>1, <4>2, <4>3 DEF InTime, SampleInTime, Value
    <3>2. CASE c \notin SettledNow
      BY <1>3, <3>2 DEF Settle, InTime, BaseInTime
    <3> QED BY <3>1, <3>2
  <2> QED BY <2>1, <2>3 DEF InTime, SampleInTime, BaseBeforeSample, Held
<1>4. CASE Proceed \/ Jobs
  <2>1. ASSUME worker'.pc # "sampled", UNCHANGED base, UNCHANGED counter, xray'.epoch = xray.epoch
        PROVE  InTime'
    BY <1>0, <1>2, <2>1, Counting DEF CountsOn
  <2>2. CASE Publish \/ Record \/ Boot \/ Retry
    BY <2>1, <2>2, GotoType, TypeIs DEF Publish, Record, Boot, Retry, rows, Idle
  <2>3. CASE RestartOnly \/ FullRestart
    <3>1. worker'.pc = "record" BY <2>3, GotoType, TypeIs DEF RestartOnly, FullRestart
    <3>2. Starts /\ UNCHANGED base BY <2>3 DEF RestartOnly, FullRestart, rows
    <3>3. xray'.epoch = xray.epoch + 1 BY <3>2, StartsType, TypeIs
    <3> QED BY <1>0, <3>1, <3>2, <3>3, Counting
  <2>4. CASE AlterUsers \/ AlterFails
    <3>1. worker'.pc \in {"record", "settle"} BY <2>4, GotoType, TypeIs DEF AlterUsers, AlterFails
    <3>2. xray'.epoch = xray.epoch BY <2>4, TypeIs DEF AlterUsers, AlterFails, Xray
    <3> QED BY <2>1, <2>4, <3>1, <3>2 DEF AlterUsers, AlterFails, rows
  <2>5. CASE SettleBeforeRestart
    <3>1. worker.who \in Clients BY TypeIs DEF Worker
    <3> QED BY <1>0, <1>2, <2>5, <3>1, ReadType, Counting DEF SettleBeforeRestart, Read, rows, CountsOn
  <2>6. CASE SyncTraffic
    BY <1>0, <1>2, <2>6, Constants, ReadType, Counting DEF SyncTraffic, Read, rows, CountsOn
  <2>7. CASE SettleFails
    <3>1. worker'.pc # "sampled" BY <2>7, GoesType, TypeIs DEF SettleFails
    <3> QED BY <2>1, <2>7, <3>1 DEF SettleFails, rows
  <2> QED BY <1>3, <1>4, <2>2, <2>3, <2>4, <2>5, <2>6, <2>7 DEF Proceed, Jobs
<1>5. CASE Change \/ Restore
  <2>1. ASSUME NEW c \in Clients, NEW how \in {"none", "restart", "users"}, Dirty(c, how), UNCHANGED <<base, Outside>>
        PROVE  InTime'
    BY <1>0, <1>2, <2>1, DirtyType, Counting DEF Outside, CountsOn
  <2>2. ASSUME Restore
        PROVE  InTime'
    <3>1. worker'.pc # "sampled" BY <2>2, Constants, DirtyType DEF Restore
    <3>2. BaseInTime' BY <2>2, TypeIs DEF Restore, BaseInTime, NoBase, Outside, Xray
    <3> QED BY <3>1, <3>2 DEF InTime, SampleInTime, BaseBeforeSample, Held
  <2> QED BY <1>5, <2>1, <2>2, Constants
      DEF Change, SwitchUser, DeleteUser, RenameUser, AddUser, Reconfigure
<1>6. CASE Traffic \/ Faults \/ (Requests /\ ~Change /\ ~Restore)
  <2>1. CASE UpdateGeo \/ XrayStarts
    <3>1. Starts /\ UNCHANGED <<base, row, worker>> BY <2>1 DEF UpdateGeo, XrayStarts, rows
    <3>2. xray'.epoch = xray.epoch + 1 BY <3>1, StartsType, TypeIs
    <3> QED BY <1>0, <3>1, <3>2, Counting
  <2>2. CASE XrayStops
    <3>1. Stops /\ UNCHANGED <<base, row, worker>> BY <2>2 DEF XrayStops, rows
    <3>2. xray'.epoch = xray.epoch + 1 BY <3>1, StopsType, TypeIs
    <3> QED BY <1>0, <3>1, <3>2, Counting
  <2>3. ASSUME NEW c \in Clients, NEW next \in {"cycle", "zero", "enable", "delete"}, StartCycle(c, next)
        PROVE  InTime'
    BY <1>0, <1>2, <2>3, ReadType, Counting DEF StartCycle, Read, rows, CountsOn
  <2>4. ASSUME NEW c \in Clients, NEW n \in Names, Carry(c, n)
        PROVE  InTime'
    <3>1. \A d \in Clients, m \in Names : counter'[d][m] >= counter[d][m]
      BY <2>4, TypeIs DEF Carry, Values
    <3>2. UNCHANGED <<base, row, worker>> /\ xray' = xray BY <2>4 DEF Carry, rows
    <3> QED BY <1>0, <3>1, <3>2, Counting DEF CountsOn
  <2>5. CASE ApplyFails \/ WorkerDies \/ BootPreserving
    <3>1. worker'.pc # "sampled" BY <2>5 DEF ApplyFails, WorkerDies, BootPreserving, Idle
    <3> QED BY <1>0, <1>2, <2>5, <3>1, Counting DEF ApplyFails, WorkerDies, BootPreserving, rows, CountsOn
  <2> QED BY <1>6, <2>1, <2>2, <2>3, <2>4, <2>5 DEF Traffic, Faults, Requests
<1> QED BY <1>1, <1>4, <1>5, <1>6 DEF Next, Requests

LEMMA InitTypes == Init => TypeOK /\ InTime
<1> SUFFICES ASSUME Init PROVE TypeOK /\ InTime
  OBVIOUS
<1>1. row \in [Clients -> Row] /\ base \in [Clients -> Base]
  BY Constants DEF Init, Row, Base, NoBase
<1>2. Wanted \in [users: SUBSET Users, other: Nat]
  BY <1>1, WantedType DEF Init
<1>3. xray \in Xray
  BY <1>2 DEF Init, Xray
<1>4. TypeOK
  BY <1>1, <1>2, <1>3, IdleType, ZeroType, TypeIs, NodeRuntimeAssumption DEF Init
<1>5. InTime
  BY DEF Init, InTime, BaseInTime, SampleInTime, BaseBeforeSample, Held, NoBase, Idle
<1> QED BY <1>4, <1>5

LEMMA Typing == Spec => [](TypeOK /\ InTime)
<1>1. TypeOK /\ InTime /\ [Next]_vars => (TypeOK /\ InTime)'
  BY TypeStep, InTimeStep
<1> QED BY <1>1, InitTypes, PTL DEF Spec

(* The rows, the revisions, the counters and what the holder of the lock   *)
(* remembers always have the types they are declared with; what is charged *)
(* is never negative.                                                       *)
THEOREM TypeCorrect == Spec => []TypeOK
<1> QED BY Typing, PTL

-----------------------------------------------------------------------------
(* What has been charged, and what is still due.                            *)

LEMMA DueType ==
  ASSUME TypeOK, InTime, NEW c \in Clients
  PROVE  /\ row[c].name \in Names /\ row[c].used \in Nat /\ carried[c] \in Nat
         /\ counter[c][row[c].name] \in Nat /\ Last(c, row[c].name) \in Nat
         /\ Last(c, row[c].name) <= counter[c][row[c].name]
         /\ Value(c) \in Nat /\ Previous(c) \in Nat /\ Delta(c) \in Nat /\ InFlight(c) \in Nat
         /\ worker.pc = "sampled" => Delta(c) = Value(c) - Previous(c) /\ Previous(c) <= Value(c)
<1>1. row[c] \in Row /\ base[c] \in Base /\ counter \in Values /\ carried[c] \in Nat
  BY TypeIs
<1>2. row[c].name \in Names BY <1>1 DEF Row
<1>3. /\ Value(c) \in Nat /\ Previous(c) \in Nat /\ Delta(c) \in Nat /\ row[c].used \in Nat
  BY ValueType
<1>4. InFlight(c) \in Nat BY <1>3 DEF InFlight
<1>5. worker.pc = "sampled" => Previous(c) <= Value(c)
  BY <1>2, <1>3 DEF InTime, BaseBeforeSample, Previous, Value, SameCounter
<1> QED
  BY <1>1, <1>2, <1>3, <1>4, <1>5, LastType DEF Values, InTime, Delta

(* A step that leaves what is charged, the baselines and what was carried:  *)
(* nothing more is due, unless Xray counted on.                             *)
LEMMA DueStep ==
  ASSUME TypeOK, InTime, NEW c \in Clients, UNCHANGED <<row, base>>,
         UNCHANGED <<xray.epoch, counter>> \/ (xray'.epoch = xray.epoch + 1 /\ counter' = Zero),
         worker'.pc # "sampled" \/ UNCHANGED worker \/ worker'.sample.epoch = xray'.epoch
  PROVE  Due(c)' <= Due(c)
<1> DEFINE n == row[c].name
<1>0. /\ n \in Names /\ base[c].epoch \in Nat /\ xray.epoch \in Nat \ {0}
      /\ base[c].epoch <= xray.epoch
  BY TypeIs DEF Base, Xray, Row, InTime, BaseInTime
<1>1. /\ counter[c][n] \in Nat /\ Last(c, n) \in Nat /\ Last(c, n) <= counter[c][n]
      /\ Value(c) \in Nat /\ Previous(c) \in Nat /\ Delta(c) \in Nat /\ InFlight(c) \in Nat
      /\ worker.pc = "sampled" => Delta(c) = Value(c) - Previous(c) /\ Previous(c) <= Value(c)
  BY DueType
<1>2. Due(c)' = counter'[c][n] - Last(c, n)' + InFlight(c)'
  BY DEF Due, Last
<1>3. CASE UNCHANGED <<xray.epoch, counter>>
  <2>1. Last(c, n)' = Last(c, n) BY <1>3 DEF Last
  <2>2. InFlight(c)' \in {0, InFlight(c)}
    BY <1>3 DEF InFlight, SettledNow, Delta, Value, Previous, SameCounter, Present
  <2> QED BY <1>1, <1>2, <1>3, <2>1, <2>2 DEF Due
<1>4. CASE xray'.epoch = xray.epoch + 1 /\ counter' = Zero
  <2>1. Last(c, n)' = 0 BY <1>0, <1>4 DEF Last
  <2>2. counter'[c][n] = 0 BY <1>0, <1>4 DEF Zero
  <2>3. CASE InFlight(c)' = 0
    BY <1>1, <1>2, <2>1, <2>2, <2>3 DEF Due
  <2>4. CASE InFlight(c)' # 0
    <3>1. worker' = worker /\ worker.pc = "sampled" /\ c \in SettledNow /\ InFlight(c)' = Delta(c)
      BY <2>4, <1>4 DEF InFlight, SettledNow, Delta, Value, Previous, SameCounter, Present
    <3>2. CASE worker.sample.epoch # xray.epoch
      <4>1. InFlight(c) = Delta(c) BY <3>1, <3>2 DEF InFlight
      <4> QED BY <1>1, <1>2, <2>1, <2>2, <3>1, <4>1 DEF Due
    <3>3. CASE worker.sample.epoch = xray.epoch
      <4>1. Value(c) <= counter[c][n] BY <1>0, <3>1, <3>3 DEF InTime, SampleInTime, Value
      <4>2. Previous(c) = Last(c, n) BY <3>3 DEF Previous, Last, SameCounter
      <4>3. InFlight(c) = 0 BY <3>3 DEF InFlight
      <4> QED BY <1>1, <1>2, <2>1, <2>2, <3>1, <4>1, <4>2, <4>3 DEF Due
    <3> QED BY <3>2, <3>3
  <2> QED BY <2>3, <2>4
<1> QED BY <1>3, <1>4

(* What is due when no sample is about to be settled.                      *)
LEMMA NotSampled ==
  ASSUME TypeOK, InTime, NEW c \in Clients, worker.pc # "sampled"
  PROVE  Due(c) = counter[c][row[c].name] - Last(c, row[c].name) /\ Due(c) \in Nat
<1>1. InFlight(c) = 0 BY DEF InFlight
<1>2. /\ counter[c][row[c].name] \in Nat /\ Last(c, row[c].name) \in Nat
      /\ Last(c, row[c].name) <= counter[c][row[c].name]
  BY DueType
<1> QED BY <1>1, <1>2 DEF Due

(* A change of the rows: what is due then.                                 *)
LastThen(c) == IF base'[c].epoch = xray.epoch /\ base'[c].name = row'[c].name
               THEN base'[c].value ELSE 0

LEMMA ChangeDue ==
  ASSUME TypeOK, InTime, TypeOK', Change \/ Restore
  PROVE  /\ worker.pc = "idle" /\ worker'.pc = "publish" /\ UNCHANGED Outside
         /\ \A c \in Clients : row[c] \in Row /\ row[c].name \in Names
         /\ \A c \in Clients : Due(c)' = counter[c][row'[c].name] - LastThen(c)
         /\ \A c \in Clients : /\ Due(c) = counter[c][row[c].name] - Last(c, row[c].name)
                               /\ Due(c) \in Nat /\ row[c].used \in Nat /\ carried[c] \in Nat
<1>0. /\ worker.pc = "idle" /\ worker'.pc = "publish" /\ UNCHANGED Outside
      /\ \A c \in Clients : row[c] \in Row /\ row[c].name \in Names
  <2>1. /\ Edit /\ UNCHANGED Outside
        /\ \E c \in Clients, how \in {"none", "restart", "users"} : Dirty(c, how)
    BY Constants DEF Change, Restore, SwitchUser, DeleteUser, RenameUser, AddUser, Reconfigure
  <2> QED BY <2>1, DirtyType, TypeIs DEF Edit, Row
<1>1. \A c \in Clients : Due(c)' = counter[c][row'[c].name] - LastThen(c)
  <2> SUFFICES ASSUME NEW c \in Clients PROVE Due(c)' = counter[c][row'[c].name] - LastThen(c)
    OBVIOUS
  <2>1. InFlight(c)' = 0 BY <1>0 DEF InFlight
  <2>2. UNCHANGED counter /\ Last(c, row[c].name)' = LastThen(c) BY <1>0 DEF Outside, Last, LastThen
  <2>3. Due(c)' = counter[c][row'[c].name] - LastThen(c) + 0 BY <2>1, <2>2 DEF Due
  <2>4. base'[c] \in Base /\ row'[c].name \in Names /\ counter \in Values
    BY TypeIs DEF TypeOK, Base
  <2> QED BY <2>3, <2>4 DEF LastThen, Base, Values
<1>2. \A c \in Clients : /\ Due(c) = counter[c][row[c].name] - Last(c, row[c].name)
                         /\ Due(c) \in Nat /\ row[c].used \in Nat /\ carried[c] \in Nat
  BY <1>0, NotSampled, DueType
<1> QED BY <1>0, <1>1, <1>2

LEMMA ChangeTwice ==
  ASSUME TypeOK, InTime, TypeOK', InTime', NothingTwice, Change \/ Restore
  PROVE  NothingTwice'
<1>0. /\ worker.pc = "idle" /\ worker'.pc = "publish" /\ UNCHANGED Outside
      /\ \A c \in Clients : row[c] \in Row /\ row[c].name \in Names
  BY ChangeDue
<1>1. \A c \in Clients : Due(c)' = counter[c][row'[c].name] - LastThen(c)
  BY ChangeDue
<1>2. \A c \in Clients : /\ Due(c) = counter[c][row[c].name] - Last(c, row[c].name)
                         /\ Due(c) \in Nat /\ row[c].used \in Nat /\ carried[c] \in Nat
  BY ChangeDue
<1>3. ASSUME UNCHANGED <<base, carried>>, exact' \subseteq exact,
             \A c \in Clients : row'[c].name = row[c].name /\ row'[c].used = row[c].used
                                /\ (row'[c].state # "gone" => row[c].state # "gone")
      PROVE  NothingTwice'
  <2> SUFFICES ASSUME NEW c \in Clients, c \in Present', c \in exact' 
               PROVE  row'[c].used + Due(c)' <= carried'[c]
    BY DEF NothingTwice, Present
  <2>1. Due(c)' = Due(c) BY <1>1, <1>2, <1>3 DEF Last, LastThen
  <2>2. c \in Present \cap exact BY <1>3 DEF Present
  <2> QED BY <1>3, <2>1, <2>2 DEF NothingTwice
<1>4. ASSUME NEW c \in Clients, NEW how, SwitchUser(c, how) \/ DeleteUser(c, how)
      PROVE  NothingTwice'
  BY <1>3, <1>4, <1>0, TypeIs DEF SwitchUser, DeleteUser, ghosts, Row
<1>5. ASSUME NEW c \in Clients, NEW n \in Names, NEW how, RenameUser(c, n, how)
      PROVE  NothingTwice'
  <2> SUFFICES ASSUME NEW d \in Clients, d \in Present', d \in exact' 
               PROVE  row'[d].used + Due(d)' <= carried'[d]
    BY DEF NothingTwice, Present
  <2>1. row' = [row EXCEPT ![c].name = n] /\ UNCHANGED <<base, carried>>
    BY <1>5 DEF RenameUser
  <2>2. d \in Present \cap exact /\ row'[d].used = row[d].used
    BY <1>5, <2>1, <1>0, TypeIs DEF RenameUser, Present, Row
  <2>3. row[d].used + Due(d) <= carried[d] BY <2>2 DEF NothingTwice
  <2>4. CASE d # c
    <3>0. row'[d] = row[d] BY <2>1, <2>4, TypeIs
    <3>1. Due(d)' = Due(d) BY <1>1, <1>2, <2>1, <3>0 DEF Last, LastThen
    <3> QED BY <2>1, <2>2, <2>3, <3>1
  <2>5. CASE d = c
    <3>1. ~(counter[c][n] > Last(c, n)) BY <1>5, <2>2, <2>5 DEF RenameUser
    <3>2. counter[c][n] = Last(c, n) BY <3>1, LastType DEF InTime
    <3>3. row'[d].name = n BY <2>1, <2>5, TypeIs DEF Row
    <3>4. Due(d)' = counter[c][n] - Last(c, n)
      BY <1>1, <2>1, <2>5, <3>3 DEF Last, LastThen
    <3>5. Due(d)' = 0 BY <3>2, <3>4, LastType DEF InTime
    <3> QED BY <1>2, <2>1, <2>2, <2>3, <3>5
  <2> QED BY <2>4, <2>5
<1>6. ASSUME NEW c \in Clients, NEW how, AddUser(c, how)
      PROVE  NothingTwice'
  <2> SUFFICES ASSUME NEW d \in Clients, d \in Present', d \in exact' 
               PROVE  row'[d].used + Due(d)' <= carried'[d]
    BY DEF NothingTwice, Present
  <2>1. UNCHANGED base BY <1>6 DEF AddUser
  <2>2. CASE d # c
    <3>1. row'[d] = row[d] /\ carried'[d] = carried[d] /\ d \in Present \cap exact
      BY <1>6, <2>2, TypeIs DEF AddUser, Present
    <3>2. Due(d)' = Due(d) BY <1>1, <1>2, <2>1, <3>1 DEF Last, LastThen
    <3> QED BY <3>1, <3>2 DEF NothingTwice
  <2>3. CASE d = c
    <3>1. row'[d].name = row[c].name /\ row'[d].used = 0
          /\ carried'[d] = counter[c][row[c].name] - Last(c, row[c].name)
      BY <1>6, <2>3, TypeIs DEF AddUser
    <3>2. Due(d)' = Due(d) BY <1>1, <1>2, <2>1, <2>3, <3>1 DEF Last, LastThen
    <3> QED BY <1>2, <2>3, <3>1, <3>2
  <2> QED BY <2>2, <2>3
<1>7. ASSUME NEW how, Reconfigure(how)
      PROVE  NothingTwice'
  BY <1>3, <1>7 DEF Reconfigure, ghosts
<1>8. CASE Restore
  <2> SUFFICES ASSUME NEW d \in Clients, d \in Present', d \in exact' 
               PROVE  row'[d].used + Due(d)' <= carried'[d]
    BY DEF NothingTwice, Present
  <2>1. UNCHANGED <<row, carried>> /\ d \in Present \cap exact /\ Last(d, row[d].name) = 0
    BY <1>8 DEF Restore, Present
  <2>2. LastThen(d) = 0
    BY <1>8, TypeIs DEF Restore, NoBase, Xray, LastThen
  <2>4. Due(d)' = Due(d) BY <1>1, <1>2, <2>1, <2>2
  <2> QED BY <2>1, <2>4 DEF NothingTwice
<1> QED BY <1>4, <1>5, <1>6, <1>7, <1>8 DEF Change

(* A settlement moves what is due to what is charged, or begins a cycle.    *)
LEMMA SettleDue ==
  ASSUME TypeOK, InTime, TypeOK', Settle, NEW c \in Clients
  PROVE  /\ row'[c].name = row[c].name /\ (c \in Present' => c \in Present)
         /\ IF Zeroes(c) THEN row'[c].used + Due(c)' = carried'[c]
                         ELSE /\ row'[c].used + Due(c)' = row[c].used + Due(c)
                              /\ carried'[c] = carried[c] /\ (c \in exact' => c \in exact)
<1> DEFINE n == row[c].name
           state == CASE worker.next = "delete" -> "gone"
                      [] worker.next = "enable" /\ row[worker.who].state = "off" -> "on"
                      [] OTHER -> row[worker.who].state
<1>1. /\ n \in Names /\ row[c].used \in Nat /\ carried[c] \in Nat
      /\ counter[c][n] \in Nat /\ Last(c, n) \in Nat /\ Last(c, n) <= counter[c][n]
      /\ Value(c) \in Nat /\ Previous(c) \in Nat /\ Delta(c) \in Nat /\ InFlight(c) \in Nat
      /\ Delta(c) = Value(c) - Previous(c) /\ Previous(c) <= Value(c)
  BY DueType DEF Settle
<1>2. worker.pc = "sampled" /\ worker'.pc # "sampled" /\ UNCHANGED <<xray, counter>>
  <2>1. ASSUME NEW how \in {"none", "users"}, Dirty(worker.who, how) PROVE worker'.pc # "sampled"
    BY <2>1, DirtyType, TypeIs DEF Worker
  <2>2. ASSUME worker' = Goes(worker.next) PROVE worker'.pc # "sampled"
    BY <2>2, GoesType, TypeIs
  <2> QED BY <2>1, <2>2 DEF Settle
<1>3. row' = [d \in Clients |-> IF d \in SettledNow
                THEN [row[d] EXCEPT !.used = Total(d), !.gen = Gen(d),
                                    !.state = IF d = worker.who THEN state ELSE @]
                ELSE row[d]]
  BY DEF Settle
<1>4. row'[c].name = n /\ row'[c].used = (IF c \in SettledNow THEN Total(c) ELSE row[c].used)
  BY <1>3, TypeIs DEF Row
<1>5. c \in Present' => c \in Present
  <2>1. row[c].state = "gone" /\ c = worker.who => state = "gone" BY DEF Settle
  <2>2. row[c].state = "gone" => row'[c].state = "gone"
    <3> HIDE DEF state
    <3> QED BY <1>3, <2>1, TypeIs DEF Row
  <2> QED BY <2>2 DEF Present
<1>6. Due(c)' = counter[c][n] - IF base'[c].epoch = xray.epoch /\ base'[c].name = n
                                THEN base'[c].value ELSE 0
  <2>1. InFlight(c)' = 0 BY <1>2 DEF InFlight
  <2>2. base'[c] \in Base BY DEF TypeOK, Base
  <2> QED BY <1>1, <1>2, <1>4, <2>1, <2>2 DEF Due, Last, Base
<1>7. CASE c \notin SettledNow
  <2>1. ~Zeroes(c) BY <1>7 DEF Zeroes, Cycles, SettledNow
  <2>2. base'[c] = base[c] /\ carried'[c] = carried[c] /\ (c \in exact' => c \in exact)
    BY <1>7, <2>1, TypeIs DEF Settle
  <2>3. InFlight(c) = 0 BY <1>7 DEF InFlight
  <2>4. Due(c)' = Due(c) BY <1>1, <1>6, <2>2, <2>3 DEF Due, Last
  <2> QED BY <1>4, <1>5, <1>7, <2>1, <2>2, <2>4
<1>8. CASE c \in SettledNow
  <2>1. base'[c] = [epoch |-> worker.sample.epoch, name |-> n, value |-> Value(c), gen |-> Gen(c)]
    BY <1>8 DEF Settle
  <2>2. worker.sample.epoch \in 1..xray.epoch /\ base[c].epoch \in Nat
        /\ base[c].epoch <= worker.sample.epoch /\ xray.epoch \in Nat
    BY <1>2, TypeIs DEF InTime, SampleInTime, BaseBeforeSample, Base, Xray
  <2>3. Due(c)' = IF worker.sample.epoch = xray.epoch THEN counter[c][n] - Value(c) ELSE counter[c][n]
    BY <1>1, <1>6, <2>1
  <2>4. CASE Zeroes(c)
    <3>1. row'[c].used = 0 BY <1>4, <1>8, <2>4 DEF Total
    <3>2. carried'[c] = AfterSample(c) BY <2>4 DEF Settle
    <3>3. Due(c)' = AfterSample(c) BY <2>3 DEF AfterSample
    <3>4. carried'[c] \in Nat BY DEF TypeOK
    <3> QED BY <1>4, <1>5, <2>4, <3>1, <3>2, <3>3, <3>4
  <2>5. CASE ~Zeroes(c)
    <3>1. row'[c].used = row[c].used + Delta(c) BY <1>4, <1>8, <2>5 DEF Total
    <3>2. carried'[c] = carried[c] /\ (c \in exact' => c \in exact) BY <2>5, TypeIs DEF Settle
    <3>3. CASE worker.sample.epoch = xray.epoch
      <4>1. InFlight(c) = 0 /\ Previous(c) = Last(c, n)
        BY <3>3 DEF InFlight, Previous, Last, SameCounter
      <4> QED BY <1>1, <1>4, <1>5, <2>3, <2>5, <3>1, <3>2, <3>3, <4>1 DEF Due
    <3>4. CASE worker.sample.epoch # xray.epoch
      <4>1. InFlight(c) = Delta(c) BY <1>2, <1>8, <3>4 DEF InFlight
      <4>2. Last(c, n) = 0 BY <2>2, <3>4 DEF Last
      <4> QED BY <1>1, <1>4, <1>5, <2>3, <2>5, <3>1, <3>2, <3>4, <4>1, <4>2 DEF Due
    <3> QED BY <3>3, <3>4
  <2> QED BY <2>4, <2>5
<1> QED BY <1>7, <1>8

(* Every other step than these and than Xray's counting is quiet: nothing  *)
(* is charged, and Xray's counters are left or begin anew.                  *)
Quiet ==
  /\ UNCHANGED <<row, base, carried, exact>>
  /\ UNCHANGED <<xray.epoch, counter>> \/ (xray'.epoch = xray.epoch + 1 /\ counter' = Zero)
  /\ worker'.pc # "sampled" \/ UNCHANGED worker \/ worker'.sample.epoch = xray'.epoch

LEMMA QuietStep ==
  ASSUME TypeOK, [Next]_vars, ~Change, ~Restore, ~Settle, ~Traffic
  PROVE  Quiet
<1>1. CASE UNCHANGED vars
  BY <1>1 DEF vars, rows, ghosts, Quiet
<1>2. CASE Proceed \/ Jobs
  <2>1. ASSUME worker'.pc # "sampled", UNCHANGED <<row, base, carried, exact, counter>>, xray'.epoch = xray.epoch
        PROVE  Quiet
    BY <2>1 DEF Quiet
  <2>2. CASE Publish \/ Record \/ Boot \/ Retry
    BY <2>1, <2>2, GotoType, TypeIs DEF Publish, Record, Boot, Retry, rows, ghosts, Idle
  <2>3. CASE RestartOnly \/ FullRestart
    <3>1. worker'.pc = "record" BY <2>3, GotoType, TypeIs DEF RestartOnly, FullRestart
    <3>2. Starts /\ UNCHANGED <<row, base, carried, exact>>
      BY <2>3 DEF RestartOnly, FullRestart, rows, ghosts
    <3>3. xray'.epoch = xray.epoch + 1 BY <3>2, StartsType, TypeIs
    <3> QED BY <3>1, <3>2, <3>3 DEF Quiet, Starts
  <2>4. CASE AlterUsers \/ AlterFails
    <3>1. worker'.pc \in {"record", "settle"} BY <2>4, GotoType, TypeIs DEF AlterUsers, AlterFails
    <3>2. xray'.epoch = xray.epoch BY <2>4, TypeIs DEF AlterUsers, AlterFails, Xray
    <3> QED BY <2>1, <2>4, <3>1, <3>2 DEF AlterUsers, AlterFails, rows, ghosts
  <2>5. CASE SettleBeforeRestart
    <3>1. worker.who \in Clients BY TypeIs DEF Worker
    <3> QED BY <2>5, <3>1, ReadType DEF SettleBeforeRestart, Read, rows, ghosts, Quiet
  <2>6. CASE SyncTraffic
    BY <2>6, Constants, ReadType DEF SyncTraffic, Read, rows, ghosts, Quiet
  <2>7. CASE SettleFails
    <3>1. worker'.pc # "sampled" BY <2>7, GoesType, TypeIs DEF SettleFails
    <3> QED BY <2>1, <2>7, <3>1 DEF SettleFails, rows, ghosts
  <2> QED BY <1>2, <2>2, <2>3, <2>4, <2>5, <2>6, <2>7 DEF Proceed, Jobs
<1>3. CASE Requests \/ Faults
  <2>1. CASE UpdateGeo \/ XrayStarts
    <3>1. Starts /\ UNCHANGED <<base, row, worker, carried, exact>>
      BY <2>1 DEF UpdateGeo, XrayStarts, rows, ghosts
    <3>2. xray'.epoch = xray.epoch + 1 BY <3>1, StartsType, TypeIs
    <3> QED BY <3>1, <3>2 DEF Quiet, Starts
  <2>2. CASE XrayStops
    <3>1. Stops /\ UNCHANGED <<base, row, worker, carried, exact>> BY <2>2 DEF XrayStops, rows, ghosts
    <3>2. xray'.epoch = xray.epoch + 1 BY <3>1, StopsType, TypeIs
    <3> QED BY <3>1, <3>2 DEF Quiet, Stops
  <2>3. ASSUME NEW c \in Clients, NEW next \in {"cycle", "zero", "enable", "delete"}, StartCycle(c, next)
        PROVE  Quiet
    BY <2>3, ReadType DEF StartCycle, Read, rows, ghosts, Quiet
  <2>4. CASE ApplyFails \/ WorkerDies \/ BootPreserving
    <3>1. worker'.pc # "sampled" BY <2>4 DEF ApplyFails, WorkerDies, BootPreserving, Idle
    <3> QED BY <2>4, <3>1 DEF ApplyFails, WorkerDies, BootPreserving, rows, ghosts, Quiet
  <2> QED BY <1>3, <2>1, <2>2, <2>3, <2>4 DEF Requests, Faults
<1> QED BY <1>1, <1>2, <1>3 DEF Next

(* Xray counts a unit.                                                      *)
LEMMA CarryDue ==
  ASSUME TypeOK, InTime, NEW d \in Clients, NEW m \in Names, Carry(d, m), NEW c \in Present
  PROVE  /\ UNCHANGED <<row, base, exact>> /\ c \in Clients
         /\ carried'[c] = IF c = d THEN carried[c] + 1 ELSE carried[c]
         /\ Due(c)' = IF c = d /\ m = row[c].name THEN Due(c) + 1 ELSE Due(c)
<1>1. c \in Clients /\ row[c].state # "gone" BY DEF Present
<1>2. UNCHANGED <<row, base, exact, xray, worker>> BY DEF Carry, rows
<1>3. carried'[c] = IF c = d THEN carried[c] + 1 ELSE carried[c]
  BY <1>1, TypeIs DEF Carry
<1>4. /\ counter[c][row[c].name] \in Nat /\ Last(c, row[c].name) \in Nat /\ InFlight(c) \in Nat
      /\ row[c].name \in Names
  BY <1>1, DueType
<1>5. counter'[c][row[c].name] = IF c = d /\ m = row[c].name THEN counter[c][row[c].name] + 1
                                                           ELSE counter[c][row[c].name]
  BY <1>1, <1>4, TypeIs DEF Carry, Values
<1>6. Last(c, row[c].name)' = Last(c, row[c].name) /\ InFlight(c)' = InFlight(c)
  BY <1>2 DEF Last, InFlight, SettledNow, Delta, Value, Previous, SameCounter, Present
<1> QED BY <1>1, <1>2, <1>3, <1>4, <1>5, <1>6 DEF Due

LEMMA TwiceStep ==
  ASSUME TypeOK, InTime, NothingTwice, [Next]_vars
  PROVE  NothingTwice'
<1>0. TypeOK' /\ InTime' BY TypeStep, InTimeStep
<1> SUFFICES ASSUME NEW c \in Clients, c \in Present', c \in exact', ~Change, ~Restore
             PROVE  row'[c].used + Due(c)' <= carried'[c]
  BY <1>0, ChangeTwice DEF NothingTwice, Present
<1>1. row[c].used \in Nat /\ carried[c] \in Nat /\ carried'[c] \in Nat /\ Due(c) \in Int
      /\ row'[c].used \in Nat
  <2>1. row[c].used \in Nat /\ carried[c] \in Nat /\ Due(c) \in Int BY DueType DEF Due
  <2> QED BY <1>0, <2>1 DEF TypeOK
<1>2. Due(c)' \in Int
  <2>1. row'[c].name \in Names /\ counter' \in Values /\ base'[c] \in Base BY <1>0 DEF TypeOK, Base, Values
  <2>2. counter'[c][row'[c].name] \in Nat /\ base'[c].value \in Nat BY <2>1 DEF Values, Base
  <2>3. InFlight(c)' \in Nat
    <3>1. worker'.sample.values[c][row'[c].name] \in Nat BY <1>0, <2>1 DEF TypeOK
    <3> QED BY <2>2, <3>1 DEF InFlight, Delta, Value, Previous, SameCounter
  <2> QED BY <2>2, <2>3 DEF Due, Last
<1>3. CASE Settle
  <2>1. c \in Present BY <1>0, <1>3, SettleDue
  <2> QED BY <1>0, <1>1, <1>2, <1>3, <2>1, SettleDue DEF NothingTwice
<1>4. CASE Quiet
  <2>1. Due(c)' <= Due(c) BY <1>4, DueStep DEF Quiet
  <2>2. row[c].used + Due(c) <= carried[c] BY <1>4 DEF Quiet, NothingTwice, Present
  <2> QED BY <1>1, <1>2, <1>4, <2>1, <2>2 DEF Quiet
<1>5. CASE Traffic
  <2>1. PICK d \in Clients, m \in Names : Carry(d, m) BY <1>5 DEF Traffic
  <2>2. c \in Present /\ c \in exact BY <2>1 DEF Carry, rows, Present
  <2>3. row[c].used + Due(c) <= carried[c] BY <2>2 DEF NothingTwice
  <2> QED BY <1>1, <1>2, <2>1, <2>2, <2>3, CarryDue
<1> QED BY <1>3, <1>4, <1>5, QuietStep

(* Whatever the order in which samples, settlements, resets, restarts and  *)
(* stops of Xray come, a user is not charged what it was charged before.    *)
THEOREM ChargedOnce == Spec => []NothingTwice
<1>1. Init => NothingTwice
  <2> SUFFICES ASSUME Init, NEW c \in Clients PROVE row[c].used + Due(c) <= carried[c]
    BY DEF NothingTwice, Present
  <2>1. row[c].used = 0 /\ carried[c] = 0 /\ row[c].name = AnyName BY DEF Init
  <2>2. Due(c) = 0
    BY Constants, <2>1 DEF Init, Due, InFlight, Last, Zero, NoBase, Idle
  <2> QED BY <2>1, <2>2
<1>2. TypeOK /\ InTime /\ NothingTwice /\ [Next]_vars => NothingTwice'
  BY TwiceStep
<1> QED BY <1>1, <1>2, Typing, PTL DEF Spec

(* A quiet step of one epoch leaves what is due, if no sample of another    *)
(* epoch is dropped.                                                        *)
LEMMA SameDue ==
  ASSUME TypeOK, InTime, NEW c \in Clients, Quiet, xray'.epoch = xray.epoch,
         worker.sample.epoch \in {0, xray.epoch}
  PROVE  Due(c)' = Due(c)
<1>1. xray.epoch \in Nat BY TypeIs DEF Xray
<1>2. UNCHANGED <<row, base, counter>> BY <1>1 DEF Quiet
<1>3. InFlight(c) = 0 BY DEF InTime, SampleInTime, InFlight
<1>4. worker'.pc = "sampled" => worker'.sample.epoch = xray'.epoch
  BY DEF Quiet, InTime, SampleInTime
<1>5. InFlight(c)' = 0 BY <1>4 DEF InFlight
<1> QED BY <1>2, <1>3, <1>5 DEF Due, Last

Loses(c) ==
  (/\ c \in exact' /\ row'[c].state # "gone" /\ row'[c].name = row[c].name
   /\ xray'.epoch = xray.epoch /\ worker.sample.epoch \in {0, xray.epoch}
   /\ \A n \in Names \ {row[c].name} : counter'[c][n] = counter[c][n])
  => Uncounted(c)' \in {0, Uncounted(c)}

LEMMA LostStep ==
  ASSUME TypeOK, InTime, [Next]_vars, NEW c \in Present \cap exact
  PROVE  Loses(c)
<1>0. TypeOK' BY TypeStep
<1> SUFFICES ASSUME c \in exact', row'[c].state # "gone", row'[c].name = row[c].name,
                    xray'.epoch = xray.epoch, worker.sample.epoch \in {0, xray.epoch},
                    \A n \in Names \ {row[c].name} : counter'[c][n] = counter[c][n]
             PROVE  Uncounted(c)' \in {0, Uncounted(c)}
  BY DEF Loses
<1>1. c \in Clients /\ row[c].state # "gone" BY DEF Present
<1>2. /\ row[c].used \in Nat /\ carried[c] \in Nat /\ row[c].name \in Names
      /\ row'[c].used \in Nat /\ carried'[c] \in Nat
  BY <1>0, <1>1 DEF TypeOK
<1>3. Due(c) \in Int BY <1>1, DueType DEF Due
<1>4. ASSUME row'[c].used + Due(c)' = row[c].used + Due(c), carried'[c] = carried[c]
      PROVE  Uncounted(c)' = Uncounted(c)
  BY <1>4 DEF Uncounted
<1>5. CASE Change \/ Restore
  <2>1. /\ UNCHANGED Outside /\ row[c] \in Row
        /\ Due(c)' = counter[c][row'[c].name] - LastThen(c)
        /\ Due(c) = counter[c][row[c].name] - Last(c, row[c].name)
    BY <1>0, <1>1, <1>5, ChangeDue
  <2>2. row'[c].used = row[c].used /\ carried'[c] = carried[c] /\ LastThen(c) = Last(c, row[c].name)
    <3>1. ASSUME NEW d \in Clients, NEW how, SwitchUser(d, how) \/ DeleteUser(d, how)
          PROVE  row'[c].used = row[c].used /\ carried'[c] = carried[c] /\ UNCHANGED base
      BY <1>1, <2>1, <3>1, TypeIs DEF SwitchUser, DeleteUser, ghosts, Row
    <3>2. ASSUME NEW d \in Clients, NEW how, NEW n \in Names, RenameUser(d, n, how)
          PROVE  row'[c].used = row[c].used /\ carried'[c] = carried[c] /\ UNCHANGED base
      BY <1>1, <2>1, <3>2, TypeIs DEF RenameUser, Row
    <3>3. ASSUME NEW d \in Clients, NEW how, AddUser(d, how)
          PROVE  row'[c].used = row[c].used /\ carried'[c] = carried[c] /\ UNCHANGED base
      BY <1>1, <3>3, TypeIs DEF AddUser
    <3>4. ASSUME NEW how, Reconfigure(how)
          PROVE  row'[c].used = row[c].used /\ carried'[c] = carried[c] /\ UNCHANGED base
      BY <3>4 DEF Reconfigure, ghosts
    <3>5. ASSUME UNCHANGED base PROVE LastThen(c) = Last(c, row[c].name)
      BY <3>5 DEF LastThen, Last
    <3>6. CASE Restore
      <4>1. Last(c, row[c].name) = 0 /\ UNCHANGED <<row, carried>> BY <3>6 DEF Restore
      <4>2. LastThen(c) = 0 BY <1>1, <3>6, TypeIs DEF Restore, NoBase, LastThen, Xray
      <4> QED BY <4>1, <4>2
    <3> QED BY <1>5, <3>1, <3>2, <3>3, <3>4, <3>5, <3>6 DEF Change
  <2> QED BY <1>4, <2>1, <2>2
<1>6. CASE Settle
  <2>1. CASE Zeroes(c)
    <3>1. row'[c].used + Due(c)' = carried'[c] BY <1>0, <1>1, <1>6, <2>1, SettleDue
    <3>2. Uncounted(c)' = 0 BY <1>2, <3>1 DEF Uncounted
    <3> QED BY <3>2
  <2>2. CASE ~Zeroes(c)
    BY <1>0, <1>1, <1>4, <1>6, <2>2, SettleDue
  <2> QED BY <2>1, <2>2
<1>7. CASE Traffic
  <2>1. PICK d \in Clients, m \in Names : Carry(d, m) BY <1>7 DEF Traffic
  <2>2. c = d => m = row[c].name
    <3>1. c = d => counter'[c][m] = counter[c][m] + 1 BY <1>1, <2>1, TypeIs DEF Carry, Values
    <3>2. counter[c][m] \in Nat BY <1>1, TypeIs DEF Values
    <3> QED BY <3>1, <3>2
  <2>3. /\ UNCHANGED row /\ carried'[c] = IF c = d THEN carried[c] + 1 ELSE carried[c]
        /\ Due(c)' = IF c = d THEN Due(c) + 1 ELSE Due(c)
    BY <2>1, <2>2, CarryDue
  <2>4. Uncounted(c)' = Uncounted(c) BY <1>2, <1>3, <2>3 DEF Uncounted
  <2> QED BY <2>4
<1>8. CASE Quiet
  <2>1. Due(c)' = Due(c) BY <1>1, <1>8, SameDue
  <2> QED BY <1>4, <1>8, <2>1 DEF Quiet
<1> QED BY <1>5, <1>6, <1>7, <1>8, QuietStep

(* What is carried for a user while its Xray lives is charged in the end or *)
(* stays due: no settlement, reset or failure of the worker drops it.       *)
THEOREM ChargedInFull == Spec => NothingLost
<1>1. TypeOK /\ InTime /\ [Next]_vars => [\A c \in Present \cap exact : Loses(c)]_vars
  BY LostStep
<1>2. NothingLost <=> [][\A c \in Present \cap exact : Loses(c)]_vars
  BY DEF NothingLost, Loses
<1> QED BY <1>1, <1>2, Typing, PTL DEF Spec

-----------------------------------------------------------------------------
(* What Xray runs.                                                          *)

(* The user as it was when the worker took the lock.                        *)
Before == [users |-> (Wanted.users \ User(worker.who)) \cup worker.was, other |-> other]

Restarting == worker.pc = "sampled" /\ worker.next = "restart"
Applying == worker.pc \in {"publish", "act", "settle", "restart", "record"} \/ Restarting
Published == worker.pc \in {"act", "settle", "restart", "record"} \/ Restarting
Altering(pc) == worker.pc = pc /\ worker.how = "users"

(* What has been reached at each step of the worker. Xray may start on its  *)
(* own at any of them, with the file as it is then.                         *)
Brought ==
  /\ Applying => applied < desired
  /\ desired = applied => file = Wanted /\ (xray.up => Running = Wanted)
  /\ Published => file = Wanted
  /\ Altering("publish") => file = Before /\ (xray.up => Running = Before)
  /\ Altering("act") => (xray.up => Running \in {Before, Wanted})
  /\ Altering("publish") \/ Altering("act") => worker.was \subseteq {worker.who} \X Names
  /\ worker.pc = "record" => (xray.up => Running = Wanted)

(* A configuration says of each user what its row says.                     *)
LEMMA WantedSame ==
  ASSUME UNCHANGED other,
         \A c \in Clients : row'[c].state = row[c].state /\ row'[c].name = row[c].name
  PROVE  Wanted' = Wanted /\ \A c \in Clients : User(c)' = User(c)
<1>1. \A c \in Clients : User(c)' = User(c)
  BY DEF User
<1> QED BY <1>1 DEF Wanted

LEMMA WantedUsers ==
  ASSUME TypeOK, NEW c \in Clients, NEW was \in SUBSET ({c} \X Names)
  PROVE  /\ (((Wanted.users \ User(c)) \cup was) \ was) \cup User(c) = Wanted.users
         /\ (Wanted.users \ was) \cup User(c) = Wanted.users
         /\ User(c) \subseteq {c} \X Names
<1>1. \A d \in Clients : User(d) \subseteq {d} \X Names BY UserType, TypeIs
<1>2. Wanted.users = UNION {User(d) : d \in Clients} BY DEF Wanted
<1>3. ASSUME NEW u PROVE u \in Wanted.users <=> \E d \in Clients : u \in User(d)
  BY <1>2
<1>4. ASSUME NEW u \in Wanted.users, u \notin User(c) PROVE u \notin was
  BY <1>1, <1>3, <1>4
<1>5. User(c) \subseteq Wanted.users BY <1>3
<1> QED BY <1>1, <1>4, <1>5

(* Alterations.                                                             *)
LEMMA AlteredTo ==
  ASSUME TypeOK, Brought, Altering("act"), xray.up
  PROVE  [users |-> Altered, other |-> xray.other] = Wanted
<1>1. worker.who \in Clients /\ worker.was \in SUBSET ({worker.who} \X Names)
  BY TypeIs DEF Brought, Altering, Worker
<1>2. Running \in {Before, Wanted} BY DEF Brought
<1>3. xray.other = other /\ xray.users \in {(Wanted.users \ User(worker.who)) \cup worker.was, Wanted.users}
  BY <1>2 DEF Running, Before, Wanted
<1>4. Altered = Wanted.users BY <1>1, <1>3, WantedUsers DEF Altered
<1> QED BY <1>3, <1>4 DEF Wanted

(* The rows are changed: the configuration before is still what it was.     *)
LEMMA DirtyBrought ==
  ASSUME TypeOK, TypeOK', Brought, NEW c \in Clients, NEW how \in {"none", "restart", "users"}, Dirty(c, how),
         UNCHANGED <<applied, file, xray>>,
         how = "users" => /\ UNCHANGED other
                          /\ \A d \in Clients \ {c} : row'[d].state = row[d].state /\ row'[d].name = row[d].name
  PROVE  Brought'
<1>1. /\ desired' = desired + 1 /\ worker'.pc = "publish" /\ worker'.who = c /\ worker'.was = User(c)
      /\ worker'.how \in {how, "none"} /\ (worker'.how = "users" => desired = applied)
  BY DirtyType
<1>2. desired \in Nat /\ applied \in 0..desired BY TypeIs
<1>3. User(c) \subseteq {c} \X Names BY UserType, TypeIs
<1>4. CASE worker'.how # "users"
  BY <1>1, <1>2, <1>4 DEF Brought, Applying, Published, Restarting, Altering
<1>5. CASE worker'.how = "users"
  <2>1. file = Wanted /\ (xray.up => Running = Wanted) BY <1>1, <1>5 DEF Brought
  <2>2. UNCHANGED other /\ \A d \in Clients \ {c} : User(d)' = User(d)
    BY <1>1, <1>5 DEF User
  <2>3. \A d \in Clients : User(d) \subseteq {d} \X Names BY UserType, TypeIs
  <2>4. \A d \in Clients : User(d)' \subseteq {d} \X Names BY DEF User, TypeOK
  <2>5. Wanted.users = UNION {User(d) : d \in Clients} /\ Wanted.users' = UNION {User(d)' : d \in Clients}
    BY DEF Wanted
  <2>6. (Wanted.users' \ User(c)') \cup User(c) = Wanted.users
    <3>1. ASSUME NEW u PROVE u \in Wanted.users <=> \E d \in Clients : u \in User(d)
      BY <2>5
    <3>2. ASSUME NEW u PROVE u \in Wanted.users' <=> \E d \in Clients : u \in User(d)'
      BY <2>5
    <3>3. \A u \in Wanted.users : u \notin User(c) => u \in Wanted.users' /\ u \notin User(c)'
      BY <2>2, <2>3, <2>4, <3>1, <3>2
    <3>4. \A u \in Wanted.users' : u \notin User(c)' => u \in Wanted.users
      BY <2>2, <3>1, <3>2
    <3>5. User(c) \subseteq Wanted.users BY <3>1
    <3> QED BY <3>3, <3>4, <3>5
  <2>7. Before' = Wanted
    BY <1>1, <2>2, <2>6 DEF Before, Wanted
  <2> QED BY <1>1, <1>2, <1>3, <2>1, <2>7 DEF Brought, Applying, Published, Restarting, Altering, Running
<1> QED BY <1>4, <1>5

LEMMA ChangeBrought ==
  ASSUME TypeOK, TypeOK', Brought, Change \/ Restore
  PROVE  Brought'
<1>0. \A c \in Clients : row[c] \in Row BY TypeIs
<1>1. ASSUME NEW c \in Clients, NEW how \in {"none", "restart", "users"},
             SwitchUser(c, how) \/ DeleteUser(c, how) \/ AddUser(c, how) \/ (\E n \in Names : RenameUser(c, n, how))
      PROVE  Brought'
  <2>1. Dirty(c, how) /\ UNCHANGED <<other, Outside>> /\ \A d \in Clients \ {c} : row'[d] = row[d]
    BY <1>1, TypeIs DEF SwitchUser, DeleteUser, AddUser, RenameUser
  <2> QED BY <2>1, DirtyBrought DEF Outside
<1>2. ASSUME NEW how \in {"none", "restart"}, Reconfigure(how)
      PROVE  Brought'
  BY <1>2, Constants, DirtyBrought DEF Reconfigure, Outside
<1>3. CASE Restore
  BY <1>3, Constants, DirtyBrought DEF Restore, Outside
<1> QED BY <1>1, <1>2, <1>3 DEF Change

(* Xray starts, on its own or not, with the file as it is.                  *)
LEMMA StartBrought ==
  ASSUME TypeOK, Brought, Starts, UNCHANGED <<row, other, desired, applied, file>>,
         worker' = worker \/ (Goto("record") /\ Published)
  PROVE  Brought'
<1>1. UNCHANGED Wanted BY DEF Wanted, User
<1>2. Running' = [users |-> file.users, other |-> file.other] BY StartsType, TypeIs DEF Running
<1>3. file \in [users: SUBSET Users, other: Nat] BY TypeIs
<1>4. Running' = file BY <1>2, <1>3
<1>5. CASE worker' = worker
  <2>1. UNCHANGED <<Before, Applying, Published>> /\ \A pc : UNCHANGED Altering(pc)
    BY <1>1, <1>5 DEF Before, Applying, Published, Restarting, Altering, User
  <2>2. Altering("act") => file = Wanted BY DEF Altering, Brought, Published
  <2>3. worker.pc = "record" => file = Wanted BY DEF Brought, Published
  <2> QED BY <1>1, <1>4, <1>5, <2>1, <2>2, <2>3 DEF Brought, Altering
<1>6. CASE Goto("record") /\ Published
  <2>1. /\ worker'.pc = "record" /\ worker'.who = worker.who /\ worker'.was = worker.was
        /\ worker'.how = worker.how
    BY <1>6, GotoType, TypeIs
  <2>2. file = Wanted /\ applied < desired BY <1>6 DEF Brought, Published, Applying
  <2> QED BY <1>1, <1>4, <2>1, <2>2 DEF Brought, Altering
<1> QED BY <1>5, <1>6

LEMMA WorkBrought ==
  ASSUME TypeOK, TypeOK', Brought, Proceed \/ Jobs
  PROVE  Brought'
<1>0. /\ desired \in Nat /\ applied \in 0..desired /\ worker \in Worker /\ xray \in Xray
      /\ desired # applied => applied < desired
  BY TypeIs
<1>1. ASSUME UNCHANGED <<row, other>> PROVE UNCHANGED Wanted
  BY <1>1 DEF Wanted, User
<1>2. CASE Publish
  <2>1. /\ worker'.pc = IF worker.how = "none" THEN "settle" ELSE "act"
        /\ worker'.who = worker.who /\ worker'.was = worker.was /\ worker'.how = worker.how
    BY <1>0, <1>2, GotoType DEF Publish
  <2>2. file' = Wanted /\ UNCHANGED <<row, other, desired, applied, xray>> BY <1>2 DEF Publish, rows
  <2>3. applied < desired BY <1>2 DEF Publish, Brought, Applying
  <2>4. UNCHANGED <<Before, Running>> BY <1>1, <2>1, <2>2 DEF Before, Running, User
  <2>5. worker.how = "users" => (xray.up => Running = Before)
    BY <1>2 DEF Publish, Brought, Altering
  <2>6. worker.how = "users" => worker.was \subseteq {worker.who} \X Names
    BY <1>2 DEF Publish, Brought, Altering
  <2>7. UNCHANGED Wanted /\ desired' # applied' BY <1>0, <1>1, <2>2, <2>3
  <2> QED BY <2>1, <2>2, <2>3, <2>4, <2>5, <2>6, <2>7 DEF Brought, Altering
<1>3. CASE RestartOnly \/ FullRestart
  BY <1>3, StartBrought DEF RestartOnly, FullRestart, Published, rows
<1>4. CASE AlterUsers \/ AlterFails
  <2>1. /\ Altering("act") /\ worker'.pc \in {"record", "settle"}
        /\ worker'.who = worker.who /\ worker'.was = worker.was /\ worker'.how = worker.how
    BY <1>0, <1>4, GotoType DEF AlterUsers, AlterFails, Altering
  <2>2. UNCHANGED <<row, other, desired, applied, file>> BY <1>4 DEF AlterUsers, AlterFails, rows
  <2>3. applied < desired /\ file = Wanted BY <2>1 DEF Brought, Applying, Published, Altering
  <2>4. worker'.pc = "record" => Running' = Wanted
    <3>1. worker'.pc = "record" => xray.up /\ xray' = [xray EXCEPT !.users = Altered]
      BY <1>0, <1>4, GotoType DEF AlterUsers, AlterFails
    <3>2. worker'.pc = "record" => Running' = [users |-> Altered, other |-> xray.other]
      BY <1>0, <3>1 DEF Running, Xray
    <3> QED BY <2>1, <3>1, <3>2, AlteredTo
  <2>5. UNCHANGED Wanted BY <1>1, <2>2
  <2>6. ~Altering("publish")' /\ ~Altering("act")' /\ desired' # applied'
    BY <1>0, <2>1, <2>2, <2>3 DEF Altering
  <2> QED BY <2>2, <2>3, <2>4, <2>5, <2>6 DEF Brought
<1>5. CASE Record
  <2>1. UNCHANGED <<row, other, desired, file, xray>> /\ applied' = desired /\ worker' = Idle
    BY <1>5 DEF Record, rows
  <2>2. file = Wanted /\ (xray.up => Running = Wanted) BY <1>5 DEF Record, Brought, Published
  <2>3. UNCHANGED Running BY <2>1 DEF Running
  <2> QED BY <1>1, <2>1, <2>2, <2>3 DEF Idle, Brought, Applying, Published, Altering, Restarting
<1>6. ASSUME UNCHANGED <<row, other, desired, applied, file, xray>>,
             Applying' => Applying, Published' => Published, worker'.pc \notin {"publish", "act", "record"}
      PROVE  Brought'
  <2>1. UNCHANGED Running BY <1>6 DEF Running
  <2> QED BY <1>1, <1>6, <2>1 DEF Brought, Altering
<1>7. CASE SettleBeforeRestart
  <2>1. worker.who \in Clients BY <1>0 DEF Worker
  <2>2. worker'.pc = "sampled" /\ worker'.next = "restart" /\ UNCHANGED xray
    BY <1>7, <2>1, ReadType DEF SettleBeforeRestart, Read
  <2> QED BY <1>6, <1>7, <2>2
          DEF SettleBeforeRestart, Read, rows, Applying, Published, Restarting
<1>8. CASE SyncTraffic
  <2>1. worker'.pc = "sampled" /\ worker'.next = "idle" /\ UNCHANGED xray
    BY <1>8, Constants, ReadType DEF SyncTraffic, Read
  <2> QED BY <1>6, <1>8, <2>1 DEF SyncTraffic, Read, rows, Applying, Published, Restarting
<1>9. CASE SettleFails
  <2>1. worker'.pc = IF worker.pc = "settle" \/ worker.next = "restart" THEN "restart" ELSE "idle"
    BY <1>0, <1>9, GoesType DEF SettleFails
  <2>2. worker'.pc = "restart" => Applying /\ Published
    BY <1>9, <2>1 DEF SettleFails, Applying, Published, Restarting
  <2> QED BY <1>6, <1>9, <2>1, <2>2 DEF SettleFails, rows, Applying, Published, Restarting
<1>10. CASE Settle
  <2> DEFINE state == CASE worker.next = "delete" -> "gone"
                        [] worker.next = "enable" /\ row[worker.who].state = "off" -> "on"
                        [] OTHER -> row[worker.who].state
  <2>1. UNCHANGED <<other, applied, file, xray>> /\ worker.who \in Clients /\ worker.pc = "sampled"
    BY <1>0, <1>10 DEF Settle, Worker
  <2>2. \A c \in Clients : row'[c].name = row[c].name
                           /\ row'[c].state = (IF c = worker.who THEN state ELSE row[c].state)
    <3>1. row' = [d \in Clients |-> IF d \in SettledNow
                    THEN [row[d] EXCEPT !.used = Total(d), !.gen = Gen(d),
                                        !.state = IF d = worker.who THEN state ELSE @]
                    ELSE row[d]]
      BY <1>10 DEF Settle
    <3>2. worker.who \notin SettledNow => row[worker.who].state = state
      <4>1. worker.who \notin SettledNow => worker.next \in {"idle", "restart"} BY DEF SettledNow
      <4> QED BY <4>1
    <3> HIDE DEF state
    <3> QED BY <3>1, <3>2, <2>1, TypeIs DEF Row
  <2>3. CASE state # row[worker.who].state
    <3>1. Dirty(worker.who, IF state = "on" THEN "users" ELSE "none") BY <1>10, <2>3 DEF Settle
    <3> HIDE DEF state
    <3> QED BY <2>1, <2>2, <3>1, DirtyBrought
  <2>4. CASE state = row[worker.who].state
    <3>1. worker' = Goes(worker.next) /\ UNCHANGED desired BY <1>10, <2>4 DEF Settle
    <3>2. UNCHANGED Wanted BY <2>1, <2>2, <2>4, WantedSame
    <3>3. worker'.pc = IF worker.next = "restart" THEN "restart" ELSE "idle"
      BY <1>0, <3>1, GoesType
    <3>4. worker'.pc = "restart" => Restarting BY <2>1, <3>3 DEF Restarting
    <3>5. UNCHANGED Running BY <2>1 DEF Running
    <3> QED BY <2>1, <3>1, <3>2, <3>3, <3>4, <3>5
            DEF Brought, Applying, Published, Restarting, Altering
  <2> QED BY <2>3, <2>4
<1>11. CASE Boot \/ Retry
  <2>1. worker'.pc = "publish" /\ worker'.how = "none" /\ UNCHANGED <<row, other, applied, file, xray>>
        /\ applied < desired' /\ desired' # applied'
    BY <1>0, <1>11 DEF Boot, Retry, rows, Idle
  <2> QED BY <2>1 DEF Brought, Applying, Published, Restarting, Altering
<1> QED BY <1>2, <1>3, <1>4, <1>5, <1>7, <1>8, <1>9, <1>10, <1>11 DEF Proceed, Jobs, Retry

LEMMA OtherBrought ==
  ASSUME TypeOK, TypeOK', Brought, (Requests /\ ~Change /\ ~Restore) \/ Traffic \/ Faults \/ UNCHANGED vars
  PROVE  Brought'
<1>1. ASSUME UNCHANGED <<row, other, desired, applied, file>>, UNCHANGED <<xray.users, xray.other>>,
             xray'.up => xray.up,
             \/ worker' = worker
             \/ ~Applying' /\ worker'.pc \notin {"publish", "act", "record"}
      PROVE  Brought'
  <2>1. UNCHANGED Running /\ UNCHANGED Wanted /\ \A pc : worker' = worker => UNCHANGED Altering(pc)
    BY <1>1 DEF Running, Wanted, User, Altering
  <2>2. worker' = worker => UNCHANGED <<Before, Applying, Published>>
    BY <1>1, <2>1 DEF Before, Applying, Published, Restarting, User
  <2>3. CASE worker' = worker
    BY <1>1, <2>1, <2>2, <2>3 DEF Brought
  <2>4. CASE ~Applying' /\ worker'.pc \notin {"publish", "act", "record"}
    BY <1>1, <2>1, <2>4 DEF Brought, Applying, Published, Altering
  <2> QED BY <1>1, <2>3, <2>4
<1>2. CASE UNCHANGED vars
  BY <1>1, <1>2 DEF vars, rows
<1>3. CASE UpdateGeo \/ XrayStarts
  BY <1>3, StartBrought DEF UpdateGeo, XrayStarts, rows
<1>4. ASSUME NEW c \in Clients, NEW next \in {"cycle", "zero", "enable", "delete"}, StartCycle(c, next)
      PROVE  Brought'
  <2>1. worker'.pc = "sampled" /\ worker'.next = next BY <1>4, ReadType DEF StartCycle
  <2> QED BY <1>1, <1>4, <2>1 DEF StartCycle, Read, rows, Applying, Restarting
<1>5. ASSUME NEW c \in Clients, NEW n \in Names, Carry(c, n)
      PROVE  Brought'
  BY <1>1, <1>5 DEF Carry, rows
<1>6. CASE ApplyFails \/ WorkerDies \/ BootPreserving
  BY <1>1, <1>6 DEF ApplyFails, WorkerDies, BootPreserving, rows, Idle, Applying, Restarting
<1>7. CASE XrayStops
  BY <1>1, <1>7, TypeIs DEF XrayStops, Stops, rows, Xray
<1> QED BY <1>2, <1>3, <1>4, <1>5, <1>6, <1>7 DEF Requests, Traffic, Faults

LEMMA BroughtAlways == Spec => []Brought
<1>1. Init => Brought
  <2> SUFFICES ASSUME Init PROVE Brought
    OBVIOUS
  <2>1. Running = Wanted BY DEF Init, Running, Wanted
  <2> QED BY <2>1 DEF Init, Brought, Applying, Published, Restarting, Altering, Idle
<1>2. TypeOK /\ TypeOK' /\ Brought /\ [Next]_vars => Brought'
  BY ChangeBrought, WorkBrought, OtherBrought DEF Next, Requests
<1>3. TypeOK /\ InTime /\ [Next]_vars => TypeOK'
  BY TypeStep
<1> QED BY <1>1, <1>2, <1>3, Typing, PTL DEF Spec

(* A revision is recorded as applied only when Xray runs what the rows say, *)
(* and stays so until they are changed, whatever starts Xray again.         *)
THEOREM AppliedRuns == Spec => []AppliedIsRunning
<1>1. Brought => AppliedIsRunning BY DEF Brought, AppliedIsRunning
<1> QED BY <1>1, BroughtAlways, PTL
-----------------------------------------------------------------------------
(* The rows Xray's configuration is generated from: NodeConfig, for any     *)
(* tags, profiles, inbounds and users, and any number of changes.           *)

CONSTANTS Tags, MaxProfile, Inbounds, Home
VARIABLES outbound, pending, balancer, profile, inbound, uses, client, due, creating, adopted, changes

Config == INSTANCE NodeConfig WITH edits <- changes

BalancerRow == [state: {"absent", "off", "on"}, selector: SUBSET Tags,
   fallback: Config!Targets \cup {Config!None}]
ProfileRow == [state: {"absent", "off", "on"}, target: Config!Targets \cup {Config!None}]
ClientRow == [state: {"absent", "on"} \cup Config!Held, preferred: Config!Targets \cup {Config!None},
              left: {"enough", "no traffic", "no time"}]

LEMMA ConfigTypeIs ==
  Config!TypeOK <=> /\ outbound \in [Tags -> {"absent", "off", "on"}] /\ pending \subseteq Tags
                    /\ balancer \in [Tags -> BalancerRow] /\ profile \in [Config!Ids -> ProfileRow]
                    /\ inbound \subseteq Inbounds /\ uses \in [Inbounds -> 0..MaxProfile]
                    /\ client \in [Clients -> ClientRow] /\ due \in BOOLEAN
                    /\ creating \in ProfileRow
                    /\ adopted \subseteq Config!Ids /\ changes \in 0..MaxEdits
  BY DEF Config!TypeOK, BalancerRow, ProfileRow, ClientRow

LEMMA ConfigConstants ==
  /\ Config!NoBalancer \in BalancerRow /\ Config!NoProfile \in ProfileRow /\ Config!NoClient \in ClientRow
  /\ Config!Fresh \in ClientRow
  BY DEF Config!NoBalancer, BalancerRow, Config!NoProfile, ProfileRow, Config!NoClient, ClientRow,
     Config!Fresh

(* Where traffic may be sent depends on outbounds, quarantine and balancers. *)
LEMMA RoutableSame ==
  UNCHANGED <<outbound, pending, balancer>> => UNCHANGED Config!Routable
  BY DEF Config!Routable, Config!KnownOutbounds, Config!Quarantined, Config!Existing,
     Config!BlackholedBalancers, Config!UsableBalancers

LEMMA EditType ==
  ASSUME Config!TypeOK, Config!NodeConfigAssumption, Config!Edit
  PROVE  changes' \in 0..MaxEdits
  BY ConfigTypeIs DEF Config!Edit, Config!NodeConfigAssumption

(* The rows of users after a handler or a job.                              *)
LEMMA ClientTypes ==
  ASSUME Config!TypeOK, NEW c \in Clients
  PROVE  /\ client[c] \in ClientRow
         /\ Config!AfterReset(client[c]) \in ClientRow /\ Config!AfterReset(client[c]).preferred = client[c].preferred
         /\ Config!AfterLimits(client[c]) \in ClientRow /\ Config!AfterLimits(client[c]).preferred = client[c].preferred
<1>1. client[c] \in ClientRow BY ConfigTypeIs
<1> DEFINE left == IF due /\ client[c].left = "no traffic" THEN "enough" ELSE client[c].left
           state == IF due /\ client[c].state = "quota" /\ left = "enough" THEN "on" ELSE client[c].state
<1>2. left \in {"enough", "no traffic", "no time"} /\ state \in {"absent", "on"} \cup Config!Held
  BY <1>1 DEF ClientRow
<1>3. Config!AfterReset(client[c]) = [client[c] EXCEPT !.left = left, !.state = state]
  BY <1>1 DEF Config!AfterReset, ClientRow
<1> HIDE DEF left, state
<1>4. Config!AfterReset(client[c]) \in ClientRow /\ Config!AfterReset(client[c]).preferred = client[c].preferred
  BY <1>1, <1>2, <1>3 DEF ClientRow
<1>5. ASSUME NEW r \in ClientRow PROVE [r EXCEPT !.state = IF r.left = "no time" THEN "expiry" ELSE "quota"] \in ClientRow
  BY <1>5 DEF ClientRow, Config!Held
<1>6. Config!AfterLimits(client[c]) \in ClientRow /\ Config!AfterLimits(client[c]).preferred = client[c].preferred
  <2> DEFINE r == Config!AfterReset(client[c])
  <2>1. r \in ClientRow /\ r.preferred = client[c].preferred BY <1>4
  <2>2. Config!AfterLimits(client[c]) = IF r.state = "on" /\ r.left # "enough"
           THEN [r EXCEPT !.state = IF r.left = "no time" THEN "expiry" ELSE "quota"] ELSE r
    BY DEF Config!AfterLimits
  <2> HIDE DEF r
  <2> QED BY <1>5, <2>1, <2>2 DEF ClientRow
<1> QED BY <1>1, <1>4, <1>6

LEMMA OutboundSteps ==
  ASSUME Config!TypeOK, Config!NodeConfigAssumption, Config!EditOutbounds
  PROVE  Config!TypeOK' /\ Config!ConfigGenerates'
<1>1. PICK t \in Tags : \/ Config!DeleteOutbound(t)
                        \/ \E on \in BOOLEAN : Config!CreateOutbound(t,
                           on) \/ Config!UpdateOutbound(t, on)
  BY DEF Config!EditOutbounds
<1>2. Config!Commit BY <1>1 DEF Config!DeleteOutbound, Config!CreateOutbound, Config!UpdateOutbound
<1>3. changes' \in 0..MaxEdits BY <1>2, EditType DEF Config!Commit, Config!Prepared
<1>4. outbound' \in [Tags -> {"absent", "off", "on"}] /\ pending' \subseteq Tags
      /\ UNCHANGED <<balancer, profile, inbound, uses>>
  BY <1>1, ConfigTypeIs DEF Config!DeleteOutbound, Config!CreateOutbound, Config!UpdateOutbound
<1>5. client' \in [Clients -> ClientRow]
  <2>1. \A c \in Clients : [client[c] EXCEPT !.preferred = Config!None] \in ClientRow
    BY ConfigTypeIs DEF ClientRow
  <2> QED BY <1>1, <2>1, ConfigTypeIs DEF Config!DeleteOutbound, Config!CreateOutbound,
         Config!UpdateOutbound, Config!ForgetPreferred
<1>6. Config!TypeOK'
  BY <1>2, <1>3, <1>4, <1>5, ConfigTypeIs DEF Config!Commit, Config!Prepared, Config!TypeOK,
     BalancerRow, ProfileRow, ClientRow
<1>7. Config!Generates' BY <1>2 DEF Config!Commit, Config!Prepared
<1>8. Config!ConfigGenerates' BY <1>7 DEF Config!Generates, Config!GeneratesFor, Config!ConfigGenerates
<1> QED BY <1>6, <1>8

LEMMA BalancerSteps ==
  ASSUME Config!TypeOK, Config!NodeConfigAssumption, Config!EditBalancers
  PROVE  Config!TypeOK' /\ Config!ConfigGenerates'
<1>1. PICK t \in Tags : \/ Config!DeleteBalancer(t)
                        \/ \E s \in SUBSET Tags, f \in Config!Targets \cup {Config!None} :
                             \/ Config!CreateBalancer(t, s, f)
                             \/ \E state \in {"off", "on"} : Config!UpdateBalancer(t, state, s, f)
  BY DEF Config!EditBalancers
<1>2. Config!Commit BY <1>1 DEF Config!DeleteBalancer, Config!CreateBalancer, Config!UpdateBalancer
<1>3. changes' \in 0..MaxEdits BY <1>2, EditType DEF Config!Commit, Config!Prepared
<1>4. UNCHANGED <<outbound, pending, profile, inbound, uses>>
  BY <1>1 DEF Config!DeleteBalancer, Config!CreateBalancer, Config!UpdateBalancer
<1>5. balancer' \in [Tags -> BalancerRow]
  <2>1. \A s \in SUBSET Tags, f \in Config!Targets \cup {Config!None}, state \in {"off", "on"} :
          [state |-> state, selector |-> s, fallback |-> f] \in BalancerRow
    BY DEF BalancerRow
  <2>2. \E entry \in BalancerRow : balancer' = [balancer EXCEPT ![t] = entry]
    BY <1>1, <2>1, ConfigConstants DEF Config!DeleteBalancer, Config!CreateBalancer,
       Config!UpdateBalancer
  <2> QED BY <2>2, ConfigTypeIs
<1>6. client' \in [Clients -> ClientRow]
  <2>1. \A c \in Clients : [client[c] EXCEPT !.preferred = Config!None] \in ClientRow
    BY ConfigTypeIs DEF ClientRow
  <2> QED BY <1>1, <2>1, ConfigTypeIs DEF Config!DeleteBalancer, Config!CreateBalancer,
         Config!UpdateBalancer, Config!ForgetPreferred
<1>7. Config!TypeOK'
  BY <1>2, <1>3, <1>4, <1>5, <1>6, ConfigTypeIs DEF Config!Commit, Config!Prepared, Config!TypeOK,
     BalancerRow, ProfileRow, ClientRow
<1>8. Config!Generates' BY <1>2 DEF Config!Commit, Config!Prepared
<1>9. Config!ConfigGenerates' BY <1>8 DEF Config!Generates, Config!GeneratesFor, Config!ConfigGenerates
<1> QED BY <1>7, <1>9

LEMMA ProfileSteps ==
  ASSUME Config!TypeOK, Config!ConfigGenerates, Config!NodeConfigAssumption, Config!EditProfiles
  PROVE  Config!TypeOK' /\ Config!ConfigGenerates'
<1>1. CASE Config!StoreProfile
  <2>1. PICK id \in Config!Ids :
          /\ creating.state # "absent"
          /\ profile' = [profile EXCEPT ![id] = [state |-> creating.state, target |-> creating.target]]
          /\ adopted' = IF \E i \in inbound : uses[i] = id THEN adopted \cup {id} ELSE adopted
    BY <1>1 DEF Config!StoreProfile
  <2>2. /\ UNCHANGED <<outbound, pending, balancer, inbound, uses, client, due>>
        /\ creating' = Config!NoProfile /\ changes' \in 0..MaxEdits
    BY <1>1, EditType DEF Config!StoreProfile
  <2>3. profile' \in [Config!Ids -> ProfileRow] /\ adopted' \subseteq Config!Ids
    <3>1. [state |-> creating.state, target |-> creating.target] \in ProfileRow
      BY ConfigTypeIs DEF ProfileRow
    <3> QED BY <2>1, <3>1, ConfigTypeIs
  <2>4. Config!TypeOK'
    BY <2>2, <2>3, ConfigConstants, ConfigTypeIs DEF Config!TypeOK, BalancerRow, ProfileRow, ClientRow
  <2>5. UNCHANGED Config!Routable
    BY <2>2, RoutableSame
  <2>6. ASSUME NEW i \in Inbounds, uses'[i] \notin adopted' PROVE Config!ProfileRoutes(i)'
    <3>1. uses[i] \notin adopted BY <2>1, <2>2, <2>6
    <3>2. Config!ProfileRoutes(i) BY <3>1 DEF Config!ConfigGenerates
    <3>3. i \in inbound => uses[i] # id BY <2>1, <2>2, <2>6
    <3>4. i \in inbound /\ uses[i] \in Config!Ids => profile'[uses[i]] = profile[uses[i]]
      BY <2>1, <3>3, ConfigTypeIs
    <3> QED BY <2>2, <2>5, <3>2, <3>4 DEF Config!ProfileRoutes
  <2>7. \A c \in Clients : Config!UserRoutes(client[c])'
    BY <2>2, <2>5 DEF Config!ConfigGenerates, Config!UserRoutes
  <2> QED BY <2>2, <2>4, <2>6, <2>7 DEF Config!ConfigGenerates
<1>2. ASSUME NEW state \in {"off", "on"}, NEW target \in Config!Targets \cup {Config!None},
            Config!FindTarget(target, state)
      PROVE  Config!TypeOK' /\ Config!ConfigGenerates'
  <2>1. UNCHANGED <<Config!rows, due, adopted, changes>> /\ creating' \in ProfileRow
    BY <1>2 DEF Config!FindTarget, ProfileRow
  <2>2. Config!TypeOK'
    BY <2>1, ConfigTypeIs DEF Config!rows, Config!TypeOK, BalancerRow, ProfileRow, ClientRow
  <2>3. Config!ConfigGenerates'
    BY <2>1, RoutableSame DEF Config!rows, Config!ConfigGenerates, Config!ProfileRoutes,
       Config!UserRoutes
  <2> QED BY <2>2, <2>3
<1>3. ASSUME NEW p \in Config!Ids,
             \/ Config!DeleteProfile(p)
             \/ \E state \in {"off", "on"},
                target \in Config!Targets \cup {Config!None} : Config!UpdateProfile(p, state, target)
      PROVE  Config!TypeOK' /\ Config!ConfigGenerates'
  <2>1. Config!Prepared /\ UNCHANGED <<outbound, pending, balancer, inbound,
         client>> /\ adopted' \subseteq Config!Ids
    BY <1>3, ConfigTypeIs DEF Config!DeleteProfile, Config!UpdateProfile
  <2>2. changes' \in 0..MaxEdits BY <2>1, EditType DEF Config!Prepared
  <2>3. profile' \in [Config!Ids -> ProfileRow]
    <3>1. \A state \in {"off", "on"}, target \in Config!Targets \cup {Config!None} : [state |-> state, target |-> target] \in ProfileRow
      BY DEF ProfileRow
    <3> QED BY <1>3, <3>1, ConfigConstants, ConfigTypeIs DEF Config!DeleteProfile, Config!UpdateProfile
  <2>4. uses' \in [Inbounds -> 0..MaxProfile]
    <3>1. 0 \in 0..MaxProfile BY DEF Config!NodeConfigAssumption
    <3> QED BY <1>3, <3>1, ConfigTypeIs DEF Config!DeleteProfile, Config!UpdateProfile
  <2>5. Config!TypeOK'
    BY <2>1, <2>2, <2>3, <2>4, ConfigTypeIs DEF Config!Prepared, Config!TypeOK, BalancerRow,
       ProfileRow, ClientRow
  <2>6. Config!Generates' BY <2>1 DEF Config!Prepared
  <2>7. Config!ConfigGenerates'
    BY <2>6 DEF Config!Generates, Config!GeneratesFor, Config!ConfigGenerates
  <2> QED BY <2>5, <2>7
<1> QED BY <1>1, <1>2, <1>3 DEF Config!EditProfiles

LEMMA InboundSteps ==
  ASSUME Config!TypeOK, Config!NodeConfigAssumption, Config!EditInbounds
  PROVE  Config!TypeOK' /\ Config!ConfigGenerates'
<1>1. PICK i \in Inbounds : \/ Config!DeleteInbound(i)
                            \/ \E p \in 0..MaxProfile :
                                 \/ Config!CreateInbound(i, p)
                                 \/ \E drop \in BOOLEAN : Config!UpdateInbound(i, p, drop)
  BY DEF Config!EditInbounds
<1>2. Config!Commit /\ UNCHANGED <<outbound, pending, balancer, profile>>
  BY <1>1 DEF Config!DeleteInbound, Config!CreateInbound, Config!UpdateInbound
<1>3. changes' \in 0..MaxEdits BY <1>2, EditType DEF Config!Commit, Config!Prepared
<1>4. inbound' \subseteq Inbounds
  BY <1>1, ConfigTypeIs DEF Config!DeleteInbound, Config!CreateInbound, Config!UpdateInbound
<1>5. uses' \in [Inbounds -> 0..MaxProfile]
  <2>1. 0 \in 0..MaxProfile BY DEF Config!NodeConfigAssumption
  <2> QED BY <1>1, <2>1, ConfigTypeIs DEF Config!DeleteInbound, Config!CreateInbound,
         Config!UpdateInbound
<1>6. client' \in [Clients -> ClientRow]
  <2>1. Config!DropUsers(i) => client' \in [Clients -> ClientRow]
    BY ConfigConstants, ConfigTypeIs DEF Config!DropUsers
  <2> QED BY <1>1, <2>1, ConfigTypeIs DEF Config!DeleteInbound, Config!CreateInbound,
         Config!UpdateInbound
<1>7. Config!TypeOK'
  BY <1>2, <1>3, <1>4, <1>5, <1>6, ConfigTypeIs DEF Config!Commit, Config!Prepared, Config!TypeOK,
     BalancerRow, ProfileRow, ClientRow
<1>8. Config!Generates' BY <1>2 DEF Config!Commit, Config!Prepared
<1>9. Config!ConfigGenerates' BY <1>8 DEF Config!Generates, Config!GeneratesFor, Config!ConfigGenerates
<1> QED BY <1>7, <1>9

(* One user, by an admin or not.                                            *)
LEMMA UserStep ==
  ASSUME Config!TypeOK, Config!ConfigGenerates, Config!NodeConfigAssumption, NEW c \in Clients,
         NEW entry \in ClientRow, Config!SetClient(c, entry),
         Config!Generates' \/ (entry.preferred = client[c].preferred /\ entry.state = client[c].state),
         UNCHANGED <<due, creating, adopted>>, changes' \in 0..MaxEdits
  PROVE  Config!TypeOK' /\ Config!ConfigGenerates'
<1>1. client' = [client EXCEPT ![c] = entry] /\ UNCHANGED <<outbound, pending, balancer, profile,
       inbound, uses>>
  BY DEF Config!SetClient
<1>2. client' \in [Clients -> ClientRow] BY <1>1, ConfigTypeIs
<1>3. Config!TypeOK'
  BY <1>1, <1>2, ConfigTypeIs DEF Config!TypeOK, BalancerRow, ProfileRow, ClientRow
<1>4. CASE Config!Generates'
  BY <1>3, <1>4 DEF Config!Generates, Config!GeneratesFor, Config!ConfigGenerates
<1>5. CASE entry.preferred = client[c].preferred /\ entry.state = client[c].state
  <2>1. \A d \in Clients : client'[d].preferred = client[d].preferred /\ client'[d].state = client[d].state
    BY <1>1, <1>5, ConfigTypeIs
  <2>2. UNCHANGED Config!Routable
    BY <1>1, RoutableSame
  <2>3. \A d \in Clients : Config!UserRoutes(client[d]) BY DEF Config!ConfigGenerates
  <2>4. \A d \in Clients : Config!UserRoutes(client[d])' BY <2>1, <2>2, <2>3 DEF Config!UserRoutes
  <2>5. \A i \in Inbounds : uses[i] \notin adopted => Config!ProfileRoutes(i)
    BY DEF Config!ConfigGenerates
  <2>6. \A i \in Inbounds : Config!ProfileRoutes(i) => Config!ProfileRoutes(i)'
    BY <1>1, <2>2 DEF Config!ProfileRoutes
  <2> QED BY <1>1, <1>3, <2>4, <2>5, <2>6 DEF Config!ConfigGenerates
<1> QED BY <1>4, <1>5

LEMMA UserSteps ==
  ASSUME Config!TypeOK, Config!ConfigGenerates, Config!NodeConfigAssumption, Config!EditUsers
  PROVE  Config!TypeOK' /\ Config!ConfigGenerates'
<1>0. PICK c \in Clients : \/ Config!DeleteUser(c)
                           \/ \E state \in {"on", "manual"} : Config!AddUser(c,
                              state) \/ Config!SwitchUser(c, state)
                           \/ \E yes \in BOOLEAN : Config!AdjustUser(c, yes) \/ Config!ResetUser(c, yes)
                           \/ \E tag \in Config!Targets \cup {Config!None} : Config!SetUserRouting(c,
                              tag)
  BY DEF Config!EditUsers
<1>1. client[c] \in ClientRow BY ConfigTypeIs
<1>2. ASSUME NEW entry \in ClientRow, Config!SetClient(c, entry), Config!Commit
      PROVE  Config!TypeOK' /\ Config!ConfigGenerates'
  <2>1. Config!Generates' /\ UNCHANGED <<due, creating, adopted>> /\ changes' \in 0..MaxEdits
    BY <1>2, EditType DEF Config!Commit, Config!Prepared
  <2> QED BY <1>2, <2>1, UserStep
<1>3. CASE Config!DeleteUser(c)
  BY <1>2, <1>3, ConfigConstants DEF Config!DeleteUser
<1>4. ASSUME NEW state \in {"on", "manual"}, Config!AddUser(c, state)
      PROVE  Config!TypeOK' /\ Config!ConfigGenerates'
  <2>1. [Config!Fresh EXCEPT !.state = state] \in ClientRow
    BY ConfigConstants DEF ClientRow, Config!Held
  <2> QED BY <1>2, <1>4, <2>1 DEF Config!AddUser
<1>5. ASSUME NEW state \in {"on", "manual"}, Config!SwitchUser(c, state)
      PROVE  Config!TypeOK' /\ Config!ConfigGenerates'
  <2>1. [client[c] EXCEPT !.state = state] \in ClientRow BY <1>1 DEF ClientRow, Config!Held
  <2> QED BY <1>2, <1>5, <2>1 DEF Config!SwitchUser
<1>6. ASSUME NEW yes \in BOOLEAN, Config!AdjustUser(c, yes)
      PROVE  Config!TypeOK' /\ Config!ConfigGenerates'
  <2>1. [client[c] EXCEPT !.left = "enough",
         !.state = IF @ # "on" /\ yes THEN "manual" ELSE @] \in ClientRow
    BY <1>1 DEF ClientRow, Config!Held
  <2> QED BY <1>2, <1>6, <2>1 DEF Config!AdjustUser
<1>7. ASSUME NEW yes \in BOOLEAN, Config!ResetUser(c, yes)
      PROVE  Config!TypeOK' /\ Config!ConfigGenerates'
  <2> DEFINE left == IF client[c].left = "no traffic" THEN "enough" ELSE client[c].left
             back == yes /\ client[c].state \in Config!Held \ {"manual"} /\ left = "enough"
             entry == [client[c] EXCEPT !.left = left, !.state = IF back THEN "on" ELSE @]
  <2>1. Config!SetClient(c, entry) /\ (back => Config!Generates') /\ Config!Edit /\ UNCHANGED <<due,
         creating, adopted>>
    BY <1>7 DEF Config!ResetUser
  <2>2. left \in {"enough", "no traffic", "no time"} BY <1>1 DEF ClientRow
  <2>3. entry \in ClientRow /\ (~back => entry.preferred = client[c].preferred /\ entry.state = client[c].state)
    <3> HIDE DEF left, back
    <3> QED BY <1>1, <2>2 DEF ClientRow
  <2>4. changes' \in 0..MaxEdits BY <2>1, EditType
  <2> HIDE DEF left, back, entry
  <2> QED BY <2>1, <2>3, <2>4, UserStep
<1>8. ASSUME NEW tag \in Config!Targets \cup {Config!None}, Config!SetUserRouting(c, tag)
      PROVE  Config!TypeOK' /\ Config!ConfigGenerates'
  <2>1. [client[c] EXCEPT !.preferred = tag] \in ClientRow BY <1>1 DEF ClientRow
  <2> QED BY <1>2, <1>8, <2>1 DEF Config!SetUserRouting
<1> QED BY <1>0, <1>3, <1>4, <1>5, <1>6, <1>7, <1>8

(* A transfer takes addresses away from rows; no route is lost by it.       *)
LEMMA TransferStep ==
  ASSUME Config!TypeOK, Config!ConfigGenerates, Config!NodeConfigAssumption,
         NEW dedicated \in SUBSET Tags, Config!Transfer(dedicated)
  PROVE  Config!TypeOK' /\ Config!ConfigGenerates'
<1>1. /\ outbound' = [t \in Tags |-> IF t \in dedicated THEN "off" ELSE outbound[t]]
      /\ pending' = pending \cup dedicated /\ creating' = Config!NoProfile /\ changes' \in 0..MaxEdits
      /\ UNCHANGED <<balancer, profile, inbound, uses, client, due, adopted>>
      /\ \A t \in dedicated : outbound[t] # "absent"
  BY EditType DEF Config!Transfer
<1>2. outbound' \in [Tags -> {"absent", "off", "on"}] /\ pending' \subseteq Tags
  BY <1>1, ConfigTypeIs
<1>3. Config!TypeOK'
  BY <1>1, <1>2, ConfigConstants, ConfigTypeIs DEF Config!TypeOK, BalancerRow, ProfileRow, ClientRow
<1>4. \A t \in Tags : outbound'[t] = "absent" <=> outbound[t] = "absent"
  BY <1>1
<1>5. Config!Existing' = Config!Existing BY <1>4 DEF Config!Existing
<1>6. Config!Quarantined \subseteq Config!Quarantined' BY <1>1, <1>5 DEF Config!Quarantined
<1>7. Config!KnownOutbounds \subseteq Config!KnownOutbounds'
  <2>1. \A t \in Tags : outbound[t] = "on" => outbound'[t] = "on" \/ t \in dedicated BY <1>1
  <2>2. dedicated \subseteq Config!Quarantined' BY <1>1, <1>4 DEF Config!Quarantined, Config!Existing
  <2> QED BY <1>6, <2>1, <2>2 DEF Config!KnownOutbounds
<1>8. Config!BlackholedBalancers \subseteq Config!BlackholedBalancers'
  BY <1>1, <1>6 DEF Config!BlackholedBalancers
<1>9. Config!UsableBalancers \subseteq Config!UsableBalancers' BY <1>1, <1>7 DEF Config!UsableBalancers
<1>10. Config!Routable \subseteq Config!Routable' BY <1>7, <1>8, <1>9 DEF Config!Routable
<1>11. \A i \in Inbounds : Config!ProfileRoutes(i) => Config!ProfileRoutes(i)'
  BY <1>1, <1>10 DEF Config!ProfileRoutes
<1>12. \A c \in Clients : Config!UserRoutes(client[c]) => Config!UserRoutes(client[c])'
  BY <1>1, <1>10 DEF Config!UserRoutes
<1>13. Config!ConfigGenerates' BY <1>1, <1>4, <1>11, <1>12 DEF Config!ConfigGenerates
<1> QED BY <1>3, <1>13

LEMMA BackgroundSteps ==
  ASSUME Config!TypeOK, Config!ConfigGenerates, Config!NodeConfigAssumption, Config!Background
  PROVE  Config!TypeOK' /\ Config!ConfigGenerates'
<1>0. changes \in 0..MaxEdits BY ConfigTypeIs
<1>1. ASSUME NEW c \in Clients, Config!Provision(c)
      PROVE  Config!TypeOK' /\ Config!ConfigGenerates'
  <2> DEFINE entry == [client[c] EXCEPT !.left = "enough", !.state = IF @ = "manual" THEN @ ELSE "on"]
  <2>1. entry \in ClientRow BY ConfigTypeIs DEF ClientRow
  <2>2. Config!SetClient(c, entry) /\ Config!Generates' /\ UNCHANGED <<due, creating, adopted,
         changes>> BY <1>1 DEF Config!Provision
  <2> HIDE DEF entry
  <2> QED BY <1>0, <2>1, <2>2, UserStep
<1>2. ASSUME NEW c \in Clients, NEW what \in {"no traffic", "no time"}, Config!RunsOut(c, what)
      PROVE  Config!TypeOK' /\ Config!ConfigGenerates'
  <2> DEFINE entry == [client[c] EXCEPT !.left = what]
  <2>1. entry \in ClientRow /\ entry.preferred = client[c].preferred /\ entry.state = client[c].state
    BY ConfigTypeIs DEF ClientRow
  <2>2. Config!SetClient(c, entry) /\ UNCHANGED <<due, creating, adopted, changes>>
    BY <1>2 DEF Config!RunsOut
  <2> HIDE DEF entry
  <2> QED BY <1>0, <2>1, <2>2, UserStep
<1>3. CASE Config!MonthPasses
  <2>1. UNCHANGED <<Config!rows, creating, adopted, changes>> /\ due' \in BOOLEAN
    BY <1>3 DEF Config!MonthPasses
  <2>2. Config!TypeOK'
    BY <2>1, ConfigTypeIs DEF Config!rows, Config!TypeOK, BalancerRow, ProfileRow, ClientRow
  <2>3. Config!ConfigGenerates'
    BY <2>1, RoutableSame DEF Config!rows, Config!ConfigGenerates, Config!ProfileRoutes,
       Config!UserRoutes
  <2> QED BY <2>2, <2>3
<1>4. CASE Config!LimitsPass
  <2> DEFINE users == [c \in Clients |-> Config!AfterLimits(client[c])]
             changed == \E c \in Clients : (client[c].state = "on") # (users[c].state = "on")
  <2>1. /\ \/ (changed => Config!GeneratesFor(users)) /\ client' = users /\ due' = FALSE
           \/ UNCHANGED <<client, due>>
        /\ UNCHANGED <<outbound, pending, balancer, profile, inbound, uses, creating, adopted, changes>>
    BY <1>4 DEF Config!LimitsPass
  <2>2. users \in [Clients -> ClientRow] /\ \A c \in Clients : users[c].preferred = client[c].preferred
    BY ClientTypes
  <2>3. Config!TypeOK'
    <3>1. client' \in [Clients -> ClientRow] /\ due' \in BOOLEAN BY <2>1, <2>2, ConfigTypeIs
    <3> HIDE DEF users, changed
    <3> QED BY <2>1, <3>1, ConfigTypeIs DEF Config!TypeOK, BalancerRow, ProfileRow, ClientRow
  <2>4. UNCHANGED Config!Routable
    BY <2>1, RoutableSame
  <2>5. Config!ConfigGenerates /\ \A i \in Inbounds : Config!ProfileRoutes(i) => Config!ProfileRoutes(i)'
    BY <2>1, <2>4 DEF Config!ProfileRoutes
  <2>6. \A c \in Clients : Config!UserRoutes(client[c]) BY DEF Config!ConfigGenerates
  <2>7. \A c \in Clients : Config!UserRoutes(client'[c])
    <3>1. CASE client' = client
      BY <2>6, <3>1
    <3>2. CASE client' = users /\ changed /\ Config!GeneratesFor(users)
      BY <3>2 DEF Config!GeneratesFor
    <3>3. CASE client' = users /\ ~changed
      <4>1. \A c \in Clients : (users[c].state = "on") <=> (client[c].state = "on") BY <3>3
      <4> HIDE DEF users, changed
      <4> QED BY <2>2, <2>6, <3>3, <4>1 DEF Config!UserRoutes
    <3> QED BY <2>1, <3>1, <3>2, <3>3
  <2>8. \A c \in Clients : Config!UserRoutes(client[c])' BY <2>4, <2>7 DEF Config!UserRoutes
  <2> HIDE DEF users, changed
  <2> QED BY <2>1, <2>3, <2>5, <2>8 DEF Config!ConfigGenerates
<1> QED BY <1>1, <1>2, <1>3, <1>4, TransferStep DEF Config!Background

LEMMA ConfigInvariant ==
  ASSUME Config!NodeConfigAssumption
  PROVE  Config!Spec => [](Config!TypeOK /\ Config!ConfigGenerates)
<1>1. Config!Init => Config!TypeOK /\ Config!ConfigGenerates
  <2> SUFFICES ASSUME Config!Init PROVE Config!TypeOK /\ Config!ConfigGenerates
    OBVIOUS
  <2>1. 0 \in 0..MaxProfile /\ 0 \in 0..MaxEdits BY DEF Config!NodeConfigAssumption
  <2>2. Config!TypeOK BY <2>1, ConfigConstants, ConfigTypeIs DEF Config!Init
  <2>3. \A t \in Tags : balancer[t].state = "absent" BY DEF Config!Init, Config!NoBalancer
  <2>4. \A p \in Config!Ids : profile[p].state = "absent" BY DEF Config!Init, Config!NoProfile
  <2>5. \A c \in Clients : client[c].preferred = Config!None BY DEF Config!Init, Config!Fresh
  <2> QED BY <2>2, <2>3, <2>4, <2>5 DEF Config!ConfigGenerates, Config!ProfileRoutes, Config!UserRoutes
<1>2. ASSUME Config!TypeOK, Config!ConfigGenerates, [Config!Next]_Config!vars
      PROVE  (Config!TypeOK /\ Config!ConfigGenerates)'
  <2>1. CASE UNCHANGED Config!vars
    <3>1. UNCHANGED <<outbound, pending, balancer, profile, inbound, uses, client, due, creating,
           adopted, changes>>
      BY <2>1 DEF Config!vars, Config!rows
    <3>2. Config!TypeOK'
      BY <1>2, <3>1, ConfigTypeIs DEF Config!TypeOK, BalancerRow, ProfileRow, ClientRow
    <3>3. UNCHANGED Config!Routable
      BY <3>1, RoutableSame
    <3>4. Config!ConfigGenerates'
      BY <1>2, <3>1, <3>3 DEF Config!ConfigGenerates, Config!ProfileRoutes, Config!UserRoutes
    <3> QED BY <3>2, <3>4
  <2>2. CASE Config!Next
    BY <1>2, <2>2, OutboundSteps, BalancerSteps, ProfileSteps, InboundSteps, UserSteps,
       BackgroundSteps DEF Config!Next
  <2> QED BY <1>2, <2>1, <2>2
<1> QED BY <1>1, <1>2, PTL DEF Config!Spec

(* Outbounds, balancers, profiles, inbounds and users are well typed.       *)
THEOREM ConfigTypeCorrect ==
  ASSUME Config!NodeConfigAssumption
  PROVE  Config!Spec => []Config!TypeOK
<1> QED BY ConfigInvariant, PTL

(* Whatever handlers, the limits job, purchases and transfers do to the     *)
(* rows, in any order, Xray's configuration can be generated from them.     *)
THEOREM RowsGenerate ==
  ASSUME Config!NodeConfigAssumption
  PROVE  Config!Spec => []Config!ConfigGenerates
<1> QED BY ConfigInvariant, PTL
=============================================================================
