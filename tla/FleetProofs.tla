---------------------------- MODULE FleetProofs ----------------------------
(***************************************************************************)
(* The safety of Fleet, for any numbers of machines, polls, keys and       *)
(* changes: its types, that the mirror only goes forward, that a key gives *)
(* one state to one machine and, as long as the machines are Steady, that  *)
(* the parts of the mirror belong together.                                *)
(***************************************************************************)
EXTENDS Fleet, TLAPS

-----------------------------------------------------------------------------
(* Types.                                                                   *)

Mirror == [inst: Hosts \cup {Nobody}, hot: 0..MaxEdits, hotAt: Times,
           cold: Colds \cup {NoCold}, coldAt: Times]
Shown == [status: {"none", "online", "offline"}, inst: Hosts \cup {Nobody}]
Host == [state: States, link: Links, issued: 0..MaxLinks, open: BOOLEAN,
         muted: BOOLEAN, key: 0..MaxKeys, reply: States \cup {NoState},
         claim: {"none", "ask", "replied", "applied", "linked", "claimed"}]
Check == [link: Links, verdict: {"current", "superseded", "unknown"}]
PollRow == [pc: {"idle", "ask", "prepare", "record", "refreshed"},
            kind: {"poll", "refresh"}, link: Links, data: Data,
            part: {Nothing, "hot", "full"}, older: SUBSET Polls,
            late: BOOLEAN, hidden: BOOLEAN]

LEMMA TypeIs ==
  TypeOK <=> /\ panel \in Panel /\ mirror \in Mirror /\ shown \in Shown
             /\ host \in [Hosts -> Host] /\ check \in [Hosts -> Check] /\ address \in Hosts
             /\ poll \in [Polls -> PollRow] /\ relink \in Links
             /\ truth \in [0..MaxEdits -> Colds]
             /\ clock \in Nat /\ acts \in 0..MaxActs /\ faults \in 0..MaxFaults
  BY DEF TypeOK, Mirror, Shown, Host, Check, PollRow, Times

(* An answer names the machine that gave it; a mirror of nobody is empty;  *)
(* a key that is used has a state to give, and a claim that was answered   *)
(* has it.                                                                  *)
PollKnows ==
  \A p \in Polls : poll[p].pc = "prepare" \/ poll[p].part # Nothing => poll[p].data.inst \in Hosts
MirrorEmpty == mirror.inst = Nobody => mirror.hotAt = 0 /\ mirror.coldAt = 0
ReplyKnown == \A h \in Hosts : host[h].claim = "replied" => host[h].reply \in States
FrozenKnown == panel.used /\ panel.key # 0 => panel.frozen \in States
Known == PollKnows /\ MirrorEmpty /\ ReplyKnown /\ FrozenKnown

(* Keys are numbered in the order they are issued. Of the machines that    *)
(* have the key in force one at most was answered, with what is frozen.    *)
KeysIssued ==
  /\ panel.key <= panel.keys
  /\ \A h \in Hosts : /\ host[h].key <= panel.keys
                      /\ host[h].key = 0 => host[h].reply = NoState
OneAnswered ==
  \A h \in Hosts :
    host[h].reply # NoState /\ panel.key # 0 /\ host[h].key = panel.key =>
      panel.used /\ panel.claimedBy = h /\ panel.frozen = host[h].reply

FleetInv == TypeOK /\ Known /\ KeysIssued /\ OneAnswered

LEMMA Constants ==
  /\ NoLink \in Links /\ NoState \notin States /\ NoData \in Data /\ NoMirror \in Mirror
  /\ NotShown \in Shown /\ NoCheck \in Check /\ NoPoll \in PollRow
  /\ \A h \in Hosts : \A n \in 0..MaxLinks : <<h, n>> \in Links
  /\ \A h \in Hosts : <<h, 0>> \in Links
<1>1. NoLink \in Links /\ NotShown \in Shown /\ NoCheck \in Check
      /\ \A h \in Hosts : \A n \in 0..MaxLinks : <<h, n>> \in Links
  BY DEF Links, NotShown, Shown, NoCheck, Check
<1>2. 0 \in 0..MaxLinks BY FleetAssumption
<1>3. NoState \notin States BY FleetAssumption DEF NoState, States, NoCold, Colds
<1>4. NoData \in Data BY FleetAssumption DEF NoData, Data, Colds, Times
<1>5. NoMirror \in Mirror BY FleetAssumption DEF NoMirror, Mirror, Times
<1>6. NoPoll \in PollRow BY <1>1, <1>4 DEF NoPoll, PollRow
<1> QED BY <1>1, <1>2, <1>3, <1>4, <1>5, <1>6

LEMMA Bounds ==
  ASSUME TypeOK
  PROVE  /\ Act => acts' \in 0..MaxActs
         /\ Fault => faults' \in 0..MaxFaults
  BY FleetAssumption, TypeIs DEF Act, Fault

(* What an answer brings.                                                   *)
LEMMA SnapshotType ==
  ASSUME TypeOK
  PROVE  Snapshot \in Data /\ Snapshot.inst = address /\ address \in Hosts
         /\ Snapshot.at = clock
<1>1. host[address].state \in States BY TypeIs DEF Host
<1> QED BY <1>1, TypeIs DEF Snapshot, Data, States, Times

LEMMA MirroredType ==
  ASSUME TypeOK, Known, NEW p \in Polls
  PROVE  /\ Mirrored(p) \in Mirror
         /\ Mirrored(p) # mirror => /\ Mirrored(p).inst = poll[p].data.inst /\ poll[p].data.inst \in Hosts
                                    /\ Mirrored(p).inst = mirror.inst =>
                                          /\ Mirrored(p).hotAt >= mirror.hotAt
                                          /\ Mirrored(p).coldAt >= mirror.coldAt
<1> DEFINE d == poll[p].data
<1>1. mirror \in Mirror /\ d \in Data /\ poll[p].part \in {Nothing, "hot", "full"} /\ NoMirror \in Mirror
  BY TypeIs, Constants DEF PollRow
<1> HIDE DEF d
<1>2. poll[p].part # Nothing => d.inst \in Hosts BY DEF Known, PollKnows, d
<1>3. /\ Hot(d) \in Mirror
      /\ ~Older(d) => /\ Hot(d).inst = d.inst /\ Hot(d).hotAt = d.at
                      /\ d.inst = mirror.inst => Hot(d).coldAt = mirror.coldAt /\ d.at >= mirror.hotAt
  <2>1. CASE Older(d)
    BY <1>1, <2>1 DEF Hot
  <2>2. CASE ~Older(d)
    <3> DEFINE kept == IF mirror.inst = d.inst THEN mirror ELSE NoMirror
    <3>1. kept \in Mirror BY <1>1
    <3>2. Hot(d) = [kept EXCEPT !.inst = d.inst, !.hot = d.hot, !.hotAt = d.at] BY <2>2 DEF Hot
    <3>3. d.at \in Nat /\ mirror.hotAt \in Nat BY <1>1 DEF Data, Mirror, Times
    <3>4. d.inst = mirror.inst => d.at >= mirror.hotAt BY <2>2, <3>3 DEF Older
    <3>5. Hot(d) \in Mirror /\ Hot(d).inst = d.inst /\ Hot(d).hotAt = d.at /\ Hot(d).coldAt = kept.coldAt
      <4> HIDE DEF kept
      <4> QED BY <1>1, <3>1, <3>2 DEF Mirror, Data
    <3> QED BY <2>2, <3>4, <3>5
  <2> QED BY <2>1, <2>2
<1>4. /\ Full(d) \in Mirror
      /\ Full(d) # mirror => /\ Full(d).inst = d.inst
                             /\ d.inst = mirror.inst => Full(d).hotAt >= mirror.hotAt /\ Full(d).coldAt >= mirror.coldAt
  <2>1. CASE OlderFull(d)
    BY <1>1, <2>1 DEF Full
  <2>2. CASE ~OlderFull(d)
    <3>1. Full(d) = [Hot(d) EXCEPT !.cold = d.cold, !.coldAt = d.at] BY <2>2 DEF Full
    <3>2. ~Older(d) BY <2>2 DEF Older, OlderFull
    <3>3. d.at \in Nat /\ mirror.hotAt \in Nat /\ mirror.coldAt \in Nat BY <1>1 DEF Data, Mirror, Times
    <3>4. d.inst = mirror.inst => d.at >= mirror.coldAt BY <2>2, <3>3 DEF OlderFull
    <3>5. Full(d) \in Mirror /\ Full(d).inst = Hot(d).inst /\ Full(d).hotAt = Hot(d).hotAt /\ Full(d).coldAt = d.at
      BY <1>1, <1>3, <3>1 DEF Mirror, Data
    <3> QED BY <1>3, <3>2, <3>3, <3>4, <3>5
  <2> QED BY <2>1, <2>2
<1>5. CASE poll[p].part = Nothing
  BY <1>1, <1>5 DEF Mirrored, Nothing
<1>6. CASE poll[p].part = "hot"
  <2>1. Mirrored(p) = Hot(d) BY <1>6 DEF Mirrored, d
  <2>2. Older(d) => Hot(d) = mirror BY DEF Hot
  <2>3. d.inst \in Hosts BY <1>2, <1>6 DEF Nothing
  <2>4. mirror.coldAt \in Nat BY <1>1 DEF Mirror, Times
  <2> QED BY <1>3, <2>1, <2>2, <2>3, <2>4 DEF d
<1>7. CASE poll[p].part = "full"
  <2>1. Mirrored(p) = Full(d) BY <1>7 DEF Mirrored, d
  <2>2. d.inst \in Hosts BY <1>2, <1>7 DEF Nothing
  <2> QED BY <1>4, <2>1, <2>2 DEF d
<1> QED BY <1>1, <1>5, <1>6, <1>7

-----------------------------------------------------------------------------
(* The steps of polls.                                                      *)

LEMMA EndsType ==
  ASSUME TypeOK, PollKnows, NEW p \in Polls, NEW pc \in {"idle", "refreshed"},
         NEW applied \in BOOLEAN, NEW put \in BOOLEAN, Ends(p, pc, applied, put)
  PROVE  poll' \in [Polls -> PollRow] /\ PollKnows'
<1>0. NoPoll \in PollRow /\ \A q \in Polls : poll[q] \in PollRow BY Constants, TypeIs
<1>1. [NoPoll EXCEPT !.pc = pc] \in PollRow BY <1>0 DEF PollRow
<1>2. ASSUME NEW q \in Polls
      PROVE  [poll[q] EXCEPT !.older = @ \ {p}, !.late = @ \/ (applied /\ q \in poll[p].older),
                             !.hidden = @ \/ (put /\ q \in poll[p].older)] \in PollRow
  <2>1. poll[q] \in PollRow BY <1>0
  <2>2. poll[q].older \ {p} \in SUBSET Polls BY <2>1 DEF PollRow
  <2>3. (poll[q].late \/ (applied /\ q \in poll[p].older)) \in BOOLEAN BY <2>1 DEF PollRow
  <2>4. (poll[q].hidden \/ (put /\ q \in poll[p].older)) \in BOOLEAN BY <2>1 DEF PollRow
  <2> QED BY <2>1, <2>2, <2>3, <2>4 DEF PollRow
<1>3. poll' \in [Polls -> PollRow] BY <1>1, <1>2 DEF Ends
<1>4. PollKnows'
  <2> SUFFICES ASSUME NEW q \in Polls, poll'[q].pc = "prepare" \/ poll'[q].part # Nothing
               PROVE  poll'[q].data.inst \in Hosts
    BY DEF PollKnows
  <2>1. q # p BY DEF Ends, NoPoll
  <2>2. poll'[q].pc = poll[q].pc /\ poll'[q].part = poll[q].part /\ poll'[q].data = poll[q].data
    BY <2>1, <1>0 DEF Ends, PollRow
  <2> QED BY <2>2 DEF PollKnows
<1> QED BY <1>3, <1>4

(* A step of one poll that does not end.                                    *)
LEMMA PollTypes ==
  ASSUME TypeOK, PollKnows, NEW p \in Polls, NEW row \in PollRow,
         row.pc = "prepare" \/ row.part # Nothing => row.data.inst \in Hosts,
         poll' = [poll EXCEPT ![p] = row]
  PROVE  poll' \in [Polls -> PollRow] /\ PollKnows'
  BY TypeIs DEF PollKnows

(* The key, what it gave and the machines that have it.                    *)
LEMMA SameKey ==
  ASSUME FleetInv, UNCHANGED host,
         UNCHANGED <<panel.key, panel.keys, panel.used, panel.claimedBy, panel.frozen>>
  PROVE  ReplyKnown' /\ FrozenKnown' /\ KeysIssued' /\ OneAnswered'
  BY DEF FleetInv, Known, ReplyKnown, FrozenKnown, KeysIssued, OneAnswered

LEMMA SamePanelKey ==
  ASSUME panel' = panel
  PROVE  UNCHANGED <<panel.key, panel.keys, panel.used, panel.claimedBy, panel.frozen>>
  OBVIOUS

LEMMA AskSteps ==
  ASSUME FleetInv, NEW p \in Polls,
         \/ \E kind \in {"poll", "refresh"} : Begin(p, kind)
         \/ Ask(p) \/ Unanswered(p) \/ PrepareHot(p) \/ PrepareFull(p) \/ PrepareFails(p)
  PROVE  FleetInv'
<1>0. TypeOK /\ PollKnows /\ poll[p] \in PollRow /\ NoPoll \in PollRow /\ panel \in Panel
  BY TypeIs, Constants DEF FleetInv, Known
<1>1. ASSUME poll' \in [Polls -> PollRow], PollKnows', acts' \in 0..MaxActs, faults' \in 0..MaxFaults,
             UNCHANGED <<panel, mirror, shown, machines, address, relink, clock>>
      PROVE  FleetInv'
  <2>1. TypeOK'
    BY <1>0, <1>1, TypeIs DEF machines, TypeOK, Mirror, Shown, Host, Check, PollRow, Times
  <2>2. MirrorEmpty' BY <1>1 DEF FleetInv, Known, MirrorEmpty
  <2> QED BY <1>1, <2>1, <2>2, SameKey DEF FleetInv, Known, machines
<1>2. acts \in 0..MaxActs /\ faults \in 0..MaxFaults
      /\ (Act => acts' \in 0..MaxActs) /\ (Fault => faults' \in 0..MaxFaults)
  BY <1>0, Bounds, TypeIs
<1>3. ASSUME NEW kind \in {"poll", "refresh"}, Begin(p, kind)
      PROVE  FleetInv'
  <2> DEFINE row == [NoPoll EXCEPT !.pc = "ask", !.kind = kind, !.link = panel.link,
                                   !.older = {q \in Polls : poll[q].pc # "idle"}]
  <2>1. row \in PollRow /\ row.pc = "ask" /\ row.part = Nothing
    BY <1>0 DEF PollRow, Panel, NoPoll
  <2>2. poll' = [poll EXCEPT ![p] = row] BY <1>3 DEF Begin
  <2>3. poll' \in [Polls -> PollRow] /\ PollKnows'
    <3> HIDE DEF row
    <3> QED BY <1>0, <2>1, <2>2, PollTypes
  <2> QED BY <1>1, <1>2, <1>3, <2>3 DEF Begin
<1>4. CASE Ask(p)
  <2> DEFINE row == [poll[p] EXCEPT !.data = Snapshot, 
                       !.part = IF poll[p].kind = "refresh" THEN "full" ELSE Nothing,
                       !.pc = IF poll[p].kind = "refresh" THEN "record" ELSE "prepare"]
  <2>1. Snapshot \in Data /\ Snapshot.inst \in Hosts BY <1>0, SnapshotType
  <2>2. row \in PollRow /\ row.data.inst \in Hosts BY <1>0, <2>1 DEF PollRow
  <2>3. poll' = [poll EXCEPT ![p] = row]
    BY <1>0, <1>4, TypeIs DEF Ask
  <2>4. poll' \in [Polls -> PollRow] /\ PollKnows'
    <3> HIDE DEF row
    <3> QED BY <1>0, <2>2, <2>3, PollTypes
  <2> QED BY <1>1, <1>2, <1>4, <2>4 DEF Ask
<1>5. CASE Unanswered(p) \/ PrepareFails(p)
  <2> DEFINE row == [poll[p] EXCEPT !.pc = "record"]
  <2>1. row \in PollRow /\ row.pc = "record" /\ row.part = poll[p].part /\ row.data = poll[p].data
    BY <1>0 DEF PollRow
  <2>2. poll' = [poll EXCEPT ![p] = row] BY <1>5, <1>0, TypeIs DEF Unanswered, PrepareFails
  <2>3. row.part # Nothing => row.data.inst \in Hosts BY <1>0, <2>1 DEF PollKnows
  <2>4. poll' \in [Polls -> PollRow] /\ PollKnows'
    <3> HIDE DEF row
    <3> QED BY <1>0, <2>1, <2>2, <2>3, PollTypes
  <2> QED BY <1>1, <1>2, <1>5, <2>4 DEF Unanswered, PrepareFails
<1>6. CASE PrepareHot(p)
  <2> DEFINE row == [poll[p] EXCEPT !.part = "hot", !.pc = "record"]
  <2>1. row \in PollRow /\ row.data = poll[p].data BY <1>0 DEF PollRow
  <2>2. poll' = [poll EXCEPT ![p] = row] BY <1>6, <1>0, TypeIs DEF PrepareHot
  <2>3. row.data.inst \in Hosts BY <1>0, <1>6, <2>1 DEF PollKnows, PrepareHot
  <2>4. poll' \in [Polls -> PollRow] /\ PollKnows'
    <3> HIDE DEF row
    <3> QED BY <1>0, <2>1, <2>2, <2>3, PollTypes
  <2> QED BY <1>1, <1>2, <1>6, <2>4 DEF PrepareHot
<1>7. CASE PrepareFull(p)
  <2> DEFINE row == [poll[p] EXCEPT !.data = Snapshot, !.part = "full", !.pc = "record"]
  <2>1. Snapshot \in Data /\ Snapshot.inst \in Hosts BY <1>0, SnapshotType
  <2>2. row \in PollRow /\ row.data.inst \in Hosts BY <1>0, <2>1 DEF PollRow
  <2>3. poll' = [poll EXCEPT ![p] = row] BY <1>7, <1>0, TypeIs DEF PrepareFull
  <2>4. poll' \in [Polls -> PollRow] /\ PollKnows'
    <3> HIDE DEF row
    <3> QED BY <1>0, <2>2, <2>3, PollTypes
  <2> QED BY <1>1, <1>2, <1>7, <2>4 DEF PrepareFull
<1> QED BY <1>3, <1>4, <1>5, <1>6, <1>7

LEMMA EndSteps ==
  ASSUME FleetInv, NEW p \in Polls,
         \/ Drop(p) \/ Refresh(p) \/ IssueKey(p)
         \/ \E failed \in {"none", "redis", "mirror", "commit"} : Record(p, failed)
  PROVE  FleetInv'
<1>0. TypeOK /\ Known /\ PollKnows /\ poll[p] \in PollRow /\ panel \in Panel /\ mirror \in Mirror /\ shown \in Shown
  BY TypeIs DEF FleetInv, Known
<1>1. ASSUME panel' \in Panel, mirror' \in {mirror, Mirrored(p)}, shown' \in Shown, faults' \in 0..MaxFaults,
             UNCHANGED <<machines, address, relink, clock, acts>>,
             \E pc \in {"idle", "refreshed"}, applied, put \in BOOLEAN : Ends(p, pc, applied, put)
      PROVE  TypeOK' /\ PollKnows' /\ MirrorEmpty'
  <2>1. poll' \in [Polls -> PollRow] /\ PollKnows' BY <1>0, <1>1, EndsType
  <2>2. mirror' \in Mirror BY <1>0, <1>1, MirroredType
  <2>3. TypeOK'
    BY <1>0, <1>1, <2>1, <2>2, TypeIs DEF machines, TypeOK, Mirror, Shown, Host, Check, PollRow, Times
  <2>4. MirrorEmpty'
    <3>1. mirror' # mirror => mirror'.inst \in Hosts BY <1>0, <1>1, MirroredType
    <3> QED BY <1>0, <3>1, NobodyAssumption DEF Known, MirrorEmpty
  <2> QED BY <2>1, <2>3, <2>4
<1>2. faults \in 0..MaxFaults /\ (Fault => faults' \in 0..MaxFaults)
  BY <1>0, Bounds, TypeIs
<1>3. CASE Drop(p)
  <2>1. \E pc \in {"idle", "refreshed"}, applied, put \in BOOLEAN : Ends(p, pc, applied, put)
    BY <1>3 DEF Drop
  <2> QED BY <1>0, <1>1, <1>2, <1>3, <2>1, SameKey DEF Drop, FleetInv, Known, machines
<1>4. CASE Refresh(p)
  <2>1. Online(p) \in BOOLEAN BY DEF Online
  <2>2. \E pc \in {"idle", "refreshed"}, applied, put \in BOOLEAN : Ends(p, pc, applied, put)
    BY <1>4, <2>1 DEF Refresh
  <2> QED BY <1>0, <1>1, <1>2, <1>4, <2>2, SameKey DEF Refresh, FleetInv, Known, machines
<1>5. ASSUME NEW failed \in {"none", "redis", "mirror", "commit"}, Record(p, failed)
      PROVE  FleetInv'
  <2>1. \E pc \in {"idle", "refreshed"}, applied, put \in BOOLEAN : Ends(p, pc, applied, put)
    <3>1. (failed # "redis" /\ ~poll[p].hidden) \in BOOLEAN OBVIOUS
    <3>2. (failed # "commit") \in BOOLEAN OBVIOUS
    <3> QED BY <1>5, <3>1, <3>2 DEF Record
  <2>2. shown' \in Shown
    <3>1. Put(p) \in Shown BY <1>0 DEF Put, Shown, PollRow, Data
    <3> QED BY <1>0, <1>5, <3>1 DEF Record
  <2>3. panel' \in Panel /\ UNCHANGED <<panel.key, panel.keys, panel.used, panel.claimedBy, panel.frozen>>
    <3>1. NewStatus(p) \in {"unknown", "online", "offline", "transferring"} BY DEF NewStatus
    <3>2. (panel.moving /\ ~Online(p)) \in BOOLEAN BY <1>0 DEF Panel
    <3>3. panel' = panel \/ panel' = [panel EXCEPT !.status = NewStatus(p), !.moving = panel.moving /\ ~Online(p)]
      BY <1>5 DEF Record
    <3> QED BY <1>0, <3>1, <3>2, <3>3 DEF Panel
  <2>4. mirror' \in {mirror, Mirrored(p)} /\ faults' \in 0..MaxFaults BY <1>2, <1>5 DEF Record
  <2>5. UNCHANGED <<machines, address, relink, clock, acts>> BY <1>5 DEF Record
  <2> QED BY <1>1, <2>1, <2>2, <2>3, <2>4, <2>5, SameKey DEF FleetInv, Known, machines
<1>6. CASE IssueKey(p)
  <2>1. \E pc \in {"idle", "refreshed"}, applied, put \in BOOLEAN : Ends(p, pc, applied, put)
    BY <1>6 DEF IssueKey
  <2>2. UNCHANGED <<mirror, shown, machines, address, relink, clock, acts, faults>> BY <1>6 DEF IssueKey
  <2>3. CASE panel' = panel
    BY <1>0, <1>1, <1>2, <2>1, <2>2, <2>3, SameKey DEF FleetInv, Known, machines
  <2>4. CASE panel' # panel
    <3>1. /\ panel.keys < MaxKeys
          /\ panel' = [panel EXCEPT !.key = panel.keys + 1, !.keys = @ + 1, !.used = FALSE, !.expired = FALSE,
                                    !.claimedBy = Nobody, !.frozen = NoState]
      BY <1>6, <2>4 DEF IssueKey
    <3>2. panel.keys + 1 \in 0..MaxKeys /\ panel.keys \in Nat BY <1>0, <3>1, FleetAssumption DEF Panel
    <3>3. panel' \in Panel /\ panel'.key = panel.keys + 1 /\ panel'.keys = panel.keys + 1 /\ ~panel'.used
      BY <1>0, <3>1, <3>2 DEF Panel
    <3>4. \A h \in Hosts : host[h] \in Host /\ host[h].key \in Nat /\ host[h].key <= panel.keys
      BY <1>0, TypeIs DEF FleetInv, KeysIssued, Host
    <3>5. KeysIssued' /\ OneAnswered' /\ FrozenKnown' /\ ReplyKnown'
      BY <2>2, <3>2, <3>3, <3>4 DEF machines, FleetInv, KeysIssued, OneAnswered, Known, FrozenKnown, ReplyKnown
    <3> QED BY <1>0, <1>1, <1>2, <2>1, <2>2, <3>3, <3>5 DEF FleetInv, Known
  <2> QED BY <2>3, <2>4
<1> QED BY <1>3, <1>4, <1>5, <1>6

-----------------------------------------------------------------------------
(* The steps of transfers.                                                  *)

(* A step of one machine alone.                                             *)
LEMMA HostStep ==
  ASSUME FleetInv, NEW h \in Hosts, NEW row \in Host, host' = [host EXCEPT ![h] = row],
         row.claim = "replied" => row.reply \in States,
         row.key <= panel.keys, row.key = 0 => row.reply = NoState,
         row.reply # NoState /\ panel.key # 0 /\ row.key = panel.key =>
           panel.used /\ panel.claimedBy = h /\ panel.frozen = row.reply,
         UNCHANGED panel, UNCHANGED <<mirror, shown, address, poll>>,
         check' \in [Hosts -> Check], truth' \in [0..MaxEdits -> Colds], relink' \in Links, clock' \in Nat,
         acts' \in 0..MaxActs, faults' \in 0..MaxFaults
  PROVE  FleetInv'
<1>1. TypeOK /\ host' \in [Hosts -> Host] BY TypeIs DEF FleetInv
<1>2. TypeOK'
  BY <1>1, TypeIs DEF TypeOK, Mirror, Shown, Host, Check, PollRow, Times
<1>3. \A g \in Hosts : host'[g] = IF g = h THEN row ELSE host[g]
  BY <1>1, TypeIs
<1>4. PollKnows' /\ MirrorEmpty' /\ FrozenKnown'
  BY DEF FleetInv, Known, PollKnows, MirrorEmpty, FrozenKnown
<1>5. ReplyKnown' BY <1>3 DEF FleetInv, Known, ReplyKnown
<1>6. KeysIssued' BY <1>3 DEF FleetInv, KeysIssued
<1>7. OneAnswered' BY <1>3 DEF FleetInv, OneAnswered
<1> QED BY <1>2, <1>4, <1>5, <1>6, <1>7 DEF FleetInv, Known

(* What is kept of a machine that keeps its key and its answer.             *)
LEMMA HostKeeps ==
  ASSUME FleetInv, NEW h \in Hosts, NEW row \in Host,
         row.key = host[h].key, row.reply = host[h].reply, row.claim = "replied" => host[h].claim = "replied"
  PROVE  /\ row.claim = "replied" => row.reply \in States
         /\ row.key <= panel.keys /\ (row.key = 0 => row.reply = NoState)
         /\ row.reply # NoState /\ panel.key # 0 /\ row.key = panel.key =>
              panel.used /\ panel.claimedBy = h /\ panel.frozen = row.reply
  BY DEF FleetInv, Known, ReplyKnown, KeysIssued, OneAnswered

(* What claim_transfer answers, and what it does to the panel.              *)
LEMMA ClaimType ==
  ASSUME FleetInv, NEW h \in Hosts, Again(h) \/ Anew(h)
  PROVE  /\ Reply(h) \in States /\ Claimed(h) \in Panel
         /\ Claimed(h).used /\ Claimed(h).claimedBy = h /\ Claimed(h).frozen = Reply(h)
         /\ Claimed(h).key = panel.key /\ Claimed(h).keys = panel.keys
         /\ panel.key # 0 /\ host[h].key = panel.key
<1>1. panel \in Panel /\ mirror \in Mirror /\ <<h, 0>> \in Links BY Constants, TypeIs DEF FleetInv
<1>2. panel.key # 0 /\ host[h].key = panel.key BY DEF Again, Anew, Accepted
<1>3. CASE Again(h)
  BY <1>1, <1>2, <1>3 DEF Again, Reply, Claimed, FleetInv, Known, FrozenKnown
<1>4. CASE ~Again(h)
  <2>1. Kept \in States BY <1>1, <1>4 DEF Anew, Complete, Kept, States, Mirror
  <2> QED BY <1>1, <1>2, <1>4, <2>1 DEF Reply, Claimed, Panel
<1> QED BY <1>3, <1>4

LEMMA ClaimStep ==
  ASSUME FleetInv, NEW h \in Hosts, NEW lost \in BOOLEAN, Claim(h, lost)
  PROVE  FleetInv'
<1>1. TypeOK /\ host[h] \in Host /\ (Again(h) \/ Anew(h)) /\ panel' = Claimed(h) BY TypeIs DEF FleetInv, Claim
<1>2. /\ Reply(h) \in States /\ panel' \in Panel
      /\ panel'.used /\ panel'.claimedBy = h /\ panel'.frozen = Reply(h)
      /\ panel'.key = panel.key /\ panel'.keys = panel.keys
      /\ panel.key # 0 /\ host[h].key = panel.key
  BY <1>1, ClaimType
<1>3. UNCHANGED <<mirror, shown, check, truth, address, poll, relink, clock, acts, faults>> BY DEF Claim
<1>4. host' = [host EXCEPT ![h] = host'[h]] /\ host' \in [Hosts -> Host]
      /\ host'[h].key = host[h].key /\ host'[h].reply \in {host[h].reply, Reply(h)}
      /\ (host'[h].claim = "replied" => host'[h].reply = Reply(h))
  <2>1. CASE lost
    <3>1. host[h].claim = "ask" /\ host' = host BY <2>1 DEF Claim
    <3> QED BY <1>1, <3>1, TypeIs
  <2>2. CASE ~lost
    <3>1. host' = [host EXCEPT ![h].claim = "replied", ![h].reply = Reply(h)] BY <2>2 DEF Claim
    <3> QED BY <1>1, <1>2, <3>1, TypeIs DEF Host
  <2> QED BY <2>1, <2>2
<1>5. TypeOK'
  BY <1>1, <1>2, <1>3, <1>4, TypeIs DEF TypeOK, Mirror, Shown, Host, Check, PollRow, Times
<1>6. Known'
  BY <1>1, <1>2, <1>3, <1>4 DEF FleetInv, Known, PollKnows, MirrorEmpty, ReplyKnown, FrozenKnown
<1>7. KeysIssued'
  BY <1>1, <1>2, <1>4 DEF FleetInv, KeysIssued
<1>8. OneAnswered'
  <2> SUFFICES ASSUME NEW g \in Hosts, host'[g].reply # NoState, panel'.key # 0, host'[g].key = panel'.key
               PROVE  panel'.used /\ panel'.claimedBy = g /\ panel'.frozen = host'[g].reply
    BY DEF OneAnswered
  <2>1. CASE Again(h)
    <3>1. panel' = panel BY <1>1, <2>1 DEF Claimed
    <3>2. g # h => host'[g] = host[g] BY <1>4, TypeIs, <1>1
    <3> QED BY <1>2, <1>4, <2>1, <3>1, <3>2 DEF FleetInv, OneAnswered, Again
  <2>2. CASE Anew(h)
    <3>1. \A f \in Hosts : host[f].key = panel.key => host[f].reply = NoState
      BY <1>2, <2>2 DEF FleetInv, OneAnswered, Anew
    <3>2. g # h => host'[g] = host[g] BY <1>4, TypeIs, <1>1
    <3>3. g = h BY <1>2, <3>1, <3>2
    <3> QED BY <1>2, <1>4, <3>1, <3>3
  <2> QED BY <1>1, <2>1, <2>2
<1> QED BY <1>5, <1>6, <1>7, <1>8 DEF FleetInv

LEMMA MachineSteps ==
  ASSUME FleetInv, NEW h \in Hosts,
         \/ Install(h) \/ Apply(h) \/ LinkUp(h) \/ MarkClaimed(h) \/ Crash(h) \/ IssueLink(h)
         \/ \E lost \in BOOLEAN : Handshake(h, lost)
         \/ AskVerdict(h) \/ Heed(h) \/ Edit(h)
  PROVE  FleetInv'
<1>0. /\ TypeOK /\ host[h] \in Host /\ panel \in Panel /\ check \in [Hosts -> Check]
      /\ truth \in [0..MaxEdits -> Colds] /\ relink \in Links /\ clock \in Nat
      /\ acts \in 0..MaxActs /\ faults \in 0..MaxFaults
      /\ host \in [Hosts -> Host] /\ NoCheck \in Check /\ NoLink \in Links /\ <<h, 0>> \in Links
      /\ \A n \in 0..MaxLinks : <<h, n>> \in Links
  BY Constants, TypeIs DEF FleetInv
<1>1. (Act => acts' \in 0..MaxActs) /\ (Fault => faults' \in 0..MaxFaults)
  BY <1>0, Bounds
<1>2. CASE Install(h)
  <2> DEFINE row == [host[h] EXCEPT !.key = panel.key, !.claim = "ask"]
  <2>1. row \in Host /\ row.reply = host[h].reply /\ row.claim = "ask" /\ row.key = panel.key
    BY <1>0 DEF Host, Panel
  <2>2. host' = [host EXCEPT ![h] = row] /\ panel.key # 0 /\ host[h].key = 0 BY <1>0, <1>2 DEF Install
  <2>3. row.reply = NoState /\ row.key <= panel.keys BY <2>1, <2>2 DEF FleetInv, KeysIssued
  <2> HIDE DEF row
  <2> QED BY <1>0, <1>1, <1>2, <2>1, <2>2, <2>3, HostStep DEF Install
<1>3. ASSUME NEW row \in Host, host' = [host EXCEPT ![h] = row],
             row.key = host[h].key, row.reply = host[h].reply, row.claim = "replied" => host[h].claim = "replied",
             UNCHANGED <<panel, mirror, shown, address, poll>>,
             check' \in [Hosts -> Check], truth' \in [0..MaxEdits -> Colds], relink' \in Links, clock' \in Nat,
             acts' \in 0..MaxActs, faults' \in 0..MaxFaults
      PROVE  FleetInv'
  BY <1>3, HostKeeps, HostStep
<1>4. CASE Apply(h)
  <2> DEFINE row == [host[h] EXCEPT !.state = host[h].reply, !.claim = "applied"]
  <2>1. host[h].reply \in States BY <1>4 DEF Apply, FleetInv, Known, ReplyKnown
  <2>2. row \in Host /\ row.key = host[h].key /\ row.reply = host[h].reply /\ row.claim = "applied"
    BY <1>0, <2>1 DEF Host
  <2>3. host' = [host EXCEPT ![h] = row] BY <1>0, <1>4 DEF Apply
  <2>4. clock' \in Nat BY <1>0, <1>4 DEF Apply
  <2> HIDE DEF row
  <2> QED BY <1>0, <1>3, <1>4, <2>2, <2>3, <2>4 DEF Apply
<1>5. CASE LinkUp(h) \/ MarkClaimed(h)
  <2> DEFINE linked == [host[h] EXCEPT !.link = <<h, 0>>, !.open = FALSE, !.claim = "linked"]
             marked == [host[h] EXCEPT !.claim = "claimed"]
  <2>1. linked \in Host /\ linked.key = host[h].key /\ linked.reply = host[h].reply /\ linked.claim = "linked"
        /\ marked \in Host /\ marked.key = host[h].key /\ marked.reply = host[h].reply /\ marked.claim = "claimed"
    BY <1>0 DEF Host
  <2>2. host' = [host EXCEPT ![h] = linked] \/ host' = [host EXCEPT ![h] = marked]
    BY <1>0, <1>5 DEF LinkUp, MarkClaimed
  <2>3. UNCHANGED <<panel, mirror, shown, check, truth, address, poll, relink, clock, acts, faults>>
    BY <1>5 DEF LinkUp, MarkClaimed
  <2> HIDE DEF linked, marked
  <2> QED BY <1>0, <1>3, <2>1, <2>2, <2>3
<1>6. CASE Crash(h)
  <2> DEFINE row == [host[h] EXCEPT !.claim = "ask"]
  <2>1. row \in Host /\ row.key = host[h].key /\ row.reply = host[h].reply /\ row.claim = "ask"
    BY <1>0 DEF Host
  <2>2. host' = [host EXCEPT ![h] = row] BY <1>0, <1>6 DEF Crash
  <2>3. check' \in [Hosts -> Check] BY <1>0, <1>6 DEF Crash
  <2> HIDE DEF row
  <2> QED BY <1>0, <1>1, <1>3, <1>6, <2>1, <2>2, <2>3 DEF Crash
<1>7. CASE IssueLink(h)
  <2> DEFINE row == [host[h] EXCEPT !.issued = @ + 1, !.open = TRUE, !.link = NoLink]
  <2>1. host[h].issued + 1 \in 0..MaxLinks BY <1>0, <1>7, FleetAssumption DEF IssueLink, Host
  <2>2. row \in Host /\ row.key = host[h].key /\ row.reply = host[h].reply /\ row.claim = host[h].claim
    BY <1>0, <2>1 DEF Host
  <2>3. host' = [host EXCEPT ![h] = row] BY <1>0, <1>7 DEF IssueLink
  <2> HIDE DEF row
  <2> QED BY <1>0, <1>1, <1>3, <1>7, <2>2, <2>3 DEF IssueLink
<1>8. ASSUME NEW lost \in BOOLEAN, Handshake(h, lost)
      PROVE  FleetInv'
  <2> DEFINE row == [host[h] EXCEPT !.link = <<h, host[h].issued>>]
  <2>1. <<h, host[h].issued>> \in Links BY <1>0 DEF Host
  <2>2. row \in Host /\ row.key = host[h].key /\ row.reply = host[h].reply /\ row.claim = host[h].claim
    BY <1>0, <2>1 DEF Host
  <2>3. host' = [host EXCEPT ![h] = row] BY <1>0, <1>8 DEF Handshake
  <2>4. relink' \in Links BY <1>0, <1>8, <2>1 DEF Handshake, Learnt
  <2> HIDE DEF row
  <2> QED BY <1>0, <1>1, <1>3, <1>8, <2>2, <2>3, <2>4 DEF Handshake
<1>9. CASE AskVerdict(h)
  <2>1. [link |-> host[h].link, verdict |-> Verdict(h)] \in Check
    BY <1>0 DEF Host, Check, Verdict
  <2>2. check' \in [Hosts -> Check] BY <1>0, <1>9, <2>1 DEF AskVerdict
  <2>3. host' = [host EXCEPT ![h] = host[h]] BY <1>0, <1>9 DEF AskVerdict
  <2> QED BY <1>0, <1>3, <1>9, <2>2, <2>3 DEF AskVerdict
<1>10. CASE Heed(h)
  <2> DEFINE row == IF host[h].link # check[h].link \/ check[h].verdict = "unknown" THEN host[h]
                    ELSE [host[h] EXCEPT !.muted = check[h].verdict = "superseded"]
  <2>1. row \in Host /\ row.key = host[h].key /\ row.reply = host[h].reply /\ row.claim = host[h].claim
    BY <1>0 DEF Host
  <2>2. host' = [host EXCEPT ![h] = row] BY <1>0, <1>10 DEF Heed
  <2>3. check' \in [Hosts -> Check] BY <1>0, <1>10 DEF Heed
  <2> HIDE DEF row
  <2> QED BY <1>0, <1>3, <1>10, <2>1, <2>2, <2>3 DEF Heed
<1>11. CASE Edit(h)
  <2>1. PICK cold \in {host[h].state.cold, clock + 1} \cup (IF Undo THEN 0..clock ELSE {}) :
          /\ host' = [host EXCEPT ![h].state = [hot |-> clock + 1, cold |-> cold]]
          /\ truth' = [truth EXCEPT ![clock + 1] = cold]
    BY <1>11 DEF Edit
  <2>2. clock + 1 \in 0..MaxEdits /\ clock' = clock + 1 BY <1>0, <1>11, FleetAssumption DEF Edit
  <2>3. cold \in Colds
    <3>1. clock + 1 \in Colds /\ 0..clock \subseteq Colds BY <1>0, <2>2, FleetAssumption DEF Colds
    <3>2. host[h].state \in States BY <1>0 DEF Host
    <3>3. host[h].state.cold \in Colds BY <3>2 DEF States
    <3> QED BY <2>1, <3>1, <3>3, Zenon
  <2> DEFINE row == [host[h] EXCEPT !.state = [hot |-> clock + 1, cold |-> cold]]
  <2>4. row \in Host /\ row.key = host[h].key /\ row.reply = host[h].reply /\ row.claim = host[h].claim
    BY <1>0, <2>2, <2>3 DEF Host, States
  <2>5. host' = [host EXCEPT ![h] = row] BY <1>0, <2>1
  <2>6. truth' \in [0..MaxEdits -> Colds] BY <1>0, <2>1, <2>3
  <2>7. clock' \in Nat BY <1>0, <2>2
  <2> HIDE DEF row
  <2> QED BY <1>0, <1>3, <1>11, <2>4, <2>5, <2>6, <2>7 DEF Edit
<1> QED BY <1>2, <1>4, <1>5, <1>6, <1>7, <1>8, <1>9, <1>10, <1>11

(* The panel's row otherwise.                                               *)
LEMMA PanelSteps ==
  ASSUME FleetInv, KeyExpires \/ ClearKey \/ MoveAddress \/ Delete \/ Forget \/ Relink
  PROVE  FleetInv'
<1>0. TypeOK /\ panel \in Panel /\ relink \in Links /\ NoLink \in Links /\ NoMirror \in Mirror
      /\ mirror \in Mirror /\ shown \in Shown /\ NotShown \in Shown /\ address \in Hosts
      /\ acts \in 0..MaxActs
  BY Constants, TypeIs DEF FleetInv
<1>1. ASSUME panel' \in Panel, panel'.keys = panel.keys,
             \/ panel'.key = 0
             \/ UNCHANGED <<panel.key, panel.used, panel.claimedBy, panel.frozen>>,
             mirror' \in {mirror, NoMirror}, shown' \in Shown, address' \in Hosts, relink' \in Links, acts' \in 0..MaxActs,
             UNCHANGED <<machines, poll, clock, faults>>
      PROVE  FleetInv'
  <2>1. TypeOK'
    BY <1>0, <1>1, TypeIs DEF machines, TypeOK, Mirror, Shown, Host, Check, PollRow, Times
  <2>2. PollKnows' /\ MirrorEmpty' /\ ReplyKnown' /\ FrozenKnown'
    BY <1>1 DEF machines, FleetInv, Known, PollKnows, MirrorEmpty, ReplyKnown, FrozenKnown, NoMirror
  <2>3. KeysIssued'
    BY <1>0, <1>1 DEF machines, FleetInv, KeysIssued, Panel
  <2>4. OneAnswered'
    BY <1>1 DEF machines, FleetInv, OneAnswered
  <2> QED BY <2>1, <2>2, <2>3, <2>4 DEF FleetInv, Known
<1>2. Act => acts' \in 0..MaxActs BY <1>0, Bounds
<1>3. 0 \in 0..MaxKeys BY FleetAssumption
<1>4. CASE KeyExpires
  BY <1>0, <1>1, <1>4 DEF KeyExpires, Panel
<1>5. CASE ClearKey
  BY <1>0, <1>1, <1>3, <1>5 DEF ClearKey, Panel
<1>6. CASE MoveAddress
  <2>1. panel.inst \in Hosts BY <1>0 DEF Panel
  <2> QED BY <1>0, <1>1, <1>2, <1>6, <2>1 DEF MoveAddress
<1>7. CASE Delete
  BY <1>0, <1>1, <1>2, <1>7 DEF Delete, Panel
<1>8. CASE Forget
  BY <1>0, <1>1, <1>8 DEF Forget, Panel
<1>9. CASE Relink
  <2> DEFINE h == relink[1]
             link == CASE panel.inst # h -> panel.link
                       [] panel.inst = h /\ panel.former = h -> NoLink
                       [] OTHER -> panel.formerLink
             inst == CASE panel.inst # h -> panel.inst
                       [] panel.inst = h /\ panel.former = h -> Nobody
                       [] OTHER -> panel.former
  <2>1. h \in Hosts BY <1>0, <1>9 DEF Relink, Links
  <2>2. link \in Links /\ inst \in Hosts \cup {Nobody} BY <1>0, <2>1 DEF Panel
  <2>3. CASE There
    <3>1. panel' = [panel EXCEPT !.link = relink, !.inst = h, !.key = 0, !.frozen = NoState,
                      !.moving = FALSE, !.claimedBy = Nobody, !.formerLink = link, !.former = inst]
          /\ address' = h
      BY <1>9, <2>3 DEF Relink
    <3>2. UNCHANGED <<mirror, shown, machines, poll, clock, acts, faults>> /\ relink' = NoLink
      BY <1>9 DEF Relink
    <3> HIDE DEF link, inst, h
    <3>3. panel' \in Panel /\ panel'.key = 0 /\ panel'.keys = panel.keys
      BY <1>0, <1>3, <2>1, <2>2, <3>1 DEF Panel
    <3> QED BY <1>0, <1>1, <2>1, <3>1, <3>2, <3>3
  <2>4. CASE ~There
    <3>1. UNCHANGED <<panel, mirror, shown, machines, address, poll, clock, acts, faults>> /\ relink' = NoLink
      BY <1>9, <2>4 DEF Relink
    <3> QED BY <1>0, <1>1, <3>1
  <2> QED BY <2>3, <2>4
<1> QED BY <1>4, <1>5, <1>6, <1>7, <1>8, <1>9

LEMMA FleetStep ==
  ASSUME FleetInv, [Next]_vars
  PROVE  FleetInv'
<1>1. CASE UNCHANGED vars
  BY <1>1 DEF vars, machines, FleetInv, TypeOK, Known, PollKnows, MirrorEmpty, ReplyKnown, FrozenKnown,
     KeysIssued, OneAnswered
<1>2. ASSUME NEW p \in Polls, Poll(p) \/ Begin(p, "refresh")
      PROVE  FleetInv'
  BY <1>2, AskSteps, EndSteps DEF Poll
<1>3. ASSUME NEW h \in Hosts,
             Transferring(h) \/ Checking(h) \/ Edit(h) \/ Crash(h) \/ Install(h) \/ IssueLink(h)
             \/ \E lost \in BOOLEAN : Handshake(h, lost)
      PROVE  FleetInv'
  BY <1>3, ClaimStep, MachineSteps DEF Transferring, Checking
<1>4. CASE Time \/ MoveAddress \/ Delete \/ Relink \/ Forget
  BY <1>4, PanelSteps DEF Time
<1> QED BY <1>1, <1>2, <1>3, <1>4 DEF Next, Admin

LEMMA FleetInit == Init => FleetInv
<1> SUFFICES ASSUME Init PROVE FleetInv
  OBVIOUS
<1>1. /\ 0 \in 0..MaxEdits /\ 0 \in 0..MaxKeys /\ {0, 1} \subseteq 0..MaxLinks
      /\ 0 \in 0..MaxActs /\ 0 \in 0..MaxFaults /\ First \in Hosts
  BY FleetAssumption
<1>2. <<First, 1>> \in Links BY <1>1, Constants
<1>3. panel \in Panel BY <1>1, <1>2, Constants DEF Init, Panel
<1>4. NewHost \in Host BY <1>1, Constants DEF NewHost, Host, States, Colds
<1>5. host \in [Hosts -> Host]
  <2>1. [NewHost EXCEPT !.link = <<First, 1>>, !.issued = 1, !.open = TRUE] \in Host
    BY <1>1, <1>2, <1>4 DEF Host
  <2> QED BY <1>4, <2>1 DEF Init
<1>6. TypeOK
  BY <1>1, <1>3, <1>5, Constants, TypeIs DEF Init, Colds
<1>7. \A h \in Hosts : host[h].claim = "none" /\ host[h].reply = NoState /\ host[h].key = 0
  <2>1. \A h \in Hosts : host[h] = IF h = First
                                   THEN [NewHost EXCEPT !.link = <<First, 1>>, !.issued = 1, !.open = TRUE]
                                   ELSE NewHost
    BY DEF Init
  <2>2. NewHost.claim = "none" /\ NewHost.reply = NoState /\ NewHost.key = 0 BY DEF NewHost
  <2>3. /\ [NewHost EXCEPT !.link = <<First, 1>>, !.issued = 1, !.open = TRUE].claim = "none"
        /\ [NewHost EXCEPT !.link = <<First, 1>>, !.issued = 1, !.open = TRUE].reply = NoState
        /\ [NewHost EXCEPT !.link = <<First, 1>>, !.issued = 1, !.open = TRUE].key = 0
    BY DEF NewHost
  <2> QED BY <2>1, <2>2, <2>3
<1>8. panel.key = 0 /\ panel.keys = 0 BY DEF Init
<1> QED BY <1>6, <1>7, <1>8 DEF Init, FleetInv, Known, PollKnows, MirrorEmpty, ReplyKnown, FrozenKnown, KeysIssued,
            OneAnswered, NoPoll, NoMirror

LEMMA FleetInvariant == Spec => []FleetInv
  BY FleetInit, FleetStep, PTL DEF Spec

(* The rows, the keys, the machines and the polls under way always have the *)
(* types they are declared with; what a machine is to apply is a state.     *)
THEOREM TypeCorrect == Spec => []TypeOK
<1>1. FleetInv => TypeOK BY DEF FleetInv
<1> QED BY <1>1, FleetInvariant, PTL

(* Polls, refreshes, claims and relinks, however many overlap, take neither *)
(* part of the mirror back, and show nothing of a machine that is replaced. *)
THEOREM MirrorAdvances == Spec => MirrorOnlyForward
<1> DEFINE Advances == IF mirror'.inst = mirror.inst
                       THEN mirror'.hotAt >= mirror.hotAt /\ mirror'.coldAt >= mirror.coldAt
                       ELSE mirror'.inst \in {panel.inst, Nobody}
<1>1. ASSUME FleetInv, [Next]_vars
      PROVE  Advances
  <2>0. TypeOK /\ Known /\ mirror \in Mirror BY <1>1, TypeIs DEF FleetInv
  <2>1. CASE mirror' = mirror
    BY <2>0, <2>1 DEF Mirror, Times
  <2>2. ASSUME NEW p \in Polls, ~Refused(p), mirror' = Mirrored(p), mirror' # mirror
        PROVE  Advances
    <3>1. /\ mirror'.inst = poll[p].data.inst /\ poll[p].data.inst \in Hosts
          /\ mirror'.inst = mirror.inst => mirror'.hotAt >= mirror.hotAt /\ mirror'.coldAt >= mirror.coldAt
      BY <2>0, <2>2, MirroredType
    <3>2. poll[p].data.inst = panel.inst BY <2>2, <3>1, NobodyAssumption DEF Refused, Online
    <3> QED BY <3>1, <3>2
  <2>3. CASE Forget
    BY <2>0, <2>3 DEF Forget, NoMirror, Known, MirrorEmpty
  <2>4. CASE UNCHANGED vars
    BY <2>1, <2>4 DEF vars
  <2>5. ASSUME NEW p \in Polls, Poll(p) \/ Begin(p, "refresh")
        PROVE  Advances
    <3>1. \/ mirror' = mirror
          \/ ~Refused(p) /\ mirror' = Mirrored(p)
      BY <2>5 DEF Poll, Begin, Ask, Unanswered, PrepareHot, PrepareFull, PrepareFails, Drop, Record, Refresh, IssueKey
    <3> HIDE DEF Advances
    <3> QED BY <2>1, <2>2, <3>1
  <2>6. ASSUME NEW h \in Hosts,
               Transferring(h) \/ Checking(h) \/ Edit(h) \/ Crash(h) \/ Install(h) \/ IssueLink(h)
               \/ \E lost \in BOOLEAN : Handshake(h, lost)
        PROVE  mirror' = mirror
    BY <2>6 DEF Transferring, Claim, Apply, LinkUp, MarkClaimed, Checking, AskVerdict, Heed, Edit, Crash, Install,
       IssueLink, Handshake
  <2>7. CASE Time \/ MoveAddress \/ Delete \/ Relink
    <3>1. mirror' = mirror BY <2>7 DEF Time, KeyExpires, ClearKey, MoveAddress, Delete, Relink
    <3> QED BY <2>1, <3>1
  <2> HIDE DEF Advances
  <2> QED BY <1>1, <2>1, <2>3, <2>4, <2>5, <2>6, <2>7 DEF Next, Admin
<1>2. FleetInv /\ [Next]_vars => [Advances]_vars BY <1>1
<1>3. MirrorOnlyForward <=> [][Advances]_vars BY DEF MirrorOnlyForward
<1> HIDE DEF Advances
<1> QED BY <1>2, <1>3, FleetInvariant, PTL DEF Spec

(* However often a claim is repeated, after whatever was lost, and whoever  *)
(* has the key: one machine is answered under it, always with one state.    *)
THEOREM OneStateToOneMachine == Spec => OneClaim
<1> DEFINE Once == \A h \in Hosts : host'[h].reply # host[h].reply =>
                     /\ host[h].reply = NoState
                     /\ \A g \in Hosts \ {h} : host[g].key # host[h].key \/ host[g].reply = NoState
<1>1. ASSUME FleetInv, [Next]_vars
      PROVE  Once
  <2> SUFFICES ASSUME NEW h \in Hosts, host'[h].reply # host[h].reply
               PROVE  /\ host[h].reply = NoState
                      /\ \A g \in Hosts \ {h} : host[g].key # host[h].key \/ host[g].reply = NoState
    OBVIOUS
  <2>0. TypeOK /\ host \in [Hosts -> Host] BY <1>1, TypeIs DEF FleetInv
  <2>1. ASSUME NEW p \in Polls, Poll(p) \/ Begin(p, "refresh")
        PROVE  host' = host
    BY <2>1 DEF Poll, Begin, Ask, Unanswered, PrepareHot, PrepareFull, PrepareFails, Drop, Record, Refresh, IssueKey, machines
  <2>2. ASSUME Time \/ MoveAddress \/ Delete \/ Relink \/ Forget \/ UNCHANGED vars
        PROVE  host' = host
    BY <2>2 DEF Time, KeyExpires, ClearKey, MoveAddress, Delete, Relink, Forget, vars, machines
  <2>3. ASSUME NEW g \in Hosts, \/ Apply(g) \/ LinkUp(g) \/ MarkClaimed(g) \/ Checking(g) \/ Crash(g)
        PROVE  host'[h].reply = host[h].reply
    BY <2>0, <2>3 DEF Apply, LinkUp, MarkClaimed, Checking, AskVerdict, Heed, Crash, Host
  <2>4. ASSUME NEW g \in Hosts, \/ Edit(g) \/ Install(g) \/ IssueLink(g) \/ \E lost \in BOOLEAN : Handshake(g, lost)
        PROVE  host'[h].reply = host[h].reply
    <3>1. ASSUME NEW state, host' = [host EXCEPT ![g].state = state]
          PROVE  host'[h].reply = host[h].reply
      BY <2>0, <3>1 DEF Host
    <3>2. CASE Edit(g)
      BY <3>1, <3>2 DEF Edit
    <3>3. ASSUME NEW lost \in BOOLEAN, Handshake(g, lost)
          PROVE  host'[h].reply = host[h].reply
      BY <2>0, <3>3 DEF Handshake, Host
    <3>4. CASE Install(g) \/ IssueLink(g)
      BY <2>0, <3>4 DEF Install, IssueLink, Host
    <3> QED BY <2>4, <3>2, <3>3, <3>4
  <2>5. PICK g \in Hosts, lost \in BOOLEAN : Claim(g, lost)
    <3>1. Next BY <1>1, <2>2
    <3>2. \A p \in Polls : ~Poll(p) /\ ~Begin(p, "refresh") BY <2>1
    <3>3. ~Time /\ ~MoveAddress /\ ~Delete /\ ~Relink /\ ~Forget BY <2>2
    <3>4. \A g \in Hosts : ~Apply(g) /\ ~LinkUp(g) /\ ~MarkClaimed(g) /\ ~Checking(g) /\ ~Crash(g) BY <2>3
    <3>5. \A g \in Hosts : ~Edit(g) /\ ~Install(g) /\ ~IssueLink(g) /\ \A lost \in BOOLEAN : ~Handshake(g, lost)
      BY <2>4
    <3> QED BY <3>1, <3>2, <3>3, <3>4, <3>5 DEF Next, Admin, Transferring
  <2>6. g = h /\ host'[h].reply = Reply(h)
    BY <2>0, <2>5 DEF Claim, Host
  <2>7. CASE Again(h)
    BY <1>1, <2>6, <2>7 DEF Again, Accepted, Reply, FleetInv, OneAnswered
  <2>8. CASE Anew(h)
    BY <1>1, <2>8 DEF Anew, Accepted, FleetInv, OneAnswered
  <2> QED BY <2>5, <2>6, <2>7, <2>8 DEF Claim
<1>2. FleetInv /\ [Next]_vars => [Once]_vars BY <1>1
<1>3. OneClaim <=> [][Once]_vars BY DEF OneClaim
<1> HIDE DEF Once
<1> QED BY <1>2, <1>3, FleetInvariant, PTL DEF Spec

-----------------------------------------------------------------------------
(* The mirror is real, as long as the machines are Steady.                  *)

(* Of what is known of a machine's state, at any time, hot and cold parts   *)
(* belong together, and nothing of it is of the future.                     *)
Real(state) ==
  state \in States => truth[state.hot] = state.cold /\ state.hot <= clock /\ state.cold <= clock
StatesReal == Real(panel.frozen) /\ \A h \in Hosts : Real(host[h].state) /\ Real(host[h].reply)
State(part) == [hot |-> part.hot, cold |-> part.cold]
AnswersReal ==
  \A p \in Polls : poll[p].data.inst \in Hosts => Real(State(poll[p].data)) /\ poll[p].data.at <= clock
MirrorReal ==
  IF mirror.inst = Nobody THEN mirror = NoMirror
  ELSE mirror.cold \in Colds /\ Real(State(mirror)) /\ mirror.hotAt <= clock

(* What was read of a machine now is what it has.                           *)
ReadNow ==
  \A p \in Polls : poll[p].data.inst \in Hosts /\ poll[p].data.at = clock =>
    poll[p].data.cold = host[poll[p].data.inst].state.cold

(* Nothing else was read of h between a time at which it had this cold part *)
(* and a later one, or now, at which it has it too.                         *)
Between(h, at, cold) ==
  \A p \in Polls : poll[p].data.inst = h /\ at <= poll[p].data.at =>
    /\ cold = host[h].state.cold => poll[p].data.cold = cold
    /\ \A q \in Polls : /\ poll[q].data.inst = h /\ poll[p].data.at <= poll[q].data.at
                        /\ poll[q].data.cold = cold
                        => poll[p].data.cold = cold
NoReturn ==
  \A h \in Hosts :
    /\ mirror.inst = h => Between(h, mirror.hotAt, mirror.cold)
    /\ \A p \in Polls : poll[p].data.inst = h => Between(h, poll[p].data.at, poll[p].data.cold)

(* A poll that found the cold part fresh: either the mirror still has it,   *)
(* or the hot part will not be taken.                                       *)
StillFresh ==
  \A p \in Polls : poll[p].part = "hot" =>
    IF mirror.inst = poll[p].data.inst
    THEN mirror.hotAt <= poll[p].data.at => mirror.cold = poll[p].data.cold
    ELSE ~There \/ panel.inst # poll[p].data.inst

Knowledge == StatesReal /\ AnswersReal /\ MirrorReal /\ ReadNow /\ NoReturn
RealInv == Knowledge /\ StillFresh

(* A poll that keeps what it knows, or has ended.                           *)
SameAnswer(p) == poll'[p].data = poll[p].data /\ poll'[p].part = poll[p].part
NoAnswer(p) == poll'[p].data.inst = Nobody /\ poll'[p].part = Nothing

(* Nothing new is learnt of the machines; answers may be forgotten, and     *)
(* their states be kept elsewhere.                                          *)
LEMMA KnowledgeKept ==
  ASSUME Knowledge, UNCHANGED <<mirror, truth, clock>>,
         \A p \in Polls : poll'[p].data = poll[p].data \/ poll'[p].data.inst = Nobody,
         \A h \in Hosts : /\ host'[h].state = host[h].state
                          /\ host'[h].reply = host[h].reply \/ Real(host'[h].reply),
         panel'.frozen = panel.frozen \/ Real(panel'.frozen)
  PROVE  Knowledge'
<1>1. \A p \in Polls : poll'[p].data.inst \in Hosts => poll'[p].data = poll[p].data
  BY NobodyAssumption
<1>2. StatesReal' BY DEF StatesReal, Knowledge, Real
<1>3. AnswersReal' BY <1>1 DEF AnswersReal, Knowledge, Real, State
<1>4. MirrorReal' BY DEF MirrorReal, Knowledge, Real, State
<1>5. ReadNow' BY <1>1 DEF ReadNow, Knowledge
<1>6. ASSUME NEW h \in Hosts, NEW at, NEW cold, Between(h, at, cold)
      PROVE  Between(h, at, cold)'
  BY <1>1, <1>6 DEF Between
<1>7. NoReturn' BY <1>1, <1>6 DEF NoReturn, Knowledge
<1> QED BY <1>2, <1>3, <1>4, <1>5, <1>7 DEF Knowledge

(* ... and the panel may go to another machine, but not back to one that    *)
(* somebody still has an answer of.                                         *)
LEMMA NothingLearnt ==
  ASSUME RealInv, UNCHANGED <<mirror, truth, clock>>,
         \A p \in Polls : SameAnswer(p) \/ NoAnswer(p),
         \A h \in Hosts : /\ host'[h].state = host[h].state
                          /\ host'[h].reply = host[h].reply \/ Real(host'[h].reply),
         panel'.frozen = panel.frozen \/ Real(panel'.frozen),
         There' => /\ There
                   /\ panel'.inst = panel.inst \/ ~Watched(panel'.inst) \/ panel'.inst = mirror.inst
  PROVE  RealInv'
<1>1. Knowledge'
  <2>1. \A p \in Polls : poll'[p].data = poll[p].data \/ poll'[p].data.inst = Nobody
    BY DEF SameAnswer, NoAnswer
  <2> QED BY <2>1, KnowledgeKept DEF RealInv
<1>2. StillFresh'
  <2> SUFFICES ASSUME NEW p \in Polls, poll'[p].part = "hot"
               PROVE  IF mirror'.inst = poll'[p].data.inst
                      THEN mirror'.hotAt <= poll'[p].data.at => mirror'.cold = poll'[p].data.cold
                      ELSE ~There' \/ panel'.inst # poll'[p].data.inst
    BY DEF StillFresh
  <2>1. poll'[p].data = poll[p].data /\ poll[p].part = "hot" BY DEF SameAnswer, NoAnswer, Nothing
  <2>2. panel'.inst = poll[p].data.inst => Watched(panel'.inst) BY DEF Watched
  <2> QED BY <2>1, <2>2 DEF StillFresh, RealInv
<1> QED BY <1>1, <1>2 DEF RealInv

(* A machine answers: what it has now is new, and fits in between.          *)
LEMMA Answered ==
  ASSUME FleetInv, RealInv, NEW p \in Polls, NEW row \in PollRow,
         row.data = Snapshot, row.part # "hot", poll' = [poll EXCEPT ![p] = row],
         UNCHANGED <<panel, mirror, host, truth, clock>>
  PROVE  RealInv'
<1> DEFINE h == address
           state == host[h].state
<1>0. TypeOK /\ h \in Hosts /\ clock \in Nat /\ state \in States
  BY TypeIs DEF FleetInv, Host
<1>1. poll'[p] = row /\ \A q \in Polls \ {p} : poll'[q] = poll[q] BY <1>0, TypeIs
<1>2. row.data.inst = h /\ row.data.hot = state.hot /\ row.data.cold = state.cold /\ row.data.at = clock
  BY DEF Snapshot
<1>3. \A q \in Polls : poll[q].data.at \in Nat /\ (poll[q].data.inst \in Hosts => poll[q].data.at <= clock)
  BY <1>0, TypeIs DEF PollRow, Data, Times, RealInv, Knowledge, AnswersReal
<1>4. Real(state) /\ Real(State(row.data))
  <2>1. State(row.data) = state BY <1>0, <1>2 DEF State, States
  <2> QED BY <1>0, <2>1 DEF RealInv, Knowledge, StatesReal
<1>5. StatesReal' BY DEF StatesReal, RealInv, Knowledge, Real
<1>6. AnswersReal' BY <1>0, <1>1, <1>2, <1>4 DEF AnswersReal, RealInv, Knowledge, Real, State
<1>7. MirrorReal' BY DEF MirrorReal, RealInv, Knowledge, Real, State
<1>8. ReadNow' BY <1>1, <1>2 DEF ReadNow, RealInv, Knowledge
<1> HIDE DEF h, state
<1>9. ASSUME NEW g \in Hosts, NEW at \in Nat, NEW cold, at <= clock, Between(g, at, cold)
      PROVE  Between(g, at, cold)'
  <2> SUFFICES ASSUME NEW q \in Polls, poll'[q].data.inst = g, at <= poll'[q].data.at
               PROVE  /\ cold = host[g].state.cold => poll'[q].data.cold = cold
                      /\ \A r \in Polls : /\ poll'[r].data.inst = g /\ poll'[q].data.at <= poll'[r].data.at
                                          /\ poll'[r].data.cold = cold
                                          => poll'[q].data.cold = cold
    BY DEF Between
  <2>1. cold = host[g].state.cold => poll'[q].data.cold = cold
    BY <1>1, <1>2, <1>9 DEF Between, h, state
  <2>2. ASSUME NEW r \in Polls, poll'[r].data.inst = g, poll'[q].data.at <= poll'[r].data.at,
               poll'[r].data.cold = cold
        PROVE  poll'[q].data.cold = cold
    <3>1. CASE r = p
      BY <1>1, <1>2, <2>1, <2>2, <3>1 DEF h, state
    <3>2. CASE r # p /\ q # p
      BY <1>1, <1>9, <2>2, <3>2 DEF Between
    <3>3. CASE r # p /\ q = p
      <4>1. poll[r].data.at = clock /\ poll[r].data.inst = g /\ g = h
        BY <1>0, <1>1, <1>2, <1>3, <2>2, <3>3
      <4>2. poll[r].data.cold = host[g].state.cold BY <4>1 DEF RealInv, Knowledge, ReadNow
      <4> QED BY <1>1, <1>2, <2>2, <3>3, <4>1, <4>2 DEF h, state
    <3> QED BY <3>1, <3>2, <3>3
  <2> QED BY <2>1, <2>2
<1>10. Between(h, clock, state.cold)
  <2> SUFFICES ASSUME NEW q \in Polls, poll[q].data.inst = h, clock <= poll[q].data.at
               PROVE  poll[q].data.cold = state.cold
    BY DEF Between
  <2>1. poll[q].data.at = clock BY <1>0, <1>3
  <2> QED BY <1>0, <2>1 DEF RealInv, Knowledge, ReadNow, h, state
<1>11. NoReturn'
  <2> SUFFICES ASSUME NEW g \in Hosts, NEW at, NEW cold,
                      \/ mirror'.inst = g /\ at = mirror'.hotAt /\ cold = mirror'.cold
                      \/ \E q \in Polls : /\ poll'[q].data.inst = g
                                          /\ at = poll'[q].data.at /\ cold = poll'[q].data.cold
               PROVE  Between(g, at, cold)'
    BY DEF NoReturn
  <2>1. CASE mirror'.inst = g /\ at = mirror'.hotAt /\ cold = mirror'.cold
    <3>1. mirror.hotAt \in Nat /\ g # Nobody BY <1>0, TypeIs, NobodyAssumption DEF Mirror, Times
    <3>2. at <= clock /\ Between(g, at, cold)
      BY <2>1, <3>1 DEF RealInv, Knowledge, NoReturn, MirrorReal
    <3> QED BY <1>9, <2>1, <3>1, <3>2
  <2>2. ASSUME NEW q \in Polls, poll'[q].data.inst = g, at = poll'[q].data.at, cold = poll'[q].data.cold
        PROVE  Between(g, at, cold)'
    <3>1. CASE q = p
      BY <1>0, <1>1, <1>2, <1>9, <1>10, <2>2, <3>1 DEF state, h
    <3>2. CASE q # p
      <4>1. Between(g, at, cold) /\ at \in Nat /\ at <= clock
        BY <1>1, <1>3, <2>2, <3>2 DEF RealInv, Knowledge, NoReturn
      <4> QED BY <1>9, <4>1
    <3> QED BY <3>1, <3>2
  <2> QED BY <2>1, <2>2
<1>12. StillFresh' BY <1>1 DEF StillFresh, RealInv, There
<1> QED BY <1>5, <1>6, <1>7, <1>8, <1>11, <1>12 DEF RealInv, Knowledge

(* A machine changes: a cold part that somebody has an answer of stays, or  *)
(* has never been before.                                                   *)
LEMMA Changed ==
  ASSUME FleetInv, RealInv, UNCHANGED <<panel, mirror, poll>>,
         clock' \in {clock, clock + 1},
         \A k \in 0..MaxEdits : k <= clock => truth'[k] = truth[k],
         \A h \in Hosts :
           /\ Real(host[h].state)' /\ host'[h].reply = host[h].reply
           /\ Watched(h) => \/ host'[h].state.cold = host[h].state.cold
                            \/ clock' = clock + 1 /\ host'[h].state.cold = clock + 1
  PROVE  RealInv'
<1>0. TypeOK /\ clock \in Nat /\ MaxEdits \in Nat /\ clock <= clock'
  BY FleetAssumption, TypeIs DEF FleetInv
<1>1. \A p \in Polls : /\ poll[p].data \in Data /\ poll[p].data.at \in Nat
                       /\ poll[p].data.inst \in Hosts =>
                            poll[p].data.at <= clock /\ poll[p].data.cold <= clock /\ poll[p].data.cold \in Nat
  <2> SUFFICES ASSUME NEW p \in Polls
               PROVE  /\ poll[p].data \in Data /\ poll[p].data.at \in Nat
                      /\ poll[p].data.inst \in Hosts =>
                           poll[p].data.at <= clock /\ poll[p].data.cold <= clock /\ poll[p].data.cold \in Nat
    OBVIOUS
  <2>1. poll[p].data \in Data BY <1>0, TypeIs DEF PollRow
  <2>2. State(poll[p].data) \in States BY <2>1 DEF Data, State, States
  <2> QED BY <2>1, <2>2 DEF RealInv, Knowledge, AnswersReal, Real, State, Data, Times, Colds
<1>2. ASSUME NEW state, Real(state)
      PROVE  (state \in States => truth[state.hot] = state.cold /\ state.hot <= clock /\ state.cold <= clock)'
  <2> SUFFICES ASSUME state \in States
               PROVE  truth'[state.hot] = state.cold /\ state.hot <= clock' /\ state.cold <= clock'
    OBVIOUS
  <2>1. state.hot \in 0..MaxEdits /\ state.cold \in Nat BY DEF States, Colds
  <2>2. truth[state.hot] = state.cold /\ state.hot <= clock /\ state.cold <= clock BY <1>2 DEF Real
  <2> QED BY <1>0, <2>1, <2>2
<1>3. StatesReal' BY <1>2 DEF StatesReal, RealInv, Knowledge, Real
<1>4. AnswersReal' BY <1>0, <1>1, <1>2 DEF AnswersReal, RealInv, Knowledge, Real, State
<1>5. MirrorReal'
  <2>1. mirror.hotAt \in Nat BY <1>0, TypeIs DEF Mirror, Times
  <2> QED BY <1>0, <1>2, <2>1 DEF MirrorReal, RealInv, Knowledge, Real, State
<1>6. ASSUME NEW p \in Polls, NEW cold \in Nat, poll[p].data.inst \in Hosts, cold <= clock,
             host'[poll[p].data.inst].state.cold = cold
      PROVE  host[poll[p].data.inst].state.cold = cold
  BY <1>0, <1>6 DEF Watched
<1>7. ReadNow'
  <2> SUFFICES ASSUME NEW p \in Polls, poll[p].data.inst \in Hosts, poll[p].data.at = clock'
               PROVE  poll[p].data.cold = host'[poll[p].data.inst].state.cold
    BY DEF ReadNow
  <2>1. clock' = clock BY <1>0, <1>1
  <2>2. Watched(poll[p].data.inst) BY DEF Watched
  <2>3. host'[poll[p].data.inst].state.cold = host[poll[p].data.inst].state.cold
    BY <1>0, <2>1, <2>2
  <2> QED BY <2>1, <2>3 DEF RealInv, Knowledge, ReadNow
<1>8. NoReturn'
  <2> SUFFICES ASSUME NEW h \in Hosts, NEW at, NEW cold,
                      \/ mirror.inst = h /\ at = mirror.hotAt /\ cold = mirror.cold
                      \/ \E q \in Polls : /\ poll[q].data.inst = h
                                          /\ at = poll[q].data.at /\ cold = poll[q].data.cold
               PROVE  Between(h, at, cold)'
    BY DEF NoReturn
  <2>1. Between(h, at, cold) BY DEF RealInv, Knowledge, NoReturn
  <2>2. cold \in Nat /\ cold <= clock
    <3>1. CASE mirror.inst = h /\ cold = mirror.cold
      <4>1. mirror \in Mirror /\ mirror.inst # Nobody BY <1>0, <3>1, TypeIs, NobodyAssumption
      <4>2. mirror.cold \in Colds /\ Real(State(mirror)) BY <4>1 DEF RealInv, Knowledge, MirrorReal
      <4>3. State(mirror) \in States BY <4>1, <4>2 DEF State, States, Mirror
      <4> QED BY <3>1, <4>2, <4>3 DEF Real, State, Colds
    <3>2. CASE \E q \in Polls : poll[q].data.inst = h /\ cold = poll[q].data.cold
      BY <1>1, <3>2
    <3> QED BY <3>1, <3>2
  <2> SUFFICES ASSUME NEW p \in Polls, poll[p].data.inst = h, at <= poll[p].data.at
               PROVE  /\ cold = host'[h].state.cold => poll[p].data.cold = cold
                      /\ \A q \in Polls : /\ poll[q].data.inst = h /\ poll[p].data.at <= poll[q].data.at
                                          /\ poll[q].data.cold = cold
                                          => poll[p].data.cold = cold
    BY DEF Between
  <2> QED BY <1>6, <2>1, <2>2 DEF Between
<1>9. StillFresh' BY DEF StillFresh, RealInv, There
<1> QED BY <1>3, <1>4, <1>5, <1>7, <1>8, <1>9 DEF RealInv, Knowledge

(* What a poll brings, if it is taken: the cold part of its answer, whether *)
(* the mirror has it already or the poll brings it.                         *)
LEMMA Taken ==
  ASSUME FleetInv, RealInv, NEW p \in Polls, ~Refused(p), Mirrored(p) # mirror
  PROVE  /\ poll[p].data.inst \in Hosts /\ poll[p].data.inst = panel.inst /\ There
         /\ Mirrored(p).inst = poll[p].data.inst /\ Mirrored(p).hotAt = poll[p].data.at
         /\ State(Mirrored(p)) = State(poll[p].data)
         /\ mirror.inst = poll[p].data.inst => mirror.hotAt <= poll[p].data.at
<1> DEFINE d == poll[p].data
<1>1. TypeOK /\ mirror \in Mirror /\ d \in Data /\ NoMirror \in Mirror BY TypeIs, Constants DEF FleetInv, PollRow
<1>2. poll[p].part \in {"hot", "full"}
  BY <1>1, TypeIs DEF Mirrored, PollRow
<1>3. d.inst \in Hosts BY <1>2 DEF FleetInv, Known, PollKnows, Nothing
<1>4. There /\ d.inst = panel.inst BY <1>3, NobodyAssumption DEF Refused, Online
<1>5. d.at \in Nat /\ mirror.hotAt \in Nat BY <1>1 DEF Mirror, Data, Times
<1> HIDE DEF d
<1>6. ASSUME ~Older(d)
      PROVE  /\ Hot(d).inst = d.inst /\ Hot(d).hot = d.hot /\ Hot(d).hotAt = d.at /\ Hot(d) \in Mirror
             /\ mirror.inst = d.inst => Hot(d).cold = mirror.cold /\ mirror.hotAt <= d.at
  <2> DEFINE kept == IF mirror.inst = d.inst THEN mirror ELSE NoMirror
  <2>1. kept \in Mirror BY <1>1
  <2>2. Hot(d) = [kept EXCEPT !.inst = d.inst, !.hot = d.hot, !.hotAt = d.at] BY <1>6 DEF Hot
  <2>3. mirror.inst = d.inst => mirror.hotAt <= d.at /\ kept = mirror BY <1>5, <1>6 DEF Older
  <2> HIDE DEF kept
  <2> QED BY <1>1, <2>1, <2>2, <2>3 DEF Mirror, Data
<1>7. CASE poll[p].part = "full"
  <2>1. Mirrored(p) = Full(d) BY <1>7 DEF Mirrored, d
  <2>2. ~OlderFull(d) /\ Full(d) = [Hot(d) EXCEPT !.cold = d.cold, !.coldAt = d.at] BY <2>1 DEF Full
  <2>3. ~Older(d) BY <2>2 DEF Older, OlderFull
  <2>4. Full(d).inst = d.inst /\ Full(d).hot = d.hot /\ Full(d).hotAt = d.at /\ Full(d).cold = d.cold
    BY <1>1, <1>6, <2>2, <2>3 DEF Mirror, Data
  <2> QED BY <1>3, <1>4, <1>6, <2>1, <2>3, <2>4 DEF d, State
<1>8. CASE poll[p].part = "hot"
  <2>1. Mirrored(p) = Hot(d) BY <1>8 DEF Mirrored, d
  <2>2. ~Older(d) BY <2>1 DEF Hot
  <2>3. mirror.inst = d.inst /\ mirror.cold = d.cold
    BY <1>4, <1>5, <1>6, <1>8, <2>2 DEF RealInv, StillFresh, d
  <2> QED BY <1>3, <1>4, <1>6, <2>1, <2>2, <2>3 DEF d, State
<1> QED BY <1>2, <1>7, <1>8

(* A poll is recorded.                                                      *)
LEMMA Recorded ==
  ASSUME FleetInv, RealInv, NEW p \in Polls, ~Refused(p),
         mirror' = Mirrored(p), mirror' # mirror,
         UNCHANGED machines, UNCHANGED clock, NoAnswer(p), \A q \in Polls \ {p} : SameAnswer(q),
         UNCHANGED <<panel.row, panel.inst, panel.frozen>>
  PROVE  RealInv'
<1> DEFINE d == poll[p].data
           h == panel.inst
<1>0. TypeOK /\ d \in Data /\ mirror' \in Mirror BY MirroredType, TypeIs DEF FleetInv, PollRow
<1>1. /\ h \in Hosts /\ d.inst = h /\ There /\ mirror'.inst = h /\ mirror'.hotAt = d.at
      /\ State(mirror') = State(d)
      /\ mirror.inst = h => mirror.hotAt <= d.at
  BY Taken
<1>2. mirror'.cold = d.cold BY <1>1 DEF State
<1>3. \A q \in Polls : poll'[q].data.inst \in Hosts => q # p /\ poll'[q].data = poll[q].data
  BY NobodyAssumption DEF SameAnswer, NoAnswer
<1>4. StatesReal' BY DEF StatesReal, RealInv, Knowledge, Real, machines
<1>5. AnswersReal' BY <1>3 DEF AnswersReal, RealInv, Knowledge, Real, State, machines
<1>6. MirrorReal'
  <2>1. mirror'.inst # Nobody BY <1>1, NobodyAssumption
  <2>2. Real(State(d)) /\ d.at <= clock BY <1>1 DEF RealInv, Knowledge, AnswersReal
  <2>3. Real(State(mirror))' BY <1>1, <2>2 DEF Real, State, machines
  <2> QED BY <1>0, <1>1, <1>2, <2>1, <2>2, <2>3 DEF MirrorReal, Data
<1>7. ReadNow' BY <1>3 DEF ReadNow, RealInv, Knowledge, machines
<1>8. ASSUME NEW g \in Hosts, NEW at, NEW cold, Between(g, at, cold)
      PROVE  Between(g, at, cold)'
  BY <1>3, <1>8 DEF Between, machines
<1>9. NoReturn'
  <2> SUFFICES ASSUME NEW g \in Hosts, NEW at, NEW cold,
                      \/ mirror'.inst = g /\ at = mirror'.hotAt /\ cold = mirror'.cold
                      \/ \E q \in Polls : /\ poll'[q].data.inst = g
                                          /\ at = poll'[q].data.at /\ cold = poll'[q].data.cold
               PROVE  Between(g, at, cold)'
    BY DEF NoReturn
  <2>1. \E q \in Polls : poll[q].data.inst = g /\ at = poll[q].data.at /\ cold = poll[q].data.cold
    BY <1>1, <1>2, <1>3
  <2>2. Between(g, at, cold) BY <2>1 DEF RealInv, Knowledge, NoReturn
  <2> QED BY <1>8, <2>2
<1>10. StillFresh'
  <2> SUFFICES ASSUME NEW q \in Polls, poll'[q].part = "hot"
               PROVE  IF mirror'.inst = poll'[q].data.inst
                      THEN mirror'.hotAt <= poll'[q].data.at => mirror'.cold = poll'[q].data.cold
                      ELSE ~There' \/ panel'.inst # poll'[q].data.inst
    BY DEF StillFresh
  <2>1. q # p /\ poll'[q].data = poll[q].data /\ poll[q].part = "hot"
    BY DEF SameAnswer, NoAnswer, Nothing
  <2> DEFINE e == poll[q].data
  <2>2. SUFFICES ASSUME e.inst = h, d.at <= e.at
                 PROVE  d.cold = e.cold
    BY <1>1, <1>2, <2>1
  <2>3. d.at \in Nat /\ e.at \in Nat /\ mirror.hotAt \in Nat
    BY <1>0, TypeIs DEF PollRow, Data, Times, Mirror
  <2>4. mirror.inst = h /\ mirror.hotAt <= d.at
    BY <1>1, <2>1, <2>2 DEF RealInv, StillFresh
  <2>5. mirror.cold = e.cold
    BY <2>1, <2>2, <2>3, <2>4 DEF RealInv, StillFresh
  <2>6. Between(h, mirror.hotAt, mirror.cold) BY <1>1, <2>4 DEF RealInv, Knowledge, NoReturn
  <2> QED BY <1>1, <2>2, <2>4, <2>5, <2>6 DEF Between
<1> QED BY <1>4, <1>5, <1>6, <1>7, <1>9, <1>10 DEF RealInv, Knowledge

LEMMA EndsAnswer ==
  ASSUME TypeOK, NEW p \in Polls, NEW pc, NEW applied, NEW put, Ends(p, pc, applied, put)
  PROVE  NoAnswer(p) /\ \A q \in Polls \ {p} : SameAnswer(q)
<1>1. poll'[p] = [NoPoll EXCEPT !.pc = pc] BY DEF Ends
<1>2. NoAnswer(p) BY <1>1 DEF NoAnswer, NoPoll, NoData
<1>3. ASSUME NEW q \in Polls \ {p}
      PROVE  SameAnswer(q)
  <2>1. poll[q] \in PollRow BY TypeIs
  <2> QED BY <2>1 DEF Ends, SameAnswer, PollRow
<1> QED BY <1>2, <1>3

LEMMA RealPollSteps ==
  ASSUME FleetInv, FleetInv', RealInv, NEW p \in Polls, Poll(p) \/ Begin(p, "refresh")
  PROVE  RealInv'
<1>0. TypeOK /\ poll \in [Polls -> PollRow] /\ poll' \in [Polls -> PollRow] BY TypeIs DEF FleetInv, TypeOK, PollRow, Times
<1>1. ASSUME NoAnswer(p) \/ SameAnswer(p), \A q \in Polls \ {p} : SameAnswer(q),
             UNCHANGED machines, UNCHANGED <<mirror, clock, panel.row, panel.inst>>,
             panel'.frozen = panel.frozen \/ panel'.frozen = NoState
      PROVE  RealInv'
  <2>1. Real(NoState) BY Constants DEF Real
  <2> QED BY <1>1, <2>1, NothingLearnt DEF machines, There
<1>2. ASSUME NEW kind, Begin(p, kind)
      PROVE  RealInv'
  <2>1. poll'[p].data = NoData /\ poll'[p].part = Nothing /\ \A q \in Polls \ {p} : poll'[q] = poll[q]
    BY <1>0, <1>2 DEF Begin, NoPoll
  <2> QED BY <1>1, <1>2, <2>1 DEF Begin, NoAnswer, SameAnswer, NoData
<1>3. CASE Unanswered(p) \/ PrepareFails(p)
  <2>1. \A q \in Polls : SameAnswer(q) BY <1>0, <1>3 DEF Unanswered, PrepareFails, SameAnswer, PollRow
  <2> QED BY <1>1, <1>3, <2>1 DEF Unanswered, PrepareFails
<1>4. ASSUME UNCHANGED <<panel, mirror, machines, clock>>, poll'[p].data = Snapshot, poll'[p].part # "hot",
             poll' = [poll EXCEPT ![p] = poll'[p]]
      PROVE  RealInv'
  <2> DEFINE row == poll'[p]
  <2>1. row \in PollRow /\ row.data = Snapshot /\ row.part # "hot" /\ poll' = [poll EXCEPT ![p] = row]
    BY <1>0, <1>4
  <2> HIDE DEF row
  <2> QED BY <1>4, <2>1, Answered DEF machines
<1>5. CASE Ask(p)
  <2>1. poll'[p].data = Snapshot /\ poll'[p].part # "hot" /\ poll' = [poll EXCEPT ![p] = poll'[p]]
    BY <1>0, <1>5 DEF Ask, PollRow, Nothing
  <2> QED BY <1>4, <1>5, <2>1 DEF Ask
<1>6. CASE PrepareFull(p)
  <2>1. poll'[p].data = Snapshot /\ poll'[p].part # "hot" /\ poll' = [poll EXCEPT ![p] = poll'[p]]
    BY <1>0, <1>6 DEF PrepareFull, PollRow
  <2> QED BY <1>4, <1>6, <2>1 DEF PrepareFull
<1>7. CASE PrepareHot(p)
  <2>1. /\ \A q \in Polls : poll'[q].data = poll[q].data
        /\ \A q \in Polls \ {p} : poll'[q] = poll[q]
        /\ UNCHANGED <<panel, mirror, truth, clock, host>>
    BY <1>0, <1>7 DEF PrepareHot, PollRow, machines
  <2>2. Knowledge' BY <2>1, KnowledgeKept DEF RealInv
  <2>3. mirror.inst = poll[p].data.inst /\ mirror.cold = poll[p].data.cold BY <1>7 DEF PrepareHot, Fresh
  <2>4. StillFresh'
    <3> SUFFICES ASSUME NEW q \in Polls, q # p, poll[q].part = "hot"
                 PROVE  IF mirror.inst = poll[q].data.inst
                        THEN mirror.hotAt <= poll[q].data.at => mirror.cold = poll[q].data.cold
                        ELSE ~There \/ panel.inst # poll[q].data.inst
      BY <2>1, <2>3 DEF StillFresh, There
    <3> QED BY DEF RealInv, StillFresh
  <2> QED BY <2>2, <2>4 DEF RealInv
<1>8. CASE Drop(p) \/ IssueKey(p)
  <2>1. NoAnswer(p) /\ \A q \in Polls \ {p} : SameAnswer(q) BY <1>0, <1>8, EndsAnswer DEF Drop, IssueKey
  <2>2. /\ panel'.row = panel.row /\ panel'.inst = panel.inst
        /\ panel'.frozen = panel.frozen \/ panel'.frozen = NoState
    <3>1. panel \in Panel BY <1>0, TypeIs
    <3> QED BY <1>8, <3>1 DEF Drop, IssueKey, Panel
  <2> QED BY <1>1, <1>8, <2>1, <2>2 DEF Drop, IssueKey
<1>9. ASSUME Refresh(p) \/ \E failed \in {"none", "redis", "mirror", "commit"} : Record(p, failed)
      PROVE  RealInv'
  <2>1. NoAnswer(p) /\ \A q \in Polls \ {p} : SameAnswer(q) BY <1>0, <1>9, EndsAnswer DEF Refresh, Record
  <2>2. panel'.row = panel.row /\ panel'.inst = panel.inst /\ panel'.frozen = panel.frozen
    <3>1. panel \in Panel BY <1>0, TypeIs
    <3> QED BY <1>9, <3>1 DEF Refresh, Record, Panel
  <2>3. ~Refused(p) /\ mirror' \in {mirror, Mirrored(p)} /\ UNCHANGED <<machines, clock>>
    BY <1>9 DEF Refresh, Record
  <2>4. CASE mirror' = mirror
    BY <1>1, <2>1, <2>2, <2>3, <2>4
  <2>5. CASE mirror' # mirror
    BY <2>1, <2>2, <2>3, <2>5, Recorded
  <2> QED BY <2>4, <2>5
<1> QED BY <1>2, <1>3, <1>5, <1>6, <1>7, <1>8, <1>9 DEF Poll

LEMMA RealMachineSteps ==
  ASSUME FleetInv, RealInv, Steady, NEW h \in Hosts,
         \/ Transferring(h) \/ Checking(h) \/ Edit(h) \/ Crash(h) \/ Install(h) \/ IssueLink(h)
         \/ \E lost \in BOOLEAN : Handshake(h, lost)
  PROVE  RealInv'
<1>0. /\ TypeOK /\ host \in [Hosts -> Host] /\ truth \in [0..MaxEdits -> Colds] /\ clock \in Nat
      /\ panel \in Panel /\ mirror \in Mirror /\ MaxEdits \in Nat
  BY FleetAssumption, TypeIs DEF FleetInv
<1>1. \A q \in Polls : poll' = poll => SameAnswer(q) BY DEF SameAnswer
<1>2. ASSUME UNCHANGED <<panel, mirror, truth, poll, clock>>,
             \A g \in Hosts : host'[g].state = host[g].state /\ host'[g].reply = host[g].reply
      PROVE  RealInv'
  BY <1>1, <1>2, NothingLearnt DEF There
<1>3. CASE LinkUp(h) \/ MarkClaimed(h) \/ Crash(h) \/ Install(h) \/ IssueLink(h)
  <2>1. UNCHANGED <<panel, mirror, truth, poll, clock>>
    BY <1>3 DEF LinkUp, MarkClaimed, Crash, Install, IssueLink
  <2>2. ASSUME NEW g \in Hosts
        PROVE  host'[g].state = host[g].state /\ host'[g].reply = host[g].reply
    <3>1. host[g] \in Host BY <1>0
    <3>2. CASE LinkUp(h)
      BY <1>0, <3>1, <3>2 DEF LinkUp, Host
    <3>3. CASE MarkClaimed(h)
      BY <1>0, <3>1, <3>3 DEF MarkClaimed, Host
    <3>4. CASE Crash(h) \/ Install(h)
      BY <1>0, <3>1, <3>4 DEF Crash, Install, Host
    <3>5. CASE IssueLink(h)
      BY <1>0, <3>1, <3>5 DEF IssueLink, Host
    <3> QED BY <1>3, <3>2, <3>3, <3>4, <3>5
  <2> QED BY <1>2, <2>1, <2>2
<1>4. ASSUME NEW lost \in BOOLEAN, Handshake(h, lost)
      PROVE  RealInv'
  BY <1>0, <1>2, <1>4 DEF Handshake, Host
<1>5. CASE Checking(h)
  BY <1>0, <1>2, <1>5 DEF Checking, AskVerdict, Heed, Host
<1>6. ASSUME NEW lost \in BOOLEAN, Claim(h, lost)
      PROVE  RealInv'
  <2>1. UNCHANGED <<mirror, truth, poll, clock>> /\ panel' = Claimed(h) BY <1>6 DEF Claim
  <2>2. Real(Reply(h)) /\ (panel'.frozen = panel.frozen \/ Real(panel'.frozen))
    <3>1. Again(h) => Reply(h) = panel.frozen /\ panel' = panel BY <2>1 DEF Reply, Claimed
    <3>2. ~Again(h) => Reply(h) = Kept /\ panel'.frozen = Kept BY <1>0, <2>1 DEF Reply, Claimed, Panel
    <3>3. Real(panel.frozen) BY DEF RealInv, Knowledge, StatesReal
    <3>4. ASSUME ~Again(h)
          PROVE  Real(Kept)
      <4>1. mirror.cold # NoCold BY <1>6, <3>4 DEF Claim, Anew, Complete
      <4>2. mirror.inst # Nobody BY <4>1 DEF RealInv, Knowledge, MirrorReal, NoMirror
      <4> QED BY <4>2 DEF RealInv, Knowledge, MirrorReal, Kept, State
    <3> QED BY <3>1, <3>2, <3>3, <3>4
  <2>3. \A g \in Hosts : host'[g].state = host[g].state /\ host'[g].reply \in {host[g].reply, Reply(h)}
    BY <1>0, <1>6 DEF Claim, Host
  <2>4. panel'.row = panel.row /\ panel'.inst \in Hosts /\ (panel'.inst = panel.inst \/ panel'.inst = h)
    BY <1>0, <2>1 DEF Claimed, Panel
  <2>5. Watched(panel'.inst) => panel'.inst \in {panel.inst, mirror.inst} BY <2>4 DEF Steady
  <2> QED BY <1>1, <2>1, <2>2, <2>3, <2>4, <2>5, NothingLearnt DEF There
<1>7. CASE Apply(h)
  <2>1. host[h].reply \in States BY <1>7 DEF Apply, FleetInv, Known, ReplyKnown
  <2>2. UNCHANGED <<panel, mirror, truth, poll>> /\ clock' \in {clock, clock + 1} BY <1>7 DEF Apply
  <2>3. \A g \in Hosts : /\ host'[g].state = IF g = h THEN host[h].reply ELSE host[g].state
                         /\ host'[g].reply = host[g].reply
    BY <1>0, <1>7 DEF Apply, Host
  <2>4. ASSUME NEW state, Real(state)
        PROVE  state \in States => truth'[state.hot] = state.cold /\ state.hot <= clock' /\ state.cold <= clock'
    BY <1>0, <2>2, <2>4 DEF Real, States, Colds
  <2>5. \A g \in Hosts : Real(host[g].state)'
    BY <2>3, <2>4 DEF RealInv, Knowledge, StatesReal, Real
  <2>6. ASSUME NEW g \in Hosts, Watched(g)
        PROVE  host'[g].state.cold = host[g].state.cold
    <3>1. g = h => host'[g].state.cold <= clock /\ host'[g].state.cold \in Nat
      BY <2>1, <2>3 DEF RealInv, Knowledge, StatesReal, Real, States, Colds
    <3>2. host'[g].state.cold \in {host[g].state.cold, clock + 1} BY <2>6 DEF Steady
    <3> QED BY <1>0, <2>3, <3>1, <3>2
  <2> QED BY <2>2, <2>3, <2>5, <2>6, Changed
<1>8. CASE Edit(h)
  <2>1. PICK cold \in {host[h].state.cold, clock + 1} \cup (IF Undo THEN 0..clock ELSE {}) :
          /\ host' = [host EXCEPT ![h].state = [hot |-> clock + 1, cold |-> cold]]
          /\ truth' = [truth EXCEPT ![clock + 1] = cold]
    BY <1>8 DEF Edit
  <2>2. UNCHANGED <<panel, mirror, poll>> /\ clock' = clock + 1 /\ clock + 1 \in 0..MaxEdits
    BY <1>0, <1>8 DEF Edit
  <2>3. \A g \in Hosts : host[g].state \in States /\ Real(host[g].state)
    BY <1>0 DEF RealInv, Knowledge, StatesReal, Host
  <2>4. cold \in Nat /\ cold <= clock + 1
    <3>1. host[h].state.cold \in Nat /\ host[h].state.cold <= clock BY <2>3 DEF Real, States, Colds
    <3>2. cold \in 0..(clock + 1)
      <4>1. host[h].state.cold \in 0..(clock + 1) /\ clock + 1 \in 0..(clock + 1) /\ 0..clock \subseteq 0..(clock + 1)
        BY <1>0, <3>1
      <4> QED BY <2>1, <4>1, Zenon
    <3> QED BY <1>0, <3>2
  <2>5. truth'[clock + 1] = cold /\ \A k \in 0..MaxEdits : k <= clock => truth'[k] = truth[k]
    BY <1>0, <2>1, <2>2
  <2>6. \A g \in Hosts : /\ host'[g].state = IF g = h THEN [hot |-> clock + 1, cold |-> cold] ELSE host[g].state
                         /\ host'[g].reply = host[g].reply
    BY <1>0, <2>1 DEF Host
  <2>7. \A g \in Hosts : Real(host[g].state)'
    <3> SUFFICES ASSUME NEW g \in Hosts
                 PROVE  LET state == host'[g].state
                        IN truth'[state.hot] = state.cold /\ state.hot <= clock' /\ state.cold <= clock'
      BY DEF Real
    <3>1. CASE g = h
      BY <1>0, <2>2, <2>4, <2>5, <2>6, <3>1
    <3>2. CASE g # h
      <4>1. host'[g].state = host[g].state BY <2>6, <3>2
      <4>2. LET state == host[g].state
            IN /\ state.hot \in 0..MaxEdits /\ state.cold \in Nat
               /\ truth[state.hot] = state.cold /\ state.hot <= clock /\ state.cold <= clock
        BY <2>3 DEF Real, States, Colds
      <4> QED BY <1>0, <2>2, <2>5, <4>1, <4>2
    <3> QED BY <3>1, <3>2
  <2>8. \A g \in Hosts : Watched(g) => host'[g].state.cold \in {host[g].state.cold, clock + 1}
    BY DEF Steady
  <2> QED BY <2>2, <2>5, <2>6, <2>7, <2>8, Changed
<1> QED BY <1>3, <1>4, <1>5, <1>6, <1>7, <1>8 DEF Transferring

LEMMA RealPanelSteps ==
  ASSUME FleetInv, RealInv, Steady, Time \/ MoveAddress \/ Delete \/ Relink \/ Forget
  PROVE  RealInv'
<1>0. TypeOK /\ panel \in Panel /\ relink \in Links BY TypeIs DEF FleetInv
<1>1. Real(NoState) BY Constants DEF Real
<1>2. ASSUME UNCHANGED <<mirror, machines, poll, clock>>,
             panel'.frozen = panel.frozen \/ panel'.frozen = NoState,
             There' => There /\ (panel'.inst = panel.inst \/ panel'.inst \in Hosts)
      PROVE  RealInv'
  <2>1. panel'.inst \in Hosts /\ Watched(panel'.inst) => panel'.inst \in {panel.inst, mirror.inst} BY DEF Steady
  <2>2. \A p \in Polls : SameAnswer(p) BY <1>2 DEF SameAnswer
  <2> QED BY <1>1, <1>2, <2>1, <2>2, NothingLearnt DEF machines
<1>3. CASE Time \/ MoveAddress
  BY <1>0, <1>2, <1>3 DEF Time, KeyExpires, ClearKey, MoveAddress, Panel, There
<1>4. CASE Delete
  BY <1>0, <1>2, <1>4 DEF Delete, Panel, There
<1>5. CASE Relink
  <2>1. CASE There
    <3>1. panel'.frozen = NoState /\ panel'.inst = relink[1] BY <1>0, <1>5, <2>1 DEF Relink, Panel
    <3>2. relink[1] \in Hosts BY <1>0, <1>5 DEF Relink, Links
    <3> QED BY <1>2, <1>5, <2>1, <3>1, <3>2 DEF Relink
  <2>2. CASE ~There
    BY <1>2, <1>5, <2>2 DEF Relink, There
  <2> QED BY <2>1, <2>2
<1>6. CASE Forget
  <2>1. mirror' = NoMirror /\ UNCHANGED <<machines, poll, clock>> /\ panel'.frozen = panel.frozen /\ ~There'
    BY <1>0, <1>6 DEF Forget, Panel, There
  <2>2. StatesReal' /\ AnswersReal' /\ ReadNow'
    BY <2>1 DEF StatesReal, AnswersReal, ReadNow, RealInv, Knowledge, Real, State, machines
  <2>3. MirrorReal' BY <2>1 DEF MirrorReal, NoMirror
  <2>4. ASSUME NEW h \in Hosts, NEW at, NEW cold, Between(h, at, cold)
        PROVE  Between(h, at, cold)'
    BY <2>1, <2>4 DEF Between, machines
  <2>5. NoReturn' BY <2>1, <2>4, NobodyAssumption DEF NoReturn, RealInv, Knowledge, NoMirror
  <2>6. StillFresh'
    <3>1. \A p \in Polls : poll[p].part = "hot" => poll[p].data.inst \in Hosts
      BY DEF FleetInv, Known, PollKnows, Nothing
    <3> QED BY <2>1, <3>1, NobodyAssumption DEF StillFresh, NoMirror
  <2> QED BY <2>2, <2>3, <2>5, <2>6 DEF RealInv, Knowledge
<1> QED BY <1>3, <1>4, <1>5, <1>6

LEMMA RealInit == Init => RealInv
<1> SUFFICES ASSUME Init PROVE RealInv
  OBVIOUS
<1>0. 0 \in 0..MaxEdits /\ NoState \notin States BY FleetAssumption, Constants
<1>1. panel.frozen = NoState /\ clock = 0 /\ mirror = NoMirror /\ truth = [k \in 0..MaxEdits |-> 0] BY DEF Init
<1>2. \A h \in Hosts : host[h].state = [hot |-> 0, cold |-> 0] /\ host[h].reply = NoState
  BY DEF Init, NewHost
<1>3. \A p \in Polls : poll[p].data.inst = Nobody /\ poll[p].part = Nothing BY DEF Init, NoPoll, NoData
<1>4. StatesReal BY <1>0, <1>1, <1>2 DEF StatesReal, Real
<1>5. AnswersReal /\ ReadNow /\ StillFresh BY <1>3, NobodyAssumption DEF AnswersReal, ReadNow, StillFresh, Nothing
<1>6. MirrorReal BY <1>1 DEF MirrorReal, NoMirror
<1>7. NoReturn BY <1>1, <1>3, NobodyAssumption DEF NoReturn, Between, NoMirror
<1> QED BY <1>4, <1>5, <1>6, <1>7 DEF RealInv, Knowledge

(* As long as no configuration becomes what it was, and the panel does not  *)
(* return to a machine, while a poll has an answer of it: the parts of the  *)
(* mirror are of one moment, however polls overlap and whatever fails.      *)
THEOREM MirrorStaysReal == SteadySpec => []MirrorIsReal
<1>1. FleetInv /\ RealInv /\ [Next /\ Steady]_vars => FleetInv' /\ RealInv'
  <2> SUFFICES ASSUME FleetInv, RealInv, [Next /\ Steady]_vars
               PROVE  FleetInv' /\ RealInv'
    OBVIOUS
  <2>1. FleetInv' BY FleetStep
  <2>2. CASE UNCHANGED vars
    <3>1. UNCHANGED <<panel, mirror, truth, clock, host, poll>> BY <2>2 DEF vars, machines
    <3> QED BY <2>1, <3>1, NothingLearnt DEF SameAnswer, There
  <2>3. CASE Next /\ Steady
    BY <2>1, <2>3, RealPollSteps, RealMachineSteps, RealPanelSteps DEF Next, Admin
  <2> QED BY <2>1, <2>2, <2>3
<1>2. FleetInv /\ RealInv => MirrorIsReal
  <2> SUFFICES ASSUME FleetInv, RealInv, mirror.cold # NoCold
               PROVE  mirror.cold = truth[mirror.hot]
    BY DEF MirrorIsReal, Complete
  <2>1. mirror \in Mirror BY TypeIs DEF FleetInv
  <2>2. mirror.inst # Nobody BY DEF RealInv, Knowledge, MirrorReal, NoMirror
  <2>3. State(mirror) \in States BY <2>1 DEF State, States, Mirror
  <2> QED BY <2>2, <2>3 DEF RealInv, Knowledge, MirrorReal, Real, State
<1> QED BY <1>1, <1>2, FleetInit, RealInit, PTL DEF SteadySpec
=============================================================================
