------------------------------- MODULE Fleet -------------------------------
(***************************************************************************)
(* A node as the master knows it: polled, mirrored, relinked, transferred.  *)
(*                                                                          *)
(* The cron host polls the node (every ten seconds, and whenever somebody   *)
(* asks for it) and keeps what it saw in Redis, for the pages, and in the   *)
(* mirror, from which the node can be brought back on another machine. A    *)
(* poll takes a generation, calls the node without holding anything, and    *)
(* is recorded under the lock of the panel's row. Meanwhile an admin may    *)
(* relink the panel to an installation, or give a new machine a transfer    *)
(* key, with which it claims the mirrored state and takes the node's place. *)
(*                                                                          *)
(* An installation is named by its instance id. Generations are compared    *)
(* only, so of a poll it is kept whether one begun later has been recorded  *)
(* (late) or shown in Redis (hidden). The clock is the number of changes of *)
(* the machines' states: two snapshots of one time and machine are equal.   *)
(***************************************************************************)
EXTENDS Naturals, FiniteSets

CONSTANTS
  Hosts,      \* installations of the node
  First,      \* the one the panel is linked to at first
  Polls,      \* polls that may be under way at once
  Askers,     \* installations whose checks of having been replaced are followed
  MaxEdits,   \* bound: changes of the state of machines
  Undo,       \* whether a configuration may become again what it was
  MaxLinks,   \* bound: link tokens a machine issues
  MaxKeys,    \* bound: transfer keys
  MaxActs,    \* bound: what the admin does
  MaxFaults   \* bound: polls that are not answered or recorded, crashes

ASSUME FleetAssumption ==
  /\ First \in Hosts /\ Askers \subseteq Hosts /\ Undo \in BOOLEAN
  /\ MaxEdits \in Nat /\ MaxLinks \in Nat \ {0} /\ MaxKeys \in Nat
  /\ MaxActs \in Nat /\ MaxFaults \in Nat

VARIABLES
  panel,    \* the row of LinkedPanel
  mirror,   \* the row of PanelStateMirror, kind "current"
  shown,    \* the keys of the panel in Redis
  host,     \* the machines
  address,  \* the machine that the panel's URL leads to
  poll,     \* the polls under way
  relink,   \* a handshake whose result is not in the panel's row yet
  check,    \* an answer to instance-check that is not acted upon yet
  truth,    \* for the properties: the cold part that went with each hot part
  clock, acts, faults

machines == <<host, check, truth>>
vars == <<panel, mirror, shown, machines, address, poll, relink, clock, acts, faults>>

Nobody == "nobody"
ASSUME NobodyAssumption == Nobody \notin Hosts
Nothing == "nothing"     \* the part of a mirror an answer brings
NoLink == <<Nobody, 0>>
Links == (Hosts \X (0..MaxLinks)) \cup {NoLink}    \* federation tokens; <<h, 0>> is that of h's claim
Times == Nat
Colds == 0..MaxEdits                             \* fingerprints of the cold part of a state
NoCold == MaxEdits + 1
States == [hot: 0..MaxEdits, cold: Colds]
NoState == [hot |-> 0, cold |-> NoCold]

NoData == [inst |-> Nobody, hot |-> 0, cold |-> 0, at |-> 0]
Data == [inst: Hosts \cup {Nobody}, hot: 0..MaxEdits, cold: Colds, at: Times]
NoPoll == [pc |-> "idle", kind |-> "poll", link |-> NoLink, data |-> NoData,
           part |-> Nothing, older |-> {}, late |-> FALSE, hidden |-> FALSE]
NoMirror == [inst |-> Nobody, hot |-> 0, hotAt |-> 0, cold |-> NoCold, coldAt |-> 0]
NotShown == [status |-> "none", inst |-> Nobody]
NoCheck == [link |-> NoLink, verdict |-> "unknown"]

Panel == [row: {"there", "deleted", "forgotten"}, link: Links, inst: Hosts,
          status: {"unknown", "online", "offline", "transferring"}, moving: BOOLEAN,
          key: 0..MaxKeys, keys: 0..MaxKeys, used: BOOLEAN, expired: BOOLEAN,
          claimedBy: Hosts \cup {Nobody}, frozen: States \cup {NoState},
          formerLink: Links, former: Hosts \cup {Nobody}]

TypeOK ==
  /\ panel \in Panel
  /\ mirror \in [inst: Hosts \cup {Nobody}, hot: 0..MaxEdits, hotAt: Times,
                 cold: Colds \cup {NoCold}, coldAt: Times]
  /\ shown \in [status: {"none", "online", "offline"}, inst: Hosts \cup {Nobody}]
  /\ host \in [Hosts -> [state: States, link: Links, issued: 0..MaxLinks, open: BOOLEAN,
                         muted: BOOLEAN, key: 0..MaxKeys, reply: States \cup {NoState},
                         claim: {"none", "ask", "replied", "applied", "linked", "claimed"}]]
  /\ check \in [Hosts -> [link: Links, verdict: {"current", "superseded", "unknown"}]]
  /\ address \in Hosts
  /\ poll \in [Polls -> [pc: {"idle", "ask", "prepare", "record", "refreshed"},
                         kind: {"poll", "refresh"}, link: Links, data: Data,
                         part: {Nothing, "hot", "full"}, older: SUBSET Polls,
                         late: BOOLEAN, hidden: BOOLEAN]]
  /\ relink \in Links
  /\ truth \in [0..MaxEdits -> Colds]
  /\ clock \in Times /\ acts \in 0..MaxActs /\ faults \in 0..MaxFaults

Act == acts < MaxActs /\ acts' = acts + 1
Fault == faults < MaxFaults /\ faults' = faults + 1
There == panel.row = "there"

-----------------------------------------------------------------------------
(* A poll                                                                   *)

\* _poll_one, and refresh_mirror_live for whoever wants a transfer key.
Begin(p, kind) ==
  /\ There /\ poll[p].pc = "idle"
  /\ IF kind = "refresh" THEN Act ELSE UNCHANGED acts
  /\ poll' = [poll EXCEPT ![p] = [NoPoll EXCEPT !.pc = "ask", !.kind = kind, !.link = panel.link,
                                    !.older = {q \in Polls : poll[q].pc # "idle"}]]
  /\ UNCHANGED <<panel, mirror, shown, machines, address, relink, clock, faults>>

\* The machine at the address answers whoever holds its federation token, with
\* all of its state, read in one transaction.
Answers(link) == host[address].link = link
Snapshot == [inst |-> address, hot |-> host[address].state.hot,
             cold |-> host[address].state.cold, at |-> clock]

Ask(p) ==
  /\ poll[p].pc = "ask" /\ Answers(poll[p].link)
  /\ poll' = [poll EXCEPT ![p].data = Snapshot,
                          ![p].part = IF poll[p].kind = "refresh" THEN "full" ELSE Nothing,
                          ![p].pc = IF poll[p].kind = "refresh" THEN "record" ELSE "prepare"]
  /\ UNCHANGED <<panel, mirror, shown, machines, address, relink, clock, acts, faults>>

Unanswered(p) ==
  /\ poll[p].pc = "ask"
  /\ IF Answers(poll[p].link) THEN Fault ELSE UNCHANGED faults
  /\ poll' = [poll EXCEPT ![p].pc = "record"]
  /\ UNCHANGED <<panel, mirror, shown, machines, address, relink, clock, acts>>

\* _prepare_mirror: the hot part is enough if the mirror has the same cold part of
\* the same installation, read in the last quarter of an hour ...
(* Mutant: the fingerprints of the cold parts are not compared.              *)
FreshWhatever(p) == mirror.inst = poll[p].data.inst /\ mirror.cold # NoCold
Fresh(p) == mirror.inst = poll[p].data.inst /\ mirror.cold = poll[p].data.cold
PrepareHot(p) ==
  /\ poll[p].pc = "prepare" /\ Fresh(p)
  /\ poll' = [poll EXCEPT ![p].part = "hot", ![p].pc = "record"]
  /\ UNCHANGED <<panel, mirror, shown, machines, address, relink, clock, acts, faults>>

\* ... otherwise the whole state is asked for, from the same installation ...
PrepareFull(p) ==
  /\ poll[p].pc = "prepare" /\ Answers(poll[p].link) /\ address = poll[p].data.inst
  /\ poll' = [poll EXCEPT ![p].data = Snapshot, ![p].part = "full", ![p].pc = "record"]
  /\ UNCHANGED <<panel, mirror, shown, machines, address, relink, clock, acts, faults>>

\* ... and without it the poll is recorded all the same.
PrepareFails(p) ==
  /\ poll[p].pc = "prepare"
  /\ IF Answers(poll[p].link) /\ address = poll[p].data.inst THEN Fault ELSE UNCHANGED faults
  /\ poll' = [poll EXCEPT ![p].pc = "record"]
  /\ UNCHANGED <<panel, mirror, shown, machines, address, relink, clock, acts>>

-----------------------------------------------------------------------------
(* Recording a poll, under the lock of the row.                             *)

\* write_hot and write_full
(* Mutant: the order in which polls are recorded is trusted.                 *)
OlderNever(data) == FALSE
Older(data) == mirror.inst = data.inst /\ mirror.hotAt > data.at
OlderFull(data) == mirror.inst = data.inst /\ (mirror.hotAt > data.at \/ mirror.coldAt > data.at)
Hot(data) ==
  IF Older(data) THEN mirror
  ELSE LET kept == IF mirror.inst = data.inst THEN mirror ELSE NoMirror
       IN [kept EXCEPT !.inst = data.inst, !.hot = data.hot, !.hotAt = data.at]
Full(data) ==
  IF OlderFull(data) THEN mirror
  ELSE [Hot(data) EXCEPT !.cold = data.cold, !.coldAt = data.at]
Mirrored(p) ==
  CASE poll[p].part = "hot"  -> Hot(poll[p].data)
    [] poll[p].part = "full" -> Full(poll[p].data)
    [] OTHER -> mirror

Online(p) == poll[p].data.inst # Nobody
Refused(p) ==
  \/ ~There \/ panel.link # poll[p].link \/ poll[p].late
  \/ Online(p) /\ poll[p].data.inst # panel.inst

\* What becomes of the others when p ends at pc.
Ends(p, pc, applied, put) ==
  poll' = [q \in Polls |->
             IF q = p THEN [NoPoll EXCEPT !.pc = pc]
             ELSE [poll[q] EXCEPT !.older = @ \ {p},
                                  !.late = @ \/ (applied /\ q \in poll[p].older),
                                  !.hidden = @ \/ (put /\ q \in poll[p].older)]]

Drop(p) ==
  /\ poll[p].pc = "record" /\ Refused(p)
  /\ Ends(p, IF poll[p].kind = "refresh" THEN "refreshed" ELSE "idle", FALSE, FALSE)
  /\ UNCHANGED <<panel, mirror, shown, machines, address, relink, clock, acts, faults>>

\* store_panel_snapshot and store_panel_offline
Put(p) ==
  IF Online(p) THEN [status |-> "online", inst |-> poll[p].data.inst]
               ELSE [shown EXCEPT !.status = "offline"]

NewStatus(p) ==
  CASE Online(p) -> "online"
    [] ~Online(p) /\ panel.moving -> "transferring"
    [] OTHER -> "offline"

\* _record. Redis is written before the commit, and may refuse; so may the mirror, in
\* a transaction of its own, and the commit.
Record(p, failed) ==
  LET put == failed # "redis" /\ ~poll[p].hidden
      saved == failed # "commit"
  IN
  /\ poll[p].pc = "record" /\ poll[p].kind = "poll" /\ ~Refused(p)
  /\ IF failed = "none" THEN UNCHANGED faults ELSE Fault
  /\ shown' = IF put THEN Put(p) ELSE shown
  /\ IF saved
     THEN /\ mirror' = IF failed = "mirror" THEN mirror ELSE Mirrored(p)
          /\ panel' = [panel EXCEPT !.status = NewStatus(p),
                                    !.moving = @ /\ ~Online(p)]
     ELSE UNCHANGED <<mirror, panel>>
  /\ Ends(p, "idle", saved, put)
  /\ UNCHANGED <<machines, address, relink, clock, acts>>

\* refresh_mirror_live, when it has its answer: it is not a poll, and says nothing of the status.
Refresh(p) ==
  /\ poll[p].pc = "record" /\ poll[p].kind = "refresh" /\ ~Refused(p)
  /\ mirror' = Mirrored(p)
  /\ Ends(p, "refreshed", Online(p), FALSE)
  /\ UNCHANGED <<panel, shown, machines, address, relink, clock, acts, faults>>

-----------------------------------------------------------------------------
(* A transfer, on the master                                                *)

Complete == mirror.cold # NoCold

\* issue_transfer_token, whether or not the mirror could be refreshed.
IssueKey(p) ==
  /\ poll[p].pc = "refreshed"
  /\ IF There /\ Complete /\ panel.keys < MaxKeys
     THEN panel' = [panel EXCEPT !.key = panel.keys + 1, !.keys = @ + 1, !.used = FALSE, !.expired = FALSE,
                                 !.claimedBy = Nobody, !.frozen = NoState]
     ELSE UNCHANGED panel
  /\ Ends(p, "idle", FALSE, FALSE)
  /\ UNCHANGED <<mirror, shown, machines, address, relink, clock, acts, faults>>

\* An hour passes, or five minutes since the claim; a day later the key is cleared.
KeyExpires ==
  /\ There /\ panel.key # 0 /\ ~panel.expired
  /\ panel' = [panel EXCEPT !.expired = TRUE]
  /\ UNCHANGED <<mirror, shown, machines, address, poll, relink, clock, acts, faults>>
(* Mutant: the key is cleared, but not what it has begun.                   *)
ClearKeyOnly ==
  /\ There /\ panel.key # 0 /\ panel.expired
  /\ panel' = [panel EXCEPT !.key = 0]
  /\ UNCHANGED <<mirror, shown, machines, address, poll, relink, clock, acts, faults>>
ClearKey ==
  /\ There /\ panel.key # 0 /\ panel.expired
  /\ panel' = [panel EXCEPT !.key = 0, !.moving = FALSE]
  /\ UNCHANGED <<mirror, shown, machines, address, poll, relink, clock, acts, faults>>

\* claim_transfer for h, when it is accepted: the panel, and what h is answered.
Accepted(h) == There /\ panel.key # 0 /\ host[h].key = panel.key /\ ~panel.expired
Again(h) == Accepted(h) /\ panel.used /\ panel.claimedBy = h /\ panel.link = <<h, 0>>
(* Mutant: a key is good for whoever comes, until it expires.                *)
AnewForAnyone(h) == Accepted(h) /\ Complete
Anew(h) == Accepted(h) /\ ~panel.used /\ Complete

Kept == [hot |-> mirror.hot, cold |-> mirror.cold]
Reply(h) == IF Again(h) THEN panel.frozen ELSE Kept
Claimed(h) ==
  IF Again(h) THEN panel
  ELSE [panel EXCEPT !.used = TRUE, !.frozen = Kept, !.claimedBy = h,
                     !.formerLink = panel.link, !.former = panel.inst,
                     !.link = <<h, 0>>, !.inst = h, !.moving = TRUE]

-----------------------------------------------------------------------------
(* A transfer, on the new machine: claim_state_job                          *)

\* An admin starts a machine with the key in its environment.
Install(h) ==
  /\ Act
  /\ host[h].claim = "none" /\ host[h].link = NoLink /\ host[h].key = 0
  /\ panel.key # 0
  /\ host' = [host EXCEPT ![h].key = panel.key, ![h].claim = "ask"]
  /\ UNCHANGED <<panel, mirror, shown, check, truth, address, poll, relink, clock, faults>>

\* The answer may be lost; the job asks again in half a minute.
Claim(h, lost) ==
  /\ host[h].claim = "ask" /\ (Again(h) \/ Anew(h))
  /\ panel' = Claimed(h)
  /\ host' = IF lost THEN host ELSE [host EXCEPT ![h].claim = "replied", ![h].reply = Reply(h)]
  /\ UNCHANGED <<mirror, shown, check, truth, address, poll, relink, clock, acts, faults>>

\* Three commits: the state, the link, the mark that it has been claimed. A machine
\* that stopped before the mark does all of it again, over whatever it has become.
Apply(h) ==
  /\ host[h].claim = "replied"
  /\ clock' = IF host[h].link = NoLink \/ host[h].state = host[h].reply THEN clock ELSE clock + 1
  /\ host' = [host EXCEPT ![h].state = host[h].reply, ![h].claim = "applied"]
  /\ UNCHANGED <<panel, mirror, shown, check, truth, address, poll, relink, acts, faults>>
LinkUp(h) ==
  /\ host[h].claim = "applied"
  /\ host' = [host EXCEPT ![h].link = <<h, 0>>, ![h].open = FALSE, ![h].claim = "linked"]
  /\ UNCHANGED <<panel, mirror, shown, check, truth, address, poll, relink, clock, acts, faults>>
MarkClaimed(h) ==
  /\ host[h].claim = "linked"
  /\ host' = [host EXCEPT ![h].claim = "claimed"]
  /\ UNCHANGED <<panel, mirror, shown, check, truth, address, poll, relink, clock, acts, faults>>

Crash(h) ==
  /\ Fault
  /\ host[h].claim \in {"replied", "applied", "linked"}
  /\ host' = [host EXCEPT ![h].claim = "ask"]
  /\ check' = [check EXCEPT ![h] = NoCheck]
  /\ UNCHANGED <<panel, mirror, shown, truth, address, poll, relink, clock, acts>>

\* The admin moves the A record to the machine that was accepted.
MoveAddress ==
  /\ Act
  /\ There /\ address # panel.inst
  /\ address' = panel.inst
  /\ UNCHANGED <<panel, mirror, shown, machines, poll, relink, clock, faults>>

-----------------------------------------------------------------------------
(* Linking and relinking                                                    *)

\* generate_link_token revokes the link there is.
IssueLink(h) ==
  /\ Act
  /\ host[h].issued < MaxLinks /\ host[h].claim \in {"none", "claimed"}
  /\ host' = [host EXCEPT ![h].issued = @ + 1, ![h].open = TRUE, ![h].link = NoLink]
  /\ UNCHANGED <<panel, mirror, shown, check, truth, address, poll, relink, clock, faults>>

\* _handshake of the panel: what it comes to know of the machine.
Learnt(h, lost) == IF lost THEN NoLink ELSE <<h, host[h].issued>>

\* handshake: the same request is given the same token again. Its answer may be lost.
Handshake(h, lost) ==
  /\ Act
  /\ There /\ relink = NoLink /\ host[h].open
  /\ host' = [host EXCEPT ![h].link = <<h, host[h].issued>>]
  /\ relink' = Learnt(h, lost)
  /\ UNCHANGED <<panel, mirror, shown, check, truth, address, poll, clock, faults>>

\* relink_panel; the URL is that of the machine.
Relink ==
  LET h == relink[1] IN
  /\ relink # NoLink
  /\ relink' = NoLink
  /\ IF There
     THEN /\ panel' = [panel EXCEPT !.link = relink, !.inst = h, !.key = 0, !.frozen = NoState,
                         !.moving = FALSE, !.claimedBy = Nobody,
                         !.formerLink = CASE panel.inst # h -> panel.link
                                          [] panel.inst = h /\ panel.former = h -> NoLink
                                          [] OTHER -> @,
                         !.former = CASE panel.inst # h -> panel.inst
                                      [] panel.inst = h /\ panel.former = h -> Nobody
                                      [] OTHER -> @]
          /\ address' = h
     ELSE UNCHANGED <<panel, address>>
  /\ UNCHANGED <<mirror, shown, machines, poll, clock, acts, faults>>

\* delete_panel: the row, then Redis and the mirror.
Delete ==
  /\ Act
  /\ There
  /\ panel' = [panel EXCEPT !.row = "deleted"]
  /\ UNCHANGED <<mirror, shown, machines, address, poll, relink, clock, faults>>
Forget ==
  /\ panel.row = "deleted"
  /\ panel' = [panel EXCEPT !.row = "forgotten"]
  /\ shown' = NotShown /\ mirror' = NoMirror
  /\ UNCHANGED <<machines, address, poll, relink, clock, acts, faults>>

-----------------------------------------------------------------------------
(* Whether a machine has been replaced: instance_verdict, supersede_check_job *)

Verdict(h) ==
  CASE There /\ panel.link = host[h].link /\ panel.inst = h -> "current"
    [] There /\ panel.formerLink = host[h].link /\ panel.former = h -> "superseded"
    [] OTHER -> "unknown"

AskVerdict(h) ==
  /\ h \in Askers /\ host[h].link # NoLink /\ check[h] = NoCheck
  /\ check' = [check EXCEPT ![h] = [link |-> host[h].link, verdict |-> Verdict(h)]]
  /\ UNCHANGED <<panel, mirror, shown, host, truth, address, poll, relink, clock, acts, faults>>

(* Mutant: only one of the two verdicts is acted upon.                       *)
HeedReplacedOnly(h) ==
  /\ check[h] # NoCheck
  /\ host' = IF host[h].link # check[h].link \/ check[h].verdict # "superseded" THEN host
             ELSE [host EXCEPT ![h].muted = TRUE]
  /\ check' = [check EXCEPT ![h] = NoCheck]
  /\ UNCHANGED <<panel, mirror, shown, truth, address, poll, relink, clock, acts, faults>>
\* An answer given for another link is not acted upon, nor is "unknown".
Heed(h) ==
  /\ check[h] # NoCheck
  /\ host' = IF host[h].link # check[h].link \/ check[h].verdict = "unknown" THEN host
             ELSE [host EXCEPT ![h].muted = check[h].verdict = "superseded"]
  /\ check' = [check EXCEPT ![h] = NoCheck]
  /\ UNCHANGED <<panel, mirror, shown, truth, address, poll, relink, clock, acts, faults>>

\* What happens on a machine: users' traffic and an admin's edits of its
\* configuration, which may also be undone.
Edit(h) ==
  /\ clock < MaxEdits
  /\ clock' = clock + 1
  /\ \E cold \in {host[h].state.cold, clock + 1} \cup (IF Undo THEN 0..clock ELSE {}) :
       /\ host' = [host EXCEPT ![h].state = [hot |-> clock + 1, cold |-> cold]]
       /\ truth' = [truth EXCEPT ![clock + 1] = cold]
  /\ UNCHANGED <<panel, mirror, shown, check, address, poll, relink, acts, faults>>

-----------------------------------------------------------------------------
NewHost == [state |-> [hot |-> 0, cold |-> 0], link |-> NoLink, issued |-> 0, open |-> FALSE,
            muted |-> FALSE, key |-> 0, reply |-> NoState, claim |-> "none"]

Init ==
  /\ panel = [row |-> "there", link |-> <<First, 1>>, inst |-> First, status |-> "unknown",
              moving |-> FALSE, key |-> 0, keys |-> 0, used |-> FALSE, expired |-> FALSE,
              claimedBy |-> Nobody, frozen |-> NoState, formerLink |-> NoLink, former |-> Nobody]
  /\ mirror = NoMirror /\ shown = NotShown
  /\ host = [h \in Hosts |-> IF h = First
                             THEN [NewHost EXCEPT !.link = <<First, 1>>, !.issued = 1, !.open = TRUE]
                             ELSE NewHost]
  /\ check = [h \in Hosts |-> NoCheck]
  /\ address = First
  /\ poll = [p \in Polls |-> NoPoll]
  /\ relink = NoLink
  /\ truth = [k \in 0..MaxEdits |-> 0]
  /\ clock = 0 /\ acts = 0 /\ faults = 0

Poll(p) ==
  \/ Begin(p, "poll")
  \/ Ask(p) \/ Unanswered(p) \/ PrepareHot(p) \/ PrepareFull(p) \/ PrepareFails(p)
  \/ Drop(p) \/ Refresh(p) \/ IssueKey(p)
  \/ \E failed \in {"none", "redis", "mirror", "commit"} : Record(p, failed)
Transferring(h) == (\E lost \in BOOLEAN : Claim(h, lost)) \/ Apply(h) \/ LinkUp(h) \/ MarkClaimed(h)
Checking(h) == AskVerdict(h) \/ Heed(h)
Time == KeyExpires \/ ClearKey
Admin ==
  \/ \E p \in Polls : Begin(p, "refresh")
  \/ \E h \in Hosts : \/ Install(h) \/ IssueLink(h)
                      \/ \E lost \in BOOLEAN : Handshake(h, lost)
  \/ MoveAddress \/ Delete

Next ==
  \/ \E p \in Polls : Poll(p)
  \/ \E h \in Hosts : Transferring(h) \/ Checking(h) \/ Edit(h) \/ Crash(h)
  \/ Time \/ Admin \/ Relink \/ Forget
Spec == Init /\ [][Next]_vars

\* The cron host polls and the machines ask, again and again; time passes; and the
\* admin who has a machine claim a node moves its A record there.
FairSpec ==
  /\ Spec
  /\ \A p \in Polls : WF_vars(Poll(p))
  /\ \A h \in Hosts : WF_vars(Transferring(h)) /\ WF_vars(Checking(h))
  /\ WF_vars(KeyExpires) /\ WF_vars(ClearKey) /\ WF_vars(MoveAddress)

\* While a poll has an answer of h that is not recorded yet, neither does the
\* configuration of h become what it was, nor the panel return to h, unless the mirror
\* is still of h. (The code lets both happen; see the known divergences in the README
\* for what comes of it.)
Watched(h) == \E p \in Polls : poll[p].data.inst = h
Steady ==
  \A h \in Hosts : Watched(h) =>
    /\ host'[h].state.cold \in {host[h].state.cold, clock + 1}
    /\ panel'.inst = h => h \in {panel.inst, mirror.inst}
SteadySpec == Init /\ [][Next /\ Steady]_vars

-----------------------------------------------------------------------------
(* Properties                                                               *)

\* What a node is brought back from was its state at some time: the hot part and the
\* cold part in the mirror are of one moment, although a poll may bring only the
\* first and several polls overlap.
MirrorIsReal == Complete => mirror.cold = truth[mirror.hot]

\* The mirror never goes back: neither in time, in either part, nor to an installation
\* that has been replaced, in whatever order polls, refreshes, claims and relinks end.
MirrorOnlyForward ==
  [][IF mirror'.inst = mirror.inst
     THEN mirror'.hotAt >= mirror.hotAt /\ mirror'.coldAt >= mirror.coldAt
     ELSE mirror'.inst \in {panel.inst, Nobody}]_vars

\* One transfer key gives one state to one machine: no machine is answered under a key
\* that another was answered under, and a repeated claim is answered as the first was,
\* whatever has been lost, polled or provisioned since.
OneClaim ==
  [][\A h \in Hosts : host'[h].reply # host[h].reply =>
       /\ host[h].reply = NoState
       /\ \A g \in Hosts \ {h} : host[g].key # host[h].key \/ host[g].reply = NoState]_vars

\* A transfer does not stay "awaiting_dns": the new machine is polled at the address, or
\* the key is cleared.
TransferEnds == []<>(There => ~panel.moving)

\* A machine that has been replaced for good falls silent, and one that is current for
\* good speaks.
VerdictsArrive ==
  \A h \in Askers :
    /\ (<>[](Verdict(h) = "superseded")) => (<>[]host[h].muted)
    /\ (<>[](Verdict(h) = "current")) => (<>[]~host[h].muted)
=============================================================================
