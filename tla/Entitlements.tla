---------------------------- MODULE Entitlements ----------------------------
(***************************************************************************)
(* A node's ledger of why a user has access through one of its inbounds.   *)
(* Everything that gives access (a payment, a grant, a trial, an edit by   *)
(* hand, what a legacy client came with) is a source with its own expiry,  *)
(* limit, usage and revision; the client row shows what the live sources   *)
(* add up to, and Xray runs what the client row said when it was last      *)
(* synchronized.                                                           *)
(*                                                                         *)
(* The master's operations come as calls which are repeated, delayed and   *)
(* reordered at will: each of the constant operations may arrive at any    *)
(* time and any number of times.  A call is one transaction under the      *)
(* node's runtime lock, then a synchronization of Xray that may fail.      *)
(*                                                                         *)
(* One user and one inbound.  Time is counted in the periods of a tariff,  *)
(* from 2 on: 0 is the expiry that never comes (Never).                    *)
(***************************************************************************)
EXTENDS Naturals, FiniteSets

CONSTANTS
  Sources,       \* source_id of the master's operations
  Manual,        \* manual:{client.id}
  Legacy,        \* legacy:{client.id}
  NoSource,      \* active_entitlement_source IS NULL
  Tariffs,
  TariffOf,      \* the tariff of each source
  Grants,        \* [source, rev, tariff, limit, period, until]; period is 0 when until is given
  Revokes,       \* [source, rev, tariff]: revoke_source of one source
  TariffRevokes, \* [tariff, sources]: revoke_tariff; sources is revoked_sources
  Resets,        \* [source, rev, tariff]: reset_source_cycle
  Accounts,      \* access revisions of the user; the odd ones block
  Monthly,       \* the client has a reset_day
  MaxClock, MaxUsed, MaxLimit, MaxEdits, MaxFailures  \* bounds

Never == 0
Ids == Sources \cup {Manual, Legacy}
Operations == Grants \cup TariffRevokes \cup Resets

ASSUME IdsAssumption ==
  /\ IsFiniteSet(Sources) /\ Tariffs # {}
  /\ Manual \notin Sources /\ Legacy \notin Sources /\ Manual # Legacy
  /\ NoSource \notin Sources \cup {Manual, Legacy}
ASSUME OperationsAssumption ==
  /\ TariffOf \in [Sources -> Tariffs]
  /\ \A g \in Grants : /\ g.source \in Sources /\ g.rev \in Nat /\ g.tariff = TariffOf[g.source]
                       /\ g.limit \in 0..MaxLimit /\ g.period \in Nat /\ g.until \in Nat
  /\ \A r \in Revokes \cup Resets : r.source \in Sources /\ r.rev \in Nat /\ r.tariff = TariffOf[r.source]
  /\ \A r \in TariffRevokes : /\ r.tariff \in Tariffs /\ DOMAIN r.sources \subseteq Sources
                              /\ \A s \in DOMAIN r.sources : r.sources[s] \in Nat /\ TariffOf[s] = r.tariff
  /\ TariffRevokes \cap (Grants \cup Resets) = {}
  /\ Accounts \subseteq Nat /\ Monthly \in BOOLEAN
ASSUME LedgerBoundsAssumption ==
  MaxClock \in Nat \ {0, 1} /\ MaxUsed \in Nat /\ MaxLimit \in Nat /\ MaxEdits \in Nat /\ MaxFailures \in Nat

VARIABLES
  clock,
  ledger,    \* access_entitlement: state, rev, tariff, until, limit, used
  older,     \* created_at: the sources each source is newer than
  client,    \* the client row
  account,   \* account_access_state
  receipts,  \* provision_receipt: the operations carried out
  revoked,   \* the single revocations carried out
  dirty,     \* desired_revision # applied_revision
  running,   \* Xray admits the client
  adminOff,  \* the last time an admin switched the client, it was off
  edits, failures

vars == <<clock, ledger, older, client, account, receipts, revoked, dirty, running, adminOff, edits, failures>>

Row == [state : {"absent", "live", "disabled", "revoked", "tombstone"},
        rev : Nat, tariff : Tariffs, until : Nat, limit : Nat, used : Nat]
ClientRow == [row : {"none", "legacy", "managed"}, enable : BOOLEAN,
              why : {"", "manual", "expiry", "quota"}, manual : BOOLEAN, until : Nat,
              limit : Nat, used : Nat, tariff : Tariffs, active : Ids \cup {NoSource}]

TypeOK ==
  /\ clock \in Nat
  /\ ledger \in [Ids -> Row]
  /\ older \in [Ids -> SUBSET Ids]
  /\ client \in ClientRow
  /\ account \in [rev : Nat, blocked : BOOLEAN]
  /\ receipts \in SUBSET Operations
  /\ revoked \in SUBSET Revokes
  /\ dirty \in BOOLEAN /\ running \in BOOLEAN /\ adminOff \in BOOLEAN
  /\ edits \in Nat /\ failures \in Nat

Absent == [state |-> "absent", rev |-> 0, tariff |-> CHOOSE t \in Tariffs : TRUE,
           until |-> Never, limit |-> 0, used |-> 0]
NoClient == [row |-> "none", enable |-> FALSE, why |-> "", manual |-> FALSE, until |-> Never,
             limit |-> 0, used |-> 0, tariff |-> CHOOSE t \in Tariffs : TRUE, active |-> NoSource]

(* A client from before the ledger has a tariff and an expiry of its own.  *)
LegacyClient(on, t) ==
  [NoClient EXCEPT !.row = "legacy", !.enable = on, !.why = IF on THEN "" ELSE "manual", !.manual = ~on,
                   !.until = 3, !.tariff = t]

Init ==
  /\ clock = 2
  /\ ledger = [s \in Ids |-> Absent]
  /\ older = [s \in Ids |-> {}]
  /\ client = NoClient \/ \E on \in BOOLEAN, t \in Tariffs : client = LegacyClient(on, t)
  /\ account = [rev |-> 0, blocked |-> FALSE]
  /\ receipts = {} /\ revoked = {}
  /\ dirty = FALSE
  /\ running = client.enable
  /\ adminOff = client.manual
  /\ edits = 0 /\ failures = 0

-----------------------------------------------------------------------------
(* What the sources add up to *)

Later(a, b) == IF a = Never \/ b = Never THEN Never ELSE IF a > b THEN a ELSE b
Ahead(until, now) == until = Never \/ until > now

(* Rows that are neither revoked nor disabled, and of those the unexpired. *)
Counted(l) == {s \in Ids : l[s].state = "live"}
Live(l) == {s \in Counted(l) : Ahead(l[s].until, clock)}

(* The furthest expiry of some sources, at least now. *)
Furthest(l, live) == CHOOSE s \in live : \A t \in live : l[t].until <= l[s].until
End(l, live) ==
  IF \E s \in live : l[s].until = Never THEN Never
  ELSE IF live = {} THEN clock ELSE Later(clock, l[Furthest(l, live)].until)

(* Mutant: a period starts where any source ends. *)
PeriodStartAll(l) == End(l, {s \in Ids : l[s].state # "absent"})

PeriodStart(l) == End(l, Live(l))

Newest(live, o) == CHOOSE s \in live : \A t \in live : s \notin o[t]
Room(r) == IF r.limit = 0 THEN MaxLimit + 1 ELSE r.limit
Better(l, o, t, s) == Room(l[t]) > Room(l[s]) \/ (Room(l[t]) = Room(l[s]) /\ s \in o[t])
Owner(l, o, live) ==
  IF Newest(live, o) = Manual THEN Manual
  ELSE CHOOSE s \in live : \A t \in live : ~Better(l, o, t, s)

(* Mutant: the usage of the active source is not saved. *)
UsageForgotten(c, l) == l

(* _save_usage *)
SaveUsage(c, l) == IF c.active \in Ids THEN [l EXCEPT ![c.active].used = c.used] ELSE l

HasQuota(c) == c.limit = 0 \/ c.used < c.limit

(* Mutant: a refresh forgets that an admin switched the client off. *)
PermittedThoughOff(c, blocked) == HasQuota(c) /\ ~blocked

(* Mutant: a refresh forgets that the account is blocked. *)
PermittedWhenBlocked(c, blocked) == HasQuota(c) /\ ~c.manual

Permitted(c, blocked) == HasQuota(c) /\ ~c.manual /\ ~blocked

Switched(c, blocked) ==
  LET on == Permitted(c, blocked)
  IN [c EXCEPT !.enable = on,
               !.why = IF on THEN "" ELSE IF c.manual \/ blocked THEN "manual" ELSE "quota"]

(* refresh_client_entitlements, once usage is saved: the new client row and *)
(* the new ledger.                                                         *)
Refreshed(c, l, o, blocked, reset) ==
  LET live == Live(l)
      owner == Owner(l, o, live)
      expired == /\ c.active \in Ids /\ c.active # owner
                 /\ l[c.active].state \in {"live", "disabled"}
                 /\ ~Ahead(l[c.active].until, clock)
      fresh == IF reset \/ expired THEN [l EXCEPT ![owner].used = 0] ELSE l
      shown == [c EXCEPT !.until = End(l, live), !.limit = l[owner].limit, !.used = fresh[owner].used,
                         !.tariff = l[owner].tariff, !.active = owner]
  IN IF live = {}
     THEN [client |-> [c EXCEPT !.enable = FALSE, !.why = "expiry", !.until = clock - 1, !.active = NoSource],
           ledger |-> l]
     ELSE [client |-> Switched(shown, blocked), ledger |-> fresh]

-----------------------------------------------------------------------------
(* Writing, and synchronizing Xray *)

(* expected_revision = desired_revision = applied_revision + 1 *)
MayApplyPartial == ~dirty

(* _sync, after the commit: Xray is told of the client if that is all      *)
(* there is to tell, and restarted otherwise.  A failure leaves it before  *)
(* or after the change, and the change pending.                            *)
Sync(c) ==
  \/ /\ dirty' = FALSE
     /\ running' = IF MayApplyPartial /\ c.enable = client.enable THEN running ELSE c.enable
     /\ UNCHANGED failures
  \/ /\ failures < MaxFailures /\ failures' = failures + 1
     /\ dirty' = TRUE
     /\ running' \in {running, c.enable}

(* Mutant: what failed to apply is not tried again. *)
NotRetried == UNCHANGED <<dirty, running, failures>>

(* synchronize_runtime with nothing new to apply. *)
Synchronize ==
  \/ /\ dirty' = FALSE
     /\ running' = IF dirty THEN client.enable ELSE running
     /\ UNCHANGED failures
  \/ /\ dirty /\ failures < MaxFailures /\ failures' = failures + 1
     /\ running' \in {running, client.enable}
     /\ UNCHANGED dirty

(* s is written now: it is newer than every other source. *)
Stamped(o, s) == [t \in Ids |-> IF t = s THEN Ids \ {s} ELSE o[t] \ {s}]

Write(l, c) == ledger' = l /\ client' = c /\ Sync(c)
WriteBoth(r) == Write(r.ledger, r.client)

-----------------------------------------------------------------------------
(* The master's calls *)

(* _legacy_manual_disabled *)
LegacyManual(c) ==
  \/ c.manual \/ c.why = "manual"
  \/ ~c.enable /\ c.why = "" /\ ~(~Ahead(c.until, clock) \/ ~HasQuota(c))

(* A legacy client enters the ledger as a source of its own. *)
Adopted(c, s, manual) == [c EXCEPT !.row = "managed", !.active = s, !.manual = manual]
AdoptedRow(c) == [Absent EXCEPT !.state = "live", !.tariff = c.tariff, !.until = c.until,
                                !.limit = c.limit, !.used = c.used]

(* Mutant: a call from before the newest decision on the user is let in.   *)
AccountLetsLate(a) == ~account.blocked

(* _account_guard, for a call sent at access revision a. *)
AccountLets(a) == ~account.blocked /\ a >= account.rev

Superseded(s, rev) == ledger[s].state # "absent" /\ ledger[s].rev >= rev

(* A repeated grant is answered from its receipt, if what it gave is still *)
(* there, and otherwise refused.                                           *)
ReplayGrant(g) ==
  /\ g \in receipts
  /\ ledger[g.source].state \in {"live", "disabled"} /\ ledger[g.source].rev = g.rev
  /\ Synchronize
  /\ UNCHANGED <<ledger, client, older, receipts>>

(* provision: the time a period adds starts where the live sources end. *)
ExecuteGrant(g) ==
  /\ g \notin receipts
  /\ ~Superseded(g.source, g.rev)
  /\ ledger[g.source].state = "absent" \/ ledger[g.source].tariff = g.tariff
  /\ LET legacy == client.row = "legacy"
         c0 == IF legacy THEN Adopted(client, Legacy, LegacyManual(client)) ELSE [client EXCEPT !.row = "managed"]
         o0 == IF legacy THEN Stamped(older, Legacy) ELSE older
         l0 == SaveUsage(c0, IF legacy THEN [ledger EXCEPT ![Legacy] = AdoptedRow(client)] ELSE ledger)
         end == PeriodStart(l0)
         until == IF g.period = 0 THEN g.until ELSE IF end = Never THEN Never ELSE end + g.period
         l1 == [l0 EXCEPT ![g.source] = [state |-> "live", rev |-> g.rev, tariff |-> g.tariff,
                                         until |-> until, limit |-> g.limit, used |-> 0]]
         o1 == Stamped(o0, g.source)
     IN /\ WriteBoth(Refreshed([c0 EXCEPT !.active = NoSource], l1, o1, FALSE, g.period # 0))
        /\ older' = o1
  /\ receipts' = receipts \cup {g}

Grant(g, a) ==
  /\ AccountLets(a)
  /\ account' = [account EXCEPT !.rev = a]
  /\ ReplayGrant(g) \/ ExecuteGrant(g)
  /\ UNCHANGED <<clock, revoked, adminOff, edits>>

(* Mutant: the revision of a revocation is recorded, not the revocation.   *)
RevisionOnly(r, rev) == [r EXCEPT !.rev = rev]

Revocation(r, rev) == [r EXCEPT !.state = IF r.state = "tombstone" THEN "tombstone" ELSE "revoked", !.rev = rev]
Tombstone(tariff, rev) == [Absent EXCEPT !.state = "tombstone", !.tariff = tariff, !.rev = rev]

(* revoke_source, for one source.  What was never granted is revoked in    *)
(* advance, unless the user has a client of the same tariff.               *)
Revoke(r) ==
  LET row == ledger[r.source]
      l1 == [ledger EXCEPT ![r.source] = Revocation(row, r.rev)]
  IN
  /\ \/ /\ row.state = "absent"
        /\ ~(client.row # "none" /\ client.tariff = r.tariff)
        /\ ledger' = [ledger EXCEPT ![r.source] = Tombstone(r.tariff, r.rev)]
        /\ UNCHANGED <<client, dirty, running, failures>>
     \/ /\ row.state = "tombstone" /\ row.rev <= r.rev
        /\ ledger' = l1
        /\ UNCHANGED <<client, dirty, running, failures>>
     \/ /\ row.state \notin {"absent", "tombstone"} /\ row.rev <= r.rev
        /\ WriteBoth(Refreshed(client, SaveUsage(client, l1), older, account.blocked, FALSE))
  /\ revoked' = revoked \cup {r}
  /\ UNCHANGED <<clock, older, account, receipts, adminOff, edits>>

TariffRevision(r, s) == IF s \in DOMAIN r.sources THEN r.sources[s] ELSE ledger[s].rev + 1
TariffRevoked(r, s) ==
  /\ ledger[s].state # "absent" /\ ledger[s].tariff = r.tariff
  /\ s \in DOMAIN r.sources \cup {Manual, Legacy}
  /\ TariffRevision(r, s) >= ledger[s].rev

(* revoke_source, for a whole tariff: the sources the master recorded, as  *)
(* of the revisions it recorded, and what has no record on the master.     *)
RevokeTariff(r) ==
  LET saved == SaveUsage(client, ledger)
      l1 == [s \in Ids |->
               IF TariffRevoked(r, s) THEN Revocation(saved[s], TariffRevision(r, s))
               ELSE IF s \in DOMAIN r.sources /\ ledger[s].state = "absent" THEN Tombstone(r.tariff, r.sources[s])
               ELSE saved[s]]
      concerned == \E s \in Ids : ledger[s].state \notin {"absent", "tombstone"} /\ ledger[s].tariff = r.tariff
  IN
  /\ \/ /\ r \in receipts
        /\ Synchronize
        /\ UNCHANGED <<ledger, client, receipts>>
     \/ /\ r \notin receipts
        /\ IF client.row = "legacy" /\ client.tariff = r.tariff
           THEN Write(l1, [client EXCEPT !.enable = FALSE, !.until = clock - 1])
           ELSE IF concerned
           THEN WriteBoth(Refreshed(client, l1, older, account.blocked, FALSE))
           ELSE Write(l1, client)
        /\ receipts' = receipts \cup {r}
  /\ UNCHANGED <<clock, older, account, revoked, adminOff, edits>>

(* reset_source_cycle: a grant's usage starts again, and a legacy client   *)
(* may become the client of that grant.                                    *)
Reset(r) ==
  LET adopts == ledger[r.source].state = "absent" /\ client.row = "legacy" /\ client.tariff = r.tariff
      manual == client.manual \/ (~client.enable /\ client.why \notin {"quota", "expiry"})
      c0 == IF adopts THEN Adopted(client, r.source, manual) ELSE client
      l0 == IF adopts THEN [ledger EXCEPT ![r.source] = [AdoptedRow(client) EXCEPT !.rev = r.rev]] ELSE ledger
      l1 == [l0 EXCEPT ![r.source].used = 0]
  IN
  /\ \/ /\ r \in receipts
        /\ Synchronize
        /\ UNCHANGED <<ledger, client, older, receipts>>
     \/ /\ r \notin receipts
        /\ l0[r.source].state \in {"live", "disabled"} /\ l0[r.source].rev = r.rev
        /\ older' = IF adopts THEN Stamped(older, r.source) ELSE older
        /\ IF c0.active = r.source
           THEN WriteBoth(Refreshed([c0 EXCEPT !.used = 0], l1, older', account.blocked, FALSE))
           ELSE Write(l1, c0)
        /\ receipts' = receipts \cup {r}
  /\ UNCHANGED <<clock, account, revoked, adminOff, edits>>

Blocks(n) == n % 2 = 1
AccountIsNew(n) == n > account.rev \/ (n = account.rev /\ account.blocked = Blocks(n))

(* apply_account_state *)
ApplyAccount(n) ==
  /\ AccountIsNew(n)
  /\ account' = [rev |-> n, blocked |-> Blocks(n)]
  /\ CASE client.row = "none" -> UNCHANGED <<ledger, client, dirty, running, failures>>
       [] client.row = "managed" ->
            WriteBoth(Refreshed(client, SaveUsage(client, ledger), older, Blocks(n), FALSE))
       [] client.row = "legacy" /\ Blocks(n) ->
            Write(ledger, [client EXCEPT !.enable = FALSE,
                                         !.manual = IF account.blocked THEN client.manual ELSE LegacyManual(client)])
       [] client.row = "legacy" /\ ~Blocks(n) ->
            Write(ledger, [client EXCEPT !.enable = Ahead(client.until, clock) /\ HasQuota(client) /\ ~client.manual])
  /\ UNCHANGED <<clock, older, receipts, revoked, adminOff, edits>>

-----------------------------------------------------------------------------
(* The node *)

(* start_traffic_cycle, and can_reenable. *)
FreshCycle(c, wanted) ==
  IF wanted /\ ~c.enable /\ ~c.manual /\ ~account.blocked /\ Ahead(c.until, clock)
  THEN [c EXCEPT !.used = 0, !.enable = TRUE, !.why = ""]
  ELSE [c EXCEPT !.used = 0]

(* check_limits_and_reset: what expired gives way to the next source, the  *)
(* reset day comes, what is out of time or quota is switched off; pending  *)
(* changes are retried.                                                    *)
CheckLimitsOn(resetDay) ==
  LET due == /\ client.row = "managed" /\ client.active \in Ids
             /\ ~Ahead(ledger[client.active].until, clock)
      r == IF due THEN Refreshed(client, SaveUsage(client, ledger), older, account.blocked, FALSE)
           ELSE [client |-> client, ledger |-> ledger]
      c0 == IF resetDay THEN FreshCycle(r.client, r.client.why = "quota") ELSE r.client
      expired == c0.until # Never /\ c0.until < clock
      c == IF c0.enable /\ (expired \/ ~HasQuota(c0))
           THEN [c0 EXCEPT !.enable = FALSE, !.why = IF expired THEN "expiry" ELSE "quota"]
           ELSE c0
  IN
  /\ client.row # "none"
  /\ IF c.enable # client.enable THEN Write(r.ledger, c)
     ELSE ledger' = r.ledger /\ client' = c /\ Synchronize
  /\ UNCHANGED <<clock, older, account, receipts, revoked, adminOff, edits>>

CheckLimits == \E resetDay \in {FALSE, Monthly} : CheckLimitsOn(resetDay)

(* reset_user_traffic, by an admin. *)
ResetTraffic(reenable) ==
  LET c == FreshCycle(client, reenable)
  IN
  /\ client.row # "none" /\ edits < MaxEdits
  /\ IF c.enable # client.enable THEN Write(ledger, c)
     ELSE client' = c /\ Synchronize /\ UNCHANGED ledger
  /\ edits' = edits + 1
  /\ UNCHANGED <<clock, older, account, receipts, revoked, adminOff>>

(* capture_manual_entitlement: what an admin edited becomes a source. *)
Captured(c, l) ==
  [state |-> IF c.enable THEN "live" ELSE "disabled", rev |-> l[Manual].rev + 1,
   tariff |-> IF l[Manual].state = "absent" THEN c.tariff ELSE l[Manual].tariff,
   until |-> c.until, limit |-> c.limit, used |-> c.used]

(* update_user, bulk_enable, bulk_adjust_days and bulk_adjust_traffic. *)
Edit(on, until, limit) ==
  LET switched == on # client.enable
      c == [client EXCEPT !.enable = on, !.until = until, !.limit = limit,
                          !.manual = IF switched THEN ~on ELSE client.manual,
                          !.why = IF ~switched THEN client.why ELSE IF on THEN "" ELSE "manual"]
      l == SaveUsage(c, ledger)
  IN
  /\ client.row # "none" /\ edits < MaxEdits
  /\ c # client
  /\ IF client.row = "legacy" THEN Write(ledger, c) /\ UNCHANGED older
     ELSE /\ Write([l EXCEPT ![Manual] = Captured(c, l)], [c EXCEPT !.manual = ~on, !.active = Manual])
          /\ older' = Stamped(older, Manual)
  /\ adminOff' = IF switched THEN ~on ELSE adminOff
  /\ edits' = edits + 1
  /\ UNCHANGED <<clock, account, receipts, revoked>>

(* Traffic, settled. *)
Use ==
  /\ running /\ client.row # "none" /\ client.used < MaxUsed
  /\ client' = [client EXCEPT !.used = @ + 1]
  /\ UNCHANGED <<clock, ledger, older, account, receipts, revoked, dirty, running, adminOff, edits, failures>>

Tick ==
  /\ clock < MaxClock
  /\ clock' = clock + 1
  /\ UNCHANGED <<ledger, older, client, account, receipts, revoked, dirty, running, adminOff, edits, failures>>

Next ==
  \/ \E g \in Grants, a \in {0} \cup Accounts : ~Blocks(a) /\ Grant(g, a)
  \/ \E r \in Revokes : Revoke(r)
  \/ \E r \in TariffRevokes : RevokeTariff(r)
  \/ \E r \in Resets : Reset(r)
  \/ \E n \in Accounts : ApplyAccount(n)
  \/ \E on \in BOOLEAN, until \in {Never, clock - 1, clock + 1, client.until}, limit \in {client.limit, MaxLimit} :
       Edit(on, until, limit)
  \/ \E reenable \in BOOLEAN : ResetTraffic(reenable)
  \/ CheckLimits \/ Use \/ Tick

Spec == Init /\ [][Next]_vars

(* The limits job runs again and again. *)
FairSpec == Spec /\ WF_vars(CheckLimits) /\ WF_vars(Tick)

-----------------------------------------------------------------------------
(* The ledger as the master sees it. *)
HeldState(state) ==
  CASE state = "absent" -> "none"
    [] state \in {"live", "disabled"} -> "given"
    [] state \in {"revoked", "tombstone"} -> "withdrawn"
Held == [s \in Sources |-> [state |-> HeldState(ledger[s].state), rev |-> ledger[s].rev]]
Revisions == {o.rev : o \in Grants \cup Revokes \cup Resets}
               \cup UNION {{r.sources[s] : s \in DOMAIN r.sources} : r \in TariffRevokes}

Contract == INSTANCE NodeContract WITH held <- Held, Decisions <- {0} \cup Accounts

-----------------------------------------------------------------------------
(* Properties *)

(* Nothing a node does, for a call or on its own, changes what is given    *)
(* and withdrawn otherwise than the master may expect (entitlements.py as  *)
(* a whole).                                                               *)
KeepsContract == Contract!Spec

(* A revocation stands, whether it came before or after what it revokes:   *)
(* only a grant of a later revision gives a source back.                   *)
Gone(s, rev) ==
  \/ ledger[s].rev > rev
  \/ ledger[s].rev = rev /\ ledger[s].state \in {"revoked", "tombstone"}
RevokedForGood ==
  /\ \A r \in revoked : Gone(r.source, r.rev)
  /\ \A r \in TariffRevokes \cap receipts : \A s \in DOMAIN r.sources : Gone(s, r.sources[s])

(* Revisions only grow, and the account is as its newest revision says: a  *)
(* late call never undoes a newer one.                                     *)
NewestWins ==
  [][account'.rev >= account.rev /\ \A s \in Ids : ledger'[s].rev >= ledger[s].rev]_<<account, ledger>>
AccountIsLatest == account.blocked = Blocks(account.rev)

(* The client row and the ledger agree: a managed client is on only for a  *)
(* source that counts, and off only for a reason that still holds, or for  *)
(* a quota whose usage an admin reset without switching the client on.     *)
AccessFollowsLedger ==
  client.row = "managed" =>
    /\ client.enable => Counted(ledger) # {} /\ ~client.manual
    /\ ~client.enable => \/ Live(ledger) = {} \/ client.manual \/ account.blocked \/ ~HasQuota(client)
                         \/ client.why = "quota" /\ edits > 0

(* A blocked user has no access but what an admin of the node gives back   *)
(* by hand.                                                                *)
BlockedIsOff ==
  account.blocked /\ client.enable => IF client.row = "managed" THEN client.active = Manual ELSE edits > 0

(* Unless a change is pending, Xray admits the client exactly when the     *)
(* client row says so.                                                     *)
RuntimeFollows == ~dirty => running = client.enable

(* Access ends later only by a new grant, of a period at most unless it    *)
(* names an end of its own, or by an admin's edit (which may end access    *)
(* before its sources do): a repeated call adds nothing, nor does a        *)
(* revoked source.                                                         *)
AccessEnd == IF client.row = "none" THEN clock ELSE Later(client.until, clock)
Extended == client'.row # "none" /\ AccessEnd # Never /\ (client'.until = Never \/ client'.until > AccessEnd)
NoFreeTime ==
  [][Extended /\ edits = 0 /\ edits' = 0 =>
       \E g \in (receipts' \ receipts) \cap Grants :
         g.period = 0 \/ client'.until <= AccessEnd + g.period]_<<client, receipts, edits>>

(* Unless it is reset every month or by hand, the usage of a source starts *)
(* again only with a new grant, with a grant's cycle, or when the active   *)
(* source expired.                                                         *)
UsageOf(s) == IF client.active = s THEN client.used ELSE ledger[s].used
NoFreeReset ==
  [][\A s \in Sources :
       /\ ledger[s].state = "live" /\ ledger'[s].state = "live"
       /\ UsageOf(s)' < UsageOf(s)
       => \/ receipts' # receipts \/ edits' # edits \/ Monthly
          \/ client.active \in Ids /\ ~Ahead(ledger[client.active].until, clock)]_<<client, ledger>>

(* A client is only held off by hand if an admin switched it off: a        *)
(* renewal switches on again what was switched off for time or quota.      *)
(* The code does not keep this: see the known divergences in the README.    *)
ManualIsAdmin == client.manual => adminOff

(* Whoever is out of time stops using the node. *)
ExpiredIsCut ==
  (client.enable /\ client.until # Never /\ client.until < clock) ~>
    (~running \/ client.until = Never \/ client.until >= clock)
=============================================================================
