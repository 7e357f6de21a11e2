-------------------------- MODULE EntitlementsProofs --------------------------
(***************************************************************************)
(* What holds of the ledger for any sources, tariffs, calls and bounds.    *)
(*                                                                         *)
(* The owner of a client is the greatest of its live sources, of an order  *)
(* that has the time of writing in it: first, that there is a greatest     *)
(* one; then, what a refresh makes of the rows; then, one step per call.   *)
(* That nothing is given twice rests on Shown, that no live source         *)
(* outlasts what the client row shows: what a refresh adds up is then      *)
(* nothing new.                                                            *)
(***************************************************************************)
EXTENDS Entitlements, FiniteSetTheorems, WellFoundedInduction, TLAPS

(* The times of writing order the sources. *)
Ordered(o) ==
  /\ \A s \in Ids : s \notin o[s]
  /\ \A s, t, u \in Ids : t \in o[s] /\ u \in o[t] => u \in o[s]

TypeInv == TypeOK /\ clock >= 2 /\ Ordered(older)

-----------------------------------------------------------------------------
(* The greatest of some sources *)

(* A finite set has a greatest element. *)
LEMMA HasMaximal ==
  ASSUME NEW S, IsFiniteSet(S), S # {}, NEW R,
         \A x \in S : <<x, x>> \notin R,
         \A x, y, z \in S : <<x, y>> \in R /\ <<y, z>> \in R => <<x, z>> \in R
  PROVE  \E x \in S : \A y \in S : <<x, y>> \notin R
<1>. DEFINE Above(x) == {y \in S : <<x, y>> \in R}
            Sizes == {Above(x) : x \in S}
<1>1. Sizes \subseteq FiniteSubsetsOf(S) /\ Sizes # {}
  <2>1. ASSUME NEW x \in S PROVE Above(x) \in FiniteSubsetsOf(S)
    <3>1. Above(x) \in SUBSET S
      OBVIOUS
    <3>2. IsFiniteSet(Above(x))
      BY <3>1, FS_Subset
    <3>. QED
      BY <3>1, <3>2 DEF FiniteSubsetsOf
  <2>2. PICK x \in S : TRUE
    OBVIOUS
  <2>3. Above(x) \in Sizes
    OBVIOUS
  <2>. HIDE DEF Above
  <2>. QED
    BY <2>1, <2>3
<1>2. PICK A \in Sizes : \A B \in Sizes : <<B, A>> \notin StrictSubsetOrdering(S)
  <2>1. IsWellFoundedOn(StrictSubsetOrdering(S), FiniteSubsetsOf(S))
    BY FS_StrictSubsetOrderingWellFounded
  <2>. HIDE DEF Sizes
  <2>. QED
    BY <1>1, <2>1, WFMin
<1>3. PICK x \in S : A = Above(x)
  OBVIOUS
<1>4. ASSUME NEW y \in S, <<x, y>> \in R PROVE FALSE
  <2>1. Above(y) \subseteq Above(x) /\ Above(y) # Above(x)
    BY <1>4
  <2>2. Above(y) \in SUBSET S /\ Above(x) \in SUBSET S /\ Above(y) \in Sizes
    OBVIOUS
  <2>3. <<Above(y), Above(x)>> \notin StrictSubsetOrdering(S)
    BY <1>2, <1>3, <2>2
  <2>. HIDE DEF Above
  <2>4. <<Above(y), Above(x)>> \in StrictSubsetOrdering(S)
    BY <2>1, <2>2 DEF StrictSubsetOrdering
  <2>. QED
    BY <2>3, <2>4
<1>. QED
  BY <1>4

(* There are finitely many sources. *)
LEMMA FiniteIds == ASSUME NEW live, live \subseteq Ids PROVE IsFiniteSet(live)
<1>1. IsFiniteSet({Manual, Legacy})
  <2>1. IsFiniteSet({Manual}) /\ IsFiniteSet({Legacy})
    BY FS_Singleton
  <2>2. {Manual, Legacy} = {Manual} \cup {Legacy}
    OBVIOUS
  <2>. QED
    BY <2>1, <2>2, FS_Union
<1>2. IsFiniteSet(Ids)
  BY <1>1, IdsAssumption, FS_Union DEF Ids
<1>. QED
  BY <1>2, FS_Subset

(* Some live source is the newest. *)
LEMMA NewestIsLive ==
  ASSUME NEW live, live \subseteq Ids, live # {}, NEW o \in [Ids -> SUBSET Ids], Ordered(o)
  PROVE  Newest(live, o) \in live
<1>. DEFINE R == {r \in live \X live : r[1] \in o[r[2]]}
<1>1. \A s \in live : <<s, s>> \notin R
  BY DEF Ordered
<1>2. \A s, t, u \in live : <<s, t>> \in R /\ <<t, u>> \in R => <<s, u>> \in R
  BY DEF Ordered
<1>3. PICK s \in live : \A t \in live : <<s, t>> \notin R
  <2>. HIDE DEF R
  <2>. QED
    BY <1>1, <1>2, FiniteIds, HasMaximal
<1>4. \E x \in live : \A t \in live : x \notin o[t]
  BY <1>3
<1>. QED
  BY <1>4 DEF Newest

(* Some live source lasts longest. *)
LEMMA FurthestIsLive ==
  ASSUME NEW live, live \subseteq Ids, live # {}, NEW l \in [Ids -> Row]
  PROVE  /\ Furthest(l, live) \in live
         /\ \A t \in live : l[t].until <= l[Furthest(l, live)].until
<1>. DEFINE R == {r \in live \X live : l[r[1]].until < l[r[2]].until}
<1>0. \A s \in live : l[s].until \in Nat
  BY DEF Row
<1>1. \A s \in live : <<s, s>> \notin R
  BY <1>0
<1>2. \A s, t, u \in live : <<s, t>> \in R /\ <<t, u>> \in R => <<s, u>> \in R
  BY <1>0
<1>3. PICK s \in live : \A t \in live : <<s, t>> \notin R
  <2>. HIDE DEF R
  <2>. QED
    BY <1>1, <1>2, FiniteIds, HasMaximal
<1>4. \E x \in live : \A t \in live : l[t].until <= l[x].until
  <2>1. ASSUME NEW t \in live PROVE l[t].until <= l[s].until
    <3>1. ~(l[s].until < l[t].until)
      BY <1>3
    <3>. QED
      BY <1>0, <3>1
  <2>. QED
    BY <2>1
<1>. QED
  BY <1>4, Zenon DEF Furthest

(* The owner of the client is one of the live sources. *)
LEMMA OwnerIsLive ==
  ASSUME NEW live, live \subseteq Ids, live # {}, NEW l \in [Ids -> Row],
         NEW o \in [Ids -> SUBSET Ids], Ordered(o)
  PROVE  Owner(l, o, live) \in live
<1>. DEFINE R == {r \in live \X live : Better(l, o, r[2], r[1])}
<1>0. \A s \in live : Room(l[s]) \in Nat
  BY LedgerBoundsAssumption DEF Row, Room
<1>1. \A s \in live : <<s, s>> \notin R
  BY <1>0 DEF Ordered, Better
<1>2. ASSUME NEW s \in live, NEW t \in live, NEW u \in live, <<s, t>> \in R, <<t, u>> \in R
      PROVE  <<s, u>> \in R
  <2>1. Better(l, o, t, s) /\ Better(l, o, u, t)
    BY <1>2
  <2>2. s \in o[t] /\ t \in o[u] => s \in o[u]
    BY DEF Ordered
  <2>3. Better(l, o, u, s)
    BY <1>0, <2>1, <2>2 DEF Better
  <2>. QED
    BY <2>3
<1>3. PICK s \in live : \A t \in live : <<s, t>> \notin R
  <2>. HIDE DEF R
  <2>. QED
    BY <1>1, <1>2, FiniteIds, HasMaximal
<1>4. \E x \in live : \A t \in live : ~Better(l, o, t, x)
  BY <1>3
<1>. QED
  BY <1>4, NewestIsLive DEF Owner

-----------------------------------------------------------------------------
(* What a refresh makes of the rows *)

(* Only usage differs between two ledgers. *)
SameBut(l, m) ==
  \A s \in Ids : /\ m[s].state = l[s].state /\ m[s].rev = l[s].rev
                 /\ m[s].tariff = l[s].tariff /\ m[s].until = l[s].until

(* Writing a source's usage leaves the rest of the ledger. *)
LEMMA UsageType ==
  ASSUME NEW l \in [Ids -> Row], NEW s \in Ids, NEW n \in Nat
  PROVE  [l EXCEPT ![s].used = n] \in [Ids -> Row] /\ SameBut(l, [l EXCEPT ![s].used = n])
<1>1. ASSUME NEW r \in Row
      PROVE  /\ [r EXCEPT !.used = n] \in Row
             /\ [r EXCEPT !.used = n].state = r.state /\ [r EXCEPT !.used = n].rev = r.rev
             /\ [r EXCEPT !.used = n].tariff = r.tariff /\ [r EXCEPT !.used = n].until = r.until
  BY DEF Row
<1>. QED
  BY <1>1 DEF SameBut

(* So does saving what the active source used. *)
LEMMA SavedType ==
  ASSUME NEW l \in [Ids -> Row], NEW c \in ClientRow
  PROVE  SaveUsage(c, l) \in [Ids -> Row] /\ SameBut(l, SaveUsage(c, l))
<1>1. c.used \in Nat
  BY DEF ClientRow
<1>. QED
  BY <1>1, UsageType DEF SaveUsage, SameBut

(* The end of some sources is not before theirs, nor before now. *)
LEMMA EndType ==
  ASSUME clock \in Nat, NEW l \in [Ids -> Row], NEW live, live \subseteq Ids
  PROVE  /\ End(l, live) \in Nat
         /\ End(l, live) = Never \/ End(l, live) >= clock
         /\ \A s \in live : End(l, live) = Never \/ (l[s].until # Never /\ l[s].until <= End(l, live))
<1>0. \A s \in live : l[s].until \in Nat
  BY DEF Row
<1>1. CASE live = {} \/ \E s \in live : l[s].until = Never
  BY <1>0, <1>1 DEF End, Never
<1>2. CASE live # {} /\ \A s \in live : l[s].until # Never
  <2>. DEFINE f == Furthest(l, live)
  <2>1. f \in live /\ \A t \in live : l[t].until <= l[f].until
    BY <1>2, FurthestIsLive
  <2>2. End(l, live) = Later(clock, l[f].until)
    BY <1>2 DEF End
  <2>. HIDE DEF f
  <2>3. l[f].until \in Nat /\ l[f].until # Never
    BY <1>0, <1>2, <2>1
  <2>4. /\ Later(clock, l[f].until) \in Nat
        /\ Later(clock, l[f].until) = Never \/ (Later(clock, l[f].until) >= clock /\ Later(clock, l[f].until) >= l[f].until)
    BY <2>3 DEF Later, Never
  <2>. QED
    BY <1>0, <1>2, <2>1, <2>2, <2>4
<1>. QED
  BY <1>1, <1>2

(* A row after its switch is set. *)
LEMMA SwitchedType ==
  ASSUME NEW c \in ClientRow, NEW blocked \in BOOLEAN
  PROVE  LET d == Switched(c, blocked)
         IN /\ d \in ClientRow /\ d.row = c.row /\ (d.manual <=> c.manual)
            /\ d.until = c.until /\ d.limit = c.limit /\ d.used = c.used /\ d.active = c.active
            /\ (d.enable <=> Permitted(c, blocked))
            /\ (~d.enable => c.manual \/ blocked \/ d.why = "quota")
<1>1. Permitted(c, blocked) \in BOOLEAN
  BY DEF Permitted
<1>2. ASSUME NEW on \in BOOLEAN, NEW why \in {"", "manual", "expiry", "quota"}
      PROVE  LET d == [c EXCEPT !.enable = on, !.why = why]
             IN /\ d \in ClientRow /\ d.row = c.row /\ (d.manual <=> c.manual)
                /\ d.until = c.until /\ d.limit = c.limit /\ d.used = c.used /\ d.active = c.active
                /\ (d.enable <=> on) /\ d.why = why
  BY DEF ClientRow
<1>3. PICK why \in {"", "manual", "expiry", "quota"} :
        /\ Switched(c, blocked) = [c EXCEPT !.enable = Permitted(c, blocked), !.why = why]
        /\ Permitted(c, blocked) \/ c.manual \/ blocked \/ why = "quota"
  BY Zenon DEF Switched
<1>. DEFINE d == [c EXCEPT !.enable = Permitted(c, blocked), !.why = why]
<1>4. /\ d \in ClientRow /\ d.row = c.row /\ (d.manual <=> c.manual)
      /\ d.until = c.until /\ d.limit = c.limit /\ d.used = c.used /\ d.active = c.active
      /\ (d.enable <=> Permitted(c, blocked)) /\ d.why = why
  BY <1>1, <1>2, Zenon
<1>5. Switched(c, blocked) = d
  BY <1>3
<1>. HIDE DEF d
<1>. QED
  BY <1>3, <1>4, <1>5, Zenon

(* Refreshed, whole. *)
LEMMA RefreshedType ==
  ASSUME clock \in Nat, clock >= 2, NEW c \in ClientRow, NEW l \in [Ids -> Row],
         NEW o \in [Ids -> SUBSET Ids], Ordered(o), NEW blocked \in BOOLEAN, NEW reset \in BOOLEAN
  PROVE  LET r == Refreshed(c, l, o, blocked, reset)
             d == r.client
         IN /\ r.ledger \in [Ids -> Row] /\ SameBut(l, r.ledger)
            /\ d \in ClientRow /\ d.row = c.row /\ (d.manual <=> c.manual)
            /\ d.enable => Live(l) # {} /\ ~c.manual /\ ~blocked
            /\ ~d.enable => \/ Live(l) = {} \/ c.manual \/ blocked
                            \/ d.why = "quota" /\ ~HasQuota(d)
            /\ \/ d.active \in Live(l) /\ (d.until = Never \/ d.until >= clock)
                  /\ (d.until = Never \/ (l[d.active].until # Never /\ d.until >= l[d.active].until))
               \/ d.active = NoSource /\ Live(l) = {} /\ d.until = clock - 1
<1>. DEFINE live == Live(l)
            owner == Owner(l, o, live)
<1>1. live \subseteq Ids
  BY DEF Live, Counted
<1>2. CASE live = {}
  <2>. DEFINE d == [c EXCEPT !.enable = FALSE, !.why = "expiry", !.until = clock - 1, !.active = NoSource]
  <2>1. Refreshed(c, l, o, blocked, reset) = [client |-> d, ledger |-> l]
    BY <1>2 DEF Refreshed
  <2>2. clock - 1 \in Nat
    OBVIOUS
  <2>3. /\ d \in ClientRow /\ d.row = c.row /\ (d.manual <=> c.manual) /\ (d.enable <=> FALSE)
        /\ d.until = clock - 1 /\ d.active = NoSource
    BY <2>2 DEF ClientRow
  <2>. HIDE DEF d
  <2>. QED
    BY <1>2, <2>1, <2>3 DEF SameBut
<1>3. CASE live # {}
  <2>1. owner \in live /\ owner \in Ids
    BY <1>1, <1>3, OwnerIsLive
  <2>2. PICK fresh \in [Ids -> Row] :
          /\ SameBut(l, fresh)
          /\ Refreshed(c, l, o, blocked, reset)
             = [client |-> Switched([c EXCEPT !.until = End(l, live), !.limit = l[owner].limit,
                                              !.used = fresh[owner].used, !.tariff = l[owner].tariff,
                                              !.active = owner], blocked),
                ledger |-> fresh]
    <3>. DEFINE zero == [l EXCEPT ![owner].used = 0]
                expired == /\ c.active \in Ids /\ c.active # owner
                           /\ l[c.active].state \in {"live", "disabled"}
                           /\ ~Ahead(l[c.active].until, clock)
    <3>1. zero \in [Ids -> Row] /\ SameBut(l, zero)
      BY <2>1, UsageType
    <3>2. SameBut(l, l)
      BY DEF SameBut
    <3>3. CASE reset \/ expired
      BY <1>3, <3>1, <3>3 DEF Refreshed
    <3>4. CASE ~(reset \/ expired)
      BY <1>3, <3>2, <3>4 DEF Refreshed
    <3>. QED
      BY <3>3, <3>4
  <2>. DEFINE shown == [c EXCEPT !.until = End(l, live), !.limit = l[owner].limit, !.used = fresh[owner].used,
                                 !.tariff = l[owner].tariff, !.active = owner]
              d == Switched(shown, blocked)
  <2>3. End(l, live) \in Nat /\ (End(l, live) = Never \/ End(l, live) >= clock)
        /\ (End(l, live) = Never \/ (l[owner].until # Never /\ l[owner].until <= End(l, live)))
    BY <1>1, <2>1, EndType
  <2>4. l[owner].limit \in Nat /\ fresh[owner].used \in Nat /\ l[owner].tariff \in Tariffs
    BY <2>1 DEF Row
  <2>5. /\ shown \in ClientRow /\ shown.row = c.row /\ (shown.manual <=> c.manual)
        /\ shown.until = End(l, live) /\ shown.active = owner
    <3>. HIDE DEF owner, live
    <3>. QED
      BY <2>1, <2>3, <2>4 DEF ClientRow
  <2>6. /\ Refreshed(c, l, o, blocked, reset).client = d
        /\ Refreshed(c, l, o, blocked, reset).ledger = fresh
    BY <2>2
  <2>. HIDE DEF shown
  <2>7. /\ d \in ClientRow /\ d.row = shown.row /\ (d.manual <=> shown.manual)
        /\ d.until = shown.until /\ d.limit = shown.limit /\ d.used = shown.used /\ d.active = shown.active
        /\ (d.enable <=> Permitted(shown, blocked))
        /\ (~d.enable => shown.manual \/ blocked \/ d.why = "quota")
    BY <2>5, SwitchedType
  <2>. HIDE DEF d
  <2>8. HasQuota(d) <=> HasQuota(shown)
    BY <2>7 DEF HasQuota
  <2>9. /\ d.enable => ~c.manual /\ ~blocked
        /\ ~d.enable => c.manual \/ blocked \/ (d.why = "quota" /\ ~HasQuota(d))
    BY <2>5, <2>7, <2>8, Zenon DEF Permitted
  <2>. HIDE DEF owner
  <2>. QED
    BY <1>3, <2>1, <2>2, <2>3, <2>5, <2>6, <2>7, <2>9
<1>. QED
  BY <1>2, <1>3

-----------------------------------------------------------------------------
(* Steps that write and synchronize *)

(* What is written by a typed step is typed. *)
Written == /\ ledger' \in [Ids -> Row] /\ client' \in ClientRow
           /\ dirty' \in BOOLEAN /\ running' \in BOOLEAN /\ failures' \in Nat

(* A managed client against the ledger: why it is on or off, and which     *)
(* source it shows.                                                        *)
Access(d, l) ==
  d.row = "managed" =>
    /\ d.enable => Counted(l) # {} /\ ~d.manual
    /\ ~d.enable => \/ Live(l) = {} \/ d.manual \/ account.blocked
                    \/ d.why = "quota" /\ (~HasQuota(d) \/ edits > 0)
    /\ \/ /\ d.active \in Ids
          /\ l[d.active].state = "live" \/ (l[d.active].state = "disabled" /\ d.manual)
          /\ d.until = Never \/ (l[d.active].until # Never /\ d.until >= l[d.active].until)
       \/ /\ d.active = NoSource /\ Live(l) = {} /\ ~d.enable
          /\ d.until # Never /\ d.until < clock
AccessInv == Access(client, ledger)

(* The source written last is the newest. *)
LEMMA StampedType ==
  ASSUME NEW o \in [Ids -> SUBSET Ids], Ordered(o), NEW s \in Ids
  PROVE  Stamped(o, s) \in [Ids -> SUBSET Ids] /\ Ordered(Stamped(o, s))
  BY DEF Stamped, Ordered

(* A synchronization keeps the types. *)
LEMMA SyncType ==
  ASSUME TypeOK, NEW c \in ClientRow, Sync(c) \/ Synchronize
  PROVE  dirty' \in BOOLEAN /\ running' \in BOOLEAN /\ failures' \in Nat
<1>1. c.enable \in BOOLEAN /\ client.enable \in BOOLEAN /\ running \in BOOLEAN /\ dirty \in BOOLEAN
  BY DEF ClientRow, TypeOK
<1>2. dirty' \in BOOLEAN
  BY <1>1, Zenon DEF Sync, Synchronize
<1>3. running' \in BOOLEAN
  <2>1. running' = running \/ running' = c.enable \/ running' = client.enable
    BY Zenon DEF Sync, Synchronize
  <2>. QED
    BY <1>1, <2>1
<1>4. failures' \in Nat
  BY DEF Sync, Synchronize, TypeOK
<1>. QED
  BY <1>2, <1>3, <1>4

(* So does a write of typed rows. *)
LEMMA WriteType ==
  ASSUME TypeOK, NEW l \in [Ids -> Row], NEW c \in ClientRow, Write(l, c)
  PROVE  Written /\ ledger' = l /\ client' = c
  BY SyncType DEF Write, Written

(* Ledgers that differ in usage have the same live sources. *)
LEMMA SameLive ==
  ASSUME NEW l, NEW m, SameBut(l, m) PROVE Live(m) = Live(l) /\ Counted(m) = Counted(l)
  BY DEF SameBut, Live, Counted

(* What a refresh writes. *)
LEMMA RefreshStep ==
  ASSUME TypeInv, NEW c \in ClientRow, NEW l \in [Ids -> Row], NEW o \in [Ids -> SUBSET Ids], Ordered(o),
         NEW blocked \in BOOLEAN, NEW reset \in BOOLEAN, WriteBoth(Refreshed(c, l, o, blocked, reset)),
         clock' = clock, account'.blocked <=> blocked
  PROVE  /\ Written /\ SameBut(l, ledger') /\ client'.row = c.row
         /\ c.row = "managed" => AccessInv'
         /\ blocked => ~client'.enable
<1>. DEFINE r == Refreshed(c, l, o, blocked, reset)
            d == r.client
<1>0. clock \in Nat /\ clock >= 2
  BY DEF TypeInv, TypeOK
<1>1. /\ r.ledger \in [Ids -> Row] /\ SameBut(l, r.ledger)
      /\ d \in ClientRow /\ d.row = c.row /\ (d.manual <=> c.manual)
      /\ d.enable => Live(l) # {} /\ ~c.manual /\ ~blocked
      /\ ~d.enable => \/ Live(l) = {} \/ c.manual \/ blocked
                      \/ d.why = "quota" /\ ~HasQuota(d)
      /\ \/ d.active \in Live(l) /\ (d.until = Never \/ d.until >= clock)
            /\ (d.until = Never \/ (l[d.active].until # Never /\ d.until >= l[d.active].until))
         \/ d.active = NoSource /\ Live(l) = {} /\ d.until = clock - 1
  BY <1>0, RefreshedType
<1>. HIDE DEF r
<1>2. Written /\ ledger' = r.ledger /\ client' = d
  BY <1>1, WriteType, Zenon DEF WriteBoth, TypeInv, r
<1>. HIDE DEF d
<1>3. Live(ledger)' = Live(l) /\ Counted(ledger)' = Counted(l)
  BY <1>1, <1>2 DEF SameBut, Live, Counted, Ahead
<1>4. Live(l) \subseteq Counted(l) /\ Counted(l) \subseteq Ids
  BY DEF Live, Counted
<1>5. HasQuota(client)' <=> HasQuota(d)
  BY <1>2 DEF HasQuota
<1>6. ASSUME c.row = "managed" PROVE AccessInv'
  <2>1. client'.enable => Counted(ledger)' # {} /\ ~client'.manual
    BY <1>1, <1>2, <1>3, <1>4
  <2>2. ~client'.enable => \/ Live(ledger)' = {} \/ client'.manual \/ account'.blocked
                           \/ client'.why = "quota" /\ ~HasQuota(client)'
    BY <1>1, <1>2, <1>3, <1>5
  <2>3. CASE d.active \in Live(l)
    <3>1. /\ d.active \in Ids /\ ledger'[d.active].state = "live" /\ ledger'[d.active].until = l[d.active].until
          /\ d.active # NoSource
      BY <1>1, <1>2, <1>4, <2>3, IdsAssumption DEF SameBut, Live, Counted, Ids
    <3>2. d.until = Never \/ (ledger'[d.active].until # Never /\ d.until >= ledger'[d.active].until)
      BY <1>1, <2>3, <3>1
    <3>. QED
      BY <1>2, <2>1, <2>2, <3>1, <3>2 DEF AccessInv, Access
  <2>4. CASE d.active = NoSource /\ Live(l) = {} /\ d.until = clock - 1
    <3>1. d.until # Never /\ d.until < clock'
      BY <2>4 DEF TypeInv, TypeOK, Never
    <3>2. ~d.enable
      BY <1>1, <2>4
    <3>. QED
      BY <1>2, <1>3, <2>1, <2>2, <2>4, <3>1, <3>2 DEF AccessInv, Access
  <2>. QED
    BY <1>1, <2>3, <2>4
<1>. QED
  BY <1>1, <1>2, <1>6

-----------------------------------------------------------------------------
(* The rows of the ledger *)

(* A row of a source, and what it may become: a later revision, or of the  *)
(* same revision nothing that is not as gone.                              *)
RowInv(s, row) ==
  /\ row.state = "absent" => row.rev = 0
  /\ s \in Sources /\ row.state # "absent" => row.tariff = TariffOf[s]
RowStep(old, row) ==
  \/ row.rev > old.rev
  \/ row.rev = old.rev /\ (old.state \in {"revoked", "tombstone"} => row.state \in {"revoked", "tombstone"})

(* Only of a managed client there is more in the ledger than revocations   *)
(* of what was never granted.                                              *)
LegacyInv ==
  client.row # "managed" => /\ \A s \in Ids : ledger[s].state \in {"absent", "tombstone"}
                            /\ ledger[Legacy].state = "absent" /\ client.active = NoSource
                            /\ client.row = "none" => ~client.enable

LedgerInv ==
  /\ \A s \in Ids : RowInv(s, ledger[s])
  /\ LegacyInv
  /\ AccessInv
  /\ RevokedForGood
  /\ BlockedIsOff
  /\ AccountIsLatest

(* What every step does to the ledger. *)
LedgerStep == \A s \in Ids : RowInv(s, ledger'[s]) /\ RowStep(ledger[s], ledger'[s])

(* What holds of a ledger holds of one that differs in usage. *)
LEMMA SameRows ==
  ASSUME NEW l, NEW m, SameBut(l, m), NEW s \in Ids, NEW old
  PROVE  /\ RowInv(s, l[s]) => RowInv(s, m[s])
         /\ RowStep(old, l[s]) => RowStep(old, m[s])
  BY DEF SameBut, RowInv, RowStep

(* An unchanged row is a step. *)
LEMMA SameRow ==
  ASSUME TypeOK, NEW s \in Ids, RowInv(s, ledger[s]), NEW m, SameBut(ledger, m)
  PROVE  RowInv(s, m[s]) /\ RowStep(ledger[s], m[s])
  BY DEF SameBut, RowInv, RowStep, TypeOK, Row

(* So a ledger that differs in usage is a step. *)
LEMMA UsageStep ==
  ASSUME TypeOK, \A s \in Ids : RowInv(s, ledger[s]), SameBut(ledger, ledger')
  PROVE  LedgerStep
  BY SameRow DEF LedgerStep

(* What was revoked stays so, and what is revoked now is. *)
LEMMA RevokedStep ==
  ASSUME TypeOK, LedgerStep, ledger' \in [Ids -> Row], RevokedForGood,
         \A r \in revoked' \ revoked : r \in Revokes /\ Gone(r.source, r.rev)',
         revoked \subseteq Revokes,
         \A r \in (TariffRevokes \cap receipts') \ receipts : \A s \in DOMAIN r.sources : Gone(s, r.sources[s])'
  PROVE  RevokedForGood'
<1>1. ASSUME NEW s \in Ids, NEW rev \in Nat, Gone(s, rev) PROVE Gone(s, rev)'
  <2>1. RowStep(ledger[s], ledger'[s])
    BY DEF LedgerStep
  <2>2. ledger[s].rev \in Nat /\ ledger'[s].rev \in Nat
    BY DEF TypeOK, Row
  <2>. QED
    BY <1>1, <2>1, <2>2 DEF Gone, RowStep
<1>2. ASSUME NEW r \in revoked' PROVE Gone(r.source, r.rev)'
  <2>1. CASE r \in revoked
    <3>1. r.source \in Ids /\ r.rev \in Nat
      BY <2>1, OperationsAssumption DEF Ids
    <3>. QED
      BY <1>1, <2>1, <3>1 DEF RevokedForGood
  <2>. QED
    BY <2>1
<1>3. ASSUME NEW r \in TariffRevokes \cap receipts', NEW s \in DOMAIN r.sources
      PROVE  Gone(s, r.sources[s])'
  <2>1. CASE r \in receipts
    <3>1. s \in Ids /\ r.sources[s] \in Nat
      BY OperationsAssumption DEF Ids
    <3>. QED
      BY <1>1, <2>1, <3>1 DEF RevokedForGood
  <2>. QED
    BY <2>1
<1>. QED
  BY <1>2, <1>3 DEF RevokedForGood

-----------------------------------------------------------------------------
(* The master's calls *)

(* A grant adopts a legacy client, writes its row and refreshes. *)
LEMMA ExecuteGrantStep ==
  ASSUME TypeInv, LedgerInv, NEW g \in Grants, ExecuteGrant(g),
         clock' = clock, ~account'.blocked
  PROVE  /\ Written /\ LedgerStep
         /\ older' \in [Ids -> SUBSET Ids] /\ Ordered(older)'
         /\ client'.row = "managed" /\ AccessInv'
         /\ ledger'[g.source].state = "live" /\ ledger'[g.source].rev = g.rev
         /\ \A s \in Sources \ {g.source} : ledger'[s].state = ledger[s].state /\ ledger'[s].rev = ledger[s].rev
<1>. DEFINE legacy == client.row = "legacy"
            c0 == IF legacy THEN Adopted(client, Legacy, LegacyManual(client)) ELSE [client EXCEPT !.row = "managed"]
            o0 == IF legacy THEN Stamped(older, Legacy) ELSE older
            la == IF legacy THEN [ledger EXCEPT ![Legacy] = AdoptedRow(client)] ELSE ledger
            l0 == SaveUsage(c0, la)
            end == PeriodStart(l0)
            until == IF g.period = 0 THEN g.until ELSE IF end = Never THEN Never ELSE end + g.period
            row == [state |-> "live", rev |-> g.rev, tariff |-> g.tariff,
                    until |-> until, limit |-> g.limit, used |-> 0]
            l1 == [l0 EXCEPT ![g.source] = row]
            o1 == Stamped(o0, g.source)
            c1 == [c0 EXCEPT !.active = NoSource]
<1>1. /\ ~Superseded(g.source, g.rev)
      /\ WriteBoth(Refreshed(c1, l1, o1, FALSE, g.period # 0))
      /\ older' = o1
  BY DEF ExecuteGrant
<1>2. /\ g.source \in Sources /\ g.source \in Ids /\ g.rev \in Nat /\ g.tariff = TariffOf[g.source] /\ g.tariff \in Tariffs
      /\ g.limit \in Nat /\ g.period \in Nat /\ g.until \in Nat /\ Legacy \in Ids /\ Legacy \notin Sources
  BY OperationsAssumption, LedgerBoundsAssumption, IdsAssumption DEF Ids
<1>3. /\ client \in ClientRow /\ ledger \in [Ids -> Row] /\ older \in [Ids -> SUBSET Ids] /\ Ordered(older)
      /\ clock \in Nat
  BY DEF TypeInv, TypeOK
<1>4. c0 \in ClientRow /\ c1 \in ClientRow /\ c1.row = "managed"
  <2>1. LegacyManual(client) \in BOOLEAN
    BY DEF LegacyManual
  <2>2. c0 \in ClientRow /\ c0.row = "managed"
    BY <1>2, <1>3, <2>1 DEF Adopted, ClientRow
  <2>. HIDE DEF c0
  <2>. QED
    BY <2>2 DEF ClientRow
<1>5. o0 \in [Ids -> SUBSET Ids] /\ Ordered(o0)
  BY <1>2, <1>3, StampedType
<1>6. la \in [Ids -> Row] /\ \A s \in Ids : RowInv(s, la[s]) /\ RowStep(ledger[s], la[s])
  <2>1. \A s \in Ids : RowInv(s, ledger[s]) /\ RowStep(ledger[s], ledger[s])
    BY SameRow DEF LedgerInv, TypeInv, SameBut
  <2>2. CASE legacy
    <3>1. AdoptedRow(client) \in Row /\ AdoptedRow(client).state = "live" /\ AdoptedRow(client).rev = 0
      BY <1>3 DEF AdoptedRow, Absent, Row, ClientRow
    <3>2. ledger[Legacy].state = "absent" /\ ledger[Legacy].rev = 0
      BY <1>2, <2>2 DEF LedgerInv, LegacyInv, RowInv
    <3>. QED
      BY <1>2, <1>3, <2>1, <2>2, <3>1, <3>2 DEF RowInv, RowStep
  <2>. QED
    BY <1>3, <2>1, <2>2
<1>7. l0 \in [Ids -> Row] /\ \A s \in Ids : RowInv(s, l0[s]) /\ RowStep(ledger[s], l0[s])
  <2>1. l0 \in [Ids -> Row] /\ SameBut(la, l0)
    BY <1>4, <1>6, SavedType
  <2>. HIDE DEF l0, la
  <2>. QED
    BY <1>6, <2>1, SameRows
<1>8. row \in Row
  <2>1. end \in Nat
    <3>. HIDE DEF l0
    <3>1. Live(l0) \subseteq Ids
      BY DEF Live, Counted
    <3>. QED
      BY <1>3, <1>7, <3>1, EndType DEF PeriodStart
  <2>. HIDE DEF end
  <2>2. until \in Nat
    BY <1>2, <2>1 DEF Never
  <2>. HIDE DEF until
  <2>. QED
    BY <1>2, <2>2 DEF Row
<1>9. l1 \in [Ids -> Row] /\ \A s \in Ids : RowInv(s, l1[s]) /\ RowStep(ledger[s], l1[s])
  <2>1. RowInv(g.source, row)
    BY <1>2 DEF RowInv
  <2>2. RowStep(ledger[g.source], row)
    <3>1. \/ ledger[g.source].state = "absent" /\ ledger[g.source].rev = 0
          \/ ledger[g.source].rev < g.rev
      BY <1>1, <1>2, <1>3 DEF Superseded, LedgerInv, RowInv, Row
    <3>. QED
      BY <1>2, <3>1 DEF RowStep
  <2>. HIDE DEF l0, row
  <2>. QED
    BY <1>2, <1>7, <1>8, <2>1, <2>2
<1>10. o1 \in [Ids -> SUBSET Ids] /\ Ordered(o1)
  <2>. HIDE DEF o0
  <2>. QED
    BY <1>2, <1>5, StampedType
<1>11. /\ l1[g.source].state = "live" /\ l1[g.source].rev = g.rev
       /\ \A s \in Sources \ {g.source} : l1[s].state = ledger[s].state /\ l1[s].rev = ledger[s].rev
  <2>1. la \in [Ids -> Row] /\ \A s \in Sources : s \in Ids /\ la[s] = ledger[s]
    BY <1>2, <1>3, <1>6 DEF Ids
  <2>2. l0 \in [Ids -> Row] /\ SameBut(la, l0)
    BY <1>4, <1>6, SavedType
  <2>. HIDE DEF la, l0, until
  <2>3. l1[g.source] = row /\ \A s \in Sources \ {g.source} : l1[s] = l0[s]
    BY <1>2, <2>1, <2>2
  <2>4. row.state = "live" /\ row.rev = g.rev
    OBVIOUS
  <2>. HIDE DEF row, l1
  <2>. QED
    BY <2>1, <2>2, <2>3, <2>4 DEF SameBut
<1>. HIDE DEF c0, c1, l0, l1, o0, o1, row
<1>12. Written /\ SameBut(l1, ledger') /\ client'.row = "managed" /\ AccessInv'
  <2>1. (g.period # 0) \in BOOLEAN /\ FALSE \in BOOLEAN /\ (account'.blocked <=> FALSE)
    OBVIOUS
  <2>2. WriteBoth(Refreshed(c1, l1, o1, FALSE, g.period # 0))
    BY <1>1
  <2>. QED
    BY <1>4, <1>9, <1>10, <2>1, <2>2, RefreshStep
<1>13. LedgerStep
  BY <1>9, <1>12, SameRows DEF LedgerStep
<1>14. Ordered(older)'
  BY <1>1, <1>10 DEF Ordered
<1>15. /\ ledger'[g.source].state = "live" /\ ledger'[g.source].rev = g.rev
       /\ \A s \in Sources \ {g.source} : ledger'[s].state = ledger[s].state /\ ledger'[s].rev = ledger[s].rev
  BY <1>2, <1>11, <1>12 DEF SameBut, Ids
<1>. QED
  BY <1>1, <1>10, <1>12, <1>13, <1>14, <1>15

(* Access is kept where nothing it depends on changes. *)
LEMMA SameAccess ==
  ASSUME AccessInv, UNCHANGED <<clock, ledger, client, edits>>, account'.blocked <=> account.blocked
  PROVE  AccessInv'
<1>1. Live(ledger)' = Live(ledger) /\ Counted(ledger)' = Counted(ledger) /\ (HasQuota(client)' <=> HasQuota(client))
  BY DEF Live, Counted, Ahead, HasQuota
<1>. QED
  BY <1>1 DEF AccessInv, Access

(* What all the steps come to, of which the calls share most. *)
Kept == TypeInv' /\ LedgerInv' /\ LedgerStep /\ account'.rev >= account.rev

(* A step that wrote typed rows and moved neither the clock nor the order. *)
LEMMA KeptIf ==
  ASSUME TypeInv, LedgerInv, Written, LedgerStep, LegacyInv', AccessInv', BlockedIsOff', AccountIsLatest',
         clock' = clock, older' \in [Ids -> SUBSET Ids], Ordered(older)',
         account' \in [rev : Nat, blocked : BOOLEAN], account'.rev >= account.rev,
         receipts' \in SUBSET Operations, revoked' \in SUBSET Revokes,
         \A r \in revoked' \ revoked : Gone(r.source, r.rev)',
         \A r \in (TariffRevokes \cap receipts') \ receipts : \A s \in DOMAIN r.sources : Gone(s, r.sources[s])',
         adminOff' \in BOOLEAN, edits' \in Nat
  PROVE  Kept
<1>1. TypeInv'
  BY DEF TypeInv, TypeOK, Written
<1>2. RevokedForGood'
  BY RevokedStep DEF TypeInv, TypeOK, LedgerInv, Written
<1>3. \A s \in Ids : RowInv(s, ledger'[s])
  BY DEF LedgerStep
<1>4. (\A s \in Ids : RowInv(s, ledger[s]))'
  BY <1>3 DEF RowInv
<1>. QED
  BY <1>1, <1>2, <1>4 DEF Kept, LedgerInv

(* A grant, also a repeated one. *)
LEMMA GrantStep ==
  ASSUME TypeInv, LedgerInv, NEW g \in Grants, NEW a \in {0} \cup Accounts, ~Blocks(a), Grant(g, a)
  PROVE  Kept
<1>1. /\ ~account.blocked /\ a >= account.rev /\ account' = [account EXCEPT !.rev = a]
      /\ UNCHANGED <<clock, revoked, adminOff, edits>>
  BY DEF Grant, AccountLets
<1>2. a \in Nat
  <2>1. Accounts \subseteq Nat
    BY OperationsAssumption, Zenon
  <2>. QED
    BY <2>1
<1>3. /\ account' \in [rev : Nat, blocked : BOOLEAN] /\ account'.rev = a /\ ~account'.blocked /\ account'.rev >= account.rev
  <2>1. account \in [rev : Nat, blocked : BOOLEAN]
    BY DEF TypeInv, TypeOK
  <2>2. account' = [rev |-> a, blocked |-> account.blocked] /\ account.blocked \in BOOLEAN
    BY <1>1, <2>1
  <2>. QED
    BY <1>1, <1>2, <2>1, <2>2
<1>4. AccountIsLatest' /\ BlockedIsOff'
  BY <1>3 DEF AccountIsLatest, BlockedIsOff, Blocks
<1>5. CASE ReplayGrant(g)
  <2>1. Synchronize /\ UNCHANGED <<ledger, client, older, receipts>>
    BY <1>5 DEF ReplayGrant
  <2>2. Written
    BY <2>1, SyncType DEF TypeInv, TypeOK, Written
  <2>3. LedgerStep
    BY <2>1, UsageStep DEF TypeInv, LedgerInv, SameBut
  <2>4. AccessInv' /\ LegacyInv'
    BY <1>1, <1>3, <2>1, SameAccess DEF LedgerInv, LegacyInv
  <2>5. Ordered(older)'
    BY <2>1 DEF TypeInv, Ordered
  <2>. QED
    BY <1>1, <1>3, <1>4, <2>1, <2>2, <2>3, <2>4, <2>5, KeptIf DEF TypeInv, TypeOK
<1>6. CASE ExecuteGrant(g)
  <2>1. /\ Written /\ LedgerStep /\ older' \in [Ids -> SUBSET Ids] /\ Ordered(older)'
        /\ client'.row = "managed" /\ AccessInv'
    BY <1>1, <1>3, <1>6, ExecuteGrantStep
  <2>2. LegacyInv'
    BY <2>1 DEF LegacyInv
  <2>3. receipts' = receipts \cup {g}
    BY <1>6 DEF ExecuteGrant
  <2>4. receipts' \in SUBSET Operations /\ g \notin TariffRevokes
    BY <2>3, OperationsAssumption DEF Operations, TypeInv, TypeOK
  <2>. QED
    BY <1>1, <1>3, <1>4, <2>1, <2>2, <2>3, <2>4, KeptIf DEF TypeInv, TypeOK
<1>. QED
  BY <1>5, <1>6 DEF Grant

(* Access is kept where what counts in the ledger does not change. *)
LEMMA QuietLedger ==
  ASSUME AccessInv, UNCHANGED <<clock, client, edits>>, account'.blocked <=> account.blocked,
         \A s \in Ids : \/ ledger'[s].state = ledger[s].state /\ ledger'[s].until = ledger[s].until
                        \/ ledger[s].state \in {"absent", "tombstone"} /\ ledger'[s].state \in {"absent", "tombstone"}
  PROVE  AccessInv'
<1>1. Counted(ledger)' = Counted(ledger)
  BY DEF Counted
<1>2. Live(ledger)' = Live(ledger)
  <2>1. \A s \in Counted(ledger) : ledger'[s].until = ledger[s].until
    BY DEF Counted
  <2>. QED
    BY <1>1, <2>1 DEF Live, Ahead
<1>3. HasQuota(client)' <=> HasQuota(client)
  BY DEF HasQuota
<1>. QED
  BY <1>1, <1>2, <1>3 DEF AccessInv, Access

(* The revocation of one source. *)
LEMMA RevokeStep ==
  ASSUME TypeInv, LedgerInv, NEW r \in Revokes, Revoke(r)
  PROVE  Kept
<1>. DEFINE src == r.source
            row == ledger[src]
            l1 == [ledger EXCEPT ![src] = Revocation(row, r.rev)]
            l2 == [ledger EXCEPT ![src] = Tombstone(r.tariff, r.rev)]
<1>1. /\ src \in Sources /\ src \in Ids /\ src # Legacy /\ r.rev \in Nat /\ r.tariff = TariffOf[src] /\ r.tariff \in Tariffs
  BY OperationsAssumption, IdsAssumption DEF Ids
<1>2. /\ client \in ClientRow /\ ledger \in [Ids -> Row] /\ older \in [Ids -> SUBSET Ids] /\ Ordered(older)
      /\ account.blocked \in BOOLEAN /\ row \in Row /\ TypeOK
  BY <1>1 DEF TypeInv, TypeOK
<1>3. /\ revoked' = revoked \cup {r}
      /\ UNCHANGED <<clock, older, account, receipts, adminOff, edits>>
  BY DEF Revoke
<1>4. \A s \in Ids : RowInv(s, ledger[s]) /\ RowStep(ledger[s], ledger[s])
  BY SameRow DEF LedgerInv, TypeInv, SameBut
<1>5. ASSUME Written, LedgerStep, LegacyInv', AccessInv', BlockedIsOff', Gone(src, r.rev)' PROVE Kept
  <2>1. AccountIsLatest' /\ Ordered(older)'
    BY <1>2, <1>3 DEF LedgerInv, AccountIsLatest, Blocks, Ordered
  <2>2. account' \in [rev : Nat, blocked : BOOLEAN] /\ account'.rev >= account.rev
    BY <1>2, <1>3 DEF TypeOK
  <2>3. revoked' \in SUBSET Revokes /\ \A x \in revoked' \ revoked : Gone(x.source, x.rev)'
    BY <1>2, <1>3, <1>5 DEF TypeOK
  <2>. QED
    BY <1>2, <1>3, <1>5, <2>1, <2>2, <2>3, KeptIf DEF TypeOK
<1>6. ASSUME NEW m \in [Ids -> Row], ledger' = m, UNCHANGED <<client, dirty, running, failures>>,
             \A s \in Ids \ {src} : m[s] = ledger[s], row.state \in {"absent", "tombstone"},
             m[src].state = "tombstone", m[src].rev = r.rev, RowInv(src, m[src]), RowStep(row, m[src])
      PROVE  Kept
  <2>1. Written
    BY <1>2, <1>6 DEF Written, TypeOK
  <2>2. LedgerStep
    BY <1>4, <1>6 DEF LedgerStep
  <2>3. AccessInv'
    BY <1>2, <1>3, <1>6, QuietLedger DEF LedgerInv
  <2>4. LegacyInv' /\ BlockedIsOff'
    BY <1>1, <1>3, <1>6, IdsAssumption DEF LedgerInv, LegacyInv, BlockedIsOff, Ids
  <2>5. Gone(src, r.rev)'
    BY <1>6 DEF Gone
  <2>. QED
    BY <1>5, <2>1, <2>2, <2>3, <2>4, <2>5
<1>7. l1 \in [Ids -> Row] /\ l2 \in [Ids -> Row]
  <2>1. Revocation(row, r.rev) \in Row
    BY <1>1, <1>2 DEF Revocation, Row
  <2>2. Tombstone(r.tariff, r.rev) \in Row
    BY <1>1 DEF Tombstone, Absent, Row, Never
  <2>. QED
    BY <1>2, <2>1, <2>2
<1>8. CASE /\ row.state = "absent" /\ ledger' = l2 /\ UNCHANGED <<client, dirty, running, failures>>
  <2>1. row.rev = 0
    BY <1>1, <1>4, <1>8 DEF RowInv
  <2>2. /\ l2[src].state = "tombstone" /\ l2[src].rev = r.rev /\ l2[src].tariff = r.tariff
        /\ \A s \in Ids \ {src} : l2[s] = ledger[s]
    BY <1>1, <1>2 DEF Tombstone, Absent
  <2>3. RowInv(src, l2[src]) /\ RowStep(row, l2[src])
    BY <1>1, <1>8, <2>1, <2>2 DEF RowInv, RowStep
  <2>. QED
    BY <1>6, <1>7, <1>8, <2>2, <2>3
<1>9. ASSUME row.state # "absent", row.rev <= r.rev
      PROVE  /\ l1[src].state \in {"revoked", "tombstone"} /\ l1[src].rev = r.rev
             /\ l1[src].state = "tombstone" <=> row.state = "tombstone"
             /\ \A s \in Ids : RowInv(s, l1[s]) /\ RowStep(ledger[s], l1[s])
  <2>1. /\ l1[src].state \in {"revoked", "tombstone"} /\ l1[src].rev = r.rev /\ l1[src].tariff = row.tariff
        /\ l1[src].state = "tombstone" <=> row.state = "tombstone"
        /\ \A s \in Ids \ {src} : l1[s] = ledger[s]
    BY <1>1, <1>2 DEF Revocation, Row
  <2>2. RowInv(src, l1[src]) /\ RowStep(row, l1[src])
    <3>1. row.rev \in Nat /\ row.tariff = TariffOf[src]
      BY <1>1, <1>2, <1>4, <1>9 DEF RowInv, Row
    <3>. HIDE DEF row, l1
    <3>2. RowInv(src, l1[src])
      BY <2>1, <3>1 DEF RowInv
    <3>3. RowStep(row, l1[src])
      BY <1>1, <1>9, <2>1, <3>1 DEF RowStep
    <3>. QED
      BY <3>2, <3>3
  <2>. QED
    BY <1>4, <2>1, <2>2
<1>10. CASE row.state = "tombstone" /\ row.rev <= r.rev /\ ledger' = l1 /\ UNCHANGED <<client, dirty, running, failures>>
  <2>1. \A s \in Ids \ {src} : l1[s] = ledger[s]
    BY <1>2
  <2>. QED
    BY <1>1, <1>6, <1>7, <1>9, <1>10, <2>1
<1>11. CASE /\ row.state \notin {"absent", "tombstone"} /\ row.rev <= r.rev
            /\ WriteBoth(Refreshed(client, SaveUsage(client, l1), older, account.blocked, FALSE))
  <2>1. client.row = "managed"
    BY <1>1, <1>11 DEF LedgerInv, LegacyInv
  <2>. DEFINE l0 == SaveUsage(client, l1)
  <2>2. l0 \in [Ids -> Row] /\ SameBut(l1, l0)
    BY <1>2, <1>7, SavedType
  <2>3. WriteBoth(Refreshed(client, l0, older, account.blocked, FALSE))
    BY <1>11
  <2>. HIDE DEF l0, l1
  <2>9. /\ Written /\ SameBut(l0, ledger') /\ client'.row = "managed" /\ AccessInv'
        /\ account.blocked => ~client'.enable
    <3>1. FALSE \in BOOLEAN /\ clock' = clock /\ (account'.blocked <=> account.blocked)
      BY <1>3
    <3>. QED
      BY <1>2, <2>1, <2>2, <2>3, <3>1, RefreshStep
  <2>4. \A s \in Ids : RowInv(s, l0[s]) /\ RowStep(ledger[s], l0[s])
    BY <1>9, <1>11, <2>2, SameRows
  <2>5. LedgerStep
    BY <2>4, <2>9, SameRows DEF LedgerStep
  <2>6. ledger'[src].state \in {"revoked", "tombstone"} /\ ledger'[src].rev = r.rev
    BY <1>1, <1>9, <1>11, <2>2, <2>9 DEF SameBut
  <2>7. Gone(src, r.rev)' /\ LegacyInv' /\ BlockedIsOff'
    BY <1>3, <2>6, <2>9 DEF Gone, LegacyInv, BlockedIsOff
  <2>. QED
    BY <1>5, <2>5, <2>7, <2>9
<1>. QED
  BY <1>8, <1>10, <1>11 DEF Revoke

(* A repeated call, and any other step that only synchronizes. *)
LEMMA OnlySynchronize ==
  ASSUME TypeInv, LedgerInv, Synchronize,
         UNCHANGED <<clock, ledger, client, older, account, receipts, revoked, adminOff, edits>>
  PROVE  Kept
<1>1. Written
  BY SyncType DEF TypeInv, TypeOK, Written
<1>2. LedgerStep
  BY UsageStep DEF TypeInv, LedgerInv, SameBut
<1>3. AccessInv' /\ LegacyInv' /\ BlockedIsOff' /\ AccountIsLatest'
  BY SameAccess DEF LedgerInv, LegacyInv, BlockedIsOff, AccountIsLatest, Blocks
<1>4. Ordered(older)'
  BY DEF TypeInv, Ordered
<1>5. account'.rev >= account.rev
  BY DEF TypeInv, TypeOK
<1>. QED
  BY <1>1, <1>2, <1>3, <1>4, <1>5, KeptIf DEF TypeInv, TypeOK

(* A step that refreshes a managed client, from a ledger that may follow. *)
LEMMA RefreshKept ==
  ASSUME TypeInv, LedgerInv, NEW c \in ClientRow, c.row = "managed", NEW l \in [Ids -> Row],
         \A s \in Ids : RowInv(s, l[s]) /\ RowStep(ledger[s], l[s]),
         NEW o \in [Ids -> SUBSET Ids], Ordered(o), NEW blocked \in BOOLEAN, NEW reset \in BOOLEAN,
         WriteBoth(Refreshed(c, l, o, blocked, reset)), clock' = clock, account'.blocked <=> blocked
  PROVE  /\ Written /\ LedgerStep /\ SameBut(l, ledger')
         /\ LegacyInv' /\ AccessInv' /\ BlockedIsOff'
<1>1. /\ Written /\ SameBut(l, ledger') /\ client'.row = "managed" /\ AccessInv'
      /\ blocked => ~client'.enable
  BY RefreshStep
<1>2. LedgerStep
  BY <1>1, SameRows DEF LedgerStep
<1>3. LegacyInv' /\ BlockedIsOff'
  BY <1>1 DEF LegacyInv, BlockedIsOff
<1>. QED
  BY <1>1, <1>2, <1>3

(* The revocation of a tariff, carried out. *)
LEMMA RevokeTariffStep ==
  ASSUME TypeInv, LedgerInv, NEW r \in TariffRevokes, RevokeTariff(r), r \notin receipts
  PROVE  Kept
<1>. DEFINE saved == SaveUsage(client, ledger)
            l1 == [s \in Ids |->
                     IF TariffRevoked(r, s) THEN Revocation(saved[s], TariffRevision(r, s))
                     ELSE IF s \in DOMAIN r.sources /\ ledger[s].state = "absent" THEN Tombstone(r.tariff, r.sources[s])
                     ELSE saved[s]]
            concerned == \E s \in Ids : ledger[s].state \notin {"absent", "tombstone"} /\ ledger[s].tariff = r.tariff
            off == [client EXCEPT !.enable = FALSE, !.until = clock - 1]
<1>1. /\ r.tariff \in Tariffs /\ DOMAIN r.sources \subseteq Sources /\ Legacy \notin Sources
      /\ \A s \in DOMAIN r.sources : r.sources[s] \in Nat /\ TariffOf[s] = r.tariff
  BY OperationsAssumption, IdsAssumption
<1>2. /\ client \in ClientRow /\ ledger \in [Ids -> Row] /\ older \in [Ids -> SUBSET Ids] /\ Ordered(older)
      /\ account.blocked \in BOOLEAN /\ clock \in Nat /\ clock >= 2
  BY DEF TypeInv, TypeOK
<1>3. /\ IF client.row = "legacy" /\ client.tariff = r.tariff THEN Write(l1, off)
         ELSE IF concerned THEN WriteBoth(Refreshed(client, l1, older, account.blocked, FALSE))
         ELSE Write(l1, client)
      /\ receipts' = receipts \cup {r}
      /\ UNCHANGED <<clock, older, account, revoked, adminOff, edits>>
  BY DEF RevokeTariff
<1>4. saved \in [Ids -> Row] /\ SameBut(ledger, saved)
  BY <1>2, SavedType
<1>. HIDE DEF saved
<1>5. ASSUME NEW s \in Ids
      PROVE  /\ l1[s] \in Row /\ RowInv(s, l1[s]) /\ RowStep(ledger[s], l1[s])
             /\ s \in DOMAIN r.sources => \/ l1[s].rev > r.sources[s]
                                          \/ l1[s].rev = r.sources[s] /\ l1[s].state \in {"revoked", "tombstone"}
             /\ ledger[s].state = "tombstone" => l1[s].state = "tombstone"
             /\ ledger[s].state = "absent" => l1[s].state \in {"absent", "tombstone"}
             /\ ledger[s].state = "absent" /\ s \notin DOMAIN r.sources => l1[s].state = "absent"
             /\ \/ l1[s].state = ledger[s].state /\ l1[s].until = ledger[s].until
                \/ ledger[s].state = "absent" \/ ledger[s].tariff = r.tariff
  <2>1. /\ RowInv(s, ledger[s]) /\ ledger[s] \in Row /\ saved[s] \in Row
        /\ saved[s].state = ledger[s].state /\ saved[s].rev = ledger[s].rev
        /\ saved[s].tariff = ledger[s].tariff /\ saved[s].until = ledger[s].until
    BY <1>2, <1>4 DEF LedgerInv, SameBut
  <2>2. CASE TariffRevoked(r, s)
    <3>. DEFINE rev == TariffRevision(r, s)
    <3>1. /\ rev \in Nat /\ rev >= ledger[s].rev
          /\ s \in DOMAIN r.sources => rev = r.sources[s]
      BY <1>1, <2>1, <2>2 DEF TariffRevoked, TariffRevision, Row
    <3>2. ledger[s].state # "absent" /\ ledger[s].tariff = r.tariff
      BY <2>2 DEF TariffRevoked
    <3>3. l1[s] = Revocation(saved[s], rev)
      BY <2>2
    <3>. HIDE DEF rev, l1
    <3>4. /\ l1[s] \in Row /\ l1[s].rev = rev /\ l1[s].tariff = ledger[s].tariff
          /\ l1[s].state = IF ledger[s].state = "tombstone" THEN "tombstone" ELSE "revoked"
      BY <2>1, <3>1, <3>3 DEF Revocation, Row
    <3>5. RowInv(s, l1[s]) /\ RowStep(ledger[s], l1[s])
      BY <2>1, <3>1, <3>2, <3>4 DEF RowInv, RowStep, Row
    <3>. QED
      BY <3>1, <3>2, <3>4, <3>5
  <2>3. CASE ~TariffRevoked(r, s) /\ s \in DOMAIN r.sources /\ ledger[s].state = "absent"
    <3>1. l1[s] = Tombstone(r.tariff, r.sources[s])
      BY <2>3
    <3>. HIDE DEF l1
    <3>5. ASSUME NEW tariff \in Tariffs, NEW rev \in Nat
          PROVE  /\ Tombstone(tariff, rev) \in Row /\ Tombstone(tariff, rev).rev = rev
                 /\ Tombstone(tariff, rev).tariff = tariff /\ Tombstone(tariff, rev).state = "tombstone"
      BY DEF Tombstone, Absent, Row, Never
    <3>2. /\ l1[s] \in Row /\ l1[s].rev = r.sources[s] /\ l1[s].tariff = r.tariff /\ l1[s].state = "tombstone"
      BY <1>1, <2>3, <3>1, <3>5
    <3>3. ledger[s].rev = 0
      BY <2>1, <2>3 DEF RowInv
    <3>4. RowInv(s, l1[s]) /\ RowStep(ledger[s], l1[s])
      BY <1>1, <2>3, <3>2, <3>3 DEF RowInv, RowStep
    <3>. QED
      BY <2>3, <3>2, <3>4
  <2>4. CASE ~TariffRevoked(r, s) /\ ~(s \in DOMAIN r.sources /\ ledger[s].state = "absent")
    <3>1. l1[s] = saved[s]
      BY <2>4
    <3>. HIDE DEF l1
    <3>2. RowInv(s, l1[s]) /\ RowStep(ledger[s], l1[s])
      BY <2>1, <3>1 DEF RowInv, RowStep
    <3>3. s \in DOMAIN r.sources => ledger[s].rev > r.sources[s]
      BY <1>1, <2>1, <2>4 DEF TariffRevoked, TariffRevision, RowInv, Row
    <3>. QED
      BY <2>1, <2>4, <3>1, <3>2, <3>3
  <2>. QED
    BY <2>2, <2>3, <2>4
<1>6. l1 \in [Ids -> Row]
  BY <1>5
<1>. HIDE DEF l1
<1>7. ASSUME Written, LedgerStep, LegacyInv', AccessInv', BlockedIsOff', SameBut(l1, ledger') PROVE Kept
  <2>1. AccountIsLatest' /\ Ordered(older)'
    BY <1>2, <1>3 DEF LedgerInv, AccountIsLatest, Blocks, Ordered
  <2>2. account' \in [rev : Nat, blocked : BOOLEAN] /\ account'.rev >= account.rev
    BY <1>2, <1>3 DEF TypeInv, TypeOK
  <2>3. receipts' \in SUBSET Operations
    BY <1>3 DEF TypeInv, TypeOK, Operations
  <2>4. ASSUME NEW x \in (TariffRevokes \cap receipts') \ receipts, NEW s \in DOMAIN x.sources
        PROVE  Gone(s, x.sources[s])'
    <3>1. x = r
      BY <1>3, <2>4
    <3>2. s \in Ids /\ ledger'[s].state = l1[s].state /\ ledger'[s].rev = l1[s].rev
      BY <1>1, <1>7, <2>4, <3>1 DEF SameBut, Ids
    <3>. QED
      BY <1>5, <2>4, <3>1, <3>2 DEF Gone
  <2>. QED
    BY <1>2, <1>3, <1>7, <2>1, <2>2, <2>3, <2>4, KeptIf DEF TypeInv, TypeOK
<1>8. SameBut(l1, l1)
  BY DEF SameBut
<1>9. client.row # "managed" => /\ \A s \in Ids : l1[s].state \in {"absent", "tombstone"}
                                /\ l1[Legacy].state = "absent"
  <2>1. Legacy \in Ids
    BY DEF Ids
  <2>. QED
    BY <1>1, <1>5, <2>1 DEF LedgerInv, LegacyInv
<1>10. ASSUME Write(l1, client), ~concerned PROVE Kept
  <2>1. Written /\ ledger' = l1 /\ client' = client
    BY <1>2, <1>6, <1>10, WriteType DEF TypeInv
  <2>2. LedgerStep
    BY <1>5, <2>1 DEF LedgerStep
  <2>3. ASSUME NEW s \in Ids
        PROVE  \/ l1[s].state = ledger[s].state /\ l1[s].until = ledger[s].until
               \/ ledger[s].state \in {"absent", "tombstone"} /\ l1[s].state \in {"absent", "tombstone"}
    BY <1>5, <1>10
  <2>4. AccessInv'
    BY <1>3, <2>1, <2>3, QuietLedger DEF LedgerInv
  <2>5. LegacyInv' /\ BlockedIsOff'
    BY <1>3, <1>9, <2>1 DEF LedgerInv, LegacyInv, BlockedIsOff
  <2>. QED
    BY <1>7, <1>8, <2>1, <2>2, <2>4, <2>5
<1>11. ASSUME Write(l1, off), client.row = "legacy" PROVE Kept
  <2>1. off \in ClientRow /\ ~off.enable /\ off.row = client.row /\ off.active = client.active
    <3>1. clock - 1 \in Nat
      BY <1>2
    <3>2. (off.enable <=> FALSE) /\ off.row = client.row /\ off.active = client.active
      BY <1>2 DEF ClientRow
    <3>. QED
      BY <1>2, <3>1, <3>2 DEF ClientRow
  <2>. HIDE DEF off
  <2>2. Written /\ ledger' = l1 /\ client' = off
    BY <1>6, <1>11, <2>1, WriteType DEF TypeInv
  <2>3. LedgerStep
    BY <1>5, <2>2 DEF LedgerStep
  <2>4. LegacyInv' /\ BlockedIsOff' /\ AccessInv'
    BY <1>9, <1>11, <2>1, <2>2 DEF LedgerInv, LegacyInv, BlockedIsOff, AccessInv, Access
  <2>. QED
    BY <1>7, <1>8, <2>2, <2>3, <2>4
<1>12. ASSUME concerned, WriteBoth(Refreshed(client, l1, older, account.blocked, FALSE)) PROVE Kept
  <2>1. client.row = "managed"
    BY <1>12 DEF LedgerInv, LegacyInv
  <2>2. FALSE \in BOOLEAN /\ clock' = clock /\ (account'.blocked <=> account.blocked)
    BY <1>3
  <2>3. Written /\ LedgerStep /\ SameBut(l1, ledger') /\ LegacyInv' /\ AccessInv' /\ BlockedIsOff'
    BY <1>2, <1>5, <1>6, <1>12, <2>1, <2>2, RefreshKept
  <2>. QED
    BY <1>7, <2>3
<1>. QED
  BY <1>3, <1>10, <1>11, <1>12

(* A step of which the account, the clock and the revocations take no part. *)
LEMMA KeptQuietly ==
  ASSUME TypeInv, LedgerInv, Written, LedgerStep, LegacyInv', AccessInv', BlockedIsOff',
         UNCHANGED <<clock, account, revoked>>,
         older' \in [Ids -> SUBSET Ids], Ordered(older)',
         receipts' \in SUBSET Operations, \A r \in receipts' \ receipts : r \notin TariffRevokes,
         adminOff' \in BOOLEAN, edits' \in Nat
  PROVE  Kept
<1>1. AccountIsLatest'
  BY DEF LedgerInv, AccountIsLatest, Blocks
<1>2. account' \in [rev : Nat, blocked : BOOLEAN] /\ account'.rev >= account.rev /\ revoked' \in SUBSET Revokes
  BY DEF TypeInv, TypeOK
<1>. QED
  BY <1>1, <1>2, KeptIf

(* The reset of a source's cycle, carried out. *)
LEMMA ResetStep ==
  ASSUME TypeInv, LedgerInv, NEW r \in Resets, Reset(r), r \notin receipts
  PROVE  Kept
<1>. DEFINE src == r.source
            adopts == ledger[src].state = "absent" /\ client.row = "legacy" /\ client.tariff = r.tariff
            manual == client.manual \/ (~client.enable /\ client.why \notin {"quota", "expiry"})
            c0 == IF adopts THEN Adopted(client, src, manual) ELSE client
            l0 == IF adopts THEN [ledger EXCEPT ![src] = [AdoptedRow(client) EXCEPT !.rev = r.rev]] ELSE ledger
            l1 == [l0 EXCEPT ![src].used = 0]
            c1 == [c0 EXCEPT !.used = 0]
<1>1. /\ src \in Sources /\ src \in Ids /\ r.rev \in Nat /\ r.tariff = TariffOf[src]
  BY OperationsAssumption DEF Ids
<1>2. /\ client \in ClientRow /\ ledger \in [Ids -> Row] /\ older \in [Ids -> SUBSET Ids] /\ Ordered(older)
      /\ account.blocked \in BOOLEAN /\ TypeOK
  BY DEF TypeInv, TypeOK
<1>3. /\ l0[src].state \in {"live", "disabled"}
      /\ older' = IF adopts THEN Stamped(older, src) ELSE older
      /\ IF c0.active = src
         THEN WriteBoth(Refreshed(c1, l1, older', account.blocked, FALSE))
         ELSE Write(l1, c0)
      /\ receipts' = receipts \cup {r}
      /\ UNCHANGED <<clock, account, revoked, adminOff, edits>>
  BY DEF Reset
<1>4. c0 \in ClientRow /\ c0.row = "managed" /\ (adopts => c0.active = src)
  <2>1. CASE adopts
    <3>1. manual \in BOOLEAN
      BY DEF ClientRow
    <3>2. c0 = [client EXCEPT !.row = "managed", !.active = src, !.manual = manual]
      BY <2>1 DEF Adopted
    <3>. HIDE DEF manual, c0
    <3>. QED
      BY <1>1, <1>2, <3>1, <3>2 DEF ClientRow
  <2>2. CASE ~adopts
    <3>1. ledger[src].state \in {"live", "disabled"}
      BY <1>3, <2>2
    <3>2. client.row = "managed"
      BY <1>1, <3>1 DEF LedgerInv, LegacyInv
    <3>. QED
      BY <1>2, <2>2, <3>2
  <2>. QED
    BY <2>1, <2>2
<1>5. l0 \in [Ids -> Row] /\ \A s \in Ids : RowInv(s, l0[s]) /\ RowStep(ledger[s], l0[s])
  <2>1. \A s \in Ids : RowInv(s, ledger[s]) /\ RowStep(ledger[s], ledger[s])
    BY SameRow DEF LedgerInv, TypeInv, SameBut
  <2>2. CASE adopts
    <3>. DEFINE row == [AdoptedRow(client) EXCEPT !.rev = r.rev]
    <3>1. row \in Row /\ row.state = "live" /\ row.rev = r.rev /\ row.tariff = client.tariff
      BY <1>1, <1>2 DEF AdoptedRow, Absent, Row, ClientRow
    <3>2. l0 = [ledger EXCEPT ![src] = row]
      BY <2>2
    <3>. HIDE DEF row
    <3>3. ledger[src].rev = 0 /\ ledger[src].state = "absent" /\ client.tariff = TariffOf[src]
      BY <1>1, <2>1, <2>2 DEF RowInv
    <3>4. RowInv(src, row) /\ RowStep(ledger[src], row)
      BY <1>1, <3>1, <3>3 DEF RowInv, RowStep
    <3>. HIDE DEF l0
    <3>. QED
      BY <1>1, <1>2, <2>1, <3>1, <3>2, <3>4
  <2>. QED
    BY <1>2, <2>1, <2>2
<1>6. l1 \in [Ids -> Row] /\ SameBut(l0, l1)
  <2>. HIDE DEF l0
  <2>. QED
    BY <1>1, <1>5, UsageType
<1>7. older' \in [Ids -> SUBSET Ids] /\ Ordered(older')
  BY <1>1, <1>2, <1>3, StampedType
<1>8. ~adopts => c0 = client /\ l0 = ledger
  OBVIOUS
<1>. HIDE DEF adopts, c0, l0, l1
<1>9. \A s \in Ids : RowInv(s, l1[s]) /\ RowStep(ledger[s], l1[s])
  BY <1>5, <1>6, SameRows
<1>10. /\ receipts' \in SUBSET Operations /\ \A x \in receipts' \ receipts : x \notin TariffRevokes
  BY <1>2, <1>3, OperationsAssumption DEF TypeOK, Operations
<1>11. Ordered(older)'
  BY <1>7 DEF Ordered
<1>12. ASSUME Written, LedgerStep, LegacyInv', AccessInv', BlockedIsOff' PROVE Kept
  BY <1>2, <1>3, <1>7, <1>10, <1>11, <1>12, KeptQuietly DEF TypeOK
<1>13. CASE c0.active = src
  <2>1. c1 \in ClientRow /\ c1.row = "managed"
    BY <1>4 DEF ClientRow
  <2>2. WriteBoth(Refreshed(c1, l1, older', account.blocked, FALSE))
    BY <1>3, <1>13
  <2>3. FALSE \in BOOLEAN /\ clock' = clock /\ (account'.blocked <=> account.blocked)
    BY <1>3
  <2>. HIDE DEF c1
  <2>4. Written /\ LedgerStep /\ LegacyInv' /\ AccessInv' /\ BlockedIsOff'
    <3>. DEFINE o == older'
    <3>1. o \in [Ids -> SUBSET Ids] /\ Ordered(o) /\ WriteBoth(Refreshed(c1, l1, o, account.blocked, FALSE))
      BY <1>7, <2>2
    <3>. HIDE DEF o
    <3>. QED
      BY <1>2, <1>6, <1>9, <2>1, <2>3, <3>1, RefreshKept
  <2>. QED
    BY <1>12, <2>4
<1>14. CASE c0.active # src
  <2>1. c0 = client /\ l0 = ledger /\ Write(l1, client)
    BY <1>3, <1>4, <1>8, <1>14
  <2>2. Written /\ ledger' = l1 /\ client' = client
    BY <1>2, <1>6, <2>1, WriteType
  <2>3. LedgerStep
    BY <1>9, <2>2 DEF LedgerStep
  <2>4. \A s \in Ids : ledger'[s].state = ledger[s].state /\ ledger'[s].until = ledger[s].until
    BY <1>6, <2>1, <2>2 DEF SameBut
  <2>5. AccessInv'
    BY <1>3, <2>2, <2>4, QuietLedger DEF LedgerInv
  <2>6. LegacyInv' /\ BlockedIsOff'
    BY <1>3, <1>4, <2>1, <2>2 DEF LedgerInv, LegacyInv, BlockedIsOff
  <2>. QED
    BY <1>12, <2>2, <2>3, <2>5, <2>6
<1>. QED
  BY <1>13, <1>14

(* A block or an unblock. *)
LEMMA ApplyAccountStep ==
  ASSUME TypeInv, LedgerInv, NEW n \in Accounts, ApplyAccount(n)
  PROVE  Kept
<1>1. /\ n \in Nat /\ Blocks(n) \in BOOLEAN
  BY OperationsAssumption DEF Blocks
<1>2. /\ client \in ClientRow /\ ledger \in [Ids -> Row] /\ older \in [Ids -> SUBSET Ids] /\ Ordered(older)
      /\ account \in [rev : Nat, blocked : BOOLEAN] /\ TypeOK
  BY DEF TypeInv, TypeOK
<1>3. /\ AccountIsNew(n) /\ account' = [rev |-> n, blocked |-> Blocks(n)]
      /\ UNCHANGED <<clock, older, receipts, revoked, adminOff, edits>>
  BY DEF ApplyAccount
<1>4. /\ account' \in [rev : Nat, blocked : BOOLEAN] /\ account'.rev >= account.rev /\ AccountIsLatest'
      /\ (account'.blocked <=> Blocks(n))
  <2>1. account'.rev = n /\ (account'.blocked <=> Blocks(n)) /\ account'.blocked = Blocks(n)
    BY <1>1, <1>3
  <2>2. account' \in [rev : Nat, blocked : BOOLEAN]
    <3>. HIDE DEF Blocks
    <3>. QED
      BY <1>1, <1>3
  <2>3. account.rev \in Nat
    BY <1>2
  <2>4. n > account.rev \/ n = account.rev
    BY <1>3, Zenon DEF AccountIsNew
  <2>5. account'.rev >= account.rev
    BY <1>1, <2>1, <2>3, <2>4
  <2>6. AccountIsLatest'
    BY <2>1, Zenon DEF AccountIsLatest, Blocks
  <2>. QED
    BY <2>1, <2>2, <2>5, <2>6
<1>5. Ordered(older)'
  BY <1>2, <1>3 DEF Ordered
<1>6. ASSUME Written, LedgerStep, LegacyInv', AccessInv', BlockedIsOff' PROVE Kept
  BY <1>2, <1>3, <1>4, <1>5, <1>6, KeptIf DEF TypeOK
<1>7. CASE client.row = "none"
  <2>1. UNCHANGED <<ledger, client, dirty, running, failures>>
    BY <1>7 DEF ApplyAccount
  <2>2. Written
    BY <1>2, <2>1 DEF Written, TypeOK
  <2>3. LedgerStep
    BY <1>2, <2>1, UsageStep DEF LedgerInv, SameBut
  <2>4. LegacyInv' /\ AccessInv' /\ BlockedIsOff'
    BY <1>7, <2>1 DEF LedgerInv, LegacyInv, AccessInv, Access, BlockedIsOff
  <2>. QED
    BY <1>6, <2>2, <2>3, <2>4
<1>8. CASE client.row = "managed"
  <2>. DEFINE l == SaveUsage(client, ledger)
  <2>1. WriteBoth(Refreshed(client, l, older, Blocks(n), FALSE))
    BY <1>8 DEF ApplyAccount
  <2>2. l \in [Ids -> Row] /\ SameBut(ledger, l)
    BY <1>2, SavedType
  <2>. HIDE DEF l
  <2>3. \A s \in Ids : RowInv(s, l[s]) /\ RowStep(ledger[s], l[s])
    BY <1>2, <2>2, SameRow DEF LedgerInv
  <2>4. FALSE \in BOOLEAN /\ clock' = clock
    BY <1>3
  <2>5. Written /\ LedgerStep /\ LegacyInv' /\ AccessInv' /\ BlockedIsOff'
    BY <1>1, <1>2, <1>4, <1>8, <2>1, <2>2, <2>3, <2>4, RefreshKept
  <2>. QED
    BY <1>6, <2>5
<1>9. CASE client.row = "legacy"
  <2>1. PICK c \in ClientRow : /\ Write(ledger, c) /\ c.row = "legacy" /\ c.active = client.active
                               /\ Blocks(n) => ~c.enable
    <3>1. CASE Blocks(n)
      <4>. DEFINE manual == IF account.blocked THEN client.manual ELSE LegacyManual(client)
                  c == [client EXCEPT !.enable = FALSE, !.manual = manual]
      <4>1. manual \in BOOLEAN
        BY <1>2 DEF LegacyManual, ClientRow
      <4>2. Write(ledger, c)
        BY <1>9, <3>1 DEF ApplyAccount
      <4>. HIDE DEF manual
      <4>3. c \in ClientRow
        BY <1>2, <4>1 DEF ClientRow
      <4>4. c.row = "legacy" /\ c.active = client.active /\ (c.enable <=> FALSE)
        BY <1>2, <1>9 DEF ClientRow
      <4>. QED
        BY <4>2, <4>3, <4>4
    <3>2. CASE ~Blocks(n)
      <4>. DEFINE on == Ahead(client.until, clock) /\ HasQuota(client) /\ ~client.manual
                  c == [client EXCEPT !.enable = on]
      <4>1. on \in BOOLEAN
        OBVIOUS
      <4>2. Write(ledger, c)
        BY <1>9, <3>2 DEF ApplyAccount
      <4>. HIDE DEF on
      <4>3. c \in ClientRow
        BY <1>2, <4>1 DEF ClientRow
      <4>4. c.row = "legacy" /\ c.active = client.active
        BY <1>2, <1>9 DEF ClientRow
      <4>. QED
        BY <3>2, <4>2, <4>3, <4>4
    <3>. QED
      BY <3>1, <3>2
  <2>2. Written /\ ledger' = ledger /\ client' = c
    BY <1>2, <2>1, WriteType
  <2>3. LedgerStep
    BY <1>2, <2>2, UsageStep DEF LedgerInv, SameBut
  <2>4. LegacyInv' /\ AccessInv' /\ BlockedIsOff'
    BY <1>4, <1>9, <2>1, <2>2 DEF LedgerInv, LegacyInv, AccessInv, Access, BlockedIsOff
  <2>. QED
    BY <1>6, <2>2, <2>3, <2>4
<1>. QED
  BY <1>2, <1>7, <1>8, <1>9 DEF ClientRow

-----------------------------------------------------------------------------
(* The node *)

(* An edit of a managed client makes the admin's source its owner. *)
LEMMA EditStep ==
  ASSUME TypeInv, LedgerInv, NEW on \in BOOLEAN, NEW until \in Nat, NEW limit \in Nat, Edit(on, until, limit)
  PROVE  Kept
<1>. DEFINE switched == on # client.enable
            manual == IF switched THEN ~on ELSE client.manual
            why == IF ~switched THEN client.why ELSE IF on THEN "" ELSE "manual"
            c == [client EXCEPT !.enable = on, !.until = until, !.limit = limit, !.manual = manual, !.why = why]
            l == SaveUsage(c, ledger)
            row == Captured(c, l)
            l1 == [l EXCEPT ![Manual] = row]
            c1 == [c EXCEPT !.manual = ~on, !.active = Manual]
<1>1. /\ client \in ClientRow /\ ledger \in [Ids -> Row] /\ older \in [Ids -> SUBSET Ids] /\ Ordered(older)
      /\ TypeOK /\ edits \in Nat /\ Manual \in Ids /\ Manual \notin Sources
  BY IdsAssumption DEF TypeInv, TypeOK, Ids
<1>2. /\ client.row # "none"
      /\ IF client.row = "legacy" THEN Write(ledger, c) /\ UNCHANGED older
         ELSE Write(l1, c1) /\ older' = Stamped(older, Manual)
      /\ adminOff' = IF switched THEN ~on ELSE adminOff
      /\ edits' = edits + 1
      /\ UNCHANGED <<clock, account, receipts, revoked>>
  BY DEF Edit
<1>3. c \in ClientRow /\ c.row = client.row /\ c.active = client.active /\ c.until = until /\ (c.enable <=> on)
  <2>1. manual \in BOOLEAN /\ why \in {"", "manual", "expiry", "quota"}
    BY <1>1 DEF ClientRow
  <2>. HIDE DEF manual, why
  <2>2. c \in ClientRow
    BY <1>1, <2>1 DEF ClientRow
  <2>3. c.row = client.row /\ c.active = client.active /\ c.until = until /\ (c.enable <=> on)
    BY <1>1 DEF ClientRow
  <2>. QED
    BY <2>2, <2>3
<1>. HIDE DEF c
<1>4. l \in [Ids -> Row] /\ SameBut(ledger, l)
  BY <1>1, <1>3, SavedType
<1>. HIDE DEF l
<1>5. /\ row \in Row /\ row.state = (IF on THEN "live" ELSE "disabled") /\ row.rev = l[Manual].rev + 1
      /\ row.until = until
  <2>1. row = [state |-> IF c.enable THEN "live" ELSE "disabled", rev |-> l[Manual].rev + 1,
               tariff |-> IF l[Manual].state = "absent" THEN c.tariff ELSE l[Manual].tariff,
               until |-> c.until, limit |-> c.limit, used |-> c.used]
    BY DEF Captured
  <2>2. l[Manual] \in Row
    BY <1>1, <1>4
  <2>. HIDE DEF row
  <2>3. l[Manual].rev + 1 \in Nat /\ l[Manual].tariff \in Tariffs
    BY <2>2 DEF Row
  <2>4. c.tariff \in Tariffs /\ c.until \in Nat /\ c.limit \in Nat /\ c.used \in Nat
    BY <1>3 DEF ClientRow
  <2>. QED
    BY <1>3, <2>1, <2>3, <2>4 DEF Row
<1>. HIDE DEF row
<1>6. adminOff' \in BOOLEAN /\ edits' \in Nat /\ edits' > 0
  <2>1. adminOff' \in BOOLEAN
    <3>1. CASE switched
      BY <1>2, <3>1
    <3>2. CASE ~switched
      BY <1>1, <1>2, <3>2 DEF TypeOK
    <3>. QED
      BY <3>1, <3>2
  <2>2. edits' \in Nat /\ edits' > 0
    BY <1>1, <1>2
  <2>. QED
    BY <2>1, <2>2
<1>7. older' \in [Ids -> SUBSET Ids] /\ Ordered(older')
  BY <1>1, <1>2, StampedType
<1>8. Ordered(older)'
  BY <1>7 DEF Ordered
<1>9. ASSUME Written, LedgerStep, LegacyInv', AccessInv', BlockedIsOff' PROVE Kept
  BY <1>1, <1>2, <1>6, <1>7, <1>8, <1>9, KeptQuietly DEF TypeOK
<1>10. CASE client.row = "legacy"
  <2>1. Write(ledger, c)
    BY <1>2, <1>10
  <2>2. Written /\ ledger' = ledger /\ client' = c
    BY <1>1, <1>3, <2>1, WriteType
  <2>3. LedgerStep
    BY <1>1, <2>2, UsageStep DEF LedgerInv, SameBut
  <2>4. LegacyInv' /\ AccessInv' /\ BlockedIsOff'
    BY <1>3, <1>6, <1>10, <2>2 DEF LedgerInv, LegacyInv, AccessInv, Access, BlockedIsOff
  <2>. QED
    BY <1>9, <2>2, <2>3, <2>4
<1>11. CASE client.row = "managed"
  <2>1. Write(l1, c1)
    BY <1>2, <1>11
  <2>2. /\ c1 \in ClientRow /\ c1.row = "managed" /\ c1.active = Manual /\ c1.until = until
        /\ (c1.enable <=> on) /\ (c1.manual <=> ~on)
    BY <1>1, <1>3, <1>11 DEF ClientRow
  <2>. HIDE DEF c1
  <2>3. l1 \in [Ids -> Row] /\ l1[Manual] = row /\ \A s \in Ids \ {Manual} : l1[s] = l[s]
    BY <1>1, <1>4, <1>5
  <2>. HIDE DEF l1
  <2>4. Written /\ ledger' = l1 /\ client' = c1
    BY <1>1, <2>1, <2>2, <2>3, WriteType
  <2>5. ASSUME NEW s \in Ids PROVE RowInv(s, l1[s]) /\ RowStep(ledger[s], l1[s])
    <3>1. CASE s = Manual
      <4>1. l[Manual].rev = ledger[Manual].rev /\ ledger[Manual].rev \in Nat
        BY <1>1, <1>4 DEF SameBut, Row
      <4>. QED
        BY <1>1, <1>5, <2>3, <3>1, <4>1 DEF RowInv, RowStep
    <3>2. CASE s # Manual
      BY <1>1, <1>4, <2>3, <3>2, SameRow DEF LedgerInv
    <3>. QED
      BY <3>1, <3>2
  <2>6. LedgerStep
    BY <2>4, <2>5 DEF LedgerStep
  <2>7. on => Manual \in Counted(ledger)'
    BY <1>1, <1>5, <2>3, <2>4 DEF Counted
  <2>8. AccessInv'
    BY <1>1, <1>5, <2>2, <2>3, <2>4, <2>7 DEF AccessInv, Access
  <2>9. LegacyInv' /\ BlockedIsOff'
    BY <2>2, <2>4 DEF LegacyInv, BlockedIsOff
  <2>. QED
    BY <1>9, <2>4, <2>6, <2>8, <2>9
<1>. QED
  BY <1>1, <1>2, <1>10, <1>11 DEF ClientRow

(* The rows a refresh makes agree with each other. *)
LEMMA RefreshedAccess ==
  ASSUME TypeInv, NEW c \in ClientRow, c.row = "managed", NEW l \in [Ids -> Row]
  PROVE  LET r == Refreshed(c, l, older, account.blocked, FALSE)
         IN /\ r.ledger \in [Ids -> Row] /\ SameBut(l, r.ledger)
            /\ r.client \in ClientRow /\ r.client.row = "managed"
            /\ Access(r.client, r.ledger)
            /\ r.client.active \in Ids => Ahead(r.ledger[r.client.active].until, clock)
            /\ account.blocked => ~r.client.enable
<1>. DEFINE r == Refreshed(c, l, older, account.blocked, FALSE)
            d == r.client
<1>0. /\ clock \in Nat /\ clock >= 2 /\ older \in [Ids -> SUBSET Ids] /\ Ordered(older)
      /\ account.blocked \in BOOLEAN /\ FALSE \in BOOLEAN
  BY DEF TypeInv, TypeOK
<1>1. /\ r.ledger \in [Ids -> Row] /\ SameBut(l, r.ledger)
      /\ d \in ClientRow /\ d.row = c.row /\ (d.manual <=> c.manual)
      /\ d.enable => Live(l) # {} /\ ~c.manual /\ ~account.blocked
      /\ ~d.enable => \/ Live(l) = {} \/ c.manual \/ account.blocked
                      \/ d.why = "quota" /\ ~HasQuota(d)
      /\ \/ d.active \in Live(l) /\ (d.until = Never \/ d.until >= clock)
            /\ (d.until = Never \/ (l[d.active].until # Never /\ d.until >= l[d.active].until))
         \/ d.active = NoSource /\ Live(l) = {} /\ d.until = clock - 1
  BY <1>0, RefreshedType
<1>. DEFINE m == r.ledger
<1>2. Live(m) = Live(l) /\ Counted(m) = Counted(l)
  BY <1>1, SameLive
<1>. HIDE DEF r, d, m
<1>3. Live(l) \subseteq Counted(l) /\ Counted(l) \subseteq Ids /\ NoSource \notin Ids
  BY IdsAssumption DEF Live, Counted, Ids
<1>4. SameBut(l, m) /\ m \in [Ids -> Row]
  BY <1>1 DEF m
<1>5. CASE d.active \in Live(l)
  <2>1. /\ d.active \in Ids /\ m[d.active].state = "live" /\ m[d.active].until = l[d.active].until
        /\ Ahead(l[d.active].until, clock)
    BY <1>3, <1>4, <1>5 DEF SameBut, Live, Counted
  <2>2. d.until = Never \/ (m[d.active].until # Never /\ d.until >= m[d.active].until)
    BY <1>1, <1>3, <1>5, <2>1
  <2>3. Access(d, m)
    BY <1>1, <1>2, <1>3, <2>1, <2>2 DEF Access
  <2>. QED
    BY <1>1, <2>1, <2>3 DEF r, d, m
<1>6. CASE d.active = NoSource /\ Live(l) = {} /\ d.until = clock - 1
  <2>1. d.until # Never /\ d.until < clock /\ ~d.enable
    BY <1>0, <1>1, <1>6 DEF Never
  <2>2. Access(d, m)
    BY <1>1, <1>2, <1>6, <2>1 DEF Access
  <2>. QED
    BY <1>1, <1>3, <1>6, <2>2 DEF r, d, m
<1>. QED
  BY <1>1, <1>5, <1>6

(* A fresh cycle: the client may come back, if only its quota kept it off. *)
LEMMA FreshType ==
  ASSUME TypeOK, NEW c \in ClientRow, NEW wanted \in BOOLEAN
  PROVE  LET d == FreshCycle(c, wanted)
         IN /\ d \in ClientRow /\ d.row = c.row /\ (d.manual <=> c.manual)
            /\ d.until = c.until /\ d.active = c.active
            /\ c.enable => d.enable
            /\ d.enable /\ ~c.enable => ~c.manual /\ ~account.blocked /\ Ahead(c.until, clock)
            /\ ~d.enable => d.why = c.why /\ (wanted => c.manual \/ account.blocked \/ ~Ahead(c.until, clock))
<1>. DEFINE back == wanted /\ ~c.enable /\ ~c.manual /\ ~account.blocked /\ Ahead(c.until, clock)
            on == [c EXCEPT !.used = 0, !.enable = TRUE, !.why = ""]
            same == [c EXCEPT !.used = 0]
<1>1. /\ on \in ClientRow /\ on.row = c.row /\ (on.manual <=> c.manual)
      /\ on.until = c.until /\ on.active = c.active /\ (on.enable <=> TRUE)
  BY DEF ClientRow
<1>2. /\ same \in ClientRow /\ same.row = c.row /\ (same.manual <=> c.manual)
      /\ same.until = c.until /\ same.active = c.active /\ (same.enable <=> c.enable) /\ same.why = c.why
  BY DEF ClientRow
<1>3. FreshCycle(c, wanted) = IF back THEN on ELSE same
  BY DEF FreshCycle
<1>. HIDE DEF on, same
<1>4. CASE back
  <2>1. FreshCycle(c, wanted) = on
    BY <1>3, <1>4
  <2>. QED
    BY <1>1, <1>4, <2>1
<1>5. CASE ~back
  <2>1. FreshCycle(c, wanted) = same
    BY <1>3, <1>5
  <2>. QED
    BY <1>2, <1>5, <2>1
<1>. QED
  BY <1>4, <1>5

(* After it the client is on for a source that counts. *)
LEMMA FreshAccess ==
  ASSUME TypeInv, NEW c \in ClientRow, c.row = "managed", NEW l \in [Ids -> Row], Access(c, l),
         NEW wanted \in BOOLEAN
  PROVE  LET d == FreshCycle(c, wanted)
         IN /\ d.enable => Counted(l) # {} /\ ~d.manual
            /\ ~d.enable => \/ Live(l) = {} \/ d.manual \/ account.blocked
                            \/ d.why = "quota" /\ c.why = "quota"
            /\ \/ /\ d.active \in Ids
                  /\ l[d.active].state = "live" \/ (l[d.active].state = "disabled" /\ d.manual)
                  /\ d.until = Never \/ (l[d.active].until # Never /\ d.until >= l[d.active].until)
               \/ /\ d.active = NoSource /\ Live(l) = {} /\ ~d.enable
                  /\ d.until # Never /\ d.until < clock
<1>. DEFINE d == FreshCycle(c, wanted)
<1>1. /\ d \in ClientRow /\ d.row = c.row /\ (d.manual <=> c.manual)
      /\ d.until = c.until /\ d.active = c.active
      /\ c.enable => d.enable
      /\ d.enable /\ ~c.enable => ~c.manual /\ ~account.blocked /\ Ahead(c.until, clock)
      /\ ~d.enable => d.why = c.why
  BY FreshType DEF TypeInv
<1>2. clock \in Nat /\ c.until \in Nat
  BY DEF TypeInv, TypeOK, ClientRow
<1>. HIDE DEF d
<1>3. /\ c.enable => Counted(l) # {} /\ ~c.manual
      /\ ~c.enable => \/ Live(l) = {} \/ c.manual \/ account.blocked
                      \/ c.why = "quota" /\ (~HasQuota(c) \/ edits > 0)
      /\ \/ /\ c.active \in Ids
            /\ l[c.active].state = "live" \/ (l[c.active].state = "disabled" /\ c.manual)
            /\ c.until = Never \/ (l[c.active].until # Never /\ c.until >= l[c.active].until)
         \/ /\ c.active = NoSource /\ Live(l) = {} /\ ~c.enable
            /\ c.until # Never /\ c.until < clock
  BY DEF Access
<1>4. ASSUME d.enable, ~c.enable PROVE Counted(l) # {} /\ c.active \in Ids
  <2>1. ~c.manual /\ Ahead(c.until, clock)
    BY <1>1, <1>4
  <2>2. ~(c.until # Never /\ c.until < clock)
    BY <1>2, <2>1 DEF Ahead
  <2>3. c.active \in Ids /\ l[c.active].state = "live"
    BY <1>3, <2>1, <2>2
  <2>. QED
    BY <2>3 DEF Counted
<1>5. d.enable => Counted(l) # {} /\ ~d.manual
  BY <1>1, <1>3, <1>4
<1>6. ~d.enable => \/ Live(l) = {} \/ d.manual \/ account.blocked
                   \/ d.why = "quota" /\ c.why = "quota"
  BY <1>1, <1>3
<1>7. NoSource \notin Ids
  BY IdsAssumption DEF Ids
<1>8. \/ /\ d.active \in Ids
         /\ l[d.active].state = "live" \/ (l[d.active].state = "disabled" /\ d.manual)
         /\ d.until = Never \/ (l[d.active].until # Never /\ d.until >= l[d.active].until)
      \/ /\ d.active = NoSource /\ Live(l) = {} /\ ~d.enable
         /\ d.until # Never /\ d.until < clock
  BY <1>1, <1>3, <1>4, <1>7
<1>. QED
  BY <1>5, <1>6, <1>8 DEF d

(* A client that is off when the limits are checked stays off for a reason. *)
LEMMA OffAccess ==
  ASSUME TypeInv, NEW c \in ClientRow, c.row = "managed", NEW l \in [Ids -> Row], Access(c, l),
         c.active \in Ids => Ahead(l[c.active].until, clock)
  PROVE  /\ Ahead(c.until, clock) \/ Live(l) = {}
         /\ c.enable => Ahead(c.until, clock)
<1>1. clock \in Nat /\ c.until \in Nat /\ NoSource \notin Ids
  BY IdsAssumption DEF TypeInv, TypeOK, ClientRow, Ids
<1>2. CASE c.active \in Ids
  <2>1. l[c.active].until \in Nat
    BY <1>2 DEF Row
  <2>2. c.until = Never \/ (l[c.active].until # Never /\ c.until >= l[c.active].until)
    BY <1>1, <1>2 DEF Access
  <2>. QED
    BY <1>1, <1>2, <2>1, <2>2 DEF Ahead
<1>3. CASE c.active \notin Ids
  BY <1>3 DEF Access
<1>. QED
  BY <1>2, <1>3

(* The limits job. *)
LEMMA CheckLimitsStep ==
  ASSUME TypeInv, LedgerInv, CheckLimits
  PROVE  Kept
<1>. DEFINE due == /\ client.row = "managed" /\ client.active \in Ids
                   /\ ~Ahead(ledger[client.active].until, clock)
            r == IF due THEN Refreshed(client, SaveUsage(client, ledger), older, account.blocked, FALSE)
                 ELSE [client |-> client, ledger |-> ledger]
            a == r.client
            l == r.ledger
<1>1. /\ client \in ClientRow /\ ledger \in [Ids -> Row] /\ older \in [Ids -> SUBSET Ids] /\ Ordered(older)
      /\ TypeOK /\ clock \in Nat /\ edits \in Nat
  BY DEF TypeInv, TypeOK
<1>2. /\ l \in [Ids -> Row] /\ SameBut(ledger, l) /\ a \in ClientRow /\ a.row = client.row
      /\ client.row = "managed" => Access(a, l) /\ (a.active \in Ids => Ahead(l[a.active].until, clock))
      /\ client.row # "managed" => l = ledger /\ a = client
      /\ a = client \/ (client.row = "managed" /\ (account.blocked => ~a.enable))
  <2>1. CASE due
    <3>. DEFINE saved == SaveUsage(client, ledger)
    <3>1. saved \in [Ids -> Row] /\ SameBut(ledger, saved)
      BY <1>1, SavedType
    <3>2. r = Refreshed(client, saved, older, account.blocked, FALSE)
      BY <2>1
    <3>. HIDE DEF saved, r
    <3>3. /\ l \in [Ids -> Row] /\ SameBut(saved, l) /\ a \in ClientRow /\ a.row = "managed"
          /\ Access(a, l) /\ (a.active \in Ids => Ahead(l[a.active].until, clock))
          /\ account.blocked => ~a.enable
      BY <1>1, <2>1, <3>1, <3>2, RefreshedAccess
    <3>4. SameBut(ledger, l)
      BY <3>1, <3>3 DEF SameBut
    <3>. QED
      BY <2>1, <3>3, <3>4
  <2>2. CASE ~due
    <3>1. a = client /\ l = ledger
      BY <2>2
    <3>2. client.row = "managed" => Access(client, ledger)
                                    /\ (client.active \in Ids => Ahead(ledger[client.active].until, clock))
      BY <2>2 DEF LedgerInv, AccessInv
    <3>. HIDE DEF r
    <3>. QED
      BY <1>1, <3>1, <3>2 DEF SameBut
  <2>. QED
    BY <2>1, <2>2
<1>3. PICK resetDay \in BOOLEAN : CheckLimitsOn(resetDay)
  BY OperationsAssumption DEF CheckLimits
<1>. DEFINE c0 == IF resetDay THEN FreshCycle(a, a.why = "quota") ELSE a
            expired == c0.until # Never /\ c0.until < clock
            off == [c0 EXCEPT !.enable = FALSE, !.why = IF expired THEN "expiry" ELSE "quota"]
            c == IF c0.enable /\ (expired \/ ~HasQuota(c0)) THEN off ELSE c0
<1>4. /\ client.row # "none"
      /\ IF c.enable # client.enable THEN Write(l, c)
         ELSE ledger' = l /\ client' = c /\ Synchronize
      /\ UNCHANGED <<clock, older, account, receipts, revoked, adminOff, edits>>
  BY <1>3 DEF CheckLimitsOn
<1>. HIDE DEF due, r, a, l
<1>5. /\ c0 \in ClientRow /\ c0.row = a.row /\ c0.until = a.until /\ c0.active = a.active
      /\ account.blocked /\ c0.enable => a.enable
      /\ client.row = "managed" => Access(c0, l)
  <2>1. CASE resetDay
    <3>. DEFINE d == FreshCycle(a, a.why = "quota")
                wanted == a.why = "quota"
    <3>1. c0 = d /\ wanted \in BOOLEAN
      BY <2>1
    <3>2. /\ d \in ClientRow /\ d.row = a.row /\ d.until = a.until /\ d.active = a.active
          /\ d.enable /\ ~a.enable => ~a.manual /\ ~account.blocked /\ Ahead(a.until, clock)
          /\ ~d.enable => (wanted => a.manual \/ account.blocked \/ ~Ahead(a.until, clock))
          /\ (d.manual <=> a.manual)
      BY <1>1, <1>2, <3>1, FreshType
    <3>3. ASSUME client.row = "managed" PROVE Access(d, l)
      <4>1. a.row = "managed" /\ Access(a, l) /\ (a.active \in Ids => Ahead(l[a.active].until, clock))
        BY <1>2, <3>3
      <4>2. Ahead(a.until, clock) \/ Live(l) = {}
        BY <1>2, <4>1, OffAccess
      <4>3. /\ d.enable => Counted(l) # {} /\ ~d.manual
            /\ ~d.enable => \/ Live(l) = {} \/ d.manual \/ account.blocked
                            \/ d.why = "quota" /\ wanted
            /\ \/ /\ d.active \in Ids
                  /\ l[d.active].state = "live" \/ (l[d.active].state = "disabled" /\ d.manual)
                  /\ d.until = Never \/ (l[d.active].until # Never /\ d.until >= l[d.active].until)
               \/ /\ d.active = NoSource /\ Live(l) = {} /\ ~d.enable
                  /\ d.until # Never /\ d.until < clock
        BY <1>2, <3>1, <4>1, FreshAccess
      <4>. HIDE DEF d, wanted
      <4>4. ~d.enable => Live(l) = {} \/ d.manual \/ account.blocked
        BY <3>2, <4>2, <4>3
      <4>. QED
        BY <4>3, <4>4 DEF Access
    <3>. HIDE DEF c0, d
    <3>. QED
      BY <3>1, <3>2, <3>3
  <2>2. CASE ~resetDay
    BY <1>2, <2>2
  <2>. QED
    BY <2>1, <2>2
<1>6. /\ c \in ClientRow /\ c.row = a.row /\ c.active = a.active
      /\ account.blocked /\ c.enable => a.enable
      /\ client.row = "managed" => Access(c, l)
  <2>. HIDE DEF c0
  <2>1. CASE c0.enable /\ (expired \/ ~HasQuota(c0))
    <3>. DEFINE why == IF expired THEN "expiry" ELSE "quota"
    <3>1. off = [c0 EXCEPT !.enable = FALSE, !.why = why] /\ why \in {"expiry", "quota"}
      OBVIOUS
    <3>2. ~expired => why = "quota"
      OBVIOUS
    <3>3. c = off
      BY <2>1
    <3>. HIDE DEF why, off, c
    <3>4. /\ c \in ClientRow /\ c.row = c0.row /\ c.until = c0.until /\ c.active = c0.active
          /\ c.limit = c0.limit /\ c.used = c0.used /\ (c.manual <=> c0.manual)
          /\ (c.enable <=> FALSE) /\ c.why = why
      BY <1>5, <3>1, <3>3 DEF ClientRow
    <3>5. ASSUME client.row = "managed" PROVE Access(c, l)
      <4>1. /\ Access(c0, l) /\ c0.row = "managed" /\ (c0.active \in Ids => Ahead(l[c0.active].until, clock))
        BY <1>2, <1>5, <3>5
      <4>2. Ahead(c0.until, clock)
        BY <1>2, <1>5, <2>1, <4>1, OffAccess
      <4>3. clock \in Nat /\ c0.until \in Nat
        BY <1>1, <1>5 DEF ClientRow
      <4>4. ~expired
        BY <4>2, <4>3 DEF Ahead
      <4>. HIDE DEF expired
      <4>5. ~HasQuota(c0) /\ c.why = "quota"
        BY <2>1, <3>2, <3>4, <4>4
      <4>6. ~HasQuota(c)
        BY <3>4, <4>5 DEF HasQuota
      <4>. QED
        BY <2>1, <3>4, <4>1, <4>5, <4>6 DEF Access
    <3>. HIDE DEF expired
    <3>. QED
      BY <1>5, <3>4, <3>5
  <2>2. CASE ~(c0.enable /\ (expired \/ ~HasQuota(c0)))
    <3>1. c = c0
      BY <2>2
    <3>. HIDE DEF c
    <3>. QED
      BY <1>5, <3>1
  <2>. QED
    BY <2>1, <2>2
<1>. HIDE DEF c
<1>7. Written /\ ledger' = l /\ client' = c
  <2>1. CASE Write(l, c)
    BY <1>1, <1>2, <1>6, <2>1, WriteType
  <2>2. CASE ledger' = l /\ client' = c /\ Synchronize
    BY <1>1, <1>2, <1>6, <2>2, SyncType DEF Written
  <2>. QED
    BY <1>4, <2>1, <2>2
<1>8. LedgerStep
  BY <1>1, <1>2, <1>7, UsageStep DEF LedgerInv
<1>9. AccessInv'
  <2>1. CASE client.row = "managed"
    <3>1. Live(ledger)' = Live(l) /\ Counted(ledger)' = Counted(l) /\ (HasQuota(client)' <=> HasQuota(c))
      BY <1>4, <1>7 DEF Live, Counted, Ahead, HasQuota
    <3>2. Access(c, l)
      BY <1>6, <2>1
    <3>. QED
      BY <1>4, <1>7, <3>1, <3>2 DEF AccessInv, Access
  <2>2. CASE client.row # "managed"
    BY <1>2, <1>6, <1>7, <2>2 DEF AccessInv, Access
  <2>. QED
    BY <2>1, <2>2
<1>10. LegacyInv'
  BY <1>2, <1>4, <1>6, <1>7 DEF LedgerInv, LegacyInv
<1>11. BlockedIsOff'
  <2>1. account.blocked /\ c.enable => a = client /\ client.enable
    BY <1>2, <1>6
  <2>. QED
    BY <1>2, <1>4, <1>6, <1>7, <2>1 DEF LedgerInv, BlockedIsOff
<1>12. Ordered(older)'
  BY <1>1, <1>4 DEF Ordered
<1>. QED
  BY <1>1, <1>4, <1>7, <1>8, <1>9, <1>10, <1>11, <1>12, KeptQuietly DEF TypeOK

(* A reset by an admin. *)
LEMMA ResetTrafficStep ==
  ASSUME TypeInv, LedgerInv, NEW reenable \in BOOLEAN, ResetTraffic(reenable)
  PROVE  Kept
<1>. DEFINE c == FreshCycle(client, reenable)
<1>1. /\ client \in ClientRow /\ ledger \in [Ids -> Row] /\ older \in [Ids -> SUBSET Ids] /\ Ordered(older)
      /\ TypeOK /\ edits \in Nat
  BY DEF TypeInv, TypeOK
<1>2. /\ client.row # "none"
      /\ IF c.enable # client.enable THEN Write(ledger, c)
         ELSE client' = c /\ Synchronize /\ UNCHANGED ledger
      /\ edits' = edits + 1
      /\ UNCHANGED <<clock, older, account, receipts, revoked, adminOff>>
  BY DEF ResetTraffic
<1>3. /\ c \in ClientRow /\ c.row = client.row /\ c.active = client.active
      /\ c.enable /\ ~client.enable => ~account.blocked
  BY <1>1, FreshType
<1>4. client.row = "managed" =>
        /\ c.enable => Counted(ledger) # {} /\ ~c.manual
        /\ ~c.enable => \/ Live(ledger) = {} \/ c.manual \/ account.blocked
                        \/ c.why = "quota" /\ client.why = "quota"
        /\ \/ /\ c.active \in Ids
              /\ ledger[c.active].state = "live" \/ (ledger[c.active].state = "disabled" /\ c.manual)
              /\ c.until = Never \/ (ledger[c.active].until # Never /\ c.until >= ledger[c.active].until)
           \/ /\ c.active = NoSource /\ Live(ledger) = {} /\ ~c.enable
              /\ c.until # Never /\ c.until < clock
  BY <1>1, FreshAccess DEF LedgerInv, AccessInv
<1>. HIDE DEF c
<1>5. Written /\ ledger' = ledger /\ client' = c
  <2>1. CASE Write(ledger, c)
    BY <1>1, <1>3, <2>1, WriteType
  <2>2. CASE client' = c /\ Synchronize /\ UNCHANGED ledger
    BY <1>1, <1>3, <2>2, SyncType DEF Written
  <2>. QED
    BY <1>2, <2>1, <2>2
<1>6. edits' \in Nat /\ edits' > 0
  BY <1>1, <1>2
<1>7. LedgerStep
  BY <1>1, <1>5, UsageStep DEF LedgerInv, SameBut
<1>8. AccessInv'
  <2>1. Live(ledger)' = Live(ledger) /\ Counted(ledger)' = Counted(ledger)
    BY <1>2, <1>5 DEF Live, Counted, Ahead
  <2>. QED
    BY <1>2, <1>3, <1>4, <1>5, <1>6, <2>1 DEF AccessInv, Access
<1>9. LegacyInv' /\ BlockedIsOff'
  BY <1>2, <1>3, <1>5, <1>6 DEF LedgerInv, LegacyInv, BlockedIsOff
<1>10. Ordered(older)'
  BY <1>1, <1>2 DEF Ordered
<1>. QED
  BY <1>1, <1>2, <1>5, <1>6, <1>7, <1>8, <1>9, <1>10, KeptQuietly DEF TypeOK

(* Traffic. *)
LEMMA UseStep ==
  ASSUME TypeInv, LedgerInv, Use
  PROVE  Kept
<1>. DEFINE c == [client EXCEPT !.used = client.used + 1]
<1>1. /\ client \in ClientRow /\ ledger \in [Ids -> Row] /\ older \in [Ids -> SUBSET Ids] /\ Ordered(older)
      /\ TypeOK
  BY DEF TypeInv, TypeOK
<1>2. /\ client' = c
      /\ UNCHANGED <<clock, ledger, older, account, receipts, revoked, dirty, running, adminOff, edits, failures>>
  BY DEF Use
<1>3. client.used \in Nat /\ client.limit \in Nat
  BY <1>1 DEF ClientRow
<1>4. /\ c \in ClientRow /\ c.row = client.row /\ c.active = client.active /\ c.why = client.why
      /\ (c.enable <=> client.enable) /\ (c.manual <=> client.manual) /\ c.until = client.until
      /\ c.used = client.used + 1 /\ c.limit = client.limit
  <2>. DEFINE n == client.used + 1
  <2>1. n \in Nat /\ c = [client EXCEPT !.used = n]
    BY <1>3
  <2>. HIDE DEF n, c
  <2>2. /\ c \in ClientRow /\ c.row = client.row /\ c.active = client.active /\ c.why = client.why
        /\ (c.enable <=> client.enable) /\ (c.manual <=> client.manual) /\ c.until = client.until
        /\ c.used = n /\ c.limit = client.limit
    BY <1>1, <2>1 DEF ClientRow
  <2>. QED
    BY <2>2 DEF n
<1>. HIDE DEF c
<1>5. ~HasQuota(client) => ~HasQuota(c)
  BY <1>3, <1>4 DEF HasQuota
<1>6. Written
  BY <1>1, <1>2, <1>4 DEF Written, TypeOK
<1>7. LedgerStep
  BY <1>1, <1>2, UsageStep DEF LedgerInv, SameBut
<1>8. AccessInv'
  <2>1. Live(ledger)' = Live(ledger) /\ Counted(ledger)' = Counted(ledger) /\ (HasQuota(client)' <=> HasQuota(c))
    BY <1>2 DEF Live, Counted, Ahead, HasQuota
  <2>. QED
    BY <1>2, <1>4, <1>5, <2>1 DEF LedgerInv, AccessInv, Access
<1>9. LegacyInv' /\ BlockedIsOff'
  BY <1>2, <1>4 DEF LedgerInv, LegacyInv, BlockedIsOff
<1>10. Ordered(older)'
  BY <1>1, <1>2 DEF Ordered
<1>. QED
  BY <1>1, <1>2, <1>6, <1>7, <1>8, <1>9, <1>10, KeptQuietly DEF TypeOK

(* Time. *)
LEMMA TickStep ==
  ASSUME TypeInv, LedgerInv, Tick
  PROVE  Kept
<1>1. /\ client \in ClientRow /\ ledger \in [Ids -> Row] /\ TypeOK /\ clock \in Nat /\ clock >= 2
  BY DEF TypeInv, TypeOK
<1>2. /\ clock' = clock + 1
      /\ UNCHANGED <<ledger, older, client, account, receipts, revoked, dirty, running, adminOff, edits, failures>>
  BY DEF Tick
<1>3. TypeInv'
  <2>1. clock' \in Nat /\ clock' >= 2
    BY <1>1, <1>2
  <2>2. TypeOK'
    BY <1>1, <1>2, <2>1 DEF TypeOK
  <2>3. Ordered(older)'
    BY <1>2 DEF TypeInv, Ordered
  <2>. QED
    BY <2>1, <2>2, <2>3 DEF TypeInv
<1>4. LedgerStep
  BY <1>1, <1>2, UsageStep DEF LedgerInv, SameBut
<1>5. AccessInv'
  <2>1. Counted(ledger)' = Counted(ledger) /\ (HasQuota(client)' <=> HasQuota(client))
    BY <1>2 DEF Counted, HasQuota
  <2>2. Live(ledger) = {} => Live(ledger)' = {}
    <3>1. ASSUME NEW s \in Live(ledger)' PROVE s \in Live(ledger)
      <4>1. s \in Counted(ledger) /\ Ahead(ledger[s].until, clock + 1) /\ ledger[s].until \in Nat
        BY <1>1, <1>2 DEF Live, Counted, Ahead, Row
      <4>. QED
        BY <1>1, <4>1 DEF Live, Ahead
    <3>. QED
      BY <3>1
  <2>3. client.until < clock => client.until < clock'
    <3>1. client.until \in Nat
      BY <1>1 DEF ClientRow
    <3>2. clock' = clock + 1
      BY <1>2
    <3>. QED
      BY <1>1, <3>1, <3>2
  <2>4. client' = client /\ ledger' = ledger /\ account' = account /\ edits' = edits
    BY <1>2
  <2>5. Access(client, ledger)
    BY DEF LedgerInv, AccessInv
  <2>6. ASSUME client.row = "managed"
        PROVE  /\ client.enable => Counted(ledger)' # {} /\ ~client.manual
               /\ ~client.enable => \/ Live(ledger)' = {} \/ client.manual \/ account.blocked
                                    \/ client.why = "quota" /\ (~HasQuota(client)' \/ edits > 0)
    BY <2>1, <2>2, <2>5, <2>6 DEF Access
  <2>7. ASSUME client.row = "managed"
        PROVE  \/ /\ client.active \in Ids
                  /\ ledger[client.active].state = "live" \/ (ledger[client.active].state = "disabled" /\ client.manual)
                  /\ client.until = Never \/ (ledger[client.active].until # Never /\ client.until >= ledger[client.active].until)
               \/ /\ client.active = NoSource /\ Live(ledger)' = {} /\ ~client.enable
                  /\ client.until # Never /\ client.until < clock'
    BY <2>2, <2>3, <2>5, <2>7 DEF Access
  <2>. QED
    BY <2>4, <2>6, <2>7 DEF AccessInv, Access
<1>6. (\A s \in Ids : RowInv(s, ledger[s]))' /\ LegacyInv' /\ BlockedIsOff' /\ AccountIsLatest'
  BY <1>2 DEF LedgerInv, RowInv, LegacyInv, BlockedIsOff, AccountIsLatest, Blocks
<1>7. RevokedForGood'
  BY <1>2 DEF LedgerInv, RevokedForGood, Gone
<1>8. account'.rev >= account.rev
  BY <1>1, <1>2 DEF TypeOK
<1>. QED
  BY <1>3, <1>4, <1>5, <1>6, <1>7, <1>8 DEF Kept, LedgerInv

-----------------------------------------------------------------------------
(* Xray *)

(* A synchronization brings Xray to the client row, or leaves it pending. *)
LEMMA SyncFollows ==
  ASSUME RuntimeFollows, NEW c, Sync(c), client' = c
  PROVE  RuntimeFollows'
<1>1. CASE dirty' = TRUE
  BY <1>1 DEF RuntimeFollows
<1>2. CASE /\ dirty' = FALSE
           /\ running' = IF MayApplyPartial /\ c.enable = client.enable THEN running ELSE c.enable
  <2>1. CASE MayApplyPartial /\ c.enable = client.enable
    BY <1>2, <2>1, Zenon DEF RuntimeFollows, MayApplyPartial
  <2>2. CASE ~(MayApplyPartial /\ c.enable = client.enable)
    BY <1>2, <2>2, Zenon DEF RuntimeFollows
  <2>. QED
    BY <2>1, <2>2
<1>. QED
  BY <1>1, <1>2, Zenon DEF Sync

(* So does one with nothing new to tell. *)
LEMMA SynchronizeFollows ==
  ASSUME RuntimeFollows, Synchronize, client'.enable = client.enable
  PROVE  RuntimeFollows'
<1>1. CASE dirty /\ UNCHANGED dirty
  BY <1>1, Zenon DEF RuntimeFollows
<1>2. CASE dirty' = FALSE /\ running' = IF dirty THEN client.enable ELSE running
  <2>1. CASE dirty
    BY <1>2, <2>1, Zenon DEF RuntimeFollows
  <2>2. CASE ~dirty
    BY <1>2, <2>2, Zenon DEF RuntimeFollows
  <2>. QED
    BY <2>1, <2>2
<1>. QED
  BY <1>1, <1>2, Zenon DEF Synchronize

(* A write is one or the other. *)
LEMMA WriteFollows ==
  ASSUME RuntimeFollows, NEW l, NEW c, Write(l, c)
  PROVE  RuntimeFollows'
  BY SyncFollows DEF Write

(* Nor does what leaves the switch and Xray alone separate them. *)
LEMMA StillFollows ==
  ASSUME RuntimeFollows, UNCHANGED <<dirty, running>>, client'.enable = client.enable
  PROVE  RuntimeFollows'
  BY Zenon DEF RuntimeFollows

(* No step leaves Xray behind unless it is marked as pending. *)
LEMMA FollowsStep ==
  ASSUME TypeOK, RuntimeFollows, [Next]_vars
  PROVE  RuntimeFollows'
<1>1. ASSUME NEW g \in Grants, NEW a, Grant(g, a) PROVE RuntimeFollows'
  <2>1. CASE ReplayGrant(g)
    BY <2>1, SynchronizeFollows DEF ReplayGrant
  <2>2. CASE ExecuteGrant(g)
    BY <2>2, WriteFollows DEF ExecuteGrant, WriteBoth
  <2>. QED
    BY <1>1, <2>1, <2>2 DEF Grant
<1>2. ASSUME NEW r \in Revokes, Revoke(r) PROVE RuntimeFollows'
  BY <1>2, WriteFollows, StillFollows DEF Revoke, WriteBoth
<1>3. ASSUME NEW r \in TariffRevokes, RevokeTariff(r) PROVE RuntimeFollows'
  <2>1. CASE r \in receipts
    BY <1>3, <2>1, SynchronizeFollows DEF RevokeTariff
  <2>2. CASE r \notin receipts
    BY <1>3, <2>2, WriteFollows DEF RevokeTariff, WriteBoth
  <2>. QED
    BY <2>1, <2>2
<1>4. ASSUME NEW r \in Resets, Reset(r) PROVE RuntimeFollows'
  <2>1. CASE r \in receipts
    BY <1>4, <2>1, SynchronizeFollows DEF Reset
  <2>2. CASE r \notin receipts
    BY <1>4, <2>2, WriteFollows DEF Reset, WriteBoth
  <2>. QED
    BY <2>1, <2>2
<1>5. ASSUME NEW n \in Accounts, ApplyAccount(n) PROVE RuntimeFollows'
  <2>1. CASE client.row = "none"
    BY <1>5, <2>1, StillFollows DEF ApplyAccount
  <2>2. CASE client.row = "managed"
    BY <1>5, <2>2, WriteFollows DEF ApplyAccount, WriteBoth
  <2>3. CASE client.row = "legacy" /\ Blocks(n)
    BY <1>5, <2>3, WriteFollows DEF ApplyAccount
  <2>4. CASE client.row = "legacy" /\ ~Blocks(n)
    BY <1>5, <2>4, WriteFollows DEF ApplyAccount
  <2>. QED
    BY <2>1, <2>2, <2>3, <2>4 DEF TypeOK, ClientRow
<1>6. ASSUME NEW on, NEW until, NEW limit, Edit(on, until, limit) PROVE RuntimeFollows'
  BY <1>6, WriteFollows DEF Edit
<1>7. ASSUME NEW reenable \in BOOLEAN, ResetTraffic(reenable) PROVE RuntimeFollows'
  <2>. DEFINE c == FreshCycle(client, reenable)
  <2>1. CASE Write(ledger, c)
    BY <2>1, WriteFollows
  <2>2. CASE c.enable = client.enable /\ client' = c /\ Synchronize
    BY <2>2, SynchronizeFollows
  <2>. QED
    BY <1>7, <2>1, <2>2 DEF ResetTraffic
<1>8. ASSUME NEW resetDay, CheckLimitsOn(resetDay) PROVE RuntimeFollows'
  <2>. DEFINE due == /\ client.row = "managed" /\ client.active \in Ids
                     /\ ~Ahead(ledger[client.active].until, clock)
              r == IF due THEN Refreshed(client, SaveUsage(client, ledger), older, account.blocked, FALSE)
                   ELSE [client |-> client, ledger |-> ledger]
              c0 == IF resetDay THEN FreshCycle(r.client, r.client.why = "quota") ELSE r.client
              expired == c0.until # Never /\ c0.until < clock
              c == IF c0.enable /\ (expired \/ ~HasQuota(c0))
                   THEN [c0 EXCEPT !.enable = FALSE, !.why = IF expired THEN "expiry" ELSE "quota"]
                   ELSE c0
  <2>1. IF c.enable # client.enable THEN Write(r.ledger, c)
        ELSE ledger' = r.ledger /\ client' = c /\ Synchronize
    BY <1>8 DEF CheckLimitsOn
  <2>. HIDE DEF c, r
  <2>2. CASE c.enable # client.enable
    BY <2>1, <2>2, WriteFollows
  <2>3. CASE c.enable = client.enable
    BY <2>1, <2>3, SynchronizeFollows
  <2>. QED
    BY <2>2, <2>3
<1>9. ASSUME Use PROVE RuntimeFollows'
  <2>1. client'.enable = client.enable /\ UNCHANGED <<dirty, running>>
    BY <1>9 DEF Use, TypeOK, ClientRow
  <2>. QED
    BY <2>1, StillFollows
<1>10. ASSUME Tick \/ UNCHANGED vars PROVE RuntimeFollows'
  BY <1>10, StillFollows DEF Tick, vars
<1>. QED
  BY <1>1, <1>2, <1>3, <1>4, <1>5, <1>6, <1>7, <1>8, <1>9, <1>10 DEF Next, CheckLimits

-----------------------------------------------------------------------------
(* The theorems *)

(* Whatever the calls, the invariants hold at first. *)
LEMMA Initially == Init => TypeInv /\ LedgerInv
<1>. SUFFICES ASSUME Init PROVE TypeInv /\ LedgerInv
  OBVIOUS
<1>. DEFINE first == CHOOSE t \in Tariffs : TRUE
<1>1. first \in Tariffs
  BY IdsAssumption
<1>2. Absent \in Row /\ Absent.state = "absent" /\ Absent.rev = 0
  <2>1. Absent = [state |-> "absent", rev |-> 0, tariff |-> first, until |-> 0, limit |-> 0, used |-> 0]
    BY DEF Absent, Never
  <2>. HIDE DEF first
  <2>. QED
    BY <1>1, <2>1 DEF Row
<1>3. /\ NoClient \in ClientRow /\ NoClient.row = "none" /\ NoClient.active = NoSource
      /\ (NoClient.enable <=> FALSE) /\ (NoClient.manual <=> FALSE)
  <2>1. NoClient = [row |-> "none", enable |-> FALSE, why |-> "", manual |-> FALSE, until |-> 0,
                    limit |-> 0, used |-> 0, tariff |-> first, active |-> NoSource]
    BY DEF NoClient, Never
  <2>. HIDE DEF first
  <2>. QED
    BY <1>1, <2>1 DEF ClientRow
<1>4. ASSUME NEW on \in BOOLEAN, NEW t \in Tariffs
      PROVE  LET c == LegacyClient(on, t)
             IN c \in ClientRow /\ c.row = "legacy" /\ c.active = NoSource
  <2>. DEFINE c == LegacyClient(on, t)
  <2>. DEFINE why == IF on THEN "" ELSE "manual"
              off == ~on
  <2>2. why \in {"", "manual"} /\ off \in BOOLEAN
    OBVIOUS
  <2>3. c = [NoClient EXCEPT !.row = "legacy", !.enable = on, !.why = why, !.manual = off, !.until = 3, !.tariff = t]
    BY DEF LegacyClient
  <2>. HIDE DEF why, off, c
  <2>4. c \in ClientRow
    BY <1>3, <2>2, <2>3 DEF ClientRow
  <2>5. c.row = "legacy" /\ c.active = NoSource
    BY <1>3, <2>2, <2>3 DEF ClientRow
  <2>. QED
    BY <2>4, <2>5 DEF c
<1>5. /\ client \in ClientRow /\ client.row \in {"none", "legacy"} /\ client.active = NoSource
      /\ client.row = "none" => ~client.enable
  <2>1. client = NoClient \/ \E on \in BOOLEAN, t \in Tariffs : client = LegacyClient(on, t)
    BY DEF Init
  <2>2. CASE client = NoClient
    BY <1>3, <2>2
  <2>3. CASE \E on \in BOOLEAN, t \in Tariffs : client = LegacyClient(on, t)
    BY <1>4, <2>3
  <2>. QED
    BY <2>1, <2>2, <2>3
<1>6. /\ clock = 2 /\ ledger = [s \in Ids |-> Absent] /\ older = [s \in Ids |-> {}]
      /\ account = [rev |-> 0, blocked |-> FALSE] /\ receipts = {} /\ revoked = {} /\ dirty = FALSE
      /\ running = client.enable /\ adminOff = client.manual /\ edits = 0 /\ failures = 0
  BY DEF Init
<1>7. TypeInv
  <2>1. running \in BOOLEAN /\ adminOff \in BOOLEAN
    BY <1>5, <1>6 DEF ClientRow
  <2>2. TypeOK
    BY <1>2, <1>5, <1>6, <2>1 DEF TypeOK
  <2>3. Ordered(older) /\ clock >= 2
    BY <1>6 DEF Ordered
  <2>. QED
    BY <2>2, <2>3 DEF TypeInv
<1>8. \A s \in Ids : RowInv(s, ledger[s]) /\ ledger[s].state = "absent"
  BY <1>2, <1>6 DEF RowInv
<1>9. LegacyInv
  BY <1>5, <1>8 DEF LegacyInv, Ids
<1>10. AccessInv
  BY <1>5 DEF AccessInv, Access
<1>11. RevokedForGood /\ BlockedIsOff /\ AccountIsLatest
  <2>1. RevokedForGood
    BY <1>6 DEF RevokedForGood
  <2>2. (account.blocked <=> FALSE) /\ account.blocked = FALSE /\ account.rev = 0
    BY <1>6
  <2>3. BlockedIsOff
    BY <2>2 DEF BlockedIsOff
  <2>4. 0 % 2 # 1
    OBVIOUS
  <2>5. AccountIsLatest
    BY <2>2, <2>4 DEF AccountIsLatest, Blocks
  <2>. QED
    BY <2>1, <2>3, <2>5
<1>. QED
  BY <1>7, <1>8, <1>9, <1>10, <1>11 DEF LedgerInv

(* Every step keeps them. *)
LEMMA NextStep ==
  ASSUME TypeInv, LedgerInv, Next
  PROVE  Kept
<1>1. ASSUME NEW g \in Grants, NEW a \in {0} \cup Accounts, ~Blocks(a), Grant(g, a) PROVE Kept
  BY <1>1, GrantStep
<1>2. ASSUME NEW r \in Revokes, Revoke(r) PROVE Kept
  BY <1>2, RevokeStep
<1>3. ASSUME NEW r \in TariffRevokes, RevokeTariff(r) PROVE Kept
  <2>1. CASE r \notin receipts
    BY <1>3, <2>1, RevokeTariffStep
  <2>2. CASE r \in receipts
    BY <1>3, <2>2, OnlySynchronize DEF RevokeTariff
  <2>. QED
    BY <2>1, <2>2
<1>4. ASSUME NEW r \in Resets, Reset(r) PROVE Kept
  <2>1. CASE r \notin receipts
    BY <1>4, <2>1, ResetStep
  <2>2. CASE r \in receipts
    BY <1>4, <2>2, OnlySynchronize DEF Reset
  <2>. QED
    BY <2>1, <2>2
<1>5. ASSUME NEW n \in Accounts, ApplyAccount(n) PROVE Kept
  BY <1>5, ApplyAccountStep
<1>6. ASSUME NEW on \in BOOLEAN, NEW until \in {Never, clock - 1, clock + 1, client.until},
             NEW limit \in {client.limit, MaxLimit}, Edit(on, until, limit)
      PROVE  Kept
  <2>1. clock \in Nat /\ clock >= 2 /\ client.until \in Nat /\ client.limit \in Nat
    BY DEF TypeInv, TypeOK, ClientRow
  <2>2. until \in Nat /\ limit \in Nat
    BY <2>1, LedgerBoundsAssumption DEF Never
  <2>. QED
    BY <1>6, <2>2, EditStep
<1>7. ASSUME NEW reenable \in BOOLEAN, ResetTraffic(reenable) PROVE Kept
  BY <1>7, ResetTrafficStep
<1>. QED
  BY <1>1, <1>2, <1>3, <1>4, <1>5, <1>6, <1>7, CheckLimitsStep, UseStep, TickStep DEF Next

(* A step of the specification, also one that changes nothing. *)
LEMMA BoxStep ==
  ASSUME TypeInv, LedgerInv, [Next]_vars
  PROVE  Kept
<1>1. CASE Next
  BY <1>1, NextStep
<1>2. CASE UNCHANGED vars
  <2>1. TypeInv'
    BY <1>2 DEF vars, TypeInv, TypeOK, Ordered
  <2>2. (\A s \in Ids : RowInv(s, ledger[s]))' /\ LegacyInv' /\ BlockedIsOff' /\ AccountIsLatest'
    BY <1>2 DEF vars, LedgerInv, RowInv, LegacyInv, BlockedIsOff, AccountIsLatest, Blocks
  <2>3. RevokedForGood'
    BY <1>2 DEF vars, LedgerInv, RevokedForGood, Gone
  <2>4. AccessInv'
    BY <1>2, SameAccess DEF vars, LedgerInv
  <2>5. LedgerStep
    BY <1>2, UsageStep DEF vars, TypeInv, LedgerInv, SameBut
  <2>6. account'.rev >= account.rev
    BY <1>2 DEF vars, TypeInv, TypeOK
  <2>. QED
    BY <2>1, <2>2, <2>3, <2>4, <2>5, <2>6 DEF Kept, LedgerInv
<1>. QED
  BY <1>1, <1>2

(* The types and the ledger's invariants, for every set of calls, in any   *)
(* order and any number of times.                                          *)
THEOREM LedgerInvariant == Spec => [](TypeInv /\ LedgerInv)
<1>1. TypeInv /\ LedgerInv /\ [Next]_vars => (TypeInv /\ LedgerInv)'
  BY BoxStep DEF Kept
<1>. QED
  BY Initially, <1>1, PTL DEF Spec

(* Every variable keeps its type. *)
THEOREM TypeCorrect == Spec => []TypeOK
<1>1. TypeInv => TypeOK
  BY DEF TypeInv
<1>. QED
  BY LedgerInvariant, <1>1, PTL

(* A revocation stands, whatever calls come before or after it: the        *)
(* revision guards of revoke_source and provision suffice.                 *)
THEOREM RevocationStands == Spec => []RevokedForGood
<1>1. LedgerInv => RevokedForGood
  BY DEF LedgerInv
<1>. QED
  BY LedgerInvariant, <1>1, PTL

(* The account is as the newest state the master sent says.                *)
THEOREM AccountLatest == Spec => []AccountIsLatest
<1>1. LedgerInv => AccountIsLatest
  BY DEF LedgerInv
<1>. QED
  BY LedgerInvariant, <1>1, PTL

(* A blocked user is off, but for what an admin of the node gave by hand.  *)
THEOREM BlockedStaysOff == Spec => []BlockedIsOff
<1>1. LedgerInv => BlockedIsOff
  BY DEF LedgerInv
<1>. QED
  BY LedgerInvariant, <1>1, PTL

(* The client row and the ledger agree on whether the client has access. *)
THEOREM AccessIsJustified == Spec => []AccessFollowsLedger
<1>1. LedgerInv => AccessFollowsLedger
  BY DEF LedgerInv, AccessInv, Access, AccessFollowsLedger
<1>. QED
  BY LedgerInvariant, <1>1, PTL

(* No step takes a revision back: a late call never undoes a newer one. *)
THEOREM NewestAlwaysWins == Spec => NewestWins
<1>1. TypeInv /\ LedgerInv /\ [Next]_vars
      => [account'.rev >= account.rev /\ \A s \in Ids : ledger'[s].rev >= ledger[s].rev]_<<account, ledger>>
  <2>. SUFFICES ASSUME TypeInv, LedgerInv, [Next]_vars
                PROVE  account'.rev >= account.rev /\ \A s \in Ids : ledger'[s].rev >= ledger[s].rev
    OBVIOUS
  <2>1. Kept
    BY BoxStep
  <2>2. ASSUME NEW s \in Ids PROVE ledger'[s].rev >= ledger[s].rev
    <3>1. ledger[s].rev \in Nat /\ ledger'[s].rev \in Nat
      BY <2>1 DEF Kept, TypeInv, TypeOK, Row
    <3>2. RowStep(ledger[s], ledger'[s])
      BY <2>1 DEF Kept, LedgerStep
    <3>. QED
      BY <3>1, <3>2 DEF RowStep
  <2>. QED
    BY <2>1, <2>2 DEF Kept
<1>. QED
  BY LedgerInvariant, <1>1, PTL DEF Spec, NewestWins

(* What Xray runs is what the client row says, or known to be pending. *)
THEOREM RuntimeIsFollowed == Spec => []RuntimeFollows
<1>1. Init => RuntimeFollows
  BY DEF Init, RuntimeFollows
<1>2. TypeOK /\ RuntimeFollows /\ [Next]_vars => RuntimeFollows'
  BY FollowsStep
<1>. QED
  BY TypeCorrect, <1>1, <1>2, PTL DEF Spec

-----------------------------------------------------------------------------
(* Nothing is given twice                                                  *)

(* An end of access is not after another. *)
Within(u, e) == e = Never \/ (u # Never /\ u <= e)

(* No live source outlasts what a client row shows, so that what a refresh *)
(* makes of the sources gives the client nothing.                          *)
Shows(u, l) == \A s \in Live(l) : Within(l[s].until, Later(u, clock))
Shown == edits = 0 => \A s \in Live(ledger) : Within(ledger[s].until, AccessEnd)

(* What a step may do to a client's time and usage. *)
TimeIsGiven ==
  edits = 0 /\ edits' = 0 /\ Extended =>
    \E g \in (receipts' \ receipts) \cap Grants :
      g.period = 0 \/ client'.until <= AccessEnd + g.period
UsageIsKept ==
  \A s \in Sources :
    /\ ledger[s].state = "live" /\ ledger'[s].state = "live"
    /\ UsageOf(s)' < UsageOf(s)
    => \/ receipts' # receipts \/ edits' # edits \/ Monthly
       \/ client.active \in Ids /\ ~Ahead(ledger[client.active].until, clock)
Free == Shown' /\ TimeIsGiven /\ UsageIsKept

(* The client's access ends at some time, not before now. *)
LEMMA AccessEndType ==
  ASSUME TypeInv
  PROVE  AccessEnd \in Nat /\ (AccessEnd = Never \/ AccessEnd >= clock)
<1>1. clock \in Nat /\ clock >= 2 /\ client.until \in Nat
  BY DEF TypeInv, TypeOK, ClientRow
<1>. QED
  BY <1>1 DEF AccessEnd, Later, Never

(* What ends the last of some sources ends by when they all do. *)
LEMMA EndWithin ==
  ASSUME TypeInv, NEW l \in [Ids -> Row], NEW e \in Nat, e = Never \/ e >= clock,
         \A s \in Live(l) : Within(l[s].until, e)
  PROVE  Within(End(l, Live(l)), e)
<1>. DEFINE live == Live(l)
<1>0. live \subseteq Ids /\ clock \in Nat /\ clock >= 2 /\ \A s \in live : l[s].until \in Nat
  BY DEF Live, Counted, TypeInv, TypeOK, Row
<1>1. CASE \E s \in live : l[s].until = Never
  BY <1>0, <1>1 DEF Within
<1>2. CASE live = {}
  BY <1>0, <1>2 DEF End, Within, Never
<1>3. CASE live # {} /\ \A s \in live : l[s].until # Never
  <2>. DEFINE f == Furthest(l, live)
  <2>1. f \in live
    BY <1>0, <1>3, FurthestIsLive
  <2>2. End(l, live) = Later(clock, l[f].until)
    BY <1>3 DEF End
  <2>. HIDE DEF f
  <2>3. Within(l[f].until, e) /\ l[f].until \in Nat
    BY <1>0, <2>1
  <2>. QED
    BY <1>0, <2>2, <2>3 DEF Within, Later, Never
<1>. QED
  BY <1>1, <1>2, <1>3

(* What a refresh shows: the end of the live sources, and the usage of the *)
(* one it makes active, which starts again for a new period or when the    *)
(* active source expired.                                                  *)
LEMMA RefreshedShows ==
  ASSUME TypeInv, NEW c \in ClientRow, NEW l \in [Ids -> Row],
         NEW o \in [Ids -> SUBSET Ids], Ordered(o), NEW blocked \in BOOLEAN, NEW reset \in BOOLEAN
  PROVE  LET r == Refreshed(c, l, o, blocked, reset)
             d == r.client
         IN \/ /\ Live(l) = {} /\ d.until = clock - 1 /\ d.active = NoSource /\ r.ledger = l
            \/ /\ d.until = End(l, Live(l)) /\ d.active \in Ids /\ d.used = r.ledger[d.active].used
               /\ r.ledger = l \/ reset \/ (c.active \in Ids /\ ~Ahead(l[c.active].until, clock))
<1>. DEFINE live == Live(l)
            owner == Owner(l, o, live)
            r == Refreshed(c, l, o, blocked, reset)
<1>0. live \subseteq Ids /\ clock \in Nat /\ clock >= 2
  BY DEF Live, Counted, TypeInv, TypeOK
<1>1. CASE live = {}
  <2>. DEFINE d == [c EXCEPT !.enable = FALSE, !.why = "expiry", !.until = clock - 1, !.active = NoSource]
  <2>1. r = [client |-> d, ledger |-> l]
    BY <1>1 DEF Refreshed
  <2>2. d.until = clock - 1 /\ d.active = NoSource
    BY DEF ClientRow
  <2>. HIDE DEF d, r
  <2>3. r.client = d /\ r.ledger = l
    BY <2>1
  <2>. QED
    BY <1>1, <2>2, <2>3 DEF r
<1>2. CASE live # {}
  <2>1. owner \in live /\ owner \in Ids
    BY <1>0, <1>2, OwnerIsLive
  <2>2. PICK fresh \in [Ids -> Row] :
          /\ fresh = l \/ reset \/ (c.active \in Ids /\ ~Ahead(l[c.active].until, clock))
          /\ r = [client |-> Switched([c EXCEPT !.until = End(l, live), !.limit = l[owner].limit,
                                                !.used = fresh[owner].used, !.tariff = l[owner].tariff,
                                                !.active = owner], blocked),
                  ledger |-> fresh]
    <3>. DEFINE zero == [l EXCEPT ![owner].used = 0]
                expired == /\ c.active \in Ids /\ c.active # owner
                           /\ l[c.active].state \in {"live", "disabled"}
                           /\ ~Ahead(l[c.active].until, clock)
    <3>1. zero \in [Ids -> Row]
      BY <2>1, UsageType
    <3>3. CASE reset \/ expired
      BY <1>2, <3>1, <3>3 DEF Refreshed
    <3>4. CASE ~(reset \/ expired)
      BY <1>2, <3>4 DEF Refreshed
    <3>. QED
      BY <3>3, <3>4
  <2>. DEFINE shown == [c EXCEPT !.until = End(l, live), !.limit = l[owner].limit, !.used = fresh[owner].used,
                                 !.tariff = l[owner].tariff, !.active = owner]
              d == Switched(shown, blocked)
  <2>3. End(l, live) \in Nat
    BY <1>0, EndType
  <2>4. l[owner].limit \in Nat /\ fresh[owner].used \in Nat /\ l[owner].tariff \in Tariffs
    BY <2>1 DEF Row
  <2>5. /\ shown \in ClientRow
        /\ shown.until = End(l, live) /\ shown.active = owner /\ shown.used = fresh[owner].used
    <3>. HIDE DEF owner, live
    <3>. QED
      BY <2>1, <2>3, <2>4 DEF ClientRow
  <2>. HIDE DEF r
  <2>6. r.client = d /\ r.ledger = fresh
    BY <2>2
  <2>. HIDE DEF shown
  <2>7. d.until = shown.until /\ d.used = shown.used /\ d.active = shown.active
    BY <2>5, SwitchedType
  <2>. HIDE DEF d, owner
  <2>8. /\ r.client.until = End(l, live) /\ r.client.active \in Ids /\ r.client.used = r.ledger[r.client.active].used
        /\ r.ledger = l \/ reset \/ (c.active \in Ids /\ ~Ahead(l[c.active].until, clock))
    BY <2>1, <2>2, <2>5, <2>6, <2>7
  <2>. QED
    BY <2>8 DEF r
<1>. QED
  BY <1>1, <1>2

(* So a refresh ends access when its sources do, and shows them all. *)
LEMMA RefreshedWithin ==
  ASSUME TypeInv, NEW c \in ClientRow, NEW l \in [Ids -> Row],
         NEW o \in [Ids -> SUBSET Ids], Ordered(o), NEW blocked \in BOOLEAN, NEW reset \in BOOLEAN,
         NEW e \in Nat, e = Never \/ e >= clock, \A s \in Live(l) : Within(l[s].until, e)
  PROVE  LET r == Refreshed(c, l, o, blocked, reset)
         IN Within(r.client.until, e) /\ Shows(r.client.until, r.ledger) /\ r.client.row = c.row
<1>. DEFINE r == Refreshed(c, l, o, blocked, reset)
            u == r.client.until
<1>0. clock \in Nat /\ clock >= 2
  BY DEF TypeInv, TypeOK
<1>1. r.ledger \in [Ids -> Row] /\ SameBut(l, r.ledger) /\ r.client.row = c.row
  BY <1>0, RefreshedType
<1>2. \/ Live(l) = {} /\ u = clock - 1
      \/ u = End(l, Live(l))
  BY RefreshedShows
<1>3. Live(r.ledger) = Live(l) /\ \A s \in Live(l) : r.ledger[s].until = l[s].until
  <2>1. Live(l) \subseteq Ids
    BY DEF Live, Counted
  <2>. QED
    BY <1>1, <2>1, SameLive DEF SameBut
<1>. HIDE DEF u
<1>4. CASE Live(l) = {} /\ u = clock - 1
  <2>1. Within(u, e)
    BY <1>0, <1>4 DEF Within, Never
  <2>. QED
    BY <1>1, <1>3, <1>4, <2>1 DEF Shows, u
<1>5. CASE u = End(l, Live(l))
  <2>1. Within(u, e)
    BY <1>5, EndWithin
  <2>2. /\ u \in Nat /\ (u = Never \/ u >= clock)
        /\ \A s \in Live(l) : u = Never \/ (l[s].until # Never /\ l[s].until <= u)
    BY <1>0, <1>5, EndType DEF Live, Counted
  <2>3. Later(u, clock) = u
    BY <1>0, <2>2 DEF Later, Never
  <2>4. \A s \in Live(l) : Within(l[s].until, Later(u, clock))
    BY <2>2, <2>3 DEF Within
  <2>. QED
    BY <1>1, <1>3, <2>1, <2>4 DEF Shows, u
<1>. QED
  BY <1>2, <1>4, <1>5

(* A step that writes such a refresh keeps the sources shown. *)
LEMMA ShownAgain ==
  ASSUME Shows(client'.until, ledger'), client'.row # "none", clock' = clock
  PROVE  Shown'
<1>1. Live(ledger)' = Live(ledger')
  BY DEF Live, Counted, Ahead
<1>2. AccessEnd' = Later(client'.until, clock)
  BY DEF AccessEnd, Later
<1>. QED
  BY <1>1, <1>2 DEF Shown, Shows, Within

(* Access within what there was is not extended. *)
LEMMA NotExtended ==
  ASSUME TypeInv, client' \in ClientRow, Within(client'.until, AccessEnd)
  PROVE  TimeIsGiven
<1>1. AccessEnd \in Nat /\ client'.until \in Nat
  BY AccessEndType DEF ClientRow
<1>. QED
  BY <1>1 DEF TimeIsGiven, Extended, Within

(* A refresh from sources that were live and shown gives no time. *)
LEMMA RefreshGivesNothing ==
  ASSUME TypeInv, Shown, NEW c \in ClientRow, NEW l \in [Ids -> Row],
         \A s \in Live(l) : s \in Live(ledger) /\ l[s].until = ledger[s].until,
         NEW o \in [Ids -> SUBSET Ids], Ordered(o), NEW blocked \in BOOLEAN, NEW reset \in BOOLEAN,
         LET r == Refreshed(c, l, o, blocked, reset)
         IN ledger' = r.ledger /\ client'.until = r.client.until,
         client' \in ClientRow, client'.row # "none", clock' = clock, edits' = edits
  PROVE  Shown' /\ TimeIsGiven
<1>. DEFINE r == Refreshed(c, l, o, blocked, reset)
<1>1. CASE edits # 0
  BY <1>1 DEF Shown, TimeIsGiven
<1>2. CASE edits = 0
  <2>1. AccessEnd \in Nat /\ (AccessEnd = Never \/ AccessEnd >= clock)
    BY AccessEndType
  <2>2. \A s \in Live(l) : Within(l[s].until, AccessEnd)
    BY <1>2 DEF Shown
  <2>3. Within(r.client.until, AccessEnd) /\ Shows(r.client.until, r.ledger)
    BY <2>1, <2>2, RefreshedWithin
  <2>. QED
    BY <2>3, ShownAgain, NotExtended
<1>. QED
  BY <1>1, <1>2

(* Nor does a step that leaves the client its end, and the ledger no more  *)
(* live sources.                                                           *)
LEMMA QuietGivesNothing ==
  ASSUME TypeInv, TypeInv', Shown, clock' >= clock, edits' = edits,
         client'.row = client.row, client'.until = client.until,
         \A s \in Live(ledger)' : s \in Live(ledger) /\ ledger'[s].until = ledger[s].until
  PROVE  Shown' /\ TimeIsGiven
<1>1. /\ AccessEnd \in Nat /\ clock \in Nat /\ clock' \in Nat /\ clock >= 2 /\ client.until \in Nat
      /\ client' \in ClientRow
  BY AccessEndType DEF TypeInv, TypeOK, ClientRow
<1>2. AccessEnd' = Never \/ (AccessEnd # Never /\ AccessEnd <= AccessEnd' /\ AccessEnd' \in Nat)
  BY <1>1 DEF AccessEnd, Later, Never
<1>3. Shown'
  <2>. SUFFICES ASSUME edits = 0, NEW s \in Live(ledger)' PROVE Within(ledger[s].until, AccessEnd)'
    BY DEF Shown
  <2>1. Within(ledger[s].until, AccessEnd) /\ ledger'[s].until = ledger[s].until
    BY DEF Shown
  <2>2. ledger[s].until \in Nat
    <3>1. s \in Ids
      BY DEF Live, Counted
    <3>. QED
      BY <3>1 DEF TypeInv, TypeOK, Row
  <2>3. Within(ledger'[s].until, AccessEnd')
    BY <1>1, <1>2, <2>1, <2>2 DEF Within
  <2>. QED
    BY <2>3 DEF Within
<1>4. TimeIsGiven
  BY <1>1 DEF TimeIsGiven, Extended, AccessEnd, Later, Never
<1>. QED
  BY <1>3, <1>4

(* A step that writes no usage of a live source keeps it.                  *)
LEMMA UsageUntouched ==
  ASSUME client'.active = client.active, client'.used = client.used,
         \A s \in Sources : ledger[s].state = "live" => ledger'[s].used = ledger[s].used,
         TypeInv
  PROVE  UsageIsKept
<1>1. ASSUME NEW s \in Sources, ledger[s].state = "live" PROVE UsageOf(s)' = UsageOf(s) /\ UsageOf(s) \in Nat
  BY <1>1 DEF UsageOf, TypeInv, TypeOK, Row, ClientRow, Ids
<1>. QED
  BY <1>1 DEF UsageIsKept

(* A refresh that starts no period saves what the active source used. *)
LEMMA RefreshKeepsUsage ==
  ASSUME TypeInv, NEW m \in [Ids -> Row],
         \A s \in Sources : m[s].used = ledger[s].used,
         \A s \in Ids : m[s].until = ledger[s].until,
         NEW o \in [Ids -> SUBSET Ids], Ordered(o), NEW blocked \in BOOLEAN,
         WriteBoth(Refreshed(client, SaveUsage(client, m), o, blocked, FALSE))
  PROVE  UsageIsKept
<1>. DEFINE l == SaveUsage(client, m)
            r == Refreshed(client, l, o, blocked, FALSE)
<1>0. client \in ClientRow /\ client.used \in Nat
  BY DEF TypeInv, TypeOK, ClientRow
<1>1. l \in [Ids -> Row] /\ SameBut(m, l)
  BY <1>0, SavedType
<1>2. \A s \in Sources : l[s].used = UsageOf(s) /\ UsageOf(s) \in Nat
  BY <1>0 DEF SaveUsage, UsageOf, Ids, Row
<1>3. ledger' = r.ledger /\ client' = r.client
  BY DEF WriteBoth, Write
<1>4. FALSE \in BOOLEAN
  OBVIOUS
<1>. HIDE DEF l
<1>5. \/ client'.active = NoSource /\ ledger' = l
      \/ /\ client'.used = ledger'[client'.active].used
         /\ ledger' = l \/ (client.active \in Ids /\ ~Ahead(l[client.active].until, clock))
  BY <1>0, <1>1, <1>3, <1>4, RefreshedShows
<1>6. CASE ledger' = l
  <2>1. \A s \in Sources : UsageOf(s)' = l[s].used
    BY <1>5, <1>6, IdsAssumption DEF UsageOf
  <2>. QED
    BY <1>2, <2>1 DEF UsageIsKept
<1>7. CASE client.active \in Ids /\ ~Ahead(l[client.active].until, clock)
  <2>1. l[client.active].until = ledger[client.active].until
    BY <1>1, <1>7 DEF SameBut
  <2>. QED
    BY <1>7, <2>1 DEF UsageIsKept
<1>. QED
  BY <1>5, <1>6, <1>7

(* A refresh leaves a client what it is. *)
LEMMA RefreshedRow ==
  ASSUME clock \in Nat, clock >= 2, NEW c \in ClientRow, NEW l \in [Ids -> Row],
         NEW o \in [Ids -> SUBSET Ids], Ordered(o), NEW blocked \in BOOLEAN, NEW reset \in BOOLEAN
  PROVE  Refreshed(c, l, o, blocked, reset).client.row = c.row
  BY RefreshedType

(* A grant gives the period it says, from the end of what there was. *)
LEMMA ExecuteGrantFree ==
  ASSUME TypeInv, LedgerInv, Shown, NEW g \in Grants, ExecuteGrant(g),
         clock' = clock, edits' = edits, client' \in ClientRow
  PROVE  Free
<1>. DEFINE legacy == client.row = "legacy"
            c0 == IF legacy THEN Adopted(client, Legacy, LegacyManual(client)) ELSE [client EXCEPT !.row = "managed"]
            o0 == IF legacy THEN Stamped(older, Legacy) ELSE older
            la == IF legacy THEN [ledger EXCEPT ![Legacy] = AdoptedRow(client)] ELSE ledger
            l0 == SaveUsage(c0, la)
            end == PeriodStart(l0)
            until == IF g.period = 0 THEN g.until ELSE IF end = Never THEN Never ELSE end + g.period
            row == [state |-> "live", rev |-> g.rev, tariff |-> g.tariff,
                    until |-> until, limit |-> g.limit, used |-> 0]
            l1 == [l0 EXCEPT ![g.source] = row]
            o1 == Stamped(o0, g.source)
            c1 == [c0 EXCEPT !.active = NoSource]
            r == Refreshed(c1, l1, o1, FALSE, g.period # 0)
<1>1. /\ g \notin receipts /\ receipts' = receipts \cup {g}
      /\ WriteBoth(r)
  BY DEF ExecuteGrant
<1>2. /\ g.source \in Sources /\ g.source \in Ids /\ g.rev \in Nat /\ g.tariff = TariffOf[g.source] /\ g.tariff \in Tariffs
      /\ g.limit \in Nat /\ g.period \in Nat /\ g.until \in Nat /\ Legacy \in Ids /\ Legacy \notin Sources
  BY OperationsAssumption, LedgerBoundsAssumption, IdsAssumption DEF Ids
<1>3. /\ client \in ClientRow /\ ledger \in [Ids -> Row] /\ older \in [Ids -> SUBSET Ids] /\ Ordered(older)
      /\ clock \in Nat /\ clock >= 2 /\ AccessEnd \in Nat /\ (AccessEnd = Never \/ AccessEnd >= clock)
  BY AccessEndType DEF TypeInv, TypeOK
<1>4. c0 \in ClientRow /\ c1 \in ClientRow /\ c1.row = "managed"
  <2>1. LegacyManual(client) \in BOOLEAN
    BY DEF LegacyManual
  <2>2. c0 \in ClientRow /\ c0.row = "managed"
    BY <1>2, <1>3, <2>1 DEF Adopted, ClientRow
  <2>. HIDE DEF c0
  <2>. QED
    BY <2>2 DEF ClientRow
<1>5. o1 \in [Ids -> SUBSET Ids] /\ Ordered(o1)
  <2>1. o0 \in [Ids -> SUBSET Ids] /\ Ordered(o0)
    BY <1>2, <1>3, StampedType
  <2>. HIDE DEF o0
  <2>. QED
    BY <1>2, <2>1, StampedType
<1>6. la \in [Ids -> Row] /\ (edits = 0 => \A s \in Live(la) : Within(la[s].until, AccessEnd))
  <2>1. CASE legacy
    <3>1. AdoptedRow(client) \in Row /\ AdoptedRow(client).until = client.until
      BY <1>3 DEF AdoptedRow, Absent, Row, ClientRow
    <3>2. \A s \in Ids : ledger[s].state # "live"
      BY <2>1 DEF LedgerInv, LegacyInv
    <3>3. \A s \in Live(la) : s = Legacy
      BY <1>2, <1>3, <2>1, <3>2 DEF Live, Counted
    <3>4. Within(client.until, AccessEnd)
      <4>1. AccessEnd = Later(client.until, clock)
        BY <2>1 DEF AccessEnd
      <4>2. client.until \in Nat
        BY <1>3 DEF ClientRow
      <4>. QED
        BY <1>3, <4>1, <4>2 DEF Within, Later, Never
    <3>. QED
      BY <1>2, <1>3, <2>1, <3>1, <3>3, <3>4
  <2>2. CASE ~legacy
    BY <1>3, <2>2 DEF Shown
  <2>. QED
    BY <2>1, <2>2
<1>7. l0 \in [Ids -> Row] /\ (edits = 0 => \A s \in Live(l0) : Within(l0[s].until, AccessEnd))
  <2>1. l0 \in [Ids -> Row] /\ SameBut(la, l0)
    BY <1>4, <1>6, SavedType
  <2>. HIDE DEF l0, la
  <2>2. Live(l0) = Live(la) /\ \A s \in Live(l0) : l0[s].until = la[s].until
    BY <2>1, SameLive DEF SameBut, Live, Counted
  <2>. QED
    BY <1>6, <2>1, <2>2
<1>8. end \in Nat /\ (edits = 0 => Within(end, AccessEnd))
  <2>. HIDE DEF l0
  <2>1. Live(l0) \subseteq Ids
    BY DEF Live, Counted
  <2>2. End(l0, Live(l0)) \in Nat
    BY <1>3, <1>7, <2>1, EndType
  <2>3. edits = 0 => Within(End(l0, Live(l0)), AccessEnd)
    BY <1>3, <1>7, EndWithin
  <2>. QED
    BY <2>2, <2>3 DEF PeriodStart
<1>. HIDE DEF end
<1>9. until \in Nat
  BY <1>2, <1>8 DEF Never
<1>10. row \in Row /\ row.until = until
  <2>. HIDE DEF until
  <2>. QED
    BY <1>2, <1>9 DEF Row
<1>. HIDE DEF c0, c1, l0, o0, o1, row
<1>11. /\ l1 \in [Ids -> Row]
       /\ \A s \in Live(l1) : (s = g.source /\ l1[s].until = until) \/ (s \in Live(l0) /\ l1[s].until = l0[s].until)
  BY <1>2, <1>7, <1>10 DEF Live, Counted
<1>. DEFINE e == IF AccessEnd = Never \/ g.period = 0 THEN Never ELSE AccessEnd + g.period
<1>12. e \in Nat /\ (e = Never \/ e >= clock)
  BY <1>2, <1>3 DEF Never
<1>13. ASSUME edits = 0, NEW s \in Live(l1) PROVE Within(l1[s].until, e)
  <2>1. CASE e = Never
    BY <2>1 DEF Within
  <2>2. CASE e # Never
    <3>1. AccessEnd # Never /\ g.period # 0 /\ e = AccessEnd + g.period
      BY <2>2
    <3>2. end # Never /\ end <= AccessEnd /\ until = end + g.period
      BY <1>8, <1>13, <3>1 DEF Within
    <3>3. CASE s = g.source /\ l1[s].until = until
      BY <1>2, <1>3, <1>8, <3>1, <3>2, <3>3 DEF Within, Never
    <3>4. CASE s \in Live(l0) /\ l1[s].until = l0[s].until
      <4>1. Within(l0[s].until, AccessEnd) /\ l0[s].until \in Nat
        BY <1>7, <1>13, <3>4 DEF Live, Counted, Row
      <4>. QED
        BY <1>2, <1>3, <3>1, <3>4, <4>1 DEF Within
    <3>. QED
      BY <1>11, <3>3, <3>4
  <2>. QED
    BY <2>1, <2>2
<1>14. ledger' = r.ledger /\ client' = r.client
  BY <1>1 DEF WriteBoth, Write
<1>15. client'.row = "managed"
  <2>1. (g.period # 0) \in BOOLEAN /\ FALSE \in BOOLEAN
    OBVIOUS
  <2>. HIDE DEF l1
  <2>2. r.client.row = c1.row
    BY <1>3, <1>4, <1>5, <1>11, <2>1, RefreshedRow
  <2>. QED
    BY <1>4, <1>14, <2>2
<1>16. UsageIsKept
  BY <1>1 DEF UsageIsKept
<1>17. CASE edits # 0
  BY <1>16, <1>17 DEF Free, Shown, TimeIsGiven
<1>18. CASE edits = 0
  <2>. HIDE DEF l1, e
  <2>1. (g.period # 0) \in BOOLEAN /\ FALSE \in BOOLEAN
    OBVIOUS
  <2>2. Within(r.client.until, e) /\ Shows(r.client.until, r.ledger)
    BY <1>4, <1>5, <1>11, <1>12, <1>13, <1>18, <2>1, RefreshedWithin
  <2>. HIDE DEF r
  <2>3. Shown'
    BY <1>14, <1>15, <2>2, ShownAgain
  <2>4. TimeIsGiven
    <3>. SUFFICES ASSUME AccessEnd # Never, g.period # 0
                  PROVE  client'.until <= AccessEnd + g.period
      BY <1>1 DEF TimeIsGiven, Extended
    <3>. QED
      BY <1>2, <1>3, <1>14, <2>2 DEF Within, e, Never
  <2>. QED
    BY <1>16, <2>3, <2>4 DEF Free
<1>. QED
  BY <1>17, <1>18

(* A step that writes neither the client nor the ledger is free. *)
LEMMA StillFree ==
  ASSUME TypeInv, TypeInv', Shown, UNCHANGED <<ledger, client, edits>>, clock' >= clock
  PROVE  Free
<1>1. \A s \in Live(ledger)' : s \in Live(ledger) /\ ledger'[s].until = ledger[s].until
  <2>1. \A s \in Ids : ledger[s].until \in Nat
    BY DEF TypeInv, TypeOK, Row
  <2>. QED
    BY <2>1 DEF Live, Counted, Ahead, TypeInv, TypeOK
<1>2. UsageIsKept
  BY UsageUntouched
<1>. QED
  BY <1>1, <1>2, QuietGivesNothing DEF Free

(* A refresh of a managed client, from the ledger as it is but for rows    *)
(* that no longer count.                                                   *)
LEMMA RefreshFree ==
  ASSUME TypeInv, TypeInv', Shown, NEW m \in [Ids -> Row],
         \A s \in Sources : m[s].used = ledger[s].used,
         \A s \in Ids : m[s].until = ledger[s].until /\ (m[s].state = "live" => ledger[s].state = "live"),
         NEW blocked \in BOOLEAN, client.row # "none",
         WriteBoth(Refreshed(client, SaveUsage(client, m), older, blocked, FALSE)),
         clock' = clock, edits' = edits
  PROVE  Free
<1>. DEFINE l == SaveUsage(client, m)
            r == Refreshed(client, l, older, blocked, FALSE)
<1>0. /\ client \in ClientRow /\ client' \in ClientRow /\ clock \in Nat /\ clock >= 2 /\ FALSE \in BOOLEAN
      /\ older \in [Ids -> SUBSET Ids] /\ Ordered(older)
  BY DEF TypeInv, TypeOK
<1>1. l \in [Ids -> Row] /\ SameBut(m, l)
  BY <1>0, SavedType
<1>2. \A s \in Live(l) : s \in Live(ledger) /\ l[s].until = ledger[s].until
  <2>. HIDE DEF l
  <2>. QED
    BY <1>1 DEF SameBut, Live, Counted
<1>3. UsageIsKept
  BY <1>0, RefreshKeepsUsage
<1>. HIDE DEF l
<1>4. ledger' = r.ledger /\ client' = r.client
  BY DEF WriteBoth, Write, l
<1>5. r.client.row = client.row
  BY <1>0, <1>1, RefreshedRow
<1>6. Shown' /\ TimeIsGiven
  BY <1>0, <1>1, <1>2, <1>4, <1>5, RefreshGivesNothing
<1>. QED
  BY <1>3, <1>6 DEF Free

(* The master's calls. *)
LEMMA GrantFree ==
  ASSUME TypeInv, TypeInv', LedgerInv, Shown, NEW g \in Grants, NEW a, Grant(g, a)
  PROVE  Free
<1>1. clock' = clock /\ edits' = edits /\ client' \in ClientRow /\ clock \in Nat
  BY DEF Grant, TypeInv, TypeOK
<1>2. CASE ReplayGrant(g)
  BY <1>1, <1>2, StillFree DEF ReplayGrant
<1>. QED
  BY <1>1, <1>2, ExecuteGrantFree DEF Grant

LEMMA RevokeFree ==
  ASSUME TypeInv, TypeInv', LedgerInv, Shown, NEW r \in Revokes, Revoke(r)
  PROVE  Free
<1>. DEFINE src == r.source
            row == ledger[src]
            l1 == [ledger EXCEPT ![src] = Revocation(row, r.rev)]
            l2 == [ledger EXCEPT ![src] = Tombstone(r.tariff, r.rev)]
<1>1. src \in Sources /\ src \in Ids /\ r.rev \in Nat
  BY OperationsAssumption DEF Ids
<1>2. /\ ledger \in [Ids -> Row] /\ clock' = clock /\ edits' = edits /\ account.blocked \in BOOLEAN
      /\ clock \in Nat
  BY DEF TypeInv, TypeOK, Revoke
<1>3. ASSUME row.state \in {"absent", "tombstone"}, UNCHANGED client,
             \A s \in Ids \ {src} : ledger'[s] = ledger[s], ledger'[src].state = "tombstone"
      PROVE  Free
  <2>1. \A s \in Live(ledger)' : s \in Live(ledger) /\ ledger'[s].until = ledger[s].until
    BY <1>2, <1>3 DEF Live, Counted, Ahead
  <2>2. UsageIsKept
    BY <1>1, <1>3, UsageUntouched DEF Ids
  <2>. QED
    BY <1>2, <1>3, <2>1, <2>2, QuietGivesNothing DEF Free
<1>4. CASE row.state = "absent" /\ ledger' = l2 /\ UNCHANGED client
  <2>1. Tombstone(r.tariff, r.rev).state = "tombstone"
    BY DEF Tombstone, Absent
  <2>. QED
    BY <1>1, <1>2, <1>3, <1>4, <2>1
<1>5. /\ \A s \in Ids \ {src} : l1[s] = ledger[s]
      /\ l1 \in [Ids -> Row] /\ l1[src].used = row.used /\ l1[src].until = row.until
      /\ l1[src].state = IF row.state = "tombstone" THEN "tombstone" ELSE "revoked"
  <2>1. ASSUME NEW q \in Row
        PROVE  /\ Revocation(q, r.rev) \in Row /\ Revocation(q, r.rev).used = q.used /\ Revocation(q, r.rev).until = q.until
               /\ Revocation(q, r.rev).state = IF q.state = "tombstone" THEN "tombstone" ELSE "revoked"
    BY <1>1, <2>1 DEF Revocation, Row
  <2>. QED
    BY <1>1, <1>2, <2>1
<1>6. CASE row.state = "tombstone" /\ ledger' = l1 /\ UNCHANGED client
  BY <1>3, <1>5, <1>6
<1>7. CASE /\ row.state \notin {"absent", "tombstone"}
           /\ WriteBoth(Refreshed(client, SaveUsage(client, l1), older, account.blocked, FALSE))
  <2>1. client.row # "none"
    BY <1>1, <1>7 DEF LedgerInv, LegacyInv
  <2>2. /\ \A s \in Sources : l1[s].used = ledger[s].used
        /\ \A s \in Ids : l1[s].until = ledger[s].until /\ (l1[s].state = "live" => ledger[s].state = "live")
    <3>. HIDE DEF l1
    <3>. QED
      BY <1>1, <1>5 DEF Ids
  <2>. HIDE DEF l1
  <2>. QED
    BY <1>2, <1>5, <1>7, <2>1, <2>2, RefreshFree
<1>. QED
  BY <1>4, <1>6, <1>7 DEF Revoke

(* A block, or the limits job, or traffic, writes what was there. *)
LEMMA ApplyAccountFree ==
  ASSUME TypeInv, TypeInv', LedgerInv, Shown, NEW n \in Accounts, ApplyAccount(n)
  PROVE  Free
<1>1. /\ client \in ClientRow /\ ledger \in [Ids -> Row] /\ clock' = clock /\ clock \in Nat /\ edits' = edits
      /\ Blocks(n) \in BOOLEAN
  BY DEF TypeInv, TypeOK, ApplyAccount, Blocks
<1>2. CASE client.row = "none"
  BY <1>1, <1>2, StillFree DEF ApplyAccount
<1>3. CASE client.row = "managed"
  <2>1. WriteBoth(Refreshed(client, SaveUsage(client, ledger), older, Blocks(n), FALSE))
    BY <1>3 DEF ApplyAccount
  <2>. QED
    BY <1>1, <1>3, <2>1, RefreshFree
<1>4. CASE client.row = "legacy"
  <2>1. PICK on, manual : /\ ledger' = ledger
                          /\ \/ client' = [client EXCEPT !.enable = FALSE, !.manual = manual]
                             \/ client' = [client EXCEPT !.enable = on]
    <3>1. CASE Blocks(n)
      BY <1>4, <3>1 DEF ApplyAccount, Write
    <3>2. CASE ~Blocks(n)
      BY <1>4, <3>2 DEF ApplyAccount, Write
    <3>. QED
      BY <3>1, <3>2
  <2>2. /\ client'.row = client.row /\ client'.until = client.until
        /\ client'.active = client.active /\ client'.used = client.used
    BY <1>1, <2>1 DEF ClientRow
  <2>3. \A s \in Live(ledger)' : s \in Live(ledger) /\ ledger'[s].until = ledger[s].until
    BY <1>1, <2>1 DEF Live, Counted, Ahead
  <2>4. UsageIsKept
    BY <2>1, <2>2, UsageUntouched
  <2>. QED
    BY <1>1, <2>2, <2>3, <2>4, QuietGivesNothing DEF Free
<1>. QED
  BY <1>1, <1>2, <1>3, <1>4 DEF ClientRow

LEMMA RevokeTariffFree ==
  ASSUME TypeInv, TypeInv', LedgerInv, Shown, NEW r \in TariffRevokes, RevokeTariff(r)
  PROVE  Free
<1>. DEFINE saved == SaveUsage(client, ledger)
            l1 == [s \in Ids |->
                     IF TariffRevoked(r, s) THEN Revocation(saved[s], TariffRevision(r, s))
                     ELSE IF s \in DOMAIN r.sources /\ ledger[s].state = "absent" THEN Tombstone(r.tariff, r.sources[s])
                     ELSE saved[s]]
            concerned == \E s \in Ids : ledger[s].state \notin {"absent", "tombstone"} /\ ledger[s].tariff = r.tariff
            off == [client EXCEPT !.enable = FALSE, !.until = clock - 1]
<1>1. /\ client \in ClientRow /\ ledger \in [Ids -> Row] /\ older \in [Ids -> SUBSET Ids] /\ Ordered(older)
      /\ account.blocked \in BOOLEAN /\ clock \in Nat /\ clock >= 2 /\ client' \in ClientRow
      /\ ledger' \in [Ids -> Row]
      /\ clock' = clock /\ edits' = edits
  BY DEF TypeInv, TypeOK, RevokeTariff
<1>2. CASE r \in receipts
  <2>1. UNCHANGED <<ledger, client>>
    BY <1>2 DEF RevokeTariff
  <2>. QED
    BY <1>1, <2>1, StillFree
<1>3. CASE r \notin receipts
  <2>1. /\ IF client.row = "legacy" /\ client.tariff = r.tariff THEN Write(l1, off)
           ELSE IF concerned THEN WriteBoth(Refreshed(client, l1, older, account.blocked, FALSE))
           ELSE Write(l1, client)
        /\ receipts' = receipts \cup {r}
    BY <1>3 DEF RevokeTariff
  <2>2. saved \in [Ids -> Row] /\ SameBut(ledger, saved)
    BY <1>1, SavedType
  <2>. HIDE DEF saved
  <2>3. ASSUME NEW s \in Ids, l1[s].state = "live"
        PROVE  ledger[s].state = "live" /\ l1[s].until = ledger[s].until
    <3>1. saved[s].state = ledger[s].state /\ saved[s].until = ledger[s].until /\ saved[s] \in Row
      BY <2>2 DEF SameBut
    <3>2. Revocation(saved[s], TariffRevision(r, s)).state # "live"
      BY <3>1 DEF Revocation, Row
    <3>3. Tombstone(r.tariff, r.sources[s]).state # "live"
      BY DEF Tombstone, Absent
    <3>. QED
      BY <2>3, <3>1, <3>2, <3>3
  <2>. HIDE DEF l1
  <2>4. \A s \in Live(l1) : s \in Live(ledger) /\ l1[s].until = ledger[s].until
    BY <2>3 DEF Live, Counted
  <2>5. UsageIsKept
    BY <1>3, <2>1 DEF UsageIsKept
  <2>6. ASSUME Write(l1, client) PROVE Shown' /\ TimeIsGiven
    <3>1. ledger' = l1 /\ client' = client
      BY <2>6 DEF Write
    <3>2. \A s \in Live(ledger)' : s \in Live(ledger) /\ ledger'[s].until = ledger[s].until
      BY <1>1, <2>4, <3>1 DEF Live, Counted, Ahead
    <3>. QED
      BY <1>1, <3>1, <3>2, QuietGivesNothing
  <2>7. ASSUME Write(l1, off), client.row = "legacy" PROVE Shown' /\ TimeIsGiven
    <3>1. ledger' = l1 /\ client' = off
      BY <2>7 DEF Write
    <3>2. off.until = clock - 1
      BY <1>1 DEF ClientRow
    <3>. HIDE DEF off
    <3>3. Live(ledger)' = {}
      <4>1. \A s \in Ids : ledger[s].state # "live"
        BY <2>7 DEF LedgerInv, LegacyInv
      <4>. QED
        BY <2>3, <3>1, <4>1 DEF Live, Counted
    <3>4. Within(client'.until, AccessEnd)
      <4>1. AccessEnd \in Nat /\ (AccessEnd = Never \/ AccessEnd >= clock)
        BY AccessEndType
      <4>. QED
        BY <1>1, <3>1, <3>2, <4>1 DEF Within, Never
    <3>. QED
      BY <1>1, <3>3, <3>4, NotExtended DEF Shown
  <2>8. ASSUME concerned, WriteBoth(Refreshed(client, l1, older, account.blocked, FALSE)) PROVE Shown' /\ TimeIsGiven
    <3>. DEFINE d == Refreshed(client, l1, older, account.blocked, FALSE)
    <3>0. FALSE \in BOOLEAN
      OBVIOUS
    <3>1. ledger' = d.ledger /\ client' = d.client
      BY <2>8 DEF WriteBoth, Write
    <3>2. client.row # "none"
      BY <2>8 DEF LedgerInv, LegacyInv
    <3>3. l1 \in [Ids -> Row]
      <4>1. \A s \in Ids : l1[s] \in Row
        <5>. SUFFICES ASSUME NEW s \in Ids PROVE l1[s] \in Row
          OBVIOUS
        <5>1. saved[s] \in Row /\ ledger[s] \in Row
          BY <1>1, <2>2
        <5>2. CASE TariffRevoked(r, s)
          <6>1. TariffRevision(r, s) \in Nat
            BY <5>1, OperationsAssumption DEF TariffRevision, Row
          <6>2. Revocation(saved[s], TariffRevision(r, s)) \in Row
            BY <5>1, <6>1 DEF Revocation, Row
          <6>. QED
            BY <5>2, <6>2 DEF l1
        <5>3. CASE ~TariffRevoked(r, s) /\ s \in DOMAIN r.sources /\ ledger[s].state = "absent"
          <6>1. r.tariff \in Tariffs /\ r.sources[s] \in Nat
            BY <5>3, OperationsAssumption
          <6>2. Tombstone(r.tariff, r.sources[s]) \in Row
            BY <6>1 DEF Tombstone, Absent, Row, Never
          <6>. QED
            BY <5>3, <6>2 DEF l1
        <5>. QED
          BY <5>1, <5>2, <5>3 DEF l1
      <4>. QED
        BY <4>1 DEF l1
    <3>4. d.client.row = client.row
      BY <1>1, <3>0, <3>3, RefreshedRow
    <3>. QED
      BY <1>1, <2>4, <3>0, <3>1, <3>2, <3>3, <3>4, RefreshGivesNothing
  <2>. QED
    BY <2>1, <2>5, <2>6, <2>7, <2>8 DEF Free
<1>. QED
  BY <1>2, <1>3

LEMMA ResetFree ==
  ASSUME TypeInv, TypeInv', LedgerInv, Shown, NEW r \in Resets, Reset(r)
  PROVE  Free
<1>. DEFINE src == r.source
            adopts == ledger[src].state = "absent" /\ client.row = "legacy" /\ client.tariff = r.tariff
            manual == client.manual \/ (~client.enable /\ client.why \notin {"quota", "expiry"})
            c0 == IF adopts THEN Adopted(client, src, manual) ELSE client
            l0 == IF adopts THEN [ledger EXCEPT ![src] = [AdoptedRow(client) EXCEPT !.rev = r.rev]] ELSE ledger
            l1 == [l0 EXCEPT ![src].used = 0]
            c1 == [c0 EXCEPT !.used = 0]
<1>1. src \in Sources /\ src \in Ids /\ r.rev \in Nat
  BY OperationsAssumption DEF Ids
<1>2. /\ client \in ClientRow /\ ledger \in [Ids -> Row] /\ older \in [Ids -> SUBSET Ids] /\ Ordered(older)
      /\ account.blocked \in BOOLEAN /\ clock \in Nat /\ clock >= 2 /\ client' \in ClientRow
      /\ ledger' \in [Ids -> Row] /\ clock' = clock /\ edits' = edits
      /\ AccessEnd \in Nat /\ (AccessEnd = Never \/ AccessEnd >= clock)
  BY AccessEndType DEF TypeInv, TypeOK, Reset
<1>3. CASE r \in receipts
  <2>1. UNCHANGED <<ledger, client>>
    BY <1>3 DEF Reset
  <2>. QED
    BY <1>2, <2>1, StillFree
<1>4. CASE r \notin receipts
  <2>1. /\ l0[src].state \in {"live", "disabled"}
        /\ older' = IF adopts THEN Stamped(older, src) ELSE older
        /\ IF c0.active = src
           THEN WriteBoth(Refreshed(c1, l1, older', account.blocked, FALSE))
           ELSE Write(l1, c0)
        /\ receipts' = receipts \cup {r}
    BY <1>4 DEF Reset
  <2>2. UsageIsKept
    BY <1>4, <2>1 DEF UsageIsKept
  <2>3. CASE edits # 0
    BY <1>2, <2>2, <2>3 DEF Free, Shown, TimeIsGiven
  <2>4. CASE edits = 0
    <3>1. /\ c0 \in ClientRow /\ (adopts => c0.active = src) /\ c0.until = client.until
          /\ client.row # "none" /\ c0.row # "none"
      <4>1. CASE adopts
        <5>1. manual \in BOOLEAN
          BY DEF ClientRow
        <5>2. c0 = [client EXCEPT !.row = "managed", !.active = src, !.manual = manual]
          BY <4>1 DEF Adopted
        <5>. HIDE DEF manual, c0
        <5>3. c0 \in ClientRow
          BY <1>1, <1>2, <5>1, <5>2 DEF ClientRow
        <5>4. c0.active = src /\ c0.until = client.until /\ c0.row = "managed"
          BY <1>2, <5>2 DEF ClientRow
        <5>. QED
          BY <4>1, <5>3, <5>4
      <4>2. CASE ~adopts
        BY <1>1, <1>2, <2>1, <4>2 DEF LedgerInv, LegacyInv
      <4>. QED
        BY <4>1, <4>2
    <3>2. l0 \in [Ids -> Row] /\ \A s \in Live(l0) : Within(l0[s].until, AccessEnd)
      <4>1. CASE adopts
        <5>. DEFINE row == [AdoptedRow(client) EXCEPT !.rev = r.rev]
        <5>1. row \in Row /\ row.until = client.until
          BY <1>1, <1>2 DEF AdoptedRow, Absent, Row, ClientRow
        <5>2. l0 = [ledger EXCEPT ![src] = row]
          BY <4>1
        <5>. HIDE DEF row, l0
        <5>3. \A s \in Ids : ledger[s].state # "live"
          BY <4>1 DEF LedgerInv, LegacyInv
        <5>4. l0 \in [Ids -> Row] /\ \A s \in Live(l0) : l0[s].until = client.until
          BY <1>1, <1>2, <5>1, <5>2, <5>3 DEF Live, Counted
        <5>5. AccessEnd = Later(client.until, clock) /\ client.until \in Nat
          BY <1>2, <4>1 DEF AccessEnd, ClientRow
        <5>6. Within(client.until, AccessEnd)
          BY <1>2, <5>5 DEF Within, Later, Never
        <5>. QED
          BY <5>4, <5>6
      <4>2. CASE ~adopts
        BY <1>2, <2>4, <4>2 DEF Shown
      <4>. QED
        BY <4>1, <4>2
    <3>3. older' \in [Ids -> SUBSET Ids] /\ Ordered(older')
      BY <1>1, <1>2, <2>1, StampedType
    <3>4. l1 \in [Ids -> Row] /\ SameBut(l0, l1)
      <4>. HIDE DEF l0
      <4>. QED
        BY <1>1, <3>2, UsageType
    <3>5. ~adopts => c0 = client /\ l0 = ledger
      OBVIOUS
    <3>. HIDE DEF adopts, c0, l0, l1
    <3>6. Live(l1) = Live(l0) /\ \A s \in Live(l1) : l1[s].until = l0[s].until
      BY <3>4, SameLive DEF SameBut, Live, Counted
    <3>7. CASE c0.active = src
      <4>0. c1 \in ClientRow /\ c1.row = c0.row
        BY <3>1 DEF ClientRow
      <4>1. PICK c \in ClientRow : c = c1 /\ c.row = c0.row
        BY <4>0
      <4>. HIDE DEF c1
      <4>2. PICK o \in [Ids -> SUBSET Ids] : o = older' /\ Ordered(o)
        BY <3>3
      <4>. DEFINE d == Refreshed(c, l1, o, account.blocked, FALSE)
      <4>7. FALSE \in BOOLEAN
        OBVIOUS
      <4>3. ledger' = d.ledger /\ client' = d.client
        BY <2>1, <3>7, <4>1, <4>2 DEF WriteBoth, Write
      <4>5. \A s \in Live(l1) : Within(l1[s].until, AccessEnd)
        BY <3>2, <3>6
      <4>6. Within(d.client.until, AccessEnd) /\ Shows(d.client.until, d.ledger)
        BY <1>2, <3>4, <4>1, <4>2, <4>5, <4>7, RefreshedWithin
      <4>8. Ordered(o) /\ clock \in Nat /\ clock >= 2 /\ account.blocked \in BOOLEAN /\ l1 \in [Ids -> Row]
        BY <1>2, <3>4, <4>2
      <4>9. d.client.row = c.row
        BY <4>7, <4>8, RefreshedRow
      <4>. HIDE DEF d
      <4>. QED
        BY <1>2, <2>2, <3>1, <4>1, <4>3, <4>6, <4>9, ShownAgain, NotExtended DEF Free
    <3>8. CASE c0.active # src
      <4>1. c0 = client /\ l0 = ledger /\ ledger' = l1 /\ client' = client
        BY <2>1, <3>1, <3>5, <3>8 DEF Write
      <4>2. \A s \in Live(ledger)' : s \in Live(ledger) /\ ledger'[s].until = ledger[s].until
        BY <1>2, <3>6, <4>1 DEF Live, Counted, Ahead
      <4>. QED
        BY <1>2, <2>2, <4>1, <4>2, QuietGivesNothing DEF Free
    <3>. QED
      BY <3>7, <3>8
  <2>. QED
    BY <2>3, <2>4
<1>. QED
  BY <1>3, <1>4

(* The limits job refreshes only for a source that expired. *)
LEMMA CheckLimitsFree ==
  ASSUME TypeInv, TypeInv', LedgerInv, Shown, CheckLimits
  PROVE  Free
<1>. DEFINE due == /\ client.row = "managed" /\ client.active \in Ids
                   /\ ~Ahead(ledger[client.active].until, clock)
            saved == SaveUsage(client, ledger)
            r == IF due THEN Refreshed(client, saved, older, account.blocked, FALSE)
                 ELSE [client |-> client, ledger |-> ledger]
            a == r.client
<1>1. /\ client \in ClientRow /\ ledger \in [Ids -> Row] /\ older \in [Ids -> SUBSET Ids] /\ Ordered(older)
      /\ TypeOK /\ clock \in Nat /\ clock >= 2 /\ account.blocked \in BOOLEAN /\ FALSE \in BOOLEAN
      /\ client' \in ClientRow /\ Monthly \in BOOLEAN
  BY OperationsAssumption DEF TypeInv, TypeOK
<1>2. PICK resetDay \in {FALSE, Monthly} : CheckLimitsOn(resetDay)
  BY DEF CheckLimits
<1>. DEFINE c0 == IF resetDay THEN FreshCycle(a, a.why = "quota") ELSE a
            expired == c0.until # Never /\ c0.until < clock
            why == IF expired THEN "expiry" ELSE "quota"
<1>3. /\ client.row # "none" /\ clock' = clock /\ edits' = edits
      /\ ledger' = r.ledger
      /\ client' = c0 \/ client' = [c0 EXCEPT !.enable = FALSE, !.why = why]
  BY <1>2 DEF CheckLimitsOn, Write
<1>4. saved \in [Ids -> Row] /\ SameBut(ledger, saved)
  BY <1>1, SavedType
<1>5. a \in ClientRow /\ a.row = client.row
  <2>1. CASE due
    <3>1. r = Refreshed(client, saved, older, account.blocked, FALSE)
      BY <2>1
    <3>. HIDE DEF saved, r
    <3>2. Refreshed(client, saved, older, account.blocked, FALSE).client.row = client.row
      BY <1>1, <1>4, RefreshedRow
    <3>3. Refreshed(client, saved, older, account.blocked, FALSE).client \in ClientRow
      BY <1>1, <1>4, RefreshedType
    <3>. QED
      BY <3>1, <3>2, <3>3
  <2>2. CASE ~due
    BY <1>1, <2>2
  <2>. QED
    BY <2>1, <2>2
<1>. HIDE DEF saved, r, a
<1>6. c0 \in ClientRow /\ c0.row = a.row /\ c0.until = a.until /\ (~resetDay => c0 = a)
  <2>1. CASE resetDay
    <3>. DEFINE wanted == a.why = "quota"
    <3>1. wanted \in BOOLEAN /\ c0 = FreshCycle(a, wanted)
      BY <2>1
    <3>. HIDE DEF wanted, c0
    <3>. QED
      BY <1>1, <1>5, <2>1, <3>1, FreshType
  <2>2. CASE ~resetDay
    BY <1>5, <2>2
  <2>. QED
    BY <2>1, <2>2
<1>. HIDE DEF c0, why
<1>7. /\ client'.row = c0.row /\ client'.until = c0.until
      /\ client'.used = c0.used /\ client'.active = c0.active
  BY <1>3, <1>6 DEF ClientRow
<1>8. CASE due
  <2>1. r = Refreshed(client, saved, older, account.blocked, FALSE)
    BY <1>8 DEF r
  <2>2. UsageIsKept
    BY <1>8 DEF UsageIsKept
  <2>3. \A s \in Live(saved) : s \in Live(ledger) /\ saved[s].until = ledger[s].until
    BY <1>4 DEF SameBut, Live, Counted
  <2>4. client'.until = r.client.until /\ client'.row # "none"
    BY <1>3, <1>5, <1>6, <1>7 DEF a
  <2>5. Shown' /\ TimeIsGiven
    BY <1>1, <1>3, <1>4, <2>1, <2>3, <2>4, RefreshGivesNothing
  <2>. QED
    BY <2>2, <2>5 DEF Free
<1>9. CASE ~due
  <2>1. a = client /\ ledger' = ledger
    BY <1>3, <1>9 DEF a, r
  <2>2. \A s \in Live(ledger)' : s \in Live(ledger) /\ ledger'[s].until = ledger[s].until
    BY <1>3, <2>1 DEF Live, Counted, Ahead
  <2>3. Shown' /\ TimeIsGiven
    BY <1>1, <1>3, <1>6, <1>7, <2>1, <2>2, QuietGivesNothing
  <2>4. UsageIsKept
    <3>1. CASE Monthly
      BY <3>1 DEF UsageIsKept
    <3>2. CASE ~Monthly
      BY <1>1, <1>2, <1>6, <1>7, <2>1, <3>2, UsageUntouched
    <3>. QED
      BY <3>1, <3>2
  <2>. QED
    BY <2>3, <2>4 DEF Free
<1>. QED
  BY <1>8, <1>9

(* Traffic is only added. *)
LEMMA UseFree ==
  ASSUME TypeInv, TypeInv', Shown, Use
  PROVE  Free
<1>1. /\ client \in ClientRow /\ clock \in Nat /\ clock' = clock /\ ledger' = ledger /\ edits' = edits
      /\ client' = [client EXCEPT !.used = client.used + 1]
  BY DEF TypeInv, TypeOK, Use
<1>2. /\ client'.row = client.row /\ client'.until = client.until /\ client'.active = client.active
      /\ client'.used = client.used + 1 /\ client.used \in Nat
  BY <1>1 DEF ClientRow
<1>3. \A s \in Live(ledger)' : s \in Live(ledger) /\ ledger'[s].until = ledger[s].until
  BY <1>1 DEF Live, Counted, Ahead
<1>4. ASSUME NEW s \in Sources PROVE ~(UsageOf(s)' < UsageOf(s))
  <2>1. ledger[s].used \in Nat
    BY DEF TypeInv, TypeOK, Row, Ids
  <2>. QED
    BY <1>1, <1>2, <2>1 DEF UsageOf
<1>. QED
  BY <1>1, <1>2, <1>3, <1>4, QuietGivesNothing DEF Free, UsageIsKept

(* Every step is free. *)
LEMMA FreeStep ==
  ASSUME TypeInv, TypeInv', LedgerInv, Shown, [Next]_vars
  PROVE  Free
<1>1. clock \in Nat /\ edits \in Nat
  BY DEF TypeInv, TypeOK
<1>2. CASE UNCHANGED vars
  BY <1>1, <1>2, StillFree DEF vars
<1>3. CASE Tick
  BY <1>1, <1>3, StillFree DEF Tick
<1>4. ASSUME edits' = edits + 1 PROVE Free
  BY <1>1, <1>4 DEF Free, Shown, TimeIsGiven, UsageIsKept
<1>5. ASSUME NEW on, NEW until, NEW limit, Edit(on, until, limit) PROVE Free
  BY <1>4, <1>5 DEF Edit
<1>6. ASSUME NEW reenable, ResetTraffic(reenable) PROVE Free
  BY <1>4, <1>6 DEF ResetTraffic
<1>. QED
  BY <1>2, <1>3, <1>5, <1>6, GrantFree, RevokeFree, RevokeTariffFree, ResetFree, ApplyAccountFree,
     CheckLimitsFree, UseFree DEF Next

(* Every live source is shown, as long as no admin of the node edited the  *)
(* client by hand.                                                         *)
THEOREM SourcesAreShown == Spec => []Shown
<1>1. Init => Shown
  BY DEF Init, Shown, Live, Counted, Absent
<1>2. (TypeInv /\ LedgerInv) /\ TypeInv' /\ Shown /\ [Next]_vars => Shown'
  BY FreeStep DEF Free
<1>. QED
  BY <1>1, <1>2, LedgerInvariant, PTL DEF Spec

(* No call, repeated or late, and no job gives time: access ends later     *)
(* only by a grant that was not carried out before, and by its period at   *)
(* most (provision, revoke_source, check_limits_and_reset).                *)
THEOREM TimeIsPaidFor == Spec => NoFreeTime
<1>1. (TypeInv /\ LedgerInv) /\ TypeInv' /\ Shown /\ [Next]_vars
      => [Extended /\ edits = 0 /\ edits' = 0 =>
            \E g \in (receipts' \ receipts) \cap Grants :
              g.period = 0 \/ client'.until <= AccessEnd + g.period]_<<client, receipts, edits>>
  BY FreeStep DEF Free, TimeIsGiven
<1>. QED
  BY <1>1, LedgerInvariant, SourcesAreShown, PTL DEF Spec, NoFreeTime

(* No call or job forgets what a source used, but where its cycle ends     *)
(* (refresh_client_entitlements, _save_usage).                             *)
THEOREM UsageIsRemembered == Spec => NoFreeReset
<1>1. (TypeInv /\ LedgerInv) /\ TypeInv' /\ Shown /\ [Next]_vars
      => [\A s \in Sources :
            /\ ledger[s].state = "live" /\ ledger'[s].state = "live"
            /\ UsageOf(s)' < UsageOf(s)
            => \/ receipts' # receipts \/ edits' # edits \/ Monthly
               \/ client.active \in Ids /\ ~Ahead(ledger[client.active].until, clock)]_<<client, ledger>>
  BY FreeStep DEF Free, UsageIsKept
<1>. QED
  BY <1>1, LedgerInvariant, SourcesAreShown, PTL DEF Spec, NoFreeReset
-----------------------------------------------------------------------------
(* The node's contract with the master                                     *)

(* A step of the contract, or none.                                        *)
ContractStep == Contract!Next \/ UNCHANGED <<Held, account>>

(* What is held depends on the state and the revision of a source only.    *)
LEMMA HeldSame ==
  ASSUME \A s \in Sources : ledger'[s].state = ledger[s].state /\ ledger'[s].rev = ledger[s].rev
  PROVE  Held' = Held
  BY DEF Held

(* One source as the contract has it. *)
LEMMA HeldOf ==
  ASSUME NEW s \in Sources
  PROVE  /\ Held[s] = [state |-> HeldState(ledger[s].state), rev |-> ledger[s].rev]
         /\ Held[s].state = HeldState(ledger[s].state) /\ Held[s].rev = ledger[s].rev
  BY DEF Held

LEMMA HeldRow ==
  ASSUME TypeInv, NEW s \in Sources
  PROVE  /\ s \in Ids /\ s # Manual /\ s # Legacy /\ ledger[s] \in Row /\ ledger[s].rev \in Nat
         /\ (Contract!Unknown(s) <=> ledger[s].state = "absent")
         /\ (Held[s].state = "given" <=> ledger[s].state \in {"live", "disabled"})
<1>1. s \in Ids /\ s # Manual /\ s # Legacy
  BY IdsAssumption DEF Ids
<1>2. ledger[s] \in Row
  BY <1>1 DEF TypeInv, TypeOK
<1>3. ledger[s].rev \in Nat /\ ledger[s].state \in {"absent", "live", "disabled", "revoked", "tombstone"}
  BY <1>2 DEF Row
<1>4. /\ (HeldState(ledger[s].state) = "none" <=> ledger[s].state = "absent")
      /\ (HeldState(ledger[s].state) = "given" <=> ledger[s].state \in {"live", "disabled"})
  BY <1>3 DEF HeldState
<1>5. Contract!Unknown(s) <=> Held[s].state = "none"
  BY DEF Contract!Unknown
<1>. QED
  BY <1>1, <1>2, <1>3, <1>4, <1>5, HeldOf

(* One source is given, at the revision of a call.                         *)
LEMMA HeldPut ==
  ASSUME TypeInv, NEW s \in Sources, ledger'[s].state = "live",
         \A t \in Sources \ {s} : ledger'[t].state = ledger[t].state /\ ledger'[t].rev = ledger[t].rev
  PROVE  Held' = [Held EXCEPT ![s] = Contract!Given(ledger'[s].rev)]
<1>1. Held'[s] = Contract!Given(ledger'[s].rev)
  BY DEF Held, HeldState, Contract!Given
<1>2. \A t \in Sources \ {s} : Held'[t] = Held[t]
  BY DEF Held
<1>. QED
  BY <1>1, <1>2 DEF Held

(* Some are withdrawn, at revisions of calls that are not late.            *)
LEMMA HeldCut ==
  ASSUME TypeInv, NEW S \in SUBSET Sources,
         \A s \in S : /\ ledger'[s].state \in {"revoked", "tombstone"} /\ ledger'[s].rev \in Revisions
                      /\ ledger[s].state = "absent" \/ ledger[s].rev <= ledger'[s].rev,
         \A s \in Sources \ S : ledger'[s].state = ledger[s].state /\ ledger'[s].rev = ledger[s].rev,
         account' = account
  PROVE  ContractStep
<1>1. \A s \in S : Held'[s] = Contract!Withdrawn(ledger'[s].rev)
  BY DEF Held, HeldState, Contract!Withdrawn
<1>2. ASSUME NEW s \in S
      PROVE  \E n \in Revisions : (Contract!Unknown(s) \/ Held[s].rev <= n) /\ Held'[s] = Contract!Withdrawn(n)
  <2>1. s \in Sources
    OBVIOUS
  <2>2. Contract!Unknown(s) \/ Held[s].rev <= ledger'[s].rev
    BY <2>1, HeldOf, HeldRow
  <2>. QED
    BY <1>1, <2>2
<1>3. \A s \in Sources \ S : Held'[s] = Held[s]
  BY DEF Held
<1>4. Held' = [s \in Sources |-> IF s \in S THEN Held'[s] ELSE Held[s]]
  BY <1>3 DEF Held
<1>5. Contract!Withdraw(S)
  BY <1>2, <1>4, Zenon DEF Contract!Withdraw
<1>. QED
  BY <1>5 DEF ContractStep, Contract!Next

(* Revisions are those of calls.                                           *)
LEMMA RevisionsOf ==
  /\ \A o \in Grants \cup Revokes \cup Resets : o.rev \in Revisions
  /\ \A r \in TariffRevokes : \A s \in DOMAIN r.sources : r.sources[s] \in Revisions
  BY DEF Revisions

(* A refresh changes nothing of what is held.                              *)
LEMMA RefreshRows ==
  ASSUME TypeInv, NEW c \in ClientRow, NEW l \in [Ids -> Row], NEW o \in [Ids -> SUBSET Ids], Ordered(o),
         NEW blocked \in BOOLEAN, NEW reset \in BOOLEAN, WriteBoth(Refreshed(c, l, o, blocked, reset))
  PROVE  SameBut(l, ledger')
<1>1. clock \in Nat /\ clock >= 2
  BY DEF TypeInv, TypeOK
<1>2. ledger' = Refreshed(c, l, o, blocked, reset).ledger
  BY DEF WriteBoth, Write
<1>. QED
  BY <1>1, <1>2, RefreshedType

(* Nor does one for which the usage was saved. *)
LEMMA SavedRefreshRows ==
  ASSUME TypeInv, NEW blocked \in BOOLEAN,
         ledger' = Refreshed(client, SaveUsage(client, ledger), older, blocked, FALSE).ledger
  PROVE  SameBut(ledger, ledger')
<1>. DEFINE l == SaveUsage(client, ledger)
<1>1. /\ client \in ClientRow /\ ledger \in [Ids -> Row] /\ older \in [Ids -> SUBSET Ids] /\ Ordered(older)
      /\ clock \in Nat /\ clock >= 2
  BY DEF TypeInv, TypeOK
<1>2. l \in [Ids -> Row] /\ SameBut(ledger, l)
  BY <1>1, SavedType
<1>3. ledger' = Refreshed(client, l, older, blocked, FALSE).ledger /\ FALSE \in BOOLEAN
  OBVIOUS
<1>. HIDE DEF l
<1>4. SameBut(l, Refreshed(client, l, older, blocked, FALSE).ledger)
  BY <1>1, <1>2, <1>3, RefreshedType
<1>5. SameBut(l, ledger')
  BY <1>3, <1>4, Zenon
<1>. QED
  BY <1>2, <1>5 DEF SameBut

LEMMA QuietContract ==
  ASSUME TypeInv, SameBut(ledger, ledger'), account' = account
  PROVE  ContractStep
<1>1. Held' = Held
  BY HeldSame, HeldRow DEF SameBut
<1>. QED
  BY <1>1 DEF ContractStep

(* A grant gives its source at its revision, or is answered again.         *)
LEMMA GrantContract ==
  ASSUME TypeInv, LedgerInv, NEW g \in Grants, NEW a \in {0} \cup Accounts, Grant(g, a)
  PROVE  ContractStep
<1>1. g.source \in Sources /\ g.rev \in Nat /\ g.rev \in Revisions
  BY OperationsAssumption, RevisionsOf
<1>2. Contract!Told
  BY DEF Grant, AccountLets, Contract!Told
<1>3. CASE ReplayGrant(g)
  <2>1. ledger' = ledger /\ ledger[g.source].state \in {"live", "disabled"}
    BY <1>3 DEF ReplayGrant
  <2>2. Held' = Held
    BY <2>1, HeldSame
  <2>3. Contract!GiveAgain(g.source)
    BY <1>1, <1>2, <2>1, <2>2, HeldRow DEF Contract!GiveAgain
  <2>. QED
    BY <1>1, <2>3 DEF ContractStep, Contract!Next
<1>4. CASE ExecuteGrant(g)
  <2>1. clock' = clock /\ ~account'.blocked
    <3>1. ~account.blocked /\ account \in [rev : Nat, blocked : BOOLEAN] /\ account' = [account EXCEPT !.rev = a]
      BY DEF TypeInv, TypeOK, Grant, AccountLets
    <3>2. account'.blocked = account.blocked
      BY <3>1
    <3>. QED
      BY <3>1, <3>2 DEF Grant
  <2>2. /\ ledger'[g.source].state = "live" /\ ledger'[g.source].rev = g.rev
        /\ \A s \in Sources \ {g.source} : ledger'[s].state = ledger[s].state /\ ledger'[s].rev = ledger[s].rev
    BY <1>4, <2>1, ExecuteGrantStep
  <2>3. Held' = [Held EXCEPT ![g.source] = Contract!Given(g.rev)]
    BY <1>1, <2>2, HeldPut
  <2>4. Contract!Unknown(g.source) \/ Held[g.source].rev < g.rev
    <3>1. ledger[g.source].state = "absent" \/ ~(ledger[g.source].rev >= g.rev)
      BY <1>4 DEF ExecuteGrant, Superseded
    <3>2. ledger[g.source].state = "absent" \/ ledger[g.source].rev < g.rev
      BY <1>1, <3>1, HeldRow
    <3>. QED
      BY <1>1, <3>2, HeldOf, HeldRow
  <2>5. Contract!Give(g.source, g.rev)
    BY <1>2, <2>3, <2>4 DEF Contract!Give
  <2>. QED
    BY <1>1, <2>5 DEF ContractStep, Contract!Next
<1>. QED
  BY <1>3, <1>4 DEF Grant

(* The revocation of a source withdraws it. *)
LEMMA RevokeContract ==
  ASSUME TypeInv, LedgerInv, NEW r \in Revokes, Revoke(r)
  PROVE  ContractStep
<1>. DEFINE src == r.source
            row == ledger[src]
            cut == Revocation(row, r.rev)
            l1 == [ledger EXCEPT ![src] = cut]
            stone == Tombstone(r.tariff, r.rev)
<1>1. /\ src \in Sources /\ src \in Ids /\ r.rev \in Nat /\ r.tariff \in Tariffs /\ r.rev \in Revisions
  BY OperationsAssumption, RevisionsOf DEF Ids
<1>2. /\ client \in ClientRow /\ ledger \in [Ids -> Row] /\ older \in [Ids -> SUBSET Ids] /\ Ordered(older)
      /\ account.blocked \in BOOLEAN /\ row \in Row /\ account' = account
  BY <1>1 DEF TypeInv, TypeOK, Revoke
<1>3. cut \in Row /\ cut.state \in {"revoked", "tombstone"} /\ cut.rev = r.rev
  BY <1>1, <1>2 DEF Revocation, Row
<1>4. stone.state = "tombstone" /\ stone.rev = r.rev
  BY DEF Tombstone, Absent
<1>5. \/ row.state = "absent" /\ ledger' = [ledger EXCEPT ![src] = stone]
      \/ row.rev <= r.rev /\ ledger' = l1
      \/ row.rev <= r.rev /\ WriteBoth(Refreshed(client, SaveUsage(client, l1), older, account.blocked, FALSE))
  BY DEF Revoke
<1>. HIDE DEF cut, stone
<1>6. ASSUME ledger'[src].state \in {"revoked", "tombstone"}, ledger'[src].rev = r.rev,
             row.state = "absent" \/ row.rev <= r.rev,
             \A s \in Sources \ {src} : ledger'[s].state = ledger[s].state /\ ledger'[s].rev = ledger[s].rev
      PROVE  ContractStep
  <2>1. {src} \in SUBSET Sources
    BY <1>1
  <2>. QED
    BY <1>1, <1>2, <1>6, <2>1, HeldCut
<1>7. ASSUME row.state = "absent", ledger' = [ledger EXCEPT ![src] = stone] PROVE ContractStep
  BY <1>1, <1>2, <1>4, <1>6, <1>7 DEF Ids
<1>8. l1 \in [Ids -> Row] /\ l1[src] = cut /\ \A s \in Sources \ {src} : l1[s] = ledger[s]
  BY <1>1, <1>2, <1>3 DEF Ids
<1>. HIDE DEF l1
<1>9. ASSUME row.rev <= r.rev, SameBut(l1, ledger') PROVE ContractStep
  BY <1>1, <1>3, <1>6, <1>8, <1>9 DEF SameBut, Ids
<1>10. ASSUME row.rev <= r.rev, ledger' = l1 PROVE ContractStep
  BY <1>9, <1>10 DEF SameBut
<1>11. ASSUME row.rev <= r.rev, WriteBoth(Refreshed(client, SaveUsage(client, l1), older, account.blocked, FALSE))
       PROVE  ContractStep
  <2>. DEFINE l2 == SaveUsage(client, l1)
  <2>1. l2 \in [Ids -> Row] /\ SameBut(l1, l2)
    BY <1>2, <1>8, SavedType
  <2>. HIDE DEF l2
  <2>2. SameBut(l2, ledger')
    <3>1. WriteBoth(Refreshed(client, l2, older, account.blocked, FALSE)) /\ FALSE \in BOOLEAN
      BY <1>11 DEF l2
    <3>. QED
      BY <1>2, <2>1, <3>1, RefreshRows
  <2>3. SameBut(l1, ledger')
    BY <2>1, <2>2 DEF SameBut
  <2>. QED
    BY <1>9, <1>11, <2>3
<1>. QED
  BY <1>5, <1>7, <1>10, <1>11

(* The revocation of a tariff withdraws its sources, or is answered again. *)
LEMMA RevokeTariffContract ==
  ASSUME TypeInv, LedgerInv, NEW r \in TariffRevokes, RevokeTariff(r)
  PROVE  ContractStep
<1>. DEFINE saved == SaveUsage(client, ledger)
            l1 == [s \in Ids |->
                     IF TariffRevoked(r, s) THEN Revocation(saved[s], TariffRevision(r, s))
                     ELSE IF s \in DOMAIN r.sources /\ ledger[s].state = "absent" THEN Tombstone(r.tariff, r.sources[s])
                     ELSE saved[s]]
            S == {s \in DOMAIN r.sources : TariffRevoked(r, s) \/ ledger[s].state = "absent"}
<1>1. /\ r.tariff \in Tariffs /\ DOMAIN r.sources \subseteq Sources
      /\ \A s \in DOMAIN r.sources : r.sources[s] \in Nat /\ r.sources[s] \in Revisions
  BY OperationsAssumption, RevisionsOf
<1>2. /\ client \in ClientRow /\ ledger \in [Ids -> Row] /\ older \in [Ids -> SUBSET Ids] /\ Ordered(older)
      /\ account.blocked \in BOOLEAN /\ account' = account
  BY DEF TypeInv, TypeOK, RevokeTariff
<1>3. \/ ledger' = ledger
      \/ ledger' = l1
      \/ WriteBoth(Refreshed(client, l1, older, account.blocked, FALSE))
  BY DEF RevokeTariff, Write
<1>4. saved \in [Ids -> Row] /\ SameBut(ledger, saved)
  BY <1>2, SavedType
<1>. HIDE DEF saved
<1>5. ASSUME NEW row \in Row, NEW rev \in Nat
      PROVE  /\ Revocation(row, rev) \in Row /\ Revocation(row, rev).rev = rev
             /\ Revocation(row, rev).state \in {"revoked", "tombstone"}
             /\ Tombstone(r.tariff, rev) \in Row /\ Tombstone(r.tariff, rev).rev = rev
             /\ Tombstone(r.tariff, rev).state = "tombstone"
  BY <1>1 DEF Revocation, Tombstone, Absent, Row, Never
<1>6. ASSUME NEW s \in Ids
      PROVE  /\ l1[s] \in Row
             /\ s \in S => /\ l1[s].state \in {"revoked", "tombstone"} /\ l1[s].rev = r.sources[s]
                           /\ ledger[s].state = "absent" \/ ledger[s].rev <= l1[s].rev
             /\ s \in Sources \ S => l1[s].state = ledger[s].state /\ l1[s].rev = ledger[s].rev
  <2>1. /\ ledger[s] \in Row /\ saved[s] \in Row /\ ledger[s].rev \in Nat
        /\ saved[s].state = ledger[s].state /\ saved[s].rev = ledger[s].rev
    BY <1>2, <1>4 DEF SameBut, Row
  <2>2. CASE TariffRevoked(r, s)
    <3>. DEFINE rev == TariffRevision(r, s)
    <3>1. /\ rev \in Nat /\ ledger[s].rev <= rev
          /\ s \in DOMAIN r.sources => rev = r.sources[s]
          /\ s \in Sources => s \in S
          /\ s \in S => s \in DOMAIN r.sources
      BY <1>1, <2>1, <2>2, IdsAssumption DEF TariffRevoked, TariffRevision
    <3>2. l1[s] = Revocation(saved[s], rev)
      BY <2>2
    <3>. HIDE DEF rev, l1
    <3>3. /\ Revocation(saved[s], rev) \in Row /\ Revocation(saved[s], rev).rev = rev
          /\ Revocation(saved[s], rev).state \in {"revoked", "tombstone"}
      BY <1>5, <2>1, <3>1
    <3>4. l1[s] \in Row /\ l1[s].rev = rev /\ l1[s].state \in {"revoked", "tombstone"}
      BY <3>2, <3>3
    <3>. HIDE DEF S
    <3>. QED
      BY <3>1, <3>4
  <2>3. CASE ~TariffRevoked(r, s) /\ s \in DOMAIN r.sources /\ ledger[s].state = "absent"
    <3>1. l1[s] = Tombstone(r.tariff, r.sources[s])
      BY <2>3
    <3>. HIDE DEF l1
    <3>2. l1[s] \in Row /\ l1[s].rev = r.sources[s] /\ l1[s].state = "tombstone"
      BY <1>1, <1>5, <2>1, <2>3, <3>1
    <3>. QED
      BY <2>3, <3>2
  <2>4. CASE ~TariffRevoked(r, s) /\ ~(s \in DOMAIN r.sources /\ ledger[s].state = "absent")
    <3>1. l1[s] = saved[s] /\ s \notin S
      BY <2>4
    <3>. HIDE DEF l1
    <3>. QED
      BY <2>1, <3>1
  <2>. QED
    BY <2>2, <2>3, <2>4
<1>7. l1 \in [Ids -> Row]
  BY <1>6
<1>. HIDE DEF l1
<1>8. ASSUME SameBut(l1, ledger') PROVE ContractStep
  <2>1. S \in SUBSET Sources
    BY <1>1
  <2>2. ASSUME NEW s \in S
        PROVE  /\ ledger'[s].state \in {"revoked", "tombstone"} /\ ledger'[s].rev \in Revisions
               /\ ledger[s].state = "absent" \/ ledger[s].rev <= ledger'[s].rev
    <3>1. s \in Ids /\ r.sources[s] \in Revisions
      BY <1>1 DEF Ids
    <3>. QED
      BY <1>6, <1>8, <3>1 DEF SameBut
  <2>3. ASSUME NEW s \in Sources \ S
        PROVE  ledger'[s].state = ledger[s].state /\ ledger'[s].rev = ledger[s].rev
    <3>1. s \in Ids
      BY DEF Ids
    <3>. QED
      BY <1>6, <1>8, <3>1 DEF SameBut
  <2>. HIDE DEF S
  <2>. QED
    BY <1>2, <2>1, <2>2, <2>3, HeldCut
<1>9. CASE ledger' = ledger
  BY <1>2, <1>9, QuietContract DEF SameBut
<1>10. CASE ledger' = l1
  BY <1>8, <1>10 DEF SameBut
<1>11. CASE WriteBoth(Refreshed(client, l1, older, account.blocked, FALSE))
  <2>1. FALSE \in BOOLEAN
    OBVIOUS
  <2>2. SameBut(l1, ledger')
    BY <1>2, <1>7, <1>11, <2>1, RefreshRows
  <2>. QED
    BY <1>8, <2>2
<1>. QED
  BY <1>3, <1>9, <1>10, <1>11

(* The reset of a cycle gives and withdraws nothing, except that a legacy  *)
(* client may become the client of its source.                             *)
LEMMA ResetContract ==
  ASSUME TypeInv, LedgerInv, NEW r \in Resets, Reset(r)
  PROVE  ContractStep
<1>. DEFINE src == r.source
            adopts == ledger[src].state = "absent" /\ client.row = "legacy" /\ client.tariff = r.tariff
            manual == client.manual \/ (~client.enable /\ client.why \notin {"quota", "expiry"})
            c0 == IF adopts THEN Adopted(client, src, manual) ELSE client
            row == [AdoptedRow(client) EXCEPT !.rev = r.rev]
            l0 == IF adopts THEN [ledger EXCEPT ![src] = row] ELSE ledger
            l1 == [l0 EXCEPT ![src].used = 0]
            c1 == [c0 EXCEPT !.used = 0]
            o == older'
<1>1. /\ src \in Sources /\ src \in Ids /\ r.rev \in Nat /\ r.rev \in Revisions
  BY OperationsAssumption, RevisionsOf DEF Ids
<1>2. /\ client \in ClientRow /\ ledger \in [Ids -> Row] /\ older \in [Ids -> SUBSET Ids] /\ Ordered(older)
      /\ account.blocked \in BOOLEAN /\ account' = account
  BY DEF TypeInv, TypeOK, Reset
<1>3. \/ ledger' = ledger
      \/ /\ o = IF adopts THEN Stamped(older, src) ELSE older
         /\ \/ WriteBoth(Refreshed(c1, l1, o, account.blocked, FALSE))
            \/ ledger' = l1
  BY DEF Reset, Write
<1>4. c1 \in ClientRow
  <2>1. c0 \in ClientRow
    <3>1. manual \in BOOLEAN
      BY DEF ClientRow
    <3>. HIDE DEF manual
    <3>. QED
      BY <1>1, <1>2, <3>1 DEF Adopted, ClientRow
  <2>. HIDE DEF c0
  <2>. QED
    BY <2>1 DEF ClientRow
<1>5. row \in Row /\ row.state = "live" /\ row.rev = r.rev
  BY <1>1, <1>2 DEF AdoptedRow, Absent, Row, ClientRow
<1>. HIDE DEF row
<1>6. l0 \in [Ids -> Row] /\ \A s \in Sources \ {src} : l0[s] = ledger[s]
  BY <1>1, <1>2, <1>5 DEF Ids
<1>7. adopts => l0[src] = row /\ ledger[src].state = "absent"
  BY <1>1, <1>2
<1>8. ~adopts => l0 = ledger
  OBVIOUS
<1>. HIDE DEF l0, c0
<1>9. l1 \in [Ids -> Row] /\ SameBut(l0, l1)
  BY <1>1, <1>6, UsageType
<1>. HIDE DEF l1, c1
<1>10. ASSUME SameBut(l1, ledger') PROVE ContractStep
  <2>1. SameBut(l0, ledger')
    BY <1>9, <1>10 DEF SameBut
  <2>2. CASE adopts
    <3>1. ledger'[src].state = "live" /\ ledger'[src].rev = r.rev
      BY <1>1, <1>5, <1>7, <2>1, <2>2 DEF SameBut
    <3>2. \A s \in Sources \ {src} : ledger'[s].state = ledger[s].state /\ ledger'[s].rev = ledger[s].rev
      BY <1>6, <2>1 DEF SameBut, Ids
    <3>3. Held' = [Held EXCEPT ![src] = Contract!Given(r.rev)]
      BY <1>1, <3>1, <3>2, HeldPut
    <3>4. Contract!Unknown(src)
      BY <1>1, <1>7, <2>2, HeldRow
    <3>5. Contract!TakeOver(src, r.rev)
      BY <1>2, <3>3, <3>4 DEF Contract!TakeOver
    <3>. QED
      BY <1>1, <3>5 DEF ContractStep, Contract!Next
  <2>3. CASE ~adopts
    BY <1>2, <1>8, <2>1, <2>3, QuietContract
  <2>. QED
    BY <2>2, <2>3
<1>11. CASE ledger' = ledger
  BY <1>2, <1>11, QuietContract DEF SameBut
<1>12. CASE /\ o = IF adopts THEN Stamped(older, src) ELSE older
            /\ WriteBoth(Refreshed(c1, l1, o, account.blocked, FALSE))
  <2>1. o \in [Ids -> SUBSET Ids] /\ Ordered(o)
    <3>. HIDE DEF adopts
    <3>. QED
      BY <1>1, <1>2, <1>12, StampedType
  <2>2. FALSE \in BOOLEAN /\ WriteBoth(Refreshed(c1, l1, o, account.blocked, FALSE))
    BY <1>12
  <2>. HIDE DEF o
  <2>3. SameBut(l1, ledger')
    BY <1>2, <1>4, <1>9, <2>1, <2>2, RefreshRows
  <2>. QED
    BY <1>10, <2>3
<1>13. CASE ledger' = l1
  BY <1>10, <1>13 DEF SameBut
<1>. QED
  BY <1>3, <1>11, <1>12, <1>13

(* A decision on the user is one of the contract, and changes no source.   *)
LEMMA ApplyAccountContract ==
  ASSUME TypeInv, LedgerInv, NEW n \in Accounts, ApplyAccount(n)
  PROVE  ContractStep
<1>1. n \in Nat /\ Blocks(n) \in BOOLEAN /\ account \in [rev : Nat, blocked : BOOLEAN]
  BY OperationsAssumption DEF Blocks, TypeInv, TypeOK
<1>2. AccountIsNew(n) /\ account' = [rev |-> n, blocked |-> Blocks(n)]
  BY DEF ApplyAccount
<1>3. SameBut(ledger, ledger')
  <2>1. client \in ClientRow
    BY DEF TypeInv, TypeOK
  <2>2. \/ ledger' = ledger
        \/ ledger' = Refreshed(client, SaveUsage(client, ledger), older, Blocks(n), FALSE).ledger
    BY <2>1 DEF ApplyAccount, WriteBoth, Write, ClientRow
  <2>3. CASE ledger' = ledger
    BY <2>3 DEF SameBut
  <2>4. CASE ledger' = Refreshed(client, SaveUsage(client, ledger), older, Blocks(n), FALSE).ledger
    BY <1>1, <2>4, SavedRefreshRows
  <2>. QED
    BY <2>2, <2>3, <2>4
<1>4. Held' = Held
  BY <1>3, HeldSame, HeldRow DEF SameBut
<1>. HIDE DEF Blocks
<1>5. CASE n > account.rev
  BY <1>1, <1>2, <1>4, <1>5 DEF ContractStep, Contract!Next, Contract!Decide
<1>6. CASE n = account.rev /\ account.blocked = Blocks(n)
  <2>1. account' = account
    BY <1>1, <1>2, <1>6
  <2>. QED
    BY <1>4, <2>1 DEF ContractStep
<1>. QED
  BY <1>2, <1>5, <1>6 DEF AccountIsNew

(* What the node does by itself, and its administrators, no source of the  *)
(* master's sees.                                                          *)
LEMMA NodeContractStep ==
  ASSUME TypeInv, LedgerInv,
         \/ CheckLimits \/ Use \/ Tick \/ \E reenable \in BOOLEAN : ResetTraffic(reenable)
         \/ \E on \in BOOLEAN, until \in Nat, limit \in Nat : Edit(on, until, limit)
  PROVE  ContractStep
<1>1. client \in ClientRow /\ ledger \in [Ids -> Row] /\ account.blocked \in BOOLEAN
  BY DEF TypeInv, TypeOK
<1>2. CASE Use \/ Tick \/ \E reenable \in BOOLEAN : ResetTraffic(reenable)
  <2>1. ledger' = ledger /\ account' = account
    BY <1>2 DEF Use, Tick, ResetTraffic, Write
  <2>. QED
    BY <2>1, QuietContract DEF SameBut
<1>3. CASE CheckLimits
  <2>1. account' = account
    BY <1>3 DEF CheckLimits, CheckLimitsOn
  <2>2. \/ ledger' = ledger
        \/ ledger' = Refreshed(client, SaveUsage(client, ledger), older, account.blocked, FALSE).ledger
    BY <1>3 DEF CheckLimits, CheckLimitsOn, Write
  <2>3. CASE ledger' = ledger
    BY <2>1, <2>3, QuietContract DEF SameBut
  <2>4. CASE ledger' = Refreshed(client, SaveUsage(client, ledger), older, account.blocked, FALSE).ledger
    BY <1>1, <2>1, <2>4, SavedRefreshRows, QuietContract
  <2>. QED
    BY <2>2, <2>3, <2>4
<1>4. ASSUME NEW on \in BOOLEAN, NEW until \in Nat, NEW limit \in Nat, Edit(on, until, limit)
      PROVE  ContractStep
  <2>. DEFINE c == [client EXCEPT !.enable = on, !.until = until, !.limit = limit,
                          !.manual = IF on # client.enable THEN ~on ELSE client.manual,
                          !.why = IF ~(on # client.enable) THEN client.why ELSE IF on THEN "" ELSE "manual"]
              l == SaveUsage(c, ledger)
  <2>1. account' = account
    BY <1>4 DEF Edit
  <2>2. \/ ledger' = ledger
        \/ ledger' = [l EXCEPT ![Manual] = Captured(c, l)]
    BY <1>4 DEF Edit, Write
  <2>3. c.used = client.used /\ c.used \in Nat
    BY <1>1 DEF ClientRow
  <2>. HIDE DEF c
  <2>4. l \in [Ids -> Row] /\ SameBut(ledger, l)
    BY <1>1, <2>3, UsageType DEF SaveUsage, SameBut
  <2>. HIDE DEF l
  <2>5. \A s \in Sources : ledger'[s].state = ledger[s].state /\ ledger'[s].rev = ledger[s].rev
    BY <2>2, <2>4, HeldRow DEF SameBut
  <2>. QED
    BY <2>1, <2>5, HeldSame DEF ContractStep
<1>. QED
  BY <1>2, <1>3, <1>4

(* Every step of a node is one of its contract with the master, or none.   *)
LEMMA LedgerContractStep ==
  ASSUME TypeInv, LedgerInv, [Next]_vars
  PROVE  ContractStep
<1>1. ASSUME NEW g \in Grants, NEW a \in {0} \cup Accounts, ~Blocks(a), Grant(g, a) PROVE ContractStep
  BY <1>1, GrantContract
<1>2. ASSUME NEW r \in Revokes, Revoke(r) PROVE ContractStep
  BY <1>2, RevokeContract
<1>3. ASSUME NEW r \in TariffRevokes, RevokeTariff(r) PROVE ContractStep
  BY <1>3, RevokeTariffContract
<1>4. ASSUME NEW r \in Resets, Reset(r) PROVE ContractStep
  BY <1>4, ResetContract
<1>5. ASSUME NEW n \in Accounts, ApplyAccount(n) PROVE ContractStep
  BY <1>5, ApplyAccountContract
<1>6. ASSUME NEW on \in BOOLEAN, NEW until \in {Never, clock - 1, clock + 1, client.until},
             NEW limit \in {client.limit, MaxLimit}, Edit(on, until, limit)
      PROVE  ContractStep
  <2>1. clock \in Nat /\ clock >= 2 /\ client.until \in Nat /\ client.limit \in Nat
    BY DEF TypeInv, TypeOK, ClientRow
  <2>2. until \in Nat /\ limit \in Nat
    BY <2>1, LedgerBoundsAssumption DEF Never
  <2>. QED
    BY <1>6, <2>2, NodeContractStep
<1>7. ASSUME CheckLimits \/ Use \/ Tick \/ \E reenable \in BOOLEAN : ResetTraffic(reenable) PROVE ContractStep
  BY <1>7, NodeContractStep
<1>8. CASE UNCHANGED vars
  BY <1>8, QuietContract DEF vars, SameBut
<1>. QED
  BY <1>1, <1>2, <1>3, <1>4, <1>5, <1>6, <1>7, <1>8 DEF Next

(* Whatever calls come, in any order and any number of times, and whatever *)
(* the node does besides, the master finds its contract with the node kept *)
(* (entitlements.py).                                                      *)
THEOREM KeepsTheContract == Spec => KeepsContract
<1>1. Init => Contract!Init
  <2>1. \A s \in Sources : s \in Ids
    BY DEF Ids
  <2>2. HeldState("absent") = "none"
    BY DEF HeldState
  <2>. QED
    BY <2>1, <2>2 DEF Init, Held, Absent, Contract!Init
<1>2. TypeInv /\ LedgerInv /\ [Next]_vars => [Contract!Next]_(Contract!cvars)
  BY LedgerContractStep DEF ContractStep, Contract!cvars
<1>. QED
  BY <1>1, <1>2, LedgerInvariant, PTL DEF Spec, KeepsContract, Contract!Spec

=============================================================================
