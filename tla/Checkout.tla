------------------------------ MODULE Checkout ------------------------------
(***************************************************************************)
(* How one user comes to a payable invoice for one tariff, and to the free *)
(* trial.                                                                  *)
(*                                                                         *)
(* The bot sends at most one request of a user at a time, as long as it    *)
(* remembers that one is under way (start_checkout); the backend goes on   *)
(* with a request the bot has forgotten.  create_checkout looks for an     *)
(* earlier invoice to hand out again, or inserts a payment row with an     *)
(* idempotency key; resume_checkout, which the poller runs too, asks the   *)
(* payment provider for the invoice of a row, twice at most, and binds the *)
(* answer to the row.  A call that is not answered in time may still be    *)
(* executed, at once or later.  The provider remembers a key for a day:    *)
(* after 23 h 55 min a row is set aside for review.  A notification of the *)
(* provider can bind a row as well.                                        *)
(*                                                                         *)
(* Every query of the code is by user and tariff, so one pair is enough;   *)
(* what happens once the invoice is paid is the matter of Payment.         *)
(***************************************************************************)
EXTENDS Naturals, FiniteSets, Sequences, SequencesExt

CONSTANTS
  Rows,        \* payment rows of the user for the tariff: a bound on their number
  Requests,    \* requests of the bot that the backend may be serving
  Buyers,      \* those among them that may be for an invoice
  Poller,      \* the polling job
  Trials,      \* tariffs the administrator offers as the trial, one at a time
  NoTrial,
  MaxEdits,    \* bound on the changes an administrator makes
  Overlap      \* whether the bot may forget a request that has not inserted its row

ASSUME CheckoutAssumption ==
  /\ Rows \subseteq Nat \ {0} /\ IsFiniteSet(Rows) /\ Rows # {}
  /\ Poller \notin Requests /\ Buyers \subseteq Requests
  /\ NoTrial \notin Trials
  /\ MaxEdits \in Nat
  /\ Overlap \in BOOLEAN

VARIABLES
  row,         \* the table of payments
  invoices,    \* the invoices the provider made for the key of a row
  late,        \* rows with an unanswered call the provider may still execute
  caller,      \* who is working on a row
  shown,       \* the invoice whose link the user has for a row, 0 without one
  tariff,      \* the tariff as it is offered
  user,        \* what the user already has
  trial,       \* the user's trial
  wish,        \* whether the user buys or tries: the two share no state
  edits

vars == <<row, invoices, late, caller, shown, tariff, user, trial, wish, edits>>

Callers == Requests \cup {Poller}

Payment == [status : {"none", "creating", "ready", "review"},
            key : {"new", "live", "old", "forgotten"},
            bound : 0 .. 2,
            provider : {"pending", "settled"},
            closed : BOOLEAN]

Call == [pc : {"idle", "insert", "resume", "call", "bind", "claim trial", "run trial"},
         row : Rows \cup {0}, attempt : 1 .. 2, answer : 0 .. 2,
         trial : Trials \cup {NoTrial}, awaited : BOOLEAN]

Trial == [offer : Trials \cup {NoTrial}, claim : Trials \cup {NoTrial},
          operations : SUBSET Trials, used : BOOLEAN]

Idle == [pc |-> "idle", row |-> 0, attempt |-> 1, answer |-> 0, trial |-> NoTrial,
         awaited |-> FALSE]

NoRow == [status |-> "none", key |-> "new", bound |-> 0, provider |-> "pending",
          closed |-> FALSE]

Init ==
  /\ row = [r \in Rows |-> NoRow]
  /\ invoices = [r \in Rows |-> <<>>]
  /\ late = {}
  /\ caller = [c \in Callers |-> Idle]
  /\ shown = [r \in Rows |-> 0]
  /\ tariff = "public"
  /\ user = "plain"
  /\ wish \in {"buy", "try"}
  /\ \E t \in IF wish = "try" THEN Trials \cup {NoTrial} ELSE {NoTrial} :
       trial = [offer |-> t, claim |-> NoTrial, operations |-> {}, used |-> FALSE]
  /\ edits = 0

-----------------------------------------------------------------------------
(* The catalogue.                                                          *)

(* has_open_ended_access: access without an end needs no purchase.         *)
OpenEnded == user = "open_ended"

(* eligible_tariff_access: the user was given access to a private tariff.  *)
Eligible == user = "granted"

(* is_deliverable: a tariff whose items are gone, or lie on a panel that   *)
(* is disabled, is not sold.                                               *)
Deliverable == tariff # "undeliverable"

(* _ensure_tariff_available.                                               *)
Available ==
  /\ user # "blocked" /\ ~OpenEnded
  /\ tariff \notin {"archived", "gone"}
  /\ tariff = "private" => Eligible
  /\ Deliverable

(* _validate_tariff_payload refuses a tariff without items, and one with   *)
(* an item on a panel that cannot serve it.                                *)
Sellable == {"public", "private"}

(* create_tariff and update_tariff; one tariff at most is the trial, and   *)
(* that one is not sold.                                                   *)
UpdateTariff(to) ==
  /\ tariff \notin {to, "gone"}
  /\ tariff' = to
  /\ UNCHANGED <<user, trial>>

OfferTrial(t) ==
  /\ wish = "try" /\ t # trial.offer
  /\ trial' = [trial EXCEPT !.offer = t]
  /\ UNCHANGED <<user, tariff>>

Archive ==
  /\ tariff \notin {"archived", "gone"}
  /\ tariff' = "archived"
  /\ UNCHANGED <<user, trial>>

(* restore_tariff makes it public whatever it was before.                  *)
Restore ==
  /\ tariff = "archived"
  /\ tariff' = "public"
  /\ UNCHANGED <<user, trial>>

(* delete_tariff_permanent refuses one with payments or holders.           *)
Delete ==
  /\ tariff # "gone"
  /\ \A r \in Rows : row[r].status = "none"
  /\ user \notin {"granted", "open_ended"}
  /\ tariff' = "gone"
  /\ UNCHANGED <<user, trial>>

(* purge_tariff_items: a deleted inbound or panel takes the items with it  *)
(* and disables the tariff they leave empty.                               *)
PurgeItems ==
  /\ tariff \in {"public", "private"}
  /\ tariff' = "undeliverable"
  /\ UNCHANGED <<user, trial>>

(* The account is blocked or unblocked, access granted or withdrawn.       *)
ChangeUser(to) ==
  /\ user # to
  /\ user' = to
  /\ UNCHANGED <<tariff, trial>>

Administer ==
  /\ edits < MaxEdits
  /\ edits' = edits + 1
  /\ \/ \E to \in Sellable : UpdateTariff(to)
     \/ \E t \in Trials \cup {NoTrial} : OfferTrial(t)
     \/ Archive
     \/ Restore
     \/ Delete
     \/ PurgeItems
     \/ \E to \in {"plain", "granted", "open_ended", "blocked"} : ChangeUser(to)
  /\ UNCHANGED <<row, invoices, late, caller, shown, wish>>

-----------------------------------------------------------------------------
(* A request for an invoice.                                               *)

Goto(c, pc) == caller' = [caller EXCEPT ![c].pc = pc]

(* The request, or the run of the job, is over.                            *)
End(c) == caller' = [caller EXCEPT ![c] = Idle]

(* The bot restarts, or gives up on the answer after 25 s: it forgets the  *)
(* request, which the backend goes on with.                                *)
BotForgets(c) ==
  /\ caller[c].awaited
  /\ Overlap \/ caller[c].pc # "insert"
  /\ caller' = [caller EXCEPT ![c].awaited = FALSE]
  /\ UNCHANGED <<row, invoices, late, shown, tariff, user, trial, wish, edits>>

(* Mutant: a row that has no invoice yet is not looked for.                *)
ReusableInvoices ==
  {r \in Rows : row[r].status = "ready" /\ row[r].provider = "pending" /\ ~row[r].closed}

(* The rows create_checkout hands out again: one that is being created, or *)
(* an invoice that is neither settled nor closed by the user.              *)
Reusable ==
  {r \in Rows : \/ row[r].status = "creating"
                \/ /\ row[r].status = "ready"
                   /\ row[r].provider = "pending"
                   /\ ~row[r].closed}

InReview == {r \in Rows : row[r].status = "review"}

Least(S) == CHOOSE r \in S : \A s \in S : r <= s

(* 23 h 55 min after the first call the key is not used any more.          *)
KeyIsOld(r) == row[r].key \in {"old", "forgotten"}

(* _finish_checkout: the bot shows the link of the answer, if it still     *)
(* waits for it.                                                           *)
HandOut(c, r, i, waits) ==
  /\ shown' = IF waits THEN [shown EXCEPT ![r] = i] ELSE shown
  /\ End(c)

(* Mutant: a key is drawn for every call, so the provider knows none.      *)
ResumedWithNewKey(c, r, waits) ==
  \/ /\ row[r].status = "ready"
     /\ HandOut(c, r, row[r].bound, waits)
     /\ UNCHANGED row
  \/ /\ row[r].status # "ready"
     /\ row' = [row EXCEPT ![r].key = "forgotten"]
     /\ caller' = [caller EXCEPT ![c].pc = "call", ![c].row = r, ![c].awaited = waits]
     /\ UNCHANGED shown

(* resume_checkout: an invoice is handed out as it is; a row with an old   *)
(* key is set aside; otherwise the time of the first call is noted, once,  *)
(* and the provider is called.                                             *)
Resumed(c, r, waits) ==
  \/ /\ row[r].status = "ready"
     /\ HandOut(c, r, row[r].bound, waits)
     /\ UNCHANGED row
  \/ /\ row[r].status # "ready" /\ KeyIsOld(r)
     /\ row' = [row EXCEPT ![r].status = "review"]
     /\ End(c) /\ UNCHANGED shown
  \/ /\ row[r].status # "ready" /\ ~KeyIsOld(r)
     /\ row' = [row EXCEPT ![r].key = "live"]
     /\ caller' = [caller EXCEPT ![c].pc = "call", ![c].row = r, ![c].awaited = waits]
     /\ UNCHANGED shown

(* start_checkout: while the bot remembers a request of this user, the     *)
(* button does nothing.  Then create_checkout up to the insertion.         *)
NotWaiting == \A c \in Requests : ~caller[c].awaited

Begin(c) ==
  /\ c \in Buyers /\ wish = "buy"
  /\ caller[c].pc = "idle"
  /\ NotWaiting /\ Available
  /\ \/ /\ Reusable # {}
        /\ Resumed(c, Least(Reusable), TRUE)
     \/ /\ Reusable = {} /\ InReview = {}
        /\ caller' = [caller EXCEPT ![c].pc = "insert", ![c].awaited = TRUE]
        /\ UNCHANGED <<row, shown>>
  /\ UNCHANGED <<invoices, late, tariff, user, trial, wish, edits>>

(* The row with its key and the frozen request is committed; a tariff that *)
(* is gone by now makes the insertion fail.                                *)
Insert(c) ==
  /\ caller[c].pc = "insert"
  /\ LET free == {r \in Rows : row[r].status = "none"} IN
     IF tariff = "gone" \/ free = {}
       THEN End(c) /\ UNCHANGED row
       ELSE /\ row' = [row EXCEPT ![Least(free)].status = "creating"]
            /\ caller' = [caller EXCEPT ![c].pc = "resume", ![c].row = Least(free)]
  /\ UNCHANGED <<invoices, late, shown, tariff, user, trial, wish, edits>>

(* The new row is resumed like any other.                                  *)
ResumeNew(c) ==
  /\ caller[c].pc = "resume"
  /\ Resumed(c, caller[c].row, caller[c].awaited)
  /\ UNCHANGED <<invoices, late, tariff, user, trial, wish, edits>>

(* The provider answers a key it remembers with the invoice it has for it  *)
(* and makes a new one otherwise.                                          *)
Remembered(r) == invoices[r] # <<>> /\ row[r].key # "forgotten"

Executed(r) == IF Remembered(r) THEN invoices
               ELSE [invoices EXCEPT ![r] = Append(@, "open")]

(* yookassa.Payment.create is answered.                                    *)
Answered(c) ==
  /\ caller[c].pc = "call"
  /\ invoices' = Executed(caller[c].row)
  /\ caller' = [caller EXCEPT ![c].pc = "bind", ![c].attempt = 1,
                              ![c].answer = Len(Executed(caller[c].row)[caller[c].row])]
  /\ UNCHANGED <<row, late, shown, tariff, user, trial, wish, edits>>

(* The call is not answered within 8 s, or fails: it was executed, it was  *)
(* not, or it will be, which matters if it is the first that is.  A first  *)
(* call that timed out is made once more.                                  *)
Unanswered(c) ==
  /\ caller[c].pc = "call"
  /\ \/ invoices' = Executed(caller[c].row) /\ UNCHANGED late
     \/ UNCHANGED <<invoices, late>>
     \/ /\ ~Remembered(caller[c].row)
        /\ late' = late \cup {caller[c].row} /\ UNCHANGED invoices
  /\ \/ /\ caller[c].attempt = 1
        /\ caller' = [caller EXCEPT ![c].attempt = 2]
     \/ End(c)
  /\ UNCHANGED <<row, shown, tariff, user, trial, wish, edits>>

(* A call nobody waits for reaches the provider.                           *)
LateCall(r) ==
  /\ r \in late
  /\ late' = late \ {r}
  /\ invoices' = Executed(r)
  /\ UNCHANGED <<row, caller, shown, tariff, user, trial, wish, edits>>

(* _validate_remote: a bound row keeps its invoice.                        *)
Fits(r, i) == row[r].bound \in {0, i}

(* Mutant: the row is ready before its invoice is stored.                  *)
BoundLater(r, i) == [row[r] EXCEPT !.bound = IF @ = i THEN i ELSE 0, !.status = "ready"]

(* _bind_remote.                                                           *)
Bound(r, i) == [row[r] EXCEPT !.bound = i, !.status = "ready"]

Bind(c) ==
  /\ caller[c].pc = "bind"
  /\ LET r == caller[c].row IN
     IF Fits(r, caller[c].answer)
       THEN /\ row' = [row EXCEPT ![r] = Bound(r, caller[c].answer)]
            /\ HandOut(c, r, caller[c].answer, caller[c].awaited)
       ELSE End(c) /\ UNCHANGED <<row, shown>>
  /\ UNCHANGED <<invoices, late, tariff, user, trial, wish, edits>>

(* The process that serves a request, or the job, dies.                    *)
Crash(c) ==
  /\ caller[c].pc # "idle"
  /\ End(c)
  /\ UNCHANGED <<row, invoices, late, shown, tariff, user, trial, wish, edits>>

-----------------------------------------------------------------------------
(* The provider, the poller and the user.                                  *)

(* Mutant: a row whose first call was made is left to the request.         *)
StartFirstPoll(r) ==
  /\ caller[Poller].pc = "idle"
  /\ row[r].status = "creating" /\ row[r].key = "new"
  /\ Resumed(Poller, r, FALSE)
  /\ UNCHANGED <<invoices, late, tariff, user, trial, wish, edits>>

(* _poll_batch resumes a row that has no invoice yet.                      *)
StartPoll(r) ==
  /\ caller[Poller].pc = "idle"
  /\ row[r].status = "creating"
  /\ Resumed(Poller, r, FALSE)
  /\ UNCHANGED <<invoices, late, tariff, user, trial, wish, edits>>

(* _poll_batch reads the state of a bound invoice that is not settled.     *)
PollStatus(r) ==
  /\ row[r].status = "ready" /\ row[r].provider = "pending"
  /\ invoices[r][row[r].bound] # "open"
  /\ row' = [row EXCEPT ![r].provider = "settled"]
  /\ UNCHANGED <<invoices, late, caller, shown, tariff, user, trial, wish, edits>>

(* resolve_remote_payment: a notification finds the row by its invoice, or *)
(* binds the row its metadata names if that has none, in review or not.    *)
Webhook(r, i) ==
  /\ i <= Len(invoices[r]) /\ invoices[r][i] # "open"
  /\ row[r].bound \in {0, i}
  /\ row' = [row EXCEPT ![r] = [Bound(r, i) EXCEPT !.provider = "settled"]]
  /\ UNCHANGED <<invoices, late, caller, shown, tariff, user, trial, wish, edits>>

(* The user pays an invoice whose link he has, or the provider cancels one *)
(* nobody paid: which of the two does not matter here.                     *)
Settle(r, i) ==
  /\ i <= Len(invoices[r]) /\ invoices[r][i] = "open"
  /\ invoices' = [invoices EXCEPT ![r][i] = "settled"]
  /\ UNCHANGED <<row, late, caller, shown, tariff, user, trial, wish, edits>>

(* cancel_payment_for_bot: the user closes an invoice he was shown, as far *)
(* as the panel knows unpaid; the link still works.                        *)
Close(r) ==
  /\ shown[r] # 0
  /\ row[r].provider = "pending" /\ ~row[r].closed
  /\ row' = [row EXCEPT ![r].closed = TRUE]
  /\ UNCHANGED <<invoices, late, caller, shown, tariff, user, trial, wish, edits>>

(* 23 h 55 min pass since the first call, then the rest of the day; no     *)
(* call of at most 16 s is that long under way.                            *)
Age(r) ==
  /\ row[r].status # "ready"
  /\ \/ /\ row[r].key = "live"
        /\ row' = [row EXCEPT ![r].key = "old"]
     \/ /\ row[r].key = "old"
        /\ r \notin late
        /\ \A c \in Callers : ~(caller[c].pc = "call" /\ caller[c].row = r)
        /\ row' = [row EXCEPT ![r].key = "forgotten"]
  /\ UNCHANGED <<invoices, late, caller, shown, tariff, user, trial, wish, edits>>

-----------------------------------------------------------------------------
(* The trial.                                                              *)

(* activate_trial up to the claim: a trial that was claimed before is      *)
(* continued whatever is offered now.                                      *)
AskTrial(c) ==
  /\ c \in Requests /\ wish = "try"
  /\ caller[c].pc = "idle"
  /\ user # "blocked" /\ ~trial.used
  /\ \/ /\ trial.claim # NoTrial
        /\ Goto(c, "run trial")
     \/ /\ trial.claim = NoTrial /\ ~OpenEnded /\ trial.offer # NoTrial
        /\ caller' = [caller EXCEPT ![c].pc = "claim trial", ![c].trial = trial.offer]
  /\ UNCHANGED <<row, invoices, late, shown, tariff, user, trial, wish, edits>>

(* Mutant: only a trial that was completed stands in the way of another.   *)
TrialUnused == ~trial.used

(* The conditional update of the user and the operation it names are one   *)
(* commit; whoever comes second changes nothing.                           *)
TrialFree == trial.claim = NoTrial /\ ~trial.used

ClaimTrial(c) ==
  /\ caller[c].pc = "claim trial"
  /\ IF TrialFree
       THEN /\ trial' = [trial EXCEPT !.claim = caller[c].trial,
                                      !.operations = @ \cup {caller[c].trial}]
            /\ Goto(c, "run trial")
       ELSE End(c) /\ UNCHANGED trial
  /\ UNCHANGED <<row, invoices, late, shown, tariff, user, wish, edits>>

(* The operation succeeds and uses the trial up, or is left to a retry.    *)
RunTrial(c) ==
  /\ caller[c].pc = "run trial"
  /\ \/ user # "blocked" /\ trial' = [trial EXCEPT !.used = TRUE]
     \/ UNCHANGED trial
  /\ End(c)
  /\ UNCHANGED <<row, invoices, late, shown, tariff, user, wish, edits>>

-----------------------------------------------------------------------------

Next ==
  \/ Administer
  \/ \E c \in Callers :
       \/ BotForgets(c) \/ Begin(c) \/ Insert(c) \/ ResumeNew(c)
       \/ Answered(c) \/ Unanswered(c) \/ Bind(c) \/ Crash(c)
       \/ AskTrial(c) \/ ClaimTrial(c) \/ RunTrial(c)
  \/ \E r \in Rows :
       \/ LateCall(r) \/ StartPoll(r) \/ PollStatus(r) \/ Close(r) \/ Age(r)
       \/ \E i \in 1 .. 2 : Webhook(r, i) \/ Settle(r, i)

(* The poller takes every row that has no invoice; time passes.            *)
Fairness ==
  \A r \in Rows :
    /\ SF_vars(StartPoll(r))
    /\ WF_vars(Age(r))

PollerEnds == WF_vars(\/ Answered(Poller) \/ Unanswered(Poller) \/ Bind(Poller))

Spec == Init /\ [][Next]_vars /\ Fairness /\ PollerEnds

-----------------------------------------------------------------------------
(* Properties.                                                             *)

(* The variables have their types; a provider makes two invoices for one   *)
(* row at most, which is enough to see that it made more than one.         *)
TypeOK ==
  /\ row \in [Rows -> Payment]
  /\ \A r \in Rows : invoices[r] \in Seq({"open", "settled"})
  /\ late \subseteq Rows
  /\ shown \in [Rows -> 0 .. 2]
  /\ caller \in [Callers -> Call]
  /\ trial \in Trial

(* However often a row is resumed, by whomever, and whatever becomes of    *)
(* the calls, the provider makes one invoice for it: the user cannot pay   *)
(* twice for one row (resume_checkout with its key and its day).           *)
OneInvoice == \A r \in Rows : Len(invoices[r]) <= 1

(* A link the user has is of the invoice the row is bound to, whose state  *)
(* the poller reads (_bind_remote before _checkout_result).                *)
ShownIsBound == \A r \in Rows : shown[r] # 0 => row[r].bound = shown[r]

(* Pressing the button again, after a restart of the bot or during a call  *)
(* to the provider, brings back the open invoice: the user never has two   *)
(* rows on the way to an invoice, or unsettled, that he did not close      *)
(* himself, and none besides one in review (create_checkout's look-up).    *)
OneOpenInvoice ==
  /\ Cardinality(Reusable) <= 1
  /\ \A r \in Reusable : ~\E s \in InReview : s < r

(* Every row that was begun comes to an invoice or to a review, even if    *)
(* nobody asks for it again and the provider never answers.                *)
CheckoutSettles == []<>(\A r \in Rows : row[r].status # "creating")

(* Two activations at once, a change of the trial tariff between them or a *)
(* crash never give a user a second trial (activate_trial).                *)
TrialOnce ==
  /\ trial.operations = {trial.claim} \ {NoTrial}
  /\ trial.used => trial.claim # NoTrial

=============================================================================
