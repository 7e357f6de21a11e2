--------------------------- MODULE CheckoutProofs ---------------------------
(***************************************************************************)
(* What is proved of Checkout, for any rows, requests, trials and bounds,  *)
(* and whether or not the bot may forget a request at any moment.          *)
(*                                                                         *)
(* That a row has one invoice rests on its key.  Whoever calls the         *)
(* provider does so with a key of the day (CallsWithKey), and so does a    *)
(* call that is still on its way, so the invoice a row already has is      *)
(* found again.  With at most one invoice the numbers of invoices are as   *)
(* small as their types say, so the types are proved along with it.        *)
(***************************************************************************)
EXTENDS Checkout, FiniteSetTheorems, SequenceTheorems, WellFoundedInduction, TLAPS

Live(r) == row[r].key \in {"live", "old"}

(* A caller that works on a row has one, and a call that may still be      *)
(* executed carries a key the provider does not forget meanwhile.          *)
OnARow == \A c \in Callers : caller[c].pc \in {"resume", "call", "bind"} => caller[c].row \in Rows
CallsWithKey ==
  /\ \A c \in Callers : caller[c].pc = "call" => Live(caller[c].row)
  /\ \A r \in late : Live(r)

Inv ==
  /\ TypeOK
  /\ invoices \in [Rows -> Seq({"open", "settled"})]
  /\ OneInvoice
  /\ OnARow
  /\ CallsWithKey

-----------------------------------------------------------------------------

LEMMA LeastIn ==
  ASSUME NEW S, S \subseteq Rows, S # {}
  PROVE  Least(S) \in S
<1>. DEFINE R == {p \in Nat \X Nat : p[1] < p[2]}
<1>1. IsWellFoundedOn(R, Nat)
  BY NatLessThanWellFounded DEF OpToRel, R
<1>2. S \subseteq Nat
  BY CheckoutAssumption
<1>3. PICK r \in S : \A s \in S : <<s, r>> \notin R
  <2>. HIDE DEF R
  <2>. QED  BY <1>1, <1>2, WFMin
<1>4. ASSUME NEW s \in S PROVE r <= s
  <2>1. r \in Nat /\ s \in Nat
    BY <1>2, <1>3
  <2>2. ~ s < r
    BY <1>3, <1>4, <2>1 DEF R
  <2>. QED  BY <2>1, <2>2
<1>. QED
  BY <1>4 DEF Least

(* Who is about to claim a trial knows which, and who runs one, or has     *)
(* used one, has claimed it.                                               *)
TrialInv ==
  /\ \A c \in Callers : caller[c].pc = "claim trial" => caller[c].trial # NoTrial
  /\ \A c \in Callers : caller[c].pc = "run trial" => trial.claim # NoTrial
  /\ TrialOnce

-----------------------------------------------------------------------------
(* A caller on its way.                                                    *)

LEMMA Shapes ==
  /\ Idle \in Call /\ Idle.pc = "idle"
  /\ NoRow \in Payment
  /\ 0 \notin Rows
  BY CheckoutAssumption DEF Idle, Call, NoRow, Payment

(* Each way a caller goes on.                                              *)
LEMMA CallForms ==
  ASSUME NEW k \in Call
  PROVE  /\ \A b \in BOOLEAN : [k EXCEPT !.awaited = b] \in Call
         /\ \A b \in BOOLEAN : [k EXCEPT !.pc = "insert", !.awaited = b] \in Call
         /\ \A r \in Rows : [k EXCEPT !.pc = "resume", !.row = r] \in Call
         /\ \A r \in Rows, b \in BOOLEAN : [k EXCEPT !.pc = "call", !.row = r, !.awaited = b] \in Call
         /\ [k EXCEPT !.attempt = 2] \in Call
         /\ \A n \in 0 .. 2 : [k EXCEPT !.pc = "bind", !.attempt = 1, !.answer = n] \in Call
         /\ [k EXCEPT !.pc = "run trial"] \in Call
         /\ \A t \in Trials \cup {NoTrial} : [k EXCEPT !.pc = "claim trial", !.trial = t] \in Call
<1>1. /\ \A b \in BOOLEAN : [k EXCEPT !.awaited = b] \in Call
      /\ \A b \in BOOLEAN : [k EXCEPT !.pc = "insert", !.awaited = b] \in Call
  BY DEF Call
<1>2. \A r \in Rows : [k EXCEPT !.pc = "resume", !.row = r] \in Call
  BY DEF Call
<1>3. \A r \in Rows, b \in BOOLEAN : [k EXCEPT !.pc = "call", !.row = r, !.awaited = b] \in Call
  BY DEF Call
<1>4. \A a \in 1 .. 2 : [k EXCEPT !.attempt = a] \in Call
  BY DEF Call
<1>5. \A a \in 1 .. 2, n \in 0 .. 2 : [k EXCEPT !.pc = "bind", !.attempt = a, !.answer = n] \in Call
  BY DEF Call
<1>6. [k EXCEPT !.pc = "run trial"] \in Call
  BY DEF Call
<1>7. \A t \in Trials \cup {NoTrial} : [k EXCEPT !.pc = "claim trial", !.trial = t] \in Call
  BY DEF Call
<1>8. 1 \in 1 .. 2 /\ 2 \in 1 .. 2
  OBVIOUS
<1>. QED
  BY <1>1, <1>2, <1>3, <1>4, <1>5, <1>6, <1>7, <1>8

(* What resume_checkout does to a row and its caller.                      *)
LEMMA ResumedKeepsInv ==
  ASSUME Inv, NEW c \in Callers, NEW r \in Rows, NEW waits \in BOOLEAN,
         Resumed(c, r, waits),
         UNCHANGED <<invoices, late, tariff, user, trial, wish, edits>>
  PROVE  Inv'
<1>1. CASE row[r].status = "ready" /\ HandOut(c, r, row[r].bound, waits) /\ UNCHANGED row
  BY <1>1, Shapes DEF Inv, TypeOK, OneInvoice, OnARow, CallsWithKey, Live, HandOut, End, Payment
<1>2. CASE /\ row[r].status # "ready" /\ KeyIsOld(r)
           /\ row' = [row EXCEPT ![r].status = "review"]
           /\ End(c) /\ UNCHANGED shown
  <2>1. row' \in [Rows -> Payment] /\ \A q \in Rows : row'[q].key = row[q].key
    BY <1>2 DEF Inv, TypeOK, Payment
  <2>. QED
    BY <1>2, <2>1, Shapes DEF Inv, TypeOK, OneInvoice, OnARow, CallsWithKey, Live, End
<1>3. CASE /\ row[r].status # "ready" /\ ~KeyIsOld(r)
           /\ row' = [row EXCEPT ![r].key = "live"]
           /\ caller' = [caller EXCEPT ![c].pc = "call", ![c].row = r, ![c].awaited = waits]
           /\ UNCHANGED shown
  <2>1. /\ row' \in [Rows -> Payment]
        /\ row'[r].key = "live"
        /\ \A q \in Rows \ {r} : row'[q] = row[q]
    BY <1>3 DEF Inv, TypeOK, Payment
  <2>2. /\ caller' \in [Callers -> Call]
        /\ caller'[c].pc = "call" /\ caller'[c].row = r
        /\ \A d \in Callers \ {c} : caller'[d] = caller[d]
    <3>1. caller \in [Callers -> Call] /\ caller[c] \in Call
      BY DEF Inv, TypeOK
    <3>2. [caller[c] EXCEPT !.pc = "call", !.row = r, !.awaited = waits] \in Call
      BY <3>1 DEF Call
    <3>3. caller' = [caller EXCEPT ![c] = [caller[c] EXCEPT !.pc = "call", !.row = r, !.awaited = waits]]
      BY <1>3, <3>1
    <3>. QED
      BY <3>1, <3>2, <3>3 DEF Call
  <2>3. TypeOK' /\ OneInvoice' /\ invoices' \in [Rows -> Seq({"open", "settled"})]
    BY <1>3, <2>1, <2>2 DEF Inv, TypeOK, OneInvoice
  <2>4. OnARow'
    BY <2>2 DEF Inv, OnARow
  <2>5. \A q \in Rows : Live(q) => Live(q)'
    BY <2>1 DEF Live
  <2>6. CallsWithKey'
    <3>1. Live(r)'
      BY <2>1 DEF Live
    <3>2. \A d \in Callers : caller[d].pc = "call" => caller[d].row \in Rows
      BY DEF Inv, OnARow
    <3>3. late \subseteq Rows
      BY DEF Inv, TypeOK
    <3>. QED
      BY <2>2, <2>5, <3>1, <3>2, <3>3 DEF Inv, CallsWithKey
  <2>. QED
    BY <2>3, <2>4, <2>6 DEF Inv
<1>. QED
  BY <1>1, <1>2, <1>3 DEF Resumed

LEMMA AtMostOne ==
  ASSUME NEW n \in Nat, n <= 1
  PROVE  n \in 0 .. 1 /\ n \in 0 .. 2
  OBVIOUS

(* The provider finds the one invoice of a row, or makes it.               *)
LEMMA ExecutedOnce ==
  ASSUME Inv, NEW r \in Rows, Live(r)
  PROVE  /\ Executed(r) \in [Rows -> Seq({"open", "settled"})]
         /\ \A q \in Rows : Len(Executed(r)[q]) <= 1
         /\ Len(Executed(r)[r]) \in 0 .. 2
<1>1. ASSUME NEW q \in Rows
      PROVE  /\ invoices[q] \in Seq({"open", "settled"})
             /\ Len(invoices[q]) \in Nat /\ Len(invoices[q]) <= 1
  <2>1. Len(invoices[q]) <= 1
    BY DEF Inv, OneInvoice
  <2>2. invoices[q] \in Seq({"open", "settled"})
    BY DEF Inv
  <2>3. Len(invoices[q]) \in Nat
    BY <2>2, LenProperties
  <2>. QED
    BY <2>1, <2>2, <2>3
<1>2. CASE invoices[r] = <<>>
  <2>1. Append(invoices[r], "open") \in Seq({"open", "settled"}) /\ Len(Append(invoices[r], "open")) = 1
    BY <1>2
  <2>2. Executed(r) = [invoices EXCEPT ![r] = Append(invoices[r], "open")]
    BY <1>2 DEF Executed, Remembered
  <2>. QED
    BY <1>1, <2>1, <2>2 DEF Inv
<1>3. CASE invoices[r] # <<>>
  <2>1. Executed(r) = invoices
    BY <1>3 DEF Executed, Remembered, Live
  <2>2. invoices \in [Rows -> Seq({"open", "settled"})]
    BY DEF Inv
  <2>3. \A q \in Rows : Len(Executed(r)[q]) \in Nat /\ Len(Executed(r)[q]) <= 1
    BY <1>1, <2>1
  <2>4. Executed(r) \in [Rows -> Seq({"open", "settled"})]
    BY <2>1, <2>2
  <2>. QED
    BY <2>3, <2>4, AtMostOne
<1>. QED
  BY <1>2, <1>3

(* A row that is bound changes neither its key nor its callers.            *)
LEMMA BoundRow ==
  ASSUME Inv, NEW r \in Rows, NEW i \in 0 .. 2, NEW p \in {"pending", "settled"}
  PROVE  /\ Bound(r, i) \in Payment
         /\ [Bound(r, i) EXCEPT !.provider = p] \in Payment
         /\ Bound(r, i).key = row[r].key
         /\ [Bound(r, i) EXCEPT !.provider = p].key = row[r].key
  BY DEF Inv, TypeOK, Bound, Payment

(* A step that changes rows but no key, and at most ends a caller.         *)
LEMMA KeysKept ==
  ASSUME Inv, row' \in [Rows -> Payment], \A r \in Rows : row'[r].key = row[r].key,
         caller' \in [Callers -> Call],
         \A c \in Callers : caller'[c].pc \in {"resume", "call", "bind"} =>
            /\ caller'[c].row \in Rows
            /\ caller'[c].pc = "call" => caller[c].pc = "call" /\ caller'[c].row = caller[c].row,
         shown' \in [Rows -> 0 .. 2], trial' \in Trial,
         UNCHANGED <<invoices, late>>
  PROVE  Inv'
  BY DEF Inv, TypeOK, OneInvoice, OnARow, CallsWithKey, Live

(* A call that is executed.                                                *)
LEMMA ExecutedKeepsInv ==
  ASSUME Inv, NEW r \in Rows, Live(r), invoices' = Executed(r),
         late' \subseteq late, UNCHANGED <<row, shown, trial>>,
         caller' \in [Callers -> Call],
         \A c \in Callers : caller'[c].pc \in {"resume", "call", "bind"} =>
            /\ caller'[c].row \in Rows
            /\ caller'[c].pc = "call" => caller[c].pc = "call" /\ caller'[c].row = caller[c].row
  PROVE  Inv'
<1>1. invoices' \in [Rows -> Seq({"open", "settled"})] /\ OneInvoice'
  BY ExecutedOnce DEF OneInvoice
<1>2. TypeOK'
  BY <1>1 DEF Inv, TypeOK
<1>3. OnARow' /\ CallsWithKey'
  BY DEF Inv, OnARow, CallsWithKey, Live
<1>. QED
  BY <1>1, <1>2, <1>3 DEF Inv

(* A step of one caller.                                                   *)
LEMMA OneCaller ==
  ASSUME Inv, NEW c \in Callers, NEW d \in Call,
         caller' = [caller EXCEPT ![c] = d],
         d.pc \in {"resume", "call", "bind"} => d.row \in Rows,
         d.pc = "call" => caller[c].pc = "call" /\ d.row = caller[c].row
  PROVE  /\ caller' \in [Callers -> Call]
         /\ \A b \in Callers : caller'[b].pc \in {"resume", "call", "bind"} =>
              /\ caller'[b].row \in Rows
              /\ caller'[b].pc = "call" => caller[b].pc = "call" /\ caller'[b].row = caller[b].row
  BY DEF Inv, TypeOK, OnARow

-----------------------------------------------------------------------------

LEMMA InitInv == Init => Inv
<1>. SUFFICES ASSUME Init PROVE Inv
  OBVIOUS
<1>1. /\ \A r \in Rows : invoices[r] = <<>> /\ row[r] = NoRow
      /\ \A c \in Callers : caller[c].pc = "idle"
  BY Shapes DEF Init
<1>2. \A r \in Rows : Len(invoices[r]) = 0
  BY <1>1
<1>3. invoices \in [Rows -> Seq({"open", "settled"})]
  BY DEF Init
<1>4. TypeOK
  BY <1>3, Shapes DEF Init, TypeOK, Trial
<1>. QED
  BY <1>1, <1>2, <1>3, <1>4 DEF Inv, OneInvoice, OnARow, CallsWithKey, Init

LEMMA NextInv == Inv /\ TrialInv /\ [Next]_vars => Inv'
<1>. SUFFICES ASSUME Inv, TrialInv, [Next]_vars PROVE Inv'
  OBVIOUS
<1>. USE DEF Goto, End
<1>0. /\ row \in [Rows -> Payment] /\ caller \in [Callers -> Call]
      /\ shown \in [Rows -> 0 .. 2] /\ trial \in Trial /\ late \subseteq Rows
      /\ \A c \in Callers : caller[c] \in Call
      /\ \A r \in Rows : row[r] \in Payment
  BY DEF Inv, TypeOK
<1>1. CASE Administer
  <2>1. trial' \in Trial
    BY <1>0, <1>1 DEF Administer, UpdateTariff, OfferTrial, Archive, Restore, Delete, PurgeItems,
                      ChangeUser, Trial
  <2>. QED
    BY <1>0, <1>1, <2>1, KeysKept DEF Administer, Inv, OnARow
<1>2. ASSUME NEW c \in Callers, BotForgets(c) PROVE Inv'
  <2>1. [caller[c] EXCEPT !.awaited = FALSE] \in Call
    BY <1>0, CallForms
  <2>2. caller' = [caller EXCEPT ![c] = [caller[c] EXCEPT !.awaited = FALSE]]
    BY <1>2 DEF BotForgets
  <2>. QED
    BY <1>0, <1>2, <2>1, <2>2, KeysKept DEF BotForgets, Inv, OnARow
<1>3. ASSUME NEW c \in Callers, Begin(c) PROVE Inv'
  <2>1. CASE Reusable # {} /\ Resumed(c, Least(Reusable), TRUE)
    <3>1. Reusable \subseteq Rows
      BY DEF Reusable
    <3>2. Least(Reusable) \in Rows
      BY <2>1, <3>1, LeastIn
    <3>. QED
      BY <1>3, <2>1, <3>2, ResumedKeepsInv DEF Begin
  <2>2. CASE caller' = [caller EXCEPT ![c].pc = "insert", ![c].awaited = TRUE] /\ UNCHANGED <<row, shown>>
    <3>1. [caller[c] EXCEPT !.pc = "insert", !.awaited = TRUE] \in Call
      BY <1>0, CallForms
    <3>2. caller' = [caller EXCEPT ![c] = [caller[c] EXCEPT !.pc = "insert", !.awaited = TRUE]]
      BY <1>0, <2>2
    <3>. QED
      <4>1. [caller[c] EXCEPT !.pc = "insert", !.awaited = TRUE].pc = "insert"
        BY <1>0 DEF Call
      <4>. QED
        BY <1>0, <1>3, <2>2, <3>1, <3>2, <4>1, OneCaller, KeysKept DEF Begin
  <2>. QED
    BY <1>3, <2>1, <2>2 DEF Begin
<1>4. ASSUME NEW c \in Callers, Insert(c) PROVE Inv'
  <2>. DEFINE free == {r \in Rows : row[r].status = "none"}
  <2>1. CASE End(c) /\ UNCHANGED row
    BY <1>0, <1>4, <2>1, Shapes, KeysKept DEF Insert, Inv, OnARow
  <2>2. CASE /\ free # {}
             /\ row' = [row EXCEPT ![Least(free)].status = "creating"]
             /\ caller' = [caller EXCEPT ![c].pc = "resume", ![c].row = Least(free)]
    <3>1. Least(free) \in Rows
      BY <2>2, LeastIn
    <3>. HIDE DEF free
    <3>2. row' \in [Rows -> Payment] /\ \A r \in Rows : row'[r].key = row[r].key
      BY <1>0, <2>2, <3>1 DEF Payment
    <3>3. [caller[c] EXCEPT !.pc = "resume", !.row = Least(free)] \in Call
      BY <1>0, <3>1, CallForms
    <3>4. caller' = [caller EXCEPT ![c] = [caller[c] EXCEPT !.pc = "resume", !.row = Least(free)]]
      BY <1>0, <2>2
    <3>. QED
      BY <1>0, <1>4, <3>1, <3>2, <3>3, <3>4, KeysKept DEF Insert, Inv, OnARow, Call
  <2>. QED
    BY <1>4, <2>1, <2>2 DEF Insert
<1>5. ASSUME NEW c \in Callers, ResumeNew(c) PROVE Inv'
  <2>1. caller[c].row \in Rows /\ caller[c].awaited \in BOOLEAN
    BY <1>0, <1>5 DEF ResumeNew, Inv, OnARow, Call
  <2>. QED
    BY <1>5, <2>1, ResumedKeepsInv DEF ResumeNew
<1>6. ASSUME NEW c \in Callers, Answered(c) PROVE Inv'
  <2>. DEFINE n == Len(Executed(caller[c].row)[caller[c].row])
              d == [caller[c] EXCEPT !.pc = "bind", !.attempt = 1, !.answer = n]
  <2>1. caller[c].row \in Rows /\ Live(caller[c].row)
    BY <1>6 DEF Answered, Inv, OnARow, CallsWithKey
  <2>2. n \in 0 .. 2
    BY <2>1, ExecutedOnce
  <2>3. caller' = [caller EXCEPT ![c] = d]
    BY <1>0, <1>6 DEF Answered
  <2>. HIDE DEF n
  <2>4. d \in Call
    BY <1>0, <2>2, CallForms
  <2>5. d.pc = "bind" /\ d.row = caller[c].row
    BY <1>0 DEF Call
  <2>. HIDE DEF d
  <2>. QED
    BY <1>6, <2>1, <2>3, <2>4, <2>5, OneCaller, ExecutedKeepsInv DEF Answered
<1>7. ASSUME NEW c \in Callers, Unanswered(c) PROVE Inv'
  <2>1. caller[c].row \in Rows /\ Live(caller[c].row)
    BY <1>7 DEF Unanswered, Inv, OnARow, CallsWithKey
  <2>2. PICK d \in Call : /\ caller' = [caller EXCEPT ![c] = d]
                          /\ d.pc \in {"resume", "call", "bind"} => d.row \in Rows
                          /\ d.pc = "call" => caller[c].pc = "call" /\ d.row = caller[c].row
    <3>1. CASE caller' = [caller EXCEPT ![c].attempt = 2]
      <4>1. [caller[c] EXCEPT !.attempt = 2] \in Call
        BY <1>0, CallForms
      <4>2. caller' = [caller EXCEPT ![c] = [caller[c] EXCEPT !.attempt = 2]]
        BY <3>1
      <4>. QED
        BY <1>0, <1>7, <2>1, <4>1, <4>2 DEF Unanswered, Call
    <3>2. CASE End(c)
      BY <3>2, Shapes
    <3>. QED
      BY <1>7, <3>1, <3>2 DEF Unanswered
  <2>3. /\ caller' \in [Callers -> Call]
        /\ \A b \in Callers : caller'[b].pc \in {"resume", "call", "bind"} =>
             /\ caller'[b].row \in Rows
             /\ caller'[b].pc = "call" => caller[b].pc = "call" /\ caller'[b].row = caller[b].row
    BY <2>2, OneCaller
  <2>4. CASE invoices' = Executed(caller[c].row) /\ UNCHANGED late
    BY <1>7, <2>1, <2>3, <2>4, ExecutedKeepsInv DEF Unanswered
  <2>5. CASE UNCHANGED <<invoices, late>>
    BY <1>0, <1>7, <2>3, <2>5, KeysKept DEF Unanswered
  <2>6. CASE late' = late \cup {caller[c].row} /\ UNCHANGED invoices
    <3>1. TypeOK'
      BY <1>7, <2>1, <2>3, <2>6 DEF Unanswered, Inv, TypeOK
    <3>2. OnARow' /\ CallsWithKey'
      BY <1>7, <2>1, <2>3, <2>6 DEF Unanswered, Inv, OnARow, CallsWithKey, Live
    <3>. QED
      BY <2>6, <3>1, <3>2 DEF Inv, OneInvoice
  <2>. QED
    BY <1>7, <2>4, <2>5, <2>6 DEF Unanswered
<1>8. ASSUME NEW r \in Rows, LateCall(r) PROVE Inv'
  <2>1. Live(r) /\ late' \subseteq late
    BY <1>8 DEF LateCall, Inv, CallsWithKey
  <2>. QED
    BY <1>0, <1>8, <2>1, ExecutedKeepsInv DEF LateCall, Inv, OnARow
<1>9. ASSUME NEW c \in Callers, Bind(c) PROVE Inv'
  <2>1. caller[c].row \in Rows /\ caller[c].answer \in 0 .. 2
    BY <1>0, <1>9 DEF Bind, Inv, OnARow, Call
  <2>2. caller' = [caller EXCEPT ![c] = Idle]
    BY <1>9 DEF Bind, HandOut
  <2>3. /\ row' \in [Rows -> Payment]
        /\ \A r \in Rows : row'[r].key = row[r].key
    BY <1>0, <1>9, <2>1, BoundRow DEF Bind
  <2>4. shown' \in [Rows -> 0 .. 2]
    BY <1>0, <1>9, <2>1 DEF Bind, HandOut
  <2>. QED
    BY <1>0, <1>9, <2>2, <2>3, <2>4, Shapes, KeysKept DEF Bind, Inv, OnARow
<1>10. ASSUME NEW c \in Callers, Crash(c) PROVE Inv'
  BY <1>0, <1>10, Shapes, KeysKept DEF Crash, Inv, OnARow
<1>11. ASSUME NEW r \in Rows, StartPoll(r) PROVE Inv'
  BY <1>11, ResumedKeepsInv DEF StartPoll, Callers
<1>12. ASSUME NEW r \in Rows, PollStatus(r) \/ Close(r) PROVE Inv'
  <2>3. /\ row' \in [Rows -> Payment]
        /\ \A q \in Rows : row'[q].key = row[q].key
    <3>1. [row[r] EXCEPT !.provider = "settled"] \in Payment /\ [row[r] EXCEPT !.closed = TRUE] \in Payment
      BY <1>0 DEF Payment
    <3>2. CASE PollStatus(r)
      BY <1>0, <3>1, <3>2 DEF PollStatus, Payment
    <3>3. CASE Close(r)
      BY <1>0, <3>1, <3>3 DEF Close, Payment
    <3>. QED
      BY <1>12, <3>2, <3>3
  <2>. QED
    BY <1>0, <1>12, <2>3, KeysKept DEF PollStatus, Close, Inv, OnARow
<1>13. ASSUME NEW r \in Rows, NEW i \in 1 .. 2, Webhook(r, i) PROVE Inv'
  <2>. DEFINE new == [Bound(r, i) EXCEPT !.provider = "settled"]
  <2>1. new \in Payment /\ new.key = row[r].key
    <3>1. i \in 0 .. 2
      OBVIOUS
    <3>. QED
      BY <3>1, BoundRow
  <2>2. row' = [row EXCEPT ![r] = new]
    BY <1>13 DEF Webhook
  <2>. HIDE DEF new
  <2>3. /\ row' \in [Rows -> Payment]
        /\ \A q \in Rows : row'[q].key = row[q].key
    BY <1>0, <2>1, <2>2
  <2>. QED
    BY <1>0, <1>13, <2>3, KeysKept DEF Webhook, Inv, OnARow
<1>14. ASSUME NEW r \in Rows, NEW i \in 1 .. 2, Settle(r, i) PROVE Inv'
  <2>1. /\ invoices' \in [Rows -> Seq({"open", "settled"})]
        /\ \A q \in Rows : Len(invoices'[q]) = Len(invoices[q])
    BY <1>14 DEF Settle, Inv
  <2>. QED
    BY <1>14, <2>1 DEF Settle, Inv, TypeOK, OneInvoice, OnARow, CallsWithKey, Live
<1>15. ASSUME NEW r \in Rows, Age(r) PROVE Inv'
  <2>1. CASE row[r].key = "live" /\ row' = [row EXCEPT ![r].key = "old"]
    <3>1. [row[r] EXCEPT !.key = "old"] \in Payment
      BY <1>0 DEF Payment
    <3>2. row' \in [Rows -> Payment] /\ \A q \in Rows : Live(q) => Live(q)'
      BY <1>0, <2>1, <3>1 DEF Live, Payment
    <3>. QED
      BY <1>0, <1>15, <3>2 DEF Age, Inv, TypeOK, OneInvoice, OnARow, CallsWithKey
  <2>2. CASE /\ r \notin late
             /\ \A c \in Callers : ~(caller[c].pc = "call" /\ caller[c].row = r)
             /\ row' = [row EXCEPT ![r].key = "forgotten"]
    <3>1. [row[r] EXCEPT !.key = "forgotten"] \in Payment
      BY <1>0 DEF Payment
    <3>2. row' \in [Rows -> Payment] /\ \A q \in Rows \ {r} : Live(q) => Live(q)'
      BY <1>0, <2>2, <3>1 DEF Live, Payment
    <3>3. \A c \in Callers : caller[c].pc = "call" => caller[c].row \in Rows \ {r} /\ Live(caller[c].row)
      BY <2>2 DEF Inv, OnARow, CallsWithKey
    <3>. QED
      BY <1>0, <1>15, <2>2, <3>2, <3>3 DEF Age, Inv, TypeOK, OneInvoice, OnARow, CallsWithKey
  <2>. QED
    BY <1>15, <2>1, <2>2 DEF Age
<1>16. ASSUME NEW c \in Callers, AskTrial(c) \/ ClaimTrial(c) \/ RunTrial(c) PROVE Inv'
  <2>1. caller[c].trial \in Trials \cup {NoTrial} /\ trial.offer \in Trials \cup {NoTrial}
    BY <1>0 DEF Call, Trial
  <2>2. PICK d \in Call : caller' = [caller EXCEPT ![c] = d] /\ d.pc \notin {"resume", "call", "bind"}
    <3>1. [caller[c] EXCEPT !.pc = "run trial"] \in Call
      BY <1>0, CallForms
    <3>2. [caller[c] EXCEPT !.pc = "claim trial", !.trial = trial.offer] \in Call
      BY <1>0, <2>1, CallForms
    <3>3. CASE caller' = [caller EXCEPT ![c].pc = "run trial"]
      BY <1>0, <3>1, <3>3 DEF Call
    <3>4. CASE caller' = [caller EXCEPT ![c].pc = "claim trial", ![c].trial = trial.offer]
      <4>1. caller' = [caller EXCEPT ![c] = [caller[c] EXCEPT !.pc = "claim trial", !.trial = trial.offer]]
        BY <1>0, <3>4
      <4>. QED
        BY <1>0, <3>2, <4>1 DEF Call
    <3>5. CASE End(c)
      BY <3>5, Shapes
    <3>. QED
      BY <1>16, <3>3, <3>4, <3>5 DEF AskTrial, ClaimTrial, RunTrial
  <2>3. trial' \in Trial
    <3>1. CASE ClaimTrial(c)
      <4>1. caller[c].trial \in Trials
        BY <2>1, <3>1 DEF ClaimTrial, TrialInv
      <4>2. \A t \in Trials : [trial EXCEPT !.claim = t, !.operations = trial.operations \cup {t}] \in Trial
        BY <1>0 DEF Trial
      <4>3. \/ trial' = trial
            \/ trial' = [trial EXCEPT !.claim = caller[c].trial,
                                     !.operations = trial.operations \cup {caller[c].trial}]
        BY <1>0, <3>1 DEF ClaimTrial, Trial
      <4>. QED
        BY <1>0, <4>1, <4>2, <4>3
    <3>2. CASE AskTrial(c) \/ RunTrial(c)
      BY <1>0, <3>2 DEF AskTrial, RunTrial, Trial
    <3>. QED
      BY <1>16, <3>1, <3>2
  <2>. QED
    BY <1>0, <1>16, <2>2, <2>3, OneCaller, KeysKept DEF AskTrial, ClaimTrial, RunTrial
<1>17. CASE UNCHANGED vars
  BY <1>0, <1>17, KeysKept DEF vars, Inv, OnARow
<1>. QED
  BY <1>1, <1>2, <1>3, <1>4, <1>5, <1>6, <1>7, <1>8, <1>9, <1>10, <1>11, <1>12, <1>13, <1>14,
     <1>15, <1>16, <1>17 DEF Next

-----------------------------------------------------------------------------
(* The trial.                                                              *)

LEMMA InitTrial == Init => TrialInv
<1>. SUFFICES ASSUME Init PROVE TrialInv
  OBVIOUS
<1>1. trial.claim = NoTrial /\ trial.operations = {} /\ ~trial.used
  BY DEF Init
<1>2. \A c \in Callers : caller[c].pc = "idle"
  BY Shapes DEF Init
<1>. QED
  BY <1>1, <1>2 DEF TrialInv, TrialOnce

(* A step that leaves the claim of the trial alone.                        *)
LEMMA TrialKept ==
  ASSUME TrialInv, trial'.claim = trial.claim, trial'.operations = trial.operations,
         trial'.used = trial.used,
         \A c \in Callers :
           caller'[c].pc \in {"claim trial", "run trial"} =>
             /\ caller'[c].pc = caller[c].pc
             /\ caller'[c].trial = caller[c].trial
  PROVE  TrialInv'
  BY DEF TrialInv, TrialOnce

LEMMA NextTrial == Inv /\ TrialInv /\ [Next]_vars => TrialInv'
<1>. SUFFICES ASSUME Inv, TrialInv, [Next]_vars PROVE TrialInv'
  OBVIOUS
<1>. USE DEF Goto, End
<1>0. /\ caller \in [Callers -> Call] /\ trial \in Trial
      /\ \A c \in Callers : caller[c] \in Call
      /\ Poller \in Callers
  BY DEF Inv, TypeOK, Callers
<1>1. CASE Administer
  <2>1. trial'.claim = trial.claim /\ trial'.operations = trial.operations /\ trial'.used = trial.used
    BY <1>0, <1>1 DEF Administer, UpdateTariff, OfferTrial, Archive, Restore, Delete, PurgeItems,
                      ChangeUser, Trial
  <2>. QED
    BY <1>1, <2>1, TrialKept DEF Administer
<1>2. ASSUME NEW c \in Callers, NEW r, NEW b, Resumed(c, r, b), UNCHANGED trial PROVE TrialInv'
  <2>1. \A d \in Callers : caller'[d] = caller[d] \/ caller'[d].pc \in {"idle", "call"}
    <3>1. CASE End(c)
      BY <1>0, <3>1, Shapes
    <3>2. CASE caller' = [caller EXCEPT ![c].pc = "call", ![c].row = r, ![c].awaited = b]
      <4>1. caller' = [caller EXCEPT ![c] = [caller[c] EXCEPT !.pc = "call", !.row = r, !.awaited = b]]
        BY <1>0, <3>2
      <4>2. [caller[c] EXCEPT !.pc = "call", !.row = r, !.awaited = b].pc = "call"
        BY <1>0 DEF Call
      <4>. QED
        BY <1>0, <4>1, <4>2
    <3>. QED
      BY <1>2, <3>1, <3>2 DEF Resumed, HandOut
  <2>. QED
    BY <1>2, <2>1, TrialKept
<1>3. ASSUME NEW c \in Callers,
             BotForgets(c) \/ Insert(c) \/ Answered(c) \/ Unanswered(c) \/ Bind(c) \/ Crash(c)
      PROVE  TrialInv'
  <2>1. UNCHANGED trial
    BY <1>3 DEF BotForgets, Insert, Answered, Unanswered, Bind, Crash
  <2>2. \A d \in Callers : \/ caller'[d].pc = caller[d].pc /\ caller'[d].trial = caller[d].trial
                           \/ caller'[d].pc \notin {"claim trial", "run trial"}
    <3>1. CASE BotForgets(c)
      BY <1>0, <3>1 DEF BotForgets, Call
    <3>2. CASE Insert(c)
      <4>1. CASE End(c)
        BY <1>0, <4>1, Shapes
      <4>2. ASSUME NEW q, caller' = [caller EXCEPT ![c].pc = "resume", ![c].row = q]
            PROVE  \A d \in Callers : caller'[d] = caller[d] \/ caller'[d].pc = "resume"
        <5>1. caller' = [caller EXCEPT ![c] = [caller[c] EXCEPT !.pc = "resume", !.row = q]]
          BY <1>0, <4>2
        <5>2. [caller[c] EXCEPT !.pc = "resume", !.row = q].pc = "resume"
          BY <1>0 DEF Call
        <5>. QED
          BY <1>0, <5>1, <5>2
      <4>. QED
        BY <3>2, <4>1, <4>2 DEF Insert
    <3>3. CASE Answered(c)
      <4>. DEFINE n == Len(Executed(caller[c].row)[caller[c].row])
                  k == [caller[c] EXCEPT !.pc = "bind", !.attempt = 1, !.answer = n]
      <4>1. caller' = [caller EXCEPT ![c] = k]
        BY <1>0, <3>3 DEF Answered
      <4>. HIDE DEF n
      <4>2. k.pc = "bind"
        BY <1>0 DEF Call
      <4>. HIDE DEF k
      <4>. QED
        BY <1>0, <4>1, <4>2
    <3>4. CASE Unanswered(c)
      <4>1. CASE End(c)
        BY <1>0, <4>1, Shapes
      <4>2. CASE caller' = [caller EXCEPT ![c].attempt = 2]
        <5>1. caller' = [caller EXCEPT ![c] = [caller[c] EXCEPT !.attempt = 2]]
          BY <1>0, <4>2
        <5>2. /\ [caller[c] EXCEPT !.attempt = 2].pc = caller[c].pc
              /\ [caller[c] EXCEPT !.attempt = 2].trial = caller[c].trial
          BY <1>0 DEF Call
        <5>. QED
          BY <1>0, <5>1, <5>2
      <4>. QED
        BY <3>4, <4>1, <4>2 DEF Unanswered
    <3>5. CASE Bind(c)
      BY <1>0, <3>5, Shapes DEF Bind, HandOut
    <3>6. CASE Crash(c)
      BY <1>0, <3>6 DEF Crash, Idle
    <3>. QED
      BY <1>3, <3>1, <3>2, <3>3, <3>4, <3>5, <3>6
  <2>. QED
    BY <2>1, <2>2, TrialKept
<1>4. ASSUME NEW c \in Callers, Begin(c) PROVE TrialInv'
  <2>1. CASE Resumed(c, Least(Reusable), TRUE)
    BY <1>2, <1>4, <2>1 DEF Begin
  <2>2. CASE caller' = [caller EXCEPT ![c].pc = "insert", ![c].awaited = TRUE]
    <3>1. \A d \in Callers : caller'[d] = caller[d] \/ caller'[d].pc = "insert"
      BY <1>0, <2>2 DEF Call
    <3>. QED
      BY <1>4, <3>1, TrialKept DEF Begin
  <2>. QED
    BY <1>4, <2>1, <2>2 DEF Begin
<1>5. ASSUME NEW c \in Callers, ResumeNew(c) PROVE TrialInv'
  BY <1>2, <1>5 DEF ResumeNew
<1>6. ASSUME NEW r \in Rows, StartPoll(r) PROVE TrialInv'
  BY <1>0, <1>2, <1>6 DEF StartPoll
<1>7. ASSUME NEW r \in Rows,
             \/ LateCall(r) \/ PollStatus(r) \/ Close(r) \/ Age(r)
             \/ \E i \in 1 .. 2 : Webhook(r, i) \/ Settle(r, i)
      PROVE  TrialInv'
  BY <1>7, TrialKept DEF LateCall, PollStatus, Close, Age, Webhook, Settle
<1>8. ASSUME NEW c \in Callers, AskTrial(c) PROVE TrialInv'
  <2>1. \/ trial.claim # NoTrial
        \/ trial.offer # NoTrial
    BY <1>8 DEF AskTrial
  <2>2. CASE trial.claim # NoTrial /\ caller' = [caller EXCEPT ![c].pc = "run trial"]
    BY <1>0, <1>8, <2>2 DEF AskTrial, TrialInv, TrialOnce, Call
  <2>3. CASE /\ trial.offer # NoTrial
             /\ caller' = [caller EXCEPT ![c].pc = "claim trial", ![c].trial = trial.offer]
    <3>1. /\ \A d \in Callers \ {c} : caller'[d] = caller[d]
          /\ caller'[c].pc = "claim trial" /\ caller'[c].trial = trial.offer
      BY <1>0, <2>3 DEF Call
    <3>. QED
      BY <1>8, <2>3, <3>1 DEF AskTrial, TrialInv, TrialOnce
  <2>. QED
    BY <1>8, <2>2, <2>3 DEF AskTrial
<1>9. ASSUME NEW c \in Callers, ClaimTrial(c) PROVE TrialInv'
  <2>1. CASE End(c) /\ UNCHANGED trial
    BY <1>0, <2>1, TrialKept DEF Idle
  <2>2. CASE /\ TrialFree
             /\ trial' = [trial EXCEPT !.claim = caller[c].trial, !.operations = @ \cup {caller[c].trial}]
             /\ caller' = [caller EXCEPT ![c].pc = "run trial"]
    <3>1. caller[c].trial # NoTrial
      BY <1>9 DEF ClaimTrial, TrialInv
    <3>2. /\ trial'.claim = caller[c].trial /\ trial'.used = trial.used
          /\ trial'.operations = trial.operations \cup {caller[c].trial}
      BY <1>0, <2>2 DEF Trial
    <3>3. trial.operations = {} /\ ~trial.used
      BY <2>2 DEF TrialFree, TrialInv, TrialOnce
    <3>4. TrialOnce'
      BY <3>1, <3>2, <3>3 DEF TrialOnce
    <3>5. \A d \in Callers : caller'[d].pc = "claim trial" => caller'[d].trial # NoTrial
      BY <1>0, <2>2 DEF TrialInv, Call
    <3>. QED
      BY <3>1, <3>2, <3>4, <3>5 DEF TrialInv
  <2>. QED
    BY <1>9, <2>1, <2>2 DEF ClaimTrial
<1>10. ASSUME NEW c \in Callers, RunTrial(c) PROVE TrialInv'
  <2>1. trial.claim # NoTrial
    BY <1>10 DEF RunTrial, TrialInv
  <2>2. trial'.claim = trial.claim /\ trial'.operations = trial.operations
    BY <1>0, <1>10 DEF RunTrial, Trial
  <2>3. \A d \in Callers : caller'[d] = caller[d] \/ caller'[d].pc = "idle"
    BY <1>0, <1>10 DEF RunTrial, Idle
  <2>. QED
    BY <2>1, <2>2, <2>3 DEF TrialInv, TrialOnce
<1>11. CASE UNCHANGED vars
  BY <1>11, TrialKept DEF vars
<1>. QED
  BY <1>1, <1>3, <1>4, <1>5, <1>6, <1>7, <1>8, <1>9, <1>10, <1>11 DEF Next

-----------------------------------------------------------------------------
(* The link a user has.                                                    *)

LEMMA NextShown == Inv /\ ShownIsBound /\ [Next]_vars => ShownIsBound'
<1>. SUFFICES ASSUME Inv, ShownIsBound, [Next]_vars PROVE ShownIsBound'
  OBVIOUS
<1>0. /\ row \in [Rows -> Payment] /\ shown \in [Rows -> 0 .. 2]
      /\ \A r \in Rows : row[r] \in Payment
  BY DEF Inv, TypeOK
<1>1. ASSUME \A r \in Rows : row'[r].bound = row[r].bound, UNCHANGED shown PROVE ShownIsBound'
  BY <1>1 DEF ShownIsBound
<1>2. ASSUME NEW c \in Callers, NEW r \in Rows, NEW b, Resumed(c, r, b) PROVE ShownIsBound'
  <2>1. CASE HandOut(c, r, row[r].bound, b) /\ UNCHANGED row
    BY <1>0, <2>1 DEF HandOut, ShownIsBound
  <2>2. CASE row' = [row EXCEPT ![r].status = "review"] /\ UNCHANGED shown
    BY <1>0, <1>1, <2>2 DEF Payment
  <2>3. CASE row' = [row EXCEPT ![r].key = "live"] /\ UNCHANGED shown
    BY <1>0, <1>1, <2>3 DEF Payment
  <2>. QED
    BY <1>2, <2>1, <2>2, <2>3 DEF Resumed
<1>3. ASSUME NEW c \in Callers, Begin(c) PROVE ShownIsBound'
  <2>1. CASE Reusable # {} /\ Resumed(c, Least(Reusable), TRUE)
    <3>1. Reusable \subseteq Rows
      BY DEF Reusable
    <3>. QED
      BY <1>2, <2>1, <3>1, LeastIn
  <2>2. CASE UNCHANGED <<row, shown>>
    BY <1>1, <2>2
  <2>. QED
    BY <1>3, <2>1, <2>2 DEF Begin
<1>4. ASSUME NEW c \in Callers, Insert(c) PROVE ShownIsBound'
  <2>1. \A r \in Rows : row'[r].bound = row[r].bound
    BY <1>0, <1>4 DEF Insert, Payment
  <2>. QED
    BY <1>1, <1>4, <2>1 DEF Insert
<1>5. ASSUME NEW c \in Callers, ResumeNew(c) PROVE ShownIsBound'
  BY <1>2, <1>5 DEF ResumeNew, Inv, OnARow
<1>6. ASSUME NEW c \in Callers, Bind(c) PROVE ShownIsBound'
  <2>. DEFINE r == caller[c].row
              i == caller[c].answer
  <2>1. r \in Rows
    BY <1>6 DEF Bind, Inv, OnARow
  <2>2. CASE /\ Fits(r, i) /\ row' = [row EXCEPT ![r] = Bound(r, i)]
             /\ HandOut(c, r, i, caller[c].awaited)
    <3>1. row'[r].bound = i /\ \A q \in Rows \ {r} : row'[q] = row[q]
      BY <1>0, <2>1, <2>2 DEF Bound, Payment
    <3>2. shown[r] \in {0, i}
      BY <2>1, <2>2 DEF Fits, ShownIsBound
    <3>3. shown'[r] \in {0, i} /\ \A q \in Rows \ {r} : shown'[q] = shown[q]
      BY <1>0, <2>1, <2>2, <3>2 DEF HandOut
    <3>. QED
      BY <3>1, <3>3 DEF ShownIsBound
  <2>3. CASE UNCHANGED <<row, shown>>
    BY <1>1, <2>3
  <2>. QED
    BY <1>6, <2>2, <2>3 DEF Bind
<1>7. ASSUME NEW r \in Rows, StartPoll(r) PROVE ShownIsBound'
  BY <1>2, <1>7 DEF StartPoll, Callers
<1>8. ASSUME NEW r \in Rows, PollStatus(r) \/ Close(r) \/ Age(r) PROVE ShownIsBound'
  <2>1. \A q \in Rows : row'[q].bound = row[q].bound
    <3>1. CASE PollStatus(r)
      BY <1>0, <3>1 DEF PollStatus, Payment
    <3>2. CASE Close(r)
      BY <1>0, <3>2 DEF Close, Payment
    <3>3. CASE Age(r)
      BY <1>0, <3>3 DEF Age, Payment
    <3>. QED
      BY <1>8, <3>1, <3>2, <3>3
  <2>. QED
    BY <1>1, <1>8, <2>1 DEF PollStatus, Close, Age
<1>9. ASSUME NEW r \in Rows, NEW i \in 1 .. 2, Webhook(r, i) PROVE ShownIsBound'
  <2>1. row'[r].bound = i /\ \A q \in Rows \ {r} : row'[q] = row[q]
    BY <1>0, <1>9 DEF Webhook, Bound, Payment
  <2>. QED
    BY <1>9, <2>1 DEF Webhook, ShownIsBound
<1>10. CASE UNCHANGED <<row, shown>>
  BY <1>1, <1>10
<1>. QED
  BY <1>3, <1>4, <1>5, <1>6, <1>7, <1>8, <1>9, <1>10
  DEF Next, vars, Administer, BotForgets, Answered, Unanswered, Crash, AskTrial, ClaimTrial, RunTrial,
      LateCall, Settle

-----------------------------------------------------------------------------
(* One row on the way to an invoice.                                       *)
(*                                                                         *)
(* Between the look-up of create_checkout and the insertion stands the     *)
(* bot's memory alone: whoever is about to insert is the one request the   *)
(* bot waits for, and nothing has opened since it looked (Inserting).      *)
(* What opens a row again must know one: no row that was never inserted    *)
(* has an invoice, a call on its way or a caller (Begun).                  *)

Open == Reusable \cup InReview
Working(c) == caller[c].pc \in {"resume", "call", "bind"}

OneAwaited ==
  /\ \A c, d \in Callers : caller[c].awaited /\ caller[d].awaited => c = d
  /\ ~caller[Poller].awaited
Inserting == \A c \in Callers : caller[c].pc = "insert" => caller[c].awaited /\ Open = {}
Begun ==
  /\ \A c \in Callers : Working(c) => row[caller[c].row].status # "none"
  /\ \A r \in Rows : row[r].status = "none" => invoices[r] = <<>> /\ r \notin late
OneOpen == \A r, s \in Open : r = s

OpenInv == OneAwaited /\ Inserting /\ Begun /\ OneOpen

(* A step that opens no row and makes the bot wait for nobody.             *)
LEMMA OpenKept ==
  ASSUME OpenInv, Open' \subseteq Open,
         \A r \in Rows : row'[r].status = "none" =>
           row[r].status = "none" /\ invoices'[r] = invoices[r] /\ (r \in late' => r \in late),
         \A c \in Callers : caller'[c].awaited => caller[c].awaited,
         \A c \in Callers : caller'[c].pc = "insert" => caller[c].pc = "insert" /\ caller'[c].awaited,
         \A c \in Callers : Working(c)' => row'[caller'[c].row].status # "none"
  PROVE  OpenInv'
<1>1. OneAwaited'
  BY DEF OpenInv, OneAwaited, Callers
<1>2. Inserting'
  BY DEF OpenInv, Inserting
<1>3. Begun'
  BY DEF OpenInv, Begun
<1>4. OneOpen'
  BY DEF OpenInv, OneOpen
<1>. QED
  BY <1>1, <1>2, <1>3, <1>4 DEF OpenInv

(* One caller moves, with the rows, invoices and calls as they are.        *)
LEMMA OpenSame ==
  ASSUME Inv, OpenInv, UNCHANGED <<row, invoices>>, late' \subseteq late,
         NEW c \in Callers, NEW d \in Call, caller' = [caller EXCEPT ![c] = d],
         d.awaited => caller[c].awaited, d.pc # "insert" \/ d = caller[c],
         d.pc \in {"resume", "call", "bind"} => Working(c) /\ d.row = caller[c].row
  PROVE  OpenInv'
<1>1. caller \in [Callers -> Call]
  BY DEF Inv, TypeOK
<1>2. \A b \in Callers : caller'[b] = IF b = c THEN d ELSE caller[b]
  BY <1>1
<1>3. Open' = Open
  BY DEF Open, Reusable, InReview
<1>4. \A b \in Callers : Working(b)' => row'[caller'[b].row].status # "none"
  BY <1>2 DEF OpenInv, Begun, Working
<1>5. \A b \in Callers : caller'[b].awaited => caller[b].awaited
  BY <1>2
<1>6. \A b \in Callers : caller'[b].pc = "insert" => caller[b].pc = "insert" /\ caller'[b].awaited
  BY <1>2 DEF OpenInv, Inserting
<1>. QED
  BY <1>3, <1>4, <1>5, <1>6, OpenKept

(* A row is neither opened nor begun by what changes no status but to      *)
(* "review", or to "ready" of one that is settled or open already.         *)
LEMMA RowOpened ==
  ASSUME Inv, NEW r \in Rows, NEW p \in Payment, row' = [row EXCEPT ![r] = p],
         \/ p.status = row[r].status /\ p.provider = row[r].provider /\ p.closed = row[r].closed
         \/ r \in Open
         \/ p.status = "ready" /\ (p.provider = "settled" \/ p.closed)
  PROVE  /\ Open' \subseteq Open
         /\ \A q \in Rows : row'[q].status = "none" => q = r \/ row[q].status = "none"
<1>1. row \in [Rows -> Payment]
  BY DEF Inv, TypeOK
<1>2. \A q \in Rows : row'[q] = IF q = r THEN p ELSE row[q]
  BY <1>1
<1>3. ASSUME NEW q \in Rows, q \in Open' PROVE q \in Open
  <2>1. CASE q # r
    BY <1>2, <1>3, <2>1 DEF Open, Reusable, InReview
  <2>2. CASE q = r
    BY <1>2, <1>3, <2>2 DEF Open, Reusable, InReview
  <2>. QED
    BY <2>1, <2>2
<1>4. Open' \subseteq Rows
  BY DEF Open, Reusable, InReview
<1>. QED
  BY <1>2, <1>3, <1>4

(* resume_checkout takes up a row that was begun.                          *)
LEMMA OpenResumed ==
  ASSUME Inv, OpenInv, NEW c \in Callers, NEW r \in Rows, NEW b \in BOOLEAN,
         Resumed(c, r, b), row[r].status # "none", UNCHANGED <<invoices, late>>,
         b => caller[c].awaited \/ (c # Poller /\ \A d \in Callers : ~caller[d].awaited)
  PROVE  OpenInv'
<1>0. /\ row \in [Rows -> Payment] /\ caller \in [Callers -> Call]
      /\ row[r] \in Payment /\ caller[c] \in Call
  BY DEF Inv, TypeOK
<1>1. Open' \subseteq Open /\ \A q \in Rows : row'[q].status = "none" => row[q].status = "none"
  <2>1. CASE row' = [row EXCEPT ![r].status = "review"] /\ row[r].status # "ready"
    <3>1. [row[r] EXCEPT !.status = "review"] \in Payment
      BY <1>0 DEF Payment
    <3>2. row' = [row EXCEPT ![r] = [row[r] EXCEPT !.status = "review"]]
      BY <1>0, <2>1
    <3>3. r \in Open
      BY <1>0, <2>1 DEF Open, Reusable, InReview, Payment
    <3>4. row'[r].status = "review"
      BY <1>0, <2>1 DEF Payment
    <3>. QED
      BY <3>1, <3>2, <3>3, <3>4, RowOpened
  <2>2. CASE row' = [row EXCEPT ![r].key = "live"]
    <3>1. [row[r] EXCEPT !.key = "live"] \in Payment
      BY <1>0 DEF Payment
    <3>2. row' = [row EXCEPT ![r] = [row[r] EXCEPT !.key = "live"]]
      BY <1>0, <2>2
    <3>3. /\ [row[r] EXCEPT !.key = "live"].status = row[r].status
          /\ [row[r] EXCEPT !.key = "live"].provider = row[r].provider
          /\ [row[r] EXCEPT !.key = "live"].closed = row[r].closed
      BY <1>0 DEF Payment
    <3>4. row'[r].status = row[r].status
      BY <1>0, <3>2, <3>3
    <3>. QED
      BY <3>1, <3>2, <3>3, <3>4, RowOpened
  <2>3. CASE row' = row
    BY <2>3 DEF Open, Reusable, InReview
  <2>. QED
    BY <2>1, <2>2, <2>3 DEF Resumed
<1>2. CASE caller' = [caller EXCEPT ![c] = Idle]
  <2>1. \A d \in Callers : caller'[d] = IF d = c THEN Idle ELSE caller[d]
    BY <1>0, <1>2
  <2>2. \A d \in Callers : caller'[d].awaited => caller[d].awaited
    BY <2>1 DEF Idle
  <2>3. \A d \in Callers : caller'[d].pc = "insert" => caller[d].pc = "insert" /\ caller'[d].awaited
    BY <2>1 DEF Idle, OpenInv, Inserting
  <2>4. \A d \in Callers : Working(d)' => Working(d) /\ caller'[d].row = caller[d].row
    BY <2>1 DEF Idle, Working
  <2>5. \A d \in Callers : Working(d)' => row'[caller'[d].row].status # "none"
    BY <1>1, <2>4 DEF OpenInv, Begun, Inv, OnARow, Working
  <2>. QED
    BY <1>1, <2>2, <2>3, <2>5, OpenKept
<1>3. CASE caller' = [caller EXCEPT ![c].pc = "call", ![c].row = r, ![c].awaited = b]
  <2>1. \A d \in Callers :
          IF d = c THEN caller'[d].pc = "call" /\ caller'[d].row = r /\ caller'[d].awaited = b
                   ELSE caller'[d] = caller[d]
    BY <1>0, <1>3 DEF Call
  <2>2. OneAwaited'
    BY <2>1 DEF OpenInv, OneAwaited, Callers
  <2>3. Inserting'
    BY <1>1, <2>1 DEF OpenInv, Inserting
  <2>4. \A d \in Callers : Working(d)' => row'[caller'[d].row].status # "none"
    <3>1. \A d \in Callers \ {c} : Working(d)' => Working(d) /\ caller'[d].row = caller[d].row
      BY <2>1 DEF Working
    <3>2. \A d \in Callers \ {c} : Working(d)' => row'[caller'[d].row].status # "none"
      BY <1>1, <3>1 DEF OpenInv, Begun, Inv, OnARow, Working
    <3>3. row'[r].status # "none"
      BY <1>1
    <3>. QED
      BY <2>1, <3>2, <3>3
  <2>5. Begun'
    BY <1>1, <2>4 DEF OpenInv, Begun
  <2>6. OneOpen'
    BY <1>1 DEF OpenInv, OneOpen
  <2>. QED
    BY <2>2, <2>3, <2>5, <2>6 DEF OpenInv
<1>. QED
  BY <1>2, <1>3 DEF Resumed, HandOut, End

(* The row of a request whose look-up found nothing is the only open one.  *)
LEMMA OpenInserted ==
  ASSUME Inv, OpenInv, NEW c \in Callers, Insert(c)
  PROVE  OpenInv'
<1>0. /\ row \in [Rows -> Payment] /\ caller \in [Callers -> Call] /\ caller[c] \in Call
  BY DEF Inv, TypeOK
<1>. DEFINE free == {r \in Rows : row[r].status = "none"}
            r == Least(free)
<1>1. CASE End(c) /\ UNCHANGED row
  <2>1. caller' = [caller EXCEPT ![c] = Idle] /\ Idle \in Call
    BY <1>1, Shapes DEF End
  <2>. QED
    BY <1>1, <2>1, OpenSame DEF Insert, Idle
<1>2. ASSUME free # {}, row' = [row EXCEPT ![r].status = "creating"],
             caller' = [caller EXCEPT ![c].pc = "resume", ![c].row = r]
      PROVE  OpenInv'
  <2>1. r \in Rows /\ r \in free
    <3>. HIDE DEF r
    <3>1. free \subseteq Rows
      OBVIOUS
    <3>. HIDE DEF free
    <3>. QED
      BY <1>2, <3>1, LeastIn DEF r
  <2>. HIDE DEF r, free
  <2>2. \A q \in Rows : IF q = r THEN row'[q].status = "creating" ELSE row'[q] = row[q]
    BY <1>0, <1>2, <2>1 DEF Payment
  <2>3. \A d \in Callers :
          IF d = c THEN caller'[d].pc = "resume" /\ caller'[d].row = r /\ caller'[d].awaited = caller[c].awaited
                   ELSE caller'[d] = caller[d]
    BY <1>0, <1>2 DEF Call
  <2>4. caller[c].pc = "insert" /\ caller[c].awaited /\ Open = {}
    BY DEF Insert, OpenInv, Inserting
  <2>5. \A q \in Open' : q = r
    BY <2>2, <2>4 DEF Open, Reusable, InReview
  <2>6. \A d \in Callers : caller'[d].pc # "insert"
    BY <2>3, <2>4 DEF OpenInv, OneAwaited, Inserting
  <2>7. OneAwaited'
    BY <2>3 DEF OpenInv, OneAwaited, Callers
  <2>8. \A d \in Callers : Working(d)' => row'[caller'[d].row].status # "none"
    <3>1. \A d \in Callers \ {c} : Working(d)' => Working(d) /\ caller'[d].row = caller[d].row
      BY <2>3 DEF Working
    <3>2. \A d \in Callers \ {c} : Working(d)' => row'[caller'[d].row].status # "none"
      BY <2>2, <3>1 DEF OpenInv, Begun, Inv, OnARow, Working
    <3>3. row'[r].status # "none"
      BY <2>1, <2>2
    <3>. QED
      BY <2>3, <3>2, <3>3
  <2>9. \A q \in Rows : row'[q].status = "none" => invoices'[q] = <<>> /\ q \notin late'
    BY <2>2 DEF Insert, OpenInv, Begun
  <2>. QED
    BY <2>5, <2>6, <2>7, <2>8, <2>9 DEF OpenInv, Inserting, Begun, OneOpen
<1>. QED
  BY <1>1, <1>2 DEF Insert

(* A call is executed for a row that was begun.                            *)
LEMMA OpenExecuted ==
  ASSUME Inv, OpenInv, NEW r \in Rows, row[r].status # "none",
         invoices' = Executed(r) \/ UNCHANGED invoices,
         late' \subseteq late \cup {r}, UNCHANGED row,
         \A d \in Callers : caller'[d].awaited => caller[d].awaited,
         \A d \in Callers : caller'[d].pc = "insert" => caller[d].pc = "insert" /\ caller'[d].awaited,
         \A d \in Callers : Working(d)' => Working(d) /\ caller'[d].row = caller[d].row
  PROVE  OpenInv'
<1>1. invoices \in [Rows -> Seq({"open", "settled"})]
  BY DEF Inv
<1>2. \A q \in Rows \ {r} : invoices'[q] = invoices[q]
  BY <1>1 DEF Executed
<1>3. Open' = Open
  BY DEF Open, Reusable, InReview
<1>4. \A d \in Callers : Working(d)' => row'[caller'[d].row].status # "none"
  BY DEF OpenInv, Begun
<1>. QED
  BY <1>2, <1>3, <1>4, OpenKept

LEMMA NextOpen == ~Overlap /\ Inv /\ OpenInv /\ [Next]_vars => OpenInv'
<1>. SUFFICES ASSUME ~Overlap, Inv, OpenInv, [Next]_vars PROVE OpenInv'
  OBVIOUS
<1>0. /\ row \in [Rows -> Payment] /\ caller \in [Callers -> Call]
      /\ \A r \in Rows : row[r] \in Payment
      /\ \A c \in Callers : caller[c] \in Call
      /\ Idle \in Call /\ Idle.pc = "idle" /\ ~Idle.awaited
  BY Shapes DEF Inv, TypeOK, Idle
<1>1. ASSUME UNCHANGED <<row, invoices, late, caller>> PROVE OpenInv'
  BY <1>1 DEF OpenInv, OneAwaited, Inserting, Begun, OneOpen, Working, Open, Reusable, InReview
<1>2. ASSUME NEW c \in Callers, BotForgets(c) PROVE OpenInv'
  <2>1. [caller[c] EXCEPT !.awaited = FALSE] \in Call
    BY <1>0, CallForms
  <2>2. caller' = [caller EXCEPT ![c] = [caller[c] EXCEPT !.awaited = FALSE]]
    BY <1>0, <1>2 DEF BotForgets
  <2>3. /\ ~[caller[c] EXCEPT !.awaited = FALSE].awaited
        /\ [caller[c] EXCEPT !.awaited = FALSE].pc = caller[c].pc
        /\ [caller[c] EXCEPT !.awaited = FALSE].row = caller[c].row
    BY <1>0 DEF Call
  <2>4. caller[c].pc # "insert"
    BY <1>2 DEF BotForgets
  <2>. QED
    BY <1>2, <2>1, <2>2, <2>3, <2>4, OpenSame DEF BotForgets, Working
<1>3. ASSUME NEW c \in Callers, Begin(c) PROVE OpenInv'
  <2>1. c # Poller /\ \A d \in Callers : ~caller[d].awaited
    BY <1>3, CheckoutAssumption DEF Begin, NotWaiting, Callers, OpenInv, OneAwaited
  <2>2. CASE Reusable # {} /\ Resumed(c, Least(Reusable), TRUE)
    <3>1. Reusable \subseteq Rows
      BY DEF Reusable
    <3>2. Least(Reusable) \in Reusable
      BY <2>2, <3>1, LeastIn
    <3>3. row[Least(Reusable)].status # "none"
      BY <3>2 DEF Reusable
    <3>. QED
      BY <1>3, <2>1, <2>2, <3>1, <3>2, <3>3, OpenResumed DEF Begin
  <2>3. CASE /\ Reusable = {} /\ InReview = {}
             /\ caller' = [caller EXCEPT ![c].pc = "insert", ![c].awaited = TRUE]
             /\ UNCHANGED <<row, shown>>
    <3>1. \A d \in Callers :
            IF d = c THEN caller'[d].pc = "insert" /\ caller'[d].awaited ELSE caller'[d] = caller[d]
      BY <1>0, <2>3 DEF Call
    <3>2. Open' = {} /\ UNCHANGED <<row, invoices, late>>
      BY <1>3, <2>3 DEF Begin, Open, Reusable, InReview
    <3>3. OneAwaited'
      BY <2>1, <3>1 DEF OneAwaited, Callers
    <3>4. Inserting'
      BY <2>1, <3>1, <3>2 DEF OpenInv, Inserting
    <3>5. Begun'
      BY <3>1, <3>2 DEF OpenInv, Begun, Working
    <3>. QED
      BY <3>2, <3>3, <3>4, <3>5 DEF OpenInv, OneOpen
  <2>. QED
    BY <1>3, <2>2, <2>3 DEF Begin
<1>4. ASSUME NEW c \in Callers, ResumeNew(c) PROVE OpenInv'
  <2>1. caller[c].row \in Rows /\ row[caller[c].row].status # "none"
    BY <1>4 DEF ResumeNew, OpenInv, Begun, Working, Inv, OnARow
  <2>2. caller[c].awaited \in BOOLEAN
    BY <1>0 DEF Call
  <2>. QED
    BY <1>4, <2>1, <2>2, OpenResumed DEF ResumeNew
<1>5. ASSUME NEW c \in Callers, NEW d \in Call, caller' = [caller EXCEPT ![c] = d],
             d.awaited => caller[c].awaited, d.pc \notin {"insert", "resume"},
             d.pc \in {"call", "bind"} => d.row = caller[c].row /\ Working(c)
      PROVE  /\ \A b \in Callers : caller'[b].awaited => caller[b].awaited
             /\ \A b \in Callers : caller'[b].pc = "insert" => caller[b].pc = "insert" /\ caller'[b].awaited
             /\ \A b \in Callers : Working(b)' => Working(b) /\ caller'[b].row = caller[b].row
  <2>1. \A b \in Callers : caller'[b] = IF b = c THEN d ELSE caller[b]
    BY <1>0, <1>5
  <2>2. \A b \in Callers : caller[b].pc = "insert" => caller[b].awaited
    BY DEF OpenInv, Inserting
  <2>. QED
    BY <1>5, <2>1, <2>2 DEF Working
<1>6. ASSUME NEW c \in Callers, Answered(c) \/ Unanswered(c) PROVE OpenInv'
  <2>. DEFINE r == caller[c].row
  <2>1. caller[c].pc = "call" /\ Working(c)
    BY <1>6 DEF Answered, Unanswered, Working
  <2>2. r \in Rows /\ row[r].status # "none"
    BY <2>1 DEF OpenInv, Begun, Working, Inv, OnARow
  <2>3. /\ UNCHANGED row /\ late' \subseteq late \cup {r}
        /\ invoices' = Executed(r) \/ UNCHANGED invoices
    BY <1>6 DEF Answered, Unanswered
  <2>4. \E d \in Call : /\ caller' = [caller EXCEPT ![c] = d]
                        /\ d.awaited => caller[c].awaited
                        /\ d.pc \notin {"insert", "resume"}
                        /\ d.pc \in {"call", "bind"} => d.row = caller[c].row
    <3>1. CASE Answered(c)
      <4>. DEFINE i == Len(Executed(r)[r])
                  d == [caller[c] EXCEPT !.pc = "bind", !.attempt = 1, !.answer = i]
      <4>1. i \in 0 .. 2
        BY <2>1, <2>2, ExecutedOnce DEF Inv, CallsWithKey
      <4>2. caller' = [caller EXCEPT ![c] = [caller[c] EXCEPT !.pc = "bind", !.attempt = 1, !.answer = i]]
        BY <1>0, <3>1 DEF Answered
      <4>. HIDE DEF i
      <4>3. d.awaited = caller[c].awaited /\ d.pc = "bind" /\ d.row = caller[c].row
        BY <1>0 DEF Call
      <4>4. d \in Call
        BY <1>0, <4>1, CallForms
      <4>. QED
        BY <4>2, <4>3, <4>4
    <3>2. CASE Unanswered(c) /\ caller' = [caller EXCEPT ![c].attempt = 2]
      <4>. DEFINE d == [caller[c] EXCEPT !.attempt = 2]
      <4>1. d.awaited = caller[c].awaited /\ d.pc = caller[c].pc /\ d.row = caller[c].row
        BY <1>0 DEF Call
      <4>2. caller' = [caller EXCEPT ![c] = d]
        BY <1>0, <3>2
      <4>3. d \in Call
        BY <1>0, CallForms
      <4>. QED
        BY <2>1, <4>1, <4>2, <4>3
    <3>3. CASE caller' = [caller EXCEPT ![c] = Idle]
      BY <1>0, <3>3
    <3>. QED
      BY <1>6, <3>1, <3>2, <3>3 DEF Unanswered, End
  <2>. HIDE DEF r
  <2>. QED
    BY <1>5, <2>1, <2>2, <2>3, <2>4, OpenExecuted
<1>7. ASSUME NEW r \in Rows, LateCall(r) PROVE OpenInv'
  <2>1. row[r].status # "none"
    BY <1>7 DEF LateCall, OpenInv, Begun
  <2>2. \A d \in Callers : caller[d].pc = "insert" => caller[d].awaited
    BY DEF OpenInv, Inserting
  <2>. QED
    BY <1>7, <2>1, <2>2, OpenExecuted DEF LateCall, Working
<1>8. ASSUME NEW r \in Rows, NEW p \in Payment, row' = [row EXCEPT ![r] = p],
             \/ p.status = row[r].status /\ p.provider = row[r].provider /\ p.closed = row[r].closed
             \/ r \in Open
             \/ p.status = "ready" /\ (p.provider = "settled" \/ p.closed),
             p.status = "none" => row[r].status = "none", UNCHANGED <<invoices, late>>,
             \A b \in Callers : caller'[b].awaited => caller[b].awaited,
             \A b \in Callers : caller'[b].pc = "insert" => caller[b].pc = "insert" /\ caller'[b].awaited,
             \A b \in Callers : Working(b)' => Working(b) /\ caller'[b].row = caller[b].row
      PROVE  OpenInv'
  <2>1. Open' \subseteq Open /\ \A q \in Rows : row'[q].status = "none" => q = r \/ row[q].status = "none"
    BY <1>8, RowOpened
  <2>2. \A q \in Rows : row'[q].status = "none" => row[q].status = "none"
    BY <1>0, <1>8, <2>1
  <2>3. \A b \in Callers : Working(b)' => row'[caller'[b].row].status # "none"
    BY <1>8, <2>2 DEF OpenInv, Begun, Inv, OnARow, Working
  <2>. QED
    BY <1>8, <2>1, <2>2, <2>3, OpenKept
<1>9. ASSUME NEW r \in Rows, NEW p \in Payment, row' = [row EXCEPT ![r] = p],
             \/ p.status = row[r].status /\ p.provider = row[r].provider /\ p.closed = row[r].closed
             \/ p.status = row[r].status /\ r \in Open
             \/ p.status = "ready" /\ (p.provider = "settled" \/ p.closed),
             UNCHANGED <<invoices, late, caller>>
      PROVE  OpenInv'
  <2>1. \A b \in Callers : caller[b].pc = "insert" => caller[b].awaited
    BY DEF OpenInv, Inserting
  <2>2. /\ \A b \in Callers : caller'[b].awaited => caller[b].awaited
        /\ \A b \in Callers : caller'[b].pc = "insert" => caller[b].pc = "insert" /\ caller'[b].awaited
        /\ \A b \in Callers : Working(b)' => Working(b) /\ caller'[b].row = caller[b].row
    BY <1>9, <2>1 DEF Working
  <2>3. p.status = "none" => row[r].status = "none"
    BY <1>9
  <2>4. \/ p.status = row[r].status /\ p.provider = row[r].provider /\ p.closed = row[r].closed
        \/ r \in Open
        \/ p.status = "ready" /\ (p.provider = "settled" \/ p.closed)
    BY <1>9
  <2>. QED
    BY <1>8, <1>9, <2>2, <2>3, <2>4
<1>10. ASSUME NEW c \in Callers, Bind(c) PROVE OpenInv'
  <2>. DEFINE r == caller[c].row
              i == caller[c].answer
  <2>1. Working(c) /\ r \in Rows /\ row[r].status # "none" /\ i \in 0 .. 2
    BY <1>0, <1>10 DEF Bind, OpenInv, Begun, Working, Inv, OnARow, Call
  <2>2. caller' = [caller EXCEPT ![c] = Idle]
    BY <1>10 DEF Bind, HandOut, End
  <2>3. /\ \A b \in Callers : caller'[b].awaited => caller[b].awaited
        /\ \A b \in Callers : caller'[b].pc = "insert" => caller[b].pc = "insert" /\ caller'[b].awaited
        /\ \A b \in Callers : Working(b)' => Working(b) /\ caller'[b].row = caller[b].row
    BY <1>0, <1>5, <2>2
  <2>4. CASE row' = [row EXCEPT ![r] = Bound(r, i)]
    <3>. DEFINE p == Bound(r, i)
    <3>1. /\ p \in Payment /\ p.status = "ready"
          /\ p.provider = row[r].provider /\ p.closed = row[r].closed
      BY <1>0, <2>1 DEF Bound, Payment
    <3>2. r \in Open \/ row[r].status = "ready"
      BY <1>0, <2>1 DEF Open, Reusable, InReview, Payment
    <3>. HIDE DEF p
    <3>3. row' = [row EXCEPT ![r] = p]
      BY <2>4 DEF p
    <3>. QED
      BY <1>8, <1>10, <2>1, <2>3, <3>1, <3>2, <3>3 DEF Bind
  <2>5. CASE UNCHANGED row
    BY <1>0, <1>10, <2>2, <2>5, OpenSame DEF Bind
  <2>. QED
    BY <1>10, <2>4, <2>5 DEF Bind
<1>11. ASSUME NEW c \in Callers, Crash(c) PROVE OpenInv'
  BY <1>0, <1>11, OpenSame DEF Crash, End
<1>12. ASSUME NEW r \in Rows, StartPoll(r) PROVE OpenInv'
  <2>1. row[r].status # "none" /\ Poller \in Callers
    BY <1>12 DEF StartPoll, Callers
  <2>. QED
    BY <1>12, <2>1, OpenResumed DEF StartPoll
<1>13. ASSUME NEW r \in Rows, PollStatus(r) PROVE OpenInv'
  <2>. DEFINE p == [row[r] EXCEPT !.provider = "settled"]
  <2>1. p \in Payment /\ p.status = "ready" /\ p.provider = "settled"
    BY <1>0, <1>13 DEF PollStatus, Payment
  <2>2. row' = [row EXCEPT ![r] = p]
    BY <1>0, <1>13 DEF PollStatus
  <2>. HIDE DEF p
  <2>. QED
    BY <1>9, <1>13, <2>1, <2>2 DEF PollStatus
<1>14. ASSUME NEW r \in Rows, Close(r) PROVE OpenInv'
  <2>. DEFINE p == [row[r] EXCEPT !.closed = TRUE]
  <2>1. p \in Payment /\ p.status = row[r].status /\ p.provider = row[r].provider /\ p.closed
    BY <1>0 DEF Payment
  <2>2. row' = [row EXCEPT ![r] = p]
    BY <1>0, <1>14 DEF Close
  <2>3. r \in Open \/ row[r].status \in {"none", "ready"}
    BY <1>0 DEF Open, Reusable, InReview, Payment
  <2>. HIDE DEF p
  <2>4. CASE row[r].status = "none"
    <3>1. Open' = Open
      BY <1>0, <2>1, <2>2, <2>4 DEF Open, Reusable, InReview
    <3>2. \A q \in Rows : row'[q].status = row[q].status
      BY <1>0, <2>1, <2>2
    <3>3. OneAwaited' /\ Inserting' /\ OneOpen'
      BY <1>14, <3>1 DEF Close, OpenInv, OneAwaited, Inserting, OneOpen
    <3>4. Begun'
      BY <1>14, <3>2 DEF Close, OpenInv, Begun, Working, Inv, OnARow
    <3>. QED
      BY <3>3, <3>4 DEF OpenInv
  <2>5. CASE row[r].status # "none"
    BY <1>9, <1>14, <2>1, <2>2, <2>3, <2>5 DEF Close
  <2>. QED
    BY <2>4, <2>5
<1>15. ASSUME NEW r \in Rows, Age(r) PROVE OpenInv'
  <2>1. PICK k \in {"old", "forgotten"} : row' = [row EXCEPT ![r].key = k]
    BY <1>15 DEF Age
  <2>. DEFINE p == [row[r] EXCEPT !.key = k]
  <2>2. /\ p \in Payment /\ p.status = row[r].status
        /\ p.provider = row[r].provider /\ p.closed = row[r].closed
    BY <1>0 DEF Payment
  <2>3. row' = [row EXCEPT ![r] = p]
    BY <1>0, <2>1
  <2>. HIDE DEF p
  <2>. QED
    BY <1>9, <1>15, <2>2, <2>3 DEF Age
<1>16. ASSUME NEW r \in Rows, NEW i \in 1 .. 2, Webhook(r, i) PROVE OpenInv'
  <2>. DEFINE p == [Bound(r, i) EXCEPT !.provider = "settled"]
  <2>1. p \in Payment /\ p.status = "ready" /\ p.provider = "settled"
    <3>1. Bound(r, i) \in Payment /\ Bound(r, i).status = "ready"
      <4>1. i \in 0 .. 2
        OBVIOUS
      <4>2. Bound(r, i) \in Payment
        BY <4>1, BoundRow
      <4>3. Bound(r, i).status = "ready"
        BY <1>0 DEF Bound, Payment
      <4>. QED
        BY <4>2, <4>3
    <3>2. ASSUME NEW q \in Payment, q.status = "ready"
          PROVE  /\ [q EXCEPT !.provider = "settled"] \in Payment
                 /\ [q EXCEPT !.provider = "settled"].status = "ready"
                 /\ [q EXCEPT !.provider = "settled"].provider = "settled"
      BY <3>2 DEF Payment
    <3>. QED
      BY <3>1, <3>2
  <2>2. row' = [row EXCEPT ![r] = p]
    BY <1>16 DEF Webhook
  <2>. HIDE DEF p
  <2>. QED
    BY <1>9, <1>16, <2>1, <2>2 DEF Webhook
<1>17. ASSUME NEW r \in Rows, NEW i \in 1 .. 2, Settle(r, i) PROVE OpenInv'
  <2>1. row[r].status # "none"
    <3>1. row[r].status = "none" => invoices[r] = <<>>
      BY DEF OpenInv, Begun
    <3>2. Len(invoices[r]) # 0
      BY <1>17 DEF Settle
    <3>. QED
      BY <3>1, <3>2
  <2>2. \A q \in Rows \ {r} : invoices'[q] = invoices[q]
    BY <1>17 DEF Settle, Inv
  <2>3. \A q \in Rows : row[q].status = "none" => invoices'[q] = <<>> /\ q \notin late
    BY <2>1, <2>2 DEF OpenInv, Begun
  <2>. QED
    BY <1>17, <2>3 DEF Settle, OpenInv, OneAwaited, Inserting, Begun, OneOpen, Working, Open, Reusable, InReview
<1>18. ASSUME NEW c \in Callers, AskTrial(c) \/ ClaimTrial(c) \/ RunTrial(c) PROVE OpenInv'
  <2>1. \E d \in Call : /\ caller' = [caller EXCEPT ![c] = d]
                        /\ d.awaited => caller[c].awaited
                        /\ d.pc \in {"idle", "claim trial", "run trial"}
    <3>1. CASE caller' = [caller EXCEPT ![c].pc = "run trial"]
      <4>1. [caller[c] EXCEPT !.pc = "run trial"] \in Call
        BY <1>0 DEF Call
      <4>2. caller' = [caller EXCEPT ![c] = [caller[c] EXCEPT !.pc = "run trial"]]
        BY <1>0, <3>1
      <4>3. /\ [caller[c] EXCEPT !.pc = "run trial"].pc = "run trial"
            /\ [caller[c] EXCEPT !.pc = "run trial"].awaited = caller[c].awaited
        BY <1>0 DEF Call
      <4>. QED
        BY <4>1, <4>2, <4>3
    <3>2. CASE trial.offer # NoTrial /\ caller' = [caller EXCEPT ![c].pc = "claim trial", ![c].trial = trial.offer]
      <4>. DEFINE d == [caller[c] EXCEPT !.pc = "claim trial", !.trial = trial.offer]
      <4>1. trial.offer \in Trials \cup {NoTrial}
        BY DEF Inv, TypeOK, Trial
      <4>2. d \in Call /\ d.pc = "claim trial" /\ d.awaited = caller[c].awaited
        BY <1>0, <4>1 DEF Call
      <4>3. caller' = [caller EXCEPT ![c] = d]
        BY <1>0, <3>2
      <4>. QED
        BY <4>2, <4>3
    <3>3. CASE caller' = [caller EXCEPT ![c] = Idle]
      BY <1>0, <3>3
    <3>. QED
      BY <1>18, <3>1, <3>2, <3>3 DEF AskTrial, ClaimTrial, RunTrial, Goto, End
  <2>2. UNCHANGED <<row, invoices, late>>
    BY <1>18 DEF AskTrial, ClaimTrial, RunTrial
  <2>. QED
    BY <2>1, <2>2, OpenSame
<1>19. CASE Administer \/ UNCHANGED vars
  BY <1>1, <1>19 DEF Administer, vars
<1>. QED
  BY <1>2, <1>3, <1>4, <1>6, <1>7, <1>10, <1>11, <1>12, <1>13, <1>14, <1>15, <1>16, <1>17, <1>18, <1>19,
     OpenInserted DEF Next

LEMMA InitOpen == Init => OpenInv
<1>. SUFFICES ASSUME Init PROVE OpenInv
  OBVIOUS
<1>1. /\ \A r \in Rows : invoices[r] = <<>> /\ row[r].status = "none"
      /\ \A c \in Callers : caller[c].pc = "idle" /\ ~caller[c].awaited
      /\ late = {} /\ Poller \in Callers
  BY DEF Init, NoRow, Idle, Callers
<1>2. Open = {}
  BY <1>1 DEF Open, Reusable, InReview
<1>. QED
  BY <1>1, <1>2 DEF OpenInv, OneAwaited, Inserting, Begun, OneOpen, Working

-----------------------------------------------------------------------------

(* What every reachable state satisfies, from which the rest follows.      *)
LEMMA Invariance == Spec => [](Inv /\ TrialInv /\ ShownIsBound)
<1>1. Init => ShownIsBound
  BY DEF Init, ShownIsBound
<1>. QED
  BY <1>1, InitInv, InitTrial, NextInv, NextTrial, NextShown, PTL DEF Spec

(* The variables have their types: a row is bound to no more than a second *)
(* invoice, and every caller that works on a row has one.                  *)
THEOREM TypeCorrect == Spec => []TypeOK
<1>1. Inv => TypeOK
  BY DEF Inv
<1>. QED
  BY <1>1, Invariance, PTL

(* The provider makes one invoice for a row, whoever resumes it, whatever  *)
(* becomes of the calls and however long the poller takes                  *)
(* (resume_checkout with its key and its day).                             *)
THEOREM RowHasOneInvoice == Spec => []OneInvoice
<1>1. Inv => OneInvoice
  BY DEF Inv
<1>. QED
  BY <1>1, Invariance, PTL

(* A link the user has is of the invoice its row is bound to               *)
(* (_bind_remote before the answer).                                       *)
THEOREM LinkIsOfTheRow == Spec => []ShownIsBound
  BY Invariance, PTL

(* No user is given a second trial (activate_trial).                       *)
THEOREM OneTrial == Spec => []TrialOnce
<1>1. TrialInv => TrialOnce
  BY DEF TrialInv
<1>. QED
  BY <1>1, Invariance, PTL

(* As long as the bot forgets no request that is between its look-up and   *)
(* its insertion, a user has at most one row on the way to an invoice, or  *)
(* unsettled and not closed by himself, and none besides one in review.    *)
(* Without that premise it is not so.                                      *)
THEOREM OneRowIsOpen == ASSUME ~Overlap PROVE Spec => []OneOpenInvoice
<1>1. OpenInv => OneOpenInvoice
  <2>. SUFFICES ASSUME OpenInv PROVE OneOpenInvoice
    OBVIOUS
  <2>1. Cardinality(Reusable) <= 1
    <3>1. CASE Reusable = {}
      BY <3>1, FS_EmptySet
    <3>2. CASE Reusable # {}
      <4>1. PICK r : r \in Reusable
        BY <3>2
      <4>2. Reusable = {r}
        BY <4>1 DEF OpenInv, OneOpen, Open
      <4>. QED
        BY <4>2, FS_Singleton
    <3>. QED
      BY <3>1, <3>2
  <2>2. ASSUME NEW r \in Reusable, NEW s \in InReview PROVE ~(s < r)
    <3>1. s = r /\ r \in Rows
      BY <2>2 DEF OpenInv, OneOpen, Open, Reusable
    <3>. QED
      BY <3>1, CheckoutAssumption
  <2>. QED
    BY <2>1, <2>2 DEF OneOpenInvoice
<1>2. Spec => []Inv
  BY Invariance, PTL
<1>3. Spec => []OpenInv
  BY <1>2, InitOpen, NextOpen, PTL DEF Spec
<1>. QED
  BY <1>1, <1>3, PTL

=============================================================================
