---------------------------- MODULE NodeContract ----------------------------
(***************************************************************************)
(* What the master may count on at a node, whatever the node does with     *)
(* clients, time, traffic, administrators and Xray: for each source of a   *)
(* user, what was given and what was withdrawn, by revisions that a call   *)
(* which comes late or twice cannot take back, and for the user a state    *)
(* that lets the master give or not.  A node may refuse any call, and then *)
(* nothing changes.                                                        *)
(***************************************************************************)
EXTENDS Naturals

CONSTANTS
  Sources,
  Revisions,  \* revisions of the sources, numbers
  Decisions   \* revisions of the user's state, numbers

VARIABLES
  held,    \* of each source, what is given or withdrawn, and as of which revision
  account  \* the state of the user: its revision, and whether it blocks

cvars == <<held, account>>

Init ==
  /\ held = [s \in Sources |-> [state |-> "none", rev |-> 0]]
  /\ account = [rev |-> 0, blocked |-> FALSE]

Unknown(s) == held[s].state = "none"
Given(n) == [state |-> "given", rev |-> n]
Withdrawn(n) == [state |-> "withdrawn", rev |-> n]

(* A call that gives tells the state of the user it was sent at: not a     *)
(* state from before the one the node knows, nor while that blocks.        *)
Told ==
  /\ ~account.blocked
  /\ \E a \in Decisions : a >= account.rev /\ account' = [account EXCEPT !.rev = a]

Give(s, n) ==
  /\ Unknown(s) \/ held[s].rev < n
  /\ held' = [held EXCEPT ![s] = Given(n)]
  /\ Told

(* A repeated call is answered as the first one was, if what that gave is  *)
(* still there.                                                            *)
GiveAgain(s) ==
  /\ held[s].state = "given"
  /\ UNCHANGED held
  /\ Told

(* What the user had before there were sources becomes one.                *)
TakeOver(s, n) ==
  /\ Unknown(s)
  /\ held' = [held EXCEPT ![s] = Given(n)]
  /\ UNCHANGED account

(* Withdrawing, one source or several at once, is final for all that is    *)
(* not later, also for what has not come yet; it is not held up by the     *)
(* state of the user.                                                      *)
Withdraw(S) ==
  /\ \A s \in S : \E n \in Revisions : (Unknown(s) \/ held[s].rev <= n) /\ held'[s] = Withdrawn(n)
  /\ held' = [s \in Sources |-> IF s \in S THEN held'[s] ELSE held[s]]
  /\ UNCHANGED account

Decide(n, blocks) ==
  /\ n > account.rev
  /\ account' = [rev |-> n, blocked |-> blocks]
  /\ UNCHANGED held

Next ==
  \/ \E S \in SUBSET Sources : Withdraw(S)
  \/ \E s \in Sources : GiveAgain(s) \/ \E n \in Revisions : Give(s, n) \/ TakeOver(s, n)
  \/ \E n \in Decisions, blocks \in BOOLEAN : Decide(n, blocks)

Spec == Init /\ [][Next]_cvars
=============================================================================
