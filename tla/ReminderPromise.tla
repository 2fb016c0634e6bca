--------------------------- MODULE ReminderPromise --------------------------
(***************************************************************************)
(* What the reminder subsystem promises the owner, with nothing of how: a  *)
(* reminder, once accepted, is open until it is withdrawn by the owner,    *)
(* kept (its text reached the owner), or owed (it could not be delivered   *)
(* in time) and then settled (the owner was told, or telling was given     *)
(* up).  Kept and settled are final, its due instant never moves, nothing  *)
(* is kept or owed before it is due, and at most Cap promises are open.    *)
(* Module Reminders implements it (henk/store/reminders.py).               *)
(***************************************************************************)
EXTENDS Integers, FiniteSets

CONSTANTS
  Promises,   \* the reminders
  Cap         \* how many may be open at once

VARIABLES
  now,      \* the wall clock
  due,      \* the instant each promise is for
  promise   \* where each promise stands

promiseVars == <<now, due, promise>>

Standing == {"unmade", "open", "withdrawn", "kept", "owed", "settled"}

Open == {r \in Promises : promise[r] = "open"}

PromiseInit ==
  /\ now = 0
  /\ due \in [Promises -> Nat]
  /\ promise = [r \in Promises |-> "unmade"]

\* The owner is promised a reminder, or takes one back, or renews it in time.
Make(r) == promise[r] = "unmade" /\ promise'[r] = "open"

Withdraw(r) == promise[r] = "open" /\ promise'[r] = "withdrawn" /\ due'[r] = due[r]

Renew(r) ==
  /\ promise[r] = "withdrawn"
  /\ promise'[r] = "open"
  /\ due'[r] = due[r] /\ now < due[r]

\* A withdrawn promise can still be kept: the send was already under way.
Keep(r) ==
  /\ promise[r] \in {"open", "withdrawn"}
  /\ promise'[r] = "kept"
  /\ due'[r] = due[r] /\ due[r] <= now

Miss(r) ==
  /\ promise[r] = "open"
  /\ promise'[r] = "owed"
  /\ due'[r] = due[r] /\ due[r] <= now

Settle(r) == promise[r] = "owed" /\ promise'[r] = "settled" /\ due'[r] = due[r]

Stay(r) == promise'[r] = promise[r] /\ due'[r] = due[r]

\* One step may move several promises (a catch-up summary settles every one it
\* names), each by one edge, and never opens more than the cap.
PromiseNext ==
  /\ now' >= now
  /\ due' \in [Promises -> Nat]
  /\ promise' \in [Promises -> Standing]
  /\ \A r \in Promises :
       Make(r) \/ Withdraw(r) \/ Renew(r) \/ Keep(r) \/ Miss(r) \/ Settle(r) \/ Stay(r)
  /\ (\E r \in Promises : Make(r) \/ Renew(r)) => Cardinality(Open') <= Cap

PromiseSpec == PromiseInit /\ [][PromiseNext]_promiseVars

=============================================================================
