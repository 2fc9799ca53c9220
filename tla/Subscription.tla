---------------------------- MODULE Subscription ----------------------------
(***************************************************************************)
(* A restaurant's access to the product: its is_active flag, the period it *)
(* is entitled to, its prepaid balance, the hourly task that renews or     *)
(* ends what has expired, and the platform's admins who change all three.  *)
(*                                                                         *)
(* Rows are loaded once and written back later.  A transaction that holds  *)
(* the lock of the restaurant's row is two steps: what it reads after it   *)
(* got the lock, and its commit.  Dates are days; a billing period is      *)
(* Period days long and costs Price.                                       *)
(***************************************************************************)
EXTENDS Integers, Sequences

CONSTANTS
  Tasks,     \* runs of expire_restaurant_entitlements that may overlap
  Admins,    \* requests of the platform's admins that may overlap
  Kinds,     \* the requests they send
  Amounts,   \* what is topped up
  Price,
  Period,
  MayCrash,  \* whether a task may be cut off
  MaxDay,    \* bound: the last day; periods are extended up to it
  MaxPaid,   \* bound: what is topped up between two activations
  Nobody

ASSUME SubscriptionAssumption ==
  /\ Kinds \subseteq {"top_up", "extend", "activate", "deactivate", "settings"}
  /\ Amounts \subseteq Nat \ {0}
  /\ Price \in Nat \ {0} /\ Period \in Nat \ {0}
  /\ MayCrash \in BOOLEAN /\ MaxDay \in Nat /\ MaxPaid \in Nat
  /\ Tasks \intersect Admins = {} /\ Nobody \notin Tasks \union Admins

VARIABLES
  day,
  on,       \* restaurant.is_active
  ent,      \* the entitlement's row
  total,    \* the sum of the amounts of the balance's rows
  after,    \* balance_after of the newest row
  charges,  \* history: the periods charged since the last activation, in order
  lock,     \* who holds the lock of the restaurant's row
  job       \* each actor: where it is and what it has read

vars == <<day, on, ent, total, after, charges, lock, job>>
books == <<total, after, charges>>

Entitlement == [active : BOOLEAN, starts : Nat, expires : Nat]

Actors == Tasks \union Admins

Step == {"idle", "loaded", "refused", "affordable", "charging", "half",
         "top_up", "activating"}

\* ent and on are the copies an actor has loaded, today is the day a task began,
\* seen is the balance read under the lock, and amount what is added to it.
Job == [at : Step, on : BOOLEAN, ent : Entitlement, today : Nat, seen : Int, amount : Int]

TypeOK ==
  /\ day \in Nat
  /\ on \in BOOLEAN
  /\ ent \in Entitlement
  /\ total \in Int
  /\ after \in Int
  /\ charges \in Seq([from : Nat, to : Nat])
  /\ lock \in Actors \union {Nobody}
  /\ job \in [Actors -> Job]

NotEntitled == [active |-> FALSE, starts |-> 0, expires |-> 0]

Rest == [at |-> "idle", on |-> FALSE, ent |-> NotEntitled, today |-> 0, seen |-> 0, amount |-> 0]

\* A restaurant that has been activated for a first period.
Init ==
  /\ day = 0
  /\ on = TRUE
  /\ ent = [active |-> TRUE, starts |-> 0, expires |-> Period]
  /\ total = 0
  /\ after = 0
  /\ charges = <<>>
  /\ lock = Nobody
  /\ job = [a \in Actors |-> Rest]

At(a, step) == job[a].at = step

\* An UPDATE of a row waits for a transaction that has written it.
Free == lock = Nobody

-----------------------------------------------------------------------------
\* extend_restaurant_entitlement: one more period after the one that runs, or
\* from today on when none does.
Extended(e, today) ==
  IF e.expires >= today
  THEN [active |-> TRUE, starts |-> e.starts, expires |-> e.expires + Period]
  ELSE [active |-> TRUE, starts |-> today, expires |-> today + Period]

\* An entitlement the task looks for.
Due == on /\ ent.active /\ ent.expires < day

\* The query for all expired entitlements, before any of them is handled.
Collect(t) ==
  /\ At(t, "idle")
  /\ Due
  /\ job' = [job EXCEPT ![t] = [Rest EXCEPT !.at = "loaded", !.on = on, !.ent = ent, !.today = day]]
  /\ UNCHANGED <<day, on, ent, books, lock>>

\* Mutant: a balance that is not empty pays for a period.
CheckNotEmpty(t) ==
  /\ At(t, "loaded")
  /\ job' = [job EXCEPT ![t].at = IF total > 0 THEN "affordable" ELSE "refused"]
  /\ UNCHANGED <<day, on, ent, books, lock>>

\* This restaurant's turn: is there enough for a period?
Check(t) ==
  /\ At(t, "loaded")
  /\ job' = [job EXCEPT ![t].at = IF total >= Price THEN "affordable" ELSE "refused"]
  /\ UNCHANGED <<day, on, ent, books, lock>>

\* The entitlement is written, the restaurant locked and the balance read again,
\* this time for balance_after only.
BeginCharge(t) ==
  /\ At(t, "affordable")
  /\ Free
  /\ lock' = t
  /\ job' = [job EXCEPT ![t].at = "charging", ![t].seen = total, ![t].amount = -Price]
  /\ UNCHANGED <<day, on, ent, books>>

\* Mutant: the period is charged for again with every try, paid before or not.
CommitChargeKept(t) ==
  /\ At(t, "charging")
  /\ total' = total + job[t].amount
  /\ after' = job[t].seen + job[t].amount
  /\ charges' = Append(charges, [from |-> job[t].today, to |-> job[t].today + Period])
  /\ lock' = Nobody
  /\ job' = [job EXCEPT ![t] = Rest]
  /\ UNCHANGED <<day, on, ent>>

CommitCharge(t) ==
  /\ At(t, "charging")
  /\ LET new == Extended(job[t].ent, job[t].today)
     IN /\ ent' = new
        /\ charges' = Append(charges, [from |-> new.starts, to |-> new.expires])
  /\ total' = total + job[t].amount
  /\ after' = job[t].seen + job[t].amount
  /\ lock' = Nobody
  /\ job' = [job EXCEPT ![t] = Rest]
  /\ UNCHANGED <<day, on>>

\* Mutant: the flag of the restaurant is left to the admins.
SwitchOffLater(t) ==
  /\ At(t, "refused")
  /\ Free
  /\ job' = [job EXCEPT ![t] = Rest]
  /\ UNCHANGED <<day, on, ent, books, lock>>

\* deactivate_restaurant_access: the restaurant's row,
SwitchOff(t) ==
  /\ At(t, "refused")
  /\ Free
  /\ on' = FALSE
  /\ job' = [job EXCEPT ![t].at = "half"]
  /\ UNCHANGED <<day, ent, books, lock>>

\* and, if it was active when loaded, the entitlement's.  (Tasks and admins.)
SwitchOffEntitlement(a) ==
  /\ At(a, "half")
  /\ Free
  /\ ent' = [ent EXCEPT !.active = @ /\ ~job[a].ent.active]
  /\ job' = [job EXCEPT ![a] = Rest]
  /\ UNCHANGED <<day, on, books, lock>>

\* The worker is killed; an open transaction is rolled back.
Crash(t) ==
  /\ MayCrash
  /\ ~At(t, "idle")
  /\ lock' = IF lock = t THEN Nobody ELSE lock
  /\ job' = [job EXCEPT ![t] = Rest]
  /\ UNCHANGED <<day, on, ent, books>>

-----------------------------------------------------------------------------
\* What has been topped up since the last activation, and what was left then.
Paid == total + Price * Len(charges)

\* Mutant: the balance is summed up without the lock.
BeginTopUpUnlocked(a, amount) ==
  /\ At(a, "idle") /\ "top_up" \in Kinds
  /\ Paid + amount <= MaxPaid
  /\ job' = [job EXCEPT ![a] = [Rest EXCEPT !.at = "top_up", !.seen = total, !.amount = amount]]
  /\ UNCHANGED <<day, on, ent, books, lock>>

\* create_restaurant_top_up locks the restaurant and reads the balance,
BeginTopUp(a, amount) ==
  /\ At(a, "idle") /\ "top_up" \in Kinds
  /\ Paid + amount <= MaxPaid
  /\ Free
  /\ lock' = a
  /\ job' = [job EXCEPT ![a] = [Rest EXCEPT !.at = "top_up", !.seen = total, !.amount = amount]]
  /\ UNCHANGED <<day, on, ent, books>>

CommitTopUp(a) ==
  /\ At(a, "top_up")
  /\ total' = total + job[a].amount
  /\ after' = job[a].seen + job[a].amount
  /\ lock' = Nobody
  /\ job' = [job EXCEPT ![a] = Rest]
  /\ UNCHANGED <<day, on, ent, charges>>

\* Every other request begins with loading both rows.
Load(a) ==
  /\ At(a, "idle") /\ Kinds \ {"top_up"} # {}
  /\ job' = [job EXCEPT ![a] = [Rest EXCEPT !.at = "loaded", !.on = on, !.ent = ent]]
  /\ UNCHANGED <<day, on, ent, books, lock>>

Extend(a) ==
  /\ At(a, "loaded") /\ "extend" \in Kinds
  /\ job[a].ent.expires < MaxDay
  /\ Free
  /\ ent' = Extended(job[a].ent, day)
  /\ on' = (on \/ ~job[a].on)
  /\ job' = [job EXCEPT ![a] = Rest]
  /\ UNCHANGED <<day, books, lock>>

Deactivate(a) ==
  /\ At(a, "loaded") /\ "deactivate" \in Kinds
  /\ Free
  /\ on' = FALSE
  /\ job' = [job EXCEPT ![a].at = "half"]
  /\ UNCHANGED <<day, ent, books, lock>>

\* RestaurantActivateView writes the entitlement, for a period of the past too,
Activate(a, starts) ==
  /\ At(a, "loaded") /\ "activate" \in Kinds
  /\ Free
  /\ ent' = [active |-> TRUE, starts |-> starts, expires |-> starts + Period]
  /\ charges' = <<>>
  /\ job' = [job EXCEPT ![a].at = "activating"]
  /\ UNCHANGED <<day, on, total, after, lock>>

\* gives the restaurant an admin, and switches it on.
FinishActivation(a) ==
  /\ At(a, "activating")
  /\ Free
  /\ on' = TRUE
  /\ job' = [job EXCEPT ![a] = Rest]
  /\ UNCHANGED <<day, ent, books, lock>>

\* The restaurant's form writes the whole row.  is_active is a field of it: the
\* request sets it, or it is written back as it was loaded.
SaveSettings(a, flag) ==
  /\ At(a, "loaded") /\ "settings" \in Kinds
  /\ Free
  /\ on' = flag
  /\ job' = [job EXCEPT ![a] = Rest]
  /\ UNCHANGED <<day, ent, books, lock>>

Tick ==
  /\ day < MaxDay
  /\ day' = day + 1
  /\ UNCHANGED <<on, ent, books, lock, job>>

-----------------------------------------------------------------------------
TaskStep(t) ==
  \/ Collect(t) \/ Check(t)
  \/ BeginCharge(t) \/ CommitCharge(t)
  \/ SwitchOff(t) \/ SwitchOffEntitlement(t)

AdminStep(a) ==
  \/ \E amount \in Amounts : BeginTopUp(a, amount)
  \/ CommitTopUp(a)
  \/ Load(a)
  \/ Extend(a)
  \/ Deactivate(a) \/ SwitchOffEntitlement(a)
  \/ \E starts \in 0..day : Activate(a, starts)
  \/ FinishActivation(a)
  \/ \E flag \in BOOLEAN : SaveSettings(a, flag)

Next ==
  \/ \E t \in Tasks : TaskStep(t) \/ Crash(t)
  \/ \E a \in Admins : AdminStep(a)
  \/ Tick

Spec == Init /\ [][Next]_vars

\* The schedule runs the task every hour, without end, and not every run of it is
\* killed; transactions end.  Admins do as they like.
FairSpec ==
  /\ Spec
  /\ \A t \in Tasks : /\ SF_vars(Collect(t)) /\ SF_vars(Check(t))
                      /\ SF_vars(BeginCharge(t)) /\ SF_vars(CommitCharge(t))
                      /\ SF_vars(SwitchOff(t)) /\ SF_vars(SwitchOffEntitlement(t))
  /\ \A a \in Admins : WF_vars(CommitTopUp(a))

-----------------------------------------------------------------------------
\* The newest row of the balance says what the balance is.
BalanceAdds == after = total

\* Nobody's balance is charged below zero.  (With one run of the task at a time.)
NeverOverdrawn == total >= 0

\* No day is charged for twice between two activations.  (With one run at a time.)
ChargedOnce ==
  \A i, j \in 1..Len(charges) : i < j => charges[i].to <= charges[j].from

\* A restaurant whose period is over is renewed or switched off.
ExpiryIsHandled == Due ~> ~Due
=============================================================================
