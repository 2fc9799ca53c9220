------------------------- MODULE SubscriptionProofs -------------------------
(***************************************************************************)
(* Theorems about Subscription, for any number of admins, any price and    *)
(* any period.  Whoever adds a row to the balance holds the restaurant's   *)
(* lock from reading the balance to its commit, so balance_after adds up;  *)
(* and one run of the task at a time never charges what is not there,      *)
(* although it looks at the balance before it takes the lock, nor any day  *)
(* twice, although admins extend the period that it is about to charge.    *)
(***************************************************************************)
EXTENDS Subscription, TLAPS

\* What is needed of the types: an actor's place, and numbers.
Typed ==
  /\ total \in Int
  /\ after \in Int
  /\ job \in [Actors -> Job]

RowsTyped == day \in Nat /\ on \in BOOLEAN /\ ent \in Entitlement

\* Who is about to add a row holds the lock and has seen the balance as it is.
HoldersSee ==
  \A a \in Actors : job[a].at \in {"charging", "top_up"} => lock = a /\ job[a].seen = total

\* What is about to be added: a charge of a task, or a top-up.
AmountsMeant ==
  \A a \in Actors : /\ job[a].at = "charging" => a \in Tasks /\ job[a].amount = -Price
                    /\ job[a].at = "top_up" => job[a].amount \in Nat

Books == RowsTyped /\ Typed /\ HoldersSee /\ AmountsMeant /\ BalanceAdds

LEMMA RestTyped == Rest \in Job
  BY DEF Rest, NotEntitled, Entitlement, Step, Job

LEMMA BooksInit == Init => Books
<1> SUFFICES ASSUME Init
             PROVE  Books
  OBVIOUS
<1>1. RowsTyped
  BY SubscriptionAssumption DEF Init, RowsTyped, Entitlement
<1>2. Typed
  BY RestTyped DEF Init, Typed
<1>3. \A a \in Actors : job[a].at = "idle"
  BY DEF Init, Rest
<1> QED
  BY <1>1, <1>2, <1>3 DEF Init, Books, HoldersSee, AmountsMeant, BalanceAdds

\* An actor moves: it is enough to look at it, if the lock is its own, is free, or
\* stays where it is with the balance unchanged.
LEMMA OneMoves ==
  ASSUME Books, NEW a \in Actors, RowsTyped', Typed', BalanceAdds',
         \A b \in Actors \ {a} : job'[b] = job[b],
         lock \in {a, Nobody} \/ (lock' = lock /\ total' = total),
         job'[a].at \in {"charging", "top_up"} => lock' = a /\ job'[a].seen = total',
         job'[a].at = "charging" => a \in Tasks /\ job'[a].amount = -Price,
         job'[a].at = "top_up" => job'[a].amount \in Nat
  PROVE  Books'
<1>1. HoldersSee'
  <2> SUFFICES ASSUME NEW b \in Actors, job'[b].at \in {"charging", "top_up"}
               PROVE  lock' = b /\ job'[b].seen = total'
    BY DEF HoldersSee
  <2>1. CASE b = a
    BY <2>1
  <2>2. CASE b # a
    <3>1. job'[b] = job[b]
      BY <2>2
    <3>2. lock = b /\ job[b].seen = total
      BY <3>1 DEF Books, HoldersSee
    <3>3. lock' = lock /\ total' = total
      BY <3>2, <2>2, SubscriptionAssumption DEF Actors
    <3> QED
      BY <3>1, <3>2, <3>3
  <2> QED
    BY <2>1, <2>2
<1>2. AmountsMeant'
  <2> SUFFICES ASSUME NEW b \in Actors
               PROVE  /\ job'[b].at = "charging" => b \in Tasks /\ job'[b].amount = -Price
                      /\ job'[b].at = "top_up" => job'[b].amount \in Nat
    BY DEF AmountsMeant
  <2>1. CASE b = a
    BY <2>1
  <2>2. CASE b # a
    BY <2>2 DEF Books, AmountsMeant
  <2> QED
    BY <2>1, <2>2
<1> QED
  BY <1>1, <1>2 DEF Books

\* A step that only moves an actor to another place, neither charging nor topping up.
LEMMA OnlyMoves ==
  ASSUME Books, NEW a \in Actors, NEW r, RowsTyped',
         r \in Job,
         r.at \notin {"charging", "top_up"},
         job' = [job EXCEPT ![a] = r],
         total' = total, after' = after,
         lock' = lock \/ lock = a
  PROVE  Books'
<1>1. Typed' /\ BalanceAdds'
  BY DEF Books, Typed, BalanceAdds
<1>2. job'[a] = r /\ \A b \in Actors \ {a} : job'[b] = job[b]
  BY DEF Books, Typed
<1> QED
  BY <1>1, <1>2, OneMoves

LEMMA BooksStep == Books /\ [Next]_vars => Books'
<1> SUFFICES ASSUME Books, [Next]_vars
             PROVE  Books'
  OBVIOUS
<1>a. \A b \in Actors : job[b] \in Job
  BY DEF Books, Typed
<1>b. Tasks \subseteq Actors /\ Admins \subseteq Actors
  BY DEF Actors
<1>c. RowsTyped /\ Typed /\ total = after
  BY DEF Books, BalanceAdds
<1>1. ASSUME NEW t \in Tasks, Collect(t)
      PROVE  Books'
  <2> DEFINE r == [Rest EXCEPT !.at = "loaded", !.on = on, !.ent = ent, !.today = day]
  <2>1. r \in Job /\ r.at = "loaded"
    BY <1>c, RestTyped DEF RowsTyped, Step, Rest, Job
  <2>2. job' = [job EXCEPT ![t] = r] /\ UNCHANGED <<day, on, ent, total, after, lock>>
    BY <1>1 DEF Collect, books
  <2>3. RowsTyped'
    BY <2>2, <1>c DEF RowsTyped
  <2> HIDE DEF r
  <2> QED
    BY <2>1, <2>2, <2>3, <1>b, OnlyMoves
<1>2. ASSUME NEW t \in Tasks, Check(t)
      PROVE  Books'
  <2> DEFINE r == [job[t] EXCEPT !.at = IF total >= Price THEN "affordable" ELSE "refused"]
  <2>1. r \in Job /\ r.at \in {"affordable", "refused"}
    BY <1>a, <1>b DEF Step, Job
  <2>2. job' = [job EXCEPT ![t] = r] /\ UNCHANGED <<day, on, ent, total, after, lock>>
    BY <1>2 DEF Check, books
  <2>3. RowsTyped'
    BY <2>2, <1>c DEF RowsTyped
  <2> HIDE DEF r
  <2> QED
    BY <2>1, <2>2, <2>3, <1>b, OnlyMoves
<1>3. ASSUME NEW t \in Tasks, BeginCharge(t)
      PROVE  Books'
  <2> DEFINE r == [job[t] EXCEPT !.at = "charging", !.seen = total, !.amount = -Price]
  <2>1. r \in Job /\ r.at = "charging" /\ r.seen = total /\ r.amount = -Price
    <3>1. /\ job[t] \in Job /\ "charging" \in Step /\ total \in Int /\ -Price \in Int
      BY <1>a, <1>b, <1>c, SubscriptionAssumption DEF Step, Typed
    <3>2. r \in Job
      BY <3>1 DEF Job
    <3>3. r.at = "charging" /\ r.seen = total
      BY <3>1 DEF Job
    <3>4. r.amount = -Price
      BY <3>1 DEF Job
    <3> QED
      BY <3>2, <3>3, <3>4
  <2>2. /\ lock = Nobody /\ lock' = t
        /\ job' = [job EXCEPT ![t] = r]
        /\ UNCHANGED <<day, on, ent, total, after>>
    BY <1>3 DEF BeginCharge, Free, books
  <2> HIDE DEF r
  <2>3. RowsTyped' /\ Typed' /\ BalanceAdds'
    BY <2>1, <2>2, <1>c DEF RowsTyped, Typed, BalanceAdds
  <2>4. job'[t] = r /\ \A b \in Actors \ {t} : job'[b] = job[b]
    BY <2>2, <1>b, <1>c DEF Typed
  <2> QED
    BY <2>1, <2>2, <2>3, <2>4, <1>b, OneMoves
<1>4. ASSUME NEW t \in Tasks, CommitCharge(t)
      PROVE  Books'
  <2>1. lock = t /\ job[t].seen = total /\ job[t].amount \in Int
    BY <1>4, <1>a, <1>b DEF CommitCharge, At, Books, HoldersSee, Job
  <2>2. /\ total' = total + job[t].amount
        /\ after' = job[t].seen + job[t].amount
        /\ job' = [job EXCEPT ![t] = Rest]
        /\ UNCHANGED <<day, on>>
        /\ ent' = Extended(job[t].ent, job[t].today)
    BY <1>4 DEF CommitCharge
  <2>3. ent' \in Entitlement
    BY <2>2, <1>a, <1>b, SubscriptionAssumption DEF Extended, Entitlement, Job
  <2>4. RowsTyped' /\ Typed' /\ BalanceAdds'
    <3>1. RowsTyped' /\ BalanceAdds'
      BY <2>1, <2>2, <2>3, <1>c DEF RowsTyped, BalanceAdds
    <3>2. total' \in Int /\ after' \in Int
      BY <2>1, <2>2, <1>c DEF Typed
    <3>3. job' \in [Actors -> Job]
      BY <2>2, <1>c, RestTyped DEF Typed
    <3> QED
      BY <3>1, <3>2, <3>3 DEF Typed
  <2>5. job'[t] = Rest /\ Rest.at = "idle" /\ \A b \in Actors \ {t} : job'[b] = job[b]
    BY <2>2, <1>b, <1>c DEF Typed, Rest
  <2> QED
    BY <2>1, <2>4, <2>5, <1>b, OneMoves
<1>5. ASSUME NEW t \in Tasks, SwitchOff(t)
      PROVE  Books'
  <2> DEFINE r == [job[t] EXCEPT !.at = "half"]
  <2>1. r \in Job /\ r.at = "half"
    BY <1>a, <1>b DEF Step, Job
  <2>2. job' = [job EXCEPT ![t] = r] /\ on' = FALSE /\ UNCHANGED <<day, ent, total, after, lock>>
    BY <1>5 DEF SwitchOff, books
  <2>3. RowsTyped'
    BY <2>2, <1>c DEF RowsTyped
  <2> HIDE DEF r
  <2> QED
    BY <2>1, <2>2, <2>3, <1>b, OnlyMoves
<1>6. ASSUME NEW a \in Actors, SwitchOffEntitlement(a)
      PROVE  Books'
  <2>1. /\ job' = [job EXCEPT ![a] = Rest]
        /\ ent' = [ent EXCEPT !.active = @ /\ ~job[a].ent.active]
        /\ UNCHANGED <<day, on, total, after, lock>>
    BY <1>6 DEF SwitchOffEntitlement, books
  <2>2. RowsTyped'
    BY <2>1, <1>c DEF RowsTyped, Entitlement
  <2>3. Rest.at = "idle"
    BY DEF Rest
  <2> QED
    BY <2>1, <2>2, <2>3, RestTyped, OnlyMoves
<1>7. ASSUME NEW t \in Tasks, Crash(t)
      PROVE  Books'
  <2>1. /\ job' = [job EXCEPT ![t] = Rest]
        /\ lock' = IF lock = t THEN Nobody ELSE lock
        /\ UNCHANGED <<day, on, ent, total, after>>
    BY <1>7 DEF Crash, books
  <2>2. RowsTyped' /\ Rest.at = "idle" /\ (lock' = lock \/ lock = t)
    BY <2>1, <1>c DEF RowsTyped, Rest
  <2> QED
    BY <2>1, <2>2, <1>b, RestTyped, OnlyMoves
<1>8. ASSUME NEW a \in Admins, NEW amount \in Amounts, BeginTopUp(a, amount)
      PROVE  Books'
  <2> DEFINE r == [Rest EXCEPT !.at = "top_up", !.seen = total, !.amount = amount]
  <2>1. r \in Job /\ r.at = "top_up" /\ r.seen = total /\ r.amount \in Nat
    <3>1. Rest \in Job /\ "top_up" \in Step /\ total \in Int /\ amount \in Nat
      BY <1>c, RestTyped, SubscriptionAssumption DEF Step, Typed
    <3>2. amount \in Int
      BY <3>1
    <3>3. r \in Job
      BY <3>1, <3>2 DEF Job
    <3>4. r.at = "top_up" /\ r.seen = total /\ r.amount = amount
      BY <3>1, <3>2 DEF Job
    <3> QED
      BY <3>1, <3>3, <3>4
  <2>2. /\ lock = Nobody /\ lock' = a
        /\ job' = [job EXCEPT ![a] = r]
        /\ UNCHANGED <<day, on, ent, total, after>>
    BY <1>8 DEF BeginTopUp, Free, books
  <2> HIDE DEF r
  <2>3. RowsTyped' /\ Typed' /\ BalanceAdds'
    BY <2>1, <2>2, <1>c DEF RowsTyped, Typed, BalanceAdds
  <2>4. job'[a] = r /\ \A b \in Actors \ {a} : job'[b] = job[b]
    BY <2>2, <1>b, <1>c DEF Typed
  <2> QED
    BY <2>1, <2>2, <2>3, <2>4, <1>b, OneMoves
<1>9. ASSUME NEW a \in Admins, CommitTopUp(a)
      PROVE  Books'
  <2>1. lock = a /\ job[a].seen = total /\ job[a].amount \in Int
    BY <1>9, <1>a, <1>b DEF CommitTopUp, At, Books, HoldersSee, Job
  <2>2. /\ total' = total + job[a].amount
        /\ after' = job[a].seen + job[a].amount
        /\ job' = [job EXCEPT ![a] = Rest]
        /\ UNCHANGED <<day, on, ent>>
    BY <1>9 DEF CommitTopUp
  <2>3. RowsTyped' /\ Typed' /\ BalanceAdds'
    <3>1. RowsTyped' /\ BalanceAdds'
      BY <2>1, <2>2, <1>c DEF RowsTyped, BalanceAdds
    <3>2. total' \in Int /\ after' \in Int
      BY <2>1, <2>2, <1>c DEF Typed
    <3>3. job' \in [Actors -> Job]
      BY <2>2, <1>c, RestTyped DEF Typed
    <3> QED
      BY <3>1, <3>2, <3>3 DEF Typed
  <2>4. job'[a] = Rest /\ Rest.at = "idle" /\ \A b \in Actors \ {a} : job'[b] = job[b]
    BY <2>2, <1>b, <1>c DEF Typed, Rest
  <2> QED
    BY <2>1, <2>3, <2>4, <1>b, OneMoves
<1>10. ASSUME NEW a \in Admins, Load(a)
       PROVE  Books'
  <2> DEFINE r == [Rest EXCEPT !.at = "loaded", !.on = on, !.ent = ent]
  <2>1. r \in Job /\ r.at = "loaded"
    BY <1>c, RestTyped DEF RowsTyped, Step, Rest, Job
  <2>2. job' = [job EXCEPT ![a] = r] /\ UNCHANGED <<day, on, ent, total, after, lock>>
    BY <1>10 DEF Load, books
  <2>3. RowsTyped'
    BY <2>2, <1>c DEF RowsTyped
  <2> HIDE DEF r
  <2> QED
    BY <2>1, <2>2, <2>3, <1>b, OnlyMoves
<1>11. ASSUME NEW a \in Admins, Extend(a)
       PROVE  Books'
  <2>1. /\ job' = [job EXCEPT ![a] = Rest]
        /\ ent' = Extended(job[a].ent, day)
        /\ on' = (on \/ ~job[a].on)
        /\ UNCHANGED <<day, total, after, lock>>
    BY <1>11 DEF Extend, books
  <2>2. ent' \in Entitlement
    BY <2>1, <1>a, <1>b, <1>c, SubscriptionAssumption DEF Extended, Entitlement, RowsTyped, Job
  <2>3. RowsTyped' /\ Rest.at = "idle"
    BY <2>1, <2>2, <1>c DEF RowsTyped, Rest
  <2> QED
    BY <2>1, <2>3, <1>b, RestTyped, OnlyMoves
<1>12. ASSUME NEW a \in Admins, Deactivate(a)
       PROVE  Books'
  <2> DEFINE r == [job[a] EXCEPT !.at = "half"]
  <2>1. r \in Job /\ r.at = "half"
    BY <1>a, <1>b DEF Step, Job
  <2>2. job' = [job EXCEPT ![a] = r] /\ on' = FALSE /\ UNCHANGED <<day, ent, total, after, lock>>
    BY <1>12 DEF Deactivate, books
  <2>3. RowsTyped'
    BY <2>2, <1>c DEF RowsTyped
  <2> HIDE DEF r
  <2> QED
    BY <2>1, <2>2, <2>3, <1>b, OnlyMoves
<1>13. ASSUME NEW a \in Admins, NEW starts \in 0..day, Activate(a, starts)
       PROVE  Books'
  <2> DEFINE r == [job[a] EXCEPT !.at = "activating"]
  <2>1. r \in Job /\ r.at = "activating"
    BY <1>a, <1>b DEF Step, Job
  <2>2. /\ job' = [job EXCEPT ![a] = r]
        /\ ent' = [active |-> TRUE, starts |-> starts, expires |-> starts + Period]
        /\ UNCHANGED <<day, on, total, after, lock>>
    BY <1>13 DEF Activate, books
  <2>3. RowsTyped'
    BY <2>2, <1>c, SubscriptionAssumption DEF RowsTyped, Entitlement
  <2> HIDE DEF r
  <2> QED
    BY <2>1, <2>2, <2>3, <1>b, OnlyMoves
<1>14. ASSUME NEW a \in Admins, FinishActivation(a) \/ \E flag \in BOOLEAN : SaveSettings(a, flag)
       PROVE  Books'
  <2>1. /\ job' = [job EXCEPT ![a] = Rest]
        /\ on' \in BOOLEAN
        /\ UNCHANGED <<day, ent, total, after, lock>>
    BY <1>14 DEF FinishActivation, SaveSettings, books
  <2>2. RowsTyped' /\ Rest.at = "idle"
    BY <2>1, <1>c DEF RowsTyped, Rest
  <2> QED
    BY <2>1, <2>2, <1>b, RestTyped, OnlyMoves
<1>15. CASE Tick \/ UNCHANGED vars
  <2>1. UNCHANGED <<on, ent, total, after, lock, job>> /\ day' \in Nat
    BY <1>15, <1>c DEF Tick, vars, books, RowsTyped
  <2> QED
    BY <2>1 DEF Books, RowsTyped, Typed, HoldersSee, AmountsMeant, BalanceAdds
<1>16. ASSUME NEW t \in Tasks, TaskStep(t)
       PROVE  Books'
  BY <1>16, <1>1, <1>2, <1>3, <1>4, <1>5, <1>6, <1>b DEF TaskStep
<1>17. ASSUME NEW a \in Admins, AdminStep(a)
       PROVE  Books'
  BY <1>17, <1>6, <1>8, <1>9, <1>10, <1>11, <1>12, <1>13, <1>14, <1>b DEF AdminStep
<1> QED
  BY <1>7, <1>15, <1>16, <1>17 DEF Next

LEMMA BooksAlways == Spec => []Books
  BY BooksInit, BooksStep, PTL DEF Spec

\* balance_after of the newest row is the balance, whoever tops up and whatever
\* number of tasks charge at the same time.
THEOREM BalanceAlwaysAdds == Spec => []BalanceAdds
<1>1. Books => BalanceAdds
  BY DEF Books
<1> QED
  BY <1>1, BooksAlways, PTL
-----------------------------------------------------------------------------
\* With one run of the task: what it has found to be enough stays enough until it
\* is charged, as others only add to the balance.
Solvent(t) ==
  /\ total >= 0
  /\ job[t].at \in {"affordable", "charging"} => total >= Price

LEMMA SolventStep ==
  ASSUME NEW t, Tasks = {t}, Books, Solvent(t), [Next]_vars
  PROVE  Solvent(t)'
<1>a. t \in Actors /\ t \notin Admins
  BY SubscriptionAssumption DEF Actors
<1>b. total \in Int /\ job \in [Actors -> Job] /\ Price \in Nat
  BY SubscriptionAssumption DEF Books, Typed
<1>1. CASE Check(t)
  BY <1>1, <1>a, <1>b DEF Check, Solvent, books, Job
<1>2. CASE BeginCharge(t)
  BY <1>2, <1>a, <1>b DEF BeginCharge, Solvent, books, At
<1>3. CASE CommitCharge(t)
  <2>1. job[t].amount = -Price /\ total >= Price
    BY <1>3, <1>a DEF CommitCharge, At, Books, AmountsMeant, Solvent
  <2>2. total' = total - Price /\ job'[t].at = "idle"
    BY <1>3, <2>1, <1>a, <1>b DEF CommitCharge, Rest
  <2> QED
    BY <2>1, <2>2, <1>b DEF Solvent
<1>4. CASE Collect(t) \/ SwitchOff(t) \/ SwitchOffEntitlement(t) \/ Crash(t)
  <2>1. total' = total
    BY <1>4 DEF Collect, SwitchOff, SwitchOffEntitlement, Crash, books
  <2>2. CASE Collect(t)
    <3> DEFINE new == [Rest EXCEPT !.at = "loaded", !.on = on, !.ent = ent, !.today = day]
    <3>1. new.at = "loaded"
      BY DEF Rest
    <3>2. job' = [job EXCEPT ![t] = new]
      BY <2>2 DEF Collect
    <3> HIDE DEF new
    <3>3. job'[t].at = "loaded"
      BY <3>1, <3>2, <1>a, <1>b
    <3> QED
      BY <2>1, <3>3 DEF Solvent
  <2>3. CASE SwitchOff(t)
    <3>1. job'[t].at = "half"
      BY <2>3, <1>a, <1>b DEF SwitchOff, Job
    <3> QED
      BY <2>1, <3>1 DEF Solvent
  <2>4. CASE SwitchOffEntitlement(t) \/ Crash(t)
    <3>1. job' = [job EXCEPT ![t] = Rest]
      BY <2>4 DEF SwitchOffEntitlement, Crash
    <3>2. job'[t].at = "idle"
      BY <3>1, <1>a, <1>b DEF Rest
    <3> QED
      BY <2>1, <3>2 DEF Solvent
  <2> QED
    BY <1>4, <2>2, <2>3, <2>4
<1>5. ASSUME NEW a \in Admins, AdminStep(a)
      PROVE  Solvent(t)'
  <2>1. a \in Actors /\ a # t
    BY <1>a DEF Actors
  <2>2. job'[t] = job[t]
    BY <1>5, <2>1, <1>a, <1>b DEF AdminStep, BeginTopUp, CommitTopUp, Load, Extend, Deactivate,
         SwitchOffEntitlement, Activate, FinishActivation, SaveSettings
  <2>3. CASE CommitTopUp(a)
    <3>1. job[a].amount \in Nat
      BY <2>3, <2>1 DEF CommitTopUp, At, Books, AmountsMeant
    <3>2. total' = total + job[a].amount
      BY <2>3 DEF CommitTopUp
    <3> QED
      BY <3>1, <3>2, <2>2, <1>b DEF Solvent
  <2>4. CASE total' = total
    BY <2>4, <2>2 DEF Solvent
  <2> QED
    BY <1>5, <2>3, <2>4 DEF AdminStep, BeginTopUp, Load, Extend, Deactivate,
         SwitchOffEntitlement, Activate, FinishActivation, SaveSettings, books
<1>6. CASE Tick \/ UNCHANGED vars
  BY <1>6 DEF Tick, vars, books, Solvent
<1> QED
  BY <1>1, <1>2, <1>3, <1>4, <1>5, <1>6 DEF Next, TaskStep

\* With one run of the task at a time the balance is never charged below zero.
THEOREM NoOverdraft ==
  ASSUME NEW t, Tasks = {t}
  PROVE  Spec => []NeverOverdrawn
<1>1. Init => Solvent(t)
  BY DEF Init, Solvent, Rest, Actors
<1>2. Books /\ Solvent(t) /\ [Next]_vars => Solvent(t)'
  BY SolventStep
<1>3. Solvent(t) => NeverOverdrawn
  BY DEF Solvent, NeverOverdrawn
<1> QED
  BY <1>1, <1>2, <1>3, BooksAlways, PTL DEF Spec
-----------------------------------------------------------------------------
\* What happens to the charges, the day and the lock in each step of an actor.
Charge == [from : Nat, to : Nat]

ChargesTyped == charges \in Seq(Charge) /\ lock \in Actors \union {Nobody}

LEMMA TaskCharges ==
  ASSUME NEW t \in Tasks, TaskStep(t) \/ Crash(t)
  PROVE  /\ charges' = charges \/ CommitCharge(t)
         /\ lock' = lock \/ lock' = t \/ lock' = Nobody
         /\ day' = day
<1>1. CASE CommitCharge(t)
  BY <1>1 DEF CommitCharge
<1>2. CASE Collect(t) \/ Check(t) \/ BeginCharge(t) \/ SwitchOff(t) \/ SwitchOffEntitlement(t) \/ Crash(t)
  BY <1>2 DEF Collect, Check, BeginCharge, SwitchOff, SwitchOffEntitlement, Crash, books
<1> QED
  BY <1>1, <1>2 DEF TaskStep

LEMMA AdminCharges ==
  ASSUME NEW a \in Admins, AdminStep(a)
  PROVE  /\ \/ charges' = charges /\ (ent'.expires = ent.expires \/ Extend(a))
            \/ charges' = <<>>
         /\ lock' = lock \/ lock' = a \/ lock' = Nobody
         /\ day' = day
<1>1. ASSUME NEW starts \in 0..day, Activate(a, starts)
      PROVE  charges' = <<>> /\ lock' = lock /\ day' = day
  BY <1>1 DEF Activate
<1>2. ASSUME NEW amount \in Amounts, BeginTopUp(a, amount)
      PROVE  charges' = charges /\ ent' = ent /\ lock' = a /\ day' = day
  BY <1>2 DEF BeginTopUp, books
<1>3. CASE CommitTopUp(a) \/ Load(a) \/ Deactivate(a) \/ FinishActivation(a)
           \/ \E flag \in BOOLEAN : SaveSettings(a, flag)
  BY <1>3 DEF CommitTopUp, Load, Deactivate, FinishActivation, SaveSettings, books
<1>4. CASE SwitchOffEntitlement(a)
  <2>1. ent' = [ent EXCEPT !.active = ent.active /\ ~job[a].ent.active]
    BY <1>4 DEF SwitchOffEntitlement
  <2>2. ent'.expires = ent.expires
    BY <2>1
  <2> QED
    BY <1>4, <2>2 DEF SwitchOffEntitlement, books
<1>5. CASE Extend(a)
  BY <1>5 DEF Extend, books
<1> QED
  BY <1>1, <1>2, <1>3, <1>4, <1>5 DEF AdminStep

\* The period that is charged for begins on the day the task began.
LEMMA ChargedPeriod ==
  ASSUME Books, NEW t \in Tasks, CommitCharge(t)
  PROVE  \E c \in Charge :
           /\ charges' = Append(charges, c)
           /\ ent'.expires = c.to
           /\ job[t].ent.expires < job[t].today => c.from = job[t].today /\ c.to = job[t].today + Period
<1> DEFINE new == Extended(job[t].ent, job[t].today)
           c == [from |-> new.starts, to |-> new.expires]
<1>1. job[t] \in Job
  BY DEF Books, Typed, Actors
<1>2. job[t].ent \in Entitlement /\ job[t].today \in Nat /\ Period \in Nat
  BY <1>1, SubscriptionAssumption DEF Job
<1>3. new.starts \in Nat /\ new.expires \in Nat
  BY <1>2 DEF Extended, Entitlement
<1>4. job[t].ent.expires < job[t].today => new.starts = job[t].today /\ new.expires = job[t].today + Period
  BY <1>2 DEF Extended, Entitlement
<1>5. charges' = Append(charges, c) /\ ent' = new
  BY DEF CommitCharge
<1> HIDE DEF new
<1>6. c \in Charge /\ c.from = new.starts /\ c.to = new.expires
  BY <1>3 DEF Charge
<1> QED
  BY <1>4, <1>5, <1>6

\* Every reachable state of the rows, the books, the lock and the actors is well
\* typed (RestaurantEntitlement, RestaurantBalanceTransaction).
THEOREM Typing == Spec => []TypeOK
<1>1. Init => ChargesTyped
  BY DEF Init, ChargesTyped
<1>2. Books /\ ChargesTyped /\ [Next]_vars => ChargesTyped'
  <2> SUFFICES ASSUME Books, ChargesTyped, [Next]_vars
               PROVE  ChargesTyped'
    OBVIOUS
  <2>1. ASSUME NEW t \in Tasks, TaskStep(t) \/ Crash(t)
        PROVE  ChargesTyped'
    <3>1. charges' = charges \/ \E c \in Charge : charges' = Append(charges, c)
      BY <2>1, TaskCharges, ChargedPeriod
    <3>2. charges' \in Seq(Charge)
      <4>1. charges \in Seq(Charge)
        BY DEF ChargesTyped
      <4>2. ASSUME NEW c \in Charge
            PROVE  Append(charges, c) \in Seq(Charge)
        BY <4>1
      <4> QED
        BY <3>1, <4>1, <4>2
    <3>3. lock' \in Actors \union {Nobody}
      <4>1. lock' = lock \/ lock' = t \/ lock' = Nobody
        BY <2>1, TaskCharges, Zenon
      <4> QED
        BY <4>1 DEF ChargesTyped, Actors
    <3> QED
      BY <3>2, <3>3 DEF ChargesTyped
  <2>2. ASSUME NEW a \in Admins, AdminStep(a)
        PROVE  ChargesTyped'
    <3>1. charges' = charges \/ charges' = <<>>
      BY <2>2, AdminCharges
    <3>2. lock' = lock \/ lock' = a \/ lock' = Nobody
      BY <2>2, AdminCharges
    <3>3. charges' \in Seq(Charge)
      <4>1. charges \in Seq(Charge)
        BY DEF ChargesTyped
      <4>2. <<>> \in Seq(Charge)
        OBVIOUS
      <4> QED
        BY <3>1, <4>1, <4>2, Zenon
    <3>4. lock' \in Actors \union {Nobody}
      BY <3>2 DEF ChargesTyped, Actors
    <3> QED
      BY <3>3, <3>4 DEF ChargesTyped
  <2>3. CASE Tick \/ UNCHANGED vars
    BY <2>3 DEF Tick, vars, books, ChargesTyped
  <2> QED
    BY <2>1, <2>2, <2>3 DEF Next
<1>3. Books /\ ChargesTyped => TypeOK
  BY DEF Books, RowsTyped, Typed, ChargesTyped, Charge, TypeOK
<1> QED
  BY BooksAlways, <1>1, <1>2, <1>3, PTL DEF Spec

-----------------------------------------------------------------------------
\* With one run of the task: a restaurant is entitled to no less than what it has
\* been charged for, whatever the admins write; and what the task has found to be
\* over ends before the day it charges from.
Covered(t) ==
  /\ charges \in Seq(Charge)
  /\ \A i \in 1..Len(charges) : charges[i].to <= ent.expires /\ charges[i].to <= day + Period
  /\ job[t].at \in {"loaded", "affordable", "charging"} =>
       /\ job[t].today <= day
       /\ job[t].ent.expires < job[t].today
       /\ \A i \in 1..Len(charges) : charges[i].to <= job[t].today
  /\ ChargedOnce

\* Covered holds on if the charges are as they were or none.
LEMMA StillCovered ==
  ASSUME NEW t \in Tasks, Books, Books', Covered(t),
         charges' = charges \/ charges' = <<>>,
         ent'.expires >= ent.expires \/ ent'.expires >= day + Period \/ charges' = <<>>,
         day' = day \/ day' = day + 1,
         \/ job'[t].at \notin {"loaded", "affordable", "charging"}
         \/ /\ job[t].at \in {"loaded", "affordable", "charging"}
            /\ job'[t].today = job[t].today /\ job'[t].ent = job[t].ent
         \/ /\ job'[t].today = day /\ job'[t].ent = ent /\ ent.expires < day
  PROVE  Covered(t)'
<1>1. /\ day \in Nat /\ Period \in Nat /\ ent.expires \in Nat /\ ent'.expires \in Nat
      /\ job[t].today \in Nat /\ job[t].ent.expires \in Nat
      /\ job'[t].today \in Nat /\ job'[t].ent.expires \in Nat
  <2>1. \A r \in Job : r.today \in Nat /\ r.ent.expires \in Nat
    BY DEF Job, Entitlement
  <2>2. job[t] \in Job /\ job'[t] \in Job
    BY DEF Books, Typed, Actors
  <2>3. day \in Nat /\ Period \in Nat /\ ent \in Entitlement /\ ent' \in Entitlement
    BY SubscriptionAssumption DEF Books, RowsTyped
  <2>4. \A e \in Entitlement : e.expires \in Nat
    BY DEF Entitlement
  <2>5. ent.expires \in Nat /\ ent'.expires \in Nat
    BY <2>3, <2>4, Zenon
  <2>6. /\ job[t].today \in Nat /\ job[t].ent.expires \in Nat
        /\ job'[t].today \in Nat /\ job'[t].ent.expires \in Nat
    BY <2>1, <2>2, Zenon
  <2> QED
    BY <2>3, <2>5, <2>6
<1>2. /\ charges' \in Seq(Charge)
      /\ \A i \in 1..Len(charges') : i \in 1..Len(charges) /\ charges'[i] = charges[i] /\ charges[i].to \in Nat
  <2>1. charges \in Seq(Charge) /\ \A e \in Charge : e.to \in Nat
    BY DEF Covered, Charge
  <2>2. \A i \in 1..Len(charges) : charges[i] \in Charge
    BY <2>1
  <2>3. CASE charges' = charges
    BY <2>1, <2>2, <2>3
  <2>4. CASE charges' = <<>>
    BY <2>1, <2>4
  <2> QED
    BY <2>3, <2>4
<1>3. \A i \in 1..Len(charges') : charges'[i].to <= ent'.expires /\ charges'[i].to <= day' + Period
  <2> SUFFICES ASSUME NEW i \in 1..Len(charges')
               PROVE  charges'[i].to <= ent'.expires /\ charges'[i].to <= day' + Period
    OBVIOUS
  <2>1. i \in 1..Len(charges) /\ charges'[i].to = charges[i].to /\ charges[i].to \in Nat
    BY <1>2
  <2>2. charges[i].to <= ent.expires /\ charges[i].to <= day + Period
    BY <2>1 DEF Covered
  <2> QED
    BY <1>1, <2>1, <2>2
<1>4. job'[t].at \in {"loaded", "affordable", "charging"} =>
        /\ job'[t].today <= day'
        /\ job'[t].ent.expires < job'[t].today
        /\ \A i \in 1..Len(charges') : charges'[i].to <= job'[t].today
  <2> SUFFICES ASSUME job'[t].at \in {"loaded", "affordable", "charging"}
               PROVE  /\ job'[t].today <= day'
                      /\ job'[t].ent.expires < job'[t].today
                      /\ \A i \in 1..Len(charges') : charges'[i].to <= job'[t].today
    OBVIOUS
  <2>1. CASE /\ job[t].at \in {"loaded", "affordable", "charging"}
             /\ job'[t].today = job[t].today /\ job'[t].ent = job[t].ent
    <3>1. /\ job[t].today <= day /\ job[t].ent.expires < job[t].today
          /\ \A i \in 1..Len(charges) : charges[i].to <= job[t].today
      BY <2>1 DEF Covered
    <3>2. \A i \in 1..Len(charges') : charges'[i].to <= job'[t].today
      BY <1>2, <2>1, <3>1
    <3> QED
      BY <1>1, <2>1, <3>1, <3>2
  <2>2. CASE job'[t].today = day /\ job'[t].ent = ent /\ ent.expires < day
    <3>1. ASSUME NEW i \in 1..Len(charges')
          PROVE  charges'[i].to <= day
      <4>1. i \in 1..Len(charges) /\ charges'[i].to = charges[i].to /\ charges[i].to \in Nat
        BY <1>2
      <4>2. charges[i].to <= ent.expires
        BY <4>1 DEF Covered
      <4> QED
        BY <1>1, <2>2, <4>1, <4>2
    <3> QED
      BY <1>1, <2>2, <3>1
  <2> QED
    BY <2>1, <2>2
<1>5. ChargedOnce'
  BY <1>2 DEF Covered, ChargedOnce
<1> QED
  BY <1>2, <1>3, <1>4, <1>5 DEF Covered

LEMMA ChargeCovered ==
  ASSUME NEW t \in Tasks, Books, Books', Covered(t), CommitCharge(t)
  PROVE  Covered(t)'
<1>1. job[t].at = "charging" /\ job' = [job EXCEPT ![t] = Rest] /\ day' = day
  BY DEF CommitCharge, At
<1>2. job'[t].at = "idle"
  BY <1>1 DEF Books, Typed, Actors, Rest
<1>3. /\ job[t].today <= day /\ job[t].ent.expires < job[t].today
      /\ \A i \in 1..Len(charges) : charges[i].to <= job[t].today
      /\ charges \in Seq(Charge) /\ ChargedOnce
  BY <1>1 DEF Covered
<1>4. job[t].today \in Nat /\ day \in Nat /\ Period \in Nat
  BY SubscriptionAssumption DEF Books, RowsTyped, Typed, Job, Actors
<1>5. PICK c \in Charge : /\ charges' = Append(charges, c) /\ ent'.expires = c.to
                          /\ c.from = job[t].today /\ c.to = job[t].today + Period
  BY <1>3, ChargedPeriod
<1>6. /\ charges' \in Seq(Charge) /\ Len(charges') = Len(charges) + 1 /\ Len(charges) \in Nat
      /\ \A i \in 1..Len(charges) : charges'[i] = charges[i] /\ charges[i].to \in Nat
      /\ charges'[Len(charges) + 1] = c
  <2>1. \A i \in 1..Len(charges) : charges[i] \in Charge
    BY <1>3
  <2>2. \A e \in Charge : e.to \in Nat
    BY DEF Charge
  <2> QED
    BY <1>3, <1>5, <2>1, <2>2
<1>7. \A i \in 1..Len(charges') : i \in 1..Len(charges) \/ i = Len(charges) + 1
  BY <1>6
<1>8. \A i \in 1..Len(charges') : charges'[i].to <= ent'.expires /\ charges'[i].to <= day' + Period
  BY <1>1, <1>3, <1>4, <1>5, <1>6, <1>7
<1>9. ChargedOnce'
  <2> SUFFICES ASSUME NEW i \in 1..Len(charges'), NEW j \in 1..Len(charges'), i < j
               PROVE  charges'[i].to <= charges'[j].from
    BY DEF ChargedOnce
  <2>1. i \in 1..Len(charges)
    BY <1>6, <1>7
  <2>2. CASE j \in 1..Len(charges)
    BY <1>3, <1>6, <2>1, <2>2 DEF ChargedOnce
  <2>3. CASE j = Len(charges) + 1
    BY <1>3, <1>5, <1>6, <2>1, <2>3
  <2> QED
    BY <1>7, <2>2, <2>3
<1> QED
  BY <1>2, <1>6, <1>8, <1>9 DEF Covered

LEMMA CoveredStep ==
  ASSUME NEW t, Tasks = {t}, Books, Covered(t), [Next]_vars
  PROVE  Covered(t)'
<1>a. t \in Tasks /\ t \in Actors /\ t \notin Admins
  BY SubscriptionAssumption DEF Actors
<1>b. Books' /\ job \in [Actors -> Job] /\ day \in Nat /\ Period \in Nat /\ ent.expires \in Nat
  BY BooksStep, SubscriptionAssumption DEF Books, RowsTyped, Typed, Entitlement
<1>1. CASE CommitCharge(t)
  BY <1>1, <1>a, <1>b, ChargeCovered
<1>2. CASE Collect(t)
  <2> DEFINE new == [Rest EXCEPT !.at = "loaded", !.on = on, !.ent = ent, !.today = day]
  <2>1. new.today = day /\ new.ent = ent
    BY DEF Rest
  <2>2. job' = [job EXCEPT ![t] = new] /\ ent.expires < day /\ UNCHANGED <<charges, ent, day>>
    BY <1>2 DEF Collect, Due, books
  <2> HIDE DEF new
  <2>3. job'[t] = new
    BY <2>2, <1>a, <1>b
  <2> QED
    BY <2>1, <2>2, <2>3, <1>a, <1>b, StillCovered
<1>3. CASE Check(t) \/ BeginCharge(t)
  <2>1. /\ job[t].at \in {"loaded", "affordable"} /\ UNCHANGED <<charges, ent, day>>
        /\ \/ job' = [job EXCEPT ![t].at = IF total >= Price THEN "affordable" ELSE "refused"]
           \/ job' = [job EXCEPT ![t].at = "charging", ![t].seen = total, ![t].amount = -Price]
    BY <1>3 DEF Check, BeginCharge, At, books
  <2>2. job'[t].today = job[t].today /\ job'[t].ent = job[t].ent
    BY <2>1, <1>a, <1>b DEF Job
  <2> QED
    BY <2>1, <2>2, <1>a, <1>b, StillCovered
<1>4. CASE SwitchOff(t)
  <2>1. job'[t].at = "half" /\ UNCHANGED <<charges, ent, day>>
    BY <1>4, <1>a, <1>b DEF SwitchOff, Job, books
  <2> QED
    BY <2>1, <1>a, <1>b, StillCovered
<1>5. CASE SwitchOffEntitlement(t) \/ Crash(t)
  <2>1. job' = [job EXCEPT ![t] = Rest] /\ UNCHANGED <<charges, day>>
    BY <1>5 DEF SwitchOffEntitlement, Crash, books
  <2>2. job'[t].at = "idle"
    BY <2>1, <1>a, <1>b DEF Rest
  <2>3. ent'.expires = ent.expires
    <3>1. ent' = ent \/ ent' = [ent EXCEPT !.active = ent.active /\ ~job[t].ent.active]
      BY <1>5 DEF SwitchOffEntitlement, Crash
    <3>2. ent \in Entitlement
      BY DEF Books, RowsTyped
    <3>3. [ent EXCEPT !.active = ent.active /\ ~job[t].ent.active].expires = ent.expires
      BY <3>2 DEF Entitlement
    <3> QED
      BY <3>1, <3>3
  <2> QED
    BY <2>1, <2>2, <2>3, <1>a, <1>b, StillCovered
<1>6. ASSUME NEW a \in Admins, AdminStep(a)
      PROVE  Covered(t)'
  <2>1. a \in Actors /\ a # t
    BY <1>a DEF Actors
  <2>2. job'[t] = job[t]
    BY <1>6, <2>1, <1>a, <1>b DEF AdminStep, BeginTopUp, CommitTopUp, Load, Extend, Deactivate,
         SwitchOffEntitlement, Activate, FinishActivation, SaveSettings
  <2>3. Extend(a) => ent'.expires >= day + Period
    <3>1. job[a].ent \in Entitlement
      BY <2>1, <1>b DEF Job
    <3> QED
      BY <3>1, <1>b DEF Extend, Extended, Entitlement
  <2>4. /\ \/ charges' = charges /\ (ent'.expires = ent.expires \/ Extend(a))
           \/ charges' = <<>>
        /\ day' = day
    BY <1>6, AdminCharges
  <2> QED
    BY <2>2, <2>3, <2>4, <1>a, <1>b, StillCovered
<1>7. CASE Tick \/ UNCHANGED vars
  <2>1. UNCHANGED <<charges, ent, job>> /\ (day' = day \/ day' = day + 1)
    BY <1>7 DEF Tick, vars, books
  <2> QED
    BY <2>1, <1>a, <1>b, StillCovered
<1> QED
  BY <1>1, <1>2, <1>3, <1>4, <1>5, <1>6, <1>7 DEF Next, TaskStep

\* With one run of the task at a time no day is charged for twice between two
\* activations, however the admins extend, switch off and save meanwhile
\* (expire_restaurant_entitlements).
THEOREM NoDayChargedTwice ==
  ASSUME NEW t, Tasks = {t}
  PROVE  Spec => []ChargedOnce
<1>1. Init => Covered(t)
  BY DEF Init, Covered, ChargedOnce, Rest, Actors
<1>2. Books /\ Covered(t) /\ [Next]_vars => Covered(t)'
  BY CoveredStep
<1>3. Covered(t) => ChargedOnce
  BY DEF Covered
<1> QED
  BY <1>1, <1>2, <1>3, BooksAlways, PTL DEF Spec
=============================================================================
