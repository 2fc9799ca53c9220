# Verification of the POS backend

TLA+ models of the restaurant POS backend under `src/` (Django 4.2, Channels,
Django-Q), the TLC runs that check them on small instances, and proofs, checked
by TLAPS, of what matters most. `PROJECT.json` maps every definition to the
lines it models, and lists the runs, the hazards, the mutants that show that the
properties can fail, and the theorems.

The reason to have models of this code at all: settings do not set
`ATOMIC_REQUESTS`, and only two places take a row lock
(`sales/services/state.py:28`, `platform/services/restaurant_balances.py:81`). A
request loads rows, decides on the copies in memory and writes some columns
back, with other requests in between, and some of its steps are calls of a
payment terminal or a fiscal device that take up to minutes. What is right about
the result is a matter of orders of steps, which the tests of the repository, one
request after another with mocked devices, do not reach.

## 1. The system

Paths below are relative to `src/apps/`.

| component | state | operations | talks to |
|---|---|---|---|
| orders and items (`sales`) | order (status, total), items | create, add/edit/delete item, submit, patch | kitchen sync, numbering |
| kitchen (`kitchen`) | one ticket per station | cook's update of an item or a ticket; sync after every change of an order | order row, items |
| payments (`billing/services/order_payment.py`) | payment rows | charge (waits for the terminal), browser's terminal payment (initiate, post result), closing of the order | order, session, table, shifts, receipts, terminal |
| fiscal receipts (same file, `integrations/services/unikassa.py`) | receipt rows; the device's memory | issue after a payment, retry | fiscal device behind the local agent |
| shifts (`billing/services/cash_shift.py`, `billing/api/pos/views/context.py`) | cash shifts, fiscal sessions | open, close, close both, ensure open | payments, receipts, device |
| refunds (`billing/services/payment_refund.py`) | refund rows | refund, reprint | payments, device |
| local agents (`local_agents`) | agent row, command rows, websockets | execute a command and poll for it, connect, heartbeat, deliver, store the answer, disconnect | channel layer, the agent |
| numbering (`sales/services/state.py`, `restaurants`) | `last_order_number` | next number under a row lock; save of the restaurant's form | order creation |
| subscriptions (`platform/services`) | entitlement, balance rows, `is_active` | hourly expiry task with renewal, top-up, extend, activate, deactivate, settings | feature gate |
| floor (`floor`) | sessions, tables, halls | open, move, merge, edit a session, close it by a payment, reserve, the table's form, the hall constructor | orders |
| marking (`sales/services/marking.py`) | the codes scanned onto items | scan, remove; check before a payment; labels and parts of a receipt | orders, payments, receipts |
| device integrations (`integrations/services`) | the device's address in the settings | charge, sale, opening and closing of a fiscal shift: each a chain of commands with a search for the device and a synchronisation of its clock | local agents |
| sign-in sessions (`users/services/auth_sessions.py`) | tokens, sessions | issue, revoke | |
| dashboards, reports, prebill, roles, catalogue, message formats | | queries, printing, formatting | |

Behaviours that are hard here:

* **stale copies**: nearly every handler decides on rows it has read before
  (orders, shifts, the expiry task's list, the restaurant's form);
* **calls of devices in the middle of a request**: a charge, a receipt, an opening
  or closing of the fiscal shift; answers that are late, lost, or twice;
* **several writes without a transaction**: order, session and table at the end of
  a payment; payment and receipts; restaurant and entitlement;
* **workers that die** between two writes, the websocket server that dies with its
  rows still saying "online", the broker that hands out a task at most once;
* **derived state**: tickets, ready state and total are recomputed by whoever
  touched the order last, from whatever it had loaded.

What makes each component correct:

* orders and kitchen: tickets, ready state and total follow from the items; an
  open order is unknown to the kitchen; a cancelled or closed order stays so;
* payments: an order is closed only when it is paid for, money that was taken
  closes its order and frees its table, a closed order is not paid again, an
  outcome is final, a charge does not hang;
* receipts: SENT means registered, nothing is registered twice, nothing that is
  missing is forgotten, and what failed can be retried;
* shifts: the totals of a closed shift are its payments, and no receipt of it is
  left behind; the same for the fiscal shift;
* agents: success is real, a command is not repeated, every call ends, the agent's
  status follows its connection;
* numbering: numbers are fresh and without gaps, every order can be made;
* subscriptions: the balance adds up and does not go below zero, no day is charged
  for twice, whoever's period is over is renewed or switched off;
* floor: one party at a table, the table's status column shows who sits there, an
  order that is still to be paid has its guests at a table;
* marking: a code is on one item, no marked piece is sold without a code of its product,
  and the receipts add up to what was paid;
* devices: a device that was asked again has not acted twice, success is reported
  only if it has acted, and the asking ends.

## 2. The modules

A request is a record in `req` (`job` in Subscription): its `pc` and the copies it
holds. A step is what the code does between two points where another request can
get in: the reads, then each group of writes, and a cut around every device call.
A request that is refused writes nothing, and is no step.

**OrderLifecycle** is one order: row, items, tickets by station, payments, session
and table. Actions are named after the handlers: `AddItem`, `UpdateItem`,
`DeleteItem` (reads) and `CommitItem`; `ReadForSubmit`/`CommitSubmit`;
`ReadForPatch`/`SavePatch`; the kitchen's `ReadForKitchenItem`, `SaveKitchenItem`,
`RecalculateKitchen`, `SyncKitchen` and the same for a ticket; `BeginPayment`,
`RefusePayment`, `CreatePayment`, `SaveCharge`, `ReadTerminalResult`,
`SaveTerminalResult`, `CompletePayment`, `ReleaseTable`; `Crash`.
`OrderTicketSyncService.sync` is the operators `SyncedTickets`, `SyncedStatus` and
`SyncedRow`, applied by every action whose handler calls it. Abstractions:

* sync is one step, and so are the reading and writing of `recalculate_totals`, and
  the session and table writes of `ReleaseTable`; `BeginPayment` joins loading the
  order and submitting it;
* a handler in a transaction reads in one step and writes at the commit, as READ
  COMMITTED (Postgres) or a single writer (SQLite) allow;
* missing shift, disabled method, unscanned marking codes, delivery details are
  reasons for `RefusePayment`, which may always happen;
* the price is an arbitrary operator `Cost` of the bill; MCOrderLifecycle gives the
  `recalculate_totals` of the code, with its half-to-even rounding of the fee;
* terminal results are posted only for payments of the terminal flow, as the POS
  does it;
* an item has at least one piece, although the API would take 0.

**Cashier** is the cashier's day: cash shifts of several desks, payments by either
flow, refunds, receipts as an outcome (`none`, `failed`, `sent`) and the fiscal
session. Sums are sets: a closed shift has the set of payments its totals are the
sums of. `posted` is what the device has seen since its shift was opened, since it
refuses to close an empty one (error 9032). Requests to close come from users who
may manage shifts. `Keys` has `NoDesk`, the session of the restaurant, which is
the one that payments open; sessions of single desks are opened only by hand.

**FiscalReceipts** is the receipts of one payment in detail: parts, posts, lost
answers, posts repeated at a rediscovered address or after a synchronisation (up to
three registrations of one post), rows, and the retry with its
matching of results to rows (`RowsFor` is `_pick_existing_receipt`, including its
three fallbacks). The code makes at most two parts; the model takes any number, and
they do not change after the payment. Opening the fiscal shift is `Prepare` or
`FailToPrepare`. Three history variables (`lost`, `cut`, `overlap`) say what has
gone wrong so far, so that each property names what it needs.

**LocalAgent** is the command rows, callers, consumers, websockets, channel layer
and the agent; **RemoteCommand** is what a caller is promised: a command that may or
may not be carried out, an outcome that is final, and success only when it was
carried out. LocalAgent implements it (`IsRemoteCommand`: an INSTANCE with a
refinement mapping from rows and callers). The mailbox of a consumer is a set:
the order of commands of one agent is irrelevant to every property. Checking the
agent, creating the row and sending the event are one step of `Call`.

**OrderNumbers** is the counter under its lock, creations, their rollback and retry,
and the restaurant's form that saves the whole row; **Numbering** is the promise:
the n-th order gets number n, until the counter is put back. `restored` is a history
variable for the latter.

**Subscription** is one restaurant: the expiry task with its steps, renewal under
the row lock, and the admin's requests. Waiting for a lock is the guard `Free`. The
task reads the day when it writes. Price and period are constants.

**Floor** is the tables of a hall, the sessions at them and the orders of the sessions.
A handler is its reads and then one step per save: `ReadForOpen`, `CreateSession`,
`OccupyTable`; `ReadForMove`, `MoveSession`, `LeaveTable`, `TakeTable`; `ReadForMerge`
and `CommitMerge` (a transaction); a payment from `ReadForPayment` to `FreeTable`;
`ReadForm`, `ReadLayout` and `SaveTables` for the rows that are saved whole. An order
has only its session and whether it is still to be paid. A request knows the tables it
concerns (`scope`): the history variable `overlap` records that two requests for one
table were under way at once, `edited` that somebody wrote a status by hand, and
`doubled` that two sessions with an unpaid order each were merged. A save of a row that
is gone is `Fail`. `CreateSession` makes active sessions; the API would let the caller give
another status, which is left out. **Seating** is the promise to the guests: a party (a session) has its
table to itself and keeps it until it has paid, unless the table is taken away, and a
party has one bill at a time. Floor implements it (`IsSeating`): `SeatOf` is the table of
an active session, `BillOf` its unpaid orders; `overlap` is the promise's `raced`, after
which nothing is left of it, and `edited` or `doubled` is `careless`, after which a table
is still one party's.

**Marking** is the pieces of marked products: item rows of several orders with product,
quantity, status and the price that they were made with, the codes on them, and a payment
as check, charge and receipts. A scan reads (`ReadForScan`) and commits (`CommitScan`), and
the database's constraint sends it to `AbortScan`. A request for an item may set its
product, its status and its quantity, also to 0 (`ReadForAdd`, `ReadForUpdate`, `SaveItem`);
price and codes stay with the row. The kitchen cancels items and restores them, whatever the
status of their order (`KitchenSets`). The amounts are worked out as the code does: `Total`
from prices and quantities with a half-to-even fee, the receipt's `FiscalPrice` from the
labels with half-up rounding (`FiscalTotal` is the sum of them), the fee divided by
`SplitFee` when what may not be sold for cash gets a receipt of its own. A charge
(`ChargeSucceeds`) is closed by the total that its request has read, or, when the browser
brings the terminal's answer, by the total in the row. The unit is the smallest amount that
is charged.

Four history variables say what the properties except: `overlap` (two requests, or a
request and the kitchen, were at one order at once), `loosened` (an item was left with more
codes than pieces), `late` (the kitchen set an item of a closed order), and `unsure`, the
items that were written since their order was checked for a charge, or that got a product
and a code that do not belong together. `ClosedIsMarked` excepts single items only, and
holds through every overlap. Abstractions:

* `paid` is what the payments had to cover; the change for a guest who pays more is left out;
* a failed receipt is remembered for its order, not for each of its payments;
* a worker that dies within a payment is in OrderLifecycle and FiscalReceipts, not here.

**DeviceCalls** is an operation of a fiscal device or terminal as the chain of commands
that the code makes of it. `Requests(kind)` lists the commands: what is read before, what
acts, whether a failure is put up with, whether it is repeated after a synchronisation.
A command is `Post`, what becomes of it at the device (`DeviceActs`, `StrangerAnswers`)
and `Hear`; or `Lose`, after which the device may still act (`DeviceActsLate`). A search
ends in `Discovered` (the address is saved, unless that fails) or `NotFound`. A stranger at
the old address refuses a command, although the code would take any 2xx answer for a yes. The device
may `Move`, an admin may `Configure` another address. The operation as a whole
implements RemoteCommand again (`IsRemoteCommand`).

MC modules only declare model values, symmetry sets and definitions for constants.

How they compose:

* OrderLifecycle's payment steps are the ones Cashier counts, with the order left out;
  FiscalReceipts details what Cashier's `IssueReceipts` and `RetryFiscal` do in one step;
* a command of DeviceCalls is a `Call` of LocalAgent: both are shown to implement
  RemoteCommand, the one for each command, the other for each operation made of commands;
* what an operation may come to is what the modules above it allow: an operation that was
  not heard of may have been done, so `SaveCharge` and `PostPart` may fail although the
  device acted, and `PostPart` registers a part up to three times, as `ActsOnce` allows
  for a device that moves;
* Marking says what is in the parts that FiscalReceipts posts, and that they stay the same
  from the charge on unless the order is changed during it, or an item is cancelled or
  restored afterwards;
* Floor has the sessions and tables of which OrderLifecycle has one; there a payment's
  last steps are `ReleaseTable`.

## 3. The runs

| run | configuration | shows |
|---|---|---|
| order_serial | 1 worker, 2 items at 2 stations, 2 payments, all requests and flows | every sequence of complete requests keeps tickets, ready state, total and closing right |
| order_overlap | 2 workers, 1 item of quantity 1 or 2, 2 charges, item edits, submissions and payments, no cooks (`KitchenWaits` covers them) | what holds however requests overlap, and that charges end and tables are freed |
| order_crash | takeaway, 1 worker that may die, both flows, no cooks | an order is closed only when it is paid, wherever the worker dies |
| order_double_charge | 2 workers | **violated**: a closed order is paid again |
| agent_live | 1 command, 2 websockets | safety, refinement and liveness of the command queue |
| numbers | 3 creators, 2 admins | the refinement of Numbering, and every order gets made |
| subscription | 1 task, 1 admin, 4 days, 4 units of money | books, charges, and that expiry is handled |
| fiscal | 2 workers that may die, 2 parts, 3 rows, 3 registrations of a part (3.3 million states) | receipts: sent, registered, resolved, retried |
| cashier | 2 desks, 2 cashiers, 2 payments, 2 shifts, 1 worker that may die | totals and receipts of closed shifts |
| floor | 2 workers, 2 tables, 2 sessions, 2 orders (550,000 states) | one party at a table, the status column, unpaid orders have their guests, and the refinement of Seating |
| marking | 2 workers, 1 order, 2 item rows, quantities 0 to 2, 2 codes of a marked product and a barcode of another, a price of 3, fee of 25 % (1.6 million states) | unique codes, nothing sold without a code of its product, receipts add up |
| devices | 1 operation of each kind, 3 addresses, 2 changes of address (68,000 states) | how often a device acts, the refinement of RemoteCommand, and that operations end |

Bounds, and why they are enough to be of interest: two items at two stations are the
least for which a ticket, the ready state and the total may each follow the wrong
one; two payments are a payment and a second one after it failed or succeeded; with
one item of two quantities an edit changes the bill that another request has read.
Two workers are enough for each race of the code, all of which are between two
requests. Two websockets are the old and the new connection. Three creators put one
on the lock, one behind it and one that retries. Two parts are all the code makes,
three rows leave one that nobody needs, and three registrations of a part are all that
one post can make of it. In Subscription a price of 2 against top-ups of 1 and 2 lets the balance be
short, exact and ample; four days leave room for two renewals. Two tables, sessions and
orders are a move from one to the other and a merge of the two, with the orders of both.
In Marking the marked product may not be sold for cash and the other may, so that a cash
payment makes two receipts; with a price of 3 and a fee of a quarter both kinds of rounding
happen, also on a half; two codes are an item of two pieces, or two items that compete for
one. A request for an item sets one field at a time (`MaxEdits = 1`), and a request that is
begun while another is served is a scan, a deletion or a charge (`Together`): any request
may be overtaken by one of these, or by the kitchen. Requests for different orders share nothing but the codes, so that one order is
enough but for a scan that two orders compete for, which two items of one order do as well.
One operation is enough for DeviceCalls, since operations share only the
address they read at their start, which `Configure` may have set to anything; two changes
of address let the device move away twice from where it was found.

`AfterOverlap = FALSE` in floor and marking means that no further request is begun once
two have overlapped: what they were about still ends in every order. What comes later is
nothing that `ReceiptsAddUp` and Floor's properties, stated until an overlap, speak of.
`CodeOnce`, `ClosedIsMarked` and the type invariants do speak of it, and are proved without
this bound or any other; the type invariant of Floor is only proved (`FloorTyping`) and not
checked by the run.

Every property has a mutant, a plausible bug of a mapped definition under which TLC
finds it violated.

### Fairness

* OrderLifecycle: weak fairness of `Proceed(w)` only: a worker carries on a request
  that it has begun, which in particular says that a device call ends. `CallsEnd` of
  LocalAgent is the reason: every call has a deadline. Nobody has to send a request.
* LocalAgent: weak fairness of callers, consumers, the agent's heartbeat while its
  websocket is open, and the clock `Age`. None for the agent, the network or the
  channel layer.
* OrderNumbers: strong fairness of `Take` and `Commit` (the database hands a row lock
  to everybody in the end, and not every creation is rolled back), weak of `Retry`.
* DeviceCalls: weak fairness of `Step(o)`, which a worker takes that carries on, hears an
  answer or gives a command up (`CallsEnd` of LocalAgent). None of the device, the network
  or the admin.
* Subscription: strong fairness of the task's steps: the schedule repeats it every
  hour without end and not every run is killed (`core/settings/q_cluster.py`);
  transactions end (weak fairness of `CommitTopUp`). None of the admin or the
  calendar.

`CHECK_DEADLOCK FALSE` is set where the system may stop: nobody has to send another
request when rows or days have run out.

## 4. The proofs

For every value of the constants, from the named assumptions in the modules.

* **OrderLifecycleProofs.** `Typing`; `KitchenWaits` (no ticket before submission, for
  requests other than PATCH); `ChargeCloses` (a charge that succeeded ends with the
  order closed, for charges and workers that live); `OutcomesStand` (for charges);
  `TablesAreFreed` (same requests, workers that live). The inductive invariants are
  `UntouchedWhileOpen` (an open order has no ticket, and a copy that says it is not
  open was read from one that is not), `ChargesCover` (a pending or succeeded charge
  covers the total of the copy it was made from, and belongs to one request) and
  `FreedWhenClosed` (a closed order's table is free or some request is at `release`).
  The assumptions exclude what the runs show to fail: PATCH writes any status, and
  terminal results may be posted twice.

  `TotalFollows` (`TotalIsTheBill`), `ClosedIsCovered` (`ClosedWhenCovered`),
  `ReadyFollows` (`ReadyMeansAllDone`) and `TicketsFollow` (`TicketsShowTheItems`) are about
  requests that do not overlap: one worker, any items, stations, prices and payments, and a
  worker that dies only where no cook is at work (`InTurn`). The invariant says what is true
  inside a request: `Copied`, the copy it holds is the row; `Totalled`, the total is right
  except between a cook's save and its recalculation; `Prepared`, the ready state and the
  tickets are right except before a cook's sync. An order that is no takeaway is submitted
  before its first payment row is written, which is why a cancelled order that is paid after
  all still has its tickets; for a takeaway that is false, and `TicketsFollow` excludes it.
  Prices are assumed to be natural numbers, and an empty bill to cost nothing.

  From the same invariant, about steps: `ClosedStays` (a closed order stays closed, where no
  client writes another status over it), and `PaidOnce` (`ClosedIsNotPaidAgain`), which proves
  for charges one after another what `order_double_charge` refutes for two that overlap; it
  adds that whoever is about to charge has found the order still to be paid (`StillToPay`).
* **LocalAgentProofs.** `SuccessHasARun` and `Implements` (the refinement of
  RemoteCommand) from `Inv`, whose core is that an answer on its way, or stored,
  has a run behind it. `Typing`; `AtMostOncePerSocket` (`RunsOncePerSocket`) from
  `AllCounted`: what the device has done of a command, and the websockets on which the
  command is still to be done or answered, are together no more than the websockets there
  are. The websockets are assumed to be a finite set.
* **RestaurantProofs**, of what every restaurant has, its order numbers and its floor.
  `NumbersTyping`, `NumbersDiffer`, `Fresh`, and `Implements` (the refinement of Numbering)
  from `Counted`: until the counter is put back, it equals the highest number and the
  numbers are exactly those below it.

  Of Floor, for any tables, sessions, orders and workers: `FloorTyping`; `NoDoubleSeating`
  (`OneSessionPerTable`), `StatusTellsSeating` (`TableShowsSession`), `DebtorsAreSeated`
  (`UnpaidOrderIsSeated`) and `KeepsSeating` (the refinement of Seating). None of the three
  invariants is inductive: what a request will write is decided by what it has read. `Rooted`
  holds always, and says what the foreign keys do: a session that exists has a table, an
  order's session exists. `Orderly` holds until an overlap: requests have their tables to
  themselves (`Apart`); each request still `Knows` what it read of the rows of its tables,
  and how far it has got in writing them; nobody shares a table (`One`); and, as long as
  nothing was put in by hand or doubled, the status column is right except where a request
  is `Due` to set it (`Shows`), who has to pay is seated, and has one bill (`Single`). The
  proof that a step keeps it has two halves: what a step may touch (`Within` the tables of
  its scope) leaves what others know alone (`Kept`, `Elsewhere`), and each handler leaves
  its own tables right. In the refinement a save is one step of Seating or none, except the
  hall constructor's, which is a `Clear` of all deleted tables at once.
* **SubscriptionProofs.** `BalanceAlwaysAdds` for any number of tasks and admins, from
  `Books`: only the holder of the lock has read a balance, and it is the newest.
  `NoOverdraft` for one task, from `Solvent`: what the task has checked it still has,
  since all others only pay in. `Typing`; `NoDayChargedTwice` (`ChargedOnce`) for one task,
  from `Covered`: no period charged for ends after the day the subscription runs out, and
  a task that has found it run out works on a day by which they have all ended.
* **FiscalReceiptsProofs.** `Typing`; `NothingSentUnregistered` for any workers, parts,
  rows and crashes, from `ResultsAreEarned`: a good result in a request's memory was
  earned at the device, which never forgets. `OneRegistration` (`RegisteredOnce`),
  `NeverBlocked` (`RetryIsPossible`) and `ResolvedPaymentsAreRegistered`
  (`ResolvedIsRegistered`) for as long as no two requests overlap, and any number of parts,
  rows, posts and crashes, from `SerialInv`: the i-th row is of the i-th part,
  but for a first row without a part while nothing is sent (`RowsInOrder`); a part whose
  answer was not lost is registered at most once, and then it is sent or its result is in
  the memory of the request (`Accounted`); a request has results only of the parts it was to
  post (`Orderly`); and a payment of which something was sent has a row for each part unless
  results were lost with a worker (`RowsComplete`). `ReceiptsStand`, from the same
  invariant, is about steps: no retry writes over a row that was sent.
* **CashierProofs.** `Typing` for any workers; `ShiftsCount` and `ShiftsResolve` for one
  request at a time, and any desks, cashiers, payments, shifts and crashes. The
  invariant adds `Knows` (a charge in progress belongs to a shift that is not closed,
  receipts are issued only of a payment that has none sent, and the totals about to be
  saved are still those of the shift) and `SentIsPaid`. With two workers both fail, as
  section 5 says. `ClosedShiftsStand` and `PaymentsStand` are about steps: the row of a closed
  shift, an outcome and a sent receipt stay as they are, since a request that will write them
  has found the shift open or the payment pending, and still does (`Aims`).

* **DeviceCallsProofs.** `Typing`, `ActsSeldom` (the property `ActsOnce`) and `Implements`
  (the refinement of RemoteCommand), for any number of operations, addresses and moves.
  The invariant says of one operation what its place in the chain has cost so far: a step
  that acts has acted or is lost at most once for each stage and search behind it
  (`Limited`), none of them if the device never moved, because a search that finds the
  device where it was asked ends the operation (`Unmoved`), and what is reported done has
  acted (`Earned`).
  `StepsRunOut` is what of `OperationsEnd` is not fairness: every step of the worker that
  serves an operation brings `StepsLeft` down, nobody else's brings it up, and it starts
  at 109, whatever fails, moves, or is not heard of.
* **MarkingProofs.** `MarkingTyping`; `CodesAreUnique` and `SoldWithCodes` (the property
  `ClosedIsMarked`) for any orders, products, codes, prices, edits, workers and overlaps.
  The latter rests on `Vouched`: codes are on rows that exist (`Held`), those on an item that
  is not in doubt are of its product (`Proper`), a request to remove a code takes it from the
  item it has chosen (`RemovesOwn`, from `CodeOnce`), and of an order that is closed or being
  charged no item lacks a code unless it is in doubt (`Checked`). `Sound` says what a request
  knows that it read before: that the rows it is about to write are of its own order.

  `ReceiptsMatchBill` (the property `ReceiptsAddUp`), for any items, quantities, prices,
  fees and products that may not be sold for cash: as long as nothing has disturbed an order
  (`Undisturbed`), the receipts of a payment add up to what was paid, which is the total of
  the order, and the parts of the fee to the fee. It needs that whoever is at work has its
  order to itself (`Alone`), that only finitely many codes are ever scanned (`Counted`), that
  no item has more codes than pieces (`Coded`), that a request's figures are those of its
  order as it is (`Figured`), and that what was issued is the parts of an order that no
  longer changes (`Settled`). The sums are over finite sets: that a sum may
  be taken apart is shown from the set on which it would first fail, one smaller than
  which it holds for (`Minimal`), in place of an induction. The rounding of prices and shares is
  shown by what the half-up and half-even quotients lie between.

Only model-checked: liveness (`CallsEnd`, `StatusFollowsConnection`, `ChargesSettle`,
`OrdersGetMade`, `ExpiryIsHandled`, `OperationsEnd`), which rests on fairness, out of this
prover's reach. Every safety invariant, action property and refinement that a run checks is
proved, under the assumptions named above.

## 5. Where the code does not do what it says

Each is a run that TLC finds violated, or a hazard whose note says so.

1. Two payments of one order that overlap both succeed (`order_double_charge`);
   "Closed orders cannot be paid again."
2. Not shown by runs of their own, known from the models, where the properties are
   stated with the exception:
   * the kitchen sync writes a status into an order that was cancelled meanwhile, which is
     submitted or ready again;
   * terminal results posted twice overwrite an outcome;
   * the expiry task switches off a restaurant that was extended while it ran, and two
     overlapping runs of it both charge;
   * the first payment of a fiscal shift is older than the shift it opens, so the shift can
     be closed at the device around its failed receipt, after which the cash shift is
     refused to close;
   * two shifts may be opened on a desk, and a payment refunded twice, by overlapping
     requests; a charge that overlaps the closing of its shift is added to a closed shift,
     and so is a terminal result that comes late; a refund counts in the shift of the
     payment, not in the shift whose drawer it is paid from;
   * two retries of one payment that overlap can make a receipt that was sent count as
     failed: the later one writes over the rows that it has read as failed;
   * a worker that dies between two receipt rows leaves a payment that counts as resolved
     with a part that was never sent; a cook's worker that dies before the totals are
     recalculated leaves a stale total;
   * saving the restaurant's form puts the order counter back, after which no order can be
     created until somebody repairs it;
   * two requests that overlap can seat two parties at one table; a merge of two sessions
     that both have an order gives one session two, and paying one closes the session
     under the other;
   * codes left on an item whose quantity was reduced make the receipt larger than the bill,
     and an item added while its order is being charged is closed without its codes;
   * an item keeps its codes and its price when a PATCH gives it another product: codes of
     the one then count for pieces of the other, and the receipt of an item that needs no
     codes lists as many pieces as it has left-over codes, not as many as were sold;
   * the kitchen can restore a cancelled item of a closed order: a receipt that is retried
     then lists more than was paid (and less after a cancellation);
   * a sale may be registered up to three times at a device that moves while it is asked;
   * a takeaway order is submitted after its charge, and that submission checks the codes
     again (`billing/services/order_payment.py:262`): if codes were removed meanwhile the
     request fails with the money taken, as if the worker had died there.

## 6. Not modelled, and why

* Message formats of terminals, fiscal devices and printers, the contents of printed
  reports, prebills, dashboards and exports: they change no state that another part reads.
* `integrations/services/fiscal_drive.py` and `marta_softpos.py`: no service is built from
  them any more (`integrations/services/__init__.py`).
* Roles, permissions, scopes and the feature gate only refuse requests; the permission
  registry is a table. Sign-in sessions (one token and one active session per user) are
  two short handlers; they are the component that is left with a race worth a model.
* Maintenance of the catalogue, its prices and classification codes. Price and station are
  copied into an item when it is made; whether a product needs codes, or may not be sold for
  cash, is read from the catalogue whenever it is asked, and is constant in Marking.
* The order's comments, guests and waiter: nothing reads them. The limit on guests at a
  table, several halls, and the geometry of a layout.
* The seeder, load tests, settings and deployment, except what of them the models rest on
  (no `ATOMIC_REQUESTS`, the task broker's hourly schedule).

Most of the repository's lines are of these kinds: serializers, query sets, registries,
seed data and settings. What keeps state and decides on it, in sales, kitchen, billing,
floor, local agents, device integrations, and subscriptions, is in the modules.

## 7. Plan

Done, in this order: OrderLifecycle (the core), LocalAgent with RemoteCommand,
OrderNumbers with Numbering, Subscription, FiscalReceipts, Cashier, Floor, Marking,
DeviceCalls.

Proved: every safety property of the runs, the refinements of RemoteCommand (twice),
Numbering and Seating, the measure behind `OperationsEnd`, and that what is closed, settled
or sent stays so.

Next:

1. **Measures** behind the other liveness properties (a charge's way to `ChargesSettle`, a
   creation's to `OrdersGetMade`).
2. **AuthSessions**: issue and revoke; one active session and token per user.
3. **A fiscal day**: Cashier over FiscalReceipts, the former shown to abstract the
   latter for one payment (`receipt` is `none`, `failed` or `sent` of the rows).
