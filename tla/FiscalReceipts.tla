--------------------------- MODULE FiscalReceipts ---------------------------
(***************************************************************************)
(* The fiscal receipts of one payment that has succeeded.                  *)
(*                                                                         *)
(* A cash payment may need two receipts, since some goods may not be sold  *)
(* for cash: each part is registered at the fiscal device by itself.  The  *)
(* request that took the payment posts the parts and then saves a receipt  *)
(* row for each result; the cashier may retry what failed.  The device     *)
(* sits behind the local agent: an answer may be lost although the device  *)
(* has registered the part.  No step is in a transaction.                  *)
(***************************************************************************)
EXTENDS Integers, FiniteSets

CONSTANTS
  Workers,        \* server processes that serve requests
  NumParts,       \* parts the payment's receipt is split into
  MaxRows,        \* bound: receipt rows of the payment
  MaxRegistered,  \* bound: registrations of one part at the device
  MayCrash        \* a worker may die between two steps of a request

ASSUME ConstantsAssumption ==
  /\ NumParts \in Nat \ {0}
  /\ MaxRows \in Nat
  /\ MaxRegistered \in Nat
  /\ MayCrash \in BOOLEAN

\* A part goes by its split_reason, in the order the parts are posted; a
\* result that names no part, and its row, have NoReason.
Parts    == 1..NumParts
NoReason == 0
Reasons  == Parts \union {NoReason}
Rows     == 1..MaxRows    \* in the order of their creation

\* A FISCAL receipt row, and the result of a post that it is made from.
Receipt == [status : {"none", "failed", "sent"}, reason : Reasons]
Result  == [ok : BOOLEAN, reason : Reasons]

VARIABLES
  row,         \* the receipt rows of the payment
  registered,  \* how often the device has registered each part
  issued,      \* the request that took the payment has come to the receipts
  req,         \* the request each worker is serving
  lost,        \* history: parts registered without the database hearing of it
  cut,         \* history: a request died with results it had not saved
  overlap      \* history: two requests for the receipts were served at a time

vars == <<row, registered, issued, req, lost, cut, overlap>>

(***************************************************************************)
(* A request: "pending" are the rows it has loaded that are not SENT, each *)
(* with the reason in memory; "split" says that only some parts are asked  *)
(* for; "todo" are the parts to post and "results" the results to save, of *)
(* which "saved" have been saved already.                                  *)
(***************************************************************************)
Idle == [pc |-> "idle"]

Loaded == UNION {[S -> Reasons] : S \in SUBSET Rows}

Request ==
  [pc : {"idle"}]
    \union [pc : {"ensure", "post", "save"}, pending : Loaded, split : BOOLEAN,
            todo : SUBSET Parts, results : SUBSET Result, saved : Nat]

TypeOK ==
  /\ row \in [Rows -> Receipt]
  /\ registered \in [Parts -> Nat]
  /\ issued \in BOOLEAN
  /\ req \in [Workers -> Request]
  /\ lost \subseteq Parts
  /\ cut \in BOOLEAN
  /\ overlap \in BOOLEAN

Init ==
  /\ row = [i \in Rows |-> [status |-> "none", reason |-> NoReason]]
  /\ registered = [p \in Parts |-> 0]
  /\ issued = FALSE
  /\ req = [w \in Workers |-> Idle]
  /\ lost = {}
  /\ cut = FALSE
  /\ overlap = FALSE

-----------------------------------------------------------------------------
Sent    == {i \in Rows : row[i].status = "sent"}
Pending == {i \in Rows : row[i].status = "failed"}

\* Mutant: one receipt that was sent is enough.
ResolvedBySome == Sent # {}

\* CashShiftService asks this of a payment before it lets a shift be closed.
Resolved == Sent # {} /\ Pending = {}

\* The retry will not guess which part failed ("Retry is blocked ...").
Blocked == Sent # {} /\ Pending # {} /\ \A i \in Pending : row[i].reason = NoReason

IsLeast(n, S) == n \in S /\ \A m \in S : n <= m

Begin(w, pending, split, todo) ==
  /\ req[w] = Idle
  /\ req' = [req EXCEPT ![w] = [pc |-> "ensure", pending |-> pending, split |-> split,
                                todo |-> todo, results |-> {}, saved |-> 0]]
  /\ overlap' = (overlap \/ \E v \in Workers : req[v] # Idle)

\* The payment has succeeded: _complete_successful_payment comes to the receipts.
Issue(w) ==
  /\ ~issued
  /\ Begin(w, [i \in {} |-> NoReason], FALSE, Parts)
  /\ issued' = TRUE
  /\ UNCHANGED <<row, registered, lost, cut>>

\* Mutant: a part is asked for again although its receipt was sent.
RetryAllParts(w) ==
  /\ issued
  /\ Pending # {} \/ Sent = {}
  /\ ~Blocked
  /\ Begin(w, [i \in Pending |-> row[i].reason], FALSE, Parts)
  /\ UNCHANGED <<row, registered, issued, lost, cut>>

\* Mutant: a row that names no part is retried by its empty reason.
RetryUnnamedRows(w) ==
  /\ issued
  /\ Pending # {} \/ Sent = {}
  /\ LET split == Sent # {}
     IN  Begin(w, [i \in Pending |-> row[i].reason], split,
               IF split THEN {row[i].reason : i \in Pending} ELSE Parts)
  /\ UNCHANGED <<row, registered, issued, lost, cut>>

\* The cashier retries: all parts when none was sent, else the parts of the
\* rows that failed.  With nothing to do, or blocked, the request ends at once.
Retry(w) ==
  /\ issued
  /\ Pending # {} \/ Sent = {}
  /\ ~Blocked
  /\ LET split == Sent # {}
     IN  Begin(w, [i \in Pending |-> row[i].reason], split,
               IF split THEN {row[i].reason : i \in Pending} \ {NoReason} ELSE Parts)
  /\ UNCHANGED <<row, registered, issued, lost, cut>>

\* The fiscal shift is open, the device is configured and the parts are built.
Prepare(w) ==
  /\ req[w].pc = "ensure"
  /\ req' = [req EXCEPT ![w].pc = "post"]
  /\ UNCHANGED <<row, registered, issued, lost, cut, overlap>>

\* Mutant: a failure before the first post names no part.
FailToPrepareUnnamed(w) ==
  /\ req[w].pc = "ensure"
  /\ req' = [req EXCEPT ![w].pc = "save", ![w].todo = {},
                        ![w].results = {[ok |-> FALSE, reason |-> NoReason]}]
  /\ UNCHANGED <<row, registered, issued, lost, cut, overlap>>

\* The fiscal shift cannot be opened or there is no device: one failure for
\* all, or one for each part that was asked for.
FailToPrepare(w) ==
  /\ req[w].pc = "ensure"
  /\ LET named == IF req[w].split THEN req[w].todo ELSE {NoReason}
     IN  req' = [req EXCEPT ![w].pc = "save", ![w].todo = {},
                            ![w].results = {[ok |-> FALSE, reason |-> r] : r \in named}]
  /\ UNCHANGED <<row, registered, issued, lost, cut, overlap>>

\* The next part is posted.  The device registers it n times: not at all; once,
\* with an answer or with none in time; or up to three times, when a post had no
\* answer and was sent again to another address, before and after the clock was
\* synchronised (ActsOnce of module DeviceCalls).
PostPart(w, n, ok) ==
  /\ req[w].pc = "post"
  /\ ok => n >= 1
  /\ \E part \in req[w].todo :
       /\ IsLeast(part, req[w].todo)
       /\ registered[part] + n <= MaxRegistered
       /\ registered' = [registered EXCEPT ![part] = @ + n]
       /\ lost' = IF n = (IF ok THEN 1 ELSE 0) THEN lost ELSE lost \union {part}
       /\ req' = [req EXCEPT ![w].todo = @ \ {part},
                             ![w].results = @ \union {[ok |-> ok, reason |-> part]}]
  /\ UNCHANGED <<row, issued, cut, overlap>>

\* All parts have been posted, whatever became of them.
PostsDone(w) ==
  /\ req[w].pc = "post"
  /\ req[w].todo = {}
  /\ req' = [req EXCEPT ![w].pc = "save"]
  /\ UNCHANGED <<row, registered, issued, lost, cut, overlap>>

\* _pick_existing_receipt: the rows a result may go to, of which the first is
\* taken.  A loaded row of the same reason, else the one at the index of the
\* result, else any loaded row; with none loaded a new row is made.
RowsFor(r, reason) ==
  LET loaded  == DOMAIN r.pending
      same    == {i \in loaded : r.pending[i] = reason}
      atIndex == {i \in loaded : Cardinality({j \in loaded : j < i}) = r.saved}
  IN  IF same # {} THEN same
      ELSE IF atIndex # {} THEN atIndex
      ELSE IF loaded # {} THEN loaded
      ELSE {i \in Rows : row[i].status = "none"}

\* Mutant: whatever has a result counts as sent.
StatusSent(res) == "sent"

StatusOf(res) == IF res.ok THEN "sent" ELSE "failed"

\* _create_fiscal_receipt and _persist_result: the next result is saved, over
\* a row that failed or as a new one.
SaveReceipt(w) ==
  /\ req[w].pc = "save"
  /\ \E res \in req[w].results :
       /\ \A other \in req[w].results : res.reason <= other.reason
       /\ \E i \in Rows :
            /\ IsLeast(i, RowsFor(req[w], res.reason))
            /\ row' = [row EXCEPT ![i] = [status |-> StatusOf(res), reason |-> res.reason]]
            /\ req' = [req EXCEPT ![w].results = @ \ {res},
                                  ![w].saved = @ + 1,
                                  ![w].pending = [j \in DOMAIN @ \ {i} |-> @[j]]]
  /\ UNCHANGED <<registered, issued, lost, cut, overlap>>

\* All results are saved and the answer is sent.
Finish(w) ==
  /\ req[w].pc = "save"
  /\ req[w].results = {}
  /\ req' = [req EXCEPT ![w] = Idle]
  /\ UNCHANGED <<row, registered, issued, lost, cut, overlap>>

\* A worker dies, and with it the results it has not saved.
Crash(w) ==
  /\ MayCrash
  /\ req[w] # Idle
  /\ req' = [req EXCEPT ![w] = Idle]
  /\ lost' = lost \union {p \in Parts : [ok |-> TRUE, reason |-> p] \in req[w].results}
  /\ cut' = (cut \/ req[w].results # {})
  /\ UNCHANGED <<row, registered, issued, overlap>>

Next ==
  \E w \in Workers :
    \/ Issue(w)
    \/ Retry(w)
    \/ Prepare(w)
    \/ FailToPrepare(w)
    \/ \E n \in 0..3, ok \in BOOLEAN : PostPart(w, n, ok)
    \/ PostsDone(w)
    \/ SaveReceipt(w)
    \/ Finish(w)
    \/ Crash(w)

Spec == Init /\ [][Next]_vars

-----------------------------------------------------------------------------
\* A receipt is SENT only when the device has registered its part, however the
\* retries overlap and whoever dies.
SentIsRegistered ==
  \A i \in Sent : row[i].reason \in Parts /\ registered[row[i].reason] >= 1

\* With one request at a time no part is registered twice unless the database
\* never heard of the first time.
RegisteredOnce == ~overlap => \A p \in Parts \ lost : registered[p] <= 1

\* With one request at a time, none of which dies with results in memory, a
\* payment that lets its shift be closed has every part registered.
ResolvedIsRegistered ==
  ~overlap /\ ~cut /\ Resolved /\ (\A w \in Workers : req[w] = Idle)
    => \A p \in Parts : registered[p] >= 1

\* With one request at a time the cashier can always retry what failed: rows
\* are overwritten in such a way that the missing parts keep their names.
RetryIsPossible == ~overlap => ~Blocked
=============================================================================
