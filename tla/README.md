# A verification development for the food ordering service

The repository is the back end of a restaurant chain: a NestJS application over PostgreSQL (through Prisma), Redis
and RabbitMQ. This directory models what can go wrong between its handlers in TLA+, checks the models with TLC on
small instances, and proves the invariants that matter for every size with TLAPS.

A request handler is an `async` method: a sequence of awaited database or Redis calls. Node runs one piece of
JavaScript at a time, but at every `await` another request can run, and a handler that has checked something does not
check it again when it writes. Transactions are rare: stock and ledger of one ingredient, the writes of `splitOrder`
and of `transferTable`. There are no locks, no conditional updates and few unique constraints. So the models have one
shape: `Requests` is a set of slots, each runs at most one handler, `req[r]` holds that handler's program counter and
local variables, and an action is what the handler does from one await to the next.

## 1. Inventory

| part (under `src/src/modules`) | state | operations that change it | where it is modelled |
|---|---|---|---|
| `payments` | `Payment` rows | bill, merged bill, refund | Payments, receipt numbers in Documents |
| `members` | points, tier | add and redeem points; register, edit | points in Payments |
| `promotions` | `currentUses`, validity | count up and down; edit | counters in Payments, discount in Pricing |
| `orders` | `Order`, `OrderItem` | create, update status, cancel, split, complete a table | Payments, Stock, TableSessions, Floor; what is announced of them in OrderEvents |
| `inventory` | stock, ledger, recipes | deduct, restore, adjust, edit, set and delete recipes | Stock |
| `redis` | two keys per session | register, validate, clear, look up, expire | TableSessions |
| `tables` | floor plan, status, `TableSession` rows | open, close, merge, unmerge, transfer | Floor; the Redis side in TableSessions |
| `service-requests` | requests of guests | create, update status | the request for the bill in Floor and TableSessions |
| `shifts` | `Shift` rows | open, close | Documents |
| `tax-invoice` | `TaxInvoice` rows | create, void | Documents |
| `queue` | tickets | create, call, update status | numbers in Documents, statistics in Reports |
| `kds` | status of dishes, stations | bump a dish, edit stations | bumps in Floor and OrderEvents |
| `payment-gateway` | transactions, and a map in memory | initiate, poll, simulate | Gateway, with Charge as its contract |
| `rabbitmq`, `messaging` | event log | publish, consume | Broker |
| `webhooks` | endpoints, delivery log | dispatch, deliver with retries, test, edit | Webhooks |
| `staff`, `auth` | users, PINs, check-ins | register, set PIN, check in and out, heartbeat | Staff |
| `console-auth`, `branch` | accounts, companies, branches, reset links | register, edit, reset password | Console |
| `menu`, `addons` | dishes and what belongs to them | create, replace the parts, remove | Catalogue |
| `settings`, `printers` | one list of printers | report, edit the list | Printers |
| `dashboard` | none | count rows by status | Reports |
| `events` | sockets in rooms | forward events | no state |
| `audit`, `health`, `upload`, `common` | logs, files | append, read | out of scope: reads and pure I/O |

How they interact:

- **Calls.** `PaymentsService` calls `MembersService`, `PromotionsService` and `RedisService`; `OrdersService` calls
  `InventoryService` and `RedisService`; `ServiceRequestsService` and `TablesController` call `RedisService`.
- **Shared rows.** `Order.status` is written by orders, kitchen display and service requests; `Order.tableNumber` by the
  transfer; `Payment` rows are read by shifts and invoices; the stock by orders and by staff.
- **Work nobody waits for.** The deduction of an order's ingredients, the clearing of a session after a payment,
  webhooks, audit rows and publications start and are not awaited; their errors are logged or dropped.
- **Events.** Handlers emit to an in-process emitter; `events` and `webhooks` listen.

What makes each part correct, and what is hard about it:

- *Payments.* An order is paid once, a merged bill covers all its orders, and points and counters agree with the
  payment rows. Hard: the checks are several awaits before the insert, a bill is up to `n + 3` separate writes.
- *Orders and stock.* The stock accounts for the orders that are not cancelled, the ledger explains the stock, a
  cancellation gives back once. Hard: balances are computed from rows read earlier; the deduction runs in the
  background.
- *Sessions.* Guests order for their own table; a table has one session; it ends with the bill. Hard: two keys, two
  expiries, checks by earlier commands, clearing nobody waits for, orders that move to another table.
- *Floor and kitchen.* A table has one session and shows it, guests who move take their orders along, an order is
  completed by its last dish and stays cancelled. Hard: `openSession` trusts a mark that six other handlers change; a
  transfer checks before its transaction; a bump decides on a status it read first and on dishes it reads last.
- *Delivery.* What is announced of an order is its story, what reaches the broker is logged once and settled, the
  log of webhooks can be believed, a charge is announced when it is paid. Hard: nothing between a write and its
  announcement is atomic; a message that is not acknowledged comes again; three attempts share one row; the mock
  provider keeps its payments in memory, and a restart empties it.
- *Back office.* Who is checked in is on the list, a sign-up leaves everything or visibly something, a reset link works
  once, a dish keeps its parts, a printer's report is not lost, counts add up. Hard: a sign-up is a dozen writes without
  a transaction; an update deletes before it writes; printers share one list that is read, changed and written; a report
  is several queries, which leave statuses out.
- *Documents.* Numbers are unique and in order, one open shift a branch, one valid invoice a payment, a shift's totals
  are its payments. Hard: number by query then insert, unique over all branches but counted in one, two midnights.

`PROJECT.json` lists every component with its sources and each hazard at its line.

## 2. Modules

| module | what it is |
|---|---|
| `Pricing` | the arithmetic of a bill: points for a discount, promotions, total, points earned |
| `Payments` | bills, merged bills, refunds, splits, points, promotion counters |
| `Stock` | ingredients, ledger, recipes, and the orders that use them |
| `TableSessions` | the Redis sessions of the tables and the orders placed with them |
| `Documents` | running numbers: receipts, shifts, tax invoices, queue tickets |
| `Floor` | tables, their database sessions, requests for the bill, orders and dishes in the kitchen |
| `Handlers` | the slots, the loads and the moves of a handler, for the modules below |
| `OrderEvents` | the writers of an order's status, and what they announce |
| `Broker` (extends `OrderEvents`) | connection, durable queues, the event log |
| `Webhooks` (extends `OrderEvents`) | endpoints, deliveries with three attempts, their log |
| `Charge` | abstract: what a payment gateway promises |
| `Gateway` | transactions, the provider's memory, polls and completions by hand; implements `Charge` |
| `Delivery` | composes `Broker`, `Webhooks` and `Gateway` in one process that can restart |
| `Staff` | users, PINs, check-ins at tables |
| `Console` | sign-up, companies, branches, reset links |
| `Catalogue` | dishes and groups with their parts |
| `Printers` | the list of printers in one setting |
| `Reports` | counts by status |
| `Backoffice` | composes the five in one process |
| `MC...` | the values of the constants for TLC |
| `Sums` | lemmas about finite sums, with the induction over finite sets they need |
| `PaymentsProofs`, `StockProofs`, `SessionProofs`, `DocumentsProofs`, `FloorProofs`, `DeliveryProofs`, `BackofficeProofs` | theorems |

Operators whose comment says *Mutation of X* are altered copies of the operator X. No specification uses them; they
document a fault that the properties tell apart from the code.

### Payments

`orders` and `pays` are the tables; `points` and `uses` the columns `Member.points` and `Promotion.currentUses`.
A bill runs `PayRead` (the query and all checks on its answer), `PayMember`, `PayPromo`, `PayCreate` (the paying row),
`PayMarker` once per further order, `PayUsage`, then `PointsRead`/`PointsWrite` for what it redeems and what it adds.
`createPayment` is the bill of one order. A refund runs `RefundRead`, `RefundWrite`, `UnuseRead`/`UnuseWrite`, and the
points in the opposite order; `PointsShort` is `redeemPoints` throwing, which a refund swallows and a bill does not.
A split runs `SplitRead` and, in one transaction, `SplitCommit`. `UpdateStatus` is any other writer of an order's
status. `Reject` ends a handler before its first write, `Abort` after it.

History, which no guard reads: `dirty[r]` holds the orders that others paid or cancelled since r's check; `raced`,
`revived`, `kept`, `cut` note on a row that its check was overtaken, that its order left CANCELLED, the points a refund
could not take back, and that its handler failed halfway.

A coupon is the second way to a promotion: only `coupon` bills are refused by the limit of uses, which `CouponsLimited`,
a part of `BalancesAccounted`, is about. A promotion that is named by its id is counted and never limited.

Simplified: money is whole baht, an order always has a table, one branch, the paid amount always suffices or the
request is rejected, the tier (a function of the points) is left out.

### Stock

`stock`, `ledger`, `recipe` and `orders` are the tables. Creating an order runs `CreateCheck`, `CreateInsert` and then,
while the customer already has an answer, `ReadRecipes`, `StockRead`/`StockWrite` per ingredient, `StockDone`.
Cancelling runs `StatusRead`, the same loop with the opposite sign, and only then `StatusWrite`. `StockWrite` is the
transaction that writes the balance and the ledger row together, from the balance that `StockRead` saw. `AdjustRead`,
`UpdateIngredient`, `SetRecipeDelete`/`SetRecipeInsert`, `DeleteRecipe` and the split are the other writers;
`StockFail` is one failed iteration of the loop, which goes on, and `Crash` a handler that ends.

`excuses` is history: *race* (a write computed from an overtaken read), *clamp* (a deduction stopped at zero), *edit*,
*recipe*, *mixed*, *revived*, *fault*. A property names the excuses under which it is not promised, and only those.

Simplified: quantities are whole units; ingredients are neither created nor deleted.

### TableSessions

`session` and `active` are the two kinds of keys, with `NoTable` and `NoSession` for a key that does not exist;
`issued` remembers the tables for which a session was registered. `Register` is the endpoint `register-session`, which
takes any id for any table: a new one, or one it knows from this table (*reopened*) or from another (*elsewhere*), whose
session then names the other table while the first one's key still points at it. `OrderWithSession` and `OrderWithoutSession` are
the two ways into `create`; `SetSession`, `SetTable` and `GetSession`, `DelSession`, `DelTable` are the commands of
`registerSession` and `clearSessionForTable`; `Lose` loses one. Each key can expire, the session's first.
`CanAccess` is the endpoint `check-access`, which the guests' page asks and which reads only.

A pipeline is not a transaction, so the commands of two handlers may interleave; with a single connection they would
not, which makes the model more permissive than one process. What is proved or checked holds for both.

Simplified: one branch; a payment is one step; the `TableSession` rows and the table status are in `Floor`;
`deleteSession`, which nothing calls, is left out.

### Documents

`docs` holds the four tables. Every kind runs the same steps: a check where the code has one (`OpenShift`,
`CheckInvoice`), `ReadNumber`, `Insert` or `Collide`; only a receipt is tried again. Receipts and invoices are sorted as
text (`SortsUpTo`), tickets as numbers, shifts are counted. `clock` has the server's day and UTC's, and the server is
east of Greenwich, so its day begins first. `CloseShift`, `SumShift`, `CloseWrite` are closing a shift; `counted`, the
set of payments that were added up, stands for the totals.

Simplified: one month; the PIN of the cashier and the markers of merged bills (which carry the paying row's number and
a total of zero) are left out; voiding and refunding are one step each.

### Floor

`status` and `merged` are the columns of `Table`; `sessions`, `orders` and `bills` the tables `TableSession`, `Order` with
its items, and `ServiceRequest`. Opening a session runs `Open` (the table is read), `OpenCheck` (only if the table was
marked as occupied), `OpenInsert`, `OpenMark`; closing one `Close`, `CloseWrite`, `CloseMark`; a transfer `Move`, `MoveTo`,
`MoveSession`, `MoveOrders` and the transaction `MoveCommit`; unmerging `Unmerge`, `UnmergeFree`, `UnmergeWrite`. A request
for the bill is `CreateBill`, `BillMark`; its answer `AnswerBill`, `AnswerOrders`. A bump is `Bump` (order and dishes are
read), `BumpWrite`, `BumpCheck` (the dishes are read again, the status is not), `BumpComplete`. Handlers of one query are
one action: `Merge`, `SetTableStatus` (`update` and `updateStatus`), `CompleteOrdersByTable`, `SetDish`, and, as far as the
order row goes, `CreateOrder`, `SetOrderStatus` and `Pay`, whose other queries are in the modules above. `Abort` is a
query that fails; what the handler wrote stays.

History: `seat` is the session of the guests who ordered, and follows them when they move; `cancelled` remembers a
cancellation; `notes` says who else has set the status of an order or of its dishes, and whether it was cancelled while
it was bumped; `excuses[t]` says that handlers overlapped at table t, that one failed there, or that a bill, an unmerge
or staff took its mark off. They are the situations in which the code keeps no promise; every property names those it
needs.

Simplified: one branch (the query of a transfer does not name one, so with several branches it would also move the
orders of other branches' tables with the same number); a dish is done or not; an order has at least one dish; no table
is merged with itself or moved to itself; the number of guests and the creation and removal of tables are left out; a
split of an order is in `Payments`, `Stock` and `OrderEvents`, not here.

### Delivery

The six modules share `Handlers`: `req[r]` is the handler in slot r, and a load says how many requests and faults of each
kind may still arrive; `Begin` starts a handler, `Become`, `Goto` and `End` move it, `Throw` is a query that fails.

*OrderEvents.* `status` is the column, `events` the sequence of what was emitted. `CreateOrder`, `UpdateStatus` and
`BumpLast` are the writers that announce: each carries the event it will announce, with the status it *read*, to
`StatusWrite` and then `Announce`. The others announce nothing: `SplitOrder` reads the status and `SplitWrite` creates
new orders with it and cancels the original, and `CompleteSilently` stands for `completeOrdersByTable` and the answer to
a request for the bill. What is announced of their orders later is no chain from a creation any more (*silent*). The kitchen display announces to the process and not to the broker (`published`).

*Broker.* `queue` is what waits in the durable queues, `log` the rows `MqEventLog`, `link` the connection, which may be
broken before anybody has noticed: what is published then is dropped. `Deliver`, `LogInsert`, `LogMark`, `LogFail` are
`processEvent`; a delivery is *held* until it is acknowledged, and a connection that breaks puts it back into the queue
while its handler goes on. The column `eventId` is unique, and the error of the second insert is swallowed.

*Webhooks.* `dispatching` are the events whose endpoints are being looked up (`FindHooks`), `job[n][w]` is the delivery
of event n to endpoint w (n = 0 is a test), `rows` the rows `WebhookDelivery`. `Attempt` ends with one of the `Answers`,
of which only the code has arrived, or with one of the `Silences`: no answer although the request was received, or no
receipt. `ReadBody` reads the body of an answer to its end or finds it broken off; in the code that throws, whatever
the answer's code was, so an acknowledgement may be followed by another attempt, and a row may say failed with the code
200 (`broken` counts these). The timer is cleared before the body is read, so nothing forces `ReadBody` to happen.
`SaveRow` writes the one row, `DeliveryFault` is a query that fails, `SetHook` and `RemoveHook` edit an endpoint.

*Gateway.* `provider` is the map in memory, `tx` the rows `GatewayTransaction`. A poll is `CheckStatus`, `AskProvider`,
`SettleTx`, `TellTx`; a completion by hand `Simulate`, `ForceTx` and the same last two; `InitiatePayment` tells the
provider first and `CreateTx` writes the row second. `C == INSTANCE Charge` maps opened to the rows, booked to the
completed ones and told to those announced at least once; `settled` is history with the same meaning in both.

*Delivery.* `AnnounceToAll` emits an event, publishes it and starts its dispatch in one step, as the synchronous
emitter does. `Restart` ends every handler and background task, empties the provider's map and puts unacknowledged
messages back; rows and queues stay.

History: `orderNotes` (writers overlapped, one was silent, the kitchen wrote), `brokerNotes` (events whose handler failed
or died after its insert), `hookNotes` (endpoints edited, deliveries that failed or died), `txNotes` (handlers
overlapped, completed by hand, again, died between row and announcement), and `announced`, `copies`, `acks`, which count.

Simplified: the handlers of the three queues are one; an event that several queues receive is one message; signatures,
back-off and the branch of an endpoint are left out; a web socket is not modelled; amounts are left out.

### Back office

The five parts share the process and the slots, and `Backoffice` is their interleaving. Two tables of the database are
in two parts each, which follow different columns of them and read none of the other's: `MenuItem` (codes and branches
in `Console`, recipes of a dish in `Catalogue`) and `Table` (the numbers of a branch in `Console`, the places that staff
check in at in `Staff`).

*Staff.* A check-in is `CheckIn` (the PIN finds the user), `InTable`, `InFind`, and `InSeen`, `InAgain` or `InNew`; a
check-out `CheckOut`, `FindActive`, `OutWrite`; a heartbeat `Heartbeat`, `FindActive`, `BeatWrite`. `assignment` keeps rows in
the order of insertion, a deleted one as *gone*. The unique index over branch, table and user does not apply when the
branch is null: those tables are `Branchless`. `ChangePin`/`UserWrite`, `Enable`/`ActiveWrite`, `Register`/`UserCreate`,
`DeleteUser`/`UserDelete` are the rest of `auth`, with what a deletion takes along; `RemoveTable` and `CreateTable` are
the tables under them. The listings are `OnDuty`, `MyTables` and `TableStaff`. The last selects by the number of the
table only, so that it shows who is checked in at a table of another branch with the same number too; its controller
passes no branch, so it answers for a table without a branch only, which the definition leaves to its caller.

*Console.* A sign-up is `SignUp`, `SuUser`, `SuCompany`, and per branch `SuProbe` (the loop that looks for a free code),
`SuBranch`, per dish `SuDishProbe` and `SuDish`, and per table `SuTable`; a refused row ends it with what is written. A code
is the suffix of its name. `UpsertCompany`/`CoName` write the name twice, `UpsertOther` is a request without a name or
with a blank one, which clears the name of the company and leaves the account's copy (the comment above that copy says
it is kept in step with the company; for a blank name it is not, and `NamesAgree` excuses a company without a name), `Forgot`/`FgWrite` and `ResetPassword`/`RsWrite` are
the mailed link, `BranchCreate`, `BranchRename`, `BranchRemove` the edits beside a sign-up. A branch that is created belongs to the
account that asks for it (`owner`); `signer`, which is history, says whose sign-up made it, and only these are counted
against the sign-up.

*Catalogue.* `parts[o][kind][x]` counts the rows that connect an item and a part. An update is `UpdateItem`, one
`PartsDelete` per kind the request names, and `PartsWrite`, refused as a whole when an item or part is gone or a pair is
there again.

*Printers.* `Report` and `EditList` read the list, `ListWrite` writes all of it back.

*Reports.* A statistic is `GetStats` with the statuses it asks for, one `CountOne` for each of them in any order, and
`Answer`, whose total is their sum; rows arrive, move and are deleted in between. `Kind` says which of the four
statistics it is: `Columns` are the statuses its rows have and `Queried` those it asks for. They are the same but for
the tables: `getTableStats` asks for three of their five statuses and leaves the tables in BILLING and CLEANING out of
its total. Waiting times and the counts by type of the requests are left out. Reports whose rows come from one query are not modelled: there is nothing between that query and the answer.

History: `answer` and `said` keep what was last reported to a caller, `promised` what the last successful update asked
for, `links` the reset links with how often each was used, `answered` the last report; `staffNotes`, `consoleNotes`,
`menuNotes`, `printerNotes` say that requests about the same row overlapped, or that one failed.

Simplified: names, prices, roles, passwords, addresses, times of a report, revenues and the counts of requests by type are
left out; a dish is created without parts; the names of all branches (and of all dishes) lead to one code each.

## 3. What is checked

Every property quoted below is stated, with its comment, at the end of its module.

| run | question | answer |
|---|---|---|
| `PaymentsSerial` | without concurrency, do points, counters and bills agree through bills, merged bills, a split, refunds and failures? | `BalancesAccounted` holds |
| `PaymentsRace` | what survives when bills, refunds and splits interleave? | `MergeComplete` holds, and only an overtaken check or a revived order pays twice: `DoublePayOnlyByRace`, `DishPaidTwiceOnlyByRace` |
| `PaymentsDouble` | is an order paid once? | no: see findings |
| `StockBooks` | do stock and ledger agree under concurrent orders, cancellations, splits, withdrawals? | `LedgerTellsStock`, `StockAccounted` hold |
| `StockLive` | are recipes whole, and is every order deducted in the end? | `RecipeWhole`, `OrderDeducted` hold |
| `TableSessions` | do orders, keys and tables agree, and does a payment end the session? | `OrderAtOwnTable`, `KeysHold`, `BillEndsSession` hold |
| `TableLocked` | does a locked table have an open order? | no: see findings |
| `Documents` | are numbers in order and unique, and the checks worth something? | `ReceiptsInOrder`, `ChecksExclude`, `InvoicesInSeries`, `ClosedShiftAdds` hold |
| `ReceiptRefused` | do the attempts at a receipt number succeed without competition? | no: see findings |
| `Floor` | do tables, sessions, orders and the kitchen agree through any mix of requests? | `SeatedTablesHold`, `OrdersFollowGuests`, `LastDishCompletes`, `CancelledStays` hold |
| `Delivery` | is what leaves the service what has happened in it, through splits, broken connections, retries and restarts? | `AnnouncementsFollowOrder`, `EventLoggedOnce`, `RowTellsTheOutcome`, `CompletionAnnounced`, `ForgottenStaysPending` hold, `QueuedIsSettled` and `WantedIsLogged` come true, and `Gateway` implements `Charge` (`GatewayIsCharge`) |
| `Backoffice` | is what the back office has answered still true when others write and queries fail? | `CheckInsHold`, `AccountWhole`, `ResetLinkOnce`, `PartsWhole`, `PrintersHeard`, `CountsAddUp` hold |

Each module has one `TypeOK`, checked by one of its runs. Most properties are of one form: the promise holds *unless*
something named happened, and what may be named is a note that the model takes only in the situation in which the code
really gives the promise up. The notes are part of what a property says.

**Bounds.** Each is a constant that a configuration sets, and is placed on what arrives, never inside a handler, so no
handler is cut off by a bound.

- *Two slots.* Each promised exclusion involves two handlers; a third adds rows, which the row bounds allow over time.
  Accounting (`PaymentsSerial`) has one slot because the code loses updates with two: that is a hazard, not a promise.
- *Payments.* Serial: one order of two dishes, which a split makes two orders of one, and three rows, which allow bills,
  merged bills, refunds and new bills of the parts; prices of 60 and 40, one point at the start and three to redeem make
  a refund find too few points after the points it earned were redeemed by another bill; `MaxFaults = 1`. With one slot no
  handler overtakes another: the lost updates of points and counters are hazards without a property. Race: one order of two dishes and up to
  three copies of it, two payments, a member with points, and staff who bring a cancelled original back.
- *Stock.* Two dishes share an ingredient; four units and three orders reach the clamp and the refusal. One fault.
- *TableSessions.* Two tables, two sessions, two orders, and one foreign event (a request of staff, an id that is
  registered again at its table or at the other one, an expired key or a lost command) on top of any number of payments and cancellations.
- *Documents.* Two branches, one midnight of each clock, at most four documents of the kinds that affect each other
  (`MCMixes`). `Limit` is 3 and 1 instead of 999 and 9999, so that the digits run out within the run; two attempts
  instead of five, except in `ReceiptRefused`, which has the code's five and six receipts.
- *Floor.* Two slots, two tables, orders of two dishes. `Budgets` says how many requests of each kind a behaviour may
  have, and `MCBudgets` lists eight mixes, each for one hazard: sessions beside a merged table, marks that are taken
  off, moves and payments of two orders, bumps beside cancellations, answered bills, transfers beside bumps, and a
  fault. Two tables and two moves bring guests back to where they came from; two dishes and three bumps make both
  stations believe they were last, or neither.
- *Delivery.* `MCLoads` lists eleven loads, one for each question: an order that two handlers write, that the kitchen
  completes, that somebody completes silently or that is split beside another writer; deliveries beside edits, a failed query and a restart; messages through
  a connection that breaks, comes back twice and a process that restarts; two charges polled three times and completed
  by hand twice. Two orders, for a split, and three events are what these loads can announce; one endpoint, because deliveries to two
  touch different rows; three attempts, as in the code.
- *Back office.* `MCLoads` lists twelve loads, one for each question: check-ins that overlap, with tables that are
  removed and users that are deleted; PINs; two sign-ups at once, one of which names a table twice, with a failed query
  or an edit of branches; companies; two reset links; a dish and a group with two add-ons, one of which comes later; two
  printers with four writers; a report on the tables, the one that leaves statuses out, with two rows, their five
  statuses and three moves.
  One table has a branch and one has none, and both have the same number.

Symmetry is used in runs without liveness only, over slots, and over branches where no operator chooses one.
Deadlock is not checked: when all that may arrive has arrived and every handler has answered, the system rests.

**Fairness.** `WF_vars(HandlerStep(r))` for each slot: an awaited call returns or throws (the pool gives up a
connection after three seconds, the Redis client a command after its retries), and then the event loop resumes the
handler. `Delivery` adds that a broken connection is noticed by its heartbeat and opened again by the connection
manager, that the broker delivers what waits while there is a connection, and that a webhook task looks up its
endpoints, ends an attempt (by an answer or by its timeout) and writes its row. Reading the body of an answer is not
fair: its timer has been cleared, so `WantedIsLogged` is promised only of an endpoint whose answers come to an end.
All are weak. Nothing forces a request to arrive, a fault to happen, a
key to expire, the process to restart or a clock to move. Failures are actions of their own, outside the fair ones; the
liveness properties say what is promised when they happen. `BillEndsSession`, `OrderDeducted`, `QueuedIsSettled` and
`WantedIsLogged` are about work that no caller awaits.

## 4. Findings

- An order can be paid twice (`PaymentsDouble`). The API describes the second payment as a 409.
- An order that is refused for stock, or cancelled, leaves its table locked for up to three hours (`TableLocked`).
- After five receipts at one branch, the first payment of another branch on the same day is refused five times and
  fails, although nothing runs at the same time (`ReceiptRefused`). The comment in the code says the retry is for
  collisions; it counts in one branch and collides with all.

Other things the code does not promise, and the models show, contradict nothing that is written about it; they are the
notes and excuses of the properties, and the hazards of `PROJECT.json` say where they bite.

## 5. What is proved

For all values of the constants that the module's assumption allows: any number of slots, orders, members, ingredients,
tables, branches, events, endpoints, charges, any bound, any limit, any load.

| module | theorems | strengthening |
|---|---|---|
| `PaymentsProofs` | `TypeCorrect`, `BalanceNonNegative`, `DoublePayNeedsRace`, `MergedBillsComplete`, `DishesPaidOnce`, `CouponsStayLimited`, `BalancesStayAccounted` | `TInv`: the ids a handler holds exist. `BalanceInv`: what a handler has read is enough for what it is about to redeem, whatever others have written since. `RaceInv`: an order a bill still has to write is unpaid, or in `dirty`. `MergeInv`: a bill that has written its paying row still holds the orders that lack theirs (`Shape`). `DishInv`: of the orders a dish is on, one at most is not cancelled, until a split whose check was overtaken commits or a cancelled order is brought back. `CouponInv`: the uses counted, and those that handlers are still going to count, exceed a coupon's limit by less than the number of slots. `Books`: what points and counters lack against the rows is what the handler at work has still to write |
| `StockProofs` | `TypeCorrect`, `NeverNegative`, `LedgerMatchesStock`, `LedgerIsChain`, `LedgerTells`, `StockIsAccounted`, `RecipesAreWhole`, `IngredientsKept` | `SInv`: what a handler adds to the balance it read is not negative. `LInv`: only two actions touch balance and ledger, and both write the two together. `Books`: what the stock lacks is what the handlers at work have still to take (`Pending`), and what each has read still stands (`Sound`). `Hands`: a deduction holds the dishes of its order, and has booked every ingredient that it is not still to come to |
| `SessionProofs` | `TypeCorrect`, `NoOrderAtOtherTable`, `SessionKeysHold`, `PaidSessionsEnd` | `TInv`: a handler holds a session that was registered for its table, and no key names a table that its session was never registered for; an id registered for a second table has marked both (`ElsewhereTold`). `KeysInv`: at a table with no excuse one handler at most is at work, and between two of its commands the keys differ in the way that its next command mends (`Between`). `Leading`: keys may expire here, so that only one direction of the agreement is left, a session that is there is the one its table's key names (`TableLeads`); nobody sets a session again once orders name it (`SetOnce`); and an order that has left its table has marked the new one (`MovesTold`) |
| `DocumentsProofs` | `TypeCorrect`, `ReceiptOrder`, `TicketsDiffer`, `ShiftsExclude`, `LiveInvoicesExclude`, `ChecksHold`, `InvoiceNumbersGapless`, `InvoicesOfOneBranch`, `InvoiceSeries`, `ShiftTotals` | `DInv`: `Good` says, for each step a handler can be at, what its last query established and what of it survives the steps of others |
| `FloorProofs` | `TypeCorrect`, `OneSessionAtATable`, `SeatedTablesShow`, `SeatedTables`, `OrdersStayWithGuests`, `LastDishCompletesOrder`, `CancelledOrderStays` | `SInv`: two handlers at one table have excused it (`Alone`), and `Knows` says what a handler has found out about the sessions of its tables. `FInv`: the orders a transfer has read are all that its table owes for (`Todo`). `KInv`: while all dishes of an order are done and it still waits, a bump is between its write and its own completion of the order |
| `DeliveryProofs` | `TypeCorrect`, `GatewayImplementsCharge`, `AnnouncedOnce`, `ForgottenPends`, `LoggedOnce`, `RowsTell`, `AnnouncementsTell`, `MessagesKept`, `DeliveriesKept` | `TInv`: a slot holds a handler of one kind, and `GoodJob` says what is true of a delivery at each of its stations. `WInv`: a row was written by its delivery, and no delivery has written one before its end; `Tells` is what is true of a delivery that is about to write: its acknowledgements are those whose answers broke off, and one more if it succeeded. `BInv`: an open row has a handler that owns it. `GInv`: `Relies` says what a handler of a charge has seen happen. `CInv`: of two handlers about to announce a charge, one has overlapped the other. `FInv`: a forgotten charge that a handler completes is one completed by hand. `StoryInv`: unless writers overlap, the handler at work on an order has read what was announced last, and once it has written, the order has the status it will announce. `TakenOver`: a handler of the log that has lost its hold of a message has left it to another one, to the queue or to a note. `Addressed`: a delivery runs to an endpoint that is there or was edited |
| `BackofficeProofs` | `TypeCorrect`, `SeatsHold`, `SignedUpIsWhole`, `LinksWorkOnce`, `PartsStayWhole`, `PrinterListHolds`, `ReportsAddUp` | `TInv`: as for `Delivery`; a sign-up is never past its request. `SeatsInv`: where nothing is noted, one handler is at work on a seat and its row is still as read (`AsRead`). `SignUpInv`: a sign-up that nobody has overlapped has made all the parts that it has counted (`Made`), none that it has still to make is there, and one that ends early was refused a code or a table that it named twice, or was noted. `LinksInv`: the token of an account is its newest stored link, or none. `PartsInv`: an update has emptied the kinds it deleted, and all others are whole, or empty and noted. `PrintersInv`: a list in a handler's hands is as good as the stored one, but for its own printer. `CountingInv`: what is counted and what is still to count miss the rows in the statuses asked for by at most the moves |

None of these invariants is inductive alone: each speaks of rows, and a row is right because of what the handler knew
when it wrote it. The strengthening is that knowledge, and the history variables record when it was lost. The argument
is the same in every module: the initial state has no rows; a step of a handler establishes or uses its own knowledge;
a step of another handler keeps it or sets the history. `InvoiceNumbersGapless` has no excuse: the unique index
itself keeps the numbers gapless, because the number after a failed insert is never skipped.

`GatewayImplementsCharge` is a refinement: the initial states of `Delivery` are initial states of `Charge`, and every
step of it, of whatever part of the service, is a step of `Charge` under the mapping of `C`, or changes none of its
variables. In the modules that compose parts, frame lemmas say once which handlers a step can move and which variables
it leaves alone, so that a part's invariant is proved from the steps of that part.

Assumed are only the named assumptions of the modules (`PaymentsAssumption`, `StockAssumption`, `SessionsAssumption`,
`DocumentsAssumption`, `FloorAssumption`, `TargetsAssumption`, `WebhooksAssumption`, `StaffAssumption`,
`ConsoleAssumption`, `CatalogueAssumption`, `ReportsAssumption`: types of the constants, finiteness of dishes, tickets and, for
the sums, slots; an order has a dish, a delivery has an attempt, and no value stands for a missing row and for a name),
which TLC evaluates in every run of the module.

`BalancesStayAccounted` has a hypothesis, that one handler runs at a time (`OneSlot`): the code loses updates of points
and counters between two. The second half of what it states, `CouponsLimited`, is proved without it, for any number of
handlers, as `CouponsStayLimited`. `StockIsAccounted` has none: an overtaken write is an excuse there.

The accounting theorems are about sums over tables, sets of orders and handlers. `Sums` shows what they need of
`SumFunctionOnSet`, which picks the elements one by one: that the order does not matter, and what becomes of a sum when a
term is added, removed, changed or bounded. Its induction is over the subsets of a finite set, and rests on the fact
that a non-empty set of them has a smallest element; so no operator has to be passed to a theorem.

Only model-checked are the liveness properties, `OrderDeducted`, `BillEndsSession`, `QueuedIsSettled` and
`WantedIsLogged`: the proof system has no rules for fairness and `ENABLED`. Every invariant and every action property
that a run checks is stated by a theorem. Of each of the four the safety half is proved, which needs no fairness:
`IngredientsKept`, `MessagesKept` and `DeliveriesKept` say that no step drops an ingredient that an order is still to
deduct, a message the broker has taken or a delivery an endpoint wants, and `PaidSessionsEnd` that the session of a paid
order is gone or a handler is on its way to delete it. What fairness adds is only that the handlers go on.

## 6. Not modelled

- *Events gateway.* It forwards every event to the sockets in a room and keeps nothing.
- *Audit, upload, health, common.* Rows nobody reads, files, pings, logging and role checks.
- *Integration with an inventory service.* One HTTP call that nothing calls any more.
- *Parts of modelled components.* The `note` of each component in `PROJECT.json` names them: listings, rows of one
  query that no other handler reads (members, ingredients, categories, stations, requests other than for the bill),
  the dates and minimum amounts of promotions, the split of an amount over payment methods, revenues of the dashboard.
- *Libraries and servers.* Password hashing, tokens, the storage of files, PostgreSQL (a statement is atomic), Redis (a
  command is atomic) and RabbitMQ (what is not acknowledged is delivered again) are taken at their word.

## 7. What is next

1. Abstract specifications beside `Charge`: a `Ledger` (a balance and its history, one step per booking) that `Stock`
   without its excuses implements, and a `Till` (an order is unpaid, paid or refunded) that `Payments` with one slot
   implements.
2. Branches in `TableSessions` and `Floor`; dates and minimum amounts of promotions in `Pricing`.
