# Verification of the BizonVR back office

BizonVR is a Django shop with a manager portal and a warehouse workspace on one
PostgreSQL database. This directory models the parts of it where requests can
lose or oversell goods, book money twice, or leave rows that disagree: orders,
reservations, shipments and the stock behind them; the card of a deal; payments
and the partner's bonus; purchases and cargoes; accounts and their guest orders.
Source paths are relative to `src/`; `services.py` and `views.py` without a
directory are those of `manager_portal/`.

## 1. Inventory

### The system and its parts

| Part | State it keeps | Operations | Correct when |
|---|---|---|---|
| Stock tables (`manager_portal/models.py` 1915-2154, services.py 4138-4576) | `InventoryLot`, `SaleLineAllocation`, `InventoryBalance`, `ProductStock` | receive, reserve lots FIFO, ship lots FIFO, release, rebuild the balance, publish to the shop | units are neither created nor lost; the balance is the sum of the lots; a lot is not promised or taken beyond what it has |
| Order status (`orders/services.py`, `orders/admin.py`, services.py 6161) | `Order.status`, `payment_status` | confirm, ship, finish, cancel, each with side effects after the save | the effects follow the status, also when one fails |
| Reservations (services.py 4818-4996, 5713) | `Reservation`, `ReservationItem` (quantity, fulfilled, released) | reserve what is available, reserve strictly, release | promises are covered, closed reservations promise nothing, holds have documents |
| Shipments (services.py 2697, 5419-5698, 5761) | `Shipment`, `ShipmentItem`, `inventory_consumed_at` | prepare, refresh, dispatch, deliver, cancel, return | goods leave once; a sent shipment is final; returned once |
| Deals (services.py 1965-2722, 3402-3493, `views.py` 7129) | the columns of `ManagerDeal`: stage, statuses of payment, fulfilment, delivery and shipment, next step | recompute from the order, the shipment and the reservation; move the stage, state form, next step by hand, return | a request that runs alone to its end leaves a card that agrees with its documents |
| Reservations by hand (`views.py` 7993-8168, `warehouse_ui/services.py` 855) | the same rows | create, edit, add a line, change the status | availability checked once, holds follow the status |
| Warehouse workspace (`warehouse_ui/services.py`) | lots, balances, transfers | receipt, adjustment, expense, write-off, transfer | conservation, no lost update |
| Purchases and cargoes (services.py 5932-6020, `operations/services.py` 487-528, 1544-1612, `views.py` 7704-7893) | `Purchase`, `PurchaseItem`, `Cargo`, `CargoItem` | buy, load, edit, split, receive | what is counted was put in stock; nothing is received twice; every request is answered |
| Payments (`payments/`, `orders/services.py` 134-295) | `Payment.status`, `Order.payment_status`, `partner_bonus_applied`, `BalanceTransaction`, `OrderNotificationLog` | create, callback, change by staff, bonus, letter | a refund stays; the bonus is booked once and not forgotten; one letter, unless a sending fails |
| Accounts (`accounts/`) | `User.email`, `Profile`, `EmailVerificationCode`, `Order.user` | register, send a code, confirm, log in, claim guest orders | one account per e-mail; a confirmed e-mail is final; guest orders go to their owner |
| Catalogue, cart, checkout, finance lines, integrations | queries, session carts, derived columns | read, compute, import | mostly sequential and derived |

How they interact: all parts share the database and call each other inside one
web request. `update_order_state` and the admin save the status of an order and
then call `sync_order_state_side_effects`, which reserves
(`ensure_order_reservations`) or releases (`release_order_reservations`) and
calls `sync_order_workflow_state`, which prepares and dispatches the shipment.
Each stock operation rebuilds the balance cache of a warehouse and publishes
its availability to the `ProductStock` of the warehouse's pickup point. There
is no `ATOMIC_REQUESTS`: a request is a sequence of transactions, and an
exception keeps those already committed. Transactions are READ COMMITTED; row
locks are taken in six places of the stock code only.

### What is hard here

* **Sequences of requests.** The same units pass through three counters of a
  reservation line, two rows of allocations and the remaining units of a lot.
  Confirm, cancel, confirm, cancel is a legal sequence whose last step fails.
* **Partial failure.** The status is saved before its effects; a release
  commits reservation by reservation.
* **Stale reads.** Dispatch, cancellation, release and return read rows before
  their lock and write from what they read.
* **Caches.** The balance, the published stock and the items of a shipment are
  copies that every operation has to refresh.
* **Instances.** A Django request works on copies of rows and saves some of
  their columns (`update_fields`), or all of them (an admin form, the purchase
  form). What another request wrote since is overwritten, or hidden: a column
  that looks right on the copy is not saved.
* **Effects after the commit.** A paid order's bonus and letter, the claim of
  guest orders and the recomputation of a deal run after the transaction that
  made them necessary. A worker may die in between; a repeated callback finds
  nothing left to do.
* **Uniqueness without an index.** E-mails are checked, not constrained.
* **Locks.** A request that is refused must free its lock; two dispatches lock
  several balances of one warehouse; a dispatch locks the balance before the
  lots and a write-off after them.

`PROJECT.json` lists the hazards at their lines with the properties that catch
them, or with the reason why none does.

## 2. Modules

| Module | What it models |
|---|---|
| `Stock` | the stock tables of one catalogue position, FIFO as the set of possible takes, the rebuild of the balance, the unique RELEASED row |
| `Fulfilment` (extends `Stock`) | documents and requests, one action per request, run one at a time |
| `MCFulfilment` | small orders and targets for TLC |
| `Fulfilment_proofs` | theorems of `Fulfilment` |
| `ShipmentRequests` | concurrent requests on one shipment, split at read, lock and commit |
| `MCShipmentRequests` | three requests for TLC |
| `ShipmentRequests_proofs` | theorems of `ShipmentRequests` |
| `StockRequests` | concurrent requests on the lots and the balance of one position, with both orders of locking |
| `MCStockRequests` | the kinds of requests of each run |
| `StockRequests_proofs` | theorems of `StockRequests` |
| `WarehouseMoves` | the workspace's requests next to reservations and dispatches on several positions and warehouses, whose rebuilds write each other's rows |
| `PartnerLedger` | abstract: what the shop promises a partner for a paid order |
| `Payments` | callbacks, staff, the admin form, the bonus and the letter, on workers that may die; implements `PartnerLedger` |
| `Procurement` | purchases and cargoes, requests with their row locks |
| `Accounts` | registration, e-mail codes, confirmation, guest orders |
| `DealWorkflow` | the card of a deal and the requests that change it, save by save |
| `MCWarehouseMoves`, `MCPayments`, `MCProcurement`, `MCAccounts`, `MCDealWorkflow` | small sets of requests, payments, statuses, e-mails and forms for TLC |
| `WarehouseMoves_proofs`, `Payments_proofs`, `Procurement_proofs`, `Accounts_proofs`, `DealWorkflow_proofs` | their theorems |

### Stock and Fulfilment

| Model | Code |
|---|---|
| `lot[l]`, numbered in FIFO order | `InventoryLot`, ordered by `received_at, id`; a back-dated receipt may take any free number |
| `reserved[o][l]`, `released[o]`, `shipped[o][l]` | `SaleLineAllocation` rows by status; the unique constraint makes one row per status |
| `balance[w]`, `public[w]` | `InventoryBalance.quantity`, `ProductStock.quantity` |
| `res`, `line`, `ship`, `order`, `deal` | `Reservation`, `ReservationItem`, the one `Shipment` of an order, `Order.status`, two columns of `ManagerDeal` |
| `Receipt` | `receipt_inventory`, positive `_apply_inventory_delta` |
| `Confirm`, `ConfirmUnreserved` | confirmed: `ensure_order_reservations(strict=False)`, and its ValueError after the saved status |
| `Cancel`, `CancelInterrupted` | cancelled: `release_order_reservations`, and its IntegrityError half way |
| `Fulfil` | shipping, done: `sync_order_workflow_state`, with or without a dispatch |
| `Reopen` | the statuses without a stock effect |
| `DispatchShipment`, `MarkDelivered`, `CancelShipment` | `dispatch_shipment` and `ship_shipment`, `mark_shipment_delivered`, `cancel_shipment` |
| `ReserveOnCreation`, `ReserveOrderItem`, `EnsureShipment` | the requests on a deal |

A request is one step, because a request that runs alone has no observer
between its writes; where its exception leaves part of them, the model has a
disjunct for the failure. A request that is refused and writes nothing is not
enabled. Every action includes the rebuild and the publication its handler
makes. `Fifo` gives the possible ways of taking units as a set, which is empty
when the lots do not carry them: the `ValueError` of the allocation.

Abstractions: one catalogue position and one order line per order (an order
with several lines takes its lots independently); costs, names, comments,
movements and the workflow snapshot of a deal are left out (no stock decision
reads them); every warehouse has its own pickup point; reservations from a
cargo, purchases and lines without an order line are not created. One shipment
per order is what `get_or_create(order=order)` keeps. A lot that a bound has no
room for makes the request not enabled.

### ShipmentRequests

`Begin` is everything a request reads before its transaction, with the checks
it makes on that (`Accepted`); `Lock` is `select_for_update` with the checks
repeated on the locked row (`Confirmed`); the third step is the rest of the
transaction up to its commit, where the row counters are computed from `seen`,
the values read in `Begin`, as the code computes them from the model instances
it holds. `Release` and `Return` take no lock. Several reads before the lock
are one `Begin`: reading them apart would only add stale combinations, and the
properties that hold do not rest on what was read. The lack of stock in a lot
is a free choice (`Dispatch` may fail). The status of the reservation is left
out.

### StockRequests

| Model | Code |
|---|---|
| `remaining`, `received`, `taken` | `InventoryLot.remaining_qty`, `received_qty`; the shipped allocations and movements of a lot |
| `held[r][l]` | the RESERVED allocations of the order line that request `r` is for |
| `balLock`, `lotLock` | the row locks of the `InventoryBalance` row and of the lots |
| `LockBalance`, `Allocate` | `allocate_inventory_to_order_item` for a reservation or, after the release of the line's own holds, a dispatch: balance row, `_ensure_lot_coverage_from_balance`, lots, rebuild |
| `BeginWriteoff`, `LockForWriteoff`, `Consume` | `_apply_inventory_delta` with a negative delta: locked lots, the total, then the balance row |
| `BeginManual`, `LockForManual`, `Consume` | `dispatch_shipment` of a line without an order line: `_consume_lots_without_allocation`, whose `save` is what locks a lot |
| `BeginReceive`, `Receive` | `receipt_inventory` and positive deltas: the lot and the total, then the balance row |
| `BeginElsewhere`, `Rewrite` | `rebuild_inventory_balance_cache` of a write-off, a receipt or a dispatch without an order line of another position of the warehouse: the total of this position, then its balance row |
| `Abort` | PostgreSQL's deadlock detector |

A request has one step per wait: what it reads before, then the lock. The last
lock it waits for and its commit are one step. The lots that one statement
locks are locked in one step, because every statement locks them in FIFO order.
A write-off sees the lots that were there when its statement began and reads
their quantities again once it has the locks, as READ COMMITTED does; a line
without an order line keeps the quantities it read first. `rebuild_inventory_balance_cache`
adds the lots up and then waits in `balance_queryset.update`; a reservation or
dispatch has the balance row by then, the others do not. It writes the rows of all
positions of the warehouse: a request for another position holds nothing of this
one when it adds these lots up, and writes their total whenever it gets the row.
What reservations and dispatches of other positions write here is
`WarehouseMoves`'. Requests are for different order lines, and all for `Units`
units. The balance row exists. `entered` is a history variable.

### WarehouseMoves

| Model | Code |
|---|---|
| `job[r]` | what the request is for: `create_receipt`, `create_manual_expense` or `create_writeoff`, `create_adjustment`, `create_transfer`, a reservation or a dispatch of one line |
| `stock[c]`, `balance[c]` | the sum of `remaining_qty` of the lots of a position in a warehouse, and its `InventoryBalance` row |
| `ReadBalance` | `create_adjustment` up to the call of `_apply_inventory_delta`: the balance is read in no transaction |
| `LockBalance` | the first lock of `allocate_inventory_to_order_item` and `_ensure_lot_coverage_from_balance` |
| `AskLots`, `TakeLots` | `_lock_matching_lots` and the lot query of the allocation: sent, and answered once the lots are free, with what they hold by then |
| `Create` | a lot that is only added, and the sum that the rebuild reads |
| `AddUp`, `LockRow`, `Commit` | `rebuild_inventory_balance_cache`: the sums, one balance row after another, the new totals; `Written` is the second rebuild of `dispatch_shipment` |
| `Abort` | PostgreSQL's deadlock detector |

`StockRequests` has single lots and holds of one position; this module has several
positions and warehouses and takes the lots of a cell as one quantity. `unseen` is
what was put into a cell since the request asked for its lots: PostgreSQL reads
the rows it has locked again, but not rows it did not find. These are the last
in FIFO order, so receipts dated back are left out. So are what other order lines
hold (a reservation may be refused whatever is in stock, and the code lets the
others take held lots), orders of several lines, whose locks last longer, and the
public stock, which is computed from the same rows. Every cell has its balance
row. The order in which one `UPDATE` locks the rows of a warehouse is the
database's, so it is any order. `found`, `entered`, `gone` and `exact` are history
variables.

### Payments and PartnerLedger

| Model | Code |
|---|---|
| `status`, `Allowed`, `Accepts` | `Payment.status`; the transition table of `payments/services.py` 90, with the webhook's own refusals |
| `Callback` | the transaction of `webhook_view`: payment and order locked, statuses written |
| `pay`, `applied` | `Order.payment_status`, `Order.partner_bonus_applied` |
| `credits` | `BalanceTransaction` rows of an order |
| `logged`, `mails`, `unsure` | the unique row of `OrderNotificationLog`; the letters that went out; those of them whose sending raised all the same |
| `StaffRead`, `StaffSave` | `update_order_state`, `mark_paid`: read, compare, save one column |
| `AdminRead`, `AdminPrevious`, `AdminSave` | the form of `OrderAdmin`: the row, its previous state, a save of all columns with the effects in its transaction |
| `Bonus`, `Notify`, `Mail` | `apply_partner_bonus_for_order`; `send_order_event_notifications`, whose row is taken back on any exception of the sending: the letter did not go out, or it did and the answer of the mail server was lost |
| `Crash` | a worker that dies, or an effect whose exception the webhook only logs |

Abstractions: amounts are left out (a bonus is one unit); payments exist from the
start; every order has an e-mail; what the status of the order does to stock is
`Fulfilment`'s. `lost` and `unsure` are history variables. `Ledger` maps `Payments` to
`PartnerLedger` for the orders nobody edits in the admin form; the run
`BonusTwice` shows why not for the others.

### Procurement

| Model | Code |
|---|---|
| `purchases`, `lines`, `cargos`, `items` | `Purchase.status`, `PurchaseItem`, `Cargo`, `CargoItem` |
| `booked[i]` | the units that receipts of item `i` added to lots (`receipt_inventory`, 5970) |
| `locks[w]` | rows the transaction of `w` has written and not committed |
| `Receive` | the checks of the page and of the console form; the instances they load |
| `Redirect`, `CountItem`, `CountLine`, `MarkPurchase`, `Book`, `CloseCargo` | the writes of `receive_cargo_item` in their order; the last commits |
| `BeginSplit`, `Split` | `cargo_split_view`, `split_cargo` |
| `BeginLoad`, `Load` | `create_cargo_for_purchase_item` |
| `BeginPurchase`, `InsertPurchase`, `SavePurchase`, `SaveLine` | `upsert_purchase_for_order_item`: whole rows, the purchase before the line |
| `AddItem`, `EditCargo`, `AddLine`, `EditPurchase` | the pages of a cargo and of a purchase, one statement each |
| `Deadlocked`, `Abort` | PostgreSQL's deadlock detector |

A row is locked by the step that writes it; the others see it at the commit.
Statuses no code here tells apart are merged (in transit with created, draft
with ordered). The lots behind a receipt are `StockRequests`' `Receive`, so units
are counted per cargo item here. Legs, expenses and photos are left out, and so
is the deal's warehouse that a receipt for an order line may set.

### Accounts

| Model | Code |
|---|---|
| `account`, `email` | a `User` that exists, its `Profile.email_verified`, `User.email` |
| `codes[u]` | unused, unexpired `EmailVerificationCode` rows; `age` 0 within the cooldown |
| `owner` | `Order.user` of an order placed as a guest |
| `Register`, `Create`, `Delete` | `RegistrationForm.clean_email` and `register_view`, which deletes the account whose code was not sent |
| `Resend` | `register_confirm_view`, the profile's e-mail form |
| `Check`, `Mail`, `Expire`, `Issue` | `create_and_send_email_code`, statement by statement |
| `Confirm`, `Consume`, `Lock`, `Commit` | `verify_email_code` and the transaction of `confirm_email_verification` |
| `Claim`, `Login` | `claim_guest_orders_for_user` after a confirmation, a login or from the page of a guest order |
| `Age`, `Crash` | time, a worker that dies |

Only the transaction of a confirmation locks, and only the rows of its account,
so two accounts never wait for each other. Code values, attempts and rate limits
are left out: whoever reads the letters of an e-mail (`MayUse`) has its code.

### DealWorkflow

| Model | Code |
|---|---|
| `deal` | columns of `ManagerDeal`: stage (`case_status`), `deal_status`, payment, fulfilment, delivery, shipment and next step; flags for a prepayment, a track number, a return, a warehouse |
| `order`, `shipment` | `Order.status` and `payment_status`; the shipment, with `whole`: its items name all units that were ordered, and `sold`: all units are booked as shipped (`OrderItem.shipped_quantity`) |
| `reserved`, `Covered` | whether active reservations hold none, part or all of the units; `reservation_coverage_snapshot`, which counts shipped units apart from reserved ones |
| `Computed` and its parts | `recompute_deal_workflow` and `_case_status_for_order`, `_payment_state_for_deal`, `_deal_fulfillment_status`, `_deal_delivery_status`, `_deal_shipment_status`, `_compute_next_step_for_deal` |
| `Put(row, Changed(old, new), new)` | a save of the columns that differ from the instance the request holds, whatever the row has now |
| `job[w].views` | the instances: read when the request began (`seen`), by the sync (`copy`), after a dispatch (`late`) |
| `Move`, `StateForm`, `AdminChange`, `Override`, `Touch` | a stage, the state form, the admin's actions, the next step by hand, a comment |
| `PrepareShipment`, `ShipmentEvent`, `ReturnGoods` | the buttons of the shipment and of the return |
| `SyncSteps` | `sync_order_workflow_state` |
| `Recompute`, then `SaveDeal` | the queries of `recompute_deal_workflow`; its `deal.save(update_fields=...)`, when a column differs from the instance (`Sets`) |
| `SaveOrder` ... `Reload` | one transaction each; `Fails` ends a request between two of them |

One deal of one order line that tracks stock, sold from stock or from Avito, to be
delivered; one shipment. A warehouse that lacks some of the units leaves a
reservation of the others (4881, 4929), whose shipment holds only these (5866):
it may leave the stock, and the card stays at `not_reserved` until the order
itself is shipped or done. What the stock allows is a free choice (`k`, `Reserve`,
`Effects`), and so is what a dispatch or a cancelled shipment leaves of the
reservation. A reservation is `part` also when its lines are empty by then.

The queries of one computation are one step, and its save is another: no lock and
no transaction joins them, so an older computation may be saved over a newer
card, and over goods that another request has dispatched meanwhile.
`ensure_shipment_for_manager_deal` is one transaction in the code (2697); the
model shows its saves to others as they are made and may keep them when it fails,
which allows more than the code does. The two saves of
`ensure_manager_deal_for_order` and its caller (4803, 6196) are one. A deal starts
as requests have left it: a card computed from its documents (`Starts`). Deals on
request and trade-in have other statuses and documents and are left out.

## 3. What is checked

Passing runs:

| Run | Instance | Shows |
|---|---|---|
| `OrderDesk` | 2 orders (2 and 1 units), 2 warehouses, 2 lots, 2 reservations, 3 lines; statuses confirmed, shipping, cancelled | `TypeOK`; every unit that left a lot is booked on the order line it was sold to; closed reservations are empty; a request that is not cut short publishes what it changed; reserving at confirmation is covered by the balance |
| `SplitOrder` | 1 order of 2 units with a deal at any warehouse or none, 2 warehouses, 2 lots; also new and done | the balance is the sum of the lots; shipment status, stock flag and booked units agree; holds have documents; repeated confirmations and requests on the deal never reserve more than the line; a sent shipment is final |
| `ShipmentRace` | 3 concurrent requests of any kinds on one shipment, with and without an order line | the goods leave once; every request is answered |
| `StockRace` | 3 concurrent requests of any kinds for 1 unit, 2 lots of up to 2 units, up to 2 units of balance without a lot, dispatches with and without their own hold | no unit of a lot is reserved twice, whatever requests of all 6 kinds run; reservations, dispatches and write-offs of the position never backfill from one balance twice, when nobody receives goods or moves another position meanwhile |
| `WarehouseRace` | 3 concurrent requests of 8 kinds, for either of 2 positions, in 2 warehouses | no unit is lost between lots, whoever saves them; reservations and dispatches alone leave the balances equal to the totals of the lots, although each writes the balances of all positions from sums read before it had their rows; a count that read a balance in order, and that nobody overtook, holds; every request is answered, also when several wait in a circle |
| `Payments` | 2 orders, one with a bonus and a payment of the provider and one that the admin form saves once; 2 workers; callbacks partially paid and finished, repeated without bound; staff pay and refund; one sending of each order may raise after the letter went out | the promise to the partner (`LedgerKept`, a refinement); a paid order's bonus is booked or in hand; one letter, and one more only after such a sending; the provider undoes no refund; the bonus arrives (liveness) |
| `Procurement` | 3 requests, 2 at a time, on a purchase of 2 lines of 2 units and what they create | what a cargo shows is in stock; a purchase line never runs ahead of its cargoes; only two requests at one time on an item overbook it; every request is answered although two may lock the same rows in opposite orders |
| `Registrations` | 2 registrations with one e-mail, a signed-in account with 2 e-mails to choose from, a guest order, 2 workers; symmetric | at most one registration succeeds; a confirmed e-mail is final; guest orders are with the owner of their e-mail; no refused registration leaves an account that blocks its e-mail |
| `DealCard` | 2 requests of any kinds, interleaved save by save, both may fail; deals new, prepared in full or in part, or sent from Avito | a request that ran alone leaves a card that agrees with order, shipment and reservation, whatever was before it; an order sent in part is not shown as fulfilled |

Runs that end in a violation, each a statement of the documentation, of a comment
or of an error message that the code does not keep (`findings` in `PROJECT.json`):

| Run | Property | What happens |
|---|---|---|
| `ReleasedTwice` | `CancelledOrderHoldsNoStock` | confirm, cancel, confirm, cancel: the second release of a lot violates the unique constraint; the order is cancelled and keeps its stock |
| `PhantomStock` | `NoPhantomStock` | a receipt that waited for a dispatch writes the total from before it; the next allocation backfills a lot from the difference |
| `BonusTwice` | `BonusOnce` | the admin form writes back the `partner_bonus_applied` it has read; a callback finishes the payment and books the bonus after that reading, and the effects of the form's own save book it again |

Effects of the code that the models show, without a run of their own:

* An order set back to confirmed after its shipment reserves its units again:
  `ensure_order_reservations` does not deduct what was shipped (`Fulfilment`).
* The strict reservation at a deal's warehouse compares the quantity with
  itself, so it promises units that the warehouse lacks (`Fulfilment`, with a
  deal at a warehouse and `ReservingIsCovered`).
* A release that read its reservation line before a dispatch overwrites the
  fulfilled quantity; a cancellation that waited for a dispatch cancels the sent
  shipment; two returns at one time put the goods back twice (`ShipmentRequests`).
* A dispatch without an order line overwrites what another one took from the lot
  (`StockRequests`, with two kinds `"manual"` and `UnitsConserved`).
* The write-off of one position writes the balance of another from a sum taken
  before its dispatch committed, and the next reservation backfills the difference
  (`StockRequests`, with `"elsewhere"`, `"ship"`, `"reserve"` and `NoPhantomStock`).
* A receipt or a transfer that waits for a balance row writes sums from before it
  waited, so a count may find a stale balance and correct by the wrong quantity;
  a count that was overtaken is off by what the other request moved. Write-offs
  and transfers take units that other orders hold (`WarehouseMoves`).
* Two receipts at one time overbook an item, two loads take more than was bought,
  and the purchase form takes back a count of its line (`Procurement`).
* A card may be wrong where no property of `DealCard` looks. A stage moved to
  cancelled releases no reservation, and one moved to completed leaves the order
  done without a shipment. Payment and deal status that two requests compute from
  different reads of the order may stay so until the next request. A comment that
  computes the card before a dispatch and saves it afterwards leaves sent goods
  shown as being prepared, with nobody failing. A shipment
  that the sync marks delivered can stay shown as shipped, when a request with an
  older order overwrote the card before the sync computed it and found nothing
  different on its own copy. The next step may be one that holds for that copy.

Bounds. `MaxLots`, `MaxResvs` and `MaxLines` bound the rows of a behaviour,
`MaxQty` the units of one receipt, reservation or shipment, `Targets` the
statuses staff set. They are large enough for each situation the properties are
about: two lots make FIFO order matter and let an order hold one lot and receive
another; three lines allow reserve, release and reserve again, the shortest way
to the collision of released rows; two orders meet on one lot; two warehouses
split an order. `MaxQty` is the largest order, so no split is cut. The mutants,
one per property and run, break each property within the same bounds. In
`ShipmentRequests` and `StockRequests`, `Done` is the only way to stop. Three
requests of `StockRequests` are enough for a stale total or an aborted
transaction to meet a third request, two lots for requests to meet on one or to
miss each other, and the lots that requests create come on top; with requests for
2 units, which take from both, the run is slow and holds as well. `MaxUnits` also
bounds `missing_qty`; TLC would report a deadlock if it cut a request off. In
`WarehouseMoves` three requests make the shortest circle that is not a pair, and
leave a third one to write an old sum over two; nothing else is bounded. In
`Payments` callbacks and staff are not bounded; two workers are enough for a
payment and its effects to overlap with a second one, and one edit for a stale
form. The edited order has no bonus in `Payments`: what an edit does to a bonus
is `BonusTwice`'s question. `MaxUnsure` bounds the letters that go out and raise,
one for each order; `BonusTwice` has none. `MaxRequests` bounds `Procurement` and `DealWorkflow`: two requests race
and, in `Procurement`, a third meets what they left; each request creates at most
one row of a table, so `MaxRows` cuts none off. Two lines let a purchase be
partly received, two units an item. In `Accounts` each account registers once,
and the histories end by themselves. In `DealCard` the stages, forms, statuses and
next steps are those that lead to different steps or columns: the state form is
the one that ships, the admin confirms, finishes and cancels, one start has half
of its units reserved. The first request leaves the card that the second has to
repair; cards that two requests do not leave are the theorem's.
These runs set CHECK_DEADLOCK FALSE where the bounds end their behaviours
(`Procurement`, `Registrations`, `DealCard`).

Fairness. `Answered` assumes weak fairness of the steps of each request: a web
worker goes on with its request, and PostgreSQL grants a free row lock to a
waiting transaction. The lock is taken by a request only for a bounded stay, so
no strong fairness is needed: with finitely many requests the lock is free for
good once the others are done. In `WarehouseMoves` and `StockRequests` the same
fairness includes `Abort`: PostgreSQL looks for deadlocks after
`deadlock_timeout`. `Fulfilment` has no fairness, since its steps are requests
that nobody must make. `Payments` assumes weak fairness of `Effect`: a worker that
lives goes on with the effects it has begun; callbacks, staff and the admin form
have none. `BonusArrives` therefore excuses the orders whose
worker died (`lost`): the code has nothing that would take up their effects.
`Procurement` assumes it of `Proceed`, the steps of a request that has begun,
`Abort` included. `Accounts` and `DealWorkflow` are checked for safety only.

## 4. What is proved

TLAPS checks the following for all orders, warehouses, lots and quantities.

The assumptions are those that the modules declare and TLC evaluates. Beyond
numbers that are natural and sets that do not overlap, two of them say that a
table has finitely many rows: `IsFiniteSet(Orders)` in `Stock` and
`IsFiniteSet(Warehouses)` in `WarehouseMoves`. A sum over rows means nothing
without that.

Sums are those of the community modules (`SumFunctionOnSet`), which fold a
function over a set in an order that `CHOOSE` picks. `SumRules` says what the
proofs need of them: the sum is an integer, nothing for the empty set, and any
element may be taken out first. It is proved without an induction theorem: there
is a function on the subsets of a finite set that may take any element first
(`PicksAnyExists`), and the library's recursion has that function as its only
solution (`SumIsAny`). For both, a smallest subset for which it fails
(`SmallestSubset`, from the well-foundedness of strict subsets in
`FiniteSetTheorems`) is a contradiction. `SumSame`, `SumChange` and `SumGrows`
follow in the same way: sums with equal terms, with one term changed, with terms
that grow over a set that grows. Each module of proofs that speaks of sums starts
with these lemmas.

`Fulfilment_proofs`, from `StockAssumption` and `FulfilmentAssumption` (positive
quantities, positive numbers of rows, targets that are statuses):

* `TypeCorrect`: `Spec => []TypeOK`. The work is that no subtraction leaves the
  natural numbers: a take is below what its lot offers (`Fifo` lemmas), a
  release below what is reserved, a dispatch below the active quantity.
* `ReservationInvariant`: the inductive invariant `ReservationInv`, the
  conjunction of `TypeOK`, `LinesWithinQuantity`, `AllLinked` (lines belong to
  an order line) and `ClosedReservationsAreEmpty`. None of the last two is
  inductive without the others: that a cancelled order's reservation is empty
  needs that every line it had was released in full, which holds for linked
  lines only, and recomputing a status needs the counters within the quantity.
* `ClosedReservationsStayEmpty`, `LinesStayWithinQuantity`: its consequences.
* `ConsumedShipmentsStayFinal`: `Spec => ConsumedShipmentsAreFinal`. Each step
  either leaves the shipment or passes through `ShipmentFor`, which keeps a
  consumed shipment's items, or through a dispatch, which needs one that is not
  consumed.
* `DeskInvariant`: the inductive invariant `DeskInv` of everything that is a sum.
  The properties of a run are some of its conjuncts (`UnitsStayAccountedFor`,
  `BalanceStaysTotal`, `HoldsStayDocumented`, `PromisesStayWithinOrder`,
  `ShipmentsKeepToStock`). None of them is inductive alone:
  - that holds have documents after a dispatch needs the shipment's items to be
    lines of one reservation at the shipment's warehouse (`ShipWhole`), and that a
    cancellation empties the lines of all reservations of the order, which are the
    rows in use (`RowsWhole`);
  - the shipment that a request of a deal prepares starts from the deal's primary
    reservation, which has to be one of the deal's order (`DealWhole`);
  - that the promises stay within the order needs the new rows to be rows nobody
    has, and numbering without gaps says which they are (`Numbered`);
  - a lot that is not there holds nothing (`LotsWhole`), otherwise a receipt would
    find units of an order on it.

  Each kind of request has lemmas on what it does to the lots of a warehouse and
  to the lines of an order (`ReserveKeeps` and its like); splits across several
  warehouses are sums of sums.
* `CompletedRequestsTell` (`CompletedRequestsPublish`): a warehouse that is not
  told is one whose balance and lines are as before, or a cancellation was cut
  short.
* `ReservingStaysCovered`: `OrderDeskSpec => ReservingIsCovered`. A split at
  confirmation takes from a warehouse what `Free` leaves it; the sum over the new
  lines is what the split asked for there. With the deal's requests (`Spec`) it
  does not hold, as said above.

`ShipmentRequests_proofs`, for any number of requests:

* `TypeCorrect`;
* `RequestsInvariant`: only the holder of the lock is in its transaction; a
  dispatch under the lock still finds the goods, a delivery finds them gone,
  although both read before the lock, because cancelling never clears the stock
  flag and nothing but the lock's holder sets it.
* `GoodsTakenOnce`, `FlagTellsTaken`: its consequences.

`StockRequests_proofs`, for any number of requests, lots and units:

* `TypeCorrect`: `Spec => []TypeOK` for all kinds of requests. It needs
  `PlanWithinSeen`: a request writes what it has read less what it takes, so no
  remaining quantity gets below zero even where it overwrites another's.
* `LotsConserved`: `Spec => []UnitsConserved` unless lines without an order line
  are dispatched (two of them lose an update). The invariant adds
  `WriteoffLocks` (a write-off holds the lots it takes from, and they still have
  what it has read) and `NotYetReceived` (the lot of a receipt is not there
  before). The argument is that a reservation or dispatch needs the locks of all
  lots in stock, so it is never between the lock and the commit of a write-off.
* `HeldOnce`: `Spec => []NeverHeldTwice` for all kinds of requests. `HInv` adds
  that a lot, and what any request has read of it, is at most what was received
  into it, so that a request that overwrites another's update never leaves room
  that was not received; and that an undecided reservation holds nothing. A
  dispatch gives its own hold back before it takes, so it does not matter how its
  line was held.
* `BackfilledOnce`: `Spec => []CoveredOnce`, which is about the requests of one
  position among themselves: a rebuild for another position may write a total that
  is no longer true, as said above. `KInv` says that the balance, with
  what was taken, never exceeds what was entered. The step in danger is the commit
  of a write-off, which writes a total from before it had the balance row; the
  invariant shows that the total is still true:
  - of two write-offs, one asks for every lot in which the other still finds stock
    (`InOrder`: the later one began with at least the lots that are left), so only
    one of them holds lots (`Alone`);
  - a reservation or dispatch waits for all lots in stock, so it commits only when
    no write-off holds any (`AllocateAlone`);
  - what a reservation or dispatch will backfill is the difference as it is now,
    since it has had the balance row from the start (`Covers`).

`WarehouseMoves_proofs`, for any number of requests, positions and warehouses:

* `TypeCorrect`: no lot and no balance gets negative (`TypeInv`).
* `NothingOverwritten`: a commit leaves on its lots what they held just before,
  less what it took. From `LotsInv`: no two requests have the lots of one cell, and
  what a request remembers of its lots, with what is `unseen`, is what they hold. A
  commit of another request can only add lots there, and `unseen` grows with it.
* `CountsAreKept` (`CountHolds`), from `CountInv`: a count whose cell nobody
  changed has nothing unseen, and its difference is the one to the lots.
* `UnitsStayConserved`: `Spec => []UnitsConserved`. `NothingOverwritten` gives what a
  commit writes on the lots it has; a transfer writes the same units to another
  warehouse of the position (`CommitMoves`), so one term of the position's sum
  changes as `entered` and `gone` do, or two change and cancel each other.
* `OrdersAgree` (`BalancesAgree`). From `BalanceInv`, when only reservations and
  dispatches run: each has its own balance row from its first step and needs all
  rows of the warehouse to commit, so none commits while another one there has
  begun, and the sums they read are not old when they are written. Receipts and
  write-offs read their sums without a row, and `PhantomStock` shows what comes of
  it.

`Payments_proofs`, for any number of orders, payments, workers and edits:

* `TypeCorrect`; `BonusKept` (`BonusNotForgotten`); `RefundKept` (`RefundStays`).
* `OneLetter` (`NotifiedOnce`): the inductive invariant says that a worker about
  to send has the only unsent row of `OrderNotificationLog`, and that no letter
  went out before it but those whose sending raised. Each of these takes the row
  back, so the customer gets at most one letter more than there were of them.
* `LedgerImplemented` (`LedgerKept`): the refinement, step by step. It needs that
  the flag of an unedited order is set exactly when its bonus was booked, and that
  no worker holds a form for it: a step of the model is then a settlement, a
  credit or a stutter of `PartnerLedger`.

`Accounts_proofs`, for any number of accounts, e-mails, orders and workers:

* `TypeCorrect`; `FinalEmail` (`EmailIsFinal`), since only the worker that holds
  the lock of an account commits, after it found the account open.
* `RegisteredOnce` (`OneRegistration`): e-mails are not unique, but of the new
  accounts with one e-mail at most one has passed the check for other accounts
  that precedes its letter (`PassedInv`): an account is created before it is
  checked, so the later check finds the other account. Without a letter there is
  no code to confirm with.
* `RightOwner` (`ClaimedByOwner`), `Answered` (`NoOrphans`), and `ClaimsStay`: an
  order that has an account is not taken over by another one (`ClaimedOnce`).

`Procurement_proofs`, for any number of workers, warehouses, rows and units:

* `TypeCorrect`; `CounterInStock` (`CountedIsBooked`), although the counter is
  written from an old instance: what the instance shows was booked when it was read,
  and `booked` never decreases (`Holds`).
* `OverbookedByRaces` (`OnlyRacesOverbook`): unless two requests worked on an item
  at one time, the instance a request holds is the row.
* `LinesNeverAhead` (`LineNeverAhead`), although a receipt and the purchase form
  write the counter of a line from an old instance. `LInv` says that what a request
  has read of a line is not ahead of what the cargoes of the line have brought by
  now (`Fits`): cargo items never leave their line and lots are only added, so that
  sum only grows, and a receipt adds to it what it adds to the counter.

`DealWorkflow_proofs`, for any number of workers, requests, forms, stages and
documents that a deal may start with:

* `TypeCorrect`;
* `CardRepaired` (`CardFollowsDocuments`): a request that ran alone to its end
  leaves a card that agrees with the documents, although it began with whatever
  earlier races and failures had left. The property speaks of the end only and is
  not inductive; `LoneInv` says what a lone request still has to do (`Planned`),
  by the step that comes next and for every list of steps that a request can have
  left, and `Planned` of no steps is the property (`DonePlan`). Between a
  computation and its save it holds of what the row will be (`Pending`): nobody else
  writes, so the request goes on as if it had done both at once (`SetsPlan`,
  `PendingPlan`). The parts of `Planned`:

  - `Computing`: only computations are left. The card agrees already, or one of
    their instances `Fits`: it has the row's value in every field of the row that
    is wrong. This is what the column comparison of `recompute_deal_workflow`
    needs to repair the row: where the instance differs from a wrong field, it may
    compute its own value again, see no change and leave the row wrong. The sync
    and the form compute two or three instances in a row, and `RowAgrees` shows
    that an instance that fits still fits after another one was computed and saved;
  - `Telling`: the deal is read again first, so that whatever was done before does
    not matter;
  - `Sending`, `Syncing`, `Saving`, `Preparing`, `Handing`: the steps before, with
    the instances that equal the rows by then: the request's after its last save,
    the sync's after it has loaded the deal.

  Every action of `Step` has a lemma that takes each `Planned` state to the next
  one (`RecomputePlan` to `ReloadPlan`, put together in `StepPlan`), and every
  request one that puts it into its first (`MoveBegins` to `ShipmentEventBegins`).
  The proof needs no bound on requests and no kind of earlier failure excluded.

Only model-checked: `Answered` and `BonusArrives`, which are liveness and out of
the prover's reach. The three violated properties are TLC's too.

## 5. Plan

Done: `Stock`, `Fulfilment`, `ShipmentRequests`, `StockRequests`,
`WarehouseMoves`, `Payments` with `PartnerLedger`, `Procurement`, `Accounts`,
`DealWorkflow`. What is left, in order:

1. `Desk` (extends `Fulfilment`): reservations by hand, lines without an order
   line, edits and status changes of the reservation page.
2. `WarehouseMoves`: orders of several lines, which keep the locks of one line
   while they ask for the next, and returns, which create lots.
3. `StockLedger`: an abstract specification (units received, promised and sold
   per order) that `Fulfilment` refines.
4. Deals on request and their documents in `DealWorkflow`; the finance lines.
5. Login by SMS code, its attempts and limits, in `Accounts`.

## 6. Not modelled

* Catalogue, filters, imports, pages and templates: queries, batch work and
  wording without protocol state.
* The cart and the checkout: the session of one visitor; they create the orders
  and payments the models start from.
* Finance lines, shares and payouts: arithmetic over the columns of a deal.
* The external CRM: one-way import over the network.
* Login codes, SMS codes, password reset and rate limits of the accounts.
* `fulfill_reservation` and `cancel_pending_shipment` have no caller.

`PROJECT.json` gives the status of each part, also of the modelled ones: each
module covers the operations that change the state it is about, and leaves the
rest of its component to the plan above.

## Running

    tlc -workers 2 -config OrderDesk.cfg MCFulfilment.tla         # SplitOrder, ReleasedTwice
    tlc -workers 2 -config ShipmentRace.cfg MCShipmentRequests.tla
    tlc -workers 2 -config StockRace.cfg MCStockRequests.tla      # PhantomStock
    tlc -workers 2 -config WarehouseRace.cfg MCWarehouseMoves.tla
    tlc -workers 2 -config Payments.cfg MCPayments.tla            # BonusTwice
    tlc -workers 2 -config Procurement.cfg MCProcurement.tla
    tlc -workers 2 -config Registrations.cfg MCAccounts.tla
    tlc -workers 2 -config DealCard.cfg MCDealWorkflow.tla
    tlapm Fulfilment_proofs.tla      # and every other *_proofs.tla

`Payments`, `WarehouseRace`, `StockRace` and `DealCard` take a few minutes, the others
less.
