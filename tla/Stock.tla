------------------------------- MODULE Stock -------------------------------
(***************************************************************************)
(* Ingredients: InventoryService with the parts of OrdersService that call *)
(* it.  Creating an order checks the stock, inserts the order and deducts  *)
(* in the background; cancelling restores and then writes the status;      *)
(* splitting copies an order without touching the stock; staff adjust the  *)
(* stock, edit an ingredient and set recipes.                              *)
(*                                                                         *)
(* The stock of an ingredient and its ledger row are written in one        *)
(* transaction, but with the balance that was read before it.  Each        *)
(* element of Requests is a slot in which one handler can run; an action   *)
(* is what the handler does from one await to the next.  Payments are left *)
(* to the module Payments, sessions to TableSessions.                      *)
(***************************************************************************)
EXTENDS Integers, Sequences, FiniteSetsExt

CONSTANTS
    Requests,        \* slots for handlers that run at the same time
    Ingredients,
    Menu,
    InitialRecipe,   \* units of each ingredient in one serving of each dish
    InitialStock,
    Baskets,         \* what customers order: servings of each dish
    Adjustments,     \* changes that staff book
    Edits,           \* balances that staff write directly
    NewRecipes,      \* recipes that staff set
    StatusTargets,   \* statuses that staff write
    NoIngredient, NoDish,
    MaxOrders,       \* bound: rows of the Order table
    MaxRows,         \* bound: rows of the InventoryTransaction table
    MaxFaults        \* bound: calls that fail and processes that stop

OrderStatus == {"PREPARING", "COMPLETED", "DELIVERED", "CANCELLED"}

\* A row that belongs to no order has order 0.
Row == [ quantity : Int, previousStock : Int, newStock : Int, order : Nat,
         restores : BOOLEAN ]

Order == [ status : OrderStatus, items : [Menu -> Nat] ]

ASSUME StockAssumption ==
    /\ IsFiniteSet(Menu)
    /\ IsFiniteSet(Requests)
    /\ InitialRecipe \in [Menu -> [Ingredients -> Nat]]
    /\ NewRecipes \subseteq [Ingredients -> Nat]
    /\ InitialStock \in [Ingredients -> Nat]
    /\ Baskets \subseteq [Menu -> Nat]
    /\ Adjustments \subseteq Int
    /\ Edits \subseteq Nat
    /\ StatusTargets \subseteq OrderStatus
    /\ NoIngredient \notin Ingredients
    /\ NoDish \notin Menu

VARIABLES
    stock,     \* Ingredient.currentStock
    ledger,    \* the InventoryTransaction rows of each ingredient
    recipe,    \* the MenuItemIngredient rows of each dish
    orders,    \* the Order table
    req,       \* the handler running in each slot
    excuses,   \* history: what has happened that upsets the books
    faults

vars == <<stock, ledger, recipe, orders, req, excuses, faults>>

Nothing == [i \in Ingredients |-> 0]

Idle == [ pc |-> "idle", kind |-> "none", order |-> 0,
          items |-> [m \in Menu |-> 0], todo |-> Nothing, at |-> NoIngredient,
          cur |-> 0, to |-> "PREPARING", dish |-> NoDish ]

Handler == [ pc    : {"idle", "insert", "recipes", "next", "write", "status",
                      "recipe", "split"},
             kind  : {"none", "create", "cancel", "status", "adjust", "recipe",
                      "split"},
             order : Nat,
             items : [Menu -> Nat],
             todo  : [Ingredients -> Int],  \* units still to be booked
             at    : Ingredients \cup {NoIngredient},
             cur   : Int,                   \* currentStock as read
             to    : OrderStatus,
             dish  : Menu \cup {NoDish} ]

Excuses == {"race", "clamp", "edit", "recipe", "mixed", "revived", "fault"}

-----------------------------------------------------------------------------
\* The units of ingredient i in a basket of dishes, one element for each.
Units(items, i) ==
    UNION {({m} \X (1..items[m])) \X (1..recipe[m][i]) : m \in Menu}

\* What an order needs of ingredient i, added up over its dishes.
Needed(items, i) == Cardinality(Units(items, i))

\* checkBulkAvailability looks at one dish at a time.
InStock(items) ==
    \A m \in Menu, i \in Ingredients : recipe[m][i] * items[m] <= stock[i]

\* The other handlers that have checked order o and will change it.
Overlaps(r, o) ==
    \E q \in Requests \ {r} : /\ req[q].kind \in {"cancel", "split"}
                              /\ req[q].order = o

Excuse(why, condition) == IF condition THEN {why} ELSE {}

\* Bounds on the input: every request reserves the rows it can write.
RowsInUse ==
    MapThenSumSet(LAMBDA i : Len(ledger[i]), Ingredients)
      + MapThenSumSet(LAMBDA q : IF req[q].kind \in {"create", "cancel"}
                                 THEN Cardinality(Ingredients)
                                 ELSE IF req[q].kind = "adjust" THEN 1 ELSE 0,
                      Requests)

OrdersInUse ==
    Len(orders) + MapThenSumSet(LAMBDA q : IF req[q].pc = "insert" THEN 1
                                           ELSE IF req[q].pc = "split" THEN 2
                                           ELSE 0, Requests)

Begin(r, h) == /\ req[r].pc = "idle"
               /\ req' = [req EXCEPT ![r] = h]
Goto(r, pc) == req' = [req EXCEPT ![r].pc = pc]
End(r)      == req' = [req EXCEPT ![r] = Idle]

-----------------------------------------------------------------------------
(* OrdersService.create. *)

CreateCheck(r, basket) ==
    /\ OrdersInUse < MaxOrders
    /\ RowsInUse + Cardinality(Ingredients) <= MaxRows
    /\ InStock(basket)
    /\ Begin(r, [Idle EXCEPT !.pc = "insert", !.kind = "create", !.items = basket])
    /\ UNCHANGED <<stock, ledger, recipe, orders, excuses, faults>>

\* The answer does not wait for the deduction, which goes on in the background.
CreateInsert(r) ==
    /\ req[r].pc = "insert"
    /\ orders' = Append(orders, [status |-> "PREPARING", items |-> req[r].items])
    /\ req' = [req EXCEPT ![r].pc = "recipes", ![r].order = Len(orders) + 1]
    /\ UNCHANGED <<stock, ledger, recipe, excuses, faults>>

-----------------------------------------------------------------------------
(* OrdersService.updateStatus. *)

\* Mutation of MustRestore: the status the order has is not looked at.
AlwaysRestore(o, to) == to = "CANCELLED"

\* A change to CANCELLED from any other status gives the ingredients back.
MustRestore(o, to) == to = "CANCELLED" /\ orders[o].status # "CANCELLED"

StatusRead(r, o, to) ==
    /\ IF MustRestore(o, to)
       THEN /\ RowsInUse + Cardinality(Ingredients) <= MaxRows
            /\ Begin(r, [Idle EXCEPT !.pc = "recipes", !.kind = "cancel",
                                     !.order = o, !.to = to,
                                     !.items = orders[o].items])
       ELSE Begin(r, [Idle EXCEPT !.pc = "status", !.kind = "status",
                                  !.order = o, !.to = to])
    /\ UNCHANGED <<stock, ledger, recipe, orders, excuses, faults>>

StatusWrite(r) ==
    LET o == req[r].order
        to == req[r].to IN
    /\ req[r].pc = "status"
    /\ orders' = [orders EXCEPT ![o].status = to]
    /\ excuses' = excuses
         \cup Excuse("race", to = "CANCELLED" /\ Overlaps(r, o))
         \cup Excuse("revived", to # "CANCELLED" /\ orders[o].status = "CANCELLED")
    /\ End(r)
    /\ UNCHANGED <<stock, ledger, recipe, faults>>

-----------------------------------------------------------------------------
(* deductStockForOrder and restoreStockForOrder: the recipes in one query,   *)
(* and then a read and a transaction for each ingredient.                    *)

ReadRecipes(r) ==
    /\ req[r].pc = "recipes"
    /\ req' = [req EXCEPT ![r].pc = "next",
                          ![r].todo = [i \in Ingredients |->
                                          Needed(req[r].items, i)]]
    /\ UNCHANGED <<stock, ledger, recipe, orders, excuses, faults>>

StockRead(r, i) ==
    /\ req[r].pc = "next"
    /\ req[r].todo[i] > 0
    /\ req' = [req EXCEPT ![r].pc = "write", ![r].at = i, ![r].cur = stock[i]]
    /\ UNCHANGED <<stock, ledger, recipe, orders, excuses, faults>>

\* Computed from the balance that was read; a deduction stops at zero.
NewStock(h) ==
    IF h.kind = "create" THEN Max({0, h.cur - h.todo[h.at]})
                         ELSE h.cur + h.todo[h.at]

Quantity(h) == IF h.kind = "create" THEN - h.todo[h.at] ELSE h.todo[h.at]

\* Mutation of LedgerRow: the clamped balance is not what the row shows.
RowUnclamped(h) ==
    [ quantity |-> Quantity(h), previousStock |-> h.cur,
      newStock |-> h.cur + Quantity(h), order |-> h.order,
      restores |-> h.kind = "cancel" ]

LedgerRow(h) ==
    [ quantity |-> Quantity(h), previousStock |-> h.cur,
      newStock |-> NewStock(h), order |-> h.order,
      restores |-> h.kind = "cancel" ]

\* The loop is through with one ingredient.
Continue(h) ==
    [h EXCEPT !.pc = "next", !.todo = [@ EXCEPT ![h.at] = 0],
              !.at = NoIngredient, !.cur = 0]

\* One transaction writes the balance and the row.
StockWrite(r) ==
    LET h == req[r] IN
    /\ h.pc = "write"
    /\ stock' = [stock EXCEPT ![h.at] = NewStock(h)]
    /\ ledger' = [ledger EXCEPT ![h.at] = Append(@, LedgerRow(h))]
    /\ excuses' = excuses
         \cup Excuse("race", stock[h.at] # h.cur)
         \cup Excuse("clamp", NewStock(h) # h.cur + Quantity(h))
    /\ req' = [req EXCEPT ![r] =
                 IF h.kind = "adjust" THEN Idle
                 ELSE Continue(h)]
    /\ UNCHANGED <<recipe, orders, faults>>

\* The failure of one ingredient is logged and the loop goes on.
StockFail(r) ==
    LET h == req[r] IN
    /\ h.pc = "write"
    /\ h.kind \in {"create", "cancel"}
    /\ faults < MaxFaults
    /\ faults' = faults + 1
    /\ excuses' = excuses \cup {"fault"}
    /\ req' = [req EXCEPT ![r] = Continue(h)]
    /\ UNCHANGED <<stock, ledger, recipe, orders>>

\* Mutation of StockDone: the loop ends after its first ingredient.
StockDoneEarly(r) ==
    /\ req[r].pc = "next"
    /\ \E i \in Ingredients : req[r].todo[i] <= 0
    /\ IF req[r].kind = "cancel" THEN Goto(r, "status") ELSE End(r)
    /\ UNCHANGED <<stock, ledger, recipe, orders, excuses, faults>>

\* A background deduction just ends; a cancellation writes the status.
StockDone(r) ==
    /\ req[r].pc = "next"
    /\ \A i \in Ingredients : req[r].todo[i] <= 0
    /\ IF req[r].kind = "cancel" THEN Goto(r, "status") ELSE End(r)
    /\ UNCHANGED <<stock, ledger, recipe, orders, excuses, faults>>

-----------------------------------------------------------------------------
(* What staff do. *)

MayAdjust(i, change) == stock[i] + change >= 0

\* adjustStock writes with the same transaction as the loops above.
AdjustRead(r, i, change) ==
    /\ RowsInUse < MaxRows
    /\ MayAdjust(i, change)
    /\ Begin(r, [Idle EXCEPT !.pc = "write", !.kind = "adjust", !.at = i,
                             !.cur = stock[i], !.todo = [Nothing EXCEPT ![i] = change]])
    /\ UNCHANGED <<stock, ledger, recipe, orders, excuses, faults>>

\* updateIngredient writes any field, the balance included, and no ledger row.
UpdateIngredient(i, balance) ==
    /\ stock' = [stock EXCEPT ![i] = balance]
    /\ excuses' = excuses \cup Excuse("edit", balance # stock[i])
    /\ UNCHANGED <<ledger, recipe, orders, req, faults>>

\* Mutation of Cleared: the rows of the old recipe stay.
NotCleared(m) == recipe

\* deleteMany on the rows of one dish.
Cleared(m) == [recipe EXCEPT ![m] = Nothing]

\* setRecipe deletes the rows of the dish and then inserts the new ones.
SetRecipeDelete(r, m, new) ==
    /\ Begin(r, [Idle EXCEPT !.pc = "recipe", !.kind = "recipe", !.dish = m,
                             !.todo = new])
    /\ recipe' = Cleared(m)
    /\ excuses' = excuses \cup {"recipe"}
         \cup Excuse("mixed", \E q \in Requests : req[q].kind = "recipe"
                                               /\ req[q].dish = m)
    /\ UNCHANGED <<stock, ledger, orders, faults>>

\* A dish has one row for an ingredient: an insert that meets another fails.
SetRecipeInsert(r) ==
    LET m == req[r].dish
        new == req[r].todo IN
    /\ req[r].pc = "recipe"
    /\ recipe' = IF \E i \in Ingredients : new[i] > 0 /\ recipe[m][i] > 0
                 THEN recipe
                 ELSE [recipe EXCEPT ![m] =
                         [i \in Ingredients |-> recipe[m][i] + new[i]]]
    /\ End(r)
    /\ UNCHANGED <<stock, ledger, orders, excuses, faults>>

DeleteRecipe(m) ==
    /\ recipe' = Cleared(m)
    /\ excuses' = excuses \cup {"recipe"}
    /\ UNCHANGED <<stock, ledger, orders, req, faults>>

-----------------------------------------------------------------------------
(* OrdersService.splitOrder, for an order that is not paid. *)

SplitRead(r, o) ==
    /\ OrdersInUse + 2 <= MaxOrders
    /\ orders[o].status # "CANCELLED"
    /\ Begin(r, [Idle EXCEPT !.pc = "split", !.kind = "split", !.order = o,
                             !.to = orders[o].status, !.items = orders[o].items])
    /\ UNCHANGED <<stock, ledger, recipe, orders, excuses, faults>>

Ordered(items) == {m \in Menu : items[m] > 0}

\* Mutation of Copy: a dish of the other group has no entry.
CopyNarrow(r, dishes) ==
    [ status |-> req[r].to, items |-> [m \in dishes |-> req[r].items[m]] ]

Copy(r, dishes) ==
    [ status |-> req[r].to,
      items |-> [m \in Menu |-> IF m \in dishes THEN req[r].items[m] ELSE 0] ]

\* The dishes in part go to one copy, the others to a second one.
SplitCommit(r, part) ==
    LET o == req[r].order
        rest == Ordered(req[r].items) \ part IN
    /\ req[r].pc = "split"
    /\ part # {} /\ rest # {}
    /\ orders' = [orders EXCEPT ![o].status = "CANCELLED"]
                   \o << Copy(r, part), Copy(r, rest) >>
    /\ excuses' = excuses \cup Excuse("race", \/ Overlaps(r, o)
                                              \/ orders[o].status = "CANCELLED")
    /\ End(r)
    /\ UNCHANGED <<stock, ledger, recipe, faults>>

-----------------------------------------------------------------------------
\* Nothing has been written yet: the request is refused or fails.
Reject(r) ==
    /\ \/ req[r].pc \in {"insert", "split"}
       \/ req[r].kind \in {"status", "adjust"}
    /\ End(r)
    /\ UNCHANGED <<stock, ledger, recipe, orders, excuses, faults>>

\* The process stops, or a query outside the loop's own error handling fails;
\* the status write still follows a restore whose recipes could not be read.
Crash(r) ==
    /\ req[r].pc \in {"recipes", "next", "write", "status", "recipe"}
    /\ req[r].kind \in {"create", "cancel", "recipe"}
    /\ faults < MaxFaults
    /\ faults' = faults + 1
    /\ excuses' = excuses \cup {"fault"}
    /\ \/ End(r)
       \/ req[r].pc = "recipes" /\ req[r].kind = "cancel" /\ Goto(r, "status")
    /\ UNCHANGED <<stock, ledger, recipe, orders>>

-----------------------------------------------------------------------------
Init ==
    /\ stock = InitialStock
    /\ ledger = [i \in Ingredients |-> << >>]
    /\ recipe = InitialRecipe
    /\ orders = << >>
    /\ req = [r \in Requests |-> Idle]
    /\ excuses = {}
    /\ faults = 0

\* What a handler does on its own, once its request has arrived.
HandlerStep(r) ==
    \/ CreateInsert(r)
    \/ StatusWrite(r)
    \/ ReadRecipes(r)
    \/ \E i \in Ingredients : StockRead(r, i)
    \/ StockWrite(r)
    \/ StockDone(r)
    \/ SetRecipeInsert(r)
    \/ \E part \in SUBSET Ordered(req[r].items) : SplitCommit(r, part)
    \/ Reject(r)

NewRequest(r) ==
    \/ \E basket \in Baskets : CreateCheck(r, basket)
    \/ \E o \in DOMAIN orders, to \in StatusTargets : StatusRead(r, o, to)
    \/ \E i \in Ingredients, change \in Adjustments : AdjustRead(r, i, change)
    \/ \E m \in Menu, new \in NewRecipes : SetRecipeDelete(r, m, new)
    \/ \E o \in DOMAIN orders : SplitRead(r, o)

Next ==
    \/ \E r \in Requests : \/ NewRequest(r)
                           \/ HandlerStep(r)
                           \/ StockFail(r)
                           \/ Crash(r)
    \/ \E i \in Ingredients, balance \in Edits : UpdateIngredient(i, balance)
    \/ \E m \in Menu : NewRecipes # {} /\ DeleteRecipe(m)

Spec == Init /\ [][Next]_vars

\* Every awaited call returns or throws, so a handler never stops in between.
Fairness == \A r \in Requests : WF_vars(HandlerStep(r))

FairSpec == Spec /\ Fairness

-----------------------------------------------------------------------------
(* Properties. *)

TypeOK ==
    /\ stock \in [Ingredients -> Int]
    /\ ledger \in [Ingredients -> Seq(Row)]
    /\ recipe \in [Menu -> [Ingredients -> Nat]]
    /\ orders \in Seq(Order)
    /\ req \in [Requests -> Handler]
    /\ excuses \subseteq Excuses
    /\ faults \in Nat

\* No ingredient's stock drops below zero, however deductions, restorations
\* and adjustments interleave: each computes from the balance it has read, and
\* a deduction stops at zero.
StockNonNegative == \A i \in Ingredients : stock[i] >= 0

LastRow(i) == ledger[i][Len(ledger[i])]

\* The last ledger row of an ingredient shows its balance, unless staff wrote
\* the balance directly: no handler moves stock that the ledger does not show.
LedgerShowsStock ==
    "edit" \notin excuses =>
        \A i \in Ingredients :
            stock[i] = IF ledger[i] = << >> THEN InitialStock[i]
                       ELSE LastRow(i).newStock

\* Each ledger row starts where the row before it ended, as long as no write
\* was computed from a balance that had changed since it was read.
LedgerChained ==
    {"race", "edit"} \cap excuses = {} =>
        \A i \in Ingredients : \A k \in 2..Len(ledger[i]) :
            ledger[i][k].previousStock = ledger[i][k - 1].newStock

\* What the ledger says of the stock can be believed: no balance below zero, the
\* last row shows it, and each row goes on from the one before.
LedgerTellsStock == StockNonNegative /\ LedgerShowsStock /\ LedgerChained

Live(o) == orders[o].status # "CANCELLED"

\* What staff have booked on ingredient i: the rows that belong to no order.
Booked(i) ==
    SumFunctionOnSet([k \in DOMAIN ledger[i] |->
                         IF ledger[i][k].order = 0 THEN ledger[i][k].quantity ELSE 0],
                     DOMAIN ledger[i])

\* What the orders that are not cancelled need of it.
Used(i) ==
    SumFunctionOnSet([o \in DOMAIN orders |->
                         IF Live(o) THEN Needed(orders[o].items, i) ELSE 0],
                     DOMAIN orders)

\* When no handler is running, what is missing from the stock is what the orders
\* that are not cancelled have used: a split moves it, and a cancellation gives
\* it back once.
StockAccounted ==
    (excuses = {} /\ \A r \in Requests : req[r].pc = "idle") =>
        \A i \in Ingredients : stock[i] = InitialStock[i] + Booked(i) - Used(i)

\* A dish has its first recipe, no recipe, or one that staff set as a whole,
\* unless two requests set it at the same time: the insert of each only fails
\* when they share an ingredient, and mixes the two otherwise.
RecipeWhole ==
    "mixed" \notin excuses =>
        \A m \in Menu : recipe[m] \in {InitialRecipe[m], Nothing} \cup NewRecipes

\* Every accepted order is deducted in the end, although nobody waits for it,
\* unless a call failed or the recipes were changed.
OrderDeducted ==
    \A o \in 1..MaxOrders :
        (\E r \in Requests : req[r].kind = "create" /\ req[r].order = o) ~>
            \/ {"fault", "recipe"} \cap excuses # {}
            \/ o \in DOMAIN orders /\ \A i \in Ingredients :
                  Needed(orders[o].items, i) > 0 => \E k \in DOMAIN ledger[i] :
                      ledger[i][k].order = o /\ ~ledger[i][k].restores

=============================================================================
