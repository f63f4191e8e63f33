---------------------------- MODULE StockProofs ----------------------------
(***************************************************************************)
(* Proofs about Stock for every value of its constants: the type invariant,*)
(* that no stock drops below zero, that the ledger shows the stock and its *)
(* rows form a chain unless a write overtook another, that the stock       *)
(* accounts for the orders, that recipes are whole, and that a deduction   *)
(* skips no ingredient.                                                    *)
(***************************************************************************)
EXTENDS Stock, Sums, FunctionTheorems

\* A handler that is about to write names an ingredient, and what it read and
\* will add to it is not negative unless it deducts; a recipe has no negative
\* quantities.
HandlerOK ==
    \A r \in Requests :
        /\ req[r].pc = "write" => req[r].at \in Ingredients
        /\ (req[r].pc = "write" /\ req[r].kind # "create") =>
              req[r].cur + req[r].todo[req[r].at] >= 0
        /\ req[r].pc = "recipe" => req[r].todo \in [Ingredients -> Nat]

\* The first and the third part need the second: a handler reads only balances
\* that are not negative.
SInv == TypeOK /\ HandlerOK /\ StockNonNegative

\* What an order needs by some table of recipes.
UnitsOf(table, items, i) ==
    UNION {({m} \X (1..items[m])) \X (1..table[m][i]) : m \in Menu}

NeedsOf(table, items, i) == Cardinality(UnitsOf(table, items, i))

\* An order needs a natural number of units.
LEMMA UnitsFinite ==
    ASSUME NEW table \in [Menu -> [Ingredients -> Nat]], NEW items \in [Menu -> Nat],
           NEW i \in Ingredients
    PROVE  IsFiniteSet(UnitsOf(table, items, i))
<1> DEFINE F == [m \in Menu |-> ({m} \X (1..items[m])) \X (1..table[m][i])]
           T == {({m} \X (1..items[m])) \X (1..table[m][i]) : m \in Menu}
<1>1. IsFiniteSet(T)
  <2>1. F \in Surjection(Menu, T)
    BY DEF Surjection
  <2>2. IsFiniteSet(Menu)
    BY StockAssumption
  <2> HIDE DEF F, T
  <2>3. QED
    BY <2>1, <2>2, FS_Surjection
<1>2. ASSUME NEW m \in Menu
      PROVE  IsFiniteSet(({m} \X (1..items[m])) \X (1..table[m][i]))
  <2>1. items[m] \in Int /\ table[m][i] \in Int /\ 1 \in Int
    OBVIOUS
  <2>2. IsFiniteSet(1..items[m]) /\ IsFiniteSet(1..table[m][i])
    BY <2>1, FS_Interval
  <2>3. IsFiniteSet({m})
    BY FS_Singleton
  <2>4. QED
    BY <2>2, <2>3, FS_Product
<1>3. \A S \in T : IsFiniteSet(S)
  BY <1>2
<1>4. IsFiniteSet(UNION T)
  BY <1>1, <1>3, FS_UNION
<1>5. QED
  BY <1>4 DEF UnitsOf

LEMMA NeedsOfType ==
    ASSUME NEW table \in [Menu -> [Ingredients -> Nat]], NEW items \in [Menu -> Nat],
           NEW i \in Ingredients
    PROVE  NeedsOf(table, items, i) \in Nat
  BY UnitsFinite, FS_CardinalityType DEF NeedsOf

LEMMA NeededType ==
    ASSUME TypeOK, NEW items \in [Menu -> Nat], NEW i \in Ingredients
    PROVE  Needed(items, i) \in Nat
<1>1. Needed(items, i) = NeedsOf(recipe, items, i)
  BY DEF Needed, Units, NeedsOf, UnitsOf
<1>2. QED
  BY <1>1, NeedsOfType DEF TypeOK

\* Max of zero and an integer is the larger of the two.
LEMMA MaxZero ==
    ASSUME NEW n \in Int
    PROVE  Max({0, n}) \in Nat
<1>1. \E x \in {0, n} : \A y \in {0, n} : x >= y
  BY SMT
<1>2. Max({0, n}) \in {0, n} /\ \A y \in {0, n} : Max({0, n}) >= y
  BY <1>1 DEF Max
<1>3. QED
  BY <1>2

-----------------------------------------------------------------------------
LEMMA IdleType == Idle \in Handler
  BY DEF Idle, Handler, Nothing, OrderStatus

\* Rewriting a slot with a handler keeps req well typed.
LEMMA ReqType ==
    ASSUME TypeOK, NEW r \in Requests, NEW h \in Handler
    PROVE  [req EXCEPT ![r] = h] \in [Requests -> Handler]
  BY DEF TypeOK

LEMMA ContinueType ==
    ASSUME NEW h \in Handler
    PROVE  Continue(h) \in Handler
<1>1. h.todo \in [Ingredients -> Int] /\ 0 \in Int
  BY DEF Handler
<1>2. [h.todo EXCEPT ![h.at] = 0] \in [Ingredients -> Int]
  BY <1>1
<1> DEFINE todo == [h.todo EXCEPT ![h.at] = 0]
<1>3. Continue(h) = [h EXCEPT !.pc = "next", !.todo = todo,
                              !.at = NoIngredient, !.cur = 0]
  BY DEF Continue
<1> HIDE DEF todo
<1>4. todo \in [Ingredients -> Int]
  BY <1>2 DEF todo
<1>5. QED
  BY <1>1, <1>3, <1>4 DEF Handler

\* The balance that a handler writes.
LEMMA NewStockType ==
    ASSUME NEW h \in Handler, h.at \in Ingredients
    PROVE  /\ NewStock(h) \in Int
           /\ (h.kind # "create" => h.cur + h.todo[h.at] >= 0) => NewStock(h) >= 0
           /\ LedgerRow(h) \in Row
           /\ LedgerRow(h).newStock = NewStock(h)
           /\ LedgerRow(h).previousStock = h.cur
<1>1. h.cur \in Int /\ h.todo[h.at] \in Int /\ h.order \in Nat
  BY DEF Handler
<1>2. h.cur - h.todo[h.at] \in Int
  BY <1>1
<1>3. Max({0, h.cur - h.todo[h.at]}) \in Nat
  BY <1>2, MaxZero
<1>4. /\ NewStock(h) \in Int
      /\ (h.kind # "create" => h.cur + h.todo[h.at] >= 0) => NewStock(h) >= 0
  <2> DEFINE clamped == Max({0, h.cur - h.todo[h.at]})
  <2>1. clamped \in Nat /\ NewStock(h) = IF h.kind = "create" THEN clamped
                                         ELSE h.cur + h.todo[h.at]
    BY <1>3 DEF NewStock
  <2> HIDE DEF clamped
  <2>2. QED
    BY <1>1, <2>1
<1>5. Quantity(h) \in Int
  BY <1>1 DEF Quantity
<1>6. QED
  BY <1>1, <1>4, <1>5 DEF LedgerRow, Row

\* What Goto and End make of a slot.
LEMMA GotoType ==
    ASSUME TypeOK, NEW r \in Requests
    PROVE  /\ End(r) => req' = [req EXCEPT ![r] = Idle]
           /\ Goto(r, "status") =>
                \E h \in Handler : h.pc = "status" /\ req' = [req EXCEPT ![r] = h]
           /\ Idle \in Handler /\ Idle.pc = "idle"
<1> DEFINE h == [req[r] EXCEPT !.pc = "status"]
<1>1. req \in [Requests -> Handler] /\ req[r] \in Handler
  BY DEF TypeOK
<1>2. h \in Handler /\ h.pc = "status"
  BY <1>1 DEF Handler
<1>3. Goto(r, "status") => req' = [req EXCEPT ![r] = h]
  BY <1>1 DEF Goto
<1>4. Idle.pc = "idle"
  BY DEF Idle
<1> HIDE DEF h
<1>5. QED
  BY <1>2, <1>3, <1>4, IdleType DEF End

\* A recipe table without the rows of one dish.
LEMMA ClearedType ==
    ASSUME TypeOK, NEW m \in Menu
    PROVE  Cleared(m) \in [Menu -> [Ingredients -> Nat]]
<1>1. Nothing \in [Ingredients -> Nat]
  BY DEF Nothing
<1>2. QED
  BY <1>1 DEF Cleared, TypeOK

\* Writing a status keeps the table a table, also when there is no such order.
LEMMA StatusType ==
    ASSUME TypeOK, NEW o, NEW s \in OrderStatus
    PROVE  [orders EXCEPT ![o].status = s] \in Seq(Order)
<1>1. orders \in Seq(Order)
  BY DEF TypeOK
<1>2. CASE o \in DOMAIN orders
  <2>1. orders[o] \in Order
    BY <1>1, <1>2
  <2> DEFINE row == [orders[o] EXCEPT !.status = s]
  <2>2. row \in Order
    BY <2>1 DEF Order
  <2>3. [orders EXCEPT ![o].status = s] = [orders EXCEPT ![o] = row]
    BY <1>1
  <2> HIDE DEF row
  <2>4. QED
    BY <1>1, <1>2, <2>2, <2>3
<1>3. CASE o \notin DOMAIN orders
  <2>1. [orders EXCEPT ![o].status = s] = orders
    BY <1>1, <1>3
  <2>2. QED
    BY <1>1, <2>1
<1>4. QED
  BY <1>2, <1>3

LEMMA InitStock == Init => SInv
<1> SUFFICES ASSUME Init PROVE SInv
  OBVIOUS
<1>1. TypeOK
  BY IdleType, StockAssumption DEF Init, TypeOK
<1>2. HandlerOK
  BY DEF Init, HandlerOK, Idle
<1>3. StockNonNegative
  BY StockAssumption DEF Init, StockNonNegative
<1>4. QED
  BY <1>1, <1>2, <1>3 DEF SInv

-----------------------------------------------------------------------------
LEMMA StockStep == SInv /\ [Next]_vars => SInv'
<1> SUFFICES ASSUME SInv, [Next]_vars PROVE SInv'
  OBVIOUS
<1> USE DEF SInv, Excuse
<1>1. ASSUME NEW r \in Requests, NEW basket \in Baskets, CreateCheck(r, basket)
      PROVE  SInv'
  <2> DEFINE h == [Idle EXCEPT !.pc = "insert", !.kind = "create", !.items = basket]
  <2>1. h \in Handler /\ h.pc = "insert"
    BY StockAssumption, IdleType DEF Handler
  <2>2. req' = [req EXCEPT ![r] = h]
    BY <1>1 DEF CreateCheck, Begin
  <2> HIDE DEF h
  <2>3. TypeOK'
    BY <1>1, <2>1, <2>2, ReqType DEF CreateCheck, TypeOK
  <2>4. HandlerOK'
    BY <2>1, <2>2 DEF TypeOK, HandlerOK
  <2>5. QED
    BY <1>1, <2>3, <2>4 DEF CreateCheck, StockNonNegative
<1>2. ASSUME NEW r \in Requests, CreateInsert(r)
      PROVE  SInv'
  <2> DEFINE h == [req[r] EXCEPT !.pc = "recipes", !.order = Len(orders) + 1]
  <2>1. req[r] \in Handler /\ Len(orders) + 1 \in Nat
    BY DEF TypeOK
  <2>2. h \in Handler /\ h.pc = "recipes"
    BY <2>1 DEF Handler
  <2>3. req' = [req EXCEPT ![r] = h]
    BY <1>2 DEF CreateInsert, TypeOK
  <2>4. orders' \in Seq(Order)
    <3>1. [status |-> "PREPARING", items |-> req[r].items] \in Order
      BY <2>1 DEF Handler, Order, OrderStatus
    <3>2. QED
      BY <1>2, <3>1 DEF CreateInsert, TypeOK
  <2> HIDE DEF h
  <2>5. TypeOK'
    BY <1>2, <2>2, <2>3, <2>4, ReqType DEF CreateInsert, TypeOK
  <2>6. HandlerOK'
    BY <2>2, <2>3 DEF TypeOK, HandlerOK
  <2>7. QED
    BY <1>2, <2>5, <2>6 DEF CreateInsert, StockNonNegative
<1>3. ASSUME NEW r \in Requests, NEW o \in DOMAIN orders, NEW to \in StatusTargets,
             StatusRead(r, o, to)
      PROVE  SInv'
  <2>1. orders[o] \in Order /\ o \in Nat /\ to \in OrderStatus
    BY StockAssumption DEF TypeOK
  <2>2. PICK h \in Handler : /\ h.pc \in {"recipes", "status"}
                             /\ req' = [req EXCEPT ![r] = h]
    <3>1. CASE MustRestore(o, to)
      <4> DEFINE g == [Idle EXCEPT !.pc = "recipes", !.kind = "cancel",
                                   !.order = o, !.to = to, !.items = orders[o].items]
      <4>1. g \in Handler /\ g.pc = "recipes"
        BY <2>1, IdleType DEF Handler, Order
      <4>2. req' = [req EXCEPT ![r] = g]
        BY <1>3, <3>1 DEF StatusRead, Begin
      <4> HIDE DEF g
      <4>3. QED
        BY <4>1, <4>2
    <3>2. CASE ~MustRestore(o, to)
      <4> DEFINE g == [Idle EXCEPT !.pc = "status", !.kind = "status",
                                   !.order = o, !.to = to]
      <4>1. g \in Handler /\ g.pc = "status"
        BY <2>1, IdleType DEF Handler
      <4>2. req' = [req EXCEPT ![r] = g]
        BY <1>3, <3>2 DEF StatusRead, Begin
      <4> HIDE DEF g
      <4>3. QED
        BY <4>1, <4>2
    <3>3. QED
      BY <3>1, <3>2
  <2>3. TypeOK'
    BY <1>3, <2>2, ReqType DEF StatusRead, TypeOK
  <2>4. HandlerOK'
    BY <2>2 DEF TypeOK, HandlerOK
  <2>5. QED
    BY <1>3, <2>3, <2>4 DEF StatusRead, StockNonNegative
<1>4. ASSUME NEW r \in Requests, StatusWrite(r)
      PROVE  SInv'
  <2>1. req[r].to \in OrderStatus
    BY DEF TypeOK, Handler
  <2>2. orders' \in Seq(Order)
    BY <1>4, <2>1, StatusType DEF StatusWrite
  <2>3. TypeOK'
    BY <1>4, <2>2, IdleType DEF StatusWrite, End, TypeOK, Excuses
  <2>4. HandlerOK'
    BY <1>4 DEF StatusWrite, End, TypeOK, HandlerOK, Idle
  <2>5. QED
    BY <1>4, <2>3, <2>4 DEF StatusWrite, StockNonNegative
<1>5. ASSUME NEW r \in Requests, ReadRecipes(r)
      PROVE  SInv'
  <2> DEFINE todo == [i \in Ingredients |-> Needed(req[r].items, i)]
             h == [req[r] EXCEPT !.pc = "next", !.todo = todo]
  <2>1. req[r] \in Handler /\ req[r].items \in [Menu -> Nat]
    BY DEF TypeOK, Handler
  <2>2. todo \in [Ingredients -> Int]
    BY <2>1, NeededType
  <2>3. req' = [req EXCEPT ![r] = h]
    BY <1>5 DEF ReadRecipes, TypeOK
  <2> HIDE DEF todo
  <2>4. h \in Handler /\ h.pc = "next"
    BY <2>1, <2>2 DEF Handler
  <2> HIDE DEF h
  <2>5. TypeOK'
    BY <1>5, <2>3, <2>4, ReqType DEF ReadRecipes, TypeOK
  <2>6. HandlerOK'
    BY <2>3, <2>4 DEF TypeOK, HandlerOK
  <2>7. QED
    BY <1>5, <2>5, <2>6 DEF ReadRecipes, StockNonNegative
<1>6. ASSUME NEW r \in Requests, NEW i \in Ingredients, StockRead(r, i)
      PROVE  SInv'
  <2> DEFINE h == [req[r] EXCEPT !.pc = "write", !.at = i, !.cur = stock[i]]
  <2>1. req[r] \in Handler /\ stock[i] \in Int /\ stock[i] >= 0
    BY DEF TypeOK, StockNonNegative
  <2>2. h \in Handler
    BY <2>1 DEF Handler
  <2>3. h.at = i /\ h.cur + h.todo[i] >= 0 /\ h.pc = "write"
    BY <1>6, <2>1 DEF StockRead, Handler
  <2>4. req' = [req EXCEPT ![r] = h]
    BY <1>6 DEF StockRead, TypeOK
  <2> HIDE DEF h
  <2>5. TypeOK'
    <3>1. req' \in [Requests -> Handler]
      BY <2>2, <2>4, ReqType
    <3>2. UNCHANGED <<stock, ledger, recipe, orders, excuses, faults>>
      BY <1>6 DEF StockRead
    <3>3. QED
      BY <3>1, <3>2 DEF TypeOK
  <2>6. HandlerOK'
    BY <2>3, <2>4 DEF TypeOK, HandlerOK
  <2>7. QED
    BY <1>6, <2>5, <2>6 DEF StockRead, StockNonNegative
<1>7. ASSUME NEW r \in Requests, StockWrite(r)
      PROVE  SInv'
  <2> DEFINE h == req[r]
  <2>1. h \in Handler /\ h.at \in Ingredients
    BY <1>7 DEF StockWrite, TypeOK, HandlerOK
  <2>2. NewStock(h) \in Int /\ NewStock(h) >= 0 /\ LedgerRow(h) \in Row
    BY <1>7, <2>1, NewStockType DEF StockWrite, HandlerOK
  <2>3. PICK g \in Handler : /\ g.pc \in {"idle", "next"}
                             /\ req' = [req EXCEPT ![r] = g]
    <3>1. Idle.pc = "idle" /\ Continue(h).pc = "next"
      BY <2>1 DEF Idle, Continue, Handler
    <3>2. QED
      BY <1>7, <2>1, <3>1, IdleType, ContinueType DEF StockWrite
  <2>4. stock' = [stock EXCEPT ![h.at] = NewStock(h)]
    BY <1>7 DEF StockWrite
  <2>5. TypeOK'
    <3>1. ledger' \in [Ingredients -> Seq(Row)]
      BY <1>7, <2>1, <2>2 DEF StockWrite, TypeOK
    <3>2. req' \in [Requests -> Handler]
      BY <2>3, ReqType
    <3>3. excuses' \subseteq Excuses
      BY <1>7 DEF StockWrite, TypeOK, Excuses
    <3>4. QED
      BY <1>7, <2>2, <2>4, <3>1, <3>2, <3>3 DEF StockWrite, TypeOK
  <2>6. HandlerOK'
    BY <2>3 DEF TypeOK, HandlerOK
  <2>7. StockNonNegative'
    BY <2>2, <2>4 DEF TypeOK, StockNonNegative
  <2>8. QED
    BY <2>5, <2>6, <2>7
<1>8. ASSUME NEW r \in Requests, StockFail(r)
      PROVE  SInv'
  <2>1. Continue(req[r]) \in Handler /\ Continue(req[r]).pc = "next"
    <3>1. req[r] \in Handler
      BY DEF TypeOK
    <3>2. QED
      BY <3>1, ContinueType DEF Continue, Handler
  <2>2. req' = [req EXCEPT ![r] = Continue(req[r])]
    BY <1>8 DEF StockFail
  <2>3. TypeOK'
    BY <1>8, <2>1, <2>2, ReqType DEF StockFail, TypeOK, Excuses
  <2>4. HandlerOK'
    BY <2>1, <2>2 DEF TypeOK, HandlerOK
  <2>5. QED
    BY <1>8, <2>3, <2>4 DEF StockFail, StockNonNegative
<1>9. ASSUME NEW r \in Requests, StockDone(r)
      PROVE  SInv'
  <2>1. PICK h \in Handler : /\ h.pc \in {"idle", "status"}
                             /\ req' = [req EXCEPT ![r] = h]
    BY <1>9, GotoType DEF StockDone
  <2>2. TypeOK'
    BY <1>9, <2>1, ReqType DEF StockDone, TypeOK
  <2>3. HandlerOK'
    BY <2>1 DEF TypeOK, HandlerOK
  <2>4. QED
    BY <1>9, <2>2, <2>3 DEF StockDone, StockNonNegative
<1>10. ASSUME NEW r \in Requests, NEW i \in Ingredients, NEW change \in Adjustments,
              AdjustRead(r, i, change)
       PROVE  SInv'
  <2> DEFINE todo == [Nothing EXCEPT ![i] = change]
             h == [Idle EXCEPT !.pc = "write", !.kind = "adjust", !.at = i,
                               !.cur = stock[i], !.todo = todo]
  <2>1. change \in Int /\ stock[i] \in Int
    BY StockAssumption DEF TypeOK
  <2>2. todo \in [Ingredients -> Int] /\ todo[i] = change
    BY <2>1 DEF Nothing
  <2>3. req' = [req EXCEPT ![r] = h]
    BY <1>10 DEF AdjustRead, Begin
  <2> HIDE DEF todo
  <2>4. h \in Handler /\ h.at = i /\ h.cur = stock[i] /\ h.todo = todo /\ h.pc = "write"
    BY <2>1, <2>2, IdleType DEF Handler
  <2>5. h.cur + h.todo[h.at] >= 0
    BY <1>10, <2>2, <2>4 DEF AdjustRead, MayAdjust
  <2> HIDE DEF h
  <2>6. TypeOK'
    BY <1>10, <2>3, <2>4, ReqType DEF AdjustRead, TypeOK
  <2>7. HandlerOK'
    BY <2>3, <2>4, <2>5 DEF TypeOK, HandlerOK
  <2>8. QED
    BY <1>10, <2>6, <2>7 DEF AdjustRead, StockNonNegative
<1>11. ASSUME NEW i \in Ingredients, NEW balance \in Edits, UpdateIngredient(i, balance)
       PROVE  SInv'
  <2>1. balance \in Nat
    BY StockAssumption
  <2>2. TypeOK'
    BY <1>11, <2>1 DEF UpdateIngredient, TypeOK, Excuses
  <2>3. QED
    BY <1>11, <2>1, <2>2 DEF UpdateIngredient, TypeOK, HandlerOK, StockNonNegative
<1>12. ASSUME NEW r \in Requests, NEW m \in Menu, NEW new \in NewRecipes,
              SetRecipeDelete(r, m, new)
       PROVE  SInv'
  <2> DEFINE h == [Idle EXCEPT !.pc = "recipe", !.kind = "recipe", !.dish = m,
                               !.todo = new]
  <2>1. new \in [Ingredients -> Nat] /\ new \in [Ingredients -> Int]
    BY StockAssumption
  <2>2. h \in Handler /\ h.pc = "recipe" /\ h.todo = new
    BY <2>1, IdleType DEF Handler
  <2>3. req' = [req EXCEPT ![r] = h]
    BY <1>12 DEF SetRecipeDelete, Begin
  <2>4. recipe' \in [Menu -> [Ingredients -> Nat]]
    BY <1>12, ClearedType DEF SetRecipeDelete
  <2> HIDE DEF h
  <2>5. TypeOK'
    BY <1>12, <2>2, <2>3, <2>4, ReqType DEF SetRecipeDelete, TypeOK, Excuses
  <2>6. HandlerOK'
    BY <2>1, <2>2, <2>3 DEF TypeOK, HandlerOK
  <2>7. QED
    BY <1>12, <2>5, <2>6 DEF SetRecipeDelete, StockNonNegative
<1>13. ASSUME NEW r \in Requests, SetRecipeInsert(r)
       PROVE  SInv'
  <2>1. req[r].todo \in [Ingredients -> Nat]
    BY <1>13 DEF SetRecipeInsert, HandlerOK
  <2>2. recipe' \in [Menu -> [Ingredients -> Nat]]
    <3> DEFINE m == req[r].dish
               sum == [i \in Ingredients |-> recipe[m][i] + req[r].todo[i]]
    <3>1. \/ recipe' = recipe
          \/ recipe' = [recipe EXCEPT ![m] = sum]
      BY <1>13 DEF SetRecipeInsert
    <3>2. CASE m \in Menu
      <4>1. recipe[m] \in [Ingredients -> Nat]
        BY <3>2 DEF TypeOK
      <4>2. sum \in [Ingredients -> Nat]
        BY <2>1, <4>1
      <4> HIDE DEF sum
      <4>3. QED
        BY <3>1, <3>2, <4>2 DEF TypeOK
    <3>3. CASE m \notin Menu
      <4> HIDE DEF sum
      <4>1. QED
        BY <3>1, <3>3 DEF TypeOK
    <3>4. QED
      BY <3>2, <3>3
  <2>3. TypeOK'
    BY <1>13, <2>2, IdleType DEF SetRecipeInsert, End, TypeOK
  <2>4. HandlerOK'
    BY <1>13 DEF SetRecipeInsert, End, TypeOK, HandlerOK, Idle
  <2>5. QED
    BY <1>13, <2>3, <2>4 DEF SetRecipeInsert, StockNonNegative
<1>14. ASSUME NEW m \in Menu, DeleteRecipe(m)
       PROVE  SInv'
  <2>1. TypeOK'
    BY <1>14, ClearedType DEF DeleteRecipe, TypeOK, Excuses
  <2>2. QED
    BY <1>14, <2>1 DEF DeleteRecipe, HandlerOK, StockNonNegative
<1>15. ASSUME NEW r \in Requests, NEW o \in DOMAIN orders, SplitRead(r, o)
       PROVE  SInv'
  <2> DEFINE h == [Idle EXCEPT !.pc = "split", !.kind = "split", !.order = o,
                               !.to = orders[o].status, !.items = orders[o].items]
  <2>1. orders[o] \in Order /\ o \in Nat
    BY DEF TypeOK
  <2>2. h \in Handler /\ h.pc = "split"
    BY <2>1, IdleType DEF Handler, Order
  <2>3. req' = [req EXCEPT ![r] = h]
    BY <1>15 DEF SplitRead, Begin
  <2> HIDE DEF h
  <2>4. TypeOK'
    BY <1>15, <2>2, <2>3, ReqType DEF SplitRead, TypeOK
  <2>5. HandlerOK'
    BY <2>2, <2>3 DEF TypeOK, HandlerOK
  <2>6. QED
    BY <1>15, <2>4, <2>5 DEF SplitRead, StockNonNegative
<1>16. ASSUME NEW r \in Requests, NEW part \in SUBSET Ordered(req[r].items),
              SplitCommit(r, part)
       PROVE  SInv'
  <2>1. req[r] \in Handler
    BY DEF TypeOK
  <2>2. \A dishes : Copy(r, dishes) \in Order
    BY <2>1 DEF Copy, Handler, Order
  <2>3. [orders EXCEPT ![req[r].order].status = "CANCELLED"] \in Seq(Order)
    <3>1. "CANCELLED" \in OrderStatus
      BY DEF OrderStatus
    <3>2. QED
      BY <3>1, StatusType
  <2>4. orders' \in Seq(Order)
    <3> DEFINE rest == Ordered(req[r].items) \ part
               cancelled == [orders EXCEPT ![req[r].order].status = "CANCELLED"]
    <3>1. << Copy(r, part), Copy(r, rest) >> \in Seq(Order)
      BY <2>2
    <3>2. orders' = cancelled \o << Copy(r, part), Copy(r, rest) >>
      BY <1>16 DEF SplitCommit
    <3> HIDE DEF cancelled, rest
    <3>3. cancelled \in Seq(Order)
      BY <2>3 DEF cancelled
    <3>4. QED
      BY <3>1, <3>2, <3>3
  <2>5. TypeOK'
    BY <1>16, <2>4, IdleType DEF SplitCommit, End, TypeOK, Excuses
  <2>6. HandlerOK'
    BY <1>16 DEF SplitCommit, End, TypeOK, HandlerOK, Idle
  <2>7. QED
    BY <1>16, <2>5, <2>6 DEF SplitCommit, StockNonNegative
<1>17. ASSUME NEW r \in Requests, Reject(r)
       PROVE  SInv'
  <2>1. TypeOK'
    BY <1>17, IdleType DEF Reject, End, TypeOK
  <2>2. HandlerOK'
    BY <1>17 DEF Reject, End, TypeOK, HandlerOK, Idle
  <2>3. QED
    BY <1>17, <2>1, <2>2 DEF Reject, StockNonNegative
<1>18. ASSUME NEW r \in Requests, Crash(r)
       PROVE  SInv'
  <2>1. PICK h \in Handler : /\ h.pc \in {"idle", "status"}
                             /\ req' = [req EXCEPT ![r] = h]
    BY <1>18, GotoType DEF Crash
  <2>2. TypeOK'
    BY <1>18, <2>1, ReqType DEF Crash, TypeOK, Excuses
  <2>3. HandlerOK'
    BY <2>1 DEF TypeOK, HandlerOK
  <2>4. QED
    BY <1>18, <2>2, <2>3 DEF Crash, StockNonNegative
<1>19. CASE UNCHANGED vars
  BY <1>19 DEF vars, TypeOK, HandlerOK, StockNonNegative
<1>20. QED
  BY <1>1, <1>2, <1>3, <1>4, <1>5, <1>6, <1>7, <1>8, <1>9, <1>10, <1>11, <1>12,
     <1>13, <1>14, <1>15, <1>16, <1>17, <1>18, <1>19
     DEF Next, NewRequest, HandlerStep

\* Every row of the tables and every running handler keeps its type, however
\* orders, cancellations, splits, adjustments and recipe changes interleave.
THEOREM TypeCorrect == Spec => []TypeOK
<1>1. SInv => TypeOK
  BY DEF SInv
<1>2. QED
  BY <1>1, InitStock, StockStep, PTL DEF Spec

\* No stock drops below zero, for any number of ingredients, orders and
\* concurrent handlers, although each writes a balance it read before.
THEOREM NeverNegative == Spec => []StockNonNegative
<1>1. SInv => StockNonNegative
  BY DEF SInv
<1>2. QED
  BY <1>1, InitStock, StockStep, PTL DEF Spec

-----------------------------------------------------------------------------
\* Only two actions touch the balances and the ledger.
LEMMA BooksStep ==
    ASSUME [Next]_vars
    PROVE  \/ \E r \in Requests : StockWrite(r)
           \/ \E i \in Ingredients, balance \in Edits : UpdateIngredient(i, balance)
           \/ UNCHANGED <<stock, ledger>> /\ excuses \subseteq excuses'
<1>1. CASE UNCHANGED vars
  BY <1>1 DEF vars
<1>2. CASE \E r \in Requests : NewRequest(r)
  BY <1>2 DEF NewRequest, CreateCheck, StatusRead, AdjustRead, SetRecipeDelete, SplitRead
<1>3. CASE \E r \in Requests : HandlerStep(r)
  BY <1>3 DEF HandlerStep, CreateInsert, StatusWrite, ReadRecipes, StockRead,
              StockDone, SetRecipeInsert, SplitCommit, Reject
<1>4. CASE \E r \in Requests : StockFail(r) \/ Crash(r)
  BY <1>4 DEF StockFail, Crash
<1>5. CASE \E m \in Menu : DeleteRecipe(m)
  BY <1>5 DEF DeleteRecipe
<1>6. QED
  BY <1>1, <1>2, <1>3, <1>4, <1>5 DEF Next

LInv == SInv /\ LedgerShowsStock /\ LedgerChained

\* What one transaction does to the balance and the ledger of its ingredient.
LEMMA WriteEffect ==
    ASSUME SInv, NEW r \in Requests, StockWrite(r)
    PROVE  LET h == req[r] IN
           /\ h \in Handler /\ h.at \in Ingredients
           /\ LedgerRow(h) \in Row
           /\ LedgerRow(h).newStock = NewStock(h)
           /\ LedgerRow(h).previousStock = h.cur
           /\ stock' = [stock EXCEPT ![h.at] = NewStock(h)]
           /\ ledger' = [ledger EXCEPT ![h.at] = Append(@, LedgerRow(h))]
           /\ excuses \subseteq excuses'
           /\ stock[h.at] # h.cur => "race" \in excuses'
<1>1. req[r] \in Handler /\ req[r].at \in Ingredients
  BY DEF SInv, StockWrite, TypeOK, HandlerOK
<1>2. QED
  BY <1>1, NewStockType DEF StockWrite, Excuse

LEMMA LedgerShowsStep == LInv /\ [Next]_vars => LedgerShowsStock'
<1> SUFFICES ASSUME LInv, [Next]_vars, "edit" \notin excuses', NEW i \in Ingredients
             PROVE  stock'[i] = IF ledger'[i] = << >> THEN InitialStock[i]
                                ELSE ledger'[i][Len(ledger'[i])].newStock
  BY DEF LedgerShowsStock, LastRow
<1> USE DEF LInv
<1>1. CASE UNCHANGED <<stock, ledger>> /\ excuses \subseteq excuses'
  BY <1>1 DEF LedgerShowsStock, LastRow
<1>2. ASSUME NEW r \in Requests, StockWrite(r)
      PROVE  stock'[i] = IF ledger'[i] = << >> THEN InitialStock[i]
                         ELSE ledger'[i][Len(ledger'[i])].newStock
  <2> DEFINE h == req[r]
             row == LedgerRow(h)
             new == NewStock(h)
  <2>1. /\ h \in Handler /\ h.at \in Ingredients /\ row \in Row /\ row.newStock = new
        /\ stock' = [stock EXCEPT ![h.at] = new]
        /\ ledger' = [ledger EXCEPT ![h.at] = Append(@, row)]
        /\ excuses \subseteq excuses'
    BY <1>2, WriteEffect
  <2>2. ledger[i] \in Seq(Row) /\ ledger \in [Ingredients -> Seq(Row)]
        /\ stock \in [Ingredients -> Int]
    BY DEF SInv, TypeOK
  <2> HIDE DEF h, row, new
  <2>3. CASE i = h.at
    <3>1. ledger'[i] = Append(ledger[i], row) /\ stock'[i] = new
      BY <2>1, <2>2, <2>3
    <3>2. Len(ledger'[i]) = Len(ledger[i]) + 1 /\ ledger'[i][Len(ledger[i]) + 1] = row
      BY <2>1, <2>2, <3>1
    <3>3. ledger'[i] # << >>
      <4>1. Len(ledger[i]) \in Nat /\ Len(<< >>) = 0
        BY <2>2
      <4>2. QED
        BY <3>2, <4>1
    <3>4. QED
      BY <2>1, <3>1, <3>2, <3>3
  <2>4. CASE i # h.at
    <3>1. ledger'[i] = ledger[i] /\ stock'[i] = stock[i]
      BY <2>1, <2>2, <2>4
    <3>2. QED
      BY <2>1, <3>1 DEF LedgerShowsStock, LastRow
  <2>5. QED
    BY <2>3, <2>4
<1>3. ASSUME NEW j \in Ingredients, NEW balance \in Edits, UpdateIngredient(j, balance)
      PROVE  stock'[i] = IF ledger'[i] = << >> THEN InitialStock[i]
                         ELSE ledger'[i][Len(ledger'[i])].newStock
  <2>1. balance = stock[j] /\ "edit" \notin excuses /\ ledger' = ledger
    BY <1>3 DEF UpdateIngredient, Excuse
  <2>2. stock' = stock
    BY <1>3, <2>1 DEF UpdateIngredient, SInv, TypeOK
  <2>3. QED
    BY <2>1, <2>2 DEF LedgerShowsStock, LastRow
<1>4. QED
  BY <1>1, <1>2, <1>3, BooksStep

LEMMA LedgerChainedStep == LInv /\ [Next]_vars => LedgerChained'
<1> SUFFICES ASSUME LInv, [Next]_vars, {"race", "edit"} \cap excuses' = {},
                    NEW i \in Ingredients, NEW k \in 2..Len(ledger'[i])
             PROVE  ledger'[i][k].previousStock = ledger'[i][k - 1].newStock
  BY DEF LedgerChained
<1> USE DEF LInv
<1>1. CASE UNCHANGED <<stock, ledger>> /\ excuses \subseteq excuses'
  BY <1>1 DEF LedgerChained
<1>2. ASSUME NEW r \in Requests, StockWrite(r)
      PROVE  ledger'[i][k].previousStock = ledger'[i][k - 1].newStock
  <2> DEFINE h == req[r]
             row == LedgerRow(h)
  <2>1. /\ h \in Handler /\ h.at \in Ingredients /\ row \in Row
        /\ row.previousStock = h.cur
        /\ ledger' = [ledger EXCEPT ![h.at] = Append(@, row)]
        /\ excuses \subseteq excuses'
        /\ stock[h.at] # h.cur => "race" \in excuses'
    BY <1>2, WriteEffect
  <2>2. ledger[i] \in Seq(Row) /\ ledger \in [Ingredients -> Seq(Row)]
    BY DEF SInv, TypeOK
  <2>3. {"race", "edit"} \cap excuses = {} /\ stock[h.at] = h.cur
    BY <2>1
  <2> HIDE DEF h, row
  <2>4. CASE i = h.at
    <3>1. ledger'[i] = Append(ledger[i], row) /\ Len(ledger'[i]) = Len(ledger[i]) + 1
      BY <2>1, <2>2, <2>4
    <3>2. k \in 2..Len(ledger[i]) + 1 /\ Len(ledger[i]) \in Nat
      BY <2>2, <3>1
    <3>3. CASE k = Len(ledger[i]) + 1
      <4>1. ledger[i] # << >> /\ k - 1 = Len(ledger[i])
        BY <2>2, <3>2, <3>3
      <4>2. ledger'[i][k] = row /\ ledger'[i][k - 1] = ledger[i][k - 1]
        BY <2>1, <2>2, <3>1, <3>2, <3>3
      <4>3. stock[i] = ledger[i][k - 1].newStock
        BY <2>3, <4>1 DEF LedgerShowsStock, LastRow
      <4>4. QED
        BY <2>1, <2>3, <2>4, <4>2, <4>3
    <3>4. CASE k # Len(ledger[i]) + 1
      <4>1. k \in 2..Len(ledger[i])
        BY <3>2, <3>4
      <4>2. ledger'[i][k] = ledger[i][k] /\ ledger'[i][k - 1] = ledger[i][k - 1]
        BY <2>1, <2>2, <3>1, <4>1
      <4>3. QED
        BY <2>3, <4>1, <4>2 DEF LedgerChained
    <3>5. QED
      BY <3>3, <3>4
  <2>5. CASE i # h.at
    <3>1. ledger'[i] = ledger[i]
      BY <2>1, <2>2, <2>5
    <3>2. QED
      BY <2>3, <3>1 DEF LedgerChained
  <2>6. QED
    BY <2>4, <2>5
<1>3. ASSUME NEW j \in Ingredients, NEW balance \in Edits, UpdateIngredient(j, balance)
      PROVE  ledger'[i][k].previousStock = ledger'[i][k - 1].newStock
  <2>1. {"race", "edit"} \cap excuses = {} /\ ledger' = ledger
    BY <1>3 DEF UpdateIngredient
  <2>2. QED
    BY <2>1 DEF LedgerChained
<1>4. QED
  BY <1>1, <1>2, <1>3, BooksStep

\* A stock and its ledger rows are written together: unless staff edit a balance,
\* the last row shows it, also when writes overtake each other.
THEOREM LedgerMatchesStock == Spec => []LedgerShowsStock
<1>1. Init => LInv
  BY InitStock DEF LInv, Init, LedgerShowsStock, LedgerChained
<1>2. LInv /\ [Next]_vars => LInv'
  BY StockStep, LedgerShowsStep, LedgerChainedStep DEF LInv
<1>3. LInv => LedgerShowsStock
  BY DEF LInv
<1>4. QED
  BY <1>1, <1>2, <1>3, PTL DEF Spec

\* Each row of a ledger starts where the row before it ended, unless a write was
\* computed from a balance that had changed or staff edited one.
THEOREM LedgerIsChain == Spec => []LedgerChained
<1>1. Init => LInv
  BY InitStock DEF LInv, Init, LedgerShowsStock, LedgerChained
<1>2. LInv /\ [Next]_vars => LInv'
  BY StockStep, LedgerShowsStep, LedgerChainedStep DEF LInv
<1>3. LInv => LedgerChained
  BY DEF LInv
<1>4. QED
  BY <1>1, <1>2, <1>3, PTL DEF Spec

\* Together: what the ledger says of the stock can be believed (adjustStock,
\* deductStockForOrder, restoreStockForOrder), for any number of handlers.
THEOREM LedgerTells == Spec => []LedgerTellsStock
  BY NeverNegative, LedgerMatchesStock, LedgerIsChain, PTL DEF LedgerTellsStock
-----------------------------------------------------------------------------
(* The books: what is missing from the stock, with the handlers that are     *)
(* halfway.                                                                  *)

\* What an order needs by the first recipes, which is what Needed says as long as
\* nobody has set another recipe.
Needs(items, i) == NeedsOf(InitialRecipe, items, i)

OrderNeeds(row, i) ==
    IF row.status # "CANCELLED" THEN Needs(row.items, i) ELSE 0

UsedIn(table, i) ==
    SumFunctionOnSet([o \in DOMAIN table |-> OrderNeeds(table[o], i)], DOMAIN table)

RowBooks(row) == IF row.order = 0 THEN row.quantity ELSE 0

BookedIn(rows) ==
    SumFunctionOnSet([k \in DOMAIN rows |-> RowBooks(rows[k])], DOMAIN rows)

\* By how much handler h leaves the stock higher than the orders say: a deduction
\* follows its order, and a restoration goes before the change of status.
Pending(h, i) ==
    IF h.kind = "create"
    THEN IF h.pc = "recipes" THEN Needs(h.items, i)
         ELSE IF h.pc \in {"next", "write"} THEN h.todo[i] ELSE 0
    ELSE IF h.kind = "cancel"
    THEN IF h.pc = "status" THEN Needs(h.items, i)
         ELSE IF h.pc \in {"next", "write"} THEN Needs(h.items, i) - h.todo[i] ELSE 0
    ELSE 0

PendingSum(i) == SumFunctionOnSet([r \in Requests |-> Pending(req[r], i)], Requests)

\* What a handler has read still stands, if nothing has upset the books.
Sound(h, table) ==
    /\ h.pc = "insert" => h.kind = "create"
    /\ h.pc \in {"recipes", "next"} => h.kind \in {"create", "cancel"}
    /\ h.pc = "write" => h.kind \in {"create", "cancel", "adjust"}
    /\ h.pc = "status" => h.kind \in {"cancel", "status"}
    /\ h.pc = "split" => h.kind = "split"
    /\ h.pc # "recipe"
    /\ h.kind = "create" => h.pc \in {"insert", "recipes", "next", "write"}
    /\ (h.kind = "create" /\ h.pc # "insert") => h.order # 0
    /\ h.kind = "cancel" =>
          /\ h.pc \in {"recipes", "next", "write", "status"}
          /\ h.to = "CANCELLED"
          /\ h.order # 0
          /\ h.order \in DOMAIN table
          /\ table[h.order].status # "CANCELLED"
          /\ table[h.order].items = h.items
    /\ (h.kind \in {"create", "cancel"} /\ h.pc \in {"next", "write"}) =>
          h.todo \in [Ingredients -> Nat]
    /\ h.kind = "adjust" => h.pc = "write" /\ h.order = 0
    /\ h.kind = "status" =>
          /\ h.pc = "status"
          /\ h.order \in DOMAIN table
          /\ h.to = "CANCELLED" => table[h.order].status = "CANCELLED"
    /\ h.kind = "split" =>
          /\ h.pc = "split"
          /\ h.to # "CANCELLED"
          /\ h.order \in DOMAIN table
          /\ table[h.order].items = h.items

Balanced(i) ==
    stock[i] = InitialStock[i] + BookedIn(ledger[i]) - UsedIn(orders, i) + PendingSum(i)

Books ==
    excuses = {} =>
        /\ recipe = InitialRecipe
        /\ \A r \in Requests : Sound(req[r], orders)
        /\ \A i \in Ingredients : Balanced(i)

-----------------------------------------------------------------------------
LEMMA NeedsType ==
    ASSUME NEW items \in [Menu -> Nat], NEW i \in Ingredients
    PROVE  Needs(items, i) \in Nat
  BY StockAssumption, NeedsOfType DEF Needs

LEMMA PendingType ==
    ASSUME NEW h \in Handler, NEW i \in Ingredients
    PROVE  Pending(h, i) \in Int
<1>1. h.items \in [Menu -> Nat] /\ h.todo[i] \in Int
  BY DEF Handler
<1>2. Needs(h.items, i) \in Nat
  BY <1>1, NeedsType
<1>3. QED
  BY <1>1, <1>2 DEF Pending

LEMMA OrderNeedsType ==
    ASSUME NEW row \in Order, NEW i \in Ingredients
    PROVE  OrderNeeds(row, i) \in Nat
<1>1. row.items \in [Menu -> Nat]
  BY DEF Order
<1>2. QED
  BY <1>1, NeedsType DEF OrderNeeds

\* A new order, and an order that changes.
LEMMA UsedAppend ==
    ASSUME NEW table \in Seq(Order), NEW row \in Order, NEW i \in Ingredients
    PROVE  /\ UsedIn(Append(table, row), i) = UsedIn(table, i) + OrderNeeds(row, i)
           /\ UsedIn(table, i) \in Int
<1> DEFINE n == Len(table)
           next == Append(table, row)
           f == [o \in DOMAIN table |-> OrderNeeds(table[o], i)]
           k == [o \in DOMAIN next |-> OrderNeeds(next[o], i)]
<1>1. n \in Nat /\ DOMAIN table = 1..n /\ DOMAIN next = 1..(n + 1)
  OBVIOUS
<1>2. /\ \A o \in 1..n : next[o] = table[o] /\ table[o] \in Order
      /\ next[n + 1] = row
  OBVIOUS
<1> HIDE DEF next
<1>3. Same(f, k, 1..n) /\ k[n + 1] = OrderNeeds(row, i)
  BY <1>1, <1>2 DEF Same
<1>4. Integral(f, 1..n)
  BY <1>1, <1>2, OrderNeedsType DEF Integral
<1>5. k[n + 1] \in Int
  BY <1>3, OrderNeedsType
<1> HIDE DEF f, k, n
<1>6. SumFunctionOnSet(k, 1..(n + 1)) = SumFunctionOnSet(f, 1..n) + k[n + 1]
  BY <1>1, <1>3, <1>4, <1>5, SumGrow
<1>f. IsFiniteSet(1..n)
  <2>1. 1 \in Int /\ n \in Int
    BY <1>1
  <2>2. QED
    BY <2>1, FS_Interval
<1>7. SumFunctionOnSet(f, 1..n) \in Int
  BY <1>1, <1>4, <1>f, SumInt
<1>8. QED
  BY <1>1, <1>3, <1>6, <1>7 DEF UsedIn, f, k, next

LEMMA UsedChange ==
    ASSUME NEW table \in Seq(Order), NEW o \in DOMAIN table, NEW row \in Order,
           NEW i \in Ingredients
    PROVE  UsedIn([table EXCEPT ![o] = row], i)
              = UsedIn(table, i) - OrderNeeds(table[o], i) + OrderNeeds(row, i)
<1> DEFINE S == DOMAIN table
           next == [table EXCEPT ![o] = row]
           f == [p \in DOMAIN table |-> OrderNeeds(table[p], i)]
           k == [p \in DOMAIN next |-> OrderNeeds(next[p], i)]
<1>1. S = DOMAIN next /\ S = 1..Len(table) /\ Len(table) \in Nat
  OBVIOUS
<1>2. /\ \A p \in S : table[p] \in Order /\ next[p] \in Order
      /\ \A p \in S : p # o => next[p] = table[p]
      /\ next[o] = row
  OBVIOUS
<1>3. IsFiniteSet(S)
  <2>1. 1 \in Int /\ Len(table) \in Int
    BY <1>1
  <2>2. QED
    BY <1>1, <2>1, FS_Interval
<1> HIDE DEF next
<1>4. Integral(f, S) /\ Integral(k, S)
  BY <1>1, <1>2, OrderNeedsType DEF Integral
<1>5. Differ(f, k, S, o)
  BY <1>1, <1>2 DEF Differ
<1>6. f[o] = OrderNeeds(table[o], i) /\ k[o] = OrderNeeds(row, i)
  BY <1>1, <1>2
<1>7. UsedIn(table, i) = SumFunctionOnSet(f, S) /\ UsedIn(next, i) = SumFunctionOnSet(k, S)
  BY <1>1 DEF UsedIn
<1> HIDE DEF f, k
<1>8. o \in S
  OBVIOUS
<1> HIDE DEF S
<1>9. SumFunctionOnSet(k, S) = SumFunctionOnSet(f, S) - f[o] + k[o]
  BY <1>3, <1>4, <1>5, <1>8, SumUpdate
<1>10. QED
  BY <1>6, <1>7, <1>9 DEF next

\* A new row of the ledger.
LEMMA BookedAppend ==
    ASSUME NEW rows \in Seq(Row), NEW row \in Row
    PROVE  /\ BookedIn(Append(rows, row)) = BookedIn(rows) + RowBooks(row)
           /\ BookedIn(rows) \in Int
<1> DEFINE n == Len(rows)
           next == Append(rows, row)
           f == [o \in DOMAIN rows |-> RowBooks(rows[o])]
           k == [o \in DOMAIN next |-> RowBooks(next[o])]
<1>0. \A x \in Row : RowBooks(x) \in Int
  BY DEF Row, RowBooks
<1>1. n \in Nat /\ DOMAIN rows = 1..n /\ DOMAIN next = 1..(n + 1)
  OBVIOUS
<1>2. /\ \A o \in 1..n : next[o] = rows[o] /\ rows[o] \in Row
      /\ next[n + 1] = row
  OBVIOUS
<1> HIDE DEF next
<1>3. Same(f, k, 1..n) /\ k[n + 1] = RowBooks(row)
  BY <1>1, <1>2 DEF Same
<1>4. Integral(f, 1..n)
  BY <1>0, <1>1, <1>2 DEF Integral
<1>5. k[n + 1] \in Int
  BY <1>0, <1>3
<1> HIDE DEF f, k, n
<1>6. SumFunctionOnSet(k, 1..(n + 1)) = SumFunctionOnSet(f, 1..n) + k[n + 1]
  BY <1>1, <1>3, <1>4, <1>5, SumGrow
<1>f. IsFiniteSet(1..n)
  <2>1. 1 \in Int /\ n \in Int
    BY <1>1
  <2>2. QED
    BY <2>1, FS_Interval
<1>7. SumFunctionOnSet(f, 1..n) \in Int
  BY <1>1, <1>4, <1>f, SumInt
<1>8. QED
  BY <1>1, <1>3, <1>6, <1>7 DEF BookedIn, f, k, next

\* A slot whose handler goes on as g.
LEMMA PendingChange ==
    ASSUME TypeOK, NEW r \in Requests, NEW g \in Handler,
           req' = [req EXCEPT ![r] = g], NEW i \in Ingredients
    PROVE  /\ PendingSum(i)' = PendingSum(i) - Pending(req[r], i) + Pending(g, i)
           /\ PendingSum(i) \in Int
<1> DEFINE f == [q \in Requests |-> Pending(req[q], i)]
           k == [q \in Requests |-> Pending(req'[q], i)]
<1>1. /\ \A q \in Requests : req[q] \in Handler /\ req'[q] \in Handler
      /\ \A q \in Requests : q # r => req'[q] = req[q]
      /\ req'[r] = g
  BY DEF TypeOK
<1>2. IsFiniteSet(Requests)
  BY StockAssumption
<1>3. Integral(f, Requests) /\ Integral(k, Requests)
  BY <1>1, PendingType DEF Integral
<1>4. Differ(f, k, Requests, r)
  BY <1>1 DEF Differ
<1>5. f[r] = Pending(req[r], i) /\ k[r] = Pending(g, i)
  BY <1>1
<1>6. PendingSum(i) = SumFunctionOnSet(f, Requests)
      /\ PendingSum(i)' = SumFunctionOnSet(k, Requests)
  BY DEF PendingSum
<1> HIDE DEF f, k
<1>7. SumFunctionOnSet(k, Requests) = SumFunctionOnSet(f, Requests) - f[r] + k[r]
  BY <1>2, <1>3, <1>4, SumUpdate
<1>8. SumFunctionOnSet(f, Requests) \in Int
  BY <1>2, <1>3, SumInt
<1>9. QED
  BY <1>5, <1>6, <1>7, <1>8

\* a and b are the servings of items, those of the dishes in part and of the others.
Halves(items, a, b, part, rest) ==
    /\ part \cap rest = {}
    /\ \A m \in Menu : /\ items[m] # 0 => m \in part \cup rest
                       /\ a[m] = IF m \in part THEN items[m] ELSE 0
                       /\ b[m] = IF m \in rest THEN items[m] ELSE 0

\* The units of an order are those of its two copies.
LEMMA NeedsSplit ==
    ASSUME NEW items \in [Menu -> Nat], NEW a \in [Menu -> Nat], NEW b \in [Menu -> Nat],
           NEW part, NEW rest, NEW i \in Ingredients, Halves(items, a, b, part, rest)
    PROVE  Needs(items, i) = Needs(a, i) + Needs(b, i)
<1> DEFINE per(m) == 1..InitialRecipe[m][i]
           X == UnitsOf(InitialRecipe, items, i)
           A == UnitsOf(InitialRecipe, a, i)
           B == UnitsOf(InitialRecipe, b, i)
<1>1. IsFiniteSet(A) /\ IsFiniteSet(B)
  BY StockAssumption, UnitsFinite
<1>e. /\ \A x : x \in X <=> \E m \in Menu : x \in ({m} \X (1..items[m])) \X per(m)
      /\ \A x : x \in A <=> \E m \in Menu : x \in ({m} \X (1..a[m])) \X per(m)
      /\ \A x : x \in B <=> \E m \in Menu : x \in ({m} \X (1..b[m])) \X per(m)
  BY DEF UnitsOf
<1>2. ASSUME NEW m \in Menu
      PROVE  /\ m \in part => a[m] = items[m] /\ b[m] = 0
             /\ m \in rest => b[m] = items[m] /\ a[m] = 0
             /\ (m \notin part /\ m \notin rest) => items[m] = 0 /\ a[m] = 0 /\ b[m] = 0
  BY DEF Halves
<1>3. 1..0 = {}
  OBVIOUS
<1>4. ASSUME NEW x \in X
      PROVE  x \in A \cup B
  <2>1. PICK m \in Menu : x \in ({m} \X (1..items[m])) \X per(m)
    BY <1>e
  <2> HIDE DEF per
  <2>2. items[m] # 0
    BY <1>3, <2>1
  <2>3. CASE m \in part
    <3>1. x \in ({m} \X (1..a[m])) \X per(m)
      BY <1>2, <2>1, <2>3
    <3>2. QED
      BY <1>e, <3>1
  <2>4. CASE m \in rest
    <3>1. x \in ({m} \X (1..b[m])) \X per(m)
      BY <1>2, <2>1, <2>4
    <3>2. QED
      BY <1>e, <3>1
  <2>5. QED
    BY <1>2, <2>2, <2>3, <2>4
<1>5. ASSUME NEW x \in A
      PROVE  x \in X /\ x \notin B
  <2>1. PICK m \in Menu : x \in ({m} \X (1..a[m])) \X per(m)
    BY <1>e
  <2> HIDE DEF per
  <2>2. a[m] # 0
    BY <1>3, <2>1
  <2>3. m \in part /\ a[m] = items[m] /\ b[m] = 0
    BY <1>2, <2>2
  <2>4. x \in ({m} \X (1..items[m])) \X per(m)
    BY <2>1, <2>3
  <2>5. ASSUME NEW l \in Menu, x \in ({l} \X (1..b[l])) \X per(l)
        PROVE  FALSE
    <3>1. x[1][1] = m /\ x[1][1] = l
      BY <2>1, <2>5
    <3>2. 1..b[l] = {}
      BY <1>3, <2>3, <3>1
    <3>3. QED
      BY <2>5, <3>2
  <2>6. x \notin B
    BY <1>e, <2>5
  <2>7. x \in X
    BY <1>e, <2>4
  <2>8. QED
    BY <2>6, <2>7
<1>6. ASSUME NEW x \in B
      PROVE  x \in X
  <2>1. PICK m \in Menu : x \in ({m} \X (1..b[m])) \X per(m)
    BY <1>e
  <2> HIDE DEF per
  <2>2. b[m] # 0
    BY <1>3, <2>1
  <2>3. b[m] = items[m]
    BY <1>2, <2>2
  <2>4. x \in ({m} \X (1..items[m])) \X per(m)
    BY <2>1, <2>3
  <2>5. QED
    BY <1>e, <2>4
<1>7. Needs(items, i) = Cardinality(X) /\ Needs(a, i) = Cardinality(A)
      /\ Needs(b, i) = Cardinality(B)
  BY DEF Needs, NeedsOf
<1> HIDE DEF X, A, B
<1>8. X = A \cup B /\ A \cap B = {}
  BY <1>4, <1>5, <1>6
<1>9. Cardinality(A \cup B) = Cardinality(A) + Cardinality(B) - Cardinality(A \cap B)
  BY <1>1, FS_Union
<1>10. Cardinality(A \cap B) = 0
  BY <1>8, FS_EmptySet
<1>11. Cardinality(A) \in Nat /\ Cardinality(B) \in Nat
  BY <1>1, FS_CardinalityType
<1>12. QED
  BY <1>7, <1>8, <1>9, <1>10, <1>11

\* What was read of the old table still stands in a table that has more rows.
Grows(T, U) == \A o \in DOMAIN T : o \in DOMAIN U /\ U[o] = T[o]

LEMMA SoundGrows ==
    ASSUME NEW h, NEW T, NEW U, Sound(h, T), Grows(T, U)
    PROVE  Sound(h, U)
  BY DEF Sound, Grows

\* The handlers that wait in a slot for nothing.
LEMMA IdleSound ==
    /\ \A T : Sound(Idle, T)
    /\ \A i : Pending(Idle, i) = 0
  BY DEF Idle, Sound, Pending

\* The sums of the tables are integers.
LEMMA BooksTypes ==
    ASSUME TypeOK, NEW i \in Ingredients
    PROVE  BookedIn(ledger[i]) \in Int /\ UsedIn(orders, i) \in Int
<1>1. ledger[i] \in Seq(Row) /\ orders \in Seq(Order)
  BY DEF TypeOK
<1>2. [quantity |-> 0, previousStock |-> 0, newStock |-> 0, order |-> 0,
       restores |-> FALSE] \in Row
  BY DEF Row
<1>3. [status |-> "PREPARING", items |-> [m \in Menu |-> 0]] \in Order
  BY DEF Order, OrderStatus
<1>4. BookedIn(ledger[i]) \in Int
  BY <1>1, <1>2, BookedAppend
<1>5. UsedIn(orders, i) \in Int
  BY <1>1, <1>3, UsedAppend
<1>6. QED
  BY <1>4, <1>5

SamePending(g, h) == \A i \in Ingredients : Pending(g, i) = Pending(h, i)

\* A step that only moves a handler, and leaves what it has pending.
LEMMA BooksMove ==
    ASSUME TypeOK, Books, excuses = {}, UNCHANGED <<stock, ledger, recipe, orders>>,
           NEW r \in Requests, NEW g \in Handler, req' = [req EXCEPT ![r] = g],
           Sound(g, orders), SamePending(g, req[r])
    PROVE  Books'
<1>1. \A q \in Requests : Sound(req[q], orders)
  BY DEF Books
<1>2. \A q \in Requests : Sound(req'[q], orders')
  BY <1>1 DEF TypeOK
<1>3. ASSUME NEW i \in Ingredients
      PROVE  Balanced(i)'
  <2>1. Balanced(i)
    BY DEF Books
  <2>2. /\ PendingSum(i)' = PendingSum(i) - Pending(req[r], i) + Pending(g, i)
        /\ PendingSum(i) \in Int
    BY PendingChange
  <2>3. Pending(g, i) = Pending(req[r], i) /\ Pending(g, i) \in Int
    BY PendingType DEF SamePending
  <2>4. PendingSum(i)' = PendingSum(i)
    BY <2>2, <2>3
  <2>5. QED
    BY <2>1, <2>4 DEF Balanced
<1>4. recipe' = InitialRecipe
  BY DEF Books
<1>5. QED
  BY <1>2, <1>3, <1>4 DEF Books

\* A step that changes the order table and lets a handler go on.
LEMMA BooksOrders ==
    ASSUME TypeOK, Books, excuses = {}, UNCHANGED <<stock, ledger, recipe>>,
           NEW r \in Requests, NEW g \in Handler, req' = [req EXCEPT ![r] = g],
           \A q \in Requests : Sound(req'[q], orders'),
           \A i \in Ingredients :
              /\ UsedIn(orders, i) \in Int
              /\ UsedIn(orders', i) = UsedIn(orders, i) + Pending(g, i) - Pending(req[r], i)
    PROVE  Books'
<1>1. ASSUME NEW i \in Ingredients
      PROVE  Balanced(i)'
  <2>0. ledger[i] \in Seq(Row) /\ req[r] \in Handler
    BY DEF TypeOK
  <2>1. stock[i] = InitialStock[i] + BookedIn(ledger[i]) - UsedIn(orders, i) + PendingSum(i)
    BY DEF Books, Balanced
  <2>2. /\ PendingSum(i)' = PendingSum(i) - Pending(req[r], i) + Pending(g, i)
        /\ PendingSum(i) \in Int
    BY PendingChange
  <2>3. Pending(g, i) \in Int /\ Pending(req[r], i) \in Int
    BY <2>0, PendingType
  <2>4. BookedIn(ledger[i]) \in Int /\ InitialStock[i] \in Int
    BY BooksTypes, StockAssumption
  <2>5. UsedIn(orders, i) \in Int
        /\ UsedIn(orders', i) = UsedIn(orders, i) + Pending(g, i) - Pending(req[r], i)
    OBVIOUS
  <2> DEFINE s == stock[i]
             a == InitialStock[i]
             b == BookedIn(ledger[i])
             u == UsedIn(orders, i)
             v == UsedIn(orders', i)
             p == PendingSum(i)
             x == PendingSum(i)'
             c == Pending(g, i)
             d == Pending(req[r], i)
  <2>6. /\ s = a + b - u + p /\ x = p - d + c /\ v = u + c - d
        /\ a \in Int /\ b \in Int /\ u \in Int /\ p \in Int /\ c \in Int /\ d \in Int
    BY <2>1, <2>2, <2>3, <2>4, <2>5
  <2> HIDE DEF s, a, b, u, v, p, x, c, d
  <2>7. s = a + b - v + x
    BY <2>6
  <2>8. QED
    BY <2>7 DEF Balanced, s, a, b, v, x
<1>2. recipe' = InitialRecipe
  BY DEF Books
<1>3. QED
  BY <1>1, <1>2 DEF Books

-----------------------------------------------------------------------------
LEMMA BooksStays ==
    ASSUME SInv, Books, [Next]_vars
    PROVE  Books'
<1> SUFFICES ASSUME excuses' = {} PROVE Books'
  BY DEF Books
<1>t. TypeOK /\ TypeOK' /\ HandlerOK
  BY StockStep DEF SInv
<1>m. excuses \subseteq excuses'
  <2>1. CASE \E r \in Requests : StockWrite(r)
    BY <2>1 DEF StockWrite
  <2>2. CASE \E i \in Ingredients, balance \in Edits : UpdateIngredient(i, balance)
    BY <2>2 DEF UpdateIngredient
  <2>3. QED
    BY <2>1, <2>2, BooksStep
<1>0. /\ excuses = {} /\ recipe = InitialRecipe
      /\ \A r \in Requests : Sound(req[r], orders)
      /\ \A i \in Ingredients : Balanced(i)
  BY <1>m DEF Books
<1>h. \A r \in Requests : req[r] \in Handler
  BY <1>t DEF TypeOK
<1>n. \A items, i : Needed(items, i) = Needs(items, i)
  BY <1>0 DEF Needed, Needs, NeedsOf, Units, UnitsOf
\* The steps that read and that move a handler.
<1>1. ASSUME NEW r \in Requests, NEW basket \in Baskets, CreateCheck(r, basket)
      PROVE  Books'
  <2> DEFINE g == [Idle EXCEPT !.pc = "insert", !.kind = "create", !.items = basket]
  <2>1. g \in Handler /\ g.pc = "insert" /\ g.kind = "create"
    BY StockAssumption, IdleType DEF Handler
  <2>2. req' = [req EXCEPT ![r] = g] /\ req[r].pc = "idle"
    BY <1>1 DEF CreateCheck, Begin
  <2> HIDE DEF g
  <2>3. Sound(g, orders) /\ SamePending(g, req[r])
    BY <2>1, <2>2 DEF Sound, SamePending, Pending
  <2>4. UNCHANGED <<stock, ledger, recipe, orders>>
    BY <1>1 DEF CreateCheck
  <2>5. QED
    BY <1>t, <1>0, <2>1, <2>2, <2>3, <2>4, BooksMove
<1>2. ASSUME NEW r \in Requests, NEW o \in DOMAIN orders, NEW to \in StatusTargets,
             StatusRead(r, o, to)
      PROVE  Books'
  <2>0. /\ req[r].pc = "idle" /\ UNCHANGED <<stock, ledger, recipe, orders>>
        /\ orders[o] \in Order /\ o \in Nat \ {0} /\ to \in OrderStatus
    <3>1. req[r].pc = "idle" /\ UNCHANGED <<stock, ledger, recipe, orders>>
      BY <1>2 DEF StatusRead, Begin
    <3>2. orders \in Seq(Order)
      BY <1>t DEF TypeOK
    <3>3. QED
      BY <3>1, <3>2, StockAssumption
  <2>1. CASE MustRestore(o, to)
    <3> DEFINE g == [Idle EXCEPT !.pc = "recipes", !.kind = "cancel",
                                 !.order = o, !.to = to, !.items = orders[o].items]
    <3>1. /\ g \in Handler /\ g.pc = "recipes" /\ g.kind = "cancel" /\ g.order = o
          /\ g.to = to /\ g.items = orders[o].items
      BY <2>0, IdleType DEF Handler, Order
    <3>2. req' = [req EXCEPT ![r] = g]
      BY <1>2, <2>1 DEF StatusRead, Begin
    <3> HIDE DEF g
    <3>3. Sound(g, orders) /\ SamePending(g, req[r])
      BY <2>0, <2>1, <3>1 DEF Sound, SamePending, Pending, MustRestore
    <3>4. QED
      BY <1>t, <1>0, <2>0, <3>1, <3>2, <3>3, BooksMove
  <2>2. CASE ~MustRestore(o, to)
    <3> DEFINE g == [Idle EXCEPT !.pc = "status", !.kind = "status",
                                 !.order = o, !.to = to]
    <3>1. /\ g \in Handler /\ g.pc = "status" /\ g.kind = "status" /\ g.order = o
          /\ g.to = to
      BY <2>0, IdleType DEF Handler
    <3>2. req' = [req EXCEPT ![r] = g]
      BY <1>2, <2>2 DEF StatusRead, Begin
    <3> HIDE DEF g
    <3>3. Sound(g, orders) /\ SamePending(g, req[r])
      BY <2>0, <2>2, <3>1 DEF Sound, SamePending, Pending, MustRestore
    <3>4. QED
      BY <1>t, <1>0, <2>0, <3>1, <3>2, <3>3, BooksMove
  <2>3. QED
    BY <2>1, <2>2
<1>3. ASSUME NEW r \in Requests, ReadRecipes(r)
      PROVE  Books'
  <2> DEFINE h == req[r]
             todo == [i \in Ingredients |-> Needed(req[r].items, i)]
             g == [req[r] EXCEPT !.pc = "next", !.todo = todo]
  <2>1. h \in Handler /\ h.items \in [Menu -> Nat] /\ h.pc = "recipes"
    BY <1>3, <1>h DEF ReadRecipes, Handler
  <2>2. todo \in [Ingredients -> Nat] /\ todo \in [Ingredients -> Int]
    <3>1. \A i \in Ingredients : Needed(h.items, i) \in Nat
      BY <1>t, <2>1, NeededType
    <3>2. QED
      BY <3>1
  <2>3. \A i \in Ingredients : todo[i] = Needs(h.items, i)
    BY <1>n
  <2>4. req' = [req EXCEPT ![r] = g] /\ UNCHANGED <<stock, ledger, recipe, orders>>
    BY <1>3, <1>t DEF ReadRecipes, TypeOK
  <2> HIDE DEF todo
  <2>5. /\ g \in Handler /\ g.pc = "next" /\ g.todo = todo /\ g.kind = h.kind
        /\ g.order = h.order /\ g.items = h.items /\ g.to = h.to
    BY <2>1, <2>2 DEF Handler
  <2> HIDE DEF g
  <2>6. Sound(h, orders)
    BY <1>0
  <2>7. Sound(g, orders)
    BY <2>1, <2>2, <2>5, <2>6 DEF Sound
  <2>8. SamePending(g, h)
    <3> SUFFICES ASSUME NEW i \in Ingredients PROVE Pending(g, i) = Pending(h, i)
      BY DEF SamePending
    <3>1. Needs(h.items, i) \in Nat /\ g.todo[i] = Needs(h.items, i)
      BY <2>1, <2>3, <2>5, NeedsType
    <3>2. h.kind \in {"create", "cancel"}
      BY <2>1, <2>6 DEF Sound
    <3> HIDE DEF h
    <3>3. QED
      BY <2>1, <2>5, <3>1, <3>2 DEF Pending
  <2>9. QED
    BY <1>t, <1>0, <2>4, <2>5, <2>7, <2>8, BooksMove
<1>4. ASSUME NEW r \in Requests, NEW i \in Ingredients, StockRead(r, i)
      PROVE  Books'
  <2> DEFINE h == req[r]
             g == [h EXCEPT !.pc = "write", !.at = i, !.cur = stock[i]]
  <2>1. h \in Handler /\ h.pc = "next" /\ stock[i] \in Int
    BY <1>4, <1>h, <1>t DEF StockRead, TypeOK
  <2>2. req' = [req EXCEPT ![r] = g] /\ UNCHANGED <<stock, ledger, recipe, orders>>
    BY <1>4, <1>t DEF StockRead, TypeOK
  <2>3. /\ g \in Handler /\ g.pc = "write" /\ g.todo = h.todo /\ g.kind = h.kind
        /\ g.order = h.order /\ g.items = h.items /\ g.to = h.to
    BY <2>1 DEF Handler
  <2> HIDE DEF g
  <2>4. Sound(h, orders)
    BY <1>0
  <2>5. Sound(g, orders)
    BY <2>1, <2>3, <2>4 DEF Sound
  <2>6. SamePending(g, h)
    BY <2>1, <2>3 DEF SamePending, Pending
  <2>7. QED
    BY <1>t, <1>0, <2>2, <2>3, <2>5, <2>6, BooksMove
<1>5. ASSUME NEW r \in Requests, StockDone(r)
      PROVE  Books'
  <2> DEFINE h == req[r]
  <2>1. h \in Handler /\ h.pc = "next" /\ UNCHANGED <<stock, ledger, recipe, orders>>
    BY <1>5, <1>h DEF StockDone
  <2>2. Sound(h, orders) /\ h.kind \in {"create", "cancel"}
    BY <1>0, <2>1 DEF Sound
  <2>3. \A i \in Ingredients : h.todo[i] = 0
    <3>1. h.todo \in [Ingredients -> Nat]
      BY <2>1, <2>2 DEF Sound
    <3>2. \A i \in Ingredients : h.todo[i] <= 0
      BY <1>5 DEF StockDone
    <3>3. QED
      BY <3>1, <3>2
  <2>4. CASE h.kind = "cancel"
    <3> DEFINE g == [h EXCEPT !.pc = "status"]
    <3>1. /\ g \in Handler /\ g.pc = "status" /\ g.todo = h.todo /\ g.kind = h.kind
          /\ g.order = h.order /\ g.items = h.items /\ g.to = h.to
      BY <2>1 DEF Handler
    <3>2. req' = [req EXCEPT ![r] = g]
      BY <1>5, <1>t, <2>4 DEF StockDone, Goto, TypeOK
    <3> HIDE DEF g
    <3>3. Sound(g, orders)
      BY <2>1, <2>2, <2>4, <3>1 DEF Sound
    <3>4. SamePending(g, h)
      <4> SUFFICES ASSUME NEW i \in Ingredients PROVE Pending(g, i) = Pending(h, i)
        BY DEF SamePending
      <4>1. Needs(h.items, i) \in Nat /\ h.todo[i] = 0
        BY <2>1, <2>3, NeedsType DEF Handler
      <4> HIDE DEF h
      <4>2. QED
        BY <2>1, <2>4, <3>1, <4>1 DEF Pending
    <3>5. QED
      BY <1>t, <1>0, <2>1, <3>1, <3>2, <3>3, <3>4, BooksMove
  <2>5. CASE h.kind = "create"
    <3>1. req' = [req EXCEPT ![r] = Idle]
      BY <1>5, <2>5 DEF StockDone, End
    <3>2. SamePending(Idle, h)
      BY <2>1, <2>3, <2>5, IdleSound DEF SamePending, Pending
    <3>3. QED
      BY <1>t, <1>0, <2>1, <3>1, <3>2, IdleSound, IdleType, BooksMove
  <2>6. QED
    BY <2>2, <2>4, <2>5
<1>6. ASSUME NEW r \in Requests, NEW i \in Ingredients, NEW change \in Adjustments,
             AdjustRead(r, i, change)
      PROVE  Books'
  <2> DEFINE todo == [Nothing EXCEPT ![i] = change]
             g == [Idle EXCEPT !.pc = "write", !.kind = "adjust", !.at = i,
                               !.cur = stock[i], !.todo = todo]
  <2>1. change \in Int /\ stock[i] \in Int
    BY <1>t, StockAssumption DEF TypeOK
  <2>2. todo \in [Ingredients -> Int]
    BY <2>1 DEF Nothing
  <2>3. /\ req' = [req EXCEPT ![r] = g] /\ req[r].pc = "idle"
        /\ UNCHANGED <<stock, ledger, recipe, orders>>
    BY <1>6 DEF AdjustRead, Begin
  <2> HIDE DEF todo
  <2>4. g \in Handler /\ g.pc = "write" /\ g.kind = "adjust" /\ g.order = 0
    BY <2>1, <2>2, IdleType DEF Handler, Idle
  <2> HIDE DEF g
  <2>5. Sound(g, orders) /\ SamePending(g, req[r])
    BY <2>3, <2>4 DEF Sound, SamePending, Pending
  <2>6. QED
    BY <1>t, <1>0, <2>3, <2>4, <2>5, BooksMove
<1>7. ASSUME NEW r \in Requests, NEW o \in DOMAIN orders, SplitRead(r, o)
      PROVE  Books'
  <2> DEFINE g == [Idle EXCEPT !.pc = "split", !.kind = "split", !.order = o,
                               !.to = orders[o].status, !.items = orders[o].items]
  <2>1. orders[o] \in Order /\ o \in Nat
    BY <1>t DEF TypeOK
  <2>2. /\ g \in Handler /\ g.pc = "split" /\ g.kind = "split" /\ g.order = o
        /\ g.to = orders[o].status /\ g.items = orders[o].items
    BY <2>1, IdleType DEF Handler, Order
  <2>3. /\ req' = [req EXCEPT ![r] = g] /\ req[r].pc = "idle"
        /\ UNCHANGED <<stock, ledger, recipe, orders>> /\ orders[o].status # "CANCELLED"
    BY <1>7 DEF SplitRead, Begin
  <2> HIDE DEF g
  <2>4. Sound(g, orders) /\ SamePending(g, req[r])
    BY <2>2, <2>3 DEF Sound, SamePending, Pending
  <2>5. QED
    BY <1>t, <1>0, <2>2, <2>3, <2>4, BooksMove
<1>8. ASSUME NEW r \in Requests, Reject(r)
      PROVE  Books'
  <2>1. /\ req' = [req EXCEPT ![r] = Idle] /\ UNCHANGED <<stock, ledger, recipe, orders>>
        /\ req[r].pc \in {"insert", "split"} \/ req[r].kind \in {"status", "adjust"}
    BY <1>8 DEF Reject, End
  <2>2. SamePending(Idle, req[r])
    <3>1. Sound(req[r], orders)
      BY <1>0
    <3>2. QED
      BY <2>1, <3>1, IdleSound DEF SamePending, Pending, Sound
  <2>3. QED
    BY <1>t, <1>0, <2>1, <2>2, IdleSound, IdleType, BooksMove
<1>9. ASSUME NEW i \in Ingredients, NEW balance \in Edits, UpdateIngredient(i, balance)
      PROVE  Books'
  <2>1. balance = stock[i] /\ stock \in [Ingredients -> Int]
    BY <1>9, <1>t DEF UpdateIngredient, Excuse, TypeOK
  <2>2. stock' = stock /\ UNCHANGED <<ledger, recipe, orders, req>>
    BY <1>9, <2>1 DEF UpdateIngredient
  <2>3. QED
    BY <1>0, <2>2 DEF Books, Balanced, PendingSum
\* The steps that write.
<1>10. ASSUME NEW r \in Requests, CreateInsert(r)
       PROVE  Books'
  <2> DEFINE h == req[r]
             row == [status |-> "PREPARING", items |-> h.items]
             g == [h EXCEPT !.pc = "recipes", !.order = Len(orders) + 1]
  <2>1. /\ h \in Handler /\ h.pc = "insert" /\ h.items \in [Menu -> Nat]
        /\ orders \in Seq(Order) /\ Len(orders) + 1 \in Nat
        /\ UNCHANGED <<stock, ledger, recipe>>
    <3>1. h.pc = "insert" /\ UNCHANGED <<stock, ledger, recipe>>
      BY <1>10 DEF CreateInsert
    <3>2. orders \in Seq(Order) /\ Len(orders) + 1 \in Nat
      BY <1>t DEF TypeOK
    <3>3. h \in Handler /\ h.items \in [Menu -> Nat]
      BY <1>h DEF Handler
    <3>4. QED
      BY <3>1, <3>2, <3>3
  <2>2. h.kind = "create"
    BY <1>0, <2>1 DEF Sound
  <2>3. row \in Order /\ row.status # "CANCELLED" /\ row.items = h.items
    BY <2>1 DEF Order, OrderStatus
  <2>4. req' = [req EXCEPT ![r] = g] /\ orders' = Append(orders, row)
    BY <1>10, <1>t DEF CreateInsert, TypeOK
  <2>5. g \in Handler /\ g.pc = "recipes" /\ g.kind = "create" /\ g.items = h.items
        /\ g.order = Len(orders) + 1
    BY <2>1, <2>2 DEF Handler
  <2> HIDE DEF g, row
  <2>6. Grows(orders, orders')
    BY <2>1, <2>3, <2>4 DEF Grows
  <2>7. \A q \in Requests : Sound(req'[q], orders')
    <3>1. Sound(g, orders')
      BY <2>1, <2>5 DEF Sound
    <3>2. \A q \in Requests : Sound(req[q], orders')
      BY <1>0, <2>6, SoundGrows
    <3>3. QED
      BY <1>t, <2>4, <3>1, <3>2 DEF TypeOK
  <2>8. ASSUME NEW i \in Ingredients
        PROVE  /\ UsedIn(orders, i) \in Int
               /\ UsedIn(orders', i) = UsedIn(orders, i) + Pending(g, i) - Pending(h, i)
    <3>1. UsedIn(orders', i) = UsedIn(orders, i) + OrderNeeds(row, i)
          /\ UsedIn(orders, i) \in Int
      BY <2>1, <2>3, <2>4, UsedAppend
    <3>2. OrderNeeds(row, i) = Pending(g, i) /\ Pending(h, i) = 0
      BY <2>1, <2>2, <2>3, <2>5 DEF OrderNeeds, Pending
    <3>3. Pending(g, i) \in Int
      BY <2>5, PendingType
    <3>4. QED
      BY <3>1, <3>2, <3>3
  <2>9. QED
    BY <1>t, <1>0, <2>1, <2>4, <2>5, <2>7, <2>8, BooksOrders
<1>11. ASSUME NEW r \in Requests, StatusWrite(r)
       PROVE  Books'
  <2> DEFINE h == req[r]
             o == h.order
             row == [orders[o] EXCEPT !.status = h.to]
  <2>1. /\ h \in Handler /\ h.pc = "status" /\ orders \in Seq(Order)
        /\ UNCHANGED <<stock, ledger, recipe>> /\ Sound(h, orders)
        /\ req' = [req EXCEPT ![r] = Idle]
        /\ orders' = [orders EXCEPT ![o].status = h.to]
    BY <1>11, <1>t, <1>h, <1>0 DEF StatusWrite, TypeOK, End
  <2>2. /\ h.to = "CANCELLED" => ~Overlaps(r, o)
        /\ h.to # "CANCELLED" => orders[o].status # "CANCELLED"
    BY <1>11 DEF StatusWrite, Excuse
  <2>3. o \in DOMAIN orders /\ h.kind \in {"cancel", "status"}
    BY <2>1 DEF Sound
  <2>4. orders[o] \in Order /\ h.to \in OrderStatus
    BY <2>1, <2>3 DEF Handler
  <2>5. row \in Order /\ row.status = h.to /\ row.items = orders[o].items
    BY <2>4 DEF Order
  <2>6. orders' = [orders EXCEPT ![o] = row]
    BY <2>1
  <2> HIDE DEF row
  <2>7. ASSUME NEW q \in Requests, q # r
        PROVE  Sound(req[q], orders')
    <3>1. Sound(req[q], orders)
      BY <1>0
    <3>2. /\ DOMAIN orders' = DOMAIN orders
          /\ \A p \in DOMAIN orders : orders'[p].items = orders[p].items
          /\ \A p \in DOMAIN orders : p # o => orders'[p] = orders[p]
          /\ orders'[o].status = h.to
      BY <2>1, <2>3, <2>5, <2>6
    <3>3. (req[q].kind \in {"cancel", "split"} /\ req[q].order = o) => h.to # "CANCELLED"
      BY <2>2, <2>7 DEF Overlaps
    <3>4. (req[q].kind = "status" /\ req[q].order = o /\ req[q].to = "CANCELLED")
            => h.to = "CANCELLED"
      BY <2>2, <3>1 DEF Sound
    <3> HIDE DEF h, o
    <3>5. QED
      BY <3>1, <3>2, <3>3, <3>4 DEF Sound
  <2>8. \A q \in Requests : Sound(req'[q], orders')
    BY <1>t, <2>1, <2>7, IdleSound DEF TypeOK
  <2>9. ASSUME NEW i \in Ingredients
        PROVE  /\ UsedIn(orders, i) \in Int
               /\ UsedIn(orders', i) = UsedIn(orders, i) + Pending(Idle, i) - Pending(h, i)
    <3>1. UsedIn(orders', i)
             = UsedIn(orders, i) - OrderNeeds(orders[o], i) + OrderNeeds(row, i)
          /\ UsedIn(orders, i) \in Int
      <4>1. orders \in Seq(Order) /\ o \in DOMAIN orders
        BY <2>1, <2>3
      <4>2. UsedIn(orders, i) \in Int
        BY <1>t, BooksTypes
      <4> HIDE DEF h, o
      <4>3. UsedIn([orders EXCEPT ![o] = row], i)
              = UsedIn(orders, i) - OrderNeeds(orders[o], i) + OrderNeeds(row, i)
        BY <2>5, <4>1, UsedChange
      <4>4. QED
        BY <2>6, <4>2, <4>3
    <3>2. /\ OrderNeeds(row, i) \in Int /\ OrderNeeds(orders[o], i) \in Int
          /\ Pending(h, i) \in Int /\ Pending(Idle, i) = 0
      BY <2>1, <2>4, <2>5, OrderNeedsType, PendingType, IdleSound
    <3>3. OrderNeeds(row, i) = OrderNeeds(orders[o], i) - Pending(h, i)
      <4>1. CASE h.kind = "cancel"
        <5>1. h.to = "CANCELLED" /\ orders[o].status # "CANCELLED" /\ orders[o].items = h.items
          BY <2>1, <4>1 DEF Sound
        <5>2. OrderNeeds(row, i) = 0 /\ OrderNeeds(orders[o], i) = Pending(h, i)
          BY <2>1, <2>5, <4>1, <5>1 DEF OrderNeeds, Pending
        <5>3. QED
          BY <3>2, <5>2
      <4>2. CASE h.kind = "status"
        <5>1. h.to = "CANCELLED" <=> orders[o].status = "CANCELLED"
          BY <2>1, <2>2, <4>2 DEF Sound
        <5>2. OrderNeeds(row, i) = OrderNeeds(orders[o], i) /\ Pending(h, i) = 0
          BY <2>1, <2>5, <4>2, <5>1 DEF OrderNeeds, Pending
        <5>3. QED
          BY <3>2, <5>2
      <4>3. QED
        BY <2>3, <4>1, <4>2
    <3> DEFINE u == UsedIn(orders, i)
               v == UsedIn(orders', i)
               x == OrderNeeds(row, i)
               y == OrderNeeds(orders[o], i)
               p == Pending(h, i)
    <3>4. v = u - y + x /\ x = y - p /\ u \in Int /\ x \in Int /\ y \in Int /\ p \in Int
      BY <3>1, <3>2, <3>3
    <3> HIDE DEF u, v, x, y, p
    <3>5. v = u + 0 - p /\ u \in Int
      BY <3>4
    <3>6. QED
      BY <3>2, <3>5 DEF u, v, p
  <2>10. QED
    BY <1>t, <1>0, <2>1, <2>8, <2>9, IdleType, BooksOrders
<1>12. ASSUME NEW r \in Requests, NEW part \in SUBSET Ordered(req[r].items),
              SplitCommit(r, part)
       PROVE  Books'
  <2> DEFINE h == req[r]
             o == h.order
             rest == Ordered(h.items) \ part
             row == [orders[o] EXCEPT !.status = "CANCELLED"]
             gone == [orders EXCEPT ![o].status = "CANCELLED"]
             a == Copy(r, part)
             b == Copy(r, rest)
             one == Append(gone, a)
  <2>1. /\ h \in Handler /\ h.pc = "split" /\ orders \in Seq(Order)
        /\ UNCHANGED <<stock, ledger, recipe>> /\ Sound(h, orders)
        /\ req' = [req EXCEPT ![r] = Idle]
    BY <1>12, <1>t, <1>h, <1>0 DEF SplitCommit, TypeOK, End
  <2>2. ~Overlaps(r, o) /\ orders[o].status # "CANCELLED"
    BY <1>12 DEF SplitCommit, Excuse
  <2>3. /\ h.kind = "split" /\ o \in DOMAIN orders /\ h.to # "CANCELLED"
        /\ orders[o].items = h.items
    BY <2>1 DEF Sound
  <2>4. orders[o] \in Order /\ h.items \in [Menu -> Nat] /\ h.to \in OrderStatus
    BY <2>1, <2>3 DEF Handler
  <2>5. row \in Order /\ row.status = "CANCELLED" /\ row.items = h.items
    BY <2>3, <2>4 DEF Order, OrderStatus
  <2>6. gone = [orders EXCEPT ![o] = row]
    BY <2>1
  <2>7. /\ a \in Order /\ a.status # "CANCELLED"
        /\ a.items = [m \in Menu |-> IF m \in part THEN h.items[m] ELSE 0]
        /\ b \in Order /\ b.status # "CANCELLED"
        /\ b.items = [m \in Menu |-> IF m \in rest THEN h.items[m] ELSE 0]
    BY <2>3, <2>4 DEF Copy, Order
  <2> HIDE DEF row
  <2>8. gone \in Seq(Order) /\ DOMAIN gone = DOMAIN orders /\ gone[o] = row
        /\ \A p \in DOMAIN orders : p # o => gone[p] = orders[p]
    BY <2>1, <2>3, <2>5, <2>6
  <2>9. part \cap rest = {} /\ \A m \in Menu : h.items[m] # 0 => m \in part \cup rest
    <3>1. \A m \in Menu : h.items[m] \in Nat
      BY <2>4
    <3>2. QED
      BY <3>1 DEF Ordered
  <2>10. orders' = gone \o << a, b >>
    BY <1>12 DEF SplitCommit
  <2> HIDE DEF gone, a, b, rest
  <2>11. one \in Seq(Order) /\ Grows(gone, one)
    BY <2>7, <2>8 DEF Grows
  <2>12. orders' = Append(one, b)
    BY <2>7, <2>8, <2>10
  <2> HIDE DEF one
  <2>13. Grows(one, orders')
    BY <2>7, <2>11, <2>12 DEF Grows
  <2>14. ASSUME NEW q \in Requests, q # r
         PROVE  Sound(req[q], orders')
    <3>1. Sound(req[q], orders)
      BY <1>0
    <3>2. ~(req[q].kind \in {"cancel", "split"} /\ req[q].order = o)
      BY <2>2, <2>14 DEF Overlaps
    <3> HIDE DEF h, o
    <3>3. Sound(req[q], gone)
      BY <2>5, <2>8, <3>1, <3>2 DEF Sound
    <3>4. QED
      BY <2>11, <2>13, <3>3, SoundGrows
  <2>15. \A q \in Requests : Sound(req'[q], orders')
    BY <1>t, <2>1, <2>14, IdleSound DEF TypeOK
  <2>16. ASSUME NEW i \in Ingredients
         PROVE  /\ UsedIn(orders, i) \in Int
                /\ UsedIn(orders', i) = UsedIn(orders, i) + Pending(Idle, i) - Pending(h, i)
    <3>1. /\ UsedIn(gone, i)
               = UsedIn(orders, i) - OrderNeeds(orders[o], i) + OrderNeeds(row, i)
          /\ UsedIn(orders, i) \in Int
      BY <2>1, <2>3, <2>5, <2>6, UsedChange, UsedAppend
    <3>2. UsedIn(one, i) = UsedIn(gone, i) + OrderNeeds(a, i)
      BY <2>7, <2>8, UsedAppend DEF one
    <3>3. UsedIn(orders', i) = UsedIn(one, i) + OrderNeeds(b, i)
      BY <2>7, <2>11, <2>12, UsedAppend
    <3>4. /\ OrderNeeds(row, i) = 0 /\ OrderNeeds(orders[o], i) = Needs(h.items, i)
          /\ OrderNeeds(a, i) = Needs(a.items, i) /\ OrderNeeds(b, i) = Needs(b.items, i)
      BY <2>2, <2>3, <2>5, <2>7 DEF OrderNeeds
    <3>5. a.items \in [Menu -> Nat] /\ b.items \in [Menu -> Nat]
      BY <2>7 DEF Order
    <3>6. Needs(h.items, i) = Needs(a.items, i) + Needs(b.items, i)
      <4>1. Halves(h.items, a.items, b.items, part, rest)
        BY <2>7, <2>9 DEF Halves
      <4>2. QED
        BY <2>4, <3>5, <4>1, NeedsSplit
    <3>7. Needs(a.items, i) \in Nat /\ Needs(b.items, i) \in Nat
      BY <3>5, NeedsType
    <3>8. Pending(h, i) = 0 /\ Pending(Idle, i) = 0
      BY <2>3, IdleSound DEF Pending
    <3> DEFINE u == UsedIn(orders, i)
               v == UsedIn(orders', i)
               w == UsedIn(gone, i)
               z == UsedIn(one, i)
               x == Needs(a.items, i)
               y == Needs(b.items, i)
    <3>9. /\ w = u - (x + y) + 0 /\ z = w + x /\ v = z + y
          /\ u \in Int /\ x \in Int /\ y \in Int
      BY <3>1, <3>2, <3>3, <3>4, <3>6, <3>7
    <3> HIDE DEF u, v, w, z, x, y
    <3>10. v = u /\ u \in Int
      BY <3>9
    <3>11. UsedIn(orders', i) = UsedIn(orders, i) /\ UsedIn(orders, i) \in Int
      BY <3>10 DEF u, v
    <3>12. QED
      BY <3>8, <3>11
  <2>17. QED
    BY <1>t, <1>0, <2>1, <2>15, <2>16, IdleType, BooksOrders
<1>13. ASSUME NEW r \in Requests, StockWrite(r)
       PROVE  Books'
  <2> DEFINE h == req[r]
             i0 == h.at
             n == h.todo[i0]
             g == IF h.kind = "adjust" THEN Idle ELSE Continue(h)
  <2>1. /\ h \in Handler /\ h.pc = "write" /\ i0 \in Ingredients
        /\ stock \in [Ingredients -> Int] /\ ledger \in [Ingredients -> Seq(Row)]
        /\ UNCHANGED <<recipe, orders>> /\ Sound(h, orders)
        /\ req' = [req EXCEPT ![r] = g]
        /\ LedgerRow(h) \in Row
        /\ stock' = [stock EXCEPT ![i0] = NewStock(h)]
        /\ ledger' = [ledger EXCEPT ![i0] = Append(@, LedgerRow(h))]
    <3>1. SInv
      OBVIOUS
    <3>2. h.pc = "write" /\ UNCHANGED <<recipe, orders>> /\ req' = [req EXCEPT ![r] = g]
      BY <1>13 DEF StockWrite
    <3>3. Sound(h, orders) /\ stock \in [Ingredients -> Int]
          /\ ledger \in [Ingredients -> Seq(Row)]
      BY <1>0, <1>t DEF TypeOK
    <3>4. QED
      BY <1>13, <3>1, <3>2, <3>3, WriteEffect
  <2>2. stock[i0] = h.cur /\ NewStock(h) = h.cur + Quantity(h)
    BY <1>13 DEF StockWrite, Excuse
  <2>3. /\ h.kind \in {"create", "cancel", "adjust"}
        /\ h.kind = "adjust" => h.order = 0
        /\ h.kind # "adjust" => h.order # 0 /\ h.todo \in [Ingredients -> Nat]
    BY <2>1 DEF Sound
  <2>4. n \in Int /\ h.items \in [Menu -> Nat] /\ h.todo \in [Ingredients -> Int]
    BY <2>1 DEF Handler
  <2>5. Quantity(h) = IF h.kind = "create" THEN - n ELSE n
    BY DEF Quantity
  <2>6. RowBooks(LedgerRow(h)) = IF h.kind = "adjust" THEN n ELSE 0
    <3>1. LedgerRow(h).order = h.order /\ LedgerRow(h).quantity = Quantity(h)
      BY DEF LedgerRow
    <3>2. QED
      BY <2>3, <2>5, <3>1 DEF RowBooks
  <2>7. g \in Handler
    BY <2>1, IdleType, ContinueType
  <2>8. h.kind # "adjust" =>
          /\ g.pc = "next" /\ g.kind = h.kind /\ g.order = h.order /\ g.items = h.items
          /\ g.to = h.to /\ g.todo = [h.todo EXCEPT ![i0] = 0]
    BY <2>1 DEF Continue, Handler
  <2>9. Sound(g, orders)
    <3>1. CASE h.kind = "adjust"
      BY <3>1, IdleSound
    <3>2. CASE h.kind # "adjust"
      <4>1. g.todo \in [Ingredients -> Nat]
        BY <2>3, <2>8, <3>2
      <4> HIDE DEF g, h
      <4>2. QED
        BY <2>1, <2>3, <2>8, <3>2, <4>1 DEF Sound
    <3>3. QED
      BY <3>1, <3>2
  <2>10. \A q \in Requests : Sound(req'[q], orders')
    <3>1. \A q \in Requests : Sound(req[q], orders)
      BY <1>0
    <3> HIDE DEF g
    <3>2. QED
      BY <1>t, <2>1, <2>9, <3>1 DEF TypeOK
  <2>11. ASSUME NEW i \in Ingredients
         PROVE  /\ i # i0 => Pending(g, i) = Pending(h, i)
                /\ Pending(g, i0) = Pending(h, i0)
                     + (IF h.kind = "create" THEN - n ELSE IF h.kind = "cancel" THEN n ELSE 0)
    <3>1. Needs(h.items, i) \in Nat /\ Needs(h.items, i0) \in Nat
      BY <2>1, <2>4, NeedsType
    <3>2. CASE h.kind = "adjust"
      BY <3>2, IdleSound DEF Pending
    <3>3. CASE h.kind # "adjust"
      <4>1. (i # i0 => g.todo[i] = h.todo[i]) /\ g.todo[i0] = 0
        BY <2>1, <2>4, <2>8, <3>3
      <4> HIDE DEF g, h, i0
      <4>2. g.pc = "next" /\ h.pc = "write" /\ g.kind = h.kind /\ g.items = h.items
        BY <2>1, <2>8, <3>3
      <4>3. CASE h.kind = "create"
        BY <2>4, <4>1, <4>2, <4>3 DEF Pending
      <4>4. CASE h.kind = "cancel"
        BY <2>4, <3>1, <4>1, <4>2, <4>4 DEF Pending
      <4>5. QED
        BY <2>3, <3>3, <4>3, <4>4
    <3>4. QED
      BY <3>2, <3>3
  <2>12. ASSUME NEW i \in Ingredients
         PROVE  Balanced(i)'
    <3>1. stock[i] = InitialStock[i] + BookedIn(ledger[i]) - UsedIn(orders, i) + PendingSum(i)
      BY <1>0 DEF Balanced
    <3> HIDE DEF g
    <3>2. /\ PendingSum(i)' = PendingSum(i) - Pending(h, i) + Pending(g, i)
          /\ PendingSum(i) \in Int
      BY <1>t, <2>1, <2>7, PendingChange
    <3>3. Pending(h, i) \in Int /\ Pending(g, i) \in Int
      BY <2>1, <2>7, PendingType
    <3>4. CASE i # i0
      <4>1. stock'[i] = stock[i] /\ ledger'[i] = ledger[i] /\ orders' = orders
        BY <2>1, <3>4
      <4>2. Pending(g, i) = Pending(h, i)
        BY <2>11, <3>4
      <4>3. PendingSum(i)' = PendingSum(i)
        BY <3>2, <3>3, <4>2
      <4>4. QED
        BY <3>1, <4>1, <4>3 DEF Balanced
    <3>5. CASE i = i0
      <4>1. stock'[i] = NewStock(h) /\ ledger'[i] = Append(ledger[i], LedgerRow(h))
            /\ orders' = orders
        BY <2>1, <3>5
      <4>2. /\ BookedIn(ledger'[i]) = BookedIn(ledger[i]) + RowBooks(LedgerRow(h))
            /\ BookedIn(ledger[i]) \in Int
        <5>1. ledger[i] \in Seq(Row)
          BY <2>1
        <5>2. QED
          BY <2>1, <4>1, <5>1, BookedAppend
      <4>3. InitialStock[i] \in Int /\ UsedIn(orders, i) \in Int
        <5>1. InitialStock[i] \in Int
          BY StockAssumption
        <5>2. [status |-> "PREPARING", items |-> h.items] \in Order
          BY <2>4 DEF Order, OrderStatus
        <5>3. orders \in Seq(Order)
          BY <1>t DEF TypeOK
        <5>4. QED
          BY <5>1, <5>2, <5>3, UsedAppend
      <4> DEFINE s == stock[i]
                 t == stock'[i]
                 a == InitialStock[i]
                 b == BookedIn(ledger[i])
                 d == BookedIn(ledger'[i])
                 u == UsedIn(orders, i)
                 p == PendingSum(i)
                 x == PendingSum(i)'
                 c == Pending(g, i)
                 e == Pending(h, i)
                 q == Quantity(h)
                 l == RowBooks(LedgerRow(h))
      <4>4. /\ s = a + b - u + p /\ x = p - e + c /\ d = b + l /\ t = s + q
            /\ a \in Int /\ b \in Int /\ u \in Int /\ p \in Int /\ c \in Int /\ e \in Int
        BY <2>2, <3>1, <3>2, <3>3, <3>5, <4>1, <4>2, <4>3
      <4>5. c = e + (IF h.kind = "create" THEN - n ELSE IF h.kind = "cancel" THEN n ELSE 0)
        BY <2>11, <3>5
      <4> HIDE DEF s, t, a, b, d, u, p, x, c, e, q, l, n
      <4>6. q = l + c - e
        BY <2>3, <2>4, <2>5, <2>6, <4>4, <4>5 DEF q, l
      <4>7. l \in Int
        BY <2>4, <2>6 DEF l
      <4>8. t = a + d - u + x
        BY <4>4, <4>6, <4>7
      <4>9. QED
        BY <4>1, <4>8 DEF Balanced, t, a, d, u, x
    <3>6. QED
      BY <3>4, <3>5
  <2>13. recipe' = InitialRecipe
    BY <1>0, <2>1
  <2>14. QED
    BY <2>10, <2>12, <2>13 DEF Books
\* The steps that leave an excuse.
<1>14. ASSUME NEW r \in Requests
       PROVE  ~StockFail(r) /\ ~Crash(r) /\ ~SetRecipeInsert(r)
  <2>1. req[r].pc # "recipe"
    BY <1>0 DEF Sound
  <2>2. QED
    BY <2>1 DEF StockFail, Crash, SetRecipeInsert
<1>15. ASSUME NEW m \in Menu
       PROVE  ~DeleteRecipe(m) /\ \A r \in Requests, new \in NewRecipes : ~SetRecipeDelete(r, m, new)
  BY DEF DeleteRecipe, SetRecipeDelete
<1>16. CASE UNCHANGED vars
  BY <1>16 DEF vars, Books, Balanced, PendingSum
<1>17. CASE \E r \in Requests : NewRequest(r)
  BY <1>1, <1>2, <1>6, <1>7, <1>15, <1>17 DEF NewRequest
<1>18. CASE \E r \in Requests : HandlerStep(r)
  BY <1>3, <1>4, <1>5, <1>8, <1>10, <1>11, <1>12, <1>13, <1>14, <1>18 DEF HandlerStep
<1>19. CASE \E r \in Requests : StockFail(r) \/ Crash(r)
  BY <1>14, <1>19
<1>20. CASE \E i \in Ingredients, balance \in Edits : UpdateIngredient(i, balance)
  BY <1>9, <1>20
<1>21. CASE \E m \in Menu : DeleteRecipe(m)
  BY <1>15, <1>21
<1>22. QED
  BY <1>16, <1>17, <1>18, <1>19, <1>20, <1>21 DEF Next

LEMMA BooksInit == Init => Books
<1> SUFFICES ASSUME Init PROVE Books
  OBVIOUS
<1>1. \A r \in Requests : req[r] = Idle
  BY DEF Init
<1>2. \A r \in Requests : Sound(req[r], orders)
  BY <1>1, IdleSound
<1>3. ASSUME NEW i \in Ingredients
      PROVE  Balanced(i)
  <2>1. BookedIn(ledger[i]) = 0 /\ UsedIn(orders, i) = 0
    <3>1. ledger[i] = << >> /\ orders = << >>
      BY DEF Init
    <3>2. DOMAIN << >> = {}
      OBVIOUS
    <3>3. QED
      BY <3>1, <3>2, SumEmpty, Zenon DEF BookedIn, UsedIn
  <2>2. PendingSum(i) = 0
    <3> DEFINE f == [r \in Requests |-> Pending(req[r], i)]
    <3>1. Zero(f, Requests)
      BY <1>1, IdleSound DEF Zero
    <3> HIDE DEF f
    <3>2. SumFunctionOnSet(f, Requests) = 0
      BY <3>1, SumZero, StockAssumption
    <3>3. QED
      BY <3>2 DEF f, PendingSum
  <2>3. stock[i] = InitialStock[i] /\ InitialStock[i] \in Int
    BY StockAssumption DEF Init
  <2>4. QED
    BY <2>1, <2>2, <2>3 DEF Balanced
<1>4. QED
  BY <1>2, <1>3 DEF Init, Books

\* When every slot is idle nothing is pending, and the books are what the
\* property says.
LEMMA BooksAccount == TypeOK /\ Books => StockAccounted
<1> SUFFICES ASSUME TypeOK, Books, excuses = {}, \A r \in Requests : req[r].pc = "idle",
                    NEW i \in Ingredients
             PROVE  stock[i] = InitialStock[i] + Booked(i) - Used(i)
  BY DEF StockAccounted
<1>0. recipe = InitialRecipe /\ Balanced(i) /\ \A r \in Requests : Sound(req[r], orders)
  BY DEF Books
<1>1. Booked(i) = BookedIn(ledger[i])
  BY DEF Booked, BookedIn, RowBooks
<1>2. Used(i) = UsedIn(orders, i)
  <2>1. \A items : Needed(items, i) = Needs(items, i)
    BY <1>0 DEF Needed, Needs, NeedsOf, Units, UnitsOf
  <2>2. QED
    BY <2>1, Zenon DEF Used, UsedIn, OrderNeeds, Live
<1>3. PendingSum(i) = 0
  <2> DEFINE f == [r \in Requests |-> Pending(req[r], i)]
  <2>1. \A r \in Requests : Pending(req[r], i) = 0
    BY <1>0 DEF Pending, Sound
  <2>2. Zero(f, Requests)
    BY <2>1 DEF Zero
  <2> HIDE DEF f
  <2>3. SumFunctionOnSet(f, Requests) = 0
    BY <2>2, SumZero, StockAssumption
  <2>4. QED
    BY <2>3 DEF f, PendingSum
<1>4. BookedIn(ledger[i]) \in Int /\ UsedIn(orders, i) \in Int /\ InitialStock[i] \in Int
  BY BooksTypes, StockAssumption
<1>5. QED
  BY <1>0, <1>1, <1>2, <1>3, <1>4 DEF Balanced

\* Stock is never lost and never given back twice: with no handler running, every
\* balance is the opening stock, plus what staff booked, minus what the orders
\* that stand have used, for any number of orders, cancellations and splits that
\* run at the same time.
THEOREM StockIsAccounted == Spec => []StockAccounted
<1>1. Init => SInv /\ Books
  BY InitStock, BooksInit
<1>2. SInv /\ Books /\ [Next]_vars => (SInv /\ Books)'
  BY StockStep, BooksStays
<1>3. SInv /\ Books => StockAccounted
  BY BooksAccount DEF SInv
<1>4. QED
  BY <1>1, <1>2, <1>3, PTL DEF Spec

-----------------------------------------------------------------------------
(* Recipes. *)

\* A request that sets a recipe has it at hand and has emptied the dish, and it is
\* the only one that sets this dish.
Setting(r) ==
    /\ req[r].kind = "recipe" <=> req[r].pc = "recipe"
    /\ req[r].kind = "recipe" =>
          /\ req[r].dish \in Menu
          /\ req[r].todo \in NewRecipes
          /\ recipe[req[r].dish] = Nothing
          /\ \A q \in Requests :
                (req[q].kind = "recipe" /\ req[q].dish = req[r].dish) => q = r

Whole(m) == recipe[m] \in {InitialRecipe[m], Nothing} \cup NewRecipes

Settings ==
    "mixed" \notin excuses =>
        /\ \A m \in Menu : Whole(m)
        /\ \A r \in Requests : Setting(r)

\* No handler becomes one that sets a recipe.
NoNewSetting ==
    \A q \in Requests :
        (req'[q].kind = "recipe" \/ req'[q].pc = "recipe") => req'[q] = req[q]

\* A step that does neither set nor clear a recipe.
LEMMA SettingsKept ==
    ASSUME Settings, NoNewSetting, recipe' = recipe, excuses \subseteq excuses'
    PROVE  Settings'
<1> SUFFICES ASSUME "mixed" \notin excuses' PROVE Settings'
  BY DEF Settings
<1>1. (\A m \in Menu : Whole(m)) /\ \A r \in Requests : Setting(r)
  BY DEF Settings
<1>2. \A m \in Menu : Whole(m)'
  BY <1>1 DEF Whole
<1>3. ASSUME NEW r \in Requests
      PROVE  Setting(r)'
  <2>1. CASE req'[r].kind = "recipe" \/ req'[r].pc = "recipe"
    <3>1. req'[r] = req[r] /\ Setting(r)
      BY <1>1, <2>1 DEF NoNewSetting
    <3>2. \A q \in Requests : req'[q].kind = "recipe" => req[q] = req'[q]
      BY DEF NoNewSetting
    <3>3. QED
      BY <3>1, <3>2 DEF Setting
  <2>2. CASE ~(req'[r].kind = "recipe" \/ req'[r].pc = "recipe")
    BY <2>2 DEF Setting
  <2>3. QED
    BY <2>1, <2>2
<1>4. QED
  BY <1>2, <1>3 DEF Settings

\* A slot that goes on as a handler that sets no recipe.
LEMMA SlotGoesOn ==
    ASSUME TypeOK, NEW r \in Requests, NEW g, req' = [req EXCEPT ![r] = g],
           g.kind # "recipe", g.pc # "recipe"
    PROVE  NoNewSetting
  BY DEF TypeOK, NoNewSetting

LEMMA SettingsStep ==
    ASSUME SInv, Settings, [Next]_vars
    PROVE  Settings'
<1> SUFFICES ASSUME "mixed" \notin excuses' PROVE Settings'
  BY DEF Settings
<1>t. TypeOK
  BY DEF SInv
<1>m. excuses \subseteq excuses'
  <2>1. CASE \E r \in Requests : StockWrite(r)
    BY <2>1 DEF StockWrite
  <2>2. CASE \E i \in Ingredients, balance \in Edits : UpdateIngredient(i, balance)
    BY <2>2 DEF UpdateIngredient
  <2>3. QED
    BY <2>1, <2>2, BooksStep
<1>0. (\A m \in Menu : Whole(m)) /\ \A r \in Requests : Setting(r)
  BY <1>m DEF Settings
<1>h. \A r \in Requests : req[r] \in Handler
  BY <1>t DEF TypeOK
<1>1. ASSUME NEW r \in Requests, NewRequest(r),
             \A m \in Menu, new \in NewRecipes : ~SetRecipeDelete(r, m, new)
      PROVE  NoNewSetting /\ recipe' = recipe
  <2>1. CASE \E basket \in Baskets : CreateCheck(r, basket)
    <3>1. PICK basket \in Baskets : CreateCheck(r, basket)
      BY <2>1
    <3> DEFINE g == [Idle EXCEPT !.pc = "insert", !.kind = "create", !.items = basket]
    <3>2. /\ req' = [req EXCEPT ![r] = g] /\ recipe' = recipe
          /\ g.kind # "recipe" /\ g.pc # "recipe"
      BY <3>1 DEF CreateCheck, Begin, Idle
    <3>3. QED
      BY <1>t, <3>2, SlotGoesOn
  <2>2. CASE \E o \in DOMAIN orders, to \in StatusTargets : StatusRead(r, o, to)
    <3>1. PICK o \in DOMAIN orders, to \in StatusTargets : StatusRead(r, o, to)
      BY <2>2
    <3>2. PICK g : /\ req' = [req EXCEPT ![r] = g] /\ recipe' = recipe
                   /\ g.kind # "recipe" /\ g.pc # "recipe"
      <4>1. CASE MustRestore(o, to)
        <5> DEFINE h == [Idle EXCEPT !.pc = "recipes", !.kind = "cancel", !.order = o,
                                     !.to = to, !.items = orders[o].items]
        <5>1. req' = [req EXCEPT ![r] = h] /\ recipe' = recipe
          BY <3>1, <4>1 DEF StatusRead, Begin
        <5>2. h.kind # "recipe" /\ h.pc # "recipe"
          BY DEF Idle
        <5> HIDE DEF h
        <5>3. QED
          BY <5>1, <5>2
      <4>2. CASE ~MustRestore(o, to)
        <5> DEFINE h == [Idle EXCEPT !.pc = "status", !.kind = "status", !.order = o,
                                     !.to = to]
        <5>1. req' = [req EXCEPT ![r] = h] /\ recipe' = recipe
          BY <3>1, <4>2 DEF StatusRead, Begin
        <5>2. h.kind # "recipe" /\ h.pc # "recipe"
          BY DEF Idle
        <5> HIDE DEF h
        <5>3. QED
          BY <5>1, <5>2
      <4>3. QED
        BY <4>1, <4>2
    <3>3. QED
      BY <1>t, <3>2, SlotGoesOn
  <2>3. CASE \E i \in Ingredients, change \in Adjustments : AdjustRead(r, i, change)
    <3>1. PICK i \in Ingredients, change \in Adjustments : AdjustRead(r, i, change)
      BY <2>3
    <3> DEFINE g == [Idle EXCEPT !.pc = "write", !.kind = "adjust", !.at = i,
                                 !.cur = stock[i], !.todo = [Nothing EXCEPT ![i] = change]]
    <3>2. /\ req' = [req EXCEPT ![r] = g] /\ recipe' = recipe
          /\ g.kind # "recipe" /\ g.pc # "recipe"
      BY <3>1 DEF AdjustRead, Begin, Idle
    <3>3. QED
      BY <1>t, <3>2, SlotGoesOn
  <2>4. CASE \E o \in DOMAIN orders : SplitRead(r, o)
    <3>1. PICK o \in DOMAIN orders : SplitRead(r, o)
      BY <2>4
    <3> DEFINE g == [Idle EXCEPT !.pc = "split", !.kind = "split", !.order = o,
                                 !.to = orders[o].status, !.items = orders[o].items]
    <3>2. /\ req' = [req EXCEPT ![r] = g] /\ recipe' = recipe
          /\ g.kind # "recipe" /\ g.pc # "recipe"
      BY <3>1 DEF SplitRead, Begin, Idle
    <3>3. QED
      BY <1>t, <3>2, SlotGoesOn
  <2>5. QED
    BY <1>1, <2>1, <2>2, <2>3, <2>4 DEF NewRequest
<1>2. ASSUME NEW r \in Requests, NEW pc,
             req' = [req EXCEPT ![r].pc = pc], pc # "recipe", req[r].pc # "recipe"
      PROVE  NoNewSetting
  <2> DEFINE g == [req[r] EXCEPT !.pc = pc]
  <2>1. g.kind = req[r].kind /\ g.pc = pc
    BY <1>h DEF Handler
  <2>2. req' = [req EXCEPT ![r] = g]
    BY <1>2
  <2> HIDE DEF g
  <2>3. g.kind # "recipe"
    BY <1>0, <1>2, <2>1 DEF Setting
  <2>4. QED
    BY <1>t, <1>2, <2>1, <2>2, <2>3, SlotGoesOn
<1>3. ASSUME NEW r \in Requests, req' = [req EXCEPT ![r] = Idle]
      PROVE  NoNewSetting
  <2>1. Idle.kind # "recipe" /\ Idle.pc # "recipe"
    BY DEF Idle
  <2>2. QED
    BY <1>t, <1>3, <2>1, SlotGoesOn
<1>4. ASSUME NEW r \in Requests, req[r].pc # "recipe", req' = [req EXCEPT ![r] = Continue(req[r])]
      PROVE  NoNewSetting
  <2> DEFINE g == Continue(req[r])
  <2>1. g.kind = req[r].kind /\ g.pc = "next"
    BY <1>h DEF Continue, Handler
  <2> HIDE DEF g
  <2>2. g.kind # "recipe"
    BY <1>0, <1>4, <2>1 DEF Setting
  <2>3. QED
    BY <1>t, <1>4, <2>1, <2>2, SlotGoesOn DEF g
<1>5. ASSUME NEW r \in Requests, HandlerStep(r), ~SetRecipeInsert(r)
      PROVE  NoNewSetting /\ recipe' = recipe
  <2>1. CASE CreateInsert(r)
    <3> DEFINE g == [req[r] EXCEPT !.pc = "recipes", !.order = Len(orders) + 1]
    <3>1. g.kind = req[r].kind /\ g.pc = "recipes" /\ req[r].pc # "recipe"
      BY <1>h, <2>1 DEF Handler, CreateInsert
    <3>2. req' = [req EXCEPT ![r] = g] /\ recipe' = recipe
      BY <1>t, <2>1 DEF CreateInsert, TypeOK
    <3> HIDE DEF g
    <3>3. g.kind # "recipe"
      BY <1>0, <3>1 DEF Setting
    <3>4. QED
      BY <1>t, <3>1, <3>2, <3>3, SlotGoesOn
  <2>2. CASE StatusWrite(r)
    BY <1>3, <2>2 DEF StatusWrite, End
  <2>3. CASE ReadRecipes(r)
    <3> DEFINE todo == [i \in Ingredients |-> Needed(req[r].items, i)]
               g == [req[r] EXCEPT !.pc = "next", !.todo = todo]
    <3>2. req' = [req EXCEPT ![r] = g] /\ recipe' = recipe
      BY <1>t, <2>3 DEF ReadRecipes, TypeOK
    <3> HIDE DEF todo
    <3>1. g.kind = req[r].kind /\ g.pc = "next" /\ req[r].pc # "recipe"
      BY <1>h, <2>3 DEF Handler, ReadRecipes
    <3> HIDE DEF g
    <3>3. g.kind # "recipe"
      BY <1>0, <3>1 DEF Setting
    <3>4. QED
      BY <1>t, <3>1, <3>2, <3>3, SlotGoesOn
  <2>4. CASE \E i \in Ingredients : StockRead(r, i)
    <3>0. PICK i \in Ingredients : StockRead(r, i)
      BY <2>4
    <3> DEFINE g == [req[r] EXCEPT !.pc = "write", !.at = i, !.cur = stock[i]]
    <3>1. g.kind = req[r].kind /\ g.pc = "write" /\ req[r].pc # "recipe"
      BY <1>h, <3>0 DEF Handler, StockRead
    <3>2. req' = [req EXCEPT ![r] = g] /\ recipe' = recipe
      BY <1>t, <3>0 DEF StockRead, TypeOK
    <3> HIDE DEF g
    <3>3. g.kind # "recipe"
      BY <1>0, <3>1 DEF Setting
    <3>4. QED
      BY <1>t, <3>1, <3>2, <3>3, SlotGoesOn
  <2>5. CASE StockWrite(r)
    BY <1>3, <1>4, <2>5 DEF StockWrite
  <2>6. CASE StockDone(r)
    BY <1>2, <1>3, <2>6 DEF StockDone, Goto, End
  <2>7. CASE \E part \in SUBSET Ordered(req[r].items) : SplitCommit(r, part)
    BY <1>3, <2>7 DEF SplitCommit, End
  <2>8. CASE Reject(r)
    BY <1>3, <2>8 DEF Reject, End
  <2>9. QED
    BY <1>5, <2>1, <2>2, <2>3, <2>4, <2>5, <2>6, <2>7, <2>8 DEF HandlerStep
<1>6. ASSUME NEW r \in Requests, StockFail(r) \/ Crash(r)
      PROVE  NoNewSetting /\ recipe' = recipe
  <2>1. CASE StockFail(r)
    BY <1>4, <2>1 DEF StockFail
  <2>2. CASE Crash(r)
    BY <1>2, <1>3, <2>2 DEF Crash, Goto, End
  <2>3. QED
    BY <1>6, <2>1, <2>2
<1>7. ASSUME UNCHANGED req
      PROVE  NoNewSetting
  BY <1>7 DEF NoNewSetting
\* The three steps that write recipes.
<1>8. ASSUME NEW r \in Requests, NEW m \in Menu, NEW new \in NewRecipes,
             SetRecipeDelete(r, m, new)
      PROVE  Settings'
  <2> DEFINE g == [Idle EXCEPT !.pc = "recipe", !.kind = "recipe", !.dish = m, !.todo = new]
  <2>1. /\ g.pc = "recipe" /\ g.kind = "recipe" /\ g.dish = m /\ g.todo = new
        /\ req' = [req EXCEPT ![r] = g] /\ recipe' = [recipe EXCEPT ![m] = Nothing]
    BY <1>8 DEF SetRecipeDelete, Begin, Idle, Cleared
  <2>2. \A q \in Requests : ~(req[q].kind = "recipe" /\ req[q].dish = m)
    BY <1>8 DEF SetRecipeDelete, Excuse
  <2>3. \A q \in Requests : q # r => req'[q] = req[q]
    BY <1>t, <2>1 DEF TypeOK
  <2>4. req'[r] = g /\ recipe'[m] = Nothing
        /\ \A l \in Menu : l # m => recipe'[l] = recipe[l]
    BY <1>t, <2>1 DEF TypeOK
  <2> HIDE DEF g
  <2>5. \A l \in Menu : Whole(l)'
    BY <1>0, <2>4 DEF Whole
  <2>6. ASSUME NEW q \in Requests
        PROVE  Setting(q)'
    <3>1. CASE q = r
      BY <2>1, <2>2, <2>3, <2>4, <3>1 DEF Setting
    <3>2. CASE q # r
      BY <1>0, <2>1, <2>2, <2>3, <2>4, <3>2 DEF Setting
    <3>3. QED
      BY <3>1, <3>2
  <2>7. QED
    BY <2>5, <2>6 DEF Settings
<1>9. ASSUME NEW r \in Requests, SetRecipeInsert(r)
      PROVE  Settings'
  <2> DEFINE m == req[r].dish
             new == req[r].todo
  <2>1. req[r].pc = "recipe" /\ Setting(r)
    BY <1>0, <1>9 DEF SetRecipeInsert
  <2>2. m \in Menu /\ new \in [Ingredients -> Nat] /\ new \in NewRecipes /\ recipe[m] = Nothing
    BY <2>1, StockAssumption DEF Setting
  <2>3. \A i \in Ingredients : recipe[m][i] = 0
    BY <2>2 DEF Nothing
  <2>4. recipe' = [recipe EXCEPT ![m] = new]
    <3> DEFINE sum == [i \in Ingredients |-> recipe[m][i] + new[i]]
    <3>1. recipe' = [recipe EXCEPT ![m] = sum]
      BY <1>9, <2>3 DEF SetRecipeInsert
    <3>2. sum = new
      BY <2>2, <2>3
    <3> HIDE DEF sum, m, new
    <3>3. QED
      BY <3>1, <3>2
  <2>5. req'[r] = Idle /\ \A q \in Requests : q # r => req'[q] = req[q]
    BY <1>t, <1>9 DEF SetRecipeInsert, End, TypeOK
  <2>6. recipe'[m] = new /\ \A l \in Menu : l # m => recipe'[l] = recipe[l]
    BY <1>t, <2>2, <2>4 DEF TypeOK
  <2>7. \A l \in Menu : Whole(l)'
    BY <1>0, <2>2, <2>6 DEF Whole
  <2>8. ASSUME NEW q \in Requests
        PROVE  Setting(q)'
    <3>1. CASE q = r
      BY <2>5, <3>1 DEF Setting, Idle
    <3>2. CASE q # r
      <4>1. req'[q] = req[q] /\ Setting(q) /\ Idle.kind # "recipe"
        BY <1>0, <2>5, <3>2 DEF Idle
      <4>2. req[q].kind = "recipe" => req[q].dish # m
        BY <2>1, <3>2 DEF Setting
      <4>3. QED
        BY <2>5, <2>6, <4>1, <4>2 DEF Setting
    <3>3. QED
      BY <3>1, <3>2
  <2>9. QED
    BY <2>7, <2>8 DEF Settings
<1>10. ASSUME NEW m \in Menu, DeleteRecipe(m)
       PROVE  Settings'
  <2>1. recipe' = [recipe EXCEPT ![m] = Nothing] /\ req' = req
    BY <1>10 DEF DeleteRecipe, Cleared
  <2>2. recipe'[m] = Nothing /\ \A l \in Menu : l # m => recipe'[l] = recipe[l]
    BY <1>t, <2>1 DEF TypeOK
  <2>3. \A l \in Menu : Whole(l)'
    BY <1>0, <2>2 DEF Whole
  <2>4. \A q \in Requests : Setting(q)'
    BY <1>0, <2>1, <2>2 DEF Setting
  <2>5. QED
    BY <2>3, <2>4 DEF Settings
<1>11. CASE UNCHANGED vars
  <2>1. NoNewSetting /\ recipe' = recipe
    BY <1>7, <1>11 DEF vars
  <2>2. QED
    BY <1>m, <2>1, SettingsKept
<1>12. CASE \E i \in Ingredients, balance \in Edits : UpdateIngredient(i, balance)
  <2>1. NoNewSetting /\ recipe' = recipe
    BY <1>7, <1>12 DEF UpdateIngredient
  <2>2. QED
    BY <1>m, <2>1, SettingsKept
<1>13. ASSUME NEW r \in Requests, NewRequest(r) \/ HandlerStep(r) \/ StockFail(r) \/ Crash(r)
       PROVE  Settings'
  <2>1. CASE \E m \in Menu, new \in NewRecipes : SetRecipeDelete(r, m, new)
    BY <1>8, <2>1
  <2>2. CASE SetRecipeInsert(r)
    BY <1>9, <2>2
  <2>3. CASE ~(\E m \in Menu, new \in NewRecipes : SetRecipeDelete(r, m, new))
             /\ ~SetRecipeInsert(r)
    <3>1. NoNewSetting /\ recipe' = recipe
      BY <1>1, <1>5, <1>6, <1>13, <2>3
    <3>2. QED
      BY <1>m, <3>1, SettingsKept
  <2>4. QED
    BY <2>1, <2>2, <2>3
<1>14. QED
  BY <1>10, <1>11, <1>12, <1>13 DEF Next

\* A dish never has a mixture of two recipes, for any number of dishes and of
\* requests, unless two of them set the same dish at the same time: what the
\* insert adds to is the empty recipe that its own delete has left.
THEOREM RecipesAreWhole == Spec => []RecipeWhole
<1>1. Init => SInv /\ Settings
  <2> SUFFICES ASSUME Init PROVE Settings
    BY InitStock
  <2>1. \A m \in Menu : Whole(m)
    BY DEF Init, Whole
  <2>2. \A r \in Requests : Setting(r)
    BY DEF Init, Setting, Idle
  <2>3. QED
    BY <2>1, <2>2 DEF Settings
<1>2. SInv /\ Settings /\ [Next]_vars => (SInv /\ Settings)'
  BY StockStep, SettingsStep
<1>3. SInv /\ Settings => RecipeWhole
  BY DEF Settings, Whole, RecipeWhole
<1>4. QED
  BY <1>1, <1>2, <1>3, PTL DEF Spec

-----------------------------------------------------------------------------
(* No ingredient is skipped: the safety half of OrderDeducted.               *)

Upset == {"fault", "recipe"} \cap excuses # {}

\* There is a row that deducts for order o.
RowFor(rows, o) == \E k \in DOMAIN rows : rows[k].order = o /\ ~rows[k].restores

Met(table, books, items, o, i) == NeedsOf(table, items, i) = 0 \/ RowFor(books[i], o)

\* Handler h will still come to ingredient i.
OnIt(h, o, i) ==
    /\ h.kind = "create" /\ h.order = o
    /\ h.pc = "recipes" \/ (h.pc \in {"next", "write"} /\ h.todo[i] > 0)

\* Order o has the row it needs of ingredient i, or a handler is on it, or a call
\* failed or recipes were changed.
Deducting(o, i) ==
    \/ Upset
    \/ Met(recipe, ledger, orders[o].items, o, i)
    \/ \E r \in Requests : OnIt(req[r], o, i)

\* A deduction has its order's dishes at hand and has booked what it is not to do.
InHand(h, rows, books, table) ==
    /\ h.pc # "recipe"
    /\ (h.kind = "create" /\ h.pc # "insert") =>
          /\ h.pc \in {"recipes", "next", "write"}
          /\ h.order \in DOMAIN rows /\ rows[h.order].items = h.items
          /\ h.pc = "write" => h.at \in Ingredients
          /\ h.pc \in {"next", "write"} =>
                \A i \in Ingredients :
                    h.todo[i] > 0 \/ Met(table, books, h.items, h.order, i)

Hands == ~Upset => \A r \in Requests : InHand(req[r], orders, ledger, recipe)

\* The deduction of an accepted order.
Accepted ==
    \A r \in Requests : (req[r].kind = "create" /\ req[r].pc # "insert") =>
        \A i \in Ingredients : Deducting(req[r].order, i)

NothingSkipped ==
    [][\A o \in DOMAIN orders, i \in Ingredients : Deducting(o, i) => Deducting(o, i)']_vars

\* Rows of the Order table and of the ledger are only added, and keep what they say.
RowsStay ==
    /\ \A o \in DOMAIN orders : o \in DOMAIN orders' /\ orders'[o].items = orders[o].items
    /\ \A i \in Ingredients : \A k \in DOMAIN ledger[i] :
          k \in DOMAIN ledger'[i] /\ ledger'[i][k] = ledger[i][k]

LEMMA RowsAreAdded ==
    ASSUME SInv, [Next]_vars
    PROVE  RowsStay
<1>t. /\ orders \in Seq(Order) /\ ledger \in [Ingredients -> Seq(Row)]
      /\ \A r \in Requests : req[r] \in Handler
  BY DEF SInv, TypeOK
<1>1. \A o \in DOMAIN orders : o \in DOMAIN orders' /\ orders'[o].items = orders[o].items
  <2>1. CASE UNCHANGED orders
    BY <2>1
  <2>2. ASSUME NEW r \in Requests, CreateInsert(r)
        PROVE  \A o \in DOMAIN orders : o \in DOMAIN orders' /\ orders'[o] = orders[o]
    BY <1>t, <2>2 DEF CreateInsert
  <2>3. ASSUME NEW p, NEW s
        PROVE  LET new == [orders EXCEPT ![p].status = s]
               IN  /\ DOMAIN new = DOMAIN orders
                   /\ \A o \in DOMAIN orders : new[o].items = orders[o].items
    <3> DEFINE new == [orders EXCEPT ![p].status = s]
    <3>1. ASSUME NEW o \in DOMAIN orders
          PROVE  new[o].items = orders[o].items
      <4>1. orders[o] \in Order
        BY <1>t
      <4>2. new[o] = IF o = p THEN [orders[o] EXCEPT !.status = s] ELSE orders[o]
        BY <1>t
      <4>3. [orders[o] EXCEPT !.status = s].items = orders[o].items
        BY <4>1 DEF Order
      <4> HIDE DEF new
      <4>4. QED
        BY <4>2, <4>3
    <3>2. DOMAIN new = DOMAIN orders
      BY <1>t
    <3> HIDE DEF new
    <3>3. QED
      BY <3>1, <3>2 DEF new
  <2>4. ASSUME NEW r \in Requests, StatusWrite(r)
        PROVE  \A o \in DOMAIN orders : o \in DOMAIN orders' /\ orders'[o].items = orders[o].items
    BY <2>3, <2>4 DEF StatusWrite
  <2>5. ASSUME NEW r \in Requests, NEW part, SplitCommit(r, part)
        PROVE  \A o \in DOMAIN orders : o \in DOMAIN orders' /\ orders'[o].items = orders[o].items
    <3> DEFINE new == [orders EXCEPT ![req[r].order].status = "CANCELLED"]
               more == << Copy(r, part), Copy(r, Ordered(req[r].items) \ part) >>
    <3>1. orders' = new \o more
      BY <2>5 DEF SplitCommit
    <3>2. /\ DOMAIN new = DOMAIN orders
          /\ \A o \in DOMAIN orders : new[o].items = orders[o].items
      BY <2>3
    <3>3. new \in Seq(Order)
      BY <1>t, StatusType DEF SInv, OrderStatus
    <3>4. Len(more) = 2 /\ \E S : more \in Seq(S)
      <4>1. more \in Seq({Copy(r, part), Copy(r, Ordered(req[r].items) \ part)})
        OBVIOUS
      <4>2. QED
        BY <4>1
    <3> HIDE DEF new, more
    <3>5. \A o \in DOMAIN new : o \in DOMAIN orders' /\ orders'[o] = new[o]
      BY <3>1, <3>3, <3>4
    <3>6. QED
      BY <3>2, <3>5
  <2>6. CASE UNCHANGED vars
    BY <2>1, <2>6 DEF vars
  <2>7. ASSUME NEW r \in Requests,
               NewRequest(r) \/ HandlerStep(r) \/ StockFail(r) \/ Crash(r)
        PROVE  \A o \in DOMAIN orders : o \in DOMAIN orders' /\ orders'[o].items = orders[o].items
    <3>1. CASE NewRequest(r)
      BY <2>1, <3>1 DEF NewRequest, CreateCheck, StatusRead, AdjustRead, SetRecipeDelete,
                        SplitRead
    <3>2. CASE StockFail(r) \/ Crash(r)
      BY <2>1, <3>2 DEF StockFail, Crash
    <3>3. CASE HandlerStep(r)
      <4>1. \/ UNCHANGED orders \/ CreateInsert(r) \/ StatusWrite(r)
            \/ \E part \in SUBSET Ordered(req[r].items) : SplitCommit(r, part)
        BY <3>3 DEF HandlerStep, ReadRecipes, StockRead, StockWrite, StockDone,
                    SetRecipeInsert, Reject
      <4>2. QED
        BY <2>1, <2>2, <2>4, <2>5, <4>1
    <3>4. QED
      BY <2>7, <3>1, <3>2, <3>3
  <2>8. QED
    BY <2>1, <2>6, <2>7 DEF Next, UpdateIngredient, DeleteRecipe
<1>2. \A i \in Ingredients : \A k \in DOMAIN ledger[i] :
          k \in DOMAIN ledger'[i] /\ ledger'[i][k] = ledger[i][k]
  <2>1. CASE UNCHANGED ledger
    BY <2>1
  <2>2. ASSUME NEW r \in Requests, StockWrite(r)
        PROVE  \A i \in Ingredients : \A k \in DOMAIN ledger[i] :
                   k \in DOMAIN ledger'[i] /\ ledger'[i][k] = ledger[i][k]
    <3>1. PICK a \in Ingredients, row \in Row : ledger' = [ledger EXCEPT ![a] = Append(@, row)]
      BY <2>2, WriteEffect
    <3>2. \A i \in Ingredients : ledger[i] \in Seq(Row)
      BY <1>t
    <3>3. \A i \in Ingredients :
              ledger'[i] = IF i = a THEN Append(ledger[i], row) ELSE ledger[i]
      BY <1>t, <3>1
    <3>4. ASSUME NEW i \in Ingredients, NEW k \in DOMAIN ledger[i]
          PROVE  k \in DOMAIN ledger'[i] /\ ledger'[i][k] = ledger[i][k]
      <4>1. CASE i = a
        <5>1. ledger'[i] = Append(ledger[i], row) /\ ledger[i] \in Seq(Row)
          BY <3>2, <3>3, <4>1
        <5>2. QED
          BY <5>1
      <4>2. CASE i # a
        BY <3>3, <4>2
      <4>3. QED
        BY <4>1, <4>2
    <3>5. QED
      BY <3>4
  <2>3. QED
    BY <2>1, <2>2, BooksStep DEF UpdateIngredient
<1>3. QED
  BY <1>1, <1>2 DEF RowsStay

\* What a handler has at hand stays true of the tables.
LEMMA InHandStays ==
    ASSUME RowsStay, NEW h, InHand(h, orders, ledger, recipe), recipe' = recipe
    PROVE  InHand(h, orders', ledger', recipe')
<1>1. \A o : \A i \in Ingredients : RowFor(ledger[i], o) => RowFor(ledger'[i], o)
  BY DEF RowsStay, RowFor
<1>2. \A i \in Ingredients :
          Met(recipe, ledger, h.items, h.order, i) => Met(recipe', ledger', h.items, h.order, i)
  <2>1. ASSUME NEW i \in Ingredients, Met(recipe, ledger, h.items, h.order, i)
        PROVE  Met(recipe', ledger', h.items, h.order, i)
    <3>1. CASE NeedsOf(recipe, h.items, i) = 0
      BY <3>1 DEF Met
    <3>2. CASE RowFor(ledger[i], h.order)
      BY <1>1, <3>2 DEF Met
    <3>3. QED
      BY <2>1, <3>1, <3>2 DEF Met
  <2>2. QED
    BY <2>1
<1>3. h.order \in DOMAIN orders =>
          h.order \in DOMAIN orders' /\ orders'[h.order].items = orders[h.order].items
  BY DEF RowsStay
<1>4. QED
  BY <1>2, <1>3 DEF InHand

\* A handler that deducts goes on with its order, unless it is through.
GoesOn(h, g) ==
    (h.kind = "create" /\ h.pc # "insert") =>
        \/ g.kind = "create" /\ g.pc # "insert" /\ g.order = h.order
        \/ h.pc = "next" /\ \A i \in Ingredients : h.todo[i] <= 0

\* The slot of r holds g after the step, and g has what it needs at hand.
Moved(r, g) ==
    /\ req' = [req EXCEPT ![r] = g]
    /\ GoesOn(req[r], g)
    /\ InHand(g, orders', ledger', recipe')

\* A handler that does not deduct has nothing to have at hand.
LEMMA NotDeducting ==
    ASSUME NEW r \in Requests, NEW g, req' = [req EXCEPT ![r] = g], g.pc # "recipe",
           g.kind # "create" \/ g.pc = "insert",
           req[r].kind # "create" \/ req[r].pc = "insert"
                \/ (req[r].pc = "next" /\ \A i \in Ingredients : req[r].todo[i] <= 0)
    PROVE  Moved(r, g)
  BY DEF Moved, GoesOn, InHand

LEMMA RequestsMove ==
    ASSUME SInv, NEW r \in Requests, NewRequest(r), ~Upset',
           InHand(req[r], orders, ledger, recipe)
    PROVE  (\E g : Moved(r, g)) /\ recipe' = recipe
<1>1. req[r].kind # "create" \/ req[r].pc = "insert"
  <2>1. req[r].pc = "idle"
    BY DEF NewRequest, CreateCheck, StatusRead, AdjustRead, SetRecipeDelete, SplitRead, Begin
  <2>2. QED
    BY <2>1 DEF InHand
<1>2. CASE \E basket \in Baskets : CreateCheck(r, basket)
  <2>1. PICK basket \in Baskets : CreateCheck(r, basket)
    BY <1>2
  <2> DEFINE g == [Idle EXCEPT !.pc = "insert", !.kind = "create", !.items = basket]
  <2>2. g.pc = "insert" /\ req' = [req EXCEPT ![r] = g] /\ recipe' = recipe
    BY <2>1 DEF CreateCheck, Begin, Idle
  <2> HIDE DEF g
  <2>3. QED
    BY <1>1, <2>2, NotDeducting
<1>3. CASE \E o \in DOMAIN orders, to \in StatusTargets : StatusRead(r, o, to)
  <2>1. PICK o \in DOMAIN orders, to \in StatusTargets : StatusRead(r, o, to)
    BY <1>3
  <2>2. CASE MustRestore(o, to)
    <3> DEFINE g == [Idle EXCEPT !.pc = "recipes", !.kind = "cancel", !.order = o,
                                 !.to = to, !.items = orders[o].items]
    <3>1. req' = [req EXCEPT ![r] = g] /\ recipe' = recipe
      BY <2>1, <2>2 DEF StatusRead, Begin
    <3>2. g.kind = "cancel" /\ g.pc = "recipes"
      BY DEF Idle
    <3> HIDE DEF g
    <3>3. QED
      BY <1>1, <3>1, <3>2, NotDeducting
  <2>3. CASE ~MustRestore(o, to)
    <3> DEFINE g == [Idle EXCEPT !.pc = "status", !.kind = "status", !.order = o, !.to = to]
    <3>1. req' = [req EXCEPT ![r] = g] /\ recipe' = recipe
      BY <2>1, <2>3 DEF StatusRead, Begin
    <3>2. g.kind = "status" /\ g.pc = "status"
      BY DEF Idle
    <3> HIDE DEF g
    <3>3. QED
      BY <1>1, <3>1, <3>2, NotDeducting
  <2>4. QED
    BY <2>2, <2>3
<1>4. CASE \E i \in Ingredients, change \in Adjustments : AdjustRead(r, i, change)
  <2>1. PICK i \in Ingredients, change \in Adjustments : AdjustRead(r, i, change)
    BY <1>4
  <2> DEFINE g == [Idle EXCEPT !.pc = "write", !.kind = "adjust", !.at = i,
                               !.cur = stock[i], !.todo = [Nothing EXCEPT ![i] = change]]
  <2>2. /\ req' = [req EXCEPT ![r] = g] /\ recipe' = recipe
        /\ g.kind = "adjust" /\ g.pc = "write"
    BY <2>1 DEF AdjustRead, Begin, Idle
  <2> HIDE DEF g
  <2>3. QED
    BY <1>1, <2>2, NotDeducting
<1>5. CASE \E o \in DOMAIN orders : SplitRead(r, o)
  <2>1. PICK o \in DOMAIN orders : SplitRead(r, o)
    BY <1>5
  <2> DEFINE g == [Idle EXCEPT !.pc = "split", !.kind = "split", !.order = o,
                               !.to = orders[o].status, !.items = orders[o].items]
  <2>2. /\ req' = [req EXCEPT ![r] = g] /\ recipe' = recipe
        /\ g.kind = "split" /\ g.pc = "split"
    BY <2>1 DEF SplitRead, Begin, Idle
  <2> HIDE DEF g
  <2>3. QED
    BY <1>1, <2>2, NotDeducting
<1>6. CASE \E m \in Menu, new \in NewRecipes : SetRecipeDelete(r, m, new)
  <2>1. "recipe" \in excuses'
    BY <1>6 DEF SetRecipeDelete
  <2>2. QED
    BY <2>1 DEF Upset
<1>7. QED
  BY <1>2, <1>3, <1>4, <1>5, <1>6 DEF NewRequest

\* The order is there, and all of it is still to do.
LEMMA InsertMoves ==
    ASSUME SInv, NEW r \in Requests, CreateInsert(r),
           InHand(req[r], orders, ledger, recipe)
    PROVE  \E g : Moved(r, g)
<1> DEFINE n == Len(orders) + 1
           g == [req[r] EXCEPT !.pc = "recipes", !.order = n]
           row == [status |-> "PREPARING", items |-> req[r].items]
<1>0. req[r] \in Handler /\ orders \in Seq(Order) /\ req \in [Requests -> Handler]
  BY DEF SInv, TypeOK
<1>1. req[r].pc = "insert" /\ req' = [req EXCEPT ![r] = g] /\ orders' = Append(orders, row)
  BY <1>0 DEF CreateInsert
<1>2. g.pc = "recipes" /\ g.order = n /\ g.items = req[r].items
  BY <1>0 DEF Handler
<1> HIDE DEF g
<1>3. n \in DOMAIN orders' /\ orders'[n] = row
  BY <1>0, <1>1
<1>4. InHand(g, orders', ledger', recipe')
  BY <1>2, <1>3 DEF InHand
<1>5. QED
  BY <1>1, <1>4 DEF Moved, GoesOn

\* A deduction notes what the recipes ask for.
LEMMA RecipesMove ==
    ASSUME SInv, NEW r \in Requests, ReadRecipes(r),
           InHand(req[r], orders, ledger, recipe)
    PROVE  \E g : Moved(r, g)
<1> DEFINE todo == [i \in Ingredients |-> Needed(req[r].items, i)]
           g == [req[r] EXCEPT !.pc = "next", !.todo = todo]
<1>0. req[r] \in Handler /\ TypeOK
  BY DEF SInv, TypeOK
<1>1. req[r].pc = "recipes" /\ req' = [req EXCEPT ![r] = g]
      /\ UNCHANGED <<orders, ledger, recipe>>
  BY <1>0 DEF ReadRecipes, TypeOK
<1>2. \A i \in Ingredients : todo[i] > 0 \/ NeedsOf(recipe, req[r].items, i) = 0
  <2>1. ASSUME NEW i \in Ingredients
        PROVE  /\ Needed(req[r].items, i) \in Nat
               /\ Needed(req[r].items, i) = NeedsOf(recipe, req[r].items, i)
    <3>1. req[r].items \in [Menu -> Nat]
      BY <1>0 DEF Handler
    <3>2. QED
      BY <1>0, <3>1, NeededType DEF Needed, Units, NeedsOf, UnitsOf
  <2>2. QED
    BY <2>1
<1> HIDE DEF todo
<1>3. /\ g.pc = "next" /\ g.kind = req[r].kind /\ g.order = req[r].order
      /\ g.items = req[r].items /\ g.todo = todo
  BY <1>0 DEF Handler
<1> HIDE DEF g
<1>4. \A i \in Ingredients : g.todo[i] > 0 \/ Met(recipe', ledger', g.items, g.order, i)
  BY <1>1, <1>2, <1>3 DEF Met
<1>5. InHand(g, orders', ledger', recipe')
  BY <1>1, <1>3, <1>4 DEF InHand
<1>6. QED
  BY <1>1, <1>3, <1>5 DEF Moved, GoesOn

LEMMA ReadMoves ==
    ASSUME SInv, NEW r \in Requests, NEW i \in Ingredients, StockRead(r, i),
           InHand(req[r], orders, ledger, recipe)
    PROVE  \E g : Moved(r, g)
<1> DEFINE g == [req[r] EXCEPT !.pc = "write", !.at = i, !.cur = stock[i]]
<1>0. req[r] \in Handler /\ req \in [Requests -> Handler]
  BY DEF SInv, TypeOK
<1>1. req[r].pc = "next" /\ req' = [req EXCEPT ![r] = g]
      /\ UNCHANGED <<orders, ledger, recipe>>
  BY <1>0 DEF StockRead
<1>2. /\ g.pc = "write" /\ g.kind = req[r].kind /\ g.order = req[r].order
      /\ g.items = req[r].items /\ g.todo = req[r].todo /\ g.at = i
  BY <1>0 DEF Handler
<1> HIDE DEF g
<1>3. InHand(g, orders', ledger', recipe')
  BY <1>1, <1>2 DEF InHand
<1>4. QED
  BY <1>1, <1>2, <1>3 DEF Moved, GoesOn

\* What has been booked has its row.
LEMMA WriteMoves ==
    ASSUME SInv, NEW r \in Requests, StockWrite(r), RowsStay,
           InHand(req[r], orders, ledger, recipe)
    PROVE  \E g : Moved(r, g)
<1> DEFINE h == req[r]
           g == Continue(h)
<1>0. h \in Handler /\ h.at \in Ingredients /\ h.pc = "write"
      /\ ledger \in [Ingredients -> Seq(Row)] /\ LedgerRow(h) \in Row
      /\ ledger' = [ledger EXCEPT ![h.at] = Append(@, LedgerRow(h))]
  BY WriteEffect DEF SInv, TypeOK, StockWrite
<1>1. UNCHANGED <<orders, recipe>>
      /\ req' = [req EXCEPT ![r] = IF h.kind = "adjust" THEN Idle ELSE g]
  BY DEF StockWrite
<1>2. CASE h.kind = "create"
  <2>1. /\ g.pc = "next" /\ g.kind = "create" /\ g.order = h.order /\ g.items = h.items
        /\ \A i \in Ingredients : i # h.at => g.todo[i] = h.todo[i]
    <3>1. h.todo \in [Ingredients -> Int]
      BY <1>0 DEF Handler
    <3> DEFINE todo == [h.todo EXCEPT ![h.at] = 0]
    <3>2. \A i \in Ingredients : i # h.at => todo[i] = h.todo[i]
      BY <3>1
    <3>3. g = [h EXCEPT !.pc = "next", !.todo = todo, !.at = NoIngredient, !.cur = 0]
      BY DEF Continue
    <3> HIDE DEF todo
    <3>4. g.pc = "next" /\ g.kind = h.kind /\ g.order = h.order /\ g.items = h.items
          /\ g.todo = todo
      BY <1>0, <3>3 DEF Handler
    <3>5. QED
      BY <1>2, <3>2, <3>4
  <2> HIDE DEF g
  <2>2. RowFor(ledger'[h.at], h.order)
    <3>1. LedgerRow(h).order = h.order /\ ~LedgerRow(h).restores
      BY <1>2 DEF LedgerRow
    <3>2. PICK row \in Row : row = LedgerRow(h)
      BY <1>0
    <3>3. ledger'[h.at] = Append(ledger[h.at], row) /\ ledger[h.at] \in Seq(Row)
      BY <1>0, <3>2
    <3>4. /\ Len(ledger[h.at]) + 1 \in DOMAIN ledger'[h.at]
          /\ ledger'[h.at][Len(ledger[h.at]) + 1] = row
      BY <3>3
    <3>5. QED
      BY <3>1, <3>2, <3>4 DEF RowFor
  <2>3. InHand(h, orders', ledger', recipe')
    BY <1>1, InHandStays
  <2>4. \A i \in Ingredients : g.todo[i] > 0 \/ Met(recipe', ledger', g.items, g.order, i)
    <3>1. ASSUME NEW i \in Ingredients, i = h.at
          PROVE  Met(recipe', ledger', g.items, g.order, i)
      BY <2>1, <2>2, <3>1 DEF Met
    <3>2. ASSUME NEW i \in Ingredients, i # h.at
          PROVE  g.todo[i] > 0 \/ Met(recipe', ledger', g.items, g.order, i)
      BY <1>0, <1>2, <2>1, <2>3, <3>2 DEF InHand
    <3>3. QED
      BY <3>1, <3>2
  <2>5. InHand(g, orders', ledger', recipe')
    BY <1>0, <1>2, <2>1, <2>3, <2>4 DEF InHand
  <2>6. QED
    BY <1>1, <1>2, <2>1, <2>5 DEF Moved, GoesOn
<1>3. CASE h.kind # "create"
  <2>1. g.kind = h.kind /\ g.pc = "next" /\ Idle.kind = "none" /\ Idle.pc = "idle"
    BY <1>0 DEF Continue, Handler, Idle
  <2>2. PICK k : k = IF h.kind = "adjust" THEN Idle ELSE g
    OBVIOUS
  <2>3. k.kind # "create" /\ k.pc # "recipe" /\ req' = [req EXCEPT ![r] = k]
    BY <1>1, <1>3, <2>1, <2>2
  <2>4. QED
    BY <1>3, <2>3, NotDeducting
<1>4. QED
  BY <1>2, <1>3

LEMMA HandlersMove ==
    ASSUME SInv, NEW r \in Requests, RowsStay, ~Upset',
           HandlerStep(r) \/ StockFail(r) \/ Crash(r),
           InHand(req[r], orders, ledger, recipe)
    PROVE  (\E g : Moved(r, g)) /\ recipe' = recipe
<1>0. req[r] \in Handler /\ req \in [Requests -> Handler]
      /\ Idle.kind = "none" /\ Idle.pc = "idle"
  BY DEF SInv, TypeOK, Idle
<1>1. CASE \/ CreateInsert(r) \/ ReadRecipes(r) \/ StockWrite(r)
           \/ \E i \in Ingredients : StockRead(r, i)
  <2>1. recipe' = recipe
    BY <1>1 DEF CreateInsert, ReadRecipes, StockWrite, StockRead
  <2>2. QED
    BY <1>1, <2>1, InsertMoves, RecipesMove, ReadMoves, WriteMoves
<1>2. CASE \/ StatusWrite(r) \/ Reject(r)
           \/ \E part \in SUBSET Ordered(req[r].items) : SplitCommit(r, part)
  <2>1. /\ req[r].pc \in {"status", "insert", "split"} \/ req[r].kind \in {"status", "adjust"}
        /\ req' = [req EXCEPT ![r] = Idle] /\ recipe' = recipe
    BY <1>2 DEF StatusWrite, Reject, SplitCommit, End
  <2>2. req[r].kind # "create" \/ req[r].pc = "insert"
    BY <2>1 DEF InHand
  <2>3. QED
    BY <1>0, <2>1, <2>2, NotDeducting
<1>3. CASE StockDone(r)
  <2>1. /\ req[r].pc = "next" /\ \A i \in Ingredients : req[r].todo[i] <= 0
        /\ recipe' = recipe
    BY <1>3 DEF StockDone
  <2>2. CASE req[r].kind = "cancel"
    <3> DEFINE g == [req[r] EXCEPT !.pc = "status"]
    <3>1. g.kind = "cancel" /\ g.pc = "status" /\ req' = [req EXCEPT ![r] = g]
      BY <1>0, <1>3, <2>2 DEF StockDone, Goto, Handler
    <3> HIDE DEF g
    <3>2. QED
      BY <2>1, <3>1, NotDeducting
  <2>3. CASE req[r].kind # "cancel"
    <3>1. req' = [req EXCEPT ![r] = Idle]
      BY <1>3, <2>3 DEF StockDone, End
    <3>2. QED
      BY <1>0, <2>1, <3>1, NotDeducting
  <2>4. QED
    BY <2>2, <2>3
<1>4. CASE SetRecipeInsert(r)
  BY <1>4 DEF SetRecipeInsert, InHand
<1>5. CASE StockFail(r) \/ Crash(r)
  <2>1. "fault" \in excuses'
    BY <1>5 DEF StockFail, Crash
  <2>2. QED
    BY <2>1 DEF Upset
<1>6. QED
  BY <1>1, <1>2, <1>3, <1>4, <1>5 DEF HandlerStep

\* One step, while no call has failed and no recipe has changed: every handler has
\* what it needs at hand, and those that deduct go on.
LEMMA HandsStep ==
    ASSUME SInv, Hands, [Next]_vars, ~Upset'
    PROVE  /\ ~Upset /\ recipe' = recipe
           /\ \A r \in Requests : InHand(req[r], orders, ledger, recipe)
           /\ \A r \in Requests : /\ InHand(req'[r], orders', ledger', recipe')
                                  /\ GoesOn(req[r], req'[r])
<1>1. RowsStay /\ req \in [Requests -> Handler]
  BY RowsAreAdded DEF SInv, TypeOK
<1>2. ~Upset
  <2>1. excuses \subseteq excuses'
    <3>1. CASE \E r \in Requests : StockWrite(r)
      BY <3>1 DEF StockWrite
    <3>2. CASE \E i \in Ingredients, balance \in Edits : UpdateIngredient(i, balance)
      BY <3>2 DEF UpdateIngredient
    <3>3. QED
      BY <3>1, <3>2, BooksStep
  <2>2. QED
    BY <2>1 DEF Upset
<1>3. \A r \in Requests : InHand(req[r], orders, ledger, recipe)
  BY <1>2 DEF Hands
<1>4. \/ UNCHANGED req /\ recipe' = recipe
      \/ (\E r \in Requests : \E g : Moved(r, g)) /\ recipe' = recipe
  <2>1. CASE UNCHANGED vars
    BY <2>1 DEF vars
  <2>2. CASE \E i \in Ingredients, balance \in Edits : UpdateIngredient(i, balance)
    BY <2>2 DEF UpdateIngredient
  <2>3. CASE \E m \in Menu : DeleteRecipe(m)
    BY <2>3 DEF DeleteRecipe, Upset
  <2>4. ASSUME NEW r \in Requests,
               NewRequest(r) \/ HandlerStep(r) \/ StockFail(r) \/ Crash(r)
        PROVE  (\E g : Moved(r, g)) /\ recipe' = recipe
    <3>1. InHand(req[r], orders, ledger, recipe)
      BY <1>3
    <3>2. CASE NewRequest(r)
      BY <3>1, <3>2, RequestsMove
    <3>3. CASE HandlerStep(r) \/ StockFail(r) \/ Crash(r)
      BY <1>1, <3>1, <3>3, HandlersMove
    <3>4. QED
      BY <2>4, <3>2, <3>3
  <2>5. QED
    BY <2>1, <2>2, <2>3, <2>4 DEF Next
<1>5. \A q \in Requests : req'[q] = req[q] =>
          /\ InHand(req'[q], orders', ledger', recipe')
          /\ GoesOn(req[q], req'[q])
  <2>1. ASSUME NEW q \in Requests, NEW h, h = req[q]
        PROVE  InHand(h, orders', ledger', recipe')
    <3>1. InHand(h, orders, ledger, recipe)
      BY <1>3, <2>1
    <3>2. QED
      BY <1>1, <1>4, <3>1, InHandStays
  <2>2. QED
    BY <2>1 DEF GoesOn
<1>6. \A r \in Requests : /\ InHand(req'[r], orders', ledger', recipe')
                          /\ GoesOn(req[r], req'[r])
  <2>1. CASE UNCHANGED req
    BY <1>5, <2>1
  <2>2. ASSUME NEW r \in Requests, NEW g, Moved(r, g), NEW q \in Requests
        PROVE  /\ InHand(req'[q], orders', ledger', recipe')
               /\ GoesOn(req[q], req'[q])
    <3>1. req' = [req EXCEPT ![r] = g] /\ GoesOn(req[r], g)
          /\ InHand(g, orders', ledger', recipe')
      BY <2>2 DEF Moved
    <3>2. CASE q = r
      <4>1. req'[q] = g
        BY <1>1, <3>1, <3>2
      <4>2. QED
        BY <3>1, <3>2, <4>1
    <3>3. CASE q # r
      <4>1. req'[q] = req[q]
        BY <1>1, <3>1, <3>3
      <4>2. QED
        BY <1>5, <4>1
    <3>4. QED
      BY <3>2, <3>3
  <2>3. QED
    BY <1>4, <2>1, <2>2
<1>7. QED
  BY <1>2, <1>3, <1>4, <1>6

LEMMA HandsStay ==
    ASSUME SInv, Hands, [Next]_vars
    PROVE  Hands'
<1>1. ASSUME ~Upset'
      PROVE  \A r \in Requests : InHand(req'[r], orders', ledger', recipe')
  BY <1>1, HandsStep
<1>2. QED
  BY <1>1 DEF Hands

\* A handler that has its order's dishes at hand and is not through deducts them.
LEMMA HandDeducts ==
    ASSUME Hands, NEW r \in Requests, req[r].kind = "create", req[r].pc # "insert",
           NEW i \in Ingredients
    PROVE  Deducting(req[r].order, i)
<1>1. CASE Upset
  BY <1>1 DEF Deducting
<1>2. CASE ~Upset
  <2>1. InHand(req[r], orders, ledger, recipe)
    BY <1>2 DEF Hands
  <2>2. CASE OnIt(req[r], req[r].order, i)
    BY <2>2 DEF Deducting
  <2>3. CASE ~OnIt(req[r], req[r].order, i)
    <3>1. Met(recipe, ledger, req[r].items, req[r].order, i)
      BY <2>1, <2>3 DEF InHand, OnIt
    <3>2. orders[req[r].order].items = req[r].items
      BY <2>1 DEF InHand
    <3>3. QED
      BY <3>1, <3>2 DEF Deducting
  <2>4. QED
    BY <2>2, <2>3
<1>3. QED
  BY <1>1, <1>2

LEMMA DeductingStays ==
    ASSUME SInv, Hands, [Next]_vars, NEW o \in DOMAIN orders, NEW i \in Ingredients,
           Deducting(o, i)
    PROVE  Deducting(o, i)'
<1> SUFFICES ASSUME ~Upset' PROVE Deducting(o, i)'
  BY DEF Deducting
<1>1. RowsStay /\ Hands'
  BY RowsAreAdded, HandsStay
<1>2. /\ ~Upset /\ recipe' = recipe
      /\ \A r \in Requests : /\ InHand(req[r], orders, ledger, recipe)
                             /\ InHand(req'[r], orders', ledger', recipe')
                             /\ GoesOn(req[r], req'[r])
  BY HandsStep
<1>3. CASE Met(recipe, ledger, orders[o].items, o, i)
  <2>1. RowFor(ledger[i], o) => RowFor(ledger'[i], o)
    BY <1>1 DEF RowsStay, RowFor
  <2>2. orders'[o].items = orders[o].items
    BY <1>1 DEF RowsStay
  <2>3. Met(recipe', ledger', orders'[o].items, o, i)
    BY <1>2, <1>3, <2>1, <2>2 DEF Met
  <2>4. QED
    BY <2>3 DEF Deducting
<1>4. ASSUME NEW r \in Requests, OnIt(req[r], o, i)
      PROVE  Deducting(o, i)'
  <2>1. req[r].kind = "create" /\ req[r].pc # "insert" /\ req[r].order = o
    BY <1>4 DEF OnIt
  <2>2. ~(req[r].pc = "next" /\ req[r].todo[i] <= 0)
    BY <1>4 DEF OnIt, SInv, TypeOK, Handler
  <2>3. req'[r].kind = "create" /\ req'[r].pc # "insert" /\ req'[r].order = o
    BY <1>2, <2>1, <2>2 DEF GoesOn
  <2>4. CASE OnIt(req'[r], o, i)
    BY <2>4 DEF Deducting
  <2>5. CASE ~OnIt(req'[r], o, i)
    <3>1. Met(recipe', ledger', req'[r].items, o, i)
      BY <1>2, <2>3, <2>5 DEF InHand, OnIt
    <3>2. orders'[o].items = req'[r].items
      BY <1>2, <2>3 DEF InHand
    <3>3. QED
      BY <3>1, <3>2 DEF Deducting
  <2>6. QED
    BY <2>4, <2>5
<1>5. QED
  BY <1>2, <1>3, <1>4 DEF Deducting

\* The deduction that create starts and nobody waits for skips no ingredient: each
\* that the order needs has its row, or a handler will still come to it, unless a
\* call failed or the recipes were changed.
THEOREM IngredientsKept == Spec => []Accepted /\ NothingSkipped
<1>1. Init => SInv /\ Hands
  <2> SUFFICES ASSUME Init PROVE Hands
    BY InitStock
  <2>1. \A r \in Requests : InHand(req[r], orders, ledger, recipe)
    BY DEF Init, InHand, Idle
  <2>2. QED
    BY <2>1 DEF Hands
<1>2. SInv /\ Hands /\ [Next]_vars => (SInv /\ Hands)'
  BY StockStep, HandsStay
<1>3. Spec => [](SInv /\ Hands)
  BY <1>1, <1>2, PTL DEF Spec
<1>4. SInv /\ Hands => Accepted
  BY HandDeducts DEF Accepted
<1>5. SInv /\ Hands /\ [Next]_vars
        => [\A o \in DOMAIN orders, i \in Ingredients : Deducting(o, i) => Deducting(o, i)']_vars
  BY DeductingStays
<1>6. QED
  BY <1>3, <1>4, <1>5, PTL DEF Spec, NothingSkipped

=============================================================================
