----------------------------- MODULE Catalogue ------------------------------
(***************************************************************************)
(* MenuService and AddonsService: a dish with its components, add-ons and  *)
(* groups of add-ons, and a group with its add-ons.  An update deletes the *)
(* rows of each kind that the request names, one kind after the other, and *)
(* then writes the dish with the new rows in one statement, which is       *)
(* refused as a whole when a row is.  Names, prices, pictures, the nested  *)
(* menu and the categories are left out.                                   *)
(***************************************************************************)
EXTENDS Handlers

CONSTANTS
    Dishes,
    Groups,     \* the groups of add-ons
    AddOns,
    Later,      \* the dishes, groups and add-ons that are not there from the beginning
    Requested   \* what an update may ask for: a set of parts by kind

VARIABLES
    items,      \* the rows MenuItem, AddOnGroup and AddOn that exist
    removed,    \* those that existed
    parts,      \* how many rows of each kind connect an item with a part
    promised,   \* history: the parts that the last success reported
    menuNotes   \* history: whether updates of an item overlapped, and the kinds
                \* whose rows an update has deleted before it failed

menuVars == <<items, removed, parts, promised, menuNotes>>

Owners == Dishes \cup Groups
Rows == Owners \cup AddOns

\* Components are texts of the dish; the other kinds refer to a row.
Kinds == {"component", "addOn", "group", "member"}
KindsOf(o) == IF o \in Dishes THEN {"component", "addOn", "group"} ELSE {"member"}
Things == AddOns \cup Groups \cup {"text"}

ASSUME CatalogueAssumption ==
    /\ Dishes \cap Groups = {}
    /\ \A q \in Requested : /\ \E o \in Owners : DOMAIN q \subseteq KindsOf(o)
                           /\ q \in [DOMAIN q -> SUBSET Things]

\* left: the kinds whose rows are still to be deleted.
MenuHandler == [pc : {"partsDelete", "partsWrite"}, item : Owners, ask : Requested,
                left : SUBSET Kinds]
    \cup [pc : {"itemRemove"}, item : Rows]

Updating(o) == {r \in Busy({"partsDelete", "partsWrite"}) : req[r].item = o}

NoteItem(o, notes) == menuNotes' = [menuNotes EXCEPT ![o] = @ \cup notes]

NoParts == [kind \in Kinds |-> [x \in Things |-> 0]]

-----------------------------------------------------------------------------
(* update, and updateAddOnGroup. *)

\* The kinds are deleted in this order.
InOrder(left) == CHOOSE kind \in left :
    LET place == [component |-> 1, addOn |-> 2, group |-> 3, member |-> 4] IN
    \A other \in left : place[kind] <= place[other]

UpdateItem(r, o, q) ==
    /\ o \in items
    /\ DOMAIN q \subseteq KindsOf(o)
    /\ Begin(r, "menu", [pc |-> IF DOMAIN q = {} THEN "partsWrite" ELSE "partsDelete",
                         item |-> o, ask |-> q, left |-> DOMAIN q])
    /\ NoteItem(o, IF Updating(o) # {} THEN {"overlap"} ELSE {})
    /\ UNCHANGED <<items, removed, parts, promised>>

\* Mutation of PartsDelete: the rows of the first kind only.
PartsDeleteFirst(r) ==
    LET h == req[r] IN
    /\ h.pc = "partsDelete"
    /\ parts' = [parts EXCEPT ![h.item][InOrder(h.left)] = [x \in Things |-> 0]]
    /\ Goto(r, "partsWrite")
    /\ UNCHANGED <<items, removed, promised, menuNotes>>

PartsDelete(r) ==
    LET h == req[r]
        kind == InOrder(h.left) IN
    /\ h.pc = "partsDelete"
    /\ parts' = [parts EXCEPT ![h.item][kind] = [x \in Things |-> 0]]
    /\ Become(r, [h EXCEPT !.left = @ \ {kind},
                           !.pc = IF h.left = {kind} THEN "partsWrite" ELSE @])
    /\ UNCHANGED <<items, removed, promised, menuNotes>>

\* The item or a part is gone, or a pair is there again: not so for components.
Rejected(o, q) ==
    \/ o \notin items
    \/ \E kind \in DOMAIN q : /\ kind # "component"
                              /\ \E x \in q[kind] : x \notin items \/ parts[o][kind][x] > 0

PartsWrite(r) ==
    LET o == req[r].item
        q == req[r].ask IN
    /\ req[r].pc = "partsWrite"
    /\ IF Rejected(o, q)
       THEN /\ NoteItem(o, DOMAIN q)
            /\ UNCHANGED <<parts, promised>>
       ELSE /\ parts' = [parts EXCEPT ![o] = [kind \in Kinds |->
                  IF kind \in DOMAIN q
                  THEN [x \in Things |-> @[kind][x] + IF x \in q[kind] THEN 1 ELSE 0]
                  ELSE @[kind]]]
            /\ promised' = [promised EXCEPT ![o] = [kind \in Kinds |->
                  IF kind \in DOMAIN q THEN q[kind] ELSE @[kind]]]
            /\ menuNotes' = [menuNotes EXCEPT ![o] = @ \ DOMAIN q]
    /\ End(r)
    /\ UNCHANGED <<items, removed>>

-----------------------------------------------------------------------------
(* create and remove. *)

\* create, createAddOnGroup and createAddOn: one statement, of no parts here.
CreateItem(x) ==
    /\ x \notin items \cup removed
    /\ Spend("newItem")
    /\ items' = items \cup {x}
    /\ UNCHANGED <<req, removed, parts, promised, menuNotes>>

RemoveItem(r, x) ==
    /\ x \in items
    /\ Begin(r, "remove", [pc |-> "itemRemove", item |-> x])
    /\ UNCHANGED menuVars

\* Mutation of ItemRemove: the rows that connect it are deleted, and not the item.
ItemRemoveParts(r) ==
    LET gone == req[r].item IN
    /\ req[r].pc = "itemRemove"
    /\ removed' = removed \cup {gone}
    /\ parts' = [o \in Owners |-> IF o = gone THEN NoParts
                    ELSE [kind \in Kinds |-> [parts[o][kind] EXCEPT ![gone] = 0]]]
    /\ promised' = [o \in Owners |-> [kind \in Kinds |->
                      IF o = gone THEN {} ELSE promised[o][kind] \ {gone}]]
    /\ End(r)
    /\ UNCHANGED <<items, menuNotes>>

\* The rows that connect it go with it, on either side.
ItemRemove(r) ==
    LET gone == req[r].item IN
    /\ req[r].pc = "itemRemove"
    /\ items' = items \ {gone}
    /\ removed' = removed \cup {gone}
    /\ parts' = [o \in Owners |-> IF o = gone THEN NoParts
                    ELSE [kind \in Kinds |-> [parts[o][kind] EXCEPT ![gone] = 0]]]
    /\ promised' = [o \in Owners |-> [kind \in Kinds |->
                      IF o = gone THEN {} ELSE promised[o][kind] \ {gone}]]
    /\ End(r)
    /\ UNCHANGED menuNotes

MenuFault(r) ==
    /\ req[r].pc \in {"partsDelete", "partsWrite"}
    /\ Throw(r)
    /\ NoteItem(req[r].item, DOMAIN req[r].ask \ req[r].left)
    /\ UNCHANGED <<items, removed, parts, promised>>

MenuInit ==
    /\ items = Rows \ Later
    /\ removed = {}
    /\ parts = [o \in Owners |-> NoParts]
    /\ promised = [o \in Owners |-> [kind \in Kinds |-> {}]]
    /\ menuNotes = [o \in Owners |-> {}]

MenuNext ==
    \/ \E r \in Requests :
          \/ PartsDelete(r) \/ PartsWrite(r) \/ ItemRemove(r) \/ MenuFault(r)
          \/ \E o \in Owners, q \in Requested : UpdateItem(r, o, q)
          \/ \E x \in Rows : RemoveItem(r, x)
    \/ \E x \in Rows : CreateItem(x)

-----------------------------------------------------------------------------
(* Properties. *)

MenuTypeOK ==
    /\ items \subseteq Rows
    /\ parts \in [Owners -> [Kinds -> [Things -> Nat]]]
    /\ promised \in [Owners -> [Kinds -> SUBSET Things]]
    /\ menuNotes \in [Owners -> SUBSET ({"overlap"} \cup Kinds)]
    /\ removed \subseteq Rows \ items

\* A dish, and a group, has of every kind the parts that the last success promised
\* for it, each once, or none: none only while an update that has deleted them is
\* at work, or after one has failed and until one succeeds.  A kind that no request
\* names is never touched.  Updates of one item that overlap are excused.
PartsWhole ==
    \A o \in items \cap Owners : "overlap" \notin menuNotes[o] =>
        \A kind \in KindsOf(o) :
            \/ parts[o][kind] = [x \in Things |-> IF x \in promised[o][kind] THEN 1 ELSE 0]
            \/ /\ parts[o][kind] = [x \in Things |-> 0]
               /\ \/ kind \in menuNotes[o]
                  \/ \E r \in Updating(o) : kind \in DOMAIN req[r].ask \ req[r].left
=============================================================================
