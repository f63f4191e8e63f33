-------------------------- MODULE DocumentsProofs --------------------------
(***************************************************************************)
(* Proofs about Documents for every value of its constants: the type       *)
(* invariant and each invariant that its run checks, and that only one     *)
(* branch can write tax invoices in a month.                               *)
(*                                                                         *)
(* Good says what a handler has established when it reaches a step, as far *)
(* as the documents and the clock show it.  A step of another handler      *)
(* either leaves that alone or sets raced or late.                         *)
(***************************************************************************)
EXTENDS Documents, FiniteSetTheorems, SequenceTheorems, TLAPS

Shape(h) ==
    /\ h.pc \in {"check", "number", "insert"} => h.kind \in Kinds /\ h.branch \in Branches
    /\ h.pc = "check" => h.kind = "invoice"
    /\ h.pc \in {"sum", "close"} => h.kind = "none" /\ h.of \in DOMAIN docs["shift"]

\* A receipt goes after those of its branch that have its date and were created
\* today.
ReceiptGood(h) ==
    h.pc = "insert" /\ h.kind = "receipt" /\ ~h.raced =>
        \A k \in DOMAIN docs["receipt"] :
            (/\ docs["receipt"][k].branch = h.branch
             /\ docs["receipt"][k].day = h.day
             /\ docs["receipt"][k].local = clock.local
             /\ docs["receipt"][k].number <= Limit["receipt"])
                => docs["receipt"][k].number < h.number

TicketGood(h) ==
    h.pc = "insert" /\ h.kind = "ticket" /\ ~h.raced =>
        \A k \in DOMAIN docs["ticket"] :
            (/\ docs["ticket"][k].branch = h.branch
             /\ docs["ticket"][k].local = clock.local)
                => docs["ticket"][k].number # h.number

\* The branch of a new shift has no open shift.
ShiftGood(h) ==
    h.pc \in {"number", "insert"} /\ h.kind = "shift" /\ ~h.raced => OpenShifts(h.branch) = {}

\* The payment of a new invoice has no valid invoice.
LiveGood(h) ==
    h.pc \in {"number", "insert"} /\ h.kind = "invoice" /\ ~h.raced => LiveInvoices(h) = {}

\* A new invoice has the number 1 or follows one of its branch.
NumberGood(h) ==
    h.pc = "insert" /\ h.kind = "invoice" =>
        /\ h.day = 0
        /\ h.number \in 1..(Len(docs["invoice"]) + 1)
        /\ h.number # 1 => /\ docs["invoice"] # << >>
                           /\ docs["invoice"][1].branch = h.branch

\* The payments added up are those of the shift.
TotalsGood(h) ==
    h.pc = "close" => /\ h.counted \subseteq DOMAIN docs["receipt"]
                      /\ \/ docs["shift"][h.of].late
                         \/ h.counted = PaymentsOf(h.of)

Good(h) == /\ Shape(h)
           /\ ReceiptGood(h) /\ TicketGood(h)
           /\ ShiftGood(h) /\ LiveGood(h) /\ NumberGood(h)
           /\ TotalsGood(h)

HandlersGood == \A r \in Requests : Good(req[r])

\* No document is from a day to come.
DaysOK == \A kind \in Kinds : \A k \in DOMAIN docs[kind] :
              docs[kind][k].local <= clock.local

InvoicesOK ==
    /\ InvoicesGapless
    /\ \A k \in DOMAIN docs["invoice"] :
           /\ docs["invoice"][k].day = 0
           /\ docs["invoice"][k].branch = docs["invoice"][1].branch

\* The totals of a shift are of payments that were there.
CountedOK == \A s \in DOMAIN docs["shift"] :
                 docs["shift"][s].counted \subseteq DOMAIN docs["receipt"]

DInv == /\ TypeOK /\ HandlersGood /\ DaysOK
        /\ ReceiptsInOrder /\ TicketsDistinct
        /\ OneOpenShift /\ OneLiveInvoice /\ InvoicesOK
        /\ CountedOK /\ ClosedShiftAdds

-----------------------------------------------------------------------------
(* Numbers. *)

\* A finite set of numbers has a greatest element: the elements above it are the
\* smallest of a set of finite sets.
LEMMA GreatestExists ==
    ASSUME NEW S \in SUBSET Nat, IsFiniteSet(S), S # {}
    PROVE  Greatest(S) # {}
<1> DEFINE Above(s) == {t \in S : t > s}
           T == {Above(s) : s \in S}
<1>1. /\ T \subseteq FiniteSubsetsOf(S)
      /\ T # {}
  <2>1. ASSUME NEW s \in S PROVE Above(s) \in FiniteSubsetsOf(S)
    <3>1. Above(s) \in SUBSET S
      OBVIOUS
    <3> HIDE DEF Above
    <3>2. QED
      BY <3>1, FS_Subset DEF FiniteSubsetsOf
  <2> HIDE DEF Above
  <2>2. QED
    BY <2>1
<1>2. IsWellFoundedOn(StrictSubsetOrdering(S), FiniteSubsetsOf(S))
  BY FS_StrictSubsetOrderingWellFounded
<1>3. \E x \in T : \A y \in T : ~(<<y, x>> \in StrictSubsetOrdering(S))
  <2> HIDE DEF T
  <2>1. QED
    BY <1>1, <1>2, WFMin
<1>4. PICK s \in S : \A y \in T : ~(<<y, Above(s)>> \in StrictSubsetOrdering(S))
  BY <1>3
<1>5. ASSUME NEW m \in S, m > s PROVE FALSE
  <2>1. Above(m) \in T
    OBVIOUS
  <2>2. /\ \A t \in Above(m) : t \in Above(s)
        /\ Above(s) \subseteq S /\ Above(m) \subseteq S
    BY <1>5
  <2>3. m \in Above(s) /\ m \notin Above(m)
    BY <1>5
  <2>4. Above(m) # Above(s)
    BY <2>3
  <2> HIDE DEF Above
  <2>5. <<Above(m), Above(s)>> \in StrictSubsetOrdering(S)
    BY <2>2, <2>4 DEF StrictSubsetOrdering
  <2>6. QED
    BY <2>1, <2>5, <1>4
<1>6. s \in Greatest(S)
  BY <1>5 DEF Greatest
<1>7. QED
  BY <1>6

\* The same for numbers sorted as text.
LEMMA LatestExists ==
    ASSUME NEW S \in SUBSET Nat, IsFiniteSet(S), S # {}, NEW limit \in Nat
    PROVE  Latest(S, limit) # {}
<1> DEFINE L == {n \in S : n <= limit}
<1>1. CASE L = {}
  <2>1. PICK n \in Greatest(S) : TRUE
    BY GreatestExists
  <2>2. n \in Latest(S, limit)
    BY <1>1, <2>1 DEF Greatest, Latest, SortsUpTo
  <2>3. QED
    BY <2>2
<1>2. CASE L # {}
  <2>1. L \in SUBSET S /\ L \in SUBSET Nat
    OBVIOUS
  <2>2. IsFiniteSet(L)
    <3> HIDE DEF L
    <3>1. QED
      BY <2>1, FS_Subset
  <2>3. PICK n \in Greatest(L) : TRUE
    <3> HIDE DEF L
    <3>1. QED
      BY <1>2, <2>1, <2>2, GreatestExists
  <2>4. n \in Latest(S, limit)
    BY <2>3 DEF Greatest, Latest, SortsUpTo
  <2>5. QED
    BY <2>4
<1>3. QED
  BY <1>1, <1>2

\* What findFirst returns is 0 or in the set.
LEMMA FirstRowIn ==
    ASSUME NEW S
    PROVE  FirstRow(S) \in S \cup {0} /\ (S # {} => FirstRow(S) \in S)
  BY DEF FirstRow

\* The rows of a table.
LEMMA RowType ==
    ASSUME TypeOK, NEW kind \in Kinds
    PROVE  /\ docs[kind] \in Seq(Doc)
           /\ DOMAIN docs[kind] = 1..Len(docs[kind]) /\ Len(docs[kind]) \in Nat
           /\ \A k \in DOMAIN docs[kind] : docs[kind][k] \in Doc
<1>1. docs[kind] \in Seq(Doc)
  BY DEF TypeOK
<1>2. QED
  BY <1>1

\* The documents of some rows have finitely many numbers.
LEMMA NumbersFinite ==
    ASSUME TypeOK, NEW kind \in Kinds, NEW D \in SUBSET DOMAIN docs[kind]
    PROVE  /\ IsFiniteSet({docs[kind][k].number : k \in D})
           /\ {docs[kind][k].number : k \in D} \subseteq Nat
<1>1. /\ docs[kind] \in Seq(Doc)
      /\ \A k \in D : docs[kind][k] \in Doc
  BY RowType
<1>2. \A k \in D : docs[kind][k].number \in Nat
  BY <1>1 DEF Doc
<1>3. IsFiniteSet(D)
  <2>1. D \subseteq 1..Len(docs[kind]) /\ Len(docs[kind]) \in Nat
    BY <1>1
  <2>2. QED
    BY <2>1, FS_Interval, FS_Subset
<1> DEFINE N == {docs[kind][k].number : k \in D}
           f == [k \in D |-> docs[kind][k].number]
<1>4. f \in Surjection(D, N)
  <2>1. f \in [D -> N]
    OBVIOUS
  <2>2. \A n \in N : \E k \in D : f[k] = n
    OBVIOUS
  <2> HIDE DEF N, f
  <2>3. QED
    BY <2>1, <2>2 DEF Surjection
<1>5. IsFiniteSet(N)
  <2> HIDE DEF N, f
  <2>1. QED
    BY <1>3, <1>4, FS_Surjection
<1>6. QED
  BY <1>2, <1>5

\* A receipt gets a number after all that the query of generateReceiptNumber
\* sees, as far as they fit their digits.
LEMMA ReceiptNumberIsNew ==
    ASSUME TypeOK, NEW h \in Handler, h.kind = "receipt"
    PROVE  /\ NextNumber(h) \in Nat
           /\ \A n \in ReceiptNumbers(h.branch) :
                  n <= Limit["receipt"] => n < NextNumber(h)
<1> DEFINE S == ReceiptNumbers(h.branch)
           limit == Limit["receipt"]
           n == FirstRow(Latest(S, limit))
<1>1. S \in SUBSET Nat /\ IsFiniteSet(S)
  <2> DEFINE D == {j \in DOMAIN docs["receipt"] : /\ docs["receipt"][j].branch = h.branch
                                                  /\ docs["receipt"][j].local = clock.local
                                                  /\ docs["receipt"][j].day = clock.utc}
  <2>1. S = {docs["receipt"][k].number : k \in D}
    BY DEF ReceiptNumbers
  <2>2. D \in SUBSET DOMAIN docs["receipt"] /\ "receipt" \in Kinds
    BY DEF Kinds
  <2> HIDE DEF S, D
  <2>3. QED
    BY <2>1, <2>2, NumbersFinite
<1>2. limit \in Nat /\ h.attempt \in Nat
  BY DocumentsAssumption DEF Handler
<1> HIDE DEF S, limit
<1>3. S # {} => n \in Latest(S, limit)
  BY <1>1, <1>2, LatestExists, FirstRowIn
<1>4. n \in Nat
  <2>1. Latest(S, limit) \subseteq Nat
    BY <1>1 DEF Latest
  <2>2. QED
    BY <2>1, FirstRowIn
<1>5. \A m \in S : m <= limit => m <= n
  BY <1>1, <1>2, <1>3, <1>4 DEF Latest, SortsUpTo
<1>6. NextNumber(h) = n + 1 + h.attempt
  BY DEF NextNumber, S, limit
<1> HIDE DEF n
<1>7. QED
  BY <1>1, <1>2, <1>4, <1>5, <1>6 DEF S, limit

\* A ticket gets a number after all of the day.
LEMMA TicketNumberIsNew ==
    ASSUME TypeOK, NEW h \in Handler, h.kind = "ticket"
    PROVE  /\ NextNumber(h) \in Nat
           /\ \A n \in TicketNumbers(h.branch) : n < NextNumber(h)
<1> DEFINE S == TicketNumbers(h.branch)
           n == FirstRow(Greatest(S))
<1>1. S \in SUBSET Nat /\ IsFiniteSet(S)
  <2> DEFINE D == {j \in DOMAIN docs["ticket"] : /\ docs["ticket"][j].branch = h.branch
                                                 /\ docs["ticket"][j].local = clock.local}
  <2>1. S = {docs["ticket"][k].number : k \in D}
    BY DEF TicketNumbers
  <2>2. D \in SUBSET DOMAIN docs["ticket"] /\ "ticket" \in Kinds
    BY DEF Kinds
  <2> HIDE DEF S, D
  <2>3. QED
    BY <2>1, <2>2, NumbersFinite
<1> HIDE DEF S
<1>2. S # {} => n \in Greatest(S)
  BY <1>1, GreatestExists, FirstRowIn
<1>3. n \in Nat
  <2>1. Greatest(S) \subseteq Nat
    BY <1>1 DEF Greatest
  <2>2. QED
    BY <2>1, FirstRowIn
<1>4. \A m \in S : m <= n
  BY <1>2 DEF Greatest
<1>5. NextNumber(h) = n + 1
  BY DEF NextNumber, S
<1> HIDE DEF n
<1>6. QED
  BY <1>1, <1>3, <1>4, <1>5 DEF S

\* An invoice gets the number 1 or one that follows an invoice of its branch.
LEMMA InvoiceNumberFits ==
    ASSUME TypeOK, InvoicesOK, NEW h \in Handler, h.kind = "invoice"
    PROVE  /\ NextNumber(h) \in 1..(Len(docs["invoice"]) + 1)
           /\ NextNumber(h) # 1 => /\ docs["invoice"] # << >>
                                   /\ docs["invoice"][1].branch = h.branch
<1> DEFINE S == InvoiceNumbers(h.branch)
           n == FirstRow(Latest(S, Limit["invoice"]))
<1>1. /\ DOMAIN docs["invoice"] = 1..Len(docs["invoice"])
      /\ Len(docs["invoice"]) \in Nat
  BY RowType DEF Kinds
<1>2. /\ S \subseteq 1..Len(docs["invoice"])
      /\ S # {} => docs["invoice"][1].branch = h.branch
  BY <1>1 DEF InvoicesOK, InvoicesGapless, InvoiceNumbers
<1> HIDE DEF S
<1>3. n \in S \cup {0}
  BY FirstRowIn DEF Latest
<1>4. NextNumber(h) = n + 1
  BY DEF NextNumber, S
<1> HIDE DEF n
<1>5. CASE n = 0
  BY <1>1, <1>4, <1>5
<1>6. CASE n \in S
  <2>1. Len(docs["invoice"]) # 0 /\ n \in 1..Len(docs["invoice"])
    BY <1>1, <1>2, <1>6
  <2>2. docs["invoice"] # << >>
    BY <2>1
  <2>3. QED
    BY <1>1, <1>2, <1>4, <1>6, <2>1, <2>2
<1>7. QED
  BY <1>3, <1>5, <1>6

LEMMA NextNumberType ==
    ASSUME TypeOK, InvoicesOK, NEW h \in Handler
    PROVE  NextNumber(h) \in Nat
<1>1. CASE h.kind = "receipt"
  BY <1>1, ReceiptNumberIsNew
<1>2. CASE h.kind = "ticket"
  BY <1>2, TicketNumberIsNew
<1>3. CASE h.kind = "invoice"
  BY <1>3, InvoiceNumberFits
<1>4. CASE h.kind \notin {"receipt", "ticket", "invoice"}
  <2>1. NextNumber(h) = ShiftsToday(h.branch) + 1
    <3>1. h.kind # "receipt" /\ h.kind # "ticket" /\ h.kind # "invoice"
      BY <1>4
    <3>2. QED
      BY <3>1, Zenon DEF NextNumber
  <2> DEFINE D == {k \in DOMAIN docs["shift"] : /\ docs["shift"][k].branch = h.branch
                                                /\ docs["shift"][k].local = clock.local}
  <2>2. D \in SUBSET (1..Len(docs["shift"])) /\ Len(docs["shift"]) \in Nat
    BY RowType DEF Kinds
  <2>3. ShiftsToday(h.branch) = Cardinality(D)
    BY DEF ShiftsToday
  <2> HIDE DEF D
  <2>4. Cardinality(D) \in Nat
    <3>1. IsFiniteSet(1..Len(docs["shift"]))
      BY <2>2, FS_Interval
    <3>2. IsFiniteSet(D)
      BY <3>1, <2>2, FS_Subset
    <3>3. QED
      BY <3>2, FS_CardinalityType
  <2>5. QED
    BY <2>1, <2>3, <2>4
<1>5. QED
  BY <1>1, <1>2, <1>3, <1>4

-----------------------------------------------------------------------------
(* Steps that change one slot and no document. *)

LEMMA IdleGood == Idle \in Handler /\ Good(Idle)
<1>1. Idle \in Handler
  BY DocumentsAssumption DEF Idle, Handler, Kinds
<1>2. Idle.pc = "idle"
  BY DEF Idle
<1>3. QED
  BY <1>1, <1>2 DEF Good, Shape, ReceiptGood, TicketGood, ShiftGood, LiveGood,
                    NumberGood, TotalsGood

\* What a handler has established does not depend on the other slots.
LEMMA SlotKeeps ==
    ASSUME DInv, NEW r \in Requests, NEW h \in Handler, Good(h),
           req' = [req EXCEPT ![r] = h],
           UNCHANGED <<docs, clock>>, refused' \subseteq Kinds \cup {"none"}
    PROVE  DInv'
<1>1. TypeOK'
  BY DEF DInv, TypeOK
<1>2. /\ req'[r] = h
      /\ \A q \in Requests \ {r} : req'[q] = req[q]
  BY DEF DInv, TypeOK
<1>3. HandlersGood'
  <2> SUFFICES ASSUME NEW q \in Requests PROVE Good(req[q])'
    BY DEF HandlersGood
  <2>1. Good(req'[q])
    BY <1>2 DEF DInv, HandlersGood
  <2>2. \A s : PaymentsOf(s)' = PaymentsOf(s)
    BY DEF PaymentsOf
  <2>3. QED
    BY <2>1, <2>2 DEF Good, Shape, ReceiptGood, TicketGood, ShiftGood, LiveGood,
                      NumberGood, TotalsGood, OpenShifts, LiveInvoices
<1>4. (/\ DaysOK /\ ReceiptsInOrder /\ TicketsDistinct /\ OneOpenShift
       /\ OneLiveInvoice /\ InvoicesOK /\ CountedOK /\ ClosedShiftAdds)'
  BY DEF DInv, DaysOK, ReceiptsInOrder, TicketsDistinct, OneOpenShift, OneLiveInvoice,
         InvoicesOK, InvoicesGapless, CountedOK, ClosedShiftAdds
<1>5. QED
  BY <1>1, <1>3, <1>4 DEF DInv

LEMMA EndKeeps ==
    ASSUME DInv, NEW r \in Requests, End(r),
           UNCHANGED <<docs, clock>>, refused' \subseteq Kinds \cup {"none"}
    PROVE  DInv'
  BY IdleGood, SlotKeeps DEF End

\* A handler that starts has established nothing but what its first query needs.
LEMMA BeginKeeps ==
    ASSUME DInv, NEW r \in Requests, NEW h \in Handler, Begin(r, h),
           h.pc \in {"number", "check", "sum"}, Shape(h), ShiftGood(h),
           h.pc = "number" => h.kind # "invoice",
           UNCHANGED <<docs, clock, refused>>
    PROVE  DInv'
<1>1. Good(h)
  BY DEF Good, ReceiptGood, TicketGood, LiveGood, NumberGood, TotalsGood
<1>2. req' = [req EXCEPT ![r] = h]
  BY DEF Begin
<1>3. refused' \subseteq Kinds \cup {"none"}
  BY DEF DInv, TypeOK
<1>4. QED
  BY <1>1, <1>2, <1>3, SlotKeeps

LEMMA NewRequestKeeps ==
    ASSUME DInv, NEW r \in Requests, NEW b \in Branches, NewRequest(r, b)
    PROVE  DInv'
<1>1. ASSUME NEW s \in {0} \cup DOMAIN docs["shift"], RequestReceipt(r, b, s)
      PROVE  DInv'
  <2> DEFINE h == [Idle EXCEPT !.pc = "number", !.kind = "receipt", !.branch = b, !.of = s]
  <2>1. s \in Nat
    BY RowType DEF DInv, Kinds
  <2>2. /\ h \in Handler /\ h.pc = "number" /\ h.kind = "receipt" /\ h.branch = b
    BY <2>1, IdleGood DEF Idle, Handler, Kinds
  <2>3. Begin(r, h) /\ UNCHANGED <<docs, clock, refused>>
    BY <1>1 DEF RequestReceipt
  <2> HIDE DEF h
  <2>4. Shape(h) /\ ShiftGood(h)
    BY <2>2 DEF Shape, ShiftGood, Kinds
  <2>5. QED
    BY <2>2, <2>3, <2>4, BeginKeeps
<1>2. CASE RequestTicket(r, b)
  <2> DEFINE h == [Idle EXCEPT !.pc = "number", !.kind = "ticket", !.branch = b]
  <2>1. /\ h \in Handler /\ h.pc = "number" /\ h.kind = "ticket" /\ h.branch = b
    BY IdleGood DEF Idle, Handler, Kinds
  <2>2. Begin(r, h) /\ UNCHANGED <<docs, clock, refused>>
    BY <1>2 DEF RequestTicket
  <2> HIDE DEF h
  <2>3. Shape(h) /\ ShiftGood(h)
    BY <2>1 DEF Shape, ShiftGood, Kinds
  <2>4. QED
    BY <2>1, <2>2, <2>3, BeginKeeps
<1>3. CASE OpenShift(r, b)
  <2> DEFINE h == [Idle EXCEPT !.pc = "number", !.kind = "shift", !.branch = b]
  <2>1. /\ h \in Handler /\ h.pc = "number" /\ h.kind = "shift" /\ h.branch = b
    BY IdleGood DEF Idle, Handler, Kinds
  <2>2. /\ Begin(r, h) /\ UNCHANGED <<docs, clock, refused>>
        /\ OpenShifts(b) = {}
    BY <1>3 DEF OpenShift
  <2> HIDE DEF h
  <2>3. Shape(h) /\ ShiftGood(h)
    BY <2>1, <2>2 DEF Shape, ShiftGood, Kinds
  <2>4. QED
    BY <2>1, <2>2, <2>3, BeginKeeps
<1>4. ASSUME NEW p \in DOMAIN docs["receipt"], RequestInvoice(r, b, p)
      PROVE  DInv'
  <2> DEFINE h == [Idle EXCEPT !.pc = "check", !.kind = "invoice", !.branch = b, !.of = p]
  <2>1. p \in Nat
    BY RowType DEF DInv, Kinds
  <2>2. /\ h \in Handler /\ h.pc = "check" /\ h.kind = "invoice" /\ h.branch = b
    BY <2>1, IdleGood DEF Idle, Handler, Kinds
  <2>3. Begin(r, h) /\ UNCHANGED <<docs, clock, refused>>
    BY <1>4 DEF RequestInvoice
  <2> HIDE DEF h
  <2>4. Shape(h) /\ ShiftGood(h)
    BY <2>2 DEF Shape, ShiftGood, Kinds
  <2>5. QED
    BY <2>2, <2>3, <2>4, BeginKeeps
<1>5. QED
  BY <1>1, <1>2, <1>3, <1>4 DEF NewRequest

LEMMA CloseShiftKeeps ==
    ASSUME DInv, NEW r \in Requests, NEW s \in DOMAIN docs["shift"], CloseShift(r, s)
    PROVE  DInv'
<1> DEFINE h == [Idle EXCEPT !.pc = "sum", !.of = s]
<1>1. s \in Nat
  BY RowType DEF DInv, Kinds
<1>2. /\ h \in Handler /\ h.pc = "sum" /\ h.kind = "none" /\ h.of = s
  BY <1>1, IdleGood DEF Idle, Handler, Kinds
<1>3. Begin(r, h) /\ UNCHANGED <<docs, clock, refused>>
  BY DEF CloseShift
<1> HIDE DEF h
<1>4. Shape(h) /\ ShiftGood(h)
  BY <1>2 DEF Shape, ShiftGood, Kinds
<1>5. QED
  BY <1>2, <1>3, <1>4, BeginKeeps

LEMMA CheckInvoiceKeeps ==
    ASSUME DInv, NEW r \in Requests, CheckInvoice(r)
    PROVE  DInv'
<1>1. refused' \subseteq Kinds \cup {"none"} /\ UNCHANGED <<docs, clock>>
  BY DEF DInv, TypeOK, CheckInvoice
<1>2. CASE End(r)
  BY <1>1, <1>2, EndKeeps
<1>3. CASE /\ LiveInvoices(req[r]) = {}
           /\ req' = [req EXCEPT ![r].pc = "number", ![r].raced = FALSE]
  <2> DEFINE h == [req[r] EXCEPT !.pc = "number", !.raced = FALSE]
  <2>1. /\ req[r] \in Handler /\ req[r].pc = "check" /\ Shape(req[r])
        /\ req \in [Requests -> Handler]
    BY DEF DInv, TypeOK, CheckInvoice, HandlersGood, Good
  <2>2. /\ h \in Handler /\ h.pc = "number" /\ h.kind = req[r].kind
        /\ h.branch = req[r].branch /\ h.of = req[r].of
    BY <2>1 DEF Handler
  <2>3. req' = [req EXCEPT ![r] = h]
    BY <1>3, <2>1
  <2> HIDE DEF h
  <2>4. Shape(h) /\ h.kind = "invoice"
    BY <2>1, <2>2 DEF Shape
  <2>5. LiveInvoices(h) = {}
    BY <1>3, <2>2 DEF LiveInvoices
  <2>6. Good(h)
    BY <2>2, <2>4, <2>5 DEF Good, ReceiptGood, TicketGood, ShiftGood, LiveGood,
                            NumberGood, TotalsGood
  <2>7. QED
    BY <1>1, <2>2, <2>3, <2>6, SlotKeeps
<1>4. QED
  BY <1>2, <1>3 DEF CheckInvoice

LEMMA ReadNumberKeeps ==
    ASSUME DInv, NEW r \in Requests, ReadNumber(r)
    PROVE  DInv'
<1> DEFINE g == req[r]
           n == NextNumber(g)
           day == IF g.kind \in {"receipt", "shift"} THEN clock.utc ELSE 0
           raced == g.kind \notin {"receipt", "ticket"} /\ g.raced
           h == [g EXCEPT !.pc = "insert", !.number = n, !.day = day, !.raced = raced]
<1>1. /\ req \in [Requests -> Handler] /\ g \in Handler /\ g.pc = "number"
      /\ Good(g) /\ TypeOK /\ InvoicesOK
  BY DEF DInv, TypeOK, ReadNumber, HandlersGood
<1>2. n \in Nat
  BY <1>1, NextNumberType
<1>3. day \in Nat /\ raced \in BOOLEAN
  BY <1>1 DEF TypeOK, Handler
<1>4. req' = [req EXCEPT ![r] = h]
  BY <1>1 DEF ReadNumber
<1>5. refused' \subseteq Kinds \cup {"none"} /\ UNCHANGED <<docs, clock>>
  BY DEF DInv, TypeOK, ReadNumber
<1> HIDE DEF n, g
<1>6. /\ h \in Handler /\ h.pc = "insert" /\ h.kind = g.kind /\ h.branch = g.branch
      /\ h.of = g.of /\ h.number = n
      /\ h.kind = "receipt" => h.day = clock.utc
      /\ h.kind = "invoice" => h.day = 0
      /\ h.kind \in {"shift", "invoice"} => h.raced = g.raced
  BY <1>1, <1>2, <1>3 DEF Handler
<1> HIDE DEF h
<1>7. Shape(h)
  BY <1>1, <1>6 DEF Good, Shape
<1>8. ReceiptGood(h)
  <2> SUFFICES ASSUME h.kind = "receipt", NEW k \in DOMAIN docs["receipt"],
                      docs["receipt"][k].branch = h.branch,
                      docs["receipt"][k].day = h.day,
                      docs["receipt"][k].local = clock.local,
                      docs["receipt"][k].number <= Limit["receipt"]
               PROVE  docs["receipt"][k].number < h.number
    BY DEF ReceiptGood
  <2>1. docs["receipt"][k].number \in ReceiptNumbers(g.branch)
    BY <1>6 DEF ReceiptNumbers
  <2>2. QED
    BY <1>1, <1>6, <2>1, ReceiptNumberIsNew DEF n
<1>9. TicketGood(h)
  <2> SUFFICES ASSUME h.kind = "ticket", NEW k \in DOMAIN docs["ticket"],
                      docs["ticket"][k].branch = h.branch,
                      docs["ticket"][k].local = clock.local
               PROVE  docs["ticket"][k].number # h.number
    BY DEF TicketGood
  <2>1. docs["ticket"][k].number \in TicketNumbers(g.branch)
    BY <1>6 DEF TicketNumbers
  <2>2. docs["ticket"][k].number < n
    BY <1>1, <1>6, <2>1, TicketNumberIsNew DEF n
  <2>3. docs["ticket"][k].number \in Nat
    BY <1>1, RowType DEF Kinds, Doc
  <2>4. QED
    BY <1>2, <1>6, <2>2, <2>3
<1>10. ShiftGood(h)
  BY <1>1, <1>6 DEF Good, ShiftGood
<1>11. LiveGood(h)
  BY <1>1, <1>6 DEF Good, LiveGood, LiveInvoices
<1>12. NumberGood(h)
  BY <1>1, <1>6, InvoiceNumberFits DEF NumberGood, n
<1>13. Good(h)
  BY <1>6, <1>7, <1>8, <1>9, <1>10, <1>11, <1>12 DEF Good, TotalsGood
<1>14. QED
  BY <1>4, <1>5, <1>6, <1>13, SlotKeeps

LEMMA CollideKeeps ==
    ASSUME DInv, NEW r \in Requests, Collide(r)
    PROVE  DInv'
<1>1. /\ req \in [Requests -> Handler] /\ req[r] \in Handler /\ req[r].pc = "insert"
      /\ Good(req[r])
  BY DEF DInv, TypeOK, Collide, HandlersGood
<1>2. refused' \subseteq Kinds \cup {"none"} /\ UNCHANGED <<docs, clock>>
  BY <1>1 DEF DInv, TypeOK, Collide, Handler
<1>3. CASE End(r)
  BY <1>2, <1>3, EndKeeps
<1>4. CASE /\ MayRetry(req[r])
           /\ req' = [req EXCEPT ![r] = [req[r] EXCEPT !.pc = "number",
                                                       !.attempt = req[r].attempt + 1]]
  <2> DEFINE h == [req[r] EXCEPT !.pc = "number", !.attempt = req[r].attempt + 1]
  <2>1. req[r].attempt + 1 \in 0..(MaxRetries - 1)
    BY <1>1, <1>4, DocumentsAssumption DEF MayRetry, Handler
  <2>2. /\ h \in Handler /\ h.pc = "number" /\ h.kind = "receipt"
        /\ h.branch = req[r].branch
    BY <1>1, <1>4, <2>1 DEF Handler, MayRetry
  <2>3. req' = [req EXCEPT ![r] = h]
    BY <1>4
  <2> HIDE DEF h
  <2>4. Good(h)
    BY <1>1, <2>2 DEF Good, Shape, ReceiptGood, TicketGood, ShiftGood, LiveGood,
                      NumberGood, TotalsGood, Kinds
  <2>5. QED
    BY <1>2, <2>2, <2>3, <2>4, SlotKeeps
<1>5. QED
  BY <1>3, <1>4 DEF Collide

LEMMA SumShiftKeeps ==
    ASSUME DInv, NEW r \in Requests, SumShift(r)
    PROVE  DInv'
<1> DEFINE paid == PaymentsOf(req[r].of)
           h == [req[r] EXCEPT !.pc = "close", !.counted = paid]
<1>1. /\ req \in [Requests -> Handler] /\ req[r] \in Handler /\ req[r].pc = "sum"
      /\ Good(req[r])
  BY DEF DInv, TypeOK, SumShift, HandlersGood
<1>2. refused' \subseteq Kinds \cup {"none"} /\ UNCHANGED <<docs, clock>>
  BY DEF DInv, TypeOK, SumShift
<1>3. paid \subseteq Nat /\ paid \subseteq DOMAIN docs["receipt"]
  BY RowType DEF DInv, PaymentsOf, Kinds
<1>4. req' = [req EXCEPT ![r] = h]
  BY <1>1 DEF SumShift
<1> HIDE DEF paid
<1>5. /\ h \in Handler /\ h.pc = "close" /\ h.kind = req[r].kind
      /\ h.of = req[r].of /\ h.counted = paid
  BY <1>1, <1>3 DEF Handler
<1> HIDE DEF h
<1>6. TotalsGood(h)
  <2>1. h.counted = PaymentsOf(h.of)
    BY <1>5 DEF paid
  <2>2. QED
    BY <1>3, <1>5, <2>1 DEF TotalsGood
<1>7. Good(h)
  BY <1>1, <1>5, <1>6 DEF Good, Shape, ReceiptGood, TicketGood, ShiftGood, LiveGood,
                          NumberGood
<1>8. QED
  BY <1>2, <1>4, <1>5, <1>7, SlotKeeps

-----------------------------------------------------------------------------
(* Steps that change documents. *)

\* Two versions of a document that differ in late at most.
Alike(d, e) ==
    /\ d.branch = e.branch /\ d.day = e.day /\ d.local = e.local
    /\ d.number = e.number /\ d.of = e.of /\ d.status = e.status
    /\ d.counted = e.counted /\ d.raced = e.raced

LEMMA DisturbedType ==
    ASSUME TypeOK, NEW s \in Nat
    PROVE  /\ Disturbed(s) \in Seq(Doc)
           /\ DOMAIN Disturbed(s) = DOMAIN docs["shift"]
           /\ \A k \in DOMAIN docs["shift"] :
                  /\ Alike(Disturbed(s)[k], docs["shift"][k])
                  /\ Disturbed(s)[k].late <=> (docs["shift"][k].late \/ (k = s /\ Summed(s)))
<1> DEFINE n == Len(docs["shift"])
           T == docs["shift"]
<1>1. /\ T \in Seq(Doc) /\ DOMAIN T = 1..n /\ n \in Nat
      /\ \A k \in DOMAIN T : T[k] \in Doc
  BY RowType DEF Kinds
<1>2. ASSUME NEW k \in DOMAIN T
      PROVE  /\ Disturbed(s)[k] \in Doc
             /\ Alike(Disturbed(s)[k], T[k])
             /\ Disturbed(s)[k].late <=> (T[k].late \/ (k = s /\ Summed(s)))
  <2>1. Disturbed(s)[k] = IF k = s /\ Summed(s) THEN [T[k] EXCEPT !.late = TRUE] ELSE T[k]
    BY DEF Disturbed
  <2>2. T[k] \in Doc
    BY <1>1
  <2> HIDE DEF T
  <2>3. CASE k = s /\ Summed(s)
    BY <2>1, <2>2, <2>3 DEF Doc, Alike
  <2>4. CASE ~(k = s /\ Summed(s))
    BY <2>1, <2>2, <2>4 DEF Doc, Alike
  <2>5. QED
    BY <2>3, <2>4
<1>3. DOMAIN Disturbed(s) = 1..n
  BY <1>1 DEF Disturbed
<1>4. Disturbed(s) \in [1..n -> Doc]
  BY <1>1, <1>2, <1>3 DEF Disturbed
<1>5. QED
  BY <1>1, <1>2, <1>3, <1>4

\* What Insert does to the tables and to the other slots.
LEMMA InsertEffect ==
    ASSUME DInv, NEW r \in Requests, Insert(r)
    PROVE  /\ req[r] \in Handler /\ req[r].pc = "insert" /\ Good(req[r])
           /\ req[r].kind \in Kinds /\ req[r].branch \in Branches
           /\ ~Taken(req[r])
           /\ NewDoc(req[r]) \in Doc
           /\ docs' \in [Kinds -> Seq(Doc)]
           /\ docs'[req[r].kind] = Append(docs[req[r].kind], NewDoc(req[r]))
           /\ \A kind \in Kinds \ {req[r].kind} :
                  DOMAIN docs'[kind] = DOMAIN docs[kind]
           /\ \A kind \in Kinds : \A k \in DOMAIN docs[kind] :
                  /\ Alike(docs'[kind][k], docs[kind][k])
                  /\ docs'[kind][k].late <=>
                        (\/ docs[kind][k].late
                         \/ /\ kind = "shift" /\ req[r].kind = "receipt"
                            /\ k = req[r].of /\ Summed(k))
           /\ UNCHANGED <<clock, refused>>
<1> DEFINE h == req[r]
           d == NewDoc(h)
<1>1. /\ h \in Handler /\ h.pc = "insert" /\ Good(h) /\ TypeOK /\ ~Taken(h)
      /\ UNCHANGED <<clock, refused>>
  BY DEF DInv, TypeOK, Insert, HandlersGood
<1>2. docs' = IF h.kind = "receipt"
              THEN [docs EXCEPT !["receipt"] = Append(@, d), !["shift"] = Disturbed(h.of)]
              ELSE [docs EXCEPT ![h.kind] = Append(@, d)]
  BY DEF Insert
<1> HIDE DEF h
<1>3. h.kind \in Kinds /\ h.branch \in Branches
  BY <1>1 DEF Good, Shape
<1>4. d \in Doc
  BY <1>1, <1>3 DEF NewDoc, NewStatus, Doc, Handler, TypeOK, Kinds
<1> HIDE DEF d
<1>5. /\ docs \in [Kinds -> Seq(Doc)]
      /\ \A kind \in Kinds : /\ docs[kind] \in Seq(Doc)
                             /\ DOMAIN docs[kind] = 1..Len(docs[kind])
                             /\ Len(docs[kind]) \in Nat
  BY <1>1, RowType DEF TypeOK
<1>6. \A kind \in Kinds :
         /\ Append(docs[kind], d) \in Seq(Doc)
         /\ \A k \in DOMAIN docs[kind] : Append(docs[kind], d)[k] = docs[kind][k]
  BY <1>4, <1>5, AppendProperties
<1>7. CASE h.kind # "receipt"
  <2>1. docs' = [docs EXCEPT ![h.kind] = Append(docs[h.kind], d)]
    BY <1>2, <1>7
  <2>2. /\ docs' \in [Kinds -> Seq(Doc)]
        /\ docs'[h.kind] = Append(docs[h.kind], d)
        /\ \A kind \in Kinds \ {h.kind} : docs'[kind] = docs[kind]
    BY <1>3, <1>5, <1>6, <2>1
  <2>3. \A kind \in Kinds : \A k \in DOMAIN docs[kind] : docs'[kind][k] = docs[kind][k]
    BY <1>6, <2>2
  <2>4. \A kind \in Kinds : \A k \in DOMAIN docs[kind] :
           Alike(docs'[kind][k], docs[kind][k]) /\ (docs'[kind][k].late <=> docs[kind][k].late)
    BY <2>3 DEF Alike
  <2>5. QED
    BY <1>1, <1>3, <1>4, <1>7, <2>2, <2>4 DEF h, d
<1>8. CASE h.kind = "receipt"
  <2>1. docs' = [docs EXCEPT !["receipt"] = Append(docs["receipt"], d),
                             !["shift"] = Disturbed(h.of)]
    BY <1>2, <1>8
  <2>2. h.of \in Nat
    BY <1>1 DEF Handler
  <2>3. Disturbed(h.of) \in Seq(Doc)
    BY <1>1, <2>2, DisturbedType
  <2>4. /\ docs' \in [Kinds -> Seq(Doc)]
        /\ docs'["receipt"] = Append(docs["receipt"], d)
        /\ docs'["shift"] = Disturbed(h.of)
        /\ \A kind \in Kinds \ {"receipt", "shift"} : docs'[kind] = docs[kind]
    BY <1>5, <1>6, <2>1, <2>3 DEF Kinds
  <2>5. ASSUME NEW kind \in Kinds, kind # "shift", NEW k \in DOMAIN docs[kind]
        PROVE  docs'[kind][k] = docs[kind][k]
    BY <1>6, <2>4, <2>5
  <2>6. \A k \in DOMAIN docs["shift"] :
           /\ Alike(docs'["shift"][k], docs["shift"][k])
           /\ docs'["shift"][k].late <=> (docs["shift"][k].late \/ (k = h.of /\ Summed(k)))
    BY <1>1, <2>2, <2>4, DisturbedType
  <2>7. /\ DOMAIN docs'["shift"] = DOMAIN docs["shift"]
    BY <1>1, <2>2, <2>4, DisturbedType
  <2>8. \A kind \in Kinds : \A k \in DOMAIN docs[kind] :
                  /\ Alike(docs'[kind][k], docs[kind][k])
                  /\ docs'[kind][k].late <=>
                        (\/ docs[kind][k].late
                         \/ /\ kind = "shift" /\ h.kind = "receipt"
                            /\ k = h.of /\ Summed(k))
    <3> SUFFICES ASSUME NEW kind \in Kinds, NEW k \in DOMAIN docs[kind]
                 PROVE  /\ Alike(docs'[kind][k], docs[kind][k])
                        /\ docs'[kind][k].late <=>
                              (\/ docs[kind][k].late
                               \/ /\ kind = "shift" /\ h.kind = "receipt"
                                  /\ k = h.of /\ Summed(k))
      OBVIOUS
    <3>1. CASE kind = "shift"
      BY <1>8, <2>6, <3>1
    <3>2. CASE kind # "shift"
      <4>1. docs'[kind][k] = docs[kind][k]
        BY <2>5, <3>2
      <4>2. QED
        BY <3>2, <4>1 DEF Alike
    <3>3. QED
      BY <3>1, <3>2
  <2>9. \A kind \in Kinds \ {h.kind} : DOMAIN docs'[kind] = DOMAIN docs[kind]
    BY <1>8, <2>4, <2>7
  <2>10. QED
    BY <1>1, <1>3, <1>4, <1>8, <2>4, <2>8, <2>9 DEF h, d
<1>9. QED
  BY <1>7, <1>8

\* The other slots see that a document of their kind was inserted.
LEMMA InsertSlots ==
    ASSUME DInv, NEW r \in Requests, Insert(r)
    PROVE  /\ req' \in [Requests -> Handler]
           /\ req'[r] = Idle
           /\ \A q \in Requests \ {r} :
                 /\ req'[q].pc = req[q].pc /\ req'[q].kind = req[q].kind
                 /\ req'[q].branch = req[q].branch /\ req'[q].of = req[q].of
                 /\ req'[q].day = req[q].day /\ req'[q].number = req[q].number
                 /\ req'[q].counted = req[q].counted
                 /\ req'[q].raced <=> (req[q].raced \/ Rivals(req[r], req[q]))
<1> DEFINE h == req[r]
           u(q) == [req[q] EXCEPT !.contended = @ \/ req[q].kind = h.kind,
                                  !.raced = @ \/ Rivals(h, req[q])]
<1>1. req' = [q \in Requests |-> IF q = r THEN Idle ELSE u(q)]
  BY DEF Insert
<1>2. ASSUME NEW q \in Requests
      PROVE  /\ u(q) \in Handler
             /\ u(q).pc = req[q].pc /\ u(q).kind = req[q].kind
             /\ u(q).branch = req[q].branch /\ u(q).of = req[q].of
             /\ u(q).day = req[q].day /\ u(q).number = req[q].number
             /\ u(q).counted = req[q].counted
             /\ u(q).raced <=> (req[q].raced \/ Rivals(req[r], req[q]))
  <2>1. req[q] \in Handler
    BY DEF DInv, TypeOK
  <2> DEFINE c == req[q].contended \/ req[q].kind = h.kind
             x == req[q].raced \/ Rivals(h, req[q])
  <2>2. c \in BOOLEAN /\ x \in BOOLEAN
    OBVIOUS
  <2>3. u(q) = [req[q] EXCEPT !.contended = c, !.raced = x]
    OBVIOUS
  <2> HIDE DEF c, u
  <2>4. x = (req[q].raced \/ Rivals(req[r], req[q]))
    OBVIOUS
  <2> HIDE DEF x
  <2>5. QED
    BY <2>1, <2>2, <2>3, <2>4 DEF Handler
<1> HIDE DEF u, h
<1>3. QED
  BY <1>1, <1>2, IdleGood

\* The row that request h inserts.
RowOf(d, h) ==
    /\ d.branch = h.branch /\ d.day = h.day /\ d.local = clock.local
    /\ d.number = h.number /\ d.of = h.of /\ d.status = NewStatus(h.kind)
    /\ d.raced = h.raced /\ d.late = FALSE /\ d.counted = {}

\* A row after Insert is an old one or the new one.
LEMMA InsertRows ==
    ASSUME DInv, NEW r \in Requests, Insert(r), NEW kind \in Kinds
    PROVE  /\ DOMAIN docs[kind] \subseteq DOMAIN docs'[kind]
           /\ DOMAIN docs[kind] = 1..Len(docs[kind]) /\ Len(docs[kind]) \in Nat
           /\ \A k \in DOMAIN docs'[kind] :
                 k \notin DOMAIN docs[kind] =>
                    /\ kind = req[r].kind
                    /\ k = Len(docs[kind]) + 1
                    /\ RowOf(docs'[kind][k], req[r])
<1>1. /\ DOMAIN docs[kind] = 1..Len(docs[kind]) /\ Len(docs[kind]) \in Nat
      /\ docs[kind] \in Seq(Doc)
  BY RowType DEF DInv
<1>2. CASE kind = req[r].kind
  <2> DEFINE s == docs[kind]
             d == NewDoc(req[r])
  <2>1. d \in Doc /\ docs'[kind] = Append(s, d)
    BY <1>2, InsertEffect
  <2>3. RowOf(d, req[r])
    BY DEF NewDoc, RowOf
  <2> HIDE DEF d
  <2>2. /\ DOMAIN docs'[kind] = 1..(Len(s) + 1)
        /\ docs'[kind][Len(s) + 1] = d
    BY <1>1, <2>1, AppendProperties
  <2>4. QED
    BY <1>1, <1>2, <2>2, <2>3
<1>3. CASE kind # req[r].kind
  BY <1>1, <1>3, InsertEffect
<1>4. QED
  BY <1>2, <1>3

LEMMA InsertKeepsRows ==
    ASSUME DInv, NEW r \in Requests, Insert(r)
    PROVE  /\ DaysOK' /\ ReceiptsInOrder' /\ TicketsDistinct' /\ OneOpenShift'
           /\ OneLiveInvoice'
<1> DEFINE h == req[r]
<1>1. /\ Good(h) /\ h.pc = "insert" /\ h.kind \in Kinds
      /\ \A kind \in Kinds : \A k \in DOMAIN docs[kind] :
            Alike(docs'[kind][k], docs[kind][k])
      /\ UNCHANGED clock
  BY InsertEffect
<1>2. \A kind \in Kinds :
         /\ DOMAIN docs[kind] = 1..Len(docs[kind]) /\ Len(docs[kind]) \in Nat
         /\ \A k \in DOMAIN docs'[kind] :
               k \notin DOMAIN docs[kind] =>
                  /\ kind = h.kind
                  /\ k = Len(docs[kind]) + 1
                  /\ RowOf(docs'[kind][k], h)
  BY InsertRows
<1>3. clock.local \in Nat
  BY DEF DInv, TypeOK
<1> HIDE DEF h
<1>4. DaysOK'
  BY <1>1, <1>2, <1>3 DEF DInv, DaysOK, Alike, RowOf
<1>5. ReceiptsInOrder'
  <2> SUFFICES ASSUME NEW j \in DOMAIN docs'["receipt"], NEW k \in DOMAIN docs'["receipt"],
                      j < k,
                      docs'["receipt"][j].branch = docs'["receipt"][k].branch,
                      docs'["receipt"][j].day = docs'["receipt"][k].day,
                      docs'["receipt"][j].local = docs'["receipt"][k].local,
                      docs'["receipt"][j].number <= Limit["receipt"],
                      ~docs'["receipt"][k].raced
               PROVE  docs'["receipt"][j].number < docs'["receipt"][k].number
    BY DEF ReceiptsInOrder
  <2>0. "receipt" \in Kinds
    BY DEF Kinds
  <2>1. CASE k \in DOMAIN docs["receipt"]
    <3>1. j \in DOMAIN docs["receipt"]
      BY <1>2, <2>0, <2>1
    <3>2. QED
      BY <1>1, <2>0, <2>1, <3>1 DEF DInv, ReceiptsInOrder, Alike
  <2>2. CASE k \notin DOMAIN docs["receipt"]
    <3>1. j \in DOMAIN docs["receipt"]
      BY <1>2, <2>0, <2>2
    <3>2. QED
      BY <1>1, <1>2, <2>0, <2>2, <3>1 DEF Good, ReceiptGood, Alike, RowOf
  <2>3. QED
    BY <2>1, <2>2
<1>6. TicketsDistinct'
  <2> SUFFICES ASSUME NEW j \in DOMAIN docs'["ticket"], NEW k \in DOMAIN docs'["ticket"],
                      j < k,
                      docs'["ticket"][j].branch = docs'["ticket"][k].branch,
                      docs'["ticket"][j].local = docs'["ticket"][k].local,
                      ~docs'["ticket"][k].raced
               PROVE  docs'["ticket"][j].number # docs'["ticket"][k].number
    BY DEF TicketsDistinct
  <2>0. "ticket" \in Kinds
    BY DEF Kinds
  <2>1. CASE k \in DOMAIN docs["ticket"]
    <3>1. j \in DOMAIN docs["ticket"]
      BY <1>2, <2>0, <2>1
    <3>2. QED
      BY <1>1, <2>0, <2>1, <3>1 DEF DInv, TicketsDistinct, Alike
  <2>2. CASE k \notin DOMAIN docs["ticket"]
    <3>1. j \in DOMAIN docs["ticket"]
      BY <1>2, <2>0, <2>2
    <3>2. QED
      BY <1>1, <1>2, <2>0, <2>2, <3>1 DEF Good, TicketGood, Alike, RowOf
  <2>3. QED
    BY <2>1, <2>2
<1>7. OneOpenShift'
  <2> SUFFICES ASSUME NEW j \in DOMAIN docs'["shift"], NEW k \in DOMAIN docs'["shift"],
                      j < k,
                      docs'["shift"][j].branch = docs'["shift"][k].branch,
                      docs'["shift"][j].status = "OPEN",
                      docs'["shift"][k].status = "OPEN",
                      ~docs'["shift"][k].raced
               PROVE  FALSE
    BY DEF OneOpenShift
  <2>0. "shift" \in Kinds
    BY DEF Kinds
  <2>1. CASE k \in DOMAIN docs["shift"]
    <3>1. j \in DOMAIN docs["shift"]
      BY <1>2, <2>0, <2>1
    <3>2. QED
      BY <1>1, <2>0, <2>1, <3>1 DEF DInv, OneOpenShift, Alike
  <2>2. CASE k \notin DOMAIN docs["shift"]
    <3>1. j \in DOMAIN docs["shift"]
      BY <1>2, <2>0, <2>2
    <3>2. QED
      BY <1>1, <1>2, <2>0, <2>2, <3>1 DEF Good, ShiftGood, OpenShifts, Alike, RowOf
  <2>3. QED
    BY <2>1, <2>2
<1>8. OneLiveInvoice'
  <2> SUFFICES ASSUME NEW j \in DOMAIN docs'["invoice"], NEW k \in DOMAIN docs'["invoice"],
                      j < k,
                      docs'["invoice"][j].of = docs'["invoice"][k].of,
                      docs'["invoice"][j].status = "VALID",
                      docs'["invoice"][k].status = "VALID",
                      ~docs'["invoice"][k].raced
               PROVE  FALSE
    BY DEF OneLiveInvoice
  <2>0. "invoice" \in Kinds
    BY DEF Kinds
  <2>1. CASE k \in DOMAIN docs["invoice"]
    <3>1. j \in DOMAIN docs["invoice"]
      BY <1>2, <2>0, <2>1
    <3>2. QED
      BY <1>1, <2>0, <2>1, <3>1 DEF DInv, OneLiveInvoice, Alike
  <2>2. CASE k \notin DOMAIN docs["invoice"]
    <3>1. j \in DOMAIN docs["invoice"]
      BY <1>2, <2>0, <2>2
    <3>2. QED
      BY <1>1, <1>2, <2>0, <2>2, <3>1 DEF Good, LiveGood, LiveInvoices, Alike, RowOf
  <2>3. QED
    BY <2>1, <2>2
<1>9. QED
  BY <1>4, <1>5, <1>6, <1>7, <1>8

LEMMA InsertKeepsInvoices ==
    ASSUME DInv, NEW r \in Requests, Insert(r)
    PROVE  InvoicesOK'
<1> DEFINE h == req[r]
           T == docs["invoice"]
<1>0. "invoice" \in Kinds
  BY DEF Kinds
<1>1. /\ Good(h) /\ h.pc = "insert" /\ h.kind \in Kinds /\ ~Taken(h)
      /\ \A k \in DOMAIN T : Alike(docs'["invoice"][k], T[k])
      /\ h \in Handler
  BY <1>0, InsertEffect
<1>2. /\ DOMAIN T = 1..Len(T) /\ Len(T) \in Nat
      /\ DOMAIN T \subseteq DOMAIN docs'["invoice"]
      /\ \A k \in DOMAIN docs'["invoice"] :
            k \notin DOMAIN T =>
                  /\ h.kind = "invoice"
                  /\ k = Len(T) + 1
                  /\ RowOf(docs'["invoice"][k], h)
  BY <1>0, InsertRows
<1>3. InvoicesOK
  BY DEF DInv
<1>4. SUFFICES ASSUME NEW k \in DOMAIN docs'["invoice"]
               PROVE  /\ docs'["invoice"][k].number = k
                      /\ docs'["invoice"][k].day = 0
                      /\ docs'["invoice"][k].branch = docs'["invoice"][1].branch
  BY DEF InvoicesOK, InvoicesGapless
<1>5. CASE k \in DOMAIN T
  <2>1. 1 \in DOMAIN T
    BY <1>2, <1>5
  <2>2. QED
    BY <1>1, <1>3, <1>5, <2>1 DEF InvoicesOK, InvoicesGapless, Alike
<1>6. CASE k \notin DOMAIN T
  <2>1. /\ h.kind = "invoice" /\ h.day = 0 /\ h.number \in 1..(Len(T) + 1)
        /\ h.number # 1 => T # << >> /\ T[1].branch = h.branch
    BY <1>1, <1>2, <1>6 DEF Good, NumberGood
  <2>2. h.number \notin DOMAIN T
    BY <1>1, <1>3, <2>1 DEF Taken, InvoicesOK, InvoicesGapless
  <2>3. h.number = Len(T) + 1 /\ k = Len(T) + 1
    BY <1>2, <1>6, <2>1, <2>2
  <2>4. CASE Len(T) = 0
    BY <1>2, <1>6, <2>1, <2>3, <2>4 DEF RowOf
  <2>5. CASE Len(T) # 0
    <3>1. 1 \in DOMAIN T /\ h.number # 1
      BY <1>2, <2>3, <2>5
    <3>2. docs'["invoice"][1].branch = h.branch
      BY <1>1, <2>1, <3>1 DEF Alike
    <3>3. QED
      BY <1>2, <1>6, <2>1, <2>3, <3>2 DEF RowOf
  <2>6. QED
    BY <2>4, <2>5
<1>7. QED
  BY <1>5, <1>6

LEMMA InsertKeepsTotals ==
    ASSUME DInv, NEW r \in Requests, Insert(r)
    PROVE  CountedOK' /\ ClosedShiftAdds'
<1> DEFINE h == req[r]
<1>0. "shift" \in Kinds /\ "receipt" \in Kinds
  BY DEF Kinds
<1>1. /\ \A kind \in Kinds : \A k \in DOMAIN docs[kind] :
            Alike(docs'[kind][k], docs[kind][k])
      /\ \A k \in DOMAIN docs["shift"] :
            docs'["shift"][k].late <=>
               \/ docs["shift"][k].late
               \/ h.kind = "receipt" /\ k = h.of /\ Summed(k)
  BY <1>0, InsertEffect
<1>2. \A kind \in Kinds :
         /\ DOMAIN docs[kind] \subseteq DOMAIN docs'[kind]
         /\ \A k \in DOMAIN docs'[kind] :
               k \notin DOMAIN docs[kind] => kind = h.kind /\ RowOf(docs'[kind][k], h)
  BY InsertRows
<1>c. CountedOK'
  BY <1>0, <1>1, <1>2 DEF DInv, CountedOK, Alike, RowOf
<1>3. SUFFICES ASSUME NEW s \in DOMAIN docs'["shift"],
                      docs'["shift"][s].status = "CLOSED", ~docs'["shift"][s].late,
                      NEW k \in DOMAIN docs'["receipt"]
               PROVE  (k \in docs'["shift"][s].counted) <=>
                          (/\ docs'["receipt"][k].of = s
                           /\ docs'["receipt"][k].status = "PAID")
  BY <1>c DEF ClosedShiftAdds
<1>4. s \in DOMAIN docs["shift"]
  BY <1>0, <1>2, <1>3 DEF RowOf, NewStatus
<1>5. /\ docs["shift"][s].status = "CLOSED" /\ ~docs["shift"][s].late
      /\ docs'["shift"][s].counted = docs["shift"][s].counted
      /\ ~(h.kind = "receipt" /\ s = h.of)
  BY <1>0, <1>1, <1>3, <1>4 DEF Alike, Summed
<1>6. CASE k \in DOMAIN docs["receipt"]
  BY <1>0, <1>1, <1>4, <1>5, <1>6 DEF DInv, ClosedShiftAdds, Alike
<1>7. CASE k \notin DOMAIN docs["receipt"]
  <2>1. docs'["receipt"][k].of # s
    BY <1>0, <1>2, <1>3, <1>5, <1>7 DEF RowOf
  <2>2. k \notin docs["shift"][s].counted
    BY <1>4, <1>5, <1>7 DEF DInv, CountedOK
  <2>3. QED
    BY <1>5, <2>1, <2>2
<1>8. QED
  BY <1>6, <1>7

LEMMA InsertKeepsHandlers ==
    ASSUME DInv, NEW r \in Requests, Insert(r)
    PROVE  HandlersGood'
<1> DEFINE h == req[r]
<1>0. \A kind \in {"receipt", "ticket", "shift", "invoice"} : kind \in Kinds
  BY DEF Kinds
<1>1. /\ h.kind \in Kinds /\ clock' = clock
      /\ \A kind \in Kinds : \A k \in DOMAIN docs[kind] :
            Alike(docs'[kind][k], docs[kind][k])
      /\ \A k \in DOMAIN docs["shift"] :
            docs'["shift"][k].late <=>
               \/ docs["shift"][k].late
               \/ h.kind = "receipt" /\ k = h.of /\ Summed(k)
  BY <1>0, InsertEffect
<1>2. \A kind \in Kinds :
         /\ DOMAIN docs[kind] \subseteq DOMAIN docs'[kind]
         /\ DOMAIN docs[kind] = 1..Len(docs[kind]) /\ Len(docs[kind]) \in Nat
         /\ \A k \in DOMAIN docs'[kind] :
               k \notin DOMAIN docs[kind] =>
                  kind = h.kind /\ k = Len(docs[kind]) + 1 /\ RowOf(docs'[kind][k], h)
  BY InsertRows
<1>3. SUFFICES ASSUME NEW q \in Requests PROVE Good(req[q])'
  BY DEF HandlersGood
<1>4. CASE q = r
  <2>1. req'[q].pc = "idle"
    BY <1>4, InsertSlots DEF Idle
  <2>2. QED
    BY <2>1 DEF Good, Shape, ReceiptGood, TicketGood, ShiftGood, LiveGood,
                NumberGood, TotalsGood
<1>5. CASE q # r
  <2> DEFINE g == req[q]
             e == req'[q]
  <2>1. /\ e.pc = g.pc /\ e.kind = g.kind /\ e.branch = g.branch /\ e.of = g.of
        /\ e.day = g.day /\ e.number = g.number /\ e.counted = g.counted
        /\ e.raced <=> (g.raced \/ Rivals(h, g))
    BY <1>5, InsertSlots
  <2>2. Good(g)
    BY DEF DInv, HandlersGood
  <2> HIDE DEF g, h
  <2>3. Shape(req[q])'
    BY <1>0, <1>2, <2>1, <2>2 DEF Good, Shape
  <2>4. ReceiptGood(req[q])'
    <3>1. SUFFICES ASSUME e.pc = "insert", e.kind = "receipt", ~e.raced,
                          NEW k \in DOMAIN docs'["receipt"],
                          docs'["receipt"][k].branch = e.branch,
                          docs'["receipt"][k].day = e.day,
                          docs'["receipt"][k].local = clock.local,
                          docs'["receipt"][k].number <= Limit["receipt"]
                   PROVE  docs'["receipt"][k].number < e.number
      BY <1>1 DEF ReceiptGood
    <3>2. k \in DOMAIN docs["receipt"]
      BY <1>0, <1>2, <2>1, <3>1 DEF RowOf, Rivals
    <3>3. QED
      BY <1>0, <1>1, <2>1, <2>2, <3>1, <3>2 DEF Good, ReceiptGood, Alike
  <2>5. TicketGood(req[q])'
    <3>1. SUFFICES ASSUME e.pc = "insert", e.kind = "ticket", ~e.raced,
                          NEW k \in DOMAIN docs'["ticket"],
                          docs'["ticket"][k].branch = e.branch,
                          docs'["ticket"][k].local = clock.local
                   PROVE  docs'["ticket"][k].number # e.number
      BY <1>1 DEF TicketGood
    <3>2. k \in DOMAIN docs["ticket"]
      BY <1>0, <1>2, <2>1, <3>1 DEF RowOf, Rivals
    <3>3. QED
      BY <1>0, <1>1, <2>1, <2>2, <3>1, <3>2 DEF Good, TicketGood, Alike
  <2>6. ShiftGood(req[q])'
    <3>1. SUFFICES ASSUME e.pc \in {"number", "insert"}, e.kind = "shift", ~e.raced,
                          NEW k \in DOMAIN docs'["shift"],
                          docs'["shift"][k].branch = e.branch,
                          docs'["shift"][k].status = "OPEN"
                   PROVE  FALSE
      BY DEF ShiftGood, OpenShifts
    <3>2. k \in DOMAIN docs["shift"]
      BY <1>0, <1>2, <2>1, <3>1 DEF RowOf, Rivals
    <3>3. QED
      BY <1>0, <1>1, <2>1, <2>2, <3>1, <3>2 DEF Good, ShiftGood, OpenShifts, Alike
  <2>7. LiveGood(req[q])'
    <3>1. SUFFICES ASSUME e.pc \in {"number", "insert"}, e.kind = "invoice", ~e.raced,
                          NEW k \in DOMAIN docs'["invoice"],
                          docs'["invoice"][k].of = e.of,
                          docs'["invoice"][k].status = "VALID"
                   PROVE  FALSE
      BY DEF LiveGood, LiveInvoices
    <3>2. k \in DOMAIN docs["invoice"]
      BY <1>0, <1>2, <2>1, <3>1 DEF RowOf, Rivals
    <3>3. QED
      BY <1>0, <1>1, <2>1, <2>2, <3>1, <3>2 DEF Good, LiveGood, LiveInvoices, Alike
  <2>8. NumberGood(req[q])'
    <3>1. SUFFICES ASSUME e.pc = "insert", e.kind = "invoice"
                   PROVE  /\ e.day = 0
                          /\ e.number \in 1..(Len(docs'["invoice"]) + 1)
                          /\ e.number # 1 => /\ docs'["invoice"] # << >>
                                             /\ docs'["invoice"][1].branch = e.branch
      BY DEF NumberGood
    <3> DEFINE T == docs["invoice"]
    <3>2. /\ g.day = 0 /\ g.number \in 1..(Len(T) + 1)
          /\ g.number # 1 => T # << >> /\ T[1].branch = g.branch
      BY <2>1, <2>2, <3>1 DEF Good, NumberGood
    <3>3. /\ DOMAIN T = 1..Len(T) /\ Len(T) \in Nat /\ T \in Seq(Doc)
          /\ docs'["invoice"] \in Seq(Doc)
          /\ DOMAIN T \subseteq DOMAIN docs'["invoice"]
      BY <1>0, <1>2, RowType, InsertEffect DEF DInv
    <3>4. Len(T) <= Len(docs'["invoice"])
      BY <3>3
    <3>5. CASE g.number = 1
      BY <2>1, <3>2, <3>3, <3>4, <3>5
    <3>6. CASE g.number # 1
      <4>1. 1 \in DOMAIN T
        BY <3>2, <3>3, <3>6
      <4>2. docs'["invoice"][1].branch = g.branch
        BY <1>0, <1>1, <3>2, <3>6, <4>1 DEF Alike
      <4>3. docs'["invoice"] # << >>
        BY <3>3, <4>1
      <4>4. QED
        BY <2>1, <3>2, <3>3, <3>4, <4>2, <4>3
    <3>7. QED
      BY <3>5, <3>6
  <2>9. TotalsGood(req[q])'
    <3> DEFINE P == {k \in DOMAIN docs'["receipt"] : /\ docs'["receipt"][k].of = e.of
                                                     /\ docs'["receipt"][k].status = "PAID"}
    <3>1. SUFFICES ASSUME e.pc = "close"
                   PROVE  /\ e.counted \subseteq DOMAIN docs'["receipt"]
                          /\ docs'["shift"][e.of].late \/ e.counted = P
      BY DEF TotalsGood, PaymentsOf
    <3>2. /\ g.counted \subseteq DOMAIN docs["receipt"]
          /\ docs["shift"][g.of].late \/ g.counted = PaymentsOf(g.of)
          /\ g.of \in DOMAIN docs["shift"] /\ Summed(g.of)
      BY <2>1, <2>2, <3>1 DEF Good, Shape, TotalsGood, Summed, g
    <3>3. CASE docs'["shift"][g.of].late
      BY <1>0, <1>2, <2>1, <3>2, <3>3
    <3>4. CASE ~docs'["shift"][g.of].late
      <4>1. g.counted = PaymentsOf(g.of) /\ ~(h.kind = "receipt" /\ g.of = h.of)
        BY <1>1, <3>2, <3>4
      <4>2. P = PaymentsOf(g.of)
        BY <1>0, <1>1, <1>2, <2>1, <4>1 DEF PaymentsOf, Alike, RowOf
      <4>3. QED
        BY <1>0, <1>2, <2>1, <3>2, <4>1, <4>2
    <3>5. QED
      BY <3>3, <3>4
  <2>10. QED
    BY <2>3, <2>4, <2>5, <2>6, <2>7, <2>8, <2>9 DEF Good
<1>6. QED
  BY <1>4, <1>5

LEMMA InsertKeeps ==
    ASSUME DInv, NEW r \in Requests, Insert(r)
    PROVE  DInv'
<1>1. TypeOK'
  BY InsertEffect, InsertSlots DEF DInv, TypeOK
<1>2. QED
  BY <1>1, InsertKeepsRows, InsertKeepsInvoices, InsertKeepsTotals,
     InsertKeepsHandlers DEF DInv

\* A row, e before and d after, that was refunded, voided, closed or left alone.
Kept(d, e) ==
    /\ d.branch = e.branch /\ d.day = e.day /\ d.local = e.local
    /\ d.number = e.number /\ d.of = e.of /\ d.raced = e.raced
    /\ d.status \in {"OPEN", "VALID"} => d.status = e.status

\* A step that refunds, voids or closes: the rows stay what they were, and no
\* shift is opened and no invoice made valid again.
LEMMA UpdateKeeps ==
    ASSUME DInv,
           \A kind \in Kinds :
              /\ DOMAIN docs'[kind] = DOMAIN docs[kind]
              /\ \A k \in DOMAIN docs[kind] : Kept(docs'[kind][k], docs[kind][k]),
           docs' \in [Kinds -> Seq(Doc)],
           \A q \in Requests : req'[q] = req[q] \/ req'[q] = Idle,
           clock' = clock
    PROVE  /\ DaysOK' /\ ReceiptsInOrder' /\ TicketsDistinct' /\ OneOpenShift'
           /\ OneLiveInvoice' /\ InvoicesOK'
           /\ (\A q \in Requests : TotalsGood(req[q])') => HandlersGood'
<1>0. \A kind \in {"receipt", "ticket", "shift", "invoice"} : kind \in Kinds
  BY DEF Kinds
<1>r. /\ DOMAIN docs'["receipt"] = DOMAIN docs["receipt"]
      /\ \A k \in DOMAIN docs["receipt"] : Kept(docs'["receipt"][k], docs["receipt"][k])
  BY <1>0
<1>t. /\ DOMAIN docs'["ticket"] = DOMAIN docs["ticket"]
      /\ \A k \in DOMAIN docs["ticket"] : Kept(docs'["ticket"][k], docs["ticket"][k])
  BY <1>0
<1>s. /\ DOMAIN docs'["shift"] = DOMAIN docs["shift"]
      /\ \A k \in DOMAIN docs["shift"] : Kept(docs'["shift"][k], docs["shift"][k])
  BY <1>0
<1>i. /\ DOMAIN docs'["invoice"] = DOMAIN docs["invoice"]
      /\ \A k \in DOMAIN docs["invoice"] : Kept(docs'["invoice"][k], docs["invoice"][k])
  BY <1>0
<1>1. DaysOK'
  <2> SUFFICES ASSUME NEW kind \in Kinds, NEW k \in DOMAIN docs'[kind]
               PROVE  docs'[kind][k].local <= clock.local
    BY DEF DaysOK
  <2>1. k \in DOMAIN docs[kind] /\ Kept(docs'[kind][k], docs[kind][k])
    OBVIOUS
  <2>2. QED
    BY <2>1 DEF DInv, DaysOK, Kept
<1>2. ReceiptsInOrder'
  <2> SUFFICES ASSUME NEW j \in DOMAIN docs'["receipt"], NEW k \in DOMAIN docs'["receipt"],
                      j < k,
                      docs'["receipt"][j].branch = docs'["receipt"][k].branch,
                      docs'["receipt"][j].day = docs'["receipt"][k].day,
                      docs'["receipt"][j].local = docs'["receipt"][k].local,
                      docs'["receipt"][j].number <= Limit["receipt"],
                      ~docs'["receipt"][k].raced
               PROVE  docs'["receipt"][j].number < docs'["receipt"][k].number
    BY DEF ReceiptsInOrder
  <2>1. QED
    BY <1>r DEF DInv, ReceiptsInOrder, Kept
<1>3. TicketsDistinct'
  <2> SUFFICES ASSUME NEW j \in DOMAIN docs'["ticket"], NEW k \in DOMAIN docs'["ticket"],
                      j < k,
                      docs'["ticket"][j].branch = docs'["ticket"][k].branch,
                      docs'["ticket"][j].local = docs'["ticket"][k].local,
                      ~docs'["ticket"][k].raced
               PROVE  docs'["ticket"][j].number # docs'["ticket"][k].number
    BY DEF TicketsDistinct
  <2>1. QED
    BY <1>t DEF DInv, TicketsDistinct, Kept
<1>4. OneOpenShift'
  <2> SUFFICES ASSUME NEW j \in DOMAIN docs'["shift"], NEW k \in DOMAIN docs'["shift"],
                      j < k,
                      docs'["shift"][j].branch = docs'["shift"][k].branch,
                      docs'["shift"][j].status = "OPEN",
                      docs'["shift"][k].status = "OPEN",
                      ~docs'["shift"][k].raced
               PROVE  FALSE
    BY DEF OneOpenShift
  <2>1. QED
    BY <1>s DEF DInv, OneOpenShift, Kept
<1>5. OneLiveInvoice'
  <2> SUFFICES ASSUME NEW j \in DOMAIN docs'["invoice"], NEW k \in DOMAIN docs'["invoice"],
                      j < k,
                      docs'["invoice"][j].of = docs'["invoice"][k].of,
                      docs'["invoice"][j].status = "VALID",
                      docs'["invoice"][k].status = "VALID",
                      ~docs'["invoice"][k].raced
               PROVE  FALSE
    BY DEF OneLiveInvoice
  <2>1. QED
    BY <1>i DEF DInv, OneLiveInvoice, Kept
<1>6. /\ DOMAIN docs["invoice"] = 1..Len(docs["invoice"])
      /\ Len(docs["invoice"]) \in Nat
      /\ docs'["invoice"] \in Seq(Doc) /\ docs["invoice"] \in Seq(Doc)
  BY <1>0, RowType DEF DInv
<1>7. InvoicesOK'
  <2> SUFFICES ASSUME NEW k \in DOMAIN docs'["invoice"]
               PROVE  /\ docs'["invoice"][k].number = k
                      /\ docs'["invoice"][k].day = 0
                      /\ docs'["invoice"][k].branch = docs'["invoice"][1].branch
    BY DEF InvoicesOK, InvoicesGapless
  <2>1. 1 \in DOMAIN docs["invoice"]
    BY <1>i, <1>6
  <2>2. QED
    BY <1>i, <2>1 DEF DInv, InvoicesOK, InvoicesGapless, Kept
<1>8. ASSUME NEW q \in Requests, TotalsGood(req[q])' PROVE Good(req[q])'
  <2>1. CASE req'[q] = Idle
    BY <2>1 DEF Idle, Good, Shape, ReceiptGood, TicketGood, ShiftGood, LiveGood,
                NumberGood, TotalsGood
  <2>2. CASE req'[q] = req[q]
    <3>1. Good(req[q])
      BY DEF DInv, HandlersGood
    <3>2. Shape(req[q])' /\ ReceiptGood(req[q])' /\ TicketGood(req[q])'
      BY <1>r, <1>t, <1>s, <2>2, <3>1 DEF Good, Shape, ReceiptGood, TicketGood, Kept
    <3>3. ShiftGood(req[q])' /\ LiveGood(req[q])'
      <4>1. {k \in DOMAIN docs'["shift"] : /\ docs'["shift"][k].branch = req[q].branch
                                           /\ docs'["shift"][k].status = "OPEN"}
               \subseteq OpenShifts(req[q].branch)
        BY <1>s DEF OpenShifts, Kept
      <4>2. {k \in DOMAIN docs'["invoice"] : /\ docs'["invoice"][k].of = req[q].of
                                             /\ docs'["invoice"][k].status = "VALID"}
               \subseteq LiveInvoices(req[q])
        BY <1>i DEF LiveInvoices, Kept
      <4>3. ShiftGood(req[q])'
        BY <2>2, <3>1, <4>1 DEF Good, ShiftGood, OpenShifts
      <4>4. LiveGood(req[q])'
        BY <2>2, <3>1, <4>2 DEF Good, LiveGood, LiveInvoices
      <4>5. QED
        BY <4>3, <4>4
    <3>4. NumberGood(req[q])'
      <4>1. Len(docs'["invoice"]) = Len(docs["invoice"])
        BY <1>i, <1>6
      <4>2. docs["invoice"] # << >> => docs'["invoice"] # << >> /\ 1 \in DOMAIN docs["invoice"]
        BY <1>6, <4>1
      <4>3. QED
        BY <1>i, <2>2, <3>1, <4>1, <4>2 DEF Good, NumberGood, Kept
    <3>5. QED
      BY <1>8, <3>2, <3>3, <3>4 DEF Good
  <2>3. QED
    BY <2>1, <2>2
<1>9. QED
  BY <1>1, <1>2, <1>3, <1>4, <1>5, <1>7, <1>8 DEF HandlersGood

LEMMA VoidInvoiceKeeps ==
    ASSUME DInv, NEW k \in DOMAIN docs["invoice"], VoidInvoice(k)
    PROVE  DInv'
<1> DEFINE T == docs["invoice"]
           d == [T[k] EXCEPT !.status = "VOID"]
<1>0. /\ docs \in [Kinds -> Seq(Doc)] /\ "invoice" \in Kinds
      /\ T \in Seq(Doc) /\ T[k] \in Doc
      /\ UNCHANGED <<req, clock, refused>>
  BY RowType DEF DInv, TypeOK, Kinds, VoidInvoice
<1>1. d \in Doc /\ d.status = "VOID"
      /\ d.branch = T[k].branch /\ d.day = T[k].day /\ d.local = T[k].local
      /\ d.number = T[k].number /\ d.of = T[k].of /\ d.raced = T[k].raced
  BY <1>0 DEF Doc
<1>2. docs' = [docs EXCEPT !["invoice"] = [T EXCEPT ![k] = d]]
  BY <1>0 DEF VoidInvoice
<1> HIDE DEF d
<1>3. /\ docs' \in [Kinds -> Seq(Doc)]
      /\ DOMAIN docs'["invoice"] = DOMAIN T
      /\ docs'["invoice"][k] = d
      /\ \A j \in DOMAIN T : j # k => docs'["invoice"][j] = T[j]
      /\ \A kind \in Kinds \ {"invoice"} : docs'[kind] = docs[kind]
  BY <1>0, <1>1, <1>2
<1>4. /\ DaysOK' /\ ReceiptsInOrder' /\ TicketsDistinct' /\ OneOpenShift'
      /\ OneLiveInvoice' /\ InvoicesOK'
      /\ (\A q \in Requests : TotalsGood(req[q])') => HandlersGood'
  <2>1. \A kind \in Kinds :
              /\ DOMAIN docs'[kind] = DOMAIN docs[kind]
              /\ \A j \in DOMAIN docs[kind] : Kept(docs'[kind][j], docs[kind][j])
    BY <1>1, <1>3 DEF Kept
  <2>2. QED
    BY <1>0, <1>3, <2>1, UpdateKeeps
<1>5. docs'["shift"] = docs["shift"] /\ docs'["receipt"] = docs["receipt"]
  BY <1>3 DEF Kinds
<1>6. \A q \in Requests : TotalsGood(req[q])'
  BY <1>0, <1>5 DEF DInv, HandlersGood, Good, TotalsGood, PaymentsOf
<1>7. CountedOK' /\ ClosedShiftAdds'
  BY <1>5 DEF DInv, CountedOK, ClosedShiftAdds
<1>8. TypeOK'
  BY <1>0, <1>3 DEF DInv, TypeOK
<1>9. QED
  BY <1>4, <1>6, <1>7, <1>8 DEF DInv

LEMMA CloseWriteKeeps ==
    ASSUME DInv, NEW r \in Requests, CloseWrite(r)
    PROVE  DInv'
<1> DEFINE T == docs["shift"]
           s == req[r].of
           d == [T[s] EXCEPT !.status = "CLOSED", !.counted = req[r].counted]
<1>0. /\ docs \in [Kinds -> Seq(Doc)] /\ "shift" \in Kinds /\ "receipt" \in Kinds
      /\ req \in [Requests -> Handler] /\ req[r] \in Handler
      /\ UNCHANGED <<clock, refused>> /\ req' = [req EXCEPT ![r] = Idle]
      /\ req[r].pc = "close" /\ Good(req[r])
  BY DEF DInv, TypeOK, Kinds, CloseWrite, End, HandlersGood
<1>1. s \in DOMAIN T
  BY <1>0 DEF Good, Shape
<1>2. T \in Seq(Doc) /\ T[s] \in Doc
  BY <1>0, <1>1, RowType DEF DInv
<1>3. /\ d \in Doc /\ d.status = "CLOSED" /\ d.counted = req[r].counted
      /\ d.branch = T[s].branch /\ d.day = T[s].day /\ d.local = T[s].local
      /\ d.number = T[s].number /\ d.of = T[s].of /\ d.raced = T[s].raced
      /\ d.late = T[s].late
  BY <1>0, <1>2 DEF Doc, Handler
<1>4. docs' = [docs EXCEPT !["shift"] = [T EXCEPT ![s] = d]]
  BY <1>0, <1>1, <1>2 DEF CloseWrite
<1> HIDE DEF d, s
<1>5. /\ docs' \in [Kinds -> Seq(Doc)]
      /\ DOMAIN docs'["shift"] = DOMAIN T
      /\ docs'["shift"][s] = d
      /\ \A j \in DOMAIN T : j # s => docs'["shift"][j] = T[j]
      /\ \A kind \in Kinds \ {"shift"} : docs'[kind] = docs[kind]
  BY <1>0, <1>1, <1>2, <1>3, <1>4
<1>6. /\ DaysOK' /\ ReceiptsInOrder' /\ TicketsDistinct' /\ OneOpenShift'
      /\ OneLiveInvoice' /\ InvoicesOK'
      /\ (\A q \in Requests : TotalsGood(req[q])') => HandlersGood'
  <2>1. \A kind \in Kinds :
              /\ DOMAIN docs'[kind] = DOMAIN docs[kind]
              /\ \A j \in DOMAIN docs[kind] : Kept(docs'[kind][j], docs[kind][j])
    BY <1>3, <1>5 DEF Kept
  <2>2. \A q \in Requests : req'[q] = req[q] \/ req'[q] = Idle
    BY <1>0
  <2>3. QED
    BY <1>0, <1>5, <2>1, <2>2, UpdateKeeps
<1>7. /\ docs'["receipt"] = docs["receipt"]
      /\ \A j \in DOMAIN T : docs'["shift"][j].late = T[j].late
  BY <1>0, <1>3, <1>5
<1>8. ASSUME NEW q \in Requests PROVE TotalsGood(req[q])'
  <2>1. CASE q = r
    BY <1>0, <2>1 DEF TotalsGood, Idle
  <2>2. CASE q # r
    <3>1. req'[q] = req[q] /\ Good(req[q])
      BY <1>0, <2>2 DEF DInv, HandlersGood
    <3>2. req[q].pc = "close" => req[q].of \in DOMAIN T
      BY <3>1 DEF Good, Shape
    <3>3. QED
      BY <1>7, <3>1, <3>2 DEF Good, TotalsGood, PaymentsOf
  <2>3. QED
    BY <2>1, <2>2
<1>9. req[r].counted \subseteq DOMAIN docs["receipt"]
      /\ (T[s].late \/ req[r].counted = PaymentsOf(s))
  BY <1>0 DEF Good, TotalsGood, s
<1>10. CountedOK'
  BY <1>3, <1>5, <1>7, <1>9 DEF DInv, CountedOK
<1>11. ClosedShiftAdds'
  <2> SUFFICES ASSUME NEW j \in DOMAIN T, docs'["shift"][j].status = "CLOSED",
                      ~docs'["shift"][j].late, NEW k \in DOMAIN docs["receipt"]
               PROVE  (k \in docs'["shift"][j].counted) <=>
                          (/\ docs["receipt"][k].of = j
                           /\ docs["receipt"][k].status = "PAID")
    BY <1>5, <1>7 DEF ClosedShiftAdds
  <2>1. CASE j = s
    BY <1>3, <1>5, <1>7, <1>9, <2>1 DEF PaymentsOf
  <2>2. CASE j # s
    BY <1>5, <2>2 DEF DInv, ClosedShiftAdds
  <2>3. QED
    BY <2>1, <2>2
<1>12. TypeOK'
  BY <1>0, <1>5, IdleGood DEF DInv, TypeOK
<1>13. QED
  BY <1>6, <1>8, <1>10, <1>11, <1>12 DEF DInv

LEMMA RefundKeeps ==
    ASSUME DInv, NEW p \in DOMAIN docs["receipt"], Refund(p)
    PROVE  DInv'
<1> DEFINE T == docs["receipt"]
           s == T[p].of
           d == [T[p] EXCEPT !.status = "REFUNDED"]
<1>0. /\ docs \in [Kinds -> Seq(Doc)] /\ "shift" \in Kinds /\ "receipt" \in Kinds
      /\ T \in Seq(Doc) /\ T[p] \in Doc /\ TypeOK
      /\ UNCHANGED <<req, clock, refused>> /\ req \in [Requests -> Handler]
  BY RowType DEF DInv, TypeOK, Kinds, Refund
<1>1. /\ d \in Doc /\ d.status = "REFUNDED" /\ s \in Nat
      /\ d.branch = T[p].branch /\ d.day = T[p].day /\ d.local = T[p].local
      /\ d.number = T[p].number /\ d.of = s /\ d.raced = T[p].raced
  BY <1>0 DEF Doc
<1>2. docs' = [docs EXCEPT !["receipt"] = [T EXCEPT ![p] = d], !["shift"] = Disturbed(s)]
  BY <1>0 DEF Refund
<1>3. /\ Disturbed(s) \in Seq(Doc)
      /\ DOMAIN Disturbed(s) = DOMAIN docs["shift"]
      /\ \A k \in DOMAIN docs["shift"] :
            /\ Alike(Disturbed(s)[k], docs["shift"][k])
            /\ Disturbed(s)[k].late <=> (docs["shift"][k].late \/ (k = s /\ Summed(s)))
  BY <1>0, <1>1, DisturbedType
<1> HIDE DEF d, s
<1>4. /\ docs' \in [Kinds -> Seq(Doc)]
      /\ DOMAIN docs'["receipt"] = DOMAIN T
      /\ docs'["receipt"][p] = d
      /\ \A j \in DOMAIN T : j # p => docs'["receipt"][j] = T[j]
      /\ docs'["shift"] = Disturbed(s)
      /\ \A kind \in Kinds \ {"receipt", "shift"} : docs'[kind] = docs[kind]
  <2> DEFINE R == [T EXCEPT ![p] = d]
             D == Disturbed(s)
  <2>1. /\ R \in Seq(Doc) /\ DOMAIN R = DOMAIN T /\ R[p] = d
        /\ \A j \in DOMAIN T : j # p => R[j] = T[j]
    BY <1>0, <1>1
  <2>2. D \in Seq(Doc)
    BY <1>3
  <2>3. docs' = [docs EXCEPT !["receipt"] = R, !["shift"] = D]
    BY <1>2
  <2> HIDE DEF R, D
  <2>4. /\ docs' \in [Kinds -> Seq(Doc)]
        /\ docs'["receipt"] = R /\ docs'["shift"] = D
        /\ \A kind \in Kinds \ {"receipt", "shift"} : docs'[kind] = docs[kind]
    BY <1>0, <2>1, <2>2, <2>3
  <2>5. QED
    BY <2>1, <2>4 DEF D
<1>5. /\ DaysOK' /\ ReceiptsInOrder' /\ TicketsDistinct' /\ OneOpenShift'
      /\ OneLiveInvoice' /\ InvoicesOK'
      /\ (\A q \in Requests : TotalsGood(req[q])') => HandlersGood'
  <2>1. ASSUME NEW kind \in Kinds
        PROVE  /\ DOMAIN docs'[kind] = DOMAIN docs[kind]
               /\ \A k \in DOMAIN docs[kind] : Kept(docs'[kind][k], docs[kind][k])
    <3>1. CASE kind = "receipt"
      BY <1>1, <1>4, <3>1 DEF Kept, s
    <3>2. CASE kind = "shift"
      BY <1>3, <1>4, <3>2 DEF Kept, Alike
    <3>3. CASE kind \notin {"receipt", "shift"}
      BY <1>4, <3>3 DEF Kept
    <3>4. QED
      BY <3>1, <3>2, <3>3
  <2>2. QED
    BY <1>0, <1>4, <2>1, UpdateKeeps
<1>6. ASSUME NEW k \in DOMAIN docs["shift"], k # s \/ ~Summed(k)
      PROVE  docs'["shift"][k].late <=> docs["shift"][k].late
  BY <1>3, <1>4, <1>6
<1>7. ASSUME NEW k \in DOMAIN docs["shift"], k # s
      PROVE  {j \in DOMAIN docs'["receipt"] : /\ docs'["receipt"][j].of = k
                                              /\ docs'["receipt"][j].status = "PAID"}
                = PaymentsOf(k)
  BY <1>1, <1>4, <1>7 DEF PaymentsOf, s
<1>8. ASSUME NEW q \in Requests PROVE TotalsGood(req[q])'
  <2>1. SUFFICES ASSUME req[q].pc = "close"
                 PROVE  /\ req[q].counted \subseteq DOMAIN docs'["receipt"]
                        /\ \/ docs'["shift"][req[q].of].late
                           \/ req[q].counted =
                                 {j \in DOMAIN docs'["receipt"] :
                                     /\ docs'["receipt"][j].of = req[q].of
                                     /\ docs'["receipt"][j].status = "PAID"}
    BY <1>0 DEF TotalsGood, PaymentsOf
  <2>2. /\ req[q].counted \subseteq DOMAIN T
        /\ docs["shift"][req[q].of].late \/ req[q].counted = PaymentsOf(req[q].of)
        /\ req[q].of \in DOMAIN docs["shift"] /\ Summed(req[q].of)
    BY <2>1 DEF DInv, HandlersGood, Good, Shape, TotalsGood, Summed
  <2>3. CASE req[q].of = s
    BY <1>3, <1>4, <2>2, <2>3
  <2>4. CASE req[q].of # s
    BY <1>4, <1>6, <1>7, <2>2, <2>4
  <2>5. QED
    BY <2>3, <2>4
<1>9. CountedOK'
  BY <1>3, <1>4 DEF DInv, CountedOK, Alike
<1>10. ClosedShiftAdds'
  <2>1. SUFFICES ASSUME NEW j \in DOMAIN docs["shift"],
                        docs'["shift"][j].status = "CLOSED", ~docs'["shift"][j].late,
                        NEW k \in DOMAIN T
                 PROVE  (k \in docs'["shift"][j].counted) <=>
                            (/\ docs'["receipt"][k].of = j
                             /\ docs'["receipt"][k].status = "PAID")
    BY <1>3, <1>4 DEF ClosedShiftAdds
  <2>2. /\ docs["shift"][j].status = "CLOSED"
        /\ docs'["shift"][j].counted = docs["shift"][j].counted
        /\ Summed(j)
    BY <1>3, <1>4, <2>1 DEF Alike, Summed
  <2>3. j # s /\ ~docs["shift"][j].late
    BY <1>3, <1>4, <2>1, <2>2
  <2>4. (k \in docs["shift"][j].counted) <=> k \in PaymentsOf(j)
    BY <2>2, <2>3 DEF DInv, ClosedShiftAdds, PaymentsOf
  <2>5. QED
    BY <1>4, <1>7, <2>2, <2>3, <2>4
<1>11. TypeOK'
  BY <1>0, <1>4 DEF TypeOK
<1>12. QED
  BY <1>5, <1>8, <1>9, <1>10, <1>11 DEF DInv

-----------------------------------------------------------------------------
(* Midnight. *)

LEMMA MidnightKeeps ==
    ASSUME DInv, LocalMidnight \/ UtcMidnight
    PROVE  DInv'
<1>1. /\ clock.local \in Nat /\ clock.utc \in Nat
      /\ UNCHANGED <<docs, req, refused>>
      /\ clock' \in [local : Nat, utc : Nat]
      /\ clock'.local \in {clock.local, clock.local + 1}
  BY DEF DInv, TypeOK, LocalMidnight, UtcMidnight
<1>2. TypeOK'
  BY <1>1 DEF DInv, TypeOK
<1>3. DaysOK'
  <2>1. ASSUME NEW kind \in Kinds, NEW k \in DOMAIN docs[kind]
        PROVE  docs[kind][k].local <= clock'.local
    <3>1. docs[kind][k].local <= clock.local
      BY DEF DInv, DaysOK
    <3>2. docs[kind][k].local \in Nat
      BY RowType DEF DInv, Doc
    <3>3. QED
      BY <1>1, <3>1, <3>2
  <2>2. QED
    BY <1>1, <2>1 DEF DaysOK
<1>4. ASSUME NEW q \in Requests PROVE Good(req[q])'
  <2>1. Good(req[q])
    BY DEF DInv, HandlersGood
  <2>2. ASSUME NEW kind \in Kinds, NEW k \in DOMAIN docs[kind],
               docs[kind][k].local = clock'.local
        PROVE  docs[kind][k].local = clock.local
    <3>1. docs[kind][k].local <= clock.local
      BY DEF DInv, DaysOK
    <3>2. QED
      BY <1>1, <2>2, <3>1
  <2>3. "receipt" \in Kinds /\ "ticket" \in Kinds
    BY DEF Kinds
  <2>4. ReceiptGood(req[q])' /\ TicketGood(req[q])'
    BY <1>1, <2>1, <2>2, <2>3 DEF Good, ReceiptGood, TicketGood
  <2>5. Shape(req[q])' /\ ShiftGood(req[q])' /\ LiveGood(req[q])'
    BY <1>1, <2>1 DEF Good, Shape, ShiftGood, LiveGood, OpenShifts, LiveInvoices
  <2>6. NumberGood(req[q])' /\ TotalsGood(req[q])'
    BY <1>1, <2>1 DEF Good, NumberGood, TotalsGood, PaymentsOf
  <2>7. QED
    BY <2>4, <2>5, <2>6 DEF Good
<1>5. (/\ ReceiptsInOrder /\ TicketsDistinct /\ OneOpenShift
       /\ OneLiveInvoice /\ InvoicesOK /\ CountedOK /\ ClosedShiftAdds)'
  BY <1>1 DEF DInv, ReceiptsInOrder, TicketsDistinct, OneOpenShift, OneLiveInvoice,
              InvoicesOK, InvoicesGapless, CountedOK, ClosedShiftAdds
<1>6. QED
  BY <1>2, <1>3, <1>4, <1>5 DEF DInv, HandlersGood

-----------------------------------------------------------------------------
(* The invariant, and what follows from it. *)

LEMMA InitDInv == Init => DInv
<1> SUFFICES ASSUME Init PROVE DInv
  OBVIOUS
<1>1. \A kind \in Kinds : docs[kind] = << >>
  BY DEF Init
<1>2. TypeOK
  BY IdleGood DEF Init, TypeOK
<1>3. HandlersGood
  BY IdleGood DEF Init, HandlersGood
<1>4. DaysOK
  BY <1>1 DEF DaysOK
<1>5. /\ docs["receipt"] = << >> /\ docs["ticket"] = << >>
      /\ docs["shift"] = << >> /\ docs["invoice"] = << >>
  BY <1>1 DEF Kinds
<1>6. /\ ReceiptsInOrder /\ TicketsDistinct /\ OneOpenShift /\ OneLiveInvoice
      /\ InvoicesOK /\ CountedOK /\ ClosedShiftAdds
  BY <1>5 DEF ReceiptsInOrder, TicketsDistinct, OneOpenShift, OneLiveInvoice,
              InvoicesOK, InvoicesGapless, CountedOK, ClosedShiftAdds
<1>7. QED
  BY <1>2, <1>3, <1>4, <1>6 DEF DInv

LEMMA StepKeepsDInv == DInv /\ [Next]_vars => DInv'
<1> SUFFICES ASSUME DInv, [Next]_vars PROVE DInv'
  OBVIOUS
<1>1. ASSUME NEW r \in Requests, HandlerStep(r) PROVE DInv'
  BY <1>1, CheckInvoiceKeeps, ReadNumberKeeps, InsertKeeps, CollideKeeps,
     SumShiftKeeps, CloseWriteKeeps DEF HandlerStep
<1>2. ASSUME NEW r \in Requests, NEW b \in Branches, NewRequest(r, b) PROVE DInv'
  BY <1>2, NewRequestKeeps
<1>3. ASSUME NEW r \in Requests, NEW s \in DOMAIN docs["shift"], CloseShift(r, s)
      PROVE  DInv'
  BY <1>3, CloseShiftKeeps
<1>4. ASSUME NEW p \in DOMAIN docs["receipt"], Refund(p) PROVE DInv'
  BY <1>4, RefundKeeps
<1>5. ASSUME NEW k \in DOMAIN docs["invoice"], VoidInvoice(k) PROVE DInv'
  BY <1>5, VoidInvoiceKeeps
<1>6. CASE LocalMidnight \/ UtcMidnight
  BY <1>6, MidnightKeeps
<1>7. CASE UNCHANGED vars
  <2>1. UNCHANGED <<docs, req, clock, refused>>
    BY <1>7 DEF vars
  <2>2. TypeOK' /\ DaysOK'
    BY <2>1 DEF DInv, TypeOK, DaysOK
  <2>3. HandlersGood'
    <3> SUFFICES ASSUME NEW q \in Requests PROVE Good(req[q])'
      BY DEF HandlersGood
    <3>1. Good(req[q])
      BY DEF DInv, HandlersGood
    <3>2. QED
      BY <2>1, <3>1 DEF Good, Shape, ReceiptGood, TicketGood, ShiftGood, LiveGood,
                        NumberGood, TotalsGood, OpenShifts, LiveInvoices, PaymentsOf
  <2>4. (/\ ReceiptsInOrder /\ TicketsDistinct /\ OneOpenShift
         /\ OneLiveInvoice /\ InvoicesOK /\ CountedOK /\ ClosedShiftAdds)'
    BY <2>1 DEF DInv, ReceiptsInOrder, TicketsDistinct, OneOpenShift, OneLiveInvoice,
                InvoicesOK, InvoicesGapless, CountedOK, ClosedShiftAdds
  <2>5. QED
    BY <2>2, <2>3, <2>4 DEF DInv
<1>8. QED
  BY <1>1, <1>2, <1>3, <1>4, <1>5, <1>6, <1>7 DEF Next

LEMMA DocumentsInvariant == Spec => []DInv
  BY InitDInv, StepKeepsDInv, PTL DEF Spec

\* Tables, handlers and clock keep their types; in particular a receipt is tried
\* at most MaxRetries times (PaymentsService.createPayment).
THEOREM TypeCorrect == Spec => []TypeOK
  BY DocumentsInvariant, PTL DEF DInv

\* The receipts of a branch and day are numbered in the order they were issued,
\* unless requests of the branch overlapped or the digits were used up
\* (generateReceiptNumber and the attempts at it).
THEOREM ReceiptOrder == Spec => []ReceiptsInOrder
  BY DocumentsInvariant, PTL DEF DInv

\* Two tickets of a branch and day differ in number unless their requests
\* overlapped (QueueService.getNextQueueNumber).
THEOREM TicketsDiffer == Spec => []TicketsDistinct
  BY DocumentsInvariant, PTL DEF DInv

\* A branch has two open shifts only if the check of the second was overtaken
\* (ShiftsService.openShift).
THEOREM ShiftsExclude == Spec => []OneOpenShift
  BY DocumentsInvariant, PTL DEF DInv

\* A payment has two valid invoices only if the check of the second was overtaken
\* (TaxInvoiceService.create).
THEOREM LiveInvoicesExclude == Spec => []OneLiveInvoice
  BY DocumentsInvariant, PTL DEF DInv

\* Together: a ticket's number, an open shift and a valid invoice are taken twice
\* only by requests that overlapped.
THEOREM ChecksHold == Spec => []ChecksExclude
  BY TicketsDiffer, ShiftsExclude, LiveInvoicesExclude, PTL DEF ChecksExclude

\* The invoices of a month are numbered without gap or repetition, however the
\* requests interleave (generateInvoiceNumber and the unique index).
THEOREM InvoiceNumbersGapless == Spec => []InvoicesGapless
  BY DocumentsInvariant, PTL DEF DInv, InvoicesOK

\* The same two facts leave a month to one branch: no other can write an invoice.
THEOREM InvoicesOfOneBranch == Spec => []OneBranchInvoices
<1>1. DInv => OneBranchInvoices
  BY DEF DInv, InvoicesOK, OneBranchInvoices
<1>2. QED
  BY <1>1, DocumentsInvariant, PTL

\* Together: the invoices of a month are one series of one branch.
THEOREM InvoiceSeries == Spec => []InvoicesInSeries
  BY InvoiceNumbersGapless, InvoicesOfOneBranch, PTL DEF InvoicesInSeries

\* A shift is closed with the totals of exactly its paid payments unless one
\* changed after they were read (ShiftsService.closeShift).
THEOREM ShiftTotals == Spec => []ClosedShiftAdds
  BY DocumentsInvariant, PTL DEF DInv
=============================================================================
