------------------------------ MODULE Documents ------------------------------
(***************************************************************************)
(* The documents that carry a running number: receipts (PaymentsService),  *)
(* shifts (ShiftsService), tax invoices (TaxInvoiceService) and queue      *)
(* tickets (QueueService), of several branches.                            *)
(*                                                                         *)
(* Each is numbered in the same way: a query finds the last number, or     *)
(* counts, among the documents of one branch; the next number is computed; *)
(* the row is inserted.  The numbers of receipts, shifts and invoices have *)
(* a unique index over all branches, and only receipts are tried again.    *)
(* An action is one query.  What a payment checks before its receipt is    *)
(* left to Payments.                                                       *)
(***************************************************************************)
EXTENDS Integers, Sequences, FiniteSetsExt

Kinds == {"receipt", "shift", "invoice", "ticket"}

CONSTANTS
    Requests,     \* slots for handlers that run at the same time
    Branches, NoBranch,
    MaxRetries,   \* attempts at a receipt (5 in the code)
    Limit,        \* highest receipt and invoice number that fill their digits
                  \* (999 and 9999 in the code)
    Mixes,        \* bound: the kinds, and how many documents, in one behaviour
    MaxDay        \* bound: midnights

ASSUME DocumentsAssumption ==
    /\ NoBranch \notin Branches
    /\ MaxRetries \in Nat \ {0}
    /\ Limit \in [{"receipt", "invoice"} -> Nat \ {0}]
    /\ Mixes \subseteq [kinds : SUBSET Kinds, docs : Nat]

VARIABLES
    docs,      \* the tables Payment, Shift, TaxInvoice and QueueTicket
    req,       \* the handler running in each slot
    clock,     \* the day on the server's clock and the day in UTC
    refused    \* history: the kinds refused for a number that was taken although
               \* no other request had inserted one in the meantime

vars == <<docs, req, clock, refused>>

\* of: the shift of a receipt (0: none), the receipt of an invoice.  day: the day
\* in its number.  local: the day it was created.  raced: another request that
\* it should have seen came in between.  counted: the payments added up when the
\* shift was closed, which stand for its totals.  late: one of its payments was
\* inserted or refunded after they were read.
Doc == [ branch : Branches, day : Nat, local : Nat, number : Nat, of : Nat,
         status : {"PAID", "REFUNDED", "OPEN", "CLOSED", "VALID", "VOID", "WAITING"},
         counted : SUBSET Nat, raced : BOOLEAN, late : BOOLEAN ]

Idle == [ pc |-> "idle", kind |-> "none", branch |-> NoBranch, of |-> 0, day |-> 0,
          number |-> 0, attempt |-> 0, counted |-> {},
          raced |-> FALSE, contended |-> FALSE ]

Handler == [ pc      : {"idle", "check", "number", "insert", "sum", "close"},
             kind    : Kinds \cup {"none"},
             branch  : Branches \cup {NoBranch},
             of      : Nat,
             day     : Nat,
             number  : Nat,
             attempt : 0..(MaxRetries - 1),
             counted : SUBSET Nat,
             raced   : BOOLEAN,
             contended : BOOLEAN ]

-----------------------------------------------------------------------------
(* Numbers. *)

\* Numbers in a text are sorted as text, padded with zeros: one that needs another
\* digit comes before the last one that does not.
SortsUpTo(m, n, limit) ==
    IF (m <= limit) = (n <= limit) THEN m <= n ELSE m > limit

\* Mutation of Latest: the first is taken instead of the last.
Earliest(S, limit) == {n \in S : \A m \in S : SortsUpTo(n, m, limit)}

Latest(S, limit) == {n \in S : \A m \in S : SortsUpTo(m, n, limit)}

\* The number in the row that findFirst returns, or 0 when there is none.
FirstRow(S) == IF S = {} THEN 0 ELSE CHOOSE n \in S : TRUE

Greatest(S) == {n \in S : \A m \in S : m <= n}

\* The receipts of the branch created today, whose number has today's date; the
\* first is the server's day, and the second UTC's.
ReceiptNumbers(b) ==
    {docs["receipt"][k].number : k \in
        {j \in DOMAIN docs["receipt"] : /\ docs["receipt"][j].branch = b
                                        /\ docs["receipt"][j].local = clock.local
                                        /\ docs["receipt"][j].day = clock.utc}}

InvoiceNumbers(b) ==
    {docs["invoice"][k].number : k \in
        {j \in DOMAIN docs["invoice"] : docs["invoice"][j].branch = b}}

TicketNumbers(b) ==
    {docs["ticket"][k].number : k \in
        {j \in DOMAIN docs["ticket"] : /\ docs["ticket"][j].branch = b
                                       /\ docs["ticket"][j].local = clock.local}}

ShiftsToday(b) ==
    Cardinality({k \in DOMAIN docs["shift"] : /\ docs["shift"][k].branch = b
                                              /\ docs["shift"][k].local = clock.local})

NextNumber(h) ==
    CASE h.kind = "receipt" -> FirstRow(Latest(ReceiptNumbers(h.branch), Limit["receipt"]))
                                 + 1 + h.attempt
      [] h.kind = "invoice" -> FirstRow(Latest(InvoiceNumbers(h.branch), Limit["invoice"])) + 1
      [] h.kind = "ticket"  -> FirstRow(Greatest(TicketNumbers(h.branch))) + 1
      [] OTHER              -> ShiftsToday(h.branch) + 1

\* Mutation of Taken: there is no unique index.
NeverTaken(h) == FALSE

\* The unique index.  Tickets have none, and invoices carry the month, not the day.
Taken(h) ==
    /\ h.kind # "ticket"
    /\ \E k \in DOMAIN docs[h.kind] : /\ docs[h.kind][k].number = h.number
                                      /\ docs[h.kind][k].day = h.day

-----------------------------------------------------------------------------
(* Requests for a document. *)

Running == {q \in Requests : req[q].pc \in {"check", "number", "insert"}}

\* Bound: a request reserves its row.
RoomFor(kind) ==
    \E m \in Mixes :
        /\ {kind} \cup {k \in Kinds : docs[k] # << >>}
                  \cup {req[q].kind : q \in Running} \subseteq m.kinds
        /\ Cardinality(Running) + MapThenSumSet(LAMBDA k : Len(docs[k]), Kinds) < m.docs

Begin(r, h) == /\ req[r].pc = "idle"
               /\ req' = [req EXCEPT ![r] = h]
End(r)      == req' = [req EXCEPT ![r] = Idle]

\* createPayment and createMergedPayment: nobody looks at the state of the shift.
RequestReceipt(r, b, s) ==
    /\ RoomFor("receipt")
    /\ s \in {0} \cup DOMAIN docs["shift"]
    /\ Begin(r, [Idle EXCEPT !.pc = "number", !.kind = "receipt", !.branch = b,
                             !.of = s])
    /\ UNCHANGED <<docs, clock, refused>>

RequestTicket(r, b) ==
    /\ RoomFor("ticket")
    /\ Begin(r, [Idle EXCEPT !.pc = "number", !.kind = "ticket", !.branch = b])
    /\ UNCHANGED <<docs, clock, refused>>

\* Mutation of OpenShifts: a shift left open on an earlier day is not seen.
OpenShiftsToday(b) ==
    {k \in DOMAIN docs["shift"] : /\ docs["shift"][k].branch = b
                                  /\ docs["shift"][k].status = "OPEN"
                                  /\ docs["shift"][k].local = clock.local}

OpenShifts(b) ==
    {k \in DOMAIN docs["shift"] : /\ docs["shift"][k].branch = b
                                  /\ docs["shift"][k].status = "OPEN"}

\* After the PIN, which is not modelled, the branch must have no open shift.
OpenShift(r, b) ==
    /\ RoomFor("shift")
    /\ OpenShifts(b) = {}
    /\ Begin(r, [Idle EXCEPT !.pc = "number", !.kind = "shift", !.branch = b])
    /\ UNCHANGED <<docs, clock, refused>>

\* TaxInvoiceService.create: the payment is read, and must be paid; the branch is
\* that of the caller.
RequestInvoice(r, b, p) ==
    /\ RoomFor("invoice")
    /\ docs["receipt"][p].status = "PAID"
    /\ Begin(r, [Idle EXCEPT !.pc = "check", !.kind = "invoice", !.branch = b,
                             !.of = p])
    /\ UNCHANGED <<docs, clock, refused>>

LiveInvoices(h) ==
    {k \in DOMAIN docs["invoice"] : /\ docs["invoice"][k].of = h.of
                                    /\ docs["invoice"][k].status = "VALID"}

CheckInvoice(r) ==
    /\ req[r].pc = "check"
    /\ IF LiveInvoices(req[r]) # {} THEN End(r)
       ELSE req' = [req EXCEPT ![r].pc = "number", ![r].raced = FALSE]
    /\ UNCHANGED <<docs, clock, refused>>

\* The number of a receipt or a ticket relies on this query alone; that of a
\* shift or an invoice also on the check before it.
ReadNumber(r) ==
    /\ req[r].pc = "number"
    /\ req' = [req EXCEPT ![r].pc = "insert",
                          ![r].number = NextNumber(req[r]),
                          ![r].day = IF req[r].kind \in {"receipt", "shift"}
                                     THEN clock.utc ELSE 0,
                          ![r].raced = req[r].kind \notin {"receipt", "ticket"}
                                       /\ req[r].raced]
    /\ UNCHANGED <<docs, clock, refused>>

\* What the database gives a row that says nothing about its status.
NewStatus(kind) == CASE kind = "receipt" -> "PAID"
                     [] kind = "shift"   -> "OPEN"
                     [] kind = "invoice" -> "VALID"
                     [] OTHER            -> "WAITING"

NewDoc(h) == [ branch |-> h.branch, day |-> h.day, local |-> clock.local,
               number |-> h.number, of |-> h.of, status |-> NewStatus(h.kind),
               counted |-> {}, raced |-> h.raced, late |-> FALSE ]

\* Shift s is closed, or its totals have been read.
Summed(s) == \/ docs["shift"][s].status = "CLOSED"
             \/ \E q \in Requests : req[q].pc = "close" /\ req[q].of = s

\* The shifts, after a payment of shift s has changed.
Disturbed(s) ==
    [k \in DOMAIN docs["shift"] |->
        IF k = s /\ Summed(s) THEN [docs["shift"][k] EXCEPT !.late = TRUE]
                              ELSE docs["shift"][k]]

\* Request g should have seen the document of request h.
Rivals(h, g) ==
    /\ g.kind = h.kind
    /\ g.branch = h.branch \/ (g.kind = "invoice" /\ g.of = h.of)

Insert(r) ==
    LET h == req[r] IN
    /\ h.pc = "insert"
    /\ ~Taken(h)
    /\ docs' = IF h.kind = "receipt"
               THEN [docs EXCEPT !["receipt"] = Append(@, NewDoc(h)),
                                 !["shift"] = Disturbed(h.of)]
               ELSE [docs EXCEPT ![h.kind] = Append(@, NewDoc(h))]
    /\ req' = [q \in Requests |->
                 IF q = r THEN Idle
                 ELSE [req[q] EXCEPT !.contended = @ \/ req[q].kind = h.kind,
                                     !.raced = @ \/ Rivals(h, req[q])]]
    /\ UNCHANGED <<clock, refused>>

\* Mutation of MayRetry: one attempt too many.
MayRetryOnceMore(h) == h.kind = "receipt" /\ h.attempt < MaxRetries

\* Only a receipt is tried again.
MayRetry(h) == h.kind = "receipt" /\ h.attempt < MaxRetries - 1

\* P2002: the number is taken.
Collide(r) ==
    LET h == req[r] IN
    /\ h.pc = "insert"
    /\ Taken(h)
    /\ IF MayRetry(h)
       THEN /\ req' = [req EXCEPT ![r] = [h EXCEPT !.pc = "number",
                                                   !.attempt = h.attempt + 1]]
            /\ UNCHANGED refused
       ELSE /\ End(r)
            /\ refused' = IF h.contended THEN refused ELSE refused \cup {h.kind}
    /\ UNCHANGED <<docs, clock>>

-----------------------------------------------------------------------------
(* The other operations on documents. *)

Refund(p) ==
    /\ docs["receipt"][p].status = "PAID"
    /\ docs' = [docs EXCEPT !["receipt"][p].status = "REFUNDED",
                            !["shift"] = Disturbed(docs["receipt"][p].of)]
    /\ UNCHANGED <<req, clock, refused>>

VoidInvoice(k) ==
    /\ docs["invoice"][k].status = "VALID"
    /\ docs' = [docs EXCEPT !["invoice"][k].status = "VOID"]
    /\ UNCHANGED <<req, clock, refused>>

CloseShift(r, s) ==
    /\ docs["shift"][s].status = "OPEN"
    /\ Begin(r, [Idle EXCEPT !.pc = "sum", !.of = s])
    /\ UNCHANGED <<docs, clock, refused>>

\* Mutation of PaymentsOf: refunded payments are added up as well.
AllPaymentsOf(s) == {k \in DOMAIN docs["receipt"] : docs["receipt"][k].of = s}

PaymentsOf(s) == {k \in DOMAIN docs["receipt"] : /\ docs["receipt"][k].of = s
                                                 /\ docs["receipt"][k].status = "PAID"}

SumShift(r) ==
    /\ req[r].pc = "sum"
    /\ req' = [req EXCEPT ![r].pc = "close",
                          ![r].counted = PaymentsOf(req[r].of)]
    /\ UNCHANGED <<docs, clock, refused>>

CloseWrite(r) ==
    /\ req[r].pc = "close"
    /\ docs' = [docs EXCEPT !["shift"][req[r].of].status = "CLOSED",
                            !["shift"][req[r].of].counted = req[r].counted]
    /\ End(r)
    /\ UNCHANGED <<clock, refused>>

\* East of Greenwich the server's day begins before that of UTC.
LocalMidnight ==
    /\ clock.local = clock.utc
    /\ clock.local < MaxDay
    /\ clock' = [clock EXCEPT !.local = clock.local + 1]
    /\ UNCHANGED <<docs, req, refused>>

UtcMidnight ==
    /\ clock.utc < clock.local
    /\ clock' = [clock EXCEPT !.utc = clock.local]
    /\ UNCHANGED <<docs, req, refused>>

-----------------------------------------------------------------------------
Init ==
    /\ docs = [k \in Kinds |-> << >>]
    /\ req = [r \in Requests |-> Idle]
    /\ clock = [local |-> 0, utc |-> 0]
    /\ refused = {}

HandlerStep(r) ==
    \/ CheckInvoice(r)
    \/ ReadNumber(r)
    \/ Insert(r)
    \/ Collide(r)
    \/ SumShift(r)
    \/ CloseWrite(r)

NewRequest(r, b) ==
    \/ \E s \in {0} \cup DOMAIN docs["shift"] : RequestReceipt(r, b, s)
    \/ RequestTicket(r, b)
    \/ OpenShift(r, b)
    \/ \E p \in DOMAIN docs["receipt"] : RequestInvoice(r, b, p)

Next ==
    \/ \E r \in Requests : \/ HandlerStep(r)
                           \/ \E b \in Branches : NewRequest(r, b)
                           \/ \E s \in DOMAIN docs["shift"] : CloseShift(r, s)
    \/ \E p \in DOMAIN docs["receipt"] : Refund(p)
    \/ \E k \in DOMAIN docs["invoice"] : VoidInvoice(k)
    \/ LocalMidnight
    \/ UtcMidnight

Spec == Init /\ [][Next]_vars

-----------------------------------------------------------------------------
(* Properties. *)

TypeOK ==
    /\ docs \in [Kinds -> Seq(Doc)]
    /\ req \in [Requests -> Handler]
    /\ clock \in [local : Nat, utc : Nat]
    /\ refused \subseteq Kinds \cup {"none"}

\* The receipts of a branch are numbered in the order they were issued within a
\* day of the server, whatever the other branches took and however often a
\* number collided, unless two requests of the branch overlapped or the digits
\* were used up.
ReceiptsInOrder ==
    \A j, k \in DOMAIN docs["receipt"] :
        LET a == docs["receipt"][j]
            b == docs["receipt"][k] IN
        (/\ j < k
         /\ a.branch = b.branch /\ a.day = b.day /\ a.local = b.local
         /\ a.number <= Limit["receipt"]) => a.number < b.number \/ b.raced

\* Two tickets of one branch and day have the same number only if their requests
\* overlapped.
TicketsDistinct ==
    \A j, k \in DOMAIN docs["ticket"] :
        LET a == docs["ticket"][j]
            b == docs["ticket"][k] IN
        (j < k /\ a.branch = b.branch /\ a.local = b.local)
            => a.number # b.number \/ b.raced

\* A branch has two open shifts only if the check of the second was overtaken.
OneOpenShift ==
    \A j, k \in DOMAIN docs["shift"] :
        (/\ j < k
         /\ docs["shift"][j].branch = docs["shift"][k].branch
         /\ docs["shift"][j].status = "OPEN"
         /\ docs["shift"][k].status = "OPEN") => docs["shift"][k].raced

\* A payment has two valid invoices only if the check of the second was overtaken.
OneLiveInvoice ==
    \A j, k \in DOMAIN docs["invoice"] :
        (/\ j < k
         /\ docs["invoice"][j].of = docs["invoice"][k].of
         /\ docs["invoice"][j].status = "VALID"
         /\ docs["invoice"][k].status = "VALID") => docs["invoice"][k].raced

\* What is read before an insert excludes a second ticket with the number, a
\* second open shift and a second valid invoice, unless it was overtaken.
ChecksExclude == TicketsDistinct /\ OneOpenShift /\ OneLiveInvoice

\* The invoices of a month are numbered 1, 2, 3... without a gap or a repetition,
\* however the requests interleave.
InvoicesGapless ==
    \A k \in DOMAIN docs["invoice"] : docs["invoice"][k].number = k

\* A month has the invoices of one branch only: that of another would take the
\* number 1, which the first branch has, and is refused.
OneBranchInvoices ==
    \A j, k \in DOMAIN docs["invoice"] :
        docs["invoice"][j].branch = docs["invoice"][k].branch

\* The invoices of a month are one series of one branch.
InvoicesInSeries == InvoicesGapless /\ OneBranchInvoices

\* A shift is closed with the totals of exactly its paid payments, unless one of
\* them came or was refunded after they were read.
ClosedShiftAdds ==
    \A s \in DOMAIN docs["shift"] :
        docs["shift"][s].status = "CLOSED" /\ ~docs["shift"][s].late =>
            \A k \in DOMAIN docs["receipt"] :
                (k \in docs["shift"][s].counted) <=>
                    (/\ docs["receipt"][k].of = s
                     /\ docs["receipt"][k].status = "PAID")

-----------------------------------------------------------------------------
(* What the code says of the attempts at a receipt, and one run refutes. *)

\* "Create payment with retry on receipt number collision": no payment is refused
\* for its number while nobody else takes one.
RetryAvoidsCollision == "receipt" \notin refused
=============================================================================
