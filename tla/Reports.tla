------------------------------ MODULE Reports -------------------------------
(***************************************************************************)
(* The statistics of the queue, the orders, the requests and the tables: a *)
(* report counts the rows in each status with a query of its own, all      *)
(* started together and in no transaction, and adds the counts up.  The    *)
(* report on the queue and that on the orders ask for every status; that   *)
(* on the tables asks for AVAILABLE, OCCUPIED and RESERVED only, and its   *)
(* total is without the tables in BILLING and in CLEANING.                 *)
(* Tickets stand for the rows of one of these four tables, which may move  *)
(* from any status to any other one, or be deleted, as a table may be: the *)
(* services change a status in fewer ways, and their tables differ in the  *)
(* report only by the statuses there are and those that are asked for. The *)
(* counts by type beside the total of the requests, the branch and the day *)
(* that select the rows, waiting times, and the reports that read the rows *)
(* in one query (revenue, payments, shifts) are left out.                  *)
(***************************************************************************)
EXTENDS Handlers

CONSTANTS
    Tickets,    \* the rows that may be created
    Kind        \* the table they are rows of

ASSUME ReportsAssumption ==
    /\ Kind \in {"queue", "order", "request", "table"}
    /\ IsFiniteSet(Tickets)

\* The statuses that each of the statistics asks for.
QueueStats == {"WAITING", "PREPARING", "READY", "COMPLETED", "CANCELLED"}
OrderStats == {"PREPARING", "COMPLETED", "DELIVERED", "CANCELLED"}
RequestStats == {"PENDING", "COMPLETED"}
TableStats == {"AVAILABLE", "OCCUPIED", "RESERVED"}

Queried == [queue |-> QueueStats, order |-> OrderStats,
            request |-> RequestStats, table |-> TableStats][Kind]

\* The statuses there are.
Columns == Queried \cup IF Kind = "table" THEN {"BILLING", "CLEANING"} ELSE {}

\* The status of a new row.
First == [queue |-> "WAITING", order |-> "PREPARING",
          request |-> "PENDING", table |-> "AVAILABLE"][Kind]

VARIABLES
    ticket,     \* the status of each row
    answered    \* the last report, with its history

reportVars == <<ticket, answered>>

\* left: the statuses still to be counted.  before and moves: history, how many rows
\* had a status that is asked for when the report began, and how often a row has moved
\* since.
ReportHandler == [ pc : {"count"}, left : SUBSET Queried,
                   total : Nat, before : Nat, moves : Nat ]

\* after: history, how many rows have such a status when the report ends.
Answered == [total : Nat, before : Nat, after : Nat, moves : Nat]

Having(S) == {t \in Tickets : ticket[t] \in S}
Counted(c) == Cardinality({t \in Tickets : ticket[t] = c})

\* create of the four services.
CreateTicket(t) ==
    /\ ticket[t] = "none"
    /\ Spend("ticket")
    /\ ticket' = [ticket EXCEPT ![t] = First]
    /\ UNCHANGED <<req, answered>>

\* updateStatus and callQueue, from whatever status the row is in; "none" deletes it.
MoveTicket(t, c) ==
    /\ ticket[t] \notin {"none", c}
    /\ Spend("move")
    /\ ticket' = [ticket EXCEPT ![t] = c]
    /\ req' = [r \in Requests |-> IF req[r].pc = "count"
                                  THEN [req[r] EXCEPT !.moves = @ + 1] ELSE req[r]]
    /\ UNCHANGED answered

\* getQueueStats, getOrderStats, getRequestStats and getTableStats.
GetStats(r) ==
    /\ Begin(r, "stats", [pc |-> "count", left |-> Queried, total |-> 0,
                          before |-> Cardinality(Having(Queried)), moves |-> 0])
    /\ UNCHANGED reportVars

\* Mutation of CountOne: one query does not select by the status.
CountOneAll(r, c) ==
    /\ req[r].pc = "count"
    /\ c \in req[r].left
    /\ Become(r, [req[r] EXCEPT !.left = @ \ {c},
                                !.total = @ + IF c = First THEN Cardinality(Having(Columns))
                                              ELSE Counted(c)])
    /\ UNCHANGED reportVars

\* The queries of Promise.all run in any order.
CountOne(r, c) ==
    /\ req[r].pc = "count"
    /\ c \in req[r].left
    /\ Become(r, [req[r] EXCEPT !.left = @ \ {c}, !.total = @ + Counted(c)])
    /\ UNCHANGED reportVars

Answer(r) ==
    /\ req[r].pc = "count"
    /\ req[r].left = {}
    /\ answered' = [total |-> req[r].total, before |-> req[r].before,
                    after |-> Cardinality(Having(Queried)), moves |-> req[r].moves]
    /\ End(r)
    /\ UNCHANGED ticket

ReportInit ==
    /\ ticket = [t \in Tickets |-> "none"]
    /\ answered = Idle

ReportNext ==
    \/ \E r \in Requests : \/ GetStats(r) \/ Answer(r)
                           \/ \E c \in Queried : CountOne(r, c)
    \/ \E t \in Tickets : \/ CreateTicket(t)
                          \/ \E c \in Columns \cup {"none"} : MoveTicket(t, c)

-----------------------------------------------------------------------------
(* Properties. *)

ReportTypeOK ==
    /\ ticket \in [Tickets -> Columns \cup {"none"}]
    /\ answered \in Answered \cup {Idle}

\* A report is not a picture of one moment, but it is off by no more than what has
\* moved while it ran: a row that moves once is counted once too often or not at
\* all, and without a move the total lies between the rows there were when the
\* report began and those there are when it ends.  The rows are those in the
\* statuses asked for: the tables in BILLING and CLEANING are in no total.
CountsAddUp ==
    answered # Idle =>
        /\ answered.total >= answered.before - answered.moves
        /\ answered.total <= answered.after + answered.moves
=============================================================================
