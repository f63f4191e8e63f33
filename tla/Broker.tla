------------------------------- MODULE Broker -------------------------------
(***************************************************************************)
(* The message broker as the service uses it: the adapter that publishes,  *)
(* the durable queues, and RabbitMQConsumer, which logs each event in two  *)
(* writes.  A message that is not acknowledged when the connection breaks  *)
(* is delivered again, while its first handler may still be at work.  The  *)
(* three queues are one set: their handlers are the same and overtake each *)
(* other within a queue, too.                                              *)
(***************************************************************************)
EXTENDS OrderEvents

VARIABLES
    link,          \* the connection; "broken" is not noticed yet
    queue,         \* the events that wait in the durable queues
    log,           \* the rows MqEventLog
    brokerNotes    \* history: the events whose handler failed or died

brokerVars == <<link, queue, log, brokerNotes>>

LogRow == [event : Nat, status : {"RECEIVED", "PROCESSED", "FAILED"}]

LogSteps == {"logInsert", "logMark", "logFail"}

\* held: the broker still waits for the acknowledgement of this delivery.
LogHandler == [pc : LogSteps, event : Nat, row : Nat, held : BOOLEAN]

Held == {req[r].event : r \in {q \in Busy(LogSteps) : req[q].held}}

-----------------------------------------------------------------------------
\* publish, for event n: dropped when the connection is known to be down, and
\* lost, with a line in a file, when it breaks on the way.
Publish(n) == queue' = IF link = "up" THEN queue \cup {n} ELSE queue

BreakLink ==
    /\ link = "up"
    /\ Spend("break")
    /\ link' = "broken"
    /\ queue' = queue \cup Held
    /\ req' = [r \in Requests |-> IF req[r].pc \in LogSteps
                                  THEN [req[r] EXCEPT !.held = FALSE] ELSE req[r]]
    /\ UNCHANGED <<log, brokerNotes>>

NoticeLink ==
    /\ link = "broken"
    /\ link' = "down"
    /\ UNCHANGED <<req, load, queue, log, brokerNotes>>

\* The connection manager tries until the broker is back.
Connect ==
    /\ link = "down"
    /\ Spend("connect")
    /\ link' = "up"
    /\ UNCHANGED <<req, queue, log, brokerNotes>>

-----------------------------------------------------------------------------
(* processEvent. *)

Deliver(r, n) ==
    /\ link = "up"
    /\ n \in queue
    /\ Free(r)
    /\ queue' = queue \ {n}
    /\ Become(r, [pc |-> "logInsert", event |-> n, row |-> 0, held |-> TRUE])
    /\ UNCHANGED <<link, log, brokerNotes>>

\* Mutation of Logged: the column eventId is not unique.
LoggedNever(n) == FALSE

\* The column eventId is unique.
Logged(n) == \E k \in DOMAIN log : log[k].event = n

\* A second row for the event is refused; the error is swallowed, and so is the
\* message.
LogInsert(r) ==
    LET n == req[r].event IN
    /\ req[r].pc = "logInsert"
    /\ IF Logged(n)
       THEN End(r) /\ UNCHANGED log
       ELSE /\ log' = Append(log, [event |-> n, status |-> "RECEIVED"])
            /\ Become(r, [req[r] EXCEPT !.pc = "logMark", !.row = Len(log) + 1])
    /\ UNCHANGED <<link, queue, brokerNotes>>

\* Mutation of LogMark: the row keeps its status.
LogMarkForgotten(r) ==
    /\ req[r].pc = "logMark"
    /\ End(r)
    /\ UNCHANGED brokerVars

LogMark(r) ==
    /\ req[r].pc = "logMark"
    /\ log' = [log EXCEPT ![req[r].row].status = "PROCESSED"]
    /\ End(r)
    /\ UNCHANGED <<link, queue, brokerNotes>>

LogMarkFails(r) ==
    /\ req[r].pc = "logMark"
    /\ Spend("fault")
    /\ req' = [req EXCEPT ![r].pc = "logFail"]
    /\ UNCHANGED brokerVars

LogFail(r) ==
    /\ req[r].pc = "logFail"
    /\ log' = [log EXCEPT ![req[r].row].status = "FAILED"]
    /\ End(r)
    /\ UNCHANGED <<link, queue, brokerNotes>>

\* The first or the last query fails: nothing is thrown, the message is gone.
LogGivesUp(r) ==
    /\ req[r].pc \in {"logInsert", "logFail"}
    /\ Throw(r)
    /\ brokerNotes' = brokerNotes \cup {req[r].event}
    /\ UNCHANGED <<link, queue, log>>

\* The part of a restart: what was not acknowledged will be delivered again.
BrokerRestart ==
    /\ link' = "down"
    /\ queue' = queue \cup Held
    /\ brokerNotes' = brokerNotes
          \cup {req[r].event : r \in Busy({"logMark", "logFail"})}
    /\ UNCHANGED log

-----------------------------------------------------------------------------
BrokerInit ==
    /\ link = "down"
    /\ queue = {}
    /\ log = << >>
    /\ brokerNotes = {}

BrokerStep(r) == LogInsert(r) \/ LogMark(r) \/ LogFail(r)

BrokerNext ==
    \/ BreakLink
    \/ NoticeLink
    \/ Connect
    \/ \E r \in Requests : \/ BrokerStep(r)
                           \/ LogMarkFails(r)
                           \/ LogGivesUp(r)
                           \/ \E n \in queue : Deliver(r, n)

-----------------------------------------------------------------------------
(* Properties. *)

BrokerTypeOK ==
    /\ link \in {"up", "broken", "down"}
    /\ queue \subseteq DOMAIN events
    /\ log \in Seq(LogRow)
    /\ brokerNotes \subseteq DOMAIN events

\* An event is in the log once, however often its message is delivered; and a row
\* whose handlers are gone is settled, unless they failed or died on the way: a
\* message that is delivered again finds its row and does not finish it.
EventLoggedOnce ==
    \A j \in DOMAIN log :
        /\ \A k \in DOMAIN log : log[j].event = log[k].event => j = k
        /\ log[j].status = "RECEIVED" =>
              \/ log[j].event \in brokerNotes
              \/ \E r \in Busy({"logMark", "logFail"}) : req[r].row = j

\* An event that reached the broker is processed or failed in the log in the end,
\* through broken connections and second deliveries, unless its handler gave up
\* or died with a restart after it had inserted the row.
QueuedIsSettled ==
    \A n \in 1..MaxEvents :
        n \in queue ~> \/ n \in brokerNotes
                       \/ \E k \in DOMAIN log : /\ log[k].event = n
                                                 /\ log[k].status # "RECEIVED"
=============================================================================
