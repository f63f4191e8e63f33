------------------------------ MODULE Webhooks ------------------------------
(***************************************************************************)
(* WebhooksService: the endpoints of other systems, the dispatch of an     *)
(* event to those that want it, three attempts at each delivery, and one   *)
(* row in the log for it.  Dispatch and delivery are background tasks that *)
(* nobody waits for.  An attempt that fails may have been received, even   *)
(* acknowledged, all the same.  Signatures, headers, the back-off between attempts and the       *)
(* branch of an endpoint are left out.                                     *)
(***************************************************************************)
EXTENDS OrderEvents

CONSTANTS
    Endpoints,
    Wants,         \* the keys each endpoint has asked for
    MaxAttempts    \* three in the code

ASSUME WebhooksAssumption == MaxAttempts \in Nat \ {0}

VARIABLES
    hook,          \* the rows WebhookEndpoint: their column isActive
    dispatching,   \* events whose endpoints are being looked up
    job,           \* the delivery of each event to each endpoint; 0 is a test
    rows,          \* the rows WebhookDelivery
    hookNotes      \* history: deliveries that failed or died, and endpoints edited

webhookVars == <<hook, dispatching, job, rows, hookNotes>>

\* copies, acks and broken: history, how often the endpoint has received the event,
\* has acknowledged it, and has done so with a body that broke off.
NoJob == [ pc |-> "none", attempt |-> 1, success |-> FALSE, error |-> "none",
           answer |-> "none", copies |-> 0, acks |-> 0, broken |-> 0 ]

Job == [ pc : {"none", "try", "body", "save", "done"}, attempt : 1..MaxAttempts,
         success : BOOLEAN, error : {"none", "http", "network"},
         answer : {"none", "ok", "bad"}, copies : Nat, acks : Nat, broken : Nat ]

Row == [ event : 0..MaxEvents, hook : Endpoints, success : BOOLEAN,
         attempts : Nat, error : {"none", "http", "network"},
         answer : {"none", "ok", "bad"} ]

-----------------------------------------------------------------------------
(* dispatchEvent and testWebhook. *)

\* The listener of an event starts its dispatch.
Dispatch(n) == dispatching' = dispatching \cup {n}

Wanted(w, n) == hook[w] = "active" /\ Key(events[n]) \in Wants[w]

FindHooks(n) ==
    /\ n \in dispatching
    /\ dispatching' = dispatching \ {n}
    /\ job' = [job EXCEPT ![n] = [w \in Endpoints |->
                 IF Wanted(w, n) THEN [NoJob EXCEPT !.pc = "try"] ELSE NoJob]]
    /\ UNCHANGED <<req, load, hook, rows, hookNotes>>

TestWebhook(w) ==
    /\ hook[w] # "none"
    /\ job[0][w].pc = "none"
    /\ Spend("test")
    /\ job' = [job EXCEPT ![0][w].pc = "try"]
    /\ UNCHANGED <<req, hook, dispatching, rows, hookNotes>>

-----------------------------------------------------------------------------
(* deliverPayload. *)

\* The answer of an endpoint arrives: its code, but not yet its body.
Answers(j) ==
    LET sent == [j EXCEPT !.pc = "body", !.copies = @ + 1] IN
    { [sent EXCEPT !.answer = "ok", !.acks = @ + 1],
      [sent EXCEPT !.answer = "bad"] }

\* No answer arrives before the timeout, whether or not the event was received; the
\* code of an earlier attempt stays.
Silences(j) ==
    LET failed == [j EXCEPT !.error = "network"] IN
    { failed, [failed EXCEPT !.copies = @ + 1] }

\* The body of an answer is read or breaks off, which is an error whatever the code.
BodyRead(j) == IF j.answer = "ok" THEN [j EXCEPT !.success = TRUE]
               ELSE [j EXCEPT !.error = "http"]

BodyBroken(j) ==
    [j EXCEPT !.error = "network", !.broken = IF j.answer = "ok" THEN @ + 1 ELSE @]

\* Mutation of After: the attempts are not counted.
AfterMany(j) == IF j.success THEN [j EXCEPT !.pc = "save"]
                ELSE [j EXCEPT !.pc = "try", !.attempt = @ + 1]

\* Mutation of After: a delivery that succeeded is attempted again.
AfterAll(j) == IF j.attempt = MaxAttempts THEN [j EXCEPT !.pc = "save"]
               ELSE [j EXCEPT !.pc = "try", !.attempt = @ + 1]

After(j) == IF j.success \/ j.attempt = MaxAttempts THEN [j EXCEPT !.pc = "save"]
            ELSE [j EXCEPT !.pc = "try", !.attempt = @ + 1]

Attempt(n, w) ==
    /\ job[n][w].pc = "try"
    /\ \E j \in Answers(job[n][w]) \cup {After(k) : k \in Silences(job[n][w])} :
          job' = [job EXCEPT ![n][w] = j]
    /\ UNCHANGED <<req, load, hook, dispatching, rows, hookNotes>>

\* The timer was cleared when the answer arrived, so a body may go on for ever.
ReadBody(n, w) ==
    /\ job[n][w].pc = "body"
    /\ \E j \in {BodyRead(job[n][w]), BodyBroken(job[n][w])} :
          job' = [job EXCEPT ![n][w] = After(j)]
    /\ UNCHANGED <<req, load, hook, dispatching, rows, hookNotes>>

\* A success is logged as one attempt, whichever it was.
RowOf(n, w) ==
    LET j == job[n][w] IN
    [ event |-> n, hook |-> w, success |-> j.success,
      attempts |-> IF j.success THEN 1 ELSE MaxAttempts,
      error |-> j.error, answer |-> j.answer ]

\* Mutation of SaveRow: only successes are logged.
SaveSuccess(n, w) ==
    /\ job[n][w].pc = "save"
    /\ job' = [job EXCEPT ![n][w].pc = "done"]
    /\ rows' = IF job[n][w].success THEN rows \cup {RowOf(n, w)} ELSE rows
    /\ UNCHANGED <<req, load, hook, dispatching, hookNotes>>

\* The row needs its endpoint, which may have been removed.
SaveRow(n, w) ==
    /\ job[n][w].pc = "save"
    /\ job' = [job EXCEPT ![n][w].pc = "done"]
    /\ rows' = IF hook[w] # "none" THEN rows \cup {RowOf(n, w)} ELSE rows
    /\ UNCHANGED <<req, load, hook, dispatching, hookNotes>>

DeliveryFault(n) ==
    /\ Spend("fault")
    /\ \/ /\ n \in dispatching
          /\ dispatching' = dispatching \ {n}
          /\ hookNotes' = hookNotes \cup {n}
          /\ UNCHANGED job
       \/ \E w \in Endpoints :
             /\ job[n][w].pc = "save"
             /\ job' = [job EXCEPT ![n][w].pc = "done"]
             /\ hookNotes' = hookNotes \cup {n}
             /\ UNCHANGED dispatching
    /\ UNCHANGED <<req, hook, rows>>

-----------------------------------------------------------------------------
(* create, update and remove. *)

\* A new endpoint, or one switched on or off.
SetHook(w, active) ==
    /\ hook[w] # active
    /\ Spend("edit")
    /\ hook' = [hook EXCEPT ![w] = active]
    /\ hookNotes' = hookNotes \cup {w}
    /\ UNCHANGED <<req, dispatching, job, rows>>

\* Its rows go with it.
RemoveHook(w) ==
    /\ hook[w] # "none"
    /\ Spend("edit")
    /\ hook' = [hook EXCEPT ![w] = "none"]
    /\ rows' = {d \in rows : d.hook # w}
    /\ hookNotes' = hookNotes \cup {w}
    /\ UNCHANGED <<req, dispatching, job>>

\* The part of a restart: dispatches and deliveries end where they are.
WebhookRestart ==
    LET running == {n \in 0..MaxEvents : \/ n \in dispatching
                                          \/ \E w \in Endpoints :
                                                job[n][w].pc \in {"try", "body", "save"}} IN
    /\ dispatching' = {}
    /\ job' = [n \in 0..MaxEvents |-> [w \in Endpoints |->
                 IF job[n][w].pc = "none" THEN NoJob
                 ELSE [job[n][w] EXCEPT !.pc = "done"]]]
    /\ hookNotes' = hookNotes \cup running
    /\ UNCHANGED <<hook, rows>>

-----------------------------------------------------------------------------
\* Bound: a load says whether the endpoints are there from the beginning.
WebhookInit ==
    /\ hook = [w \in Endpoints |-> IF load["hooked"] > 0 THEN "active" ELSE "none"]
    /\ dispatching = {}
    /\ job = [n \in 0..MaxEvents |-> [w \in Endpoints |-> NoJob]]
    /\ rows = {}
    /\ hookNotes = {}

\* What an endpoint cannot put off.
WebhookStep(n) ==
    \/ FindHooks(n)
    \/ \E w \in Endpoints : Attempt(n, w) \/ SaveRow(n, w)

WebhookNext ==
    \/ \E n \in 0..MaxEvents : \/ WebhookStep(n)
                               \/ \E w \in Endpoints : ReadBody(n, w)
                               \/ DeliveryFault(n)
    \/ \E w \in Endpoints : \/ TestWebhook(w)
                            \/ RemoveHook(w)
                            \/ \E active \in {"active", "inactive"} : SetHook(w, active)

-----------------------------------------------------------------------------
(* Properties. *)

WebhookTypeOK ==
    /\ hook \in [Endpoints -> {"none", "active", "inactive"}]
    /\ dispatching \subseteq DOMAIN events
    /\ job \in [0..MaxEvents -> [Endpoints -> Job]]
    /\ rows \subseteq Row
    /\ hookNotes \subseteq (0..MaxEvents) \cup Endpoints

\* What the log says of a delivery: a success was acknowledged in the last attempt,
\* and besides that, as in a failure, only answers whose body broke off were; a
\* failure with the code of a success is such an answer; no event is sent more often
\* than the attempts allow; and where the column attempts hides a repetition, the
\* column error shows it.
RowTellsTheOutcome ==
    \A d \in rows :
        LET j == job[d.event][d.hook] IN
        /\ j.acks = j.broken + (IF d.success THEN 1 ELSE 0)
        /\ ~ d.success /\ d.answer = "ok" => j.broken > 0
        /\ j.copies <= MaxAttempts
        /\ d.success /\ j.copies > 1 => d.error # "none"

\* An event that is announced gets a row for every endpoint that wants it, unless
\* the endpoint was edited, a restart or a failed query ended the delivery, or the
\* body of an answer never ends.
WantedIsLogged ==
    \A n \in 1..MaxEvents, w \in Endpoints :
        []<>(job[n][w].pc # "body") =>
            ((n \in dispatching /\ Wanted(w, n)) ~>
                \/ {n, w} \cap hookNotes # {}
                \/ \E d \in rows : d.event = n /\ d.hook = w)
=============================================================================
