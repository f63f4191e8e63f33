------------------------------ MODULE Handlers ------------------------------
(***************************************************************************)
(* The slots in which request handlers and background tasks run, for the   *)
(* modules about announcements and the back office.  A handler is a record *)
(* of its program counter pc and the local variables it needs; it moves    *)
(* from one await to the next, and other slots move in between.            *)
(***************************************************************************)
EXTENDS Integers, Sequences, FiniteSetsExt

CONSTANTS
    Requests,   \* slots for handlers that run at the same time
    Loads       \* bound: how many requests and faults of each kind may arrive

VARIABLES
    req,    \* the handler running in each slot
    load    \* what may still arrive, of each kind

handlerVars == <<req, load>>

Idle == [pc |-> "idle"]

Free(r) == req[r] = Idle

Spend(kind) == load[kind] > 0 /\ load' = [load EXCEPT ![kind] = @ - 1]

Begin(r, kind, h) ==
    /\ Free(r)
    /\ Spend(kind)
    /\ req' = [req EXCEPT ![r] = h]

\* The handler in slot r goes on as h, or has answered.
Become(r, h) == req' = [req EXCEPT ![r] = h] /\ UNCHANGED load
Goto(r, pc) == Become(r, [req[r] EXCEPT !.pc = pc])
End(r) == Become(r, Idle)

\* A query of the handler fails and the handler with it.
Throw(r) == Spend("fault") /\ req' = [req EXCEPT ![r] = Idle]

Busy(pcs) == {r \in Requests : req[r].pc \in pcs}

HandlersInit == /\ req = [r \in Requests |-> Idle]
                /\ load \in Loads
=============================================================================
