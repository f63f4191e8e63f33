------------------------------- MODULE Charge -------------------------------
(***************************************************************************)
(* What a payment gateway promises: a charge is opened, settled with the   *)
(* provider or by hand, booked as completed and only then announced, and   *)
(* none of this is undone.  Gateway implements it.                         *)
(***************************************************************************)
CONSTANT Transactions

VARIABLES
    opened,    \* the charges the books know
    settled,   \* the charges that were paid, or declared paid
    booked,    \* the charges the books have as completed
    told       \* the charges whose completion was announced

chargeVars == <<opened, settled, booked, told>>

Init == opened = {} /\ settled = {} /\ booked = {} /\ told = {}

Open(t) ==
    /\ t \notin opened
    /\ opened' = opened \cup {t}
    /\ UNCHANGED <<settled, booked, told>>

Settle(t) ==
    /\ t \in opened
    /\ settled' = settled \cup {t}
    /\ UNCHANGED <<opened, booked, told>>

Book(t) ==
    /\ t \in settled
    /\ booked' = booked \cup {t}
    /\ UNCHANGED <<opened, settled, told>>

Tell(t) ==
    /\ t \in booked
    /\ told' = told \cup {t}
    /\ UNCHANGED <<opened, settled, booked>>

Next == \E t \in Transactions : Open(t) \/ Settle(t) \/ Book(t) \/ Tell(t)

Spec == Init /\ [][Next]_chargeVars
=============================================================================
