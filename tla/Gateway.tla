------------------------------ MODULE Gateway -------------------------------
(***************************************************************************)
(* PaymentGatewayService and its mock provider: charges are opened with    *)
(* the provider and then written to the books, polled or completed by      *)
(* hand, and their completion is announced.  The provider's memory is a    *)
(* map in the process: a restart empties it, and not the books.  Amounts   *)
(* and QR codes are left out; ten seconds may or may not have passed when  *)
(* the provider is asked.                                                  *)
(***************************************************************************)
EXTENDS Handlers

CONSTANT Transactions   \* the ids that will be drawn

VARIABLES
    provider,    \* the map of the provider; "lost" is an id it has forgotten
    tx,          \* the rows GatewayTransaction
    settled,     \* history: the ids found paid, or declared paid by hand
    announced,   \* history: how often the completion of each was announced
    txNotes      \* history: what has happened to each

gatewayVars == <<provider, tx, settled, announced, txNotes>>

TxNotes == {"overlap", "by hand", "again", "crash"}

AskSteps == {"txAsk", "txForce", "txSettle", "txTell"}

GatewayHandler == [pc : {"txCreate"} \cup AskSteps, tx : Transactions]

About(t) == {r \in Busy(AskSteps) : req[r].tx = t}

NoteTx(t, why, condition) ==
    txNotes' = [txNotes EXCEPT ![t] = IF condition THEN @ \cup {why} ELSE @]

-----------------------------------------------------------------------------
(* initiatePayment: the provider first, then the row. *)

InitiatePayment(r, t) ==
    /\ provider[t] = "unused"
    /\ Begin(r, "initiate", [pc |-> "txCreate", tx |-> t])
    /\ provider' = [provider EXCEPT ![t] = "PENDING"]
    /\ UNCHANGED <<tx, settled, announced, txNotes>>

CreateTx(r) ==
    /\ req[r].pc = "txCreate"
    /\ tx' = [tx EXCEPT ![req[r].tx] = "PENDING"]
    /\ End(r)
    /\ UNCHANGED <<provider, settled, announced, txNotes>>

-----------------------------------------------------------------------------
(* checkStatus.  An id without a row, or completed, is answered at once. *)

CheckStatus(r, t) ==
    /\ tx[t] = "PENDING"
    /\ Begin(r, "poll", [pc |-> "txAsk", tx |-> t])
    /\ NoteTx(t, "overlap", About(t) # {})
    /\ UNCHANGED <<provider, tx, settled, announced>>

\* Mutation of Known: an id that is not in the map is taken for a paid one.
KnownAlways(t) == TRUE

Known(t) == provider[t] \in {"PENDING", "COMPLETED"}

\* MockPaymentProvider.checkStatus: a pending payment completes with the poll
\* that finds its time has come.
AskProvider(r) ==
    LET t == req[r].tx IN
    /\ req[r].pc = "txAsk"
    /\ \/ /\ Known(t)
          /\ provider' = [provider EXCEPT ![t] = IF @ = "PENDING" THEN "COMPLETED" ELSE @]
          /\ settled' = settled \cup {t}
          /\ Goto(r, "txSettle")
       \/ /\ provider[t] # "COMPLETED"
          /\ End(r)
          /\ UNCHANGED <<provider, settled>>
    /\ UNCHANGED <<tx, announced, txNotes>>

\* Mutation of SettleTx: the write of the row is forgotten.
SettleTxForgotten(r) ==
    /\ req[r].pc = "txSettle"
    /\ Goto(r, "txTell")
    /\ UNCHANGED gatewayVars

\* The row is completed whatever it is by now.
SettleTx(r) ==
    /\ req[r].pc = "txSettle"
    /\ tx' = [tx EXCEPT ![req[r].tx] = "COMPLETED"]
    /\ Goto(r, "txTell")
    /\ UNCHANGED <<provider, settled, announced, txNotes>>

\* Mutation of Told: a completion found by a poll is not announced.
ToldNobody(n) == n

Told(n) == n + 1

TellTx(r) ==
    /\ req[r].pc = "txTell"
    /\ announced' = [announced EXCEPT ![req[r].tx] = Told(@)]
    /\ End(r)
    /\ UNCHANGED <<provider, tx, settled, txNotes>>

-----------------------------------------------------------------------------
(* simulateComplete, whatever the row and the provider say. *)

Simulate(r, t) ==
    /\ tx[t] # "none"
    /\ Begin(r, "simulate", [pc |-> "txForce", tx |-> t])
    /\ txNotes' = [txNotes EXCEPT ![t] =
          @ \cup {"by hand"} \cup (IF About(t) # {} THEN {"overlap"} ELSE {})
            \cup (IF tx[t] = "COMPLETED" THEN {"again"} ELSE {})]
    /\ UNCHANGED <<provider, tx, settled, announced>>

ForceTx(r) ==
    LET t == req[r].tx IN
    /\ req[r].pc = "txForce"
    /\ provider' = [provider EXCEPT ![t] = IF @ = "PENDING" THEN "COMPLETED" ELSE @]
    /\ settled' = settled \cup {t}
    /\ Goto(r, "txSettle")
    /\ UNCHANGED <<tx, announced, txNotes>>

-----------------------------------------------------------------------------
GatewayFault(r) ==
    /\ req[r].pc \in {"txCreate", "txSettle"}
    /\ Throw(r)
    /\ UNCHANGED gatewayVars

\* The part of a restart of the process: handlers end, the map is empty.
GatewayRestart ==
    /\ provider' = [t \in Transactions |->
                      IF provider[t] = "unused" THEN "unused" ELSE "lost"]
    /\ txNotes' = [t \in Transactions |->
                     IF \E r \in About(t) : req[r].pc = "txTell"
                     THEN txNotes[t] \cup {"crash"} ELSE txNotes[t]]
    /\ UNCHANGED <<tx, settled, announced>>

GatewayInit ==
    /\ provider = [t \in Transactions |-> "unused"]
    /\ tx = [t \in Transactions |-> "none"]
    /\ settled = {}
    /\ announced = [t \in Transactions |-> 0]
    /\ txNotes = [t \in Transactions |-> {}]

GatewayStep(r) ==
    \/ CreateTx(r)
    \/ AskProvider(r)
    \/ SettleTx(r)
    \/ TellTx(r)
    \/ ForceTx(r)

GatewayNext ==
    \E r \in Requests :
        \/ GatewayStep(r)
        \/ GatewayFault(r)
        \/ \E t \in Transactions : InitiatePayment(r, t) \/ CheckStatus(r, t)
                                     \/ Simulate(r, t)

-----------------------------------------------------------------------------
(* Properties. *)

GatewayTypeOK ==
    /\ provider \in [Transactions -> {"unused", "PENDING", "COMPLETED", "lost"}]
    /\ tx \in [Transactions -> {"none", "PENDING", "COMPLETED"}]
    /\ settled \subseteq Transactions
    /\ announced \in [Transactions -> Nat]
    /\ txNotes \in [Transactions -> SUBSET TxNotes]

\* A completed charge has been announced once when nobody is at work on it,
\* although any number of polls may find it paid: never, only if the process
\* died between the row and the announcement, and twice, only if two handlers
\* overlapped or somebody completed it again by hand.
CompletionAnnounced ==
    \A t \in Transactions : About(t) = {} /\ tx[t] = "COMPLETED" =>
        /\ announced[t] = 0 => "crash" \in txNotes[t]
        /\ announced[t] > 1 => {"overlap", "again"} \cap txNotes[t] # {}

\* A charge that the provider has forgotten in a restart is not completed by any
\* poll: it stays pending until somebody completes it by hand.
ForgottenStaysPending ==
    [][\A t \in Transactions :
          (provider[t] = "lost" /\ tx[t] = "PENDING" /\ tx'[t] = "COMPLETED")
              => "by hand" \in txNotes[t]]_gatewayVars

C == INSTANCE Charge
       WITH opened <- {t \in Transactions : tx[t] # "none"},
            booked <- {t \in Transactions : tx[t] = "COMPLETED"},
            told <- {t \in Transactions : announced[t] > 0}

\* The gateway implements Charge: no interleaving of polls, completions by hand,
\* failed writes and restarts books a charge that nobody found paid, announces
\* one that is not booked, or takes one back.
GatewayIsCharge == C!Spec
=============================================================================
