----------------------------- MODULE MCDelivery -----------------------------
(***************************************************************************)
(* Instances of Delivery for TLC.                                          *)
(***************************************************************************)
EXTENDS Delivery, TLC

Nothing == [ create |-> 0, update |-> 0, bump |-> 0, split |-> 0, silent |-> 0,
             connect |-> 0, break |-> 0, fault |-> 0, restart |-> 0,
             hooked |-> 0, test |-> 0, edit |-> 0,
             initiate |-> 0, poll |-> 0, simulate |-> 0 ]

\* One load for each question: what is told of an order that several write;
\* deliveries with edits and with a restart; messages through broken connections
\* and restarts; charges.
MCLoads ==
    { [Nothing EXCEPT !.create = 1, !.update = 2, !.fault = 1],
      [Nothing EXCEPT !.create = 1, !.update = 1, !.bump = 1],
      [Nothing EXCEPT !.create = 1, !.update = 1, !.silent = 1, !.restart = 1],
      [Nothing EXCEPT !.create = 1, !.split = 1, !.update = 1, !.fault = 1],
      [Nothing EXCEPT !.create = 1, !.hooked = 1, !.edit = 1, !.fault = 1],
      [Nothing EXCEPT !.create = 1, !.edit = 2],
      [Nothing EXCEPT !.create = 1, !.hooked = 1, !.test = 1, !.restart = 1],
      [Nothing EXCEPT !.create = 1, !.update = 1, !.connect = 2, !.break = 1, !.fault = 1],
      [Nothing EXCEPT !.create = 1, !.connect = 3, !.break = 1, !.fault = 1, !.restart = 1],
      [Nothing EXCEPT !.initiate = 2, !.poll = 3, !.simulate = 1, !.fault = 1],
      [Nothing EXCEPT !.initiate = 1, !.poll = 3, !.simulate = 2, !.restart = 1] }

MCWants == [w \in Endpoints |-> {"ORDER_CREATED"}]
=============================================================================
