---------------------------- MODULE MCBackoffice ----------------------------
(***************************************************************************)
(* Instances of Backoffice for TLC.                                        *)
(***************************************************************************)
EXTENDS Backoffice

Nothing == [ in |-> 0, out |-> 0, beat |-> 0, user |-> 0, table |-> 0, fault |-> 0,
             signUp |-> 0, company |-> 0, forgot |-> 0, lapse |-> 0, reset |-> 0,
             branch |-> 0, menu |-> 0, remove |-> 0, newItem |-> 0,
             printer |-> 0, stats |-> 0, ticket |-> 0, move |-> 0 ]

\* One load for each question: check-ins that overlap, with tables and with users
\* that change; PINs; sign-ups that overlap, fail, and meet edits of branches;
\* companies; reset links; dishes; printers; reports.
MCLoads ==
    { [Nothing EXCEPT !.in = 3, !.out = 1, !.beat = 1, !.fault = 1],
      [Nothing EXCEPT !.in = 2, !.out = 1, !.table = 2],
      [Nothing EXCEPT !.in = 2, !.out = 1, !.beat = 1, !.user = 1],
      [Nothing EXCEPT !.user = 4, !.fault = 1],
      [Nothing EXCEPT !.signUp = 2, !.fault = 1],
      [Nothing EXCEPT !.signUp = 1, !.branch = 2],
      [Nothing EXCEPT !.signUp = 1, !.company = 3, !.fault = 1],
      [Nothing EXCEPT !.signUp = 1, !.forgot = 2, !.reset = 2, !.lapse = 1, !.fault = 1],
      [Nothing EXCEPT !.menu = 3, !.fault = 1],
      [Nothing EXCEPT !.menu = 2, !.remove = 1, !.newItem = 1],
      [Nothing EXCEPT !.printer = 4, !.fault = 1],
      [Nothing EXCEPT !.stats = 1, !.ticket = 2, !.move = 3] }

\* The two tables have the same number.
MCNumber == [p \in Places |-> "1"]

MCTeam == [u \in Users |->
              CASE u = "ann" -> [row |-> "here", active |-> TRUE, pin |-> "1111"]
                [] u = "bob" -> [row |-> "here", active |-> TRUE, pin |-> "none"]
                [] OTHER -> [row |-> "none", active |-> FALSE, pin |-> "none"]]

\* The second customer asks for a table twice.
MCSignUps == [ acme |-> [name |-> "A", dishes |-> 1, tables |-> << <<1, 2>>, <<1>> >>],
               best |-> [name |-> "B", dishes |-> 1, tables |-> << <<1, 1>> >>] ]

MCRequested ==
    { [component |-> {"text"}, addOn |-> {"egg"}],
      [addOn |-> {"egg", "ham"}],
      [component |-> {"text"}],
      [group |-> {"extras"}],
      [member |-> {"egg"}] }
=============================================================================
