----------------------------- MODULE Backoffice -----------------------------
(***************************************************************************)
(* The back office of the service: staff, customers and branches, the      *)
(* menu, the printers and the reports.  Their handlers share the process   *)
(* and the database.  Two of its tables are in two modules each, which     *)
(* follow different columns of them: Console has the codes and branches of *)
(* the dishes that Catalogue has the recipes of, and the numbers of the    *)
(* tables whose places Staff assigns.                                      *)
(***************************************************************************)
EXTENDS Staff, Console, Catalogue, Printers, Reports

vars == <<handlerVars, staffVars, consoleVars, menuVars, printerVars, reportVars>>

Init ==
    /\ HandlersInit
    /\ StaffInit
    /\ ConsoleInit
    /\ MenuInit
    /\ PrinterInit
    /\ ReportInit

Next ==
    \/ StaffNext /\ UNCHANGED <<consoleVars, menuVars, printerVars, reportVars>>
    \/ ConsoleNext /\ UNCHANGED <<staffVars, menuVars, printerVars, reportVars>>
    \/ MenuNext /\ UNCHANGED <<staffVars, consoleVars, printerVars, reportVars>>
    \/ PrinterNext /\ UNCHANGED <<staffVars, consoleVars, menuVars, reportVars>>
    \/ ReportNext /\ UNCHANGED <<staffVars, consoleVars, menuVars, printerVars>>

Spec == Init /\ [][Next]_vars

-----------------------------------------------------------------------------
(* Properties. *)

TypeOK ==
    /\ \A r \in Requests :
          Free(r) \/ req[r] \in StaffHandler \cup ConsoleHandler \cup MenuHandler
                                  \cup PrinterHandler \cup ReportHandler
    /\ StaffTypeOK
    /\ ConsoleTypeOK
    /\ MenuTypeOK
    /\ PrinterTypeOK
    /\ ReportTypeOK
=============================================================================
