------------------------------ MODULE Printers ------------------------------
(***************************************************************************)
(* PrintersService and SettingsService: the printers of a branch are one   *)
(* list in one setting.  A printer that reports reads the list, changes    *)
(* its own entry and writes the whole list back; the console replaces the  *)
(* list.  Secrets, times and the layout of tickets are left out.           *)
(***************************************************************************)
EXTENDS Handlers

CONSTANT PrinterIds

VARIABLES
    printers,      \* the list: the printers in it, and whether each is active
    said,          \* history: what was last written of each printer, as answered
    printerNotes   \* history: the printers whose writers overlapped with others

printerVars == <<printers, said, printerNotes>>

List == UNION {[S -> BOOLEAN] : S \in SUBSET PrinterIds}

PrinterHandler == [pc : {"listWrite"}, printer : PrinterIds, list : List]

\* A handler that reads the list will write it as given.
Change(r, p, list) ==
    /\ Begin(r, "printer", [pc |-> "listWrite", printer |-> p, list |-> list])
    /\ printerNotes' =
          IF Busy({"listWrite"}) = {} THEN printerNotes
          ELSE printerNotes \cup {p} \cup {req[s].printer : s \in Busy({"listWrite"})}
    /\ UNCHANGED <<printers, said>>

\* heartbeat and markOffline; a printer that is not in the list is refused.
Report(r, p, active) ==
    /\ p \in DOMAIN printers
    /\ Change(r, p, [printers EXCEPT ![p] = active])

\* The console gets the list and puts it back, with a new printer, which is not
\* active, or without one.
EditList(r, p) ==
    LET kept == DOMAIN printers \ {p}
        edited == IF p \in DOMAIN printers THEN kept ELSE kept \cup {p} IN
    Change(r, p, [q \in edited |-> q \in kept /\ printers[q]])

SaidIn(list, p) == p \in DOMAIN list /\ list[p]

\* Mutation of ListWrite: the entry alone is written.
ListWriteEntry(r) ==
    LET p == req[r].printer IN
    /\ req[r].pc = "listWrite"
    /\ printers' = [q \in {p} |-> SaidIn(req[r].list, p)]
    /\ said' = [said EXCEPT ![p] = SaidIn(req[r].list, p)]
    /\ End(r)
    /\ UNCHANGED printerNotes

\* savePrinters, and the upsert of the setting.
ListWrite(r) ==
    LET p == req[r].printer IN
    /\ req[r].pc = "listWrite"
    /\ printers' = req[r].list
    /\ said' = [said EXCEPT ![p] = SaidIn(req[r].list, p)]
    /\ End(r)
    /\ UNCHANGED printerNotes

PrinterFault(r) ==
    /\ req[r].pc = "listWrite"
    /\ Throw(r)
    /\ UNCHANGED printerVars

PrinterInit ==
    /\ printers = [p \in PrinterIds |-> FALSE]
    /\ said = [p \in PrinterIds |-> FALSE]
    /\ printerNotes = {}

PrinterNext ==
    \E r \in Requests :
        \/ ListWrite(r)
        \/ PrinterFault(r)
        \/ \E p \in PrinterIds : \/ EditList(r, p)
                                \/ \E active \in BOOLEAN : Report(r, p, active)

-----------------------------------------------------------------------------
(* Properties. *)

PrinterTypeOK ==
    /\ printers \in List
    /\ said \in [PrinterIds -> BOOLEAN]
    /\ printerNotes \subseteq PrinterIds

\* The list shows of every printer what was reported of it last, and none is lost
\* from it, unless two handlers or consoles held the list at the same time and one
\* of them wrote about this printer.  Whatever is written about a printer leaves
\* the entries of the others as they are.
PrintersHeard ==
    \A p \in PrinterIds \ printerNotes : SaidIn(printers, p) = said[p]
=============================================================================
