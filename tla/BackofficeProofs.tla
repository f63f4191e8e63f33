--------------------------- MODULE BackofficeProofs --------------------------
(***************************************************************************)
(* Proofs about Backoffice, for every number of users, accounts, branches, *)
(* dishes, printers, tickets and concurrent handlers: the type invariant,  *)
(* and per part that check-ins, sign-ups, reset links, parts of dishes,    *)
(* the list of printers and the totals of reports hold what was promised.  *)
(*                                                                         *)
(* The parts share the slots and nothing else: a step of one changes       *)
(* handlers of its own only (Moves), so each invariant has to be shown for *)
(* the steps of one part, and Elsewhere disposes of the others.            *)
(***************************************************************************)
EXTENDS Backoffice, FiniteSetTheorems, TLAPS

StaffSteps == SeatSteps \cup {"userWrite", "activeWrite", "userCreate", "userDelete"}
ConsoleSteps == SignUpSteps \cup BranchSteps \cup {"coName", "fgWrite", "rsWrite"}
MenuSteps == {"partsDelete", "partsWrite", "itemRemove"}
PrinterSteps == {"listWrite"}
ReportSteps == {"count"}

SeatHandler == [pc : SeatSteps, place : Places, user : Users, row : Nat]

\* A sign-up counts no further than its request goes.
InRequest(h) ==
    LET asked == SignUps[h.account] IN
    /\ h.at <= Len(asked.tables)
    /\ h.at = 0 <=> h.pc \in {"suUser", "suCompany"}
    /\ h.pc \notin {"suDishProbe", "suDish", "suTable"} => h.dish = 0 /\ h.tab = 0
    /\ h.pc \in {"suDishProbe", "suDish"} => h.dish < asked.dishes /\ h.tab = 0
    /\ h.pc = "suTable" => h.dish = asked.dishes /\ h.tab < Len(asked.tables[h.at])

GoodSignUp == {h \in SignUpHandler : InRequest(h)}

CompanyHandler == [pc : {"coName"}, account : Accounts, name : Names]
LinkHandler == [pc : {"fgWrite", "rsWrite"}, account : Accounts, link : 1..MaxLinks]
BranchHandler == [pc : BranchSteps, owner : Accounts \cup {"none"}, branch : Nat, code : Nat]

UpdateHandler == [pc : {"partsDelete", "partsWrite"}, item : Owners, ask : Requested,
                  left : SUBSET Kinds]
RemoveHandler == [pc : {"itemRemove"}, item : Rows]

\* An update has kinds to delete until it writes, and only those it was asked for.
GoodUpdate == {h \in UpdateHandler : /\ DOMAIN h.ask \subseteq KindsOf(h.item)
                                     /\ h.left \subseteq DOMAIN h.ask
                                     /\ h.pc = "partsWrite" <=> h.left = {}}

GoodConsole == GoodSignUp \cup CompanyHandler \cup LinkHandler \cup BranchHandler
GoodMenu == GoodUpdate \cup RemoveHandler

AnyHandler == {Idle} \cup StaffHandler \cup GoodConsole \cup GoodMenu
                \cup PrinterHandler \cup ReportHandler

ReqOK == req \in [Requests -> AnyHandler]

-----------------------------------------------------------------------------
(* The handlers: which kind a slot holds is told by its program counter, and a *)
(* step of one part leaves the handlers of the others alone.                   *)

\* Which handler a slot holds is told by its program counter.
LEMMA HandlerKinds ==
    ASSUME NEW h \in AnyHandler
    PROVE  /\ h.pc \in SeatSteps => h \in SeatHandler
           /\ h.pc = "userWrite" =>
                 h \in [pc : {"userWrite"}, user : Users, pin : Pins \cup {"none"}]
           /\ h.pc = "activeWrite" => h \in [pc : {"activeWrite"}, user : Users, active : BOOLEAN]
           /\ h.pc \in {"userCreate", "userDelete"} =>
                 h \in [pc : {"userCreate", "userDelete"}, user : Users]
           /\ h.pc \in SignUpSteps => h \in GoodSignUp
           /\ h.pc = "coName" => h \in CompanyHandler
           /\ h.pc \in {"fgWrite", "rsWrite"} => h \in LinkHandler
           /\ h.pc \in BranchSteps => h \in BranchHandler
           /\ h.pc \in {"partsDelete", "partsWrite"} => h \in GoodUpdate
           /\ h.pc = "itemRemove" => h \in RemoveHandler
           /\ h.pc = "listWrite" => h \in PrinterHandler
           /\ h.pc = "count" => h \in ReportHandler
<1>0. h \in AnyHandler
  OBVIOUS
<1>1. CASE h = Idle
  BY <1>1 DEF Idle, SeatSteps, InSteps, OutSteps, BeatSteps, SignUpSteps, BranchSteps
<1>2. CASE h \in StaffHandler
  BY <1>2 DEF StaffHandler, SeatHandler, SeatSteps, InSteps, OutSteps, BeatSteps, SignUpSteps,
              BranchSteps
<1>3. CASE h \in GoodConsole
  BY <1>3 DEF GoodConsole, GoodSignUp, SignUpHandler, CompanyHandler, LinkHandler,
              BranchHandler, SeatSteps, InSteps, OutSteps, BeatSteps, SignUpSteps, BranchSteps
<1>4. CASE h \in GoodMenu
  BY <1>4 DEF GoodMenu, GoodUpdate, UpdateHandler, RemoveHandler, SeatSteps, InSteps, OutSteps,
              BeatSteps, SignUpSteps, BranchSteps
<1>5. CASE h \in PrinterHandler \cup ReportHandler
  BY <1>5 DEF PrinterHandler, ReportHandler, SeatSteps, InSteps, OutSteps, BeatSteps,
              SignUpSteps, BranchSteps
<1>6. QED
  BY <1>0, <1>1, <1>2, <1>3, <1>4, <1>5 DEF AnyHandler

\* Each part has its own handlers and their program counters.
LEMMA StepsOf ==
    /\ Idle \in AnyHandler /\ Idle.pc = "idle"
    /\ SeatHandler \subseteq StaffHandler
    /\ StaffHandler \subseteq AnyHandler /\ \A h \in StaffHandler : h.pc \in StaffSteps
    /\ GoodConsole \subseteq AnyHandler /\ \A h \in GoodConsole : h.pc \in ConsoleSteps
    /\ GoodMenu \subseteq AnyHandler /\ \A h \in GoodMenu : h.pc \in MenuSteps
    /\ PrinterHandler \subseteq AnyHandler /\ \A h \in PrinterHandler : h.pc \in PrinterSteps
    /\ ReportHandler \subseteq AnyHandler /\ \A h \in ReportHandler : h.pc \in ReportSteps
<1>1. \A h \in StaffHandler : h.pc \in StaffSteps
  BY DEF StaffHandler, StaffSteps
<1>2. \A h \in GoodConsole : h.pc \in ConsoleSteps
  BY DEF GoodConsole, GoodSignUp, SignUpHandler, CompanyHandler, LinkHandler,
         BranchHandler, ConsoleSteps
<1>3. \A h \in GoodMenu : h.pc \in MenuSteps
  BY DEF GoodMenu, GoodUpdate, UpdateHandler, RemoveHandler, MenuSteps
<1>4. /\ \A h \in PrinterHandler : h.pc \in PrinterSteps
      /\ \A h \in ReportHandler : h.pc \in ReportSteps
  BY DEF PrinterHandler, ReportHandler, PrinterSteps, ReportSteps
<1>5. SeatHandler \subseteq StaffHandler
  BY DEF SeatHandler, StaffHandler
<1>6. QED
  BY <1>1, <1>2, <1>3, <1>4, <1>5 DEF AnyHandler, Idle

\* No program counter belongs to two parts.
LEMMA Apart ==
    /\ StaffSteps \cap ConsoleSteps = {} /\ StaffSteps \cap MenuSteps = {}
    /\ StaffSteps \cap PrinterSteps = {} /\ StaffSteps \cap ReportSteps = {}
    /\ ConsoleSteps \cap MenuSteps = {} /\ ConsoleSteps \cap PrinterSteps = {}
    /\ ConsoleSteps \cap ReportSteps = {} /\ MenuSteps \cap PrinterSteps = {}
    /\ MenuSteps \cap ReportSteps = {} /\ PrinterSteps \cap ReportSteps = {}
    /\ "idle" \notin StaffSteps \cup ConsoleSteps \cup MenuSteps \cup PrinterSteps \cup ReportSteps
BY DEF StaffSteps, SeatSteps, InSteps, OutSteps, BeatSteps, ConsoleSteps, SignUpSteps,
       BranchSteps, MenuSteps, PrinterSteps, ReportSteps

\* Only handlers at these steps, and free slots, move.
Moves(steps) ==
    \A q \in Requests : req'[q] # req[q] =>
        /\ req[q].pc \in steps \cup {"idle"}
        /\ req'[q].pc \in steps \cup {"idle"}

\* One slot is given a handler, and the others keep theirs.
LEMMA SetSlot ==
    ASSUME ReqOK, NEW r \in Requests, NEW h \in AnyHandler, req' = [req EXCEPT ![r] = h]
    PROVE  /\ ReqOK'
           /\ req'[r] = h
           /\ \A q \in Requests \ {r} : req'[q] = req[q]
  BY DEF ReqOK

\* The same, for a slot that stays within one part.
LEMMA SlotMoves ==
    ASSUME ReqOK, NEW r \in Requests, NEW h \in AnyHandler, req' = [req EXCEPT ![r] = h],
           NEW steps, req[r].pc \in steps \cup {"idle"}, h.pc \in steps \cup {"idle"}
    PROVE  ReqOK' /\ Moves(steps)
  BY SetSlot DEF Moves

\* Rows are updated in their place, and added at the end.
LEMMA SeqSet ==
    ASSUME NEW S, NEW a \in Seq(S), NEW i, NEW w, i \in DOMAIN a => w \in S
    PROVE  /\ [a EXCEPT ![i] = w] \in Seq(S)
           /\ DOMAIN [a EXCEPT ![i] = w] = DOMAIN a
           /\ Len([a EXCEPT ![i] = w]) = Len(a)
<1> DEFINE m == [a EXCEPT ![i] = w]
<1>1. DOMAIN m = DOMAIN a /\ DOMAIN a = 1..Len(a) /\ Len(a) \in Nat
  OBVIOUS
<1>2. \A k \in DOMAIN m : m[k] \in S
  OBVIOUS
<1>3. m = [k \in 1..Len(a) |-> m[k]]
  OBVIOUS
<1> HIDE DEF m
<1>4. m \in Seq(S)
  BY <1>1, <1>2, <1>3
<1>5. Len(m) = Len(a)
  BY <1>1, <1>4
<1>6. QED
  BY <1>1, <1>4, <1>5 DEF m

LEMMA SeqAdd ==
    ASSUME NEW S, NEW a \in Seq(S), NEW w \in S
    PROVE  /\ Append(a, w) \in Seq(S)
           /\ Len(a) \in Nat
           /\ DOMAIN a = 1..Len(a)
           /\ Len(Append(a, w)) = Len(a) + 1
           /\ DOMAIN Append(a, w) = 1..(Len(a) + 1)
           /\ Append(a, w)[Len(a) + 1] = w
           /\ \A k \in DOMAIN a : Append(a, w)[k] = a[k]
  OBVIOUS

\* All rows are rewritten at once.
LEMMA SeqMap ==
    ASSUME NEW S, NEW a \in Seq(S), NEW b, DOMAIN b = DOMAIN a,
           b = [k \in DOMAIN a |-> b[k]], \A k \in DOMAIN a : b[k] \in S
    PROVE  b \in Seq(S) /\ Len(b) = Len(a)
<1>1. DOMAIN a = 1..Len(a) /\ Len(a) \in Nat
  OBVIOUS
<1>2. b \in Seq(S)
  BY <1>1
<1>3. QED
  BY <1>1, <1>2

LEMMA FreeIs == \A r : Free(r) => req[r].pc = "idle"
  BY DEF Free, Idle

-----------------------------------------------------------------------------
(* Staff: rows and handlers keep their types. *)

\* A handler at a seat keeps its other fields when it moves on (InFind, Goto).
LEMMA SeatMoves ==
    ASSUME NEW h \in SeatHandler, NEW p \in SeatSteps, NEW i \in Nat
    PROVE  /\ [h EXCEPT !.pc = p] = [pc |-> p, place |-> h.place, user |-> h.user, row |-> h.row]
           /\ [h EXCEPT !.pc = p, !.row = i]
                 = [pc |-> p, place |-> h.place, user |-> h.user, row |-> i]
           /\ [h EXCEPT !.pc = p] \in SeatHandler
           /\ [h EXCEPT !.pc = p, !.row = i] \in SeatHandler
<1> DEFINE g == [h EXCEPT !.pc = p]
<1>1. /\ h = [pc |-> h.pc, place |-> h.place, user |-> h.user, row |-> h.row]
      /\ h.place \in Places /\ h.user \in Users /\ h.row \in Nat
  BY DEF SeatHandler
<1>2. g = [pc |-> p, place |-> h.place, user |-> h.user, row |-> h.row]
  BY <1>1
<1>3. [h EXCEPT !.pc = p, !.row = i] = [g EXCEPT !.row = i]
  OBVIOUS
<1> HIDE DEF g
<1>4. [g EXCEPT !.row = i] = [pc |-> p, place |-> h.place, user |-> h.user, row |-> i]
  BY <1>2
<1>5. QED
  BY <1>1, <1>2, <1>3, <1>4 DEF SeatHandler, g

\* The seats a handler at a table is about.
LEMMA SeatHas ==
    ASSUME ReqOK, NEW r \in Requests, req[r].pc \in SeatSteps
    PROVE  /\ req[r] \in SeatHandler
           /\ req[r].place \in Places /\ req[r].user \in Users /\ req[r].row \in Nat
           /\ r \in Seating(req[r].place, req[r].user)
  BY HandlerKinds DEF ReqOK, SeatHandler, Seating, Busy

TInv == /\ ReqOK
        /\ StaffTypeOK
        /\ ConsoleTypeOK
        /\ MenuTypeOK
        /\ PrinterTypeOK
        /\ ReportTypeOK

LEMMA NoteSeatsType ==
    ASSUME StaffTypeOK, NEW S, NEW why \in {"overlap", "orphan"}, NoteSeats(S, why)
    PROVE  staffNotes' \in [Places \X Users -> SUBSET {"overlap", "orphan"}]
  BY DEF StaffTypeOK, NoteSeats

\* What a write to a row of the handler's leaves behind.
LEMMA RowWritten ==
    ASSUME ReqOK, StaffTypeOK, NEW r \in Requests, req[r].pc \in SeatSteps,
           NEW w \in Assignment, NEW s \in {"none", "in", "out"},
           IF assignment[req[r].row].state = "gone"
           THEN UNCHANGED <<assignment, answer>>
           ELSE /\ assignment' = [assignment EXCEPT ![req[r].row] = w]
                /\ answer' = [answer EXCEPT ![<<req[r].place, req[r].user>>] = s]
    PROVE  /\ assignment' \in Seq(Assignment)
           /\ answer' \in [Places \X Users -> {"none", "in", "out"}]
<1>1. CASE assignment[req[r].row].state = "gone"
  BY <1>1 DEF StaffTypeOK
<1>2. CASE assignment[req[r].row].state # "gone"
  <2>1. assignment' \in Seq(Assignment)
    <3>1. assignment \in Seq(Assignment)
      BY DEF StaffTypeOK
    <3>2. assignment' = [assignment EXCEPT ![req[r].row] = w]
      BY <1>2
    <3>3. [assignment EXCEPT ![req[r].row] = w] \in Seq(Assignment)
      BY <3>1, SeqSet
    <3>4. QED
      BY <3>2, <3>3
  <2>2. answer' \in [Places \X Users -> {"none", "in", "out"}]
    BY <1>2 DEF StaffTypeOK
  <2>3. QED
    BY <2>1, <2>2
<1>3. QED
  BY <1>1, <1>2

\* No step of staff leads out of the types.
LEMMA StaffTypes ==
    ASSUME TInv, StaffNext, UNCHANGED <<consoleVars, menuVars, printerVars, reportVars>>
    PROVE  TInv' /\ Moves(StaffSteps)
<1> SUFFICES ReqOK' /\ StaffTypeOK' /\ Moves(StaffSteps)
  BY DEF TInv, consoleVars, menuVars, printerVars, reportVars, ConsoleTypeOK, MenuTypeOK,
         PrinterTypeOK, ReportTypeOK
<1>t. ReqOK /\ StaffTypeOK
  BY DEF TInv
<1>s. SeatSteps \subseteq StaffSteps /\ StaffHandler \subseteq AnyHandler
  BY StepsOf DEF StaffSteps
<1>i. Idle \in AnyHandler /\ Idle.pc = "idle"
  BY StepsOf
<1>e. ASSUME NEW r \in Requests, End(r), req[r].pc \in StaffSteps
      PROVE  ReqOK' /\ Moves(StaffSteps)
  BY <1>t, <1>i, <1>e, SlotMoves DEF End, Become
<1>g. ASSUME NEW r \in Requests, req[r].pc \in SeatSteps, NEW p \in SeatSteps, Goto(r, p)
      PROVE  ReqOK' /\ Moves(StaffSteps)
  <2>1. req[r] \in SeatHandler
    BY <1>t, <1>g, SeatHas
  <2>2. [req[r] EXCEPT !.pc = p] \in SeatHandler
    BY <1>g, <2>1, SeatMoves
  <2>3. [req[r] EXCEPT !.pc = p] \in AnyHandler /\ [req[r] EXCEPT !.pc = p].pc \in StaffSteps
    BY <2>2, StepsOf
  <2>4. QED
    BY <1>t, <1>s, <1>g, <2>3, SlotMoves DEF Goto, Become
<1>b. ASSUME NEW r \in Requests, req[r].pc \in SeatSteps, NEW p \in SeatSteps, NEW i \in Nat,
             Become(r, [req[r] EXCEPT !.pc = p, !.row = i])
      PROVE  ReqOK' /\ Moves(StaffSteps)
  <2> DEFINE h == [req[r] EXCEPT !.pc = p, !.row = i]
  <2>1. req[r] \in SeatHandler
    BY <1>t, <1>b, SeatHas
  <2>2. h \in SeatHandler
    BY <1>b, <2>1, SeatMoves
  <2>3. req' = [req EXCEPT ![r] = h]
    BY <1>b DEF Become
  <2> HIDE DEF h
  <2>4. h \in AnyHandler /\ h.pc \in StaffSteps
    BY <2>2, StepsOf
  <2>5. QED
    BY <1>t, <1>s, <1>b, <2>3, <2>4, SlotMoves
<1>n. ASSUME NEW r \in Requests, NEW kind, NEW h \in StaffHandler, Begin(r, kind, h)
      PROVE  ReqOK' /\ Moves(StaffSteps)
  <2>1. req[r].pc = "idle" /\ req' = [req EXCEPT ![r] = h]
    BY <1>n, FreeIs DEF Begin
  <2>2. h \in AnyHandler /\ h.pc \in StaffSteps
    BY <1>n, StepsOf
  <2>3. QED
    BY <1>t, <2>1, <2>2, SlotMoves
<1>q. DOMAIN assignment \subseteq Nat
  BY <1>t DEF StaffTypeOK
<1>1. ASSUME NEW r \in Requests, InTable(r) \/ InFind(r) \/ FindActive(r)
      PROVE  ReqOK' /\ StaffTypeOK' /\ Moves(StaffSteps)
  <2>1. StaffTypeOK'
    BY <1>t, <1>1 DEF InTable, InFind, FindActive, staffVars, StaffTypeOK
  <2>2. req[r].pc \in SeatSteps /\ req[r].pc \in StaffSteps
    BY <1>1, <1>s DEF InTable, InFind, FindActive, SeatSteps, InSteps, OutSteps, BeatSteps
  <2>3. {"inFind", "inNew", "inSeen", "inAgain", "outWrite", "beatWrite"} \subseteq SeatSteps
    BY DEF SeatSteps, InSteps, OutSteps, BeatSteps
  <2>4. \/ End(r)
        \/ \E p \in SeatSteps : Goto(r, p)
        \/ \E p \in SeatSteps, i \in Nat : Become(r, [req[r] EXCEPT !.pc = p, !.row = i])
    <3>1. CASE InTable(r)
      BY <3>1, <2>3 DEF InTable
    <3>2. CASE InFind(r)
      <4> DEFINE found == RowsOf(req[r].place, req[r].user)
                 next(i) == IF assignment[i].state = "active" THEN "inSeen" ELSE "inAgain"
      <4>1. \A i : next(i) \in SeatSteps
        BY <2>3
      <4>2. found \subseteq Nat
        BY <1>q DEF RowsOf
      <4>3. \/ Goto(r, "inNew")
            \/ \E i \in found : Become(r, [req[r] EXCEPT !.pc = next(i), !.row = i])
        BY <3>2 DEF InFind
      <4> HIDE DEF found, next
      <4>4. QED
        BY <4>1, <4>2, <4>3, <2>3
    <3>3. CASE FindActive(r)
      <4> DEFINE found == ActiveRows(req[r].place, req[r].user)
                 next == IF req[r].pc = "outFind" THEN "outWrite" ELSE "beatWrite"
      <4>1. next \in SeatSteps
        BY <2>3
      <4>2. found \subseteq Nat
        BY <1>q DEF RowsOf, ActiveRows
      <4>3. \/ End(r)
            \/ \E i \in found : Become(r, [req[r] EXCEPT !.pc = next, !.row = i])
        BY <3>3 DEF FindActive
      <4> HIDE DEF found, next
      <4>4. QED
        BY <4>1, <4>2, <4>3
    <3>4. QED
      BY <1>1, <3>1, <3>2, <3>3
  <2>5. QED
    BY <1>e, <1>g, <1>b, <2>1, <2>2, <2>4
<1>2. ASSUME NEW r \in Requests, InSeen(r) \/ InAgain(r) \/ OutWrite(r) \/ BeatWrite(r)
      PROVE  ReqOK' /\ StaffTypeOK' /\ Moves(StaffSteps)
  <2>1. req[r].pc \in SeatSteps /\ req[r].pc \in StaffSteps
    BY <1>2, <1>s DEF InSeen, InAgain, OutWrite, BeatWrite, SeatSteps, InSteps, OutSteps,
                      BeatSteps
  <2>2. End(r) /\ UNCHANGED <<users, table, staffNotes>>
    BY <1>2 DEF InSeen, InAgain, OutWrite, BeatWrite, WriteRow
  <2>3. /\ assignment' \in Seq(Assignment)
        /\ answer' \in [Places \X Users -> {"none", "in", "out"}]
    <3> DEFINE k == req[r].row
    <3>0. answer[<<req[r].place, req[r].user>>] \in {"none", "in", "out"}
      BY <1>t, <2>1, SeatHas DEF StaffTypeOK
    <3>1. CASE k \in DOMAIN assignment
      <4>1. assignment[k] \in Assignment
        BY <1>t, <3>1 DEF StaffTypeOK
      <4>2. /\ [assignment[k] EXCEPT !.seen = "in"] \in Assignment
            /\ [assignment[k] EXCEPT !.seen = "beat"] \in Assignment
        BY <4>1 DEF Assignment
      <4>3. \A s \in {"in", "out"}, t \in {"active", "inactive"} :
               [assignment[k] EXCEPT !.state = t, !.seen = s] \in Assignment
        <5> SUFFICES ASSUME NEW s \in {"in", "out"}, NEW t \in {"active", "inactive"}
                     PROVE  [assignment[k] EXCEPT !.state = t, !.seen = s] \in Assignment
          OBVIOUS
        <5> DEFINE g == [assignment[k] EXCEPT !.state = t]
        <5>1. g \in Assignment
          BY <4>1 DEF Assignment
        <5>2. [assignment[k] EXCEPT !.state = t, !.seen = s] = [g EXCEPT !.seen = s]
          OBVIOUS
        <5> HIDE DEF g
        <5>3. [g EXCEPT !.seen = s] \in Assignment
          BY <5>1 DEF Assignment
        <5>4. QED
          BY <5>2, <5>3
      <4>4. \E w \in Assignment, s \in {"none", "in", "out"} :
               IF assignment[k].state = "gone"
               THEN UNCHANGED <<assignment, answer>>
               ELSE /\ assignment' = [assignment EXCEPT ![k] = w]
                    /\ answer' = [answer EXCEPT ![<<req[r].place, req[r].user>>] = s]
        <5>1. CASE InSeen(r)
          BY <4>2, <5>1 DEF InSeen, WriteRow
        <5>2. CASE InAgain(r)
          BY <4>3, <5>2 DEF InAgain, WriteRow
        <5>3. CASE OutWrite(r)
          BY <4>3, <5>3 DEF OutWrite, WriteRow
        <5>4. CASE BeatWrite(r)
          BY <3>0, <4>2, <5>4 DEF BeatWrite, WriteRow
        <5>5. QED
          BY <1>2, <5>1, <5>2, <5>3, <5>4
      <4>5. QED
        BY <1>t, <2>1, <4>4, RowWritten
    <3>2. CASE k \notin DOMAIN assignment
      <4>1. \A w : [assignment EXCEPT ![k] = w] = assignment
        BY <1>t, <3>2 DEF StaffTypeOK
      <4>2. /\ assignment' = assignment
            /\ \E s \in {"none", "in", "out"} :
                  answer' \in {answer, [answer EXCEPT ![<<req[r].place, req[r].user>>] = s]}
        BY <1>2, <3>0, <4>1 DEF InSeen, InAgain, OutWrite, BeatWrite, WriteRow
      <4>3. QED
        BY <1>t, <2>1, <4>2, SeatHas DEF StaffTypeOK
    <3>3. QED
      BY <3>1, <3>2
  <2>4. QED
    BY <1>t, <1>e, <2>1, <2>2, <2>3 DEF StaffTypeOK
<1>3. ASSUME NEW r \in Requests, InNew(r)
      PROVE  ReqOK' /\ StaffTypeOK' /\ Moves(StaffSteps)
  <2>1. req[r].pc \in SeatSteps /\ req[r].pc \in StaffSteps
    BY <1>3, <1>s DEF InNew, SeatSteps, InSteps
  <2>2. req[r].place \in Places /\ req[r].user \in Users
    BY <1>t, <2>1, SeatHas
  <2>3. [place |-> req[r].place, user |-> req[r].user, state |-> "active", seen |-> "in"]
           \in Assignment
    BY <2>2 DEF Assignment
  <2>4. assignment' \in Seq(Assignment)
    <3>1. \/ assignment' = assignment
          \/ assignment' = Append(assignment,
               [place |-> req[r].place, user |-> req[r].user, state |-> "active", seen |-> "in"])
      BY <1>3 DEF InNew
    <3>2. \A a \in Seq(Assignment), w \in Assignment : Append(a, w) \in Seq(Assignment)
      OBVIOUS
    <3>3. assignment \in Seq(Assignment)
      BY <1>t DEF StaffTypeOK
    <3>4. QED
      BY <2>3, <3>1, <3>2, <3>3
  <2>5. answer' \in [Places \X Users -> {"none", "in", "out"}]
    <3>1. \/ answer' = answer
          \/ answer' = [answer EXCEPT ![<<req[r].place, req[r].user>>] = "in"]
      BY <1>3 DEF InNew
    <3>2. QED
      BY <1>t, <2>2, <3>1 DEF StaffTypeOK
  <2>6. End(r) /\ UNCHANGED <<users, table, staffNotes>>
    BY <1>3 DEF InNew
  <2>7. QED
    BY <1>t, <1>e, <2>1, <2>4, <2>5, <2>6 DEF StaffTypeOK
<1>4. ASSUME NEW r \in Requests, UserCreate(r) \/ UserWrite(r) \/ ActiveWrite(r)
      PROVE  ReqOK' /\ StaffTypeOK' /\ Moves(StaffSteps)
  <2>1. req[r].pc \in StaffSteps /\ End(r)
    BY <1>4 DEF UserCreate, UserWrite, ActiveWrite, StaffSteps
  <2>2. users' \in [Users -> User]
    <3>0. req[r] \in AnyHandler
      BY <1>t DEF ReqOK
    <3>1. CASE UserCreate(r)
      <4>1. [row |-> "here", active |-> TRUE, pin |-> "none"] \in User
        BY DEF User
      <4>2. QED
        BY <1>t, <3>1, <4>1 DEF UserCreate, StaffTypeOK
    <3>2. CASE UserWrite(r)
      <4>1. req[r].user \in Users /\ req[r].pin \in Pins \cup {"none"}
        BY <3>0, <3>2, HandlerKinds DEF UserWrite
      <4>a. users[req[r].user] \in User
        BY <1>t, <4>1 DEF StaffTypeOK
      <4>2. [users[req[r].user] EXCEPT !.pin = req[r].pin] \in User
        BY <4>1, <4>a DEF User
      <4>3. QED
        BY <1>t, <3>2, <4>1, <4>2 DEF UserWrite, StaffTypeOK
    <3>3. CASE ActiveWrite(r)
      <4>1. req[r].user \in Users /\ req[r].active \in BOOLEAN
        BY <3>0, <3>3, HandlerKinds DEF ActiveWrite
      <4>a. users[req[r].user] \in User
        BY <1>t, <4>1 DEF StaffTypeOK
      <4>2. [users[req[r].user] EXCEPT !.active = req[r].active] \in User
        BY <4>1, <4>a DEF User
      <4>3. QED
        BY <1>t, <3>3, <4>1, <4>2 DEF ActiveWrite, StaffTypeOK
    <3>4. QED
      BY <1>4, <3>1, <3>2, <3>3
  <2>3. QED
    BY <1>t, <1>4, <1>e, <2>1, <2>2 DEF UserCreate, UserWrite, ActiveWrite, StaffTypeOK
<1>c. ASSUME NEW S, Cascade(S)
      PROVE  /\ assignment' \in Seq(Assignment)
             /\ answer' \in [Places \X Users -> {"none", "in", "out"}]
  <2> DEFINE f(i) == IF <<assignment[i].place, assignment[i].user>> \in S
                     THEN [assignment[i] EXCEPT !.state = "gone"] ELSE assignment[i]
  <2>1. \A i \in DOMAIN assignment : f(i) \in Assignment
    <3> SUFFICES ASSUME NEW i \in DOMAIN assignment PROVE f(i) \in Assignment
      OBVIOUS
    <3>1. assignment[i] \in Assignment
      BY <1>t DEF StaffTypeOK
    <3>2. [assignment[i] EXCEPT !.state = "gone"] \in Assignment
      BY <3>1 DEF Assignment
    <3>3. QED
      BY <3>1, <3>2
  <2>2. assignment' = [i \in DOMAIN assignment |-> f(i)]
    BY <1>c DEF Cascade
  <2>3. DOMAIN assignment = 1..Len(assignment) /\ Len(assignment) \in Nat
    BY <1>t DEF StaffTypeOK
  <2> HIDE DEF f
  <2>4. assignment' \in Seq(Assignment)
    BY <2>1, <2>2, <2>3
  <2>5. QED
    BY <1>t, <1>c, <2>4 DEF Cascade, StaffTypeOK
<1>5. ASSUME NEW r \in Requests, UserDelete(r)
      PROVE  ReqOK' /\ StaffTypeOK' /\ Moves(StaffSteps)
  <2>1. req[r].pc \in StaffSteps /\ End(r)
    BY <1>5 DEF UserDelete, StaffSteps
  <2>2. [row |-> "gone", active |-> FALSE, pin |-> "none"] \in User
    BY DEF User
  <2>3. users' \in [Users -> User]
    BY <1>t, <1>5, <2>2 DEF UserDelete, StaffTypeOK
  <2>4. /\ assignment' \in Seq(Assignment)
        /\ answer' \in [Places \X Users -> {"none", "in", "out"}]
    <3>1. Cascade(Places \X {req[r].user}) \/ UNCHANGED <<assignment, answer>>
      BY <1>5 DEF UserDelete
    <3>2. QED
      BY <1>t, <1>c, <3>1 DEF StaffTypeOK
  <2>5. QED
    BY <1>t, <1>5, <1>e, <2>1, <2>3, <2>4 DEF UserDelete, StaffTypeOK
<1>6. ASSUME NEW r \in Requests, StaffFault(r)
      PROVE  ReqOK' /\ StaffTypeOK' /\ Moves(StaffSteps)
  <2>1. req[r].pc \in StaffSteps /\ req' = [req EXCEPT ![r] = Idle]
    BY <1>6 DEF StaffFault, Throw, Busy, StaffSteps
  <2>2. QED
    BY <1>t, <1>i, <1>6, <2>1, SlotMoves DEF StaffFault, staffVars, StaffTypeOK
<1>7. ASSUME NEW r \in Requests, NEW u \in Users, Register(r, u) \/ DeleteUser(r, u)
      PROVE  ReqOK' /\ StaffTypeOK' /\ Moves(StaffSteps)
  <2>1. PICK h \in StaffHandler : Begin(r, "user", h)
    BY <1>7 DEF Register, DeleteUser, StaffHandler
  <2>2. QED
    BY <1>t, <1>7, <1>n, <2>1 DEF Register, DeleteUser, staffVars, StaffTypeOK
<1>8. ASSUME NEW r \in Requests, NEW u \in Users, NEW active \in BOOLEAN, Enable(r, u, active)
      PROVE  ReqOK' /\ StaffTypeOK' /\ Moves(StaffSteps)
  <2>1. [pc |-> "activeWrite", user |-> u, active |-> active] \in StaffHandler
    BY DEF StaffHandler
  <2>2. QED
    BY <1>t, <1>8, <1>n, <2>1 DEF Enable, staffVars, StaffTypeOK
<1>9. ASSUME NEW r \in Requests, NEW u \in Users, NEW k \in Pins \cup {"none"},
             ChangePin(r, u, k)
      PROVE  ReqOK' /\ StaffTypeOK' /\ Moves(StaffSteps)
  <2>1. [pc |-> "userWrite", user |-> u, pin |-> k] \in StaffHandler
    BY DEF StaffHandler
  <2>2. QED
    BY <1>t, <1>9, <1>n, <2>1 DEF ChangePin, staffVars, StaffTypeOK
<1>10. ASSUME NEW r \in Requests, NEW u \in Users, NEW k \in Pins, NEW p \in Places,
              CheckIn(r, k, p, u) \/ CheckOut(r, k, p, u) \/ Heartbeat(r, k, p, u)
       PROVE  ReqOK' /\ StaffTypeOK' /\ Moves(StaffSteps)
  <2>1. PICK kind \in {"in", "out", "beat"}, step \in {"inTable", "outFind", "beatFind"} : Identify(r, kind, step, k, p, u)
    BY <1>10 DEF CheckIn, CheckOut, Heartbeat
  <2>2. [pc |-> step, place |-> p, user |-> u, row |-> 0] \in SeatHandler
    BY DEF SeatHandler, SeatSteps, InSteps, OutSteps, BeatSteps
  <2>3. [pc |-> step, place |-> p, user |-> u, row |-> 0] \in StaffHandler
    BY <2>2, StepsOf
  <2>4. \E S : NoteSeats(S, "overlap")
    BY <2>1 DEF Identify
  <2>5. staffNotes' \in [Places \X Users -> SUBSET {"overlap", "orphan"}]
    BY <1>t, <2>4, NoteSeatsType
  <2>6. QED
    BY <1>t, <1>n, <2>1, <2>3, <2>5 DEF Identify, StaffTypeOK
<1>11. ASSUME NEW p \in Places, RemoveTable(p) \/ CreateTable(p)
       PROVE  ReqOK' /\ StaffTypeOK' /\ Moves(StaffSteps)
  <2>1. ReqOK' /\ Moves(StaffSteps)
    BY <1>t, <1>11 DEF RemoveTable, CreateTable, ReqOK, Moves
  <2>2. table' \in [Places -> BOOLEAN] /\ users' = users
    BY <1>t, <1>11 DEF RemoveTable, CreateTable, StaffTypeOK
  <2>3. staffNotes' \in [Places \X Users -> SUBSET {"overlap", "orphan"}]
    <3>1. staffNotes' = staffNotes \/ NoteSeats({p} \X Users, "orphan")
      BY <1>11 DEF RemoveTable, CreateTable
    <3>2. QED
      BY <1>t, <3>1, NoteSeatsType DEF StaffTypeOK
  <2>4. /\ assignment' \in Seq(Assignment)
        /\ answer' \in [Places \X Users -> {"none", "in", "out"}]
    <3>1. Cascade({p} \X Users) \/ UNCHANGED <<assignment, answer>>
      BY <1>11 DEF RemoveTable, CreateTable
    <3>2. QED
      BY <1>t, <1>c, <3>1 DEF StaffTypeOK
  <2>5. QED
    BY <1>t, <2>1, <2>2, <2>3, <2>4 DEF StaffTypeOK
<1>12. QED
  BY <1>1, <1>2, <1>3, <1>4, <1>5, <1>6, <1>7, <1>8, <1>9, <1>10, <1>11 DEF StaffNext

-----------------------------------------------------------------------------
(* Console: rows and handlers keep their types, and a sign-up never goes past    *)
(* what it was asked for.                                                      *)

\* What a sign-up is asked for.
LEMMA Asked ==
    ASSUME NEW e \in Accounts
    PROVE  /\ SignUps[e].name \in Names
           /\ SignUps[e].dishes \in Nat
           /\ SignUps[e].tables \in Seq(Seq(Nat))
           /\ Len(SignUps[e].tables) \in Nat
           /\ \A k \in 1..Len(SignUps[e].tables) :
                 /\ SignUps[e].tables[k] \in Seq(Nat)
                 /\ Len(SignUps[e].tables[k]) \in Nat
                 /\ \A j \in 1..Len(SignUps[e].tables[k]) : SignUps[e].tables[k][j] \in Nat
<1> DEFINE s == SignUps[e]
<1>1. s \in [name : Names, dishes : Nat, tables : Seq(Seq(Nat))]
  BY ConsoleAssumption
<1> HIDE DEF s
<1>2. s.name \in Names /\ s.dishes \in Nat /\ s.tables \in Seq(Seq(Nat))
  BY <1>1
<1>3. Len(s.tables) \in Nat /\ \A k \in 1..Len(s.tables) : s.tables[k] \in Seq(Nat)
  BY <1>2
<1>4. \A t \in Seq(Nat) : Len(t) \in Nat /\ \A j \in 1..Len(t) : t[j] \in Nat
  OBVIOUS
<1>5. QED
  BY <1>2, <1>3, <1>4 DEF s

\* One field of a sign-up changes, the others stay.
LEMMA SignUpSet ==
    ASSUME NEW h \in SignUpHandler
    PROVE  /\ \A p \in SignUpSteps :
                 /\ [h EXCEPT !.pc = p] \in SignUpHandler
                 /\ [h EXCEPT !.pc = p].pc = p
                 /\ [h EXCEPT !.pc = p].account = h.account
                 /\ [h EXCEPT !.pc = p].at = h.at
                 /\ [h EXCEPT !.pc = p].branch = h.branch
                 /\ [h EXCEPT !.pc = p].dish = h.dish
                 /\ [h EXCEPT !.pc = p].tab = h.tab
           /\ \A k \in Nat :
                 /\ [h EXCEPT !.n = k] \in SignUpHandler
                 /\ [h EXCEPT !.n = k].pc = h.pc
                 /\ [h EXCEPT !.n = k].account = h.account
                 /\ [h EXCEPT !.n = k].at = h.at
                 /\ [h EXCEPT !.n = k].branch = h.branch
                 /\ [h EXCEPT !.n = k].dish = h.dish
                 /\ [h EXCEPT !.n = k].tab = h.tab
           /\ \A k \in Nat :
                 /\ [h EXCEPT !.at = k] \in SignUpHandler
                 /\ [h EXCEPT !.at = k].pc = h.pc
                 /\ [h EXCEPT !.at = k].account = h.account
                 /\ [h EXCEPT !.at = k].at = k
                 /\ [h EXCEPT !.at = k].branch = h.branch
                 /\ [h EXCEPT !.at = k].dish = h.dish
                 /\ [h EXCEPT !.at = k].tab = h.tab
           /\ \A k \in Nat :
                 /\ [h EXCEPT !.branch = k] \in SignUpHandler
                 /\ [h EXCEPT !.branch = k].pc = h.pc
                 /\ [h EXCEPT !.branch = k].account = h.account
                 /\ [h EXCEPT !.branch = k].at = h.at
                 /\ [h EXCEPT !.branch = k].branch = k
                 /\ [h EXCEPT !.branch = k].dish = h.dish
                 /\ [h EXCEPT !.branch = k].tab = h.tab
           /\ \A k \in Nat :
                 /\ [h EXCEPT !.dish = k] \in SignUpHandler
                 /\ [h EXCEPT !.dish = k].pc = h.pc
                 /\ [h EXCEPT !.dish = k].account = h.account
                 /\ [h EXCEPT !.dish = k].at = h.at
                 /\ [h EXCEPT !.dish = k].branch = h.branch
                 /\ [h EXCEPT !.dish = k].dish = k
                 /\ [h EXCEPT !.dish = k].tab = h.tab
           /\ \A k \in Nat :
                 /\ [h EXCEPT !.tab = k] \in SignUpHandler
                 /\ [h EXCEPT !.tab = k].pc = h.pc
                 /\ [h EXCEPT !.tab = k].account = h.account
                 /\ [h EXCEPT !.tab = k].at = h.at
                 /\ [h EXCEPT !.tab = k].branch = h.branch
                 /\ [h EXCEPT !.tab = k].dish = h.dish
                 /\ [h EXCEPT !.tab = k].tab = k
<1>1. /\ h = [pc |-> h.pc, account |-> h.account, at |-> h.at, branch |-> h.branch,
              dish |-> h.dish, tab |-> h.tab, n |-> h.n]
      /\ h.pc \in SignUpSteps /\ h.account \in Accounts /\ h.at \in Nat /\ h.branch \in Nat
      /\ h.dish \in Nat /\ h.tab \in Nat /\ h.n \in Nat
  BY DEF SignUpHandler
<1> DEFINE a == h.pc
           b == h.account
           c == h.at
           d == h.branch
           i == h.dish
           j == h.tab
           l == h.n
<1>2. /\ h = [pc |-> a, account |-> b, at |-> c, branch |-> d, dish |-> i, tab |-> j, n |-> l]
      /\ a \in SignUpSteps /\ b \in Accounts /\ c \in Nat /\ d \in Nat
      /\ i \in Nat /\ j \in Nat /\ l \in Nat
  BY <1>1
<1> HIDE DEF a, b, c, d, i, j, l
<1>3. \A w \in SignUpSteps, x, y, z, u, v \in Nat :
         [pc |-> w, account |-> b, at |-> x, branch |-> y, dish |-> z, tab |-> u, n |-> v]
            \in SignUpHandler
  BY <1>2 DEF SignUpHandler
<1>4. ASSUME NEW p \in SignUpSteps
      PROVE  /\ [h EXCEPT !.pc = p] \in SignUpHandler
             /\ [h EXCEPT !.pc = p].pc = p
             /\ [h EXCEPT !.pc = p].account = h.account
             /\ [h EXCEPT !.pc = p].at = h.at
             /\ [h EXCEPT !.pc = p].branch = h.branch
             /\ [h EXCEPT !.pc = p].dish = h.dish
             /\ [h EXCEPT !.pc = p].tab = h.tab
  <2>1. [h EXCEPT !.pc = p]
           = [pc |-> p, account |-> b, at |-> c, branch |-> d, dish |-> i, tab |-> j, n |-> l]
    BY <1>2
  <2>2. [h EXCEPT !.pc = p] \in SignUpHandler
    BY <1>2, <1>3, <2>1
  <2>3. QED
    BY <2>1, <2>2 DEF a, b, c, d, i, j, l
<1>5. ASSUME NEW k \in Nat
      PROVE  /\ [h EXCEPT !.n = k] \in SignUpHandler
             /\ [h EXCEPT !.n = k].pc = h.pc
             /\ [h EXCEPT !.n = k].account = h.account
             /\ [h EXCEPT !.n = k].at = h.at
             /\ [h EXCEPT !.n = k].branch = h.branch
             /\ [h EXCEPT !.n = k].dish = h.dish
             /\ [h EXCEPT !.n = k].tab = h.tab
  <2>1. [h EXCEPT !.n = k]
           = [pc |-> a, account |-> b, at |-> c, branch |-> d, dish |-> i, tab |-> j, n |-> k]
    BY <1>2
  <2>2. [h EXCEPT !.n = k] \in SignUpHandler
    BY <1>2, <1>3, <2>1
  <2>3. QED
    BY <2>1, <2>2 DEF a, b, c, d, i, j, l
<1>6. ASSUME NEW k \in Nat
      PROVE  /\ [h EXCEPT !.at = k] \in SignUpHandler
             /\ [h EXCEPT !.at = k].pc = h.pc
             /\ [h EXCEPT !.at = k].account = h.account
             /\ [h EXCEPT !.at = k].at = k
             /\ [h EXCEPT !.at = k].branch = h.branch
             /\ [h EXCEPT !.at = k].dish = h.dish
             /\ [h EXCEPT !.at = k].tab = h.tab
  <2>1. [h EXCEPT !.at = k]
           = [pc |-> a, account |-> b, at |-> k, branch |-> d, dish |-> i, tab |-> j, n |-> l]
    BY <1>2
  <2>2. [h EXCEPT !.at = k] \in SignUpHandler
    BY <1>2, <1>3, <2>1
  <2>3. QED
    BY <2>1, <2>2 DEF a, b, c, d, i, j, l
<1>7. ASSUME NEW k \in Nat
      PROVE  /\ [h EXCEPT !.branch = k] \in SignUpHandler
             /\ [h EXCEPT !.branch = k].pc = h.pc
             /\ [h EXCEPT !.branch = k].account = h.account
             /\ [h EXCEPT !.branch = k].at = h.at
             /\ [h EXCEPT !.branch = k].branch = k
             /\ [h EXCEPT !.branch = k].dish = h.dish
             /\ [h EXCEPT !.branch = k].tab = h.tab
  <2>1. [h EXCEPT !.branch = k]
           = [pc |-> a, account |-> b, at |-> c, branch |-> k, dish |-> i, tab |-> j, n |-> l]
    BY <1>2
  <2>2. [h EXCEPT !.branch = k] \in SignUpHandler
    BY <1>2, <1>3, <2>1
  <2>3. QED
    BY <2>1, <2>2 DEF a, b, c, d, i, j, l
<1>8. ASSUME NEW k \in Nat
      PROVE  /\ [h EXCEPT !.dish = k] \in SignUpHandler
             /\ [h EXCEPT !.dish = k].pc = h.pc
             /\ [h EXCEPT !.dish = k].account = h.account
             /\ [h EXCEPT !.dish = k].at = h.at
             /\ [h EXCEPT !.dish = k].branch = h.branch
             /\ [h EXCEPT !.dish = k].dish = k
             /\ [h EXCEPT !.dish = k].tab = h.tab
  <2>1. [h EXCEPT !.dish = k]
           = [pc |-> a, account |-> b, at |-> c, branch |-> d, dish |-> k, tab |-> j, n |-> l]
    BY <1>2
  <2>2. [h EXCEPT !.dish = k] \in SignUpHandler
    BY <1>2, <1>3, <2>1
  <2>3. QED
    BY <2>1, <2>2 DEF a, b, c, d, i, j, l
<1>9. ASSUME NEW k \in Nat
      PROVE  /\ [h EXCEPT !.tab = k] \in SignUpHandler
             /\ [h EXCEPT !.tab = k].pc = h.pc
             /\ [h EXCEPT !.tab = k].account = h.account
             /\ [h EXCEPT !.tab = k].at = h.at
             /\ [h EXCEPT !.tab = k].branch = h.branch
             /\ [h EXCEPT !.tab = k].dish = h.dish
             /\ [h EXCEPT !.tab = k].tab = k
  <2>1. [h EXCEPT !.tab = k]
           = [pc |-> a, account |-> b, at |-> c, branch |-> d, dish |-> i, tab |-> k, n |-> l]
    BY <1>2
  <2>2. [h EXCEPT !.tab = k] \in SignUpHandler
    BY <1>2, <1>3, <2>1
  <2>3. QED
    BY <2>1, <2>2 DEF a, b, c, d, i, j, l
<1>10. QED
  BY <1>4, <1>5, <1>6, <1>7, <1>8, <1>9

\* A sign-up between two parts of its request.
Between(h) ==
    LET asked == SignUps[h.account] IN
    /\ h.at <= Len(asked.tables)
    /\ h.at = 0 => h.dish = 0 /\ h.tab = 0
    /\ h.at > 0 => /\ h.dish <= asked.dishes
                   /\ h.tab <= Len(asked.tables[h.at])
                   /\ h.dish < asked.dishes => h.tab = 0

Complete(h) ==
    h.at > 0 => /\ h.dish = SignUps[h.account].dishes
                /\ h.tab = Len(SignUps[h.account].tables[h.at])

\* Where GoOn leads.
LEMMA GoesOn ==
    ASSUME NEW h \in SignUpHandler, Between(h)
    PROVE  \/ /\ GoOn(h) = Idle
              /\ h.at = Len(SignUps[h.account].tables)
              /\ Complete(h)
           \/ /\ GoOn(h) \in GoodSignUp
              /\ GoOn(h).account = h.account
              /\ \/ /\ GoOn(h).pc \in {"suDishProbe", "suTable"}
                    /\ h.at > 0 /\ GoOn(h).at = h.at /\ GoOn(h).branch = h.branch
                    /\ GoOn(h).dish = h.dish /\ GoOn(h).tab = h.tab
                 \/ /\ GoOn(h).pc = "suProbe"
                    /\ Complete(h)
                    /\ GoOn(h).at = h.at + 1
<1> DEFINE T == SignUps[h.account].tables
           D == SignUps[h.account].dishes
<1>0. /\ h.account \in Accounts /\ h.at \in Nat /\ h.dish \in Nat /\ h.tab \in Nat
      /\ h.branch \in Nat
  BY DEF SignUpHandler
<1>1. Len(T) \in Nat /\ D \in Nat /\ \A k \in 1..Len(T) : Len(T[k]) \in Nat
  BY <1>0, Asked
<1>s. {"suDishProbe", "suTable", "suProbe"} \subseteq SignUpSteps
  BY DEF SignUpSteps
<1>2. CASE h.at > 0 /\ h.dish < D
  <2> DEFINE f == [h EXCEPT !.pc = "suDishProbe"]
             g == [h EXCEPT !.pc = "suDishProbe", !.n = 0]
  <2>1. f \in SignUpHandler /\ f.pc = "suDishProbe" /\ f.account = h.account /\ f.at = h.at
        /\ f.branch = h.branch /\ f.dish = h.dish /\ f.tab = h.tab
    BY <1>s, SignUpSet
  <2>2. g = [f EXCEPT !.n = 0]
    OBVIOUS
  <2>3. GoOn(h) = g
    <3>1. h.dish # D
      BY <1>0, <1>1, <1>2
    <3>2. QED
      BY <1>2, <3>1 DEF GoOn
  <2> HIDE DEF f, g
  <2>4. g \in SignUpHandler /\ g.pc = "suDishProbe" /\ g.account = h.account /\ g.at = h.at
        /\ g.branch = h.branch /\ g.dish = h.dish /\ g.tab = h.tab
    BY <2>1, <2>2, SignUpSet
  <2>5. InRequest(g)
    BY <1>0, <1>1, <1>2, <2>4 DEF InRequest, Between
  <2>6. QED
    BY <1>2, <2>3, <2>4, <2>5 DEF GoodSignUp
<1>3. CASE h.at > 0 /\ h.dish = D /\ h.tab < Len(T[h.at])
  <2> DEFINE f == [h EXCEPT !.pc = "suTable"]
  <2>1. f \in SignUpHandler /\ f.pc = "suTable" /\ f.account = h.account /\ f.at = h.at
        /\ f.branch = h.branch /\ f.dish = h.dish /\ f.tab = h.tab
    BY <1>s, SignUpSet
  <2>2. ~(h.at > 0 /\ h.dish < D)
    BY <1>0, <1>1, <1>3
  <2>3. GoOn(h) = f
    BY <1>3, <2>2 DEF GoOn
  <2> HIDE DEF f
  <2>4. h.at <= Len(T) /\ h.at # 0
    BY <1>0, <1>1, <1>3 DEF Between
  <2>5. InRequest(f)
    BY <1>3, <2>1, <2>4 DEF InRequest
  <2>6. QED
    BY <1>3, <2>3, <2>1, <2>5 DEF GoodSignUp
<1>4. CASE ~(h.at > 0 /\ h.dish < D) /\ ~(h.at > 0 /\ h.dish = D /\ h.tab < Len(T[h.at]))
  <2>1. Complete(h)
    BY <1>0, <1>1, <1>4 DEF Between, Complete
  <2>2. CASE h.at = Len(T)
    <3>1. GoOn(h) = Idle
      BY <1>4, <2>2 DEF GoOn
    <3>2. QED
      BY <2>1, <2>2, <3>1
  <2>3. CASE h.at # Len(T)
    <3> DEFINE f1 == [h EXCEPT !.pc = "suProbe"]
               f2 == [h EXCEPT !.pc = "suProbe", !.at = @ + 1]
               f3 == [h EXCEPT !.pc = "suProbe", !.at = @ + 1, !.n = 0]
               f4 == [h EXCEPT !.pc = "suProbe", !.at = @ + 1, !.n = 0, !.dish = 0]
               f5 == [h EXCEPT !.pc = "suProbe", !.at = @ + 1, !.n = 0, !.dish = 0, !.tab = 0]
    <3>1. /\ f2 = [f1 EXCEPT !.at = f1.at + 1] /\ f3 = [f2 EXCEPT !.n = 0]
          /\ f4 = [f3 EXCEPT !.dish = 0] /\ f5 = [f4 EXCEPT !.tab = 0]
      OBVIOUS
    <3>2. GoOn(h) = f5
      BY <1>4, <2>3 DEF GoOn
    <3>3. f1 \in SignUpHandler /\ f1.pc = "suProbe" /\ f1.account = h.account /\ f1.at = h.at
          /\ f1.branch = h.branch /\ f1.dish = h.dish /\ f1.tab = h.tab
      BY <1>s, SignUpSet
    <3> HIDE DEF f1, f2, f3, f4, f5
    <3>a. f1.at + 1 = h.at + 1 /\ h.at + 1 \in Nat
      BY <1>0, <3>3
    <3>4. f2 \in SignUpHandler /\ f2.pc = "suProbe" /\ f2.account = h.account
          /\ f2.at = h.at + 1
      BY <3>1, <3>3, <3>a, SignUpSet
    <3>5. f3 \in SignUpHandler /\ f3.pc = "suProbe" /\ f3.account = h.account
          /\ f3.at = h.at + 1
      <4>1. /\ [f2 EXCEPT !.n = 0] \in SignUpHandler
            /\ [f2 EXCEPT !.n = 0].pc = f2.pc
            /\ [f2 EXCEPT !.n = 0].account = f2.account
            /\ [f2 EXCEPT !.n = 0].at = f2.at
        BY <3>4, SignUpSet
      <4>2. QED
        BY <3>1, <3>4, <4>1
    <3>6. f4 \in SignUpHandler /\ f4.pc = "suProbe" /\ f4.account = h.account
          /\ f4.at = h.at + 1 /\ f4.dish = 0
      <4>1. /\ [f3 EXCEPT !.dish = 0] \in SignUpHandler
            /\ [f3 EXCEPT !.dish = 0].pc = f3.pc
            /\ [f3 EXCEPT !.dish = 0].account = f3.account
            /\ [f3 EXCEPT !.dish = 0].at = f3.at
            /\ [f3 EXCEPT !.dish = 0].dish = 0
        BY <3>5, SignUpSet
      <4>2. QED
        BY <3>1, <3>5, <4>1
    <3>7. f5 \in SignUpHandler /\ f5.pc = "suProbe" /\ f5.account = h.account
          /\ f5.at = h.at + 1 /\ f5.dish = 0 /\ f5.tab = 0
      <4>1. /\ [f4 EXCEPT !.tab = 0] \in SignUpHandler
            /\ [f4 EXCEPT !.tab = 0].pc = f4.pc
            /\ [f4 EXCEPT !.tab = 0].account = f4.account
            /\ [f4 EXCEPT !.tab = 0].at = f4.at
            /\ [f4 EXCEPT !.tab = 0].dish = f4.dish
            /\ [f4 EXCEPT !.tab = 0].tab = 0
        BY <3>6, SignUpSet
      <4>2. QED
        BY <3>1, <3>6, <4>1
    <3>8. InRequest(f5)
      BY <1>0, <1>1, <2>3, <3>7 DEF InRequest, Between
    <3>9. QED
      BY <2>1, <3>2, <3>7, <3>8 DEF GoodSignUp
  <2>4. QED
    BY <2>2, <2>3
<1>5. QED
  BY <1>0, <1>1, <1>2, <1>3, <1>4

\* Whoever signs up has counted as far as this.
LEMMA SignUpHas ==
    ASSUME ReqOK, NEW r \in Requests, req[r].pc \in SignUpSteps
    PROVE  /\ req[r] \in SignUpHandler
           /\ InRequest(req[r])
           /\ req[r].account \in Accounts /\ req[r].branch \in Nat /\ req[r].n \in Nat
           /\ req[r].at \in Nat /\ req[r].dish \in Nat /\ req[r].tab \in Nat
  BY HandlerKinds DEF ReqOK, GoodSignUp, SignUpHandler

\* What a sign-up has done so far lies between two parts.
LEMMA PartDone ==
    ASSUME ReqOK, NEW r \in Requests, req[r].pc \in SignUpSteps, NEW k \in Nat
    PROVE  /\ req[r].pc = "suCompany" => Between(req[r])
           /\ req[r].pc = "suBranch" => Between([req[r] EXCEPT !.branch = k])
           /\ req[r].pc = "suDish" => Between([req[r] EXCEPT !.dish = @ + 1])
           /\ req[r].pc = "suTable" => Between([req[r] EXCEPT !.tab = @ + 1])
<1>1. /\ req[r] \in SignUpHandler
      /\ InRequest(req[r])
      /\ req[r].account \in Accounts /\ req[r].branch \in Nat /\ req[r].n \in Nat
      /\ req[r].at \in Nat /\ req[r].dish \in Nat /\ req[r].tab \in Nat
  BY SignUpHas
<1> DEFINE h == req[r]
<1>2. /\ Len(SignUps[h.account].tables) \in Nat /\ SignUps[h.account].dishes \in Nat
      /\ \A i \in 1..Len(SignUps[h.account].tables) : Len(SignUps[h.account].tables[i]) \in Nat
  BY <1>1, Asked
<1>3. h.dish + 1 \in Nat /\ h.tab + 1 \in Nat
  BY <1>1
<1>i. InRequest(h) /\ h.at \in Nat /\ h.dish \in Nat
  BY <1>1
<1> HIDE DEF h
<1>4. h.pc = "suCompany" => Between(h)
  BY <1>1, <1>2 DEF h, InRequest, Between
<1>5. ASSUME h.pc = "suBranch" PROVE Between([h EXCEPT !.branch = k])
  <2> DEFINE g == [h EXCEPT !.branch = k]
  <2>1. g.account = h.account /\ g.at = h.at /\ g.dish = h.dish /\ g.tab = h.tab
    BY <1>1, SignUpSet DEF h
  <2> HIDE DEF g
  <2>2. /\ h.at \in Nat /\ h.at > 0 /\ h.at <= Len(SignUps[h.account].tables)
        /\ h.dish = 0 /\ h.tab = 0
    <3>1. h.at # 0
      BY <1>i, <1>5 DEF InRequest
    <3>2. QED
      BY <1>i, <1>5, <3>1 DEF InRequest
  <2>a. h.at \in 1..Len(SignUps[h.account].tables)
    BY <1>2, <2>2
  <2>3. Len(SignUps[h.account].tables[h.at]) \in Nat
    BY <1>2, <2>a
  <2>4. Between(g)
    BY <1>2, <2>1, <2>2, <2>3 DEF Between
  <2>5. QED
    BY <2>4 DEF g
<1>6. ASSUME h.pc = "suDish" PROVE Between([h EXCEPT !.dish = h.dish + 1])
  <2> DEFINE g == [h EXCEPT !.dish = h.dish + 1]
  <2>1. g.account = h.account /\ g.at = h.at /\ g.dish = h.dish + 1 /\ g.tab = h.tab
    BY <1>1, <1>3, SignUpSet DEF h
  <2> HIDE DEF g
  <2>2. /\ h.at \in Nat /\ h.at > 0 /\ h.at <= Len(SignUps[h.account].tables)
        /\ h.dish \in Nat /\ h.dish < SignUps[h.account].dishes /\ h.tab = 0
    <3>1. h.at # 0
      BY <1>i, <1>6 DEF InRequest
    <3>2. QED
      BY <1>i, <1>6, <3>1 DEF InRequest
  <2>a. h.at \in 1..Len(SignUps[h.account].tables)
    BY <1>2, <2>2
  <2>3. Len(SignUps[h.account].tables[h.at]) \in Nat
    BY <1>2, <2>a
  <2>4. Between(g)
    BY <1>2, <2>1, <2>2, <2>3 DEF Between
  <2>5. QED
    BY <2>4 DEF g
<1>7. ASSUME h.pc = "suTable" PROVE Between([h EXCEPT !.tab = h.tab + 1])
  <2> DEFINE g == [h EXCEPT !.tab = h.tab + 1]
  <2>1. g.account = h.account /\ g.at = h.at /\ g.dish = h.dish /\ g.tab = h.tab + 1
    BY <1>1, <1>3, SignUpSet DEF h
  <2> HIDE DEF g
  <2>2. Between(g)
    <3>1. /\ h.at \in 1..Len(SignUps[h.account].tables)
          /\ h.dish = SignUps[h.account].dishes
          /\ h.tab < Len(SignUps[h.account].tables[h.at])
      BY <1>1, <1>2, <1>7 DEF h, InRequest
    <3>2. h.tab \in Nat /\ Len(SignUps[h.account].tables[h.at]) \in Nat
      BY <1>1, <1>2, <3>1 DEF h
    <3>3. /\ g.tab <= Len(SignUps[g.account].tables[g.at])
          /\ ~(g.dish < SignUps[g.account].dishes)
          /\ g.dish <= SignUps[g.account].dishes
          /\ g.at # 0 /\ g.at <= Len(SignUps[g.account].tables)
      <4> DEFINE L == Len(SignUps[h.account].tables[h.at])
                 D == SignUps[h.account].dishes
                 N == Len(SignUps[h.account].tables)
      <4>1. L \in Nat /\ D \in Nat /\ N \in Nat /\ h.tab \in Nat /\ h.at \in 1..N
            /\ h.tab < L /\ h.dish = D
        BY <1>2, <3>1, <3>2
      <4>2. /\ Len(SignUps[g.account].tables[g.at]) = L
            /\ SignUps[g.account].dishes = D
            /\ Len(SignUps[g.account].tables) = N
        BY <2>1
      <4> HIDE DEF L, D, N
      <4>3. QED
        BY <2>1, <4>1, <4>2
    <3>4. g.at > 0
      BY <1>1, <2>1, <3>3 DEF h
    <3>5. QED
      BY <3>3, <3>4 DEF Between
  <2>3. QED
    BY <2>2 DEF g
<1>8. QED
  BY <1>4, <1>5, <1>6, <1>7 DEF h

LEMMA NoteType ==
    ASSUME ConsoleTypeOK, NEW S, NEW why \in ConsoleNotes, Note(S, why)
    PROVE  consoleNotes' \in [Accounts -> SUBSET ConsoleNotes]
  BY DEF ConsoleTypeOK, Note

\* What a sign-up goes on as is a handler, or none.
LEMMA SignUpStep ==
    ASSUME ReqOK, NEW r \in Requests, req[r].pc \in SignUpSteps,
           NEW h, req' = [req EXCEPT ![r] = h], h \in GoodSignUp \cup {Idle}
    PROVE  ReqOK' /\ Moves(ConsoleSteps)
<1>1. h \in AnyHandler /\ h.pc \in ConsoleSteps \cup {"idle"}
  BY StepsOf DEF GoodConsole
<1>2. req[r].pc \in ConsoleSteps
  BY DEF ConsoleSteps
<1>3. QED
  BY <1>1, <1>2, SlotMoves

\* The next part of a sign-up.
LEMMA NextPart ==
    ASSUME NEW h \in SignUpHandler, Between(h)
    PROVE  GoOn(h) \in GoodSignUp \cup {Idle}
  BY GoesOn

\* No step of the console leads out of the types.
LEMMA ConsoleTypes ==
    ASSUME TInv, ConsoleNext, UNCHANGED <<staffVars, menuVars, printerVars, reportVars>>
    PROVE  TInv' /\ Moves(ConsoleSteps)
<1> SUFFICES ReqOK' /\ ConsoleTypeOK' /\ Moves(ConsoleSteps)
  BY DEF TInv, staffVars, menuVars, printerVars, reportVars, StaffTypeOK, MenuTypeOK,
         PrinterTypeOK, ReportTypeOK
<1>t. ReqOK /\ ConsoleTypeOK
  BY DEF TInv
<1>a. /\ account \in [Accounts -> Account]
      /\ company \in [Accounts -> Names \cup {"none", ""}]
      /\ branches \in Seq(Branch)
      /\ dishes \in Seq(Dish)
      /\ links \in Seq(Link)
      /\ consoleNotes \in [Accounts -> SUBSET ConsoleNotes]
  BY <1>t DEF ConsoleTypeOK
<1>b. /\ DOMAIN branches = 1..Len(branches) /\ Len(branches) \in Nat
      /\ DOMAIN links = 1..Len(links) /\ Len(links) \in Nat
      /\ \A i \in DOMAIN branches : branches[i] \in Branch
      /\ \A i \in DOMAIN links : links[i] \in Link
      /\ \A i \in DOMAIN dishes : dishes[i] \in Dish
  <2>1. DOMAIN branches = 1..Len(branches) /\ Len(branches) \in Nat
    <3>1. branches \in Seq(Branch)
      BY <1>a
    <3>2. QED
      BY <3>1
  <2>2. DOMAIN links = 1..Len(links) /\ Len(links) \in Nat
    <3>1. links \in Seq(Link)
      BY <1>a
    <3>2. QED
      BY <3>1
  <2>3. \A i \in DOMAIN branches : branches[i] \in Branch
    <3>1. branches \in Seq(Branch)
      BY <1>a
    <3>2. QED
      BY <3>1
  <2>4. \A i \in DOMAIN links : links[i] \in Link
    <3>1. links \in Seq(Link)
      BY <1>a
    <3>2. QED
      BY <3>1
  <2>5. \A i \in DOMAIN dishes : dishes[i] \in Dish
    <3>1. dishes \in Seq(Dish)
      BY <1>a
    <3>2. QED
      BY <3>1
  <2>6. QED
    BY <2>1, <2>2, <2>3, <2>4, <2>5
<1>i. Idle \in AnyHandler /\ Idle.pc = "idle"
  BY StepsOf
<1>e. ASSUME NEW r \in Requests, req' = [req EXCEPT ![r] = Idle], req[r].pc \in ConsoleSteps
      PROVE  ReqOK' /\ Moves(ConsoleSteps)
  BY <1>t, <1>i, <1>e, SlotMoves
<1>n. ASSUME NEW r \in Requests, NEW kind, NEW h \in GoodConsole, Begin(r, kind, h)
      PROVE  ReqOK' /\ Moves(ConsoleSteps)
  <2>1. req[r].pc = "idle" /\ req' = [req EXCEPT ![r] = h]
    BY <1>n, FreeIs DEF Begin
  <2>2. h \in AnyHandler /\ h.pc \in ConsoleSteps
    BY <1>n, StepsOf
  <2>3. QED
    BY <1>t, <2>1, <2>2, SlotMoves
<1>s. ASSUME NEW r \in Requests, req[r].pc \in SignUpSteps
      PROVE  /\ req[r].account \in Accounts
             /\ req[r].pc \in ConsoleSteps
             /\ \A p \in {"suCompany", "suBranch", "suDish"} :
                   [req[r] EXCEPT !.pc = p] \in SignUpHandler
  <2>1. req[r] \in SignUpHandler /\ req[r].account \in Accounts
    BY <1>t, <1>s, SignUpHas
  <2>2. {"suCompany", "suBranch", "suDish"} \subseteq SignUpSteps
    BY DEF SignUpSteps
  <2>3. QED
    BY <1>s, <2>1, <2>2, SignUpSet DEF ConsoleSteps
<1>f. ASSUME NEW r \in Requests, req[r].pc \in SignUpSteps, SignUpFails(r)
      PROVE  /\ ReqOK' /\ Moves(ConsoleSteps)
             /\ consoleNotes' \in [Accounts -> SUBSET ConsoleNotes]
  <2>1. req' = [req EXCEPT ![r] = Idle] /\ Note({req[r].account}, "failed")
    BY <1>f DEF SignUpFails, End, Become
  <2>2. "failed" \in ConsoleNotes
    BY DEF ConsoleNotes
  <2>3. QED
    BY <1>t, <1>e, <1>f, <1>s, <2>1, <2>2, NoteType
<1>1. ASSUME NEW r \in Requests, NEW e \in Accounts, SignUp(r, e)
      PROVE  ReqOK' /\ ConsoleTypeOK' /\ Moves(ConsoleSteps)
  <2> DEFINE h == [pc |-> "suUser", account |-> e, at |-> 0, branch |-> 0,
                   dish |-> 0, tab |-> 0, n |-> 0]
  <2>1. h \in SignUpHandler
    BY DEF SignUpHandler, SignUpSteps
  <2>2. Len(SignUps[e].tables) \in Nat
    BY Asked
  <2>3. InRequest(h)
    BY <2>2 DEF InRequest
  <2>4. h \in GoodConsole
    BY <2>1, <2>3 DEF GoodConsole, GoodSignUp
  <2>5. consoleNotes' \in [Accounts -> SUBSET ConsoleNotes]
    <3>1. "overlap" \in ConsoleNotes
      BY DEF ConsoleNotes
    <3>2. \E S : Note(S, "overlap")
      BY <1>1 DEF SignUp
    <3>3. QED
      BY <1>t, <3>1, <3>2, NoteType
  <2>6. Begin(r, "signUp", h) /\ UNCHANGED <<account, company, branches, dishes, links>>
    BY <1>1 DEF SignUp
  <2> HIDE DEF h
  <2>7. QED
    BY <1>a, <1>n, <2>4, <2>5, <2>6 DEF ConsoleTypeOK
<1>2. ASSUME NEW r \in Requests, SuUser(r)
      PROVE  ReqOK' /\ ConsoleTypeOK' /\ Moves(ConsoleSteps)
  <2>1. req[r].pc = "suUser" /\ req[r].pc \in SignUpSteps
    BY <1>2 DEF SuUser, SignUpSteps
  <2>2. req[r].account \in Accounts /\ [req[r] EXCEPT !.pc = "suCompany"] \in SignUpHandler
    BY <1>s, <2>1
  <2>3. SignUps[req[r].account].name \in Names
    BY <2>2, Asked
  <2>4. [req[r] EXCEPT !.pc = "suCompany"] \in GoodSignUp
    <3> DEFINE g == [req[r] EXCEPT !.pc = "suCompany"]
    <3>1. /\ InRequest(req[r]) /\ req[r] \in SignUpHandler /\ req[r].account \in Accounts
          /\ req[r].at \in Nat
      BY <1>t, <2>1, SignUpHas
    <3>2. "suCompany" \in SignUpSteps
      BY DEF SignUpSteps
    <3>3. /\ g.pc = "suCompany" /\ g.account = req[r].account /\ g.at = req[r].at
          /\ g.dish = req[r].dish /\ g.tab = req[r].tab /\ g \in SignUpHandler
      BY <3>1, <3>2, SignUpSet
    <3> HIDE DEF g
    <3>4. InRequest(g)
      BY <2>1, <3>1, <3>3 DEF InRequest
    <3>5. QED
      BY <3>3, <3>4 DEF GoodSignUp, g
  <2>5. \/ req' = [req EXCEPT ![r] = Idle] /\ UNCHANGED account
        \/ /\ req' = [req EXCEPT ![r] = [req[r] EXCEPT !.pc = "suCompany"]]
           /\ account' = [account EXCEPT ![req[r].account].row = "here",
                                         ![req[r].account].name = SignUps[req[r].account].name]
    BY <1>2 DEF SuUser, End, Goto, Become
  <2>6. account' \in [Accounts -> Account]
    <3> DEFINE e == req[r].account
               f == [account EXCEPT ![e].row = "here"]
    <3>1. account[e] \in Account
      BY <1>a, <2>2
    <3>2. [account[e] EXCEPT !.row = "here"] \in Account
      BY <3>1 DEF Account
    <3>3. f \in [Accounts -> Account]
      BY <1>a, <3>2
    <3>4. [account EXCEPT ![e].row = "here", ![e].name = SignUps[e].name]
             = [f EXCEPT ![e].name = SignUps[e].name]
      OBVIOUS
    <3> HIDE DEF f
    <3>5. [f[e] EXCEPT !.name = SignUps[e].name] \in Account
      <4>1. f[e] \in Account
        BY <2>2, <3>3
      <4>2. QED
        BY <2>3, <4>1 DEF Account
    <3>6. [f EXCEPT ![e].name = SignUps[e].name] \in [Accounts -> Account]
      BY <3>3, <3>5
    <3>7. QED
      BY <1>a, <2>5, <3>4, <3>6
  <2>7. ReqOK' /\ Moves(ConsoleSteps)
    BY <1>t, <2>1, <2>4, <2>5, SignUpStep
  <2>8. QED
    BY <1>2, <1>a, <2>6, <2>7 DEF SuUser, ConsoleTypeOK
<1>3. ASSUME NEW r \in Requests, SuCompany(r)
      PROVE  ReqOK' /\ ConsoleTypeOK' /\ Moves(ConsoleSteps)
  <2>1. req[r].pc = "suCompany" /\ req[r].pc \in SignUpSteps
    BY <1>3 DEF SuCompany, SignUpSteps
  <2>2. req[r] \in SignUpHandler /\ req[r].account \in Accounts
    BY <1>t, <2>1, SignUpHas
  <2>3. Between(req[r])
    BY <1>t, <2>1, PartDone
  <2>4. GoOn(req[r]) \in GoodSignUp \cup {Idle}
    BY <2>2, <2>3, NextPart
  <2>5. \/ SignUpFails(r) /\ UNCHANGED company
        \/ /\ company' = [company EXCEPT ![req[r].account] = SignUps[req[r].account].name]
           /\ req' = [req EXCEPT ![r] = GoOn(req[r])]
           /\ UNCHANGED consoleNotes
    BY <1>3 DEF SuCompany, Become
  <2>6. UNCHANGED <<account, branches, dishes, links>>
    BY <1>3 DEF SuCompany
  <2>7. company' \in [Accounts -> Names \cup {"none", ""}]
    BY <1>a, <2>2, <2>5, Asked
  <2>8. /\ ReqOK' /\ Moves(ConsoleSteps)
        /\ consoleNotes' \in [Accounts -> SUBSET ConsoleNotes]
    BY <1>a, <1>t, <1>f, <2>1, <2>4, <2>5, SignUpStep
  <2>9. QED
    BY <1>a, <2>6, <2>7, <2>8 DEF ConsoleTypeOK
<1>4. ASSUME NEW r \in Requests, SuProbe(r) \/ SuDishProbe(r)
      PROVE  ReqOK' /\ ConsoleTypeOK' /\ Moves(ConsoleSteps)
  <2>1. req[r].pc \in {"suProbe", "suDishProbe"} /\ req[r].pc \in SignUpSteps
    BY <1>4 DEF SuProbe, SuDishProbe, SignUpSteps
  <2>2. /\ req[r] \in SignUpHandler /\ InRequest(req[r])
        /\ req[r].account \in Accounts /\ req[r].n \in Nat
    BY <1>t, <2>1, SignUpHas
  <2>3. \/ req' = [req EXCEPT ![r] = [req[r] EXCEPT !.n = req[r].n + 1]]
        \/ req[r].pc = "suProbe" /\ req' = [req EXCEPT ![r] = [req[r] EXCEPT !.pc = "suBranch"]]
        \/ req[r].pc = "suDishProbe" /\ req' = [req EXCEPT ![r] = [req[r] EXCEPT !.pc = "suDish"]]
    BY <1>4 DEF SuProbe, SuDishProbe, Become, Goto
  <2>4. [req[r] EXCEPT !.n = req[r].n + 1] \in GoodSignUp
    <3> DEFINE g == [req[r] EXCEPT !.n = req[r].n + 1]
    <3>1. /\ g.pc = req[r].pc /\ g.account = req[r].account /\ g.at = req[r].at
          /\ g.dish = req[r].dish /\ g.tab = req[r].tab /\ g \in SignUpHandler
      <4>1. req[r].n + 1 \in Nat
        BY <2>2
      <4>2. QED
        BY <2>2, <4>1, SignUpSet
    <3> HIDE DEF g
    <3>2. InRequest(g)
      BY <2>2, <3>1 DEF InRequest
    <3>3. QED
      BY <3>1, <3>2 DEF GoodSignUp, g
  <2>5. ASSUME NEW p \in {"suBranch", "suDish"},
               p = "suBranch" <=> req[r].pc = "suProbe"
        PROVE  [req[r] EXCEPT !.pc = p] \in GoodSignUp
    <3> DEFINE g == [req[r] EXCEPT !.pc = p]
    <3>1. /\ g.pc = p /\ g.account = req[r].account /\ g.at = req[r].at
          /\ g.dish = req[r].dish /\ g.tab = req[r].tab /\ g \in SignUpHandler
      <4>1. p \in SignUpSteps
        BY DEF SignUpSteps
      <4>2. QED
        BY <2>2, <4>1, SignUpSet
    <3> HIDE DEF g
    <3>2. InRequest(g)
      BY <2>1, <2>2, <2>5, <3>1 DEF InRequest
    <3>3. QED
      BY <3>1, <3>2 DEF GoodSignUp, g
  <2>6. ReqOK' /\ Moves(ConsoleSteps)
    BY <1>t, <2>1, <2>3, <2>4, <2>5, SignUpStep
  <2>7. QED
    BY <1>a, <1>4, <2>6 DEF SuProbe, SuDishProbe, consoleVars, ConsoleTypeOK
<1>5. ASSUME NEW r \in Requests, SuBranch(r)
      PROVE  ReqOK' /\ ConsoleTypeOK' /\ Moves(ConsoleSteps)
  <2>1. req[r].pc = "suBranch" /\ req[r].pc \in SignUpSteps
    BY <1>5 DEF SuBranch, SignUpSteps
  <2>2. /\ req[r] \in SignUpHandler /\ InRequest(req[r])
        /\ req[r].account \in Accounts /\ req[r].n \in Nat
    BY <1>t, <2>1, SignUpHas
  <2> DEFINE k == Len(branches) + 1
             b == [owner |-> req[r].account, signer |-> req[r].account, code |-> req[r].n,
                   tables |-> {}, gone |-> FALSE]
  <2>3. k \in Nat /\ b \in Branch
    BY <1>b, <2>2 DEF Branch
  <2>4. /\ [req[r] EXCEPT !.branch = k] \in SignUpHandler
        /\ Between([req[r] EXCEPT !.branch = k])
    BY <1>t, <2>1, <2>2, <2>3, SignUpSet, PartDone
  <2>5. GoOn([req[r] EXCEPT !.branch = k]) \in GoodSignUp \cup {Idle}
    BY <2>4, NextPart
  <2>6. \/ SignUpFails(r) /\ UNCHANGED branches
        \/ /\ branches' = Append(branches, b)
           /\ req' = [req EXCEPT ![r] = GoOn([req[r] EXCEPT !.branch = k])]
           /\ UNCHANGED consoleNotes
    BY <1>5 DEF SuBranch, Become
  <2>7. UNCHANGED <<account, company, dishes, links>>
    BY <1>5 DEF SuBranch
  <2> HIDE DEF b, k
  <2>8. branches' \in Seq(Branch)
    <3>1. Append(branches, b) \in Seq(Branch)
      BY <1>a, <2>3, SeqAdd
    <3>2. QED
      BY <1>a, <2>6, <3>1
  <2>9. /\ ReqOK' /\ Moves(ConsoleSteps)
        /\ consoleNotes' \in [Accounts -> SUBSET ConsoleNotes]
    BY <1>a, <1>t, <1>f, <2>1, <2>5, <2>6, SignUpStep
  <2>10. QED
    BY <1>a, <2>7, <2>8, <2>9 DEF ConsoleTypeOK
<1>6. ASSUME NEW r \in Requests, SuDish(r)
      PROVE  ReqOK' /\ ConsoleTypeOK' /\ Moves(ConsoleSteps)
  <2>1. req[r].pc = "suDish" /\ req[r].pc \in SignUpSteps
    BY <1>6 DEF SuDish, SignUpSteps
  <2>2. /\ req[r] \in SignUpHandler /\ InRequest(req[r])
        /\ req[r].account \in Accounts /\ req[r].n \in Nat /\ req[r].branch \in Nat
        /\ req[r].dish \in Nat
    BY <1>t, <2>1, SignUpHas
  <2> DEFINE d == [branch |-> req[r].branch, code |-> req[r].n]
             g == [req[r] EXCEPT !.dish = req[r].dish + 1]
  <2>3. d \in Dish /\ req[r].dish + 1 \in Nat
    BY <2>2 DEF Dish
  <2>4. g \in SignUpHandler /\ Between(g)
    <3>1. 0 \in Nat
      OBVIOUS
    <3>2. Between(g)
      BY <1>t, <2>1, <3>1, PartDone
    <3>3. QED
      BY <2>2, <2>3, <3>2, SignUpSet
  <2>5. GoOn(g) \in GoodSignUp \cup {Idle}
    BY <2>4, NextPart
  <2>6. \/ SignUpFails(r) /\ UNCHANGED dishes
        \/ /\ dishes' = Append(dishes, d)
           /\ req' = [req EXCEPT ![r] = GoOn(g)]
           /\ UNCHANGED consoleNotes
    BY <1>6 DEF SuDish, Become
  <2>7. UNCHANGED <<account, company, branches, links>>
    BY <1>6 DEF SuDish
  <2> HIDE DEF d, g
  <2>8. dishes' \in Seq(Dish)
    <3>1. Append(dishes, d) \in Seq(Dish)
      BY <1>a, <2>3, SeqAdd
    <3>2. QED
      BY <1>a, <2>6, <3>1
  <2>9. /\ ReqOK' /\ Moves(ConsoleSteps)
        /\ consoleNotes' \in [Accounts -> SUBSET ConsoleNotes]
    BY <1>a, <1>t, <1>f, <2>1, <2>5, <2>6, SignUpStep
  <2>10. QED
    BY <1>a, <2>7, <2>8, <2>9 DEF ConsoleTypeOK
<1>7. ASSUME NEW r \in Requests, SuTable(r)
      PROVE  ReqOK' /\ ConsoleTypeOK' /\ Moves(ConsoleSteps)
  <2>1. req[r].pc = "suTable" /\ req[r].pc \in SignUpSteps
    BY <1>7 DEF SuTable, SignUpSteps
  <2>2. /\ req[r] \in SignUpHandler /\ InRequest(req[r])
        /\ req[r].account \in Accounts /\ req[r].at \in Nat /\ req[r].branch \in Nat
        /\ req[r].tab \in Nat
    BY <1>t, <2>1, SignUpHas
  <2> DEFINE number == SignUps[req[r].account].tables[req[r].at][req[r].tab + 1]
             g == [req[r] EXCEPT !.tab = req[r].tab + 1]
             i == req[r].branch
  <2>3. number \in Nat
    <3>1. /\ req[r].at \in 1..Len(SignUps[req[r].account].tables)
          /\ req[r].tab < Len(SignUps[req[r].account].tables[req[r].at])
      BY <2>1, <2>2, Asked DEF InRequest
    <3>2. /\ Len(SignUps[req[r].account].tables[req[r].at]) \in Nat
          /\ \A j \in 1..Len(SignUps[req[r].account].tables[req[r].at]) :
                SignUps[req[r].account].tables[req[r].at][j] \in Nat
      BY <2>2, <3>1, Asked
    <3>3. req[r].tab + 1 \in 1..Len(SignUps[req[r].account].tables[req[r].at])
      <4> DEFINE n == Len(SignUps[req[r].account].tables[req[r].at])
                 k == req[r].tab
      <4>1. n \in Nat /\ k \in Nat /\ k < n
        BY <2>2, <3>1, <3>2
      <4> HIDE DEF n, k
      <4>2. k + 1 \in 1..n
        BY <4>1
      <4>3. QED
        BY <4>2 DEF n, k
    <3>4. QED
      BY <3>2, <3>3
  <2>4. g \in SignUpHandler /\ Between(g)
    <3>1. 0 \in Nat /\ req[r].tab + 1 \in Nat
      BY <2>2
    <3>2. Between(g)
      BY <1>t, <2>1, <3>1, PartDone
    <3>3. QED
      BY <2>2, <3>1, <3>2, SignUpSet
  <2>5. GoOn(g) \in GoodSignUp \cup {Idle}
    BY <2>4, NextPart
  <2>6. \/ SignUpFails(r) /\ UNCHANGED branches
        \/ /\ branches' = [branches EXCEPT ![i] =
                             [branches[i] EXCEPT !.tables = branches[i].tables \cup {number}]]
           /\ req' = [req EXCEPT ![r] = GoOn(g)]
           /\ UNCHANGED consoleNotes
    BY <1>7 DEF SuTable, Become
  <2>7. UNCHANGED <<account, company, dishes, links>>
    BY <1>7 DEF SuTable
  <2>a. i \in DOMAIN branches =>
           [branches[i] EXCEPT !.tables = branches[i].tables \cup {number}] \in Branch
    <3> SUFFICES ASSUME i \in DOMAIN branches
                 PROVE  [branches[i] EXCEPT !.tables = branches[i].tables \cup {number}] \in Branch
      OBVIOUS
    <3>1. branches[i] \in Branch
      BY <1>b
    <3> HIDE DEF number
    <3>2. branches[i].tables \cup {number} \in SUBSET Nat
      BY <2>3, <3>1 DEF Branch
    <3>3. QED
      BY <3>1, <3>2 DEF Branch
  <2> HIDE DEF number, g, i
  <2>8. branches' \in Seq(Branch)
    <3>1. [branches EXCEPT ![i] =
             [branches[i] EXCEPT !.tables = branches[i].tables \cup {number}]] \in Seq(Branch)
      BY <1>a, <2>a, SeqSet
    <3>2. QED
      BY <1>a, <2>6, <3>1
  <2>9. /\ ReqOK' /\ Moves(ConsoleSteps)
        /\ consoleNotes' \in [Accounts -> SUBSET ConsoleNotes]
    BY <1>a, <1>t, <1>f, <2>1, <2>5, <2>6, SignUpStep
  <2>10. QED
    BY <1>a, <2>7, <2>8, <2>9 DEF ConsoleTypeOK
<1>k. ASSUME NEW e \in Accounts, NEW why \in ConsoleNotes, NEW c, NoteIf(e, why, c)
      PROVE  consoleNotes' \in [Accounts -> SUBSET ConsoleNotes]
  BY <1>t, <1>k, NoteType DEF NoteIf
<1>m. {"overlap", "failed", "fault", "edited", "renames", "resets"} \subseteq ConsoleNotes
  BY DEF ConsoleNotes
<1>8. ASSUME NEW r \in Requests, NEW e \in Accounts, NEW n \in Names, UpsertCompany(r, e, n)
      PROVE  ReqOK' /\ ConsoleTypeOK' /\ Moves(ConsoleSteps)
  <2>1. [pc |-> "coName", account |-> e, name |-> n] \in GoodConsole
    BY DEF GoodConsole, CompanyHandler
  <2>2. ReqOK' /\ Moves(ConsoleSteps)
    BY <1>8, <1>n, <2>1 DEF UpsertCompany
  <2>3. consoleNotes' \in [Accounts -> SUBSET ConsoleNotes]
    BY <1>8, <1>k, <1>m DEF UpsertCompany
  <2>4. company' \in [Accounts -> Names \cup {"none", ""}]
    BY <1>a, <1>8 DEF UpsertCompany
  <2>5. UNCHANGED <<account, branches, dishes, links>>
    BY <1>8 DEF UpsertCompany
  <2>6. QED
    BY <1>a, <2>2, <2>3, <2>4, <2>5 DEF ConsoleTypeOK
<1>9. ASSUME NEW e \in Accounts, NEW blank \in BOOLEAN, UpsertOther(e, blank)
      PROVE  ReqOK' /\ ConsoleTypeOK' /\ Moves(ConsoleSteps)
  <2>1. ReqOK' /\ Moves(ConsoleSteps)
    BY <1>t, <1>9 DEF UpsertOther, ReqOK, Moves
  <2>3. consoleNotes' \in [Accounts -> SUBSET ConsoleNotes]
    BY <1>9, <1>k, <1>m DEF UpsertOther
  <2>4. company' \in [Accounts -> Names \cup {"none", ""}]
    BY <1>a, <1>9 DEF UpsertOther
  <2>5. UNCHANGED <<account, branches, dishes, links>>
    BY <1>9 DEF UpsertOther
  <2>6. QED
    BY <1>a, <2>1, <2>3, <2>4, <2>5 DEF ConsoleTypeOK
<1>10. ASSUME NEW r \in Requests, CoName(r)
       PROVE  ReqOK' /\ ConsoleTypeOK' /\ Moves(ConsoleSteps)
  <2>1. req[r] \in CompanyHandler
    BY <1>t, <1>10, HandlerKinds DEF CoName, ReqOK
  <2>2. req[r].account \in Accounts /\ req[r].name \in Names /\ req[r].pc \in ConsoleSteps
    BY <2>1 DEF CompanyHandler, ConsoleSteps
  <2>3. [account[req[r].account] EXCEPT !.name = req[r].name] \in Account
    <3>1. account[req[r].account] \in Account
      BY <1>a, <2>2
    <3>2. QED
      BY <2>2, <3>1 DEF Account
  <2>4. account' \in [Accounts -> Account]
    BY <1>a, <1>10, <2>2, <2>3 DEF CoName
  <2>5. ReqOK' /\ Moves(ConsoleSteps)
    BY <1>10, <1>e, <2>2 DEF CoName, End, Become
  <2>6. UNCHANGED <<company, branches, dishes, links, consoleNotes>>
    BY <1>10 DEF CoName
  <2>7. QED
    BY <1>a, <2>4, <2>5, <2>6 DEF ConsoleTypeOK
<1>11. ASSUME NEW r \in Requests, NEW e \in Accounts, Forgot(r, e)
       PROVE  ReqOK' /\ ConsoleTypeOK' /\ Moves(ConsoleSteps)
  <2> DEFINE t == Len(links) + 1
             h == [pc |-> "fgWrite", account |-> e, link |-> t]
             l == [account |-> e, stored |-> FALSE, lapsed |-> FALSE, used |-> 0]
  <2>1. t \in 1..MaxLinks
    BY <1>b, <1>11, ConsoleAssumption DEF Forgot
  <2>2. h \in GoodConsole
    BY <2>1 DEF GoodConsole, LinkHandler
  <2>3. l \in Link
    BY DEF Link
  <2>4. /\ Begin(r, "forgot", h) /\ links' = Append(links, l)
        /\ NoteIf(e, "resets", Resetting(e) # {})
        /\ UNCHANGED <<account, company, branches, dishes>>
    BY <1>11 DEF Forgot
  <2> HIDE DEF h, l, t
  <2>5. ReqOK' /\ Moves(ConsoleSteps)
    BY <1>n, <2>2, <2>4
  <2>6. links' \in Seq(Link)
    BY <1>a, <2>3, <2>4, SeqAdd
  <2>7. consoleNotes' \in [Accounts -> SUBSET ConsoleNotes]
    BY <1>k, <1>m, <2>4
  <2>8. QED
    BY <1>a, <2>4, <2>5, <2>6, <2>7 DEF ConsoleTypeOK
<1>l. ASSUME NEW t
      PROVE  /\ [links EXCEPT ![t].stored = TRUE] \in Seq(Link)
             /\ [links EXCEPT ![t].lapsed = TRUE] \in Seq(Link)
             /\ [links EXCEPT ![t].used = @ + 1] \in Seq(Link)
  <2>1. t \in DOMAIN links => /\ [links[t] EXCEPT !.stored = TRUE] \in Link
                              /\ [links[t] EXCEPT !.lapsed = TRUE] \in Link
                              /\ [links[t] EXCEPT !.used = links[t].used + 1] \in Link
    <3> SUFFICES ASSUME t \in DOMAIN links
                 PROVE  /\ [links[t] EXCEPT !.stored = TRUE] \in Link
                        /\ [links[t] EXCEPT !.lapsed = TRUE] \in Link
                        /\ [links[t] EXCEPT !.used = links[t].used + 1] \in Link
      OBVIOUS
    <3>1. links[t] \in Link
      BY <1>b
    <3>2. [links[t] EXCEPT !.stored = TRUE] \in Link
      BY <3>1 DEF Link
    <3>3. [links[t] EXCEPT !.lapsed = TRUE] \in Link
      BY <3>1 DEF Link
    <3>4. links[t].used + 1 \in Nat
      BY <3>1 DEF Link
    <3>5. [links[t] EXCEPT !.used = links[t].used + 1] \in Link
      BY <3>1, <3>4 DEF Link
    <3>6. QED
      BY <3>2, <3>3, <3>5
  <2>2. QED
    BY <1>a, <2>1, SeqSet
<1>c. ASSUME NEW e \in Accounts, NEW k \in 0..MaxLinks
      PROVE  [account EXCEPT ![e].token = k] \in [Accounts -> Account]
  <2>1. account[e] \in Account
    BY <1>a
  <2>2. [account[e] EXCEPT !.token = k] \in Account
    BY <2>1 DEF Account
  <2>3. QED
    BY <1>a, <2>2
<1>12. ASSUME NEW r \in Requests, FgWrite(r) \/ RsWrite(r)
       PROVE  ReqOK' /\ ConsoleTypeOK' /\ Moves(ConsoleSteps)
  <2>1. req[r] \in LinkHandler
    BY <1>t, <1>12, HandlerKinds DEF FgWrite, RsWrite, ReqOK
  <2>2. req[r].account \in Accounts /\ req[r].link \in 1..MaxLinks /\ req[r].pc \in ConsoleSteps
    BY <2>1 DEF LinkHandler, ConsoleSteps
  <2>3. 0 \in 0..MaxLinks /\ req[r].link \in 0..MaxLinks
    BY <2>2, ConsoleAssumption
  <2>4. account' \in [Accounts -> Account]
    BY <1>12, <1>c, <2>2, <2>3 DEF FgWrite, RsWrite
  <2>5. links' \in Seq(Link)
    BY <1>12, <1>l DEF FgWrite, RsWrite
  <2>6. ReqOK' /\ Moves(ConsoleSteps)
    BY <1>12, <1>e, <2>2 DEF FgWrite, RsWrite, End, Become
  <2>7. UNCHANGED <<company, branches, dishes, consoleNotes>>
    BY <1>12 DEF FgWrite, RsWrite
  <2>8. QED
    BY <1>a, <2>4, <2>5, <2>6, <2>7 DEF ConsoleTypeOK
<1>13. ASSUME NEW t \in DOMAIN links, Lapse(t)
       PROVE  ReqOK' /\ ConsoleTypeOK' /\ Moves(ConsoleSteps)
  <2>1. ReqOK' /\ Moves(ConsoleSteps)
    BY <1>t, <1>13 DEF Lapse, ReqOK, Moves
  <2>2. links' \in Seq(Link)
    BY <1>13, <1>l DEF Lapse
  <2>3. QED
    BY <1>a, <1>13, <2>1, <2>2 DEF Lapse, ConsoleTypeOK
<1>14. ASSUME NEW r \in Requests, NEW e \in Accounts, NEW t \in DOMAIN links,
              ResetPassword(r, e, t)
       PROVE  ReqOK' /\ ConsoleTypeOK' /\ Moves(ConsoleSteps)
  <2>1. t \in 1..MaxLinks
    <3>1. account[e] \in Account
      BY <1>a
    <3>2. t \in 0..MaxLinks /\ t # 0
      BY <1>b, <1>14, <3>1 DEF ResetPassword, Account
    <3>3. QED
      BY <3>2, ConsoleAssumption
  <2>2. [pc |-> "rsWrite", account |-> e, link |-> t] \in GoodConsole
    BY <2>1 DEF GoodConsole, LinkHandler
  <2>3. ReqOK' /\ Moves(ConsoleSteps)
    BY <1>14, <1>n, <2>2 DEF ResetPassword
  <2>4. consoleNotes' \in [Accounts -> SUBSET ConsoleNotes]
    BY <1>14, <1>k, <1>m DEF ResetPassword
  <2>5. UNCHANGED <<account, company, branches, dishes, links>>
    BY <1>14 DEF ResetPassword
  <2>6. QED
    BY <1>a, <2>3, <2>4, <2>5 DEF ConsoleTypeOK
<1>15. ASSUME NEW r \in Requests, NEW c \in 0..1, NEW i, NEW o \in Accounts \cup {"none"},
              \/ BranchCreate(r, o, c)
              \/ i \in DOMAIN branches /\ BranchRename(r, i, c)
              \/ i \in DOMAIN branches /\ BranchRemove(r, i)
       PROVE  ReqOK' /\ ConsoleTypeOK' /\ Moves(ConsoleSteps)
  <2>1. i \in DOMAIN branches => i \in Nat /\ branches[i].code \in Nat
    <3>1. \A b \in Branch : b.code \in Nat
      BY DEF Branch
    <3>2. QED
      BY <1>b, <3>1
  <2>2. \E h \in BranchHandler : Begin(r, "branch", h)
    <3>1. CASE BranchCreate(r, o, c)
      <4>1. [pc |-> "brCreate", owner |-> o, branch |-> 0, code |-> c] \in BranchHandler
        BY DEF BranchHandler, BranchSteps
      <4>2. QED
        BY <3>1, <4>1 DEF BranchCreate
    <3>2. CASE i \in DOMAIN branches /\ BranchRename(r, i, c)
      <4>1. [pc |-> "brRename", owner |-> "none", branch |-> i, code |-> c] \in BranchHandler
        BY <2>1, <3>2 DEF BranchHandler, BranchSteps
      <4>2. QED
        BY <3>2, <4>1 DEF BranchRename
    <3>3. CASE i \in DOMAIN branches /\ BranchRemove(r, i)
      <4>1. [pc |-> "brRemove", owner |-> "none", branch |-> i,
             code |-> branches[i].code] \in BranchHandler
        BY <2>1, <3>3 DEF BranchHandler, BranchSteps
      <4>2. QED
        BY <3>3, <4>1 DEF BranchRemove
    <3>4. QED
      BY <1>15, <3>1, <3>2, <3>3
  <2>3. ReqOK' /\ Moves(ConsoleSteps)
    BY <1>n, <2>2 DEF GoodConsole
  <2>4. (\E S : Note(S, "overlap")) \/ (\E S : Note(S, "edited"))
    BY <1>15 DEF BranchCreate, BranchRename, BranchRemove
  <2>5. consoleNotes' \in [Accounts -> SUBSET ConsoleNotes]
    BY <1>t, <1>m, <2>4, NoteType
  <2>6. UNCHANGED <<account, company, branches, dishes, links>>
    BY <1>15 DEF BranchCreate, BranchRename, BranchRemove
  <2>7. QED
    BY <1>a, <2>3, <2>5, <2>6 DEF ConsoleTypeOK
<1>16. ASSUME NEW r \in Requests, BrCreate(r) \/ BrRename(r) \/ BrRemove(r)
       PROVE  ReqOK' /\ ConsoleTypeOK' /\ Moves(ConsoleSteps)
  <2>1. req[r].pc \in BranchSteps /\ req[r].pc \in ConsoleSteps
    BY <1>16 DEF BrCreate, BrRename, BrRemove, BranchSteps, ConsoleSteps
  <2>2. /\ req[r].branch \in Nat /\ req[r].code \in Nat
        /\ req[r].owner \in Accounts \cup {"none"}
    BY <1>t, <2>1, HandlerKinds DEF ReqOK, BranchHandler
  <2>3. ReqOK' /\ Moves(ConsoleSteps)
    BY <1>16, <1>e, <2>1 DEF BrCreate, BrRename, BrRemove, End, Become
  <2> DEFINE i == req[r].branch
  <2>4. branches' \in Seq(Branch)
    <3>1. CASE BrCreate(r)
      <4>1. [owner |-> req[r].owner, signer |-> "none", code |-> req[r].code, tables |-> {},
             gone |-> FALSE] \in Branch
        BY <2>2 DEF Branch
      <4>2. Append(branches, [owner |-> req[r].owner, signer |-> "none", code |-> req[r].code,
                              tables |-> {}, gone |-> FALSE]) \in Seq(Branch)
        BY <1>a, <4>1, SeqAdd
      <4>3. QED
        BY <1>a, <3>1, <4>2 DEF BrCreate
    <3>2. CASE BrRename(r) \/ BrRemove(r)
      <4>1. i \in DOMAIN branches =>
               /\ [branches[i] EXCEPT !.code = req[r].code] \in Branch
               /\ [branches[i] EXCEPT !.gone = TRUE] \in Branch
        <5>1. \A b \in Branch : /\ [b EXCEPT !.code = req[r].code] \in Branch
                                /\ [b EXCEPT !.gone = TRUE] \in Branch
          BY <2>2 DEF Branch
        <5>2. QED
          BY <1>b, <5>1
      <4>2. /\ [branches EXCEPT ![i].code = req[r].code] \in Seq(Branch)
            /\ [branches EXCEPT ![i].gone = TRUE] \in Seq(Branch)
        BY <1>a, <4>1, SeqSet
      <4>3. QED
        BY <1>a, <3>2, <4>2 DEF BrRename, BrRemove
    <3>3. QED
      BY <1>16, <3>1, <3>2
  <2>5. dishes' \in Seq(Dish)
    <3>1. CASE BrRemove(r)
      <4>1. \A k \in DOMAIN dishes : dishes'[k] \in Dish
        <5>1. \A d \in Dish : [d EXCEPT !.branch = 0] \in Dish
          BY DEF Dish
        <5>2. QED
          BY <1>b, <3>1, <5>1 DEF BrRemove
      <4>2. DOMAIN dishes' = DOMAIN dishes /\ dishes' = [k \in DOMAIN dishes |-> dishes'[k]]
        BY <3>1 DEF BrRemove
      <4>3. QED
        BY <1>a, <4>1, <4>2, SeqMap
    <3>2. CASE BrCreate(r) \/ BrRename(r)
      BY <1>a, <3>2 DEF BrCreate, BrRename
    <3>3. QED
      BY <1>16, <3>1, <3>2
  <2>6. UNCHANGED <<account, company, links, consoleNotes>>
    BY <1>16 DEF BrCreate, BrRename, BrRemove
  <2>7. QED
    BY <1>a, <2>3, <2>4, <2>5, <2>6 DEF ConsoleTypeOK
<1>17. ASSUME NEW r \in Requests, ConsoleFault(r)
       PROVE  ReqOK' /\ ConsoleTypeOK' /\ Moves(ConsoleSteps)
  <2>1. req[r].pc \in ConsoleSteps /\ req' = [req EXCEPT ![r] = Idle]
    BY <1>17 DEF ConsoleFault, Throw, ConsoleSteps
  <2>2. consoleNotes' \in [Accounts -> SUBSET ConsoleNotes]
    BY <1>t, <1>m, <1>17, NoteType DEF ConsoleFault
  <2>3. UNCHANGED <<account, company, branches, dishes, links>>
    BY <1>17 DEF ConsoleFault
  <2>4. QED
    BY <1>a, <1>e, <2>1, <2>2, <2>3 DEF ConsoleTypeOK
<1>18. QED
  BY <1>1, <1>2, <1>3, <1>4, <1>5, <1>6, <1>7, <1>8, <1>9, <1>10, <1>11, <1>12, <1>13, <1>14,
     <1>15, <1>16, <1>17 DEF ConsoleNext

-----------------------------------------------------------------------------
(* Menu: rows and handlers keep their types. *)

\* What the handler of an update knows.
LEMMA UpdateHas ==
    ASSUME ReqOK, NEW r \in Requests, req[r].pc \in {"partsDelete", "partsWrite"}
    PROVE  /\ req[r] \in GoodUpdate
           /\ req[r].item \in Owners /\ req[r].ask \in Requested
           /\ DOMAIN req[r].ask \subseteq KindsOf(req[r].item)
           /\ req[r].left \subseteq DOMAIN req[r].ask
           /\ DOMAIN req[r].ask \subseteq Kinds
           /\ req[r].pc = "partsWrite" <=> req[r].left = {}
<1>1. req[r] \in GoodUpdate
  BY HandlerKinds DEF ReqOK
<1>2. KindsOf(req[r].item) \subseteq Kinds
  BY DEF KindsOf, Kinds
<1>3. QED
  BY <1>1, <1>2 DEF GoodUpdate, UpdateHandler

\* One of the kinds that are left comes first.
LEMMA FirstKind ==
    ASSUME NEW left \in SUBSET Kinds, left # {}
    PROVE  InOrder(left) \in left
<1> DEFINE place == [component |-> 1, addOn |-> 2, group |-> 3, member |-> 4]
           first(kind) == \A other \in left : place[kind] <= place[other]
<1>0. /\ place["component"] = 1 /\ place["addOn"] = 2 /\ place["group"] = 3
      /\ place["member"] = 4
  OBVIOUS
<1> HIDE DEF place
<1>k. \A x \in left : x \in {"component", "addOn", "group", "member"}
  BY DEF Kinds
<1>1. \E kind \in left : first(kind)
  <2>1. CASE "component" \in left
    <3>1. first("component")
      BY <1>0, <1>k
    <3>2. QED
      BY <2>1, <3>1
  <2>2. CASE "component" \notin left /\ "addOn" \in left
    <3>1. \A x \in left : x \in {"addOn", "group", "member"}
      BY <1>k, <2>2
    <3>2. first("addOn")
      BY <1>0, <3>1
    <3>3. QED
      BY <2>2, <3>2
  <2>3. CASE "component" \notin left /\ "addOn" \notin left /\ "group" \in left
    <3>1. \A x \in left : x \in {"group", "member"}
      BY <1>k, <2>3
    <3>2. first("group")
      BY <1>0, <3>1
    <3>3. QED
      BY <2>3, <3>2
  <2>4. CASE "component" \notin left /\ "addOn" \notin left /\ "group" \notin left
    <3>1. \A x \in left : x = "member"
      BY <1>k, <2>4
    <3>2. first("member")
      BY <1>0, <3>1
    <3>3. QED
      BY <3>1, <3>2
  <2>5. QED
    BY <2>1, <2>2, <2>3, <2>4
<1>2. InOrder(left) = CHOOSE kind \in left : first(kind)
  BY DEF InOrder, place
<1> HIDE DEF first
<1>3. QED
  BY <1>1, <1>2

LEMMA NoteItemType ==
    ASSUME MenuTypeOK, NEW o \in Owners, NEW S \in SUBSET ({"overlap"} \cup Kinds), NoteItem(o, S)
    PROVE  menuNotes' \in [Owners -> SUBSET ({"overlap"} \cup Kinds)]
  BY DEF MenuTypeOK, NoteItem

\* PartsDelete empties one kind of an item.
LEMMA PartsReset ==
    ASSUME MenuTypeOK, NEW o \in Owners, NEW kind \in Kinds
    PROVE  [parts EXCEPT ![o][kind] = [x \in Things |-> 0]] \in [Owners -> [Kinds -> [Things -> Nat]]]
  BY DEF MenuTypeOK

\* What a write leaves of the parts of an item.
LEMMA PartsAdded ==
    ASSUME MenuTypeOK, NEW o \in Owners, NEW q \in Requested
    PROVE  /\ [parts EXCEPT ![o] = [kind \in Kinds |->
                  IF kind \in DOMAIN q
                  THEN [x \in Things |-> @[kind][x] + IF x \in q[kind] THEN 1 ELSE 0]
                  ELSE @[kind]]] \in [Owners -> [Kinds -> [Things -> Nat]]]
           /\ [promised EXCEPT ![o] = [kind \in Kinds |->
                  IF kind \in DOMAIN q THEN q[kind] ELSE @[kind]]]
                \in [Owners -> [Kinds -> SUBSET Things]]
<1>1. \A kind \in DOMAIN q : q[kind] \in SUBSET Things
  BY CatalogueAssumption
<1>2. \A kind \in Kinds : parts[o][kind] \in [Things -> Nat] /\ promised[o][kind] \in SUBSET Things
  BY DEF MenuTypeOK
<1> DEFINE f == [kind \in Kinds |->
                  IF kind \in DOMAIN q
                  THEN [x \in Things |-> parts[o][kind][x] + IF x \in q[kind] THEN 1 ELSE 0]
                  ELSE parts[o][kind]]
           g == [kind \in Kinds |-> IF kind \in DOMAIN q THEN q[kind] ELSE promised[o][kind]]
<1>3. f \in [Kinds -> [Things -> Nat]]
  <2>1. ASSUME NEW kind \in Kinds
        PROVE  [x \in Things |-> parts[o][kind][x] + IF x \in q[kind] THEN 1 ELSE 0]
                  \in [Things -> Nat]
    BY <1>2
  <2>2. QED
    BY <1>2, <2>1
<1>4. g \in [Kinds -> SUBSET Things]
  BY <1>1, <1>2
<1> HIDE DEF f, g
<1>5. /\ [parts EXCEPT ![o] = f] \in [Owners -> [Kinds -> [Things -> Nat]]]
      /\ [promised EXCEPT ![o] = g] \in [Owners -> [Kinds -> SUBSET Things]]
  BY <1>3, <1>4 DEF MenuTypeOK
<1>6. QED
  BY <1>5 DEF f, g

\* No step of the menu leads out of the types.
LEMMA MenuTypes ==
    ASSUME TInv, MenuNext, UNCHANGED <<staffVars, consoleVars, printerVars, reportVars>>
    PROVE  TInv' /\ Moves(MenuSteps)
<1> SUFFICES ReqOK' /\ MenuTypeOK' /\ Moves(MenuSteps)
  BY DEF TInv, consoleVars, staffVars, printerVars, reportVars, ConsoleTypeOK, StaffTypeOK,
         PrinterTypeOK, ReportTypeOK
<1>t. ReqOK /\ MenuTypeOK
  BY DEF TInv
<1>i. Idle \in AnyHandler /\ Idle.pc = "idle"
  BY StepsOf
<1>e. ASSUME NEW r \in Requests, req' = [req EXCEPT ![r] = Idle], req[r].pc \in MenuSteps
      PROVE  ReqOK' /\ Moves(MenuSteps)
  BY <1>t, <1>i, <1>e, SlotMoves
<1>n. ASSUME NEW r \in Requests, NEW kind, NEW h \in GoodMenu, Begin(r, kind, h)
      PROVE  ReqOK' /\ Moves(MenuSteps)
  <2>1. req[r].pc = "idle" /\ req' = [req EXCEPT ![r] = h]
    BY <1>n, FreeIs DEF Begin
  <2>2. h \in AnyHandler /\ h.pc \in MenuSteps
    BY <1>n, StepsOf
  <2>3. QED
    BY <1>t, <2>1, <2>2, SlotMoves
<1>1. ASSUME NEW r \in Requests, PartsDelete(r)
      PROVE  ReqOK' /\ MenuTypeOK' /\ Moves(MenuSteps)
  <2> DEFINE h == req[r]
             kind == InOrder(h.left)
             g == [h EXCEPT !.left = @ \ {kind},
                            !.pc = IF h.left = {kind} THEN "partsWrite" ELSE @]
  <2>1. /\ h.pc = "partsDelete" /\ h \in GoodUpdate /\ h.item \in Owners
        /\ h.left \subseteq DOMAIN h.ask /\ DOMAIN h.ask \subseteq Kinds /\ h.left # {}
    BY <1>t, <1>1, UpdateHas DEF PartsDelete
  <2>2. kind \in h.left /\ kind \in Kinds
    BY <2>1, FirstKind
  <2>3. /\ parts' = [parts EXCEPT ![h.item][kind] = [x \in Things |-> 0]]
        /\ req' = [req EXCEPT ![r] = g]
        /\ UNCHANGED <<items, removed, promised, menuNotes>>
    BY <1>1 DEF PartsDelete, Become
  <2> HIDE DEF kind
  <2>4. parts' \in [Owners -> [Kinds -> [Things -> Nat]]]
    BY <1>t, <2>1, <2>2, <2>3, PartsReset
  <2>5. g \in GoodMenu
    <3> DEFINE p == IF h.left = {kind} THEN "partsWrite" ELSE h.pc
               l == h.left \ {kind}
               f == [h EXCEPT !.left = l]
    <3>1. g = [f EXCEPT !.pc = p]
      OBVIOUS
    <3>2. p \in {"partsDelete", "partsWrite"} /\ (p = "partsWrite" <=> l = {})
      BY <2>1, <2>2
    <3>3. /\ f = [pc |-> h.pc, item |-> h.item, ask |-> h.ask, left |-> l]
          /\ h.ask \in Requested /\ DOMAIN h.ask \subseteq KindsOf(h.item)
      BY <2>1 DEF GoodUpdate, UpdateHandler
    <3>4. l \subseteq DOMAIN h.ask /\ l \in SUBSET Kinds
      BY <2>1
    <3> HIDE DEF h, p, l, f, g
    <3>5. g = [pc |-> p, item |-> h.item, ask |-> h.ask, left |-> l]
      BY <3>1, <3>3
    <3>6. g \in UpdateHandler
      BY <2>1, <3>2, <3>3, <3>4, <3>5 DEF UpdateHandler
    <3>7. QED
      BY <3>2, <3>3, <3>4, <3>5, <3>6 DEF GoodMenu, GoodUpdate
  <2> HIDE DEF g
  <2>6. ReqOK' /\ Moves(MenuSteps)
    <3>1. g \in AnyHandler /\ g.pc \in MenuSteps /\ h.pc \in MenuSteps
      BY <2>1, <2>5, StepsOf DEF MenuSteps
    <3>2. QED
      BY <1>t, <2>3, <3>1, SlotMoves
  <2>7. QED
    BY <1>t, <2>3, <2>4, <2>6 DEF MenuTypeOK
<1>2. ASSUME NEW r \in Requests, PartsWrite(r)
      PROVE  ReqOK' /\ MenuTypeOK' /\ Moves(MenuSteps)
  <2> DEFINE o == req[r].item
             q == req[r].ask
  <2>1. o \in Owners /\ q \in Requested /\ DOMAIN q \subseteq Kinds /\ req[r].pc = "partsWrite"
    BY <1>t, <1>2, UpdateHas DEF PartsWrite
  <2>2. ReqOK' /\ Moves(MenuSteps)
    <3>1. req' = [req EXCEPT ![r] = Idle] /\ req[r].pc \in MenuSteps
      BY <1>2, <2>1 DEF PartsWrite, End, Become, MenuSteps
    <3>2. QED
      BY <3>1, <1>e
  <2>3. UNCHANGED <<items, removed>>
    BY <1>2 DEF PartsWrite
  <2>4. CASE Rejected(o, q)
    <3>1. NoteItem(o, DOMAIN q) /\ UNCHANGED <<parts, promised>>
      BY <1>2, <2>4 DEF PartsWrite
    <3>2. menuNotes' \in [Owners -> SUBSET ({"overlap"} \cup Kinds)]
      BY <1>t, <2>1, <3>1, NoteItemType
    <3>3. QED
      BY <1>t, <2>2, <2>3, <3>1, <3>2 DEF MenuTypeOK
  <2>5. CASE ~Rejected(o, q)
    <3>1. /\ parts' = [parts EXCEPT ![o] = [kind \in Kinds |->
                  IF kind \in DOMAIN q
                  THEN [x \in Things |-> @[kind][x] + IF x \in q[kind] THEN 1 ELSE 0]
                  ELSE @[kind]]]
          /\ promised' = [promised EXCEPT ![o] = [kind \in Kinds |->
                  IF kind \in DOMAIN q THEN q[kind] ELSE @[kind]]]
          /\ menuNotes' = [menuNotes EXCEPT ![o] = @ \ DOMAIN q]
      BY <1>2, <2>5 DEF PartsWrite
    <3>2. /\ parts' \in [Owners -> [Kinds -> [Things -> Nat]]]
          /\ promised' \in [Owners -> [Kinds -> SUBSET Things]]
      BY <1>t, <2>1, <3>1, PartsAdded
    <3>3. menuNotes' \in [Owners -> SUBSET ({"overlap"} \cup Kinds)]
      BY <1>t, <2>1, <3>1 DEF MenuTypeOK
    <3>4. QED
      BY <1>t, <2>2, <2>3, <3>2, <3>3 DEF MenuTypeOK
  <2>6. QED
    BY <2>4, <2>5
<1>3. ASSUME NEW r \in Requests, ItemRemove(r)
      PROVE  ReqOK' /\ MenuTypeOK' /\ Moves(MenuSteps)
  <2> DEFINE gone == req[r].item
  <2>1. gone \in Rows /\ req[r].pc \in MenuSteps
    BY <1>t, <1>3, HandlerKinds DEF ReqOK, ItemRemove, RemoveHandler, MenuSteps
  <2>2. ReqOK' /\ Moves(MenuSteps)
    BY <1>3, <2>1, <1>e DEF ItemRemove, End, Become
  <2>3. items' \subseteq Rows /\ removed' \subseteq Rows \ items' /\ menuNotes' = menuNotes
    BY <1>t, <1>3, <2>1 DEF ItemRemove, MenuTypeOK
  <2>4. parts' \in [Owners -> [Kinds -> [Things -> Nat]]]
    <3>1. ASSUME NEW o \in Owners, NEW kind \in Kinds
          PROVE  [parts[o][kind] EXCEPT ![gone] = 0] \in [Things -> Nat]
      <4>1. parts[o][kind] \in [Things -> Nat]
        BY <1>t DEF MenuTypeOK
      <4> HIDE DEF gone
      <4>2. \A f \in [Things -> Nat] : [f EXCEPT ![gone] = 0] \in [Things -> Nat]
        OBVIOUS
      <4>3. QED
        BY <4>1, <4>2
    <3>2. NoParts \in [Kinds -> [Things -> Nat]]
      BY DEF NoParts
    <3>3. parts' = [o \in Owners |-> IF o = gone THEN NoParts
                    ELSE [kind \in Kinds |-> [parts[o][kind] EXCEPT ![gone] = 0]]]
      BY <1>3 DEF ItemRemove
    <3>4. QED
      BY <3>1, <3>2, <3>3
  <2>5. promised' \in [Owners -> [Kinds -> SUBSET Things]]
    BY <1>t, <1>3 DEF ItemRemove, MenuTypeOK
  <2>6. QED
    BY <1>t, <2>2, <2>3, <2>4, <2>5 DEF MenuTypeOK
<1>4. ASSUME NEW r \in Requests, MenuFault(r)
      PROVE  ReqOK' /\ MenuTypeOK' /\ Moves(MenuSteps)
  <2>1. /\ req[r].item \in Owners /\ DOMAIN req[r].ask \subseteq Kinds
        /\ req[r].pc \in MenuSteps
    BY <1>t, <1>4, UpdateHas DEF MenuFault, MenuSteps
  <2>2. ReqOK' /\ Moves(MenuSteps)
    BY <1>4, <2>1, <1>e DEF MenuFault, Throw
  <2>3. menuNotes' \in [Owners -> SUBSET ({"overlap"} \cup Kinds)]
    <3>1. DOMAIN req[r].ask \ req[r].left \in SUBSET ({"overlap"} \cup Kinds)
      BY <2>1
    <3>2. QED
      BY <1>t, <1>4, <2>1, <3>1, NoteItemType DEF MenuFault
  <2>4. QED
    BY <1>t, <1>4, <2>2, <2>3 DEF MenuFault, MenuTypeOK
<1>5. ASSUME NEW r \in Requests, NEW o \in Owners, NEW q \in Requested, UpdateItem(r, o, q)
      PROVE  ReqOK' /\ MenuTypeOK' /\ Moves(MenuSteps)
  <2> DEFINE h == [pc |-> IF DOMAIN q = {} THEN "partsWrite" ELSE "partsDelete",
                   item |-> o, ask |-> q, left |-> DOMAIN q]
  <2>1. DOMAIN q \subseteq KindsOf(o) /\ KindsOf(o) \subseteq Kinds
    BY <1>5 DEF UpdateItem, KindsOf, Kinds
  <2>2. h \in UpdateHandler
    BY <2>1 DEF UpdateHandler
  <2>3. h.pc = "partsWrite" <=> DOMAIN q = {}
    OBVIOUS
  <2>4. h \in GoodMenu
    BY <2>1, <2>2, <2>3 DEF GoodMenu, GoodUpdate
  <2>5. /\ Begin(r, "menu", h)
        /\ NoteItem(o, IF Updating(o) # {} THEN {"overlap"} ELSE {})
        /\ UNCHANGED <<items, removed, parts, promised>>
    BY <1>5 DEF UpdateItem
  <2> HIDE DEF h
  <2>6. ReqOK' /\ Moves(MenuSteps)
    BY <2>4, <2>5, <1>n
  <2>7. menuNotes' \in [Owners -> SUBSET ({"overlap"} \cup Kinds)]
    BY <1>t, <2>5, NoteItemType
  <2>8. QED
    BY <1>t, <2>5, <2>6, <2>7 DEF MenuTypeOK
<1>6. ASSUME NEW r \in Requests, NEW x \in Rows, RemoveItem(r, x)
      PROVE  ReqOK' /\ MenuTypeOK' /\ Moves(MenuSteps)
  <2>1. [pc |-> "itemRemove", item |-> x] \in GoodMenu
    BY DEF GoodMenu, RemoveHandler
  <2>2. QED
    BY <1>t, <1>6, <1>n, <2>1 DEF RemoveItem, menuVars, MenuTypeOK
<1>7. ASSUME NEW x \in Rows, CreateItem(x)
      PROVE  ReqOK' /\ MenuTypeOK' /\ Moves(MenuSteps)
  BY <1>t, <1>7 DEF CreateItem, MenuTypeOK, ReqOK, Moves
<1>8. QED
  BY <1>1, <1>2, <1>3, <1>4, <1>5, <1>6, <1>7 DEF MenuNext

-----------------------------------------------------------------------------
(* Printers and reports: rows and handlers keep their types. *)

\* No step of the printers leads out of the types.
LEMMA PrinterTypes ==
    ASSUME TInv, PrinterNext, UNCHANGED <<staffVars, consoleVars, menuVars, reportVars>>
    PROVE  TInv' /\ Moves(PrinterSteps)
<1> SUFFICES ReqOK' /\ PrinterTypeOK' /\ Moves(PrinterSteps)
  BY DEF TInv, consoleVars, staffVars, menuVars, reportVars, ConsoleTypeOK, StaffTypeOK,
         MenuTypeOK, ReportTypeOK
<1>t. ReqOK /\ PrinterTypeOK
  BY DEF TInv
<1>i. Idle \in AnyHandler /\ Idle.pc = "idle"
  BY StepsOf
<1>w. ASSUME NEW r \in Requests, req[r].pc = "listWrite"
      PROVE  req[r].printer \in PrinterIds /\ req[r].list \in List
  BY <1>t, <1>w, HandlerKinds DEF ReqOK, PrinterHandler
<1>c. ASSUME NEW r \in Requests, NEW p \in PrinterIds, NEW list \in List, Change(r, p, list)
      PROVE  ReqOK' /\ PrinterTypeOK' /\ Moves(PrinterSteps)
  <2> DEFINE h == [pc |-> "listWrite", printer |-> p, list |-> list]
  <2>1. h \in PrinterHandler
    BY DEF PrinterHandler
  <2>2. h \in AnyHandler /\ h.pc \in PrinterSteps
    BY <2>1, StepsOf
  <2>3. req[r].pc = "idle" /\ req' = [req EXCEPT ![r] = h]
    BY <1>c, FreeIs DEF Change, Begin
  <2>4. ReqOK' /\ Moves(PrinterSteps)
    BY <1>t, <2>2, <2>3, SlotMoves
  <2>5. printerNotes' \subseteq PrinterIds
    BY <1>c, <1>t, <1>w DEF Change, PrinterTypeOK, Busy
  <2>6. QED
    BY <1>t, <1>c, <2>4, <2>5 DEF Change, PrinterTypeOK
<1>1. ASSUME NEW r \in Requests, ListWrite(r)
      PROVE  ReqOK' /\ PrinterTypeOK' /\ Moves(PrinterSteps)
  <2>1. req[r].printer \in PrinterIds /\ req[r].list \in List /\ req[r].pc \in PrinterSteps
    BY <1>1, <1>w DEF ListWrite, PrinterSteps
  <2>2. req' = [req EXCEPT ![r] = Idle]
    BY <1>1 DEF ListWrite, End, Become
  <2>3. ReqOK' /\ Moves(PrinterSteps)
    BY <1>t, <1>i, <2>1, <2>2, SlotMoves
  <2>4. SaidIn(req[r].list, req[r].printer) \in BOOLEAN
    BY <2>1 DEF SaidIn, List
  <2>5. QED
    BY <1>t, <1>1, <2>1, <2>3, <2>4 DEF ListWrite, PrinterTypeOK
<1>2. ASSUME NEW r \in Requests, PrinterFault(r)
      PROVE  ReqOK' /\ PrinterTypeOK' /\ Moves(PrinterSteps)
  <2>1. req' = [req EXCEPT ![r] = Idle] /\ req[r].pc \in PrinterSteps
    BY <1>2 DEF PrinterFault, Throw, PrinterSteps
  <2>2. QED
    BY <1>t, <1>i, <1>2, <2>1, SlotMoves DEF PrinterFault, printerVars, PrinterTypeOK
<1>3. ASSUME NEW r \in Requests, NEW p \in PrinterIds, NEW active \in BOOLEAN,
             Report(r, p, active)
      PROVE  ReqOK' /\ PrinterTypeOK' /\ Moves(PrinterSteps)
  <2>1. [printers EXCEPT ![p] = active] \in List
    BY <1>t DEF PrinterTypeOK, List
  <2>2. QED
    BY <1>3, <1>c, <2>1 DEF Report
<1>4. ASSUME NEW r \in Requests, NEW p \in PrinterIds, EditList(r, p)
      PROVE  ReqOK' /\ PrinterTypeOK' /\ Moves(PrinterSteps)
  <2> DEFINE kept == DOMAIN printers \ {p}
             edited == IF p \in DOMAIN printers THEN kept ELSE kept \cup {p}
             list == [q \in edited |-> q \in kept /\ printers[q]]
  <2>1. /\ DOMAIN printers \subseteq PrinterIds
        /\ \A q \in DOMAIN printers : printers[q] \in BOOLEAN
    BY <1>t DEF PrinterTypeOK, List
  <2>2. edited \subseteq PrinterIds
    BY <2>1
  <2>3. list \in [edited -> BOOLEAN]
    OBVIOUS
  <2>4. list \in List
    BY <2>2, <2>3 DEF List
  <2>5. QED
    BY <1>4, <1>c, <2>4 DEF EditList
<1>5. QED
  BY <1>1, <1>2, <1>3, <1>4 DEF PrinterNext

\* The statuses that are asked for are statuses, and "none" is not.
LEMMA StatusSets ==
    /\ Queried \subseteq Columns
    /\ First \in Queried
    /\ "none" \notin Columns
<1>1. /\ Kind = "queue" => Queried = QueueStats /\ First = "WAITING"
      /\ Kind = "order" => Queried = OrderStats /\ First = "PREPARING"
      /\ Kind = "request" => Queried = RequestStats /\ First = "PENDING"
      /\ Kind = "table" => Queried = TableStats /\ First = "AVAILABLE"
  BY DEF Queried, First
<1>2. First \in Queried /\ "none" \notin Queried
  BY <1>1, ReportsAssumption DEF QueueStats, OrderStats, RequestStats, TableStats
<1>3. QED
  BY <1>2 DEF Columns

\* What a report at work knows.
LEMMA CountHas ==
    ASSUME ReqOK, NEW r \in Requests, req[r].pc = "count"
    PROVE  /\ req[r] \in ReportHandler
           /\ req[r] = [pc |-> "count", left |-> req[r].left, total |-> req[r].total,
                        before |-> req[r].before, moves |-> req[r].moves]
           /\ req[r].left \in SUBSET Queried
           /\ req[r].total \in Nat /\ req[r].before \in Nat /\ req[r].moves \in Nat
  BY HandlerKinds DEF ReqOK, ReportHandler

\* There are finitely many tickets to count.
LEMMA RowsFinite ==
    /\ \A S : Cardinality(Having(S)) \in Nat
    /\ \A c : Counted(c) \in Nat
<1>1. IsFiniteSet(Tickets)
  BY ReportsAssumption
<1>2. \A S \in SUBSET Tickets : IsFiniteSet(S) /\ Cardinality(S) \in Nat
  BY <1>1, FS_Subset, FS_CardinalityType
<1>3. QED
  BY <1>2 DEF Having, Counted

\* One more status is counted.
LEMMA CountedOne ==
    ASSUME ReqOK, NEW r \in Requests, NEW c, CountOne(r, c)
    PROVE  /\ req' = [req EXCEPT ![r] =
                [pc |-> "count", left |-> req[r].left \ {c},
                 total |-> req[r].total + Counted(c), before |-> req[r].before,
                 moves |-> req[r].moves]]
           /\ [pc |-> "count", left |-> req[r].left \ {c},
               total |-> req[r].total + Counted(c), before |-> req[r].before,
               moves |-> req[r].moves] \in ReportHandler
           /\ req[r].pc = "count" /\ c \in req[r].left
<1> DEFINE h == req[r]
           f == [h EXCEPT !.left = @ \ {c}]
           g == [h EXCEPT !.left = @ \ {c}, !.total = @ + Counted(c)]
<1>1. h.pc = "count" /\ c \in h.left /\ req' = [req EXCEPT ![r] = g]
  BY DEF CountOne, Become
<1>2. /\ h = [pc |-> "count", left |-> h.left, total |-> h.total,
              before |-> h.before, moves |-> h.moves]
      /\ h.left \in SUBSET Queried
      /\ h.total \in Nat /\ h.before \in Nat /\ h.moves \in Nat
  BY <1>1, CountHas
<1>3. g = [f EXCEPT !.total = h.total + Counted(c)]
  OBVIOUS
<1>4. f = [pc |-> "count", left |-> h.left \ {c}, total |-> h.total,
           before |-> h.before, moves |-> h.moves]
  BY <1>2
<1> HIDE DEF f, g
<1>5. g = [pc |-> "count", left |-> h.left \ {c},
           total |-> h.total + Counted(c), before |-> h.before, moves |-> h.moves]
  BY <1>3, <1>4
<1>6. h.total + Counted(c) \in Nat
  BY <1>2, RowsFinite
<1>7. QED
  BY <1>1, <1>2, <1>5, <1>6 DEF ReportHandler

\* A ticket has moved while some reports count.
LEMMA MovedOne ==
    ASSUME ReqOK, NEW t, NEW c, MoveTicket(t, c)
    PROVE  /\ ReqOK'
           /\ \A r \in Requests :
                 IF req[r].pc = "count"
                 THEN /\ req'[r] = [pc |-> "count", left |-> req[r].left, total |-> req[r].total,
                                    before |-> req[r].before, moves |-> req[r].moves + 1]
                      /\ req'[r] \in ReportHandler
                 ELSE req'[r] = req[r]
<1>1. req' = [r \in Requests |-> IF req[r].pc = "count"
                                 THEN [req[r] EXCEPT !.moves = @ + 1] ELSE req[r]]
  BY DEF MoveTicket
<1>2. ASSUME NEW r \in Requests, req[r].pc = "count"
      PROVE  /\ req'[r] = [pc |-> "count", left |-> req[r].left,
                           total |-> req[r].total, before |-> req[r].before,
                           moves |-> req[r].moves + 1]
             /\ req'[r] \in ReportHandler
  <2> DEFINE h == req[r]
  <2>1. req'[r] = [h EXCEPT !.moves = h.moves + 1]
    BY <1>1, <1>2
  <2>2. /\ h = [pc |-> "count", left |-> h.left, total |-> h.total,
                before |-> h.before, moves |-> h.moves]
        /\ h.left \in SUBSET Queried
        /\ h.total \in Nat /\ h.before \in Nat /\ h.moves \in Nat
    BY <1>2, CountHas
  <2> HIDE DEF h
  <2>3. [h EXCEPT !.moves = h.moves + 1]
           = [pc |-> "count", left |-> h.left, total |-> h.total,
              before |-> h.before, moves |-> h.moves + 1]
    BY <2>2
  <2>4. QED
    BY <2>1, <2>2, <2>3 DEF ReportHandler, h
<1>3. \A r \in Requests : req[r].pc # "count" => req'[r] = req[r]
  BY <1>1
<1>4. ReqOK'
  <2>1. \A r \in Requests : req'[r] \in AnyHandler
    BY <1>2, <1>3, StepsOf DEF ReqOK
  <2>2. QED
    BY <1>1, <2>1 DEF ReqOK
<1>5. QED
  BY <1>2, <1>3, <1>4

\* No step of the reports leads out of the types.
LEMMA ReportTypes ==
    ASSUME TInv, ReportNext, UNCHANGED <<staffVars, consoleVars, menuVars, printerVars>>
    PROVE  TInv' /\ Moves(ReportSteps)
<1> SUFFICES ReqOK' /\ ReportTypeOK' /\ Moves(ReportSteps)
  BY DEF TInv, consoleVars, staffVars, menuVars, printerVars, ConsoleTypeOK, StaffTypeOK,
         MenuTypeOK, PrinterTypeOK
<1>t. ReqOK /\ ReportTypeOK
  BY DEF TInv
<1>i. Idle \in AnyHandler /\ Idle.pc = "idle"
  BY StepsOf
<1>1. ASSUME NEW r \in Requests, GetStats(r)
      PROVE  ReqOK' /\ ReportTypeOK' /\ Moves(ReportSteps)
  <2> DEFINE h == [pc |-> "count", left |-> Queried, total |-> 0,
                   before |-> Cardinality(Having(Queried)), moves |-> 0]
  <2>1. h \in ReportHandler
    BY RowsFinite DEF ReportHandler
  <2>2. h \in AnyHandler /\ h.pc \in ReportSteps
    BY <2>1, StepsOf
  <2>3. req[r].pc = "idle" /\ req' = [req EXCEPT ![r] = h]
    BY <1>1, FreeIs DEF GetStats, Begin
  <2>4. ReqOK' /\ Moves(ReportSteps)
    BY <1>t, <2>2, <2>3, SlotMoves
  <2>5. QED
    BY <1>t, <1>1, <2>4 DEF GetStats, reportVars, ReportTypeOK
<1>2. ASSUME NEW r \in Requests, Answer(r)
      PROVE  ReqOK' /\ ReportTypeOK' /\ Moves(ReportSteps)
  <2>1. req[r] \in ReportHandler /\ req[r].pc \in ReportSteps
    BY <1>t, <1>2, CountHas DEF Answer, ReportSteps
  <2>2. /\ req' = [req EXCEPT ![r] = Idle] /\ ticket' = ticket
        /\ answered' = [total |-> req[r].total, before |-> req[r].before,
                        after |-> Cardinality(Having(Queried)),
                        moves |-> req[r].moves]
    BY <1>2 DEF Answer, End, Become
  <2>3. ReqOK' /\ Moves(ReportSteps)
    BY <1>t, <1>i, <2>1, <2>2, SlotMoves
  <2>4. /\ req[r].total \in Nat /\ req[r].before \in Nat /\ req[r].moves \in Nat
        /\ Cardinality(Having(Queried)) \in Nat
    BY <1>2, <1>t, CountHas, RowsFinite DEF Answer
  <2>5. answered' \in Answered
    BY <2>2, <2>4 DEF Answered
  <2>6. QED
    BY <1>t, <2>2, <2>3, <2>5 DEF ReportTypeOK
<1>3. ASSUME NEW r \in Requests, NEW c \in Queried, CountOne(r, c)
      PROVE  ReqOK' /\ ReportTypeOK' /\ Moves(ReportSteps)
  <2>1. PICK h \in ReportHandler : req' = [req EXCEPT ![r] = h] /\ req[r].pc = "count"
    BY <1>t, <1>3, CountedOne
  <2>2. h \in AnyHandler /\ h.pc \in ReportSteps /\ req[r].pc \in ReportSteps
    BY <2>1, StepsOf DEF ReportSteps
  <2>3. ReqOK' /\ Moves(ReportSteps)
    BY <1>t, <2>1, <2>2, SlotMoves
  <2>4. QED
    BY <1>t, <1>3, <2>3 DEF CountOne, reportVars, ReportTypeOK
<1>4. ASSUME NEW t \in Tickets, CreateTicket(t)
      PROVE  ReqOK' /\ ReportTypeOK' /\ Moves(ReportSteps)
  BY <1>t, <1>4, StatusSets DEF CreateTicket, ReportTypeOK, ReqOK, Moves
<1>5. ASSUME NEW t \in Tickets, NEW c \in Columns \cup {"none"}, MoveTicket(t, c)
      PROVE  ReqOK' /\ ReportTypeOK' /\ Moves(ReportSteps)
  <2>1. ReqOK'
    BY <1>t, <1>5, MovedOne
  <2>2. Moves(ReportSteps)
    <3>0. ASSUME NEW r \in Requests, req'[r] # req[r]
          PROVE  req[r].pc = "count" /\ req'[r].pc = "count"
      <4>1. req[r].pc = "count"
        BY <1>t, <1>5, <3>0, MovedOne
      <4>2. req'[r] \in ReportHandler
        BY <1>t, <1>5, <4>1, MovedOne
      <4>3. QED
        BY <4>1, <4>2 DEF ReportHandler
    <3>1. \A r \in Requests : req'[r] # req[r] => req[r].pc = "count" /\ req'[r].pc = "count"
      BY <3>0
    <3>2. QED
      BY <3>1 DEF Moves, ReportSteps
  <2>3. ReportTypeOK'
    BY <1>t, <1>5 DEF MoveTicket, ReportTypeOK
  <2>4. QED
    BY <2>1, <2>2, <2>3
<1>6. QED
  BY <1>1, <1>2, <1>3, <1>4, <1>5 DEF ReportNext

-----------------------------------------------------------------------------
(* The type invariant. *)

LEMMA TInvInit == Init => TInv
<1> SUFFICES ASSUME Init PROVE TInv
  OBVIOUS
<1> USE DEF Init
<1>1. ReqOK
  BY StepsOf DEF HandlersInit, ReqOK
<1>4. MenuTypeOK
  BY DEF MenuInit, MenuTypeOK, NoParts
<1>3. ConsoleTypeOK
  <2>1. [row |-> "none", name |-> "none", token |-> 0] \in Account
    BY ConsoleAssumption DEF Account
  <2>2. QED
    BY <2>1 DEF ConsoleInit, ConsoleTypeOK
<1>2. StaffTypeOK
  BY StaffAssumption DEF StaffInit, StaffTypeOK
<1>5. PrinterTypeOK
  BY DEF PrinterInit, PrinterTypeOK, List
<1>6. ReportTypeOK
  BY DEF ReportInit, ReportTypeOK
<1>7. QED
  BY <1>1, <1>2, <1>3, <1>4, <1>5, <1>6 DEF TInv

LEMMA TInvStep == TInv /\ [Next]_vars => TInv'
<1> SUFFICES ASSUME TInv, [Next]_vars PROVE TInv'
  OBVIOUS
<1>1. CASE StaffNext /\ UNCHANGED <<consoleVars, menuVars, printerVars, reportVars>>
  BY <1>1, StaffTypes
<1>2. CASE ConsoleNext /\ UNCHANGED <<staffVars, menuVars, printerVars, reportVars>>
  BY <1>2, ConsoleTypes
<1>3. CASE MenuNext /\ UNCHANGED <<staffVars, consoleVars, printerVars, reportVars>>
  BY <1>3, MenuTypes
<1>4. CASE PrinterNext /\ UNCHANGED <<staffVars, consoleVars, menuVars, reportVars>>
  BY <1>4, PrinterTypes
<1>5. CASE ReportNext /\ UNCHANGED <<staffVars, consoleVars, menuVars, printerVars>>
  BY <1>5, ReportTypes
<1>6. CASE UNCHANGED vars
  BY <1>6 DEF vars, handlerVars, staffVars, consoleVars, menuVars, printerVars, reportVars,
     TInv, ReqOK, ConsoleTypeOK, StaffTypeOK, MenuTypeOK, PrinterTypeOK, ReportTypeOK
<1>7. QED
  BY <1>1, <1>2, <1>3, <1>4, <1>5, <1>6 DEF Next

LEMMA TInvTypes == TInv => TypeOK
<1>1. GoodConsole \subseteq ConsoleHandler
  BY DEF GoodConsole, GoodSignUp, CompanyHandler, LinkHandler, BranchHandler, ConsoleHandler
<1>2. GoodMenu \subseteq MenuHandler
  BY DEF GoodMenu, GoodUpdate, UpdateHandler, RemoveHandler, MenuHandler
<1>3. QED
  BY <1>1, <1>2 DEF TInv, TypeOK, ReqOK, AnyHandler, Free

\* Every slot holds a handler of the service, and the rows have the values of their
\* columns, through every interleaving, failed query and deletion.
THEOREM TypeCorrect == Spec => []TypeOK
<1>1. Spec => []TInv
  BY TInvInit, TInvStep, PTL DEF Spec
<1>2. QED
  BY <1>1, TInvTypes, PTL

\* Steps of other parts leave the handlers at these steps alone.
LEMMA Elsewhere ==
    ASSUME NEW others, Moves(others), NEW steps, steps \cap others = {}, "idle" \notin steps
    PROVE  /\ \A q \in Requests : req[q].pc \in steps => req'[q] = req[q]
           /\ \A q \in Requests : req'[q].pc \in steps => req'[q] = req[q]
  BY DEF Moves

-----------------------------------------------------------------------------
(* Printers: the list a handler holds is as good as the one in the table, but *)
(* for its own printer, and where two hold one, both are noted.               *)

ListsAgree ==
    /\ \A r \in Requests : req[r].pc = "listWrite" =>
          \A q \in PrinterIds \ printerNotes :
             q # req[r].printer => SaidIn(req[r].list, q) = said[q]
    /\ \A r, s \in Requests :
          r # s /\ req[r].pc = "listWrite" /\ req[s].pc = "listWrite" =>
             req[r].printer \in printerNotes
PrintersInv == PrintersHeard /\ ListsAgree

\* A handler reads the list, and changes the entry of one printer in its copy.
LEMMA Changed ==
    ASSUME TInv, PrintersInv, NEW r \in Requests, NEW p \in PrinterIds, NEW list \in List,
           Change(r, p, list), \A q \in PrinterIds \ {p} : SaidIn(list, q) = SaidIn(printers, q)
    PROVE  PrintersInv'
<1> DEFINE h == [pc |-> "listWrite", printer |-> p, list |-> list]
<1>1. /\ req[r].pc = "idle" /\ req' = [req EXCEPT ![r] = h]
      /\ printers' = printers /\ said' = said
  BY FreeIs DEF Change, Begin
<1>2. h \in AnyHandler
  <2>1. h \in PrinterHandler
    BY DEF PrinterHandler
  <2>2. QED
    BY <2>1, StepsOf
<1>3. req'[r] = h /\ \A q \in Requests \ {r} : req'[q] = req[q]
  BY <1>1, <1>2, SetSlot DEF TInv
<1>4. /\ printerNotes \subseteq printerNotes'
      /\ \A s \in Requests : req[s].pc = "listWrite" =>
            p \in printerNotes' /\ req[s].printer \in printerNotes'
  BY DEF Change, Busy
<1>5. PrintersHeard'
  BY <1>1, <1>4 DEF PrintersInv, PrintersHeard, SaidIn
<1>6. ASSUME NEW s \in Requests, req'[s].pc = "listWrite",
             NEW q \in PrinterIds \ printerNotes', q # req'[s].printer
      PROVE  SaidIn(req'[s].list, q) = said'[q]
  <2>1. CASE s = r
    <3>1. SaidIn(list, q) = SaidIn(printers, q) /\ SaidIn(printers, q) = said[q]
      BY <1>3, <1>4, <1>6, <2>1 DEF PrintersInv, PrintersHeard
    <3>2. QED
      BY <1>1, <1>3, <2>1, <3>1
  <2>2. CASE s # r
    BY <1>1, <1>3, <1>4, <1>6, <2>2 DEF PrintersInv, ListsAgree
  <2>3. QED
    BY <2>1, <2>2
<1>7. ASSUME NEW s \in Requests, NEW t \in Requests, s # t, req'[s].pc = "listWrite",
             req'[t].pc = "listWrite"
      PROVE  req'[s].printer \in printerNotes'
  <2>1. CASE s = r
    BY <1>3, <1>4, <1>7, <2>1
  <2>2. CASE s # r
    BY <1>3, <1>4, <1>7, <2>2
  <2>3. QED
    BY <2>1, <2>2
<1>8. ListsAgree'
  <2>1. \A s \in Requests : req'[s].pc = "listWrite" =>
          \A q \in PrinterIds \ printerNotes' :
             q # req'[s].printer => SaidIn(req'[s].list, q) = said'[q]
    BY <1>6
  <2>2. \A s, t \in Requests :
          s # t /\ req'[s].pc = "listWrite" /\ req'[t].pc = "listWrite" =>
             req'[s].printer \in printerNotes'
    BY <1>7
  <2>3. (\A s \in Requests : req[s].pc = "listWrite" =>
          \A q \in PrinterIds \ printerNotes :
             q # req[s].printer => SaidIn(req[s].list, q) = said[q])'
    BY <2>1 DEF SaidIn
  <2>4. QED
    BY <2>2, <2>3 DEF ListsAgree
<1>9. QED
  BY <1>5, <1>8 DEF PrintersInv

LEMMA PrintersInvStep == TInv /\ PrintersInv /\ [Next]_vars => PrintersInv'
<1> SUFFICES ASSUME TInv, PrintersInv, [Next]_vars PROVE PrintersInv'
  OBVIOUS
<1>p. PrinterTypeOK /\ ReqOK
  BY DEF TInv
<1>0. ASSUME NEW others, Moves(others), others \cap PrinterSteps = {}, UNCHANGED printerVars
      PROVE  PrintersInv'
  <2>1. /\ \A q \in Requests : req[q].pc = "listWrite" => req'[q] = req[q]
        /\ \A q \in Requests : req'[q].pc = "listWrite" => req'[q] = req[q]
    BY <1>0, Elsewhere DEF PrinterSteps
  <2>2. printers' = printers /\ said' = said /\ printerNotes' = printerNotes
    BY <1>0 DEF printerVars
  <2>3. QED
    BY <2>1, <2>2 DEF PrintersInv, PrintersHeard, ListsAgree, SaidIn
<1>1. CASE StaffNext /\ UNCHANGED <<consoleVars, menuVars, printerVars, reportVars>>
  BY <1>0, <1>1, StaffTypes, Apart
<1>2. CASE ConsoleNext /\ UNCHANGED <<staffVars, menuVars, printerVars, reportVars>>
  BY <1>0, <1>2, ConsoleTypes, Apart
<1>3. CASE MenuNext /\ UNCHANGED <<staffVars, consoleVars, printerVars, reportVars>>
  BY <1>0, <1>3, MenuTypes, Apart
<1>5. CASE ReportNext /\ UNCHANGED <<staffVars, consoleVars, menuVars, printerVars>>
  BY <1>0, <1>5, ReportTypes, Apart
<1>6. CASE UNCHANGED vars
  BY <1>6 DEF vars, handlerVars, printerVars, PrintersInv, PrintersHeard, ListsAgree, SaidIn
<1>e. ASSUME NEW r \in Requests, req' = [req EXCEPT ![r] = Idle]
      PROVE  \A q \in Requests : req'[q].pc = "listWrite" => q # r /\ req'[q] = req[q]
  BY <1>p, <1>e, StepsOf, SetSlot
<1>7. ASSUME NEW r \in Requests, ListWrite(r)
      PROVE  PrintersInv'
  <2> DEFINE p == req[r].printer
  <2>1. /\ req[r].pc = "listWrite" /\ req' = [req EXCEPT ![r] = Idle]
        /\ printers' = req[r].list
        /\ said' = [said EXCEPT ![p] = SaidIn(req[r].list, p)]
        /\ printerNotes' = printerNotes
    BY <1>7 DEF ListWrite, End, Become
  <2>2. p \in PrinterIds
    BY <1>p, <2>1, HandlerKinds DEF ReqOK, PrinterHandler
  <2>3. /\ said'[p] = SaidIn(req[r].list, p)
        /\ \A q \in PrinterIds \ {p} : said'[q] = said[q]
    BY <1>p, <2>1, <2>2 DEF PrinterTypeOK
  <2>4. \A q \in PrinterIds \ printerNotes : SaidIn(req[r].list, q) = said'[q]
    BY <2>1, <2>3 DEF PrintersInv, ListsAgree
  <2>5. PrintersHeard'
    BY <2>1, <2>4 DEF PrintersHeard, SaidIn
  <2>6. ASSUME NEW s \in Requests, req'[s].pc = "listWrite",
               NEW q \in PrinterIds \ printerNotes, q # req'[s].printer
        PROVE  SaidIn(req'[s].list, q) = said'[q]
    <3>1. s # r /\ req'[s] = req[s]
      BY <1>e, <2>1, <2>6
    <3>2. p \in printerNotes
      BY <2>1, <2>6, <3>1 DEF PrintersInv, ListsAgree
    <3>3. SaidIn(req[s].list, q) = said[q]
      BY <2>6, <3>1 DEF PrintersInv, ListsAgree
    <3>4. QED
      BY <2>3, <3>1, <3>2, <3>3
  <2>7. \A s, t \in Requests :
          s # t /\ req'[s].pc = "listWrite" /\ req'[t].pc = "listWrite" =>
             req'[s].printer \in printerNotes
    <3>1. \A s \in Requests : req'[s].pc = "listWrite" => s # r /\ req'[s] = req[s]
      BY <1>e, <2>1
    <3>2. QED
      BY <3>1 DEF PrintersInv, ListsAgree
  <2>8. ListsAgree'
    <3>1. \A s \in Requests : req'[s].pc = "listWrite" =>
          \A q \in PrinterIds \ printerNotes :
             q # req'[s].printer => SaidIn(req'[s].list, q) = said'[q]
      BY <2>6
    <3>2. QED
      BY <2>1, <2>7, <3>1 DEF ListsAgree, SaidIn
  <2>9. QED
    BY <2>5, <2>8 DEF PrintersInv
<1>8. ASSUME NEW r \in Requests, PrinterFault(r)
      PROVE  PrintersInv'
  <2>1. req' = [req EXCEPT ![r] = Idle] /\ UNCHANGED printerVars
    BY <1>8 DEF PrinterFault, Throw
  <2>2. printers' = printers /\ said' = said /\ printerNotes' = printerNotes
    BY <2>1 DEF printerVars
  <2>3. PrintersHeard'
    BY <2>2 DEF PrintersInv, PrintersHeard, SaidIn
  <2>4. ListsAgree'
    <3>0. \A q \in Requests : req'[q].pc = "listWrite" => req'[q] = req[q]
      BY <1>e, <2>1
    <3>1. \A s \in Requests : req'[s].pc = "listWrite" =>
          \A q \in PrinterIds \ printerNotes :
             q # req'[s].printer => SaidIn(req'[s].list, q) = said[q]
      BY <3>0 DEF PrintersInv, ListsAgree
    <3>2. \A s, t \in Requests :
          s # t /\ req'[s].pc = "listWrite" /\ req'[t].pc = "listWrite" =>
             req'[s].printer \in printerNotes
      BY <3>0 DEF PrintersInv, ListsAgree
    <3>3. QED
      BY <2>2, <3>1, <3>2 DEF ListsAgree, SaidIn
  <2>5. QED
    BY <2>3, <2>4 DEF PrintersInv
<1>9. ASSUME NEW r \in Requests, NEW p \in PrinterIds, NEW active \in BOOLEAN,
             Report(r, p, active)
      PROVE  PrintersInv'
  <2>0. printers \in List
    BY <1>p DEF PrinterTypeOK
  <2>1. [printers EXCEPT ![p] = active] \in List
    BY <2>0 DEF List
  <2>2. \A q \in PrinterIds \ {p} : SaidIn([printers EXCEPT ![p] = active], q) = SaidIn(printers, q)
    BY <2>0 DEF SaidIn, List
  <2>3. QED
    BY <1>9, <2>1, <2>2, Changed DEF Report
<1>10. ASSUME NEW r \in Requests, NEW p \in PrinterIds, EditList(r, p)
       PROVE  PrintersInv'
  <2> DEFINE kept == DOMAIN printers \ {p}
             edited == IF p \in DOMAIN printers THEN kept ELSE kept \cup {p}
             list == [q \in edited |-> q \in kept /\ printers[q]]
  <2>1. /\ DOMAIN printers \subseteq PrinterIds
        /\ \A q \in DOMAIN printers : printers[q] \in BOOLEAN
    BY <1>p DEF PrinterTypeOK, List
  <2>2. edited \subseteq PrinterIds
    BY <2>1
  <2>3. list \in [edited -> BOOLEAN]
    OBVIOUS
  <2>4. list \in List
    BY <2>2, <2>3 DEF List
  <2>5. ASSUME NEW q \in PrinterIds \ {p}
        PROVE  SaidIn(list, q) = SaidIn(printers, q)
    <3>1. q \in DOMAIN list <=> q \in DOMAIN printers
      OBVIOUS
    <3>2. q \in DOMAIN printers => list[q] = printers[q]
      BY <2>1
    <3>3. QED
      BY <3>1, <3>2 DEF SaidIn
  <2>6. Change(r, p, list)
    BY <1>10 DEF EditList
  <2>7. QED
    BY <2>4, <2>5, <2>6, Changed
<1>11. QED
  BY <1>1, <1>2, <1>3, <1>5, <1>6, <1>7, <1>8, <1>9, <1>10 DEF Next, PrinterNext

LEMMA PrintersInvInit == Init => PrintersInv
<1> SUFFICES ASSUME Init PROVE PrintersInv
  OBVIOUS
<1>1. \A r \in Requests : req[r].pc = "idle"
  BY StepsOf DEF Init, HandlersInit
<1>2. QED
  BY <1>1 DEF Init, PrinterInit, PrintersInv, PrintersHeard, ListsAgree, SaidIn

\* PrintersService writes the whole list of printers that it has read before: an
\* entry is lost or out of date only if two held the list at the same time and one
\* of them wrote about that printer.
THEOREM PrinterListHolds == Spec => []PrintersHeard
<1>1. Spec => []TInv
  BY TInvInit, TInvStep, PTL DEF Spec
<1>2. Spec => []PrintersInv
  BY <1>1, PrintersInvInit, PrintersInvStep, PTL DEF Spec
<1>3. PrintersInv => PrintersHeard
  BY DEF PrintersInv
<1>4. QED
  BY <1>2, <1>3, PTL

-----------------------------------------------------------------------------
(* Reports: what a report has counted so far, and what it has still to count, *)
(* miss the rows of the beginning by no more than the moves.                  *)

Accurate(h, left, done) ==
    /\ h.before <= h.total + Cardinality(left) + h.moves
    /\ h.total <= Cardinality(done) + h.moves

CountingInv ==
    /\ \A r \in Requests : req[r].pc = "count" =>
          /\ req[r].left \subseteq Queried
          /\ Accurate(req[r], Having(req[r].left), Having(Queried \ req[r].left))
    /\ CountsAddUp

\* The rows in a status of S after the step.
After(S) == {t \in Tickets : ticket'[t] \in S}

Right(h) == h.left \subseteq Queried /\ Accurate(h, After(h.left), After(Queried \ h.left))

\* Counting sets of tickets: they are finite, grow by one, and split by column.
LEMMA InFinite ==
    /\ \A S : IsFiniteSet(Having(S)) /\ Cardinality(Having(S)) \in Nat
    /\ \A S \in SUBSET Tickets : IsFiniteSet(S) /\ Cardinality(S) \in Nat
<1>1. IsFiniteSet(Tickets)
  BY ReportsAssumption
<1>2. \A S \in SUBSET Tickets : IsFiniteSet(S) /\ Cardinality(S) \in Nat
  BY <1>1, FS_Subset, FS_CardinalityType
<1>3. QED
  BY <1>2 DEF Having

LEMMA InGrows ==
    ASSUME NEW S \in SUBSET Tickets, NEW T \in SUBSET Tickets
    PROVE  /\ S \subseteq T => Cardinality(S) <= Cardinality(T)
           /\ \A t : S \subseteq T \cup {t} => Cardinality(S) <= Cardinality(T) + 1
<1>1. IsFiniteSet(S) /\ IsFiniteSet(T) /\ Cardinality(S) \in Nat /\ Cardinality(T) \in Nat
  BY InFinite
<1>2. S \subseteq T => Cardinality(S) <= Cardinality(T)
  BY <1>1, FS_Subset
<1>3. ASSUME NEW t, S \subseteq T \cup {t}
      PROVE  Cardinality(S) <= Cardinality(T) + 1
  <2>0. /\ IsFiniteSet(T \cup {t})
        /\ Cardinality(T \cup {t}) = IF t \in T THEN Cardinality(T) ELSE Cardinality(T) + 1
    BY <1>1, FS_AddElement
  <2>1. IsFiniteSet(T \cup {t}) /\ Cardinality(T \cup {t}) <= Cardinality(T) + 1
        /\ Cardinality(T \cup {t}) \in Nat
    <3> DEFINE a == Cardinality(T)
               b == Cardinality(T \cup {t})
    <3>1. a \in Nat /\ b = IF t \in T THEN a ELSE a + 1
      BY <1>1, <2>0
    <3> HIDE DEF a, b
    <3>2. b \in Nat /\ b <= a + 1
      BY <3>1
    <3>3. QED
      BY <2>0, <3>2 DEF a, b
  <2>2. Cardinality(S) <= Cardinality(T \cup {t})
    <3> DEFINE U == T \cup {t}
    <3>1. IsFiniteSet(U) /\ S \in SUBSET U
      BY <1>3, <2>1
    <3> HIDE DEF U
    <3>2. Cardinality(S) <= Cardinality(U)
      BY <3>1, FS_Subset
    <3>3. QED
      BY <3>2 DEF U
  <2>3. QED
    BY <1>1, <2>1, <2>2
<1>4. QED
  BY <1>2, <1>3

LEMMA InSplits ==
    ASSUME NEW S \in SUBSET Queried, NEW c \in S
    PROVE  /\ Cardinality(Having(S)) = Cardinality(Having(S \ {c})) + Counted(c)
           /\ Cardinality(Having(Queried \ (S \ {c}))) = Cardinality(Having(Queried \ S)) + Counted(c)
<1> DEFINE one == {t \in Tickets : ticket[t] = c}
<1>1. /\ Having(S) = Having(S \ {c}) \cup one /\ Having(S \ {c}) \cap one = {}
      /\ Having(Queried \ (S \ {c})) = Having(Queried \ S) \cup one /\ Having(Queried \ S) \cap one = {}
  BY DEF Having
<1>2. \A D, E \in SUBSET Tickets : D \cap E = {} =>
         Cardinality(D \cup E) = Cardinality(D) + Cardinality(E)
  <2> SUFFICES ASSUME NEW D \in SUBSET Tickets, NEW E \in SUBSET Tickets, D \cap E = {}
               PROVE  Cardinality(D \cup E) = Cardinality(D) + Cardinality(E)
    OBVIOUS
  <2>1. IsFiniteSet(D) /\ IsFiniteSet(E) /\ Cardinality(D) \in Nat /\ Cardinality(E) \in Nat
    BY InFinite
  <2>2. Cardinality(D \cup E) = Cardinality(D) + Cardinality(E) - Cardinality(D \cap E)
    BY <2>1, FS_Union
  <2>3. Cardinality(D \cap E) = 0
    BY FS_EmptySet
  <2>4. QED
    BY <2>1, <2>2, <2>3
<1>3. /\ Having(S \ {c}) \in SUBSET Tickets /\ Having(Queried \ S) \in SUBSET Tickets
      /\ one \in SUBSET Tickets
  BY DEF Having
<1>4. Counted(c) = Cardinality(one)
  BY DEF Counted
<1>5. QED
  BY <1>1, <1>2, <1>3, <1>4

LEMMA CountingStep == TInv /\ CountingInv /\ [Next]_vars => CountingInv'
<1> SUFFICES ASSUME TInv, CountingInv, [Next]_vars PROVE CountingInv'
  OBVIOUS
<1>p. ReportTypeOK /\ ReqOK /\ ReqOK' /\ ReportTypeOK'
  <2>1. TInv /\ TInv'
    BY TInvStep
  <2>2. QED
    BY <2>1 DEF TInv
<1>c. CountsAddUp
  BY DEF CountingInv
<1>a. (\A r \in Requests : req'[r].pc = "count" => Right(req'[r])) /\ CountsAddUp'
         => CountingInv'
  BY DEF CountingInv, Having, After, Accurate, Right
<1>f. /\ \A S : Having(S) \in SUBSET Tickets /\ After(S) \in SUBSET Tickets
      /\ \A S : Cardinality(Having(S)) \in Nat /\ Cardinality(After(S)) \in Nat
  <2>1. \A S : Having(S) \in SUBSET Tickets /\ After(S) \in SUBSET Tickets
    BY DEF Having, After
  <2>2. QED
    BY <2>1, InFinite
\* A report that goes on as it was, while rows are created or nothing happens.
<1>k. ASSUME NEW r \in Requests, req'[r].pc = "count", req'[r] = req[r],
             \A S \in SUBSET Queried : Having(S) \subseteq After(S)
      PROVE  Right(req'[r])
  <2> DEFINE h == req[r]
             a == Cardinality(Having(h.left))
             b == Cardinality(After(h.left))
             c == Cardinality(Having(Queried \ h.left))
             d == Cardinality(After(Queried \ h.left))
  <2>1. /\ h.left \in SUBSET Queried
        /\ h.total \in Nat /\ h.before \in Nat /\ h.moves \in Nat
    BY <1>p, <1>k, CountHas
  <2>2. /\ h.before <= h.total + a + h.moves /\ h.total <= c + h.moves
        /\ h.left \subseteq Queried
    BY <1>k DEF CountingInv, Accurate
  <2>3. a <= b /\ c <= d
    BY <1>k, <1>f, <2>1, InGrows
  <2>4. a \in Nat /\ c \in Nat /\ b \in Nat /\ d \in Nat
    BY <1>f
  <2> HIDE DEF a, b, c, d
  <2>5. h.before <= h.total + b + h.moves /\ h.total <= d + h.moves
    BY <2>1, <2>2, <2>3, <2>4
  <2>6. QED
    BY <1>k, <2>2, <2>5 DEF b, d, Accurate, Right
<1>w. ASSUME answered' = answered
      PROVE  CountsAddUp'
  BY <1>c, <1>w DEF CountsAddUp
<1>s. ASSUME ticket' = ticket
      PROVE  \A S : After(S) = Having(S)
  BY <1>s DEF After, Having
<1>0. ASSUME NEW others, Moves(others), others \cap ReportSteps = {}, UNCHANGED reportVars
      PROVE  CountingInv'
  <2>1. \A q \in Requests : req'[q].pc = "count" => req'[q] = req[q]
    BY <1>0, Elsewhere DEF ReportSteps
  <2>2. answered' = answered /\ ticket' = ticket
    BY <1>0 DEF reportVars
  <2>3. CountsAddUp'
    BY <1>w, <2>2
  <2>4. QED
    BY <1>a, <1>k, <1>s, <2>1, <2>2, <2>3
<1>1. CASE StaffNext /\ UNCHANGED <<consoleVars, menuVars, printerVars, reportVars>>
  BY <1>0, <1>1, StaffTypes, Apart
<1>2. CASE ConsoleNext /\ UNCHANGED <<staffVars, menuVars, printerVars, reportVars>>
  BY <1>0, <1>2, ConsoleTypes, Apart
<1>3. CASE MenuNext /\ UNCHANGED <<staffVars, consoleVars, printerVars, reportVars>>
  BY <1>0, <1>3, MenuTypes, Apart
<1>4. CASE PrinterNext /\ UNCHANGED <<staffVars, consoleVars, menuVars, reportVars>>
  BY <1>0, <1>4, PrinterTypes, Apart
<1>5. CASE UNCHANGED vars
  <2>1. answered' = answered /\ ticket' = ticket /\ req' = req
    BY <1>5 DEF vars, reportVars, handlerVars
  <2>2. CountsAddUp'
    BY <1>w, <2>1
  <2>3. QED
    BY <1>a, <1>k, <1>s, <2>1, <2>2
<1>6. ASSUME NEW r \in Requests, GetStats(r)
      PROVE  CountingInv'
  <2> DEFINE h == [pc |-> "count", left |-> Queried, total |-> 0,
                   before |-> Cardinality(Having(Queried)), moves |-> 0]
  <2>1. h \in ReportHandler
    BY RowsFinite DEF ReportHandler
  <2>2. req' = [req EXCEPT ![r] = h] /\ answered' = answered /\ ticket' = ticket
    BY <1>6 DEF GetStats, Begin, reportVars
  <2>3. req'[r] = h /\ \A q \in Requests \ {r} : req'[q] = req[q]
    BY <1>p, <2>1, <2>2, StepsOf, SetSlot
  <2>4. Right(h)
    <3>1. After(h.left) = Having(Queried)
      BY <1>s, <2>2
    <3>2. Cardinality(Having(Queried)) \in Nat /\ Cardinality(After(Queried \ h.left)) \in Nat
      BY <1>f, RowsFinite
    <3>3. /\ h.total = 0 /\ h.moves = 0 /\ h.before = Cardinality(Having(Queried))
          /\ h.left \subseteq Queried
      OBVIOUS
    <3> HIDE DEF h
    <3>4. QED
      BY <3>1, <3>2, <3>3 DEF Accurate, Right
  <2>5. CountsAddUp'
    BY <1>w, <2>2
  <2> HIDE DEF h
  <2>6. ASSUME NEW q \in Requests, req'[q].pc = "count"
        PROVE  Right(req'[q])
    <3>1. CASE q = r
      BY <2>3, <2>4, <3>1
    <3>2. CASE q # r
      BY <1>k, <1>s, <2>2, <2>3, <2>6, <3>2
    <3>3. QED
      BY <3>1, <3>2
  <2>7. QED
    BY <1>a, <2>5, <2>6
<1>7. ASSUME NEW r \in Requests, Answer(r)
      PROVE  CountingInv'
  <2>1. /\ req' = [req EXCEPT ![r] = Idle] /\ ticket' = ticket
        /\ answered' = [total |-> req[r].total, before |-> req[r].before,
                        after |-> Cardinality(Having(Queried)),
                        moves |-> req[r].moves]
        /\ req[r].pc = "count" /\ req[r].left = {}
    BY <1>7 DEF Answer, End, Become
  <2>2. \A q \in Requests : req'[q].pc = "count" => req'[q] = req[q]
    BY <1>p, <2>1, StepsOf, SetSlot
  <2>3. CountsAddUp'
    <3> DEFINE h == req[r]
               a == Cardinality(Having(Queried))
    <3>1. h.total \in Nat /\ h.before \in Nat /\ h.moves \in Nat /\ a \in Nat
      BY <1>p, <2>1, CountHas, RowsFinite
    <3>2. Having({}) = {} /\ Queried \ {} = Queried
      BY DEF Having
    <3>3. h.before <= h.total + Cardinality({}) + h.moves /\ h.total <= a + h.moves
      BY <2>1, <3>2 DEF CountingInv, Accurate
    <3>4. Cardinality({}) = 0
      BY FS_EmptySet
    <3>5. /\ answered'.total = h.total /\ answered'.before = h.before
          /\ answered'.after = a /\ answered'.moves = h.moves
      BY <2>1
    <3> HIDE DEF h, a
    <3>6. h.total >= h.before - h.moves /\ h.total <= a + h.moves
      BY <3>1, <3>3, <3>4
    <3>7. QED
      BY <3>5, <3>6 DEF CountsAddUp
  <2>4. QED
    BY <1>a, <1>k, <1>s, <2>1, <2>2, <2>3
<1>8. ASSUME NEW r \in Requests, NEW c \in Queried, CountOne(r, c)
      PROVE  CountingInv'
  <2> DEFINE h == req[r]
             g == [pc |-> "count", left |-> h.left \ {c},
                   total |-> h.total + Counted(c), before |-> h.before, moves |-> h.moves]
  <2>1. /\ req' = [req EXCEPT ![r] = g] /\ g \in ReportHandler
        /\ h.pc = "count" /\ c \in h.left
    BY <1>p, <1>8, CountedOne
  <2>2. answered' = answered /\ ticket' = ticket
    BY <1>8 DEF CountOne, reportVars
  <2>3. req'[r] = g /\ \A q \in Requests \ {r} : req'[q] = req[q]
    BY <1>p, <2>1, StepsOf, SetSlot
  <2>4. g.left \subseteq Queried /\ Accurate(g, Having(g.left), Having(Queried \ g.left))
    <3> DEFINE n == Counted(c)
               a == Cardinality(Having(h.left))
               b == Cardinality(Having(h.left \ {c}))
               d == Cardinality(Having(Queried \ h.left))
               e == Cardinality(Having(Queried \ (h.left \ {c})))
    <3>1. /\ h.left \in SUBSET Queried
          /\ h.total \in Nat /\ h.before \in Nat /\ h.moves \in Nat
      BY <1>p, <2>1, CountHas
    <3>0. h.left \subseteq Queried
      BY <2>1 DEF CountingInv
    <3>2. a = b + n /\ e = d + n
      BY <2>1, <3>0, <3>1, InSplits
    <3>3. n \in Nat /\ a \in Nat /\ b \in Nat /\ d \in Nat /\ e \in Nat
      BY <1>f, RowsFinite
    <3>4. h.before <= h.total + a + h.moves /\ h.total <= d + h.moves
      BY <2>1 DEF CountingInv, Accurate
    <3>5. /\ g.left = h.left \ {c} /\ g.total = h.total + n
          /\ g.before = h.before /\ g.moves = h.moves
      OBVIOUS
    <3> HIDE DEF n, a, b, d, e, g, h
    <3>6. h.before <= (h.total + n) + b + h.moves /\ h.total + n <= e + h.moves
      BY <3>1, <3>2, <3>3, <3>4
    <3>7. QED
      BY <3>0, <3>5, <3>6 DEF Accurate, b, e
  <2>5. CountsAddUp'
    BY <1>w, <2>2
  <2> HIDE DEF g
  <2>6. ASSUME NEW q \in Requests, req'[q].pc = "count"
        PROVE  Right(req'[q])
    <3>1. CASE q = r
      BY <1>s, <2>2, <2>3, <2>4, <3>1 DEF Right
    <3>2. CASE q # r
      BY <1>k, <1>s, <2>2, <2>3, <2>6, <3>2
    <3>3. QED
      BY <3>1, <3>2
  <2>7. QED
    BY <1>a, <2>5, <2>6
<1>9. ASSUME NEW t \in Tickets, CreateTicket(t)
      PROVE  CountingInv'
  <2>1. /\ ticket[t] = "none" /\ ticket' = [ticket EXCEPT ![t] = First]
        /\ req' = req /\ answered' = answered
    BY <1>9 DEF CreateTicket
  <2>2. /\ \A u \in Tickets : u # t => ticket'[u] = ticket[u]
        /\ \A S \in SUBSET Queried : ticket[t] \notin S
    BY <1>p, <2>1, StatusSets DEF ReportTypeOK
  <2>3. \A S \in SUBSET Queried : Having(S) \subseteq After(S)
    BY <2>2 DEF Having, After
  <2>4. QED
    BY <1>a, <1>k, <1>w, <2>1, <2>3
<1>10. ASSUME NEW t \in Tickets, NEW c \in Columns \cup {"none"}, MoveTicket(t, c)
       PROVE  CountingInv'
  <2>1. /\ ticket[t] # "none" /\ ticket' = [ticket EXCEPT ![t] = c] /\ answered' = answered
    BY <1>10 DEF MoveTicket
  <2>2. \A u \in Tickets : u # t => ticket'[u] = ticket[u]
    BY <1>p, <2>1 DEF ReportTypeOK
  <2>3. \A S : Having(S) \subseteq After(S) \cup {t}
    BY <2>2 DEF Having, After
  <2>4. ASSUME NEW r \in Requests, req'[r].pc = "count"
        PROVE  Right(req'[r])
    <3> DEFINE h == req[r]
               a == Cardinality(Having(h.left))
               b == Cardinality(After(h.left))
               d == Cardinality(Having(Queried \ h.left))
               e == Cardinality(After(Queried \ h.left))
    <3>1. h.pc = "count"
      <4>1. h.pc # "count" => req'[r] = req[r]
        BY <1>p, <1>10, MovedOne
      <4>2. QED
        BY <2>4, <4>1
    <3>2. req'[r] = [pc |-> "count", left |-> h.left, total |-> h.total,
                     before |-> h.before, moves |-> h.moves + 1]
      BY <1>p, <1>10, <3>1, MovedOne
    <3>3. /\ h.left \in SUBSET Queried
          /\ h.total \in Nat /\ h.before \in Nat /\ h.moves \in Nat
      BY <1>p, <3>1, CountHas
    <3>4. /\ h.before <= h.total + a + h.moves /\ h.total <= d + h.moves
          /\ h.left \subseteq Queried
      BY <3>1 DEF CountingInv, Accurate
    <3>5. a \in Nat /\ b \in Nat /\ d \in Nat /\ e \in Nat
      BY <1>f
    <3>6. a <= b + 1 /\ d <= e + 1
      BY <1>f, <2>3, InGrows
    <3>7. /\ req'[r].left = h.left /\ req'[r].total = h.total /\ req'[r].before = h.before
          /\ req'[r].moves = h.moves + 1
      BY <3>2
    <3> HIDE DEF a, b, d, e, h
    <3>8. h.before <= h.total + b + (h.moves + 1) /\ h.total <= e + (h.moves + 1)
      BY <3>3, <3>4, <3>5, <3>6
    <3>9. QED
      BY <3>4, <3>7, <3>8 DEF Accurate, Right, b, e
  <2>5. QED
    BY <1>a, <1>w, <2>1, <2>4
<1>11. QED
  BY <1>1, <1>2, <1>3, <1>4, <1>5, <1>6, <1>7, <1>8, <1>9, <1>10
     DEF Next, ReportNext

LEMMA CountingInit == Init => CountingInv
<1> SUFFICES ASSUME Init PROVE CountingInv
  OBVIOUS
<1>1. \A r \in Requests : req[r].pc = "idle"
  BY StepsOf DEF Init, HandlersInit
<1>2. answered = Idle
  BY DEF Init, ReportInit
<1>3. QED
  BY <1>1, <1>2 DEF CountingInv, CountsAddUp

\* The statistics count the rows status by status while they move: the total that
\* getQueueStats or getTableStats answers is off by no more than what moved while it
\* counted, of the rows in the statuses it asks for.
THEOREM ReportsAddUp == Spec => []CountsAddUp
<1>1. Spec => []TInv
  BY TInvInit, TInvStep, PTL DEF Spec
<1>2. Spec => []CountingInv
  BY <1>1, CountingInit, CountingStep, PTL DEF Spec
<1>3. CountingInv => CountsAddUp
  BY DEF CountingInv
<1>4. QED
  BY <1>2, <1>3, PTL

-----------------------------------------------------------------------------
(* Reset links: the token of an account is its newest stored link, or none. *)

LinkSteps == {"fgWrite", "rsWrite"}
Mine(e) == {t \in DOMAIN links : links[t].account = e /\ links[t].stored}
Newest(e, t) == t \in Mine(e) /\ \A s \in Mine(e) : s <= t

LinksKnown ==
    /\ \A e \in Accounts : account[e].token # 0 => account[e].token \in Mine(e)
    /\ \A r \in Requests : req[r].pc \in LinkSteps =>
          /\ req[r].link \in DOMAIN links
          /\ links[req[r].link].account = req[r].account

\* While nothing overlaps.
LinksInTurn(e) ==
    /\ \A r, s \in Requests :
          /\ req[r].pc \in LinkSteps /\ req[s].pc \in LinkSteps
          /\ req[r].account = e /\ req[s].account = e
          => r = s
    /\ \A r \in Requests : req[r].pc = "fgWrite" /\ req[r].account = e =>
          /\ ~links[req[r].link].stored /\ links[req[r].link].used = 0
          /\ \A s \in Mine(e) : s < req[r].link
    /\ \A r \in Requests : req[r].pc = "rsWrite" /\ req[r].account = e =>
          account[e].token = req[r].link
    /\ \A t \in Mine(e) : links[t].used <= 1
    /\ Mine(e) = {} => account[e].token = 0
    /\ Mine(e) # {} => \E t : Newest(e, t) /\ account[e].token = IF links[t].used = 0 THEN t ELSE 0

LinksInv ==
    /\ LinksKnown
    /\ \A e \in Accounts : "resets" \notin consoleNotes[e] => LinksInTurn(e)

LEMMA LinksOnce == TInv /\ LinksInv => ResetLinkOnce
<1> SUFFICES ASSUME TInv, LinksInv, NEW e \in Accounts, "resets" \notin consoleNotes[e]
             PROVE  /\ \A t \in Mine(e) : links[t].used <= 1
                    /\ Mine(e) # {} =>
                          LET newest == CHOOSE t \in Mine(e) : \A s \in Mine(e) : s <= t
                          IN  account[e].token = IF links[newest].used = 0 THEN newest ELSE 0
  BY DEF ResetLinkOnce, Mine
<1>1. LinksInTurn(e)
  BY DEF LinksInv
<1>2. ASSUME Mine(e) # {}
      PROVE  LET newest == CHOOSE t \in Mine(e) : \A s \in Mine(e) : s <= t
             IN  account[e].token = IF links[newest].used = 0 THEN newest ELSE 0
  <2> DEFINE best(t) == \A s \in Mine(e) : s <= t
             newest == CHOOSE t \in Mine(e) : best(t)
  <2>1. PICK t : Newest(e, t) /\ account[e].token = IF links[t].used = 0 THEN t ELSE 0
    BY <1>1, <1>2 DEF LinksInTurn
  <2>2. t \in Mine(e) /\ best(t)
    BY <2>1 DEF Newest
  <2>3. newest \in Mine(e) /\ best(newest)
    BY <2>2
  <2>4. Mine(e) \subseteq Nat
    <3>1. links \in Seq(Link)
      BY DEF TInv, ConsoleTypeOK
    <3>2. DOMAIN links \subseteq Nat
      BY <3>1
    <3>3. QED
      BY <3>2 DEF Mine
  <2>5. t = newest
    <3> HIDE DEF newest
    <3>1. t <= newest /\ newest <= t /\ t \in Nat /\ newest \in Nat
      BY <2>2, <2>3, <2>4
    <3>2. QED
      BY <3>1
  <2> HIDE DEF newest
  <2>6. account[e].token = IF links[newest].used = 0 THEN newest ELSE 0
    BY <2>1, <2>5
  <2>7. QED
    BY <2>6 DEF newest
<1>3. QED
  BY <1>1, <1>2 DEF LinksInTurn

\* What a link is, for the accounts it does not belong to as well.
SameLink(t) ==
    /\ t \in DOMAIN links /\ t \in DOMAIN links'
    /\ links'[t].account = links[t].account
    /\ links'[t].stored = links[t].stored
    /\ links'[t].used = links[t].used

\* Nothing has changed for the links of an account.
Untouched(e) ==
    /\ account'[e].token = account[e].token
    /\ \A t : t \in DOMAIN links' /\ links'[t].account = e /\ links'[t].stored => SameLink(t)
    /\ \A t : t \in DOMAIN links /\ links[t].account = e => SameLink(t)
    /\ "resets" \notin consoleNotes'[e] => "resets" \notin consoleNotes[e]
    /\ \A r \in Requests : req'[r].pc \in LinkSteps /\ req'[r].account = e =>
          req'[r] = req[r]

\* An account whose links and handlers are left alone.
LEMMA Untouching ==
    ASSUME TInv, LinksInv, NEW e \in Accounts, Untouched(e)
    PROVE  /\ (account[e].token # 0 => account[e].token \in Mine(e))'
           /\ \A r \in Requests : req'[r].pc \in LinkSteps /\ req'[r].account = e =>
                 /\ req'[r].link \in DOMAIN links'
                 /\ links'[req'[r].link].account = req'[r].account
           /\ "resets" \notin consoleNotes'[e] => LinksInTurn(e)'
<1>1. /\ Mine(e)' = Mine(e)
      /\ \A t \in Mine(e) : links'[t].used = links[t].used
  BY DEF Untouched, SameLink, Mine
<1>2. \A r \in Requests : req'[r].pc \in LinkSteps /\ req'[r].account = e =>
          /\ req'[r] = req[r]
          /\ req[r].link \in DOMAIN links /\ links[req[r].link].account = e
          /\ SameLink(req[r].link)
  BY DEF Untouched, LinksInv, LinksKnown
<1>3. account'[e].token = account[e].token
  BY DEF Untouched
<1>4. (account[e].token # 0 => account[e].token \in Mine(e))'
  BY <1>1, <1>3 DEF LinksInv, LinksKnown
<1>5. \A r \in Requests : req'[r].pc \in LinkSteps /\ req'[r].account = e =>
         /\ req'[r].link \in DOMAIN links'
         /\ links'[req'[r].link].account = req'[r].account
  BY <1>2 DEF SameLink
<1>6. ASSUME "resets" \notin consoleNotes'[e]
      PROVE  LinksInTurn(e)'
  <2>1. LinksInTurn(e)
    BY <1>6 DEF Untouched, LinksInv
  <2>2. \A r, s \in Requests :
          /\ req'[r].pc \in LinkSteps /\ req'[s].pc \in LinkSteps
          /\ req'[r].account = e /\ req'[s].account = e
          => r = s
    BY <1>2, <2>1 DEF LinksInTurn
  <2>3. ASSUME NEW r \in Requests, req'[r].pc = "fgWrite", req'[r].account = e
        PROVE  /\ ~links'[req'[r].link].stored /\ links'[req'[r].link].used = 0
               /\ \A s \in Mine(e) : s < req'[r].link
    <3>1. req'[r] = req[r] /\ SameLink(req[r].link)
      BY <1>2, <2>3 DEF LinkSteps
    <3>2. QED
      BY <2>1, <2>3, <3>1 DEF LinksInTurn, SameLink
  <2>4. ASSUME NEW r \in Requests, req'[r].pc = "rsWrite", req'[r].account = e
        PROVE  account'[e].token = req'[r].link
    <3>1. req'[r] = req[r]
      BY <1>2, <2>4 DEF LinkSteps
    <3>2. QED
      BY <1>3, <2>1, <2>4, <3>1 DEF LinksInTurn
  <2>5. /\ \A t \in Mine(e) : links'[t].used <= 1
        /\ Mine(e) = {} => account'[e].token = 0
    BY <1>1, <1>3, <2>1 DEF LinksInTurn
  <2>6. Mine(e) # {} => \E t : /\ Newest(e, t)
                               /\ account'[e].token = IF links'[t].used = 0 THEN t ELSE 0
    BY <1>1, <1>3, <2>1 DEF LinksInTurn, Newest
  <2>7. \A t : Newest(e, t)' <=> Newest(e, t)
    BY <1>1 DEF Newest
  <2>8. QED
    BY <1>1, <2>2, <2>3, <2>4, <2>5, <2>6, <2>7 DEF LinksInTurn
<1>7. QED
  BY <1>4, <1>5, <1>6

SignUpActs(r) ==
    SuUser(r) \/ SuCompany(r) \/ SuProbe(r) \/ SuBranch(r) \/ SuDishProbe(r) \/ SuDish(r)
        \/ SuTable(r)

\* A step of a sign-up leads to another step of it, or ends it; to the company
\* only from the account.
LEMMA SignUpGoes ==
    ASSUME TInv, NEW r \in Requests, SignUpActs(r)
    PROVE  /\ req[r].pc \in SignUpSteps
           /\ \E h : /\ req' = [req EXCEPT ![r] = h]
                     /\ h = Idle \/ /\ h \in SignUpHandler
                                    /\ h.account = req[r].account
                                    /\ h.pc = "suCompany" => SuUser(r)
<1>t. ReqOK /\ ConsoleTypeOK
  BY DEF TInv
<1>1. req[r].pc \in SignUpSteps
  BY DEF SignUpActs, SuUser, SuCompany, SuProbe, SuBranch, SuDishProbe, SuDish, SuTable,
         SignUpSteps
<1>2. /\ req[r] \in SignUpHandler
      /\ req[r].branch \in Nat /\ req[r].n \in Nat /\ req[r].dish \in Nat /\ req[r].tab \in Nat
  BY <1>t, <1>1, SignUpHas
<1>3. {"suCompany", "suBranch", "suDish"} \subseteq SignUpSteps
  BY DEF SignUpSteps
<1>e. ASSUME req' = [req EXCEPT ![r] = Idle]
      PROVE  \E h : /\ req' = [req EXCEPT ![r] = h]
                    /\ h = Idle \/ /\ h \in SignUpHandler
                                   /\ h.account = req[r].account
                                   /\ h.pc = "suCompany" => SuUser(r)
  BY <1>e
<1>g. ASSUME NEW g \in SignUpHandler, Between(g), g.account = req[r].account,
             req' = [req EXCEPT ![r] = GoOn(g)]
      PROVE  \E h : /\ req' = [req EXCEPT ![r] = h]
                    /\ h = Idle \/ /\ h \in SignUpHandler
                                   /\ h.account = req[r].account
                                   /\ h.pc = "suCompany" => SuUser(r)
  <2>1. \/ GoOn(g) = Idle
        \/ /\ GoOn(g) \in GoodSignUp
           /\ GoOn(g).account = g.account
           /\ GoOn(g).pc \in {"suDishProbe", "suTable", "suProbe"}
    BY <1>g, GoesOn
  <2>2. QED
    BY <1>g, <2>1 DEF GoodSignUp
<1>4. CASE SuUser(r)
  <2>1. \/ req' = [req EXCEPT ![r] = Idle]
        \/ req' = [req EXCEPT ![r] = [req[r] EXCEPT !.pc = "suCompany"]]
    BY <1>4 DEF SuUser, End, Goto, Become
  <2>2. /\ [req[r] EXCEPT !.pc = "suCompany"] \in SignUpHandler
        /\ [req[r] EXCEPT !.pc = "suCompany"].account = req[r].account
    BY <1>2, <1>3, SignUpSet
  <2>3. QED
    BY <1>1, <1>4, <1>e, <2>1, <2>2
<1>5. CASE SuCompany(r)
  <2>1. req[r].pc = "suCompany"
    BY <1>5 DEF SuCompany
  <2>2. Between(req[r])
    BY <1>t, <1>1, <2>1, PartDone
  <2>3. \/ req' = [req EXCEPT ![r] = Idle]
        \/ req' = [req EXCEPT ![r] = GoOn(req[r])]
    BY <1>5 DEF SuCompany, SignUpFails, End, Become
  <2>4. QED
    BY <1>1, <1>2, <1>e, <1>g, <2>2, <2>3
<1>6. CASE SuProbe(r) \/ SuDishProbe(r)
  <2>1. \/ req' = [req EXCEPT ![r] = [req[r] EXCEPT !.n = req[r].n + 1]]
        \/ req' = [req EXCEPT ![r] = [req[r] EXCEPT !.pc = "suBranch"]]
        \/ req' = [req EXCEPT ![r] = [req[r] EXCEPT !.pc = "suDish"]]
    BY <1>6 DEF SuProbe, SuDishProbe, Become, Goto
  <2>2. req[r].pc # "suCompany" /\ req[r].n + 1 \in Nat
    BY <1>2, <1>6 DEF SuProbe, SuDishProbe
  <2>3. /\ [req[r] EXCEPT !.n = req[r].n + 1] \in SignUpHandler
        /\ [req[r] EXCEPT !.n = req[r].n + 1].account = req[r].account
        /\ [req[r] EXCEPT !.n = req[r].n + 1].pc # "suCompany"
    BY <1>2, <2>2, SignUpSet
  <2>4. \A p \in {"suBranch", "suDish"} :
           /\ [req[r] EXCEPT !.pc = p] \in SignUpHandler
           /\ [req[r] EXCEPT !.pc = p].account = req[r].account
           /\ [req[r] EXCEPT !.pc = p].pc = p
    BY <1>2, <1>3, SignUpSet
  <2>5. QED
    BY <1>1, <2>1, <2>3, <2>4
<1>7. CASE SuBranch(r)
  <2> DEFINE k == Len(branches) + 1
             g == [req[r] EXCEPT !.branch = k]
  <2>1. k \in Nat /\ req[r].pc = "suBranch"
    <3>1. branches \in Seq(Branch)
      BY <1>t DEF ConsoleTypeOK
    <3>2. k \in Nat
      BY <3>1
    <3>3. QED
      BY <1>7, <3>2 DEF SuBranch
  <2>2. \/ req' = [req EXCEPT ![r] = Idle]
        \/ req' = [req EXCEPT ![r] = GoOn(g)]
    BY <1>7 DEF SuBranch, SignUpFails, End, Become
  <2> HIDE DEF k
  <2>3. g \in SignUpHandler /\ g.account = req[r].account
    BY <1>2, <2>1, SignUpSet
  <2>4. Between(g)
    BY <1>t, <1>1, <2>1, PartDone
  <2> HIDE DEF g
  <2>5. QED
    BY <1>1, <1>e, <1>g, <2>2, <2>3, <2>4
<1>8. CASE SuDish(r)
  <2> DEFINE g == [req[r] EXCEPT !.dish = req[r].dish + 1]
  <2>a. req[r].pc = "suDish"
    BY <1>8 DEF SuDish
  <2>b. req[r].dish + 1 \in Nat
    BY <1>2
  <2>1. req[r].pc = "suDish" /\ req[r].dish + 1 \in Nat /\ 0 \in Nat
    BY <2>a, <2>b
  <2>2. \/ req' = [req EXCEPT ![r] = Idle]
        \/ req' = [req EXCEPT ![r] = GoOn(g)]
    BY <1>8 DEF SuDish, SignUpFails, End, Become
  <2>3. g \in SignUpHandler /\ g.account = req[r].account
    BY <1>2, <2>1, SignUpSet
  <2>4. Between(g)
    BY <1>t, <1>1, <2>1, PartDone
  <2> HIDE DEF g
  <2>5. QED
    BY <1>1, <1>e, <1>g, <2>2, <2>3, <2>4
<1>9. CASE SuTable(r)
  <2> DEFINE g == [req[r] EXCEPT !.tab = req[r].tab + 1]
  <2>a. req[r].pc = "suTable"
    BY <1>9 DEF SuTable
  <2>b. req[r].tab + 1 \in Nat
    BY <1>2
  <2>1. req[r].pc = "suTable" /\ req[r].tab + 1 \in Nat /\ 0 \in Nat
    BY <2>a, <2>b
  <2>2. \/ req' = [req EXCEPT ![r] = Idle]
        \/ req' = [req EXCEPT ![r] = GoOn(g)]
    BY <1>9 DEF SuTable, SignUpFails, End, Become
  <2>3. g \in SignUpHandler /\ g.account = req[r].account
    BY <1>2, <2>1, SignUpSet
  <2>4. Between(g)
    BY <1>t, <1>1, <2>1, PartDone
  <2> HIDE DEF g
  <2>5. QED
    BY <1>1, <1>e, <1>g, <2>2, <2>3, <2>4
<1>10. QED
  BY <1>4, <1>5, <1>6, <1>7, <1>8, <1>9 DEF SignUpActs

\* A note is added, and none is lost.
LEMMA NoteKeeps ==
    ASSUME NEW S, NEW why, Note(S, why), NEW e \in Accounts
    PROVE  /\ consoleNotes[e] \subseteq consoleNotes'[e]
           /\ e \in S => why \in consoleNotes'[e]
           /\ e \notin S => consoleNotes'[e] = consoleNotes[e]
           /\ \A other : other # why =>
                 (other \in consoleNotes'[e] <=> other \in consoleNotes[e])
  BY DEF Note

\* The steps that are about no link.
LEMMA NoLinkStep ==
    ASSUME /\ links' = links
           /\ \A e \in Accounts : account'[e].token = account[e].token
           /\ \A e \in Accounts : "resets" \in consoleNotes[e] => "resets" \in consoleNotes'[e]
           /\ \A r \in Requests : req'[r].pc \in LinkSteps => req'[r] = req[r]
    PROVE  \A e \in Accounts : Untouched(e)
  BY DEF Untouched, SameLink

\* The invariant, account by account.
LEMMA LinksInvFrom ==
    ASSUME TInv, TInv', LinksInv,
           \A e \in Accounts :
              \/ Untouched(e)
              \/ /\ (account[e].token # 0 => account[e].token \in Mine(e))'
                 /\ \A r \in Requests : req'[r].pc \in LinkSteps /\ req'[r].account = e =>
                       /\ req'[r].link \in DOMAIN links'
                       /\ links'[req'[r].link].account = req'[r].account
                 /\ "resets" \notin consoleNotes'[e] => LinksInTurn(e)'
    PROVE  LinksInv'
<1>1. \A e \in Accounts :
         /\ (account[e].token # 0 => account[e].token \in Mine(e))'
         /\ \A r \in Requests : req'[r].pc \in LinkSteps /\ req'[r].account = e =>
               /\ req'[r].link \in DOMAIN links'
               /\ links'[req'[r].link].account = req'[r].account
         /\ "resets" \notin consoleNotes'[e] => LinksInTurn(e)'
  BY Untouching
<1>2. \A r \in Requests : req'[r].pc \in LinkSteps => req'[r].account \in Accounts
  <2>1. \A r \in Requests : req'[r] \in AnyHandler
    BY DEF TInv, ReqOK
  <2>2. \A h \in AnyHandler : h.pc \in LinkSteps => h.account \in Accounts
    BY HandlerKinds DEF LinkSteps, LinkHandler
  <2>3. QED
    BY <2>1, <2>2
<1>3. LinksKnown'
  BY <1>1, <1>2 DEF LinksKnown
<1>4. QED
  BY <1>1, <1>3 DEF LinksInv

\* What a handler at a link knows.
LEMMA LinkHas ==
    ASSUME ReqOK, NEW r \in Requests, req[r].pc \in LinkSteps
    PROVE  req[r].account \in Accounts /\ req[r].link \in 1..MaxLinks
  BY HandlerKinds DEF ReqOK, LinkHandler, LinkSteps

LEMMA LinksInvStep == TInv /\ LinksInv /\ [Next]_vars => LinksInv'
<1> SUFFICES ASSUME TInv, LinksInv, [Next]_vars PROVE LinksInv'
  OBVIOUS
<1>t. TInv' /\ ReqOK /\ ReqOK' /\ ConsoleTypeOK /\ account \in [Accounts -> Account]
  <2>1. TInv'
    BY TInvStep
  <2>2. QED
    BY <2>1 DEF TInv, ConsoleTypeOK
<1>l. /\ links \in Seq(Link) /\ DOMAIN links = 1..Len(links) /\ Len(links) \in Nat
      /\ \A t \in DOMAIN links : links[t] \in Link
  <2>1. links \in Seq(Link)
    BY <1>t DEF ConsoleTypeOK
  <2>2. QED
    BY <2>1
<1>u. ASSUME \A e \in Accounts : Untouched(e)
      PROVE  LinksInv'
  BY <1>t, <1>u, LinksInvFrom
<1>0. ASSUME NEW others, Moves(others), others \cap ConsoleSteps = {}, UNCHANGED consoleVars
      PROVE  LinksInv'
  <2>1. \A q \in Requests : req'[q].pc \in LinkSteps => req'[q] = req[q]
    <3>1. LinkSteps \cap others = {} /\ "idle" \notin LinkSteps
      BY <1>0 DEF LinkSteps, ConsoleSteps
    <3>2. QED
      BY <1>0, <3>1, Elsewhere
  <2>2. links' = links /\ account' = account /\ consoleNotes' = consoleNotes
    BY <1>0 DEF consoleVars
  <2>3. QED
    BY <1>u, <2>1, <2>2, NoLinkStep
<1>1. CASE StaffNext /\ UNCHANGED <<consoleVars, menuVars, printerVars, reportVars>>
  BY <1>0, <1>1, StaffTypes, Apart
<1>2. CASE MenuNext /\ UNCHANGED <<staffVars, consoleVars, printerVars, reportVars>>
  BY <1>0, <1>2, MenuTypes, Apart
<1>3. CASE PrinterNext /\ UNCHANGED <<staffVars, consoleVars, menuVars, reportVars>>
  BY <1>0, <1>3, PrinterTypes, Apart
<1>4. CASE ReportNext /\ UNCHANGED <<staffVars, consoleVars, menuVars, printerVars>>
  BY <1>0, <1>4, ReportTypes, Apart
<1>5. CASE UNCHANGED vars
  <2>1. links' = links /\ account' = account /\ consoleNotes' = consoleNotes /\ req' = req
    BY <1>5 DEF vars, consoleVars, handlerVars
  <2>2. QED
    BY <1>u, <2>1, NoLinkStep
\* A slot is taken by a handler that is about no link, or becomes free.
<1>s. ASSUME NEW r \in Requests, NEW h, req' = [req EXCEPT ![r] = h], h.pc \notin LinkSteps
      PROVE  \A q \in Requests : req'[q].pc \in LinkSteps => req'[q] = req[q]
  BY <1>t, <1>s DEF ReqOK
<1>i. Idle.pc \notin LinkSteps
  BY DEF Idle, LinkSteps
<1>w. ASSUME NEW S, NEW why, Note(S, why)
      PROVE  \A e \in Accounts : "resets" \in consoleNotes[e] => "resets" \in consoleNotes'[e]
  BY <1>w, NoteKeeps
<1>6. ASSUME NEW r \in Requests, SignUpActs(r)
      PROVE  LinksInv'
  <2>1. links' = links
    BY <1>6 DEF SignUpActs, SuUser, SuCompany, SuProbe, SuBranch, SuDishProbe, SuDish, SuTable,
                consoleVars
  <2>2. \A e \in Accounts : account'[e].token = account[e].token
    <3>1. CASE SuUser(r)
      <4> DEFINE f == req[r].account
                 a == [account EXCEPT ![f].row = "here"]
      <4>1. /\ account' = account
            \/ account' = [account EXCEPT ![f].row = "here", ![f].name = SignUps[f].name]
        BY <3>1 DEF SuUser
      <4>2. [account EXCEPT ![f].row = "here", ![f].name = SignUps[f].name]
               = [a EXCEPT ![f].name = SignUps[f].name]
        OBVIOUS
      <4>3. /\ DOMAIN a = Accounts
            /\ \A e \in Accounts : a[e].token = account[e].token
            /\ \A e \in Accounts : a[e] \in Account
        <5>1. \A e \in Accounts : account[e] \in Account
          BY <1>t
        <5>2. \A x \in Account : [x EXCEPT !.row = "here"] \in Account
                                 /\ [x EXCEPT !.row = "here"].token = x.token
          BY DEF Account
        <5>3. \A e \in Accounts : a[e] = IF e = f THEN [account[e] EXCEPT !.row = "here"]
                                         ELSE account[e]
          BY <1>t
        <5>4. DOMAIN a = Accounts
          BY <1>t
        <5> HIDE DEF a
        <5>5. QED
          BY <5>1, <5>2, <5>3, <5>4
      <4> HIDE DEF a
      <4>4. \A n : \A x \in Account : [x EXCEPT !.name = n].token = x.token
        BY DEF Account
      <4>5. \A e \in Accounts : [a EXCEPT ![f].name = SignUps[f].name][e]
                                  = IF e = f THEN [a[e] EXCEPT !.name = SignUps[f].name] ELSE a[e]
        BY <4>3
      <4>6. \A e \in Accounts : [a EXCEPT ![f].name = SignUps[f].name][e].token = account[e].token
        BY <4>3, <4>4, <4>5
      <4>7. QED
        BY <4>1, <4>2, <4>6
    <3>2. CASE ~SuUser(r)
      BY <1>6, <3>2 DEF SignUpActs, SuCompany, SuProbe, SuBranch, SuDishProbe, SuDish, SuTable,
                        consoleVars
    <3>3. QED
      BY <3>1, <3>2
  <2>3. \A e \in Accounts : "resets" \in consoleNotes[e] => "resets" \in consoleNotes'[e]
    <3>1. consoleNotes' = consoleNotes \/ \E S : Note(S, "failed")
      BY <1>6 DEF SignUpActs, SuUser, SuCompany, SuProbe, SuBranch, SuDishProbe, SuDish,
                  SuTable, consoleVars, SignUpFails
    <3>2. QED
      BY <1>w, <3>1
  <2>4. \A q \in Requests : req'[q].pc \in LinkSteps => req'[q] = req[q]
    <3>1. PICK h : /\ req' = [req EXCEPT ![r] = h]
                   /\ h = Idle \/ h \in SignUpHandler
      BY <1>6, SignUpGoes
    <3>2. h.pc \notin LinkSteps
      BY <1>i, <3>1 DEF SignUpHandler, SignUpSteps, LinkSteps
    <3>3. QED
      BY <1>s, <3>1, <3>2
  <2>5. QED
    BY <1>u, <2>1, <2>2, <2>3, <2>4, NoLinkStep
<1>7. ASSUME NEW r \in Requests, CoName(r) \/ BrCreate(r) \/ BrRename(r) \/ BrRemove(r)
      PROVE  LinksInv'
  <2>1. links' = links /\ req' = [req EXCEPT ![r] = Idle] /\ consoleNotes' = consoleNotes
    BY <1>7 DEF CoName, BrCreate, BrRename, BrRemove, End, Become
  <2>2. \A e \in Accounts : account'[e].token = account[e].token
    <3>1. CASE CoName(r)
      <4> DEFINE f == req[r].account
      <4>1. \A e \in Accounts : [account[e] EXCEPT !.name = req[r].name].token = account[e].token
        <5>1. \A x \in Account : [x EXCEPT !.name = req[r].name].token = x.token
          BY DEF Account
        <5>2. \A e \in Accounts : account[e] \in Account
          BY <1>t
        <5>3. QED
          BY <5>1, <5>2
      <4>3. \A e \in Accounts : account'[e] = IF e = f THEN [account[e] EXCEPT !.name = req[r].name]
                                              ELSE account[e]
        BY <1>t, <3>1 DEF CoName
      <4> HIDE DEF f
      <4>4. QED
        BY <4>1, <4>3
    <3>2. CASE ~CoName(r)
      BY <1>7, <3>2 DEF BrCreate, BrRename, BrRemove
    <3>3. QED
      BY <3>1, <3>2
  <2>3. QED
    BY <1>u, <1>s, <1>i, <2>1, <2>2, NoLinkStep
<1>8. ASSUME NEW r \in Requests, ConsoleFault(r)
      PROVE  LinksInv'
  <2>1. /\ links' = links /\ account' = account /\ req' = [req EXCEPT ![r] = Idle]
        /\ \E S : Note(S, "fault")
    BY <1>8 DEF ConsoleFault, Throw
  <2>2. \A e \in Accounts : "resets" \in consoleNotes[e] => "resets" \in consoleNotes'[e]
    BY <1>w, <2>1
  <2>3. QED
    BY <1>u, <1>s, <1>i, <2>1, <2>2, NoLinkStep
<1>9. ASSUME NEW r \in Requests,
             \/ \E e \in Accounts : SignUp(r, e) \/ \E n \in Names : UpsertCompany(r, e, n)
             \/ \E o, c : BranchCreate(r, o, c)
             \/ \E i, c : BranchRename(r, i, c) \/ BranchRemove(r, i)
      PROVE  LinksInv'
  <2>1. links' = links /\ account' = account
    BY <1>9 DEF SignUp, UpsertCompany, BranchCreate, BranchRename, BranchRemove
  <2>2. \E S, why : Note(S, why)
    BY <1>9 DEF SignUp, UpsertCompany, BranchCreate, BranchRename, BranchRemove, NoteIf
  <2>3. \A e \in Accounts : "resets" \in consoleNotes[e] => "resets" \in consoleNotes'[e]
    BY <1>w, <2>2
  <2>4. \E h : req' = [req EXCEPT ![r] = h] /\ h.pc \notin LinkSteps
    <3>1. CASE \E e \in Accounts : SignUp(r, e)
      <4> DEFINE new(e, n, i, c) == [pc |-> "suUser", account |-> e, at |-> 0, branch |-> 0,
                                dish |-> 0, tab |-> 0, n |-> 0]
      <4>1. \E e, n, i, c : req' = [req EXCEPT ![r] = new(e, n, i, c)]
        BY <3>1 DEF SignUp, Begin
      <4>2. \A e, n, i, c : new(e, n, i, c).pc \notin LinkSteps
        BY DEF LinkSteps
      <4> HIDE DEF new
      <4>3. QED
        BY <4>1, <4>2
    <3>2. CASE \E e \in Accounts, n \in Names : UpsertCompany(r, e, n)
      <4> DEFINE new(e, n, i, c) == [pc |-> "coName", account |-> e, name |-> n]
      <4>1. \E e, n, i, c : req' = [req EXCEPT ![r] = new(e, n, i, c)]
        BY <3>2 DEF UpsertCompany, Begin
      <4>2. \A e, n, i, c : new(e, n, i, c).pc \notin LinkSteps
        BY DEF LinkSteps
      <4> HIDE DEF new
      <4>3. QED
        BY <4>1, <4>2
    <3>3. CASE \E o, c : BranchCreate(r, o, c)
      <4> DEFINE new(e, n, i, c) == [pc |-> "brCreate", owner |-> e, branch |-> 0, code |-> c]
      <4>1. \E e, n, i, c : req' = [req EXCEPT ![r] = new(e, n, i, c)]
        BY <3>3 DEF BranchCreate, Begin
      <4>2. \A e, n, i, c : new(e, n, i, c).pc \notin LinkSteps
        BY DEF LinkSteps
      <4> HIDE DEF new
      <4>3. QED
        BY <4>1, <4>2
    <3>4. CASE \E i, c : BranchRename(r, i, c)
      <4> DEFINE new(e, n, i, c) == [pc |-> "brRename", owner |-> "none", branch |-> i, code |-> c]
      <4>1. \E e, n, i, c : req' = [req EXCEPT ![r] = new(e, n, i, c)]
        BY <3>4 DEF BranchRename, Begin
      <4>2. \A e, n, i, c : new(e, n, i, c).pc \notin LinkSteps
        BY DEF LinkSteps
      <4> HIDE DEF new
      <4>3. QED
        BY <4>1, <4>2
    <3>5. CASE \E i : BranchRemove(r, i)
      <4> DEFINE new(e, n, i, c) == [pc |-> "brRemove", owner |-> "none", branch |-> i,
                                   code |-> branches[i].code]
      <4>1. \E e, n, i, c : req' = [req EXCEPT ![r] = new(e, n, i, c)]
        BY <3>5 DEF BranchRemove, Begin
      <4>2. \A e, n, i, c : new(e, n, i, c).pc \notin LinkSteps
        BY DEF LinkSteps
      <4> HIDE DEF new
      <4>3. QED
        BY <4>1, <4>2
    <3>6. QED
      BY <1>9, <3>1, <3>2, <3>3, <3>4, <3>5
  <2>5. \A q \in Requests : req'[q].pc \in LinkSteps => req'[q] = req[q]
    BY <1>s, <2>4
  <2>6. QED
    BY <1>u, <2>1, <2>3, <2>5, NoLinkStep
<1>10. ASSUME NEW e \in Accounts, NEW blank \in BOOLEAN, UpsertOther(e, blank)
       PROVE  LinksInv'
  <2>1. links' = links /\ account' = account /\ req' = req /\ \E S, why : Note(S, why)
    BY <1>10 DEF UpsertOther, NoteIf
  <2>2. \A f \in Accounts : "resets" \in consoleNotes[f] => "resets" \in consoleNotes'[f]
    BY <1>w, <2>1
  <2>3. QED
    BY <1>u, <2>1, <2>2, NoLinkStep
\* Accounts whose links, token and handlers are left alone.
<1>o. ASSUME NEW f \in Accounts, account'[f].token = account[f].token,
             \A t \in DOMAIN links : links[t].account = f => SameLink(t),
             \A t \in DOMAIN links' : links'[t].account = f => t \in DOMAIN links /\ SameLink(t),
             \A r \in Requests : req'[r].pc \in LinkSteps /\ req'[r].account = f =>
                req'[r] = req[r],
             "resets" \in consoleNotes[f] => "resets" \in consoleNotes'[f]
      PROVE  Untouched(f)
  BY <1>o DEF Untouched
<1>11. ASSUME NEW t \in DOMAIN links, Lapse(t)
       PROVE  LinksInv'
  <2>1. /\ links' = [links EXCEPT ![t].lapsed = TRUE]
        /\ req' = req /\ account' = account /\ consoleNotes' = consoleNotes
    BY <1>11 DEF Lapse
  <2>2. DOMAIN links' = DOMAIN links
    BY <2>1
  <2>3. \A k \in DOMAIN links : SameLink(k)
    <3>1. \A k \in DOMAIN links : links'[k] = IF k = t THEN [links[k] EXCEPT !.lapsed = TRUE]
                                              ELSE links[k]
      BY <2>1
    <3>2. \A x \in Link : /\ [x EXCEPT !.lapsed = TRUE].account = x.account
                          /\ [x EXCEPT !.lapsed = TRUE].stored = x.stored
                          /\ [x EXCEPT !.lapsed = TRUE].used = x.used
      BY DEF Link
    <3>3. QED
      BY <1>l, <2>2, <3>1, <3>2 DEF SameLink
  <2>4. QED
    BY <1>o, <1>u, <2>1, <2>2, <2>3
<1>12. ASSUME NEW r \in Requests, NEW e \in Accounts, Forgot(r, e)
       PROVE  LinksInv'
  <2> DEFINE k == Len(links) + 1
             h == [pc |-> "fgWrite", account |-> e, link |-> k]
             l == [account |-> e, stored |-> FALSE, lapsed |-> FALSE, used |-> 0]
  <2>1. /\ req[r].pc = "idle" /\ req' = [req EXCEPT ![r] = h]
        /\ links' = Append(links, l)
        /\ NoteIf(e, "resets", Resetting(e) # {})
        /\ account' = account
    BY <1>12, FreeIs DEF Forgot, Begin
  <2>2. /\ DOMAIN links' = DOMAIN links \cup {k} /\ k \notin DOMAIN links
        /\ links'[k] = l /\ \A t \in DOMAIN links : links'[t] = links[t] /\ t < k
    <3>1. l \in Link
      BY DEF Link
    <3> HIDE DEF l
    <3>2. /\ DOMAIN links' = 1..(Len(links) + 1)
          /\ links'[Len(links) + 1] = l
          /\ \A t \in DOMAIN links : links'[t] = links[t]
      BY <1>l, <2>1, <3>1, SeqAdd
    <3>3. QED
      BY <1>l, <3>2
  <2>3. req'[r] = h /\ \A q \in Requests \ {r} : req'[q] = req[q]
    BY <1>t, <2>1 DEF ReqOK
  <2>4. /\ h.account = e /\ h.pc = "fgWrite" /\ h.link = k
        /\ l.account = e /\ ~l.stored /\ l.used = 0
    OBVIOUS
  <2> HIDE DEF h, l, k
  <2>5. /\ \A f \in Accounts : "resets" \in consoleNotes[f] => "resets" \in consoleNotes'[f]
        /\ "resets" \notin consoleNotes'[e] => Resetting(e) = {} /\ "resets" \notin consoleNotes[e]
    BY <2>1, NoteKeeps DEF NoteIf
  <2>6. \A t \in DOMAIN links : SameLink(t)
    BY <2>2 DEF SameLink
  <2>7. \A f \in Accounts \ {e} : Untouched(f)
    BY <1>o, <2>1, <2>2, <2>3, <2>4, <2>5, <2>6
  <2>8. /\ Mine(e)' = Mine(e)
        /\ \A t \in Mine(e) : links'[t].used = links[t].used
    BY <2>2, <2>4 DEF Mine
  <2>9. (account[e].token # 0 => account[e].token \in Mine(e))'
    BY <2>1, <2>8 DEF LinksInv, LinksKnown
  <2>10. \A q \in Requests : req'[q].pc \in LinkSteps /\ req'[q].account = e =>
            /\ req'[q].link \in DOMAIN links'
            /\ links'[req'[q].link].account = req'[q].account
    BY <2>2, <2>3, <2>4 DEF LinksInv, LinksKnown
  <2>11. ASSUME "resets" \notin consoleNotes'[e]
         PROVE  LinksInTurn(e)'
    <3>1. LinksInTurn(e)
      BY <2>5, <2>11 DEF LinksInv
    <3>2. \A q \in Requests : req'[q].pc \in LinkSteps /\ req'[q].account = e => q = r
      BY <2>3, <2>5, <2>11 DEF Resetting, AtWork, Busy, LinkSteps
    <3>3. \A q, s \in Requests :
             /\ req'[q].pc \in LinkSteps /\ req'[s].pc \in LinkSteps
             /\ req'[q].account = e /\ req'[s].account = e
             => q = s
      BY <3>2
    <3>4. \A q \in Requests : req'[q].pc = "fgWrite" /\ req'[q].account = e =>
             /\ ~links'[req'[q].link].stored /\ links'[req'[q].link].used = 0
             /\ \A s \in Mine(e) : s < req'[q].link
      BY <2>2, <2>3, <2>4, <3>2 DEF Mine, LinkSteps
    <3>5. \A q \in Requests : req'[q].pc = "rsWrite" /\ req'[q].account = e => FALSE
      BY <2>3, <2>4, <3>2 DEF LinkSteps
    <3>6. /\ \A t \in Mine(e) : links'[t].used <= 1
          /\ Mine(e) = {} => account'[e].token = 0
          /\ Mine(e) # {} => \E t : /\ Newest(e, t)
                                    /\ account'[e].token = IF links'[t].used = 0 THEN t ELSE 0
      BY <2>1, <2>8, <3>1 DEF LinksInTurn, Newest
    <3>7. \A t : Newest(e, t)' <=> Newest(e, t)
      BY <2>8 DEF Newest
    <3>8. QED
      BY <2>8, <3>3, <3>4, <3>5, <3>6, <3>7 DEF LinksInTurn
  <2>12. QED
    BY <1>t, <2>7, <2>9, <2>10, <2>11, LinksInvFrom
<1>13. ASSUME NEW r \in Requests, NEW e \in Accounts, NEW t \in DOMAIN links,
              ResetPassword(r, e, t)
       PROVE  LinksInv'
  <2> DEFINE h == [pc |-> "rsWrite", account |-> e, link |-> t]
  <2>1. /\ req[r].pc = "idle" /\ req' = [req EXCEPT ![r] = h]
        /\ links' = links /\ account' = account /\ account[e].token = t
        /\ NoteIf(e, "resets", Resetting(e) # {})
    BY <1>13, FreeIs DEF ResetPassword, Begin
  <2>2. t # 0 /\ t \in Mine(e)
    BY <1>l, <2>1 DEF LinksInv, LinksKnown
  <2>3. req'[r] = h /\ \A q \in Requests \ {r} : req'[q] = req[q]
    BY <1>t, <2>1 DEF ReqOK
  <2>4. h.account = e /\ h.pc = "rsWrite" /\ h.link = t
    OBVIOUS
  <2> HIDE DEF h
  <2>5. /\ \A f \in Accounts : "resets" \in consoleNotes[f] => "resets" \in consoleNotes'[f]
        /\ "resets" \notin consoleNotes'[e] => Resetting(e) = {} /\ "resets" \notin consoleNotes[e]
    BY <2>1, NoteKeeps DEF NoteIf
  <2>6. \A k \in DOMAIN links : SameLink(k)
    BY <2>1 DEF SameLink
  <2>7. \A f \in Accounts \ {e} : Untouched(f)
    BY <1>o, <2>1, <2>3, <2>4, <2>5, <2>6
  <2>8. Mine(e)' = Mine(e)
    BY <2>1 DEF Mine
  <2>9. (account[e].token # 0 => account[e].token \in Mine(e))'
    BY <2>1, <2>8 DEF LinksInv, LinksKnown
  <2>10. \A q \in Requests : req'[q].pc \in LinkSteps /\ req'[q].account = e =>
            /\ req'[q].link \in DOMAIN links'
            /\ links'[req'[q].link].account = req'[q].account
    BY <2>1, <2>2, <2>3, <2>4 DEF LinksInv, LinksKnown, Mine
  <2>11. ASSUME "resets" \notin consoleNotes'[e]
         PROVE  LinksInTurn(e)'
    <3>1. LinksInTurn(e)
      BY <2>5, <2>11 DEF LinksInv
    <3>2. \A q \in Requests : req'[q].pc \in LinkSteps /\ req'[q].account = e => q = r
      BY <2>3, <2>5, <2>11 DEF Resetting, AtWork, Busy, LinkSteps
    <3>3. \A q, s \in Requests :
             /\ req'[q].pc \in LinkSteps /\ req'[s].pc \in LinkSteps
             /\ req'[q].account = e /\ req'[s].account = e
             => q = s
      BY <3>2
    <3>4. \A q \in Requests : req'[q].pc = "fgWrite" /\ req'[q].account = e => FALSE
      BY <2>3, <2>4, <3>2 DEF LinkSteps
    <3>5. \A q \in Requests : req'[q].pc = "rsWrite" /\ req'[q].account = e =>
             account'[e].token = req'[q].link
      BY <2>1, <2>3, <2>4, <3>2 DEF LinkSteps
    <3>6. /\ \A k \in Mine(e) : links'[k].used <= 1
          /\ Mine(e) = {} => account'[e].token = 0
          /\ Mine(e) # {} => \E k : /\ Newest(e, k)
                                    /\ account'[e].token = IF links'[k].used = 0 THEN k ELSE 0
      BY <2>1, <3>1 DEF LinksInTurn
    <3>7. \A k : Newest(e, k)' <=> Newest(e, k)
      BY <2>8 DEF Newest
    <3>8. QED
      BY <2>8, <3>3, <3>4, <3>5, <3>6, <3>7 DEF LinksInTurn
  <2>12. QED
    BY <1>t, <2>7, <2>9, <2>10, <2>11, LinksInvFrom
\* The two writes: whose link it is, and what becomes of the others.
<1>14. ASSUME NEW r \in Requests, NEW e, NEW t, e = req[r].account, t = req[r].link,
              FgWrite(r) \/ RsWrite(r)
       PROVE  LinksInv'
  <2>1. /\ req' = [req EXCEPT ![r] = Idle] /\ consoleNotes' = consoleNotes
        /\ req[r].pc \in LinkSteps
    BY <1>14 DEF FgWrite, RsWrite, End, Become, LinkSteps
  <2>2. /\ e \in Accounts /\ t \in DOMAIN links /\ links[t].account = e /\ t \in Nat /\ t # 0
    <3>1. e \in Accounts /\ t \in DOMAIN links /\ links[t].account = e
      BY <1>t, <1>14, <2>1, LinkHas DEF LinksInv, LinksKnown
    <3>2. QED
      BY <1>l, <3>1
  <2>3. \A q \in Requests : req'[q].pc \in LinkSteps => q # r /\ req'[q] = req[q]
    BY <1>t, <1>i, <2>1 DEF ReqOK
  <2>4. /\ DOMAIN links' = DOMAIN links
        /\ \A k \in DOMAIN links \ {t} : links'[k] = links[k]
        /\ \A f \in Accounts \ {e} : account'[f] = account[f]
    BY <1>t, <1>14, <2>2 DEF FgWrite, RsWrite
  <2>5. \A k \in DOMAIN links : links'[k].account = links[k].account
    <3>1. links[t] \in Link
      BY <1>l, <2>2
    <3>2. links'[t].account = links[t].account
      BY <1>14, <2>2, <3>1 DEF FgWrite, RsWrite, Link
    <3>3. QED
      BY <2>4, <3>2
  <2>6. \A f \in Accounts \ {e} : Untouched(f)
    <3>1. ASSUME NEW f \in Accounts \ {e}
          PROVE  Untouched(f)
      <4>1. \A k \in DOMAIN links : links[k].account = f => SameLink(k)
        BY <2>2, <2>4 DEF SameLink
      <4>2. QED
        BY <1>o, <2>1, <2>3, <2>4, <2>5, <4>1
    <3>2. QED
      BY <3>1
  <2>7. \A q \in Requests : req'[q].pc \in LinkSteps /\ req'[q].account = e =>
            /\ req'[q].link \in DOMAIN links'
            /\ links'[req'[q].link].account = req'[q].account
    <3>1. \A q \in Requests : req[q].pc \in LinkSteps =>
             req[q].link \in DOMAIN links /\ links[req[q].link].account = req[q].account
      BY DEF LinksInv, LinksKnown
    <3>2. QED
      BY <2>3, <2>4, <2>5, <3>1
  <2>8. "resets" \notin consoleNotes'[e] =>
           /\ LinksInTurn(e)
           /\ \A q \in Requests : req'[q].pc \in LinkSteps => req'[q].account # e
    <3>1. ASSUME "resets" \notin consoleNotes[e]
          PROVE  /\ LinksInTurn(e)
                 /\ \A q \in Requests : req'[q].pc \in LinkSteps => req'[q].account # e
      <4>1. LinksInTurn(e)
        BY <2>2, <3>1 DEF LinksInv
      <4>2. \A q \in Requests : req[q].pc \in LinkSteps /\ req[q].account = e => q = r
        BY <1>14, <2>1, <4>1 DEF LinksInTurn
      <4>3. QED
        BY <2>3, <4>1, <4>2
    <3>2. QED
      BY <2>1, <3>1
  <2>9. CASE FgWrite(r)
    <3>1. account' = [account EXCEPT ![e].token = t] /\ links' = [links EXCEPT ![t].stored = TRUE]
          /\ req[r].pc = "fgWrite" /\ req[r].account = e /\ req[r].link = t
      BY <1>14, <2>9 DEF FgWrite
    <3>2. account'[e].token = t
      <4>1. account[e] \in Account
        BY <1>t, <2>2
      <4>2. QED
        BY <1>t, <2>2, <3>1, <4>1 DEF Account
    <3>3. links'[t].stored = TRUE /\ links'[t].used = links[t].used
      <4>1. links[t] \in Link
        BY <1>l, <2>2
      <4>2. QED
        BY <2>2, <3>1, <4>1 DEF Link
    <3>4. Mine(e)' = Mine(e) \cup {t}
      BY <2>2, <2>4, <2>5, <3>3 DEF Mine
    <3>5. (account[e].token # 0 => account[e].token \in Mine(e))'
      BY <3>2, <3>4
    <3>6. ASSUME "resets" \notin consoleNotes'[e]
          PROVE  LinksInTurn(e)'
      <4>1. LinksInTurn(e)
        BY <2>8, <3>6
      <4>2. links[t].used = 0 /\ ~links[t].stored /\ \A s \in Mine(e) : s < t
        BY <3>1, <4>1 DEF LinksInTurn
      <4>3. \A s \in Mine(e) : s # t /\ s \in DOMAIN links /\ links'[s] = links[s] /\ s \in Nat
        BY <1>l, <2>4, <4>2 DEF Mine
      <4>4. \A k \in Mine(e) \cup {t} : links'[k].used <= 1
        BY <3>3, <4>1, <4>2, <4>3 DEF LinksInTurn
      <4>5. Newest(e, t)' /\ account'[e].token = IF links'[t].used = 0 THEN t ELSE 0
        <5>1. \A s \in Mine(e) \cup {t} : s <= t
          BY <2>2, <4>2, <4>3
        <5>2. QED
          BY <3>2, <3>3, <3>4, <4>2, <5>1 DEF Newest
      <4>6. \A q \in Requests : req'[q].pc \in LinkSteps => req'[q].account # e
        BY <2>8, <3>6
      <4>7. QED
        BY <3>4, <4>4, <4>5, <4>6 DEF LinksInTurn, LinkSteps
    <3>7. QED
      BY <1>t, <2>6, <2>7, <3>5, <3>6, LinksInvFrom
  <2>10. CASE RsWrite(r)
    <3>1. /\ account' = [account EXCEPT ![e].token = 0]
          /\ links' = [links EXCEPT ![t].used = links[t].used + 1]
          /\ req[r].pc = "rsWrite" /\ req[r].account = e /\ req[r].link = t
      BY <1>14, <2>10 DEF RsWrite
    <3>2. account'[e].token = 0
      <4>1. account[e] \in Account
        BY <1>t, <2>2
      <4>2. QED
        BY <1>t, <2>2, <3>1, <4>1 DEF Account
    <3>3. links'[t].stored = links[t].stored /\ links'[t].used = links[t].used + 1
      <4>1. links[t] \in Link
        BY <1>l, <2>2
      <4>2. QED
        BY <2>2, <3>1, <4>1 DEF Link
    <3>4. Mine(e)' = Mine(e)
      BY <2>2, <2>4, <2>5, <3>3 DEF Mine
    <3>5. (account[e].token # 0 => account[e].token \in Mine(e))'
      BY <3>2
    <3>6. ASSUME "resets" \notin consoleNotes'[e]
          PROVE  LinksInTurn(e)'
      <4>1. LinksInTurn(e)
        BY <2>8, <3>6
      <4>2. account[e].token = t
        BY <3>1, <4>1 DEF LinksInTurn
      <4>3. Mine(e) # {}
        BY <2>2, <4>1, <4>2 DEF LinksInTurn
      <4>4. Newest(e, t) /\ links[t].used = 0
        BY <2>2, <4>1, <4>2, <4>3 DEF LinksInTurn
      <4>5. \A s \in Mine(e) : s # t => links'[s] = links[s]
        BY <2>4 DEF Mine
      <4>6. links'[t].used = 1
        BY <3>3, <4>4
      <4>7. \A k \in Mine(e) : links'[k].used <= 1
        BY <4>1, <4>5, <4>6 DEF LinksInTurn
      <4>8. Newest(e, t)' /\ account'[e].token = IF links'[t].used = 0 THEN t ELSE 0
        BY <3>2, <3>4, <4>4, <4>6 DEF Newest
      <4>9. \A q \in Requests : req'[q].pc \in LinkSteps => req'[q].account # e
        BY <2>8, <3>6
      <4>10. QED
        BY <3>2, <3>4, <4>7, <4>8, <4>9 DEF LinksInTurn, LinkSteps
    <3>7. QED
      BY <1>t, <2>6, <2>7, <3>5, <3>6, LinksInvFrom
  <2>11. QED
    BY <1>14, <2>9, <2>10
<1>15. ASSUME ConsoleNext
       PROVE  LinksInv'
  <2>1. \/ \E r \in Requests : SignUpActs(r)
        \/ \E r \in Requests : CoName(r) \/ BrCreate(r) \/ BrRename(r) \/ BrRemove(r)
        \/ \E r \in Requests : \E e, t : /\ e = req[r].account /\ t = req[r].link
                                         /\ FgWrite(r) \/ RsWrite(r)
        \/ \E r \in Requests : ConsoleFault(r)
        \/ \E r \in Requests :
             \/ \E e \in Accounts : SignUp(r, e) \/ \E n \in Names : UpsertCompany(r, e, n)
             \/ \E o, c : BranchCreate(r, o, c)
             \/ \E i, c : BranchRename(r, i, c) \/ BranchRemove(r, i)
        \/ \E r \in Requests, e \in Accounts : Forgot(r, e)
        \/ \E r \in Requests, e \in Accounts, t \in DOMAIN links : ResetPassword(r, e, t)
        \/ \E e \in Accounts, blank \in BOOLEAN : UpsertOther(e, blank)
        \/ \E t \in DOMAIN links : Lapse(t)
    BY <1>15 DEF ConsoleNext, SignUpActs
  <2>2. QED
    BY <2>1, <1>6, <1>7, <1>8, <1>9, <1>10, <1>11, <1>12, <1>13, <1>14
<1>16. QED
  BY <1>1, <1>2, <1>3, <1>4, <1>5, <1>15 DEF Next

LEMMA LinksInvInit == Init => LinksInv
<1> SUFFICES ASSUME Init PROVE LinksInv
  OBVIOUS
<1>1. \A r \in Requests : req[r].pc = "idle"
  BY StepsOf DEF Init, HandlersInit
<1>2. links = << >> /\ \A e \in Accounts : account[e].token = 0
  BY DEF Init, ConsoleInit
<1>3. \A e \in Accounts : Mine(e) = {}
  BY <1>2 DEF Mine
<1>4. QED
  BY <1>1, <1>2, <1>3 DEF LinksInv, LinksKnown, LinksInTurn, LinkSteps

\* A link that forgotPassword has stored works once in resetPassword, and the newest
\* until it is used, unless requests about the account overlapped.
THEOREM LinksWorkOnce == Spec => []ResetLinkOnce
<1>1. Spec => []TInv
  BY TInvInit, TInvStep, PTL DEF Spec
<1>2. Spec => []LinksInv
  BY <1>1, LinksInvInit, LinksInvStep, PTL DEF Spec
<1>3. QED
  BY <1>1, <1>2, LinksOnce, PTL

-----------------------------------------------------------------------------
(* Parts: an update alone has emptied the kinds it has deleted; all others are *)
(* as promised, or empty and noted.                                            *)

UpdateSteps == {"partsDelete", "partsWrite"}
Empty(o, kind) == \A x \in Things : parts[o][kind][x] = 0
AsPromised(o, kind) ==
    \A x \in Things : parts[o][kind][x] = IF x \in promised[o][kind] THEN 1 ELSE 0
Settled(o, kind) == AsPromised(o, kind) \/ (Empty(o, kind) /\ kind \in menuNotes[o])
Deleted(r, kind) == kind \in DOMAIN req[r].ask \ req[r].left

OwnerInTurn(o) ==
    /\ \A r, s \in Requests :
          /\ req[r].pc \in UpdateSteps /\ req[s].pc \in UpdateSteps
          /\ req[r].item = o /\ req[s].item = o
          => r = s
    /\ \A r \in Requests : req[r].pc \in UpdateSteps /\ req[r].item = o =>
          \A kind \in Kinds : Deleted(r, kind) => Empty(o, kind)
    /\ \A kind \in Kinds :
          \/ Settled(o, kind)
          \/ \E r \in Requests : /\ req[r].pc \in UpdateSteps /\ req[r].item = o
                                 /\ Deleted(r, kind)

PartsInv == \A o \in Owners : "overlap" \notin menuNotes[o] => OwnerInTurn(o)

LEMMA PartsInvWhole == TInv /\ PartsInv => PartsWhole
<1> SUFFICES ASSUME TInv, PartsInv, NEW o \in items \cap Owners, "overlap" \notin menuNotes[o],
                    NEW kind \in KindsOf(o)
             PROVE  \/ parts[o][kind] = [x \in Things |-> IF x \in promised[o][kind] THEN 1 ELSE 0]
                    \/ /\ parts[o][kind] = [x \in Things |-> 0]
                       /\ \/ kind \in menuNotes[o]
                          \/ \E r \in Updating(o) : kind \in DOMAIN req[r].ask \ req[r].left
  BY DEF PartsWhole
<1>1. OwnerInTurn(o) /\ kind \in Kinds
  BY DEF PartsInv, KindsOf, Kinds
<1>2. parts[o][kind] \in [Things -> Nat]
  BY <1>1 DEF TInv, MenuTypeOK
<1>3. AsPromised(o, kind) =>
         parts[o][kind] = [x \in Things |-> IF x \in promised[o][kind] THEN 1 ELSE 0]
  BY <1>2 DEF AsPromised
<1>4. Empty(o, kind) => parts[o][kind] = [x \in Things |-> 0]
  BY <1>2 DEF Empty
<1>5. CASE Settled(o, kind)
  BY <1>3, <1>4, <1>5 DEF Settled
<1>6. CASE \E r \in Requests : /\ req[r].pc \in UpdateSteps /\ req[r].item = o
                               /\ Deleted(r, kind)
  <2>1. PICK r \in Requests : /\ req[r].pc \in UpdateSteps /\ req[r].item = o
                              /\ Deleted(r, kind)
    BY <1>6
  <2>2. Empty(o, kind)
    BY <1>1, <2>1 DEF OwnerInTurn
  <2>3. r \in Updating(o)
    BY <2>1 DEF Updating, Busy, UpdateSteps
  <2>4. QED
    BY <1>4, <2>1, <2>2, <2>3 DEF Deleted
<1>7. QED
  BY <1>1, <1>5, <1>6 DEF OwnerInTurn

\* An item and its updates are left alone.
LEMMA OwnerKept ==
    ASSUME PartsInv, NEW o \in Owners,
           "overlap" \notin menuNotes'[o] => "overlap" \notin menuNotes[o],
           \A kind \in Kinds : kind \in menuNotes[o] => kind \in menuNotes'[o],
           \A kind \in Kinds : /\ Empty(o, kind) => Empty(o, kind)'
                               /\ AsPromised(o, kind) => AsPromised(o, kind)',
           \A r \in Requests : \/ req[r].pc \in UpdateSteps /\ req[r].item = o
                               \/ req'[r].pc \in UpdateSteps /\ req'[r].item = o
                               => req'[r] = req[r]
    PROVE  "overlap" \notin menuNotes'[o] => OwnerInTurn(o)'
<1> SUFFICES ASSUME "overlap" \notin menuNotes'[o] PROVE OwnerInTurn(o)'
  OBVIOUS
<1>1. OwnerInTurn(o)
  BY DEF PartsInv
<1>2. \A r, s \in Requests :
          /\ req'[r].pc \in UpdateSteps /\ req'[s].pc \in UpdateSteps
          /\ req'[r].item = o /\ req'[s].item = o
          => r = s
  BY <1>1 DEF OwnerInTurn
<1>3. \A r \in Requests : req'[r].pc \in UpdateSteps /\ req'[r].item = o =>
          \A kind \in Kinds : Deleted(r, kind)' => Empty(o, kind)'
  BY <1>1 DEF OwnerInTurn, Deleted
<1>4. ASSUME NEW kind \in Kinds
      PROVE  \/ Settled(o, kind)'
             \/ \E r \in Requests : /\ req'[r].pc \in UpdateSteps /\ req'[r].item = o
                                    /\ Deleted(r, kind)'
  <2>1. Settled(o, kind) => Settled(o, kind)'
    BY DEF Settled
  <2>2. \A r \in Requests : req[r].pc \in UpdateSteps /\ req[r].item = o /\ Deleted(r, kind) =>
            req'[r].pc \in UpdateSteps /\ req'[r].item = o /\ Deleted(r, kind)'
    BY DEF Deleted
  <2>3. QED
    BY <1>1, <2>1, <2>2 DEF OwnerInTurn
<1>5. QED
  BY <1>2, <1>3, <1>4 DEF OwnerInTurn

LEMMA PartsInvStep == TInv /\ PartsInv /\ [Next]_vars => PartsInv'
<1> SUFFICES ASSUME TInv, PartsInv, [Next]_vars PROVE PartsInv'
  OBVIOUS
<1>t. ReqOK /\ MenuTypeOK
  BY DEF TInv
<1>0. ASSUME NEW others, Moves(others), others \cap MenuSteps = {}, UNCHANGED menuVars
      PROVE  PartsInv'
  <2>1. /\ \A q \in Requests : req[q].pc \in UpdateSteps => req'[q] = req[q]
        /\ \A q \in Requests : req'[q].pc \in UpdateSteps => req'[q] = req[q]
    <3>1. UpdateSteps \cap others = {} /\ "idle" \notin UpdateSteps
      BY <1>0 DEF UpdateSteps, MenuSteps
    <3>2. QED
      BY <1>0, <3>1, Elsewhere
  <2>2. UNCHANGED <<parts, promised, menuNotes>>
    BY <1>0 DEF menuVars
  <2>3. \A o \in Owners, kind \in Kinds : /\ Empty(o, kind) => Empty(o, kind)'
                                          /\ AsPromised(o, kind) => AsPromised(o, kind)'
    BY <2>2 DEF Empty, AsPromised
  <2>4. QED
    BY <2>1, <2>2, <2>3, OwnerKept DEF PartsInv
<1>1. CASE StaffNext /\ UNCHANGED <<consoleVars, menuVars, printerVars, reportVars>>
  BY <1>0, <1>1, StaffTypes, Apart
<1>2. CASE ConsoleNext /\ UNCHANGED <<staffVars, menuVars, printerVars, reportVars>>
  BY <1>0, <1>2, ConsoleTypes, Apart
<1>3. CASE PrinterNext /\ UNCHANGED <<staffVars, consoleVars, menuVars, reportVars>>
  BY <1>0, <1>3, PrinterTypes, Apart
<1>4. CASE ReportNext /\ UNCHANGED <<staffVars, consoleVars, menuVars, printerVars>>
  BY <1>0, <1>4, ReportTypes, Apart
<1>5. CASE UNCHANGED vars
  <2>1. Moves({})
    BY <1>5 DEF vars, handlerVars, Moves
  <2>2. UNCHANGED menuVars
    BY <1>5 DEF vars
  <2>3. QED
    BY <1>0, <2>1, <2>2
<1>6. ASSUME NEW r \in Requests, PartsDelete(r)
      PROVE  PartsInv'
  <2>1. PICK o, kind : o = req[r].item /\ kind = InOrder(req[r].left)
    OBVIOUS
  <2>2. /\ req[r] \in GoodUpdate /\ req[r].pc = "partsDelete" /\ req[r].pc \in UpdateSteps
        /\ o \in Owners /\ req[r].left \subseteq DOMAIN req[r].ask
        /\ DOMAIN req[r].ask \subseteq Kinds /\ req[r].left # {}
    BY <1>t, <1>6, <2>1, UpdateHas DEF PartsDelete, UpdateSteps
  <2>3. kind \in req[r].left /\ kind \in Kinds
    BY <2>1, <2>2, FirstKind
  <2>4. /\ parts' = [parts EXCEPT ![o][kind] = [x \in Things |-> 0]]
        /\ req' = [req EXCEPT ![r] =
              [req[r] EXCEPT !.left = @ \ {kind},
                             !.pc = IF req[r].left = {kind} THEN "partsWrite" ELSE @]]
        /\ promised' = promised /\ menuNotes' = menuNotes
    BY <1>6, <2>1 DEF PartsDelete, Become
  <2>5. /\ req'[r].pc \in UpdateSteps /\ req'[r].item = o
        /\ req'[r].ask = req[r].ask /\ req'[r].left = req[r].left \ {kind}
        /\ \A q \in Requests \ {r} : req'[q] = req[q]
    <3> DEFINE h == req[r]
               f == [h EXCEPT !.left = h.left \ {kind}]
               p == IF h.left = {kind} THEN "partsWrite" ELSE h.pc
               g == [f EXCEPT !.pc = p]
    <3>1. req'[r] = g /\ \A q \in Requests \ {r} : req'[q] = req[q]
      BY <1>t, <2>4 DEF ReqOK
    <3>2. p \in UpdateSteps
      BY <2>2 DEF UpdateSteps
    <3>3. h = [pc |-> h.pc, item |-> h.item, ask |-> h.ask, left |-> h.left]
      BY <2>2 DEF GoodUpdate, UpdateHandler
    <3> HIDE DEF h, p
    <3>4. f = [pc |-> h.pc, item |-> h.item, ask |-> h.ask, left |-> h.left \ {kind}]
      BY <3>3
    <3> HIDE DEF f
    <3>5. g = [pc |-> p, item |-> h.item, ask |-> h.ask, left |-> h.left \ {kind}]
      BY <3>4
    <3>6. QED
      BY <2>1, <3>1, <3>2, <3>5 DEF h
  <2>6. /\ \A x \in Things : parts'[o][kind][x] = 0
        /\ \A other \in Kinds \ {kind} : parts'[o][other] = parts[o][other]
        /\ \A q \in Owners \ {o} : parts'[q] = parts[q]
    BY <1>t, <2>2, <2>3, <2>4 DEF MenuTypeOK
  <2>7. ASSUME NEW q \in Owners \ {o}, "overlap" \notin menuNotes'[q]
        PROVE  OwnerInTurn(q)'
    <3>1. \A k \in Kinds : /\ Empty(q, k) => Empty(q, k)'
                           /\ AsPromised(q, k) => AsPromised(q, k)'
      BY <2>4, <2>6 DEF Empty, AsPromised
    <3>2. QED
      BY <2>1, <2>4, <2>5, <2>7, <3>1, OwnerKept
  <2>8. ASSUME "overlap" \notin menuNotes'[o]
        PROVE  OwnerInTurn(o)'
    <3>1. OwnerInTurn(o)
      BY <2>2, <2>4, <2>8 DEF PartsInv
    <3>2. \A q \in Requests : req'[q].pc \in UpdateSteps /\ req'[q].item = o => q = r
      BY <2>1, <2>2, <2>5, <3>1 DEF OwnerInTurn
    <3>3. \A k \in Kinds : Deleted(r, k)' <=> Deleted(r, k) \/ k = kind
      BY <2>2, <2>3, <2>5 DEF Deleted
    <3>4. Empty(o, kind)' /\ \A k \in Kinds \ {kind} : (Empty(o, k) => Empty(o, k)')
                                                       /\ (Settled(o, k) => Settled(o, k)')
      BY <2>4, <2>6 DEF Empty, Settled, AsPromised
    <3>5. \A k \in Kinds : Deleted(r, k)' => Empty(o, k)'
      BY <2>1, <2>2, <3>1, <3>3, <3>4 DEF OwnerInTurn
    <3>6. ASSUME NEW k \in Kinds
          PROVE  \/ Settled(o, k)'
                 \/ /\ req'[r].pc \in UpdateSteps /\ req'[r].item = o
                    /\ Deleted(r, k)'
      <4>1. CASE k = kind
        BY <2>5, <3>3, <4>1
      <4>2. CASE k # kind
        <5>1. \/ Settled(o, k)
              \/ \E q \in Requests : /\ req[q].pc \in UpdateSteps /\ req[q].item = o
                                     /\ Deleted(q, k)
          BY <3>1 DEF OwnerInTurn
        <5>2. \A q \in Requests : req[q].pc \in UpdateSteps /\ req[q].item = o => q = r
          BY <2>1, <2>2, <3>1 DEF OwnerInTurn
        <5>3. QED
          BY <2>5, <3>3, <3>4, <4>2, <5>1, <5>2
      <4>3. QED
        BY <4>1, <4>2
    <3>7. \A s, q \in Requests :
          /\ req'[s].pc \in UpdateSteps /\ req'[q].pc \in UpdateSteps
          /\ req'[s].item = o /\ req'[q].item = o
          => s = q
      BY <3>2
    <3>8. \A q \in Requests : req'[q].pc \in UpdateSteps /\ req'[q].item = o =>
             \A k \in Kinds : Deleted(q, k)' => Empty(o, k)'
      BY <3>2, <3>5
    <3>9. \A k \in Kinds : \/ Settled(o, k)'
                 \/ \E q \in Requests : /\ req'[q].pc \in UpdateSteps /\ req'[q].item = o
                                        /\ Deleted(q, k)'
      BY <3>6
    <3>10. QED
      BY <3>7, <3>8, <3>9 DEF OwnerInTurn
  <2>9. QED
    BY <2>7, <2>8 DEF PartsInv
\* A slot ends, or takes up something that is no update.
<1>e. ASSUME NEW r \in Requests, NEW h, req' = [req EXCEPT ![r] = h], h.pc \notin UpdateSteps
      PROVE  /\ \A q \in Requests \ {r} : req'[q] = req[q]
             /\ \A q \in Requests : req'[q].pc \in UpdateSteps => q # r /\ req'[q] = req[q]
  BY <1>t, <1>e DEF ReqOK
<1>i. Idle.pc \notin UpdateSteps
  BY DEF Idle, UpdateSteps
\* An update that was alone has ended.
<1>f. ASSUME NEW r \in Requests, NEW o \in Owners, req[r].pc \in UpdateSteps, req[r].item = o,
             req' = [req EXCEPT ![r] = Idle], OwnerInTurn(o), NEW N, N = menuNotes'[o],
             \A kind \in Kinds :
                \/ AsPromised(o, kind)'
                \/ /\ Empty(o, kind)' /\ kind \in N
      PROVE  OwnerInTurn(o)'
  <2>1. \A q \in Requests : req'[q].pc \in UpdateSteps => req'[q].item # o
    BY <1>e, <1>f, <1>i DEF OwnerInTurn
  <2>2. \A kind \in Kinds : Settled(o, kind)'
    BY <1>f DEF Settled
  <2>3. QED
    BY <2>1, <2>2 DEF OwnerInTurn
<1>7. ASSUME NEW r \in Requests, PartsWrite(r) \/ MenuFault(r)
      PROVE  PartsInv'
  <2>1. PICK o, q : o = req[r].item /\ q = req[r].ask
    OBVIOUS
  <2>2. /\ req[r] \in GoodUpdate /\ req[r].pc \in UpdateSteps /\ o \in Owners /\ q \in Requested
        /\ DOMAIN q \subseteq Kinds /\ "overlap" \notin Kinds
        /\ req[r].pc = "partsWrite" => req[r].left = {}
    <3>1. req[r].pc \in {"partsDelete", "partsWrite"}
      BY <1>7 DEF PartsWrite, MenuFault
    <3>2. QED
      BY <1>t, <2>1, <3>1, UpdateHas DEF UpdateSteps, Kinds
  <2>3. req' = [req EXCEPT ![r] = Idle]
    BY <1>7 DEF PartsWrite, MenuFault, End, Become, Throw
  <2>4. /\ \A p \in Owners \ {o} : /\ parts'[p] = parts[p] /\ promised'[p] = promised[p]
                                   /\ menuNotes'[p] = menuNotes[p]
        /\ "overlap" \in menuNotes[o] => "overlap" \in menuNotes'[o]
    <3>1. CASE PartsWrite(r)
      BY <1>t, <2>1, <2>2, <3>1 DEF PartsWrite, NoteItem, MenuTypeOK
    <3>2. CASE MenuFault(r)
      BY <1>t, <2>1, <2>2, <3>2 DEF MenuFault, NoteItem, MenuTypeOK
    <3>3. QED
      BY <1>7, <3>1, <3>2
  <2>5. ASSUME NEW p \in Owners \ {o}, "overlap" \notin menuNotes'[p]
        PROVE  OwnerInTurn(p)'
    <3>1. \A k \in Kinds : /\ Empty(p, k) => Empty(p, k)'
                           /\ AsPromised(p, k) => AsPromised(p, k)'
      BY <2>4 DEF Empty, AsPromised
    <3>2. \A s \in Requests : \/ req[s].pc \in UpdateSteps /\ req[s].item = p
                              \/ req'[s].pc \in UpdateSteps /\ req'[s].item = p
                              => req'[s] = req[s]
      BY <1>e, <1>i, <2>1, <2>3
    <3>3. QED
      BY <2>4, <2>5, <3>1, <3>2, OwnerKept
  <2>6. ASSUME "overlap" \notin menuNotes'[o]
        PROVE  OwnerInTurn(o)'
    <3>1. OwnerInTurn(o)
      BY <2>2, <2>4, <2>6 DEF PartsInv
    <3>2. \A k \in Kinds : k \in DOMAIN q \ req[r].left => Empty(o, k)
      BY <2>1, <2>2, <3>1 DEF OwnerInTurn, Deleted
    <3>3. \A k \in Kinds : Settled(o, k) \/ k \in DOMAIN q \ req[r].left
      BY <2>1, <2>2, <3>1 DEF OwnerInTurn, Deleted
    <3>4. CASE MenuFault(r) \/ (PartsWrite(r) /\ Rejected(o, q))
      <4>1. parts' = parts /\ promised' = promised
        BY <2>1, <3>4 DEF MenuFault, PartsWrite
      <4>2. menuNotes'[o] = menuNotes[o] \cup (DOMAIN q \ req[r].left)
        <5>1. NoteItem(o, DOMAIN q \ req[r].left)
          <6>1. CASE MenuFault(r)
            BY <2>1, <6>1 DEF MenuFault
          <6>2. CASE PartsWrite(r) /\ Rejected(o, q)
            <7>1. req[r].left = {}
              BY <2>2, <6>2 DEF PartsWrite
            <7>2. NoteItem(o, DOMAIN q)
              BY <2>1, <6>2 DEF PartsWrite
            <7>3. DOMAIN q \ {} = DOMAIN q
              OBVIOUS
            <7>4. QED
              BY <7>1, <7>2, <7>3
          <6>3. QED
            BY <3>4, <6>1, <6>2
        <5>2. QED
          BY <1>t, <2>2, <5>1 DEF NoteItem, MenuTypeOK
      <4>3. \A k \in Kinds : /\ Empty(o, k) => Empty(o, k)'
                             /\ AsPromised(o, k) => AsPromised(o, k)'
        BY <4>1 DEF Empty, AsPromised
      <4>4. \A k \in Kinds : \/ AsPromised(o, k)'
                             \/ (Empty(o, k)' /\ k \in menuNotes'[o])
        BY <3>2, <3>3, <4>2, <4>3 DEF Settled
      <4>5. QED
        BY <1>f, <2>1, <2>2, <2>3, <3>1, <4>4
    <3>5. CASE PartsWrite(r) /\ ~Rejected(o, q)
      <4>1. /\ parts' = [parts EXCEPT ![o] = [kind \in Kinds |->
                  IF kind \in DOMAIN q
                  THEN [x \in Things |-> @[kind][x] + IF x \in q[kind] THEN 1 ELSE 0]
                  ELSE @[kind]]]
            /\ promised' = [promised EXCEPT ![o] = [kind \in Kinds |->
                  IF kind \in DOMAIN q THEN q[kind] ELSE @[kind]]]
            /\ menuNotes' = [menuNotes EXCEPT ![o] = @ \ DOMAIN q]
        BY <2>1, <3>5 DEF PartsWrite
      <4>2. req[r].left = {}
        BY <2>2, <3>5 DEF PartsWrite
      <4>3. menuNotes'[o] = menuNotes[o] \ DOMAIN q
        BY <1>t, <2>2, <4>1 DEF MenuTypeOK
      <4>4. ASSUME NEW k \in Kinds, k \in DOMAIN q
            PROVE  AsPromised(o, k)'
        <5>1. \A x \in Things : parts'[o][k][x] = parts[o][k][x] + IF x \in q[k] THEN 1 ELSE 0
          BY <1>t, <2>2, <4>1, <4>4 DEF MenuTypeOK
        <5>2. promised'[o][k] = q[k]
          BY <1>t, <2>2, <4>1, <4>4 DEF MenuTypeOK
        <5>3. \A x \in Things : parts[o][k][x] = 0
          BY <3>2, <4>2, <4>4 DEF Empty
        <5>4. QED
          BY <5>1, <5>2, <5>3 DEF AsPromised
      <4>5. ASSUME NEW k \in Kinds, k \notin DOMAIN q
            PROVE  AsPromised(o, k)' \/ (Empty(o, k)' /\ k \in menuNotes'[o])
        <5>1. parts'[o][k] = parts[o][k] /\ promised'[o][k] = promised[o][k]
          BY <1>t, <2>2, <4>1, <4>5 DEF MenuTypeOK
        <5>2. AsPromised(o, k) \/ (Empty(o, k) /\ k \in menuNotes[o])
          BY <3>3, <4>5 DEF Settled
        <5>3. QED
          BY <4>3, <4>5, <5>1, <5>2 DEF AsPromised, Empty
      <4>6. \A k \in Kinds : \/ AsPromised(o, k)'
                             \/ (Empty(o, k)' /\ k \in menuNotes'[o])
        BY <4>4, <4>5
      <4>7. QED
        BY <1>f, <2>1, <2>2, <2>3, <3>1, <4>6
    <3>6. QED
      BY <1>7, <3>4, <3>5
  <2>7. QED
    BY <2>5, <2>6 DEF PartsInv
<1>8. ASSUME NEW r \in Requests, ItemRemove(r)
      PROVE  PartsInv'
  <2>1. PICK gone : gone = req[r].item
    OBVIOUS
  <2>2. /\ req' = [req EXCEPT ![r] = Idle] /\ menuNotes' = menuNotes
        /\ parts' = [o \in Owners |-> IF o = gone THEN NoParts
                    ELSE [kind \in Kinds |-> [parts[o][kind] EXCEPT ![gone] = 0]]]
        /\ promised' = [o \in Owners |-> [kind \in Kinds |->
                      IF o = gone THEN {} ELSE promised[o][kind] \ {gone}]]
        /\ req[r].pc = "itemRemove"
    BY <1>8, <2>1 DEF ItemRemove, End, Become
  <2>3. ASSUME NEW o \in Owners, NEW kind \in Kinds
        PROVE  /\ Empty(o, kind) => Empty(o, kind)'
               /\ AsPromised(o, kind) => AsPromised(o, kind)'
    <3>1. CASE o = gone
      <4>1. parts'[o][kind] = [x \in Things |-> 0] /\ promised'[o][kind] = {}
        BY <2>2, <3>1 DEF NoParts
      <4>2. QED
        BY <4>1 DEF Empty, AsPromised
    <3>2. CASE o # gone
      <4>1. /\ parts'[o][kind] = [parts[o][kind] EXCEPT ![gone] = 0]
            /\ promised'[o][kind] = promised[o][kind] \ {gone}
        BY <2>2, <3>2
      <4>2. DOMAIN parts[o][kind] = Things
        BY <1>t DEF MenuTypeOK
      <4>3. \A x \in Things : parts'[o][kind][x] = IF x = gone THEN 0 ELSE parts[o][kind][x]
        BY <4>1, <4>2
      <4>4. QED
        BY <4>1, <4>3 DEF Empty, AsPromised
    <3>3. QED
      BY <3>1, <3>2
  <2>4. \A q \in Requests : req[q].pc \in UpdateSteps \/ req'[q].pc \in UpdateSteps
                            => req'[q] = req[q]
    BY <1>e, <1>i, <2>2 DEF UpdateSteps
  <2>5. QED
    BY <2>2, <2>3, <2>4, OwnerKept DEF PartsInv
<1>9. ASSUME NEW r \in Requests, NEW o \in Owners, NEW q \in Requested, UpdateItem(r, o, q)
      PROVE  PartsInv'
  <2> DEFINE h == [pc |-> IF DOMAIN q = {} THEN "partsWrite" ELSE "partsDelete",
                   item |-> o, ask |-> q, left |-> DOMAIN q]
  <2>1. /\ req[r].pc = "idle" /\ req' = [req EXCEPT ![r] = h]
        /\ NoteItem(o, IF Updating(o) # {} THEN {"overlap"} ELSE {})
        /\ parts' = parts /\ promised' = promised
    BY <1>9, FreeIs DEF UpdateItem, Begin
  <2>2. /\ req'[r] = h /\ \A s \in Requests \ {r} : req'[s] = req[s]
        /\ req[r].pc \notin UpdateSteps
    BY <1>t, <2>1 DEF ReqOK, UpdateSteps
  <2>3. h.item = o /\ h.ask = q /\ h.left = DOMAIN q
    OBVIOUS
  <2> HIDE DEF h
  <2>4. /\ \A p \in Owners : menuNotes[p] \subseteq menuNotes'[p]
        /\ "overlap" \notin menuNotes'[o] => Updating(o) = {}
    BY <1>t, <2>1 DEF NoteItem, MenuTypeOK
  <2>5. \A p \in Owners, k \in Kinds : /\ Empty(p, k) => Empty(p, k)'
                                       /\ AsPromised(p, k) => AsPromised(p, k)'
    BY <2>1 DEF Empty, AsPromised
  <2>6. ASSUME NEW p \in Owners \ {o}, "overlap" \notin menuNotes'[p]
        PROVE  OwnerInTurn(p)'
    <3>1. \A s \in Requests : \/ req[s].pc \in UpdateSteps /\ req[s].item = p
                              \/ req'[s].pc \in UpdateSteps /\ req'[s].item = p
                              => req'[s] = req[s]
      BY <2>2, <2>3
    <3>2. QED
      BY <2>4, <2>5, <2>6, <3>1, OwnerKept
  <2>7. ASSUME "overlap" \notin menuNotes'[o]
        PROVE  OwnerInTurn(o)'
    <3>1. OwnerInTurn(o)
      BY <2>4, <2>7 DEF PartsInv
    <3>2. \A s \in Requests : ~(req[s].pc \in UpdateSteps /\ req[s].item = o)
      BY <2>4, <2>7 DEF Updating, Busy, UpdateSteps
    <3>3. \A s \in Requests : req'[s].pc \in UpdateSteps /\ req'[s].item = o => s = r
      BY <2>2, <3>2
    <3>4. \A k : ~Deleted(r, k)'
      BY <2>2, <2>3 DEF Deleted
    <3>5. \A k \in Kinds : Settled(o, k)'
      BY <2>4, <2>5, <3>1, <3>2 DEF OwnerInTurn, Settled
    <3>6. QED
      BY <3>3, <3>4, <3>5 DEF OwnerInTurn
  <2>8. QED
    BY <2>6, <2>7 DEF PartsInv
<1>10. ASSUME NEW x \in Rows,
              \/ \E r \in Requests : RemoveItem(r, x)
              \/ CreateItem(x)
       PROVE  PartsInv'
  <2>1. /\ parts' = parts /\ promised' = promised /\ menuNotes' = menuNotes
    BY <1>10 DEF RemoveItem, CreateItem, menuVars
  <2>2. \A q \in Requests : req[q].pc \in UpdateSteps \/ req'[q].pc \in UpdateSteps
                            => req'[q] = req[q]
    <3>1. CASE CreateItem(x)
      BY <3>1 DEF CreateItem
    <3>2. ASSUME NEW r \in Requests, RemoveItem(r, x)
          PROVE  \A q \in Requests : req[q].pc \in UpdateSteps \/ req'[q].pc \in UpdateSteps
                            => req'[q] = req[q]
      <4>1. /\ req[r].pc = "idle"
            /\ req' = [req EXCEPT ![r] = [pc |-> "itemRemove", item |-> x]]
        BY <3>2, FreeIs DEF RemoveItem, Begin
      <4>2. QED
        BY <1>e, <4>1 DEF UpdateSteps
    <3>3. QED
      BY <1>10, <3>1, <3>2
  <2>3. \A p \in Owners, k \in Kinds : /\ Empty(p, k) => Empty(p, k)'
                                       /\ AsPromised(p, k) => AsPromised(p, k)'
    BY <2>1 DEF Empty, AsPromised
  <2>4. QED
    BY <2>1, <2>2, <2>3, OwnerKept DEF PartsInv
<1>11. QED
  BY <1>1, <1>2, <1>3, <1>4, <1>5, <1>6, <1>7, <1>8, <1>9, <1>10 DEF Next, MenuNext

LEMMA PartsInvInit == Init => PartsInv
<1> SUFFICES ASSUME Init, NEW o \in Owners PROVE OwnerInTurn(o)
  BY DEF PartsInv
<1>1. \A r \in Requests : req[r].pc \notin UpdateSteps
  BY StepsOf DEF Init, HandlersInit, UpdateSteps
<1>2. \A kind \in Kinds : parts[o][kind] = [x \in Things |-> 0] /\ promised[o][kind] = {}
  BY DEF Init, MenuInit, NoParts
<1>3. \A kind \in Kinds : Settled(o, kind)
  BY <1>2 DEF Settled, AsPromised
<1>4. QED
  BY <1>1, <1>3 DEF OwnerInTurn

\* An update of a dish deletes the parts of one kind after the other and writes them
\* anew: in between, and after one that failed, a kind is whole or empty, and never
\* anything else unless updates of the dish overlapped.
THEOREM PartsStayWhole == Spec => []PartsWhole
<1>1. Spec => []TInv
  BY TInvInit, TInvStep, PTL DEF Spec
<1>2. Spec => []PartsInv
  BY <1>1, PartsInvInit, PartsInvStep, PTL DEF Spec
<1>3. QED
  BY <1>1, <1>2, PartsInvWhole, PTL

-----------------------------------------------------------------------------
(* Check-ins: where nothing is noted of a table and a user, one handler at most *)
(* is at work on the two, and their one row is still as the handler has read it. *)

ReadSteps == {"inSeen", "inAgain", "outWrite", "beatWrite"}
Ours(r, p, u) == req[r].pc \in SeatSteps /\ req[r].place = p /\ req[r].user = u
RowKnown(r) ==
    req[r].pc \in ReadSteps =>
        /\ req[r].row \in DOMAIN assignment
        /\ assignment[req[r].row].place = req[r].place
        /\ assignment[req[r].row].user = req[r].user
AsRead(r) ==
    /\ req[r].pc \in ReadSteps \ {"inAgain"} => assignment[req[r].row].state # "inactive"
    /\ req[r].pc = "inNew" => RowsOf(req[r].place, req[r].user) = {}
OneRow(p, u) == \A i, j \in RowsOf(p, u) : i = j
Told(p, u) ==
    /\ answer[<<p, u>>] = "in" <=> ActiveRows(p, u) # {}
    /\ \A i \in RowsOf(p, u) \ ActiveRows(p, u) : assignment[i].seen = "out"
Alone(p, u) == \A r, s \in Requests : Ours(r, p, u) /\ Ours(s, p, u) => r = s
Orderly(p, u) == /\ OneRow(p, u) /\ Told(p, u) /\ Alone(p, u)
                 /\ \A r \in Requests : Ours(r, p, u) => AsRead(r)

SeatsInv ==
    /\ \A r \in Requests : RowKnown(r)
    /\ \A p \in Places \ Branchless, u \in Users : OneRow(p, u)
    /\ \A p \in Places, u \in Users : staffNotes[<<p, u>>] = {} => Orderly(p, u)

LEMMA ReadIsSeat == ReadSteps \subseteq SeatSteps /\ "inNew" \in SeatSteps /\ "idle" \notin SeatSteps
  BY DEF ReadSteps, SeatSteps, InSteps, OutSteps, BeatSteps

\* The listings show the active rows.
LEMMA Listed ==
    ASSUME NEW p \in Places, NEW u \in Users
    PROVE  /\ p \in MyTables(u) <=> ActiveRows(p, u) # {}
           /\ ActiveRows(p, u) # {} => u \in TableStaff(p)
<1>1. ActiveRows(p, u) = {i \in OnDuty : assignment[i].place = p /\ assignment[i].user = u}
  BY DEF ActiveRows, RowsOf, OnDuty
<1>2. QED
  BY <1>1 DEF MyTables, TableStaff

LEMMA SeatsInvHolds == SeatsInv => CheckInsHold
<1> SUFFICES ASSUME SeatsInv, NEW p \in Places, NEW u \in Users
             PROVE  /\ p \notin Branchless => Cardinality(RowsOf(p, u)) <= 1
                    /\ Seating(p, u) = {} /\ staffNotes[<<p, u>>] = {} =>
                          /\ Cardinality(RowsOf(p, u)) <= 1
                          /\ answer[<<p, u>>] = "in" <=> p \in MyTables(u)
                          /\ answer[<<p, u>>] = "in" => u \in TableStaff(p)
                          /\ \A i \in RowsOf(p, u) \ ActiveRows(p, u) : assignment[i].seen = "out"
  BY DEF CheckInsHold
<1>1. ASSUME OneRow(p, u)
      PROVE  Cardinality(RowsOf(p, u)) <= 1
  <2>1. CASE RowsOf(p, u) = {}
    BY <2>1, FS_EmptySet
  <2>2. ASSUME NEW i \in RowsOf(p, u)
        PROVE  Cardinality(RowsOf(p, u)) <= 1
    <3>1. RowsOf(p, u) = {i}
      BY <1>1, <2>2 DEF OneRow
    <3>2. Cardinality({i}) = 1
      BY FS_Singleton
    <3>3. QED
      BY <3>1, <3>2
  <2>3. QED
    BY <2>1, <2>2
<1>2. QED
  BY <1>1, Listed DEF SeatsInv, Orderly, Told

\* The rows stay, and the slots stay, end, or read on.
LEMMA SeatsRead ==
    ASSUME SeatsInv, NEW r \in Requests, \A q \in Requests \ {r} : req'[q] = req[q],
           UNCHANGED <<assignment, answer, staffNotes>>,
           \/ req'[r].pc \notin SeatSteps
           \/ req'[r] = req[r]
           \/ /\ req[r].pc \in SeatSteps
              /\ req'[r].place = req[r].place /\ req'[r].user = req[r].user
              /\ RowKnown(r)' /\ AsRead(r)'
    PROVE  SeatsInv'
<1>1. ASSUME NEW q \in Requests
      PROVE  RowKnown(q)'
  BY <1>1, ReadIsSeat DEF SeatsInv, RowKnown
<1>2. ASSUME NEW p \in Places, NEW u \in Users
      PROVE  /\ OneRow(p, u) => OneRow(p, u)'
             /\ Told(p, u) => Told(p, u)'
  BY DEF OneRow, Told, RowsOf, ActiveRows
<1>3. ASSUME NEW q \in Requests, NEW p \in Places, NEW u \in Users, Ours(q, p, u)'
      PROVE  Ours(q, p, u) /\ (AsRead(q) => AsRead(q)')
  BY <1>3 DEF Ours, AsRead, RowsOf
<1>4. ASSUME NEW p \in Places, NEW u \in Users, staffNotes'[<<p, u>>] = {}
      PROVE  Orderly(p, u)'
  <2>1. Orderly(p, u)
    BY <1>4 DEF SeatsInv
  <2>2. Alone(p, u)'
    BY <1>3, <2>1 DEF Orderly, Alone
  <2>3. \A q \in Requests : Ours(q, p, u)' => AsRead(q)'
    BY <1>3, <2>1 DEF Orderly
  <2>4. QED
    BY <1>2, <2>1, <2>2, <2>3 DEF Orderly
<1>5. QED
  BY <1>1, <1>2, <1>4 DEF SeatsInv

\* The rows stay, and handlers at seats only end.
LEMMA SeatsKept ==
    ASSUME SeatsInv, UNCHANGED <<assignment, answer>>,
           \A x \in Places \X Users : staffNotes'[x] = {} => staffNotes[x] = {},
           \A q \in Requests : req'[q].pc \in SeatSteps => req'[q] = req[q]
    PROVE  SeatsInv'
<1>1. ASSUME NEW q \in Requests
      PROVE  RowKnown(q)'
  BY <1>1, ReadIsSeat DEF SeatsInv, RowKnown
<1>2. ASSUME NEW p \in Places, NEW u \in Users
      PROVE  /\ OneRow(p, u) => OneRow(p, u)'
             /\ Told(p, u) => Told(p, u)'
             /\ Alone(p, u) => Alone(p, u)'
  BY DEF OneRow, Told, Alone, RowsOf, ActiveRows, Ours
<1>3. ASSUME NEW q \in Requests, NEW p \in Places, NEW u \in Users, Ours(q, p, u)'
      PROVE  Ours(q, p, u) /\ (AsRead(q) => AsRead(q)')
  BY <1>3 DEF Ours, AsRead, RowsOf
<1>4. ASSUME NEW p \in Places, NEW u \in Users, staffNotes'[<<p, u>>] = {}
      PROVE  Orderly(p, u)'
  <2>1. Orderly(p, u)
    BY <1>4 DEF SeatsInv
  <2>2. \A q \in Requests : Ours(q, p, u)' => AsRead(q)'
    BY <1>3, <2>1 DEF Orderly
  <2>3. QED
    BY <1>2, <2>1, <2>2 DEF Orderly
<1>5. QED
  BY <1>1, <1>2, <1>4 DEF SeatsInv

\* A handler writes to its row: what it says of the row is so, if nothing is noted.
LEMMA SeatsWritten ==
    ASSUME TInv, SeatsInv, NEW r \in Requests, req[r].pc \in ReadSteps,
           NEW w, w.place = req[r].place, w.user = req[r].user,
           w.state \in {"active", "inactive"}, NEW s,
           req' = [req EXCEPT ![r] = Idle], staffNotes' = staffNotes,
           IF assignment[req[r].row].state = "gone"
           THEN UNCHANGED <<assignment, answer>>
           ELSE /\ assignment' = [assignment EXCEPT ![req[r].row] = w]
                /\ answer' = [answer EXCEPT ![<<req[r].place, req[r].user>>] = s],
           /\ staffNotes[<<req[r].place, req[r].user>>] = {}
           /\ assignment[req[r].row].state # "gone"
           => /\ s = "in" <=> w.state = "active"
              /\ w.state = "inactive" => w.seen = "out"
    PROVE  SeatsInv'
<1>t. ReqOK /\ StaffTypeOK
  BY DEF TInv
<1>1. /\ \A q \in Requests \ {r} : req'[q] = req[q]
      /\ req'[r].pc \notin SeatSteps
  BY <1>t, StepsOf, ReadIsSeat DEF ReqOK
<1>2. CASE assignment[req[r].row].state = "gone"
  BY <1>1, <1>2, SeatsRead
<1>3. CASE assignment[req[r].row].state # "gone"
  <2>1. PICK k, p, u : k = req[r].row /\ p = req[r].place /\ u = req[r].user
    OBVIOUS
  <2>2. /\ p \in Places /\ u \in Users /\ Ours(r, p, u)
        /\ k \in DOMAIN assignment /\ assignment[k].place = p /\ assignment[k].user = u
    BY <1>t, <2>1, ReadIsSeat, SeatHas DEF Ours, SeatsInv, RowKnown
  <2>3. /\ DOMAIN assignment' = DOMAIN assignment
        /\ assignment'[k] = w
        /\ \A i \in DOMAIN assignment \ {k} : assignment'[i] = assignment[i]
        /\ answer'[<<p, u>>] = s
        /\ \A x \in (Places \X Users) \ {<<p, u>>} : answer'[x] = answer[x]
    BY <1>t, <1>3, <2>1, <2>2 DEF StaffTypeOK
  <2>4. \A i \in DOMAIN assignment : /\ assignment'[i].place = assignment[i].place
                                     /\ assignment'[i].user = assignment[i].user
                                     /\ assignment'[i].state = "gone" <=> assignment[i].state = "gone"
    BY <1>3, <2>1, <2>2, <2>3
  <2>5. \A a \in Places, b \in Users : RowsOf(a, b)' = RowsOf(a, b)
    BY <2>3, <2>4 DEF RowsOf
  <2>6. ASSUME NEW q \in Requests
        PROVE  RowKnown(q)'
    BY <1>1, <2>3, <2>4, ReadIsSeat DEF SeatsInv, RowKnown
  <2>7. \A a \in Places, b \in Users : OneRow(a, b) => OneRow(a, b)'
    BY <2>5 DEF OneRow
  <2>8. ASSUME NEW a \in Places, NEW b \in Users, staffNotes[<<a, b>>] = {},
               a # p \/ b # u
        PROVE  Orderly(a, b)'
    <3>1. Orderly(a, b)
      BY <2>8 DEF SeatsInv
    <3>2. \A i \in RowsOf(a, b) : i \in DOMAIN assignment \ {k}
      BY <2>2, <2>8 DEF RowsOf
    <3>3. answer'[<<a, b>>] = answer[<<a, b>>]
      BY <2>3, <2>8
    <3>4. ActiveRows(a, b)' = ActiveRows(a, b)
      BY <2>3, <2>5, <3>2 DEF ActiveRows
    <3>5. Told(a, b)'
      BY <2>3, <2>5, <3>1, <3>2, <3>3, <3>4 DEF Orderly, Told
    <3>6. Alone(a, b)'
      BY <1>1, <3>1 DEF Orderly, Alone, Ours
    <3>7. ASSUME NEW q \in Requests, Ours(q, a, b)'
          PROVE  AsRead(q)'
      <4>1. req'[q] = req[q] /\ Ours(q, a, b)
        BY <1>1, <3>7 DEF Ours
      <4>2. AsRead(q)
        BY <3>1, <4>1 DEF Orderly
      <4>3. req[q].pc \in ReadSteps => req[q].row \in DOMAIN assignment \ {k}
        BY <2>2, <2>8, <4>1 DEF SeatsInv, RowKnown, Ours
      <4>4. RowsOf(req[q].place, req[q].user)' = RowsOf(req[q].place, req[q].user)
        BY <2>5, <4>1 DEF Ours
      <4>5. QED
        BY <2>3, <4>1, <4>2, <4>3, <4>4 DEF AsRead
    <3>8. QED
      BY <2>7, <3>1, <3>5, <3>6, <3>7 DEF Orderly
  <2>9. ASSUME staffNotes[<<p, u>>] = {}
        PROVE  Orderly(p, u)'
    <3>1. Orderly(p, u)
      BY <2>2, <2>9 DEF SeatsInv
    <3>2. RowsOf(p, u)' = {k}
      BY <1>3, <2>1, <2>2, <2>5, <3>1 DEF Orderly, OneRow, RowsOf
    <3>3. ActiveRows(p, u)' = {i \in {k} : w.state = "active"}
      BY <2>3, <3>2 DEF ActiveRows
    <3>4. Told(p, u)'
      BY <1>3, <2>1, <2>3, <2>9, <3>2, <3>3 DEF Told
    <3>5. \A q \in Requests : ~Ours(q, p, u)'
      BY <1>1, <2>2, <3>1 DEF Orderly, Alone, Ours
    <3>6. QED
      BY <2>2, <2>7, <3>1, <3>4, <3>5 DEF Orderly, Alone
  <2>10. QED
    BY <2>6, <2>7, <2>8, <2>9 DEF SeatsInv
<1>4. QED
  BY <1>2, <1>3

\* The user, or the table, is deleted: its rows go along.
LEMMA SeatsGone ==
    ASSUME TInv, SeatsInv, NEW S, Cascade(S), staffNotes' = staffNotes,
           \A q \in Requests : req'[q].pc \in SeatSteps => req'[q] = req[q]
    PROVE  SeatsInv'
<1>t. ReqOK /\ StaffTypeOK
  BY DEF TInv
<1>1. /\ DOMAIN assignment' = DOMAIN assignment
      /\ \A i \in DOMAIN assignment :
            assignment'[i] = IF <<assignment[i].place, assignment[i].user>> \in S
                             THEN [assignment[i] EXCEPT !.state = "gone"] ELSE assignment[i]
      /\ \A x \in Places \X Users : answer'[x] = IF x \in S THEN "none" ELSE answer[x]
  BY DEF Cascade
<1>2. \A i \in DOMAIN assignment :
         /\ assignment'[i].place = assignment[i].place
         /\ assignment'[i].user = assignment[i].user
         /\ assignment'[i].state = IF <<assignment[i].place, assignment[i].user>> \in S
                                   THEN "gone" ELSE assignment[i].state
  <2> SUFFICES ASSUME NEW i \in DOMAIN assignment
               PROVE  /\ assignment'[i].place = assignment[i].place
                      /\ assignment'[i].user = assignment[i].user
                      /\ assignment'[i].state = IF <<assignment[i].place, assignment[i].user>> \in S
                                                THEN "gone" ELSE assignment[i].state
    OBVIOUS
  <2>1. assignment[i] \in Assignment
    BY <1>t DEF StaffTypeOK
  <2>2. QED
    BY <1>1, <2>1 DEF Assignment
<1>3. ASSUME NEW a \in Places, NEW b \in Users
      PROVE  RowsOf(a, b)' = IF <<a, b>> \in S THEN {} ELSE RowsOf(a, b)
  <2>1. \A i \in DOMAIN assignment : i \in RowsOf(a, b)' <=> i \in RowsOf(a, b) /\ <<a, b>> \notin S
    BY <1>1, <1>2 DEF RowsOf
  <2>2. RowsOf(a, b)' \subseteq DOMAIN assignment /\ RowsOf(a, b) \subseteq DOMAIN assignment
    BY <1>1 DEF RowsOf
  <2>3. QED
    BY <2>1, <2>2
<1>4. ASSUME NEW a \in Places, NEW b \in Users, OneRow(a, b)
      PROVE  OneRow(a, b)'
  <2>1. RowsOf(a, b)' \subseteq RowsOf(a, b)
    BY <1>3
  <2>2. QED
    BY <1>4, <2>1 DEF OneRow
<1>5. ASSUME NEW q \in Requests
      PROVE  RowKnown(q)'
  <2>1. SUFFICES ASSUME req'[q].pc \in ReadSteps
                 PROVE  /\ req'[q].row \in DOMAIN assignment'
                        /\ assignment'[req'[q].row].place = req'[q].place
                        /\ assignment'[req'[q].row].user = req'[q].user
    BY DEF RowKnown
  <2>2. req'[q] = req[q]
    BY <2>1, ReadIsSeat
  <2>3. /\ req[q].row \in DOMAIN assignment
        /\ assignment[req[q].row].place = req[q].place
        /\ assignment[req[q].row].user = req[q].user
    BY <2>1, <2>2 DEF SeatsInv, RowKnown
  <2>4. QED
    BY <1>1, <1>2, <2>2, <2>3
<1>6. ASSUME NEW a \in Places, NEW b \in Users, staffNotes[<<a, b>>] = {}
      PROVE  Orderly(a, b)'
  <2>1. Orderly(a, b)
    BY <1>6 DEF SeatsInv
  <2>2. Told(a, b)'
    <3>1. CASE <<a, b>> \in S
      BY <1>1, <1>3, <3>1 DEF Told, ActiveRows
    <3>2. CASE <<a, b>> \notin S
      <4>1. RowsOf(a, b)' = RowsOf(a, b) /\ answer'[<<a, b>>] = answer[<<a, b>>]
        BY <1>1, <1>3, <3>2
      <4>2. \A i \in RowsOf(a, b) : assignment'[i] = assignment[i]
        BY <1>1, <3>2 DEF RowsOf
      <4>3. ActiveRows(a, b)' = ActiveRows(a, b)
        BY <4>1, <4>2 DEF ActiveRows
      <4>4. QED
        BY <2>1, <4>1, <4>2, <4>3 DEF Orderly, Told
    <3>3. QED
      BY <3>1, <3>2
  <2>3. Alone(a, b)'
    BY <2>1 DEF Orderly, Alone, Ours
  <2>4. ASSUME NEW q \in Requests, Ours(q, a, b)'
        PROVE  AsRead(q)'
    <3>1. req'[q] = req[q] /\ Ours(q, a, b)
      BY <2>4 DEF Ours
    <3>2. AsRead(q)
      BY <2>1, <3>1 DEF Orderly
    <3>3. req[q].pc \in ReadSteps \ {"inAgain"} => assignment'[req[q].row].state # "inactive"
      BY <1>2, <3>1, <3>2 DEF AsRead, SeatsInv, RowKnown
    <3>4. req[q].pc = "inNew" => RowsOf(req[q].place, req[q].user)' = {}
      BY <1>3, <3>1, <3>2 DEF AsRead, Ours
    <3>5. QED
      BY <3>1, <3>3, <3>4 DEF AsRead
  <2>5. QED
    BY <1>4, <2>1, <2>2, <2>3, <2>4 DEF Orderly
<1>7. QED
  BY <1>4, <1>5, <1>6 DEF SeatsInv

LEMMA SeatsInvStep == TInv /\ SeatsInv /\ [Next]_vars => SeatsInv'
<1> SUFFICES ASSUME TInv, SeatsInv, [Next]_vars PROVE SeatsInv'
  OBVIOUS
<1>t. ReqOK /\ StaffTypeOK
  BY DEF TInv
<1>i. Idle.pc \notin SeatSteps
  BY StepsOf, ReadIsSeat
\* A slot is given another handler, and the rows stay.
<1>s. ASSUME NEW r \in Requests, NEW h, req' = [req EXCEPT ![r] = h]
      PROVE  req'[r] = h /\ \A q \in Requests \ {r} : req'[q] = req[q]
  BY <1>t, <1>s DEF ReqOK
<1>o. ASSUME NEW r \in Requests, NEW h, req' = [req EXCEPT ![r] = h], h.pc \notin SeatSteps,
             UNCHANGED <<assignment, answer, staffNotes>>
      PROVE  SeatsInv'
  BY <1>s, <1>o, SeatsRead
<1>0. ASSUME NEW others, Moves(others), others \cap StaffSteps = {}, UNCHANGED staffVars
      PROVE  SeatsInv'
  <2>1. \A q \in Requests : req'[q].pc \in SeatSteps => req'[q] = req[q]
    <3>1. SeatSteps \cap others = {} /\ "idle" \notin SeatSteps
      BY <1>0, ReadIsSeat DEF StaffSteps
    <3>2. QED
      BY <1>0, <3>1, Elsewhere
  <2>2. UNCHANGED <<assignment, answer, staffNotes>>
    BY <1>0 DEF staffVars
  <2>3. QED
    BY <2>1, <2>2, SeatsKept
<1>1. CASE ConsoleNext /\ UNCHANGED <<staffVars, menuVars, printerVars, reportVars>>
  BY <1>0, <1>1, ConsoleTypes, Apart
<1>2. CASE MenuNext /\ UNCHANGED <<staffVars, consoleVars, printerVars, reportVars>>
  BY <1>0, <1>2, MenuTypes, Apart
<1>3. CASE PrinterNext /\ UNCHANGED <<staffVars, consoleVars, menuVars, reportVars>>
  BY <1>0, <1>3, PrinterTypes, Apart
<1>4. CASE ReportNext /\ UNCHANGED <<staffVars, consoleVars, menuVars, printerVars>>
  BY <1>0, <1>4, ReportTypes, Apart
<1>5. CASE UNCHANGED vars
  <2>1. Moves({})
    BY <1>5 DEF vars, handlerVars, Moves
  <2>2. UNCHANGED staffVars
    BY <1>5 DEF vars
  <2>3. QED
    BY <1>0, <2>1, <2>2
<1>6. ASSUME NEW r \in Requests, InTable(r) \/ InFind(r) \/ FindActive(r)
      PROVE  SeatsInv'
  <2>1. /\ req[r].pc \in {"inTable", "inFind", "outFind", "beatFind"}
        /\ UNCHANGED <<assignment, answer, staffNotes>>
    BY <1>6 DEF InTable, InFind, FindActive, staffVars
  <2>2. req[r] \in SeatHandler /\ req[r].pc \in SeatSteps
    BY <1>t, <2>1, SeatHas DEF SeatSteps, InSteps, OutSteps, BeatSteps
  <2>3. PICK p, u : p = req[r].place /\ u = req[r].user
    OBVIOUS
  <2>e. CASE End(r)
    BY <1>i, <1>o, <2>1, <2>e DEF End, Become
  <2>g. ASSUME NEW step \in {"inFind", "inNew"}, Goto(r, step),
               step = "inNew" => RowsOf(p, u) = {}
        PROVE  SeatsInv'
    <3> DEFINE h == [req[r] EXCEPT !.pc = step]
    <3>1. h = [pc |-> step, place |-> p, user |-> u, row |-> req[r].row]
      BY <2>2, <2>3, <2>g, SeatMoves DEF SeatSteps, InSteps
    <3>2. req'[r] = h /\ \A q \in Requests \ {r} : req'[q] = req[q]
      BY <1>s, <2>g DEF Goto, Become
    <3> HIDE DEF h
    <3>3. req'[r].pc = step /\ req'[r].place = p /\ req'[r].user = u
      BY <3>1, <3>2
    <3>4. RowsOf(p, u)' = RowsOf(p, u)
      BY <2>1 DEF RowsOf
    <3>5. RowKnown(r)' /\ AsRead(r)'
      BY <2>g, <3>3, <3>4 DEF RowKnown, AsRead, ReadSteps
    <3>6. QED
      BY <2>1, <2>2, <2>3, <3>2, <3>3, <3>5, SeatsRead
  <2>b. ASSUME NEW step \in ReadSteps, NEW i \in RowsOf(p, u),
               Become(r, [req[r] EXCEPT !.pc = step, !.row = i]),
               step # "inAgain" => assignment[i].state # "inactive"
        PROVE  SeatsInv'
    <3> DEFINE h == [req[r] EXCEPT !.pc = step, !.row = i]
    <3>1. i \in DOMAIN assignment /\ i \in Nat /\ assignment[i].place = p /\ assignment[i].user = u
      BY <1>t, <2>b DEF RowsOf, StaffTypeOK
    <3>0. step \in SeatSteps
      BY <2>b, ReadIsSeat
    <3>2. h = [pc |-> step, place |-> p, user |-> u, row |-> i]
      <4>1. ASSUME NEW g \in SeatHandler
            PROVE  [g EXCEPT !.pc = step, !.row = i]
                      = [pc |-> step, place |-> g.place, user |-> g.user, row |-> i]
        BY <3>0, <3>1, SeatMoves
      <4>2. QED
        BY <2>2, <2>3, <4>1
    <3>3. req'[r] = h /\ \A q \in Requests \ {r} : req'[q] = req[q]
      BY <1>s, <2>b DEF Become
    <3> HIDE DEF h
    <3>4. req'[r].pc = step /\ req'[r].place = p /\ req'[r].user = u /\ req'[r].row = i
      BY <3>2, <3>3
    <3>5. RowKnown(r)' /\ AsRead(r)'
      BY <2>1, <2>b, <3>1, <3>4 DEF RowKnown, AsRead, ReadSteps
    <3>6. QED
      BY <2>1, <2>2, <2>3, <3>3, <3>4, <3>5, SeatsRead
  <2>4. CASE InTable(r)
    BY <2>4, <2>e, <2>g DEF InTable
  <2>5. CASE InFind(r)
    <3> DEFINE next(i) == IF assignment[i].state = "active" THEN "inSeen" ELSE "inAgain"
    <3>1. CASE RowsOf(p, u) = {}
      BY <2>3, <2>5, <2>g, <3>1 DEF InFind
    <3>2. ASSUME NEW i \in RowsOf(p, u), Become(r, [req[r] EXCEPT !.pc = next(i), !.row = i])
          PROVE  SeatsInv'
      <4>1. next(i) \in ReadSteps
        BY DEF ReadSteps
      <4>2. next(i) # "inAgain" => assignment[i].state # "inactive"
        OBVIOUS
      <4> HIDE DEF next
      <4>3. QED
        BY <2>b, <3>2, <4>1, <4>2
    <3>3. QED
      BY <2>3, <2>5, <3>1, <3>2 DEF InFind
  <2>6. CASE FindActive(r)
    <3>1. \/ End(r)
          \/ \E i \in ActiveRows(p, u), step \in {"outWrite", "beatWrite"} :
                Become(r, [req[r] EXCEPT !.pc = step, !.row = i])
      BY <2>3, <2>6 DEF FindActive
    <3>2. ASSUME NEW i \in ActiveRows(p, u), NEW step \in {"outWrite", "beatWrite"},
                 Become(r, [req[r] EXCEPT !.pc = step, !.row = i])
          PROVE  SeatsInv'
      <4>1. i \in RowsOf(p, u) /\ assignment[i].state # "inactive" /\ step \in ReadSteps
        BY <3>2 DEF ActiveRows, ReadSteps
      <4>2. QED
        BY <2>b, <3>2, <4>1
    <3>3. QED
      BY <2>e, <3>1, <3>2
  <2>7. QED
    BY <1>6, <2>4, <2>5, <2>6
<1>7. ASSUME NEW r \in Requests, InSeen(r) \/ InAgain(r) \/ OutWrite(r) \/ BeatWrite(r)
      PROVE  SeatsInv'
  <2>1. PICK k, p, u : k = req[r].row /\ p = req[r].place /\ u = req[r].user
    OBVIOUS
  <2>2. /\ req[r].pc \in ReadSteps /\ req[r].pc \in SeatSteps
        /\ req' = [req EXCEPT ![r] = Idle] /\ staffNotes' = staffNotes
    BY <1>7, ReadIsSeat DEF InSeen, InAgain, OutWrite, BeatWrite, WriteRow, ReadSteps, End, Become
  <2>3. /\ p \in Places /\ u \in Users /\ Ours(r, p, u)
        /\ k \in DOMAIN assignment /\ assignment[k].place = p /\ assignment[k].user = u
        /\ assignment[k] \in Assignment
    BY <1>t, <2>1, <2>2, SeatHas DEF Ours, SeatsInv, RowKnown, StaffTypeOK
  <2>4. ASSUME staffNotes[<<p, u>>] = {}, assignment[k].state # "gone"
        PROVE  /\ req[r].pc # "inAgain" => assignment[k].state = "active"
               /\ assignment[k].state = "active" => answer[<<p, u>>] = "in"
    <3>1. Orderly(p, u)
      BY <2>3, <2>4 DEF SeatsInv
    <3>2. AsRead(r)
      BY <2>3, <3>1 DEF Orderly
    <3>3. k \in RowsOf(p, u)
      BY <2>3, <2>4 DEF RowsOf
    <3>4. assignment[k].state = "active" => k \in ActiveRows(p, u)
      BY <3>3 DEF ActiveRows
    <3>5. assignment[k].state \in {"active", "inactive", "gone"}
      BY <2>3 DEF Assignment
    <3>6. QED
      BY <2>1, <2>2, <2>4, <3>1, <3>2, <3>4, <3>5 DEF AsRead, Orderly, Told
  <2>5. ASSUME NEW w, NEW state \in {"active", "inactive"}, NEW seen, NEW s,
               w = [place |-> p, user |-> u, state |-> state, seen |-> seen],
               assignment[k].state # "gone",
               assignment' = [assignment EXCEPT ![k] = w],
               answer' = [answer EXCEPT ![<<p, u>>] = s],
               staffNotes[<<p, u>>] = {} => /\ s = "in" <=> state = "active"
                                            /\ state = "inactive" => seen = "out"
        PROVE  SeatsInv'
    <3>1. w.place = p /\ w.user = u /\ w.state = state /\ w.seen = seen
      BY <2>5
    <3>2. QED
      BY <2>1, <2>2, <2>5, <3>1, SeatsWritten
  <2>a. assignment[k] = [place |-> p, user |-> u, state |-> assignment[k].state,
                         seen |-> assignment[k].seen]
    BY <2>3 DEF Assignment
  <2>b. CASE assignment[k].state = "gone"
    <3>1. UNCHANGED <<assignment, answer>>
      BY <1>7, <2>1, <2>b DEF InSeen, InAgain, OutWrite, BeatWrite, WriteRow
    <3>2. QED
      BY <1>i, <1>o, <2>2, <3>1
  <2>c. CASE assignment[k].state # "gone"
    <3>c. assignment[k].state \in {"active", "inactive"}
      BY <2>c, <2>3 DEF Assignment
    <3>1. CASE InSeen(r)
      <4>1. /\ assignment' = [assignment EXCEPT ![k] = [assignment[k] EXCEPT !.seen = "in"]]
            /\ answer' = [answer EXCEPT ![<<p, u>>] = "in"]
            /\ req[r].pc = "inSeen"
        BY <2>1, <2>c, <3>1 DEF InSeen, WriteRow
      <4>2. PICK w : w = [place |-> p, user |-> u, state |-> assignment[k].state, seen |-> "in"]
        OBVIOUS
      <4>3. assignment' = [assignment EXCEPT ![k] = w]
        <5>1. [assignment[k] EXCEPT !.seen = "in"] = w
          BY <2>a, <4>2
        <5>2. QED
          BY <4>1, <5>1
      <4>4. QED
        BY <2>4, <2>5, <2>c, <3>c, <4>1, <4>2, <4>3
    <3>2. CASE InAgain(r)
      <4>1. /\ assignment' = [assignment EXCEPT ![k] =
                                 [assignment[k] EXCEPT !.state = "active", !.seen = "in"]]
            /\ answer' = [answer EXCEPT ![<<p, u>>] = "in"]
        BY <2>1, <2>c, <3>2 DEF InAgain, WriteRow
      <4>2. PICK w : w = [place |-> p, user |-> u, state |-> "active", seen |-> "in"]
        OBVIOUS
      <4>3. assignment' = [assignment EXCEPT ![k] = w]
        <5> DEFINE g == [assignment[k] EXCEPT !.state = "active"]
        <5>a. g = [place |-> p, user |-> u, state |-> "active", seen |-> assignment[k].seen]
          BY <2>a
        <5>b. [assignment[k] EXCEPT !.state = "active", !.seen = "in"] = [g EXCEPT !.seen = "in"]
          OBVIOUS
        <5> HIDE DEF g
        <5>1. [assignment[k] EXCEPT !.state = "active", !.seen = "in"] = w
          BY <4>2, <5>a, <5>b
        <5>2. QED
          BY <4>1, <5>1
      <4>4. QED
        BY <2>5, <2>c, <4>1, <4>2, <4>3
    <3>3. CASE OutWrite(r)
      <4>1. /\ assignment' = [assignment EXCEPT ![k] =
                                 [assignment[k] EXCEPT !.state = "inactive", !.seen = "out"]]
            /\ answer' = [answer EXCEPT ![<<p, u>>] = "out"]
        BY <2>1, <2>c, <3>3 DEF OutWrite, WriteRow
      <4>2. PICK w : w = [place |-> p, user |-> u, state |-> "inactive", seen |-> "out"]
        OBVIOUS
      <4>3. assignment' = [assignment EXCEPT ![k] = w]
        <5> DEFINE g == [assignment[k] EXCEPT !.state = "inactive"]
        <5>a. g = [place |-> p, user |-> u, state |-> "inactive", seen |-> assignment[k].seen]
          BY <2>a
        <5>b. [assignment[k] EXCEPT !.state = "inactive", !.seen = "out"] = [g EXCEPT !.seen = "out"]
          OBVIOUS
        <5> HIDE DEF g
        <5>1. [assignment[k] EXCEPT !.state = "inactive", !.seen = "out"] = w
          BY <4>2, <5>a, <5>b
        <5>2. QED
          BY <4>1, <5>1
      <4>4. QED
        BY <2>5, <2>c, <4>1, <4>2, <4>3
    <3>4. CASE BeatWrite(r)
      <4>1. /\ assignment' = [assignment EXCEPT ![k] = [assignment[k] EXCEPT !.seen = "beat"]]
            /\ answer' = [answer EXCEPT ![<<p, u>>] = answer[<<p, u>>]]
            /\ req[r].pc = "beatWrite"
        BY <2>1, <2>c, <3>4 DEF BeatWrite, WriteRow
      <4>2. PICK w : w = [place |-> p, user |-> u, state |-> assignment[k].state, seen |-> "beat"]
        OBVIOUS
      <4>3. assignment' = [assignment EXCEPT ![k] = w]
        <5>1. [assignment[k] EXCEPT !.seen = "beat"] = w
          BY <2>a, <4>2
        <5>2. QED
          BY <4>1, <5>1
      <4>4. QED
        BY <2>4, <2>5, <2>c, <3>c, <4>1, <4>2, <4>3
    <3>5. QED
      BY <1>7, <3>1, <3>2, <3>3, <3>4
  <2>6. QED
    BY <2>b, <2>c
<1>8. ASSUME NEW r \in Requests, InNew(r)
      PROVE  SeatsInv'
  <2>1. PICK p, u : p = req[r].place /\ u = req[r].user
    OBVIOUS
  <2>2. /\ req[r].pc = "inNew" /\ req[r].pc \in SeatSteps
        /\ req' = [req EXCEPT ![r] = Idle] /\ staffNotes' = staffNotes
    BY <1>8, ReadIsSeat DEF InNew, End, Become
  <2>3. p \in Places /\ u \in Users /\ Ours(r, p, u)
    BY <1>t, <2>1, <2>2, SeatHas DEF Ours
  <2>4. CASE Refused(p, u)
    <3>1. UNCHANGED <<assignment, answer>>
      BY <1>8, <2>1, <2>4 DEF InNew
    <3>2. QED
      BY <1>i, <1>o, <2>2, <3>1
  <2>5. CASE ~Refused(p, u)
    <3> DEFINE w == [place |-> p, user |-> u, state |-> "active", seen |-> "in"]
               n == Len(assignment) + 1
    <3>1. assignment' = Append(assignment, w) /\ answer' = [answer EXCEPT ![<<p, u>>] = "in"]
      BY <1>8, <2>1, <2>5 DEF InNew
    <3>2. w \in Assignment /\ w.place = p /\ w.user = u /\ w.state = "active"
      BY <2>3 DEF Assignment
    <3>3. assignment \in Seq(Assignment)
      BY <1>t DEF StaffTypeOK
    <3> HIDE DEF w
    <3>4. /\ Len(assignment) \in Nat /\ DOMAIN assignment = 1..Len(assignment)
          /\ DOMAIN assignment' = 1..n /\ assignment'[n] = w
          /\ \A i \in DOMAIN assignment : assignment'[i] = assignment[i]
      BY <3>1, <3>2, <3>3, SeqAdd
    <3>5. /\ n \notin DOMAIN assignment /\ DOMAIN assignment' = DOMAIN assignment \cup {n}
      BY <3>4
    <3> HIDE DEF n
    <3>6. /\ answer'[<<p, u>>] = "in"
          /\ \A x \in (Places \X Users) \ {<<p, u>>} : answer'[x] = answer[x]
      BY <1>t, <2>3, <3>1 DEF StaffTypeOK
    <3>7. \A a \in Places, b \in Users : a # p \/ b # u =>
             RowsOf(a, b)' = RowsOf(a, b) /\ ActiveRows(a, b)' = ActiveRows(a, b)
      BY <3>2, <3>4, <3>5 DEF RowsOf, ActiveRows
    <3>a. \A i : i \in RowsOf(p, u)' <=> i \in RowsOf(p, u) \/ i = n
      BY <3>2, <3>4, <3>5 DEF RowsOf
    <3>b. n \in ActiveRows(p, u)' /\ ActiveRows(p, u)' \subseteq RowsOf(p, u)'
      BY <3>2, <3>4, <3>a DEF ActiveRows
    <3>8. RowsOf(p, u) = {} => RowsOf(p, u)' = {n} /\ ActiveRows(p, u)' = {n}
      BY <3>a, <3>b
    <3>s. req'[r] = Idle /\ \A q \in Requests \ {r} : req'[q] = req[q]
      BY <1>s, <2>2
    <3>9. ASSUME NEW q \in Requests
          PROVE  RowKnown(q)'
      <4>1. SUFFICES ASSUME req'[q].pc \in ReadSteps PROVE RowKnown(q)'
        BY DEF RowKnown
      <4>2. req'[q] = req[q]
        BY <1>i, <3>s, <4>1, ReadIsSeat
      <4>3. RowKnown(q)
        BY DEF SeatsInv
      <4>4. QED
        BY <3>4, <3>5, <4>1, <4>2, <4>3 DEF RowKnown
    <3>10. ASSUME NEW a \in Places \ Branchless, NEW b \in Users
           PROVE  OneRow(a, b)'
      <4>1. CASE a = p /\ b = u
        <5>1. RowsOf(p, u) = {}
          BY <2>5, <4>1 DEF Refused
        <5>2. QED
          BY <3>8, <4>1, <5>1 DEF OneRow
      <4>2. CASE a # p \/ b # u
        BY <3>7, <4>2 DEF OneRow, SeatsInv
      <4>3. QED
        BY <4>1, <4>2
    <3>11. ASSUME staffNotes[<<p, u>>] = {}
           PROVE  Orderly(p, u)'
      <4>1. Orderly(p, u)
        BY <2>3, <3>11 DEF SeatsInv
      <4>2. RowsOf(p, u) = {}
        BY <2>1, <2>2, <2>3, <4>1 DEF Orderly, AsRead
      <4>3. \A q \in Requests : ~Ours(q, p, u)'
        BY <1>i, <2>3, <3>s, <4>1 DEF Orderly, Alone, Ours
      <4>4. OneRow(p, u)' /\ Told(p, u)'
        BY <3>6, <3>8, <4>2 DEF OneRow, Told
      <4>5. QED
        BY <4>3, <4>4 DEF Orderly, Alone
    <3>12. ASSUME NEW a \in Places, NEW b \in Users, a # p \/ b # u, staffNotes[<<a, b>>] = {}
           PROVE  Orderly(a, b)'
      <4>1. Orderly(a, b)
        BY <3>12 DEF SeatsInv
      <4>2. RowsOf(a, b)' = RowsOf(a, b) /\ ActiveRows(a, b)' = ActiveRows(a, b)
        BY <3>7, <3>12
      <4>3. \A i \in RowsOf(a, b) : assignment'[i] = assignment[i]
        BY <3>4 DEF RowsOf
      <4>4. OneRow(a, b)' /\ Told(a, b)'
        BY <3>6, <3>12, <4>1, <4>2, <4>3 DEF Orderly, OneRow, Told
      <4>5. \A q \in Requests : Ours(q, a, b)' => req'[q] = req[q] /\ Ours(q, a, b)
        BY <1>i, <3>s DEF Ours
      <4>6. ASSUME NEW q \in Requests, Ours(q, a, b)'
            PROVE  AsRead(q)'
        <5>1. req'[q] = req[q] /\ Ours(q, a, b) /\ AsRead(q)
          BY <4>1, <4>5, <4>6 DEF Orderly
        <5>2. req[q].pc \in ReadSteps => req[q].row \in DOMAIN assignment
          BY DEF SeatsInv, RowKnown
        <5>3. RowsOf(req[q].place, req[q].user)' = RowsOf(req[q].place, req[q].user)
          BY <4>2, <5>1 DEF Ours
        <5>4. QED
          BY <3>4, <5>1, <5>2, <5>3 DEF AsRead
      <4>7. QED
        BY <4>1, <4>4, <4>5, <4>6 DEF Orderly, Alone
    <3>13. QED
      BY <2>2, <3>9, <3>10, <3>11, <3>12 DEF SeatsInv
  <2>6. QED
    BY <2>4, <2>5
<1>9. ASSUME NEW r \in Requests, \/ UserCreate(r) \/ UserWrite(r) \/ ActiveWrite(r)
                                 \/ UserDelete(r) \/ StaffFault(r)
      PROVE  SeatsInv'
  <2>1. req' = [req EXCEPT ![r] = Idle] /\ staffNotes' = staffNotes
    BY <1>9 DEF UserCreate, UserWrite, ActiveWrite, UserDelete, StaffFault, End, Become, Throw,
                staffVars
  <2>2. UNCHANGED <<assignment, answer>> \/ Cascade(Places \X {req[r].user})
    BY <1>9 DEF UserCreate, UserWrite, ActiveWrite, UserDelete, StaffFault, staffVars
  <2>3. \A q \in Requests : req'[q].pc \in SeatSteps => req'[q] = req[q]
    BY <1>i, <1>s, <2>1
  <2>4. QED
    BY <1>i, <1>o, <2>1, <2>2, <2>3, SeatsGone
<1>10. ASSUME NEW r \in Requests, NEW u \in Users,
              \/ Register(r, u) \/ DeleteUser(r, u)
              \/ \E active \in BOOLEAN : Enable(r, u, active)
              \/ \E k \in Pins \cup {"none"} : ChangePin(r, u, k)
       PROVE  SeatsInv'
  <2>1. \E h : req' = [req EXCEPT ![r] = h] /\ h.pc \notin SeatSteps
    <3>1. {"userCreate", "userDelete", "activeWrite", "userWrite"} \cap SeatSteps = {}
      BY DEF SeatSteps, InSteps, OutSteps, BeatSteps
    <3>2. CASE Register(r, u)
      <4>1. req' = [req EXCEPT ![r] = [pc |-> "userCreate", user |-> u]]
        BY <3>2 DEF Register, Begin
      <4>2. [pc |-> "userCreate", user |-> u].pc \notin SeatSteps
        BY <3>1
      <4>3. QED
        BY <4>1, <4>2
    <3>3. CASE DeleteUser(r, u)
      <4>1. req' = [req EXCEPT ![r] = [pc |-> "userDelete", user |-> u]]
        BY <3>3 DEF DeleteUser, Begin
      <4>2. [pc |-> "userDelete", user |-> u].pc \notin SeatSteps
        BY <3>1
      <4>3. QED
        BY <4>1, <4>2
    <3>4. ASSUME NEW active \in BOOLEAN, Enable(r, u, active)
          PROVE  \E h : req' = [req EXCEPT ![r] = h] /\ h.pc \notin SeatSteps
      <4>1. req' = [req EXCEPT ![r] = [pc |-> "activeWrite", user |-> u, active |-> active]]
        BY <3>4 DEF Enable, Begin
      <4>2. [pc |-> "activeWrite", user |-> u, active |-> active].pc \notin SeatSteps
        BY <3>1
      <4>3. QED
        BY <4>1, <4>2
    <3>5. ASSUME NEW k, ChangePin(r, u, k)
          PROVE  \E h : req' = [req EXCEPT ![r] = h] /\ h.pc \notin SeatSteps
      <4>1. req' = [req EXCEPT ![r] = [pc |-> "userWrite", user |-> u, pin |-> k]]
        BY <3>5 DEF ChangePin, Begin
      <4>2. [pc |-> "userWrite", user |-> u, pin |-> k].pc \notin SeatSteps
        BY <3>1
      <4>3. QED
        BY <4>1, <4>2
    <3>6. QED
      BY <1>10, <3>2, <3>3, <3>4, <3>5
  <2>2. UNCHANGED <<assignment, answer, staffNotes>>
    BY <1>10 DEF Register, DeleteUser, Enable, ChangePin, staffVars
  <2>3. QED
    BY <1>o, <2>1, <2>2
<1>11. ASSUME NEW r \in Requests, NEW u \in Users, NEW k \in Pins, NEW p \in Places,
              CheckIn(r, k, p, u) \/ CheckOut(r, k, p, u) \/ Heartbeat(r, k, p, u)
       PROVE  SeatsInv'
  <2>1. PICK kind \in {"in", "out", "beat"}, step \in {"inTable", "outFind", "beatFind"} :
           Identify(r, kind, step, k, p, u)
    BY <1>11 DEF CheckIn, CheckOut, Heartbeat
  <2> DEFINE h == [pc |-> step, place |-> p, user |-> u, row |-> 0]
  <2>2. /\ req[r].pc = "idle" /\ req' = [req EXCEPT ![r] = h]
        /\ assignment' = assignment /\ answer' = answer
        /\ NoteSeats(IF Seating(p, u) # {} THEN {<<p, u>>} ELSE {}, "overlap")
    BY <2>1, FreeIs DEF Identify, Begin
  <2>3. req'[r] = h /\ \A q \in Requests \ {r} : req'[q] = req[q]
    BY <1>s, <2>2
  <2>4. h.pc = step /\ h.place = p /\ h.user = u
    OBVIOUS
  <2> HIDE DEF h
  <2>5. /\ \A x \in Places \X Users : staffNotes'[x] = {} => staffNotes[x] = {}
        /\ staffNotes'[<<p, u>>] = {} => Seating(p, u) = {}
    BY <1>t, <2>2 DEF NoteSeats
  <2>6. RowKnown(r)' /\ AsRead(r)'
    BY <2>3, <2>4 DEF RowKnown, AsRead, ReadSteps
  <2>7. ASSUME NEW q \in Requests
        PROVE  RowKnown(q)'
    BY <2>2, <2>3, <2>6 DEF SeatsInv, RowKnown
  <2>8. ASSUME NEW a \in Places, NEW b \in Users
        PROVE  /\ OneRow(a, b) => OneRow(a, b)'
               /\ Told(a, b) => Told(a, b)'
    BY <2>2 DEF OneRow, Told, RowsOf, ActiveRows
  <2>9. ASSUME NEW a \in Places, NEW b \in Users, staffNotes'[<<a, b>>] = {}
        PROVE  Orderly(a, b)'
    <3>1. Orderly(a, b)
      BY <2>5, <2>9 DEF SeatsInv
    <3>2. \A q \in Requests \ {r} : Ours(q, a, b)' => Ours(q, a, b) /\ (AsRead(q) => AsRead(q)')
      BY <2>2, <2>3 DEF Ours, AsRead, RowsOf
    <3>3. \A q \in Requests : Ours(q, a, b)' => AsRead(q)'
      BY <2>6, <3>1, <3>2 DEF Orderly
    <3>4. Ours(r, a, b)' => \A q \in Requests \ {r} : ~Ours(q, a, b)'
      <4>1. SUFFICES ASSUME Ours(r, a, b)', NEW q \in Requests \ {r}, Ours(q, a, b)' PROVE FALSE
        OBVIOUS
      <4>2. a = p /\ b = u
        BY <2>3, <2>4, <4>1 DEF Ours
      <4>3. q \in Seating(p, u)
        BY <3>2, <4>1, <4>2 DEF Ours, Seating, Busy
      <4>4. QED
        BY <2>5, <2>9, <4>2, <4>3
    <3>5. Alone(a, b)'
      BY <3>1, <3>2, <3>4 DEF Orderly, Alone
    <3>6. QED
      BY <2>8, <3>1, <3>3, <3>5 DEF Orderly
  <2>10. QED
    BY <2>7, <2>8, <2>9 DEF SeatsInv
<1>12. ASSUME NEW p \in Places, RemoveTable(p) \/ CreateTable(p)
       PROVE  SeatsInv'
  <2>1. /\ req' = req
        /\ \/ UNCHANGED <<assignment, answer>>
           \/ Cascade({p} \X Users) /\ staffNotes' = staffNotes
        /\ staffNotes' = staffNotes \/ NoteSeats({p} \X Users, "orphan")
    BY <1>12 DEF RemoveTable, CreateTable
  <2>2. \A x \in Places \X Users : staffNotes'[x] = {} => staffNotes[x] = {}
    BY <1>t, <2>1 DEF NoteSeats
  <2>3. QED
    BY <2>1, <2>2, SeatsKept, SeatsGone
<1>13. QED
  BY <1>1, <1>2, <1>3, <1>4, <1>5, <1>6, <1>7, <1>8, <1>9, <1>10, <1>11, <1>12
  DEF Next, StaffNext

LEMMA SeatsInvInit == Init => SeatsInv
<1> SUFFICES ASSUME Init PROVE SeatsInv
  OBVIOUS
<1>1. \A r \in Requests : req[r].pc \notin SeatSteps
  BY StepsOf, ReadIsSeat DEF Init, HandlersInit
<1>2. \A p \in Places, u \in Users : RowsOf(p, u) = {} /\ ActiveRows(p, u) = {} /\ answer[<<p, u>>] = "none"
  BY DEF Init, StaffInit, RowsOf, ActiveRows
<1>3. QED
  BY <1>1, <1>2, ReadIsSeat DEF SeatsInv, RowKnown, Orderly, OneRow, Told, Alone, Ours

\* checkIn, checkOut and heartbeat write to a row that they have read before: what
\* they report is so, for everyone who waits for an answer before asking again.
THEOREM SeatsHold == Spec => []CheckInsHold
<1>1. Spec => []TInv
  BY TInvInit, TInvStep, PTL DEF Spec
<1>2. Spec => []SeatsInv
  BY <1>1, SeatsInvInit, SeatsInvStep, PTL DEF Spec
<1>3. QED
  BY <1>2, SeatsInvHolds, PTL

-----------------------------------------------------------------------------
(* Sign-ups: a sign-up makes one part after the other and has all that it has *)
(* counted, and nobody else touches what it has made but who edits it.        *)

PartSteps == {"suDishProbe", "suDish", "suTable"}
PastUser == SignUpSteps \ {"suUser"}
NameSteps == {"suCompany", "coName"}

Noted(e, whys) == consoleNotes[e] \cap whys # {}

\* The branches of S are the first k that account e has asked for.
Stands(e, k, S) ==
    /\ Cardinality(S) = k
    /\ \A i \in S : Cardinality(DishesOf(i)) = SignUps[e].dishes
    /\ {branches[i].tables : i \in S} = {ToSet(SignUps[e].tables[j]) : j \in 1..k}

\* The branch that handler h is making has the dishes and tables h has counted.
HasPart(h) ==
    /\ h.branch \in Owned(h.account)
    /\ Cardinality(DishesOf(h.branch)) = h.dish
    /\ branches[h.branch].tables = {SignUps[h.account].tables[h.at][j] : j \in 1..h.tab}
    /\ Stands(h.account, h.at - 1, Owned(h.account) \ {h.branch})

\* What a sign-up has made so far.
Made(h) ==
    /\ h.pc # "suCompany" => company[h.account] # "none"
    /\ h.pc = "suCompany" => Owned(h.account) = {}
    /\ h.pc \in {"suProbe", "suBranch"} => Stands(h.account, h.at - 1, Owned(h.account))
    /\ h.pc \in PartSteps => HasPart(h)

\* The rows a handler writes are there.
WriterOK(r) ==
    /\ req[r].pc \in PastUser \cup {"coName"} =>
          req[r].account \in Accounts /\ account[req[r].account].row = "here"
    /\ req[r].pc \in PartSteps => /\ req[r].branch \in DOMAIN branches
                                  /\ branches[req[r].branch].signer = req[r].account
    /\ req[r].pc = "brRemove" =>
          /\ req[r].branch \in DOMAIN branches
          /\ \A e \in Accounts :
                branches[req[r].branch].signer = e => Noted(e, {"edited"})

Single == \A r, s \in Requests :
             /\ req[r].pc \in PastUser /\ req[s].pc \in PastUser
             /\ req[r].account = req[s].account
             => r = s

\* A customer without an account has nothing.
NoRow(e) == account[e].row = "none" =>
               company[e] = "none" /\ \A i \in DOMAIN branches : branches[i].signer # e

Writers ==
    /\ Single
    /\ \A r \in Requests : WriterOK(r)
    /\ \A e \in Accounts : NoRow(e)

\* An account whose branches nobody removes.
SignUpInTurn(e) ==
    ~Noted(e, {"edited"}) =>
        /\ \A r \in AtWork(PastUser, e) : Made(req[r])
        /\ account[e].row = "here" /\ AtWork(PastUser, e) = {} =>
              Whole(e) \/ Noted(e, {"failed", "fault"})

\* An account that no other sign-up and no edit of a branch has overlapped.
AloneAt(e) ==
    ~Noted(e, {"overlap"}) =>
        \A r \in AtWork(SignUpSteps, e) :
            /\ \A q \in Requests \ {r} : req[q].pc \notin SignUpSteps \cup {"brCreate", "brRename"}
            /\ req[r].pc = "suBranch" => ~Taken(req[r].n)

RefusedFor(e) ==
    Noted(e, {"failed"}) => Repeats(e) \/ Noted(e, {"overlap", "edited", "renames"})

\* The codes of dishes, while no two sign-ups have overlapped.
CodesApart ==
    (\A e \in Accounts : ~Noted(e, {"overlap"})) =>
        /\ \A j, k \in DOMAIN dishes : dishes[j].code = dishes[k].code => j = k
        /\ \A r \in Requests : req[r].pc = "suDish" =>
              \A k \in DOMAIN dishes : dishes[k].code # req[r].n

\* The name on an account, when no two have written it at a time.
NameInTurn(e) ==
    ~Noted(e, {"renames"}) =>
        /\ \A r, s \in AtWork(NameSteps, e) : r = s
        /\ \A r \in AtWork({"suCompany"}, e) :
              company[e] = "none" /\ account[e].name = SignUps[e].name
        /\ \A r \in AtWork({"coName"}, e) : company[e] \in {req[r].name, ""}
        /\ account[e].row = "here" /\ AtWork(NameSteps, e) = {} =>
              \/ account[e].name = company[e]
              \/ company[e] = ""
              \/ Noted(e, {"fault"})

\* A dish is of a branch that there is, or of none.
DishesPlaced == \A k \in DOMAIN dishes : dishes[k].branch \in DOMAIN branches \cup {0}

SignUpInv ==
    /\ Writers
    /\ DishesPlaced
    /\ CodesApart
    /\ \A e \in Accounts : SignUpInTurn(e) /\ AloneAt(e) /\ RefusedFor(e) /\ NameInTurn(e)

\* Rows and notes only come.
Grows ==
    /\ \A e \in Accounts : /\ account[e].row = "here" => account'[e].row = "here"
                           /\ company[e] # "none" => company'[e] # "none"
                           /\ consoleNotes[e] \subseteq consoleNotes'[e]
    /\ \A i \in DOMAIN branches : /\ i \in DOMAIN branches'
                                  /\ branches'[i].signer = branches[i].signer

\* The rows as sequences.
LEMMA ConsoleRows ==
    ASSUME ConsoleTypeOK
    PROVE  /\ branches \in Seq(Branch) /\ dishes \in Seq(Dish)
           /\ DOMAIN branches = 1..Len(branches) /\ Len(branches) \in Nat
           /\ DOMAIN dishes = 1..Len(dishes) /\ Len(dishes) \in Nat
           /\ \A i \in DOMAIN branches : branches[i] \in Branch
           /\ \A k \in DOMAIN dishes : dishes[k] \in Dish
           /\ account \in [Accounts -> Account]
           /\ company \in [Accounts -> Names \cup {"none", ""}]
<1>1. branches \in Seq(Branch) /\ dishes \in Seq(Dish)
  BY DEF ConsoleTypeOK
<1>2. DOMAIN branches = 1..Len(branches) /\ Len(branches) \in Nat
  BY <1>1
<1>3. DOMAIN dishes = 1..Len(dishes) /\ Len(dishes) \in Nat
  BY <1>1
<1>4. \A i \in DOMAIN branches : branches[i] \in Branch
  BY <1>1
<1>5. \A k \in DOMAIN dishes : dishes[k] \in Dish
  BY <1>1
<1>6. QED
  BY <1>1, <1>2, <1>3, <1>4, <1>5 DEF ConsoleTypeOK

\* A row added, and a row changed in its place.
LEMMA BranchAdded ==
    ASSUME ConsoleTypeOK, NEW b \in Branch, branches' = Append(branches, b)
    PROVE  /\ DOMAIN branches' = DOMAIN branches \cup {Len(branches) + 1}
           /\ Len(branches) + 1 \notin DOMAIN branches
           /\ branches'[Len(branches) + 1] = b
           /\ \A i \in DOMAIN branches : branches'[i] = branches[i]
<1>1. branches \in Seq(Branch)
  BY DEF ConsoleTypeOK
<1>2. /\ DOMAIN branches = 1..Len(branches) /\ Len(branches) \in Nat
      /\ DOMAIN branches' = 1..(Len(branches) + 1)
      /\ branches'[Len(branches) + 1] = b
      /\ \A i \in DOMAIN branches : branches'[i] = branches[i]
  BY <1>1, SeqAdd
<1>3. QED
  BY <1>2

LEMMA DishAdded ==
    ASSUME ConsoleTypeOK, NEW d \in Dish, dishes' = Append(dishes, d)
    PROVE  /\ DOMAIN dishes' = DOMAIN dishes \cup {Len(dishes) + 1}
           /\ Len(dishes) + 1 \notin DOMAIN dishes
           /\ dishes'[Len(dishes) + 1] = d
           /\ \A k \in DOMAIN dishes : dishes'[k] = dishes[k]
<1>1. dishes \in Seq(Dish)
  BY DEF ConsoleTypeOK
<1>2. /\ DOMAIN dishes = 1..Len(dishes) /\ Len(dishes) \in Nat
      /\ DOMAIN dishes' = 1..(Len(dishes) + 1)
      /\ dishes'[Len(dishes) + 1] = d
      /\ \A k \in DOMAIN dishes : dishes'[k] = dishes[k]
  BY <1>1, SeqAdd
<1>3. QED
  BY <1>2

\* What one column of one branch is set to.
LEMMA BranchSet ==
    ASSUME ConsoleTypeOK, NEW i, NEW b, branches' = [branches EXCEPT ![i] = b]
    PROVE  /\ DOMAIN branches' = DOMAIN branches
           /\ i \in DOMAIN branches => branches'[i] = b
           /\ \A j \in DOMAIN branches \ {i} : branches'[j] = branches[j]
  OBVIOUS

\* Where GoOn leads the handler in its slot.
LEMMA WentOn ==
    ASSUME ReqOK, NEW r \in Requests, NEW g \in SignUpHandler, Between(g),
           req' = [req EXCEPT ![r] = GoOn(g)]
    PROVE  /\ \A q \in Requests \ {r} : req'[q] = req[q]
           /\ \/ /\ req'[r].pc = "idle"
                 /\ g.at = Len(SignUps[g.account].tables) /\ Complete(g)
              \/ /\ req'[r].account = g.account
                 /\ req'[r].pc \in {"suDishProbe", "suTable"}
                 /\ g.at > 0 /\ req'[r].at = g.at /\ req'[r].branch = g.branch
                 /\ req'[r].dish = g.dish /\ req'[r].tab = g.tab
              \/ /\ req'[r].account = g.account
                 /\ req'[r].pc = "suProbe" /\ Complete(g) /\ req'[r].at = g.at + 1
<1>1. req'[r] = GoOn(g) /\ \A q \in Requests \ {r} : req'[q] = req[q]
  BY DEF ReqOK
<1>2. Idle.pc = "idle"
  BY DEF Idle
<1>3. QED
  BY <1>1, <1>2, GoesOn

LEMMA Ended ==
    ASSUME ReqOK, NEW r \in Requests, req' = [req EXCEPT ![r] = Idle]
    PROVE  req'[r].pc = "idle" /\ \A q \in Requests \ {r} : req'[q] = req[q]
  BY DEF ReqOK, Idle

\* A sign-up that throws.
Fails(r) ==
    /\ req'[r].pc = "idle"
    /\ UNCHANGED <<account, company, branches, dishes>>
    /\ Note({req[r].account}, "failed")

Others(r) == \A q \in Requests \ {r} : req'[q] = req[q]

\* What the steps of a sign-up do, where they lead, and what they leave.
LEMMA UserDoes ==
    ASSUME TInv, NEW r \in Requests, SuUser(r)
    PROVE  LET e == req[r].account IN
           /\ req[r].pc = "suUser" /\ e \in Accounts /\ Others(r)
           /\ UNCHANGED <<company, branches, dishes, consoleNotes>>
           /\ \/ req'[r].pc = "idle" /\ account' = account
              \/ /\ account[e].row = "none"
                 /\ account'[e].row = "here" /\ account'[e].name = SignUps[e].name
                 /\ \A f \in Accounts \ {e} : account'[f] = account[f]
                 /\ req'[r].pc = "suCompany" /\ req'[r].account = e
<1> DEFINE e == req[r].account
<1>1. req[r].pc = "suUser" /\ req[r].pc \in SignUpSteps /\ ReqOK /\ ConsoleTypeOK
  BY DEF SuUser, SignUpSteps, TInv
<1>2. req[r] \in SignUpHandler /\ e \in Accounts
  BY <1>1, SignUpHas
<1>3. UNCHANGED <<company, branches, dishes, consoleNotes>>
  BY DEF SuUser
<1>4. CASE account[e].row = "here"
  <2>1. account' = account /\ req' = [req EXCEPT ![r] = Idle]
    BY <1>4 DEF SuUser, End, Become
  <2>2. QED
    BY <1>1, <1>2, <1>3, <2>1, Ended DEF Others
<1>5. CASE account[e].row # "here"
  <2>1. /\ account' = [account EXCEPT ![e].row = "here", ![e].name = SignUps[e].name]
        /\ req' = [req EXCEPT ![r] = [req[r] EXCEPT !.pc = "suCompany"]]
    BY <1>5 DEF SuUser, Goto, Become
  <2>2. account \in [Accounts -> Account] /\ account[e] \in Account
    BY <1>1, <1>2 DEF ConsoleTypeOK
  <2>3. account[e].row = "none"
    BY <1>5, <2>2 DEF Account
  <2>4. /\ account'[e].row = "here" /\ account'[e].name = SignUps[e].name
        /\ \A f \in Accounts \ {e} : account'[f] = account[f]
    BY <1>2, <2>1, <2>2 DEF Account
  <2>5. "suCompany" \in SignUpSteps
    BY DEF SignUpSteps
  <2>6. /\ [req[r] EXCEPT !.pc = "suCompany"].pc = "suCompany"
        /\ [req[r] EXCEPT !.pc = "suCompany"].account = e
    BY <1>2, <2>5, SignUpSet
  <2>7. req'[r].pc = "suCompany" /\ req'[r].account = e /\ Others(r)
    BY <1>1, <2>1, <2>6 DEF ReqOK, Others
  <2>8. QED
    BY <1>1, <1>2, <1>3, <2>3, <2>4, <2>7
<1>6. QED
  BY <1>4, <1>5

LEMMA FailsDoes ==
    ASSUME TInv, NEW r \in Requests, SignUpFails(r)
    PROVE  Others(r) /\ req'[r].pc = "idle" /\ Note({req[r].account}, "failed")
<1>1. req' = [req EXCEPT ![r] = Idle] /\ Note({req[r].account}, "failed") /\ ReqOK
  BY DEF SignUpFails, End, Become, TInv
<1>2. QED
  BY <1>1, Ended DEF Others

LEMMA CompanyDoes ==
    ASSUME TInv, NEW r \in Requests, SuCompany(r)
    PROVE  LET e == req[r].account IN
           /\ req[r].pc = "suCompany" /\ e \in Accounts /\ Others(r)
           /\ UNCHANGED <<account, branches, dishes>>
           /\ \/ company[e] # "none" /\ Fails(r)
              \/ /\ company[e] = "none"
                 /\ company' = [company EXCEPT ![e] = SignUps[e].name]
                 /\ consoleNotes' = consoleNotes
                 /\ \/ req'[r].pc = "idle" /\ Len(SignUps[e].tables) = 0
                    \/ req'[r].pc = "suProbe" /\ req'[r].account = e /\ req'[r].at = 1
<1> DEFINE e == req[r].account
<1>1. req[r].pc = "suCompany" /\ req[r].pc \in SignUpSteps /\ ReqOK
  BY DEF SuCompany, SignUpSteps, TInv
<1>2. req[r] \in SignUpHandler /\ e \in Accounts /\ InRequest(req[r])
  BY <1>1, SignUpHas
<1>3. UNCHANGED <<account, branches, dishes>>
  BY DEF SuCompany
<1>4. CASE company[e] # "none"
  <2>1. SignUpFails(r) /\ UNCHANGED company
    BY <1>4 DEF SuCompany
  <2>2. QED
    BY <1>1, <1>2, <1>3, <1>4, <2>1, FailsDoes DEF Fails
<1>5. CASE company[e] = "none"
  <2>1. /\ company' = [company EXCEPT ![e] = SignUps[e].name]
        /\ req' = [req EXCEPT ![r] = GoOn(req[r])]
        /\ consoleNotes' = consoleNotes
    BY <1>5 DEF SuCompany, Become
  <2>2. Between(req[r]) /\ req[r].at = 0
    <3>1. Between(req[r])
      BY <1>1, PartDone
    <3>2. QED
      BY <1>1, <1>2, <3>1 DEF InRequest
  <2>3. /\ Others(r)
        /\ \/ req'[r].pc = "idle" /\ Len(SignUps[e].tables) = 0
           \/ req'[r].pc = "suProbe" /\ req'[r].account = e /\ req'[r].at = 1
    <3>1. Others(r)
      BY <1>1, <1>2, <2>1, <2>2, WentOn DEF Others
    <3>2. \/ req'[r].pc = "idle" /\ req[r].at = Len(SignUps[e].tables)
          \/ req[r].at > 0
          \/ req'[r].pc = "suProbe" /\ req'[r].account = e /\ req'[r].at = req[r].at + 1
      BY <1>1, <1>2, <2>1, <2>2, WentOn
    <3>3. QED
      BY <2>2, <3>1, <3>2
  <2>4. QED
    BY <1>1, <1>2, <1>3, <1>5, <2>1, <2>3
<1>6. QED
  BY <1>4, <1>5

LEMMA ProbeDoes ==
    ASSUME TInv, NEW r \in Requests, SuProbe(r) \/ SuDishProbe(r)
    PROVE  LET h == req[r] IN
           /\ h.pc \in {"suProbe", "suDishProbe"} /\ h.account \in Accounts /\ Others(r)
           /\ UNCHANGED <<account, company, branches, dishes, consoleNotes>>
           /\ req'[r].account = h.account /\ req'[r].at = h.at /\ req'[r].branch = h.branch
           /\ req'[r].dish = h.dish /\ req'[r].tab = h.tab
           /\ \/ req'[r].pc = h.pc
              \/ /\ h.pc = "suProbe" /\ req'[r].pc = "suBranch"
                 /\ req'[r].n = h.n /\ ~Taken(h.n)
              \/ /\ h.pc = "suDishProbe" /\ req'[r].pc = "suDish"
                 /\ req'[r].n = h.n /\ \A k \in DOMAIN dishes : dishes[k].code # h.n
<1> DEFINE h == req[r]
<1>1. h.pc \in {"suProbe", "suDishProbe"} /\ h.pc \in SignUpSteps /\ ReqOK
  BY DEF SuProbe, SuDishProbe, SignUpSteps, TInv
<1>2. h \in SignUpHandler /\ h.account \in Accounts /\ h.n \in Nat /\ h.n + 1 \in Nat
  <2>1. h \in SignUpHandler /\ h.account \in Accounts /\ h.n \in Nat
    BY <1>1, SignUpHas
  <2>2. QED
    BY <2>1
<1>3. UNCHANGED <<account, company, branches, dishes, consoleNotes>>
  BY DEF SuProbe, SuDishProbe, consoleVars
<1>4. \/ req' = [req EXCEPT ![r] = [req[r] EXCEPT !.n = req[r].n + 1]]
      \/ /\ h.pc = "suProbe" /\ ~Taken(h.n)
         /\ req' = [req EXCEPT ![r] = [req[r] EXCEPT !.pc = "suBranch"]]
      \/ /\ h.pc = "suDishProbe" /\ \A k \in DOMAIN dishes : dishes[k].code # h.n
         /\ req' = [req EXCEPT ![r] = [req[r] EXCEPT !.pc = "suDish"]]
  BY DEF SuProbe, SuDishProbe, Become, Goto
<1>5. {"suBranch", "suDish"} \subseteq SignUpSteps
  BY DEF SignUpSteps
<1> DEFINE g == [req[r] EXCEPT !.n = req[r].n + 1]
<1>6. /\ g.pc = h.pc /\ g.account = h.account /\ g.at = h.at /\ g.branch = h.branch
      /\ g.dish = h.dish /\ g.tab = h.tab
  BY <1>2, SignUpSet
<1>7. \A p \in {"suBranch", "suDish"} :
         LET f == [req[r] EXCEPT !.pc = p] IN
         /\ f.pc = p /\ f.account = h.account /\ f.at = h.at /\ f.branch = h.branch
         /\ f.dish = h.dish /\ f.tab = h.tab /\ f.n = h.n
  BY <1>2, <1>5 DEF SignUpHandler
<1> HIDE DEF g
<1>8. CASE req' = [req EXCEPT ![r] = g]
  <2>1. req'[r] = g /\ Others(r)
    BY <1>1, <1>8 DEF ReqOK, Others
  <2>2. QED
    BY <1>1, <1>2, <1>3, <1>6, <2>1
<1>9. CASE /\ h.pc = "suProbe" /\ ~Taken(h.n)
           /\ req' = [req EXCEPT ![r] = [req[r] EXCEPT !.pc = "suBranch"]]
  <2>1. req'[r] = [req[r] EXCEPT !.pc = "suBranch"] /\ Others(r)
    BY <1>1, <1>9 DEF ReqOK, Others
  <2>2. QED
    BY <1>1, <1>2, <1>3, <1>7, <1>9, <2>1
<1>10. CASE /\ h.pc = "suDishProbe" /\ \A k \in DOMAIN dishes : dishes[k].code # h.n
            /\ req' = [req EXCEPT ![r] = [req[r] EXCEPT !.pc = "suDish"]]
  <2>1. req'[r] = [req[r] EXCEPT !.pc = "suDish"] /\ Others(r)
    BY <1>1, <1>10 DEF ReqOK, Others
  <2>2. QED
    BY <1>1, <1>2, <1>3, <1>7, <1>10, <2>1
<1>11. QED
  BY <1>4, <1>8, <1>9, <1>10 DEF g

\* The sign-up of e in slot r has made part k as far as d dishes and t tables of
\* branch i, and goes on with it, with the next part, or has made all.
GoesOnFrom(r, e, k, i, d, t) ==
    \/ /\ req'[r].pc = "idle" /\ k = Len(SignUps[e].tables)
       /\ d = SignUps[e].dishes /\ t = Len(SignUps[e].tables[k])
    \/ /\ req'[r].pc \in {"suDishProbe", "suTable"} /\ req'[r].account = e
       /\ req'[r].at = k /\ req'[r].branch = i /\ req'[r].dish = d /\ req'[r].tab = t
    \/ /\ req'[r].pc = "suProbe" /\ req'[r].account = e /\ req'[r].at = k + 1
       /\ d = SignUps[e].dishes /\ t = Len(SignUps[e].tables[k])

LEMMA GoesOnIs ==
    ASSUME ReqOK, NEW r \in Requests, NEW g \in SignUpHandler, Between(g), g.at > 0,
           req' = [req EXCEPT ![r] = GoOn(g)]
    PROVE  Others(r) /\ GoesOnFrom(r, g.account, g.at, g.branch, g.dish, g.tab)
<1>1. Others(r)
  BY WentOn DEF Others
<1>2. GoesOnFrom(r, g.account, g.at, g.branch, g.dish, g.tab)
  BY WentOn DEF GoesOnFrom, Complete
<1>3. QED
  BY <1>1, <1>2

LEMMA BranchDoes ==
    ASSUME TInv, NEW r \in Requests, SuBranch(r)
    PROVE  LET h == req[r]
               i == Len(branches) + 1
           IN
           /\ h.pc = "suBranch" /\ h.account \in Accounts /\ Others(r)
           /\ h.at \in Nat /\ h.at > 0 /\ h.at <= Len(SignUps[h.account].tables)
           /\ UNCHANGED <<account, company, dishes>>
           /\ \/ Taken(h.n) /\ Fails(r)
              \/ /\ branches' = Append(branches, [owner |-> h.account, signer |-> h.account,
                                                  code |-> h.n, tables |-> {},
                                                  gone |-> FALSE])
                 /\ i \in Nat
                 /\ [owner |-> h.account, signer |-> h.account, code |-> h.n,
                     tables |-> {}, gone |-> FALSE] \in Branch
                 /\ consoleNotes' = consoleNotes
                 /\ GoesOnFrom(r, h.account, h.at, i, 0, 0)
<1> DEFINE h == req[r]
           i == Len(branches) + 1
           g == [h EXCEPT !.branch = i]
<1>1. h.pc = "suBranch" /\ h.pc \in SignUpSteps /\ ReqOK /\ ConsoleTypeOK
  BY DEF SuBranch, SignUpSteps, TInv
<1>2. /\ h \in SignUpHandler /\ h.account \in Accounts /\ InRequest(h)
      /\ h.at \in Nat /\ h.n \in Nat
  BY <1>1, SignUpHas
<1>3. h.dish = 0 /\ h.tab = 0 /\ h.at # 0 /\ h.at <= Len(SignUps[h.account].tables)
  BY <1>1, <1>2 DEF InRequest
<1>a. h.at > 0
  <2>1. h.at \in Nat /\ h.at # 0
    BY <1>2, <1>3
  <2> HIDE DEF h
  <2>2. QED
    BY <2>1
<1>4. UNCHANGED <<account, company, dishes>>
  BY DEF SuBranch
<1>5. CASE Taken(h.n)
  <2>1. SignUpFails(r) /\ UNCHANGED branches
    BY <1>5 DEF SuBranch
  <2>2. Fails(r) /\ Others(r)
    BY <1>4, <2>1, FailsDoes DEF Fails
  <2>3. QED
    BY <1>1, <1>2, <1>3, <1>a, <1>4, <1>5, <2>2
<1>6. CASE ~Taken(h.n)
  <2>1. /\ branches' = Append(branches, [owner |-> h.account, signer |-> h.account,
                                         code |-> h.n, tables |-> {}, gone |-> FALSE])
        /\ req' = [req EXCEPT ![r] = GoOn(g)]
        /\ consoleNotes' = consoleNotes
    BY <1>6 DEF SuBranch, Become
  <2>2. i \in Nat
    <3>1. Len(branches) \in Nat
      BY <1>1, ConsoleRows
    <3>2. QED
      BY <3>1
  <2>3. [owner |-> h.account, signer |-> h.account, code |-> h.n,
         tables |-> {}, gone |-> FALSE] \in Branch
    BY <1>2 DEF Branch
  <2> HIDE DEF i
  <2>4. /\ g \in SignUpHandler /\ g.account = h.account /\ g.at = h.at /\ g.branch = i
        /\ g.dish = 0 /\ g.tab = 0
    BY <1>2, <1>3, <2>2, SignUpSet
  <2>5. Between(g)
    BY <1>1, <2>2, PartDone
  <2> HIDE DEF g
  <2>6. Others(r) /\ GoesOnFrom(r, g.account, g.at, g.branch, g.dish, g.tab)
    <3>1. ReqOK /\ g \in SignUpHandler /\ Between(g) /\ g.at > 0
      BY <1>1, <1>a, <2>4, <2>5
    <3>2. req' = [req EXCEPT ![r] = GoOn(g)]
      BY <2>1
    <3>3. QED
      BY <3>1, <3>2, GoesOnIs
  <2>7. GoesOnFrom(r, h.account, h.at, i, 0, 0)
    BY <2>4, <2>6
  <2>8. QED
    BY <1>1, <1>2, <1>3, <1>a, <1>4, <2>1, <2>2, <2>3, <2>6, <2>7 DEF i
<1>7. QED
  BY <1>5, <1>6

LEMMA DishDoes ==
    ASSUME TInv, NEW r \in Requests, SuDish(r)
    PROVE  LET h == req[r] IN
           /\ h.pc = "suDish" /\ h.account \in Accounts /\ Others(r)
           /\ h.at \in Nat /\ h.at > 0 /\ h.dish \in Nat /\ h.tab = 0
           /\ UNCHANGED <<account, company, branches>>
           /\ \/ branches[h.branch].gone /\ Fails(r)
              \/ /\ dishes' = Append(dishes, [branch |-> h.branch, code |-> h.n])
                 /\ [branch |-> h.branch, code |-> h.n] \in Dish
                 /\ consoleNotes' = consoleNotes
                 /\ GoesOnFrom(r, h.account, h.at, h.branch, h.dish + 1, h.tab)
<1> DEFINE h == req[r]
           d == h.dish + 1
           g == [h EXCEPT !.dish = d]
<1>1. h.pc = "suDish" /\ h.pc \in SignUpSteps /\ ReqOK /\ 0 \in Nat
  BY DEF SuDish, SignUpSteps, TInv
<1>2. /\ h \in SignUpHandler /\ h.account \in Accounts /\ InRequest(h)
      /\ h.at \in Nat /\ h.n \in Nat /\ h.branch \in Nat /\ h.dish \in Nat
  BY <1>1, SignUpHas
<1>3. h.at # 0 /\ h.tab = 0
  BY <1>1, <1>2 DEF InRequest
<1>a. h.at > 0
  <2>1. h.at \in Nat /\ h.at # 0
    BY <1>2, <1>3
  <2> HIDE DEF h
  <2>2. QED
    BY <2>1
<1>4. UNCHANGED <<account, company, branches>>
  BY DEF SuDish
<1>5. CASE branches[h.branch].gone
  <2>1. SignUpFails(r) /\ UNCHANGED dishes
    BY <1>5 DEF SuDish
  <2>2. Fails(r) /\ Others(r)
    BY <1>4, <2>1, FailsDoes DEF Fails
  <2>3. QED
    BY <1>1, <1>2, <1>3, <1>a, <1>4, <1>5, <2>2
<1>6. CASE ~branches[h.branch].gone
  <2>1. /\ dishes' = Append(dishes, [branch |-> h.branch, code |-> h.n])
        /\ req' = [req EXCEPT ![r] = GoOn(g)]
        /\ consoleNotes' = consoleNotes
    BY <1>6 DEF SuDish, Become
  <2>2. d \in Nat
    BY <1>2
  <2>3. [branch |-> h.branch, code |-> h.n] \in Dish
    BY <1>2 DEF Dish
  <2>5. Between(g)
    BY <1>1, PartDone
  <2> HIDE DEF d
  <2>4. /\ g \in SignUpHandler /\ g.account = h.account /\ g.at = h.at
        /\ g.branch = h.branch /\ g.dish = d /\ g.tab = h.tab
    BY <1>2, <2>2, SignUpSet
  <2> HIDE DEF g
  <2>6. Others(r) /\ GoesOnFrom(r, g.account, g.at, g.branch, g.dish, g.tab)
    <3>1. ReqOK /\ g \in SignUpHandler /\ Between(g) /\ g.at > 0
      BY <1>1, <1>a, <2>4, <2>5
    <3>2. req' = [req EXCEPT ![r] = GoOn(g)]
      BY <2>1
    <3>3. QED
      BY <3>1, <3>2, GoesOnIs
  <2>7. GoesOnFrom(r, h.account, h.at, h.branch, d, h.tab)
    BY <2>4, <2>6
  <2>8. QED
    BY <1>1, <1>2, <1>3, <1>a, <1>4, <2>1, <2>3, <2>6, <2>7 DEF d
<1>7. QED
  BY <1>5, <1>6

LEMMA TableDoes ==
    ASSUME TInv, NEW r \in Requests, SuTable(r)
    PROVE  LET h == req[r]
               number == SignUps[h.account].tables[h.at][h.tab + 1]
           IN
           /\ h.pc = "suTable" /\ h.account \in Accounts /\ Others(r)
           /\ h.at \in Nat /\ h.at > 0 /\ h.at <= Len(SignUps[h.account].tables)
           /\ h.tab \in Nat /\ h.tab < Len(SignUps[h.account].tables[h.at])
           /\ h.dish = SignUps[h.account].dishes
           /\ UNCHANGED <<account, company, dishes>>
           /\ \/ /\ branches[h.branch].gone \/ number \in branches[h.branch].tables
                 /\ Fails(r)
              \/ /\ branches' = [branches EXCEPT ![h.branch] =
                       [branches[h.branch] EXCEPT !.tables =
                           branches[h.branch].tables \cup {number}]]
                 /\ consoleNotes' = consoleNotes
                 /\ GoesOnFrom(r, h.account, h.at, h.branch, h.dish, h.tab + 1)
<1> DEFINE h == req[r]
           number == SignUps[h.account].tables[h.at][h.tab + 1]
           t == h.tab + 1
           g == [h EXCEPT !.tab = t]
<1>1. h.pc = "suTable" /\ h.pc \in SignUpSteps /\ ReqOK /\ 0 \in Nat
  BY DEF SuTable, SignUpSteps, TInv
<1>2. /\ h \in SignUpHandler /\ h.account \in Accounts /\ InRequest(h)
      /\ h.at \in Nat /\ h.n \in Nat /\ h.branch \in Nat /\ h.dish \in Nat /\ h.tab \in Nat
  BY <1>1, SignUpHas
<1>3. /\ h.at # 0 /\ h.at <= Len(SignUps[h.account].tables)
      /\ h.tab < Len(SignUps[h.account].tables[h.at]) /\ h.dish = SignUps[h.account].dishes
  BY <1>1, <1>2 DEF InRequest
<1>a. h.at > 0
  <2>1. h.at \in Nat /\ h.at # 0
    BY <1>2, <1>3
  <2> HIDE DEF h
  <2>2. QED
    BY <2>1
<1>4. UNCHANGED <<account, company, dishes>>
  BY DEF SuTable
<1>5. CASE branches[h.branch].gone \/ number \in branches[h.branch].tables
  <2>1. SignUpFails(r) /\ UNCHANGED branches
    BY <1>5 DEF SuTable
  <2>2. Fails(r) /\ Others(r)
    BY <1>4, <2>1, FailsDoes DEF Fails
  <2>3. QED
    BY <1>1, <1>2, <1>3, <1>a, <1>4, <1>5, <2>2
<1>6. CASE ~(branches[h.branch].gone \/ number \in branches[h.branch].tables)
  <2>1. /\ branches' = [branches EXCEPT ![h.branch] =
              [branches[h.branch] EXCEPT !.tables = branches[h.branch].tables \cup {number}]]
        /\ req' = [req EXCEPT ![r] = GoOn(g)]
        /\ consoleNotes' = consoleNotes
    BY <1>6 DEF SuTable, Become
  <2>2. t \in Nat
    BY <1>2
  <2>5. Between(g)
    BY <1>1, PartDone
  <2> HIDE DEF t
  <2>4. /\ g \in SignUpHandler /\ g.account = h.account /\ g.at = h.at
        /\ g.branch = h.branch /\ g.dish = h.dish /\ g.tab = t
    BY <1>2, <2>2, SignUpSet
  <2> HIDE DEF g
  <2>6. Others(r) /\ GoesOnFrom(r, g.account, g.at, g.branch, g.dish, g.tab)
    <3>1. ReqOK /\ g \in SignUpHandler /\ Between(g) /\ g.at > 0
      BY <1>1, <1>a, <2>4, <2>5
    <3>2. req' = [req EXCEPT ![r] = GoOn(g)]
      BY <2>1
    <3>3. QED
      BY <3>1, <3>2, GoesOnIs
  <2>7. GoesOnFrom(r, h.account, h.at, h.branch, h.dish, t)
    BY <2>4, <2>6
  <2> HIDE DEF number
  <2>8. QED
    BY <1>1, <1>2, <1>3, <1>a, <1>4, <2>1, <2>6, <2>7 DEF t, number
<1>7. QED
  BY <1>5, <1>6

LEMMA NotIdle ==
    /\ "idle" \notin PastUser \cup SignUpSteps \cup BranchSteps \cup NameSteps \cup PartSteps
    /\ PastUser \subseteq SignUpSteps /\ PartSteps \subseteq PastUser
    /\ "suCompany" \in PastUser /\ "suUser" \in SignUpSteps \ PastUser
    /\ "coName" \notin SignUpSteps \cup BranchSteps
    /\ SignUpSteps \cap BranchSteps = {}
    /\ PastUser = {"suCompany", "suProbe", "suBranch"} \cup PartSteps
  BY DEF PastUser, SignUpSteps, BranchSteps, NameSteps, PartSteps

\* Whoever signs up, and who is at work for an account, by its program counter.
LEMMA AtWorkIs ==
    ASSUME NEW steps, NEW e
    PROVE  \A r : r \in AtWork(steps, e) <=>
                     r \in Requests /\ req[r].pc \in steps /\ req[r].account = e
  BY DEF AtWork, Busy

LEMMA AtWorkNext ==
    ASSUME NEW steps, NEW e
    PROVE  \A r : r \in AtWork(steps, e)' <=>
                     r \in Requests /\ req'[r].pc \in steps /\ req'[r].account = e
  BY DEF AtWork, Busy

\* What account e has been given, and who signs it up, stays.
KeptParts(e) ==
    /\ account'[e].row = account[e].row
    /\ company[e] # "none" => company'[e] # "none"
    /\ Owned(e)' = Owned(e)
    /\ \A i \in Owned(e) : /\ branches'[i].tables = branches[i].tables
                           /\ DishesOf(i)' = DishesOf(i)
    /\ consoleNotes[e] \subseteq consoleNotes'[e]
    /\ \A r \in Requests :
          \/ req[r].pc \in PastUser /\ req[r].account = e
          \/ req'[r].pc \in PastUser /\ req'[r].account = e
          => req'[r] = req[r]

LEMMA StandsKept ==
    ASSUME NEW e, NEW k, NEW S, Stands(e, k, S),
           \A i \in S : /\ branches'[i].tables = branches[i].tables
                        /\ DishesOf(i)' = DishesOf(i)
    PROVE  Stands(e, k, S)'
<1>1. {branches'[i].tables : i \in S} = {branches[i].tables : i \in S}
  OBVIOUS
<1>2. \A i \in S : Cardinality(DishesOf(i)') = SignUps[e].dishes
  BY DEF Stands
<1>3. QED
  BY <1>1, <1>2 DEF Stands

LEMMA MadeKept ==
    ASSUME NEW e \in Accounts, KeptParts(e), NEW r \in Requests,
           req[r].pc \in PastUser, req[r].account = e, Made(req[r])
    PROVE  Made(req[r])'
<1>1. req'[r] = req[r]
  BY DEF KeptParts
<1>2. PICK h : h = req[r]
  OBVIOUS
<1>3. PICK S : S = Owned(e)
  OBVIOUS
<1>4. /\ Owned(e)' = S
      /\ \A i \in S : /\ branches'[i].tables = branches[i].tables
                      /\ DishesOf(i)' = DishesOf(i)
  BY <1>3 DEF KeptParts
<1>5. /\ h.pc # "suCompany" => company'[e] # "none"
      /\ h.pc = "suCompany" => Owned(e)' = {}
  BY <1>1, <1>2, <1>3, <1>4 DEF Made, KeptParts
<1>6. ASSUME h.pc \in {"suProbe", "suBranch"}
      PROVE  Stands(e, h.at - 1, S)'
  <2>1. Stands(e, h.at - 1, S)
    BY <1>2, <1>3, <1>6 DEF Made
  <2>2. QED
    BY <1>4, <2>1, StandsKept
<1>7. ASSUME h.pc \in PartSteps
      PROVE  /\ h.branch \in S
             /\ Cardinality(DishesOf(h.branch)') = h.dish
             /\ branches'[h.branch].tables = {SignUps[e].tables[h.at][j] : j \in 1..h.tab}
             /\ Stands(e, h.at - 1, S \ {h.branch})'
  <2>1. /\ h.branch \in S
        /\ Cardinality(DishesOf(h.branch)) = h.dish
        /\ branches[h.branch].tables = {SignUps[e].tables[h.at][j] : j \in 1..h.tab}
        /\ Stands(e, h.at - 1, S \ {h.branch})
    BY <1>2, <1>3, <1>7 DEF Made, HasPart
  <2>2. Stands(e, h.at - 1, S \ {h.branch})'
    BY <1>4, <2>1, StandsKept
  <2>3. QED
    BY <1>4, <2>1, <2>2
<1>8. req'[r] = h /\ h.account = e
  BY <1>1, <1>2
<1>10. req'[r].pc \in PartSteps => HasPart(req[r])'
  BY <1>4, <1>7, <1>8 DEF HasPart, Stands
<1>11. QED
  BY <1>4, <1>5, <1>6, <1>8, <1>10 DEF Made, Stands

LEMMA WholeIs ==
    ASSUME NEW e \in Accounts
    PROVE  Whole(e) <=> /\ company[e] # "none"
                        /\ Stands(e, Len(SignUps[e].tables), Owned(e))
<1>1. DOMAIN SignUps[e].tables = 1..Len(SignUps[e].tables)
  BY Asked
<1>2. QED
  BY <1>1 DEF Whole, Stands

LEMMA WholeNext ==
    ASSUME NEW e \in Accounts, company'[e] # "none",
           Stands(e, Len(SignUps[e].tables), Owned(e))'
    PROVE  Whole(e)'
<1>1. DOMAIN SignUps[e].tables = 1..Len(SignUps[e].tables)
  BY Asked
<1>2. QED
  BY <1>1 DEF Whole, Stands

LEMMA TurnKept ==
    ASSUME NEW e \in Accounts, KeptParts(e), SignUpInTurn(e)
    PROVE  SignUpInTurn(e)'
<1> SUFFICES ASSUME ~Noted(e, {"edited"})'
             PROVE  /\ \A r \in AtWork(PastUser, e)' : Made(req[r])'
                    /\ account'[e].row = "here" /\ AtWork(PastUser, e)' = {} =>
                          Whole(e)' \/ Noted(e, {"failed", "fault"})'
  BY DEF SignUpInTurn
<1>1. consoleNotes[e] \subseteq consoleNotes'[e]
  BY DEF KeptParts
<1>2. ~Noted(e, {"edited"})
  BY <1>1 DEF Noted
<1>3. AtWork(PastUser, e)' = AtWork(PastUser, e)
  BY DEF AtWork, Busy, KeptParts
<1>4. \A r \in AtWork(PastUser, e)' : Made(req[r])'
  BY <1>2, <1>3, MadeKept, AtWorkIs DEF SignUpInTurn
<1>5. ASSUME Whole(e) PROVE Whole(e)'
  <2>1. PICK S : S = Owned(e)
    OBVIOUS
  <2>2. company[e] # "none" /\ Stands(e, Len(SignUps[e].tables), S)
    BY <1>5, <2>1, WholeIs
  <2>3. /\ Owned(e)' = S /\ company'[e] # "none"
        /\ \A i \in S : /\ branches'[i].tables = branches[i].tables
                        /\ DishesOf(i)' = DishesOf(i)
    BY <2>1, <2>2 DEF KeptParts
  <2>4. Stands(e, Len(SignUps[e].tables), S)'
    BY <2>2, <2>3, StandsKept
  <2>5. Stands(e, Len(SignUps[e].tables), Owned(e))'
    BY <2>3, <2>4
  <2>6. QED
    BY <2>3, <2>5, WholeNext
<1>6. Noted(e, {"failed", "fault"}) => Noted(e, {"failed", "fault"})'
  BY <1>1 DEF Noted
<1>7. account'[e].row = account[e].row
  BY DEF KeptParts
<1>8. QED
  BY <1>2, <1>3, <1>4, <1>5, <1>6, <1>7 DEF SignUpInTurn

\* The names of account e and its company, and who writes them, stay.
KeptNames(e) ==
    /\ account'[e].row = account[e].row /\ account'[e].name = account[e].name
    /\ company'[e] = company[e]
    /\ consoleNotes[e] \subseteq consoleNotes'[e]
    /\ \A r \in Requests :
          \/ req[r].pc \in NameSteps /\ req[r].account = e
          \/ req'[r].pc \in NameSteps /\ req'[r].account = e
          => req'[r] = req[r]

LEMMA NamesKept ==
    ASSUME NEW e \in Accounts, KeptNames(e), NameInTurn(e)
    PROVE  NameInTurn(e)'
<1> SUFFICES ASSUME ~Noted(e, {"renames"})'
             PROVE  /\ \A r, s \in AtWork(NameSteps, e)' : r = s
                    /\ \A r \in AtWork({"suCompany"}, e)' :
                          company'[e] = "none" /\ account'[e].name = SignUps[e].name
                    /\ \A r \in AtWork({"coName"}, e)' : company'[e] \in {req'[r].name, ""}
                    /\ account'[e].row = "here" /\ AtWork(NameSteps, e)' = {} =>
                          \/ account'[e].name = company'[e]
                          \/ company'[e] = ""
                          \/ Noted(e, {"fault"})'
  BY DEF NameInTurn
<1>1. ~Noted(e, {"renames"}) /\ (Noted(e, {"fault"}) => Noted(e, {"fault"})')
  BY DEF Noted, KeptNames
<1>2. AtWork(NameSteps, e)' = AtWork(NameSteps, e)
  BY DEF AtWork, Busy, KeptNames
<1>3. \A pc \in NameSteps : \A r \in AtWork({pc}, e)' : r \in AtWork({pc}, e) /\ req'[r] = req[r]
  BY DEF AtWork, Busy, KeptNames
<1>4. QED
  BY <1>1, <1>2, <1>3 DEF NameInTurn, KeptNames, NameSteps

\* Nothing that the sign-ups and the names are about changes.
Aside ==
    /\ UNCHANGED <<company, branches, dishes>>
    /\ \A e \in Accounts : /\ account'[e].row = account[e].row
                           /\ account'[e].name = account[e].name
                           /\ consoleNotes[e] \subseteq consoleNotes'[e]
                           /\ \A why : why # "resets" =>
                                 (why \in consoleNotes'[e] <=> why \in consoleNotes[e])
    /\ \A r \in Requests :
          \/ req[r].pc \in SignUpSteps \cup NameSteps \cup BranchSteps
          \/ req'[r].pc \in SignUpSteps \cup NameSteps \cup BranchSteps
          => req'[r] = req[r]

LEMMA WriterKept ==
    ASSUME Grows, NEW r \in Requests, WriterOK(r), req'[r] = req[r]
    PROVE  WriterOK(r)'
<1>1. req[r].pc = "brRemove" =>
         /\ req[r].branch \in DOMAIN branches'
         /\ branches'[req[r].branch].signer = branches[req[r].branch].signer
         /\ \A e \in Accounts :
               branches'[req[r].branch].signer = e => Noted(e, {"edited"})'
  BY DEF WriterOK, Grows, Noted
<1>2. QED
  BY <1>1 DEF WriterOK, Grows

LEMMA AsideKeeps ==
    ASSUME SignUpInv, Aside
    PROVE  SignUpInv'
<1>0. /\ Writers /\ CodesApart
      /\ \A e \in Accounts : SignUpInTurn(e) /\ AloneAt(e) /\ RefusedFor(e) /\ NameInTurn(e)
  BY DEF SignUpInv
<1>1. \A e \in Accounts : /\ consoleNotes[e] \cap {"overlap", "edited", "failed", "fault", "renames"}
                                \subseteq consoleNotes'[e]
                          /\ \A why \in {"overlap", "edited", "failed", "fault", "renames"} :
                                why \in consoleNotes'[e] <=> why \in consoleNotes[e]
  BY DEF Aside
<1>2. \A r \in Requests : req'[r].pc \in SignUpSteps \cup NameSteps \cup BranchSteps =>
         req'[r] = req[r]
  BY DEF Aside
<1>3. Writers'
  <2>1. ASSUME NEW r \in Requests PROVE WriterOK(r)'
    <3>1. Grows
      BY DEF Aside, Grows
    <3>2. CASE req'[r] = req[r]
      BY <1>0, <3>1, <3>2, WriterKept DEF Writers
    <3>3. CASE req'[r] # req[r]
      <4>1. req'[r].pc \notin SignUpSteps \cup NameSteps \cup BranchSteps
        BY <1>2, <3>3
      <4>2. req'[r].pc \notin PastUser \cup PartSteps \cup {"coName", "brRemove"}
        BY <4>1, NotIdle DEF NameSteps, BranchSteps
      <4>3. QED
        BY <4>2 DEF WriterOK
    <3>4. QED
      BY <3>2, <3>3
  <2>2. Single'
    BY <1>0, <1>2, NotIdle DEF Writers, Single
  <2>3. \A e \in Accounts : NoRow(e)'
    BY <1>0 DEF Writers, NoRow, Aside
  <2>4. QED
    BY <2>1, <2>2, <2>3 DEF Writers
<1>4. CodesApart'
  <2>1. "suDish" \in SignUpSteps
    BY DEF SignUpSteps
  <2>2. \A e \in Accounts : Noted(e, {"overlap"})' <=> Noted(e, {"overlap"})
    BY <1>1 DEF Noted
  <2>3. QED
    BY <1>0, <1>2, <2>1, <2>2 DEF CodesApart, Aside
<1>5. ASSUME NEW e \in Accounts
      PROVE  SignUpInTurn(e)' /\ AloneAt(e)' /\ RefusedFor(e)' /\ NameInTurn(e)'
  <2>1. \A S \in SUBSET {"overlap", "edited", "failed", "fault", "renames"} :
           Noted(e, S)' <=> Noted(e, S)
    BY <1>1 DEF Noted
  <2>2. AloneAt(e)'
    <3>1. \A r \in AtWork(SignUpSteps, e)' : r \in AtWork(SignUpSteps, e) /\ req'[r] = req[r]
      BY <1>2 DEF AtWork, Busy
    <3>2. \A q \in Requests : req'[q].pc \in SignUpSteps \cup {"brCreate", "brRename"} =>
             req[q].pc \in SignUpSteps \cup {"brCreate", "brRename"}
      BY <1>2 DEF BranchSteps
    <3>3. \A c : Taken(c)' <=> Taken(c)
      BY DEF Taken, Aside
    <3>4. QED
      BY <1>0, <2>1, <3>1, <3>2, <3>3 DEF AloneAt
  <2>3. RefusedFor(e)'
    BY <1>0, <2>1 DEF RefusedFor
  <2>4. SignUpInTurn(e)'
    <3>1. KeptParts(e)
      BY <1>2, NotIdle DEF KeptParts, Aside, Owned, DishesOf
    <3>2. QED
      BY <1>0, <3>1, TurnKept
  <2>5. NameInTurn(e)'
    <3>1. KeptNames(e)
      BY <1>2 DEF KeptNames, Aside
    <3>2. QED
      BY <1>0, <3>1, NamesKept
  <2>6. QED
    BY <2>2, <2>3, <2>4, <2>5
<1>6. DishesPlaced'
  BY DEF SignUpInv, DishesPlaced, Aside
<1>7. QED
  BY <1>3, <1>4, <1>5, <1>6 DEF SignUpInv

\* An account at which nobody starts to sign up or to give out a code.
LEMMA AloneKept ==
    ASSUME NEW e \in Accounts, AloneAt(e), consoleNotes[e] \subseteq consoleNotes'[e],
           \A q \in Requests : req'[q].pc \in SignUpSteps \cup {"brCreate", "brRename"} =>
                                  req[q].pc \in SignUpSteps \cup {"brCreate", "brRename"},
           \A q \in Requests : req'[q].pc \in SignUpSteps /\ req'[q].account = e =>
                                  req[q].pc \in SignUpSteps /\ req[q].account = e,
           \A q \in Requests :
              /\ req[q].pc \in SignUpSteps /\ req[q].account = e
              /\ \A p \in Requests \ {q} :
                    req[p].pc \notin SignUpSteps \cup {"brCreate", "brRename"}
              /\ req[q].pc = "suBranch" => ~Taken(req[q].n)
              /\ req'[q].pc = "suBranch"
              => ~Taken(req[q].n)'
    PROVE  AloneAt(e)'
<1>1. ASSUME ~Noted(e, {"overlap"})', NEW r \in Requests,
             req'[r].pc \in SignUpSteps, req'[r].account = e
      PROVE  /\ \A q \in Requests \ {r} :
                   req'[q].pc \notin SignUpSteps \cup {"brCreate", "brRename"}
             /\ req'[r].pc = "suBranch" => ~Taken(req[r].n)'
  <2>1. ~Noted(e, {"overlap"})
    BY <1>1 DEF Noted
  <2>2. r \in AtWork(SignUpSteps, e) /\ req[r].pc \in SignUpSteps /\ req[r].account = e
    BY <1>1, AtWorkIs
  <2>3. /\ \A q \in Requests \ {r} : req[q].pc \notin SignUpSteps \cup {"brCreate", "brRename"}
        /\ req[r].pc = "suBranch" => ~Taken(req[r].n)
    BY <2>1, <2>2 DEF AloneAt
  <2>4. QED
    BY <2>2, <2>3
<1>2. \A r \in AtWork(SignUpSteps, e)' :
         r \in Requests /\ req'[r].pc \in SignUpSteps /\ req'[r].account = e
  BY AtWorkNext
<1>3. QED
  BY <1>1, <1>2 DEF AloneAt

LEMMA RefusedKept ==
    ASSUME NEW e \in Accounts, RefusedFor(e), consoleNotes[e] \subseteq consoleNotes'[e],
           "failed" \in consoleNotes'[e] => "failed" \in consoleNotes[e]
    PROVE  RefusedFor(e)'
  BY DEF RefusedFor, Noted

\* A handler of account f, in slot r, that is at work only for f.
Of(h, f) == h.pc \in SignUpSteps \cup {"coName"} => h.account = f

LEMMA ElseKept ==
    ASSUME NEW r \in Requests, Others(r), NEW f, Of(req[r], f), Of(req'[r], f),
           NEW e \in Accounts \ {f}, SignUpInTurn(e), NameInTurn(e), RefusedFor(e),
           account'[e] = account[e], company'[e] = company[e],
           consoleNotes[e] \subseteq consoleNotes'[e],
           "failed" \in consoleNotes'[e] => "failed" \in consoleNotes[e],
           Owned(e)' = Owned(e),
           \A i \in Owned(e) : /\ branches'[i].tables = branches[i].tables
                               /\ DishesOf(i)' = DishesOf(i)
    PROVE  SignUpInTurn(e)' /\ NameInTurn(e)' /\ RefusedFor(e)'
<1>1. \A q \in Requests :
          \/ req[q].pc \in SignUpSteps \cup {"coName"} /\ req[q].account = e
          \/ req'[q].pc \in SignUpSteps \cup {"coName"} /\ req'[q].account = e
          => req'[q] = req[q]
  BY DEF Of, Others
<1>2. NameSteps \subseteq SignUpSteps \cup {"coName"} /\ PastUser \subseteq SignUpSteps
  BY DEF NameSteps, SignUpSteps, PastUser
<1>3. KeptParts(e)
  BY <1>1, <1>2 DEF KeptParts
<1>4. KeptNames(e)
  BY <1>1, <1>2 DEF KeptNames
<1>5. QED
  BY <1>3, <1>4, TurnKept, NamesKept, RefusedKept

\* A sign-up that is past its account goes on, or ends.
LEMMA WritersKept ==
    ASSUME Writers, Grows, NEW r \in Requests, Others(r), req[r].pc \in PastUser,
           \/ req'[r].pc = "idle"
           \/ /\ req'[r].pc \in PastUser /\ req'[r].account = req[r].account
              /\ req'[r].pc \in PartSteps =>
                    /\ req'[r].branch \in DOMAIN branches'
                    /\ branches'[req'[r].branch].signer = req'[r].account,
           \A e \in Accounts : NoRow(e)'
    PROVE  Writers'
<1>1. WriterOK(r)'
  <2>1. "idle" \notin PastUser \cup PartSteps \cup {"coName", "brRemove"}
        /\ PastUser \cap {"coName", "brRemove"} = {}
    BY DEF PastUser, SignUpSteps, PartSteps
  <2>2. req[r].account \in Accounts /\ account'[req[r].account].row = "here"
    BY DEF Writers, WriterOK, Grows
  <2>3. QED
    BY <2>1, <2>2 DEF WriterOK
<1>2. \A q \in Requests : WriterOK(q)'
  <2> SUFFICES ASSUME NEW q \in Requests, q # r PROVE WriterOK(q)'
    BY <1>1
  <2>1. req'[q] = req[q] /\ WriterOK(q)
    BY DEF Others, Writers
  <2>2. QED
    BY <2>1, WriterKept
<1>3. Single'
  <2>1. \A q \in Requests : req'[q].pc \in PastUser =>
           req[q].pc \in PastUser /\ req[q].account = req'[q].account
    BY NotIdle DEF Others
  <2>2. QED
    BY <2>1 DEF Writers, Single
<1>4. QED
  BY <1>2, <1>3 DEF Writers

\* Handlers that write no codes of dishes.
LEMMA CodesKept ==
    ASSUME CodesApart, NEW r \in Requests, Others(r), req'[r].pc # "suDish", 
           DOMAIN dishes' = DOMAIN dishes,
           \A k \in DOMAIN dishes : dishes'[k].code = dishes[k].code,
           \A e \in Accounts : consoleNotes[e] \subseteq consoleNotes'[e]
    PROVE  CodesApart'
<1> SUFFICES ASSUME \A e \in Accounts : ~Noted(e, {"overlap"})'
             PROVE  /\ \A j, k \in DOMAIN dishes' : dishes'[j].code = dishes'[k].code => j = k
                    /\ \A q \in Requests : req'[q].pc = "suDish" =>
                          \A k \in DOMAIN dishes' : dishes'[k].code # req'[q].n
  BY DEF CodesApart
<1>1. \A e \in Accounts : ~Noted(e, {"overlap"})
  BY DEF Noted
<1>2. \A q \in Requests : req'[q].pc = "suDish" => req'[q] = req[q]
  BY DEF Others
<1>3. QED
  BY <1>1, <1>2 DEF CodesApart

LEMMA PlacedKept ==
    ASSUME SignUpInv, Grows, dishes' = dishes
    PROVE  DishesPlaced'
  BY DEF SignUpInv, DishesPlaced, Grows

\* A request that signs up, or is about a branch, begins.
LEMMA BeginKeeps ==
    ASSUME SignUpInv, NEW r \in Requests, Others(r), req[r].pc = "idle",
           req'[r].pc \in {"suUser"} \cup BranchSteps,
           UNCHANGED <<account, company, branches, dishes>>,
           \A f \in Accounts : /\ consoleNotes[f] \subseteq consoleNotes'[f]
                               /\ "failed" \in consoleNotes'[f] => "failed" \in consoleNotes[f]
                               /\ AloneAt(f)',
           WriterOK(r)'
    PROVE  SignUpInv'
<1>0. /\ Writers /\ CodesApart /\ Grows
      /\ \A f \in Accounts : SignUpInTurn(f) /\ AloneAt(f) /\ RefusedFor(f) /\ NameInTurn(f)
  BY DEF SignUpInv, Grows
<1>1. /\ {req[r].pc, req'[r].pc} \cap (PastUser \cup NameSteps) = {}
      /\ req'[r].pc # "suDish"
  BY NotIdle DEF PastUser, SignUpSteps, NameSteps, BranchSteps
<1>2. Writers'
  <2>1. ASSUME NEW q \in Requests PROVE WriterOK(q)'
    <3>1. CASE q = r
      BY <3>1
    <3>2. CASE q # r
      <4>1. req'[q] = req[q] /\ WriterOK(q)
        BY <1>0, <3>2 DEF Others, Writers
      <4>2. QED
        BY <1>0, <4>1, WriterKept
    <3>3. QED
      BY <3>1, <3>2
  <2>2. Single'
    BY <1>0, <1>1 DEF Writers, Single, Others
  <2>3. \A e \in Accounts : NoRow(e)'
    BY <1>0 DEF Writers, NoRow
  <2>4. QED
    BY <2>1, <2>2, <2>3 DEF Writers
<1>3. CodesApart'
  BY <1>0, <1>1, CodesKept
<1>4. ASSUME NEW f \in Accounts
      PROVE  SignUpInTurn(f)' /\ RefusedFor(f)' /\ NameInTurn(f)'
  <2>1. KeptParts(f)
    BY <1>1 DEF KeptParts, Others, Owned, DishesOf
  <2>2. KeptNames(f)
    BY <1>1 DEF KeptNames, Others
  <2>3. QED
    BY <1>0, <2>1, <2>2, TurnKept, NamesKept, RefusedKept
<1>5. DishesPlaced'
  BY <1>0, PlacedKept
<1>6. QED
  BY <1>2, <1>3, <1>4, <1>5 DEF SignUpInv

LEMMA SignUpBegins ==
    ASSUME TInv, SignUpInv, NEW r \in Requests, NEW e \in Accounts, SignUp(r, e)
    PROVE  SignUpInv'
<1> DEFINE h == [pc |-> "suUser", account |-> e, at |-> 0, branch |-> 0,
                 dish |-> 0, tab |-> 0, n |-> 0]
           S == IF Busy(SignUpSteps \cup BranchSteps) # {} THEN SigningUp \cup {e} ELSE {}
<1>1. /\ req[r].pc = "idle" /\ req' = [req EXCEPT ![r] = h]
      /\ UNCHANGED <<account, company, branches, dishes>>
      /\ Note(S, "overlap")
  BY FreeIs DEF SignUp, Begin
<1>2. Others(r) /\ req'[r] = h
  BY <1>1 DEF Others, TInv, ReqOK
<1>3. req'[r].pc = "suUser"
  BY <1>2
<1>h. h.account = e
  OBVIOUS
<1> HIDE DEF h
<1>4. S \subseteq SigningUp \cup {e} /\ (Busy(SignUpSteps \cup BranchSteps) # {} => S = SigningUp \cup {e})
  OBVIOUS
<1> HIDE DEF S
<1>5. \A f \in Accounts : /\ consoleNotes[f] \subseteq consoleNotes'[f]
                          /\ "failed" \in consoleNotes'[f] => "failed" \in consoleNotes[f]
                          /\ f \in S => "overlap" \in consoleNotes'[f]
  BY <1>1, NoteKeeps
<1>6. ASSUME NEW f \in Accounts PROVE AloneAt(f)'
  <2>1. ASSUME NEW q \in Requests, req'[q].pc \in SignUpSteps, req'[q].account = f,
               ~Noted(f, {"overlap"})'
        PROVE  /\ q = r
               /\ \A p \in Requests \ {r} : req'[p].pc \notin SignUpSteps \cup {"brCreate", "brRename"}
    <3>1. f \notin S
      BY <1>5, <2>1 DEF Noted
    <3>2. q = r
      <4>1. CASE q # r
        <5>1. q \in Busy(SignUpSteps) /\ req[q].account = f
          BY <1>2, <2>1, <4>1 DEF Others, Busy
        <5>2. f \in SigningUp /\ Busy(SignUpSteps \cup BranchSteps) # {}
          BY <5>1 DEF SigningUp, Busy
        <5>3. QED
          BY <1>4, <3>1, <5>2
      <4>2. QED
        BY <4>1
    <3>3. f = e
      BY <1>2, <1>h, <2>1, <3>2
    <3>4. Busy(SignUpSteps \cup BranchSteps) = {}
      BY <1>4, <3>1, <3>3
    <3>5. \A p \in Requests : req[p].pc \notin SignUpSteps \cup {"brCreate", "brRename"}
      BY <3>4 DEF Busy, BranchSteps
    <3>6. QED
      BY <1>2, <3>2, <3>5 DEF Others
  <2>2. \A q \in AtWork(SignUpSteps, f)' :
           q \in Requests /\ req'[q].pc \in SignUpSteps /\ req'[q].account = f
    BY AtWorkNext
  <2>3. QED
    BY <1>3, <2>1, <2>2 DEF AloneAt
<1>7. WriterOK(r)'
  BY <1>3 DEF WriterOK, PastUser, PartSteps
<1>8. QED
  BY <1>1, <1>2, <1>3, <1>5, <1>6, <1>7, BeginKeeps

\* A branch is created, or gets another code.
LEMMA CodeBegins ==
    ASSUME TInv, SignUpInv, NEW r \in Requests,
           \/ \E o, c : BranchCreate(r, o, c)
           \/ \E i, c : BranchRename(r, i, c)
    PROVE  SignUpInv'
<1>1. /\ req[r].pc = "idle" /\ Others(r) /\ req'[r].pc \in {"brCreate", "brRename"}
      /\ UNCHANGED <<account, company, branches, dishes>>
      /\ Note(SigningUp, "overlap")
  <2>1. CASE \E o, c : BranchCreate(r, o, c)
    <3>1. PICK o, c : BranchCreate(r, o, c)
      BY <2>1
    <3> DEFINE h == [pc |-> "brCreate", owner |-> o, branch |-> 0, code |-> c]
    <3>2. /\ req[r].pc = "idle" /\ req' = [req EXCEPT ![r] = h]
          /\ UNCHANGED <<account, company, branches, dishes>>
          /\ Note(SigningUp, "overlap")
      BY <3>1, FreeIs DEF BranchCreate, Begin
    <3>3. h.pc \in {"brCreate", "brRename"}
      OBVIOUS
    <3> HIDE DEF h
    <3>4. Others(r) /\ req'[r] = h
      BY <3>2 DEF Others, TInv, ReqOK
    <3>5. QED
      BY <3>2, <3>3, <3>4
  <2>2. CASE \E i, c : BranchRename(r, i, c)
    <3>1. PICK i, c : BranchRename(r, i, c)
      BY <2>2
    <3> DEFINE h == [pc |-> "brRename", owner |-> "none", branch |-> i, code |-> c]
    <3>2. /\ req[r].pc = "idle" /\ req' = [req EXCEPT ![r] = h]
          /\ UNCHANGED <<account, company, branches, dishes>>
          /\ Note(SigningUp, "overlap")
      BY <3>1, FreeIs DEF BranchRename, Begin
    <3>3. h.pc \in {"brCreate", "brRename"}
      OBVIOUS
    <3> HIDE DEF h
    <3>4. Others(r) /\ req'[r] = h
      BY <3>2 DEF Others, TInv, ReqOK
    <3>5. QED
      BY <3>2, <3>3, <3>4
  <2>3. QED
    BY <2>1, <2>2
<1>3. \A f \in Accounts : /\ consoleNotes[f] \subseteq consoleNotes'[f]
                          /\ "failed" \in consoleNotes'[f] => "failed" \in consoleNotes[f]
                          /\ f \in SigningUp => "overlap" \in consoleNotes'[f]
  BY <1>1, NoteKeeps
<1>4. ASSUME NEW f \in Accounts PROVE AloneAt(f)'
  <2>1. \A q \in AtWork(SignUpSteps, f)' : Noted(f, {"overlap"})'
    <3>1. SUFFICES ASSUME NEW q \in Requests, req'[q].pc \in SignUpSteps, req'[q].account = f
                   PROVE  Noted(f, {"overlap"})'
      BY AtWorkNext
    <3>2. q # r
      BY <1>1, <3>1, NotIdle DEF BranchSteps
    <3>3. q \in Busy(SignUpSteps) /\ req[q].account = f
      BY <1>1, <3>1, <3>2 DEF Others, Busy
    <3>4. f \in SigningUp
      BY <3>3 DEF SigningUp
    <3>5. QED
      BY <1>3, <3>4 DEF Noted
  <2>2. QED
    BY <2>1 DEF AloneAt
<1>5. WriterOK(r)'
  BY <1>1 DEF WriterOK, PastUser, PartSteps, SignUpSteps
<1>6. QED
  BY <1>1, <1>3, <1>4, <1>5, BeginKeeps DEF BranchSteps

LEMMA RemoveBegins ==
    ASSUME TInv, SignUpInv, NEW r \in Requests, NEW i \in DOMAIN branches, BranchRemove(r, i)
    PROVE  SignUpInv'
<1> DEFINE h == [pc |-> "brRemove", owner |-> "none", branch |-> i,
                 code |-> branches[i].code]
<1>1. /\ req[r].pc = "idle" /\ req' = [req EXCEPT ![r] = h]
      /\ UNCHANGED <<account, company, branches, dishes>>
      /\ Note(Accounts \cap {branches[i].signer}, "edited")
  BY FreeIs DEF BranchRemove, Begin
<1>2. Others(r) /\ req'[r] = h
  BY <1>1 DEF Others, TInv, ReqOK
<1>3. h.pc = "brRemove" /\ h.branch = i
  OBVIOUS
<1> HIDE DEF h
<1>4. \A f \in Accounts : /\ consoleNotes[f] \subseteq consoleNotes'[f]
                          /\ "failed" \in consoleNotes'[f] => "failed" \in consoleNotes[f]
                          /\ branches[i].signer = f => "edited" \in consoleNotes'[f]
  BY <1>1, NoteKeeps
<1>5. ASSUME NEW f \in Accounts PROVE AloneAt(f)'
  <2>1. AloneAt(f) /\ consoleNotes[f] \subseteq consoleNotes'[f]
    BY <1>4 DEF SignUpInv
  <2>2. \A q \in Requests : req'[q].pc \in SignUpSteps \cup {"brCreate", "brRename"} =>
                               req'[q] = req[q]
    BY <1>2, <1>3, NotIdle DEF Others, BranchSteps
  <2>3. \A c : Taken(c)' <=> Taken(c)
    BY <1>1 DEF Taken
  <2>4. QED
    BY <2>1, <2>2, <2>3, NotIdle, AloneKept
<1>6. WriterOK(r)'
  <2>1. req'[r].pc = "brRemove" /\ req'[r].branch = i /\ branches' = branches
    BY <1>1, <1>2, <1>3
  <2>2. "brRemove" \notin PastUser \cup PartSteps \cup {"coName"}
    BY DEF PastUser, PartSteps, SignUpSteps
  <2>3. \A f \in Accounts : branches[i].signer = f => Noted(f, {"edited"})'
    BY <1>4 DEF Noted
  <2>4. QED
    BY <2>1, <2>2, <2>3 DEF WriterOK
<1>7. QED
  BY <1>1, <1>2, <1>3, <1>4, <1>5, <1>6, BeginKeeps DEF BranchSteps

\* What all handlers at work, but the one in slot r, had to know is known again.
LEMMA WritersFrom ==
    ASSUME Writers, Grows, NEW r \in Requests, Others(r), WriterOK(r)',
           req'[r].pc \in PastUser =>
              req[r].pc \in PastUser /\ req'[r].account = req[r].account,
           \A e \in Accounts : NoRow(e)'
    PROVE  Writers'
<1>1. ASSUME NEW q \in Requests PROVE WriterOK(q)'
  <2>1. CASE q = r
    BY <2>1
  <2>2. CASE q # r
    <3>1. req'[q] = req[q] /\ WriterOK(q)
      BY <2>2 DEF Others, Writers
    <3>2. QED
      BY <3>1, WriterKept
  <2>3. QED
    BY <2>1, <2>2
<1>2. Single'
  BY DEF Writers, Single, Others
<1>3. QED
  BY <1>1, <1>2 DEF Writers

LEMMA IdleWriter ==
    ASSUME NEW r \in Requests, req'[r].pc = "idle"
    PROVE  WriterOK(r)'
  BY NotIdle DEF WriterOK, BranchSteps, NameSteps

\* Accounts at which no sign-up steps.
LEMMA AloneStays ==
    ASSUME NEW e \in Accounts, AloneAt(e), consoleNotes[e] \subseteq consoleNotes'[e],
           NEW r \in Requests, Others(r),
           req'[r].pc \notin SignUpSteps \cup {"brCreate", "brRename"},
           branches' = branches
    PROVE  AloneAt(e)'
<1>1. \A q \in Requests : req'[q].pc \in SignUpSteps \cup {"brCreate", "brRename"} =>
                             req'[q] = req[q]
  BY DEF Others
<1>2. \A c : Taken(c)' <=> Taken(c)
  BY DEF Taken
<1>3. \A q \in Requests :
         /\ req'[q].pc \in SignUpSteps /\ req'[q].account = e =>
               req[q].pc \in SignUpSteps /\ req[q].account = e
         /\ req'[q].pc = "suBranch" => req[q].pc = "suBranch"
  BY <1>1 DEF SignUpSteps
<1>4. QED
  BY <1>1, <1>2, <1>3, AloneKept

LEMMA CompanyKeeps ==
    ASSUME TInv, SignUpInv, NEW r \in Requests, NEW e \in Accounts, NEW n \in Names,
           UpsertCompany(r, e, n)
    PROVE  SignUpInv'
<1> DEFINE h == [pc |-> "coName", account |-> e, name |-> n]
           S == IF AtWork({"coName", "suCompany"}, e) # {} THEN {e} ELSE {}
<1>0. /\ Writers /\ CodesApart
      /\ \A f \in Accounts : SignUpInTurn(f) /\ AloneAt(f) /\ RefusedFor(f) /\ NameInTurn(f)
  BY DEF SignUpInv
<1>1. /\ req[r].pc = "idle" /\ req' = [req EXCEPT ![r] = h]
      /\ account[e].row = "here" /\ company' = [company EXCEPT ![e] = n]
      /\ UNCHANGED <<account, branches, dishes>>
      /\ Note(S, "renames")
  BY FreeIs DEF UpsertCompany, Begin, NoteIf
<1>2. Others(r) /\ req'[r] = h
  BY <1>1 DEF Others, TInv, ReqOK
<1>3. h.pc = "coName" /\ h.account = e /\ h.name = n
  OBVIOUS
<1> HIDE DEF h
<1>4. AtWork({"coName", "suCompany"}, e) # {} => S = {e}
  OBVIOUS
<1>s. S \subseteq {e}
  OBVIOUS
<1> HIDE DEF S
<1>5. \A f \in Accounts : /\ consoleNotes[f] \subseteq consoleNotes'[f]
                          /\ "failed" \in consoleNotes'[f] => "failed" \in consoleNotes[f]
                          /\ f \in S => "renames" \in consoleNotes'[f]
  BY <1>1, NoteKeeps
<1>6. company'[e] = n /\ n # "none" /\ \A f \in Accounts \ {e} : company'[f] = company[f]
  <2>1. company \in [Accounts -> Names \cup {"none", ""}]
    BY DEF TInv, ConsoleTypeOK
  <2>2. n # "none"
    BY ConsoleAssumption
  <2>3. QED
    BY <1>1, <2>1, <2>2
<1>7. Grows
  BY <1>1, <1>5, <1>6 DEF Grows
<1>8. req'[r].pc \notin PastUser \cup SignUpSteps \cup {"brCreate", "brRename"}
  BY <1>2, <1>3, NotIdle DEF BranchSteps
<1>9. Writers'
  <2>1. WriterOK(r)'
    BY <1>1, <1>2, <1>3, <1>8, NotIdle DEF WriterOK, PartSteps
  <2>2. \A f \in Accounts : NoRow(f)'
    BY <1>0, <1>1, <1>6 DEF Writers, NoRow
  <2>3. QED
    BY <1>0, <1>2, <1>7, <1>8, <2>1, <2>2, WritersFrom
<1>10. CodesApart'
  BY <1>0, <1>1, <1>2, <1>3, <1>5, CodesKept
<1>11. DishesPlaced'
  BY <1>1, <1>7, PlacedKept
<1>12. \A f \in Accounts : AloneAt(f)'
  BY <1>0, <1>1, <1>2, <1>5, <1>8, AloneStays
<1>13. ASSUME NEW f \in Accounts \ {e}
       PROVE  SignUpInTurn(f)' /\ NameInTurn(f)' /\ RefusedFor(f)'
  <2>1. Of(req[r], e) /\ Of(req'[r], e)
    BY <1>1, <1>2, <1>3, NotIdle DEF Of
  <2>2. Owned(f)' = Owned(f) /\ \A i : DishesOf(i)' = DishesOf(i)
    BY <1>1 DEF Owned, DishesOf
  <2>3. QED
    BY <1>0, <1>1, <1>2, <1>5, <1>6, <2>1, <2>2, ElseKept
<1>14. SignUpInTurn(e)'
  <2>1. KeptParts(e)
    BY <1>1, <1>2, <1>5, <1>6, <1>8, NotIdle DEF KeptParts, Others, Owned, DishesOf
  <2>2. QED
    BY <1>0, <2>1, TurnKept
<1>15. RefusedFor(e)'
  BY <1>0, <1>5, RefusedKept
<1>16. NameInTurn(e)'
  <2>1. CASE AtWork({"coName", "suCompany"}, e) # {}
    BY <1>4, <1>5, <2>1 DEF NameInTurn, Noted
  <2>2. CASE AtWork({"coName", "suCompany"}, e) = {}
    <3>1. \A q \in Requests : req'[q].pc \in NameSteps /\ req'[q].account = e => q = r
      BY <1>2, <2>2 DEF Others, AtWork, Busy, NameSteps
    <3>2. /\ \A q : q \in AtWork(NameSteps, e)' => q = r
          /\ r \in AtWork(NameSteps, e)'
          /\ \A q : q \in AtWork({"coName"}, e)' => q = r
          /\ AtWork({"suCompany"}, e)' = {}
      BY <1>2, <1>3, <3>1 DEF AtWork, Busy, NameSteps
    <3>3. company'[e] = req'[r].name
      BY <1>2, <1>3, <1>6
    <3>4. QED
      BY <3>2, <3>3 DEF NameInTurn
  <2>3. QED
    BY <2>1, <2>2
<1>17. QED
  BY <1>9, <1>10, <1>11, <1>12, <1>13, <1>14, <1>15, <1>16 DEF SignUpInv

LEMMA OtherKeeps ==
    ASSUME TInv, SignUpInv, NEW e \in Accounts, NEW blank \in BOOLEAN, UpsertOther(e, blank)
    PROVE  SignUpInv'
<1> DEFINE S == IF company[e] = "none" THEN {e} ELSE {}
<1>0. /\ Writers /\ CodesApart /\ DishesPlaced
      /\ \A f \in Accounts : SignUpInTurn(f) /\ AloneAt(f) /\ RefusedFor(f) /\ NameInTurn(f)
  BY DEF SignUpInv
<1>1. /\ account[e].row = "here" /\ UNCHANGED <<req, account, branches, dishes>>
      /\ company' = [company EXCEPT ![e] = IF blank \/ company[e] = "none" THEN ""
                                          ELSE company[e]]
      /\ Note(S, "renames")
  BY DEF UpsertOther, NoteIf
<1>4. company[e] = "none" => e \in S
  OBVIOUS
<1> HIDE DEF S
<1>5. \A f \in Accounts : /\ consoleNotes[f] \subseteq consoleNotes'[f]
                          /\ "failed" \in consoleNotes'[f] => "failed" \in consoleNotes[f]
                          /\ f \in S => "renames" \in consoleNotes'[f]
  BY <1>1, NoteKeeps
<1>6. /\ \A f \in Accounts \ {e} : company'[f] = company[f]
      /\ company'[e] \in {company[e], ""}
      /\ company'[e] # "none"
  <2>1. company \in [Accounts -> Names \cup {"none", ""}]
    BY DEF TInv, ConsoleTypeOK
  <2>2. QED
    BY <1>1, <2>1
<1>7. Grows
  BY <1>1, <1>5, <1>6 DEF Grows
<1>9. Writers'
  <2>1. \A q \in Requests : WriterOK(q)'
    BY <1>0, <1>1, <1>7, WriterKept DEF Writers
  <2>2. Single'
    BY <1>0, <1>1 DEF Writers, Single
  <2>3. \A f \in Accounts : NoRow(f)'
    BY <1>0, <1>1, <1>6 DEF Writers, NoRow
  <2>4. QED
    BY <2>1, <2>2, <2>3 DEF Writers
<1>10. CodesApart'
  BY <1>0, <1>1, <1>5 DEF CodesApart, Noted
<1>11. DishesPlaced'
  BY <1>1, <1>7, PlacedKept
<1>12. ASSUME NEW f \in Accounts
       PROVE  SignUpInTurn(f)' /\ AloneAt(f)' /\ RefusedFor(f)' /\ NameInTurn(f)'
  <2>1. KeptParts(f)
    BY <1>1, <1>5, <1>6 DEF KeptParts, Owned, DishesOf
  <2>2. SignUpInTurn(f)' /\ RefusedFor(f)'
    BY <1>0, <1>5, <2>1, TurnKept, RefusedKept
  <2>3. AloneAt(f)'
    <3>1. \A c : Taken(c)' <=> Taken(c)
      BY <1>1 DEF Taken
    <3>2. QED
      BY <1>0, <1>1, <1>5, <3>1, AloneKept
  <2>4. NameInTurn(f)'
    <3>1. CASE f = e /\ company[e] = "none"
      BY <1>4, <1>5, <3>1 DEF NameInTurn, Noted
    <3>2. CASE f = e /\ company[e] # "none"
      <4>1. ~Noted(f, {"renames"})' => ~Noted(f, {"renames"})
        BY <1>5 DEF Noted
      <4>2. /\ \A S2 : AtWork(S2, f)' = AtWork(S2, f)
            /\ account' = account /\ req' = req
        BY <1>1 DEF AtWork, Busy
      <4>3. Noted(f, {"fault"}) => Noted(f, {"fault"})'
        BY <1>5 DEF Noted
      <4>4. NameInTurn(f) /\ company'[f] \in {company[f], ""} /\ company[f] # "none"
        BY <1>0, <1>6, <3>2
      <4>5. QED
        BY <4>1, <4>2, <4>3, <4>4 DEF NameInTurn
    <3>3. CASE f # e
      <4>1. KeptNames(f)
        BY <1>1, <1>5, <1>6, <3>3 DEF KeptNames
      <4>2. QED
        BY <1>0, <4>1, NamesKept
    <3>4. QED
      BY <3>1, <3>2, <3>3
  <2>5. QED
    BY <2>2, <2>3, <2>4
<1>13. QED
  BY <1>9, <1>10, <1>11, <1>12 DEF SignUpInv

LEMMA CoNameKeeps ==
    ASSUME TInv, SignUpInv, NEW r \in Requests, CoName(r)
    PROVE  SignUpInv'
<1>e. PICK e : e = req[r].account
  OBVIOUS
<1>0. /\ Writers /\ CodesApart
      /\ \A f \in Accounts : SignUpInTurn(f) /\ AloneAt(f) /\ RefusedFor(f) /\ NameInTurn(f)
  BY DEF SignUpInv
<1>1. /\ req[r].pc = "coName" /\ req[r].account = e /\ req' = [req EXCEPT ![r] = Idle]
      /\ account' = [account EXCEPT ![e].name = req[r].name]
      /\ UNCHANGED <<company, branches, dishes, consoleNotes>>
  BY <1>e DEF CoName, End, Become
<1>2. Others(r) /\ req'[r].pc = "idle"
  BY <1>1, Ended DEF Others, TInv
<1>3. e \in Accounts /\ account[e].row = "here"
  BY <1>0, <1>1 DEF Writers, WriterOK
<1>4. /\ account'[e].row = account[e].row /\ account'[e].name = req[r].name
      /\ \A f \in Accounts \ {e} : account'[f] = account[f]
  <2>1. account \in [Accounts -> Account] /\ account[e] \in Account
    BY <1>3 DEF TInv, ConsoleTypeOK
  <2>2. QED
    BY <1>1, <1>3, <2>1 DEF Account
<1>5. \A f \in Accounts : /\ consoleNotes[f] \subseteq consoleNotes'[f]
                          /\ "failed" \in consoleNotes'[f] => "failed" \in consoleNotes[f]
                          /\ account'[f].row = account[f].row
  BY <1>1, <1>4
<1>7. Grows
  BY <1>1, <1>5 DEF Grows
<1>8. /\ req'[r].pc \notin PastUser \cup SignUpSteps \cup {"brCreate", "brRename", "suDish"}
      /\ req[r].pc \notin PastUser
  BY <1>1, <1>2, NotIdle DEF BranchSteps
<1>9. Writers'
  <2>1. WriterOK(r)'
    BY <1>2, IdleWriter
  <2>2. \A f \in Accounts : NoRow(f)'
    BY <1>0, <1>1, <1>5 DEF Writers, NoRow
  <2>3. QED
    BY <1>0, <1>2, <1>7, <1>8, <2>1, <2>2, WritersFrom
<1>10. CodesApart'
  BY <1>0, <1>1, <1>2, <1>5, <1>8, CodesKept
<1>11. DishesPlaced'
  BY <1>1, <1>7, PlacedKept
<1>12. \A f \in Accounts : AloneAt(f)'
  BY <1>0, <1>1, <1>2, <1>5, <1>8, AloneStays
<1>p. Owned(e)' = Owned(e) /\ \A i : DishesOf(i)' = DishesOf(i)
  BY <1>1 DEF Owned, DishesOf
<1>13. ASSUME NEW f \in Accounts \ {e}
       PROVE  SignUpInTurn(f)' /\ NameInTurn(f)' /\ RefusedFor(f)'
  <2>1. Of(req[r], e) /\ Of(req'[r], e)
    BY <1>1, <1>2, NotIdle DEF Of
  <2>2. Owned(f)' = Owned(f) /\ \A i : DishesOf(i)' = DishesOf(i)
    BY <1>1 DEF Owned, DishesOf
  <2>3. QED
    BY <1>0, <1>1, <1>2, <1>4, <1>5, <2>1, <2>2, ElseKept
<1>14. SignUpInTurn(e)'
  <2>1. \A q \in Requests : req[q].pc \in PastUser \/ req'[q].pc \in PastUser => req'[q] = req[q]
    BY <1>2, <1>8 DEF Others
  <2>2. KeptParts(e)
    BY <1>1, <1>3, <1>5, <1>p, <2>1 DEF KeptParts
  <2>3. QED
    BY <1>0, <1>3, <2>2, TurnKept
<1>15. RefusedFor(e)'
  BY <1>0, <1>3, <1>5, RefusedKept
<1>16. NameInTurn(e)'
  <2> SUFFICES ASSUME ~Noted(e, {"renames"})
               PROVE  /\ AtWork(NameSteps, e)' = {} /\ AtWork({"suCompany"}, e)' = {}
                      /\ AtWork({"coName"}, e)' = {}
                      /\ account'[e].name = company'[e] \/ company'[e] = ""
    BY <1>1 DEF NameInTurn, Noted
  <2>1. NameInTurn(e)
    BY <1>0, <1>3
  <2>2. r \in AtWork(NameSteps, e) /\ r \in AtWork({"coName"}, e)
    BY <1>1 DEF AtWork, Busy, NameSteps
  <2>3. company[e] \in {req[r].name, ""} /\ \A q \in AtWork(NameSteps, e) : q = r
    BY <2>1, <2>2 DEF NameInTurn
  <2>4. \A q \in Requests : ~(req'[q].pc \in NameSteps /\ req'[q].account = e)
    BY <1>2, <2>3, NotIdle DEF AtWork, Busy, Others
  <2>5. QED
    BY <1>1, <1>4, <2>3, <2>4 DEF AtWork, Busy, NameSteps
<1>17. QED
  BY <1>9, <1>10, <1>11, <1>12, <1>13, <1>14, <1>15, <1>16 DEF SignUpInv

\* A query fails: what the handler has written stays, and the fault is noted.
LEMMA FaultKeeps ==
    ASSUME TInv, SignUpInv, NEW r \in Requests, ConsoleFault(r)
    PROVE  SignUpInv'
<1>e. PICK e : e = req[r].account
  OBVIOUS
<1>0. /\ Writers /\ CodesApart
      /\ \A f \in Accounts : SignUpInTurn(f) /\ AloneAt(f) /\ RefusedFor(f) /\ NameInTurn(f)
  BY DEF SignUpInv
<1>1. /\ req[r].pc \in SignUpSteps \cup {"coName", "fgWrite", "rsWrite"}
      /\ req[r].account = e /\ req' = [req EXCEPT ![r] = Idle]
      /\ UNCHANGED <<account, company, branches, dishes>> /\ Note({e}, "fault")
  BY <1>e DEF ConsoleFault, Throw
<1>2. Others(r) /\ req'[r].pc = "idle"
  BY <1>1, Ended DEF Others, TInv
<1>5. \A f \in Accounts : /\ consoleNotes[f] \subseteq consoleNotes'[f]
                          /\ "failed" \in consoleNotes'[f] => "failed" \in consoleNotes[f]
                          /\ f = e => "fault" \in consoleNotes'[f]
  BY <1>1, NoteKeeps
<1>7. Grows
  BY <1>1, <1>5 DEF Grows
<1>8. /\ req'[r].pc \notin PastUser \cup SignUpSteps \cup NameSteps
      /\ req'[r].pc \notin {"brCreate", "brRename", "suDish"}
  BY <1>2, NotIdle
<1>9. Writers'
  <2>1. WriterOK(r)'
    BY <1>2, IdleWriter
  <2>2. \A f \in Accounts : NoRow(f)'
    BY <1>0, <1>1 DEF Writers, NoRow
  <2>3. QED
    BY <1>0, <1>2, <1>7, <1>8, <2>1, <2>2, WritersFrom
<1>10. CodesApart'
  BY <1>0, <1>1, <1>2, <1>5, <1>8, CodesKept
<1>11. DishesPlaced'
  BY <1>1, <1>7, PlacedKept
<1>12. \A f \in Accounts : AloneAt(f)'
  BY <1>0, <1>1, <1>2, <1>5, <1>8, AloneStays
<1>13. ASSUME NEW f \in Accounts \ {e}
       PROVE  SignUpInTurn(f)' /\ NameInTurn(f)' /\ RefusedFor(f)'
  <2>1. Of(req[r], e) /\ Of(req'[r], e)
    BY <1>1, <1>2, NotIdle DEF Of
  <2>2. Owned(f)' = Owned(f) /\ \A i : DishesOf(i)' = DishesOf(i)
    BY <1>1 DEF Owned, DishesOf
  <2>3. QED
    BY <1>0, <1>1, <1>2, <1>5, <2>1, <2>2, ElseKept
<1>14. ASSUME e \in Accounts PROVE SignUpInTurn(e)'
  <2>1. CASE req[r].pc \in PastUser
    <3>1. \A q \in Requests : ~(req'[q].pc \in PastUser /\ req'[q].account = e)
      BY <1>0, <1>1, <1>2, <1>8, <2>1 DEF Writers, Single, Others
    <3>2. AtWork(PastUser, e)' = {}
      BY <3>1, AtWorkNext
    <3>3. QED
      BY <1>5, <1>14, <3>2 DEF SignUpInTurn, Noted
  <2>2. CASE req[r].pc \notin PastUser
    <3>1. \A q \in Requests : req[q].pc \in PastUser \/ req'[q].pc \in PastUser => req'[q] = req[q]
      BY <1>2, <1>8, <2>2 DEF Others
    <3>2. KeptParts(e)
      BY <1>1, <1>5, <1>14, <3>1 DEF KeptParts, Owned, DishesOf
    <3>3. QED
      BY <1>0, <1>14, <3>2, TurnKept
  <2>3. QED
    BY <2>1, <2>2
<1>15. ASSUME e \in Accounts PROVE RefusedFor(e)'
  BY <1>0, <1>5, <1>15, RefusedKept
<1>16. ASSUME e \in Accounts PROVE NameInTurn(e)'
  <2>1. CASE req[r].pc \in NameSteps
    <3> SUFFICES ASSUME ~Noted(e, {"renames"})'
                 PROVE  /\ AtWork(NameSteps, e)' = {} /\ AtWork({"suCompany"}, e)' = {}
                        /\ AtWork({"coName"}, e)' = {} /\ Noted(e, {"fault"})'
      BY DEF NameInTurn
    <3>1. ~Noted(e, {"renames"})
      BY <1>5, <1>16 DEF Noted
    <3>2. r \in AtWork(NameSteps, e)
      BY <1>1, <2>1 DEF AtWork, Busy
    <3>3. \A q \in AtWork(NameSteps, e) : q = r
      BY <1>0, <1>16, <3>1, <3>2 DEF NameInTurn
    <3>4. \A q \in Requests : ~(req'[q].pc \in NameSteps /\ req'[q].account = e)
      BY <1>2, <1>8, <3>3 DEF AtWork, Busy, Others
    <3>5. Noted(e, {"fault"})'
      BY <1>5, <1>16 DEF Noted
    <3>6. QED
      BY <3>4, <3>5 DEF AtWork, Busy, NameSteps
  <2>2. CASE req[r].pc \notin NameSteps
    <3>1. \A q \in Requests : req[q].pc \in NameSteps \/ req'[q].pc \in NameSteps => req'[q] = req[q]
      BY <1>2, <1>8, <2>2 DEF Others
    <3>2. KeptNames(e)
      BY <1>1, <1>5, <1>16, <3>1 DEF KeptNames
    <3>3. QED
      BY <1>0, <1>16, <3>2, NamesKept
  <2>3. QED
    BY <2>1, <2>2
<1>17. QED
  BY <1>9, <1>10, <1>11, <1>12, <1>13, <1>14, <1>15, <1>16 DEF SignUpInv

\* The second half of a request about a branch: what it leaves alone.
LEMMA BranchKeeps ==
    ASSUME TInv, SignUpInv, NEW r \in Requests, req[r].pc \in BranchSteps,
           Others(r), req'[r].pc = "idle",
           UNCHANGED <<account, company, consoleNotes>>,
           \A i \in DOMAIN branches : /\ i \in DOMAIN branches'
                                      /\ branches'[i].signer = branches[i].signer,
           \A i \in DOMAIN branches' \ DOMAIN branches : branches'[i].signer \notin Accounts,
           DOMAIN dishes' = DOMAIN dishes,
           \A k \in DOMAIN dishes : /\ dishes'[k].code = dishes[k].code
                                    /\ dishes'[k].branch \in {0, dishes[k].branch},
           \A e \in Accounts : ~Noted(e, {"edited"}) =>
               /\ Owned(e)' = Owned(e)
               /\ \A i \in Owned(e) : /\ branches'[i].tables = branches[i].tables
                                      /\ DishesOf(i)' = DishesOf(i),
           req[r].pc = "brRemove" => \A c : Taken(c)' => Taken(c)
    PROVE  SignUpInv'
<1>0. /\ Writers /\ CodesApart /\ DishesPlaced
      /\ \A f \in Accounts : SignUpInTurn(f) /\ AloneAt(f) /\ RefusedFor(f) /\ NameInTurn(f)
  BY DEF SignUpInv
<1>1. {req[r].pc, req'[r].pc} \cap (PastUser \cup SignUpSteps \cup NameSteps) = {}
  BY NotIdle DEF BranchSteps, NameSteps
<1>2. Grows
  BY DEF Grows
<1>3. Writers'
  <2>1. WriterOK(r)'
    BY IdleWriter
  <2>2. \A e \in Accounts : NoRow(e)'
    BY <1>0 DEF Writers, NoRow
  <2>3. req'[r].pc \notin PastUser
    BY <1>1
  <2>4. QED
    BY <1>0, <1>2, <2>1, <2>2, <2>3, WritersFrom
<1>4. CodesApart'
  BY <1>0, CodesKept
<1>5. DishesPlaced'
  BY <1>0 DEF DishesPlaced
<1>6. ASSUME NEW e \in Accounts
      PROVE  SignUpInTurn(e)' /\ NameInTurn(e)' /\ RefusedFor(e)'
  <2>1. NameInTurn(e)'
    <3>1. KeptNames(e)
      BY <1>1 DEF KeptNames, Others
    <3>2. QED
      BY <1>0, <3>1, NamesKept
  <2>2. SignUpInTurn(e)'
    <3>1. CASE Noted(e, {"edited"})
      BY <3>1 DEF SignUpInTurn, Noted
    <3>2. CASE ~Noted(e, {"edited"})
      <4>1. KeptParts(e)
        BY <1>1, <3>2 DEF KeptParts, Others
      <4>2. QED
        BY <1>0, <4>1, TurnKept
    <3>3. QED
      BY <3>1, <3>2
  <2>3. QED
    BY <1>0, <2>1, <2>2, RefusedKept
<1>7. ASSUME NEW e \in Accounts PROVE AloneAt(e)'
  <2>1. \A q \in Requests : req'[q].pc \in SignUpSteps \cup {"brCreate", "brRename"} =>
                               req'[q] = req[q]
    BY NotIdle DEF Others, BranchSteps
  <2>2. \A q \in Requests :
         /\ req'[q].pc \in SignUpSteps /\ req'[q].account = e =>
               req[q].pc \in SignUpSteps /\ req[q].account = e
         /\ req'[q].pc \in SignUpSteps \cup {"brCreate", "brRename"} =>
               req[q].pc \in SignUpSteps \cup {"brCreate", "brRename"}
    BY <2>1
  <2>3. ASSUME NEW q \in Requests,
               req[q].pc \in SignUpSteps,
               \A p \in Requests \ {q} :
                   req[p].pc \notin SignUpSteps \cup {"brCreate", "brRename"},
               req[q].pc = "suBranch" => ~Taken(req[q].n),
               req'[q].pc = "suBranch"
        PROVE  ~Taken(req[q].n)'
    <3>1. q # r
      BY <1>1, <2>3
    <3>2. req'[q] = req[q]
      BY <3>1 DEF Others
    <3>3. req[r].pc = "brRemove"
      BY <2>3, <3>1 DEF BranchSteps
    <3>4. PICK c : c = req[q].n
      OBVIOUS
    <3>5. ~Taken(c)'
      BY <2>3, <3>2, <3>3, <3>4
    <3>6. req'[q].n = c
      BY <3>2, <3>4
    <3>7. QED
      BY <3>5, <3>6 DEF Taken
  <2>4. QED
    BY <1>0, <2>2, <2>3, AloneKept
<1>8. QED
  BY <1>3, <1>4, <1>5, <1>6, <1>7 DEF SignUpInv

LEMMA CreateKeeps ==
    ASSUME TInv, SignUpInv, NEW r \in Requests, BrCreate(r)
    PROVE  SignUpInv'
<1> DEFINE b == [owner |-> req[r].owner, signer |-> "none", code |-> req[r].code,
                 tables |-> {}, gone |-> FALSE]
<1>1. /\ req[r].pc = "brCreate" /\ req' = [req EXCEPT ![r] = Idle]
      /\ UNCHANGED <<account, company, dishes, consoleNotes>>
      /\ branches' = branches \/ branches' = Append(branches, b)
  BY DEF BrCreate, End, Become
<1>2. Others(r) /\ req'[r].pc = "idle"
  BY <1>1, Ended DEF Others, TInv
<1>3. req[r].pc \in BranchSteps
  BY <1>1 DEF BranchSteps
<1>4. b \in Branch /\ b.signer = "none" /\ "none" \notin Accounts
  <2>1. req[r] \in BranchHandler
    BY <1>3, HandlerKinds DEF TInv, ReqOK
  <2>2. req[r].code \in Nat /\ req[r].owner \in Accounts \cup {"none"}
    BY <2>1 DEF BranchHandler
  <2>3. QED
    BY <2>2, ConsoleAssumption DEF Branch
<1> HIDE DEF b
<1>5. /\ \A i \in DOMAIN branches : i \in DOMAIN branches' /\ branches'[i] = branches[i]
      /\ \A i \in DOMAIN branches' \ DOMAIN branches : branches'[i] = b
  <2>1. CASE branches' = branches
    BY <2>1
  <2>2. CASE branches' = Append(branches, b)
    BY <1>4, <2>2, BranchAdded DEF TInv
  <2>3. QED
    BY <1>1, <2>1, <2>2
<1>6. \A e \in Accounts : Owned(e)' = Owned(e) /\ \A i : DishesOf(i)' = DishesOf(i)
  BY <1>1, <1>4, <1>5 DEF Owned, DishesOf
<1>7. \A e \in Accounts : \A i \in Owned(e) : branches'[i].tables = branches[i].tables
  BY <1>5 DEF Owned
<1>8. QED
  BY <1>1, <1>2, <1>3, <1>4, <1>5, <1>6, <1>7, BranchKeeps

LEMMA RenameKeeps ==
    ASSUME TInv, SignUpInv, NEW r \in Requests, BrRename(r)
    PROVE  SignUpInv'
<1> DEFINE j == req[r].branch
<1>1. /\ req[r].pc = "brRename" /\ req' = [req EXCEPT ![r] = Idle]
      /\ UNCHANGED <<account, company, dishes, consoleNotes>>
      /\ branches' = branches \/ branches' = [branches EXCEPT ![j].code = req[r].code]
  BY DEF BrRename, End, Become
<1>2. Others(r) /\ req'[r].pc = "idle"
  BY <1>1, Ended DEF Others, TInv
<1>3. req[r].pc \in BranchSteps
  BY <1>1 DEF BranchSteps
<1>5. /\ DOMAIN branches' = DOMAIN branches
      /\ \A i \in DOMAIN branches : /\ branches'[i].signer = branches[i].signer
                                    /\ branches'[i].tables = branches[i].tables
                                    /\ branches'[i].gone = branches[i].gone
  <2>1. \A i \in DOMAIN branches : branches[i] \in Branch
    BY ConsoleRows DEF TInv
  <2>2. CASE branches' = [branches EXCEPT ![j].code = req[r].code]
    BY <2>1, <2>2 DEF Branch
  <2>3. QED
    BY <1>1, <2>2
<1>6. \A e \in Accounts : Owned(e)' = Owned(e) /\ \A i : DishesOf(i)' = DishesOf(i)
  BY <1>1, <1>5 DEF Owned, DishesOf
<1>7. \A e \in Accounts : \A i \in Owned(e) : branches'[i].tables = branches[i].tables
  BY <1>5 DEF Owned
<1>8. QED
  BY <1>1, <1>2, <1>3, <1>5, <1>6, <1>7, BranchKeeps

LEMMA RemoveKeeps ==
    ASSUME TInv, SignUpInv, NEW r \in Requests, BrRemove(r)
    PROVE  SignUpInv'
<1>j. PICK j : j = req[r].branch
  OBVIOUS
<1>1. /\ req[r].pc = "brRemove" /\ req' = [req EXCEPT ![r] = Idle]
      /\ UNCHANGED <<account, company, consoleNotes>>
      /\ branches' = [branches EXCEPT ![j].gone = TRUE]
      /\ dishes' = [k \in DOMAIN dishes |->
                       IF dishes[k].branch = j THEN [dishes[k] EXCEPT !.branch = 0]
                       ELSE dishes[k]]
  BY <1>j DEF BrRemove, End, Become
<1>2. Others(r) /\ req'[r].pc = "idle"
  BY <1>1, Ended DEF Others, TInv
<1>3. req[r].pc \in BranchSteps
  BY <1>1 DEF BranchSteps
<1>4. /\ j \in DOMAIN branches
      /\ \A e \in Accounts : branches[j].signer = e => Noted(e, {"edited"})
  BY <1>j, <1>1 DEF SignUpInv, Writers, WriterOK
<1>r. /\ \A i \in DOMAIN branches : branches[i] \in Branch /\ i \in Nat /\ i # 0
      /\ \A k \in DOMAIN dishes : dishes[k] \in Dish
  <2>1. ConsoleTypeOK
    BY DEF TInv
  <2>2. DOMAIN branches = 1..Len(branches) /\ Len(branches) \in Nat
    BY <2>1, ConsoleRows
  <2>3. \A i \in DOMAIN branches : i \in Nat /\ i # 0
    BY <2>2
  <2>4. QED
    BY <2>1, <2>3, ConsoleRows
<1>5. /\ DOMAIN branches' = DOMAIN branches
      /\ \A i \in DOMAIN branches : /\ branches'[i].signer = branches[i].signer
                                    /\ branches'[i].tables = branches[i].tables
                                    /\ branches'[i].code = branches[i].code
                                    /\ i # j => branches'[i] = branches[i]
      /\ branches'[j].gone
  BY <1>1, <1>4, <1>r DEF Branch
<1>6. /\ DOMAIN dishes' = DOMAIN dishes
      /\ \A k \in DOMAIN dishes :
            /\ dishes'[k].code = dishes[k].code
            /\ dishes'[k].branch = IF dishes[k].branch = j THEN 0 ELSE dishes[k].branch
  BY <1>1, <1>r DEF Dish
<1>7. ASSUME NEW e \in Accounts, ~Noted(e, {"edited"})
      PROVE  /\ Owned(e)' = Owned(e)
             /\ \A i \in Owned(e) : /\ branches'[i].tables = branches[i].tables
                                    /\ DishesOf(i)' = DishesOf(i)
  <2>1. branches[j].signer # e
    BY <1>4, <1>7
  <2>2. Owned(e)' = Owned(e)
    BY <1>4, <1>5, <2>1 DEF Owned
  <2>3. ASSUME NEW i \in Owned(e)
        PROVE  branches'[i].tables = branches[i].tables /\ DishesOf(i)' = DishesOf(i)
    <3>1. i \in DOMAIN branches /\ i # j
      BY <2>1 DEF Owned
    <3>2. i # 0
      BY <1>r, <3>1
    <3>3. DishesOf(i)' = DishesOf(i)
      BY <1>6, <3>1, <3>2 DEF DishesOf
    <3>4. QED
      BY <1>5, <3>1, <3>3
  <2>4. QED
    BY <2>2, <2>3
<1>8. \A c : Taken(c)' => Taken(c)
  BY <1>4, <1>5 DEF Taken
<1>9. \A k \in DOMAIN dishes : dishes'[k].branch \in {0, dishes[k].branch}
  BY <1>6
<1>10. QED
  BY <1>1, <1>2, <1>3, <1>5, <1>6, <1>7, <1>8, <1>9, BranchKeeps

\* A sign-up is refused a row, and throws.
LEMMA FailKeeps ==
    ASSUME TInv, SignUpInv, NEW r \in Requests, Others(r), Fails(r), req[r].pc \in PastUser,
           req[r].account \in Accounts =>
              \/ Repeats(req[r].account)
              \/ Noted(req[r].account, {"overlap", "edited", "renames"}),
           req[r].pc = "suCompany" => Noted(req[r].account, {"renames"})
    PROVE  SignUpInv'
<1>e. PICK e : e = req[r].account
  OBVIOUS
<1>0. /\ Writers /\ CodesApart
      /\ \A f \in Accounts : SignUpInTurn(f) /\ AloneAt(f) /\ RefusedFor(f) /\ NameInTurn(f)
  BY DEF SignUpInv
<1>1. /\ req[r].account = e /\ req'[r].pc = "idle" /\ Note({e}, "failed")
      /\ UNCHANGED <<account, company, branches, dishes>>
  BY <1>e DEF Fails
<1>2. e \in Accounts => Repeats(e) \/ Noted(e, {"overlap", "edited", "renames"})
  BY <1>1
<1>3. e \in Accounts
  BY <1>0, <1>1 DEF Writers, WriterOK
<1>5. \A f \in Accounts : /\ consoleNotes[f] \subseteq consoleNotes'[f]
                          /\ f # e => consoleNotes'[f] = consoleNotes[f]
                          /\ f = e => "failed" \in consoleNotes'[f]
  BY <1>1, NoteKeeps
<1>7. Grows
  BY <1>1, <1>5 DEF Grows
<1>8. /\ req'[r].pc \notin PastUser \cup SignUpSteps \cup NameSteps
      /\ req'[r].pc \notin {"brCreate", "brRename", "suDish"}
  BY <1>1, NotIdle
<1>9. Writers'
  <2>1. WriterOK(r)'
    BY <1>1, IdleWriter
  <2>2. \A f \in Accounts : NoRow(f)'
    BY <1>0, <1>1 DEF Writers, NoRow
  <2>3. QED
    BY <1>0, <1>7, <1>8, <2>1, <2>2, WritersFrom
<1>10. CodesApart'
  BY <1>0, <1>1, <1>5, <1>8, CodesKept
<1>11. DishesPlaced'
  BY <1>1, <1>7, PlacedKept
<1>12. \A f \in Accounts : AloneAt(f)'
  BY <1>0, <1>1, <1>5, <1>8, AloneStays
<1>13. ASSUME NEW f \in Accounts \ {e}
       PROVE  SignUpInTurn(f)' /\ NameInTurn(f)' /\ RefusedFor(f)'
  <2>1. Of(req[r], e) /\ Of(req'[r], e)
    BY <1>1, NotIdle DEF Of
  <2>2. Owned(f)' = Owned(f) /\ \A i : DishesOf(i)' = DishesOf(i)
    BY <1>1 DEF Owned, DishesOf
  <2>3. QED
    BY <1>0, <1>1, <1>5, <2>1, <2>2, ElseKept
<1>14. SignUpInTurn(e)'
  <2>1. \A q \in Requests : ~(req'[q].pc \in PastUser /\ req'[q].account = e)
    BY <1>0, <1>1, <1>8 DEF Writers, Single, Others
  <2>2. AtWork(PastUser, e)' = {}
    BY <2>1, AtWorkNext
  <2>3. QED
    BY <1>3, <1>5, <2>2 DEF SignUpInTurn, Noted
<1>15. RefusedFor(e)'
  BY <1>2, <1>3, <1>5 DEF RefusedFor, Noted
<1>16. NameInTurn(e)'
  <2>1. CASE req[r].pc = "suCompany"
    <3>1. Noted(e, {"renames"})
      BY <1>1, <2>1
    <3>2. Noted(e, {"renames"})'
      BY <1>3, <1>5, <3>1 DEF Noted
    <3>3. QED
      BY <3>2 DEF NameInTurn
  <2>2. CASE req[r].pc # "suCompany"
    <3>1. req[r].pc \notin NameSteps
      BY <2>2, NotIdle DEF NameSteps
    <3>2. \A q \in Requests : req[q].pc \in NameSteps \/ req'[q].pc \in NameSteps => req'[q] = req[q]
      BY <1>8, <3>1 DEF Others
    <3>3. KeptNames(e)
      BY <1>1, <1>3, <1>5, <3>2 DEF KeptNames
    <3>4. QED
      BY <1>0, <1>3, <3>3, NamesKept
  <2>3. QED
    BY <2>1, <2>2
<1>17. QED
  BY <1>9, <1>10, <1>11, <1>12, <1>13, <1>14, <1>15, <1>16 DEF SignUpInv

\* The one sign-up that is past its account is where it should be, or done.
LEMMA TurnTaken ==
    ASSUME SignUpInv, NEW r \in Requests, NEW e \in Accounts, req[r].account = e,
           req[r].pc \in PastUser, Others(r), consoleNotes' = consoleNotes,
           \/ req'[r].pc = "idle"
           \/ req'[r].pc \in PastUser /\ req'[r].account = e,
           ~Noted(e, {"edited"}) /\ Made(req[r]) =>
               /\ req'[r].pc = "idle" => Whole(e)'
               /\ req'[r].pc # "idle" => Made(req[r])'
    PROVE  SignUpInTurn(e)'
<1> SUFFICES ASSUME ~Noted(e, {"edited"})
             PROVE  /\ \A q \in AtWork(PastUser, e)' : Made(req[q])'
                    /\ AtWork(PastUser, e)' = {} => Whole(e)'
  BY DEF SignUpInTurn, Noted
<1>1. r \in AtWork(PastUser, e)
  BY DEF AtWork, Busy
<1>2. Made(req[r])
  BY <1>1 DEF SignUpInv, SignUpInTurn
<1>3. \A q \in Requests : req'[q].pc \in PastUser /\ req'[q].account = e => q = r
  BY DEF SignUpInv, Writers, Single, Others
<1>4. \A q \in AtWork(PastUser, e)' : q = r /\ req'[q].pc \in PastUser
  BY <1>3, AtWorkNext
<1>5. req'[r].pc \in PastUser => r \in AtWork(PastUser, e)'
  BY AtWorkNext, NotIdle
<1>6. QED
  BY <1>2, <1>4, <1>5, NotIdle

\* A sign-up that has its company goes on.
LEMMA PartKeeps ==
    ASSUME TInv, SignUpInv, NEW r \in Requests, NEW e \in Accounts, req[r].account = e,
           req[r].pc \in PastUser \ {"suCompany"}, Others(r),
           UNCHANGED <<account, company, consoleNotes>>,
           \/ req'[r].pc = "idle"
           \/ /\ req'[r].pc \in PastUser \ {"suCompany"} /\ req'[r].account = e
              /\ req'[r].pc \in PartSteps => /\ req'[r].branch \in DOMAIN branches'
                                             /\ branches'[req'[r].branch].signer = e,
           \A i \in DOMAIN branches : /\ i \in DOMAIN branches'
                                      /\ branches'[i].signer = branches[i].signer,
           \A i \in DOMAIN branches' \ DOMAIN branches : branches'[i].signer = e,
           \A f \in Accounts \ {e} :
               /\ Owned(f)' = Owned(f)
               /\ \A i \in Owned(f) : /\ branches'[i].tables = branches[i].tables
                                      /\ DishesOf(i)' = DishesOf(i),
           req'[r].pc = "suBranch" =>
               branches' = branches /\ req'[r].n = req[r].n /\ ~Taken(req[r].n),
           DishesPlaced', CodesApart',
           ~Noted(e, {"edited"}) /\ Made(req[r]) =>
               /\ req'[r].pc = "idle" => Whole(e)'
               /\ req'[r].pc # "idle" => Made(req[r])'
    PROVE  SignUpInv'
<1>0. /\ Writers /\ CodesApart
      /\ \A f \in Accounts : SignUpInTurn(f) /\ AloneAt(f) /\ RefusedFor(f) /\ NameInTurn(f)
  BY DEF SignUpInv
<1>7. Grows
  BY DEF Grows
<1>8. /\ req[r].pc \in SignUpSteps \ NameSteps
      /\ req'[r].pc \notin NameSteps \cup {"brCreate", "brRename"}
      /\ req'[r].pc \in SignUpSteps => req'[r].account = e
  BY NotIdle DEF NameSteps, PastUser, BranchSteps
<1>9. Writers'
  <2>1. account[e].row = "here"
    BY <1>0 DEF Writers, WriterOK
  <2>2. ASSUME NEW f \in Accounts PROVE NoRow(f)'
    <3>1. NoRow(f)
      BY <1>0 DEF Writers
    <3>2. QED
      BY <2>1, <3>1 DEF NoRow
  <2>3. QED
    BY <1>0, <1>7, <2>2, WritersKept
<1>12. ASSUME NEW f \in Accounts PROVE AloneAt(f)'
  <2>1. \A q \in Requests :
         /\ req'[q].pc \in SignUpSteps \cup {"brCreate", "brRename"} =>
               req[q].pc \in SignUpSteps \cup {"brCreate", "brRename"}
         /\ req'[q].pc \in SignUpSteps /\ req'[q].account = f =>
               req[q].pc \in SignUpSteps /\ req[q].account = f
    BY <1>8 DEF Others
  <2>2. ASSUME NEW q \in Requests,
               \A p \in Requests \ {q} :
                   req[p].pc \notin SignUpSteps \cup {"brCreate", "brRename"},
               req'[q].pc = "suBranch"
        PROVE  ~Taken(req[q].n)'
    <3>1. q = r
      BY <1>8, <2>2
    <3>2. PICK c : c = req[r].n
      OBVIOUS
    <3>3. branches' = branches /\ req'[r].n = c /\ ~Taken(c)
      BY <2>2, <3>1, <3>2
    <3>4. QED
      BY <3>1, <3>3 DEF Taken
  <2>3. consoleNotes[f] \subseteq consoleNotes'[f]
    OBVIOUS
  <2>4. QED
    BY <1>0, <2>1, <2>2, <2>3, AloneKept
<1>13. ASSUME NEW f \in Accounts \ {e}
       PROVE  SignUpInTurn(f)' /\ NameInTurn(f)' /\ RefusedFor(f)'
  <2>1. Of(req[r], e) /\ Of(req'[r], e)
    BY <1>8, NotIdle DEF Of, NameSteps
  <2>2. QED
    BY <1>0, <2>1, ElseKept
<1>14. SignUpInTurn(e)'
  BY TurnTaken
<1>15. RefusedFor(e)'
  BY <1>0, RefusedKept
<1>16. NameInTurn(e)'
  <2>1. KeptNames(e)
    BY <1>8 DEF KeptNames, Others
  <2>2. QED
    BY <1>0, <2>1, NamesKept
<1>17. QED
  BY <1>9, <1>12, <1>13, <1>14, <1>15, <1>16 DEF SignUpInv

\* Nothing is the first 0 parts, and a part that is complete is one more.
LEMMA NothingStands ==
    ASSUME NEW e, NEW S, S = {}
    PROVE  Stands(e, 0, S)'
<1>1. Cardinality(S) = 0
  BY FS_EmptySet
<1>2. /\ {branches'[i].tables : i \in S} = {}
      /\ {ToSet(SignUps[e].tables[j]) : j \in 1..0} = {}
  OBVIOUS
<1>3. QED
  BY <1>1, <1>2 DEF Stands

LEMMA OneMoreStands ==
    ASSUME NEW e \in Accounts, NEW k \in Nat, k > 0, k <= Len(SignUps[e].tables),
           NEW S, IsFiniteSet(S), NEW i \in S, Stands(e, k - 1, S \ {i})',
           Cardinality(DishesOf(i)') = SignUps[e].dishes,
           branches'[i].tables =
               {SignUps[e].tables[k][j] : j \in 1..Len(SignUps[e].tables[k])}
    PROVE  Stands(e, k, S)'
<1>1. /\ SignUps[e].tables[k] \in Seq(Nat)
      /\ k \in 1..Len(SignUps[e].tables) /\ Len(SignUps[e].tables) \in Nat
  BY Asked
<1>2. ToSet(SignUps[e].tables[k]) = branches'[i].tables
  BY <1>1 DEF ToSet
<1>3. Cardinality(S) = k
  <2>1. Cardinality(S \ {i}) = k - 1
    BY DEF Stands
  <2>2. Cardinality(S \ {i}) = Cardinality(S) - 1 /\ Cardinality(S) \in Nat
    BY FS_RemoveElement, FS_CardinalityType
  <2>3. QED
    BY <2>1, <2>2
<1>4. \A q \in S : Cardinality(DishesOf(q)') = SignUps[e].dishes
  BY DEF Stands
<1>5. {branches'[q].tables : q \in S} = {ToSet(SignUps[e].tables[j]) : j \in 1..k}
  <2>1. {branches'[q].tables : q \in S \ {i}} = {ToSet(SignUps[e].tables[j]) : j \in 1..(k - 1)}
    BY DEF Stands
  <2>2. {branches'[q].tables : q \in S}
          = {branches'[q].tables : q \in S \ {i}} \cup {branches'[i].tables}
    OBVIOUS
  <2>3. 1..k = (1..(k - 1)) \cup {k}
    OBVIOUS
  <2>4. {ToSet(SignUps[e].tables[j]) : j \in 1..k}
          = {ToSet(SignUps[e].tables[j]) : j \in 1..(k - 1)} \cup {ToSet(SignUps[e].tables[k])}
    BY <2>3
  <2>5. QED
    BY <1>2, <2>1, <2>2, <2>4
<1>6. QED
  BY <1>3, <1>4, <1>5 DEF Stands

\* The branches of an account, and the dishes of a branch, are finitely many.
LEMMA RowsFewNext ==
    ASSUME TInv', NEW e, NEW i
    PROVE  IsFiniteSet(Owned(e)') /\ IsFiniteSet(DishesOf(i)')
<1>1. branches' \in Seq(Branch) /\ dishes' \in Seq(Dish)
  BY DEF TInv, ConsoleTypeOK
<1>2. /\ DOMAIN branches' = 1..Len(branches') /\ Len(branches') \in Nat
  BY <1>1
<1>3. /\ DOMAIN dishes' = 1..Len(dishes') /\ Len(dishes') \in Nat
  BY <1>1
<1>4. IsFiniteSet(DOMAIN branches') /\ IsFiniteSet(DOMAIN dishes')
  BY <1>2, <1>3, FS_Interval
<1>5. Owned(e)' \subseteq DOMAIN branches' /\ DishesOf(i)' \subseteq DOMAIN dishes'
  BY DEF Owned, DishesOf
<1>6. QED
  BY <1>4, <1>5, FS_Subset

\* A part that has come as far as it says, from where the sign-up goes on.
LEMMA MadeNext ==
    ASSUME TInv', NEW r \in Requests, NEW e \in Accounts,
           NEW k \in Nat, k > 0, k <= Len(SignUps[e].tables), NEW i, NEW d, NEW t,
           GoesOnFrom(r, e, k, i, d, t), company'[e] # "none",
           i \in Owned(e)', Cardinality(DishesOf(i)') = d,
           branches'[i].tables = {SignUps[e].tables[k][j] : j \in 1..t},
           NEW T, T = Owned(e)' \ {i}, Stands(e, k - 1, T)'
    PROVE  /\ req'[r].pc = "idle" => Whole(e)'
           /\ req'[r].pc # "idle" => Made(req[r])'
<1>1. PICK S : S = Owned(e)'
  OBVIOUS
<1>2. i \in S /\ T = S \ {i} /\ IsFiniteSet(S)
  BY <1>1, RowsFewNext
<1>3. ASSUME d = SignUps[e].dishes, t = Len(SignUps[e].tables[k])
      PROVE  Stands(e, k, S)'
  BY <1>2, <1>3, OneMoreStands
<1>4. ASSUME req'[r].pc = "idle" PROVE Whole(e)'
  <2>1. k = Len(SignUps[e].tables) /\ Stands(e, k, S)'
    BY <1>3, <1>4 DEF GoesOnFrom
  <2>2. Stands(e, Len(SignUps[e].tables), Owned(e))'
    BY <1>1, <2>1
  <2>3. QED
    BY <2>2, WholeNext
<1>5. ASSUME req'[r].pc \in {"suDishProbe", "suTable"} PROVE Made(req[r])'
  <2>1. /\ req'[r].account = e /\ req'[r].at = k /\ req'[r].branch = i
        /\ req'[r].dish = d /\ req'[r].tab = t
    BY <1>5 DEF GoesOnFrom
  <2>2. /\ Cardinality(T) = k - 1
        /\ \A b \in T : Cardinality(DishesOf(b)') = SignUps[e].dishes
        /\ {branches'[b].tables : b \in T}
              = {ToSet(SignUps[e].tables[j]) : j \in 1..(k - 1)}
    BY DEF Stands
  <2>3. Owned(req[r].account)' = Owned(e)'
    BY <2>1 DEF Owned
  <2>4. (Owned(req[r].account) \ {req[r].branch})' = T
    BY <2>1, <2>3
  <2>5. HasPart(req[r])'
    <3>1. (Stands(req[r].account, req[r].at - 1, Owned(req[r].account) \ {req[r].branch}))'
      <4>1. (Cardinality(Owned(req[r].account) \ {req[r].branch}) = req[r].at - 1)'
        BY <2>1, <2>2, <2>4
      <4>2. (\A b \in Owned(req[r].account) \ {req[r].branch} :
                Cardinality(DishesOf(b)) = SignUps[req[r].account].dishes)'
        BY <2>1, <2>2, <2>4
      <4>3. ({branches[b].tables : b \in Owned(req[r].account) \ {req[r].branch}}
               = {ToSet(SignUps[req[r].account].tables[j]) : j \in 1..(req[r].at - 1)})'
        BY <2>1, <2>2, <2>4
      <4>4. QED
        BY <4>1, <4>2, <4>3 DEF Stands
    <3>2. /\ (req[r].branch \in Owned(req[r].account))'
          /\ Cardinality(DishesOf(req[r].branch))' = req'[r].dish
      BY <2>1, <2>3
    <3>3. (branches[req[r].branch].tables
             = {SignUps[req[r].account].tables[req[r].at][j] : j \in 1..req[r].tab})'
      BY <2>1
    <3>4. QED
      BY <3>1, <3>2, <3>3 DEF HasPart
  <2>6. QED
    BY <1>5, <2>1, <2>5 DEF Made
<1>6. ASSUME req'[r].pc = "suProbe" PROVE Made(req[r])'
  <2>1. /\ req'[r].account = e /\ req'[r].at = k + 1 /\ Stands(e, k, S)'
    BY <1>3, <1>6 DEF GoesOnFrom
  <2>2. req'[r].at - 1 = k
    BY <2>1
  <2>3. Stands(e, req[r].at - 1, S)'
    BY <2>1, <2>2
  <2>4. QED
    BY <1>1, <1>6, <2>1, <2>3 DEF Made, PartSteps
<1>7. req'[r].pc \in {"idle", "suDishProbe", "suTable", "suProbe"}
  BY DEF GoesOnFrom
<1>8. QED
  BY <1>4, <1>5, <1>6, <1>7

LEMMA SuUserKeeps ==
    ASSUME TInv, SignUpInv, NEW r \in Requests, SuUser(r)
    PROVE  SignUpInv'
<1>e. PICK e : e = req[r].account
  OBVIOUS
<1>0. /\ Writers /\ CodesApart
      /\ \A f \in Accounts : SignUpInTurn(f) /\ AloneAt(f) /\ RefusedFor(f) /\ NameInTurn(f)
  BY DEF SignUpInv
<1>1. /\ req[r].pc = "suUser" /\ e \in Accounts /\ req[r].account = e /\ Others(r)
      /\ UNCHANGED <<company, branches, dishes, consoleNotes>>
      /\ \/ req'[r].pc = "idle" /\ account' = account
         \/ /\ account[e].row = "none"
            /\ account'[e].row = "here" /\ account'[e].name = SignUps[e].name
            /\ \A f \in Accounts \ {e} : account'[f] = account[f]
            /\ req'[r].pc = "suCompany" /\ req'[r].account = e
  BY <1>e, UserDoes
<1>2. Grows
  BY <1>1 DEF Grows
<1>3. req[r].pc \notin PastUser \cup NameSteps /\ req[r].pc \in SignUpSteps
  BY <1>1, NotIdle DEF NameSteps
<1>4. \A f : Owned(f)' = Owned(f) /\ \A i : DishesOf(i)' = DishesOf(i)
  BY <1>1 DEF Owned, DishesOf
<1>5. DishesPlaced'
  BY <1>1, <1>2, PlacedKept
<1>6. req'[r].pc \in {"idle", "suCompany"} /\ req'[r].pc \notin {"suDish", "suBranch"}
  BY <1>1
<1>7. CodesApart'
  BY <1>0, <1>1, <1>6, CodesKept
<1>8. ASSUME NEW f \in Accounts PROVE AloneAt(f)' /\ RefusedFor(f)'
  <2>1. \A c : Taken(c)' <=> Taken(c)
    BY <1>1 DEF Taken
  <2>2. \A q \in Requests :
         /\ req'[q].pc \in SignUpSteps \cup {"brCreate", "brRename"} =>
               req[q].pc \in SignUpSteps \cup {"brCreate", "brRename"}
         /\ req'[q].pc \in SignUpSteps /\ req'[q].account = f =>
               req[q].pc \in SignUpSteps /\ req[q].account = f
         /\ req'[q].pc = "suBranch" => req'[q] = req[q]
    BY <1>1, <1>3, <1>6, NotIdle DEF Others
  <2>3. AloneAt(f)'
    BY <1>0, <1>1, <2>1, <2>2, AloneKept
  <2>4. QED
    BY <1>0, <1>1, <2>3, RefusedKept
<1>9. CASE req'[r].pc = "idle" /\ account' = account
  <2>1. req'[r].pc \notin PastUser \cup NameSteps
    BY <1>9, NotIdle
  <2>2. Writers'
    <3>1. \A f \in Accounts : NoRow(f)'
      BY <1>0, <1>1, <1>9 DEF Writers, NoRow
    <3>2. WriterOK(r)'
      BY <1>9, IdleWriter
    <3>3. QED
      BY <1>0, <1>1, <1>2, <2>1, <3>1, <3>2, WritersFrom
  <2>3. ASSUME NEW f \in Accounts PROVE SignUpInTurn(f)' /\ NameInTurn(f)'
    <3>1. \A q \in Requests :
            \/ req[q].pc \in PastUser \cup NameSteps
            \/ req'[q].pc \in PastUser \cup NameSteps
            => req'[q] = req[q]
      BY <1>1, <1>3, <2>1 DEF Others
    <3>2. KeptParts(f) /\ KeptNames(f)
      BY <1>1, <1>4, <1>9, <3>1 DEF KeptParts, KeptNames
    <3>3. QED
      BY <1>0, <3>2, TurnKept, NamesKept
  <2>4. QED
    BY <1>5, <1>7, <1>8, <2>2, <2>3 DEF SignUpInv
<1>10. CASE /\ account[e].row = "none"
            /\ account'[e].row = "here" /\ account'[e].name = SignUps[e].name
            /\ \A f \in Accounts \ {e} : account'[f] = account[f]
            /\ req'[r].pc = "suCompany" /\ req'[r].account = e
  <2>1. \A q \in Requests : ~(req[q].pc \in PastUser \cup {"coName"} /\ req[q].account = e)
    BY <1>0, <1>10 DEF Writers, WriterOK
  <2>2. company[e] = "none" /\ \A i \in DOMAIN branches : branches[i].signer # e
    BY <1>0, <1>1, <1>10 DEF Writers, NoRow
  <2>3. Writers'
    <3>1. ASSUME NEW q \in Requests PROVE WriterOK(q)'
      <4>1. CASE q = r
        BY <1>1, <1>10, <4>1 DEF WriterOK, PartSteps
      <4>2. CASE q # r
        <5>1. req'[q] = req[q] /\ WriterOK(q)
          BY <1>0, <1>1, <4>2 DEF Others, Writers
        <5>2. QED
          BY <1>2, <5>1, WriterKept
      <4>3. QED
        BY <4>1, <4>2
    <3>2. Single'
      BY <1>0, <1>1, <1>10, <2>1 DEF Writers, Single, Others
    <3>3. \A f \in Accounts : NoRow(f)'
      BY <1>0, <1>1, <1>10 DEF Writers, NoRow
    <3>4. QED
      BY <3>1, <3>2, <3>3 DEF Writers
  <2>4. ASSUME NEW f \in Accounts \ {e} PROVE SignUpInTurn(f)' /\ NameInTurn(f)'
    <3>1. Of(req[r], e) /\ Of(req'[r], e)
      BY <1>1, <1>10 DEF Of
    <3>2. QED
      BY <1>0, <1>1, <1>4, <1>10, <3>1, ElseKept
  <2>5. \A q \in Requests : /\ req'[q].pc \in PastUser \cup NameSteps /\ req'[q].account = e => q = r
                            /\ req'[q].pc = "coName" /\ req'[q].account = e => FALSE
    BY <1>1, <1>10, <2>1, NotIdle DEF Others, NameSteps
  <2>6. SignUpInTurn(e)'
    <3>1. /\ \A q \in AtWork(PastUser, e)' : q = r
          /\ r \in AtWork(PastUser, e)'
      BY <1>10, <2>5, AtWorkNext, NotIdle
    <3>2. Owned(e)' = {}
      BY <1>4, <2>2 DEF Owned
    <3>3. Made(req[r])'
      BY <1>10, <3>2 DEF Made, PartSteps
    <3>4. QED
      BY <3>1, <3>3 DEF SignUpInTurn
  <2>7. NameInTurn(e)'
    <3>1. \A q \in AtWork(NameSteps, e)' : q = r
      BY <2>5, AtWorkNext
    <3>2. r \in AtWork(NameSteps, e)' /\ AtWork({"coName"}, e)' = {}
      BY <1>10, <2>5, AtWorkNext DEF NameSteps
    <3>3. company'[e] = "none" /\ account'[e].name = SignUps[e].name
      BY <1>1, <1>10, <2>2
    <3>4. QED
      BY <3>1, <3>2, <3>3 DEF NameInTurn
  <2>8. QED
    BY <1>5, <1>7, <1>8, <2>3, <2>4, <2>6, <2>7 DEF SignUpInv
<1>11. QED
  BY <1>1, <1>9, <1>10

LEMMA SuCompanyKeeps ==
    ASSUME TInv, SignUpInv, NEW r \in Requests, SuCompany(r)
    PROVE  SignUpInv'
<1>e. PICK e : e = req[r].account
  OBVIOUS
<1>0. /\ Writers /\ CodesApart
      /\ \A f \in Accounts : SignUpInTurn(f) /\ AloneAt(f) /\ RefusedFor(f) /\ NameInTurn(f)
  BY DEF SignUpInv
<1>1. /\ req[r].pc = "suCompany" /\ e \in Accounts /\ req[r].account = e /\ Others(r)
      /\ UNCHANGED <<account, branches, dishes>>
      /\ \/ company[e] # "none" /\ Fails(r)
         \/ /\ company[e] = "none"
            /\ company' = [company EXCEPT ![e] = SignUps[e].name]
            /\ consoleNotes' = consoleNotes
            /\ \/ req'[r].pc = "idle" /\ Len(SignUps[e].tables) = 0
               \/ req'[r].pc = "suProbe" /\ req'[r].account = e /\ req'[r].at = 1
  BY <1>e, CompanyDoes
<1>2. req[r].pc \in PastUser /\ r \in AtWork({"suCompany"}, e) /\ r \in AtWork(NameSteps, e)
  BY <1>1, NotIdle DEF AtWork, Busy, NameSteps
<1>3. CASE company[e] # "none" /\ Fails(r)
  <2>1. Noted(e, {"renames"})
    BY <1>0, <1>1, <1>2, <1>3 DEF NameInTurn
  <2>2. Noted(e, {"overlap", "edited", "renames"})
    BY <2>1 DEF Noted
  <2>3. QED
    BY <1>1, <1>2, <1>3, <2>1, <2>2, FailKeeps
<1>4. CASE /\ company[e] = "none"
           /\ company' = [company EXCEPT ![e] = SignUps[e].name]
           /\ consoleNotes' = consoleNotes
           /\ \/ req'[r].pc = "idle" /\ Len(SignUps[e].tables) = 0
              \/ req'[r].pc = "suProbe" /\ req'[r].account = e /\ req'[r].at = 1
  <2>1. /\ company'[e] = SignUps[e].name /\ company'[e] # "none"
        /\ \A f \in Accounts \ {e} : company'[f] = company[f]
    <3>1. company \in [Accounts -> Names \cup {"none", ""}]
      BY DEF TInv, ConsoleTypeOK
    <3>2. SignUps[e].name \in Names /\ "none" \notin Names
      BY <1>1, Asked, ConsoleAssumption
    <3>3. QED
      BY <1>1, <1>4, <3>1, <3>2
  <2>2. Grows
    BY <1>1, <1>4, <2>1 DEF Grows
  <2>3. \A f : Owned(f)' = Owned(f) /\ \A i : DishesOf(i)' = DishesOf(i)
    BY <1>1 DEF Owned, DishesOf
  <2>4. /\ req'[r].pc \in {"idle", "suProbe"} /\ req'[r].pc \notin PartSteps \cup NameSteps
        /\ req'[r].pc \notin {"suDish", "suBranch", "brCreate", "brRename"}
        /\ \/ req'[r].pc = "idle"
           \/ req'[r].pc \in PastUser /\ req'[r].account = e
    <3>1. /\ req'[r].pc \in {"idle", "suProbe"}
          /\ \/ req'[r].pc = "idle"
             \/ req'[r].pc = "suProbe" /\ req'[r].account = e
      BY <1>4
    <3>2. {"idle", "suProbe"} \cap (PartSteps \cup NameSteps) = {} /\ "suProbe" \in PastUser
      BY NotIdle DEF PartSteps, NameSteps
    <3>3. QED
      BY <3>1, <3>2
  <2>5. Writers'
    <3>1. account[e].row = "here"
      BY <1>0, <1>1, <1>2 DEF Writers, WriterOK
    <3>2. ASSUME NEW f \in Accounts PROVE NoRow(f)'
      BY <1>0, <1>1, <2>1, <3>1 DEF Writers, NoRow
    <3>3. QED
      BY <1>0, <1>1, <1>2, <2>2, <2>4, <3>2, WritersKept
  <2>6. DishesPlaced'
    BY <1>1, <2>2, PlacedKept
  <2>7. CodesApart'
    BY <1>0, <1>1, <1>4, <2>4, CodesKept
  <2>8. ASSUME NEW f \in Accounts PROVE AloneAt(f)' /\ RefusedFor(f)'
    <3>1. \A c : Taken(c)' <=> Taken(c)
      BY <1>1 DEF Taken
    <3>2. \A q \in Requests :
           /\ req'[q].pc \in SignUpSteps \cup {"brCreate", "brRename"} =>
                 req[q].pc \in SignUpSteps \cup {"brCreate", "brRename"}
           /\ req'[q].pc \in SignUpSteps /\ req'[q].account = f =>
                 req[q].pc \in SignUpSteps /\ req[q].account = f
           /\ req'[q].pc = "suBranch" => req'[q] = req[q]
      BY <1>1, <1>2, <2>4, NotIdle DEF Others
    <3>3. AloneAt(f)'
      BY <1>0, <1>4, <3>1, <3>2, <1>1, AloneKept
    <3>4. QED
      BY <1>0, <1>4, <3>3, RefusedKept
  <2>9. ASSUME NEW f \in Accounts \ {e} PROVE SignUpInTurn(f)' /\ NameInTurn(f)'
    <3>1. Of(req[r], e) /\ Of(req'[r], e)
      BY <1>1, <2>4, NotIdle DEF Of
    <3>2. QED
      BY <1>0, <1>1, <1>4, <2>1, <2>3, <3>1, ElseKept
  <2>10. SignUpInTurn(e)'
    <3>1. ASSUME Made(req[r])
          PROVE  /\ req'[r].pc = "idle" => Whole(e)'
                 /\ req'[r].pc # "idle" => Made(req[r])'
      <4>1. Owned(e)' = {}
        BY <1>1, <2>3, <3>1 DEF Made
      <4>2. PICK S : S = Owned(e)'
        OBVIOUS
      <4>3. Stands(e, 0, S)'
        BY <4>1, <4>2, NothingStands
      <4>4. ASSUME req'[r].pc = "idle" PROVE Whole(e)'
        <5>1. Stands(e, Len(SignUps[e].tables), Owned(e))'
          BY <1>4, <4>2, <4>3, <4>4
        <5>2. QED
          BY <1>1, <2>1, <5>1, WholeNext
      <4>5. ASSUME req'[r].pc # "idle" PROVE Made(req[r])'
        <5>1. req'[r].pc = "suProbe" /\ req'[r].account = e /\ req'[r].at = 1
          BY <1>4, <4>5
        <5>2. req'[r].at - 1 = 0
          BY <5>1
        <5>3. Stands(e, req[r].at - 1, S)'
          BY <4>3, <5>2
        <5>4. QED
          BY <2>1, <4>2, <5>1, <5>3 DEF Made, PartSteps
      <4>6. QED
        BY <4>4, <4>5
    <3>2. QED
      BY <1>1, <1>2, <1>4, <2>4, <3>1, TurnTaken
  <2>11. NameInTurn(e)'
    <3> SUFFICES ASSUME ~Noted(e, {"renames"})
                 PROVE  /\ AtWork(NameSteps, e)' = {} /\ AtWork({"suCompany"}, e)' = {}
                        /\ AtWork({"coName"}, e)' = {}
                        /\ account'[e].name = company'[e]
      BY <1>4 DEF NameInTurn, Noted
    <3>1. NameInTurn(e)
      BY <1>0, <1>1
    <3>2. account[e].name = SignUps[e].name /\ \A q \in AtWork(NameSteps, e) : q = r
      BY <1>2, <3>1 DEF NameInTurn
    <3>3. \A q \in Requests : ~(req'[q].pc \in NameSteps /\ req'[q].account = e)
      BY <1>1, <2>4, <3>2 DEF AtWork, Busy, Others
    <3>4. QED
      BY <1>1, <2>1, <3>2, <3>3 DEF AtWork, Busy, NameSteps
  <2>12. QED
    BY <2>5, <2>6, <2>7, <2>8, <2>9, <2>10, <2>11 DEF SignUpInv
<1>5. QED
  BY <1>1, <1>3, <1>4

LEMMA ProbeKeeps ==
    ASSUME TInv, SignUpInv, NEW r \in Requests, SuProbe(r) \/ SuDishProbe(r)
    PROVE  SignUpInv'
<1>h. PICK h : h = req[r]
  OBVIOUS
<1>e. PICK e : e = h.account
  OBVIOUS
<1>0. /\ Writers /\ CodesApart /\ DishesPlaced
  BY DEF SignUpInv
<1>1. /\ req[r] = h /\ h.account = e
      /\ h.pc \in {"suProbe", "suDishProbe"} /\ e \in Accounts /\ Others(r)
      /\ UNCHANGED <<account, company, branches, dishes, consoleNotes>>
      /\ req'[r].account = e /\ req'[r].at = h.at /\ req'[r].branch = h.branch
      /\ req'[r].dish = h.dish /\ req'[r].tab = h.tab
      /\ \/ req'[r].pc = h.pc
         \/ /\ h.pc = "suProbe" /\ req'[r].pc = "suBranch"
            /\ req'[r].n = h.n /\ ~Taken(h.n)
         \/ /\ h.pc = "suDishProbe" /\ req'[r].pc = "suDish"
            /\ req'[r].n = h.n /\ \A k \in DOMAIN dishes : dishes[k].code # h.n
  BY <1>h, <1>e, ProbeDoes
<1>2. /\ h.pc \in PastUser \ {"suCompany"} /\ req'[r].pc \in PastUser \ {"suCompany"}
      /\ req'[r].pc \in PartSteps <=> h.pc \in PartSteps
      /\ req'[r].pc \in {"suProbe", "suBranch"} <=> h.pc \in {"suProbe", "suBranch"}
      /\ req'[r].pc # "idle"
  BY <1>1, NotIdle DEF PartSteps
<1>3. h.pc \in PartSteps => h.branch \in DOMAIN branches /\ branches[h.branch].signer = e
  BY <1>0, <1>1 DEF Writers, WriterOK
<1>4. DishesPlaced'
  BY <1>0, <1>1 DEF DishesPlaced
<1>5. CodesApart'
  <2> SUFFICES ASSUME \A f \in Accounts : ~Noted(f, {"overlap"})
               PROVE  /\ \A j, k \in DOMAIN dishes : dishes[j].code = dishes[k].code => j = k
                      /\ \A q \in Requests : req'[q].pc = "suDish" =>
                            \A k \in DOMAIN dishes : dishes[k].code # req'[q].n
    BY <1>1 DEF CodesApart, Noted
  <2>1. /\ \A j, k \in DOMAIN dishes : dishes[j].code = dishes[k].code => j = k
        /\ \A q \in Requests : req[q].pc = "suDish" =>
              \A k \in DOMAIN dishes : dishes[k].code # req[q].n
    BY <1>0 DEF CodesApart
  <2>2. req'[r].pc = "suDish" => \A k \in DOMAIN dishes : dishes[k].code # req'[r].n
    BY <1>1
  <2>3. QED
    BY <1>1, <2>1, <2>2 DEF Others
<1>6. \A f : Owned(f)' = Owned(f) /\ \A i : DishesOf(i)' = DishesOf(i)
  BY <1>1 DEF Owned, DishesOf
<1>7. ASSUME Made(req[r]) PROVE Made(req[r])'
  <2>1. PICK S : S = Owned(e)
    OBVIOUS
  <2>2. Owned(e)' = S /\ company'[e] = company[e]
    BY <1>1, <1>6, <2>1
  <2>3. company[e] # "none"
    BY <1>1, <1>2, <1>7 DEF Made
  <2>4. ASSUME h.pc \in {"suProbe", "suBranch"} PROVE Stands(e, h.at - 1, S)'
    <3>1. Stands(e, h.at - 1, S)
      BY <1>1, <1>7, <2>1, <2>4 DEF Made
    <3>2. QED
      BY <1>1, <1>6, <3>1, StandsKept
  <2>5. ASSUME h.pc \in PartSteps
        PROVE  /\ h.branch \in S
               /\ Cardinality(DishesOf(h.branch)') = h.dish
               /\ branches'[h.branch].tables = {SignUps[e].tables[h.at][j] : j \in 1..h.tab}
               /\ Stands(e, h.at - 1, S \ {h.branch})'
    <3>1. /\ h.branch \in S
          /\ Cardinality(DishesOf(h.branch)) = h.dish
          /\ branches[h.branch].tables = {SignUps[e].tables[h.at][j] : j \in 1..h.tab}
          /\ Stands(e, h.at - 1, S \ {h.branch})
      BY <1>1, <1>7, <2>1, <2>5 DEF Made, HasPart
    <3>2. Stands(e, h.at - 1, S \ {h.branch})'
      BY <1>1, <1>6, <3>1, StandsKept
    <3>3. QED
      BY <1>1, <1>6, <3>1, <3>2
  <2>6. ASSUME req'[r].pc \in PartSteps PROVE HasPart(req[r])'
    <3>1. PICK i, k : i = h.branch /\ k = h.at
      OBVIOUS
    <3>2. /\ i \in S /\ Cardinality(DishesOf(i)') = h.dish
          /\ branches'[i].tables = {SignUps[e].tables[k][j] : j \in 1..h.tab}
          /\ Stands(e, k - 1, S \ {i})'
      BY <1>2, <2>5, <2>6, <3>1
    <3>3. /\ req'[r].account = e /\ req'[r].branch = i /\ req'[r].at = k
          /\ req'[r].dish = h.dish /\ req'[r].tab = h.tab
      BY <1>1, <3>1
    <3>4. QED
      BY <2>2, <3>2, <3>3 DEF HasPart, Stands
  <2>7. req'[r].pc \in {"suProbe", "suBranch"} => Stands(req[r].account, req[r].at - 1, Owned(req[r].account))'
    BY <1>1, <1>2, <2>2, <2>4 DEF Stands
  <2>8. QED
    BY <1>1, <1>2, <2>2, <2>3, <2>6, <2>7 DEF Made
<1>8. req'[r].pc = "suBranch" => req'[r].n = req[r].n /\ ~Taken(req[r].n)
  <2>1. ASSUME req'[r].pc = "suBranch", req'[r].pc = h.pc
        PROVE  FALSE
    BY <1>1, <2>1
  <2>2. QED
    BY <1>1, <2>1
<1>9. QED
  BY <1>1, <1>2, <1>3, <1>4, <1>5, <1>6, <1>7, <1>8, PartKeeps

LEMMA SuBranchKeeps ==
    ASSUME TInv, TInv', SignUpInv, NEW r \in Requests, SuBranch(r)
    PROVE  SignUpInv'
<1>h. PICK h : h = req[r]
  OBVIOUS
<1>e. PICK e, i : e = h.account /\ i = Len(branches) + 1
  OBVIOUS
<1>b. PICK b : b = [owner |-> e, signer |-> e, code |-> h.n, tables |-> {}, gone |-> FALSE]
  OBVIOUS
<1>0. /\ Writers /\ CodesApart /\ DishesPlaced
      /\ \A f \in Accounts : SignUpInTurn(f) /\ AloneAt(f)
  BY DEF SignUpInv
<1>1. /\ req[r] = h /\ h.account = e
      /\ h.pc = "suBranch" /\ e \in Accounts /\ Others(r)
      /\ h.at \in Nat /\ h.at > 0 /\ h.at <= Len(SignUps[e].tables)
      /\ UNCHANGED <<account, company, dishes>>
      /\ \/ Taken(h.n) /\ Fails(r)
         \/ /\ branches' = Append(branches, b)
            /\ i \in Nat
            /\ b \in Branch
            /\ consoleNotes' = consoleNotes
            /\ GoesOnFrom(r, e, h.at, i, 0, 0)
  BY <1>h, <1>e, <1>b, BranchDoes
<1>2. h.pc \in PastUser \ {"suCompany"} /\ h.pc \in SignUpSteps
  BY <1>1, NotIdle
<1>3. CASE Taken(h.n) /\ Fails(r)
  <2>1. r \in AtWork(SignUpSteps, e)
    BY <1>1, <1>2 DEF AtWork, Busy
  <2>2. Noted(e, {"overlap"})
    BY <1>0, <1>1, <1>3, <2>1 DEF AloneAt
  <2>3. Noted(e, {"overlap", "edited", "renames"})
    BY <2>2 DEF Noted
  <2>4. QED
    BY <1>1, <1>2, <1>3, <2>3, FailKeeps
<1>4. CASE /\ branches' = Append(branches, b)
           /\ i \in Nat
           /\ b \in Branch
           /\ consoleNotes' = consoleNotes
           /\ GoesOnFrom(r, e, h.at, i, 0, 0)
  <2>1. /\ DOMAIN branches' = DOMAIN branches \cup {i} /\ i \notin DOMAIN branches
        /\ branches'[i] = b /\ \A j \in DOMAIN branches : branches'[j] = branches[j]
    BY <1>4, <1>e, BranchAdded DEF TInv
  <2>2. b.signer = e /\ b.tables = {} /\ ~b.gone
    BY <1>b
  <2>3. /\ Owned(e)' = Owned(e) \cup {i} /\ i \notin Owned(e)
        /\ \A f \in Accounts \ {e} : Owned(f)' = Owned(f)
    BY <2>1, <2>2 DEF Owned
  <2>4. \A j : DishesOf(j)' = DishesOf(j)
    BY <1>1 DEF DishesOf
  <2>5. DishesPlaced'
    BY <1>0, <1>1, <2>1 DEF DishesPlaced
  <2>6. /\ \/ req'[r].pc = "idle"
           \/ req'[r].pc \in {"suDishProbe", "suTable", "suProbe"} /\ req'[r].account = e
        /\ req'[r].pc \in {"suDishProbe", "suTable"} => req'[r].branch = i
    BY <1>4 DEF GoesOnFrom
  <2>7. /\ req'[r].pc \notin {"suDish", "suBranch"}
        /\ \/ req'[r].pc = "idle"
           \/ /\ req'[r].pc \in PastUser \ {"suCompany"} /\ req'[r].account = e
              /\ req'[r].pc \in PartSteps => req'[r].branch = i
    BY <2>6, NotIdle DEF PartSteps
  <2>8. CodesApart'
    BY <1>0, <1>1, <1>4, <2>7, CodesKept
  <2>9. ASSUME Made(req[r])
        PROVE  /\ req'[r].pc = "idle" => Whole(e)'
               /\ req'[r].pc # "idle" => Made(req[r])'
    <3>1. PICK T : T = Owned(e)
      OBVIOUS
    <3>2. company[e] # "none" /\ Stands(e, h.at - 1, T)
      BY <1>1, <2>9, <3>1 DEF Made
    <3>3. \A j \in T : branches'[j].tables = branches[j].tables
      BY <2>1, <3>1 DEF Owned
    <3>4. Stands(e, h.at - 1, T)'
      BY <2>4, <3>2, <3>3, StandsKept
    <3>5. T = Owned(e)' \ {i} /\ i \in Owned(e)'
      BY <2>3, <3>1
    <3>6. Cardinality(DishesOf(i)') = 0
      <4>1. i # 0
        <5>1. Len(branches) \in Nat
          BY ConsoleRows DEF TInv
        <5>2. QED
          BY <1>e, <5>1
      <4>2. DishesOf(i) = {}
        BY <1>0, <2>1, <4>1 DEF DishesPlaced, DishesOf
      <4>3. QED
        BY <2>4, <4>2, FS_EmptySet
    <3>7. branches'[i].tables = {SignUps[e].tables[h.at][j] : j \in 1..0}
      BY <2>1, <2>2
    <3>8. GoesOnFrom(r, e, h.at, i, 0, 0) /\ company'[e] # "none"
      BY <1>1, <1>4, <3>2
    <3>9. QED
      BY <1>1, <3>4, <3>5, <3>6, <3>7, <3>8, MadeNext
  <2>10. \A f \in Accounts \ {e} : \A j \in Owned(f) :
             branches'[j].tables = branches[j].tables /\ DishesOf(j)' = DishesOf(j)
    BY <2>1, <2>4 DEF Owned
  <2>11. /\ \A j \in DOMAIN branches : /\ j \in DOMAIN branches'
                                       /\ branches'[j].signer = branches[j].signer
         /\ \A j \in DOMAIN branches' \ DOMAIN branches : branches'[j].signer = e
         /\ i \in DOMAIN branches' /\ branches'[i].signer = e
    BY <2>1, <2>2
  <2>12. QED
    BY <1>1, <1>2, <1>4, <2>3, <2>5, <2>7, <2>8, <2>9, <2>10, <2>11, PartKeeps
<1>5. QED
  BY <1>1, <1>3, <1>4

LEMMA SuDishKeeps ==
    ASSUME TInv, TInv', SignUpInv, NEW r \in Requests, SuDish(r)
    PROVE  SignUpInv'
<1>h. PICK h : h = req[r]
  OBVIOUS
<1>e. PICK e, i, m : e = h.account /\ i = h.branch /\ m = Len(dishes) + 1
  OBVIOUS
<1>d. PICK d : d = [branch |-> i, code |-> h.n]
  OBVIOUS
<1>0. /\ Writers /\ CodesApart /\ DishesPlaced
      /\ \A f \in Accounts : SignUpInTurn(f) /\ AloneAt(f)
  BY DEF SignUpInv
<1>1. /\ req[r] = h /\ h.account = e /\ h.branch = i
      /\ h.pc = "suDish" /\ e \in Accounts /\ Others(r)
      /\ h.at \in Nat /\ h.at > 0 /\ h.dish \in Nat /\ h.tab = 0
      /\ UNCHANGED <<account, company, branches>>
      /\ \/ branches[i].gone /\ Fails(r)
         \/ /\ dishes' = Append(dishes, d)
            /\ d \in Dish
            /\ consoleNotes' = consoleNotes
            /\ GoesOnFrom(r, e, h.at, i, h.dish + 1, h.tab)
  BY <1>h, <1>e, <1>d, DishDoes
<1>2. h.pc \in PastUser \ {"suCompany"} /\ h.pc \in SignUpSteps /\ h.pc \in PartSteps
  BY <1>1, NotIdle DEF PartSteps
<1>w. i \in DOMAIN branches /\ branches[i].signer = e
  BY <1>0, <1>1, <1>2 DEF Writers, WriterOK
<1>m. ASSUME ~Noted(e, {"edited"}) PROVE Made(req[r])
  <2>1. r \in AtWork(PastUser, e)
    BY <1>1, <1>2 DEF AtWork, Busy
  <2>2. QED
    BY <1>0, <1>1, <1>m, <2>1 DEF SignUpInTurn
<1>3. CASE branches[i].gone /\ Fails(r)
  <2>1. Made(req[r]) => ~branches[i].gone
    BY <1>1, <1>2 DEF Made, HasPart, Owned
  <2>2. Noted(e, {"overlap", "edited", "renames"})
    BY <1>m, <1>3, <2>1 DEF Noted
  <2>3. QED
    BY <1>1, <1>2, <1>3, <2>2, FailKeeps
<1>4. CASE /\ dishes' = Append(dishes, d)
           /\ d \in Dish
           /\ consoleNotes' = consoleNotes
           /\ GoesOnFrom(r, e, h.at, i, h.dish + 1, h.tab)
  <2>1. /\ DOMAIN dishes' = DOMAIN dishes \cup {m} /\ m \notin DOMAIN dishes
        /\ dishes'[m] = d /\ \A k \in DOMAIN dishes : dishes'[k] = dishes[k]
    BY <1>4, <1>e, DishAdded DEF TInv
  <2>2. d.branch = i /\ d.code = h.n
    BY <1>d
  <2>3. \A f : Owned(f)' = Owned(f)
    BY <1>1 DEF Owned
  <2>4. /\ DishesOf(i)' = DishesOf(i) \cup {m} /\ m \notin DishesOf(i)
        /\ \A j : j # i => DishesOf(j)' = DishesOf(j)
    BY <2>1, <2>2 DEF DishesOf
  <2>5. DishesPlaced'
    BY <1>0, <1>1, <1>w, <2>1, <2>2 DEF DishesPlaced
  <2>6. /\ \/ req'[r].pc = "idle"
           \/ req'[r].pc \in {"suDishProbe", "suTable", "suProbe"} /\ req'[r].account = e
        /\ req'[r].pc \in {"suDishProbe", "suTable"} => req'[r].branch = i
    BY <1>4 DEF GoesOnFrom
  <2>7. /\ req'[r].pc \notin {"suDish", "suBranch"}
        /\ \/ req'[r].pc = "idle"
           \/ /\ req'[r].pc \in PastUser \ {"suCompany"} /\ req'[r].account = e
              /\ req'[r].pc \in PartSteps => req'[r].branch = i
    BY <2>6, NotIdle DEF PartSteps
  <2>8. CodesApart'
    <3> SUFFICES ASSUME \A f \in Accounts : ~Noted(f, {"overlap"})
                 PROVE  /\ \A j, k \in DOMAIN dishes' : dishes'[j].code = dishes'[k].code => j = k
                        /\ \A q \in Requests : req'[q].pc # "suDish"
      BY <1>4 DEF CodesApart, Noted
    <3>1. /\ \A j, k \in DOMAIN dishes : dishes[j].code = dishes[k].code => j = k
          /\ \A k \in DOMAIN dishes : dishes[k].code # h.n
      BY <1>0, <1>1 DEF CodesApart
    <3>2. r \in AtWork(SignUpSteps, e)
      BY <1>1, <1>2 DEF AtWork, Busy
    <3>3. \A q \in Requests \ {r} : req[q].pc \notin SignUpSteps
      BY <1>0, <1>1, <3>2 DEF AloneAt
    <3>4. \A q \in Requests : req'[q].pc # "suDish"
      BY <1>1, <1>2, <2>7, <3>3 DEF Others
    <3>5. QED
      BY <2>1, <2>2, <3>1, <3>4
  <2>9. ASSUME Made(req[r])
        PROVE  /\ req'[r].pc = "idle" => Whole(e)'
               /\ req'[r].pc # "idle" => Made(req[r])'
    <3>1. PICK S, T : S = Owned(e) /\ T = S \ {i}
      OBVIOUS
    <3>2. /\ company[e] # "none" /\ Stands(e, h.at - 1, T) /\ i \in S
          /\ Cardinality(DishesOf(i)) = h.dish
          /\ branches[i].tables = {SignUps[e].tables[h.at][j] : j \in 1..h.tab}
      BY <1>1, <1>2, <2>9, <3>1 DEF Made, HasPart
    <3>4. Stands(e, h.at - 1, T)'
      BY <1>1, <2>4, <3>1, <3>2, StandsKept
    <3>5. T = Owned(e)' \ {i} /\ i \in Owned(e)'
      BY <2>3, <3>1, <3>2
    <3>6. Cardinality(DishesOf(i)') = h.dish + 1
      <4>1. PICK A : A = DishesOf(i)
        OBVIOUS
      <4>2. DishesOf(i)' = A \cup {m} /\ m \notin A /\ Cardinality(A) = h.dish
        BY <2>4, <3>2, <4>1
      <4>3. IsFiniteSet(A)
        <5>1. IsFiniteSet(DishesOf(i)')
          BY RowsFewNext
        <5>2. QED
          BY <4>2, <5>1, FS_Subset
      <4>4. QED
        BY <4>2, <4>3, FS_AddElement
    <3>7. branches'[i].tables = {SignUps[e].tables[h.at][j] : j \in 1..h.tab}
      BY <1>1, <3>2
    <3>8. GoesOnFrom(r, e, h.at, i, h.dish + 1, h.tab) /\ company'[e] # "none"
      BY <1>1, <1>4, <3>2
    <3>9. h.at <= Len(SignUps[e].tables)
      <4>1. InRequest(req[r])
        BY <1>1, <1>2, SignUpHas DEF TInv
      <4>2. QED
        BY <1>1, <4>1 DEF InRequest
    <3>10. QED
      BY <1>1, <3>4, <3>5, <3>6, <3>7, <3>8, <3>9, MadeNext
  <2>10. \A f \in Accounts \ {e} : \A j \in Owned(f) :
             branches'[j].tables = branches[j].tables /\ DishesOf(j)' = DishesOf(j)
    BY <1>1, <1>w, <2>4 DEF Owned
  <2>11. QED
    BY <1>1, <1>2, <1>4, <1>w, <2>3, <2>5, <2>7, <2>8, <2>9, <2>10, PartKeeps
<1>5. QED
  BY <1>1, <1>3, <1>4

LEMMA SuTableKeeps ==
    ASSUME TInv, TInv', SignUpInv, NEW r \in Requests, SuTable(r)
    PROVE  SignUpInv'
<1>h. PICK h : h = req[r]
  OBVIOUS
<1>e. PICK e, i, number : /\ e = h.account /\ i = h.branch
                          /\ number = SignUps[e].tables[h.at][h.tab + 1]
  OBVIOUS
<1>0. /\ Writers /\ CodesApart /\ DishesPlaced
      /\ \A f \in Accounts : SignUpInTurn(f) /\ AloneAt(f)
  BY DEF SignUpInv
<1>1. /\ req[r] = h /\ h.account = e /\ h.branch = i
      /\ h.pc = "suTable" /\ e \in Accounts /\ Others(r)
      /\ h.at \in Nat /\ h.at > 0 /\ h.at <= Len(SignUps[e].tables)
      /\ h.tab \in Nat /\ h.tab < Len(SignUps[e].tables[h.at])
      /\ UNCHANGED <<account, company, dishes>>
      /\ \/ /\ branches[i].gone \/ number \in branches[i].tables
            /\ Fails(r)
         \/ /\ branches' = [branches EXCEPT ![i] =
                  [branches[i] EXCEPT !.tables = branches[i].tables \cup {number}]]
            /\ consoleNotes' = consoleNotes
            /\ GoesOnFrom(r, e, h.at, i, h.dish, h.tab + 1)
  BY <1>h, <1>e, TableDoes
<1>2. h.pc \in PastUser \ {"suCompany"} /\ h.pc \in SignUpSteps /\ h.pc \in PartSteps
  BY <1>1, NotIdle DEF PartSteps
<1>w. i \in DOMAIN branches /\ branches[i].signer = e
  BY <1>0, <1>1, <1>2 DEF Writers, WriterOK
<1>m. ASSUME ~Noted(e, {"edited"}) PROVE Made(req[r])
  <2>1. r \in AtWork(PastUser, e)
    BY <1>1, <1>2 DEF AtWork, Busy
  <2>2. QED
    BY <1>0, <1>1, <1>m, <2>1 DEF SignUpInTurn
<1>k. PICK k, t : k = h.at /\ t = h.tab
  OBVIOUS
<1>s. /\ k \in Nat /\ k > 0 /\ k <= Len(SignUps[e].tables) /\ t \in Nat
      /\ Len(SignUps[e].tables[k]) \in Nat /\ t < Len(SignUps[e].tables[k])
      /\ number = SignUps[e].tables[k][t + 1]
      /\ k \in DOMAIN SignUps[e].tables
      /\ DOMAIN SignUps[e].tables[k] = 1..Len(SignUps[e].tables[k])
  <2>1. /\ k \in Nat /\ k > 0 /\ k <= Len(SignUps[e].tables) /\ t \in Nat
        /\ t < Len(SignUps[e].tables[k]) /\ number = SignUps[e].tables[k][t + 1]
    BY <1>e, <1>1, <1>k
  <2>2. Len(SignUps[e].tables) \in Nat /\ SignUps[e].tables \in Seq(Seq(Nat))
    BY <1>1, Asked
  <2>3. k \in 1..Len(SignUps[e].tables)
    BY <2>1, <2>2
  <2>4. Len(SignUps[e].tables[k]) \in Nat /\ SignUps[e].tables[k] \in Seq(Nat)
    BY <1>1, <2>3, Asked
  <2>5. QED
    BY <2>1, <2>2, <2>3, <2>4
<1>3. CASE (branches[i].gone \/ number \in branches[i].tables) /\ Fails(r)
  <2>1. ASSUME Made(req[r]) PROVE Repeats(e)
    <3>1. /\ ~branches[i].gone
          /\ branches[i].tables = {SignUps[e].tables[k][j] : j \in 1..t}
      BY <1>1, <1>2, <1>k, <2>1 DEF Made, HasPart, Owned
    <3>2. PICK j \in 1..t : SignUps[e].tables[k][j] = number
      BY <1>3, <3>1
    <3>3. j \in DOMAIN SignUps[e].tables[k] /\ t + 1 \in DOMAIN SignUps[e].tables[k] /\ j # t + 1
      BY <1>s
    <3>4. ~IsInjective(SignUps[e].tables[k])
      BY <1>s, <3>2, <3>3 DEF IsInjective
    <3>5. QED
      BY <1>s, <3>4 DEF Repeats
  <2>2. Repeats(e) \/ Noted(e, {"overlap", "edited", "renames"})
    BY <1>m, <2>1 DEF Noted
  <2>3. QED
    BY <1>1, <1>2, <1>3, <2>2, FailKeeps
<1>4. CASE /\ branches' = [branches EXCEPT ![i] =
                 [branches[i] EXCEPT !.tables = branches[i].tables \cup {number}]]
           /\ consoleNotes' = consoleNotes
           /\ GoesOnFrom(r, e, h.at, i, h.dish, h.tab + 1)
  <2>1. /\ DOMAIN branches' = DOMAIN branches
        /\ branches'[i].tables = branches[i].tables \cup {number}
        /\ \A j \in DOMAIN branches :
              /\ branches'[j].signer = branches[j].signer /\ branches'[j].gone = branches[j].gone
              /\ branches'[j].code = branches[j].code
              /\ j # i => branches'[j] = branches[j]
    <3>1. branches[i] \in Branch
      BY <1>w, ConsoleRows DEF TInv
    <3>2. QED
      BY <1>4, <1>w, <3>1 DEF Branch
  <2>3. \A f \in Accounts : Owned(f)' = Owned(f)
    BY <2>1 DEF Owned
  <2>4. \A j : DishesOf(j)' = DishesOf(j)
    BY <1>1 DEF DishesOf
  <2>5. DishesPlaced'
    BY <1>0, <1>1, <2>1 DEF DishesPlaced
  <2>6. /\ \/ req'[r].pc = "idle"
           \/ req'[r].pc \in {"suDishProbe", "suTable", "suProbe"} /\ req'[r].account = e
        /\ req'[r].pc \in {"suDishProbe", "suTable"} => req'[r].branch = i
    BY <1>4 DEF GoesOnFrom
  <2>7. /\ req'[r].pc \notin {"suDish", "suBranch"}
        /\ \/ req'[r].pc = "idle"
           \/ /\ req'[r].pc \in PastUser \ {"suCompany"} /\ req'[r].account = e
              /\ req'[r].pc \in PartSteps => req'[r].branch = i
    BY <2>6, NotIdle DEF PartSteps
  <2>8. CodesApart'
    BY <1>0, <1>1, <1>4, <2>7, CodesKept
  <2>9. ASSUME Made(req[r])
        PROVE  /\ req'[r].pc = "idle" => Whole(e)'
               /\ req'[r].pc # "idle" => Made(req[r])'
    <3>1. PICK S, T : S = Owned(e) /\ T = S \ {i}
      OBVIOUS
    <3>2. /\ company[e] # "none" /\ Stands(e, k - 1, T) /\ i \in S
          /\ Cardinality(DishesOf(i)) = h.dish
          /\ branches[i].tables = {SignUps[e].tables[k][j] : j \in 1..t}
      BY <1>1, <1>2, <1>k, <2>9, <3>1 DEF Made, HasPart
    <3>3. \A j \in T : branches'[j].tables = branches[j].tables
      BY <2>1, <3>1 DEF Owned
    <3>4. Stands(e, k - 1, T)'
      BY <2>4, <3>2, <3>3, StandsKept
    <3>5. T = Owned(e)' \ {i} /\ i \in Owned(e)'
      BY <1>1, <2>3, <3>1, <3>2
    <3>6. Cardinality(DishesOf(i)') = h.dish
      BY <2>4, <3>2
    <3>7. branches'[i].tables = {SignUps[e].tables[k][j] : j \in 1..(t + 1)}
      <4>1. 1..(t + 1) = (1..t) \cup {t + 1}
        BY <1>s
      <4>2. {SignUps[e].tables[k][j] : j \in 1..(t + 1)}
              = {SignUps[e].tables[k][j] : j \in 1..t} \cup {SignUps[e].tables[k][t + 1]}
        BY <4>1
      <4>3. QED
        BY <1>s, <2>1, <3>2, <4>2
    <3>8. GoesOnFrom(r, e, k, i, h.dish, t + 1) /\ company'[e] # "none"
      BY <1>1, <1>4, <1>k, <3>2
    <3>9. QED
      BY <1>1, <1>s, <3>4, <3>5, <3>6, <3>7, <3>8, MadeNext
  <2>10. \A f \in Accounts \ {e} : \A j \in Owned(f) :
             branches'[j].tables = branches[j].tables /\ DishesOf(j)' = DishesOf(j)
    BY <1>w, <2>1, <2>4 DEF Owned
  <2>11. \A j \in DOMAIN branches : /\ j \in DOMAIN branches'
                                    /\ branches'[j].signer = branches[j].signer
    BY <2>1
  <2>12. /\ \A j \in DOMAIN branches' \ DOMAIN branches : branches'[j].signer = e
         /\ i \in DOMAIN branches' /\ branches'[i].signer = e
    BY <1>w, <2>1
  <2>13. /\ req[r].account = e /\ req[r].pc \in PastUser \ {"suCompany"} /\ Others(r)
         /\ UNCHANGED <<account, company, consoleNotes>>
         /\ \/ req'[r].pc = "idle"
            \/ /\ req'[r].pc \in PastUser \ {"suCompany"} /\ req'[r].account = e
               /\ req'[r].pc \in PartSteps => /\ req'[r].branch \in DOMAIN branches'
                                              /\ branches'[req'[r].branch].signer = e
    BY <1>1, <1>2, <1>4, <2>7, <2>12
  <2>14. \A f \in Accounts \ {e} :
            /\ Owned(f)' = Owned(f)
            /\ \A j \in Owned(f) : /\ branches'[j].tables = branches[j].tables
                                   /\ DishesOf(j)' = DishesOf(j)
    BY <2>3, <2>10
  <2>15. QED
    BY <1>1, <2>5, <2>7, <2>8, <2>9, <2>11, <2>12, <2>13, <2>14, PartKeeps
<1>5. QED
  BY <1>1, <1>3, <1>4

LEMMA SignUpInvStep == TInv /\ SignUpInv /\ [Next]_vars => SignUpInv'
<1> SUFFICES ASSUME TInv, SignUpInv, [Next]_vars PROVE SignUpInv'
  OBVIOUS
<1>t. TInv' /\ ReqOK /\ account \in [Accounts -> Account]
  <2>1. TInv'
    BY TInvStep
  <2>2. QED
    BY <2>1 DEF TInv, ConsoleTypeOK
<1>p. (SignUpSteps \cup NameSteps \cup BranchSteps) \subseteq ConsoleSteps
  BY DEF ConsoleSteps, SignUpSteps, NameSteps, BranchSteps
<1>0. ASSUME NEW others, Moves(others), others \cap ConsoleSteps = {}, UNCHANGED consoleVars
      PROVE  SignUpInv'
  <2>1. \A q \in Requests :
          \/ req[q].pc \in SignUpSteps \cup NameSteps \cup BranchSteps
          \/ req'[q].pc \in SignUpSteps \cup NameSteps \cup BranchSteps
          => req'[q] = req[q]
    <3>1. /\ (SignUpSteps \cup NameSteps \cup BranchSteps) \cap others = {}
          /\ "idle" \notin SignUpSteps \cup NameSteps \cup BranchSteps
      BY <1>0, <1>p, NotIdle
    <3>2. QED
      BY <1>0, <3>1, Elsewhere
  <2>2. UNCHANGED <<account, company, branches, dishes, consoleNotes>>
    BY <1>0 DEF consoleVars
  <2>3. Aside
    BY <2>1, <2>2 DEF Aside
  <2>4. QED
    BY <2>3, AsideKeeps
<1>1. CASE StaffNext /\ UNCHANGED <<consoleVars, menuVars, printerVars, reportVars>>
  BY <1>0, <1>1, StaffTypes, Apart
<1>2. CASE MenuNext /\ UNCHANGED <<staffVars, consoleVars, printerVars, reportVars>>
  BY <1>0, <1>2, MenuTypes, Apart
<1>3. CASE PrinterNext /\ UNCHANGED <<staffVars, consoleVars, menuVars, reportVars>>
  BY <1>0, <1>3, PrinterTypes, Apart
<1>4. CASE ReportNext /\ UNCHANGED <<staffVars, consoleVars, menuVars, printerVars>>
  BY <1>0, <1>4, ReportTypes, Apart
<1>5. CASE UNCHANGED vars
  <2>1. UNCHANGED <<req, account, company, branches, dishes, consoleNotes>>
    BY <1>5 DEF vars, consoleVars, handlerVars
  <2>2. Aside
    BY <2>1 DEF Aside
  <2>3. QED
    BY <2>2, AsideKeeps
\* The handlers of links touch no row that this is about.
<1>a. ASSUME UNCHANGED <<company, branches, dishes>>,
             NEW r \in Requests, Others(r),
             {req[r].pc, req'[r].pc} \cap (SignUpSteps \cup NameSteps \cup BranchSteps) = {},
             \A e \in Accounts : account'[e].row = account[e].row /\ account'[e].name = account[e].name,
             \/ consoleNotes' = consoleNotes
             \/ \E S : Note(S, "resets")
      PROVE  SignUpInv'
  <2>1. \A e \in Accounts : /\ consoleNotes[e] \subseteq consoleNotes'[e]
                            /\ \A why : why # "resets" =>
                                 (why \in consoleNotes'[e] <=> why \in consoleNotes[e])
    BY <1>a, NoteKeeps
  <2>2. Aside
    BY <1>a, <2>1 DEF Aside, Others
  <2>3. QED
    BY <2>2, AsideKeeps
<1>l. {"idle", "fgWrite", "rsWrite"} \cap (SignUpSteps \cup NameSteps \cup BranchSteps) = {}
  BY DEF SignUpSteps, NameSteps, BranchSteps
<1>6. ASSUME NEW r \in Requests, NEW e \in Accounts, Forgot(r, e)
      PROVE  SignUpInv'
  <2> DEFINE h == [pc |-> "fgWrite", account |-> e, link |-> Len(links) + 1]
             S == IF Resetting(e) # {} THEN {e} ELSE {}
  <2>1. /\ req[r].pc = "idle" /\ req' = [req EXCEPT ![r] = h]
        /\ UNCHANGED <<account, company, branches, dishes>> /\ Note(S, "resets")
    BY <1>6, FreeIs DEF Forgot, Begin, NoteIf
  <2>2. h.pc = "fgWrite"
    OBVIOUS
  <2> HIDE DEF h, S
  <2>3. Others(r) /\ req'[r] = h
    BY <1>t, <2>1 DEF Others, ReqOK
  <2>4. QED
    BY <1>a, <1>l, <2>1, <2>2, <2>3
<1>7. ASSUME NEW r \in Requests, NEW e \in Accounts, NEW t, ResetPassword(r, e, t)
      PROVE  SignUpInv'
  <2> DEFINE h == [pc |-> "rsWrite", account |-> e, link |-> t]
             S == IF Resetting(e) # {} THEN {e} ELSE {}
  <2>1. /\ req[r].pc = "idle" /\ req' = [req EXCEPT ![r] = h]
        /\ UNCHANGED <<account, company, branches, dishes>> /\ Note(S, "resets")
    BY <1>7, FreeIs DEF ResetPassword, Begin, NoteIf
  <2>2. h.pc = "rsWrite"
    OBVIOUS
  <2> HIDE DEF h, S
  <2>3. Others(r) /\ req'[r] = h
    BY <1>t, <2>1 DEF Others, ReqOK
  <2>4. QED
    BY <1>a, <1>l, <2>1, <2>2, <2>3
<1>8. ASSUME NEW r \in Requests, FgWrite(r) \/ RsWrite(r)
      PROVE  SignUpInv'
  <2>1. /\ req[r].pc \in {"fgWrite", "rsWrite"} /\ req' = [req EXCEPT ![r] = Idle]
        /\ UNCHANGED <<company, branches, dishes, consoleNotes>>
        /\ \E f, t : account' = [account EXCEPT ![f].token = t]
    BY <1>8 DEF FgWrite, RsWrite, End, Become
  <2>2. Others(r) /\ req'[r].pc = "idle"
    BY <1>t, <2>1, Ended DEF Others
  <2>3. \A e \in Accounts : account'[e].row = account[e].row /\ account'[e].name = account[e].name
    <3>1. \A e \in Accounts : account[e] \in Account
      BY <1>t
    <3>2. PICK f, t : account' = [account EXCEPT ![f].token = t]
      BY <2>1
    <3>3. QED
      BY <1>t, <3>1, <3>2 DEF Account
  <2>4. QED
    BY <1>a, <1>l, <2>1, <2>2, <2>3
<1>9. ASSUME NEW t, Lapse(t)
      PROVE  SignUpInv'
  <2>1. UNCHANGED <<req, account, company, branches, dishes, consoleNotes>>
    BY <1>9 DEF Lapse
  <2>2. Aside
    BY <2>1 DEF Aside
  <2>3. QED
    BY <2>2, AsideKeeps
<1>10. ASSUME ConsoleNext
       PROVE  SignUpInv'
  <2>1. \/ \E r \in Requests : SuUser(r) \/ SuCompany(r)
        \/ \E r \in Requests : SuProbe(r) \/ SuDishProbe(r)
        \/ \E r \in Requests : SuBranch(r) \/ SuDish(r) \/ SuTable(r)
        \/ \E r \in Requests : CoName(r) \/ ConsoleFault(r)
        \/ \E r \in Requests : FgWrite(r) \/ RsWrite(r)
        \/ \E r \in Requests : BrCreate(r) \/ BrRename(r) \/ BrRemove(r)
        \/ \E r \in Requests, e \in Accounts : SignUp(r, e)
        \/ \E r \in Requests, e \in Accounts : Forgot(r, e)
        \/ \E r \in Requests, e \in Accounts, n \in Names : UpsertCompany(r, e, n)
        \/ \E r \in Requests, e \in Accounts, t \in DOMAIN links : ResetPassword(r, e, t)
        \/ \E r \in Requests : \/ \E o, c : BranchCreate(r, o, c)
                               \/ \E i, c : BranchRename(r, i, c)
        \/ \E r \in Requests, i \in DOMAIN branches : BranchRemove(r, i)
        \/ \E e \in Accounts, blank \in BOOLEAN : UpsertOther(e, blank)
        \/ \E t \in DOMAIN links : Lapse(t)
    BY <1>10 DEF ConsoleNext
  <2>2. ASSUME NEW r \in Requests PROVE SuUser(r) \/ SuCompany(r) => SignUpInv'
    BY SuUserKeeps, SuCompanyKeeps
  <2>3. ASSUME NEW r \in Requests PROVE SuProbe(r) \/ SuDishProbe(r) => SignUpInv'
    BY ProbeKeeps
  <2>4. ASSUME NEW r \in Requests PROVE SuBranch(r) \/ SuDish(r) \/ SuTable(r) => SignUpInv'
    BY <1>t, SuBranchKeeps, SuDishKeeps, SuTableKeeps
  <2>5. ASSUME NEW r \in Requests PROVE CoName(r) \/ ConsoleFault(r) => SignUpInv'
    BY CoNameKeeps, FaultKeeps
  <2>6. ASSUME NEW r \in Requests PROVE BrCreate(r) \/ BrRename(r) \/ BrRemove(r) => SignUpInv'
    BY CreateKeeps, RenameKeeps, RemoveKeeps
  <2>7. ASSUME NEW r \in Requests, NEW e \in Accounts
        PROVE  SignUp(r, e) \/ (\E n \in Names : UpsertCompany(r, e, n)) => SignUpInv'
    BY SignUpBegins, CompanyKeeps
  <2>8. ASSUME NEW r \in Requests
        PROVE  (\E o, c : BranchCreate(r, o, c)) \/ (\E i, c : BranchRename(r, i, c)) => SignUpInv'
    BY CodeBegins
  <2>9. ASSUME NEW r \in Requests, NEW i \in DOMAIN branches
        PROVE  BranchRemove(r, i) => SignUpInv'
    BY RemoveBegins
  <2>10. ASSUME NEW e \in Accounts, NEW blank \in BOOLEAN
         PROVE  UpsertOther(e, blank) => SignUpInv'
    BY OtherKeeps
  <2>11. QED
    BY <1>6, <1>7, <1>8, <1>9, <2>1, <2>2, <2>3, <2>4, <2>5, <2>6, <2>7, <2>8, <2>9, <2>10
<1>11. QED
  BY <1>1, <1>2, <1>3, <1>4, <1>5, <1>10 DEF Next

LEMMA SignUpInvInit == Init => SignUpInv
<1> SUFFICES ASSUME Init PROVE SignUpInv
  OBVIOUS
<1>1. \A r \in Requests : req[r].pc = "idle"
  BY StepsOf DEF Init, HandlersInit
<1>2. /\ branches = << >> /\ dishes = << >>
      /\ \A e \in Accounts : /\ account[e].row = "none" /\ company[e] = "none"
                             /\ consoleNotes[e] = {}
  BY DEF Init, ConsoleInit
<1>3. DOMAIN branches = {} /\ DOMAIN dishes = {}
  BY <1>2
<1>4. Writers
  <2>1. \A r \in Requests : WriterOK(r)
    BY <1>1, NotIdle DEF WriterOK, BranchSteps, NameSteps
  <2>2. Single
    BY <1>1, NotIdle DEF Single
  <2>3. \A e \in Accounts : NoRow(e)
    BY <1>2, <1>3 DEF NoRow
  <2>4. QED
    BY <2>1, <2>2, <2>3 DEF Writers
<1>5. CodesApart /\ DishesPlaced
  BY <1>1, <1>3 DEF CodesApart, DishesPlaced
<1>6. \A e \in Accounts : /\ AtWork(PastUser, e) = {} /\ AtWork(SignUpSteps, e) = {}
                          /\ AtWork(NameSteps, e) = {}
                          /\ AtWork({"suCompany"}, e) = {} /\ AtWork({"coName"}, e) = {}
  BY <1>1, NotIdle DEF AtWork, Busy
<1>7. ASSUME NEW e \in Accounts
      PROVE  SignUpInTurn(e) /\ AloneAt(e) /\ RefusedFor(e) /\ NameInTurn(e)
  <2>1. ~Noted(e, {"failed"})
    BY <1>2 DEF Noted
  <2>2. account[e].row # "here"
    BY <1>2
  <2>3. QED
    BY <1>6, <2>1, <2>2 DEF SignUpInTurn, AloneAt, RefusedFor, NameInTurn
<1>8. QED
  BY <1>4, <1>5, <1>7 DEF SignUpInv

LEMMA SignUpInvHolds == SignUpInv => AccountWhole
<1> SUFFICES ASSUME SignUpInv PROVE AccountWhole
  OBVIOUS
<1>1. SignUpWhole
  <2> SUFFICES ASSUME NEW e \in Accounts
               PROVE  /\ account[e].row = "here" /\ AtWork(SignUpSteps, e) = {} =>
                            \/ Whole(e)
                            \/ consoleNotes[e] \cap {"failed", "fault", "edited"} # {}
                      /\ "failed" \in consoleNotes[e] =>
                            \/ Repeats(e)
                            \/ consoleNotes[e] \cap {"overlap", "edited", "renames"} # {}
                      /\ \A j, k \in DOMAIN dishes :
                            dishes[j].code = dishes[k].code /\ j # k =>
                               \E f \in Accounts : "overlap" \in consoleNotes[f]
    BY DEF SignUpWhole
  <2>1. SignUpInTurn(e) /\ RefusedFor(e) /\ CodesApart
    BY DEF SignUpInv
  <2>2. AtWork(SignUpSteps, e) = {} => AtWork(PastUser, e) = {}
    BY NotIdle DEF AtWork, Busy
  <2>3. /\ Noted(e, {"edited"}) \/ Noted(e, {"failed", "fault"}) =>
              consoleNotes[e] \cap {"failed", "fault", "edited"} # {}
        /\ \A f : Noted(f, {"overlap"}) => "overlap" \in consoleNotes[f]
        /\ "failed" \in consoleNotes[e] => Noted(e, {"failed"})
        /\ Noted(e, {"overlap", "edited", "renames"}) =>
              consoleNotes[e] \cap {"overlap", "edited", "renames"} # {}
    BY DEF Noted
  <2>4. QED
    BY <2>1, <2>2, <2>3 DEF SignUpInTurn, RefusedFor, CodesApart
<1>2. NamesAgree
  <2> SUFFICES ASSUME NEW e \in Accounts, account[e].row = "here",
                      AtWork({"suCompany", "coName"}, e) = {}
               PROVE  \/ account[e].name = company[e]
                      \/ company[e] = ""
                      \/ consoleNotes[e] \cap {"renames", "fault"} # {}
    BY DEF NamesAgree
  <2>1. NameInTurn(e) /\ AtWork(NameSteps, e) = {}
    BY DEF SignUpInv, NameSteps
  <2>2. QED
    BY <2>1 DEF NameInTurn, Noted
<1>3. QED
  BY <1>1, <1>2 DEF AccountWhole

\* A customer who has signed up has all branches, dishes and tables of the request and
\* the name of the company, or a query failed, or another request was in the way: what
\* register and upsertCompany leave, however their steps interleave, but for those.
THEOREM SignedUpIsWhole == Spec => []AccountWhole
<1>1. Spec => []TInv
  BY TInvInit, TInvStep, PTL DEF Spec
<1>2. Spec => []SignUpInv
  BY <1>1, SignUpInvInit, SignUpInvStep, PTL DEF Spec
<1>3. QED
  BY <1>2, SignUpInvHolds, PTL
==============================================================================
