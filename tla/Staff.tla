------------------------------- MODULE Staff --------------------------------
(***************************************************************************)
(* StaffService and the users of AuthService: PINs, check-in at a table,   *)
(* check-out and heartbeats.  A check-in is three reads and a write, and   *)
(* the index that forbids a second row for a table and a user does not     *)
(* apply to a table without a branch.  Passwords, names, roles and tokens  *)
(* are left out; times are kept as the kind of the last write.             *)
(***************************************************************************)
EXTENDS Handlers

CONSTANTS
    Users,
    Pins,
    Places,        \* the tables, each with its branch
    Branchless,    \* those whose column branchId is null
    Number,        \* the number on each of them, which another branch may use too
    Team           \* the users there are in the beginning

VARIABLES
    users,         \* the rows User
    table,         \* which tables exist
    assignment,    \* the rows TableStaffAssignment, in the order of insertion
    answer,        \* history: the last success reported for a table and a user
    staffNotes     \* history: what has happened to them

staffVars == <<users, table, assignment, answer, staffNotes>>

User == [ row : {"none", "here", "gone"}, active : BOOLEAN, pin : Pins \cup {"none"} ]

ASSUME StaffAssumption ==
    /\ Branchless \subseteq Places
    /\ "none" \notin Pins
    /\ Team \in [Users -> User]

\* seen: which of check-in, heartbeat and check-out wrote lastSeenAt.
Assignment == [ place : Places, user : Users, state : {"active", "inactive", "gone"},
                seen : {"in", "beat", "out"} ]

InSteps == {"inTable", "inFind", "inSeen", "inAgain", "inNew"}
OutSteps == {"outFind", "outWrite"}
BeatSteps == {"beatFind", "beatWrite"}
SeatSteps == InSteps \cup OutSteps \cup BeatSteps

StaffHandler ==
    [pc : SeatSteps, place : Places, user : Users, row : Nat]
    \cup [pc : {"userWrite"}, user : Users, pin : Pins \cup {"none"}]
    \cup [pc : {"activeWrite"}, user : Users, active : BOOLEAN]
    \cup [pc : {"userCreate", "userDelete"}, user : Users]

Holder(k) == {u \in Users : users[u].row = "here" /\ users[u].pin = k}

RowsOf(p, u) == {i \in DOMAIN assignment : /\ assignment[i].place = p
                                           /\ assignment[i].user = u
                                           /\ assignment[i].state # "gone"}

ActiveRows(p, u) == {i \in RowsOf(p, u) : assignment[i].state = "active"}

\* getAllActiveAssignments, of all branches.
OnDuty == {i \in DOMAIN assignment : assignment[i].state = "active"}

\* getMyTables.
MyTables(u) == {assignment[i].place : i \in {j \in OnDuty : assignment[j].user = u}}

\* getTableStaff, which selects the rows by the number of the table and not by its
\* branch: the staff at tables of other branches with this number are listed too.
TableStaff(p) ==
    {assignment[i].user : i \in {j \in OnDuty : Number[assignment[j].place] = Number[p]}}

\* The handlers at work on a table and a user.
Seating(p, u) == {r \in Busy(SeatSteps) : req[r].place = p /\ req[r].user = u}

NoteSeats(S, why) ==
    staffNotes' = [x \in Places \X Users |->
                     IF x \in S THEN staffNotes[x] \cup {why} ELSE staffNotes[x]]

\* The first step of the three: the user is the one who holds the PIN.
Identify(r, kind, step, k, p, u) ==
    /\ u \in Holder(k)
    /\ Begin(r, kind, [pc |-> step, place |-> p, user |-> u, row |-> 0])
    /\ NoteSeats(IF Seating(p, u) # {} THEN {<<p, u>>} ELSE {}, "overlap")
    /\ UNCHANGED <<users, table, assignment, answer>>

\* Writes to the row the handler has read, which may have been deleted since.
WriteRow(r, fields(_), said) ==
    LET i == req[r].row
        x == <<req[r].place, req[r].user>> IN
    /\ IF assignment[i].state = "gone"
       THEN UNCHANGED <<assignment, answer>>
       ELSE /\ assignment' = [assignment EXCEPT ![i] = fields(@)]
            /\ answer' = [answer EXCEPT ![x] = said]
    /\ End(r)
    /\ UNCHANGED <<users, table, staffNotes>>

-----------------------------------------------------------------------------
(* checkIn. *)

CheckIn(r, k, p, u) == users[u].active /\ Identify(r, "in", "inTable", k, p, u)

InTable(r) ==
    /\ req[r].pc = "inTable"
    /\ IF table[req[r].place] THEN Goto(r, "inFind") ELSE End(r)
    /\ UNCHANGED staffVars

\* Mutation of InFind: only active rows are looked for.
InFindActive(r) ==
    LET found == ActiveRows(req[r].place, req[r].user) IN
    /\ req[r].pc = "inFind"
    /\ IF found = {} THEN Goto(r, "inNew")
       ELSE \E i \in found : Become(r, [req[r] EXCEPT !.pc = "inSeen", !.row = i])
    /\ UNCHANGED staffVars

InFind(r) ==
    LET found == RowsOf(req[r].place, req[r].user)
        next(i) == IF assignment[i].state = "active" THEN "inSeen" ELSE "inAgain" IN
    /\ req[r].pc = "inFind"
    /\ IF found = {} THEN Goto(r, "inNew")
       ELSE \E i \in found : Become(r, [req[r] EXCEPT !.pc = next(i), !.row = i])
    /\ UNCHANGED staffVars

\* It was active when it was read: the row is not activated again.
InSeen(r) == req[r].pc = "inSeen" /\ WriteRow(r, LAMBDA a : [a EXCEPT !.seen = "in"], "in")

InAgain(r) ==
    /\ req[r].pc = "inAgain"
    /\ WriteRow(r, LAMBDA a : [a EXCEPT !.state = "active", !.seen = "in"], "in")

\* The keys refuse a row without its user, without its table, and a second one
\* for a table and a user: the last two do not apply where the branch is null.
Refused(p, u) ==
    \/ users[u].row # "here"
    \/ p \notin Branchless /\ (~table[p] \/ RowsOf(p, u) # {})

InNew(r) ==
    LET p == req[r].place
        u == req[r].user IN
    /\ req[r].pc = "inNew"
    /\ IF Refused(p, u)
       THEN UNCHANGED <<assignment, answer>>
       ELSE /\ assignment' = Append(assignment,
                  [place |-> p, user |-> u, state |-> "active", seen |-> "in"])
            /\ answer' = [answer EXCEPT ![<<p, u>>] = "in"]
    /\ End(r)
    /\ UNCHANGED <<users, table, staffNotes>>

-----------------------------------------------------------------------------
(* checkOut and heartbeat, of users who may be disabled. *)

CheckOut(r, k, p, u) == Identify(r, "out", "outFind", k, p, u)

Heartbeat(r, k, p, u) == Identify(r, "beat", "beatFind", k, p, u)

FindActive(r) ==
    LET found == ActiveRows(req[r].place, req[r].user)
        next == IF req[r].pc = "outFind" THEN "outWrite" ELSE "beatWrite" IN
    /\ req[r].pc \in {"outFind", "beatFind"}
    /\ IF found = {} THEN End(r)
       ELSE \E i \in found : Become(r, [req[r] EXCEPT !.pc = next, !.row = i])
    /\ UNCHANGED staffVars

OutWrite(r) ==
    /\ req[r].pc = "outWrite"
    /\ WriteRow(r, LAMBDA a : [a EXCEPT !.state = "inactive", !.seen = "out"], "out")

BeatWrite(r) ==
    /\ req[r].pc = "beatWrite"
    /\ WriteRow(r, LAMBDA a : [a EXCEPT !.seen = "beat"],
                answer[<<req[r].place, req[r].user>>])

-----------------------------------------------------------------------------
(* Users and tables. *)

Register(r, u) ==
    /\ users[u].row = "none"
    /\ Begin(r, "user", [pc |-> "userCreate", user |-> u])
    /\ UNCHANGED staffVars

\* The index on the column username refuses the second of two.
UserCreate(r) ==
    LET u == req[r].user IN
    /\ req[r].pc = "userCreate"
    /\ users' = IF users[u].row = "none"
                THEN [users EXCEPT ![u] = [row |-> "here", active |-> TRUE, pin |-> "none"]]
                ELSE users
    /\ End(r)
    /\ UNCHANGED <<table, assignment, answer, staffNotes>>

\* setPin, and updateUser with a PIN, which may also take it away.
ChangePin(r, u, k) ==
    /\ users[u].row = "here"
    /\ k # "none" => Holder(k) \subseteq {u}
    /\ Begin(r, "user", [pc |-> "userWrite", user |-> u, pin |-> k])
    /\ UNCHANGED staffVars

PinTaken(u, k) == k # "none" /\ Holder(k) \ {u} # {}

UserWrite(r) ==
    LET u == req[r].user
        k == req[r].pin IN
    /\ req[r].pc = "userWrite"
    /\ users' = IF users[u].row = "here" /\ ~PinTaken(u, k)
                THEN [users EXCEPT ![u].pin = k] ELSE users
    /\ End(r)
    /\ UNCHANGED <<table, assignment, answer, staffNotes>>

\* updateUser with isActive: whoever is disabled stays checked in.
Enable(r, u, active) ==
    /\ users[u].row = "here"
    /\ Begin(r, "user", [pc |-> "activeWrite", user |-> u, active |-> active])
    /\ UNCHANGED staffVars

ActiveWrite(r) ==
    LET u == req[r].user IN
    /\ req[r].pc = "activeWrite"
    /\ users' = IF users[u].row = "here"
                THEN [users EXCEPT ![u].active = req[r].active] ELSE users
    /\ End(r)
    /\ UNCHANGED <<table, assignment, answer, staffNotes>>

DeleteUser(r, u) ==
    /\ users[u].row = "here"
    /\ Begin(r, "user", [pc |-> "userDelete", user |-> u])
    /\ UNCHANGED staffVars

\* What is deleted takes the rows of S along.
Cascade(S) ==
    /\ assignment' = [i \in DOMAIN assignment |->
                        IF <<assignment[i].place, assignment[i].user>> \in S
                        THEN [assignment[i] EXCEPT !.state = "gone"] ELSE assignment[i]]
    /\ answer' = [x \in Places \X Users |-> IF x \in S THEN "none" ELSE answer[x]]

UserDelete(r) ==
    LET u == req[r].user IN
    /\ req[r].pc = "userDelete"
    /\ IF users[u].row = "here"
       THEN /\ users' = [users EXCEPT ![u] = [row |-> "gone", active |-> FALSE, pin |-> "none"]]
            /\ Cascade(Places \X {u})
       ELSE UNCHANGED <<users, assignment, answer>>
    /\ End(r)
    /\ UNCHANGED <<table, staffNotes>>

\* The key of an assignment without a branch refers to no table.
RemoveTable(p) ==
    /\ table[p]
    /\ Spend("table")
    /\ table' = [table EXCEPT ![p] = FALSE]
    /\ IF p \in Branchless
       THEN /\ NoteSeats({p} \X Users, "orphan")
            /\ UNCHANGED <<assignment, answer>>
       ELSE Cascade({p} \X Users) /\ UNCHANGED staffNotes
    /\ UNCHANGED <<req, users>>

CreateTable(p) ==
    /\ ~table[p]
    /\ Spend("table")
    /\ table' = [table EXCEPT ![p] = TRUE]
    /\ UNCHANGED <<req, users, assignment, answer, staffNotes>>

StaffFault(r) ==
    /\ Busy(SeatSteps \cup {"userWrite", "activeWrite", "userCreate", "userDelete"})
          \cap {r} # {}
    /\ Throw(r)
    /\ UNCHANGED staffVars

-----------------------------------------------------------------------------
StaffInit ==
    /\ users = Team
    /\ table = [p \in Places |-> TRUE]
    /\ assignment = << >>
    /\ answer = [x \in Places \X Users |-> "none"]
    /\ staffNotes = [x \in Places \X Users |-> {}]

StaffNext ==
    \/ \E r \in Requests :
          \/ InTable(r) \/ InFind(r) \/ InSeen(r) \/ InAgain(r) \/ InNew(r)
          \/ FindActive(r) \/ OutWrite(r) \/ BeatWrite(r)
          \/ UserCreate(r) \/ UserWrite(r) \/ ActiveWrite(r) \/ UserDelete(r)
          \/ StaffFault(r)
          \/ \E u \in Users :
                \/ Register(r, u)
                \/ DeleteUser(r, u)
                \/ \E active \in BOOLEAN : Enable(r, u, active)
                \/ \E k \in Pins \cup {"none"} : ChangePin(r, u, k)
                \/ \E k \in Pins, p \in Places :
                      CheckIn(r, k, p, u) \/ CheckOut(r, k, p, u) \/ Heartbeat(r, k, p, u)
    \/ \E p \in Places : RemoveTable(p) \/ CreateTable(p)

-----------------------------------------------------------------------------
(* Properties. *)

StaffTypeOK ==
    /\ users \in [Users -> User]
    /\ table \in [Places -> BOOLEAN]
    /\ assignment \in Seq(Assignment)
    /\ answer \in [Places \X Users -> {"none", "in", "out"}]
    /\ staffNotes \in [Places \X Users -> SUBSET {"overlap", "orphan"}]

\* Whoever has been told that they are checked in finds the table among their own and
\* is listed at it, and whoever has been told that they are checked out does not find
\* it, unless the requests about them overlapped or a table without a branch was
\* removed, whose staff stay.  At a table of a branch nobody has two rows, even then.
CheckInsHold ==
    \A p \in Places, u \in Users :
        /\ p \notin Branchless => Cardinality(RowsOf(p, u)) <= 1
        /\ Seating(p, u) = {} /\ staffNotes[<<p, u>>] = {} =>
              /\ Cardinality(RowsOf(p, u)) <= 1
              /\ answer[<<p, u>>] = "in" <=> p \in MyTables(u)
              /\ answer[<<p, u>>] = "in" => u \in TableStaff(p)
              /\ \A i \in RowsOf(p, u) \ ActiveRows(p, u) : assignment[i].seen = "out"
=============================================================================
