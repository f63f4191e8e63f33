------------------------------ MODULE Console -------------------------------
(***************************************************************************)
(* ConsoleAuthService and BranchService: a customer signs up, which writes *)
(* the account, its company, and for each branch the branch, its dishes    *)
(* and its tables, one after the other and in no transaction; the company  *)
(* is edited, branches are edited, passwords are reset by mailed links.    *)
(* All branches, and all dishes, of the instance have names that lead to   *)
(* one code, so a code is its suffix.  The plans of customers, the seeded  *)
(* administrator, addresses and password texts are left out.               *)
(***************************************************************************)
EXTENDS Handlers, SequencesExt

CONSTANTS
    Accounts,    \* the user names that are signed up
    Names,       \* names of companies
    SignUps,     \* what each account asks for: its name, dishes, and tables by branch
    MaxLinks     \* bound: no instance mails more links

\* "none" stands for a row that is missing.
ASSUME ConsoleAssumption ==
    /\ MaxLinks \in Nat
    /\ "none" \notin Names \cup Accounts
    /\ SignUps \in [Accounts -> [name : Names, dishes : Nat, tables : Seq(Seq(Nat))]]

VARIABLES
    account,        \* the rows ConsoleUser
    company,        \* the names in the rows Company
    branches,       \* the rows Branch, with their tables
    dishes,         \* the rows MenuItem that sign-ups created
    links,          \* history: the reset links, numbered as they are drawn
    consoleNotes    \* history: what has happened to each account

consoleVars == <<account, company, branches, dishes, links, consoleNotes>>

ConsoleNotes == {"overlap", "failed", "fault", "edited", "renames", "resets"}

\* The columns companyName and resetToken; a token is the number of its link.
Account == [row : {"none", "here"}, name : Names \cup {"none"}, token : 0..MaxLinks]

\* The owner is the console user; one who is not of the Accounts, such as the seeded
\* administrator, is "none".  The signer is a history: whose sign-up made the branch.
Branch == {b \in [owner : Accounts \cup {"none"}, signer : Accounts \cup {"none"},
                  code : Nat, tables : SUBSET Nat, gone : BOOLEAN] :
             b.signer \in {"none", b.owner}}

Dish == [branch : Nat, code : Nat]

Link == [account : Accounts, stored : BOOLEAN, lapsed : BOOLEAN, used : Nat]

SignUpSteps == {"suUser", "suCompany", "suProbe", "suBranch", "suDishProbe", "suDish",
                "suTable"}
BranchSteps == {"brCreate", "brRename", "brRemove"}

\* at, dish and tab count through the request, n through the suffixes.
SignUpHandler == [ pc : SignUpSteps, account : Accounts, at : Nat, branch : Nat,
                   dish : Nat, tab : Nat, n : Nat ]
ConsoleHandler ==
    SignUpHandler
    \cup [pc : {"coName"}, account : Accounts, name : Names]
    \cup [pc : {"fgWrite", "rsWrite"}, account : Accounts, link : 1..MaxLinks]
    \cup [pc : BranchSteps, owner : Accounts \cup {"none"}, branch : Nat, code : Nat]

AtWork(steps, e) == {r \in Busy(steps) : req[r].account = e}

Note(S, why) ==
    consoleNotes' = [e \in Accounts |-> IF e \in S THEN consoleNotes[e] \cup {why}
                                        ELSE consoleNotes[e]]

NoteIf(e, why, condition) == Note(IF condition THEN {e} ELSE {}, why)

Taken(c) == \E i \in DOMAIN branches : ~branches[i].gone /\ branches[i].code = c

\* Everybody who has a hand in the codes of branches and dishes at this moment.
SigningUp == {req[r].account : r \in Busy(SignUpSteps)}

-----------------------------------------------------------------------------
(* register. *)

SignUp(r, e) ==
    /\ account[e].row = "none"
    /\ Begin(r, "signUp", [pc |-> "suUser", account |-> e, at |-> 0, branch |-> 0,
                           dish |-> 0, tab |-> 0, n |-> 0])
    /\ Note(IF Busy(SignUpSteps \cup BranchSteps) # {} THEN SigningUp \cup {e} ELSE {},
            "overlap")
    /\ UNCHANGED <<account, company, branches, dishes, links>>

\* Mutation of GoOn: the dishes are created for the first branch only.
GoOnFirst(h) ==
    LET asked == SignUps[h.account] IN
    CASE h.at = 1 /\ h.dish < asked.dishes -> [h EXCEPT !.pc = "suDishProbe", !.n = 0]
      [] /\ h.at > 0
         /\ h.at = 1 => h.dish = asked.dishes
         /\ h.tab < Len(asked.tables[h.at]) -> [h EXCEPT !.pc = "suTable"]
      [] OTHER ->
         IF h.at = Len(asked.tables) THEN Idle
         ELSE [h EXCEPT !.pc = "suProbe", !.at = @ + 1, !.n = 0, !.dish = 0, !.tab = 0]

\* Where a sign-up goes when it has done a part: dishes, tables, the next branch.
GoOn(h) ==
    LET asked == SignUps[h.account] IN
    CASE h.at > 0 /\ h.dish < asked.dishes -> [h EXCEPT !.pc = "suDishProbe", !.n = 0]
      [] /\ h.at > 0
         /\ h.dish = asked.dishes
         /\ h.tab < Len(asked.tables[h.at]) -> [h EXCEPT !.pc = "suTable"]
      [] OTHER ->
         IF h.at = Len(asked.tables) THEN Idle
         ELSE [h EXCEPT !.pc = "suProbe", !.at = @ + 1, !.n = 0, !.dish = 0, !.tab = 0]

\* A row is refused, and the handler throws: what it has written stays.
SignUpFails(r) == End(r) /\ Note({req[r].account}, "failed")

SuUser(r) ==
    LET e == req[r].account IN
    /\ req[r].pc = "suUser"
    /\ IF account[e].row = "here"
       THEN End(r) /\ UNCHANGED account
       ELSE /\ account' = [account EXCEPT ![e].row = "here",
                                          ![e].name = SignUps[e].name]
            /\ Goto(r, "suCompany")
    /\ UNCHANGED <<company, branches, dishes, links, consoleNotes>>

SuCompany(r) ==
    LET h == req[r] IN
    /\ h.pc = "suCompany"
    /\ IF company[h.account] # "none"
       THEN SignUpFails(r) /\ UNCHANGED company
       ELSE /\ company' = [company EXCEPT ![h.account] = SignUps[h.account].name]
            /\ Become(r, GoOn(h))
            /\ UNCHANGED consoleNotes
    /\ UNCHANGED <<account, branches, dishes, links>>

\* uniqueBranchCode.
SuProbe(r) ==
    /\ req[r].pc = "suProbe"
    /\ IF Taken(req[r].n) THEN Become(r, [req[r] EXCEPT !.n = @ + 1])
       ELSE Goto(r, "suBranch")
    /\ UNCHANGED consoleVars

SuBranch(r) ==
    LET h == req[r] IN
    /\ h.pc = "suBranch"
    /\ IF Taken(h.n)
       THEN SignUpFails(r) /\ UNCHANGED branches
       ELSE /\ branches' = Append(branches, [owner |-> h.account, signer |-> h.account,
                                             code |-> h.n, tables |-> {}, gone |-> FALSE])
            /\ Become(r, GoOn([h EXCEPT !.branch = Len(branches) + 1]))
            /\ UNCHANGED consoleNotes
    /\ UNCHANGED <<account, company, dishes, links>>

\* uniqueMenuCode; no constraint stands behind it.
SuDishProbe(r) ==
    /\ req[r].pc = "suDishProbe"
    /\ IF \E i \in DOMAIN dishes : dishes[i].code = req[r].n
       THEN Become(r, [req[r] EXCEPT !.n = @ + 1])
       ELSE Goto(r, "suDish")
    /\ UNCHANGED consoleVars

\* A dish and a table need their branch.
SuDish(r) ==
    LET h == req[r] IN
    /\ h.pc = "suDish"
    /\ IF branches[h.branch].gone
       THEN SignUpFails(r) /\ UNCHANGED dishes
       ELSE /\ dishes' = Append(dishes, [branch |-> h.branch, code |-> h.n])
            /\ Become(r, GoOn([h EXCEPT !.dish = @ + 1]))
            /\ UNCHANGED consoleNotes
    /\ UNCHANGED <<account, company, branches, links>>

\* The number of a table is unique in its branch.
SuTable(r) ==
    LET h == req[r]
        number == SignUps[h.account].tables[h.at][h.tab + 1] IN
    /\ h.pc = "suTable"
    /\ IF branches[h.branch].gone \/ number \in branches[h.branch].tables
       THEN SignUpFails(r) /\ UNCHANGED branches
       ELSE /\ branches' = [branches EXCEPT ![h.branch].tables = @ \cup {number}]
            /\ Become(r, GoOn([h EXCEPT !.tab = @ + 1]))
            /\ UNCHANGED consoleNotes
    /\ UNCHANGED <<account, company, dishes, links>>

-----------------------------------------------------------------------------
(* upsertCompany: the company, and then the name that the account repeats. *)

UpsertCompany(r, e, n) ==
    /\ account[e].row = "here"
    /\ company' = [company EXCEPT ![e] = n]
    /\ Begin(r, "company", [pc |-> "coName", account |-> e, name |-> n])
    /\ NoteIf(e, "renames", AtWork({"coName", "suCompany"}, e) # {})
    /\ UNCHANGED <<account, branches, dishes, links>>

\* A request without a name creates the company when it is missing; one with a blank
\* name clears the name of the company, and the account keeps its copy.
UpsertOther(e, blank) ==
    /\ account[e].row = "here"
    /\ Spend("company")
    /\ company' = [company EXCEPT ![e] = IF blank \/ @ = "none" THEN "" ELSE @]
    /\ NoteIf(e, "renames", company[e] = "none")
    /\ UNCHANGED <<req, account, branches, dishes, links>>

CoName(r) ==
    /\ req[r].pc = "coName"
    /\ account' = [account EXCEPT ![req[r].account].name = req[r].name]
    /\ End(r)
    /\ UNCHANGED <<company, branches, dishes, links, consoleNotes>>

-----------------------------------------------------------------------------
(* forgotPassword and resetPassword. *)

Resetting(e) == AtWork({"fgWrite", "rsWrite"}, e)

\* The link is drawn here; its mail, which may fail, follows the write.
Forgot(r, e) ==
    /\ account[e].row = "here"
    /\ Len(links) < MaxLinks
    /\ Begin(r, "forgot", [pc |-> "fgWrite", account |-> e, link |-> Len(links) + 1])
    /\ links' = Append(links, [account |-> e, stored |-> FALSE, lapsed |-> FALSE, used |-> 0])
    /\ NoteIf(e, "resets", Resetting(e) # {})
    /\ UNCHANGED <<account, company, branches, dishes>>

FgWrite(r) ==
    LET t == req[r].link IN
    /\ req[r].pc = "fgWrite"
    /\ account' = [account EXCEPT ![req[r].account].token = t]
    /\ links' = [links EXCEPT ![t].stored = TRUE]
    /\ End(r)
    /\ UNCHANGED <<company, branches, dishes, consoleNotes>>

\* An hour has passed.
Lapse(t) ==
    /\ Spend("lapse")
    /\ ~links[t].lapsed
    /\ links' = [links EXCEPT ![t].lapsed = TRUE]
    /\ UNCHANGED <<req, account, company, branches, dishes, consoleNotes>>

ResetPassword(r, e, t) ==
    /\ account[e].token = t
    /\ ~links[t].lapsed
    /\ Begin(r, "reset", [pc |-> "rsWrite", account |-> e, link |-> t])
    /\ NoteIf(e, "resets", Resetting(e) # {})
    /\ UNCHANGED <<account, company, branches, dishes, links>>

\* Mutation of RsWrite: the token is kept.
RsWriteKeeps(r) ==
    /\ req[r].pc = "rsWrite"
    /\ links' = [links EXCEPT ![req[r].link].used = @ + 1]
    /\ End(r)
    /\ UNCHANGED <<account, company, branches, dishes, consoleNotes>>

\* Whatever the token is by now, it is cleared.
RsWrite(r) ==
    /\ req[r].pc = "rsWrite"
    /\ account' = [account EXCEPT ![req[r].account].token = 0]
    /\ links' = [links EXCEPT ![req[r].link].used = @ + 1]
    /\ End(r)
    /\ UNCHANGED <<company, branches, dishes, consoleNotes>>

-----------------------------------------------------------------------------
(* BranchService. *)

\* The branch will belong to the console user who asks for it.
BranchCreate(r, e, c) ==
    /\ e \in Accounts => account[e].row = "here"
    /\ ~Taken(c)
    /\ Begin(r, "branch", [pc |-> "brCreate", owner |-> e, branch |-> 0, code |-> c])
    /\ Note(SigningUp, "overlap")
    /\ UNCHANGED <<account, company, branches, dishes, links>>

\* update, with a code that nobody else has.
BranchRename(r, i, c) ==
    /\ ~branches[i].gone
    /\ Taken(c) => branches[i].code = c
    /\ Begin(r, "branch", [pc |-> "brRename", owner |-> "none", branch |-> i, code |-> c])
    /\ Note(SigningUp, "overlap")
    /\ UNCHANGED <<account, company, branches, dishes, links>>

BranchRemove(r, i) ==
    /\ ~branches[i].gone
    /\ Begin(r, "branch", [pc |-> "brRemove", owner |-> "none", branch |-> i,
                           code |-> branches[i].code])
    /\ Note(Accounts \cap {branches[i].signer}, "edited")
    /\ UNCHANGED <<account, company, branches, dishes, links>>

\* The index on the code refuses a code that was taken in the meantime.
BrCreate(r) ==
    /\ req[r].pc = "brCreate"
    /\ branches' = IF Taken(req[r].code) THEN branches
                   ELSE Append(branches, [owner |-> req[r].owner, signer |-> "none",
                                          code |-> req[r].code, tables |-> {},
                                          gone |-> FALSE])
    /\ End(r)
    /\ UNCHANGED <<account, company, dishes, links, consoleNotes>>

BrRename(r) ==
    LET i == req[r].branch IN
    /\ req[r].pc = "brRename"
    /\ branches' = IF branches[i].gone \/ Taken(req[r].code) THEN branches
                   ELSE [branches EXCEPT ![i].code = req[r].code]
    /\ End(r)
    /\ UNCHANGED <<account, company, dishes, links, consoleNotes>>

\* Its dishes and tables stay, without a branch.
BrRemove(r) ==
    LET i == req[r].branch IN
    /\ req[r].pc = "brRemove"
    /\ branches' = [branches EXCEPT ![i].gone = TRUE]
    /\ dishes' = [k \in DOMAIN dishes |->
                    IF dishes[k].branch = i THEN [dishes[k] EXCEPT !.branch = 0] ELSE dishes[k]]
    /\ End(r)
    /\ UNCHANGED <<account, company, links, consoleNotes>>

-----------------------------------------------------------------------------
\* A query fails: of a sign-up, of the second write of a company, of a reset.
ConsoleFault(r) ==
    /\ req[r].pc \in SignUpSteps \cup {"coName", "fgWrite", "rsWrite"}
    /\ Throw(r)
    /\ Note({req[r].account}, "fault")
    /\ UNCHANGED <<account, company, branches, dishes, links>>

ConsoleInit ==
    /\ account = [e \in Accounts |-> [row |-> "none", name |-> "none", token |-> 0]]
    /\ company = [e \in Accounts |-> "none"]
    /\ branches = << >>
    /\ dishes = << >>
    /\ links = << >>
    /\ consoleNotes = [e \in Accounts |-> {}]

ConsoleNext ==
    \/ \E r \in Requests :
          \/ SuUser(r) \/ SuCompany(r) \/ SuProbe(r) \/ SuBranch(r)
          \/ SuDishProbe(r) \/ SuDish(r) \/ SuTable(r)
          \/ CoName(r) \/ FgWrite(r) \/ RsWrite(r)
          \/ BrCreate(r) \/ BrRename(r) \/ BrRemove(r)
          \/ ConsoleFault(r)
          \/ \E e \in Accounts :
                \/ SignUp(r, e)
                \/ Forgot(r, e)
                \/ \E n \in Names : UpsertCompany(r, e, n)
                \/ \E t \in DOMAIN links : ResetPassword(r, e, t)
          \/ \E c \in 0..1 :
                \/ \E e \in Accounts \cup {"none"} : BranchCreate(r, e, c)
                \/ \E i \in DOMAIN branches : BranchRename(r, i, c)
          \/ \E i \in DOMAIN branches : BranchRemove(r, i)
    \/ \E e \in Accounts, blank \in BOOLEAN : UpsertOther(e, blank)
    \/ \E t \in DOMAIN links : Lapse(t)

-----------------------------------------------------------------------------
(* Properties. *)

ConsoleTypeOK ==
    /\ account \in [Accounts -> Account]
    /\ company \in [Accounts -> Names \cup {"none", ""}]
    /\ branches \in Seq(Branch)
    /\ dishes \in Seq(Dish)
    /\ links \in Seq(Link)
    /\ consoleNotes \in [Accounts -> SUBSET ConsoleNotes]

\* The branches that the sign-up of an account has made, beside those that it creates
\* by hand, with the dishes and the tables of each.
Owned(e) == {i \in DOMAIN branches : branches[i].signer = e /\ ~branches[i].gone}
DishesOf(i) == {k \in DOMAIN dishes : dishes[k].branch = i}

\* What the sign-up has asked for is there.
Whole(e) ==
    LET asked == SignUps[e] IN
    /\ company[e] # "none"
    /\ Cardinality(Owned(e)) = Len(asked.tables)
    /\ \A i \in Owned(e) : Cardinality(DishesOf(i)) = asked.dishes
    /\ {branches[i].tables : i \in Owned(e)} = {ToSet(asked.tables[k]) : k \in DOMAIN asked.tables}

Repeats(e) == \E k \in DOMAIN SignUps[e].tables : ~IsInjective(SignUps[e].tables[k])

\* When nobody signs an account up any more, either all of its branches, dishes
\* and tables are there or a row was refused or a query failed; and no row is
\* refused unless the request names a table twice or another sign-up or an edit
\* of branches or company ran at the same time.  Two dishes share a code only
\* after such an overlap.
SignUpWhole ==
    \A e \in Accounts :
        /\ account[e].row = "here" /\ AtWork(SignUpSteps, e) = {} =>
              \/ Whole(e)
              \/ consoleNotes[e] \cap {"failed", "fault", "edited"} # {}
        /\ "failed" \in consoleNotes[e] =>
              \/ Repeats(e)
              \/ consoleNotes[e] \cap {"overlap", "edited", "renames"} # {}
        /\ \A j, k \in DOMAIN dishes :
              dishes[j].code = dishes[k].code /\ j # k =>
                 \E f \in Accounts : "overlap" \in consoleNotes[f]

\* The account bears the name of its company when nobody writes either, unless two
\* writers overlapped, a query failed between the two writes, or the company has been
\* left without a name.
NamesAgree ==
    \A e \in Accounts :
        account[e].row = "here" /\ AtWork({"suCompany", "coName"}, e) = {} =>
            \/ account[e].name = company[e]
            \/ company[e] = ""
            \/ consoleNotes[e] \cap {"renames", "fault"} # {}

\* What a customer has signed up for, and the name on the account, are as asked.
AccountWhole == SignUpWhole /\ NamesAgree

\* A reset link works once, and the newest one works until it is used: a link is
\* used twice, or a newer link is void, only when requests about the password of
\* the account overlapped.
ResetLinkOnce ==
    \A e \in Accounts : "resets" \notin consoleNotes[e] =>
        LET mine == {t \in DOMAIN links : links[t].account = e /\ links[t].stored}
            newest == CHOOSE t \in mine : \A s \in mine : s <= t IN
        /\ \A t \in mine : links[t].used <= 1
        /\ mine # {} => account[e].token = IF links[newest].used = 0 THEN newest ELSE 0
=============================================================================
