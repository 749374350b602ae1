--------------------------- MODULE AdminBotProofs ---------------------------
(***************************************************************************)
(* Theorems about the users file and the programs that share it, for any   *)
(* number of users, of calls of the backend and of writes: what a login    *)
(* sees, that an issued password is stored until somebody overwrites what  *)
(* it has not read, that the file lock keeps updates, and who a typed      *)
(* speed goes to.                                                          *)
(***************************************************************************)
EXTENDS AdminBot, TLAPS

AnyTerms == Terms \cup {Junk}
Accounts == [password : Nat, salted : BOOLEAN, salt : BOOLEAN, terms : AnyTerms]
AnyOp    == [kind : {"create", "terms", "password", "delete", "rename"},
             user : Users, to : Users, terms : AnyTerms]

IsTable(t) == DOMAIN t \subseteq Users /\ t \in [DOMAIN t -> Accounts]
IsOp(op)   == op \in AnyOp /\ (op.kind = "rename" => op.user # op.to)

\* A program that has read a table and may apply its operation to it.
IsJob(j) ==
  /\ j = [pc |-> j.pc, op |-> j.op, table |-> j.table, read |-> j.read, alone |-> j.alone]
  /\ IsOp(j.op) /\ IsTable(j.table) /\ Allowed(j.op, j.table)
  /\ j.read \in 1..writes

\* t holds the passwords is, but for the users in lost.
Holds(t, is, lost) ==
  \A u \in Users \ lost :
    IF is[u] = 0 THEN u \notin DOMAIN t ELSE u \in DOMAIN t /\ t[u].password = is[u]

\* Those whose salt is gone from t are the users in dropped.
SaltsKnown(t, dropped, lost) ==
  \A u \in DOMAIN t \ lost : t[u].salt = t[u].salted <=> u \notin dropped

TablesTyped == IsTable(file.users) /\ IsTable(backup.users) /\ IsTable(server.users)

\* A time stamp that one write left tells what a file holds, for the file, the
\* backup and, unless a write came between its two steps or it could not open
\* the file, the server's copy.
StampsTell ==
  /\ backup.stamp \in 1..writes /\ backup.write \in 1..writes /\ server.stamp \in 0..writes
  /\ server = [pc |-> server.pc, users |-> server.users, stamp |-> server.stamp,
               raced |-> server.raced, loaded |-> server.loaded]
  /\ server.pc \in {"idle", "load", "compare", "unchecked"}
  /\ server.raced \in BOOLEAN /\ server.loaded \in BOOLEAN
  /\ file.stamp = backup.stamp /\ file.stamp \notin reused => file.users = backup.users
  /\ server.pc \in {"load", "compare"} /\ ~server.raced => server.stamp = file.stamp
  /\ ~server.loaded => server.users = NoUsers
  /\ ~server.raced /\ server.loaded /\ server.pc # "load" /\ server.stamp \notin reused =>
       /\ server.stamp = file.stamp => server.users = Readable(file.users)
       /\ server.stamp = backup.stamp => server.users = Readable(backup.users)

\* A call of the backend holds the lock, and its copy is the file's unless a
\* program without the lock, or one that had read less, has written since.
CallsAgree ==
  /\ call = [w \in Workers |-> call[w]]
  /\ \A w \in Workers : call[w] # Idle =>
       /\ lock = w /\ IsJob(call[w])
       /\ call[w].alone \/ (clash = None /\ call[w].read = file.write)
            => call[w].table = Readable(file.users)

ToolAgrees ==
  tool # Idle =>
    /\ IsJob(tool) /\ tool.op.kind \in {"create", "delete"}
    /\ clash = None /\ tool.read = file.write => tool.table = Readable(file.users)

\* Between its two writes the bot alone knows the accounts; it never knows
\* their salts.
BotAgrees ==
  bot # Idle =>
    /\ IsJob(bot) /\ bot.pc \in {"truncate", "save"}
    /\ \A u \in DOMAIN bot.table : ~bot.table[u].salt
    /\ clash = None /\ bot.read = file.write =>
         IF bot.pc = "truncate" THEN bot.table = LoadUsers(file.users)
         ELSE Holds(bot.table, issued, unstored)

IssuedHeld ==
  clash = None /\ (bot = Idle \/ bot.pc # "save") =>
    Holds(file.users, issued, unstored) /\ SaltsKnown(file.users, unsalted, unstored)

MenusTyped == menu \in Menus /\ answer \in {"awaited", "typed", "lost"}

\* The question the administrator is asked and the user it is about.
PromptAgrees ==
  /\ selected \in Users \cup {None} /\ prompted \in Users \cup {None}
  /\ menu = "speed_input" =>
       selected # None /\ prompted # None /\ (selected = prompted \/ opened)

\* What is invariant of the file and its programs, and with the bot's menus:
\* the inductive invariant.
FileInv ==
  /\ AccountsTypeOK
  /\ TablesTyped
  /\ StampsTell
  /\ CallsAgree
  /\ ToolAgrees
  /\ BotAgrees
  /\ IssuedHeld

AccountsInv == FileInv /\ PromptAgrees
-----------------------------------------------------------------------------
(* What the operators on tables return *)

\* The tables that are read are tables.
LEMMA ReadTables ==
  ASSUME NEW t, IsTable(t)
  PROVE  /\ IsTable(Readable(t)) /\ IsTable(LoadUsers(t))
         /\ \A u \in DOMAIN Readable(t) : u \in DOMAIN t /\ Readable(t)[u] = t[u]
         /\ \A u \in DOMAIN LoadUsers(t) : ~LoadUsers(t)[u].salt
  BY DEF IsTable, Readable, LoadUsers, Restrict, Accounts

LEMMA WithTable ==
  ASSUME NEW t, IsTable(t), NEW u \in Users, NEW a \in Accounts
  PROVE  /\ IsTable(With(t, u, a))
         /\ \A v : v \in DOMAIN With(t, u, a) <=> v \in DOMAIN t \/ v = u
         /\ With(t, u, a)[u] = a
         /\ \A v \in DOMAIN t \ {u} : With(t, u, a)[v] = t[v]
  BY DEF IsTable, With

LEMMA MinusTable ==
  ASSUME NEW t, IsTable(t), NEW u
  PROVE  /\ IsTable(Minus(t, u))
         /\ \A v : v \in DOMAIN Minus(t, u) <=> v \in DOMAIN t /\ v # u
         /\ \A v \in DOMAIN t \ {u} : Minus(t, u)[v] = t[v]
  BY DEF IsTable, Minus, Restrict

\* The parts of an operation.
LEMMA OpParts ==
  ASSUME NEW op, IsOp(op)
  PROVE  /\ op.user \in Users /\ op.to \in Users /\ op.terms \in AnyTerms
         /\ op.kind \in {"create", "terms", "password", "delete", "rename"}
         /\ op.kind = "rename" => op.user # op.to
  BY DEF IsOp, AnyOp

\* A rename moves an account and leaves the others alone.
LEMMA RenamedTable ==
  ASSUME NEW t, IsTable(t), NEW op, IsOp(op), Allowed(op, t), NEW a, op.kind = "rename"
  PROVE  /\ IsTable(Applied(op, t, a))
         /\ op.user \in DOMAIN t /\ op.user # op.to
         /\ \A v : v \in DOMAIN Applied(op, t, a) <=>
                     (v \in DOMAIN t \/ v = op.to) /\ v # op.user
         /\ Applied(op, t, a)[op.to] = t[op.user]
         /\ \A v \in DOMAIN t \ {op.to, op.user} : Applied(op, t, a)[v] = t[v]
<1> DEFINE to == op.to  moved == t[op.user]  s == With(t, to, moved)
<1>1. to \in Users /\ moved \in Accounts /\ op.user \in DOMAIN t /\ op.user # to
  BY OpParts DEF Allowed, IsTable
<1>2. Applied(op, t, a) = Minus(s, op.user)
  BY DEF Applied
<1> HIDE DEF to, moved
<1>3. /\ IsTable(s) /\ \A v : v \in DOMAIN s <=> v \in DOMAIN t \/ v = to
      /\ \A v \in DOMAIN t \ {to} : s[v] = t[v]
      /\ s[to] = moved
  BY <1>1, WithTable
<1> HIDE DEF s
<1> QED BY <1>1, <1>2, <1>3, MinusTable DEF to, moved

\* An allowed operation yields a table and leaves the accounts of every user
\* alone but the one it is about and the one it renames to.
LEMMA AppliedTable ==
  ASSUME NEW t, IsTable(t), NEW op, IsOp(op), Allowed(op, t), NEW a \in Accounts
  PROVE  /\ IsTable(Applied(op, t, a))
         /\ \A u \in DOMAIN t \ {op.user, op.to} :
              u \in DOMAIN Applied(op, t, a) /\ Applied(op, t, a)[u] = t[u]
<1> USE OpParts
<1>1. CASE op.kind = "create"
  BY <1>1, WithTable DEF Applied
<1>2. CASE op.kind = "password"
  <2> DEFINE b == [a EXCEPT !.terms = t[op.user].terms]
  <2>1. b \in Accounts
    BY <1>2 DEF Accounts, Allowed, IsTable
  <2>2. Applied(op, t, a) = With(t, op.user, b)
    BY <1>2 DEF Applied
  <2> HIDE DEF b
  <2> QED BY <2>1, <2>2, WithTable
<1>3. CASE op.kind = "terms"
  <2>1. Applied(op, t, a) = [t EXCEPT ![op.user].terms = op.terms]
    BY <1>3 DEF Applied
  <2> QED BY <1>3, <2>1 DEF IsTable, Accounts, Allowed
<1>4. CASE op.kind = "rename"
  BY <1>4, RenamedTable
<1>5. CASE op.kind = "delete"
  BY <1>5, MinusTable DEF Applied
<1> QED BY <1>1, <1>2, <1>3, <1>4, <1>5

\* If the table held what was issued, the new one holds what is issued now.
LEMMA AppliedHolds ==
  ASSUME NEW t, IsTable(t), NEW op, IsOp(op), Allowed(op, t),
         NEW a \in Accounts, a.password # 0, NEW lost,
         issued \in [Users -> Nat], Holds(t, issued, lost)
  PROVE  Holds(Applied(op, t, a), Told(op, a.password), Moved(op, lost))
<1> USE OpParts
<1>1. CASE op.kind = "create"
  <2>1. Applied(op, t, a) = With(t, op.user, a)
    BY <1>1 DEF Applied
  <2>2. Told(op, a.password) = [issued EXCEPT ![op.user] = a.password]
    BY <1>1 DEF Told
  <2>3. Moved(op, lost) = lost \ {op.user}
    BY <1>1 DEF Moved
  <2> QED BY <2>1, <2>2, <2>3, WithTable DEF Holds
<1>2. CASE op.kind = "password"
  <2> DEFINE b == [a EXCEPT !.terms = t[op.user].terms]
  <2>1. b \in Accounts /\ b.password = a.password
    BY <1>2 DEF Accounts, Allowed, IsTable
  <2>2. Applied(op, t, a) = With(t, op.user, b)
    BY <1>2 DEF Applied
  <2>3. Told(op, a.password) = [issued EXCEPT ![op.user] = a.password]
    BY <1>2 DEF Told
  <2>4. Moved(op, lost) = lost \ {op.user}
    BY <1>2 DEF Moved
  <2> HIDE DEF b
  <2> QED BY <2>1, <2>2, <2>3, <2>4, WithTable DEF Holds
<1>3. CASE op.kind = "terms"
  <2>1. Applied(op, t, a) = [t EXCEPT ![op.user].terms = op.terms]
    BY <1>3 DEF Applied
  <2>2. Told(op, a.password) = issued /\ Moved(op, lost) = lost
    BY <1>3 DEF Told, Moved
  <2> QED BY <1>3, <2>1, <2>2 DEF Holds, IsTable, Accounts, Allowed
<1>4. CASE op.kind = "rename"
  <2>1. /\ op.user \in DOMAIN t /\ op.user # op.to
        /\ \A v : v \in DOMAIN Applied(op, t, a) <=>
                     (v \in DOMAIN t \/ v = op.to) /\ v # op.user
        /\ Applied(op, t, a)[op.to] = t[op.user]
        /\ \A v \in DOMAIN t \ {op.to, op.user} : Applied(op, t, a)[v] = t[v]
    BY <1>4, RenamedTable
  <2>2. Told(op, a.password) = [issued EXCEPT ![op.to] = issued[op.user], ![op.user] = 0]
    BY <1>4 DEF Told
  <2>3. \A u \in Users : u \in Moved(op, lost) <=>
          IF u \in {op.user, op.to} THEN u = op.to /\ op.user \in lost ELSE u \in lost
    BY <1>4 DEF Moved
  <2> QED BY <2>1, <2>2, <2>3 DEF Holds
<1>5. CASE op.kind = "delete"
  <2>1. Applied(op, t, a) = Minus(t, op.user)
    BY <1>5 DEF Applied
  <2>2. Told(op, a.password) = [issued EXCEPT ![op.user] = 0]
    BY <1>5 DEF Told
  <2>3. Moved(op, lost) = lost \ {op.user}
    BY <1>5 DEF Moved
  <2> QED BY <2>1, <2>2, <2>3, MinusTable DEF Holds
<1> QED BY <1>1, <1>2, <1>3, <1>4, <1>5

\* If it was known whose salt is gone, it still is: the new account has its own.
LEMMA AppliedSalts ==
  ASSUME NEW t, IsTable(t), NEW op, IsOp(op), Allowed(op, t),
         NEW a \in Accounts, a.salt = a.salted, NEW lost, NEW dropped,
         SaltsKnown(t, dropped, lost)
  PROVE  SaltsKnown(Applied(op, t, a), Moved(op, dropped), Moved(op, lost))
<1> USE OpParts
<1>1. CASE op.kind = "create"
  <2>1. Applied(op, t, a) = With(t, op.user, a)
    BY <1>1 DEF Applied
  <2>2. Moved(op, lost) = lost \ {op.user} /\ Moved(op, dropped) = dropped \ {op.user}
    BY <1>1 DEF Moved
  <2> QED BY <2>1, <2>2, WithTable DEF SaltsKnown
<1>2. CASE op.kind = "password"
  <2> DEFINE b == [a EXCEPT !.terms = t[op.user].terms]
  <2>1. b \in Accounts /\ b.salt = a.salt /\ b.salted = a.salted
    BY <1>2 DEF Accounts, Allowed, IsTable
  <2>2. Applied(op, t, a) = With(t, op.user, b)
    BY <1>2 DEF Applied
  <2>3. Moved(op, lost) = lost \ {op.user} /\ Moved(op, dropped) = dropped \ {op.user}
    BY <1>2 DEF Moved
  <2> HIDE DEF b
  <2> QED BY <2>1, <2>2, <2>3, WithTable DEF SaltsKnown
<1>3. CASE op.kind = "terms"
  <2>1. Applied(op, t, a) = [t EXCEPT ![op.user].terms = op.terms]
    BY <1>3 DEF Applied
  <2>2. Moved(op, lost) = lost /\ Moved(op, dropped) = dropped
    BY <1>3 DEF Moved
  <2> QED BY <1>3, <2>1, <2>2 DEF SaltsKnown, IsTable, Accounts, Allowed
<1>4. CASE op.kind = "rename"
  <2>1. /\ op.user \in DOMAIN t /\ op.user # op.to
        /\ IsTable(Applied(op, t, a))
        /\ \A v : v \in DOMAIN Applied(op, t, a) <=>
                     (v \in DOMAIN t \/ v = op.to) /\ v # op.user
        /\ Applied(op, t, a)[op.to] = t[op.user]
        /\ \A v \in DOMAIN t \ {op.to, op.user} : Applied(op, t, a)[v] = t[v]
    BY <1>4, RenamedTable, AppliedTable
  <2>2. \A u \in Users, set \in {lost, dropped} : u \in Moved(op, set) <=>
          IF u \in {op.user, op.to} THEN u = op.to /\ op.user \in set ELSE u \in set
    BY <1>4 DEF Moved
  <2>3. DOMAIN Applied(op, t, a) \subseteq Users
    BY <2>1 DEF IsTable
  <2> QED BY <2>1, <2>2, <2>3 DEF SaltsKnown
<1>5. CASE op.kind = "delete"
  <2>1. Applied(op, t, a) = Minus(t, op.user)
    BY <1>5 DEF Applied
  <2>2. Moved(op, lost) = lost \ {op.user} /\ Moved(op, dropped) = dropped \ {op.user}
    BY <1>5 DEF Moved
  <2> QED BY <2>1, <2>2, MinusTable DEF SaltsKnown
<1> QED BY <1>1, <1>2, <1>3, <1>4, <1>5

\* An operation moves users to users.
LEMMA MovedUsers ==
  ASSUME NEW op, IsOp(op), NEW set \in SUBSET Users
  PROVE  Moved(op, set) \in SUBSET Users
  BY OpParts DEF Moved

\* The lines that a failed write leaves are a table.
LEMMA PartTables ==
  ASSUME NEW t, IsTable(t), NEW part \in Parts(t)
  PROVE  IsTable(part)
<1> DEFINE some == {Restrict(t, S) : S \in SUBSET DOMAIN t}
<1>1. \A r \in some : IsTable(r)
  BY DEF IsTable, Restrict
<1>2. \A r \in some : \A u \in DOMAIN r : IsTable([r EXCEPT ![u].salt = FALSE])
  <2> SUFFICES ASSUME NEW r, IsTable(r), NEW u \in DOMAIN r
               PROVE  IsTable([r EXCEPT ![u].salt = FALSE])
    BY <1>1
  <2> QED BY DEF IsTable, Accounts
<1>3. part \in some \/ \E r \in some : \E u \in DOMAIN r : part = [r EXCEPT ![u].salt = FALSE]
  BY DEF Parts
<1> HIDE DEF some
<1> QED BY <1>1, <1>2, <1>3

\* The passwords told stay below the time stamp of the write.
LEMMA ToldTyped ==
  ASSUME NEW n \in Nat, issued \in [Users -> 0..n], NEW op, IsOp(op)
  PROVE  Told(op, n + 1) \in [Users -> 0..(n + 1)]
<1>0. issued \in [Users -> 0..(n + 1)] /\ n + 1 \in 0..(n + 1) /\ 0 \in 0..(n + 1)
  OBVIOUS
<1> QED BY <1>0 DEF Told, IsOp, AnyOp

\* What the programs do are operations.
LEMMA OpsTyped ==
  /\ \A op \in BackendOps \cup BotOps \cup ToolOps : IsOp(op)
  /\ \A u \in Users, t \in AnyTerms : IsOp(Op("terms", u, u, t))
  BY DEF IsOp, AnyOp, AnyTerms, BackendOps, BotOps, ToolOps, Creates, TermsSet, Passwords,
         Deletes, Renames, Op

\* New accounts.
LEMMA AccountsTyped ==
  ASSUME NEW p \in Nat, NEW t \in AnyTerms
  PROVE  /\ Salted(p, t) \in Accounts /\ Unsalted(p, t) \in Accounts
         /\ Salted(p, t).password = p /\ Unsalted(p, t).password = p
         /\ Salted(p, t).salt = Salted(p, t).salted
         /\ Unsalted(p, t).salt = Unsalted(p, t).salted
  BY DEF Accounts, Salted, Unsalted, Account
-----------------------------------------------------------------------------
(* The steps preserve the invariant of the file *)

LEMMA FileInit == BotInit => AccountsInv
<1> SUFFICES ASSUME BotInit PROVE AccountsInv
  OBVIOUS
<1> USE StoreAssumption DEF BotInit, StoreInit
<1>1. PICK some \in SUBSET Users, t \in Terms :
        /\ file = [users |-> [u \in some |-> Account(1, TRUE, t)], stamp |-> 1, write |-> 1]
        /\ issued = [u \in Users |-> IF u \in some THEN 1 ELSE 0]
  OBVIOUS
<1>2. /\ IsTable(file.users) /\ DOMAIN file.users = some
      /\ \A u \in some : /\ file.users[u].password = 1 /\ file.users[u].terms # Junk
                         /\ file.users[u].salt = file.users[u].salted
  BY <1>1 DEF IsTable, Accounts, Account, AnyTerms
<1>3. Readable(file.users) = file.users
  BY <1>2 DEF Readable, Restrict, IsTable
<1>4. AccountsTypeOK
  BY <1>1, <1>2 DEF AccountsTypeOK, Menus
<1>5. TablesTyped /\ StampsTell
  BY <1>1, <1>2, <1>3 DEF TablesTyped, StampsTell
<1>6. CallsAgree /\ ToolAgrees /\ BotAgrees
  BY DEF CallsAgree, ToolAgrees, BotAgrees
<1>7. IssuedHeld
  <2>1. unsalted = {}
    OBVIOUS
  <2>2. \A u \in Users : IF u \in some THEN issued[u] = 1 ELSE issued[u] = 0
    BY <1>1
  <2> HIDE DEF StoreInit, BotInit
  <2>3. \A u \in Users : IF u \in some THEN file.users[u].password = issued[u] /\ issued[u] # 0
                                        ELSE issued[u] = 0
    BY <1>2, <2>2
  <2>4. SaltsKnown(file.users, unsalted, unstored)
    BY <1>2, <2>1 DEF SaltsKnown
  <2>5. Holds(file.users, issued, unstored)
    BY <1>2, <2>3, Zenon DEF Holds
  <2> QED BY <2>4, <2>5 DEF IssuedHeld
<1>8. PromptAgrees
  BY DEF PromptAgrees
<1> QED BY <1>4, <1>5, <1>6, <1>7, <1>8 DEF AccountsInv, FileInv

\* A step that writes no file and makes nothing look unread keeps what it
\* leaves alone.
LEMMA Unwritten ==
  ASSUME FileInv, UNCHANGED <<file, writes>>, clash' = None => clash = None
  PROVE  /\ UNCHANGED tool => ToolAgrees'
         /\ UNCHANGED <<bot, issued, unstored>> => BotAgrees'
         /\ UNCHANGED <<lock, call>> => CallsAgree'
         /\ UNCHANGED <<server, backup, reused>> => TablesTyped' /\ StampsTell'
<1>1. UNCHANGED tool => ToolAgrees'
  BY DEF FileInv, ToolAgrees, IsJob
<1>2. UNCHANGED <<bot, issued, unstored>> => BotAgrees'
  BY DEF FileInv, BotAgrees, IsJob, Holds
<1>3. UNCHANGED <<lock, call>> => CallsAgree'
  BY DEF FileInv, CallsAgree, IsJob
<1>4. UNCHANGED <<server, backup, reused>> => TablesTyped' /\ StampsTell'
  BY DEF FileInv, TablesTyped, StampsTell
<1> QED BY <1>1, <1>2, <1>3, <1>4

\* A write outdates every copy that was read before it.
LEMMA Outdated ==
  ASSUME FileInv, writes' \in Nat, writes' >= writes,
         clash' # None \/ file'.write > writes
  PROVE  /\ UNCHANGED tool => ToolAgrees'
         /\ UNCHANGED bot => BotAgrees'
         /\ Unlocked /\ UNCHANGED lock => CallsAgree'
<1>0. writes \in Nat
  BY StoreAssumption DEF FileInv, AccountsTypeOK
<1>1. UNCHANGED tool => ToolAgrees'
  BY <1>0 DEF FileInv, ToolAgrees, IsJob
<1>2. UNCHANGED bot => BotAgrees'
  <2> SUFFICES ASSUME UNCHANGED bot, bot # Idle
               PROVE  /\ IsJob(bot)' /\ bot.pc \in {"truncate", "save"}
                      /\ \A u \in DOMAIN bot.table : ~bot.table[u].salt
                      /\ ~(clash' = None /\ bot.read = file'.write)
    BY DEF BotAgrees
  <2>1. /\ IsJob(bot) /\ bot.pc \in {"truncate", "save"}
        /\ \A u \in DOMAIN bot.table : ~bot.table[u].salt
    BY DEF FileInv, BotAgrees
  <2>2. IsJob(bot)' /\ bot.read <= writes
    BY <1>0, <2>1 DEF IsJob
  <2> QED BY <1>0, <2>1, <2>2 DEF IsJob
<1>3. ASSUME Unlocked, UNCHANGED lock PROVE CallsAgree'
  <2>1. \A w \in Workers : call'[w] =
          IF call[w] = Idle THEN Idle ELSE [call[w] EXCEPT !.alone = FALSE]
    BY <1>3 DEF Unlocked
  <2>2. call' = [w \in Workers |-> call'[w]]
    BY <1>3 DEF Unlocked
  <2> SUFFICES ASSUME NEW w \in Workers, call'[w] # Idle
               PROVE  /\ lock' = w /\ IsJob(call[w])'
                      /\ ~call'[w].alone /\ ~(clash' = None /\ call'[w].read = file'.write)
    BY <2>2, Zenon DEF CallsAgree
  <2>3. call[w] # Idle /\ lock = w /\ IsJob(call[w])
    BY <2>1 DEF FileInv, CallsAgree
  <2>4. call'[w] = [call[w] EXCEPT !.alone = FALSE]
    BY <2>1, <2>3
  <2>5. call'[w] = [pc |-> call[w].pc, op |-> call[w].op, table |-> call[w].table,
                    read |-> call[w].read, alone |-> FALSE]
    BY <2>3, <2>4 DEF IsJob
  <2>6. call[w].read \in 1..writes
    BY <2>3 DEF IsJob
  <2>7. IsJob(call[w])'
    BY <1>0, <2>3, <2>5, <2>6 DEF IsJob
  <2> QED BY <1>0, <1>3, <2>3, <2>5, <2>6, <2>7
<1> QED BY <1>1, <1>2, <1>3

\* What a write makes of the file, and that time stamps still tell.
LEMMA Put ==
  ASSUME FileInv, NEW table, IsTable(table), PutFile(table), UNCHANGED backup
  PROVE  /\ writes \in Nat /\ writes' = writes + 1 /\ writes' \in 1..MaxWrites
         /\ file'.users = table /\ file'.write = writes' /\ IsTable(file'.users)
         /\ file'.stamp \in 1..writes' /\ reused' \subseteq 1..writes'
         /\ server'.users = server.users
         /\ TablesTyped' /\ StampsTell'
<1>1. writes \in Nat /\ writes' = writes + 1 /\ writes' \in 1..MaxWrites
  BY StoreAssumption DEF FileInv, AccountsTypeOK, PutFile
<1>2. PICK t \in Ticks : /\ file' = [users |-> table, stamp |-> t, write |-> writes + 1]
                        /\ reused' = IF t <= writes THEN reused \cup {t} ELSE reused
  BY DEF PutFile
<1>3. file.stamp \in 1..writes /\ server.stamp \in 0..writes /\ reused \subseteq 1..writes
  BY DEF FileInv, AccountsTypeOK, StampsTell
<1>4. t \in 1..(writes + 1) /\ (t <= writes \/ t = writes + 1)
  BY <1>1, <1>3 DEF Ticks
<1>5. /\ file'.users = table /\ file'.write = writes' /\ file'.stamp = t /\ IsTable(file'.users)
      /\ file'.stamp \in 1..writes'
  BY <1>1, <1>2, <1>4
<1>6. reused' \subseteq 1..writes' /\ reused \subseteq reused' /\ (t <= writes => t \in reused')
  BY <1>1, <1>2, <1>3, <1>4
<1>7. server' = [pc |-> server.pc, users |-> server.users, stamp |-> server.stamp,
                 raced |-> server.raced \/ server.pc # "idle", loaded |-> server.loaded]
  BY DEF FileInv, StampsTell, PutFile
<1>8. TablesTyped'
  BY <1>5, <1>7 DEF FileInv, TablesTyped
<1>9. StampsTell'
  <2>1. /\ server'.pc = server.pc /\ server'.stamp = server.stamp
        /\ server'.raced <=> server.raced \/ server.pc # "idle"
        /\ server'.raced \in BOOLEAN /\ server'.users = server.users
        /\ server'.loaded = server.loaded
        /\ server' = [pc |-> server'.pc, users |-> server'.users, stamp |-> server'.stamp,
                      raced |-> server'.raced, loaded |-> server'.loaded]
    BY <1>7 DEF FileInv, StampsTell
  <2>2. /\ backup' = backup /\ backup.stamp \in 1..writes' /\ backup.write \in 1..writes'
        /\ server'.stamp \in 0..writes' /\ backup.stamp <= writes /\ server.stamp <= writes
    BY <1>1, <1>3, <2>1 DEF FileInv, StampsTell
  <2>3. t \notin reused' => t = writes + 1
    BY <1>4, <1>6
  <2>4. file'.stamp \notin reused' => backup'.stamp # file'.stamp /\ server'.stamp # file'.stamp
    BY <1>1, <1>3, <1>5, <2>1, <2>2, <2>3
  <2>5. ~server'.raced => server'.pc = "idle" /\ ~server.raced
    BY <2>1
  <2>6. ASSUME ~server'.raced, server'.loaded, server'.stamp \notin reused',
               server'.stamp = backup'.stamp
        PROVE  server'.users = Readable(backup'.users)
    BY <1>6, <2>1, <2>2, <2>5, <2>6 DEF FileInv, StampsTell
  <2>7. ~server'.loaded => server'.users = NoUsers
    BY <2>1 DEF FileInv, StampsTell
  <2>8. server'.pc \in {"idle", "load", "compare", "unchecked"} /\ server'.loaded \in BOOLEAN
    BY <2>1 DEF FileInv, StampsTell
  <2> QED BY <2>1, <2>2, <2>4, <2>5, <2>6, <2>7, <2>8 DEF StampsTell
<1> QED BY <1>1, <1>5, <1>6, <1>7, <1>8, <1>9

\* A write by a program that had read the file as it is, or overwrites something.
LEMMA Written ==
  ASSUME FileInv, NEW table, IsTable(table), NEW who \in Programs, NEW read,
         WriteFile(table, who, read), UNCHANGED backup
  PROVE  /\ writes \in Nat /\ writes' = writes + 1 /\ writes' \in 1..MaxWrites
         /\ file'.users = table /\ file'.write = writes' /\ IsTable(file'.users)
         /\ file'.stamp \in 1..writes' /\ reused' \subseteq 1..writes'
         /\ server'.users = server.users
         /\ TablesTyped' /\ StampsTell'
         /\ clash' \in Programs \cup {None}
         /\ clash' = None =>
              /\ clash = None /\ read = file.write
              /\ who = "bot" \/ Readable(file.users) = file.users
<1>1. PutFile(table)
  BY DEF WriteFile
<1>2. clash' \in Programs \cup {None}
  BY DEF FileInv, AccountsTypeOK, WriteFile, First
<1>3. clash' = None => /\ clash = None /\ read = file.write
                       /\ who = "bot" \/ Readable(file.users) = file.users
  BY StoreAssumption DEF WriteFile, First
<1> QED BY <1>1, <1>2, <1>3, Put

\* What an operation makes of the passwords issued, the salts dropped and the
\* changes not stored.
LEMMA Reported ==
  ASSUME NEW n \in Nat, issued \in [Users -> 0..n], unsalted \subseteq Users,
         unstored \subseteq Users, NEW op, IsOp(op)
  PROVE  /\ Told(op, n + 1) \in [Users -> 0..(n + 1)]
         /\ Moved(op, unsalted) \subseteq Users /\ Moved(op, unstored) \subseteq Users
         /\ Moved(op, unstored) \cup {op.user} \subseteq Users
  BY ToldTyped, MovedUsers, OpParts


(* The calls of the backend *)

LEMMA ReadAllStep ==
  ASSUME FileInv, MenusTyped', NEW w \in Workers, NEW op \in BackendOps, ReadAll(w, op)
  PROVE  FileInv'
<1> USE DEF ReadAll, shared, told
<1>1. ToolAgrees' /\ BotAgrees' /\ TablesTyped' /\ StampsTell'
  BY Unwritten
<1>2. AccountsTypeOK'
  BY DEF FileInv, AccountsTypeOK, MenusTyped
<1>3. IssuedHeld'
  BY DEF FileInv, IssuedHeld, Holds, SaltsKnown
<1>4. CallsAgree'
  <2> DEFINE j == Job("write", op, Readable(file.users))
  <2>1. IsOp(op) /\ IsTable(Readable(file.users))
    BY OpsTyped, ReadTables DEF FileInv, TablesTyped
  <2>2. /\ IsJob(j) /\ j.table = Readable(file.users)
    BY <2>1 DEF FileInv, AccountsTypeOK, IsJob, Job
  <2>3. \A v \in Workers \ {w} : call[v] = Idle
    BY StoreAssumption DEF LockIsFree, FileInv, CallsAgree
  <2>4. call' = [v \in Workers |-> IF v = w THEN j ELSE Idle]
    BY <2>3 DEF FileInv, CallsAgree
  <2>5. IsJob(j)' /\ j' = j
    BY <2>2 DEF IsJob, Job
  <2> HIDE DEF j
  <2>6. call' = [v \in Workers |-> call'[v]] /\ \A v \in Workers : call'[v] # Idle => v = w
    BY <2>4
  <2>7. call'[w] = j /\ lock' = w /\ IsJob(call[w])' /\ file' = file
    BY <2>4, <2>5 DEF IsJob
  <2> QED BY <2>2, <2>6, <2>7, Zenon DEF CallsAgree
<1> QED BY <1>1, <1>2, <1>3, <1>4 DEF FileInv

LEMMA WriteAllStep ==
  ASSUME FileInv, MenusTyped', NEW w \in Workers, WriteAll(w)
  PROVE  FileInv'
<1> DEFINE op == call[w].op
           a == Salted(writes + 1, op.terms)
           table == Applied(op, call[w].table, a)
<1>1. /\ lock = w /\ IsOp(op) /\ IsTable(call[w].table) /\ Allowed(op, call[w].table)
      /\ op.terms \in AnyTerms /\ writes \in Nat /\ issued \in [Users -> 0..writes]
      /\ unsalted \subseteq Users /\ unstored \subseteq Users
  BY OpParts, StoreAssumption DEF WriteAll, FileInv, CallsAgree, IsJob, AccountsTypeOK
<1>2. a \in Accounts /\ a.password = writes + 1 /\ a.salt = a.salted
  <2>1. writes + 1 \in Nat
    BY <1>1
  <2> QED BY <1>1, <2>1, AccountsTyped, Zenon
<1>3. /\ WriteFile(table, "backend", call[w].read) /\ issued' = Told(op, writes + 1)
      /\ unsalted' = Moved(op, unsalted) /\ unstored' = Moved(op, unstored)
      /\ lock' = None /\ call' = [call EXCEPT ![w] = Idle]
      /\ UNCHANGED <<bot, tool, backup>>
  BY DEF WriteAll, Finish, Report
<1>4. IsTable(table)
  <2> HIDE DEF a, op
  <2> QED BY <1>1, <1>2, AppliedTable
<1> HIDE DEF op, a
<1>5. /\ writes' = writes + 1 /\ writes' \in 1..MaxWrites
      /\ file'.users = table /\ file'.write = writes' /\ IsTable(file'.users)
      /\ file'.stamp \in 1..writes' /\ reused' \subseteq 1..writes'
      /\ clash' \in Programs \cup {None}
      /\ clash' = None => /\ clash = None /\ call[w].read = file.write
                          /\ Readable(file.users) = file.users
      /\ server'.users = server.users
      /\ TablesTyped' /\ StampsTell'
  BY <1>3, <1>4, Written DEF Programs
<1>6. ToolAgrees' /\ BotAgrees'
  BY <1>1, <1>3, <1>5, Outdated
<1>7. AccountsTypeOK'
  <2>1. /\ issued' \in [Users -> 0..writes']
        /\ unsalted' \subseteq Users /\ unstored' \subseteq Users
    BY <1>1, <1>3, <1>5, Reported
  <2> QED BY <1>3, <1>5, <2>1 DEF FileInv, AccountsTypeOK, IsTable, MenusTyped
<1>8. CallsAgree'
  <2>1. \A v \in Workers \ {w} : call[v] = Idle
    BY <1>1 DEF FileInv, CallsAgree
  <2>2. call' = [v \in Workers |-> Idle]
    BY <1>3, <2>1 DEF FileInv, CallsAgree
  <2> QED BY <2>2 DEF CallsAgree
<1>9. IssuedHeld'
  <2> SUFFICES ASSUME clash' = None, bot = Idle \/ bot.pc # "save"
               PROVE  /\ Holds(table, Told(op, writes + 1), Moved(op, unstored))
                      /\ SaltsKnown(table, Moved(op, unsalted), Moved(op, unstored))
    BY <1>3, <1>5 DEF IssuedHeld, Holds, SaltsKnown
  <2>1. /\ call[w].table = file.users /\ Holds(file.users, issued, unstored)
        /\ SaltsKnown(file.users, unsalted, unstored)
    BY <1>3, <1>5 DEF FileInv, CallsAgree, IssuedHeld, WriteAll
  <2>2. issued \in [Users -> Nat] /\ a.password # 0
    BY <1>1, <1>2
  <2>3. Holds(table, Told(op, a.password), Moved(op, unstored))
    BY <1>1, <1>2, <2>1, <2>2, AppliedHolds
  <2>4. SaltsKnown(table, Moved(op, unsalted), Moved(op, unstored))
    BY <1>1, <1>2, <2>1, AppliedSalts
  <2> QED BY <1>2, <2>3, <2>4
<1> QED BY <1>5, <1>6, <1>7, <1>8, <1>9 DEF FileInv

LEMMA DieStep ==
  ASSUME FileInv, MenusTyped', NEW w \in Workers, Die(w)
  PROVE  FileInv'
<1> USE DEF Die, shared, told
<1>1. ToolAgrees' /\ BotAgrees' /\ TablesTyped' /\ StampsTell'
  BY Unwritten
<1>2. AccountsTypeOK'
  BY DEF FileInv, AccountsTypeOK, MenusTyped
<1>3. IssuedHeld'
  BY DEF FileInv, IssuedHeld, Holds, SaltsKnown
<1>4. CallsAgree'
  <2>1. \A v \in Workers \ {w} : call[v] = Idle
    BY DEF FileInv, CallsAgree
  <2>2. call' = [v \in Workers |-> Idle]
    BY <2>1 DEF FileInv, CallsAgree
  <2> QED BY <2>2 DEF CallsAgree
<1> QED BY <1>1, <1>2, <1>3, <1>4 DEF FileInv


(* The bot *)

LEMMA BotLoadsStep ==
  ASSUME FileInv, MenusTyped', NEW op, IsOp(op), BotLoads(op)
  PROVE  FileInv'
<1> USE DEF BotLoads, shared, told
<1> DEFINE j == Job("truncate", op, LoadUsers(file.users))
<1>1. ToolAgrees' /\ CallsAgree' /\ TablesTyped' /\ StampsTell'
  BY Unwritten
<1>2. AccountsTypeOK'
  BY DEF FileInv, AccountsTypeOK, MenusTyped
<1>3. bot' = Idle \/ (bot' = j /\ Allowed(op, LoadUsers(file.users)))
  BY Zenon
<1>4. j.pc = "truncate" /\ j.table = LoadUsers(file.users)
  BY DEF Job
<1>5. IssuedHeld'
  BY <1>3, <1>4 DEF FileInv, IssuedHeld, Holds, SaltsKnown
<1>6. BotAgrees'
  <2>1. CASE bot' = Idle
    BY <2>1 DEF BotAgrees
  <2>2. CASE bot' = j /\ Allowed(op, LoadUsers(file.users))
    <3>1. /\ IsTable(LoadUsers(file.users))
          /\ \A u \in DOMAIN LoadUsers(file.users) : ~LoadUsers(file.users)[u].salt
      BY ReadTables DEF FileInv, TablesTyped
    <3>2. IsJob(j) /\ j' = j
      BY <2>2, <3>1 DEF FileInv, AccountsTypeOK, IsJob, Job
    <3>3. IsJob(bot)'
      BY <2>2, <3>2 DEF IsJob
    <3> HIDE DEF j
    <3> QED BY <1>4, <2>2, <3>1, <3>3 DEF BotAgrees
  <2> QED BY <1>3, <2>1, <2>2
<1> QED BY <1>1, <1>2, <1>5, <1>6 DEF FileInv

LEMMA BotTruncatesStep ==
  ASSUME FileInv, MenusTyped', BotTruncates
  PROVE  FileInv'
<1>1. IsTable(NoUsers)
  BY DEF IsTable, NoUsers
<1>2. /\ WriteFile(NoUsers, "bot", bot.read)
      /\ bot' = [bot EXCEPT !.pc = "save", !.read = writes + 1]
      /\ Unlocked /\ UNCHANGED <<told, lock, tool, backup>>
      /\ bot # Idle /\ bot.pc = "truncate"
  BY DEF BotTruncates
<1>3. /\ writes \in Nat /\ writes' = writes + 1 /\ writes' \in 1..MaxWrites
      /\ file'.users = NoUsers /\ file'.write = writes'
      /\ file'.stamp \in 1..writes' /\ reused' \subseteq 1..writes'
      /\ clash' \in Programs \cup {None}
      /\ clash' = None => clash = None /\ bot.read = file.write
      /\ server'.users = server.users
      /\ TablesTyped' /\ StampsTell'
  BY <1>1, <1>2, Written DEF Programs
<1>4. ToolAgrees' /\ CallsAgree'
  BY <1>2, <1>3, Outdated
<1>5. AccountsTypeOK'
  <2>1. issued' \in [Users -> 0..writes']
    BY <1>2, <1>3 DEF FileInv, AccountsTypeOK, told
  <2> QED BY <1>1, <1>2, <1>3, <2>1 DEF FileInv, AccountsTypeOK, IsTable, MenusTyped, told
<1>6. /\ IsJob(bot) /\ \A u \in DOMAIN bot.table : ~bot.table[u].salt
      /\ clash = None /\ bot.read = file.write => bot.table = LoadUsers(file.users)
  BY <1>2 DEF FileInv, BotAgrees
<1>7. bot' = [pc |-> "save", op |-> bot.op, table |-> bot.table, read |-> writes',
              alone |-> bot.alone]
  BY <1>2, <1>3, <1>6 DEF IsJob
<1>8. BotAgrees'
  <2>1. IsJob(bot)'
    BY <1>3, <1>6, <1>7 DEF IsJob
  <2>2. ASSUME clash' = None PROVE Holds(bot'.table, issued', unstored')
    <3>1. Holds(file.users, issued, unstored) /\ bot'.table = LoadUsers(file.users)
      BY <1>2, <1>3, <1>6, <1>7, <2>2 DEF FileInv, IssuedHeld
    <3>2. IsTable(file.users)
      BY DEF FileInv, TablesTyped
    <3> QED BY <1>2, <3>1, <3>2 DEF Holds, LoadUsers, IsTable, Accounts, told
  <2> QED BY <1>6, <1>7, <2>1, <2>2 DEF BotAgrees
<1>9. IssuedHeld'
  BY <1>7 DEF IssuedHeld, Idle
<1> QED BY <1>3, <1>4, <1>5, <1>8, <1>9 DEF FileInv

LEMMA BotSavesStep ==
  ASSUME FileInv, MenusTyped', BotSaves
  PROVE  FileInv'
<1> DEFINE op == bot.op
           a == Unsalted(writes + 1, op.terms)
           table == Applied(op, bot.table, a)
           salted == {u \in DOMAIN bot.table : bot.table[u].salted}
<1>1. /\ IsOp(op) /\ IsTable(bot.table) /\ Allowed(op, bot.table)
      /\ op.terms \in AnyTerms /\ writes \in Nat /\ issued \in [Users -> 0..writes]
      /\ unsalted \subseteq Users /\ unstored \subseteq Users
      /\ \A u \in DOMAIN bot.table : ~bot.table[u].salt
  BY OpParts, StoreAssumption DEF BotSaves, FileInv, BotAgrees, IsJob, AccountsTypeOK
<1>2. a \in Accounts /\ a.password = writes + 1 /\ a.salt = a.salted
  <2>1. writes + 1 \in Nat
    BY <1>1
  <2> QED BY <1>1, <2>1, AccountsTyped, Zenon
<1>3. /\ WriteFile(table, "bot", bot.read) /\ issued' = Told(op, writes + 1)
      /\ unsalted' = Moved(op, salted) /\ unstored' = Moved(op, unstored)
      /\ bot' = Idle /\ Unlocked
      /\ UNCHANGED <<lock, tool, backup>>
  BY DEF BotSaves
<1>4. IsTable(table)
  <2> HIDE DEF a, op
  <2> QED BY <1>1, <1>2, AppliedTable
<1>5. salted \in SUBSET Users /\ SaltsKnown(bot.table, salted, unstored)
  BY <1>1 DEF SaltsKnown, IsTable, Accounts
<1> HIDE DEF op, a, salted
<1>6. /\ writes' = writes + 1 /\ writes' \in 1..MaxWrites
      /\ file'.users = table /\ file'.write = writes' /\ IsTable(file'.users)
      /\ file'.stamp \in 1..writes' /\ reused' \subseteq 1..writes'
      /\ clash' \in Programs \cup {None}
      /\ clash' = None => clash = None /\ bot.read = file.write
      /\ server'.users = server.users
      /\ TablesTyped' /\ StampsTell'
  BY <1>3, <1>4, Written DEF Programs
<1>7. ToolAgrees' /\ CallsAgree'
  BY <1>1, <1>3, <1>6, Outdated
<1>8. BotAgrees'
  BY <1>3 DEF BotAgrees
<1>9. AccountsTypeOK'
  <2>1. issued' \in [Users -> 0..writes'] /\ unstored' \subseteq Users
    BY <1>1, <1>3, <1>6, Reported
  <2>2. unsalted' \subseteq Users
    BY <1>1, <1>3, <1>5, MovedUsers
  <2> QED BY <1>3, <1>6, <2>1, <2>2 DEF FileInv, AccountsTypeOK, IsTable, MenusTyped
<1>10. IssuedHeld'
  <2> SUFFICES ASSUME clash' = None
               PROVE  /\ Holds(table, Told(op, writes + 1), Moved(op, unstored))
                      /\ SaltsKnown(table, Moved(op, salted), Moved(op, unstored))
    BY <1>3, <1>6 DEF IssuedHeld, Holds, SaltsKnown
  <2>1. Holds(bot.table, issued, unstored)
    BY <1>3, <1>6 DEF FileInv, BotAgrees, BotSaves
  <2>2. issued \in [Users -> Nat] /\ a.password # 0
    BY <1>1, <1>2
  <2>3. Holds(table, Told(op, a.password), Moved(op, unstored))
    BY <1>1, <1>2, <2>1, <2>2, AppliedHolds
  <2>4. SaltsKnown(table, Moved(op, salted), Moved(op, unstored))
    BY <1>1, <1>2, <1>5, AppliedSalts
  <2> QED BY <1>2, <2>3, <2>4
<1> QED BY <1>6, <1>7, <1>8, <1>9, <1>10 DEF FileInv

LEMMA BotFailsStep ==
  ASSUME FileInv, MenusTyped', BotFails
  PROVE  FileInv'
<1> DEFINE op == bot.op
           a == Unsalted(writes + 1, op.terms)
           table == Applied(op, bot.table, a)
<1>1. bot' = Idle /\ UNCHANGED <<lock, tool, backup>> /\ BotAgrees'
  BY DEF BotFails, BotAgrees
<1>2. CASE bot.pc = "truncate" /\ UNCHANGED <<shared, call, server>>
  <2> USE <1>1, <1>2 DEF shared, told
  <2>1. CallsAgree' /\ ToolAgrees' /\ TablesTyped' /\ StampsTell'
    BY Unwritten
  <2>2. AccountsTypeOK' /\ IssuedHeld'
    BY DEF FileInv, AccountsTypeOK, IssuedHeld, Holds, SaltsKnown, MenusTyped
  <2> QED BY <1>1, <2>1, <2>2 DEF FileInv
<1>3. CASE /\ bot.pc = "save" /\ clash' = First("crash") /\ Unlocked /\ UNCHANGED told
           /\ \E part \in Parts(table) : PutFile(part)
  <2>0. IsTable(table)
    <3>1. /\ IsOp(op) /\ IsTable(bot.table) /\ Allowed(op, bot.table)
          /\ op.terms \in AnyTerms /\ writes + 1 \in Nat
      BY OpParts, StoreAssumption DEF BotFails, FileInv, BotAgrees, IsJob, AccountsTypeOK
    <3>2. a \in Accounts
      BY <3>1, AccountsTyped, Zenon
    <3> HIDE DEF a, op
    <3> QED BY <3>1, <3>2, AppliedTable
  <2> HIDE DEF table
  <2>1. PICK part \in Parts(table) : PutFile(part)
    BY <1>3
  <2>2. IsTable(part)
    BY <2>0, <2>1, PartTables
  <2>3. /\ writes \in Nat /\ writes' = writes + 1 /\ writes' \in 1..MaxWrites
        /\ file'.users = part /\ file'.write = writes' /\ IsTable(file'.users)
        /\ file'.stamp \in 1..writes' /\ reused' \subseteq 1..writes'
        /\ server'.users = server.users /\ TablesTyped' /\ StampsTell'
    BY <1>1, <2>1, <2>2, Put
  <2>4. clash' \in Programs /\ clash' # None
    BY <1>3, StoreAssumption DEF First, Programs, FileInv, AccountsTypeOK
  <2>5. ToolAgrees' /\ CallsAgree'
    BY <1>1, <1>3, <2>3, <2>4, Outdated
  <2>6. AccountsTypeOK'
    BY <1>1, <1>3, <2>3, <2>4 DEF FileInv, AccountsTypeOK, IsTable, MenusTyped, told
  <2>7. IssuedHeld'
    BY <2>4 DEF IssuedHeld
  <2> QED BY <1>1, <2>3, <2>5, <2>6, <2>7 DEF FileInv
<1> QED BY <1>2, <1>3 DEF BotFails

LEMMA RestoreBackupStep ==
  ASSUME FileInv, MenusTyped', RestoreBackup
  PROVE  FileInv'
<1>1. /\ bot = Idle /\ file' = backup /\ clash' = First("restore")
      /\ server' = [server EXCEPT !.raced = @ \/ server.pc # "idle"] /\ Unlocked
      /\ UNCHANGED <<writes, reused, told, lock, bot, tool, backup>>
  BY DEF RestoreBackup
<1>2. clash' \in Programs /\ clash' # None /\ writes \in Nat
  BY <1>1, StoreAssumption DEF First, Programs, FileInv, AccountsTypeOK
<1>3. ToolAgrees' /\ BotAgrees' /\ CallsAgree'
  BY <1>1, <1>2, Outdated
<1>4. IssuedHeld'
  BY <1>2 DEF IssuedHeld
<1>5. server' = [pc |-> server.pc, users |-> server.users, stamp |-> server.stamp,
                 raced |-> server.raced \/ server.pc # "idle", loaded |-> server.loaded]
  BY <1>1 DEF FileInv, StampsTell
<1>6. TablesTyped'
  BY <1>1, <1>5 DEF FileInv, TablesTyped
<1>7. StampsTell'
  <2>1. /\ server'.pc = server.pc /\ server'.stamp = server.stamp
        /\ server'.raced <=> server.raced \/ server.pc # "idle"
        /\ server'.raced \in BOOLEAN /\ server'.users = server.users
        /\ server'.loaded = server.loaded
        /\ server' = [pc |-> server'.pc, users |-> server'.users, stamp |-> server'.stamp,
                      raced |-> server'.raced, loaded |-> server'.loaded]
    BY <1>5 DEF FileInv, StampsTell
  <2> QED BY <1>1, <1>2, <2>1 DEF FileInv, StampsTell
<1>8. AccountsTypeOK'
  BY <1>1, <1>2, <1>5
     DEF FileInv, AccountsTypeOK, TablesTyped, StampsTell, IsTable, MenusTyped, told
<1> QED BY <1>3, <1>4, <1>6, <1>7, <1>8 DEF FileInv

LEMMA CreateBackupStep ==
  ASSUME FileInv, MenusTyped', CreateBackup
  PROVE  FileInv'
<1> USE DEF CreateBackup, shared, told
<1>1. ToolAgrees' /\ BotAgrees' /\ CallsAgree'
  BY Unwritten
<1>2. AccountsTypeOK'
  BY DEF FileInv, AccountsTypeOK, MenusTyped
<1>3. IssuedHeld'
  BY DEF FileInv, IssuedHeld, Holds, SaltsKnown
<1>4. TablesTyped' /\ StampsTell'
  BY DEF FileInv, TablesTyped, StampsTell, AccountsTypeOK
<1> QED BY <1>1, <1>2, <1>3, <1>4 DEF FileInv

LEMMA RestartBotStep ==
  ASSUME FileInv, RestartBot
  PROVE  FileInv'
<1> USE DEF RestartBot, LeaveSpeedInput, told
<1>1. clash' \in Programs \cup {None} /\ (clash' = None => clash = None)
  BY StoreAssumption DEF First, Programs, FileInv, AccountsTypeOK
<1>2. ToolAgrees' /\ CallsAgree' /\ TablesTyped' /\ StampsTell'
  BY <1>1, Unwritten
<1>3. AccountsTypeOK'
  BY <1>1 DEF FileInv, AccountsTypeOK, Menus
<1>4. BotAgrees'
  BY DEF BotAgrees
<1>5. IssuedHeld'
  BY <1>1, StoreAssumption DEF FileInv, IssuedHeld, Holds, SaltsKnown, First, Programs
<1> QED BY <1>2, <1>3, <1>4, <1>5 DEF FileInv


(* fptn-passwd and the server *)

LEMMA ToolStartsStep ==
  ASSUME FileInv, MenusTyped', NEW op \in ToolOps, ToolStarts(op)
  PROVE  FileInv'
<1> USE DEF ToolStarts, shared, told
<1> DEFINE j == Job("ask", op, Readable(file.users))
<1>1. CallsAgree' /\ BotAgrees' /\ TablesTyped' /\ StampsTell'
  BY Unwritten
<1>2. AccountsTypeOK'
  BY DEF FileInv, AccountsTypeOK, MenusTyped
<1>3. IssuedHeld'
  BY DEF FileInv, IssuedHeld, Holds, SaltsKnown
<1>4. ToolAgrees'
  <2>1. IsOp(op) /\ IsTable(Readable(file.users)) /\ op.kind \in {"create", "delete"}
    BY OpsTyped, ReadTables DEF FileInv, TablesTyped, ToolOps, Creates, Deletes, Op
  <2>2. IsJob(j) /\ j' = j /\ tool' = j /\ j.op = op /\ j.table = Readable(file.users)
    BY <2>1 DEF FileInv, AccountsTypeOK, IsJob, Job
  <2>3. IsJob(tool)'
    BY <2>2 DEF IsJob
  <2> HIDE DEF j
  <2> QED BY <2>1, <2>2, <2>3 DEF ToolAgrees
<1> QED BY <1>1, <1>2, <1>3, <1>4 DEF FileInv

\* fptn-passwd moves its table over the file.
LEMMA ToolSavesStep ==
  ASSUME FileInv, MenusTyped', tool # Idle, tool' = Idle, UNCHANGED <<lock, bot, backup>>,
         NEW op, op = tool.op, NEW a \in Accounts, a.password = writes + 1, a.salt = a.salted,
         ToolSaves(op, Applied(op, tool.table, a)), Report(op)
  PROVE  FileInv'
<1> DEFINE table == Applied(op, tool.table, a)
<1>1. /\ IsOp(op) /\ IsTable(tool.table) /\ Allowed(op, tool.table)
      /\ writes \in Nat /\ issued \in [Users -> 0..writes]
      /\ unsalted \subseteq Users /\ unstored \subseteq Users
  BY StoreAssumption DEF FileInv, ToolAgrees, IsJob, AccountsTypeOK
<1>2. IsTable(table)
  BY <1>1, AppliedTable
<1> HIDE DEF table
<1>3. /\ WriteFile(table, "tool", tool.read) /\ Unlocked
      /\ issued' = Told(op, writes + 1)
      /\ unsalted' = Moved(op, unsalted) /\ unstored' = Moved(op, unstored)
  BY DEF ToolSaves, Report, table
<1>4. /\ writes' = writes + 1 /\ writes' \in 1..MaxWrites
      /\ file'.users = table /\ file'.write = writes' /\ IsTable(file'.users)
      /\ file'.stamp \in 1..writes' /\ reused' \subseteq 1..writes'
      /\ clash' \in Programs \cup {None}
      /\ clash' = None => /\ clash = None /\ tool.read = file.write
                          /\ Readable(file.users) = file.users
      /\ server'.users = server.users
      /\ TablesTyped' /\ StampsTell'
  BY <1>2, <1>3, Written DEF Programs
<1>5. ToolAgrees' /\ CallsAgree' /\ BotAgrees'
  BY <1>1, <1>3, <1>4, Outdated DEF ToolAgrees
<1>6. AccountsTypeOK'
  <2>1. /\ issued' \in [Users -> 0..writes']
        /\ unsalted' \subseteq Users /\ unstored' \subseteq Users
    BY <1>1, <1>3, <1>4, Reported
  <2> QED BY <1>3, <1>4, <2>1 DEF FileInv, AccountsTypeOK, IsTable, MenusTyped
<1>7. IssuedHeld'
  <2> SUFFICES ASSUME clash' = None, bot = Idle \/ bot.pc # "save"
               PROVE  /\ Holds(table, Told(op, writes + 1), Moved(op, unstored))
                      /\ SaltsKnown(table, Moved(op, unsalted), Moved(op, unstored))
    BY <1>3, <1>4 DEF IssuedHeld, Holds, SaltsKnown
  <2>1. /\ tool.table = file.users /\ Holds(file.users, issued, unstored)
        /\ SaltsKnown(file.users, unsalted, unstored)
    BY <1>4 DEF FileInv, ToolAgrees, IssuedHeld
  <2>2. issued \in [Users -> Nat] /\ a.password # 0
    BY <1>1
  <2>3. Holds(table, Told(op, a.password), Moved(op, unstored))
    BY <1>1, <2>1, <2>2, AppliedHolds DEF table
  <2>4. SaltsKnown(table, Moved(op, unsalted), Moved(op, unstored))
    BY <1>1, <2>1, AppliedSalts DEF table
  <2> QED BY <2>3, <2>4
<1> QED BY <1>4, <1>5, <1>6, <1>7 DEF FileInv

\* fptn-passwd reports a change and leaves the old file.
LEMMA ToolKeepsStep ==
  ASSUME FileInv, MenusTyped', tool # Idle, tool' = Idle, UNCHANGED <<lock, bot, backup>>,
         NEW op, op = tool.op, ToolKeepsFile(op), Report(op)
  PROVE  FileInv'
<1>1. /\ IsOp(op) /\ op.kind \in {"create", "delete"} /\ op.user \in Users
      /\ writes \in Nat /\ issued \in [Users -> 0..writes]
      /\ unsalted \subseteq Users /\ unstored \subseteq Users
  BY OpParts, StoreAssumption DEF FileInv, ToolAgrees, IsJob, AccountsTypeOK
<1>2. /\ writes < MaxWrites /\ writes' = writes + 1
      /\ issued' = Told(op, writes + 1) /\ unsalted' = Moved(op, unsalted)
      /\ unstored' = Moved(op, unstored) \cup {op.user}
      /\ UNCHANGED <<file, clash, reused, call, server>>
  BY DEF ToolKeepsFile, Report
<1>3. /\ \A u \in Users \ {op.user} : issued'[u] = issued[u]
      /\ unsalted' = unsalted \ {op.user} /\ unstored' = unstored \cup {op.user}
      /\ issued' \in [Users -> 0..writes']
  <2>1. issued' \in [Users -> 0..writes']
    BY <1>1, <1>2, Reported
  <2> QED BY <1>1, <1>2, <2>1 DEF Told, Moved
<1>4. writes' \in 1..MaxWrites /\ writes' = writes + 1
  BY <1>1, <1>2, StoreAssumption
<1>5. AccountsTypeOK'
  BY <1>1, <1>2, <1>3, <1>4 DEF FileInv, AccountsTypeOK, MenusTyped
<1>6. TablesTyped' /\ StampsTell'
  <2>1. 1..writes \subseteq 1..writes' /\ 0..writes \subseteq 0..writes'
    BY <1>1, <1>4
  <2> QED BY <1>2, <2>1 DEF FileInv, TablesTyped, StampsTell
<1>7. ToolAgrees' /\ CallsAgree'
  <2>1. \A w \in Workers : call[w] # Idle => IsJob(call[w])'
    BY <1>1, <1>2, <1>4 DEF FileInv, CallsAgree, IsJob
  <2> QED BY <1>2, <2>1 DEF FileInv, CallsAgree, ToolAgrees
<1>8. BotAgrees'
  <2>1. bot # Idle => IsJob(bot)'
    BY <1>1, <1>4 DEF FileInv, BotAgrees, IsJob
  <2>2. Holds(bot.table, issued, unstored) => Holds(bot.table, issued', unstored')
    BY <1>3 DEF Holds
  <2> QED BY <1>2, <2>1, <2>2 DEF FileInv, BotAgrees
<1>9. IssuedHeld'
  BY <1>2, <1>3 DEF FileInv, IssuedHeld, Holds, SaltsKnown
<1> QED BY <1>5, <1>6, <1>7, <1>8, <1>9 DEF FileInv

\* fptn-passwd reports a change and some lines are lost.
LEMMA ToolLosesStep ==
  ASSUME FileInv, MenusTyped', tool # Idle, tool' = Idle, UNCHANGED <<lock, bot, backup>>,
         NEW op, op = tool.op, NEW table, IsTable(table), ToolLosesLines(op, table), Report(op)
  PROVE  FileInv'
<1>1. /\ IsOp(op) /\ writes \in Nat /\ issued \in [Users -> 0..writes]
      /\ unsalted \subseteq Users /\ unstored \subseteq Users
  BY StoreAssumption DEF FileInv, ToolAgrees, IsJob, AccountsTypeOK
<1>2. PICK part \in Parts(table) : PutFile(part)
  BY DEF ToolLosesLines
<1>3. IsTable(part)
  BY PartTables
<1>4. /\ writes' = writes + 1 /\ writes' \in 1..MaxWrites
      /\ file'.users = part /\ file'.write = writes' /\ IsTable(file'.users)
      /\ file'.stamp \in 1..writes' /\ reused' \subseteq 1..writes'
      /\ server'.users = server.users /\ TablesTyped' /\ StampsTell'
  BY <1>2, <1>3, Put
<1>5. clash' \in Programs /\ clash' # None
  BY StoreAssumption DEF ToolLosesLines, First, Programs, FileInv, AccountsTypeOK
<1>6. ToolAgrees' /\ CallsAgree' /\ BotAgrees'
  BY <1>1, <1>4, <1>5, Outdated DEF ToolAgrees, ToolLosesLines
<1>7. /\ issued' \in [Users -> 0..writes']
      /\ unsalted' \subseteq Users /\ unstored' \subseteq Users
  BY <1>1, <1>4, Reported DEF ToolLosesLines, Report
<1>8. AccountsTypeOK'
  BY <1>4, <1>5, <1>7 DEF FileInv, AccountsTypeOK, IsTable, MenusTyped
<1>9. IssuedHeld'
  BY <1>5 DEF IssuedHeld
<1> QED BY <1>4, <1>6, <1>8, <1>9 DEF FileInv

LEMMA ToolEndsStep ==
  ASSUME FileInv, MenusTyped', ToolEnds
  PROVE  FileInv'
<1> DEFINE op == tool.op
           a == Salted(writes + 1, op.terms)
           table == Applied(op, tool.table, a)
<1>0. tool # Idle /\ tool' = Idle /\ UNCHANGED <<lock, bot, backup>> /\ ToolAgrees'
  BY DEF ToolAgrees, ToolEnds
<1>1. CASE UNCHANGED <<shared, call, server>>
  <2> USE <1>0, <1>1 DEF shared, told
  <2>1. CallsAgree' /\ BotAgrees' /\ TablesTyped' /\ StampsTell'
    BY Unwritten
  <2>2. AccountsTypeOK' /\ IssuedHeld'
    BY DEF FileInv, AccountsTypeOK, IssuedHeld, Holds, SaltsKnown, MenusTyped
  <2> QED BY <1>0, <2>1, <2>2 DEF FileInv
<1>2. CASE /\ ToolSaves(op, table) \/ ToolKeepsFile(op) \/ ToolLosesLines(op, table)
           /\ Report(op)
  <2>1. /\ IsOp(op) /\ IsTable(tool.table) /\ Allowed(op, tool.table)
        /\ op.terms \in AnyTerms /\ writes + 1 \in Nat
    BY <1>0, OpParts, StoreAssumption DEF FileInv, ToolAgrees, IsJob, AccountsTypeOK
  <2>2. a \in Accounts /\ a.password = writes + 1 /\ a.salt = a.salted
    BY <2>1, AccountsTyped, Zenon
  <2>3. IsTable(table)
    <3> HIDE DEF a, op
    <3> QED BY <2>1, <2>2, AppliedTable
  <2>4. op = tool.op
    OBVIOUS
  <2> HIDE DEF op, a
  <2>5. CASE ToolSaves(op, table)
    BY <1>0, <1>2, <2>2, <2>4, <2>5, ToolSavesStep
  <2> HIDE DEF table
  <2>6. CASE ToolKeepsFile(op)
    BY <1>0, <1>2, <2>4, <2>6, ToolKeepsStep
  <2>7. CASE ToolLosesLines(op, table)
    BY <1>0, <1>2, <2>3, <2>4, <2>7, ToolLosesStep
  <2> QED BY <1>2, <2>5, <2>6, <2>7
<1> QED BY <1>1, <1>2 DEF ToolEnds

LEMMA LoginStep ==
  ASSUME FileInv, MenusTyped', Login
  PROVE  FileInv'
<1>1. UNCHANGED <<shared, lock, call, bot, tool, backup>>
  BY DEF Login, Authenticate, ReloadUsers, Compare
<1>2. CallsAgree' /\ ToolAgrees' /\ BotAgrees'
  BY <1>1, Unwritten DEF shared, told
<1>3. IssuedHeld'
  BY <1>1 DEF shared, told, FileInv, IssuedHeld, Holds, SaltsKnown
<1> DEFINE Entry(pc, users, stamp, raced, loaded) ==
             [pc |-> pc, users |-> users, stamp |-> stamp, raced |-> raced, loaded |-> loaded]
<1>4. server = Entry(server.pc, server.users, server.stamp, server.raced, server.loaded)
  BY DEF FileInv, StampsTell
<1>5. /\ IsTable(server'.users) /\ StampsTell'
  <2> USE <1>1 DEF shared, told, FileInv, StampsTell, TablesTyped, AccountsTypeOK
  <2>1. CASE /\ server.pc = "idle"
             /\ server' = Entry("load", server.users, file.stamp, FALSE, server.loaded)
    BY <2>1
  <2>2. CASE /\ server.pc = "idle" /\ ~ReloadIfChanged
             /\ server' = Entry("compare", server.users, server.stamp, server.raced, server.loaded)
    BY <2>2 DEF ReloadIfChanged
  <2>3. CASE /\ server.pc = "idle"
             /\ server' = Entry("unchecked", server.users, server.stamp, server.raced, server.loaded)
    BY <2>3
  <2>4. ASSUME NEW readable \in BOOLEAN, server.pc = "load",
               server' = Entry("compare", IF readable THEN Readable(file.users) ELSE NoUsers,
                               server.stamp, server.raced, readable)
        PROVE  IsTable(server'.users) /\ StampsTell'
    <3>1. IsTable(Readable(file.users)) /\ IsTable(NoUsers)
      BY ReadTables DEF IsTable, NoUsers
    <3>2. /\ server'.users = IF readable THEN Readable(file.users) ELSE NoUsers
          /\ server'.pc = "compare" /\ server'.loaded = readable
          /\ server'.stamp = server.stamp /\ server'.raced = server.raced
          /\ server' = Entry(server'.pc, server'.users, server'.stamp, server'.raced,
                             server'.loaded)
      BY <2>4
    <3> HIDE DEF Entry
    <3>3. ~server.raced => server.stamp = file.stamp
      BY <2>4
    <3> QED BY <3>1, <3>2, <3>3 DEF Entry
  <2>5. CASE /\ server.pc \in {"compare", "unchecked"}
             /\ server' = Entry("idle", server.users, server.stamp, server.raced, server.loaded)
    BY <2>5
  <2>6. CASE Authenticate
    BY <1>4, <2>1, <2>2, <2>3, <2>6 DEF Authenticate
  <2>7. CASE ReloadUsers
    <3>1. PICK readable \in BOOLEAN :
            server' = [server EXCEPT !.pc = "compare", !.loaded = readable,
                                     !.users = IF readable THEN Readable(file.users) ELSE NoUsers]
      BY <2>7 DEF ReloadUsers
    <3> QED BY <1>4, <2>4, <2>7, <3>1 DEF ReloadUsers
  <2>8. CASE Compare
    BY <1>4, <2>5, <2>8 DEF Compare
  <2> QED BY <2>6, <2>7, <2>8 DEF Login
<1>6. AccountsTypeOK'
  BY <1>1, <1>5 DEF shared, told, FileInv, AccountsTypeOK, IsTable, MenusTyped
<1>7. TablesTyped'
  BY <1>1, <1>5 DEF shared, FileInv, TablesTyped
<1> QED BY <1>2, <1>3, <1>5, <1>6, <1>7 DEF FileInv

\* A step of the bot's menus alone.
LEMMA MenuStep ==
  ASSUME FileInv, MenusTyped', UNCHANGED storeVars
  PROVE  FileInv'
<1> USE DEF storeVars, shared, told
<1>1. CallsAgree' /\ ToolAgrees' /\ BotAgrees' /\ TablesTyped' /\ StampsTell'
  BY Unwritten
<1>2. AccountsTypeOK' /\ IssuedHeld'
  BY DEF FileInv, AccountsTypeOK, IssuedHeld, Holds, SaltsKnown, MenusTyped
<1> QED BY <1>1, <1>2 DEF FileInv
-----------------------------------------------------------------------------
(* The theorems *)

\* The inductive invariant of the users file, its programs and the bot's menus.
THEOREM AccountsInvariant == AccountsSpec => []AccountsInv
<1>1. AccountsInv /\ [AccountsNext]_vars => AccountsInv'
  <2> SUFFICES ASSUME AccountsInv, [AccountsNext]_vars PROVE AccountsInv'
    OBVIOUS
  <2>0. FileInv /\ PromptAgrees /\ MenusTyped
    BY DEF AccountsInv, FileInv, AccountsTypeOK, MenusTyped
  <2> USE <2>0
  <2>1. ASSUME OpenMenu \/ ReplySpeed \/ RestartBot PROVE AccountsInv'
    <3>1. PromptAgrees' /\ MenusTyped'
      BY <2>1 DEF OpenMenu, RestartBot, ReplySpeed, Answered, LeaveSpeedInput, PromptAgrees,
         MenusTyped, Menus
    <3> QED BY <2>1, <3>1, MenuStep, RestartBotStep DEF AccountsInv, OpenMenu, ReplySpeed
  <2>2. ASSUME NEW u \in Users, OpenUser(u) \/ AskSpeed(u) PROVE AccountsInv'
    <3>1. MenusTyped' /\ UNCHANGED storeVars
      BY <2>2 DEF OpenUser, AskSpeed, MenusTyped, Menus
    <3>2. PromptAgrees'
      BY <2>2, StoreAssumption DEF OpenUser, AskSpeed, PromptAgrees
    <3> QED BY <3>1, <3>2, MenuStep DEF AccountsInv
  <2>3. ASSUME NEW op \in BotOps, UserCommand(op) PROVE AccountsInv'
    <3>1. IsOp(op) /\ BotLoads(op) /\ UNCHANGED botVars
      BY <2>3, OpsTyped DEF UserCommand
    <3>2. PromptAgrees' /\ MenusTyped'
      BY <3>1 DEF PromptAgrees, MenusTyped, botVars
    <3> QED BY <3>1, <3>2, BotLoadsStep DEF AccountsInv
  <2>4. ASSUME NEW t \in AnyTerms, TypeSpeed(t) PROVE AccountsInv'
    <3>1. selected \in Users /\ BotLoads(Op("terms", selected, selected, t))
      BY <2>4 DEF TypeSpeed, PromptAgrees
    <3>2. IsOp(Op("terms", selected, selected, t))
      BY <3>1, OpsTyped
    <3>3. PromptAgrees' /\ MenusTyped'
      BY <2>4 DEF TypeSpeed, PromptAgrees, MenusTyped
    <3>4. FileInv'
      BY <3>1, <3>2, <3>3, BotLoadsStep
    <3> QED BY <3>3, <3>4 DEF AccountsInv
  <2>5. ASSUME UNCHANGED botVars,
               BotTruncates \/ BotSaves \/ CreateBackup \/ RestoreBackup \/ Backend \/ Tool \/ Login
        PROVE  AccountsInv'
    <3>1. PromptAgrees' /\ MenusTyped'
      BY <2>5 DEF PromptAgrees, MenusTyped, botVars
    <3>2. CASE BotTruncates \/ BotSaves \/ CreateBackup \/ RestoreBackup
      BY <3>1, <3>2, BotTruncatesStep, BotSavesStep, CreateBackupStep, RestoreBackupStep
         DEF AccountsInv
    <3>3. CASE Backend
      BY <3>1, <3>3, ReadAllStep, WriteAllStep, DieStep DEF AccountsInv, Backend
    <3>4. CASE Tool
      BY <3>1, <3>4, ToolStartsStep, ToolEndsStep DEF AccountsInv, Tool
    <3>5. CASE Login
      BY <3>1, <3>5, LoginStep DEF AccountsInv
    <3> QED BY <2>5, <3>2, <3>3, <3>4, <3>5
  <2>6. CASE UNCHANGED vars
    <3>1. UNCHANGED storeVars /\ PromptAgrees' /\ MenusTyped'
      BY <2>6 DEF vars, botVars, PromptAgrees, MenusTyped
    <3> QED BY <3>1, MenuStep DEF AccountsInv
  <2>7. ASSUME LoseReply \/ FailToSave PROVE AccountsInv'
    <3>1. PromptAgrees' /\ MenusTyped'
      BY <2>7 DEF LoseReply, FailToSave, HandlerFails, PromptAgrees, MenusTyped
    <3> QED BY <2>7, <3>1, MenuStep, BotFailsStep DEF AccountsInv, LoseReply, FailToSave
  <2> QED BY <2>1, <2>2, <2>3, <2>4, <2>5, <2>6, <2>7 DEF AccountsNext, BotNext, AnyTerms
<1> QED BY <1>1, FileInit, PTL DEF AccountsSpec

\* A login whose check succeeded and that no write came into is decided on what
\* the file holds if only one write left its time stamp, and refused if the
\* last load could not open it (common_user_manager.h:127).
THEOREM LoginsAreCurrent == AccountsSpec => []LoginsSeeFile
<1>1. AccountsInv => LoginsSeeFile
  BY DEF AccountsInv, FileInv, StampsTell, LoginsSeeFile
<1> QED BY <1>1, AccountsInvariant, PTL

\* Until somebody overwrites what it has not read or a write fails midway, the
\* file holds what was issued of all users but those whose change fptn-passwd
\* could not save, and locks out exactly those whose salt the bot has dropped
\* (vpn_user_store.py:105, user_manager.py:29).
THEOREM FileHoldsIssued == AccountsSpec => []IssuedIsStored
<1>1. AccountsInv => IssuedIsStored
  BY DEF AccountsInv, FileInv, IssuedHeld, IssuedIsStored, Holds, SaltsKnown, Accepted
<1> QED BY <1>1, AccountsInvariant, PTL

\* The lock keeps a call of the backend from undoing another one's change
\* (vpn_user_store.py:105).
THEOREM LockKeepsUpdates == AccountsSpec => LockedUpdatesKept
<1>1. ASSUME AccountsInv, NEW w \in Workers, WriteAll(w), call[w].alone
      PROVE  \A u \in DOMAIN Readable(file.users) \ {call[w].op.user, call[w].op.to} :
               u \in DOMAIN file'.users /\ file'.users[u] = file.users[u]
  <2> DEFINE op == call[w].op
             a == Salted(writes + 1, op.terms)
             table == Readable(file.users)
  <2>1. /\ IsTable(table) /\ IsOp(op) /\ Allowed(op, table) /\ call[w].table = table
        /\ op.terms \in AnyTerms /\ writes + 1 \in Nat
    BY <1>1, OpParts, StoreAssumption
       DEF WriteAll, AccountsInv, FileInv, CallsAgree, IsJob, AccountsTypeOK
  <2>2. a \in Accounts
    BY <2>1, AccountsTyped, Zenon
  <2>3. file'.users = Applied(op, table, a)
    BY <1>1, <2>1 DEF WriteAll, WriteFile, PutFile
  <2>4. \A u \in DOMAIN table : table[u] = file.users[u]
    BY DEF Readable, Restrict
  <2> HIDE DEF op, a, table
  <2>5. \A u \in DOMAIN table \ {op.user, op.to} :
          u \in DOMAIN Applied(op, table, a) /\ Applied(op, table, a)[u] = table[u]
    BY <2>1, <2>2, AppliedTable
  <2> QED BY <2>3, <2>4, <2>5 DEF op, table
<1> DEFINE Kept == \A w \in Workers : WriteAll(w) /\ call[w].alone =>
         \A u \in DOMAIN Readable(file.users) \ {call[w].op.user, call[w].op.to} :
           u \in DOMAIN file'.users /\ file'.users[u] = file.users[u]
<1>2. AccountsInv /\ [AccountsNext]_vars => [Kept]_vars
  BY <1>1
<1>3. AccountsSpec => [][Kept]_vars
  <2> HIDE DEF Kept
  <2> QED BY <1>2, AccountsInvariant, PTL DEF AccountsSpec
<1> QED BY <1>3 DEF LockedUpdatesKept

\* A typed speed is taken only while a question of the bot is open, and changes
\* the user it was about unless another card was opened since (bot.py:788).
THEOREM SpeedsAnswerPrompts == AccountsSpec => SpeedAnswersPrompt
<1> DEFINE Answers == \A t \in Terms \cup {Junk} :
             TypeSpeed(t) => prompted # None /\ (selected = prompted \/ opened)
<1>1. AccountsInv => [Answers]_vars
  BY DEF AccountsInv, PromptAgrees, TypeSpeed
<1>2. AccountsSpec => [][Answers]_vars
  <2> HIDE DEF Answers
  <2> QED BY <1>1, AccountsInvariant, PTL DEF AccountsSpec
<1> QED BY <1>2 DEF SpeedAnswersPrompt
=============================================================================
