----------------------------- MODULE UserStore -----------------------------
(***************************************************************************)
(* The file users.list and the programs that share it: the calls of the    *)
(* administration backend, which take a file lock and replace the file     *)
(* (vpn_user_store.py), the Telegram bot, which takes no lock and rewrites *)
(* it in place (user_manager.py), fptn-passwd, which takes no lock,        *)
(* replaces it and does not look whether that failed, and the server,      *)
(* which reads it when its time stamp differs from the one it knows        *)
(* (common_user_manager.h).                                                *)
(*                                                                         *)
(* An account is the password that was hashed, whether a salt was hashed   *)
(* with it, whether that salt is in the file, and the terms: speed and     *)
(* premium, or Junk if the speed is no number.  A password is named by the *)
(* change that issued it.  A write may leave the file with the time stamp  *)
(* of an earlier one.                                                      *)
(***************************************************************************)
EXTENDS Naturals, FiniteSets, Functions

CONSTANTS
  Users,      \* user names
  Workers,    \* concurrent calls of the backend
  Terms,      \* speed and premium
  Junk,       \* terms that do not parse
  None,       \* no user, no worker
  MaxWrites,  \* bound: writes of the file, the attempts of fptn-passwd included
  MaxBusy     \* bound: programs in the middle of an operation

\* Whoever may overwrite a change.
Programs == {"backend", "bot", "tool", "restore", "crash"}

ASSUME StoreAssumption ==
  /\ Junk \notin Terms /\ None \notin Users \cup Workers \cup Programs
  /\ MaxWrites \in Nat \ {0} /\ MaxBusy \in Nat

VARIABLES
  file,       \* the file: its accounts, its time stamp, and history: the
              \* write that left it so
  writes,     \* history: the number of writes
  lock,       \* users.list.lock: the worker that holds it
  call,       \* the calls of the backend
  bot,        \* UserManager: the operation of the bot's current handler
  tool,       \* fptn-passwd
  server,     \* CommonUserManager of the server: users_, last_write_time_,
              \* and history: the file was written since it was looked at,
              \* and the last load could open it
  backup,     \* the last backup
  issued,     \* history: the password last given to each user, 0 for none
  clash,      \* history: who first overwrote something it had not read
  unsalted,   \* history: the users whose salt the bot has dropped
  unstored,   \* history: the users whose last change was reported, not stored
  reused      \* history: the time stamps that several writes left

told      == <<issued, unsalted, unstored>>
shared    == <<file, writes, clash, reused, told>>
storeVars == <<shared, lock, call, bot, tool, server, backup>>

NoUsers == [u \in {} |-> None]

\* A table in which u has the account a, or none.
With(table, u, a)  == [v \in DOMAIN table \cup {u} |-> IF v = u THEN a ELSE table[v]]
Minus(table, u)    == Restrict(table, DOMAIN table \ {u})

\* What the backend, fptn-passwd and the server read: a line whose speed is
\* no number is skipped.
Readable(table) == Restrict(table, {u \in DOMAIN table : table[u].terms # Junk})

\* What the bot reads: the fifth field, the salt, is dropped.
LoadUsers(table) == [u \in DOMAIN table |-> [table[u] EXCEPT !.salt = FALSE]]

\* Defect: the salt is hashed and not stored.
SaltForgotten(p, t) == [password |-> p, salted |-> TRUE, salt |-> FALSE, terms |-> t]

\* hash_password with a new salt, and without one.
Account(p, s, t) == [password |-> p, salted |-> s, salt |-> s, terms |-> t]
Salted(p, t)     == Account(p, TRUE, t)
Unsalted(p, t)   == Account(p, FALSE, t)

\* An operation on a table that a program has read, and those of each program.
Op(kind, u, v, t) == [kind |-> kind, user |-> u, to |-> v, terms |-> t]
Creates(T)   == {Op("create", u, u, t) : u \in Users, t \in T}
TermsSet(T)  == {Op("terms", u, u, t) : u \in Users, t \in T}
Passwords    == {Op("password", u, u, Junk) : u \in Users}
Deletes      == {Op("delete", u, u, Junk) : u \in Users}
Renames      == {Op("rename", u, v, Junk) : u \in Users, v \in Users}
                  \ {Op("rename", u, u, Junk) : u \in Users}
BackendOps   == Creates(Terms) \cup TermsSet(Terms) \cup Passwords \cup Renames
BotOps       == Creates(Terms \cup {Junk}) \cup TermsSet(Terms \cup {Junk})
                  \cup Passwords \cup Deletes
ToolOps      == Creates(Terms) \cup Deletes

\* The checks each program makes on its own copy.
Allowed(op, table) ==
  IF op.kind = "create" THEN op.user \notin DOMAIN table
  ELSE /\ op.user \in DOMAIN table
       /\ op.kind = "rename" => op.to \notin DOMAIN table

\* The new table, and the password each user then has been told.
Applied(op, table, account) ==
  CASE op.kind = "create"   -> With(table, op.user, account)
    [] op.kind = "password" -> With(table, op.user, [account EXCEPT !.terms = table[op.user].terms])
    [] op.kind = "terms"    -> [table EXCEPT ![op.user].terms = op.terms]
    [] op.kind = "rename"   -> Minus(With(table, op.to, table[op.user]), op.user)
    [] op.kind = "delete"   -> Minus(table, op.user)

Told(op, password) ==
  CASE op.kind \in {"create", "password"} -> [issued EXCEPT ![op.user] = password]
    [] op.kind = "terms"  -> issued
    [] op.kind = "rename" -> [issued EXCEPT ![op.to] = issued[op.user], ![op.user] = 0]
    [] op.kind = "delete" -> [issued EXCEPT ![op.user] = 0]

\* The users of a set after an operation that gives op.user a new account.
Moved(op, set) ==
  CASE op.kind \in {"create", "password", "delete"} -> set \ {op.user}
    [] op.kind = "terms"  -> set
    [] op.kind = "rename" ->
         {u \in Users : IF u \in {op.user, op.to} THEN u = op.to /\ op.user \in set
                                                ELSE u \in set}

\* The administrator is told that op was done.
Report(op) ==
  /\ issued' = Told(op, writes + 1)
  /\ unsalted' = Moved(op, unsalted)

Idle == [pc |-> "idle"]
Job(pc, op, table) == [pc |-> pc, op |-> op, table |-> table, read |-> file.write, alone |-> TRUE]

\* Programs in the middle of something.
Busy ==
  Cardinality({w \in Workers : call[w] # Idle}) +
  Cardinality({p \in {<<"bot", bot = Idle>>, <<"tool", tool = Idle>>,
                      <<"login", server.pc = "idle">>} : ~p[2]})

\* Bound: two programs at once, and no operation after an overwritten change.
MayStart == Busy < MaxBusy /\ clash = None

First(who) == IF clash = None THEN who ELSE clash

\* The time stamp of a write: a new one, or one that was seen before, if the
\* clock has not advanced since, or the temporary file is as old.
Ticks == {writes + 1, file.stamp, server.stamp} \ {0}

\* The file comes to hold a table.
PutFile(table) ==
  /\ writes < MaxWrites
  /\ writes' = writes + 1
  /\ \E t \in Ticks :
       /\ file' = [users |-> table, stamp |-> t, write |-> writes + 1]
       /\ reused' = IF t <= writes THEN reused \cup {t} ELSE reused
  /\ server' = [server EXCEPT !.raced = @ \/ server.pc # "idle"]

\* A write by who, whose copy was read after the write read: whoever read an
\* older file, or skipped a line of it, overwrites what it has not seen.
WriteFile(table, who, read) ==
  /\ PutFile(table)
  /\ clash' = IF read = file.write /\ (who = "bot" \/ Readable(file.users) = file.users)
                THEN clash ELSE First(who)

\* What a write that fails midway leaves: some of the lines, the last of which
\* may have lost its salt.
Parts(table) ==
  LET some == {Restrict(table, S) : S \in SUBSET DOMAIN table}
  IN  (some \cup UNION {{[t EXCEPT ![u].salt = FALSE] : u \in DOMAIN t} : t \in some})
        \ {table}

\* A write without the lock is one the backend's calls do not expect.
Unlocked ==
  call' = [w \in Workers |-> IF call[w] = Idle THEN Idle ELSE [call[w] EXCEPT !.alone = FALSE]]
-----------------------------------------------------------------------------
(* The backend *)

\* Defect: the lock is not waited for.
LockAnyway(w) == TRUE

LockIsFree(w) == lock = None

\* create, set_password (the public bot's too) or update: _locked, _read_all
\* and the checks; UserNotFound and UserExists end the call.
ReadAll(w, op) ==
  /\ call[w] = Idle /\ MayStart
  /\ LockIsFree(w)
  /\ Allowed(op, Readable(file.users))
  /\ lock' = w
  /\ call' = [call EXCEPT ![w] = Job("write", op, Readable(file.users))]
  /\ UNCHANGED <<shared, bot, tool, server, backup>>

Finish(w) == lock' = None /\ call' = [call EXCEPT ![w] = Idle]

\* _write_all: a temporary file is moved over the old one.
WriteAll(w) ==
  /\ call[w] # Idle
  /\ LET op == call[w].op
     IN  /\ WriteFile(Applied(op, call[w].table, Salted(writes + 1, op.terms)),
                       "backend", call[w].read)
         /\ Report(op)
         /\ unstored' = Moved(op, unstored)
  /\ Finish(w)
  /\ UNCHANGED <<bot, tool, backup>>

\* The process of a call ends; flock is released with it.
Die(w) ==
  /\ call[w] # Idle
  /\ lock' = IF lock = w THEN None ELSE lock
  /\ call' = [call EXCEPT ![w] = Idle]
  /\ UNCHANGED <<shared, bot, tool, server, backup>>
-----------------------------------------------------------------------------
(* The bot's UserManager: load_users, then save_users in place *)

BotLoads(op) ==
  /\ bot = Idle
  /\ LET table == LoadUsers(file.users)
     IN  bot' = IF Allowed(op, table) /\ MayStart THEN Job("truncate", op, table) ELSE Idle
  /\ UNCHANGED <<shared, lock, call, tool, server, backup>>

BotTruncates ==
  /\ bot # Idle /\ bot.pc = "truncate"
  /\ WriteFile(NoUsers, "bot", bot.read)
  /\ bot' = [bot EXCEPT !.pc = "save", !.read = writes + 1]
  /\ Unlocked
  /\ UNCHANGED <<told, lock, tool, backup>>

BotSaves ==
  /\ bot # Idle /\ bot.pc = "save"
  /\ LET op == bot.op
     IN  /\ WriteFile(Applied(op, bot.table, Unsalted(writes + 1, op.terms)), "bot", bot.read)
         /\ issued' = Told(op, writes + 1)
         /\ unsalted' = Moved(op, {u \in DOMAIN bot.table : bot.table[u].salted})
         /\ unstored' = Moved(op, unstored)
  /\ bot' = Idle
  /\ Unlocked
  /\ UNCHANGED <<lock, tool, backup>>

\* An exception in save_users: the file cannot be opened, or what could be
\* written of it is left.
BotFails ==
  /\ bot # Idle
  /\ bot' = Idle
  /\ \/ bot.pc = "truncate" /\ UNCHANGED <<shared, call, server>>
     \/ /\ bot.pc = "save"
        /\ \E part \in Parts(Applied(bot.op, bot.table, Unsalted(writes + 1, bot.op.terms))) :
             PutFile(part)
        /\ clash' = First("crash")
        /\ Unlocked
        /\ UNCHANGED told
  /\ UNCHANGED <<lock, tool, backup>>

\* restore_backup: tar brings the old accounts back with their old time stamp.
RestoreBackup ==
  /\ bot = Idle
  /\ backup # file
  /\ file' = backup
  /\ clash' = First("restore")
  /\ server' = [server EXCEPT !.raced = @ \/ server.pc # "idle"]
  /\ Unlocked
  /\ UNCHANGED <<writes, reused, told, lock, bot, tool, backup>>

CreateBackup ==
  /\ Busy = 0 /\ clash = None
  /\ backup' = file
  /\ UNCHANGED <<shared, lock, call, bot, tool, server>>
-----------------------------------------------------------------------------
(* fptn-passwd: the users are loaded before the questions are asked *)

ToolStarts(op) ==
  /\ tool = Idle /\ MayStart
  /\ Allowed(op, Readable(file.users))
  /\ tool' = Job("ask", op, Readable(file.users))
  /\ UNCHANGED <<shared, lock, call, bot, server, backup>>

\* SaveUsers moves a temporary file over the old one.
ToolSaves(op, table) ==
  /\ WriteFile(table, "tool", tool.read)
  /\ unstored' = Moved(op, unstored)
  /\ Unlocked

\* The temporary file cannot be opened or moved: the old one stays.
ToolKeepsFile(op) ==
  /\ writes < MaxWrites /\ writes' = writes + 1
  /\ unstored' = Moved(op, unstored) \cup {op.user}
  /\ UNCHANGED <<file, clash, reused, call, server>>

\* A line is not written, which nobody looks at: the rest replaces the file.
ToolLosesLines(op, table) ==
  /\ \E part \in Parts(table) : PutFile(part)
  /\ clash' = First("tool")
  /\ unstored' = Moved(op, unstored)
  /\ Unlocked

\* AddUser or DeleteUser, if the operator does not give up: whatever SaveUsers
\* has achieved, success is reported.
ToolEnds ==
  /\ tool # Idle
  /\ tool' = Idle
  /\ \/ UNCHANGED <<shared, call, server>>
     \/ LET op == tool.op
            table == Applied(op, tool.table, Salted(writes + 1, op.terms))
        IN  /\ ToolSaves(op, table) \/ ToolKeepsFile(op) \/ ToolLosesLines(op, table)
            /\ Report(op)
  /\ UNCHANGED <<lock, bot, backup>>
-----------------------------------------------------------------------------
(* The server: Authenticate, under its mutex *)

\* Defect: only a newer file is read again.
ReloadIfNewer == file.stamp > server.stamp

ReloadIfChanged == file.stamp # server.stamp

\* The time stamp is read and, if it is another one, remembered before the
\* file is opened; if it cannot be read, the old table decides.
Authenticate ==
  /\ server.pc = "idle" /\ Busy < MaxBusy
  /\ \/ server' = IF ReloadIfChanged
                    THEN [server EXCEPT !.pc = "load", !.stamp = file.stamp, !.raced = FALSE]
                    ELSE [server EXCEPT !.pc = "compare"]
     \/ server' = [server EXCEPT !.pc = "unchecked"]
  /\ UNCHANGED <<shared, lock, call, bot, tool, backup>>

\* LoadUsers: the table is cleared, and stays empty if the file cannot be opened.
ReloadUsers ==
  /\ server.pc = "load"
  /\ \E readable \in BOOLEAN :
       server' = [server EXCEPT !.pc = "compare", !.loaded = readable,
                                !.users = IF readable THEN Readable(file.users) ELSE NoUsers]
  /\ UNCHANGED <<shared, lock, call, bot, tool, backup>>

\* The hashes are compared and the login is answered.
Compare ==
  /\ server.pc \in {"compare", "unchecked"}
  /\ server' = [server EXCEPT !.pc = "idle"]
  /\ UNCHANGED <<shared, lock, call, bot, tool, backup>>

\* Whether the password p of user u is accepted.
Accepted(u, p, table) ==
  u \in DOMAIN table /\ table[u].password = p /\ table[u].salt = table[u].salted
-----------------------------------------------------------------------------
\* The file as the server finds it at its start: users who have been given
\* accounts by then, or none.
StoreInit ==
  /\ \E some \in SUBSET Users, t \in Terms :
       /\ file = [users |-> [u \in some |-> Account(1, TRUE, t)], stamp |-> 1, write |-> 1]
       /\ issued = [u \in Users |-> IF u \in some THEN 1 ELSE 0]
  /\ writes = 1
  /\ lock = None /\ call = [w \in Workers |-> Idle]
  /\ bot = Idle /\ tool = Idle
  /\ server = [pc |-> "idle", users |-> file.users, stamp |-> 0, raced |-> FALSE, loaded |-> TRUE]
  /\ backup = file
  /\ clash = None /\ unsalted = {} /\ unstored = {} /\ reused = {}

Backend == \E w \in Workers :
  (\E op \in BackendOps : ReadAll(w, op)) \/ WriteAll(w) \/ Die(w)

Tool  == (\E op \in ToolOps : ToolStarts(op)) \/ ToolEnds
Login == Authenticate \/ ReloadUsers \/ Compare
=============================================================================
