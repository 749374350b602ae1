------------------------------ MODULE AdminBot ------------------------------
(***************************************************************************)
(* The administrators' Telegram bot (fptn-admin-bot/src/bot.py) over the   *)
(* shared file of module UserStore: the menus of one administrator, whose  *)
(* state decides what a typed text means, and the handlers, which run one  *)
(* after the other.  Handlers that only read and answer are left out, and  *)
(* /block and /unblock, whose list no program reads.                       *)
(***************************************************************************)
EXTENDS UserStore

CONSTANT MaxAside  \* bound: other programs that run while a question is open

ASSUME AsideAssumption == MaxAside \in Nat

VARIABLES
  menu,       \* context.user_data["menu_state"]
  selected,   \* context.user_data["selected_user"]
  answer,     \* what became of the speed asked for: "awaited", "typed" while
              \* its handler runs, or "lost": the bot's reply failed
  prompted,   \* history: the user whose speed the bot has asked for and not
              \* confirmed
  opened      \* history: another user was opened since

botVars == <<menu, selected, answer, prompted, opened>>
vars    == <<storeVars, botVars>>

\* "main" stands for every menu but "speed_input": there a text is a command,
\* the arguments of /create, a message to all, or nothing.
Menus == {"main", "speed_input"}

LeaveSpeedInput ==
  menu' = "main" /\ selected' = None /\ answer' = "awaited" /\ prompted' = None /\ opened' = FALSE

\* The bot takes the next update: no handler is running.
BotIsFree == bot = Idle /\ answer # "typed"

\* /menu, /start, and the buttons that lead to a menu.
OpenMenu ==
  /\ BotIsFree
  /\ LeaveSpeedInput
  /\ UNCHANGED storeVars

\* "user:": the card of a user is shown and the menu stays.  The selected
\* user matters in "speed_input" only.
OpenUser(u) ==
  /\ BotIsFree /\ menu = "speed_input"
  /\ selected' = u
  /\ opened' = (opened \/ u # prompted)
  /\ UNCHANGED <<storeVars, menu, answer, prompted>>

\* "speed:": the next text is the speed of this user, even if the question
\* could not be sent.
AskSpeed(u) ==
  /\ BotIsFree /\ MayStart /\ Busy <= MaxAside
  /\ menu' = "speed_input" /\ selected' = u
  /\ answer' = "awaited" /\ prompted' = u /\ opened' = FALSE
  /\ UNCHANGED storeVars

\* "reset:", "premium:", "delete:", /create and a text in the menu "create",
\* and /batch, one user after the other.
UserCommand(op) ==
  /\ BotIsFree
  /\ BotLoads(op)
  /\ UNCHANGED botVars

\* text_handler in "speed_input": any text is a speed.
TypeSpeed(t) ==
  /\ menu = "speed_input" /\ answer # "typed"
  /\ BotLoads(Op("terms", selected, selected, t))
  /\ answer' = "typed"
  /\ UNCHANGED <<menu, selected, prompted, opened>>

\* Defect: the bot has confirmed the speed and goes on waiting for one.
StillAsking ==
  prompted' = None /\ opened' = FALSE /\ answer' = "awaited" /\ UNCHANGED <<menu, selected>>

Answered == LeaveSpeedInput

\* reply_text has confirmed the speed.
ReplySpeed ==
  /\ bot = Idle /\ answer = "typed"
  /\ Answered
  /\ UNCHANGED storeVars

\* An exception ends text_handler before it leaves "speed_input": the next
\* text is a speed again.
HandlerFails == answer' = IF answer = "typed" THEN "lost" ELSE answer

LoseReply ==
  /\ bot = Idle /\ answer = "typed"
  /\ HandlerFails
  /\ UNCHANGED <<storeVars, menu, selected, prompted, opened>>

\* save_users raises.
FailToSave ==
  /\ BotFails
  /\ HandlerFails
  /\ UNCHANGED <<menu, selected, prompted, opened>>

\* The bot ends and is started again; in the middle of save_users nobody
\* writes what the file held.
RestartBot ==
  /\ clash' = IF bot # Idle /\ bot.pc = "save" THEN First("crash") ELSE clash
  /\ bot' = Idle
  /\ LeaveSpeedInput
  /\ UNCHANGED <<file, writes, reused, told, lock, call, tool, server, backup>>
-----------------------------------------------------------------------------
BotInit ==
  /\ StoreInit
  /\ menu = "main" /\ selected = None /\ answer = "awaited" /\ prompted = None /\ opened = FALSE

BotNext ==
  \/ OpenMenu
  \/ \E u \in Users : OpenUser(u) \/ AskSpeed(u)
  \/ \E op \in BotOps : UserCommand(op)
  \/ \E t \in Terms \cup {Junk} : TypeSpeed(t)
  \/ ((BotTruncates \/ BotSaves) /\ UNCHANGED botVars)
  \/ (BotIsFree /\ (CreateBackup \/ RestoreBackup) /\ UNCHANGED botVars)
  \/ ReplySpeed \/ LoseReply \/ FailToSave
  \/ RestartBot

\* A program other than the bot starts aside of an open question, or none does.
Aside == menu = "speed_input" /\ Busy < Busy' => Busy < MaxAside

AccountsNext == BotNext \/ ((Backend \/ Tool \/ Login) /\ Aside /\ UNCHANGED botVars)
AccountsSpec == BotInit /\ [][AccountsNext]_vars
-----------------------------------------------------------------------------
(* Properties *)

AccountsTypeOK ==
  /\ writes \in 1..MaxWrites
  /\ file.stamp \in 1..writes /\ file.write \in 1..writes /\ reused \subseteq 1..writes
  /\ DOMAIN file.users \subseteq Users /\ DOMAIN server.users \subseteq Users
  /\ issued \in [Users -> 0..writes]
  /\ unsalted \subseteq Users /\ unstored \subseteq Users
  /\ lock \in Workers \cup {None} /\ menu \in Menus
  /\ answer \in {"awaited", "typed", "lost"}
  /\ clash \in Programs \cup {None}

\* A login whose check of the time stamp succeeded, and that no write came
\* into, is decided on the accounts the file holds, also after a backup brought
\* back an old stamp (common_user_manager.h:127), unless several writes left
\* that stamp.  If the file could not be opened when the stamp was new, nobody
\* is accepted until the file changes again, since the stamp is remembered
\* before the load (common_user_manager.h:128).
LoginsSeeFile ==
  server.pc = "compare" /\ ~server.raced =>
    IF server.loaded
      THEN file.stamp \notin reused => server.users = Readable(file.users)
      ELSE server.users = NoUsers

\* As long as nobody has overwritten what it had not read, lost lines, or
\* failed in the middle of a write: of every user but those whom fptn-passwd
\* reported and whose change it could not save (common_user_manager.h:175,
\* 181), the file holds an account iff one was issued, with the password last
\* given to the user.  That password is accepted iff the bot has not rewritten
\* the account after a program with salts had issued it (user_manager.py:29):
\* exactly those users are locked out, until they are given a new password.
IssuedIsStored ==
  /\ AccountsTypeOK
  /\ clash = None /\ (bot = Idle \/ bot.pc # "save") =>
       \A u \in Users \ unstored :
         IF issued[u] = 0 THEN u \notin DOMAIN file.users
         ELSE /\ u \in DOMAIN file.users
              /\ file.users[u].password = issued[u]
              /\ Accepted(u, issued[u], file.users) <=> u \notin unsalted

\* A call of the backend changes no account but its own, unless a program
\* that ignores the lock wrote between its read and its write
\* (vpn_user_store.py:105).
LockedUpdatesKept ==
  [][\A w \in Workers : WriteAll(w) /\ call[w].alone =>
       \A u \in DOMAIN Readable(file.users) \ {call[w].op.user, call[w].op.to} :
         u \in DOMAIN file'.users /\ file'.users[u] = file.users[u]]_vars

\* A typed speed is taken for an answer only while the bot has a question
\* open, that is, asked and not confirmed, and it goes to the user the question
\* was about, or, if another user's card was opened in between (bot.py:788), to
\* one opened since.  A question stays open, and can be answered again, if the
\* reply to its answer failed (bot.py:983).
SpeedAnswersPrompt ==
  [][\A t \in Terms \cup {Junk} :
       TypeSpeed(t) => prompted # None /\ (selected = prompted \/ opened)]_vars

\* The backend and the bot never overwrite each other's changes, "guarded by
\* an exclusive file lock so we never clash with the bot writing the same
\* file" (vpn_user_store.py:11).  The code does not keep it.
NeverClash == clash \notin {"backend", "bot"}
=============================================================================
