------------------------------ MODULE StartupSplit ------------------------------
(***************************************************************************)
(* Db::initialize of persistence.rs: accounts live in users.sqlite, apart  *)
(* from the cache, which may be thrown away.  They once lived in the cache *)
(* file; the first start with two files copies them.  A corrupt cache is   *)
(* moved aside and built anew, a corrupt users.sqlite never.  Every step   *)
(* of a start may fail, or the process may end there.                      *)
(*                                                                         *)
(* External: files get corrupt; a human restores users.sqlite from backup. *)
(***************************************************************************)
CONSTANT Account

VARIABLES
  boot,     \* where the start of the process is
  users,    \* users.sqlite: accounts, and those with rows in other tables
  cache,    \* the cache file, once the legacy file
  aside,    \* accounts in files moved aside
  gaveUp,   \* history: the copy was skipped, as the legacy file was unreadable
  once,     \* history: the accounts of the legacy file at first
  moved,    \* history: accounts that were ever in users.sqlite
  deleted,  \* history: those an admin deleted since
  walLost   \* history: accounts only in a write-ahead log that was removed

histVars == <<once, moved, deleted>>
splitVars == <<boot, users, cache, aside, gaveUp, once, moved, deleted, walLost>>

Health == {"none", "good", "corrupt"}
NoDatabase == [file |-> "none", accounts |-> {}, rows |-> {}]
NoCache == [file |-> "none", accounts |-> {}, wal |-> {}, rows |-> {},
            prefs |-> "kept"]

\* The preferences of titles, in the table's old form, renamed and not
\* copied, or in the new form.
SplitTypeOK ==
  /\ boot \in [pc : {"down", "users", "migrate", "cache", "quarantine",
                     "rebuild", "prefs", "copy", "up"}, existed : BOOLEAN]
  /\ users \in [file : Health, accounts : SUBSET Account, rows : SUBSET Account]
  /\ cache \in [file : Health, accounts : SUBSET Account, wal : SUBSET Account,
                rows : SUBSET Account, prefs : {"old", "renamed", "kept"}]
  /\ \A s \in {aside, once, moved, deleted, walLost} : s \subseteq Account
  /\ gaveUp \in BOOLEAN

\* The state before the first start with two files: rows of other tables
\* may have lost their account, the latest commits are in the log only.
SplitInit ==
  /\ boot = [pc |-> "down", existed |-> FALSE]
  /\ users = NoDatabase
  /\ \/ cache = NoCache
     \/ \E a, w, r \in SUBSET Account, p \in {"old", "kept"} :
          /\ w \subseteq a
          /\ cache = [file |-> "good", accounts |-> a, wal |-> w, rows |-> r,
                      prefs |-> p]
  /\ aside = {} /\ gaveUp = FALSE /\ walLost = {}
  /\ once = cache.accounts /\ moved = {} /\ deleted = {}

BootAt(p) == boot.pc = p
GoOn(p) == boot' = [boot EXCEPT !.pc = p]
LegacyAccounts == cache.accounts
-----------------------------------------------------------------------------
\* users_path.exists(), before anything is opened
Start ==
  /\ BootAt("down")
  /\ boot' = [pc |-> "users", existed |-> users.file # "none"]
  /\ UNCHANGED <<users, cache, aside, gaveUp, walLost, histVars>>

\* Mutant: a corrupt users.sqlite heals itself as the cache does.
InitUsersHealing ==
  /\ BootAt("users")
  /\ users' = IF users.file = "corrupt" THEN [NoDatabase EXCEPT !.file = "good"]
              ELSE [users EXCEPT !.file = "good"]
  /\ GoOn(IF boot.existed THEN "cache" ELSE "migrate")
  /\ UNCHANGED <<cache, aside, gaveUp, walLost, histVars>>

\* init_users_schema: the file is there from now on.
InitUsers ==
  /\ BootAt("users") /\ users.file # "corrupt"
  /\ users' = [users EXCEPT !.file = "good"]
  /\ GoOn(IF boot.existed THEN "cache" ELSE "migrate")
  /\ UNCHANGED <<cache, aside, gaveUp, walLost, histVars>>

\* migrate_durable_tables_from_legacy: nothing to copy,
NothingToCopy ==
  /\ BootAt("migrate") /\ cache.file = "none"
  /\ GoOn("cache")
  /\ UNCHANGED <<users, cache, aside, gaveUp, walLost, histVars>>

\* the file cannot be attached, or turns out corrupt: the copy is rolled
\* back and the start goes on,
LegacyUnreadable ==
  /\ BootAt("migrate") /\ cache.file # "none"
  /\ GoOn("cache") /\ gaveUp' = TRUE
  /\ UNCHANGED <<users, cache, aside, walLost, histVars>>

\* or the copy commits, without the rows that have no account.
CopyDurableTables ==
  /\ BootAt("migrate") /\ cache.file = "good"
  /\ users' = [users EXCEPT !.accounts = LegacyAccounts, !.rows = cache.rows \cap LegacyAccounts]
  /\ moved' = LegacyAccounts
  /\ GoOn("cache")
  /\ UNCHANGED <<cache, aside, gaveUp, walLost, once, deleted>>

\* init_cache_schema: corruption may show or not.  Closing a good file may
\* bring its log into it.
InitCache ==
  /\ BootAt("cache") \/ BootAt("rebuild")
  /\ \/ /\ \E log \in {cache.wal} \cup {{} : file \in {cache.file} \cap {"good"}} :
             cache' = [cache EXCEPT !.file = IF @ = "none" THEN "good" ELSE @,
                                    !.wal = log]
        /\ GoOn("prefs")
     \/ BootAt("cache") /\ cache.file = "corrupt" /\ GoOn("quarantine") /\ UNCHANGED cache
  /\ UNCHANGED <<users, aside, gaveUp, walLost, histVars>>

\* quarantine_corrupt_db: the file is kept, its log is not.
Quarantine ==
  /\ BootAt("quarantine")
  /\ aside' = aside \cup (cache.accounts \ cache.wal)
  /\ walLost' = walLost \cup cache.wal
  /\ cache' = NoCache
  /\ GoOn("rebuild")
  /\ UNCHANGED <<users, gaveUp, histVars>>

\* migrate_title_preferences_schema, one statement after the other: a table
\* of the old form is renamed, made anew ...
RenamePrefs ==
  /\ BootAt("prefs") /\ cache.prefs = "old"
  /\ cache' = [cache EXCEPT !.prefs = "renamed"]
  /\ GoOn("copy")
  /\ UNCHANGED <<users, aside, gaveUp, walLost, histVars>>

\* ... and filled from the renamed one, which is dropped.
CopyPrefs ==
  /\ BootAt("copy")
  /\ cache' = [cache EXCEPT !.prefs = "kept"]
  /\ GoOn("up")
  /\ UNCHANGED <<users, aside, gaveUp, walLost, histVars>>

\* A start that finds the new form is done, be it filled or not.
PrefsInForm ==
  /\ BootAt("prefs") /\ cache.prefs # "old"
  /\ GoOn("up")
  /\ UNCHANGED <<users, cache, aside, gaveUp, walLost, histVars>>

\* The step fails, which ends the process, or the process ends anyway; the
\* file it was about to make may be there.
Stop ==
  /\ ~BootAt("down") /\ GoOn("down")
  /\ \/ UNCHANGED <<users, cache>>
     \/ /\ BootAt("users") /\ users.file = "none"
        /\ users' = [users EXCEPT !.file = "good"] /\ UNCHANGED cache
     \/ /\ BootAt("cache") /\ cache.file = "none"
        /\ cache' = [cache EXCEPT !.file = "good"] /\ UNCHANGED users
  /\ UNCHANGED <<aside, gaveUp, walLost, histVars>>
-----------------------------------------------------------------------------
\* create_user; sign-ins, lists and progress are rows of the account.
Register(a) ==
  /\ BootAt("up") /\ users.file = "good" /\ a \notin users.accounts
  /\ users' = [users EXCEPT !.accounts = @ \cup {a}]
  /\ moved' = moved \cup {a} /\ deleted' = deleted \ {a}
  /\ UNCHANGED <<boot, cache, aside, gaveUp, walLost, once>>

AddRow(a) ==
  /\ BootAt("up") /\ users.file = "good" /\ a \in users.accounts
  /\ users' = [users EXCEPT !.rows = @ \cup {a}]
  /\ UNCHANGED <<boot, cache, aside, gaveUp, walLost, histVars>>

\* admin_delete_user: ON DELETE CASCADE
DeleteUser(a) ==
  /\ BootAt("up") /\ users.file = "good" /\ a \in users.accounts
  /\ users' = [users EXCEPT !.accounts = @ \ {a}, !.rows = @ \ {a}]
  /\ deleted' = deleted \cup {a}
  /\ UNCHANGED <<boot, cache, aside, gaveUp, walLost, once, moved>>

\* External.
CacheCorrupts ==
  /\ cache.file = "good" /\ cache' = [cache EXCEPT !.file = "corrupt"]
  /\ UNCHANGED <<boot, users, aside, gaveUp, walLost, histVars>>

UsersCorrupts ==
  /\ users.file = "good" /\ users' = [users EXCEPT !.file = "corrupt"]
  /\ UNCHANGED <<boot, cache, aside, gaveUp, walLost, histVars>>

RestoreUsers ==
  /\ BootAt("down") /\ users.file = "corrupt" /\ users' = [users EXCEPT !.file = "good"]
  /\ UNCHANGED <<boot, cache, aside, gaveUp, walLost, histVars>>

SplitNext ==
  \/ Start \/ InitUsers \/ NothingToCopy \/ LegacyUnreadable \/ CopyDurableTables
  \/ InitCache \/ Quarantine \/ RenamePrefs \/ CopyPrefs \/ PrefsInForm \/ Stop
  \/ \E a \in Account : Register(a) \/ AddRow(a) \/ DeleteUser(a)
  \/ CacheCorrupts \/ UsersCorrupts \/ RestoreUsers

SplitSpec == SplitInit /\ [][SplitNext]_splitVars
-----------------------------------------------------------------------------
(***************************************************************************)
(* AccountsSafe: no start, wherever it ends, and no corrupt cache takes an *)
(* account away: what was in users.sqlite stays there until an admin       *)
(* deletes it, its other rows go with it, and the legacy accounts are kept *)
(* in the cache file or aside with it, but for those only in the           *)
(* write-ahead log that is removed.                                        *)
(***************************************************************************)
AccountsSafe ==
  /\ SplitTypeOK
  /\ users.accounts = moved \ deleted /\ users.rows \subseteq users.accounts
  /\ once \subseteq LegacyAccounts \cup aside \cup walLost

(***************************************************************************)
(* AccountsMoved, of the comment of copy_durable_tables that a re-run      *)
(* after a crash is harmless: once the server is up, every account of a    *)
(* readable legacy file has been copied to users.sqlite.                   *)
(***************************************************************************)
AccountsMoved == BootAt("up") /\ ~gaveUp => once \subseteq moved
=============================================================================
