------------------------------ MODULE Startup ------------------------------
(* How a start of the program on Linux gets its vault: the key chain helper
   the user prefers (keychain.json), the count of failed attempts
   (keychain_state.json), the vault key kept in the key chain, the encrypted
   vault, the insecure vault used when no key can be had, and the migration of
   the settings and accounts of version 2 (internal/app/vault.go, migration.go;
   internal/vault/helper.go, vault.go, storage; pkg/keychain/keychain.go).

   The data of the vault is the set of its accounts. A vault key is a number,
   0 is no key; the files hold None when they are missing and Torn when the
   program stopped in the middle of os.WriteFile. *)
EXTENDS Naturals, FiniteSets

CONSTANTS
  Helpers,        \* the key chains this machine can have
  Accounts,       \* the accounts a user can add
  OldAccounts,    \* the accounts version 2 left in the key chain
  MaxKeys,        \* bound: vault keys generated
  MaxMeddling,    \* bound: changes made from outside
  None, Torn

MaxFailedKeychainAttemptsLinux == 2

VARIABLES
  usable,     \* the helpers a start would find usable
  locked,     \* a key chain answers with an error other than "no item"
  item,       \* the vault key each key chain holds
  default,    \* the helper listHelpers prefers
  pref,       \* keychain.json
  count,      \* keychain_state.json
  vault,      \* vault.enc
  insecure,   \* insecure/vault.enc
  pc, helper, key, flags, corrupt,     \* of the start under way
  keys, meddling,                      \* the bounds
  exits,      \* starts in a row given up before the vault was opened
  excuse,     \* something outside came between the vault and its key
  unsaved,    \* the helper of the last secure start could not be remembered
  failed      \* the old accounts whose migration failed

disk == <<pref, count, vault, insecure>>
chain == <<usable, locked, item, default>>
local == <<helper, key, flags, corrupt>>
bounds == <<keys, meddling>>
vars == <<disk, chain, pc, local, bounds, exits, excuse, unsaved, failed>>

(* A vault file: the key it is encrypted with, its accounts and whether it was
   migrated (newDefaultData: no accounts). *)
NewVault(k) == [key |-> k, accounts |-> {}, migrated |-> FALSE]
Absent == [key |-> 0, accounts |-> {}, migrated |-> FALSE, absent |-> TRUE]
TornVault == [key |-> 0, accounts |-> {}, migrated |-> FALSE, torn |-> TRUE]
Exists(v) == v # Absent
(* gcm.Open fails with another key, msgpack.Unmarshal with half a file. The
   insecure vault has the empty key, 0. *)
Opens(v, k) == Exists(v) /\ v # TornVault /\ v.key = k

(* listHelpers: the usable helpers, and the default one by a fixed order. *)
Default(u) == IF u = {} THEN None ELSE CHOOSE h \in u : TRUE

(* Keychain.Get: 0 is ErrKeychainNoItem. *)
Get(h) == item[h]

Init ==
  /\ usable \in SUBSET Helpers /\ locked = FALSE
  /\ item = [h \in Helpers |-> 0]
  /\ default = Default(usable)
  /\ pref \in {None} \cup Helpers /\ count = 0
  /\ vault = Absent /\ insecure = Absent
  /\ pc = "off" /\ helper = None /\ key = 0 /\ corrupt = FALSE
  /\ flags = [retry |-> TRUE, orphans |-> TRUE]
  /\ keys = 0 /\ meddling = 0
  /\ exits = 0 /\ excuse = FALSE /\ unsaved = FALSE /\ failed = {}

(* The process is gone, and what it held in memory. *)
Ends ==
  /\ pc' = "off" /\ helper' = None /\ key' = 0 /\ corrupt' = FALSE
  /\ flags' = [retry |-> TRUE, orphans |-> TRUE]

(* run, withSingleInstance: one process at a time; the feature flags are read
   from the API or its cache. migrateKeychainHelper has set pref in Init. *)
Start ==
  /\ pc = "off"
  /\ flags' \in [retry : BOOLEAN, orphans : BOOLEAN]
  /\ pc' = "load" /\ UNCHANGED <<helper, key, corrupt>>
  /\ UNCHANGED <<disk, chain, keys, meddling, exits, excuse, unsaved, failed>>

ShouldRetryPreferredKeychain(h) == flags.retry /\ h # None

(* The retry of a preferred helper that cannot be used is given up when the
   count on the disk has reached the limit. *)
MutMayRetry(h) == ShouldRetryPreferredKeychain(h) /\ count <= MaxFailedKeychainAttemptsLinux
MayRetry(h) == ShouldRetryPreferredKeychain(h) /\ count < MaxFailedKeychainAttemptsLinux

(* NewKeychain: the preferred helper, the default one when it is not usable;
   None is ErrNoKeychain. *)
NewKeychain == IF pref \in usable THEN pref ELSE default

RefusesOther == pref \notin usable /\ MayRetry(pref)

(* IncrementKeychainFailedAttemptCount, whose failure is only logged; the
   program ends. *)
IncrementKeychainFailedAttemptCount ==
  /\ count' \in {count + 1, count}
  /\ exits' = IF count' = count THEN exits ELSE exits + 1
  /\ Ends

(* GetHelper and GetKeychainFailedAttemptCount: a missing file gives the
   default values, half a file an error. *)
Readable == pref # Torn /\ count # Torn

(* The start goes on without a key, in the directory insecure/. *)
Insecure == pc' = "open" /\ UNCHANGED <<local, count, exits>>

(* loadVaultKey, with the answer of newVault to each of its errors. *)
MutNewVaultKey(h) == item' = item
NewVaultKey(h) == item' = [item EXCEPT ![h] = keys + 1]

LoadFails ==
  /\ pc = "load"
  /\ \/ /\ ~Readable \/ usable = {}
        /\ Insecure
     \/ /\ Readable /\ usable # {} /\ RefusesOther
        /\ IncrementKeychainFailedAttemptCount
     \/ /\ Readable /\ usable # {} /\ ~RefusesOther /\ locked
        /\ IF MayRetry(NewKeychain)
             THEN IncrementKeychainFailedAttemptCount
             ELSE Insecure
  /\ UNCHANGED <<pref, vault, insecure, chain, bounds, excuse, unsaved, failed>>

Loads ==
  /\ pc = "load" /\ Readable
  /\ usable # {} /\ ~RefusesOther /\ ~locked
  /\ LET h == NewKeychain
     IN  IF Get(h) # 0
           THEN /\ pc' = "open" /\ helper' = h /\ key' = Get(h)
                /\ UNCHANGED <<item, keys, flags, corrupt>>
           ELSE \/ /\ keys < MaxKeys /\ keys' = keys + 1
                   /\ NewVaultKey(h) /\ pc' = "open" /\ helper' = h /\ key' = keys + 1
                   /\ UNCHANGED <<flags, corrupt>>
                \/ UNCHANGED <<item, keys>> /\ Insecure           \* kc.Put failed
  /\ UNCHANGED <<disk, usable, locked, default, meddling, exits, excuse, unsaved, failed>>

Secure == key # 0
Mine == IF Secure THEN vault ELSE insecure
Store(v) == IF Secure THEN vault' = v /\ UNCHANGED insecure
                      ELSE insecure' = v /\ UNCHANGED vault

(* vault.newVault: a missing vault and one that does not open are written
   anew, in place; a crash in initVault leaves half a file. *)
initVault == Store(NewVault(key))
NewOpens ==
  /\ pc = "open"
  /\ IF Opens(Mine, key)
       THEN UNCHANGED <<vault, insecure, corrupt>>
       ELSE initVault /\ corrupt' = Exists(Mine)
  /\ pc' = "remember"
  /\ exits' = 0
  /\ UNCHANGED <<pref, count, chain, helper, key, flags, bounds, excuse, unsaved, failed>>

(* SetHelper and ResetFailedKeychainAttemptCount in the directory of the vault
   in use: after an insecure start they reach the files of insecure/, which no
   start reads. Their errors are only logged. *)
SetHelper == IF Secure THEN helper ELSE pref

Remember ==
  /\ pc = "remember" /\ pc' = "reset"
  /\ \/ pref' = SetHelper
     \/ UNCHANGED pref
  /\ unsaved' = IF Secure THEN pref' # helper ELSE unsaved
  /\ excuse' = IF Secure THEN FALSE ELSE excuse
  /\ UNCHANGED <<count, vault, insecure, chain, local, bounds, exits, failed>>

ResetFailedKeychainAttemptCount ==
  /\ pc = "reset" /\ pc' = "orphans"
  /\ \/ count' = IF Secure THEN 0 ELSE count
     \/ UNCHANGED count
  /\ UNCHANGED <<pref, vault, insecure, chain, local, bounds, exits, excuse, unsaved, failed>>

(* Remove Orphaned Insecure Vaults: os.RemoveAll can fail. *)
Removes == Secure /\ flags.orphans

RemoveOrphans ==
  /\ pc = "orphans" /\ pc' = "migrate"
  /\ \/ insecure' = IF Removes THEN Absent ELSE insecure
     \/ UNCHANGED insecure
  /\ UNCHANGED <<pref, count, vault, chain, local, bounds, exits, excuse, unsaved, failed>>

(* migrateOldSettings and migrateOldAccounts: the old accounts that can be
   read, moved by AddUser one by one; an error of one of them is logged. The
   vault is marked as migrated either way. An account that a start moved
   before it died is already there, which is an error. *)
Moved(bad) == OldAccounts \ bad

(* The accounts that may fail: with those that are there, any; and all of them
   when there is no key chain to read. *)
Unmovable == {bad \in SUBSET OldAccounts :
                /\ Mine.accounts \cap OldAccounts \subseteq bad
                /\ bad # OldAccounts => pref # Torn /\ usable # {} /\ ~locked}

Migrate ==
  /\ pc = "migrate" /\ pc' = "running"
  /\ IF Mine.migrated
       THEN UNCHANGED <<vault, insecure, failed>>
       ELSE \E bad \in Unmovable :
              /\ Store([Mine EXCEPT !.accounts = @ \cup Moved(bad), !.migrated = TRUE])
              /\ failed' = failed \cup bad
  /\ UNCHANGED <<pref, count, chain, local, bounds, exits, excuse, unsaved>>

AddAccount(a) ==
  /\ pc = "running"
  /\ Store([Mine EXCEPT !.accounts = @ \cup {a}])
  /\ UNCHANGED <<pref, count, chain, pc, local, bounds, exits, excuse, unsaved, failed>>

(* SetKeychainApp: the helper the user chose is written to keychain.json and
   the program restarts; a write that fails is answered. *)
SetKeychainApp(h) ==
  /\ pc = "running" /\ h \in usable /\ h # pref
  /\ meddling < MaxMeddling /\ meddling' = meddling + 1
  /\ pref # Torn
  /\ pref' = h /\ Ends
  /\ excuse' = TRUE
  /\ UNCHANGED <<count, vault, insecure, chain, keys, exits, unsaved, failed>>

Quit ==
  /\ pc = "running" /\ Ends
  /\ UNCHANGED <<disk, chain, bounds, exits, excuse, unsaved, failed>>

(* The process dies. In the middle of os.WriteFile it leaves half of a file;
   modUnsafe writes a temporary file and renames it, so the vault in use never
   is, but some of the old accounts may be in it before it is marked. *)
Crash ==
  /\ pc # "off" /\ meddling < MaxMeddling /\ meddling' = meddling + 1
  /\ Ends
  /\ \/ UNCHANGED <<disk, unsaved>>
     \/ pc = "open" /\ ~Opens(Mine, key) /\ Store(TornVault) /\ UNCHANGED <<pref, count, unsaved>>
     \/ pc = "remember" /\ Secure /\ pref' = Torn /\ UNCHANGED <<count, vault, insecure, unsaved>>
     \/ pc = "reset" /\ Secure /\ count' = Torn /\ UNCHANGED <<pref, vault, insecure, unsaved>>
     \/ /\ pc = "migrate" /\ ~Mine.migrated
        /\ \E bad \in Unmovable : Store([Mine EXCEPT !.accounts = @ \cup Moved(bad)])
        /\ UNCHANGED <<pref, count, unsaved>>
  /\ excuse' = (excuse \/ pc \in {"open", "remember"})
  /\ UNCHANGED <<chain, keys, exits, failed>>

(* The machine changes between the starts: key chains come and go, a key chain
   is locked or unlocked, an item is lost. *)
Meddle ==
  /\ pc = "off" /\ meddling < MaxMeddling /\ meddling' = meddling + 1
  /\ \/ \E u \in SUBSET Helpers :
          /\ u # usable /\ usable' = u
          /\ default' = Default(u)
          /\ UNCHANGED <<locked, item, excuse>>
     \/ locked' = ~locked /\ UNCHANGED <<usable, default, item, excuse>>
     \/ \E h \in Helpers :
          /\ item[h] # 0 /\ item' = [item EXCEPT ![h] = 0]
          /\ excuse' = TRUE /\ UNCHANGED <<usable, locked, default>>
  /\ UNCHANGED <<disk, pc, local, keys, exits, unsaved, failed>>

Step == LoadFails \/ Loads \/ NewOpens \/ Remember
          \/ ResetFailedKeychainAttemptCount \/ RemoveOrphans \/ Migrate
Next == \/ Start \/ Step \/ Quit \/ Crash \/ Meddle
        \/ \E a \in Accounts : AddAccount(a)
        \/ \E h \in Helpers : SetKeychainApp(h)

Spec == Init /\ [][Next]_vars /\ WF_vars(Step) /\ WF_vars(Start)

----------------------------------------------------------------------------
(* A vault with accounts is wiped by a start only when the user changed the
   helper, an item was lost or a crash cut the saving of the helper, when that
   helper could not be saved, when the starts before it were given up as often
   as the limit says, or when the flag turns the retries off: an unusable or
   locked key chain alone never costs the accounts (newVault, loadVaultKey,
   initVault). *)
WipeStep ==
  \/ pc # "open" \/ ~Secure
  \/ vault' = vault \/ vault.accounts = {}
  \/ excuse \/ unsaved
  \/ exits >= MaxFailedKeychainAttemptsLinux \/ count >= MaxFailedKeychainAttemptsLinux
  \/ ~flags.retry

(* A program that runs with the secure vault has the key in a key chain of
   this machine, so the next start can read what this one writes (NewVaultKey puts the key before the vault
   is written). *)
KeyIsKept ==
  pc = "running" /\ Secure => vault.key = key /\ (\E h \in Helpers : item[h] = key)

(* The program gives up at most MaxFailedKeychainAttemptsLinux starts in a row
   before it opens some vault, when the count can be written. *)
ExitsBounded == exits <= MaxFailedKeychainAttemptsLinux

(* Once a vault is marked as migrated, each account of version 2 is in it or
   failed to be migrated in some start (migrateOldAccounts, SetMigrated). *)
MigratedOrFailed ==
  vault.migrated => OldAccounts \subseteq (vault.accounts \cup failed)

(* The insecure vault, whose accounts anyone can read, is removed only by a
   start that has the secure one, so that a program without key chain keeps
   the accounts it was given. *)
InsecureStep == insecure.accounts # {} /\ insecure'.accounts = {} => Secure /\ pc = "orphans"

(* Nothing but half a settings file keeps the program from its vault: when
   from some time on the preferred key chain is usable, unlocked and holds a
   key, a program that is started again and again runs with the secure vault
   again and again, whatever went wrong before (loadVaultKey, the count of
   failed attempts). *)
Healthy == count # Torn /\ pref \in usable /\ ~locked /\ item[pref] # 0
Off == pc = "off"
RunsSecure == pc = "running" /\ Secure
=============================================================================
