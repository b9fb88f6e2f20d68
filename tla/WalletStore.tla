------------------------------ MODULE WalletStore ------------------------------
(***************************************************************************)
(* Where a wallet is kept: its DBWallet record in Core Data, its seed and  *)
(* the id of the current wallet in the keychain.  createWallet writes the  *)
(* three one after the other; load, at every launch and whenever the scene *)
(* connects again, finds the current wallet from them.                     *)
(*                                                                         *)
(* KeychainStorage reads and writes through KeychainAccess's subscripts,   *)
(* which drop errors, and its items exist only while the device has a      *)
(* passcode; they outlive the app, which Core Data's file does not.  Both  *)
(* stores are outside src/ and modelled from how src/ uses them.           *)
(***************************************************************************)

CONSTANTS
    Wallets,  \* ids of wallets, drawn at random for each model
    NoWallet  \* no wallet

ASSUME NoWalletAssumption == NoWallet \notin Wallets

Faults == {"seed", "id", "erased", "reinstalled", "fetch", "read"}

VARIABLES
    passcode, \* the device has a passcode
    keyId,    \* keychain: CURRENT_WALLET_ID
    seeds,    \* keychain: wallets whose seed is there
    table,    \* DBWallet records
    phase,    \* "off" or "running"
    died,     \* why the process ended itself: "none", "wallet", "save" or "store"
    wallets,  \* WalletCoordinator.wallets, {} before the first fetch too
    current,  \* WalletCoordinator.currentWallet
    ready,    \* the current wallet has its assets
    step,     \* createWallet: "idle", or what is to be written next
    new,      \* the wallet being created
    drawn,    \* ids used so far
    shown,    \* history: wallets that were current
    faults    \* history: the kinds of faults so far

keychain == <<passcode, keyId, seeds>>
memory   == <<wallets, current, ready, step, new>>
history  == <<drawn, shown, faults>>
vars     == <<keychain, table, phase, died, memory, history>>

\* Definitions named Bug_... are faulty variants of the definition that follows
\* them, kept to check that the properties notice them; nothing else uses them.

-----------------------------------------------------------------------------
Init ==
    /\ passcode \in BOOLEAN /\ keyId = NoWallet /\ seeds = {} /\ table = {}
    /\ phase = "off" /\ died = "none"
    /\ wallets = {} /\ current = NoWallet /\ ready = FALSE /\ step = "idle" /\ new = NoWallet
    /\ drawn = {} /\ shown = {} /\ faults = {}

\* Memory goes with the process.
Ends(cause) ==
    /\ phase' = "off" /\ died' = cause
    /\ wallets' = {} /\ current' = NoWallet /\ ready' = FALSE /\ step' = "idle" /\ new' = NoWallet

-----------------------------------------------------------------------------
(* load *)

\* fetchWallets: an error leaves the list as it was.
Fetched(list, failed) ==
    IF failed THEN list = wallets ELSE list = table

\* setupCurrentWallet and setupWallet: without an id, or with one that cannot be
\* read, there is no current wallet; the list must have it; without a readable seed
\* it has no assets, but for those it had.
Bug_SetupWallet(list, id, seedRead) ==
    IF id = NoWallet
    THEN phase' = "running" /\ wallets' = list /\ UNCHANGED <<died, current, ready, step, new, shown>>
    ELSE IF id \notin list THEN Ends("wallet") /\ UNCHANGED shown
    ELSE /\ phase' = "running" /\ wallets' = list /\ current' = id /\ UNCHANGED ready
         /\ shown' = shown \cup {id} /\ UNCHANGED <<died, step, new>>

Bug_GoOnWithout(list, id, seedRead) ==
    IF id \notin list
    THEN phase' = "running" /\ wallets' = list /\ UNCHANGED <<died, current, ready, step, new, shown>>
    ELSE /\ phase' = "running" /\ wallets' = list /\ current' = id
         /\ ready' = ((id \in seeds /\ seedRead) \/ (current = id /\ ready))
         /\ shown' = shown \cup {id} /\ UNCHANGED <<died, step, new>>

SetupWallet(list, id, seedRead) ==
    IF id = NoWallet
    THEN phase' = "running" /\ wallets' = list /\ UNCHANGED <<died, current, ready, step, new, shown>>
    ELSE IF id \notin list THEN Ends("wallet") /\ UNCHANGED shown
    ELSE /\ phase' = "running" /\ wallets' = list /\ current' = id
         /\ ready' = ((id \in seeds /\ seedRead) \/ (current = id /\ ready))
         /\ shown' = shown \cup {id} /\ UNCHANGED <<died, step, new>>

Load ==
    \E list \in {wallets, table}, fetchFailed, idRead, seedRead \in BOOLEAN :
        /\ Fetched(list, fetchFailed)
        /\ SetupWallet(list, IF idRead THEN keyId ELSE NoWallet, seedRead)
        /\ faults' = faults \cup (IF fetchFailed THEN {"fetch"} ELSE {})
                            \cup (IF idRead /\ seedRead THEN {} ELSE {"read"})
        /\ UNCHANGED <<keychain, table, drawn>>

\* The scene connects: in a new process, or again in one that lost its scene.
Launch    == phase = "off" /\ died = "none" /\ Load
Reconnect == phase = "running" /\ step = "idle" /\ Load

\* The persistent store does not load.
StoreFails ==
    /\ phase = "off" /\ died = "none" /\ died' = "store"
    /\ UNCHANGED <<keychain, table, phase, memory, history>>

-----------------------------------------------------------------------------
(* createWallet, from TestSeedView, which RootView shows without a current wallet *)

\* DBWallet's init: the record is inserted and saved, or the process ends.
Bug_InsertWallet(w) ==
    /\ phase = "running" /\ step = "idle" /\ current = NoWallet /\ w \notin drawn
    /\ drawn' = drawn \cup {w} /\ step' = "seed" /\ new' = w
    /\ UNCHANGED <<keychain, table, phase, died, wallets, current, ready, shown, faults>>

InsertWallet(w) ==
    /\ phase = "running" /\ step = "idle" /\ current = NoWallet /\ w \notin drawn
    /\ drawn' = drawn \cup {w}
    /\ \/ /\ table' = table \cup {w} /\ step' = "seed" /\ new' = w
          /\ UNCHANGED <<phase, died, wallets, current, ready>>
       \/ Ends("save") /\ UNCHANGED table
    /\ UNCHANGED <<keychain, shown, faults>>

\* A write to the keychain: it needs a passcode, and may fail in any case.
Written(fault, ok) ==
    /\ ok => passcode
    /\ faults' = IF ok THEN faults ELSE faults \cup {fault}

\* saveSeed.
Bug_SaveSeed ==
    /\ step = "seed" /\ step' = "id"
    /\ Written("seed", TRUE) /\ seeds' = seeds \cup {current}
    /\ UNCHANGED <<passcode, keyId, table, phase, died, wallets, current, ready, new, drawn, shown>>

Bug_IdFirst ==
    /\ step = "seed" /\ step' = "id"
    /\ Written("seed", TRUE) /\ keyId' = new
    /\ UNCHANGED <<passcode, seeds, table, phase, died, wallets, current, ready, new, drawn, shown>>

SaveSeed ==
    /\ step = "seed" /\ step' = "id"
    /\ \/ Written("seed", TRUE) /\ seeds' = seeds \cup {new}
       \/ Written("seed", FALSE) /\ UNCHANGED seeds
    /\ UNCHANGED <<passcode, keyId, table, phase, died, wallets, current, ready, new, drawn, shown>>

\* currentWalletID and currentWallet; the assets were set up from the model.  The
\* list of wallets does not get the new one.
Bug_SaveId ==
    /\ step = "id" /\ step' = "idle"
    /\ current' = new /\ ready' = TRUE /\ shown' = shown \cup {new} /\ new' = NoWallet
    /\ UNCHANGED <<keychain, table, phase, died, wallets, drawn, faults>>

SaveId ==
    /\ step = "id" /\ step' = "idle"
    /\ \/ Written("id", TRUE) /\ keyId' = new
       \/ Written("id", FALSE) /\ UNCHANGED keyId
    /\ current' = new /\ ready' = TRUE /\ shown' = shown \cup {new} /\ new' = NoWallet
    /\ UNCHANGED <<passcode, seeds, table, phase, died, wallets, drawn>>

-----------------------------------------------------------------------------
(* The device *)

\* The process is killed, or starts anew after it ended itself.
Kill ==
    /\ phase = "running" \/ died # "none"
    /\ Ends("none") /\ UNCHANGED <<keychain, table, history>>

\* Without a passcode the items are gone; they do not come back with one.
RemovePasscode ==
    /\ passcode /\ passcode' = FALSE /\ keyId' = NoWallet /\ seeds' = {}
    /\ faults' = faults \cup {"erased"}
    /\ UNCHANGED <<table, phase, died, memory, drawn, shown>>

SetPasscode ==
    /\ ~passcode /\ passcode' = TRUE
    /\ UNCHANGED <<keyId, seeds, table, phase, died, memory, history>>

\* The app is deleted and installed again: its files go, its keychain items stay.
Reinstall ==
    /\ phase = "off" /\ table' = {} /\ died' = "none"
    /\ faults' = faults \cup {"reinstalled"}
    /\ UNCHANGED <<keychain, phase, memory, drawn, shown>>

-----------------------------------------------------------------------------
Create == (\E w \in Wallets : InsertWallet(w)) \/ SaveSeed \/ SaveId
Device == Kill \/ RemovePasscode \/ SetPasscode \/ Reinstall
Next   == Launch \/ Reconnect \/ StoreFails \/ Create \/ Device

Spec == Init /\ [][Next]_vars

-----------------------------------------------------------------------------
(* Properties *)

Had(some) == some \cap faults # {}

\* Every variable holds a value of its type.
TypeOK ==
    /\ passcode \in BOOLEAN /\ keyId \in Wallets \cup {NoWallet}
    /\ seeds \subseteq Wallets /\ table \subseteq Wallets
    /\ phase \in {"off", "running"} /\ died \in {"none", "wallet", "save", "store"}
    /\ wallets \subseteq Wallets /\ current \in Wallets \cup {NoWallet} /\ ready \in BOOLEAN
    /\ step \in {"idle", "seed", "id"} /\ new \in Wallets \cup {NoWallet}
    /\ drawn \subseteq Wallets /\ shown \subseteq Wallets /\ faults \subseteq Faults

\* The keychain names only a wallet whose seed and whose record were stored before,
\* wherever a kill cut createWallet off: one without them is the work of a write
\* whose error was dropped, or of a new installation.
NamedIsStored ==
    keyId # NoWallet => /\ keyId \in seeds \/ Had({"seed", "erased"})
                        /\ keyId \in table \/ Had({"reinstalled"})

\* The app ends itself over a wallet that does not exist only after a new
\* installation, whose keychain still names the old one, or when the fetch failed:
\* never because of a kill during createWallet.
DiesOnlyIf == died = "wallet" => Had({"reinstalled", "fetch"})

\* Once a wallet was shown the app offers to create one again only after an error
\* of the keychain that was dropped, or without the passcode.
AsksAgainOnlyIf ==
    phase = "running" /\ step = "idle" /\ current = NoWallet /\ shown # {} =>
        Had({"id", "erased", "read"})

\* A current wallet has its assets unless its seed could not be written or read.
EmptyOnlyIf == current # NoWallet /\ ~ready => Had({"seed", "erased", "read"})

\* The keychain comes to name another wallet only when the id it holds could not be
\* read, and the user made a new wallet for it.
KeepsTheWallet ==
    [][keyId # NoWallet /\ keyId' \notin {keyId, NoWallet} => Had({"read"})]_vars
================================================================================
