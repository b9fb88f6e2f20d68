--------------------------- MODULE WalletStoreProofs ---------------------------
(* Theorems about WalletStore, for every set of wallets. *)
EXTENDS WalletStore, TLAPS

-----------------------------------------------------------------------------
(* The inductive invariant: an invariant of createWallet's progress, and what the *)
(* memory of a process owes to the keychain.                                      *)

\* While a wallet is being created its record is stored, and there is no current one.
Creating ==
    /\ step = "idle" \/ (phase = "running" /\ current = NoWallet /\ new \in table)
    /\ step = "id" => new \in seeds \/ Had({"seed", "erased"})

\* A wallet that was shown is named by the keychain, but for a lost write or item.
ShownIsNamed == shown # {} => keyId # NoWallet \/ Had({"id", "erased"})

\* A process without a current wallet could not read the id the keychain holds.
NamedIsCurrent ==
    phase = "running" /\ current = NoWallet /\ keyId # NoWallet => Had({"read"})

IInv ==
    /\ TypeOK
    /\ Creating
    /\ ShownIsNamed
    /\ NamedIsCurrent
    /\ NamedIsStored
    /\ DiesOnlyIf
    /\ AsksAgainOnlyIf
    /\ EmptyOnlyIf

-----------------------------------------------------------------------------
(* Faults are never forgotten. *)

LEMMA HadGrows ==
    ASSUME faults \subseteq faults', NEW some, Had(some)
    PROVE  Had(some)'
BY DEF Had

LEMMA InitInv == Init => IInv
BY NoWalletAssumption
   DEF Init, IInv, TypeOK, Creating, ShownIsNamed, NamedIsCurrent, NamedIsStored,
       DiesOnlyIf, AsksAgainOnlyIf, EmptyOnlyIf, Had

-----------------------------------------------------------------------------
(* load *)

LEMMA LoadKeeps ==
    ASSUME IInv, phase = "off" \/ phase = "running", step = "idle", Load
    PROVE  IInv'
<1> USE NoWalletAssumption
<1>1. PICK list \in {wallets, table}, fetchFailed, idRead, seedRead \in BOOLEAN :
        /\ Fetched(list, fetchFailed)
        /\ SetupWallet(list, IF idRead THEN keyId ELSE NoWallet, seedRead)
        /\ faults' = faults \cup (IF fetchFailed THEN {"fetch"} ELSE {})
                            \cup (IF idRead /\ seedRead THEN {} ELSE {"read"})
        /\ UNCHANGED <<keychain, table, drawn>>
  BY DEF Load
<1> DEFINE id == IF idRead THEN keyId ELSE NoWallet
<1>u. UNCHANGED <<passcode, keyId, seeds, table, drawn>>
  BY <1>1 DEF keychain
<1>2. faults \subseteq faults' /\ faults' \subseteq Faults
  BY <1>1 DEF IInv, TypeOK, Faults
<1>h. ASSUME NEW some, Had(some) PROVE Had(some)'
  BY <1>2, <1>h, HadGrows
<1>f. fetchFailed => "fetch" \in faults'
  BY <1>1
<1>r. ~(idRead /\ seedRead) => "read" \in faults'
  BY <1>1
<1>3. list \subseteq Wallets
  BY <1>1 DEF IInv, TypeOK
<1>4. CASE id = NoWallet
  <2>1. /\ phase' = "running" /\ wallets' = list
        /\ UNCHANGED <<died, current, ready, step, new, shown>>
    BY <1>1, <1>4 DEF SetupWallet
  <2>2. keyId = NoWallet \/ Had({"read"})'
    BY <1>4, <1>r DEF Had
  <2>3. TypeOK'
    BY <1>u, <1>2, <1>3, <2>1 DEF IInv, TypeOK
  <2>4. Creating' /\ ShownIsNamed'
    BY <1>u, <1>h, <2>1 DEF IInv, Creating, ShownIsNamed
  <2>5. NamedIsCurrent'
    BY <1>u, <2>2 DEF NamedIsCurrent
  <2>6. NamedIsStored' /\ DiesOnlyIf' /\ EmptyOnlyIf'
    BY <1>u, <1>h, <2>1 DEF IInv, NamedIsStored, DiesOnlyIf, EmptyOnlyIf
  <2>7. AsksAgainOnlyIf'
    <3>1. shown' # {} => keyId # NoWallet \/ Had({"id", "erased"})'
      BY <1>h, <2>1 DEF IInv, ShownIsNamed
    <3> QED BY <2>2, <3>1 DEF AsksAgainOnlyIf, Had
  <2> QED BY <2>3, <2>4, <2>5, <2>6, <2>7 DEF IInv
<1>5. CASE id # NoWallet /\ id \notin list
  <2>1. Ends("wallet") /\ UNCHANGED shown
    BY <1>1, <1>5 DEF SetupWallet
  <2>2. fetchFailed \/ (list = table /\ keyId \notin table /\ keyId # NoWallet)
    BY <1>1, <1>5 DEF Fetched
  <2>3. Had({"reinstalled", "fetch"})'
    <3>1. CASE fetchFailed BY <3>1, <1>f DEF Had
    <3>2. CASE keyId \notin table /\ keyId # NoWallet
      <4>1. Had({"reinstalled"})' BY <3>2, <1>h DEF IInv, NamedIsStored
      <4> QED BY <4>1 DEF Had
    <3> QED BY <2>2, <3>1, <3>2
  <2>4. TypeOK'
    BY <1>u, <1>2, <2>1 DEF IInv, TypeOK, Ends
  <2>5. Creating' /\ ShownIsNamed' /\ NamedIsCurrent' /\ NamedIsStored'
    BY <1>u, <1>h, <2>1
    DEF IInv, Creating, ShownIsNamed, NamedIsCurrent, NamedIsStored, Ends
  <2>6. DiesOnlyIf' /\ AsksAgainOnlyIf' /\ EmptyOnlyIf'
    BY <2>1, <2>3 DEF DiesOnlyIf, AsksAgainOnlyIf, EmptyOnlyIf, Ends
  <2> QED BY <2>4, <2>5, <2>6 DEF IInv
<1>6. CASE id # NoWallet /\ id \in list
  <2>0. id = keyId /\ idRead
    BY <1>6
  <2>1. /\ phase' = "running" /\ wallets' = list /\ current' = id
        /\ ready' = ((id \in seeds /\ seedRead) \/ (current = id /\ ready))
        /\ shown' = shown \cup {id} /\ UNCHANGED <<died, step, new>>
    BY <1>1, <1>6 DEF SetupWallet
  <2>2. TypeOK'
    BY <1>u, <1>2, <1>3, <1>6, <2>1 DEF IInv, TypeOK
  <2>3. Creating' /\ ShownIsNamed' /\ NamedIsCurrent'
    BY <1>u, <1>6, <2>0, <2>1 DEF Creating, ShownIsNamed, NamedIsCurrent
  <2>4. NamedIsStored' /\ DiesOnlyIf'
    BY <1>u, <1>h, <2>1 DEF IInv, NamedIsStored, DiesOnlyIf
  <2>5. AsksAgainOnlyIf'
    BY <1>6, <2>1 DEF AsksAgainOnlyIf
  <2>6. EmptyOnlyIf'
    <3>1. CASE ready' BY <3>1 DEF EmptyOnlyIf
    <3>2. CASE ~seedRead BY <3>2, <1>r DEF EmptyOnlyIf, Had
    <3>3. CASE keyId \notin seeds
      <4>1. Had({"seed", "erased"})'
        BY <3>3, <1>6, <2>0, <1>h DEF IInv, NamedIsStored
      <4> QED BY <4>1 DEF EmptyOnlyIf, Had
    <3> QED BY <2>0, <2>1, <3>1, <3>2, <3>3
  <2> QED BY <2>2, <2>3, <2>4, <2>5, <2>6 DEF IInv
<1> QED BY <1>4, <1>5, <1>6

-----------------------------------------------------------------------------
(* createWallet *)

LEMMA InsertKeeps ==
    ASSUME IInv, NEW w \in Wallets, InsertWallet(w)
    PROVE  IInv'
<1> USE NoWalletAssumption
<1>1. /\ phase = "running" /\ step = "idle" /\ current = NoWallet
      /\ drawn' = drawn \cup {w}
      /\ UNCHANGED <<passcode, keyId, seeds, shown, faults>>
  BY DEF InsertWallet, keychain
<1>2. CASE /\ table' = table \cup {w} /\ step' = "seed" /\ new' = w
           /\ UNCHANGED <<phase, died, wallets, current, ready>>
  BY <1>1, <1>2
  DEF IInv, TypeOK, Creating, ShownIsNamed, NamedIsCurrent, NamedIsStored, DiesOnlyIf,
      AsksAgainOnlyIf, EmptyOnlyIf, Had
<1>3. CASE Ends("save") /\ UNCHANGED table
  BY <1>1, <1>3
  DEF IInv, TypeOK, Creating, ShownIsNamed, NamedIsCurrent, NamedIsStored, DiesOnlyIf,
      AsksAgainOnlyIf, EmptyOnlyIf, Had, Ends
<1> QED BY <1>2, <1>3 DEF InsertWallet

LEMMA SeedKeeps ==
    ASSUME IInv, SaveSeed
    PROVE  IInv'
<1> USE NoWalletAssumption
<1>1. /\ step = "seed" /\ step' = "id" /\ seeds \subseteq seeds'
      /\ faults \subseteq faults'
      /\ seeds' \subseteq seeds \cup {new} /\ faults' \subseteq Faults
      /\ new \in seeds' \/ Had({"seed"})'
      /\ UNCHANGED <<passcode, keyId, table, phase, died, wallets, current, ready, new,
                     drawn, shown>>
  BY DEF SaveSeed, Written, IInv, TypeOK, Faults, Had
<1>2. phase = "running" /\ current = NoWallet /\ new \in table
  BY <1>1 DEF IInv, Creating
<1>h. ASSUME NEW some, Had(some) PROVE Had(some)'
  BY <1>1, <1>h, HadGrows
<1>3. TypeOK'
  BY <1>1, <1>2 DEF IInv, TypeOK
<1>4. Creating' /\ ShownIsNamed' /\ NamedIsCurrent'
  BY <1>1, <1>2, <1>h DEF IInv, Creating, ShownIsNamed, NamedIsCurrent, Had
<1>5. NamedIsStored' /\ DiesOnlyIf' /\ AsksAgainOnlyIf' /\ EmptyOnlyIf'
  BY <1>1, <1>2, <1>h DEF IInv, NamedIsStored, DiesOnlyIf, AsksAgainOnlyIf, EmptyOnlyIf
<1> QED BY <1>3, <1>4, <1>5 DEF IInv

LEMMA IdKeeps ==
    ASSUME IInv, SaveId
    PROVE  IInv'
<1> USE NoWalletAssumption
<1>1. /\ step = "id" /\ step' = "idle" /\ current' = new /\ ready' = TRUE
      /\ shown' = shown \cup {new} /\ new' = NoWallet
      /\ faults \subseteq faults' /\ faults' \subseteq Faults
      /\ keyId' = new \/ (keyId' = keyId /\ Had({"id"})')
      /\ UNCHANGED <<passcode, seeds, table, phase, died, wallets, drawn>>
  BY DEF SaveId, Written, IInv, TypeOK, Faults, Had
<1>2. /\ phase = "running" /\ new \in table /\ new \in Wallets /\ new # NoWallet
      /\ new \in seeds \/ Had({"seed", "erased"})
  BY <1>1 DEF IInv, Creating, TypeOK
<1>h. ASSUME NEW some, Had(some) PROVE Had(some)'
  BY <1>1, <1>h, HadGrows
<1>3. TypeOK'
  BY <1>1, <1>2 DEF IInv, TypeOK
<1>4. Creating' /\ ShownIsNamed' /\ NamedIsCurrent'
  BY <1>1, <1>2 DEF Creating, ShownIsNamed, NamedIsCurrent, Had
<1>5. NamedIsStored'
  BY <1>1, <1>2, <1>h DEF IInv, NamedIsStored
<1>6. DiesOnlyIf' /\ AsksAgainOnlyIf' /\ EmptyOnlyIf'
  BY <1>1, <1>2, <1>h DEF IInv, DiesOnlyIf, AsksAgainOnlyIf, EmptyOnlyIf
<1> QED BY <1>3, <1>4, <1>5, <1>6 DEF IInv

-----------------------------------------------------------------------------
(* The device and the store *)

LEMMA DeviceKeeps ==
    ASSUME IInv, Device \/ StoreFails
    PROVE  IInv'
<1> USE NoWalletAssumption
<1>1. CASE Kill
  BY <1>1
  DEF IInv, TypeOK, Creating, ShownIsNamed, NamedIsCurrent, NamedIsStored, DiesOnlyIf,
      AsksAgainOnlyIf, EmptyOnlyIf, Had, Kill, Ends, keychain, history
<1>2. CASE RemovePasscode
  BY <1>2
  DEF IInv, TypeOK, Creating, ShownIsNamed, NamedIsCurrent, NamedIsStored, DiesOnlyIf,
      AsksAgainOnlyIf, EmptyOnlyIf, Had, RemovePasscode, Faults, memory
<1>3. CASE SetPasscode
  BY <1>3
  DEF IInv, TypeOK, Creating, ShownIsNamed, NamedIsCurrent, NamedIsStored, DiesOnlyIf,
      AsksAgainOnlyIf, EmptyOnlyIf, Had, SetPasscode, memory, history
<1>4. CASE Reinstall
  BY <1>4
  DEF IInv, TypeOK, Creating, ShownIsNamed, NamedIsCurrent, NamedIsStored, DiesOnlyIf,
      AsksAgainOnlyIf, EmptyOnlyIf, Had, Reinstall, Faults, keychain, memory
<1>5. CASE StoreFails
  BY <1>5
  DEF IInv, TypeOK, Creating, ShownIsNamed, NamedIsCurrent, NamedIsStored, DiesOnlyIf,
      AsksAgainOnlyIf, EmptyOnlyIf, Had, StoreFails, keychain, memory, history
<1> QED BY <1>1, <1>2, <1>3, <1>4, <1>5 DEF Device

LEMMA StutterKeeps ==
    ASSUME IInv, UNCHANGED vars
    PROVE  IInv'
BY DEF IInv, TypeOK, Creating, ShownIsNamed, NamedIsCurrent, NamedIsStored, DiesOnlyIf,
       AsksAgainOnlyIf, EmptyOnlyIf, Had, vars, keychain, memory, history

LEMMA NextKeeps == IInv /\ [Next]_vars => IInv'
<1> SUFFICES ASSUME IInv, [Next]_vars PROVE IInv'
  OBVIOUS
<1>1. CASE Launch
  <2>1. step = "idle" BY <1>1 DEF Launch, IInv, Creating
  <2> QED BY <1>1, <2>1, LoadKeeps DEF Launch
<1>2. CASE Reconnect
  BY <1>2, LoadKeeps DEF Reconnect
<1>3. CASE Create
  BY <1>3, InsertKeeps, SeedKeeps, IdKeeps DEF Create
<1>4. CASE Device \/ StoreFails
  BY <1>4, DeviceKeeps
<1>5. CASE UNCHANGED vars
  BY <1>5, StutterKeeps
<1> QED BY <1>1, <1>2, <1>3, <1>4, <1>5 DEF Next

LEMMA Inductive == Spec => []IInv
<1>1. Init => IInv BY InitInv
<1>2. IInv /\ [Next]_vars => IInv' BY NextKeeps
<1> QED BY <1>1, <1>2, PTL DEF Spec

-----------------------------------------------------------------------------
(* Theorems *)

\* Every variable of WalletCoordinator's storage model keeps to its type.
THEOREM TypeCorrect == Spec => []TypeOK
BY Inductive, PTL DEF IInv

\* Wherever createWallet is cut off, the keychain names a wallet whose record and seed
\* were stored before, but for dropped errors and new installations.
THEOREM NamedAreStored == Spec => []NamedIsStored
BY Inductive, PTL DEF IInv

\* setupWallet's fatalError is reached after a new installation or a failed fetch only.
THEOREM DeathsAreExplained == Spec => []DiesOnlyIf
BY Inductive, PTL DEF IInv

\* CreateWalletView comes back, once a wallet was shown, through keychain errors only.
THEOREM AsksAgainAreExplained == Spec => []AsksAgainOnlyIf
BY Inductive, PTL DEF IInv

\* A current wallet without assets is the work of a seed not written or not read.
THEOREM EmptyAreExplained == Spec => []EmptyOnlyIf
BY Inductive, PTL DEF IInv

\* createWallet replaces the id in the keychain only when it could not be read.
THEOREM TheWalletIsKept == Spec => KeepsTheWallet
<1> DEFINE Kept == keyId # NoWallet /\ keyId' \notin {keyId, NoWallet} => Had({"read"})
<1>1. IInv /\ [Next]_vars => [Kept]_vars
  <2> SUFFICES ASSUME IInv, Next PROVE Kept
    OBVIOUS
  <2>1. CASE SaveId
    <3>1. phase = "running" /\ current = NoWallet
      BY <2>1 DEF IInv, Creating, SaveId
    <3> QED BY <3>1 DEF IInv, NamedIsCurrent
  <2>2. CASE Load BY <2>2 DEF Load, keychain
  <2>3. CASE StoreFails BY <2>3 DEF StoreFails, keychain
  <2>4. CASE (\E w \in Wallets : InsertWallet(w)) \/ SaveSeed
    BY <2>4 DEF InsertWallet, SaveSeed, keychain
  <2>5. CASE Device
    BY <2>5 DEF Device, Kill, RemovePasscode, SetPasscode, Reinstall, keychain
  <2> QED BY <2>1, <2>2, <2>3, <2>4, <2>5 DEF Next, Launch, Reconnect, Create
<1> QED BY <1>1, Inductive, PTL DEF Spec, KeepsTheWallet
================================================================================
