CONSTANTS
    w1 = w1
    w2 = w2
    w3 = w3
    NoWallet = NoWallet
    Wallets <- ThreeWallets
SPECIFICATION Spec
SYMMETRY WalletSymmetry
INVARIANTS
    TypeOK
    NamedIsStored
    DiesOnlyIf
    AsksAgainOnlyIf
    EmptyOnlyIf
PROPERTY KeepsTheWallet
