SPECIFICATION Spec
CONSTANTS
    Workers = {w1, w2}
    User = {u1, u2}
    WeaponType <- Asked
    Weapon <- Guns
    Price <- GunPrice
    MagazineSize <- GunMagazine
    InitialBalance = 800
    NoJob = NoJob
    Replies = {"ok", "null"}
    MaxGranted = 800
SYMMETRY Anyone
INVARIANTS
    TypeOK
    ChargedIsGranted
    HalfDoneOnce
    SuccessIsStored
