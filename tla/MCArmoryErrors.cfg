SPECIFICATION Spec
CONSTANTS
    Workers = {w1, w2}
    User = {u1}
    WeaponType <- Asked
    Weapon <- Guns
    Price <- GunPrice
    MagazineSize <- GunMagazine
    InitialBalance = 800
    NoJob = NoJob
    Replies = {"ok", "error"}
    MaxGranted = 800
INVARIANT SuccessIsStored
