CONSTANTS
    Boards = {"none", "unknown", "QLA", "DQLA"}
    Named = {"QLA", "DQLA"}
    OtherBits = {0, 1}
    IdByte <- MCIdByte
SPECIFICATION Spec
INVARIANTS
    BootDelivers
    RightFirmware
PROPERTIES
    QeKept
