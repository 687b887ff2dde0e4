SPECIFICATION Spec
CONSTANTS
    rchunk = 2
    wchunk = 4
    Modes = {"spi", "i2c", "mw"}
    Writes = {1, 4, 5}
    Reads = {1, 2, 3}
    I2CWrites = {4}
    MaxStalls = 1
    MaxDirty = 1
INVARIANTS
    BusSawTheCall
CHECK_DEADLOCK FALSE
