CONSTANTS
    Nands <- MCNands
    BYTE = 4
    LONG = 256
    SizeOfRes = 5
    PRODUCT_TYPE_OFF = 4
    HARDWARE_VERSION_OFF = 7
    PRODUCT_ID_OFF = 10
    Rain200S <- Rain
    NoPowerTypes <- Rain100
SPECIFICATION InfoSpec
INVARIANTS
    FieldsAsStored
PROPERTIES
    BoardGuarded
    AllOrNothing
