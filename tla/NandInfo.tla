------------------------------ MODULE NandInfo ------------------------------
(***************************************************************************)
(* The identity of the device: the constructor of RjcoreService reads the  *)
(* serial number, product type, hardware version and product id from       *)
(* /proc/sn.info (getNandStoreInfo, readNand: RjcoreService.cpp); the      *)
(* getters return them and the LED and wake-on-LAN calls are gated by the  *)
(* product type (RjcoreServiceProduct.cpp).                                *)
(*                                                                         *)
(* Every field is read into the same buffer res, over its own length byte, *)
(* and a field becomes visible as soon as it is read, also when a later    *)
(* one fails.  Bytes are numbers, 0 is NUL, strings are sequences of bytes *)
(* without it.  The offsets are parameters, so that small ones can be      *)
(* checked; the code's are 32, 48 and 58.                                  *)
(***************************************************************************)
EXTENDS Integers, Sequences

CONSTANTS
    Nands,              \* the contents of /proc/sn.info considered
    BYTE,               \* values of a char (256)
    LONG,               \* values of an unsigned long
    SizeOfRes,          \* sizeof(res)
    PRODUCT_TYPE_OFF, HARDWARE_VERSION_OFF, PRODUCT_ID_OFF,
    Rain200S,           \* the product type that has LEDs
    NoPowerTypes        \* Rain100, Rain100s, Rain100S

SERIAL_NUMBER_LEN == 2
PRODUCT_ID_LEN    == 4

INT == BYTE * BYTE * BYTE * BYTE   \* values of an int: PRODUCT_ID_LEN chars

ASSUME WordsAssumption == BYTE \in Nat \ {0} /\ LONG \in {INT, INT * INT}
ASSUME NandsAssumption == Nands \subseteq Seq(0 .. BYTE - 1)
(* Neither a length byte nor the id exceeds the buffer.                    *)
ASSUME SizeAssumption ==
    SizeOfRes \in Nat /\ SizeOfRes >= BYTE /\ SizeOfRes >= PRODUCT_ID_LEN
ASSUME OffsetsAssumption ==
    PRODUCT_TYPE_OFF \in Nat /\ HARDWARE_VERSION_OFF \in Nat /\ PRODUCT_ID_OFF \in Nat
ASSUME TypesAssumption == Rain200S # <<>>

VARIABLES
    step,               \* "open", "serial", "type", "hw", "id", "ready"
    nand,               \* the file
    file,               \* "open" or "closed"
    res,                \* the buffer
    mSerialNum, mProductType, mHardwareVersion, mProductId,
    mInit,
    power, led,         \* the board: wake-on-LAN mode, state of each LED
    answer              \* the last answer of a getter

fields   == <<mSerialNum, mProductType, mHardwareVersion, mProductId>>
board    == <<power, led>>
infoVars == <<step, nand, file, res, fields, mInit, board, answer>>

Empty   == <<>>         \* String16("")
NoId    == 0 - 1        \* mProductId while it is String16("")
Zeroed  == [i \in 1 .. SizeOfRes |-> 0]
Unknown == 0 - 1        \* an error answer

-----------------------------------------------------------------------------
(* fread of len bytes at off: what the file has of them.                   *)
Bytes(off, len) ==
    LET end == IF off + len <= Len(nand) THEN off + len ELSE Len(nand)
    IN  SubSeq(nand, off + 1, end)

Overwrite(buf, bytes) ==
    [i \in DOMAIN buf |-> IF i <= Len(bytes) THEN bytes[i] ELSE buf[i]]

(* String16(res): up to the first NUL.                                     *)
CString(buf) ==
    LET end == CHOOSE i \in DOMAIN buf : buf[i] = 0 /\ \A j \in 1 .. i - 1 : buf[j] # 0
    IN  SubSeq(buf, 1, end - 1)

(* readNand(file, off, len, res, lengthInNand): whether it succeeds, and   *)
(* the buffer.  With lengthInNand the first byte read is the length of the *)
(* string that follows, and the string is read over it.                    *)
ReadNand(off, len, lengthInNand) ==
    LET head == Bytes(off, len)
        res1 == Overwrite(res, head)
        body == Bytes(off + len, res1[1])
    IN  IF Len(head) # len THEN [ok |-> FALSE, buf |-> res1]
        ELSE IF ~lengthInNand THEN [ok |-> TRUE, buf |-> res1]
        ELSE [ok |-> Len(body) = res1[1], buf |-> Overwrite(res1, body)]

(* product_id |= res[i] << (32 - 8 * (i + 1)), i = 0 .. 3, in an int; when *)
(* it is added to a longer unsigned long it is sign-extended.              *)
ProductId(buf) ==
    LET n == buf[1] * (BYTE * BYTE * BYTE) + buf[2] * (BYTE * BYTE) + buf[3] * BYTE + buf[4]
    IN  IF 2 * n < INT THEN n ELSE n + (LONG - INT)

-----------------------------------------------------------------------------
InfoInit ==
    /\ step = "open" /\ file = "closed"
    /\ nand \in Nands
    /\ res = Zeroed
    /\ mSerialNum = Empty /\ mProductType = Empty /\ mHardwareVersion = Empty
    /\ mProductId = NoId
    /\ mInit = "no"
    /\ power \in {0, 1} /\ led \in [0 .. 2 -> {0, 1}]
    /\ answer = Empty

(* fopen(INFO_PATH, "r+"); without the file, init() has failed.            *)
FOpen ==
    /\ step = "open"
    /\ \/ step' = "serial" /\ file' = "open"
       \/ step' = "ready" /\ UNCHANGED file
    /\ UNCHANGED <<nand, res, fields, mInit, board, answer>>

(* A read has failed: fclose, and init() returns -1.                       *)
GiveUp == step' = "ready" /\ file' = "closed" /\ UNCHANGED <<res, fields, mInit>>

(* The field is saved and the buffer cleared for the next one.             *)
SavedKeepsRes(buf, next) == step' = next /\ res' = buf /\ UNCHANGED <<file, mInit>>   \* mutant
Saved(buf, next) == step' = next /\ res' = Zeroed /\ UNCHANGED <<file, mInit>>

ReadSerial ==
    /\ step = "serial"
    /\ LET r == ReadNand(0, SERIAL_NUMBER_LEN, TRUE)
       IN  \/ GiveUp       \* fseek or fread fails
           \/ /\ r.ok /\ Saved(r.buf, "type")
              /\ mSerialNum' = CString(r.buf)
              /\ UNCHANGED <<mProductType, mHardwareVersion, mProductId>>
    /\ UNCHANGED <<nand, board, answer>>

ReadType ==
    /\ step = "type"
    /\ LET r == ReadNand(PRODUCT_TYPE_OFF, 1, TRUE)
       IN  \/ GiveUp
           \/ /\ r.ok /\ Saved(r.buf, "hw")
              /\ mProductType' = CString(r.buf)
              /\ UNCHANGED <<mSerialNum, mHardwareVersion, mProductId>>
    /\ UNCHANGED <<nand, board, answer>>

ReadHardware ==
    /\ step = "hw"
    /\ LET r == ReadNand(HARDWARE_VERSION_OFF, 1, TRUE)
       IN  \/ GiveUp
           \/ /\ r.ok /\ Saved(r.buf, "id")
              /\ mHardwareVersion' = CString(r.buf)
              /\ UNCHANGED <<mSerialNum, mProductType, mProductId>>
    /\ UNCHANGED <<nand, board, answer>>

(* The last field; getNandStoreInfo returns true and init sets mInit.      *)
ReadId ==
    /\ step = "id"
    /\ LET r == ReadNand(PRODUCT_ID_OFF, PRODUCT_ID_LEN, FALSE)
       IN  \/ GiveUp
           \/ /\ r.ok
              /\ step' = "ready" /\ file' = "closed" /\ mInit' = "yes"
              /\ mProductId' = ProductId(r.buf)
              /\ res' = r.buf
              /\ UNCHANGED <<mSerialNum, mProductType, mHardwareVersion>>
    /\ UNCHANGED <<nand, board, answer>>

-----------------------------------------------------------------------------
(* The calls: the service serves once it is constructed.                   *)
Calls == step = "ready" /\ UNCHANGED <<step, nand, file, res, fields, mInit>>

CheckedUnchecked(value) == value   \* mutant: CHECK_INIT is missing

(* CHECK_INIT(mInit) *)
Checked(value) == IF mInit = "yes" THEN value ELSE Empty

GetString == Calls /\ UNCHANGED board
    /\ answer' \in {Checked(mSerialNum), Checked(mProductType), Checked(mHardwareVersion)}
GetProductId == Calls /\ UNCHANGED board
    /\ answer' = Checked(<<mProductId>>)

HasPower == mProductType \notin NoPowerTypes \cup {Empty}
HasLedsUnlessRain100 == HasPower   \* mutant: the wrong gate
HasLeds  == mProductType = Rain200S

(* "beginmode s": the command is run and does its work, or fails.          *)
SetPowerState(s) ==
    /\ Calls /\ UNCHANGED <<led, answer>>
    /\ \/ s \in {0, 1} /\ HasPower /\ power' = s
       \/ UNCHANGED power

GetPowerState ==
    /\ Calls /\ UNCHANGED board
    /\ answer' \in IF HasPower THEN {<<power>>, <<Unknown>>} ELSE {<<0>>}

SetLedStatus(c, s) ==
    /\ Calls /\ UNCHANGED <<power, answer>>
    /\ \/ /\ c \in 0 .. 2 /\ s \in {0, 1} /\ HasLeds
          /\ led' = [led EXCEPT ![c] = s]
       \/ UNCHANGED led

GetLedStatus(c) ==
    /\ Calls /\ UNCHANGED board
    /\ answer' \in IF c \in 0 .. 2 /\ HasLeds THEN {<<led[c]>>, <<Unknown>>}
                                              ELSE {<<Unknown>>}

InfoNext ==
    \/ FOpen \/ ReadSerial \/ ReadType \/ ReadHardware \/ ReadId
    \/ GetString \/ GetProductId \/ GetPowerState
    \/ \E s \in -1 .. 2 :
          SetPowerState(s) \/ \E c \in -1 .. 3 : SetLedStatus(c, s) \/ GetLedStatus(c)

InfoSpec == InfoInit /\ [][InfoNext]_infoVars

-----------------------------------------------------------------------------
(* What the file says: the string stored behind a header of h bytes whose  *)
(* first one is its length, and the id, most significant byte first.       *)
UntilNul(s) ==
    IF \E i \in DOMAIN s : s[i] = 0
    THEN SubSeq(s, 1, (CHOOSE i \in DOMAIN s : s[i] = 0
                            /\ \A j \in 1 .. i - 1 : s[j] # 0) - 1)
    ELSE s

StoredString(off, h) ==
    UntilNul(SubSeq(nand, off + h + 1, off + h + nand[off + 1]))

StoredId ==
    LET b(i) == nand[PRODUCT_ID_OFF + i]
    IN  ((b(1) * BYTE + b(2)) * BYTE + b(3)) * BYTE + b(4)

(* Once the service is initialised its four fields are what the file       *)
(* holds: reading one into the buffer the others use, over its own length, *)
(* leaves nothing of them behind.  The serial number's header has a second *)
(* byte, which a serial number of one character does not overwrite: it     *)
(* must then be 0.                                                         *)
FieldsAsStored ==
    mInit = "yes" =>
        /\ nand[1] # 1 \/ nand[2] = 0 => mSerialNum = StoredString(0, SERIAL_NUMBER_LEN)
        /\ mProductType = StoredString(PRODUCT_TYPE_OFF, 1)
        /\ mHardwareVersion = StoredString(HARDWARE_VERSION_OFF, 1)
        /\ mProductId = StoredId

(* The LEDs and the wake-on-LAN mode are only ever changed on a board      *)
(* whose file says it has them: no failed or partial reading of the file   *)
(* opens the gate.                                                         *)
BoardGuarded ==
    [][ /\ led' # led => StoredString(PRODUCT_TYPE_OFF, 1) = Rain200S
        /\ power' # power =>
              StoredString(PRODUCT_TYPE_OFF, 1) \notin NoPowerTypes \cup {Empty} ]_infoVars

(* While the fields are not all known, no getter gives any of them away:   *)
(* a caller never sees a serial number without the product id.             *)
AllOrNothing ==
    [][ (GetString \/ GetProductId) /\ answer' # Empty => mProductId # NoId ]_infoVars
=============================================================================
