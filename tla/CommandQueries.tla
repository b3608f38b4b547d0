--------------------------- MODULE CommandQueries ---------------------------
(***************************************************************************)
(* The queries of RjcoreService: methods that keep nothing and answer from *)
(* the output of a command (through executeCmd), from a system property,   *)
(* from the file lcdinfo.ini or from statfs.  One call is modelled,        *)
(* composed with the executeCmd of ExecuteCmd and the child it starts;     *)
(* checkIpConflict_block goes through executeCmd twice.                    *)
(*                                                                         *)
(* A letter stands for a word of a command's output; Yes, Flag, Success    *)
(* and Rates are the words the code looks for, and Number is what atoi     *)
(* makes of a word.  Every answer is a sequence: the string, or the one Boolean, *)
(* or the number and the unit, or for each mode whether it is listed.      *)
(***************************************************************************)
EXTENDS ExecuteCmd, SequencesExt

CONSTANTS
    Yes,      \* "yes", at the head of ethtool's "Link detected"
    Flag,     \* "updateFlag=", which the line of config.ini begins with
    Success,  \* the value UPDATE_SUCCESS of updateFlag
    Rates,    \* "1000baseT/Full", "100baseT/Full", ..., the best first
    Number,   \* the number atoi reads in a word
    Upper,    \* toupper
    Values,   \* the values of system properties; <<>> is an unset one
    Bytes,    \* the bytes lcdinfo.ini may hold
    Sizes,    \* f_blocks * f_bsize of /data, not zero
    SIZE_1K   \* the factor between two units of memory

ASSUME WordsAssumption  == Letter \cap {NUL, NL} = {} /\ Success \in Letter
ASSUME RatesAssumption  == /\ Rates \in Seq(Letter)
                           /\ \A i, j \in 1 .. Len(Rates) :
                                 Rates[i] = Rates[j] => i = j
ASSUME NumberAssumption == Number \in [BoundedSeq(Letter, SIZE - 1) -> Nat]
ASSUME ValuesAssumption == Values \subseteq Seq(Letter \cup {NL})
ASSUME BytesAssumption  == Bytes \subseteq 0 .. 255
ASSUME SizesAssumption  == Sizes \subseteq Nat \ {0} /\ SIZE_1K \in Nat \ {0, 1}

VARIABLES
    query,    \* the method called
    valid,    \* its arguments pass the checks of the method
    phase,    \* "check", "link", "run" or "answered"
    input,    \* what it read besides the command's output
    answer

queryVars == <<query, valid, phase, input, answer>>
allVars   == <<vars, queryVars>>

Trimmed  == {"getNetcardCurSpeed", "getCurrentResolution_block",
             "checkIpConflict_block", "ping_block"}
Commands == Trimmed \cup {"getProcessId", "isProcessRunning", "getNetcardState",
             "getNetcardMaxSpeed", "getOtaResult", "getCpuInfo", "getMemoryInfo"}
Getprops == {"getAndroidVersion", "getSystemVersion", "getBaseboardInfo",
             "getProductName", "getPropertyValue"}
Queries  == Commands \cup Getprops \cup {"getSupportResolution", "getStorageInfo"}

(* The methods that look at their arguments first.                         *)
Checks == {"checkIpConflict_block", "ping_block", "getPropertyValue"}

QueryInit ==
    /\ Init
    /\ query \in Queries
    /\ query \notin Commands => output = <<>>
    /\ valid \in IF query \in Checks THEN BOOLEAN ELSE {TRUE}
    /\ phase = "check"
    /\ input = <<>>
    /\ answer = <<>>

Answered(a) == phase' = "answered" /\ answer' = a

-----------------------------------------------------------------------------
(* check_ipaddr, the ranges of ping_block, the size of the key.            *)
RefuseArguments ==
    /\ phase = "check" /\ ~valid
    /\ Answered(<<>>)
    /\ UNCHANGED <<vars, query, valid, input>>

Start ==
    /\ phase = "check" /\ valid
    /\ query \in Commands
    /\ phase' = IF query = "checkIpConflict_block" THEN "link" ELSE "run"
    /\ UNCHANGED <<vars, query, valid, input, answer>>

(* executeCmd.                                                             *)
InExecuteCmd == phase \in {"link", "run"}

Caller == InExecuteCmd /\ Parent /\ UNCHANGED queryVars
Shell  == InExecuteCmd /\ Child  /\ UNCHANGED queryVars

(* The string in the buffer.                                               *)
Text == [i \in 1 .. StrLen(result, 0) |-> result[i - 1]]

(* getNetcardState: the output starts with yes.                            *)
LinkUp == Text # <<>> /\ Text[1] = Yes

(* A further executeCmd, into the buffer given.                            *)
NewCommand ==
    /\ pc' = "popen" /\ n' = 0 /\ output' \in Outputs
    /\ wrote' = 0 /\ read' = 0 /\ readOpen' = FALSE /\ child' = "none"

RestartDirty == NewCommand /\ UNCHANGED <<result, pBuf, size>>  \* mutant: the same buffer

Restart ==
    /\ NewCommand
    /\ result' = [i \in 0 .. SIZE-1 |-> NUL] /\ pBuf' = 0 /\ size' = SIZE

(* checkIpConflict_block: no link, no second command.                      *)
LinkChecked ==
    /\ phase = "link" /\ pc = "done"
    /\ IF LinkUp
       THEN phase' = "run" /\ input' = <<Yes>> /\ Restart /\ UNCHANGED answer
       ELSE Answered(<<>>) /\ UNCHANGED <<vars, input>>
    /\ UNCHANGED <<query, valid>>

-----------------------------------------------------------------------------
Trim(s) == IF Last(s) = NL THEN Front(s) ELSE s

(* The word that the %s of sscanf("updateFlag=%s") and atoi read: white    *)
(* space before it is skipped.                                             *)
FirstWord(s) ==
    LET first == Min({i \in 1 .. Len(s) : s[i] # NL} \cup {Len(s) + 1})
        end   == Min({i \in first .. Len(s) : s[i] = NL} \cup {Len(s) + 1})
    IN  SubSeq(s, first, end - 1)

(* sscanf fails on a buffer that does not begin with updateFlag=.          *)
OtaResult(s) == s # <<>> /\ Head(s) = Flag /\ FirstWord(Tail(s)) = <<Success>>

PidsPrinted(s) == s # <<>>

(* The first word of Rates that strstr finds.                              *)
MaxSpeed(s) ==
    LET found == {i \in 1 .. Len(Rates) : Contains(s, Rates[i])}
    IN  IF found = {} THEN <<>> ELSE <<Rates[Min(found)]>>

Atoi(s) == Number[FirstWord(s)]

Scale(m) == IF m[1] > SIZE_1K THEN <<m[1] \div SIZE_1K, m[2] + 1>> ELSE m

MemoryInfo(s) == Scale(Scale(<<Atoi(s), 0>>))

ToUpper(s) == [i \in 1 .. Len(s) |-> Upper[s[i]]]

(* getCpuInfo: the newline becomes a space, the product name is appended.  *)
CpuInfo(s, name) ==
    IF name = <<>> THEN <<>>
    ELSE Trim(s) \o (IF Last(s) = NL THEN <<"SPACE">> ELSE <<>>)
            \o ToUpper(name) \o <<"SUFFIX">>

(* What each method makes of the buffer and of the property.               *)
AnswerTo(s, name) ==
    CASE query = "isProcessRunning" -> <<PidsPrinted(s)>>
      [] query = "getNetcardState" -> <<LinkUp>>
      [] query = "getOtaResult" -> <<OtaResult(s)>>
      [] query = "getNetcardMaxSpeed" -> MaxSpeed(s)
      [] query = "getProcessId" -> s
      [] query \in Trimmed -> IF s = <<>> THEN s ELSE Trim(s)
      [] query = "getMemoryInfo" -> IF s = <<>> THEN s ELSE MemoryInfo(s)
      [] query = "getCpuInfo" -> IF s = <<>> THEN s ELSE CpuInfo(s, name)

Reply ==
    /\ phase = "run" /\ pc = "done"
    /\ input' \in IF query = "getCpuInfo" /\ Text # <<>> THEN Values ELSE {input}
    /\ Answered(AnswerTo(Text, input'))
    /\ UNCHANGED <<vars, query, valid>>

(* property_get *)
ReadProperty ==
    /\ phase = "check" /\ valid
    /\ query \in Getprops
    /\ input' \in Values
    /\ Answered(IF query = "getProductName" THEN ToUpper(input') ELSE input')
    /\ UNCHANGED <<vars, query, valid>>

(* getSupportResolution: the file may be missing or short.  A char is      *)
(* unsigned on ARM; elsewhere buf[0] above 127 would be sign-extended.     *)
MAX_RESOLUTION_SUPPORT == 10

SupportIndex(b0, b1) == (b1 * 256 + b0) % 1024

Bit(b, i) == (b \div 2^i) % 2 = 1

Modes(index) == [i \in 1 .. MAX_RESOLUTION_SUPPORT - 1 |-> Bit(index, i)]

ReadSupport ==
    /\ phase = "check"
    /\ query = "getSupportResolution"
    /\ \/ Answered(<<>>) /\ UNCHANGED input
       \/ \E b0, b1 \in Bytes :
             /\ input' = <<b0, b1>>
             /\ Answered(Modes(SupportIndex(b0, b1)))
    /\ UNCHANGED <<vars, query, valid>>

(* printf's %.1Lf of x / u, in tenths; the division is by a power of two   *)
(* and exact, and a half is rounded to even.                               *)
Tenths(x, u) ==
    LET q == (10 * x) \div u
        r == 2 * ((10 * x) % u)
    IN  IF r < u \/ (r = u /\ q % 2 = 0) THEN q ELSE q + 1

SIZE_1M == SIZE_1K * SIZE_1K
SIZE_1G == SIZE_1M * SIZE_1K

(* getStorageSize: the unit is taken before rounding.                      *)
StorageSize(b) ==
    IF b > SIZE_1G THEN <<Tenths(b, SIZE_1G), 2>>
    ELSE IF b > SIZE_1M THEN <<Tenths(b, SIZE_1M), 1>>
    ELSE <<Tenths(b, SIZE_1K), 0>>

(* getStorageInfo: 0.0K when statfs fails or says no blocks.               *)
ReadStorage ==
    /\ phase = "check"
    /\ query = "getStorageInfo"
    /\ \/ Answered(<<0, 0>>) /\ UNCHANGED input
       \/ \E b \in Sizes : input' = <<b>> /\ Answered(StorageSize(b))
    /\ UNCHANGED <<vars, query, valid>>

QueryNext == \/ RefuseArguments \/ Start \/ Caller \/ Shell \/ LinkChecked
             \/ Reply \/ ReadProperty \/ ReadSupport \/ ReadStorage

(* The thread of the caller is scheduled, and so is the command, which is  *)
(* taken to be one that ends when its output is out.                       *)
QuerySpec ==
    /\ QueryInit /\ [][QueryNext]_allVars
    /\ WF_allVars(RefuseArguments \/ Start \/ Caller \/ LinkChecked
                    \/ Reply \/ ReadProperty \/ ReadSupport \/ ReadStorage)
    /\ WF_allVars(Shell)

-----------------------------------------------------------------------------
(* The output of the last command as far as the buffer goes; <<>> when it  *)
(* was not started.                                                        *)
Seen == IF child = "none" THEN <<>>
        ELSE SubSeq(output, 1, Min({Len(output), SIZE - 1}))

Lines(s) == Cardinality({i \in 1 .. Len(s) : s[i] = NL})

StringAsWritten ==
    /\ query \in Trimmed =>
          /\ answer = Seen \/ answer \o <<NL>> = Seen
          /\ Seen # <<>> /\ Last(Seen) = NL => Lines(answer) = Lines(Seen) - 1
    /\ query = "getProcessId" => answer = Seen
    /\ query = "getCpuInfo" =>
          /\ answer # <<>> <=> Seen # <<>> /\ input # <<>>
          /\ answer # <<>> => Len(answer) = Len(Seen) + Len(input) + 1

WordFound ==
    /\ query = "isProcessRunning" => answer[1] = (Seen # <<>>)
    /\ query = "getNetcardState" => answer[1] = IsPrefix(<<Yes>>, Seen)
    /\ query = "getOtaResult" => answer[1] =
          (\E i \in 2 .. Len(Seen) :
              /\ Seen[1] = Flag /\ Seen[i] = Success
              /\ \A j \in 2 .. i - 1 : Seen[j] = NL
              /\ i < Len(Seen) => Seen[i + 1] = NL)

BestSpeed ==
    query = "getNetcardMaxSpeed" =>
        \A i \in 1 .. Len(Rates) :
            answer = <<Rates[i]>> <=>
                /\ Rates[i] \in Range(Seen)
                /\ \A j \in 1 .. i - 1 : Rates[j] \notin Range(Seen)

RoundedDown ==
    query = "getMemoryInfo" /\ Seen # <<>> =>
        LET unit == <<1, SIZE_1K, SIZE_1M>>[answer[2] + 1]
        IN  /\ answer[1] * unit <= Atoi(Seen)
            /\ Atoi(Seen) < (answer[1] + 1) * unit
            /\ answer[1] <= SIZE_1K \/ answer[2] = 2

Rounded ==
    query = "getStorageInfo" /\ input # <<>> =>
        LET unit  == <<SIZE_1K, SIZE_1M, SIZE_1G>>[answer[2] + 1]
            twice == 2 * (answer[1] * unit - 10 * input[1])
        IN  /\ -unit <= twice /\ twice <= unit
            /\ answer[1] <= 10 * SIZE_1K \/ answer[2] = 2
            /\ answer[1] >= 10 \/ answer[2] = 0

ModesAsStored ==
    query = "getSupportResolution" /\ input # <<>> =>
        /\ \A i \in 1 .. 7 : answer[i] = Bit(input[1], i)
        /\ \A i \in 8 .. 9 : answer[i] = Bit(input[2], i - 8)

(* The last command of the query has been run.                             *)
Finished ==
    /\ query \in Commands /\ valid
    /\ query = "checkIpConflict_block" => input = <<Yes>>

(* A query that refuses its arguments, or has no link, starts nothing more *)
(* and answers nothing.  For a command whose output has no zero byte, the  *)
(* part of the last command's output that fits the buffer, and nothing of  *)
(* an earlier command, decides the answer: strings lose one newline at the *)
(* end and keep the others, and a word is found where it stands.           *)
TextAnswer ==
    phase = "answered" =>
        /\ ~valid => answer = <<>> /\ child = "none"
        /\ query = "checkIpConflict_block" /\ input = <<>> => answer = <<>>
        /\ Finished /\ NUL \notin Range(output) =>
              StringAsWritten /\ WordFound

(* What a query answers, against what there was to read: besides the       *)
(* strings and words, the best speed of the list; a size of memory,        *)
(* rounded down and within 1024 if there is a larger unit                  *)
(* (RjcoreServiceProduct.cpp 285-293); the modes listed, the bits 1-9 of   *)
(* the two bytes of lcdinfo.ini, low byte first; and the storage, rounded  *)
(* to a tenth of the largest unit that leaves 1.0 or more.                 *)
QueryAnswer ==
    /\ TextAnswer
    /\ phase = "answered" =>
          /\ Finished /\ NUL \notin Range(output) => BestSpeed /\ RoundedDown
          /\ ModesAsStored /\ Rounded

(* Every query answers, whatever its command writes: one that goes on      *)
(* writing after the buffer is full does not keep pclose waiting, and the  *)
(* second command of checkIpConflict_block is no exception.                *)
QueryReturns == <>(phase = "answered")
=============================================================================
