--------------------------- MODULE RjcoreInterface ---------------------------
(***************************************************************************)
(* The two hand-written halves of the binder interface IRjcoreService      *)
(* (librjcore/IRjcoreService.cpp).  Nothing generates them from one        *)
(* description, so the model keeps them apart as well:                     *)
(*                                                                         *)
(*   Proxy[m]    what BpRjcoreService::m sends - the transaction code, the *)
(*               types it writes - and the type it reads from the reply;   *)
(*   Stub[code]  what that case of BnRjcoreService::onTransact does - the  *)
(*               method it calls, the types it reads, argument by          *)
(*               argument, and the type it writes to the reply.            *)
(*                                                                         *)
(* A reply type is a sequence of length at most one: <<>> for void.        *)
(***************************************************************************)
EXTENDS TLC

String16 == "String16"
Int32    == "Int32"

Sends(code, writes, reads) == [code |-> code, writes |-> writes, reads |-> reads]
Serves(calls, reads, writes) == [calls |-> calls, reads |-> reads, writes |-> writes]

-----------------------------------------------------------------------------
(* class BpRjcoreService                                                   *)

ProductInfoProxy ==
    [ getCpuInfo        |-> Sends("GET_CPU_INFO", <<>>, <<String16>>),
      getAndroidVersion |-> Sends("GET_ANDROID_VERSION", <<>>, <<String16>>),
      getSystemVersion  |-> Sends("GET_SYSTEM_VERSION", <<>>, <<String16>>),
      getSerialNumber   |-> Sends("GET_SERIAL_NUMBER", <<>>, <<String16>>),
      getProductType    |-> Sends("GET_PRODUCT_TYPE", <<>>, <<String16>>),
      getHardwareVesion |-> Sends("GET_HARDWARE_VERSION", <<>>, <<String16>>),
      getProductId      |-> Sends("GET_PRODUCT_ID", <<>>, <<String16>>),
      getProductName    |-> Sends("GET_PRODUCT_NAME", <<>>, <<String16>>),
      getBaseboardInfo  |-> Sends("GET_BASEBOARD_INFO", <<>>, <<String16>>),
      getMemoryInfo     |-> Sends("GET_MEMORY_INFO", <<>>, <<String16>>),
      getStorageInfo    |-> Sends("GET_STORAGE_INFO", <<>>, <<String16>>) ]

ProductControlProxy ==
    [ setPowerState         |-> Sends("SET_POWER_STATE", <<Int32>>, <<>>),
      getPowerState         |-> Sends("GET_POWER_STATE", <<>>, <<Int32>>),
      collectLogFiles_block |-> Sends("COLLECT_LOG_FILES_BLOCK", <<String16>>, <<Int32>>),
      chmodFile             |-> Sends("CHMOD_FILE", <<String16, String16>>, <<Int32>>),
      chmodDir              |-> Sends("CHMOD_DIR", <<String16, String16>>, <<Int32>>),
      rmFile                |-> Sends("RM_FILE", <<String16>>, <<Int32>>),
      reboot                |-> Sends("REBOOT", <<>>, <<>>),
      shutdown              |-> Sends("SHUTDOWN", <<>>, <<>>),
      getLedStatus          |-> Sends("GET_LED_STATUS", <<Int32>>, <<Int32>>),
      setLedStatus          |-> Sends("SET_LED_STATUS", <<Int32, Int32>>, <<>>),
      setDeviceResolution   |-> Sends("SET_DEVICE_RESOLUTION",
                                      <<Int32, Int32, Int32, Int32>>, <<Int32>>),
      getCurrentResolution_block |->
          Sends("GET_CURRENT_RESOLUTION_BLOCK", <<>>, <<String16>>),
      getSupportResolution  |-> Sends("GET_SUPPORT_RESOLUTION", <<>>, <<String16>>),
      getPropertyValue      |-> Sends("GET_PROPERTY_VALUE", <<String16>>, <<String16>>) ]

NetworkProxy ==
    [ getNetcardState    |-> Sends("GET_NETCARD_STATE", <<>>, <<Int32>>),
      getNetcardCurSpeed |-> Sends("GET_NETCARD_CUR_SPEED", <<>>, <<String16>>),
      getNetcardMaxSpeed |-> Sends("GET_NETCARD_MAX_SPEED", <<>>, <<String16>>),
      startAvahi         |-> Sends("START_AVAHI", <<>>, <<>>),
      stopAvahi          |-> Sends("STOP_AVAHI", <<>>, <<>>),
      checkIpConflict_block |->
          Sends("CHECK_IP_CONFLICT_BLOCK", <<String16>>, <<String16>>),
      ping_block |->
          Sends("PING_BLOCK", <<String16, Int32, Int32, Int32>>, <<String16>>),
      checkBandwidth_block |->
          Sends("CHECK_BANDWIDTH_BLOCK", <<String16, String16, String16>>, <<String16>>) ]

ApplicationProxy ==
    [ getOtaResult      |-> Sends("GET_OTA_RESULT", <<>>, <<Int32>>),
      isProcessRunning  |-> Sends("IS_PROCESS_RUNNING", <<String16>>, <<Int32>>),
      getProcessId      |-> Sends("GET_PROCESS_ID", <<String16>>, <<String16>>),
      killByProcessName |-> Sends("KILL_PROCESS_BY_NAME", <<String16>>, <<>>) ]

RjcoreProxy ==
    ProductInfoProxy @@ ProductControlProxy @@ NetworkProxy @@ ApplicationProxy

-----------------------------------------------------------------------------
(* BnRjcoreService::onTransact                                             *)

ProductInfoStub ==
    [ GET_CPU_INFO         |-> Serves("getCpuInfo", <<>>, <<String16>>),
      GET_ANDROID_VERSION  |-> Serves("getAndroidVersion", <<>>, <<String16>>),
      GET_SYSTEM_VERSION   |-> Serves("getSystemVersion", <<>>, <<String16>>),
      GET_SERIAL_NUMBER    |-> Serves("getSerialNumber", <<>>, <<String16>>),
      GET_PRODUCT_TYPE     |-> Serves("getProductType", <<>>, <<String16>>),
      GET_HARDWARE_VERSION |-> Serves("getHardwareVesion", <<>>, <<String16>>),
      GET_PRODUCT_ID       |-> Serves("getProductId", <<>>, <<String16>>),
      GET_PRODUCT_NAME     |-> Serves("getProductName", <<>>, <<String16>>),
      GET_BASEBOARD_INFO   |-> Serves("getBaseboardInfo", <<>>, <<String16>>),
      GET_MEMORY_INFO      |-> Serves("getMemoryInfo", <<>>, <<String16>>),
      GET_STORAGE_INFO     |-> Serves("getStorageInfo", <<>>, <<String16>>) ]

ProductControlStub ==
    [ SET_POWER_STATE         |-> Serves("setPowerState", <<Int32>>, <<>>),
      GET_POWER_STATE         |-> Serves("getPowerState", <<>>, <<Int32>>),
      COLLECT_LOG_FILES_BLOCK |-> Serves("collectLogFiles_block", <<String16>>, <<Int32>>),
      CHMOD_FILE              |-> Serves("chmodFile", <<String16, String16>>, <<Int32>>),
      CHMOD_DIR               |-> Serves("chmodDir", <<String16, String16>>, <<Int32>>),
      RM_FILE                 |-> Serves("rmFile", <<String16>>, <<Int32>>),
      SHUTDOWN                |-> Serves("shutdown", <<>>, <<>>),
      REBOOT                  |-> Serves("reboot", <<>>, <<>>),
      GET_LED_STATUS          |-> Serves("getLedStatus", <<Int32>>, <<Int32>>),
      SET_LED_STATUS          |-> Serves("setLedStatus", <<Int32, Int32>>, <<>>),
      SET_DEVICE_RESOLUTION   |-> Serves("setDeviceResolution",
                                         <<Int32, Int32, Int32, Int32>>, <<Int32>>),
      GET_CURRENT_RESOLUTION_BLOCK |->
          Serves("getCurrentResolution_block", <<>>, <<String16>>),
      GET_SUPPORT_RESOLUTION  |-> Serves("getSupportResolution", <<>>, <<String16>>),
      GET_PROPERTY_VALUE      |-> Serves("getPropertyValue", <<String16>>, <<String16>>) ]

NetworkStub ==
    [ GET_NETCARD_STATE     |-> Serves("getNetcardState", <<>>, <<Int32>>),
      GET_NETCARD_CUR_SPEED |-> Serves("getNetcardCurSpeed", <<>>, <<String16>>),
      GET_NETCARD_MAX_SPEED |-> Serves("getNetcardMaxSpeed", <<>>, <<String16>>),
      START_AVAHI           |-> Serves("startAvahi", <<>>, <<>>),
      STOP_AVAHI            |-> Serves("stopAvahi", <<>>, <<>>),
      CHECK_IP_CONFLICT_BLOCK |->
          Serves("checkIpConflict_block", <<String16>>, <<String16>>),
      PING_BLOCK |->
          Serves("ping_block", <<String16, Int32, Int32, Int32>>, <<String16>>),
      CHECK_BANDWIDTH_BLOCK |->
          Serves("checkBandwidth_block", <<String16, String16, String16>>, <<String16>>) ]

ApplicationStub ==
    [ GET_OTA_RESULT       |-> Serves("getOtaResult", <<>>, <<Int32>>),
      IS_PROCESS_RUNNING   |-> Serves("isProcessRunning", <<String16>>, <<Int32>>),
      GET_PROCESS_ID       |-> Serves("getProcessId", <<String16>>, <<String16>>),
      KILL_PROCESS_BY_NAME |-> Serves("killByProcessName", <<String16>>, <<>>) ]

RjcoreStub ==
    ProductInfoStub @@ ProductControlStub @@ NetworkStub @@ ApplicationStub

(* The mutexes the methods hold for most of their run: Mutex::Autolock on  *)
(* sLockLog and sNetLock.                                                  *)
RjcoreMutex ==
    [ collectLogFiles_block |-> "sLockLog", checkBandwidth_block |-> "sNetLock" ]

(* checkBandwidth_block locks first and then looks at its arguments.       *)
RjcoreChecksFirst == {"collectLogFiles_block"}

-----------------------------------------------------------------------------
(* What @@ of module TLC does, written out: the provers cannot expand it.  *)
Joined(f, g) ==
    [x \in DOMAIN f \cup DOMAIN g |-> IF x \in DOMAIN f THEN f[x] ELSE g[x]]

(* A closed fact, without parameters, that TLC evaluates on every run.     *)
ASSUME TablesAssumption ==
    /\ RjcoreProxy =
          Joined(ProductInfoProxy,
                 Joined(ProductControlProxy, Joined(NetworkProxy, ApplicationProxy)))
    /\ RjcoreStub =
          Joined(ProductInfoStub,
                 Joined(ProductControlStub, Joined(NetworkStub, ApplicationStub)))
=============================================================================
