\* The objects of the library and one of the application's.
SPECIFICATION Spec
CONSTANTS
    Classes = {"Device", "Firmware", "Security", "Bootstrap", "Server", "InterfaceServer", "Instance"}
    Names = {"Manufacturer", "Timezone", "BatteryStatus", "ErrorCode", "FactoryReset", "PowerSourceVoltage", "State", "UpdateSupportedObjects", "PackageUri", "PackageName", "SecurityMode", "M2MServerUri", "ClientHoldOffTime", "ShortServerID", "DefaultMinPeriod", "Disable"}
    Numbers = {2, 9}
    Words = {1, 256}
    TooLong = 256
    Sample = 256
    InstanceIds = {0, 256}
    Payloads <- OneOrTwo
INVARIANTS
    TypeOK
    RefusedChangesNothing
    AcceptedIsApplied
    SerialisedIsRestored
    HeadersAreRestored
    MandatoryStay
    UpdateIsExecutable
CHECK_DEADLOCK FALSE
