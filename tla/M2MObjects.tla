----------------------------- MODULE M2MObjects -----------------------------
(***************************************************************************)
(* What the resources of an object hold, and everything that writes them:  *)
(* the application through M2MDevice, M2MFirmware, M2MSecurity and         *)
(* M2MServer or through an M2MObjectInstance of its own, and servers by    *)
(* PUT and POST. Translated from source/m2mdevice.cpp, m2mfirmware.cpp,    *)
(* m2msecurity.cpp, m2mserver.cpp, m2mobjectinstance.cpp, m2mresource.cpp, *)
(* m2mresourcebase.cpp and the bootstrap half of m2mnsdlinterface.cpp.     *)
(*                                                                         *)
(* A behaviour is about one object with one instance; its class is chosen  *)
(* first. Resources go by the names of the enumerations of the classes; a  *)
(* table per class gives their ids. A string is a number too, TooLong one  *)
(* that exceeds the limits on its length.                                  *)
(***************************************************************************)
EXTENDS M2MTLV, Functions

CONSTANTS
    Classes,      \* the classes considered
    Names,        \* the resources the application uses
    Numbers,      \* the integers it sets
    Words,        \* the strings it sets
    TooLong,      \* a string that is too long
    Sample,       \* the value it gives to a resource of an instance of its own
    InstanceIds,  \* the resource instances it uses
    Payloads      \* the records servers send

ObjectClasses ==
    {"Device", "Firmware", "Security", "Bootstrap", "Server", "InterfaceServer", "Instance"}

ASSUME ObjectsAssumption ==
    /\ Classes \subseteq ObjectClasses
    /\ Numbers \subseteq Int
    /\ Words \subseteq Int
    /\ Sample \in Int
    /\ InstanceIds \subseteq Identifiers
    /\ Payloads \subseteq Seq(Records) \ {<<>>}

VARIABLES class, contents

vars == <<class, contents>>

Strings == {NoValue} \cup {Text(w) : w \in Words}
GET == {"GET"}
GET_PUT == {"GET", "PUT"}
GET_PUT_POST == {"GET", "PUT", "POST"}

-----------------------------------------------------------------------------
(* The contents of an object instance.                                     *)

Has(slot) == slot \in DOMAIN contents

\* create_dynamic_resource(), create_static_resource() of M2MObjectInstance.
Add(id, leaf) == With(contents, <<id>>, leaf)

\* create_dynamic_resource_instance() makes the resource if there is none.
AddInstance(id, k, leaf) ==
    With(IF Has(<<id>>) THEN contents ELSE Add(id, MultipleResource(leaf.type)),
         <<id, k>>, leaf)

SetValue(slot, value) == [contents EXCEPT ![slot].value = value]

\* Mutant: the instances of the resource stay.
RemoveResource_KeepsInstances(id) == Restrict(contents, DOMAIN contents \ {<<id>>})

\* remove_resource(), with the instances of the resource.
RemoveResource(id) == Restrict(contents, {slot \in DOMAIN contents : slot[1] # id})

\* remove_resource_instance() takes the resource away with its last instance.
RemoveResourceInstance(id, k) ==
    IF InstancesOf(contents, id) = {<<id, k>>} THEN RemoveResource(id)
    ELSE Restrict(contents, DOMAIN contents \ {<<id, k>>})

-----------------------------------------------------------------------------
(* M2MDevice.                                                              *)

\* resource_name()
DeviceId ==
    [Manufacturer |-> 0, DeviceType |-> 17, ModelNumber |-> 1, SerialNumber |-> 2,
     HardwareVersion |-> 18, FirmwareVersion |-> 3, SoftwareVersion |-> 19,
     Reboot |-> 4, FactoryReset |-> 5, AvailablePowerSources |-> 6,
     PowerSourceVoltage |-> 7, PowerSourceCurrent |-> 8, BatteryLevel |-> 9,
     BatteryStatus |-> 20, MemoryFree |-> 10, MemoryTotal |-> 21, ErrorCode |-> 11,
     ResetErrorCode |-> 12, CurrentTime |-> 13, UTCOffset |-> 14, Timezone |-> 15,
     SupportedBindingMode |-> 16]

DeviceNames == Names \cap DOMAIN DeviceId
DeviceStrings ==
    {"Manufacturer", "DeviceType", "ModelNumber", "SerialNumber", "HardwareVersion",
     "FirmwareVersion", "SoftwareVersion", "UTCOffset", "Timezone"}
DeviceIntegers == {"BatteryLevel", "BatteryStatus", "MemoryFree", "MemoryTotal", "CurrentTime"}
DeviceMultiples ==
    {"AvailablePowerSources", "PowerSourceVoltage", "PowerSourceCurrent", "ErrorCode"}
DeviceMandatory == {"Reboot", "ErrorCode", "SupportedBindingMode"}

\* The constructor.
DeviceContents ==
    [slot \in {<<DeviceId[n]>> : n \in DeviceMandatory} \cup {<<DeviceId["ErrorCode"], 0>>} |->
        CASE slot = <<DeviceId["Reboot"]>> -> Leaf("OPAQUE", {"POST"}, NoValue)
          [] slot = <<DeviceId["ErrorCode"]>> -> MultipleResource("INTEGER")
          [] slot = <<DeviceId["ErrorCode"], 0>> -> Leaf("INTEGER", GET, Text(0))
          [] slot = <<DeviceId["SupportedBindingMode"]>> -> Leaf("STRING", GET, Text(1))]

\* check_value_range()
DeviceCheckValueRange(n, v) ==
    CASE n = "AvailablePowerSources" -> v \in 0..7
      [] n = "BatteryLevel" -> v \in 0..100
      [] n = "BatteryStatus" -> v \in 0..6
      [] n = "ErrorCode" -> v \in 0..8
      [] OTHER -> TRUE

\* get_resource_instance()
DeviceSlot(n, k) ==
    LET slot == <<DeviceId[n]>>
    IN  IF Has(slot) /\ contents[slot].multiple THEN Append(slot, k) ELSE slot

\* create_resource(resource, const String &)
DeviceCreateString(n, s) ==
    /\ n \in DeviceStrings
    /\ ~Has(DeviceSlot(n, 0))
    /\ s # Text(TooLong)
    /\ contents' = Add(DeviceId[n], Leaf("STRING",
           IF n \in {"UTCOffset", "Timezone"} THEN GET_PUT ELSE GET, s))

\* create_resource(resource, int64_t)
DeviceCreateInteger(n, v) ==
    /\ n \in DeviceIntegers
    /\ ~Has(DeviceSlot(n, 0))
    /\ n \in {"BatteryLevel", "BatteryStatus"} => DeviceCheckValueRange(n, v)
    /\ contents' = Add(DeviceId[n], Leaf("INTEGER",
           IF n = "CurrentTime" THEN GET_PUT ELSE GET, Text(v)))

\* create_resource_instance()
DeviceCreateInstance(n, v, k) ==
    /\ n \in DeviceMultiples
    /\ n \in {"AvailablePowerSources", "ErrorCode"} => DeviceCheckValueRange(n, v)
    /\ ~Has(<<DeviceId[n], k>>)
    /\ contents' = AddInstance(DeviceId[n], k, Leaf("INTEGER", GET, Text(v)))

\* create_resource(resource)
DeviceCreateExecutable(n) ==
    /\ n \in {"FactoryReset", "ResetErrorCode"}
    /\ ~Has(DeviceSlot(n, 0))
    /\ contents' = Add(DeviceId[n], Leaf("OPAQUE", {"POST"}, NoValue))

\* delete_resource()
DeviceDelete(n) ==
    /\ n \notin DeviceMandatory
    /\ Has(<<DeviceId[n]>>)
    /\ contents' = RemoveResource(DeviceId[n])

\* Mutant: the instances of a mandatory resource are forgotten.
DeviceDeleteInstance_Any(n, k) ==
    /\ Has(<<DeviceId[n], k>>)
    /\ contents' = RemoveResourceInstance(DeviceId[n], k)

\* delete_resource_instance()
DeviceDeleteInstance(n, k) ==
    /\ n \notin DeviceMandatory
    /\ Has(<<DeviceId[n], k>>)
    /\ contents' = RemoveResourceInstance(DeviceId[n], k)

\* set_resource_value(resource, const String &): an empty string clears.
DeviceSetString(n, s, k) ==
    /\ n \in DeviceStrings
    /\ Has(DeviceSlot(n, k))
    /\ s # Text(TooLong)
    /\ contents' = SetValue(DeviceSlot(n, k), s)

\* set_resource_value(resource, int64_t)
DeviceSetInteger(n, v, k) ==
    /\ n \in DeviceIntegers \cup DeviceMultiples
    /\ Has(DeviceSlot(n, k))
    /\ DeviceCheckValueRange(n, v)
    /\ contents' = SetValue(DeviceSlot(n, k), Text(v))

\* delete_instance(), and get_instance() after it.
DeviceRenew == contents' = DeviceContents

Device ==
    /\ class = "Device"
    /\ \/ \E n \in DeviceNames, s \in Strings :
              DeviceCreateString(n, s) \/ \E k \in InstanceIds : DeviceSetString(n, s, k)
       \/ \E n \in DeviceNames, v \in Numbers :
              \/ DeviceCreateInteger(n, v)
              \/ \E k \in InstanceIds : DeviceCreateInstance(n, v, k) \/ DeviceSetInteger(n, v, k)
       \/ \E n \in DeviceNames : DeviceCreateExecutable(n) \/ DeviceDelete(n)
       \/ \E n \in DeviceNames, k \in InstanceIds : DeviceDeleteInstance(n, k)
       \/ DeviceRenew
    /\ UNCHANGED class

-----------------------------------------------------------------------------
(* M2MFirmware.                                                            *)

\* resource_name(), get_resource()
FirmwareId ==
    [Package |-> 0, PackageUri |-> 1, Update |-> 2, State |-> 3,
     UpdateSupportedObjects |-> 4, UpdateResult |-> 5, PackageName |-> 6,
     PackageVersion |-> 7]

FirmwareNames == Names \cap DOMAIN FirmwareId
Downloaded == 2

FirmwareSlot(n) == <<FirmwareId[n]>>

\* What the static parameters hold before anything is written to them.
FirmwareParams ==
    [slot \in {FirmwareSlot(n) : n \in {"Package", "PackageUri", "Update"}} |->
        CASE slot = FirmwareSlot("Package") -> Leaf("OPAQUE", {"PUT"}, NoValue)
          [] slot = FirmwareSlot("PackageUri") -> Leaf("STRING", {"PUT"}, NoValue)
          [] slot = FirmwareSlot("Update") -> Leaf("OPAQUE", {}, NoValue)]

\* create_mandatory_resources(), from static parameters as they are.
FirmwareContents(params) ==
    [slot \in DOMAIN FirmwareParams \cup {FirmwareSlot("State"), FirmwareSlot("UpdateResult")} |->
        IF slot \in DOMAIN FirmwareParams THEN params[slot] ELSE Leaf("INTEGER", GET, Text(0))]

\* Mutant: the range is checked and the operation of Update left as it is.
FirmwareCheckValueRange_Pure(n, v, c) == c

\* What check_value_range() changes: the state decides whether Update may be
\* executed.
FirmwareCheckValueRange(n, v, c) ==
    IF n = "State"
    THEN [c EXCEPT ![FirmwareSlot("Update")].operation =
              IF v = Downloaded THEN {"POST"} ELSE {}]
    ELSE c

FirmwareInRange(n, v) ==
    CASE n = "UpdateSupportedObjects" -> v \in 0..1
      [] n = "State" -> v \in 0..3
      [] n = "UpdateResult" -> v \in 0..7
      [] OTHER -> FALSE

\* create_resource(resource, const String &)
FirmwareCreateString(n, s) ==
    /\ n \in {"PackageName", "PackageVersion"}
    /\ ~Has(FirmwareSlot(n))
    /\ s # Text(TooLong)
    /\ contents' = Add(FirmwareId[n], Leaf("STRING", GET, s))

\* create_resource(resource, int64_t)
FirmwareCreateInteger(n, v) ==
    /\ n = "UpdateSupportedObjects"
    /\ ~Has(FirmwareSlot(n))
    /\ FirmwareInRange(n, v)
    /\ contents' = Add(FirmwareId[n], Leaf("INTEGER", GET_PUT, Text(v)))

\* set_resource_value(resource, const String &)
FirmwareSetString(n, s) ==
    /\ n \in {"PackageUri", "PackageName", "PackageVersion"}
    /\ Has(FirmwareSlot(n))
    /\ s # Text(TooLong)
    /\ contents' = SetValue(FirmwareSlot(n), s)

\* set_resource_value(resource, int64_t)
FirmwareSetInteger(n, v) ==
    /\ n \in {"State", "UpdateSupportedObjects", "UpdateResult"}
    /\ Has(FirmwareSlot(n))
    /\ FirmwareInRange(n, v)
    /\ contents' = FirmwareCheckValueRange(n, v, SetValue(FirmwareSlot(n), Text(v)))

\* set_resource_value(resource, const uint8_t *, uint32_t)
FirmwareSetBuffer(s) ==
    /\ s # NoValue
    /\ contents' = SetValue(FirmwareSlot("Package"), s)

\* delete_resource()
FirmwareDelete(n) ==
    /\ n \in {"UpdateSupportedObjects", "PackageName", "PackageVersion"}
    /\ Has(FirmwareSlot(n))
    /\ contents' = RemoveResource(FirmwareId[n])

\* delete_instance(), and get_instance() after it: values and operations kept in
\* the static parameters survive, State and UpdateResult are set again.
FirmwareRenew == contents' = FirmwareContents(contents)

\* resource_value_int()
FirmwareValueInt(n) == GetValueInt(contents[FirmwareSlot(n)].value)

Firmware ==
    /\ class = "Firmware"
    /\ \/ \E n \in FirmwareNames, s \in Strings :
              FirmwareCreateString(n, s) \/ FirmwareSetString(n, s)
       \/ \E n \in FirmwareNames, v \in Numbers :
              FirmwareCreateInteger(n, v) \/ FirmwareSetInteger(n, v)
       \/ \E s \in Strings : FirmwareSetBuffer(s)
       \/ \E n \in FirmwareNames : FirmwareDelete(n)
       \/ FirmwareRenew
    /\ UNCHANGED class

-----------------------------------------------------------------------------
(* M2MSecurity, of type M2MServer (class Security) or Bootstrap.           *)

\* get_resource()
SecurityId ==
    [M2MServerUri |-> 0, BootstrapServer |-> 1, SecurityMode |-> 2, PublicKey |-> 3,
     ServerPublicKey |-> 4, Secretkey |-> 5, SMSSecurityMode |-> 6,
     SMSBindingKey |-> 7, SMSBindingSecretKey |-> 8, M2MServerSMSNumber |-> 9,
     ShortServerID |-> 10, ClientHoldOffTime |-> 11]

SecurityNames == Names \cap DOMAIN SecurityId
SecuritySlot(n) == <<SecurityId[n]>>
SecurityIntegers ==
    {"SecurityMode", "SMSSecurityMode", "M2MServerSMSNumber", "ShortServerID",
     "ClientHoldOffTime"}
SecurityKeys == {"PublicKey", "ServerPublicKey", "Secretkey"}

\* The constructor: a bootstrap server has no short identifier.
SecurityMandatory(kind) ==
    {"M2MServerUri", "BootstrapServer", "SecurityMode"} \cup SecurityKeys
    \cup (IF kind = "Security" THEN {"ShortServerID"} ELSE {})

SecurityType(slot) ==
    CASE slot = SecuritySlot("M2MServerUri") -> "STRING"
      [] slot = SecuritySlot("BootstrapServer") -> "BOOLEAN"
      [] slot \in {SecuritySlot(n) : n \in SecurityKeys} -> "OPAQUE"
      [] OTHER -> "INTEGER"

SecurityContents(kind) ==
    [slot \in {SecuritySlot(n) : n \in SecurityMandatory(kind)} |->
        Leaf(SecurityType(slot), {}, NoValue)]

\* create_resource() keeps the integer as text.
SecurityCreate(n, v) ==
    /\ n \in SecurityIntegers \ {"SecurityMode"}
    /\ ~Has(SecuritySlot(n))
    /\ contents' = Add(SecurityId[n], Leaf("INTEGER", {}, Text(v)))

\* delete_resource()
SecurityDelete(n) ==
    /\ n \in SecurityIntegers \ {"SecurityMode"}
    /\ n = "ShortServerID" => class = "Bootstrap"
    /\ Has(SecuritySlot(n))
    /\ contents' = RemoveResource(SecurityId[n])

\* set_resource_value(resource, const String &), which does not clear, and
\* set_resource_value(resource, const uint8_t *, uint16_t)
SecuritySetBytes(n, s) ==
    /\ n \in SecurityKeys \cup {"M2MServerUri"}
    /\ s # NoValue
    /\ contents' = SetValue(SecuritySlot(n), s)

\* set_resource_value(resource, uint32_t) keeps binary digits.
SecuritySetInteger(n, v) ==
    /\ n \in SecurityIntegers
    /\ Has(SecuritySlot(n))
    /\ contents' = SetValue(SecuritySlot(n), Binary(v))

\* clear_resources(), when the bootstrap server deletes the object.
SecurityClear ==
    contents' = [slot \in DOMAIN contents |-> [contents[slot] EXCEPT !.value = NoValue]]

\* convert_array_to_integer() reads bytes as binary digits, the digit of a text
\* as its character.
ArrayToInteger(value) ==
    IF value = NoValue THEN 0
    ELSE IF value[1] = "binary" THEN value[2] ELSE 48 + value[2]

\* resource_value_int()
SecurityValueInt(n) == ArrayToInteger(contents[SecuritySlot(n)].value)

Security ==
    /\ class \in {"Security", "Bootstrap"}
    /\ \/ \E n \in SecurityNames, v \in Numbers : SecurityCreate(n, v) \/ SecuritySetInteger(n, v)
       \/ \E n \in SecurityNames : SecurityDelete(n)
       \/ \E n \in SecurityNames, s \in Strings : SecuritySetBytes(n, s)
       \/ SecurityClear
    /\ UNCHANGED class

-----------------------------------------------------------------------------
(* M2MServer.                                                              *)

\* get_resource()
ServerId ==
    [ShortServerID |-> 0, Lifetime |-> 1, DefaultMinPeriod |-> 2,
     DefaultMaxPeriod |-> 3, Disable |-> 4, DisableTimeout |-> 5,
     NotificationStorage |-> 6, Binding |-> 7, RegistrationUpdate |-> 8]

ServerNames == Names \cap DOMAIN ServerId
ServerSlot(n) == <<ServerId[n]>>
ServerPeriods == {"DefaultMinPeriod", "DefaultMaxPeriod", "DisableTimeout"}
ServerMandatory ==
    {"ShortServerID", "Lifetime", "NotificationStorage", "Binding", "RegistrationUpdate"}
ServerIntegers == ServerPeriods \cup {"ShortServerID", "Lifetime", "NotificationStorage"}

\* The constructor.
ServerContents ==
    [slot \in {ServerSlot(n) : n \in ServerMandatory} |->
        CASE slot = ServerSlot("ShortServerID") -> Leaf("INTEGER", GET_PUT, NoValue)
          [] slot = ServerSlot("Lifetime") -> Leaf("INTEGER", GET_PUT_POST, NoValue)
          [] slot = ServerSlot("NotificationStorage") -> Leaf("BOOLEAN", GET_PUT_POST, NoValue)
          [] slot = ServerSlot("Binding") -> Leaf("STRING", GET_PUT_POST, NoValue)
          [] slot = ServerSlot("RegistrationUpdate") -> Leaf("OPAQUE", {"POST"}, NoValue)]

\* create_resource(resource, uint32_t)
ServerCreateInteger(n, v) ==
    /\ n \in ServerPeriods
    /\ ~Has(ServerSlot(n))
    /\ contents' = Add(ServerId[n], Leaf("INTEGER", GET_PUT_POST, Text(v)))

\* create_resource(resource)
ServerCreateExecutable(n) ==
    /\ n = "Disable"
    /\ ~Has(ServerSlot(n))
    /\ contents' = Add(ServerId[n], Leaf("OPAQUE", {"POST"}, NoValue))

\* delete_resource()
ServerDelete(n) ==
    /\ n \in ServerPeriods \cup {"Disable"}
    /\ Has(ServerSlot(n))
    /\ contents' = RemoveResource(ServerId[n])

\* set_resource_value(resource, const String &), which does not clear.
ServerSetString(s) ==
    /\ s # NoValue
    /\ contents' = SetValue(ServerSlot("Binding"), s)

\* set_resource_value(resource, uint32_t)
ServerSetInteger(n, v) ==
    /\ n \in ServerIntegers
    /\ Has(ServerSlot(n))
    /\ contents' = SetValue(ServerSlot(n), Text(v))

\* resource_value_int()
ServerValueInt(n) == GetValueInt(contents[ServerSlot(n)].value)

Server ==
    /\ class = "Server"
    /\ \/ \E n \in ServerNames, v \in Numbers : ServerCreateInteger(n, v) \/ ServerSetInteger(n, v)
       \/ \E n \in ServerNames : ServerCreateExecutable(n) \/ ServerDelete(n)
       \/ \E s \in Strings : ServerSetString(s)
    /\ UNCHANGED class

-----------------------------------------------------------------------------
(* An instance the application builds itself (class Instance).             *)

\* create_dynamic_resource() or create_static_resource(), and set_operation().
CreateResource(id, type, operation) ==
    /\ ~Has(<<id>>)
    /\ contents' = Add(id, Leaf(type, operation, NoValue))

\* create_dynamic_resource_instance() or its static form, and set_operation().
CreateResourceInstance(id, k, type, operation) ==
    /\ Has(<<id>>) => contents[<<id>>].multiple
    /\ ~Has(<<id, k>>)
    /\ contents' = AddInstance(id, k, Leaf(type, operation, NoValue))

\* M2MResourceBase::set_value() and clear_value()
SetLeafValue(slot, value) ==
    /\ Has(slot)
    /\ ~contents[slot].multiple
    /\ contents' = SetValue(slot, value)

Remove(slot) ==
    /\ Has(slot)
    /\ contents' = IF Len(slot) = 1 THEN RemoveResource(slot[1])
                   ELSE RemoveResourceInstance(slot[1], slot[2])

\* Resource 1 and one without a number are single, resource 0 has instances, of
\* which servers may write the first.
Instance ==
    /\ class = "Instance"
    /\ \/ CreateResource(1, "STRING", GET_PUT)
       \/ CreateResource(NoId, "STRING", GET)
       \/ \E k \in InstanceIds :
              CreateResourceInstance(0, k, "INTEGER", IF k = 0 THEN GET_PUT ELSE GET)
       \/ \E slot \in DOMAIN contents :
              \/ \E value \in {NoValue, Text(Sample)} : SetLeafValue(slot, value)
              \/ Remove(slot)
    /\ UNCHANGED class

-----------------------------------------------------------------------------
(* Requests of servers.                                                    *)

InstanceOperation ==
    [Device |-> GET, Firmware |-> GET_PUT, Instance |-> AllOperations,
     Security |-> {}, Bootstrap |-> {}, Server |-> {}, InterfaceServer |-> {}]

\* PUT to the instance: M2MObjectInstance::handle_put_request()
PutInstance(tlv) ==
    /\ "PUT" \in InstanceOperation[class]
    /\ contents' = DeserializeResources(tlv, contents, "Put").contents

\* POST to the instance: M2MObjectInstance::handle_post_request()
PostInstance(tlv) ==
    /\ "POST" \in InstanceOperation[class]
    /\ contents' = DeserializeResources(tlv, contents, "Post").contents

\* PUT to a resource with instances: M2MResource::handle_put_request(). The
\* server addresses the resource that its first record names.
PutMultiple(tlv) ==
    LET slot == <<tlv[1].id>> IN
    /\ tlv[1].type = "M"
    /\ Has(slot)
    /\ contents[slot].multiple
    /\ "PUT" \in contents[slot].operation
    /\ contents' = DeserializeResourceInstances(tlv, contents, tlv[1].id, "Put").contents

\* PUT to any other resource: M2MResourceBase::handle_put_request() takes the
\* payload as it comes.
PutText(slot, word) ==
    /\ Has(slot)
    /\ ~contents[slot].multiple
    /\ "PUT" \in contents[slot].operation
    /\ contents' = SetValue(slot, Text(word))

\* The payload of a bootstrap server, for an object or for its first instance: the
\* identifier of the first record is taken for the one of the instance.
BootstrapPayload(tlv) == tlv[1].type = "OI" \/ (tlv[1].type = "R" /\ tlv[1].id = 0)

Parse(tlv, c, operation) ==
    IF tlv[1].type = "OI" THEN DeserialiseObjectInstances(tlv, c, "Put")
    ELSE DeserializeResources(tlv, c, operation)

WithOperation(c, operation) == [slot \in DOMAIN c |-> [c[slot] EXCEPT !.operation = operation]]

\* handle_bootstrap_put_message() for the security object: it may be written while
\* the message is parsed; an error deletes it, and the next message makes a new one.
BootstrapSecurity(tlv) ==
    LET created == IF Has(SecuritySlot("ShortServerID")) THEN contents
                   ELSE Add(SecurityId["ShortServerID"], Leaf("INTEGER", {}, Text(1)))
        parsed == Parse(tlv, WithOperation(created, {"PUT"}), "Put")
    IN  /\ class = "Security"
        /\ BootstrapPayload(tlv)
        /\ contents' = IF parsed.error = "None" THEN WithOperation(parsed.contents, {})
                       ELSE SecurityContents("Security")
        /\ UNCHANGED class

\* The same for the server object, whose resources a POST may add.
BootstrapServer(tlv) ==
    /\ class = "InterfaceServer"
    /\ BootstrapPayload(tlv)
    /\ contents' = Parse(tlv, contents, "Post").contents
    /\ UNCHANGED class

ObjectPayloads ==
    {<<Record("OI", 0, Len(p), NoValue)>> \o p : p \in Payloads}

Requests ==
    \/ /\ \E p \in Payloads : PutInstance(p) \/ PostInstance(p) \/ PutMultiple(p)
       /\ UNCHANGED class
    \/ /\ \E slot \in DOMAIN contents, w \in Words : PutText(slot, w)
       /\ UNCHANGED class
    \/ \E p \in Payloads \cup ObjectPayloads : BootstrapSecurity(p) \/ BootstrapServer(p)

-----------------------------------------------------------------------------
\* What an object of a class is made with.
InitialContents(kind) ==
    CASE kind = "Device" -> DeviceContents
      [] kind = "Firmware" -> FirmwareContents(FirmwareParams)
      [] kind \in {"Security", "Bootstrap"} -> SecurityContents(kind)
      [] kind \in {"Server", "InterfaceServer"} -> ServerContents
      [] kind = "Instance" -> <<>>

Init ==
    /\ class \in Classes
    /\ contents = InitialContents(class)

Next == Device \/ Firmware \/ Security \/ Server \/ Instance \/ Requests

Spec == Init /\ [][Next]_vars

-----------------------------------------------------------------------------
(* Properties.                                                             *)

TypeOK ==
    \A slot \in DOMAIN contents :
        /\ contents[slot].type \in Types
        /\ contents[slot].operation \subseteq AllOperations
        /\ contents[slot].value # NoValue => contents[slot].value[1] \in {"text", "binary"}
        /\ Len(slot) = 2 => Has(<<slot[1]>>) /\ contents[<<slot[1]>>].multiple

\* What a server may send to this object at once.
Writes(p) ==
    {DeserializeResources(p, contents, operation) : operation \in {"Put", "Post"}}
    \cup {DeserialiseObjectInstances(<<Record("OI", 0, Len(p), NoValue)>> \o p, contents, "Put")}
    \cup (IF p[1].type = "M" THEN {DeserializeResourceInstances(p, contents, p[1].id, "Put")}
          ELSE {})

\* The records of p that name a slot: a resource record, or a record inside the
\* container of the resource it belongs to.
Naming(p, slot) ==
    {j \in DOMAIN p :
        IF Len(slot) = 1 THEN p[j].type = "R" /\ p[j].id = slot[1]
        ELSE /\ p[j].type = "RI" /\ p[j].id = slot[2]
             /\ \E i \in DOMAIN p : /\ p[i].type = "M" /\ p[i].id = slot[1]
                                    /\ i < j /\ j <= i + p[i].span}

\* A payload that is refused sets nothing, wherever in it the error is: the check
\* is a pass of its own (deserialize_resources() and its callers).
RefusedChangesNothing ==
    \A p \in Payloads : \A r \in Writes(p) :
        r.error # "None" => \A slot \in DOMAIN contents : r.contents[slot] = contents[slot]

\* A payload that is accepted leaves in every resource the last value a record
\* names for it, and in all others what they held: positions, nesting and the
\* two passes never make a value end up elsewhere.
AcceptedIsApplied ==
    \A p \in Payloads : \A r \in Writes(p) :
        r.error = "None" =>
            \A slot \in DOMAIN r.contents \ {s \in DOMAIN r.contents : r.contents[s].multiple} :
                r.contents[slot].value =
                    IF Naming(p, slot) # {} THEN p[Max(Naming(p, slot))].value
                    ELSE IF Has(slot) THEN contents[slot].value ELSE NoValue

\* What is written to records is read back from them: every text, every integer as
\* the binary digits of what get_value_int() reads, and of a boolean the last byte of
\* it (serialize_TLV_binary_int()), so one beyond 255 is not what it was.
SerialisedIsRestored ==
    LET tlv == SerializeResources(contents)
        empty == [slot \in DOMAIN contents |-> [contents[slot] EXCEPT !.value = NoValue]]
        read == DeserializeAt(tlv, 1, empty, "Put", TRUE)
    IN  tlv # <<>> =>
            /\ read.error = "None"
            /\ \A slot \in DOMAIN contents :
                   LET leaf == contents[slot] IN
                   read.contents[slot] = [leaf EXCEPT !.value =
                       IF leaf.multiple THEN NoValue
                       ELSE IF leaf.type = "BOOLEAN" THEN Binary(GetValueInt(@) % 256)
                       ELSE IF leaf.type \in IntegerTypes THEN Binary(GetValueInt(@))
                       ELSE @]

\* The header of every record the contents are written to is read as it was
\* written, at each border between the widths of lengths (serialize_TILV(),
\* TypeIdLength).
HeadersAreRestored ==
    \A slot \in DOMAIN contents, length \in {0, 7, 8, 255, 256, 65535, 65536} :
        LET type == IF Len(slot) = 2 THEN "RI" ELSE IF contents[slot].multiple THEN "M" ELSE "R"
            tlv == Header(type, slot[Len(slot)], length)
        IN  slot # <<NoId>> =>
                /\ \A j \in DOMAIN tlv : tlv[j] \in 0..255
                /\ (tlv[1] \div 64) * 64 = TypeCode[type]
                /\ DeserialiseID(tlv) = slot[Len(slot)]
                /\ DeserialiseLength(tlv) = length
                /\ ValueOffset(tlv) = Len(tlv)

\* The mandatory resources of an object are there, with their types, whatever is
\* created, deleted, bootstrapped or begun anew.
MandatoryStay ==
    LET mandatory == InitialContents(class)
    IN  \A slot \in DOMAIN mandatory : Has(slot) /\ contents[slot].type = mandatory[slot].type

\* Update can be executed when State says that the package is downloaded: the
\* operation of one resource follows the value of another.
UpdateIsExecutable ==
    class = "Firmware" /\ FirmwareValueInt("State") = Downloaded =>
        contents[FirmwareSlot("Update")].operation = {"POST"}

\* mbed-client/m2mserver.h:131 and m2msecurity.h:182 of resource_value_int(): "Returns
\* the value of a given resource name, in integer format." An integer that is kept
\* as text or in binary digits is to be read as that integer.
IntegersAreReadBack ==
    /\ class \in {"Security", "Bootstrap"} =>
           \A n \in SecurityIntegers :
               Has(SecuritySlot(n)) /\ contents[SecuritySlot(n)].value # NoValue =>
                   SecurityValueInt(n) = contents[SecuritySlot(n)].value[2]
    /\ class \in {"Server", "InterfaceServer"} =>
           \A n \in ServerIntegers :
               Has(ServerSlot(n)) /\ contents[ServerSlot(n)].value # NoValue =>
                   ServerValueInt(n) = contents[ServerSlot(n)].value[2]
=============================================================================
