--------------------------- MODULE M2MObjects_proofs ---------------------------
(***************************************************************************)
(* What M2MObjects keeps, for every choice of its constants.               *)
(***************************************************************************)
EXTENDS M2MObjects, M2MTLV_proofs

-----------------------------------------------------------------------------
(* The shape of the contents.                                              *)

MultipleIds == {DeviceId[n] : n \in DeviceMultiples}

\* Multiple resources of the objects of the library are so by their id; what an object is
\* made with is there, of its type.
Fixed(kind, c) ==
    kind # "Instance" =>
        \A i : <<i>> \in DOMAIN c => (c[<<i>>].multiple <=> kind = "Device" /\ i \in MultipleIds)
Complete(kind, c) ==
    \A s \in DOMAIN InitialContents(kind) :
        s \in DOMAIN c /\ c[s].type = InitialContents(kind)[s].type

Shape(kind, c) ==
    /\ c \in Contents
    /\ Nested(c)
    /\ Fixed(kind, c)
    /\ Complete(kind, c)

\* Values, operations: nothing else is to be looked at.
LEMMA ShapeSame ==
    ASSUME NEW kind, NEW c, Shape(kind, c), NEW d \in Contents, DOMAIN d = DOMAIN c,
           \A s \in DOMAIN c : d[s].type = c[s].type /\ d[s].multiple = c[s].multiple
    PROVE  Shape(kind, d)
  <1> HIDE DEF Contents
  <1>1. Nested(d)
    BY Zenon DEF Shape, Nested
  <1>2. Fixed(kind, d)
    BY Zenon DEF Shape, Fixed
  <1>3. Complete(kind, d)
    BY Zenon DEF Shape, Complete
  <1> QED
    BY <1>1, <1>2, <1>3 DEF Shape

LEMMA ShapeSet ==
    ASSUME NEW kind, NEW c, Shape(kind, c), NEW slot \in DOMAIN c, NEW value \in Values
    PROVE  LET d == [c EXCEPT ![slot].value = value]
           IN  /\ Shape(kind, d)
               /\ DOMAIN d = DOMAIN c
               /\ d[slot].value = value
               /\ \A s \in DOMAIN c :
                      /\ d[s].operation = c[s].operation
                      /\ s # slot => d[s].value = c[s].value
  <1> DEFINE d == SetLeaf(c, slot, value)
  <1> HIDE DEF Contents
  <1>1. c \in Contents
    BY DEF Shape
  <1>2. d = [c EXCEPT ![slot].value = value]
    BY DEF SetLeaf
  <1> HIDE DEF d
  <1>3. /\ d \in Contents
        /\ DOMAIN d = DOMAIN c
        /\ \A s \in DOMAIN c :
               /\ d[s].type = c[s].type
               /\ d[s].operation = c[s].operation
               /\ d[s].multiple = c[s].multiple
               /\ d[s].value = IF s = slot THEN value ELSE c[s].value
    BY <1>1, SetLeafIs DEF d
  <1>4. Shape(kind, d)
    BY <1>3, ShapeSame
  <1> QED
    BY <1>2, <1>3, <1>4

LEMMA ShapeWith ==
    ASSUME NEW kind, NEW c, Shape(kind, c), NEW i \in Identifiers \cup {NoId}, <<i>> \notin DOMAIN c,
           NEW leaf \in Leaves,
           kind # "Instance" => (leaf.multiple <=> kind = "Device" /\ i \in MultipleIds)
    PROVE  LET d == With(c, <<i>>, leaf)
           IN  /\ Shape(kind, d)
               /\ \A s \in DOMAIN c : s \in DOMAIN d /\ d[s] = c[s]
  <1> DEFINE d == With(c, <<i>>, leaf)
  <1> HIDE DEF Contents, Slots
  <1>1. c \in Contents /\ <<i>> \in Slots
    BY SlotIs DEF Shape
  <1> HIDE DEF d
  <1>2. /\ d \in Contents
        /\ DOMAIN d = DOMAIN c \cup {<<i>>}
        /\ d[<<i>>] = leaf
        /\ \A s \in DOMAIN c : s # <<i>> => d[s] = c[s]
    BY <1>1, WithIs DEF d
  <1>3. \A s \in DOMAIN c : s \in DOMAIN d /\ d[s] = c[s]
    BY <1>2
  <1>4. Nested(d)
    <2> SUFFICES ASSUME NEW s \in DOMAIN d, Len(s) = 2
                 PROVE  ~d[s].multiple /\ <<s[1]>> \in DOMAIN d /\ d[<<s[1]>>].multiple
      BY DEF Nested
    <2>1. s # <<i>>
      OBVIOUS
    <2>2. s \in DOMAIN c
      BY <1>2, <2>1
    <2>3. ~c[s].multiple /\ <<s[1]>> \in DOMAIN c /\ c[<<s[1]>>].multiple
      BY <2>2 DEF Shape, Nested
    <2> QED
      BY <1>3, <2>2, <2>3
  <1>5. Fixed(kind, d)
    <2> SUFFICES ASSUME kind # "Instance", NEW j, <<j>> \in DOMAIN d
                 PROVE  d[<<j>>].multiple <=> kind = "Device" /\ j \in MultipleIds
      BY DEF Fixed
    <2>1. CASE j = i
      BY <1>2, <2>1
    <2>2. CASE j # i
      <3>1. <<j>> \in DOMAIN c
        BY <1>2, <2>2
      <3>2. c[<<j>>].multiple <=> kind = "Device" /\ j \in MultipleIds
        BY <3>1 DEF Shape, Fixed
      <3> QED
        BY <1>3, <3>1, <3>2
    <2> QED
      BY <2>1, <2>2
  <1>6. Complete(kind, d)
    BY <1>3, Zenon DEF Shape, Complete
  <1>7. Shape(kind, d)
    BY <1>2, <1>4, <1>5, <1>6 DEF Shape
  <1> QED
    BY <1>3, <1>7 DEF d

LEMMA ShapeWithInstance ==
    ASSUME NEW kind, NEW c, Shape(kind, c), NEW i \in Identifiers, NEW k \in Identifiers,
           <<i>> \in DOMAIN c, c[<<i>>].multiple, <<i, k>> \notin DOMAIN c,
           NEW leaf \in Leaves, ~leaf.multiple
    PROVE  Shape(kind, With(c, <<i, k>>, leaf))
  <1> DEFINE d == With(c, <<i, k>>, leaf)
  <1> HIDE DEF Contents, Slots
  <1>1. c \in Contents /\ <<i, k>> \in Slots
    BY SlotIs DEF Shape
  <1> HIDE DEF d
  <1>2. /\ d \in Contents
        /\ DOMAIN d = DOMAIN c \cup {<<i, k>>}
        /\ d[<<i, k>>] = leaf
        /\ \A s \in DOMAIN c : s # <<i, k>> => d[s] = c[s]
    BY <1>1, WithIs DEF d
  <1>3. \A s \in DOMAIN c : s \in DOMAIN d /\ d[s] = c[s]
    BY <1>2
  <1>4. Nested(d)
    <2> SUFFICES ASSUME NEW s \in DOMAIN d, Len(s) = 2
                 PROVE  ~d[s].multiple /\ <<s[1]>> \in DOMAIN d /\ d[<<s[1]>>].multiple
      BY DEF Nested
    <2>1. ~d[s].multiple /\ <<s[1]>> \in DOMAIN c /\ c[<<s[1]>>].multiple
      <3>1. CASE s = <<i, k>>
        <4>1. s[1] = i
          BY <3>1
        <4> QED
          BY <1>2, <3>1, <4>1
      <3>2. CASE s # <<i, k>>
        BY <1>2, <3>2 DEF Shape, Nested
      <3> QED
        BY <3>1, <3>2
    <2> QED
      BY <1>3, <2>1
  <1>5. Fixed(kind, d)
    <2> SUFFICES ASSUME kind # "Instance", NEW j, <<j>> \in DOMAIN d
                 PROVE  d[<<j>>].multiple <=> kind = "Device" /\ j \in MultipleIds
      BY DEF Fixed
    <2>1. <<j>> # <<i, k>>
      OBVIOUS
    <2>2. <<j>> \in DOMAIN c
      BY <1>2, <2>1
    <2>3. c[<<j>>].multiple <=> kind = "Device" /\ j \in MultipleIds
      BY <2>2 DEF Shape, Fixed
    <2> QED
      BY <1>3, <2>2, <2>3
  <1>6. Complete(kind, d)
    BY <1>3, Zenon DEF Shape, Complete
  <1>7. Shape(kind, d)
    BY <1>2, <1>4, <1>5, <1>6 DEF Shape
  <1> QED
    BY <1>7 DEF d

\* What a payload makes of the contents.
LEMMA ShapeGrown ==
    ASSUME NEW kind, NEW c, Shape(kind, c), NEW d \in Contents, NEW tlv, NEW operation, NEW update,
           Grown(c, d, tlv, operation, update), kind = "Device" => operation # "Post"
    PROVE  Shape(kind, d)
  <1> HIDE DEF Contents
  <1>1. DOMAIN c \subseteq DOMAIN d
    BY DEF Grown
  <1>2. \A s \in DOMAIN c : d[s].type = c[s].type /\ d[s].multiple = c[s].multiple
    BY Zenon DEF Grown
  <1>3. \A s \in DOMAIN d \ DOMAIN c :
            /\ operation = "Post"
            /\ ~d[s].multiple
            /\ Len(s) = 2 => <<s[1]>> \in DOMAIN c /\ c[<<s[1]>>].multiple
    BY DEF Grown
  <1>4. Nested(d)
    BY NestedGrown DEF Shape
  <1>5. Fixed(kind, d)
    <2> SUFFICES ASSUME kind # "Instance", NEW j, <<j>> \in DOMAIN d
                 PROVE  d[<<j>>].multiple <=> kind = "Device" /\ j \in MultipleIds
      BY DEF Fixed
    <2>1. CASE <<j>> \in DOMAIN c
      BY <1>2, <2>1, Zenon DEF Shape, Fixed
    <2>2. CASE <<j>> \notin DOMAIN c
      BY <1>3, <2>2, Zenon
    <2> QED
      BY <2>1, <2>2
  <1>6. Complete(kind, d)
    BY <1>1, <1>2, Zenon DEF Shape, Complete
  <1> QED
    BY <1>4, <1>5, <1>6 DEF Shape

\* A resource that the object can do without is taken away, or one of its instances.
LEMMA ShapeRestrict ==
    ASSUME NEW kind, NEW c, Shape(kind, c), NEW D \in SUBSET DOMAIN c,
           \A s \in DOMAIN InitialContents(kind) : s \in D,
           \A s \in D : Len(s) = 2 => <<s[1]>> \in D
    PROVE  LET d == Restrict(c, D)
           IN  /\ Shape(kind, d)
               /\ DOMAIN d = D
               /\ \A s \in D : d[s] = c[s]
  <1> DEFINE d == Restrict(c, D)
  <1> HIDE DEF Contents, Slots, Leaves
  <1>1. d = [s \in D |-> c[s]]
    BY DEF Restrict
  <1> HIDE DEF d
  <1>2. DOMAIN d = D /\ d = [s \in DOMAIN d |-> d[s]] /\ \A s \in D : d[s] = c[s]
    BY <1>1
  <1>3. /\ DOMAIN c \subseteq Slots
        /\ \A s \in DOMAIN c : c[s] \in Leaves
    BY ContentsIs DEF Shape
  <1>4. /\ DOMAIN d \subseteq Slots
        /\ \A s \in DOMAIN d : d[s] \in Leaves
    BY <1>2, <1>3
  <1>5. d \in Contents
    BY <1>2, <1>4, ContentsIs
  <1>6. Nested(d)
    BY <1>2, Zenon DEF Shape, Nested
  <1>7. Fixed(kind, d)
    BY <1>2, Zenon DEF Shape, Fixed
  <1>8. Complete(kind, d)
    BY <1>2, Zenon DEF Shape, Complete
  <1>9. Shape(kind, d)
    BY <1>5, <1>6, <1>7, <1>8 DEF Shape
  <1> QED
    BY <1>2, <1>9 DEF d

-----------------------------------------------------------------------------
(* What an object is made with.                                            *)

LEMMA ValuesAre ==
    /\ NoValue \in Values
    /\ \A v \in Int : Text(v) \in Values /\ Binary(v) \in Values
    /\ Strings \subseteq Values
    /\ \A v : GetValueInt(Text(v)) = v
    /\ \A v \in Values : GetValueInt(v) # 0 => v = Text(GetValueInt(v))
  <1>1. \A v \in Int : Text(v) \in Values /\ Binary(v) \in Values
    BY DEF Values, Text, Binary
  <1>2. NoValue \in Values
    BY DEF Values
  <1>3. Strings \subseteq Values
    BY <1>1, <1>2, ObjectsAssumption DEF Strings
  <1>4. \A v : GetValueInt(Text(v)) = v
    BY DEF GetValueInt, Text, NoValue
  <1>5. \A v \in Values : GetValueInt(v) # 0 => v = Text(GetValueInt(v))
    BY DEF GetValueInt, Text, NoValue, Values
  <1> QED
    BY <1>1, <1>2, <1>3, <1>4, <1>5

LEMMA OperationsAre ==
    /\ {} \in SUBSET AllOperations /\ {"POST"} \in SUBSET AllOperations
    /\ {"PUT"} \in SUBSET AllOperations /\ GET \in SUBSET AllOperations
    /\ GET_PUT \in SUBSET AllOperations /\ GET_PUT_POST \in SUBSET AllOperations
    /\ "PUT" \notin GET
  BY DEF AllOperations, GET, GET_PUT, GET_PUT_POST

LEMMA MultipleIs ==
    ASSUME NEW type \in Types
    PROVE  /\ MultipleResource(type) \in Leaves
           /\ MultipleResource(type).multiple
           /\ MultipleResource(type).type = type
  <1>1. Leaf(type, {"GET"}, NoValue) \in Leaves /\ Leaf(type, {"GET"}, NoValue).type = type
    BY LeafIs, ValuesAre, OperationsAre DEF GET
  <1> QED
    BY <1>1 DEF MultipleResource, Leaves

LEMMA SmallIdentifiers == \A i \in 0..31 : i \in Identifiers
  <1> DEFINE high == 65535
  <1>1. high \in Int /\ 31 <= high
    OBVIOUS
  <1>2. 0..high = Identifiers
    BY DEF Identifiers
  <1> HIDE DEF high, Identifiers
  <1>3. \A i \in 0..31 : i \in 0..high
    BY <1>1
  <1> QED
    BY <1>2, <1>3

LEMMA DeviceTable ==
    /\ DOMAIN DeviceId = {"Manufacturer", "DeviceType", "ModelNumber", "SerialNumber",
                          "HardwareVersion", "FirmwareVersion", "SoftwareVersion",
                          "Reboot", "FactoryReset", "AvailablePowerSources",
                          "PowerSourceVoltage", "PowerSourceCurrent", "BatteryLevel",
                          "BatteryStatus", "MemoryFree", "MemoryTotal", "ErrorCode",
                          "ResetErrorCode", "CurrentTime", "UTCOffset", "Timezone",
                          "SupportedBindingMode"}
    /\ DeviceId["Manufacturer"] = 0 /\ DeviceId["DeviceType"] = 17
    /\ DeviceId["ModelNumber"] = 1 /\ DeviceId["SerialNumber"] = 2
    /\ DeviceId["HardwareVersion"] = 18 /\ DeviceId["FirmwareVersion"] = 3
    /\ DeviceId["SoftwareVersion"] = 19 /\ DeviceId["Reboot"] = 4
    /\ DeviceId["FactoryReset"] = 5 /\ DeviceId["AvailablePowerSources"] = 6
    /\ DeviceId["PowerSourceVoltage"] = 7 /\ DeviceId["PowerSourceCurrent"] = 8
    /\ DeviceId["BatteryLevel"] = 9 /\ DeviceId["BatteryStatus"] = 20
    /\ DeviceId["MemoryFree"] = 10 /\ DeviceId["MemoryTotal"] = 21
    /\ DeviceId["ErrorCode"] = 11 /\ DeviceId["ResetErrorCode"] = 12
    /\ DeviceId["CurrentTime"] = 13 /\ DeviceId["UTCOffset"] = 14
    /\ DeviceId["Timezone"] = 15 /\ DeviceId["SupportedBindingMode"] = 16
  BY SMT DEF DeviceId

LEMMA DeviceIds ==
    ASSUME NEW n \in DOMAIN DeviceId
    PROVE  /\ DeviceId[n] \in Identifiers
           /\ DeviceId[n] \in MultipleIds <=> n \in DeviceMultiples
           /\ DeviceId[n] \in {DeviceId[m] : m \in DeviceMandatory} <=> n \in DeviceMandatory
  <1>1. DeviceId[n] \in 0..31
    BY SMT, DeviceTable
  <1>2. DeviceId[n] \in Identifiers
    BY <1>1, SmallIdentifiers
  <1>3. DeviceId[n] \in MultipleIds <=> n \in DeviceMultiples
    BY SMT, DeviceTable DEF MultipleIds, DeviceMultiples
  <1>4. DeviceId[n] \in {DeviceId[m] : m \in DeviceMandatory} <=> n \in DeviceMandatory
    BY SMT, DeviceTable DEF DeviceMandatory
  <1> QED
    BY <1>2, <1>3, <1>4

LEMMA DeviceNamesAre ==
    DeviceMandatory \cup DeviceMultiples \cup DeviceStrings \cup DeviceIntegers
        \cup {"FactoryReset", "ResetErrorCode"} \subseteq DOMAIN DeviceId
  BY SMT, DeviceTable DEF DeviceMandatory, DeviceMultiples, DeviceStrings, DeviceIntegers

LEMMA FirmwareTable ==
    /\ DOMAIN FirmwareId = {"Package", "PackageUri", "Update", "State",
                            "UpdateSupportedObjects", "UpdateResult", "PackageName",
                            "PackageVersion"}
    /\ FirmwareId["Package"] = 0 /\ FirmwareId["PackageUri"] = 1
    /\ FirmwareId["Update"] = 2 /\ FirmwareId["State"] = 3
    /\ FirmwareId["UpdateSupportedObjects"] = 4 /\ FirmwareId["UpdateResult"] = 5
    /\ FirmwareId["PackageName"] = 6 /\ FirmwareId["PackageVersion"] = 7
  BY SMT DEF FirmwareId

LEMMA FirmwareIds ==
    ASSUME NEW n \in DOMAIN FirmwareId
    PROVE  /\ FirmwareId[n] \in Identifiers
           /\ FirmwareId[n] \in {0, 1, 2, 3, 5} <=>
                  n \in {"Package", "PackageUri", "Update", "State", "UpdateResult"}
           /\ FirmwareId[n] = 2 <=> n = "Update"
           /\ FirmwareId[n] = 3 <=> n = "State"
  <1>1. FirmwareId[n] \in 0..31
    BY SMT, FirmwareTable
  <1>2. FirmwareId[n] \in Identifiers
    BY <1>1, SmallIdentifiers
  <1>3. FirmwareId[n] \in {0, 1, 2, 3, 5} <=>
             n \in {"Package", "PackageUri", "Update", "State", "UpdateResult"}
    BY SMT, FirmwareTable
  <1>4. FirmwareId[n] = 2 <=> n = "Update"
    BY SMT, FirmwareTable
  <1>5. FirmwareId[n] = 3 <=> n = "State"
    BY SMT, FirmwareTable
  <1> QED
    BY <1>2, <1>3, <1>4, <1>5

LEMMA SecurityTable ==
    /\ DOMAIN SecurityId = {"M2MServerUri", "BootstrapServer", "SecurityMode",
                            "PublicKey", "ServerPublicKey", "Secretkey",
                            "SMSSecurityMode", "SMSBindingKey", "SMSBindingSecretKey",
                            "M2MServerSMSNumber", "ShortServerID", "ClientHoldOffTime"}
    /\ SecurityId["M2MServerUri"] = 0 /\ SecurityId["BootstrapServer"] = 1
    /\ SecurityId["SecurityMode"] = 2 /\ SecurityId["PublicKey"] = 3
    /\ SecurityId["ServerPublicKey"] = 4 /\ SecurityId["Secretkey"] = 5
    /\ SecurityId["SMSSecurityMode"] = 6 /\ SecurityId["SMSBindingKey"] = 7
    /\ SecurityId["SMSBindingSecretKey"] = 8 /\ SecurityId["M2MServerSMSNumber"] = 9
    /\ SecurityId["ShortServerID"] = 10 /\ SecurityId["ClientHoldOffTime"] = 11
  BY SMT DEF SecurityId

LEMMA SecurityIds ==
    ASSUME NEW n \in DOMAIN SecurityId
    PROVE  /\ SecurityId[n] \in Identifiers
           /\ SecurityId[n] \in {0, 1, 2, 3, 4, 5} <=>
                  n \in {"M2MServerUri", "BootstrapServer", "SecurityMode"} \cup SecurityKeys
           /\ SecurityId[n] = 10 <=> n = "ShortServerID"
  <1>1. SecurityId[n] \in 0..31
    BY SMT, SecurityTable
  <1>2. SecurityId[n] \in Identifiers
    BY <1>1, SmallIdentifiers
  <1>3. SecurityId[n] \in {0, 1, 2, 3, 4, 5} <=>
             n \in {"M2MServerUri", "BootstrapServer", "SecurityMode"} \cup SecurityKeys
    BY SMT, SecurityTable DEF SecurityKeys
  <1>4. SecurityId[n] = 10 <=> n = "ShortServerID"
    BY SMT, SecurityTable
  <1> QED
    BY <1>2, <1>3, <1>4

LEMMA ServerTable ==
    /\ DOMAIN ServerId = {"ShortServerID", "Lifetime", "DefaultMinPeriod",
                          "DefaultMaxPeriod", "Disable", "DisableTimeout",
                          "NotificationStorage", "Binding", "RegistrationUpdate"}
    /\ ServerId["ShortServerID"] = 0 /\ ServerId["Lifetime"] = 1
    /\ ServerId["DefaultMinPeriod"] = 2 /\ ServerId["DefaultMaxPeriod"] = 3
    /\ ServerId["Disable"] = 4 /\ ServerId["DisableTimeout"] = 5
    /\ ServerId["NotificationStorage"] = 6 /\ ServerId["Binding"] = 7
    /\ ServerId["RegistrationUpdate"] = 8
  BY SMT DEF ServerId

LEMMA ServerIds ==
    ASSUME NEW n \in DOMAIN ServerId
    PROVE  /\ ServerId[n] \in Identifiers
           /\ ServerId[n] \in {0, 1, 6, 7, 8} <=> n \in ServerMandatory
  <1>1. ServerId[n] \in 0..31
    BY SMT, ServerTable
  <1>2. ServerId[n] \in Identifiers
    BY <1>1, SmallIdentifiers
  <1>3. ServerId[n] \in {0, 1, 6, 7, 8} <=> n \in ServerMandatory
    BY SMT, ServerTable DEF ServerMandatory
  <1> QED
    BY <1>2, <1>3

\* Contents of single resources only, whatever they are.
LEMMA ShapeSingles ==
    ASSUME NEW kind, kind # "Device", NEW c, Complete(kind, c),
           c = [s \in DOMAIN c |-> c[s]],
           \A s \in DOMAIN c :
               /\ \E i \in Identifiers : s = <<i>>
               /\ c[s] \in Leaves
               /\ ~c[s].multiple
    PROVE  Shape(kind, c)
  <1> HIDE DEF Slots, Leaves
  <1>1. ASSUME NEW s \in DOMAIN c
        PROVE  s \in Slots
    <2>1. PICK i \in Identifiers : s = <<i>>
      BY <1>1
    <2> QED
      BY <2>1, SlotIs
  <1>2. c \in Contents
    BY <1>1, ContentsIs
  <1>3. Nested(c)
    BY DEF Nested
  <1>4. Fixed(kind, c)
    BY Zenon DEF Fixed
  <1> QED
    BY <1>2, <1>3, <1>4 DEF Shape

LEMMA DeviceContentsShape == Shape("Device", DeviceContents)
  <1> DEFINE c == DeviceContents
             r == DeviceId["Reboot"]
             e == DeviceId["ErrorCode"]
             b == DeviceId["SupportedBindingMode"]
  <1>1. r \in Identifiers /\ e \in Identifiers /\ b \in Identifiers /\ 0 \in Identifiers
    BY SMT, DeviceTable DEF Identifiers
  <1>2. r # e /\ r # b /\ e # b
    BY SMT, DeviceTable
  <1>3. e \in MultipleIds /\ r \notin MultipleIds /\ b \notin MultipleIds
    BY SMT, DeviceTable DEF MultipleIds, DeviceMultiples
  <1>4. {<<DeviceId[n]>> : n \in DeviceMandatory} \cup {<<DeviceId["ErrorCode"], 0>>}
            = {<<r>>, <<e>>, <<b>>, <<e, 0>>}
    BY DEF DeviceMandatory
  <1> HIDE DEF r, e, b
  <1>5. /\ <<r>> # <<e>> /\ <<r>> # <<b>> /\ <<e>> # <<b>>
        /\ <<e, 0>> # <<r>> /\ <<e, 0>> # <<e>> /\ <<e, 0>> # <<b>>
    BY <1>2
  <1> DEFINE leaf(slot) ==
                 CASE slot = <<r>> -> Leaf("OPAQUE", {"POST"}, NoValue)
                   [] slot = <<e>> -> MultipleResource("INTEGER")
                   [] slot = <<e, 0>> -> Leaf("INTEGER", GET, Text(0))
                   [] slot = <<b>> -> Leaf("STRING", GET, Text(1))
  <1>6. c = [slot \in {<<r>>, <<e>>, <<b>>, <<e, 0>>} |-> leaf(slot)]
    BY <1>4, Zenon DEF DeviceContents, r, e, b
  <1>21. /\ leaf(<<r>>) = Leaf("OPAQUE", {"POST"}, NoValue)
         /\ leaf(<<e>>) = MultipleResource("INTEGER")
         /\ leaf(<<e, 0>>) = Leaf("INTEGER", GET, Text(0))
         /\ leaf(<<b>>) = Leaf("STRING", GET, Text(1))
    BY <1>5, Zenon
  <1> HIDE DEF c, leaf
  <1>7. DOMAIN c = {<<r>>, <<e>>, <<b>>, <<e, 0>>} /\ c = [s \in DOMAIN c |-> c[s]]
    BY <1>6
  <1>8. c[<<r>>] = Leaf("OPAQUE", {"POST"}, NoValue)
    BY <1>6, <1>21
  <1>9. c[<<e>>] = MultipleResource("INTEGER")
    BY <1>6, <1>21
  <1>10. c[<<e, 0>>] = Leaf("INTEGER", GET, Text(0))
    BY <1>6, <1>21
  <1>11. c[<<b>>] = Leaf("STRING", GET, Text(1))
    BY <1>6, <1>21
  <1>12. "OPAQUE" \in Types /\ "INTEGER" \in Types /\ "STRING" \in Types
    BY DEF Types
  <1>13. NoValue \in Values /\ Text(0) \in Values /\ Text(1) \in Values
    BY ValuesAre
  <1>14. /\ c[<<r>>] \in Leaves /\ ~c[<<r>>].multiple
         /\ c[<<b>>] \in Leaves /\ ~c[<<b>>].multiple
         /\ c[<<e>>] \in Leaves /\ c[<<e>>].multiple
         /\ c[<<e, 0>>] \in Leaves /\ ~c[<<e, 0>>].multiple
    BY <1>8, <1>9, <1>10, <1>11, <1>12, <1>13, LeafIs, MultipleIs, OperationsAre
  <1> HIDE DEF Slots, Leaves
  <1>15. \A s \in DOMAIN c : s \in Slots /\ c[s] \in Leaves
    <2>1. <<r>> \in Slots /\ <<e>> \in Slots /\ <<b>> \in Slots /\ <<e, 0>> \in Slots
      BY <1>1, SlotIs
    <2> QED
      BY <1>7, <1>14, <2>1
  <1>16. c \in Contents
    BY <1>7, <1>15, ContentsIs
  <1>17. Nested(c)
    <2> SUFFICES ASSUME NEW s \in DOMAIN c, Len(s) = 2
                 PROVE  ~c[s].multiple /\ <<s[1]>> \in DOMAIN c /\ c[<<s[1]>>].multiple
      BY DEF Nested
    <2>1. s = <<e, 0>> /\ s[1] = e
      BY <1>7
    <2> QED
      BY <1>7, <1>14, <2>1
  <1>18. Fixed("Device", c)
    <2>1. ASSUME NEW i, <<i>> \in DOMAIN c
          PROVE  c[<<i>>].multiple <=> i \in MultipleIds
      <3>1. i = r \/ i = e \/ i = b
        BY <1>7, <2>1
      <3> QED
        BY <1>3, <1>14, <3>1
    <2> QED
      BY <2>1, Zenon DEF Fixed
  <1>19. InitialContents("Device") = c
    BY Zenon DEF InitialContents, c
  <1>20. Complete("Device", c)
    BY <1>19, Zenon DEF Complete
  <1> QED
    BY <1>16, <1>17, <1>18, <1>20 DEF Shape, c

LEMMA FirmwareParamsAre ==
    /\ FirmwareSlot("Package") = <<0>> /\ FirmwareSlot("PackageUri") = <<1>>
    /\ FirmwareSlot("Update") = <<2>> /\ FirmwareSlot("State") = <<3>>
    /\ FirmwareSlot("UpdateResult") = <<5>>
    /\ DOMAIN FirmwareParams = {<<0>>, <<1>>, <<2>>}
    /\ FirmwareParams[<<0>>] = Leaf("OPAQUE", {"PUT"}, NoValue)
    /\ FirmwareParams[<<1>>] = Leaf("STRING", {"PUT"}, NoValue)
    /\ FirmwareParams[<<2>>] = Leaf("OPAQUE", {}, NoValue)
  <1>1. /\ FirmwareSlot("Package") = <<0>> /\ FirmwareSlot("PackageUri") = <<1>>
        /\ FirmwareSlot("Update") = <<2>> /\ FirmwareSlot("State") = <<3>>
        /\ FirmwareSlot("UpdateResult") = <<5>>
    BY FirmwareTable DEF FirmwareSlot
  <1> DEFINE package == FirmwareSlot("Package")
             uri == FirmwareSlot("PackageUri")
             update == FirmwareSlot("Update")
             leaf(slot) ==
                 CASE slot = package -> Leaf("OPAQUE", {"PUT"}, NoValue)
                   [] slot = uri -> Leaf("STRING", {"PUT"}, NoValue)
                   [] slot = update -> Leaf("OPAQUE", {}, NoValue)
  <1>2. {FirmwareSlot(n) : n \in {"Package", "PackageUri", "Update"}} = {package, uri, update}
    OBVIOUS
  <1>3. FirmwareParams = [slot \in {package, uri, update} |-> leaf(slot)]
    BY <1>2, Zenon DEF FirmwareParams
  <1>4. package # uri /\ package # update /\ uri # update
    BY <1>1
  <1> HIDE DEF package, uri, update
  <1>5. /\ leaf(package) = Leaf("OPAQUE", {"PUT"}, NoValue)
        /\ leaf(uri) = Leaf("STRING", {"PUT"}, NoValue)
        /\ leaf(update) = Leaf("OPAQUE", {}, NoValue)
    BY <1>4, Zenon
  <1> HIDE DEF leaf
  <1>6. /\ DOMAIN FirmwareParams = {package, uri, update}
        /\ FirmwareParams[package] = Leaf("OPAQUE", {"PUT"}, NoValue)
        /\ FirmwareParams[uri] = Leaf("STRING", {"PUT"}, NoValue)
        /\ FirmwareParams[update] = Leaf("OPAQUE", {}, NoValue)
    BY <1>3, <1>5
  <1> QED
    BY <1>1, <1>6 DEF package, uri, update

LEMMA FirmwareContentsAre ==
    ASSUME NEW params
    PROVE  LET c == FirmwareContents(params)
           IN  /\ c = [s \in DOMAIN c |-> c[s]]
               /\ DOMAIN c = {<<0>>, <<1>>, <<2>>, <<3>>, <<5>>}
               /\ \A s \in {<<0>>, <<1>>, <<2>>} : c[s] = params[s]
               /\ \A s \in {<<3>>, <<5>>} : c[s] = Leaf("INTEGER", GET, Text(0))
  <1> DEFINE leaf(slot) == IF slot \in {<<0>>, <<1>>, <<2>>} THEN params[slot]
                           ELSE Leaf("INTEGER", GET, Text(0))
             c == FirmwareContents(params)
  <1>1. {<<0>>, <<1>>, <<2>>} \cup {<<3>>, <<5>>} = {<<0>>, <<1>>, <<2>>, <<3>>, <<5>>}
    OBVIOUS
  <1>2. c = [slot \in {<<0>>, <<1>>, <<2>>, <<3>>, <<5>>} |-> leaf(slot)]
    BY <1>1, FirmwareParamsAre, Zenon DEF FirmwareContents
  <1>3. /\ \A s \in {<<0>>, <<1>>, <<2>>} : leaf(s) = params[s]
        /\ \A s \in {<<3>>, <<5>>} : leaf(s) = Leaf("INTEGER", GET, Text(0))
    OBVIOUS
  <1> HIDE DEF c, leaf
  <1>4. c = [s \in DOMAIN c |-> c[s]] /\ DOMAIN c = {<<0>>, <<1>>, <<2>>, <<3>>, <<5>>}
    BY <1>2
  <1>5. /\ \A s \in {<<0>>, <<1>>, <<2>>} : c[s] = params[s]
        /\ \A s \in {<<3>>, <<5>>} : c[s] = Leaf("INTEGER", GET, Text(0))
    BY <1>2, <1>3
  <1> QED
    BY <1>4, <1>5 DEF c

\* The static parameters keep their types, whatever they hold.
Params(params) ==
    \A s \in {<<0>>, <<1>>, <<2>>} :
        params[s] \in Leaves /\ ~params[s].multiple /\ params[s].type = FirmwareParams[s].type

LEMMA InitialParams == Params(FirmwareParams)
  <1>1. "OPAQUE" \in Types /\ "STRING" \in Types
    BY DEF Types
  <1> HIDE DEF Leaves
  <1> QED
    BY <1>1, FirmwareParamsAre, LeafIs, ValuesAre, OperationsAre DEF Params

LEMMA FirmwareContentsShape ==
    ASSUME NEW params, Params(params)
    PROVE  Shape("Firmware", FirmwareContents(params))
  <1> DEFINE c == FirmwareContents(params)
             i == FirmwareContents(FirmwareParams)
  <1> HIDE DEF Leaves
  <1>1. "INTEGER" \in Types
    BY DEF Types
  <1>2. /\ Leaf("INTEGER", GET, Text(0)) \in Leaves
        /\ ~Leaf("INTEGER", GET, Text(0)).multiple
    BY <1>1, LeafIs, ValuesAre, OperationsAre
  <1>3. /\ c = [s \in DOMAIN c |-> c[s]]
        /\ DOMAIN c = {<<0>>, <<1>>, <<2>>, <<3>>, <<5>>}
        /\ \A s \in {<<0>>, <<1>>, <<2>>} : c[s] = params[s]
        /\ \A s \in {<<3>>, <<5>>} : c[s] = Leaf("INTEGER", GET, Text(0))
    BY FirmwareContentsAre, Zenon
  <1>4. /\ DOMAIN i = {<<0>>, <<1>>, <<2>>, <<3>>, <<5>>}
        /\ \A s \in {<<0>>, <<1>>, <<2>>} : i[s] = FirmwareParams[s]
        /\ \A s \in {<<3>>, <<5>>} : i[s] = Leaf("INTEGER", GET, Text(0))
    BY FirmwareContentsAre, Zenon
  <1>5. InitialContents("Firmware") = i
    BY Zenon DEF InitialContents
  <1> HIDE DEF c, i
  <1>6. DOMAIN c = {<<0>>, <<1>>, <<2>>} \cup {<<3>>, <<5>>}
    BY <1>3
  <1>7. \A s \in DOMAIN c : c[s] \in Leaves /\ ~c[s].multiple /\ c[s].type = i[s].type
    BY <1>2, <1>3, <1>4, <1>6, Zenon DEF Params
  <1>8. \A s \in DOMAIN c : \E j \in Identifiers : s = <<j>>
    <2>1. /\ 0 \in Identifiers /\ 1 \in Identifiers /\ 2 \in Identifiers
          /\ 3 \in Identifiers /\ 5 \in Identifiers
      BY SMT DEF Identifiers
    <2> QED
      BY <1>3, <2>1, Zenon
  <1>9. Complete("Firmware", c)
    BY <1>3, <1>4, <1>5, <1>7 DEF Complete
  <1> QED
    BY <1>3, <1>7, <1>8, <1>9, ShapeSingles DEF c

LEMMA SecurityContentsShape ==
    ASSUME NEW kind \in {"Security", "Bootstrap"}
    PROVE  Shape(kind, SecurityContents(kind))
  <1> DEFINE c == SecurityContents(kind)
  <1> HIDE DEF Leaves
  <1>1. \A s : SecurityType(s) \in Types
    BY Zenon DEF SecurityType, Types
  <1>2. /\ DOMAIN c = {SecuritySlot(n) : n \in SecurityMandatory(kind)}
        /\ c = [s \in DOMAIN c |-> c[s]]
        /\ \A s \in DOMAIN c : c[s] = Leaf(SecurityType(s), {}, NoValue)
    BY DEF SecurityContents
  <1>3. InitialContents(kind) = c
    BY Zenon DEF InitialContents
  <1>4. \A s \in DOMAIN c : c[s] \in Leaves /\ ~c[s].multiple
    BY <1>1, <1>2, LeafIs, ValuesAre, OperationsAre
  <1>5. SecurityMandatory(kind) \subseteq DOMAIN SecurityId
    BY SecurityTable, SMT DEF SecurityMandatory, SecurityKeys
  <1>6. \A s \in DOMAIN c : \E j \in Identifiers : s = <<j>>
    BY <1>2, <1>5, SecurityIds DEF SecuritySlot
  <1> HIDE DEF c
  <1>7. Complete(kind, c)
    BY <1>3, Zenon DEF Complete
  <1> QED
    BY <1>2, <1>4, <1>6, <1>7, ShapeSingles DEF c

LEMMA ServerContentsShape ==
    ASSUME NEW kind \in {"Server", "InterfaceServer"}
    PROVE  Shape(kind, ServerContents)
  <1> DEFINE c == ServerContents
             leaf(slot) ==
                 CASE slot = ServerSlot("ShortServerID") -> Leaf("INTEGER", GET_PUT, NoValue)
                   [] slot = ServerSlot("Lifetime") -> Leaf("INTEGER", GET_PUT_POST, NoValue)
                   [] slot = ServerSlot("NotificationStorage") ->
                          Leaf("BOOLEAN", GET_PUT_POST, NoValue)
                   [] slot = ServerSlot("Binding") -> Leaf("STRING", GET_PUT_POST, NoValue)
                   [] slot = ServerSlot("RegistrationUpdate") ->
                          Leaf("OPAQUE", {"POST"}, NoValue)
             slots == {ServerSlot(n) : n \in ServerMandatory}
  <1> HIDE DEF Leaves
  <1>1. c = [slot \in slots |-> leaf(slot)]
    BY Zenon DEF ServerContents
  <1>2. /\ Leaf("INTEGER", GET_PUT, NoValue) \in Leaves
        /\ ~Leaf("INTEGER", GET_PUT, NoValue).multiple
        /\ Leaf("INTEGER", GET_PUT_POST, NoValue) \in Leaves
        /\ ~Leaf("INTEGER", GET_PUT_POST, NoValue).multiple
        /\ Leaf("BOOLEAN", GET_PUT_POST, NoValue) \in Leaves
        /\ ~Leaf("BOOLEAN", GET_PUT_POST, NoValue).multiple
        /\ Leaf("STRING", GET_PUT_POST, NoValue) \in Leaves
        /\ ~Leaf("STRING", GET_PUT_POST, NoValue).multiple
        /\ Leaf("OPAQUE", {"POST"}, NoValue) \in Leaves
        /\ ~Leaf("OPAQUE", {"POST"}, NoValue).multiple
    <2>1. "INTEGER" \in Types /\ "BOOLEAN" \in Types /\ "STRING" \in Types /\ "OPAQUE" \in Types
      BY DEF Types
    <2> QED
      BY <2>1, LeafIs, ValuesAre, OperationsAre
  <1>3. ASSUME NEW s \in slots
        PROVE  leaf(s) \in Leaves /\ ~leaf(s).multiple
    <2>1. \/ s = ServerSlot("ShortServerID") \/ s = ServerSlot("Lifetime")
          \/ s = ServerSlot("NotificationStorage") \/ s = ServerSlot("Binding")
          \/ s = ServerSlot("RegistrationUpdate")
      BY DEF ServerMandatory
    <2> QED
      BY <1>2, <2>1, Zenon
  <1>4. \A s \in slots : \E j \in Identifiers : s = <<j>>
    <2>1. ServerMandatory \subseteq DOMAIN ServerId
      BY ServerTable, SMT DEF ServerMandatory
    <2> QED
      BY <2>1, ServerIds DEF ServerSlot
  <1>5. InitialContents(kind) = c
    BY Zenon DEF InitialContents
  <1> HIDE DEF c, leaf, slots
  <1>6. c = [s \in DOMAIN c |-> c[s]] /\ DOMAIN c = slots /\ \A s \in slots : c[s] = leaf(s)
    BY <1>1
  <1>7. Complete(kind, c)
    BY <1>5, Zenon DEF Complete
  <1>8. \A s \in DOMAIN c : c[s] \in Leaves /\ ~c[s].multiple
    BY <1>3, <1>6
  <1> QED
    BY <1>4, <1>6, <1>7, <1>8, ShapeSingles DEF c

LEMMA InstanceContentsShape == Shape("Instance", <<>>)
  <1>1. InitialContents("Instance") = <<>>
    BY Zenon DEF InitialContents
  <1>2. DOMAIN <<>> = {} /\ <<>> = [s \in DOMAIN <<>> |-> <<>>[s]]
    OBVIOUS
  <1>3. Complete("Instance", <<>>)
    BY <1>1, <1>2, Zenon DEF Complete
  <1> QED
    BY <1>2, <1>3, ShapeSingles

\* What a class is made with has the shape of the class.
LEMMA InitialShape ==
    ASSUME NEW kind \in ObjectClasses
    PROVE  Shape(kind, InitialContents(kind))
  <1>1. CASE kind = "Device"
    BY <1>1, DeviceContentsShape, Zenon DEF InitialContents
  <1>2. CASE kind = "Firmware"
    BY <1>2, FirmwareContentsShape, InitialParams, Zenon DEF InitialContents
  <1>3. CASE kind \in {"Security", "Bootstrap"}
    <2>1. InitialContents(kind) = SecurityContents(kind)
      BY <1>3, Zenon DEF InitialContents
    <2> QED
      BY <1>3, <2>1, SecurityContentsShape
  <1>4. CASE kind \in {"Server", "InterfaceServer"}
    <2>1. InitialContents(kind) = ServerContents
      BY <1>4, Zenon DEF InitialContents
    <2> QED
      BY <1>4, <2>1, ServerContentsShape
  <1>5. CASE kind = "Instance"
    <2>1. InitialContents(kind) = <<>>
      BY <1>5, Zenon DEF InitialContents
    <2> QED
      BY <1>5, <2>1, InstanceContentsShape
  <1> QED
    BY <1>1, <1>2, <1>3, <1>4, <1>5 DEF ObjectClasses

-----------------------------------------------------------------------------
(* The operations the actions are made of.                                 *)

LEMMA ShapeAdd ==
    ASSUME NEW i \in Identifiers \cup {NoId}, ~Has(<<i>>), NEW type \in Types,
           NEW operation \in SUBSET AllOperations, NEW value \in Values,
           Shape(class, contents), class = "Device" => i \notin MultipleIds
    PROVE  Shape(class, Add(i, Leaf(type, operation, value)))
  <1> HIDE DEF Leaves, Contents
  <1>1. Leaf(type, operation, value) \in Leaves /\ ~Leaf(type, operation, value).multiple
    BY LeafIs
  <1>2. <<i>> \notin DOMAIN contents
    BY DEF Has
  <1> QED
    BY <1>1, <1>2, ShapeWith DEF Add

LEMMA ShapeAddInstance ==
    ASSUME NEW i \in Identifiers, NEW k \in Identifiers, ~Has(<<i, k>>),
           Has(<<i>>) => contents[<<i>>].multiple, NEW type \in Types,
           NEW operation \in SUBSET AllOperations, NEW value \in Values,
           Shape(class, contents), class # "Instance" => class = "Device" /\ i \in MultipleIds
    PROVE  Shape(class, AddInstance(i, k, Leaf(type, operation, value)))
  <1> DEFINE leaf == Leaf(type, operation, value)
             resource == MultipleResource(type)
             c == IF Has(<<i>>) THEN contents ELSE Add(i, resource)
  <1> HIDE DEF Leaves, Contents
  <1>1. leaf \in Leaves /\ leaf.type = type /\ ~leaf.multiple
    BY LeafIs
  <1>2. resource \in Leaves /\ resource.multiple
    BY MultipleIs
  <1>3. AddInstance(i, k, leaf) = With(c, <<i, k>>, leaf)
    BY <1>1 DEF AddInstance
  <1> HIDE DEF leaf, resource
  <1>4. Shape(class, c) /\ <<i>> \in DOMAIN c /\ c[<<i>>].multiple /\ <<i, k>> \notin DOMAIN c
    <2>1. CASE Has(<<i>>)
      BY <2>1 DEF Has
    <2>2. CASE ~Has(<<i>>)
      <3>1. c = With(contents, <<i>>, resource) /\ <<i>> \notin DOMAIN contents
        BY <2>2 DEF Add, Has
      <3>2. <<i>> \in Slots /\ contents \in Contents
        BY SlotIs DEF Shape
      <3> HIDE DEF c
      <3>3. DOMAIN c = DOMAIN contents \cup {<<i>>} /\ c[<<i>>] = resource
        BY <1>2, <3>1, <3>2, WithIs
      <3>4. Shape(class, c)
        BY <1>2, <3>1, ShapeWith
      <3>5. <<i, k>> # <<i>>
        OBVIOUS
      <3> QED
        BY <1>2, <3>3, <3>4, <3>5 DEF Has
    <2> QED
      BY <2>1, <2>2
  <1> HIDE DEF c
  <1>5. Shape(class, With(c, <<i, k>>, leaf))
    BY <1>1, <1>4, ShapeWithInstance
  <1> QED
    BY <1>3, <1>5 DEF leaf

LEMMA ShapeSetValue ==
    ASSUME NEW slot, Has(slot), NEW value \in Values, Shape(class, contents)
    PROVE  Shape(class, SetValue(slot, value))
  BY ShapeSet DEF Has, SetValue

Permitted(c, slot, operation) == [c EXCEPT ![slot].operation = operation]

LEMMA ShapeOperation ==
    ASSUME NEW kind, NEW c, Shape(kind, c), NEW slot \in DOMAIN c,
           NEW operation \in SUBSET AllOperations,
           NEW d, d = Permitted(c, slot, operation)
    PROVE  /\ Shape(kind, d)
           /\ DOMAIN d = DOMAIN c
           /\ d[slot].operation = operation
           /\ \A s \in DOMAIN c : /\ d[s].value = c[s].value
                                  /\ s # slot => d[s].operation = c[s].operation
  <1> DEFINE leaf == [c[slot] EXCEPT !.operation = operation]
  <1>1. c = [s \in DOMAIN c |-> c[s]] /\ \A s \in DOMAIN c : c[s] \in Leaves
    BY ContentsIs DEF Shape
  <1>2. d = [s \in DOMAIN c |-> IF s = slot THEN leaf ELSE c[s]]
    BY DEF Permitted
  <1>3. /\ leaf \in Leaves /\ leaf.type = c[slot].type /\ leaf.multiple = c[slot].multiple
        /\ leaf.value = c[slot].value /\ leaf.operation = operation
    BY <1>1 DEF Leaves
  <1> HIDE DEF leaf, Leaves, Slots
  <1>4. DOMAIN d = DOMAIN c /\ d = [s \in DOMAIN d |-> d[s]]
    BY <1>2
  <1>5. \A s \in DOMAIN c : d[s] = IF s = slot THEN leaf ELSE c[s]
    BY <1>2
  <1>6. \A s \in DOMAIN d : d[s] \in Leaves
    BY <1>1, <1>3, <1>4, <1>5
  <1>7. c \in Contents
    BY DEF Shape
  <1>8. d \in Contents
    BY <1>4, <1>6, <1>7, ContentsIs
  <1>9. \A s \in DOMAIN c : d[s].type = c[s].type /\ d[s].multiple = c[s].multiple
    BY <1>3, <1>5
  <1>10. Shape(kind, d)
    BY <1>4, <1>8, <1>9, ShapeSame
  <1> QED
    BY <1>3, <1>4, <1>5, <1>10

\* The same operation for all, as a bootstrap sets it.
LEMMA ShapeWithOperation ==
    ASSUME NEW kind, NEW c, Shape(kind, c), NEW operation \in SUBSET AllOperations
    PROVE  Shape(kind, WithOperation(c, operation))
  <1> DEFINE d == WithOperation(c, operation)
  <1>1. DOMAIN c \subseteq Slots /\ \A s \in DOMAIN c : c[s] \in Leaves
    BY ContentsIs DEF Shape
  <1>2. /\ DOMAIN d = DOMAIN c /\ d = [s \in DOMAIN d |-> d[s]]
        /\ \A s \in DOMAIN c : d[s] = [c[s] EXCEPT !.operation = operation]
    BY DEF WithOperation
  <1> HIDE DEF d
  <1>3. \A s \in DOMAIN c : /\ d[s] \in Leaves
                            /\ d[s].type = c[s].type
                            /\ d[s].multiple = c[s].multiple
    BY <1>1, <1>2 DEF Leaves
  <1> HIDE DEF Leaves, Slots
  <1>4. d \in Contents
    BY <1>1, <1>2, <1>3, ContentsIs
  <1>5. Shape(kind, d)
    BY <1>2, <1>3, <1>4, ShapeSame
  <1> QED
    BY <1>5 DEF d

LEMMA ShapeCleared ==
    ASSUME Shape(class, contents)
    PROVE  Shape(class, [slot \in DOMAIN contents |-> [contents[slot] EXCEPT !.value = NoValue]])
  <1> DEFINE c == contents
             d == [slot \in DOMAIN contents |-> [contents[slot] EXCEPT !.value = NoValue]]
  <1>1. DOMAIN c \subseteq Slots /\ \A s \in DOMAIN c : c[s] \in Leaves
    BY ContentsIs DEF Shape
  <1>2. /\ DOMAIN d = DOMAIN c /\ d = [s \in DOMAIN d |-> d[s]]
        /\ \A s \in DOMAIN c : d[s] = [c[s] EXCEPT !.value = NoValue]
    OBVIOUS
  <1> HIDE DEF d
  <1>3. \A s \in DOMAIN c : /\ d[s] \in Leaves
                            /\ d[s].type = c[s].type
                            /\ d[s].multiple = c[s].multiple
    BY <1>1, <1>2, ValuesAre DEF Leaves
  <1> HIDE DEF Leaves, Slots
  <1>4. d \in Contents
    BY <1>1, <1>2, <1>3, ContentsIs
  <1>5. Shape(class, d)
    BY <1>2, <1>3, <1>4, ShapeSame
  <1> QED
    BY <1>5 DEF d

\* What the object can do without may go.
LEMMA ShapeRemove ==
    ASSUME NEW i, Shape(class, contents), \A s \in DOMAIN InitialContents(class) : s[1] # i
    PROVE  Shape(class, RemoveResource(i))
  <1> DEFINE D == {s \in DOMAIN contents : s[1] # i}
  <1>1. \A s \in DOMAIN InitialContents(class) : s \in D
    BY DEF Shape, Complete
  <1>2. \A s \in D : Len(s) = 2 => <<s[1]>> \in D
    <2> SUFFICES ASSUME NEW s \in D, Len(s) = 2
                 PROVE  <<s[1]>> \in D
      OBVIOUS
    <2>1. <<s[1]>> \in DOMAIN contents
      BY DEF Shape, Nested
    <2> QED
      BY <2>1
  <1>3. D \in SUBSET DOMAIN contents
    OBVIOUS
  <1> HIDE DEF D
  <1>4. Shape(class, Restrict(contents, D))
    BY <1>1, <1>2, <1>3, ShapeRestrict
  <1> QED
    BY <1>4 DEF RemoveResource, D

LEMMA ShapeRemoveInstance ==
    ASSUME NEW i, NEW k, Shape(class, contents), \A s \in DOMAIN InitialContents(class) : s[1] # i
    PROVE  Shape(class, RemoveResourceInstance(i, k))
  <1> DEFINE D == DOMAIN contents \ {<<i, k>>}
  <1>1. \A s \in DOMAIN InitialContents(class) : s \in D
    BY DEF Shape, Complete
  <1>2. \A s \in D : Len(s) = 2 => <<s[1]>> \in D
    <2> SUFFICES ASSUME NEW s \in D, Len(s) = 2
                 PROVE  <<s[1]>> \in D
      OBVIOUS
    <2>1. <<s[1]>> \in DOMAIN contents
      BY DEF Shape, Nested
    <2>2. <<s[1]>> # <<i, k>>
      OBVIOUS
    <2> QED
      BY <2>1, <2>2
  <1>3. D \in SUBSET DOMAIN contents
    OBVIOUS
  <1> HIDE DEF D
  <1>4. Shape(class, Restrict(contents, D))
    BY <1>1, <1>2, <1>3, ShapeRestrict
  <1>5. Shape(class, RemoveResource(i))
    BY ShapeRemove
  <1> QED
    BY <1>4, <1>5 DEF RemoveResourceInstance, D

-----------------------------------------------------------------------------
(* M2MDevice.                                                              *)

LEMMA DeviceMade ==
    ASSUME NEW n \in DOMAIN DeviceId, n \notin DeviceMandatory
    PROVE  \A s \in DOMAIN InitialContents("Device") : s[1] # DeviceId[n]
  <1>1. InitialContents("Device") = DeviceContents
    BY Zenon DEF InitialContents
  <1>2. DOMAIN DeviceContents
            = {<<DeviceId[m]>> : m \in DeviceMandatory} \cup {<<DeviceId["ErrorCode"], 0>>}
    BY DEF DeviceContents
  <1>3. "ErrorCode" \in DeviceMandatory
    BY DEF DeviceMandatory
  <1>4. \A m \in DeviceMandatory : DeviceId[m] # DeviceId[n]
    BY DeviceIds, Zenon
  <1>5. \A s \in DOMAIN DeviceContents : \E m \in DeviceMandatory : s[1] = DeviceId[m]
    BY <1>2, <1>3
  <1> QED
    BY <1>1, <1>4, <1>5

LEMMA DeviceGroups ==
    /\ DeviceStrings \cap DeviceMultiples = {}
    /\ DeviceIntegers \cap DeviceMultiples = {}
    /\ {"FactoryReset", "ResetErrorCode"} \cap DeviceMultiples = {}
  BY SMT DEF DeviceStrings, DeviceIntegers, DeviceMultiples

LEMMA DeviceSlotIs ==
    ASSUME Shape("Device", contents), NEW n \in DOMAIN DeviceId, NEW k, n \notin DeviceMultiples
    PROVE  DeviceSlot(n, k) = <<DeviceId[n]>>
  <1>1. DeviceId[n] \notin MultipleIds
    BY DeviceIds
  <1>2. Has(<<DeviceId[n]>>) => ~contents[<<DeviceId[n]>>].multiple
    BY <1>1, Zenon DEF Shape, Fixed, Has
  <1> QED
    BY <1>2 DEF DeviceSlot

LEMMA DeviceAdds ==
    ASSUME class = "Device", Shape(class, contents), NEW n \in DOMAIN DeviceId,
           n \notin DeviceMultiples, ~Has(DeviceSlot(n, 0)), NEW type \in Types,
           NEW operation \in SUBSET AllOperations, NEW value \in Values
    PROVE  Shape(class, Add(DeviceId[n], Leaf(type, operation, value)))
  <1>1. DeviceId[n] \in Identifiers /\ DeviceId[n] \notin MultipleIds
    BY DeviceIds
  <1>2. ~Has(<<DeviceId[n]>>)
    BY DeviceSlotIs, Zenon
  <1> QED
    BY <1>1, <1>2, ShapeAdd

\* Whatever the application does with an M2MDevice.
LEMMA DeviceKeeps ==
    ASSUME Shape(class, contents), Device
    PROVE  Shape(class', contents')
  <1>1. class = "Device" /\ class' = class
    BY DEF Device
  <1>2. /\ "STRING" \in Types /\ "INTEGER" \in Types /\ "OPAQUE" \in Types
    BY DEF Types
  <1>3. \A v \in Numbers : Text(v) \in Values
    BY ObjectsAssumption, ValuesAre
  <1>4. InstanceIds \subseteq Identifiers
    BY ObjectsAssumption
  <1>5. \A n \in DeviceNames : n \in DOMAIN DeviceId
    BY DEF DeviceNames
  <1>6. ASSUME NEW n \in DeviceNames, NEW s \in Strings, DeviceCreateString(n, s)
        PROVE  Shape(class, contents')
    <2>1. n \in DOMAIN DeviceId /\ n \notin DeviceMultiples
      BY <1>5, <1>6, DeviceGroups DEF DeviceCreateString
    <2> DEFINE operation == IF n \in {"UTCOffset", "Timezone"} THEN GET_PUT ELSE GET
    <2>2. operation \in SUBSET AllOperations
      BY OperationsAre
    <2>3. s \in Values
      BY ValuesAre
    <2>4. ~Has(DeviceSlot(n, 0)) /\ contents' = Add(DeviceId[n], Leaf("STRING", operation, s))
      BY <1>6 DEF DeviceCreateString
    <2> HIDE DEF operation
    <2> QED
      BY <1>1, <1>2, <2>1, <2>2, <2>3, <2>4, DeviceAdds
  <1>7. ASSUME NEW n \in DeviceNames, NEW s \in Strings, NEW k \in InstanceIds,
               DeviceSetString(n, s, k)
        PROVE  Shape(class, contents')
    BY <1>7, ShapeSetValue, ValuesAre DEF DeviceSetString
  <1>8. ASSUME NEW n \in DeviceNames, NEW v \in Numbers, DeviceCreateInteger(n, v)
        PROVE  Shape(class, contents')
    <2>1. n \in DOMAIN DeviceId /\ n \notin DeviceMultiples
      BY <1>5, <1>8, DeviceGroups DEF DeviceCreateInteger
    <2> DEFINE operation == IF n = "CurrentTime" THEN GET_PUT ELSE GET
    <2>2. operation \in SUBSET AllOperations
      BY OperationsAre
    <2>3. /\ ~Has(DeviceSlot(n, 0))
          /\ contents' = Add(DeviceId[n], Leaf("INTEGER", operation, Text(v)))
      BY <1>8 DEF DeviceCreateInteger
    <2> HIDE DEF operation
    <2> QED
      BY <1>1, <1>2, <1>3, <2>1, <2>2, <2>3, DeviceAdds
  <1>9. ASSUME NEW n \in DeviceNames, NEW v \in Numbers, NEW k \in InstanceIds,
               DeviceCreateInstance(n, v, k)
        PROVE  Shape(class, contents')
    <2>1. n \in DeviceMultiples /\ ~Has(<<DeviceId[n], k>>)
      BY <1>9 DEF DeviceCreateInstance
    <2>2. contents' = AddInstance(DeviceId[n], k, Leaf("INTEGER", GET, Text(v)))
      BY <1>9 DEF DeviceCreateInstance
    <2>3. DeviceId[n] \in Identifiers /\ DeviceId[n] \in MultipleIds
      BY <1>5, <2>1, DeviceIds
    <2>4. Has(<<DeviceId[n]>>) => contents[<<DeviceId[n]>>].multiple
      BY <1>1, <2>3, Zenon DEF Shape, Fixed, Has
    <2> QED
      BY <1>1, <1>2, <1>3, <1>4, <2>1, <2>2, <2>3, <2>4, OperationsAre, ShapeAddInstance
  <1>10. ASSUME NEW n \in DeviceNames, NEW v \in Numbers, NEW k \in InstanceIds,
                DeviceSetInteger(n, v, k)
         PROVE  Shape(class, contents')
    BY <1>3, <1>10, ShapeSetValue DEF DeviceSetInteger
  <1>11. ASSUME NEW n \in DeviceNames, DeviceCreateExecutable(n)
         PROVE  Shape(class, contents')
    <2>1. n \in DOMAIN DeviceId /\ n \notin DeviceMultiples
      BY <1>5, <1>11, DeviceGroups DEF DeviceCreateExecutable
    <2>2. /\ ~Has(DeviceSlot(n, 0))
          /\ contents' = Add(DeviceId[n], Leaf("OPAQUE", {"POST"}, NoValue))
      BY <1>11 DEF DeviceCreateExecutable
    <2> QED
      BY <1>1, <1>2, <2>1, <2>2, OperationsAre, ValuesAre, DeviceAdds
  <1>12. ASSUME NEW n \in DeviceNames, DeviceDelete(n)
         PROVE  Shape(class, contents')
    <2>1. \A s \in DOMAIN InitialContents(class) : s[1] # DeviceId[n]
      BY <1>1, <1>5, <1>12, DeviceMade DEF DeviceDelete
    <2> QED
      BY <1>12, <2>1, ShapeRemove DEF DeviceDelete
  <1>13. ASSUME NEW n \in DeviceNames, NEW k \in InstanceIds, DeviceDeleteInstance(n, k)
         PROVE  Shape(class, contents')
    <2>1. \A s \in DOMAIN InitialContents(class) : s[1] # DeviceId[n]
      BY <1>1, <1>5, <1>13, DeviceMade DEF DeviceDeleteInstance
    <2> QED
      BY <1>13, <2>1, ShapeRemoveInstance DEF DeviceDeleteInstance
  <1>14. ASSUME DeviceRenew
         PROVE  Shape(class, contents')
    BY <1>1, <1>14, DeviceContentsShape DEF DeviceRenew
  <1> QED
    BY <1>1, <1>6, <1>7, <1>8, <1>9, <1>10, <1>11, <1>12, <1>13, <1>14 DEF Device

-----------------------------------------------------------------------------
(* M2MFirmware.                                                            *)

\* Servers do not write State, and as long as it says that the package is there Update
\* may be executed.
Ready(kind, c) ==
    kind = "Firmware" =>
        /\ c[<<3>>].operation = GET
        /\ GetValueInt(c[<<3>>].value) = Downloaded => c[<<2>>].operation = {"POST"}

LEMMA FirmwareMade ==
    ASSUME class = "Firmware", Shape(class, contents)
    PROVE  /\ {<<0>>, <<1>>, <<2>>, <<3>>, <<5>>} \subseteq DOMAIN contents
           /\ Params(contents)
           /\ DOMAIN InitialContents("Firmware") = {<<0>>, <<1>>, <<2>>, <<3>>, <<5>>}
  <1> DEFINE i == FirmwareContents(FirmwareParams)
  <1>1. /\ DOMAIN i = {<<0>>, <<1>>, <<2>>, <<3>>, <<5>>}
        /\ \A s \in {<<0>>, <<1>>, <<2>>} : i[s] = FirmwareParams[s]
    BY FirmwareContentsAre, Zenon
  <1>2. InitialContents("Firmware") = i
    BY Zenon DEF InitialContents
  <1> HIDE DEF i, Leaves
  <1>3. \A s \in {<<0>>, <<1>>, <<2>>, <<3>>, <<5>>} :
            s \in DOMAIN contents /\ contents[s].type = i[s].type
    BY <1>1, <1>2, Zenon DEF Shape, Complete
  <1>4. \A s \in DOMAIN contents : contents[s] \in Leaves
    BY ContentsIs DEF Shape
  <1>5. \A j : <<j>> \in DOMAIN contents => ~contents[<<j>>].multiple
    BY Zenon DEF Shape, Fixed
  <1>6. Params(contents)
    BY <1>1, <1>3, <1>4, <1>5, SMT DEF Params
  <1> QED
    BY <1>1, <1>2, <1>3, <1>6

LEMMA FirmwareAdds ==
    ASSUME class = "Firmware", Shape(class, contents),
           NEW n \in DOMAIN FirmwareId, ~Has(FirmwareSlot(n)), NEW type \in Types,
           NEW operation \in SUBSET AllOperations, NEW value \in Values
    PROVE  LET d == Add(FirmwareId[n], Leaf(type, operation, value))
           IN  Shape(class, d) /\ (Ready(class, contents) => Ready(class, d))
  <1> DEFINE i == FirmwareId[n]
             leaf == Leaf(type, operation, value)
             d == Add(i, leaf)
  <1> HIDE DEF Leaves
  <1>1. i \in Identifiers /\ <<i>> \notin DOMAIN contents
    BY FirmwareIds DEF FirmwareSlot, Has
  <1>2. leaf \in Leaves /\ ~leaf.multiple
    BY LeafIs
  <1> HIDE DEF leaf, i
  <1>3. /\ Shape(class, d)
        /\ \A s \in DOMAIN contents : s \in DOMAIN d /\ d[s] = contents[s]
    BY <1>1, <1>2, ShapeWith DEF Add
  <1> HIDE DEF d
  <1>4. d[<<3>>] = contents[<<3>>] /\ d[<<2>>] = contents[<<2>>]
    BY <1>3, FirmwareMade
  <1>5. Ready(class, contents) => Ready(class, d)
    BY <1>4 DEF Ready
  <1> QED
    BY <1>3, <1>5 DEF d, i, leaf

LEMMA FirmwareSets ==
    ASSUME class = "Firmware", Shape(class, contents), NEW slot, Has(slot),
           NEW value \in Values
    PROVE  LET d == SetValue(slot, value)
           IN  /\ Shape(class, d)
               /\ <<2>> \in DOMAIN d /\ <<3>> \in DOMAIN d
               /\ d[<<3>>].operation = contents[<<3>>].operation
               /\ slot = <<3>> => d[<<3>>].value = value
               /\ slot # <<3>> /\ Ready(class, contents) => Ready(class, d)
  <1> DEFINE d == SetValue(slot, value)
  <1>1. <<2>> \in DOMAIN contents /\ <<3>> \in DOMAIN contents
    BY FirmwareMade
  <1>2. /\ Shape(class, d)
        /\ DOMAIN d = DOMAIN contents
        /\ d[slot].value = value
        /\ \A s \in DOMAIN contents : /\ d[s].operation = contents[s].operation
                                      /\ s # slot => d[s].value = contents[s].value
    BY ShapeSet DEF SetValue, Has
  <1> HIDE DEF d
  <1>3. /\ d[<<3>>].operation = contents[<<3>>].operation
        /\ d[<<2>>].operation = contents[<<2>>].operation
        /\ slot # <<3>> => d[<<3>>].value = contents[<<3>>].value
    BY <1>1, <1>2
  <1>4. slot # <<3>> /\ Ready(class, contents) => Ready(class, d)
    BY <1>3 DEF Ready
  <1> QED
    BY <1>1, <1>2, <1>3, <1>4 DEF d

\* Whatever the application does with an M2MFirmware.
LEMMA FirmwareKeeps ==
    ASSUME Shape(class, contents), Firmware
    PROVE  /\ Shape(class', contents')
           /\ Ready(class, contents) => Ready(class', contents')
  <1> DEFINE Kept(d) == Shape(class, d) /\ (Ready(class, contents) => Ready(class, d))
  <1>1. class = "Firmware" /\ class' = class
    BY DEF Firmware
  <1>2. "STRING" \in Types /\ "INTEGER" \in Types
    BY DEF Types
  <1>3. \A v \in Numbers : Text(v) \in Values
    BY ObjectsAssumption, ValuesAre
  <1>4. \A n \in FirmwareNames : n \in DOMAIN FirmwareId
    BY DEF FirmwareNames
  <1>5. FirmwareSlot("State") = <<3>> /\ FirmwareSlot("Update") = <<2>>
    BY FirmwareParamsAre
  <1>6. \A n \in DOMAIN FirmwareId : FirmwareSlot(n) = <<3>> <=> n = "State"
    BY FirmwareIds DEF FirmwareSlot
  <1>7. ASSUME NEW n \in FirmwareNames, NEW s \in Strings, FirmwareCreateString(n, s)
        PROVE  Kept(contents')
    BY <1>1, <1>2, <1>4, <1>7, FirmwareAdds, ValuesAre, OperationsAre DEF FirmwareCreateString
  <1>8. ASSUME NEW n \in FirmwareNames, NEW s \in Strings, FirmwareSetString(n, s)
        PROVE  Kept(contents')
    <2>1. FirmwareSlot(n) # <<3>>
      BY <1>4, <1>6, <1>8 DEF FirmwareSetString
    <2>2. Has(FirmwareSlot(n)) /\ contents' = SetValue(FirmwareSlot(n), s) /\ s \in Values
      BY <1>8, ValuesAre DEF FirmwareSetString
    <2> QED
      BY <1>1, <2>1, <2>2, FirmwareSets
  <1>9. ASSUME NEW n \in FirmwareNames, NEW v \in Numbers, FirmwareCreateInteger(n, v)
        PROVE  Kept(contents')
    BY <1>1, <1>2, <1>3, <1>4, <1>9, FirmwareAdds, OperationsAre DEF FirmwareCreateInteger
  <1>10. ASSUME NEW n \in FirmwareNames, NEW v \in Numbers, FirmwareSetInteger(n, v)
         PROVE  Kept(contents')
    <2> DEFINE c == SetValue(FirmwareSlot(n), Text(v))
    <2>1. /\ Shape(class, c)
          /\ <<2>> \in DOMAIN c /\ <<3>> \in DOMAIN c
          /\ c[<<3>>].operation = contents[<<3>>].operation
          /\ FirmwareSlot(n) = <<3>> => c[<<3>>].value = Text(v)
          /\ FirmwareSlot(n) # <<3>> /\ Ready(class, contents) => Ready(class, c)
      BY <1>1, <1>3, <1>10, FirmwareSets DEF FirmwareSetInteger
    <2>2. contents' = FirmwareCheckValueRange(n, v, c)
      BY <1>10 DEF FirmwareSetInteger
    <2> HIDE DEF c
    <2>3. CASE n = "State"
      <3> DEFINE operation == IF v = Downloaded THEN {"POST"} ELSE {}
                 d == FirmwareCheckValueRange(n, v, c)
      <3>1. d = Permitted(c, <<2>>, operation)
        BY <1>5, <2>3 DEF FirmwareCheckValueRange, Permitted
      <3>2. operation \in SUBSET AllOperations
        BY OperationsAre
      <3>3. v = Downloaded => operation = {"POST"}
        OBVIOUS
      <3> HIDE DEF operation, d
      <3>4. /\ Shape(class, d)
            /\ d[<<2>>].operation = operation
            /\ \A s \in DOMAIN c : /\ d[s].value = c[s].value
                                   /\ s # <<2>> => d[s].operation = c[s].operation
        BY <2>1, <3>1, <3>2, ShapeOperation
      <3>5. <<2>> # <<3>>
        OBVIOUS
      <3>6. d[<<3>>].operation = contents[<<3>>].operation /\ d[<<3>>].value = Text(v)
        BY <1>5, <2>1, <2>3, <3>4, <3>5
      <3>7. GetValueInt(d[<<3>>].value) = v
        BY <3>6, ValuesAre
      <3>8. Ready(class, contents) => Ready(class, d)
        BY <1>1, <3>3, <3>4, <3>6, <3>7 DEF Ready
      <3> QED
        BY <2>2, <3>4, <3>8 DEF d
    <2>4. CASE n # "State"
      <3>1. contents' = c
        BY <2>2, <2>4 DEF FirmwareCheckValueRange
      <3> QED
        BY <1>4, <1>6, <2>1, <2>4, <3>1
    <2> QED
      BY <2>3, <2>4
  <1>11. ASSUME NEW s \in Strings, FirmwareSetBuffer(s)
         PROVE  Kept(contents')
    <2>1. FirmwareSlot("Package") = <<0>> /\ <<0>> # <<3>>
      BY FirmwareParamsAre
    <2>2. Has(<<0>>)
      BY <1>1, FirmwareMade DEF Has
    <2>3. contents' = SetValue(<<0>>, s) /\ s \in Values
      BY <1>11, <2>1, ValuesAre DEF FirmwareSetBuffer
    <2> QED
      BY <1>1, <2>1, <2>2, <2>3, FirmwareSets
  <1>12. ASSUME NEW n \in FirmwareNames, FirmwareDelete(n)
         PROVE  Kept(contents')
    <2> DEFINE i == FirmwareId[n]
               d == RemoveResource(i)
    <2>1. i \notin {0, 1, 2, 3, 5}
      BY <1>4, <1>12, FirmwareIds DEF FirmwareDelete
    <2>2. DOMAIN InitialContents("Firmware") = {<<0>>, <<1>>, <<2>>, <<3>>, <<5>>}
      BY <1>1, FirmwareMade
    <2> HIDE DEF i
    <2>3. \A s \in DOMAIN InitialContents(class) : s[1] # i
      BY <1>1, <2>1, <2>2
    <2>4. Shape(class, d)
      BY <2>3, ShapeRemove
    <2>5. <<2>> \in DOMAIN contents /\ <<3>> \in DOMAIN contents
      BY <1>1, FirmwareMade
    <2>6. d[<<2>>] = contents[<<2>>] /\ d[<<3>>] = contents[<<3>>]
      BY <2>1, <2>5 DEF RemoveResource, Restrict
    <2> HIDE DEF d
    <2>7. Ready(class, contents) => Ready(class, d)
      BY <2>6 DEF Ready
    <2> QED
      BY <1>12, <2>4, <2>7 DEF FirmwareDelete, d, i
  <1>13. ASSUME FirmwareRenew
         PROVE  Kept(contents')
    <2> DEFINE d == FirmwareContents(contents)
    <2>1. Shape(class, d)
      BY <1>1, FirmwareMade, FirmwareContentsShape
    <2>2. d[<<3>>] = Leaf("INTEGER", GET, Text(0))
      BY FirmwareContentsAre, Zenon
    <2>3. d[<<3>>].operation = GET /\ GetValueInt(d[<<3>>].value) = 0
      BY <1>2, <2>2, LeafIs, ValuesAre, OperationsAre
    <2> HIDE DEF d
    <2>4. Ready(class, d)
      BY <2>3 DEF Ready, Downloaded
    <2> QED
      BY <1>13, <2>1, <2>4 DEF FirmwareRenew, d
  <1> QED
    BY <1>1, <1>7, <1>8, <1>9, <1>10, <1>11, <1>12, <1>13 DEF Firmware

-----------------------------------------------------------------------------
(* M2MSecurity, M2MServer and an instance of the application's own.        *)

LEMMA SecurityMade ==
    ASSUME NEW kind \in {"Security", "Bootstrap"}
    PROVE  /\ DOMAIN InitialContents(kind) = {SecuritySlot(n) : n \in SecurityMandatory(kind)}
           /\ SecurityMandatory(kind) \subseteq DOMAIN SecurityId
           /\ \A n \in DOMAIN SecurityId :
                  SecuritySlot(n) \notin DOMAIN InitialContents(kind) =>
                      \A s \in DOMAIN InitialContents(kind) : s[1] # SecurityId[n]
  <1>1. InitialContents(kind) = SecurityContents(kind)
    BY Zenon DEF InitialContents
  <1>2. DOMAIN SecurityContents(kind) = {SecuritySlot(n) : n \in SecurityMandatory(kind)}
    BY DEF SecurityContents
  <1>3. SecurityMandatory(kind) \subseteq DOMAIN SecurityId
    BY SecurityTable, SMT DEF SecurityMandatory, SecurityKeys
  <1>4. ASSUME NEW n, NEW s \in DOMAIN SecurityContents(kind), s[1] = SecurityId[n]
        PROVE  s = SecuritySlot(n)
    BY <1>2, <1>4 DEF SecuritySlot
  <1> QED
    BY <1>1, <1>2, <1>3, <1>4

\* Whatever the application and a bootstrap's DELETE do with an M2MSecurity.
LEMMA SecurityKeeps ==
    ASSUME Shape(class, contents), Security
    PROVE  Shape(class', contents')
  <1>1. class \in {"Security", "Bootstrap"} /\ class' = class
    BY DEF Security
  <1>2. "INTEGER" \in Types
    BY DEF Types
  <1>3. \A v \in Numbers : Text(v) \in Values /\ Binary(v) \in Values
    BY ObjectsAssumption, ValuesAre
  <1>4. \A n \in SecurityNames : n \in DOMAIN SecurityId /\ SecurityId[n] \in Identifiers
    BY SecurityIds DEF SecurityNames
  <1>5. ASSUME NEW n \in SecurityNames, NEW v \in Numbers, SecurityCreate(n, v)
        PROVE  Shape(class, contents')
    <2>1. ~Has(<<SecurityId[n]>>)
      BY <1>5 DEF SecurityCreate, SecuritySlot
    <2>2. contents' = Add(SecurityId[n], Leaf("INTEGER", {}, Text(v)))
      BY <1>5 DEF SecurityCreate
    <2> QED
      BY <1>1, <1>2, <1>3, <1>4, <2>1, <2>2, ShapeAdd, OperationsAre
  <1>6. ASSUME NEW n \in SecurityNames, NEW v \in Numbers, SecuritySetInteger(n, v)
        PROVE  Shape(class, contents')
    BY <1>3, <1>6, ShapeSetValue DEF SecuritySetInteger
  <1>7. ASSUME NEW n \in SecurityNames, SecurityDelete(n)
        PROVE  Shape(class, contents')
    <2>1. n \notin SecurityMandatory(class)
      BY <1>1, <1>7, SMT
         DEF SecurityDelete, SecurityIntegers, SecurityMandatory, SecurityKeys
    <2>2. ASSUME NEW m \in SecurityMandatory(class)
          PROVE  SecurityId[m] # SecurityId[n]
      <3>1. m \in DOMAIN SecurityId /\ n \in DOMAIN SecurityId
        BY <1>1, <1>4, <2>2, SecurityMade
      <3>2. m # n
        BY <2>1, <2>2
      <3> QED
        BY <3>1, <3>2, SecurityTable, SMT
    <2>3. SecuritySlot(n) \notin DOMAIN InitialContents(class)
      BY <1>1, <2>2, SecurityMade DEF SecuritySlot
    <2>4. \A s \in DOMAIN InitialContents(class) : s[1] # SecurityId[n]
      BY <1>1, <1>4, <2>3, SecurityMade
    <2> QED
      BY <1>7, <2>4, ShapeRemove DEF SecurityDelete
  <1>8. ASSUME NEW n \in SecurityNames, NEW s \in Strings, SecuritySetBytes(n, s)
        PROVE  Shape(class, contents')
    <2>1. n \in SecurityMandatory(class)
      BY <1>8 DEF SecuritySetBytes, SecurityMandatory
    <2>2. SecuritySlot(n) \in DOMAIN InitialContents(class)
      BY <1>1, <2>1, SecurityMade
    <2>3. Has(SecuritySlot(n))
      BY <2>2 DEF Shape, Complete, Has
    <2> QED
      BY <1>8, <2>3, ShapeSetValue, ValuesAre DEF SecuritySetBytes
  <1>9. ASSUME SecurityClear
        PROVE  Shape(class, contents')
    BY <1>9, ShapeCleared DEF SecurityClear
  <1> QED
    BY <1>1, <1>5, <1>6, <1>7, <1>8, <1>9 DEF Security

\* Whatever the application does with an M2MServer.
LEMMA ServerKeeps ==
    ASSUME Shape(class, contents), Server
    PROVE  Shape(class', contents')
  <1>1. class = "Server" /\ class' = class
    BY DEF Server
  <1>2. "INTEGER" \in Types /\ "OPAQUE" \in Types
    BY DEF Types
  <1>3. \A v \in Numbers : Text(v) \in Values
    BY ObjectsAssumption, ValuesAre
  <1>4. \A n \in ServerNames : n \in DOMAIN ServerId /\ ServerId[n] \in Identifiers
    BY ServerIds DEF ServerNames
  <1>5. DOMAIN InitialContents("Server") = {ServerSlot(n) : n \in ServerMandatory}
    <2>1. InitialContents("Server") = ServerContents
      BY Zenon DEF InitialContents
    <2> QED
      BY <2>1 DEF ServerContents
  <1>6. ServerMandatory \subseteq DOMAIN ServerId
    BY ServerTable, SMT DEF ServerMandatory
  <1>7. ASSUME NEW n \in ServerNames, NEW v \in Numbers, ServerCreateInteger(n, v)
        PROVE  Shape(class, contents')
    <2>1. ~Has(<<ServerId[n]>>)
      BY <1>7 DEF ServerCreateInteger, ServerSlot
    <2>2. contents' = Add(ServerId[n], Leaf("INTEGER", GET_PUT_POST, Text(v)))
      BY <1>7 DEF ServerCreateInteger
    <2> QED
      BY <1>1, <1>2, <1>3, <1>4, <2>1, <2>2, ShapeAdd, OperationsAre
  <1>8. ASSUME NEW n \in ServerNames, NEW v \in Numbers, ServerSetInteger(n, v)
        PROVE  Shape(class, contents')
    BY <1>3, <1>8, ShapeSetValue DEF ServerSetInteger
  <1>9. ASSUME NEW n \in ServerNames, ServerCreateExecutable(n)
        PROVE  Shape(class, contents')
    <2>1. ~Has(<<ServerId[n]>>)
      BY <1>9 DEF ServerCreateExecutable, ServerSlot
    <2>2. contents' = Add(ServerId[n], Leaf("OPAQUE", {"POST"}, NoValue))
      BY <1>9 DEF ServerCreateExecutable
    <2> QED
      BY <1>1, <1>2, <1>4, <2>1, <2>2, ShapeAdd, OperationsAre, ValuesAre
  <1>10. ASSUME NEW n \in ServerNames, ServerDelete(n)
         PROVE  Shape(class, contents')
    <2>1. n \notin ServerMandatory
      BY <1>10, SMT DEF ServerDelete, ServerPeriods, ServerMandatory
    <2>2. \A m \in ServerMandatory : ServerId[m] # ServerId[n]
      BY <1>4, <1>6, <2>1, ServerIds
    <2>3. \A s \in DOMAIN InitialContents(class) : s[1] # ServerId[n]
      BY <1>1, <1>5, <2>2 DEF ServerSlot
    <2> QED
      BY <1>10, <2>3, ShapeRemove DEF ServerDelete
  <1>11. ASSUME NEW s \in Strings, ServerSetString(s)
         PROVE  Shape(class, contents')
    <2>1. ServerSlot("Binding") \in DOMAIN InitialContents(class)
      BY <1>1, <1>5 DEF ServerMandatory
    <2>2. Has(ServerSlot("Binding"))
      BY <2>1 DEF Shape, Complete, Has
    <2> QED
      BY <1>11, <2>2, ShapeSetValue, ValuesAre DEF ServerSetString
  <1> QED
    BY <1>1, <1>7, <1>8, <1>9, <1>10, <1>11 DEF Server

\* Whatever the application does with an instance of its own.
LEMMA InstanceKeeps ==
    ASSUME Shape(class, contents), Instance
    PROVE  Shape(class', contents')
  <1>1. class = "Instance" /\ class' = class
    BY DEF Instance
  <1>2. "STRING" \in Types /\ "INTEGER" \in Types
    BY DEF Types
  <1>3. 0 \in Identifiers /\ 1 \in Identifiers /\ InstanceIds \subseteq Identifiers
    BY ObjectsAssumption, SmallIdentifiers, SMT
  <1>4. InitialContents(class) = <<>>
    BY <1>1, Zenon DEF InitialContents
  <1>5. \A i : \A s \in DOMAIN InitialContents(class) : s[1] # i
    BY <1>4
  <1>6. ASSUME NEW i \in {1, NoId}, NEW type \in Types, NEW operation \in SUBSET AllOperations,
               CreateResource(i, type, operation)
        PROVE  Shape(class, contents')
    <2>1. i \in Identifiers \cup {NoId}
      BY <1>3
    <2> QED
      BY <1>1, <1>6, <2>1, ShapeAdd, ValuesAre DEF CreateResource
  <1>7. ASSUME NEW k \in InstanceIds, NEW operation \in SUBSET AllOperations,
               CreateResourceInstance(0, k, "INTEGER", operation)
        PROVE  Shape(class, contents')
    <2>1. /\ ~Has(<<0, k>>)
          /\ Has(<<0>>) => contents[<<0>>].multiple
          /\ contents' = AddInstance(0, k, Leaf("INTEGER", operation, NoValue))
      BY <1>7 DEF CreateResourceInstance
    <2> QED
      BY <1>1, <1>2, <1>3, <2>1, ShapeAddInstance, ValuesAre
  <1>8. ASSUME NEW slot \in DOMAIN contents, NEW value \in {NoValue, Text(Sample)},
               SetLeafValue(slot, value)
        PROVE  Shape(class, contents')
    <2>1. value \in Values
      BY ObjectsAssumption, ValuesAre
    <2> QED
      BY <1>8, <2>1, ShapeSetValue DEF SetLeafValue
  <1>9. ASSUME NEW slot \in DOMAIN contents, Remove(slot)
        PROVE  Shape(class, contents')
    <2>1. Shape(class, RemoveResource(slot[1]))
      BY <1>5, ShapeRemove
    <2>2. Shape(class, RemoveResourceInstance(slot[1], slot[2]))
      BY <1>5, ShapeRemoveInstance
    <2> QED
      BY <1>9, <2>1, <2>2 DEF Remove
  <1>10. \A k : (IF k = 0 THEN GET_PUT ELSE GET) \in SUBSET AllOperations
    BY OperationsAre
  <1> QED
    BY <1>1, <1>2, <1>6, <1>7, <1>8, <1>9, <1>10, OperationsAre DEF Instance

-----------------------------------------------------------------------------
(* Requests of servers.                                                    *)

LEMMA ObjectPayloadIs ==
    ASSUME NEW p \in Seq(Records)
    PROVE  LET tlv == <<Record("OI", 0, Len(p), NoValue)>> \o p
           IN  tlv \in Seq(Records) /\ tlv # <<>>
  <1> DEFINE r == Record("OI", 0, Len(p), NoValue)
             tlv == <<r>> \o p
  <1>1. 0 \in Identifiers
    BY SMT DEF Identifiers
  <1>2. Len(p) \in Nat
    OBVIOUS
  <1>3. r \in Records
    BY <1>1, <1>2, ValuesAre DEF Record, Records, TypeCode
  <1> HIDE DEF r, Records
  <1>4. <<r>> \in Seq(Records)
    BY <1>3
  <1>5. tlv \in Seq(Records)
    BY <1>4
  <1>6. Len(tlv) = 1 + Len(p)
    BY <1>4, <1>2
  <1>7. tlv # <<>>
    BY <1>2, <1>6
  <1> QED
    BY <1>5, <1>7 DEF r

LEMMA PayloadsAre ==
    /\ \A p \in Payloads \cup ObjectPayloads : p \in Seq(Records) /\ p # <<>>
    /\ \A p \in Payloads : p[1].id \in Identifiers
  <1>1. \A p \in Payloads : p \in Seq(Records) /\ p # <<>>
    BY ObjectsAssumption
  <1> HIDE DEF Records
  <1>2. ASSUME NEW p \in ObjectPayloads
        PROVE  p \in Seq(Records) /\ p # <<>>
    <2>1. PICK q \in Payloads : p = <<Record("OI", 0, Len(q), NoValue)>> \o q
      BY DEF ObjectPayloads
    <2> QED
      BY <1>1, <2>1, ObjectPayloadIs
  <1>3. ASSUME NEW p \in Payloads
        PROVE  p[1].id \in Identifiers
    <2>1. p \in Seq(Records) /\ 1 \in 1..Len(p)
      BY <1>1
    <2> QED
      BY <2>1, RecordIs
  <1> QED
    BY <1>1, <1>2, <1>3

LEMMA ShapeWritten ==
    ASSUME NEW kind, NEW c, Shape(kind, c), NEW r, NEW tlv, NEW operation,
           Written(c, r, tlv, operation), kind = "Device" => operation # "Post"
    PROVE  Shape(kind, r.contents)
  <1> HIDE DEF Contents
  <1> QED
    BY ShapeGrown DEF Written

LEMMA ShapeParsed ==
    ASSUME NEW kind, kind # "Device", NEW c, Shape(kind, c), NEW tlv \in Seq(Records),
           tlv # <<>>, NEW operation
    PROVE  Shape(kind, Parse(tlv, c, operation).contents)
  <1> HIDE DEF Contents, Records
  <1>1. c \in Contents
    BY DEF Shape
  <1>2. Shape(kind, DeserialiseObjectInstances(tlv, c, "Put").contents)
    BY <1>1, DeserialiseObjectInstancesWrites, ShapeWritten
  <1>3. Shape(kind, DeserializeResources(tlv, c, operation).contents)
    BY <1>1, DeserializeResourcesWrites, ShapeWritten
  <1> QED
    BY <1>2, <1>3 DEF Parse

LEMMA InstanceOperations ==
    ASSUME class \in ObjectClasses
    PROVE  /\ "PUT" \in InstanceOperation[class] => class \in {"Firmware", "Instance"}
           /\ "POST" \in InstanceOperation[class] => class = "Instance"
  BY SMT DEF ObjectClasses, InstanceOperation, GET, GET_PUT

\* Whatever servers send.
LEMMA RequestsKeep ==
    ASSUME class \in ObjectClasses, Shape(class, contents), Requests
    PROVE  class' = class /\ Shape(class', contents')
  <1> HIDE DEF Contents, Records, Identifiers
  <1>1. contents \in Contents
    BY DEF Shape
  <1>2. class' = class
    BY DEF Requests, BootstrapSecurity, BootstrapServer
  <1>3. \A v \in Words : Text(v) \in Values
    BY ObjectsAssumption, ValuesAre
  <1>4. ASSUME NEW p \in Payloads, PutInstance(p)
        PROVE  Shape(class, contents')
    <2>1. p \in Seq(Records) /\ p # <<>>
      BY PayloadsAre
    <2>2. Written(contents, DeserializeResources(p, contents, "Put"), p, "Put")
      BY <1>1, <2>1, DeserializeResourcesWrites
    <2> QED
      BY <1>4, <2>2, ShapeWritten DEF PutInstance
  <1>5. ASSUME NEW p \in Payloads, PostInstance(p)
        PROVE  Shape(class, contents')
    <2>1. p \in Seq(Records) /\ p # <<>>
      BY PayloadsAre
    <2>2. Written(contents, DeserializeResources(p, contents, "Post"), p, "Post")
      BY <1>1, <2>1, DeserializeResourcesWrites
    <2>3. class # "Device"
      BY <1>5, InstanceOperations DEF PostInstance
    <2> QED
      BY <1>5, <2>2, <2>3, ShapeWritten DEF PostInstance
  <1>6. ASSUME NEW p \in Payloads, PutMultiple(p)
        PROVE  Shape(class, contents')
    <2>1. p \in Seq(Records) /\ p # <<>> /\ p[1].id \in Identifiers
      BY PayloadsAre
    <2>2. Written(contents, DeserializeResourceInstances(p, contents, p[1].id, "Put"), p, "Put")
      BY <1>1, <2>1, DeserializeResourceInstancesWrites
    <2>3. contents' = DeserializeResourceInstances(p, contents, p[1].id, "Put").contents
      BY <1>6 DEF PutMultiple
    <2> QED
      BY <2>2, <2>3, ShapeWritten
  <1>7. ASSUME NEW slot \in DOMAIN contents, NEW w \in Words, PutText(slot, w)
        PROVE  Shape(class, contents')
    BY <1>3, <1>7, ShapeSetValue DEF PutText
  <1>8. ASSUME NEW p \in Payloads \cup ObjectPayloads, BootstrapSecurity(p)
        PROVE  Shape(class, contents')
    <2> DEFINE created == IF Has(SecuritySlot("ShortServerID")) THEN contents
                          ELSE Add(SecurityId["ShortServerID"], Leaf("INTEGER", {}, Text(1)))
               opened == WithOperation(created, {"PUT"})
               parsed == Parse(p, opened, "Put")
    <2>1. class = "Security"
      BY <1>8 DEF BootstrapSecurity
    <2>2. contents' = IF parsed.error = "None" THEN WithOperation(parsed.contents, {})
                      ELSE SecurityContents("Security")
      BY <1>8 DEF BootstrapSecurity
    <2>3. Shape(class, created)
      <3>1. SecurityId["ShortServerID"] \in Identifiers
        BY SecurityIds, SecurityTable
      <3>2. "INTEGER" \in Types /\ Text(1) \in Values
        BY ValuesAre DEF Types
      <3> DEFINE added == Add(SecurityId["ShortServerID"], Leaf("INTEGER", {}, Text(1)))
      <3>3. ASSUME ~Has(SecuritySlot("ShortServerID"))
            PROVE  Shape(class, added)
        <4>1. ~Has(<<SecurityId["ShortServerID"]>>)
          BY <3>3 DEF SecuritySlot
        <4> QED
          BY <2>1, <3>1, <3>2, <4>1, OperationsAre, ShapeAdd
      <3> HIDE DEF added
      <3> QED
        BY <3>3 DEF added
    <2> HIDE DEF created
    <2>4. Shape(class, opened)
      BY <2>3, ShapeWithOperation, OperationsAre
    <2> HIDE DEF opened
    <2>5. Shape(class, parsed.contents)
      BY <2>1, <2>4, ShapeParsed, PayloadsAre
    <2> HIDE DEF parsed
    <2>6. Shape(class, WithOperation(parsed.contents, {}))
      BY <2>5, ShapeWithOperation, OperationsAre
    <2>7. Shape(class, SecurityContents("Security"))
      BY <2>1, SecurityContentsShape
    <2> QED
      BY <2>2, <2>6, <2>7
  <1>9. ASSUME NEW p \in Payloads \cup ObjectPayloads, BootstrapServer(p)
        PROVE  Shape(class, contents')
    <2>1. class # "Device" /\ contents' = Parse(p, contents, "Post").contents
      BY <1>9 DEF BootstrapServer
    <2> QED
      BY <2>1, ShapeParsed, PayloadsAre
  <1> QED
    BY <1>2, <1>4, <1>5, <1>6, <1>7, <1>8, <1>9 DEF Requests

-----------------------------------------------------------------------------
(* The theorems.                                                           *)

\* Whatever is created, deleted, written and bootstrapped, the contents keep the shape
\* of their class: the invariant from which the others follow.
LEMMA ShapeStays == Spec => [](class \in ObjectClasses /\ Shape(class, contents))
  <1> DEFINE IInv == class \in ObjectClasses /\ Shape(class, contents)
  <1>1. Init => IInv
    BY InitialShape, ObjectsAssumption DEF Init
  <1>2. IInv /\ [Next]_vars => IInv'
    <2> SUFFICES ASSUME class \in ObjectClasses, Shape(class, contents), [Next]_vars
                 PROVE  class' \in ObjectClasses /\ Shape(class', contents')
      BY DEF IInv
    <2>1. CASE Device
      BY <2>1, DeviceKeeps DEF Device
    <2>2. CASE Firmware
      BY <2>2, FirmwareKeeps DEF Firmware
    <2>3. CASE Security
      BY <2>3, SecurityKeeps DEF Security
    <2>4. CASE Server
      BY <2>4, ServerKeeps DEF Server
    <2>5. CASE Instance
      BY <2>5, InstanceKeeps DEF Instance
    <2>6. CASE Requests
      BY <2>6, RequestsKeep
    <2>7. CASE UNCHANGED vars
      BY <2>7 DEF vars
    <2> QED
      BY <2>1, <2>2, <2>3, <2>4, <2>5, <2>6, <2>7 DEF Next
  <1> QED
    BY <1>1, <1>2, PTL DEF Spec

\* Every resource has a type, operations and a value of the kinds there are, and every
\* instance belongs to a resource that has instances: create_resource(),
\* remove_resource() and the payloads of servers never leave one without the other.
THEOREM ContentsTypeOK == Spec => []TypeOK
  <1>1. Shape(class, contents) => TypeOK
    <2> SUFFICES ASSUME Shape(class, contents), NEW slot \in DOMAIN contents
                 PROVE  /\ contents[slot].type \in Types
                        /\ contents[slot].operation \subseteq AllOperations
                        /\ contents[slot].value # NoValue =>
                               contents[slot].value[1] \in {"text", "binary"}
                        /\ Len(slot) = 2 => Has(<<slot[1]>>) /\ contents[<<slot[1]>>].multiple
      BY Zenon DEF TypeOK
    <2>1. contents[slot] \in Leaves
      BY ContentsIs DEF Shape
    <2>2. /\ contents[slot].type \in Types
          /\ contents[slot].operation \subseteq AllOperations
          /\ contents[slot].value \in Values
      BY <2>1 DEF Leaves
    <2>3. contents[slot].value # NoValue => contents[slot].value[1] \in {"text", "binary"}
      BY <2>2 DEF Values
    <2>4. Len(slot) = 2 => Has(<<slot[1]>>) /\ contents[<<slot[1]>>].multiple
      BY DEF Shape, Nested, Has
    <2> QED
      BY <2>2, <2>3, <2>4
  <1> QED
    BY <1>1, ShapeStays, PTL

\* The mandatory resources are there, with their types, whatever the application
\* deletes (delete_resource() of each class), servers send and bootstraps begin anew.
THEOREM MandatoryResourcesStay == Spec => []MandatoryStay
  <1>1. Shape(class, contents) => MandatoryStay
    BY Zenon DEF Shape, Complete, MandatoryStay, Has
  <1> QED
    BY <1>1, ShapeStays, PTL

TagOf(slot) ==
    IF Len(slot) = 2 THEN "RI" ELSE IF contents[slot].multiple THEN "M" ELSE "R"

Restored(type, id, length) ==
    LET tlv == Header(type, id, length)
    IN  /\ \A j \in DOMAIN tlv : tlv[j] \in 0..255
        /\ (tlv[1] \div 64) * 64 = TypeCode[type]
        /\ DeserialiseID(tlv) = id
        /\ DeserialiseLength(tlv) = length
        /\ ValueOffset(tlv) = Len(tlv)

Lengths == 0..(2^24 - 1)

LEMMA HeaderIsRestored ==
    ASSUME NEW type \in DOMAIN TypeCode, NEW id \in Identifiers, NEW length \in Lengths
    PROVE  Restored(type, id, length)
  <1>1. length \in 0..(2^24 - 1)
    BY DEF Lengths
  <1> HIDE DEF Identifiers
  <1> QED
    BY <1>1, HeaderRoundTrip DEF Restored

\* What the library writes of any contents it can hold begins with headers that are
\* read as they were written (serialize_TILV() and TypeIdLength): their identifiers
\* all fit two bytes.
THEOREM HeadersStayReadable == Spec => []HeadersAreRestored
  <1>1. Shape(class, contents) => HeadersAreRestored
    <2> SUFFICES ASSUME Shape(class, contents)
                 PROVE  HeadersAreRestored
      OBVIOUS
    <2>1. ASSUME NEW slot \in DOMAIN contents, slot # <<NoId>>,
                 NEW length \in {0, 7, 8, 255, 256, 65535, 65536}
          PROVE  Restored(TagOf(slot), slot[Len(slot)], length)
      <3>1. TagOf(slot) \in DOMAIN TypeCode
        BY DEF TagOf, TypeCode
      <3>2. slot \in Slots
        BY ContentsIs DEF Shape
      <3>3. slot[Len(slot)] \in Identifiers
        <4> HIDE DEF Identifiers
        <4>1. CASE \E i \in Identifiers \cup {NoId} : slot = <<i>>
          <5>1. PICK i \in Identifiers \cup {NoId} : slot = <<i>>
            BY <4>1
          <5>2. slot[Len(slot)] = i /\ i # NoId
            BY <2>1, <5>1
          <5> QED
            BY <5>2
        <4>2. CASE \E i \in Identifiers, k \in Identifiers : slot = <<i, k>>
          <5>1. PICK i \in Identifiers, k \in Identifiers : slot = <<i, k>>
            BY <4>2
          <5>2. slot[Len(slot)] = k
            BY <5>1
          <5> QED
            BY <5>2
        <4> QED
          BY <3>2, <4>1, <4>2 DEF Slots
      <3>4. length \in Lengths
        <4> DEFINE high == 2^24 - 1
        <4>1. high \in Int /\ 65536 <= high
          BY SMT
        <4>2. 0..high = Lengths
          BY DEF Lengths
        <4>3. length \in Int /\ 0 <= length /\ length <= 65536
          BY SMT
        <4> HIDE DEF high, Lengths
        <4> QED
          BY <4>1, <4>2, <4>3
      <3> HIDE DEF Identifiers, Lengths
      <3> QED
        BY <3>1, <3>3, <3>4, HeaderIsRestored
    <2>2. HeadersAreRestored
              <=> \A slot \in DOMAIN contents, length \in {0, 7, 8, 255, 256, 65535, 65536} :
                      slot # <<NoId>> => Restored(TagOf(slot), slot[Len(slot)], length)
      BY SMT DEF HeadersAreRestored, Restored, TagOf
    <2> QED
      BY <2>1, <2>2, SMT
  <1> QED
    BY <1>1, ShapeStays, PTL

\* What is written to the leaves is all that makes them equal.
LEMMA RefusedIsSame ==
    ASSUME NEW c \in Contents, NEW r, NEW tlv, NEW operation, Written(c, r, tlv, operation),
           r.error # "None", NEW slot \in DOMAIN c
    PROVE  r.contents[slot] = c[slot]
  <1>1. r.contents \in Contents /\ Grown(c, r.contents, tlv, operation, FALSE)
    BY Zenon DEF Written
  <1> HIDE DEF Contents
  <1>2. slot \in DOMAIN r.contents
    BY <1>1 DEF Grown
  <1>3. c[slot] \in Leaves /\ r.contents[slot] \in Leaves
    BY <1>1, <1>2, ContentsIs
  <1>4. /\ r.contents[slot].type = c[slot].type
        /\ r.contents[slot].operation = c[slot].operation
        /\ r.contents[slot].multiple = c[slot].multiple
        /\ r.contents[slot].value = c[slot].value
    BY <1>1 DEF Grown
  <1> QED
    BY <1>3, <1>4 DEF Leaves

\* A payload that is refused leaves every resource what it was, whatever the payload is
\* and wherever the error in it: the first pass of deserialize_resources() and of
\* its callers sets nothing, and what it accepts the second pass does not refuse.
THEOREM RefusedSetsNothing == Spec => []RefusedChangesNothing
  <1>1. Shape(class, contents) => RefusedChangesNothing
    <2> SUFFICES ASSUME Shape(class, contents), NEW p \in Payloads, NEW r \in Writes(p),
                        r.error # "None", NEW slot \in DOMAIN contents
                 PROVE  r.contents[slot] = contents[slot]
      BY Zenon DEF RefusedChangesNothing
    <2> HIDE DEF Contents, Records, Identifiers
    <2> DEFINE tlv == <<Record("OI", 0, Len(p), NoValue)>> \o p
    <2>1. p \in Seq(Records) /\ p # <<>> /\ p[1].id \in Identifiers
      BY PayloadsAre
    <2>2. tlv \in Seq(Records) /\ tlv # <<>>
      BY <2>1, ObjectPayloadIs
    <2>3. contents \in Contents
      BY DEF Shape
    <2>4. \A operation : Written(contents, DeserializeResources(p, contents, operation), p,
                                 operation)
      BY <2>1, <2>3, DeserializeResourcesWrites
    <2>5. Written(contents, DeserialiseObjectInstances(tlv, contents, "Put"), tlv, "Put")
      BY <2>2, <2>3, DeserialiseObjectInstancesWrites
    <2>6. Written(contents, DeserializeResourceInstances(p, contents, p[1].id, "Put"), p, "Put")
      BY <2>1, <2>3, DeserializeResourceInstancesWrites
    <2>7. PICK q, operation : Written(contents, r, q, operation)
      <3>1. \/ \E operation \in {"Put", "Post"} : r = DeserializeResources(p, contents, operation)
            \/ r = DeserialiseObjectInstances(tlv, contents, "Put")
            \/ r = DeserializeResourceInstances(p, contents, p[1].id, "Put")
        BY Zenon DEF Writes
      <3> QED
        BY <2>4, <2>5, <2>6, <3>1, Zenon
    <2> QED
      BY <2>3, <2>7, RefusedIsSame
  <1> QED
    BY <1>1, ShapeStays, PTL

-----------------------------------------------------------------------------
(* What the contents are written to is read back.                          *)

\* A leaf that was written and read: an integer comes back as binary digits, a boolean
\* as one byte.
Reread(leaf) ==
    [leaf EXCEPT !.value =
        IF leaf.multiple THEN NoValue
        ELSE IF leaf.type = "BOOLEAN" THEN Binary(GetValueInt(@) % 256)
        ELSE IF leaf.type \in IntegerTypes THEN Binary(GetValueInt(@))
        ELSE @]

LEMMA EveryValueReturns ==
    ASSUME NEW leaf \in Leaves
    PROVE  [leaf EXCEPT !.value = Returned(leaf)] = Reread(leaf)
  <1>1. CASE leaf.multiple
    BY <1>1 DEF Returned, Reread
  <1>2. CASE ~leaf.multiple /\ leaf.type = "BOOLEAN"
    BY <1>2 DEF Returned, Reread, SerializeValue
  <1>3. CASE ~leaf.multiple /\ leaf.type \in IntegerTypes \ {"BOOLEAN"}
    BY <1>3 DEF Returned, Reread, SerializeValue
  <1>4. CASE ~leaf.multiple /\ leaf.type \notin IntegerTypes
    <2>1. leaf.type # "BOOLEAN"
      BY <1>4 DEF IntegerTypes
    <2> QED
      BY <1>4, <2>1 DEF Returned, Reread, SerializeValue
  <1> QED
    BY <1>1, <1>2, <1>3, <1>4 DEF IntegerTypes

\* A payload made of any contents the library can hold, whichever order the resources are
\* written in, gives the values back to contents that lost them: integers as binary
\* digits, of a boolean one byte, everything else as it was (serialize_resources(),
\* serialize_TLV_binary_int(), deserialize_resources()).
THEOREM SerialisedStaysReadable == Spec => []SerialisedIsRestored
  <1>1. Shape(class, contents) => SerialisedIsRestored
    <2> DEFINE c == contents
               tlv == SerializeResources(c)
               e == [slot \in DOMAIN c |-> [c[slot] EXCEPT !.value = NoValue]]
               r == DeserializeAt(tlv, 1, e, "Put", TRUE)
    <2> SUFFICES ASSUME Shape(class, contents)
                 PROVE  SerialisedIsRestored
      OBVIOUS
    <2> HIDE DEF Contents, Leaves
    <2>1. c \in Contents /\ Nested(c)
      BY DEF Shape
    <2>2. r = Reading(c)
      BY DEF Emptied, Reading
    <2>3. tlv = SerializeResources(c)
      OBVIOUS
    <2>4. SerialisedIsRestored <=>
              (tlv # <<>> =>
                   r.error = "None" /\ \A slot \in DOMAIN c : r.contents[slot] = Reread(c[slot]))
      BY DEF SerialisedIsRestored, Reread
    <2> HIDE DEF c, tlv, r
    <2> SUFFICES ASSUME tlv # <<>>
                 PROVE  r.error = "None" /\ \A slot \in DOMAIN c : r.contents[slot] = Reread(c[slot])
      BY <2>4
    <2>5. /\ r.error = "None"
          /\ \A s \in DOMAIN c : r.contents[s] = [c[s] EXCEPT !.value = Returned(c[s])]
      <3>1. Restores(c, Reading(c))
        BY <2>1, <2>3, SerializeResourcesRestores
      <3> QED
        BY <2>2, <3>1 DEF Restores
    <2>6. \A s \in DOMAIN c : c[s] \in Leaves
      BY <2>1, ContentsIs
    <2> QED
      BY <2>5, <2>6, EveryValueReturns
  <1> QED
    BY <1>1, ShapeStays, PTL

-----------------------------------------------------------------------------
(* What an accepted payload leaves.                                        *)

\* The records servers send are nested as the format has them: nothing but resource
\* instances in a container, which is not longer than what is left of the payload.
PayloadsAreWellFormed == \A p \in Payloads : WellFormed(p, 1)

\* The records of p, one place further on.
Shifted(tlv, p) ==
    /\ Len(tlv) = Len(p) + 1
    /\ \A j \in 1..Len(p) : tlv[j + 1] = p[j]
    /\ \A j \in 1..Len(p) : \A s : Designates(tlv, j + 1, s) <=> Designates(p, j, s)
    /\ \A s : ~Designates(tlv, 1, s)

\* A record of an object instance around a payload moves its records by one place.
LEMMA ObjectPayloadNests ==
    ASSUME NEW p \in Seq(Records), WellFormed(p, 1), NEW tlv \in Seq(Records),
           tlv = <<Record("OI", 0, Len(p), NoValue)>> \o p
    PROVE  /\ Len(tlv) = Len(p) + 1
           /\ tlv[1].type = "OI" /\ tlv[1].id = 0 /\ tlv[1].span = Len(tlv) - 1
           /\ WellFormed(tlv, 2)
           /\ Shifted(tlv, p)
  <1> DEFINE r == Record("OI", 0, Len(p), NoValue)
  <1> HIDE DEF Records
  <1>1. Len(p) \in Nat /\ DOMAIN p = 1..Len(p) /\ Len(tlv) \in Nat /\ DOMAIN tlv = 1..Len(tlv)
    OBVIOUS
  <1>2. r.type = "OI" /\ r.id = 0 /\ r.span = Len(p)
    BY DEF Record
  <1>3. tlv = <<r>> \o p
    OBVIOUS
  <1> HIDE DEF r
  <1>4. Len(tlv) = Len(p) + 1 /\ tlv[1] = r /\ \A j \in 1..Len(p) : tlv[j + 1] = p[j]
    <2>1. <<r>> \in Seq({r}) /\ Len(<<r>>) = 1 /\ <<r>>[1] = r
      OBVIOUS
    <2>2. p \in Seq(Records \cup {r}) /\ <<r>> \in Seq(Records \cup {r})
      BY <1>1
    <2>3. /\ Len(tlv) = Len(<<r>>) + Len(p)
          /\ \A j \in 1..Len(tlv) : tlv[j] = IF j <= Len(<<r>>) THEN <<r>>[j] ELSE p[j - Len(<<r>>)]
      BY <1>3, <2>2, ConcatProperties
    <2> QED
      BY <1>1, <2>1, <2>3
  <1>5. \A j \in 2..Len(tlv) : j - 1 \in 1..Len(p) /\ tlv[j] = p[j - 1] /\ (j - 1) + 1 = j
    BY <1>1, <1>4
  <1>6. \A i \in 1..Len(p) : p[i].span \in Nat
    BY RecordIs
  <1>7. ASSUME NEW i \in 1..Len(p), NEW j \in 1..Len(p)
        PROVE  Within(tlv, i + 1, j + 1) <=> Within(p, i, j)
    <2>1. tlv[i + 1] = p[i] /\ p[i].span \in Nat
      BY <1>4, <1>6
    <2>2. i + 1 < j + 1 <=> i < j
      OBVIOUS
    <2>3. j + 1 <= (i + 1) + p[i].span <=> j <= i + p[i].span
      BY <2>1
    <2> QED
      BY <2>1, <2>2, <2>3 DEF Within
  <1>8. WellFormed(tlv, 2)
    <2>1. \A i \in 1..(2 - 1) : tlv[i].type = "OI"
      BY <1>2, <1>4
    <2>2. \A j \in 2..Len(tlv) : tlv[j].type # "OI" /\ (tlv[j].type # "M" => tlv[j].span = 0)
      BY <1>5 DEF WellFormed
    <2>3. ASSUME NEW i \in 2..Len(tlv), tlv[i].type = "M"
          PROVE  /\ i + tlv[i].span <= Len(tlv)
                 /\ \A j \in (i + 1)..(i + tlv[i].span) : tlv[j].type = "RI"
      <3>1. i - 1 \in 1..Len(p) /\ tlv[i] = p[i - 1] /\ p[i - 1].type = "M"
        BY <1>5, <2>3
      <3>2. /\ (i - 1) + p[i - 1].span <= Len(p)
            /\ \A j \in ((i - 1) + 1)..((i - 1) + p[i - 1].span) : p[j].type = "RI"
        BY <3>1 DEF WellFormed
      <3>3. i + tlv[i].span <= Len(tlv)
        BY <1>4, <1>6, <3>1, <3>2
      <3>4. ASSUME NEW j \in (i + 1)..(i + tlv[i].span)
            PROVE  tlv[j].type = "RI"
        <4>1. j \in 2..Len(tlv) /\ j - 1 \in ((i - 1) + 1)..((i - 1) + p[i - 1].span)
          BY <1>4, <1>6, <3>1, <3>3
        <4> QED
          BY <1>5, <3>2, <4>1
      <3> QED
        BY <3>3, <3>4
    <2>4. ASSUME NEW j \in 2..Len(tlv), tlv[j].type = "RI"
          PROVE  \E i \in 2..Len(tlv) : Within(tlv, i, j)
      <3>1. j - 1 \in 1..Len(p) /\ p[j - 1].type = "RI" /\ (j - 1) + 1 = j
        BY <1>5, <2>4
      <3>2. PICK i \in 1..Len(p) : Within(p, i, j - 1)
        BY <3>1 DEF WellFormed
      <3>3. Within(tlv, i + 1, (j - 1) + 1)
        BY <1>7, <3>1, <3>2
      <3>4. i + 1 \in 2..Len(tlv)
        BY <1>4
      <3> QED
        BY <3>1, <3>3, <3>4
    <2> QED
      BY <2>1, <2>2, <2>3, <2>4 DEF WellFormed
  <1>9. ASSUME NEW j \in 1..Len(p), NEW s
        PROVE  Designates(tlv, j + 1, s) <=> Designates(p, j, s)
    <2>1. tlv[j + 1] = p[j]
      BY <1>4
    <2>2. (\E i \in DOMAIN tlv : Within(tlv, i, j + 1) /\ tlv[i].id = s[1])
              <=> \E i \in DOMAIN p : Within(p, i, j) /\ p[i].id = s[1]
      <3>1. ASSUME NEW i \in DOMAIN tlv, Within(tlv, i, j + 1), tlv[i].id = s[1]
            PROVE  \E k \in DOMAIN p : Within(p, k, j) /\ p[k].id = s[1]
        <4>1. i # 1
          BY <1>2, <1>4, <3>1 DEF Within
        <4>2. i - 1 \in 1..Len(p) /\ tlv[i] = p[i - 1] /\ (i - 1) + 1 = i
          BY <1>1, <1>5, <4>1
        <4>3. Within(p, i - 1, j)
          BY <1>7, <3>1, <4>2
        <4> QED
          BY <1>1, <3>1, <4>2, <4>3
      <3>2. ASSUME NEW i \in DOMAIN p, Within(p, i, j), p[i].id = s[1]
            PROVE  \E k \in DOMAIN tlv : Within(tlv, k, j + 1) /\ tlv[k].id = s[1]
        <4>1. i + 1 \in DOMAIN tlv /\ tlv[i + 1] = p[i]
          BY <1>1, <1>4
        <4>2. Within(tlv, i + 1, j + 1)
          BY <1>1, <1>7, <3>2
        <4> QED
          BY <3>2, <4>1, <4>2
      <3> QED
        BY <3>1, <3>2
    <2> QED
      BY <2>1, <2>2 DEF Designates
  <1>10. \A s : ~Designates(tlv, 1, s)
    BY <1>2, <1>4 DEF Designates
  <1>11. Shifted(tlv, p)
    BY <1>4, <1>9, <1>10 DEF Shifted
  <1> QED
    BY <1>1, <1>2, <1>4, <1>8, <1>11

\* The value of the record that names a slot last.
Last(p, slot, old) == IF Naming(p, slot) # {} THEN p[Max(Naming(p, slot))].value ELSE old

LEMMA LatestIsLast ==
    ASSUME NEW p \in Seq(Records), NEW slot, NEW value, NEW old,
           Latest(p, slot, Len(p) + 1, value, old)
    PROVE  value = Last(p, slot, old)
  <1> DEFINE S == Naming(p, slot)
  <1>1. \A j : j \in S <=> j \in DOMAIN p /\ Designates(p, j, slot)
    BY Zenon DEF Naming, Designates, Within
  <1>2. DOMAIN p = 1..Len(p) /\ Len(p) \in Nat
    OBVIOUS
  <1> HIDE DEF Records, S
  <1>3. CASE value = old /\ \A j \in DOMAIN p : Designates(p, j, slot) => j >= Len(p) + 1
    <2>1. S = {}
      BY <1>1, <1>2, <1>3
    <2> QED
      BY <1>3, <2>1 DEF Last, S
  <1>4. CASE \E j \in DOMAIN p :
                 /\ j < Len(p) + 1 /\ Designates(p, j, slot) /\ value = p[j].value
                 /\ \A k \in DOMAIN p : Designates(p, k, slot) /\ k < Len(p) + 1 => k <= j
    <2>1. PICK j \in DOMAIN p :
                 /\ j < Len(p) + 1 /\ Designates(p, j, slot) /\ value = p[j].value
                 /\ \A k \in DOMAIN p : Designates(p, k, slot) /\ k < Len(p) + 1 => k <= j
      BY <1>4
    <2>2. j \in S /\ \A k \in S : j >= k
      BY <1>1, <1>2, <2>1
    <2>3. S \subseteq Int
      BY <1>1, <1>2
    <2>4. Max(S) \in S /\ \A k \in S : Max(S) >= k
      BY <2>2, Zenon DEF Max
    <2>5. Max(S) = j
      BY <2>2, <2>3, <2>4
    <2> QED
      BY <2>1, <2>2, <2>5 DEF Last, S
  <1> QED
    BY <1>3, <1>4 DEF Latest

LEMMA ObjectLatest ==
    ASSUME NEW p \in Seq(Records), NEW tlv \in Seq(Records), Shifted(tlv, p),
           NEW slot, NEW value, NEW old, Latest(tlv, slot, Len(tlv) + 1, value, old)
    PROVE  Latest(p, slot, Len(p) + 1, value, old)
  <1> HIDE DEF Records
  <1>1. /\ Len(p) \in Nat /\ DOMAIN p = 1..Len(p)
        /\ DOMAIN tlv = 1..(Len(p) + 1) /\ Len(tlv) = Len(p) + 1
        /\ \A j \in 1..Len(p) : tlv[j + 1] = p[j]
        /\ \A j \in 1..Len(p) : Designates(tlv, j + 1, slot) <=> Designates(p, j, slot)
        /\ ~Designates(tlv, 1, slot)
    BY DEF Shifted
  <1>2. CASE value = old /\ \A j \in DOMAIN tlv : Designates(tlv, j, slot) => j >= Len(tlv) + 1
    <2>1. ASSUME NEW j \in DOMAIN p, Designates(p, j, slot)
          PROVE  j >= Len(p) + 1
      <3>1. j \in 1..Len(p) /\ j + 1 \in DOMAIN tlv
        BY <1>1
      <3>2. Designates(tlv, j + 1, slot)
        BY <1>1, <2>1, <3>1
      <3>3. j + 1 >= Len(tlv) + 1
        BY <1>2, <3>1, <3>2
      <3> QED
        BY <1>1, <3>1, <3>3
    <2> QED
      BY <1>2, <2>1 DEF Latest
  <1>3. CASE \E j \in DOMAIN tlv :
                 /\ j < Len(tlv) + 1 /\ Designates(tlv, j, slot) /\ value = tlv[j].value
                 /\ \A k \in DOMAIN tlv : Designates(tlv, k, slot) /\ k < Len(tlv) + 1 => k <= j
    <2>1. PICK j \in DOMAIN tlv :
                 /\ j < Len(tlv) + 1 /\ Designates(tlv, j, slot) /\ value = tlv[j].value
                 /\ \A k \in DOMAIN tlv : Designates(tlv, k, slot) /\ k < Len(tlv) + 1 => k <= j
      BY <1>3
    <2>2. j - 1 \in DOMAIN p /\ (j - 1) + 1 = j
      BY <1>1, <2>1
    <2>3. j - 1 < Len(p) + 1 /\ Designates(p, j - 1, slot) /\ value = p[j - 1].value
      BY <1>1, <2>1, <2>2
    <2>4. ASSUME NEW k \in DOMAIN p, Designates(p, k, slot)
          PROVE  k <= j - 1
      <3>1. k \in 1..Len(p) /\ k + 1 \in DOMAIN tlv /\ k + 1 < Len(tlv) + 1
        BY <1>1
      <3>2. Designates(tlv, k + 1, slot)
        BY <1>1, <2>4, <3>1
      <3>3. k + 1 <= j
        BY <2>1, <3>1, <3>2
      <3> QED
        BY <1>1, <3>1, <3>3
    <2> QED
      BY <2>2, <2>3, <2>4 DEF Latest
  <1> QED
    BY <1>2, <1>3 DEF Latest

\* Whatever a server sends and the client accepts is what its resources hold: each the
\* value of the last record that names it, or what it held. The passes of
\* deserialize_resources() and its callers, what a POST adds while it is checked, the
\* positions they read on from and the containers they skip never put a value elsewhere.
THEOREM AcceptedEndsWhereNamed ==
    ASSUME PayloadsAreWellFormed
    PROVE  Spec => []AcceptedIsApplied
  <1>1. Shape(class, contents) => AcceptedIsApplied
    <2> SUFFICES ASSUME Shape(class, contents), NEW p \in Payloads, NEW r \in Writes(p),
                        r.error = "None",
                        NEW slot \in DOMAIN r.contents
                 PROVE  r.contents[slot].value
                            = Last(p, slot, IF Has(slot) THEN contents[slot].value ELSE NoValue)
      BY Zenon DEF AcceptedIsApplied, Last
    <2> DEFINE tlv == <<Record("OI", 0, Len(p), NoValue)>> \o p
               value == r.contents[slot].value
               old == Old(contents, slot)
    <2> HIDE DEF Contents, Records, Identifiers
    <2>1. p \in Seq(Records) /\ p # <<>> /\ WellFormed(p, 1)
      BY PayloadsAre DEF PayloadsAreWellFormed
    <2>2. tlv \in Seq(Records)
      BY <2>1, ObjectPayloadIs
    <2>3. Shifted(tlv, p)
      BY <2>1, <2>2, ObjectPayloadNests
    <2>4. contents \in Contents /\ Nested(contents)
      BY DEF Shape
    <2>5. old = IF Has(slot) THEN contents[slot].value ELSE NoValue
      BY Zenon DEF Old, Has
    <2>6. Latest(p, slot, Len(p) + 1, value, old)
      <3>1. \A operation : Applied(contents, DeserializeResources(p, contents, operation), p)
        BY <2>1, <2>4, DeserializeResourcesApplies
      <3>2. Applied(contents, DeserializeResourceInstances(p, contents, p[1].id, "Put"), p)
        BY <2>1, <2>4, DeserializeResourceInstancesApplies
      <3>3. Applied(contents, DeserialiseObjectInstances(tlv, contents, "Put"), tlv)
        <4>1. /\ Len(tlv) = Len(p) + 1
              /\ tlv[1].type = "OI" /\ tlv[1].id = 0 /\ tlv[1].span = Len(tlv) - 1
              /\ WellFormed(tlv, 2)
          BY <2>1, <2>2, ObjectPayloadNests, Zenon
        <4> HIDE DEF tlv
        <4>2. Len(p) \in Nat
          BY <2>1
        <4>3. Len(tlv) >= 1
          BY <4>1, <4>2
        <4> QED
          BY <2>2, <2>4, <4>1, <4>3, DeserialiseObjectInstancesApplies
      <3>4. \/ \E operation \in {"Put", "Post"} : r = DeserializeResources(p, contents, operation)
            \/ r = DeserialiseObjectInstances(tlv, contents, "Put")
            \/ r = DeserializeResourceInstances(p, contents, p[1].id, "Put")
        BY Zenon DEF Writes
      <3>5. Applied(contents, r, p) \/ Applied(contents, r, tlv)
        BY <3>1, <3>2, <3>3, <3>4, Zenon
      <3>6. CASE Applied(contents, r, p)
        BY <3>6 DEF Applied
      <3>7. CASE Applied(contents, r, tlv)
        <4>1. Latest(tlv, slot, Len(tlv) + 1, value, old)
          BY <3>7 DEF Applied
        <4> HIDE DEF value, old, tlv
        <4> QED
          BY <2>1, <2>2, <2>3, <4>1, ObjectLatest
      <3> QED
        BY <3>5, <3>6, <3>7
    <2>7. value = Last(p, slot, old)
      <3> HIDE DEF value, old
      <3> QED
        BY <2>1, <2>6, LatestIsLast
    <2> QED
      BY <2>5, <2>7
  <1> QED
    BY <1>1, ShapeStays, PTL

-----------------------------------------------------------------------------
(* The operation of one resource and the value of another.                 *)

\* No record a server sends gives State the value of a downloaded package. State is not
\* to be written by servers, but an error that names it is forgotten when a record
\* without one follows (deserialize_resources()).
StateIsNotSent ==
    \A p \in Payloads : \A j \in DOMAIN p :
        p[j].id = FirmwareId["State"] => p[j].value # Text(Downloaded)

LEMMA ReadyGrown ==
    ASSUME class = "Firmware", Shape(class, contents), Ready(class, contents), StateIsNotSent,
           NEW p \in Payloads, NEW operation, NEW d \in Contents,
           Grown(contents, d, p, operation, TRUE)
    PROVE  Ready(class, d)
  <1> HIDE DEF Contents, Leaves, Values
  <1>1. <<2>> \in DOMAIN contents /\ <<3>> \in DOMAIN contents
    BY FirmwareMade
  <1>2. <<3>> \in DOMAIN d
    BY <1>1 DEF Grown
  <1>3. d[<<3>>] \in Leaves
    BY <1>2, ContentsIs
  <1>4. d[<<3>>].value \in Values
    BY <1>3 DEF Leaves
  <1>5. /\ d[<<2>>].operation = contents[<<2>>].operation
        /\ d[<<3>>].operation = contents[<<3>>].operation
        /\ d[<<3>>].value = contents[<<3>>].value \/ Sent(p, <<3>>, d[<<3>>].value)
    BY <1>1, Zenon DEF Grown
  <1>6. Sent(p, <<3>>, d[<<3>>].value) => d[<<3>>].value # Text(Downloaded)
    BY FirmwareTable DEF Sent, StateIsNotSent
  <1>7. GetValueInt(d[<<3>>].value) = Downloaded => d[<<3>>].value = Text(Downloaded)
    BY <1>4, ValuesAre DEF Downloaded
  <1> QED
    BY <1>5, <1>6, <1>7, Zenon DEF Ready

\* Requests change neither State, which they may not write, nor any operation.
LEMMA RequestsKeepReady ==
    ASSUME class \in ObjectClasses, Shape(class, contents), Ready(class, contents),
           StateIsNotSent, Requests
    PROVE  Ready(class', contents')
  <1> HIDE DEF Contents, Records, Identifiers
  <1>1. class' = class
    BY RequestsKeep
  <1>2. CASE class # "Firmware"
    BY <1>1, <1>2 DEF Ready
  <1>3. CASE class = "Firmware"
    <2>1. contents \in Contents
      BY DEF Shape
    <2>2. ASSUME NEW p \in Payloads, PutInstance(p)
          PROVE  Ready(class, contents')
      <3> DEFINE r == DeserializeResources(p, contents, "Put")
      <3>1. p \in Seq(Records) /\ p # <<>>
        BY PayloadsAre
      <3>2. Written(contents, r, p, "Put")
        BY <2>1, <3>1, DeserializeResourcesWrites
      <3>3. contents' = r.contents
        BY <2>2 DEF PutInstance
      <3> HIDE DEF r
      <3>4. r.contents \in Contents /\ Grown(contents, r.contents, p, "Put", TRUE)
        BY <3>2, Zenon DEF Written
      <3> QED
        BY <1>3, <3>3, <3>4, ReadyGrown
    <2>3. ASSUME NEW p \in Payloads, PostInstance(p)
          PROVE  FALSE
      BY <1>3, <2>3, InstanceOperations DEF PostInstance
    <2>4. ASSUME NEW p \in Payloads, PutMultiple(p)
          PROVE  FALSE
      <3>1. \A i : <<i>> \in DOMAIN contents => ~contents[<<i>>].multiple
        BY <1>3, Zenon DEF Shape, Fixed
      <3> QED
        BY <2>4, <3>1 DEF PutMultiple, Has
    <2>5. ASSUME NEW slot \in DOMAIN contents, NEW w \in Words, PutText(slot, w)
          PROVE  Ready(class, contents')
      <3>1. slot # <<3>>
        BY <1>3, <2>5, OperationsAre DEF PutText, Ready
      <3>2. Text(w) \in Values
        BY ObjectsAssumption, ValuesAre
      <3>3. Has(slot) /\ contents' = SetValue(slot, Text(w))
        BY <2>5 DEF PutText
      <3> QED
        BY <1>3, <3>1, <3>2, <3>3, FirmwareSets
    <2>6. ASSUME NEW p, BootstrapSecurity(p) \/ BootstrapServer(p)
          PROVE  FALSE
      BY <1>3, <2>6 DEF BootstrapSecurity, BootstrapServer
    <2> QED
      BY <1>1, <2>2, <2>3, <2>4, <2>5, <2>6 DEF Requests
  <1> QED
    BY <1>2, <1>3

\* Update may be executed whenever State says that a package is downloaded, unless a
\* server sends that value of State itself: check_value_range() of M2MFirmware, run
\* with every value the application sets, is the only place that sets the operation of
\* Update, and delete_instance() keeps it while State begins anew.
THEOREM UpdateStaysExecutable ==
    ASSUME StateIsNotSent
    PROVE  Spec => []UpdateIsExecutable
  <1>1. Init => Ready(class, contents)
    <2> SUFFICES ASSUME Init, class = "Firmware"
                 PROVE  Ready(class, contents)
      BY DEF Ready
    <2> DEFINE c == FirmwareContents(FirmwareParams)
    <2>1. contents = c
      BY Zenon DEF Init, InitialContents
    <2>2. c[<<3>>] = Leaf("INTEGER", GET, Text(0))
      BY FirmwareContentsAre, Zenon
    <2>3. "INTEGER" \in Types
      BY DEF Types
    <2> HIDE DEF c
    <2>4. c[<<3>>].operation = GET /\ GetValueInt(c[<<3>>].value) = 0
      BY <2>2, <2>3, LeafIs, ValuesAre, OperationsAre
    <2> QED
      BY <2>1, <2>4 DEF Ready, Downloaded
  <1>2. class \in ObjectClasses /\ Shape(class, contents) /\ Ready(class, contents) /\ [Next]_vars
            => Ready(class, contents)'
    <2> SUFFICES ASSUME class \in ObjectClasses, Shape(class, contents),
                        Ready(class, contents), [Next]_vars
                 PROVE  Ready(class', contents')
      OBVIOUS
    <2>1. CASE Device \/ Security \/ Server \/ Instance
      <3>1. class' # "Firmware"
        BY <2>1 DEF Device, Security, Server, Instance
      <3> QED
        BY <3>1 DEF Ready
    <2>2. CASE Firmware
      BY <2>2, FirmwareKeeps
    <2>3. CASE Requests
      BY <2>3, RequestsKeepReady
    <2>4. CASE UNCHANGED vars
      BY <2>4 DEF vars
    <2> QED
      BY <2>1, <2>2, <2>3, <2>4 DEF Next
  <1>3. Ready(class, contents) => UpdateIsExecutable
    BY FirmwareParamsAre DEF Ready, UpdateIsExecutable, FirmwareValueInt
  <1> QED
    BY <1>1, <1>2, <1>3, ShapeStays, PTL DEF Spec

=============================================================================
