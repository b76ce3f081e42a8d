------------------------------ MODULE HidHost ------------------------------
(***************************************************************************)
(* How a host makes sense of a report: it finds the interface that owns an *)
(* endpoint in the configuration, asks for the HID descriptor of that      *)
(* interface and for as much of its report descriptor as that promises,    *)
(* learns the fields from it, and reads in a report which controls are not *)
(* at rest.                                                                *)
(***************************************************************************)
EXTENDS Descriptors, Integers
LOCAL INSTANCE FiniteSetsExt

\* The last place before p with a property; 0 if there is none.
LastBefore(p, Has(_)) == Max({0} \cup {q \in 1 .. p - 1 : Has(q)})

\* The parts of the configuration that its total length covers, and the number of
\* the interface whose endpoint it is.
InterfaceOf(endpoint) ==
  LET config == usbDriverDescriptor(USBDESCR_CONFIG, 0, 0)
      covered == {i \in DOMAIN config : BytesOfFirst(config, i) <= config[1][3]}
      at == CHOOSE i \in covered :
              config[i][2] = USBDESCR_ENDPOINT /\ config[i][3] = \h80 + endpoint
  IN  config[LastBefore(at, LAMBDA q : config[q][2] = USBDESCR_INTERFACE)][3]

\* The report descriptor of an interface, as long as its HID descriptor says.
ReportDescriptor(interface) ==
  LET hid == usbDriverDescriptor(USBDESCR_HID, interface, 0)[1]
      items == usbDriverDescriptor(USBDESCR_HID_REPORT, 0, interface)
      length == hid[8] + 256 * hid[9]
  IN  SubSeq(items, 1, Max({i \in 0 .. Len(items) : BytesOfFirst(items, i) <= length}))

\* A descriptor with a length of its own says how long it is.
Whole(d) == d # <<>> /\ d[1][1] = SizeOf(d)

\* What a host checks when the device is plugged in: the device has one configuration
\* and the strings it names; the configuration's length and counts of interfaces and
\* endpoints are those of the parts that follow, each part as long as it says.
Enumerable ==
  LET parts == usbDriverDescriptor(USBDESCR_DEVICE, 0, 0)
      device == parts[1] \o parts[2] \o parts[3]
      config == usbDriverDescriptor(USBDESCR_CONFIG, 0, 0)
      PartsOf(type) == {i \in DOMAIN config : config[i][2] = type}
  IN
  /\ Whole(parts) /\ device[18] = 1
  /\ \A i \in {device[15], device[16], device[17]} \ {0} :
       Whole(usbDriverDescriptor(USBDESCR_STRING, i, 0))
  /\ SizeOf(config) = config[1][3] + 256 * config[1][4]
  /\ \A i \in DOMAIN config : Len(config[i]) = config[i][1]
  /\ config[1][5] = Cardinality(PartsOf(USBDESCR_INTERFACE))
  /\ \A i \in PartsOf(USBDESCR_INTERFACE) :
       config[i][5] = Cardinality({e \in PartsOf(USBDESCR_ENDPOINT) :
                         i = LastBefore(e, LAMBDA q : config[q][2] = USBDESCR_INTERFACE)})

-----------------------------------------------------------------------------
(* Items: the tag, and the number in the data.                              *)

Tag(item) == item[1] - (item[1] % 4)
Data(item) == item[2] + (IF Len(item) = 3 THEN 256 * item[3] ELSE 0)
Signed(n, bits) == IF n >= 2^(bits - 1) THEN n - 2^bits ELSE n

IsMain(item) == Tag(item) \in {\h80, \h90, \hA0, \hC0}
IsInput(item) == Tag(item) = \h80

\* A global item holds until the next one of its kind, a local item for the next
\* main item only.
Global(d, p, tag) ==
  LET q == LastBefore(p, LAMBDA i : Tag(d[i]) = tag)
  IN  IF q = 0 THEN 0 ELSE Data(d[q])
Local(d, p, tag) ==
  LET since == LastBefore(p, LAMBDA i : IsMain(d[i]))
  IN  SelectSeq(SubSeq(d, since + 1, p - 1), LAMBDA item : Tag(item) = tag)

Size(d, p) == Global(d, p, \h74)
Count(d, p) == Global(d, p, \h94)
Id(d, p) == Global(d, p, \h84)

\* The bits of the input fields before it that are in the same report.
Offset(d, p) ==
  Cardinality(UNION {{q} \X (1 .. Size(d, q) * Count(d, q)) :
                       q \in {i \in 1 .. p - 1 : IsInput(d[i]) /\ Id(d, i) = Id(d, p)}})

\* The field an input item stands for; its usages are a list or a range.
Field(d, p) ==
  LET list == Local(d, p, \h08)
      first == Local(d, p, \h18)
      count == Count(d, p)
  IN  [id |-> Id(d, p), offset |-> Offset(d, p), size |-> Size(d, p), count |-> count,
       page |-> Global(d, p, \h04), flags |-> Data(d[p]),
       min |-> Signed(Global(d, p, \h14), 8), max |-> Global(d, p, \h24),
       usages |-> [i \in 0 .. count - 1 |->
                     IF list # <<>> THEN Data(list[i + 1])
                     ELSE IF first # <<>> THEN Data(first[1]) + i
                     ELSE 0]]

FieldsOf(endpoint) ==
  LET d == ReportDescriptor(InterfaceOf(endpoint))
  IN  {Field(d, p) : p \in {i \in DOMAIN d : IsInput(d[i])}}

-----------------------------------------------------------------------------
\* The number in some bits of a report; sixteen bits lie in three bytes, whatever
\* bit they begin at.
BitsAt(bytes, offset, size) ==
  LET byte(i) == IF i \in DOMAIN bytes THEN bytes[i] ELSE 0
      at == (offset \div 8) + 1
  IN  ((byte(at) + 256 * (byte(at + 1) + 256 * byte(at + 2))) \div 2^(offset % 8)) % 2^size

\* What one field says.  A field the report is too short for and a value outside the
\* logical range say nothing; an array names the controls, counted from the first usage.
ReadField(f, bytes) ==
  LET raw(i) == BitsAt(bytes, f.offset + i * f.size, f.size)
      value == [i \in 0 .. f.count - 1 |-> IF f.min < 0 THEN Signed(raw(i), f.size) ELSE raw(i)]
      says == {i \in DOMAIN value : value[i] \in f.min .. f.max /\ value[i] # 0}
  IN  IF f.flags = CONSTANT_FIELD \/ f.offset + f.count * f.size > 8 * Len(bytes) THEN {}
      ELSE IF f.flags = ARRAY
        THEN {<<f.page, f.usages[0] + value[i] - f.min, 1>> : i \in says}
      ELSE {<<f.page, f.usages[i], value[i]>> : i \in says}

\* What a report says: page, usage and value of each control that is not at rest.
\* With report IDs the first byte chooses the fields.
ReadReport(fields, bytes) ==
  IF \E f \in fields : f.id # 0
    THEN UNION {ReadField(f, Tail(bytes)) : f \in {g \in fields : g.id = bytes[1]}}
    ELSE UNION {ReadField(f, bytes) : f \in fields}

-----------------------------------------------------------------------------
KeyboardFields == FieldsOf(1)
Endpoint3Fields == FieldsOf(3)

InputField(id, offset, size, count, page, flags, min, max, usages) ==
  [id |-> id, offset |-> offset, size |-> size, count |-> count, page |-> page,
   flags |-> flags, min |-> min, max |-> max, usages |-> usages]
From(usage, count) == [i \in 0 .. count - 1 |-> usage + i]
Unused == [i \in {0} |-> 0]

\* The host accepts the descriptors of usbdrv.c and finds in them the fields they
\* mean: report, first bit, size and count, usages and range.
ASSUME DescriptorsAssumption ==
  /\ Enumerable
  /\ KeyboardFields =
       {InputField(0, 0, 1, 8, 7, ABSOLUTE, 0, 1, From(\hE0, 8)),
        InputField(0, 8, 8, 1, 7, CONSTANT_FIELD, 0, 1, Unused),
        InputField(0, 16, 8, 6, 7, ARRAY, 0, 255, From(0, 6))}
  /\ Endpoint3Fields =
       {InputField(1, 0, 1, 5, 9, ABSOLUTE, 0, 1, From(1, 5)),
        InputField(1, 5, 3, 1, 9, CONSTANT_FIELD, 0, 1, Unused),
        InputField(1, 8, 8, 2, 1, RELATIVE, -127, 127, From(\h30, 2)),
        InputField(1, 24, 8, 1, 1, RELATIVE, -127, 127, From(\h38, 1)),
        InputField(1, 32, 8, 1, \h0C, RELATIVE, -127, 127, From(\h238, 1)),
        InputField(2, 0, 16, 1, 1, ARRAY, 1, \hB7, From(1, 1)),
        InputField(3, 0, 16, 1, \h0C, ARRAY, 1, \h29C, From(1, 1))}
=============================================================================
