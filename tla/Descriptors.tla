---------------------------- MODULE Descriptors ----------------------------
(***************************************************************************)
(* The descriptors a host needs to find its way from the configuration to  *)
(* the reports of an endpoint (usbdrv.c), and the reports (report.h) as    *)
(* they go over the bus.  A descriptor is the sequence of its parts or     *)
(* items, an item the sequence of its bytes.                               *)
(***************************************************************************)
EXTENDS Naturals, Sequences, FiniteSets

USBDESCR_DEVICE == 1
USBDESCR_CONFIG == 2
USBDESCR_STRING == 3
USBDESCR_INTERFACE == 4
USBDESCR_ENDPOINT == 5
USBDESCR_HID == \h21
USBDESCR_HID_REPORT == \h22

REPORT_ID_MOUSE == 1
REPORT_ID_SYSTEM == 2
REPORT_ID_CONSUMER == 3

-----------------------------------------------------------------------------
(* The items of a report descriptor; the low two bits of the first byte are *)
(* the number of bytes that follow.                                         *)

UsagePage(p) == << <<\h05, p>> >>
Usage(u) == << <<\h09, u>> >>
Usages(from, to) == << <<\h19, from>>, <<\h29, to>> >>
Collection(kind) == << <<\hA1, kind>> >>
EndCollection == << <<\hC0>> >>
ReportId(id) == << <<\h85, id>> >>
SizeCount(size, count) == << <<\h75, size>>, <<\h95, count>> >>
CountSize(count, size) == << <<\h95, count>>, <<\h75, size>> >>
Logical(min, max) == << <<\h15, min>>, <<\h25, max>> >>
Input(flags) == << <<\h81, flags>> >>
Output(flags) == << <<\h91, flags>> >>

ARRAY == 0
CONSTANT_FIELD == 3
ABSOLUTE == 2
RELATIVE == 6

\* Modifiers, a reserved byte, five LEDs, six keys.
keyboard_hid_report ==
  UsagePage(1) \o Usage(6) \o Collection(1)
  \o SizeCount(1, 8) \o UsagePage(7) \o Usages(\hE0, \hE7) \o Logical(0, 1) \o Input(ABSOLUTE)
  \o CountSize(1, 8) \o Input(CONSTANT_FIELD)
  \o CountSize(5, 1) \o UsagePage(8) \o Usages(1, 5) \o Output(ABSOLUTE)
  \o CountSize(1, 3) \o Output(CONSTANT_FIELD)
  \o CountSize(6, 8) \o Logical(0, \hFF) \o UsagePage(7) \o Usages(0, \hFF) \o Input(ARRAY)
  \o EndCollection

\* The mouse with two wheels, the system and the consumer controls.
mouse_hid_report ==
  UsagePage(1) \o Usage(2) \o Collection(1) \o ReportId(REPORT_ID_MOUSE)
  \o Usage(1) \o Collection(0)
  \o UsagePage(9) \o Usages(1, 5) \o Logical(0, 1) \o SizeCount(1, 5) \o Input(ABSOLUTE)
  \o SizeCount(3, 1) \o Input(CONSTANT_FIELD)
  \o UsagePage(1) \o Usage(\h30) \o Usage(\h31) \o Logical(\h81, \h7F) \o SizeCount(8, 2)
  \o Input(RELATIVE)
  \o Usage(\h38) \o Logical(\h81, \h7F) \o << <<\h35, 0>>, <<\h45, 0>> >> \o SizeCount(8, 1)
  \o Input(RELATIVE)
  \o UsagePage(\h0C) \o << <<\h0A, \h38, \h02>> >> \o Logical(\h81, \h7F) \o SizeCount(8, 1)
  \o Input(RELATIVE)
  \o EndCollection \o EndCollection
  \o UsagePage(1) \o Usage(\h80) \o Collection(1) \o ReportId(REPORT_ID_SYSTEM)
  \o Logical(1, \hB7) \o Usages(1, \hB7) \o SizeCount(16, 1) \o Input(ARRAY)
  \o EndCollection
  \o UsagePage(\h0C) \o Usage(1) \o Collection(1) \o ReportId(REPORT_ID_CONSUMER)
  \o << <<\h15, 1>>, <<\h26, \h9C, \h02>>, <<\h19, 1>>, <<\h2A, \h9C, \h02>> >> \o SizeCount(16, 1)
  \o Input(ARRAY) \o EndCollection

-----------------------------------------------------------------------------
(* The device (usbconfig.h) and its strings.                                *)

USB_CFG_VENDOR_ID == <<\hC0, \h16>>
USB_CFG_DEVICE_ID == <<\hE8, \h03>>
USB_CFG_DEVICE_VERSION == <<\h00, \h01>>
USB_CFG_VENDOR_NAME_LEN == 8
USB_CFG_DEVICE_NAME_LEN == 5
USB_CFG_DEVICE_CLASS == <<0, 0>>        \* and subclass
USB_CFG_INTERFACE_CLASS == <<3, 0, 0>>  \* subclass and protocol
USB_CFG_HAVE_INTRIN_ENDPOINT == 1
USB_CFG_HAVE_INTRIN_ENDPOINT3 == 1
USB_CFG_EP3_NUMBER == 3
USB_CFG_INTR_POLL_INTERVAL == 10
USB_CFG_MAX_BUS_POWER == 20

\* A string: its length and type, and two bytes for each character; which
\* character is left out.
USB_STRING_DESCRIPTOR_HEADER(length) == <<2 * length + 2, USBDESCR_STRING>>
StringDescriptor(length) ==
  <<USB_STRING_DESCRIPTOR_HEADER(length)>> \o [i \in 1 .. length |-> <<"character", 0>>]

usbDescriptorString0 == << <<4, USBDESCR_STRING>>, <<\h09, \h04>> >>
usbDescriptorStringVendor == StringDescriptor(USB_CFG_VENDOR_NAME_LEN)
usbDescriptorStringDevice == StringDescriptor(USB_CFG_DEVICE_NAME_LEN)

\* String 1 is the vendor, 2 the product; there is no serial number.
usbDescriptorDevice ==
  << <<18, USBDESCR_DEVICE, \h10, \h01>> \o USB_CFG_DEVICE_CLASS \o <<0, 8>>,
     USB_CFG_VENDOR_ID \o USB_CFG_DEVICE_ID \o USB_CFG_DEVICE_VERSION,
     <<1, 2, 0, 1>> >>

-----------------------------------------------------------------------------
(* The configuration: for each interface its descriptor, a HID descriptor   *)
(* with the length of the report descriptor, and its endpoint.              *)

Interface(index, endpoints, reportLength, endpoint, interval) ==
  << <<9, USBDESCR_INTERFACE, index, 0, endpoints>> \o USB_CFG_INTERFACE_CLASS \o <<0>>,
     <<9, USBDESCR_HID, 1, 1, 0, 1, USBDESCR_HID_REPORT, reportLength, 0>>,
     <<7, USBDESCR_ENDPOINT, \h80 + endpoint, 3, 8, 0, interval>> >>

\* The bytes of a descriptor's first i parts; all of them: sizeof.
BytesOfFirst(d, i) == Cardinality(UNION {{j} \X (1 .. Len(d[j])) : j \in 1 .. i})
SizeOf(d) == BytesOfFirst(d, Len(d))

\* Bus powered with remote wake-up, 20 mA.
usbDescriptorConfiguration ==
  << <<9, USBDESCR_CONFIG, 9 + (9 + 9 + 7) + (9 + 9 + 7), 0, 2, 1, 0, \hA0,
       USB_CFG_MAX_BUS_POWER \div 2>> >>
  \o Interface(0, USB_CFG_HAVE_INTRIN_ENDPOINT, SizeOf(keyboard_hid_report), 1, 20)
  \o Interface(1, USB_CFG_HAVE_INTRIN_ENDPOINT3, SizeOf(mouse_hid_report),
               USB_CFG_EP3_NUMBER, USB_CFG_INTR_POLL_INTERVAL)

\* The part that begins at an offset.
PartAt(d, offset) == << d[CHOOSE i \in DOMAIN d : BytesOfFirst(d, i - 1) = offset] >>

\* The reply to GET_DESCRIPTOR: a HID descriptor is chosen by wValue's low byte,
\* a report descriptor by wIndex.
usbDriverDescriptor(type, value, index) ==
  CASE type = USBDESCR_DEVICE -> usbDescriptorDevice
    [] type = USBDESCR_CONFIG -> usbDescriptorConfiguration
    [] type = USBDESCR_STRING /\ value = 0 -> usbDescriptorString0
    [] type = USBDESCR_STRING /\ value = 1 -> usbDescriptorStringVendor
    [] type = USBDESCR_STRING /\ value = 2 -> usbDescriptorStringDevice
    [] type = USBDESCR_HID /\ value = 0 -> PartAt(usbDescriptorConfiguration, 9 + 9)
    [] type = USBDESCR_HID /\ value = 1 ->
         PartAt(usbDescriptorConfiguration, 9 + (9 + 9 + 7) + 9)
    [] type = USBDESCR_HID_REPORT /\ index = 0 -> keyboard_hid_report
    [] type = USBDESCR_HID_REPORT /\ index = 1 -> mouse_hid_report
    [] OTHER -> <<>>

-----------------------------------------------------------------------------
(* The reports as bytes.                                                    *)

ByteOf(n) == n % 256

\* The modifiers of a report are a set of bits.
ModByte(mods) ==
  LET bit(i) == IF i \in mods THEN 2^i ELSE 0
  IN  bit(0) + bit(1) + bit(2) + bit(3) + bit(4) + bit(5) + bit(6) + bit(7)

\* Variants: no reserved byte; the wheels in each other's place.
KeyboardBytesBug(mods, keys) == <<ModByte(mods)>> \o keys
MouseBytesBug(r) ==
  <<REPORT_ID_MOUSE, r.buttons, ByteOf(r.x), ByteOf(r.y), 0, ByteOf(r.v)>>

\* report_keyboard_t.
KeyboardBytes(mods, keys) == <<ModByte(mods), 0>> \o keys

\* vusb_mouse_report_t and report_extra_t, low byte first.
MouseBytes(r) ==
  <<REPORT_ID_MOUSE, r.buttons, ByteOf(r.x), ByteOf(r.y), ByteOf(r.v), 0>>
SystemBytes(usage) == <<REPORT_ID_SYSTEM, ByteOf(usage), usage \div 256>>
=============================================================================
