---------------------------- MODULE MCUsbDevice ----------------------------
(* A reply that ends in an empty packet, one that is limited to what the host   *)
(* wants, and one whose empty last packet the host never asks for.              *)
EXTENDS UsbDevice

MCReads == {<<4, 6>>, <<5, 3>>, <<5, 2>>}
=============================================================================
