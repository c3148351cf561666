---------------------------- MODULE MCUsbDevices ----------------------------
(* Instances of UsbDevices for TLC: a mouse behind a hub, or on its own.    *)
EXTENDS UsbDevices

CONSTANTS hub, mouse

Tree == [s \in {hub, mouse} |-> IF s = mouse THEN hub ELSE Nothing]
Root == [s \in {mouse} |-> Nothing]
=============================================================================
