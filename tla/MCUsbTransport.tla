--------------------------- MODULE MCUsbTransport ---------------------------
(***************************************************************************)
(* Two devices: a camera whose PTP interface is not its first and has two  *)
(* settings, and a card reader that also speaks PTP, without an interrupt  *)
(* endpoint.                                                               *)
(***************************************************************************)
EXTENDS UsbTransport

BulkIn(a) == [addr |-> a, type |-> "bulk", dir |-> "in"]
BulkOut(a) == [addr |-> a, type |-> "bulk", dir |-> "out"]
IntrIn(a) == [addr |-> a, type |-> "interrupt", dir |-> "in"]

Setting(n, ptp, endpoints) == [ifnum |-> n, ptp |-> ptp, endpoints |-> endpoints]

TwoDevices == {"camera", "reader"}

TwoAlts ==
    [d \in TwoDevices |->
       IF d = "camera"
       THEN <<Setting(0, FALSE, <<BulkIn(129), BulkOut(1)>>),
              Setting(1, TRUE, <<IntrIn(131)>>),
              Setting(1, TRUE, <<BulkIn(130), BulkOut(2), IntrIn(131)>>)>>
       ELSE <<Setting(0, TRUE, <<BulkOut(3), BulkIn(133)>>)>>]

OneIdEach == [d \in TwoDevices |-> d]

=============================================================================
