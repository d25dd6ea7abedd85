---------------------------- MODULE MCUsbPorts ----------------------------
(* Three nodes; at first the lidar, the IMU and an LCUS-2 relay, which has *)
(* the IMU's chip, are plugged in, and the CAN adapter, a serial one, is   *)
(* not.                                                                    *)
EXTENDS UsbPorts

MCNodes == {"tty0", "tty1", "tty2"}

MCStart == [d \in Devices |->
              CASE d = "lidar" -> "tty0" [] d = "imu" -> "tty1" [] d = "relay" -> "tty2"
                [] d = "can" -> None]
=============================================================================
