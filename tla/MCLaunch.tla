------------------------------- MODULE MCLaunch -------------------------------
(***************************************************************************)
(* Launch for TLC.  A phone sends one message more than the three that are *)
(* read; a body of two bytes can be read short; a second phone waits while *)
(* the first is served.                                                    *)
(*                                                                         *)
(* The settings take every length of varint, up to the largest and the     *)
(* smallest 32-bit port; strings of 127 and 128 bytes need one byte and    *)
(* two for their length.  With 16 for the 256 values of a byte of the      *)
(* header the largest message is one of 251 bytes.                         *)
(***************************************************************************)
EXTENDS Launch

Text(n) == [k \in 1..n |-> 97 + (k % 7)]

MCSsid == Text(2)
MCKey == Text(3)
MCIp == Text(4)

MCPorts == {0, 127, 128, 16383, 16384, 2097151, 2097152, 268435455, 268435456,
            2147483647, -1, -2147483647}

MCEnvironments ==
    [ssid : {{}, {<<>>}, {Text(127)}, {Text(128)}, {Text(300)}},
     key : {{}} \cup {{Text(n)} : n \in 104..107},
     bssid : {{}, {Text(1)}},
     mac : {<<>>, Text(6)},
     ip : {{}, {<<>>}},
     port : {{}, {<<>>}} \cup {{<<n>>} : n \in MCPorts}]
===============================================================================
