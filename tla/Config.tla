-------------------------------- MODULE Config --------------------------------
(***************************************************************************)
(* Config: the settings of the dongle, read from the environment of aawgd. *)
(*                                                                         *)
(* A string is the sequence of its bytes.  An environment variable is {}   *)
(* when it is not set, and {v} when its value is v; of the value of a      *)
(* number only what std::stoi makes of it is kept, <<n>>, or <<>> when it  *)
(* throws.                                                                 *)
(***************************************************************************)
EXTENDS Integers, Sequences

CONSTANTS
    DefaultSsid, DefaultKey, DefaultIp, \* the three literals of getWifiInfo
    Environments    \* environments aawgd may find, with the address of wlan0

Int32 == {n \in Int : -2147483647 - 1 <= n /\ n <= 2147483647}

ASSUME ConfigAssumption ==
    /\ {DefaultSsid, DefaultKey, DefaultIp} \subseteq Seq(1..255)
    /\ \A e \in Environments :
         /\ e.ssid \cup e.key \cup e.bssid \cup e.ip \cup {e.mac} \subseteq Seq(1..255)
         /\ e.port \subseteq Seq(Int32) /\ \A v \in e.port : Len(v) <= 1
         /\ \A v, w \in e.port : v = w

Value(variable) == CHOOSE v \in variable : TRUE

GetenvString(variable, default) ==
    IF variable = {} THEN default ELSE Value(variable)

GetenvInt(variable, default) ==
    IF variable = {} \/ variable = {<<>>} THEN default ELSE Value(variable)[1]

WPA2_PERSONAL == 8
DYNAMIC == 1

\* The first line of the file of wlan0: empty if the interface is not there.
GetMacAddress(e) == e.mac

GetWifiInfo(e) ==
    [ssid |-> GetenvString(e.ssid, DefaultSsid),
     key |-> GetenvString(e.key, DefaultKey),
     bssid |-> GetenvString(e.bssid, GetMacAddress(e)),
     securityMode |-> WPA2_PERSONAL,
     accessPointType |-> DYNAMIC,
     ipAddress |-> GetenvString(e.ip, DefaultIp),
     port |-> GetenvInt(e.port, 5288)]
===============================================================================
