-------------------------------- MODULE Address --------------------------------
(***************************************************************************)
(* IP addresses, told apart as hub/capability.go and invite/codec.go tell  *)
(* them apart: by family and by where they are valid.                      *)
(***************************************************************************)
CONSTANTS Addr,
          Kind,          \* of each address
          Unspecified,   \* ::
          Loopback,      \* ::1
          None

Kinds6 == {"global6", "ula6", "link6", "loop6", "zero6"}
Kinds4 == {"public4", "private4", "cgnat4", "loop4"}

ASSUME AddressAssumption ==
  /\ Kind \in [Addr -> Kinds6 \cup Kinds4]
  /\ Unspecified \in Addr /\ Kind[Unspecified] = "zero6"
  /\ Loopback \in Addr /\ Kind[Loopback] = "loop6"
  /\ None \notin Addr

V6 == {ip \in Addr : Kind[ip] \in Kinds6}
V4 == {ip \in Addr : Kind[ip] \in Kinds4}

isGlobalIPv6(ip) == Kind[ip] = "global6"
isUsableDevIPv6(ip) == Kind[ip] \in {"loop6", "ula6"}
isCGNAT(ip) == Kind[ip] = "cgnat4"
isPrivateIPv4(ip) == Kind[ip] \in {"loop4", "private4", "cgnat4"}
===============================================================================
