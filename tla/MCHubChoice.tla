----------------------------- MODULE MCHubChoice -----------------------------
(* Instance of HubChoice: an invited hub that may move, a community hub and  *)
(* a cloud seed.  Only the invited hub listens at first.                     *)
EXTENDS HubChoice

CONSTANTS osp, town, vps, a1, a2, a3, a4

At(k, a) == [key |-> k, addr |-> a]

MCKey  == {osp, town, vps}
MCSeed == {vps}
\* a1 and a4 differ in the port only.
MCIp   == {"home", "cloud", "other"}
MCIpOf == [a \in Addr |-> IF a \in {a1, a4} THEN "home"
                          ELSE IF a = a2 THEN "cloud" ELSE "other"]
\* osp's first invite and that of the seed.  osp's next address, which the
\* community hub has had before, is typed in; its next port is scanned.
MCGiven     == <<At(osp, a1), At(vps, a2)>>
MCScanned   == {At(osp, a4)}
MCCommunity == <<At(town, a3)>>
MCManual    == <<At(osp, a3)>>
MCServed    == [a \in Addr |-> IF a = a1 THEN osp ELSE IF a = a2 THEN vps
                               ELSE None]
\* osp is unplugged, or gets its next address or port, or town has the address
\* again.
MCMoves     == {<<a1, None>>, <<a3, osp>>, <<a4, osp>>, <<a3, town>>}
==============================================================================
