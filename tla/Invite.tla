-------------------------------- MODULE Invite --------------------------------
(***************************************************************************)
(* The invite codec (invite/codec.go): what is written into a blob, what   *)
(* is read back from it, and the short code that stands for it.            *)
(*                                                                         *)
(* A payload is a record of its fields; the order of its bytes, Base32 and *)
(* the checksum are left out, so a blob arrives as it was sent.  A short   *)
(* code is as good as the payload it is the hash of: 50 bits are taken to  *)
(* be enough.                                                              *)
(***************************************************************************)
EXTENDS Integers, SequencesExt, Address

CONSTANTS MaxNameBytes, DefaultPort

ASSUME InviteAssumption == MaxNameBytes \in Nat /\ DefaultPort \in Nat \ {0}

Version == 1

-----------------------------------------------------------------------------
(* Blobs                                                                   *)

\* marshal() refuses invites of another version, without a key, and of a hub
\* that is no cloud seed and has no IPv6 address.
Refused(inv) ==
  \/ inv.version \notin {0, Version}
  \/ inv.key = None
  \/ ~inv.seed /\ inv.v6 \notin V6

\* A name is a sequence of bytes, and what is over the limit is cut off.
CutName(name) == SubSeq(name, 1, Min({MaxNameBytes, Len(name)}))

\* Faulty variant: a port that is not given stays 0.
PayloadBarePort(inv) ==
  [version |-> Version, key |-> inv.key,
   v6 |-> IF inv.v6 = None THEN Unspecified ELSE inv.v6,
   v4 |-> IF inv.v4 \in V4 THEN inv.v4 ELSE None,
   port |-> inv.port,
   expiry |-> inv.expiry, name |-> CutName(inv.name), seed |-> inv.seed]

\* The fields as they are written.  An expiry of 0 is no expiry.
Payload(inv) ==
  [version |-> Version, key |-> inv.key,
   v6 |-> IF inv.v6 = None THEN Unspecified ELSE inv.v6,
   v4 |-> IF inv.v4 \in V4 THEN inv.v4 ELSE None,
   port |-> IF inv.port = 0 THEN DefaultPort ELSE inv.port,
   expiry |-> inv.expiry, name |-> CutName(inv.name), seed |-> inv.seed]

\* marshal(false): the payload, or None.
Marshal(inv) == IF Refused(inv) THEN None ELSE Payload(inv)

\* Faulty variant: a seed's missing IPv6 address is read as ::.
UnmarshalKeepsZero(body) ==
  IF body.version # Version \/ (~body.seed /\ body.v6 \notin V6)
  THEN None ELSE body

\* unmarshal(): the invite, or None.  It asks for an IPv6 address again, and
\* unlike marshal() it counts :: as none.
Unmarshal(body) ==
  LET v6 == IF body.v6 = Unspecified THEN None ELSE body.v6
  IN  IF body.version # Version \/ (~body.seed /\ v6 \notin V6)
      THEN None ELSE [body EXCEPT !.v6 = v6]

-----------------------------------------------------------------------------
(* The same codec in the app (invite/dart/lib/invite.dart)                 *)

\* UTF-8, of one-byte characters and of those that are a lead and a tail.
Utf8(name) ==
  \A i \in DOMAIN name :
    /\ name[i] = "lead" => i < Len(name) /\ name[i + 1] = "tail"
    /\ name[i] = "tail" => i > 1 /\ name[i - 1] = "lead"

\* _marshal(): an IPv6 address is all it asks for.
DartMarshal(inv) == IF inv.v6 = None /\ ~inv.seed THEN None ELSE Payload(inv)

\* Faulty variant: :: is an address like any other.
DartKeepsZero(body) ==
  IF body.version # Version \/ ~Utf8(body.name) THEN None ELSE body

\* _decodePayload(): it reads invites without an IPv6 address, and refuses
\* names that a cut has left in the middle of a character.
DartUnmarshal(body) ==
  IF body.version # Version \/ ~Utf8(body.name) THEN None
  ELSE [body EXCEPT !.v6 = IF @ = Unspecified THEN None ELSE @]

-----------------------------------------------------------------------------
(* Texts: blobs and short codes                                            *)

\* Encode()
Blob(inv) == [type |-> "blob", body |-> Marshal(inv)]

\* Faulty variant: the fingerprint of the key, as identities have it.
CodeOfKey(inv) ==
  [type |-> "code", body |-> IF Marshal(inv) = None THEN None ELSE inv.key]

\* ShortCode(): a fingerprint of the payload.
ShortCode(inv) == [type |-> "code", body |-> Marshal(inv)]

\* LookupTable(): of several invites with one code the last is found.
Lookup(invs, code) ==
  LET hits == {i \in DOMAIN invs : invs[i] # None /\ ShortCode(invs[i]) = code}
  IN  IF hits = {} THEN None ELSE invs[Max(hits)]

\* Decode() with a resolver over the invites invs.
Decode(text, invs) ==
  IF text.type = "blob" THEN Unmarshal(text.body) ELSE Lookup(invs, text)
===============================================================================
