------------------------------ MODULE Messages ------------------------------
(* The messages of a node and the records in them: what each type writes into  *)
(* its bencoded dictionary, what it reads back, and what the parsers keep from *)
(* one message to the next.  Each link and each routing parser has one object  *)
(* per type, into which every message of that type is decoded; a record is     *)
(* decoded into a new object.                                                  *)
(*                                                                             *)
(* A type is a table: the keys BEncode writes, in their order, and the keys    *)
(* that DecodeKey reads.  Numbers are numbers; a byte string is a tuple, the   *)
(* one of zeros (or the empty one) being Zeros, a signature <<"signed", what>>. *)
EXTENDS Integers, Sequences, SequencesExt

CONSTANTS
  BDecode(_, _, _),  \* how a dictionary is read into an object of a type (Decode)
  Sample(_, _, _),   \* the objects of a type that are sent (Object)
  MaxHeld            \* bounds the DHT messages left in the link parser

\* The protocol version (constants/proto.hpp) and the length of an array of frames,
\* two here and path::max_len in the code.
proto_version == 0
max_len == 2

Zeros == <<0>>

\* The kinds of values.
Num == <<"num">>
Bytes == <<"bytes">>
Proto == <<"proto">>                 \* writes constants::proto_version, whatever is held
Version == <<"version">>             \* refuses another version (BEncodeMaybeVerifyVersion)
Port == <<"port">>                   \* 1..65536, kept in 16 bits
RouterVer == <<"routerver">>         \* none or four numbers
ProtoInfo == <<"protoinfo">>         \* one or two numbers, of 8 and 16 bits
Flag == <<"flag">>                   \* a number, of which only whether it is 0 is kept
Dht == <<"dht">>                     \* a list of DHT messages of any type
Ignored == <<"ignored">>             \* bencode_discard
Entry(name) == <<"entry", name>>     \* an object, decoded in place
List(kind) == <<"list", kind>>       \* what is read is appended
SetOf(kind) == <<"set", kind>>       \* an item that is there already is refused
Array(kind) == <<"array", kind>>
Once(kind) == <<"once", kind>>       \* optional, and refused when it is there already
Maybe(kind) == <<"maybe", kind>>     \* optional, the last one is kept

\* A key that is written always, and one that is left out when the value is zero.
W(k, kind) == [key |-> k, kind |-> kind, when |-> "always"]
Opt(k, kind) == [key |-> k, kind |-> kind, when |-> "nonzero"]
If(cond, k, kind) == [key |-> k, kind |-> kind, when |-> cond]

\* A message of type letter t under the key a, and a record, which has none.  "kept" are
\* the keys that Clear leaves as they are, "drops" whether other keys are skipped.
Message(a, t, writes, reads) ==
  [type |-> <<a, t>>, writes |-> writes, reads |-> reads, kept |-> {}, drops |-> FALSE]
Record(writes, reads) == [Message("", "", writes, reads) EXCEPT !.type = <<>>]

-----------------------------------------------------------------------------
(* Records.                                                                    *)

AddressInfo == Record(
  <<W("c", Num), W("d", Bytes), W("e", Bytes), W("i", Bytes), W("p", Num), W("v", Proto)>>,
  [c |-> Port, d |-> Bytes, e |-> Bytes, i |-> Bytes, p |-> Port, v |-> Version])

\* BEncodeSignedSection, and the signature of a version 0 contact.
RouterContactWrites ==
  <<W("a", List(Entry("AddressInfo"))), W("i", Bytes), W("k", Bytes), Opt("n", Bytes),
    W("p", Bytes), Opt("r", Maybe(RouterVer)), If("v1", "s", List(Bytes)), W("u", Num),
    W("v", Num), W("x", Ignored), If("v0", "z", Bytes)>>

\* As RouterContact, but for refusing keys it does not know.
RouterContactNoOthers == [Record(RouterContactWrites,
  [a |-> List(Entry("AddressInfo")), i |-> Bytes, k |-> Bytes, r |-> Maybe(RouterVer),
   n |-> Bytes, s |-> List(Bytes), p |-> Bytes, u |-> Num, v |-> Num, x |-> Ignored,
   z |-> Bytes]) EXCEPT !.kept = {"i", "signed"}]

RouterContact == [Record(RouterContactWrites,
  [a |-> List(Entry("AddressInfo")), i |-> Bytes, k |-> Bytes, r |-> Maybe(RouterVer),
   n |-> Bytes, s |-> List(Bytes), p |-> Bytes, u |-> Num, v |-> Num, x |-> Ignored,
   z |-> Bytes]) EXCEPT !.kept = {"i", "signed"}, !.drops = TRUE]

ExitInfo == Record(
  <<W("a", Bytes), W("b", Bytes), W("k", Bytes), W("v", Num)>>,
  [k |-> Bytes, v |-> Num, a |-> Bytes, b |-> Bytes])

Policy == Record(
  <<W("a", Num), W("b", Num), W("d", Num), W("v", Num)>>,
  [a |-> Num, b |-> Num, d |-> Num, v |-> Num])

TrafficPolicy == [Record(
  <<W("p", SetOf(ProtoInfo)), W("r", SetOf(Bytes))>>,
  [p |-> SetOf(ProtoInfo), r |-> SetOf(Bytes)]) EXCEPT !.drops = TRUE]

Introduction == Record(
  <<W("k", Bytes), Opt("l", Num), W("p", Bytes), W("v", Num), W("x", Num)>>,
  [k |-> Bytes, l |-> Num, p |-> Bytes, v |-> Num, x |-> Num])

ServiceInfo == Record(
  <<W("e", Bytes), W("s", Bytes), W("v", Proto), Opt("x", Bytes)>>,
  [e |-> Bytes, s |-> Bytes, v |-> Num, x |-> Bytes])

EncryptedIntroSet == Record(
  <<W("d", Bytes), W("n", Bytes), W("s", Num), W("x", Bytes), W("z", Bytes)>>,
  [x |-> Bytes, d |-> Bytes, n |-> Bytes, s |-> Num, z |-> Bytes])

\* BEncode of an introset.
IntroSetWrites ==
  <<W("a", Entry("ServiceInfo")), Opt("e", Maybe(Entry("TrafficPolicy"))),
    W("i", List(Entry("Introduction"))), W("k", Bytes), Opt("n", Bytes), Opt("p", List(Num)),
    Opt("r", SetOf(Bytes)), Opt("s", List(Bytes)), W("t", Num), W("v", Num), W("z", Bytes)>>

IntroSet == [Record(IntroSetWrites,
  [a |-> Entry("ServiceInfo"), e |-> Maybe(Entry("TrafficPolicy")),
   i |-> List(Entry("Introduction")), k |-> Bytes, n |-> Bytes, p |-> List(Num),
   r |-> SetOf(Bytes), s |-> List(Bytes), t |-> Num, v |-> Num, z |-> Bytes])
  EXCEPT !.drops = TRUE]

\* Of the keys of a service only the signing key is kept in its file.
Identity == [Record(
  <<W("s", Bytes), W("v", Num)>>, [s |-> Bytes, v |-> Num]) EXCEPT !.drops = TRUE]

\* No key of a proof of work is understood, and none is written.
PoW == Record(<<>>, <<>>)

\* (A lifetime shorter than the default would be written under i; the only one that
\* is ever asked for is the default.)
LR_CommitRecordWrites ==
  <<W("c", Bytes), W("i", Bytes), W("n", Bytes), W("r", Bytes), W("t", Bytes),
    Opt("u", Maybe(Entry("RouterContact"))), W("v", Proto), Opt("w", Once(Entry("PoW")))>>

LR_CommitRecord == Record(LR_CommitRecordWrites,
  [c |-> Bytes, i |-> Bytes, l |-> Num, n |-> Bytes, r |-> Bytes, t |-> Bytes,
   u |-> Maybe(Entry("RouterContact")), v |-> Version, w |-> Once(Entry("PoW"))])

LR_StatusRecord == Record(
  <<W("s", Num), W("v", Proto)>>, [s |-> Num, v |-> Version])

ProtocolMessage == Record(
  <<W("a", Num), Opt("d", Bytes), W("i", Entry("Introduction")), W("n", Num),
    W("s", Entry("ServiceInfo")), Opt("t", Bytes), W("v", Num)>>,
  [a |-> Num, d |-> Bytes, i |-> Entry("Introduction"), n |-> Num,
   s |-> Entry("ServiceInfo"), t |-> Bytes, v |-> Num])

-----------------------------------------------------------------------------
(* Messages between the two ends of a link.                                    *)

LinkIntroMessage == Message("a", "i",
  <<W("n", Bytes), W("p", Num), W("r", Entry("RouterContact")), W("v", Proto), W("z", Bytes)>>,
  [n |-> Bytes, p |-> Num, r |-> Entry("RouterContact"), v |-> Version, z |-> Bytes])

RelayUpstreamMessage == Message("a", "u",
  <<W("p", Bytes), W("v", Proto), W("x", Bytes), W("y", Bytes)>>,
  [p |-> Bytes, v |-> Version, x |-> Bytes, y |-> Bytes])

RelayDownstreamMessage == Message("a", "d",
  <<W("p", Bytes), W("v", Proto), W("x", Bytes), W("y", Bytes)>>,
  [p |-> Bytes, v |-> Version, x |-> Bytes, y |-> Bytes])

DHTImmediateMessage == Message("a", "m",
  <<W("m", Dht), W("v", Proto)>>, [m |-> Dht, v |-> Version])

LR_CommitMessage == Message("a", "c",
  <<W("c", Array(Bytes)), W("v", Proto)>>, [c |-> Array(Bytes), v |-> Version])

LR_StatusMessage == [Message("a", "s",
  <<W("c", Array(Bytes)), W("p", Bytes), W("s", Num), W("v", Proto)>>,
  [c |-> Array(Bytes), p |-> Bytes, s |-> Num, v |-> Version]) EXCEPT !.kept = {"p"}]

DiscardMessage == Message("a", "x", <<>>, <<>>)

(* Messages between the two ends of a path.                                    *)

DataDiscardMessage == [Message("A", "D",
  <<W("P", Bytes), W("S", Num), W("V", Num)>>,
  [P |-> Bytes, S |-> Num, V |-> Num]) EXCEPT !.kept = {"P", "S"}]

DHTMessage == [Message("A", "M",
  <<W("M", Dht), W("S", Num), W("V", Proto)>>,
  [M |-> Dht, S |-> Num, V |-> Num]) EXCEPT !.kept = {"S"}]

PathConfirmMessage == [Message("A", "P",
  <<W("L", Num), W("S", Num), W("T", Num), W("V", Num)>>,
  [L |-> Num, S |-> Num, T |-> Num, V |-> Num]) EXCEPT !.kept = {"S"}]

\* As PathLatencyMessage, but for a Clear that forgets L.
PathLatencyNotReset == [Message("A", "L",
  <<Opt("L", Num), Opt("T", Num), W("S", Num)>>,
  [L |-> Num, S |-> Num, T |-> Num]) EXCEPT !.kept = {"S", "L"}]

PathLatencyMessage == [Message("A", "L",
  <<Opt("L", Num), Opt("T", Num), W("S", Num)>>,
  [L |-> Num, S |-> Num, T |-> Num]) EXCEPT !.kept = {"S"}]

PathTransferMessage == [Message("A", "T",
  <<W("P", Bytes), W("S", Num), W("T", Entry("ProtocolFrame")), W("V", Proto), W("Y", Bytes)>>,
  [P |-> Bytes, S |-> Num, T |-> Entry("ProtocolFrame"), V |-> Num, Y |-> Bytes])
  EXCEPT !.kept = {"S"}]

TransferTrafficMessage == [Message("A", "I",
  <<W("P", Num), W("S", Num), W("V", Num), W("X", List(Bytes))>>,
  [S |-> Num, P |-> Num, V |-> Num, X |-> List(Bytes)]) EXCEPT !.kept = {"S"}, !.drops = TRUE]

\* A frame is a message of a path, or in a transfer message.
ProtocolFrame == [Message("A", "H",
  <<Opt("C", Bytes), Opt("D", Bytes), W("F", Bytes), Opt("N", Bytes), Opt("R", Num),
    Opt("T", Bytes), W("V", Num), W("Z", Bytes)>>,
  [D |-> Bytes, F |-> Bytes, C |-> Bytes, N |-> Bytes, S |-> Num, R |-> Num, T |-> Bytes,
   V |-> Version, Z |-> Bytes]) EXCEPT !.kept = {"S"}]

ObtainExitMessage == [Message("A", "O",
  <<W("B", List(Entry("Policy"))), W("E", Num), W("I", Bytes), W("S", Num), W("T", Num),
    W("V", Num), W("W", List(Entry("Policy"))), W("X", Num), W("Z", Bytes)>>,
  [B |-> List(Entry("Policy")), E |-> Num, I |-> Bytes, S |-> Num, T |-> Num, V |-> Num,
   W |-> List(Entry("Policy")), X |-> Num, Z |-> Bytes]) EXCEPT !.kept = {"S", "V"}]

GrantExitMessage == [Message("A", "G",
  <<W("S", Num), W("T", Num), W("V", Num), W("Y", Bytes), W("Z", Bytes)>>,
  [S |-> Num, T |-> Num, V |-> Num, Y |-> Bytes, Z |-> Bytes]) EXCEPT !.kept = {"S", "V"}]

RejectExitMessage == [Message("A", "J",
  <<W("B", Num), W("R", List(Entry("Policy"))), W("S", Num), W("T", Num), W("V", Num),
    W("Y", Bytes), W("Z", Bytes)>>,
  [B |-> Num, R |-> List(Entry("Policy")), S |-> Num, T |-> Num, V |-> Num, Y |-> Bytes,
   Z |-> Bytes]) EXCEPT !.kept = {"S", "V"}]

\* The two messages about the update of an exit have a type that no parser knows.
UpdateExitMessage == [Message("A", "V",
  <<W("P", Bytes), W("S", Num), W("T", Num), W("V", Num), W("Z", Bytes)>>,
  [S |-> Num, T |-> Num, V |-> Num, P |-> Bytes, Z |-> Bytes]) EXCEPT !.kept = {"S", "V"}]

UpdateExitVerifyMessage == [Message("A", "V",
  <<W("S", Num), W("T", Num), W("V", Num)>>,
  [S |-> Num, T |-> Num, V |-> Num]) EXCEPT !.kept = {"S", "V"}]

CloseExitMessage == [Message("A", "C",
  <<W("S", Num), W("V", Num), W("Y", Bytes), W("Z", Bytes)>>,
  [S |-> Num, V |-> Num, Y |-> Bytes, Z |-> Bytes]) EXCEPT !.kept = {"S", "V"}]

(* DHT messages.                                                               *)

FindNameMessage == [Message("A", "N",
  <<W("H", Bytes), W("T", Num)>>, [H |-> Bytes, T |-> Num]) EXCEPT !.drops = TRUE]

GotNameMessage == [Message("A", "M",
  <<W("D", Bytes), W("N", Bytes), W("T", Num)>>,
  [D |-> Bytes, N |-> Bytes, T |-> Num]) EXCEPT !.drops = TRUE]

\* By the tag of a service or by its location.
FindIntroMessage == Message("A", "F",
  <<Opt("N", Bytes), W("O", Num), If("noTag", "S", Bytes), W("T", Num), W("V", Proto)>>,
  [N |-> Bytes, O |-> Num, S |-> Bytes, T |-> Num, V |-> Version])

FindRouterMessage == Message("A", "R",
  <<W("E", Flag), W("I", Flag), W("K", Bytes), W("T", Num), W("V", Num)>>,
  [E |-> Flag, I |-> Flag, K |-> Bytes, T |-> Num, V |-> Num])

GotRouterMessage == Message("A", "S",
  <<Opt("K", Once(Bytes)), Opt("N", List(Bytes)), W("R", List(Entry("RouterContact"))),
    W("T", Num), W("V", Num)>>,
  [K |-> Once(Bytes), N |-> List(Bytes), R |-> List(Entry("RouterContact")), T |-> Num,
   V |-> Version])

PublishIntroWrites ==
  <<W("I", Entry("EncryptedIntroSet")), W("O", Num), W("R", Flag), W("T", Num), W("V", Proto)>>

PublishIntroMessage == Message("A", "I", PublishIntroWrites,
  [I |-> Entry("EncryptedIntroSet"), O |-> Num, R |-> Flag, T |-> Num, V |-> Num])

GotIntroMessage == Message("A", "G",
  <<W("I", List(Entry("EncryptedIntroSet"))), Opt("K", Once(Bytes)), W("T", Num), W("V", Num)>>,
  [I |-> List(Entry("EncryptedIntroSet")), K |-> Once(Bytes), T |-> Num, V |-> Num])

-----------------------------------------------------------------------------
(* Encoding and decoding.  A wire value is <<"i", number>>, <<"s", bytes>>,    *)
(* <<"l", items>> or <<"d", entries, whole>>, entries being key and value, and *)
(* whole whether the dictionary is closed.                                     *)

Types ==
  [AddressInfo |-> AddressInfo, RouterContact |-> RouterContact, ExitInfo |-> ExitInfo,
   Policy |-> Policy, TrafficPolicy |-> TrafficPolicy, Introduction |-> Introduction,
   ServiceInfo |-> ServiceInfo, EncryptedIntroSet |-> EncryptedIntroSet,
   IntroSet |-> IntroSet, Identity |-> Identity, PoW |-> PoW,
   LR_CommitRecord |-> LR_CommitRecord, LR_StatusRecord |-> LR_StatusRecord,
   ProtocolMessage |-> ProtocolMessage,
   LinkIntroMessage |-> LinkIntroMessage, RelayUpstreamMessage |-> RelayUpstreamMessage,
   RelayDownstreamMessage |-> RelayDownstreamMessage,
   DHTImmediateMessage |-> DHTImmediateMessage, LR_CommitMessage |-> LR_CommitMessage,
   LR_StatusMessage |-> LR_StatusMessage, DiscardMessage |-> DiscardMessage,
   DataDiscardMessage |-> DataDiscardMessage, DHTMessage |-> DHTMessage,
   PathConfirmMessage |-> PathConfirmMessage, PathLatencyMessage |-> PathLatencyMessage,
   PathTransferMessage |-> PathTransferMessage,
   TransferTrafficMessage |-> TransferTrafficMessage, ProtocolFrame |-> ProtocolFrame,
   ObtainExitMessage |-> ObtainExitMessage, GrantExitMessage |-> GrantExitMessage,
   RejectExitMessage |-> RejectExitMessage, UpdateExitMessage |-> UpdateExitMessage,
   UpdateExitVerifyMessage |-> UpdateExitVerifyMessage,
   CloseExitMessage |-> CloseExitMessage,
   FindNameMessage |-> FindNameMessage, GotNameMessage |-> GotNameMessage,
   FindIntroMessage |-> FindIntroMessage, FindRouterMessage |-> FindRouterMessage,
   GotRouterMessage |-> GotRouterMessage, PublishIntroMessage |-> PublishIntroMessage,
   GotIntroMessage |-> GotIntroMessage]

\* The object behind each type letter, of the link parser, the routing parser and the
\* decoder of DHT messages.
LinkHolder ==
  [i |-> "LinkIntroMessage", d |-> "RelayDownstreamMessage", u |-> "RelayUpstreamMessage",
   m |-> "DHTImmediateMessage", c |-> "LR_CommitMessage", s |-> "LR_StatusMessage",
   x |-> "DiscardMessage"]
RoutingHolder ==
  [D |-> "DataDiscardMessage", L |-> "PathLatencyMessage", M |-> "DHTMessage",
   P |-> "PathConfirmMessage", T |-> "PathTransferMessage", H |-> "ProtocolFrame",
   I |-> "TransferTrafficMessage", G |-> "GrantExitMessage", J |-> "RejectExitMessage",
   O |-> "ObtainExitMessage", U |-> "UpdateExitMessage", C |-> "CloseExitMessage"]
DhtTypes ==
  [N |-> "FindNameMessage", M |-> "GotNameMessage", F |-> "FindIntroMessage",
   R |-> "FindRouterMessage", S |-> "GotRouterMessage", I |-> "PublishIntroMessage",
   G |-> "GotIntroMessage"]

RECURSIVE Zero(_), Fresh(_)
Zero(kind) ==
  CASE kind[1] \in {"num", "proto", "version", "port", "flag"} -> 0
    [] kind[1] = "bytes" -> Zeros
    [] kind[1] = "array" -> [j \in 1..max_len |-> Zero(kind[2])]
    [] kind[1] = "entry" -> Fresh(kind[2])
    [] OTHER -> <<>>

\* A new object.  A contact also keeps the dictionary that was signed (signed_bt_dict).
Fresh(name) ==
  LET reads == Types[name].reads
      keys == DOMAIN reads \union (IF name = "RouterContact" THEN {"signed"} ELSE {})
  IN [key \in keys |-> IF key = "signed" THEN <<>> ELSE Zero(reads[key])]

\* Clear, which calls the Clear of the objects in it.
RECURSIVE Cleared(_, _)
Cleared(name, obj) ==
  LET T == Types[name]
      Clear(key) ==
        CASE key \in T.kept -> obj[key]
          [] key \notin T.kept /\ T.reads[key][1] = "entry" -> Cleared(T.reads[key][2], obj[key])
          [] OTHER -> Zero(T.reads[key])
  IN [key \in DOMAIN obj |-> Clear(key)]

IsWritten(w, obj) ==
  CASE w.when = "always" -> TRUE
    [] w.when = "nonzero" -> obj[w.key] # Zero(w.kind)
    [] w.when = "noTag" -> obj["N"] = Zeros
    [] w.when = "v0" -> obj["v"] = 0
    [] w.when = "v1" -> obj["v"] > 0

RECURSIVE Wire(_, _, _), Dict(_, _, _)
\* BEncode of a value by a node of protocol version ver.
Wire(kind, v, ver) ==
  CASE kind[1] \in {"num", "port", "flag"} -> <<"i", v>>
    [] kind[1] = "proto" -> <<"i", ver>>
    [] kind[1] = "bytes" -> <<"s", v>>
    [] kind[1] \in {"routerver", "protoinfo"} -> <<"l", [j \in DOMAIN v |-> <<"i", v[j]>>]>>
    [] kind[1] = "ignored" -> <<"l", <<>>>>
    [] kind[1] = "dht" -> <<"l", [j \in DOMAIN v |-> Dict(v[j].name, v[j].obj, ver)]>>
    [] kind[1] = "entry" ->
         IF kind[2] = "RouterContact" /\ v.v = 1
         THEN <<"l", <<<<"i", 1>>, <<"s", v.z>>, v.signed>>>>
         ELSE Dict(kind[2], v, ver)
    [] kind[1] \in {"list", "set", "array"} ->
         <<"l", [j \in DOMAIN v |-> Wire(kind[2], v[j], ver)]>>
    [] kind[1] \in {"once", "maybe"} -> Wire(kind[2], v[1], ver)

Dict(name, obj, ver) ==
  LET T == Types[name]
      there == SelectSeq(T.writes, LAMBDA w : IsWritten(w, obj))
      type == IF T.type = <<>> THEN <<>> ELSE <<<<T.type[1], <<"s", <<T.type[2]>>>>>>>>
  IN <<"d", type \o [j \in DOMAIN there |->
                       <<there[j].key, Wire(there[j].kind, obj[there[j].key], ver)>>], TRUE>>

(* What reading the wire value w does to the value old: whether it is accepted, and *)
(* what is then held, which can be something new even if it is not.            *)
Got(ok, v) == [ok |-> ok, v |-> v]
ReadInteger(w, old) == IF w[1] = "i" THEN Got(TRUE, w[2]) ELSE Got(FALSE, old)
ReadString(w, old) == IF w[1] = "s" THEN Got(TRUE, w[2]) ELSE Got(FALSE, old)
ReadVersion(w, old) == IF w[1] = "i" THEN Got(w[2] = proto_version, w[2]) ELSE Got(FALSE, old)
ReadFlag(w, old) ==
  IF w[1] = "i" THEN Got(TRUE, IF w[2] = 0 THEN 0 ELSE 1) ELSE Got(FALSE, old)
ReadPort(w, old) ==
  IF w[1] = "i" /\ w[2] \in 1..65536 THEN Got(TRUE, w[2] % 65536) ELSE Got(FALSE, old)

Ints(w) == [j \in DOMAIN w[2] |-> w[2][j][2]]
ReadRouterVersion(w) == Got(w[1] = "l" /\ Len(w[2]) \in {0, 4}, Ints(w))
ReadProtocolInfo(w) ==
  Got(/\ w[1] = "l" /\ w[2] # <<>> /\ Ints(w)[1] <= 255
      /\ Len(w[2]) > 1 => Ints(w)[2] <= 65536,
      [j \in DOMAIN w[2] |-> Ints(w)[j] % 65536])

\* What becomes of a list when the item r was read.  BEncodeReadList: an item that is
\* refused has been appended all the same.
ReadList(old, r) == Got(r.ok, Append(old, r.v))

ReadSet(old, r) ==
  IF r.ok /\ r.v \notin {old[j] : j \in DOMAIN old} THEN Got(TRUE, Append(old, r.v))
  ELSE Got(FALSE, old)

\* ListDecoder.
DecodeMessageList(name, old, r) ==
  IF r.ok THEN Got(TRUE, Append(old, [name |-> name, obj |-> r.v])) ELSE Got(FALSE, old)

RECURSIVE Read(_, _, _), ReadItems(_, _, _), ReadArray(_, _, _), ReadContact(_, _),
          ReadKeys(_, _, _), Decode(_, _, _)
Read(kind, w, old) ==
  CASE kind[1] = "num" -> ReadInteger(w, old)
    [] kind[1] = "flag" -> ReadFlag(w, old)
    [] kind[1] = "version" -> ReadVersion(w, old)
    [] kind[1] = "port" -> ReadPort(w, old)
    [] kind[1] = "bytes" -> ReadString(w, old)
    [] kind[1] = "routerver" -> ReadRouterVersion(w)
    [] kind[1] = "protoinfo" -> ReadProtocolInfo(w)
    [] kind[1] = "ignored" -> Got(TRUE, old)
    [] kind[1] \in {"list", "set", "dht"} ->
         IF w[1] = "l" THEN ReadItems(kind, w[2], old) ELSE Got(FALSE, old)
    [] kind[1] = "array" -> ReadArray(kind[2], w, old)
    [] kind[1] \in {"once", "maybe"} ->
         LET r == Read(kind[2], w, Zero(kind[2]))
         IN Got(r.ok /\ (kind[1] = "once" => old = <<>>), <<r.v>>)
    [] kind = Entry("RouterContact") -> ReadContact(w, old)
    [] kind[1] = "entry" /\ kind[2] # "RouterContact" ->
         IF w[1] = "d" THEN Decode(kind[2], w, old) ELSE Got(FALSE, old)

\* bencode_read_list: item by item, until one is refused.  A DHT message goes to a new
\* object of its type (MessageDecoder).
ReadItems(kind, ws, old) ==
  IF ws = <<>> THEN Got(TRUE, old)
  ELSE LET st == ReadItems(kind, Front(ws), old)
           w == Last(ws)
           item == IF kind[1] = "dht" THEN Entry(DhtTypes[w[2][1][2][2][1]]) ELSE kind[2]
           r == Read(item, w, Zero(item))
       IN CASE ~st.ok -> st
            [] st.ok /\ kind[1] = "list" -> ReadList(st.v, r)
            [] st.ok /\ kind[1] = "set" -> ReadSet(st.v, r)
            [] st.ok /\ kind[1] = "dht" -> DecodeMessageList(item[2], st.v, r)

\* BEncodeReadArray: items beyond those that came stay as they were.
ReadArray(kind, w, old) ==
  LET frames == [j \in 1..max_len |->
                   IF j <= Len(w[2]) THEN Read(kind, w[2][j], old[j]) ELSE Got(TRUE, old[j])]
  IN Got(Len(w[2]) <= max_len /\ \A j \in 1..max_len : frames[j].ok,
         [j \in 1..max_len |-> frames[j].v])

\* RouterContact::BDecode: a dictionary, or a list of version, signature and the signed
\* dictionary.
ReadContact(w, old) ==
  LET clear == Cleared("RouterContact", old)
      signed == [clear EXCEPT !.z = w[2][2][2], !.signed = w[2][3]]
  IN Decode("RouterContact", IF w[1] = "d" THEN w ELSE w[2][3],
            IF w[1] = "d" THEN clear ELSE signed)

\* The DecodeKey of a type: entry by entry, until one is refused.
ReadKeys(T, es, old) ==
  IF es = <<>> THEN [ok |-> TRUE, v |-> old]
  ELSE LET st == ReadKeys(T, Front(es), old)
           key == Last(es)[1]
           w == Last(es)[2]
       IN CASE ~st.ok -> st
            [] st.ok /\ T.type # <<>> /\ key = T.type[1] ->
                 [ok |-> w = <<"s", <<T.type[2]>>>>, v |-> st.v]
            [] st.ok /\ key \in DOMAIN T.reads ->
                 LET r == Read(T.reads[key], w, st.v[key])
                 IN [ok |-> r.ok, v |-> [st.v EXCEPT ![key] = r.v]]
            [] OTHER -> [ok |-> T.drops, v |-> st.v]

\* bencode_read_dict.
Decode(name, w, old) ==
  LET all == ReadKeys(Types[name], w[2], old)
  IN [ok |-> all.ok /\ w[3], v |-> all.v]

-----------------------------------------------------------------------------
(* Signatures: of the encoding in which the signature is zero.                 *)

\* The key under which a type has its signature.
SignatureOf ==
  [RouterContact |-> "z", LinkIntroMessage |-> "z", EncryptedIntroSet |-> "z",
   ProtocolFrame |-> "Z", ObtainExitMessage |-> "Z", GrantExitMessage |-> "Z",
   RejectExitMessage |-> "Z", CloseExitMessage |-> "Z"]

Unsigned(name, obj, ver) == Dict(name, [obj EXCEPT ![SignatureOf[name]] = Zeros], ver)

\* A contact of version 1 is signed, and sent on, as the dictionary it came with.
VerifyContact(obj) ==
  obj.z = <<"signed", IF obj.v = 1 THEN obj.signed
                      ELSE Unsigned("RouterContact", obj, proto_version)>>

VerifySignature(name, obj) ==
  IF name = "RouterContact" THEN VerifyContact(obj)
  ELSE obj[SignatureOf[name]] = <<"signed", Unsigned(name, obj, proto_version)>>

\* All the signatures in a value.
RECURSIVE Verifies(_, _)
Verifies(kind, v) ==
  CASE kind[1] = "entry" ->
         /\ kind[2] \in DOMAIN SignatureOf => VerifySignature(kind[2], v)
         /\ LET reads == Types[kind[2]].reads
            IN \A key \in DOMAIN reads : Verifies(reads[key], v[key])
    [] kind[1] \in {"list", "set", "array", "once", "maybe"} ->
         \A j \in DOMAIN v : Verifies(kind[2], v[j])
    [] kind[1] = "dht" -> \A j \in DOMAIN v : Verifies(Entry(v[j].name), v[j].obj)
    [] OTHER -> TRUE

\* One of version 1 may have a key that a later version of the software adds.
SignContact(obj, ver) ==
  LET dict == Unsigned("RouterContact", obj, ver)
      later == <<"d", Append(dict[2], <<"~", <<"s", <<1>>>>>>), TRUE>>
  IN IF obj.v = 1 THEN [obj EXCEPT !.z = <<"signed", later>>, !.signed = later]
     ELSE [obj EXCEPT !.z = <<"signed", dict>>]

Sign(name, obj, ver) ==
  IF name = "RouterContact" THEN SignContact(obj, ver)
  ELSE [obj EXCEPT ![SignatureOf[name]] = <<"signed", Unsigned(name, obj, ver)>>]

-----------------------------------------------------------------------------
(* What is sent: objects number 0, in which all that can be zero or missing is, *)
(* 1 and 2, by a node of protocol version ver.                                 *)

RECURSIVE Value(_, _, _), Object(_, _, _)
Value(kind, k, ver) ==
  CASE kind[1] \in {"num", "port"} -> k
    [] kind[1] = "flag" -> IF k = 0 THEN 0 ELSE 1
    [] kind[1] \in {"proto", "version"} -> ver
    [] kind[1] = "bytes" -> <<k>>
    [] kind[1] = "routerver" -> <<0, k, k, k>>
    [] kind[1] = "protoinfo" -> IF k = 1 THEN <<6, 65535>> ELSE <<17>>
    [] kind[1] = "ignored" -> <<>>
    [] kind[1] \in {"list", "set"} -> [j \in 1..k |-> Value(kind[2], j, ver)]
    [] kind[1] = "array" -> [j \in 1..max_len |-> Value(kind[2], k, ver)]
    [] kind[1] \in {"once", "maybe"} -> IF k = 0 THEN <<>> ELSE <<Value(kind[2], k, ver)>>
    [] kind[1] = "entry" -> Object(kind[2], k, ver)
    [] kind[1] = "dht" ->
         LET names == CASE k = 0 -> <<>>
                        [] k = 1 -> <<"FindNameMessage", "FindIntroMessage", "FindRouterMessage">>
                        [] k = 2 -> <<"GotNameMessage", "FindIntroMessage", "PublishIntroMessage",
                                      "GotRouterMessage", "GotIntroMessage">>
         IN [j \in DOMAIN names |-> [name |-> names[j], obj |-> Object(names[j], k, ver)]]

\* The values of the keys that are written, the others as in a new object.  A contact's
\* version is the one of its format; an introset is looked for by tag or by location.
Object(name, k, ver) ==
  LET T == Types[name]
      full == [key \in DOMAIN Fresh(name) |->
                 CASE key = "signed" -> <<>>
                   [] key = "v" /\ name = "RouterContact" -> k \div 2
                   [] key \in {"v", "V"} /\ name # "RouterContact" -> ver
                   [] key = "N" /\ name = "FindIntroMessage" /\ k = 2 -> Zeros
                   [] OTHER -> Value(T.reads[key], k, ver)]
      written == {T.writes[j].key : j \in {j \in DOMAIN T.writes : IsWritten(T.writes[j], full)}}
      obj == [key \in DOMAIN full |-> IF key \in written THEN full[key] ELSE Fresh(name)[key]]
  IN IF name \in DOMAIN SignatureOf THEN Sign(name, obj, ver) ELSE obj

\* A message may be cut off after n entries, or have a key that a later version added.
Cut(w, n) == <<"d", SubSeq(w[2], 1, n), FALSE>>
Extended(w) == <<"d", Append(w[2], <<"~", <<"s", <<1>>>>>>), TRUE>>
Wires(w) == {w, Extended(w)} \union {Cut(w, n) : n \in 1..Len(w[2])}

-----------------------------------------------------------------------------
VARIABLES
  parser,   \* "link", "routing", or "record" for a new object every time
  type,     \* the type of the messages; those of another one use another object
  held,     \* the object of that type in the parser's holder
  last      \* of the last message: was it intact and of our version, was it whole, was it
            \* handled, and if so as it was sent and with valid signatures

vars == <<parser, type, held, last>>

Records == {"LR_CommitRecord", "LR_StatusRecord", "ProtocolMessage", "IntroSet", "Identity",
            "ExitInfo", "TrafficPolicy", "ServiceInfo"}

Init ==
  /\ \/ parser = "link" /\ type \in {LinkHolder[t] : t \in DOMAIN LinkHolder}
     \/ parser = "routing" /\ type \in {RoutingHolder[t] : t \in DOMAIN RoutingHolder}
     \/ parser = "record" /\ type \in Records
  /\ held = Fresh(type)
  /\ last = <<>>

\* Does the parser find the object of this type under the type letter in the message?
Known ==
  CASE parser = "link" -> LinkHolder[Types[type].type[2]] = type
    [] parser = "routing" -> /\ Types[type].type[2] \in DOMAIN RoutingHolder
                             /\ RoutingHolder[Types[type].type[2]] = type
    [] OTHER -> TRUE

\* The message m is decoded with the result r, and handled if that is accepted.
Arrives(m, r) ==
  last' = <<[intact |-> m.ver = proto_version /\ m.wire = m.sent,
             whole |-> m.wire[3], handled |-> r.ok,
             asSent |-> r.ok => \/ Dict(type, r.v, m.ver) = m.sent
                                \/ /\ type = "DHTImmediateMessage"
                                   /\ IsSuffix(m.obj.m, r.v.m),
             verified |-> r.ok => Verifies(Entry(type), r.v)]>>

\* LinkMessageParser::ProcessFrom: only a message that is handled is cleared.
ProcessFrom(m) ==
  /\ parser = "link" /\ Known
  /\ type = "DHTImmediateMessage" => Len(held.m) <= MaxHeld
  /\ \E r \in {BDecode(type, m.wire, held)} :
       /\ Arrives(m, r)
       /\ held' = IF r.ok THEN Cleared(type, r.v) ELSE r.v
  /\ UNCHANGED <<parser, type>>

\* InboundMessageParser::ParseMessageBuffer: every message is cleared.
ParseMessageBuffer(m) ==
  /\ parser = "routing" /\ Known
  /\ \E r \in {BDecode(type, m.wire, held)} : Arrives(m, r) /\ held' = Cleared(type, r.v)
  /\ UNCHANGED <<parser, type>>

\* A message whose type letter stands for no object is refused.
UnknownType(m) ==
  /\ ~Known
  /\ Arrives(m, [ok |-> FALSE, v |-> held])
  /\ UNCHANGED <<parser, type, held>>

\* BDecode of a record.
DecodeRecord(m) ==
  /\ parser = "record"
  /\ \E r \in {BDecode(type, m.wire, held)} : Arrives(m, r)
  /\ UNCHANGED <<parser, type, held>>

\* The message m: the object that was sent, its encoding, and what comes of it.
Next ==
  \E k \in 0..2, ver \in {proto_version, proto_version + 1} :
    \E obj \in {Sample(type, k, ver)} :
      \E sent \in {Dict(type, obj, ver)} :
        \E w \in Wires(sent) :
          \E m \in {[obj |-> obj, ver |-> ver, sent |-> sent, wire |-> w]} :
            ProcessFrom(m) \/ ParseMessageBuffer(m) \/ UnknownType(m) \/ DecodeRecord(m)

Spec == Init /\ [][Next]_vars

-----------------------------------------------------------------------------
\* Whatever messages came before, refused ones included (LinkMessageParser::Reset is
\* called only after HandleMessage): a message that is handled has exactly the fields
\* that were sent, all its signatures verify, and it was whole; and an intact message
\* of our protocol version is handled.  A DHT immediate may have before its own
\* messages those of one that was refused, which are then handled with it; the update of
\* an exit, whose type letter the parser does not know, is never handled.
MessagesUnderstood ==
  last # <<>> =>
    /\ last[1].handled => last[1].whole /\ last[1].asSent /\ last[1].verified
    /\ last[1].intact /\ Known => last[1].handled
=============================================================================
