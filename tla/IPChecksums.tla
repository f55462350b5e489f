----------------------------- MODULE IPChecksums -----------------------------
(***************************************************************************)
(* The addresses of IP packets are rewritten on their way through the      *)
(* tunnel, and their checksums corrected by the difference                 *)
(* (llarp/net/ip_packet.cpp).  An address is a sequence of 32-bit numbers, *)
(* each a pair of 16-bit words; the other words that a checksum covers are *)
(* modelled by one word.  A packet may be a fragment, and then its payload *)
(* holds the transport checksum or does not.                               *)
(***************************************************************************)
EXTENDS Naturals, Sequences, SequencesExt

CONSTANTS
  Words32,   \* the halves of addresses that are tried, pairs of words
  Rests      \* the words that stand for what is not an address, none 0

VARIABLES pkt

Word == 65536

\* Version 6 addresses differ in their first and last numbers.
Addresses(family) ==
  IF family = 4 THEN {<<a>> : a \in Words32}
  ELSE {<<a, <<0, 1>>, <<65534, 0>>, a>> : a \in Words32}
Zero(family) == IF family = 4 THEN << <<0, 0>> >> ELSE [i \in 1..4 |-> <<0, 0>>]

\* The sum folded into 16 bits, twice and no more.
Folded(sum) ==
  LET once == (sum % Word) + (sum \div Word) IN (once + once \div Word) % Word

\* The macros, over all the 32-bit numbers of an address.
ADD32CS(addr) == FoldLeft(LAMBDA acc, a : acc + a[1] + a[2], 0, addr)
SUB32CS(addr) == FoldLeft(LAMBDA acc, a : acc + (Word - 1 - a[1]) + (Word - 1 - a[2]), 0, addr)

\* Over the addresses and the word that stands for the rest.
ipchksum(rest, src, dst) == Word - 1 - Folded(rest + ADD32CS(src) + ADD32CS(dst))

\* The new addresses added rather than their complements.
deltaChecksum_Added(old, oSrc, oDst, nSrc, nDst) ==
  Folded(old + ADD32CS(oSrc) + ADD32CS(oDst) + ADD32CS(nSrc) + ADD32CS(nDst))

\* deltaIPv4Checksum and deltaIPv6Checksum.
deltaChecksum(old, oSrc, oDst, nSrc, nDst) ==
  Folded(old + ADD32CS(oSrc) + ADD32CS(oDst) + SUB32CS(nSrc) + SUB32CS(nDst))

\* Where the transport protocols have their checksum.
chksumoff(proto) == IF proto = "tcp" THEN 16 ELSE 6

\* deltaChecksum...TCP, used for DCCP as well: never all ones.
deltaChecksumTCP(p, nSrc, nDst) ==
  LET check == deltaChecksum(p.check, p.src, p.dst, nSrc, nDst)
  IN IF p.fragoff > chksumoff(p.proto) \/ p.psz < chksumoff(p.proto) - p.fragoff + 2 THEN p.check
     ELSE IF check = Word - 1 THEN 0 ELSE check

\* deltaChecksum...UDP: 0 says that there is no checksum.
deltaChecksumUDP(p, nSrc, nDst) ==
  IF p.fragoff > 6 \/ p.psz < 8 \/ p.check = 0 THEN p.check
  ELSE deltaChecksum(p.check, p.src, p.dst, nSrc, nDst)

UpdatedL4(p, nSrc, nDst) ==
  CASE p.proto \in {"tcp", "dccp"} -> deltaChecksumTCP(p, nSrc, nDst)
    [] p.proto = "udp" -> deltaChecksumUDP(p, nSrc, nDst)
    [] OTHER -> p.check

\* UpdateIPv4Address and UpdateIPv6Address; only the first has a header checksum.
\* A packet that ends with its version 6 header is left alone.
UpdateIPAddress(nSrc, nDst) ==
  pkt' = IF pkt.family = 6 /\ pkt.psz = 0 THEN pkt
         ELSE [pkt EXCEPT
           !.check = UpdatedL4(pkt, nSrc, nDst),
           !.hdrCheck = IF pkt.family = 4
                          THEN deltaChecksum(@, pkt.src, pkt.dst, nSrc, nDst) ELSE @,
           !.src = nSrc, !.dst = nDst]

ZeroAddresses == UpdateIPAddress(Zero(pkt.family), Zero(pkt.family))
ZeroSourceAddress == UpdateIPAddress(Zero(pkt.family), pkt.dst)

\* The answer to a packet that cannot be delivered; ICMP has no pseudo header.
MakeICMPUnreachable ==
  /\ pkt.family = 4
  /\ pkt' = [pkt EXCEPT !.proto = "icmp", !.src = pkt.dst, !.dst = pkt.src, !.check = 0,
                        !.fragoff = 0, !.hdrCheck = ipchksum(pkt.hdrRest, pkt.dst, pkt.src)]

-----------------------------------------------------------------------------
(* The packets there are: fragments begin at multiples of 8.               *)

Frags == {<<0, 0>>, <<0, 8>>, <<0, 24>>, <<8, 8>>, <<8, 16>>, <<16, 8>>, <<24, 8>>}

\* Whether the bytes fragoff .. fragoff + psz - 1 of the datagram have the checksum.
HoldsCheck(p) == p.fragoff <= chksumoff(p.proto) /\ chksumoff(p.proto) + 2 <= p.fragoff + p.psz

\* What the sender put there: UDP sends all ones for 0, or nothing at all.
SenderCheck(proto, rest, src, dst, without) ==
  LET check == ipchksum(rest, src, dst)
  IN IF proto = "udp" THEN (IF without THEN 0 ELSE IF check = 0 THEN Word - 1 ELSE check)
     ELSE check

Init ==
  \E family \in {4, 6}, proto \in {"tcp", "udp", "dccp", "icmp"}, rest \in Rests,
     frag \in Frags, without \in BOOLEAN :
    \E src, dst \in Addresses(family) :
      LET p == [family |-> family, proto |-> proto, src |-> src, dst |-> dst, rest |-> rest,
                hdrRest |-> rest, fragoff |-> frag[1], psz |-> frag[2], without |-> without,
                hdrCheck |-> IF family = 4 THEN ipchksum(rest, src, dst) ELSE 0,
                check |-> SenderCheck(proto, rest, src, dst, without)]
      IN /\ without => proto = "udp"
         /\ pkt = IF HoldsCheck(p) /\ proto # "icmp" THEN p ELSE [p EXCEPT !.check = 0]

Next ==
  \/ \E src, dst \in Addresses(pkt.family) : UpdateIPAddress(src, dst)
  \/ ZeroAddresses \/ ZeroSourceAddress \/ MakeICMPUnreachable

-----------------------------------------------------------------------------
(* Properties.                                                             *)

\* How a receiver tests a checksum: everything adds up to all ones, that is to
\* a multiple of 65535 which is not 0.
Verifies(rest, src, dst, check) ==
  LET sum == rest + ADD32CS(src) + ADD32CS(dst) + check IN sum > 0 /\ sum % (Word - 1) = 0

\* However often a packet is rewritten, its checksums stay those of a packet
\* with its addresses: the header's, and the transport's in the fragment that
\* holds it; a TCP checksum is never all ones, a UDP packet without one stays so
\* and one with one never seems to have none (deltaIPv4Checksum,
\* deltaIPv6Checksum and their "only need to do it 2 times").
ChecksumsHold ==
  /\ pkt.family = 4 => Verifies(pkt.hdrRest, pkt.src, pkt.dst, pkt.hdrCheck)
  /\ pkt.proto # "icmp" /\ HoldsCheck(pkt) =>
       IF pkt.without THEN pkt.check = 0
       ELSE /\ Verifies(pkt.rest, pkt.src, pkt.dst, pkt.check)
            /\ pkt.check # IF pkt.proto = "udp" THEN 0 ELSE Word - 1
=============================================================================
