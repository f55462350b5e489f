---------------------------- MODULE TunAddresses ----------------------------
(***************************************************************************)
(* The addresses of the tunnel interface of a client or a hidden service   *)
(* (llarp/handlers/tun.cpp): every remote gets one when it is first met,   *)
(* and they can be saved at the end and loaded at the next start.          *)
(***************************************************************************)
EXTENDS Naturals, FiniteSets

CONSTANTS
  Addrs,   \* remote services and master nodes
  Us,
  m_MaxIP

m_OurIP == 1
NoIP == 0

VARIABLES
  m_IPToAddr, m_AddrToIP,
  m_IPActivity,  \* "now", "past" or "forever"
  m_NextIP,
  file           \* the saved map

vars == <<m_IPToAddr, m_AddrToIP, m_IPActivity, m_NextIP, file>>

Put(f, k, v) == [y \in DOMAIN f \cup {k} |-> IF y = k THEN v ELSE f[y]]

\* LoadAddrMap in Configure, then SetupTun.
Load(saved) ==
  /\ m_IPToAddr' = Put(saved, m_OurIP, Us)
  /\ m_AddrToIP' = [a \in {saved[ip] : ip \in DOMAIN saved} \cup {Us} |->
                      IF a = Us THEN m_OurIP ELSE CHOOSE ip \in DOMAIN saved : saved[ip] = a]
  /\ m_IPActivity' = Put([ip \in DOMAIN saved |-> "now"], m_OurIP, "forever")
  /\ m_NextIP' = m_OurIP
  /\ file' = saved

Init ==
  /\ m_IPToAddr = [ip \in {m_OurIP} |-> Us] /\ m_AddrToIP = [a \in {Us} |-> m_OurIP]
  /\ m_IPActivity = [ip \in {m_OurIP} |-> "forever"]
  /\ m_NextIP = m_OurIP
  /\ file = [ip \in {} |-> Us]

Map(addr, ip) ==
  /\ m_IPToAddr' = Put(m_IPToAddr, ip, addr)
  /\ m_AddrToIP' = Put(m_AddrToIP, addr, ip)

MarkIPActive(ip) ==
  m_IPActivity' = Put(m_IPActivity, ip,
    IF ip \in DOMAIN m_IPActivity /\ m_IPActivity[ip] = "forever" THEN "forever" ELSE "now")

Known(addr) ==
  /\ addr \in DOMAIN m_AddrToIP
  /\ MarkIPActive(m_AddrToIP[addr])
  /\ UNCHANGED <<m_IPToAddr, m_AddrToIP, m_NextIP>>

\* The loop that increments m_NextIP stops at the first address that is free, or at
\* m_MaxIP, which is not given away.
FreeIPs == {ip \in m_NextIP + 1..m_MaxIP : ip \notin DOMAIN m_IPToAddr \/ ip = m_MaxIP}
FirstFree == CHOOSE ip \in FreeIPs : \A other \in FreeIPs : ip <= other

NewIP(addr) ==
  /\ addr \notin DOMAIN m_AddrToIP /\ m_NextIP < m_MaxIP /\ FirstFree < m_MaxIP
  /\ m_NextIP' = FirstFree
  /\ Map(addr, FirstFree)
  /\ MarkIPActive(FirstFree)

Oldest_Any == DOMAIN m_IPActivity

\* The first entry in the order of the hash map that was active before this moment:
\* its timestamp, not its age, is what the later ones are compared with.
Oldest ==
  LET past == {ip \in DOMAIN m_IPActivity : m_IPActivity[ip] = "past"}
  IN IF past = {} THEN {NoIP} ELSE past

\* We are full: an address is given to another remote, and m_AddrToIP of the one
\* that had it stays as it is.
Remap(addr) ==
  /\ addr \notin DOMAIN m_AddrToIP /\ (m_NextIP < m_MaxIP => FirstFree = m_MaxIP)
  /\ m_NextIP' = m_MaxIP
  /\ \E ip \in Oldest : Map(addr, ip) /\ MarkIPActive(ip)

\* A DNS answer for the remote, or a packet from it.
ObtainIPForAddr(addr) ==
  /\ Known(addr) \/ NewIP(addr) \/ Remap(addr)
  /\ UNCHANGED file

\* HandleGotUserPacket for an address that is mapped.
SendTo(ip) ==
  /\ ip \in DOMAIN m_IPToAddr
  /\ MarkIPActive(ip)
  /\ UNCHANGED <<m_IPToAddr, m_AddrToIP, m_NextIP, file>>

TimePasses ==
  /\ m_IPActivity' = [ip \in DOMAIN m_IPActivity |->
                        IF m_IPActivity[ip] = "now" THEN "past" ELSE m_IPActivity[ip]]
  /\ UNCHANGED <<m_IPToAddr, m_AddrToIP, m_NextIP, file>>

\* Stop saves the addresses of the remotes that talked to us, and the next start
\* loads them, except our own address and those outside the range; after a crash
\* the older file is loaded.
Restart ==
  \E kept \in SUBSET (DOMAIN m_IPToAddr \ {m_OurIP, NoIP}) :
    Load([ip \in kept |-> m_IPToAddr[ip]])

Crash == Load(file)

Next ==
  \/ \E addr \in Addrs \cup {Us} : ObtainIPForAddr(addr)
  \/ \E ip \in NoIP..m_MaxIP : SendTo(ip)
  \/ TimePasses \/ Restart \/ Crash

-----------------------------------------------------------------------------
(* Properties.                                                             *)

\* What is sent to an address goes to the remote whose packets show it: an address
\* that is mapped to a remote is the one the remote has, no two remotes have been
\* put at one address of the saved map, and our own address is never given away
\* (ObtainIPForAddr, also when full and after a restart).
TunAddressesAgree ==
  /\ \A ip \in DOMAIN m_IPToAddr :
       m_IPToAddr[ip] \in DOMAIN m_AddrToIP /\ m_AddrToIP[m_IPToAddr[ip]] = ip
  /\ m_IPToAddr[m_OurIP] = Us
  /\ \A i, j \in DOMAIN file : file[i] = file[j] => i = j
=============================================================================
