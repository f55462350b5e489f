------------------------------ MODULE RCGossip ------------------------------
(***************************************************************************)
(* Gossip of router contacts (llarp/router/rc_gossiper.cpp) and the part   *)
(* of Router::Tick that renews and spreads this router's own contact.  A   *)
(* filter remembers the routers whose contact went out lately.  Time is    *)
(* counted in ticks.  The peers a contact is sent to are not modelled: a   *)
(* contact counts as gossiped when GossipRC gets as far as sending it.     *)
(***************************************************************************)
EXTENDS Integers

CONSTANTS
  Routers,                      \* other routers
  Us,
  RCGossipFilterDecayInterval,
  GossipOurRCInterval,          \* twice that interval, less a little
  rcRegenInterval,
  StartDelay                    \* the random delay after the start

VARIABLES
  m_Filter,     \* age of each entry, Absent if there is none
  sinceGossip,  \* age of m_LastGossipedOurRC, at most GossipOurRCInterval
  rcAge,        \* age of last_updated, at most rcRegenInterval + 1
  uptime,       \* at most StartDelay
  isListed,     \* the list was received and has this router
  unsent        \* ticks since our contact changed, while it could have gone out

Absent == -1
Known == Routers \cup {Us}

vars == <<m_Filter, sinceGossip, rcAge, uptime, isListed, unsent>>

Init ==
  /\ m_Filter = [r \in Known |-> Absent]
  /\ sinceGossip = GossipOurRCInterval   \* m_LastGossipedOurRC = 0
  /\ rcAge = 0 /\ uptime = 0 /\ isListed = FALSE
  /\ unsent = 0

ShouldGossipOurRC(since) == since >= GossipOurRCInterval

\* What Decay leaves of the filter.
Decay(filter) ==
  [r \in Known |-> IF filter[r] >= RCGossipFilterDecayInterval THEN Absent ELSE filter[r]]

Aged(age, limit) == IF age < limit THEN age + 1 ELSE limit

\* Whether GossipRC sends this router's contact.  It enters the filter in any
\* case, before it is known whether the interval has passed.
SendsOurs(filter, since) == filter[Us] = Absent /\ ShouldGossipOurRC(since)

\* The entry is made anew whenever it is asked.
GossipOurRC_Upserts(filter, since, waiting) ==
  /\ m_Filter' = [filter EXCEPT ![Us] = 0]
  /\ sinceGossip' = IF SendsOurs(filter, since) THEN 0 ELSE since
  /\ unsent' = IF SendsOurs(filter, since) THEN Absent ELSE waiting

GossipOurRC(filter, since, waiting) ==
  /\ m_Filter' = IF filter[Us] = Absent THEN [filter EXCEPT ![Us] = 0] ELSE filter
  /\ sinceGossip' = IF SendsOurs(filter, since) THEN 0 ELSE since
  /\ unsent' = IF SendsOurs(filter, since) THEN Absent ELSE waiting

\* One tick later: Decay, then the renewal of a contact that is too old, which
\* may fail, then the gossip.  A renewed contact is forgotten first, so that it
\* goes out; GossipRCIfNeeded waits for the delay to pass.
Tick(regenerates) ==
  LET aged == [r \in Known |-> IF m_Filter[r] = Absent THEN Absent ELSE m_Filter[r] + 1]
      decayed == Decay(aged)
      filter == IF regenerates THEN [decayed EXCEPT ![Us] = Absent] ELSE decayed
      since == IF regenerates THEN GossipOurRCInterval
               ELSE Aged(sinceGossip, GossipOurRCInterval)
      age == Aged(rcAge, rcRegenInterval + 1)
      up == Aged(uptime, StartDelay)
      waiting == IF regenerates THEN 0
                 ELSE IF unsent = Absent \/ ~isListed \/ up < StartDelay THEN unsent
                 ELSE unsent + 1
  IN /\ regenerates => age > rcRegenInterval
     /\ rcAge' = IF regenerates THEN 0 ELSE age
     /\ uptime' = up
     /\ IF (isListed \/ regenerates) /\ up = StartDelay
          THEN GossipOurRC(filter, since, waiting)
          ELSE m_Filter' = filter /\ sinceGossip' = since /\ unsent' = waiting
     /\ UNCHANGED isListed

\* GotRouterMessage with txid 0, about another router.
GossipReceived(r) ==
  /\ uptime = StartDelay
  /\ m_Filter[r] = Absent
  /\ m_Filter' = [m_Filter EXCEPT ![r] = 0]
  /\ UNCHANGED <<sinceGossip, rcAge, uptime, isListed, unsent>>

\* The same about ourselves: our contact comes back, maybe one we have since
\* changed, which is sent on in the place of the current one.
OursReceived(isCurrent) ==
  /\ uptime = StartDelay
  /\ IF isCurrent THEN GossipOurRC(m_Filter, sinceGossip, unsent)
     ELSE /\ m_Filter[Us] = Absent
          /\ m_Filter' = [m_Filter EXCEPT ![Us] = 0]
          /\ sinceGossip' = IF ShouldGossipOurRC(sinceGossip) THEN 0 ELSE sinceGossip
          /\ UNCHANGED unsent
  /\ UNCHANGED <<rcAge, uptime, isListed>>

\* The contact is changed and gossiped at once, without forgetting the last.
ModifyOurRC ==
  /\ rcAge' = 0
  /\ GossipOurRC(m_Filter, sinceGossip, 0)
  /\ UNCHANGED <<uptime, isListed>>

\* A new list; one without this router ends the wait.
SetRouterWhitelist ==
  /\ isListed' = ~isListed
  /\ unsent' = IF unsent = Absent THEN Absent ELSE 0
  /\ UNCHANGED <<m_Filter, sinceGossip, rcAge, uptime>>

Next ==
  \/ \E regenerates \in BOOLEAN : Tick(regenerates)
  \/ \E r \in Routers : GossipReceived(r)
  \/ \E isCurrent \in BOOLEAN : OursReceived(isCurrent)
  \/ ModifyOurRC \/ SetRouterWhitelist

-----------------------------------------------------------------------------
(* Properties.                                                             *)

\* While this router is listed, a change of its contact goes out within two
\* decay intervals: the filter entry made when the interval had not passed yet
\* delays it by one more decay at most (GossipRC, GossipOurRCInterval).
OurContactGoesOut == unsent <= 2 * RCGossipFilterDecayInterval
=============================================================================
