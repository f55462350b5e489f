----------------------------- MODULE DnsServer -----------------------------
(***************************************************************************)
(* The DNS server with the resolver that asks an upstream server through   *)
(* libunbound (llarp/dns/server.cpp).  Queries are taken on the event      *)
(* loop.  The callbacks of libunbound run on the event loop too, or, on    *)
(* Windows, on a thread of the resolver, from which the reply is posted to *)
(* the event loop.                                                         *)
(***************************************************************************)
EXTENDS Naturals, FiniteSets

CONSTANTS Queries

VARIABLES
  threaded,   \* the resolver has a thread of its own
  m_ctx,      \* the libunbound context exists
  asked,      \* external: queries the context is working on
  m_Pending,
  m_Done,     \* queries whose flag is set
  posted,     \* replies posted to the event loop
  accepted,   \* MaybeHandlePacket returned true
  replies     \* how many replies were sent for a query

resolverVars == <<m_Pending, m_Done, posted, replies>>
vars == <<threaded, m_ctx, asked, accepted, resolverVars>>

Init ==
  /\ threaded \in BOOLEAN
  /\ m_ctx = TRUE
  /\ asked = {} /\ m_Pending = {} /\ m_Done = {} /\ posted = {} /\ accepted = {}
  /\ replies = [q \in Queries |-> 0]

Sent(qs) == [q \in Queries |-> IF q \in qs THEN replies[q] + 1 ELSE replies[q]]

SendReply_NoFlag(qs, pending, onLoop) ==
  /\ m_Done' = m_Done \cup qs
  /\ IF onLoop THEN replies' = Sent(qs) /\ m_Pending' = pending \ qs /\ UNCHANGED posted
     ELSE posted' = posted \cup qs /\ m_Pending' = pending /\ UNCHANGED replies

\* Query::SendReply, called for each of qs with m_Pending being pending: the reply
\* goes out and the query is removed at once on the event loop, else later.
SendReply(qs, pending, onLoop) ==
  LET first == qs \ m_Done
  IN /\ m_Done' = m_Done \cup qs
     /\ IF onLoop
          THEN replies' = Sent(first) /\ m_Pending' = pending \ first /\ UNCHANGED posted
          ELSE posted' = posted \cup first /\ m_Pending' = pending /\ UNCHANGED replies

\* The resolver answers at once what it refuses: no question, a name of the
\* network, resolver down, error of libunbound.
MaybeHookDNS(q) ==
  \/ SendReply({q}, m_Pending, TRUE) /\ UNCHANGED asked
  \/ /\ m_ctx
     /\ asked' = asked \cup {q}
     /\ m_Pending' = m_Pending \cup {q}
     /\ UNCHANGED <<m_Done, posted, replies>>

\* A packet that would loop or that is not a query is not handled.  A query for
\* the name that turns DNS over HTTPS off gets its reply at once, like one that the
\* resolver refuses.
MaybeHandlePacket(q) ==
  /\ q \notin accepted
  /\ accepted' = accepted \cup {q}
  /\ MaybeHookDNS(q)
  /\ UNCHANGED <<threaded, m_ctx>>

\* Resolver::Callback, with an answer or an error.
Callback(q) ==
  /\ q \in asked
  /\ asked' = asked \ {q}
  /\ SendReply({q}, m_Pending, ~threaded)
  /\ UNCHANGED <<threaded, m_ctx, accepted>>

RunPosted(q) ==
  /\ q \in posted
  /\ posted' = posted \ {q}
  /\ replies' = Sent({q})
  /\ m_Pending' = m_Pending \ {q}
  /\ UNCHANGED <<threaded, m_ctx, asked, accepted, m_Done>>

\* Down: the thread is joined, the context deleted with what it works on, and the
\* queries that are pending are cancelled.
Down ==
  /\ asked' = {}
  /\ IF m_ctx THEN SendReply(m_Pending, m_Pending, TRUE) ELSE UNCHANGED resolverVars

Stop ==
  /\ m_ctx
  /\ Down
  /\ m_ctx' = FALSE
  /\ UNCHANGED <<threaded, accepted>>

\* Down and Up.
ResetResolver ==
  /\ Down
  /\ m_ctx' = TRUE
  /\ UNCHANGED <<threaded, accepted>>

Next ==
  \/ Stop \/ ResetResolver
  \/ \E q \in Queries : MaybeHandlePacket(q) \/ Callback(q) \/ RunPosted(q)

-----------------------------------------------------------------------------
(* Properties.                                                             *)

\* Every query that was accepted is answered once, and what has no answer yet is
\* on its way to one: with libunbound and among the pending queries that Down
\* cancels, or posted to the event loop; nothing else stays pending (SendReply,
\* Callback racing Down and ResetResolver).
AnsweredOnce ==
  \A q \in Queries :
    /\ replies[q] <= 1
    /\ q \in accepted =>
         \/ replies[q] = 1 /\ q \notin m_Pending
         \/ q \in posted
         \/ q \in asked /\ q \in m_Pending
=============================================================================
