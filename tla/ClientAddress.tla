--------------------------- MODULE ClientAddress ---------------------------
(***************************************************************************)
(* Whom a request is attributed to: the peer, or an entry of               *)
(* X-Forwarded-For when the peer is a trusted proxy (middleware/clientip). *)
(* The rate limiter's keys are these addresses.  An address is a model     *)
(* value; the mapped form ::ffff:a of a is a value of its own, which Unmap *)
(* takes back.                                                             *)
(***************************************************************************)
EXTENDS Naturals, FiniteSetsExt, SequencesExt

CONSTANTS
    Addresses,      \* addresses as they may be written
    Unmap,          \* netip.Addr.Unmap, address -> address
    TrustedProxies, \* the addresses TRUSTED_PROXY_CIDRS contains
    Garbage         \* an entry that is not an address; an absent header too

ASSUME ClientAddressAssumption ==
    /\ Unmap \in [Addresses -> Addresses]
    /\ \A address \in Addresses : Unmap[Unmap[address]] = Unmap[address]
    /\ TrustedProxies \subseteq {Unmap[address] : address \in Addresses}
    /\ Garbage \notin Addresses

isTrustedAddr(address) == Unmap[address] \in TrustedProxies

\* Variant: the leftmost entry, where the client's own address ought to be.
BelievedFirst(peer, hops) == IF hops[1] = Garbage THEN peer ELSE hops[1]

\* The loop from the rightmost entry to the left; without a header there is
\* nothing to loop over, or one empty entry.
Believed(peer, hops) ==
    LET from[n \in 0 .. Len(hops)] ==
          IF n = 0 \/ hops[n] = Garbage THEN peer
          ELSE IF ~isTrustedAddr(hops[n]) THEN hops[n]
          ELSE from[n - 1]
    IN  from[Len(hops)]

resolveClientIP(peer, hops) ==
    IF isTrustedAddr(peer) THEN Believed(peer, hops) ELSE peer

\* What the header says when a request has passed the proxies of a route, each
\* of which appends the address it was called from.
Forwarded(header, client, route) ==
    header \o <<client>> \o SubSeq(route, 1, Len(route) - 1)

PeerOf(client, route) == IF route = <<>> THEN client ELSE route[Len(route)]

Received(header, client, route) ==
    IF route = <<>> THEN header ELSE Forwarded(header, client, route)

\* A request is attributed to the client that made it, however many of our
\* proxies it passed and whatever header the client sent along.
AttributedTo(header, client, route) ==
    ~isTrustedAddr(client) =>
        resolveClientIP(PeerOf(client, route), Received(header, client, route)) = client

\* An entry stops the search for good: what is written left of one that is
\* foreign or no address has no say.
Stops(hop) == hop = Garbage \/ ~isTrustedAddr(hop)

LeftHasNoSay(peer, left, hops) ==
    (\E i \in DOMAIN hops : Stops(hops[i])) =>
        resolveClientIP(peer, left \o hops) = resolveClientIP(peer, hops)
=============================================================================
