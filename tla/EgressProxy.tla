---------------------------- MODULE EgressProxy ----------------------------
(***************************************************************************)
(* The egress proxy (runtime/sandbox/egress-proxy.ts) and its address      *)
(* blocker (runtime/sandbox/egress-ip-blocker.ts): connections of one      *)
(* invocation, tunnels and forwarded requests, while names resolve to      *)
(* other addresses and the invocation is unregistered and registered.      *)
(*                                                                         *)
(* Addresses keep their structure at a smaller width: a v6 address is a    *)
(* number whose lowest V4Bits bits hold the v4 address of the two forms    *)
(* that embed one.  Parsing is left out: an address is the number that its *)
(* text, in whatever notation, stands for.                                 *)
(***************************************************************************)
EXTENDS Integers, Sequences, FiniteSetsExt

CONSTANTS V4Bits, V6Bits,
          MappedPrefix,     \* what stands above the v4 address in a mapped address
          Ranges4, Ranges6, \* blocked ranges: network and prefix length
          Names,            \* host name -> the answers its resolution can give
          AllowedHosts,     \* on the allowlist of the invocation
          Connections, MaxConnections,
          MaxRegistrations  \* bound

V4 == [family : {4}, value : 0..2^V4Bits - 1]
V6 == [family : {6}, value : 0..2^V6Bits - 1]
Addresses == V4 \cup V6
Hosts == DOMAIN Names \cup Addresses

ASSUME EgressConstants ==
  /\ MaxConnections \in Nat \ {0} /\ MaxRegistrations \in Nat /\ IsFiniteSet(Connections)
  /\ AllowedHosts \subseteq Hosts /\ Addresses # {}
  /\ \A n \in DOMAIN Names : Names[n] \subseteq Seq(Addresses)

VARIABLES
  registered,  \* the invocation is in the map
  counted,     \* its entry of activeConnections, -1 for none
  conns,       \* connection -> what it does
  generation   \* registrations so far

egressVars == <<registered, counted, conns, generation>>

Conn == [pc : {"idle", "resolving", "tunnel", "forward", "streaming"}, kind : {"tunnel", "forward"},
         host : Hosts, address : Addresses]
Nowhere == CHOOSE a \in Addresses : TRUE
NoConn == [pc |-> "idle", kind |-> "tunnel", host |-> Nowhere, address |-> Nowhere]

EgressTypeOK ==
  /\ registered \in BOOLEAN /\ counted \in -1..Cardinality(Connections)
  /\ conns \in [Connections -> Conn] /\ generation \in 0..MaxRegistrations

EgressInit ==
  /\ registered = FALSE /\ counted = -1 /\ generation = 0
  /\ conns = [c \in Connections |-> NoConn]

----------------------------------------------------------------------------
(* EgressIpBlocker *)

InRange(v, range, bits) ==
  v \div 2^(bits - range.length) = range.network \div 2^(bits - range.length)

BlockedV4(v) == \E r \in Ranges4 : InRange(v, r, V4Bits)
BlockedV6(v) == \E r \in Ranges6 : InRange(v, r, V6Bits)

\* ::/128 and ::1/128 are ranges of their own.
ASSUME OwnRanges == BlockedV6(0) /\ BlockedV6(1)

\* Mutant of IsIpBlocked: an address that embeds a v4 address is looked up as a v6 one.
IsIpBlockedPlain(a) == IF a.family = 4 THEN BlockedV4(a.value) ELSE BlockedV6(a.value)

\* A mapped or a compatible v6 address is judged by the v4 address it embeds.
IsIpBlocked(a) ==
  LET above == a.value \div 2^V4Bits
      embedded == a.value % 2^V4Bits
  IN  IF a.family = 4 THEN BlockedV4(a.value)
      ELSE IF above = MappedPrefix \/ (above = 0 /\ a.value > 1) THEN BlockedV4(embedded)
      ELSE BlockedV6(a.value)

\* validateDestination: every address a name resolves to must be acceptable.
Acceptable(answer) == answer # <<>> /\ \A i \in DOMAIN answer : ~IsIpBlocked(answer[i])

Answers(host) == IF host \in Addresses THEN {<<host>>} ELSE Names[host]

----------------------------------------------------------------------------
Register ==
  /\ generation < MaxRegistrations /\ ~registered
  /\ registered' = TRUE /\ generation' = generation + 1
  /\ counted' = IF counted = -1 THEN 0 ELSE counted
  /\ UNCHANGED conns

Unregister ==
  /\ registered /\ registered' = FALSE /\ counted' = -1
  /\ UNCHANGED <<conns, generation>>

ActiveCount == IF counted = -1 THEN 0 ELSE counted

\* The host and port are those of an entry of the invocation's allowlist.
Permitted(host) == host \in AllowedHosts

\* Registration, limit and allowlist are checked at once; a refusal changes nothing.
Ask(c, kind, host) ==
  /\ conns[c].pc = "idle" /\ registered
  /\ ActiveCount < MaxConnections /\ Permitted(host)
  /\ conns' = [conns EXCEPT ![c] = [pc |-> "resolving", kind |-> kind, host |-> host, address |-> Nowhere]]
  /\ UNCHANGED <<registered, counted, generation>>

\* Mutant of Connect: the limit is not looked at again.
ConnectUnchecked(c, answer) ==
  /\ conns[c].pc = "resolving" /\ Acceptable(answer)
  /\ conns' = [conns EXCEPT ![c] = [conns[c] EXCEPT !.pc = conns[c].kind, !.address = answer[1]]]
  /\ counted' = ActiveCount + 1
  /\ UNCHANGED <<registered, generation>>

\* After the resolution the limit is looked at again, the registration is not; the
\* connection goes to the first of the addresses that were judged.
Connect(c, answer) ==
  /\ conns[c].pc = "resolving" /\ Acceptable(answer) /\ ActiveCount < MaxConnections
  /\ conns' = [conns EXCEPT ![c] = [conns[c] EXCEPT !.pc = conns[c].kind, !.address = answer[1]]]
  /\ counted' = ActiveCount + 1
  /\ UNCHANGED <<registered, generation>>

\* A blocked address, one that does not parse, a failed resolution or the limit.
Deny(c) ==
  /\ conns[c].pc = "resolving"
  /\ conns' = [conns EXCEPT ![c] = NoConn]
  /\ UNCHANGED <<registered, counted, generation>>

\* decrementActiveConnections
Decremented == IF counted = -1 THEN -1 ELSE IF counted <= 1 THEN -1 ELSE counted - 1

\* A forwarded request is no longer counted once the head of its response is there.
ResponseHead(c) ==
  /\ conns[c].pc = "forward"
  /\ conns' = [conns EXCEPT ![c].pc = "streaming"]
  /\ counted' = Decremented
  /\ UNCHANGED <<registered, generation>>

\* A tunnel ends, or the connection fails.
ConnectionEnds(c) ==
  /\ conns[c].pc \in {"tunnel", "forward"}
  /\ conns' = [conns EXCEPT ![c] = NoConn]
  /\ counted' = Decremented
  /\ UNCHANGED <<registered, generation>>

StreamEnds(c) ==
  /\ conns[c].pc = "streaming"
  /\ conns' = [conns EXCEPT ![c] = NoConn]
  /\ UNCHANGED <<registered, counted, generation>>

EgressNext ==
  \/ Register \/ Unregister
  \/ \E c \in Connections :
       \/ \E kind \in {"tunnel", "forward"}, host \in Hosts : Ask(c, kind, host)
       \/ \E answer \in Answers(conns[c].host) : Connect(c, answer)
       \/ Deny(c) \/ ResponseHead(c) \/ ConnectionEnds(c) \/ StreamEnds(c)

EgressSpec == EgressInit /\ [][EgressNext]_egressVars

----------------------------------------------------------------------------
\* The addresses nobody may reach, whichever way they are written.
Denotes(a) ==
  IF a.family = 6 /\ a.value \div 2^V4Bits \in {0, MappedPrefix}
    THEN [family |-> 4, value |-> a.value % 2^V4Bits] ELSE a
Forbidden(a) ==
  LET d == Denotes(a) IN IF d.family = 4 THEN BlockedV4(d.value) ELSE BlockedV6(d.value)

\* PLAT-5: no connection leads to a blocked address, although a name resolves to
\* another address each time it is asked and an address can be written in several ways.
NeverForbidden == \A c \in Connections :
  conns[c].pc \in {"tunnel", "forward", "streaming"} => ~Forbidden(conns[c].address)

\* The connections that count against the limit.
Counted == {c \in Connections : conns[c].pc \in {"tunnel", "forward"}}

\* FN-5: however many requests resolve their names at once, those that are counted
\* stay within the limit and the count is right, as long as the invocation is
\* registered once (a connection of an earlier registration counts down the later one).
WithinLimit ==
  generation = 1 /\ registered => Cardinality(Counted) = ActiveCount /\ ActiveCount <= MaxConnections

\* The proxy connects to no forbidden address, however it is written and whatever a
\* name resolves to later, and keeps its connections within the limit of a
\* registration.
EgressSafe == EgressTypeOK /\ NeverForbidden /\ WithinLimit
=============================================================================
