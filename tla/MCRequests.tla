----------------------------- MODULE MCRequests -----------------------------
(***************************************************************************)
(* Model checking of what a request passes through: the gateway, the       *)
(* matching of routes, the dispatch by the runtime, cron triggers, the     *)
(* sandboxes with their bindings and egress proxy, and the development     *)
(* server.  Each behaviour follows one of them, focus.                     *)
(***************************************************************************)
EXTENDS Gateway, RouteMatcher, RequestDispatch, CronTriggers, ProcessIsolation, LocalIsolation,
        LocalKv, EgressProxy, DevReload

CONSTANTS main, other, m1, m2, o1,   \* projects and their artifacts
          f, g, v1, v2,              \* functions and their revisions
          site                       \* a host name

VARIABLE focus   \* the component this behaviour is about

----------------------------------------------------------------------------
\* A token refills 1, 2 or 2 units in a tick; bursts are larger.
MCTiers == [k \in Keys |-> CASE k = AnonymousKey -> [rate |-> 1, burst |-> 2]
                             [] k = IdentityKey -> [rate |-> 2, burst |-> 4]
                             [] k = ProjectKey -> [rate |-> 2, burst |-> 4]]

\* Routes that overlap, with and without a slash at the end.
MCTables == {<<<<"a", "*">>, <<"a", "b">>, <<":", ":">>>>, <<<<":", "*">>, <<"a", ":">>, <<"a", "">>>>,
             <<<<"*">>, <<"a">>, <<":">>, <<"">>>>, <<>>}

MCOwner == m1 :> main @@ m2 :> main @@ o1 :> other

\* Cron expressions: every minute, steps, lists, an empty range, both day fields.
Every(step) == <<[star |-> TRUE, start |-> 0, end |-> 0, step |-> step]>>
Between(from, to, step) == <<[star |-> FALSE, start |-> from, end |-> to, step |-> step]>>
Star == Every(<<>>)
Only(v) == Between(v, v, <<>>)
MCExpressions ==
  {[minute |-> Star, day |-> Star, weekday |-> Star],
   [minute |-> Every(<<2>>), day |-> Only(1), weekday |-> Only(1)],
   [minute |-> Only(0) \o Between(1, 2, <<2>>), day |-> Every(<<2>>), weekday |-> Star],
   [minute |-> Between(2, 1, <<>>), day |-> Star, weekday |-> Star],
   [minute |-> Star, day |-> Every(<<1>>), weekday |-> Only(0)],
   [minute |-> Star, day |-> Star, weekday |-> Only(0)]}

MCBundles == {<<f, v1>>, <<f, v2>>, <<g, v1>>}

\* Addresses of three and six bits, with blocked ranges in both families and a
\* prefix for mapped addresses.
A4(value) == [family |-> 4, value |-> value]
A6(value) == [family |-> 6, value |-> value]
MCRanges4 == {[network |-> 0, length |-> 2], [network |-> 6, length |-> 3]}
MCRanges6 == {[network |-> 1, length |-> 6], [network |-> 0, length |-> 6], [network |-> 48, length |-> 2]}
MCNames == [n \in {site} |-> {<<A4(4)>>, <<A4(5), A4(7)>>, <<A4(6), A4(4)>>, <<A6(28)>>, <<A6(30), A4(4)>>, <<>>}]
MCAllowed == {site} \cup {A4(v) : v \in {1, 4}} \cup {A6(v) : v \in {1, 4, 6, 28, 30, 50, 40}}

\* The actors of all components are one pair of values; request ids, pooled keys
\* and functions of the development server are another.
MCSymmetry == Permutations(Handlers) \cup Permutations(PoolKeys)

----------------------------------------------------------------------------
mcVars == <<focus, gatewayVars, matcherVars, dispatchVars, cronVars, procVars, isoVars, localKvVars,
            egressVars, devVars>>

Components == {"gateway", "matcher", "dispatch", "cron", "process", "local", "kv", "egress", "dev"}

\* A component out of focus begins in one state only.
First(set) == CHOOSE x \in set : TRUE

MCInit ==
  /\ focus \in Components
  /\ MatcherInit  /\ (focus # "matcher" => routes = <<>> /\ path = First(Paths))
  /\ DispatchInit /\ (focus # "dispatch" => served[main] = m1)
  /\ CronInit     /\ (focus # "cron" => tick = 0 /\ date = First(Dates) /\ expr = First(Expressions))
  /\ GatewayInit /\ ProcInit /\ IsoInit /\ LocalKvInit /\ EgressInit /\ DevInit

\* The step of one component leaves the others alone.
MCNext ==
  /\ UNCHANGED focus
  /\ focus # "gateway"  => UNCHANGED gatewayVars
  /\ focus # "matcher"  => UNCHANGED matcherVars
  /\ focus # "dispatch" => UNCHANGED dispatchVars
  /\ focus # "cron"     => UNCHANGED cronVars
  /\ focus # "process"  => UNCHANGED procVars
  /\ focus # "local"    => UNCHANGED isoVars
  /\ focus # "kv"       => UNCHANGED localKvVars
  /\ focus # "egress"   => UNCHANGED egressVars
  /\ focus # "dev"      => UNCHANGED devVars
  /\ \/ focus = "gateway"  /\ GatewayNext
     \/ focus = "matcher"  /\ MatcherNext
     \/ focus = "dispatch" /\ DispatchNext
     \/ focus = "cron"     /\ CronNext
     \/ focus = "process"  /\ ProcNext
     \/ focus = "local"    /\ IsoNext
     \/ focus = "kv"       /\ LocalKvNext
     \/ focus = "egress"   /\ EgressNext
     \/ focus = "dev"      /\ DevNext

MCSpec == MCInit /\ [][MCNext]_mcVars
=============================================================================
