---------------------------- MODULE RouteMatcher ----------------------------
(***************************************************************************)
(* matchRoute of runtime/router/route-matcher.ts with its cache of         *)
(* compiled patterns, which all requests share.  A path is the sequence of *)
(* what stands after its slashes, NoText where nothing does: "/" is        *)
(* <<NoText>>, "/a/" is <<a, NoText>>.  A pattern may also hold named      *)
(* segments, and end with an asterisk, which stands for any rest, the      *)
(* empty one included (URLPattern, external; its groups, regular           *)
(* expressions and inner asterisks are left out).                          *)
(***************************************************************************)
EXTENDS Naturals, Sequences, FiniteSets

CONSTANTS Literals, NoText, Named, Asterisk,
          RouteTables,     \* the tables of routes to match against, each a sequence of patterns
          MaxSegments,
          MaxPatterns      \* MAX_PATTERN_CACHE_SIZE

Patterns == {p \in Seq(Literals \cup {NoText, Named, Asterisk}) \ {<<>>} : \A i \in 1..Len(p) - 1 : p[i] # Asterisk}

ASSUME MatcherConstants ==
  /\ MaxPatterns \in Nat \ {0} /\ MaxSegments \in Nat
  /\ {NoText, Named, Asterisk} \cap Literals = {} /\ Named # NoText /\ Asterisk \notin {NoText, Named}
  /\ RouteTables \subseteq Seq(Patterns)

VARIABLES
  routes, path,    \* of the request
  at,              \* the route the loop looks at next
  winner,          \* the index of the best route so far, 0 for none
  compiled         \* the patterns in the cache

matcherVars == <<routes, path, at, winner, compiled>>

Paths == UNION {[1..n -> Literals \cup {NoText}] : n \in 1..MaxSegments}

PatternMatches(p, s) ==
  LET open == p[Len(p)] = Asterisk
      fixed == IF open THEN Len(p) - 1 ELSE Len(p)
  IN  /\ IF open THEN Len(s) > fixed ELSE Len(s) = fixed
      /\ \A i \in 1..fixed : IF p[i] = Named THEN s[i] # NoText ELSE p[i] = s[i]

\* Two for a literal segment, one for a named one or an asterisk, none where there is no text.
SpecificityScore(p) == 2 * Cardinality({i \in DOMAIN p : p[i] \in Literals})
                       + Cardinality({i \in DOMAIN p : p[i] \in {Named, Asterisk}})

MatcherTypeOK ==
  /\ routes \in RouteTables /\ path \in Paths
  /\ at \in 1..Len(routes) + 1 /\ winner \in 0..Len(routes)
  /\ Cardinality(compiled) <= MaxPatterns

MatcherInit ==
  /\ routes \in RouteTables /\ path \in Paths
  /\ at = 1 /\ winner = 0 /\ compiled = {}

\* getCompiledPattern: a full cache is cleared first.
Compiled(p) ==
  IF p \in compiled THEN compiled
  ELSE (IF Cardinality(compiled) >= MaxPatterns THEN {} ELSE compiled) \cup {p}

\* Mutant of Better: the last of the routes with the best score wins.
BetterOrEqual(i) ==
  winner = 0 \/ SpecificityScore(routes[i]) >= SpecificityScore(routes[winner])

Better(i) ==
  winner = 0 \/ SpecificityScore(routes[i]) > SpecificityScore(routes[winner])

LookAt ==
  /\ at <= Len(routes)
  /\ compiled' = Compiled(routes[at])
  /\ winner' = IF PatternMatches(routes[at], path) /\ Better(at) THEN at ELSE winner
  /\ at' = at + 1
  /\ UNCHANGED <<routes, path>>

\* The next request, with the table of another project.
NextRequest ==
  /\ at > Len(routes)
  /\ routes' \in RouteTables /\ path' \in Paths
  /\ at' = 1 /\ winner' = 0
  /\ UNCHANGED compiled

MatcherNext == LookAt \/ NextRequest

MatcherSpec == MatcherInit /\ [][MatcherNext]_matcherVars

----------------------------------------------------------------------------
Candidates == {i \in DOMAIN routes : PatternMatches(routes[i], path)}

\* PLAT-11: the highest score wins, the first declared among equals; so a route that spells
\* the path out wins against every pattern, unless the path ends with a slash, where an asterisk
\* may stand for nothing and counts all the same ("/*" wins "/" from the route "/").
MostSpecificWins ==
  at > Len(routes) =>
    /\ winner = 0 <=> Candidates = {}
    /\ winner # 0 =>
         /\ winner \in Candidates
         /\ \A i \in Candidates :
              LET s == SpecificityScore(routes[i]) w == SpecificityScore(routes[winner])
              IN  s <= w /\ (s = w => winner <= i)
         /\ path[Len(path)] # NoText /\ (\E i \in DOMAIN routes : routes[i] = path) => routes[winner] = path
=============================================================================
