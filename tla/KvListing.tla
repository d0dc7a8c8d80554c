----------------------------- MODULE KvListing -----------------------------
(***************************************************************************)
(* The paged list of the key-value providers: a caller follows the cursor  *)
(* from page to page while others insert and delete keys.  Keys are        *)
(* numbered in the order of their encoded paths, which is the order the    *)
(* databases sort and compare in; the in-memory maps sort with             *)
(* localeCompare and compare the cursor by code units.  Redis scans its    *)
(* keys in no order, and takes no cursor but its own.                      *)
(***************************************************************************)
EXTENDS KvStores

CONSTANTS LastKey,        \* keys are 1..LastKey
          LocaleRank,     \* key -> its place in the order of localeCompare
          MaxLimit

ASSUME ListingConstants ==
  /\ LastKey \in Nat /\ MaxLimit \in Nat \ {0}
  /\ LocaleRank \in [1..LastKey -> 1..LastKey]

VARIABLES
  pager,     \* "database", "map" or "redis"
  stored,    \* the keys under the prefix
  scan,      \* the limit, the cursor (0 for none) and the state of the scan
  stable,    \* history: keys stored ever since the scan began
  listed     \* history: key -> how often the scan returned it

listingVars == <<pager, stored, scan, stable, listed>>

PathKeys == 1..LastKey

ListingTypeOK ==
  /\ pager \in {"database", "map", "redis"} /\ stored \subseteq PathKeys /\ stable \subseteq PathKeys
  /\ scan \in [limit : 1..MaxLimit, cursor : 0..LastKey, pc : {"idle", "paging", "done", "refused"}]
  /\ listed \in [PathKeys -> 0..LastKey]

ListingInit ==
  /\ pager \in {"database", "map", "redis"} /\ stored \in SUBSET PathKeys
  /\ scan = [limit |-> 1, cursor |-> 0, pc |-> "idle"]
  /\ stable = {} /\ listed = [k \in PathKeys |-> 0]

----------------------------------------------------------------------------
Insert(k) ==
  /\ k \notin stored /\ stored' = stored \cup {k}
  /\ UNCHANGED <<pager, scan, stable, listed>>

RemoveKey(k) ==
  /\ k \in stored /\ stored' = stored \ {k} /\ stable' = stable \ {k}
  /\ UNCHANGED <<pager, scan, listed>>

StartScan(limit) ==
  /\ scan.pc # "paging"
  /\ scan' = [limit |-> limit, cursor |-> 0, pc |-> "paging"]
  /\ stable' = stored /\ listed' = [k \in PathKeys |-> 0]
  /\ UNCHANGED <<pager, stored>>

Rank(k) == IF pager = "map" THEN LocaleRank[k] ELSE k

\* Mutant of After: the last key of a page comes again on the next one.
AfterInclusive(cursor) == {k \in stored : k >= cursor}

After(cursor) == {k \in stored : k > cursor}

\* The first keys of a set, and whether they are all of it.
FirstOf(keys, n) == {k \in keys : Cardinality({j \in keys : Rank(j) < Rank(k)}) < n}

HasMore(keys) == Cardinality(keys) > scan.limit

\* One more key than the limit is asked for, to see whether there is another page.
PageOf(rest) ==
  LET page == FirstOf(rest, scan.limit)
  IN  /\ listed' = [k \in PathKeys |-> listed[k] + (IF k \in page THEN 1 ELSE 0)]
      /\ scan' = IF HasMore(rest)
                   THEN [scan EXCEPT !.cursor = CHOOSE k \in page : \A j \in page : Rank(j) <= Rank(k)]
                   ELSE [scan EXCEPT !.pc = "done"]
      /\ UNCHANGED <<pager, stored, stable>>

Page == scan.pc = "paging" /\ pager # "redis" /\ PageOf(After(scan.cursor))

\* Redis: SCAN is repeated until there are keys enough for a page or it has been all around,
\* which finds every key that stayed; one that came during the rounds may be missed, and one
\* that went is left out when the values are fetched.
RedisPage ==
  /\ scan.pc = "paging" /\ pager = "redis" /\ scan.cursor = 0
  /\ \E found \in SUBSET stored : (stable \subseteq found \/ HasMore(found)) /\ PageOf(found)

\* Redis: the cursor of a page is the encoded name of its last key, and SCAN takes numbers.
RedisRefuses ==
  /\ scan.pc = "paging" /\ pager = "redis" /\ scan.cursor # 0
  /\ scan' = [scan EXCEPT !.pc = "refused"]
  /\ UNCHANGED <<pager, stored, stable, listed>>

ListingNext ==
  \/ \E k \in PathKeys : Insert(k) \/ RemoveKey(k)
  \/ \E limit \in 1..MaxLimit : StartScan(limit)
  \/ Page \/ RedisPage \/ RedisRefuses

ListingSpec == ListingInit /\ [][ListingNext]_listingVars

----------------------------------------------------------------------------
\* Following the cursor to the end returns every key that was there all along, and
\* no key twice, whatever is inserted and removed meanwhile.  The maps keep this
\* only where the two orders agree; on Redis a list that needs a second page ends in an error.
ScanComplete ==
  pager # "map" => /\ scan.pc = "done" => \A k \in stable : listed[k] = 1
                   /\ \A k \in PathKeys : listed[k] <= 1

\* The key-value providers: a commit is checked but for the races that KvStores names,
\* a read during which nobody writes is whole, versions (but for Redis) move by one or
\* start anew, and a scan from page to page misses no key that stayed.
KvSafe ==
  /\ [](KvTypeOK /\ CommitsCheckedMostly /\ QuietGetWhole)
  /\ [][VersionsStep]_kvVars
  /\ [](ListingTypeOK /\ ScanComplete)
=============================================================================
