------------------------------- MODULE ApiKeys -------------------------------
(***************************************************************************)
(* The API keys of the control plane: ApiKeyStore over a primary store and *)
(* a cache with a time to live, the authentication middleware, and the     *)
(* route that makes keys.  The storage calls of one operation are separate *)
(* steps.  A token is the number of its key, NoKey when none is sent.      *)
(***************************************************************************)
EXTENDS Naturals, Sequences, FiniteSets

CONSTANTS AuthRequests, Orgs, KeyProjects, NoProject,
          CacheTtl,                 \* cacheTtlSeconds, in ticks
          MaxKeys,                  \* bound on the keys of a behaviour
          MaxRevocations            \* bound on its revocations

ASSUME ApiKeysAssumption ==
  /\ CacheTtl \in Nat /\ MaxKeys \in Nat /\ MaxRevocations \in Nat
  /\ Orgs # {} /\ NoProject \notin KeyProjects

VARIABLES
  keys,        \* the keys, in the order of their creation
  authCache,   \* key -> ticks that its cache entry has left
  authReqs,    \* what each request is doing
  revokers     \* key -> how far its revocation is

apiKeyVars == <<keys, authCache, authReqs, revokers>>

NoKey == 0
Scope == KeyProjects \cup {NoProject}

\* token, byId, listed: the entries under tokens, keys and orgs; by: the key that authenticated
\* the caller, NoKey for a bootstrap; seeded: taken from the environment, not made by a request;
\* early: history, no creation had ended when it was asked for.
Key == [org : Orgs, project : Scope, token : {"valid", "revoked"}, byId : BOOLEAN, listed : BOOLEAN,
        by : 0..MaxKeys, seeded : BOOLEAN, early : BOOLEAN, created : BOOLEAN]
Request == [pc : {"idle", "cache", "storage", "populate", "tokens", "ids", "orgs"}, token : 0..MaxKeys,
            create : BOOLEAN, org : Orgs, project : Scope, key : 0..MaxKeys, early : BOOLEAN]

\* A request that has made no key yet.
Asking(pc, token, create, org, project, early) ==
  [pc |-> pc, token |-> token, create |-> create, org |-> org, project |-> project, key |-> NoKey, early |-> early]
DefaultOrg == CHOOSE o \in Orgs : TRUE   \* DEFAULT_ORG_ID
IdleRequest == Asking("idle", NoKey, FALSE, DefaultOrg, NoProject, FALSE)

\* quiet: history, no verification was between its read and its cache entry when the token was
\* marked, and the cache entry was removed; age: history, the ticks since the revocation ended
\* or, if later, since the last verification that was in progress then.
Revocation == [pc : {"none", "marked", "listed", "done"}, quiet : BOOLEAN, age : 0..CacheTtl]

ApiKeysTypeOK ==
  /\ keys \in Seq(Key) /\ Len(keys) <= MaxKeys
  /\ authCache \in [1..MaxKeys -> 0..CacheTtl] /\ revokers \in [1..MaxKeys -> Revocation]
  /\ authReqs \in [AuthRequests -> Request]

ApiKeysInit ==
  /\ keys = <<>> /\ authCache = [k \in 1..MaxKeys |-> 0]
  /\ authReqs = [r \in AuthRequests |-> IdleRequest]
  /\ revokers = [k \in 1..MaxKeys |-> [pc |-> "none", quiet |-> TRUE, age |-> 0]]

----------------------------------------------------------------------------
\* A control plane starts with RAILFOG_API_KEY in its environment: the record goes under tokens
\* only.  Such a key works, yet it cannot be revoked, and hasAnyKeys does not see it.  Others may
\* be running on the same store, and a later start writes the same record again.
SeedKey ==
  /\ Len(keys) < MaxKeys /\ \A k \in DOMAIN keys : ~keys[k].seeded
  /\ keys' = Append(keys, [org |-> DefaultOrg, project |-> NoProject, token |-> "valid", byId |-> FALSE, listed |-> FALSE,
                           by |-> NoKey, seeded |-> TRUE, early |-> FALSE, created |-> FALSE])
  /\ UNCHANGED <<authCache, authReqs, revokers>>

\* Mutant of HasAnyKeys: revoked keys do not count.
HasAnyKeysValid == \E k \in DOMAIN keys : keys[k].listed /\ keys[k].token = "valid"

\* hasAnyKeys looks at the index of the organisations.
HasAnyKeys == \E k \in DOMAIN keys : keys[k].listed

Early == \A k \in DOMAIN keys : ~keys[k].created

\* POST /v1/auth/keys: while there is no key the credentials are not looked at and the body
\* names the organisation; afterwards the middleware asks for a token, and the organisation
\* will be that of the caller.
AskForKey(r, token, org, project) ==
  /\ authReqs[r].pc = "idle"
  /\ IF HasAnyKeys THEN token # NoKey /\ org = DefaultOrg ELSE token = NoKey
  /\ authReqs' = [authReqs EXCEPT ![r] =
       Asking(IF HasAnyKeys THEN "cache" ELSE "tokens", token, TRUE, org, project, ~HasAnyKeys /\ Early)]
  /\ UNCHANGED <<keys, authCache, revokers>>

\* Any other protected request, or GET /v1/auth/verify.
AskWithKey(r, token) ==
  /\ authReqs[r].pc = "idle" /\ token # NoKey
  /\ authReqs' = [authReqs EXCEPT ![r] = Asking("cache", token, FALSE, DefaultOrg, NoProject, FALSE)]
  /\ UNCHANGED <<keys, authCache, revokers>>

\* Mutant of MintedProject: the scope of the caller is not passed on.
MintedProjectAsked(caller, asked) == asked

\* The scope of the caller's key comes before the project that was asked for.
MintedProject(caller, asked) == IF caller # NoProject THEN caller ELSE asked

\* The identity is known: a request for a key goes on to make it, unless it names another
\* project than the caller's; any other request is let through, which ends it here.
Authenticated(r) ==
  LET q == authReqs[r]
      caller == keys[q.token]
      refused == q.create /\ caller.project # NoProject /\ q.project \notin {NoProject, caller.project}
  IN  IF ~q.create \/ refused THEN IdleRequest
      ELSE Asking("tokens", q.token, TRUE, caller.org, MintedProject(caller.project, q.project), q.early)

\* verifyRawToken, step 1: an entry of the cache is trusted.
CacheHit(r) ==
  /\ authReqs[r].pc = "cache" /\ authCache[authReqs[r].token] > 0
  /\ authReqs' = [authReqs EXCEPT ![r] = Authenticated(r)]
  /\ UNCHANGED <<keys, authCache, revokers>>

\* No entry, or the cache does not answer.
CacheMiss(r) ==
  /\ authReqs[r].pc = "cache"
  /\ authReqs' = [authReqs EXCEPT ![r].pc = "storage"]
  /\ UNCHANGED <<keys, authCache, revokers>>

\* Step 2: the record of the primary store.
StorageRead(r) ==
  /\ authReqs[r].pc = "storage"
  /\ authReqs' = [authReqs EXCEPT ![r] = IF keys[authReqs[r].token].token = "valid" THEN [authReqs[r] EXCEPT !.pc = "populate"] ELSE IdleRequest]
  /\ UNCHANGED <<keys, authCache, revokers>>

\* Step 3: the cache is filled, or does not answer.
Populate(r) ==
  /\ authReqs[r].pc = "populate"
  /\ authCache' \in {authCache, [authCache EXCEPT ![authReqs[r].token] = CacheTtl]}
  /\ authReqs' = [authReqs EXCEPT ![r] = Authenticated(r)]
  /\ UNCHANGED <<keys, revokers>>

\* createKey: the tokens index first, so that the key works before it is listed.
StoreToken(r) ==
  LET q == authReqs[r] IN
  /\ q.pc = "tokens" /\ Len(keys) < MaxKeys
  /\ keys' = Append(keys, [org |-> q.org, project |-> q.project, token |-> "valid", byId |-> FALSE, listed |-> FALSE,
                           by |-> q.token, seeded |-> FALSE, early |-> q.early, created |-> FALSE])
  /\ authReqs' = [authReqs EXCEPT ![r] = [pc |-> "ids", token |-> q.token, create |-> q.create, org |-> q.org,
                                           project |-> q.project, key |-> Len(keys) + 1, early |-> q.early]]
  /\ UNCHANGED <<authCache, revokers>>

StoreId(r) ==
  /\ authReqs[r].pc = "ids"
  /\ keys' = [keys EXCEPT ![authReqs[r].key].byId = TRUE]
  /\ authReqs' = [authReqs EXCEPT ![r].pc = "orgs"]
  /\ UNCHANGED <<authCache, revokers>>

StoreListing(r) ==
  /\ authReqs[r].pc = "orgs"
  /\ keys' = [keys EXCEPT ![authReqs[r].key].listed = TRUE, ![authReqs[r].key].created = TRUE]
  /\ authReqs' = [authReqs EXCEPT ![r] = IdleRequest]
  /\ UNCHANGED <<authCache, revokers>>

\* The request is over, its storage call failed, or the process ended: no index is taken back.
RequestOver(r) ==
  /\ authReqs[r].pc # "idle" /\ authReqs' = [authReqs EXCEPT ![r] = IdleRequest]
  /\ UNCHANGED <<keys, authCache, revokers>>

Revoked == Cardinality({k \in 1..MaxKeys : revokers[k].pc # "none"})
Verifying(k) == \E r \in AuthRequests : authReqs[r].pc = "populate" /\ authReqs[r].token = k

\* Mutant of RevokeBegins: the cache entry is removed before the token is marked.
RevokeBeginsEvicting(k) ==
  /\ k \in DOMAIN keys /\ keys[k].byId /\ revokers[k].pc = "none" /\ Revoked < MaxRevocations
  /\ authCache' = [authCache EXCEPT ![k] = 0]
  /\ revokers' = [revokers EXCEPT ![k] = [pc |-> "marked", quiet |-> ~Verifying(k), age |-> 0]]
  /\ UNCHANGED <<keys, authReqs>>

\* revokeKey: the record is marked in the tokens index ...
RevokeBegins(k) ==
  /\ k \in DOMAIN keys /\ keys[k].byId /\ revokers[k].pc = "none" /\ Revoked < MaxRevocations
  /\ keys' = [keys EXCEPT ![k].token = "revoked"]
  /\ revokers' = [revokers EXCEPT ![k] = [pc |-> "marked", quiet |-> ~Verifying(k), age |-> 0]]
  /\ UNCHANGED <<authCache, authReqs>>

\* ... then under its organisation, where it may appear by this ...
RevokeListing(k) ==
  /\ revokers[k].pc = "marked"
  /\ keys' = [keys EXCEPT ![k].listed = TRUE]
  /\ revokers' = [revokers EXCEPT ![k].pc = "listed"]
  /\ UNCHANGED <<authCache, authReqs>>

\* ... and its entry is removed from the cache, unless the cache does not answer.
RevokeEvicts(k) ==
  /\ revokers[k].pc = "listed"
  /\ \E evicted \in BOOLEAN :
       /\ authCache' = IF evicted THEN [authCache EXCEPT ![k] = 0] ELSE authCache
       /\ revokers' = [revokers EXCEPT ![k] = [pc |-> "done", quiet |-> @.quiet /\ evicted, age |-> @.age]]
  /\ UNCHANGED <<keys, authReqs>>

\* Mutant of Aged: entries that were used are kept.
AgedKeeping(k) == IF \E r \in AuthRequests : authReqs[r].token = k THEN authCache[k] ELSE authCache[k] - 1

Aged(k) == authCache[k] - 1

\* A tick of the cache's clock.
CacheTick ==
  /\ authCache' = [k \in 1..MaxKeys |-> IF authCache[k] = 0 THEN 0 ELSE Aged(k)]
  /\ revokers' = [k \in 1..MaxKeys |->
       [revokers[k] EXCEPT !.age = IF revokers[k].pc # "done" \/ Verifying(k) THEN 0
                                   ELSE IF revokers[k].age = CacheTtl THEN CacheTtl ELSE revokers[k].age + 1]]
  /\ <<authCache', revokers'>> # <<authCache, revokers>>
  /\ UNCHANGED <<keys, authReqs>>

ApiKeysNext ==
  \/ \E r \in AuthRequests :
       \/ \E t \in 0..Len(keys), o \in Orgs, p \in Scope : AskForKey(r, t, o, p)
       \/ \E t \in 0..Len(keys) : AskWithKey(r, t)
       \/ CacheHit(r) \/ CacheMiss(r) \/ StorageRead(r) \/ Populate(r)
       \/ StoreToken(r) \/ StoreId(r) \/ StoreListing(r) \/ RequestOver(r)
  \/ \E k \in 1..MaxKeys : RevokeBegins(k) \/ RevokeListing(k) \/ RevokeEvicts(k)
  \/ SeedKey \/ CacheTick

ApiKeysSpec == ApiKeysInit /\ [][ApiKeysNext]_apiKeyVars

----------------------------------------------------------------------------
\* "The first key may be minted without credentials, all later ones require an authenticated
\* principal": two requests may both find no key, but once POST /v1/auth/keys has handed a key
\* out no request that comes after it makes one without credentials, not even when all keys are
\* revoked.  A key of the environment ends nothing: while it is the only one, requests without
\* credentials go on making keys.
BootstrapOnce == \A k \in DOMAIN keys : keys[k].by = NoKey => keys[k].seeded \/ keys[k].early

\* A key never has more rights than the one that made it: it stays in the organisation and, if
\* there is one, in the project.
MintedInScope == \A k \in DOMAIN keys : LET by == keys[k].by IN by # NoKey =>
  keys[k].org = keys[by].org /\ keys[by].project \in {NoProject, keys[k].project}

\* A revoked key is not in the cache, unless a verification had read the valid record when the
\* record was marked, or the cache failed.
RevokedAtOnce == \A k \in 1..MaxKeys : revokers[k].pc = "done" /\ revokers[k].quiet => authCache[k] = 0

\* In any case the cache forgets a revoked key: CacheTtl after the revocation and after every
\* verification that overlapped it.
RevokedInTime == \A k \in 1..MaxKeys : revokers[k].pc = "done" => authCache[k] + revokers[k].age <= CacheTtl

\* Keys keep to their rights: none is made without credentials by a request that comes
\* after the first key that the route handed out, none has a wider scope than its maker, and a revoked one
\* leaves the cache at once, or within CacheTtl when a verification overlapped.
KeysSafe == ApiKeysTypeOK /\ BootstrapOnce /\ MintedInScope /\ RevokedAtOnce /\ RevokedInTime
=============================================================================
