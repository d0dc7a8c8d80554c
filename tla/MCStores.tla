------------------------------ MODULE MCStores ------------------------------
(***************************************************************************)
(* Model checking of the stores: the snapshot caches of a runtime node,    *)
(* the key-value providers and their listings, the SDK helpers above them, *)
(* the object keys of tenants and the secret store.  Each behaviour        *)
(* follows one of them, focus.                                             *)
(***************************************************************************)
EXTENDS DiskSnapshotCache, KvStores, KvListing, TenantKeys, SecretStore, SdkHelpers

VARIABLE focus   \* the component this behaviour is about

\* localeCompare orders the keys the other way round than the code units do.
MCRank == [k \in 1..LastKey |-> LastKey + 1 - k]

\* A name that is a prefix of another, two that are one to the provider, and one with a separator.
MCOrgIds == {<<"a">>, <<".">>}
MCProjectIds == {<<":">>, <<"%3A">>, <<":", "a">>}
MCBucketIds == {<<"a">>, <<"a", "/", "a">>}
MCObjectKeys == {<<"a">>, <<"a", "/", "a">>, <<".", "/", "a">>, <<":">>, <<"%3A">>}

mcVars == <<focus, vars, kvVars, listingVars, tenantVars, secretVars, sdkVars>>

Components == {"snapshots", "kv", "listing", "tenants", "secrets", "sdk"}

MCInit ==
  /\ focus \in Components
  /\ Init       /\ (focus # "snapshots" => hasDisk = FALSE)
  /\ KvInit     /\ (focus # "kv" => engine = CHOOSE e \in Engines : TRUE)
  /\ ListingInit /\ (focus # "listing" => pager = "map" /\ stored = {})
  /\ TenantInit /\ SecretInit
  /\ SdkInit    /\ (focus # "sdk" => helper = "mutate" /\ versioned)

MCNext ==
  /\ UNCHANGED focus
  /\ \/ focus = "snapshots" /\ Next        /\ UNCHANGED <<kvVars, listingVars, tenantVars, secretVars, sdkVars>>
     \/ focus = "kv"        /\ KvNext      /\ UNCHANGED <<vars, listingVars, tenantVars, secretVars, sdkVars>>
     \/ focus = "listing"   /\ ListingNext /\ UNCHANGED <<vars, kvVars, tenantVars, secretVars, sdkVars>>
     \/ focus = "tenants"   /\ TenantNext  /\ UNCHANGED <<vars, kvVars, listingVars, secretVars, sdkVars>>
     \/ focus = "secrets"   /\ SecretNext  /\ UNCHANGED <<vars, kvVars, listingVars, tenantVars, sdkVars>>
     \/ focus = "sdk"       /\ SdkNext     /\ UNCHANGED <<vars, kvVars, listingVars, tenantVars, secretVars>>

MCSpec == MCInit /\ [][MCNext]_mcVars /\ (focus = "snapshots" => Fairness)
=============================================================================
