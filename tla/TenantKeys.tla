----------------------------- MODULE TenantKeys -----------------------------
(***************************************************************************)
(* How an object key of a function becomes a file.  The binding that       *)
(* resolvePermissions makes puts organisation, project and bucket before   *)
(* the key; GuardedObjectProvider checks the whole key against its tenant; *)
(* LocalFSProvider writes its colons as "%3A" and resolves it to a path,   *)
(* in which empty and "." segments vanish.  Strings are sequences of       *)
(* characters, of which only the slash, the dot and the colon matter; the  *)
(* text "%3A", of which no two occurrences overlap, is one character,      *)
(* Escaped.                                                                *)
(***************************************************************************)
EXTENDS Naturals, Sequences, FiniteSets

CONSTANTS Chars, Slash, Dot, Colon, Escaped,
          OrgIds, ProjectIds, BucketIds,   \* candidates for the names
          ObjectKeys,     \* candidates for keys and list prefixes
          MaxObjects      \* bound on the objects of a behaviour

ASSUME TenantAssumption ==
  /\ MaxObjects \in Nat /\ {Slash, Dot, Colon, Escaped} \subseteq Chars
  /\ Slash # Dot /\ Colon \notin {Slash, Dot, Escaped} /\ Escaped \notin {Slash, Dot}
  /\ OrgIds \cup ProjectIds \cup BucketIds \subseteq Seq(Chars) /\ ObjectKeys \subseteq Seq(Chars)

VARIABLES
  objectFiles,      \* the files, with the tenant, bucket and key they were put under
  listing     \* the last answer of list: the tenant that asked and what it was given

tenantVars == <<objectFiles, listing>>

HasInfix(s, part) == \E i \in 0..(Len(s) - Len(part)) : SubSeq(s, i + 1, i + Len(part)) = part
StartsWith(s, prefix) == Len(prefix) <= Len(s) /\ SubSeq(s, 1, Len(prefix)) = prefix
DotDot == <<Dot, Dot>>

\* normalizeTenantContext
ValidTenant(t) == \A id \in {t.org, t.project} :
  id # <<>> /\ id # <<Dot>> /\ ~HasInfix(id, DotDot) /\ ~HasInfix(id, <<Slash>>)

\* Mutant of ValidBucket: slashes are let through.
ValidBucketAny(b) == b # <<>> /\ ~HasInfix(b, DotDot)

\* validateIdentifier of the permission resolver
ValidBucket(b) == b # <<>> /\ ~HasInfix(b, DotDot) /\ ~HasInfix(b, <<Slash>>)

\* validateObjectKey of the binding
ValidKey(k) == ~StartsWith(k, <<Slash>>) /\ ~HasInfix(k, DotDot)

TenantPrefix(t) == t.org \o <<Slash>> \o t.project \o <<Slash>>

\* The binding's own prefix.
BucketPrefix(t, b) == t.org \o <<Slash>> \o t.project \o <<Slash>> \o b \o <<Slash>>

\* assertValidObjectKey: no segment after the tenant's prefix is empty or ".".
GuardAllows(full, t) ==
  LET rest == <<Slash>> \o SubSeq(full, Len(TenantPrefix(t)) + 1, Len(full)) \o <<Slash>>
  IN  /\ StartsWith(full, TenantPrefix(t)) /\ ~HasInfix(full, DotDot)
      /\ ~HasInfix(rest, <<Slash, Slash>>) /\ ~HasInfix(rest, <<Slash, Dot, Slash>>)

\* Mutant of GuardAllowsList: the slash after the project is not asked for.
GuardAllowsListOpen(full, t) == StartsWith(full, t.org \o <<Slash>> \o t.project) /\ ~HasInfix(full, DotDot)

\* assertValidObjectListPrefix: empty segments are let through.
GuardAllowsList(full, t) ==
  /\ StartsWith(full, TenantPrefix(t)) /\ ~HasInfix(full, DotDot)
  /\ ~HasInfix(<<Slash>> \o full \o <<Slash>>, <<Slash, Dot, Slash>>)

\* Not a slash before nothing, before another slash or before a "." segment, and not
\* the "." of such a segment.
KeptInPath(padded, i) ==
  /\ ~(padded[i] = Slash /\ (i = Len(padded) \/ padded[i + 1] = Slash))
  /\ ~(padded[i] = Slash /\ i + 1 <= Len(padded) /\ padded[i + 1] = Dot /\ (i + 2 > Len(padded) \/ padded[i + 2] = Slash))
  /\ ~(padded[i] = Dot /\ i > 1 /\ padded[i - 1] = Slash /\ (i = Len(padded) \/ padded[i + 1] = Slash))

\* The names of files and directories, and what list makes of them.
Encoded(s) == [i \in 1..Len(s) |-> IF s[i] = Colon THEN Escaped ELSE s[i]]
Decoded(s) == [i \in 1..Len(s) |-> IF s[i] = Escaped THEN Colon ELSE s[i]]

\* getPath: the colons encoded, the path without empty and "." segments.
FilePath(full) ==
  LET padded == <<Slash>> \o Encoded(full)
      kept == {i \in 1..Len(padded) : KeptInPath(padded, i)}
  IN  [j \in 1..Cardinality(kept) |-> padded[CHOOSE i \in kept : Cardinality({h \in kept : h <= i}) = j]]

----------------------------------------------------------------------------
\* A file belongs to one put.
TenantTypeOK ==
  /\ Cardinality(objectFiles) <= MaxObjects
  /\ \A f, g \in objectFiles : f.path = g.path => f = g
  /\ \A f \in objectFiles : f.path = FilePath(BucketPrefix(f.tenant, f.bucket) \o f.key)

TenantInit == objectFiles = {} /\ listing = [tenant |-> [org |-> <<>>, project |-> <<>>], files |-> {}]

Tenants == {t \in [org : OrgIds, project : ProjectIds] : ValidTenant(t)}

\* put: a file that is there is overwritten, whoever's it was.
PutObject(t, b, k) ==
  LET full == BucketPrefix(t, b) \o k
      path == FilePath(full)
  IN
  /\ ValidBucket(b) /\ ValidKey(k) /\ GuardAllows(full, t)
  /\ objectFiles' = {f \in objectFiles : f.path # path} \cup {[path |-> path, tenant |-> t, bucket |-> b, key |-> k]}
  /\ Cardinality(objectFiles') <= MaxObjects
  /\ UNCHANGED listing

DeleteObject(t, b, k) ==
  LET full == BucketPrefix(t, b) \o k IN
  /\ ValidBucket(b) /\ ValidKey(k) /\ GuardAllows(full, t)
  /\ objectFiles' = {f \in objectFiles : f.path # FilePath(full)} /\ objectFiles' # objectFiles
  /\ UNCHANGED listing

\* list of the guarded provider: the files whose decoded names start with the prefix.
ListObjects(t, prefix) ==
  /\ GuardAllowsList(prefix, t)
  /\ listing' = [tenant |-> t, files |-> {f \in objectFiles : StartsWith(Decoded(Tail(f.path)), prefix)}]
  /\ UNCHANGED objectFiles

TenantNext == \E t \in Tenants :
  \/ \E b \in BucketIds, k \in ObjectKeys : PutObject(t, b, k) \/ DeleteObject(t, b, k)
  \/ \E k \in {<<>>, <<Slash>>} \cup ObjectKeys : ListObjects(t, t.org \o <<Slash>> \o t.project \o k)

TenantSpec == TenantInit /\ [][TenantNext]_tenantVars

----------------------------------------------------------------------------
\* The same name; where the text "%3A" occurs, it and a colon are one name to the provider.
HoldsEscape(s) == \E i \in 1..Len(s) : s[i] = Escaped
SameName(x, y) == Encoded(x) = Encoded(y) /\ (HoldsEscape(x) \/ HoldsEscape(y) \/ x = y)
SameTenant(t, u) == SameName(t.org, u.org) /\ SameName(t.project, u.project)

\* An object is overwritten or deleted through its own tenant, bucket and key only: no two of
\* them name one file (platform.contract.md, PLAT-7), unless they differ in nothing but a colon
\* that the other writes as "%3A".
ObjectsApart == \A f \in objectFiles \ objectFiles' : \A t \in Tenants, b \in BucketIds, k \in ObjectKeys :
  PutObject(t, b, k) \/ DeleteObject(t, b, k) => SameTenant(f.tenant, t) /\ SameName(f.bucket, b) /\ SameName(f.key, k)

\* A listing holds keys of the tenant that asked, and no project whose name merely starts the
\* same.
ListsOwn == \A f \in listing.files : SameTenant(f.tenant, listing.tenant)

\* Tenants stay apart in the object store: no write of one removes a file of another,
\* and a listing shows a tenant its own files only; names that "%3A" makes one are the exception.
TenantsApart == [](TenantTypeOK /\ ListsOwn) /\ [][ObjectsApart]_tenantVars
=============================================================================
