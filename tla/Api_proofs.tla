----------------------------- MODULE Api_proofs -----------------------------
(***************************************************************************)
(* The safety of what the API process keeps: accounts and artist claims,   *)
(* for any number of users, artists and waiting requests, and what a tab   *)
(* is told and shows, for any number of tabs, jobs, requests and faults.   *)
(* The two share no state: each has its own invariant.                     *)
(***************************************************************************)
EXTENDS Accounts, JobEvents, FiniteSetTheorems, TLAPS

(***************************************************************************)
(* Accounts and artist claims                                              *)
(***************************************************************************)
\* The inductive form of AccountMatchesClaim, without equality of records.
Matched ==
    \A u \in Users :
        /\ Exists(u) /\ user[u].artist # None =>
              /\ claim[u] # None
              /\ claim[u].artist = user[u].artist /\ claim[u].status = "approved"
        /\ claim[u] # None /\ claim[u].status = "approved" =>
              Exists(u) /\ user[u].artist = claim[u].artist

ClaimsAreExclusive ==
    \A u, v \in Users :
        claim[u] # None /\ claim[v] # None /\ claim[u].artist = claim[v].artist
            => u = v

\* The account and the artist of a claim exist (the foreign keys of the table).
ClaimsAreBacked ==
    \A u \in Users : claim[u] # None => Exists(u) /\ ArtistExists(claim[u].artist)

UsedExists == \A a \in used : ArtistExists(a)

LinkInv == Matched /\ ClaimsAreExclusive /\ ClaimsAreBacked /\ UsedExists

AccountInv == TypeOKAccounts /\ IsFiniteSet(ready) /\ LinkInv /\ SomeAdminRemains

(* Lemmas about the rows *)

\* The initial admins are rows, and None is not.
LEMMA RowsAreNotNone ==
  /\ Admin \in UserRows
  /\ \A x \in UserRows : x # None
  /\ \A x \in ClaimRows : x # None
  /\ \A a \in Artists : a # None
  BY AccountAssumption DEF Admin, UserRows

\* What Matched says of the rows is what AccountMatchesClaim says.
LEMMA MatchedIsEnough == ASSUME TypeOKAccounts, Matched PROVE AccountMatchesClaim
<1> SUFFICES ASSUME NEW u \in Users, NEW a \in Artists
             PROVE  (Exists(u) /\ user[u].artist = a)
                        <=> claim[u] = [artist |-> a, status |-> "approved"]
  BY DEF AccountMatchesClaim
<1>1. a # None
  BY RowsAreNotNone
<1>2. claim[u] \in ClaimRows \cup {None}
  BY DEF TypeOKAccounts
<1>3. [artist |-> a, status |-> "approved"] \in ClaimRows
  BY DEF ClaimRows
<1>4. ASSUME Exists(u), user[u].artist = a
      PROVE  claim[u] = [artist |-> a, status |-> "approved"]
  BY <1>1, <1>2, <1>4 DEF Matched, ClaimRows
<1>5. ASSUME claim[u] = [artist |-> a, status |-> "approved"]
      PROVE  Exists(u) /\ user[u].artist = a
  BY <1>3, <1>5, RowsAreNotNone DEF Matched
<1> QED BY <1>4, <1>5

\* Whoever has an artist has its claim, so no two accounts share one.
LEMMA LinksAreEnough == ASSUME TypeOKAccounts, LinkInv PROVE OneHolderPerArtist
<1> SUFFICES ASSUME NEW a \in Artists
             PROVE  Cardinality(Claimants(a) \cup
                        {u \in Users : Exists(u) /\ user[u].artist = a}) <= 1
  BY DEF OneHolderPerArtist
<1> DEFINE H == Claimants(a) \cup {u \in Users : Exists(u) /\ user[u].artist = a}
<1>1. H \subseteq Claimants(a)
  BY RowsAreNotNone DEF LinkInv, Matched, Claimants
<1>2. \A u, v \in Claimants(a) : u = v
  BY DEF LinkInv, ClaimsAreExclusive, Claimants
<1>3. H = {} \/ \E u : H = {u}
  BY <1>1, <1>2
<1>4. Cardinality(H) = 0 \/ Cardinality(H) = 1
  <2>1. CASE H = {}
    BY <2>1, FS_EmptySet
  <2>2. ASSUME NEW u, H = {u} PROVE Cardinality(H) = 1
    BY <2>2, FS_Singleton
  <2> QED BY <1>3, <2>1, <2>2
<1> QED BY <1>4

\* A profile is referred to, or linked, only while it exists.
LEMMA BackedIsEnough == ASSUME TypeOKAccounts, LinkInv PROVE ReferencesAreKept
<1> SUFFICES ASSUME NEW a \in Artists, artist[a] = "deleted"
             PROVE  a \notin used /\ \A u \in Users : Exists(u) => user[u].artist # a
  BY DEF ReferencesAreKept
<1>1. ~ArtistExists(a)
  BY DEF ArtistExists
<1>2. a \notin used
  BY <1>1 DEF LinkInv, UsedExists
<1>3. ASSUME NEW u \in Users, Exists(u), user[u].artist = a PROVE FALSE
  BY <1>1, <1>3, RowsAreNotNone DEF LinkInv, Matched, ClaimsAreBacked
<1> QED BY <1>2, <1>3

(* Lemmas about the requests *)

\* Authorised requests that wait stay few: one at most is added or taken away.
LEMMA ReadyStaysFinite ==
  ASSUME TypeOKAccounts, IsFiniteSet(ready), NEW q \in Requests,
         \/ ready' = ready
         \/ ready' = {}
         \/ ready' = ready \ {q}
         \/ Cardinality(ready) < MaxReady /\ q \notin ready /\ ready' = ready \cup {q}
  PROVE  /\ ready' \subseteq Requests /\ IsFiniteSet(ready')
         /\ Cardinality(ready') <= MaxReady
<1>1. Cardinality(ready) \in Nat /\ MaxReady \in Nat
  BY FS_CardinalityType, AccountAssumption
<1>2. CASE ready' = ready
  BY <1>2 DEF TypeOKAccounts
<1>3. CASE ready' = {}
  BY <1>1, <1>3, FS_EmptySet
<1>4. CASE ready' = ready \ {q}
  <2>1. IsFiniteSet(ready') /\ ready' \subseteq ready
    BY <1>4, FS_RemoveElement, Zenon
  <2>2. ready' = ready \/ Cardinality(ready') = Cardinality(ready) - 1
    BY <1>4, FS_RemoveElement, Zenon
  <2> QED BY <1>1, <2>1, <2>2 DEF TypeOKAccounts
<1>5. CASE Cardinality(ready) < MaxReady /\ q \notin ready /\ ready' = ready \cup {q}
  <2>1. IsFiniteSet(ready') /\ Cardinality(ready') = Cardinality(ready) + 1
    BY <1>5, FS_AddElement, Zenon
  <2> QED BY <1>1, <1>5, <2>1 DEF TypeOKAccounts
<1> QED BY <1>2, <1>3, <1>4, <1>5

\* A step that leaves the four tables alone leaves what is said of them alone.
LEMMA RowsUnchanged ==
  ASSUME LinkInv, SomeAdminRemains, UNCHANGED rows
  PROVE  LinkInv' /\ SomeAdminRemains'
  BY DEF rows, LinkInv, Matched, ClaimsAreExclusive, ClaimsAreBacked, UsedExists,
         SomeAdminRemains, ApprovedAdmins, Approved, IsAdmin, Exists, ArtistExists

(* One lemma per action *)

LEMMA AccountsBegin == InitAccounts => AccountInv
<1> SUFFICES ASSUME InitAccounts PROVE AccountInv
  OBVIOUS
<1>1. TypeOKAccounts
  <2>1. Cardinality(ready) = 0
    BY FS_EmptySet DEF InitAccounts
  <2>2. user \in [Users -> UserRows \cup {None}]
    BY RowsAreNotNone DEF InitAccounts
  <2>3. artist \in [Artists -> {"unknown", "ra", "created", "deleted"}]
    BY DEF InitAccounts
  <2>4. claim \in [Users -> ClaimRows \cup {None}]
    BY DEF InitAccounts
  <2>5. Cardinality(ready) <= MaxReady
    BY <2>1, AccountAssumption
  <2>6. bootstrap \in Users \cup {None}
    BY AccountAssumption DEF InitAccounts
  <2> QED BY <2>2, <2>3, <2>4, <2>5, <2>6 DEF InitAccounts, TypeOKAccounts
<1>2. IsFiniteSet(ready)
  BY FS_EmptySet DEF InitAccounts
<1>3. LinkInv
  BY DEF InitAccounts, LinkInv, Matched, ClaimsAreExclusive, ClaimsAreBacked, UsedExists,
         Exists, Admin
<1>4. SomeAdminRemains
  BY RowsAreNotNone, AccountAssumption
     DEF InitAccounts, SomeAdminRemains, ApprovedAdmins, Approved, IsAdmin, Exists, Admin
<1> QED BY <1>1, <1>2, <1>3, <1>4 DEF AccountInv

LEMMA GrantStep ==
  ASSUME AccountInv, NEW q \in Requests, Grant(q) PROVE AccountInv'
<1>1. /\ ready' \subseteq Requests /\ IsFiniteSet(ready')
      /\ Cardinality(ready') <= MaxReady
  BY ReadyStaysFinite DEF AccountInv, Grant
<1>2. LinkInv' /\ SomeAdminRemains'
  BY RowsUnchanged DEF AccountInv, Grant
<1>3. TypeOKAccounts'
  BY <1>1 DEF AccountInv, Grant, TypeOKAccounts, rows
<1> QED BY <1>1, <1>2, <1>3 DEF AccountInv

\* What every handler does to the requests that wait.
LEMMA HandlesStep ==
  ASSUME AccountInv, NEW q \in Requests, NEW op, Handles(q, op)
  PROVE  /\ ready' \subseteq Requests /\ IsFiniteSet(ready')
         /\ Cardinality(ready') <= MaxReady
         /\ bootstrap' = bootstrap /\ running' = running
  BY ReadyStaysFinite DEF AccountInv, Handles

LEMMA RegisterStep ==
  ASSUME AccountInv, NEW u \in Users, NEW a \in Artists,
         RegisterExisting(u, a) \/ RegisterNew(u, a)
  PROVE  AccountInv'
<1> DEFINE st == IF auto THEN "approved" ELSE "pending"
<1>1. /\ ~Exists(u)
      /\ user' = [user EXCEPT ![u] = NewAccount(st, a)]
      /\ claim' = [claim EXCEPT ![u] = [artist |-> a, status |-> st]]
      /\ UNCHANGED <<used, auto, ready, bootstrap, running>>
  BY DEF RegisterExisting, RegisterNew, RegisterAs
<1>2. /\ NewAccount(st, a) \in UserRows
      /\ NewAccount(st, a).role = "artist"
      /\ NewAccount(st, a).artist = IF st = "approved" THEN a ELSE None
      /\ [artist |-> a, status |-> st] \in ClaimRows
  BY DEF NewAccount, UserRows, ClaimRows
<1>3. /\ artist' \in [Artists -> {"unknown", "ra", "created", "deleted"}]
      /\ \A b \in Artists : ArtistExists(b) => ArtistExists(b)'
      /\ ArtistExists(a)'
  BY DEF RegisterExisting, RegisterNew, ArtistExists, AccountInv, TypeOKAccounts
<1>4. \A v \in Users : claim[v] # None => claim[v].artist # a
  <2>1. CASE RegisterExisting(u, a)
    BY <2>1 DEF RegisterExisting, MayClaim, Claimants
  <2>2. CASE RegisterNew(u, a)
    BY <2>2 DEF RegisterNew, AccountInv, LinkInv, ClaimsAreBacked, ArtistExists
  <2> QED BY <2>1, <2>2
<1>5. TypeOKAccounts'
  BY <1>1, <1>2, <1>3 DEF AccountInv, TypeOKAccounts
<1>6. Matched'
  BY <1>1, <1>2, RowsAreNotNone DEF AccountInv, LinkInv, Matched, TypeOKAccounts, Exists
<1>7. ClaimsAreExclusive'
  BY <1>1, <1>2, <1>4 DEF AccountInv, LinkInv, ClaimsAreExclusive, TypeOKAccounts
<1>8. ClaimsAreBacked'
  <2> SUFFICES ASSUME NEW v \in Users, claim'[v] # None
               PROVE  user'[v] # None /\ artist'[claim'[v].artist] \in {"ra", "created"}
    BY DEF ClaimsAreBacked, Exists, ArtistExists
  <2>1. CASE v = u
    <3>1. user'[u] = NewAccount(st, a) /\ claim'[u] = [artist |-> a, status |-> st]
      BY <1>1 DEF AccountInv, TypeOKAccounts
    <3>2. user'[u] # None
      BY <3>1, <1>2, RowsAreNotNone
    <3> QED BY <2>1, <3>1, <3>2, <1>3 DEF ArtistExists
  <2>2. CASE v # u
    <3>1. claim'[v] = claim[v] /\ user'[v] = user[v]
      BY <2>2, <1>1 DEF AccountInv, TypeOKAccounts
    <3>2. claim[v].artist \in Artists
      BY <3>1 DEF AccountInv, TypeOKAccounts, ClaimRows
    <3>3. user[v] # None /\ ArtistExists(claim[v].artist)
      BY <3>1 DEF AccountInv, LinkInv, ClaimsAreBacked, Exists
    <3> QED BY <3>1, <3>2, <3>3, <1>3 DEF ArtistExists
  <2> QED BY <2>1, <2>2
<1>9. UsedExists'
  BY <1>1, <1>3 DEF AccountInv, LinkInv, UsedExists, TypeOKAccounts, ArtistExists
<1>10. SomeAdminRemains'
  BY <1>1 DEF AccountInv, TypeOKAccounts, SomeAdminRemains, ApprovedAdmins, Approved,
     IsAdmin, Exists
<1> QED BY <1>1, <1>5, <1>6, <1>7, <1>8, <1>9, <1>10 DEF AccountInv, LinkInv

LEMMA ApproveStep ==
  ASSUME AccountInv, NEW q \in Requests, Approve(q) PROVE AccountInv'
<1> DEFINE u == q.on
           a == PendingArtist(u)
<1>0. Handles(q, "approve") /\ u \in Users
  BY DEF Approve, Handles, Requests
<1>1. /\ ready' \subseteq Requests /\ IsFiniteSet(ready')
      /\ Cardinality(ready') <= MaxReady
      /\ bootstrap' = bootstrap /\ running' = running
  BY <1>0, HandlesStep
<1>2. UNCHANGED <<artist, used, auto>>
  BY DEF Approve
<1>3. CASE UNCHANGED <<user, claim>>
  BY <1>1, <1>2, <1>3, RowsUnchanged DEF AccountInv, TypeOKAccounts, rows
<1>4. CASE /\ Exists(u)
           /\ user' = [user EXCEPT ![u].status = "approved",
                                   ![u].artist = IF a # None THEN a ELSE @]
           /\ claim' = IF a = None THEN claim ELSE [claim EXCEPT ![u].status = "approved"]
  <2>1. /\ user[u] \in UserRows
        /\ user'[u] = [user[u] EXCEPT !.status = "approved",
                                      !.artist = IF a # None THEN a ELSE @]
        /\ \A v \in Users \ {u} : user'[v] = user[v]
    BY <1>0, <1>4 DEF AccountInv, TypeOKAccounts, Exists
  <2>2. a # None => /\ claim[u] \in ClaimRows /\ claim[u].artist = a /\ a \in Artists
    BY <1>0 DEF PendingArtist, AccountInv, TypeOKAccounts, ClaimRows
  <2>3. /\ user'[u] \in UserRows /\ user'[u].role = user[u].role
        /\ user'[u].status = "approved"
        /\ user'[u].artist = IF a # None THEN a ELSE user[u].artist
    BY <2>1, <2>2 DEF UserRows
  <2>4. /\ \A v \in Users \ {u} : claim'[v] = claim[v]
        /\ a = None => claim' = claim
        /\ a # None => /\ claim'[u] \in ClaimRows
                       /\ claim'[u].artist = a /\ claim'[u].status = "approved"
    BY <1>0, <1>4, <2>2 DEF AccountInv, TypeOKAccounts, ClaimRows
  <2>5. TypeOKAccounts'
    BY <1>1, <1>2, <1>4, <2>1, <2>3, <2>4 DEF AccountInv, TypeOKAccounts
  <2>6. a = None /\ claim[u] # None => claim[u].status = "approved"
    BY <1>0, RowsAreNotNone DEF PendingArtist, AccountInv, TypeOKAccounts, ClaimRows
  <2>7. Matched'
    <3> SUFFICES ASSUME NEW v \in Users
                 PROVE  /\ user'[v] # None /\ user'[v].artist # None =>
                              /\ claim'[v] # None
                              /\ claim'[v].artist = user'[v].artist
                              /\ claim'[v].status = "approved"
                        /\ claim'[v] # None /\ claim'[v].status = "approved" =>
                              user'[v] # None /\ user'[v].artist = claim'[v].artist
      BY DEF Matched, Exists
    <3>1. CASE v # u
      BY <2>1, <2>4, <3>1 DEF AccountInv, LinkInv, Matched, Exists
    <3>2. CASE v = u /\ a = None
      BY <1>4, <2>3, <2>4, <2>6, <3>2, RowsAreNotNone DEF AccountInv, LinkInv, Matched
    <3>3. CASE v = u /\ a # None
      BY <2>3, <2>4, <3>3, RowsAreNotNone
    <3> QED BY <3>1, <3>2, <3>3
  <2>8. \A v \in Users :
          /\ claim'[v] # None <=> claim[v] # None
          /\ claim[v] # None => claim'[v].artist = claim[v].artist
    BY <2>2, <2>4, RowsAreNotNone
  <2>9. ClaimsAreExclusive'
    BY <2>8 DEF AccountInv, LinkInv, ClaimsAreExclusive
  <2>10. \A v \in Users : user'[v] # None <=> user[v] # None
    BY <1>4, <2>1, <2>3, RowsAreNotNone DEF Exists
  <2>11. ClaimsAreBacked' /\ UsedExists'
    BY <1>2, <2>8, <2>10
       DEF AccountInv, LinkInv, ClaimsAreBacked, UsedExists, Exists, ArtistExists
  <2>12. SomeAdminRemains'
    <3>1. PICK x \in Users : Approved(x) /\ IsAdmin(x)
      BY DEF AccountInv, SomeAdminRemains, ApprovedAdmins
    <3>2. user'[x] # None /\ user'[x].status = "approved" /\ user'[x].role = "admin"
      BY <2>1, <2>3, <2>10, <3>1 DEF Approved, IsAdmin, Exists
    <3> QED BY <3>2 DEF SomeAdminRemains, ApprovedAdmins, Approved, IsAdmin, Exists
  <2> QED BY <1>1, <2>5, <2>7, <2>9, <2>11, <2>12 DEF AccountInv, LinkInv
<1> QED BY <1>3, <1>4 DEF Approve

LEMMA RejectStep ==
  ASSUME AccountInv, NEW q \in Requests, Reject(q) PROVE AccountInv'
<1> DEFINE u == q.on
           a == PendingArtist(u)
<1>0. Handles(q, "reject") /\ u \in Users
  BY DEF Reject, Handles, Requests
<1>1. /\ ready' \subseteq Requests /\ IsFiniteSet(ready')
      /\ Cardinality(ready') <= MaxReady
      /\ bootstrap' = bootstrap /\ running' = running
  BY <1>0, HandlesStep
<1>2. UNCHANGED <<used, auto>>
  BY DEF Reject
<1>3. CASE UNCHANGED <<user, claim, artist>>
  BY <1>1, <1>2, <1>3, RowsUnchanged DEF AccountInv, TypeOKAccounts, rows
<1>4. CASE /\ Exists(u) /\ user[u].status = "pending" /\ a # None
           /\ user' = [user EXCEPT ![u] = AfterReject(u)]
           /\ claim' = [claim EXCEPT ![u] = None]
           /\ artist' = IF Deletable(a) /\ Assigned(a) \ {u} = {} /\ Claimants(a) \ {u} = {}
                        THEN [artist EXCEPT ![a] = "deleted"] ELSE artist
  <2>1. /\ user'[u] = None /\ claim'[u] = None
        /\ \A v \in Users \ {u} : user'[v] = user[v] /\ claim'[v] = claim[v]
    BY <1>0, <1>4 DEF AfterReject, AccountInv, TypeOKAccounts
  <2>2. a \in Artists
    BY <1>0, <1>4 DEF PendingArtist, AccountInv, TypeOKAccounts, ClaimRows
  <2>3. TypeOKAccounts'
    BY <1>1, <1>2, <1>4, <2>2 DEF AfterReject, AccountInv, TypeOKAccounts
  <2>4. Matched' /\ ClaimsAreExclusive'
    BY <2>1 DEF AccountInv, LinkInv, Matched, ClaimsAreExclusive, Exists
  <2>5. \A b \in Artists : ArtistExists(b) =>
          \/ artist'[b] \in {"ra", "created"}
          \/ b = a /\ a \notin used /\ Claimants(a) \ {u} = {}
    BY <1>4, <2>2 DEF ArtistExists, Deletable, AccountInv, TypeOKAccounts
  <2>6. ClaimsAreBacked'
    <3> SUFFICES ASSUME NEW v \in Users, claim'[v] # None
                 PROVE  user'[v] # None /\ artist'[claim'[v].artist] \in {"ra", "created"}
      BY DEF ClaimsAreBacked, Exists, ArtistExists
    <3>1. v # u /\ user'[v] = user[v] /\ claim'[v] = claim[v]
      BY <2>1
    <3>2. /\ user[v] # None /\ claim[v].artist \in Artists
          /\ ArtistExists(claim[v].artist)
      BY <3>1 DEF AccountInv, LinkInv, ClaimsAreBacked, Exists, TypeOKAccounts, ClaimRows
    <3>3. v \in Claimants(claim[v].artist) \ {u}
      BY <3>1 DEF Claimants
    <3> QED BY <2>5, <3>1, <3>2, <3>3
  <2>7. UsedExists'
    BY <1>2, <2>5 DEF AccountInv, LinkInv, UsedExists, ArtistExists, TypeOKAccounts
  <2>8. SomeAdminRemains'
    BY <1>4, <2>1
       DEF AccountInv, SomeAdminRemains, ApprovedAdmins, Approved, IsAdmin, Exists
  <2> QED BY <1>1, <2>3, <2>4, <2>6, <2>7, <2>8 DEF AccountInv, LinkInv
<1> QED BY <1>3, <1>4 DEF Reject

\* Steps that change neither claims nor the artist of an account.
LEMMA LinksKept ==
  ASSUME LinkInv, UNCHANGED <<claim, artist>>,
         \A a \in used' : ArtistExists(a),
         \A v \in Users : /\ user'[v] # None <=> user[v] # None
                          /\ user[v] # None => user'[v].artist = user[v].artist
  PROVE  LinkInv'
<1>1. Matched' /\ ClaimsAreExclusive'
  BY DEF LinkInv, Matched, ClaimsAreExclusive, Exists
<1>2. ClaimsAreBacked' /\ UsedExists'
  BY DEF LinkInv, ClaimsAreBacked, UsedExists, Exists, ArtistExists
<1> QED BY <1>1, <1>2 DEF LinkInv

\* Removing one account from more than one leaves another.
LEMMA AnotherRemains ==
  ASSUME NEW S, NEW x, Cardinality(S) > 1 PROVE S \ {x} # {}
<1> SUFFICES ASSUME S \ {x} = {} PROVE FALSE
  OBVIOUS
<1>1. S = {} \/ S = {x}
  OBVIOUS
<1>2. Cardinality(S) = 0 \/ Cardinality(S) = 1
  <2>1. CASE S = {}
    BY <2>1, FS_EmptySet
  <2>2. CASE S = {x}
    BY <2>2, FS_Singleton
  <2> QED BY <1>1, <2>1, <2>2
<1> QED BY <1>2

LEMMA DeactivateStep ==
  ASSUME AccountInv, NEW q \in Requests, Deactivate(q) PROVE AccountInv'
<1> DEFINE u == q.on
<1>0. Handles(q, "deactivate") /\ u \in Users
  BY DEF Deactivate, Handles, Requests
<1>1. /\ ready' \subseteq Requests /\ IsFiniteSet(ready')
      /\ Cardinality(ready') <= MaxReady
      /\ bootstrap' = bootstrap /\ running' = running
  BY <1>0, HandlesStep
<1>2. UNCHANGED <<claim, artist, used, auto>>
  BY DEF Deactivate
<1>3. CASE UNCHANGED user
  BY <1>1, <1>2, <1>3, RowsUnchanged DEF AccountInv, TypeOKAccounts, rows
<1>4. CASE Exists(u) /\ MayDeactivate(q)
           /\ user' = [user EXCEPT ![u].status = "deactivated"]
  <2>1. user[u] \in UserRows
    BY <1>0, <1>4 DEF AccountInv, TypeOKAccounts, Exists
  <2>2. /\ user'[u] \in UserRows /\ user'[u].artist = user[u].artist
        /\ \A v \in Users \ {u} : user'[v] = user[v]
    BY <1>0, <1>4, <2>1 DEF AccountInv, TypeOKAccounts, UserRows
  <2>3. TypeOKAccounts'
    BY <1>1, <1>2, <1>4, <2>2 DEF AccountInv, TypeOKAccounts
  <2>4. LinkInv'
    BY <1>2, <2>1, <2>2, RowsAreNotNone, LinksKept DEF AccountInv, LinkInv, UsedExists
  <2>5. ApprovedAdmins \ {u} # {}
    <3>1. CASE IsAdmin(u)
      BY <1>4, <3>1, AnotherRemains DEF MayDeactivate
    <3>2. CASE ~IsAdmin(u)
      BY <3>2 DEF AccountInv, SomeAdminRemains, ApprovedAdmins
    <3> QED BY <3>1, <3>2
  <2>6. SomeAdminRemains'
    BY <2>2, <2>5 DEF SomeAdminRemains, ApprovedAdmins, Approved, IsAdmin, Exists
  <2> QED BY <1>1, <2>3, <2>4, <2>6 DEF AccountInv
<1> QED BY <1>3, <1>4 DEF Deactivate

LEMMA ActivateStep ==
  ASSUME AccountInv, NEW q \in Requests, Activate(q) PROVE AccountInv'
<1> DEFINE u == q.on
<1>0. Handles(q, "activate") /\ u \in Users
  BY DEF Activate, Handles, Requests
<1>1. /\ ready' \subseteq Requests /\ IsFiniteSet(ready')
      /\ Cardinality(ready') <= MaxReady
      /\ bootstrap' = bootstrap /\ running' = running
  BY <1>0, HandlesStep
<1>2. UNCHANGED <<claim, artist, used, auto>>
  BY DEF Activate
<1>3. CASE UNCHANGED user
  BY <1>1, <1>2, <1>3, RowsUnchanged DEF AccountInv, TypeOKAccounts, rows
<1>4. CASE Exists(u) /\ user' = [user EXCEPT ![u].status = "approved"]
  <2>1. user[u] \in UserRows
    BY <1>0, <1>4 DEF AccountInv, TypeOKAccounts, Exists
  <2>2. /\ user'[u] \in UserRows /\ user'[u].artist = user[u].artist
        /\ user'[u].status = "approved" /\ user'[u].role = user[u].role
        /\ \A v \in Users \ {u} : user'[v] = user[v]
    BY <1>0, <1>4, <2>1 DEF AccountInv, TypeOKAccounts, UserRows
  <2>3. TypeOKAccounts'
    BY <1>1, <1>2, <1>4, <2>2 DEF AccountInv, TypeOKAccounts
  <2>4. LinkInv'
    BY <1>2, <2>1, <2>2, RowsAreNotNone, LinksKept DEF AccountInv, LinkInv, UsedExists
  <2>5. SomeAdminRemains'
    BY <2>2, RowsAreNotNone
       DEF AccountInv, SomeAdminRemains, ApprovedAdmins, Approved, IsAdmin, Exists
  <2> QED BY <1>1, <2>3, <2>4, <2>5 DEF AccountInv
<1> QED BY <1>3, <1>4 DEF Activate

LEMMA UnbindStep ==
  ASSUME AccountInv, NEW q \in Requests, Unbind(q) PROVE AccountInv'
<1> DEFINE u == q.on
<1>0. Handles(q, "unbind") /\ u \in Users
  BY DEF Unbind, Handles, Requests
<1>1. /\ ready' \subseteq Requests /\ IsFiniteSet(ready')
      /\ Cardinality(ready') <= MaxReady
      /\ bootstrap' = bootstrap /\ running' = running
  BY <1>0, HandlesStep
<1>2. UNCHANGED <<artist, used, auto>>
  BY DEF Unbind
<1>3. CASE UNCHANGED <<user, claim>>
  BY <1>1, <1>2, <1>3, RowsUnchanged DEF AccountInv, TypeOKAccounts, rows
<1>4. CASE /\ Exists(u) /\ user[u].artist # None
           /\ claim' = [claim EXCEPT ![u] = IF @ # None /\ @.artist = user[u].artist
                                            THEN None ELSE @]
           /\ user' = [user EXCEPT ![u].artist = AfterUnbind(u)]
  <2>1. user[u] \in UserRows /\ claim[u] # None /\ claim[u].artist = user[u].artist
    BY <1>0, <1>4 DEF AccountInv, LinkInv, Matched, TypeOKAccounts, Exists
  <2>2. /\ user'[u] \in UserRows /\ user'[u].artist = None
        /\ user'[u].status = user[u].status /\ user'[u].role = user[u].role
        /\ \A v \in Users \ {u} : user'[v] = user[v]
    BY <1>0, <1>4, <2>1 DEF AfterUnbind, AccountInv, TypeOKAccounts, UserRows
  <2>3. claim'[u] = None /\ \A v \in Users \ {u} : claim'[v] = claim[v]
    BY <1>0, <1>4, <2>1 DEF AccountInv, TypeOKAccounts
  <2>4. user' \in [Users -> UserRows \cup {None}]
    BY <1>4, <2>2 DEF AccountInv, TypeOKAccounts
  <2>5. claim' \in [Users -> ClaimRows \cup {None}]
    BY <1>4, <2>3 DEF AccountInv, TypeOKAccounts
  <2>6. TypeOKAccounts'
    BY <1>1, <1>2, <2>4, <2>5 DEF AccountInv, TypeOKAccounts
  <2>7. Matched' /\ ClaimsAreExclusive'
    BY <2>2, <2>3 DEF AccountInv, LinkInv, Matched, ClaimsAreExclusive, Exists
  <2>8. ClaimsAreBacked' /\ UsedExists'
    BY <1>2, <2>2, <2>3
       DEF AccountInv, LinkInv, ClaimsAreBacked, UsedExists, Exists, ArtistExists
  <2>9. SomeAdminRemains'
    <3>1. PICK x \in Users : Approved(x) /\ IsAdmin(x)
      BY DEF AccountInv, SomeAdminRemains, ApprovedAdmins
    <3>2. user'[x] # None /\ user'[x].status = "approved" /\ user'[x].role = "admin"
      BY <2>2, <3>1, RowsAreNotNone DEF Approved, IsAdmin, Exists
    <3> QED BY <3>2 DEF SomeAdminRemains, ApprovedAdmins, Approved, IsAdmin, Exists
  <2> QED BY <1>1, <2>6, <2>7, <2>8, <2>9 DEF AccountInv, LinkInv
<1> QED BY <1>3, <1>4 DEF Unbind

LEMMA ChangeRoleStep ==
  ASSUME AccountInv, NEW q \in Requests, NEW role \in {"artist", "agent"},
         ChangeRole(q, role)
  PROVE  AccountInv'
<1> DEFINE u == q.on
<1>0. Handles(q, "role") /\ u \in Users
  BY DEF ChangeRole, Handles, Requests
<1>1. /\ ready' \subseteq Requests /\ IsFiniteSet(ready')
      /\ Cardinality(ready') <= MaxReady
      /\ bootstrap' = bootstrap /\ running' = running
  BY <1>0, HandlesStep
<1>2. UNCHANGED <<claim, artist, used, auto>>
  BY DEF ChangeRole
<1>3. CASE UNCHANGED user
  BY <1>1, <1>2, <1>3, RowsUnchanged DEF AccountInv, TypeOKAccounts, rows
<1>4. CASE Exists(u) /\ ~IsAdmin(u) /\ user' = [user EXCEPT ![u].role = role]
  <2>1. user[u] \in UserRows
    BY <1>0, <1>4 DEF AccountInv, TypeOKAccounts, Exists
  <2>2. /\ user'[u] \in UserRows /\ user'[u].artist = user[u].artist
        /\ \A v \in Users \ {u} : user'[v] = user[v]
    BY <1>0, <1>4, <2>1 DEF AccountInv, TypeOKAccounts, UserRows
  <2>3. TypeOKAccounts'
    BY <1>1, <1>2, <1>4, <2>2 DEF AccountInv, TypeOKAccounts
  <2>4. LinkInv'
    BY <1>2, <2>1, <2>2, RowsAreNotNone, LinksKept DEF AccountInv, LinkInv, UsedExists
  <2>5. SomeAdminRemains'
    BY <1>4, <2>2
       DEF AccountInv, SomeAdminRemains, ApprovedAdmins, Approved, IsAdmin, Exists
  <2> QED BY <1>1, <2>3, <2>4, <2>5 DEF AccountInv
<1> QED BY <1>3, <1>4 DEF ChangeRole

LEMMA ChangeSettingStep ==
  ASSUME AccountInv, NEW q \in Requests, NEW value \in BOOLEAN,
         ChangeSetting(q, value)
  PROVE  AccountInv'
<1>1. /\ ready' \subseteq Requests /\ IsFiniteSet(ready')
      /\ Cardinality(ready') <= MaxReady
      /\ bootstrap' = bootstrap /\ running' = running
  BY HandlesStep DEF ChangeSetting
<1>2. LinkInv' /\ SomeAdminRemains'
  BY RowsUnchanged DEF AccountInv, ChangeSetting
<1>3. auto' \in BOOLEAN /\ UNCHANGED <<user, claim, artist, used>>
  BY DEF ChangeSetting, rows
<1>4. TypeOKAccounts'
  BY <1>1, <1>3 DEF AccountInv, TypeOKAccounts
<1> QED BY <1>1, <1>2, <1>4 DEF AccountInv

LEMMA UseArtistStep ==
  ASSUME AccountInv, NEW q \in Requests, UseArtist(q) PROVE AccountInv'
<1>1. /\ ready' \subseteq Requests /\ IsFiniteSet(ready')
      /\ Cardinality(ready') <= MaxReady
      /\ bootstrap' = bootstrap /\ running' = running
  BY HandlesStep DEF UseArtist
<1>2. UNCHANGED <<user, claim, artist, auto>>
  BY DEF UseArtist
<1>3. q.on \in Artists
  BY DEF UseArtist, Handles, Requests, AdminOps
<1>4. used' \subseteq Artists /\ \A a \in used' : ArtistExists(a)
  BY <1>3 DEF UseArtist, AccountInv, LinkInv, UsedExists, TypeOKAccounts
<1>5. TypeOKAccounts'
  BY <1>1, <1>2, <1>4 DEF AccountInv, TypeOKAccounts
<1>6. LinkInv'
  BY <1>2, <1>4, LinksKept DEF AccountInv
<1>7. SomeAdminRemains'
  BY <1>2 DEF AccountInv, SomeAdminRemains, ApprovedAdmins, Approved, IsAdmin, Exists
<1> QED BY <1>1, <1>5, <1>6, <1>7 DEF AccountInv

LEMMA RestartStep ==
  ASSUME AccountInv, NEW name \in FirstAdmins \cup {None}, NEW update \in BOOLEAN,
         RestartApi(name, update)
  PROVE  AccountInv'
<1>1. PICK picked \in {u \in Users : IsAdmin(u)} :
        LET renames == name # None /\ update IN
          /\ running' = (~renames \/ picked = name)
          /\ user' = IF renames /\ picked = name
                     THEN [user EXCEPT ![name].status = "approved"] ELSE user
  BY DEF RestartApi
<1>2. /\ bootstrap' = name /\ ready' = {} /\ UNCHANGED <<claim, artist, used, auto>>
      /\ running' \in BOOLEAN
  BY <1>1 DEF RestartApi
<1>3. /\ ready' \subseteq Requests /\ IsFiniteSet(ready')
      /\ Cardinality(ready') <= MaxReady /\ bootstrap' \in Users \cup {None}
  <2>1. IsFiniteSet(ready') /\ Cardinality(ready') = 0
    BY <1>2, FS_EmptySet
  <2> QED BY <1>2, <2>1, AccountAssumption
<1>4. CASE UNCHANGED user
  <2>1. LinkInv' /\ SomeAdminRemains'
    BY <1>2, <1>4, RowsUnchanged DEF AccountInv, rows
  <2>2. TypeOKAccounts'
    BY <1>2, <1>3, <1>4 DEF AccountInv, TypeOKAccounts
  <2> QED BY <1>3, <2>1, <2>2 DEF AccountInv
<1>5. CASE picked = name /\ user' = [user EXCEPT ![name].status = "approved"]
  <2>1. name \in Users /\ user[name] \in UserRows
    BY <1>5 DEF AccountInv, TypeOKAccounts, IsAdmin, Exists
  <2>2. /\ user'[name] \in UserRows /\ user'[name].artist = user[name].artist
        /\ user'[name].status = "approved" /\ user'[name].role = user[name].role
        /\ \A v \in Users \ {name} : user'[v] = user[v]
    BY <1>5, <2>1 DEF AccountInv, TypeOKAccounts, UserRows
  <2>3. TypeOKAccounts'
    BY <1>2, <1>3, <1>5, <2>1, <2>2 DEF AccountInv, TypeOKAccounts
  <2>4. LinkInv'
    BY <1>2, <2>1, <2>2, RowsAreNotNone, LinksKept DEF AccountInv, LinkInv, UsedExists
  <2>5. SomeAdminRemains'
    BY <2>2, RowsAreNotNone
       DEF AccountInv, SomeAdminRemains, ApprovedAdmins, Approved, IsAdmin, Exists
  <2> QED BY <1>3, <2>3, <2>4, <2>5 DEF AccountInv
<1> QED BY <1>1, <1>4, <1>5

(* Theorems *)

LEMMA AccountsStep == AccountInv /\ [NextAccounts]_accountVars => AccountInv'
<1> SUFFICES ASSUME AccountInv, [NextAccounts]_accountVars PROVE AccountInv'
  OBVIOUS
<1>1. ASSUME NEW u \in Users, NEW a \in Artists,
             RegisterExisting(u, a) \/ RegisterNew(u, a)
      PROVE  AccountInv'
  BY <1>1, RegisterStep
<1>2. ASSUME NEW q \in Requests,
             \/ Grant(q)
             \/ Approve(q) \/ Reject(q) \/ Deactivate(q) \/ Activate(q) \/ Unbind(q)
             \/ \E role \in {"artist", "agent"} : ChangeRole(q, role)
             \/ \E value \in BOOLEAN : ChangeSetting(q, value)
             \/ UseArtist(q)
      PROVE  AccountInv'
  BY <1>2, GrantStep, ApproveStep, RejectStep, DeactivateStep, ActivateStep,
     UnbindStep, ChangeRoleStep, ChangeSettingStep, UseArtistStep
<1>3. ASSUME NEW name \in FirstAdmins \cup {None}, NEW update \in BOOLEAN,
             RestartApi(name, update)
      PROVE  AccountInv'
  BY <1>3, RestartStep
<1>4. CASE UNCHANGED accountVars
  <2>1. LinkInv' /\ SomeAdminRemains'
    BY <1>4, RowsUnchanged DEF AccountInv, accountVars
  <2>2. TypeOKAccounts' /\ IsFiniteSet(ready')
    BY <1>4 DEF AccountInv, TypeOKAccounts, accountVars, rows
  <2> QED BY <2>1, <2>2 DEF AccountInv
<1> QED BY <1>1, <1>2, <1>3, <1>4 DEF NextAccounts

\* Every variable keeps its type: no account stays rejected, and the requests
\* that were authorised and wait for their handler are bounded.
THEOREM AccountTypes == SpecAccounts => []TypeOKAccounts
<1>1. AccountInv => TypeOKAccounts
  BY DEF AccountInv
<1> QED BY <1>1, AccountsBegin, AccountsStep, PTL DEF SpecAccounts

\* An artist is held or claimed by one account at most, in whatever order
\* registrations, decisions and reactivations come (app/admin/users.py).
THEOREM OneHolder == SpecAccounts => []OneHolderPerArtist
<1>1. AccountInv => OneHolderPerArtist
  BY LinksAreEnough DEF AccountInv
<1> QED BY <1>1, AccountsBegin, AccountsStep, PTL DEF SpecAccounts

\* The artist of an account is the one of its approved claim, and an approved
\* claim is that of an account with the artist (app/admin/users.py).
THEOREM ClaimsMatch == SpecAccounts => []AccountMatchesClaim
<1>1. AccountInv => AccountMatchesClaim
  BY MatchedIsEnough DEF AccountInv, LinkInv
<1> QED BY <1>1, AccountsBegin, AccountsStep, PTL DEF SpecAccounts

\* The profile that a rejection deletes is referred to by nothing
\* (app/admin/users.py, _delete_safe_user_created_artist).
THEOREM References == SpecAccounts => []ReferencesAreKept
<1>1. AccountInv => ReferencesAreKept
  BY BackedIsEnough DEF AccountInv
<1> QED BY <1>1, AccountsBegin, AccountsStep, PTL DEF SpecAccounts

\* There is an approved admin after any number of deactivations, each of which
\* may have been authorised before another one (app/admin/users.py).
THEOREM AdminRemains == SpecAccounts => []SomeAdminRemains
<1>1. AccountInv => SomeAdminRemains
  BY DEF AccountInv
<1> QED BY <1>1, AccountsBegin, AccountsStep, PTL DEF SpecAccounts

(* The refinement of Ownership *)

Holders == [a \in Artists |-> Claimants(a)]
Linked == {a \in Artists : \E u \in Users : Exists(u) /\ user[u].artist = a}
Approvals == {a \in Artists : \E u \in Users :
                 claim[u] # None /\ claim[u].artist = a /\ claim[u].status = "approved"}
Deleted == {a \in Artists : artist[a] = "deleted"}

\* A step as the owners see it, claims standing for the links of accounts.
OwnersStep ==
    LET h == Holders  h2 == Holders'  o == Approvals  o2 == Approvals' IN
    \/ h2 = h /\ o2 = o /\ used' = used /\ Deleted' = Deleted
    \/ \E a \in Artists :
          \/ \E u \in Users :
                /\ h[a] = {} /\ a \notin Deleted /\ \A b \in Artists : u \notin h[b]
                /\ h2 = [h EXCEPT ![a] = {u}] /\ o2 \in {o, o \cup {a}}
                /\ used' = used /\ Deleted' = Deleted
          \/ /\ h[a] # {} /\ o2 = o \cup {a}
             /\ h2 = h /\ used' = used /\ Deleted' = Deleted
          \/ /\ h[a] # {} /\ a \notin o /\ h2 = [h EXCEPT ![a] = {}]
             /\ Deleted' \in {Deleted} \cup {Deleted \cup {b} : b \in {a} \ used}
             /\ o2 = o /\ used' = used
          \/ /\ a \in o /\ h2 = [h EXCEPT ![a] = {}] /\ o2 = o \ {a}
             /\ used' = used /\ Deleted' = Deleted
          \/ /\ a \notin Deleted /\ used' = used \cup {a}
             /\ h2 = h /\ o2 = o /\ Deleted' = Deleted

\* An artist is linked to an account exactly if a claim to it is approved.
LEMMA LinkedIsApproved == ASSUME Matched PROVE Linked = Approvals
<1>1. ASSUME NEW a \in Artists, NEW u \in Users, Exists(u), user[u].artist = a
      PROVE  claim[u] # None /\ claim[u].artist = a /\ claim[u].status = "approved"
  BY <1>1, RowsAreNotNone DEF Matched
<1>2. ASSUME NEW a \in Artists, NEW u \in Users,
             claim[u] # None, claim[u].artist = a, claim[u].status = "approved"
      PROVE  Exists(u) /\ user[u].artist = a
  BY <1>2 DEF Matched
<1> QED BY <1>1, <1>2 DEF Linked, Approvals

LEMMA LinkedIsApprovedAfter == Matched' => Linked' = Approvals'
<1> SUFFICES ASSUME Matched' PROVE Linked' = Approvals'
  OBVIOUS
<1>1. ASSUME NEW a \in Artists, NEW u \in Users, user'[u] # None, user'[u].artist = a
      PROVE  claim'[u] # None /\ claim'[u].artist = a /\ claim'[u].status = "approved"
  BY <1>1, RowsAreNotNone DEF Matched, Exists
<1>2. ASSUME NEW a \in Artists, NEW u \in Users,
             claim'[u] # None, claim'[u].artist = a, claim'[u].status = "approved"
      PROVE  user'[u] # None /\ user'[u].artist = a
  BY <1>2 DEF Matched, Exists
<1> QED BY <1>1, <1>2 DEF Linked, Approvals, Exists

\* Only the user who claims an artist is its holder.
LEMMA HeldByOne ==
  ASSUME AccountInv, NEW u \in Users, claim[u] # None
  PROVE  claim[u] \in ClaimRows /\ claim[u].artist \in Artists
         /\ Claimants(claim[u].artist) = {u}
  BY DEF AccountInv, TypeOKAccounts, ClaimRows, LinkInv, ClaimsAreExclusive, Claimants

\* The claim of one user is all that changes.
LEMMA ClaimGoes ==
  ASSUME AccountInv, NEW u \in Users, claim[u] # None, claim' = [claim EXCEPT ![u] = None]
  PROVE  LET a == claim[u].artist IN
         /\ a \in Artists /\ Holders[a] # {} /\ Holders' = [Holders EXCEPT ![a] = {}]
         /\ Approvals' = Approvals \ {a}
         /\ a \in Approvals <=> claim[u].status = "approved"
<1> DEFINE a == claim[u].artist
<1>1. /\ claim'[u] = None /\ \A v \in Users \ {u} : claim'[v] = claim[v]
      /\ a \in Artists /\ \A v \in Users : claim[v] # None /\ claim[v].artist = a <=> v = u
  BY HeldByOne DEF AccountInv, TypeOKAccounts, Claimants
<1>2. \A b \in Artists : Claimants(b)' = IF b = a THEN {} ELSE Claimants(b)
  BY <1>1 DEF Claimants
<1>3. Holders' = [Holders EXCEPT ![a] = {}] /\ Holders[a] # {}
  BY <1>1, <1>2, HeldByOne DEF Holders
<1>4. Approvals' = Approvals \ {a} /\ (a \in Approvals <=> claim[u].status = "approved")
  BY <1>1 DEF Approvals
<1> QED BY <1>1, <1>3, <1>4

LEMMA OwnersByRegistration ==
  ASSUME AccountInv, NEW u \in Users, NEW a \in Artists,
         RegisterExisting(u, a) \/ RegisterNew(u, a)
  PROVE  OwnersStep
<1> DEFINE st == IF auto THEN "approved" ELSE "pending"
<1>1. /\ ~Exists(u) /\ used' = used
      /\ claim' = [claim EXCEPT ![u] = [artist |-> a, status |-> st]]
  BY DEF RegisterExisting, RegisterNew, RegisterAs
<1>2. /\ claim[u] = None /\ claim'[u] # None /\ claim'[u].artist = a /\ claim'[u].status = st
      /\ \A v \in Users \ {u} : claim'[v] = claim[v]
  <2>1. [artist |-> a, status |-> st] \in ClaimRows
    BY DEF ClaimRows
  <2> QED BY <1>1, <2>1, RowsAreNotNone
        DEF AccountInv, TypeOKAccounts, LinkInv, ClaimsAreBacked
<1>3. /\ \A v \in Users : ~(claim[v] # None /\ claim[v].artist = a)
      /\ artist[a] # "deleted" /\ Deleted' = Deleted
  <2>1. CASE RegisterExisting(u, a)
    BY <2>1 DEF RegisterExisting, MayClaim, Claimants, ArtistExists, Deleted
  <2>2. CASE RegisterNew(u, a)
    BY <2>2 DEF RegisterNew, AccountInv, TypeOKAccounts, LinkInv, ClaimsAreBacked, ArtistExists,
               Deleted
  <2> QED BY <2>1, <2>2
<1>4. \A b \in Artists : Claimants(b)' = IF b = a THEN {u} ELSE Claimants(b)
  BY <1>2, <1>3 DEF Claimants
<1>5. /\ Holders' = [Holders EXCEPT ![a] = {u}] /\ Holders[a] = {}
      /\ \A b \in Artists : u \notin Holders[b]
  BY <1>2, <1>3, <1>4 DEF Holders, Claimants
<1>6. Approvals' \in {Approvals, Approvals \cup {a}}
  <2>1. Approvals' = IF st = "approved" THEN Approvals \cup {a} ELSE Approvals
    BY <1>2, <1>3 DEF Approvals
  <2> QED BY <2>1
<1>7. a \notin Deleted
  BY <1>3 DEF Deleted
<1> QED BY <1>1, <1>3, <1>5, <1>6, <1>7 DEF OwnersStep

LEMMA OwnersByApproval == ASSUME AccountInv, NEW q \in Requests, Approve(q) PROVE OwnersStep
<1> DEFINE u == q.on
           a == PendingArtist(u)
<1>1. UNCHANGED <<artist, used>> /\ u \in Users
  BY DEF Approve, Handles, Requests
<1>2. CASE UNCHANGED claim
  BY <1>1, <1>2 DEF OwnersStep, Holders, Approvals, Deleted, Claimants
<1>3. CASE a # None /\ claim' = [claim EXCEPT ![u].status = "approved"]
  <2>1. claim[u] # None /\ a = claim[u].artist
    BY <1>3 DEF PendingArtist
  <2>2. a \in Artists /\ Claimants(a) = {u} /\ claim[u] \in ClaimRows
    BY <1>1, <2>1, HeldByOne
  <2>3. /\ claim'[u] # None /\ claim'[u].artist = a /\ claim'[u].status = "approved"
        /\ \A v \in Users \ {u} : claim'[v] = claim[v]
    <3>1. claim'[u] = [claim[u] EXCEPT !.status = "approved"] /\ claim'[u] \in ClaimRows
      BY <1>1, <1>3, <2>2 DEF AccountInv, TypeOKAccounts, ClaimRows
    <3>2. claim'[u].artist = a /\ claim'[u].status = "approved"
      BY <3>1, <2>1, <2>2 DEF ClaimRows
    <3> QED BY <1>3, <3>1, <3>2, RowsAreNotNone DEF AccountInv, TypeOKAccounts
  <2>4. \A b \in Artists : Claimants(b)' = Claimants(b)
    BY <2>1, <2>3 DEF Claimants
  <2>5. Holders' = Holders /\ Holders[a] # {}
    BY <2>2, <2>4 DEF Holders
  <2>6. Approvals' = Approvals \cup {a}
    BY <1>1, <2>1, <2>2, <2>3 DEF Approvals
  <2> QED BY <1>1, <2>2, <2>5, <2>6 DEF OwnersStep, Deleted
<1> QED BY <1>2, <1>3 DEF Approve

LEMMA OwnersByRejection == ASSUME AccountInv, NEW q \in Requests, Reject(q) PROVE OwnersStep
<1> DEFINE u == q.on
           a == PendingArtist(u)
<1>1. used' = used /\ u \in Users
  BY DEF Reject, Handles, Requests
<1>2. CASE UNCHANGED <<user, claim, artist>>
  BY <1>1, <1>2 DEF OwnersStep, Holders, Approvals, Deleted, Claimants
<1>3. CASE /\ a # None /\ claim' = [claim EXCEPT ![u] = None]
           /\ artist' = IF Deletable(a) /\ Assigned(a) \ {u} = {} /\ Claimants(a) \ {u} = {}
                        THEN [artist EXCEPT ![a] = "deleted"] ELSE artist
  <2>1. claim[u] # None /\ a = claim[u].artist /\ claim[u].status = "pending"
    BY <1>3 DEF PendingArtist
  <2>2. /\ a \in Artists /\ Holders[a] # {} /\ Holders' = [Holders EXCEPT ![a] = {}]
        /\ a \notin Approvals /\ Approvals' = Approvals
    <3>1. Approvals' = Approvals \ {a} /\ (a \in Approvals <=> claim[u].status = "approved")
      BY <1>1, <1>3, <2>1, ClaimGoes
    <3> QED BY <1>1, <1>3, <2>1, <3>1, ClaimGoes
  <2>3. Deleted' = Deleted \/ (a \notin used /\ Deleted' = Deleted \cup {a})
    BY <1>3, <2>2 DEF Deleted, Deletable, AccountInv, TypeOKAccounts
  <2> QED BY <1>1, <2>2, <2>3 DEF OwnersStep
<1> QED BY <1>2, <1>3 DEF Reject

LEMMA OwnersByUnbinding == ASSUME AccountInv, NEW q \in Requests, Unbind(q) PROVE OwnersStep
<1> DEFINE u == q.on
<1>1. UNCHANGED <<artist, used>> /\ u \in Users
  BY DEF Unbind, Handles, Requests
<1>2. CASE UNCHANGED claim
  BY <1>1, <1>2 DEF OwnersStep, Holders, Approvals, Deleted, Claimants
<1>3. CASE /\ Exists(u) /\ user[u].artist # None
           /\ claim' = [claim EXCEPT ![u] = IF @ # None /\ @.artist = user[u].artist
                                            THEN None ELSE @]
  <2>1. claim[u] # None /\ claim[u].artist = user[u].artist /\ claim[u].status = "approved"
    BY <1>1, <1>3 DEF AccountInv, LinkInv, Matched
  <2>2. claim' = [claim EXCEPT ![u] = None]
    BY <1>3, <2>1
  <2>3. LET a == claim[u].artist IN
        a \in Artists /\ Holders' = [Holders EXCEPT ![a] = {}]
        /\ a \in Approvals /\ Approvals' = Approvals \ {a}
    BY <1>1, <2>1, <2>2, ClaimGoes
  <2> QED BY <1>1, <2>3 DEF OwnersStep, Deleted
<1> QED BY <1>2, <1>3 DEF Unbind

LEMMA OwnersByUse == ASSUME AccountInv, NEW q \in Requests, UseArtist(q) PROVE OwnersStep
<1>1. UNCHANGED <<claim, artist>> /\ q.on \in Artists
  BY DEF UseArtist, Handles, Requests, AdminOps
<1>2. Holders' = Holders /\ Approvals' = Approvals /\ Deleted' = Deleted
  BY <1>1 DEF Holders, Approvals, Deleted, Claimants
<1>3. used' = used \/ (q.on \notin Deleted /\ used' = used \cup {q.on})
  BY DEF UseArtist, ArtistExists, Deleted
<1> QED BY <1>1, <1>2, <1>3 DEF OwnersStep

LEMMA OwnersSteps == AccountInv /\ [NextAccounts]_accountVars => OwnersStep
<1> SUFFICES ASSUME AccountInv, [NextAccounts]_accountVars PROVE OwnersStep
  OBVIOUS
<1>1. CASE UNCHANGED <<claim, artist, used>>
  BY <1>1 DEF OwnersStep, Holders, Approvals, Deleted, Claimants
<1>2. ASSUME NEW q \in Requests,
             Grant(q) \/ Deactivate(q) \/ Activate(q)
               \/ (\E role \in {"artist", "agent"} : ChangeRole(q, role))
               \/ \E value \in BOOLEAN : ChangeSetting(q, value)
      PROVE  UNCHANGED <<claim, artist, used>>
  BY <1>2 DEF Grant, Deactivate, Activate, ChangeRole, ChangeSetting, rows
<1>3. UNCHANGED accountVars => UNCHANGED <<claim, artist, used>>
  BY DEF accountVars, rows
<1>4. ASSUME NEW name, NEW update, RestartApi(name, update)
      PROVE  UNCHANGED <<claim, artist, used>>
  BY <1>4 DEF RestartApi
<1> QED BY <1>1, <1>2, <1>3, <1>4, OwnersByRegistration, OwnersByApproval, OwnersByRejection,
           OwnersByUnbinding, OwnersByUse DEF NextAccounts

\* Accounts implement the ownership of artists: whatever is decided about
\* accounts, each artist is taken, confirmed, withdrawn or given back by one step
\* at a time, claim and link together.
THEOREM AccountsAreOwnership == SpecAccounts => ImplementsOwnership
<1>1. InitAccounts => Owners!Init
  BY RowsAreNotNone DEF InitAccounts, Owners!Init, Claimants, Exists, Admin
<1>2. AccountInv /\ AccountInv' /\ [NextAccounts]_accountVars => [Owners!Next]_Owners!vars
  <2> SUFFICES ASSUME AccountInv, AccountInv', [NextAccounts]_accountVars
               PROVE  [Owners!Next]_Owners!vars
    OBVIOUS
  <2>1. Linked = Approvals /\ Linked' = Approvals'
    BY LinkedIsApproved, LinkedIsApprovedAfter DEF AccountInv, LinkInv
  <2>2. OwnersStep
    BY OwnersSteps
  <2> QED BY <2>1, <2>2
        DEF OwnersStep, Holders, Linked, Deleted, Owners!Next, Owners!vars, Owners!Take,
            Owners!Confirm, Owners!Withdraw, Owners!GiveBack, Owners!Refer
<1> QED BY <1>1, <1>2, AccountsBegin, AccountsStep, PTL
        DEF SpecAccounts, ImplementsOwnership, Owners!Spec

(***************************************************************************)
(* Signals to the tabs                                                     *)
(***************************************************************************)
Messages == Jobs \cup {Resync}
Numbers == 1..MaxRequests + MaxFaults + 1
ReadRows == [job : Jobs, request : 0..MaxRequests, got : Terminal \cup {"none"}]
ShownRows == [job : Jobs \cup {0}, request : 0..MaxRequests,
              outcome : {"loading", "error"} \cup Terminal]

\* TypeOK, and what it leaves open: the domains of the tabs' variables, the
\* fields of reads and answers, and that no tab has made more requests than
\* there were.
Typed ==
    /\ status \in [Jobs -> Statuses \cup {"none"}]
    /\ channel \in Seq(Jobs) /\ listener \in {"down", "listening", "up"}
    /\ listener = "down" => channel = <<>>
    /\ sending \in [msg : Messages, to : SUBSET Connections,
                    failed : SUBSET Connections]
    /\ sending.to = {} => sending = Idle
    /\ hub \subseteq Connections
    /\ conn \in [Tabs -> Numbers \cup {0}]
    /\ sock \in [Tabs -> {"none", "opening", "open"}]
    /\ wire \in [Tabs -> Seq(Messages)]
    /\ watched \in [Tabs -> Jobs \cup {0}]
    /\ request \in [Tabs -> 0..MaxRequests]
    /\ \A t \in Tabs : request[t] <= requests
    /\ shown \in [Tabs -> ShownRows] /\ reads \in [Tabs -> SUBSET ReadRows]
    /\ requests \in 0..MaxRequests /\ faults \in 0..MaxFaults

\* A connection that lives is the last one of its tab and registered, and no
\* send over it has failed; a tab without a socket has no connection.
Connected ==
    /\ live \subseteq hub \ sending.failed
    /\ \A c \in live : c[2] = conn[c[1]]
    /\ \A t \in Tabs : sock[t] = "none" => conn[t] = 0 /\ wire[t] = <<>>

Holds(s, m) == \E i \in DOMAIN s : s[i] = m

\* What SignalIsUnderWay promises to a tab that waits for a decided job.
Told(t) ==
    \/ \E r \in reads[t] : IsCurrent(t, r)
    \/ sock[t] # "open" \/ Last(t) \notin live
    \/ \E m \in {Resync, watched[t]} : Holds(wire[t], m)
    \/ Last(t) \in sending.to /\ sending.msg \in {Resync, watched[t]}
    \/ Holds(channel, watched[t])
    \/ listener # "up"

Waits(t) == watched[t] # 0 /\ status[watched[t]] \in Terminal
EventsInv == Typed /\ Connected /\ SignalIsUnderWay /\ ShownIsLatest

-----------------------------------------------------------------------------
LEMMA Resyncs == Jobs \subseteq Nat \ {0} /\ Messages \subseteq Nat /\ Resync \notin Jobs
  BY JobEventsAssumption DEF Jobs, Messages, Resync

LEMMA Bounds == MaxJobs \in Nat /\ MaxRequests \in Nat /\ MaxFaults \in Nat
  BY JobEventsAssumption

LEMMA Signals == SignalIsUnderWay <=> \A t \in Tabs : Waits(t) => Told(t)
  BY DEF SignalIsUnderWay, Waits, Told, Holds

\* What is appended to a sequence is in it, beside what was there.
LEMMA Appended ==
  ASSUME NEW S, NEW s \in Seq(S), NEW e \in S
  PROVE  /\ Append(s, e) \in Seq(S) /\ Holds(Append(s, e), e)
         /\ \A m : Holds(s, m) => Holds(Append(s, e), m)
<1>1. Append(s, e) \in Seq(S) /\ Len(Append(s, e)) = Len(s) + 1
      /\ Len(s) \in Nat /\ Append(s, e)[Len(s) + 1] = e
      /\ \A i \in 1..Len(s) : Append(s, e)[i] = s[i]
  OBVIOUS
<1>2. DOMAIN s = 1..Len(s) /\ DOMAIN Append(s, e) = 1..Len(s) + 1
  BY <1>1
<1> QED BY <1>1, <1>2 DEF Holds

\* A sequence holds its head and what its tail holds.
LEMMA HeadOrTail ==
  ASSUME NEW S, NEW s \in Seq(S), s # <<>>
  PROVE  /\ Head(s) \in S /\ Tail(s) \in Seq(S)
         /\ \A m : Holds(s, m) => m = Head(s) \/ Holds(Tail(s), m)
<1>1. Len(s) \in Nat /\ Len(s) > 0 /\ Head(s) = s[1] /\ Head(s) \in S
      /\ Tail(s) \in Seq(S) /\ Len(Tail(s)) = Len(s) - 1
      /\ \A i \in 1..Len(s) - 1 : Tail(s)[i] = s[i + 1]
  OBVIOUS
<1>2. DOMAIN s = 1..Len(s) /\ DOMAIN Tail(s) = 1..Len(s) - 1
  BY <1>1
<1>3. ASSUME NEW i \in 1..Len(s), i # 1
      PROVE  i - 1 \in DOMAIN Tail(s) /\ Tail(s)[i - 1] = s[i]
  BY <1>1, <1>2, <1>3
<1> QED BY <1>1, <1>2, <1>3 DEF Holds

\* A tab of which nothing gets lost stays told.
LEMMA StaysTold ==
  ASSUME NEW t \in Tabs, Told(t),
         watched'[t] = watched[t], request'[t] = request[t], conn'[t] = conn[t],
         \A r \in reads[t] : IsCurrent(t, r) => r \in reads'[t],
         sock[t] # "open" => sock'[t] # "open",
         Last(t) \in live' => Last(t) \in live,
         \A m : Holds(wire[t], m) => Holds(wire'[t], m),
         Last(t) \in sending.to /\ Last(t) \in live
            => \/ Last(t) \in sending'.to /\ sending'.msg = sending.msg
               \/ Holds(wire'[t], sending.msg),
         \A m : Holds(channel, m) => Holds(channel', m) \/ listener' # "up",
         listener # "up" => listener' # "up"
  PROVE  Told(t)'
  BY DEF Told, IsCurrent, Last

-----------------------------------------------------------------------------
LEMMA InitInv == Init => EventsInv
<1> SUFFICES ASSUME Init PROVE EventsInv
  OBVIOUS
<1>1. Typed
  BY Bounds DEF Init, Typed, Statuses, Terminal, Idle, Blank, Messages, Numbers,
     ReadRows, ShownRows, Connections
<1>2. Connected
  BY DEF Init, Connected, Idle
<1>3. SignalIsUnderWay /\ ShownIsLatest
  BY DEF Init, SignalIsUnderWay, ShownIsLatest, Blank
<1> QED BY <1>1, <1>2, <1>3 DEF EventsInv

\* A commit changes one row and tells the listener's session, if there is one.
LEMMA Commits ==
  ASSUME Typed, NEW j \in Jobs, NEW s \in Statuses, Commit(j, s)
  PROVE  /\ status' \in [Jobs -> Statuses \cup {"none"}]
         /\ \A i \in Jobs : i # j => status'[i] = status[i]
         /\ channel' \in Seq(Jobs) /\ (listener' = "down" => channel' = <<>>)
         /\ \A m : Holds(channel, m) => Holds(channel', m)
         /\ listener' # "up" \/ Holds(channel', j)
<1>1. listener' = listener /\ status' = [status EXCEPT ![j] = s]
      /\ channel' = IF listener = "down" THEN channel ELSE Append(channel, j)
  BY DEF Commit
<1>2. channel \in Seq(Jobs) /\ status \in [Jobs -> Statuses \cup {"none"}]
      /\ (listener = "down" => channel = <<>>)
  BY DEF Typed
<1>3. /\ Append(channel, j) \in Seq(Jobs) /\ Holds(Append(channel, j), j)
      /\ \A m : Holds(channel, m) => Holds(Append(channel, j), m)
  BY <1>2, Appended
<1> QED BY <1>1, <1>2, <1>3

-----------------------------------------------------------------------------
(* The types *)

LEMMA TypedByJobs ==
  ASSUME Typed, NEW j \in Jobs, Claimed(j) \/ Decided(j) \/ Invalidated(j) \/ Requeued(j)
  PROVE  Typed'
<1>1. PICK s \in Statuses : Commit(j, s)
  BY DEF Claimed, Decided, Invalidated, Requeued, Statuses
<1>2. faults' \in 0..MaxFaults
  BY Bounds DEF Claimed, Decided, Invalidated, Requeued, Fault, Typed
<1>3. UNCHANGED <<listener, sending, hub, tabVars, requests>>
  BY DEF Claimed, Decided, Invalidated, Requeued, Commit
<1> QED BY <1>1, <1>2, <1>3, Commits DEF Typed, tabVars

\* What a step of the sender does for the connection it serves.
Served(c) ==
    /\ wire' = IF c \in live THEN [wire EXCEPT ![c[1]] = Append(@, sending.msg)]
               ELSE wire
    /\ \/ sending' = Idle /\ sending.to = {c}
       \/ /\ sending' = [sending EXCEPT !.to = @ \ {c}, !.failed = sending'.failed]
          /\ sending.to # {c}
    /\ sending'.failed \subseteq sending.failed \cup ({c} \ live)
    /\ hub' \subseteq hub /\ hub \ hub' \subseteq sending.failed \cup ({c} \ live)
    /\ UNCHANGED <<status, channel, listener, live, conn, sock, watched, request,
                   shown, reads, requests, faults>>

LEMMA Serves ==
  ASSUME Typed, SendOne
  PROVE  \E c \in sending.to : Served(c)
<1>1. PICK c \in sending.to, fails \in {TRUE, FALSE} :
        LET to == sending.to \ {c}
            failed == IF fails THEN sending.failed \cup {c} ELSE sending.failed
        IN  /\ fails => c \notin live
            /\ wire' = IF c \in live THEN [wire EXCEPT ![c[1]] = Append(@, sending.msg)]
                       ELSE wire
            /\ \/ /\ to # {} /\ sending' = [sending EXCEPT !.to = to, !.failed = failed]
                  /\ UNCHANGED hub
               \/ /\ to = {} /\ sending' = Idle
                  /\ hub' = hub \ UNION {Remove(f) : f \in failed}
            /\ UNCHANGED <<status, channel, listener, live, conn, sock, watched,
                           request, shown, reads, requests, faults>>
  BY DEF SendOne
<1> DEFINE failed == IF fails THEN sending.failed \cup {c} ELSE sending.failed
<1>2. UNION {Remove(f) : f \in failed} = failed
  BY DEF Remove
<1>3. failed \subseteq sending.failed \cup ({c} \ live)
  BY <1>1
<1>4. sending.failed \subseteq failed
  OBVIOUS
<1>5. CASE sending.to # {c}
  <2>1. sending' = [sending EXCEPT !.to = @ \ {c}, !.failed = failed] /\ hub' = hub
    BY <1>1, <1>5
  <2>2. sending'.failed = failed
    BY <2>1 DEF Typed
  <2> QED BY <1>1, <1>3, <1>5, <2>1, <2>2, ZenonT(40) DEF Served
<1>6. CASE sending.to = {c}
  <2>1. sending' = Idle /\ hub' = hub \ failed
    BY <1>1, <1>2, <1>6
  <2> QED BY <1>1, <1>3, <1>6, <2>1 DEF Served, Idle
<1> QED BY <1>5, <1>6

LEMMA TypedByApi ==
  ASSUME Typed, \/ Api \/ ListenerFails \/ Restart
                \/ \E c \in Connections : Disconnected(c)
  PROVE  Typed'
<1> USE DEF Typed, tabVars
<1>1. ASSUME NEW m \in Messages, Send(m), Quiet
      PROVE  /\ sending' \in [msg : Messages, to : SUBSET Connections,
                              failed : SUBSET Connections]
             /\ (sending.to = {} => sending = Idle)'
  BY <1>1 DEF Send, Idle, Messages
<1>2. Resync \in Messages /\ Jobs \subseteq Messages
  BY DEF Messages
<1>3. CASE Listen
  BY <1>1, <1>2, <1>3 DEF Listen
<1>4. CASE Notified
  <2>1. Head(channel) \in Jobs /\ Tail(channel) \in Seq(Jobs)
    BY <1>4, HeadOrTail DEF Notified
  <2> QED BY <1>1, <1>2, <1>4, <2>1 DEF Notified
<1>5. CASE SendOne
  <2>1. PICK c \in sending.to : Served(c)
    BY <1>5, Serves
  <2>2. c \in Connections /\ c[1] \in Tabs
    BY DEF Connections
  <2>3. wire' \in [Tabs -> Seq(Messages)]
    BY <2>1, <2>2, Appended DEF Served
  <2>4. CASE sending' = Idle
    BY <2>1, <2>3, <2>4 DEF Served, Idle, Messages
  <2>5. CASE sending' # Idle
    <3>1. /\ sending' = [sending EXCEPT !.to = @ \ {c}, !.failed = sending'.failed]
          /\ sending.to # {c} /\ sending'.failed \subseteq sending.failed \cup {c}
      BY <2>1, <2>5 DEF Served
    <3>2. /\ sending' \in [msg : Messages, to : SUBSET Connections,
                           failed : SUBSET Connections]
          /\ sending'.to # {}
      <4>1. sending'.failed \in SUBSET Connections /\ sending.to \ {c} # {}
        BY <2>2, <3>1
      <4> QED BY <3>1, <4>1
    <3> QED BY <2>1, <2>3, <3>2 DEF Served
  <2> QED BY <2>4, <2>5
<1>6. CASE ListenerFails
  BY <1>6, Bounds DEF ListenerFails, Fault
<1>7. CASE Restart
  BY <1>7, Bounds DEF Restart, Fault, Idle, Messages
<1>8. CASE \E c \in Connections : Disconnected(c)
  BY <1>8 DEF Disconnected
<1> QED BY <1>3, <1>4, <1>5, <1>6, <1>7, <1>8 DEF Api

LEMMA Finished ==
  ASSUME Typed, NEW t \in Tabs, NEW o \in ShownRows, Show(t, o)
  PROVE  /\ watched' \in [Tabs -> Jobs \cup {0}] /\ shown' \in [Tabs -> ShownRows]
         /\ conn' \in [Tabs -> Numbers \cup {0}] /\ wire' \in [Tabs -> Seq(Messages)]
         /\ sock' \in [Tabs -> {"none", "opening", "open"}]
<1>1. <<>> \in Seq(Messages)
  OBVIOUS
<1> QED BY <1>1 DEF Typed, Show, NoSocket

LEMMA TypedByTab ==
  ASSUME Typed, Connected, NEW t \in Tabs,
         Ask(t) \/ Tab(t) \/ ReadFails(t) \/ SocketBreaks(t)
  PROVE  Typed'
<1> USE DEF Typed
<1>1. watched[t] # 0 => Reading(t) \in ReadRows
  BY DEF Reading, ReadRows
<1>2. CASE Ask(t)
  <2>1. PICK j \in Jobs :
          /\ \/ UNCHANGED <<status, apiVars, live>>
             \/ Commit(j, "queued")
          /\ watched' = [watched EXCEPT ![t] = j]
          /\ request' = [request EXCEPT ![t] = @ + 1]
          /\ shown' = [shown EXCEPT ![t] = [Blank EXCEPT !.job = j, !.request = request'[t]]]
          /\ reads' = [reads EXCEPT ![t] =
                @ \cup {[job |-> j, request |-> request'[t], got |-> "none"]}]
    BY <1>2 DEF Ask
  <2>2. /\ requests' = requests + 1 /\ requests' \in 0..MaxRequests
        /\ UNCHANGED <<conn, sock, wire, faults>>
    <3>1. /\ requests < MaxRequests /\ requests' = requests + 1
          /\ UNCHANGED <<conn, sock, wire, faults>>
      BY <1>2 DEF Ask
    <3> QED BY <3>1, Bounds
  <2>3. /\ request' \in [Tabs -> 0..MaxRequests]
        /\ \A u \in Tabs : request'[u] <= requests'
    BY <2>1, <2>2, Bounds
  <2>4. /\ [Blank EXCEPT !.job = j, !.request = request'[t]] \in ShownRows
        /\ [job |-> j, request |-> request'[t], got |-> "none"] \in ReadRows
    BY <2>3 DEF ShownRows, ReadRows, Blank
  <2>7. shown' \in [Tabs -> ShownRows] /\ reads' \in [Tabs -> SUBSET ReadRows]
    BY <2>1, <2>4
  <2>5. /\ status' \in [Jobs -> Statuses \cup {"none"}] /\ channel' \in Seq(Jobs)
        /\ (listener = "down" => channel = <<>>)'
    BY <2>1, Commits DEF apiVars, Statuses
  <2>6. UNCHANGED <<listener, sending, hub>>
    BY <2>1 DEF Commit, apiVars
  <2> QED BY <2>1, <2>2, <2>3, <2>5, <2>6, <2>7
<1>3. CASE Connect(t)
  BY <1>3 DEF Connect, New, Connections, Numbers
<1>4. CASE Opened(t)
  BY <1>1, <1>4 DEF Opened, Read, apiVars
<1>5. CASE Signalled(t)
  <2>1. Tail(wire[t]) \in Seq(Messages)
    BY <1>5, HeadOrTail DEF Signalled
  <2>2. reads' \in [Tabs -> SUBSET ReadRows]
    <3>1. CASE UNCHANGED reads
      BY <3>1
    <3>2. CASE Read(t)
      BY <1>1, <3>2 DEF Read
    <3> QED BY <1>5, <3>1, <3>2 DEF Signalled
  <2>3. wire' \in [Tabs -> Seq(Messages)]
    BY <1>5, <2>1 DEF Signalled
  <2>4. UNCHANGED <<status, apiVars, conn, sock, watched, request, shown, requests, faults>>
    BY <1>5 DEF Signalled
  <2> QED BY <2>2, <2>3, <2>4 DEF apiVars
<1>6. CASE Closed(t)
  BY <1>6 DEF Closed, NoSocket, apiVars
<1>7. CASE Answered(t)
  <2>1. PICK r \in reads[t] :
          reads' = [reads EXCEPT ![t] =
                (@ \ {r}) \cup IF status[r.job] \in Terminal
                               THEN {[r EXCEPT !.got = status[r.job]]} ELSE {}]
    BY <1>7 DEF Answered
  <2>2. r \in ReadRows
    OBVIOUS
  <2>3. status[r.job] \in Terminal => [r EXCEPT !.got = status[r.job]] \in ReadRows
    BY <2>2 DEF ReadRows
  <2> QED BY <1>7, <2>1, <2>3 DEF Answered, apiVars
<1>8. CASE Applied(t)
  <2>1. PICK r \in reads[t] :
        /\ r.got # "none" /\ reads' = [reads EXCEPT ![t] = @ \ {r}]
        /\ \/ Show(t, [job |-> r.job, request |-> r.request, outcome |-> r.got])
           \/ UNCHANGED <<watched, shown, live, conn, sock, wire>>
    BY <1>8 DEF Applied
  <2>2. [job |-> r.job, request |-> r.request, outcome |-> r.got] \in ShownRows
    BY <2>1 DEF ReadRows, ShownRows
  <2>3. UNCHANGED <<status, apiVars, request, requests, faults>>
    BY <1>8 DEF Applied
  <2>4. reads' \in [Tabs -> SUBSET ReadRows]
    BY <2>1
  <2> QED BY <2>1, <2>2, <2>3, <2>4, Finished DEF apiVars
<1>9. CASE ReadFails(t)
  <2>1. PICK r \in reads[t] :
        /\ reads' = [reads EXCEPT ![t] = @ \ {r}]
        /\ \/ Show(t, [shown[t] EXCEPT !.outcome = "error"])
           \/ UNCHANGED <<watched, shown, live, conn, sock, wire>>
    BY <1>9 DEF ReadFails
  <2>2. [shown[t] EXCEPT !.outcome = "error"] \in ShownRows
    <3>1. shown[t] \in ShownRows
      OBVIOUS
    <3>2. \A v \in ShownRows : [v EXCEPT !.outcome = "error"] \in ShownRows
      BY DEF ShownRows
    <3> QED BY <3>1, <3>2
  <2>3. faults' \in 0..MaxFaults
    BY <1>9, Bounds DEF ReadFails, Fault
  <2>4. UNCHANGED <<status, apiVars, request, requests>>
    BY <1>9 DEF ReadFails
  <2>5. reads' \in [Tabs -> SUBSET ReadRows]
    BY <2>1
  <2> QED BY <2>1, <2>2, <2>3, <2>4, <2>5, Finished DEF apiVars
<1>10. CASE SocketBreaks(t)
  BY <1>10, Bounds DEF SocketBreaks, Fault, apiVars, tabVars
<1> QED BY <1>2, <1>3, <1>4, <1>5, <1>6, <1>7, <1>8, <1>9, <1>10 DEF Tab

LEMMA TypedStep == Typed /\ Connected /\ [Next]_vars => Typed'
<1> SUFFICES ASSUME Typed, Connected, [Next]_vars PROVE Typed'
  OBVIOUS
<1>1. CASE UNCHANGED vars
  BY <1>1 DEF Typed, vars, apiVars, tabVars
<1>2. CASE Next
  BY <1>2, TypedByJobs, TypedByApi, TypedByTab DEF Next
<1> QED BY <1>1, <1>2

-----------------------------------------------------------------------------
(* Connections *)

LEMMA ConnectedByApi ==
  ASSUME Typed, Connected,
         \/ \E j \in Jobs : Claimed(j) \/ Decided(j) \/ Invalidated(j) \/ Requeued(j)
         \/ Api \/ ListenerFails \/ Restart
         \/ \E c \in Connections : Disconnected(c)
  PROVE  Connected'
<1> USE DEF Connected, apiVars, tabVars
<1>1. CASE \E j \in Jobs : Claimed(j) \/ Decided(j) \/ Invalidated(j) \/ Requeued(j)
  BY <1>1 DEF Claimed, Decided, Invalidated, Requeued, Commit
<1>2. ASSUME NEW m, Send(m) PROVE sending'.failed = {}
  BY <1>2 DEF Send, Idle
<1>3. CASE Listen
  BY <1>2, <1>3 DEF Listen
<1>4. CASE Notified
  BY <1>2, <1>4 DEF Notified
<1>5. CASE SendOne
  <2>1. PICK c \in sending.to : Served(c)
    BY <1>5, Serves
  <2>2. live' = live /\ sock' = sock /\ conn' = conn /\ live \cap {c} \cap ({c} \ live) = {}
    BY <2>1 DEF Served
  <2>3. live \subseteq hub' \ sending'.failed
    BY <2>1 DEF Served
  <2>4. c \in live => c[1] \in Tabs /\ c[2] \in Numbers /\ conn[c[1]] = c[2]
    BY DEF Connections, Numbers, Typed
  <2>5. ASSUME NEW t \in Tabs, sock[t] = "none"
        PROVE  wire'[t] = wire[t]
    <3>1. 0 \notin Numbers
      BY Bounds DEF Numbers
    <3>2. c \in live => c[1] # t
      BY <2>4, <2>5, <3>1
    <3> QED BY <2>1, <3>2 DEF Served, Typed
  <2> QED BY <2>2, <2>3, <2>5
<1>6. CASE ListenerFails \/ Restart
  BY <1>6 DEF ListenerFails, Restart, Idle
<1>7. CASE \E c \in Connections : Disconnected(c)
  BY <1>7 DEF Disconnected, Remove
<1> QED BY <1>1, <1>3, <1>4, <1>5, <1>6, <1>7 DEF Api

\* A tab that lets go of its socket has no connection left.
LEMMA LetsGo ==
  ASSUME Typed, Connected, NEW t \in Tabs, NoSocket(t),
         hub' = hub, sending' = sending
  PROVE  Connected'
<1>1. ASSUME NEW c \in live' PROVE c \in live /\ c[1] # t
  <2>1. c \in live /\ c # Last(t) /\ c[2] = conn[c[1]] /\ c \in Connections
    BY <1>1 DEF NoSocket, Connected, Typed
  <2>2. c = <<c[1], c[2]>>
    BY <2>1 DEF Connections
  <2> QED BY <2>1, <2>2 DEF Last
<1> QED BY <1>1 DEF Connected, NoSocket, Typed

LEMMA ConnectedByTab ==
  ASSUME Typed, Connected, NEW t \in Tabs,
         Ask(t) \/ Tab(t) \/ ReadFails(t) \/ SocketBreaks(t)
  PROVE  Connected'
<1>1. CASE Ask(t)
  <2>1. UNCHANGED <<sending, hub, live, conn, sock, wire>>
    BY <1>1 DEF Ask, Commit, apiVars
  <2> QED BY <2>1 DEF Connected
<1>2. CASE Connect(t)
  <2>1. PICK n \in New(t) :
          /\ conn' = [conn EXCEPT ![t] = n]
          /\ hub' = hub \cup {<<t, n>>} /\ live' = live \cup {<<t, n>>}
    BY <1>2 DEF Connect
  <2>2. n \in Numbers /\ <<t, n>> \notin sending.failed
    BY DEF New, Numbers
  <2>3. \A c \in live : c[1] # t
    BY <1>2, Bounds DEF Connect, Connected, Typed, Connections
  <2>4. sock' = [sock EXCEPT ![t] = "opening"] /\ UNCHANGED <<sending, wire>>
    BY <1>2 DEF Connect
  <2>5. live' \subseteq hub' \ sending'.failed
    BY <2>1, <2>2, <2>4 DEF Connected
  <2>6. ASSUME NEW c \in live' PROVE c[2] = conn'[c[1]]
    <3>1. CASE c \in live
      <4>1. c[1] \in Tabs /\ c[1] # t
        BY <2>3, <3>1 DEF Connected, Typed, Connections
      <4> QED BY <2>1, <3>1, <4>1 DEF Connected, Typed
    <3>2. CASE c = <<t, n>>
      BY <2>1, <3>2 DEF Typed
    <3> QED BY <2>1, <2>6, <3>1, <3>2
  <2>7. \A u \in Tabs : (sock[u] = "none" => conn[u] = 0 /\ wire[u] = <<>>)'
    BY <2>1, <2>4 DEF Connected, Typed
  <2> QED BY <2>5, <2>6, <2>7 DEF Connected
<1>3. CASE Opened(t)
  BY <1>3 DEF Opened, Connected, apiVars, Typed
<1>4. CASE Signalled(t)
  BY <1>4 DEF Signalled, Connected, apiVars, Typed
<1>5. CASE Closed(t)
  BY <1>5, LetsGo DEF Closed, apiVars
<1>6. CASE Answered(t)
  BY <1>6 DEF Answered, Connected, apiVars
<1>7. CASE Applied(t)
  <2>1. NoSocket(t) \/ UNCHANGED <<live, conn, sock, wire>>
    BY <1>7 DEF Applied, Show
  <2>2. hub' = hub /\ sending' = sending
    BY <1>7 DEF Applied, apiVars
  <2> QED BY <2>1, <2>2, LetsGo DEF Connected
<1>8. CASE ReadFails(t)
  <2>1. NoSocket(t) \/ UNCHANGED <<live, conn, sock, wire>>
    BY <1>8 DEF ReadFails, Show
  <2>2. hub' = hub /\ sending' = sending
    BY <1>8 DEF ReadFails, apiVars
  <2> QED BY <2>1, <2>2, LetsGo DEF Connected
<1>9. CASE SocketBreaks(t)
  BY <1>9 DEF SocketBreaks, Connected, apiVars, tabVars
<1> QED BY <1>1, <1>2, <1>3, <1>4, <1>5, <1>6, <1>7, <1>8, <1>9 DEF Tab

LEMMA ConnectedStep == Typed /\ Connected /\ [Next]_vars => Connected'
<1> SUFFICES ASSUME Typed, Connected, [Next]_vars PROVE Connected'
  OBVIOUS
<1>1. CASE UNCHANGED vars
  BY <1>1 DEF Connected, vars, apiVars, tabVars
<1>2. CASE Next
  BY <1>2, ConnectedByApi, ConnectedByTab DEF Next
<1> QED BY <1>1, <1>2

-----------------------------------------------------------------------------
(* What tabs show *)

LEMMA ShownStep == Typed /\ ShownIsLatest /\ [Next]_vars => ShownIsLatest'
<1> SUFFICES ASSUME Typed, ShownIsLatest, [Next]_vars PROVE ShownIsLatest'
  OBVIOUS
<1> USE DEF ShownIsLatest
<1>1. CASE UNCHANGED <<shown, request, watched>>
  BY <1>1
<1>2. ASSUME NEW t \in Tabs, NEW o \in ShownRows, Show(t, o),
             o.request = request[t], request' = request
      PROVE  ShownIsLatest'
  BY <1>2 DEF Show, Typed
<1>3. ASSUME NEW t \in Tabs, Ask(t) PROVE ShownIsLatest'
  <2>1. PICK j \in Jobs :
          /\ watched' = [watched EXCEPT ![t] = j]
          /\ request' = [request EXCEPT ![t] = @ + 1]
          /\ shown' = [shown EXCEPT ![t] = [Blank EXCEPT !.job = j, !.request = request'[t]]]
    BY <1>3 DEF Ask
  <2>2. /\ [Blank EXCEPT !.job = j, !.request = request'[t]].job = j
        /\ [Blank EXCEPT !.job = j, !.request = request'[t]].request = request'[t]
    BY DEF Blank
  <2> QED BY <2>1, <2>2 DEF Typed
<1>4. ASSUME NEW t \in Tabs, Applied(t) PROVE ShownIsLatest'
  <2>1. PICK r \in reads[t] :
          /\ r.got # "none"
          /\ \/ IsCurrent(t, r)
                /\ Show(t, [job |-> r.job, request |-> r.request, outcome |-> r.got])
             \/ UNCHANGED <<watched, shown>>
    BY <1>4 DEF Applied
  <2>2. request' = request
    BY <1>4 DEF Applied
  <2>3. /\ r \in ReadRows
        /\ [job |-> r.job, request |-> r.request, outcome |-> r.got] \in ShownRows
    BY <2>1 DEF Typed, ReadRows, ShownRows
  <2> QED BY <1>1, <1>2, <2>1, <2>2, <2>3 DEF IsCurrent
<1>5. ASSUME NEW t \in Tabs, ReadFails(t) PROVE ShownIsLatest'
  <2>1. Show(t, [shown[t] EXCEPT !.outcome = "error"]) \/ UNCHANGED <<watched, shown>>
    BY <1>5 DEF ReadFails
  <2>2. request' = request
    BY <1>5 DEF ReadFails
  <2>3. /\ [shown[t] EXCEPT !.outcome = "error"] \in ShownRows
        /\ [shown[t] EXCEPT !.outcome = "error"].request = shown[t].request
    BY ZenonT(40) DEF Typed, ShownRows
  <2> QED BY <1>1, <1>2, <2>1, <2>2, <2>3
<1>6. CASE \E j \in Jobs : Claimed(j) \/ Decided(j) \/ Invalidated(j) \/ Requeued(j)
  BY <1>1, <1>6 DEF Claimed, Decided, Invalidated, Requeued, tabVars
<1>7. CASE Api \/ (\E c \in Connections : Disconnected(c)) \/ ListenerFails \/ Restart
  <2>1. SendOne => UNCHANGED <<shown, request, watched>>
    BY DEF SendOne
  <2> QED BY <1>1, <1>7, <2>1
          DEF Api, Listen, Notified, Disconnected, ListenerFails, Restart, tabVars
<1>8. ASSUME NEW t \in Tabs, Tab(t) \/ SocketBreaks(t) PROVE ShownIsLatest'
  BY <1>1, <1>4, <1>8
     DEF Tab, SocketBreaks, Connect, Opened, Signalled, Closed, Answered, tabVars
<1>9. CASE UNCHANGED vars
  BY <1>1, <1>9 DEF vars, tabVars
<1> QED BY <1>3, <1>5, <1>6, <1>7, <1>8, <1>9 DEF Next

-----------------------------------------------------------------------------
(* Signals *)

\* A resync or a notification on its way to the hub reaches every open socket.
LEMMA SentToAll ==
  ASSUME Connected, NEW m, Send(m), NEW t \in Tabs, Last(t) \in live
  PROVE  Last(t) \in sending'.to /\ sending'.msg = m
  BY DEF Connected, Send

\* What happens to jobs and to the API process.
LEMMA ToldByJobs ==
  ASSUME EventsInv, NEW j \in Jobs, Claimed(j) \/ Decided(j) \/ Invalidated(j) \/ Requeued(j),
         NEW t \in Tabs, Waits(t)'
  PROVE  Told(t)'
<1>1. PICK s \in Statuses : Commit(j, s)
  BY DEF Claimed, Decided, Invalidated, Requeued, Statuses
<1>2. UNCHANGED <<tabVars, live, sending, listener>>
  BY DEF Claimed, Decided, Invalidated, Requeued, Commit
<1>3. /\ \A i \in Jobs : i # j => status'[i] = status[i]
      /\ \A m : Holds(channel, m) => Holds(channel', m)
      /\ listener' # "up" \/ Holds(channel', j)
  BY <1>1, Commits DEF EventsInv
<1>4. CASE watched[t] = j
  BY <1>2, <1>3, <1>4 DEF Told, tabVars
<1>5. CASE watched[t] # j
  <2>1. Waits(t)
    BY <1>2, <1>3, <1>5 DEF Waits, EventsInv, Typed, tabVars
  <2>2. Told(t)
    BY <2>1, Signals DEF EventsInv
  <2> QED BY <1>2, <1>3, <2>2, StaysTold DEF tabVars
<1> QED BY <1>4, <1>5

LEMMA ToldByApi ==
  ASSUME EventsInv, NEW t \in Tabs, Waits(t)',
         \/ Api \/ ListenerFails \/ Restart
         \/ \E c \in Connections : Disconnected(c)
  PROVE  Told(t)'
<1>1. CASE ListenerFails \/ Restart
  BY <1>1 DEF ListenerFails, Restart, Told
<1>2. CASE Listen
  <2>1. CASE listener' = "listening"
    BY <2>1 DEF Told
  <2>2. CASE Send(Resync) /\ UNCHANGED <<sock, conn, live>>
    <3>1. Last(t) \in live => Last(t) \in sending'.to /\ sending'.msg = Resync
      BY <2>2, SentToAll DEF EventsInv
    <3> QED BY <2>2, <3>1 DEF Told, Last
  <2> QED BY <1>2, <2>1, <2>2 DEF Listen, tabVars
<1>3. ASSUME UNCHANGED <<status, watched>> PROVE Told(t)
  BY <1>3, Signals DEF EventsInv, Waits
<1>4. CASE Notified
  <2>1. Told(t)
    BY <1>3, <1>4 DEF Notified, tabVars
  <2>2. Send(Head(channel)) /\ channel' = Tail(channel) /\ sending = Idle
        /\ UNCHANGED <<live, listener, tabVars>>
    BY <1>4 DEF Notified, Quiet
  <2>3. \A m : Holds(channel, m) => m = Head(channel) \/ Holds(channel', m)
    BY <1>4, <2>2, HeadOrTail DEF Notified, EventsInv, Typed
  <2>4. Last(t) \in live => Last(t) \in sending'.to /\ sending'.msg = Head(channel)
    BY <2>2, SentToAll DEF EventsInv
  <2>5. CASE Holds(channel, watched[t]) /\ watched[t] = Head(channel)
    BY <2>2, <2>4, <2>5 DEF Told, Last, tabVars
  <2>6. CASE Holds(channel, watched[t]) /\ watched[t] # Head(channel)
    BY <2>2, <2>3, <2>6 DEF Told, tabVars
  <2>7. CASE ~Holds(channel, watched[t])
    BY <2>1, <2>2, <2>7 DEF Told, Idle, IsCurrent, Last, tabVars
  <2> QED BY <2>5, <2>6, <2>7
<1>5. CASE SendOne
  <2>1. PICK c \in sending.to : Served(c)
    BY <1>5, Serves DEF EventsInv
  <2>2. Told(t)
    BY <1>3, <2>1 DEF Served
  <2>3. c \in Connections /\ wire[t] \in Seq(Messages) /\ sending.msg \in Messages
        /\ wire \in [Tabs -> Seq(Messages)]
    BY DEF EventsInv, Typed
  <2>4. /\ \A m : Holds(wire[t], m) => Holds(Append(wire[t], sending.msg), m)
        /\ Holds(Append(wire[t], sending.msg), sending.msg)
    BY <2>3, Appended
  <2>5. wire'[t] = IF c \in live /\ c[1] = t THEN Append(wire[t], sending.msg) ELSE wire[t]
    BY <2>1, <2>3 DEF Served, Connections
  <2>6. ASSUME Last(t) \in sending.to, Last(t) \in live
        PROVE  \/ Last(t) \in sending'.to /\ sending'.msg = sending.msg
               \/ Holds(wire'[t], sending.msg)
    <3>1. CASE c = Last(t)
      BY <2>4, <2>5, <2>6, <3>1 DEF Last
    <3>2. CASE c # Last(t)
      <4>1. sending' = [sending EXCEPT !.to = @ \ {c}, !.failed = sending'.failed]
        BY <2>1, <2>6, <3>2 DEF Served
      <4>2. sending'.to = sending.to \ {c} /\ sending'.msg = sending.msg
        BY <4>1 DEF EventsInv, Typed
      <4> QED BY <2>6, <3>2, <4>2
    <3> QED BY <3>1, <3>2
  <2> QED BY <2>1, <2>2, <2>4, <2>5, <2>6, StaysTold DEF Served
<1>6. CASE \E c \in Connections : Disconnected(c)
  BY <1>3, <1>6, StaysTold DEF Disconnected, tabVars
<1> QED BY <1>1, <1>2, <1>4, <1>5, <1>6 DEF Api

\* What one tab does leaves the others alone.
LEMMA ToldByOthers ==
  ASSUME EventsInv, NEW u \in Tabs, NEW t \in Tabs, t # u, Waits(t)',
         Ask(u) \/ Tab(u) \/ ReadFails(u) \/ SocketBreaks(u)
  PROVE  Told(t)'
<1> USE DEF EventsInv
<1>1. /\ watched'[t] = watched[t] /\ request'[t] = request[t] /\ conn'[t] = conn[t]
      /\ reads'[t] = reads[t] /\ sock'[t] = sock[t] /\ wire'[t] = wire[t]
  BY DEF Ask, Tab, Connect, Opened, Signalled, Closed, Answered, Applied, ReadFails,
         SocketBreaks, Show, NoSocket, Read, Typed, tabVars
<1>2. sending' = sending /\ listener' = listener
  BY DEF Ask, Tab, Connect, Opened, Signalled, Closed, Answered, Applied, ReadFails,
         SocketBreaks, Commit, apiVars
<1>3. Last(t) \in live' => Last(t) \in live
  <2>1. CASE Connect(u)
    BY <2>1 DEF Connect, Last
  <2>2. CASE ~Connect(u)
    BY <2>2 DEF Ask, Tab, Opened, Signalled, Closed, Answered, Applied, ReadFails,
         SocketBreaks, Show, NoSocket, Commit
  <2> QED BY <2>1, <2>2
<1>4. /\ \A m : Holds(channel, m) => Holds(channel', m)
      /\ \A j \in Jobs : status'[j] = status[j] \/ status'[j] = "queued"
  <2>1. CASE UNCHANGED <<status, channel>>
    BY <2>1
  <2>2. ASSUME NEW j \in Jobs, Commit(j, "queued")
        PROVE  <1>4!:
    <3>1. status' = [status EXCEPT ![j] = "queued"]
      BY <2>2 DEF Commit
    <3> QED BY <2>2, <3>1, Commits DEF Statuses, Typed
  <2> QED BY <2>1, <2>2 DEF Ask, Tab, Connect, Opened, Signalled, Closed, Answered,
         Applied, ReadFails, SocketBreaks, apiVars
<1>5. Waits(t)
  BY <1>1, <1>4 DEF Waits, Terminal, Typed
<1>6. Told(t)
  BY <1>5, Signals
<1> QED BY <1>1, <1>2, <1>3, <1>4, <1>6, StaysTold

LEMMA ToldByTab ==
  ASSUME EventsInv, NEW t \in Tabs, Waits(t)',
         Ask(t) \/ Tab(t) \/ ReadFails(t) \/ SocketBreaks(t)
  PROVE  Told(t)'
<1> USE DEF EventsInv
<1>1. Reading(t).job = watched[t] /\ Reading(t).request = request[t]
  BY DEF Reading
<1>2. ASSUME UNCHANGED <<watched, request>>, watched[t] # 0, Read(t)
      PROVE  Told(t)'
  BY <1>1, <1>2 DEF Read, Told, IsCurrent, Typed
<1>3. ASSUME UNCHANGED <<status, watched>> PROVE Told(t)
  BY <1>3, Signals DEF Waits
<1>4. CASE Ask(t)
  <2>1. PICK j \in Jobs :
          /\ watched' = [watched EXCEPT ![t] = j]
          /\ request' = [request EXCEPT ![t] = @ + 1]
          /\ reads' = [reads EXCEPT ![t] =
                @ \cup {[job |-> j, request |-> request'[t], got |-> "none"]}]
    BY <1>4 DEF Ask
  <2> DEFINE asked == [job |-> j, request |-> request'[t], got |-> "none"]
  <2>2. asked \in reads'[t] /\ asked.job = watched'[t] /\ asked.request = request'[t]
    BY <2>1 DEF Typed
  <2> QED BY <2>2 DEF Told, IsCurrent
<1>5. CASE Connect(t)
  BY <1>5 DEF Connect, Told, Typed
<1>6. CASE Opened(t)
  BY <1>2, <1>6 DEF Opened, Waits
<1>7. CASE Signalled(t)
  <2>1. CASE Head(wire[t]) \in {Resync, watched[t]}
    BY <1>2, <1>7, <2>1 DEF Signalled, Waits
  <2>2. CASE Head(wire[t]) \notin {Resync, watched[t]}
    <3>1. Told(t)
      BY <1>3, <1>7 DEF Signalled
    <3>2. \A m \in {Resync, watched[t]} : Holds(wire[t], m) => Holds(wire'[t], m)
      BY <1>7, <2>2, HeadOrTail DEF Signalled, Typed
    <3>3. UNCHANGED <<status, apiVars, live, conn, sock, watched, request, reads>>
      BY <1>7, <2>2 DEF Signalled
    <3> QED BY <3>1, <3>2, <3>3 DEF Told, IsCurrent, Last, apiVars
  <2> QED BY <2>1, <2>2
<1>8. ASSUME NoSocket(t) PROVE Told(t)'
  BY <1>8 DEF NoSocket, Told, Typed
<1>9. CASE Closed(t)
  BY <1>8, <1>9 DEF Closed
<1>10. CASE Answered(t)
  <2>1. Told(t)
    BY <1>3, <1>10 DEF Answered
  <2>2. PICK r \in reads[t] :
          reads' = [reads EXCEPT ![t] =
                (@ \ {r}) \cup IF status[r.job] \in Terminal
                               THEN {[r EXCEPT !.got = status[r.job]]} ELSE {}]
    BY <1>10 DEF Answered
  <2>3. UNCHANGED <<status, apiVars, live, conn, sock, wire, watched, request>>
    BY <1>10 DEF Answered
  <2>4. CASE IsCurrent(t, r)
    <3>1. r \in ReadRows
      BY DEF Typed
    <3>2. status[r.job] \in Terminal
      BY <2>3, <2>4 DEF Waits, IsCurrent
    <3> DEFINE answer == [r EXCEPT !.got = status[r.job]]
    <3>3. answer.job = r.job /\ answer.request = r.request
      BY <3>1 DEF ReadRows
    <3>4. answer \in reads'[t]
      BY <2>2, <3>2 DEF Typed
    <3> QED BY <2>3, <2>4, <3>3, <3>4 DEF Told, IsCurrent
  <2>5. CASE ~IsCurrent(t, r)
    <3>1. \A q \in reads[t] : IsCurrent(t, q) => q \in reads'[t]
      BY <2>2, <2>5 DEF Typed
    <3> QED BY <2>1, <2>3, <3>1, StaysTold DEF apiVars
  <2> QED BY <2>4, <2>5
<1>11. CASE Applied(t)
  <2>1. PICK r \in reads[t] :
        /\ reads' = [reads EXCEPT ![t] = @ \ {r}]
        /\ \/ Show(t, [job |-> r.job, request |-> r.request, outcome |-> r.got])
           \/ ~IsCurrent(t, r) /\ UNCHANGED <<watched, shown, live, conn, sock, wire>>
    BY <1>11 DEF Applied
  <2>2. UNCHANGED <<status, apiVars, request>>
    BY <1>11 DEF Applied
  <2>3. CASE ~IsCurrent(t, r) /\ UNCHANGED <<watched, shown, live, conn, sock, wire>>
    <3>1. \A q \in reads[t] : IsCurrent(t, q) => q \in reads'[t]
      BY <2>1, <2>3 DEF Typed
    <3> QED BY <1>3, <2>2, <2>3, <3>1, StaysTold DEF apiVars
  <2> QED BY <1>8, <2>1, <2>3 DEF Show
<1>12. CASE ReadFails(t)
  <2>1. PICK r \in reads[t] :
        /\ reads' = [reads EXCEPT ![t] = @ \ {r}]
        /\ \/ Show(t, [shown[t] EXCEPT !.outcome = "error"])
           \/ watched[t] # r.job /\ UNCHANGED <<watched, shown, live, conn, sock, wire>>
    BY <1>12 DEF ReadFails
  <2>2. UNCHANGED <<status, apiVars, request>>
    BY <1>12 DEF ReadFails
  <2>3. CASE watched[t] # r.job /\ UNCHANGED <<watched, shown, live, conn, sock, wire>>
    <3>1. \A q \in reads[t] : IsCurrent(t, q) => q \in reads'[t]
      BY <2>1, <2>3 DEF Typed, IsCurrent
    <3> QED BY <1>3, <2>2, <2>3, <3>1, StaysTold DEF apiVars
  <2> QED BY <1>8, <2>1, <2>3 DEF Show
<1>13. CASE SocketBreaks(t)
  BY <1>13 DEF SocketBreaks, Told, Last, tabVars
<1> QED BY <1>4, <1>5, <1>6, <1>7, <1>9, <1>10, <1>11, <1>12, <1>13 DEF Tab

LEMMA SignalStep == EventsInv /\ [Next]_vars => SignalIsUnderWay'
<1> SUFFICES ASSUME EventsInv, [Next]_vars, NEW t \in Tabs, Waits(t)'
             PROVE  Told(t)'
  BY DEF SignalIsUnderWay, Waits, Told, Holds
<1>1. CASE UNCHANGED vars
  <2>1. Told(t)
    BY <1>1, Signals DEF EventsInv, Waits, vars, tabVars
  <2> QED BY <1>1, <2>1, StaysTold DEF vars, tabVars, apiVars
<1>2. CASE Next
  BY <1>2, ToldByJobs, ToldByApi, ToldByOthers, ToldByTab DEF Next
<1> QED BY <1>1, <1>2

-----------------------------------------------------------------------------
LEMMA EventsStep == EventsInv /\ [Next]_vars => EventsInv'
  BY TypedStep, ConnectedStep, ShownStep, SignalStep DEF EventsInv

LEMMA EventsInvariant == Spec => []EventsInv
  BY InitInv, EventsStep, PTL DEF Spec

\* Every variable has its type.
THEOREM EventTypes == Spec => []TypeOK
<1>1. EventsInv => TypeOK
  <2> SUFFICES ASSUME EventsInv PROVE TypeOK
    OBVIOUS
  <2>1. Typed /\ Connected
    BY DEF EventsInv
  <2>2. hub \cup sending.to \cup sending.failed \subseteq Connections
        /\ sending.msg \in Jobs \cup {Resync}
    BY <2>1 DEF Typed, Messages
  <2>3. live \subseteq {<<t, conn[t]>> : t \in Tabs}
    BY <2>1 DEF Typed, Connected, Connections
  <2>4. ASSUME NEW t \in Tabs
        PROVE  /\ wire[t] \in Seq(Jobs \cup {Resync})
               /\ sock[t] = "none" => wire[t] = <<>>
               /\ \A r \in reads[t] : r.got \in Terminal \cup {"none"}
    <3>1. \A r \in reads[t] : r \in ReadRows
      BY <2>1 DEF Typed
    <3>2. \A r \in ReadRows : r.got \in Terminal \cup {"none"}
      BY DEF ReadRows
    <3>3. wire[t] \in Seq(Jobs \cup {Resync})
      BY <2>1 DEF Typed, Messages
    <3>4. sock[t] = "none" => wire[t] = <<>>
      BY <2>1 DEF Connected
    <3> QED BY <3>1, <3>2, <3>3, <3>4
  <2>5. /\ status \in [Jobs -> Statuses \cup {"none"}]
        /\ channel \in Seq(Jobs) /\ listener \in {"down", "listening", "up"}
        /\ (listener = "down" => channel = <<>>)
        /\ (sending.to = {} => sending = Idle)
        /\ sock \in [Tabs -> {"none", "opening", "open"}]
        /\ watched \in [Tabs -> Jobs \cup {0}] /\ request \in [Tabs -> 0..MaxRequests]
        /\ requests \in 0..MaxRequests /\ faults \in 0..MaxFaults
    BY <2>1 DEF Typed
  <2> QED BY ONLY <2>2, <2>3, <2>4, <2>5 DEF TypeOK
<1> QED BY <1>1, EventsInvariant, PTL

\* A tab that waits for a decided job has an answer or a reason to read the
\* job again under way, whatever was lost between the database and the tab.
THEOREM AlwaysTold == Spec => []SignalIsUnderWay
<1>1. EventsInv => SignalIsUnderWay
  BY DEF EventsInv
<1> QED BY <1>1, EventsInvariant, PTL

\* What a tab shows answers its last request, however answers to its reads
\* overtake each other.
THEOREM LatestShown == Spec => []ShownIsLatest
<1>1. EventsInv => ShownIsLatest
  BY DEF EventsInv
<1> QED BY <1>1, EventsInvariant, PTL

-----------------------------------------------------------------------------
(* The refinement of Panel *)

\* A verdict that is on its way to a tab is that of a decided job.
ReadsAreTrue == \A t \in Tabs : \A r \in reads[t] : r.got # "none" => status[r.job] \in Terminal

Verdicts == {j \in Jobs : status[j] \in Terminal}

\* A commit is made to a job that is not decided.
LEMMA CommitsAreOpen ==
  ASSUME Typed, NEW j \in Jobs, NEW s \in Statuses, Commit(j, s), status[j] \notin Terminal
  PROVE  /\ \A i \in Jobs : status[i] \in Terminal => status'[i] \in Terminal
         /\ Verdicts' = IF s \in Terminal THEN Verdicts \cup {j} ELSE Verdicts
<1>1. status' = [status EXCEPT ![j] = s] /\ status \in [Jobs -> Statuses \cup {"none"}]
  BY DEF Commit, Typed
<1> QED BY <1>1 DEF Verdicts

\* No verdict is taken back, and only Decided and Invalidated give one.
LEMMA VerdictsStep ==
  ASSUME Typed, [Next]_vars
  PROVE  /\ \A i \in Jobs : status[i] \in Terminal => status'[i] \in Terminal
         /\ \/ Verdicts' = Verdicts
            \/ \E j \in Jobs : Verdicts' = Verdicts \cup {j} /\ UNCHANGED tabVars
<1>1. CASE UNCHANGED status
  BY <1>1 DEF Verdicts
<1>2. ASSUME NEW j \in Jobs, Claimed(j) \/ Decided(j) \/ Invalidated(j) \/ Requeued(j)
      PROVE  /\ \A i \in Jobs : status[i] \in Terminal => status'[i] \in Terminal
             /\ \/ Verdicts' = Verdicts
                \/ Verdicts' = Verdicts \cup {j} /\ UNCHANGED tabVars
  <2>1. PICK s \in Statuses : Commit(j, s)
    BY <1>2 DEF Claimed, Decided, Invalidated, Requeued, Statuses
  <2>2. status[j] \notin Terminal /\ UNCHANGED tabVars
    BY <1>2 DEF Claimed, Decided, Invalidated, Requeued, Terminal
  <2> QED BY <2>1, <2>2, CommitsAreOpen
<1>3. ASSUME NEW t \in Tabs, Ask(t)
      PROVE  /\ \A i \in Jobs : status[i] \in Terminal => status'[i] \in Terminal
             /\ Verdicts' = Verdicts
  <2>1. CASE UNCHANGED status
    BY <2>1 DEF Verdicts
  <2>2. ASSUME NEW j \in Jobs, status[j] = "none", Commit(j, "queued")
        PROVE  /\ \A i \in Jobs : status[i] \in Terminal => status'[i] \in Terminal
               /\ Verdicts' = Verdicts
    <3>1. status[j] \notin Terminal /\ "queued" \in Statuses /\ "queued" \notin Terminal
      BY <2>2 DEF Terminal, Statuses
    <3> QED BY <2>2, <3>1, CommitsAreOpen
  <2> QED BY <1>3, <2>1, <2>2 DEF Ask
<1>4. CASE Api \/ (\E c \in Connections : Disconnected(c)) \/ ListenerFails \/ Restart
  <2>1. SendOne => UNCHANGED status
    BY DEF SendOne
  <2> QED BY <1>1, <1>4, <2>1 DEF Api, Listen, Notified, Disconnected, ListenerFails, Restart
<1>5. ASSUME NEW t \in Tabs, Tab(t) \/ ReadFails(t) \/ SocketBreaks(t)
      PROVE  UNCHANGED status
  BY <1>5 DEF Tab, Connect, Opened, Signalled, Closed, Answered, Applied, ReadFails, SocketBreaks
<1>6. UNCHANGED vars => UNCHANGED status
  BY DEF vars
<1> QED BY <1>1, <1>2, <1>3, <1>4, <1>5, <1>6 DEF Next

LEMMA TrueReadsStep == Typed /\ ReadsAreTrue /\ [Next]_vars => ReadsAreTrue'
<1> SUFFICES ASSUME Typed, ReadsAreTrue, [Next]_vars PROVE ReadsAreTrue'
  OBVIOUS
<1>0. \A i \in Jobs : status[i] \in Terminal => status'[i] \in Terminal
  BY VerdictsStep
<1>1. ASSUME \A t \in Tabs : \A r \in reads'[t] : r \in reads[t] \/ r.got = "none"
      PROVE  ReadsAreTrue'
  <2>1. \A t \in Tabs : \A r \in reads[t] : r.job \in Jobs
    BY DEF Typed, ReadRows
  <2> QED BY <1>0, <1>1, <2>1 DEF ReadsAreTrue
<1>2. UNCHANGED reads => ReadsAreTrue'
  BY <1>1
<1>3. ASSUME NEW t \in Tabs, Ask(t) PROVE ReadsAreTrue'
  <2>1. PICK j \in Jobs : reads' = [reads EXCEPT ![t] =
          @ \cup {[job |-> j, request |-> request'[t], got |-> "none"]}]
    BY <1>3 DEF Ask
  <2> QED BY <1>1, <2>1 DEF Typed
<1>4. ASSUME NEW t \in Tabs, Read(t) PROVE ReadsAreTrue'
  <2>1. Reading(t).got = "none"
    BY DEF Reading
  <2> QED BY <1>1, <1>4, <2>1 DEF Read, Typed
<1>5. ASSUME NEW t \in Tabs, Answered(t) PROVE ReadsAreTrue'
  <2>1. PICK r \in reads[t] :
          reads' = [reads EXCEPT ![t] =
             (@ \ {r}) \cup IF status[r.job] \in Terminal
                            THEN {[r EXCEPT !.got = status[r.job]]} ELSE {}]
    BY <1>5 DEF Answered
  <2>2. r \in ReadRows /\ r.job \in Jobs
    BY <2>1 DEF Typed, ReadRows
  <2>3. [r EXCEPT !.got = status[r.job]].job = r.job
    BY <2>2 DEF ReadRows
  <2>4. UNCHANGED status
    BY <1>5 DEF Answered
  <2>5. ASSUME NEW u \in Tabs, NEW p \in reads'[u], p.got # "none"
        PROVE  status[p.job] \in Terminal
    <3>1. CASE p \in reads[u]
      BY <3>1, <2>5 DEF ReadsAreTrue
    <3>2. CASE p \notin reads[u]
      BY <2>1, <2>3, <2>5, <3>2 DEF Typed
    <3> QED BY <3>1, <3>2
  <2> QED BY <2>4, <2>5 DEF ReadsAreTrue
<1>6. ASSUME NEW t \in Tabs, Applied(t) \/ ReadFails(t) PROVE ReadsAreTrue'
  <2>1. PICK r \in reads[t] : reads' = [reads EXCEPT ![t] = @ \ {r}]
    BY <1>6 DEF Applied, ReadFails
  <2> QED BY <1>1, <2>1 DEF Typed
<1>7. CASE \E j \in Jobs : Claimed(j) \/ Decided(j) \/ Invalidated(j) \/ Requeued(j)
  BY <1>2, <1>7 DEF Claimed, Decided, Invalidated, Requeued, tabVars
<1>8. CASE Api \/ (\E c \in Connections : Disconnected(c)) \/ ListenerFails \/ Restart
  <2>1. SendOne => UNCHANGED reads
    BY DEF SendOne
  <2> QED BY <1>2, <1>8, <2>1
          DEF Api, Listen, Notified, Disconnected, ListenerFails, Restart, tabVars
<1>9. ASSUME NEW t \in Tabs, Tab(t) \/ SocketBreaks(t) PROVE ReadsAreTrue'
  BY <1>2, <1>4, <1>5, <1>6, <1>9
     DEF Tab, SocketBreaks, Connect, Opened, Signalled, Closed, tabVars
<1>10. UNCHANGED vars => UNCHANGED reads
  BY DEF vars, tabVars
<1> QED BY <1>2, <1>3, <1>6, <1>7, <1>8, <1>9, <1>10 DEF Next

\* Only a request, an answer and a read that fails change what is seen of a tab.
LEMMA ScreenKept ==
  ASSUME [Next]_vars, ~ \E t \in Tabs : Ask(t) \/ Applied(t) \/ ReadFails(t)
  PROVE  UNCHANGED <<request, watched, shown>>
<1>1. SendOne => UNCHANGED <<request, watched, shown>>
  BY DEF SendOne
<1>2. Api \/ (\E c \in Connections : Disconnected(c)) \/ ListenerFails \/ Restart
        => UNCHANGED <<request, watched, shown>>
  BY <1>1 DEF Api, Listen, Notified, Disconnected, ListenerFails, Restart, tabVars
<1>3. (\E j \in Jobs : Claimed(j) \/ Decided(j) \/ Invalidated(j) \/ Requeued(j))
        => UNCHANGED <<request, watched, shown>>
  BY DEF Claimed, Decided, Invalidated, Requeued, tabVars
<1>4. ASSUME NEW t \in Tabs, (Tab(t) /\ ~Applied(t)) \/ SocketBreaks(t)
      PROVE  UNCHANGED <<request, watched, shown>>
  BY <1>4 DEF Tab, SocketBreaks, Connect, Opened, Signalled, Closed, Answered, tabVars
<1>5. UNCHANGED vars => UNCHANGED <<request, watched, shown>>
  BY DEF vars, tabVars
<1> QED BY <1>2, <1>3, <1>4, <1>5 DEF Next

\* The waiting of a tab ends with a verdict of its job or an error.
LEMMA Settles ==
  ASSUME NEW t \in Tabs, NEW outcome \in {"error"} \cup Terminal, watched[t] # 0,
         outcome = "error" \/ watched[t] \in Verdicts,
         Show(t, [job |-> watched[t], request |-> request[t], outcome |-> outcome]),
         request' = request, Verdicts' = Verdicts
  PROVE  Screen!Settle(t)
  BY DEF Show, Screen!Settle, Verdicts, Terminal

\* Whatever is lost, repeated or overtaken between the database and a tab, what
\* the tab shows of the jobs changes as if it looked at them itself.
THEOREM EventsArePanel == Spec => ImplementsPanel
<1>1. Init => Screen!Init /\ ReadsAreTrue
  BY DEF Init, Screen!Init, ReadsAreTrue, Blank, Terminal
<1>2. EventsInv /\ ReadsAreTrue /\ [Next]_vars => [Screen!Next]_Screen!vars
  <2> SUFFICES ASSUME EventsInv, ReadsAreTrue, [Next]_vars
               PROVE  [Screen!Next]_Screen!vars
    OBVIOUS
  <2>0. Typed /\ ShownIsLatest
    BY DEF EventsInv
  <2>1. ASSUME NEW t \in Tabs, Ask(t) PROVE Screen!Next
    <3>1. PICK j \in Jobs :
            /\ watched' = [watched EXCEPT ![t] = j]
            /\ request' = [request EXCEPT ![t] = @ + 1]
            /\ shown' = [shown EXCEPT ![t] = [Blank EXCEPT !.job = j, !.request = request'[t]]]
      BY <2>1 DEF Ask
    <3>2. request'[t] = request[t] + 1
      BY <2>0, <3>1 DEF Typed
    <3>3. [Blank EXCEPT !.job = j, !.request = request'[t]]
            = [job |-> j, request |-> request[t] + 1, outcome |-> "loading"]
      <4>1. [Blank EXCEPT !.job = j] = [job |-> j, request |-> 0, outcome |-> "loading"]
        BY DEF Blank
      <4>2. [Blank EXCEPT !.job = j, !.request = request'[t]]
              = [[Blank EXCEPT !.job = j] EXCEPT !.request = request'[t]]
        BY Zenon
      <4>3. [[job |-> j, request |-> 0, outcome |-> "loading"] EXCEPT !.request = request'[t]]
              = [job |-> j, request |-> request'[t], outcome |-> "loading"]
        OBVIOUS
      <4> QED BY <3>2, <4>1, <4>2, <4>3
    <3>4. Verdicts' = Verdicts
      <4>1. ~UNCHANGED tabVars
        BY <2>0, <3>1, <3>2 DEF tabVars, Typed
      <4> QED BY <2>0, <4>1, VerdictsStep
    <3> QED BY <3>1, <3>3, <3>4 DEF Screen!Next, Screen!Ask, Verdicts
  <2>2. ASSUME NEW t \in Tabs, Applied(t) PROVE [Screen!Next]_Screen!vars
    <3>1. PICK r \in reads[t] :
            /\ r.got # "none"
            /\ \/ IsCurrent(t, r)
                  /\ Show(t, [job |-> r.job, request |-> r.request, outcome |-> r.got])
               \/ UNCHANGED <<watched, shown>>
      BY <2>2 DEF Applied
    <3>2. UNCHANGED request /\ Verdicts' = Verdicts
      BY <2>2 DEF Applied, Verdicts
    <3>3. r \in ReadRows /\ status[r.job] \in Terminal
      BY <2>0, <3>1 DEF Typed, ReadsAreTrue
    <3>4. r.job \in Verdicts /\ r.job # 0 /\ r.got \in Terminal
      BY <3>1, <3>3, Resyncs DEF ReadRows, Verdicts
    <3>5. CASE UNCHANGED <<watched, shown>>
      BY <3>2, <3>5 DEF Screen!vars, Verdicts
    <3>6. CASE /\ IsCurrent(t, r)
               /\ Show(t, [job |-> r.job, request |-> r.request, outcome |-> r.got])
      <4>1. Screen!Settle(t)
        BY <3>2, <3>4, <3>6, Settles DEF IsCurrent
      <4> QED BY <4>1 DEF Screen!Next
    <3> QED BY <3>1, <3>5, <3>6
  <2>3. ASSUME NEW t \in Tabs, ReadFails(t) PROVE [Screen!Next]_Screen!vars
    <3>1. PICK r \in reads[t] :
            \/ watched[t] = r.job /\ Show(t, [shown[t] EXCEPT !.outcome = "error"])
            \/ UNCHANGED <<watched, shown>>
      BY <2>3 DEF ReadFails
    <3>2. UNCHANGED request /\ Verdicts' = Verdicts
      BY <2>3 DEF ReadFails, Verdicts
    <3>3. CASE UNCHANGED <<watched, shown>>
      BY <3>2, <3>3 DEF Screen!vars, Verdicts
    <3>4. CASE watched[t] = r.job /\ Show(t, [shown[t] EXCEPT !.outcome = "error"])
      <4>1. watched[t] \in Jobs /\ watched[t] # 0
        BY <2>0, <3>4, Resyncs DEF Typed, ReadRows
      <4>2. shown[t] \in ShownRows /\ shown[t].request = request[t] /\ shown[t].job = watched[t]
        BY <2>0, <4>1 DEF Typed, ShownIsLatest
      <4>3. [shown[t] EXCEPT !.outcome = "error"]
              = [job |-> watched[t], request |-> request[t], outcome |-> "error"]
        BY <4>2 DEF ShownRows
      <4>4. Screen!Settle(t)
        BY <3>2, <3>4, <4>1, <4>3, Settles
      <4> QED BY <4>4 DEF Screen!Next
    <3> QED BY <3>1, <3>3, <3>4
  <2>4. CASE ~ \E t \in Tabs : Ask(t) \/ Applied(t) \/ ReadFails(t)
    <3>1. UNCHANGED <<request, watched, shown>>
      BY <2>4, ScreenKept
    <3>2. Verdicts' = Verdicts \/ \E j \in Jobs : Verdicts' = Verdicts \cup {j}
      BY <2>0, VerdictsStep
    <3> QED BY <3>1, <3>2 DEF Screen!vars, Screen!Next, Screen!Decide, Verdicts
  <2> QED BY <2>1, <2>2, <2>3, <2>4
<1>3. EventsInv => Typed
  BY DEF EventsInv
<1> QED BY <1>1, <1>2, <1>3, InitInv, EventsStep, TrueReadsStep, PTL
        DEF Spec, ImplementsPanel, Screen!Spec
=============================================================================
