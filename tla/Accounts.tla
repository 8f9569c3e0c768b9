------------------------------ MODULE Accounts ------------------------------
(***************************************************************************)
(* Accounts, artist claims and the administration of both: the tables      *)
(* users, artist_claims and artists, the requests of the API process that  *)
(* change them, and the bootstrap accounts of its start.                   *)
(*                                                                         *)
(* There is one API process, and its handlers are coroutines that never    *)
(* await, so a handler is one step. The dependency that authorises the     *)
(* request runs before it in the thread pool: between the two, any other   *)
(* handler may run. A request that is refused changes nothing.             *)
(***************************************************************************)
EXTENDS FiniteSets, Naturals

CONSTANTS
    Users,          \* e-mail addresses, which are the user names as well
    FirstAdmins,    \* the admins there are in the beginning
    Artists,
    None,
    MaxReady        \* bound: authorised requests whose handler does not run at once

UserRows == [role : {"artist", "agent", "admin"},
             status : {"pending", "approved", "deactivated"},
             artist : Artists \cup {None}]
ClaimRows == [artist : Artists, status : {"pending", "approved"}]

ASSUME AccountAssumption ==
    /\ FirstAdmins \subseteq Users /\ FirstAdmins # {}
    /\ None \notin Users \cup Artists \cup UserRows \cup ClaimRows
    /\ MaxReady \in Nat \ {0}

VARIABLES
    user,       \* user[u]: the row of users, None without one
    claim,      \* claim[u]: the row of artist_claims of the user, if any
    artist,     \* the artists: imported (ra), created by a registration, or none yet
    used,       \* artists that jobs, tags, events or connections refer to
    auto,       \* the setting auto_approve_pending_users
    ready,      \* authorised requests
    bootstrap,  \* BOOTSTRAP_ADMIN_USERNAME of the process, None when it is not set
    running     \* the API process has started

rows == <<user, claim, artist, used>>
accountVars == <<rows, auto, ready, bootstrap, running>>

AdminOps == {"approve", "reject", "deactivate", "activate", "unbind", "role"}
Requests == [by : FirstAdmins, op : AdminOps, on : Users] \cup
            [by : FirstAdmins, op : {"auto"}, on : {None}] \cup
            [by : Users, op : {"use"}, on : Artists]

\* No account stays with status rejected: a rejected registration is deleted.
TypeOKAccounts ==
    /\ user \in [Users -> UserRows \cup {None}]
    /\ claim \in [Users -> ClaimRows \cup {None}]
    /\ artist \in [Artists -> {"unknown", "ra", "created", "deleted"}]
    /\ used \subseteq Artists
    /\ auto \in BOOLEAN /\ running \in BOOLEAN
    /\ ready \subseteq Requests /\ Cardinality(ready) <= MaxReady
    /\ bootstrap \in Users \cup {None}

Admin == [role |-> "admin", status |-> "approved", artist |-> None]

InitAccounts ==
    /\ user = [u \in Users |-> IF u \in FirstAdmins THEN Admin ELSE None]
    /\ claim = [u \in Users |-> None]
    /\ artist \in [Artists -> {"unknown", "ra"}]
    /\ used = {}
    /\ auto = FALSE /\ ready = {} /\ running = TRUE
    /\ bootstrap \in FirstAdmins \cup {None}

Exists(u) == user[u] # None
Approved(u) == Exists(u) /\ user[u].status = "approved"
IsAdmin(u) == Exists(u) /\ user[u].role = "admin"
ApprovedAdmins == {u \in Users : Approved(u) /\ IsAdmin(u)}
\* The users with status pending or approved that have the artist.
Assigned(a) == {u \in Users : Exists(u) /\ user[u].artist = a
                                /\ user[u].status \in {"pending", "approved"}}
\* artist_claims_active_artist_unique_idx allows one of these per artist.
Claimants(a) == {u \in Users : claim[u] # None /\ claim[u].artist = a}
ArtistExists(a) == artist[a] \in {"ra", "created"}

(***************************************************************************)
(* Authorisation: get_current_user, require_admin, require_artist_access   *)
(***************************************************************************)
Authorised(q) ==
    /\ Approved(q.by)
    /\ IF q.op = "use"
       THEN \/ user[q.by].role \in {"agent", "admin"}
            \/ user[q.by].role = "artist" /\ user[q.by].artist = q.on
       ELSE IsAdmin(q.by)

\* The handler of the request does not run at once.
Grant(q) ==
    /\ running /\ q \notin ready /\ Cardinality(ready) < MaxReady
    /\ Authorised(q)
    /\ ready' = ready \cup {q}
    /\ UNCHANGED <<rows, auto, bootstrap, running>>

\* The handler of a request runs, at once or later.
Handles(q, op) ==
    /\ running /\ q.op = op
    /\ \/ q \in ready /\ ready' = ready \ {q}
       \/ q \notin ready /\ Authorised(q) /\ UNCHANGED ready
    /\ UNCHANGED <<bootstrap, running>>

(***************************************************************************)
(* Registration                                                            *)
(***************************************************************************)
NewAccount(status, a) ==
    [role |-> "artist", status |-> status,
     artist |-> IF status = "approved" THEN a ELSE None]

RegisterAs(u, a) ==
    LET status == IF auto THEN "approved" ELSE "pending" IN
    /\ user' = [user EXCEPT ![u] = NewAccount(status, a)]
    /\ claim' = [claim EXCEPT ![u] = [artist |-> a, status |-> status]]

MayClaimUnassigned(a) == Assigned(a) = {}      \* mutant: claims are not looked at
MayClaim(a) == Assigned(a) = {} /\ Claimants(a) = {}

\* An artist profile that exists and nobody has or claims.
RegisterExisting(u, a) ==
    /\ running /\ ~Exists(u) /\ ArtistExists(a) /\ MayClaim(a)
    /\ RegisterAs(u, a)
    /\ UNCHANGED <<artist, used, auto, ready, bootstrap, running>>

\* A new artist profile; its number was never given to another one.
RegisterNew(u, a) ==
    /\ running /\ ~Exists(u) /\ artist[a] = "unknown"
    /\ artist' = [artist EXCEPT ![a] = "created"]
    /\ RegisterAs(u, a)
    /\ UNCHANGED <<used, auto, ready, bootstrap, running>>

(***************************************************************************)
(* app.admin.users                                                         *)
(***************************************************************************)
PendingArtist(u) ==
    IF claim[u] # None /\ claim[u].status = "pending" THEN claim[u].artist ELSE None

\* approve_user: whatever the status is, and an agent's artist is not checked.
Approve(q) ==
    /\ Handles(q, "approve")
    /\ LET u == q.on  a == PendingArtist(u) IN
       IF Exists(u) /\ ~(user[u].role = "artist" /\ a # None /\ Assigned(a) \ {u} # {})
       THEN /\ user' = [user EXCEPT ![u].status = "approved",
                                    ![u].artist = IF a # None THEN a ELSE @]
            /\ claim' = IF a = None THEN claim ELSE [claim EXCEPT ![u].status = "approved"]
       ELSE UNCHANGED <<user, claim>>
    /\ UNCHANGED <<artist, used, auto>>

\* _delete_safe_user_created_artist, once the rejected account is gone.
DeletableThough(a) == artist[a] = "created"    \* mutant: references are not looked for
Deletable(a) == artist[a] = "created" /\ a \notin used

AfterReject(u) == None

Reject(q) ==
    /\ Handles(q, "reject")
    /\ LET u == q.on  a == PendingArtist(u) IN
       IF Exists(u) /\ user[u].status = "pending" /\ a # None
       THEN /\ user' = [user EXCEPT ![u] = AfterReject(u)]
            /\ claim' = [claim EXCEPT ![u] = None]
            /\ artist' = IF Deletable(a) /\ Assigned(a) \ {u} = {} /\ Claimants(a) \ {u} = {}
                         THEN [artist EXCEPT ![a] = "deleted"] ELSE artist
       ELSE UNCHANGED <<user, claim, artist>>
    /\ UNCHANGED <<used, auto>>

NotOneself(q) == q.on # q.by                   \* mutant: admins are not counted
MayDeactivate(q) ==
    /\ q.on \notin {q.by, bootstrap}
    /\ IsAdmin(q.on) => Cardinality(ApprovedAdmins) > 1

\* deactivate_user: of any status, also a registration that is still pending.
Deactivate(q) ==
    /\ Handles(q, "deactivate")
    /\ user' = IF Exists(q.on) /\ MayDeactivate(q)
               THEN [user EXCEPT ![q.on].status = "deactivated"] ELSE user
    /\ UNCHANGED <<claim, artist, used, auto>>

\* activate_user does not look for another owner of the artist.
Activate(q) ==
    /\ Handles(q, "activate")
    /\ user' = IF Exists(q.on) /\ user[q.on].status = "deactivated"
               THEN [user EXCEPT ![q.on].status = "approved"] ELSE user
    /\ UNCHANGED <<claim, artist, used, auto>>

StillLinked(u) == user[u].artist               \* mutant: only the claim is deleted
AfterUnbind(u) == None

Unbind(q) ==
    /\ Handles(q, "unbind")
    /\ LET u == q.on IN
       IF Exists(u) /\ user[u].artist # None /\ user[u].status \in {"approved", "deactivated"}
       THEN /\ claim' = [claim EXCEPT ![u] = IF @ # None /\ @.artist = user[u].artist
                                             THEN None ELSE @]
            /\ user' = [user EXCEPT ![u].artist = AfterUnbind(u)]
       ELSE UNCHANGED <<claim, user>>
    /\ UNCHANGED <<artist, used, auto>>

ChangeRole(q, role) ==
    /\ Handles(q, "role")
    /\ user' = IF Exists(q.on) /\ ~IsAdmin(q.on)
               THEN [user EXCEPT ![q.on].role = role] ELSE user
    /\ UNCHANGED <<claim, artist, used, auto>>

ChangeSetting(q, value) ==
    /\ Handles(q, "auto")
    /\ auto' = value
    /\ UNCHANGED rows

\* A connection, a biography's tags or a recommendation job of an artist; the
\* foreign keys refuse one of an artist that was deleted meanwhile.
UseArtist(q) ==
    /\ Handles(q, "use")
    /\ used' = IF ArtistExists(q.on) THEN used \cup {q.on} ELSE used
    /\ UNCHANGED <<user, claim, artist, auto>>

(***************************************************************************)
(* The API process is started again                                        *)
(***************************************************************************)
\* create_bootstrap_admin picks some admin. When it may update accounts, the
\* admin it picks is named like the bootstrap admin: if that is another row,
\* the unique index refuses it and the process does not start.
RestartApi(name, update) ==
    /\ bootstrap' = name /\ ready' = {}
    /\ \E picked \in {u \in Users : IsAdmin(u)} :
          LET renames == name # None /\ update IN
          /\ running' = (~renames \/ picked = name)
          /\ user' = IF renames /\ picked = name
                     THEN [user EXCEPT ![name].status = "approved"] ELSE user
    /\ UNCHANGED <<claim, artist, used, auto>>

NextAccounts ==
    \/ \E u \in Users, a \in Artists : RegisterExisting(u, a) \/ RegisterNew(u, a)
    \/ \E q \in Requests :
          \/ Grant(q)
          \/ Approve(q) \/ Reject(q) \/ Deactivate(q) \/ Activate(q) \/ Unbind(q)
          \/ \E role \in {"artist", "agent"} : ChangeRole(q, role)
          \/ \E value \in BOOLEAN : ChangeSetting(q, value)
          \/ UseArtist(q)
    \/ \E name \in FirstAdmins \cup {None}, update \in BOOLEAN : RestartApi(name, update)

SpecAccounts == InitAccounts /\ [][NextAccounts]_accountVars

(***************************************************************************)
(* Properties                                                              *)
(***************************************************************************)
\* At most one account has or claims an artist, whatever its status is: also an
\* account that is activated again finds its artist free.
OneHolderPerArtist ==
    \A a \in Artists : Cardinality(Claimants(a) \cup
        {u \in Users : Exists(u) /\ user[u].artist = a}) <= 1

\* An account has an artist exactly when it has an approved claim to it.
AccountMatchesClaim ==
    \A u \in Users, a \in Artists :
        (Exists(u) /\ user[u].artist = a) <=> claim[u] = [artist |-> a, status |-> "approved"]

\* Deleting the profile of a rejected registration leaves no reference behind.
ReferencesAreKept ==
    \A a \in Artists : artist[a] = "deleted" =>
        a \notin used /\ \A u \in Users : Exists(u) => user[u].artist # a

\* Some admin is approved, although admins deactivate each other by requests
\* that were authorised before their own account was deactivated.
SomeAdminRemains == ApprovedAdmins # {}

\* The abstract view of the tables: claims say who holds an artist, the links of
\* accounts who owns it.
Owners == INSTANCE Ownership WITH
    holders <- [a \in Artists |-> Claimants(a)],
    owned <- {a \in Artists : \E u \in Users : Exists(u) /\ user[u].artist = a},
    referred <- used,
    gone <- {a \in Artists : artist[a] = "deleted"}

\* Every request is at most one step of an artist's ownership: claim and link are
\* confirmed and given back together, an artist never passes from one account to
\* another in one step, and none is taken, confirmed or lost as a side effect of
\* a decision about an account's status or role.
ImplementsOwnership == Owners!Spec
=============================================================================
